------------------------------ MODULE SupportChat ------------------------------
(***************************************************************************)
(* The web client of the support-case agent: App.tsx with streamMessage    *)
(* and uploadSessionFile of agentService.ts.  Two async handlers run on    *)
(* one page, handleSubmit (a turn) and handleUpload; each works on the     *)
(* values of the render it was called in, so the messages and the session  *)
(* id it captured are fields of its record here.                           *)
(*                                                                         *)
(* A turn may be sent while a file is uploading, not the other way round.  *)
(* A message is who it is by, its turn, and for a reply whether done came  *)
(* ("whole") or the stream just ended ("cut"); its words, the streaming    *)
(* text and the list of activities only concern the layout.  Uploads are   *)
(* to one path.                                                            *)
(*                                                                         *)
(* External: MSAL, and the Invocations endpoint, which keeps a request in  *)
(* the session it names and makes a session for one that names none.  A    *)
(* session is named by the turn it was made for.                           *)
(***************************************************************************)
EXTENDS Naturals, Sequences, SequencesExt

CONSTANTS
  MaxTurns,  \* bound: messages sent
  Files,     \* the files the user may choose
  None       \* no session, no file, nothing under way

Turns == 1..MaxTurns
Sessions == Turns \cup {None}
Message == [by : {"user", "assistant"}, turn : Turns, text : {"whole", "cut"}]
Turn == [at : {"token", "fetch", "read"}, thread : Seq(Message), session : Sessions]
FileUpload == [at : {"token", "put"}, file : Files, session : Turns]

ASSUME MaxTurnsAssumption == MaxTurns \in Nat
ASSUME NoneAssumption == None \notin Nat \cup Files \cup Turn \cup FileUpload

VARIABLES
  messages,       \* the thread on the page
  loading,        \* a turn is under way, says the page
  uploading,      \* an upload is under way, says the page
  error,          \* the page shows an error
  sessionId,      \* the session of the page, or None
  selectedFile,   \* the file in the picker, or None
  uploadMessage,  \* the file the page says is uploaded, or None
  turn,           \* the running handleSubmit, or None
  upload,         \* the running handleUpload, or None
  sent,           \* how many turns the user has sent
  earlier,        \* how many of them before the page was loaded
  heard,          \* endpoint: the session each turn came to, None if it did not
  erred,          \* endpoint: turns whose stream carried an error event
  stored          \* endpoint: the files of each session, <<file, session>>

turnVars == <<messages, loading, sessionId, turn, sent, earlier, heard, erred>>
uploadVars == <<uploading, selectedFile, uploadMessage, upload, stored>>
vars == <<turnVars, uploadVars, error>>

(* The page as it is loaded.                                               *)
FreshPage ==
  /\ messages = <<>> /\ loading = FALSE /\ uploading = FALSE /\ error = FALSE
  /\ sessionId = None /\ selectedFile = None /\ uploadMessage = None
  /\ turn = None /\ upload = None

Init ==
  /\ FreshPage
  /\ sent = 0 /\ earlier = 0
  /\ heard = [t \in Turns |-> None]
  /\ erred = {}
  /\ stored = {}

-----------------------------------------------------------------------------
(* A turn.                                                                 *)

Submit ==
  /\ ~loading /\ sent < MaxTurns
  /\ sent' = sent + 1
  /\ messages' = Append(messages, [by |-> "user", turn |-> sent', text |-> "whole"])
  /\ error' = FALSE /\ loading' = TRUE
  /\ turn' = [at |-> "token", thread |-> messages', session |-> sessionId]
  /\ UNCHANGED <<sessionId, earlier, heard, erred, uploadVars>>

(* Mutant: loading is only reset by a turn that succeeds.                  *)
FailKeepsLoading ==
  /\ error' = TRUE /\ turn' = None
  /\ UNCHANGED <<messages, loading, sessionId, sent, earlier, uploadVars>>

(* The catch block, then finally.                                          *)
Fail ==
  /\ error' = TRUE /\ loading' = FALSE /\ turn' = None
  /\ UNCHANGED <<messages, sessionId, sent, earlier, uploadVars>>

(* Mutant: the reply is appended to the messages of the render the turn    *)
(* began in, where the question is not yet there.                          *)
SucceedOnStaleThread(text, session) ==
  /\ sessionId' = session
  /\ messages' = Append(Front(turn.thread), [by |-> "assistant", turn |-> sent, text |-> text])
  /\ loading' = FALSE /\ turn' = None
  /\ UNCHANGED <<error, sent, earlier, uploadVars>>

(* streamMessage has returned: the rest of the try block, then finally.    *)
Succeed(text, session) ==
  /\ sessionId' = session
  /\ messages' = Append(turn.thread, [by |-> "assistant", turn |-> sent, text |-> text])
  /\ loading' = FALSE /\ turn' = None
  /\ UNCHANGED <<error, sent, earlier, uploadVars>>

At(step) == turn # None /\ turn.at = step

(* acquireTokenSilent, and the popup when that fails.                      *)
TokenForTurn ==
  /\ At("token")
  /\ \/ turn' = [turn EXCEPT !.at = "fetch"] /\ UNCHANGED <<messages, loading, error, sessionId, sent, earlier, uploadVars>>
     \/ Fail
  /\ UNCHANGED <<heard, erred>>

(* Mutant: without the header there is no session.                         *)
HeaderSession(told, captured) == told

(* responseSessionId ?? sessionId                                          *)
ActiveSession(told, captured) == IF told = None THEN captured ELSE told

(* fetch: it may throw before or after the request has come to the         *)
(* endpoint, or resolve with an error status, or with a stream, whose      *)
(* header may name the session.                                            *)
Request ==
  /\ At("fetch")
  /\ LET session == IF turn.session = None THEN sent ELSE turn.session IN
       \/ Fail /\ UNCHANGED heard
       \/ Fail /\ heard' = [heard EXCEPT ![sent] = session]
       \/ /\ heard' = [heard EXCEPT ![sent] = session]
          /\ \E told \in {None, session} :
               turn' = [turn EXCEPT !.at = "read", !.session = ActiveSession(told, turn.session)]
          /\ UNCHANGED <<messages, loading, error, sessionId, sent, earlier, uploadVars>>
  /\ UNCHANGED erred

(* Payloads that name the session; every other payload that neither is     *)
(* done nor an error changes nothing but the text.                         *)
ReadSession ==
  /\ At("read")
  /\ turn' = [turn EXCEPT !.session = heard[sent]]
  /\ UNCHANGED <<messages, loading, error, sessionId, sent, earlier, heard, erred, uploadVars>>

(* The endpoint's done names the session.                                  *)
ReadDone ==
  /\ At("read")
  /\ Succeed("whole", heard[sent])
  /\ UNCHANGED <<heard, erred>>

ReadError ==
  /\ At("read")
  /\ erred' = erred \cup {sent}
  /\ Fail
  /\ UNCHANGED heard

(* The stream ends without done: what has come counts as the reply.        *)
ReadEnd ==
  /\ At("read")
  /\ Succeed("cut", turn.session)
  /\ UNCHANGED <<heard, erred>>

ReadBreaks ==
  /\ At("read")
  /\ Fail
  /\ UNCHANGED <<heard, erred>>

Read == ReadSession \/ ReadDone \/ ReadError \/ ReadEnd \/ ReadBreaks

-----------------------------------------------------------------------------
(* An upload.                                                              *)

(* The picker, which is disabled while loading or uploading; leaving its   *)
(* dialog without a file empties it.                                       *)
Choose ==
  /\ ~loading /\ ~uploading
  /\ \E file \in Files \cup {None} : selectedFile' = file
  /\ uploadMessage' = None
  /\ UNCHANGED <<uploading, upload, stored, error, turnVars>>

(* handleUpload; its button is disabled without a session.                 *)
Upload ==
  /\ selectedFile # None /\ sessionId # None /\ ~loading /\ ~uploading
  /\ uploadMessage' = None /\ error' = FALSE /\ uploading' = TRUE
  /\ upload' = [at |-> "token", file |-> selectedFile, session |-> sessionId]
  /\ UNCHANGED <<selectedFile, stored, turnVars>>

UploadFails ==
  /\ error' = TRUE /\ uploading' = FALSE /\ upload' = None
  /\ UNCHANGED <<selectedFile, uploadMessage>>

TokenForUpload ==
  /\ upload # None /\ upload.at = "token"
  /\ \/ upload' = [upload EXCEPT !.at = "put"] /\ UNCHANGED <<uploading, selectedFile, uploadMessage, error>>
     \/ UploadFails
  /\ UNCHANGED <<stored, turnVars>>

(* Mutant: an upload that succeeds takes the error away.                   *)
PutClearsError ==
  /\ upload # None /\ upload.at = "put"
  /\ stored' = stored \cup {<<upload.file, upload.session>>}
  /\ uploadMessage' = upload.file /\ selectedFile' = None
  /\ uploading' = FALSE /\ upload' = None
  /\ error' = FALSE
  /\ UNCHANGED turnVars

(* Mutant: a PUT that fails is reported as if it had succeeded.            *)
PutUnchecked ==
  /\ upload # None /\ upload.at = "put"
  /\ stored' \in {stored, stored \cup {<<upload.file, upload.session>>}}
  /\ uploadMessage' = upload.file /\ selectedFile' = None
  /\ uploading' = FALSE /\ upload' = None
  /\ UNCHANGED <<turnVars, error>>

(* The PUT, and its answer: a failure may follow a file that was stored.   *)
Put ==
  /\ upload # None /\ upload.at = "put"
  /\ \/ /\ stored' = stored \cup {<<upload.file, upload.session>>}
        /\ uploadMessage' = upload.file /\ selectedFile' = None
        /\ uploading' = FALSE /\ upload' = None
        /\ UNCHANGED error
     \/ /\ stored' \in {stored, stored \cup {<<upload.file, upload.session>>}}
        /\ UploadFails
  /\ UNCHANGED turnVars

(* handleSignOut: the main window is sent to the origin and loads anew.    *)
SignOut ==
  /\ messages' = <<>> /\ loading' = FALSE /\ uploading' = FALSE /\ error' = FALSE
  /\ sessionId' = None /\ selectedFile' = None /\ uploadMessage' = None
  /\ turn' = None /\ upload' = None
  /\ earlier' = sent
  /\ UNCHANGED <<sent, heard, erred, stored>>

-----------------------------------------------------------------------------
HandleSubmit == TokenForTurn \/ Request \/ Read
HandleUpload == TokenForUpload \/ Put

Next == Submit \/ HandleSubmit \/ Choose \/ Upload \/ HandleUpload \/ SignOut

Spec == Init /\ [][Next]_vars

(* MSAL settles (a popup can be closed), fetch settles, and a stream comes *)
(* to an end one way or the other.                                         *)
Fairness ==
  /\ WF_vars(TokenForTurn \/ Request)
  /\ WF_vars(ReadDone \/ ReadError \/ ReadEnd \/ ReadBreaks)
  /\ WF_vars(HandleUpload)

FairSpec == Spec /\ Fairness

-----------------------------------------------------------------------------
(* The type invariant; the page says that a handler runs exactly while it  *)
(* does.                                                                   *)
TypeOK ==
  /\ messages \in Seq(Message)
  /\ loading \in BOOLEAN /\ (loading <=> turn # None)
  /\ uploading \in BOOLEAN /\ (uploading <=> upload # None)
  /\ error \in BOOLEAN
  /\ sessionId \in Sessions
  /\ {selectedFile, uploadMessage} \subseteq Files \cup {None}
  /\ turn = None \/ turn \in Turn
  /\ upload = None \/ upload \in FileUpload
  /\ sent \in 0..MaxTurns /\ earlier \in 0..sent
  /\ heard \in [Turns -> Sessions]
  /\ erred \subseteq Turns
  /\ stored \subseteq Files \X Turns

(* Nothing is lost from the thread: it holds every message sent since the  *)
(* page was loaded, in order, and each reply right behind its question,    *)
(* although a turn writes the whole thread from what it captured.          *)
NothingIsLost ==
  /\ messages = <<>> => sent = earlier
  /\ messages # <<>> => messages[1].turn = earlier + 1 /\ Last(messages).turn = sent
  /\ \A n \in DOMAIN messages :
       IF messages[n].by = "user"
       THEN n > 1 => messages[n].turn = messages[n - 1].turn + 1
       ELSE n > 1 /\ messages[n - 1].by = "user" /\ messages[n - 1].turn = messages[n].turn

(* A turn whose stream carried an error event shows no reply, although the *)
(* endpoint writes a done payload, with the text so far, after the error.  *)
NoReplyAfterError ==
  \A n \in DOMAIN messages : messages[n].by = "assistant" => messages[n].turn \notin erred

(* The thread shows every message and reply in its place, and no reply of  *)
(* a turn that went wrong.                                                 *)
ThreadIsWhole == NothingIsLost /\ NoReplyAfterError

(* Once a reply has been read to its done, every later message of the page *)
(* goes to the session that gave it, through failed turns, streams that    *)
(* are cut, and answers whose header names no session.                     *)
ConversationStaysTogether ==
  \A m, n \in DOMAIN messages :
    (m < n /\ messages[m].by = "assistant" /\ messages[m].text = "whole" /\ heard[messages[n].turn] # None) =>
      heard[messages[n].turn] = heard[messages[m].turn]

(* A file the page says is uploaded is in the session the page's messages  *)
(* go to, although turns run beside the upload.                            *)
UploadsReachTheThread == uploadMessage # None => <<uploadMessage, sessionId>> \in stored

ErrorGoes == error /\ ~error'
ChosenFileGoes == uploading /\ selectedFile # selectedFile'

(* The two handlers share one page and run side by side.  The message of a *)
(* failure goes only when the user starts something or leaves, never by    *)
(* the end of the other handler; and a chosen file goes from the picker    *)
(* only by the user's hand, or once it is the file that was uploaded.      *)
HandlersKeepApart ==
  [][/\ ErrorGoes => (sent' > sent \/ (upload = None /\ upload' # None) \/ FreshPage')
     /\ ChosenFileGoes => (selectedFile \in {None, upload.file} \/ FreshPage')]_vars

(* Every turn and every upload comes to an end, and the page is usable.    *)
TurnsAndUploadsEnd == (loading ~> ~loading) /\ (uploading ~> ~uploading)
=============================================================================
