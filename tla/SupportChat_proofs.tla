-------------------------- MODULE SupportChat_proofs --------------------------
(***************************************************************************)
(* Proofs about SupportChat for any number of turns and any files: type    *)
(* correctness, that what the page says is uploaded is in the session of   *)
(* its thread, that a conversation stays in one session, that the thread   *)
(* is whole, and that the two handlers do not take away each other's       *)
(* messages.                                                               *)
(*                                                                         *)
(* The handlers run on captured values, so the second and the third rest   *)
(* on what a capture is worth later: as long as the page has a session, a  *)
(* turn and an upload hold that session, and a turn holds the thread as it *)
(* is (CapturesAreFresh).  AnsweredInSession is the conversation property  *)
(* with the page's own session in it; TurnAwaitsReply says where the       *)
(* question of a running turn is and that nothing answers it yet.          *)
(***************************************************************************)
EXTENDS SupportChat, TLAPS

(* The running turn is the last one sent; later ones are unheard of.       *)
TurnIsLast ==
  /\ turn # None => sent \in Turns
  /\ \A t \in Turns : t > sent => heard[t] = None
  /\ (turn # None /\ turn.at = "read") => heard[sent] # None

CapturesAreFresh ==
  /\ turn # None => turn.thread = messages
  /\ (turn # None /\ sessionId # None) =>
       turn.session = sessionId /\ (turn.at = "read" => heard[sent] = sessionId)
  /\ upload # None => sessionId # None /\ upload.session = sessionId

UploadsArrived ==
  uploadMessage # None => sessionId # None /\ <<uploadMessage, sessionId>> \in stored

Whole(m) == m.by = "assistant" /\ m.text = "whole"

AnsweredInSession ==
  \A m \in DOMAIN messages :
    Whole(messages[m]) =>
      /\ sessionId # None
      /\ heard[messages[m].turn] = sessionId
      /\ \A n \in DOMAIN messages : m < n => heard[messages[n].turn] \in {None, sessionId}

IInv == TypeOK /\ TurnIsLast /\ CapturesAreFresh /\ UploadsArrived /\ AnsweredInSession

-----------------------------------------------------------------------------
LEMMA ThreadFacts ==
  ASSUME messages \in Seq(Message)
  PROVE  /\ DOMAIN messages = 1..Len(messages) /\ Len(messages) \in Nat
         /\ \A n \in DOMAIN messages : messages[n].turn \in Turns
<1>1. DOMAIN messages = 1..Len(messages) /\ Len(messages) \in Nat
  OBVIOUS
<1>2. \A n \in DOMAIN messages : messages[n] \in Message
  BY <1>1
<1> QED BY <1>1, <1>2 DEF Message

(* The endpoint answers from a session of the turns, which is the page's   *)
(* session if it has one.                                                  *)
LEMMA SessionFacts ==
  ASSUME TypeOK, TurnIsLast, CapturesAreFresh, turn # None
  PROVE  /\ sent \in Turns
         /\ turn \in Turn
         /\ turn.at = "read" => heard[sent] \in Turns
         /\ (IF turn.session = None THEN sent ELSE turn.session) \in Turns
         /\ None \notin Turns
<1>1. None \notin Turns
  BY NoneAssumption, MaxTurnsAssumption DEF Turns
<1> QED BY <1>1 DEF TypeOK, TurnIsLast, Sessions, Turn

(* The kinds of steps a turn takes that the invariants see.                *)
Continues(at, session) ==
  /\ turn' = [turn EXCEPT !.at = at, !.session = session]
  /\ UNCHANGED <<messages, loading, error, sessionId, sent, earlier, uploadVars>>

LEMMA TurnSteps ==
  ASSUME TypeOK, TurnIsLast, CapturesAreFresh, HandleSubmit
  PROVE  /\ turn # None
         /\ erred' \in {erred, erred \cup {sent}}
         /\ \/ heard' = heard
            \/ /\ turn.at = "fetch"
               /\ heard' = [heard EXCEPT ![sent] = IF turn.session = None THEN sent ELSE turn.session]
         /\ \/ Fail
            \/ Continues("fetch", turn.session) /\ heard' = heard
            \/ \E session \in Sessions :
                 /\ Continues("read", session)
                 /\ heard'[sent] # None
                 /\ sessionId # None => session = sessionId /\ heard'[sent] = sessionId
            \/ Succeed("whole", heard[sent]) /\ heard' = heard /\ turn.at = "read"
            \/ Succeed("cut", turn.session) /\ heard' = heard /\ turn.at = "read"
<1>1. turn # None
  BY DEF HandleSubmit, TokenForTurn, Request, Read, ReadSession, ReadDone, ReadError, ReadEnd, ReadBreaks, At
<1>2. /\ sent \in Turns /\ None \notin Turns
      /\ turn \in Turn
      /\ heard \in [Turns -> Sessions]
      /\ turn.at = "read" => heard[sent] \in Turns
  BY <1>1, SessionFacts DEF TypeOK
<1>3. CASE TokenForTurn
  <2>1. [turn EXCEPT !.at = "fetch"] = [turn EXCEPT !.at = "fetch", !.session = turn.session]
    BY <1>2 DEF Turn
  <2> QED BY <1>1, <1>3, <2>1 DEF TokenForTurn, Continues
<1>4. CASE Request
  <2> DEFINE session == IF turn.session = None THEN sent ELSE turn.session
  <2>1. session \in Turns /\ (sessionId # None => session = sessionId)
    BY <1>1, SessionFacts DEF CapturesAreFresh
  <2>2. turn.at = "fetch" /\ erred' = erred
    BY <1>4 DEF Request, At
  <2>3. CASE Fail /\ heard' \in {heard, [heard EXCEPT ![sent] = session]}
    BY <1>1, <2>2, <2>3
  <2>4. ASSUME heard' = [heard EXCEPT ![sent] = session],
               NEW told \in {None, session},
               turn' = [turn EXCEPT !.at = "read", !.session = ActiveSession(told, turn.session)],
               UNCHANGED <<messages, loading, error, sessionId, sent, earlier, uploadVars>>
        PROVE  \E s \in Sessions :
                 /\ Continues("read", s)
                 /\ heard'[sent] # None
                 /\ sessionId # None => s = sessionId /\ heard'[sent] = sessionId
    <3>1. heard'[sent] = session
      BY <1>2, <2>4
    <3>2. ActiveSession(told, turn.session) \in Sessions
      BY <1>2, <2>1 DEF ActiveSession, Sessions, Turn
    <3>3. sessionId # None => ActiveSession(told, turn.session) = sessionId
      BY <1>1, <2>1 DEF ActiveSession, CapturesAreFresh
    <3> HIDE DEF session
    <3> QED BY <1>2, <2>1, <2>4, <3>1, <3>2, <3>3 DEF Continues
  <2>5. \/ Fail /\ heard' \in {heard, [heard EXCEPT ![sent] = session]}
        \/ /\ heard' = [heard EXCEPT ![sent] = session]
           /\ \E told \in {None, session} :
                turn' = [turn EXCEPT !.at = "read", !.session = ActiveSession(told, turn.session)]
           /\ UNCHANGED <<messages, loading, error, sessionId, sent, earlier, uploadVars>>
    BY <1>4 DEF Request
  <2> QED BY <1>1, <2>2, <2>3, <2>4, <2>5
<1>5. CASE ReadSession
  <2>1. [turn EXCEPT !.session = heard[sent]] = [turn EXCEPT !.at = "read", !.session = heard[sent]]
    BY <1>2, <1>5 DEF ReadSession, At, Turn
  <2>2. heard[sent] \in Sessions /\ heard[sent] # None
    BY <1>2, <1>5 DEF ReadSession, At, Sessions
  <2> QED BY <1>1, <1>5, <2>1, <2>2 DEF ReadSession, At, Continues, CapturesAreFresh
<1>6. CASE ReadDone
  BY <1>1, <1>6 DEF ReadDone, At
<1>7. CASE ReadError
  BY <1>1, <1>7 DEF ReadError
<1>8. CASE ReadEnd
  BY <1>1, <1>8 DEF ReadEnd, At
<1>9. CASE ReadBreaks
  BY <1>1, <1>9 DEF ReadBreaks
<1> QED BY <1>3, <1>4, <1>5, <1>6, <1>7, <1>8, <1>9 DEF HandleSubmit, Read

-----------------------------------------------------------------------------
(* A turn keeps all the invariants, by the kind of step it takes.          *)
LEMMA TurnKeepsThem == IInv /\ HandleSubmit => IInv'
<1> SUFFICES ASSUME IInv, HandleSubmit PROVE IInv'
  OBVIOUS
<1>0. TypeOK /\ TurnIsLast /\ CapturesAreFresh /\ UploadsArrived /\ AnsweredInSession
  BY DEF IInv
<1> DEFINE named == IF turn.session = None THEN sent ELSE turn.session
<1>1. /\ turn # None /\ sent \in Turns /\ None \notin Turns /\ named \in Turns
      /\ turn \in Turn /\ turn.session \in Sessions
      /\ turn.at = "read" => heard[sent] \in Turns
      /\ turn.thread = messages /\ messages \in Seq(Message)
      /\ heard \in [Turns -> Sessions] /\ erred \subseteq Turns
      /\ sessionId # None => named = sessionId
  BY <1>0, TurnSteps, SessionFacts DEF TypeOK, CapturesAreFresh, Turn
<1>2. /\ erred' \subseteq Turns
      /\ heard' \in [Turns -> Sessions]
      /\ \A t \in Turns : t # sent => heard'[t] = heard[t]
      /\ turn.at # "fetch" => heard' = heard
      /\ sessionId # None => heard'[sent] \in {heard[sent], sessionId}
  <2>1. heard' = heard \/ (turn.at = "fetch" /\ heard' = [heard EXCEPT ![sent] = named])
    BY <1>0, TurnSteps
  <2>2. erred' \in {erred, erred \cup {sent}}
    BY <1>0, TurnSteps
  <2> HIDE DEF named
  <2> QED BY <1>1, <2>1, <2>2 DEF Sessions
(* What was answered in the page's session stays so while it is the same.  *)
<1>3. sessionId' = sessionId /\ messages' = messages => AnsweredInSession'
  <2> SUFFICES ASSUME UNCHANGED <<sessionId, messages>>, NEW m \in DOMAIN messages, Whole(messages[m])
               PROVE  /\ sessionId # None
                      /\ heard'[messages[m].turn] = sessionId
                      /\ \A n \in DOMAIN messages : m < n => heard'[messages[n].turn] \in {None, sessionId}
    BY DEF AnsweredInSession, Whole
  <2>1. /\ sessionId # None
        /\ heard[messages[m].turn] = sessionId
        /\ \A n \in DOMAIN messages : m < n => heard[messages[n].turn] \in {None, sessionId}
    BY <1>0 DEF AnsweredInSession
  <2>2. \A n \in DOMAIN messages : messages[n].turn \in Turns
    BY <1>1, ThreadFacts
  <2>3. ASSUME NEW t \in Turns PROVE heard'[t] \in {heard[t], sessionId}
    BY <1>2, <2>1
  <2>4. heard'[messages[m].turn] = sessionId
    BY <2>1, <2>2, <2>3
  <2>5. \A n \in DOMAIN messages : m < n => heard'[messages[n].turn] \in {None, sessionId}
    BY <2>1, <2>2, <2>3
  <2> QED BY <2>1, <2>4, <2>5
<1>4. \A t \in Turns : t > sent => heard'[t] = None
  BY <1>0, <1>1, <1>2, MaxTurnsAssumption DEF TurnIsLast, Turns
<1>5. CASE Fail
  <2>1. TypeOK' /\ TurnIsLast' /\ CapturesAreFresh' /\ UploadsArrived'
    BY <1>0, <1>2, <1>4, <1>5
       DEF Fail, TypeOK, TurnIsLast, CapturesAreFresh, UploadsArrived, uploadVars
  <2> QED BY <1>3, <1>5, <2>1 DEF Fail, IInv
<1>6. ASSUME NEW session \in Sessions, NEW at \in {"fetch", "read"}, Continues(at, session),
             at = "read" => heard'[sent] # None,
             sessionId # None => session = sessionId /\ (at = "read" => heard'[sent] = sessionId)
      PROVE  IInv'
  <2>1. turn' = [at |-> at, thread |-> turn.thread, session |-> session] /\ turn' \in Turn /\ turn' # None
    BY <1>1, <1>6, NoneAssumption DEF Continues, Turn
  <2>2. TypeOK'
    BY <1>0, <1>1, <1>2, <1>6, <2>1 DEF Continues, TypeOK, uploadVars
  <2>3. TurnIsLast' /\ CapturesAreFresh' /\ UploadsArrived'
    BY <1>0, <1>1, <1>4, <1>6, <2>1 DEF Continues, TurnIsLast, CapturesAreFresh, UploadsArrived, uploadVars
  <2> QED BY <1>3, <1>6, <2>2, <2>3 DEF Continues, IInv
<1>7. ASSUME NEW text \in {"whole", "cut"}, NEW session \in Sessions, Succeed(text, session), heard' = heard,
             sessionId # None => session = sessionId,
             text = "whole" => session # None /\ heard[sent] = session,
             sessionId # None => heard[sent] = sessionId
      PROVE  IInv'
  <2> DEFINE reply == [by |-> "assistant", turn |-> sent, text |-> text]
  <2>1. reply \in Message /\ messages' = Append(messages, reply) /\ messages' \in Seq(Message)
    BY <1>1, <1>7 DEF Succeed, Message
  <2> HIDE DEF reply
  <2>2. TypeOK'
    BY <1>0, <1>2, <1>7, <2>1 DEF Succeed, TypeOK, uploadVars
  <2>21. TurnIsLast' /\ CapturesAreFresh' /\ UploadsArrived'
    BY <1>0, <1>4, <1>7 DEF Succeed, TurnIsLast, CapturesAreFresh, UploadsArrived, uploadVars
  <2> USE DEF reply
  <2>3. /\ DOMAIN messages' = 1..(Len(messages) + 1)
        /\ \A n \in DOMAIN messages : messages'[n] = messages[n]
        /\ messages'[Len(messages) + 1] = reply /\ reply.turn = sent /\ reply.text = text
    BY <1>1, <2>1
  <2>4. sessionId' = session
    BY <1>7 DEF Succeed
  <2> HIDE DEF reply
  <2>5. ASSUME NEW m \in DOMAIN messages', Whole(messages'[m])
        PROVE  /\ session # None
               /\ heard[messages'[m].turn] = session
               /\ \A n \in DOMAIN messages' : m < n => heard[messages'[n].turn] \in {None, session}
    <3>1. CASE m = Len(messages) + 1
      BY <1>1, <1>7, <2>3, <2>5, <3>1 DEF Whole
    <3>2. CASE m \in DOMAIN messages
      <4>1. /\ sessionId # None
            /\ heard[messages[m].turn] = sessionId
            /\ \A n \in DOMAIN messages : m < n => heard[messages[n].turn] \in {None, sessionId}
        BY <1>0, <2>3, <2>5, <3>2 DEF AnsweredInSession
      <4> QED BY <1>1, <1>7, <2>3, <3>2, <4>1
    <3> QED BY <1>1, <2>3, <3>1, <3>2
  <2>6. AnsweredInSession'
    BY <1>7, <2>4, <2>5 DEF AnsweredInSession, Whole
  <2> QED BY <2>2, <2>21, <2>6 DEF IInv
<1>8. CASE Continues("fetch", turn.session) /\ heard' = heard
  BY <1>0, <1>1, <1>6, <1>8 DEF CapturesAreFresh
<1>9. ASSUME NEW session \in Sessions, Continues("read", session), heard'[sent] # None,
             sessionId # None => session = sessionId /\ heard'[sent] = sessionId
      PROVE  IInv'
  BY <1>6, <1>9
<1>10. CASE Succeed("whole", heard[sent]) /\ heard' = heard /\ turn.at = "read"
  BY <1>0, <1>1, <1>7, <1>10 DEF CapturesAreFresh, Sessions
<1>11. CASE Succeed("cut", turn.session) /\ heard' = heard /\ turn.at = "read"
  BY <1>0, <1>1, <1>7, <1>11 DEF CapturesAreFresh
<1> HIDE DEF named
<1> QED BY ONLY IInv, HandleSubmit, <1>0, <1>5, <1>8, <1>9, <1>10, <1>11, TurnSteps

(* The user's steps and the upload.                                        *)
LEMMA OtherSteps == IInv /\ [Next]_vars => IInv'
<1> SUFFICES ASSUME IInv, [Next]_vars PROVE IInv'
  OBVIOUS
<1>0. /\ TypeOK /\ TurnIsLast /\ CapturesAreFresh /\ UploadsArrived /\ AnsweredInSession
      /\ None \notin Turns /\ None \notin Files
  BY NoneAssumption, MaxTurnsAssumption DEF IInv, Turns
<1>1. CASE Submit
  <2> DEFINE question == [by |-> "user", turn |-> sent + 1, text |-> "whole"]
  <2>1. sent + 1 \in Turns /\ sent' = sent + 1 /\ turn = None /\ sent \in Nat
    BY <1>0, <1>1, MaxTurnsAssumption DEF Submit, TypeOK, Turns
  <2>2. question \in Message /\ messages' = Append(messages, question) /\ messages' \in Seq(Message)
    BY <1>0, <1>1, <2>1 DEF Submit, Message, TypeOK
  <2>3. turn' = [at |-> "token", thread |-> messages', session |-> sessionId] /\ turn' \in Turn /\ turn' # None
    <3>1. turn' = [at |-> "token", thread |-> messages', session |-> sessionId] /\ sessionId \in Sessions
      BY <1>0, <1>1 DEF Submit, TypeOK
    <3>2. turn' \in Turn
      BY <2>2, <3>1 DEF Turn
    <3> QED BY <3>1, <3>2, NoneAssumption
  <2>31. sent' \in 0..MaxTurns /\ earlier' \in 0..sent'
    BY <1>0, <1>1, <2>1, MaxTurnsAssumption DEF Turns, TypeOK, Submit
  <2> HIDE DEF question
  <2>4. TypeOK'
    BY <1>0, <1>1, <2>2, <2>3, <2>31 DEF Submit, TypeOK, uploadVars
  <2> USE DEF question
  <2>5. TurnIsLast' /\ CapturesAreFresh' /\ UploadsArrived'
    BY <1>0, <1>1, <2>1, <2>3, MaxTurnsAssumption
       DEF Submit, TurnIsLast, CapturesAreFresh, UploadsArrived, uploadVars, Turns
  <2>6. heard[sent + 1] = None
    BY <1>0, <2>1 DEF TurnIsLast
  <2>7. /\ DOMAIN messages' = 1..(Len(messages) + 1)
        /\ \A n \in DOMAIN messages : messages'[n] = messages[n]
        /\ messages'[Len(messages) + 1] = question /\ question.turn = sent + 1 /\ question.by = "user"
    BY <1>0, <2>2 DEF TypeOK
  <2>8. sessionId' = sessionId /\ heard' = heard /\ DOMAIN messages = 1..Len(messages) /\ Len(messages) \in Nat
    BY <1>0, <1>1 DEF Submit, TypeOK
  <2> HIDE DEF question
  <2>9. ASSUME NEW m \in DOMAIN messages', Whole(messages'[m])
        PROVE  /\ sessionId # None
               /\ heard[messages'[m].turn] = sessionId
               /\ \A n \in DOMAIN messages' : m < n => heard[messages'[n].turn] \in {None, sessionId}
    <3>1. m \in DOMAIN messages
      BY <2>7, <2>8, <2>9 DEF Whole
    <3>2. /\ sessionId # None
          /\ heard[messages[m].turn] = sessionId
          /\ \A n \in DOMAIN messages : m < n => heard[messages[n].turn] \in {None, sessionId}
      BY <1>0, <2>7, <2>9, <3>1 DEF AnsweredInSession
    <3> QED BY <2>6, <2>7, <2>8, <3>1, <3>2
  <2>10. AnsweredInSession'
    BY <2>8, <2>9 DEF AnsweredInSession, Whole
  <2> QED BY <2>4, <2>5, <2>10 DEF IInv
<1>2. CASE HandleSubmit
  BY <1>2, TurnKeepsThem
<1>3. ASSUME UNCHANGED turnVars, TypeOK', CapturesAreFresh', UploadsArrived' PROVE IInv'
  BY <1>0, <1>3 DEF IInv, turnVars, TurnIsLast, AnsweredInSession, Whole
<1>4. CASE Choose
  <2>1. TypeOK' /\ CapturesAreFresh' /\ UploadsArrived'
    BY <1>0, <1>4 DEF Choose, TypeOK, CapturesAreFresh, UploadsArrived, turnVars
  <2> QED BY <1>3, <1>4, <2>1 DEF Choose
<1>5. CASE Upload
  <2>1. sessionId \in Turns /\ selectedFile \in Files
    BY <1>0, <1>5 DEF Upload, TypeOK, Sessions
  <2>2. /\ upload' = [at |-> "token", file |-> selectedFile, session |-> sessionId]
        /\ upload' \in FileUpload /\ upload' # None
    BY <1>5, <2>1, NoneAssumption DEF Upload, FileUpload
  <2>3. TypeOK'
    BY <1>0, <1>5, <2>2 DEF Upload, TypeOK, turnVars
  <2>4. CapturesAreFresh' /\ UploadsArrived'
    BY <1>0, <1>5, <2>2 DEF Upload, CapturesAreFresh, UploadsArrived, turnVars
  <2> QED BY <1>3, <1>5, <2>3, <2>4 DEF Upload
<1>6. CASE TokenForUpload
  <2>1. upload \in FileUpload
    BY <1>0, <1>6 DEF TokenForUpload, TypeOK
  <2>2. [upload EXCEPT !.at = "put"].session = upload.session /\ [upload EXCEPT !.at = "put"] \in FileUpload
    BY <2>1 DEF FileUpload
  <2>3. [upload EXCEPT !.at = "put"] # None
    BY <2>2, NoneAssumption
  <2>4. TypeOK'
    <3>1. CASE UploadFails
      BY <1>0, <1>6, <3>1 DEF TokenForUpload, UploadFails, TypeOK, turnVars
    <3>2. CASE upload' = [upload EXCEPT !.at = "put"] /\ UNCHANGED <<uploading, selectedFile, uploadMessage, error>>
      <4>1. upload' \in FileUpload /\ upload' # None /\ upload # None
        BY <1>6, <2>2, <2>3, <3>2 DEF TokenForUpload
      <4> QED BY <1>0, <1>6, <3>2, <4>1 DEF TokenForUpload, TypeOK, turnVars
    <3> QED BY <1>6, <3>1, <3>2 DEF TokenForUpload
  <2>5. CapturesAreFresh' /\ UploadsArrived'
    BY <1>0, <1>6, <2>2 DEF TokenForUpload, UploadFails, CapturesAreFresh, UploadsArrived, turnVars
  <2> QED BY <1>3, <1>6, <2>4, <2>5 DEF TokenForUpload
<1>7. CASE Put
  <2>1. upload \in FileUpload /\ upload.session = sessionId /\ sessionId # None
    BY <1>0, <1>7 DEF Put, TypeOK, CapturesAreFresh
  <2>2. upload.file \in Files /\ <<upload.file, upload.session>> \in Files \X Turns
    BY <2>1 DEF FileUpload
  <2>3. TypeOK'
    BY <1>0, <1>7, <2>2 DEF Put, UploadFails, TypeOK, turnVars
  <2>4. CapturesAreFresh' /\ UploadsArrived'
    BY <1>0, <1>7, <2>1 DEF Put, UploadFails, CapturesAreFresh, UploadsArrived, turnVars
  <2> QED BY <1>3, <1>7, <2>3, <2>4 DEF Put
<1>8. CASE SignOut
  <2>1. messages' = <<>> /\ messages' \in Seq(Message)
    BY <1>8 DEF SignOut
  <2>11. sent' \in 0..MaxTurns /\ earlier' \in 0..sent'
    BY <1>0, <1>8, MaxTurnsAssumption DEF SignOut, TypeOK
  <2>2. TypeOK'
    BY <1>0, <1>8, <2>1, <2>11 DEF SignOut, TypeOK, Sessions
  <2>3. TurnIsLast' /\ CapturesAreFresh' /\ UploadsArrived'
    BY <1>0, <1>8 DEF SignOut, TurnIsLast, CapturesAreFresh, UploadsArrived
  <2>4. AnsweredInSession'
    BY <2>1 DEF AnsweredInSession
  <2> QED BY <2>2, <2>3, <2>4 DEF IInv
<1>9. CASE UNCHANGED vars
  BY <1>0, <1>9 DEF vars, turnVars, uploadVars, IInv, TypeOK, TurnIsLast, CapturesAreFresh, UploadsArrived,
                    AnsweredInSession, Whole
<1> QED BY <1>1, <1>2, <1>4, <1>5, <1>6, <1>7, <1>8, <1>9 DEF Next, HandleUpload

LEMMA Invariance == Spec => []IInv
<1>1. Init => IInv
  <2> SUFFICES ASSUME Init PROVE IInv
    OBVIOUS
  <2>1. messages = <<>> /\ messages \in Seq(Message)
    BY DEF Init, FreshPage
  <2>11. sent \in 0..MaxTurns /\ earlier \in 0..sent /\ heard \in [Turns -> Sessions]
    BY MaxTurnsAssumption DEF Init, Sessions
  <2>2. TypeOK
    BY <2>1, <2>11 DEF Init, FreshPage, TypeOK, Sessions
  <2>3. TurnIsLast /\ CapturesAreFresh /\ UploadsArrived
    BY DEF Init, FreshPage, TurnIsLast, CapturesAreFresh, UploadsArrived
  <2>4. AnsweredInSession
    BY <2>1 DEF AnsweredInSession
  <2> QED BY <2>2, <2>3, <2>4 DEF IInv
<1> QED BY <1>1, OtherSteps, PTL DEF Spec

-----------------------------------------------------------------------------
(* The state keeps its types, and the page says that a handler runs        *)
(* exactly while it does.                                                  *)
THEOREM TypeCorrect == Spec => []TypeOK
<1>1. IInv => TypeOK BY DEF IInv
<1> QED BY Invariance, <1>1, PTL

(* handleUpload: what the page says is uploaded is in its session,         *)
(* although turns end beside the upload.                                   *)
THEOREM UploadsArrive == Spec => []UploadsReachTheThread
<1>1. IInv => UploadsReachTheThread BY DEF IInv, UploadsArrived, UploadsReachTheThread
<1> QED BY Invariance, <1>1, PTL

(* streamMessage and setSessionId: after a whole reply every message goes  *)
(* to the session that gave it.                                            *)
THEOREM OneConversation == Spec => []ConversationStaysTogether
<1>1. IInv => ConversationStaysTogether
  BY DEF IInv, AnsweredInSession, Whole, ConversationStaysTogether
<1> QED BY Invariance, <1>1, PTL

-----------------------------------------------------------------------------
(* While a turn runs, its question is the last message, no reply is to it  *)
(* yet and no error was read; later turns are unheard of.                  *)
TurnAwaitsReply ==
  /\ turn # None =>
       /\ messages # <<>> /\ messages[Len(messages)].by = "user"
       /\ sent \notin erred
       /\ \A n \in DOMAIN messages : messages[n].by = "assistant" => messages[n].turn < sent
  /\ \A t \in erred : t <= sent
  /\ \A n \in DOMAIN messages : messages[n].turn <= sent

ThreadInv == ThreadIsWhole /\ TurnAwaitsReply

LEMMA ThreadStep == IInv /\ ThreadInv /\ [Next]_vars => ThreadInv'
<1> SUFFICES ASSUME IInv, ThreadInv, [Next]_vars PROVE ThreadInv'
  OBVIOUS
<1>0. /\ TypeOK /\ TurnIsLast /\ CapturesAreFresh /\ NothingIsLost /\ NoReplyAfterError /\ TurnAwaitsReply
      /\ messages \in Seq(Message) /\ sent \in 0..MaxTurns /\ earlier \in 0..sent /\ erred \subseteq Turns
  BY DEF IInv, ThreadInv, ThreadIsWhole, TypeOK
<1>1. /\ DOMAIN messages = 1..Len(messages) /\ Len(messages) \in Nat
      /\ \A n \in DOMAIN messages : messages[n].turn \in Turns
  BY <1>0, ThreadFacts
<1>2. (messages = <<>> <=> Len(messages) = 0) /\ (messages # <<>> => Last(messages) = messages[Len(messages)])
  BY <1>0 DEF Last
<1>3. messages # <<>> => messages[Len(messages)].turn = sent
  BY <1>0, <1>2 DEF NothingIsLost
(* A message is added at the end.                                          *)
<1>4. ASSUME NEW m \in Message, messages' = Append(messages, m), UNCHANGED earlier
      PROVE  /\ DOMAIN messages' = 1..(Len(messages) + 1) /\ Len(messages') = Len(messages) + 1
             /\ messages' # <<>> /\ messages'[Len(messages) + 1] = m /\ Last(messages') = m
             /\ \A n \in DOMAIN messages : messages'[n] = messages[n]
  <2>1. DOMAIN messages' = 1..(Len(messages) + 1) /\ Len(messages') = Len(messages) + 1
    BY <1>0, <1>4
  <2>2. messages'[Len(messages) + 1] = m /\ \A n \in DOMAIN messages : messages'[n] = messages[n]
    BY <1>0, <1>4
  <2>3. messages' # <<>>
    BY <1>1, <2>1
  <2> QED BY <2>1, <2>2, <2>3 DEF Last
<1>5. CASE Submit
  <2> DEFINE question == [by |-> "user", turn |-> sent + 1, text |-> "whole"]
  <2>1. /\ sent + 1 \in Turns /\ sent' = sent + 1 /\ UNCHANGED <<earlier, erred>> /\ turn = None
        /\ messages' = Append(messages, question) /\ sent \in Nat
    BY <1>0, <1>5, MaxTurnsAssumption DEF Submit, TypeOK, Turns
  <2>2. question \in Message /\ question.by = "user" /\ question.turn = sent + 1
    BY <2>1 DEF Message
  <2> HIDE DEF question
  <2>3. /\ DOMAIN messages' = 1..(Len(messages) + 1) /\ Len(messages') = Len(messages) + 1
        /\ messages' # <<>> /\ messages'[Len(messages) + 1] = question /\ Last(messages') = question
        /\ \A n \in DOMAIN messages : messages'[n] = messages[n]
    BY <1>4, <2>1, <2>2
  <2>4. messages'[1].turn = earlier + 1
    <3>1. CASE messages = <<>>
      BY <1>0, <1>2, <2>2, <2>3, <3>1 DEF NothingIsLost
    <3>2. CASE messages # <<>>
      BY <1>0, <1>1, <1>2, <2>3, <3>2 DEF NothingIsLost
    <3> QED BY <3>1, <3>2
  <2>5. ASSUME NEW n \in DOMAIN messages'
        PROVE  IF messages'[n].by = "user"
               THEN n > 1 => messages'[n].turn = messages'[n - 1].turn + 1
               ELSE n > 1 /\ messages'[n - 1].by = "user" /\ messages'[n - 1].turn = messages'[n].turn
    <3>1. CASE n \in DOMAIN messages
      <4>1. n > 1 => n - 1 \in DOMAIN messages
        BY <1>1, <3>1
      <4> QED BY <1>0, <2>3, <3>1, <4>1 DEF NothingIsLost
    <3>2. CASE n = Len(messages) + 1
      BY <1>1, <1>2, <1>3, <2>2, <2>3, <3>2
    <3> QED BY <1>1, <2>3, <3>1, <3>2
  <2>6. NothingIsLost'
    BY <2>1, <2>2, <2>3, <2>4, <2>5 DEF NothingIsLost
  <2>7. \A n \in DOMAIN messages' : n \in DOMAIN messages \/ messages'[n] = question
    BY <1>1, <2>3
  <2>8. NoReplyAfterError'
    BY <1>0, <2>1, <2>2, <2>3, <2>7 DEF NoReplyAfterError
  <2>9. (\A t \in erred' : t <= sent') /\ sent' \notin erred'
    BY <1>0, <2>1, MaxTurnsAssumption DEF TurnAwaitsReply, Turns
  <2>10. \A n \in DOMAIN messages' : messages'[n].turn <= sent' /\ (messages'[n].by = "assistant" => messages'[n].turn < sent')
    BY <1>0, <1>1, <2>1, <2>2, <2>3, <2>7, MaxTurnsAssumption DEF TurnAwaitsReply, Turns
  <2>11. TurnAwaitsReply'
    BY <2>2, <2>3, <2>9, <2>10 DEF TurnAwaitsReply
  <2> QED BY <2>6, <2>8, <2>11 DEF ThreadInv, ThreadIsWhole
<1>6. ASSUME UNCHANGED <<messages, sent, earlier>>, erred' = erred,
             turn # None \/ turn' = None
      PROVE  ThreadInv'
  BY <1>0, <1>6 DEF ThreadInv, ThreadIsWhole, NothingIsLost, NoReplyAfterError, TurnAwaitsReply
<1>7. CASE HandleSubmit
  <2>0. turn # None /\ sent \in Turns /\ turn.thread = messages /\ erred' \in {erred, erred \cup {sent}}
    BY <1>0, <1>7, TurnSteps DEF CapturesAreFresh, TurnIsLast
  <2>1. CASE Fail
    <3>1. UNCHANGED <<messages, sent, earlier>> /\ turn' = None
      BY <2>1 DEF Fail, uploadVars
    <3>2. NothingIsLost'
      BY <1>0, <3>1 DEF NothingIsLost
    <3>3. NoReplyAfterError'
      <4>1. ASSUME NEW n \in DOMAIN messages, messages[n].by = "assistant" PROVE messages[n].turn \notin erred'
        BY <1>0, <1>1, <2>0, <4>1, MaxTurnsAssumption DEF NoReplyAfterError, TurnAwaitsReply, Turns
      <4> QED BY <3>1, <4>1 DEF NoReplyAfterError
    <3>4. TurnAwaitsReply'
      BY <1>0, <2>0, <3>1 DEF TurnAwaitsReply
    <3> QED BY <3>2, <3>3, <3>4 DEF ThreadInv, ThreadIsWhole
  <2>2. ASSUME NEW text \in {"whole", "cut"}, NEW session, Succeed(text, session), turn.at = "read", erred' = erred
        PROVE  ThreadInv'
    <3> DEFINE reply == [by |-> "assistant", turn |-> sent, text |-> text]
    <3>1. /\ messages' = Append(messages, reply) /\ UNCHANGED <<sent, earlier>> /\ turn' = None
          /\ reply \in Message /\ reply.by = "assistant" /\ reply.turn = sent
      BY <2>0, <2>2 DEF Succeed, Message
    <3> HIDE DEF reply
    <3>2. /\ DOMAIN messages' = 1..(Len(messages) + 1) /\ Len(messages') = Len(messages) + 1
          /\ messages' # <<>> /\ messages'[Len(messages) + 1] = reply /\ Last(messages') = reply
          /\ \A n \in DOMAIN messages : messages'[n] = messages[n]
      BY <1>4, <3>1
    <3>3. messages # <<>> /\ messages[Len(messages)].by = "user" /\ sent \notin erred
      BY <1>0, <2>0 DEF TurnAwaitsReply
    <3>4. Len(messages) \in DOMAIN messages /\ 1 \in DOMAIN messages
      BY <1>1, <1>2, <3>3
    <3>5. ASSUME NEW n \in DOMAIN messages'
          PROVE  IF messages'[n].by = "user"
                 THEN n > 1 => messages'[n].turn = messages'[n - 1].turn + 1
                 ELSE n > 1 /\ messages'[n - 1].by = "user" /\ messages'[n - 1].turn = messages'[n].turn
      <4>1. CASE n \in DOMAIN messages
        <5>1. n > 1 => n - 1 \in DOMAIN messages
          BY <1>1, <4>1
        <5> QED BY <1>0, <3>2, <4>1, <5>1 DEF NothingIsLost
      <4>2. CASE n = Len(messages) + 1
        BY <1>1, <1>3, <3>1, <3>2, <3>3, <3>4, <4>2
      <4> QED BY <1>1, <3>2, <4>1, <4>2
    <3>6. NothingIsLost'
      <4>1. messages'[1].turn = earlier + 1
        BY <1>0, <3>2, <3>3, <3>4 DEF NothingIsLost
      <4> QED BY <3>1, <3>2, <3>5, <4>1 DEF NothingIsLost
    <3>7. \A n \in DOMAIN messages' : n \in DOMAIN messages \/ messages'[n] = reply
      BY <1>1, <3>2
    <3>8. NoReplyAfterError'
      BY <1>0, <2>2, <3>1, <3>2, <3>3, <3>7 DEF NoReplyAfterError
    <3>9. TurnAwaitsReply'
      BY <1>0, <1>1, <2>2, <3>1, <3>2, <3>7, MaxTurnsAssumption DEF TurnAwaitsReply, Turns
    <3> QED BY <3>6, <3>8, <3>9 DEF ThreadInv, ThreadIsWhole
  <2>3. ASSUME NEW at, NEW session, Continues(at, session), ~ReadError PROVE ThreadInv'
    <3>1. UNCHANGED <<messages, sent, earlier>>
      BY <2>3 DEF Continues
    <3>2. erred' = erred
      BY <1>7, <2>3 DEF HandleSubmit, TokenForTurn, Request, Read, ReadSession, ReadDone, ReadEnd, ReadBreaks
    <3> QED BY <1>6, <2>0, <3>1, <3>2
  <2>4. CASE ReadError
    BY <2>1, <2>4 DEF ReadError
  <2>5. ~ReadError => erred' = erred
    BY <1>7 DEF HandleSubmit, TokenForTurn, Request, Read, ReadSession, ReadDone, ReadEnd, ReadBreaks
  <2> QED BY <1>0, <1>7, <2>1, <2>2, <2>3, <2>4, <2>5, TurnSteps
<1>8. CASE Choose \/ Upload \/ HandleUpload \/ UNCHANGED vars
  <2>1. UNCHANGED turnVars
    BY <1>8 DEF Choose, Upload, HandleUpload, TokenForUpload, Put, vars
  <2> QED BY <1>6, <2>1 DEF turnVars
<1>9. CASE SignOut
  <2>1. messages' = <<>> /\ turn' = None /\ earlier' = sent /\ UNCHANGED <<sent, erred>>
    BY <1>9 DEF SignOut
  <2>2. DOMAIN messages' = {}
    BY <2>1
  <2> QED BY <1>0, <2>1, <2>2 DEF ThreadInv, ThreadIsWhole, NothingIsLost, NoReplyAfterError, TurnAwaitsReply
<1> QED BY <1>5, <1>7, <1>8, <1>9 DEF Next

(* handleSubmit: the thread holds every message sent since the page was    *)
(* loaded, each reply behind its question and no reply of a turn whose     *)
(* stream carried an error, although turns write what they captured.       *)
THEOREM ThreadStaysWhole == Spec => []ThreadIsWhole
<1>1. Init => ThreadInv
  BY DEF Init, FreshPage, ThreadInv, ThreadIsWhole, NothingIsLost, NoReplyAfterError, TurnAwaitsReply
<1>2. ThreadInv => ThreadIsWhole
  BY DEF ThreadInv
<1> QED BY <1>1, <1>2, ThreadStep, Invariance, PTL DEF Spec

-----------------------------------------------------------------------------
(* The chosen file is the one being uploaded, for the picker is disabled.  *)
UploadIsChosen == upload # None => selectedFile = upload.file

LEMMA ChosenStep == TypeOK /\ UploadIsChosen /\ [Next]_vars => UploadIsChosen'
<1> SUFFICES ASSUME TypeOK, UploadIsChosen, [Next]_vars PROVE UploadIsChosen'
  OBVIOUS
<1>1. ASSUME UNCHANGED uploadVars PROVE UploadIsChosen'
  BY <1>1 DEF uploadVars, UploadIsChosen
<1>2. CASE HandleSubmit
  BY <1>1, <1>2 DEF HandleSubmit, TokenForTurn, Request, Read, ReadSession, ReadDone, ReadError, ReadEnd, ReadBreaks,
                    Fail, Succeed
<1>3. CASE Choose
  BY <1>3 DEF Choose, TypeOK, UploadIsChosen
<1>4. CASE Upload
  BY <1>4 DEF Upload, UploadIsChosen
<1>5. CASE TokenForUpload
  <2>1. upload \in FileUpload
    BY <1>5 DEF TokenForUpload, TypeOK
  <2>2. [upload EXCEPT !.at = "put"].file = upload.file
    BY <2>1 DEF FileUpload
  <2> QED BY <1>5, <2>2 DEF TokenForUpload, UploadFails, UploadIsChosen
<1>6. CASE Put
  BY <1>6 DEF Put, UploadFails, UploadIsChosen
<1>7. CASE SignOut
  BY <1>7 DEF SignOut, UploadIsChosen
<1> QED BY <1>1, <1>2, <1>3, <1>4, <1>5, <1>6, <1>7 DEF Next, HandleUpload, Submit, vars

(* handleSubmit and handleUpload, side by side: neither takes away the     *)
(* error message or the chosen file that belongs to the other.             *)
THEOREM HandlersDoNotMeddle == Spec => HandlersKeepApart
<1> DEFINE Apart == /\ ErrorGoes => (sent' > sent \/ (upload = None /\ upload' # None) \/ FreshPage')
                    /\ ChosenFileGoes => (selectedFile \in {None, upload.file} \/ FreshPage')
<1>1. Init => UploadIsChosen
  BY DEF Init, FreshPage, UploadIsChosen
<1>2. TypeOK /\ UploadIsChosen /\ [Next]_vars => [Apart]_vars
  <2> SUFFICES ASSUME TypeOK, UploadIsChosen, Next PROVE Apart
    OBVIOUS
  <2>1. ChosenFileGoes => selectedFile = upload.file
    BY DEF ChosenFileGoes, UploadIsChosen, TypeOK
  <2>2. error /\ ~error' => sent' > sent \/ (upload = None /\ upload' # None) \/ FreshPage'
    <3>1. CASE Submit
      BY <3>1 DEF Submit, TypeOK
    <3>2. CASE Upload
      <4>1. upload = None
        BY <3>2 DEF Upload, TypeOK
      <4>2. upload' \in FileUpload
        BY <3>2 DEF Upload, TypeOK, FileUpload, Sessions
      <4> QED BY <4>1, <4>2, NoneAssumption
    <3>3. CASE SignOut
      BY <3>3 DEF SignOut, FreshPage
    <3>4. ASSUME error' = TRUE \/ UNCHANGED error PROVE error => error'
      BY <3>4
    <3>5. CASE HandleSubmit
      BY <3>4, <3>5 DEF HandleSubmit, TokenForTurn, Request, Read, ReadSession, ReadDone, ReadError, ReadEnd, ReadBreaks,
                        Fail, Succeed
    <3>6. CASE Choose \/ HandleUpload
      BY <3>4, <3>6 DEF Choose, HandleUpload, TokenForUpload, Put, UploadFails
    <3> QED BY <3>1, <3>2, <3>3, <3>5, <3>6 DEF Next
  <2> QED BY <2>1, <2>2 DEF ErrorGoes
<1>3. Spec => [][Apart]_vars
  BY <1>1, <1>2, ChosenStep, TypeCorrect, PTL DEF Spec
<1> QED BY <1>3 DEF HandlersKeepApart
=============================================================================
