------------------------------ MODULE ChatServer ------------------------------
(***************************************************************************)
(* server.js of the chat app: a proxy that answers the page's requests     *)
(* with a token of the Azure CLI.  The handler is one async function; it   *)
(* is cut at its awaits (the body, the token, the answer of the agent and  *)
(* its text or stream, the synthesis), and what stands between two awaits  *)
(* is one step, the end of the response or the catch block included.       *)
(*                                                                         *)
(* The token cache is shared by all requests.  A request that misses it    *)
(* runs `az` for itself, so several runs may be under way at once and end  *)
(* in any order.  Time is counted in minutes; az prints its token and      *)
(* exits within the minute it took the token in.                           *)
(*                                                                         *)
(* External: the browser (which bodies arrive), az, the agent's endpoints, *)
(* the Speech SDK.  A client that goes away later than its body changes    *)
(* nothing: writes to a closed response are dropped and the loop goes on.  *)
(***************************************************************************)
EXTENDS Naturals

CONSTANTS
  Requests,   \* the HTTP requests
  Margin,     \* a cached token is used until so many minutes before its end
  Fallback,   \* the minutes given to a token whose end az does not tell
  Lifetimes,  \* the minutes a token of az may have left
  MaxTime,    \* bound: minutes the clock runs
  NoToken     \* no token

ASSUME MinutesAssumption ==
  /\ Margin \in Nat /\ Fallback \in Nat /\ MaxTime \in Nat
  /\ Lifetimes \subseteq Nat

(* az renews a token of its own that has less than five minutes left.      *)
ASSUME AzRenewsAssumption == \A l \in Lifetimes : l >= Fallback

VARIABLES
  now,    \* Date.now()
  cache,  \* tokenCaches.get(RESOURCE): the token and its recorded end, exp
  pc,     \* the await each request is in
  route,  \* the path of each request
  az,     \* the output of the az run of each request, NoToken before it
  heads,  \* how often each response has been given a status
  synths  \* the requests that hold a speech synthesizer

serverVars == <<now, cache, pc, route, az, heads, synths>>

Routes == {"page", "conversation", "message", "tts"}
NoEntry == [value |-> NoToken, exp |-> 0]

(* A token is named by the minute it ends in.                              *)
ServerInit ==
  /\ now = 0
  /\ cache = NoEntry
  /\ pc = [r \in Requests |-> "new"]
  /\ route = [r \in Requests |-> "page"]
  /\ az = [r \in Requests |-> NoToken]
  /\ heads = [r \in Requests |-> 0]
  /\ synths = {}

Goto(r, step) == pc' = [pc EXCEPT ![r] = step] /\ UNCHANGED route

WriteHead(r) == heads' = [heads EXCEPT ![r] = @ + 1]

(* res.end; the handler is left and its locals are gone.                   *)
End(r) ==
  /\ pc' = [pc EXCEPT ![r] = "ended"]
  /\ route' = [route EXCEPT ![r] = "page"]

(* writeHead and end, or sendJson.                                         *)
Respond(r) == End(r) /\ WriteHead(r)

(* Mutant: the catch block always answers 500.                             *)
ThrowAlways500(r) == Respond(r)

(* Mutant: the catch block leaves a response that has started open.        *)
ThrowKeepsOpen(r) == IF heads[r] = 0 THEN Respond(r) ELSE Goto(r, "left") /\ UNCHANGED heads

(* An exception anywhere in the handler: the catch block.                  *)
Throw(r) == IF heads[r] = 0 THEN Respond(r) ELSE End(r) /\ UNCHANGED heads

-----------------------------------------------------------------------------
(* The token.                                                              *)

Hit == cache.value # NoToken /\ now + Margin < cache.exp

(* getToken up to its first await: a hit resolves with the cached token,    *)
(* and the handler goes straight on to fetch.                              *)
GetToken(r) ==
  Goto(r, IF Hit THEN "fetch" ELSE "az")

(* az takes a token; its output may lack the end, or the token itself.     *)
Outputs(end) == {[value |-> end, exp |-> end], [value |-> end, exp |-> NoToken], [value |-> NoToken, exp |-> end]}

AzRuns(r) ==
  /\ pc[r] = "az" /\ az[r] = NoToken
  /\ \E l \in Lifetimes : \E output \in Outputs(now + l) : az' = [az EXCEPT ![r] = output]
  /\ UNCHANGED <<now, cache, pc, route, heads, synths>>

(* Mutant: the entry keeps the later of the two ends.                      *)
EntryOfLatest(output) ==
  LET exp == IF output.exp = NoToken THEN now + Fallback ELSE output.exp IN
    [value |-> output.value, exp |-> IF exp > cache.exp THEN exp ELSE cache.exp]

EntryOf(output) ==
  [value |-> output.value, exp |-> IF output.exp = NoToken THEN now + Fallback ELSE output.exp]

(* The callback of execFile with an output that parses: the last run to    *)
(* end has the entry, whichever token it holds.                            *)
AzSucceeds(r) ==
  /\ pc[r] = "az" /\ az[r] # NoToken
  /\ cache' = EntryOf(az[r])
  /\ az' = [az EXCEPT ![r] = NoToken]
  /\ Goto(r, "fetch")
  /\ UNCHANGED <<now, heads, synths>>

(* An error of execFile, or an output that does not parse.                 *)
AzFails(r) ==
  /\ pc[r] = "az"
  /\ az' = [az EXCEPT ![r] = NoToken]
  /\ Throw(r)
  /\ UNCHANGED <<now, cache, synths>>

-----------------------------------------------------------------------------
(* The handler.                                                            *)

(* The page, /api/config, an unknown path; readFileSync may throw.         *)
AnswerAtOnce(r) ==
  /\ pc[r] = "new"
  /\ Respond(r) \/ Throw(r)
  /\ UNCHANGED <<now, cache, az, synths>>

Arrive(r) ==
  /\ pc[r] = "new"
  /\ \E path \in Routes \ {"page"} : route' = [route EXCEPT ![r] = path]
  /\ pc' = [pc EXCEPT ![r] = "body"]
  /\ UNCHANGED <<now, cache, az, heads, synths>>

(* Too large, not JSON, not an object, or a connection that breaks.        *)
BadBody(r) ==
  /\ pc[r] = "body"
  /\ Throw(r)
  /\ UNCHANGED <<now, cache, az, synths>>

FieldMissing(r) ==
  /\ pc[r] = "body" /\ route[r] \in {"message", "tts"}
  /\ Respond(r)
  /\ UNCHANGED <<now, cache, az, synths>>

BodyForAgent(r) ==
  /\ pc[r] = "body" /\ route[r] \in {"conversation", "message"}
  /\ GetToken(r)
  /\ UNCHANGED <<now, cache, az, heads, synths>>

(* fetch resolves: a message whose answer is ok and has a body is streamed *)
(* on, everything else is read to its end first.                           *)
AgentAnswers(r) ==
  /\ pc[r] = "fetch"
  /\ \/ route[r] = "message" /\ Goto(r, "stream") /\ WriteHead(r)
     \/ Goto(r, "text") /\ UNCHANGED heads
  /\ UNCHANGED <<now, cache, az, synths>>

(* The status of the agent and its text are passed on.                     *)
TextArrives(r) ==
  /\ pc[r] = "text"
  /\ Respond(r)
  /\ UNCHANGED <<now, cache, az, synths>>

(* The read loop: every chunk is written as it comes, until the last one.  *)
StreamEnds(r) ==
  /\ pc[r] = "stream"
  /\ End(r)
  /\ UNCHANGED <<now, cache, az, heads, synths>>

(* fetch, text() or read() throws.                                         *)
AgentBreaks(r) ==
  /\ pc[r] \in {"fetch", "text", "stream"}
  /\ Throw(r)
  /\ UNCHANGED <<now, cache, az, synths>>

(* synthesizeSpeech: an endpoint that is no URL, or a configuration the    *)
(* SDK refuses, throws before there is a synthesizer.                      *)
BodyForSpeech(r) ==
  /\ pc[r] = "body" /\ route[r] = "tts"
  /\ \/ Goto(r, "speak") /\ synths' = synths \cup {r} /\ UNCHANGED heads
     \/ Throw(r) /\ UNCHANGED synths
  /\ UNCHANGED <<now, cache, az>>

(* A completed synthesis: the audio is the answer.                         *)
SpeechSucceeds(r) ==
  /\ pc[r] = "speak"
  /\ synths' = synths \ {r}
  /\ Respond(r)
  /\ UNCHANGED <<now, cache, az>>

(* Mutant: a synthesizer is only closed when it has succeeded.             *)
SpeechKeepsOpen(r) ==
  /\ pc[r] = "speak"
  /\ Throw(r)
  /\ UNCHANGED <<now, cache, az, synths>>

(* A result with another reason, or the error callback: both close it.     *)
SpeechFails(r) ==
  /\ pc[r] = "speak"
  /\ synths' = synths \ {r}
  /\ Throw(r)
  /\ UNCHANGED <<now, cache, az>>

-----------------------------------------------------------------------------
Handle(r) ==
  \/ AnswerAtOnce(r) \/ Arrive(r)
  \/ BadBody(r) \/ FieldMissing(r) \/ BodyForAgent(r) \/ BodyForSpeech(r)
  \/ AzRuns(r) \/ AzSucceeds(r) \/ AzFails(r)
  \/ AgentAnswers(r) \/ TextArrives(r) \/ StreamEnds(r) \/ AgentBreaks(r)
  \/ SpeechSucceeds(r) \/ SpeechFails(r)

Tick ==
  /\ now < MaxTime
  /\ \A r \in Requests : az[r] = NoToken
  /\ now' = now + 1
  /\ UNCHANGED <<cache, pc, route, az, heads, synths>>

ServerNext == Tick \/ \E r \in Requests : Handle(r)

ServerSpec == ServerInit /\ [][ServerNext]_serverVars

(* Every request that has come in: its body ends or its connection does,   *)
(* az exits, fetch settles (it has timeouts of its own), the SDK calls     *)
(* back.  Nothing makes a request come.                                    *)
ServerFairness == \A r \in Requests : WF_serverVars(pc[r] # "new" /\ Handle(r))

FairServerSpec == ServerSpec /\ ServerFairness

-----------------------------------------------------------------------------
Steps == {"new", "body", "az", "fetch", "text", "stream", "speak", "ended"}
Tokens == Nat \cup {NoToken}

(* The type invariant; a synthesizer is held by a request that awaits its  *)
(* speech, so none outlives the request it was made for.                   *)
ServerTypeOK ==
  /\ now \in 0..MaxTime
  /\ cache \in [value : Tokens, exp : Nat]
  /\ pc \in [Requests -> Steps]
  /\ route \in [Requests -> Routes]
  /\ az \in [Requests -> {NoToken} \cup [value : Tokens, exp : Tokens]]
  /\ heads \in [Requests -> Nat]
  /\ synths \subseteq {r \in Requests : pc[r] = "speak"}

(* The end recorded in the cache is never later than the end of the token  *)
(* it stands beside, although the runs of several requests overwrite the   *)
(* entry in any order, also with an older token or one whose end is not    *)
(* told.                                                                   *)
CacheNeverOverstates == cache.value # NoToken => cache.exp <= cache.value

(* A response gets one status line on every path through try and catch: it *)
(* has one when it has ended, a second writeHead would throw outside the   *)
(* try block and take the process down, and only a stream is open with     *)
(* one.                                                                    *)
OneHeadPerResponse ==
  \A r \in Requests : heads[r] = IF pc[r] \in {"stream", "ended"} THEN 1 ELSE 0

(* A token taken from the cache is a token, and has more than the margin   *)
(* left when it is sent, whatever runs of az have overwritten the entry.   *)
HitsAreLive ==
  [][\A r \in Requests :
       (pc[r] = "body" /\ pc'[r] = "fetch") => (cache.value # NoToken /\ cache.value > now + Margin)]_serverVars

(* Every request that has come in gets its response ended, although az,    *)
(* the agent and the SDK may fail at every point.                          *)
EveryRequestEnds == \A r \in Requests : (pc[r] # "new") ~> (pc[r] = "ended")
=============================================================================
