----------------------------- MODULE Invocations -----------------------------
(***************************************************************************)
(* GitHubCopilotInvocationHandler.HandleAsync: every invocation answers    *)
(* one HTTP request by subscribing to the events of a Copilot session,     *)
(* sending the prompt, and relaying the events as server-sent events until *)
(* the session reports an error or goes idle.  The session is shared: all  *)
(* the invocations here carry one session id, so CopilotSessionManager     *)
(* gives all of them the same object, and its events go to every           *)
(* subscriber, whoever's prompt they answer.                               *)
(*                                                                         *)
(* A turn is named by the invocation that sent its prompt, an event by its *)
(* turn and its place in it, and a text is the sequence of the events that *)
(* carried it.  The session (the SDK and the CLI behind it) is external:   *)
(* it works through the accepted prompts in order, and each turn emits     *)
(* deltas and messages in any order (an agent may speak before and after   *)
(* it uses a tool), then an idle event, or an error that an idle event may *)
(* or may not follow.  Events without text, which the default case relays  *)
(* and which change nothing, are left out.                                 *)
(***************************************************************************)
EXTENDS Naturals, Sequences, SequencesExt

CONSTANTS
  Invocations,  \* the requests on the session
  MaxTexts,     \* bound: deltas and messages of all turns
  None          \* no message

ASSUME MaxTextsAssumption == MaxTexts \in Nat

VARIABLES
  pc,         \* where each invocation is in HandleAsync
  cancelled,  \* invocations whose connection is gone: every later write throws
  channel,    \* the unbounded Channel<SessionEvent> of each invocation
  deltaText,  \* the StringBuilder of each invocation
  complete,   \* completeMessage: the last message event, or None
  sendTask,   \* the task of session.SendAsync
  stream,     \* the payloads written to each response
  prompts,    \* session: accepted prompts, the first one being worked on
  said,       \* session: the events each turn has emitted
  overlapped  \* invocations whose subscription met another turn

handlerVars == <<pc, channel, deltaText, complete, stream>>
sessionVars == <<prompts, said>>
vars == <<handlerVars, cancelled, sendTask, sessionVars, overlapped>>

Finished == {"refused", "closed", "aborted"}
Subscribed == {"subscribed", "streaming", "awaitingSend", "finishing", "catching", "catchFinishing"}
subscribers == {i \in Invocations : pc[i] \in Subscribed}

Event(kind, turn, place) == [kind |-> kind, turn |-> turn, place |-> place]

Init ==
  /\ pc = [i \in Invocations |-> "arrived"]
  /\ cancelled = {}
  /\ channel = [i \in Invocations |-> <<>>]
  /\ deltaText = [i \in Invocations |-> <<>>]
  /\ complete = [i \in Invocations |-> None]
  /\ sendTask = [i \in Invocations |-> "none"]
  /\ stream = [i \in Invocations |-> <<>>]
  /\ prompts = <<>>
  /\ said = [i \in Invocations |-> <<>>]
  /\ overlapped = {}

Goto(i, step) == pc' = [pc EXCEPT ![i] = step]

Write(i, payload) == stream' = [stream EXCEPT ![i] = Append(@, payload)]

(* The handler is left: its locals and its subscription are gone.          *)
Return(i, step) ==
  /\ Goto(i, step)
  /\ channel' = [channel EXCEPT ![i] = <<>>]
  /\ deltaText' = [deltaText EXCEPT ![i] = <<>>]
  /\ complete' = [complete EXCEPT ![i] = None]

-----------------------------------------------------------------------------
(* The handler.                                                            *)

(* A body without a prompt is answered with status 400; an exception of    *)
(* GetSessionAsync leaves the handler before the response has started.     *)
Refuse(i) ==
  /\ pc[i] = "arrived"
  /\ Goto(i, "refused")
  /\ UNCHANGED <<cancelled, channel, deltaText, complete, stream, sendTask, sessionVars, overlapped>>

(* Mutant: a subscription replays what a turn of the session has said.     *)
SubscribeWithReplay(i) ==
  /\ pc[i] = "arrived"
  /\ Goto(i, "subscribed")
  /\ \E turn \in Invocations : channel' = [channel EXCEPT ![i] = said[turn]]
  /\ overlapped' = IF prompts # <<>> \/ \E j \in Invocations : sendTask[j] = "pending"
                     THEN overlapped \cup {i} ELSE overlapped
  /\ UNCHANGED <<cancelled, deltaText, complete, stream, sendTask, sessionVars>>

(* session.On, before the prompt is sent.                                  *)
Subscribe(i) ==
  /\ pc[i] = "arrived"
  /\ Goto(i, "subscribed")
  /\ overlapped' = IF prompts # <<>> \/ \E j \in Invocations : sendTask[j] = "pending"
                     THEN overlapped \cup {i} ELSE overlapped
  /\ UNCHANGED <<cancelled, channel, deltaText, complete, stream, sendTask, sessionVars>>

Send(i) ==
  /\ pc[i] = "subscribed"
  /\ sendTask' = [sendTask EXCEPT ![i] = "pending"]
  /\ Goto(i, "streaming")
  /\ overlapped' = overlapped \cup (subscribers \ {i})
                     \cup (IF subscribers = {i} THEN {} ELSE {i})
  /\ UNCHANGED <<cancelled, channel, deltaText, complete, stream, sessionVars>>

(* Mutant: every event but a delta counts as the message.                  *)
RelayAnyText(i) ==
  /\ pc[i] = "streaming" /\ i \notin cancelled /\ channel[i] # <<>>
  /\ channel' = [channel EXCEPT ![i] = Tail(@)]
  /\ LET e == Head(channel[i]) IN
       /\ Write(i, e)
       /\ deltaText' = IF e.kind = "delta" THEN [deltaText EXCEPT ![i] = Append(@, e)] ELSE deltaText
       /\ complete' = IF e.kind = "delta" THEN complete ELSE [complete EXCEPT ![i] = e]
       /\ Goto(i, CASE e.kind = "error" -> "finishing" [] e.kind = "idle" -> "awaitingSend" [] OTHER -> "streaming")
  /\ UNCHANGED <<cancelled, sendTask, sessionVars, overlapped>>

(* Mutant: the stream goes on after an error event.                        *)
RelayPastError(i) ==
  /\ pc[i] = "streaming" /\ i \notin cancelled /\ channel[i] # <<>>
  /\ channel' = [channel EXCEPT ![i] = Tail(@)]
  /\ LET e == Head(channel[i]) IN
       /\ Write(i, e)
       /\ deltaText' = IF e.kind = "delta" THEN [deltaText EXCEPT ![i] = Append(@, e)] ELSE deltaText
       /\ complete' = IF e.kind = "message" THEN [complete EXCEPT ![i] = e] ELSE complete
       /\ Goto(i, IF e.kind = "idle" THEN "awaitingSend" ELSE "streaming")
  /\ UNCHANGED <<cancelled, sendTask, sessionVars, overlapped>>

(* Mutant: the loop waits for more events after an idle event.             *)
RelayPastIdle(i) ==
  /\ pc[i] = "streaming" /\ i \notin cancelled /\ channel[i] # <<>>
  /\ channel' = [channel EXCEPT ![i] = Tail(@)]
  /\ LET e == Head(channel[i]) IN
       /\ Write(i, e)
       /\ deltaText' = IF e.kind = "delta" THEN [deltaText EXCEPT ![i] = Append(@, e)] ELSE deltaText
       /\ complete' = IF e.kind = "message" THEN [complete EXCEPT ![i] = e] ELSE complete
       /\ Goto(i, IF e.kind = "error" THEN "finishing" ELSE "streaming")
  /\ UNCHANGED <<cancelled, sendTask, sessionVars, overlapped>>

(* One turn of the inner loop: TryRead, then the case of the event.  A     *)
(* write on a lost connection throws and leads to the catch block.         *)
Relay(i) ==
  /\ pc[i] = "streaming"
  /\ i \notin cancelled
  /\ channel[i] # <<>>
  /\ channel' = [channel EXCEPT ![i] = Tail(@)]
  /\ LET e == Head(channel[i]) IN
       /\ Write(i, e)
       /\ deltaText' = IF e.kind = "delta" THEN [deltaText EXCEPT ![i] = Append(@, e)]
                                           ELSE deltaText
       /\ complete' = IF e.kind = "message" THEN [complete EXCEPT ![i] = e] ELSE complete
       /\ Goto(i, CASE e.kind = "error" -> "finishing"
                    [] e.kind = "idle" -> "awaitingSend"
                    [] OTHER -> "streaming")
  /\ UNCHANGED <<cancelled, sendTask, sessionVars, overlapped>>

(* With the connection lost, WaitToReadAsync or the next write throws; the *)
(* catch block writes again, that throws too, and leaves the handler.      *)
Interrupted(i) ==
  /\ pc[i] \in {"streaming", "finishing", "catching", "catchFinishing"}
  /\ i \in cancelled
  /\ Return(i, "aborted")
  /\ UNCHANGED <<cancelled, stream, sendTask, sessionVars, overlapped>>

AwaitSend(i) ==
  /\ pc[i] = "awaitingSend"
  /\ \/ sendTask[i] = "ok" /\ Goto(i, "finishing")
     \/ sendTask[i] = "failed" /\ Goto(i, "catching")
  /\ UNCHANGED <<cancelled, channel, deltaText, complete, stream, sendTask, sessionVars, overlapped>>

(* fullText of the done payload: the last message, else the deltas.        *)
FullText(i) == IF complete[i] = None THEN deltaText[i] ELSE <<complete[i]>>

(* WriteDoneAsync, in the try block or in the catch block.  The method     *)
(* returns and the subscription is disposed of.                            *)
WriteDone(i) ==
  /\ pc[i] \in {"finishing", "catchFinishing"}
  /\ i \notin cancelled
  /\ Write(i, [kind |-> "done", text |-> FullText(i)])
  /\ Return(i, "closed")
  /\ UNCHANGED <<cancelled, sendTask, sessionVars, overlapped>>

CatchError(i) ==
  /\ pc[i] = "catching"
  /\ i \notin cancelled
  /\ Write(i, Event("error", i, 0))
  /\ Goto(i, "catchFinishing")
  /\ UNCHANGED <<cancelled, channel, deltaText, complete, sendTask, sessionVars, overlapped>>

-----------------------------------------------------------------------------
(* The session and the connection.                                         *)

(* The session accepts the prompt or not; the task of SendAsync ends after *)
(* that, at any time, and may fail although the prompt was accepted.       *)
SendSettles(i) ==
  /\ \/ /\ sendTask[i] = "pending"
        /\ sendTask' = [sendTask EXCEPT ![i] = "accepted"]
        /\ prompts' = Append(prompts, i)
     \/ /\ sendTask[i] = "accepted"
        /\ sendTask' = [sendTask EXCEPT ![i] = "ok"]
        /\ UNCHANGED prompts
     \/ /\ sendTask[i] \in {"pending", "accepted"}
        /\ sendTask' = [sendTask EXCEPT ![i] = "failed"]
        /\ UNCHANGED prompts
  /\ UNCHANGED <<handlerVars, cancelled, said, overlapped>>

Turn == Head(prompts)
HasFailed(turn) == \E n \in DOMAIN said[turn] : said[turn][n].kind = "error"
TurnIsOpen == prompts # <<>> /\ ~HasFailed(Turn)

Publish(kind) ==
  /\ LET e == Event(kind, Turn, Len(said[Turn]) + 1) IN
       /\ said' = [said EXCEPT ![Turn] = Append(@, e)]
       /\ channel' = [i \in Invocations |-> IF i \in subscribers THEN Append(channel[i], e) ELSE channel[i]]
  /\ UNCHANGED <<pc, deltaText, complete, stream, cancelled, sendTask, overlapped>>

(* How many texts all the turns have emitted: what MaxTexts bounds.        *)
TextsSaid ==
  FoldFunction(LAMBDA events, n : n + Len(SelectSeq(events, LAMBDA e : e.kind \in {"delta", "message"})),
               0, said)

EmitText ==
  /\ TurnIsOpen
  /\ TextsSaid < MaxTexts
  /\ \E kind \in {"delta", "message"} : Publish(kind)
  /\ UNCHANGED prompts

EmitError ==
  /\ TurnIsOpen
  /\ Publish("error")
  /\ prompts' \in {prompts, Tail(prompts)}

EmitIdle ==
  /\ prompts # <<>>
  /\ Publish("idle")
  /\ prompts' = Tail(prompts)

Disconnect(i) ==
  /\ pc[i] \in Subscribed
  /\ i \notin cancelled
  /\ cancelled' = cancelled \cup {i}
  /\ UNCHANGED <<handlerVars, sendTask, sessionVars, overlapped>>

-----------------------------------------------------------------------------
Handle(i) ==
  \/ Subscribe(i) \/ Send(i) \/ Relay(i) \/ Interrupted(i) \/ AwaitSend(i)
  \/ WriteDone(i) \/ CatchError(i)

Session == EmitText \/ EmitError \/ EmitIdle

Next ==
  \/ \E i \in Invocations : Refuse(i) \/ Handle(i) \/ SendSettles(i) \/ Disconnect(i)
  \/ Session

Spec == Init /\ [][Next]_vars

(* Continuations run, SendAsync ends, and every accepted prompt is worked  *)
(* off: its text is bounded and its turn ends with an idle or error event. *)
Fairness ==
  /\ \A i \in Invocations : WF_vars(Handle(i)) /\ WF_vars(SendSettles(i))
  /\ WF_vars(Session)

FairSpec == Spec /\ Fairness

-----------------------------------------------------------------------------
Kind == {"delta", "message", "error", "idle"}
Events == [kind : Kind, turn : Invocations, place : Nat]
Deltas == [kind : {"delta"}, turn : Invocations, place : Nat]
Messages == [kind : {"message"}, turn : Invocations, place : Nat]
ASSUME NoMessageAssumption == None \notin Messages

Payloads == Events \cup [kind : {"done"}, text : Seq(Events)]

(* The type invariant: handler state, session state and what is written.   *)
TypeOK ==
  /\ pc \in [Invocations -> {"arrived"} \cup Subscribed \cup Finished]
  /\ cancelled \subseteq Invocations
  /\ channel \in [Invocations -> Seq(Events)]
  /\ deltaText \in [Invocations -> Seq(Deltas)]
  /\ complete \in [Invocations -> {None} \cup Messages]
  /\ stream \in [Invocations -> Seq(Payloads)]
  /\ sendTask \in [Invocations -> {"none", "pending", "accepted", "ok", "failed"}]
  /\ prompts \in Seq(Invocations)
  /\ said \in [Invocations -> Seq(Events)]
  /\ overlapped \subseteq Invocations

Kinds(i) == [n \in DOMAIN stream[i] |-> stream[i][n].kind]

(* What a client may rely on when it parses the response: after an idle    *)
(* event only the end of the stream follows, after an error only done,     *)
(* after done nothing, and done is written exactly when the handler has    *)
(* returned normally - through all the paths of try and catch.             *)
StreamIsWellFormed ==
  \A i \in Invocations :
    /\ \A n \in 1..(Len(stream[i]) - 1) :
         /\ Kinds(i)[n] # "done"
         /\ Kinds(i)[n] = "error" => Kinds(i)[n + 1] = "done"
         /\ Kinds(i)[n] = "idle" => Kinds(i)[n + 1] \in {"done", "error"}
    /\ pc[i] = "closed" <=> (stream[i] # <<>> /\ Last(stream[i]).kind = "done")

InOrder(text) == \A m, n \in DOMAIN text : m < n => text[m].place < text[n].place

(* An invocation that had the session for itself, and whose stream ended   *)
(* without an error, has relayed every event of its turn, in order, and    *)
(* nothing else, and done repeats its last message or, without one, all    *)
(* its deltas: no event is lost between the subscription and the end of    *)
(* the turn.                                                               *)
WholeAnswer(i) ==
  LET texts(kind) == {e \in ToSet(said[i]) : e.kind = kind}
      text == Last(stream[i]).text IN
    /\ Front(stream[i]) = said[i]
    /\ IF texts("message") = {}
       THEN ToSet(text) = texts("delta") /\ InOrder(text)
       ELSE \E last \in texts("message") :
              text = <<last>> /\ \A e \in texts("message") : e.place <= last.place

WholeAnswerWhenAlone ==
  \A i \in Invocations \ overlapped :
    (pc[i] = "closed" /\ ~Contains(Kinds(i), "error")) => WholeAnswer(i)

(* A stream shows another invocation's answer only where two requests, or  *)
(* a request and the rest of an abandoned turn, were on the session at the *)
(* same time: nothing else mixes conversations.                            *)
ForeignTextNeedsOverlap ==
  \A i \in Invocations :
    (\E n \in DOMAIN stream[i] : Kinds(i)[n] # "done" /\ stream[i][n].turn # i) => i \in overlapped

(* Answers keep to the request they belong to: whole when it is alone,     *)
(* mixed only where two are on the session.                                *)
AnswersKeepTogether == WholeAnswerWhenAlone /\ ForeignTextNeedsOverlap

(* Every response whose prompt the session accepted comes to an end.  One  *)
(* whose SendAsync failed may not: its task is only awaited after an idle  *)
(* event, which nothing may ever send.                                     *)
AcceptedPromptsEnd ==
  \A i \in Invocations : (pc[i] = "streaming" /\ sendTask[i] = "ok") ~> (pc[i] \in Finished)
=============================================================================
