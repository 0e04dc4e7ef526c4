-------------------------- MODULE Invocations_proofs --------------------------
(***************************************************************************)
(* Proofs about Invocations for any number of invocations of a session and *)
(* any number of texts: type correctness, the shape of the responses, and  *)
(* that an invocation alone on its session gets its own answer, whole.     *)
(*                                                                         *)
(* StreamIsWellFormed is not inductive: what may be written next depends   *)
(* on what was written last, so StreamAt says for each place in the        *)
(* handler which payload its stream ends in.  For AnswersKeepTogether,     *)
(* WholeOf follows the events of a turn from the session through the       *)
(* channel to the stream and the texts the handler keeps; TurnsComeOnce    *)
(* and AloneMeansAlone say that no other prompt mixes in.                  *)
(***************************************************************************)
EXTENDS Invocations, TLAPS

LastKind(s) == IF s = <<>> THEN "none" ELSE s[Len(s)].kind

Shape(s) ==
  \A n \in 1..(Len(s) - 1) :
    /\ s[n].kind # "done"
    /\ s[n].kind = "error" => s[n + 1].kind = "done"
    /\ s[n].kind = "idle" => s[n + 1].kind \in {"done", "error"}

Allowed(step) ==
  CASE step \in {"arrived", "refused", "subscribed"} -> {"none"}
    [] step = "streaming" -> {"none", "delta", "message"}
    [] step \in {"awaitingSend", "catching"} -> {"idle"}
    [] step = "finishing" -> {"idle", "error"}
    [] step = "catchFinishing" -> {"error"}
    [] step = "closed" -> {"done"}
    [] step = "aborted" -> {"none", "delta", "message", "idle", "error"}

StreamAt == \A i \in Invocations : Shape(stream[i]) /\ LastKind(stream[i]) \in Allowed(pc[i])

IInv == TypeOK /\ StreamAt

-----------------------------------------------------------------------------
(* A stream keeps its shape when what is written may follow its end.       *)
LEMMA AppendShape ==
  ASSUME NEW s \in Seq(Payloads), NEW p \in Payloads, Shape(s),
         LastKind(s) # "done",
         LastKind(s) = "error" => p.kind = "done",
         LastKind(s) = "idle" => p.kind \in {"done", "error"}
  PROVE  Append(s, p) \in Seq(Payloads) /\ Shape(Append(s, p)) /\ LastKind(Append(s, p)) = p.kind
<1>1. /\ Len(Append(s, p)) = Len(s) + 1 /\ Len(s) \in Nat
      /\ \A n \in 1..Len(s) : Append(s, p)[n] = s[n]
      /\ Append(s, p)[Len(s) + 1] = p
      /\ Append(s, p) \in Seq(Payloads) /\ Append(s, p) # <<>>
  OBVIOUS
<1>2. ASSUME NEW n \in 1..Len(s)
      PROVE  /\ s[n].kind # "done"
             /\ s[n].kind = "error" => Append(s, p)[n + 1].kind = "done"
             /\ s[n].kind = "idle" => Append(s, p)[n + 1].kind \in {"done", "error"}
  <2>1. CASE n = Len(s)
    <3>1. s # <<>> /\ LastKind(s) = s[n].kind
      BY <2>1 DEF LastKind
    <3> QED BY <1>1, <2>1, <3>1
  <2>2. CASE n # Len(s)
    <3>1. n \in 1..(Len(s) - 1) /\ n + 1 \in 1..Len(s)
      BY <1>1, <2>2
    <3> QED BY <1>1, <3>1 DEF Shape
  <2> QED BY <2>1, <2>2
<1>3. Shape(Append(s, p))
  BY <1>1, <1>2 DEF Shape
<1>4. LastKind(Append(s, p)) = p.kind
  BY <1>1 DEF LastKind
<1> QED BY <1>1, <1>3, <1>4

(* What is written is a payload.                                           *)
LEMMA DoneFacts ==
  ASSUME TypeOK, NEW i \in Invocations
  PROVE  [kind |-> "done", text |-> FullText(i)] \in Payloads
<1>1. deltaText[i] \in Seq(Deltas) /\ complete[i] \in {None} \cup Messages
  BY DEF TypeOK
<1>2. Deltas \subseteq Events /\ Messages \subseteq Events
  BY DEF Deltas, Messages, Events, Kind
<1>3. deltaText[i] \in Seq(Events)
  BY <1>1, <1>2
<1>4. complete[i] # None => <<complete[i]>> \in Seq(Events)
  BY <1>1, <1>2
<1> QED BY <1>3, <1>4 DEF FullText, Payloads

LEMMA TypeStep == TypeOK /\ [Next]_vars => TypeOK'
<1> SUFFICES ASSUME TypeOK, [Next]_vars PROVE TypeOK'
  OBVIOUS
<1> DEFINE Steps == {"arrived"} \cup Subscribed \cup Finished
<1>0. /\ {"arrived", "refused", "subscribed", "streaming", "awaitingSend", "finishing", "catching",
          "catchFinishing", "closed", "aborted"} \subseteq Steps
      /\ Events \subseteq Payloads
  BY DEF Subscribed, Finished, Payloads
<1> HIDE DEF Steps
<1>1. ASSUME NEW i \in Invocations, Refuse(i) \/ Subscribe(i) \/ Send(i) \/ AwaitSend(i) \/ Disconnect(i)
      PROVE  TypeOK'
  <2>1. subscribers \subseteq Invocations
    BY DEF subscribers
  <2>2. pc' \in [Invocations -> Steps]
    <3>1. pc \in [Invocations -> Steps]
      BY DEF TypeOK, Steps
    <3>2. pc' = pc \/ \E step \in Steps : pc' = [pc EXCEPT ![i] = step]
      BY <1>0, <1>1 DEF Refuse, Subscribe, Send, AwaitSend, Disconnect, Goto, handlerVars
    <3> QED BY ONLY <3>1, <3>2
  <2>3. cancelled' \subseteq Invocations /\ overlapped' \subseteq Invocations
    BY <1>1, <2>1 DEF Refuse, Subscribe, Send, AwaitSend, Disconnect, TypeOK
  <2>4. sendTask' \in [Invocations -> {"none", "pending", "accepted", "ok", "failed"}]
    BY <1>1 DEF Refuse, Subscribe, Send, AwaitSend, Disconnect, TypeOK
  <2>5. UNCHANGED <<channel, deltaText, complete, stream, prompts, said>>
    BY <1>1 DEF Refuse, Subscribe, Send, AwaitSend, Disconnect, handlerVars, sessionVars
  <2> QED BY <2>2, <2>3, <2>4, <2>5 DEF TypeOK, Steps
<1>2. ASSUME NEW i \in Invocations, Relay(i) PROVE TypeOK'
  <2> DEFINE e == Head(channel[i])
  <2>1. channel[i] \in Seq(Events) /\ channel[i] # <<>>
    BY <1>2 DEF Relay, TypeOK
  <2>2. e \in Events /\ Tail(channel[i]) \in Seq(Events)
    BY <2>1
  <2>3. (e.kind = "delta" => e \in Deltas) /\ (e.kind = "message" => e \in Messages)
    BY <2>2 DEF Events, Deltas, Messages
  <2>4. /\ channel' = [channel EXCEPT ![i] = Tail(channel[i])]
        /\ stream' = [stream EXCEPT ![i] = Append(stream[i], e)]
        /\ deltaText' = IF e.kind = "delta" THEN [deltaText EXCEPT ![i] = Append(deltaText[i], e)] ELSE deltaText
        /\ complete' = IF e.kind = "message" THEN [complete EXCEPT ![i] = e] ELSE complete
        /\ pc' \in {[pc EXCEPT ![i] = step] : step \in {"finishing", "awaitingSend", "streaming"}}
        /\ UNCHANGED <<cancelled, sendTask, prompts, said, overlapped>>
    BY <1>2 DEF Relay, Write, Goto, sessionVars
  <2> HIDE DEF e
  <2>5. Append(stream[i], e) \in Seq(Payloads)
    BY <1>0, <2>2 DEF TypeOK
  <2>6. channel' \in [Invocations -> Seq(Events)] /\ stream' \in [Invocations -> Seq(Payloads)]
    BY <2>2, <2>4, <2>5 DEF TypeOK
  <2>7. e.kind = "delta" => Append(deltaText[i], e) \in Seq(Deltas)
    BY <2>3 DEF TypeOK
  <2>8. deltaText' \in [Invocations -> Seq(Deltas)]
    BY <2>4, <2>7 DEF TypeOK
  <2>9. complete' \in [Invocations -> {None} \cup Messages]
    BY <2>3, <2>4 DEF TypeOK
  <2>10. pc' \in [Invocations -> Steps]
    BY <1>0, <2>4 DEF TypeOK, Steps
  <2> QED BY <2>4, <2>6, <2>8, <2>9, <2>10 DEF TypeOK, Steps
<1>3. ASSUME NEW i \in Invocations, NEW step \in {"closed", "aborted"}, Return(i, step),
             stream' \in [Invocations -> Seq(Payloads)],
             UNCHANGED <<cancelled, sendTask, sessionVars, overlapped>>
      PROVE  TypeOK'
  <2>1. /\ channel' \in [Invocations -> Seq(Events)]
        /\ deltaText' \in [Invocations -> Seq(Deltas)]
        /\ complete' \in [Invocations -> {None} \cup Messages]
    BY <1>3 DEF Return, TypeOK
  <2>2. pc' \in [Invocations -> Steps]
    BY <1>0, <1>3 DEF Return, Goto, TypeOK, Steps
  <2> QED BY <1>3, <2>1, <2>2 DEF TypeOK, Steps, sessionVars
<1>4. ASSUME NEW i \in Invocations, Interrupted(i) PROVE TypeOK'
  BY <1>3, <1>4 DEF Interrupted, TypeOK
<1>5. ASSUME NEW i \in Invocations, WriteDone(i) PROVE TypeOK'
  <2>1. Append(stream[i], [kind |-> "done", text |-> FullText(i)]) \in Seq(Payloads)
    BY DoneFacts DEF TypeOK
  <2>2. stream' \in [Invocations -> Seq(Payloads)]
    BY <1>5, <2>1 DEF WriteDone, Write, TypeOK
  <2> QED BY <1>3, <1>5, <2>2 DEF WriteDone
<1>6. ASSUME NEW i \in Invocations, CatchError(i) PROVE TypeOK'
  <2>1. Event("error", i, 0) \in Payloads
    BY <1>0 DEF Event, Events, Kind
  <2>2. Append(stream[i], Event("error", i, 0)) \in Seq(Payloads)
    BY <2>1 DEF TypeOK
  <2>3. stream' \in [Invocations -> Seq(Payloads)]
    BY <1>6, <2>2 DEF CatchError, Write, TypeOK
  <2>4. pc' \in [Invocations -> Steps]
    BY <1>0, <1>6 DEF CatchError, Goto, TypeOK, Steps
  <2> QED BY <1>6, <2>3, <2>4 DEF CatchError, TypeOK, Steps, sessionVars
<1>7. ASSUME NEW i \in Invocations, SendSettles(i) PROVE TypeOK'
  <2>1. Append(prompts, i) \in Seq(Invocations)
    BY DEF TypeOK
  <2>2. prompts' \in Seq(Invocations) /\ sendTask' \in [Invocations -> {"none", "pending", "accepted", "ok", "failed"}]
    BY <1>7, <2>1 DEF SendSettles, TypeOK
  <2> QED BY <1>7, <2>2 DEF SendSettles, TypeOK, handlerVars
<1>8. ASSUME NEW kind \in Kind, Publish(kind), prompts # <<>>, prompts' \in {prompts, Tail(prompts)} PROVE TypeOK'
  <2> DEFINE e == Event(kind, Turn, Len(said[Turn]) + 1)
  <2>1. Turn \in Invocations /\ prompts' \in Seq(Invocations)
    <3>1. prompts \in Seq(Invocations) /\ prompts # <<>>
      BY <1>8 DEF TypeOK
    <3>2. Head(prompts) \in Invocations /\ Tail(prompts) \in Seq(Invocations)
      BY <3>1
    <3> QED BY <1>8, <3>1, <3>2 DEF Turn
  <2>2. said[Turn] \in Seq(Events)
    BY <2>1 DEF TypeOK
  <2>3. e \in Events
    BY <2>1, <2>2 DEF Event, Events
  <2>4. /\ said' = [said EXCEPT ![Turn] = Append(said[Turn], e)]
        /\ channel' = [i \in Invocations |-> IF i \in subscribers THEN Append(channel[i], e) ELSE channel[i]]
        /\ UNCHANGED <<pc, deltaText, complete, stream, cancelled, sendTask, overlapped>>
    BY <1>8 DEF Publish
  <2> HIDE DEF e
  <2>5. Append(said[Turn], e) \in Seq(Events) /\ \A i \in Invocations : Append(channel[i], e) \in Seq(Events)
    BY <2>2, <2>3 DEF TypeOK
  <2>6. said' \in [Invocations -> Seq(Events)] /\ channel' \in [Invocations -> Seq(Events)]
    BY <2>1, <2>4, <2>5 DEF TypeOK
  <2> QED BY <2>1, <2>4, <2>6 DEF TypeOK
<1>9. CASE Session
  BY <1>8, <1>9 DEF Session, EmitText, EmitError, EmitIdle, TurnIsOpen, Kind
<1>10. CASE UNCHANGED vars
  BY <1>10 DEF vars, handlerVars, sessionVars, TypeOK
<1> QED BY <1>1, <1>2, <1>4, <1>5, <1>6, <1>7, <1>9, <1>10 DEF Next, Handle

(* The handler writes what its place allows, and goes where the end of the *)
(* stream allows it to be.                                                 *)
LEMMA StreamStep == IInv /\ [Next]_vars => StreamAt'
<1> SUFFICES ASSUME IInv, [Next]_vars PROVE StreamAt'
  OBVIOUS
<1>0. TypeOK /\ StreamAt /\ pc \in [Invocations -> {"arrived"} \cup Subscribed \cup Finished]
      /\ stream \in [Invocations -> Seq(Payloads)]
  BY DEF IInv, TypeOK
<1>1. ASSUME NEW i \in Invocations, NEW step, pc' = [pc EXCEPT ![i] = step], stream' = stream,
             LastKind(stream[i]) \in Allowed(step)
      PROVE  StreamAt'
  BY <1>0, <1>1 DEF StreamAt
<1>2. ASSUME NEW i \in Invocations, NEW step, NEW p \in Payloads, pc' = [pc EXCEPT ![i] = step],
             stream' = [stream EXCEPT ![i] = Append(stream[i], p)],
             LastKind(stream[i]) # "done",
             LastKind(stream[i]) = "error" => p.kind = "done",
             LastKind(stream[i]) = "idle" => p.kind \in {"done", "error"},
             p.kind \in Allowed(step)
      PROVE  StreamAt'
  <2>1. Shape(Append(stream[i], p)) /\ LastKind(Append(stream[i], p)) = p.kind
    BY <1>0, <1>2, AppendShape DEF StreamAt
  <2> QED BY <1>0, <1>2, <2>1 DEF StreamAt
<1>3. \A i \in Invocations : LastKind(stream[i]) \in Allowed(pc[i])
  BY <1>0 DEF StreamAt
<1>4. ASSUME NEW i \in Invocations, Refuse(i) \/ Subscribe(i) \/ Send(i) \/ AwaitSend(i) \/ Interrupted(i)
      PROVE  StreamAt'
  <2>1. PICK step : pc' = [pc EXCEPT ![i] = step] /\ stream' = stream /\ LastKind(stream[i]) \in Allowed(step)
    <3>0. Allowed("arrived") = {"none"} /\ Allowed("refused") = {"none"} /\ Allowed("subscribed") = {"none"}
      BY DEF Allowed
    <3>1. CASE Refuse(i) BY <1>3, <3>0, <3>1 DEF Refuse, Goto
    <3>2. CASE Subscribe(i) BY <1>3, <3>0, <3>2 DEF Subscribe, Goto
    <3>3. CASE Send(i) BY <1>3, <3>3 DEF Send, Goto, Allowed
    <3>4. CASE AwaitSend(i) BY <1>3, <3>4 DEF AwaitSend, Goto, Allowed
    <3>5. CASE Interrupted(i) BY <1>3, <3>5 DEF Interrupted, Return, Goto, Allowed
    <3> QED BY <1>4, <3>1, <3>2, <3>3, <3>4, <3>5
  <2> QED BY <1>1, <2>1
<1>5. ASSUME NEW i \in Invocations, Relay(i) PROVE StreamAt'
  <2> DEFINE e == Head(channel[i])
  <2> DEFINE step == CASE e.kind = "error" -> "finishing" [] e.kind = "idle" -> "awaitingSend" [] OTHER -> "streaming"
  <2>1. e \in Events /\ e \in Payloads
    BY <1>0, <1>5 DEF Relay, TypeOK, Payloads
  <2>2. e.kind \in Allowed(step)
    BY <2>1 DEF Events, Kind, Allowed
  <2>3. LastKind(stream[i]) \in {"none", "delta", "message"}
    BY <1>3, <1>5 DEF Relay, Allowed
  <2>4. pc' = [pc EXCEPT ![i] = step] /\ stream' = [stream EXCEPT ![i] = Append(stream[i], e)]
    BY <1>5 DEF Relay, Goto, Write
  <2> HIDE DEF e, step
  <2> QED BY <1>2, <2>1, <2>2, <2>3, <2>4
<1>6. ASSUME NEW i \in Invocations, WriteDone(i) PROVE StreamAt'
  <2>1. LastKind(stream[i]) \in {"idle", "error"}
    BY <1>3, <1>6 DEF WriteDone, Allowed
  <2>2. "done" \in Allowed("closed")
    BY DEF Allowed
  <2> QED BY <1>0, <1>2, <1>6, <2>1, <2>2, DoneFacts DEF WriteDone, Write, Return, Goto
<1>7. ASSUME NEW i \in Invocations, CatchError(i) PROVE StreamAt'
  <2>1. LastKind(stream[i]) = "idle"
    BY <1>3, <1>7 DEF CatchError, Allowed
  <2>2. Event("error", i, 0) \in Payloads /\ Event("error", i, 0).kind = "error"
    BY DEF Event, Events, Kind, Payloads
  <2>3. "error" \in Allowed("catchFinishing")
    BY DEF Allowed
  <2> QED BY <1>2, <1>7, <2>1, <2>2, <2>3 DEF CatchError, Write, Goto
<1>8. ASSUME UNCHANGED <<pc, stream>> PROVE StreamAt'
  BY <1>0, <1>8 DEF StreamAt
<1>9. CASE Session
  BY <1>8, <1>9 DEF Session, EmitText, EmitError, EmitIdle, Publish
<1> QED BY <1>4, <1>5, <1>6, <1>7, <1>8, <1>9
     DEF Next, Handle, SendSettles, Disconnect, vars, handlerVars

LEMMA Invariance == Spec => []IInv
<1>1. Init => IInv
  BY DEF Init, IInv, TypeOK, StreamAt, Shape, LastKind, Allowed
<1>2. IInv /\ [Next]_vars => IInv'
  BY TypeStep, StreamStep DEF IInv
<1> QED BY <1>1, <1>2, PTL DEF Spec

-----------------------------------------------------------------------------
(* Handler, session and streams keep their types.                          *)
THEOREM TypeCorrect == Spec => []TypeOK
<1>1. IInv => TypeOK BY DEF IInv
<1> QED BY Invariance, <1>1, PTL

(* HandleAsync: nothing follows done, only done follows an error, and done *)
(* is written exactly when the handler has returned normally, through all  *)
(* the paths of try and catch.                                             *)
THEOREM StreamsEndProperly == Spec => []StreamIsWellFormed
<1>1. IInv => StreamIsWellFormed
  <2> SUFFICES ASSUME IInv, NEW i \in Invocations
               PROVE  /\ \A n \in 1..(Len(stream[i]) - 1) :
                           /\ Kinds(i)[n] # "done"
                           /\ Kinds(i)[n] = "error" => Kinds(i)[n + 1] = "done"
                           /\ Kinds(i)[n] = "idle" => Kinds(i)[n + 1] \in {"done", "error"}
                      /\ pc[i] = "closed" <=> (stream[i] # <<>> /\ Last(stream[i]).kind = "done")
    BY DEF StreamIsWellFormed
  <2>1. /\ stream[i] \in Seq(Payloads) /\ Shape(stream[i]) /\ LastKind(stream[i]) \in Allowed(pc[i])
        /\ pc[i] \in {"arrived"} \cup Subscribed \cup Finished
    BY DEF IInv, TypeOK, StreamAt
  <2>2. \A n \in 1..Len(stream[i]) : Kinds(i)[n] = stream[i][n].kind
    BY <2>1 DEF Kinds
  <2>3. Len(stream[i]) \in Nat
    BY <2>1
  <2>4. \A n \in 1..(Len(stream[i]) - 1) :
          /\ Kinds(i)[n] # "done"
          /\ Kinds(i)[n] = "error" => Kinds(i)[n + 1] = "done"
          /\ Kinds(i)[n] = "idle" => Kinds(i)[n + 1] \in {"done", "error"}
    BY <2>1, <2>2, <2>3 DEF Shape
  <2>5. LastKind(stream[i]) = "done" <=> (stream[i] # <<>> /\ Last(stream[i]).kind = "done")
    BY DEF LastKind, Last
  <2>6. pc[i] = "closed" <=> LastKind(stream[i]) = "done"
    BY <2>1 DEF Allowed, Subscribed, Finished
  <2> QED BY <2>4, <2>5, <2>6
<1> QED BY Invariance, <1>1, PTL
-----------------------------------------------------------------------------
(* A prompt is accepted once, events are numbered as they are said, and a  *)
(* turn that went idle says no more; who is not subscribed hears nothing.  *)
TurnsComeOnce ==
  /\ \A m, n \in DOMAIN prompts : m # n => prompts[m] # prompts[n]
  /\ \A i \in Invocations :
       /\ pc[i] \in {"arrived", "subscribed"} => sendTask[i] = "none" /\ deltaText[i] = <<>> /\ complete[i] = None
       /\ sendTask[i] \in {"none", "pending"} => i \notin ToSet(prompts) /\ said[i] = <<>>
       /\ i \in ToSet(prompts) => \A n \in DOMAIN said[i] : said[i][n].kind # "idle"
       /\ \A n \in DOMAIN said[i] :
            said[i][n].turn = i /\ said[i][n].place = n /\ (said[i][n].kind = "idle" => n = Len(said[i]))
       /\ i \notin subscribers => channel[i] = <<>>

(* Who is alone on the session: its prompt is the only one there.          *)
AloneMeansAlone ==
  \A i \in subscribers \ overlapped :
    ToSet(prompts) \subseteq {i} /\ \A j \in Invocations : sendTask[j] = "pending" => j = i

(* What the handler keeps of the events it has written.                    *)
DeltasOf(text, events) == ToSet(text) = {e \in ToSet(events) : e.kind = "delta"} /\ InOrder(text)

LastMessageOf(message, events) ==
  LET messages == {e \in ToSet(events) : e.kind = "message"} IN
    IF message = None THEN messages = {}
    ELSE message \in messages /\ \A e \in messages : e.place <= message.place

Relaying == {"subscribed", "streaming", "awaitingSend", "finishing"}

(* What has been said of a turn is what its stream and its channel hold,   *)
(* and the handler has kept the texts of its stream.                       *)
Relayed(events, written, queued, text, message) ==
  /\ Len(events) = Len(written) + Len(queued)
  /\ \A n \in 1..Len(written) : events[n] = written[n]
  /\ \A n \in 1..Len(queued) : events[Len(written) + n] = queued[n]
  /\ DeltasOf(text, written)
  /\ LastMessageOf(message, written)

IsFullText(text, events) ==
  LET texts(kind) == {e \in ToSet(events) : e.kind = kind} IN
    IF texts("message") = {}
    THEN ToSet(text) = texts("delta") /\ InOrder(text)
    ELSE \E last \in texts("message") :
           text = <<last>> /\ \A e \in texts("message") : e.place <= last.place

(* A turn that is over, all of it written, and done behind it.             *)
Answered(events, written) ==
  /\ events # <<>> /\ events[Len(events)].kind = "idle"
  /\ Len(written) = Len(events) + 1
  /\ \A n \in 1..Len(events) : written[n] = events[n]
  /\ IsFullText(written[Len(written)].text, events)

HasError(written) == \E n \in 1..Len(written) : written[n].kind = "error"

WholeOf(i) ==
  /\ pc[i] \in Relaying => Relayed(said[i], stream[i], channel[i], deltaText[i], complete[i])
  /\ pc[i] = "closed" => Answered(said[i], stream[i]) \/ HasError(stream[i])
  /\ \A n \in 1..Len(stream[i]) : stream[i][n].kind # "done" => stream[i][n].turn = i

WholeSoFar == \A i \in Invocations \ overlapped : WholeOf(i)

TogetherInv == TurnsComeOnce /\ AloneMeansAlone /\ WholeSoFar

-----------------------------------------------------------------------------
(* Sequences that grow at the end and shrink at the front.                 *)
LEMMA AppendFacts ==
  ASSUME NEW S, NEW s \in Seq(S), NEW e \in S
  PROVE  /\ Append(s, e) \in Seq(S) /\ Append(s, e) # <<>>
         /\ Len(s) \in Nat /\ DOMAIN s = 1..Len(s)
         /\ Len(Append(s, e)) = Len(s) + 1 /\ DOMAIN Append(s, e) = 1..(Len(s) + 1)
         /\ \A n \in 1..Len(s) : Append(s, e)[n] = s[n]
         /\ Append(s, e)[Len(s) + 1] = e
         /\ ToSet(Append(s, e)) = ToSet(s) \cup {e}
<1>1. /\ Append(s, e) \in Seq(S) /\ Append(s, e) # <<>>
      /\ Len(s) \in Nat /\ DOMAIN s = 1..Len(s)
      /\ Len(Append(s, e)) = Len(s) + 1 /\ DOMAIN Append(s, e) = 1..(Len(s) + 1)
      /\ \A n \in 1..Len(s) : Append(s, e)[n] = s[n]
      /\ Append(s, e)[Len(s) + 1] = e
  OBVIOUS
<1> DEFINE t == Append(s, e)
<1> HIDE DEF t
<1>2. ToSet(t) = ToSet(s) \cup {e}
  <2>1. ASSUME NEW x \in ToSet(t) PROVE x \in ToSet(s) \cup {e}
    <3>1. PICK n \in DOMAIN t : t[n] = x
      BY DEF ToSet
    <3> QED BY <1>1, <3>1 DEF ToSet, t
  <2>2. ASSUME NEW x \in ToSet(s) PROVE x \in ToSet(t)
    <3>1. PICK n \in DOMAIN s : s[n] = x
      BY DEF ToSet
    <3>2. n \in DOMAIN t /\ t[n] = x
      BY <1>1, <3>1 DEF t
    <3> QED BY <3>2 DEF ToSet
  <2>3. e \in ToSet(t)
    <3>1. Len(s) + 1 \in DOMAIN t /\ t[Len(s) + 1] = e
      BY <1>1 DEF t
    <3> QED BY <3>1 DEF ToSet
  <2> QED BY <2>1, <2>2, <2>3
<1> QED BY <1>1, <1>2 DEF t

LEMMA TailFacts ==
  ASSUME NEW S, NEW s \in Seq(S), s # <<>>
  PROVE  /\ Head(s) \in S /\ Tail(s) \in Seq(S)
         /\ Len(s) \in Nat /\ Len(s) > 0 /\ DOMAIN s = 1..Len(s) /\ Head(s) = s[1] /\ Head(s) \in ToSet(s)
         /\ Len(Tail(s)) = Len(s) - 1 /\ DOMAIN Tail(s) = 1..(Len(s) - 1)
         /\ \A n \in 1..(Len(s) - 1) : Tail(s)[n] = s[n + 1]
         /\ ToSet(Tail(s)) \subseteq ToSet(s)
<1>1. /\ Head(s) \in S /\ Tail(s) \in Seq(S)
      /\ Len(s) \in Nat /\ Len(s) > 0 /\ DOMAIN s = 1..Len(s) /\ Head(s) = s[1]
      /\ Len(Tail(s)) = Len(s) - 1 /\ DOMAIN Tail(s) = 1..(Len(s) - 1)
      /\ \A n \in 1..(Len(s) - 1) : Tail(s)[n] = s[n + 1]
  OBVIOUS
<1>2. Head(s) \in ToSet(s)
  <2>1. 1 \in DOMAIN s
    BY <1>1
  <2> QED BY <1>1, <2>1 DEF ToSet
<1> DEFINE t == Tail(s)
<1> HIDE DEF t
<1>3. ASSUME NEW x \in ToSet(t) PROVE x \in ToSet(s)
  <2>1. PICK n \in DOMAIN t : t[n] = x
    BY DEF ToSet
  <2>2. n + 1 \in DOMAIN s /\ s[n + 1] = x
    BY <1>1, <2>1 DEF t
  <2> QED BY <2>2 DEF ToSet
<1> QED BY <1>1, <1>2, <1>3 DEF t

(* A step of the session adds an event to the turn it works on, and to the *)
(* channel of every subscriber.                                            *)
LEMMA PublishFacts ==
  ASSUME TypeOK, NEW kind \in Kind, Publish(kind), prompts # <<>>, prompts' \in {prompts, Tail(prompts)}
  PROVE  \E e \in Events :
           /\ Turn \in Invocations /\ Turn \in ToSet(prompts)
           /\ e = Event(kind, Turn, Len(said[Turn]) + 1)
           /\ e.kind = kind /\ e.turn = Turn /\ e.place = Len(said[Turn]) + 1
           /\ said'[Turn] = Append(said[Turn], e) /\ \A i \in Invocations : i # Turn => said'[i] = said[i]
           /\ \A i \in Invocations : channel'[i] = IF i \in subscribers THEN Append(channel[i], e) ELSE channel[i]
<1>1. prompts \in Seq(Invocations) /\ said \in [Invocations -> Seq(Events)]
  BY DEF TypeOK
<1>2. Turn \in Invocations /\ Turn \in ToSet(prompts)
  BY <1>1, TailFacts DEF Turn
<1> DEFINE e == Event(kind, Turn, Len(said[Turn]) + 1)
<1>3. Len(said[Turn]) + 1 \in Nat
  BY <1>1, <1>2
<1>4. e \in Events /\ e.kind = kind /\ e.turn = Turn /\ e.place = Len(said[Turn]) + 1
  BY <1>2, <1>3 DEF Event, Events
<1>5. /\ said' = [said EXCEPT ![Turn] = Append(@, e)]
      /\ channel' = [i \in Invocations |-> IF i \in subscribers THEN Append(channel[i], e) ELSE channel[i]]
  BY DEF Publish
<1>6. e = Event(kind, Turn, Len(said[Turn]) + 1)
  OBVIOUS
<1> HIDE DEF e
<1>7. said'[Turn] = Append(said[Turn], e) /\ \A i \in Invocations : i # Turn => said'[i] = said[i]
  BY <1>1, <1>2, <1>5
<1>8. \A i \in Invocations : channel'[i] = IF i \in subscribers THEN Append(channel[i], e) ELSE channel[i]
  BY <1>5
<1> QED BY <1>2, <1>4, <1>6, <1>7, <1>8

-----------------------------------------------------------------------------
(* The part of TurnsComeOnce that is about one invocation.                 *)
TurnComesOnce(i) ==
  /\ pc[i] \in {"arrived", "subscribed"} => sendTask[i] = "none" /\ deltaText[i] = <<>> /\ complete[i] = None
  /\ sendTask[i] \in {"none", "pending"} => i \notin ToSet(prompts) /\ said[i] = <<>>
  /\ i \in ToSet(prompts) => \A n \in DOMAIN said[i] : said[i][n].kind # "idle"
  /\ \A n \in DOMAIN said[i] :
       said[i][n].turn = i /\ said[i][n].place = n /\ (said[i][n].kind = "idle" => n = Len(said[i]))
  /\ i \notin subscribers => channel[i] = <<>>

LEMMA TurnsStep == TypeOK /\ TurnsComeOnce /\ [Next]_vars => TurnsComeOnce'
<1> SUFFICES ASSUME TypeOK, TurnsComeOnce, [Next]_vars PROVE TurnsComeOnce'
  OBVIOUS
<1>0. /\ pc \in [Invocations -> {"arrived"} \cup Subscribed \cup Finished]
      /\ channel \in [Invocations -> Seq(Events)] /\ deltaText \in [Invocations -> Seq(Deltas)]
      /\ complete \in [Invocations -> {None} \cup Messages] /\ said \in [Invocations -> Seq(Events)]
      /\ sendTask \in [Invocations -> {"none", "pending", "accepted", "ok", "failed"}]
      /\ prompts \in Seq(Invocations)
      /\ \A i \in Invocations : i \in subscribers <=> pc[i] \in Subscribed
      /\ \A i \in Invocations : i \in subscribers' <=> pc'[i] \in Subscribed
  BY DEF TypeOK, subscribers
<1>1. (\A m, n \in DOMAIN prompts : m # n => prompts[m] # prompts[n]) /\ \A i \in Invocations : TurnComesOnce(i)
  BY DEF TurnsComeOnce, TurnComesOnce
<1>2. ASSUME \A m, n \in DOMAIN prompts' : m # n => prompts'[m] # prompts'[n], \A i \in Invocations : TurnComesOnce(i)'
      PROVE  TurnsComeOnce'
  BY <1>2 DEF TurnsComeOnce, TurnComesOnce
(* Steps of one handler.                                                   *)
<1>3. ASSUME UNCHANGED <<prompts, said, sendTask>>, NEW i \in Invocations,
             \A j \in Invocations : j # i =>
               pc'[j] = pc[j] /\ channel'[j] = channel[j] /\ deltaText'[j] = deltaText[j] /\ complete'[j] = complete[j],
             pc'[i] \in {"arrived", "subscribed"} => pc[i] = "arrived" /\ deltaText'[i] = deltaText[i] /\ complete'[i] = complete[i],
             pc'[i] \notin Subscribed => channel'[i] = <<>>
      PROVE  TurnsComeOnce'
  <2>1. ASSUME NEW j \in Invocations, j # i PROVE TurnComesOnce(j)'
    <3>1. /\ UNCHANGED <<prompts, said, sendTask>>
          /\ pc'[j] = pc[j] /\ channel'[j] = channel[j] /\ deltaText'[j] = deltaText[j] /\ complete'[j] = complete[j]
          /\ j \in subscribers' <=> j \in subscribers
      BY <1>0, <1>3, <2>1
    <3> QED BY <1>1, <3>1 DEF TurnComesOnce
  <2>2. TurnComesOnce(i)'
    BY <1>0, <1>1, <1>3 DEF TurnComesOnce
  <2> QED BY <1>1, <1>2, <1>3, <2>1, <2>2
<1>4. ASSUME NEW i \in Invocations, Refuse(i) \/ Subscribe(i) \/ AwaitSend(i) \/ CatchError(i) PROVE TurnsComeOnce'
  <2>1. UNCHANGED <<prompts, said, sendTask, channel, deltaText, complete>>
    BY <1>4 DEF Refuse, Subscribe, AwaitSend, CatchError, sessionVars
  <2>2. \A j \in Invocations : j # i => pc'[j] = pc[j]
    BY <1>0, <1>4 DEF Refuse, Subscribe, AwaitSend, CatchError, Goto
  <2>3. pc'[i] \in {"arrived", "subscribed"} => pc[i] = "arrived"
    BY <1>0, <1>4 DEF Refuse, Subscribe, AwaitSend, CatchError, Goto
  <2>4. pc'[i] \notin Subscribed => channel'[i] = <<>>
    <3>1. pc'[i] \notin Subscribed => pc[i] = "arrived"
      BY <1>0, <1>4 DEF Refuse, Subscribe, AwaitSend, CatchError, Goto, Subscribed
    <3>2. pc[i] = "arrived" => i \notin subscribers
      BY <1>0 DEF Subscribed
    <3> QED BY <1>1, <2>1, <3>1, <3>2 DEF TurnComesOnce
  <2> QED BY <1>3, <2>1, <2>2, <2>3, <2>4
<1>5. ASSUME NEW i \in Invocations, Relay(i) PROVE TurnsComeOnce'
  <2>1. UNCHANGED <<prompts, said, sendTask>>
    BY <1>5 DEF Relay, sessionVars
  <2>2. \A j \in Invocations : j # i =>
               pc'[j] = pc[j] /\ channel'[j] = channel[j] /\ deltaText'[j] = deltaText[j] /\ complete'[j] = complete[j]
    BY <1>0, <1>5 DEF Relay, Goto
  <2>3. pc'[i] \in {"finishing", "awaitingSend", "streaming"}
    BY <1>0, <1>5 DEF Relay, Goto
  <2> QED BY <1>3, <2>1, <2>2, <2>3 DEF Subscribed
<1>6. ASSUME NEW i \in Invocations, Interrupted(i) \/ WriteDone(i) PROVE TurnsComeOnce'
  <2>1. UNCHANGED <<prompts, said, sendTask>>
    BY <1>6 DEF Interrupted, WriteDone, sessionVars
  <2>2. \A j \in Invocations : j # i =>
               pc'[j] = pc[j] /\ channel'[j] = channel[j] /\ deltaText'[j] = deltaText[j] /\ complete'[j] = complete[j]
    BY <1>0, <1>6 DEF Interrupted, WriteDone, Return, Goto
  <2>3. pc'[i] \in {"closed", "aborted"} /\ channel'[i] = <<>>
    BY <1>0, <1>6 DEF Interrupted, WriteDone, Return, Goto
  <2> QED BY <1>3, <2>1, <2>2, <2>3
<1>7. ASSUME NEW i \in Invocations, Send(i) PROVE TurnsComeOnce'
  <2>1. /\ UNCHANGED <<prompts, said, channel, deltaText, complete>> /\ pc'[i] = "streaming" /\ sendTask'[i] = "pending"
        /\ pc[i] = "subscribed"
        /\ \A j \in Invocations : j # i => pc'[j] = pc[j] /\ sendTask'[j] = sendTask[j]
    BY <1>0, <1>7 DEF Send, sessionVars, Goto
  <2>2. ASSUME NEW j \in Invocations, j # i PROVE TurnComesOnce(j)'
    BY <1>0, <1>1, <2>1, <2>2 DEF TurnComesOnce
  <2>3. TurnComesOnce(i)'
    BY <1>0, <1>1, <2>1 DEF TurnComesOnce, Subscribed
  <2> QED BY <1>1, <1>2, <2>1, <2>2, <2>3
<1>8. ASSUME NEW i \in Invocations, SendSettles(i) PROVE TurnsComeOnce'
  <2>1. /\ UNCHANGED <<said, pc, channel, deltaText, complete>>
        /\ sendTask'[i] \in {"accepted", "ok", "failed"} /\ sendTask[i] \in {"pending", "accepted"}
        /\ \A j \in Invocations : j # i => sendTask'[j] = sendTask[j]
        /\ prompts' = prompts \/ (prompts' = Append(prompts, i) /\ sendTask[i] = "pending")
    BY <1>0, <1>8 DEF SendSettles, handlerVars
  <2>2. CASE prompts' = prompts
    <3>1. ASSUME NEW j \in Invocations, j # i PROVE TurnComesOnce(j)'
      BY <1>0, <1>1, <2>1, <2>2, <3>1 DEF TurnComesOnce
    <3>2. TurnComesOnce(i)'
      BY <1>0, <1>1, <2>1, <2>2 DEF TurnComesOnce
    <3> QED BY <1>1, <1>2, <2>2, <3>1, <3>2
  <2>3. CASE prompts' = Append(prompts, i) /\ sendTask[i] = "pending"
    <3>1. /\ DOMAIN prompts = 1..Len(prompts) /\ Len(prompts) \in Nat /\ DOMAIN prompts' = 1..(Len(prompts) + 1)
          /\ \A n \in 1..Len(prompts) : prompts'[n] = prompts[n]
          /\ prompts'[Len(prompts) + 1] = i
          /\ ToSet(prompts') = ToSet(prompts) \cup {i}
      BY <1>0, <2>3, AppendFacts
    <3>2. i \notin ToSet(prompts) /\ said[i] = <<>>
      BY <1>1, <2>3 DEF TurnComesOnce
    <3>3. \A n \in DOMAIN prompts : prompts[n] # i
      BY <3>2 DEF ToSet
    <3>4. \A m, n \in DOMAIN prompts' : m # n => prompts'[m] # prompts'[n]
      BY <1>1, <3>1, <3>3
    <3>5. ASSUME NEW j \in Invocations, j # i PROVE TurnComesOnce(j)'
      <4>1. j \in ToSet(prompts') <=> j \in ToSet(prompts)
        BY <3>1, <3>5
      <4> QED BY <1>0, <1>1, <2>1, <3>5, <4>1 DEF TurnComesOnce
    <3>6. DOMAIN said[i] = {}
      BY <3>2
    <3>7. TurnComesOnce(i)'
      BY <1>0, <1>1, <2>1, <3>6 DEF TurnComesOnce
    <3> QED BY <1>2, <3>4, <3>5, <3>7
  <2> QED BY <2>1, <2>2, <2>3
<1>9. ASSUME NEW kind \in Kind, Publish(kind), prompts # <<>>, prompts' \in {prompts, Tail(prompts)},
             kind = "idle" => prompts' = Tail(prompts)
      PROVE  TurnsComeOnce'
  <2>0. PICK t : t = Turn
    OBVIOUS
  <2>1. PICK e \in Events :
           /\ t \in Invocations /\ t \in ToSet(prompts)
           /\ e.kind = kind /\ e.turn = t /\ e.place = Len(said[t]) + 1
           /\ said'[t] = Append(said[t], e) /\ \A i \in Invocations : i # t => said'[i] = said[i]
           /\ \A i \in Invocations : channel'[i] = IF i \in subscribers THEN Append(channel[i], e) ELSE channel[i]
    BY <1>9, <2>0, PublishFacts
  <2>2. UNCHANGED <<pc, deltaText, complete, sendTask>>
    BY <1>9 DEF Publish
  <2>3. /\ DOMAIN prompts = 1..Len(prompts) /\ Len(prompts) \in Nat /\ Len(prompts) > 0 /\ t = prompts[1]
        /\ DOMAIN Tail(prompts) = 1..(Len(prompts) - 1)
        /\ \A n \in 1..(Len(prompts) - 1) : Tail(prompts)[n] = prompts[n + 1]
        /\ ToSet(Tail(prompts)) \subseteq ToSet(prompts)
    BY <1>0, <1>9, <2>0, TailFacts DEF Turn
  <2>4. \A m, n \in DOMAIN prompts' : m # n => prompts'[m] # prompts'[n]
    BY <1>1, <1>9, <2>3
  <2>5. ToSet(prompts') \subseteq ToSet(prompts) /\ (kind = "idle" => t \notin ToSet(prompts'))
    <3>1. t \notin ToSet(Tail(prompts))
      <4>1. \A n \in DOMAIN Tail(prompts) : Tail(prompts)[n] # t
        BY <1>1, <2>3
      <4> QED BY <4>1 DEF ToSet
    <3> QED BY <1>9, <2>3, <3>1
  <2>6. ASSUME NEW i \in Invocations, i # t PROVE TurnComesOnce(i)'
    <3>1. i \notin subscribers' => channel'[i] = <<>>
      BY <1>0, <1>1, <2>1, <2>2 DEF TurnComesOnce
    <3> QED BY <1>1, <2>1, <2>2, <2>5, <2>6, <3>1 DEF TurnComesOnce
  <2>7. /\ DOMAIN said[t] = 1..Len(said[t]) /\ Len(said[t]) \in Nat
        /\ DOMAIN said'[t] = 1..(Len(said[t]) + 1) /\ Len(said'[t]) = Len(said[t]) + 1
        /\ said'[t][Len(said[t]) + 1] = e
        /\ \A n \in 1..Len(said[t]) : said'[t][n] = said[t][n]
    BY <1>0, <2>1, AppendFacts
  <2>8. TurnComesOnce(t)'
    <3>1. /\ sendTask[t] \notin {"none", "pending"}
          /\ \A n \in DOMAIN said[t] : said[t][n].kind # "idle" /\ said[t][n].turn = t /\ said[t][n].place = n
          /\ t \notin subscribers => channel[t] = <<>>
          /\ pc[t] \notin {"arrived", "subscribed"}
      BY <1>1, <2>1 DEF TurnComesOnce
    <3>2. \A n \in DOMAIN said'[t] :
            /\ said'[t][n].turn = t /\ said'[t][n].place = n
            /\ (said'[t][n].kind = "idle" => n = Len(said'[t]) /\ kind = "idle")
      BY <2>1, <2>7, <3>1
    <3>3. t \notin subscribers' => channel'[t] = <<>>
      BY <1>0, <2>1, <2>2, <3>1
    <3>4. t \in ToSet(prompts') => \A n \in DOMAIN said'[t] : said'[t][n].kind # "idle"
      BY <2>5, <3>2
    <3> QED BY <2>1, <2>2, <3>1, <3>2, <3>3, <3>4 DEF TurnComesOnce
  <2> QED BY <1>2, <2>4, <2>6, <2>8
<1>10. CASE Session
  BY <1>9, <1>10 DEF Session, EmitText, EmitError, EmitIdle, TurnIsOpen, Kind
<1>11. CASE UNCHANGED vars \/ \E i \in Invocations : Disconnect(i)
  <2>1. UNCHANGED <<handlerVars, sendTask, sessionVars>>
    BY <1>11 DEF vars, Disconnect
  <2>2. \A i \in Invocations : TurnComesOnce(i)'
    BY <1>0, <1>1, <2>1 DEF handlerVars, sessionVars, TurnComesOnce
  <2> QED BY <1>1, <1>2, <2>1, <2>2 DEF sessionVars
<1> QED BY <1>4, <1>5, <1>6, <1>7, <1>8, <1>10, <1>11 DEF Next, Handle

(* A subscriber that met another turn, now or later, is marked for good.   *)
LEMMA AloneStep == TypeOK /\ TurnsComeOnce /\ AloneMeansAlone /\ [Next]_vars => AloneMeansAlone'
<1> SUFFICES ASSUME TypeOK, TurnsComeOnce, AloneMeansAlone, [Next]_vars PROVE AloneMeansAlone'
  OBVIOUS
<1>0. /\ pc \in [Invocations -> {"arrived"} \cup Subscribed \cup Finished]
      /\ sendTask \in [Invocations -> {"none", "pending", "accepted", "ok", "failed"}]
      /\ prompts \in Seq(Invocations)
      /\ subscribers \subseteq Invocations
      /\ \A i \in Invocations : i \in subscribers <=> pc[i] \in Subscribed
      /\ \A i : i \in subscribers' <=> i \in Invocations /\ pc'[i] \in Subscribed
  BY DEF TypeOK, subscribers
<1>1. ASSUME subscribers' \subseteq subscribers, overlapped' = overlapped, ToSet(prompts') \subseteq ToSet(prompts),
             sendTask' = sendTask
      PROVE  AloneMeansAlone'
  BY <1>1 DEF AloneMeansAlone
<1>2. ASSUME NEW i \in Invocations,
             Refuse(i) \/ Relay(i) \/ Interrupted(i) \/ AwaitSend(i) \/ WriteDone(i) \/ CatchError(i)
      PROVE  AloneMeansAlone'
  <2>1. UNCHANGED <<prompts, sendTask, overlapped>>
    BY <1>2 DEF Refuse, Relay, Interrupted, AwaitSend, WriteDone, CatchError, sessionVars
  <2>2. \A j \in Invocations : j # i => pc'[j] = pc[j]
    BY <1>0, <1>2 DEF Refuse, Relay, Interrupted, AwaitSend, WriteDone, CatchError, Return, Goto
  <2>3. pc'[i] \in Subscribed => pc[i] \in Subscribed
    <3>1. CASE Refuse(i) \/ Interrupted(i) \/ WriteDone(i)
      BY <1>0, <3>1 DEF Refuse, Interrupted, WriteDone, Return, Goto, Subscribed
    <3>2. CASE Relay(i) \/ AwaitSend(i) \/ CatchError(i)
      BY <3>2 DEF Relay, AwaitSend, CatchError, Subscribed
    <3> QED BY <1>2, <3>1, <3>2
  <2>4. subscribers' \subseteq subscribers
    BY <1>0, <2>2, <2>3
  <2> QED BY <1>1, <2>1, <2>4
<1>3. ASSUME NEW i \in Invocations, Subscribe(i) PROVE AloneMeansAlone'
  <2>1. UNCHANGED <<prompts, sendTask>> /\ overlapped \subseteq overlapped'
    BY <1>3 DEF Subscribe, sessionVars
  <2>2. \A j \in Invocations : j # i => pc'[j] = pc[j]
    BY <1>0, <1>3 DEF Subscribe, Goto
  <2>3. i \notin overlapped' => prompts = <<>> /\ \A j \in Invocations : sendTask[j] # "pending"
    BY <1>3 DEF Subscribe
  <2>4. ToSet(<<>>) = {}
    BY DEF ToSet
  <2> QED BY <1>0, <2>1, <2>2, <2>3, <2>4 DEF AloneMeansAlone
<1>4. ASSUME NEW i \in Invocations, Send(i) PROVE AloneMeansAlone'
  <2>1. /\ UNCHANGED prompts /\ pc[i] = "subscribed"
        /\ \A j \in Invocations : j # i => pc'[j] = pc[j] /\ sendTask'[j] = sendTask[j]
        /\ overlapped' = overlapped \cup (subscribers \ {i}) \cup (IF subscribers = {i} THEN {} ELSE {i})
    BY <1>0, <1>4 DEF Send, sessionVars, Goto
  <2>2. i \in subscribers
    BY <1>0, <2>1 DEF Subscribed
  <2>3. subscribers' \subseteq subscribers
    BY <1>0, <2>1, <2>2
  <2>4. ASSUME NEW j \in subscribers' \ overlapped' PROVE j = i /\ j \in subscribers \ overlapped
    BY <2>1, <2>3, <2>4
  <2> QED BY <2>1, <2>4 DEF AloneMeansAlone
<1>5. ASSUME NEW i \in Invocations, SendSettles(i) PROVE AloneMeansAlone'
  <2>1. /\ UNCHANGED <<pc, overlapped>>
        /\ \A j \in Invocations : sendTask'[j] = "pending" => sendTask[j] = "pending"
        /\ prompts' = prompts \/ (prompts' = Append(prompts, i) /\ sendTask[i] = "pending")
    BY <1>0, <1>5 DEF SendSettles, handlerVars
  <2>2. ToSet(Append(prompts, i)) = ToSet(prompts) \cup {i}
    BY <1>0, AppendFacts
  <2>3. subscribers' = subscribers
    BY <1>0, <2>1
  <2> QED BY <2>1, <2>2, <2>3 DEF AloneMeansAlone
<1>6. CASE Session
  <2>1. prompts # <<>> /\ prompts' \in {prompts, Tail(prompts)} /\ UNCHANGED <<pc, sendTask, overlapped>>
    BY <1>6 DEF Session, EmitText, EmitError, EmitIdle, TurnIsOpen, Publish
  <2>2. ToSet(prompts') \subseteq ToSet(prompts)
    BY <1>0, <2>1, TailFacts
  <2>3. subscribers' = subscribers
    BY <1>0, <2>1
  <2> QED BY <1>1, <2>1, <2>2, <2>3
<1>7. CASE UNCHANGED vars \/ \E i \in Invocations : Disconnect(i)
  <2>1. UNCHANGED <<pc, prompts, sendTask, overlapped>>
    BY <1>7 DEF vars, Disconnect, handlerVars, sessionVars
  <2>2. subscribers' = subscribers
    BY <1>0, <2>1
  <2> QED BY <1>1, <2>1, <2>2
<1> QED BY <1>2, <1>3, <1>4, <1>5, <1>6, <1>7 DEF Next, Handle

-----------------------------------------------------------------------------
(* An event that is said while the handler listens goes to its channel.    *)
LEMMA SayingKeepsRelayed ==
  ASSUME NEW events \in Seq(Events), NEW written \in Seq(Payloads), NEW queued \in Seq(Events),
         NEW text, NEW message, NEW e \in Events,
         Relayed(events, written, queued, text, message)
  PROVE  Relayed(Append(events, e), written, Append(queued, e), text, message)
<1>1. /\ Len(Append(events, e)) = Len(events) + 1 /\ Len(events) \in Nat
      /\ \A n \in 1..Len(events) : Append(events, e)[n] = events[n]
      /\ Append(events, e)[Len(events) + 1] = e
  BY AppendFacts
<1>2. /\ Len(Append(queued, e)) = Len(queued) + 1 /\ Len(queued) \in Nat
      /\ \A n \in 1..Len(queued) : Append(queued, e)[n] = queued[n]
      /\ Append(queued, e)[Len(queued) + 1] = e
  BY AppendFacts
<1>3. Len(written) \in Nat /\ Len(events) = Len(written) + Len(queued)
  BY DEF Relayed
<1>4. \A n \in 1..Len(written) : Append(events, e)[n] = written[n]
  BY <1>1, <1>2, <1>3 DEF Relayed
<1>5. ASSUME NEW n \in 1..(Len(queued) + 1) PROVE Append(events, e)[Len(written) + n] = Append(queued, e)[n]
  <2>1. CASE n = Len(queued) + 1
    BY <1>1, <1>2, <1>3, <2>1
  <2>2. CASE n \in 1..Len(queued)
    <3>1. Len(written) + n \in 1..Len(events)
      BY <1>1, <1>2, <1>3, <2>2
    <3> QED BY <1>1, <1>2, <2>2, <3>1 DEF Relayed
  <2>3. n = Len(queued) + 1 \/ n \in 1..Len(queued)
    BY <1>2, <1>5
  <2> QED BY <2>1, <2>2, <2>3
<1> QED BY <1>1, <1>2, <1>3, <1>4, <1>5 DEF Relayed

(* The handler keeps the text of the event it writes.                      *)
LEMMA RelayingKeepsRelayed ==
  ASSUME NEW events \in Seq(Events), NEW written \in Seq(Payloads), NEW queued \in Seq(Events),
         NEW text \in Seq(Deltas), NEW message \in {None} \cup Messages,
         Relayed(events, written, queued, text, message), queued # <<>>,
         \A n \in 1..Len(events) : events[n].place = n
  PROVE  LET e == Head(queued) IN
           /\ Len(written) + 1 \in 1..Len(events) /\ e = events[Len(written) + 1]
           /\ Relayed(events, Append(written, e), Tail(queued),
                      IF e.kind = "delta" THEN Append(text, e) ELSE text,
                      IF e.kind = "message" THEN e ELSE message)
<1> DEFINE e == Head(queued)
<1>1. /\ e \in Events /\ Tail(queued) \in Seq(Events)
      /\ Len(queued) \in Nat /\ Len(queued) > 0 /\ e = queued[1]
      /\ Len(Tail(queued)) = Len(queued) - 1
      /\ \A n \in 1..(Len(queued) - 1) : Tail(queued)[n] = queued[n + 1]
  BY TailFacts
<1> HIDE DEF e
<1>2. /\ Len(written) \in Nat /\ Len(events) = Len(written) + Len(queued)
      /\ \A n \in 1..Len(written) : events[n] = written[n]
      /\ \A n \in 1..Len(queued) : events[Len(written) + n] = queued[n]
      /\ DeltasOf(text, written) /\ LastMessageOf(message, written)
  BY DEF Relayed
<1>3. Len(written) + 1 \in 1..Len(events) /\ e = events[Len(written) + 1] /\ e.place = Len(written) + 1
  <2>1. Len(written) + 1 \in 1..Len(events) /\ 1 \in 1..Len(queued)
    BY <1>1, <1>2
  <2>2. e = events[Len(written) + 1]
    BY <1>1, <1>2, <2>1
  <2> QED BY <2>1, <2>2
<1>4. e \in Payloads /\ (e.kind = "delta" => e \in Deltas) /\ (e.kind = "message" => e \in Messages)
  BY <1>1 DEF Events, Deltas, Messages, Payloads
<1> DEFINE w == Append(written, e)
<1>5. /\ Len(w) = Len(written) + 1
      /\ \A n \in 1..Len(written) : w[n] = written[n]
      /\ w[Len(written) + 1] = e
      /\ ToSet(w) = ToSet(written) \cup {e}
  BY <1>4, AppendFacts
<1> HIDE DEF w
<1>6. \A x \in ToSet(written) : x.place < e.place /\ x.place <= e.place
  <2> TAKE x \in ToSet(written)
  <2>1. PICK n \in 1..Len(written) : x = written[n]
    BY DEF ToSet
  <2>2. n \in 1..Len(events) /\ x = events[n]
    BY <1>2, <1>1, <2>1
  <2> QED BY <1>2, <1>3, <2>1, <2>2
<1>7. DeltasOf(IF e.kind = "delta" THEN Append(text, e) ELSE text, w)
  <2>1. CASE e.kind = "delta"
    <3>1. /\ DOMAIN text = 1..Len(text) /\ Len(text) \in Nat
          /\ DOMAIN Append(text, e) = 1..(Len(text) + 1)
          /\ \A n \in 1..Len(text) : Append(text, e)[n] = text[n]
          /\ Append(text, e)[Len(text) + 1] = e
          /\ ToSet(Append(text, e)) = ToSet(text) \cup {e}
      BY <1>4, <2>1, AppendFacts
    <3>2. ToSet(Append(text, e)) = {x \in ToSet(w) : x.kind = "delta"}
      BY <1>2, <1>5, <2>1, <3>1 DEF DeltasOf
    <3>3. \A n \in DOMAIN text : text[n].place < e.place
      BY <1>2, <1>6 DEF DeltasOf, ToSet
    <3>4. InOrder(Append(text, e))
      <4>1. ASSUME NEW m \in 1..(Len(text) + 1), NEW n \in 1..(Len(text) + 1), m < n
            PROVE  Append(text, e)[m].place < Append(text, e)[n].place
        <5>1. m \in 1..Len(text)
          BY <3>1, <4>1
        <5>2. CASE n = Len(text) + 1
          BY <3>1, <3>3, <5>1, <5>2
        <5>3. CASE n \in 1..Len(text)
          BY <1>2, <3>1, <4>1, <5>1, <5>3 DEF DeltasOf, InOrder
        <5> QED BY <3>1, <5>2, <5>3
      <4> QED BY <3>1, <4>1 DEF InOrder
    <3> QED BY <2>1, <3>2, <3>4 DEF DeltasOf
  <2>2. CASE e.kind # "delta"
    BY <1>2, <1>5, <2>2 DEF DeltasOf
  <2> QED BY <2>1, <2>2
<1>8. LastMessageOf(IF e.kind = "message" THEN e ELSE message, w)
  <2>1. CASE e.kind = "message"
    <3>1. e # None /\ e \in ToSet(w) /\ e.place <= e.place
      BY <1>2, <1>3, <1>4, <1>5, <2>1, NoMessageAssumption
    <3>2. \A x \in ToSet(w) : x.place <= e.place
      BY <1>5, <1>6, <3>1
    <3> QED BY <2>1, <3>1, <3>2 DEF LastMessageOf
  <2>2. CASE e.kind # "message"
    <3>1. {x \in ToSet(w) : x.kind = "message"} = {x \in ToSet(written) : x.kind = "message"}
      BY <1>5, <2>2
    <3> QED BY <1>2, <2>2, <3>1 DEF LastMessageOf
  <2> QED BY <2>1, <2>2
<1>9. /\ Len(events) = Len(w) + Len(Tail(queued))
      /\ \A n \in 1..Len(w) : events[n] = w[n]
  <2>1. \A n \in 1..Len(w) : n \in 1..Len(written) \/ n = Len(written) + 1
    BY <1>2, <1>5
  <2>2. Len(events) = Len(w) + Len(Tail(queued))
    BY <1>1, <1>2, <1>5
  <2> QED BY <1>2, <1>3, <1>5, <2>1, <2>2
<1>10. ASSUME NEW n \in 1..Len(Tail(queued)) PROVE events[Len(w) + n] = Tail(queued)[n]
  <2>1. n \in 1..(Len(queued) - 1) /\ n + 1 \in 1..Len(queued) /\ Len(w) + n = Len(written) + (n + 1)
    BY <1>1, <1>2, <1>5
  <2> QED BY <1>1, <1>2, <2>1
<1>11. Relayed(events, w, Tail(queued), IF e.kind = "delta" THEN Append(text, e) ELSE text,
               IF e.kind = "message" THEN e ELSE message)
  BY <1>7, <1>8, <1>9, <1>10 DEF Relayed
<1> QED BY <1>3, <1>11 DEF e, w

(* When the idle event of its turn is written, nothing waits any more.     *)
LEMMA FinishingAnswers ==
  ASSUME NEW events \in Seq(Events), NEW written \in Seq(Payloads), NEW queued \in Seq(Events),
         NEW text, NEW message,
         Relayed(events, written, queued, text, message),
         written # <<>>, written[Len(written)].kind = "idle",
         \A n \in 1..Len(events) : events[n].kind = "idle" => n = Len(events),
         NEW p \in Payloads, p.text = IF message = None THEN text ELSE <<message>>
  PROVE  Answered(events, Append(written, p))
<1>1. /\ Len(Append(written, p)) = Len(written) + 1
      /\ \A n \in 1..Len(written) : Append(written, p)[n] = written[n]
      /\ Append(written, p)[Len(written) + 1] = p
      /\ DOMAIN written = 1..Len(written)
  BY AppendFacts
<1>2. /\ Len(events) \in Nat /\ Len(written) \in Nat /\ Len(queued) \in Nat
      /\ Len(events) = Len(written) + Len(queued)
      /\ \A n \in 1..Len(written) : events[n] = written[n]
      /\ DeltasOf(text, written) /\ LastMessageOf(message, written)
      /\ DOMAIN events = 1..Len(events)
  BY DEF Relayed
<1>3. Len(written) > 0 /\ Len(written) \in 1..Len(written) /\ Len(written) \in 1..Len(events)
  BY <1>2
<1>4. Len(events) = Len(written) /\ events[Len(events)].kind = "idle" /\ events # <<>>
  <2>1. events[Len(written)].kind = "idle"
    BY <1>2, <1>3
  <2>2. Len(events) = Len(written)
    BY <1>3, <2>1
  <2> QED BY <1>3, <2>1, <2>2
<1>5. ToSet(events) = ToSet(written)
  BY <1>1, <1>2, <1>4 DEF ToSet
<1>6. IsFullText(p.text, events)
  <2>1. CASE message = None
    <3>1. {x \in ToSet(events) : x.kind = "message"} = {}
      BY <1>2, <1>5, <2>1 DEF LastMessageOf
    <3>2. ToSet(p.text) = {x \in ToSet(events) : x.kind = "delta"} /\ InOrder(p.text)
      BY <1>2, <1>5, <2>1 DEF DeltasOf
    <3> QED BY <3>1, <3>2 DEF IsFullText
  <2>2. CASE message # None
    <3>1. /\ message \in {x \in ToSet(events) : x.kind = "message"}
          /\ \A x \in {y \in ToSet(events) : y.kind = "message"} : x.place <= message.place
      BY <1>2, <1>5, <2>2 DEF LastMessageOf
    <3> QED BY <2>2, <3>1 DEF IsFullText
  <2> QED BY <2>1, <2>2
<1> QED BY <1>1, <1>2, <1>4, <1>6 DEF Answered

(* Every step keeps the answers of the invocations that stay alone whole.  *)
LEMMA WholeStep ==
  TypeOK /\ StreamAt /\ TurnsComeOnce /\ AloneMeansAlone /\ WholeSoFar /\ [Next]_vars => WholeSoFar'
<1> SUFFICES ASSUME TypeOK, StreamAt, TurnsComeOnce, AloneMeansAlone, WholeSoFar, [Next]_vars
             PROVE  WholeSoFar'
  OBVIOUS
<1>0. /\ pc \in [Invocations -> {"arrived"} \cup Subscribed \cup Finished]
      /\ channel \in [Invocations -> Seq(Events)] /\ deltaText \in [Invocations -> Seq(Deltas)]
      /\ complete \in [Invocations -> {None} \cup Messages] /\ said \in [Invocations -> Seq(Events)]
      /\ stream \in [Invocations -> Seq(Payloads)]
      /\ prompts \in Seq(Invocations)
      /\ \A i \in Invocations : i \in subscribers <=> pc[i] \in Subscribed
  BY DEF TypeOK, subscribers
<1>1. \A i \in Invocations : i \notin overlapped => WholeOf(i)
  BY DEF WholeSoFar
<1>2. ASSUME \A i \in Invocations : i \notin overlapped' => WholeOf(i)' PROVE WholeSoFar'
  BY <1>2 DEF WholeSoFar
<1>3. \A i \in Invocations :
        /\ LastKind(stream[i]) \in Allowed(pc[i])
        /\ stream[i] # <<>> => LastKind(stream[i]) = stream[i][Len(stream[i])].kind
        /\ Len(stream[i]) \in Nat /\ (stream[i] # <<>> => Len(stream[i]) \in 1..Len(stream[i]))
        /\ DOMAIN said[i] = 1..Len(said[i])
  BY <1>0 DEF StreamAt, LastKind
(* What leaves the streams alone.                                          *)
<1>4. ASSUME NEW i \in Invocations,
             UNCHANGED <<said[i], stream[i], channel[i], deltaText[i], complete[i]>>,
             i \notin overlapped,
             pc'[i] \in Relaying => pc[i] \in Relaying,
             pc'[i] = "closed" => pc[i] = "closed"
      PROVE  WholeOf(i)'
  BY <1>1, <1>4 DEF WholeOf
<1>5. ASSUME NEW i \in Invocations, Send(i) \/ AwaitSend(i) \/ Refuse(i) \/ Disconnect(i) \/ SendSettles(i)
      PROVE  WholeSoFar'
  <2>1. UNCHANGED <<said, stream, channel, deltaText, complete>> /\ overlapped \subseteq overlapped'
    BY <1>5 DEF Send, AwaitSend, Refuse, Disconnect, SendSettles, handlerVars, sessionVars
  <2>2. /\ \A j \in Invocations : j # i => pc'[j] = pc[j]
        /\ pc'[i] \in Relaying => pc[i] \in Relaying
        /\ pc'[i] = "closed" => pc[i] = "closed"
    <3>1. CASE Send(i) BY <1>0, <3>1 DEF Send, Goto, Relaying
    <3>2. CASE AwaitSend(i) BY <1>0, <3>2 DEF AwaitSend, Goto, Relaying
    <3>3. CASE Refuse(i) BY <1>0, <3>3 DEF Refuse, Goto, Relaying
    <3>4. CASE Disconnect(i) \/ SendSettles(i) BY <3>4 DEF Disconnect, SendSettles, handlerVars
    <3> QED BY <1>5, <3>1, <3>2, <3>3, <3>4
  <2>3. ASSUME NEW j \in Invocations, j \notin overlapped' PROVE WholeOf(j)'
    BY <1>4, <2>1, <2>2, <2>3
  <2> QED BY <1>2, <2>3
<1>6. ASSUME NEW i \in Invocations, Subscribe(i) PROVE WholeSoFar'
  <2>1. /\ UNCHANGED <<said, stream, channel, deltaText, complete>> /\ overlapped \subseteq overlapped'
        /\ pc[i] = "arrived" /\ pc'[i] = "subscribed" /\ \A j \in Invocations : j # i => pc'[j] = pc[j]
    BY <1>0, <1>6 DEF Subscribe, Goto, sessionVars
  <2>2. ASSUME NEW j \in Invocations, j # i, j \notin overlapped' PROVE WholeOf(j)'
    BY <1>4, <2>1, <2>2
  <2>3. said[i] = <<>> /\ channel[i] = <<>> /\ deltaText[i] = <<>> /\ complete[i] = None
    BY <1>0, <2>1 DEF TurnsComeOnce, Subscribed
  <2>4. stream[i] = <<>>
    <3>1. LastKind(stream[i]) = "none"
      BY <1>3, <2>1 DEF Allowed
    <3>2. ASSUME stream[i] # <<>> PROVE FALSE
      <4>1. stream[i][Len(stream[i])] \in Payloads
        BY <1>0, <1>3, <3>2
      <4> QED BY <1>3, <3>1, <3>2, <4>1 DEF Payloads, Events, Kind
    <3> QED BY <3>2
  <2>5. Relayed(<<>>, <<>>, <<>>, <<>>, None)
    <3>1. ToSet(<<>>) = {} /\ InOrder(<<>>) /\ Len(<<>>) = 0
      BY DEF ToSet, InOrder
    <3> QED BY <3>1 DEF Relayed, DeltasOf, LastMessageOf
  <2>6. WholeOf(i)'
    BY <2>1, <2>3, <2>4, <2>5 DEF WholeOf
  <2> QED BY <1>2, <2>2, <2>6
(* What writes to one stream.                                              *)
<1>7. ASSUME NEW i \in Invocations, NEW p \in Payloads, stream' = [stream EXCEPT ![i] = Append(stream[i], p)]
      PROVE  /\ Len(stream'[i]) = Len(stream[i]) + 1 /\ stream'[i] = Append(stream[i], p)
             /\ stream'[i][Len(stream[i]) + 1] = p
             /\ \A n \in 1..Len(stream[i]) : stream'[i][n] = stream[i][n]
             /\ \A n \in 1..Len(stream'[i]) : n \in 1..Len(stream[i]) \/ n = Len(stream[i]) + 1
             /\ \A j \in Invocations : j # i => stream'[j] = stream[j]
  <2>1. stream'[i] = Append(stream[i], p) /\ \A j \in Invocations : j # i => stream'[j] = stream[j]
    BY <1>0, <1>7
  <2>2. stream[i] \in Seq(Payloads)
    BY <1>0
  <2>3. /\ Len(stream'[i]) = Len(stream[i]) + 1
        /\ stream'[i][Len(stream[i]) + 1] = p
        /\ \A n \in 1..Len(stream[i]) : stream'[i][n] = stream[i][n]
    BY <2>1, <2>2, AppendFacts
  <2>4. \A n \in 1..Len(stream'[i]) : n \in 1..Len(stream[i]) \/ n = Len(stream[i]) + 1
    BY <1>3, <2>3
  <2> QED BY <2>1, <2>3, <2>4
<1>8. ASSUME NEW i \in Invocations, NEW p \in Payloads, stream' = [stream EXCEPT ![i] = Append(stream[i], p)],
             i \notin overlapped, p.kind = "done" \/ p.turn = i
      PROVE  \A n \in 1..Len(stream'[i]) : stream'[i][n].kind # "done" => stream'[i][n].turn = i
  BY <1>1, <1>7, <1>8 DEF WholeOf
<1>9. ASSUME NEW i \in Invocations, Relay(i) PROVE WholeSoFar'
  <2>0. PICK e : e = Head(channel[i])
    OBVIOUS
  <2>1. /\ UNCHANGED <<said, overlapped>>
        /\ pc[i] = "streaming" /\ pc'[i] \in {"finishing", "awaitingSend", "streaming"} /\ channel[i] # <<>>
        /\ \A j \in Invocations : j # i => /\ pc'[j] = pc[j] /\ channel'[j] = channel[j]
                                           /\ deltaText'[j] = deltaText[j] /\ complete'[j] = complete[j]
    BY <1>0, <1>9 DEF Relay, Goto, sessionVars
  <2>2. /\ channel'[i] = Tail(channel[i]) /\ stream' = [stream EXCEPT ![i] = Append(stream[i], e)]
        /\ deltaText'[i] = IF e.kind = "delta" THEN Append(deltaText[i], e) ELSE deltaText[i]
        /\ complete'[i] = IF e.kind = "message" THEN e ELSE complete[i]
    BY <1>0, <1>9, <2>0 DEF Relay, Write
  <2>3. e \in Payloads
    <3>1. channel[i] \in Seq(Events) /\ channel[i] # <<>>
      BY <1>0, <2>1
    <3>2. Head(channel[i]) \in Events
      BY <3>1
    <3> QED BY <2>0, <3>2 DEF Payloads
  <2>4. ASSUME NEW j \in Invocations, j # i, j \notin overlapped' PROVE WholeOf(j)'
    BY <1>4, <1>7, <2>1, <2>2, <2>3, <2>4
  <2>5. ASSUME i \notin overlapped' PROVE WholeOf(i)'
    <3>1. Relayed(said[i], stream[i], channel[i], deltaText[i], complete[i])
      BY <1>1, <2>1, <2>5 DEF WholeOf, Relaying
    <3>2. \A n \in 1..Len(said[i]) : said[i][n].place = n /\ said[i][n].turn = i
      BY <1>3 DEF TurnsComeOnce
    <3>3. /\ said[i] \in Seq(Events) /\ stream[i] \in Seq(Payloads) /\ channel[i] \in Seq(Events)
          /\ deltaText[i] \in Seq(Deltas) /\ complete[i] \in {None} \cup Messages /\ channel[i] # <<>>
      BY <1>0, <2>1
    <3>4. /\ Len(stream[i]) + 1 \in 1..Len(said[i]) /\ e = said[i][Len(stream[i]) + 1]
          /\ Relayed(said[i], Append(stream[i], e), Tail(channel[i]),
                     IF e.kind = "delta" THEN Append(deltaText[i], e) ELSE deltaText[i],
                     IF e.kind = "message" THEN e ELSE complete[i])
      <4>1. \A n \in 1..Len(said[i]) : said[i][n].place = n
        BY <3>2
      <4> QED BY ONLY <2>0, <3>1, <3>3, <4>1, RelayingKeepsRelayed, Zenon
    <3>5. stream'[i] = Append(stream[i], e)
      BY <1>7, <2>2, <2>3
    <3>6. Relayed(said'[i], stream'[i], channel'[i], deltaText'[i], complete'[i])
      BY <2>1, <2>2, <3>4, <3>5
    <3>7. e.turn = i
      BY <3>2, <3>4
    <3>8. \A n \in 1..Len(stream'[i]) : stream'[i][n].kind # "done" => stream'[i][n].turn = i
      BY <1>8, <2>1, <2>2, <2>3, <2>5, <3>7
    <3> QED BY <2>1, <3>6, <3>8 DEF WholeOf
  <2> QED BY <1>2, <2>4, <2>5
<1>10. ASSUME NEW i \in Invocations, Interrupted(i) PROVE WholeSoFar'
  <2>1. /\ UNCHANGED <<said, stream, overlapped>> /\ pc'[i] = "aborted"
        /\ \A j \in Invocations : j # i => /\ pc'[j] = pc[j] /\ channel'[j] = channel[j]
                                           /\ deltaText'[j] = deltaText[j] /\ complete'[j] = complete[j]
    BY <1>0, <1>10 DEF Interrupted, Return, Goto, sessionVars
  <2>2. ASSUME NEW j \in Invocations, j # i, j \notin overlapped' PROVE WholeOf(j)'
    BY <1>4, <2>1, <2>2
  <2>3. ASSUME i \notin overlapped' PROVE WholeOf(i)'
    BY <1>1, <2>1, <2>3 DEF WholeOf, Relaying
  <2> QED BY <1>2, <2>2, <2>3
<1>11. ASSUME NEW i \in Invocations, WriteDone(i) PROVE WholeSoFar'
  <2>0. PICK p : p = [kind |-> "done", text |-> FullText(i)]
    OBVIOUS
  <2>1. /\ UNCHANGED <<said, overlapped>> /\ pc[i] \in {"finishing", "catchFinishing"} /\ pc'[i] = "closed"
        /\ stream' = [stream EXCEPT ![i] = Append(stream[i], p)]
        /\ \A j \in Invocations : j # i => /\ pc'[j] = pc[j] /\ channel'[j] = channel[j]
                                           /\ deltaText'[j] = deltaText[j] /\ complete'[j] = complete[j]
    BY <1>0, <1>11, <2>0 DEF WriteDone, Return, Goto, Write, sessionVars
  <2>2. p \in Payloads /\ p.kind = "done" /\ p.text = IF complete[i] = None THEN deltaText[i] ELSE <<complete[i]>>
    BY <2>0, DoneFacts DEF FullText
  <2>3. ASSUME NEW j \in Invocations, j # i, j \notin overlapped' PROVE WholeOf(j)'
    BY <1>4, <1>7, <2>1, <2>2, <2>3
  <2>4. ASSUME i \notin overlapped' PROVE WholeOf(i)'
    <3>1. \A n \in 1..Len(stream'[i]) : stream'[i][n].kind # "done" => stream'[i][n].turn = i
      BY <1>8, <2>1, <2>2, <2>4
    <3>2. /\ stream'[i] = Append(stream[i], p) /\ Len(stream'[i]) = Len(stream[i]) + 1
          /\ \A n \in 1..Len(stream[i]) : stream'[i][n] = stream[i][n]
      BY <1>7, <2>1, <2>2
    <3>3. stream[i] # <<>> /\ stream[i][Len(stream[i])].kind \in {"idle", "error"}
      <4>1. LastKind(stream[i]) \in {"idle", "error"}
        BY <1>3, <2>1 DEF Allowed
      <4>2. stream[i] # <<>>
        BY <4>1 DEF LastKind
      <4> QED BY <1>3, <4>1, <4>2
    <3>4. CASE stream[i][Len(stream[i])].kind = "error"
      <4>1. Len(stream[i]) \in 1..Len(stream'[i]) /\ Len(stream[i]) \in 1..Len(stream[i])
        BY <1>3, <3>2, <3>3
      <4>2. HasError(stream'[i])
        BY <3>2, <3>4, <4>1 DEF HasError
      <4> QED BY <2>1, <3>1, <4>2 DEF WholeOf, Relaying
    <3>5. CASE stream[i][Len(stream[i])].kind = "idle"
      <4>1. pc[i] = "finishing"
        BY <1>3, <2>1, <3>3, <3>5 DEF Allowed
      <4>2. Relayed(said[i], stream[i], channel[i], deltaText[i], complete[i])
        BY <1>1, <2>1, <2>4, <4>1 DEF WholeOf, Relaying
      <4>3. \A n \in 1..Len(said[i]) : said[i][n].kind = "idle" => n = Len(said[i])
        BY <1>3 DEF TurnsComeOnce
      <4>4. said[i] \in Seq(Events) /\ stream[i] \in Seq(Payloads) /\ channel[i] \in Seq(Events)
        BY <1>0
      <4>5. Answered(said[i], Append(stream[i], p))
        BY <2>2, <3>3, <3>5, <4>2, <4>3, <4>4, FinishingAnswers
      <4> QED BY <2>1, <3>1, <3>2, <4>5 DEF WholeOf, Relaying
    <3> QED BY <3>3, <3>4, <3>5
  <2> QED BY <1>2, <2>3, <2>4
<1>12. ASSUME NEW i \in Invocations, CatchError(i) PROVE WholeSoFar'
  <2>1. /\ UNCHANGED <<said, overlapped, channel, deltaText, complete>> /\ pc'[i] = "catchFinishing"
        /\ stream' = [stream EXCEPT ![i] = Append(stream[i], Event("error", i, 0))]
        /\ \A j \in Invocations : j # i => pc'[j] = pc[j]
    BY <1>0, <1>12 DEF CatchError, Goto, Write, sessionVars
  <2>2. Event("error", i, 0) \in Payloads /\ Event("error", i, 0).turn = i
    BY DEF Event, Events, Kind, Payloads
  <2>3. ASSUME NEW j \in Invocations, j # i, j \notin overlapped' PROVE WholeOf(j)'
    BY <1>4, <1>7, <2>1, <2>2, <2>3
  <2>4. ASSUME i \notin overlapped' PROVE WholeOf(i)'
    <3>1. \A n \in 1..Len(stream'[i]) : stream'[i][n].kind # "done" => stream'[i][n].turn = i
      BY <1>8, <2>1, <2>2, <2>4
    <3> QED BY <2>1, <3>1 DEF WholeOf, Relaying
  <2> QED BY <1>2, <2>3, <2>4
<1>13. ASSUME NEW kind \in Kind, Publish(kind), prompts # <<>>, prompts' \in {prompts, Tail(prompts)}
       PROVE  WholeSoFar'
  <2>0. PICK t : t = Turn
    OBVIOUS
  <2>1. PICK e \in Events :
           /\ t \in Invocations /\ t \in ToSet(prompts)
           /\ said'[t] = Append(said[t], e) /\ \A i \in Invocations : i # t => said'[i] = said[i]
           /\ \A i \in Invocations : channel'[i] = IF i \in subscribers THEN Append(channel[i], e) ELSE channel[i]
    BY <1>13, <2>0, PublishFacts
  <2>2. UNCHANGED <<pc, stream, deltaText, complete, overlapped>>
    BY <1>13 DEF Publish
  <2>3. ASSUME NEW j \in Invocations, j \notin overlapped', j \in subscribers PROVE WholeOf(j)'
    <3>1. j = t
      BY <2>1, <2>2, <2>3 DEF AloneMeansAlone
    <3>2. WholeOf(j)
      BY <1>1, <2>2, <2>3
    <3>3. said[j] \in Seq(Events) /\ stream[j] \in Seq(Payloads) /\ channel[j] \in Seq(Events)
      BY <1>0
    <3>4. said'[j] = Append(said[j], e) /\ channel'[j] = Append(channel[j], e)
      BY <2>1, <2>3, <3>1
    <3>5. pc[j] \in Relaying => Relayed(said'[j], stream[j], channel'[j], deltaText[j], complete[j])
      BY <3>2, <3>3, <3>4, SayingKeepsRelayed DEF WholeOf
    <3>6. pc[j] # "closed"
      BY <1>0, <2>3 DEF Subscribed
    <3> QED BY <2>2, <3>2, <3>5, <3>6 DEF WholeOf
  <2>4. ASSUME NEW j \in Invocations, j \notin overlapped', j \notin subscribers PROVE WholeOf(j)'
    <3>1. WholeOf(j) /\ pc[j] \notin Relaying
      BY <1>0, <1>1, <2>2, <2>4 DEF Relaying, Subscribed
    <3>2. CASE j # t
      BY <1>4, <2>1, <2>2, <2>4, <3>2
    <3>3. CASE j = t
      <4>1. \A n \in 1..Len(said[j]) : said[j][n].kind # "idle"
        BY <1>3, <2>1, <3>3 DEF TurnsComeOnce
      <4>2. said[j] # <<>> => Len(said[j]) \in 1..Len(said[j])
        BY <1>0
      <4>3. ~Answered(said[j], stream[j])
        BY <4>1, <4>2 DEF Answered
      <4> QED BY <2>2, <3>1, <4>3 DEF WholeOf
    <3> QED BY <3>2, <3>3
  <2> QED BY <1>2, <2>3, <2>4
<1>14. CASE Session
  BY <1>13, <1>14 DEF Session, EmitText, EmitError, EmitIdle, TurnIsOpen, Kind
<1>15. CASE UNCHANGED vars
  <2>1. UNCHANGED <<pc, said, stream, channel, deltaText, complete, overlapped>>
    BY <1>15 DEF vars, handlerVars, sessionVars
  <2>2. ASSUME NEW j \in Invocations, j \notin overlapped' PROVE WholeOf(j)'
    BY <1>4, <2>1, <2>2
  <2> QED BY <1>2, <2>2
<1> QED BY <1>5, <1>6, <1>9, <1>10, <1>11, <1>12, <1>14, <1>15 DEF Next, Handle

(* GitHubCopilotInvocationHandler: an answer that had the session for      *)
(* itself is whole - every event of its turn was relayed, in order, and    *)
(* done repeats its text - and only a session with two requests on it      *)
(* shows one of them the other's events.                                   *)
THEOREM AnswersStayTogether == Spec => []AnswersKeepTogether
<1>1. Init => TogetherInv
  <2>1. ToSet(<<>>) = {}
    BY DEF ToSet
  <2> QED BY <2>1 DEF Init, TogetherInv, TurnsComeOnce, AloneMeansAlone, WholeSoFar, WholeOf, subscribers, Subscribed, Relaying
<1>2. IInv /\ TogetherInv /\ [Next]_vars => TogetherInv'
  BY TurnsStep, AloneStep, WholeStep DEF TogetherInv, IInv
<1>3. IInv /\ TogetherInv => AnswersKeepTogether
  <2> SUFFICES ASSUME IInv, TogetherInv PROVE AnswersKeepTogether
    OBVIOUS
  <2>1. \A i \in Invocations :
          /\ stream[i] \in Seq(Payloads) /\ said[i] \in Seq(Events)
          /\ DOMAIN stream[i] = 1..Len(stream[i])
          /\ \A n \in 1..Len(stream[i]) : Kinds(i)[n] = stream[i][n].kind
    BY DEF IInv, TypeOK, Kinds
  <2>2. \A i \in Invocations : i \notin overlapped => WholeOf(i)
    BY DEF TogetherInv, WholeSoFar
  <2>3. ForeignTextNeedsOverlap
    BY <2>1, <2>2 DEF ForeignTextNeedsOverlap, WholeOf
  <2>4. ASSUME NEW i \in Invocations, i \notin overlapped, pc[i] = "closed", ~Contains(Kinds(i), "error")
        PROVE  WholeAnswer(i)
    <3>1. ~HasError(stream[i])
      <4>1. DOMAIN Kinds(i) = 1..Len(stream[i]) /\ Len(stream[i]) \in Nat
        BY <2>1 DEF Kinds
      <4>2. Len(Kinds(i)) = Len(stream[i])
        BY <4>1
      <4> QED BY <2>1, <2>4, <4>1, <4>2 DEF HasError, Contains
    <3>2. Answered(said[i], stream[i])
      BY <2>2, <2>4, <3>1 DEF WholeOf
    <3>3. Front(stream[i]) = said[i]
      <4>1. /\ Len(stream[i]) = Len(said[i]) + 1 /\ Len(said[i]) \in Nat
            /\ \A n \in 1..Len(said[i]) : stream[i][n] = said[i][n]
        BY <2>1, <3>2 DEF Answered
      <4>2. /\ Front(stream[i]) \in Seq(Payloads) /\ Len(Front(stream[i])) = Len(said[i])
            /\ \A n \in 1..Len(said[i]) : Front(stream[i])[n] = stream[i][n]
        BY <2>1, <4>1 DEF Front
      <4>3. /\ said[i] \in Seq(Events) /\ Events \subseteq Payloads
            /\ \A n \in 1..Len(said[i]) : Front(stream[i])[n] = said[i][n]
        BY <2>1, <4>1, <4>2 DEF Payloads
      <4>4. said[i] \in Seq(Payloads)
        BY ONLY <4>3
      <4> QED BY ONLY <4>2, <4>3, <4>4
    <3>4. Last(stream[i]) = stream[i][Len(stream[i])]
      BY DEF Last
    <3> QED BY <3>2, <3>3, <3>4 DEF Answered, IsFullText, WholeAnswer
  <2> QED BY <2>3, <2>4 DEF AnswersKeepTogether, WholeAnswerWhenAlone
<1> QED BY Invariance, <1>1, <1>2, <1>3, PTL DEF Spec
=============================================================================
