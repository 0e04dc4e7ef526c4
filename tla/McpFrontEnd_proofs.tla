-------------------------- MODULE McpFrontEnd_proofs --------------------------
(***************************************************************************)
(* Proofs about McpFrontEnd for any set of requests and of JSON-RPC ids:   *)
(* type correctness, which says that exactly the requests in their         *)
(* handler have a server open and that no response gets two statuses, that *)
(* no answer goes to another request, and that who stays is answered.      *)
(*                                                                         *)
(* Neither is inductive.  OwnAnswer rests on what a transport registers:   *)
(* its own request and no other, whatever the id (OwnTransport).  TypeOK   *)
(* rests on the place of the first status line (NoHeadYet).  That clients  *)
(* who stay are answered is shown from the tool's side (HandedOver).       *)
(***************************************************************************)
EXTENDS McpFrontEnd, TLAPS

OwnTransport == \A p \in Posts, i \in Ids : waiting[p][i] \in {None, p}

NoHeadYet == \A p \in Posts : pc[p] \in {"new", "connect", "handle"} => heads[p] = 0

IInv == TypeOK /\ NoHeadYet /\ OwnTransport /\ OwnAnswer

-----------------------------------------------------------------------------
(* A status line is counted once when there was none, and the catch block  *)
(* sees to it that there is one.                                           *)
LEMMA HeadTypes ==
  ASSUME heads \in [Posts -> {0, 1}], NEW p \in Posts, heads[p] = 0, WriteHead(p)
  PROVE  heads' = [heads EXCEPT ![p] = 1] /\ heads' \in [Posts -> {0, 1}]
BY DEF WriteHead

LEMMA ThrowTypes ==
  ASSUME heads \in [Posts -> {0, 1}], NEW p \in Posts, Throw(p)
  PROVE  heads' = [heads EXCEPT ![p] = 1] /\ heads' \in [Posts -> {0, 1}]
<1>1. CASE heads[p] = 0 BY <1>1, HeadTypes DEF Throw
<1>2. CASE heads[p] # 0 BY <1>2 DEF Throw
<1> QED BY <1>1, <1>2

(* Every step keeps the types; a handler opens its server with its first   *)
(* step and closes it with its last, and the status is given in between.   *)
LEMMA TypeStep == TypeOK /\ NoHeadYet /\ [Next]_vars => (TypeOK /\ NoHeadYet)'
<1> SUFFICES ASSUME TypeOK, NoHeadYet, [Next]_vars PROVE (TypeOK /\ NoHeadYet)'
  OBVIOUS
<1> USE NoPostAssumption DEF TypeOK, NoHeadYet, Steps, Routes, Goto, TransportOf, sdkVars
<1>1. ASSUME NEW p \in Posts, HandlePost(p) PROVE (TypeOK /\ NoHeadYet)'
  <2>1. CASE Make(p) BY <2>1 DEF Make
  <2>2. CASE Connect(p)
    <3>1. CASE Goto(p, "handle") /\ UNCHANGED heads BY <2>2, <3>1 DEF Connect
    <3>2. CASE Throw(p)
      <4>1. heads' = [heads EXCEPT ![p] = 1] /\ heads' \in [Posts -> {0, 1}] BY ONLY TypeOK, <3>2, ThrowTypes DEF TypeOK
      <4>2. pc' = [pc EXCEPT ![p] = "finally"] BY <3>2 DEF Throw
      <4> QED BY <2>2, <4>1, <4>2 DEF Connect
    <3> QED BY ONLY <2>2, <3>1, <3>2 DEF Connect
  <2>3. CASE Handle(p)
    <3>1. heads[p] = 0
      BY <2>3 DEF Handle
    <3>2. WriteHead(p) \/ Throw(p)
      BY ONLY <2>3 DEF Handle
    <3>3. heads' = [heads EXCEPT ![p] = 1] /\ heads' \in [Posts -> {0, 1}]
      BY ONLY TypeOK, <3>1, <3>2, HeadTypes, ThrowTypes DEF TypeOK
    <3>4. waiting' \in [Posts -> [Ids -> Posts \cup {None}]]
      <4>1. [waiting[p] EXCEPT ![rpcId[p]] = p] \in [Ids -> Posts \cup {None}]
        OBVIOUS
      <4>2. waiting' = waiting \/ waiting' = [waiting EXCEPT ![p][rpcId[p]] = p]
        BY ONLY <2>3 DEF Handle, TransportOf, sdkVars
      <4>3. waiting \in [Posts -> [Ids -> Posts \cup {None}]]
        OBVIOUS
      <4> QED BY ONLY <4>1, <4>2, <4>3
    <3>5. called' \subseteq Posts
      BY <2>3 DEF Handle
    <3>6. pc' = [pc EXCEPT ![p] = "respond"] \/ pc' = [pc EXCEPT ![p] = "finally"]
      BY ONLY <2>3 DEF Handle, Goto, Throw
    <3> QED BY <2>3, <3>3, <3>4, <3>5, <3>6 DEF Handle
  <2>4. CASE Responded(p)
    <3>1. CASE Goto(p, "finally") /\ UNCHANGED heads BY <2>4, <3>1 DEF Responded
    <3>2. CASE Throw(p)
      <4>1. heads' = [heads EXCEPT ![p] = 1] /\ heads' \in [Posts -> {0, 1}] BY ONLY TypeOK, <3>2, ThrowTypes DEF TypeOK
      <4>2. pc' = [pc EXCEPT ![p] = "finally"] BY <3>2 DEF Throw
      <4> QED BY <2>4, <4>1, <4>2 DEF Responded
    <3> QED BY ONLY <2>4, <3>1, <3>2 DEF Responded
  <2>5. CASE Close(p) BY <2>5 DEF Close
  <2> QED BY ONLY <1>1, <2>1, <2>2, <2>3, <2>4, <2>5 DEF HandlePost
<1>2. ASSUME NEW p \in Posts, Get(p) PROVE (TypeOK /\ NoHeadYet)'
  <2>1. heads' = [heads EXCEPT ![p] = 1] /\ heads' \in [Posts -> {0, 1}]
    BY <1>2, HeadTypes DEF Get
  <2> QED BY <1>2, <2>1 DEF Get
<1>3. ASSUME NEW p \in Posts, RunTool(p) PROVE (TypeOK /\ NoHeadYet)'
  <2>1. effects' \in [Routes -> Seq(Posts)]
    <3>1. route[p] \in Routes /\ effects[route[p]] \in Seq(Posts)
      OBVIOUS
    <3>2. Append(effects[route[p]], p) \in Seq(Posts)
      BY <3>1
    <3>3. effects' = [effects EXCEPT ![route[p]] = Append(@, p)]
      BY <1>3 DEF RunTool
    <3> HIDE DEF Routes
    <3> QED BY <3>1, <3>2, <3>3
  <2>2. answers' \in [Posts -> Seq(Posts)]
    <3>1. waiting[p][rpcId[p]] \in Posts \cup {None}
      OBVIOUS
    <3>2. answers' = answers \/ \E q \in Posts : answers' = [answers EXCEPT ![q] = Append(@, p)]
      BY <1>3, <3>1 DEF RunTool
    <3>3. ASSUME NEW q \in Posts PROVE Append(answers[q], p) \in Seq(Posts)
      OBVIOUS
    <3>4. ASSUME NEW q \in Posts, answers' = [answers EXCEPT ![q] = Append(@, p)]
          PROVE  answers' \in [Posts -> Seq(Posts)]
      BY ONLY TypeOK, <3>3, <3>4 DEF TypeOK
    <3> QED BY <3>2, <3>4
  <2> QED BY <1>3, <2>1, <2>2 DEF RunTool
<1>4. ASSUME NEW p \in Posts, Leave(p) PROVE (TypeOK /\ NoHeadYet)'
  BY <1>4 DEF Leave
<1>5. CASE UNCHANGED vars
  BY <1>5 DEF vars
<1> QED BY ONLY [Next]_vars, <1>1, <1>2, <1>3, <1>4, <1>5 DEF Next, PostMcp, PostWorldcup, PostCrm

(* A transport is registered with by the request it was made for only.     *)
LEMMA TransportStep == TypeOK /\ OwnTransport /\ [Next]_vars => (OwnTransport)'
<1> SUFFICES ASSUME TypeOK /\ OwnTransport, [Next]_vars PROVE (OwnTransport)'
  OBVIOUS
<1> USE NoPostAssumption DEF TypeOK, OwnTransport, Goto, WriteHead, Throw, TransportOf, sdkVars
<1>1. ASSUME NEW p \in Posts, HandlePost(p) PROVE (OwnTransport)'
  <2>1. CASE Make(p) BY <2>1 DEF Make
  <2>2. CASE Connect(p) BY <2>2 DEF Connect
  <2>3. CASE Handle(p)
    <3>1. waiting' = waiting \/ waiting' = [waiting EXCEPT ![p][rpcId[p]] = p]
      BY ONLY <2>3 DEF Handle, TransportOf, sdkVars
    <3>2. ASSUME NEW q \in Posts, NEW i \in Ids, waiting' = [waiting EXCEPT ![p][rpcId[p]] = p]
          PROVE  waiting'[q][i] \in {None, q}
      <4>1. waiting[q] \in [Ids -> Posts \cup {None}] /\ waiting[q][i] \in {None, q}
        BY ONLY TypeOK, OwnTransport DEF TypeOK, OwnTransport
      <4>2. waiting'[q] = IF q = p THEN [waiting[q] EXCEPT ![rpcId[p]] = p] ELSE waiting[q]
        BY ONLY TypeOK, <3>2 DEF TypeOK
      <4> QED BY ONLY <4>1, <4>2
    <3> QED BY ONLY OwnTransport, <3>1, <3>2 DEF OwnTransport
  <2>4. CASE Responded(p) BY <2>4 DEF Responded
  <2>5. CASE Close(p) BY <2>5 DEF Close
  <2> QED BY ONLY <1>1, <2>1, <2>2, <2>3, <2>4, <2>5 DEF HandlePost
<1>2. ASSUME NEW p \in Posts, Get(p) PROVE (OwnTransport)'
  BY <1>2 DEF Get
<1>3. ASSUME NEW p \in Posts, RunTool(p) PROVE (OwnTransport)'
  BY <1>3 DEF RunTool
<1>4. ASSUME NEW p \in Posts, Leave(p) PROVE (OwnTransport)'
  BY <1>4 DEF Leave
<1>5. CASE UNCHANGED vars
  BY <1>5 DEF vars
<1> QED BY ONLY [Next]_vars, <1>1, <1>2, <1>3, <1>4, <1>5 DEF Next, PostMcp, PostWorldcup, PostCrm

(* The answer of a tool is written where its transport registered it.      *)
LEMMA AnswerStep == TypeOK /\ OwnTransport /\ OwnAnswer /\ [Next]_vars => (OwnAnswer)'
<1> SUFFICES ASSUME TypeOK /\ OwnTransport /\ OwnAnswer, [Next]_vars PROVE (OwnAnswer)'
  OBVIOUS
<1> USE NoPostAssumption DEF TypeOK, OwnTransport, OwnAnswer, Goto, WriteHead, Throw, TransportOf, sdkVars
<1>1. ASSUME NEW p \in Posts, HandlePost(p) PROVE (OwnAnswer)'
  <2>1. CASE Make(p) BY <2>1 DEF Make
  <2>2. CASE Connect(p) BY <2>2 DEF Connect
  <2>3. CASE Handle(p) BY <2>3 DEF Handle
  <2>4. CASE Responded(p) BY <2>4 DEF Responded
  <2>5. CASE Close(p) BY <2>5 DEF Close
  <2> QED BY ONLY <1>1, <2>1, <2>2, <2>3, <2>4, <2>5 DEF HandlePost
<1>2. ASSUME NEW p \in Posts, Get(p) PROVE (OwnAnswer)'
  BY <1>2 DEF Get
<1>3. ASSUME NEW p \in Posts, RunTool(p) PROVE (OwnAnswer)'
  <2>1. answers' = answers \/ answers' = [answers EXCEPT ![p] = Append(@, p)]
    BY <1>3 DEF RunTool
  <2>2. ASSUME answers' = [answers EXCEPT ![p] = Append(@, p)], NEW q \in Posts
        PROVE  ToSet(answers'[q]) \subseteq {q}
    <3>1. answers[p] \in Seq(Posts) /\ answers'[q] = IF q = p THEN Append(answers[p], p) ELSE answers[q]
      BY <2>2
    <3>2. \A i \in DOMAIN Append(answers[p], p) :
            Append(answers[p], p)[i] = p \/ (i \in DOMAIN answers[p] /\ Append(answers[p], p)[i] = answers[p][i])
      BY <3>1
    <3>3. ToSet(answers[q]) \subseteq {q} /\ ToSet(answers[p]) \subseteq {p}
      OBVIOUS
    <3>4. CASE q = p
      <4>1. \A i \in DOMAIN Append(answers[p], p) : Append(answers[p], p)[i] = p
        BY ONLY <3>2, <3>3 DEF ToSet
      <4> QED BY ONLY <3>1, <3>4, <4>1 DEF ToSet
    <3>5. CASE q # p
      BY ONLY <3>1, <3>3, <3>5
    <3> QED BY <3>4, <3>5
  <2> QED BY <2>1, <2>2
<1>4. ASSUME NEW p \in Posts, Leave(p) PROVE (OwnAnswer)'
  BY <1>4 DEF Leave
<1>5. CASE UNCHANGED vars
  BY <1>5 DEF vars
<1> QED BY ONLY [Next]_vars, <1>1, <1>2, <1>3, <1>4, <1>5 DEF Next, PostMcp, PostWorldcup, PostCrm

-----------------------------------------------------------------------------
(* From the tool's side: a request that was handed over is registered for  *)
(* an answer until its response has ended, its call is pending or was      *)
(* carried out once, and an end without the answer means it is gone.       *)
HandedOver(p) ==
  /\ p \in called => ~Ran(p) /\ (pc[p] = "respond" \/ p \in gone)
  /\ Ran(p) => RanOnce(p) /\ (answers[p] = <<p>> \/ p \in gone)
  /\ p \in called \/ Ran(p) => pc[p] \in {"respond", "finally", "done"}
  /\ pc[p] = "respond" => waiting[p][rpcId[p]] = p /\ (p \in called \/ Ran(p))
  /\ answers[p] = <<>> \/ (answers[p] = <<p>> /\ Ran(p))

AllHandedOver == \A p \in Posts : HandedOver(p)

(* A call that is carried out is added to those of its route, once, and    *)
(* nothing changes for the calls of the others.                            *)
LEMMA EffectsOfCall ==
  ASSUME TypeOK, NEW p \in Posts, effects' = [effects EXCEPT ![route[p]] = Append(@, p)], route' = route
  PROVE  /\ Ran(p)'
         /\ ~Ran(p) => RanOnce(p)'
         /\ \A q \in Posts \ {p} : (Ran(q)' <=> Ran(q)) /\ (RanOnce(q) => RanOnce(q)')
<1> DEFINE path == route[p]
<1>1. /\ path \in Routes /\ effects \in [Routes -> Seq(Posts)] /\ effects[path] \in Seq(Posts)
      /\ \A q \in Posts : route[q] \in Routes
  BY DEF TypeOK
<1> DEFINE calls == effects[path]
           more == Append(calls, p)
<1>2. /\ DOMAIN calls = 1..Len(calls) /\ Len(calls) \in Nat
      /\ DOMAIN more = 1..(Len(calls) + 1) /\ more[Len(calls) + 1] = p
      /\ \A i \in DOMAIN calls : more[i] = calls[i]
  BY <1>1
<1>3. effects'[path] = more /\ \A other \in Routes : other # path => effects'[other] = effects[other]
  BY <1>1
<1>4. Ran(p)'
  <2>1. p \in ToSet(more)
    BY <1>2 DEF ToSet
  <2> QED BY <1>1, <1>3, <2>1 DEF Ran
<1>5. ASSUME ~Ran(p) PROVE RanOnce(p)'
  <2>1. \A j \in DOMAIN calls : calls[j] # p
    BY <1>1, <1>5 DEF Ran, ToSet
  <2>2. \A j \in DOMAIN more : more[j] = p <=> j = Len(calls) + 1
    BY <1>2, <2>1
  <2>3. Len(calls) + 1 \in DOMAIN more
    BY <1>2
  <2>4. effects'[route'[p]] = more
    BY <1>3
  <2> HIDE DEF more, calls
  <2>5. \E i \in DOMAIN more : \A j \in DOMAIN more : more[j] = p <=> j = i
    BY <2>2, <2>3
  <2> QED BY <2>4, <2>5 DEF RanOnce
<1>6. ASSUME NEW q \in Posts, q # p PROVE (Ran(q)' <=> Ran(q)) /\ (RanOnce(q) => RanOnce(q)')
  <2>1. q \in ToSet(more) <=> q \in ToSet(calls)
    <3>1. ASSUME NEW i \in DOMAIN more, more[i] = q PROVE i \in DOMAIN calls /\ calls[i] = q
      BY <1>2, <1>6, <3>1
    <3>2. ASSUME NEW i \in DOMAIN calls, calls[i] = q PROVE i \in DOMAIN more /\ more[i] = q
      BY <1>2, <3>2
    <3> HIDE DEF more, calls
    <3> QED BY <3>1, <3>2 DEF ToSet
  <2>2. Ran(q)' <=> Ran(q)
    BY <1>1, <1>3, <2>1 DEF Ran
  <2>3. ASSUME RanOnce(q) PROVE RanOnce(q)'
    <3>1. CASE route[q] # path
      BY <1>1, <1>3, <2>3, <3>1 DEF RanOnce
    <3>2. CASE route[q] = path
      <4>1. PICK i \in DOMAIN calls : \A j \in DOMAIN calls : calls[j] = q <=> j = i
        BY <2>3, <3>2 DEF RanOnce
      <4>2. i \in DOMAIN more /\ \A j \in DOMAIN more : more[j] = q <=> j = i
        BY <1>2, <1>6, <4>1
      <4>3. effects'[route'[q]] = more
        BY <1>3, <3>2
      <4> HIDE DEF more, calls
      <4> QED BY <4>2, <4>3 DEF RanOnce
    <3> QED BY <3>1, <3>2
  <2> QED BY <2>2, <2>3
<1> QED BY <1>4, <1>5, <1>6

LEMMA HandedOverStep == TypeOK /\ OwnTransport /\ AllHandedOver /\ [Next]_vars => AllHandedOver'
<1> SUFFICES ASSUME TypeOK, OwnTransport, AllHandedOver, [Next]_vars PROVE AllHandedOver'
  OBVIOUS
<1>0. /\ pc \in [Posts -> Steps] /\ waiting \in [Posts -> [Ids -> Posts \cup {None}]] /\ rpcId \in [Posts -> Ids]
      /\ answers \in [Posts -> Seq(Posts)] /\ \A q \in Posts : HandedOver(q)
  BY DEF TypeOK, AllHandedOver
(* Steps that concern others leave a request as it is.                     *)
<1>1. ASSUME NEW q \in Posts, pc'[q] = pc[q], waiting'[q] = waiting[q], answers'[q] = answers[q],
             q \in called' <=> q \in called, q \in gone' <=> q \in gone, UNCHANGED <<rpcId, route, effects>>
      PROVE  HandedOver(q)'
  <2>1. (Ran(q)' <=> Ran(q)) /\ (RanOnce(q)' <=> RanOnce(q))
    BY <1>1 DEF Ran, RanOnce
  <2> QED BY <1>0, <1>1, <2>1 DEF HandedOver
<1>2. UNCHANGED <<route, effects>> => \A q \in Posts : (Ran(q)' <=> Ran(q)) /\ (RanOnce(q)' <=> RanOnce(q))
  BY DEF Ran, RanOnce
<1>3. ASSUME NEW p \in Posts, HandlePost(p), NEW q \in Posts PROVE HandedOver(q)'
  <2>0. UNCHANGED <<rpcId, route, effects, answers, gone>>
    BY <1>3 DEF HandlePost, Make, Connect, Handle, Responded, Close
  <2>1. CASE q # p
    <3>1. pc'[q] = pc[q] /\ waiting'[q] = waiting[q]
      BY <1>0, <1>3, <2>1
         DEF HandlePost, Make, Connect, Handle, Responded, Close, Throw, Goto, TransportOf, sdkVars
    <3>2. q \in called' <=> q \in called
      BY <1>3, <2>1 DEF HandlePost, Make, Connect, Handle, Responded, Close, sdkVars
    <3> QED BY <1>1, <2>0, <3>1, <3>2
  <2>2. HandedOver(p) /\ (Ran(p)' <=> Ran(p)) /\ (RanOnce(p)' <=> RanOnce(p))
    BY <1>0, <1>2, <2>0
  <2>3. ASSUME Make(p) PROVE HandedOver(p)'
    BY <1>0, <2>0, <2>2, <2>3 DEF Make, Goto, sdkVars, HandedOver
  <2>4. ASSUME Connect(p) PROVE HandedOver(p)'
    <3>1. pc[p] = "connect" /\ pc'[p] \in {"handle", "finally"} /\ UNCHANGED sdkVars
      BY <1>0, <2>4 DEF Connect, Goto, Throw
    <3> QED BY <2>0, <2>2, <3>1 DEF HandedOver, sdkVars
  <2>5. ASSUME Handle(p) PROVE HandedOver(p)'
    <3>1. pc[p] = "handle" /\ p \notin called /\ ~Ran(p)
      BY <2>2, <2>5 DEF Handle, HandedOver
    <3>2. CASE pc'[p] = "finally" /\ UNCHANGED sdkVars
      BY <2>0, <2>2, <3>1, <3>2 DEF HandedOver, sdkVars
    <3>3. CASE waiting' = [waiting EXCEPT ![TransportOf(p)][rpcId[p]] = p] /\ called' = called \cup {p} /\ Goto(p, "respond")
      <4>1. waiting'[p][rpcId[p]] = p /\ pc'[p] = "respond"
        BY <1>0, <3>3 DEF TransportOf, Goto
      <4>2. answers[p] = <<>>
        BY <2>0, <2>2, <2>5, <3>1 DEF HandedOver, Handle
      <4> QED BY <2>0, <2>2, <3>1, <3>3, <4>1, <4>2 DEF HandedOver
    <3> QED BY <1>0, <2>5, <3>2, <3>3 DEF Handle, Goto, Throw
  <2>6. ASSUME Responded(p) PROVE HandedOver(p)'
    <3>1. pc[p] = "respond" /\ (answers[p] # <<>> \/ p \in gone) /\ pc'[p] = "finally" /\ UNCHANGED sdkVars
      BY <1>0, <2>6 DEF Responded, Goto, Throw
    <3> QED BY <2>0, <2>2, <3>1 DEF HandedOver, sdkVars
  <2>7. ASSUME Close(p) PROVE HandedOver(p)'
    <3>1. pc[p] = "finally" /\ pc'[p] = "done" /\ UNCHANGED called
      BY <1>0, <2>7 DEF Close, Goto
    <3> QED BY <2>0, <2>2, <3>1 DEF HandedOver
  <2> QED BY <1>3, <2>1, <2>3, <2>4, <2>5, <2>6, <2>7 DEF HandlePost
<1>4. ASSUME NEW p \in Posts, Get(p), NEW q \in Posts PROVE HandedOver(q)'
  <2>1. CASE q # p
    BY <1>0, <1>1, <1>4, <2>1 DEF Get, Goto, sdkVars
  <2>2. CASE q = p
    BY <1>0, <1>2, <1>4, <2>2 DEF Get, Goto, sdkVars, HandedOver
  <2> QED BY <2>1, <2>2
<1>5. ASSUME NEW p \in Posts, RunTool(p), NEW q \in Posts PROVE HandedOver(q)'
  <2>1. /\ p \in called /\ called' = called \ {p} /\ UNCHANGED <<pc, route, rpcId, waiting, gone>>
        /\ effects' = [effects EXCEPT ![route[p]] = Append(@, p)]
    BY <1>5 DEF RunTool
  <2>2. answers' = IF waiting[p][rpcId[p]] = None \/ waiting[p][rpcId[p]] \in gone
                   THEN answers ELSE [answers EXCEPT ![p] = Append(@, p)]
    BY <1>5 DEF RunTool, TransportOf, OwnTransport, TypeOK
  <2>3. Ran(p)' /\ (~Ran(p) => RanOnce(p)') /\ (q # p => (Ran(q)' <=> Ran(q)) /\ (RanOnce(q) => RanOnce(q)'))
    BY <2>1, EffectsOfCall
  <2>4. CASE q # p
    <3>1. answers'[q] = answers[q] /\ (q \in called' <=> q \in called)
      BY <1>0, <2>1, <2>2, <2>4
    <3> QED BY <1>0, <2>1, <2>3, <2>4, <3>1 DEF HandedOver
  <2>5. CASE q = p
    <3>1. ~Ran(p) /\ answers[p] = <<>> /\ (pc[p] = "respond" \/ p \in gone) /\ pc[p] \in {"respond", "finally", "done"}
      BY <1>0, <2>1 DEF HandedOver
    <3>2. Append(<<>>, p) = <<p>>
      OBVIOUS
    <3>3. answers'[p] \in {<<>>, <<p>>} /\ (p \notin gone => answers'[p] = <<p>>)
      <4>1. p \notin gone => waiting[p][rpcId[p]] = p /\ p # None
        BY <1>0, <3>1, NoPostAssumption DEF HandedOver
      <4> QED BY <1>0, <2>2, <3>1, <3>2, <4>1
    <3>4. pc[p] = "respond" => waiting[p][rpcId[p]] = p
      BY <1>0 DEF HandedOver
    <3> QED BY <2>1, <2>3, <2>5, <3>1, <3>3, <3>4 DEF HandedOver
  <2> QED BY <2>4, <2>5
<1>6. ASSUME NEW p \in Posts, Leave(p), NEW q \in Posts PROVE HandedOver(q)'
  <2>1. Ran(q)' <=> Ran(q) /\ (RanOnce(q)' <=> RanOnce(q))
    BY <1>2, <1>6 DEF Leave
  <2> QED BY <1>0, <1>2, <1>6, <2>1 DEF Leave, sdkVars, HandedOver
<1>7. CASE UNCHANGED vars
  BY <1>0, <1>1, <1>7 DEF vars, sdkVars, AllHandedOver
<1> QED BY ONLY [Next]_vars, <1>3, <1>4, <1>5, <1>6, <1>7 DEF Next, PostMcp, PostWorldcup, PostCrm, AllHandedOver

LEMMA Invariance == Spec => []IInv
<1>1. Init => IInv
  BY NoPostAssumption DEF Init, IInv, TypeOK, NoHeadYet, OwnTransport, OwnAnswer, Steps, Routes, ToSet
<1>2. IInv /\ [Next]_vars => IInv'
  BY TypeStep, TransportStep, AnswerStep DEF IInv
<1> QED BY <1>1, <1>2, PTL DEF Spec

-----------------------------------------------------------------------------
(* The state keeps its types; the server and the transport of a request    *)
(* are closed on every path, and a response gets one status at most.       *)
THEOREM TypeCorrect == Spec => []TypeOK
<1>1. IInv => TypeOK BY DEF IInv
<1> QED BY Invariance, <1>1, PTL

(* index.ts makes a transport for each POST: no response holds the result  *)
(* of another call, however many requests share a JSON-RPC id.             *)
THEOREM AnswersStayHome == Spec => []OwnAnswer
<1>1. IInv => OwnAnswer BY DEF IInv
<1> QED BY Invariance, <1>1, PTL

(* handleRequest and the finally block: a client that stays until its call *)
(* is done gets the result, and the call was carried out exactly once, for *)
(* any number of requests and whatever ids they share.                     *)
THEOREM StayersGetAnswers == Spec => []StayersAreAnswered
<1>1. Init => AllHandedOver
  BY DEF Init, AllHandedOver, HandedOver, Ran, ToSet
<1>2. AllHandedOver => StayersAreAnswered
  BY DEF AllHandedOver, HandedOver, StayersAreAnswered
<1>3. IInv => TypeOK /\ OwnTransport
  BY DEF IInv
<1> QED BY <1>1, <1>2, <1>3, HandedOverStep, Invariance, PTL DEF Spec
=============================================================================
