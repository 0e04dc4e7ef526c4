--------------------------- MODULE ChatApp_proofs ---------------------------
(***************************************************************************)
(* Proofs about the two halves of the chat app, ChatServer and ChatVoice.  *)
(*                                                                         *)
(* The server, for any set of requests, any margin, and any lifetimes of   *)
(* az that reach the fallback: type correctness, one status line per       *)
(* response, and that a token taken from the cache is alive.  HitsAreLive  *)
(* rests on CacheNeverOverstates, which is not inductive: an entry is      *)
(* written long after its run of az has begun.  The strengthening says     *)
(* what the outputs still pending know of their tokens (PendingRuns); it   *)
(* is kept because the clock stands while an output is pending.            *)
(*                                                                         *)
(* The voice, for any number of sentences and turns: type correctness, the *)
(* order of the runners and their clips, that what is spoken is of one     *)
(* reply, and that one clip is played at a time.  The invariant VoiceInv   *)
(* says where every sentence is: waiting, held by one activation of        *)
(* runTTS, or given to the element (Books).                                *)
(***************************************************************************)
EXTENDS ChatServer, ChatVoice, TLAPS

(* An output that tells an end tells the token's; one that tells none has  *)
(* a token that lives as long as the fallback.                             *)
PendingRuns ==
  \A r \in Requests :
    (az[r] # NoToken /\ az[r].value # NoToken) =>
      IF az[r].exp = NoToken THEN now + Fallback <= az[r].value ELSE az[r].exp <= az[r].value

ServerInv ==
  /\ ServerTypeOK
  /\ OneHeadPerResponse
  /\ CacheNeverOverstates
  /\ PendingRuns

-----------------------------------------------------------------------------
(* Every step of a request and of the clock keeps the types, and the       *)
(* synthesizer goes with the request that holds it.                        *)
LEMMA ServerTypeStep == ServerTypeOK /\ [ServerNext]_serverVars => ServerTypeOK'
<1> SUFFICES ASSUME ServerTypeOK, [ServerNext]_serverVars PROVE ServerTypeOK'
  OBVIOUS
<1> USE MinutesAssumption DEF ServerTypeOK, Steps, Tokens, Routes, Goto, End, Respond, Throw, WriteHead
<1>1. ASSUME NEW r \in Requests, Handle(r) PROVE ServerTypeOK'
  <2>1. CASE AnswerAtOnce(r) BY <2>1 DEF AnswerAtOnce
  <2>2. CASE Arrive(r) BY <2>2 DEF Arrive
  <2>3. CASE BadBody(r) BY <2>3 DEF BadBody
  <2>4. CASE FieldMissing(r) BY <2>4 DEF FieldMissing
  <2>5. CASE BodyForAgent(r) BY <2>5 DEF BodyForAgent, GetToken
  <2>6. CASE BodyForSpeech(r) BY <2>6 DEF BodyForSpeech
  <2>7. CASE AzRuns(r) BY <2>7 DEF AzRuns, Outputs
  <2>8. CASE AzSucceeds(r) BY <2>8 DEF AzSucceeds, EntryOf
  <2>9. CASE AzFails(r) BY <2>9 DEF AzFails
  <2>10. CASE AgentAnswers(r) BY <2>10 DEF AgentAnswers
  <2>11. CASE TextArrives(r) BY <2>11 DEF TextArrives
  <2>12. CASE StreamEnds(r) BY <2>12 DEF StreamEnds
  <2>13. CASE AgentBreaks(r) BY <2>13 DEF AgentBreaks
  <2>14. CASE SpeechSucceeds(r) BY <2>14 DEF SpeechSucceeds
  <2>15. CASE SpeechFails(r) BY <2>15 DEF SpeechFails
  <2> QED BY ONLY <1>1, <2>1, <2>2, <2>3, <2>4, <2>5, <2>6, <2>7, <2>8, <2>9, <2>10, <2>11, <2>12, <2>13, <2>14, <2>15 DEF Handle
<1>2. CASE Tick BY <1>2 DEF Tick
<1>3. CASE UNCHANGED serverVars BY <1>3 DEF serverVars
<1> QED BY ONLY [ServerNext]_serverVars, <1>1, <1>2, <1>3 DEF ServerNext

(* A response is given its status line with its end or with the beginning  *)
(* of its stream, and the catch block looks before it gives one.           *)
LEMMA HeadStep == ServerTypeOK /\ OneHeadPerResponse /\ [ServerNext]_serverVars => OneHeadPerResponse'
<1> SUFFICES ASSUME ServerTypeOK /\ OneHeadPerResponse, [ServerNext]_serverVars PROVE OneHeadPerResponse'
  OBVIOUS
<1> USE MinutesAssumption DEF ServerTypeOK, Steps, Tokens, Routes, Goto, End, Respond, Throw, WriteHead, OneHeadPerResponse
<1>1. ASSUME NEW r \in Requests, Handle(r) PROVE OneHeadPerResponse'
  <2>1. CASE AnswerAtOnce(r) BY <2>1 DEF AnswerAtOnce
  <2>2. CASE Arrive(r) BY <2>2 DEF Arrive
  <2>3. CASE BadBody(r) BY <2>3 DEF BadBody
  <2>4. CASE FieldMissing(r) BY <2>4 DEF FieldMissing
  <2>5. CASE BodyForAgent(r) BY <2>5 DEF BodyForAgent, GetToken
  <2>6. CASE BodyForSpeech(r) BY <2>6 DEF BodyForSpeech
  <2>7. CASE AzRuns(r) BY <2>7 DEF AzRuns
  <2>8. CASE AzSucceeds(r) BY <2>8 DEF AzSucceeds
  <2>9. CASE AzFails(r) BY <2>9 DEF AzFails
  <2>10. CASE AgentAnswers(r) BY <2>10 DEF AgentAnswers
  <2>11. CASE TextArrives(r) BY <2>11 DEF TextArrives
  <2>12. CASE StreamEnds(r) BY <2>12 DEF StreamEnds
  <2>13. CASE AgentBreaks(r) BY <2>13 DEF AgentBreaks
  <2>14. CASE SpeechSucceeds(r) BY <2>14 DEF SpeechSucceeds
  <2>15. CASE SpeechFails(r) BY <2>15 DEF SpeechFails
  <2> QED BY ONLY <1>1, <2>1, <2>2, <2>3, <2>4, <2>5, <2>6, <2>7, <2>8, <2>9, <2>10, <2>11, <2>12, <2>13, <2>14, <2>15 DEF Handle
<1>2. CASE Tick BY <1>2 DEF Tick
<1>3. CASE UNCHANGED serverVars BY <1>3 DEF serverVars
<1> QED BY ONLY [ServerNext]_serverVars, <1>1, <1>2, <1>3 DEF ServerNext

(* What az prints is true of its token in the minute it is printed.        *)
LEMMA PendingStep == ServerTypeOK /\ PendingRuns /\ [ServerNext]_serverVars => PendingRuns'
<1> SUFFICES ASSUME ServerTypeOK /\ PendingRuns, [ServerNext]_serverVars PROVE PendingRuns'
  OBVIOUS
<1> USE MinutesAssumption DEF ServerTypeOK, Steps, Tokens, Routes, Goto, End, Respond, Throw, WriteHead, PendingRuns
<1>1. ASSUME NEW r \in Requests, Handle(r) PROVE PendingRuns'
  <2>1. CASE AnswerAtOnce(r) BY <2>1 DEF AnswerAtOnce
  <2>2. CASE Arrive(r) BY <2>2 DEF Arrive
  <2>3. CASE BadBody(r) BY <2>3 DEF BadBody
  <2>4. CASE FieldMissing(r) BY <2>4 DEF FieldMissing
  <2>5. CASE BodyForAgent(r) BY <2>5 DEF BodyForAgent, GetToken
  <2>6. CASE BodyForSpeech(r) BY <2>6 DEF BodyForSpeech
  <2>7. CASE AzRuns(r) BY <2>7, AzRenewsAssumption DEF AzRuns, Outputs
  <2>8. CASE AzSucceeds(r) BY <2>8 DEF AzSucceeds
  <2>9. CASE AzFails(r) BY <2>9 DEF AzFails
  <2>10. CASE AgentAnswers(r) BY <2>10 DEF AgentAnswers
  <2>11. CASE TextArrives(r) BY <2>11 DEF TextArrives
  <2>12. CASE StreamEnds(r) BY <2>12 DEF StreamEnds
  <2>13. CASE AgentBreaks(r) BY <2>13 DEF AgentBreaks
  <2>14. CASE SpeechSucceeds(r) BY <2>14 DEF SpeechSucceeds
  <2>15. CASE SpeechFails(r) BY <2>15 DEF SpeechFails
  <2> QED BY ONLY <1>1, <2>1, <2>2, <2>3, <2>4, <2>5, <2>6, <2>7, <2>8, <2>9, <2>10, <2>11, <2>12, <2>13, <2>14, <2>15 DEF Handle
<1>2. CASE Tick BY <1>2 DEF Tick
<1>3. CASE UNCHANGED serverVars BY <1>3 DEF serverVars
<1> QED BY ONLY [ServerNext]_serverVars, <1>1, <1>2, <1>3 DEF ServerNext

(* An entry made from such an output does not overstate its token.         *)
LEMMA CacheStep == ServerTypeOK /\ PendingRuns /\ CacheNeverOverstates /\ [ServerNext]_serverVars => CacheNeverOverstates'
<1> SUFFICES ASSUME ServerTypeOK /\ PendingRuns /\ CacheNeverOverstates, [ServerNext]_serverVars PROVE CacheNeverOverstates'
  OBVIOUS
<1> USE MinutesAssumption DEF ServerTypeOK, Steps, Tokens, Routes, Goto, End, Respond, Throw, WriteHead, PendingRuns, CacheNeverOverstates
<1>1. ASSUME NEW r \in Requests, Handle(r) PROVE CacheNeverOverstates'
  <2>1. CASE AnswerAtOnce(r) BY <2>1 DEF AnswerAtOnce
  <2>2. CASE Arrive(r) BY <2>2 DEF Arrive
  <2>3. CASE BadBody(r) BY <2>3 DEF BadBody
  <2>4. CASE FieldMissing(r) BY <2>4 DEF FieldMissing
  <2>5. CASE BodyForAgent(r) BY <2>5 DEF BodyForAgent, GetToken
  <2>6. CASE BodyForSpeech(r) BY <2>6 DEF BodyForSpeech
  <2>7. CASE AzRuns(r) BY <2>7 DEF AzRuns
  <2>8. CASE AzSucceeds(r) BY <2>8 DEF AzSucceeds, EntryOf
  <2>9. CASE AzFails(r) BY <2>9 DEF AzFails
  <2>10. CASE AgentAnswers(r) BY <2>10 DEF AgentAnswers
  <2>11. CASE TextArrives(r) BY <2>11 DEF TextArrives
  <2>12. CASE StreamEnds(r) BY <2>12 DEF StreamEnds
  <2>13. CASE AgentBreaks(r) BY <2>13 DEF AgentBreaks
  <2>14. CASE SpeechSucceeds(r) BY <2>14 DEF SpeechSucceeds
  <2>15. CASE SpeechFails(r) BY <2>15 DEF SpeechFails
  <2> QED BY ONLY <1>1, <2>1, <2>2, <2>3, <2>4, <2>5, <2>6, <2>7, <2>8, <2>9, <2>10, <2>11, <2>12, <2>13, <2>14, <2>15 DEF Handle
<1>2. CASE Tick BY <1>2 DEF Tick
<1>3. CASE UNCHANGED serverVars BY <1>3 DEF serverVars
<1> QED BY ONLY [ServerNext]_serverVars, <1>1, <1>2, <1>3 DEF ServerNext

LEMMA ServerInvInit == ServerInit => ServerInv
BY MinutesAssumption
   DEF ServerInit, ServerInv, ServerTypeOK, Steps, Tokens, Routes, NoEntry, OneHeadPerResponse, CacheNeverOverstates, PendingRuns

LEMMA ServerInvariance == ServerSpec => []ServerInv
<1>1. ServerInv /\ [ServerNext]_serverVars => ServerInv'
  BY ServerTypeStep, HeadStep, PendingStep, CacheStep DEF ServerInv
<1> QED BY ServerInvInit, <1>1, PTL DEF ServerSpec

(* A step that takes a request from its body to fetch is a hit.            *)
LEMMA HitStep ==
  ASSUME ServerInv, [ServerNext]_serverVars, NEW r \in Requests, pc[r] = "body", pc'[r] = "fetch"
  PROVE  cache.value # NoToken /\ cache.value > now + Margin
<1> USE MinutesAssumption DEF ServerInv, ServerTypeOK, Steps, Tokens, Goto, End, Respond, Throw, WriteHead
<1>1. PICK s \in Requests : Handle(s)
  BY DEF ServerNext, Tick, serverVars
<1>2. r = s /\ BodyForAgent(r)
  BY <1>1 DEF Handle, AnswerAtOnce, Arrive, BadBody, FieldMissing, BodyForAgent, BodyForSpeech, GetToken,
       AzRuns, AzSucceeds, AzFails, AgentAnswers, TextArrives, StreamEnds, AgentBreaks, SpeechSucceeds, SpeechFails
<1>3. Hit
  BY <1>2 DEF BodyForAgent, GetToken
<1> QED BY <1>3 DEF Hit, CacheNeverOverstates

-----------------------------------------------------------------------------
(* The state keeps its types, and no synthesizer outlives its request.     *)
THEOREM ServerTypeCorrect == ServerSpec => []ServerTypeOK
<1>1. ServerInv => ServerTypeOK BY DEF ServerInv
<1> QED BY ServerInvariance, <1>1, PTL

(* writeHead is never called twice on a response, whichever of the awaits  *)
(* fails, and every response that has ended has its status line.           *)
THEOREM HeadsAreSingle == ServerSpec => []OneHeadPerResponse
<1>1. ServerInv => OneHeadPerResponse BY DEF ServerInv
<1> QED BY ServerInvariance, <1>1, PTL

(* getToken: whatever runs of az overlap and in which order they end, a    *)
(* hit hands out a token with more than the margin left.                   *)
THEOREM CacheIsHonest == ServerSpec => HitsAreLive
<1>1. ServerInv /\ [ServerNext]_serverVars =>
        [\A r \in Requests :
           (pc[r] = "body" /\ pc'[r] = "fetch") => (cache.value # NoToken /\ cache.value > now + Margin)]_serverVars
  BY HitStep
<1> QED BY ServerInvariance, <1>1, PTL DEF ServerSpec, HitsAreLive

-----------------------------------------------------------------------------
(* The voice.  What runTTS keeps book of: the sentences that wait, those   *)
(* its activations hold, and those that were given to the element.         *)

ClipStates == {"unasked", "asked", "clip", "null"}

Holds(r) == {r.clip, r.next} \ {None}

Increasing(q) == \A m, n \in DOMAIN q : m < n => q[m] < q[n]

(* Sentences wait in their order, behind all that were asked for.          *)
QueueWell(q, states, last) ==
  /\ Increasing(q)
  /\ \A s \in ToSet(q) : s <= last /\ \A t \in Sentences : states[t] # "unasked" => t < s

(* No two activations hold the same sentence, and none holds one for later *)
(* that was spoken.                                                        *)
RunnersWell(rs, states, spoken) ==
  /\ \A r \in rs :
       /\ r = Runner(r.at, r.clip, r.next) /\ r.at \in {"fetching", "playing"}
       /\ r.clip \in Sentences /\ states[r.clip] # "unasked"
       /\ r.next \in {None} \cup Sentences
       /\ r.next # None => r.clip < r.next /\ states[r.next] # "unasked" /\ r.next \notin spoken
       /\ r.at = "fetching" => r.clip \notin spoken
  /\ \A r1, r2 \in rs : r1 # r2 => Holds(r1) \cap Holds(r2) = {}

Books ==
  /\ said \in 0..MaxSentences
  /\ queue \in Seq(Sentences) /\ heard \in Seq(Sentences)
  /\ clips \in [Sentences -> ClipStates]
  /\ \A s \in Sentences : clips[s] # "unasked" => s <= said
  /\ \A s \in ToSet(heard) : clips[s] = "clip"
  /\ QueueWell(queue, clips, said)
  /\ RunnersWell(runners, clips, ToSet(heard))
  /\ NoneSpokenTwice

(* What a pass of the loop does with the sentences at hand.                *)
Passed(others, next, waiting, flag) ==
  \/ /\ next = None /\ waiting = <<>>
     /\ runners' = others /\ running' = FALSE /\ queue' = <<>> /\ clips' = clips
  \/ \E clip \in Sentences, ahead \in {None} \cup Sentences :
       /\ next # None => clip = next
       /\ next = None => clip \in ToSet(waiting)
       /\ ahead # None => clip < ahead /\ ahead \in ToSet(waiting)
       /\ runners' = others \cup {Runner("fetching", clip, ahead)} /\ running' = flag
       /\ clips' = [s \in Sentences |->
                     IF clips[s] = "unasked" /\ s \in {clip, ahead} THEN "asked" ELSE clips[s]]
       /\ queue' \in Seq(Sentences) /\ Increasing(queue')
       /\ \A s \in ToSet(queue') : s \in ToSet(waiting) /\ clip < s /\ ahead < s

LEMMA SentencesAreNumbers == Sentences \subseteq Nat /\ None \notin Sentences /\ MaxSentences \in Nat
BY BoundsAssumption DEF Sentences, None

(* The beginning of an increasing sequence and the rest of it.             *)
LEMMA FrontOfQueue ==
  ASSUME NEW work \in Seq(Sentences), Increasing(work), work # <<>>
  PROVE  LET ahead == IF Len(work) > 1 THEN work[2] ELSE None
             rest == SubSeq(work, 3, Len(work)) IN
           /\ Head(work) \in Sentences /\ Head(work) \in ToSet(work)
           /\ ahead \in {None} \cup Sentences
           /\ ahead # None => Head(work) < ahead /\ ahead \in ToSet(work)
           /\ rest \in Seq(Sentences) /\ Increasing(rest)
           /\ \A s \in ToSet(rest) : s \in ToSet(work) /\ Head(work) < s /\ ahead < s
<1> DEFINE ahead == IF Len(work) > 1 THEN work[2] ELSE None
<1> DEFINE rest == SubSeq(work, 3, Len(work))
<1>1. /\ Len(work) \in Nat /\ Len(work) > 0 /\ DOMAIN work = 1..Len(work) /\ Head(work) = work[1]
      /\ \A n \in 1..Len(work) : work[n] \in Sentences
  OBVIOUS
<1>2. Head(work) \in Sentences /\ Head(work) \in ToSet(work)
  <2>1. 1 \in 1..Len(work)
    BY <1>1
  <2> QED BY <1>1, <2>1 DEF ToSet
<1>3. /\ ahead \in {None} \cup Sentences
      /\ ahead # None => Len(work) > 1 /\ ahead = work[2] /\ Head(work) < ahead /\ ahead \in ToSet(work)
  <2>1. CASE Len(work) > 1
    <3>1. 1 \in 1..Len(work) /\ 2 \in 1..Len(work) /\ ahead = work[2]
      BY <1>1, <2>1
    <3> HIDE DEF ahead
    <3>2. ahead \in Sentences /\ ahead \in ToSet(work)
      BY <1>1, <3>1 DEF ToSet
    <3>3. Head(work) < ahead
      BY <1>1, <3>1 DEF Increasing
    <3> QED BY <2>1, <3>1, <3>2, <3>3
  <2>2. CASE ~(Len(work) > 1)
    BY <2>2
  <2> QED BY <2>1, <2>2
<1>4. /\ rest \in Seq(Sentences) /\ Len(rest) \in Nat /\ DOMAIN rest = 1..Len(rest)
      /\ \A n \in 1..Len(rest) : n + 2 \in 1..Len(work) /\ rest[n] = work[n + 2]
  <2>1. CASE Len(work) >= 3
    <3>1. /\ rest \in Seq(Sentences) /\ Len(rest) = Len(work) - 2
          /\ \A n \in 1..(Len(work) - 2) : rest[n] = work[n + 2]
      BY <1>1, <2>1
    <3> HIDE DEF rest
    <3> QED BY <1>1, <2>1, <3>1
  <2>2. CASE ~(Len(work) >= 3)
    <3>1. rest = <<>>
      BY <1>1, <2>2
    <3> HIDE DEF rest
    <3> QED BY <3>1
  <2> QED BY <2>1, <2>2
<1> HIDE DEF ahead, rest
<1>5. Increasing(rest)
  <2>1. ASSUME NEW m \in 1..Len(rest), NEW n \in 1..Len(rest), m < n PROVE rest[m] < rest[n]
    <3>1. m + 2 \in DOMAIN work /\ n + 2 \in DOMAIN work /\ m + 2 < n + 2
      BY <1>1, <1>4, <2>1
    <3> QED BY <1>4, <3>1 DEF Increasing
  <2> QED BY <1>4, <2>1 DEF Increasing
<1>6. ASSUME NEW s \in ToSet(rest) PROVE s \in ToSet(work) /\ Head(work) < s /\ ahead < s
  <2>1. PICK n \in 1..Len(rest) : s = rest[n]
    BY <1>4 DEF ToSet
  <2>2. n + 2 \in DOMAIN work /\ s = work[n + 2] /\ 1 \in DOMAIN work /\ 2 \in DOMAIN work /\ 1 < n + 2 /\ 2 < n + 2
    BY <1>1, <1>4, <2>1
  <2>3. s \in ToSet(work) /\ work[1] < s /\ work[2] < s /\ s \in Sentences
    BY <1>1, <2>2 DEF ToSet, Increasing
  <2>4. ahead < s
    BY <1>3, <2>3, SentencesAreNumbers DEF None, Sentences
  <2> QED BY <1>1, <2>3, <2>4
<1> QED BY <1>2, <1>3, <1>4, <1>5, <1>6 DEF ahead, rest

LEMMA LoopFacts ==
  ASSUME NEW others, NEW next \in {None} \cup Sentences, NEW waiting \in Seq(Sentences), NEW flag,
         Increasing(waiting), \A s \in ToSet(waiting) : next < s,
         Loop(others, next, waiting, flag)
  PROVE  Passed(others, next, waiting, flag)
<1> DEFINE work == IF next = None THEN waiting ELSE Cons(next, waiting)
<1>1. /\ work \in Seq(Sentences) /\ Increasing(work)
      /\ \A s \in ToSet(work) : s \in ToSet(waiting) \/ (next # None /\ s = next)
      /\ next # None => work # <<>> /\ Head(work) = next
      /\ next = None => work = waiting
  <2>1. CASE next = None
    BY <2>1
  <2>2. CASE next # None
    <3>0. next \in Sentences /\ work = <<next>> \o waiting
      BY <2>2 DEF Cons
    <3> HIDE DEF work
    <3>1. /\ work \in Seq(Sentences) /\ Len(waiting) \in Nat /\ Len(work) = Len(waiting) + 1
          /\ work[1] = next /\ DOMAIN waiting = 1..Len(waiting) /\ DOMAIN work = 1..(Len(waiting) + 1)
          /\ \A n \in 2..(Len(waiting) + 1) : work[n] = waiting[n - 1]
      BY <3>0
    <3>2. ASSUME NEW n \in 2..(Len(waiting) + 1) PROVE n - 1 \in DOMAIN waiting /\ work[n] = waiting[n - 1] /\ work[n] \in ToSet(waiting)
      <4>1. n - 1 \in DOMAIN waiting /\ work[n] = waiting[n - 1]
        BY <3>1
      <4> QED BY <4>1 DEF ToSet
    <3>3. \A n \in 1..(Len(waiting) + 1) : n = 1 \/ n \in 2..(Len(waiting) + 1)
      BY <3>1
    <3>4. ASSUME NEW m \in DOMAIN work, NEW n \in DOMAIN work, m < n PROVE work[m] < work[n]
      <4>1. n \in 2..(Len(waiting) + 1)
        BY <3>1, <3>4
      <4>2. CASE m = 1
        BY <3>1, <3>2, <4>1, <4>2
      <4>3. CASE m \in 2..(Len(waiting) + 1)
        <5>1. m - 1 \in DOMAIN waiting /\ n - 1 \in DOMAIN waiting /\ m - 1 < n - 1
          BY <3>1, <3>2, <3>4, <4>1, <4>3
        <5> QED BY <3>2, <4>1, <4>3, <5>1 DEF Increasing
      <4> QED BY <3>1, <3>3, <4>2, <4>3
    <3>5. ASSUME NEW s \in ToSet(work) PROVE s \in ToSet(waiting) \/ s = next
      <4>1. PICK n \in DOMAIN work : s = work[n]
        BY DEF ToSet
      <4> QED BY <3>1, <3>2, <3>3, <4>1
    <3>6. work # <<>> /\ Head(work) = next
      BY <3>1
    <3> QED BY <2>2, <3>1, <3>4, <3>5, <3>6 DEF Increasing
  <2> QED BY <2>1, <2>2
<1> DEFINE ahead == IF Len(work) > 1 THEN work[2] ELSE None
<1>2. IF work = <<>>
      THEN /\ runners' = others /\ running' = FALSE
           /\ queue' = <<>> /\ UNCHANGED clips
      ELSE /\ runners' = others \cup {Runner("fetching", Head(work), ahead)}
           /\ running' = flag
           /\ queue' = SubSeq(work, 3, Len(work))
           /\ clips' = [s \in Sentences |->
                IF clips[s] = "unasked" /\ s \in {Head(work), ahead} THEN "asked" ELSE clips[s]]
  BY DEF Loop
<1>3. work # <<>> =>
        /\ Head(work) \in Sentences /\ Head(work) \in ToSet(work)
        /\ ahead \in {None} \cup Sentences
        /\ ahead # None => Head(work) < ahead /\ ahead \in ToSet(work)
        /\ SubSeq(work, 3, Len(work)) \in Seq(Sentences) /\ Increasing(SubSeq(work, 3, Len(work)))
        /\ \A s \in ToSet(SubSeq(work, 3, Len(work))) : s \in ToSet(work) /\ Head(work) < s /\ ahead < s
  BY <1>1, FrontOfQueue
<1> HIDE DEF work, ahead
<1>4. CASE work = <<>>
  BY <1>1, <1>2, <1>4 DEF Passed
<1>5. CASE work # <<>>
  <2>1. \A s \in ToSet(work) : (s \in Sentences /\ Head(work) < s) => s \in ToSet(waiting)
    BY <1>1, SentencesAreNumbers DEF Sentences
  <2>2. ahead # None => ahead \in ToSet(waiting)
    BY <1>3, <1>5, <2>1
  <2>3. \A s \in ToSet(queue') : s \in ToSet(waiting) /\ Head(work) < s /\ ahead < s
    <3>0. queue' \in Seq(Sentences)
      BY <1>2, <1>3, <1>5
    <3>1. \A s \in ToSet(queue') : s \in Sentences
      BY <3>0 DEF ToSet
    <3> QED BY <1>2, <1>3, <1>5, <2>1, <3>1
  <2>4. next = None => Head(work) \in ToSet(waiting)
    BY <1>1, <1>3, <1>5
  <2> QED BY <1>1, <1>2, <1>3, <1>5, <2>2, <2>3, <2>4 DEF Passed
<1> QED BY <1>4, <1>5

(* A pass of the loop keeps the books when the others' are in order and    *)
(* what it goes on with is held by nobody else.                            *)
LEMMA LoopKeeps ==
  ASSUME NEW others, NEW next \in {None} \cup Sentences, NEW waiting \in Seq(Sentences), NEW flag,
         NEW spoken \in SUBSET Sentences, NEW last \in Nat,
         clips \in [Sentences -> ClipStates],
         \A s \in Sentences : clips[s] # "unasked" => s <= last,
         \A s \in spoken : clips[s] # "unasked",
         RunnersWell(others, clips, spoken),
         QueueWell(waiting, clips, last),
         next # None => clips[next] # "unasked" /\ next \notin spoken /\ \A r \in others : next \notin Holds(r),
         Loop(others, next, waiting, flag)
  PROVE  /\ clips' \in [Sentences -> ClipStates]
         /\ \A s \in Sentences : /\ clips[s] # "unasked" => clips'[s] = clips[s]
                                 /\ clips'[s] # "unasked" => s <= last
         /\ queue' \in Seq(Sentences) /\ QueueWell(queue', clips', last)
         /\ RunnersWell(runners', clips', spoken)
         /\ Passed(others, next, waiting, flag)
<1>1. \A s \in ToSet(waiting) : s \in Sentences /\ s <= last /\ clips[s] = "unasked" /\ next < s
  <2> TAKE s \in ToSet(waiting)
  <2>1. s \in Sentences
    BY DEF ToSet
  <2>2. s <= last /\ \A t \in Sentences : clips[t] # "unasked" => t < s
    BY DEF QueueWell
  <2>3. clips[s] = "unasked"
    BY <2>1, <2>2, SentencesAreNumbers
  <2>4. next < s
    BY <2>1, <2>2 DEF None, Sentences
  <2> QED BY <2>1, <2>2, <2>3, <2>4
<1>2. Passed(others, next, waiting, flag)
  BY <1>1, LoopFacts DEF QueueWell
<1>3. CASE next = None /\ waiting = <<>> /\ runners' = others /\ running' = FALSE /\ queue' = <<>> /\ clips' = clips
  <2>1. ToSet(<<>>) = {} /\ Increasing(<<>>)
    BY DEF ToSet, Increasing
  <2> QED BY <1>2, <1>3, <2>1 DEF QueueWell
<1>4. ASSUME NEW clip \in Sentences, NEW ahead \in {None} \cup Sentences,
             next # None => clip = next,
             next = None => clip \in ToSet(waiting),
             ahead # None => clip < ahead /\ ahead \in ToSet(waiting),
             runners' = others \cup {Runner("fetching", clip, ahead)},
             clips' = [s \in Sentences |->
                       IF clips[s] = "unasked" /\ s \in {clip, ahead} THEN "asked" ELSE clips[s]],
             queue' \in Seq(Sentences), Increasing(queue'),
             \A s \in ToSet(queue') : s \in ToSet(waiting) /\ clip < s /\ ahead < s
      PROVE  /\ clips' \in [Sentences -> ClipStates]
             /\ \A s \in Sentences : /\ clips[s] # "unasked" => clips'[s] = clips[s]
                                     /\ clips'[s] # "unasked" => s <= last
             /\ QueueWell(queue', clips', last)
             /\ RunnersWell(runners', clips', spoken)
  <2>1. clips' \in [Sentences -> ClipStates]
    BY <1>4 DEF ClipStates
  <2>2. \A s \in Sentences : /\ clips[s] # "unasked" => clips'[s] = clips[s]
                             /\ clips'[s] # "unasked" => clips[s] # "unasked" \/ s = clip \/ s = ahead
    BY <1>4
  <2>3. clips'[clip] # "unasked" /\ (ahead # None => ahead \in Sentences /\ clips'[ahead] # "unasked")
    BY <1>4
  <2>4. clip <= last /\ (ahead # None => ahead <= last)
    BY <1>1, <1>4
  <2>5. \A s \in Sentences : clips'[s] # "unasked" => s <= last
    BY <2>2, <2>4, SentencesAreNumbers
  <2>6. QueueWell(queue', clips', last)
    <3>1. ASSUME NEW s \in ToSet(queue') PROVE s <= last /\ \A t \in Sentences : clips'[t] # "unasked" => t < s
      <4>1. s \in ToSet(waiting) /\ clip < s /\ ahead < s
        BY <1>4
      <4> QED BY <1>1, <2>2, <4>1 DEF QueueWell
    <3> QED BY <1>4, <3>1 DEF QueueWell
  <2>7. \A r \in others : \A s \in Holds(r) : s \in Sentences /\ clips[s] # "unasked"
    BY DEF RunnersWell, Holds
  <2>8. clip \notin spoken /\ \A r \in others : clip \notin Holds(r)
    BY <1>1, <1>4, <2>7
  <2>9. ahead # None => ahead \notin spoken /\ \A r \in others : ahead \notin Holds(r)
    BY <1>1, <1>4, <2>7
  <2> DEFINE new == Runner("fetching", clip, ahead)
  <2>10. new = Runner(new.at, new.clip, new.next) /\ new.at = "fetching" /\ new.clip = clip /\ new.next = ahead
    BY DEF Runner
  <2>11. runners' = others \cup {new}
    BY <1>4
  <2> HIDE DEF new
  <2>12. \A r \in others : Holds(r) \cap Holds(new) = {}
    BY <2>8, <2>9, <2>10 DEF Holds
  <2>13. \A r1, r2 \in runners' : r1 # r2 => Holds(r1) \cap Holds(r2) = {}
    BY <2>11, <2>12 DEF RunnersWell
  <2>14. ASSUME NEW r \in runners'
         PROVE  /\ r = Runner(r.at, r.clip, r.next) /\ r.at \in {"fetching", "playing"}
                /\ r.clip \in Sentences /\ clips'[r.clip] # "unasked"
                /\ r.next \in {None} \cup Sentences
                /\ r.next # None => r.clip < r.next /\ clips'[r.next] # "unasked" /\ r.next \notin spoken
                /\ r.at = "fetching" => r.clip \notin spoken
    <3>1. CASE r \in others
      <4>1. /\ r = Runner(r.at, r.clip, r.next) /\ r.at \in {"fetching", "playing"}
            /\ r.clip \in Sentences /\ clips[r.clip] # "unasked"
            /\ r.next \in {None} \cup Sentences
            /\ r.next # None => r.clip < r.next /\ clips[r.next] # "unasked" /\ r.next \notin spoken
            /\ r.at = "fetching" => r.clip \notin spoken
        BY <3>1 DEF RunnersWell
      <4>2. clips'[r.clip] # "unasked"
        BY <2>2, <4>1
      <4>3. ASSUME r.next # None PROVE clips'[r.next] # "unasked"
        <5>1. r.next \in Sentences /\ clips[r.next] # "unasked"
          BY <4>1, <4>3
        <5> QED BY <2>2, <5>1
      <4> QED BY <4>1, <4>2, <4>3
    <3>2. CASE r = new
      BY <1>4, <2>3, <2>8, <2>9, <2>10, <3>2
    <3> QED BY <2>11, <3>1, <3>2
  <2>15. RunnersWell(runners', clips', spoken)
    BY <2>13, <2>14 DEF RunnersWell
  <2> QED BY <2>1, <2>2, <2>5, <2>6, <2>15
<1> QED
  <2>1. CASE next = None /\ waiting = <<>> /\ runners' = others /\ running' = FALSE /\ queue' = <<>> /\ clips' = clips
    BY <1>2, <1>3, <2>1
  <2>2. CASE ~(next = None /\ waiting = <<>> /\ runners' = others /\ running' = FALSE /\ queue' = <<>> /\ clips' = clips)
    <3>1. PICK clip \in Sentences, ahead \in {None} \cup Sentences :
            /\ next # None => clip = next
            /\ next = None => clip \in ToSet(waiting)
            /\ ahead # None => clip < ahead /\ ahead \in ToSet(waiting)
            /\ runners' = others \cup {Runner("fetching", clip, ahead)} /\ running' = flag
            /\ clips' = [s \in Sentences |->
                          IF clips[s] = "unasked" /\ s \in {clip, ahead} THEN "asked" ELSE clips[s]]
            /\ queue' \in Seq(Sentences) /\ Increasing(queue')
            /\ \A s \in ToSet(queue') : s \in ToSet(waiting) /\ clip < s /\ ahead < s
      BY <1>2, <2>2 DEF Passed
    <3> QED BY <1>2, <1>4, <3>1
  <2> QED BY <2>1, <2>2

(* A set of activations stays in order when one leaves it.                 *)
LEMMA FewerRunners ==
  ASSUME NEW rs, NEW fewer \in SUBSET rs, NEW states, NEW spoken, RunnersWell(rs, states, spoken)
  PROVE  RunnersWell(fewer, states, spoken)
BY DEF RunnersWell

(* What an activation that goes on has prefetched is nobody else's.        *)
LEMMA ResolveKeeps ==
  ASSUME Books, NEW others, NEW q \in others, NEW waiting \in Seq(Sentences), NEW flag,
         NEW spoken \in SUBSET Sentences, \A s \in spoken : clips[s] # "unasked",
         RunnersWell(others, clips, spoken), QueueWell(waiting, clips, said),
         Loop(others \ {q}, q.next, waiting, flag)
  PROVE  /\ clips' \in [Sentences -> ClipStates]
         /\ \A s \in Sentences : /\ clips[s] # "unasked" => clips'[s] = clips[s]
                                 /\ clips'[s] # "unasked" => s <= said
         /\ queue' \in Seq(Sentences) /\ QueueWell(queue', clips', said)
         /\ RunnersWell(runners', clips', spoken)
         /\ Passed(others \ {q}, q.next, waiting, flag)
<1>1. RunnersWell(others \ {q}, clips, spoken)
  BY FewerRunners
<1>2. /\ q.next \in {None} \cup Sentences
      /\ q.next # None => clips[q.next] # "unasked" /\ q.next \notin spoken
      /\ q.next # None => \A r \in others \ {q} : q.next \notin Holds(r)
  <2>1. q.next # None => q.next \in Holds(q)
    BY DEF Holds
  <2> QED BY <2>1 DEF RunnersWell
<1>3. said \in Nat /\ clips \in [Sentences -> ClipStates] /\ \A s \in Sentences : clips[s] # "unasked" => s <= said
  BY SentencesAreNumbers DEF Books
<1> DEFINE next == q.next
<1> HIDE DEF next
<1>4. Loop(others \ {q}, next, waiting, flag)
  BY DEF next
<1> QED BY <1>1, <1>2, <1>3, <1>4, LoopKeeps DEF next

LEMMA EmptyQueue == ToSet(<<>>) = {} /\ \A states, last : QueueWell(<<>>, states, last)
BY DEF ToSet, QueueWell, Increasing

(* A sequence that grows by one element.                                   *)
LEMMA GrowingFacts ==
  ASSUME NEW S, NEW q \in Seq(S), NEW e \in S
  PROVE  /\ Append(q, e) \in Seq(S) /\ Append(q, e) # <<>> /\ Last(Append(q, e)) = e
         /\ Len(q) \in Nat /\ DOMAIN q = 1..Len(q)
         /\ Len(Append(q, e)) = Len(q) + 1 /\ DOMAIN Append(q, e) = 1..(Len(q) + 1)
         /\ \A n \in 1..Len(q) : Append(q, e)[n] = q[n]
         /\ Append(q, e)[Len(q) + 1] = e
         /\ ToSet(Append(q, e)) = ToSet(q) \cup {e}
<1> DEFINE t == Append(q, e)
<1>1. /\ t \in Seq(S) /\ t # <<>>
      /\ Len(q) \in Nat /\ DOMAIN q = 1..Len(q)
      /\ Len(t) = Len(q) + 1 /\ DOMAIN t = 1..(Len(q) + 1)
      /\ \A n \in 1..Len(q) : t[n] = q[n]
      /\ t[Len(q) + 1] = e
  OBVIOUS
<1> HIDE DEF t
<1>2. Last(t) = e
  BY <1>1 DEF Last
<1>3. \A n \in DOMAIN t : n \in DOMAIN q \/ n = Len(q) + 1
  BY <1>1
<1>4. \A n \in DOMAIN q : n \in DOMAIN t /\ t[n] = q[n]
  BY <1>1
<1>5. Len(q) + 1 \in DOMAIN t
  BY <1>1
<1>6. ToSet(t) = ToSet(q) \cup {e}
  BY <1>1, <1>3, <1>4, <1>5 DEF ToSet
<1> QED BY <1>1, <1>2, <1>6 DEF t

(* The sentence that is put into the queue is the last one of it.          *)
LEMMA EnqueueFacts ==
  ASSUME Books, said < MaxSentences
  PROVE  /\ said + 1 \in Sentences /\ said \in Nat
         /\ Append(queue, said + 1) \in Seq(Sentences) /\ Append(queue, said + 1) # <<>>
         /\ QueueWell(Append(queue, said + 1), clips, said + 1)
<1>1. said + 1 \in Sentences /\ said \in Nat
  BY SentencesAreNumbers DEF Books, Sentences
<1> DEFINE q == Append(queue, said + 1)
<1>2. queue \in Seq(Sentences) /\ QueueWell(queue, clips, said) /\ \A s \in Sentences : clips[s] # "unasked" => s <= said
  BY DEF Books
<1>3. /\ q \in Seq(Sentences) /\ q # <<>>
      /\ Len(queue) \in Nat /\ DOMAIN queue = 1..Len(queue)
      /\ DOMAIN q = 1..(Len(queue) + 1)
      /\ \A n \in 1..Len(queue) : q[n] = queue[n]
      /\ q[Len(queue) + 1] = said + 1
      /\ ToSet(q) = ToSet(queue) \cup {said + 1}
  BY <1>1, <1>2, GrowingFacts
<1> HIDE DEF q
<1>4. \A n \in 1..Len(queue) : queue[n] \in ToSet(queue) /\ queue[n] \in Sentences /\ queue[n] <= said
  BY <1>2, <1>3 DEF ToSet, QueueWell
<1>5. Increasing(q)
  <2>1. ASSUME NEW m \in DOMAIN q, NEW n \in DOMAIN q, m < n PROVE q[m] < q[n]
    <3>1. m \in 1..Len(queue)
      BY <1>3, <2>1
    <3>2. CASE n = Len(queue) + 1
      <4>1. q[m] = queue[m] /\ queue[m] \in Nat /\ queue[m] <= said /\ q[n] = said + 1
        BY <1>3, <1>4, <3>1, <3>2, SentencesAreNumbers
      <4> QED BY <1>1, <4>1
    <3>3. CASE n \in 1..Len(queue)
      BY <1>2, <1>3, <2>1, <3>1, <3>3 DEF QueueWell, Increasing
    <3> QED BY <1>3, <3>2, <3>3
  <2> QED BY <2>1 DEF Increasing
<1>6. ASSUME NEW s \in ToSet(q) PROVE s <= said + 1 /\ \A t \in Sentences : clips[t] # "unasked" => t < s
  <2>1. CASE s = said + 1
    BY <1>1, <1>2, <2>1, SentencesAreNumbers
  <2>2. CASE s \in ToSet(queue)
    <3>1. s \in Sentences
      BY <1>2, <2>2 DEF ToSet
    <3> QED BY <1>1, <1>2, <2>2, <3>1, SentencesAreNumbers DEF QueueWell
  <2> QED BY <1>3, <2>1, <2>2
<1> QED BY <1>1, <1>3, <1>5, <1>6 DEF QueueWell, q

(* Play gives the clip of an activation to the element; one whose clip had *)
(* not begun goes on beside it.                                            *)
LEMMA PlayKeeps ==
  ASSUME Books, NEW r \in runners, r.at = "fetching", clips[r.clip] = "clip"
  PROVE  /\ r.clip \in Sentences /\ r.clip \notin ToSet(heard)
         /\ [r EXCEPT !.at = "playing"] = Runner("playing", r.clip, r.next)
         /\ RunnersWell((runners \ {r}) \cup {Runner("playing", r.clip, r.next)}, clips, ToSet(heard) \cup {r.clip})
<1>1. /\ RunnersWell(runners, clips, ToSet(heard)) /\ r = Runner("fetching", r.clip, r.next)
      /\ r.clip \in Sentences /\ r.clip \notin ToSet(heard)
      /\ clips[r.clip] # "unasked" /\ r.next \in {None} \cup Sentences
      /\ r.next # None => r.clip < r.next /\ clips[r.next] # "unasked" /\ r.next \notin ToSet(heard)
  BY DEF Books, RunnersWell
<1>2. [r EXCEPT !.at = "playing"] = Runner("playing", r.clip, r.next)
  BY <1>1 DEF Runner
<1> DEFINE p == Runner("playing", r.clip, r.next)
<1>3. p.at = "playing" /\ p.clip = r.clip /\ p.next = r.next /\ p = Runner(p.at, p.clip, p.next)
  BY DEF Runner
<1> HIDE DEF p
<1> DEFINE rs == (runners \ {r}) \cup {p}
<1>4. Holds(p) = Holds(r) /\ r.clip \in Holds(r)
  BY <1>1, <1>3, SentencesAreNumbers DEF Holds
<1>5. \A r2 \in runners \ {r} : Holds(r2) \cap Holds(r) = {}
  BY <1>1 DEF RunnersWell
<1>6. \A r1, r2 \in rs : r1 # r2 => Holds(r1) \cap Holds(r2) = {}
  BY <1>1, <1>4, <1>5 DEF RunnersWell
<1>7. ASSUME NEW x \in rs
      PROVE  /\ x = Runner(x.at, x.clip, x.next) /\ x.at \in {"fetching", "playing"}
             /\ x.clip \in Sentences /\ clips[x.clip] # "unasked"
             /\ x.next \in {None} \cup Sentences
             /\ x.next # None => x.clip < x.next /\ clips[x.next] # "unasked" /\ x.next \notin ToSet(heard) \cup {r.clip}
             /\ x.at = "fetching" => x.clip \notin ToSet(heard) \cup {r.clip}
  <2>1. CASE x = p
    <3>1. r.next # None => r.next # r.clip
      <4>1. r.clip \in Nat /\ (r.next # None => r.clip < r.next)
        BY <1>1, SentencesAreNumbers
      <4> QED BY <4>1
    <3> QED BY <1>1, <1>3, <2>1, <3>1
  <2>2. CASE x \in runners \ {r}
    <3>1. /\ x = Runner(x.at, x.clip, x.next) /\ x.at \in {"fetching", "playing"}
          /\ x.clip \in Sentences /\ clips[x.clip] # "unasked"
          /\ x.next \in {None} \cup Sentences
          /\ x.next # None => x.clip < x.next /\ clips[x.next] # "unasked" /\ x.next \notin ToSet(heard)
          /\ x.at = "fetching" => x.clip \notin ToSet(heard)
      BY <1>1, <2>2 DEF RunnersWell
    <3>2. x.clip \in Holds(x) /\ (x.next # None => x.next \in Holds(x))
      BY <3>1, SentencesAreNumbers DEF Holds
    <3>3. x.clip # r.clip /\ (x.next # None => x.next # r.clip)
      BY <1>4, <1>5, <2>2, <3>2
    <3> QED BY <3>1, <3>3
  <2> QED BY <2>1, <2>2
<1>8. RunnersWell(rs, clips, ToSet(heard) \cup {r.clip})
  BY <1>6, <1>7 DEF RunnersWell
<1> QED BY <1>1, <1>2, <1>8 DEF p

LEMMA BooksStep == Books /\ [Next]_vars => Books'
<1> SUFFICES ASSUME Books, [Next]_vars PROVE Books'
  OBVIOUS
<1>0. /\ said \in 0..MaxSentences /\ said \in Nat
      /\ queue \in Seq(Sentences) /\ heard \in Seq(Sentences)
      /\ clips \in [Sentences -> ClipStates]
      /\ \A s \in Sentences : clips[s] # "unasked" => s <= said
      /\ \A s \in ToSet(heard) : s \in Sentences /\ clips[s] = "clip"
      /\ QueueWell(queue, clips, said)
      /\ RunnersWell(runners, clips, ToSet(heard))
      /\ NoneSpokenTwice
  BY SentencesAreNumbers DEF Books, ToSet
<1>1. ASSUME UNCHANGED <<runners, clips, said, heard>>, queue' \in {queue, <<>>} PROVE Books'
  <2>1. NoneSpokenTwice'
    BY <1>0, <1>1 DEF NoneSpokenTwice
  <2>2. queue' \in Seq(Sentences) /\ QueueWell(queue', clips', said')
    <3>1. CASE queue' = queue
      BY <1>0, <1>1, <3>1
    <3>2. CASE queue' = <<>>
      BY <3>2, EmptyQueue
    <3> QED BY <1>1, <3>1, <3>2
  <2> QED BY <1>0, <1>1, <2>1, <2>2 DEF Books
<1>2. ASSUME NEW s \in Sentences, FetchSettles(s) PROVE Books'
  <2>1. UNCHANGED <<queue, runners, said, heard>>
    BY <1>2 DEF FetchSettles
  <2>2. /\ clips' \in [Sentences -> ClipStates]
        /\ \A t \in Sentences : clips'[t] # "unasked" <=> clips[t] # "unasked"
        /\ \A t \in Sentences : clips[t] = "clip" => clips'[t] = "clip"
    BY <1>0, <1>2 DEF FetchSettles, ClipStates
  <2>3. QueueWell(queue, clips', said)
    BY <1>0, <2>2 DEF QueueWell
  <2>4. RunnersWell(runners, clips', ToSet(heard))
    <3>1. \A r \in runners : /\ clips'[r.clip] # "unasked"
                             /\ r.next # None => clips'[r.next] # "unasked"
      <4> TAKE r \in runners
      <4>1. /\ r.clip \in Sentences /\ clips[r.clip] # "unasked"
            /\ r.next # None => r.next \in Sentences /\ clips[r.next] # "unasked"
        BY <1>0 DEF RunnersWell
      <4> QED BY <2>2, <4>1
    <3> QED BY <1>0, <3>1 DEF RunnersWell
  <2>5. NoneSpokenTwice'
    BY <1>0, <2>1 DEF NoneSpokenTwice
  <2>6. /\ \A t \in Sentences : clips'[t] # "unasked" => t <= said
        /\ \A t \in ToSet(heard) : clips'[t] = "clip"
    BY <1>0, <2>2
  <2> QED BY <1>0, <2>1, <2>2, <2>3, <2>4, <2>5, <2>6 DEF Books
(* The steps that pass the loop.                                           *)
<1>3. ASSUME clips' \in [Sentences -> ClipStates], heard' = heard, said' \in 0..MaxSentences,
             \A s \in Sentences : clips[s] # "unasked" => clips'[s] = clips[s],
             \A s \in Sentences : clips'[s] # "unasked" => s <= said',
             queue' \in Seq(Sentences), QueueWell(queue', clips', said'),
             RunnersWell(runners', clips', ToSet(heard))
      PROVE  Books'
  <2>1. NoneSpokenTwice'
    BY <1>0, <1>3 DEF NoneSpokenTwice
  <2>2. \A s \in ToSet(heard') : clips'[s] = "clip"
    BY <1>0, <1>3
  <2> QED BY <1>3, <2>1, <2>2 DEF Books
<1>4. ASSUME Enqueue, heard' = heard PROVE Books'
  <2>1. /\ said < MaxSentences /\ said' = said + 1
        /\ said + 1 \in Sentences /\ said + 1 \in 0..MaxSentences /\ said + 1 \in Nat
        /\ Append(queue, said + 1) \in Seq(Sentences)
        /\ QueueWell(Append(queue, said + 1), clips, said + 1)
    BY <1>0, <1>4, EnqueueFacts, SentencesAreNumbers DEF Enqueue
  <2>2. \A s \in Sentences : clips[s] # "unasked" => s <= said + 1
    BY <1>0, SentencesAreNumbers
  <2>3. CASE running
    <3>1. queue' = Append(queue, said + 1) /\ UNCHANGED <<runners, clips>>
      BY <1>4, <2>3 DEF Enqueue
    <3> QED BY <1>0, <1>3, <1>4, <2>1, <2>2, <3>1
  <2>4. CASE ~running
    <3>1. Loop(runners, None, Append(queue, said + 1), TRUE)
      BY <1>4, <2>4 DEF Enqueue
    <3>2. ToSet(heard) \in SUBSET Sentences /\ \A s \in ToSet(heard) : clips[s] # "unasked"
      BY <1>0
    <3>3. /\ clips' \in [Sentences -> ClipStates]
          /\ \A s \in Sentences : /\ clips[s] # "unasked" => clips'[s] = clips[s]
                                  /\ clips'[s] # "unasked" => s <= said + 1
          /\ queue' \in Seq(Sentences) /\ QueueWell(queue', clips', said + 1)
          /\ RunnersWell(runners', clips', ToSet(heard))
      BY <1>0, <2>1, <2>2, <3>1, <3>2, LoopKeeps
    <3> QED BY <1>3, <1>4, <2>1, <3>3
  <2> QED BY <2>3, <2>4
<1>5. ASSUME NEW q \in runners, NEW waiting \in {queue, <<>>}, NEW flag,
             Loop(runners \ {q}, q.next, waiting, flag), UNCHANGED <<said, heard>>
      PROVE  Books'
  <2>1. waiting \in Seq(Sentences) /\ QueueWell(waiting, clips, said)
    <3>1. CASE waiting = queue
      BY <1>0, <3>1
    <3>2. CASE waiting = <<>>
      BY <3>2, EmptyQueue
    <3> QED BY <3>1, <3>2
  <2>2. ToSet(heard) \in SUBSET Sentences /\ \A s \in ToSet(heard) : clips[s] # "unasked"
    BY <1>0
  <2>3. /\ clips' \in [Sentences -> ClipStates]
        /\ \A s \in Sentences : /\ clips[s] # "unasked" => clips'[s] = clips[s]
                                /\ clips'[s] # "unasked" => s <= said
        /\ queue' \in Seq(Sentences) /\ QueueWell(queue', clips', said)
        /\ RunnersWell(runners', clips', ToSet(heard))
    BY <1>0, <1>5, <2>1, <2>2, ResolveKeeps
  <2> QED BY <1>0, <1>3, <1>5, <2>3
<1>6. ASSUME NEW r \in runners, Play(r) PROVE Books'
  <2>1. r.at = "fetching" /\ clips[r.clip] = "clip" /\ heard' = Append(heard, r.clip) /\ UNCHANGED said
    BY <1>6 DEF Play
  <2>2. /\ r.clip \in Sentences /\ r.clip \notin ToSet(heard)
        /\ [r EXCEPT !.at = "playing"] = Runner("playing", r.clip, r.next)
        /\ RunnersWell((runners \ {r}) \cup {Runner("playing", r.clip, r.next)}, clips, ToSet(heard) \cup {r.clip})
    BY <2>1, PlayKeeps
  <2> DEFINE rs == (runners \ {r}) \cup {Runner("playing", r.clip, r.next)}
  <2>3. /\ heard' \in Seq(Sentences) /\ ToSet(heard') = ToSet(heard) \cup {r.clip}
        /\ Len(heard) \in Nat /\ DOMAIN heard = 1..Len(heard) /\ Len(heard') = Len(heard) + 1
        /\ heard'[Len(heard) + 1] = r.clip
        /\ \A n \in 1..Len(heard) : heard'[n] = heard[n]
    BY <1>0, <2>1, <2>2, GrowingFacts
  <2>4. NoneSpokenTwice'
    <3>1. \A n \in 1..Len(heard) : heard[n] # r.clip
      BY <2>2, <2>3 DEF ToSet
    <3>2. \A n \in 1..Len(heard') : n \in 1..Len(heard) \/ n = Len(heard) + 1
      BY <2>3
    <3> QED BY <1>0, <2>3, <3>1, <3>2 DEF NoneSpokenTwice
  <2>5. RunnersWell(rs, clips, ToSet(heard'))
    BY <2>2, <2>3
  <2>6. \A s \in ToSet(heard') : s \in Sentences /\ clips[s] = "clip"
    BY <1>0, <2>1, <2>2, <2>3
  <2>7. ASSUME clips' \in [Sentences -> ClipStates],
               \A s \in Sentences : clips[s] # "unasked" => clips'[s] = clips[s],
               \A s \in Sentences : clips'[s] # "unasked" => s <= said,
               queue' \in Seq(Sentences), QueueWell(queue', clips', said),
               RunnersWell(runners', clips', ToSet(heard'))
        PROVE  Books'
    <3>1. \A s \in ToSet(heard') : clips'[s] = "clip"
      BY <2>6, <2>7
    <3> QED BY <1>0, <2>1, <2>3, <2>4, <2>7, <3>1 DEF Books
  <2>8. CASE audio.playback \in {"beginning", "aborted"}
    <3>1. Resolve(audio.src, rs, queue, running) \/ Resolve(audio.src, (runners \ {r}) \cup {[r EXCEPT !.at = "playing"]}, queue, running)
      BY <1>6, <2>8 DEF Play
    <3>2. PICK q \in runners : q.at = "playing" /\ Loop(rs \ {q}, q.next, queue, running)
      BY <2>2, <3>1 DEF Resolve
    <3>3. q \in rs
      BY <2>1, <3>2
    <3> HIDE DEF rs
    <3>4. ToSet(heard') \in SUBSET Sentences /\ \A s \in ToSet(heard') : clips[s] # "unasked"
      BY <2>6
    <3>5. /\ clips' \in [Sentences -> ClipStates]
          /\ \A s \in Sentences : /\ clips[s] # "unasked" => clips'[s] = clips[s]
                                  /\ clips'[s] # "unasked" => s <= said
          /\ queue' \in Seq(Sentences) /\ QueueWell(queue', clips', said)
          /\ RunnersWell(runners', clips', ToSet(heard'))
      BY <1>0, <2>5, <3>2, <3>3, <3>4, ResolveKeeps
    <3> QED BY <2>7, <3>5
  <2>9. CASE audio.playback \notin {"beginning", "aborted"}
    <3>1. runners' = rs /\ UNCHANGED <<queue, running, clips>>
      BY <1>6, <2>2, <2>9 DEF Play
    <3> QED BY <1>0, <2>5, <2>7, <3>1
  <2> QED BY <2>8, <2>9
<1>7. CASE StartVoice \/ Send \/ Delta \/ ReplyFails \/ PlaybackBegins \/ UNCHANGED vars
  BY <1>1, <1>7 DEF StartVoice, Send, Delta, ReplyFails, NothingEnqueued, PlaybackBegins, vars
<1>8. CASE StopVoice
  <2>1. CASE audio.playback \in {"beginning", "aborted"}
    <3>1. PICK q \in runners : Loop(runners \ {q}, q.next, <<>>, FALSE)
      BY <1>8, <2>1 DEF StopVoice, Resolve
    <3> QED BY <1>5, <1>8, <3>1 DEF StopVoice
  <2>2. CASE audio.playback \notin {"beginning", "aborted"}
    BY <1>1, <1>8, <2>2 DEF StopVoice
  <2> QED BY <2>1, <2>2
<1>9. CASE DeltaEndsSentence
  BY <1>4, <1>9 DEF DeltaEndsSentence
<1>10. CASE ReplyEnds
  <2>1. Enqueue \/ NothingEnqueued
    BY <1>10 DEF ReplyEnds
  <2>2. heard' = heard
    BY <1>10 DEF ReplyEnds
  <2> QED BY <1>1, <1>4, <2>1, <2>2 DEF NothingEnqueued
<1>11. ASSUME NEW r \in runners, SkipNull(r) PROVE Books'
  BY <1>5, <1>11 DEF SkipNull
<1>12. CASE PlaybackRejected \/ LoadFails \/ RejectionFollows \/ ClipEnds
  <2>1. UNCHANGED <<said, heard>>
    BY <1>12 DEF PlaybackRejected, LoadFails, RejectionFollows, ClipEnds
  <2>2. UNCHANGED <<queue, running, runners, clips>> \/ \E q \in runners : Loop(runners \ {q}, q.next, queue, running)
    BY <1>12 DEF PlaybackRejected, LoadFails, RejectionFollows, ClipEnds, Resolve
  <2> QED BY <1>1, <1>5, <2>1, <2>2
<1> QED BY <1>2, <1>6, <1>7, <1>8, <1>9, <1>10, <1>11, <1>12 DEF Next, Speak

-----------------------------------------------------------------------------
AudioIn(n) ==
  [src : 0..n, onended : 0..n, playback : {"stopped", "beginning", "playing", "aborted"}, rejected : 0..n]

(* The rest of the types; a reply that streams in answers a message.       *)
RestOK ==
  /\ voice \in {"idle", "live"}
  /\ turn \in 0..MaxTurns /\ busy \in BOOLEAN /\ speakLive \in BOOLEAN
  /\ busy => turn \in Turns
  /\ buffer \subseteq Turns
  /\ running \in BOOLEAN
  /\ audio \in AudioIn(said) /\ broken \in 0..said
  /\ ended \in BOOLEAN

LEMMA LoopFlag ==
  ASSUME NEW others, NEW next, NEW waiting, NEW flag, Loop(others, next, waiting, flag)
  PROVE  running' \in {FALSE, flag} /\ others \subseteq runners'
BY DEF Loop

LEMMA EnqueueFlag == Enqueue => running' \in {TRUE, FALSE, running} /\ runners \subseteq runners' /\ said' = said + 1
BY LoopFlag DEF Enqueue

LEMMA ResolveFlag ==
  ASSUME NEW clip, NEW others, NEW waiting, NEW flag, Resolve(clip, others, waiting, flag)
  PROVE  running' \in {FALSE, flag}
<1>1. PICK q \in runners : Loop(others \ {q}, q.next, waiting, flag)
  BY DEF Resolve
<1> QED BY <1>1, LoopFlag

LEMMA RestStep == Books /\ RestOK /\ [Next]_vars => RestOK'
<1> SUFFICES ASSUME Books, RestOK, [Next]_vars PROVE RestOK'
  OBVIOUS
<1>0. said \in Nat /\ 0..said \subseteq 0..(said + 1) /\ MaxTurns \in Nat
  BY BoundsAssumption, SentencesAreNumbers DEF Books
<1>1. ASSUME UNCHANGED <<voice, turn, speakLive, audio, broken, ended>>, busy' \in {busy, FALSE},
             buffer' \in SUBSET Turns, running' \in BOOLEAN, said' \in {said, said + 1}
      PROVE  RestOK'
  <2>1. audio' \in AudioIn(said') /\ broken' \in 0..said'
    <3>1. 0..said \subseteq 0..said'
      BY <1>0, <1>1
    <3>2. audio \in AudioIn(said) /\ broken \in 0..said
      BY DEF RestOK
    <3> QED BY <1>1, <3>1, <3>2 DEF AudioIn
  <2>2. voice' \in {"idle", "live"} /\ turn' \in 0..MaxTurns /\ speakLive' \in BOOLEAN /\ ended' \in BOOLEAN
    BY <1>1 DEF RestOK
  <2>3. busy' \in BOOLEAN /\ (busy' => turn' \in Turns)
    <3>1. busy \in BOOLEAN /\ (busy => turn \in Turns)
      BY DEF RestOK
    <3>2. CASE busy' = busy
      BY <1>1, <3>1, <3>2
    <3>3. CASE busy' = FALSE
      BY <3>3
    <3> QED BY <1>1, <3>2, <3>3
  <2> QED BY <1>1, <2>1, <2>2, <2>3 DEF RestOK
<1>2. ASSUME UNCHANGED <<voice, replyVars, buffer, said, ended>>, running' \in BOOLEAN,
             audio' \in AudioIn(said), broken' \in 0..said
      PROVE  RestOK'
  BY <1>2 DEF RestOK, replyVars
<1>3. CASE StartVoice
  BY <1>3 DEF StartVoice, replyVars, RestOK, AudioIn
<1>4. CASE StopVoice
  <2>1. running' \in BOOLEAN
    <3>1. CASE audio.playback \in {"beginning", "aborted"}
      BY <1>4, <3>1, ResolveFlag DEF StopVoice
    <3>2. CASE audio.playback \notin {"beginning", "aborted"}
      BY <1>4, <3>2 DEF StopVoice
    <3> QED BY <3>1, <3>2
  <2>2. Silence \in AudioIn(said)
    BY <1>0 DEF Silence, None, AudioIn
  <2> QED BY <1>4, <2>1, <2>2 DEF StopVoice, replyVars, RestOK
<1>5. CASE Send
  <2>1. turn' \in Turns /\ turn' \in 0..MaxTurns
    BY <1>0, <1>5 DEF Send, RestOK, Turns
  <2>2. buffer' \in SUBSET Turns
    BY <1>5 DEF Send, RestOK
  <2> QED BY <1>5, <2>1, <2>2 DEF Send, RestOK
<1>6. CASE Delta
  <2>1. buffer' \in SUBSET Turns
    BY <1>6 DEF Delta, RestOK
  <2> QED BY <1>1, <1>6, <2>1 DEF Delta, RestOK, replyVars
<1>7. CASE DeltaEndsSentence
  <2>1. buffer' \in SUBSET Turns
    BY <1>7 DEF DeltaEndsSentence, RestOK
  <2>2. running' \in BOOLEAN /\ said' = said + 1
    BY <1>7, EnqueueFlag DEF DeltaEndsSentence, RestOK
  <2> QED BY <1>1, <1>7, <2>1, <2>2 DEF DeltaEndsSentence, replyVars
<1>8. CASE ReplyEnds
  <2>1. (Enqueue /\ buffer' = {}) \/ (NothingEnqueued /\ UNCHANGED buffer)
    BY <1>8 DEF ReplyEnds
  <2>2. running' \in BOOLEAN /\ said' \in {said, said + 1}
    BY <2>1, EnqueueFlag DEF NothingEnqueued, RestOK
  <2>3. buffer' \in SUBSET Turns
    BY <2>1 DEF RestOK
  <2> QED BY <1>1, <1>8, <2>2, <2>3 DEF ReplyEnds
<1>9. CASE ReplyFails
  BY <1>9 DEF ReplyFails, NothingEnqueued, RestOK
<1>10. ASSUME NEW r \in runners, SkipNull(r) PROVE RestOK'
  <2>1. running' \in BOOLEAN
    BY <1>10, LoopFlag DEF SkipNull, RestOK
  <2> QED BY <1>2, <1>10, <2>1 DEF SkipNull, RestOK
<1>11. ASSUME NEW r \in runners, Play(r) PROVE RestOK'
  <2>1. r.clip \in 0..said
    <3>1. r.clip \in Sentences /\ clips[r.clip] # "unasked"
      BY DEF Books, RunnersWell
    <3>2. r.clip \in Nat /\ r.clip <= said
      BY <3>1, SentencesAreNumbers DEF Books
    <3> QED BY <1>0, <3>2
  <2>2. running' \in BOOLEAN
    <3>1. CASE audio.playback \in {"beginning", "aborted"}
      BY <1>11, <3>1, ResolveFlag DEF Play, RestOK
    <3>2. CASE audio.playback \notin {"beginning", "aborted"}
      BY <1>11, <3>2 DEF Play, RestOK
    <3> QED BY <3>1, <3>2
  <2>3. PICK handler \in {None, r.clip} :
          audio' = [audio EXCEPT !.src = r.clip, !.onended = handler, !.playback = "beginning"]
    BY <1>11 DEF Play
  <2>4. audio' \in AudioIn(said) /\ broken \in 0..said
    <3>1. handler \in 0..said
      BY <1>0, <2>1 DEF None
    <3>2. audio \in AudioIn(said) /\ broken \in 0..said
      BY DEF RestOK
    <3> QED BY <2>1, <2>3, <3>1, <3>2 DEF AudioIn
  <2>5. UNCHANGED <<voice, replyVars, buffer, said, broken, ended>>
    BY <1>11 DEF Play
  <2> QED BY <1>2, <2>2, <2>4, <2>5
<1>12. CASE PlaybackBegins \/ PlaybackRejected \/ LoadFails \/ RejectionFollows \/ ClipEnds
  <2>1. running' \in BOOLEAN
    <3>1. CASE PlaybackBegins
      BY <3>1 DEF PlaybackBegins, RestOK
    <3>2. CASE PlaybackRejected
      BY <3>2, ResolveFlag DEF PlaybackRejected, RestOK
    <3>3. CASE LoadFails
      BY <3>3, ResolveFlag DEF LoadFails, RestOK
    <3>4. CASE RejectionFollows
      BY <3>4, ResolveFlag DEF RejectionFollows, RestOK
    <3>5. CASE ClipEnds
      BY <3>5, ResolveFlag DEF ClipEnds, RestOK
    <3> QED BY <1>12, <3>1, <3>2, <3>3, <3>4, <3>5
  <2>2. audio' \in AudioIn(said)
    <3>1. PICK state \in {"stopped", "playing"} :
            audio' \in {[audio EXCEPT !.playback = state], [audio EXCEPT !.playback = state, !.onended = None],
                        [audio EXCEPT !.playback = state, !.onended = None, !.rejected = audio.src],
                        [audio EXCEPT !.onended = None, !.rejected = None]}
      BY <1>12 DEF PlaybackBegins, PlaybackRejected, LoadFails, RejectionFollows, ClipEnds
    <3>2. None \in 0..said
      BY <1>0 DEF None
    <3> QED BY <3>1, <3>2 DEF RestOK, AudioIn
  <2>3. broken' \in {broken, audio.src} /\ {broken, audio.src} \subseteq 0..said
    BY <1>12 DEF PlaybackBegins, PlaybackRejected, LoadFails, RejectionFollows, ClipEnds, RestOK, AudioIn
  <2>4. UNCHANGED <<voice, replyVars, buffer, said, ended>>
    BY <1>12 DEF PlaybackBegins, PlaybackRejected, LoadFails, RejectionFollows, ClipEnds
  <2> QED BY <1>2, <2>1, <2>2, <2>3, <2>4
<1>13. ASSUME NEW s \in Sentences, FetchSettles(s) PROVE RestOK'
  BY <1>2, <1>13 DEF FetchSettles, RestOK
<1>14. CASE UNCHANGED vars
  BY <1>14 DEF vars, replyVars, RestOK
<1> QED BY <1>3, <1>4, <1>5, <1>6, <1>7, <1>8, <1>9, <1>10, <1>11, <1>12, <1>13, <1>14 DEF Next, Speak

(* The type invariant is the books and the rest.                           *)
LEMMA TypesAreKept == Books /\ RestOK => TypeOK
<1> SUFFICES ASSUME Books, RestOK PROVE TypeOK
  OBVIOUS
<1>1. ASSUME NEW r \in runners
      PROVE  /\ r.at \in {"fetching", "playing"}
             /\ r.clip \in 1..said /\ r.next \in 0..said
             /\ clips[r.clip] # "unasked" /\ r.next # r.clip
  <2>1. /\ r.at \in {"fetching", "playing"}
        /\ r.clip \in Sentences /\ clips[r.clip] # "unasked"
        /\ r.next \in {None} \cup Sentences
        /\ r.next # None => r.clip < r.next /\ clips[r.next] # "unasked"
    BY DEF Books, RunnersWell
  <2>2. said \in Nat /\ r.clip <= said /\ (r.next # None => r.next <= said)
    <3>1. said \in Nat /\ \A s \in Sentences : clips[s] # "unasked" => s <= said
      BY SentencesAreNumbers DEF Books
    <3>2. r.next # None => r.next \in Sentences
      BY <2>1
    <3> QED BY <2>1, <3>1, <3>2
  <2>3. r.clip \in 1..said /\ r.next \in 0..said /\ r.next # r.clip
    BY <2>1, <2>2, SentencesAreNumbers DEF Sentences, None
  <2> QED BY <2>1, <2>3
<1>2. \A i \in 1..Len(heard) : heard[i] \in Sentences /\ clips[heard[i]] = "clip"
  <2>1. heard \in Seq(Sentences) /\ DOMAIN heard = 1..Len(heard)
    BY DEF Books
  <2> QED BY <2>1 DEF Books, ToSet
<1> QED BY <1>1, <1>2 DEF TypeOK, Books, RestOK, ClipStates, AudioIn

-----------------------------------------------------------------------------
(* A handler stays on the element with the clip it is for.                 *)
LEMMA HandlerStep == Books /\ RestOK /\ HandlerIsOfLoadedClip /\ [Next]_vars => HandlerIsOfLoadedClip'
<1> SUFFICES ASSUME Books, RestOK, HandlerIsOfLoadedClip, [Next]_vars PROVE HandlerIsOfLoadedClip'
  OBVIOUS
<1>0. audio \in AudioIn(said)
  BY DEF RestOK
<1>1. ASSUME audio'.src = audio.src, audio'.onended = audio.onended,
             \A r \in runners : r.at = "playing" => r \in runners'
      PROVE  HandlerIsOfLoadedClip'
  BY <1>1 DEF HandlerIsOfLoadedClip
<1>2. ASSUME audio'.onended = None PROVE HandlerIsOfLoadedClip'
  BY <1>2 DEF HandlerIsOfLoadedClip
<1>3. CASE StartVoice \/ PlaybackBegins
  BY <1>0, <1>1, <1>3 DEF StartVoice, PlaybackBegins, AudioIn
<1>4. CASE StopVoice
  BY <1>2, <1>4 DEF StopVoice, Silence
<1>5. CASE PlaybackRejected \/ LoadFails \/ RejectionFollows \/ ClipEnds
  BY <1>0, <1>2, <1>5 DEF PlaybackRejected, LoadFails, RejectionFollows, ClipEnds, AudioIn
<1>6. CASE Send \/ Delta \/ ReplyFails \/ UNCHANGED vars \/ \E s \in Sentences : FetchSettles(s)
  BY <1>1, <1>6 DEF Send, Delta, ReplyFails, NothingEnqueued, vars, FetchSettles
<1>7. CASE DeltaEndsSentence \/ ReplyEnds
  <2>1. audio' = audio /\ (Enqueue \/ NothingEnqueued)
    BY <1>7 DEF DeltaEndsSentence, ReplyEnds
  <2> QED BY <1>1, <2>1, EnqueueFlag DEF NothingEnqueued
<1>8. ASSUME NEW r \in runners, SkipNull(r) PROVE HandlerIsOfLoadedClip'
  <2>1. audio' = audio /\ r.at = "fetching" /\ runners \ {r} \subseteq runners'
    BY <1>8, LoopFlag DEF SkipNull
  <2> QED BY <1>1, <2>1
<1>9. ASSUME NEW r \in runners, Play(r) PROVE HandlerIsOfLoadedClip'
  <2>1. CASE audio.playback \in {"beginning", "aborted"}
    BY <1>0, <1>2, <1>9, <2>1 DEF Play, AudioIn
  <2>2. CASE audio.playback \notin {"beginning", "aborted"}
    <3>1. /\ audio'.src = r.clip /\ audio'.onended = r.clip
          /\ [r EXCEPT !.at = "playing"] \in runners'
          /\ r.at = "fetching" /\ clips[r.clip] = "clip"
      BY <1>0, <1>9, <2>2 DEF Play, AudioIn
    <3>2. [r EXCEPT !.at = "playing"] = Runner("playing", r.clip, r.next)
      BY <3>1, PlayKeeps
    <3>3. Runner("playing", r.clip, r.next).at = "playing" /\ Runner("playing", r.clip, r.next).clip = r.clip
      BY DEF Runner
    <3> QED BY <3>1, <3>2, <3>3 DEF HandlerIsOfLoadedClip
  <2> QED BY <2>1, <2>2
<1> QED BY <1>3, <1>4, <1>5, <1>6, <1>7, <1>8, <1>9 DEF Next, Speak

(* What the element has loaded was given to it; a clip whose rejection is  *)
(* still due has stopped, or another one is loaded by now.                 *)
ElementWell ==
  /\ audio.src # None => audio.src \in ToSet(heard)
  /\ audio.rejected # None =>
       /\ audio.rejected \in ToSet(heard)
       /\ audio.playback # "stopped" => audio.src # audio.rejected

LEMMA ElementStep == Books /\ RestOK /\ ElementWell /\ [Next]_vars => ElementWell'
<1> SUFFICES ASSUME Books, RestOK, ElementWell, [Next]_vars PROVE ElementWell'
  OBVIOUS
<1>0. audio \in AudioIn(said)
  BY DEF RestOK
<1>1. ASSUME UNCHANGED <<audio, heard>> PROVE ElementWell'
  BY <1>1 DEF ElementWell
<1>2. ASSUME audio'.src = audio.src, audio'.rejected = None, heard' = heard PROVE ElementWell'
  BY <1>2 DEF ElementWell
<1>3. CASE StartVoice \/ PlaybackBegins \/ PlaybackRejected \/ RejectionFollows \/ ClipEnds
  <2>1. audio'.src = audio.src /\ audio'.rejected = None
    BY <1>0, <1>3 DEF StartVoice, PlaybackBegins, PlaybackRejected, RejectionFollows, ClipEnds, BetweenEvents, AudioIn
  <2>2. heard' = heard
    BY <1>3 DEF StartVoice, PlaybackBegins, PlaybackRejected, RejectionFollows, ClipEnds
  <2> QED BY <1>2, <2>1, <2>2
<1>4. CASE StopVoice
  BY <1>4 DEF StopVoice, Silence, ElementWell
<1>5. CASE LoadFails
  <2>1. audio'.src = audio.src /\ audio'.rejected = audio.src /\ audio'.playback = "stopped" /\ heard' = heard
    BY <1>0, <1>5 DEF LoadFails, AudioIn
  <2> QED BY <2>1 DEF ElementWell
<1>6. ASSUME NEW r \in runners, Play(r) PROVE ElementWell'
  <2>1. r.at = "fetching" /\ clips[r.clip] = "clip" /\ heard' = Append(heard, r.clip)
    BY <1>6 DEF Play
  <2>2. audio'.src = r.clip /\ audio'.rejected = audio.rejected
    BY <1>0, <1>6 DEF Play, AudioIn
  <2>3. r.clip \notin ToSet(heard) /\ ToSet(heard') = ToSet(heard) \cup {r.clip}
    <3>1. r.clip \in Sentences /\ r.clip \notin ToSet(heard)
      BY <2>1, PlayKeeps
    <3>2. heard \in Seq(Sentences)
      BY DEF Books
    <3> QED BY <2>1, <3>1, <3>2, GrowingFacts
  <2> QED BY <2>2, <2>3 DEF ElementWell
<1>7. CASE Send \/ Delta \/ DeltaEndsSentence \/ ReplyEnds \/ ReplyFails \/ UNCHANGED vars
  BY <1>1, <1>7 DEF Send, Delta, DeltaEndsSentence, ReplyEnds, ReplyFails, vars
<1>8. CASE (\E s \in Sentences : FetchSettles(s)) \/ \E r \in runners : SkipNull(r)
  BY <1>1, <1>8 DEF FetchSettles, SkipNull
<1> QED BY <1>3, <1>4, <1>5, <1>6, <1>7, <1>8 DEF Next, Speak

(* Until the voice is ended for the first time: without it nothing is at   *)
(* hand, the element is busy only for an activation that waits for it, and *)
(* what an activation is to play comes after all that was played.          *)
InTurn ==
  ~ended =>
    /\ voice = "idle" => runners = {} /\ ~speakLive
    /\ audio.playback # "stopped" => \E r \in runners : r.at = "playing" /\ r.clip = audio.src
    /\ \A r \in runners, s \in ToSet(heard) :
         /\ r.at = "fetching" => s < r.clip
         /\ r.next # None => s < r.next

(* What was heard comes before what waits.                                 *)
LEMMA WaitingIsLater ==
  ASSUME Books, NEW waiting, NEW last, QueueWell(waiting, clips, last)
  PROVE  \A s \in ToSet(heard), w \in ToSet(waiting) : s < w
<1>1. \A s \in ToSet(heard) : s \in Sentences /\ clips[s] # "unasked"
  BY DEF Books, ToSet
<1> QED BY <1>1 DEF QueueWell

LEMMA TurnStep ==
  Books /\ RestOK /\ ElementWell /\ FlagMeansOneRunner /\ InTurn /\ [Next]_vars => FlagMeansOneRunner' /\ InTurn'
<1> SUFFICES ASSUME Books, RestOK, ElementWell, FlagMeansOneRunner, InTurn, [Next]_vars, ~ended'
             PROVE  FlagMeansOneRunner' /\ InTurn'
  BY DEF FlagMeansOneRunner, InTurn
<1>0. ~StopVoice /\ ~ended
  <2>1. StopVoice => ended' = TRUE
    BY DEF StopVoice
  <2>2. StartVoice \/ Send \/ Delta \/ DeltaEndsSentence \/ ReplyEnds \/ ReplyFails \/ UNCHANGED vars => ended' = ended
    BY DEF StartVoice, Send, Delta, DeltaEndsSentence, ReplyEnds, ReplyFails, vars
  <2>3. Speak => ended' = ended
    BY DEF Speak, FetchSettles, SkipNull, Play, PlaybackBegins, PlaybackRejected, LoadFails, RejectionFollows, ClipEnds
  <2> QED BY <2>1, <2>2, <2>3 DEF Next
<1>1. /\ running = (runners # {}) /\ \A r1, r2 \in runners : r1 = r2
      /\ voice = "idle" => runners = {} /\ ~speakLive
      /\ audio.playback # "stopped" => \E r \in runners : r.at = "playing" /\ r.clip = audio.src
      /\ \A r \in runners, s \in ToSet(heard) :
           /\ r.at = "fetching" => s < r.clip
           /\ r.next # None => s < r.next
  BY <1>0 DEF FlagMeansOneRunner, InTurn
(* Nothing changes for the activation.                                     *)
<1>2. ASSUME UNCHANGED <<running, runners, heard>>,
             voice' = "idle" => voice = "idle",
             speakLive' => speakLive \/ voice = "live",
             audio'.playback # "stopped" => audio.playback # "stopped" /\ audio'.src = audio.src
      PROVE  FlagMeansOneRunner' /\ InTurn'
  <2>1. FlagMeansOneRunner'
    BY <1>1, <1>2 DEF FlagMeansOneRunner
  <2>2. voice' = "idle" => runners' = {} /\ ~speakLive'
    BY <1>1, <1>2
  <2>3. audio'.playback # "stopped" => \E r \in runners' : r.at = "playing" /\ r.clip = audio'.src
    BY <1>1, <1>2
  <2> QED BY <1>1, <1>2, <2>1, <2>2, <2>3 DEF InTurn
(* One activation, or none, passes the loop.                               *)
<1>3. ASSUME NEW next \in {None} \cup Sentences, NEW waiting \in Seq(Sentences), NEW last, NEW flag,
             QueueWell(waiting, clips, last), Passed({}, next, waiting, flag),
             next # None => \A s \in ToSet(heard) : s < next,
             flag = TRUE, UNCHANGED <<voice, speakLive, heard>>, voice # "idle", audio'.playback = "stopped"
      PROVE  FlagMeansOneRunner' /\ InTurn'
  <2>1. CASE runners' = {} /\ running' = FALSE
    BY <1>3, <2>1 DEF FlagMeansOneRunner, InTurn
  <2>2. ASSUME NEW clip \in Sentences, NEW ahead \in {None} \cup Sentences,
               next # None => clip = next,
               next = None => clip \in ToSet(waiting),
               ahead # None => ahead \in ToSet(waiting),
               runners' = {Runner("fetching", clip, ahead)}, running' = flag
        PROVE  FlagMeansOneRunner' /\ InTurn'
    <3> DEFINE n == Runner("fetching", clip, ahead)
    <3>1. n.at = "fetching" /\ n.clip = clip /\ n.next = ahead
      BY DEF Runner
    <3>2. runners' = {n} /\ running' = TRUE
      BY <1>3, <2>2
    <3> HIDE DEF n
    <3>3. \A s \in ToSet(heard) : s < clip /\ (ahead # None => s < ahead)
      BY <1>3, <2>2, WaitingIsLater
    <3>4. FlagMeansOneRunner'
      BY <3>2 DEF FlagMeansOneRunner
    <3>5. InTurn'
      BY <1>3, <3>1, <3>2, <3>3 DEF InTurn
    <3> QED BY <3>4, <3>5
  <2> QED BY <1>3, <2>1, <2>2 DEF Passed
<1>4. ASSUME NEW q \in runners, Loop(runners \ {q}, q.next, queue, running),
             UNCHANGED <<voice, speakLive, heard, said>>, audio'.playback = "stopped"
      PROVE  FlagMeansOneRunner' /\ InTurn'
  <2>1. runners \ {q} = {} /\ running = TRUE /\ voice # "idle"
    BY <1>1
  <2>2. queue \in Seq(Sentences) /\ QueueWell(queue, clips, said) /\ q.next \in {None} \cup Sentences
    BY DEF Books, RunnersWell
  <2>3. Passed(runners \ {q}, q.next, queue, running)
    <3>1. ToSet(heard) \in SUBSET Sentences /\ \A s \in ToSet(heard) : clips[s] # "unasked"
      BY DEF Books, ToSet
    <3>2. RunnersWell(runners, clips, ToSet(heard))
      BY DEF Books
    <3> QED BY <1>4, <2>2, <3>1, <3>2, ResolveKeeps
  <2>4. q.next # None => \A s \in ToSet(heard) : s < q.next
    BY <1>1
  <2> DEFINE next == q.next
  <2>5. next \in {None} \cup Sentences /\ (next # None => \A s \in ToSet(heard) : s < next)
    BY <2>2, <2>4
  <2>6. Passed({}, next, queue, running)
    BY <2>1, <2>3
  <2> HIDE DEF next
  <2> QED BY <1>3, <1>4, <2>1, <2>2, <2>5, <2>6
<1>5. ASSUME Enqueue, UNCHANGED <<voice, speakLive, heard, audio>>, speakLive PROVE FlagMeansOneRunner' /\ InTurn'
  <2>1. CASE running
    <3>1. UNCHANGED <<running, runners>>
      BY <1>5, <2>1 DEF Enqueue
    <3> QED BY <1>2, <1>5, <3>1
  <2>2. CASE ~running
    <3>1. runners = {} /\ audio.playback = "stopped" /\ voice # "idle"
      BY <1>1, <1>5, <2>2
    <3>2. /\ Loop(runners, None, Append(queue, said + 1), TRUE) /\ said < MaxSentences
      BY <1>5, <2>2 DEF Enqueue
    <3>3. /\ said + 1 \in Sentences /\ said \in Nat /\ Append(queue, said + 1) \in Seq(Sentences)
          /\ QueueWell(Append(queue, said + 1), clips, said + 1)
      BY <3>2, EnqueueFacts
    <3>4. \A s \in ToSet(Append(queue, said + 1)) : None < s
      <4> TAKE s \in ToSet(Append(queue, said + 1))
      <4>1. s \in Sentences
        BY <3>3 DEF ToSet
      <4> QED BY <4>1 DEF Sentences, None
    <3>5. Passed({}, None, Append(queue, said + 1), TRUE)
      BY <3>1, <3>2, <3>3, <3>4, LoopFacts DEF QueueWell
    <3> QED BY <1>3, <1>5, <3>1, <3>3, <3>5
  <2> QED BY <2>1, <2>2
<1>6. CASE StartVoice
  <2>1. audio.playback = "stopped" /\ runners = {} /\ running = FALSE
    BY <1>1, <1>6 DEF StartVoice
  <2>2. audio'.playback = "stopped"
    BY <1>6, <2>1 DEF StartVoice, RestOK, AudioIn
  <2> QED BY <1>2, <1>6, <2>1, <2>2 DEF StartVoice, replyVars
<1>7. CASE Send
  BY <1>2, <1>7 DEF Send
<1>8. CASE Delta \/ ReplyFails \/ UNCHANGED vars \/ \E s \in Sentences : FetchSettles(s)
  BY <1>2, <1>8 DEF Delta, ReplyFails, NothingEnqueued, vars, FetchSettles, replyVars
<1>9. CASE DeltaEndsSentence
  BY <1>5, <1>9 DEF DeltaEndsSentence, replyVars
<1>10. CASE ReplyEnds
  <2>1. (Enqueue /\ speakLive) \/ NothingEnqueued
    BY <1>10 DEF ReplyEnds
  <2>2. UNCHANGED <<voice, speakLive, heard, audio>>
    BY <1>10 DEF ReplyEnds
  <2> QED BY <1>2, <1>5, <2>1, <2>2 DEF NothingEnqueued
<1>11. ASSUME NEW r \in runners, SkipNull(r) PROVE FlagMeansOneRunner' /\ InTurn'
  <2>1. audio.playback = "stopped"
    BY <1>1, <1>11 DEF SkipNull
  <2> QED BY <1>4, <1>11, <2>1 DEF SkipNull, replyVars
<1>12. ASSUME NEW r \in runners, Play(r) PROVE FlagMeansOneRunner' /\ InTurn'
  <2>1. r.at = "fetching" /\ clips[r.clip] = "clip" /\ heard' = Append(heard, r.clip) /\ UNCHANGED <<voice, speakLive>>
    BY <1>12 DEF Play, replyVars
  <2>2. audio.playback = "stopped" /\ runners = {r} /\ voice # "idle" /\ running
    BY <1>1, <2>1
  <2> DEFINE p == Runner("playing", r.clip, r.next)
  <2>3. p.at = "playing" /\ p.clip = r.clip /\ p.next = r.next
    BY DEF Runner
  <2>4. /\ r.clip \in Sentences /\ [r EXCEPT !.at = "playing"] = p
    BY <2>1, PlayKeeps
  <2> HIDE DEF p
  <2>5. runners' = {p} /\ running' = running /\ audio'.src = r.clip
    BY <1>12, <2>2, <2>4 DEF Play, RestOK, AudioIn
  <2>6. ToSet(heard') = ToSet(heard) \cup {r.clip}
    BY <2>1, <2>4, GrowingFacts DEF Books
  <2>7. r.next # None => r.clip < r.next
    BY DEF Books, RunnersWell
  <2>8. FlagMeansOneRunner'
    BY <2>2, <2>5 DEF FlagMeansOneRunner
  <2>9. \A s \in ToSet(heard') : p.next # None => s < p.next
    BY <1>1, <2>3, <2>6, <2>7
  <2> QED BY <2>1, <2>2, <2>3, <2>5, <2>8, <2>9 DEF InTurn
<1>13. CASE PlaybackBegins
  <2>1. UNCHANGED <<running, runners, heard, voice, speakLive>>
    BY <1>13 DEF PlaybackBegins, replyVars
  <2>2. audio.playback # "stopped" /\ audio'.src = audio.src
    BY <1>13 DEF PlaybackBegins, RestOK, AudioIn
  <2> QED BY <1>2, <2>1, <2>2
<1>14. CASE PlaybackRejected \/ LoadFails \/ ClipEnds
  <2>1. audio'.playback = "stopped" /\ UNCHANGED <<voice, speakLive, heard, said>>
    BY <1>14 DEF PlaybackRejected, LoadFails, ClipEnds, RestOK, AudioIn, replyVars
  <2>2. UNCHANGED <<running, runners>> \/ \E q \in runners : Loop(runners \ {q}, q.next, queue, running)
    BY <1>14 DEF PlaybackRejected, LoadFails, ClipEnds, Resolve
  <2> QED BY <1>2, <1>4, <2>1, <2>2
<1>15. CASE RejectionFollows
  <2>1. /\ audio'.playback = audio.playback /\ audio'.src = audio.src /\ audio.rejected # None
        /\ UNCHANGED <<voice, speakLive, heard, said>>
    BY <1>15 DEF RejectionFollows, RestOK, AudioIn, replyVars
  <2>2. CASE Resolve(audio.rejected, runners, queue, running)
    <3>1. PICK q \in runners : q.clip = audio.rejected /\ Loop(runners \ {q}, q.next, queue, running)
      BY <2>2 DEF Resolve
    <3>2. audio.playback # "stopped" => audio.src = audio.rejected
      BY <1>1, <3>1
    <3>3. audio'.playback = "stopped"
      BY <2>1, <3>2 DEF ElementWell
    <3> QED BY <1>4, <2>1, <3>1, <3>3
  <2>3. CASE UNCHANGED <<queue, running, runners, clips>>
    BY <1>2, <2>1, <2>3
  <2> QED BY <1>15, <2>2, <2>3 DEF RejectionFollows
<1> QED BY <1>0, <1>6, <1>7, <1>8, <1>9, <1>10, <1>11, <1>12, <1>13, <1>14, <1>15 DEF Next, Speak

-----------------------------------------------------------------------------
VoiceInv ==
  /\ Books /\ RestOK
  /\ HandlerIsOfLoadedClip /\ ElementWell
  /\ FlagMeansOneRunner /\ InTurn
  /\ SpokenTextIsOfThisReply

LEMMA VoiceInvInit == Init => VoiceInv
<1> SUFFICES ASSUME Init PROVE VoiceInv
  OBVIOUS
<1>1. Books
  <2>1. /\ said \in 0..MaxSentences /\ clips \in [Sentences -> ClipStates]
        /\ \A s \in Sentences : clips[s] = "unasked"
        /\ queue = <<>> /\ heard = <<>> /\ runners = {}
    BY SentencesAreNumbers DEF Init, ClipStates
  <2>2. ToSet(heard) = {} /\ QueueWell(queue, clips, said)
    BY <2>1, EmptyQueue
  <2>3. RunnersWell(runners, clips, ToSet(heard))
    BY <2>1 DEF RunnersWell
  <2>4. NoneSpokenTwice
    BY <2>1 DEF NoneSpokenTwice
  <2>5. queue \in Seq(Sentences) /\ heard \in Seq(Sentences)
    BY <2>1
  <2> QED BY <2>1, <2>2, <2>3, <2>4, <2>5 DEF Books
<1>2. RestOK
  <2>1. 0 \in 0..said /\ 0 \in 0..MaxTurns
    BY BoundsAssumption DEF Init
  <2>2. audio \in AudioIn(said) /\ broken \in 0..said
    BY <2>1 DEF Init, Silence, None, AudioIn
  <2> QED BY <2>1, <2>2 DEF Init, RestOK
<1> QED BY <1>1, <1>2 DEF Init, VoiceInv, HandlerIsOfLoadedClip, ElementWell, FlagMeansOneRunner, InTurn, SpokenTextIsOfThisReply, Silence

LEMMA SpokenStep == RestOK /\ SpokenTextIsOfThisReply /\ [Next]_vars => SpokenTextIsOfThisReply'
<1> SUFFICES ASSUME RestOK, SpokenTextIsOfThisReply, [Next]_vars PROVE SpokenTextIsOfThisReply'
  OBVIOUS
<1>1. CASE StartVoice \/ StopVoice
  BY <1>1 DEF StartVoice, StopVoice, SpokenTextIsOfThisReply, replyVars
<1>2. CASE Send
  BY <1>2 DEF Send, SpokenTextIsOfThisReply
<1>3. CASE Delta \/ DeltaEndsSentence
  BY <1>3 DEF Delta, DeltaEndsSentence, SpokenTextIsOfThisReply, replyVars
<1>4. CASE ReplyEnds \/ ReplyFails
  BY <1>4 DEF ReplyEnds, ReplyFails, SpokenTextIsOfThisReply
<1>5. CASE Speak \/ UNCHANGED vars
  <2>1. UNCHANGED <<busy, speakLive, buffer, turn>>
    BY <1>5 DEF Speak, FetchSettles, SkipNull, Play, PlaybackBegins, PlaybackRejected, LoadFails, RejectionFollows,
           ClipEnds, vars, replyVars
  <2> QED BY <2>1 DEF SpokenTextIsOfThisReply
<1> QED BY <1>1, <1>2, <1>3, <1>4, <1>5 DEF Next

LEMMA VoiceInvariance == Spec => []VoiceInv
<1>1. VoiceInv /\ [Next]_vars => VoiceInv'
  BY BooksStep, RestStep, HandlerStep, ElementStep, TurnStep, SpokenStep DEF VoiceInv
<1> QED BY VoiceInvInit, <1>1, PTL DEF Spec

(* Only Play gives a clip to the element.                                  *)
LEMMA HeardStep ==
  ASSUME VoiceInv, [Next]_vars, heard' # heard, ~ended
  PROVE  audio.playback = "stopped" /\ \A i \in 1..Len(heard) : heard[i] < Last(heard')
<1>1. PICK r \in runners : Play(r)
  <2>1. ~(StartVoice \/ StopVoice \/ Send \/ Delta \/ DeltaEndsSentence \/ ReplyEnds \/ ReplyFails \/ UNCHANGED vars)
    BY DEF StartVoice, StopVoice, Send, Delta, DeltaEndsSentence, ReplyEnds, ReplyFails, vars
  <2>2. ~(PlaybackBegins \/ PlaybackRejected \/ LoadFails \/ RejectionFollows \/ ClipEnds \/ \E s \in Sentences : FetchSettles(s))
    BY DEF PlaybackBegins, PlaybackRejected, LoadFails, RejectionFollows, ClipEnds, FetchSettles
  <2>3. \A r \in runners : ~SkipNull(r)
    BY DEF SkipNull
  <2> QED BY <2>1, <2>2, <2>3 DEF Next, Speak
<1>2. r.at = "fetching" /\ clips[r.clip] = "clip" /\ heard' = Append(heard, r.clip)
  BY <1>1 DEF Play
<1>3. audio.playback = "stopped" /\ \A s \in ToSet(heard) : s < r.clip
  BY <1>2 DEF VoiceInv, FlagMeansOneRunner, InTurn
<1>4. r.clip \in Sentences /\ heard \in Seq(Sentences)
  BY DEF VoiceInv, Books, RunnersWell
<1>5. Last(heard') = r.clip /\ DOMAIN heard = 1..Len(heard)
  BY <1>2, <1>4, GrowingFacts
<1>6. \A i \in 1..Len(heard) : heard[i] \in ToSet(heard)
  BY <1>5 DEF ToSet
<1> QED BY <1>3, <1>5, <1>6

(* The page's voice keeps its types: an activation of runTTS works on two  *)
(* different sentences that were asked for, and plays only clips that      *)
(* arrived.                                                                *)
THEOREM VoiceTypeCorrect == Spec => []TypeOK
<1>1. VoiceInv => TypeOK
  BY TypesAreKept DEF VoiceInv
<1> QED BY VoiceInvariance, <1>1, PTL

(* ttsRunningRef means one activation until the voice is ended, no         *)
(* sentence is ever spoken twice, and done() never ends the wait of        *)
(* another clip.                                                           *)
THEOREM RunnersStayInOrder == Spec => []RunnersKeepOrder
<1>1. VoiceInv => RunnersKeepOrder
  BY DEF VoiceInv, Books, RunnersKeepOrder
<1> QED BY VoiceInvariance, <1>1, PTL

(* ttsBufferRef never mixes a reply with the rest of one that broke off.   *)
THEOREM SpeechIsOfOneReply == Spec => []SpokenTextIsOfThisReply
<1>1. VoiceInv => SpokenTextIsOfThisReply
  BY DEF VoiceInv
<1> QED BY VoiceInvariance, <1>1, PTL

(* playUrl: until the voice is ended a clip begins only when the one       *)
(* before it is over, in the order of the sentences, although the next one *)
(* is asked for ahead of time and may arrive first.                        *)
THEOREM ClipsPlayInTurn == Spec => OneClipAtATime
<1>1. VoiceInv /\ [Next]_vars =>
        [heard' # heard /\ ~ended =>
           /\ audio.playback = "stopped"
           /\ \A i \in 1..Len(heard) : heard[i] < Last(heard')]_vars
  BY HeardStep
<1> QED BY VoiceInvariance, <1>1, PTL DEF Spec, OneClipAtATime
=============================================================================
