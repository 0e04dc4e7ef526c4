------------------------ MODULE CopilotSessions_proofs ------------------------
(***************************************************************************)
(* Proofs about CopilotSessions for any set of requests and session ids:   *)
(* type correctness, the lock discipline, one session per id, the single   *)
(* client start, disposal, the cache that only grows, and the              *)
(* implementation of SessionRegistry.                                      *)
(*                                                                         *)
(* OneSessionPerId is not inductive.  It needs to know where every session *)
(* comes from (CacheProvenance), that a request which missed under the     *)
(* lock still finds the cache empty (it is alone inside, so nobody stored  *)
(* meanwhile), and that every session held but the one being stored is the *)
(* cached one (HeldProvenance).                                            *)
(***************************************************************************)
EXTENDS CopilotSessions, TLAPS

CacheProvenance ==
  \A id \in SessionIds : sessions[id] # None => asked[sessions[id]] = id

HeldProvenance ==
  \A r \in Requests :
    /\ pc[r] \in AfterMiss => sessions[asked[r]] = None
    /\ pc[r] = "storing" => session[r] = r
    /\ pc[r] \in AfterMiss \cup {"calling", "waiting", "rechecking"} =>
         pc[r] = "storing" \/ session[r] = None
    /\ pc[r] # "storing" => session[r] \in {None, sessions[asked[r]]}

StartProvenance ==
  /\ startCalls = IF startTask = "null" THEN 0 ELSE 1
  /\ startTask # "ok" => \A r \in Requests : session[r] = None
  /\ startTask # "ok" => \A id \in SessionIds : sessions[id] = None
  /\ \A r \in Requests : pc[r] \in {"resuming", "creating", "storing"} => startTask = "ok"

DisposalProgress ==
  /\ host \in {"closingLock", "disposed"} => toDispose = {}
  /\ host # "running" =>
       \A id \in SessionIds : sessions[id] \in {None} \cup toDispose \cup disposed \cup lateStored

IInv ==
  /\ TypeOK
  /\ LockHeldExactlyInside
  /\ CacheProvenance
  /\ HeldProvenance
  /\ StartProvenance
  /\ DisposalProgress

-----------------------------------------------------------------------------
(* One lemma per conjunct of the inductive invariant.                      *)

(* Every step of a request, of the client and of the host keeps the types. *)
LEMMA TypeStep == IInv /\ [Next]_vars => TypeOK'
<1> SUFFICES ASSUME IInv, [Next]_vars PROVE TypeOK'
  OBVIOUS
<1> USE NoneAssumption DEF IInv, TypeOK, Critical, AfterMiss, Settled, Goto, Holds,
      requestVars, clientVars, hostVars, HeldProvenance
<1>1. ASSUME NEW r \in Requests, GetSession(r) PROVE TypeOK'
  <2>1. CASE LookupHit(r) BY <2>1 DEF LookupHit
  <2>2. CASE LookupMiss(r) BY <2>2 DEF LookupMiss
  <2>3. CASE WaitThrows(r) BY <2>3 DEF WaitThrows
  <2>4. CASE AcquireLock(r) BY <2>4 DEF AcquireLock
  <2>5. CASE RecheckHit(r) BY <2>5 DEF RecheckHit
  <2>6. CASE RecheckMiss(r) BY <2>6 DEF RecheckMiss
  <2>7. CASE EnsureClientStarted(r) BY <2>7 DEF EnsureClientStarted
  <2>8. CASE AwaitStart(r) BY <2>8 DEF AwaitStart
  <2>9. CASE ResumeSession(r) BY <2>9 DEF ResumeSession
  <2>10. CASE CreateSession(r) BY <2>10 DEF CreateSession
  <2>11. CASE StoreSession(r) BY <2>11 DEF StoreSession
  <2>12. CASE ReleaseLock(r) BY <2>12 DEF ReleaseLock
  <2> QED BY ONLY <1>1, <2>1, <2>2, <2>3, <2>4, <2>5, <2>6, <2>7, <2>8, <2>9, <2>10, <2>11, <2>12 DEF GetSession
<1>2. ASSUME NEW r \in Requests, Cancel(r) PROVE TypeOK'
  BY <1>2 DEF Cancel
<1>3. CASE StartSettles
  BY <1>3 DEF StartSettles
<1>4. CASE Dispose
  BY <1>4 DEF Dispose, BeginDispose, DisposeSession, DisposeClient, DisposeLock, DisposeThrows
<1>5. CASE UNCHANGED vars
  BY <1>5 DEF vars
<1> QED BY ONLY [Next]_vars, <1>1, <1>2, <1>3, <1>4, <1>5 DEF Next

(* A request enters the lock alone and every way out releases it.          *)
LEMMA LockStep == IInv /\ [Next]_vars => LockHeldExactlyInside'
<1> SUFFICES ASSUME IInv, [Next]_vars PROVE LockHeldExactlyInside'
  OBVIOUS
<1> USE NoneAssumption DEF IInv, TypeOK, Critical, AfterMiss, Settled, Goto, Holds,
      requestVars, clientVars, hostVars, LockHeldExactlyInside
<1>1. ASSUME NEW r \in Requests, GetSession(r) PROVE LockHeldExactlyInside'
  <2>1. CASE LookupHit(r) BY <2>1 DEF LookupHit
  <2>2. CASE LookupMiss(r) BY <2>2 DEF LookupMiss
  <2>3. CASE WaitThrows(r) BY <2>3 DEF WaitThrows
  <2>4. CASE AcquireLock(r) BY <2>4 DEF AcquireLock
  <2>5. CASE RecheckHit(r) BY <2>5 DEF RecheckHit
  <2>6. CASE RecheckMiss(r) BY <2>6 DEF RecheckMiss
  <2>7. CASE EnsureClientStarted(r) BY <2>7 DEF EnsureClientStarted
  <2>8. CASE AwaitStart(r) BY <2>8 DEF AwaitStart
  <2>9. CASE ResumeSession(r) BY <2>9 DEF ResumeSession
  <2>10. CASE CreateSession(r) BY <2>10 DEF CreateSession
  <2>11. CASE StoreSession(r) BY <2>11 DEF StoreSession
  <2>12. CASE ReleaseLock(r) BY <2>12 DEF ReleaseLock
  <2> QED BY ONLY <1>1, <2>1, <2>2, <2>3, <2>4, <2>5, <2>6, <2>7, <2>8, <2>9, <2>10, <2>11, <2>12 DEF GetSession
<1>2. ASSUME NEW r \in Requests, Cancel(r) PROVE LockHeldExactlyInside'
  BY <1>2 DEF Cancel
<1>3. CASE StartSettles
  BY <1>3 DEF StartSettles
<1>4. CASE Dispose
  BY <1>4 DEF Dispose, BeginDispose, DisposeSession, DisposeClient, DisposeLock, DisposeThrows
<1>5. CASE UNCHANGED vars
  BY <1>5 DEF vars
<1> QED BY ONLY [Next]_vars, <1>1, <1>2, <1>3, <1>4, <1>5 DEF Next

(* What is stored under an id was made by a request for that id.           *)
LEMMA CacheStep == IInv /\ [Next]_vars => CacheProvenance'
<1> SUFFICES ASSUME IInv, [Next]_vars PROVE CacheProvenance'
  OBVIOUS
<1> USE NoneAssumption DEF IInv, TypeOK, Critical, AfterMiss, Settled, Goto, Holds,
      requestVars, clientVars, hostVars, CacheProvenance, HeldProvenance
<1>1. ASSUME NEW r \in Requests, GetSession(r) PROVE CacheProvenance'
  <2>1. CASE LookupHit(r) BY <2>1 DEF LookupHit
  <2>2. CASE LookupMiss(r) BY <2>2 DEF LookupMiss
  <2>3. CASE WaitThrows(r) BY <2>3 DEF WaitThrows
  <2>4. CASE AcquireLock(r) BY <2>4 DEF AcquireLock
  <2>5. CASE RecheckHit(r) BY <2>5 DEF RecheckHit
  <2>6. CASE RecheckMiss(r) BY <2>6 DEF RecheckMiss
  <2>7. CASE EnsureClientStarted(r) BY <2>7 DEF EnsureClientStarted
  <2>8. CASE AwaitStart(r) BY <2>8 DEF AwaitStart
  <2>9. CASE ResumeSession(r) BY <2>9 DEF ResumeSession
  <2>10. CASE CreateSession(r) BY <2>10 DEF CreateSession
  <2>11. CASE StoreSession(r) BY <2>11 DEF StoreSession
  <2>12. CASE ReleaseLock(r) BY <2>12 DEF ReleaseLock
  <2> QED BY ONLY <1>1, <2>1, <2>2, <2>3, <2>4, <2>5, <2>6, <2>7, <2>8, <2>9, <2>10, <2>11, <2>12 DEF GetSession
<1>2. ASSUME NEW r \in Requests, Cancel(r) PROVE CacheProvenance'
  BY <1>2 DEF Cancel
<1>3. CASE StartSettles
  BY <1>3 DEF StartSettles
<1>4. CASE Dispose
  BY <1>4 DEF Dispose, BeginDispose, DisposeSession, DisposeClient, DisposeLock, DisposeThrows
<1>5. CASE UNCHANGED vars
  BY <1>5 DEF vars
<1> QED BY ONLY [Next]_vars, <1>1, <1>2, <1>3, <1>4, <1>5 DEF Next

(* Nobody but the holder of the lock changes the cache, so what a request  *)
(* saw or stored under the lock stays as it was.                           *)
LEMMA HeldStep == IInv /\ [Next]_vars => HeldProvenance'
<1> SUFFICES ASSUME IInv, [Next]_vars PROVE HeldProvenance'
  OBVIOUS
<1> USE NoneAssumption DEF IInv, TypeOK, Critical, AfterMiss, Settled, Goto, Holds,
      requestVars, clientVars, hostVars,
      LockHeldExactlyInside, CacheProvenance, HeldProvenance
<1>1. ASSUME NEW r \in Requests, GetSession(r) PROVE HeldProvenance'
  <2>1. CASE LookupHit(r) BY <2>1 DEF LookupHit
  <2>2. CASE LookupMiss(r) BY <2>2 DEF LookupMiss
  <2>3. CASE WaitThrows(r) BY <2>3 DEF WaitThrows
  <2>4. CASE AcquireLock(r) BY <2>4 DEF AcquireLock
  <2>5. CASE RecheckHit(r) BY <2>5 DEF RecheckHit
  <2>6. CASE RecheckMiss(r) BY <2>6 DEF RecheckMiss
  <2>7. CASE EnsureClientStarted(r) BY <2>7 DEF EnsureClientStarted
  <2>8. CASE AwaitStart(r) BY <2>8 DEF AwaitStart
  <2>9. CASE ResumeSession(r) BY <2>9 DEF ResumeSession
  <2>10. CASE CreateSession(r) BY <2>10 DEF CreateSession
  <2>11. CASE StoreSession(r) BY <2>11 DEF StoreSession
  <2>12. CASE ReleaseLock(r) BY <2>12 DEF ReleaseLock
  <2> QED BY ONLY <1>1, <2>1, <2>2, <2>3, <2>4, <2>5, <2>6, <2>7, <2>8, <2>9, <2>10, <2>11, <2>12 DEF GetSession
<1>2. ASSUME NEW r \in Requests, Cancel(r) PROVE HeldProvenance'
  BY <1>2 DEF Cancel
<1>3. CASE StartSettles
  BY <1>3 DEF StartSettles
<1>4. CASE Dispose
  BY <1>4 DEF Dispose, BeginDispose, DisposeSession, DisposeClient, DisposeLock, DisposeThrows
<1>5. CASE UNCHANGED vars
  BY <1>5 DEF vars
<1> QED BY ONLY [Next]_vars, <1>1, <1>2, <1>3, <1>4, <1>5 DEF Next

(* StartAsync is called once, and every session was made after it          *)
(* succeeded.                                                              *)
LEMMA StartStep == IInv /\ [Next]_vars => StartProvenance'
<1> SUFFICES ASSUME IInv, [Next]_vars PROVE StartProvenance'
  OBVIOUS
<1> USE NoneAssumption DEF IInv, TypeOK, Critical, AfterMiss, Settled, Goto, Holds,
      requestVars, clientVars, hostVars,
      LockHeldExactlyInside, HeldProvenance, StartProvenance
<1>1. ASSUME NEW r \in Requests, GetSession(r) PROVE StartProvenance'
  <2>1. CASE LookupHit(r) BY <2>1 DEF LookupHit
  <2>2. CASE LookupMiss(r) BY <2>2 DEF LookupMiss
  <2>3. CASE WaitThrows(r) BY <2>3 DEF WaitThrows
  <2>4. CASE AcquireLock(r) BY <2>4 DEF AcquireLock
  <2>5. CASE RecheckHit(r) BY <2>5 DEF RecheckHit
  <2>6. CASE RecheckMiss(r) BY <2>6 DEF RecheckMiss
  <2>7. CASE EnsureClientStarted(r) BY <2>7 DEF EnsureClientStarted
  <2>8. CASE AwaitStart(r) BY <2>8 DEF AwaitStart
  <2>9. CASE ResumeSession(r) BY <2>9 DEF ResumeSession
  <2>10. CASE CreateSession(r) BY <2>10 DEF CreateSession
  <2>11. CASE StoreSession(r) BY <2>11 DEF StoreSession
  <2>12. CASE ReleaseLock(r) BY <2>12 DEF ReleaseLock
  <2> QED BY ONLY <1>1, <2>1, <2>2, <2>3, <2>4, <2>5, <2>6, <2>7, <2>8, <2>9, <2>10, <2>11, <2>12 DEF GetSession
<1>2. ASSUME NEW r \in Requests, Cancel(r) PROVE StartProvenance'
  BY <1>2 DEF Cancel
<1>3. CASE StartSettles
  BY <1>3 DEF StartSettles
<1>4. CASE Dispose
  BY <1>4 DEF Dispose, BeginDispose, DisposeSession, DisposeClient, DisposeLock, DisposeThrows
<1>5. CASE UNCHANGED vars
  BY <1>5 DEF vars
<1> QED BY ONLY [Next]_vars, <1>1, <1>2, <1>3, <1>4, <1>5 DEF Next

(* A session cached before the snapshot is in it, or was disposed of.      *)
LEMMA DisposalStep == IInv /\ [Next]_vars => DisposalProgress'
<1> SUFFICES ASSUME IInv, [Next]_vars PROVE DisposalProgress'
  OBVIOUS
<1> USE NoneAssumption DEF IInv, TypeOK, Critical, AfterMiss, Settled, Goto, Holds,
      requestVars, clientVars, hostVars,
      HeldProvenance, DisposalProgress
<1>1. ASSUME NEW r \in Requests, GetSession(r) PROVE DisposalProgress'
  <2>1. CASE LookupHit(r) BY <2>1 DEF LookupHit
  <2>2. CASE LookupMiss(r) BY <2>2 DEF LookupMiss
  <2>3. CASE WaitThrows(r) BY <2>3 DEF WaitThrows
  <2>4. CASE AcquireLock(r) BY <2>4 DEF AcquireLock
  <2>5. CASE RecheckHit(r) BY <2>5 DEF RecheckHit
  <2>6. CASE RecheckMiss(r) BY <2>6 DEF RecheckMiss
  <2>7. CASE EnsureClientStarted(r) BY <2>7 DEF EnsureClientStarted
  <2>8. CASE AwaitStart(r) BY <2>8 DEF AwaitStart
  <2>9. CASE ResumeSession(r) BY <2>9 DEF ResumeSession
  <2>10. CASE CreateSession(r) BY <2>10 DEF CreateSession
  <2>11. CASE StoreSession(r) BY <2>11 DEF StoreSession
  <2>12. CASE ReleaseLock(r) BY <2>12 DEF ReleaseLock
  <2> QED BY ONLY <1>1, <2>1, <2>2, <2>3, <2>4, <2>5, <2>6, <2>7, <2>8, <2>9, <2>10, <2>11, <2>12 DEF GetSession
<1>2. ASSUME NEW r \in Requests, Cancel(r) PROVE DisposalProgress'
  BY <1>2 DEF Cancel
<1>3. CASE StartSettles
  BY <1>3 DEF StartSettles
<1>4. CASE Dispose
  BY <1>4 DEF Dispose, BeginDispose, DisposeSession, DisposeClient, DisposeLock, DisposeThrows
<1>5. CASE UNCHANGED vars
  BY <1>5 DEF vars
<1> QED BY ONLY [Next]_vars, <1>1, <1>2, <1>3, <1>4, <1>5 DEF Next

(* In the initial state no session exists and the lock is free.            *)
LEMMA InitIInv == Init => IInv
BY NoneAssumption DEF Init, IInv, TypeOK, Critical, AfterMiss, Settled, LockHeldExactlyInside,
   CacheProvenance, HeldProvenance, StartProvenance, DisposalProgress

(* The conjunction of the parts is inductive.                              *)
LEMMA StepIInv == IInv /\ [Next]_vars => IInv'
BY TypeStep, LockStep, CacheStep, HeldStep, StartStep, DisposalStep DEF IInv

(* The inductive invariant holds in every reachable state.                 *)
THEOREM Invariance == Spec => []IInv
BY InitIInv, StepIInv, PTL DEF Spec

(* The fields of the manager keep their types, for any set of requests.    *)
THEOREM TypeCorrect == Spec => []TypeOK
<1>1. IInv => TypeOK
  BY DEF IInv
<1> QED BY <1>1, Invariance, PTL

(* The semaphore is a mutual exclusion lock that every exit of             *)
(* GetSessionAsync gives back.                                             *)
THEOREM LockDiscipline == Spec => []LockHeldExactlyInside
<1>1. IInv => LockHeldExactlyInside
  BY DEF IInv
<1> QED BY <1>1, Invariance, PTL

(* Two calls for one session id never hold two sessions: a call that is    *)
(* storing is alone inside the lock and has seen the cache empty, and      *)
(* every other call that holds a session holds the cached one.             *)
THEOREM SessionUniqueness == Spec => []OneSessionPerId
<1>1. IInv => OneSessionPerId
  <2> SUFFICES ASSUME IInv, NEW r \in Requests, NEW q \in Requests, asked[r] = asked[q],
                      session[r] # None, session[q] # None
               PROVE session[r] = session[q]
    BY DEF OneSessionPerId
  <2>1. CASE pc[r] # "storing" /\ pc[q] # "storing"
    BY <2>1 DEF IInv, HeldProvenance
  <2>2. CASE pc[r] = "storing"
    <3>1. sessions[asked[q]] = None
      BY <2>2 DEF IInv, HeldProvenance, AfterMiss
    <3>2. pc[q] = "storing"
      BY <3>1 DEF IInv, HeldProvenance
    <3>3. lock = r /\ lock = q
      BY <2>2, <3>2 DEF IInv, LockHeldExactlyInside, Critical, AfterMiss
    <3> QED BY <3>3
  <2>3. CASE pc[q] = "storing"
    <3>1. sessions[asked[r]] = None
      BY <2>3 DEF IInv, HeldProvenance, AfterMiss
    <3>2. pc[r] = "storing"
      BY <3>1 DEF IInv, HeldProvenance
    <3>3. lock = r /\ lock = q
      BY <2>3, <3>2 DEF IInv, LockHeldExactlyInside, Critical, AfterMiss
    <3> QED BY <3>3
  <2> QED BY <2>1, <2>2, <2>3
<1> QED BY <1>1, Invariance, PTL

(* StartAsync is called at most once, and a session exists only if that    *)
(* call succeeded.                                                         *)
THEOREM OneStart == Spec => []SessionsNeedTheOneStart
<1>1. IInv => SessionsNeedTheOneStart
  BY DEF IInv, StartProvenance, SessionsNeedTheOneStart
<1> QED BY <1>1, Invariance, PTL

(* A complete disposal misses only sessions stored after its snapshot.     *)
THEOREM DisposalComplete == Spec => []DisposalReachesSnapshot
<1>1. IInv => DisposalReachesSnapshot
  BY DEF IInv, DisposalProgress, DisposalReachesSnapshot
<1> QED BY <1>1, Invariance, PTL

-----------------------------------------------------------------------------
(* Only StoreSession writes the cache, at an id it found empty; only       *)
(* EnsureClientStarted and StartSettles write _startTask, before it has an *)
(* outcome.                                                                *)
THEOREM CacheGrowsOnly == Spec => CachedForever
<1> DEFINE A == /\ \A id \in SessionIds : sessions[id] # None => sessions'[id] = sessions[id]
                /\ startTask \in {"ok", "faulted"} => startTask' = startTask
<1>1. IInv /\ [Next]_vars => [A]_vars
  <2> SUFFICES ASSUME IInv, Next PROVE A
    OBVIOUS
  <2> USE DEF requestVars, clientVars, hostVars
  <2>1. ASSUME NEW r \in Requests, GetSession(r) PROVE A
    <3>1. CASE StoreSession(r)
      <4>1. sessions[asked[r]] = None /\ asked[r] \in SessionIds
        BY <3>1 DEF StoreSession, IInv, TypeOK, HeldProvenance, AfterMiss
      <4> QED BY <3>1, <4>1 DEF StoreSession, IInv, TypeOK
    <3>2. CASE EnsureClientStarted(r) BY <3>2 DEF EnsureClientStarted
    <3>3. CASE ~StoreSession(r) /\ ~EnsureClientStarted(r)
      BY <2>1, <3>3 DEF GetSession, LookupHit, LookupMiss, WaitThrows, AcquireLock, RecheckHit,
         RecheckMiss, AwaitStart, ResumeSession, CreateSession, ReleaseLock
    <3> QED BY <3>1, <3>2, <3>3
  <2>2. ASSUME NEW r \in Requests, Cancel(r) PROVE A
    BY <2>2 DEF Cancel
  <2>3. CASE StartSettles
    BY <2>3 DEF StartSettles
  <2>4. CASE Dispose
    BY <2>4 DEF Dispose, BeginDispose, DisposeSession, DisposeClient, DisposeLock, DisposeThrows
  <2> QED BY <2>1, <2>2, <2>3, <2>4 DEF Next
<1> QED BY <1>1, Invariance, PTL DEF Spec, CachedForever

-----------------------------------------------------------------------------
(* The refinement.  A call that misses and stores takes a Register step, a *)
(* call that returns takes an Answer step with the cached session, a call  *)
(* that throws takes a Fail step, and everything else is a stutter.        *)

LEMMA RegistryInit == Init => Registry!Init
BY DEF Init, Registry!Init

LEMMA RegistryStep == IInv /\ [Next]_vars => [Registry!Next]_Registry!vars
<1> SUFFICES ASSUME IInv, [Next]_vars PROVE [Registry!Next]_Registry!vars
  OBVIOUS
<1> USE NoneAssumption DEF Registry!Next, Registry!vars, Goto, Holds, requestVars, clientVars,
      hostVars, IInv, TypeOK
<1>1. ASSUME NEW r \in Requests, GetSession(r) PROVE [Registry!Next]_Registry!vars
  <2>1. CASE LookupHit(r)
    <3> Registry!Answer(r) BY <2>1 DEF LookupHit, Registry!Answer
    <3> QED OBVIOUS
  <2>2. CASE LookupMiss(r) BY <2>2 DEF LookupMiss
  <2>3. CASE WaitThrows(r)
    <3> Registry!Fail(r) BY <2>3 DEF WaitThrows, Registry!Fail
    <3> QED OBVIOUS
  <2>4. CASE AcquireLock(r) BY <2>4 DEF AcquireLock
  <2>5. CASE RecheckHit(r) BY <2>5 DEF RecheckHit
  <2>6. CASE RecheckMiss(r) BY <2>6 DEF RecheckMiss
  <2>7. CASE EnsureClientStarted(r) BY <2>7 DEF EnsureClientStarted
  <2>8. CASE AwaitStart(r) BY <2>8 DEF AwaitStart
  <2>9. CASE ResumeSession(r) BY <2>9 DEF ResumeSession
  <2>10. CASE CreateSession(r) BY <2>10 DEF CreateSession
  <2>11. CASE StoreSession(r)
    <3>1. sessions[asked[r]] = None /\ session[r] = r
      BY <2>11 DEF StoreSession, HeldProvenance, AfterMiss
    <3> Registry!Register(r) BY <2>11, <3>1 DEF StoreSession, Registry!Register
    <3> QED OBVIOUS
  <2>12. CASE ReleaseLock(r)
    <3>1. session[r] \in {None, sessions[asked[r]]}
      BY <2>12 DEF ReleaseLock, HeldProvenance
    <3>2. CASE host = "disposed" \/ session[r] = None
      <4> Registry!Fail(r) BY <2>12, <3>2 DEF ReleaseLock, Registry!Fail
      <4> QED OBVIOUS
    <3>3. CASE host # "disposed" /\ session[r] # None
      <4> Registry!Answer(r) BY <2>12, <3>1, <3>3 DEF ReleaseLock, Registry!Answer
      <4> QED OBVIOUS
    <3> QED BY <3>2, <3>3
  <2> QED BY ONLY <1>1, <2>1, <2>2, <2>3, <2>4, <2>5, <2>6, <2>7, <2>8, <2>9, <2>10, <2>11, <2>12
          DEF GetSession
<1>2. ASSUME NEW r \in Requests, Cancel(r) PROVE [Registry!Next]_Registry!vars
  BY <1>2 DEF Cancel
<1>3. CASE StartSettles
  BY <1>3 DEF StartSettles
<1>4. CASE Dispose
  BY <1>4 DEF Dispose, BeginDispose, DisposeSession, DisposeClient, DisposeLock, DisposeThrows
<1>5. CASE UNCHANGED vars
  BY <1>5 DEF vars
<1> QED BY ONLY [Next]_vars, <1>1, <1>2, <1>3, <1>4, <1>5 DEF Next

(* CopilotSessionManager implements the registry it promises its callers.  *)
THEOREM Refinement == Spec => ImplementsRegistry
BY RegistryInit, RegistryStep, Invariance, PTL DEF Spec, ImplementsRegistry, Registry!Spec
===============================================================================
