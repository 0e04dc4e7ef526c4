--------------------------- MODULE CopilotSessions ---------------------------
(***************************************************************************)
(* CopilotSessionManager, the singleton of the support-case agent that     *)
(* every HTTP request asks for the Copilot session of its session id.  A   *)
(* request looks the id up without a lock, queues on a semaphore, looks    *)
(* again, starts the shared Copilot client if nobody did, resumes or       *)
(* creates the session, stores it, and releases the semaphore.  The host   *)
(* may dispose of the manager while requests are still inside it.          *)
(*                                                                         *)
(* A request makes at most one session, so a CopilotSession object is      *)
(* named by the request that made it.  The configuration builders (model,  *)
(* directories, skills, tools, bearer token) only decide whether a resume  *)
(* or a create succeeds, which is a free choice here.                      *)
(***************************************************************************)

EXTENDS Naturals

CONSTANTS
  Requests,    \* the calls of GetSessionAsync
  SessionIds,  \* the session ids they may carry
  None         \* no request, no session, no lock holder

ASSUME NoneAssumption == None \notin Requests

VARIABLES
  pc,          \* where each request is in GetSessionAsync
  asked,       \* the sessionId argument of each request
  cancelled,   \* the requests whose CancellationToken has fired
  session,     \* the CopilotSession each request holds, None before it has one
  lock,        \* _sessionLock: the request inside the semaphore, or None
  startTask,   \* _startTask
  startCalls,  \* how often _client.StartAsync was called, counted up to 2
  sessions,    \* _sessions
  host,        \* how far DisposeAsync has come
  toDispose,   \* sessions of the snapshot DisposeAsync has still to dispose
  disposed,    \* sessions disposed of
  lateStored   \* sessions stored after DisposeAsync took its snapshot

requestVars == <<pc, asked, cancelled, session>>
clientVars == <<startTask, startCalls>>
hostVars == <<host, toDispose, disposed>>
vars == <<requestVars, lock, clientVars, sessions, hostVars, lateStored>>

Settled == {"returned", "failed"}

(* The steps of GetSessionAsync between WaitAsync and Release, and among   *)
(* them those after the second lookup has missed.                          *)
AfterMiss == {"ensuring", "awaitingStart", "resuming", "creating", "storing"}
Critical == AfterMiss \cup {"rechecking", "releasing"}

ClientUsable == host \notin {"closingLock", "disposed"}

Init ==
  /\ pc = [r \in Requests |-> "calling"]
  /\ asked \in [Requests -> SessionIds]
  /\ cancelled = {}
  /\ session = [r \in Requests |-> None]
  /\ lock = None
  /\ startTask = "null"
  /\ startCalls = 0
  /\ sessions = [id \in SessionIds |-> None]
  /\ host = "running"
  /\ toDispose = {}
  /\ disposed = {}
  /\ lateStored = {}

Goto(r, step) == pc' = [pc EXCEPT ![r] = step]

Holds(r, s) == session' = [session EXCEPT ![r] = s]

-----------------------------------------------------------------------------
(* Lookup before the lock.                                                 *)

LookupHit(r) ==
  /\ pc[r] = "calling"
  /\ sessions[asked[r]] # None
  /\ Holds(r, sessions[asked[r]])
  /\ Goto(r, "returned")
  /\ UNCHANGED <<asked, cancelled, lock, clientVars, sessions, hostVars, lateStored>>

LookupMiss(r) ==
  /\ pc[r] = "calling"
  /\ sessions[asked[r]] = None
  /\ Goto(r, "waiting")
  /\ UNCHANGED <<asked, cancelled, session, lock, clientVars, sessions, hostVars, lateStored>>

(* Mutant: WaitAsync moved into the try block, so a throw releases.        *)
WaitThrowsInsideTry(r) ==
  /\ pc[r] = "waiting"
  /\ r \in cancelled \/ host = "disposed"
  /\ Goto(r, "failed")
  /\ lock' = None
  /\ UNCHANGED <<asked, cancelled, session, clientVars, sessions, hostVars, lateStored>>

(* WaitAsync throws when the token fires or the semaphore is disposed of:  *)
(* the try block is not entered, so nothing is released.                   *)
WaitThrows(r) ==
  /\ pc[r] = "waiting"
  /\ r \in cancelled \/ host = "disposed"
  /\ Goto(r, "failed")
  /\ UNCHANGED <<asked, cancelled, session, lock, clientVars, sessions, hostVars, lateStored>>

AcquireLock(r) ==
  /\ pc[r] = "waiting"
  /\ lock = None
  /\ host # "disposed"
  /\ lock' = r
  /\ Goto(r, "rechecking")
  /\ UNCHANGED <<asked, cancelled, session, clientVars, sessions, hostVars, lateStored>>

-----------------------------------------------------------------------------
(* Inside the lock.                                                        *)

RecheckHit(r) ==
  /\ pc[r] = "rechecking"
  /\ sessions[asked[r]] # None
  /\ Holds(r, sessions[asked[r]])
  /\ Goto(r, "releasing")
  /\ UNCHANGED <<asked, cancelled, lock, clientVars, sessions, hostVars, lateStored>>

(* Mutant: no second lookup.                                               *)
RecheckMissUnguarded(r) ==
  /\ pc[r] = "rechecking"
  /\ Goto(r, "ensuring")
  /\ UNCHANGED <<asked, cancelled, session, lock, clientVars, sessions, hostVars, lateStored>>

RecheckMiss(r) ==
  /\ pc[r] = "rechecking"
  /\ sessions[asked[r]] = None
  /\ Goto(r, "ensuring")
  /\ UNCHANGED <<asked, cancelled, session, lock, clientVars, sessions, hostVars, lateStored>>

(* Mutant: `=' where the code has `??='.                                   *)
EnsureClientStartedAnew(r) ==
  /\ pc[r] = "ensuring"
  /\ startTask' = "running"
  /\ startCalls' = IF startCalls < 2 THEN startCalls + 1 ELSE 2
  /\ Goto(r, "awaitingStart")
  /\ UNCHANGED <<asked, cancelled, session, lock, sessions, hostVars, lateStored>>

(* _startTask ??= _client.StartAsync(cancellationToken), after making the  *)
(* bundled CLI executable; listing its directory may throw before that.    *)
EnsureClientStarted(r) ==
  /\ pc[r] = "ensuring"
  /\ \/ /\ startTask = "null"
        /\ startTask' = "running"
        /\ startCalls' = IF startCalls < 2 THEN startCalls + 1 ELSE 2
        /\ Goto(r, "awaitingStart")
     \/ /\ startTask = "null"
        /\ Goto(r, "releasing")
        /\ UNCHANGED clientVars
     \/ /\ startTask # "null"
        /\ Goto(r, "awaitingStart")
        /\ UNCHANGED clientVars
  /\ UNCHANGED <<asked, cancelled, session, lock, sessions, hostVars, lateStored>>

(* The Copilot CLI comes up, or the start faults: the binary is missing or *)
(* unusable, the client was disposed of, or the token of the one request   *)
(* that called StartAsync fired.                                           *)
StartSettles ==
  /\ startTask = "running"
  /\ \/ startTask' = "ok" /\ ClientUsable
     \/ startTask' = "faulted"
  /\ UNCHANGED <<requestVars, lock, startCalls, sessions, hostVars, lateStored>>

(* Mutant: no finally block around the start.                              *)
AwaitStartUnprotected(r) ==
  /\ pc[r] = "awaitingStart"
  /\ \/ startTask = "ok" /\ Goto(r, "resuming")
     \/ startTask = "faulted" /\ Goto(r, "failed")
  /\ UNCHANGED <<asked, cancelled, session, lock, clientVars, sessions, hostVars, lateStored>>

AwaitStart(r) ==
  /\ pc[r] = "awaitingStart"
  /\ \/ startTask = "ok" /\ Goto(r, "resuming")
     \/ startTask = "faulted" /\ Goto(r, "releasing")
  /\ UNCHANGED <<asked, cancelled, session, lock, clientVars, sessions, hostVars, lateStored>>

(* Every exception of a resume, cancellation included, is swallowed and    *)
(* the session is created instead.                                         *)
ResumeSession(r) ==
  /\ pc[r] = "resuming"
  /\ \/ ClientUsable /\ Holds(r, r) /\ Goto(r, "storing")
     \/ Goto(r, "creating") /\ UNCHANGED session
  /\ UNCHANGED <<asked, cancelled, lock, clientVars, sessions, hostVars, lateStored>>

CreateSession(r) ==
  /\ pc[r] = "creating"
  /\ \/ ClientUsable /\ Holds(r, r) /\ Goto(r, "storing")
     \/ Goto(r, "releasing") /\ UNCHANGED session
  /\ UNCHANGED <<asked, cancelled, lock, clientVars, sessions, hostVars, lateStored>>

(* Mutant: the session is returned without being stored.                   *)
StoreSessionForgotten(r) ==
  /\ pc[r] = "storing"
  /\ Goto(r, "releasing")
  /\ UNCHANGED <<asked, cancelled, session, lock, clientVars, sessions, hostVars, lateStored>>

StoreSession(r) ==
  /\ pc[r] = "storing"
  /\ sessions' = [sessions EXCEPT ![asked[r]] = session[r]]
  /\ lateStored' = IF host = "running" THEN lateStored ELSE lateStored \cup {session[r]}
  /\ Goto(r, "releasing")
  /\ UNCHANGED <<asked, cancelled, session, lock, clientVars, hostVars>>

(* The finally block.  Release throws on a disposed semaphore, and then    *)
(* the request fails even with a session in hand.                          *)
ReleaseLock(r) ==
  /\ pc[r] = "releasing"
  /\ IF host = "disposed"
       THEN Goto(r, "failed") /\ UNCHANGED lock
       ELSE /\ Goto(r, IF session[r] = None THEN "failed" ELSE "returned")
            /\ lock' = None
  /\ UNCHANGED <<asked, cancelled, session, clientVars, sessions, hostVars, lateStored>>

-----------------------------------------------------------------------------
(* The caller goes away: its token fires at any point of the call.         *)
Cancel(r) ==
  /\ pc[r] \notin Settled
  /\ r \notin cancelled
  /\ cancelled' = cancelled \cup {r}
  /\ UNCHANGED <<pc, asked, session, lock, clientVars, sessions, hostVars, lateStored>>

(* Mutant: the empty entries are in the snapshot too.                      *)
BeginDisposeWithNulls ==
  /\ host = "running"
  /\ host' = "closingSessions"
  /\ toDispose' = {sessions[id] : id \in SessionIds}
  /\ UNCHANGED <<requestVars, lock, clientVars, sessions, disposed, lateStored>>

(* DisposeAsync: foreach over _sessions.Values, which is a snapshot, then  *)
(* the client, then the semaphore.  An exception of a DisposeAsync it      *)
(* awaits ends the method where it is.                                     *)
BeginDispose ==
  /\ host = "running"
  /\ host' = "closingSessions"
  /\ toDispose' = {sessions[id] : id \in SessionIds} \ {None}
  /\ UNCHANGED <<requestVars, lock, clientVars, sessions, disposed, lateStored>>

DisposeSession(s) ==
  /\ host = "closingSessions"
  /\ s \in toDispose
  /\ toDispose' = toDispose \ {s}
  /\ disposed' = disposed \cup {s}
  /\ UNCHANGED <<requestVars, lock, clientVars, sessions, host, lateStored>>

(* Mutant: the client is disposed of before the sessions.                  *)
DisposeClientEarly ==
  /\ host = "closingSessions"
  /\ host' = "closingLock"
  /\ UNCHANGED <<requestVars, lock, clientVars, sessions, toDispose, disposed, lateStored>>

DisposeClient ==
  /\ host = "closingSessions"
  /\ toDispose = {}
  /\ host' = "closingLock"
  /\ UNCHANGED <<requestVars, lock, clientVars, sessions, toDispose, disposed, lateStored>>

DisposeLock ==
  /\ host = "closingLock"
  /\ host' = "disposed"
  /\ UNCHANGED <<requestVars, lock, clientVars, sessions, toDispose, disposed, lateStored>>

DisposeThrows ==
  /\ host = "closingSessions"
  /\ host' = "aborted"
  /\ UNCHANGED <<requestVars, lock, clientVars, sessions, toDispose, disposed, lateStored>>

-----------------------------------------------------------------------------
GetSession(r) ==
  \/ LookupHit(r) \/ LookupMiss(r)
  \/ WaitThrows(r) \/ AcquireLock(r)
  \/ RecheckHit(r) \/ RecheckMiss(r)
  \/ EnsureClientStarted(r) \/ AwaitStart(r)
  \/ ResumeSession(r) \/ CreateSession(r)
  \/ StoreSession(r) \/ ReleaseLock(r)

Dispose ==
  \/ BeginDispose
  \/ \E s \in Requests : DisposeSession(s)
  \/ DisposeClient \/ DisposeLock \/ DisposeThrows

Next ==
  \/ \E r \in Requests : GetSession(r) \/ Cancel(r)
  \/ StartSettles
  \/ Dispose

Spec == Init /\ [][Next]_vars

(* The runtime schedules every continuation, and the awaited SDK calls end *)
(* with a result or an exception.  Cancellation and disposal are not owed. *)
Fairness ==
  /\ \A r \in Requests : WF_vars(GetSession(r))
  /\ WF_vars(StartSettles)

FairSpec == Spec /\ Fairness

-----------------------------------------------------------------------------
(* The type invariant: every variable keeps to the values the C# fields    *)
(* can hold.                                                               *)
TypeOK ==
  /\ pc \in [Requests -> {"calling", "waiting"} \cup Critical \cup Settled]
  /\ asked \in [Requests -> SessionIds]
  /\ cancelled \subseteq Requests
  /\ session \in [Requests -> Requests \cup {None}]
  /\ lock \in Requests \cup {None}
  /\ startTask \in {"null", "running", "ok", "faulted"}
  /\ startCalls \in {0, 1, 2}
  /\ sessions \in [SessionIds -> Requests \cup {None}]
  /\ host \in {"running", "closingSessions", "closingLock", "disposed", "aborted"}
  /\ toDispose \subseteq Requests
  /\ disposed \subseteq Requests
  /\ lateStored \subseteq Requests

(* The semaphore is held exactly by the request between WaitAsync and      *)
(* Release: no failure path of GetSessionAsync leaves it taken or gives it *)
(* away, except that the last holder keeps a disposed semaphore.           *)
LockHeldExactlyInside ==
  \A r \in Requests :
    /\ pc[r] \in Critical => lock = r
    /\ lock = r => pc[r] \in Critical \/ host = "disposed"

(* Two requests with the same session id never hold different session      *)
(* objects, whatever the order of lookups, failures and retries: the       *)
(* second lookup under the lock is what guarantees it.                     *)
OneSessionPerId ==
  \A r, q \in Requests :
    (asked[r] = asked[q] /\ session[r] # None /\ session[q] # None) => session[r] = session[q]

(* The shared client is started at most once, and no request has a session *)
(* unless that start succeeded: a faulted first start stays cached in      *)
(* _startTask, so no later request can ever get a session.                 *)
SessionsNeedTheOneStart ==
  /\ startCalls <= 1
  /\ (\E r \in Requests : session[r] # None) => startTask = "ok"

(* Once DisposeAsync has run to its end, a cached session that is not      *)
(* disposed of was stored by a request that was in flight when the         *)
(* snapshot of the dictionary was taken.                                   *)
DisposalReachesSnapshot ==
  host \in {"closingLock", "disposed"} =>
    \A id \in SessionIds : sessions[id] \in {None} \cup disposed \cup lateStored

(* A cached session is never replaced or dropped: _sessions only grows,    *)
(* and the one client start keeps its outcome.                             *)
CachedForever ==
  [][/\ \A id \in SessionIds : sessions[id] # None => sessions'[id] = sessions[id]
     /\ startTask \in {"ok", "faulted"} => startTask' = startTask]_vars

(* Every call of GetSessionAsync comes to an end, by a session or by an    *)
(* exception, unless DisposeAsync disposes of the semaphore it queues on:  *)
(* no failed, cancelled or faulted predecessor leaves the others waiting.  *)
EveryCallSettles ==
  \A r \in Requests : (pc[r] # "calling") ~> (pc[r] \in Settled \/ host = "disposed")
(* The manager implements the registry: looked at from the calls, storing  *)
(* is the moment of registration, and nothing but the stored session is    *)
(* ever returned.                                                          *)
Registry == INSTANCE SessionRegistry WITH
  registry <- sessions,
  outcome <- [r \in Requests |-> CASE pc[r] = "returned" -> "answered"
                                   [] pc[r] = "failed" -> "failed"
                                   [] OTHER -> "pending"],
  answer <- [r \in Requests |-> IF pc[r] = "returned" THEN session[r] ELSE None]

ImplementsRegistry == Registry!Spec
=============================================================================
