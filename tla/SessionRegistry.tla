--------------------------- MODULE SessionRegistry ---------------------------
(***************************************************************************)
(* What the session cache promises its callers: a registry that names, for *)
(* good, at most one session per session id, the one a request for that id *)
(* made; each call ends once, with the registered session or by failing.   *)
(***************************************************************************)

CONSTANTS Requests, SessionIds, None

VARIABLES
  asked,     \* the session id of each call
  registry,  \* the session registered for each id, or None
  outcome,   \* pending, answered or failed, per call
  answer     \* the session each answered call returned

vars == <<asked, registry, outcome, answer>>

Init ==
  /\ asked \in [Requests -> SessionIds]
  /\ registry = [id \in SessionIds |-> None]
  /\ outcome = [r \in Requests |-> "pending"]
  /\ answer = [r \in Requests |-> None]

Register(r) ==
  /\ outcome[r] = "pending"
  /\ registry[asked[r]] = None
  /\ registry' = [registry EXCEPT ![asked[r]] = r]
  /\ UNCHANGED <<asked, outcome, answer>>

Answer(r) ==
  /\ outcome[r] = "pending"
  /\ registry[asked[r]] # None
  /\ outcome' = [outcome EXCEPT ![r] = "answered"]
  /\ answer' = [answer EXCEPT ![r] = registry[asked[r]]]
  /\ UNCHANGED <<asked, registry>>

Fail(r) ==
  /\ outcome[r] = "pending"
  /\ outcome' = [outcome EXCEPT ![r] = "failed"]
  /\ UNCHANGED <<asked, registry, answer>>

Next == \E r \in Requests : Register(r) \/ Answer(r) \/ Fail(r)

Spec == Init /\ [][Next]_vars
=============================================================================
