CONSTANTS
  r1 = r1
  r2 = r2
  r3 = r3
  a = a
  b = b
  None = None
  Requests <- MCRequests
  SessionIds <- MCSessionIds
SPECIFICATION FairSpec
INVARIANTS
  TypeOK
  LockHeldExactlyInside
  OneSessionPerId
  SessionsNeedTheOneStart
  DisposalReachesSnapshot
PROPERTIES
  EveryCallSettles
  ImplementsRegistry
CHECK_DEADLOCK FALSE
