CONSTANTS
  r1 = r1
  r2 = r2
  r3 = r3
  NoToken = NoToken
  Requests <- MCRequests
  Lifetimes <- MCLifetimes
  Margin = 1
  Fallback = 2
  MaxTime = 2
SPECIFICATION FairServerSpec
INVARIANTS
  ServerTypeOK
  OneHeadPerResponse
PROPERTIES
  HitsAreLive
  EveryRequestEnds
CHECK_DEADLOCK FALSE
