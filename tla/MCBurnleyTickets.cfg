CONSTANTS
  f1 = f1
  f2 = f2
  c1 = c1
  c2 = c2
  None = None
  Fixtures <- MCFixtures
  Capacity <- MCCapacity
  Customers <- MCCustomers
  MaxQuantity = 2
  MaxClock = 1
SYMMETRY MCSymmetry
SPECIFICATION Spec
INVARIANTS
  TypeOK
  SeatsAccounted
  BookingsAreKnown
CHECK_DEADLOCK FALSE
