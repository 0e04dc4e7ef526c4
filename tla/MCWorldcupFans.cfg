CONSTANTS
  ann = ann
  bob = bob
  vegan = vegan
  halal = halal
  UEFA = UEFA
  CAF = CAF
  None = None
  Fans <- MCFans
  DietOf <- MCDietOf
  ConfOf <- MCConfOf
  PackCounts <- MCPackCounts
  Points <- MCPoints
  MaxIds = 2
  MaxPoints = 1
  MaxBoots = 2
SPECIFICATION Spec
INVARIANTS
  TypeOK
  ReceiptsStayTrue
  NoCertificateIssued
  CateringAddsUp
CHECK_DEADLOCK FALSE
