CONSTANTS
  current = current
  credit = credit
  card = card
  order = order
  ann = ann
  shoutedAnn = shoutedAnn
  bob = bob
  nobody = nobody
  txn = txn
  email = email
  oldMail = oldMail
  newMail = newMail
  Accounts <- MCAccounts
  OpeningBalance <- MCOpeningBalance
  OpeningAvailable <- MCOpeningAvailable
  Cards <- MCCards
  Instructions <- MCInstructions
  Customers <- MCCustomers
  Given <- MCGiven
  Lower <- MCLower
  Transactions <- MCTransactions
  Fields <- MCFields
  Details <- MCDetails
  Doubles <- MCDoubles
  Even <- MCEven
  HalfGap = 1
  Lowest <- MCLowest
  MaxRoundings = 2
  MaxRecords = 2
  MaxBoots = 2
SPECIFICATION Spec
INVARIANTS
  TypeOK
  LimitRespected
  ToldRecordsHold
