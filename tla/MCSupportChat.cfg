CONSTANTS
  f1 = f1
  f2 = f2
  None = None
  Files <- MCFiles
  MaxTurns = 3
SPECIFICATION FairSpec
INVARIANTS
  TypeOK
  ThreadIsWhole
  ConversationStaysTogether
  UploadsReachTheThread
PROPERTIES
  HandlersKeepApart
  TurnsAndUploadsEnd
