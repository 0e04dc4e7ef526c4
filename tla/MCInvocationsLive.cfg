CONSTANTS
  i1 = i1
  i2 = i2
  None = None
  Invocations <- MCInvocationSet
  MaxTexts = 0
SPECIFICATION FairSpec
PROPERTIES
  AcceptedPromptsEnd
CHECK_DEADLOCK FALSE
