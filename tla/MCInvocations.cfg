CONSTANTS
  i1 = i1
  i2 = i2
  None = None
  Invocations <- MCInvocationSet
  MaxTexts = 2
SYMMETRY MCSymmetry
SPECIFICATION Spec
INVARIANTS
  TypeOK
  StreamIsWellFormed
  AnswersKeepTogether
CHECK_DEADLOCK FALSE
