CONSTANTS
  MaxSentences = 3
  MaxTurns = 2
SPECIFICATION Spec
PROPERTIES
  PlaysInOrder
