CONSTANTS
  MaxSentences = 4
  MaxTurns = 2
SPECIFICATION FairSpec
INVARIANTS
  TypeOK
  RunnersKeepOrder
  SpokenTextIsOfThisReply
PROPERTIES
  OneClipAtATime
  EverySentenceComes
