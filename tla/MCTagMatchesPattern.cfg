SPECIFICATION Spec
CONSTANTS
  UINT32_MAX = 5
  MaxAnswers = 2
  LongChain = 3
  Answers <- MCAnswers
INVARIANT
  TagMatchesPattern
CHECK_DEADLOCK FALSE
