SPECIFICATION FairSpec
CONSTANTS
  UINT32_MAX = 5
  MaxAnswers = 4
  LongChain = 14
  Answers <- MCAnswers
INVARIANTS
  TypeOK
  ChainInOrder
  ChainIsMaximal
  FirstCopyAfterPrevious
  ExpiresWithItsFragments
  BufferHasOneOwner
PROPERTIES
  Terminates
  ImplementsPromise
CHECK_DEADLOCK FALSE
