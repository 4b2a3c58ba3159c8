SPECIFICATION Spec
CONSTANTS
  Inputs <- MCInputs
  ChunkSizes = {0, 1, 2}
  MaxChunks = 3
INVARIANTS
  TypeOK
  CodeAndStateAgree
  PayloadIsWhole
  RequestIsComplete
  NothingElseLeaks
CHECK_DEADLOCK FALSE
