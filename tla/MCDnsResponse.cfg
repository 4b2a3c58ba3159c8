SPECIFICATION FairSpec
CONSTANTS
  Lengths <- MCLengths
  Flags = {0, 128, 130, 133}
  Rcodes = {0, 1, 2, 3, 4, 5, 6}
  Counts = {0, 1, 2, 3, 65535}
  Octets = {0, 1, 5, 63, 64, 191, 192}
  RdLengths = {0, 1, 4, 65535}
INVARIANTS
  TypeOK
  ReadsInBounds
  RecordsDisjoint
  ListFitsMessage
  AllOrNothing
PROPERTIES
  Terminates
CHECK_DEADLOCK FALSE
