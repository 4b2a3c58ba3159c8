SPECIFICATION FairSpec
CONSTANTS
  Lengths = {0, 11, 44, 49, 64, 65}
  Flags = {128}
  Rcodes = {0, 3}
  Counts = {1, 2, 3}
  Octets = {0}
  RdLengths = {3, 4, 5}
  OCTET = 4
  Contents <- MCContents
INVARIANTS
  TypeOK
  ReadsLiveMessage
  TokenFitsMessage
  TtlIsTheSoonest
  ReleasedAtExit
PROPERTY
  Terminates
CHECK_DEADLOCK FALSE
