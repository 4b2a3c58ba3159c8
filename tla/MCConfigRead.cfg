SPECIFICATION FairSpec
CONSTANTS
  Names = {1, 2, 3}
  Values = {"a", "b"}
  Unset = "unset"
  Absent = "absent"
  Interfaces = {"wan0", "eth0"}
  NoName = "no name"
  Algorithms = {"HS256", "RS256"}
  BadNames = {"XX1"}
  num_algorithms = 2
  Contents <- MCContents
  HashmapsMayFail = TRUE
INVARIANTS
  TypeOK
  ListIsSorted
  SettingsAreMerged
  CodeNamesAProblem
  NothingElseLeaks
PROPERTY
  ImplementsPromise
CHECK_DEADLOCK FALSE
