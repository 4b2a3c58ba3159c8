SPECIFICATION FairSpec
CONSTANTS
  Libcs = {"SystemV"}
  Sendable = {"SIGTERM", "SIGINT", "SIGHUP", "SIGCHLD"}
  MaxSignals = 2
INVARIANT
  IgnoredSignalsSurvived
CHECK_DEADLOCK FALSE
