SPECIFICATION FairSpec
CONSTANTS
  Libcs = {"SystemV"}
  Sendable = {"SIGTERM", "SIGINT", "SIGHUP", "SIGCHLD"}
  MaxSignals = 2
PROPERTY
  EveryStopEndsProgram
CHECK_DEADLOCK FALSE
