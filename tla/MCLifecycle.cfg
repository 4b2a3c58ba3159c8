SPECIFICATION FairSpec
CONSTANTS
  Libcs = {"SystemV", "BSD"}
  Sendable = {"SIGTERM", "SIGINT", "SIGHUP", "SIGCHLD"}
  MaxSignals = 4
INVARIANTS
  TypeOK
  ExitZeroIsClean
  DefaultShutdownNeverRuns
  KillNeedsRepetition
  SingleSignalIsGraceful
  HandledSignalsNeverKill
PROPERTIES
  StopInLoopEndsProgram
CHECK_DEADLOCK FALSE
