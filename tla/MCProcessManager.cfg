SPECIFICATION FairSpec
CONSTANTS
  Used <- MCUsed
  MaxPids = 3
  CheckPeriod = 3
  MaxFaults = 2
CHECK_DEADLOCK FALSE
INVARIANTS
  TwinsWereReplaced
PROPERTIES
  JudgedDeadForCause
  QuitForCause
  DeadComesBack
  QuitReachesAll
