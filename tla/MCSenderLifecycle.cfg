SPECIFICATION FairSpec
CONSTANTS
  MaxObjects = 2
  MaxThreads = 4
  MaxAnswers = 2
CHECK_DEADLOCK FALSE
INVARIANTS
  RunningWhenStarted
  FaultsExplained
  QueuedCopiesExist
PROPERTIES
  StopReturns
