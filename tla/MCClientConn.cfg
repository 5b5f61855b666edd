SPECIFICATION FairSpec
CONSTANTS
  SITypes <- MCSITypes
  MaxConns <- MCMaxConns
  MaxFaults = 1
  MaxAlarms = 1
  MaxSends = 1
  MaxInbox = 2
CHECK_DEADLOCK FALSE
INVARIANTS
  TypeOK
  ListedIsServed
PROPERTIES
  KeptUntilLost
  QuitsWhenUnanswered
  ComesBack
