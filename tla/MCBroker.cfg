SPECIFICATION FairSpec
CONSTANTS
  BUFF_SIZE = 2
  RingSize = 7
  Margin = 2
  MaxBytes = 4
  MaxBreaks = 2
  MaxPosted = 1
CHECK_DEADLOCK FALSE
INVARIANTS
  EventsAreLines
  ShortLinesFit
PROPERTIES
  StoppedForCause
  ReceivesAgain
