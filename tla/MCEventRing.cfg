SPECIFICATION FairSpec
CONSTANTS
  EventMax = 2
  Writers = {serial}
  Readers = {si1}
  MaxRaised = 7
INVARIANTS
  TypeOK
  IndexInStep
  PointerIntact
PROPERTIES
  StaleOnlyDuringCopy
  FeedSpec
