SPECIFICATION Spec
CONSTANTS
  EventMax = 2
  Writers = {serial}
  Readers = {si1}
  MaxRaised = 3
INVARIANTS
  IndexedEventIsPresent
