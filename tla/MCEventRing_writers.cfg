SPECIFICATION Spec
CONSTANTS
  EventMax = 2
  Writers = {serial, test}
  Readers = {}
  MaxRaised = 5
CHECK_DEADLOCK FALSE
INVARIANTS
  IndexWithinMaximum
