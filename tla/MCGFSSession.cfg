SPECIFICATION FairSpec
CONSTANTS
  Period = 5
  Delay = 1
  Slack = 2
  MaxEvents = 2
  MaxFaults = 1
CHECK_DEADLOCK FALSE
INVARIANTS
  EventsAccounted
PROPERTIES
  EndsForCause
  DroppedForCause
  SessionRenewed
