SPECIFICATION FairSpec
CONSTANTS
  p1 = p1
  Rows = {1}
  Polls = {p1}
  BatchSize = 2
  MaxAttempts = 2
  MaxFaults = 1
PROPERTIES
  EventuallySent
CHECK_DEADLOCK FALSE
