SPECIFICATION Spec
CONSTANTS
  p1 = p1
  p2 = p2
  Rows = {1, 2}
  Polls = {p1, p2}
  BatchSize = 2
  MaxAttempts = 2
  MaxFaults = 1
SYMMETRY AnyPoll
INVARIANTS
  TypeOK
  DeadOnlyAfterMaxAttempts
  SingleHolder
PROPERTIES
  SettledIsFinal
  KeepsPromise
CHECK_DEADLOCK FALSE
