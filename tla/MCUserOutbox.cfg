SPECIFICATION FairSpec
CONSTANTS
  x1 = x1
  x2 = x2
  t1 = t1
  t2 = t2
  Rows = {1}
  Replicas = {x1, x2}
  Timers = {t1, t2}
  BatchSize = 1
  MaxAttempts = 3
  MaxFaults = 2
INVARIANTS
  TypeOK
  AttemptsAreExact
PROPERTIES
  BackoffHonoured
  KeepsPromise
  EventuallySettled
CHECK_DEADLOCK FALSE
