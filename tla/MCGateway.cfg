SPECIFICATION FairSpec
CONSTANTS
  ann = ann
  bob = bob
  cid = cid
  Users = {ann, bob, cid}
  Intents = {1, 2, 3}
  Scenarios <- MCScenarios
  MaxIds = 2
  Limit = 2
  Ids = {1, 2, 3, 4, 5}
  MaxTime = 1
  MaxTries = 2
  MaxSignals = 1
INVARIANTS
  TypeOK
  OncePerIntentUnlessUnheard
  RefusedLeavesNothing
  PagedExactly
  CaughtUpUnlessFull
PROPERTIES
  EventuallyAnswered
CHECK_DEADLOCK FALSE
