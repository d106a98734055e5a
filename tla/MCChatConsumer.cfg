SPECIFICATION FairSpec
CONSTANTS
  x1 = x1
  x2 = x2
  m1 = m1
  m2 = m2
  e1 = e1
  Replicas = {x1, x2}
  Events = {e1}
  Messages = {m1, m2}
  EventOf <- CopiesOfOne
  Settings <- FourSettings
INVARIANTS
  TypeOK
  AppliedOnceUnlessExposed
PROPERTIES
  KeepsPromise
  EventuallyCopied
CHECK_DEADLOCK FALSE
