SPECIFICATION Spec
CONSTANTS
  q1 = q1
  q2 = q2
  q3 = q3
  u1 = u1
  u2 = u2
  u3 = u3
  Nothing = Nothing
  Requests = {q1, q2, q3}
  Users = {u1, u2, u3}
  MaxFaults = 2
SYMMETRY AnyRequestOrUser
INVARIANTS
  TypeOK
  OneDirectPerPair
  CopyIsCurrentUnlessRaced
  PreviewIsNewestUnlessOvertaken
CHECK_DEADLOCK FALSE
