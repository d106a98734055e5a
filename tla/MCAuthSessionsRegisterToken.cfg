SPECIFICATION Spec
CONSTANTS
  q1 = q1
  q2 = q2
  Requests = {q1, q2}
  Emails = {"ann"}
  MaxRows = 4
  MaxFaults = 0
SYMMETRY AnyRequest
INVARIANTS
  IssuedTokenIsFound
CHECK_DEADLOCK FALSE
