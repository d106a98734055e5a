SPECIFICATION Spec
CONSTANTS
  q1 = q1
  q2 = q2
  Requests = {q1, q2}
  Emails = {"ann"}
  MaxRows = 4
  MaxFaults = 1
SYMMETRY AnyRequest
INVARIANTS
  TypeOK
  RegistrationIsAtomic
  OneRowUntilRevoked
CHECK_DEADLOCK FALSE
