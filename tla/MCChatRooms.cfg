SPECIFICATION RoomsFairSpec
CONSTANTS
  n1 = n1
  n2 = n2
  s1 = s1
  s2 = s2
  s3 = s3
  s4 = s4
  q1 = q1
  q2 = q2
  q3 = q3
  Nodes = {n1, n2}
  Sockets = {s1, s2, s3, s4}
  NodeOf <- TwoNodes
  Participants = {s1, s2, s3}
  Requests = {q1, q2, q3}
  MaxFaults = 1
INVARIANTS
  RoomsTypeOK
  ReceivedOnceStored
  LeftUnlessOvertaken
PROPERTIES
  AudienceIsReached
CHECK_DEADLOCK FALSE
