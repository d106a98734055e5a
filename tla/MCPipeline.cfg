SPECIFICATION FairSpec
CONSTANTS
  account = account
  stranger = stranger
  sync1 = sync1
  sync2 = sync2
  post = post
  m1 = m1
  m2 = m2
  Calls = {sync1, sync2, post}
  Creations = {post}
  UserOf <- UserOfCall
  EmailOf <- OneEmail
  Deliveries = {m1, m2}
  AccountOf <- OneAccount
  MaxFaults = 1
INVARIANTS
  TypeOK
  RowsAndEventsAgree
  AnswersAreTrue
  NothingSlipsAway
PROPERTIES
  EventuallyKnown
CHECK_DEADLOCK FALSE
