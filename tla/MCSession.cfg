SPECIFICATION FairSpec
CONSTANTS
  RESERVED_REQUESTS_ID = 2
  UINT16_MAX = 4
  Attempts = 2
  HeaderHasStream = TRUE
  ClockRuns = TRUE
  Callbacks = {"on_reply", "on_status"}
  Publications = {"on_reply"}
  MaxCalls = 2
  MaxRequests = 2
  MaxTopics = 1
  MaxStale = 1
INVARIANTS
  TypeOK
PROPERTIES
  SessionAgreed
  StatusesBelong
  HeardInCall
  ListOnlyLent
  AnsweredReturns
CHECK_DEADLOCK FALSE
