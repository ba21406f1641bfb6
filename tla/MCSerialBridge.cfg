CONSTANTS
  IndexSize = 2
  MaxRetries = 3
  Timeout = Timeout
  Long <- MCLong
  MaxCalls = 5
  MaxFaults = 3
SPECIFICATION Spec
INVARIANTS
  TypeOK
  OwnAnswer
  CalmReturns
PROPERTY ImplementsRemoteCall
CHECK_DEADLOCK FALSE
