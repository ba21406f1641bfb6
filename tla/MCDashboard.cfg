CONSTANTS
  NumMotors = 3
  Low <- MCLow
  High <- MCHigh
  Home <- MCHome
  Junk = Junk
  Requests <- MCRequests
  MaxRequests = 2
  Parts = {"states", "choreography"}
  MaxAsked = 2
  MaxFailures = 1
CHECK_DEADLOCK FALSE
SPECIFICATION Spec
INVARIANTS
  TypeOK
  KeptUp
PROPERTIES
  CatchesUp
