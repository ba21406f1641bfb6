CONSTANTS
  NumMotors = 3
  Low <- MCLow
  High <- MCHigh
  Home <- MCHome
  Junk = Junk
  Requests <- MCRequests
  MaxRequests = 4
CHECK_DEADLOCK FALSE
SPECIFICATION Spec
INVARIANTS
  LogReplays
PROPERTIES
  ChangesAnnounced
