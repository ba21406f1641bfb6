CONSTANTS
  NumMotors = 3
  Low <- MCLow
  High <- MCHigh
  Home <- MCHome
  IntHalf = 8
  Junk = Junk
  Drive <- MCDrive
  SafeLow <- MCSafeLow
  SafeHigh <- MCSafeHigh
  PowerOn <- MCPowerOn
  Requests <- MCRequests
  MaxRequests = 3
  MaxRestarts = 1
SPECIFICATION Spec
INVARIANTS
  TypeOK
  JointsInLimits
  AtRest
PROPERTIES
  AnswersAtRest
  Smooth
  EveryRequestEnds
  ImplementsAtomicArm
