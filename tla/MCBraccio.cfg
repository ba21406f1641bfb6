CONSTANTS
  Motor <- MCMotor
  Drive <- MCDrive
  SafeLow <- MCSafeLow
  SafeHigh <- MCSafeHigh
  PowerOn <- MCPowerOn
  Calls <- MCCalls
SPECIFICATION Spec
INVARIANTS
  SafePositions
  ServoLag
  StopsAtGoal
PROPERTIES
  OneDegree
  Termination
