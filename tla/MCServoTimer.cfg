CONSTANTS
  ServoCount = 2
  Degrees <- MCDegrees
  Latency = 18000
SPECIFICATION Spec
INVARIANTS
  PulsesWhole
  NeverMissed
PROPERTIES
  PulseAsCommanded
  Refreshed
