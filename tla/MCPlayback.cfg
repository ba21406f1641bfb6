CONSTANTS
  NumMotors = 2
  Low <- MCLow
  High <- MCHigh
  Home <- MCHome
  IntHalf = 64
  Junk = Junk
  Phones = {p1, p2}
  Scripts <- MCScripts
  Postures <- MCPostures
  MaxCalls = 3
  MaxEdits = 1
  MaxRestarts = 1
SPECIFICATION Spec
SYMMETRY PhoneSymmetry
INVARIANTS
  ScriptPlayed
  ResetFirst
  PreviewStands
CHECK_DEADLOCK FALSE
