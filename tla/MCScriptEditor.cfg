CONSTANTS
  NumMotors = 2
  Low <- MCLow
  High <- MCHigh
  Home <- MCHome
  IntHalf = 64
  Junk = Junk
  Samples <- MCSamples
  MaxScript = 3
  MaxPresses = 2
  MaxChanges = 2
SPECIFICATION Spec
INVARIANTS
  TypeOK
  SelectedInList
  SliderMatchesValue
  EditorMatchesArm
PROPERTIES
  PlaysAsPreviewed
  OneChangeAtATime
