CONSTANTS
  Stored <- MCStored
  MaxEdits = 3
  MaxScreens = 2
  MaxKills = 1
SPECIFICATION Spec
INVARIANTS
  NoSaveLost
PROPERTIES
  RemovesPressed
  ListCatchesUp
  ImplementsWriteBehind
CHECK_DEADLOCK FALSE
