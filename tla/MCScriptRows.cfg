CONSTANTS
  v1 = v1
  v2 = v2
  v3 = v3
  v4 = v4
  v5 = v5
  View <- MCView
  MaxRows = 3
  MaxPresses = 2
  MaxChanges = 5
INIT Init
NEXT Next
SYMMETRY MCViewSymmetry
INVARIANTS
  ViewsMatchRows
  SelectsTapped
