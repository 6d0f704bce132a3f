SPECIFICATION Spec
CONSTANTS
  NDirs = 4
  NNames = 2
  MainAt <- Ends
  DropAt <- FourDropins
  Keys <- OneKey
  Values <- TwoValues
  Unset = Unset
  Absent = Absent
  Bad = Bad
  MaxEdits = 0
INVARIANTS
  EtcOverrides
CHECK_DEADLOCK FALSE
