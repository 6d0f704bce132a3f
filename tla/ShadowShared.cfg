SPECIFICATION Spec
CONSTANTS
  Name <- TwoFiles
  Proc <- TwoTools
  MaxRuns = 3
  MaxEdits = 1
  MaxFaults = 2
INVARIANTS
  TypeOK
  ChildReadsBls
  ChildSeesLinks
  FailsForCause
  SettlesRight
CHECK_DEADLOCK FALSE
