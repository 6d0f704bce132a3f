SPECIFICATION Spec
CONSTANTS
  Written <- ShortRows
  NoFile = NoFile
  MaxAdds = 1
  MaxFaults = 1
INVARIANTS
  RenamedIsComplete
CHECK_DEADLOCK FALSE
