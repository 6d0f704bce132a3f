SPECIFICATION Spec
CONSTANTS
  Pkg <- Tools
  HookPkg <- Tools
  Extends <- NoExtension
  Setups <- BothMachines
  MaxVers = 2
INVARIANTS
  TypeOK
  MenuMatches
  AddLeavesOne
PROPERTIES
  OnlyOwnVersions
  RunEnds
