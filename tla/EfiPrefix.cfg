SPECIFICATION Spec
CONSTANTS
  Pkg <- ExtendingTools
  HookPkg <- ExtendingTools
  Extends <- Extension
  Setups <- PrefixMachine
  MaxVers = 1
PROPERTIES
  OlderOfSamePackage
