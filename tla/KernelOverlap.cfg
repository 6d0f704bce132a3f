SPECIFICATION Spec
CONSTANTS
  Image <- ThreeKernels
  Pkg <- Packages
  NoPkg = "none"
  PkgBase <- WithHandmade
  Managed = {"custom", "next"}
  AdminOpers = {"add", "remove"}
  Overlap = TRUE
  MaxTrans = 1
  MaxFaults = 1
INVARIANTS
  TypeOK
PROPERTIES
  RemovalHasCause
  RunEnds
