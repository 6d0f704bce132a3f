SPECIFICATION Spec
CONSTANTS
  Image <- ThreeKernels
  Pkg <- Packages
  NoPkg = "none"
  PkgBase <- NoHandmade
  Managed = {"custom", "next"}
  AdminOpers = {"add"}
  Overlap = FALSE
  MaxTrans = 1
  MaxFaults = 1
INVARIANTS
  ExitZeroMeansDone
