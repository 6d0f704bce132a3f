SPECIFICATION Spec
CONSTANTS
  Image <- ThreeKernels
  Pkg <- Packages
  NoPkg = "none"
  PkgBase <- NoHandmade
  Managed = {"custom", "next"}
  AdminOpers = {"add", "inspect"}
  Overlap = FALSE
  MaxTrans = 3
  MaxFaults = 2
INVARIANTS
  NoDangling
  SyncedWhenIdle
  OnlyManaged
  RefreshRepairs
PROPERTIES
  MirrorSpec
  TransactionEnds
