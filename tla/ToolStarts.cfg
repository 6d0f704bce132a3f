SPECIFICATION Spec
CONSTANTS
  Word <- Words
  NULL = NULL
  Self = "self"
  Machines <- SmallMachines
  Chunk = 2
  MaxFaults = 1
  Mounts <- SmallMounts
  PartType <- Types
  DiskOf <- Disks
  NoDisk = "none"
  NoPart = NoPart
  Cuts <- SmallCuts
  MaxChanges = 1
INVARIANTS
  TypeOK
  PluginsRight
  ConfigWhole
  ChildGets
  TriggersRight
  MountsRight
