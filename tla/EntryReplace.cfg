SPECIFICATION Spec
CONSTANTS
  Written <- ShortRows
  NoFile = NoFile
  MaxAdds = 4
  MaxFaults = 2
INVARIANTS
  TypeOK
  RenamedIsBootable
  EntryIsRight
  NoLitter
PROPERTIES
  AtomicSpec
  PluginEnds
CHECK_DEADLOCK FALSE
