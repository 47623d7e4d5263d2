SPECIFICATION UpdateFairSpec
INVARIANTS
  PackageIsLabelled
  NoOrphanBackend
PROPERTIES
  BackendRestored
CONSTANTS
  v1 = v1
  v2 = v2
  NoVersion = NoVersion
  Versions <- McVersions
  MaxOverdue = 2
CHECK_DEADLOCK FALSE
