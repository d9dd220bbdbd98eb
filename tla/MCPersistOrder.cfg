SPECIFICATION Spec
CONSTANTS
  MaxBitCount = 3
  Commit = "c"
  Setups <- StoredThrough
  MaxEpoch = 3
INVARIANTS TypeOK StorageLoads
CHECK_DEADLOCK FALSE
