SPECIFICATION Spec
CONSTANTS
  MaxBitCount = 3
  Commit = "c"
  Setups <- AllSetups
  MaxEpoch = 3
INVARIANTS TrieIsOfDictionary InsertedStay
CHECK_DEADLOCK FALSE
