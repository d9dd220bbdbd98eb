SPECIFICATION Spec
CONSTANTS
  MaxBitCount = 5
  TrieType = "Linked"
  MaxThreads = 32
  Commits = {"c"}
  Batches <- SkewedThenTwo
  Singles <- NoSingles
  FreshOnly = TRUE
  MaxEpoch = 2
INVARIANTS FreshInsertSucceeds
CHECK_DEADLOCK FALSE
