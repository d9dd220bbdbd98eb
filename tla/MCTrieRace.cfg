SPECIFICATION Spec
CONSTANTS
  MaxBitCount = 3
  TrieType = "Linked"
  MaxThreads = 2
  Commits = {"c"}
  Batches <- QuadThenThree
  Singles <- NoSingles
  FreshOnly = TRUE
  MaxEpoch = 2
INVARIANTS HashesUpdated
CHECK_DEADLOCK FALSE
