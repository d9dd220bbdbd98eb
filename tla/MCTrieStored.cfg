SPECIFICATION Spec
CONSTANTS
  MaxBitCount = 3
  TrieType = "Stored"
  MaxThreads = 1
  Commits = {"c"}
  Batches <- BatchesOfTwo
  Singles <- AllSingles
  FreshOnly = TRUE
  MaxEpoch = 2
INVARIANTS StorageIsCurrent StorageLoads TrieOfDictionary ProofsVerify
PROPERTIES CommitmentIsDictionary
CHECK_DEADLOCK FALSE
