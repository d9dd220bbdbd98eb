SPECIFICATION FairSpec
CONSTANTS
  MaxBitCount = 5
  TrieType = "LinkedNoStorage"
  MaxThreads = 32
  Commits = {"c"}
  Batches <- EightOrSkewed
  Singles <- NoSingles
  FreshOnly = TRUE
  MaxEpoch = 2
INVARIANTS HashesUpdated ThreadsAreApart ThrowsOnlyInSkewed
PROPERTIES CallReturns
CHECK_DEADLOCK FALSE
