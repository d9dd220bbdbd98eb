SPECIFICATION Spec
CONSTANTS
  MaxBitCount = 2
  TrieType = "Linked"
  MaxThreads = 2
  Commits = {"c"}
  Batches <- AnyTwo
  Singles <- AllSingles
  FreshOnly = FALSE
  MaxEpoch = 4
INVARIANTS TypeOK AnswersAreRight
PROPERTIES AppendOnly
CHECK_DEADLOCK FALSE
