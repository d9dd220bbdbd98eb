SPECIFICATION Spec
CONSTANTS
  MaxBitCount = 3
  Keys <- ThreeKeys
  Searched <- OneKeyMore
  Providers <- TrieStaysCached
  MaxQueriers = 2
  MaxEpoch = 3
INVARIANTS PublishedIsFound FreshAnswers
