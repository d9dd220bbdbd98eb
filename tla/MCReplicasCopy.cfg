SPECIFICATION Spec
CONSTANTS
  MaxBitCount = 3
  Keys <- ThreeKeys
  Searched <- OneKeyMore
  Providers <- OneCachedQuerier
  MaxQueriers = 2
  MaxEpoch = 3
INVARIANTS TypeOK AnswersFromOneCopy
