SPECIFICATION Spec
CONSTANTS
  t1 = t1
  t2 = t2
  Tries = {1, 2}
  Names = {"a", "b"}
  Entries <- AllEntries
  Threads = {t1, t2}
  Stacks <- OrderlyStacks
  Capacity = 1
  MaxSaves = 3
INVARIANTS CacheIsCurrent
PROPERTIES ImplementsStorageMap FlushIsInvisible
CHECK_DEADLOCK FALSE
