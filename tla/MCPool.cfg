SPECIFICATION FairSpec
CONSTANTS
  c1 = c1
  c2 = c2
  Clients <- TwoClients
  Threads = 2
  PoolSizes = {1, 3}
  QueueLimit = 2
  QueueLimits = {1}
  MaxTasks = 3
INVARIANTS InFlightCounts DestructorDrains TasksAreConserved
PROPERTIES WaitMeansFinished TasksRun CallsReturn DestructorReturns
CHECK_DEADLOCK FALSE
