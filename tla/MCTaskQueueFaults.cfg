SPECIFICATION FairSpec
CONSTANTS
  t1 = t1
  t2 = t2
  t3 = t3
  w1 = w1
  w2 = w2
  Task <- MCTwoTasks
  Worker <- MCWorker
  Rank <- MCRank
  Batch = 2
  MaxAttempts = 2
  Handled <- MCHandled
  Sequence <- MCNoSequence
  Fault <- AllFaults
  MaxFaults = 1
INVARIANTS
  AttemptsBudget
  ExtraReturnsAreFaults
  DoneMeansHandled
PROPERTY
  EveryTaskSettles
