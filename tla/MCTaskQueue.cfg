SPECIFICATION Spec
CONSTANTS
  t1 = t1
  t2 = t2
  t3 = t3
  w1 = w1
  w2 = w2
  Task <- MCTask
  Worker <- MCWorker
  Rank <- MCRank
  Batch = 2
  MaxAttempts = 2
  Handled <- MCHandled
  Sequence <- MCSequence
  Fault <- KillFaults
  MaxFaults = 2
SYMMETRY MCSymmetry
INVARIANTS
  OneRunPerTask
  RunOwnsRow
  ClaimsAreDisjoint
  EveryFailureCharged
PROPERTY
  ImplementsWorkQueue
