SPECIFICATION Spec
CONSTANTS
  l1 = l1
  l2 = l2
  Lead <- MCLead
  Caller <- MCWorkerAndCli
  Batch = 1
  MaxAttempts = 2
  WarmupCaps <- MCCaps
  SteadyCap = 2
  Window = 2
  MinHistory = 1
  HaltPercent = 3
  Unsafe = TRUE
  Kind <- NoKind
  ByHand <- NoLead
  LastDay = 3
  MaxFaults = 1
SYMMETRY MCSymmetry
CHECK_DEADLOCK FALSE
INVARIANTS
  CapSlack
  
  
