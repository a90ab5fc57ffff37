SPECIFICATION Spec
CONSTANTS
  l1 = l1
  l2 = l2
  Lead <- MCLead
  Caller <- MCWorkerOnly
  Batch = 2
  MaxAttempts = 2
  WarmupCaps <- MCSmallCaps
  SteadyCap = 2
  Window = 2
  MinHistory = 1
  HaltPercent = 3
  Unsafe = FALSE
  Kind <- BounceAndReply
  ByHand <- MCLead
  LastDay = 1
  MaxFaults = 1
SYMMETRY MCSymmetry
INVARIANTS
  SuppressionIsFinal
  VerdictRecorded
  HaltIsSticky
PROPERTY
  NoMailAfterRow
