SPECIFICATION OutreachSpec
CONSTANTS
  l1 = l1
  r1 = r1
  r2 = r2
  Lead <- MCLead
  Caller <- MCWorkerAndCli
  Batch = 1
  MaxAttempts = 2
  WarmupCaps <- MCCaps
  SteadyCap = 2
  Window = 1
  MinHistory = 1
  HaltPercent = 3
  Unsafe = TRUE
  Kind <- NoKind
  ByHand <- NoLead
  LastDay = 1
  MaxFaults = 1
  Request <- MCRequest
  MaxVersion = 3
CHECK_DEADLOCK FALSE
SYMMETRY MCSymmetry
INVARIANTS
  OnlyApprovedTextIsMailed
  OneTextPerLead
  ApprovalIsEnqueued
  
