SPECIFICATION Spec
CONSTANTS
  c1 = c1
  c2 = c2
  c3 = c3
  p1 = p1
  p2 = p2
  Caller <- MCThreeCallers
  Prompt <- MCPrompt
  Cost <- MCCost
  Ceiling = 2
  MaxTries = 2
  MaxLost = 1
  MaxRestarts = 1
SYMMETRY MCSymmetry
INVARIANTS
  CeilingSlack
  BillBound
  PaidByOverlapOnly
