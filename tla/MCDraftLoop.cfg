SPECIFICATION Spec
CONSTANTS
  worker = worker
  cli = cli
  Drafter <- MCDrafter
  Draft <- MCDraft
  Text <- MCText
  WordsOf <- MCWordsOf
  Profile <- MCProfile
  EvidenceLimit = 1
  NoDraft = NoDraft
  MaxRegenerations = 2
  MaxLost = 1
SYMMETRY MCSymmetry
INVARIANTS
  GateHolds
  
PROPERTIES
  ImplementsDrafting
  
