SPECIFICATION Spec
CONSTANTS
  s1 = s1
  s2 = s2
  s3 = s3
  Search <- MCSearch
  Providers = 3
  Mute <- MCMute
  Threshold = 3
  Cooldown = 2
  MaxCancels = 1
INVARIANTS
  FewCallsBeforeQuiet
PROPERTIES
  EachHasItsBreaker
  ProviderComesBack
