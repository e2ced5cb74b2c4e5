SPECIFICATION FairSpec
CONSTANTS
  Options <- MCOptions
  MaxFaults = 3
INVARIANTS
  SecretsGone
  SignalReachesChild
  SuccessIsWhole
PROPERTIES
  NothingBehind
  SignalEnds
