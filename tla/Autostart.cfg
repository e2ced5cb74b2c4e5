SPECIFICATION Spec
CONSTANTS
  NoXray = NoXray
  Initial <- MCInitial
  MaxEpochs = 4
  MaxFaults = 3
INVARIANTS
  EnabledIsProven
  RolledBack
PROPERTIES
  BootStartsOne
CHECK_DEADLOCK FALSE
