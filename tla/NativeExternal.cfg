SPECIFICATION Spec
CONSTANTS
  d1 = d1
  Profiles = 2
  Enabled <- MCEnabled
  MaxProxy = 2
  MaxPolicy = 2
  Device <- MCDevice
  SelectedDevice = d1
  SelectedSlot = 2
  NoDevice = NoDevice
  Guard <- MCGuard
  Absent = Absent
  NoPacket = NoPacket
  Initial <- MCInitial
  MaxFaults = 2
INVARIANTS
  CommandsReach
  RollbackReaches
  AcceptedSurvives
