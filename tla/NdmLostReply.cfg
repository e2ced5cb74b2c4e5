SPECIFICATION Spec
CONSTANTS
  d1 = d1
  d2 = d2
  Profiles = 2
  Enabled <- MCEnabled
  MaxProxy = 2
  MaxPolicy = 2
  Device <- MCDevice
  SelectedDevice = d1
  SelectedSlot = 2
  NoDevice = NoDevice
  Guard <- MCGuard
  Absent = Absent
  NoPlan = NoPlan
  Initial <- MCWhole
  LostReply = TRUE
  MaxFaults = 1
  MaxEdits = 0
INVARIANTS
  RollbackRestores
