SPECIFICATION Spec
CONSTANTS
  d1 = d1
  d2 = d2
  Profiles = 1
  Enabled <- MCEnabled
  MaxProxy = 2
  MaxPolicy = 2
  Device <- MCDevice
  SelectedDevice = d1
  SelectedSlot = 1
  NoDevice = NoDevice
  Guard <- MCGuard
  Absent = Absent
  NoPlan = NoPlan
  Initial <- MCUsable
  LostReply = TRUE
  MaxFaults = 1
  MaxEdits = 2
PROPERTIES
  PresentUntouched
