SPECIFICATION FairSpec
CONSTANTS
  r1 = r1
  r2 = r2
  old = old
  Binary <- MCBinary
  Release <- MCRelease
  Runs <- MCRelease
  Bare <- MCBare
  Package = {curl, unzip}
  Absent = Absent
  NoReceipt = NoReceipt
  Initial <- MCInitial
  MaxFaults = 3
INVARIANTS
  OldOrNew
  InstalledIsPinned
  ReceiptIsTrue
PROPERTIES
  Converges
