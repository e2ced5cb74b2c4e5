SPECIFICATION Spec
CONSTANTS
  m1 = m1
  m2 = m2
  Manifest <- MCTwoManifests
  Evidence <- MCEvidenceLocal
  NoManifest = NoManifest
  NoEvidence = NoEvidence
  NoPacket = NoPacket
  NoReceipt = NoReceipt
  RuntimeMode = "local-router"
  Transport = "local-ndmc"
  Supplied <- MCNoSnapshots
  Adopt = FALSE
  MaxFaults = 1
INVARIANTS
  NoStaleStage
  RebootProven
  RecordedMeansRan
  DnsAfterNative
  NativeConfigured
PROPERTIES
  NativeOnlyAfterProof
  ImplementsLedger
