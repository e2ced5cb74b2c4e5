SPECIFICATION FairSpec
CONSTANTS
  m1 = m1
  m2 = m2
  Manifest <- MCOneManifest
  Evidence <- MCEvidenceDelivery
  NoManifest = NoManifest
  NoEvidence = NoEvidence
  NoPacket = NoPacket
  NoReceipt = NoReceipt
  RuntimeMode = "external-evidence"
  Transport = "external"
  Supplied <- MCSnapshotChain
  Adopt = TRUE
  MaxFaults = 1
INVARIANTS
  Inductive
PROPERTIES
  CampaignCompletes
