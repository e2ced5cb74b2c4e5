SPECIFICATION Spec
CONSTANTS
  ProfileSet = {1, 2}
  None = None
  Missing = Missing
  Torn = Torn
  Built = {1}
  MaxBuilds = 1
  Service <- MCService
  Domain <- MCDomain
  Requests <- MCRequests
  Packs <- MCPacks
  MaxServices = 1
  MaxDomains = 2
  Initial <- MCInitial
  Down = Down
  MaxFaults = 1
INVARIANTS
  ManifestWhole
  Manageable
  AllOrNothing
  AppliedInForce
  InstalledWhole
PROPERTIES
  ForeignKept
