CONSTANTS
  Requests = {r1}
  r1 = r1
  SourceKinds = {"good"}
  ExternalKinds = {"good"}
  MaxConfig = 1
  MaxAuth = 1
  MaxExternal = 1
  MaxKey = 1
  MaxListing = 1
  Outages = FALSE
SPECIFICATION Spec
PROPERTY SnapshotKept
CHECK_DEADLOCK FALSE
