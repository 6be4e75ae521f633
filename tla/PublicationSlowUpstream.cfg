CONSTANTS
  Requests = {}
  SourceKinds = {"badConfig"}
  ExternalKinds = {"good", "unreadable"}
  MaxConfig = 2
  MaxAuth = 1
  MaxExternal = 2
  MaxKey = 1
  MaxListing = 1
  Outages = FALSE
SPECIFICATION SlowUpstreamSpec
PROPERTIES
  RevocationApplied
  DrainBegins
CHECK_DEADLOCK FALSE
