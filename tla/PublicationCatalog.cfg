CONSTANTS
  Requests = {}
  SourceKinds = {"good"}
  ExternalKinds = {"clash"}
  MaxConfig = 2
  MaxAuth = 1
  MaxExternal = 1
  MaxKey = 1
  MaxListing = 2
  Outages = FALSE
SPECIFICATION FairSpec
PROPERTIES
  CatalogApplied
CHECK_DEADLOCK FALSE
