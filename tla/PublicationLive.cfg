CONSTANTS
  Requests = {}
  SourceKinds = {"good"}
  ExternalKinds = {"clash"}
  MaxConfig = 2
  MaxAuth = 1
  MaxExternal = 2
  MaxKey = 1
  MaxListing = 1
  Outages = TRUE
SPECIFICATION FairSpec
PROPERTIES
  ConfigApplied
  WorkersExit
CHECK_DEADLOCK FALSE
