CONSTANTS
  Requests = {}
  SourceKinds = {"unreadable", "badInline"}
  ExternalKinds = {"good"}
  MaxConfig = 2
  MaxAuth = 1
  MaxExternal = 2
  MaxKey = 2
  MaxListing = 1
  Outages = FALSE
SPECIFICATION Spec
INVARIANTS
  TokenReloadKept
  NotSuperseded
  ClientsAccounted
PROPERTY ImplementsStore
CHECK_DEADLOCK FALSE
