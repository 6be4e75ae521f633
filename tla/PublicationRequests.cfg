CONSTANTS
  Requests = {r1}
  r1 = r1
  SourceKinds = {"good"}
  ExternalKinds = {"good"}
  MaxConfig = 2
  MaxAuth = 1
  MaxExternal = 2
  MaxKey = 1
  MaxListing = 1
  Outages = FALSE
SPECIFICATION Spec
INVARIANTS
  TypeOK
  SnapshotCoherent
  AnswerAuthorized
CHECK_DEADLOCK FALSE
