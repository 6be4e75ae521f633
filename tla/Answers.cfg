CONSTANTS
  MaxEvent = 2
  Assemblies <- MCAssemblies
  Fragments <- MCFragments
  Counts = {0, 3}
  MaxAggregate = 3
  MaxToolBytes = 2
  MaxAnswer = 7
  MaxInputs = 3
  BatchSizes = {0, 1, 2}
  Dimensions = {0, 1, 2}
  Widths = {1, 2}
  TokenCounts <- MCTokenCounts
  MaxBatch = 5
  MaxCollected = 5
  MaxInt = 3
  MaxMessages = 4
  CallLists <- MCCallLists
  Results <- MCResults
  Policies <- MCPolicies
  Asks <- MCAsks
  Behaviors <- MCBehaviors
  Upstreams <- MCUpstreams
  MaxUpload = 4
SPECIFICATION Spec
INVARIANTS
  TypeOK
  SameProgress
  SplitAsWhole
  CallsWhole
  RefusedOnMerit
  BatchesAddUp
  CallsAnswered
  OwnersDecide
CHECK_DEADLOCK FALSE
