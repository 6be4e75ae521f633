CONSTANTS
  Retries = 1
  IdleTicks = 2
  BodyTicks = 2
  BodyLimit = 1
  Outcomes = {"sse", "json", "busy", "refused", "dial", "late", "timeout"}
  Kinds = {"text", "held", "finish", "done", "over", "bytes"}
  MaxEvents = 2
  MaxWire = 1
  Modes = {"stream", "aggregate", "json", "relay"}
  StallTicks = 1
  Shutdowns = TRUE
SPECIFICATION FairSpec
INVARIANTS
  TypeOK
  NothingHeld
  BlameIsFair
PROPERTIES
  ImplementsAnswer
  AlwaysReturns
