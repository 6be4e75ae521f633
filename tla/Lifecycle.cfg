CONSTANTS
  Requests = {"r1", "r2"}
  Limits = {0, 1}
  DrainDelay = 1
  ShutdownGrace = 2
  Capacity = 2
  MaxSignals = 3
  MaxReloads = 1
SPECIFICATION Spec
INVARIANTS
  TypeOK
  SlotsCounted
  ExitsInTime
PROPERTIES
  NothingCutEarly
  ProcessEnds
CHECK_DEADLOCK FALSE
