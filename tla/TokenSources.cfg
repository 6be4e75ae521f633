CONSTANTS
  a = a
  b = b
  x = x
  y = y
  Names <- MCNames
  Digests <- MCDigests
  Offers <- MCOffers
  Fragile = {"directory"}
  Configs <- MCConfigs
  Overtakes = TRUE
  MaxTime = 2
  Unreadable = Unreadable
SPECIFICATION Spec
INVARIANTS
  TypeOK
  OwnersHold
  RetainedWithinGrace
