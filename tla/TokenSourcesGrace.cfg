CONSTANTS
  a = a
  b = b
  x = x
  y = y
  Names <- MCNames
  Digests <- MCDigests
  Offers <- MCOffers
  Fragile = {"directory"}
  Configs <- MCOneConfig
  Overtakes = FALSE
  MaxTime = 3
  Unreadable = Unreadable
SPECIFICATION Spec
INVARIANT GraceEnds
