SPECIFICATION Spec
CONSTANTS
  NoObj = NoObj
  Foreign = Foreign
  NoTTL = NoTTL
  c1 = c1
  c2 = c2
  w1 = w1
  w2 = w2
  g1 = g1
  g2 = g2
  d1 = d1
  d2 = d2
  Specs <- LongTTLSpecs
  Owners <- OneOwner
  DriftKinds <- NoDrift
  UserOps = {"create"}
  Horizon = 2
  HalfRange = 4
  MaxUid = 1
  MaxLag = 1
  MaxEdits = 1
  MaxTampers = 0
  MaxTouches = 0
  MaxFaults = 0
  MaxCrashes = 0
PROPERTY DeletesOnlyExpired
CHECK_DEADLOCK FALSE
