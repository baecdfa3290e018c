SPECIFICATION LiveSpec
CONSTANTS
  NoObj = NoObj
  Foreign = Foreign
  NoTTL = NoTTL
  c1 = c1
  c2 = c2
  w1 = w1
  w2 = w2
  g1 = g1
  g2 = g2
  d1 = d1
  d2 = d2
  Specs <- LinkSpecs
  Owners <- AllOwners
  DriftKinds <- AllKinds
  UserOps = {"create", "owner"}
  Horizon = 0
  HalfRange = 100
  MaxUid = 1
  MaxLag = 2
  MaxEdits = 2
  MaxTampers = 1
  MaxTouches = 0
  MaxFaults = 0
  MaxCrashes = 0
INVARIANT TypeOK
PROPERTY Converges
CHECK_DEADLOCK FALSE
