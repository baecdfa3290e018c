SPECIFICATION LiveSpec
CONSTANTS
  NoObj = NoObj
  Foreign = Foreign
  NoTTL = NoTTL
  c1 = c1
  c2 = c2
  w1 = w1
  w2 = w2
  g1 = g1
  g2 = g2
  d1 = d1
  d2 = d2
  Specs <- URLSpecs
  Owners <- OneOwner
  DriftKinds <- NoDrift
  UserOps = {"create", "update", "delete"}
  Horizon = 0
  HalfRange = 100
  MaxUid = 2
  MaxLag = 1
  MaxEdits = 3
  MaxTampers = 0
  MaxTouches = 0
  MaxFaults = 0
  MaxCrashes = 1
INVARIANTS RefsResolve RoutesPrepared
PROPERTIES Converges Implements URLsStayPublished
CHECK_DEADLOCK FALSE
