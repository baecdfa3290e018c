SPECIFICATION Spec
CONSTANTS
  NoObj = NoObj
  NoMeta = NoMeta
  w1 = w1
  w2 = w2
  w3 = w3
  i1 = i1
  i2 = i2
  n1 = n1
  n2 = n2
  Candidates <- AllCandidates
  Infos <- SomeInfos
  OwnerNames = {n1, n2}
  MaxRoutes = 3
INVARIANTS AdmissionTypeOK BaseCanMove
PROPERTIES AdmittedMaps URLsStay
