SPECIFICATION Spec
CONSTANTS
  None = None
  NoObj = NoObj
  Panic = Panic
  Host = Host
  Beheer = Beheer
  Bad = Bad
  Empty = Empty
  text1 = text1
  text2 = text2
  uuid = uuid
  author = author
  uri = uri
  rd = rd
  type = type
  zero = zero
  box = box
  ZeroBox <- zero
  fine = fine
  wide = wide
  Rounded <- MCRounded
  HalfRange = 4
  MaxNow = 4
  Manifests <- AllManifests
  Hubs <- AllHubs
  Edits <- MCEdits
INVARIANTS ConversionTypeOK  ConvertedPolygonsAgree
PROPERTY WriteBackKeeps
