SPECIFICATION Spec
CONSTANTS
  None = None
  NoObj = NoObj
  a1 = a1
  a2 = a2
  pdok = pdok
  nl = nl
  bbox = bbox
  rd = rd
  wgs = wgs
  Atoms <- TwoAtoms
  Labels <- MCLabels
  Specs <- MCSpecs
  MaxRunning = 2
INVARIANTS RoutingTypeOK DocumentsServed   IdsDiffer EntriesDescribeFeeds PartsOrWhole
