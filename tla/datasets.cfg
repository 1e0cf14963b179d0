SPECIFICATION Spec
CONSTANTS
  Levels = 4
  Tree <- MCTree
  Depth <- MCDepth
  DataSets = {}
  Features = 15
  MaxEvals = 6
  NoNode = NoNode
  NoFeature = NoFeature
  NaN = NaN
  None = None
CHECK_DEADLOCK FALSE
INVARIANTS TypeOK SteersToDestination LengthDecides
