SPECIFICATION Spec
CONSTANTS
  Levels = 3
  Tree <- MCTree
  Depth <- MCDepth
  DataSets <- MCNaNOrHigh
  NoNode = NoNode
  NoFeature = NoFeature
  NaN = NaN
CHECK_DEADLOCK FALSE
INVARIANTS TypeOK VectorRight SignBitClear
