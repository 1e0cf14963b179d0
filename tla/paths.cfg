SPECIFICATION Spec
CONSTANTS
  Levels = 3
  Tree <- MCTree
  Depth <- MCDepth
  DataSets = {}
  NoNode = NoNode
  NoFeature = NoFeature
  NaN = NaN
  None = None
CHECK_DEADLOCK FALSE
INVARIANTS TypeOK StepsConnected AnswersAsPaths ComparisonRight
