SPECIFICATION Spec
CONSTANTS
  Levels = 3
  Tree <- MCDistinctUniform
  Depth <- MCDepth
  DataSets <- MCNaNOrHigh
  Selectors <- MCConditionalBranches
  NoNode = NoNode
  NoFeature = NoFeature
  NaN = NaN
  None = None
INVARIANT SuccessMeansVerified
