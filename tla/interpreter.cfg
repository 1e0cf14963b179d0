SPECIFICATION Spec
CONSTANTS
  Levels = 3
  Tree <- MCTree
  Depth <- MCDepth
  DataSets <- MCDataSets
  NoNode = NoNode
  NoFeature = NoFeature
  NaN = NaN
  None = None
INVARIANTS TypeOK OnCourse
PROPERTIES AnswersRight RunsReturn
