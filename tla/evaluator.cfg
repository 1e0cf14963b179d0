SPECIFICATION EvaluatorSpec
CONSTANTS
  Levels = 4
  Tree <- MCDistinctGradient
  Depth <- MCDepth
  DataSets <- MCTelling
  Selectors <- MCAnySelector
  NoNode = NoNode
  NoFeature = NoFeature
  NaN = NaN
  None = None
CHECK_DEADLOCK FALSE
INVARIANTS FunctionTypeOK OnCourse LevelsMatch Frontier Executable SwitchesTotal AbortsOnlyOnMisfit
PROPERTIES AnswersRight MisfitsNeverFinish CallsReturn CompileEnds
