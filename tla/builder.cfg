SPECIFICATION Spec
CONSTANTS
  MaxLevels = 6
  AnyOrderLevels = 3
  NoNode = NoNode
  NoFeature = NoFeature
  NaN = NaN
CHECK_DEADLOCK FALSE
INVARIANTS TypeOK StillAhead AllResults
PROPERTY FinalizeEnds
