SPECIFICATION Spec
CONSTANTS
  None = None
  OutputNames <- MCOutputNames
  PieceLength <- MCPieceLength
  Dotted <- MCDotted
  Slashed <- MCSlashed
  MaxOptions = 5
CHECK_DEADLOCK FALSE
INVARIANT WritesToFileName
