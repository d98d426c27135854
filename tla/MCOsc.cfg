CONSTANTS
  Size = 24
  MinRoom = 2
  Messages <- Sent
  Tags = {"t", "u"}
  Immediate = "now"
  MaxDepth = 2
  MaxTold = 3
SPECIFICATION Spec
INVARIANT TypeOK
INVARIANT WholeHeard
INVARIANT CutHeardInPart
INVARIANT ReadersNest
