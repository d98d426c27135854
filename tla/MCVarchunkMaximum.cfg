CONSTANTS
  Size = 64
  Lens <- MaximumLens
  Data = {d1}
  None = None
  UseMaximum = TRUE
SPECIFICATION Spec
INVARIANT NoOverrun
