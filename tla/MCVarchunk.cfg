CONSTANTS
  Size = 64
  Lens <- RingLens
  Data = {d1, d2}
  None = None
  UseMaximum = FALSE
SPECIFICATION FairSpec
INVARIANT IInv
INVARIANT NoOverrun
INVARIANT HeldIntact
INVARIANT UnreadIntact
PROPERTY ImplementsFifo
PROPERTY EveryChunkLeaves
PROPERTY NoStarvation
