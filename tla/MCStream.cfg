CONSTANTS
  Transports <- AllTransports
  Clients = {c1, c2}
  Payloads <- Messages
  Digit <- Digits
  RxSize = 6
  Room = 1
  ReqBuf = 1
  MaxBody = 2
  MaxFrames = 2
  MaxFaults = 1
SPECIFICATION FairSpec
INVARIANT TypeOK
INVARIANT UndividedFramesArrive
INVARIANT WholeFramesInOrder
PROPERTY ConnectionReleased
PROPERTY ClientGetsThrough
