CONSTANTS
  Transports <- OnlySlip
  Clients = {c1, c2}
  Payloads <- Letters
  Digit <- Digits
  RxSize = 10
  Room = 1
  ReqBuf = 1
  MaxBody = 2
  MaxFrames = 2
  MaxFaults = 0
SPECIFICATION Spec
INVARIANT FramesInOrder
