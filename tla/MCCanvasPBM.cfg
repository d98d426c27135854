CONSTANTS
  Width = 2
  Height = 2
  Prios = 2
  Bits = 2
  Half = 16
  Messages <- AllMessages
SPECIFICATION Spec
INVARIANT PictureIsPBM
