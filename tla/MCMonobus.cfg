CONSTANTS
  StrideSer = 2
  HeightSer = 2
  Pictures <- Drawn
SPECIFICATION Spec
INVARIANT TypeOK
INVARIANT WholeReceived
INVARIANT PictureShown
INVARIANT OnePicture
