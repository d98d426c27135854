CONSTANTS
  Second = 10
  Step = 5
  XmitMin = 0
  XmitMax = 1
  Delays <- SomeDelays
  MaxList = 3
SPECIFICATION FairSpec
INVARIANT KeepsPace
INVARIANT NotEarly
PROPERTY EveryMessageHandled
