CONSTANT MaxSignals = 0
SPECIFICATION FairSpec
PROPERTY XmitFailureEndsSession
