CONSTANT MaxSignals <- TwoSignals
SPECIFICATION FairSpec
INVARIANT IInv
INVARIANT BeatHasItsResources
INVARIANT NothingHeldBetweenSessions
INVARIANT NoDoubleRelease
INVARIANT DarkAtTheEnd
PROPERTY StopEndsSession
PROPERTY SignalHeeded
