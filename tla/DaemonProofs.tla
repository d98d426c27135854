---------------------------- MODULE DaemonProofs ----------------------------
(***************************************************************************)
(* Who owns what, in every session of the daemon and under any number of   *)
(* signals.                                                                *)
(***************************************************************************)
EXTENDS Daemon, TLAPS

\* The zeroed globals satisfy the invariant.
LEMMA InitInv == Init => IInv
<1> SUFFICES ASSUME Init PROVE IInv
  OBVIOUS
<1>1. 0 \in 0 .. MaxSignals
  BY MaxSignalsAssumption
<1>2. TypeOK
  BY <1>1 DEF Init, TypeOK, MainSteps, Pointer, Picture
<1> QED
  BY <1>2 DEF Init, IInv, Connected, Running

\* The signal handler touches the two atomics only.
LEMMA SignalInv ==
  ASSUME IInv,
         (\E thread \in {"main", "beat"} : SignalArrives(thread)) \/ SignalReturns
  PROVE  IInv'
<1>1. ASSUME NEW thread \in {"main", "beat"}, SignalArrives(thread)
      PROVE  IInv'
  <2>1. signals' \in 0 .. MaxSignals
    BY <1>1, MaxSignalsAssumption, SMT DEF SignalArrives, IInv, TypeOK
  <2>2. TypeOK'
    BY <1>1, <2>1 DEF SignalArrives, Sig, rings, display, IInv, TypeOK
  <2> QED
    BY <1>1, <2>2 DEF SignalArrives, rings, display, IInv, Connected, Running, Alive, Frame,
                         Bye
<1>2. CASE SignalReturns
  <2>1. TypeOK'
    BY <1>2 DEF SignalReturns, Sig, rings, display, history, IInv, TypeOK
  <2> QED
    BY <1>2, <2>1 DEF SignalReturns, rings, display, history, IInv, Connected, Running,
                       Alive, Frame, Bye
<1> QED
  BY <1>1, <1>2

\* Main acquires in the order rings, handle, thread, and releases in reverse.
LEMMA MainInv == ASSUME IInv, Main PROVE IInv'
<1> USE DEF IInv, TypeOK, MainAt, MainSteps, Heeding, Serving, Connected,
            Running, Pointer, Picture, atomics, rings, display, history
<1>1. CASE OscInit
  <2>1. bpc = "none" /\ ~list /\ ftdi = "none" /\ ~crashed /\ rx # "live" /\ tx # "live"
    BY <1>1 DEF OscInit
  <2>2. crashed' \in BOOLEAN /\ oom' \in BOOLEAN /\ (crashed' => oom')
    <3>1. CASE OscDeinit("null", tx) /\ oom' = TRUE
      BY <3>1 DEF OscDeinit
    <3>2. CASE OscDeinit("live", "null") /\ oom' = TRUE
      BY <3>2 DEF OscDeinit
    <3>3. CASE OscDeinit("live", "live") /\ UNCHANGED oom
      BY <3>3 DEF OscDeinit
    <3>4. CASE UNCHANGED << oom, crashed >>
      BY <2>1, <3>4
    <3> QED
      BY <1>1, <3>1, <3>2, <3>3, <3>4 DEF OscInit
  <2>3. /\ rx' \in Pointer /\ tx' \in Pointer
        /\ \/ /\ rx' = "live" /\ tx' = "live" /\ sock' = "open" /\ mpc' = "ftdi"
           \/ /\ rx' # "live" /\ tx' # "live" /\ sock' = "closed" /\ mpc' = "check"
    BY <1>1, <2>1 DEF OscInit, OscDeinit, Freed
  <2> QED
    BY <1>1, <2>1, <2>2, <2>3 DEF OscInit, Alive, Frame, Bye
<1>2. CASE FtdiInit
  BY <1>2 DEF FtdiInit, FtdiUndone, OscDeinit, Freed
<1>3. CASE ThreadInit
  <2>1. CASE /\ bpc' = "status" /\ mpc' = "reset" /\ failed' = FALSE
             /\ UNCHANGED << rings, ftdi, crashed >>
    BY <1>3, <2>1 DEF ThreadInit, Alive, Frame, Bye
  <2>2. CASE OscDeinit(rx, tx) /\ ftdi' = "none" /\ mpc' = "check"
    BY <1>3, <2>2 DEF ThreadInit, OscDeinit, Freed, Alive, Frame, Bye
  <2> QED
    BY <1>3, <2>1, <2>2 DEF ThreadInit
<1>4. CASE Reset
  BY <1>4 DEF Reset
<1>5. CASE Serve
  BY <1>5 DEF Serve
<1>6. CASE Poll
  BY <1>6 DEF Poll
<1>7. CASE Join
  BY <1>7 DEF Join, Alive, Frame, Bye
<1>8. CASE Release
  <2>1. rx = "live" /\ tx = "live" /\ bpc = "none"
    BY <1>8 DEF Release
  <2>2. rx' = "dangling" /\ tx' = "dangling" /\ ~crashed' /\ crashed' \in BOOLEAN
    BY <1>8, <2>1 DEF Release, OscDeinit, Freed
  <2> QED
    BY <1>8, <2>1, <2>2 DEF Release, OscDeinit, Alive, Frame, Bye
<1>9. CASE Check
  BY <1>9 DEF Check
<1>10. CASE Sleep
  BY <1>10 DEF Sleep
<1> QED
  BY <1>1, <1>2, <1>3, <1>4, <1>5, <1>6, <1>7, <1>8, <1>9, <1>10 DEF Main

\* A message to the display leaves main's resources alone.
LEMMA XmitInv ==
  ASSUME IInv, NEW here \in Alive, NEW next \in Alive \cup {"ended"},
         NEW latched \in Picture, NEW output \in Picture,
         Xmit(here, next, latched, output),
         next = "byeoutput" => latched = "blank",
         next = "ended" =>
           here = "byeoutput" /\ latched = latch /\ output = latch
  PROVE  IInv'
<1>1. TypeOK'
  BY DEF IInv, TypeOK, Xmit, XmitFails, rings, display
<1>2. (mpc \in Running <=> bpc # "none")'
  BY DEF IInv, Xmit, BeatAt, Alive, Frame, Bye
<1>3. (handler = "beat" => bpc \in Alive)'
  BY DEF Xmit, BeatAt
<1>4. ((bpc \in {"byeoutput", "ended"} /\ ~failed) =>
         (latch = "blank" /\ (bpc = "ended" => shown = "blank")))'
  <2>1. CASE latch' = latched /\ shown' = output /\ UNCHANGED failed
    BY <2>1 DEF IInv, Xmit, BeatAt
  <2>2. CASE failed' = TRUE
    BY <2>2
  <2> QED
    BY <2>1, <2>2 DEF Xmit, XmitFails
<1> QED
  BY <1>1, <1>2, <1>3, <1>4 DEF IInv, Xmit, rings

\* The beat thread releases nothing, and darkens the display before it ends.
LEMMA BeatInv == ASSUME IInv, Beat PROVE IInv'
<1>1. latch \in Picture /\ shown \in Picture
  BY DEF IInv, TypeOK
<1>2. CASE Hello
  BY <1>1, <1>2, XmitInv DEF Hello, Alive
<1>3. CASE SendFrame
  <2>1. Frame \subseteq Alive
    BY DEF Alive
  <2>2. ASSUME NEW picture \in Picture, Xmit("outdat", "output", picture, shown)
        PROVE  IInv'
    BY <1>1, <2>1, <2>2, XmitInv DEF Frame
  <2>3. CASE Xmit("outset", "outdat", latch, shown)
    BY <1>1, <2>1, <2>3, XmitInv DEF Frame
  <2>4. CASE Xmit("output", "test", latch, latch)
    BY <1>1, <2>1, <2>4, XmitInv DEF Frame, Alive
  <2> QED
    BY <1>3, <2>2, <2>3, <2>4 DEF SendFrame, Picture
<1>4. CASE SayBye
  <2>1. Bye \subseteq Alive
    BY DEF Alive
  <2>2. CASE Xmit("byeoutset", "byeoutdat", latch, shown)
    BY <1>1, <2>1, <2>2, XmitInv DEF Bye
  <2>3. CASE Xmit("byeoutdat", "byeoutput", LastBitmap, shown)
    BY <1>1, <2>1, <2>3, XmitInv DEF Bye, LastBitmap, Picture
  <2>4. CASE Xmit("byeoutput", "ended", latch, latch)
    BY <1>1, <2>1, <2>4, XmitInv DEF Bye
  <2> QED
    BY <1>4, <2>2, <2>3, <2>4 DEF SayBye
<1>5. CASE BeatTest
  BY <1>5 DEF BeatTest, IInv, TypeOK, BeatAt, Alive, Frame, Bye, atomics,
              rings, display, history
<1>6. CASE BeatWait
  BY <1>6 DEF BeatWait, IInv, TypeOK, BeatAt, Alive, Frame, Bye, atomics,
              rings, display, history
<1>7. CASE BeatDrain
  BY <1>7 DEF BeatDrain, IInv, TypeOK, BeatAt, Alive, Frame, Bye, atomics,
              rings, display, history
<1> QED
  BY <1>2, <1>3, <1>4, <1>5, <1>6, <1>7 DEF Beat

\* The inductive invariant holds in every reachable state.
THEOREM Invariance == Spec => []IInv
<1>1. IInv /\ [Next]_vars => IInv'
  <2> SUFFICES ASSUME IInv, [Next]_vars PROVE IInv'
    OBVIOUS
  <2>1. CASE Terminated \/ UNCHANGED vars
    BY <2>1 DEF Terminated, vars, IInv, TypeOK
  <2> QED
    BY <2>1, MainInv, BeatInv, SignalInv DEF Next
<1> QED
  BY <1>1, InitInv, PTL DEF Spec

\* The beat thread never outlives the ring it drains or the handle it writes
\* to, for any number of signals and sessions.
THEOREM BeatOwnsItsResources == Spec => []BeatHasItsResources
<1>1. IInv => BeatHasItsResources
  BY DEF IInv, BeatHasItsResources, Alive, Frame, Bye, Connected, Running
<1> QED
  BY <1>1, Invariance, PTL

\* Every path out of a session releases everything it acquired.
THEOREM SessionsLeaveNothing == Spec => []NothingHeldBetweenSessions
<1>1. IInv => NothingHeldBetweenSessions
  BY DEF IInv, NothingHeldBetweenSessions, Connected, Running
<1> QED
  BY <1>1, Invariance, PTL

\* Rings are freed twice only after an allocation failed.
THEOREM SingleRelease == Spec => []NoDoubleRelease
<1>1. IInv => NoDoubleRelease
  BY DEF IInv, NoDoubleRelease
<1> QED
  BY <1>1, Invariance, PTL

\* A session whose messages all got through leaves the display dark.
THEOREM DisplayDark == Spec => []DarkAtTheEnd
<1>1. IInv => DarkAtTheEnd
  BY DEF IInv, DarkAtTheEnd
<1> QED
  BY <1>1, Invariance, PTL
=============================================================================
