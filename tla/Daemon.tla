------------------------------- MODULE Daemon -------------------------------
(***************************************************************************)
(* The life of monobusd: the main thread, which builds a session, polls    *)
(* the network and tears the session down; the beat thread, which talks to *)
(* the display; and the signal handler, which interrupts either of them.   *)
(* They share the atomics done and reconnect, the two rings and the FTDI   *)
(* handle.                                                                 *)
(*                                                                         *)
(* A step ends at every access to an atomic.  What main does on its own    *)
(* between two of them (building or releasing a session) is one step.      *)
(* The rings' contents are in Varchunk; here a ring is a pointer.          *)
(***************************************************************************)
EXTENDS Integers

CONSTANT
  MaxSignals   \* bound: how many signals are sent to the process

ASSUME MaxSignalsAssumption == MaxSignals \in Nat

VARIABLES
  mpc,            \* where main is, in main and _loop
  bpc,            \* where the beat thread is; "none": not created or joined
  handler,        \* the thread that runs _sig, between its two stores
  done, reconnect,
  rx, tx,         \* app.rb: null, live, or dangling after varchunk_free
  sock,           \* app.stream: static (zeroed), open or closed
  ftdi,           \* app.ftdi: none, ctx (initialised), open
  list,           \* app.list: is anything scheduled
  latch, shown,   \* the display: picture loaded by OUTDAT, picture shown
  signals,        \* signals sent so far
  asked,          \* history: a signal came while a session was up or ending
  failed,         \* history: an xmit failed in this session
  oom, crashed    \* history: an allocation failed; a pointer was freed twice

vars == << mpc, bpc, handler, done, reconnect, rx, tx, sock, ftdi, list,
           latch, shown, signals, asked, failed, oom, crashed >>
atomics == << done, reconnect >>
rings == << rx, tx, sock >>
display == << latch, shown >>
history == << signals, asked, failed, oom, crashed >>

Serving == {"serve", "poll"}
\* Where main still looks at what a signal stores.
Heeding == Serving \cup {"join", "release", "check"}
MainSteps == {"osc", "ftdi", "thread", "reset", "sleep", "exit"} \cup Heeding

Frame == {"outset", "outdat", "output"}
Bye == {"byeoutset", "byeoutdat", "byeoutput"}
Alive == {"status", "setup", "test", "wait", "drain"} \cup Frame \cup Bye

\* The globals are zeroed; -A sets reconnect; the display shows anything.
Init ==
  /\ mpc = "osc" /\ bpc = "none" /\ handler = "none"
  /\ done = FALSE /\ reconnect \in BOOLEAN
  /\ rx = "null" /\ tx = "null" /\ sock = "static" /\ ftdi = "none"
  /\ list = FALSE
  /\ latch \in {"blank", "picture"} /\ shown \in {"blank", "picture"}
  /\ signals = 0 /\ asked = FALSE /\ failed = FALSE
  /\ oom = FALSE /\ crashed = FALSE

-----------------------------------------------------------------------------
(***************************************************************************)
(* The signal handler.                                                     *)
(***************************************************************************)
\* The two stores of _sig; variant: the first is missing.
SigDoneOnly(n) == IF n = 1 THEN UNCHANGED atomics
                  ELSE done' = TRUE /\ UNCHANGED reconnect
Sig(n) == IF n = 1 THEN reconnect' = FALSE /\ UNCHANGED done
          ELSE done' = TRUE /\ UNCHANGED reconnect

\* A signal is delivered to a thread that exists, and interrupts it.
SignalArrives(thread) ==
  /\ handler = "none" /\ ~crashed /\ mpc # "exit"
  /\ thread = "beat" => bpc \in Alive
  /\ signals < MaxSignals
  /\ Sig(1)
  /\ handler' = thread
  /\ signals' = signals + 1
  /\ asked' = (asked \/ mpc \in Heeding)
  /\ UNCHANGED << mpc, bpc, rings, ftdi, list, display, failed, oom, crashed >>

SignalReturns ==
  /\ handler # "none"
  /\ Sig(2)
  /\ handler' = "none"
  /\ UNCHANGED << mpc, bpc, rings, ftdi, list, display, history >>

-----------------------------------------------------------------------------
(***************************************************************************)
(* The main thread.                                                        *)
(***************************************************************************)
MainAt(here) == mpc = here /\ handler # "main" /\ ~crashed

\* varchunk_free leaves the pointer as it is.
Freed(p) == IF p = "live" THEN "dangling" ELSE p

\* _osc_deinit, given the pointers it finds.
OscDeinit(r, t) ==
  /\ rx' = Freed(r) /\ tx' = Freed(t)
  /\ sock' = "closed"
  /\ crashed' = ("dangling" \in {r, t})

\* _osc_init: rx is allocated, then tx, then the stream is opened; after a
\* failure _osc_deinit runs on whatever the pointers are by then.
OscInit ==
  /\ MainAt("osc")
  /\ \/ /\ rx' = "live" /\ tx' = "live" /\ sock' = "open"
        /\ mpc' = "ftdi"
        /\ UNCHANGED << oom, crashed >>
     \/ /\ OscDeinit("null", tx)
        /\ mpc' = "check" /\ oom' = TRUE
     \/ /\ OscDeinit("live", "null")
        /\ mpc' = "check" /\ oom' = TRUE
     \/ /\ OscDeinit("live", "live")
        /\ mpc' = "check" /\ UNCHANGED oom
  /\ UNCHANGED << bpc, handler, atomics, ftdi, list, display, signals, asked,
                  failed >>

\* _ftdi_init undoes what it did before the call that failed; variant: it
\* returns as it is.
FtdiUndoneNot(stage) == stage
FtdiUndone(stage) == "none"

\* Variant: after undoing everything main falls through to the teardown.
FtdiInitFallsThrough ==
  /\ MainAt("ftdi")
  /\ \/ /\ ftdi' = "open"
        /\ mpc' = "thread"
        /\ UNCHANGED << rings, crashed >>
     \/ /\ ftdi' = "none"
        /\ OscDeinit(rx, tx)
        /\ mpc' = "release"
  /\ UNCHANGED << bpc, handler, atomics, list, display, signals, asked,
                  failed, oom >>
FtdiInit ==
  /\ MainAt("ftdi")
  /\ \/ /\ ftdi' = "open"
        /\ mpc' = "thread"
        /\ UNCHANGED << rings, crashed >>
     \/ \E stage \in {"none", "ctx", "open"} :
          /\ ftdi' = FtdiUndone(stage)
          /\ OscDeinit(rx, tx)
          /\ mpc' = "check"
  /\ UNCHANGED << bpc, handler, atomics, list, display, signals, asked,
                  failed, oom >>

ThreadInit ==
  /\ MainAt("thread")
  /\ \/ /\ bpc' = "status"
        /\ mpc' = "reset" /\ failed' = FALSE
        /\ UNCHANGED << rings, ftdi, crashed >>
     \/ /\ ftdi' = "none"
        /\ OscDeinit(rx, tx)
        /\ mpc' = "check"
        /\ UNCHANGED << bpc, failed >>
  /\ UNCHANGED << handler, atomics, list, display, signals, asked, oom >>

\* _loop resets done after the beat thread has been created.
Reset ==
  /\ MainAt("reset")
  /\ done' = FALSE
  /\ mpc' = "serve"
  /\ UNCHANGED << bpc, handler, reconnect, rings, ftdi, list, display, history >>

\* The test of the poll loop.
Serve ==
  /\ MainAt("serve")
  /\ mpc' = IF done THEN "join" ELSE "poll"
  /\ UNCHANGED << bpc, handler, atomics, rings, ftdi, list, display, history >>

\* lv2_osc_stream_pollin returns, after one second at the latest.
Poll ==
  /\ MainAt("poll")
  /\ mpc' = "serve"
  /\ UNCHANGED << bpc, handler, atomics, rings, ftdi, list, display, history >>

\* Variant: the session is released without waiting for the beat thread.
JoinNot ==
  /\ MainAt("join")
  /\ bpc' = bpc
  /\ mpc' = "release"
  /\ UNCHANGED << handler, atomics, rings, ftdi, list, display, history >>
Join ==
  /\ MainAt("join")
  /\ bpc = "ended"
  /\ bpc' = "none"
  /\ mpc' = "release"
  /\ UNCHANGED << handler, atomics, rings, ftdi, list, display, history >>

\* _sched_deinit, _ftdi_deinit, _osc_deinit.
Release ==
  /\ MainAt("release")
  /\ list' = FALSE
  /\ ftdi' = "none"
  /\ OscDeinit(rx, tx)
  /\ mpc' = "check"
  /\ UNCHANGED << bpc, handler, atomics, display, signals, asked, failed, oom >>

\* The test of the loop in main.
Check ==
  /\ MainAt("check")
  /\ mpc' = IF reconnect THEN "sleep" ELSE "exit"
  /\ UNCHANGED << bpc, handler, atomics, rings, ftdi, list, display, history >>

Sleep ==
  /\ MainAt("sleep")
  /\ mpc' = "osc"
  /\ UNCHANGED << bpc, handler, atomics, rings, ftdi, list, display, history >>

-----------------------------------------------------------------------------
(***************************************************************************)
(* The beat thread.                                                        *)
(***************************************************************************)
BeatAt(here) == bpc = here /\ handler # "beat" /\ ~crashed

\* A failed _ftdi_xmit sets done, and the thread goes on to the next step.
XmitFails == failed' = TRUE /\ done' = TRUE

\* _ftdi_xmit at "here": the display gets the message, or it does not.
Xmit(here, next, latched, output) ==
  /\ BeatAt(here)
  /\ bpc' = next
  /\ \/ /\ latch' = latched /\ shown' = output
        /\ UNCHANGED << done, failed >>
     \/ XmitFails /\ UNCHANGED display
  /\ UNCHANGED << mpc, handler, reconnect, rings, ftdi, list, signals, asked,
                  oom, crashed >>

Hello ==
  \/ Xmit("status", "setup", latch, shown)
  \/ Xmit("setup", "test", latch, shown)

\* Variant: the loop is left for a signal only.
BeatTestSignal ==
  /\ BeatAt("test")
  /\ bpc' = IF done /\ ~reconnect THEN "byeoutset" ELSE "wait"
  /\ UNCHANGED << mpc, handler, atomics, rings, ftdi, list, display, history >>
BeatTest ==
  /\ BeatAt("test")
  /\ bpc' = IF done THEN "byeoutset" ELSE "wait"
  /\ UNCHANGED << mpc, handler, atomics, rings, ftdi, list, display, history >>

BeatWait ==
  /\ BeatAt("wait")
  /\ bpc' = "drain"
  /\ UNCHANGED << mpc, handler, atomics, rings, ftdi, list, display, history >>

\* The ring is drained and the schedule served: what is due leaves the list,
\* what is for later enters it.
BeatDrain ==
  /\ BeatAt("drain")
  /\ bpc' = "outset"
  /\ list' \in BOOLEAN
  /\ UNCHANGED << mpc, handler, atomics, rings, ftdi, display, history >>

SendFrame ==
  \/ Xmit("outset", "outdat", latch, shown)
  \/ \E picture \in {"picture", "blank"} :
       Xmit("outdat", "output", picture, shown)
  \/ Xmit("output", "test", latch, latch)

\* The bitmap is cleared before it is sent for the last time; variant: it is
\* sent as the last frame left it.
LastBitmapKept == "picture"
LastBitmap == "blank"

SayBye ==
  \/ Xmit("byeoutset", "byeoutdat", latch, shown)
  \/ Xmit("byeoutdat", "byeoutput", LastBitmap, shown)
  \/ Xmit("byeoutput", "ended", latch, latch)

-----------------------------------------------------------------------------
Main == \/ OscInit \/ FtdiInit \/ ThreadInit \/ Reset \/ Serve \/ Poll \/ Join
        \/ Release \/ Check \/ Sleep

Beat == Hello \/ BeatTest \/ BeatWait \/ BeatDrain \/ SendFrame \/ SayBye

\* The process is gone.
Terminated == (mpc = "exit" \/ crashed) /\ UNCHANGED vars

Next == \/ Main
        \/ Beat
        \/ \E thread \in {"main", "beat"} : SignalArrives(thread)
        \/ SignalReturns
        \/ Terminated

Spec == Init /\ [][Next]_vars

\* Polls and sleeps time out and the handler returns, so that each of the
\* three keeps moving.
FairSpec == Spec /\ WF_vars(Main) /\ WF_vars(Beat) /\ WF_vars(SignalReturns)
-----------------------------------------------------------------------------
(***************************************************************************)
(* Properties.                                                             *)
(***************************************************************************)
Pointer == {"null", "live", "dangling"}
Picture == {"blank", "picture"}

TypeOK ==
  /\ mpc \in MainSteps /\ bpc \in Alive \cup {"none", "ended"}
  /\ handler \in {"none", "main", "beat"}
  /\ done \in BOOLEAN /\ reconnect \in BOOLEAN
  /\ rx \in Pointer /\ tx \in Pointer
  /\ sock \in {"static", "open", "closed"} /\ ftdi \in {"none", "ctx", "open"}
  /\ list \in BOOLEAN
  /\ latch \in Picture /\ shown \in Picture
  /\ signals \in 0 .. MaxSignals
  /\ asked \in BOOLEAN /\ failed \in BOOLEAN
  /\ oom \in BOOLEAN /\ crashed \in BOOLEAN

\* As long as the beat thread can take a step, the ring it drains and the
\* handle it writes to have not been released, whichever way the session
\* came to its end.
BeatHasItsResources ==
  bpc \in Alive => rx = "live" /\ ftdi = "open"

\* Between two sessions and after the last one nothing is held: every path
\* out of _loop releases the rings, the socket, the FTDI handle and the
\* schedule, and leaves no thread behind.
NothingHeldBetweenSessions ==
  mpc \in {"sleep", "exit"} =>
    /\ rx # "live" /\ tx # "live" /\ sock # "open"
    /\ ftdi = "none" /\ ~list /\ bpc = "none"

\* No ring is freed twice, except when memory has run out: _osc_deinit leaves
\* the pointers of the last session behind, and _osc_init calls it with the
\* old tx when the new rx cannot be allocated.
NoDoubleRelease == crashed => oom

\* If every message of a session got through, the display is dark when the
\* beat thread ends, whatever the last frame showed.
DarkAtTheEnd == bpc = "ended" /\ ~failed => shown = "blank"

\* Once main polls with done set, by a signal or by a failed xmit, the session
\* ends: the beat thread comes to its end and main gets past the join.
StopEndsSession ==
  (mpc \in Serving /\ done) ~> (mpc \in {"sleep", "exit"})

\* A signal that comes while a session is up or being torn down ends the
\* daemon, even with -A, and even if it is handled on the beat thread while
\* main runs on.
SignalHeeded == asked ~> (mpc = "exit")

\* What the comments at the failing xmits and the manual page promise: after
\* a failed xmit the session ends (and is built again with -A).
XmitFailureEndsSession == failed ~> (mpc \in {"sleep", "exit"})

-----------------------------------------------------------------------------
(***************************************************************************)
(* The inductive invariant behind the safety properties.                   *)
(***************************************************************************)
Connected == {"thread", "reset", "serve", "poll", "join", "release"}
Running == {"reset", "serve", "poll", "join"}

IInv ==
  /\ TypeOK
  /\ mpc \in Connected \cup {"ftdi"} =>
       rx = "live" /\ tx = "live" /\ sock = "open"
  /\ mpc \notin Connected \cup {"ftdi"} =>
       rx # "live" /\ tx # "live" /\ sock # "open"
  /\ IF mpc \in Connected THEN ftdi = "open" ELSE ftdi = "none"
  /\ mpc \in Running <=> bpc # "none"
  /\ list => mpc \in Running \cup {"release"}
  /\ handler = "beat" => bpc \in Alive
  /\ crashed => oom
  /\ (bpc \in {"byeoutput", "ended"} /\ ~failed) =>
       (latch = "blank" /\ (bpc = "ended" => shown = "blank"))
=============================================================================
