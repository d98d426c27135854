-------------------------------- MODULE Beat --------------------------------
(***************************************************************************)
(* The beat thread of monobusd in time: it wakes once per frame, drains    *)
(* the ring, serves the messages scheduled for later, and transmits the    *)
(* frame, which takes its time as the display's bus is half duplex.        *)
(*                                                                         *)
(* Times are relative to the time of the current beat (the variable to of  *)
(* _beat): late is how far the clock is past it, and a scheduled message   *)
(* has so much time left until it is due, and its tag is so far ahead.     *)
(* The frame that darkens the display at the end of a session, and a done  *)
(* that main overwrites, are left to the module Daemon.                    *)
(***************************************************************************)
EXTENDS Integers, Sequences

CONSTANTS
  Second,                \* units of time in a second
  Step,                  \* the time between two beats: step_ns
  XmitMin, XmitMax,      \* how long a transmission takes
  Delays,                \* how far ahead messages are scheduled
  MaxList                \* bound: messages scheduled at a time

ASSUME SecondAssumption == Second \in Nat \ {0}
ASSUME StepAssumption == Step \in 1 .. Second      \* a frame a second, at least
ASSUME XmitAssumption == XmitMin \in Nat /\ XmitMax \in Nat /\ XmitMin <= XmitMax
ASSUME DelaysAssumption == Delays \subseteq Int
ASSUME MaxListAssumption == MaxList \in Nat

VARIABLES
  pc,      \* where the beat thread is
  late,    \* the clock, relative to the beat
  phase,   \* the beat, relative to the last full second: to.tv_nsec
  done,    \* the atomic; set by a signal, for example
  woken,   \* a signal has cut the sleep before this beat short
  list,    \* app.list: scheduled messages
  probe    \* history: one message that is followed: "none", "waiting",
           \* "handled", "early": handled before it may be (Early), "freed"

vars == << pc, late, phase, done, woken, list, probe >>

\* tag is history: left is all that the code knows of it.
Message == [left : Int, nsec : {0}, tag : Int, probe : BOOLEAN]

\* The first beat is at the next full second.
Init ==
  /\ pc = "status" /\ late \in -Second .. -1 /\ phase = 0
  /\ done = FALSE /\ woken = FALSE /\ list = << >> /\ probe = "none"

-----------------------------------------------------------------------------
(***************************************************************************)
(* Transmissions.                                                          *)
(***************************************************************************)
\* Writing takes no time to speak of, the wait for the answer behind it does.
Xmit(here, next) ==
  /\ pc = here /\ pc' = next
  /\ \E d \in XmitMin .. XmitMax : late' = late + d
  /\ UNCHANGED << phase, done, woken, list, probe >>

Hello == Xmit("status", "setup") \/ Xmit("setup", "test")

SendFrame == Xmit("outset", "outdat") \/ Xmit("outdat", "output")
               \/ Xmit("output", "advance")

\* The message, by that much closer to its time.
Sooner(m, time) == [m EXCEPT !.left = @ - time, !.tag = @ - time]

\* The next beat, and a message has less time left then.  Variant: beats
\* at twice the rate.
AdvanceHalf ==
  /\ pc = "advance" /\ pc' = "test"
  /\ late' = late - (Step \div 2)
  /\ phase' = (phase + (Step \div 2)) % Second
  /\ list' = [i \in DOMAIN list |-> Sooner(list[i], Step \div 2)]
  /\ UNCHANGED << done, woken, probe >>
Advance ==
  /\ pc = "advance" /\ pc' = "test"
  /\ late' = late - Step
  /\ phase' = (phase + Step) % Second
  /\ list' = [i \in DOMAIN list |-> Sooner(list[i], Step)]
  /\ UNCHANGED << done, woken, probe >>

-----------------------------------------------------------------------------
(***************************************************************************)
(* The loop.                                                               *)
(***************************************************************************)
Test ==
  /\ pc = "test"
  /\ pc' = IF done THEN "ended" ELSE "wait"
  /\ UNCHANGED << late, phase, done, woken, list, probe >>

\* clock_nanosleep until the beat, or not at all if that has passed; a signal
\* cuts it short, and its result is never -1.
Wait ==
  /\ pc = "wait" /\ pc' = "drain"
  /\ late' = IF late < 0 THEN 0 ELSE late
  /\ woken' = FALSE
  /\ UNCHANGED << phase, done, list, probe >>
WokenEarly ==
  /\ pc = "wait" /\ pc' = "drain"
  /\ done /\ late < 0
  /\ woken' = TRUE
  /\ UNCHANGED << late, phase, done, list, probe >>

\* The condition of _sched_append: nsec is always 0, as (timetag && 32) is at
\* most 1, of 2^32 parts of a second.
Behind(e, m) == e.left > m.left /\ e.nsec > m.nsec
\* Variant: the new element is returned for the list, though it is the last.
InsertAsList(m) == << m >>
Insert(m) ==
  LET later == {i \in DOMAIN list : Behind(list[i], m)}
      place == IF later = {} THEN Len(list) + 1
               ELSE CHOOSE i \in later : \A j \in later : i <= j
  IN  SubSeq(list, 1, place - 1) \o << m >> \o SubSeq(list, place, Len(list))

\* The time tag loses its fraction: a message is due at the full second.
Due(delay) == delay - ((phase + delay) % Second)

\* A message for later, from the ring; without memory it is dropped, and one
\* to be handled at once changes nothing here.
Schedule(delay, isProbe) ==
  /\ pc = "drain" /\ Len(list) < MaxList
  /\ isProbe => probe = "none"
  /\ list' = Insert([left |-> Due(delay), nsec |-> 0, tag |-> delay, probe |-> isProbe])
  /\ probe' = IF isProbe THEN "waiting" ELSE probe
  /\ UNCHANGED << pc, late, phase, done, woken >>

Drained ==
  /\ pc = "drain" /\ pc' = "serve"
  /\ UNCHANGED << late, phase, done, woken, list, probe >>

\* The head of the list is due.  Variant: at the next beat.
HeadDueNext == list # << >> /\ list[1].left <= Step
HeadDue == list # << >> /\ list[1].left <= 0

\* History: not yet in the second of m's tag, or more than that ahead of it: a
\* second, for the fraction that is lost, and one more when a signal has ended
\* the sleep, as the sleep is no longer.
Early(m) ==
  \/ ~woken /\ late < m.left
  \/ late + (IF woken THEN 2 ELSE 1) * Second <= m.tag

Serve ==
  /\ pc = "serve" /\ HeadDue
  /\ list' = Tail(list)
  /\ probe' = IF ~list[1].probe THEN probe
              ELSE IF Early(list[1]) THEN "early" ELSE "handled"
  /\ UNCHANGED << pc, late, phase, done, woken >>

Served ==
  /\ pc = "serve" /\ ~HeadDue
  /\ pc' = "outset"
  /\ UNCHANGED << late, phase, done, woken, list, probe >>

\* The session is over: _sched_deinit frees what is left of the list.
Release ==
  /\ pc = "ended" /\ pc' = "over"
  /\ list' = << >>
  /\ probe' = IF probe = "waiting" THEN "freed" ELSE probe
  /\ UNCHANGED << late, phase, done, woken >>

Stop ==
  /\ pc # "over" /\ ~done
  /\ done' = TRUE
  /\ UNCHANGED << pc, late, phase, woken, list, probe >>

Over == pc = "over" /\ UNCHANGED vars

Thread == \/ Hello \/ SendFrame \/ Advance \/ Test \/ Wait \/ WokenEarly
          \/ Drained \/ Serve \/ Served \/ Release

Next ==
  \/ Thread \/ Stop \/ Over
  \/ \E delay \in Delays, isProbe \in BOOLEAN : Schedule(delay, isProbe)

Spec == Init /\ [][Next]_vars

\* The thread runs, and the ring is empty at some point of every drain.
FairSpec == Spec /\ WF_vars(Thread)
-----------------------------------------------------------------------------
(***************************************************************************)
(* Properties.                                                             *)
(***************************************************************************)
TypeOK ==
  /\ pc \in {"status", "setup", "test", "wait", "drain", "serve", "outset",
             "outdat", "output", "advance", "ended", "over"}
  /\ late \in Int /\ phase \in 0 .. Second - 1 /\ done \in BOOLEAN /\ woken \in BOOLEAN
  /\ list \in Seq(Message)
  /\ probe \in {"none", "waiting", "handled", "early", "freed"}

\* A frame is never further behind its beat than the two transmissions in
\* front of the first beat can bring it, however long the thread runs: what
\* one frame loses is not added to what the next one loses.
KeepsPace == pc = "drain" => late <= 2 * XmitMax

\* A scheduled message is handled less than a second before the time in its tag,
\* though the code has lost the fraction, and never before the second in it: a
\* signal that ends the sleep before the last frame makes that less than two
\* seconds, and no more, as every frame is served for its beat, not for the clock.
NotEarly == probe # "early"

\* Every message scheduled for later is handled in the end, whatever else is
\* scheduled after it, unless the session ends first.
EveryMessageHandled == (probe = "waiting") ~> (probe \in {"handled", "freed"})

-----------------------------------------------------------------------------
\* What pace and punctuality rest on: how late the clock can be at each step.
LateAt ==
  /\ pc = "status" => late <= 0
  /\ pc = "setup" => late <= XmitMax
  /\ pc \in {"test", "wait", "drain", "serve", "outset"} => late <= 2 * XmitMax
  /\ pc = "outdat" => late <= 3 * XmitMax
  /\ pc = "output" => late <= 4 * XmitMax
  /\ pc = "advance" => late <= 5 * XmitMax

\* And how early: without a signal a frame is not ahead of its beat, and no sleep
\* is longer than a second, the first one's.
Punctual ==
  /\ pc \in {"drain", "serve", "outset", "outdat", "output", "advance"} /\ ~woken =>
       late >= 0
  /\ ~woken \/ pc \in {"drain", "serve"} => late >= -Second
  /\ woken => done /\ pc # "wait"

\* What is known of a tag.
Truncated ==
  \A i \in DOMAIN list : list[i].left <= list[i].tag /\ list[i].tag < list[i].left + Second

IInv == TypeOK /\ LateAt /\ Punctual /\ Truncated /\ NotEarly
=============================================================================
