----------------------------- MODULE BeatProofs -----------------------------
(***************************************************************************)
(* Proofs about the beat thread in time, for every frame rate at which the *)
(* three transmissions of a frame fit between two beats.                   *)
(***************************************************************************)
EXTENDS Beat, TLAPS

USE SecondAssumption, StepAssumption, XmitAssumption, DelaysAssumption

\* The list of scheduled messages is never sorted: as the condition of
\* _sched_append does not hold, whatever is inserted comes last.
LEMMA InsertAppends ==
  ASSUME list \in Seq(Message), NEW m \in Message
  PROVE  Insert(m) = Append(list, m)
<1>1. {i \in DOMAIN list : Behind(list[i], m)} = {}
  <2>1. ASSUME NEW i \in DOMAIN list PROVE ~Behind(list[i], m)
    <3>1. list[i] \in Message OBVIOUS
    <3> QED BY <3>1 DEF Behind, Message
  <2> QED BY <2>1
<1>2. Insert(m) = SubSeq(list, 1, Len(list)) \o << m >>
                    \o SubSeq(list, Len(list) + 1, Len(list))
  BY <1>1 DEF Insert
<1>3. SubSeq(list, 1, Len(list)) = list OBVIOUS
<1>4. SubSeq(list, Len(list) + 1, Len(list)) = << >> OBVIOUS
<1>5. list \o << m >> \o << >> = Append(list, m) OBVIOUS
<1> QED BY <1>2, <1>3, <1>4, <1>5

\* The second a time tag names is less than a second in front of what it says.
LEMMA DueIs ==
  ASSUME phase \in 0 .. Second - 1, NEW delay \in Delays
  PROVE  Due(delay) \in Int /\ Due(delay) <= delay /\ delay < Due(delay) + Second
<1>1. (phase + delay) % Second \in 0 .. Second - 1 OBVIOUS
<1>2. delay \in Int OBVIOUS
<1> QED BY <1>1, <1>2 DEF Due

\* A beat later each message is due a beat sooner, and so is its tag.
LEMMA SoonerIsList ==
  ASSUME list \in Seq(Message), Truncated,
         NEW l, l = [i \in DOMAIN list |-> Sooner(list[i], Step)]
  PROVE  /\ l \in Seq(Message)
         /\ \A i \in DOMAIN l : l[i].left <= l[i].tag /\ l[i].tag < l[i].left + Second
<1>1. ASSUME NEW i \in DOMAIN list
      PROVE  /\ Sooner(list[i], Step) \in Message
             /\ Sooner(list[i], Step).left <= Sooner(list[i], Step).tag
             /\ Sooner(list[i], Step).tag < Sooner(list[i], Step).left + Second
  <2>1. list[i] \in Message OBVIOUS
  <2> DEFINE m == list[i]
  <2>2. m \in Message /\ m.left <= m.tag /\ m.tag < m.left + Second BY <2>1 DEF Truncated
  <2> HIDE DEF m
  <2>3. m.left \in Int /\ m.tag \in Int BY <2>2 DEF Message
  <2> DEFINE a == m.left - Step
             t == m.tag - Step
             k == [m EXCEPT !.left = a]
  <2>4. Sooner(m, Step) = [k EXCEPT !.tag = t] BY <2>2 DEF Message, Sooner
  <2>5. a \in Int /\ t \in Int /\ a <= t /\ t < a + Second BY <2>2, <2>3
  <2> HIDE DEF a, t
  <2>6. k \in Message /\ k.left = a BY <2>2, <2>5 DEF Message
  <2> HIDE DEF k
  <2>7. Sooner(m, Step) \in Message BY <2>4, <2>5, <2>6 DEF Message
  <2>8. Sooner(m, Step).left = a BY <2>4, <2>6 DEF Message
  <2>9. Sooner(m, Step).tag = t BY <2>4, <2>6 DEF Message
  <2> QED BY <2>5, <2>7, <2>8, <2>9 DEF m
<1>2. DOMAIN list = 1 .. Len(list) /\ Len(list) \in Nat OBVIOUS
<1>3. DOMAIN l = DOMAIN list /\ \A i \in DOMAIN list : l[i] = Sooner(list[i], Step) OBVIOUS
<1>4. l \in Seq(Message) BY <1>1, <1>2
<1> QED BY <1>1, <1>3, <1>4

-----------------------------------------------------------------------------
LEMMA InitInv == Init => IInv
<1> SUFFICES ASSUME Init PROVE IInv OBVIOUS
<1>1. TypeOK
  <2>1. late \in Int /\ phase \in 0 .. Second - 1 BY DEF Init
  <2>2. list \in Seq(Message) BY DEF Init
  <2> QED BY <2>1, <2>2 DEF Init, TypeOK
<1>2. LateAt
  <2>1. pc = "status" /\ late <= 0 BY DEF Init
  <2> QED BY <2>1 DEF LateAt
<1>3. Punctual
  <2>1. late \in -Second .. -1 /\ pc = "status" /\ ~woken BY DEF Init
  <2> QED BY <2>1 DEF Punctual
<1>4. Truncated /\ NotEarly
  <2>1. DOMAIN << >> = {} OBVIOUS
  <2> QED BY <2>1 DEF Init, Truncated, NotEarly
<1> QED BY <1>1, <1>2, <1>3, <1>4 DEF IInv

\* A transmission delays the clock by XmitMax at most.
LEMMA XmitInv ==
  ASSUME IInv, Hello \/ SendFrame PROVE IInv'
<1> USE DEF IInv, TypeOK
<1>1. PICK d \in XmitMin .. XmitMax : late' = late + d
  BY DEF Hello, SendFrame, Xmit
<1>2. /\ late' \in Int /\ late' <= late + XmitMax /\ late <= late'
      /\ UNCHANGED << phase, done, woken, list, probe >>
  BY <1>1 DEF Hello, SendFrame, Xmit
<1>3. \/ pc = "status" /\ pc' = "setup"
      \/ pc = "setup" /\ pc' = "test"
      \/ pc = "outset" /\ pc' = "outdat"
      \/ pc = "outdat" /\ pc' = "output"
      \/ pc = "output" /\ pc' = "advance"
  BY DEF Hello, SendFrame, Xmit
<1>4. TypeOK' BY <1>2, <1>3
<1>5. LateAt' BY <1>2, <1>3 DEF LateAt
<1>6. Punctual' BY <1>2, <1>3 DEF Punctual
<1>7. Truncated' /\ NotEarly' BY <1>2 DEF Truncated, NotEarly
<1> QED BY <1>4, <1>5, <1>6, <1>7

\* What was lost on the beat is made up for until the next one: there is
\* time for three transmissions.
LEMMA AdvanceInv ==
  ASSUME 3 * XmitMax <= Step, IInv, Advance PROVE IInv'
<1> USE DEF IInv, TypeOK, Advance
<1>1. late' = late - Step /\ late <= 5 * XmitMax /\ late \in Int
  BY DEF LateAt
<1>2. late' \in Int /\ late' <= 2 * XmitMax BY <1>1
<1>3. phase' \in 0 .. Second - 1 OBVIOUS
<1>4. list' \in Seq(Message) /\ Truncated' BY SoonerIsList DEF Truncated
<1>5. TypeOK' BY <1>2, <1>3, <1>4
<1>6. LateAt' BY <1>2 DEF LateAt
<1>7. Punctual'
  <2>1. ~woken => late' >= -Second BY <1>1 DEF Punctual
  <2> QED BY <2>1 DEF Punctual
<1>8. NotEarly' BY DEF NotEarly
<1> QED BY <1>4, <1>5, <1>6, <1>7, <1>8

\* The other steps of the thread and those of its surroundings.
LEMMA OtherInv ==
  ASSUME IInv,
         \/ Test \/ Wait \/ WokenEarly \/ Drained \/ Serve \/ Served
         \/ Release \/ Stop \/ Over
         \/ \E delay \in Delays, isProbe \in BOOLEAN : Schedule(delay, isProbe)
  PROVE  IInv'
<1> USE DEF IInv, TypeOK
<1>1. CASE Test
  <2>1. TypeOK' BY <1>1 DEF Test
  <2>2. LateAt' BY <1>1 DEF Test, LateAt
  <2>3. Punctual' /\ Truncated' /\ NotEarly' BY <1>1 DEF Test, Punctual, Truncated, NotEarly
  <2> QED BY <2>1, <2>2, <2>3
<1>2. CASE Wait
  <2>0. late' \in Int BY <1>2 DEF Wait
  <2>1. TypeOK'
    <3>1. pc' = "drain" /\ woken' = FALSE BY <1>2 DEF Wait
    <3>2. UNCHANGED << phase, done, list, probe >> BY <1>2 DEF Wait
    <3> QED BY <2>0, <3>1, <3>2
  <2>2. LateAt' BY <1>2 DEF Wait, LateAt
  <2>3. Punctual' /\ Truncated' /\ NotEarly' BY <1>2 DEF Wait, Punctual, Truncated, NotEarly
  <2> QED BY <2>1, <2>2, <2>3
<1>3. CASE WokenEarly
  <2>1. TypeOK' BY <1>3 DEF WokenEarly
  <2>2. LateAt' BY <1>3 DEF WokenEarly, LateAt
  <2>3. Punctual' /\ Truncated' /\ NotEarly' BY <1>3 DEF WokenEarly, Punctual, Truncated, NotEarly
  <2> QED BY <2>1, <2>2, <2>3
<1>4. CASE Drained
  <2>1. TypeOK' BY <1>4 DEF Drained
  <2>2. LateAt' BY <1>4 DEF Drained, LateAt
  <2>3. Punctual' /\ Truncated' /\ NotEarly' BY <1>4 DEF Drained, Punctual, Truncated, NotEarly
  <2> QED BY <2>1, <2>2, <2>3
<1>5. CASE Serve
  <2>1. /\ list # << >> /\ list[1].left <= 0 /\ list[1] \in Message
        /\ Tail(list) \in Seq(Message)
    BY <1>5 DEF Serve, HeadDue
  <2>2. /\ list[1].left \in Int /\ list[1].tag \in Int
        /\ list[1].tag < list[1].left + Second /\ 1 \in DOMAIN list
    <3>1. 1 \in DOMAIN list BY <2>1
    <3> QED BY <2>1, <3>1 DEF Message, Truncated
  <2>3. late \in Int /\ late >= -Second /\ (~woken => late >= 0) BY <1>5 DEF Serve, Punctual
  <2>4. ~Early(list[1])
    <3>1. list[1].tag < Second BY <2>1, <2>2
    <3>2. CASE woken BY <2>2, <2>3, <3>1, <3>2 DEF Early
    <3>3. CASE ~woken BY <2>1, <2>2, <2>3, <3>1, <3>3 DEF Early
    <3> QED BY <3>2, <3>3
  <2>5. probe' = probe \/ probe' = "handled" BY <1>5, <2>4 DEF Serve
  <2>6. TypeOK' BY <1>5, <2>1, <2>5 DEF Serve
  <2>7. LateAt' BY <1>5 DEF Serve, LateAt
  <2>8. Punctual' BY <1>5 DEF Serve, Punctual
  <2>9. NotEarly' BY <2>5 DEF NotEarly
  <2>10. Truncated'
    <3>1. list' = Tail(list) BY <1>5 DEF Serve
    <3>2. \A i \in DOMAIN Tail(list) : i + 1 \in DOMAIN list /\ Tail(list)[i] = list[i + 1]
      BY <2>1
    <3> QED BY <3>1, <3>2 DEF Truncated
  <2> QED BY <2>6, <2>7, <2>8, <2>9, <2>10
<1>6. CASE Served
  <2>1. TypeOK' BY <1>6 DEF Served
  <2>2. LateAt' BY <1>6 DEF Served, LateAt
  <2>3. Punctual' /\ Truncated' /\ NotEarly' BY <1>6 DEF Served, Punctual, Truncated, NotEarly
  <2> QED BY <2>1, <2>2, <2>3
<1>7. CASE Release
  <2>1. TypeOK' BY <1>7 DEF Release
  <2>2. LateAt' BY <1>7 DEF Release, LateAt
  <2>3. Punctual' /\ NotEarly' BY <1>7 DEF Release, Punctual, NotEarly
  <2>4. DOMAIN << >> = {} OBVIOUS
  <2>5. Truncated' BY <1>7, <2>4 DEF Release, Truncated
  <2> QED BY <2>1, <2>2, <2>3, <2>5
<1>8. CASE Stop
  <2>1. TypeOK' BY <1>8 DEF Stop
  <2>2. LateAt' BY <1>8 DEF Stop, LateAt
  <2>3. Punctual' /\ Truncated' /\ NotEarly' BY <1>8 DEF Stop, Punctual, Truncated, NotEarly
  <2> QED BY <2>1, <2>2, <2>3
<1>9. CASE Over
  BY <1>9 DEF Over, vars, LateAt, Punctual, Truncated, NotEarly
<1>10. ASSUME NEW delay \in Delays, NEW isProbe \in BOOLEAN,
              Schedule(delay, isProbe)
       PROVE  IInv'
  <2> DEFINE m == [left |-> Due(delay), nsec |-> 0, tag |-> delay, probe |-> isProbe]
  <2>1. m \in Message /\ m.left <= m.tag /\ m.tag < m.left + Second BY DueIs DEF Message
  <2>2. list' = Append(list, m) BY <1>10, <2>1, InsertAppends DEF Schedule
  <2> HIDE DEF m
  <2>3. list' \in Seq(Message) BY <2>1, <2>2
  <2>4. /\ UNCHANGED << pc, late, phase, done, woken >>
        /\ probe' = probe \/ probe' = "waiting"
    BY <1>10 DEF Schedule
  <2>5. TypeOK' BY <2>3, <2>4
  <2>6. LateAt' BY <2>4 DEF LateAt
  <2>7. Punctual' /\ NotEarly' BY <2>4 DEF Punctual, NotEarly
  <2>8. Truncated'
    <3>1. \A i \in DOMAIN Append(list, m) :
            IF i \in DOMAIN list THEN Append(list, m)[i] = list[i] ELSE Append(list, m)[i] = m
      BY <2>1
    <3> QED BY <2>1, <2>2, <3>1 DEF Truncated
  <2> QED BY <2>5, <2>6, <2>7, <2>8
<1> QED BY <1>1, <1>2, <1>3, <1>4, <1>5, <1>6, <1>7, <1>8, <1>9, <1>10

LEMMA NextInv ==
  ASSUME 3 * XmitMax <= Step, IInv, [Next]_vars PROVE IInv'
<1>1. CASE Next BY <1>1, XmitInv, AdvanceInv, OtherInv DEF Next, Thread
<1>2. CASE UNCHANGED vars
  BY <1>2 DEF vars, IInv, TypeOK, LateAt, Punctual, Truncated, NotEarly
<1> QED BY <1>1, <1>2

\* The invariant the properties rest on: how late the clock can be at each
\* step of a frame, where the frame leaves room for its three transmissions.
THEOREM Invariance ==
  ASSUME 3 * XmitMax <= Step PROVE Spec => []IInv
<1>1. Init => IInv BY InitInv
<1>2. IInv /\ [Next]_vars => IInv' BY NextInv
<1> QED BY <1>1, <1>2, PTL DEF Spec

\* However long the display is driven, a frame is never further behind its
\* beat than the two transmissions before the first one.
THEOREM PaceKept ==
  ASSUME 3 * XmitMax <= Step PROVE Spec => []KeepsPace
<1>1. IInv => KeepsPace BY DEF IInv, LateAt, KeepsPace
<1> QED BY <1>1, Invariance, PTL

\* _beat (monobusd.c 500-619) never handles a scheduled message ahead of the second
\* in its time tag, nor a second or more ahead of the tag itself, of which
\* _handle_osc_packet has lost the fraction (203); and if a signal has ended its
\* sleep, not two seconds or more.
THEOREM NeverEarly ==
  ASSUME 3 * XmitMax <= Step PROVE Spec => []NotEarly
<1>1. IInv => NotEarly BY DEF IInv
<1> QED BY <1>1, Invariance, PTL
=============================================================================
