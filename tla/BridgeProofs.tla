---------------------------- MODULE BridgeProofs ----------------------------
(***************************************************************************)
(* The invariant of the system from end to end, and that it implements     *)
(* Mirror, for any clients, messages, rooms and bounds.                    *)
(***************************************************************************)
EXTENDS Bridge, SequenceTheorems, TLAPS

LEMMA Messages ==
  /\ None \notin Message
  /\ \A m \in Message : m.prio \in Prio /\ m.ink \in Ink
BY MessageAssumption

-----------------------------------------------------------------------------
(***************************************************************************)
(* The invariant, part by part.                                            *)
(***************************************************************************)
LEMMA InitInv == Init => IInv
<1> SUFFICES ASSUME Init PROVE IInv
  OBVIOUS
<1>1. /\ Len(<< >>) = 0 /\ << >> \in Seq(Message)
  OBVIOUS
<1>2. layer = [p \in Prio |-> [px \in L!Pixel |-> "clear"]]
  BY DEF Init, L!Init, L!Prio, Prio
<1>3. OutsideOK
  BY BoundAssumption DEF Init, OutsideOK
<1>4. MainOK
  BY <1>1, RoomAssumption DEF Init, MainOK
<1>5. BeatOK
  <2>1. beat = "hello" /\ shown = FALSE /\ done = FALSE /\ failures = 0 /\ due = 0
    BY DEF Init
  <2>2. 0 \in 0 .. MaxFailures /\ 0 \in Nat
    BY BoundAssumption
  <2>. QED
    BY <2>1, <2>2 DEF BeatOK
<1>6. CanvasOK
  BY <1>1, <1>2 DEF Init, CanvasOK, Ink
<1>7. RingOK
  BY <1>1, RoomAssumption DEF Init, RingOK
<1>8. Drawn
  BY <1>1, <1>2 DEF Init, Drawn
<1>9. Written
  BY DEF Init, Written
<1>. QED
  BY <1>3, <1>4, <1>5, <1>6, <1>7, <1>8, <1>9
     DEF Init, IInv, TypeOK, Reserved, InHand, Alone, Counted

\* Clients and the network leave the daemon alone, but for the socket.
LEMMA OutsideStep ==
  ASSUME IInv, Clients \/ Network
  PROVE  OutsideOK' /\ Written'
<1>1. ASSUME NEW c \in Client, Build(c) PROVE OutsideOK' /\ Written'
  BY <1>1, Messages DEF Build, IInv, TypeOK, OutsideOK, Written
<1>2. ASSUME NEW c \in Client, Send(c) PROVE OutsideOK' /\ Written'
  BY <1>2 DEF Send, IInv, TypeOK, OutsideOK, Written
<1>3. ASSUME NEW c \in Client, Exit(c) PROVE OutsideOK' /\ Written'
  BY <1>3 DEF Exit, IInv, TypeOK, OutsideOK, Written
<1>4. ASSUME NEW c \in Client, Deliver(c) PROVE OutsideOK' /\ Written'
  BY <1>4, BoundAssumption DEF Deliver, clients, IInv, TypeOK, OutsideOK, Written
<1>5. ASSUME NEW c \in Client, Lose(c) PROVE OutsideOK' /\ Written'
  BY <1>5 DEF Lose, clients, IInv, TypeOK, OutsideOK, Written
<1>. QED
  BY <1>1, <1>2, <1>3, <1>4, <1>5 DEF Clients, Network

\* The daemon leaves clients and network alone.
LEMMA DaemonStep ==
  ASSUME IInv, Main \/ Beat
  PROVE  OutsideOK' /\ Written'
<1>1. UNCHANGED << client, text, net, arrivals >>
  BY DEF Main, Beat, Poll, Request, Recv, Publish, Close, Open, Hello, Test, Wake,
         Drain, ReadAdvance, Frame, Last, outside, clients
<1>. QED
  BY <1>1 DEF IInv, TypeOK, OutsideOK, Written

\* The socket and main's way around its loop.
LEMMA MainOKStep ==
  ASSUME IInv, [Next]_vars
  PROVE  MainOK'
<1>. USE DEF IInv, TypeOK, MainOK
<1>1. ASSUME NEW c \in Client, Deliver(c) PROVE MainOK'
  <2>1. text[c] \in Message
    BY <1>1 DEF Deliver, OutsideOK
  <2>2. sock' \in Seq(Message) /\ Len(sock') = Len(sock) + 1
    BY <1>1, <2>1 DEF Deliver
  <2>. QED
    BY <1>1, <2>2, RoomAssumption DEF Deliver, daemon
<1>2. CASE Request
  BY <1>2 DEF Request
<1>3. CASE Recv
  <2>1. CASE sock # << >>
    <3>1. Head(sock) \in Message /\ Tail(sock) \in Seq(Message) /\ Len(Tail(sock)) = Len(sock) - 1
      BY <2>1
    <3>. QED
      BY <1>3, <3>1, RoomAssumption, Messages DEF Recv
  <2>2. CASE sock = << >>
    BY <1>3, <2>2 DEF Recv
  <2>. QED
    BY <2>1, <2>2
<1>4. CASE Publish
  BY <1>4 DEF Publish
<1>5. CASE Close
  BY <1>5, RoomAssumption DEF Close
<1>6. CASE Open
  BY <1>6 DEF Open
<1>7. CASE Poll
  BY <1>7 DEF Poll
<1>8. CASE Beat
  BY <1>8 DEF Beat, Hello, Test, Wake, Drain, ReadAdvance, Frame, Last, polling
<1>9. ASSUME NEW c \in Client, Build(c) \/ Send(c) \/ Exit(c) \/ Lose(c) PROVE MainOK'
  BY <1>9 DEF Build, Send, Exit, Lose, daemon
<1>10. CASE UNCHANGED vars
  BY <1>10 DEF vars
<1>. QED
  BY <1>1, <1>2, <1>3, <1>4, <1>5, <1>6, <1>7, <1>8, <1>9, <1>10
     DEF Next, Clients, Network, Main

\* The ring, the room main has found in it, and the chunk in hand.
LEMMA RingStep ==
  ASSUME IInv, [Next]_vars
  PROVE  RingOK' /\ Reserved' /\ InHand' /\ Alone'
<1>. USE DEF IInv, TypeOK, RingOK, Reserved, InHand, Alone
<1>1. CASE Clients \/ Network
  BY <1>1 DEF Clients, Network, Build, Send, Exit, Deliver, Lose, daemon
<1>2. CASE Poll
  BY <1>2 DEF Poll, beating
<1>3. CASE Request
  BY <1>3 DEF Request, beating
<1>4. CASE Recv
  BY <1>4 DEF Recv
<1>5. CASE Publish
  <2>1. slot \in Message
    BY <1>5 DEF Publish, MainOK
  <2>2. ring' \in Seq(Message) /\ Len(ring') = Len(ring) + 1 /\ ring' # << >>
    BY <1>5, <2>1 DEF Publish
  <2>. QED
    BY <1>5, <2>2, RoomAssumption DEF Publish, beating
<1>6. CASE Close
  BY <1>6, RoomAssumption DEF Close
<1>7. CASE Open
  BY <1>7 DEF Open
<1>8. CASE ReadAdvance
  <2>1. Tail(ring) \in Seq(Message) /\ Len(Tail(ring)) = Len(ring) - 1
    BY <1>8 DEF ReadAdvance
  <2>. QED
    BY <1>8, <2>1, RoomAssumption DEF ReadAdvance, polling
<1>9. CASE Hello \/ Test \/ Wake \/ Drain \/ Frame \/ Last
  BY <1>9 DEF Hello, Test, Wake, Drain, Frame, Last, polling
<1>10. CASE UNCHANGED vars
  BY <1>10 DEF vars
<1>. QED
  BY <1>1, <1>2, <1>3, <1>4, <1>5, <1>6, <1>7, <1>8, <1>9, <1>10
     DEF Next, Main, Beat

\* What is due: drained one by one, with a frame only when the ring is empty.
LEMMA CountedStep ==
  ASSUME IInv, [Next]_vars
  PROVE  Counted'
<1>. USE DEF IInv, TypeOK, Counted
<1>1. handled \in Seq(Message) /\ ring \in Seq(Message) /\ due \in Nat
  BY DEF CanvasOK, RingOK, BeatOK
<1>2. CASE Wake
  BY <1>1, <1>2 DEF Wake
<1>3. CASE Drain /\ ring # << >>
  <2>1. Len(handled') = Len(handled) + 1
    <3>1. handled' = Append(handled, Head(ring))
      BY <1>3 DEF Drain
    <3>2. Head(ring) \in Message
      BY <1>1, <1>3
    <3>. QED
      BY <1>1, <3>1, <3>2
  <2>. QED
    BY <1>1, <1>3, <2>1 DEF Drain
<1>4. CASE Drain /\ ring = << >>
  BY <1>1, <1>4 DEF Drain
<1>5. CASE ReadAdvance
  <2>1. Len(ring') = Len(ring) - 1
    BY <1>1, <1>5 DEF ReadAdvance, InHand
  <2>. QED
    BY <1>1, <1>5, <2>1 DEF ReadAdvance
<1>6. CASE Publish
  <2>1. Len(ring') = Len(ring) + 1
    BY <1>1, <1>6 DEF Publish, MainOK
  <2>. QED
    BY <1>1, <1>6, <2>1 DEF Publish, beating
<1>7. CASE Close \/ Open \/ Hello \/ Test \/ Frame \/ Last
  BY <1>7 DEF Close, Open, Hello, Test, Frame, Last
<1>8. CASE Poll \/ Request \/ Recv
  BY <1>8 DEF Poll, Request, Recv, beating
<1>9. CASE Clients \/ Network \/ UNCHANGED vars
  BY <1>9 DEF Clients, Network, Build, Send, Exit, Deliver, Lose, daemon, vars
<1>. QED
  BY <1>2, <1>3, <1>4, <1>5, <1>6, <1>7, <1>8, <1>9 DEF Next, Main, Beat

\* The display, the flag and the counters.
LEMMA BeatStep ==
  ASSUME IInv, [Next]_vars
  PROVE  BeatOK'
<1>. USE DEF IInv, TypeOK, BeatOK
<1>1. L!Lit(<< 0, 0 >>) \in BOOLEAN
  BY DEF L!Lit
<1>2. ASSUME NEW ok \in BOOLEAN, Xmit(ok)
      PROVE  done' \in BOOLEAN /\ failures' \in 0 .. MaxFailures
  <2>1. CASE UNCHANGED << done, failures >>
    BY <2>1
  <2>2. CASE failures < MaxFailures /\ done' = TRUE /\ failures' = failures + 1
    BY <2>2, BoundAssumption
  <2>. QED
    BY <1>2, <2>1, <2>2, Zenon DEF Xmit
<1>3. CASE Hello
  BY <1>2, <1>3 DEF Hello
<1>4. CASE Test
  BY <1>4 DEF Test
<1>5. CASE Wake
  <2>1. Len(handled) \in Nat /\ Len(ring) \in Nat
    BY DEF CanvasOK, RingOK
  <2>2. due' \in Nat
    BY <1>5, <2>1 DEF Wake
  <2>. QED
    BY <1>5, <2>2 DEF Wake
<1>6. CASE Drain \/ ReadAdvance
  BY <1>6 DEF Drain, ReadAdvance
<1>7. CASE Frame
  <2>1. shown' \in BOOLEAN
    BY <1>1, <1>7 DEF Frame
  <2>. QED
    BY <1>2, <1>7, <2>1 DEF Frame
<1>8. CASE Last
  <2>1. shown' \in BOOLEAN
    BY <1>8 DEF Last
  <2>. QED
    BY <1>2, <1>8, <2>1 DEF Last
<1>9. CASE Recv
  BY <1>9, BoundAssumption DEF Recv
<1>10. CASE Close \/ Open
  <2>1. 0 \in Nat /\ FALSE \in BOOLEAN
    OBVIOUS
  <2>. QED
    BY <1>10, <2>1 DEF Close, Open
<1>12. CASE Poll \/ Request \/ Publish
  BY <1>12 DEF Poll, Request, Publish, beating
<1>11. CASE Clients \/ Network \/ UNCHANGED vars
  BY <1>11 DEF Clients, Network, Build, Send, Exit, Deliver, Lose, daemon, vars
<1>. QED
  BY <1>3, <1>4, <1>5, <1>6, <1>7, <1>8, <1>9, <1>10, <1>11, <1>12 DEF Next, Main, Beat

\* A message that is drawn is the last one for its priority, and leaves the
\* other priorities with the last one they had.
LEMMA DrawnWithOneMore ==
  ASSUME IInv, NEW m \in Message, Apply(m), handled' = Append(handled, m)
  PROVE  CanvasOK' /\ Drawn'
<1>. DEFINE n == Len(handled) + 1
<1>1. m.prio \in Prio /\ m.ink \in Ink
  BY Messages
<1>2. handled \in Seq(Message) /\ layer \in [Prio -> [L!Pixel -> Ink]] /\ n \in Nat
  BY DEF IInv, TypeOK, CanvasOK
<1>3. layer' = [layer EXCEPT ![m.prio] = [px \in L!Pixel |-> m.ink]]
  BY DEF Apply
<1>4. /\ handled' \in Seq(Message) /\ DOMAIN handled = 1 .. n - 1
      /\ DOMAIN handled' = 1 .. n /\ Len(handled') = n /\ handled'[n] = m
      /\ \A i \in 1 .. n - 1 : handled'[i] = handled[i]
  BY <1>2
<1>5. CanvasOK'
  BY <1>1, <1>2, <1>3, <1>4 DEF CanvasOK
<1>6. ASSUME NEW p \in Prio, p = m.prio
      PROVE  \E i \in DOMAIN handled' :
               /\ handled'[i].prio = p /\ M!LastOf(handled', i)
               /\ layer'[p] = [px \in L!Pixel |-> handled'[i].ink]
  <2>1. M!LastOf(handled', n)
    BY <1>2, <1>4 DEF M!LastOf
  <2>2. layer'[p] = [px \in L!Pixel |-> m.ink]
    BY <1>1, <1>2, <1>3, <1>6
  <2>3. n \in DOMAIN handled'
    BY <1>2, <1>4
  <2>. QED
    BY <1>4, <1>6, <2>1, <2>2, <2>3
<1>7. ASSUME NEW p \in Prio, p # m.prio, NEW i \in DOMAIN handled,
             handled[i].prio = p, M!LastOf(handled, i),
             layer[p] = [px \in L!Pixel |-> handled[i].ink]
      PROVE  /\ i \in DOMAIN handled' /\ handled'[i].prio = p
             /\ M!LastOf(handled', i)
             /\ layer'[p] = [px \in L!Pixel |-> handled'[i].ink]
  <2>1. i \in 1 .. n - 1 /\ i \in 1 .. n /\ handled'[i] = handled[i]
    BY <1>2, <1>4, <1>7
  <2>2. ASSUME NEW j \in i + 1 .. n PROVE handled'[j].prio # handled'[i].prio
    <3>1. CASE j = n
      BY <1>4, <1>7, <2>1, <3>1
    <3>2. CASE j # n
      <4>1. j \in i + 1 .. Len(handled) /\ j \in 1 .. n - 1
        BY <1>2, <2>1, <2>2, <3>2
      <4>. QED
        BY <1>4, <1>7, <2>1, <4>1 DEF M!LastOf
    <3>. QED
      BY <3>1, <3>2
  <2>3. layer'[p] = layer[p]
    BY <1>2, <1>3, <1>7
  <2>. QED
    BY <1>4, <1>7, <2>1, <2>2, <2>3 DEF M!LastOf
<1>8. ASSUME NEW p \in Prio, p # m.prio, \A i \in DOMAIN handled : handled[i].prio # p,
             layer[p] = [px \in L!Pixel |-> "clear"]
      PROVE  /\ \A i \in DOMAIN handled' : handled'[i].prio # p
             /\ layer'[p] = [px \in L!Pixel |-> "clear"]
  <2>1. layer'[p] = layer[p]
    BY <1>2, <1>3, <1>8
  <2>2. ASSUME NEW i \in DOMAIN handled' PROVE handled'[i].prio # p
    <3>1. i = n \/ i \in 1 .. n - 1
      BY <1>2, <1>4, <2>2
    <3>. QED
      BY <1>4, <1>8, <3>1
  <2>. QED
    BY <1>8, <2>1, <2>2
<1>9. Drawn'
  <2>1. Drawn
    BY DEF IInv
  <2>2. ASSUME NEW p \in Prio
        PROVE  \/ /\ \A i \in DOMAIN handled' : handled'[i].prio # p
                  /\ layer'[p] = [px \in L!Pixel |-> "clear"]
               \/ \E i \in DOMAIN handled' :
                    /\ handled'[i].prio = p /\ M!LastOf(handled', i)
                    /\ layer'[p] = [px \in L!Pixel |-> handled'[i].ink]
    <3>1. CASE p = m.prio
      BY <1>6, <3>1
    <3>2. CASE p # m.prio /\ \E i \in DOMAIN handled :
                 /\ handled[i].prio = p /\ M!LastOf(handled, i)
                 /\ layer[p] = [px \in L!Pixel |-> handled[i].ink]
      <4>1. PICK i \in DOMAIN handled :
              /\ handled[i].prio = p /\ M!LastOf(handled, i)
              /\ layer[p] = [px \in L!Pixel |-> handled[i].ink]
        BY <3>2
      <4>. QED
        BY <1>7, <3>2, <4>1
    <3>3. CASE p # m.prio /\ (\A i \in DOMAIN handled : handled[i].prio # p)
               /\ layer[p] = [px \in L!Pixel |-> "clear"]
      BY <1>8, <3>3
    <3>. QED
      BY <2>1, <3>1, <3>2, <3>3 DEF Drawn
  <2>. QED
    BY <2>2 DEF Drawn
<1>. QED
  BY <1>5, <1>9

LEMMA CanvasStep ==
  ASSUME IInv, [Next]_vars
  PROVE  CanvasOK' /\ Drawn'
<1>1. CASE Drain /\ ring # << >>
  <2>1. Head(ring) \in Message
    BY <1>1 DEF IInv, TypeOK, RingOK
  <2>. QED
    BY <1>1, <2>1, DrawnWithOneMore DEF Drain
<1>2. CASE UNCHANGED << layer, handled >>
  BY <1>2 DEF IInv, TypeOK, CanvasOK, Drawn
<1>3. CASE Main \/ Clients \/ Network \/ UNCHANGED vars
  <2>1. UNCHANGED << layer, handled >>
    BY <1>3 DEF Main, Poll, Request, Recv, Publish, Close, Open, beating, Clients,
                Network, Build, Send, Exit, Deliver, Lose, daemon, vars
  <2>. QED
    BY <1>2, <2>1
<1>. QED
  BY <1>1, <1>2, <1>3 DEF Next, Beat, Hello, Test, Wake, Drain, ReadAdvance, Frame, Last

\* In every run, whatever the clients send and however it gets through, the
\* ring never overruns and each layer has the ink of the last message for it
\* (stream.h, 817-834; monobusd.c, 535-555).
THEOREM Invariance == Spec => []IInv
<1>1. ASSUME IInv, [Next]_vars PROVE IInv'
  <2>1. OutsideOK' /\ Written'
    <3>1. CASE UNCHANGED vars
      BY <1>1, <3>1 DEF vars, IInv, TypeOK, OutsideOK, Written
    <3>. QED
      BY <1>1, <3>1, OutsideStep, DaemonStep DEF Next
  <2>2. MainOK' /\ BeatOK' /\ CanvasOK' /\ Drawn'
    BY <1>1, MainOKStep, BeatStep, CanvasStep
  <2>3. RingOK' /\ Reserved' /\ InHand' /\ Alone' /\ Counted'
    BY <1>1, RingStep, CountedStep
  <2>. QED
    BY <2>1, <2>2, <2>3 DEF IInv, TypeOK
<1>. QED
  BY <1>1, InitInv, PTL DEF Spec

-----------------------------------------------------------------------------
(***************************************************************************)
(* What is seen, and the queue of what is not drawn yet.                   *)
(***************************************************************************)
\* One pixel of the canvas shows what the handled messages add up to.
LEMMA LookIsLit == IInv => L!Lit(<< 0, 0 >>) = M!Look(handled)
<1>. DEFINE o == << 0, 0 >>
            ink(p) == layer[p][o]
<1> SUFFICES ASSUME IInv PROVE L!Lit(o) = M!Look(handled)
  OBVIOUS
<1>1. o \in L!Pixel
  BY DEF L!Pixel, L!Columns, L!Rows
<1>2. /\ handled \in Seq(Message)
      /\ \A i \in DOMAIN handled : i \in Nat /\ i \in 1 .. Len(handled) /\ handled[i] \in Message
      /\ Len(handled) \in Nat
  BY DEF IInv, TypeOK, CanvasOK
<1>3. ASSUME NEW p \in Prio, ink(p) # "clear"
      PROVE  \E i \in M!Inked(handled) : handled[i].prio = p /\ handled[i].ink = ink(p)
  <2>1. PICK i \in DOMAIN handled :
          /\ handled[i].prio = p /\ M!LastOf(handled, i)
          /\ layer[p] = [px \in L!Pixel |-> handled[i].ink]
    BY <1>1, <1>3 DEF IInv, Drawn
  <2>2. ink(p) = handled[i].ink
    BY <1>1, <2>1
  <2>. QED
    BY <1>3, <2>1, <2>2 DEF M!Inked
<1>4. ASSUME NEW i \in M!Inked(handled)
      PROVE  /\ handled[i].prio \in Prio
             /\ ink(handled[i].prio) = handled[i].ink /\ handled[i].ink # "clear"
  <2>. DEFINE p == handled[i].prio
  <2>1. i \in DOMAIN handled /\ M!LastOf(handled, i) /\ handled[i].ink # "clear"
    BY DEF M!Inked
  <2>2. p \in Prio
    BY <1>2, <2>1, Messages
  <2>3. PICK k \in DOMAIN handled :
          /\ handled[k].prio = p /\ M!LastOf(handled, k)
          /\ layer[p] = [px \in L!Pixel |-> handled[k].ink]
    BY <2>1, <2>2 DEF IInv, Drawn
  <2>4. k = i
    BY <1>2, <2>1, <2>3 DEF M!LastOf
  <2>. QED
    BY <1>1, <2>1, <2>2, <2>3, <2>4
<1>5. L!Lit(o) => M!Look(handled)
  <2>1. SUFFICES ASSUME L!Lit(o) PROVE M!Look(handled)
    OBVIOUS
  <2>2. PICK p \in Prio : /\ ink(p) = "on"
                          /\ \A q \in Prio : ink(q) # "clear" => q <= p
    BY <2>1 DEF L!Lit, L!Inked, L!Prio, Prio
  <2>3. PICK i \in M!Inked(handled) : handled[i].prio = p /\ handled[i].ink = ink(p)
    BY <1>3, <2>2
  <2>4. \A j \in M!Inked(handled) : handled[j].prio <= handled[i].prio
    BY <1>4, <2>2, <2>3
  <2>. QED
    BY <2>2, <2>3, <2>4 DEF M!Look
<1>6. M!Look(handled) => L!Lit(o)
  <2>1. SUFFICES ASSUME M!Look(handled) PROVE L!Lit(o)
    OBVIOUS
  <2>2. PICK i \in M!Inked(handled) :
          /\ \A j \in M!Inked(handled) : handled[j].prio <= handled[i].prio
          /\ handled[i].ink = "on"
    BY <2>1 DEF M!Look
  <2>. DEFINE p == handled[i].prio
  <2>3. p \in Prio /\ ink(p) = "on"
    BY <1>4, <2>2
  <2>4. \A q \in Prio : ink(q) # "clear" => q <= p
    BY <1>3, <2>2
  <2>5. p \in L!Inked(o) /\ \A q \in L!Inked(o) : q <= p
    BY <2>3, <2>4 DEF L!Inked, L!Prio, Prio
  <2>. QED
    BY <2>3, <2>5 DEF L!Lit
<1>. QED
  BY <1>5, <1>6 DEF L!Lit, M!Look

\* Taking the first of several sequences in a row is taking from the first.
LEMMA HeadTailOfConcat ==
  ASSUME NEW S, NEW s \in Seq(S), NEW t \in Seq(S), s # << >>
  PROVE  /\ s \o t # << >> /\ Head(s \o t) = Head(s)
         /\ Tail(s \o t) = Tail(s) \o t
<1>1. /\ s \o t \in Seq(S) /\ Len(s \o t) = Len(s) + Len(t)
      /\ \A i \in 1 .. Len(s) + Len(t) :
            (s \o t)[i] = IF i <= Len(s) THEN s[i] ELSE t[i - Len(s)]
  BY ConcatProperties
<1>2. /\ Tail(s) \in Seq(S) /\ Len(Tail(s)) = Len(s) - 1 /\ Len(s) \in Nat \ {0}
      /\ \A i \in 1 .. Len(Tail(s)) : Tail(s)[i] = s[i + 1]
  OBVIOUS
<1>3. Len(t) \in Nat
  OBVIOUS
<1>4. s \o t # << >>
  BY <1>1, <1>2, <1>3
<1>5. /\ Tail(s \o t) \in Seq(S) /\ Len(Tail(s \o t)) = Len(s \o t) - 1
      /\ \A i \in 1 .. Len(Tail(s \o t)) : Tail(s \o t)[i] = (s \o t)[i + 1]
  BY <1>1, <1>4
<1>6. /\ Tail(s) \o t \in Seq(S) /\ Len(Tail(s) \o t) = Len(Tail(s)) + Len(t)
      /\ \A i \in 1 .. Len(Tail(s)) + Len(t) :
            (Tail(s) \o t)[i] = IF i <= Len(Tail(s)) THEN Tail(s)[i] ELSE t[i - Len(Tail(s))]
  BY <1>2, ConcatProperties
<1>7. Tail(s \o t) = Tail(s) \o t
  <2>1. Len(Tail(s \o t)) = Len(Tail(s) \o t)
    BY <1>1, <1>2, <1>3, <1>5, <1>6
  <2>2. ASSUME NEW i \in 1 .. Len(Tail(s \o t))
        PROVE  Tail(s \o t)[i] = (Tail(s) \o t)[i]
    BY <1>1, <1>2, <1>3, <1>5, <1>6
  <2>. QED
    BY <1>5, <1>6, <2>1, <2>2, SeqEqual
<1>8. Head(s \o t) = (s \o t)[1] /\ Head(s) = s[1]
  BY <1>1, <1>4
<1>. QED
  BY <1>1, <1>2, <1>3, <1>4, <1>7, <1>8

-----------------------------------------------------------------------------
(***************************************************************************)
(* Every step of the system is one of Mirror's, or invisible in it.        *)
(***************************************************************************)
LEMMA QueueTypes ==
  ASSUME IInv
  PROVE  /\ undrawn \in Seq(Message) /\ received \in Seq(Message)
         /\ sock \in Seq(Message) /\ ring \in Seq(Message)
         /\ undrawn \o received \in Seq(Message) /\ pending \in Seq(Message)
<1>1. undrawn \in Seq(Message)
  BY DEF undrawn, IInv, TypeOK, RingOK, InHand
<1>2. received \in Seq(Message)
  <2>1. slot = None \/ slot \in Message
    BY DEF IInv, TypeOK, MainOK
  <2>. QED
    BY <2>1 DEF received
<1>3. sock \in Seq(Message) /\ ring \in Seq(Message)
  BY DEF IInv, TypeOK, MainOK, RingOK
<1>. QED
  BY <1>1, <1>2, <1>3 DEF pending

\* What a datagram does, from the network to the canvas.
LEMMA Arriving ==
  ASSUME IInv, NEW c \in Client, Deliver(c)
  PROVE  M!Arrive
<1>1. text[c] \in Message
  BY DEF Deliver, IInv, TypeOK, OutsideOK
<1>2. UNCHANGED << undrawn, received, handled, shown >>
  BY DEF Deliver, daemon, undrawn, received
<1>3. pending' = Append(pending, text[c])
  <2>. DEFINE front == undrawn \o received
              one == << text[c] >>
  <2>1. one \in Seq(Message) /\ front \in Seq(Message) /\ sock \in Seq(Message)
    BY <1>1, QueueTypes
  <2>2. pending' = front \o Append(sock, text[c])
    BY <1>2 DEF Deliver, pending
  <2>3. Append(sock, text[c]) = sock \o one
    BY <1>1, <2>1, AppendIsConcat
  <2>4. front \o (sock \o one) = (front \o sock) \o one
    BY <2>1, ConcatAssociative
  <2>5. pending = front \o sock /\ pending \in Seq(Message)
    BY QueueTypes DEF pending
  <2>6. pending \o one = Append(pending, text[c])
    BY <1>1, <2>5, AppendIsConcat
  <2>. QED
    BY <2>2, <2>3, <2>4, <2>5, <2>6
<1>. QED
  BY <1>1, <1>2, <1>3 DEF M!Arrive

LEMMA Receiving == ASSUME IInv, Recv PROVE UNCHANGED << pending, handled, shown >>
<1>1. slot = None /\ UNCHANGED << undrawn, handled, shown >>
  BY DEF Recv, IInv, TypeOK, MainOK, undrawn
<1>2. CASE sock # << >> /\ slot' = Head(sock) /\ sock' = Tail(sock)
  <2>1. Head(sock) \in Message /\ Tail(sock) \in Seq(Message) /\ sock \in Seq(Message)
    BY <1>2, QueueTypes
  <2>2. received = << >> /\ received' = << Head(sock) >>
    BY <1>1, <1>2, <2>1, Messages DEF received
  <2>3. sock = << Head(sock) >> \o Tail(sock)
    BY <1>2, <2>1
  <2>4. undrawn \o << >> = undrawn
    BY QueueTypes, ConcatEmptySeq
  <2>5. << Head(sock) >> \in Seq(Message)
    BY <2>1
  <2>6. (undrawn \o << Head(sock) >>) \o Tail(sock) = undrawn \o (<< Head(sock) >> \o Tail(sock))
    BY <2>1, <2>5, QueueTypes, ConcatAssociative
  <2>7. pending = undrawn \o sock
    BY <2>2, <2>4 DEF pending
  <2>8. pending' = (undrawn \o << Head(sock) >>) \o Tail(sock)
    BY <1>1, <1>2, <2>2 DEF pending
  <2>9. pending' = pending
    BY <2>3, <2>6, <2>7, <2>8
  <2>. QED
    BY <1>1, <2>9
<1>3. CASE UNCHANGED << slot, sock >>
  BY <1>1, <1>3 DEF pending, received
<1>. QED
  BY <1>2, <1>3 DEF Recv

LEMMA Publishing == ASSUME IInv, Publish PROVE UNCHANGED << pending, handled, shown >>
<1>1. slot \in Message /\ slot' = None /\ UNCHANGED << sock, beat, handled, shown >>
  BY Messages DEF Publish, beating, IInv, TypeOK, MainOK
<1>2. ring' = Append(ring, slot) /\ ring \in Seq(Message)
  BY QueueTypes DEF Publish
<1>3. beat = "advance" => ring # << >>
  BY DEF IInv, InHand
<1>4. undrawn' = Append(undrawn, slot)
  BY <1>1, <1>2, <1>3, HeadTailAppend DEF undrawn
<1>5. received = << slot >> /\ received' = << >>
  BY <1>1, Messages DEF received
<1>6. undrawn' = undrawn \o received
  BY <1>1, <1>4, <1>5, QueueTypes, AppendIsConcat
<1>7. undrawn' \o received' = undrawn \o received
  BY <1>5, <1>6, QueueTypes, ConcatEmptySeq
<1>. QED
  BY <1>1, <1>7 DEF pending

LEMMA Draining ==
  ASSUME IInv, Drain
  PROVE  M!Handle \/ UNCHANGED << pending, handled, shown >>
<1>1. CASE ring = << >>
  BY <1>1 DEF Drain, polling, pending, undrawn, received
<1>2. CASE ring # << >>
  <2>. DEFINE rest == received \o sock
  <2>1. /\ undrawn = ring /\ undrawn' = Tail(ring) /\ UNCHANGED << received, sock, shown >>
        /\ handled' = Append(handled, Head(ring))
    BY <1>2 DEF Drain, polling, undrawn, received
  <2>2. /\ ring \in Seq(Message) /\ Tail(ring) \in Seq(Message) /\ received \in Seq(Message)
        /\ sock \in Seq(Message) /\ rest \in Seq(Message)
    BY <1>2, QueueTypes
  <2>3. pending = ring \o rest
    <3>1. (ring \o received) \o sock = ring \o rest
      BY <2>2, ConcatAssociative
    <3>. QED
      BY <2>1, <3>1 DEF pending
  <2>4. pending' = Tail(ring) \o rest
    BY <2>1, <2>2, ConcatAssociative DEF pending
  <2>5. pending # << >> /\ Head(pending) = Head(ring) /\ Tail(pending) = pending'
    <3>1. /\ ring \o rest # << >> /\ Head(ring \o rest) = Head(ring)
          /\ Tail(ring \o rest) = Tail(ring) \o rest
      BY <1>2, <2>2, HeadTailOfConcat
    <3>. QED
      BY <2>3, <2>4, <3>1
  <2>. QED
    BY <2>1, <2>5 DEF M!Handle
<1>. QED
  BY <1>1, <1>2

LEMMA Closing == ASSUME IInv, Close PROVE M!Forget
<1>1. slot' = None
  BY DEF Close, IInv, TypeOK, MainOK
<1>2. undrawn' = << >> /\ received' = << >> /\ sock' = << >>
  BY <1>1 DEF Close, undrawn, received
<1>3. pending' = << >>
  BY <1>2 DEF pending
<1>. QED
  BY <1>3 DEF Close, M!Forget

\* The daemon and its clients do what Mirror says: what has arrived is handled
\* once and in order, and the display shows what has been handled, or nothing
\* (stream.h, 817-834; monobusd.c, 535-602).
THEOREM Implementation == Spec => ImplementsMirror
<1>1. Init => M!Init
  BY DEF Init, M!Init, pending, undrawn, received
<1>2. ASSUME IInv, [Next]_vars
      PROVE  [M!Next]_<< pending, handled, shown >>
  <2>. USE <1>2
  <2>1. ASSUME NEW c \in Client, Build(c) \/ Send(c) \/ Exit(c) \/ Lose(c)
        PROVE  UNCHANGED << pending, handled, shown >>
    BY <2>1 DEF Build, Send, Exit, Lose, daemon, pending, undrawn, received
  <2>2. ASSUME NEW c \in Client, Deliver(c) PROVE M!Next
    BY <2>2, Arriving DEF M!Next
  <2>3. CASE Poll \/ Request
    BY <2>3 DEF Poll, Request, beating, pending, undrawn, received
  <2>4. CASE Recv \/ Publish
    BY <2>4, Receiving, Publishing
  <2>5. CASE Close
    BY <2>5, Closing DEF M!Next
  <2>6. CASE Open
    <3>1. beat = "none"
      BY <2>6 DEF Open, IInv, Alone
    <3>. QED
      BY <2>6, <3>1 DEF Open, pending, undrawn, received
  <2>7. CASE Hello \/ Test \/ Wake \/ ReadAdvance
    BY <2>7 DEF Hello, Test, Wake, ReadAdvance, polling, pending, undrawn, received
  <2>8. CASE Drain
    BY <2>8, Draining DEF M!Next
  <2>9. CASE Frame \/ Last
    <3>1. UNCHANGED << pending, handled >>
      BY <2>9 DEF Frame, Last, polling, pending, undrawn, received
    <3>2. shown' = M!Look(handled) \/ shown' = FALSE \/ shown' = shown
      BY <2>9, LookIsLit DEF Frame, Last
    <3>. QED
      BY <3>1, <3>2 DEF M!Next, M!Show, M!Darken
  <2>10. CASE UNCHANGED vars
    BY <2>10 DEF vars, pending, undrawn, received
  <2>. QED
    BY <2>1, <2>2, <2>3, <2>4, <2>5, <2>6, <2>7, <2>8, <2>9, <2>10
       DEF Next, Clients, Network, Main, Beat
<1>. QED
  BY <1>1, <1>2, Invariance, PTL DEF Spec, ImplementsMirror, M!Spec

\* A frame that gets through shows all that was in the ring when its beat came
\* (monobusd.c, 535-602).
THEOREM FramesShowTheRing == Spec => SeenWithNextFrame
<1>1. ASSUME IInv, [Next]_vars
      PROVE  [beat = "frame" /\ beat' = "test" /\ ~ done' =>
                shown' = M!Look(handled) /\ Len(handled) >= due]_vars
  <2>1. SUFFICES ASSUME beat = "frame", beat' = "test", ~ done', Next
                 PROVE  shown' = M!Look(handled) /\ Len(handled) >= due
    BY <1>1
  <2>2. Frame
    BY <2>1 DEF Next, Clients, Network, Build, Send, Exit, Deliver, Lose, daemon, Main,
                Poll, Request, Recv, Publish, Close, Open, beating, Beat, Hello, Test,
                Wake, Drain, ReadAdvance, Last
  <2>3. PICK ok \in BOOLEAN :
          /\ Xmit(ok)
          /\ shown' \in {L!Lit(<< 0, 0 >>)} \union (IF ok THEN {} ELSE {shown})
    BY <2>2 DEF Frame
  <2>4. ok = TRUE
    BY <2>1, <2>3 DEF Xmit
  <2>5. shown' = L!Lit(<< 0, 0 >>)
    BY <2>3, <2>4
  <2>6. due <= Len(handled) /\ due \in Nat /\ Len(handled) \in Nat
    BY <1>1, <2>1 DEF IInv, Counted, TypeOK, BeatOK, CanvasOK
  <2>. QED
    BY <1>1, <2>5, <2>6, LookIsLit
<1>. QED
  BY <1>1, Invariance, PTL DEF Spec, SeenWithNextFrame
=============================================================================
