------------------------------- MODULE Bridge --------------------------------
(***************************************************************************)
(* The system from end to end, over UDP, which both programs use unless    *)
(* they are told otherwise: monobusc processes that send one message each, *)
(* the network, the daemon's socket, the main thread that moves datagrams  *)
(* to the ring, the beat thread that takes them from there, draws them,    *)
(* and sends a frame, and sessions that end when a transmission fails.     *)
(*                                                                         *)
(* The parts are what their own modules show them to be: the ring a queue  *)
(* (Varchunk, ChunkFifo), the canvas one layer per priority (Canvas,       *)
(* Layers), here of one pixel; the three transmissions of a frame show     *)
(* the picture or leave what was shown (Monobus).                          *)
(***************************************************************************)
EXTENDS Integers, Sequences

CONSTANTS
  Client,        \* processes that are started
  Message,       \* [prio, ink]: "on" and "off" draw, "clear" clears
  None,          \* no message
  Prios,         \* number of priorities
  Room,          \* chunks the ring has room for
  SockRoom,      \* datagrams the socket has room for
  MaxArrivals,   \* bound: datagrams that reach the socket
  MaxFailures    \* bound: transmissions and receives that fail

Prio == 0 .. Prios - 1
Ink == {"on", "off", "clear"}

ASSUME PriosAssumption == Prios \in Nat \ {0}
ASSUME RoomAssumption == Room \in Nat \ {0} /\ SockRoom \in Nat \ {0}
ASSUME BoundAssumption == MaxArrivals \in Nat /\ MaxFailures \in Nat
ASSUME MessageAssumption ==
  Message \subseteq [prio : Prio, ink : Ink] /\ None \notin Message

VARIABLES
  client,     \* where each process is
  text,       \* the message of each
  net,        \* clients whose datagram is on its way
  arrivals,   \* datagrams that have reached the socket
  sock,       \* the socket's queue
  main,       \* where the main thread is
  slot,       \* the reserved chunk, once recvfrom has filled it
  ring,       \* published chunks; the first may be in the beat thread's hands
  beat,       \* where the beat thread is
  layer,      \* the canvas
  shown,      \* whether the display is lit
  done,       \* the flag that ends a session
  failures,   \* transmissions and receives that have failed
  handled,    \* history: messages drawn so far
  due         \* history: how many of them there should be with the next frame

vars == << client, text, net, arrivals, sock, main, slot, ring, beat, layer,
           shown, done, failures, handled, due >>
clients == << client, text >>
daemon == << main, slot, ring, beat, layer, shown, done, failures, handled, due >>

L == INSTANCE Layers WITH Width <- 1, Height <- 1

Init ==
  /\ client = [c \in Client |-> "idle"] /\ text = [c \in Client |-> None]
  /\ net = {} /\ arrivals = 0 /\ sock = << >>
  /\ main = "poll" /\ slot = None /\ ring = << >>
  /\ beat = "hello" /\ L!Init
  /\ shown = FALSE /\ done = FALSE /\ failures = 0
  /\ handled = << >> /\ due = 0

-----------------------------------------------------------------------------
(***************************************************************************)
(* monobusc: one message is written into the ring for sending, the stream  *)
(* is run until it has sent it, and released.  A sendto that fails is      *)
(* tried again after a millisecond, and changes nothing.                   *)
(***************************************************************************)
Build(c) ==
  /\ client[c] = "idle"
  /\ \/ \E m \in Message :
          text' = [text EXCEPT ![c] = m] /\ client' = [client EXCEPT ![c] = "run"]
     \/ UNCHANGED text /\ client' = [client EXCEPT ![c] = "gone"]
  /\ UNCHANGED << net, arrivals, sock, daemon >>

Send(c) ==
  /\ client[c] = "run"
  /\ net' = net \union {c}
  /\ client' = [client EXCEPT ![c] = "sent"]
  /\ UNCHANGED << text, arrivals, sock, daemon >>

Exit(c) ==
  /\ client[c] = "sent"
  /\ client' = [client EXCEPT ![c] = "gone"]
  /\ UNCHANGED << text, net, arrivals, sock, daemon >>

-----------------------------------------------------------------------------
(***************************************************************************)
(* The network loses, reorders and duplicates datagrams.                   *)
(***************************************************************************)
Deliver(c) ==
  /\ c \in net /\ main # "closed"
  /\ Len(sock) < SockRoom
  /\ arrivals < MaxArrivals /\ arrivals' = arrivals + 1
  /\ sock' = Append(sock, text[c])
  /\ net' \in {net, net \ {c}}
  /\ UNCHANGED << clients, daemon >>

Lose(c) ==
  /\ c \in net
  /\ net' = net \ {c}
  /\ UNCHANGED << clients, arrivals, sock, daemon >>

-----------------------------------------------------------------------------
(***************************************************************************)
(* The main thread: _loop and _lv2_osc_stream_run_udp.                     *)
(***************************************************************************)
outside == << clients, net, arrivals >>
beating == << beat, layer, shown, failures, handled, due >>

Poll ==
  /\ main = "poll"
  /\ main' = IF done THEN "join" ELSE "request"
  /\ UNCHANGED << outside, sock, slot, ring, done, beating >>

\* Datagrams are received whether the ring has room or not.
RequestAlways ==
  /\ main = "request"
  /\ main' = "recv"
  /\ UNCHANGED << outside, sock, slot, ring, done, beating >>

\* A ring without room ends the loop; datagrams stay where they are.
Request ==
  /\ main = "request"
  /\ main' = IF Len(ring) < Room THEN "recv" ELSE "poll"
  /\ UNCHANGED << outside, sock, slot, ring, done, beating >>

\* An empty queue ends the loop, as do a failure and an empty datagram, which
\* no monobusc sends.
Recv ==
  /\ main = "recv"
  /\ \/ /\ sock # << >>
        /\ slot' = Head(sock) /\ sock' = Tail(sock)
        /\ main' = "publish"
        /\ UNCHANGED failures
     \/ /\ sock = << >> /\ main' = "poll"
        /\ UNCHANGED << slot, sock, failures >>
     \/ /\ failures < MaxFailures /\ failures' = failures + 1
        /\ main' = "poll"
        /\ UNCHANGED << slot, sock >>
  /\ UNCHANGED << outside, ring, done, beat, layer, shown, handled, due >>

Publish ==
  /\ main = "publish"
  /\ ring' = Append(ring, slot) /\ slot' = None
  /\ main' = "request"
  /\ UNCHANGED << outside, sock, done, beating >>

\* The session ends: the socket is closed and the rings are freed, with what
\* they hold.
Close ==
  /\ main = "join" /\ beat = "over"
  /\ main' = "closed" /\ beat' = "none"
  /\ sock' = << >> /\ ring' = << >>
  /\ UNCHANGED << outside, slot, done, layer, shown, failures, handled, due >>

\* The next one.  (What main's reset of done may erase is in Daemon.)
Open ==
  /\ main = "closed"
  /\ main' = "poll" /\ beat' = "hello" /\ done' = FALSE
  /\ due' = 0
  /\ UNCHANGED << outside, sock, slot, ring, layer, shown, failures, handled >>

-----------------------------------------------------------------------------
(***************************************************************************)
(* The beat thread.                                                        *)
(***************************************************************************)
polling == << main, slot, sock >>

Xmit(ok) ==
  \/ ok /\ UNCHANGED << done, failures >>
  \/ /\ ~ ok /\ failures < MaxFailures
     /\ done' = TRUE /\ failures' = failures + 1

Hello ==
  /\ beat = "hello"
  /\ \E ok \in BOOLEAN : Xmit(ok)
  /\ beat' = "test"
  /\ UNCHANGED << outside, polling, ring, layer, shown, handled, due >>

Test ==
  /\ beat = "test"
  /\ beat' = IF done THEN "last" ELSE "wait"
  /\ UNCHANGED << outside, polling, ring, done, layer, shown, failures, handled, due >>

\* Frames are sent when there is something new only.
WakeIfNews ==
  /\ beat = "wait"
  /\ beat' = IF ring = << >> THEN "test" ELSE "drain"
  /\ due' = Len(handled) + Len(ring)
  /\ UNCHANGED << outside, polling, ring, done, layer, shown, failures, handled >>

Wake ==
  /\ beat = "wait"
  /\ beat' = "drain"
  /\ due' = Len(handled) + Len(ring)
  /\ UNCHANGED << outside, polling, ring, done, layer, shown, failures, handled >>

\* Pixels that are off leave what was there.
ApplyOnOnly(m) ==
  layer' = IF m.ink = "off" THEN layer
           ELSE [layer EXCEPT ![m.prio] = [px \in L!Pixel |-> m.ink]]

Apply(m) == layer' = [layer EXCEPT ![m.prio] = [px \in L!Pixel |-> m.ink]]

\* The chunk is looked at in place, and released when it has been handled.
Drain ==
  /\ beat = "drain"
  /\ \/ /\ ring # << >>
        /\ Apply(Head(ring)) /\ handled' = Append(handled, Head(ring))
        /\ beat' = "advance"
     \/ /\ ring = << >>
        /\ beat' = "frame"
        /\ UNCHANGED << layer, handled >>
  /\ UNCHANGED << outside, polling, ring, done, shown, failures, due >>

\* One chunk a frame.
AdvanceToFrame ==
  /\ beat = "advance"
  /\ ring' = Tail(ring)
  /\ beat' = "frame"
  /\ UNCHANGED << outside, polling, done, layer, shown, failures, handled, due >>

ReadAdvance ==
  /\ beat = "advance"
  /\ ring' = Tail(ring)
  /\ beat' = "drain"
  /\ UNCHANGED << outside, polling, done, layer, shown, failures, handled, due >>

\* The three transmissions; the picture may have got through when one fails.
Frame ==
  /\ beat = "frame"
  /\ \E ok \in BOOLEAN :
       /\ Xmit(ok)
       /\ shown' \in {L!Lit(<< 0, 0 >>)} \union (IF ok THEN {} ELSE {shown})
  /\ beat' = "test"
  /\ UNCHANGED << outside, polling, ring, layer, handled, due >>

Last ==
  /\ beat = "last"
  /\ \E ok \in BOOLEAN :
       /\ Xmit(ok)
       /\ shown' \in {FALSE} \union (IF ok THEN {} ELSE {shown})
  /\ beat' = "over"
  /\ UNCHANGED << outside, polling, ring, layer, handled, due >>

-----------------------------------------------------------------------------
Clients == \E c \in Client : Build(c) \/ Send(c) \/ Exit(c)
Network == \E c \in Client : Deliver(c) \/ Lose(c)
Main == Poll \/ Request \/ Recv \/ Publish \/ Close \/ Open
Beat == Hello \/ Test \/ Wake \/ Drain \/ ReadAdvance \/ Frame \/ Last

Next == Clients \/ Network \/ Main \/ Beat

Spec == Init /\ [][Next]_vars

\* main polls again and again, at least once a second, and the beat thread
\* goes on with every beat; clients and the network need not do anything.
FairSpec == Spec /\ WF_vars(Main) /\ WF_vars(Beat)
-----------------------------------------------------------------------------
(***************************************************************************)
(* Properties.                                                             *)
(***************************************************************************)
OutsideOK ==
  /\ client \in [Client -> {"idle", "run", "sent", "gone"}]
  /\ text \in [Client -> Message \union {None}]
  /\ net \subseteq {c \in Client : text[c] \in Message}
  /\ arrivals \in 0 .. MaxArrivals
MainOK ==
  /\ main \in {"poll", "request", "recv", "publish", "join", "closed"}
  /\ slot \in Message \union {None} /\ (slot # None <=> main = "publish")
  /\ sock \in Seq(Message) /\ Len(sock) <= SockRoom
BeatOK ==
  /\ beat \in {"hello", "test", "wait", "drain", "advance", "frame", "last",
               "over", "none"}
  /\ shown \in BOOLEAN /\ done \in BOOLEAN
  /\ failures \in 0 .. MaxFailures /\ due \in Nat
CanvasOK ==
  /\ layer \in [Prio -> [L!Pixel -> Ink]]
  /\ handled \in Seq(Message)

\* The ring never holds more than it has room for: the room main has found
\* (stream.h, 824) is still there when it publishes.
RingOK == ring \in Seq(Message) /\ Len(ring) <= Room

\* The parts above.
TypeOK == OutsideOK /\ MainOK /\ BeatOK /\ CanvasOK /\ RingOK

\* Messages that have arrived and are not drawn yet, on their way from the
\* socket to the canvas; the beat thread may hold one it has drawn.
undrawn == IF beat = "advance" THEN Tail(ring) ELSE ring
received == IF slot = None THEN << >> ELSE << slot >>
pending == undrawn \o received \o sock

\* Between the socket and the display nothing is lost, doubled or reordered
\* within a session, and the display is lit only if what was drawn says so
\* (_lv2_osc_stream_run_udp, the ring, and _beat, lines 535-602).
M == INSTANCE Mirror
ImplementsMirror == M!Spec

\* What the properties rest on.  Who sends has written a message, the room main
\* has found stays there until it publishes, a chunk in hand stays in the ring,
\* nobody is left in a session that is closed, what is due with the next frame
\* is drawn or in the ring, and each layer has the ink of the last message for
\* it.
Written == \A c \in Client : client[c] \in {"run", "sent"} => text[c] \in Message
Reserved == main \in {"recv", "publish"} => Len(ring) < Room
InHand == beat = "advance" => ring # << >>
Alone == main = "closed" => beat = "none"
Counted ==
  /\ beat = "drain" => due <= Len(handled) + Len(ring)
  /\ beat = "advance" => due < Len(handled) + Len(ring)
  /\ beat = "frame" => due <= Len(handled)
Drawn ==
  \A p \in Prio :
    \/ /\ \A i \in DOMAIN handled : handled[i].prio # p
       /\ layer[p] = [px \in L!Pixel |-> "clear"]
    \/ \E i \in DOMAIN handled :
         /\ handled[i].prio = p /\ M!LastOf(handled, i)
         /\ layer[p] = [px \in L!Pixel |-> handled[i].ink]

\* The parts above, and those before (stream.h, 817-834; monobusd.c, 535-555).
IInv == TypeOK /\ Written /\ Reserved /\ InHand /\ Alone /\ Counted /\ Drawn

\* A frame whose transmissions succeed shows everything that was in the ring
\* when its beat came, whatever main adds meanwhile, and a message is never on
\* the display without those before it (monobusd.c, 535-602).
SeenWithNextFrame ==
  [][beat = "frame" /\ beat' = "test" /\ ~ done' =>
       shown' = M!Look(handled) /\ Len(handled) >= due]_vars

\* Once no more datagrams arrive and transmissions succeed, everything that
\* has arrived and was not lost with a session is on the display, for good,
\* also when the last session ended with a dark display.
Settles == <>[](pending = << >> /\ shown = M!Look(handled))
=============================================================================
