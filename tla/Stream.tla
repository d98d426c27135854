------------------------------- MODULE Stream -------------------------------
(***************************************************************************)
(* OSC over a byte stream, one direction: clients with messages to send,   *)
(* and the daemon, both on osc.lv2/stream.h.  Three transports: SLIP       *)
(* frames over TCP, frames with a length in front over TCP, and SLIP       *)
(* frames over a serial line.                                              *)
(*                                                                         *)
(* A byte stream keeps the order of bytes but may be cut anywhere; a TCP   *)
(* connection may break, a serial line may lose bytes.  The bytes of one   *)
(* send are kept together as a piece, for the properties; the receiver     *)
(* does not see where pieces end.                                          *)
(***************************************************************************)
EXTENDS Integers, Sequences, SequencesExt

CONSTANTS
  Transports,  \* what the URL may ask for: "slip", "prefix", "serial"
  Clients,     \* processes that send
  Payloads,    \* messages: sequences of bytes
  Digit,       \* bytes that stand for the lengths a header can give
  RxSize,      \* sizeof(rx_buf)
  Room,        \* chunks the ring has room for
  ReqBuf,      \* LV2_OSC_STREAM_REQBUF: the bytes a prefixed body is sure of
  MaxBody,     \* the bytes it has if the ring is empty
  MaxFrames,   \* bound: messages to send, altogether
  MaxFaults    \* bound: sends cut short, connections broken, bytes lost

ASSUME ClientsAssumption == "tty" \notin Clients
ASSUME TransportsAssumption == Transports \subseteq {"slip", "prefix", "serial"}
ASSUME RxSizeAssumption == RxSize \in Nat \ {0}
ASSUME RoomAssumption == Room \in Nat \ {0}
ASSUME ReqBufAssumption == ReqBuf \in Nat \ {0} /\ MaxBody \in Nat /\ ReqBuf <= MaxBody
ASSUME PayloadsAssumption == \A p \in Payloads : p \in Seq(STRING) \ {<< >>}
ASSUME DigitAssumption ==
  /\ Digit \in Seq(STRING) /\ \A m, n \in DOMAIN Digit : Digit[m] = Digit[n] => m = n
  /\ "prefix" \in Transports => \A p \in Payloads : Len(p) \in DOMAIN Digit
ASSUME BoundsAssumption == MaxFrames \in Nat /\ MaxFaults \in Nat

END == "END"
ESC == "ESC"
ENDReplace == "ESC_END"
ESCReplace == "ESC_ESC"

VARIABLES
  transport,   \* what the URL asks for
  tx,          \* of each client: the messages in its ring
  sock,        \* of each client: "idle", "none": no connection, "up", "shut": by
               \* the daemon, "gone": the connection is broken, "exit"
  conns,       \* connections at the daemon: the accepted one, then the backlog
  connected,   \* stream.connected of the daemon
  rx,          \* rx_buf up to rx_off; while parsing, from ptr on
  at,          \* "run": before recv, "parse": in the loop after it,
               \* "abort": an assertion has failed, "overrun": recv has
               \* written behind what was reserved in the ring
  ring,        \* chunks dispatched and not yet read by the beat thread
  frames, faults, \* counts for the bounds
  got,         \* history of the accepted connection: chunks dispatched
  clean,       \* history: it found rx_buf empty, and nothing was refused or lost
  divided,     \* history: a receive has ended inside a frame
  blurred,     \* history: it found rx_buf not empty, and no whole frame since
  due          \* history: frames the last receive brought whole, not yet
               \* dispatched; none of those behind a refused one

vars == << transport, tx, sock, conns, connected, rx, at, ring, frames, faults,
           got, clean, divided, blurred, due >>
client == << tx, sock, frames >>
history == << got, clean, divided, blurred, due >>
server == << connected, rx, at, ring, history >>

\* A connection: whose, the bytes on their way, "open", "closed" by the client or
\* "lost"; history: what has been sent, and whether a send was cut short.
Line(c) == [client |-> c, pipe |-> << >>, end |-> "open", sent |-> << >>,
            torn |-> FALSE]

Serial == transport = "serial"

\* There is no daemon any more.
Ended == at \in {"abort", "overrun"}

Init ==
  /\ transport \in Transports
  /\ tx = [c \in Clients |-> << >>] /\ sock = [c \in Clients |-> "idle"]
  /\ conns = IF Serial THEN << Line("tty") >> ELSE << >>
  /\ connected = Serial
  /\ rx = << >> /\ at = "run" /\ ring = << >>
  /\ frames = 0 /\ faults = 0
  /\ got = << >> /\ clean = TRUE /\ divided = FALSE /\ blurred = FALSE
  /\ due = << >>

-----------------------------------------------------------------------------
(***************************************************************************)
(* Framing.                                                                *)
(***************************************************************************)
Stuffed(byte) == CASE byte = END -> << ESC, ENDReplace >>
                   [] byte = ESC -> << ESC, ESCReplace >>
                   [] OTHER -> << byte >>

\* lv2_osc_slip_encode_inline: an END on both sides.
Slip(p) ==
  << END >> \o FlattenSeq([i \in DOMAIN p |-> Stuffed(p[i])]) \o << END >>

\* htonl(tosend), in two bytes instead of four, of which the first is zero.
\* Variant: it counts the header as well.
PrefixCounted(n) == << "zero", Digit[n + 2] >>
Prefix(n) == << "zero", Digit[n] >>
PrefixSize == 2
IsPrefixed(bytes) == bytes[1] = "zero" /\ \E n \in DOMAIN Digit : bytes[2] = Digit[n]
Length(bytes) == CHOOSE n \in DOMAIN Digit : bytes[2] = Digit[n]

Encode(p) == IF transport = "prefix" THEN Prefix(Len(p)) \o p ELSE Slip(p)

\* lv2_osc_slip_decode_inline.  Variant: the byte behind an ESC is taken as it is.
UnstuffedPlain(byte) == << byte >>
Unstuffed(byte) == CASE byte = ENDReplace -> << END >>
                     [] byte = ESCReplace -> << ESC >>
                     [] OTHER -> << >>

\* Where it begins: behind the END in front, if there is one.
First(buf) == IF buf # << >> /\ buf[1] = END THEN 2 ELSE 1

\* The bytes behind an ESC that is not behind one itself.
Escaped(buf) ==
  LET escaped[i \in First(buf) .. Len(buf)] ==
        i > First(buf) /\ buf[i - 1] = ESC /\ ~escaped[i - 1]
  IN  { i \in First(buf) .. Len(buf) : escaped[i] }

\* What becomes of a byte.
Undone(byte, escaped) ==
  IF escaped THEN Unstuffed(byte) ELSE IF byte = ESC THEN << >> ELSE << byte >>

\* The payload, empty unless the frame is whole, how many bytes are parsed, and
\* what the buffer holds afterwards: the output is written over it.
Decode(buf) ==
  LET from == First(buf)
      escaped == Escaped(buf)
      ends == { i \in (from .. Len(buf)) \ escaped : buf[i] = END }
      last == IF ends = {} THEN Len(buf) ELSE Min(ends) - 1
      out == FlattenSeq([k \in 1 .. last - from + 1 |->
               Undone(buf[from + k - 1], from + k - 1 \in escaped)])
  IN  [parsed  |-> IF ends = {} THEN 0 ELSE last + 1,
       payload |-> IF from = 2 /\ ends # {} THEN out ELSE << >>,
       buf     |-> out \o SubSeq(buf, Len(out) + 1, Len(buf))]

-----------------------------------------------------------------------------
(***************************************************************************)
(* The clients: lv2_osc_stream_run again and again, until what is in the   *)
(* ring is sent.  monobusc has one message.                                *)
(***************************************************************************)
Start(c, msgs) ==
  /\ sock[c] = "idle" /\ msgs # << >>
  /\ frames + Len(msgs) <= MaxFrames /\ frames' = frames + Len(msgs)
  /\ tx' = [tx EXCEPT ![c] = msgs]
  /\ sock' = [sock EXCEPT ![c] = IF Serial THEN "up" ELSE "none"]
  /\ UNCHANGED << transport, conns, faults, server >>

\* connect succeeds: the daemon is there, with room in the backlog, listen(sock, 1).
Backlog == Len(conns) - (IF connected THEN 1 ELSE 0)
Connect(c) ==
  /\ sock[c] = "none" /\ Backlog <= 1 /\ ~Ended
  /\ sock' = [sock EXCEPT ![c] = "up"]
  /\ conns' = Append(conns, Line(c))
  /\ UNCHANGED << transport, tx, frames, faults, server >>

\* Which connection is that of a client.
Of(c, i) == conns[i].client = "tty" \/ (conns[i].client = c /\ conns[i].end = "open")

\* A piece of the byte stream; payload is empty unless it is a frame, whole and
\* sent for the first time.
Piece(bytes, payload) == [bytes |-> bytes, payload |-> payload]

Send(c) ==
  /\ sock[c] = "up" /\ tx[c] # << >>
  /\ \E i \in DOMAIN conns :
       /\ Of(c, i)
       /\ LET p == Head(tx[c])
              l == conns[i]
          IN  conns' = [conns EXCEPT ![i] =
                [l EXCEPT !.pipe = Append(@, Piece(Encode(p), IF l.torn THEN << >> ELSE p)),
                          !.sent = Append(@, p)]]
  /\ tx' = [tx EXCEPT ![c] = Tail(@)]
  /\ UNCHANGED << transport, sock, frames, faults, server >>

\* Only part of a frame fits into the socket buffer: the chunk stays in the ring,
\* and is sent again from its first byte.
SendCut(c, n) ==
  /\ sock[c] = "up" /\ tx[c] # << >>
  /\ faults < MaxFaults /\ faults' = faults + 1
  /\ n < Len(Encode(Head(tx[c])))
  /\ \E i \in DOMAIN conns :
       /\ Of(c, i)
       /\ conns' = [conns EXCEPT ![i].pipe =
                      Append(@, Piece(SubSeq(Encode(Head(tx[c])), 1, n), << >>)),
                                 ![i].torn = TRUE]
  /\ UNCHANGED << transport, client, server >>

\* A connection the daemon has closed still takes what is sent, and loses it.
SendVain(c) ==
  /\ sock[c] = "shut" /\ tx[c] # << >>
  /\ tx' = [tx EXCEPT ![c] = Tail(@)]
  /\ sock' = [sock EXCEPT ![c] = "gone"]
  /\ UNCHANGED << transport, conns, frames, faults, server >>

\* A send fails, or a receive finds the end of the stream: the socket is closed,
\* and made anew by the next call.  Variant: it is kept.
NoticeLossKept(c) == UNCHANGED vars
NoticeLoss(c) ==
  /\ sock[c] \in {"shut", "gone"} /\ tx[c] # << >>
  /\ sock' = [sock EXCEPT ![c] = "none"]
  /\ UNCHANGED << transport, tx, conns, frames, faults, server >>

\* Everything is sent: lv2_osc_stream_deinit, and the process exits.
Exit(c) ==
  /\ sock[c] \in {"up", "shut", "gone"} /\ tx[c] = << >>
  /\ sock' = [sock EXCEPT ![c] = "exit"]
  /\ conns' = [i \in DOMAIN conns |->
                 IF Of(c, i) /\ ~Serial THEN [conns[i] EXCEPT !.end = "closed"]
                 ELSE conns[i]]
  /\ UNCHANGED << transport, tx, frames, faults, server >>

Client(c) == Connect(c) \/ Send(c) \/ SendVain(c) \/ NoticeLoss(c) \/ Exit(c)

-----------------------------------------------------------------------------
(***************************************************************************)
(* The byte stream.                                                        *)
(***************************************************************************)
Joined(pipe) == FlattenSeq([i \in DOMAIN pipe |-> pipe[i].bytes])
Bytes == Joined(conns[1].pipe)

\* How many bytes the first i pieces have.
Upto(pipe, i) == Len(Joined(SubSeq(pipe, 1, i)))

\* How many pieces the first n bytes take entirely.
Taken(pipe, n) == Max({ i \in 0 .. Len(pipe) : Upto(pipe, i) <= n })

\* A pipe without its first n bytes.
Cut(pipe, n) ==
  LET taken == Taken(pipe, n)
      cut == n - Upto(pipe, taken)
      bytes == pipe[taken + 1].bytes
  IN  IF cut = 0 THEN SubSeq(pipe, taken + 1, Len(pipe))
      ELSE << Piece(SubSeq(bytes, cut + 1, Len(bytes)), << >>) >>
             \o SubSeq(pipe, taken + 2, Len(pipe))

\* The frames among pieces.
Frames(pipe) ==
  FlattenSeq([i \in DOMAIN pipe |->
    IF pipe[i].payload = << >> THEN << >> ELSE << pipe[i].payload >>])

\* It has been cut inside a frame.
Ragged(pipe) == pipe # << >> /\ Head(pipe).payload = << >>

\* What of a connection is on its way is lost with it; both sides are told.
Break(i) ==
  /\ ~Serial /\ conns[i].end = "open"
  /\ faults < MaxFaults /\ faults' = faults + 1
  /\ conns' = [conns EXCEPT ![i].end = "lost", ![i].pipe = << >>]
  /\ sock' = [sock EXCEPT ![conns[i].client] = "gone"]
  /\ UNCHANGED << transport, tx, frames, server >>

\* A serial line has no flow control: CRTSCTS and IXON are off.
Drop(n) ==
  /\ Serial
  /\ faults < MaxFaults /\ faults' = faults + 1
  /\ LET pipe == Cut(conns[1].pipe, n)
     IN  /\ conns' = [conns EXCEPT ![1].pipe = pipe]
         /\ divided' = (divided \/ Ragged(pipe))
  /\ clean' = FALSE /\ blurred' = TRUE
  /\ UNCHANGED << transport, client, connected, rx, at, ring, got, due >>

-----------------------------------------------------------------------------
(***************************************************************************)
(* The daemon's stream: _lv2_osc_stream_run_tcp and _run_ser.              *)
(***************************************************************************)
Accept ==
  /\ ~connected /\ conns # << >>
  /\ connected' = TRUE
  /\ got' = << >> /\ due' = << >> /\ divided' = FALSE
  /\ clean' = (rx = << >>) /\ blurred' = (rx # << >>)
  /\ UNCHANGED << transport, conns, rx, at, ring, faults, client >>

\* recv returns 0, or an error.  The bytes left in rx_buf stay there.
Hangup ==
  LET c == conns[1].client
  IN  /\ connected' = FALSE /\ conns' = Tail(conns)
      /\ sock' = IF conns[1].end = "open" THEN [sock EXCEPT ![c] = "shut"] ELSE sock
      /\ UNCHANGED << transport, tx, frames, faults, rx, at, ring, history >>

\* Variant: an orderly shutdown is taken for an empty queue.
RecvEndLost == /\ ~Serial /\ connected /\ at = "run"
               /\ conns[1].pipe = << >> /\ conns[1].end = "lost"
               /\ (transport = "prefix" => Len(ring) < Room)
               /\ Hangup
RecvEnd == /\ ~Serial /\ connected /\ at = "run"
           /\ conns[1].pipe = << >> /\ conns[1].end # "open"
           /\ (transport = "prefix" => Len(ring) < Room)
           /\ Hangup

\* How much recv may write behind rx_off.  Variant: as if rx_off were 0.
LimitWhole == RxSize
Limit == RxSize - Len(rx)

\* With no room left in rx_buf recv returns 0 as well.  On a serial line that is
\* no end: nothing happens any more.
RecvFull == transport = "slip" /\ connected /\ at = "run" /\ Limit = 0 /\ Hangup

Recv(n) ==
  /\ transport # "prefix" /\ connected /\ at = "run"
  /\ n <= Limit
  /\ LET pipe == Cut(conns[1].pipe, n)
         whole == Frames(SubSeq(conns[1].pipe, 1, Taken(conns[1].pipe, n)))
     IN  /\ conns' = [conns EXCEPT ![1].pipe = pipe]
         /\ divided' = (divided \/ Ragged(pipe))
         /\ due' = IF blurred /\ whole # << >> THEN Tail(whole) ELSE whole
         /\ blurred' = (blurred /\ whole = << >>)
  /\ rx' = rx \o SubSeq(Bytes, 1, n)
  /\ at' = "parse"
  /\ UNCHANGED << transport, client, faults, connected, ring, got, clean >>

\* One round of the loop behind recv.
Parse ==
  /\ at = "parse"
  /\ \E d \in {Decode(rx)} :
       LET rest == SubSeq(rx, d.parsed + 1, Len(rx))
       IN  \/ /\ rx = << >>
              /\ at' = "run"
              /\ UNCHANGED << rx, ring, got, clean, due >>
           \/ /\ d.payload # << >> /\ Len(ring) < Room
              /\ ring' = Append(ring, d.payload) /\ got' = Append(got, d.payload)
              /\ due' = IF due # << >> /\ due[1] = d.payload THEN Tail(due) ELSE due
              /\ rx' = rest
              /\ UNCHANGED << at, clean >>
           \/ /\ d.payload # << >> /\ Len(ring) = Room
              /\ rx' = d.buf
              /\ at' = "run" /\ clean' = FALSE /\ due' = << >>
              /\ UNCHANGED << ring, got >>
           \/ /\ d.payload = << >> /\ d.parsed > 0
              /\ rx' = rest
              /\ UNCHANGED << at, ring, got, clean, due >>
           \/ /\ rx # << >> /\ d.parsed = 0
              /\ rx' = d.buf
              /\ at' = "run"
              /\ UNCHANGED << ring, got, clean, due >>
  /\ UNCHANGED << transport, client, conns, faults, connected, divided, blurred >>

(***************************************************************************)
(* Frames with their length in front: the header, then the body, each by   *)
(* one recv whose result is published as it is.                            *)
(***************************************************************************)
Prefixed == transport = "prefix" /\ connected /\ at = "run" /\ Len(ring) < Room

Publish(n, chunk) ==
  LET pipe == Cut(conns[1].pipe, n)
  IN  /\ conns' = [conns EXCEPT ![1].pipe = pipe]
      /\ ring' = Append(ring, chunk) /\ got' = Append(got, chunk)
      /\ divided' = (divided \/ Ragged(pipe))
      /\ UNCHANGED << transport, client, faults, connected, rx, at, clean,
                      blurred, due >>

\* Part of a header: as many bytes as it has, of what is in the ring by chance.
RecvHeaderCut(n) ==
  /\ Prefixed /\ n < PrefixSize
  /\ Publish(n, [i \in 1 .. n |-> "chance"])

\* How much the recv for the body may return: what is behind a cut frame is no
\* header, and may be any number.
Asked(bytes) == IF IsPrefixed(bytes) THEN 0 .. Length(bytes)
                ELSE 0 .. Len(bytes) - PrefixSize

BodyAhead(n) == Prefixed /\ PrefixSize + n <= Len(Bytes) /\ n \in Asked(Bytes) \ {0}

\* The ring was asked for ReqBuf bytes, whatever the header says.  A longer body
\* may find as many, as the reservation is all the room there is in one piece.
RecvFrame(n) ==
  /\ BodyAhead(n) /\ n <= MaxBody
  /\ Publish(PrefixSize + n, SubSeq(Bytes, PrefixSize + 1, PrefixSize + n))

\* The process ends, and all connections with it.
Terminate(how) ==
  /\ at' = how /\ connected' = FALSE /\ conns' = << >> /\ ring' = << >>
  /\ sock' = [c \in Clients |-> IF sock[c] = "up" THEN "gone" ELSE sock[c]]
  /\ UNCHANGED << transport, tx, frames, faults, rx, history >>

\* If it does not, recv writes on behind the reservation, before
\* varchunk_write_advance asserts that it has not.  An overrun by no more than
\* the chunk's header passes the assertion; nothing is said of what follows.
Overrun(n) == BodyAhead(n) /\ n > ReqBuf /\ Terminate("overrun")

\* Nothing behind the header: an empty chunk at the end of the stream, or when
\* nothing was asked for; otherwise recv returns -1, and varchunk_write_advance
\* asserts that this is not more than the ring has room for.
RecvHeader ==
  /\ Prefixed /\ PrefixSize <= Len(Bytes)
  /\ \/ /\ \/ ~IsPrefixed(Bytes)
           \/ Len(Bytes) = PrefixSize /\ conns[1].end = "closed"
        /\ Publish(PrefixSize, << >>)
     \/ Terminate("abort")

\* The beat thread takes a chunk from the ring.
Drain ==
  /\ ring # << >>
  /\ ring' = Tail(ring)
  /\ UNCHANGED << transport, client, conns, faults, connected, rx, at, history >>

-----------------------------------------------------------------------------
Quota(c) == \E m \in 1 .. 2 : \E msgs \in [1 .. m -> Payloads] : Start(c, msgs)

Fault ==
  \/ \E i \in DOMAIN conns : Break(i)
  \/ conns # << >> /\ \E n \in 1 .. Len(Bytes) : Drop(n)
  \/ \E c \in Clients : tx[c] # << >> /\ \E n \in 1 .. Len(Encode(tx[c][1])) - 1 : SendCut(c, n)

Stream == \/ Accept \/ RecvEnd \/ RecvFull \/ Parse
          \/ conns # << >> /\ \E n \in 1 .. Len(Bytes) :
               Recv(n) \/ RecvHeaderCut(n) \/ RecvFrame(n) \/ Overrun(n)
          \/ conns # << >> /\ RecvHeader

\* Everybody has sent all there is, or waits for a daemon that is no more.
Quiet == /\ \A c \in Clients : \/ sock[c] = "exit"
                               \/ sock[c] = "idle" /\ frames = MaxFrames
                               \/ sock[c] = "none" /\ Ended
         /\ ring = << >>
         /\ UNCHANGED vars

Next == \/ \E c \in Clients : Quota(c) \/ Client(c)
        \/ Fault \/ Stream \/ Drain \/ Quiet

Spec == Init /\ [][Next]_vars

\* monobusc calls lv2_osc_stream_run until its message is sent, the daemon's main
\* thread lv2_osc_stream_pollin again and again; the beat thread drains the ring.
FairSpec == /\ Spec
            /\ \A c \in Clients : WF_vars(Client(c))
            /\ WF_vars(Stream)
            /\ WF_vars(Drain)
-----------------------------------------------------------------------------
(***************************************************************************)
(* Properties.                                                             *)
(***************************************************************************)
TypeOK ==
  /\ transport \in Transports
  /\ tx \in [Clients -> Seq(Payloads)]
  /\ sock \in [Clients -> {"idle", "none", "up", "shut", "gone", "exit"}]
  /\ \A i \in DOMAIN conns :
       /\ conns[i].client \in Clients \cup {"tty"}
       /\ conns[i].end \in {"open", "closed", "lost"}
       /\ conns[i].sent \in Seq(Payloads)
  /\ connected \in BOOLEAN /\ at \in {"run", "parse", "abort", "overrun"}
  /\ (connected => conns # << >> /\ ~Ended)
  /\ Len(rx) <= RxSize /\ Len(ring) <= Room
  /\ frames \in 0 .. MaxFrames /\ faults \in 0 .. MaxFaults
  /\ {clean, divided, blurred} \subseteq BOOLEAN
  /\ due \in Seq(Payloads)

\* A SLIP frame that arrives whole in one receive is dispatched by it, unless the
\* ring is full, whatever became of the frames before it: what was divided,
\* refused or lost, or left in rx_buf by another connection, costs at most the
\* frame behind it.
UndividedFramesArrive == at = "run" => due = << >>

\* As long as receives end where frames do, and the daemon runs, what is
\* dispatched and what is on its way are together what was sent: nothing is lost,
\* added or reordered.  What it asks for behind a header is then the message that
\* is next and not a byte more, so that none but one longer than ReqBuf can run
\* over the reservation: that is not checked (Overrun), and ends all order.
WholeFramesInOrder ==
  connected /\ at = "run" /\ clean /\ ~divided =>
    LET l == conns[1]
        coming == [i \in DOMAIN l.pipe |-> l.pipe[i].payload]
    IN  \/ l.torn \/ l.end = "lost"
        \/ /\ got \o coming = l.sent
           /\ transport = "prefix" /\ PrefixSize <= Len(Bytes) =>
                Asked(Bytes) = 0 .. Len(coming[1])

\* The same wherever receives end: "is there remaining chunk for next call?"
\* is what _lv2_osc_stream_run_tcp keeps the rest of rx_buf for.
FramesInOrder ==
  connected /\ clean /\ ~conns[1].torn => IsPrefix(got, conns[1].sent)

\* A client that has closed, or was lost, does not keep the stream from the
\* next one.
ConnectionReleased ==
  (connected /\ conns[1].end # "open") ~> (~connected \/ Ended)

\* A client gets rid of its messages and exits, however often it has to connect
\* and to send again, unless rx_buf is full: then every connection is closed as
\* soon as it is accepted.
ClientGetsThrough ==
  \A c \in Clients :
    (sock[c] # "idle") ~> (sock[c] = "exit" \/ Ended \/ Limit = 0)
=============================================================================
