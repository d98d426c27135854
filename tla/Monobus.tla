------------------------------- MODULE Monobus -------------------------------
(***************************************************************************)
(* What travels over the MONOBUS: the beat thread turns the canvas by a    *)
(* quarter, puts it into messages that are escaped, checksummed and framed *)
(* on both ends, and writes them to a display that sees nothing but bytes. *)
(* A transmission may fail with any part of the message under way, in any  *)
(* session, and is never repeated.  The display is external: it undoes     *)
(* what monobus_message does, and keeps what it got when a session ends.   *)
(*                                                                         *)
(* A byte is the set of its bits that are one; xor is the symmetric        *)
(* difference.                                                             *)
(***************************************************************************)
EXTENDS Integers, Sequences, FiniteSets, SequencesExt

CONSTANTS
  StrideSer,   \* STRIDE_SER: bytes in a row of the display
  HeightSer,   \* HEIGHT_SER: rows of the display
  Pictures     \* what clients draw: sets of lit pixels of the canvas

WidthSer == 8 * StrideSer
LengthSer == StrideSer * HeightSer

\* <<row, column>> on a canvas of HEIGHT_NET by WIDTH_NET.
Pixel == (0 .. WidthSer - 1) \X (0 .. HeightSer - 1)

ASSUME SizeAssumption == StrideSer \in Nat \ {0} /\ HeightSer \in Nat \ {0}
ASSUME PicturesAssumption == Pictures \subseteq SUBSET Pixel

VARIABLES
  pc,          \* what the beat thread does next
  canvas,      \* pixels for which _get_bit is true
  bitmap,      \* led_outdat.bitmap: <<byte, bit>> that are one
  done,        \* the flag both threads and the signal handler store to
  reconnect,   \* the flag that tells main to build another session
  serving,     \* main is past line 694
  display,     \* bytes since the last FRAMING, the bitmap in memory and the
               \* one that is shown, the message accepted last, if any, since
               \* the last transmission began
  sent,        \* history: what that transmission has sent, if it was whole
  whole        \* history: all transmissions of this frame were

vars == << pc, canvas, bitmap, done, reconnect, serving, display, sent, whole >>

-----------------------------------------------------------------------------
(***************************************************************************)
(* monobus_message.                                                        *)
(***************************************************************************)
Bit == 0 .. 7
Weight == << 1, 2, 4, 8, 16, 32, 64, 128 >>
Byte(n) == {i \in Bit : (n \div Weight[i + 1]) % 2 = 1}
Xor(a, b) == (a \ b) \union (b \ a)
Not(a) == Bit \ a

FRAMING == Byte(126)
ESCAPE == Byte(125)

Status == Byte(128)
LedSetup == Byte(176)
LedOutset == Byte(192)
LedOutdat == Byte(208)
LedOutput == Byte(224)
Id == Byte(2)
Seed == Byte(255)
Flip == Byte(32)

\* The exclusive or of all bytes: the bits an odd number of them has.
Parity(data) ==
  {b \in Bit : Cardinality({i \in DOMAIN data : b \in data[i]}) % 2 = 1}

Crc8(seed, data) == Not(Xor(Not(seed), Parity(data)))

\* monobus_message with one of the two special bytes forgotten.
StuffedFramingOnly(b) == IF b = FRAMING THEN << ESCAPE, Xor(b, Flip) >> ELSE << b >>

Stuffed(b) ==
  IF b \in {FRAMING, ESCAPE} THEN << ESCAPE, Xor(b, Flip) >> ELSE << b >>

Body(command, payload) ==
  << command \union Id >> \o FlattenSeq([i \in DOMAIN payload |-> Stuffed(payload[i])])

\* With a checksum that is not escaped.
MessageCrcBare(command, payload) ==
  << FRAMING >> \o Body(command, payload)
    \o << Crc8(Seed, Body(command, payload)) >> \o << FRAMING >>

\* With a separator behind each message only.
MessageClosed(command, payload) ==
  Body(command, payload) \o Stuffed(Crc8(Seed, Body(command, payload)))
    \o << FRAMING >>

\* The checksum is that of the bytes on the wire, escapes included.
Message(command, payload) ==
  << FRAMING >> \o Body(command, payload)
    \o Stuffed(Crc8(Seed, Body(command, payload))) \o << FRAMING >>

Setup == [i \in 1 .. 17 |-> Byte(
  << 0, 255, 47, 16, 32, 64, 96, 144, 192, 240, 3, 19, 51, 83, 131, 179, 227 >>[i])]
Outset == [i \in 1 .. 8 |-> Byte(<< 1, 0, 0, 0, 0, 0, LengthSer, 7 >>[i])]
Bytes(map) == [i \in 1 .. LengthSer |-> {b \in Bit : << i - 1, b >> \in map}]
Outdat(map) == << Byte(255), Byte(LengthSer) >> \o Bytes(map)

-----------------------------------------------------------------------------
(***************************************************************************)
(* The bitmap.                                                             *)
(***************************************************************************)
\* Where pixel x of row y goes, in a row one byte too far right.
PlaceOff(x, y) == << y * StrideSer + StrideSer - (x \div 8), x % 8 >>

\* Where it goes when rows are filled from their first byte on.
PlaceForward(x, y) == << y * StrideSer + (x \div 8), x % 8 >>

Place(x, y) == << y * StrideSer + StrideSer - (x \div 8) - 1, x % 8 >>

\* Without the memset in front of the loops.
TurnedOver(lit) == bitmap \union {Place(px[1], px[2]) : px \in lit}

Turned(lit) == {Place(px[1], px[2]) : px \in lit}

-----------------------------------------------------------------------------
(***************************************************************************)
(* The display.  It collects bytes between two FRAMINGs, and accepts them  *)
(* as a message if they have the checksum and the length of one.           *)
(***************************************************************************)
\* Escapes undone; an ESCAPE goes, and changes the byte behind it.
Plain(bytes) ==
  FlattenSeq([i \in DOMAIN bytes |->
    IF bytes[i] = ESCAPE THEN << >>
    ELSE IF i > 1 /\ bytes[i - 1] = ESCAPE THEN << Xor(bytes[i], Flip) >>
    ELSE << bytes[i] >>])

\* How many bytes at the end of a message are its checksum.
CrcSize(bytes) ==
  IF Len(bytes) > 1 /\ bytes[Len(bytes) - 1] = ESCAPE THEN 2 ELSE 1

Intact(bytes) ==
  LET body == SubSeq(bytes, 1, Len(bytes) - CrcSize(bytes)) IN
  /\ body # << >> /\ Last(bytes) # ESCAPE
  /\ Plain(SubSeq(bytes, Len(body) + 1, Len(bytes))) = << Crc8(Seed, body) >>

Lengths(command) ==
  CASE command = LedSetup  \union Id -> 17
    [] command = LedOutset \union Id -> 8
    [] command = LedOutdat \union Id -> 2 + LengthSer
    [] OTHER -> 0

\* What a display does with the bytes between two FRAMINGs.
Accept(d, bytes) ==
  LET plain == Plain(SubSeq(bytes, 1, Len(bytes) - CrcSize(bytes)))
      payload == Tail(plain)
  IN
  IF ~ Intact(bytes) \/ Len(payload) # Lengths(plain[1]) THEN d
  ELSE [d EXCEPT
    !.got = plain,
    !.memory = IF plain[1] = LedOutdat \union Id
               THEN SubSeq(payload, 3, Len(payload)) ELSE @,
    !.shown = IF plain[1] = LedOutput \union Id THEN d.memory ELSE @]

HearByte(d, b) ==
  IF b = FRAMING THEN [Accept(d, d.line) EXCEPT !.line = << >>]
  ELSE [d EXCEPT !.line = Append(@, b)]

Hear(d, bytes) ==
  LET heard[i \in 0 .. Len(bytes)] ==
        IF i = 0 THEN d ELSE HearByte(heard[i - 1], bytes[i])
  IN  heard[Len(bytes)]

-----------------------------------------------------------------------------
(***************************************************************************)
(* The beat thread.                                                        *)
(***************************************************************************)
Dark == [i \in 1 .. LengthSer |-> {}]

Init ==
  /\ pc = "status"
  /\ canvas = {} /\ bitmap = {}
  /\ done = FALSE /\ reconnect \in BOOLEAN /\ serving = FALSE
  /\ display = [line |-> << >>, got |-> << >>, memory |-> Dark, shown |-> Dark]
  /\ sent = << >>
  /\ whole = FALSE

\* _ftdi_xmit and what follows it: the whole message is written, or it fails
\* with part of it, perhaps all of it, on the wire.
Xmit(command, payload) ==
  LET m == Message(command, payload) IN
  \E n \in 0 .. Len(m), ok \in BOOLEAN :
    /\ ok => n = Len(m)
    /\ display' = Hear([display EXCEPT !.got = << >>], SubSeq(m, 1, n))
    /\ sent' = IF ok THEN << command \union Id >> \o payload ELSE << >>
    /\ done' = (done \/ ~ ok)

SendStatus ==
  /\ pc = "status"
  /\ Xmit(Status, << >>)
  /\ pc' = "setup"
  /\ UNCHANGED << canvas, bitmap, reconnect, serving, whole >>

SendSetup ==
  /\ pc = "setup"
  /\ Xmit(LedSetup, Setup)
  /\ pc' = "test"
  /\ UNCHANGED << canvas, bitmap, reconnect, serving, whole >>

Test ==
  /\ pc = "test"
  /\ pc' = IF done THEN "last outset" ELSE "drain"
  /\ UNCHANGED << canvas, bitmap, done, reconnect, serving, display, sent, whole >>

\* Messages from the ring and from the list, any number of them.
Drain ==
  /\ pc = "drain"
  /\ canvas' \in Pictures
  /\ pc' = "outset"
  /\ UNCHANGED << bitmap, done, reconnect, serving, display, sent, whole >>

SendOutset ==
  /\ pc \in {"outset", "last outset"}
  /\ Xmit(LedOutset, Outset)
  /\ pc' = IF pc = "outset" THEN "outdat" ELSE "last outdat"
  /\ whole' = (sent' # << >>)
  /\ UNCHANGED << canvas, bitmap, reconnect, serving >>

SendOutdat ==
  /\ pc = "outdat"
  /\ bitmap' = Turned(canvas)
  /\ Xmit(LedOutdat, Outdat(bitmap'))
  /\ pc' = "output"
  /\ whole' = (whole /\ sent' # << >>)
  /\ UNCHANGED << canvas, reconnect, serving >>

\* The last frame is dark.
SendLastOutdat ==
  /\ pc = "last outdat"
  /\ bitmap' = {}
  /\ Xmit(LedOutdat, Outdat(bitmap'))
  /\ pc' = "last output"
  /\ whole' = (whole /\ sent' # << >>)
  /\ UNCHANGED << canvas, reconnect, serving >>

SendOutput ==
  /\ pc \in {"output", "last output"}
  /\ Xmit(LedOutput, << >>)
  /\ pc' = IF pc = "output" THEN "advance" ELSE "end"
  /\ whole' = (whole /\ sent' # << >>)
  /\ UNCHANGED << canvas, bitmap, reconnect, serving >>

Advance ==
  /\ pc = "advance"
  /\ pc' = "test"
  /\ UNCHANGED << canvas, bitmap, done, reconnect, serving, display, sent, whole >>

-----------------------------------------------------------------------------
(***************************************************************************)
(* main, which starts the thread, lets it run on, joins it, and perhaps    *)
(* builds another session; and signals.                                    *)
(***************************************************************************)
Serve ==
  /\ ~ serving
  /\ serving' = TRUE /\ done' = FALSE
  /\ UNCHANGED << pc, canvas, bitmap, reconnect, display, sent, whole >>

Sig ==
  /\ serving
  /\ reconnect' = FALSE /\ done' = TRUE
  /\ UNCHANGED << pc, canvas, bitmap, serving, display, sent, whole >>

\* The next session of the same daemon, which keeps its canvas, and done as it
\* is until main resets it.
Reconnect ==
  /\ pc = "end" /\ serving /\ done /\ reconnect
  /\ pc' = "status" /\ serving' = FALSE
  /\ UNCHANGED << canvas, bitmap, done, reconnect, display, sent, whole >>

\* Another daemon on the same display.
Restart ==
  /\ pc = "end" /\ serving /\ done /\ ~ reconnect
  /\ pc' = "status" /\ serving' = FALSE /\ done' = FALSE
  /\ reconnect' \in BOOLEAN
  /\ canvas' = {} /\ bitmap' = {}
  /\ UNCHANGED << display, sent, whole >>

Next ==
  \/ SendStatus \/ SendSetup \/ Test \/ Drain \/ SendOutset \/ SendOutdat
  \/ SendLastOutdat \/ SendOutput \/ Advance
  \/ Serve \/ Sig \/ Reconnect \/ Restart

Spec == Init /\ [][Next]_vars

-----------------------------------------------------------------------------
(***************************************************************************)
(* Properties.                                                             *)
(***************************************************************************)
\* Bits are set within led_outdat.bitmap only (monobusd.c, 579-584),
\* whatever is drawn.
TypeOK ==
  /\ pc \in {"status", "setup", "test", "drain", "outset", "outdat", "output",
             "advance", "last outset", "last outdat", "last output", "end"}
  /\ canvas \subseteq Pixel
  /\ bitmap \subseteq (0 .. LengthSer - 1) \X Bit
  /\ done \in BOOLEAN /\ reconnect \in BOOLEAN /\ serving \in BOOLEAN
  /\ whole \in BOOLEAN

\* A message that was written whole is accepted by the display, whatever was
\* left on the wire by the transmissions before it (monobus.c, 36-98: the
\* separator in front, the bytes and the checksum that are escaped).
WholeReceived == sent # << >> => display.got = sent

\* What a display with PBM rows shows.
Showing(map) ==
  {px \in (0 .. HeightSer - 1) \X (0 .. WidthSer - 1) :
     7 - (px[2] % 8) \in map[px[1] * StrideSer + (px[2] \div 8) + 1]}

\* A picture of the canvas, turned clockwise by a quarter.
Quarter(lit) == {<< px[2], WidthSer - 1 - px[1] >> : px \in lit}

\* At the end of a frame whose messages were all written whole, the display
\* shows the canvas, turned ("create rotated bitmap in PBM format",
\* monobusd.c, 570), and nothing at the end of the session.
PictureShown ==
  /\ pc = "advance" /\ whole => Showing(display.shown) = Quarter(canvas)
  /\ pc = "end" /\ whole => Showing(display.shown) = {}

\* Whatever transmissions fail, in this frame or an earlier one, the display
\* shows a picture that was drawn, whole, or none, and not a mixture of several.
OnePicture ==
  \E lit \in Pictures \union {{}} : Showing(display.shown) = Quarter(lit)
=============================================================================
