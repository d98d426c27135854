# Verification of monobus

TLA+ models of monobus, the OSC to Lawo MonoBus bridge: a
daemon, `monobusd`, that drives a LED display on a MONOBUS over an
FTDI adapter from OSC messages it receives over the network, and a client,
`monobusc`, that sends it bitmaps. TLC checks the models on small instances;
TLAPS proves the main invariants, and that the detailed models implement their
abstract specifications, for every value of the constants.

## The system

| component | source | state | operations |
|---|---|---|---|
| varchunk ring | `varchunk/varchunk.h` | `head`, `tail`, the body, the producer's reservation (`rsvd`, `gapd`) | `write_request`(`_max`), `write_advance`, `read_request`, `read_advance`, `new`, `free` |
| canvas and OSC tree | `monobus.c`, `monobus.h` | two 32 bit sets per pixel, `mask` and `bits` | draw and clear a rectangle on one of 32 priorities; look a pixel up |
| OSC reader | `osc.lv2/osc.lv2/reader.h`, `util.h` | a cursor, the argument at hand | dispatch a message over a tree, iterate over its arguments and over the items of a bundle |
| stream | `osc.lv2/osc.lv2/stream.h` | sockets, `connected`, `rx_buf`, `rx_off`, `tx_buf` | `init`, `deinit`, `pollin`/`run`: connect or accept, send, receive, over UDP, TCP (SLIP or prefix framed) or serial |
| daemon | `monobusd.c` | `done`, `reconnect`, rings, stream, FTDI handle, beat thread | build, serve and release a session; reconnect; signals |
| beat thread | `monobusd.c`, `_beat` | time of the next beat, list of scheduled messages, bitmap | wake, drain the ring, serve the schedule, transmit |
| MONOBUS framing | `monobus.c` 23-98, `monobusd.c` 568-587 | none | escape and checksum a message, rotate the bitmap |
| client | `monobusc.c` | rings, stream | write one message, send it |
| OSC writer | `osc.lv2/osc.lv2/writer.h` | a cursor, the open bundle and item of each caller | serialise messages, bundles and items into a buffer |
| forge, LV2 helpers | `osc.lv2/osc.lv2/forge.h`, `osc.h`, `endian.h` | none | conversions between OSC and LV2 atoms, which neither program calls |

How they interact: the main thread polls the stream, which writes every packet
it receives into the `rx` ring through the driver callbacks. The beat thread
takes packets from that ring once per frame, and either handles them, which
draws on the canvas, or puts them on its list when they carry a time tag; it
looks every pixel up and sends the frame to the display, half duplex, through
the FTDI handle. Both threads, and the signal handler on either of them, share
the atomics `done` and `reconnect`. Nothing is persisted.

What is hard here: a lock-free ring shared by two threads, with chunks that
wrap; sessions that are built and torn down around a thread that uses them,
with failures at each step and signals at any moment; frames that TCP or
a serial line cuts anywhere, decoded in place; packets that are cut inside nested
bundles; rectangles that may lie anywhere relative to the
canvas; and a beat that must make up for its delays. `PROJECT.json` lists these
hazards line by line.

What makes each component correct: the ring is a FIFO of whole chunks, in which
neither side touches what belongs to the other; the canvas is a stack of
independent layers; a frame that was sent arrives, whole and in order,
or its client sends it again; what was written as OSC is what is read; a
session that is to end does end, and releases what it holds exactly when
nobody uses it any more; the beat does not drift and messages are handled when
their time has come; a message on the MONOBUS is understood whatever was left on
the wire before it; and from end to end, what arrives at the socket is on the
display with the next frame.

## The modules

| module | models | checked by | proofs |
|---|---|---|---|
| `ChunkFifo` | what a ring promises: a queue of chunks, the oldest of which is looked at in place | - | - |
| `Varchunk` | `varchunk.h` | `MCVarchunk` | `VarchunkProofs` |
| `Layers` | what the canvas promises: one layer per priority | - | - |
| `Canvas` | `monobus.c`, dispatch and argument loop of `reader.h`, `_get_bit` of `monobusd.c` | `MCCanvas` | `CanvasProofs` |
| `Daemon` | `main`, `_loop`, initialisation, release, `_sig`, the order of `_beat`'s transmissions | `MCDaemon` | `DaemonProofs` |
| `Beat` | `_beat` in time, with the schedule | `MCBeat` | `BeatProofs` |
| `Pattern` | `lv2_osc_pattern_match`, and `fnmatch` as far as OSC patterns use it | `MCCanvas` | - |
| `Stream` | `_lv2_osc_stream_run_tcp` and `_run_ser` with both framings, from clients to daemon | `MCStream` | `StreamProofs` |
| `Osc` | `writer.h`, `reader.h` and the recursion of `_handle_osc_packet` | `MCOsc` | `OscProofs` |
| `Monobus` | `monobus_message` and its checksum, the rotation, all that `_beat` transmits, a display | `MCMonobus` | `MonobusProofs` |
| `Mirror` | what both programs promise together: messages are handled in order of arrival, the display shows what they add up to | - | - |
| `Bridge` | `monobusc`, UDP, main, ring, beat thread, canvas and display, composed from what the modules above show of each | `MCBridge` | `BridgeProofs` |

Definitions called variants (in the comments in front of them) are plausible
mistakes; each of them, put in place of the definition behind it, makes one
of the properties fail. They take no part in a specification.

### Varchunk

Memory is a function from aligned offsets to words, which are element headers
or payload; whoever writes a header destroys the payload and the other way
round. A step ends at each access the other thread can see. The producer's
operations are `WriteRequest` and `WriteRefused`
(`varchunk_write_request_max`, the three places an element can go), `Fill` (the
caller's copy), `Abandon` (a receive that brought nothing), `WriteHeader` and
`PublishHead` (`varchunk_write_advance`); the consumer's are `ReadLoad`,
`SkipGap`, `ReadAfterGap`, `ReadHere` and `ReadAdvance`. Both programs create
their rings with `release_and_acquire = true`, so that what is stored before
the store of an index is seen by whoever loads that index; hence an
interleaving of steps is the right semantics. Sizes and lengths are far below
the width of `size_t`; `% Size` stands for `& mask`. `queue` and `at` are
history variables, from which the code never reads.

### Canvas

A pixel's `mask` and `bits` are sets of priorities. A message is the set of
entries of `tree_priority` that its path pattern matches, and a list of typed
arguments. `Enter` is one turn of the loop over the tree: each entry that
matches gets a clone of the reader, but all share one argument, so that
`cur` is not reset between them, only when the message is `Done`. One step
handles one argument, `Leave` is the code behind the argument loop. A blob is
the set of its bits that are one. The pixels that are `Touched` are those the
loops of `_set_pixels` and `_clr_pixels` index, on the canvas or not.

Integers have the width of the code's, `Half` being 2^31: arguments are `Int32`,
and what the code computes as `unsigned` wraps (`Stride`, `Byte`; `Wrap` for the
product that becomes the `int32_t` `tot_len`). `-off` and `limit - off` are signed:
for the least integer, and for those less than the canvas's size above it, they
overflow (`Overflows`), which C leaves undefined; with integers that wrap the loops
would run over the whole height of the canvas, at places far from the blob. A
product that wraps lets a short blob pass the check, and the loops read behind it
(`Strays`). In either case the step is `Stray`, and nothing is said of what follows
(`Astray`).

Which entries a path pattern matches is `Pattern`'s: braces are rewritten for
the extended `fnmatch`, whose recursion over pattern and name is a recursive
function of two positions. `MCCanvas` derives the messages' priorities from
patterns, and assumes, for TLC to evaluate, that every well-formed pattern of up to
five characters matches what choosing among its alternatives would match.

### Daemon

`mpc` is where main is (`osc`, `ftdi`, `thread`: the three initialisations of
`_loop`; `reset`: line 694; `serve` and `poll`: its loop; `join`, `release`;
`check` and `sleep`: the loop in `main`), `bpc` where the beat thread is. A
signal runs `_sig` on one of the threads, which stands still meanwhile: two
stores, one step each. Every initialisation may fail at each of its calls, as
may every transmission. Pointers to rings are null, live or dangling, as
`varchunk_free` does not reset them. `-T` is a device that never fails.

### Beat

Times are integers relative to the current beat, `phase` is the beat within
its second (`to.tv_nsec`). A transmission takes `XmitMin .. XmitMax`; sleeping
until a beat that has passed takes no time. `Due` is the conversion of a time
tag, which loses the fraction. The list holds the messages as `_sched_append`
arranges them; `tag` is what a time tag said, fraction included, which the code
forgets and only `Early` looks at. The last frame, which darkens the display, and a
`done` that main overwrites, are part of `Daemon`.

### Stream

A connection is a pipe of bytes, kept together as the pieces that were sent,
which only the properties look at. A client connects, sends from its ring, and
closes; a send may be cut short, in which case the chunk stays in the ring and is
sent again from its first byte; a connection may break, after which the client
connects again. `conns` is the accepted connection and behind it the backlog of
`listen(sock, 1)`. The daemon's `Recv` takes any number of bytes, up to what
`rx_buf` has room for (`Limit`); `Parse` is one round of the loop behind it,
including the ring that may be full; `Decode` is `lv2_osc_slip_decode_inline`, a
function over positions that also gives what it leaves in the buffer, as it
writes over its input. The next client finds `rx_buf` as the one before left it.

With prefix framing nothing is kept in `rx_buf`: `RecvHeaderCut`, `RecvFrame`,
`Overrun` and `RecvHeader` are the pairs of receives of lines 1105 to 1122, neither of which is
checked, with every number of bytes the second may get. What it gets for a header
that is none is any number of bytes. If it fails, the length handed to
`varchunk_write_advance` is -1 and the assertion there ends the process
(`Terminate`, with `at = "abort"`). The second receive goes straight into the ring,
where `ReqBuf` bytes have been asked for (`LV2_OSC_STREAM_REQBUF`), and asks for as
many as the prefix says. A longer body may still find room, as the reservation is
all that is free in one piece, `MaxBody` at most (`RecvFrame`); or it does not, and
is written on behind the reservation, before the assertion compares the two
(`Overrun`, which ends with `at = "overrun"`, as nothing is said of what follows).
How much room there is is not counted in bytes here: beyond `ReqBuf` both happen.

A serial line is one connection that is always there, without flow control: it
may lose bytes (`Drop`), and a full `rx_buf` is no end of it. There is SLIP only,
as in the code.

Bytes are END, ESC, their replacements and letters; a length is one byte, which
`Digit` gives, behind one that is zero. `Escaped` are the bytes behind an ESC,
`First` is where a frame begins, `Undone` what becomes of a byte; `Taken` is how
many pieces a receive takes entirely, `Cut` what it leaves, `Frames` the messages
among pieces. `got`, `clean`, `divided`,
`blurred` and `due` are history variables.

### Osc

Memory is a sequence of words of four bytes, each of which holds what was written
there. The writer's functions that add to a message are `AddPath` and `AddPiece`,
one step per call and so per check of the space; `PushBundle`, `PushItem`,
`PopItem` and `PopBundle` are the others, with what pop takes back when nothing
has been written in between. `open` holds the frames the callers keep on their
stacks. `Arrive` is the way to the daemon, on which `recvfrom` may cut a datagram
to the room of the ring. The reader is `_handle_osc_packet` with the macros of
`reader.h`: `call` is the packet it is called with, `stack` the bundles of the
calls that wait for it, one reader and item each, `arg` the message at hand. A
`NULL` from `lv2_osc_reader_arg_begin` or `_next` is dereferenced by the caller
(`reader.h` 616, `monobus.c` 196-199): `fault`, which is where the model stops.

### Monobus

A byte is the set of its bits that are one, so that exclusive or is the
symmetric difference and the checksum the parity of each bit. `Message` is
`monobus_message`; `Setup`, `Outset`, `Outdat` are the payloads; `Turned` is the
loop of `_beat` that turns the canvas, over `Place`, which is its index
arithmetic. A frame is the steps of `_beat` between two beats. A transmission
that fails leaves any part of its message on the wire, all of it included, and
sets `done`; main may reset `done` once, after the thread has been created
(`Serve`). The display is external: it collects the bytes between two FRAMINGs,
and accepts them if checksum and length are right (`HearByte`; `Hear` for bytes one
after the other); it keeps its state from one session to the next, and from one
daemon to the next.

### Bridge

Each part is as coarse as its own module allows. The ring is the queue that
`Varchunk` implements: the request, the receive straight into the ring and the
publication are steps of their own (`Request`, `Recv`, `Publish`), and the beat
thread looks at a chunk in place (`Drain`) and releases it in a later step
(`ReadAdvance`). The canvas is `Layers`, with one pixel. A frame is one step,
which shows the canvas or, when it fails, perhaps leaves what was shown; that
this is so is what `Monobus` shows. A process is started with one message or
with none that can be written (`Build`), sends and exits; a `sendto` that fails
is repeated and changes nothing. UDP loses, reorders and duplicates; a full
socket drops nothing here, as a datagram it does not take may still be lost or
come later. The sessions end because of a transmission that fails; signals are
in `Daemon`. `pending` is what `Mirror` calls by that name: ring, chunk in main's
hands, and socket.

## What the runs show

| run | instance | states | shows |
|---|---|---|---|
| `varchunk` | 8 words, chunks of 1 and 2 words, 2 payloads | 102 329 | `NoOverrun`, `HeldIntact`, `UnreadIntact`; the ring implements `ChunkFifo`; every chunk leaves; a producer that was refused finds room again |
| `varchunk_maximum` | 8 words | - | violated: trusting the maximum overruns the ring |
| `daemon` | 2 signals, any number of sessions | 14 574 | resources outlive their users and no longer; no double release but for lack of memory; dark at the end; stops and signals take effect |
| `daemon_xmit` | no signals | - | violated: a transmission that fails early does not end the session |
| `canvas` | 2 x 2 pixels, 2 priorities, bytes of 2 bits, integers of 5 | 2 139 336 | memory safety of all geometries whose bounds and sizes stay within the integers, `Layers` is implemented, the topmost layer is shown, pictures land where they should, nothing else changes |
| `canvas_pbm` | the same | - | violated: rows that end inside a byte are read with their padding in front |
| `stream` | 3 transports, 2 clients, 2 messages with bytes to escape, `rx_buf` of 6, ring of 1 that is sure of 1 byte and may have 2, 1 fault | 220 656 | frames received whole arrive, in order; clients that are gone are let go; those that are not get rid of their messages |
| `stream_split` | SLIP, plain messages, `rx_buf` of 10, no fault | - | violated: a frame in two receives is lost |
| `osc` | a buffer of 24 words, 4 messages, 2 time tags, bundles 2 deep, 3 messages a packet, cut anywhere behind the second word | 314 422 | what is written is what is read; what is cut is read up to the cut; no reader leaves its packet |
| `beat` | 2 frames a second, 0.1 s per transmission, 3 messages | 273 000 | no drift, nothing a second or more early, everything handled in the end |
| `monobus` | a display of 2 rows of 2 bytes, 2 pictures with bytes to escape | 145 914 | whole messages are understood; the display shows the canvas, turned; never a mixture of pictures |
| `bridge` | 2 clients, 2 priorities, 3 messages, ring of 2, socket of 1, 3 arrivals, 1 failure | 1 336 163 | the ring never overruns; nothing is lost, doubled or reordered behind the socket; each frame shows what was in the ring; it all settles |

Why the bounds are enough. A ring of eight words holds two to four chunks; with
chunks of two and three words (header included) the indices come to rest at
every offset, elements wrap with and without a gap, and both ways of being full
occur. On a canvas of two by two pixels the messages overlap each of its edges
and corners; a byte of two bits gives rows of one byte, of two bytes, and of a
byte and a half, and two priorities give every order of two layers. With integers
from -16 to 15 there are offsets at both ends of them, those that overflow and the
first ones that do not, sizes that are negative, and products that wrap to less than
the blob has; these are drawn and cleared on one priority. Signals
beyond the second meet the same states as the second: `reconnect` is
false by then and is never set again. In `stream` two
clients with one message each, or one with two, meet every state of buffer and
backlog, with receives that end after every byte; `rx_buf` holds the longest frame
and one byte more, as the real one does (rings of 8192 bytes hold chunks of up to
8184, which are 16 370 bytes when every byte is escaped, and `rx_buf` is one of
16 384). The one fault is a send cut short, a broken connection, or bytes lost
after any number of others. Of the two messages one is longer than `ReqBuf`. In `osc` the buffer has room for two bundles in each
other and some messages, so that every call meets a buffer that is full; arguments
have no value, one word, two, or as many as they say, and a packet is cut at every
word behind the second, as the ring has room for `LV2_OSC_STREAM_REQBUF` bytes at least. In `beat` three messages can be out of order in every
way the comparison in `_sched_append` tells apart; their times are in the past,
in the current second and in the next two. In `monobus` the two pictures have no
symmetry, and between them bytes that equal FRAMING and ESCAPE at both ends of a
row, and a checksum that equals FRAMING; each transmission of each session may
fail after every byte, and sessions follow each other without end. The real
bitmap is larger; that the longest message fits `dst` of `_beat` is an assumption
of `MCMonobus` that TLC evaluates. In `bridge` three datagrams fill ring and
socket; the one failure may be that of a hello, a frame, a last frame or a
receive, and a second session follows with what the first has left on the
display and on the canvas.

### Fairness

- `Varchunk`: weak fairness of the consumer, whose loop is the drain loop of the
  beat thread (and the send loop of the stream); the producer may do nothing.
- `Daemon`: weak fairness of each thread and of the return from the handler:
  `poll` returns after a second at most, `sleep` after one, `clock_nanosleep`
  at the next beat, and a started transmission returns.
- `Stream`: weak fairness of each client, which calls `lv2_osc_stream_run` until
  its ring is empty; of the daemon's stream, which main polls again and again; of
  the beat thread, which drains the ring. The network need not be fair: the
  connection either delivers or breaks, and `MaxFaults` says how often.
- `Osc` and `Canvas` have no liveness property: both end by their shape.
- `Beat`: weak fairness of the thread; as a consequence `Drained` is taken at
  some point, which says that the network does not refill the ring for ever
  while it is drained. A liveness property under strong fairness is nowhere
  needed.
- `Bridge`: weak fairness of main and of the beat thread, each as a whole. The
  clients and the network need not do anything; how much they do is bounded by
  `MaxArrivals`, and how often receives and transmissions fail by `MaxFailures`,
  which for `Settles` is the assumption that there is an end to it.
- `Monobus` has no liveness property; that the thread goes on is in `Daemon`.

## What is proved

`VarchunkProofs`, for every size that is a multiple of eight and every set of
lengths, assuming `UseMaximum = FALSE`, that is a producer that writes no more
than it asked for, as SLIP over TCP and the serial stream do. The others do not: a
prefixed frame is received with the length the peer says (`Overrun` in `Stream`), a
datagram with the maximum (`varchunk_maximum`). `IInv` has three parts.
`RingInv` says that the chunks lie one behind the other from tail to head,
wrapping once at most, each with its header and payload in place and each
reachable from the end of the one before it, perhaps by way of a gap.
`ProducerInv` says that the element under construction ends before the body
does and before tail, whatever tail has become since the reservation.
`ConsumerInv` ties the consumer's position to the oldest chunk. `NoOverrun` or
`HeldIntact` alone are not inductive: without the chain of chunks nothing is
known about the header the consumer finds at tail. From `IInv` follow
`TypeCorrect`, `OverrunFree`, `HeldStable`, `UnreadStable`, and with the steps
mapped to those of `ChunkFifo` or to stuttering, `Implementation`.

`CanvasProofs`, for every canvas, number of priorities, width of a byte and of the
integers, and every set of messages: `TypeCorrect`; `MemorySafe`, by arithmetic on
the loop bounds and the length check (a multiple of the stride plus a column stays
below stride times height, and does not wrap), with its exception: what is not
`Moderate`, an offset for which a bound overflows or a picture of 2^31 bytes or
more, may be undefined; `Implementation`, by showing that `Touched` is a rectangle of
the canvas or empty; `TopmostSeen`.

In the same module `PicturesLand` and `NothingElseChanges`, whose
invariant says what the registers of `_priority` hold at each argument: fresh at
the entry of a branch, then the geometry of the message as far as it has been
taken, one argument after the other, and none taken of a message without any;
that a drawing message has its picture behind its fourth integer, with nothing
drawn before; and that it is drawn once it has been taken. The rest is arithmetic:
counting bits from the far end of a row, and bytes from the far end of that, gets
to the place PBM has them in, provided that the row is whole bytes (`Mirrored`).

`OscProofs`, for every size of the buffer, all messages, tags and depths: `IInv`
says that the words in memory are well formed whatever has been taken back, and
that readers nest: no packet reaches beyond the item it is in, no item beyond its
bundle, no argument beyond what has arrived. It takes in addition that nothing is
read while it is being written. `TypeCorrect` and `ReadersStayInside` follow. The
sizes of items are not trusted in that: what holds is what the reader checks.

That what is read is what was written (`WholePacketHeard`,
`CutPacketHeardInPart`) needs what the sizes mean, and that nothing stale is in
between. `LInv` adds it to `IInv` (`LayoutInvariance`), in two parts. `Layout` is
about memory. An item (`Items`) is a frame of the writer that is open, and then it
ends where the writer is, or a word that holds a size, and then it ends there
(`ItemEnd`). Any two items are apart or in each other (`Nested`), and behind each
is another or the end of what is written (`Joined`); the frames that are open are
bundle in item in bundle (`FramesOK`). What begins a packet is a bundle whose first
item is behind its head, or a message laid out piece by piece up to the packet's
end, with no item in it (`PacketsOK`). Messages are told of in the order of their
places: the one at `p` is number `Before(p) + 1` of `told`, with the tag of the
bundle it is in (`Told`, `TagOf`), and there are no others (`ToldOK`). What pop
takes back goes from memory and from the items at once, which is what is left to
prove of `PopItem` and `PopBundle`; every other step only adds behind `ptr`
(`NewPackets`, `GrowPackets`). `Reads` says where the reader stands: each entry of
`stack` at an item of the bundle that the one below is at (`StackOK`), with
`heard` the beginning of `told` up to the place that is read next (`HeardBefore`);
an argument where the layout of its message has it (`ArgOK`). As items join, the
reader of a bundle that is not cut stops exactly at its end (`BehindItem`), and
since an item is only entered when all of it is there, the cut can be met in no
other message than one that is the whole packet. `LInv` was given to TLC before it
was proved, with the instance of `MCOsc` in a buffer of 18 and of 25 words.

Two things in the model were not determined before this proof asked for them: what
a `CASE` with two true arms is (a blob of no bytes in `Found`), and what value an
argument has that takes no space (`IsArg`: none, 0).

`DaemonProofs`, for any number of signals: `IInv` says at which point of main
each resource is held, and that the beat thread exists exactly between
creation and join. From it follow `BeatOwnsItsResources`,
`SessionsLeaveNothing`, `SingleRelease`, `DisplayDark`.

`BeatProofs`, for all rates at which the three transmissions of a frame fit
between two beats (`3 * XmitMax <= Step`): `IInv` bounds the delay at every
step, and how early a frame and a message can be: without a signal not before the
beat (`Punctual`), and less than a second for the fraction that is lost
(`Truncated`). From it follow `PaceKept` and `NeverEarly`. `InsertAppends` shows on the
way that the list of scheduled messages is never sorted. The assumption is not
idle: each transmission takes up to 0.1 s (`monobusd.c` 266), so that no more than
three frames a second are sure to keep pace. The default is two (`monobusd.c`
767); `monobusd.1` line 57 has 25.

`MonobusProofs`, for displays of every size and all pictures: `TypeCorrect`,
that the loops that turn the canvas stay within `led_outdat.bitmap`; `Rotation`,
that what a display with PBM rows shows of `Turned` is the canvas turned by a
quarter, by arithmetic on division and remainder by eight; `WholeMessagesReceived`,
`PicturesShown` and `NoMixture`, the properties of the run. Their invariant
(`Invariance`) is that what the display has heard since the last separator is the
front of one message the daemon sends, that its two bitmaps are pictures that were
drawn, or dark, and what of them the frame has sent so far. Without
it `WholeReceived` is not inductive: the next message opens with a separator, at
which the display judges what was left on the line (`Separated`), and it must not
take that for the message that is being written. It may take it for the one before,
when no more than the closing separator was missing (`AcceptWhole`). Otherwise it
takes nothing (`AcceptPart`): what a cut leaves of a body ends in the middle of an
escape or has too few bytes for its command (`BodyCut`), whatever byte is mistaken
for the checksum. From then on the display hears the message as it was written
(`MessageHeard`), as a separator occurs nowhere in it and undoing the escapes gives
back its payload (`BodyRead`).

In front are lemmas about sequences: about appending, cutting and joining, that
`FlattenSeq` is the function its recursive definition describes, and how it goes
along with `\o`. Induction over a sequence is a statement about a set of sequences
that has the empty one and is closed under `Append` (`SequenceInduction`). It rests
on the order of the naturals being well founded, since the theorems of the library
about induction take an operator. `StreamProofs` begins with those of them it needs,
so that each module of proofs can be read on its own.

`StreamProofs`, for any number of clients, any messages that are not empty, and
`rx_buf` and ring of every size, over all transports and with every fault:
`RoundTrip`, that the decoder gives back what was encoded, from the front of a
buffer and whatever is behind it; `TypeCorrect`, `UndividedArrive` and `OrderKept`,
the invariants of the run. `OrderKept` is about a daemon that runs: over prefixes it
says of the second receive that it asks for the message that is next and for nothing
else, and leaves open whether that fits (`Overrun`). The assumptions are that a
client is not called like the serial line, that different lengths have different
digits, and that every message's length has one where there are prefixes. The proof goes in four steps.

- *The decoder.* By induction over a message: a buffer that it is at the front of
  gives it back, and after each byte of it the decoder is not behind an ESC
  (`OpensReads`). The positions behind an ESC are a recursive function, which is
  only shown to exist as a set (`EscapedExists`, `EscapedIs`).
- *Finding frames again.* `Closed(s)` says that `s` is empty or ends with an END
  behind a byte that is neither END nor ESC. Every message that is not empty leaves
  its frame like that, whatever is in front of it (`ClosedSlip`), so the decoder
  stops at an END of `s` and not behind it (`ClosedEnds`), with a rest that is again
  `Closed` (`ClosedCut`), until the next frame is at the front. The buffer remains such when the decoder, which writes
  over its input, has to keep it (`ClosedKeeps`): the last byte stays where it is,
  as the output is not longer than the input.
- *What a receive takes.* It ends between two pieces or inside one (`CutIs`), and
  what is left has the same form (`LineCut`). The frames it brings whole lie behind
  each other in the buffer, behind something after which the decoder is in step
  (`AwaitedCut`); when it is not known to be (`blurred`), the first of them brings
  it into step (`TailAwaited`). Each round of the loop takes one of these frames or
  something in front of them (`AwaitedParse`).
- *The inductive invariant* `IInv`. `TypeInv`; `Control`, where the daemon is;
  `Lines`, that each connection has frames in its pipe as they were encoded, nothing
  whole behind what was sent short, and before it is accepted all that was sent;
  `Sync`, that what is in `rx_buf`, with the rest of a cut frame behind it, is
  `Closed`, unless it is `blurred`; `Due`, that the frames a receive brought whole
  are still in `rx_buf`, behind something `Closed`; `Order`, that as long as nothing
  was divided, lost or refused, what is dispatched, what is in `rx_buf` and what is
  on its way are what was sent. `UndividedFramesArrive` alone says nothing of the
  loop it is about, and `Due` is not kept by a receive unless `Sync` says what the
  receives before it have left; `WholeFramesInOrder` speaks of the time between two
  rounds of the loop, and says nothing of the buffer within one.

`BridgeProofs`, for any clients, messages, priorities, rooms and bounds:
`Invariance`, whose invariant `IInv` ties each layer to the last message for it,
keeps the room main has found in the ring until it publishes, keeps the chunk in
hand in the ring, and counts what is due with the next frame. From it follow
`Implementation`, that every step is one of `Mirror`'s or invisible there, which
needs that the canvas shows what the handled messages add up to (`LookIsLit`)
and that moving a chunk along changes nothing in the concatenation of ring, hand
and socket; and `FramesShowTheRing`.

Only model-checked: everything that must happen eventually
(`EveryChunkLeaves`, `NoStarvation`, `StopEndsSession`, `SignalHeeded`,
`ConnectionReleased`, `ClientGetsThrough`, `EveryMessageHandled`, `Settles`), as
liveness under fairness is out of the prover's reach; and `Pattern`, which is
recursive operators. Every safety invariant that a run checks of the other modules
is a theorem as well.

## What the code does that its documents do not say

The four runs that end in a violation are described under `findings` in
`PROJECT.json`. The models also show, without a document to compare with:

- signals that come between two sessions, or before line 694 of the next one,
  do not end the daemon (`SignalHeeded` leaves them out);
- when memory runs out on a reconnect, a ring is freed twice
  (`NoDoubleRelease` excepts it);
- a path pattern that matches several priorities draws on the first and clears
  the others, as they share one argument;
- a picture or a clear whose offset is the least integer, or less than the canvas's
  size above it, and a picture of 2^31 bytes or more, is undefined (`Stray`;
  `InBounds` excepts them, `Moderate`);
- a scheduled message is handled up to a second before its time tag, and up to one
  more when a signal has ended the sleep (`NotEarly` says no earlier than that); and
  it may wait for one that is due later but came earlier;
- what is left in `rx_buf` of one connection is put in front of the next one's
  stream, and costs it at most one frame (`blurred`);
- a `rx_buf` that is full of what is no frame stays full: every later connection
  is accepted and closed at once, and a serial line hears nothing any more
  (`ClientGetsThrough` excepts it);
- the body of a frame with a prefix that has not arrived by the time its header
  has ends the daemon by an assertion; one that has arrived in part is published
  in part, and the rest is taken for headers (`divided`);
- one that is longer than what is free in one piece is written behind it, as is
  noted in `stream.h` 1113 ("FIXME check prefix <= max_len"), and an overrun by no
  more than the header of a chunk passes the assertion in `varchunk.h` 267
  (`Overrun`; `WholeFramesInOrder` is about a daemon that runs);
- a datagram that is cut inside a single message makes the reader return `NULL`
  to callers that do not look; inside a bundle it never does (`CutHeardInPart`);
- at more than three frames a second transmissions may take longer than there is
  time between beats (see `BeatProofs`).

## What is not modelled

Parsing of URLs, and the sequence of system calls in `_lv2_osc_stream_reinit`:
each of them only ends it when it fails, and a failure closes the socket, so that
it is one step that succeeds or fails. `SIGPIPE`, which a send over a broken
connection may raise in either program. Answers of the daemon: it keeps the
address of the last sender but nothing is ever put into its `tx` ring. The
client's options and its PBM input. The forge and the other conversions to LV2
atoms, which neither program calls, and `lv2_osc_hooks`, the dispatch of atoms
that goes with them. The terminal output of simulate mode. OSC that no OSC writer
produces. What follows once a geometry or a prefixed length has left what C defines:
`Canvas` and `Stream` stop there. The room of the ring in bytes, in `Stream`, where
it is counted in chunks (in bytes it is in `Varchunk`). `fps = 0`, which divides by zero. A network that refills the ring
as fast as the beat thread drains it, which fairness of `Beat` excludes.

## Plan

The order was: ring, canvas, sessions, beat, stream, each against what it
promises; then the wire to the display; then the composition of all. Done:

1. the core: `Varchunk`, `Canvas`, `Daemon`, `Beat`, with the abstract
   specifications `ChunkFifo` and `Layers`, and their proofs;
2. `Monobus`: framing, checksum and rotation, against a display that undoes them;
3. `Bridge`: clients, UDP, ring, threads, canvas and display composed, and proved
   to implement `Mirror`;
4. `Stream`: both framings and serial lines as one stream, with its sending side,
   faults, reconnection, and whether a client gets through;
5. `Osc`: what the writer writes and the reader reads, nested and cut; `Pattern`;
6. proofs that pictures land where they belong, in `CanvasProofs`;
7. lemmas about sequences, and with them the properties of `Monobus`;
8. the same for `Stream`: that what the decoder gives is what was encoded, and with
   it `UndividedFramesArrive` and `WholeFramesInOrder`;
9. the same for `Osc`: that what is read of a packet is what was written, whole or cut;
10. integers of 32 bits in `Canvas`, and lengths that exceed the reservation in `Stream`.

Left, in the order of what they would add:

11. signals in `Bridge`, now only in `Daemon`;
12. the client's PBM input.
