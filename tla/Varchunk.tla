------------------------------ MODULE Varchunk ------------------------------
(***************************************************************************)
(* The lock-free ring of variable-size chunks of varchunk/varchunk.h, one  *)
(* producer thread and one consumer thread.  Every step ends at an access  *)
(* to a variable the other thread can see: the atomics head and tail, and  *)
(* the words of the buffer.                                                *)
(*                                                                         *)
(* Memory is a function from 8-byte aligned offsets to words; a word is    *)
(* either an element header (size, gap) or payload, and a write of one     *)
(* kind destroys the other.  The rings of the daemon are created with      *)
(* release_and_acquire = true, hence interleaving semantics.               *)
(***************************************************************************)
EXTENDS Integers, Sequences

CONSTANTS
  Size,        \* varchunk_t.size, a power of two in the code
  Lens,        \* the lengths a producer asks for and writes
  Data,        \* what a payload may hold
  None,        \* no payload, no chunk
  UseMaximum   \* TRUE: the producer trusts the "maximum" it is given

\* sizeof(varchunk_elmnt_t)
Hdr == 8

ASSUME SizeAssumption == Size \in Nat /\ Size > 0 /\ Size % Hdr = 0
ASSUME LensAssumption == Lens \subseteq Nat \ {0}
ASSUME DataAssumption == None \notin Data
ASSUME UseMaximumAssumption == UseMaximum \in BOOLEAN

\* VARCHUNK_PAD
Pad(n) == ((n + 7) \div 8) * 8

Offsets == {o \in 0 .. Size - 1 : o % Hdr = 0}
Chunk == [len : Lens, dat : Data]

\* A chunk never equals None, whatever value None is given.
ASSUME ChunkAssumption == None \notin Chunk

VARIABLES
  head, tail,     \* the two atomics
  buf,            \* the words of the body
  rsvd, gapd,     \* the producer's reservation
  ppc,            \* where the producer is
  pmin, plen,     \* what it asked for, what it has written
  pdat,           \* the payload it has written
  cpc,            \* where the consumer is
  chead,          \* the head it has loaded
  held,           \* the chunk it sees in memory
  queue, at       \* history: chunks published and unread, and their offsets

vars == << head, tail, buf, rsvd, gapd, ppc, pmin, plen, pdat, cpc, chead,
           held, queue, at >>
producer == << rsvd, gapd, ppc, pmin, plen, pdat >>
consumer == << cpc, chead, held >>

Header(n, isGap) == [size |-> n, gap |-> isGap, dat |-> None]
Payload(d)       == [size |-> 0, gap |-> FALSE, dat |-> d]
Word == [size : Nat, gap : BOOLEAN, dat : Data \cup {None}]

\* varchunk_init
Init ==
  /\ head = 0 /\ tail = 0
  /\ buf = [o \in Offsets |-> Header(0, FALSE)]
  /\ rsvd = 0 /\ gapd = 0
  /\ ppc = "idle" /\ pmin = 0 /\ plen = 0 /\ pdat = None
  /\ cpc = "idle" /\ chead = 0 /\ held = None
  /\ queue = << >> /\ at = << >>

-----------------------------------------------------------------------------
(***************************************************************************)
(* The producer: write_request_max, the caller's copy, write_advance.      *)
(***************************************************************************)
\* Two headers are asked for: one may become the gap in front of a wrap.
PaddedBare(min) == Pad(min)  \* variant: no room for headers
Padded(min) == 2 * Hdr + Pad(min)

Space == IF head > tail THEN ((tail - head + Size) % Size) - 1
         ELSE IF head < tail THEN (tail - head) - 1
         ELSE Size - 1

WriteEnd == head + Space

Contiguous(min) == WriteEnd <= Size /\ Space >= Padded(min)
FirstPart(min)  == WriteEnd > Size /\ Size - head >= Padded(min)
SecondPartLessGap(min) ==  \* variant: the gap is charged to the second part
  /\ WriteEnd > Size /\ Size - head < Padded(min)
  /\ (WriteEnd % Size) - (Size - head) >= Padded(min)
SecondPart(min) == /\ WriteEnd > Size /\ Size - head < Padded(min)
                   /\ WriteEnd % Size >= Padded(min)
Fits(min) == Contiguous(min) \/ FirstPart(min) \/ SecondPart(min)

Reserve(min) ==
  \/ Contiguous(min) /\ rsvd' = Space           /\ gapd' = 0
  \/ FirstPart(min)  /\ rsvd' = Size - head     /\ gapd' = 0
  \/ SecondPart(min) /\ rsvd' = WriteEnd % Size /\ gapd' = Size - head

WriteRequest(min) ==
  /\ ppc = "idle"
  /\ Reserve(min)
  /\ ppc' = "reserved" /\ pmin' = min
  /\ UNCHANGED << head, tail, buf, plen, pdat, consumer, queue, at >>

WriteRefused(min) ==
  /\ ppc = "idle"
  /\ ~Fits(min)
  /\ rsvd' = 0 /\ gapd' = 0
  /\ UNCHANGED << head, tail, buf, ppc, pmin, plen, pdat, consumer, queue, at >>

\* Where the element being written starts, and the words of an element.
Start == IF gapd > 0 THEN 0 ELSE head
Cells(o, n) == {c \in Offsets : o + Hdr <= c /\ c < o + Hdr + Pad(n)}

\* The caller fills the memory it was given, up to what it believes it has.
Fill(n, d) ==
  /\ ppc = "reserved"
  /\ n <= IF UseMaximum THEN rsvd ELSE pmin
  /\ buf' = [o \in Offsets |-> IF o \in Cells(Start, n) THEN Payload(d)
                               ELSE buf[o]]
  /\ ppc' = "filled" /\ plen' = n /\ pdat' = d
  /\ UNCHANGED << head, tail, rsvd, gapd, pmin, consumer, queue, at >>

\* The caller gives the reservation up: nothing arrived that could be sent.
Abandon ==
  /\ ppc \in {"reserved", "filled"}
  /\ ppc' = "idle"
  /\ UNCHANGED << head, tail, buf, rsvd, gapd, pmin, plen, pdat, consumer,
                  queue, at >>

\* Variant: the gap in front of a wrapped element is not marked as one.
MarkedNoGap(n) == [o \in Offsets |-> IF o = Start THEN Header(n, FALSE)
                                     ELSE buf[o]]
Marked(n) ==
  [o \in Offsets |->
     IF o = Start THEN Header(n, FALSE)
     ELSE IF gapd > 0 /\ o = head THEN Header(gapd - Hdr, TRUE)
     ELSE buf[o]]

\* write_advance: the headers, then the head.
WriteHeader ==
  /\ ppc = "filled"
  /\ buf' = Marked(plen)
  /\ ppc' = "marked"
  /\ UNCHANGED << head, tail, rsvd, gapd, pmin, plen, pdat, consumer, queue,
                  at >>

\* Variant: the head moves by the element only, not by the gap before it.
PublishHeadNoGap ==
  /\ ppc = "marked"
  /\ head' = (head + Hdr + Pad(plen)) % Size
  /\ ppc' = "idle"
  /\ queue' = Append(queue, [len |-> plen, dat |-> pdat])
  /\ at' = Append(at, Start)
  /\ UNCHANGED << tail, buf, rsvd, gapd, pmin, plen, pdat, consumer >>
PublishHead ==
  /\ ppc = "marked"
  /\ head' = (head + gapd + Hdr + Pad(plen)) % Size
  /\ ppc' = "idle"
  /\ queue' = Append(queue, [len |-> plen, dat |-> pdat])
  /\ at' = Append(at, Start)
  /\ UNCHANGED << tail, buf, rsvd, gapd, pmin, plen, pdat, consumer >>

-----------------------------------------------------------------------------
(***************************************************************************)
(* The consumer: read_request, the caller's use, read_advance.             *)
(***************************************************************************)
\* The chunk found in memory behind a header; a torn payload is no chunk.
ChunkAt(o) ==
  LET n == buf[o].size
      d == IF o + Hdr \in Offsets THEN buf[o + Hdr].dat ELSE None
  IN  [len |-> n,
       dat |-> IF \A c \in Cells(o, n) : buf[c].dat = d THEN d ELSE None]

\* Variant: a head behind tail is taken for an empty ring.
ReadLoadUnwrapped ==
  /\ cpc = "idle"
  /\ head > tail
  /\ cpc' = "loaded" /\ chead' = head
  /\ UNCHANGED << head, tail, buf, producer, held, queue, at >>
ReadLoad ==
  /\ cpc = "idle"
  /\ head # tail
  /\ cpc' = "loaded" /\ chead' = head
  /\ UNCHANGED << head, tail, buf, producer, held, queue, at >>

ReadSpace == IF chead > tail THEN chead - tail
             ELSE (chead - tail + Size) % Size

\* Variant: whatever stands before the wrap is taken for a gap.
GapAssumed == tail + ReadSpace > Size
GapAhead == tail + ReadSpace > Size /\ buf[tail].gap

\* Skipping a gap moves tail, which the producer may see before the chunk
\* behind the gap has been looked at.
SkipGap ==
  /\ cpc = "loaded"
  /\ GapAhead
  /\ tail' = (tail + (Size - tail)) % Size
  /\ cpc' = "skipped"
  /\ UNCHANGED << head, buf, producer, chead, held, queue, at >>

ReadAfterGap ==
  /\ cpc = "skipped"
  /\ held' = ChunkAt(0)
  /\ cpc' = "holding"
  /\ UNCHANGED << head, tail, buf, producer, chead, queue, at >>

ReadHere ==
  /\ cpc = "loaded"
  /\ ~GapAhead
  /\ held' = ChunkAt(tail)
  /\ cpc' = "holding"
  /\ UNCHANGED << head, tail, buf, producer, chead, queue, at >>

\* read_advance reads the size again, from the header at tail.
ReadAdvance ==
  /\ cpc = "holding"
  /\ tail' = (tail + Hdr + Pad(buf[tail].size)) % Size
  /\ cpc' = "idle" /\ held' = None
  /\ queue' = SubSeq(queue, 2, Len(queue)) /\ at' = SubSeq(at, 2, Len(at))
  /\ UNCHANGED << head, buf, producer, chead >>

-----------------------------------------------------------------------------
Produce ==
  \/ \E n \in Lens : WriteRequest(n) \/ WriteRefused(n)
  \/ \E n \in Lens, d \in Data : Fill(n, d)
  \/ Abandon
  \/ WriteHeader
  \/ PublishHead

Consume == ReadLoad \/ SkipGap \/ ReadAfterGap \/ ReadHere \/ ReadAdvance

Next == Produce \/ Consume

Spec == Init /\ [][Next]_vars

\* The beat thread drains its ring in every frame; nothing obliges anybody
\* to produce.
FairSpec == Spec /\ WF_vars(Consume)
-----------------------------------------------------------------------------
(***************************************************************************)
(* Properties.                                                             *)
(***************************************************************************)
TypeOK ==
  /\ head \in Offsets /\ tail \in Offsets
  /\ buf \in [Offsets -> Word]
  /\ rsvd \in 0 .. Size /\ gapd \in 0 .. Size
  /\ ppc \in {"idle", "reserved", "filled", "marked"}
  /\ pmin \in Lens \cup {0} /\ plen \in Lens \cup {0}
  /\ pdat \in Data \cup {None}
  /\ cpc \in {"idle", "loaded", "skipped", "holding"}
  /\ chead \in Offsets
  /\ held \in [len : Nat, dat : Data \cup {None}] \cup {None}
  /\ queue \in Seq(Chunk) /\ at \in Seq(Offsets)

\* What the consumer may look at.
Unread == {o \in Offsets : IF tail <= head THEN tail <= o /\ o < head
                           ELSE tail <= o \/ o < head}

\* What the producer is about to write, or has written and not published.
Length == IF ppc = "reserved" THEN pmin ELSE plen
ElementEnd == Start + Hdr + Pad(Length)
Claimed == {Start} \cup Cells(Start, Length)
                   \cup (IF gapd > 0 THEN {head} ELSE {})

\* An element under construction lies inside the body, touches no word the
\* consumer may still read, and does not bring the new head onto tail, which
\* would make a full ring look empty: the space computed at the top of
\* varchunk_write_request_max stays valid while the consumer moves on.
NoOverrun ==
  ppc # "idle" =>
    /\ Claimed \cap Unread = {}
    /\ ElementEnd <= Size
    /\ ElementEnd % Size # tail

\* The memory handed out by varchunk_read_request keeps showing the oldest
\* published chunk, whole, until varchunk_read_advance, and the header read
\* again there is still that chunk's.
HeldIntact ==
  cpc = "holding" =>
    /\ queue # << >>
    /\ held = Head(queue)
    /\ ChunkAt(tail) = Head(queue)

\* The indices agree with the chunks in the ring: equal exactly when every
\* chunk has been read, and otherwise every unread chunk is whole in memory,
\* inside the unread region.
UnreadIntact ==
  /\ (head = tail) <=> (queue = << >>)
  /\ Len(at) = Len(queue)
  /\ \A i \in 1 .. Len(queue) :
       /\ ({at[i]} \cup Cells(at[i], queue[i].len)) \subseteq Unread
       /\ ChunkAt(at[i]) = queue[i]
       /\ ~buf[at[i]].gap

\* The ring is a queue of chunks: they are handed out whole, once each, in
\* the order they were published, wherever they wrap and whoever runs first.
Fifo == INSTANCE ChunkFifo
ImplementsFifo == Fifo!Spec

\* The drain loop of the consumer gets past every chunk.
EveryChunkLeaves ==
  \A o \in Offsets : (tail = o /\ queue # << >>) ~> (tail # o)

\* A producer that was refused and asks again finds room once the consumer
\* has drained the ring, wherever the indices have come to rest, provided
\* the ring is twice what write_request_max asks for.
NoStarvation ==
  \A n \in Lens : 2 * Padded(n) <= Size =>
    (ppc = "idle") ~> (ppc # "idle" \/ Fits(n))
-----------------------------------------------------------------------------
(***************************************************************************)
(* The inductive invariant behind the safety properties.                   *)
(***************************************************************************)
ChunkEnd(i) == at[i] + Hdr + Pad(queue[i].len)
Chunks == 1 .. Len(queue)

Stored(o, c) ==
  /\ buf[o] = Header(c.len, FALSE)
  /\ \A x \in Cells(o, c.len) : buf[x] = Payload(c.dat)

\* Chunk i lies between tail and head, wrapping where they do.
InUse(i) ==
  /\ ChunkEnd(i) < Size
  /\ IF tail <= head THEN tail <= at[i] /\ ChunkEnd(i) <= head
                     ELSE tail <= at[i] \/ ChunkEnd(i) <= head

\* Chunk i lies before chunk j, on the same side of the wrap or across it.
Before(i, j) ==
  \/ ChunkEnd(i) <= at[j] /\ (tail <= at[i] <=> tail <= at[j])
  \/ head < tail /\ tail <= at[i] /\ ChunkEnd(j) <= head

\* A chunk that does not start at offset o starts at 0, behind a gap at o.
StartsFrom(i, o) ==
  \/ at[i] = o
  \/ at[i] = 0 /\ buf[o].gap /\ head < tail /\ tail <= o

RingInv ==
  /\ Len(at) = Len(queue)
  /\ head = tail <=> queue = << >>
  /\ \A i \in Chunks : InUse(i) /\ Stored(at[i], queue[i])
  /\ \A i, j \in Chunks : i < j => Before(i, j)
  /\ \A i \in Chunks : i + 1 \in Chunks => StartsFrom(i + 1, ChunkEnd(i))
  /\ queue # << >> => StartsFrom(1, tail) /\ ChunkEnd(Len(queue)) = head

ProducerInv ==
  /\ ppc # "idle" =>
       /\ Length \in Lens
       /\ ElementEnd < Size
       /\ gapd = 0 => (head < tail => ElementEnd < tail)
       /\ gapd > 0 => gapd = Size - head /\ tail <= head /\ ElementEnd < tail
  /\ ppc \in {"filled", "marked"} =>
       /\ pdat \in Data
       /\ \A x \in Cells(Start, plen) : buf[x] = Payload(pdat)
  /\ ppc = "marked" =>
       /\ buf[Start] = Header(plen, FALSE)
       /\ gapd > 0 => buf[head].gap

ConsumerInv ==
  /\ cpc # "idle" => queue # << >>
  /\ cpc = "loaded" => (at[1] = tail \/ (0 < chead /\ chead < tail))
  /\ cpc = "skipped" => tail = 0
  /\ cpc \in {"skipped", "holding"} => at[1] = tail
  /\ cpc = "holding" <=> held # None
  /\ cpc = "holding" => held = queue[1]

IInv == TypeOK /\ RingInv /\ ProducerInv /\ ConsumerInv
=============================================================================
