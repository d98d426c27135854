--------------------------- MODULE VarchunkProofs ---------------------------
(***************************************************************************)
(* The ring is a queue of chunks for every size, every set of lengths and  *)
(* every payload, as long as producers write no more than they asked for.  *)
(***************************************************************************)
EXTENDS Varchunk, TLAPS

-----------------------------------------------------------------------------
(***************************************************************************)
(* Arithmetic of offsets.                                                  *)
(***************************************************************************)
\* Masking wraps an index once.
LEMMA ModSize ==
  ASSUME NEW x \in Nat, x < 2 * Size
  PROVE  x % Size = IF x < Size THEN x ELSE x - Size
BY SizeAssumption, SMT

\* Lengths are positive.
LEMMA LensPositive ==
  ASSUME NEW n \in Lens
  PROVE  n \in Nat /\ n > 0
<1>1. n \in Nat /\ n # 0
  BY LensAssumption, Zenon
<1> QED
  BY <1>1, SMT

\* VARCHUNK_PAD rounds up to the alignment and is monotonic.
LEMMA PadProps ==
  ASSUME NEW n \in Nat
  PROVE  /\ Pad(n) \in Nat
         /\ Pad(n) % 8 = 0
         /\ n <= Pad(n)
         /\ n > 0 => 8 <= Pad(n)
BY SMT DEF Pad

\* A longer chunk is not padded to less.
LEMMA PadMonotonic ==
  ASSUME NEW m \in Nat, NEW n \in Nat, m <= n
  PROVE  Pad(m) <= Pad(n)
BY SMT DEF Pad

\* An element that starts at an offset ends at an offset or beyond the body.
LEMMA OffsetPlus ==
  ASSUME NEW o \in Offsets, NEW n \in Nat, o + Hdr + Pad(n) < Size
  PROVE  o + Hdr + Pad(n) \in Offsets
<1>1. Pad(n) \in Nat /\ Pad(n) % 8 = 0
  BY PadProps
<1> QED
  BY <1>1, SizeAssumption, SMT DEF Offsets, Hdr
-----------------------------------------------------------------------------
(***************************************************************************)
(* What the invariant says of memory.                                      *)
(***************************************************************************)
\* Positions and lengths of the chunks in the ring.
LEMMA ChunkTypes ==
  ASSUME TypeOK, Len(at) = Len(queue), NEW i \in Chunks
  PROVE  /\ at[i] \in Offsets
         /\ queue[i] \in Chunk
         /\ queue[i].len \in Lens /\ queue[i].len \in Nat /\ queue[i].len > 0
         /\ queue[i].dat \in Data
         /\ Pad(queue[i].len) \in Nat /\ 8 <= Pad(queue[i].len)
         /\ ChunkEnd(i) \in Nat
<1>1. at[i] \in Offsets
  BY SMT DEF TypeOK, Chunks
<1>2. queue[i] \in Chunk
  BY SMT DEF TypeOK, Chunks
<1>3. queue[i].len \in Lens /\ queue[i].dat \in Data
  BY <1>2 DEF Chunk
<1>4. queue[i].len \in Nat /\ queue[i].len > 0
  BY <1>3, LensPositive
<1>5. Pad(queue[i].len) \in Nat /\ 8 <= Pad(queue[i].len)
  BY <1>4, PadProps
<1>6. ChunkEnd(i) \in Nat
  BY <1>1, <1>5, SMT DEF ChunkEnd, Hdr, Offsets
<1> QED
  BY <1>1, <1>2, <1>3, <1>4, <1>5, <1>6

\* A stored chunk is what the consumer reads.
LEMMA StoredRead ==
  ASSUME TypeOK, NEW o \in Offsets, NEW c \in Chunk, Stored(o, c),
         o + Hdr + Pad(c.len) < Size
  PROVE  ChunkAt(o) = c /\ ~buf[o].gap
<1>1. c.len \in Nat /\ c.len > 0 /\ c = [len |-> c.len, dat |-> c.dat]
  BY LensPositive DEF Chunk
<1>2. Pad(c.len) \in Nat /\ 8 <= Pad(c.len)
  BY <1>1, PadProps
<1>3. o + Hdr \in Cells(o, c.len) /\ o + Hdr \in Offsets
  BY <1>2, SizeAssumption, SMT DEF Cells, Offsets, Hdr
<1>4. buf[o].size = c.len /\ ~buf[o].gap
  BY DEF Stored, Header
<1>5. \A x \in Cells(o, c.len) : buf[x].dat = c.dat
  BY DEF Stored, Payload
<1> QED
  BY <1>1, <1>3, <1>4, <1>5 DEF ChunkAt

\* The unread chunks lie in the unread region.
LEMMA ChunksUnread ==
  ASSUME TypeOK, RingInv, NEW i \in Chunks
  PROVE  ({at[i]} \cup Cells(at[i], queue[i].len)) \subseteq Unread
<1>1. at[i] \in Offsets /\ Pad(queue[i].len) \in Nat
  BY ChunkTypes DEF RingInv
<1>2. InUse(i)
  BY DEF RingInv
<1>3. head \in Offsets /\ tail \in Offsets
  BY DEF TypeOK
<1> QED
  BY <1>1, <1>2, <1>3, <1>1, SizeAssumption, SMT
     DEF InUse, ChunkEnd, Cells, Unread, Offsets, Hdr

\* The element under construction is clear of the unread region.
LEMMA ProducerClear ==
  ASSUME TypeOK, ProducerInv, ppc # "idle"
  PROVE  /\ Claimed \cap Unread = {}
         /\ Start \in Offsets /\ ElementEnd \in Offsets
         /\ ElementEnd > 0 /\ ElementEnd # tail
         /\ Length \in Nat /\ Length > 0
<1>1. Length \in Nat /\ Length > 0
  BY LensPositive DEF ProducerInv
<1>2. Pad(Length) \in Nat
  BY <1>1, PadProps
<1>3. Start \in Offsets
  BY SizeAssumption, SMT DEF Start, Offsets, TypeOK, Hdr
<1>4. ElementEnd \in Offsets
  BY <1>1, <1>3, OffsetPlus DEF ProducerInv, ElementEnd
<1>5. head \in Offsets /\ tail \in Offsets /\ gapd \in Nat
  BY SizeAssumption, SMT DEF TypeOK
<1>6. ElementEnd > 0 /\ ElementEnd # tail
  BY <1>2, <1>3, <1>5, SMT DEF ProducerInv, ElementEnd, Start, Offsets, Hdr
<1>7. Claimed \cap Unread = {}
  BY <1>2, <1>3, <1>5, SMT
     DEF ProducerInv, ElementEnd, Start, Offsets, Hdr, Claimed, Unread, Cells
<1> QED
  BY <1>1, <1>3, <1>4, <1>6, <1>7

\* Writing outside the unread region leaves the ring as it is.
LEMMA MemoryFrame ==
  ASSUME TypeOK, RingInv, UNCHANGED << head, tail, queue, at >>,
         \A x \in Unread : buf'[x] = buf[x]
  PROVE  RingInv'
<1>1. \A i \in Chunks : Stored(at[i], queue[i])'
  <2> TAKE i \in Chunks
  <2>1. ({at[i]} \cup Cells(at[i], queue[i].len)) \subseteq Unread
    BY ChunksUnread
  <2>2. Stored(at[i], queue[i])
    BY DEF RingInv
  <2> QED
    BY <2>1, <2>2 DEF Stored, Cells
<1>2. ASSUME NEW i \in Nat, NEW o \in Offsets, StartsFrom(i, o)
      PROVE  at[i] = o \/ (at[i] = 0 /\ buf'[o].gap /\ head < tail /\ tail <= o)
  <2>1. CASE at[i] = o
    BY <2>1
  <2>2. CASE at[i] = 0 /\ buf[o].gap /\ head < tail /\ tail <= o
    <3>1. o \in Unread
      BY <2>2, SMT DEF Unread, TypeOK, Offsets
    <3> QED
      BY <2>2, <3>1
  <2> QED
    BY <1>2, <2>1, <2>2 DEF StartsFrom
<1>3. \A i \in Chunks : i + 1 \in Chunks => StartsFrom(i + 1, ChunkEnd(i))'
  <2> SUFFICES ASSUME NEW i \in Chunks, i + 1 \in Chunks
               PROVE  StartsFrom(i + 1, ChunkEnd(i))'
    BY DEF Chunks
  <2>1. StartsFrom(i + 1, ChunkEnd(i)) /\ InUse(i)
    BY DEF RingInv
  <2>2. ChunkEnd(i) \in Offsets
    BY <2>1, ChunkTypes, OffsetPlus DEF InUse, ChunkEnd, RingInv
  <2>3. i + 1 \in Nat
    BY SMT DEF Chunks
  <2> QED
    BY <1>2, <2>1, <2>2, <2>3 DEF StartsFrom, ChunkEnd
<1>4. queue # << >> => StartsFrom(1, tail)'
  BY <1>2 DEF RingInv, StartsFrom, TypeOK
<1> QED
  BY <1>1, <1>3, <1>4 DEF RingInv, Chunks, InUse, Before, ChunkEnd
-----------------------------------------------------------------------------
(***************************************************************************)
(* The invariant is preserved: the initial state and the producer's steps. *)
(***************************************************************************)
\* The empty ring satisfies the invariant.
LEMMA InitInv == Init => IInv
<1> SUFFICES ASSUME Init PROVE IInv
  OBVIOUS
<1>1. 0 \in Offsets
  BY SizeAssumption, SMT DEF Offsets, Hdr
<1>2. TypeOK
  BY <1>1, SizeAssumption DEF Init, TypeOK, Header, Word
<1>3. RingInv
  BY DEF Init, RingInv, Chunks
<1>4. ProducerInv /\ ConsumerInv
  BY DEF Init, ProducerInv, ConsumerInv
<1> QED
  BY <1>2, <1>3, <1>4 DEF IInv

\* A reservation covers an element of the length asked for, clear of the
\* unread region wherever head and tail stand.
LEMMA RequestInv ==
  ASSUME IInv, NEW n \in Lens, WriteRequest(n)
  PROVE  IInv'
<1>1. n \in Nat /\ n > 0 /\ Pad(n) \in Nat /\ Pad(n) % 8 = 0
  BY LensPositive, PadProps
<1>2. /\ head \in Nat /\ head < Size /\ head % 8 = 0
      /\ tail \in Nat /\ tail < Size /\ tail % 8 = 0
      /\ Size \in Nat /\ Size > 0 /\ Size % 8 = 0
  BY SizeAssumption, SMT DEF IInv, TypeOK, Offsets, Hdr
<1>3. Space = IF head < tail THEN tail - head - 1 ELSE Size - 1 + tail - head
  <2>1. CASE head > tail
    <3>1. tail - head + Size \in Nat /\ tail - head + Size < Size
      BY <1>2, <2>1
    <3> QED
      BY <1>2, <2>1, <3>1, ModSize, SMT DEF Space
  <2>2. CASE ~(head > tail)
    BY <1>2, <2>2, SMT DEF Space
  <2> QED
    BY <2>1, <2>2
<1>4. WriteEnd > Size => WriteEnd % Size = tail - 1
  BY <1>2, <1>3, ModSize, SMT DEF WriteEnd
<1>5. /\ rsvd' \in 0 .. Size /\ gapd' \in 0 .. Size
      /\ gapd' = 0 => /\ head + Hdr + Pad(n) < Size
                      /\ head < tail => head + Hdr + Pad(n) < tail
      /\ gapd' > 0 => /\ gapd' = Size - head
                      /\ tail <= head
                      /\ Hdr + Pad(n) < tail
  <2>1. CASE Contiguous(n) /\ rsvd' = Space /\ gapd' = 0
    BY <1>1, <1>2, <1>3, <2>1, SMT DEF Contiguous, Padded, WriteEnd, Hdr
  <2>2. CASE FirstPart(n) /\ rsvd' = Size - head /\ gapd' = 0
    BY <1>1, <1>2, <1>3, <2>2, SMT DEF FirstPart, Padded, WriteEnd, Hdr
  <2>3. CASE SecondPart(n) /\ rsvd' = WriteEnd % Size /\ gapd' = Size - head
    <3>1. WriteEnd > Size /\ tail - 1 >= 16 + Pad(n)
      BY <1>4, <2>3 DEF SecondPart, Padded, Hdr
    <3>2. tail <= head
      BY <1>2, <1>3, <3>1, SMT DEF WriteEnd
    <3> QED
      BY <1>1, <1>2, <1>4, <2>3, <3>1, <3>2, SMT DEF Hdr
  <2> QED
    BY <2>1, <2>2, <2>3 DEF WriteRequest, Reserve
<1>6. TypeOK'
  BY <1>5 DEF IInv, TypeOK, WriteRequest, consumer
<1>7. RingInv'
  BY MemoryFrame DEF IInv, WriteRequest
<1>8. ProducerInv'
  <2>1. /\ ppc' = "reserved" /\ pmin' = n /\ Length' = n
        /\ UNCHANGED << head, tail >>
        /\ gapd' \in Nat
    BY <1>2, <1>5, SMT DEF WriteRequest, Length
  <2>2. ElementEnd' = (IF gapd' > 0 THEN 0 ELSE head) + Hdr + Pad(n)
    BY <2>1 DEF ElementEnd, Start
  <2>3. CASE gapd' = 0
    BY <1>5, <2>1, <2>2, <2>3, SMT DEF ProducerInv
  <2>4. CASE gapd' > 0
    <3>1. ElementEnd' < tail /\ ElementEnd' < Size
      BY <1>1, <1>2, <1>5, <2>2, <2>4, SMT DEF Hdr
    <3> QED
      BY <1>5, <2>1, <2>4, <3>1, SMT DEF ProducerInv
  <2> QED
    BY <2>1, <2>3, <2>4, SMT
<1>9. ConsumerInv'
  BY DEF IInv, WriteRequest, ConsumerInv, consumer
<1> QED
  BY <1>6, <1>7, <1>8, <1>9 DEF IInv

\* A refused request leaves the ring alone.
LEMMA RefusedInv ==
  ASSUME IInv, NEW n \in Lens, WriteRefused(n)
  PROVE  IInv'
<1>1. TypeOK'
  BY SizeAssumption DEF IInv, TypeOK, WriteRefused, consumer
<1>2. RingInv'
  BY MemoryFrame DEF IInv, WriteRefused
<1>3. ProducerInv'
  BY DEF IInv, WriteRefused, ProducerInv
<1>4. ConsumerInv'
  BY DEF IInv, WriteRefused, ConsumerInv, consumer
<1> QED
  BY <1>1, <1>2, <1>3, <1>4 DEF IInv

\* An abandoned reservation leaves the ring alone.
LEMMA AbandonInv == ASSUME IInv, Abandon PROVE IInv'
<1>1. TypeOK'
  BY DEF IInv, TypeOK, Abandon, consumer
<1>2. RingInv'
  BY MemoryFrame DEF IInv, Abandon
<1>3. ProducerInv'
  BY DEF IInv, Abandon, ProducerInv
<1>4. ConsumerInv'
  BY DEF IInv, Abandon, ConsumerInv, consumer
<1> QED
  BY <1>1, <1>2, <1>3, <1>4 DEF IInv

\* The caller writes no more than it asked for.
LEMMA FillInv ==
  ASSUME UseMaximum = FALSE, IInv, NEW n \in Lens, NEW d \in Data, Fill(n, d)
  PROVE  IInv'
<1>1. n \in Nat /\ n > 0 /\ Pad(n) \in Nat
  BY LensPositive, PadProps
<1>2. n <= pmin /\ Length = pmin
  BY DEF Fill, Length
<1>3. /\ Claimed \cap Unread = {}
      /\ Start \in Offsets
      /\ Length \in Nat
  BY ProducerClear DEF IInv, Fill
<1>4. Pad(n) <= Pad(pmin) /\ Pad(pmin) \in Nat
  BY <1>1, <1>2, <1>3, PadMonotonic, PadProps
<1>5. Cells(Start, n) \subseteq Claimed
  <2> SUFFICES ASSUME NEW c \in Cells(Start, n)
               PROVE  c \in Cells(Start, Length)
    BY DEF Claimed
  <2> QED
    BY <1>1, <1>2, <1>3, <1>4, SMT DEF Cells, Offsets, Hdr
<1>6. TypeOK'
  <2>1. Payload(d) \in Word
    BY DEF Payload, Word
  <2> QED
    BY <2>1 DEF IInv, TypeOK, Fill, consumer
<1>7. RingInv'
  <2>1. \A x \in Unread : x \in Offsets /\ x \notin Cells(Start, n)
    BY <1>3, <1>5 DEF Unread
  <2>2. \A x \in Unread : buf'[x] = buf[x]
    BY <2>1 DEF Fill
  <2> QED
    BY <2>2, MemoryFrame DEF IInv, Fill
<1>8. ProducerInv'
  <2>1. /\ ppc' = "filled" /\ plen' = n /\ pdat' = d
        /\ UNCHANGED << head, tail, gapd >>
    BY DEF Fill
  <2>2. Start' = Start /\ Length' = n
    BY <2>1 DEF Start, Length
  <2>3. ElementEnd' <= ElementEnd
    BY <1>1, <1>2, <1>3, <1>4, <2>2, SMT DEF ElementEnd, Offsets, Hdr
  <2>4. /\ ElementEnd \in Int /\ ElementEnd' \in Int
        /\ Size \in Int /\ tail \in Int
    BY <1>1, <1>2, <1>3, <1>4, <2>2, SizeAssumption, SMT
       DEF ElementEnd, Offsets, Hdr, IInv, TypeOK
  <2>5. /\ ElementEnd' < Size
        /\ gapd = 0 => (head < tail => ElementEnd' < tail)
        /\ gapd > 0 => gapd = Size - head /\ tail <= head /\ ElementEnd' < tail
    BY <2>3, <2>4, SMT DEF IInv, ProducerInv, Fill
  <2>6. \A x \in Cells(Start, n) : buf'[x] = Payload(d)
    BY DEF Fill, Cells
  <2> QED
    BY <2>1, <2>2, <2>5, <2>6 DEF ProducerInv
<1>9. ConsumerInv'
  BY DEF IInv, Fill, ConsumerInv, consumer
<1> QED
  BY <1>6, <1>7, <1>8, <1>9 DEF IInv
\* Writing the headers touches only words the producer has claimed.
LEMMA HeaderInv == ASSUME IInv, WriteHeader PROVE IInv'
<1>1. /\ Claimed \cap Unread = {}
      /\ Start \in Offsets
      /\ Length \in Nat
      /\ ElementEnd \in Offsets
  BY ProducerClear DEF IInv, WriteHeader
<1>2. /\ Length = plen /\ ppc = "filled" /\ ppc' = "marked"
      /\ UNCHANGED << head, tail, gapd, plen, pdat >>
      /\ buf' = Marked(plen)
  BY DEF WriteHeader, Length
<1>3. /\ Start' = Start /\ Length' = plen /\ ElementEnd' = ElementEnd
  BY <1>2 DEF Start, Length, ElementEnd
<1>4. /\ head \in Offsets /\ gapd \in Nat /\ head \in Nat /\ Size \in Nat
      /\ head % 8 = 0 /\ Size % 8 = 0
  BY SizeAssumption, SMT DEF IInv, TypeOK, Offsets, Hdr
<1>5. gapd > 0 => gapd = Size - head /\ tail <= head /\ ElementEnd < tail
  BY <1>2 DEF IInv, ProducerInv
<1>6. gapd > 0 => gapd - Hdr \in Nat
  BY <1>4, <1>5, SMT DEF Hdr, Offsets
<1>7. TypeOK'
  <2>1. Header(plen, FALSE) \in Word /\ (gapd > 0 => Header(gapd - Hdr, TRUE) \in Word)
    BY <1>1, <1>2, <1>6 DEF Header, Word
  <2>2. buf' \in [Offsets -> Word]
    BY <1>2, <2>1 DEF IInv, TypeOK, Marked
  <2> QED
    BY <2>2 DEF IInv, TypeOK, WriteHeader, consumer
<1>8. RingInv'
  <2>1. \A x \in Unread : x \in Offsets /\ x # Start /\ (gapd > 0 => x # head)
    BY <1>1 DEF Unread, Claimed
  <2>2. \A x \in Unread : buf'[x] = buf[x]
    BY <1>2, <2>1 DEF Marked
  <2> QED
    BY <2>2, MemoryFrame DEF IInv, WriteHeader
<1>9. ProducerInv'
  <2>1. buf'[Start] = Header(plen, FALSE)
    BY <1>1, <1>2 DEF Marked
  <2>2. gapd > 0 => Start # head
    BY <1>1, <1>4, <1>5, SMT
       DEF Start, ElementEnd, Hdr, IInv, TypeOK, Offsets
  <2>3. gapd > 0 => buf'[head].gap
    BY <1>2, <1>4, <2>2 DEF Marked, Header
  <2>4. \A x \in Cells(Start, plen) : buf'[x] = Payload(pdat)
    <3> TAKE x \in Cells(Start, plen)
    <3>1. x \in Offsets /\ x # Start
      BY <1>1, SMT DEF Cells, Offsets, Hdr
    <3>2. gapd > 0 => x # head
      BY <1>1, <1>2, <1>3, <1>4, <1>5, PadProps, SMT
         DEF Cells, ElementEnd, Offsets, IInv, TypeOK
    <3>3. buf[x] = Payload(pdat)
      BY <1>2 DEF IInv, ProducerInv
    <3> QED
      BY <1>2, <3>1, <3>2, <3>3 DEF Marked
  <2> QED
    BY <1>2, <1>3, <2>1, <2>3, <2>4 DEF IInv, ProducerInv
<1>10. ConsumerInv'
  BY DEF IInv, WriteHeader, ConsumerInv, consumer
<1> QED
  BY <1>7, <1>8, <1>9, <1>10 DEF IInv

\* Where the head goes when the element under construction is published.
LEMMA NewHead ==
  ASSUME IInv, PublishHead
  PROVE  head' = ElementEnd
<1>1. /\ Start \in Offsets /\ Length = plen /\ Length \in Nat
      /\ ElementEnd \in Offsets
  BY ProducerClear DEF IInv, PublishHead, Length
<1>2. head \in Nat /\ head < Size /\ gapd \in Nat /\ Size \in Nat
  BY SizeAssumption, SMT DEF IInv, TypeOK, Offsets
<1>3. Pad(plen) \in Nat
  BY <1>1, PadProps
<1>4. ElementEnd \in Nat /\ ElementEnd < Size
  BY <1>1, <1>2, SMT DEF Offsets
<1>5. CASE gapd = 0
  <2>1. head + gapd + Hdr + Pad(plen) = ElementEnd
    BY <1>1, <1>2, <1>3, <1>5, SMT DEF ElementEnd, Start, Hdr
  <2> QED
    BY <1>2, <1>4, <2>1, ModSize, SMT DEF PublishHead
<1>6. CASE gapd > 0
  <2>1. gapd = Size - head
    BY <1>6 DEF IInv, ProducerInv, PublishHead
  <2>2. head + gapd + Hdr + Pad(plen) = Size + ElementEnd
    BY <1>1, <1>2, <1>3, <1>6, <2>1, SMT DEF ElementEnd, Start, Hdr
  <2> QED
    BY <1>2, <1>4, <2>2, ModSize, SMT DEF PublishHead
<1> QED
  BY <1>2, <1>5, <1>6, SMT
\* The history after a chunk is appended.
LEMMA Appended ==
  ASSUME TypeOK, Len(at) = Len(queue), NEW c \in Chunk, NEW o \in Offsets,
         NEW n \in Nat, n = Len(queue) + 1,
         queue' = Append(queue, c), at' = Append(at, o)
  PROVE  /\ Len(queue') = n /\ Len(at') = Len(queue')
         /\ queue' \in Seq(Chunk) /\ at' \in Seq(Offsets)
         /\ queue' # << >>
         /\ Chunks' = Chunks \cup {n}
         /\ \A i \in Chunks : /\ queue'[i] = queue[i] /\ at'[i] = at[i]
                              /\ ChunkEnd(i)' = ChunkEnd(i)
         /\ queue'[n] = c /\ at'[n] = o
         /\ ChunkEnd(n)' = o + Hdr + Pad(c.len)
<1>1. queue \in Seq(Chunk) /\ at \in Seq(Offsets)
  BY DEF TypeOK
<1>2. Len(queue') = n /\ Len(at') = n
  BY <1>1, SMT
<1>3. Len(queue) \in Nat
  BY <1>1, SMT
<1>4. Chunks' = Chunks \cup {n}
  BY <1>2, <1>3, SMT DEF Chunks
<1>5. \A i \in Chunks : queue'[i] = queue[i] /\ at'[i] = at[i]
  BY <1>1, <1>3, SMT DEF Chunks
<1>6. queue'[n] = c /\ at'[n] = o
  BY <1>1, <1>3, SMT
<1>7. queue' # << >>
  BY <1>2, <1>3, SMT
<1>8. queue' \in Seq(Chunk) /\ at' \in Seq(Offsets)
  BY <1>1, SMT
<1>9. \A i \in Chunks : ChunkEnd(i)' = ChunkEnd(i)
  BY <1>5 DEF ChunkEnd
<1>10. ChunkEnd(n)' = o + Hdr + Pad(c.len)
  BY <1>6 DEF ChunkEnd
<1> QED
  BY <1>2, <1>4, <1>5, <1>6, <1>7, <1>8, <1>9, <1>10

\* Publishing adds the element as the newest chunk, behind a gap if it
\* wrapped.
LEMMA PublishInv == ASSUME IInv, PublishHead PROVE IInv'
<1> PICK n \in Nat : n = Len(queue) + 1
  BY SMT DEF IInv, TypeOK
<1> PICK c : c = [len |-> plen, dat |-> pdat]
  OBVIOUS
<1>1. /\ Start \in Offsets /\ Length = plen /\ Length \in Nat
      /\ ElementEnd \in Offsets /\ ElementEnd > 0 /\ ElementEnd # tail
      /\ Claimed \cap Unread = {}
  BY ProducerClear DEF IInv, PublishHead, Length
<1>2. c \in Chunk
  BY <1>1 DEF IInv, ProducerInv, PublishHead, Length, Chunk
<1>3. head' = ElementEnd
  BY NewHead
<1>4. /\ UNCHANGED << tail, buf >>
      /\ queue' = Append(queue, c) /\ at' = Append(at, Start)
  BY DEF PublishHead
<1>5. /\ Len(queue') = n /\ Len(at') = Len(queue')
      /\ queue' \in Seq(Chunk) /\ at' \in Seq(Offsets)
      /\ queue' # << >>
      /\ Chunks' = Chunks \cup {n}
      /\ \A i \in Chunks : /\ queue'[i] = queue[i] /\ at'[i] = at[i]
                           /\ ChunkEnd(i)' = ChunkEnd(i)
      /\ queue'[n] = c /\ at'[n] = Start
      /\ ChunkEnd(n)' = ElementEnd
  <2> PICK o \in Offsets : o = Start
    BY <1>1
  <2>1. at' = Append(at, o) /\ queue' = Append(queue, c)
    BY <1>4
  <2>2. Len(at) = Len(queue) /\ TypeOK
    BY DEF IInv, RingInv
  <2>3. ElementEnd = o + Hdr + Pad(c.len)
    BY <1>1 DEF ElementEnd
  <2>4. /\ Len(queue') = n /\ Len(at') = Len(queue')
        /\ queue' \in Seq(Chunk) /\ at' \in Seq(Offsets)
        /\ queue' # << >>
        /\ Chunks' = Chunks \cup {n}
        /\ \A i \in Chunks : /\ queue'[i] = queue[i] /\ at'[i] = at[i]
                             /\ ChunkEnd(i)' = ChunkEnd(i)
        /\ queue'[n] = c /\ at'[n] = o
        /\ ChunkEnd(n)' = o + Hdr + Pad(c.len)
    BY <1>2, <2>1, <2>2, Appended DEF ChunkEnd, Chunks
  <2> QED
    BY <2>3, <2>4
<1>6. /\ head \in Nat /\ tail \in Nat /\ ElementEnd \in Nat /\ Start \in Nat
      /\ Size \in Nat /\ ElementEnd < Size /\ Start < ElementEnd /\ head < Size
      /\ gapd \in Nat
  <2>1. Pad(Length) \in Nat
    BY <1>1, PadProps
  <2>2. /\ head \in Offsets /\ tail \in Offsets /\ gapd \in 0 .. Size
        /\ Size \in Nat
    BY SizeAssumption DEF IInv, TypeOK
  <2> QED
    BY <1>1, <2>1, <2>2, SMT DEF Offsets, ElementEnd, Hdr
<1>7. \/ gapd = 0 /\ Start = head /\ (head < tail => ElementEnd < tail)
      \/ gapd > 0 /\ Start = 0 /\ tail <= head /\ ElementEnd < tail
                 /\ gapd = Size - head
  BY <1>6, SMT DEF IInv, ProducerInv, PublishHead, Start
<1>8. /\ buf[Start] = Header(plen, FALSE)
      /\ \A x \in Cells(Start, plen) : buf[x] = Payload(pdat)
      /\ gapd > 0 => buf[head].gap
  BY DEF IInv, ProducerInv, PublishHead
<1>9. TypeOK'
  BY <1>1, <1>3, <1>5, <1>4 DEF IInv, TypeOK, PublishHead, consumer
<1>10. RingInv'
  <2>1. (head = tail <=> queue = << >>)'
    BY <1>1, <1>3, <1>4, <1>5
  <2>2. \A i \in Chunks : /\ at[i] \in Nat /\ ChunkEnd(i) \in Nat
                          /\ at[i] < ChunkEnd(i)
    BY ChunkTypes, SMT DEF IInv, RingInv, ChunkEnd, Offsets, Hdr
  <2>3. \A i \in Chunks' : InUse(i)'
    <3>1. ASSUME NEW i \in Chunks PROVE InUse(i)'
      <4>1. InUse(i)
        BY DEF IInv, RingInv
      <4>2. /\ at'[i] = at[i] /\ ChunkEnd(i)' = ChunkEnd(i)
            /\ at[i] \in Nat /\ ChunkEnd(i) \in Nat
        BY <1>5, <2>2
      <4>3. tail' = tail
        BY <1>4
      <4> QED
        BY <1>3, <1>6, <1>7, <4>1, <4>2, <4>3, SMT DEF InUse
    <3>2. InUse(n)'
      <4>1. tail' = tail /\ at'[n] = Start /\ ChunkEnd(n)' = ElementEnd
        BY <1>4, <1>5
      <4> QED
        BY <1>3, <1>6, <1>7, <4>1, SMT DEF InUse
    <3> QED
      BY <1>5, <3>1, <3>2
  <2>4. \A i \in Chunks' : Stored(at[i], queue[i])'
    <3>1. ASSUME NEW i \in Chunks PROVE Stored(at[i], queue[i])'
      BY <1>4, <1>5 DEF IInv, RingInv, Stored, Cells
    <3>2. Stored(at[n], queue[n])'
      <4>1. /\ queue'[n].len = plen /\ queue'[n].dat = pdat
            /\ at'[n] = Start /\ buf' = buf
        BY <1>4, <1>5
      <4> QED
        BY <4>1, <1>8 DEF Stored, Cells
    <3> QED
      BY <1>5, <3>1, <3>2
  <2>5. \A i, j \in Chunks' : i < j => Before(i, j)'
    <3>1. ASSUME NEW i \in Chunks, NEW j \in Chunks, i < j PROVE Before(i, j)'
      <4>1. Before(i, j) /\ InUse(i) /\ InUse(j)
        BY <3>1 DEF IInv, RingInv
      <4>2. /\ at'[i] = at[i] /\ ChunkEnd(i)' = ChunkEnd(i)
            /\ at'[j] = at[j] /\ ChunkEnd(j)' = ChunkEnd(j)
            /\ at[i] \in Nat /\ ChunkEnd(i) \in Nat
            /\ at[j] \in Nat /\ ChunkEnd(j) \in Nat
            /\ tail' = tail
        BY <1>4, <1>5, <2>2
      <4> QED
        BY <1>3, <1>6, <1>7, <4>1, <4>2, SMT DEF Before, InUse
    <3>2. ASSUME NEW i \in Chunks PROVE Before(i, n)'
      <4>1. InUse(i)
        BY DEF IInv, RingInv
      <4>2. /\ at'[i] = at[i] /\ ChunkEnd(i)' = ChunkEnd(i)
            /\ at'[n] = Start /\ ChunkEnd(n)' = ElementEnd
            /\ at[i] \in Nat /\ ChunkEnd(i) \in Nat /\ at[i] < ChunkEnd(i)
            /\ tail' = tail
        BY <1>4, <1>5, <2>2
      <4> QED
        BY <1>3, <1>6, <1>7, <4>1, <4>2, SMT DEF Before, InUse
    <3>3. \A i \in Chunks : ~(n < i) /\ ~(n < n)
      BY <1>5, SMT DEF Chunks
    <3> QED
      BY <1>5, <3>1, <3>2, <3>3
  <2>6. ASSUME NEW i \in Nat, NEW o \in Nat, o < Size,
               StartsFrom(i, o), i \in Chunks
        PROVE  \/ at'[i] = o
               \/ at'[i] = 0 /\ buf'[o].gap /\ head' < tail' /\ tail' <= o
    <3>1. CASE at[i] = o
      BY <1>5, <2>6, <3>1
    <3>2. CASE at[i] = 0 /\ buf[o].gap /\ head < tail /\ tail <= o
      <4>1. at'[i] = 0 /\ buf'[o].gap /\ tail' = tail
        BY <1>4, <1>5, <2>6, <3>2
      <4>2. head' < tail
        BY <1>3, <1>6, <1>7, <3>2, SMT
      <4> QED
        BY <3>2, <4>1, <4>2
    <3> QED
      BY <2>6, <3>1, <3>2 DEF StartsFrom
  <2>7. ASSUME NEW o \in Nat, o = head
        PROVE  \/ at'[n] = o
               \/ at'[n] = 0 /\ buf'[o].gap /\ head' < tail' /\ tail' <= o
    BY <1>3, <1>4, <1>5, <1>6, <1>7, <1>8, <2>7
  <2>8. ASSUME NEW i \in Chunks', i + 1 \in Chunks'
        PROVE  StartsFrom(i + 1, ChunkEnd(i))'
    <3>1. i \in Chunks /\ i + 1 \in Nat
      BY <1>5, <2>8, SMT DEF Chunks
    <3>2. ChunkEnd(i) \in Nat /\ ChunkEnd(i) < Size
      BY <2>2, <3>1 DEF IInv, RingInv, InUse
    <3>3. CASE i + 1 \in Chunks
      <4>1. StartsFrom(i + 1, ChunkEnd(i))
        BY <3>1, <3>3 DEF IInv, RingInv
      <4> QED
        BY <1>5, <2>6, <3>1, <3>2, <3>3, <4>1 DEF StartsFrom
    <3>4. CASE i + 1 = n
      <4>1. i = Len(queue) /\ queue # << >>
        BY <1>5, <3>1, <3>4, SMT DEF Chunks
      <4>2. ChunkEnd(i) = head
        BY <4>1 DEF IInv, RingInv
      <4> QED
        BY <1>5, <2>7, <3>1, <3>2, <3>4, <4>2 DEF StartsFrom
    <3> QED
      BY <1>5, <2>8, <3>3, <3>4
  <2>9. StartsFrom(1, tail)'
    <3>1. CASE queue # << >>
      <4>1. 1 \in Chunks
        BY <3>1, <1>5, SMT DEF IInv, TypeOK, Chunks
      <4>2. StartsFrom(1, tail) /\ tail < Size
        BY <3>1, SizeAssumption, SMT DEF IInv, RingInv, TypeOK, Offsets
      <4> QED
        BY <1>4, <1>6, <2>6, <4>1, <4>2 DEF StartsFrom
    <3>2. CASE queue = << >>
      <4>1. n = 1 /\ tail = head
        BY <3>2 DEF IInv, RingInv
      <4> QED
        BY <1>4, <1>6, <2>7, <4>1 DEF StartsFrom
    <3> QED
      BY <3>1, <3>2
  <2>10. ChunkEnd(Len(queue))' = head'
    BY <1>3, <1>5
  <2> QED
    BY <1>5, <2>1, <2>3, <2>4, <2>5, <2>8, <2>9, <2>10 DEF RingInv
<1>11. ProducerInv'
  BY DEF PublishHead, ProducerInv
<1>12. ConsumerInv'
  <2>1. queue # << >> => 1 \in Chunks
    BY <1>5, SMT DEF IInv, TypeOK, Chunks
  <2> QED
    BY <1>4, <1>5, <2>1 DEF IInv, PublishHead, ConsumerInv, consumer
<1> QED
  BY <1>9, <1>10, <1>11, <1>12 DEF IInv
-----------------------------------------------------------------------------
(***************************************************************************)
(* The invariant is preserved: the consumer's steps.                       *)
(***************************************************************************)
\* The oldest chunk, and what the arithmetic needs to know of the indices.
LEMMA Oldest ==
  ASSUME IInv, queue # << >>
  PROVE  /\ 1 \in Chunks
         /\ head \in Nat /\ tail \in Nat /\ head < Size /\ tail < Size
         /\ Size \in Nat /\ Size > 0 /\ chead \in Nat /\ chead < Size
         /\ InUse(1) /\ Stored(at[1], queue[1])
         /\ at[1] \in Offsets /\ queue[1] \in Chunk
         /\ ChunkAt(at[1]) = queue[1] /\ ~buf[at[1]].gap
         /\ \A i \in Chunks : /\ at[i] \in Nat /\ ChunkEnd(i) \in Nat
                              /\ at[i] < ChunkEnd(i) /\ ChunkEnd(i) < Size
<1>1. 1 \in Chunks
  BY SMT DEF IInv, TypeOK, Chunks
<1>2. /\ head \in Offsets /\ tail \in Offsets /\ chead \in Offsets
      /\ Size \in Nat /\ Size > 0
  BY SizeAssumption DEF IInv, TypeOK
<1>3. /\ head \in Nat /\ tail \in Nat /\ head < Size /\ tail < Size
      /\ chead \in Nat /\ chead < Size
  BY <1>2, SMT DEF Offsets
<1>4. InUse(1) /\ Stored(at[1], queue[1])
  BY <1>1 DEF IInv, RingInv
<1>5. at[1] \in Offsets /\ queue[1] \in Chunk
  BY <1>1, ChunkTypes DEF IInv, RingInv
<1>6. ChunkAt(at[1]) = queue[1] /\ ~buf[at[1]].gap
  BY <1>4, <1>5, StoredRead DEF IInv, InUse, ChunkEnd
<1>7. \A i \in Chunks : /\ at[i] \in Nat /\ ChunkEnd(i) \in Nat
                       /\ at[i] < ChunkEnd(i) /\ ChunkEnd(i) < Size
  <2> TAKE i \in Chunks
  <2>1. at[i] \in Offsets /\ Pad(queue[i].len) \in Nat /\ ChunkEnd(i) \in Nat
    BY ChunkTypes DEF IInv, RingInv
  <2>2. ChunkEnd(i) < Size
    BY DEF IInv, RingInv, InUse
  <2> QED
    BY <1>2, <2>1, <2>2, SMT DEF ChunkEnd, Offsets, Hdr
<1> QED
  BY <1>1, <1>2, <1>3, <1>4, <1>5, <1>6, <1>7

\* A head loaded while chunks are waiting tells a wrapped oldest chunk.
LEMMA LoadInv == ASSUME IInv, ReadLoad PROVE IInv'
<1>1. queue # << >>
  BY DEF IInv, RingInv, ReadLoad
<1>2. at[1] = tail \/ (0 < head /\ head < tail)
  <2>1. StartsFrom(1, tail)
    BY <1>1 DEF IInv, RingInv
  <2>2. CASE at[1] = 0 /\ head < tail
    BY <1>1, <2>2, Oldest, SMT DEF InUse
  <2> QED
    BY <2>1, <2>2 DEF StartsFrom
<1>3. TypeOK'
  BY DEF IInv, TypeOK, ReadLoad, producer
<1>4. RingInv'
  BY MemoryFrame DEF IInv, ReadLoad
<1>5. ProducerInv'
  BY DEF IInv, ProducerInv, ReadLoad, producer, Length, ElementEnd, Start, Cells
<1>6. ConsumerInv'
  BY <1>1, <1>2 DEF IInv, ConsumerInv, ReadLoad
<1> QED
  BY <1>3, <1>4, <1>5, <1>6 DEF IInv

\* The consumer recognises a gap exactly when the oldest chunk is behind one.
LEMMA GapSeen ==
  ASSUME IInv, cpc = "loaded"
  PROVE  /\ queue # << >>
         /\ GapAhead => at[1] = 0 /\ head < tail
         /\ ~GapAhead => at[1] = tail
<1>1. queue # << >>
  BY DEF IInv, ConsumerInv
<1>2. StartsFrom(1, tail)
  BY <1>1 DEF IInv, RingInv
<1>3. at[1] = tail => ~GapAhead
  BY <1>1, Oldest DEF GapAhead
<1>4. ASSUME at[1] # tail PROVE GapAhead
  <2>1. 0 < chead /\ chead < tail /\ buf[tail].gap
    BY <1>2, <1>4 DEF IInv, ConsumerInv, StartsFrom
  <2>2. /\ tail \in Nat /\ tail < Size /\ Size \in Nat
        /\ chead \in Nat /\ chead < Size
    BY <1>1, Oldest
  <2>3. chead - tail + Size \in Nat /\ chead - tail + Size < Size
    BY <2>1, <2>2, SMT
  <2>4. ReadSpace = chead - tail + Size
    BY <2>1, <2>2, <2>3, ModSize, SMT DEF ReadSpace
  <2> QED
    BY <2>1, <2>2, <2>4, SMT DEF GapAhead
<1> QED
  BY <1>1, <1>2, <1>3, <1>4 DEF StartsFrom

\* Skipping a gap brings tail to the chunk behind it, at offset 0.
LEMMA SkipInv == ASSUME IInv, SkipGap PROVE IInv'
<1>1. queue # << >> /\ at[1] = 0 /\ head < tail
  BY GapSeen DEF SkipGap
<1>2. /\ 1 \in Chunks
      /\ head \in Nat /\ tail \in Nat /\ head < Size /\ tail < Size
      /\ Size \in Nat /\ Size > 0
      /\ InUse(1)
      /\ \A i \in Chunks : /\ at[i] \in Nat /\ ChunkEnd(i) \in Nat
                           /\ at[i] < ChunkEnd(i) /\ ChunkEnd(i) < Size
  BY <1>1, Oldest
<1>3. tail' = 0
  BY <1>2, ModSize, SMT DEF SkipGap
<1>4. UNCHANGED << head, buf, queue, at, chead, held, rsvd, gapd, ppc, pmin,
                   plen, pdat >> /\ cpc' = "skipped"
  BY DEF SkipGap, producer
<1>5. \A i \in Chunks : at[i] < tail /\ ChunkEnd(i) <= head
  <2> TAKE i \in Chunks
  <2>1. InUse(i)
    BY DEF IInv, RingInv
  <2>2. CASE i = 1
    BY <1>1, <1>2, <2>2, SMT DEF InUse
  <2>3. CASE i # 1
    <3>1. 1 < i
      BY <2>3, SMT DEF Chunks
    <3>2. Before(1, i)
      BY <1>2, <3>1 DEF IInv, RingInv
    <3>3. at[i] \in Nat /\ ChunkEnd(i) \in Nat
      BY <1>2
    <3> QED
      BY <1>1, <1>2, <2>1, <3>2, <3>3, SMT DEF Before, InUse
  <2> QED
    BY <2>2, <2>3
<1>6. TypeOK'
  <2>1. 0 \in Offsets
    BY <1>2, SMT DEF Offsets, Hdr
  <2> QED
    BY <1>3, <1>4, <2>1 DEF IInv, TypeOK
<1>7. RingInv'
  <2>1. Len(at') = Len(queue') /\ Chunks' = Chunks /\ head > 0
    BY <1>2, <1>4, <1>5, SMT DEF IInv, RingInv, Chunks
  <2>2. \A i \in Chunks : /\ at'[i] = at[i] /\ ChunkEnd(i)' = ChunkEnd(i)
                          /\ at[i] \in Nat /\ ChunkEnd(i) \in Nat
                          /\ ChunkEnd(i) <= head /\ ChunkEnd(i) < Size
                          /\ at[i] < tail
    BY <1>2, <1>4, <1>5 DEF ChunkEnd
  <2>3. ASSUME NEW i \in Chunks PROVE InUse(i)' /\ Stored(at[i], queue[i])'
    <3>1. Stored(at[i], queue[i])
      BY DEF IInv, RingInv
    <3>2. Stored(at[i], queue[i])'
      BY <1>4, <3>1 DEF Stored, Cells
    <3>3. /\ at'[i] = at[i] /\ ChunkEnd(i)' = ChunkEnd(i) /\ at[i] \in Nat
          /\ ChunkEnd(i) <= head /\ ChunkEnd(i) < Size /\ head' = head
      BY <1>4, <2>2
    <3> QED
      BY <1>2, <1>3, <3>2, <3>3, SMT DEF InUse
  <2>4. ASSUME NEW i \in Chunks, NEW j \in Chunks, i < j PROVE Before(i, j)'
    <3>1. Before(i, j)
      BY <2>4 DEF IInv, RingInv
    <3>2. /\ at'[i] = at[i] /\ ChunkEnd(i)' = ChunkEnd(i) /\ at[i] \in Nat
          /\ at'[j] = at[j] /\ at[j] \in Nat /\ at[i] < tail
      BY <2>2
    <3> QED
      BY <1>2, <1>3, <3>1, <3>2, SMT DEF Before
  <2>5. ASSUME NEW i \in Chunks, i + 1 \in Chunks
        PROVE  StartsFrom(i + 1, ChunkEnd(i))'
    <3>1. StartsFrom(i + 1, ChunkEnd(i))
      BY <2>5 DEF IInv, RingInv
    <3>2. /\ at'[i + 1] = at[i + 1] /\ ChunkEnd(i)' = ChunkEnd(i)
          /\ ChunkEnd(i) \in Nat /\ ChunkEnd(i) <= head
      BY <2>2, <2>5
    <3> QED
      BY <1>1, <1>2, <3>1, <3>2, SMT DEF StartsFrom
  <2>6. StartsFrom(1, tail)'
    BY <1>1, <1>3, <1>4 DEF StartsFrom
  <2>7. (ChunkEnd(Len(queue)) = head)'
    BY <1>1, <1>4 DEF IInv, RingInv, ChunkEnd
  <2> QED
    BY <1>1, <1>3, <1>4, <2>1, <2>3, <2>4, <2>5, <2>6, <2>7 DEF RingInv
<1>8. ProducerInv'
  <2>1. Start' = Start /\ Length' = Length /\ ElementEnd' = ElementEnd
    BY <1>4 DEF Start, Length, ElementEnd
  <2>2. ~(head < 0) /\ ~(tail <= head)
    BY <1>1, <1>2, SMT
  <2>3. ppc # "idle" => ~(gapd > 0)
    BY <2>2 DEF IInv, ProducerInv
  <2> QED
    BY <1>3, <1>4, <2>1, <2>2, <2>3 DEF IInv, ProducerInv, Cells
<1>9. ConsumerInv'
  BY <1>1, <1>3, <1>4 DEF IInv, ConsumerInv, SkipGap
<1> QED
  BY <1>6, <1>7, <1>8, <1>9 DEF IInv
\* The consumer sees the oldest chunk, whether or not a gap was in the way.
LEMMA LookInv ==
  ASSUME IInv, queue # << >>, at[1] = tail, cpc' = "holding",
         held' = ChunkAt(tail),
         UNCHANGED << head, tail, buf, producer, chead, queue, at >>
  PROVE  IInv'
<1>1. held' = queue[1] /\ queue[1] \in Chunk
  BY Oldest
<1>2. queue[1] \in [len : Nat, dat : Data \cup {None}]
  BY <1>1, LensPositive DEF Chunk
<1>3. queue[1] # None
  BY <1>1, ChunkAssumption
<1>4. TypeOK'
  BY <1>1, <1>2 DEF IInv, TypeOK, producer
<1>5. RingInv'
  BY MemoryFrame DEF IInv
<1>6. ProducerInv'
  BY DEF IInv, ProducerInv, producer, Length, ElementEnd, Start, Cells
<1>7. ConsumerInv'
  BY <1>1, <1>3 DEF IInv, ConsumerInv
<1> QED
  BY <1>4, <1>5, <1>6, <1>7 DEF IInv

\* Without a gap ahead the oldest chunk is at tail.
LEMMA HereInv == ASSUME IInv, ReadHere PROVE IInv'
<1>1. queue # << >> /\ at[1] = tail
  BY GapSeen DEF ReadHere
<1> QED
  BY <1>1, LookInv DEF ReadHere

\* Behind a gap the oldest chunk is at offset 0.
LEMMA AfterGapInv == ASSUME IInv, ReadAfterGap PROVE IInv'
<1>1. queue # << >> /\ at[1] = tail /\ tail = 0
  BY DEF IInv, ConsumerInv, ReadAfterGap
<1> QED
  BY <1>1, LookInv DEF ReadAfterGap

\* The history after the oldest chunk is dropped.
LEMMA Dropped ==
  ASSUME TypeOK, Len(at) = Len(queue), queue # << >>,
         queue' = SubSeq(queue, 2, Len(queue)), at' = SubSeq(at, 2, Len(at))
  PROVE  /\ Len(queue') = Len(queue) - 1 /\ Len(at') = Len(queue')
         /\ Len(queue) \in Nat /\ Len(queue) > 0
         /\ queue' \in Seq(Chunk) /\ at' \in Seq(Offsets)
         /\ Chunks' = 1 .. Len(queue) - 1
         /\ \A i \in 1 .. Len(queue) - 1 :
              /\ i + 1 \in Chunks
              /\ queue'[i] = queue[i + 1] /\ at'[i] = at[i + 1]
              /\ ChunkEnd(i)' = ChunkEnd(i + 1)
<1>1. queue \in Seq(Chunk) /\ at \in Seq(Offsets)
  BY DEF TypeOK
<1>2. Len(queue) \in Nat /\ Len(queue) > 0
  BY <1>1, SMT
<1>3. Len(queue') = Len(queue) - 1 /\ Len(at') = Len(queue) - 1
  BY <1>1, <1>2, SMT
<1>4. queue' \in Seq(Chunk) /\ at' \in Seq(Offsets)
  BY <1>1, <1>2, SMT
<1>5. \A i \in 1 .. Len(queue) - 1 :
        /\ i + 1 \in Chunks
        /\ queue'[i] = queue[i + 1] /\ at'[i] = at[i + 1]
  BY <1>1, <1>2, SMT DEF Chunks
<1>6. \A i \in 1 .. Len(queue) - 1 : ChunkEnd(i)' = ChunkEnd(i + 1)
  BY <1>5 DEF ChunkEnd
<1> QED
  BY <1>2, <1>3, <1>4, <1>5, <1>6 DEF Chunks

\* Advancing drops exactly the oldest chunk.
LEMMA AdvanceInv == ASSUME IInv, ReadAdvance PROVE IInv'
<1>1. queue # << >> /\ at[1] = tail
  BY DEF IInv, ConsumerInv, ReadAdvance
<1>2. /\ 1 \in Chunks
      /\ head \in Nat /\ tail \in Nat /\ head < Size /\ tail < Size
      /\ Size \in Nat /\ Size > 0
      /\ InUse(1) /\ Stored(at[1], queue[1])
      /\ at[1] \in Offsets /\ queue[1] \in Chunk
      /\ \A i \in Chunks : /\ at[i] \in Nat /\ ChunkEnd(i) \in Nat
                           /\ at[i] < ChunkEnd(i) /\ ChunkEnd(i) < Size
  BY <1>1, Oldest
<1> PICK new \in Nat : new = ChunkEnd(1)
  BY <1>2
<1>3. tail < new /\ new < Size /\ new \in Offsets
  BY <1>1, <1>2, ChunkTypes, OffsetPlus DEF ChunkEnd, IInv, RingInv
<1>4. tail' = new
  <2>1. buf[tail].size = queue[1].len
    BY <1>1, <1>2 DEF Stored, Header
  <2>2. tail + Hdr + Pad(buf[tail].size) = new
    BY <1>1, <2>1 DEF ChunkEnd
  <2>3. new % Size = new
    BY <1>2, <1>3, ModSize, SMT
  <2> QED
    BY <2>2, <2>3 DEF ReadAdvance
<1>5. /\ UNCHANGED << head, buf, chead, rsvd, gapd, ppc, pmin, plen, pdat >>
      /\ cpc' = "idle" /\ held' = None
  BY DEF ReadAdvance, producer
<1> PICK n \in Nat : n = Len(queue) - 1
  BY <1>1, Dropped DEF IInv, RingInv, ReadAdvance
<1>6. /\ Len(queue') = n /\ Len(at') = n /\ Len(queue) = n + 1
      /\ queue' \in Seq(Chunk) /\ at' \in Seq(Offsets)
      /\ Chunks' = 1 .. n
      /\ \A i \in 1 .. n : /\ i + 1 \in Chunks
                           /\ queue'[i] = queue[i + 1] /\ at'[i] = at[i + 1]
                           /\ ChunkEnd(i)' = ChunkEnd(i + 1)
  BY <1>1, Dropped, SMT DEF IInv, RingInv, ReadAdvance
<1>7. \A i \in Chunks : InUse(i)
  BY DEF IInv, RingInv
<1>8. \A i \in Chunks : i > 1 => Before(1, i)
  BY <1>2, SMT DEF IInv, RingInv, Chunks
<1>9. \A i \in 1 .. n : i + 1 \in Chunks /\ i + 1 > 1
  <2> TAKE i \in 1 .. n
  <2>1. i + 1 > 1
    BY SMT
  <2> QED
    BY <1>6, <2>1
\* Chunk i + 1 stays in use when tail moves to the end of the first chunk.
<1>10. ASSUME NEW i \in Chunks, i > 1
       PROVE  /\ tail <= head => new <= at[i] /\ ChunkEnd(i) <= head
              /\ head < tail => new <= at[i] \/ ChunkEnd(i) <= head
              /\ tail <= at[i] <=> new <= at[i]
  <2>1. InUse(i) /\ Before(1, i)
    BY <1>7, <1>8, <1>10
  <2>2. at[i] \in Nat /\ ChunkEnd(i) \in Nat /\ at[i] < ChunkEnd(i)
    BY <1>2
  <2> QED
    BY <1>1, <1>2, <1>3, <2>1, <2>2, SMT DEF InUse, Before
<1>11. tail <= head <=> new <= head
  BY <1>1, <1>2, <1>3, SMT DEF InUse
<1>12. TypeOK'
  BY <1>3, <1>4, <1>5, <1>6 DEF IInv, TypeOK
<1>13. RingInv'
  <2>1. n = 0 => head = new
    <3>1. n = 0 => ChunkEnd(1) = head
      BY <1>1, <1>6 DEF IInv, RingInv
    <3> QED
      BY <3>1
  <2>2. n > 0 => head # new
    <3> SUFFICES ASSUME n > 0 PROVE head # new
      OBVIOUS
    <3>1. 2 \in Chunks
      BY <1>6, SMT DEF Chunks
    <3>2. at[2] \in Nat /\ ChunkEnd(2) \in Nat /\ at[2] < ChunkEnd(2)
      BY <1>2, <3>1
    <3> QED
      BY <1>2, <1>3, <1>10, <1>11, <3>1, <3>2, SMT
  <2>3. (head = tail <=> queue = << >>)'
    <3>1. queue' = << >> <=> n = 0
      BY <1>6, SMT
    <3> QED
      BY <1>4, <1>5, <2>1, <2>2, <3>1, SMT
  <2>4. ASSUME NEW i \in 1 .. n PROVE InUse(i)' /\ Stored(at[i], queue[i])'
    <3>1. Stored(at[i + 1], queue[i + 1])
      BY <1>6 DEF IInv, RingInv
    <3>2. Stored(at[i], queue[i])'
      BY <1>5, <1>6, <3>1 DEF Stored, Cells
    <3>3. /\ at'[i] = at[i + 1] /\ ChunkEnd(i)' = ChunkEnd(i + 1)
          /\ at[i + 1] \in Nat /\ ChunkEnd(i + 1) \in Nat
          /\ ChunkEnd(i + 1) < Size
      BY <1>2, <1>6
    <3>4. /\ tail <= head => new <= at[i + 1] /\ ChunkEnd(i + 1) <= head
          /\ head < tail => new <= at[i + 1] \/ ChunkEnd(i + 1) <= head
      BY <1>9, <1>10
    <3> QED
      BY <1>2, <1>3, <1>4, <1>5, <1>11, <3>2, <3>3, <3>4, SMT DEF InUse
  <2>5. ASSUME NEW i \in 1 .. n, NEW j \in 1 .. n, i < j PROVE Before(i, j)'
    <3>1. Before(i + 1, j + 1)
      <4>1. i + 1 \in Chunks /\ j + 1 \in Chunks
        BY <1>9
      <4>2. i + 1 < j + 1
        BY <2>5, SMT
      <4> QED
        BY <4>1, <4>2 DEF IInv, RingInv
    <3>2. /\ at'[i] = at[i + 1] /\ ChunkEnd(i)' = ChunkEnd(i + 1)
          /\ at'[j] = at[j + 1] /\ ChunkEnd(j)' = ChunkEnd(j + 1)
          /\ at[i + 1] \in Nat /\ ChunkEnd(i + 1) \in Nat
          /\ at[j + 1] \in Nat /\ ChunkEnd(j + 1) \in Nat
      BY <1>2, <1>6
    <3>3. /\ tail <= at[i + 1] <=> new <= at[i + 1]
          /\ tail <= at[j + 1] <=> new <= at[j + 1]
      BY <1>9, <1>10
    <3> QED
      BY <1>2, <1>3, <1>4, <1>5, <1>11, <3>1, <3>2, <3>3, SMT DEF Before
  \* A gap that is still ahead is not behind the new tail.
  <2>6. ASSUME NEW i \in Chunks, i + 1 \in Chunks
        PROVE  \/ at[i + 1] = ChunkEnd(i)
               \/ /\ at[i + 1] = 0 /\ buf[ChunkEnd(i)].gap
                  /\ head < new /\ new <= ChunkEnd(i)
    <3>1. StartsFrom(i + 1, ChunkEnd(i))
      BY <2>6 DEF IInv, RingInv
    <3>2. head < tail /\ tail <= ChunkEnd(i) /\ at[i + 1] = 0
             => head < new /\ new <= ChunkEnd(i)
      <4>1. at[i] \in Nat /\ ChunkEnd(i) \in Nat /\ at[i] < ChunkEnd(i)
        BY <1>2
      <4>2. i = 1 \/ i > 1
        BY SMT DEF Chunks
      <4>3. i > 1 => InUse(i) /\ (tail <= at[i] <=> new <= at[i])
        BY <1>7, <1>10
      <4> QED
        BY <1>2, <1>3, <4>1, <4>2, <4>3, SMT DEF InUse
    <3> QED
      BY <3>1, <3>2 DEF StartsFrom
  <2>7. ASSUME NEW i \in 1 .. n, i + 1 \in 1 .. n
        PROVE  StartsFrom(i + 1, ChunkEnd(i))'
    <3>1. i + 1 \in Chunks /\ (i + 1) + 1 \in Chunks
      BY <1>6, <2>7
    <3>2. /\ at'[i + 1] = at[(i + 1) + 1]
          /\ ChunkEnd(i)' = ChunkEnd(i + 1)
      BY <1>6, <2>7
    <3> QED
      BY <1>4, <1>5, <2>6, <3>1, <3>2 DEF StartsFrom
  <2>8. n > 0 => StartsFrom(1, tail)'
    <3> SUFFICES ASSUME n > 0 PROVE StartsFrom(1, tail)'
      OBVIOUS
    <3>1. 1 \in 1 .. n /\ 1 + 1 \in Chunks
      BY <1>6, SMT DEF Chunks
    <3>2. at'[1] = at[1 + 1]
      BY <1>6, <3>1
    <3> QED
      BY <1>2, <1>4, <1>5, <2>6, <3>1, <3>2 DEF StartsFrom
  <2>9. n > 0 => (ChunkEnd(Len(queue)) = head)'
    <3> SUFFICES ASSUME n > 0 PROVE (ChunkEnd(Len(queue)) = head)'
      OBVIOUS
    <3>1. n \in 1 .. n
      BY SMT
    <3>2. ChunkEnd(n)' = ChunkEnd(n + 1)
      BY <1>6, <3>1
    <3>3. ChunkEnd(n + 1) = head
      BY <1>1, <1>6 DEF IInv, RingInv
    <3> QED
      BY <1>5, <1>6, <3>2, <3>3 DEF ChunkEnd
  <2>10. queue' # << >> => n > 0
    BY <1>6, SMT
  <2> QED
    BY <1>6, <2>3, <2>4, <2>5, <2>7, <2>8, <2>9, <2>10 DEF RingInv
<1>14. ProducerInv'
  <2>1. Start' = Start /\ Length' = Length /\ ElementEnd' = ElementEnd
    BY <1>5 DEF Start, Length, ElementEnd
  <2>2. CASE ppc = "idle"
    BY <1>5, <2>2 DEF ProducerInv
  <2>3. CASE ppc # "idle"
    <3>1. ElementEnd \in Nat
      BY <2>3, ProducerClear, SMT DEF IInv, Offsets
    <3>2. /\ gapd = 0 => (head < new => ElementEnd < new)
          /\ gapd > 0 => gapd = Size - head /\ new <= head /\ ElementEnd < new
      BY <1>2, <1>3, <1>11, <2>3, <3>1, SMT DEF IInv, ProducerInv
    <3> QED
      BY <1>4, <1>5, <2>1, <2>3, <3>2 DEF IInv, ProducerInv, Cells
  <2> QED
    BY <2>2, <2>3
<1>15. ConsumerInv'
  BY <1>5 DEF ConsumerInv
<1> QED
  BY <1>12, <1>13, <1>14, <1>15 DEF IInv
-----------------------------------------------------------------------------
(***************************************************************************)
(* The theorems.                                                           *)
(***************************************************************************)
\* A step that changes nothing keeps the invariant.
LEMMA StutterInv == ASSUME IInv, UNCHANGED vars PROVE IInv'
<1>1. TypeOK'
  BY DEF IInv, TypeOK, vars
<1>2. RingInv'
  BY MemoryFrame DEF IInv, vars
<1>3. ProducerInv'
  BY DEF IInv, ProducerInv, vars, Length, ElementEnd, Start, Cells
<1>4. ConsumerInv'
  BY DEF IInv, ConsumerInv, vars
<1> QED
  BY <1>1, <1>2, <1>3, <1>4 DEF IInv

\* Every step of either thread keeps the invariant.
LEMMA NextInv == ASSUME UseMaximum = FALSE, IInv, [Next]_vars PROVE IInv'
<1>1. ASSUME NEW n \in Lens, WriteRequest(n) PROVE IInv'
  BY <1>1, RequestInv
<1>2. ASSUME NEW n \in Lens, WriteRefused(n) PROVE IInv'
  BY <1>2, RefusedInv
<1>3. ASSUME NEW n \in Lens, NEW d \in Data, Fill(n, d) PROVE IInv'
  BY <1>3, FillInv
<1>4. CASE Abandon
  BY <1>4, AbandonInv
<1>5. CASE WriteHeader
  BY <1>5, HeaderInv
<1>6. CASE PublishHead
  BY <1>6, PublishInv
<1>7. CASE ReadLoad
  BY <1>7, LoadInv
<1>8. CASE SkipGap
  BY <1>8, SkipInv
<1>9. CASE ReadAfterGap
  BY <1>9, AfterGapInv
<1>10. CASE ReadHere
  BY <1>10, HereInv
<1>11. CASE ReadAdvance
  BY <1>11, AdvanceInv
<1>12. CASE UNCHANGED vars
  BY <1>12, StutterInv
<1> QED
  BY <1>1, <1>2, <1>3, <1>4, <1>5, <1>6, <1>7, <1>8, <1>9, <1>10, <1>11, <1>12
     DEF Next, Produce, Consume

\* The inductive invariant holds in every reachable state.
THEOREM Invariance ==
  ASSUME UseMaximum = FALSE
  PROVE  Spec => []IInv
<1>1. Init => IInv
  BY InitInv
<1>2. IInv /\ [Next]_vars => IInv'
  BY NextInv
<1> QED
  BY <1>1, <1>2, PTL DEF Spec

\* Every variable keeps its type; in particular head and tail stay aligned
\* offsets into the body.
THEOREM TypeCorrect ==
  ASSUME UseMaximum = FALSE
  PROVE  Spec => []TypeOK
<1>1. IInv => TypeOK
  BY DEF IInv
<1> QED
  BY <1>1, Invariance, PTL

\* The producer never builds an element over memory the consumer may read,
\* beyond the body, or up to tail.
THEOREM OverrunFree ==
  ASSUME UseMaximum = FALSE
  PROVE  Spec => []NoOverrun
<1>1. ASSUME IInv PROVE NoOverrun
  <2> SUFFICES ASSUME ppc # "idle"
               PROVE  /\ Claimed \cap Unread = {}
                      /\ ElementEnd <= Size
                      /\ ElementEnd % Size # tail
    BY DEF NoOverrun
  <2>1. /\ Claimed \cap Unread = {} /\ ElementEnd \in Offsets
        /\ ElementEnd # tail
    BY <1>1, ProducerClear DEF IInv
  <2>2. ElementEnd \in Nat /\ ElementEnd < Size /\ Size \in Nat
    BY <2>1, SizeAssumption, SMT DEF Offsets
  <2>3. ElementEnd % Size = ElementEnd
    BY <2>2, ModSize, SMT
  <2> QED
    BY <2>1, <2>2, <2>3, SMT
<1> QED
  BY <1>1, Invariance, PTL

\* What the consumer holds is, and stays, the oldest published chunk.
THEOREM HeldStable ==
  ASSUME UseMaximum = FALSE
  PROVE  Spec => []HeldIntact
<1>1. ASSUME IInv PROVE HeldIntact
  <2> SUFFICES ASSUME cpc = "holding"
               PROVE  /\ queue # << >>
                      /\ held = queue[1]
                      /\ ChunkAt(tail) = queue[1]
    BY DEF HeldIntact
  <2>1. queue # << >> /\ held = queue[1] /\ at[1] = tail
    BY <1>1 DEF IInv, ConsumerInv
  <2> QED
    BY <1>1, <2>1, Oldest
<1> QED
  BY <1>1, Invariance, PTL

\* Unread chunks stay whole, and head meets tail only when none is left.
THEOREM UnreadStable ==
  ASSUME UseMaximum = FALSE
  PROVE  Spec => []UnreadIntact
<1>1. ASSUME IInv PROVE UnreadIntact
  <2>1. ASSUME NEW i \in Chunks
        PROVE  /\ ({at[i]} \cup Cells(at[i], queue[i].len)) \subseteq Unread
               /\ ChunkAt(at[i]) = queue[i]
               /\ ~buf[at[i]].gap
    <3>1. ({at[i]} \cup Cells(at[i], queue[i].len)) \subseteq Unread
      BY <1>1, ChunksUnread DEF IInv
    <3>2. Stored(at[i], queue[i]) /\ ChunkEnd(i) < Size
      BY <1>1 DEF IInv, RingInv, InUse
    <3>3. at[i] \in Offsets /\ queue[i] \in Chunk
      BY <1>1, ChunkTypes DEF IInv, RingInv
    <3> QED
      BY <1>1, <3>1, <3>2, <3>3, StoredRead DEF IInv, ChunkEnd
  <2> QED
    BY <1>1, <2>1 DEF UnreadIntact, IInv, RingInv, Chunks
<1> QED
  BY <1>1, Invariance, PTL

\* The ring implements the queue of chunks: publishing appends, looking hands
\* out the oldest chunk, advancing removes it, and every other step of the
\* ring is invisible.
THEOREM Implementation ==
  ASSUME UseMaximum = FALSE
  PROVE  Spec => ImplementsFifo
<1>1. Init => Fifo!Init
  BY DEF Init, Fifo!Init
<1>2. ASSUME IInv, IInv', [Next]_vars
      PROVE  [Fifo!Next]_<< queue, held >>
  <2>1. CASE PublishHead
    <3>1. [len |-> plen, dat |-> pdat] \in Chunk
      BY <1>2, <2>1 DEF IInv, ProducerInv, PublishHead, Length, Chunk
    <3> QED
      BY <2>1, <3>1 DEF PublishHead, consumer, Fifo!Next, Fifo!Put
  <2>2. ASSUME cpc \in {"loaded", "skipped"}, cpc' = "holding",
               UNCHANGED queue
        PROVE  Fifo!Take
    <3>1. held = None /\ queue # << >>
      BY <1>2, <2>2 DEF IInv, ConsumerInv
    <3>2. held' = queue[1]
      BY <1>2, <2>2 DEF IInv, ConsumerInv
    <3> QED
      BY <2>2, <3>1, <3>2 DEF Fifo!Take
  <2>3. CASE ReadHere \/ ReadAfterGap
    BY <2>2, <2>3 DEF ReadHere, ReadAfterGap, Fifo!Next
  <2>4. CASE ReadAdvance
    <3>1. held # None /\ queue # << >>
      BY <1>2, <2>4 DEF IInv, ConsumerInv, ReadAdvance
    <3>2. queue' = Tail(queue) /\ held' = None
      BY <2>4 DEF ReadAdvance
    <3> QED
      BY <3>1, <3>2 DEF Fifo!Next, Fifo!Drop
  <2>5. ASSUME NEW n \in Lens, WriteRequest(n) \/ WriteRefused(n)
        PROVE  UNCHANGED << queue, held >>
    BY <2>5 DEF WriteRequest, WriteRefused, consumer
  <2>6. ASSUME NEW n \in Lens, NEW d \in Data, Fill(n, d)
        PROVE  UNCHANGED << queue, held >>
    BY <2>6 DEF Fill, consumer
  <2>7. CASE Abandon \/ WriteHeader
    BY <2>7 DEF Abandon, WriteHeader, consumer
  <2>8. CASE ReadLoad \/ SkipGap
    BY <2>8 DEF ReadLoad, SkipGap
  <2>9. CASE UNCHANGED vars
    BY <2>9 DEF vars
  <2> QED
    BY <1>2, <2>1, <2>3, <2>4, <2>5, <2>6, <2>7, <2>8, <2>9
       DEF Next, Produce, Consume
<1> QED
  BY <1>1, <1>2, Invariance, PTL DEF Spec, ImplementsFifo, Fifo!Spec
=============================================================================
