------------------------------- MODULE Canvas -------------------------------
(***************************************************************************)
(* The canvas of monobusd and the OSC messages that draw on it: monobus.c, *)
(* the dispatch and argument loop of osc.lv2/reader.h it runs in, and the  *)
(* look-up of a pixel for the display in monobusd.c.                       *)
(*                                                                         *)
(* A pixel holds two bit sets over the priorities: mask, who has drawn     *)
(* there, and bits, with which ink.  A message is the set of priorities    *)
(* its path pattern matches and its typed arguments; one that is not well  *)
(* formed OSC is not considered.  One step handles one argument.           *)
(*                                                                         *)
(* Integers are those of 32 bits.  Where the code computes with unsigned   *)
(* ones they wrap; where a signed one overflows, or a byte behind a blob   *)
(* is read, C does not say what happens, and the model stops (Stray).      *)
(***************************************************************************)
EXTENDS Integers, Sequences

CONSTANTS
  Width, Height,   \* WIDTH_NET and HEIGHT_NET: 112 and 16
  Prios,           \* the number of priorities: 32
  Bits,            \* bits in a byte: 8
  Half,            \* 2^31: half of the values of 32 bits
  Messages         \* the messages clients send

ASSUME SizeAssumption == Width \in Nat \ {0} /\ Height \in Nat \ {0}
ASSUME PriosAssumption == Prios \in Nat \ {0}
ASSUME BitsAssumption == Bits \in Nat \ {0}
ASSUME HalfAssumption ==
  Half \in Nat /\ Width < Half /\ Height < Half /\ Bits <= Half

Columns == 0 .. Width - 1
Rows == 0 .. Height - 1
Pixel == Columns \X Rows
Prio == 0 .. Prios - 1

\* int32_t, and the conversion of an integer to it.
Int32 == -Half .. Half - 1
Wrap(n) == ((n + Half) % (2 * Half)) - Half

\* LV2_OSC_INT32, LV2_OSC_BLOB and all other types.  A blob is given by its
\* size in bytes and by those of its bits that are set: byte, place from the
\* least significant one.
IntArg   == [type : {"i"}, i : Int32]
BlobArg  == [type : {"b"}, size : 0 .. Half - 1, ones : SUBSET (Nat \X Nat)]
OtherArg == [type : {"other"}]
Arg == IntArg \cup BlobArg \cup OtherArg

ASSUME MessagesAssumption ==
  \A m \in Messages : m.prios \subseteq Prio /\ m.args \in Seq(Arg)

VARIABLES
  mask, bits,   \* of every pixel
  msg,          \* the message being handled
  todo,         \* entries of tree_priority still to be tried, that match
  cur,          \* the argument at hand, one LV2_OSC_Arg for all entries
  phase,        \* "idle", "match": in the tree, "branch": in _priority,
                \* "undefined": beyond what C defines
  prio,         \* the entry whose branch runs
  geo, idx,     \* offx, offy, width, height and the count of integers seen
  set           \* a picture has been drawn

vars == << mask, bits, msg, todo, cur, phase, prio, geo, idx, set >>
pixels == << mask, bits >>
registers == << prio, geo, idx, set >>

WholeCanvas == [x |-> 0, y |-> 0, w |-> Width, h |-> Height]
NoMessage == [prios |-> {}, args |-> << >>]

Init ==
  /\ mask = [px \in Pixel |-> {}] /\ bits = [px \in Pixel |-> {}]
  /\ msg = NoMessage /\ todo = {} /\ cur = 1 /\ phase = "idle"
  /\ prio = 0 /\ geo = WholeCanvas /\ idx = 0 /\ set = FALSE

-----------------------------------------------------------------------------
(***************************************************************************)
(* Rectangles and pictures.                                                *)
(***************************************************************************)
\* monobus_stride_for_width, for an unsigned width.
Stride(w) == ((w + Bits - 1) % (2 * Half)) \div Bits

\* The loop bounds of _set_pixels and _clr_pixels, along one axis, and whether
\* computing them overflows.  -off does only if Width - off and Height - off do.
First(off) == IF off < 0 THEN -off ELSE 0
End(len, off, limit) == IF len > limit - off THEN limit - off ELSE len
Overflows(g) == Width - g.x \notin Int32 \/ Height - g.y \notin Int32

\* The pixels they touch, by the indices used, in the canvas or not.
Touched(g) == ((g.x + First(g.x)) .. (g.x + End(g.w, g.x, Width) - 1))
              \X ((g.y + First(g.y)) .. (g.y + End(g.h, g.y, Height) - 1))

\* _get_bit of monobus.c, with unsigned numbers: rows end on a byte boundary.
\* Variant: the bytes of a row are counted from its front.
ByteReversed(y, x, w) ==
  (y * Stride(w) + ((w - x - 1) \div Bits)) % (2 * Half)
Byte(y, x, w) ==
  (y * Stride(w) + (Stride(w) - ((w - x - 1) \div Bits) - 1)) % (2 * Half)
Place(x, w) == (w - x - 1) % Bits

Ink(blob, g, px) ==
  << Byte(px[2] - g.y, px[1] - g.x, g.w), Place(px[1] - g.x, g.w) >>
    \in blob.ones

-----------------------------------------------------------------------------
(***************************************************************************)
(* The dispatch: lv2_osc_reader_match on tree_root.                        *)
(***************************************************************************)
Receive(m) ==
  /\ phase = "idle"
  /\ msg' = m /\ todo' = m.prios /\ cur' = 1
  /\ phase' = "match"
  /\ UNCHANGED << pixels, registers >>

\* The place of an entry in tree_priority.  Variant: counted from one.
EntryFromOne(p) == p + 1
Entry(p) == p

\* The next entry that matches: its branch starts with a clone of the reader,
\* but with the argument where the branch before it left it.
Enter(p) ==
  /\ phase = "match"
  /\ p \in todo /\ \A q \in todo : p <= q
  /\ todo' = todo \ {p} /\ prio' = Entry(p)
  /\ phase' = "branch"
  /\ UNCHANGED << pixels, msg, cur, geo, idx, set >>

Done ==
  /\ phase = "match" /\ todo = {}
  /\ phase' = "idle" /\ msg' = NoMessage /\ cur' = 1
  /\ UNCHANGED << pixels, todo, registers >>

-----------------------------------------------------------------------------
(***************************************************************************)
(* The argument loop of _priority.                                         *)
(***************************************************************************)
More == phase = "branch" /\ cur <= Len(msg.args)
\* Only meaningful when there is more.
This == msg.args[cur]

\* The first four integers are the geometry, wherever they stand.
TakeInt ==
  /\ More /\ This.type = "i"
  /\ geo' = [x |-> IF idx = 0 THEN This.i ELSE geo.x,
             y |-> IF idx = 1 THEN This.i ELSE geo.y,
             w |-> IF idx = 2 THEN This.i ELSE geo.w,
             h |-> IF idx = 3 THEN This.i ELSE geo.h]
  /\ idx' = idx + 1
  /\ cur' = cur + 1
  /\ UNCHANGED << pixels, msg, todo, phase, prio, set >>

\* Variant: the rows are taken to have no padding.
LongEnoughUnpadded(blob) == blob.size * Bits >= geo.w * geo.h
LongEnough(blob) == blob.size >= Wrap(Stride(geo.w) * geo.h)

\* _set_pixels.  Variant: the bits of the priority are only ever added.
DrawAdding(blob) ==
  /\ mask' = [px \in Pixel |-> IF px \in Touched(geo) THEN mask[px] \cup {prio}
                               ELSE mask[px]]
  /\ bits' = [px \in Pixel |->
                IF px \in Touched(geo) /\ Ink(blob, geo, px)
                THEN bits[px] \cup {prio} ELSE bits[px]]
Draw(blob) ==
  /\ mask' = [px \in Pixel |-> IF px \in Touched(geo) THEN mask[px] \cup {prio}
                               ELSE mask[px]]
  /\ bits' = [px \in Pixel |->
                IF px \notin Touched(geo) THEN bits[px]
                ELSE IF Ink(blob, geo, px) THEN bits[px] \cup {prio}
                ELSE bits[px] \ {prio}]

\* Drawing it overflows, or reads behind its end.
Strays(blob) ==
  LongEnough(blob) /\
    \/ Overflows(geo)
    \/ \E px \in Touched(geo) :
         Byte(px[2] - geo.y, px[1] - geo.x, geo.w) >= blob.size

TakeBlob ==
  /\ More /\ This.type = "b" /\ ~Strays(This)
  /\ IF LongEnough(This) THEN Draw(This) /\ set' = TRUE
                         ELSE UNCHANGED << pixels, set >>
  /\ cur' = cur + 1
  /\ UNCHANGED << msg, todo, phase, prio, geo, idx >>

TakeOther ==
  /\ More /\ This.type = "other"
  /\ cur' = cur + 1
  /\ UNCHANGED << pixels, msg, todo, phase, registers >>

\* _clr_pixels: the ink stays where it is.  Variant: of all priorities.
ClearAll == mask' = [px \in Pixel |-> IF px \in Touched(geo) THEN {}
                                      ELSE mask[px]]
Clear == mask' = [px \in Pixel |-> IF px \in Touched(geo)
                                   THEN mask[px] \ {prio} ELSE mask[px]]

\* The end of the arguments: without a picture, the rectangle is cleared.  The
\* registers are locals of _priority: the next branch starts with fresh ones.
Leave ==
  /\ phase = "branch" /\ cur > Len(msg.args) /\ (set \/ ~Overflows(geo))
  /\ IF set THEN UNCHANGED mask ELSE Clear
  /\ phase' = "match"
  /\ prio' = 0 /\ geo' = WholeCanvas /\ idx' = 0 /\ set' = FALSE
  /\ UNCHANGED << bits, msg, todo, cur >>

\* _set_pixels or _clr_pixels leaves what C defines; nothing is said of what
\* follows.
Stray ==
  /\ phase = "branch"
  /\ \/ More /\ This.type = "b" /\ Strays(This)
     \/ cur > Len(msg.args) /\ ~set /\ Overflows(geo)
  /\ phase' = "undefined"
  /\ UNCHANGED << pixels, msg, todo, cur, registers >>
Astray == phase = "undefined" /\ UNCHANGED vars

Next ==
  \/ \E m \in Messages : Receive(m)
  \/ \E p \in Prio : Enter(p)
  \/ Done \/ TakeInt \/ TakeBlob \/ TakeOther \/ Leave \/ Stray \/ Astray

Spec == Init /\ [][Next]_vars

-----------------------------------------------------------------------------
\* _get_bit of monobusd.c: the highest priority that has drawn there decides.
\* Variant: the highest priority that has ink there.
LitByInk(px) == bits[px] # {}
Lit(px) == \E p \in mask[px] : (\A q \in mask[px] : q <= p) /\ p \in bits[px]

-----------------------------------------------------------------------------
(***************************************************************************)
(* Properties.                                                             *)
(***************************************************************************)
Geometry == [x : Int32, y : Int32, w : Int32, h : Int32]

TypeOK ==
  /\ mask \in [Pixel -> SUBSET Prio] /\ bits \in [Pixel -> SUBSET Prio]
  /\ msg.args \in Seq(Arg)
  /\ todo \subseteq Prio /\ cur \in Nat \ {0}
  /\ phase \in {"idle", "match", "branch", "undefined"}
  /\ prio \in Prio /\ geo \in Geometry /\ idx \in Nat /\ set \in BOOLEAN

\* No offset so far to the left or above that its distance to the other edge of
\* the canvas leaves 32 bits, and no size whose bytes do.
Moderate(g) == ~Overflows(g) /\ Stride(g.w) * g.h < Half

\* However a moderate geometry, the blob of its message and the canvas disagree,
\* no pixel outside the canvas is written, no byte behind the end of the blob is
\* read, and nothing overflows.  The code has no check for the others, INT32_MIN
\* for an offset or 2^16 by 2^19 pixels: they may do any of this.
InBounds ==
  /\ phase = "branch" /\ ~Overflows(geo) => Touched(geo) \subseteq Pixel
  /\ phase = "undefined" => ~Moderate(geo)

\* The canvas is one independent layer per priority: ink left behind by a
\* clear, and ink of lower priorities, never comes back or shines through.
layer == [p \in Prio |-> [px \in Pixel |->
            IF p \notin mask[px] THEN "clear"
            ELSE IF p \in bits[px] THEN "on" ELSE "off"]]
L == INSTANCE Layers
ImplementsLayers == L!Spec

\* What the display is sent is the topmost layer that is opaque at the pixel.
TopmostShows == \A px \in Pixel : Lit(px) <=> L!Lit(px)

\* Messages as README.md describes them: four integers and a picture for one
\* priority, or no arguments to clear it.
Draws(m) ==
  /\ \E p \in Prio : m.prios = {p}
  /\ Len(m.args) = 5 /\ \A i \in 1 .. 4 : m.args[i].type = "i"
  /\ m.args[5].type = "b"
  /\ m.args[3].i > 0 /\ m.args[4].i > 0
  /\ m.args[5].size >= Stride(m.args[3].i) * m.args[4].i
Clears(m) == (\E p \in Prio : m.prios = {p}) /\ m.args = << >>

\* The part of the rectangle a drawing message asks for that is on the canvas.
Asked(m) ==
  {px \in Pixel : /\ m.args[1].i <= px[1] /\ px[1] < m.args[1].i + m.args[3].i
                  /\ m.args[2].i <= px[2] /\ px[2] < m.args[2].i + m.args[4].i}

\* A pixel of a picture in PBM format: rows of whole bytes, the leftmost pixel
\* in the most significant bit of the first.
PBM(blob, w, x, y) ==
  << y * Stride(w) + (x \div Bits), Bits - 1 - (x % Bits) >> \in blob.ones

ShowsPBM(m, p) ==
  \A px \in Asked(m) :
    layer[p][px] =
      IF PBM(m.args[5], m.args[3].i, px[1] - m.args[1].i, px[2] - m.args[2].i)
      THEN "on" ELSE "off"

AtEnd == phase = "branch" /\ cur > Len(msg.args)

\* Once its arguments are taken, a drawing message has put the part of its
\* picture that is on the canvas where it asked for, whatever was there, as
\* long as its rows are whole bytes.
PictureDrawn ==
  AtEnd /\ Draws(msg) /\ msg.args[3].i % Bits = 0 => ShowsPBM(msg, prio)

\* The same for every width, as README.md has it.
PictureIsPBM == AtEnd /\ Draws(msg) => ShowsPBM(msg, prio)

\* A drawing message leaves all pixels it did not ask for, and all other
\* priorities, as they are; one without arguments clears its priority, whole.
NothingElse ==
  [][/\ Draws(msg) \/ Clears(msg) =>
          \A px \in Pixel, p \in Prio : layer[p][px]' # layer[p][px] =>
            p \in msg.prios /\ (Draws(msg) => px \in Asked(msg))
     /\ Clears(msg) /\ Done =>
          \A px \in Pixel, p \in msg.prios : layer[p][px] = "clear"]_vars
=============================================================================
