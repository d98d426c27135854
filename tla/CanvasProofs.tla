---------------------------- MODULE CanvasProofs ----------------------------
(***************************************************************************)
(* Proofs about the canvas, for every size, number of priorities, width of *)
(* a byte and set of messages.  Typing is inductive by itself; that memory *)
(* is respected and that the canvas is made of layers follow from it step  *)
(* by step.  What a message does takes a stronger invariant, at the end.   *)
(***************************************************************************)
EXTENDS Canvas, TLAPS

-----------------------------------------------------------------------------
(***************************************************************************)
(* Arithmetic.                                                             *)
(***************************************************************************)
\* Integer division is monotone, strictly so across a multiple of the divisor.
LEMMA DivSmaller ==
  ASSUME NEW u \in Nat, NEW w \in Nat, u < w
  PROVE  u \div Bits \in 0 .. ((w + Bits - 1) \div Bits) - 1
<1> DEFINE q == u \div Bits
           s == (w + Bits - 1) \div Bits
<1>1. Bits \in Nat /\ Bits > 0
  BY BitsAssumption
<1>2. q \in Nat /\ q * Bits <= u
  BY <1>1, SMT
<1>3. s \in Nat /\ w + Bits - 1 < s * Bits + Bits
  BY <1>1, SMT
<1>4. q * Bits < s * Bits
  BY <1>1, <1>2, <1>3
<1> HIDE DEF q, s
<1>5. q < s
  <2>1. ASSUME s <= q  PROVE FALSE
    <3>1. q * Bits = s * Bits + (q - s) * Bits
      BY <1>1, <1>2, <1>3
    <3>2. (q - s) * Bits >= 0
      BY <1>1, <1>2, <1>3, <2>1
    <3>3. s * Bits \in Int /\ q * Bits \in Int /\ (q - s) * Bits \in Int
      BY <1>1, <1>2, <1>3
    <3> QED BY <1>4, <3>1, <3>2, <3>3
  <2> QED BY <2>1, <1>2, <1>3
<1> QED BY <1>2, <1>3, <1>5 DEF q, s

\* What fits into 32 bits is not changed by their arithmetic.
LEMMA WrapPlain == ASSUME NEW n \in Int32 PROVE Wrap(n) = n
<1>1. Half \in Nat /\ Half > 0 BY SizeAssumption, HalfAssumption
<1>2. n + Half \in 0 .. 2 * Half - 1 BY <1>1 DEF Int32
<1>3. (n + Half) % (2 * Half) = n + Half BY <1>1, <1>2, SMT
<1> QED BY <1>1, <1>3 DEF Wrap, Int32

LEMMA Ints ==
  ASSUME NEW g \in Geometry
  PROVE  g.x \in Int /\ g.y \in Int /\ g.w \in Int /\ g.h \in Int
<1>1. Int32 \subseteq Int BY HalfAssumption DEF Int32
<1> QED BY <1>1 DEF Geometry

LEMMA StrideIs ==
  /\ \A w \in Int : Stride(w) \in Nat
  /\ \A w \in 0 .. Half - 1 : Stride(w) = (w + Bits - 1) \div Bits
<1>1. Half \in Nat /\ Half > 0 /\ Bits \in Nat /\ Bits > 0 /\ Bits <= Half
  BY SizeAssumption, BitsAssumption, HalfAssumption
<1>2. ASSUME NEW w \in Int PROVE Stride(w) \in Nat
  <2> DEFINE m == (w + Bits - 1) % (2 * Half)
  <2>1. 2 * Half \in Nat /\ 2 * Half > 0 /\ w + Bits - 1 \in Int BY <1>1
  <2>2. m \in Nat BY <2>1, SMT
  <2> HIDE DEF m
  <2>3. m \div Bits \in Nat BY <1>1, <2>2, SMT
  <2> QED BY <2>3 DEF Stride, m
<1>3. ASSUME NEW w \in 0 .. Half - 1 PROVE Stride(w) = (w + Bits - 1) \div Bits
  <2> DEFINE m == w + Bits - 1
  <2>1. m \in 0 .. 2 * Half - 1 BY <1>1
  <2> HIDE DEF m
  <2>2. m % (2 * Half) = m BY <1>1, <2>1, SMT
  <2> QED BY <2>2 DEF Stride, m
<1> QED BY <1>2, <1>3

\* The byte k of row y lies in a block of h rows of s bytes.
LEMMA InBlock ==
  ASSUME NEW s \in Nat, NEW h \in Int, NEW y \in Nat, y < h,
         NEW k \in 0 .. s - 1, NEW size \in Nat, size >= s * h
  PROVE  y * s + k \in 0 .. size - 1
<1> DEFINE d == h - 1 - y
<1>1. d \in Nat
  OBVIOUS
<1>2. s * h = y * s + s + d * s
  OBVIOUS
<1>3. d * s >= 0 /\ y * s >= 0 /\ d * s \in Int /\ y * s \in Int
  BY <1>1, SMT
<1> QED BY <1>2, <1>3

-----------------------------------------------------------------------------
(***************************************************************************)
(* Rectangles.                                                             *)
(***************************************************************************)
\* The loops of _set_pixels and _clr_pixels stay on the canvas and in the
\* rectangle they were given.
LEMMA TouchedInside ==
  ASSUME NEW g \in Geometry, NEW px \in Touched(g)
  PROVE  /\ px \in Pixel
         /\ px[1] - g.x \in Nat /\ px[1] - g.x < g.w
         /\ px[2] - g.y \in Nat /\ px[2] - g.y < g.h
BY SizeAssumption, Ints DEF Touched, First, End, Pixel, Columns, Rows

\* The byte _get_bit reads is inside a blob that is long enough.
LEMMA ByteInside ==
  ASSUME NEW g \in Geometry, NEW px \in Touched(g), Stride(g.w) * g.h < Half,
         NEW size \in Int, size >= Wrap(Stride(g.w) * g.h)
  PROVE  LET k == px[1] - g.x
             y == px[2] - g.y
         IN  /\ Byte(y, k, g.w) < size
             /\ Byte(y, k, g.w)
                  = y * Stride(g.w) + (Stride(g.w) - ((g.w - k - 1) \div Bits) - 1)
<1> DEFINE y == px[2] - g.y
           u == g.w - (px[1] - g.x) - 1
           s == Stride(g.w)
           n == s * g.h
           k == s - (u \div Bits) - 1
<1>1. /\ y \in Nat /\ y < g.h /\ u \in Nat /\ u < g.w
      /\ g.w \in 0 .. Half - 1 /\ g.h \in Nat
  <2>1. g.w \in Int32 /\ g.h \in Int32 /\ Half \in Nat
    BY HalfAssumption DEF Geometry
  <2>2. /\ px[1] - g.x \in Nat /\ px[1] - g.x < g.w
        /\ px[2] - g.y \in Nat /\ px[2] - g.y < g.h
    BY TouchedInside
  <2> QED BY <2>1, <2>2 DEF Int32
<1>2. s \in Nat /\ s = (g.w + Bits - 1) \div Bits BY <1>1, StrideIs
<1>3. u \div Bits \in 0 .. s - 1 BY <1>1, <1>2, DivSmaller
<1>4. k \in 0 .. s - 1 BY <1>2, <1>3
<1>5. n \in Nat /\ n < Half BY <1>1, <1>2, SMT
<1>6. Half \in Nat BY HalfAssumption
<1>7. Wrap(n) = n BY <1>5, <1>6, WrapPlain DEF Int32
<1> HIDE DEF u, s, k, n, y
<1>8. y * s + k \in 0 .. n - 1 BY <1>1, <1>2, <1>4, <1>5, InBlock DEF n
<1>9. y * s + k \in 0 .. 2 * Half - 1 BY <1>5, <1>6, <1>8
<1>10. (y * s + k) % (2 * Half) = y * s + k
  <2> DEFINE v == y * s + k
  <2>1. v \in 0 .. 2 * Half - 1 BY <1>9
  <2> HIDE DEF v
  <2>2. v % (2 * Half) = v BY <1>6, <2>1, SMT
  <2> QED BY <2>2 DEF v
<1>11. Byte(y, px[1] - g.x, g.w) = (y * s + k) % (2 * Half) BY DEF Byte, u, s, k
<1>12. y * s + k < size
  <2>1. n <= size BY <1>7 DEF n, s
  <2> QED BY <1>5, <1>8, <2>1
<1> QED BY <1>10, <1>11, <1>12 DEF y, s, k, u

\* A moderate geometry leaves nothing undefined.
LEMMA ModerateDefined ==
  ASSUME geo \in Geometry, NEW blob, blob.size \in Int, Moderate(geo)
  PROVE  ~Strays(blob)
<1>1. ~Overflows(geo) /\ Stride(geo.w) * geo.h < Half BY DEF Moderate
<1>2. SUFFICES ASSUME LongEnough(blob), NEW px \in Touched(geo)
               PROVE  ~(Byte(px[2] - geo.y, px[1] - geo.x, geo.w) >= blob.size)
  BY <1>1 DEF Strays
<1>3. Byte(px[2] - geo.y, px[1] - geo.x, geo.w) < blob.size
  BY <1>1, <1>2, ByteInside DEF LongEnough
<1>4. Byte(px[2] - geo.y, px[1] - geo.x, geo.w) \in Int
  <2>1. /\ Half \in Nat /\ Half > 0 /\ Bits \in Nat /\ Bits > 0
        /\ \A w \in Int : Stride(w) \in Nat
    BY SizeAssumption, HalfAssumption, BitsAssumption, StrideIs
  <2>2. /\ px[1] - geo.x \in Int /\ px[2] - geo.y \in Int /\ geo.w \in Int
    BY <1>2, TouchedInside, Ints
  <2>3. \A y, x, w \in Int : Byte(y, x, w) \in Int
    <3> SUFFICES ASSUME NEW y \in Int, NEW x \in Int, NEW w \in Int
                 PROVE  Byte(y, x, w) \in Int
      OBVIOUS
    <3> DEFINE v == y * Stride(w) + (Stride(w) - ((w - x - 1) \div Bits) - 1)
    <3>1. Stride(w) \in Int BY <2>1
    <3>2. (w - x - 1) \div Bits \in Int BY <2>1, SMT
    <3>3. v \in Int BY <3>1, <3>2, SMT
    <3> HIDE DEF v
    <3>4. v % (2 * Half) \in Int BY <2>1, <3>3, SMT
    <3> QED BY <3>4 DEF Byte, v
  <2> QED BY <2>2, <2>3
<1> QED BY <1>3, <1>4, <1>1

-----------------------------------------------------------------------------
(***************************************************************************)
(* Typing.                                                                 *)
(***************************************************************************)
LEMMA ArgTyped ==
  ASSUME TypeOK, More
  PROVE  /\ This \in Arg
         /\ This.type = "i" => This.i \in Int32
         /\ This.type = "b" => This.size \in 0 .. Half - 1
<1>1. cur \in 1 .. Len(msg.args) /\ msg.args \in Seq(Arg)
  BY DEF TypeOK, More
<1>2. This \in Arg
  BY <1>1 DEF This
<1> QED BY <1>2 DEF Arg, IntArg, BlobArg, OtherArg

LEMMA WholeTyped == WholeCanvas \in Geometry
<1>1. 0 \in Int32 /\ Width \in Int32 /\ Height \in Int32
  BY SizeAssumption, HalfAssumption DEF Int32
<1> QED BY <1>1 DEF WholeCanvas, Geometry

\* The layers are functions as long as the pixels are.
LEMMA TypeStep == TypeOK /\ [Next]_vars => TypeOK'
<1> SUFFICES ASSUME TypeOK, [Next]_vars  PROVE TypeOK'
  OBVIOUS
<1> USE DEF TypeOK
<1>1. ASSUME NEW m \in Messages, Receive(m)  PROVE TypeOK'
  BY <1>1, MessagesAssumption DEF Receive, pixels, registers
<1>2. ASSUME NEW p \in Prio, Enter(p)  PROVE TypeOK'
  BY <1>2 DEF Enter, Entry, pixels
<1>3. CASE Done
  BY <1>3 DEF Done, NoMessage, pixels, registers
<1>4. CASE TakeInt
  <2>1. This.i \in Int32
    BY <1>4, ArgTyped DEF TakeInt
  <2>2. geo' \in Geometry
    BY <1>4, <2>1 DEF TakeInt, Geometry
  <2> QED BY <1>4, <2>2 DEF TakeInt, pixels
<1>5. CASE TakeBlob
  <2>1. CASE LongEnough(This)
    <3>1. mask' \in [Pixel -> SUBSET Prio] /\ bits' \in [Pixel -> SUBSET Prio]
      BY <1>5, <2>1 DEF TakeBlob, Draw
    <3> QED BY <1>5, <2>1, <3>1 DEF TakeBlob
  <2>2. CASE ~LongEnough(This)
    BY <1>5, <2>2 DEF TakeBlob, pixels
  <2> QED BY <2>1, <2>2
<1>6. CASE TakeOther
  BY <1>6 DEF TakeOther, pixels, registers
<1>7. CASE Leave
  <2>1. mask' \in [Pixel -> SUBSET Prio]
    BY <1>7 DEF Leave, Clear
  <2>2. WholeCanvas \in Geometry /\ 0 \in Prio
    BY WholeTyped, PriosAssumption DEF Prio
  <2> QED BY <1>7, <2>1, <2>2 DEF Leave
<1>8. CASE Stray
  BY <1>8 DEF Stray, pixels, registers
<1>9. CASE UNCHANGED vars
  BY <1>9 DEF vars
<1> QED BY <1>1, <1>2, <1>3, <1>4, <1>5, <1>6, <1>7, <1>8, <1>9 DEF Next, Astray

LEMMA TypeInit == Init => TypeOK
<1> SUFFICES ASSUME Init  PROVE TypeOK
  OBVIOUS
<1>1. msg.args \in Seq(Arg)
  BY DEF Init, NoMessage
<1>2. geo \in Geometry /\ prio \in Prio
  BY WholeTyped, PriosAssumption DEF Init, Prio
<1>3. mask \in [Pixel -> SUBSET Prio] /\ bits \in [Pixel -> SUBSET Prio]
  BY DEF Init
<1>4. cur \in Nat \ {0} /\ idx \in Nat
  BY DEF Init
<1>5. todo \subseteq Prio /\ phase \in {"idle", "match", "branch", "undefined"}
  BY Zenon DEF Init
<1>6. set \in BOOLEAN
  BY Zenon DEF Init
<1> QED BY <1>1, <1>2, <1>3, <1>4, <1>5, <1>6 DEF TypeOK

\* Every variable keeps to its type: priorities are those of the table, and
\* the registers of the argument loop hold integers.
THEOREM TypeCorrect == Spec => []TypeOK
<1>1. Init => TypeOK
  BY TypeInit
<1>2. TypeOK /\ [Next]_vars => TypeOK'
  BY TypeStep
<1> QED BY <1>1, <1>2, PTL DEF Spec

\* Only a geometry that is not moderate leaves what C defines.
LEMMA BoundsStep == TypeOK /\ InBounds /\ [Next]_vars => (phase = "undefined" => ~Moderate(geo))'
<1> SUFFICES ASSUME TypeOK, InBounds, [Next]_vars, phase' = "undefined"
             PROVE  ~Moderate(geo')
  BY DEF Moderate, Overflows, Stride
<1>1. CASE Stray
  <2>1. geo' = geo /\ geo \in Geometry BY <1>1 DEF Stray, registers, TypeOK
  <2>2. SUFFICES ASSUME Moderate(geo) PROVE FALSE BY <2>1
  <2>3. ~Overflows(geo) BY <2>2 DEF Moderate
  <2>4. More /\ This.type = "b" /\ Strays(This) BY <1>1, <2>3 DEF Stray
  <2>5. This.size \in Int BY <2>4, ArgTyped, HalfAssumption
  <2> QED BY <2>1, <2>2, <2>4, <2>5, ModerateDefined
<1>2. CASE Astray \/ UNCHANGED vars
  BY <1>2 DEF Astray, vars, InBounds
<1>3. CASE \/ \E m \in Messages : Receive(m)
           \/ \E p \in Prio : Enter(p)
           \/ Done \/ TakeInt \/ TakeBlob \/ TakeOther \/ Leave
  BY <1>3 DEF Receive, Enter, Done, TakeInt, TakeBlob, TakeOther, Leave, More
<1> QED BY <1>1, <1>2, <1>3 DEF Next

\* No message makes the daemon write outside the canvas, read behind the end of
\* its blob or overflow (monobus.c 119-176, 226-228), unless an offset is within
\* the canvas's size of INT32_MIN, or its picture has 2^31 bytes or more.
THEOREM MemorySafe == Spec => []InBounds
<1>1. Init => InBounds
  <2> SUFFICES ASSUME Init PROVE InBounds OBVIOUS
  <2>1. phase = "idle" BY DEF Init
  <2> QED BY <2>1 DEF InBounds
<1>2. TypeOK /\ InBounds /\ [Next]_vars /\ TypeOK' => InBounds'
  <2> SUFFICES ASSUME TypeOK, InBounds, [Next]_vars, TypeOK' PROVE InBounds'
    OBVIOUS
  <2>1. \A g \in Geometry : Touched(g) \subseteq Pixel
    BY TouchedInside
  <2>2. geo' \in Geometry BY DEF TypeOK
  <2>3. Touched(geo') \subseteq Pixel BY <2>1, <2>2
  <2>4. Touched(geo)' = Touched(geo') BY DEF Touched, First, End
  <2> QED BY <2>3, <2>4, BoundsStep DEF InBounds
<1> QED BY <1>1, <1>2, TypeCorrect, PTL DEF Spec

-----------------------------------------------------------------------------
(***************************************************************************)
(* The refinement.                                                         *)
(***************************************************************************)
\* What is left of the rectangle after clipping is one of the canvas.
LEMMA TouchedRect ==
  ASSUME NEW g \in Geometry, Touched(g) # {}
  PROVE  \E x0, x1 \in Columns, y0, y1 \in Rows :
           Touched(g) = (x0 .. x1) \X (y0 .. y1)
<1> DEFINE x0 == g.x + First(g.x)
           x1 == g.x + End(g.w, g.x, Width) - 1
           y0 == g.y + First(g.y)
           y1 == g.y + End(g.h, g.y, Height) - 1
<1>1. Touched(g) = (x0 .. x1) \X (y0 .. y1)
  BY DEF Touched
<1>2. x0 \in Int /\ x1 \in Int /\ y0 \in Int /\ y1 \in Int
  BY SizeAssumption, Ints DEF First, End
<1>3. 0 <= x0 /\ x1 < Width /\ 0 <= y0 /\ y1 < Height
  BY SizeAssumption, Ints DEF First, End
<1> HIDE DEF x0, x1, y0, y1
<1>4. x0 <= x1 /\ y0 <= y1
  BY <1>1, <1>2
<1>5. x0 \in Columns /\ x1 \in Columns /\ y0 \in Rows /\ y1 \in Rows
  BY <1>2, <1>3, <1>4, SizeAssumption DEF Columns, Rows
<1> QED BY <1>1, <1>5

LEMMA Names ==
  /\ L!Pixel = Pixel /\ L!Columns = Columns /\ L!Rows = Rows
  /\ L!Prio = Prio
BY DEF L!Pixel, L!Columns, L!Rows, L!Prio, Pixel, Columns, Rows, Prio

\* _set_pixels draws a picture on one layer.
LEMMA DrawRefines ==
  ASSUME TypeOK, NEW blob, Draw(blob)
  PROVE  L!Draw \/ layer' = layer
<1>1. prio \in Prio /\ geo \in Geometry
  BY DEF TypeOK
<1>2. CASE Touched(geo) = {}
  <2>1. mask' = mask /\ bits' = bits
    BY <1>2 DEF Draw, TypeOK
  <2> QED BY <2>1 DEF layer
<1>3. CASE Touched(geo) # {}
  <2>1. PICK x0 \in Columns, x1 \in Columns, y0 \in Rows, y1 \in Rows :
          Touched(geo) = (x0 .. x1) \X (y0 .. y1)
    BY <1>1, <1>3, TouchedRect
  <2> DEFINE rect == (x0 .. x1) \X (y0 .. y1)
  <2>3. PICK on : on = {px \in rect : Ink(blob, geo, px)}
    OBVIOUS
  <2>4. ASSUME NEW p \in Prio, NEW px \in Pixel
        PROVE  layer'[p][px] =
                 IF p = prio
                 THEN IF px \notin rect THEN layer[p][px]
                      ELSE IF px \in on THEN "on" ELSE "off"
                 ELSE layer[p][px]
    BY <1>1, <2>1, <2>3 DEF Draw, layer, TypeOK
  <2>5. layer' = [layer EXCEPT ![prio] =
                    [px \in Pixel |-> IF px \notin rect THEN layer[prio][px]
                                      ELSE IF px \in on THEN "on" ELSE "off"]]
    BY <1>1, <2>4 DEF layer
  <2>6. on \in SUBSET rect
    BY <2>3
  <2> DEFINE Drawn(p, a, b, c, d, ink) ==
               layer' = [layer EXCEPT ![p] =
                           [px \in Pixel |-> IF px \notin (a .. b) \X (c .. d)
                                             THEN layer[p][px]
                                             ELSE IF px \in ink THEN "on" ELSE "off"]]
  <2>7. Drawn(prio, x0, x1, y0, y1, on)
    BY <2>5
  <2> HIDE DEF Drawn
  <2>8. \E p \in Prio, a, b \in Columns, c, d \in Rows :
          \E ink \in SUBSET ((a .. b) \X (c .. d)) : Drawn(p, a, b, c, d, ink)
    BY <1>1, <2>1, <2>6, <2>7
  <2> QED BY <2>8, Zenon
        DEF Drawn, L!Draw, L!Pixel, L!Columns, L!Rows, L!Prio,
            Pixel, Columns, Rows, Prio
<1> QED BY <1>2, <1>3

\* _clr_pixels erases a rectangle of one layer.
LEMMA ClearRefines ==
  ASSUME TypeOK, Clear, bits' = bits
  PROVE  L!Erase \/ layer' = layer
<1>1. prio \in Prio /\ geo \in Geometry
  BY DEF TypeOK
<1>2. CASE Touched(geo) = {}
  <2>1. mask' = mask
    BY <1>2 DEF Clear, TypeOK
  <2> QED BY <2>1 DEF layer
<1>3. CASE Touched(geo) # {}
  <2>1. PICK x0 \in Columns, x1 \in Columns, y0 \in Rows, y1 \in Rows :
          Touched(geo) = (x0 .. x1) \X (y0 .. y1)
    BY <1>1, <1>3, TouchedRect
  <2> DEFINE rect == (x0 .. x1) \X (y0 .. y1)
  <2>3. ASSUME NEW p \in Prio, NEW px \in Pixel
        PROVE  layer'[p][px] = IF p = prio /\ px \in rect THEN "clear"
                               ELSE layer[p][px]
    BY <1>1, <2>1 DEF Clear, layer, TypeOK
  <2>4. layer' = [layer EXCEPT ![prio] =
                    [px \in Pixel |-> IF px \notin rect THEN layer[prio][px]
                                      ELSE "clear"]]
    BY <1>1, <2>3 DEF layer
  <2> DEFINE Erased(p, a, b, c, d) ==
               layer' = [layer EXCEPT ![p] =
                           [px \in Pixel |-> IF px \notin (a .. b) \X (c .. d)
                                             THEN layer[p][px] ELSE "clear"]]
  <2>5. Erased(prio, x0, x1, y0, y1)
    BY <2>4
  <2> HIDE DEF Erased
  <2>6. \E p \in Prio, a, b \in Columns, c, d \in Rows : Erased(p, a, b, c, d)
    BY <1>1, <2>1, <2>5
  <2> QED BY <2>6, Zenon
        DEF Erased, L!Erase, L!Pixel, L!Columns, L!Rows, L!Prio,
            Pixel, Columns, Rows, Prio
<1> QED BY <1>2, <1>3

LEMMA StepRefines == TypeOK /\ [Next]_vars => [L!Next]_layer
<1> SUFFICES ASSUME TypeOK, [Next]_vars  PROVE [L!Next]_layer
  OBVIOUS
<1>1. ASSUME mask' = mask, bits' = bits  PROVE layer' = layer
  BY <1>1 DEF layer
<1>2. ASSUME NEW m \in Messages, Receive(m)  PROVE layer' = layer
  BY <1>1, <1>2 DEF Receive, pixels
<1>3. ASSUME NEW p \in Prio, Enter(p)  PROVE layer' = layer
  BY <1>1, <1>3 DEF Enter, pixels
<1>4. CASE Done \/ TakeInt \/ TakeOther \/ Stray \/ Astray \/ UNCHANGED vars
  BY <1>1, <1>4 DEF Done, TakeInt, TakeOther, Stray, Astray, pixels, vars
<1>5. CASE TakeBlob
  <2>1. CASE LongEnough(This)
    <3>1. Draw(This)
      BY <1>5, <2>1 DEF TakeBlob
    <3> QED BY <3>1, DrawRefines DEF L!Next
  <2>2. CASE ~LongEnough(This)
    BY <1>1, <1>5, <2>2 DEF TakeBlob, pixels
  <2> QED BY <2>1, <2>2
<1>6. CASE Leave
  <2>1. bits' = bits /\ (mask' = mask \/ Clear)
    BY <1>6 DEF Leave
  <2> QED BY <1>1, <2>1, ClearRefines DEF L!Next
<1> QED BY <1>2, <1>3, <1>4, <1>5, <1>6 DEF Next

\* The two bit sets of every pixel implement independent layers, one for each
\* priority, drawn and erased by rectangles.
THEOREM Implementation == Spec => ImplementsLayers
<1>1. Init => L!Init
  BY Names DEF Init, L!Init, layer
<1>2. TypeOK /\ [Next]_vars => [L!Next]_layer
  BY StepRefines
<1> QED BY <1>1, <1>2, TypeCorrect, PTL DEF Spec, ImplementsLayers, L!Spec

\* The look-up for the display finds the topmost layer that is opaque.
THEOREM TopmostSeen == Spec => []TopmostShows
<1>1. TypeOK => TopmostShows
  <2> SUFFICES ASSUME TypeOK, NEW px \in Pixel  PROVE Lit(px) <=> L!Lit(px)
    BY DEF TopmostShows
  <2>1. mask[px] \subseteq Prio
    BY DEF TypeOK
  <2>2. L!Inked(px) = mask[px]
    BY <2>1, Names DEF L!Inked, layer
  <2>3. ASSUME NEW p \in mask[px]
        PROVE  layer[p][px] = "on" <=> p \in bits[px]
    BY <2>1 DEF layer
  <2> QED BY <2>2, <2>3 DEF Lit, L!Lit
<1> QED BY <1>1, TypeCorrect, PTL
-----------------------------------------------------------------------------
(***************************************************************************)
(* Messages do what README.md says of them, and nothing else: a picture    *)
(* lands where it was asked for, on the part of it that is on the canvas,  *)
(* for every size of canvas and picture.                                   *)
(***************************************************************************)
Single(m) == \E p \in Prio : m.prios = {p}

(***************************************************************************)
(* The inductive invariant.  The registers of _priority are fresh whenever *)
(* a branch starts.  A message for one priority finds its first argument,  *)
(* as no branch before it has moved on.  A drawing message has set the     *)
(* geometry as far as its arguments are taken, and drawn behind the last.  *)
(***************************************************************************)
Fresh == phase \in {"idle", "match"} => idx = 0 /\ geo = WholeCanvas /\ set = FALSE

InTurn ==
  /\ phase = "idle" => msg = NoMessage
  /\ phase # "idle" /\ Single(msg) =>
       /\ phase = "match" => todo \subseteq msg.prios /\ (todo # {} => cur = 1)
       /\ phase = "branch" => todo = {} /\ prio \in msg.prios

Inked(m) ==
  \A px \in Touched(geo) :
    /\ prio \in mask[px]
    /\ prio \in bits[px] <=> Ink(m.args[5], geo, px)

Drawing ==
  phase = "branch" /\ Draws(msg) =>
    /\ cur \in 1 .. 6 /\ idx = IF cur = 6 THEN 4 ELSE cur - 1
    /\ cur > 1 => geo.x = msg.args[1].i
    /\ cur > 2 => geo.y = msg.args[2].i
    /\ cur > 3 => geo.w = msg.args[3].i
    /\ cur > 4 => geo.h = msg.args[4].i
    /\ cur = 6 <=> set
    /\ cur = 6 => Inked(msg)

Clearing ==
  Clears(msg) =>
    /\ phase = "branch" => cur = 1 /\ ~set /\ geo = WholeCanvas
    /\ phase = "match" /\ todo = {} =>
         \A px \in Pixel, p \in msg.prios : p \notin mask[px]

IInv == TypeOK /\ Fresh /\ InTurn /\ Drawing /\ Clearing

-----------------------------------------------------------------------------
(***************************************************************************)
(* Arithmetic: bits mirrored twice, in a row of whole bytes, are where     *)
(* they were.                                                              *)
(***************************************************************************)
LEMMA DivUnique ==
  ASSUME NEW q \in Int, NEW r \in 0 .. Bits - 1
  PROVE  (q * Bits + r) \div Bits = q /\ (q * Bits + r) % Bits = r
<1> DEFINE n == q * Bits + r
           d == n \div Bits
           m == n % Bits
<1>1. Bits \in Nat /\ Bits > 0 BY BitsAssumption
<1>2. n \in Int /\ d \in Int /\ m \in 0 .. Bits - 1 /\ n = d * Bits + m
  BY <1>1, SMT
<1>3. (q - d) * Bits = m - r BY <1>1, <1>2, SMT
<1> HIDE DEF n, d, m
<1>4. q - d = 0
  <2>1. CASE q - d >= 1
    <3>1. (q - d) * Bits >= Bits BY <1>1, <1>2, <2>1, SMT
    <3> QED BY <1>1, <1>2, <1>3, <3>1, SMT
  <2>2. CASE q - d <= -1
    <3>1. (q - d) * Bits <= -Bits BY <1>1, <1>2, <2>2, SMT
    <3> QED BY <1>1, <1>2, <1>3, <3>1, SMT
  <2> QED BY <1>2, <2>1, <2>2
<1>5. m = r BY <1>1, <1>2, <1>3, <1>4, SMT
<1> QED BY <1>2, <1>4, <1>5 DEF n, d, m

LEMMA Mirrored ==
  ASSUME NEW w \in 0 .. Half - 1, w % Bits = 0, NEW x \in 0 .. w - 1
  PROVE  /\ Stride(w) = w \div Bits
         /\ (w - x - 1) \div Bits = Stride(w) - 1 - (x \div Bits)
         /\ (w - x - 1) % Bits = Bits - 1 - (x % Bits)
<1> DEFINE s == w \div Bits
           q == x \div Bits
           r == x % Bits
<1>1. Bits \in Nat /\ Bits > 0 /\ Half \in Nat /\ w \in Nat
  BY BitsAssumption, HalfAssumption
<1>2. s \in Int /\ w = s * Bits BY <1>1, SMT
<1>3. q \in Int /\ r \in 0 .. Bits - 1 /\ x = q * Bits + r BY <1>1, SMT
<1> HIDE DEF s, q, r
<1>4. w + Bits - 1 = s * Bits + (Bits - 1) BY <1>1, <1>2
<1>5. Stride(w) = s
  <2>1. Stride(w) = (w + Bits - 1) \div Bits BY StrideIs
  <2> QED BY <1>1, <1>2, <1>4, <2>1, DivUnique
<1>6. w - x - 1 = (s - 1 - q) * Bits + (Bits - 1 - r)
  BY <1>1, <1>2, <1>3, SMT
<1>7. Bits - 1 - r \in 0 .. Bits - 1 /\ s - 1 - q \in Int BY <1>1, <1>2, <1>3
<1>8. /\ (w - x - 1) \div Bits = s - 1 - q
      /\ (w - x - 1) % Bits = Bits - 1 - r
  BY <1>6, <1>7, DivUnique
<1> QED BY <1>5, <1>8 DEF s, q, r

\* The bit _get_bit looks at is the one PBM means.
LEMMA InkIsPBM ==
  ASSUME NEW blob, NEW g \in Geometry, g.w % Bits = 0, NEW px \in Touched(g),
         Stride(g.w) * g.h \in 0 .. Half - 1
  PROVE  Ink(blob, g, px) <=> PBM(blob, g.w, px[1] - g.x, px[2] - g.y)
<1> DEFINE x == px[1] - g.x
           y == px[2] - g.y
<1>1. x \in 0 .. g.w - 1 /\ g.w \in 0 .. Half - 1 /\ g.w \in Nat /\ y \in Nat
  <2>1. g.w \in Int32 /\ Half \in Nat BY HalfAssumption DEF Geometry
  <2>2. x \in Nat /\ x < g.w /\ y \in Nat BY TouchedInside
  <2> QED BY <2>1, <2>2 DEF Int32
<1>2. Stride(g.w) \in Int /\ x \div Bits \in Int
  <2>1. Bits \in Nat /\ Bits > 0 /\ x \in Int BY <1>1, BitsAssumption
  <2> HIDE DEF x
  <2>2. x \div Bits \in Int BY <2>1, SMT
  <2> QED BY <1>1, <2>2, StrideIs
<1>a. Byte(y, x, g.w) = y * Stride(g.w) + (Stride(g.w) - ((g.w - x - 1) \div Bits) - 1)
  <2> DEFINE n == Stride(g.w) * g.h
  <2>1. n \in Int32 /\ n \in Int /\ n < Half BY HalfAssumption DEF Int32
  <2>2. n >= Wrap(n) BY <2>1, WrapPlain
  <2> QED BY <2>1, <2>2, ByteInside
<1> HIDE DEF x, y
<1>3. Place(x, g.w) = Bits - 1 - (x % Bits) BY <1>1, Mirrored DEF Place
<1>4. y * Stride(g.w) \in Int BY <1>1, <1>2, SMT
<1>5. Byte(y, x, g.w) = y * Stride(g.w) + (x \div Bits)
  <2>1. (g.w - x - 1) \div Bits = Stride(g.w) - 1 - (x \div Bits)
    BY <1>1, Mirrored
  <2> QED BY <1>2, <1>4, <1>a, <2>1
<1> QED BY <1>3, <1>5 DEF Ink, PBM, x, y

-----------------------------------------------------------------------------
(***************************************************************************)
(* What the messages of README.md are.                                     *)
(***************************************************************************)
LEMMA DrawsTyped ==
  ASSUME TypeOK, Draws(msg)
  PROVE  /\ Single(msg) /\ Len(msg.args) = 5
         /\ \A i \in 1 .. 4 : msg.args[i].type = "i" /\ msg.args[i].i \in Int32
         /\ msg.args[5].type = "b" /\ msg.args[5].size \in 0 .. Half - 1
         /\ msg.args[5].size >= Stride(msg.args[3].i) * msg.args[4].i
         /\ Stride(msg.args[3].i) * msg.args[4].i \in 0 .. Half - 1
         /\ msg.args[3].i > 0 /\ msg.args[4].i > 0
<1>1. \A i \in 1 .. 5 : msg.args[i] \in Arg BY DEF TypeOK, Draws
<1>2. \A a \in Arg : /\ a.type = "i" => a.i \in Int32
                     /\ a.type = "b" => a.size \in 0 .. Half - 1
  BY DEF Arg, IntArg, BlobArg, OtherArg
<1>3. Stride(msg.args[3].i) * msg.args[4].i \in 0 .. Half - 1
  <2> DEFINE s == Stride(msg.args[3].i)
             h == msg.args[4].i
  <2>1. /\ msg.args[3].i \in Int32 /\ h \in Int32 /\ h > 0
        /\ msg.args[5].size \in 0 .. Half - 1 /\ msg.args[5].size >= s * h
    BY <1>1, <1>2 DEF Draws
  <2>2. Half \in Nat BY HalfAssumption
  <2>3. s \in Nat
    <3>1. msg.args[3].i \in Int BY <2>1, <2>2 DEF Int32
    <3> QED BY <3>1, StrideIs
  <2>4. h \in Nat BY <2>1, <2>2 DEF Int32
  <2> HIDE DEF s, h
  <2>5. s * h \in Nat BY <2>3, <2>4, SMT
  <2> QED BY <2>1, <2>2, <2>5 DEF s, h
<1> QED BY <1>1, <1>2, <1>3 DEF Draws, Single

\* With the geometry of the message, what is touched is what is asked for.
LEMMA TouchedIsAsked ==
  ASSUME TypeOK, Draws(msg), NEW g \in Geometry,
         g.x = msg.args[1].i, g.y = msg.args[2].i,
         g.w = msg.args[3].i, g.h = msg.args[4].i
  PROVE  Touched(g) = Asked(msg)
<1>1. \A px \in Touched(g) : px \in Asked(msg)
  <2> SUFFICES ASSUME NEW px \in Touched(g) PROVE px \in Asked(msg) OBVIOUS
  <2>1. /\ px \in Pixel /\ px[1] - g.x \in Nat /\ px[1] - g.x < g.w
        /\ px[2] - g.y \in Nat /\ px[2] - g.y < g.h
    BY TouchedInside
  <2>2. px[1] \in Int /\ px[2] \in Int BY <2>1 DEF Pixel, Columns, Rows
  <2>3. g.x <= px[1] /\ px[1] < g.x + g.w /\ g.y <= px[2] /\ px[2] < g.y + g.h
    BY <2>1, <2>2, Ints
  <2> QED BY <2>1, <2>3 DEF Asked
<1>2. ASSUME NEW px \in Asked(msg) PROVE px \in Touched(g)
  <2>1. /\ px \in Pixel /\ g.x <= px[1] /\ px[1] < g.x + g.w
        /\ g.y <= px[2] /\ px[2] < g.y + g.h
    BY DEF Asked
  <2>2. PICK c \in Columns, r \in Rows : px = << c, r >> BY <2>1 DEF Pixel
  <2>3. c \in (g.x + First(g.x)) .. (g.x + End(g.w, g.x, Width) - 1)
    BY <2>1, <2>2, SizeAssumption, Ints DEF First, End, Columns
  <2>4. r \in (g.y + First(g.y)) .. (g.y + End(g.h, g.y, Height) - 1)
    BY <2>1, <2>2, SizeAssumption, Ints DEF First, End, Rows
  <2> QED BY <2>2, <2>3, <2>4 DEF Touched
<1>3. Asked(msg) \subseteq Touched(g) BY <1>2
<1>4. Touched(g) \subseteq Asked(msg) BY <1>1
<1> QED BY <1>3, <1>4

LEMMA WholeTouched == Touched(WholeCanvas) = Pixel
BY SizeAssumption
   DEF WholeCanvas, Touched, First, End, Pixel, Columns, Rows

-----------------------------------------------------------------------------
(***************************************************************************)
(* The steps.                                                              *)
(***************************************************************************)
LEMMA ReceiveInv == ASSUME IInv, NEW m \in Messages, Receive(m) PROVE IInv'
<1>1. TypeOK' BY TypeStep DEF IInv, Next
<1>2. Fresh' BY DEF IInv, Fresh, Receive, registers
<1>3. InTurn' BY DEF InTurn, Receive
<1>4. Drawing' BY DEF Drawing, Receive
<1>5. Clearing' BY DEF Clearing, Clears, Receive
<1> QED BY <1>1, <1>2, <1>3, <1>4, <1>5 DEF IInv

LEMMA EnterInv == ASSUME IInv, NEW p \in Prio, Enter(p) PROVE IInv'
<1>1. TypeOK' BY TypeStep DEF IInv, Next
<1>2. Fresh' BY DEF Fresh, Enter
<1>3. /\ idx' = 0 /\ geo' = WholeCanvas /\ set' = FALSE
  BY DEF IInv, Fresh, Enter
<1>4. ASSUME Single(msg)
      PROVE  cur' = 1 /\ todo' = {} /\ prio' \in msg.prios
  <2>1. todo \subseteq msg.prios /\ p \in todo /\ cur = 1
    BY <1>4 DEF IInv, InTurn, Enter
  <2> QED BY <1>4, <2>1 DEF Single, Enter, Entry
<1>5. InTurn' BY <1>4 DEF InTurn, Single, Enter
<1>6. Drawing'
  <2> SUFFICES ASSUME Draws(msg)
               PROVE  cur' = 1 /\ idx' = 0 /\ ~set'
    BY <1>3 DEF Drawing, Draws, Enter
  <2> QED BY <1>3, <1>4 DEF Draws, Single
<1>7. Clearing' BY <1>3, <1>4 DEF Clearing, Clears, Single, Enter
<1> QED BY <1>1, <1>2, <1>5, <1>6, <1>7 DEF IInv

LEMMA DoneInv == ASSUME IInv, Done PROVE IInv'
<1>1. TypeOK' BY TypeStep DEF IInv, Next
<1> QED BY <1>1 DEF IInv, Fresh, InTurn, Drawing, Clearing, Done, registers

\* A clearing message has no arguments to take.
LEMMA NothingToTake == ASSUME IInv, Clears(msg) PROVE ~More
BY DEF IInv, Clearing, Clears, More

LEMMA TakeIntInv == ASSUME IInv, TakeInt PROVE IInv'
<1>1. TypeOK' BY TypeStep DEF IInv, Next
<1>2. Fresh' BY DEF Fresh, TakeInt, More
<1>3. InTurn' BY DEF IInv, InTurn, Single, TakeInt, More
<1>4. Drawing'
  <2> SUFFICES ASSUME Draws(msg), phase = "branch" PROVE Drawing'
    BY DEF Drawing, Draws, TakeInt
  <2>0. Len(msg.args) = 5 /\ msg.args[5].type = "b" BY DrawsTyped DEF IInv
  <2>1. cur \in 1 .. 6 /\ cur <= 5 BY <2>0 DEF IInv, Drawing, TakeInt, More
  <2>2. cur # 5 BY <2>0 DEF TakeInt, This
  <2>3. cur \in 1 .. 4 /\ idx = cur - 1 /\ ~set BY <2>1, <2>2 DEF IInv, Drawing
  <2>4. /\ cur > 1 => geo.x = msg.args[1].i
        /\ cur > 2 => geo.y = msg.args[2].i
        /\ cur > 3 => geo.w = msg.args[3].i
    BY DEF IInv, Drawing
  <2>5. cur' = cur + 1 /\ idx' = idx + 1 /\ set' = set /\ msg' = msg
    BY DEF TakeInt
  <2>6. /\ geo'.x = IF cur = 1 THEN msg.args[cur].i ELSE geo.x
        /\ geo'.y = IF cur = 2 THEN msg.args[cur].i ELSE geo.y
        /\ geo'.w = IF cur = 3 THEN msg.args[cur].i ELSE geo.w
        /\ geo'.h = IF cur = 4 THEN msg.args[cur].i ELSE geo.h
    BY <2>3 DEF TakeInt, This
  <2> QED BY <2>3, <2>4, <2>5, <2>6 DEF Drawing
<1>5. Clearing' BY NothingToTake DEF Clearing, Clears, TakeInt
<1> QED BY <1>1, <1>2, <1>3, <1>4, <1>5 DEF IInv

LEMMA TakeBlobInv == ASSUME IInv, TakeBlob PROVE IInv'
<1>1. TypeOK' BY TypeStep DEF IInv, Next
<1>2. Fresh' BY DEF Fresh, TakeBlob, More
<1>3. InTurn' BY DEF IInv, InTurn, Single, TakeBlob, More
<1>4. Drawing'
  <2> SUFFICES ASSUME Draws(msg), phase = "branch" PROVE Drawing'
    BY DEF Drawing, Draws, TakeBlob
  <2>0. /\ Len(msg.args) = 5
        /\ \A i \in 1 .. 4 : msg.args[i].type = "i"
        /\ msg.args[5].size >= Stride(msg.args[3].i) * msg.args[4].i
        /\ Stride(msg.args[3].i) * msg.args[4].i \in 0 .. Half - 1
    BY DrawsTyped DEF IInv
  <2>1. cur \in 1 .. 6 /\ cur <= 5 BY <2>0 DEF IInv, Drawing, TakeBlob, More
  <2>2. cur \notin 1 .. 4 BY <2>0 DEF TakeBlob, This
  <2>3. cur = 5 /\ idx = 4 BY <2>1, <2>2 DEF IInv, Drawing
  <2>4. /\ geo.x = msg.args[1].i /\ geo.y = msg.args[2].i
        /\ geo.w = msg.args[3].i /\ geo.h = msg.args[4].i
    BY <2>3 DEF IInv, Drawing
  <2>5. LongEnough(This)
    <3>1. Stride(geo.w) * geo.h \in Int32 BY <2>0, <2>4, HalfAssumption DEF Int32
    <3>2. Wrap(Stride(geo.w) * geo.h) = Stride(geo.w) * geo.h BY <3>1, WrapPlain
    <3> QED BY <2>0, <2>3, <2>4, <3>2 DEF LongEnough, This
  <2>6. /\ Draw(msg.args[5]) /\ set' = TRUE /\ cur' = 6 /\ idx' = idx
        /\ geo' = geo /\ prio' = prio /\ msg' = msg
    BY <2>3, <2>5 DEF TakeBlob, This
  <2>7. Inked(msg)'
    <3> SUFFICES ASSUME NEW px \in Touched(geo)
                 PROVE  /\ prio \in mask'[px]
                        /\ prio \in bits'[px] <=> Ink(msg.args[5], geo, px)
      BY <2>6 DEF Inked, Touched, First, End, Ink, Byte, Place, Stride
    <3>1. px \in Pixel BY TouchedInside DEF IInv, TypeOK
    <3> QED BY <2>6, <3>1 DEF Draw
  <2> QED BY <2>3, <2>4, <2>6, <2>7 DEF Drawing
<1>5. Clearing' BY NothingToTake DEF Clearing, Clears, TakeBlob
<1> QED BY <1>1, <1>2, <1>3, <1>4, <1>5 DEF IInv

LEMMA TakeOtherInv == ASSUME IInv, TakeOther PROVE IInv'
<1>1. TypeOK' BY TypeStep DEF IInv, Next
<1>2. Fresh' BY DEF Fresh, TakeOther, More
<1>3. InTurn' BY DEF IInv, InTurn, Single, TakeOther, More, registers
<1>4. ~Draws(msg)
  <2> SUFFICES ASSUME Draws(msg) PROVE FALSE OBVIOUS
  <2>1. /\ Len(msg.args) = 5 /\ msg.args[5].type = "b"
        /\ \A i \in 1 .. 4 : msg.args[i].type = "i"
    BY DrawsTyped DEF IInv
  <2>2. cur \in 1 .. 5 BY <2>1 DEF IInv, TypeOK, TakeOther, More
  <2> QED BY <2>1, <2>2 DEF TakeOther, This
<1>5. Drawing' BY <1>4 DEF Drawing, Draws, TakeOther
<1>6. Clearing' BY NothingToTake DEF Clearing, Clears, TakeOther
<1> QED BY <1>1, <1>2, <1>3, <1>5, <1>6 DEF IInv

LEMMA LeaveInv == ASSUME IInv, Leave PROVE IInv'
<1>1. TypeOK' BY TypeStep DEF IInv, Next
<1>2. Fresh' BY DEF Fresh, Leave
<1>3. InTurn' BY DEF IInv, InTurn, Single, Leave
<1>4. Drawing' BY DEF Drawing, Leave
<1>5. Clearing'
  <2> SUFFICES ASSUME Clears(msg), NEW px \in Pixel, NEW p \in msg.prios
               PROVE  p \notin mask'[px]
    BY DEF Clearing, Clears, Leave
  <2>1. ~set /\ geo = WholeCanvas BY DEF IInv, Clearing, Leave
  <2>2. prio \in msg.prios BY DEF IInv, InTurn, Clears, Single, Leave
  <2>3. p = prio BY <2>2 DEF Clears
  <2>4. mask'[px] = mask[px] \ {prio}
    BY <2>1, WholeTouched DEF Leave, Clear
  <2> QED BY <2>3, <2>4
<1> QED BY <1>1, <1>2, <1>3, <1>4, <1>5 DEF IInv

LEMMA StrayInv == ASSUME IInv, Stray PROVE IInv'
<1>1. TypeOK' BY TypeStep DEF IInv, Next
<1> QED BY <1>1 DEF IInv, Fresh, InTurn, Drawing, Clearing, Stray

LEMMA InitInv == Init => IInv
<1> SUFFICES ASSUME Init PROVE IInv OBVIOUS
<1>1. TypeOK BY TypeInit
<1>2. Fresh /\ InTurn /\ Drawing BY DEF Init, Fresh, InTurn, Drawing
<1>3. Clearing BY DEF Init, Clearing, Clears, NoMessage
<1> QED BY <1>1, <1>2, <1>3 DEF IInv

LEMMA StepInv == IInv /\ [Next]_vars => IInv'
<1> SUFFICES ASSUME IInv, [Next]_vars PROVE IInv' OBVIOUS
<1>1. CASE UNCHANGED vars
  BY <1>1 DEF vars, IInv, TypeOK, Fresh, InTurn, Drawing, Clearing, Inked
<1> QED BY <1>1, ReceiveInv, EnterInv, DoneInv, TakeIntInv, TakeBlobInv,
           TakeOtherInv, LeaveInv, StrayInv DEF Next, Astray

\* The inductive invariant, for every canvas and all messages.
THEOREM PictureInvariance == Spec => []IInv
BY InitInv, StepInv, PTL DEF Spec

\* Wherever a picture of whole bytes is to be drawn, and whatever its size, the
\* part of it that is on the canvas is there when its message has been handled.
THEOREM PicturesLand == Spec => []PictureDrawn
<1>1. IInv => PictureDrawn
  <2> SUFFICES ASSUME IInv, AtEnd, Draws(msg), msg.args[3].i % Bits = 0
               PROVE  ShowsPBM(msg, prio)
    BY DEF PictureDrawn
  <2>1. Len(msg.args) = 5 BY DrawsTyped DEF IInv
  <2>2. cur = 6 BY <2>1 DEF IInv, AtEnd, Drawing
  <2>3. /\ geo.x = msg.args[1].i /\ geo.y = msg.args[2].i
        /\ geo.w = msg.args[3].i /\ geo.h = msg.args[4].i
        /\ Inked(msg)
    BY <2>2 DEF IInv, AtEnd, Drawing
  <2>4. geo \in Geometry /\ prio \in Prio BY DEF IInv, TypeOK
  <2>5. Touched(geo) = Asked(msg) BY <2>3, <2>4, TouchedIsAsked DEF IInv
  <2> SUFFICES ASSUME NEW px \in Asked(msg)
               PROVE  layer[prio][px] =
                        IF PBM(msg.args[5], geo.w, px[1] - geo.x, px[2] - geo.y)
                        THEN "on" ELSE "off"
    BY <2>3 DEF ShowsPBM
  <2>6. px \in Touched(geo) /\ px \in Pixel BY <2>5 DEF Asked
  <2>7. Ink(msg.args[5], geo, px)
          <=> PBM(msg.args[5], geo.w, px[1] - geo.x, px[2] - geo.y)
    <3>1. Stride(geo.w) * geo.h \in 0 .. Half - 1
      BY <2>3, DrawsTyped DEF IInv
    <3> QED BY <2>3, <2>4, <2>6, <3>1, InkIsPBM
  <2> QED BY <2>3, <2>4, <2>6, <2>7 DEF Inked, layer
<1> QED BY <1>1, PictureInvariance, PTL

\* A message draws on or clears its own layer, where it was asked to, and
\* leaves the rest of the canvas alone.
THEOREM NothingElseChanges == Spec => NothingElse
<1> DEFINE Within == \A px \in Pixel, p \in Prio : layer'[p][px] # layer[p][px] =>
                       p \in msg.prios /\ (Draws(msg) => px \in Asked(msg))
           Gone == \A px \in Pixel, p \in msg.prios : layer[p][px] = "clear"
<1>1. ASSUME mask' = mask, bits' = bits PROVE layer' = layer BY <1>1 DEF layer
<1>2. ASSUME IInv, [Next]_vars, Draws(msg) \/ Clears(msg) PROVE Within
  <2>1. Single(msg) BY <1>2 DEF Draws, Clears, Single
  <2>2. CASE TakeBlob
    <3>1. Draws(msg) BY <1>2, <2>2, NothingToTake DEF TakeBlob
    <3>2. Len(msg.args) = 5 /\ \A i \in 1 .. 4 : msg.args[i].type = "i"
      BY <1>2, <3>1, DrawsTyped DEF IInv
    <3>3. phase = "branch" /\ cur \in 1 .. 6 /\ cur <= 5 /\ cur \notin 1 .. 4
      BY <1>2, <2>2, <3>1, <3>2 DEF IInv, Drawing, TakeBlob, More, This
    <3>4. /\ geo.x = msg.args[1].i /\ geo.y = msg.args[2].i
          /\ geo.w = msg.args[3].i /\ geo.h = msg.args[4].i
      BY <1>2, <3>1, <3>3 DEF IInv, Drawing
    <3>5. geo \in Geometry BY <1>2 DEF IInv, TypeOK
    <3>6. Touched(geo) = Asked(msg) BY <1>2, <3>1, <3>4, <3>5, TouchedIsAsked DEF IInv
    <3>7. prio \in msg.prios BY <1>2, <2>1, <3>3 DEF IInv, InTurn
    <3>8. (mask' = mask /\ bits' = bits) \/ Draw(This) BY <2>2 DEF TakeBlob, pixels
    <3>9. ASSUME NEW px \in Pixel, NEW p \in Prio,
                 p # prio \/ px \notin Touched(geo)
          PROVE  layer'[p][px] = layer[p][px]
      BY <3>8, <3>9 DEF Draw, layer
    <3> QED BY <3>6, <3>7, <3>9
  <2>3. CASE Leave
    <3>1. CASE Draws(msg)
      <4>1. Len(msg.args) = 5 BY <1>2, <3>1, DrawsTyped DEF IInv
      <4>2. set BY <1>2, <2>3, <3>1, <4>1 DEF IInv, Drawing, Leave
      <4> QED BY <1>1, <2>3, <4>2 DEF Leave
    <3>2. CASE ~Draws(msg)
      <4>1. prio \in msg.prios BY <1>2, <2>1, <2>3 DEF IInv, InTurn, Leave
      <4>2. bits' = bits /\ (mask' = mask \/ Clear) BY <2>3 DEF Leave
      <4>3. ASSUME NEW px \in Pixel, NEW p \in Prio, p # prio
            PROVE  layer'[p][px] = layer[p][px]
        BY <4>2, <4>3 DEF Clear, layer
      <4> QED BY <3>2, <4>1, <4>3
    <3> QED BY <3>1, <3>2
  <2>4. CASE \/ \E m \in Messages : Receive(m)
             \/ \E p \in Prio : Enter(p)
             \/ Done \/ TakeInt \/ TakeOther \/ Stray \/ Astray \/ UNCHANGED vars
    <3>1. mask' = mask /\ bits' = bits
      BY <2>4 DEF Receive, Enter, Done, TakeInt, TakeOther, Stray, Astray, pixels, vars
    <3> QED BY <1>1, <3>1
  <2> QED BY <1>2, <2>2, <2>3, <2>4 DEF Next
<1>3. ASSUME IInv, Clears(msg), Done PROVE Gone
  <2>1. \A px \in Pixel, p \in msg.prios : p \notin mask[px]
    BY <1>3 DEF IInv, Clearing, Done
  <2>2. msg.prios \subseteq Prio BY <1>3 DEF Clears
  <2> QED BY <2>1, <2>2 DEF layer
<1>4. IInv /\ [Next]_vars =>
        [/\ Draws(msg) \/ Clears(msg) =>
              \A px \in Pixel, p \in Prio : layer[p][px]' # layer[p][px] =>
                p \in msg.prios /\ (Draws(msg) => px \in Asked(msg))
         /\ Clears(msg) /\ Done =>
              \A px \in Pixel, p \in msg.prios : layer[p][px] = "clear"]_vars
  BY <1>2, <1>3
<1> QED BY <1>4, PictureInvariance, PTL DEF Spec, NothingElse
=============================================================================
