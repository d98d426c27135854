------------------------------ MODULE MCCanvas ------------------------------
(***************************************************************************)
(* A canvas of two by two pixels, two priorities, and bytes of two bits.   *)
(* The messages lie across every edge of the canvas, are wider than a byte *)
(* or not a multiple of one, have too few bytes, come with arguments of    *)
(* all kinds in every order, or have a path that matches both              *)
(* priorities, or none.                                                    *)
(***************************************************************************)
EXTENDS Canvas, Pattern

\* The names in tree_priority, and the entries a path pattern is for.
Name == << "0", "1" >>
Matched(pattern) == { p \in Prio : PatternMatch(pattern, << Name[p + 1] >>) }

\* Patterns of up to five characters, with groups and other wildcards, match
\* the alternatives OSC has them match.
Short == UNION { [1 .. n -> {"0", "1", "{", ",", "}", "?", "*"}] : n \in 0 .. 5 }
ASSUME MeansWhatOSCSays(Short, UNION { [1 .. n -> {"0", "1"}] : n \in 0 .. 2 })

\* The same of bracket expressions.
Bracketed ==
  { << "[", "0", "1", "]" >>, << "[", "!", "0", "]", "*" >>,
    << "{", "[", "!", "1", "]", ",", "1", "0", "}", "?" >> }
ASSUME MeansWhatOSCSays(Bracketed, UNION { [1 .. n -> {"0", "1"}] : n \in 0 .. 3 })

i(n) == [type |-> "i", i |-> n]
b(size, ones) == [type |-> "b", size |-> size, ones |-> ones]
other == [type |-> "other"]

At(x, y, w, h) == << i(x), i(y), i(w), i(h) >>

Chequered == {<<0, 0>>, <<1, 1>>, <<2, 1>>, <<3, 0>>}
Stepped == {<<0, 1>>, <<0, 0>>, <<1, 1>>}

\* As README.md describes them, with rows of whole bytes.
Regular ==
  { << >>,
    At(0, 0, 2, 2) \o << b(2, Chequered) >>,
    At(-1, 1, 4, 1) \o << b(2, Stepped) >>,
    At(1, -1, 2, 2) \o << b(3, Chequered) >> }

Odd ==
  { \* rows that end inside a byte; enough bytes for the bits, not for the rows
    At(-1, 0, 3, 2) \o << b(4, Chequered) >>,
    At(-1, 0, 3, 2) \o << b(3, Chequered) >>,
    \* nothing to draw
    At(1, 0, 0, 2) \o << b(0, {}) >>,
    At(0, 5, 2, 2) \o << b(2, Chequered) >>,
    \* a blob before, between and after the geometry, other types, a fifth
    \* integer
    << b(2, Stepped) >> \o At(0, 0, 1, 1),
    << i(1), i(0), b(2, Chequered), other, i(1), i(1), b(1, Stepped) >>,
    At(0, 1, 2, 1) \o << i(7), other, b(1, {}) >>,
    \* no blob, so a clear
    << i(1), i(1) >> }

\* The ends of 32 bits, which are five here.
Far ==
  { \* the last offsets on either side that do not overflow
    At(-13, 15, 15, 1) \o << b(8, {<<7, 0>>}) >>,
    At(-13, 0, 15, 1) \o << b(8, {<<7, 0>>, <<7, 1>>}) >>,
    \* one further, with a picture, too few bytes, or none
    At(0, -14, 2, 2) \o << b(2, Chequered) >>,
    At(-16, 0, 2, 2) \o << b(1, Stepped) >>,
    << i(-16) >>,
    \* a size whose bytes are 16, -16 again, and 32, none: all of them read
    \* behind the blob, or what they read is there by chance
    At(0, 0, 4, 8) \o << b(1, Stepped) >>,
    At(1, 1, 1, 15) \o << b(0, {}) >>,
    At(0, 0, 15, 4) \o << b(0, {}) >>,
    At(1, 1, 15, 4) \o << b(9, {<<0, 1>>}) >>,
    \* sizes below zero: rows of no bytes, and of very many
    At(0, 0, -1, 2) \o << b(0, {}) >>,
    At(0, 0, 2, -3) \o << b(0, {}) >>,
    At(0, 0, -3, 1) \o << b(2, Chequered) >> }

Small == { At(0, 0, 2, 1) \o << b(1, Stepped) >>, << >> }

AllMessages ==
  [prios : {Matched(<< "0" >>), Matched(<< "[", "!", "0", "]" >>)},
   args : Regular \cup Odd]
    \cup [prios : {Matched(<< "1" >>)}, args : Far]
    \cup [prios : {Matched(<< "{", "0", ",", "1", "}" >>), Matched(<< "2" >>)},
           args : Small]
=============================================================================
