---------------------------- MODULE StreamProofs ----------------------------
(***************************************************************************)
(* OSC over a byte stream: what is decoded is what was encoded, a receiver *)
(* finds the frames again after everything that may happen to a stream,    *)
(* and nothing is lost or reordered as long as receives end where frames   *)
(* do; for any number of clients, any messages and any size of the buffer  *)
(* and the ring.                                                           *)
(***************************************************************************)
EXTENDS Stream, SequenceTheorems, WellFoundedInduction, TLAPS

(***************************************************************************)
(* Sequences: induction, and what FlattenSeq and SubSeq make of them.      *)
(***************************************************************************)
\* Induction over a set, from its element that is least among the missing ones.
LEMMA SetInduction ==
  ASSUME NEW T, 0 \in T, \A n \in Nat : n \in T => n + 1 \in T
  PROVE  \A n \in Nat : n \in T
<1> DEFINE Less == OpToRel(<, Nat)
           Missing == Nat \ T
<1>1. SUFFICES ASSUME Missing # {} PROVE FALSE
  OBVIOUS
<1>2. \E x \in Missing : \A y \in Missing : << y, x >> \notin Less
  <2> HIDE DEF Less, Missing
  <2>1. IsWellFoundedOn(Less, Nat) BY NatLessThanWellFounded DEF Less
  <2>2. Missing \subseteq Nat BY DEF Missing
  <2> QED BY <1>1, <2>1, <2>2, WFMin
<1>3. PICK x \in Missing : \A y \in Missing : << y, x >> \notin Less
  BY <1>2
<1>4. x \in Nat /\ x # 0 /\ x - 1 \in Nat /\ x = (x - 1) + 1
  OBVIOUS
<1>5. x - 1 \in Missing
  BY <1>4
<1>6. << x - 1, x >> \in Less
  BY <1>4 DEF OpToRel
<1> QED BY <1>3, <1>5, <1>6

\* Induction over the sequences of a set, from left to right.
LEMMA SequenceInduction ==
  ASSUME NEW S, NEW T,
         << >> \in T,
         \A s \in Seq(S), e \in S : s \in T => Append(s, e) \in T
  PROVE  Seq(S) \subseteq T
<1> DEFINE N == { n \in Nat : \A s \in Seq(S) : Len(s) = n => s \in T }
<1>1. 0 \in N
  BY EmptySeq
<1>2. ASSUME NEW n \in Nat, n \in N PROVE n + 1 \in N
  <2> SUFFICES ASSUME NEW s \in Seq(S), Len(s) = n + 1 PROVE s \in T
    OBVIOUS
  <2>1. s # << >>
    OBVIOUS
  <2>2. PICK t \in Seq(S), e \in S : s = Append(t, e)
    BY <2>1, SequenceEmptyOrAppend
  <2>3. Len(t) = n
    BY <2>2, AppendProperties, LenProperties
  <2> QED BY <1>2, <2>2, <2>3
<1>3. \A n \in Nat : n \in N
  <2> HIDE DEF N
  <2> QED BY <1>1, <1>2, SetInduction
<1> QED BY <1>3, LenProperties

\* FlattenSeq is defined with a recursive function, and there is one.
LEMMA FlattenDef ==
  ASSUME NEW S, NEW seqs \in Seq(Seq(S)), Len(seqs) # 0,
         NEW flatten, flatten = CHOOSE g : g = [i \in 1 .. Len(seqs) |->
            IF i = 1 THEN seqs[i] ELSE g[i - 1] \o seqs[i]]
  PROVE  flatten = [i \in 1 .. Len(seqs) |->
            IF i = 1 THEN seqs[i] ELSE flatten[i - 1] \o seqs[i]]
<1> DEFINE F(g, n) == [i \in 1 .. n |->
                        IF i = 1 THEN seqs[i] ELSE g[i - 1] \o seqs[i]]
           N == { n \in Nat : \E g : g = F(g, n) }
<1>1. 0 \in N
  <2> DEFINE g == [i \in 1 .. 0 |-> i]
  <2>1. g = F(g, 0) OBVIOUS
  <2> QED BY <2>1
<1>2. ASSUME NEW n \in Nat, n \in N PROVE n + 1 \in N
  <2>1. PICK g : g = F(g, n) BY <1>2
  <2> DEFINE h == [i \in 1 .. n + 1 |->
                    IF i = 1 THEN seqs[i] ELSE g[i - 1] \o seqs[i]]
  <2>2. ASSUME NEW i \in 1 .. n PROVE h[i] = g[i]
    <3>1. g[i] = IF i = 1 THEN seqs[i] ELSE g[i - 1] \o seqs[i]
      BY <2>1
    <3>2. h[i] = IF i = 1 THEN seqs[i] ELSE g[i - 1] \o seqs[i]
      OBVIOUS
    <3> QED BY <3>1, <3>2
  <2>3. ASSUME NEW i \in 1 .. n + 1, i # 1 PROVE h[i - 1] = g[i - 1]
    <3>1. i - 1 \in 1 .. n BY <2>3
    <3> QED BY <3>1, <2>2
  <2>4. h = F(h, n + 1)
    <3>1. \A i \in 1 .. n + 1 : h[i] = F(h, n + 1)[i]
      <4> HIDE DEF h
      <4>1. ASSUME NEW i \in 1 .. n + 1
            PROVE  F(h, n + 1)[i] = IF i = 1 THEN seqs[i] ELSE g[i - 1] \o seqs[i]
        BY <2>3
      <4> QED BY <4>1 DEF h
    <3> HIDE DEF F
    <3>2. DOMAIN h = 1 .. n + 1 /\ h = [i \in DOMAIN h |-> h[i]] OBVIOUS
    <3>3. DOMAIN F(h, n + 1) = 1 .. n + 1 /\
          F(h, n + 1) = [i \in 1 .. n + 1 |-> F(h, n + 1)[i]] BY DEF F
    <3> HIDE DEF h
    <3> QED BY <3>1, <3>2, <3>3
  <2>5. \E k : k = F(k, n + 1)
    <3> HIDE DEF F, h
    <3> QED BY <2>4
  <2> QED
    <3> HIDE DEF F, h
    <3> QED BY <2>5
<1>3. Len(seqs) \in N
  <2> HIDE DEF N
  <2> QED BY <1>1, <1>2, SetInduction, LenProperties
<1>4. \E g : g = F(g, Len(seqs)) BY <1>3
<1> QED BY <1>4

\* Nothing to join is nothing.
LEMMA FlattenEmpty == FlattenSeq(<< >>) = << >>
BY DEF FlattenSeq

\* The function FlattenSeq is defined with.
LEMMA FlattenFcn ==
  ASSUME NEW S, NEW seqs \in Seq(Seq(S)), Len(seqs) # 0
  PROVE  \E f : /\ FlattenSeq(seqs) = f[Len(seqs)]
               /\ f[1] = seqs[1]
               /\ \A i \in 2 .. Len(seqs) : f[i] = f[i - 1] \o seqs[i]
<1> DEFINE flatten == CHOOSE g : g = [i \in 1 .. Len(seqs) |->
                        IF i = 1 THEN seqs[i] ELSE g[i - 1] \o seqs[i]]
<1>1. FlattenSeq(seqs) = flatten[Len(seqs)]
  BY DEF FlattenSeq
<1> HIDE DEF flatten
<1>2. flatten = [i \in 1 .. Len(seqs) |->
                  IF i = 1 THEN seqs[i] ELSE flatten[i - 1] \o seqs[i]]
  BY FlattenDef, ZenonT(60) DEF flatten
<1>3. Len(seqs) \in Nat BY LenProperties
<1>4. flatten[1] = seqs[1]
  <2>1. 1 \in 1 .. Len(seqs) BY <1>3
  <2>2. flatten[1] = IF 1 = 1 THEN seqs[1] ELSE flatten[1 - 1] \o seqs[1]
    BY <1>2, <2>1
  <2> QED BY <2>2
<1>5. ASSUME NEW i \in 2 .. Len(seqs) PROVE flatten[i] = flatten[i - 1] \o seqs[i]
  <2>1. i \in 1 .. Len(seqs) /\ i # 1 BY <1>3
  <2>2. flatten[i] = IF i = 1 THEN seqs[i] ELSE flatten[i - 1] \o seqs[i]
    BY <1>2, <2>1
  <2> QED BY <2>1, <2>2
<1> QED BY <1>1, <1>4, <1>5

\* Joined sequences have the elements of their parts.
LEMMA FlattenType ==
  ASSUME NEW S, NEW seqs \in Seq(Seq(S))
  PROVE  FlattenSeq(seqs) \in Seq(S)
<1>1. CASE Len(seqs) = 0
  <2>1. seqs = << >> BY <1>1
  <2>2. << >> \in Seq(S) OBVIOUS
  <2> QED BY <2>1, <2>2, FlattenEmpty
<1>2. CASE Len(seqs) # 0
  <2>1. PICK f : /\ FlattenSeq(seqs) = f[Len(seqs)]
                 /\ f[1] = seqs[1]
                 /\ \A i \in 2 .. Len(seqs) : f[i] = f[i - 1] \o seqs[i]
    BY <1>2, FlattenFcn
  <2> DEFINE N == { n \in Nat : n \in 1 .. Len(seqs) => f[n] \in Seq(S) }
  <2>2. 0 \in N OBVIOUS
  <2>3. ASSUME NEW n \in Nat, n \in N PROVE n + 1 \in N
    <3>1. ASSUME n + 1 \in 1 .. Len(seqs) PROVE f[n + 1] \in Seq(S)
      <4>1. seqs[n + 1] \in Seq(S) BY <3>1
      <4>2. CASE n = 0 BY <2>1, <4>1, <4>2
      <4>3. CASE n # 0
        <5>1. n + 1 \in 2 .. Len(seqs) /\ n \in 1 .. Len(seqs) BY <3>1, <4>3
        <5>2. f[n + 1] = f[n] \o seqs[n + 1]
          <6>1. f[n + 1] = f[(n + 1) - 1] \o seqs[n + 1] BY <2>1, <5>1
          <6>2. (n + 1) - 1 = n OBVIOUS
          <6> QED BY <6>1, <6>2
        <5>3. f[n] \in Seq(S) BY <2>3, <5>1
        <5> QED BY <4>1, <5>2, <5>3
      <4> QED BY <4>2, <4>3
    <3> QED BY <3>1
  <2>4. Len(seqs) \in N
    <3> HIDE DEF N
    <3> QED BY <2>2, <2>3, SetInduction, LenProperties
  <2>5. Len(seqs) \in 1 .. Len(seqs) BY <1>2, LenProperties
  <2> QED BY <2>1, <2>4, <2>5
<1> QED BY <1>1, <1>2

\* Two functions that agree.
LEMMA FlattenAppend ==
  ASSUME NEW S, NEW seqs \in Seq(Seq(S)), NEW e \in Seq(S)
  PROVE  FlattenSeq(Append(seqs, e)) = FlattenSeq(seqs) \o e
<1> DEFINE all == Append(seqs, e)
           L == Len(seqs)
<1>1. /\ all \in Seq(Seq(S)) /\ L \in Nat /\ Len(all) = L + 1
      /\ all[L + 1] = e /\ \A i \in 1 .. L : all[i] = seqs[i]
  BY AppendProperties, LenProperties
<1> HIDE DEF all, L
<1>2. PICK f : /\ FlattenSeq(all) = f[L + 1]
               /\ f[1] = all[1]
               /\ \A i \in 2 .. L + 1 : f[i] = f[i - 1] \o all[i]
  <2>1. Len(all) # 0 BY <1>1
  <2>2. \E f : /\ FlattenSeq(all) = f[Len(all)]
              /\ f[1] = all[1]
              /\ \A i \in 2 .. Len(all) : f[i] = f[i - 1] \o all[i]
    BY <1>1, <2>1, FlattenFcn
  <2> QED BY <1>1, <2>2
<1>3. CASE L = 0
  <2>1. seqs = << >> BY <1>3 DEF L
  <2>2. FlattenSeq(seqs) = << >> BY <2>1, FlattenEmpty
  <2>3. f[L + 1] = e BY <1>1, <1>2, <1>3
  <2> QED BY <2>2, <2>3, <1>2 DEF all
<1>4. CASE L # 0
  <2>1. PICK g : /\ FlattenSeq(seqs) = g[L]
                 /\ g[1] = seqs[1]
                 /\ \A i \in 2 .. L : g[i] = g[i - 1] \o seqs[i]
    BY <1>4, FlattenFcn DEF L
  <2> DEFINE N == { n \in Nat : n \in 1 .. L => f[n] = g[n] }
  <2>2. 0 \in N OBVIOUS
  <2>3. ASSUME NEW n \in Nat, n \in N PROVE n + 1 \in N
    <3>1. ASSUME n + 1 \in 1 .. L PROVE f[n + 1] = g[n + 1]
      <4>1. seqs[n + 1] = all[n + 1] BY <1>1, <3>1
      <4>2. CASE n = 0 BY <1>1, <1>2, <1>4, <2>1, <4>1, <4>2
      <4>3. CASE n # 0
        <5>1. n + 1 \in 2 .. L /\ n + 1 \in 2 .. L + 1 /\ n \in 1 .. L
          BY <1>1, <3>1, <4>3
        <5>2. f[n + 1] = f[n] \o all[n + 1] /\ g[n + 1] = g[n] \o seqs[n + 1]
          <6>1. f[n + 1] = f[(n + 1) - 1] \o all[n + 1] BY <1>2, <5>1
          <6>2. g[n + 1] = g[(n + 1) - 1] \o seqs[n + 1] BY <2>1, <5>1
          <6>3. (n + 1) - 1 = n OBVIOUS
          <6> QED BY <6>1, <6>2, <6>3
        <5> QED BY <2>3, <4>1, <5>1, <5>2
      <4> QED BY <4>2, <4>3
    <3> QED BY <3>1
  <2>4. L \in N
    <3> HIDE DEF N
    <3> QED BY <1>1, <2>2, <2>3, SetInduction
  <2>5. f[L] = g[L] BY <1>1, <1>4, <2>4
  <2>6. f[L + 1] = f[L] \o all[L + 1]
    <3>1. L + 1 \in 2 .. L + 1 BY <1>1, <1>4
    <3>2. f[L + 1] = f[(L + 1) - 1] \o all[L + 1] BY <1>2, <3>1
    <3>3. (L + 1) - 1 = L BY <1>1
    <3> QED BY <3>2, <3>3
  <2> QED BY <1>1, <1>2, <2>1, <2>5, <2>6 DEF all
<1> QED BY <1>3, <1>4

\* How three sequences are joined does not matter.
LEMMA JoinAssociative ==
  \A S : \A x, y, z \in Seq(S) : (x \o y) \o z = x \o (y \o z)
BY ConcatAssociative

\* Joining can be done in two parts.
LEMMA FlattenConcat ==
  ASSUME NEW S, NEW s \in Seq(Seq(S)), NEW t \in Seq(Seq(S))
  PROVE  FlattenSeq(s \o t) = FlattenSeq(s) \o FlattenSeq(t)
<1> DEFINE T == { u \in Seq(Seq(S)) :
                    FlattenSeq(s \o u) = FlattenSeq(s) \o FlattenSeq(u) }
<1>1. << >> \in T
  <2>1. s \o << >> = s BY ConcatEmptySeq
  <2>2. FlattenSeq(s) \o << >> = FlattenSeq(s) BY FlattenType, ConcatEmptySeq
  <2>3. << >> \in Seq(Seq(S)) OBVIOUS
  <2> QED BY <2>1, <2>2, <2>3, FlattenEmpty
<1>2. ASSUME NEW u \in Seq(Seq(S)), NEW e \in Seq(S), u \in T PROVE Append(u, e) \in T
  <2>1. s \o Append(u, e) = Append(s \o u, e) OBVIOUS
  <2>2. FlattenSeq(Append(s \o u, e)) = FlattenSeq(s \o u) \o e
    <3>1. s \o u \in Seq(Seq(S)) OBVIOUS
    <3> QED BY <3>1, FlattenAppend
  <2>3. FlattenSeq(Append(u, e)) = FlattenSeq(u) \o e BY FlattenAppend
  <2>4. FlattenSeq(s) \in Seq(S) /\ FlattenSeq(u) \in Seq(S) BY FlattenType
  <2>6. Append(u, e) \in Seq(Seq(S)) OBVIOUS
  <2> DEFINE x == FlattenSeq(s)
             y == FlattenSeq(u)
  <2>7. x \in Seq(S) /\ y \in Seq(S) BY <2>4
  <2> HIDE DEF x, y
  <2>5. (x \o y) \o e = x \o (y \o e) BY <2>7, JoinAssociative, SMTT(30)
  <2> QED BY <1>2, <2>1, <2>2, <2>3, <2>5, <2>6 DEF x, y
<1>3. Seq(Seq(S)) \subseteq T
  <2> HIDE DEF T
  <2> QED BY <1>1, <1>2, SequenceInduction
<1> QED BY <1>3

\* A single sequence is joined already.
LEMMA FlattenOne ==
  ASSUME NEW S, NEW e \in Seq(S) PROVE FlattenSeq(<< e >>) = e
<1>1. << >> \in Seq(Seq(S)) /\ Append(<< >>, e) = << e >> /\ << >> \o e = e
  BY ConcatEmptySeq
<1> QED BY <1>1, FlattenAppend, FlattenEmpty

\* A part of a sequence: its elements, and how many there are.
LEMMA SubSeqType ==
  ASSUME NEW S, NEW s \in Seq(S), NEW m \in 1 .. Len(s) + 1, NEW n \in 0 .. Len(s)
  PROVE  /\ SubSeq(s, m, n) \in Seq(S)
         /\ Len(SubSeq(s, m, n)) = IF m <= n THEN n - m + 1 ELSE 0
         /\ \A i \in 1 .. n - m + 1 : SubSeq(s, m, n)[i] = s[m + i - 1]
<1>1. Len(s) \in Nat BY LenProperties
<1>2. m \in Int /\ n \in Int BY <1>1
<1>3. \A i \in m .. n : s[i] \in S
  <2>1. ASSUME NEW i \in m .. n PROVE i \in 1 .. Len(s) BY <1>1
  <2> QED BY <2>1, ElementOfSeq
<1> QED BY <1>2, <1>3, SubSeqProperties

\* A part from the start.
LEMMA PrefixIs ==
  ASSUME NEW S, NEW s \in Seq(S), NEW n \in 0 .. Len(s)
  PROVE  /\ SubSeq(s, 1, n) \in Seq(S) /\ Len(SubSeq(s, 1, n)) = n
         /\ \A i \in 1 .. n : SubSeq(s, 1, n)[i] = s[i]
<1>1. Len(s) \in Nat BY LenProperties
<1>2. 1 \in 1 .. Len(s) + 1 BY <1>1
<1>3. n - 1 + 1 = n /\ \A i \in 1 .. n : 1 + i - 1 = i BY <1>1
<1>4. 1 <= n \/ n = 0 BY <1>1
<1> QED BY <1>2, <1>3, <1>4, SubSeqType

\* The front of a concatenation within its first part.
LEMMA PrefixOfConcat ==
  ASSUME NEW S, NEW s \in Seq(S), NEW t \in Seq(S), NEW n \in 0 .. Len(s)
  PROVE  SubSeq(s \o t, 1, n) = SubSeq(s, 1, n)
<1> DEFINE st == s \o t
           b == SubSeq(st, 1, n)
           c == SubSeq(s, 1, n)
<1>1. Len(s) \in Nat /\ Len(t) \in Nat BY LenProperties
<1>2. /\ st \in Seq(S) /\ Len(st) = Len(s) + Len(t)
      /\ \A i \in 1 .. Len(s) + Len(t) : i <= Len(s) => st[i] = s[i]
  BY ConcatProperties
<1>3. c \in Seq(S) /\ Len(c) = n /\ \A i \in 1 .. n : c[i] = s[i] BY PrefixIs
<1> HIDE DEF st
<1>4. n \in 0 .. Len(st) BY <1>1, <1>2
<1>5. b \in Seq(S) /\ Len(b) = n /\ \A i \in 1 .. n : b[i] = st[i]
  BY <1>2, <1>4, PrefixIs
<1>6. \A i \in 1 .. n : i \in 1 .. Len(s) + Len(t) /\ i <= Len(s) BY <1>1
<1> HIDE DEF b, c
<1>7. b = c BY <1>2, <1>3, <1>5, <1>6, SeqEqual
<1> QED BY <1>7 DEF st, b, c

\* Both parts of a concatenation can be had back.
LEMMA ConcatParts ==
  ASSUME NEW S, NEW s \in Seq(S), NEW t \in Seq(S)
  PROVE  /\ SubSeq(s \o t, 1, Len(s)) = s
         /\ SubSeq(s \o t, Len(s) + 1, Len(s) + Len(t)) = t
<1>1. Len(s) \in Nat /\ Len(t) \in Nat BY LenProperties
<1>2. SubSeq(s \o t, 1, Len(s)) = s
  <2>1. Len(s) \in 0 .. Len(s) BY <1>1
  <2> QED BY <2>1, PrefixOfConcat, SubSeqFull
<1>3. SubSeq(s \o t, Len(s) + 1, Len(s) + Len(t)) = t
  <2> DEFINE st == s \o t
             m == Len(s)
             n == Len(t)
             b == SubSeq(st, m + 1, m + n)
  <2>1. /\ st \in Seq(S) /\ Len(st) = m + n
        /\ \A i \in 1 .. m + n : ~(i <= m) => st[i] = t[i - m]
    BY ConcatProperties
  <2>2. m \in Nat /\ n \in Nat /\ n = Len(t) BY <1>1
  <2> HIDE DEF st, m, n
  <2>3. m + 1 \in 1 .. Len(st) + 1 /\ m + n \in 0 .. Len(st) BY <2>1, <2>2
  <2>4. b \in Seq(S) /\ Len(b) = n /\ \A i \in 1 .. n : b[i] = st[m + i]
    <3> DEFINE x == m + 1
               y == m + n
    <3>1. x \in 1 .. Len(st) + 1 /\ y \in 0 .. Len(st) BY <2>3
    <3>2. SubSeq(st, x, y) = b OBVIOUS
    <3>3. y - x + 1 = n /\ (x <= y \/ n = 0) /\ \A i \in 1 .. n : x + i - 1 = m + i
      BY <2>2
    <3> HIDE DEF x, y, b
    <3>4. /\ b \in Seq(S) /\ Len(b) = IF x <= y THEN y - x + 1 ELSE 0
          /\ \A i \in 1 .. y - x + 1 : b[i] = st[x + i - 1]
      BY <2>1, <3>1, <3>2, SubSeqType
    <3> QED BY <3>3, <3>4
  <2>5. ASSUME NEW i \in 1 .. n PROVE b[i] = t[i]
    <3>1. m + i \in 1 .. m + n /\ ~(m + i <= m) /\ (m + i) - m = i BY <2>2
    <3> HIDE DEF b
    <3> QED BY <3>1, <2>1, <2>4
  <2> HIDE DEF b
  <2>6. b = t BY <2>2, <2>4, <2>5, SeqEqual
  <2> QED BY <2>6 DEF b, st, m, n
<1> QED BY <1>2, <1>3

-----------------------------------------------------------------------------
(***************************************************************************)
(* Escaping: what SLIP encodes, what is decoded of a buffer, and that the  *)
(* one gives back what the other was given.                                *)
(***************************************************************************)

\* A byte.
Octet == STRING \union {END, ESC, ENDReplace, ESCReplace, "zero", "chance"}

\* The special bytes are bytes, and no two of them are the same.
LEMMA Marks == /\ {END, ESC, ENDReplace, ESCReplace} \subseteq Octet
               /\ END # ESC /\ ENDReplace \notin {END, ESC} /\ ESCReplace \notin {END, ESC, ENDReplace}
<1>1. {END, ESC, ENDReplace, ESCReplace} \subseteq Octet BY DEF Octet
<1>2. "END" # "ESC" /\ "ESC_END" # "END" /\ "ESC_END" # "ESC" OBVIOUS
<1>3. "ESC_ESC" # "END" /\ "ESC_ESC" # "ESC" /\ "ESC_ESC" # "ESC_END" OBVIOUS
<1> QED BY <1>1, <1>2, <1>3 DEF END, ESC, ENDReplace, ESCReplace

\* Bytes and bytes are bytes.
LEMMA Closes == \A x, y \in Seq(Octet) : x \o y \in Seq(Octet)
BY ConcatProperties

\* Nothing in front or behind changes nothing.
LEMMA Alone == \A x \in Seq(Octet) : << >> \o x = x /\ x \o << >> = x
BY ConcatEmptySeq

\* Three parts are joined in either order.
LEMMA Shifts == \A x, y, z \in Seq(Octet) : (x \o y) \o z = x \o (y \o z)
BY JoinAssociative

\* Where a frame begins is known.
LEMMA FirstIs == \A buf : /\ First(buf) \in {1, 2}
                          /\ First(buf) = 2 <=> buf # << >> /\ buf[1] = END
BY DEF First

\* There are such positions as Escaped is about.
LEMMA EscapedExists ==
  ASSUME NEW buf, NEW a \in Nat, NEW n \in Nat
  PROVE  \E E \in SUBSET Int : \A i \in a .. a + n - 1 :
           i \in E <=> i > a /\ buf[i - 1] = ESC /\ i - 1 \notin E
<1> DEFINE Is(E, k) == \A i \in a .. a + k - 1 :
             i \in E <=> i > a /\ buf[i - 1] = ESC /\ i - 1 \notin E
           T == { k \in Nat : \E E \in SUBSET Int : Is(E, k) }
<1>1. 0 \in T
  <2>1. Is({}, 0) OBVIOUS
  <2> QED BY <2>1
<1>2. ASSUME NEW k \in Nat, k \in T PROVE k + 1 \in T
  <2>1. PICK E \in SUBSET Int : Is(E, k) BY <1>2
  <2> DEFINE j == a + k
             F == IF j > a /\ buf[j - 1] = ESC /\ j - 1 \notin E THEN E \union {j} ELSE E \ {j}
  <2>2. F \in SUBSET Int /\ j \in Int OBVIOUS
  <2>3. \A i \in Int : i # j => (i \in F <=> i \in E) OBVIOUS
  <2>4. j \in F <=> j > a /\ buf[j - 1] = ESC /\ j - 1 \notin E OBVIOUS
  <2>5. j - 1 \in Int /\ j - 1 # j /\ j = a + k OBVIOUS
  <2> HIDE DEF F, j
  <2>6. ASSUME NEW i \in a .. a + (k + 1) - 1
        PROVE  i \in F <=> i > a /\ buf[i - 1] = ESC /\ i - 1 \notin F
    <3>1. CASE i = j BY <3>1, <2>3, <2>4, <2>5
    <3>2. CASE i # j
      <4>1. i \in a .. a + k - 1 /\ i - 1 \in Int /\ i - 1 # j /\ i \in Int BY <3>2, <2>5
      <4>2. i \in E <=> i > a /\ buf[i - 1] = ESC /\ i - 1 \notin E BY <4>1, <2>1
      <4> QED BY <4>1, <4>2, <3>2, <2>3
    <3> QED BY <3>1, <3>2
  <2>7. Is(F, k + 1) BY <2>6
  <2> HIDE DEF Is
  <2> QED BY <2>2, <2>7
<1>3. n \in T
  <2> HIDE DEF T
  <2> QED BY <1>1, <1>2, SetInduction
<1> QED BY <1>3

\* What Escaped has to do with its own.
LEMMA EscapedIs ==
  ASSUME NEW buf \in Seq(Octet)
  PROVE  /\ Escaped(buf) \subseteq First(buf) .. Len(buf)
         /\ \A i \in First(buf) .. Len(buf) :
              i \in Escaped(buf) <=> /\ i > First(buf) /\ buf[i - 1] = ESC
                                     /\ i - 1 \notin Escaped(buf)
<1> DEFINE a == First(buf)
           b == Len(buf)
           n == b + 1 - a
           escaped == CHOOSE f : f = [i \in a .. b |-> i > a /\ buf[i - 1] = ESC /\ ~f[i - 1]]
<1>1. a \in Nat /\ b \in Nat /\ a <= b + 1
  <2>1. Len(buf) \in Nat /\ (buf # << >> => Len(buf) >= 1) BY EmptySeq
  <2> QED BY <2>1, FirstIs
<1>2. Escaped(buf) = { i \in a .. b : escaped[i] } BY DEF Escaped
<1>3. escaped = CHOOSE f : f = [i \in a .. b |-> i > a /\ buf[i - 1] = ESC /\ ~f[i - 1]]
  OBVIOUS
<1> HIDE DEF a, b, escaped
<1>4. n \in Nat /\ a + n - 1 = b BY <1>1
<1> HIDE DEF n
<1>5. PICK E \in SUBSET Int : \A i \in a .. b :
        i \in E <=> i > a /\ buf[i - 1] = ESC /\ i - 1 \notin E
  BY <1>1, <1>4, EscapedExists
<1> DEFINE f == [i \in a .. b |-> IF i \in E THEN TRUE ELSE FALSE]
           g == [i \in a .. b |-> i > a /\ buf[i - 1] = ESC /\ ~f[i - 1]]
<1>6. ASSUME NEW i \in a .. b PROVE f[i] = g[i]
  <2>1. f[i] = IF i \in E THEN TRUE ELSE FALSE OBVIOUS
  <2>2. g[i] = (i > a /\ buf[i - 1] = ESC /\ ~f[i - 1]) OBVIOUS
  <2>3. i > a => i - 1 \in a .. b BY <1>1
  <2>4. i > a => f[i - 1] = IF i - 1 \in E THEN TRUE ELSE FALSE BY <2>3
  <2> HIDE DEF f, g
  <2>5. CASE i \in E
    <3>1. i > a /\ buf[i - 1] = ESC /\ i - 1 \notin E BY <1>5, <2>5
    <3>2. ~f[i - 1] BY <2>4, <3>1
    <3>3. g[i] = TRUE BY <2>2, <3>1, <3>2
    <3>4. f[i] = TRUE BY <2>1, <2>5
    <3> QED BY <3>3, <3>4
  <2>6. CASE i \notin E
    <3>1. ~(i > a /\ buf[i - 1] = ESC /\ i - 1 \notin E) BY <1>5, <2>6
    <3>2. ~(i > a /\ buf[i - 1] = ESC /\ ~f[i - 1]) BY <2>4, <3>1
    <3>3. g[i] = FALSE BY <2>2, <3>2
    <3>4. f[i] = FALSE BY <2>1, <2>6
    <3> QED BY <3>3, <3>4
  <2> QED BY <2>5, <2>6
<1>7. f = g
  <2>1. DOMAIN f = a .. b /\ DOMAIN g = a .. b /\ f = [i \in a .. b |-> f[i]]
        /\ g = [i \in a .. b |-> g[i]] OBVIOUS
  <2> HIDE DEF f, g
  <2> QED BY <1>6, <2>1
<1>8. f = [i \in a .. b |-> i > a /\ buf[i - 1] = ESC /\ ~f[i - 1]] BY <1>7
<1> HIDE DEF f
<1>9. \E h : h = [i \in a .. b |-> i > a /\ buf[i - 1] = ESC /\ ~h[i - 1]] BY <1>8
<1>10. escaped = [i \in a .. b |-> i > a /\ buf[i - 1] = ESC /\ ~escaped[i - 1]]
  BY <1>3, <1>9, ZenonT(60)
<1>11. ASSUME NEW i \in a .. b
      PROVE  escaped[i] = (i > a /\ buf[i - 1] = ESC /\ ~escaped[i - 1])
  BY <1>10
<1>12. ASSUME NEW i \in a .. b
      PROVE  i \in Escaped(buf) <=> i > a /\ buf[i - 1] = ESC /\ i - 1 \notin Escaped(buf)
  <2>1. i > a => i - 1 \in a .. b BY <1>1
  <2>2. i \in Escaped(buf) <=> escaped[i] BY <1>2
  <2>3. i > a => (i - 1 \in Escaped(buf) <=> escaped[i - 1]) BY <1>2, <2>1
  <2> QED BY <1>11, <2>2, <2>3
<1>13. Escaped(buf) \subseteq a .. b BY <1>2
<1> QED BY <1>12, <1>13 DEF a, b

\* A function on 1 .. n is a sequence.
LEMMA SeqOfFcn ==
  ASSUME NEW S, NEW n \in Nat, NEW u \in [1 .. n -> S]
  PROVE  u \in Seq(S) /\ Len(u) = n
BY LenProperties, SeqDef

\* What is appended comes last.
LEMMA AppendEqual ==
  ASSUME NEW S, NEW u \in Seq(S), NEW v \in Seq(S), NEW e \in S, Len(u) = Len(v) + 1,
         \A i \in 1 .. Len(v) : u[i] = v[i], u[Len(v) + 1] = e
  PROVE  u = Append(v, e)
<1> DEFINE w == Append(v, e)
           n == Len(v)
<1>1. /\ w \in Seq(S) /\ Len(w) = n + 1 /\ n \in Nat /\ w[n + 1] = e
      /\ \A i \in 1 .. n : w[i] = v[i]
  BY AppendProperties, LenProperties
<1> HIDE DEF w
<1>2. \A i \in 1 .. Len(u) : u[i] = w[i] BY <1>1
<1>3. Len(u) = Len(w) BY <1>1
<1>4. u = w BY <1>1, <1>2, <1>3, SeqEqual
<1> QED BY <1>4 DEF w

\* Joining three.
LEMMA Associative ==
  ASSUME NEW S, NEW x \in Seq(S), NEW y \in Seq(S), NEW z \in Seq(S)
  PROVE  (x \o y) \o z = x \o (y \o z) /\ x \o y \in Seq(S) /\ y \o z \in Seq(S)
<1>1. (x \o y) \o z = x \o (y \o z) BY ConcatAssociative
<1> QED BY <1>1, ConcatProperties

\* Joined parts of one element at most are no more than the parts.
LEMMA FlattenLen ==
  ASSUME NEW S
  PROVE  \A seqs \in Seq(Seq(S)) : (\A i \in 1 .. Len(seqs) : Len(seqs[i]) <= 1) =>
           /\ Len(FlattenSeq(seqs)) <= Len(seqs)
           /\ (\E i \in 1 .. Len(seqs) : seqs[i] = << >>) => Len(FlattenSeq(seqs)) < Len(seqs)
<1> DEFINE Single(seqs) == \A i \in 1 .. Len(seqs) : Len(seqs[i]) <= 1
           Gap(seqs) == \E i \in 1 .. Len(seqs) : seqs[i] = << >>
           T == { seqs \in Seq(Seq(S)) : Single(seqs) =>
                    /\ Len(FlattenSeq(seqs)) <= Len(seqs)
                    /\ Gap(seqs) => Len(FlattenSeq(seqs)) < Len(seqs) }
<1>1. << >> \in T
  <2>1. << >> \in Seq(Seq(S)) /\ Len(<< >>) = 0 OBVIOUS
  <2> QED BY <2>1, FlattenEmpty
<1>2. ASSUME NEW s \in Seq(Seq(S)), NEW e \in Seq(S), s \in T PROVE Append(s, e) \in T
  <2> DEFINE n == Len(s)
             k == Len(FlattenSeq(s))
             a == Append(s, e)
             f == FlattenSeq(a)
  <2>1. /\ a \in Seq(Seq(S)) /\ Len(a) = n + 1 /\ a[n + 1] = e
        /\ \A i \in 1 .. n : a[i] = s[i]
    BY AppendProperties
  <2>2. f = FlattenSeq(s) \o e /\ FlattenSeq(s) \in Seq(S) BY FlattenAppend, FlattenType
  <2>3. Len(f) = k + Len(e) /\ k \in Nat /\ Len(e) \in Nat /\ n \in Nat
    BY <2>2, ConcatProperties, LenProperties
  <2>4. e = << >> <=> Len(e) = 0 BY EmptySeq
  <2>5. Single(s) => k <= n /\ (Gap(s) => k < n) BY <1>2
  <2> HIDE DEF n, k, a, f
  <2>6. Single(a) => Single(s) /\ Len(e) <= 1
    <3>1. SUFFICES ASSUME Single(a) PROVE Single(s) /\ Len(e) <= 1 OBVIOUS
    <3>2. n + 1 \in 1 .. n + 1 /\ \A i \in 1 .. n : i \in 1 .. n + 1 BY <2>3
    <3>3. Len(a[n + 1]) <= 1 BY <2>1, <3>1, <3>2
    <3>4. \A i \in 1 .. n : Len(s[i]) <= 1 BY <2>1, <3>1, <3>2
    <3> QED BY <2>1, <3>3, <3>4 DEF n
  <2>7. Gap(a) => Gap(s) \/ e = << >>
    <3>1. \A i \in 1 .. n + 1 : i \in 1 .. n \/ i = n + 1 BY <2>3
    <3> QED BY <2>1, <3>1 DEF n
  <2> HIDE DEF Single, Gap
  <2>8. Single(a) => Len(f) <= Len(a) /\ (Gap(a) => Len(f) < Len(a))
    BY <2>1, <2>3, <2>4, <2>5, <2>6, <2>7
  <2> QED BY <2>1, <2>8 DEF a, f
<1>3. Seq(Seq(S)) \subseteq T
  <2> HIDE DEF T
  <2> QED BY <1>1, <1>2, SequenceInduction
<1> QED BY <1>3

-----------------------------------------------------------------------------
\* What becomes of a byte.
LEMMA StuffedIs ==
  ASSUME NEW e \in Octet
  PROVE  \/ e \notin {END, ESC} /\ Stuffed(e) = << e >>
         \/ e = END /\ Stuffed(e) = << ESC, ENDReplace >>
         \/ e = ESC /\ Stuffed(e) = << ESC, ESCReplace >>
BY Marks DEF Stuffed

\* One byte or two are sent for a byte.
LEMMA StuffedType ==
  ASSUME NEW e \in Octet
  PROVE  /\ Stuffed(e) \in Seq(Octet) /\ Len(Stuffed(e)) \in {1, 2}
         /\ Stuffed(e)[Len(Stuffed(e))] \notin {END, ESC}
<1>1. CASE e \notin {END, ESC}
  <2>1. Stuffed(e) = << e >> BY <1>1, StuffedIs
  <2>2. << e >> \in Seq(Octet) /\ Len(<< e >>) = 1 /\ << e >>[1] = e OBVIOUS
  <2> QED BY <1>1, <2>1, <2>2
<1>2. ASSUME NEW x \in {ENDReplace, ESCReplace}, Stuffed(e) = << ESC, x >>
      PROVE  /\ Stuffed(e) \in Seq(Octet) /\ Len(Stuffed(e)) \in {1, 2}
             /\ Stuffed(e)[Len(Stuffed(e))] \notin {END, ESC}
  <2>1. x \in Octet /\ x \notin {END, ESC} /\ ESC \in Octet BY Marks
  <2>2. << ESC, x >> \in Seq(Octet) /\ Len(<< ESC, x >>) = 2 /\ << ESC, x >>[2] = x
    BY <2>1
  <2> QED BY <1>2, <2>1, <2>2
<1> QED BY <1>1, <1>2, StuffedIs

\* The bytes of a message as they travel.
Stuff(p) == [i \in DOMAIN p |-> Stuffed(p[i])]
Body(p) == FlattenSeq(Stuff(p))

\* A frame is its bytes between two END.
LEMMA SlipIs == \A p : Slip(p) = (<< END >> \o Body(p)) \o << END >>
BY DEF Slip, Body, Stuff

\* The pieces a message is escaped to are sequences of bytes.
LEMMA StuffType ==
  ASSUME NEW p \in Seq(Octet)
  PROVE  /\ Stuff(p) \in Seq(Seq(Octet)) /\ Len(Stuff(p)) = Len(p)
         /\ \A i \in 1 .. Len(p) : Stuff(p)[i] = Stuffed(p[i])
<1>1. Len(p) \in Nat /\ DOMAIN p = 1 .. Len(p) BY LenProperties
<1> DEFINE u == Stuff(p)
<1>2. \A i \in 1 .. Len(p) : u[i] = Stuffed(p[i]) BY <1>1 DEF Stuff
<1>3. u = [i \in 1 .. Len(p) |-> u[i]] BY <1>1 DEF Stuff
<1>4. \A i \in 1 .. Len(p) : u[i] \in Seq(Octet)
  BY <1>2, ElementOfSeq, StuffedType, ZenonT(30)
<1> HIDE DEF u
<1>6. u \in [1 .. Len(p) -> Seq(Octet)] BY <1>3, <1>4
<1>5. u \in Seq(Seq(Octet)) /\ Len(u) = Len(p) BY <1>1, <1>6, SeqOfFcn
<1> QED BY <1>2, <1>5 DEF u

\* An escaped message is bytes.
LEMMA BodyType == ASSUME NEW p \in Seq(Octet) PROVE Body(p) \in Seq(Octet)
BY StuffType, FlattenType DEF Body

\* Of nothing there is nothing to escape.
LEMMA BodyEmpty == Body(<< >>) = << >>
<1>1. << >> \in Seq(Octet) OBVIOUS
<1>2. Stuff(<< >>) \in Seq(Seq(Octet)) /\ Len(Stuff(<< >>)) = 0 BY <1>1, StuffType
<1>3. Stuff(<< >>) = << >> BY <1>2
<1> QED BY <1>3, FlattenEmpty DEF Body

\* A message is escaped byte by byte.
LEMMA BodyAppend ==
  ASSUME NEW p \in Seq(Octet), NEW e \in Octet
  PROVE  Body(Append(p, e)) = Body(p) \o Stuffed(e)
<1> DEFINE q == Append(p, e)
           n == Len(p)
           u == Stuff(q)
           v == Stuff(p)
<1>1. /\ q \in Seq(Octet) /\ Len(q) = n + 1 /\ n \in Nat /\ q[n + 1] = e
      /\ \A i \in 1 .. n : q[i] = p[i]
  BY AppendProperties, LenProperties
<1>2. v \in Seq(Seq(Octet)) /\ Len(v) = n /\ \A i \in 1 .. n : v[i] = Stuffed(p[i])
  BY StuffType
<1>3. u \in Seq(Seq(Octet)) /\ Len(u) = n + 1 /\ \A i \in 1 .. n + 1 : u[i] = Stuffed(q[i])
  <2> HIDE DEF q
  <2> QED BY <1>1, StuffType
<1>4. Stuffed(e) \in Seq(Octet) BY StuffedType
<1> HIDE DEF q, n, u, v
<1>5. u[n + 1] = Stuffed(e) /\ \A i \in 1 .. n : u[i] = v[i]
  <2>1. n + 1 \in 1 .. n + 1 /\ \A i \in 1 .. n : i \in 1 .. n + 1 BY <1>1
  <2> QED BY <1>1, <1>2, <1>3, <2>1
<1>6. u = Append(v, Stuffed(e)) BY <1>2, <1>3, <1>4, <1>5, AppendEqual
<1>7. FlattenSeq(u) = FlattenSeq(v) \o Stuffed(e) BY <1>2, <1>4, <1>6, FlattenAppend
<1> QED BY <1>7 DEF u, v, q, Body

\* After such bytes a receiver is between two frames, whatever it has made of them.
Closed(s) ==
  \/ s = << >>
  \/ Len(s) >= 2 /\ s[Len(s)] = END /\ s[Len(s) - 1] \notin {END, ESC}

\* A message that is not empty does not end like a separator.
LEMMA BodyEnd ==
  ASSUME NEW p \in Seq(Octet), p # << >>
  PROVE  Len(Body(p)) >= 1 /\ Body(p)[Len(Body(p))] \notin {END, ESC}
<1>1. PICK q \in Seq(Octet), e \in Octet : p = Append(q, e) BY SequenceEmptyOrAppend
<1> DEFINE b == Body(q)
           s == Stuffed(e)
           m == Len(b)
           k == Len(s)
<1>2. Body(p) = b \o s BY <1>1, BodyAppend
<1>3. b \in Seq(Octet) /\ m \in Nat BY BodyType, LenProperties
<1>4. s \in Seq(Octet) /\ k \in {1, 2} /\ s[k] \notin {END, ESC} BY StuffedType
<1>5. Len(b \o s) = m + k /\ \A i \in 1 .. m + k : (b \o s)[i] = IF i <= m THEN b[i] ELSE s[i - m]
  BY <1>3, <1>4, ConcatProperties
<1> HIDE DEF b, s, m, k
<1>6. m + k \in 1 .. m + k /\ ~(m + k <= m) /\ (m + k) - m = k BY <1>3, <1>4
<1>7. (b \o s)[m + k] = s[k] BY <1>5, <1>6
<1> QED BY <1>2, <1>4, <1>5, <1>6, <1>7

\* The parts of a frame.
LEMMA SlipParts ==
  ASSUME NEW p \in Seq(Octet)
  PROVE  /\ Slip(p) \in Seq(Octet) /\ Len(Slip(p)) = Len(Body(p)) + 2
         /\ Slip(p)[1] = END /\ Slip(p)[Len(Body(p)) + 2] = END
         /\ \A i \in 1 .. Len(Body(p)) : Slip(p)[1 + i] = Body(p)[i]
<1> DEFINE b == Body(p)
           m == Len(b)
           e == << END >>
           x == e \o b
           y == x \o e
<1>1. b \in Seq(Octet) /\ m \in Nat BY BodyType, LenProperties
<1>2. e \in Seq(Octet) /\ Len(e) = 1 /\ e[1] = END BY Marks
<1>3. Slip(p) = y BY SlipIs
<1> HIDE DEF b, m, e
<1>4. m = Len(b) BY DEF m
<1>5. /\ x \in Seq(Octet) /\ Len(x) = 1 + m
      /\ \A i \in 1 .. 1 + m : x[i] = IF i <= 1 THEN e[i] ELSE b[i - 1]
  <2>1. /\ x \in Seq(Octet) /\ Len(x) = Len(e) + Len(b)
        /\ \A i \in 1 .. Len(e) + Len(b) : x[i] = IF i <= Len(e) THEN e[i] ELSE b[i - Len(e)]
    BY <1>1, <1>2, ConcatProperties
  <2> HIDE DEF x
  <2> QED BY <2>1, <1>2, <1>4
<1> DEFINE n == 1 + m
<1>10. n = 1 + m OBVIOUS
<1> HIDE DEF x, n
<1>11. /\ y \in Seq(Octet) /\ Len(y) = n + 1
      /\ \A i \in 1 .. n + 1 : y[i] = IF i <= n THEN x[i] ELSE e[i - n]
  <2>1. n = Len(x) /\ 1 = Len(e) BY <1>2, <1>5, <1>10
  <2>2. /\ y \in Seq(Octet) /\ Len(y) = Len(x) + Len(e)
        /\ \A i \in 1 .. Len(x) + Len(e) : y[i] = IF i <= Len(x) THEN x[i] ELSE e[i - Len(x)]
    BY <1>2, <1>5, ConcatProperties
  <2> HIDE DEF y
  <2> QED BY <2>1, <2>2
<1> HIDE DEF y
<1>6. /\ y \in Seq(Octet) /\ Len(y) = m + 2
      /\ \A i \in 1 .. m + 2 : y[i] = IF i <= m + 1 THEN x[i] ELSE e[i - (m + 1)]
  BY <1>1, <1>10, <1>11
<1>7. y[1] = END BY <1>1, <1>2, <1>5, <1>6
<1>8. y[m + 2] = END
  <2>1. m + 2 \in 1 .. m + 2 /\ ~(m + 2 <= m + 1) /\ (m + 2) - (m + 1) = 1 BY <1>1
  <2> QED BY <1>2, <1>6, <2>1
<1>9. ASSUME NEW i \in 1 .. m PROVE y[1 + i] = b[i]
  <2>1. 1 + i \in 1 .. m + 2 /\ 1 + i \in 1 .. 1 + m /\ 1 + i <= m + 1 /\ ~(1 + i <= 1) /\ (1 + i) - 1 = i
    BY <1>1
  <2> QED BY <1>5, <1>6, <2>1
<1> QED BY <1>3, <1>6, <1>7, <1>8, <1>9 DEF b, m

\* What becomes of the bytes of a buffer behind the opening END.
Part(buf, k) == Undone(buf[First(buf) + k - 1], First(buf) + k - 1 \in Escaped(buf))
Parts(buf, n) == [k \in 1 .. n |-> Part(buf, k)]
Ends(buf) == { i \in (First(buf) .. Len(buf)) \ Escaped(buf) : buf[i] = END }
LastIn(buf) == IF Ends(buf) = {} THEN Len(buf) ELSE Min(Ends(buf)) - 1
Out(buf) == FlattenSeq(Parts(buf, LastIn(buf) - First(buf) + 1))

\* The decoder in these words.
LEMMA DecodeIs ==
  \A buf :
    /\ Decode(buf).parsed = IF Ends(buf) = {} THEN 0 ELSE LastIn(buf) + 1
    /\ Decode(buf).payload = IF First(buf) = 2 /\ Ends(buf) # {} THEN Out(buf) ELSE << >>
    /\ Decode(buf).buf = Out(buf) \o SubSeq(buf, Len(Out(buf)) + 1, Len(buf))
BY DEF Decode, Ends, LastIn, Out, Parts, Part

\* A byte gives one byte at most.
LEMMA UndoneType ==
  ASSUME NEW e \in Octet, NEW b
  PROVE  /\ Undone(e, b) \in Seq(Octet) /\ Len(Undone(e, b)) <= 1
         /\ ~b /\ e # ESC => Undone(e, b) = << e >>
         /\ ~b /\ e = ESC => Undone(e, b) = << >>
<1>1. << >> \in Seq(Octet) /\ Len(<< >>) <= 1 OBVIOUS
<1>2. ASSUME NEW x \in Octet PROVE << x >> \in Seq(Octet) /\ Len(<< x >>) = 1 OBVIOUS
<1>3. Unstuffed(e) \in {<< >>, << END >>, << ESC >>} BY DEF Unstuffed
<1>4. Undone(e, b) \in {<< >>, << END >>, << ESC >>, << e >>} BY <1>3 DEF Undone
<1>5. END \in Octet /\ ESC \in Octet BY Marks
<1>6. << END >> \in Seq(Octet) /\ Len(<< END >>) <= 1 BY <1>2, <1>5
<1>7. << ESC >> \in Seq(Octet) /\ Len(<< ESC >>) <= 1 BY <1>2, <1>5
<1>8. << e >> \in Seq(Octet) /\ Len(<< e >>) <= 1 BY <1>2
<1>9. Undone(e, b) \in Seq(Octet) /\ Len(Undone(e, b)) <= 1
  <2> DEFINE u == Undone(e, b)
  <2> HIDE DEF u
  <2>1. u = << >> \/ u = << END >> \/ u = << ESC >> \/ u = << e >> BY <1>4 DEF u
  <2>2. u \in Seq(Octet) /\ Len(u) <= 1 BY <1>1, <1>6, <1>7, <1>8, <2>1
  <2> QED BY <2>2 DEF u
<1> QED BY <1>9 DEF Undone

\* What stands for END and for ESC is taken for them.
LEMMA UnstuffedIs == Unstuffed(ENDReplace) = << END >> /\ Unstuffed(ESCReplace) = << ESC >>
BY Marks DEF Unstuffed

\* Every byte of a buffer gives one byte or none.
LEMMA PartsType ==
  ASSUME NEW buf \in Seq(Octet), NEW n \in Nat, First(buf) + n - 1 <= Len(buf)
  PROVE  /\ Parts(buf, n) \in Seq(Seq(Octet)) /\ Len(Parts(buf, n)) = n
         /\ \A k \in 1 .. n : Parts(buf, n)[k] = Part(buf, k) /\ Len(Part(buf, k)) <= 1
<1> DEFINE u == Parts(buf, n)
<1>1. \A k \in 1 .. n : u[k] = Part(buf, k) BY DEF Parts
<1>2. u = [k \in 1 .. n |-> u[k]] BY DEF Parts
<1>3. ASSUME NEW k \in 1 .. n PROVE Part(buf, k) \in Seq(Octet) /\ Len(Part(buf, k)) <= 1
  <2>1. First(buf) + k - 1 \in 1 .. Len(buf) BY FirstIs, LenProperties
  <2>2. buf[First(buf) + k - 1] \in Octet BY <2>1, ElementOfSeq
  <2> QED BY <2>2, UndoneType DEF Part
<1> HIDE DEF u
<1>4. u \in [1 .. n -> Seq(Octet)] BY <1>1, <1>2, <1>3
<1>5. u \in Seq(Seq(Octet)) /\ Len(u) = n BY <1>4, SeqOfFcn
<1> QED BY <1>1, <1>3, <1>5 DEF u

\* One more byte of the buffer is one more part.
LEMMA PartsAppend ==
  ASSUME NEW buf \in Seq(Octet), NEW n \in Nat, First(buf) + n <= Len(buf)
  PROVE  /\ Parts(buf, n + 1) = Append(Parts(buf, n), Part(buf, n + 1))
         /\ FlattenSeq(Parts(buf, n + 1)) = FlattenSeq(Parts(buf, n)) \o Part(buf, n + 1)
<1> DEFINE u == Parts(buf, n + 1)
           v == Parts(buf, n)
           e == Part(buf, n + 1)
<1>1. First(buf) + n - 1 <= Len(buf) /\ First(buf) + (n + 1) - 1 <= Len(buf) /\ n + 1 \in Nat
  BY FirstIs, LenProperties
<1>2. /\ v \in Seq(Seq(Octet)) /\ Len(v) = n
      /\ \A k \in 1 .. n : v[k] = Part(buf, k)
  BY <1>1, PartsType
<1>3. /\ u \in Seq(Seq(Octet)) /\ Len(u) = n + 1
      /\ \A k \in 1 .. n + 1 : u[k] = Part(buf, k)
  BY <1>1, PartsType
<1>4. n + 1 \in 1 .. n + 1 /\ \A k \in 1 .. n : k \in 1 .. n + 1 OBVIOUS
<1>5. u[n + 1] = e BY <1>3, <1>4
<1>6. e \in Seq(Octet) BY <1>3, <1>4, <1>5, ElementOfSeq
<1>7. \A k \in 1 .. n : u[k] = v[k] BY <1>2, <1>3, <1>4
<1> HIDE DEF u, v, e
<1>8. u = Append(v, e) BY <1>2, <1>3, <1>5, <1>6, <1>7, AppendEqual
<1>9. FlattenSeq(u) = FlattenSeq(v) \o e BY <1>2, <1>6, <1>8, FlattenAppend
<1> QED BY <1>8, <1>9 DEF u, v, e

\* A frame at the front of a buffer, as far as it goes.
Opens(buf, p) ==
  /\ Len(Body(p)) + 1 <= Len(buf) /\ buf[1] = END
  /\ \A i \in 1 .. Len(Body(p)) : buf[1 + i] = Body(p)[i]

\* It is read back.
Reads(buf, p) ==
  /\ \A i \in 1 .. Len(Body(p)) : buf[1 + i] # END
  /\ Len(Body(p)) + 2 <= Len(buf) => Len(Body(p)) + 2 \notin Escaped(buf)
  /\ FlattenSeq(Parts(buf, Len(Body(p)))) = p

\* Every message is read back from a buffer it is at the front of: by induction over
\* the message, with the receiver between two escapes after each byte of it.
LEMMA OpensReads ==
  ASSUME NEW buf \in Seq(Octet)
  PROVE  \A p \in Seq(Octet) : Opens(buf, p) => Reads(buf, p)
<1> DEFINE T == { p \in Seq(Octet) : Opens(buf, p) => Reads(buf, p) }
<1>0. Len(buf) \in Nat /\ (Len(buf) >= 1 <=> buf # << >>) BY EmptySeq
<1>1. << >> \in T
  <2>1. << >> \in Seq(Octet) /\ Len(<< >>) = 0 OBVIOUS
  <2> SUFFICES ASSUME Opens(buf, << >>) PROVE Reads(buf, << >>) BY <2>1
  <2>2. First(buf) = 2 BY <1>0, <2>1, FirstIs, BodyEmpty DEF Opens
  <2>3. 2 <= Len(buf) => 2 \notin Escaped(buf)
    <3>1. 2 <= Len(buf) => 2 \in 2 .. Len(buf) BY <1>0
    <3> QED BY <2>2, <3>1, EscapedIs
  <2>4. Parts(buf, 0) \in Seq(Seq(Octet)) /\ Len(Parts(buf, 0)) = 0
    <3>1. First(buf) + 0 - 1 <= Len(buf) BY <1>0, <2>1, <2>2, BodyEmpty DEF Opens
    <3> QED BY <3>1, PartsType
  <2>5. FlattenSeq(Parts(buf, 0)) = << >> BY <2>4, FlattenEmpty
  <2> QED BY <2>1, <2>3, <2>5, BodyEmpty DEF Reads
<1>2. ASSUME NEW p \in Seq(Octet), NEW e \in Octet, p \in T PROVE Append(p, e) \in T
  <2> DEFINE b == Body(p)
             m == Len(b)
             s == Stuffed(e)
             k == Len(s)
             c == Body(Append(p, e))
  <2>1. Append(p, e) \in Seq(Octet) BY AppendProperties
  <2> SUFFICES ASSUME Opens(buf, Append(p, e)) PROVE Reads(buf, Append(p, e))
    BY <2>1
  <2>2. c = b \o s /\ b \in Seq(Octet) /\ m \in Nat BY BodyAppend, BodyType, LenProperties
  <2>3. s \in Seq(Octet) /\ k \in {1, 2} BY StuffedType
  <2>4. Len(c) = m + k /\ \A i \in 1 .. m + k : c[i] = IF i <= m THEN b[i] ELSE s[i - m]
    <3>1. /\ Len(b \o s) = Len(b) + Len(s)
          /\ \A i \in 1 .. Len(b) + Len(s) : (b \o s)[i] = IF i <= Len(b) THEN b[i] ELSE s[i - Len(b)]
      BY <2>2, <2>3, ConcatProperties
    <3> HIDE DEF b, s, c
    <3> QED BY <2>2, <3>1
  <2>5. Opens(buf, Append(p, e)) => /\ m + k + 1 <= Len(buf) /\ buf[1] = END
                                    /\ \A i \in 1 .. m + k : buf[1 + i] = c[i]
    <3> HIDE DEF m, k
    <3> QED BY <2>4 DEF Opens
  <2> HIDE DEF b, s, k, c
  <2>6. m + k + 1 <= Len(buf) /\ buf[1] = END BY <2>5
  <2>7. \A i \in 1 .. m : buf[1 + i] = b[i]
    <3> HIDE DEF m
    <3>1. \A i \in 1 .. m : i \in 1 .. m + k BY <2>2, <2>3
    <3> QED BY <2>4, <2>5, <3>1
  <2>8. \A i \in 1 .. k : buf[1 + m + i] = s[i]
    <3> SUFFICES ASSUME NEW i \in 1 .. k PROVE buf[1 + m + i] = s[i] OBVIOUS
    <3> HIDE DEF m
    <3>1. m + i \in 1 .. m + k /\ ~(m + i <= m) /\ (m + i) - m = i /\ 1 + (m + i) = 1 + m + i
      BY <2>2, <2>3
    <3>2. buf[1 + (m + i)] = c[m + i] BY <2>5, <3>1
    <3>3. c[m + i] = s[i] BY <2>4, <3>1
    <3> QED BY <3>1, <3>2, <3>3
  <2>9. Reads(buf, p)
    <3>1. m + 1 <= Len(buf) BY <1>0, <2>2, <2>3, <2>6
    <3>2. Opens(buf, p) BY <2>6, <2>7, <3>1 DEF Opens, b
    <3> QED BY <1>2, <3>2
  <2>10. /\ \A i \in 1 .. m : buf[1 + i] # END
         /\ m + 2 <= Len(buf) => m + 2 \notin Escaped(buf)
         /\ FlattenSeq(Parts(buf, m)) = p
    BY <2>9 DEF Reads, b
  <2> HIDE DEF m
  <2>11. First(buf) = 2 BY <1>0, <2>2, <2>3, <2>6, FirstIs
  <2>12. m + 2 \in 2 .. Len(buf) /\ m + 2 \notin Escaped(buf) BY <1>0, <2>2, <2>3, <2>6, <2>10
  \* Another byte gives its part.
  <2>13. ASSUME NEW n \in Nat, n + 2 <= Len(buf)
         PROVE  /\ FlattenSeq(Parts(buf, n + 1))
                     = FlattenSeq(Parts(buf, n)) \o Undone(buf[n + 2], n + 2 \in Escaped(buf))
                /\ n + 3 <= Len(buf) => (n + 3 \in Escaped(buf) <=>
                     buf[n + 2] = ESC /\ n + 2 \notin Escaped(buf))
    <3>1. Part(buf, n + 1) = Undone(buf[n + 2], n + 2 \in Escaped(buf))
      <4>1. First(buf) + (n + 1) - 1 = n + 2 BY <2>11
      <4> QED BY <4>1 DEF Part
    <3>2. First(buf) + n <= Len(buf) BY <2>11, <2>13, <1>0
    <3>3. n + 3 <= Len(buf) => n + 3 \in 2 .. Len(buf) /\ n + 3 > 2 /\ (n + 3) - 1 = n + 2
      BY <1>0
    <3>4. n + 3 <= Len(buf) => (n + 3 \in Escaped(buf) <=>
                     buf[n + 2] = ESC /\ n + 2 \notin Escaped(buf))
      BY <2>11, <3>3, EscapedIs
    <3> QED BY <3>1, <3>2, <3>4, PartsAppend
  <2>14. CASE e \notin {END, ESC}
    <3>1. s = << e >> BY <2>14, StuffedIs DEF s
    <3>2. k = 1 /\ s[1] = e BY <3>1 DEF k
    <3>3. buf[m + 2] = e
      <4>1. 1 \in 1 .. k /\ 1 + m + 1 = m + 2 BY <3>2, <2>2
      <4> QED BY <2>8, <3>2, <4>1
    <3>4. FlattenSeq(Parts(buf, m + 1)) = p \o << e >>
      <4>1. Undone(buf[m + 2], m + 2 \in Escaped(buf)) = << e >>
        BY <2>12, <2>14, <3>3, UndoneType
      <4>2. m + 2 <= Len(buf) BY <2>12, <1>0
      <4> QED BY <2>2, <2>10, <2>13, <4>1, <4>2
    <3>5. m + 3 <= Len(buf) => m + 3 \notin Escaped(buf)
      <4>1. m + 2 <= Len(buf) BY <2>12, <1>0
      <4> QED BY <2>2, <2>13, <2>14, <3>3, <4>1
    <3>6. Append(p, e) = p \o << e >> OBVIOUS
    <3>7. \A i \in 1 .. m + 1 : buf[1 + i] # END
      <4>1. \A i \in 1 .. m + 1 : i \in 1 .. m \/ 1 + i = m + 2 BY <2>2
      <4> QED BY <2>10, <2>14, <3>3, <4>1
    <3>8. Len(c) = m + 1 /\ (m + 1) + 2 = m + 3 BY <2>2, <2>4, <3>2
    <3> QED BY <3>4, <3>5, <3>6, <3>7, <3>8 DEF Reads, c
  <2>15. ASSUME NEW x \in {ENDReplace, ESCReplace}, s = << ESC, x >>, Unstuffed(x) = << e >>
         PROVE  Reads(buf, Append(p, e))
    <3>0. k = 2 /\ s[1] = ESC /\ s[2] = x BY <2>15 DEF k
    <3>1. buf[m + 2] = ESC /\ buf[m + 3] = x /\ m + 3 <= Len(buf)
      <4>1. 1 \in 1 .. k /\ 2 \in 1 .. k /\ 1 + m + 1 = m + 2 /\ 1 + m + 2 = m + 3 /\ m + k + 1 = m + 3
        BY <3>0, <2>2
      <4> QED BY <2>6, <2>8, <3>0, <4>1
    <3>2. m + 3 \in Escaped(buf)
      <4>1. m + 2 <= Len(buf) BY <2>12, <1>0
      <4> QED BY <2>2, <2>12, <2>13, <3>1, <4>1
    <3>3. FlattenSeq(Parts(buf, m + 1)) = p
      <4>1. Undone(buf[m + 2], m + 2 \in Escaped(buf)) = << >>
        BY <2>12, <3>1 DEF Undone
      <4>2. m + 2 <= Len(buf) BY <2>12, <1>0
      <4>3. p \o << >> = p BY ConcatEmptySeq
      <4> QED BY <2>2, <2>10, <2>13, <4>1, <4>2, <4>3
    <3>4. /\ FlattenSeq(Parts(buf, m + 2)) = p \o << e >>
          /\ m + 4 <= Len(buf) => m + 4 \notin Escaped(buf)
      <4> DEFINE n == m + 1
      <4>1. n \in Nat /\ n + 2 = m + 3 /\ n + 1 = m + 2 /\ n + 3 = m + 4 BY <2>2
      <4>2. Undone(buf[m + 3], m + 3 \in Escaped(buf)) = << e >>
        BY <2>15, <3>1, <3>2 DEF Undone
      <4> HIDE DEF n
      <4>3. /\ FlattenSeq(Parts(buf, n + 1))
                     = FlattenSeq(Parts(buf, n)) \o Undone(buf[n + 2], n + 2 \in Escaped(buf))
            /\ n + 3 <= Len(buf) => (n + 3 \in Escaped(buf) <=>
                     buf[n + 2] = ESC /\ n + 2 \notin Escaped(buf))
        BY <2>13, <3>1, <4>1
      <4> QED BY <3>2, <3>3, <4>1, <4>2, <4>3 DEF n
    <3>5. Append(p, e) = p \o << e >> OBVIOUS
    <3>6. \A i \in 1 .. m + 2 : buf[1 + i] # END
      <4>1. \A i \in 1 .. m + 2 : i \in 1 .. m \/ 1 + i = m + 2 \/ 1 + i = m + 3 BY <2>2
      <4>2. x # END /\ ESC # END BY Marks
      <4> QED BY <2>10, <3>1, <4>1, <4>2
    <3>7. Len(c) = m + 2 /\ (m + 2) + 2 = m + 4 BY <2>2, <2>4, <3>0
    <3> QED BY <3>4, <3>5, <3>6, <3>7 DEF Reads, c
  <2>16. CASE e = END BY <2>15, <2>16, StuffedIs, UnstuffedIs, Marks DEF s
  <2>17. CASE e = ESC BY <2>15, <2>17, StuffedIs, UnstuffedIs, Marks DEF s
  <2> QED BY <2>14, <2>16, <2>17
<1>3. Seq(Octet) \subseteq T
  <2> HIDE DEF T
  <2> QED BY <1>1, <1>2, SequenceInduction
<1> QED BY <1>3

\* The least of some numbers.
LEMMA MinIs ==
  ASSUME NEW S \in SUBSET Nat, S # {}
  PROVE  Min(S) \in S /\ \A y \in S : Min(S) <= y
<1> DEFINE Less == OpToRel(<, Nat)
<1>1. \E x \in S : \A y \in S : << y, x >> \notin Less
  <2>1. IsWellFoundedOn(Less, Nat) BY NatLessThanWellFounded
  <2> HIDE DEF Less
  <2> QED BY <2>1, WFMin
<1>2. PICK x \in S : \A y \in S : << y, x >> \notin Less BY <1>1
<1>3. ASSUME NEW y \in S PROVE x <= y
  <2>1. y \in Nat /\ x \in Nat OBVIOUS
  <2>2. y < x => << y, x >> \in Less BY <2>1 DEF OpToRel
  <2> HIDE DEF Less
  <2> QED BY <1>2, <2>1, <2>2
<1>4. \E z \in S : \A y \in S : z <= y BY <1>3
<1> QED BY <1>4 DEF Min

\* The greatest of some numbers up to n.
LEMMA MaxIs ==
  ASSUME NEW n \in Nat, NEW S \in SUBSET (0 .. n), S # {}
  PROVE  Max(S) \in S /\ \A y \in S : y <= Max(S)
<1> DEFINE T == { n - x : x \in S }
<1>1. T \in SUBSET Nat /\ T # {}
  <2>1. ASSUME NEW x \in S PROVE n - x \in Nat OBVIOUS
  <2> QED BY <2>1
<1>2. Min(T) \in T /\ \A y \in T : Min(T) <= y
  <2> HIDE DEF T
  <2> QED BY <1>1, MinIs
<1>3. PICK x \in S : Min(T) = n - x BY <1>2
<1>4. ASSUME NEW y \in S PROVE x >= y
  <2>1. n - x <= n - y BY <1>2, <1>3
  <2> QED BY <2>1
<1>5. \E z \in S : \A y \in S : z >= y BY <1>4
<1>6. Max(S) \in S /\ \A y \in S : Max(S) >= y BY <1>5 DEF Max
<1>7. Max(S) \in Nat /\ \A y \in S : y \in Nat
  <2>1. \A y \in 0 .. n : y \in Nat OBVIOUS
  <2> QED BY <1>6, <2>1
<1> QED BY <1>6, <1>7

\* Nothing is decoded of nothing.
LEMMA DecodeNothing == Decode(<< >>).parsed = 0 /\ Decode(<< >>).payload = << >>
<1>1. << >> \in Seq(Octet) /\ Len(<< >>) = 0 OBVIOUS
<1>2. First(<< >>) = 1 BY FirstIs
<1>3. Ends(<< >>) = {} BY <1>1, <1>2 DEF Ends
<1> QED BY <1>3, DecodeIs

\* Where a buffer is parsed to.
LEMMA ParsedIs ==
  ASSUME NEW buf \in Seq(Octet)
  PROVE  /\ Decode(buf).parsed \in 0 .. Len(buf)
         /\ Decode(buf).parsed = 0 <=> Ends(buf) = {}
         /\ Decode(buf).parsed # 0 => /\ Decode(buf).parsed \in Ends(buf)
                                      /\ \A i \in Ends(buf) : Decode(buf).parsed <= i
<1>1. Ends(buf) \subseteq 1 .. Len(buf) BY FirstIs, LenProperties DEF Ends
<1>2. Len(buf) \in Nat BY LenProperties
<1>3. CASE Ends(buf) = {} BY <1>2, <1>3, DecodeIs
<1>4. CASE Ends(buf) # {}
  <2>1. Ends(buf) \in SUBSET Nat BY <1>1
  <2>2. Min(Ends(buf)) \in Ends(buf) /\ \A i \in Ends(buf) : Min(Ends(buf)) <= i
    BY <2>1, <1>4, MinIs
  <2>3. LastIn(buf) = Min(Ends(buf)) - 1 BY <1>4 DEF LastIn
  <2>4. Decode(buf).parsed = LastIn(buf) + 1 BY <1>4, DecodeIs
  <2>5. Min(Ends(buf)) \in Nat BY <2>1, <2>2
  <2>6. Decode(buf).parsed = Min(Ends(buf)) BY <2>3, <2>4, <2>5
  <2>7. Min(Ends(buf)) \in 1 .. Len(buf) BY <1>1, <2>2
  <2> QED BY <1>2, <1>4, <2>2, <2>6, <2>7
<1> QED BY <1>3, <1>4

\* What is decoded of a buffer is not longer than what it is decoded of.
LEMMA OutIs ==
  ASSUME NEW buf \in Seq(Octet)
  PROVE  /\ LastIn(buf) \in 0 .. Len(buf) /\ LastIn(buf) - First(buf) + 1 \in Nat
         /\ First(buf) + (LastIn(buf) - First(buf) + 1) - 1 <= Len(buf)
         /\ Out(buf) \in Seq(Octet) /\ Len(Out(buf)) \in Nat
         /\ Len(Out(buf)) <= LastIn(buf) - First(buf) + 1
         /\ (\E k \in 1 .. LastIn(buf) - First(buf) + 1 : Part(buf, k) = << >>) =>
              Len(Out(buf)) < LastIn(buf) - First(buf) + 1
<1> DEFINE n == LastIn(buf) - First(buf) + 1
           u == Parts(buf, n)
<1>1. LastIn(buf) \in 0 .. Len(buf) /\ n \in Nat
  <2>1. Len(buf) \in Nat /\ (buf # << >> => Len(buf) >= 1) BY EmptySeq
  <2>2. First(buf) \in {1, 2} /\ First(buf) <= Len(buf) + 1 BY <2>1, FirstIs
  <2>3. CASE Ends(buf) = {}
    <3>1. LastIn(buf) = Len(buf) BY <2>3 DEF LastIn
    <3> QED BY <2>1, <2>2, <3>1
  <2>4. CASE Ends(buf) # {}
    <3>1. Ends(buf) \in SUBSET Nat /\ Ends(buf) \subseteq First(buf) .. Len(buf)
      BY <2>1, <2>2 DEF Ends
    <3>2. Min(Ends(buf)) \in First(buf) .. Len(buf) BY <2>4, <3>1, MinIs
    <3>3. LastIn(buf) = Min(Ends(buf)) - 1 BY <2>4 DEF LastIn
    <3> QED BY <2>1, <2>2, <3>2, <3>3
  <2> QED BY <2>3, <2>4
<1>2. First(buf) + n - 1 <= Len(buf)
  <2>1. Len(buf) \in Nat /\ First(buf) \in {1, 2} BY LenProperties, FirstIs
  <2> QED BY <1>1, <2>1
<1>3. Out(buf) = FlattenSeq(u) BY DEF Out
<1> HIDE DEF n
<1>4. /\ u \in Seq(Seq(Octet)) /\ Len(u) = n
      /\ \A k \in 1 .. n : u[k] = Part(buf, k) /\ Len(Part(buf, k)) <= 1
  BY <1>1, <1>2, PartsType
<1> HIDE DEF u
<1>5. \A i \in 1 .. Len(u) : Len(u[i]) <= 1 BY <1>4
<1>6. /\ Len(FlattenSeq(u)) <= Len(u)
      /\ (\E i \in 1 .. Len(u) : u[i] = << >>) => Len(FlattenSeq(u)) < Len(u)
  BY <1>4, <1>5, FlattenLen
<1>7. FlattenSeq(u) \in Seq(Octet) /\ Len(FlattenSeq(u)) \in Nat
  BY <1>4, FlattenType, LenProperties
<1>8. (\E k \in 1 .. n : Part(buf, k) = << >>) => Len(Out(buf)) < n
  BY <1>3, <1>4, <1>6
<1>9. Len(Out(buf)) <= n BY <1>3, <1>4, <1>6
<1> QED BY <1>1, <1>2, <1>3, <1>7, <1>8, <1>9 DEF n

\* The output is written over the front of the buffer.
LEMMA BufIs ==
  ASSUME NEW buf \in Seq(Octet)
  PROVE  /\ Decode(buf).payload \in Seq(Octet)
         /\ Decode(buf).buf \in Seq(Octet) /\ Len(Decode(buf).buf) = Len(buf)
         /\ \A i \in 1 .. Len(buf) :
              Decode(buf).buf[i] = IF i <= Len(Out(buf)) THEN Out(buf)[i] ELSE buf[i]
<1> DEFINE o == Out(buf)
           k == Len(o)
           n == Len(buf)
           t == SubSeq(buf, k + 1, n)
           d == Decode(buf).buf
<1>1. o \in Seq(Octet) /\ k \in Nat /\ n \in Nat /\ k <= n
  <2>1. First(buf) \in {1, 2} BY FirstIs
  <2> QED BY <2>1, OutIs, LenProperties
<1>2. d = o \o t BY DecodeIs
<1>3. /\ t \in Seq(Octet) /\ Len(t) = n - k
      /\ \A i \in 1 .. n - k : t[i] = buf[k + i]
  <2>1. k + 1 \in 1 .. Len(buf) + 1 /\ n \in 0 .. Len(buf) BY <1>1
  <2>2. /\ t \in Seq(Octet) /\ Len(t) = IF k + 1 <= n THEN n - (k + 1) + 1 ELSE 0
        /\ \A i \in 1 .. n - (k + 1) + 1 : t[i] = buf[(k + 1) + i - 1]
    BY <2>1, SubSeqType
  <2> HIDE DEF t, k, n
  <2>3. n - (k + 1) + 1 = n - k /\ \A i \in Int : (k + 1) + i - 1 = k + i BY <1>1
  <2>4. Len(t) = n - k BY <1>1, <2>2
  <2>5. ASSUME NEW i \in 1 .. n - k PROVE t[i] = buf[k + i]
    <3>1. i \in 1 .. n - (k + 1) + 1 /\ i \in Int BY <2>3, <1>1
    <3> QED BY <2>2, <2>3, <3>1
  <2> QED BY <2>2, <2>4, <2>5
<1>4. Decode(buf).payload \in Seq(Octet)
  <2>1. << >> \in Seq(Octet) OBVIOUS
  <2> QED BY <1>1, <2>1, DecodeIs
<1> HIDE DEF o, t, d
<1>5. /\ o \o t \in Seq(Octet) /\ Len(o \o t) = Len(o) + Len(t)
      /\ \A i \in 1 .. Len(o) + Len(t) : (o \o t)[i] = IF i <= Len(o) THEN o[i] ELSE t[i - Len(o)]
  BY <1>1, <1>3, ConcatProperties
<1> HIDE DEF n
<1>6. Len(o) + Len(t) = n BY <1>1, <1>3
<1>7. ASSUME NEW i \in 1 .. n PROVE d[i] = IF i <= k THEN o[i] ELSE buf[i]
  <2> HIDE DEF k
  <2>1. ~(i <= k) => i - k \in 1 .. n - k /\ k + (i - k) = i BY <1>1
  <2>2. d[i] = IF i <= k THEN o[i] ELSE t[i - k] BY <1>2, <1>5, <1>6 DEF k
  <2> QED BY <1>3, <2>1, <2>2
<1> QED BY <1>2, <1>4, <1>5, <1>6, <1>7 DEF d, o, n

\* A part of a sequence behind a place.
LEMMA RestIs ==
  ASSUME NEW S, NEW s \in Seq(S), NEW n \in 0 .. Len(s)
  PROVE  /\ SubSeq(s, n + 1, Len(s)) \in Seq(S) /\ Len(SubSeq(s, n + 1, Len(s))) = Len(s) - n
         /\ \A i \in 1 .. Len(s) - n : SubSeq(s, n + 1, Len(s))[i] = s[n + i]
<1> DEFINE k == Len(s)
           t == SubSeq(s, n + 1, k)
<1>1. k \in Nat /\ n + 1 \in 1 .. Len(s) + 1 /\ k \in 0 .. Len(s) BY LenProperties
<1>2. /\ t \in Seq(S) /\ Len(t) = IF n + 1 <= k THEN k - (n + 1) + 1 ELSE 0
      /\ \A i \in 1 .. k - (n + 1) + 1 : t[i] = s[(n + 1) + i - 1]
  BY <1>1, SubSeqType
<1>3. n \in 0 .. k OBVIOUS
<1> HIDE DEF t, k
<1>4. k - (n + 1) + 1 = k - n /\ \A i \in Int : (n + 1) + i - 1 = n + i BY <1>1
<1>5. Len(t) = k - n BY <1>1, <1>2, <1>3
<1>6. ASSUME NEW i \in 1 .. k - n PROVE t[i] = s[n + i]
  <2>1. i \in 1 .. k - (n + 1) + 1 /\ i \in Int BY <1>4, <1>1
  <2> QED BY <1>2, <1>4, <2>1
<1> QED BY <1>2, <1>5, <1>6 DEF t, k

\* A sequence is its front and its rest.
LEMMA Halves ==
  ASSUME NEW S, NEW s \in Seq(S), NEW n \in 0 .. Len(s)
  PROVE  SubSeq(s, 1, n) \o SubSeq(s, n + 1, Len(s)) = s
<1> DEFINE a == SubSeq(s, 1, n)
           b == SubSeq(s, n + 1, Len(s))
           c == a \o b
<1>1. a \in Seq(S) /\ Len(a) = n /\ \A i \in 1 .. n : a[i] = s[i] BY PrefixIs
<1>2. b \in Seq(S) /\ Len(b) = Len(s) - n /\ \A i \in 1 .. Len(s) - n : b[i] = s[n + i] BY RestIs
<1>3. Len(s) \in Nat BY LenProperties
<1> HIDE DEF a, b
<1>4. /\ c \in Seq(S) /\ Len(c) = Len(a) + Len(b)
      /\ \A i \in 1 .. Len(a) + Len(b) : c[i] = IF i <= Len(a) THEN a[i] ELSE b[i - Len(a)]
  BY <1>1, <1>2, ConcatProperties
<1> HIDE DEF c
<1>5. Len(c) = Len(s) BY <1>1, <1>2, <1>3, <1>4
<1>6. ASSUME NEW i \in 1 .. Len(c) PROVE c[i] = s[i]
  <2>1. CASE i <= n
    <3>1. i \in 1 .. n /\ i \in 1 .. Len(a) + Len(b) BY <2>1, <1>3, <1>4, <1>5
    <3> QED BY <1>1, <1>4, <3>1, <2>1
  <2>2. CASE ~(i <= n)
    <3>1. i - n \in 1 .. Len(s) - n /\ n + (i - n) = i BY <2>2, <1>3, <1>5
    <3>2. c[i] = b[i - n] BY <1>1, <1>4, <2>2
    <3> QED BY <1>2, <3>1, <3>2
  <2> QED BY <2>1, <2>2
<1>7. c = s BY <1>4, <1>5, <1>6, SeqEqual
<1> QED BY <1>7 DEF c, a, b

\* What is behind a place in the first of two parts.
LEMMA CutConcat ==
  ASSUME NEW S, NEW u \in Seq(S), NEW v \in Seq(S), NEW e \in 0 .. Len(u)
  PROVE  /\ u \o v \in Seq(S) /\ Len(u \o v) = Len(u) + Len(v)
         /\ SubSeq(u \o v, e + 1, Len(u \o v)) = SubSeq(u, e + 1, Len(u)) \o v
<1> DEFINE a == SubSeq(u, 1, e)
           b == SubSeq(u, e + 1, Len(u))
           y == b \o v
<1>1. a \in Seq(S) /\ Len(a) = e BY PrefixIs
<1>2. b \in Seq(S) BY RestIs
<1>3. a \o b = u BY Halves
<1>4. y \in Seq(S) /\ u \o v \in Seq(S) /\ Len(u \o v) = Len(u) + Len(v)
  BY <1>2, ConcatProperties
<1> HIDE DEF a, b
<1>5. u \o v = a \o y
  <2>1. (a \o b) \o v = a \o (b \o v) BY <1>1, <1>2, Associative, SMTT(30)
  <2> QED BY <1>3, <2>1
<1> HIDE DEF y
<1>6. Len(a \o y) = Len(a) + Len(y) BY <1>1, <1>4, ConcatProperties
<1>7. SubSeq(a \o y, Len(a) + 1, Len(a) + Len(y)) = y BY <1>1, <1>4, ConcatParts
<1>8. SubSeq(u \o v, e + 1, Len(u \o v)) = y BY <1>1, <1>5, <1>6, <1>7
<1> QED BY <1>4, <1>8 DEF y, b

-----------------------------------------------------------------------------
\* lv2_osc_slip_decode_inline gives back the message that lv2_osc_slip_encode_inline has
\* put at the front of the buffer (stream.h 685-732 and 735-779), whatever its bytes are
\* and whatever is behind it, and stops at the byte behind the frame.
THEOREM RoundTrip ==
  ASSUME NEW p \in Seq(Octet), NEW w \in Seq(Octet)
  PROVE  LET d == Decode(Slip(p) \o w)
         IN  /\ d.payload = p /\ d.parsed = Len(Slip(p))
             /\ SubSeq(Slip(p) \o w, d.parsed + 1, Len(Slip(p) \o w)) = w
<1> DEFINE b == Body(p)
           m == Len(b)
           s == Slip(p)
           buf == s \o w
<1>1. b \in Seq(Octet) /\ m \in Nat /\ Len(w) \in Nat BY BodyType, LenProperties
<1>2. /\ s \in Seq(Octet) /\ Len(s) = m + 2 /\ s[1] = END /\ s[m + 2] = END
      /\ \A i \in 1 .. m : s[1 + i] = b[i]
  BY SlipParts
<1> HIDE DEF s, b
<1>3. /\ buf \in Seq(Octet) /\ Len(buf) = Len(s) + Len(w)
      /\ \A i \in 1 .. Len(s) + Len(w) : buf[i] = IF i <= Len(s) THEN s[i] ELSE w[i - Len(s)]
  BY <1>1, <1>2, ConcatProperties
<1>4. SubSeq(s \o w, Len(s) + 1, Len(s) + Len(w)) = w BY <1>2, ConcatParts
<1>5. SubSeq(buf, Len(s) + 1, Len(buf)) = w BY <1>3, <1>4
<1> HIDE DEF buf, m
<1>6. Len(buf) = m + 2 + Len(w) /\ m + 2 <= Len(buf) /\ Len(buf) \in Nat BY <1>1, <1>2, <1>3
<1>7. \A i \in 1 .. m + 2 : buf[i] = s[i] BY <1>1, <1>2, <1>3
<1>8. buf[1] = END /\ buf[m + 2] = END BY <1>1, <1>2, <1>7
<1>9. \A i \in 1 .. m : buf[1 + i] = b[i]
  <2>1. \A i \in 1 .. m : 1 + i \in 1 .. m + 2 BY <1>1
  <2> QED BY <1>2, <1>7, <2>1
<1>10. Opens(buf, p) BY <1>1, <1>6, <1>8, <1>9 DEF Opens, m, b
<1>11. Reads(buf, p) BY <1>3, <1>10, OpensReads
<1>12. /\ \A i \in 1 .. m : buf[1 + i] # END
       /\ m + 2 \notin Escaped(buf) /\ FlattenSeq(Parts(buf, m)) = p
  BY <1>6, <1>11 DEF Reads, m, b
<1>13. First(buf) = 2
  <2>1. buf # << >> BY <1>1, <1>3, <1>6, EmptySeq
  <2> QED BY <2>1, <1>8, FirstIs
<1>14. m + 2 \in Ends(buf) BY <1>1, <1>6, <1>8, <1>12, <1>13 DEF Ends
<1>15. ASSUME NEW i \in Ends(buf) PROVE m + 2 <= i
  <2>1. i \in 2 .. Len(buf) /\ buf[i] = END BY <1>13 DEF Ends
  <2>2. i < m + 2 => i - 1 \in 1 .. m /\ 1 + (i - 1) = i BY <2>1, <1>1, <1>6
  <2>3. i < m + 2 => buf[i] # END BY <2>2, <1>12
  <2> QED BY <2>1, <2>3, <1>1, <1>6
<1>16. Decode(buf).parsed \in Ends(buf) /\ \A i \in Ends(buf) : Decode(buf).parsed <= i
  BY <1>3, <1>14, ParsedIs
<1>17. Decode(buf).parsed = m + 2
  <2>1. Decode(buf).parsed <= m + 2 /\ m + 2 <= Decode(buf).parsed BY <1>14, <1>15, <1>16
  <2>2. Decode(buf).parsed \in 0 .. Len(buf) BY <1>3, ParsedIs
  <2> QED BY <1>1, <1>6, <2>1, <2>2
<1>18. LastIn(buf) = m + 1
  <2>1. Decode(buf).parsed = LastIn(buf) + 1 BY <1>14, DecodeIs
  <2>2. LastIn(buf) \in 0 .. Len(buf) BY <1>3, OutIs
  <2> QED BY <1>1, <1>6, <1>17, <2>1, <2>2
<1>19. Out(buf) = p
  <2>1. LastIn(buf) - First(buf) + 1 = m BY <1>1, <1>13, <1>18
  <2> QED BY <1>12, <2>1 DEF Out
<1>20. Decode(buf).payload = p BY <1>13, <1>14, <1>19, DecodeIs
<1>21. Decode(buf).parsed = Len(s) BY <1>2, <1>17
<1> QED BY <1>5, <1>20, <1>21 DEF buf, s

-----------------------------------------------------------------------------
(***************************************************************************)
(* Where a receiver finds frames again: between two frames is where an END *)
(* comes behind a byte of the frame before, whatever was received of it.   *)
(***************************************************************************)

\* The last bytes of two parts.
LEMMA ConcatLast ==
  ASSUME NEW u \in Seq(Octet), NEW v \in Seq(Octet)
  PROVE  /\ u \o v \in Seq(Octet) /\ Len(u \o v) = Len(u) + Len(v)
         /\ Len(u) \in Nat /\ Len(v) \in Nat
         /\ \A i \in 1 .. Len(u) : (u \o v)[i] = u[i]
         /\ \A i \in 1 .. Len(v) : (u \o v)[Len(u) + i] = v[i]
<1> DEFINE c == u \o v
           m == Len(u)
           n == Len(v)
<1>1. /\ c \in Seq(Octet) /\ Len(c) = m + n
      /\ \A i \in 1 .. m + n : c[i] = IF i <= m THEN u[i] ELSE v[i - m]
  BY ConcatProperties
<1>2. m \in Nat /\ n \in Nat BY LenProperties
<1> HIDE DEF c, m, n
<1>3. \A i \in 1 .. m : c[i] = u[i] BY <1>1, <1>2
<1>4. ASSUME NEW i \in 1 .. n PROVE c[m + i] = v[i]
  <2>1. m + i \in 1 .. m + n /\ ~(m + i <= m) /\ (m + i) - m = i BY <1>2
  <2> QED BY <1>1, <2>1
<1> QED BY <1>1, <1>2, <1>3, <1>4 DEF c, m, n

\* Bytes with a whole frame behind them.
LEMMA ClosedSlip ==
  ASSUME NEW u \in Seq(Octet), NEW p \in Seq(Octet), p # << >>
  PROVE  Closed(u \o Slip(p))
<1> DEFINE m == Len(Body(p))
           s == Slip(p)
           k == Len(u)
           c == u \o s
<1>1. m \in Nat /\ m >= 1 /\ Body(p)[m] \notin {END, ESC} BY BodyType, BodyEnd, LenProperties
<1>2. /\ s \in Seq(Octet) /\ Len(s) = m + 2 /\ s[m + 2] = END
      /\ \A i \in 1 .. m : s[1 + i] = Body(p)[i]
  BY SlipParts
<1> HIDE DEF m, s
<1>3. /\ Len(c) = k + Len(s) /\ k \in Nat /\ \A i \in 1 .. Len(s) : c[k + i] = s[i]
  BY <1>2, ConcatLast
<1> HIDE DEF k, c
<1>4. m + 2 \in 1 .. Len(s) /\ m + 1 \in 1 .. Len(s) /\ m \in 1 .. m /\ 1 + m = m + 1
  BY <1>1, <1>2
<1>5. c[k + (m + 2)] = END BY <1>2, <1>3, <1>4
<1>6. c[k + (m + 1)] \notin {END, ESC} BY <1>1, <1>2, <1>3, <1>4
<1>7. Len(c) = k + (m + 2) /\ Len(c) - 1 = k + (m + 1) /\ Len(c) >= 2 BY <1>1, <1>2, <1>3
<1> QED BY <1>5, <1>6, <1>7 DEF Closed, c, s

\* Behind an END they are still between two frames.
LEMMA ClosedCut ==
  ASSUME NEW u \in Seq(Octet), Closed(u), NEW n \in 1 .. Len(u), u[n] = END
  PROVE  Closed(SubSeq(u, n + 1, Len(u)))
<1> DEFINE k == Len(u)
           v == SubSeq(u, n + 1, k)
<1>1. k \in Nat BY LenProperties
<1>2. v \in Seq(Octet) /\ Len(v) = k - n /\ \A i \in 1 .. k - n : v[i] = u[n + i]
  <2>1. n \in 0 .. Len(u) BY <1>1
  <2> QED BY <2>1, RestIs
<1>3. u # << >> BY <1>1, EmptySeq
<1>4. k >= 2 /\ u[k] = END /\ u[k - 1] \notin {END, ESC} BY <1>3 DEF Closed
<1> HIDE DEF v, k
<1>5. n \in 1 .. k BY DEF k
<1>6. CASE n = k
  <2>1. Len(v) = 0 BY <1>1, <1>2, <1>6
  <2> QED BY <1>2, <2>1, EmptySeq DEF Closed, v, k
<1>7. CASE n # k
  <2>1. n # k - 1 BY <1>4
  <2>2. n <= k - 2 BY <1>1, <1>5, <1>7, <2>1
  <2>3. k - n \in 1 .. k - n /\ k - n - 1 \in 1 .. k - n /\ n + (k - n) = k /\ n + (k - n - 1) = k - 1
    BY <1>1, <1>5, <2>2
  <2>4. Len(v) >= 2 /\ v[Len(v)] = END /\ v[Len(v) - 1] \notin {END, ESC}
    BY <1>1, <1>2, <1>4, <1>5, <2>2, <2>3
  <2> QED BY <2>4 DEF Closed, v, k
<1> QED BY <1>6, <1>7

\* A buffer that begins with such bytes is parsed, and not beyond them.
LEMMA ClosedEnds ==
  ASSUME NEW u \in Seq(Octet), NEW v \in Seq(Octet), Closed(u), u # << >>
  PROVE  Decode(u \o v).parsed \in 1 .. Len(u) /\ u[Decode(u \o v).parsed] = END
<1> DEFINE buf == u \o v
           k == Len(u)
           n == Decode(buf).parsed
<1>1. /\ buf \in Seq(Octet) /\ k \in Nat /\ Len(buf) \in Nat /\ Len(buf) >= k
      /\ \A i \in 1 .. k : buf[i] = u[i]
  BY ConcatLast
<1>2. k >= 2 /\ u[k] = END /\ u[k - 1] \notin {END, ESC} BY DEF Closed
<1> HIDE DEF buf, k
<1>3. k - 1 \in 1 .. k /\ k \in 1 .. k BY <1>1, <1>2
<1>4. buf[k] = END /\ buf[k - 1] # ESC BY <1>1, <1>2, <1>3
<1>5. First(buf) \in {1, 2} BY FirstIs
<1>6. k \in First(buf) .. Len(buf) BY <1>1, <1>2, <1>5
<1>7. k \notin Escaped(buf) BY <1>1, <1>4, <1>6, EscapedIs
<1>8. k \in Ends(buf) BY <1>4, <1>6, <1>7 DEF Ends
<1>9. n \in Ends(buf) /\ n <= k BY <1>1, <1>8, ParsedIs
<1>10. n \in First(buf) .. Len(buf) /\ buf[n] = END BY <1>9 DEF Ends
<1> HIDE DEF n
<1>11. n \in 1 .. k BY <1>1, <1>5, <1>9, <1>10
<1>12. u[n] = END BY <1>1, <1>10, <1>11
<1> QED BY <1>11, <1>12 DEF n, k, buf

\* A byte that is not an ESC stays where it is at the end, when nothing is parsed.
LEMMA LastStays ==
  ASSUME NEW buf \in Seq(Octet), buf # << >>, buf[Len(buf)] # ESC, Decode(buf).parsed = 0
  PROVE  Decode(buf).buf[Len(buf)] = buf[Len(buf)]
<1> DEFINE n == Len(buf)
           o == Out(buf)
           d == Decode(buf).buf
<1>1. n \in Nat /\ n >= 1 BY EmptySeq
<1>2. d[n] = IF n <= Len(o) THEN o[n] ELSE buf[n] BY <1>1, BufIs
<1>3. CASE ~(n <= Len(o)) BY <1>2, <1>3
<1>4. CASE n <= Len(o)
  <2>1. LastIn(buf) = n
    <3>1. Ends(buf) = {} BY ParsedIs
    <3> QED BY <3>1 DEF LastIn
  <2>2. First(buf) = 1
    <3>1. Len(o) \in Nat /\ Len(o) <= LastIn(buf) - First(buf) + 1 BY OutIs
    <3> HIDE DEF o, n
    <3> QED BY <1>1, <1>4, <2>1, <3>1, FirstIs
  <2>3. LastIn(buf) - First(buf) + 1 = n BY <1>1, <2>1, <2>2
  <2>4. \A k \in 1 .. n : Part(buf, k) # << >>
    <3>1. Len(o) \in Nat /\ ((\E k \in 1 .. n : Part(buf, k) = << >>) => Len(o) < n)
      BY <2>3, OutIs
    <3> HIDE DEF o, n
    <3> QED BY <1>1, <1>4, <3>1
  <2>5. \A k \in 1 .. n : Part(buf, k) = Undone(buf[k], k \in Escaped(buf))
    <3>1. \A k \in 1 .. n : First(buf) + k - 1 = k BY <2>2
    <3> QED BY <3>1 DEF Part
  <2>6. n \notin Escaped(buf)
    <3>1. SUFFICES ASSUME n \in Escaped(buf) PROVE FALSE OBVIOUS
    <3>2. n \in 1 .. n BY <1>1
    <3>3. n > 1 /\ buf[n - 1] = ESC /\ n - 1 \notin Escaped(buf)
      BY <2>2, <3>1, <3>2, EscapedIs
    <3>4. n - 1 \in 1 .. n BY <1>1, <3>3
    <3>5. Part(buf, n - 1) = << >> BY <2>5, <3>3, <3>4 DEF Undone
    <3> QED BY <2>4, <3>4, <3>5
  <2>7. Part(buf, n) = << buf[n] >>
    <3>1. n \in 1 .. n BY <1>1
    <3> QED BY <2>5, <2>6, <3>1 DEF Undone
  <2> DEFINE k == n - 1
             x == FlattenSeq(Parts(buf, k))
             y == Part(buf, k + 1)
  <2>8. k \in Nat /\ k + 1 = n /\ First(buf) + k <= Len(buf) /\ First(buf) + k - 1 <= Len(buf)
    BY <1>1, <2>2
  <2>9. FlattenSeq(Parts(buf, k + 1)) = x \o y
    <3> HIDE DEF k
    <3> QED BY <2>8, PartsAppend
  <2>10. x \in Seq(Octet) /\ Len(x) \in Nat
    <3> HIDE DEF k
    <3>1. Parts(buf, k) \in Seq(Seq(Octet)) BY <2>8, PartsType
    <3> QED BY <3>1, FlattenType, LenProperties
  <2>11. o = x \o y
    <3>1. o = FlattenSeq(Parts(buf, n)) BY <2>3 DEF Out
    <3> QED BY <2>8, <2>9, <3>1
  <2>12. y = << buf[n] >> BY <2>7, <2>8
  <2>13. buf[n] \in Octet BY <1>1, ElementOfSeq
  <2> HIDE DEF x, y, o, k, n
  <2>14. y \in Seq(Octet) /\ Len(y) = 1 /\ y[1] = buf[n] BY <2>12, <2>13
  <2>15. Len(o) = Len(x) + 1 /\ o[Len(x) + 1] = buf[n] /\ o \in Seq(Octet)
    <3>1. Len(x \o y) = Len(x) + Len(y) /\ x \o y \in Seq(Octet)
          /\ \A i \in 1 .. Len(y) : (x \o y)[Len(x) + i] = y[i]
      BY <2>10, <2>14, ConcatLast
    <3>2. 1 \in 1 .. Len(y) BY <2>14
    <3> QED BY <2>11, <2>14, <3>1, <3>2
  <2>16. Len(o) <= n
    <3>1. Len(o) <= LastIn(buf) - First(buf) + 1 BY OutIs DEF o
    <3> QED BY <2>3, <3>1
  <2>17. n = Len(x) + 1 BY <1>1, <1>4, <2>10, <2>15, <2>16
  <2> QED BY <1>2, <1>4, <2>15, <2>17 DEF n, o
<1> QED BY <1>3, <1>4

\* A decoded buffer that is kept, in front of the rest of a frame.
LEMMA ClosedKeeps ==
  ASSUME NEW buf \in Seq(Octet), NEW h \in Seq(Octet), buf # << >>, Closed(buf \o h),
         Decode(buf).parsed = 0 \/ Decode(buf).payload # << >>
  PROVE  Closed(Decode(buf).buf \o h)
<1> DEFINE d == Decode(buf).buf
           n == Len(buf)
           k == Len(h)
           v == buf \o h
           w == d \o h
<1>1. n \in Nat /\ n >= 1 /\ k \in Nat BY EmptySeq, LenProperties
<1>2. /\ d \in Seq(Octet) /\ Len(d) = n
      /\ \A i \in 1 .. n : d[i] = IF i <= Len(Out(buf)) THEN Out(buf)[i] ELSE buf[i]
  BY BufIs
<1>3. /\ v \in Seq(Octet) /\ Len(v) = n + k
      /\ \A i \in 1 .. n : v[i] = buf[i]
      /\ \A i \in 1 .. k : v[n + i] = h[i]
  BY ConcatLast
<1> HIDE DEF d
<1>4. /\ w \in Seq(Octet) /\ Len(w) = n + k
      /\ \A i \in 1 .. n : w[i] = d[i]
      /\ \A i \in 1 .. k : w[n + i] = h[i]
  <2>1. /\ w \in Seq(Octet) /\ Len(w) = Len(d) + Len(h)
        /\ \A i \in 1 .. Len(d) : w[i] = d[i]
        /\ \A i \in 1 .. Len(h) : w[Len(d) + i] = h[i]
    BY <1>2, ConcatLast
  <2> HIDE DEF w, n
  <2> QED BY <1>2, <2>1
<1>5. Closed(v) OBVIOUS
<1>6. v # << >> BY <1>1, <1>3, EmptySeq
<1>7. n + k >= 2 /\ v[n + k] = END /\ v[n + k - 1] \notin {END, ESC}
  BY <1>3, <1>5, <1>6 DEF Closed
<1>8. w[n + k] = v[n + k] /\ w[n + k - 1] = v[n + k - 1] => Closed(w)
  <2> HIDE DEF v, w, n, k
  <2>1. Len(w) \in Nat /\ Len(w) >= 2 /\ Len(v) = n + k /\ Len(w) = n + k BY <1>1, <1>3, <1>4, <1>7
  <2> SUFFICES ASSUME w[n + k] = v[n + k], w[n + k - 1] = v[n + k - 1] PROVE Closed(w)
    OBVIOUS
  <2>2. w[n + k] = END /\ w[n + k - 1] \notin {END, ESC} BY <1>7
  <2>3. Len(w) - 1 = n + k - 1 BY <1>1, <2>1
  <2> QED BY <2>1, <2>2, <2>3 DEF Closed
<1>9. Len(Out(buf)) \in Nat /\ LastIn(buf) \in 0 .. n
      /\ Len(Out(buf)) <= LastIn(buf) - First(buf) + 1
  BY OutIs
<1>10. ASSUME Decode(buf).payload # << >>
      PROVE  w[n + k] = v[n + k] /\ w[n + k - 1] = v[n + k - 1]
  <2>1. First(buf) = 2 /\ Ends(buf) # {} BY <1>10, DecodeIs
  <2>2. Decode(buf).parsed = LastIn(buf) + 1 /\ Decode(buf).parsed \in 0 .. n
    BY <2>1, DecodeIs, ParsedIs
  <2> HIDE DEF n, k, v, w
  <2>3. Len(Out(buf)) <= n - 2 BY <1>1, <1>9, <2>1, <2>2
  <2>4. ASSUME NEW i \in 1 .. n + k, i >= n - 1 PROVE w[i] = v[i]
    <3>1. CASE i <= n
      <4>1. i \in 1 .. n /\ ~(i <= Len(Out(buf))) BY <1>1, <1>9, <2>3, <2>4, <3>1
      <4> QED BY <1>2, <1>3, <1>4, <4>1
    <3>2. CASE ~(i <= n)
      <4>1. i - n \in 1 .. k /\ n + (i - n) = i BY <1>1, <3>2
      <4> QED BY <1>3, <1>4, <4>1
    <3> QED BY <3>1, <3>2
  <2>5. n + k \in 1 .. n + k /\ n + k - 1 \in 1 .. n + k /\ n + k >= n - 1 /\ n + k - 1 >= n - 1
    BY <1>1, <1>7
  <2> QED BY <2>4, <2>5
<1>11. ASSUME Decode(buf).parsed = 0
      PROVE  w[n + k] = v[n + k] /\ w[n + k - 1] = v[n + k - 1]
  <2>1. k # 0
    <3>1. SUFFICES ASSUME k = 0 PROVE FALSE OBVIOUS
    <3>2. h = << >> BY <3>1, EmptySeq
    <3>3. v = buf BY <3>2, ConcatEmptySeq
    <3>4. Decode(buf \o h).parsed \in 1 .. Len(buf) BY <1>5, <3>3, ClosedEnds
    <3> QED BY <1>11, <3>3, <3>4
  <2>2. v[n] # ESC => d[n] = buf[n]
    <3>1. n \in 1 .. n BY <1>1
    <3>2. v[n] = buf[n] BY <1>3, <3>1
    <3> QED BY <1>11, <3>2, LastStays DEF d
  <2> HIDE DEF n, k, v, w
  <2>3. w[n + k] = v[n + k]
    <3>1. k \in 1 .. k BY <1>1, <2>1
    <3> QED BY <1>3, <1>4, <3>1
  <2>4. w[n + k - 1] = v[n + k - 1]
    <3>1. CASE k = 1
      <4>1. n + k - 1 = n /\ n \in 1 .. n BY <1>1, <3>1
      <4> QED BY <1>3, <1>4, <1>7, <2>2, <4>1
    <3>2. CASE k # 1
      <4>1. k - 1 \in 1 .. k /\ n + (k - 1) = n + k - 1 BY <1>1, <2>1, <3>2
      <4> QED BY <1>3, <1>4, <4>1
    <3> QED BY <3>1, <3>2
  <2> QED BY <2>3, <2>4
<1> QED BY <1>8, <1>10, <1>11 DEF w, d

-----------------------------------------------------------------------------
(***************************************************************************)
(* Pieces and their bytes.                                                 *)
(***************************************************************************)

\* A function of every element of a sequence.
Each(f, s) == [i \in DOMAIN s |-> f[s[i]]]

\* f says something of every element of S.
Says(f, S, T) == f \in [S -> T]

\* A function of every element gives a sequence as long.
LEMMA EachType ==
  ASSUME NEW S, NEW T, NEW f, Says(f, S, T), NEW s \in Seq(S)
  PROVE  /\ Each(f, s) \in Seq(T) /\ Len(Each(f, s)) = Len(s)
         /\ \A i \in 1 .. Len(s) : Each(f, s)[i] = f[s[i]]
<1> DEFINE u == Each(f, s)
<1>1. Len(s) \in Nat /\ DOMAIN s = 1 .. Len(s) BY LenProperties
<1>2. \A i \in 1 .. Len(s) : u[i] = f[s[i]] BY <1>1 DEF Each
<1>3. u = [i \in 1 .. Len(s) |-> u[i]] BY <1>1 DEF Each
<1>4. \A i \in 1 .. Len(s) : u[i] \in T
  <2>1. \A i \in 1 .. Len(s) : s[i] \in S BY ElementOfSeq
  <2>2. \A x \in S : f[x] \in T BY DEF Says
  <2> HIDE DEF u
  <2> QED BY <1>2, <2>1, <2>2
<1> HIDE DEF u
<1>5. u \in [1 .. Len(s) -> T] BY <1>3, <1>4
<1>6. u \in Seq(T) /\ Len(u) = Len(s) BY <1>1, <1>5, SeqOfFcn
<1> QED BY <1>2, <1>6 DEF u

\* Of one element.
LEMMA EachOne ==
  ASSUME NEW S, NEW T, NEW f, Says(f, S, T), NEW e \in S
  PROVE  Each(f, << e >>) = << f[e] >>
<1>1. << e >> \in Seq(S) /\ Len(<< e >>) = 1 /\ << e >>[1] = e OBVIOUS
<1>2. f[e] \in T BY DEF Says
<1>3. << f[e] >> \in Seq(T) /\ Len(<< f[e] >>) = 1 /\ << f[e] >>[1] = f[e] BY <1>2
<1> DEFINE u == Each(f, << e >>)
           v == << f[e] >>
           s == << e >>
<1>4. u \in Seq(T) /\ Len(u) = 1 /\ u[1] = f[e]
  <2>3. s \in Seq(S) OBVIOUS
  <2> HIDE DEF s
  <2>1. /\ Each(f, s) \in Seq(T) /\ Len(Each(f, s)) = Len(s)
        /\ \A i \in 1 .. Len(s) : Each(f, s)[i] = f[s[i]]
    BY <2>3, EachType
  <2>2. 1 \in 1 .. Len(s) BY <1>1 DEF s
  <2> QED BY <1>1, <2>1, <2>2 DEF s
<1> HIDE DEF u, v
<1>5. v \in Seq(T) /\ Len(v) = 1 /\ v[1] = f[e] BY <1>3 DEF v
<1>6. u = v
  <2>1. \A i \in 1 .. Len(u) : u[i] = v[i] BY <1>4, <1>5
  <2> QED BY <1>4, <1>5, <2>1, SeqEqual
<1> QED BY <1>6 DEF u, v

\* Of two parts.
LEMMA EachConcat ==
  ASSUME NEW S, NEW T, NEW f, Says(f, S, T), NEW s \in Seq(S), NEW t \in Seq(S)
  PROVE  Each(f, s \o t) = Each(f, s) \o Each(f, t)
<1> DEFINE c == s \o t
           a == Each(f, s)
           b == Each(f, t)
           u == Each(f, c)
           v == a \o b
           m == Len(s)
           n == Len(t)
<1>1. /\ c \in Seq(S) /\ Len(c) = m + n
      /\ \A i \in 1 .. m + n : c[i] = IF i <= m THEN s[i] ELSE t[i - m]
  BY ConcatProperties
<1>2. m \in Nat /\ n \in Nat BY LenProperties
<1>3. a \in Seq(T) /\ Len(a) = m /\ \A i \in 1 .. m : a[i] = f[s[i]] BY EachType
<1>4. b \in Seq(T) /\ Len(b) = n /\ \A i \in 1 .. n : b[i] = f[t[i]] BY EachType
<1> HIDE DEF c, m, n
<1>5. u \in Seq(T) /\ Len(u) = m + n /\ \A i \in 1 .. m + n : u[i] = f[c[i]]
  BY <1>1, EachType
<1> HIDE DEF a, b, u
<1>6. /\ v \in Seq(T) /\ Len(v) = m + n
      /\ \A i \in 1 .. m + n : v[i] = IF i <= m THEN a[i] ELSE b[i - m]
  <2>1. /\ v \in Seq(T) /\ Len(v) = Len(a) + Len(b)
        /\ \A i \in 1 .. Len(a) + Len(b) : v[i] = IF i <= Len(a) THEN a[i] ELSE b[i - Len(a)]
    BY <1>3, <1>4, ConcatProperties
  <2> HIDE DEF v
  <2> QED BY <1>3, <1>4, <2>1
<1> HIDE DEF v
<1>7. ASSUME NEW i \in 1 .. m + n PROVE u[i] = v[i]
  <2>1. CASE i <= m
    <3>1. i \in 1 .. m BY <1>2, <2>1
    <3>2. u[i] = f[s[i]] BY <1>1, <1>5, <2>1
    <3>3. v[i] = f[s[i]] BY <1>3, <1>6, <2>1, <3>1
    <3> QED BY <3>2, <3>3
  <2>2. CASE ~(i <= m)
    <3>1. i - m \in 1 .. n BY <1>2, <2>2
    <3> QED BY <1>1, <1>4, <1>5, <1>6, <2>2, <3>1
  <2> QED BY <2>1, <2>2
<1>8. u = v BY <1>5, <1>6, <1>7, SeqEqual
<1> QED BY <1>8 DEF u, v, a, b, c

\* Of nothing.
LEMMA EachEmpty == ASSUME NEW S, NEW T, NEW f, Says(f, S, T) PROVE Each(f, << >>) = << >>
<1>1. << >> \in Seq(S) /\ Len(<< >>) = 0 OBVIOUS
<1>2. SUFFICES ASSUME NEW s \in Seq(S), Len(s) = 0 PROVE Each(f, s) = << >> BY <1>1
<1>3. Each(f, s) \in Seq(T) /\ Len(Each(f, s)) = Len(s) BY EachType
<1> QED BY <1>2, <1>3, EmptySeq

\* What is made of each element is joined.
LEMMA JoinEach ==
  ASSUME NEW S, NEW T, NEW f, Says(f, S, Seq(T))
  PROVE  /\ FlattenSeq(Each(f, << >>)) = << >>
         /\ \A s \in Seq(S) : FlattenSeq(Each(f, s)) \in Seq(T)
         /\ \A e \in S : FlattenSeq(Each(f, << e >>)) = f[e]
         /\ \A s, t \in Seq(S) : FlattenSeq(Each(f, s \o t))
                                   = FlattenSeq(Each(f, s)) \o FlattenSeq(Each(f, t))
<1>1. FlattenSeq(Each(f, << >>)) = << >> BY EachEmpty, FlattenEmpty
<1>2. \A s \in Seq(S) : Each(f, s) \in Seq(Seq(T)) BY EachType
<1>3. \A s \in Seq(S) : FlattenSeq(Each(f, s)) \in Seq(T) BY <1>2, FlattenType
<1>4. ASSUME NEW e \in S PROVE FlattenSeq(Each(f, << e >>)) = f[e]
  <2>1. f[e] \in Seq(T) BY DEF Says
  <2>2. Each(f, << e >>) = << f[e] >> BY EachOne
  <2> QED BY <2>1, <2>2, FlattenOne
<1>5. ASSUME NEW s \in Seq(S), NEW t \in Seq(S)
      PROVE  FlattenSeq(Each(f, s \o t)) = FlattenSeq(Each(f, s)) \o FlattenSeq(Each(f, t))
  <2>1. Each(f, s \o t) = Each(f, s) \o Each(f, t) BY EachConcat
  <2> QED BY <1>2, <2>1, FlattenConcat
<1> QED BY <1>1, <1>3, <1>4, <1>5

\* Messages are bytes, and never empty.
LEMMA PayloadIs == \A p \in Payloads : p \in Seq(Octet) /\ p # << >>
<1>1. SUFFICES ASSUME NEW p \in Payloads PROVE p \in Seq(Octet) /\ p # << >> OBVIOUS
<1>2. p \in Seq(STRING) /\ p # << >> BY PayloadsAssumption
<1>3. STRING \subseteq Octet BY DEF Octet
<1>4. Len(p) \in Nat /\ DOMAIN p = 1 .. Len(p) /\ p \in [1 .. Len(p) -> STRING]
  BY <1>2, LenProperties
<1>5. p \in [1 .. Len(p) -> Octet] BY <1>3, <1>4
<1>6. p \in Seq(Octet) BY <1>4, <1>5, SeqOfFcn
<1> QED BY <1>2, <1>6

\* What may be sent again as a frame, or as none.
Framed == Payloads \union {<< >>}

\* A piece of the byte stream.
AnyPiece == [bytes : Seq(Octet), payload : Framed]

\* Messages as they travel, and the payloads of pieces.
Slips(p) == FlattenSeq([i \in DOMAIN p |-> Slip(p[i])])
Coming(pipe) == [i \in DOMAIN pipe |-> pipe[i].payload]

bytesOf == [x \in AnyPiece |-> x.bytes]
frameOf == [x \in AnyPiece |-> IF x.payload = << >> THEN << >> ELSE << x.payload >>]
slipOf == [x \in Payloads |-> Slip(x)]
payloadOf == [x \in AnyPiece |-> x.payload]

\* These functions are what they are called.
LEMMA OfTypes ==
  /\ Says(bytesOf, AnyPiece, Seq(Octet)) /\ \A x \in AnyPiece : bytesOf[x] = x.bytes
  /\ Says(frameOf, AnyPiece, Seq(Payloads))
  /\ \A x \in AnyPiece : frameOf[x] = IF x.payload = << >> THEN << >> ELSE << x.payload >>
  /\ Says(slipOf, Payloads, Seq(Octet)) /\ \A x \in Payloads : slipOf[x] = Slip(x)
  /\ Says(payloadOf, AnyPiece, Framed) /\ \A x \in AnyPiece : payloadOf[x] = x.payload
<1>1. Says(bytesOf, AnyPiece, Seq(Octet)) BY DEF Says, bytesOf, AnyPiece
<1>2. Says(payloadOf, AnyPiece, Framed) BY DEF Says, payloadOf, AnyPiece
<1>3. Says(slipOf, Payloads, Seq(Octet))
  <2>1. \A x \in Payloads : Slip(x) \in Seq(Octet) BY PayloadIs, SlipParts
  <2> QED BY <2>1 DEF Says, slipOf
<1>4. Says(frameOf, AnyPiece, Seq(Payloads))
  <2>1. << >> \in Seq(Payloads) /\ \A p \in Payloads : << p >> \in Seq(Payloads) OBVIOUS
  <2>2. \A x \in AnyPiece : x.payload # << >> => x.payload \in Payloads BY DEF AnyPiece, Framed
  <2>3. \A x \in AnyPiece : frameOf[x] \in Seq(Payloads) BY <2>1, <2>2 DEF frameOf
  <2>4. frameOf = [x \in AnyPiece |-> frameOf[x]] BY DEF frameOf
  <2> HIDE DEF frameOf
  <2> QED BY <2>3, <2>4 DEF Says
<1> QED BY <1>1, <1>2, <1>3, <1>4 DEF bytesOf, frameOf, slipOf, payloadOf

\* The bytes of pieces are those of each, one after the other.
LEMMA JoinedIs ==
  /\ Joined(<< >>) = << >>
  /\ \A s \in Seq(AnyPiece) : Joined(s) \in Seq(Octet)
  /\ \A e \in AnyPiece : Joined(<< e >>) = e.bytes
  /\ \A s, t \in Seq(AnyPiece) : Joined(s \o t) = Joined(s) \o Joined(t)
<1>1. ASSUME NEW s \in Seq(AnyPiece) PROVE Joined(s) = FlattenSeq(Each(bytesOf, s))
  <2>1. DOMAIN s = 1 .. Len(s) /\ \A i \in 1 .. Len(s) : s[i] \in AnyPiece
    BY LenProperties, ElementOfSeq
  <2>2. \A i \in DOMAIN s : s[i].bytes = bytesOf[s[i]] BY <2>1, OfTypes
  <2>3. [i \in DOMAIN s |-> s[i].bytes] = [i \in DOMAIN s |-> bytesOf[s[i]]] BY <2>2
  <2> QED BY <2>3 DEF Joined, Each
<1>2. << >> \in Seq(AnyPiece) /\ \A e \in AnyPiece : << e >> \in Seq(AnyPiece) OBVIOUS
<1>3. \A s, t \in Seq(AnyPiece) : s \o t \in Seq(AnyPiece) BY ConcatProperties
<1>4. /\ FlattenSeq(Each(bytesOf, << >>)) = << >>
      /\ \A s \in Seq(AnyPiece) : FlattenSeq(Each(bytesOf, s)) \in Seq(Octet)
      /\ \A e \in AnyPiece : FlattenSeq(Each(bytesOf, << e >>)) = bytesOf[e]
      /\ \A s, t \in Seq(AnyPiece) : FlattenSeq(Each(bytesOf, s \o t))
           = FlattenSeq(Each(bytesOf, s)) \o FlattenSeq(Each(bytesOf, t))
  BY OfTypes, JoinEach, SMTT(30)
<1> QED BY <1>1, <1>2, <1>3, <1>4, OfTypes, ZenonT(30)

\* So are the frames among them,
LEMMA FramesIs ==
  /\ Frames(<< >>) = << >>
  /\ \A s \in Seq(AnyPiece) : Frames(s) \in Seq(Payloads)
  /\ \A e \in AnyPiece : Frames(<< e >>) = IF e.payload = << >> THEN << >> ELSE << e.payload >>
  /\ \A s, t \in Seq(AnyPiece) : Frames(s \o t) = Frames(s) \o Frames(t)
<1>1. ASSUME NEW s \in Seq(AnyPiece) PROVE Frames(s) = FlattenSeq(Each(frameOf, s))
  <2> DEFINE F(x) == IF x.payload = << >> THEN << >> ELSE << x.payload >>
  <2>1. DOMAIN s = 1 .. Len(s) /\ \A i \in 1 .. Len(s) : s[i] \in AnyPiece
    BY LenProperties, ElementOfSeq
  <2>2. \A i \in DOMAIN s : F(s[i]) = frameOf[s[i]] BY <2>1, OfTypes
  <2>3. Frames(s) = FlattenSeq([i \in DOMAIN s |-> F(s[i])]) BY DEF Frames
  <2> HIDE DEF F
  <2>4. [i \in DOMAIN s |-> F(s[i])] = [i \in DOMAIN s |-> frameOf[s[i]]] BY <2>2
  <2> QED BY <2>3, <2>4 DEF Each
<1>2. << >> \in Seq(AnyPiece) /\ \A e \in AnyPiece : << e >> \in Seq(AnyPiece) OBVIOUS
<1>3. \A s, t \in Seq(AnyPiece) : s \o t \in Seq(AnyPiece) BY ConcatProperties
<1>4. /\ FlattenSeq(Each(frameOf, << >>)) = << >>
      /\ \A s \in Seq(AnyPiece) : FlattenSeq(Each(frameOf, s)) \in Seq(Payloads)
      /\ \A e \in AnyPiece : FlattenSeq(Each(frameOf, << e >>)) = frameOf[e]
      /\ \A s, t \in Seq(AnyPiece) : FlattenSeq(Each(frameOf, s \o t))
           = FlattenSeq(Each(frameOf, s)) \o FlattenSeq(Each(frameOf, t))
  BY OfTypes, JoinEach, SMTT(30)
<1> QED BY <1>1, <1>2, <1>3, <1>4, OfTypes, ZenonT(30)

\* messages as they travel,
LEMMA SlipsIs ==
  /\ Slips(<< >>) = << >>
  /\ \A s \in Seq(Payloads) : Slips(s) \in Seq(Octet)
  /\ \A e \in Payloads : Slips(<< e >>) = Slip(e)
  /\ \A s, t \in Seq(Payloads) : Slips(s \o t) = Slips(s) \o Slips(t)
<1>1. ASSUME NEW s \in Seq(Payloads) PROVE Slips(s) = FlattenSeq(Each(slipOf, s))
  <2>1. DOMAIN s = 1 .. Len(s) /\ \A i \in 1 .. Len(s) : s[i] \in Payloads
    BY LenProperties, ElementOfSeq
  <2>2. \A i \in DOMAIN s : Slip(s[i]) = slipOf[s[i]] BY <2>1, OfTypes
  <2>3. [i \in DOMAIN s |-> Slip(s[i])] = [i \in DOMAIN s |-> slipOf[s[i]]] BY <2>2
  <2> QED BY <2>3 DEF Slips, Each
<1>2. << >> \in Seq(Payloads) /\ \A e \in Payloads : << e >> \in Seq(Payloads) OBVIOUS
<1>3. \A s, t \in Seq(Payloads) : s \o t \in Seq(Payloads) BY ConcatProperties
<1>4. /\ FlattenSeq(Each(slipOf, << >>)) = << >>
      /\ \A s \in Seq(Payloads) : FlattenSeq(Each(slipOf, s)) \in Seq(Octet)
      /\ \A e \in Payloads : FlattenSeq(Each(slipOf, << e >>)) = slipOf[e]
      /\ \A s, t \in Seq(Payloads) : FlattenSeq(Each(slipOf, s \o t))
           = FlattenSeq(Each(slipOf, s)) \o FlattenSeq(Each(slipOf, t))
  BY OfTypes, JoinEach, SMTT(30)
<1> QED BY <1>1, <1>2, <1>3, <1>4, OfTypes, ZenonT(30)

\* and the payloads.
LEMMA ComingIs ==
  /\ Coming(<< >>) = << >>
  /\ \A s \in Seq(AnyPiece) :
       /\ Coming(s) \in Seq(Framed) /\ Len(Coming(s)) = Len(s)
       /\ \A i \in 1 .. Len(s) : Coming(s)[i] = s[i].payload
  /\ \A e \in AnyPiece : Coming(<< e >>) = << e.payload >>
  /\ \A s, t \in Seq(AnyPiece) : Coming(s \o t) = Coming(s) \o Coming(t)
<1>0. ASSUME NEW s \in Seq(AnyPiece)
      PROVE  DOMAIN s = 1 .. Len(s) /\ \A i \in 1 .. Len(s) : s[i] \in AnyPiece
  BY LenProperties, ElementOfSeq
<1>1. ASSUME NEW s \in Seq(AnyPiece) PROVE Coming(s) = Each(payloadOf, s)
  <2>2. \A i \in DOMAIN s : s[i].payload = payloadOf[s[i]] BY <1>0, OfTypes
  <2>3. [i \in DOMAIN s |-> s[i].payload] = [i \in DOMAIN s |-> payloadOf[s[i]]] BY <2>2
  <2> QED BY <2>3 DEF Coming, Each
<1>2. << >> \in Seq(AnyPiece) /\ \A e \in AnyPiece : << e >> \in Seq(AnyPiece) OBVIOUS
<1>3. \A s, t \in Seq(AnyPiece) : s \o t \in Seq(AnyPiece) BY ConcatProperties
<1>4. \A s \in Seq(AnyPiece) :
        /\ Each(payloadOf, s) \in Seq(Framed) /\ Len(Each(payloadOf, s)) = Len(s)
        /\ \A i \in 1 .. Len(s) : Each(payloadOf, s)[i] = payloadOf[s[i]]
  BY OfTypes, EachType
<1>5. Each(payloadOf, << >>) = << >> BY OfTypes, EachEmpty
<1>6. ASSUME NEW e \in AnyPiece PROVE Each(payloadOf, << e >>) = << payloadOf[e] >>
  <2>1. Says(payloadOf, AnyPiece, Framed) BY OfTypes
  <2> QED BY <2>1, EachOne
<1>7. \A s, t \in Seq(AnyPiece) : Each(payloadOf, s \o t)
                                     = Each(payloadOf, s) \o Each(payloadOf, t)
  BY OfTypes, EachConcat
<1>8. \A s \in Seq(AnyPiece) :
       /\ Coming(s) \in Seq(Framed) /\ Len(Coming(s)) = Len(s)
       /\ \A i \in 1 .. Len(s) : Coming(s)[i] = s[i].payload
  BY <1>0, <1>1, <1>4, OfTypes
<1>9. \A e \in AnyPiece : Coming(<< e >>) = << e.payload >> BY <1>1, <1>2, <1>6, OfTypes
<1> QED BY <1>1, <1>2, <1>3, <1>5, <1>7, <1>8, <1>9

\* The elements of a sequence with one more.
LEMMA LongerIs ==
  ASSUME NEW S, NEW s \in Seq(S), NEW e \in S
  PROVE  /\ Append(s, e) = s \o << e >> /\ << e >> \in Seq(S) /\ s \o << e >> \in Seq(S)
         /\ Len(s \o << e >>) = Len(s) + 1 /\ Len(s) \in Nat
         /\ (s \o << e >>)[Len(s) + 1] = e
         /\ \A i \in 1 .. Len(s) : (s \o << e >>)[i] = s[i]
<1>1. Append(s, e) = s \o << e >> /\ << e >> \in Seq(S) OBVIOUS
<1>2. /\ Append(s, e) \in Seq(S) /\ Len(Append(s, e)) = Len(s) + 1
      /\ Append(s, e)[Len(s) + 1] = e /\ \A i \in 1 .. Len(s) : Append(s, e)[i] = s[i]
  BY AppendProperties
<1> QED BY <1>1, <1>2, LenProperties

\* Frames, and nothing else.
Full(pipe) == \A i \in 1 .. Len(pipe) :
                pipe[i].payload # << >> /\ pipe[i].bytes = Slip(pipe[i].payload)

\* Frames, and then what has been cut.
Orderly(pipe) ==
  \A i \in 1 .. Len(pipe) :
    /\ pipe[i].payload # << >> => pipe[i].bytes = Slip(pipe[i].payload)
    /\ pipe[i].payload = << >> => \A j \in 1 .. Len(pipe) : j > i => pipe[j].payload = << >>

\* The bytes of frames are those of their messages.
LEMMA FullLayout ==
  \A pipe \in Seq(AnyPiece) : Full(pipe) =>
    Joined(pipe) = Slips(Frames(pipe)) /\ Frames(pipe) = Coming(pipe)
<1> DEFINE T == { pipe \in Seq(AnyPiece) : Full(pipe) =>
                    Joined(pipe) = Slips(Frames(pipe)) /\ Frames(pipe) = Coming(pipe) }
<1>1. << >> \in T
  <2>1. << >> \in Seq(AnyPiece) OBVIOUS
  <2> QED BY <2>1, JoinedIs, FramesIs, SlipsIs, ComingIs
<1>2. ASSUME NEW s \in Seq(AnyPiece), NEW e \in AnyPiece, s \in T PROVE Append(s, e) \in T
  <2> DEFINE a == s \o << e >>
  <2>1. /\ Append(s, e) = a /\ << e >> \in Seq(AnyPiece) /\ a \in Seq(AnyPiece)
        /\ Len(a) = Len(s) + 1 /\ Len(s) \in Nat /\ a[Len(s) + 1] = e
        /\ \A i \in 1 .. Len(s) : a[i] = s[i]
    BY LongerIs
  <2>2. /\ Joined(a) = Joined(s) \o e.bytes
        /\ Frames(a) = Frames(s) \o Frames(<< e >>)
        /\ Coming(a) = Coming(s) \o << e.payload >>
    BY <2>1, JoinedIs, FramesIs, ComingIs
  <2> HIDE DEF a
  <2>3. SUFFICES ASSUME Full(a)
                 PROVE  Joined(a) = Slips(Frames(a)) /\ Frames(a) = Coming(a)
    BY <2>1
  <2>4. e.payload # << >> /\ e.bytes = Slip(e.payload) /\ e.payload \in Payloads
    <3>1. Len(s) + 1 \in 1 .. Len(a) BY <2>1
    <3>2. e.payload # << >> /\ e.bytes = Slip(e.payload) BY <2>1, <2>3, <3>1 DEF Full
    <3> QED BY <3>2 DEF AnyPiece, Framed
  <2>5. Full(s)
    <3>1. \A i \in 1 .. Len(s) : i \in 1 .. Len(a) BY <2>1
    <3> QED BY <2>1, <2>3, <3>1 DEF Full
  <2>6. Joined(s) = Slips(Frames(s)) /\ Frames(s) = Coming(s) BY <1>2, <2>5
  <2>7. Frames(<< e >>) = << e.payload >> /\ << e.payload >> \in Seq(Payloads)
    <3>1. Frames(<< e >>) = << e.payload >> BY <2>4, FramesIs
    <3>2. \A p \in Payloads : << p >> \in Seq(Payloads) OBVIOUS
    <3> QED BY <2>4, <3>1, <3>2
  <2>8. Slips(Frames(a)) = Slips(Frames(s)) \o Slip(e.payload)
    BY <2>2, <2>4, <2>7, FramesIs, SlipsIs
  <2> QED BY <2>2, <2>4, <2>6, <2>7, <2>8
<1>3. Seq(AnyPiece) \subseteq T
  <2> HIDE DEF T
  <2> QED BY <1>1, <1>2, SequenceInduction
<1> QED BY <1>3

\* With something behind them when there are cut ones.
LEMMA OrderlyLayout ==
  \A pipe \in Seq(AnyPiece) : Orderly(pipe) =>
    \E w \in Seq(Octet) : Joined(pipe) = Slips(Frames(pipe)) \o w
<1> DEFINE T == { pipe \in Seq(AnyPiece) : Orderly(pipe) =>
                    \E w \in Seq(Octet) : Joined(pipe) = Slips(Frames(pipe)) \o w }
<1>0. << >> \in Seq(Octet) /\ \A x \in Seq(Octet) : x \o << >> = x BY ConcatEmptySeq
<1>1. << >> \in T
  <2>1. << >> \in Seq(AnyPiece) OBVIOUS
  <2>2. Joined(<< >>) = Slips(Frames(<< >>)) \o << >> BY <1>0, JoinedIs, FramesIs, SlipsIs
  <2> QED BY <1>0, <2>1, <2>2
<1>2. ASSUME NEW s \in Seq(AnyPiece), NEW e \in AnyPiece, s \in T PROVE Append(s, e) \in T
  <2> DEFINE a == s \o << e >>
  <2>1. /\ Append(s, e) = a /\ << e >> \in Seq(AnyPiece) /\ a \in Seq(AnyPiece)
        /\ Len(a) = Len(s) + 1 /\ Len(s) \in Nat /\ a[Len(s) + 1] = e
        /\ \A i \in 1 .. Len(s) : a[i] = s[i]
    BY LongerIs
  <2>2. /\ Joined(a) = Joined(s) \o e.bytes
        /\ Frames(a) = Frames(s) \o Frames(<< e >>)
    BY <2>1, JoinedIs, FramesIs
  <2> HIDE DEF a
  <2>3. SUFFICES ASSUME Orderly(a)
                 PROVE  \E w \in Seq(Octet) : Joined(a) = Slips(Frames(a)) \o w
    BY <2>1
  <2>4. \A i \in 1 .. Len(s) : i \in 1 .. Len(a) /\ i < Len(s) + 1 BY <2>1
  <2>5. Len(s) + 1 \in 1 .. Len(a) BY <2>1
  <2>6. Orderly(s) BY <2>1, <2>3, <2>4 DEF Orderly
  <2>7. PICK w \in Seq(Octet) : Joined(s) = Slips(Frames(s)) \o w BY <1>2, <2>6
  <2>8. Frames(s) \in Seq(Payloads) /\ Slips(Frames(s)) \in Seq(Octet) /\ e.bytes \in Seq(Octet)
    BY FramesIs, SlipsIs DEF AnyPiece
  <2>9. CASE e.payload = << >>
    <3>1. Frames(<< e >>) = << >> BY <2>9, FramesIs
    <3>2. Frames(a) = Frames(s) BY <2>2, <2>8, <3>1, ConcatEmptySeq
    <3>3. w \o e.bytes \in Seq(Octet) /\ Joined(a) = Slips(Frames(a)) \o (w \o e.bytes)
      <4>1. \A x, y, z \in Seq(Octet) : (x \o y) \o z = x \o (y \o z) /\ y \o z \in Seq(Octet)
        BY Associative, SMTT(30)
      <4> DEFINE x == Slips(Frames(s))
                 z == e.bytes
      <4>2. Joined(a) = Joined(s) \o z /\ Joined(s) = x \o w /\ Slips(Frames(a)) = x
        BY <2>2, <2>7, <3>2
      <4>3. x \in Seq(Octet) /\ z \in Seq(Octet) BY <2>8
      <4> HIDE DEF x, z
      <4>4. (x \o w) \o z = x \o (w \o z) /\ w \o z \in Seq(Octet) BY <4>1, <4>3
      <4>5. Joined(a) = Slips(Frames(a)) \o (w \o z) BY <4>2, <4>4
      <4> QED BY <4>4, <4>5 DEF z
    <3> QED BY <3>3
  <2>10. CASE e.payload # << >>
    <3>1. \A i \in 1 .. Len(s) : a[i].payload # << >>
      BY <2>1, <2>3, <2>4, <2>5, <2>10 DEF Orderly
    <3>2. \A i \in 1 .. Len(a) : i \in 1 .. Len(s) \/ i = Len(s) + 1 BY <2>1
    <3>3. Full(a) BY <2>1, <2>3, <2>5, <2>10, <3>1, <3>2 DEF Full, Orderly
    <3>4. Joined(a) = Slips(Frames(a)) BY <2>1, <3>3, FullLayout
    <3>5. Slips(Frames(a)) \in Seq(Octet) BY <2>1, FramesIs, SlipsIs
    <3>6. Joined(a) = Slips(Frames(a)) \o << >> BY <1>0, <3>4, <3>5
    <3> QED BY <1>0, <3>6
  <2> QED BY <2>9, <2>10
<1>3. Seq(AnyPiece) \subseteq T
  <2> HIDE DEF T
  <2> QED BY <1>1, <1>2, SequenceInduction
<1> QED BY <1>3

\* The front of a sequence with one element more.
LEMMA FrontLonger ==
  ASSUME NEW S, NEW s \in Seq(S), NEW j \in 0 .. Len(s), j < Len(s)
  PROVE  SubSeq(s, 1, j + 1) = SubSeq(s, 1, j) \o << s[j + 1] >>
<1> DEFINE u == SubSeq(s, 1, j + 1)
           v == SubSeq(s, 1, j)
           e == s[j + 1]
<1>1. Len(s) \in Nat BY LenProperties
<1>2. j + 1 \in 0 .. Len(s) /\ j + 1 \in 1 .. Len(s) BY <1>1
<1>3. u \in Seq(S) /\ Len(u) = j + 1 /\ \A i \in 1 .. j + 1 : u[i] = s[i] BY <1>2, PrefixIs
<1>4. v \in Seq(S) /\ Len(v) = j /\ \A i \in 1 .. j : v[i] = s[i] BY PrefixIs
<1>5. e \in S BY <1>2, ElementOfSeq
<1> HIDE DEF u, v
<1>6. \A i \in 1 .. Len(v) : u[i] = v[i] BY <1>1, <1>3, <1>4
<1>7. u[Len(v) + 1] = e
  <2>1. j + 1 \in 1 .. j + 1 BY <1>1
  <2> QED BY <1>3, <1>4, <2>1
<1>8. Len(u) = Len(v) + 1 BY <1>3, <1>4
<1> HIDE DEF e
<1>9. u = Append(v, e) BY <1>3, <1>4, <1>5, <1>6, <1>7, <1>8, AppendEqual
<1>10. u = v \o << e >> BY <1>4, <1>5, <1>9, LongerIs
<1> QED BY <1>10 DEF u, v, e

\* How many pieces some bytes take.
LEMMA TakenIs ==
  ASSUME NEW pipe \in Seq(AnyPiece), NEW n \in Nat
  PROVE  /\ Taken(pipe, n) \in 0 .. Len(pipe)
         /\ Upto(pipe, Taken(pipe, n)) <= n
         /\ Taken(pipe, n) < Len(pipe) => ~(Upto(pipe, Taken(pipe, n) + 1) <= n)
<1> DEFINE S == { i \in 0 .. Len(pipe) : Upto(pipe, i) <= n }
<1>1. Len(pipe) \in Nat BY LenProperties
<1>2. 0 \in S
  <2>1. 0 \in 0 .. Len(pipe) BY <1>1
  <2>2. SubSeq(pipe, 1, 0) = << >> BY <2>1, PrefixIs, EmptySeq
  <2>3. Upto(pipe, 0) = 0
    <3>1. Len(<< >>) = 0 OBVIOUS
    <3> QED BY <2>2, <3>1, JoinedIs DEF Upto
  <2> QED BY <2>1, <2>3
<1>3. S \in SUBSET (0 .. Len(pipe)) /\ S # {} BY <1>2
<1>4. Taken(pipe, n) = Max(S) BY DEF Taken
<1> HIDE DEF S
<1>5. Max(S) \in S /\ \A y \in S : y <= Max(S) BY <1>1, <1>3, MaxIs
<1>6. Taken(pipe, n) \in 0 .. Len(pipe) /\ Upto(pipe, Taken(pipe, n)) <= n
  BY <1>4, <1>5 DEF S
<1>7. ASSUME Taken(pipe, n) < Len(pipe), Upto(pipe, Taken(pipe, n) + 1) <= n PROVE FALSE
  <2>1. Taken(pipe, n) + 1 \in 0 .. Len(pipe) BY <1>1, <1>6, <1>7
  <2>2. Taken(pipe, n) + 1 \in S BY <1>7, <2>1 DEF S
  <2>3. Taken(pipe, n) + 1 <= Taken(pipe, n) BY <1>4, <1>5, <2>2
  <2> QED BY <1>6, <2>3
<1> QED BY <1>6, <1>7

\* A pipe that is cut between two pieces: the bytes before it are those of q.
CutBetween(pipe, n, q, r) ==
  /\ pipe = q \o r /\ Cut(pipe, n) = r /\ q # << >>
  /\ SubSeq(Joined(pipe), 1, n) = Joined(q) /\ Len(Joined(q)) = n

\* One that is cut inside of the piece e, which is x and y.
CutInside(pipe, n, q, r, e, x, y) ==
  /\ pipe = (q \o << e >>) \o r /\ Cut(pipe, n) = << Piece(y, << >>) >> \o r
  /\ e.bytes = x \o y /\ x # << >> /\ y # << >>
  /\ SubSeq(Joined(pipe), 1, n) = Joined(q) \o x /\ Len(Joined(q)) + Len(x) = n

\* A pipe is cut between two of its pieces, or inside of one.
LEMMA CutIs ==
  ASSUME NEW pipe \in Seq(AnyPiece), NEW n \in 1 .. Len(Joined(pipe))
  PROVE  LET q == SubSeq(pipe, 1, Taken(pipe, n))
         IN  /\ q \in Seq(AnyPiece)
             /\ \/ \E r \in Seq(AnyPiece) : CutBetween(pipe, n, q, r)
                \/ \E r \in Seq(AnyPiece), e \in AnyPiece, x, y \in Seq(Octet) :
                     CutInside(pipe, n, q, r, e, x, y)
<1> DEFINE j == Taken(pipe, n)
           q == SubSeq(pipe, 1, j)
           t == SubSeq(pipe, j + 1, Len(pipe))
           k == Len(Joined(q))
           cut == n - k
<1>1. n \in Nat /\ n >= 1 /\ n <= Len(Joined(pipe)) /\ Len(Joined(pipe)) \in Nat /\ Len(pipe) \in Nat
  BY JoinedIs, LenProperties
<1>2. /\ j \in 0 .. Len(pipe) /\ Upto(pipe, j) <= n
      /\ j < Len(pipe) => ~(Upto(pipe, j + 1) <= n)
  BY <1>1, TakenIs
<1>3. k = Upto(pipe, j) BY DEF Upto
<1>4. Cut(pipe, n) = IF cut = 0 THEN t
        ELSE << Piece(SubSeq(pipe[j + 1].bytes, cut + 1, Len(pipe[j + 1].bytes)), << >>) >>
               \o SubSeq(pipe, j + 2, Len(pipe))
  BY <1>3 DEF Cut
<1> HIDE DEF j
<1>5. q \in Seq(AnyPiece) /\ t \in Seq(AnyPiece) /\ pipe = q \o t BY <1>2, PrefixIs, RestIs, Halves
<1>6. k \in Nat /\ Joined(q) \in Seq(Octet) /\ k <= n
  <2> HIDE DEF q
  <2>1. Joined(q) \in Seq(Octet) BY <1>5, JoinedIs
  <2>2. k \in Nat BY <2>1, LenProperties
  <2> QED BY <1>2, <1>3, <2>1, <2>2
<1> HIDE DEF t, q
<1>7. CASE cut = 0
  <2>1. Cut(pipe, n) = t /\ k = n BY <1>1, <1>4, <1>6, <1>7
  <2>2. Joined(pipe) = Joined(q) \o Joined(t) /\ Joined(t) \in Seq(Octet) BY <1>5, JoinedIs
  <2>3. SubSeq(Joined(q) \o Joined(t), 1, Len(Joined(q))) = Joined(q) BY <1>6, <2>2, ConcatParts
  <2>4. SubSeq(Joined(pipe), 1, n) = Joined(q) BY <2>1, <2>2, <2>3
  <2>5. q # << >>
    <3>1. SUFFICES ASSUME q = << >> PROVE FALSE OBVIOUS
    <3>2. Len(<< >>) = 0 OBVIOUS
    <3>3. k = 0 BY <3>1, <3>2, JoinedIs
    <3> QED BY <1>1, <2>1, <3>3
  <2>6. CutBetween(pipe, n, q, t) BY <1>5, <2>1, <2>4, <2>5 DEF CutBetween
  <2> QED BY <1>5, <2>6 DEF q, j
<1>8. CASE cut # 0
  <2> DEFINE e == pipe[j + 1]
             r == SubSeq(pipe, j + 2, Len(pipe))
             b == e.bytes
             x == SubSeq(b, 1, cut)
             y == SubSeq(b, cut + 1, Len(b))
  <2>1. j < Len(pipe)
    <3>1. SUFFICES ASSUME j = Len(pipe) PROVE FALSE BY <1>1, <1>2
    <3>2. q = pipe
      <4>1. Len(pipe) \in 0 .. Len(pipe) BY <1>1
      <4>2. q \in Seq(AnyPiece) /\ Len(q) = Len(pipe) /\ \A i \in 1 .. Len(pipe) : q[i] = pipe[i]
        BY <3>1, <4>1, PrefixIs DEF q
      <4> QED BY <4>2, SeqEqual
    <3>3. k = Len(Joined(pipe)) BY <3>2
    <3> QED BY <1>1, <1>6, <1>8, <3>3
  <2>2. j + 1 \in 0 .. Len(pipe) /\ j + 1 \in 1 .. Len(pipe) /\ (j + 1) + 1 = j + 2 BY <1>1, <1>2, <2>1
  <2>3. e \in AnyPiece /\ b \in Seq(Octet)
    <3>1. e \in AnyPiece BY <2>2, ElementOfSeq
    <3> QED BY <3>1 DEF AnyPiece
  <2>4. SubSeq(pipe, 1, j + 1) = q \o << e >> BY <1>2, <2>1, FrontLonger DEF q
  <2>5. r \in Seq(AnyPiece) /\ SubSeq(pipe, 1, j + 1) \o r = pipe
    <3>1. SubSeq(pipe, (j + 1) + 1, Len(pipe)) \in Seq(AnyPiece) BY <2>2, RestIs
    <3>2. SubSeq(pipe, 1, j + 1) \o SubSeq(pipe, (j + 1) + 1, Len(pipe)) = pipe BY <2>2, Halves
    <3> QED BY <2>2, <3>1, <3>2
  <2>6. Cut(pipe, n) = << Piece(y, << >>) >> \o r BY <1>4, <1>8
  <2> HIDE DEF e, r
  <2>7. pipe = (q \o << e >>) \o r BY <2>4, <2>5
  <2>8. << e >> \in Seq(AnyPiece) /\ q \o << e >> \in Seq(AnyPiece) BY <1>5, <2>3, LongerIs
  <2>9. Joined(q \o << e >>) = Joined(q) \o b BY <1>5, <2>3, <2>8, JoinedIs, ZenonT(30)
  <2> HIDE DEF b
  <2>10. Len(Joined(q \o << e >>)) = k + Len(b) /\ Len(b) \in Nat
    BY <1>6, <2>3, <2>9, ConcatProperties, LenProperties
  <2>11. cut \in 0 .. Len(b) /\ cut >= 1 /\ cut < Len(b)
    <3>1. ~(k + Len(b) <= n) BY <1>2, <2>1, <2>4, <2>10 DEF Upto
    <3> HIDE DEF k
    <3> QED BY <1>1, <1>6, <1>8, <2>10, <3>1
  <2>12. x \in Seq(Octet) /\ Len(x) = cut BY <2>3, <2>11, PrefixIs
  <2>13. y \in Seq(Octet) /\ Len(y) = Len(b) - cut BY <2>3, <2>11, RestIs
  <2>14. x \o y = b BY <2>3, <2>11, Halves
  <2> HIDE DEF x, y, k, cut
  <2>15. x # << >> /\ y # << >>
    <3>1. Len(x) # 0 /\ Len(y) # 0 BY <2>10, <2>11, <2>12, <2>13
    <3>2. Len(<< >>) = 0 OBVIOUS
    <3> QED BY <3>1, <3>2
  <2>16. k + Len(x) = n BY <1>1, <1>6, <2>12 DEF cut
  <2> DEFINE a == Joined(q)
             z == Joined(r)
             f == a \o x
             g == y \o z
  <2>17. a \in Seq(Octet) /\ z \in Seq(Octet) BY <1>6, <2>5, JoinedIs
  <2>18. Joined(pipe) = (a \o b) \o z
    <3> DEFINE w == q \o << e >>
    <3>1. w \in Seq(AnyPiece) /\ pipe = w \o r /\ r \in Seq(AnyPiece) BY <2>5, <2>7, <2>8
    <3>2. Joined(w) = a \o b BY <2>9
    <3> HIDE DEF w, a, z
    <3>3. Joined(pipe) = Joined(w) \o Joined(r) BY <3>1, JoinedIs
    <3> QED BY <3>2, <3>3 DEF z
  <2> HIDE DEF a, z
  <2>19. f \in Seq(Octet) /\ g \in Seq(Octet) /\ Len(f) = Len(a) + Len(x)
    BY <2>12, <2>13, <2>17, ConcatProperties
  <2>20. (a \o (x \o y)) \o z = f \o g
    <3>1. x \in Seq(Octet) BY <2>12
    <3>2. y \in Seq(Octet) BY <2>13
    <3>3. a \in Seq(Octet) BY <2>17
    <3>4. z \in Seq(Octet) BY <2>17
    <3>5. f \in Seq(Octet) BY <2>19
    <3>6. (a \o x) \o y = a \o (x \o y) BY <3>1, <3>2, <3>3, Shifts
    <3> HIDE DEF f
    <3>7. (f \o y) \o z = f \o (y \o z) BY <3>2, <3>4, <3>5, Shifts
    <3> QED BY <3>6, <3>7 DEF f
  <2>21. Joined(pipe) = f \o g BY <2>14, <2>18, <2>20
  <2>22. Len(f) = n BY <2>16, <2>19 DEF k, a
  <2> HIDE DEF f, g
  <2>23. SubSeq(f \o g, 1, Len(f)) = f BY <2>19, ConcatParts
  <2>24. SubSeq(Joined(pipe), 1, n) = Joined(q) \o x BY <2>21, <2>22, <2>23 DEF f, a
  <2>25. CutInside(pipe, n, q, r, e, x, y)
    <3>1. e.bytes = x \o y BY <2>14 DEF b
    <3>2. Len(Joined(q)) + Len(x) = n BY <2>16 DEF k
    <3>3. Cut(pipe, n) = << Piece(y, << >>) >> \o r BY <2>6
    <3> QED BY <2>7, <2>15, <2>24, <3>1, <3>2, <3>3 DEF CutInside
  <2> QED BY <1>5, <2>3, <2>5, <2>12, <2>13, <2>25 DEF q, j
<1> QED BY <1>7, <1>8

-----------------------------------------------------------------------------
(***************************************************************************)
(* Connections: what is on its way, and what remains of it when the daemon *)
(* takes bytes.                                                            *)
(***************************************************************************)

\* What is sent for a message.
Encoded(t, p) == IF t = "prefix" THEN Prefix(Len(p)) \o p ELSE Slip(p)

\* A connection at the daemon.
Connection ==
  [client : Clients \union {"tty"}, pipe : Seq(AnyPiece),
   end : {"open", "closed", "lost"}, sent : Seq(Payloads), torn : BOOLEAN]

\* The end of a frame that has been cut.
Half(pipe) == IF Ragged(pipe) THEN pipe[1].bytes ELSE << >>

\* The pieces on their way: frames as they were encoded; what was sent short, and
\* all that was sent after it, is none.
LineOK(t, l) ==
  /\ l.end = "lost" => l.pipe = << >> /\ t # "serial"
  /\ l.client = "tty" => t = "serial"
  /\ \A i \in 1 .. Len(l.pipe) : l.pipe[i].payload # << >> =>
       l.pipe[i].bytes = Encoded(t, l.pipe[i].payload)
  /\ \A i \in 2 .. Len(l.pipe) : l.pipe[i].payload = << >> =>
       l.torn /\ \A j \in 1 .. Len(l.pipe) : j > i => l.pipe[j].payload = << >>

\* Nothing has been received yet.
Fresh(l) ==
  /\ Ragged(l.pipe) => l.torn /\ \A j \in 1 .. Len(l.pipe) : l.pipe[j].payload = << >>
  /\ ~l.torn /\ l.end # "lost" => Coming(l.pipe) = l.sent

\* A whole frame may still come.
Hopeful(l) ==
  l.end # "lost" /\ (~l.torn \/ \E j \in 1 .. Len(l.pipe) : l.pipe[j].payload # << >>)

\* The receiver has b, and finds the beginning of the next whole frame.
Synchronous(l, b) == Hopeful(l) => Closed(b \o Half(l.pipe))

\* Whether a pipe begins in the middle of a frame shows at its first piece.
LEMMA RaggedIs ==
  \A pipe \in Seq(AnyPiece) :
    /\ Ragged(pipe) <=> Len(pipe) >= 1 /\ pipe[1].payload = << >>
    /\ Len(pipe) \in Nat /\ Half(pipe) \in Seq(Octet)
<1>1. SUFFICES ASSUME NEW pipe \in Seq(AnyPiece)
               PROVE  /\ Ragged(pipe) <=> Len(pipe) >= 1 /\ pipe[1].payload = << >>
                      /\ Len(pipe) \in Nat /\ Half(pipe) \in Seq(Octet)
  OBVIOUS
<1>2. Len(pipe) \in Nat /\ (pipe # << >> <=> Len(pipe) >= 1) BY EmptySeq
<1>3. pipe # << >> => Head(pipe) = pipe[1] BY HeadTailProperties
<1>4. Ragged(pipe) <=> Len(pipe) >= 1 /\ pipe[1].payload = << >> BY <1>2, <1>3 DEF Ragged
<1>5. Half(pipe) \in Seq(Octet)
  <2>1. CASE Ragged(pipe)
    <3>1. 1 \in 1 .. Len(pipe) BY <1>2, <1>4, <2>1
    <3>2. pipe[1] \in AnyPiece BY <3>1, ElementOfSeq
    <3> QED BY <2>1, <3>2 DEF Half, AnyPiece
  <2>2. CASE ~Ragged(pipe)
    <3>1. << >> \in Seq(Octet) OBVIOUS
    <3> QED BY <2>2, <3>1 DEF Half
  <2> QED BY <2>1, <2>2
<1> QED BY <1>2, <1>4, <1>5

\* Another piece is sent: m is the connection l with e at its end.
Longer(t, l, m, e) ==
  /\ l.end # "lost" /\ m.client = l.client /\ m.end = l.end
  /\ m.pipe = l.pipe \o << e >>
  /\ (l.torn => m.torn) /\ (e.payload = << >> <=> m.torn)
  /\ e.payload # << >> => /\ e.bytes = Encoded(t, e.payload)
                          /\ m.sent = l.sent \o << e.payload >>

\* A connection keeps its form when another piece is sent, and what a receiver will
\* find is the same.
LEMMA LineLonger ==
  ASSUME NEW t, NEW l \in Connection, NEW m \in Connection, NEW e \in AnyPiece,
         LineOK(t, l), Longer(t, l, m, e)
  PROVE  /\ LineOK(t, m)
         /\ Fresh(l) => Fresh(m)
         /\ \A b : Synchronous(l, b) => Synchronous(m, b)
         /\ Ragged(m.pipe) => Ragged(l.pipe) \/ m.torn
         /\ Coming(m.pipe) = Coming(l.pipe) \o << e.payload >>
<1> USE DEF Longer
<1> DEFINE k == Len(l.pipe)
           u == l.pipe
           v == m.pipe
<1>1. u \in Seq(AnyPiece) /\ v \in Seq(AnyPiece) BY DEF Connection
<1>2. /\ v = u \o << e >> /\ << e >> \in Seq(AnyPiece)
      /\ Len(v) = k + 1 /\ k \in Nat /\ v[k + 1] = e /\ \A i \in 1 .. k : v[i] = u[i]
  <2> HIDE DEF u
  <2>1. u \o << e >> \in Seq(AnyPiece)
        /\ Len(u \o << e >>) = Len(u) + 1 /\ Len(u) \in Nat /\ (u \o << e >>)[Len(u) + 1] = e
        /\ (\A i \in 1 .. Len(u) : (u \o << e >>)[i] = u[i]) /\ << e >> \in Seq(AnyPiece)
    BY <1>1, LongerIs
  <2>2. v = u \o << e >> BY DEF u
  <2> QED BY <2>1, <2>2 DEF u
<1>3. Coming(v) = Coming(u) \o << e.payload >>
  <2>1. v = u \o << e >> /\ << e >> \in Seq(AnyPiece) BY <1>2
  <2> HIDE DEF u, v
  <2>2. Coming(u \o << e >>) = Coming(u) \o Coming(<< e >>) BY <1>1, <2>1, ComingIs
  <2>3. Coming(<< e >>) = << e.payload >> BY ComingIs
  <2> QED BY <2>1, <2>2, <2>3
<1>4. \A i \in 1 .. Len(v) : i \in 1 .. k \/ i = k + 1 BY <1>2
<1>5. LineOK(t, m)
  <2>1. \A i \in 1 .. Len(v) : v[i].payload # << >> => v[i].bytes = Encoded(t, v[i].payload)
    BY <1>2, <1>4 DEF LineOK
  <2>2. ASSUME NEW i \in 2 .. Len(v), v[i].payload = << >>
        PROVE  m.torn /\ \A j \in 1 .. Len(v) : j > i => v[j].payload = << >>
    <3>1. CASE i = k + 1
      <4>1. m.torn BY <1>2, <2>2, <3>1
      <4>2. \A j \in 1 .. Len(v) : ~(j > i) BY <1>2, <3>1
      <4> QED BY <4>1, <4>2
    <3>2. CASE i # k + 1
      <4>1. i \in 2 .. k /\ i \in 1 .. k BY <1>2, <3>2
      <4>2. u[i].payload = << >> BY <1>2, <2>2, <4>1
      <4>3. l.torn /\ \A j \in 1 .. k : j > i => u[j].payload = << >> BY <4>1, <4>2 DEF LineOK
      <4>4. \A j \in 1 .. Len(v) : j > i => v[j].payload = << >> BY <1>2, <1>4, <4>3
      <4> QED BY <4>3, <4>4
    <3> QED BY <3>1, <3>2
  <2> QED BY <2>1, <2>2 DEF LineOK
<1>6. k >= 1 => v[1] = u[1]
  <2>1. k >= 1 => 1 \in 1 .. k BY <1>2
  <2> QED BY <1>2, <2>1
<1>7. Ragged(u) <=> k >= 1 /\ u[1].payload = << >> BY <1>1, RaggedIs
<1>8. Ragged(v) <=> v[1].payload = << >>
  <2>1. Len(v) >= 1 BY <1>2
  <2> QED BY <1>1, <2>1, RaggedIs
<1>9. k = 0 => v[1] = e BY <1>2
<1>10. k = 0 \/ k >= 1 BY <1>2
<1> HIDE DEF u, v, k
<1>11. Fresh(l) => Fresh(m)
  <2> SUFFICES ASSUME Fresh(l) PROVE Fresh(m) OBVIOUS
  <2>1. ASSUME Ragged(v) PROVE m.torn /\ \A j \in 1 .. Len(v) : v[j].payload = << >>
    <3>1. CASE k = 0
      <4>1. e.payload = << >> BY <1>8, <1>9, <2>1, <3>1
      <4>2. \A j \in 1 .. Len(v) : j = k + 1 BY <1>2, <3>1
      <4> QED BY <1>2, <4>1, <4>2
    <3>2. CASE k >= 1
      <4>1. Ragged(u) BY <1>6, <1>7, <1>8, <2>1, <3>2
      <4>2. l.torn /\ \A j \in 1 .. k : u[j].payload = << >> BY <4>1 DEF Fresh, u, k
      <4> QED BY <1>2, <1>4, <4>2
    <3> QED BY <1>10, <3>1, <3>2
  <2>2. ~m.torn /\ m.end # "lost" => Coming(v) = m.sent
    <3>1. ~l.torn /\ l.end # "lost" => Coming(u) = l.sent BY DEF Fresh, u
    <3> QED BY <1>3, <3>1
  <2> QED BY <2>1, <2>2 DEF Fresh, v
<1>12. ASSUME NEW b, Synchronous(l, b) PROVE Synchronous(m, b)
  <2> SUFFICES ASSUME Hopeful(m) PROVE Closed(b \o Half(v)) BY DEF Synchronous, v
  <2>1. ~m.torn \/ \E j \in 1 .. Len(v) : v[j].payload # << >> BY DEF Hopeful, v
  <2>2. Hopeful(l) /\ Half(v) = Half(u)
    <3>1. CASE ~m.torn
      <4>1. ~l.torn BY <3>1
      <4>2. e.payload # << >> BY <3>1
      <4>3. Half(v) = Half(u) BY <1>6, <1>7, <1>8, <1>9, <1>10, <4>2 DEF Half
      <4> QED BY <4>1, <4>3 DEF Hopeful
    <3>2. CASE m.torn
      <4>1. e.payload = << >> BY <3>2
      <4>2. PICK j \in 1 .. k : v[j].payload # << >> BY <1>2, <1>4, <2>1, <3>2, <4>1
      <4>3. u[j].payload # << >> BY <1>2, <4>2
      <4>4. k >= 1 BY <1>2, <4>2
      <4>5. Half(v) = Half(u) BY <1>6, <1>7, <1>8, <4>4 DEF Half
      <4>6. Hopeful(l) BY <4>3 DEF Hopeful, u, k
      <4> QED BY <4>5, <4>6
    <3> QED BY <3>1, <3>2
  <2> QED BY <1>12, <2>2 DEF Synchronous, u
<1>13. Ragged(v) => Ragged(u) \/ m.torn BY <1>6, <1>7, <1>8, <1>9, <1>10
<1> QED BY <1>3, <1>5, <1>11, <1>12, <1>13 DEF u, v

\* The other side is closed, or lost.
LEMMA LineEnds ==
  ASSUME NEW t, NEW l \in Connection, NEW m \in Connection, LineOK(t, l),
         m.client = l.client, m.sent = l.sent, m.torn = l.torn,
         \/ l.end # "lost" /\ m.end # "lost" /\ m.pipe = l.pipe
         \/ m.end = "lost" /\ m.pipe = << >> /\ t # "serial"
  PROVE  /\ LineOK(t, m)
         /\ Fresh(l) => Fresh(m)
         /\ \A b : Synchronous(l, b) => Synchronous(m, b)
<1>1. CASE l.end # "lost" /\ m.end # "lost" /\ m.pipe = l.pipe
  BY <1>1 DEF LineOK, Fresh, Synchronous, Hopeful
<1>2. CASE m.end = "lost" /\ m.pipe = << >> /\ t # "serial"
  <2>1. Len(<< >>) = 0 /\ 1 .. 0 = {} /\ 2 .. 0 = {} OBVIOUS
  <2>2. LineOK(t, m) BY <1>2, <2>1 DEF LineOK
  <2> QED BY <1>2, <2>2 DEF Fresh, Synchronous, Hopeful, Ragged
<1> QED BY <1>1, <1>2

\* The pieces of a pipe, behind the first: frames, and then what has been cut.
Lined(pipe) ==
  /\ \A i \in 1 .. Len(pipe) : pipe[i].payload # << >> => pipe[i].bytes = Slip(pipe[i].payload)
  /\ \A i \in 2 .. Len(pipe) : pipe[i].payload = << >> =>
       \A j \in 1 .. Len(pipe) : j > i => pipe[j].payload = << >>

\* All of them are frames, but for the first.
Whole(pipe) == \A i \in 2 .. Len(pipe) : pipe[i].payload # << >>

\* What is in a pipe: the end of a frame, frames, and what is left of others.
LEMMA Layout ==
  ASSUME NEW q \in Seq(AnyPiece), Lined(q), q # << >>
  PROVE  /\ \E w \in Seq(Octet) : Joined(q) = (Half(q) \o Slips(Frames(q))) \o w
         /\ Whole(q) => Joined(q) = Half(q) \o Slips(Frames(q))
         /\ ~Ragged(q) /\ Whole(q) => Frames(q) = Coming(q)
<1>1. Len(q) \in Nat /\ Len(q) >= 1 /\ 1 \in 1 .. Len(q) BY EmptySeq
<1>2. \A x \in Seq(Octet) : << >> \o x = x /\ x \o << >> = x BY ConcatEmptySeq
<1>3. Ragged(q) <=> q[1].payload = << >> BY <1>1, RaggedIs
<1>4. CASE ~Ragged(q)
  <2>1. Half(q) = << >> BY <1>4 DEF Half
  <2>2. Orderly(q)
    <3>1. \A i \in 1 .. Len(q) : i = 1 \/ i \in 2 .. Len(q) BY <1>1
    <3> QED BY <1>3, <1>4, <3>1 DEF Orderly, Lined
  <2>3. PICK w \in Seq(Octet) : Joined(q) = Slips(Frames(q)) \o w BY <2>2, OrderlyLayout
  <2>4. Slips(Frames(q)) \in Seq(Octet) BY FramesIs, SlipsIs
  <2>5. Half(q) \o Slips(Frames(q)) = Slips(Frames(q)) BY <1>2, <2>1, <2>4
  <2>6. Whole(q) => Full(q)
    <3>1. \A i \in 1 .. Len(q) : i = 1 \/ i \in 2 .. Len(q) BY <1>1
    <3> QED BY <1>3, <1>4, <3>1 DEF Full, Lined, Whole
  <2> QED BY <2>3, <2>5, <2>6, FullLayout
<1>5. CASE Ragged(q)
  <2> DEFINE h == q[1]
             t == SubSeq(q, 2, Len(q))
  <2>1. t \in Seq(AnyPiece) /\ Len(t) = Len(q) - 1 /\ \A i \in 1 .. Len(q) - 1 : t[i] = q[1 + i]
    <3>1. 1 \in 0 .. Len(q) /\ 1 + 1 = 2 BY <1>1
    <3>2. /\ SubSeq(q, 1 + 1, Len(q)) \in Seq(AnyPiece) /\ Len(SubSeq(q, 1 + 1, Len(q))) = Len(q) - 1
          /\ \A i \in 1 .. Len(q) - 1 : SubSeq(q, 1 + 1, Len(q))[i] = q[1 + i]
      BY <3>1, RestIs
    <3> QED BY <3>1, <3>2
  <2>2. h \in AnyPiece /\ << h >> \in Seq(AnyPiece) BY <1>1, ElementOfSeq
  <2>3. q = << h >> \o t
    <3>1. SubSeq(q, 1, 0 + 1) = SubSeq(q, 1, 0) \o << q[0 + 1] >>
      <4>1. 0 \in 0 .. Len(q) /\ 0 < Len(q) BY <1>1
      <4> QED BY <4>1, FrontLonger
    <3>2. SubSeq(q, 1, 0) = << >>
      <4>1. 0 \in 0 .. Len(q) BY <1>1
      <4> QED BY <4>1, PrefixIs, EmptySeq
    <3>3. << >> \o << h >> = << h >> BY <2>2, ConcatEmptySeq
    <3>7. 0 + 1 = 1 OBVIOUS
    <3>4. SubSeq(q, 1, 1) = << h >> BY <3>1, <3>2, <3>3, <3>7
    <3>5. 1 \in 0 .. Len(q) /\ 1 + 1 = 2 BY <1>1
    <3>6. SubSeq(q, 1, 1) \o SubSeq(q, 1 + 1, Len(q)) = q BY <3>5, Halves
    <3> QED BY <3>4, <3>5, <3>6
  <2>4. Half(q) = h.bytes /\ h.bytes \in Seq(Octet) BY <1>5, <2>2 DEF Half, AnyPiece
  <2>5. Frames(<< h >>) = << >> BY <1>3, <1>5, <2>2, FramesIs
  <2> HIDE DEF h, t
  <2>6. Joined(q) = h.bytes \o Joined(t) BY <2>1, <2>2, <2>3, JoinedIs
  <2>7. Frames(q) = Frames(t)
    <3>1. Frames(q) = << >> \o Frames(t) BY <2>1, <2>2, <2>3, <2>5, FramesIs
    <3>2. Frames(t) \in Seq(Payloads) BY <2>1, FramesIs
    <3> QED BY <3>1, <3>2, ConcatEmptySeq
  <2>8. \A i \in 1 .. Len(t) : 1 + i \in 1 .. Len(q) /\ 1 + i \in 2 .. Len(q) /\ i \in 1 .. Len(q) - 1
    BY <1>1, <2>1
  <2>9. Orderly(t)
    <3>1. ASSUME NEW i \in 1 .. Len(t), t[i].payload = << >>, NEW j \in 1 .. Len(t), j > i
          PROVE  t[j].payload = << >>
      <4>1. 1 + i \in 2 .. Len(q) /\ 1 + j \in 1 .. Len(q) /\ 1 + j > 1 + i BY <2>8, <3>1, <1>1, <2>1
      <4>2. t[i] = q[1 + i] /\ t[j] = q[1 + j] BY <2>1, <2>8
      <4> QED BY <3>1, <4>1, <4>2 DEF Lined
    <3>2. ASSUME NEW i \in 1 .. Len(t), t[i].payload # << >>
          PROVE  t[i].bytes = Slip(t[i].payload)
      <4>1. t[i] = q[1 + i] /\ 1 + i \in 1 .. Len(q) BY <2>1, <2>8
      <4> QED BY <3>2, <4>1 DEF Lined
    <3> QED BY <3>1, <3>2 DEF Orderly
  <2>10. Whole(q) => Full(t)
    <3>1. ASSUME Whole(q), NEW i \in 1 .. Len(t)
          PROVE  t[i].payload # << >> /\ t[i].bytes = Slip(t[i].payload)
      <4>1. t[i] = q[1 + i] /\ 1 + i \in 1 .. Len(q) /\ 1 + i \in 2 .. Len(q) BY <2>1, <2>8
      <4> QED BY <3>1, <4>1 DEF Lined, Whole
    <3> QED BY <3>1 DEF Full
  <2>11. Slips(Frames(t)) \in Seq(Octet) BY <2>1, FramesIs, SlipsIs
  <2>12. \E w \in Seq(Octet) : Joined(q) = (Half(q) \o Slips(Frames(q))) \o w
    <3>1. PICK w \in Seq(Octet) : Joined(t) = Slips(Frames(t)) \o w BY <2>1, <2>9, OrderlyLayout
    <3> DEFINE x == h.bytes
               y == Slips(Frames(t))
    <3>2. x \in Seq(Octet) /\ y \in Seq(Octet) BY <2>4, <2>11
    <3>3. Joined(q) = x \o (y \o w) /\ Half(q) = x /\ Slips(Frames(q)) = y BY <2>4, <2>6, <2>7, <3>1
    <3> HIDE DEF x, y
    <3>4. (x \o y) \o w = x \o (y \o w) BY <3>2, Associative, SMTT(30)
    <3>5. Joined(q) = (Half(q) \o Slips(Frames(q))) \o w BY <3>3, <3>4
    <3> QED BY <3>5
  <2>13. Whole(q) => Joined(q) = Half(q) \o Slips(Frames(q))
    BY <2>1, <2>4, <2>6, <2>7, <2>10, FullLayout
  <2> QED BY <1>5, <2>12, <2>13
<1> QED BY <1>4, <1>5

\* The front of such a pipe.
LEMMA FrontIs ==
  ASSUME NEW q \in Seq(AnyPiece), NEW r \in Seq(AnyPiece), q # << >>
  PROVE  /\ Lined(q \o r) => Lined(q)
         /\ Half(q \o r) = Half(q) /\ (Ragged(q \o r) <=> Ragged(q))
         /\ q \o r \in Seq(AnyPiece) /\ Len(q \o r) = Len(q) + Len(r)
         /\ Len(q) \in Nat /\ Len(q) >= 1 /\ Len(r) \in Nat
         /\ \A i \in 1 .. Len(q) : (q \o r)[i] = q[i]
         /\ \A i \in 1 .. Len(r) : (q \o r)[Len(q) + i] = r[i]
<1> DEFINE pipe == q \o r
           k == Len(q)
           n == Len(r)
<1>1. /\ pipe \in Seq(AnyPiece) /\ Len(pipe) = k + n
      /\ \A i \in 1 .. k + n : pipe[i] = IF i <= k THEN q[i] ELSE r[i - k]
  BY ConcatProperties
<1>2. k \in Nat /\ k >= 1 /\ n \in Nat BY EmptySeq
<1>3. Ragged(q) <=> k >= 1 /\ q[1].payload = << >> BY RaggedIs
<1> HIDE DEF pipe, k, n
<1>4. \A i \in 1 .. k : pipe[i] = q[i] /\ i \in 1 .. Len(pipe) BY <1>1, <1>2
<1>5. ASSUME NEW i \in 1 .. n PROVE pipe[k + i] = r[i]
  <2>1. k + i \in 1 .. k + n /\ ~(k + i <= k) /\ (k + i) - k = i BY <1>2
  <2> QED BY <1>1, <2>1
<1>6. 1 \in 1 .. k /\ Len(pipe) >= 1 BY <1>1, <1>2
<1>7. pipe[1] = q[1] BY <1>4, <1>6
<1>8. Ragged(pipe) <=> Ragged(q) BY <1>1, <1>2, <1>3, <1>6, <1>7, RaggedIs
<1>9. Half(pipe) = Half(q) BY <1>7, <1>8 DEF Half
<1>10. ASSUME Lined(pipe) PROVE Lined(q)
  <2>1. \A i \in 2 .. k : i \in 2 .. Len(pipe) /\ i \in 1 .. k BY <1>1, <1>2
  <2>2. \A i \in 1 .. k : q[i].payload # << >> => q[i].bytes = Slip(q[i].payload)
    BY <1>4, <1>10 DEF Lined
  <2>3. \A i \in 2 .. k : q[i].payload = << >> =>
          \A j \in 1 .. k : j > i => q[j].payload = << >>
    BY <1>4, <1>10, <2>1 DEF Lined
  <2> QED BY <2>2, <2>3 DEF Lined, k
<1> QED BY <1>1, <1>2, <1>4, <1>5, <1>8, <1>9, <1>10 DEF pipe, k, n

\* What is left of a piece.
LEMMA LeftIs ==
  ASSUME NEW y \in Seq(Octet), NEW r \in Seq(AnyPiece)
  PROVE  LET c == << Piece(y, << >>) >> \o r
         IN  /\ Piece(y, << >>) \in AnyPiece
             /\ c \in Seq(AnyPiece) /\ c # << >> /\ Len(c) = 1 + Len(r) /\ Len(r) \in Nat
             /\ c[1].payload = << >> /\ \A i \in 1 .. Len(r) : c[1 + i] = r[i]
             /\ Ragged(c) /\ Half(c) = y
<1> DEFINE e == Piece(y, << >>)
           s == << e >>
           c == s \o r
<1>1. e \in AnyPiece /\ e.payload = << >> /\ e.bytes = y BY DEF AnyPiece, Piece, Framed
<1> HIDE DEF e
<1>2. s \in Seq(AnyPiece) /\ Len(s) = 1 /\ s[1] = e /\ s # << >> BY <1>1
<1> HIDE DEF s
<1>3. /\ Ragged(c) <=> Ragged(s)
      /\ c \in Seq(AnyPiece) /\ Len(c) = Len(s) + Len(r) /\ Len(r) \in Nat
      /\ \A i \in 1 .. Len(s) : c[i] = s[i]
      /\ \A i \in 1 .. Len(r) : c[Len(s) + i] = r[i]
  BY <1>2, FrontIs
<1>4. Ragged(s) BY <1>1, <1>2, RaggedIs
<1> HIDE DEF c
<1>5. c[1] = e
  <2>1. 1 \in 1 .. Len(s) BY <1>2
  <2> QED BY <1>2, <1>3, <2>1
<1>6. Half(c) = y BY <1>1, <1>3, <1>4, <1>5 DEF Half
<1>7. c # << >>
  <2>1. Len(c) # 0 BY <1>2, <1>3
  <2>2. Len(<< >>) = 0 OBVIOUS
  <2> QED BY <2>1, <2>2
<1> QED BY <1>1, <1>2, <1>3, <1>4, <1>5, <1>6, <1>7 DEF c, s, e

\* A pipe with something in it.
LEMMA SomeIs ==
  ASSUME NEW pipe \in Seq(AnyPiece), NEW n \in 1 .. Len(Joined(pipe))
  PROVE  pipe # << >> /\ n \in Nat /\ n >= 1 /\ Len(Joined(pipe)) \in Nat
<1>1. Len(<< >>) = 0 OBVIOUS
<1>2. Len(Joined(pipe)) \in Nat BY JoinedIs, LenProperties
<1>3. pipe = << >> => Len(Joined(pipe)) = 0 BY <1>1, JoinedIs
<1> QED BY <1>2, <1>3

\* A connection keeps its form when bytes are taken from it.
LEMMA LineCut ==
  ASSUME NEW t, NEW l \in Connection, LineOK(t, l), NEW n \in 1 .. Len(Joined(l.pipe)),
         NEW m, m = [l EXCEPT !.pipe = Cut(l.pipe, n)]
  PROVE  m \in Connection /\ LineOK(t, m) /\ l.end # "lost"
<1> DEFINE pipe == l.pipe
           c == Cut(pipe, n)
<1>1. pipe \in Seq(AnyPiece) BY DEF Connection
<1>2. /\ m = [client |-> l.client, pipe |-> c, end |-> l.end, sent |-> l.sent, torn |-> l.torn]
      /\ m.client = l.client /\ m.end = l.end /\ m.torn = l.torn /\ m.pipe = c
  BY DEF Connection
<1>3. pipe # << >> BY <1>1, SomeIs
<1>4. l.end # "lost" BY <1>3 DEF LineOK
<1> DEFINE Behind(k, r) ==
             /\ k \in {0, 1} /\ c \in Seq(AnyPiece) /\ Len(c) = k + Len(r)
             /\ \A i \in 1 .. Len(r) : c[k + i] = r[i]
             /\ k = 1 => c[1].payload = << >>
<1>5. ASSUME NEW z \in Seq(AnyPiece), NEW r \in Seq(AnyPiece), z # << >>, pipe = z \o r,
             NEW k, Behind(k, r)
      PROVE  m \in Connection /\ LineOK(t, m)
  <2> DEFINE a == Len(z)
             b == Len(r)
  <2>1. /\ Len(pipe) = a + b /\ a \in Nat /\ a >= 1 /\ b \in Nat
        /\ \A i \in 1 .. b : pipe[a + i] = r[i]
    BY <1>5, FrontIs
  <2>9. k \in {0, 1} /\ (k = 1 => c[1].payload = << >>) BY <1>5
  <2> HIDE DEF a, b
  <2>2. m \in Connection BY <1>2, <1>5 DEF Connection
  <2>3. Len(c) = k + b /\ \A i \in 1 .. b : c[k + i] = r[i] BY <1>5 DEF b
  <2> HIDE DEF c, pipe
  <2>4. ASSUME NEW i \in 1 .. Len(c), ~(k = 1 /\ i = 1)
        PROVE  /\ i - k \in 1 .. b /\ c[i] = pipe[a + (i - k)]
               /\ a + (i - k) \in 1 .. Len(pipe)
               /\ i >= 2 => a + (i - k) \in 2 .. Len(pipe)
    <3>1. i - k \in 1 .. b /\ k + (i - k) = i BY <2>1, <2>3, <2>4, <2>9
    <3>2. c[i] = r[i - k] /\ pipe[a + (i - k)] = r[i - k] BY <2>1, <2>3, <3>1
    <3>3. a + (i - k) \in 1 .. Len(pipe) /\ (i >= 2 => a + (i - k) \in 2 .. Len(pipe))
      BY <2>1, <2>9, <3>1
    <3> QED BY <3>1, <3>2, <3>3
  <2>5. \A i \in 1 .. Len(c) : c[i].payload # << >> => c[i].bytes = Encoded(t, c[i].payload)
    <3>1. SUFFICES ASSUME NEW i \in 1 .. Len(c), c[i].payload # << >>
                   PROVE  c[i].bytes = Encoded(t, c[i].payload)
      OBVIOUS
    <3>2. ~(k = 1 /\ i = 1) BY <2>9, <3>1
    <3>3. c[i] = pipe[a + (i - k)] /\ a + (i - k) \in 1 .. Len(pipe) BY <2>4, <3>2
    <3> QED BY <3>1, <3>3 DEF LineOK, pipe
  <2>6. \A i \in 2 .. Len(c) : c[i].payload = << >> =>
          l.torn /\ \A j \in 1 .. Len(c) : j > i => c[j].payload = << >>
    <3>1. SUFFICES ASSUME NEW i \in 2 .. Len(c), c[i].payload = << >>
                   PROVE  l.torn /\ \A j \in 1 .. Len(c) : j > i => c[j].payload = << >>
      OBVIOUS
    <3>2. i \in 1 .. Len(c) /\ i >= 2 BY <2>1, <2>3, <2>9
    <3>3. c[i] = pipe[a + (i - k)] /\ a + (i - k) \in 2 .. Len(pipe) BY <2>4, <3>2
    <3>4. /\ l.torn
          /\ \A j \in 1 .. Len(pipe) : j > a + (i - k) => pipe[j].payload = << >>
      BY <3>1, <3>3 DEF LineOK, pipe
    <3>5. ASSUME NEW j \in 1 .. Len(c), j > i PROVE c[j].payload = << >>
      <4>1. ~(k = 1 /\ j = 1) BY <3>2, <3>5
      <4>2. c[j] = pipe[a + (j - k)] /\ a + (j - k) \in 1 .. Len(pipe) BY <2>4, <4>1
      <4>3. a + (j - k) > a + (i - k) BY <2>1, <2>9, <3>5
      <4> QED BY <3>4, <4>2, <4>3
    <3> QED BY <3>4, <3>5
  <2>7. (l.end = "lost" => FALSE) /\ (l.client = "tty" => t = "serial") BY <1>4 DEF LineOK
  <2>8. LineOK(t, m) BY <1>2, <2>5, <2>6, <2>7 DEF LineOK, c
  <2> QED BY <2>2, <2>8
<1> HIDE DEF c, pipe
<1> DEFINE q == SubSeq(pipe, 1, Taken(pipe, n))
<1>6. /\ q \in Seq(AnyPiece)
      /\ \/ \E r \in Seq(AnyPiece) : CutBetween(pipe, n, q, r)
         \/ \E r \in Seq(AnyPiece), e \in AnyPiece, x, y \in Seq(Octet) :
              CutInside(pipe, n, q, r, e, x, y)
  BY <1>1, CutIs DEF pipe
<1> HIDE DEF q
<1>7. ASSUME NEW r \in Seq(AnyPiece), CutBetween(pipe, n, q, r)
      PROVE  m \in Connection /\ LineOK(t, m)
  <2>1. pipe = q \o r /\ c = r /\ q # << >> BY <1>7 DEF CutBetween, c
  <2>2. Len(c) = 0 + Len(r) /\ \A i \in 1 .. Len(r) : c[0 + i] = r[i] BY <2>1, LenProperties
  <2>3. Behind(0, r) BY <2>1, <2>2
  <2> HIDE DEF Behind
  <2> QED BY <1>5, <1>6, <2>1, <2>3
<1>8. ASSUME NEW r \in Seq(AnyPiece), NEW e \in AnyPiece, NEW x \in Seq(Octet),
             NEW y \in Seq(Octet), CutInside(pipe, n, q, r, e, x, y)
      PROVE  m \in Connection /\ LineOK(t, m)
  <2> DEFINE z == q \o << e >>
  <2>1. pipe = z \o r /\ c = << Piece(y, << >>) >> \o r BY <1>8 DEF CutInside, c
  <2>2. z \in Seq(AnyPiece) /\ z # << >>
    <3>1. z \in Seq(AnyPiece) /\ Len(z) = Len(q) + 1 /\ Len(q) \in Nat BY <1>6, LongerIs
    <3>2. Len(z) # 0 BY <3>1
    <3>3. Len(<< >>) = 0 OBVIOUS
    <3> QED BY <3>1, <3>2, <3>3
  <2>3. /\ c \in Seq(AnyPiece) /\ Len(c) = 1 + Len(r) /\ c[1].payload = << >>
        /\ \A i \in 1 .. Len(r) : c[1 + i] = r[i]
    BY <2>1, LeftIs
  <2>4. Behind(1, r) BY <2>3
  <2> HIDE DEF z, Behind
  <2> QED BY <1>5, <2>1, <2>2, <2>4
<1> QED BY <1>4, <1>6, <1>7, <1>8

-----------------------------------------------------------------------------
(***************************************************************************)
(* What a receive brings, and what a round of the loop takes of it.        *)
(***************************************************************************)

\* A sequence is its first element and the others.
LEMMA HeadAndTail ==
  ASSUME NEW S, NEW s \in Seq(S), s # << >>
  PROVE  /\ s = << s[1] >> \o Tail(s) /\ s[1] \in S /\ << s[1] >> \in Seq(S) /\ Tail(s) \in Seq(S)
         /\ Head(s) = s[1]
<1>1. /\ Len(s) \in Nat /\ Len(s) >= 1 /\ Tail(s) \in Seq(S) /\ Len(Tail(s)) = Len(s) - 1
      /\ \A i \in 1 .. Len(s) - 1 : Tail(s)[i] = s[i + 1]
      /\ Head(s) = s[1]
  <2>1. Len(s) \in Nat /\ Len(s) >= 1 BY EmptySeq
  <2>2. /\ Tail(s) \in Seq(S) /\ Len(Tail(s)) = Len(s) - 1
        /\ \A i \in 1 .. Len(Tail(s)) : Tail(s)[i] = s[i + 1] /\ Head(s) = s[1]
    BY HeadTailProperties
  <2>3. Head(s) = s[1] BY HeadTailProperties
  <2> QED BY <2>1, <2>2, <2>3
<1>2. s[1] \in S
  <2>1. 1 \in 1 .. Len(s) BY <1>1
  <2> QED BY <2>1, ElementOfSeq
<1> DEFINE e == s[1]
           v == Tail(s)
           u == << e >>
           c == u \o v
<1>3. u \in Seq(S) /\ Len(u) = 1 /\ u[1] = e BY <1>2
<1>4. v \in Seq(S) /\ Len(v) = Len(s) - 1 /\ \A i \in 1 .. Len(s) - 1 : v[i] = s[i + 1] BY <1>1
<1> HIDE DEF u, v, e
<1>5. /\ c \in Seq(S) /\ Len(c) = Len(u) + Len(v)
      /\ \A i \in 1 .. Len(u) + Len(v) : c[i] = IF i <= Len(u) THEN u[i] ELSE v[i - Len(u)]
  <2>1. u \in Seq(S) /\ v \in Seq(S) BY <1>3, <1>4
  <2> QED BY <2>1, ConcatProperties
<1> HIDE DEF c
<1>6. Len(c) = Len(s) BY <1>1, <1>3, <1>4, <1>5
<1>7. ASSUME NEW i \in 1 .. Len(c) PROVE c[i] = s[i]
  <2>1. CASE i = 1
    <3>1. i \in 1 .. Len(u) + Len(v) /\ i <= Len(u) BY <1>1, <1>3, <1>4, <2>1
    <3>2. c[i] = u[1] BY <1>5, <2>1, <3>1
    <3>3. u[1] = s[1] BY <1>3 DEF e
    <3> QED BY <2>1, <3>2, <3>3
  <2>2. CASE i # 1
    <3>1. i - 1 \in 1 .. Len(s) - 1 /\ (i - 1) + 1 = i /\ ~(i <= 1) BY <1>1, <1>6, <2>2
    <3>2. c[i] = v[i - 1] BY <1>3, <1>5, <3>1
    <3> QED BY <1>4, <3>1, <3>2
  <2> QED BY <2>1, <2>2
<1>8. c = s BY <1>5, <1>6, <1>7, SeqEqual
<1> QED BY <1>1, <1>2, <1>3, <1>8 DEF c, u, v, e

\* Frames behind such bytes.
LEMMA ClosedFrames ==
  ASSUME NEW u \in Seq(Octet), NEW F \in Seq(Payloads), F # << >> \/ Closed(u)
  PROVE  Closed(u \o Slips(F))
<1>1. CASE F = << >>
  <2>1. Slips(F) = << >> BY <1>1, SlipsIs
  <2>2. u \o << >> = u BY ConcatEmptySeq
  <2> QED BY <1>1, <2>1, <2>2
<1>2. CASE F # << >>
  <2>1. PICK f \in Seq(Payloads), p \in Payloads : F = Append(f, p)
    BY <1>2, SequenceEmptyOrAppend
  <2>2. F = f \o << p >> /\ << p >> \in Seq(Payloads) BY <2>1, LongerIs
  <2>3. Slips(F) = Slips(f) \o Slip(p) BY <2>2, SlipsIs
  <2>4. Slips(f) \in Seq(Octet) /\ p \in Seq(Octet) /\ p # << >> /\ Slip(p) \in Seq(Octet)
    BY SlipsIs, PayloadIs, SlipParts
  <2>5. (u \o Slips(f)) \o Slip(p) = u \o (Slips(f) \o Slip(p)) /\ u \o Slips(f) \in Seq(Octet)
    <3> DEFINE y == Slips(f)
               z == Slip(p)
    <3>1. y \in Seq(Octet) /\ z \in Seq(Octet) BY <2>4
    <3> HIDE DEF y, z
    <3>2. (u \o y) \o z = u \o (y \o z) /\ u \o y \in Seq(Octet) BY <3>1, Associative, SMTT(30)
    <3> QED BY <3>2 DEF y, z
  <2>6. Closed((u \o Slips(f)) \o Slip(p)) BY <2>4, <2>5, ClosedSlip
  <2> QED BY <2>3, <2>5, <2>6
<1> QED BY <1>1, <1>2

\* Pieces without a frame.
LEMMA NoFrames ==
  \A s \in Seq(AnyPiece) :
    (\A i \in 1 .. Len(s) : s[i].payload = << >>) => Frames(s) = << >>
<1> DEFINE None(s) == \A i \in 1 .. Len(s) : s[i].payload = << >>
           T == { s \in Seq(AnyPiece) : None(s) => Frames(s) = << >> }
<1>1. << >> \in T
  <2>1. << >> \in Seq(AnyPiece) OBVIOUS
  <2> QED BY <2>1, FramesIs
<1>2. ASSUME NEW s \in Seq(AnyPiece), NEW e \in AnyPiece, s \in T PROVE Append(s, e) \in T
  <2> DEFINE a == s \o << e >>
  <2>1. /\ Append(s, e) = a /\ << e >> \in Seq(AnyPiece) /\ a \in Seq(AnyPiece)
        /\ Len(a) = Len(s) + 1 /\ Len(s) \in Nat /\ a[Len(s) + 1] = e
        /\ \A i \in 1 .. Len(s) : a[i] = s[i]
    BY LongerIs
  <2>2. Frames(a) = Frames(s) \o Frames(<< e >>) BY <2>1, FramesIs
  <2> HIDE DEF a
  <2>3. SUFFICES ASSUME None(a) PROVE Frames(a) = << >> BY <2>1
  <2>4. Len(s) + 1 \in 1 .. Len(a) /\ \A i \in 1 .. Len(s) : i \in 1 .. Len(a) BY <2>1
  <2>5. None(s) /\ e.payload = << >> BY <2>1, <2>3, <2>4
  <2>6. Frames(s) = << >> BY <1>2, <2>5
  <2>7. Frames(<< e >>) = << >> BY <2>5, FramesIs
  <2>8. << >> \o << >> = << >>
    <3>1. << >> \in Seq(Payloads) OBVIOUS
    <3> QED BY <3>1, ConcatEmptySeq
  <2> QED BY <2>2, <2>6, <2>7, <2>8
<1>3. Seq(AnyPiece) \subseteq T
  <2> HIDE DEF T
  <2> QED BY <1>1, <1>2, SequenceInduction
<1> QED BY <1>3

\* The pieces of a connection.
LEMMA LineIsLined ==
  ASSUME NEW t, t # "prefix", NEW l \in Connection, LineOK(t, l)
  PROVE  Lined(l.pipe)
<1>1. \A p : Encoded(t, p) = Slip(p) BY DEF Encoded
<1> QED BY <1>1 DEF LineOK, Lined

\* What has been received before a frame that may still come, all whole.
LEMMA HopefulWhole ==
  ASSUME NEW t, NEW l \in Connection, LineOK(t, l),
         NEW z \in Seq(AnyPiece), NEW r \in Seq(AnyPiece), z # << >>, l.pipe = z \o r,
         ~l.torn \/ \E j \in 1 .. Len(r) : r[j].payload # << >>
  PROVE  Whole(z) /\ ~Ragged(r)
<1> DEFINE pipe == l.pipe
           a == Len(z)
           b == Len(r)
<1>1. /\ Len(pipe) = a + b /\ a \in Nat /\ a >= 1 /\ b \in Nat
      /\ \A i \in 1 .. a : pipe[i] = z[i]
      /\ \A i \in 1 .. b : pipe[a + i] = r[i]
  BY FrontIs
<1>2. \A i \in 2 .. Len(pipe) : pipe[i].payload = << >> =>
        l.torn /\ \A j \in 1 .. Len(pipe) : j > i => pipe[j].payload = << >>
  BY DEF LineOK
<1>3. ~l.torn \/ \E j \in 1 .. b : r[j].payload # << >> OBVIOUS
<1>4. Ragged(r) => b >= 1 /\ r[1].payload = << >> BY RaggedIs
<1> HIDE DEF pipe, a, b
<1>5. ASSUME NEW i \in 2 .. Len(pipe), pipe[i].payload = << >>, i <= a + 1 PROVE FALSE
  <2>1. l.torn /\ \A j \in 1 .. Len(pipe) : j > i => pipe[j].payload = << >> BY <1>2, <1>5
  <2>2. PICK j \in 1 .. b : r[j].payload # << >> BY <1>3, <2>1
  <2>3. a + j \in 1 .. Len(pipe) /\ a + j >= i BY <1>1, <1>5
  <2>4. pipe[a + j] = r[j] BY <1>1
  <2>5. a + j > i \/ a + j = i BY <1>1, <2>3
  <2> QED BY <1>5, <2>1, <2>2, <2>3, <2>4, <2>5
<1>6. Whole(z)
  <2>1. SUFFICES ASSUME NEW i \in 2 .. a, z[i].payload = << >> PROVE FALSE BY DEF Whole, a
  <2>2. i \in 2 .. Len(pipe) /\ i <= a + 1 /\ i \in 1 .. a BY <1>1
  <2> QED BY <1>1, <1>5, <2>1, <2>2
<1>7. ~Ragged(r)
  <2>1. SUFFICES ASSUME b >= 1, r[1].payload = << >> PROVE FALSE BY <1>4
  <2>2. a + 1 \in 2 .. Len(pipe) /\ a + 1 <= a + 1 /\ 1 \in 1 .. b BY <1>1, <2>1
  <2> QED BY <1>1, <1>5, <2>1, <2>2
<1> QED BY <1>6, <1>7

\* Where whole frames would be, a receiver stays between them, however much it takes.
LEMMA SynchronousCut ==
  ASSUME NEW t, t # "prefix", NEW l \in Connection, LineOK(t, l),
         NEW n \in 1 .. Len(Joined(l.pipe)), NEW b \in Seq(Octet),
         NEW m, m = [l EXCEPT !.pipe = Cut(l.pipe, n)],
         Synchronous(l, b) \/ Frames(SubSeq(l.pipe, 1, Taken(l.pipe, n))) # << >>
  PROVE  Synchronous(m, b \o SubSeq(Joined(l.pipe), 1, n))
<1> DEFINE pipe == l.pipe
           c == Cut(pipe, n)
           f == SubSeq(Joined(pipe), 1, n)
           q == SubSeq(pipe, 1, Taken(pipe, n))
<1>1. pipe \in Seq(AnyPiece) BY DEF Connection
<1>2. m.end = l.end /\ m.torn = l.torn /\ m.pipe = c BY DEF Connection
<1>3. Lined(pipe) BY LineIsLined
<1>4. SUFFICES ASSUME Hopeful(m) PROVE Closed((b \o f) \o Half(c)) BY <1>2 DEF Synchronous
<1>5. l.end # "lost" /\ (~l.torn \/ \E j \in 1 .. Len(c) : c[j].payload # << >>)
  BY <1>2, <1>4 DEF Hopeful
<1>6. /\ q \in Seq(AnyPiece)
      /\ \/ \E r \in Seq(AnyPiece) : CutBetween(pipe, n, q, r)
         \/ \E r \in Seq(AnyPiece), e \in AnyPiece, x, y \in Seq(Octet) :
              CutInside(pipe, n, q, r, e, x, y)
  BY <1>1, CutIs
<1>7. Synchronous(l, b) \/ Frames(q) # << >> OBVIOUS
<1> HIDE DEF c, f, q
<1>8. ASSUME NEW z \in Seq(AnyPiece), NEW r \in Seq(AnyPiece), z # << >>, pipe = z \o r,
             ~l.torn \/ \E j \in 1 .. Len(r) : r[j].payload # << >>,
             Frames(q) # << >> => Frames(z) # << >>
      PROVE  Closed(b \o Joined(z))
  <2>1. Whole(z) BY <1>8, HopefulWhole
  <2>2. Lined(z) /\ Half(z) = Half(pipe) BY <1>3, <1>8, FrontIs
  <2>3. Joined(z) = Half(z) \o Slips(Frames(z)) BY <1>8, <2>1, <2>2, Layout
  <2> DEFINE h == Half(z)
             F == Frames(z)
             s == Slips(F)
  <2>4. h \in Seq(Octet) /\ F \in Seq(Payloads) /\ s \in Seq(Octet) BY RaggedIs, FramesIs, SlipsIs
  <2>5. F # << >> \/ Closed(b \o h)
    <3>1. CASE Frames(q) # << >> BY <1>8, <3>1
    <3>2. CASE Synchronous(l, b)
      <4>1. Hopeful(l)
        <5>1. CASE ~l.torn BY <1>5, <5>1 DEF Hopeful
        <5>2. CASE l.torn
          <6>1. PICK j \in 1 .. Len(r) : r[j].payload # << >> BY <1>8, <5>2
          <6>2. Len(z) + j \in 1 .. Len(pipe) /\ pipe[Len(z) + j] = r[j]
            <7>1. /\ Len(pipe) = Len(z) + Len(r) /\ Len(z) \in Nat /\ Len(r) \in Nat
                  /\ \A i \in 1 .. Len(r) : pipe[Len(z) + i] = r[i]
              BY <1>8, FrontIs
            <7> QED BY <7>1
          <6> QED BY <1>5, <6>1, <6>2 DEF Hopeful
        <5> QED BY <5>1, <5>2
      <4> QED BY <2>2, <3>2, <4>1 DEF Synchronous
    <3> QED BY <1>7, <3>1, <3>2
  <2> HIDE DEF h, F
  <2>6. b \o h \in Seq(Octet) BY <2>4, Closes
  <2>7. Closed((b \o h) \o s) BY <2>4, <2>5, <2>6, ClosedFrames
  <2> HIDE DEF s
  <2>8. (b \o h) \o s = b \o (h \o s) BY <2>4, Shifts
  <2>9. Joined(z) = h \o s BY <2>3 DEF h, s, F
  <2> QED BY <2>7, <2>8, <2>9
<1> HIDE DEF pipe
<1>9. ASSUME NEW r \in Seq(AnyPiece), CutBetween(pipe, n, q, r)
      PROVE  Closed((b \o f) \o Half(c))
  <2>1. pipe = q \o r /\ c = r /\ q # << >> /\ f = Joined(q) BY <1>9 DEF CutBetween, c, f
  <2>2. ~l.torn \/ \E j \in 1 .. Len(r) : r[j].payload # << >> BY <1>5, <2>1
  <2>3. Closed(b \o Joined(q)) BY <1>6, <1>8, <2>1, <2>2
  <2>4. Half(c) = << >>
    <3>1. l.pipe = q \o r BY <2>1 DEF pipe
    <3>2. ~Ragged(r) BY <1>6, <2>1, <2>2, <3>1, HopefulWhole
    <3> QED BY <2>1, <3>2 DEF Half
  <2>5. (b \o f) \o << >> = b \o f
    <3>1. Joined(q) \in Seq(Octet) BY <1>6, JoinedIs
    <3>2. b \o f \in Seq(Octet) BY <2>1, <3>1, Closes
    <3> QED BY <3>2, Alone
  <2> QED BY <2>1, <2>3, <2>4, <2>5
<1>10. ASSUME NEW r \in Seq(AnyPiece), NEW e \in AnyPiece, NEW x \in Seq(Octet),
              NEW y \in Seq(Octet), CutInside(pipe, n, q, r, e, x, y)
       PROVE  Closed((b \o f) \o Half(c))
  <2> DEFINE z == q \o << e >>
             a == Joined(q)
  <2>1. /\ pipe = z \o r /\ c = << Piece(y, << >>) >> \o r
        /\ e.bytes = x \o y /\ f = a \o x
    BY <1>10 DEF CutInside, c, f
  <2>2. z \in Seq(AnyPiece) /\ z # << >> /\ << e >> \in Seq(AnyPiece)
    <3>1. z \in Seq(AnyPiece) /\ Len(z) = Len(q) + 1 /\ Len(q) \in Nat /\ << e >> \in Seq(AnyPiece)
      BY <1>6, LongerIs
    <3>2. Len(z) # 0 BY <3>1
    <3>3. Len(<< >>) = 0 OBVIOUS
    <3> QED BY <3>1, <3>2, <3>3
  <2>3. /\ Len(c) = 1 + Len(r) /\ Len(r) \in Nat /\ c[1].payload = << >>
        /\ \A i \in 1 .. Len(r) : c[1 + i] = r[i]
        /\ Half(c) = y
    BY <2>1, LeftIs
  <2>4. ~l.torn \/ \E j \in 1 .. Len(r) : r[j].payload # << >>
    <3>1. ASSUME NEW j \in 1 .. Len(c), c[j].payload # << >>
          PROVE  \E i \in 1 .. Len(r) : r[i].payload # << >>
      <4>1. j # 1 BY <2>3, <3>1
      <4>2. j - 1 \in 1 .. Len(r) /\ 1 + (j - 1) = j BY <2>3, <4>1
      <4> QED BY <2>3, <3>1, <4>2
    <3> QED BY <1>5, <3>1
  <2>5. Joined(z) = a \o (x \o y) /\ a \in Seq(Octet)
    <3> DEFINE s == << e >>
    <3>1. q \in Seq(AnyPiece) /\ s \in Seq(AnyPiece) BY <1>6, <2>2
    <3>2. Joined(s) = x \o y BY <2>1, JoinedIs
    <3> HIDE DEF s
    <3>3. Joined(q \o s) = Joined(q) \o Joined(s) /\ Joined(q) \in Seq(Octet) BY <3>1, JoinedIs
    <3> QED BY <3>2, <3>3 DEF s
  <2>6. Frames(q) # << >> => Frames(z) # << >>
    <3> DEFINE F == Frames(q)
               G == Frames(<< e >>)
    <3>1. Frames(z) = F \o G /\ F \in Seq(Payloads) /\ G \in Seq(Payloads)
      BY <1>6, <2>2, FramesIs
    <3> HIDE DEF F, G
    <3>2. Len(F \o G) = Len(F) + Len(G) BY <3>1, ConcatProperties
    <3>3. Len(F) \in Nat /\ Len(G) \in Nat /\ (F # << >> => Len(F) >= 1) BY <3>1, EmptySeq
    <3>4. Len(<< >>) = 0 OBVIOUS
    <3>5. F # << >> => F \o G # << >> BY <3>2, <3>3, <3>4
    <3> QED BY <3>1, <3>5 DEF F
  <2> HIDE DEF z, a
  <2>7. Closed(b \o Joined(z)) BY <1>8, <2>1, <2>2, <2>4, <2>6
  <2>8. (b \o (a \o x)) \o y = b \o (a \o (x \o y))
    <3>1. (a \o x) \o y = a \o (x \o y) BY <2>5, Shifts
    <3> DEFINE v == a \o x
    <3>2. v \in Seq(Octet) BY <2>5, Closes
    <3> HIDE DEF v
    <3>3. (b \o v) \o y = b \o (v \o y) BY <3>2, Shifts
    <3> QED BY <3>1, <3>3 DEF v
  <2> QED BY <2>1, <2>3, <2>5, <2>7, <2>8
<1> QED BY <1>6, <1>9, <1>10

\* What a receive has brought: something that ends before a frame, the frames that
\* are due, and something more.
Awaited(d, b) == \E u, w \in Seq(Octet) : b = u \o (Slips(d) \o w) /\ Closed(u)

\* Behind the first of the frames a receiver is between two frames, in any case.
LEMMA TailAwaited ==
  ASSUME NEW F \in Seq(Payloads), F # << >>, NEW u \in Seq(Octet), NEW v \in Seq(Octet)
  PROVE  Awaited(Tail(F), u \o (Slips(F) \o v))
<1> DEFINE p == F[1]
           g == Tail(F)
<1>1. F = << p >> \o g /\ p \in Payloads /\ << p >> \in Seq(Payloads) /\ g \in Seq(Payloads)
  BY HeadAndTail
<1> HIDE DEF p, g
<1>2. Slips(F) = Slip(p) \o Slips(g) BY <1>1, SlipsIs
<1> DEFINE s == Slip(p)
           y == Slips(g)
<1>3. s \in Seq(Octet) /\ y \in Seq(Octet) /\ p \in Seq(Octet) /\ p # << >>
  BY <1>1, PayloadIs, SlipParts, SlipsIs
<1>4. Closed(u \o s) BY <1>3, ClosedSlip
<1>5. u \o s \in Seq(Octet) /\ u \o ((s \o y) \o v) = (u \o s) \o (y \o v)
  <2>1. s \in Seq(Octet) BY <1>3
  <2>2. y \in Seq(Octet) BY <1>3
  <2> HIDE DEF s, y
  <2> DEFINE yv == y \o v
  <2>3. yv \in Seq(Octet) BY <2>2, Closes
  <2>4. (s \o y) \o v = s \o yv BY <2>1, <2>2, Shifts
  <2> HIDE DEF yv
  <2>5. (u \o s) \o yv = u \o (s \o yv) BY <2>1, <2>3, Shifts
  <2>6. u \o s \in Seq(Octet) BY <2>1, Closes
  <2> QED BY <2>4, <2>5, <2>6 DEF yv
<1> HIDE DEF s, y
<1>6. u \o (Slips(F) \o v) = (u \o s) \o (y \o v) BY <1>2, <1>5 DEF s, y
<1>7. u \o (Slips(F) \o v) = (u \o s) \o (Slips(g) \o v) BY <1>6 DEF y
<1>8. Awaited(g, u \o (Slips(F) \o v)) BY <1>4, <1>5, <1>7 DEF Awaited
<1> QED BY <1>8 DEF g

\* The frames that come whole are due, but for the first when the beginning of it
\* may not be found.
LEMMA AwaitedCut ==
  ASSUME NEW t, t # "prefix", NEW l \in Connection, LineOK(t, l),
         NEW n \in 1 .. Len(Joined(l.pipe)), NEW b \in Seq(Octet),
         NEW F, F = Frames(SubSeq(l.pipe, 1, Taken(l.pipe, n))), F # << >>
  PROVE  /\ F \in Seq(Payloads)
         /\ Synchronous(l, b) => Awaited(F, b \o SubSeq(Joined(l.pipe), 1, n))
         /\ Awaited(Tail(F), b \o SubSeq(Joined(l.pipe), 1, n))
<1> DEFINE pipe == l.pipe
           f == SubSeq(Joined(pipe), 1, n)
           q == SubSeq(pipe, 1, Taken(pipe, n))
           h == Half(pipe)
<1>1. pipe \in Seq(AnyPiece) BY DEF Connection
<1>2. Lined(pipe) BY LineIsLined
<1>3. /\ q \in Seq(AnyPiece)
      /\ \/ \E r \in Seq(AnyPiece) : CutBetween(pipe, n, q, r)
         \/ \E r \in Seq(AnyPiece), e \in AnyPiece, x, y \in Seq(Octet) :
              CutInside(pipe, n, q, r, e, x, y)
  BY <1>1, CutIs
<1>4. F = Frames(q) OBVIOUS
<1> HIDE DEF q
<1>5. F \in Seq(Payloads) BY <1>3, <1>4, FramesIs
<1>6. q # << >> BY <1>4, FramesIs
<1>7. /\ \E r \in Seq(AnyPiece) : pipe = q \o r
      /\ \E x \in Seq(Octet) : f = Joined(q) \o x
  <2>1. Joined(q) \in Seq(Octet) BY <1>3, JoinedIs
  <2>2. << >> \in Seq(Octet) /\ Joined(q) = Joined(q) \o << >> BY <2>1, Alone
  <2>3. ASSUME NEW r \in Seq(AnyPiece), CutBetween(pipe, n, q, r)
        PROVE  /\ \E s \in Seq(AnyPiece) : pipe = q \o s
               /\ \E x \in Seq(Octet) : f = Joined(q) \o x
    BY <2>2, <2>3 DEF CutBetween
  <2>4. ASSUME NEW r \in Seq(AnyPiece), NEW e \in AnyPiece, NEW x \in Seq(Octet),
               NEW y \in Seq(Octet), CutInside(pipe, n, q, r, e, x, y)
        PROVE  /\ \E s \in Seq(AnyPiece) : pipe = q \o s
               /\ \E v \in Seq(Octet) : f = Joined(q) \o v
    <3>1. pipe = (q \o << e >>) \o r /\ f = Joined(q) \o x BY <2>4 DEF CutInside
    <3>2. << e >> \in Seq(AnyPiece) BY LongerIs
    <3> DEFINE s == << e >>
    <3>3. s \in Seq(AnyPiece) BY <3>2
    <3> HIDE DEF s
    <3>4. q \in Seq(AnyPiece) BY <1>3
    <3>5. s \o r \in Seq(AnyPiece) BY <3>3, ConcatProperties
    <3>6. (q \o s) \o r = q \o (s \o r) BY <3>3, <3>4, Associative, SMTT(30)
    <3>7. pipe = q \o (s \o r) BY <3>1, <3>6 DEF s
    <3> QED BY <3>1, <3>5, <3>7
  <2> QED BY <1>3, <2>3, <2>4
<1>8. PICK r \in Seq(AnyPiece) : pipe = q \o r BY <1>7
<1>9. PICK x \in Seq(Octet) : f = Joined(q) \o x BY <1>7
<1>10. Lined(q) /\ Half(q) = h BY <1>2, <1>3, <1>6, <1>8, FrontIs
<1>11. PICK w \in Seq(Octet) : Joined(q) = (h \o Slips(F)) \o w BY <1>3, <1>4, <1>6, <1>10, Layout
<1>12. h \in Seq(Octet) /\ Slips(F) \in Seq(Octet) BY <1>1, <1>5, RaggedIs, SlipsIs
<1>13. Hopeful(l)
  <2>1. l.end # "lost"
    <3>1. pipe # << >> BY <1>1, SomeIs
    <3> QED BY <3>1 DEF LineOK
  <2>2. \E j \in 1 .. Len(pipe) : pipe[j].payload # << >>
    <3>1. PICK j \in 1 .. Len(q) : q[j].payload # << >> BY <1>3, <1>4, NoFrames
    <3>2. Len(pipe) = Len(q) + Len(r) /\ Len(q) \in Nat /\ Len(r) \in Nat /\ pipe[j] = q[j]
      BY <1>3, <1>6, <1>8, FrontIs
    <3>3. j \in 1 .. Len(pipe) BY <3>2
    <3> QED BY <3>1, <3>2, <3>3
  <2> QED BY <2>1, <2>2 DEF Hopeful
<1>14. Synchronous(l, b) => Closed(b \o h) BY <1>13 DEF Synchronous
<1> HIDE DEF f, h, pipe
<1> DEFINE u == b \o h
           v == w \o x
<1>15. u \in Seq(Octet) /\ v \in Seq(Octet) BY <1>12, Closes
<1>16. b \o f = u \o (Slips(F) \o v)
  <2> DEFINE s == Slips(F)
  <2>1. s \in Seq(Octet) BY <1>12
  <2>2. f = ((h \o s) \o w) \o x BY <1>9, <1>11
  <2> HIDE DEF s, u, v
  <2> DEFINE hs == h \o s
             sv == s \o v
  <2>3. hs \in Seq(Octet) BY <1>12, <2>1, Closes
  <2>4. sv \in Seq(Octet) BY <1>15, <2>1, Closes
  <2>5. hs \o v = h \o sv
    <3>1. h \in Seq(Octet) BY <1>12
    <3>2. v \in Seq(Octet) BY <1>15
    <3>3. (h \o s) \o v = h \o (s \o v) BY <2>1, <3>1, <3>2, Shifts, ZenonT(30)
    <3> QED BY <3>3
  <2> HIDE DEF hs, sv
  <2>6. (hs \o w) \o x = hs \o v BY <2>3, Shifts DEF v
  <2>7. (b \o h) \o sv = b \o (h \o sv)
    <3>1. h \in Seq(Octet) BY <1>12
    <3>2. sv \in Seq(Octet) BY <2>4
    <3> QED BY <3>1, <3>2, Shifts, ZenonT(30)
  <2> QED BY <2>2, <2>5, <2>6, <2>7 DEF s, u, hs, sv
<1> HIDE DEF u, v
<1>17. Synchronous(l, b) => Awaited(F, b \o f) BY <1>14, <1>15, <1>16 DEF Awaited, u
<1>18. Awaited(Tail(F), b \o f) BY <1>5, <1>15, <1>16, TailAwaited
<1> QED BY <1>5, <1>17, <1>18 DEF f, pipe

\* A pipe without a cut frame at the front, before and after: what is taken from it
\* are whole frames.
LEMMA OrderCut ==
  ASSUME NEW t, t # "prefix", NEW l \in Connection, LineOK(t, l), ~l.torn,
         NEW n \in 1 .. Len(Joined(l.pipe)), ~Ragged(l.pipe), ~Ragged(Cut(l.pipe, n))
  PROVE  \E p \in Seq(Payloads) :
           /\ SubSeq(Joined(l.pipe), 1, n) = Slips(p)
           /\ Coming(l.pipe) = p \o Coming(Cut(l.pipe, n))
<1> DEFINE pipe == l.pipe
           q == SubSeq(pipe, 1, Taken(pipe, n))
<1>1. pipe \in Seq(AnyPiece) BY DEF Connection
<1>2. Lined(pipe) BY LineIsLined
<1>3. /\ q \in Seq(AnyPiece)
      /\ \/ \E r \in Seq(AnyPiece) : CutBetween(pipe, n, q, r)
         \/ \E r \in Seq(AnyPiece), e \in AnyPiece, x, y \in Seq(Octet) :
              CutInside(pipe, n, q, r, e, x, y)
  BY <1>1, CutIs
<1> HIDE DEF q
<1>4. ASSUME NEW r \in Seq(AnyPiece), NEW e \in AnyPiece, NEW x \in Seq(Octet),
               NEW y \in Seq(Octet), CutInside(pipe, n, q, r, e, x, y)
      PROVE  FALSE
  <2>1. Cut(pipe, n) = << Piece(y, << >>) >> \o r BY <1>4 DEF CutInside
  <2> QED BY <2>1, LeftIs
<1>5. PICK r \in Seq(AnyPiece) : CutBetween(pipe, n, q, r) BY <1>3, <1>4
<1>6. /\ pipe = q \o r /\ Cut(pipe, n) = r /\ q # << >>
      /\ SubSeq(Joined(pipe), 1, n) = Joined(q)
  BY <1>5 DEF CutBetween
<1>7. Whole(q) BY <1>3, <1>6, HopefulWhole
<1>8. Lined(q) /\ ~Ragged(q) BY <1>2, <1>3, <1>6, FrontIs
<1>9. Joined(q) = Half(q) \o Slips(Frames(q)) /\ Frames(q) = Coming(q)
  BY <1>3, <1>6, <1>7, <1>8, Layout
<1>10. Frames(q) \in Seq(Payloads) /\ Slips(Frames(q)) \in Seq(Octet) BY <1>3, FramesIs, SlipsIs
<1>11. Joined(q) = Slips(Frames(q))
  <2>1. Half(q) = << >> BY <1>8 DEF Half
  <2> QED BY <1>9, <1>10, <2>1, Alone
<1>12. Coming(pipe) = Frames(q) \o Coming(r) BY <1>3, <1>6, <1>9, ComingIs
<1> QED BY <1>6, <1>10, <1>11, <1>12

\* One round of the loop takes the first of the frames that are due, or what is in
\* front of them.
LEMMA AwaitedParse ==
  ASSUME NEW F \in Seq(Payloads), F # << >>, NEW b \in Seq(Octet), Awaited(F, b),
         NEW d, d = Decode(b), NEW rest, rest = SubSeq(b, d.parsed + 1, Len(b))
  PROVE  /\ b # << >> /\ d.parsed # 0
         /\ d.payload # F[1] => Awaited(F, rest)
         /\ d.payload = F[1] => Awaited(Tail(F), rest)
<1> DEFINE p == F[1]
           g == Tail(F)
<1>1. F = << p >> \o g /\ p \in Payloads /\ << p >> \in Seq(Payloads) /\ g \in Seq(Payloads)
  BY HeadAndTail
<1> HIDE DEF p, g
<1>2. Slips(F) = Slip(p) \o Slips(g) BY <1>1, SlipsIs
<1>3. Slip(p) \in Seq(Octet) /\ Slips(g) \in Seq(Octet) /\ Slips(F) \in Seq(Octet)
      /\ p \in Seq(Octet) /\ p # << >> /\ Len(Slip(p)) >= 2
  <2>1. p \in Seq(Octet) /\ p # << >> BY <1>1, PayloadIs
  <2>2. Body(p) \in Seq(Octet) BY <2>1, BodyType
  <2>3. Len(Body(p)) \in Nat BY <2>2, LenProperties
  <2>4. Slip(p) \in Seq(Octet) /\ Len(Slip(p)) = Len(Body(p)) + 2 BY <2>1, SlipParts
  <2>5. Slips(g) \in Seq(Octet) /\ Slips(F) \in Seq(Octet) BY <1>1, SlipsIs
  <2> QED BY <2>1, <2>3, <2>4, <2>5
<1>4. PICK u, w \in Seq(Octet) : b = u \o (Slips(F) \o w) /\ Closed(u) BY DEF Awaited
<1>5. CASE u = << >>
  <2> DEFINE s == Slip(p)
             y == Slips(g)
             v == y \o w
  <2>1. s \in Seq(Octet) BY <1>3
  <2>2. y \in Seq(Octet) BY <1>3
  <2>3. v \in Seq(Octet) BY <2>2, Closes
  <2>4. (s \o y) \o w = s \o v BY <2>1, <2>2, Shifts
  <2>5. b = s \o v
    <3>1. b = << >> \o ((s \o y) \o w) BY <1>2, <1>4, <1>5
    <3> HIDE DEF s, y
    <3>2. s \o y \in Seq(Octet) BY <2>1, <2>2, Closes
    <3>3. (s \o y) \o w \in Seq(Octet) BY <3>2, Closes
    <3>4. << >> \o ((s \o y) \o w) = (s \o y) \o w BY <3>3, Alone
    <3> QED BY <2>4, <3>1, <3>4
  <2>6. d.payload = p /\ d.parsed = Len(s) /\ rest = v
    <3> HIDE DEF v
    <3>1. b = Slip(p) \o v BY <2>5
    <3> QED BY <1>3, <2>3, <3>1, RoundTrip
  <2>7. b # << >>
    <3>1. Len(b) = Len(s) + Len(v) /\ Len(v) \in Nat /\ Len(s) \in Nat
      <4> HIDE DEF s, v
      <4> QED BY <2>1, <2>3, <2>5, ConcatLast
    <3>2. Len(b) # 0 BY <1>3, <3>1
    <3>3. Len(<< >>) = 0 OBVIOUS
    <3> QED BY <3>2, <3>3
  <2>8. Awaited(g, rest)
    <3>1. Closed(<< >>) /\ << >> \in Seq(Octet) BY DEF Closed
    <3>2. << >> \o v = v BY <2>3, Alone
    <3> QED BY <2>6, <3>1, <3>2 DEF Awaited
  <2>9. d.parsed # 0
    <3>1. Len(s) # 0 BY <1>3
    <3> QED BY <2>6, <3>1
  <2> QED BY <2>6, <2>7, <2>8, <2>9 DEF p, g
<1>6. CASE u # << >>
  <2> DEFINE v == Slips(F) \o w
             n == d.parsed
             c == SubSeq(u, n + 1, Len(u))
  <2>1. v \in Seq(Octet)
    <3> DEFINE x == Slips(F)
    <3>1. x \in Seq(Octet) BY <1>3
    <3> HIDE DEF x
    <3>2. x \o w \in Seq(Octet) BY <3>1, Closes
    <3> QED BY <3>2 DEF x
  <2>2. b = u \o v BY <1>4
  <2> HIDE DEF v
  <2>3. n \in 1 .. Len(u) /\ u[n] = END BY <1>4, <1>6, <2>1, <2>2, ClosedEnds
  <2> HIDE DEF n
  <2>4. Len(u) \in Nat BY LenProperties
  <2>5. n \in 0 .. Len(u) BY <2>3, <2>4
  <2>6. rest = c \o v
    <3>1. rest = SubSeq(b, n + 1, Len(b)) BY DEF n
    <3> QED BY <2>1, <2>2, <2>5, <3>1, CutConcat, ZenonT(30)
  <2>7. c \in Seq(Octet) /\ Closed(c) BY <1>4, <2>3, <2>5, RestIs, ClosedCut
  <2> HIDE DEF c
  <2>8. rest = c \o (Slips(F) \o w) BY <2>6 DEF v
  <2>9. Awaited(F, rest) BY <2>7, <2>8 DEF Awaited
  <2>10. Awaited(Tail(F), rest) BY <2>7, <2>8, TailAwaited
  <2>11. b # << >>
    <3>1. Len(b) = Len(u) + Len(v) /\ Len(v) \in Nat BY <2>1, <2>2, ConcatLast
    <3>2. Len(b) # 0 BY <2>3, <2>4, <3>1
    <3>3. Len(<< >>) = 0 OBVIOUS
    <3> QED BY <3>2, <3>3
  <2>12. d.parsed # 0 BY <2>3, <2>4 DEF n
  <2> QED BY <2>9, <2>10, <2>11, <2>12
<1> QED BY <1>5, <1>6

\* A receiver that would find the next frame finds it after a round of the loop as
\* well, with what is left, and with what decoding in place makes of the buffer.
LEMMA SynchronousParse ==
  ASSUME NEW b \in Seq(Octet), NEW l \in Connection, Synchronous(l, b), b # << >>,
         NEW d, d = Decode(b)
  PROVE  /\ d.parsed # 0 => Synchronous(l, SubSeq(b, d.parsed + 1, Len(b)))
         /\ d.parsed = 0 \/ d.payload # << >> => Synchronous(l, d.buf)
<1>1. l.pipe \in Seq(AnyPiece) BY DEF Connection
<1> DEFINE h == Half(l.pipe)
<1>2. h \in Seq(Octet) BY <1>1, RaggedIs
<1>3. SUFFICES ASSUME Hopeful(l)
               PROVE  /\ d.parsed # 0 => Closed(SubSeq(b, d.parsed + 1, Len(b)) \o h)
                      /\ d.parsed = 0 \/ d.payload # << >> => Closed(d.buf \o h)
  BY DEF Synchronous
<1>4. Closed(b \o h) BY <1>3 DEF Synchronous
<1> HIDE DEF h
<1>5. d.parsed = 0 \/ d.payload # << >> => Closed(d.buf \o h) BY <1>2, <1>4, ClosedKeeps
<1>6. ASSUME d.parsed # 0 PROVE Closed(SubSeq(b, d.parsed + 1, Len(b)) \o h)
  <2> DEFINE n == d.parsed
             x == b \o h
  <2>1. n \in 0 .. Len(b) /\ n \in Ends(b) BY <1>6, ParsedIs
  <2>2. b[n] = END BY <2>1 DEF Ends
  <2> HIDE DEF n
  <2>3. SubSeq(x, n + 1, Len(x)) = SubSeq(b, n + 1, Len(b)) \o h BY <1>2, <2>1, CutConcat
  <2>4. n # 0 BY <1>6 DEF n
  <2>5. x \in Seq(Octet) /\ Len(x) = Len(b) + Len(h) /\ Len(b) \in Nat /\ Len(h) \in Nat
        /\ \A i \in 1 .. Len(b) : x[i] = b[i]
    BY <1>2, ConcatLast
  <2> HIDE DEF x
  <2>6. n \in 1 .. Len(b) /\ n \in 1 .. Len(x) BY <2>1, <2>4, <2>5
  <2>7. x[n] = END BY <2>2, <2>5, <2>6
  <2>8. Closed(x) BY <1>4 DEF x
  <2>9. Closed(SubSeq(x, n + 1, Len(x))) BY <2>5, <2>6, <2>7, <2>8, ClosedCut
  <2> QED BY <2>3, <2>9 DEF n
<1> QED BY <1>5, <1>6

\* A buffer of whole frames gives the first of them.
LEMMA OrderParse ==
  ASSUME NEW F \in Seq(Payloads), NEW b, b = Slips(F), NEW d, d = Decode(b)
  PROVE  /\ F = << >> => b = << >>
         /\ F # << >> => /\ b # << >> /\ d.parsed # 0 /\ d.payload = F[1] /\ d.payload # << >>
                         /\ SubSeq(b, d.parsed + 1, Len(b)) = Slips(Tail(F))
<1>1. F = << >> => b = << >> BY SlipsIs
<1>2. ASSUME F # << >>
      PROVE  /\ b # << >> /\ d.parsed # 0 /\ d.payload = F[1] /\ d.payload # << >>
             /\ SubSeq(b, d.parsed + 1, Len(b)) = Slips(Tail(F))
  <2> DEFINE p == F[1]
             g == Tail(F)
  <2>1. F = << p >> \o g /\ p \in Payloads /\ << p >> \in Seq(Payloads) /\ g \in Seq(Payloads)
    BY <1>2, HeadAndTail
  <2> HIDE DEF p, g
  <2>2. b = Slip(p) \o Slips(g) BY <2>1, SlipsIs
  <2>3. p \in Seq(Octet) /\ p # << >> /\ Slips(g) \in Seq(Octet) BY <2>1, PayloadIs, SlipsIs
  <2> DEFINE w == Slips(g)
  <2>4. w \in Seq(Octet) /\ b = Slip(p) \o w BY <2>2, <2>3
  <2> HIDE DEF w
  <2>5. d.payload = p /\ SubSeq(b, d.parsed + 1, Len(b)) = w /\ d.parsed = Len(Slip(p))
    BY <2>3, <2>4, RoundTrip
  <2>6. Slip(p) \in Seq(Octet) /\ Len(Slip(p)) # 0
    <3>1. Body(p) \in Seq(Octet) BY <2>3, BodyType
    <3>2. Len(Body(p)) \in Nat BY <3>1, LenProperties
    <3>3. Slip(p) \in Seq(Octet) /\ Len(Slip(p)) = Len(Body(p)) + 2 BY <2>3, SlipParts
    <3> QED BY <3>2, <3>3
  <2>7. b # << >>
    <3>1. d.parsed # 0 BY <2>5, <2>6
    <3> QED BY <3>1, DecodeNothing
  <2> QED BY <2>3, <2>5, <2>6, <2>7 DEF p, g, w
<1> QED BY <1>1, <1>2

-----------------------------------------------------------------------------
(***************************************************************************)
(* Frames with their length in front.                                      *)
(***************************************************************************)

\* Bytes with the header of a frame of k bytes in front.
Headed(b, k) == b[1] = "zero" /\ b[2] = Digit[k]

\* A header says how long the frame is.
LEMMA HeaderIs ==
  ASSUME "prefix" \in Transports, NEW p \in Payloads, NEW z \in Seq(Octet),
         NEW h, h = Encoded("prefix", p), NEW b, b = h \o z
  PROVE  /\ h \in Seq(Octet) /\ Len(h) = 2 + Len(p) /\ Len(p) \in Nat /\ Len(p) >= 1
         /\ b \in Seq(Octet) /\ Len(b) = Len(h) + Len(z)
         /\ Headed(b, Len(p))
         /\ SubSeq(b, 3, 2 + Len(p)) = p
<1> DEFINE k == Len(p)
           a == Prefix(k)
<1>1. p \in Seq(Octet) /\ p # << >> BY PayloadIs
<1>2. k \in Nat /\ k >= 1 BY <1>1, EmptySeq
<1>3. k \in DOMAIN Digit BY DigitAssumption
<1>4. Digit[k] \in STRING /\ \A j \in DOMAIN Digit : Digit[j] = Digit[k] => j = k
  <2>1. Digit \in Seq(STRING) BY DigitAssumption
  <2> HIDE DEF k
  <2> QED BY <1>3, <2>1, DigitAssumption
<1> HIDE DEF k
<1>5. a = << "zero", Digit[k] >> /\ "zero" \in Octet /\ Digit[k] \in Octet BY <1>4 DEF Prefix, Octet
<1>6. a \in Seq(Octet) /\ Len(a) = 2 /\ a[1] = "zero" /\ a[2] = Digit[k] BY <1>5
<1>7. h = a \o p BY DEF Encoded, k
<1> HIDE DEF a
<1>8. /\ h \in Seq(Octet) /\ Len(h) = 2 + k
      /\ \A i \in 1 .. 2 : h[i] = a[i]
      /\ \A i \in 1 .. k : h[2 + i] = p[i]
  <2>1. a \in Seq(Octet) BY <1>6
  <2>2. p \in Seq(Octet) BY <1>1
  <2>3. Len(p) = k BY DEF k
  <2>4. /\ a \o p \in Seq(Octet) /\ Len(a \o p) = Len(a) + Len(p)
        /\ \A i \in 1 .. Len(a) : (a \o p)[i] = a[i]
        /\ \A i \in 1 .. Len(p) : (a \o p)[Len(a) + i] = p[i]
    BY <2>1, <2>2, ConcatLast
  <2> QED BY <1>6, <1>7, <2>3, <2>4
<1>9. /\ b \in Seq(Octet) /\ Len(b) = (2 + k) + Len(z) /\ Len(z) \in Nat
      /\ \A i \in 1 .. 2 + k : b[i] = h[i]
  BY <1>8, ConcatLast
<1>10. b[1] = "zero" /\ b[2] = Digit[k]
  <2>1. 1 \in 1 .. 2 /\ 2 \in 1 .. 2 /\ 1 \in 1 .. 2 + k /\ 2 \in 1 .. 2 + k BY <1>2
  <2> QED BY <1>6, <1>8, <1>9, <2>1
<1>12. SubSeq(b, 3, 2 + k) = p
  <2> DEFINE s == SubSeq(b, 3, 2 + k)
  <2>1. 3 \in Int /\ 2 + k \in Int /\ 3 <= (2 + k) + 1 /\ (2 + k) - 3 + 1 = k BY <1>2
  <2>2. s \in Seq(Octet) /\ Len(s) = k /\ \A i \in 1 .. k : s[i] = b[2 + i]
    <3> DEFINE m == 2 + k
    <3>1. m \in 3 .. Len(b) /\ m - 3 + 1 = k /\ \A i \in 1 .. k : 3 + i - 1 = 2 + i
      BY <1>2, <1>9
    <3>2. 3 \in 1 .. Len(b) + 1 BY <1>2, <1>9
    <3>3. b \in Seq(Octet) BY <1>9
    <3>4. s = SubSeq(b, 3, m) OBVIOUS
    <3> HIDE DEF m, s
    <3> QED BY <3>1, <3>2, <3>3, <3>4, SubSeqType
  <2>3. \A i \in 1 .. k : b[2 + i] = p[i]
    <3>1. \A i \in 1 .. k : 2 + i \in 1 .. 2 + k BY <1>2
    <3> QED BY <1>8, <1>9, <3>1
  <2> HIDE DEF s
  <2>4. \A i \in 1 .. k : s[i] = p[i] BY <2>2, <2>3
  <2>5. Len(p) = k BY DEF k
  <2>6. s = p BY <1>1, <2>2, <2>4, <2>5, SeqEqual
  <2> QED BY <2>6 DEF s
<1> QED BY <1>2, <1>8, <1>9, <1>10, <1>12 DEF k, Headed

\* It is told from anything else by its digit.
LEMMA HeaderSays ==
  ASSUME "prefix" \in Transports, NEW p \in Payloads, NEW b, Headed(b, Len(p))
  PROVE  IsPrefixed(b) /\ Length(b) = Len(p)
<1> DEFINE k == Len(p)
<1>1. k \in DOMAIN Digit BY DigitAssumption
<1>2. b[1] = "zero" /\ b[2] = Digit[k] BY DEF Headed
<1>3. Digit \in Seq(STRING) BY DigitAssumption
<1> HIDE DEF k
<1>4. \A j \in DOMAIN Digit : Digit[j] = Digit[k] => j = k BY <1>1, <1>3, DigitAssumption
<1>5. IsPrefixed(b) /\ Length(b) = k BY <1>1, <1>2, <1>4 DEF IsPrefixed, Length
<1> QED BY <1>5 DEF k

\* A piece that is a frame has at least three bytes.
LEMMA FrameLong ==
  ASSUME "prefix" \in Transports, NEW l \in Connection, LineOK("prefix", l),
         NEW i \in 1 .. Len(l.pipe), l.pipe[i].payload # << >>
  PROVE  /\ l.pipe[i].payload \in Payloads
         /\ l.pipe[i].bytes = Encoded("prefix", l.pipe[i].payload)
         /\ l.pipe[i].bytes \in Seq(Octet) /\ Len(l.pipe[i].bytes) >= 3
         /\ Len(l.pipe[i].bytes) = 2 + Len(l.pipe[i].payload) /\ Len(l.pipe[i].payload) \in Nat
<1> DEFINE p == l.pipe[i].payload
           h == l.pipe[i].bytes
<1>1. l.pipe \in Seq(AnyPiece) BY DEF Connection
<1>2. l.pipe[i] \in AnyPiece BY <1>1, ElementOfSeq
<1>3. p \in Payloads BY <1>2 DEF AnyPiece, Framed
<1>4. h = Encoded("prefix", p) BY DEF LineOK
<1> HIDE DEF p, h
<1>5. << >> \in Seq(Octet) OBVIOUS
<1>6. h \in Seq(Octet) /\ Len(h) = 2 + Len(p) /\ Len(p) \in Nat /\ Len(p) >= 1
  BY <1>3, <1>4, <1>5, HeaderIs
<1>7. Len(h) >= 3 BY <1>6
<1> QED BY <1>3, <1>4, <1>6, <1>7 DEF p, h

\* Frames with a length in front: what is taken from whole frames, so that whole
\* frames are left, is more than a header, and when it is no more than the header
\* says it is one frame.
LEMMA PrefixCut ==
  ASSUME "prefix" \in Transports, NEW l \in Connection, LineOK("prefix", l), ~l.torn,
         NEW n \in 1 .. Len(Joined(l.pipe)), ~Ragged(l.pipe), ~Ragged(Cut(l.pipe, n)),
         NEW b, b = Joined(l.pipe)
  PROVE  /\ n > 2 /\ IsPrefixed(b)
         /\ n <= 2 + Length(b) => \E p \in Payloads :
              SubSeq(b, 3, n) = p /\ Coming(l.pipe) = << p >> \o Coming(Cut(l.pipe, n))
<1> DEFINE pipe == l.pipe
           q == SubSeq(pipe, 1, Taken(pipe, n))
<1>1. pipe \in Seq(AnyPiece) /\ n \in Nat BY SomeIs DEF Connection
<1>2. /\ q \in Seq(AnyPiece)
      /\ \/ \E r \in Seq(AnyPiece) : CutBetween(pipe, n, q, r)
         \/ \E r \in Seq(AnyPiece), e \in AnyPiece, x, y \in Seq(Octet) :
              CutInside(pipe, n, q, r, e, x, y)
  BY <1>1, CutIs
<1> HIDE DEF q
<1>3. ASSUME NEW r \in Seq(AnyPiece), NEW e \in AnyPiece, NEW x \in Seq(Octet),
               NEW y \in Seq(Octet), CutInside(pipe, n, q, r, e, x, y)
      PROVE  FALSE
  <2>1. Cut(pipe, n) = << Piece(y, << >>) >> \o r BY <1>3 DEF CutInside
  <2> QED BY <2>1, LeftIs
<1>4. PICK r \in Seq(AnyPiece) : CutBetween(pipe, n, q, r) BY <1>2, <1>3
<1>5. /\ pipe = q \o r /\ Cut(pipe, n) = r /\ q # << >> /\ Len(Joined(q)) = n
  BY <1>4 DEF CutBetween
<1>6. /\ Len(pipe) = Len(q) + Len(r) /\ Len(q) \in Nat /\ Len(q) >= 1 /\ Len(r) \in Nat
      /\ \A i \in 1 .. Len(q) : pipe[i] = q[i]
  BY <1>2, <1>5, FrontIs
<1>7. \A i \in 1 .. Len(pipe) : pipe[i].payload # << >>
  <2>1. SUFFICES ASSUME NEW i \in 1 .. Len(pipe), pipe[i].payload = << >> PROVE FALSE OBVIOUS
  <2>2. CASE i = 1
    <3>1. Len(pipe) >= 1 BY <1>6
    <3> QED BY <1>1, <2>1, <2>2, <3>1, RaggedIs
  <2>3. CASE i # 1
    <3>1. i \in 2 .. Len(pipe) BY <1>6, <2>3
    <3> QED BY <2>1, <3>1 DEF LineOK
  <2> QED BY <2>2, <2>3
<1> DEFINE e == q[1]
           g == Tail(q)
           p == e.payload
           h == e.bytes
<1>8. q = << e >> \o g /\ e \in AnyPiece /\ << e >> \in Seq(AnyPiece) /\ g \in Seq(AnyPiece)
  BY <1>2, <1>5, HeadAndTail
<1>9. 1 \in 1 .. Len(pipe) /\ 1 \in 1 .. Len(q) BY <1>6
<1>10. e = pipe[1] BY <1>6, <1>9
<1>11. /\ p \in Payloads /\ h = Encoded("prefix", p)
       /\ h \in Seq(Octet) /\ Len(h) >= 3 /\ Len(h) = 2 + Len(p) /\ Len(p) \in Nat
  BY <1>7, <1>9, <1>10, FrameLong
<1>12. Joined(<< e >>) = h BY <1>8, JoinedIs
<1> HIDE DEF e, g, p, h
<1>13. Joined(q) = h \o Joined(g) /\ Joined(g) \in Seq(Octet) BY <1>8, <1>12, JoinedIs
<1>14. b = Joined(q) \o Joined(r) /\ Joined(r) \in Seq(Octet) BY <1>2, <1>5, JoinedIs
<1> DEFINE a == Joined(g)
           c == Joined(r)
           z == a \o c
<1>15. a \in Seq(Octet) /\ c \in Seq(Octet) BY <1>13, <1>14
<1>16. b = h \o z /\ z \in Seq(Octet)
  <2>1. b = (h \o a) \o c BY <1>13, <1>14
  <2>2. a \in Seq(Octet) BY <1>15
  <2>3. c \in Seq(Octet) BY <1>15
  <2>4. h \in Seq(Octet) BY <1>11
  <2> HIDE DEF a, c
  <2>5. (h \o a) \o c = h \o (a \o c) BY <2>2, <2>3, <2>4, Shifts
  <2>6. a \o c \in Seq(Octet) BY <2>2, <2>3, Closes
  <2> QED BY <2>1, <2>5, <2>6
<1>17. n = Len(h) + Len(a) /\ Len(a) \in Nat
  <2>1. Joined(q) = h \o a BY <1>13
  <2>2. a \in Seq(Octet) BY <1>15
  <2> HIDE DEF a
  <2>3. Len(h \o a) = Len(h) + Len(a) /\ Len(a) \in Nat BY <1>11, <2>2, ConcatLast
  <2> QED BY <1>5, <2>1, <2>3
<1> HIDE DEF a, c, z
<1>18. IsPrefixed(b) /\ Length(b) = Len(p) /\ SubSeq(b, 3, 2 + Len(p)) = p
  <2>1. p \in Payloads BY <1>11
  <2>2. h = Encoded("prefix", p) BY <1>11
  <2>3. z \in Seq(Octet) BY <1>16
  <2>4. b = h \o z BY <1>16
  <2>5. Headed(h \o z, Len(p)) BY <2>1, <2>2, <2>3, HeaderIs
  <2>6. IsPrefixed(b) /\ Length(b) = Len(p) BY <2>1, <2>4, <2>5, HeaderSays
  <2>7. SubSeq(h \o z, 3, 2 + Len(p)) = p BY <2>1, <2>2, <2>3, HeaderIs
  <2> QED BY <2>4, <2>6, <2>7
<1>19. n > 2 BY <1>11, <1>17
<1>20. ASSUME n <= 2 + Length(b)
       PROVE  \E m \in Payloads : SubSeq(b, 3, n) = m /\ Coming(pipe) = << m >> \o Coming(Cut(pipe, n))
  <2>1. n = 2 + Len(p) /\ Len(a) = 0 BY <1>11, <1>17, <1>18, <1>20
  <2>2. g = << >>
    <3>1. SUFFICES ASSUME g # << >> PROVE FALSE OBVIOUS
    <3> DEFINE f == g[1]
               s == Tail(g)
    <3>2. g = << f >> \o s /\ f \in AnyPiece /\ << f >> \in Seq(AnyPiece) /\ s \in Seq(AnyPiece)
      BY <1>8, <3>1, HeadAndTail
    <3>3. f = pipe[2] /\ 2 \in 1 .. Len(pipe)
      <4>1. Len(g) \in Nat /\ Len(g) >= 1 BY <1>8, <3>1, EmptySeq
      <4>2. Len(q) = 1 + Len(g) /\ q[2] = g[1]
        <5>1. /\ Len(<< e >> \o g) = Len(<< e >>) + Len(g)
              /\ \A i \in 1 .. Len(<< e >>) + Len(g) : (<< e >> \o g)[i] =
                   IF i <= Len(<< e >>) THEN << e >>[i] ELSE g[i - Len(<< e >>)]
          BY <1>8, ConcatProperties
        <5>2. Len(<< e >>) = 1 OBVIOUS
        <5>3. 2 \in 1 .. 1 + Len(g) BY <4>1
        <5> QED BY <1>8, <5>1, <5>2, <5>3
      <4>3. 2 \in 1 .. Len(q) /\ 2 \in 1 .. Len(pipe) BY <1>6, <4>1, <4>2
      <4> QED BY <1>6, <4>2, <4>3
    <3>4. Len(f.bytes) >= 3 /\ f.bytes \in Seq(Octet) BY <1>7, <3>3, FrameLong
    <3>5. Joined(<< f >>) = f.bytes BY <3>2, JoinedIs
    <3> HIDE DEF f, s
    <3>6. a = f.bytes \o Joined(s) /\ Joined(s) \in Seq(Octet) BY <3>2, <3>5, JoinedIs DEF a
    <3>7. Len(a) = Len(f.bytes) + Len(Joined(s)) /\ Len(Joined(s)) \in Nat BY <3>4, <3>6, ConcatLast
    <3>8. Len(f.bytes) \in Nat BY <3>4, LenProperties
    <3> QED BY <2>1, <3>4, <3>7, <3>8
  <2>3. q = << e >> BY <1>8, <2>2, ConcatEmptySeq
  <2>4. Coming(<< e >>) = << p >> BY <1>8, ComingIs DEF p
  <2>5. Coming(pipe) = Coming(q) \o Coming(r) BY <1>2, <1>5, ComingIs
  <2>6. SubSeq(b, 3, n) = p BY <1>18, <2>1
  <2> QED BY <1>5, <1>11, <2>3, <2>4, <2>5, <2>6
<1> QED BY <1>18, <1>19, <1>20

\* The header in front of the frame that is next says its length.
LEMMA PrefixAhead ==
  ASSUME "prefix" \in Transports, NEW l \in Connection, LineOK("prefix", l),
         ~Ragged(l.pipe), NEW b, b = Joined(l.pipe), Len(b) >= 2
  PROVE  IsPrefixed(b) /\ Length(b) = Len(l.pipe[1].payload)
<1> DEFINE pipe == l.pipe
           e == pipe[1]
           g == Tail(pipe)
           p == e.payload
           h == e.bytes
<1>1. pipe \in Seq(AnyPiece) BY DEF Connection
<1>2. pipe # << >>
  <2>1. SUFFICES ASSUME pipe = << >> PROVE FALSE OBVIOUS
  <2>2. b = << >> BY <2>1, JoinedIs
  <2>3. Len(<< >>) = 0 OBVIOUS
  <2> QED BY <2>2, <2>3
<1>3. 1 \in 1 .. Len(pipe) BY <1>1, <1>2, EmptySeq
<1>4. p # << >> BY <1>1, <1>3, RaggedIs
<1>5. p \in Payloads /\ h = Encoded("prefix", p) /\ h \in Seq(Octet)
  BY <1>3, <1>4, FrameLong
<1>6. pipe = << e >> \o g /\ e \in AnyPiece /\ << e >> \in Seq(AnyPiece) /\ g \in Seq(AnyPiece)
  <2> HIDE DEF pipe
  <2> QED BY <1>1, <1>2, HeadAndTail
<1>7. Joined(<< e >>) = h BY <1>6, JoinedIs
<1> HIDE DEF e, g, p, h
<1>8. b = h \o Joined(g) /\ Joined(g) \in Seq(Octet) BY <1>6, <1>7, JoinedIs
<1> DEFINE z == Joined(g)
<1>9. b = h \o z /\ z \in Seq(Octet) BY <1>8
<1> HIDE DEF z
<1>10. Headed(b, Len(p)) BY <1>5, <1>9, HeaderIs
<1>11. IsPrefixed(b) /\ Length(b) = Len(p) BY <1>5, <1>10, HeaderSays
<1> QED BY <1>11 DEF p, e

-----------------------------------------------------------------------------
(***************************************************************************)
(* The inductive invariant.                                                *)
(***************************************************************************)

\* What the variables hold.
TypeInv ==
  /\ transport \in Transports
  /\ tx \in [Clients -> Seq(Payloads)]
  /\ sock \in [Clients -> {"idle", "none", "up", "shut", "gone", "exit"}]
  /\ conns \in Seq(Connection)
  /\ connected \in BOOLEAN /\ at \in {"run", "parse", "abort", "overrun"}
  /\ rx \in Seq(Octet) /\ Len(rx) <= RxSize
  /\ ring \in Seq(Seq(Octet)) /\ Len(ring) <= Room
  /\ frames \in 0 .. MaxFrames /\ faults \in 0 .. MaxFaults
  /\ got \in Seq(Seq(Octet)) /\ due \in Seq(Payloads)
  /\ clean \in BOOLEAN /\ divided \in BOOLEAN /\ blurred \in BOOLEAN

\* Where the daemon is: it parses only what an accepted connection brought, rx_buf is
\* used by SLIP alone, and between two receives no frame is due.
Control ==
  /\ connected => conns # << >> /\ ~Ended
  /\ at = "parse" => connected /\ transport # "prefix"
  /\ Ended => conns = << >>
  /\ transport = "prefix" => rx = << >>
  /\ transport = "serial" => connected
  /\ at # "parse" => due = << >>

\* Of every connection; those that are not accepted yet are as their clients left them.
Lines ==
  \A i \in 1 .. Len(conns) :
    LineOK(transport, conns[i]) /\ (i > 1 \/ ~connected => Fresh(conns[i]))

\* The next whole frame will be found.
Sync == connected /\ transport # "prefix" /\ ~blurred => Synchronous(conns[1], rx)

\* What is dispatched, what is in the buffer and what is on its way are what was sent.
Ordered(l, a, b, g) ==
  ~l.torn /\ l.end # "lost" =>
    /\ ~Ragged(l.pipe)
    /\ a = "run" => b = << >> /\ g \o Coming(l.pipe) = l.sent
    /\ a = "parse" => \E p \in Seq(Payloads) :
         b = Slips(p) /\ (g \o p) \o Coming(l.pipe) = l.sent

Order == connected /\ clean /\ ~divided => Ordered(conns[1], at, rx, got)

\* The frames that came whole are still in the buffer.
Due == at = "parse" /\ due # << >> => Awaited(due, rx)

\* The inductive invariant.
IInv == TypeInv /\ Control /\ Lines /\ Sync /\ Order /\ Due

\* What happens to a connection while the daemon does nothing.
Kept(t, l, m) ==
  /\ LineOK(t, m)
  /\ Fresh(l) => Fresh(m)
  /\ \A b \in Seq(Octet) : Synchronous(l, b) => Synchronous(m, b)
  /\ \A a, b : \A g \in Seq(Seq(Octet)) : Ordered(l, a, b, g) => Ordered(m, a, b, g)

\* Messages are among the sequences of bytes.
LEMMA PayloadsAre ==
  /\ Payloads \subseteq Seq(Octet) /\ Framed \subseteq Seq(Octet)
  /\ Seq(Payloads) \subseteq Seq(Seq(Octet)) /\ Seq(Framed) \subseteq Seq(Seq(Octet))
<1>1. Payloads \subseteq Seq(Octet) BY PayloadIs
<1>2. << >> \in Seq(Octet) OBVIOUS
<1>3. Framed \subseteq Seq(Octet) BY <1>1, <1>2 DEF Framed
<1>4. \A S, T : S \subseteq T => Seq(S) \subseteq Seq(T) OBVIOUS
<1> QED BY <1>1, <1>3, <1>4

\* Another piece is sent.
LEMMA KeptSend ==
  ASSUME NEW t, NEW l \in Connection, NEW m \in Connection, NEW e \in AnyPiece,
         LineOK(t, l), Longer(t, l, m, e)
  PROVE  Kept(t, l, m)
<1>1. /\ LineOK(t, m)
      /\ Fresh(l) => Fresh(m)
      /\ \A b : Synchronous(l, b) => Synchronous(m, b)
      /\ Ragged(m.pipe) => Ragged(l.pipe) \/ m.torn
      /\ Coming(m.pipe) = Coming(l.pipe) \o << e.payload >>
  BY LineLonger
<1>2. ASSUME NEW a, NEW b, NEW g \in Seq(Seq(Octet)), Ordered(l, a, b, g)
      PROVE  Ordered(m, a, b, g)
  <2>1. SUFFICES ASSUME ~m.torn
                 PROVE  /\ ~Ragged(m.pipe)
                        /\ a = "run" => b = << >> /\ g \o Coming(m.pipe) = m.sent
                        /\ a = "parse" => \E p \in Seq(Payloads) :
                             b = Slips(p) /\ (g \o p) \o Coming(m.pipe) = m.sent
    BY DEF Ordered
  <2>0. ~l.torn /\ l.end # "lost" BY <2>1 DEF Longer
  <2>2. /\ ~Ragged(l.pipe)
        /\ a = "run" => b = << >> /\ g \o Coming(l.pipe) = l.sent
        /\ a = "parse" => \E p \in Seq(Payloads) :
             b = Slips(p) /\ (g \o p) \o Coming(l.pipe) = l.sent
    BY <1>2, <2>0 DEF Ordered
  <2> DEFINE c == Coming(l.pipe)
             s == << e.payload >>
  <2>3. m.sent = l.sent \o s BY <2>1 DEF Longer
  <2>4. Coming(m.pipe) = c \o s BY <1>1
  <2>5. c \in Seq(Seq(Octet)) /\ s \in Seq(Seq(Octet))
    <3>1. l.pipe \in Seq(AnyPiece) /\ e.payload \in Framed BY DEF Connection, AnyPiece
    <3>2. c \in Seq(Framed) BY <3>1, ComingIs
    <3>3. e.payload \in Seq(Octet) BY <3>1, PayloadsAre
    <3> QED BY <3>2, <3>3, PayloadsAre
  <2> HIDE DEF c, s
  <2>6. a = "run" => b = << >> /\ g \o (c \o s) = m.sent
    <3>1. (g \o c) \o s = g \o (c \o s) BY <2>5, Associative, SMTT(30)
    <3>2. a = "run" => b = << >> /\ g \o c = l.sent BY <2>2 DEF c
    <3> QED BY <2>3, <3>1, <3>2
  <2>7. ASSUME a = "parse" PROVE \E p \in Seq(Payloads) : b = Slips(p) /\ (g \o p) \o (c \o s) = m.sent
    <3>1. PICK p \in Seq(Payloads) : b = Slips(p) /\ (g \o p) \o c = l.sent BY <2>2, <2>7 DEF c
    <3> DEFINE x == g \o p
    <3>2. x \in Seq(Seq(Octet))
      <4>1. p \in Seq(Seq(Octet)) BY PayloadsAre
      <4> QED BY <4>1, ConcatProperties
    <3>3. x \o c = l.sent BY <3>1
    <3> HIDE DEF x
    <3>4. (x \o c) \o s = x \o (c \o s) BY <2>5, <3>2, Associative, SMTT(30)
    <3>5. x \o (c \o s) = m.sent BY <2>3, <3>3, <3>4
    <3> QED BY <3>1, <3>5 DEF x
  <2> QED BY <1>1, <2>1, <2>2, <2>4, <2>6, <2>7
<1> QED BY <1>1, <1>2 DEF Kept

\* The client closes the connection, or it breaks.
LEMMA KeptEnds ==
  ASSUME NEW t, NEW l \in Connection, NEW m \in Connection, LineOK(t, l),
         m.client = l.client, m.sent = l.sent, m.torn = l.torn,
         \/ l.end # "lost" /\ m.end # "lost" /\ m.pipe = l.pipe
         \/ m.end = "lost" /\ m.pipe = << >> /\ t # "serial"
  PROVE  Kept(t, l, m)
<1>1. /\ LineOK(t, m)
      /\ Fresh(l) => Fresh(m)
      /\ \A b : Synchronous(l, b) => Synchronous(m, b)
  BY LineEnds
<1>2. ASSUME NEW a, NEW b, NEW g \in Seq(Seq(Octet)), Ordered(l, a, b, g)
      PROVE  Ordered(m, a, b, g)
  BY <1>2 DEF Ordered
<1> QED BY <1>1, <1>2 DEF Kept

\* Nothing happens to it.
LEMMA KeptSame ==
  ASSUME NEW t, NEW l, LineOK(t, l)
  PROVE  Kept(t, l, l)
BY DEF Kept

-----------------------------------------------------------------------------
(***************************************************************************)
(* The steps.                                                              *)
(***************************************************************************)

\* One element is replaced.
LEMMA OneElse ==
  ASSUME NEW S, NEW c \in Seq(S), NEW i \in 1 .. Len(c), NEW m \in S, NEW d, d = [c EXCEPT ![i] = m]
  PROVE  /\ d \in Seq(S) /\ Len(d) = Len(c) /\ DOMAIN d = 1 .. Len(d) /\ d[i] = m
         /\ \A j \in 1 .. Len(c) : j # i => d[j] = c[j]
<1>1. Len(c) \in Nat /\ DOMAIN c = 1 .. Len(c) /\ c \in [1 .. Len(c) -> S] BY LenProperties
<1>2. d \in [1 .. Len(c) -> S] /\ d[i] = m /\ \A j \in 1 .. Len(c) : j # i => d[j] = c[j] BY <1>1
<1>3. d \in Seq(S) /\ Len(d) = Len(c) /\ DOMAIN d = 1 .. Len(d) BY <1>1, <1>2, SeqOfFcn
<1> QED BY <1>2, <1>3

\* What the daemon has, and of each connection what it is.
Daemon == << transport, connected, rx, at, got, clean, divided, blurred, due >>

\* Whatever the clients do, the daemon's part of the invariant is kept when every
\* connection keeps what it is.
LEMMA Idle ==
  ASSUME IInv, UNCHANGED Daemon, conns' \in Seq(Connection), Len(conns') = Len(conns),
         \A i \in 1 .. Len(conns) : Kept(transport, conns[i], conns'[i])
  PROVE  Control' /\ Lines' /\ Sync' /\ Order' /\ Due'
<1>1. UNCHANGED transport /\ UNCHANGED connected /\ UNCHANGED rx /\ UNCHANGED at /\ UNCHANGED got
      /\ UNCHANGED clean /\ UNCHANGED divided /\ UNCHANGED blurred /\ UNCHANGED due
  BY DEF Daemon
<1>2. Len(conns) \in Nat /\ (conns # << >> <=> Len(conns) >= 1) BY EmptySeq DEF IInv, TypeInv
<1>3. conns' # << >> <=> conns # << >> BY <1>2, EmptySeq
<1>4. Control' BY <1>1, <1>3 DEF IInv, Control, Ended
<1>5. Lines' BY <1>1 DEF IInv, Lines, Kept
<1>6. connected => 1 \in 1 .. Len(conns) BY <1>2 DEF IInv, Control
<1>7. connected => Kept(transport, conns[1], conns'[1]) BY <1>6
<1>8. Sync' BY <1>1, <1>7 DEF IInv, TypeInv, Sync, Kept
<1>9. Order' BY <1>1, <1>7 DEF IInv, TypeInv, Order, Kept
<1>10. Due' BY <1>1 DEF IInv, Due
<1> QED BY <1>4, <1>5, <1>8, <1>9, <1>10

\* One connection goes on.
LEMMA IdleOne ==
  ASSUME IInv, UNCHANGED Daemon, NEW i \in 1 .. Len(conns), NEW m \in Connection,
         conns' = [conns EXCEPT ![i] = m], Kept(transport, conns[i], m)
  PROVE  conns' \in Seq(Connection) /\ Control' /\ Lines' /\ Sync' /\ Order' /\ Due'
<1>1. conns \in Seq(Connection) BY DEF IInv, TypeInv
<1>2. /\ conns' \in Seq(Connection) /\ Len(conns') = Len(conns) /\ conns'[i] = m
      /\ \A j \in 1 .. Len(conns) : j # i => conns'[j] = conns[j]
  BY <1>1, OneElse
<1>3. ASSUME NEW j \in 1 .. Len(conns) PROVE Kept(transport, conns[j], conns'[j])
  <2>1. CASE j = i BY <1>2, <2>1
  <2>2. CASE j # i
    <3>1. LineOK(transport, conns[j]) BY DEF IInv, Lines
    <3> QED BY <1>2, <2>2, <3>1, KeptSame
  <2> QED BY <2>1, <2>2
<1> QED BY <1>2, <1>3, Idle

\* What a client encodes is bytes.
LEMMA EncodedIs ==
  ASSUME transport \in Transports, NEW p \in Payloads
  PROVE  Encode(p) = Encoded(transport, p) /\ Encode(p) \in Seq(Octet)
<1>1. Encode(p) = Encoded(transport, p) BY DEF Encode, Encoded
<1>2. p \in Seq(Octet) /\ << >> \in Seq(Octet) BY PayloadIs
<1>3. CASE transport = "prefix"
  <2>1. Encoded("prefix", p) \in Seq(Octet) BY <1>2, <1>3, HeaderIs
  <2> QED BY <1>1, <1>3, <2>1
<1>4. CASE transport # "prefix"
  <2>1. Encoded(transport, p) = Slip(p) BY <1>4 DEF Encoded
  <2> QED BY <1>1, <1>2, <2>1, SlipParts
<1> QED BY <1>1, <1>3, <1>4

\* A chunk is encoded and sent (stream.h 954-1011, 1165-1220).
LEMMA SendStep ==
  ASSUME IInv, NEW c \in Clients, Send(c)
  PROVE  IInv'
<1>1. /\ transport \in Transports /\ conns \in Seq(Connection) /\ tx \in [Clients -> Seq(Payloads)]
      /\ tx[c] \in Seq(Payloads) /\ tx[c] # << >>
  BY DEF IInv, TypeInv, Send
<1>2. /\ tx' = [tx EXCEPT ![c] = Tail(@)]
      /\ UNCHANGED << transport, sock, frames, faults, server >>
  BY DEF Send
<1> DEFINE p == Head(tx[c])
<1>3. p \in Payloads /\ Tail(tx[c]) \in Seq(Payloads) BY <1>1, HeadTailProperties
<1>4. DOMAIN conns = 1 .. Len(conns) BY <1>1, LenProperties
<1>5. PICK i \in 1 .. Len(conns) :
        /\ Of(c, i)
        /\ conns' = [conns EXCEPT ![i] =
             [conns[i] EXCEPT !.pipe = Append(@, Piece(Encode(p), IF conns[i].torn THEN << >> ELSE p)),
                              !.sent = Append(@, p)]]
  BY <1>4 DEF Send
<1> DEFINE l == conns[i]
           e == Piece(Encode(p), IF l.torn THEN << >> ELSE p)
           m == [l EXCEPT !.pipe = Append(@, e), !.sent = Append(@, p)]
<1>6. conns' = [conns EXCEPT ![i] = m] BY <1>5
<1>7. l \in Connection /\ LineOK(transport, l) BY <1>1, ElementOfSeq DEF IInv, Lines
<1>8. l.end # "lost" BY <1>5, <1>7 DEF Of, LineOK
<1>9. Encode(p) = Encoded(transport, p) /\ Encode(p) \in Seq(Octet) BY <1>1, <1>3, EncodedIs
<1>10. e \in AnyPiece /\ e.bytes = Encode(p) /\ e.payload = IF l.torn THEN << >> ELSE p
  BY <1>3, <1>9 DEF AnyPiece, Piece, Framed
<1>11. p # << >> BY <1>3, PayloadIs
<1> HIDE DEF p, e
<1>12. /\ l.pipe \in Seq(AnyPiece) /\ l.sent \in Seq(Payloads)
       /\ Append(l.pipe, e) = l.pipe \o << e >> /\ Append(l.sent, p) = l.sent \o << p >>
       /\ Append(l.pipe, e) \in Seq(AnyPiece) /\ Append(l.sent, p) \in Seq(Payloads)
  <2> HIDE DEF l
  <2> DEFINE u == l.pipe
             v == l.sent
  <2>1. u \in Seq(AnyPiece) /\ v \in Seq(Payloads) BY <1>7 DEF Connection
  <2> HIDE DEF u, v
  <2>2. Append(u, e) = u \o << e >> /\ u \o << e >> \in Seq(AnyPiece) BY <1>10, <2>1, LongerIs
  <2>3. Append(v, p) = v \o << p >> /\ v \o << p >> \in Seq(Payloads) BY <1>3, <2>1, LongerIs
  <2> QED BY <2>1, <2>2, <2>3 DEF u, v
<1> HIDE DEF l
<1>13. /\ m.pipe = Append(l.pipe, e) /\ m.sent = Append(l.sent, p)
       /\ m.end = l.end /\ m.client = l.client /\ m.torn = l.torn
  BY <1>7 DEF Connection
<1>14. m \in Connection BY <1>7, <1>12 DEF Connection
<1> HIDE DEF m
<1>15. Longer(transport, l, m, e) BY <1>8, <1>9, <1>10, <1>11, <1>12, <1>13 DEF Longer
<1>16. Kept(transport, l, m) BY <1>7, <1>10, <1>14, <1>15, KeptSend
<1>17. UNCHANGED Daemon BY <1>2 DEF Daemon, server, history
<1>18. conns' \in Seq(Connection) /\ Control' /\ Lines' /\ Sync' /\ Order' /\ Due'
  BY <1>6, <1>14, <1>16, <1>17, IdleOne DEF l
<1>19. TypeInv' BY <1>2, <1>3, <1>18 DEF IInv, TypeInv, server, history
<1> QED BY <1>18, <1>19 DEF IInv

\* Nothing happens to the connections.
LEMMA IdleNone ==
  ASSUME IInv, UNCHANGED Daemon, UNCHANGED conns
  PROVE  Control' /\ Lines' /\ Sync' /\ Order' /\ Due'
<1>1. \A i \in 1 .. Len(conns) : Kept(transport, conns[i], conns'[i])
  BY KeptSame DEF IInv, Lines
<1>2. conns' \in Seq(Connection) /\ Len(conns') = Len(conns) BY DEF IInv, TypeInv
<1> QED BY <1>1, <1>2, Idle

\* A client fills its ring.
LEMMA StartStep ==
  ASSUME IInv, NEW c \in Clients, NEW msgs \in Seq(Payloads), Start(c, msgs)
  PROVE  IInv'
<1>1. UNCHANGED Daemon /\ UNCHANGED conns BY DEF Start, Daemon, server, history
<1>2. frames' \in 0 .. MaxFrames
  <2>1. Len(msgs) \in Nat /\ frames \in 0 .. MaxFrames /\ MaxFrames \in Nat
    BY LenProperties, BoundsAssumption DEF IInv, TypeInv
  <2>2. frames' = frames + Len(msgs) /\ frames + Len(msgs) <= MaxFrames BY DEF Start
  <2> QED BY <2>1, <2>2
<1>3. TypeInv' BY <1>1, <1>2 DEF IInv, TypeInv, Start, server, history
<1> QED BY <1>1, <1>3, IdleNone DEF IInv

\* A client loses a message to a closed socket, or notices that it is closed.
LEMMA ClientStep ==
  ASSUME IInv, NEW c \in Clients, SendVain(c) \/ NoticeLoss(c)
  PROVE  IInv'
<1>1. UNCHANGED Daemon /\ UNCHANGED conns BY DEF SendVain, NoticeLoss, Daemon, server, history
<1>2. TypeInv'
  <2>1. tx[c] # << >> => Tail(tx[c]) \in Seq(Payloads) BY HeadTailProperties DEF IInv, TypeInv
  <2>2. CASE SendVain(c) BY <2>1, <2>2 DEF IInv, TypeInv, SendVain, server, history
  <2>3. CASE NoticeLoss(c) BY <2>3 DEF IInv, TypeInv, NoticeLoss, server, history
  <2> QED BY <2>2, <2>3
<1> QED BY <1>1, <1>2, IdleNone DEF IInv

\* The beat thread takes a chunk.
LEMMA DrainStep ==
  ASSUME IInv, Drain
  PROVE  IInv'
<1>1. UNCHANGED Daemon /\ UNCHANGED conns BY DEF Drain, Daemon, client, history
<1>2. /\ ring \in Seq(Seq(Octet)) /\ ring # << >> /\ Len(ring) <= Room /\ Room \in Nat
      /\ ring' = Tail(ring)
  BY RoomAssumption DEF IInv, TypeInv, Drain
<1>3. ring' \in Seq(Seq(Octet)) /\ Len(ring') = Len(ring) - 1 /\ Len(ring) \in Nat
  BY <1>2, HeadTailProperties, LenProperties
<1>4. Len(ring') <= Room BY <1>2, <1>3
<1>5. TypeInv' BY <1>1, <1>3, <1>4 DEF IInv, TypeInv, Drain, client, history
<1> QED BY <1>1, <1>5, IdleNone DEF IInv

\* A send is cut short: nothing behind it on this connection is a whole frame.
LEMMA SendCutStep ==
  ASSUME IInv, NEW c \in Clients, tx[c] # << >>,
         NEW n \in 1 .. Len(Encode(tx[c][1])) - 1, SendCut(c, n)
  PROVE  IInv'
<1>1. transport \in Transports /\ conns \in Seq(Connection) /\ tx[c] \in Seq(Payloads)
  BY DEF IInv, TypeInv
<1> DEFINE p == Head(tx[c])
           bytes == SubSeq(Encode(p), 1, n)
           e == Piece(bytes, << >>)
<1>2. p \in Payloads /\ p = tx[c][1] BY <1>1, HeadTailProperties
<1>3. bytes \in Seq(Octet)
  <2>1. Encode(p) \in Seq(Octet) BY <1>1, <1>2, EncodedIs
  <2>2. n \in 0 .. Len(Encode(p)) BY <1>2, <2>1, LenProperties
  <2> QED BY <2>1, <2>2, PrefixIs
<1>4. DOMAIN conns = 1 .. Len(conns) BY <1>1, LenProperties
<1>5. PICK i \in 1 .. Len(conns) :
        /\ Of(c, i)
        /\ conns' = [conns EXCEPT ![i].pipe = Append(@, e), ![i].torn = TRUE]
  BY <1>4 DEF SendCut
<1> DEFINE l == conns[i]
           m == [l EXCEPT !.pipe = Append(@, e), !.torn = TRUE]
<1>6. conns' = [conns EXCEPT ![i] = m] BY <1>1, <1>5
<1>7. l \in Connection /\ LineOK(transport, l) BY <1>1, ElementOfSeq DEF IInv, Lines
<1>8. l.end # "lost" BY <1>5, <1>7 DEF Of, LineOK
<1>9. e \in AnyPiece /\ e.payload = << >> BY <1>3 DEF AnyPiece, Piece, Framed
<1> HIDE DEF e
<1>10. l.pipe \in Seq(AnyPiece) /\ Append(l.pipe, e) = l.pipe \o << e >> /\ Append(l.pipe, e) \in Seq(AnyPiece)
  <2> DEFINE u == l.pipe
  <2>1. u \in Seq(AnyPiece) BY <1>7 DEF Connection
  <2> HIDE DEF u
  <2>2. Append(u, e) = u \o << e >> /\ u \o << e >> \in Seq(AnyPiece) BY <1>9, <2>1, LongerIs
  <2> QED BY <2>1, <2>2 DEF u
<1> HIDE DEF l
<1>11. /\ m.pipe = Append(l.pipe, e) /\ m.sent = l.sent
       /\ m.end = l.end /\ m.client = l.client /\ m.torn = TRUE
  BY <1>7 DEF Connection
<1>12. m \in Connection BY <1>7, <1>10 DEF Connection
<1> HIDE DEF m
<1>13. Longer(transport, l, m, e) BY <1>8, <1>9, <1>10, <1>11 DEF Longer
<1>14. Kept(transport, l, m) BY <1>7, <1>9, <1>12, <1>13, KeptSend
<1>15. UNCHANGED Daemon BY DEF Daemon, SendCut, server, history
<1>16. conns' \in Seq(Connection) /\ Control' /\ Lines' /\ Sync' /\ Order' /\ Due'
  BY <1>6, <1>12, <1>14, <1>15, IdleOne DEF l
<1>17. faults' \in 0 .. MaxFaults
  <2>1. faults \in 0 .. MaxFaults /\ MaxFaults \in Nat BY BoundsAssumption DEF IInv, TypeInv
  <2>2. faults' = faults + 1 /\ faults < MaxFaults BY DEF SendCut
  <2> QED BY <2>1, <2>2
<1>18. TypeInv' BY <1>16, <1>17 DEF IInv, TypeInv, SendCut, client, server, history
<1> QED BY <1>16, <1>18 DEF IInv

\* A connection breaks, with what is on its way.
LEMMA BreakStep ==
  ASSUME IInv, NEW i \in DOMAIN conns, Break(i)
  PROVE  IInv'
<1>1. conns \in Seq(Connection) /\ i \in 1 .. Len(conns) BY LenProperties DEF IInv, TypeInv
<1> DEFINE l == conns[i]
           m == [l EXCEPT !.end = "lost", !.pipe = << >>]
<1>2. conns' = [conns EXCEPT ![i] = m] BY <1>1 DEF Break
<1>3. l \in Connection /\ LineOK(transport, l) BY <1>1, ElementOfSeq DEF IInv, Lines
<1>4. transport # "serial" BY DEF Break, Serial
<1> HIDE DEF l
<1>5. /\ m.pipe = << >> /\ m.end = "lost"
      /\ m.sent = l.sent /\ m.client = l.client /\ m.torn = l.torn
      /\ m \in Connection
  <2>1. << >> \in Seq(AnyPiece) OBVIOUS
  <2>2. m \in Connection BY <1>3, <2>1 DEF Connection
  <2>3. m.pipe = << >> BY <1>3 DEF Connection
  <2>4. m.end = "lost" BY <1>3 DEF Connection
  <2>5. m.sent = l.sent /\ m.client = l.client /\ m.torn = l.torn BY <1>3 DEF Connection
  <2> QED BY <2>2, <2>3, <2>4, <2>5
<1> HIDE DEF m
<1>6. Kept(transport, l, m) BY <1>3, <1>4, <1>5, KeptEnds
<1>7. UNCHANGED Daemon BY DEF Daemon, Break, server, history
<1>8. conns' \in Seq(Connection) /\ Control' /\ Lines' /\ Sync' /\ Order' /\ Due'
  BY <1>1, <1>2, <1>5, <1>6, <1>7, IdleOne DEF l
<1>9. faults' \in 0 .. MaxFaults
  <2>1. faults \in 0 .. MaxFaults /\ MaxFaults \in Nat BY BoundsAssumption DEF IInv, TypeInv
  <2>2. faults' = faults + 1 /\ faults < MaxFaults BY DEF Break
  <2> QED BY <2>1, <2>2
<1>10. TypeInv' BY <1>8, <1>9 DEF IInv, TypeInv, Break, server, history
<1> QED BY <1>8, <1>10 DEF IInv

\* A client closes its connection and exits.
LEMMA ExitStep ==
  ASSUME IInv, NEW c \in Clients, Exit(c)
  PROVE  IInv'
<1>1. conns \in Seq(Connection) /\ DOMAIN conns = 1 .. Len(conns) /\ Len(conns) \in Nat
  BY LenProperties DEF IInv, TypeInv
<1> DEFINE m(i) == IF Of(c, i) /\ ~Serial THEN [conns[i] EXCEPT !.end = "closed"] ELSE conns[i]
<1>2. conns' = [i \in 1 .. Len(conns) |-> m(i)] BY <1>1 DEF Exit
<1>3. ASSUME NEW i \in 1 .. Len(conns) PROVE m(i) \in Connection /\ Kept(transport, conns[i], m(i))
  <2> DEFINE l == conns[i]
  <2>1. l \in Connection /\ LineOK(transport, l) BY <1>1, ElementOfSeq DEF IInv, Lines
  <2>2. CASE Of(c, i) /\ ~Serial
    <3> DEFINE k == [l EXCEPT !.end = "closed"]
    <3>1. l.end # "lost" BY <2>1, <2>2 DEF Of, LineOK
    <3>2. m(i) = k BY <2>2
    <3> HIDE DEF l
    <3>3. /\ k.pipe = l.pipe /\ k.end = "closed"
          /\ k.sent = l.sent /\ k.client = l.client /\ k.torn = l.torn
          /\ k \in Connection
      BY <2>1 DEF Connection
    <3> HIDE DEF k
    <3>4. k.end # "lost" BY <3>3
    <3>5. Kept(transport, l, k) BY <2>1, <3>1, <3>3, <3>4, KeptEnds
    <3> QED BY <3>2, <3>3, <3>5 DEF l
  <2>3. CASE ~(Of(c, i) /\ ~Serial)
    <3>1. m(i) = l BY <2>3
    <3> QED BY <2>1, <3>1, KeptSame
  <2> QED BY <2>2, <2>3
<1> HIDE DEF m
<1>4. conns' \in [1 .. Len(conns) -> Connection] /\ \A i \in 1 .. Len(conns) : conns'[i] = m(i)
  BY <1>2, <1>3
<1>5. conns' \in Seq(Connection) /\ Len(conns') = Len(conns) BY <1>1, <1>4, SeqOfFcn
<1>6. UNCHANGED Daemon BY DEF Daemon, Exit, server, history
<1>7. Control' /\ Lines' /\ Sync' /\ Order' /\ Due' BY <1>3, <1>4, <1>5, <1>6, Idle
<1>8. TypeInv' BY <1>5 DEF IInv, TypeInv, Exit, server, history
<1> QED BY <1>7, <1>8 DEF IInv

\* A connection is made; it is not accepted yet.
LEMMA ConnectStep ==
  ASSUME IInv, NEW c \in Clients, Connect(c)
  PROVE  IInv'
<1> DEFINE l == Line(c)
           k == Len(conns)
<1>1. conns \in Seq(Connection) /\ k \in Nat BY LenProperties DEF IInv, TypeInv
<1>2. l \in Connection /\ l.client = c /\ l.pipe = << >> /\ l.end = "open" /\ l.sent = << >> /\ l.torn = FALSE
  BY DEF Line, Connection
<1>3. conns' = Append(conns, l) BY DEF Connect
<1> HIDE DEF l
<1>4. /\ conns' \in Seq(Connection) /\ Len(conns') = k + 1
      /\ conns'[k + 1] = l /\ \A i \in 1 .. k : conns'[i] = conns[i]
  BY <1>1, <1>2, <1>3, AppendProperties
<1>5. LineOK(transport, l)
  <2>1. c # "tty" BY ClientsAssumption
  <2>2. Len(<< >>) = 0 /\ 1 .. 0 = {} /\ 2 .. 0 = {} OBVIOUS
  <2> QED BY <1>2, <2>1, <2>2 DEF LineOK
<1>6. Fresh(l)
  <2>1. ~Ragged(<< >>) BY DEF Ragged
  <2>2. Coming(<< >>) = << >> BY ComingIs
  <2> QED BY <1>2, <2>1, <2>2 DEF Fresh
<1>7. UNCHANGED Daemon /\ ~Ended BY DEF Daemon, Connect, server, history
<1>8. UNCHANGED transport /\ UNCHANGED connected /\ UNCHANGED rx /\ UNCHANGED at /\ UNCHANGED got
      /\ UNCHANGED clean /\ UNCHANGED divided /\ UNCHANGED blurred /\ UNCHANGED due
  BY <1>7 DEF Daemon
<1>9. conns' # << >>
  <2>1. Len(<< >>) = 0 OBVIOUS
  <2> QED BY <1>1, <1>4, <2>1
<1>10. Control' BY <1>7, <1>8, <1>9 DEF IInv, Control, Ended
<1>11. ASSUME NEW i \in 1 .. Len(conns')
       PROVE  LineOK(transport, conns'[i]) /\ (i > 1 \/ ~connected => Fresh(conns'[i]))
  <2>1. CASE i = k + 1 BY <1>4, <1>5, <1>6, <2>1
  <2>2. CASE i # k + 1
    <3>1. i \in 1 .. k BY <1>1, <1>4, <2>2
    <3> QED BY <1>4, <3>1 DEF IInv, Lines
  <2> QED BY <2>1, <2>2
<1>12. Lines' BY <1>8, <1>11 DEF Lines
<1>13. connected => conns'[1] = conns[1]
  <2>1. connected => 1 \in 1 .. k BY <1>1, EmptySeq DEF IInv, Control
  <2> QED BY <1>4, <2>1
<1>14. Sync' BY <1>8, <1>13 DEF IInv, Sync
<1>15. Order' BY <1>8, <1>13 DEF IInv, Order
<1>16. Due' BY <1>8 DEF IInv, Due
<1>17. TypeInv' BY <1>4 DEF IInv, TypeInv, Connect, server, history
<1> QED BY <1>10, <1>12, <1>14, <1>15, <1>16, <1>17 DEF IInv

\* Bytes are taken from the accepted connection.
LEMMA CutStep ==
  ASSUME IInv, connected, UNCHANGED transport, UNCHANGED connected, NEW n \in 1 .. Len(Bytes),
         NEW m, m = [conns[1] EXCEPT !.pipe = Cut(conns[1].pipe, n)],
         conns' = [conns EXCEPT ![1] = m]
  PROVE  /\ conns[1] \in Connection /\ LineOK(transport, conns[1])
         /\ Bytes = Joined(conns[1].pipe)
         /\ m \in Connection /\ m.pipe = Cut(conns[1].pipe, n)
         /\ m.end = conns[1].end /\ m.torn = conns[1].torn /\ m.sent = conns[1].sent
         /\ conns' \in Seq(Connection) /\ conns'[1] = m /\ conns' # << >> /\ Lines'
<1> DEFINE l == conns[1]
<1>1. conns \in Seq(Connection) /\ 1 \in 1 .. Len(conns) /\ Len(conns) \in Nat
  BY EmptySeq DEF IInv, TypeInv, Control
<1>2. l \in Connection /\ LineOK(transport, l) BY <1>1, ElementOfSeq DEF IInv, Lines
<1>3. Bytes = Joined(l.pipe) BY DEF Bytes
<1>4. m.pipe = Cut(l.pipe, n) /\ m.end = l.end /\ m.torn = l.torn /\ m.sent = l.sent
  BY <1>2 DEF Connection
<1>5. m \in Connection /\ LineOK(transport, m) BY <1>2, <1>3, LineCut
<1>6. /\ conns' \in Seq(Connection) /\ Len(conns') = Len(conns) /\ conns'[1] = m
      /\ \A j \in 1 .. Len(conns) : j # 1 => conns'[j] = conns[j]
  BY <1>1, <1>5, OneElse
<1>7. conns' # << >>
  <2>1. Len(<< >>) = 0 OBVIOUS
  <2> QED BY <1>1, <1>6, <2>1
<1>8. Lines' BY <1>5, <1>6 DEF IInv, Lines
<1> QED BY <1>2, <1>3, <1>4, <1>5, <1>6, <1>7, <1>8

\* A serial line loses bytes: the next frame may be missed, one behind it not.
LEMMA DropStep ==
  ASSUME IInv, conns # << >>, NEW n \in 1 .. Len(Bytes), Drop(n)
  PROVE  IInv'
<1> DEFINE m == [conns[1] EXCEPT !.pipe = Cut(conns[1].pipe, n)]
<1>1. conns \in Seq(Connection) BY DEF IInv, TypeInv
<1>2. conns' = [conns EXCEPT ![1] = m] BY <1>1 DEF Drop
<1>3. /\ UNCHANGED << transport, client, connected, rx, at, ring, got, due >>
      /\ clean' = FALSE /\ blurred' = TRUE /\ divided' \in BOOLEAN
      /\ transport = "serial" /\ faults' = faults + 1 /\ faults < MaxFaults
  BY DEF Drop, Serial, IInv, TypeInv
<1>4. connected BY <1>3 DEF IInv, Control
<1>5. conns' \in Seq(Connection) /\ conns' # << >> /\ Lines' BY <1>2, <1>3, <1>4, CutStep
<1>6. faults' \in 0 .. MaxFaults
  <2>1. faults \in 0 .. MaxFaults /\ MaxFaults \in Nat BY BoundsAssumption DEF IInv, TypeInv
  <2> QED BY <1>3, <2>1
<1>7. TypeInv' BY <1>3, <1>5, <1>6 DEF IInv, TypeInv, client
<1>8. Control' BY <1>3, <1>5 DEF IInv, Control, Ended
<1>9. Sync' /\ Order' BY <1>3 DEF Sync, Order
<1>10. Due' BY <1>3 DEF IInv, Due
<1> QED BY <1>5, <1>7, <1>8, <1>9, <1>10 DEF IInv

\* A connection is accepted: whatever is left in rx_buf may cost its first frame.
LEMMA AcceptStep ==
  ASSUME IInv, Accept
  PROVE  IInv'
<1> DEFINE l == conns[1]
<1>1. /\ ~connected /\ conns # << >> /\ connected' = TRUE
      /\ got' = << >> /\ due' = << >> /\ divided' = FALSE
      /\ clean' = (rx = << >>) /\ blurred' = (rx # << >>)
      /\ UNCHANGED << transport, conns, rx, at, ring, faults, client >>
  BY DEF Accept
<1>2. at = "run" BY <1>1 DEF IInv, TypeInv, Control, Ended
<1>3. conns \in Seq(Connection) /\ 1 \in 1 .. Len(conns) BY <1>1, EmptySeq DEF IInv, TypeInv
<1>4. l \in Connection /\ LineOK(transport, l) /\ Fresh(l)
  BY <1>1, <1>3, ElementOfSeq DEF IInv, Lines
<1>5. TypeInv'
  <2>1. << >> \in Seq(Seq(Octet)) /\ << >> \in Seq(Payloads) OBVIOUS
  <2> QED BY <1>1, <2>1 DEF IInv, TypeInv, client
<1>6. Control' BY <1>1, <1>2 DEF IInv, Control, Ended
<1>7. Lines' BY <1>1 DEF IInv, Lines
<1>8. l.pipe \in Seq(AnyPiece) /\ Coming(l.pipe) \in Seq(Framed) BY <1>4, ComingIs DEF Connection
<1> HIDE DEF l
<1>9. Synchronous(l, << >>)
  <2>1. SUFFICES ASSUME Hopeful(l) PROVE Closed(<< >> \o Half(l.pipe)) BY DEF Synchronous
  <2>2. ~Ragged(l.pipe) BY <1>4, <2>1 DEF Hopeful, Fresh
  <2>3. Half(l.pipe) = << >> BY <2>2 DEF Half
  <2>4. << >> \in Seq(Octet) OBVIOUS
  <2>5. << >> \o << >> = << >> BY <2>4, Alone
  <2>6. Closed(<< >>) BY DEF Closed
  <2> QED BY <2>3, <2>5, <2>6
<1>10. Sync' BY <1>1, <1>9 DEF Sync, l
<1>11. ~l.torn /\ l.end # "lost" => ~Ragged(l.pipe) /\ << >> \o Coming(l.pipe) = l.sent
  <2>1. << >> \o Coming(l.pipe) = Coming(l.pipe) BY <1>8, ConcatEmptySeq
  <2> QED BY <1>4, <2>1 DEF Fresh
<1>12. Order'
  <2>1. rx = << >> => Ordered(l, "run", rx, << >>) BY <1>11 DEF Ordered
  <2> QED BY <1>1, <1>2, <2>1 DEF Order, l
<1>13. Due' BY <1>1 DEF Due
<1> QED BY <1>5, <1>6, <1>7, <1>10, <1>12, <1>13 DEF IInv

\* The accepted connection is closed, and those behind it are as they were.
LEMMA HangupStep ==
  ASSUME IInv, connected, at = "run", transport # "serial", Hangup
  PROVE  IInv'
<1>1. /\ connected' = FALSE /\ conns' = Tail(conns)
      /\ sock' = IF conns[1].end = "open" THEN [sock EXCEPT ![conns[1].client] = "shut"] ELSE sock
      /\ UNCHANGED << transport, tx, frames, faults, rx, at, ring, history >>
  BY DEF Hangup
<1>2. conns \in Seq(Connection) /\ conns # << >> BY DEF IInv, TypeInv, Control
<1>3. /\ conns' \in Seq(Connection) /\ Len(conns') = Len(conns) - 1 /\ Len(conns) \in Nat
      /\ \A i \in 1 .. Len(conns) - 1 : conns'[i] = conns[i + 1]
  BY <1>1, <1>2, HeadTailProperties, LenProperties
<1>4. sock' \in [Clients -> {"idle", "none", "up", "shut", "gone", "exit"}]
  BY <1>1 DEF IInv, TypeInv
<1>5. TypeInv' BY <1>1, <1>3, <1>4 DEF IInv, TypeInv, history
<1>6. Control' BY <1>1 DEF IInv, Control, Ended, history
<1>7. ASSUME NEW i \in 1 .. Len(conns')
      PROVE  LineOK(transport, conns'[i]) /\ Fresh(conns'[i])
  <2>1. i + 1 \in 1 .. Len(conns) /\ i + 1 > 1 /\ i \in 1 .. Len(conns) - 1 BY <1>3
  <2>2. conns'[i] = conns[i + 1] BY <1>3, <2>1
  <2> QED BY <2>1, <2>2 DEF IInv, Lines
<1>8. Lines' BY <1>1, <1>7 DEF Lines
<1>9. Sync' /\ Order' BY <1>1 DEF Sync, Order
<1>10. Due' BY <1>1 DEF IInv, Due, history
<1> QED BY <1>5, <1>6, <1>8, <1>9, <1>10 DEF IInv

\* The process ends.
LEMMA TerminateStep ==
  ASSUME IInv, transport = "prefix", NEW how \in {"abort", "overrun"}, Terminate(how)
  PROVE  IInv'
<1>1. /\ at' = how /\ at' # "parse" /\ connected' = FALSE /\ conns' = << >> /\ ring' = << >>
      /\ sock' = [c \in Clients |-> IF sock[c] = "up" THEN "gone" ELSE sock[c]]
      /\ UNCHANGED << transport, tx, frames, faults, rx, history >>
  BY DEF Terminate
<1>2. TypeInv'
  <2>1. << >> \in Seq(Seq(Octet)) /\ << >> \in Seq(Connection) /\ Len(<< >>) = 0 OBVIOUS
  <2>2. Len(ring') <= Room BY <1>1, <2>1, RoomAssumption
  <2>3. sock' \in [Clients -> {"idle", "none", "up", "shut", "gone", "exit"}]
    BY <1>1 DEF IInv, TypeInv
  <2> QED BY <1>1, <2>1, <2>2, <2>3 DEF IInv, TypeInv, history
<1>3. Control' BY <1>1 DEF IInv, Control, Ended, history
<1>4. Lines'
  <2>1. Len(<< >>) = 0 /\ 1 .. 0 = {} OBVIOUS
  <2> QED BY <1>1, <2>1 DEF Lines
<1>5. Sync' /\ Order' /\ Due' BY <1>1 DEF Sync, Order, Due
<1> QED BY <1>2, <1>3, <1>4, <1>5 DEF IInv

\* A receive: what comes whole is due, and what it leaves cut is remembered.
LEMMA RecvStep ==
  ASSUME IInv, conns # << >>, NEW n \in 1 .. Len(Bytes), Recv(n)
  PROVE  IInv'
<1> DEFINE l == conns[1]
           pipe == l.pipe
           m == [l EXCEPT !.pipe = Cut(pipe, n)]
           F == Frames(SubSeq(pipe, 1, Taken(pipe, n)))
           f == SubSeq(Joined(pipe), 1, n)
<1>1. /\ transport # "prefix" /\ connected /\ at = "run" /\ n <= RxSize - Len(rx)
      /\ rx' = rx \o SubSeq(Bytes, 1, n) /\ at' = "parse"
      /\ UNCHANGED << transport, client, faults, connected, ring, got, clean >>
  BY DEF Recv, Limit
<1>2. conns' = [conns EXCEPT ![1] = m]
  <2>1. conns \in Seq(Connection) BY DEF IInv, TypeInv
  <2> QED BY <2>1 DEF Recv
<1>3. /\ divided' = (divided \/ Ragged(Cut(pipe, n)))
      /\ due' = IF blurred /\ F # << >> THEN Tail(F) ELSE F
      /\ blurred' = (blurred /\ F = << >>)
  BY DEF Recv
<1>4. UNCHANGED transport /\ UNCHANGED connected BY <1>1
<1>5. /\ l \in Connection /\ LineOK(transport, l)
      /\ Bytes = Joined(pipe)
      /\ m \in Connection /\ m.pipe = Cut(pipe, n)
      /\ m.end = l.end /\ m.torn = l.torn /\ m.sent = l.sent
      /\ conns' \in Seq(Connection) /\ conns'[1] = m /\ conns' # << >> /\ Lines'
  BY <1>1, <1>2, <1>4, CutStep
<1>6. n \in 1 .. Len(Joined(pipe)) /\ rx' = rx \o f BY <1>1, <1>5
<1>7. rx \in Seq(Octet) /\ pipe \in Seq(AnyPiece) /\ Joined(pipe) \in Seq(Octet)
  BY <1>5, JoinedIs DEF IInv, TypeInv, Connection
<1>8. f \in Seq(Octet) /\ Len(f) = n
  <2> HIDE DEF pipe
  <2>1. n \in 0 .. Len(Joined(pipe)) BY <1>6
  <2> QED BY <1>7, <2>1, PrefixIs
<1>9. F \in Seq(Payloads)
  <2>1. SubSeq(pipe, 1, Taken(pipe, n)) \in Seq(AnyPiece) BY <1>6, <1>7, CutIs
  <2> QED BY <2>1, FramesIs
<1>10. m = [l EXCEPT !.pipe = Cut(pipe, n)] OBVIOUS
<1>11. ~blurred => Synchronous(l, rx) BY <1>1 DEF IInv, Sync
<1>12. F # << >> => /\ Synchronous(l, rx) => Awaited(F, rx \o f)
                    /\ Awaited(Tail(F), rx \o f)
  <2> HIDE DEF l
  <2>1. l \in Connection /\ LineOK(transport, l) BY <1>5
  <2> QED BY <1>1, <1>6, <1>7, <2>1, AwaitedCut
<1>13. Synchronous(l, rx) \/ F # << >> => Synchronous(m, rx \o f)
  <2> HIDE DEF l, m
  <2>1. l \in Connection /\ LineOK(transport, l) BY <1>5
  <2>2. m = [l EXCEPT !.pipe = Cut(l.pipe, n)] BY <1>10
  <2> QED BY <1>1, <1>6, <1>7, <2>1, <2>2, SynchronousCut
<1>14. ~l.torn /\ ~Ragged(pipe) /\ ~Ragged(Cut(pipe, n)) =>
         \E p \in Seq(Payloads) : f = Slips(p) /\ Coming(pipe) = p \o Coming(Cut(pipe, n))
  <2> HIDE DEF l
  <2>1. l \in Connection /\ LineOK(transport, l) BY <1>5
  <2> QED BY <1>1, <1>6, <2>1, OrderCut
<1> HIDE DEF F, f, m
<1>15. TypeInv'
  <2>1. rx' \in Seq(Octet) /\ Len(rx') = Len(rx) + n /\ Len(rx) \in Nat /\ n \in Nat
    <3>1. rx \o f \in Seq(Octet) /\ Len(rx \o f) = Len(rx) + Len(f) /\ Len(rx) \in Nat
      BY <1>7, <1>8, ConcatLast
    <3>2. Len(f) \in Nat BY <1>8, LenProperties
    <3> QED BY <1>6, <1>8, <3>1, <3>2
  <2>2. Len(rx') <= RxSize BY <1>1, <2>1, RxSizeAssumption
  <2>3. due' \in Seq(Payloads)
    <3>1. F # << >> => Tail(F) \in Seq(Payloads) BY <1>9, HeadTailProperties
    <3> QED BY <1>3, <1>9, <3>1
  <2>4. divided' \in BOOLEAN /\ blurred' \in BOOLEAN BY <1>3 DEF IInv, TypeInv
  <2> QED BY <1>1, <1>5, <2>1, <2>2, <2>3, <2>4 DEF IInv, TypeInv, client
<1>16. Control' BY <1>1, <1>5 DEF IInv, Control, Ended
<1>17. Sync'
  <2>1. ~blurred' => Synchronous(l, rx) \/ F # << >> BY <1>3, <1>11
  <2>2. ~blurred' => Synchronous(m, rx \o f) BY <1>13, <2>1
  <2> QED BY <1>5, <1>6, <2>2 DEF Sync
<1>18. Due'
  <2>1. ASSUME due' # << >> PROVE Awaited(due', rx')
    <3>1. CASE blurred /\ F # << >>
      <4>1. due' = Tail(F) BY <1>3, <3>1
      <4> QED BY <1>6, <1>12, <3>1, <4>1
    <3>2. CASE ~blurred
      <4>1. due' = F BY <1>3, <3>2
      <4> QED BY <1>6, <1>11, <1>12, <2>1, <3>2, <4>1
    <3>3. CASE F = << >> BY <1>3, <2>1, <3>3
    <3> QED BY <3>1, <3>2, <3>3 DEF IInv, TypeInv
  <2> QED BY <2>1 DEF Due
<1>19. Order'
  <2>1. SUFFICES ASSUME clean, ~divided, ~Ragged(Cut(pipe, n)), ~m.torn, m.end # "lost"
                 PROVE  \E p \in Seq(Payloads) : rx' = Slips(p) /\ (got \o p) \o Coming(m.pipe) = m.sent
    BY <1>1, <1>3, <1>5 DEF Order, Ordered
  <2>2. Ordered(l, at, rx, got) BY <1>1, <2>1 DEF IInv, Order
  <2>3. ~Ragged(pipe) /\ rx = << >> /\ got \o Coming(pipe) = l.sent
    BY <1>1, <1>5, <2>1, <2>2 DEF Ordered
  <2>4. PICK p \in Seq(Payloads) : f = Slips(p) /\ Coming(pipe) = p \o Coming(Cut(pipe, n))
    BY <1>5, <1>14, <2>1, <2>3
  <2>5. rx' = Slips(p) BY <1>6, <1>8, <2>3, <2>4, Alone
  <2> DEFINE c == Coming(Cut(pipe, n))
  <2>6. c \in Seq(Seq(Octet))
    <3>1. m.pipe \in Seq(AnyPiece) BY <1>5 DEF Connection
    <3>2. Coming(m.pipe) \in Seq(Framed) BY <3>1, ComingIs
    <3> QED BY <1>5, <3>2, PayloadsAre
  <2>7. Coming(pipe) = p \o c BY <2>4
  <2> HIDE DEF c
  <2>8. (got \o p) \o c = got \o (p \o c)
    <3>1. p \in Seq(Seq(Octet)) BY PayloadsAre
    <3>2. got \in Seq(Seq(Octet)) BY DEF IInv, TypeInv
    <3> QED BY <2>6, <3>1, <3>2, Associative, SMTT(30)
  <2>9. (got \o p) \o c = m.sent BY <1>5, <2>3, <2>7, <2>8
  <2> QED BY <1>5, <2>5, <2>9 DEF c
<1> QED BY <1>5, <1>15, <1>16, <1>17, <1>18, <1>19 DEF IInv

\* A payload comes from a frame that is parsed.
LEMMA PayloadParsed ==
  ASSUME NEW b \in Seq(Octet), Decode(b).payload # << >>
  PROVE  Decode(b).parsed # 0 /\ b # << >>
<1>1. b # << >> BY DecodeNothing
<1>2. Ends(b) # {} BY DecodeIs
<1> QED BY <1>1, <1>2, ParsedIs

\* A round of the loop behind recv, in each of its five outcomes.
LEMMA ParseStep ==
  ASSUME IInv, Parse
  PROVE  IInv'
<1> DEFINE d == Decode(rx)
           rest == SubSeq(rx, d.parsed + 1, Len(rx))
           l == conns[1]
<1>1. /\ at = "parse"
      /\ UNCHANGED << transport, client, conns, faults, connected, divided, blurred >>
  BY DEF Parse
<1>2. \/ /\ rx = << >>
         /\ at' = "run"
         /\ UNCHANGED << rx, ring, got, clean, due >>
      \/ /\ d.payload # << >> /\ Len(ring) < Room
         /\ ring' = Append(ring, d.payload) /\ got' = Append(got, d.payload)
         /\ due' = IF due # << >> /\ due[1] = d.payload THEN Tail(due) ELSE due
         /\ rx' = rest
         /\ UNCHANGED << at, clean >>
      \/ /\ d.payload # << >> /\ Len(ring) = Room
         /\ rx' = d.buf
         /\ at' = "run" /\ clean' = FALSE /\ due' = << >>
         /\ UNCHANGED << ring, got >>
      \/ /\ d.payload = << >> /\ d.parsed > 0
         /\ rx' = rest
         /\ UNCHANGED << at, ring, got, clean, due >>
      \/ /\ rx # << >> /\ d.parsed = 0
         /\ rx' = d.buf
         /\ at' = "run"
         /\ UNCHANGED << ring, got, clean, due >>
  BY DEF Parse
<1>3. /\ rx \in Seq(Octet) /\ Len(rx) <= RxSize /\ due \in Seq(Payloads)
      /\ ring \in Seq(Seq(Octet)) /\ Len(ring) <= Room /\ got \in Seq(Seq(Octet))
      /\ Room \in Nat /\ RxSize \in Nat
      /\ connected /\ transport # "prefix" /\ conns # << >>
  BY <1>1, RoomAssumption, RxSizeAssumption DEF IInv, TypeInv, Control
<1>4. /\ d.parsed \in 0 .. Len(rx) /\ Len(rx) \in Nat /\ d.payload \in Seq(Octet)
      /\ d.buf \in Seq(Octet) /\ Len(d.buf) = Len(rx)
      /\ rest \in Seq(Octet) /\ Len(rest) <= Len(rx)
  <2>1. d.parsed \in 0 .. Len(rx) /\ Len(rx) \in Nat BY <1>3, ParsedIs, LenProperties
  <2>2. d.payload \in Seq(Octet) /\ d.buf \in Seq(Octet) /\ Len(d.buf) = Len(rx) BY <1>3, BufIs
  <2>3. rest \in Seq(Octet) /\ Len(rest) = Len(rx) - d.parsed BY <1>3, <2>1, RestIs
  <2>4. Len(rest) <= Len(rx) BY <2>1, <2>3
  <2> QED BY <2>1, <2>2, <2>3, <2>4
<1>5. d.payload # << >> => d.parsed # 0 /\ rx # << >> BY <1>3, PayloadParsed
<1>6. rx = << >> => d.parsed = 0 BY DecodeNothing
<1>7. l \in Connection
  <2>1. conns \in Seq(Connection) /\ 1 \in 1 .. Len(conns) BY <1>3, EmptySeq DEF IInv, TypeInv
  <2> QED BY <2>1, ElementOfSeq
<1>8. due # << >> =>
        /\ rx # << >> /\ d.parsed # 0 /\ due[1] # << >>
        /\ d.payload # due[1] => Awaited(due, rest)
        /\ d.payload = due[1] => Awaited(Tail(due), rest)
  <2>1. SUFFICES ASSUME due # << >>
                 PROVE  /\ rx # << >> /\ d.parsed # 0 /\ due[1] # << >>
                        /\ d.payload # due[1] => Awaited(due, rest)
                        /\ d.payload = due[1] => Awaited(Tail(due), rest)
    OBVIOUS
  <2>2. Awaited(due, rx) BY <1>1, <2>1 DEF IInv, Due
  <2>3. due[1] \in Payloads BY <1>3, <2>1, HeadAndTail
  <2>4. due[1] # << >> BY <2>3, PayloadIs
  <2>5. d = Decode(rx) /\ rest = SubSeq(rx, d.parsed + 1, Len(rx)) OBVIOUS
  <2> HIDE DEF rest, d
  <2> QED BY <1>3, <2>1, <2>2, <2>4, <2>5, AwaitedParse
<1>9. Synchronous(l, rx) /\ rx # << >> =>
        /\ d.parsed # 0 => Synchronous(l, rest)
        /\ d.parsed = 0 \/ d.payload # << >> => Synchronous(l, d.buf)
  <2> HIDE DEF l
  <2> QED BY <1>3, <1>7, SynchronousParse
<1>10. ASSUME NEW F \in Seq(Payloads), rx = Slips(F)
       PROVE  /\ F = << >> => rx = << >>
              /\ F # << >> => /\ rx # << >> /\ d.parsed # 0 /\ d.payload = F[1] /\ d.payload # << >>
                              /\ rest = Slips(Tail(F))
  BY <1>10, OrderParse
<1> HIDE DEF d, rest, l
<1>11. TypeInv'
  <2>1. rx' \in Seq(Octet) /\ Len(rx') <= RxSize
    <3>1. rx' = rx \/ rx' = rest \/ rx' = d.buf BY <1>2
    <3>2. CASE rx' = rx BY <1>3, <3>2
    <3>3. CASE rx' = rest
      <4>1. Len(rest) \in Nat BY <1>4, LenProperties
      <4> QED BY <1>3, <1>4, <3>3, <4>1
    <3>4. CASE rx' = d.buf BY <1>3, <1>4, <3>4
    <3> QED BY <3>1, <3>2, <3>3, <3>4
  <2>2. /\ ring' \in Seq(Seq(Octet)) /\ Len(ring') <= Room /\ got' \in Seq(Seq(Octet))
    <3>1. CASE ring' = Append(ring, d.payload) /\ got' = Append(got, d.payload) /\ Len(ring) < Room
      <4>1. ring' \in Seq(Seq(Octet)) /\ Len(ring') = Len(ring) + 1 /\ got' \in Seq(Seq(Octet))
        BY <1>3, <1>4, <3>1, AppendProperties
      <4>2. Len(ring) \in Nat BY <1>3, LenProperties
      <4> QED BY <1>3, <3>1, <4>1, <4>2
    <3>2. CASE UNCHANGED << ring, got >> BY <1>3, <3>2
    <3> QED BY <1>2, <3>1, <3>2
  <2>3. due' \in Seq(Payloads)
    <3>1. due # << >> => Tail(due) \in Seq(Payloads) BY <1>3, HeadTailProperties
    <3>2. << >> \in Seq(Payloads) OBVIOUS
    <3> QED BY <1>2, <1>3, <3>1, <3>2
  <2>4. at' \in {"run", "parse", "abort", "overrun"} /\ clean' \in BOOLEAN BY <1>1, <1>2 DEF IInv, TypeInv
  <2> QED BY <1>1, <2>1, <2>2, <2>3, <2>4 DEF IInv, TypeInv, client
<1>12. Control'
  <2>1. at' \in {"run", "parse"} BY <1>1, <1>2
  <2>2. at' # "parse" => due' = << >> BY <1>1, <1>2, <1>8
  <2> QED BY <1>1, <1>3, <2>1, <2>2 DEF IInv, Control, Ended
<1>13. Lines' BY <1>1 DEF IInv, Lines
<1>14. Sync'
  <2>1. SUFFICES ASSUME ~blurred PROVE Synchronous(l, rx') BY <1>1 DEF Sync, l
  <2>2. Synchronous(l, rx) BY <1>3, <2>1 DEF IInv, Sync, l
  <2>3. rx' = rx \/ (rx # << >> /\ rx' = rest /\ d.parsed # 0)
          \/ (rx # << >> /\ rx' = d.buf /\ (d.parsed = 0 \/ d.payload # << >>))
    BY <1>2, <1>4, <1>5, <1>6
  <2> QED BY <1>9, <2>2, <2>3
<1>15. Due'
  <2>1. SUFFICES ASSUME at' = "parse", due' # << >> PROVE Awaited(due', rx') BY DEF Due
  <2>2. CASE d.payload # << >> /\ rx' = rest /\ due' = IF due # << >> /\ due[1] = d.payload THEN Tail(due) ELSE due
    <3>1. due # << >> BY <2>1, <2>2
    <3> QED BY <1>8, <2>2, <3>1
  <2>3. CASE d.payload = << >> /\ rx' = rest /\ due' = due BY <1>8, <2>1, <2>3
  <2> QED BY <1>2, <2>1, <2>2, <2>3
<1>16. Order'
  <2>1. SUFFICES ASSUME clean, ~divided, ~l.torn, l.end # "lost", clean'
                 PROVE  /\ ~Ragged(l.pipe)
                        /\ at' = "run" => rx' = << >> /\ got' \o Coming(l.pipe) = l.sent
                        /\ at' = "parse" => \E p \in Seq(Payloads) :
                             rx' = Slips(p) /\ (got' \o p) \o Coming(l.pipe) = l.sent
    BY <1>1, <1>2 DEF Order, Ordered, l
  <2>2. Ordered(l, at, rx, got) BY <1>3, <2>1 DEF IInv, Order, l
  <2>3. ~Ragged(l.pipe) BY <2>1, <2>2 DEF Ordered
  <2>4. PICK F \in Seq(Payloads) : rx = Slips(F) /\ (got \o F) \o Coming(l.pipe) = l.sent
    BY <1>1, <2>1, <2>2 DEF Ordered
  <2>5. CASE F = << >>
    <3>1. rx = << >> /\ d.parsed = 0 /\ d.payload = << >> BY <1>5, <1>6, <1>10, <2>4, <2>5
    <3>2. at' = "run" /\ rx' = rx /\ got' = got BY <1>2, <1>4, <3>1
    <3>3. got \o << >> = got BY <1>3, ConcatEmptySeq
    <3> QED BY <2>3, <2>4, <2>5, <3>1, <3>2, <3>3
  <2>6. CASE F # << >>
    <3>1. rx # << >> /\ d.parsed # 0 /\ d.payload = F[1] /\ d.payload # << >> /\ rest = Slips(Tail(F))
      BY <1>10, <2>4, <2>6
    <3>2. rx' = rest /\ got' = Append(got, d.payload) /\ at' = at BY <1>2, <2>1, <3>1
    <3> DEFINE e == << F[1] >>
               g == Tail(F)
    <3>3. F = e \o g /\ e \in Seq(Payloads) /\ g \in Seq(Payloads) BY <2>6, HeadAndTail
    <3>4. F[1] \in Seq(Octet) BY <2>6, HeadAndTail, PayloadIs
    <3>5. got' = got \o e
      <4>1. got \in Seq(Seq(Octet)) BY <1>3
      <4>2. Append(got, F[1]) = got \o << F[1] >> BY <3>4, <4>1, LongerIs
      <4> QED BY <3>1, <3>2, <4>2
    <3>6. rx' = Slips(g) BY <3>1, <3>2
    <3> HIDE DEF e, g
    <3>7. e \in Seq(Seq(Octet)) /\ g \in Seq(Seq(Octet)) BY <3>3, PayloadsAre
    <3>8. (got \o e) \o g = got \o (e \o g)
      <4>1. got \in Seq(Seq(Octet)) BY <1>3
      <4>2. e \in Seq(Seq(Octet)) BY <3>7
      <4>3. g \in Seq(Seq(Octet)) BY <3>7
      <4> QED BY <4>1, <4>2, <4>3, Associative, SMTT(30)
    <3>9. got' \o g = got \o F BY <3>3, <3>5, <3>8
    <3>10. at' = "parse" BY <1>1, <3>2
    <3> QED BY <2>3, <2>4, <3>3, <3>6, <3>9, <3>10
  <2> QED BY <2>5, <2>6
<1> QED BY <1>11, <1>12, <1>13, <1>14, <1>15, <1>16 DEF IInv

\* What is published is a frame, whenever whole frames are taken.
LEMMA PublishStep ==
  ASSUME IInv, transport = "prefix", connected, at = "run", Len(ring) < Room,
         NEW k \in 1 .. Len(Bytes), NEW chunk \in Seq(Octet), Publish(k, chunk),
         k > 2 /\ IsPrefixed(Bytes) => chunk = SubSeq(Bytes, 3, k) /\ k <= 2 + Length(Bytes)
  PROVE  IInv'
<1> DEFINE l == conns[1]
           pipe == l.pipe
           m == [l EXCEPT !.pipe = Cut(pipe, k)]
<1>1. conns' = [conns EXCEPT ![1] = m]
  <2>1. conns \in Seq(Connection) BY DEF IInv, TypeInv
  <2> QED BY <2>1 DEF Publish
<1>2. /\ ring' = Append(ring, chunk) /\ got' = Append(got, chunk)
      /\ divided' = (divided \/ Ragged(Cut(pipe, k)))
      /\ UNCHANGED << transport, client, faults, connected, rx, at, clean, blurred, due >>
  BY DEF Publish
<1>3. UNCHANGED transport /\ UNCHANGED connected BY <1>2
<1>4. /\ l \in Connection /\ LineOK(transport, l)
      /\ Bytes = Joined(pipe)
      /\ m \in Connection /\ m.pipe = Cut(pipe, k)
      /\ m.end = l.end /\ m.torn = l.torn /\ m.sent = l.sent
      /\ conns' \in Seq(Connection) /\ conns'[1] = m /\ conns' # << >> /\ Lines'
  BY <1>1, <1>3, CutStep
<1>5. ring \in Seq(Seq(Octet)) /\ got \in Seq(Seq(Octet)) /\ Room \in Nat
  BY RoomAssumption DEF IInv, TypeInv
<1>6. TypeInv'
  <2>1. ring' \in Seq(Seq(Octet)) /\ Len(ring') = Len(ring) + 1 /\ got' \in Seq(Seq(Octet))
    BY <1>2, <1>5, AppendProperties
  <2>2. Len(ring) \in Nat BY <1>5, LenProperties
  <2>3. Len(ring') <= Room BY <1>5, <2>1, <2>2
  <2>4. divided' \in BOOLEAN BY <1>2 DEF IInv, TypeInv
  <2> QED BY <1>2, <1>4, <2>1, <2>3, <2>4 DEF IInv, TypeInv, client
<1>7. Control' BY <1>2, <1>4 DEF IInv, Control, Ended
<1>8. Sync' /\ Due' BY <1>2 DEF Sync, Due
<1>9. Order'
  <2>1. SUFFICES ASSUME clean, ~divided, ~Ragged(Cut(pipe, k)), ~m.torn, m.end # "lost"
                 PROVE  rx' = << >> /\ got' \o Coming(m.pipe) = m.sent
    BY <1>2, <1>4 DEF Order, Ordered
  <2>2. Ordered(l, at, rx, got) BY <2>1 DEF IInv, Order
  <2>3. ~Ragged(pipe) /\ rx = << >> /\ got \o Coming(pipe) = l.sent
    BY <1>4, <2>1, <2>2 DEF Ordered
  <2> DEFINE b == Joined(pipe)
             c == Coming(Cut(pipe, k))
  <2>4. /\ k > 2 /\ IsPrefixed(b)
        /\ k <= 2 + Length(b) => \E p \in Payloads :
             SubSeq(b, 3, k) = p /\ Coming(pipe) = << p >> \o c
    <3>1. transport \in Transports BY DEF IInv, TypeInv
    <3>2. l \in Connection /\ LineOK("prefix", l) /\ ~l.torn /\ k \in 1 .. Len(Joined(pipe))
      BY <1>4, <2>1
    <3>3. b = Joined(l.pipe) OBVIOUS
    <3> HIDE DEF l, b
    <3> QED BY <2>1, <2>3, <3>1, <3>2, <3>3, PrefixCut
  <2>5. PICK p \in Payloads : chunk = p /\ Coming(pipe) = << p >> \o c BY <1>4, <2>4
  <2>6. c \in Seq(Seq(Octet))
    <3>1. m.pipe \in Seq(AnyPiece) BY <1>4 DEF Connection
    <3>2. Coming(m.pipe) \in Seq(Framed) BY <3>1, ComingIs
    <3> QED BY <1>4, <3>2, PayloadsAre
  <2> HIDE DEF c
  <2> DEFINE s == << p >>
  <2>7. got' = got \o s /\ s \in Seq(Seq(Octet)) BY <1>2, <1>5, <2>5, LongerIs
  <2>8. Coming(pipe) = s \o c BY <2>5
  <2> HIDE DEF s
  <2>9. (got \o s) \o c = got \o (s \o c)
    <3>1. got \in Seq(Seq(Octet)) BY <1>5
    <3>2. s \in Seq(Seq(Octet)) BY <2>7
    <3>3. c \in Seq(Seq(Octet)) BY <2>6
    <3> HIDE DEF b
    <3> QED BY <3>1, <3>2, <3>3, Associative, SMTT(30)
  <2>10. got' \o c = m.sent BY <1>4, <2>3, <2>7, <2>8, <2>9
  <2>11. rx' = << >> BY <1>2, <2>3
  <2> QED BY <1>4, <2>10, <2>11 DEF c
<1> QED BY <1>4, <1>6, <1>7, <1>8, <1>9 DEF IInv

\* What is on its way to the daemon.
LEMMA BytesAre ==
  ASSUME IInv, conns # << >>
  PROVE  Bytes \in Seq(Octet) /\ Len(Bytes) \in Nat
<1>1. conns[1] \in Connection
  <2>1. conns \in Seq(Connection) /\ 1 \in 1 .. Len(conns) BY EmptySeq DEF IInv, TypeInv
  <2> QED BY <2>1, ElementOfSeq
<1>2. conns[1].pipe \in Seq(AnyPiece) BY <1>1 DEF Connection
<1>3. Bytes \in Seq(Octet) BY <1>2, JoinedIs DEF Bytes
<1> QED BY <1>3, LenProperties

\* A header is received in part.
LEMMA HeaderCutStep ==
  ASSUME IInv, conns # << >>, NEW n \in 1 .. Len(Bytes), RecvHeaderCut(n)
  PROVE  IInv'
<1> DEFINE chunk == [i \in 1 .. n |-> "chance"]
<1>1. /\ transport = "prefix" /\ connected /\ at = "run" /\ Len(ring) < Room
      /\ n < 2 /\ Publish(n, chunk)
  BY DEF RecvHeaderCut, Prefixed, PrefixSize
<1>2. n \in Nat BY BytesAre
<1>3. chunk \in Seq(Octet)
  <2>1. "chance" \in Octet BY DEF Octet
  <2>2. chunk \in [1 .. n -> Octet] BY <2>1
  <2> QED BY <1>2, <2>2, SeqOfFcn
<1>4. ~(n > 2) BY <1>1, <1>2
<1> HIDE DEF chunk
<1> QED BY <1>1, <1>3, <1>4, PublishStep

\* A header and a body are received.
LEMMA FrameStep ==
  ASSUME IInv, conns # << >>, NEW n \in 1 .. Len(Bytes), RecvFrame(n)
  PROVE  IInv'
<1> DEFINE k == 2 + n
           chunk == SubSeq(Bytes, 3, k)
<1>1. /\ transport = "prefix" /\ connected /\ at = "run" /\ Len(ring) < Room
      /\ 2 + n <= Len(Bytes) /\ n \in Asked(Bytes) \ {0} /\ Publish(2 + n, SubSeq(Bytes, 3, 2 + n))
  BY DEF RecvFrame, BodyAhead, Prefixed, PrefixSize
<1>2. Bytes \in Seq(Octet) /\ Len(Bytes) \in Nat /\ n \in Nat /\ n >= 1 BY BytesAre
<1>3. k \in 1 .. Len(Bytes) /\ k \in 0 .. Len(Bytes) /\ 3 \in 1 .. Len(Bytes) + 1 BY <1>1, <1>2
<1>4. Publish(k, chunk) BY <1>1
<1>5. IsPrefixed(Bytes) => k <= 2 + Length(Bytes)
  <2>1. SUFFICES ASSUME IsPrefixed(Bytes) PROVE k <= 2 + Length(Bytes) OBVIOUS
  <2>2. Length(Bytes) \in DOMAIN Digit BY <2>1 DEF IsPrefixed, Length
  <2>3. Length(Bytes) \in Nat
    <3>1. Digit \in Seq(STRING) BY DigitAssumption
    <3>2. DOMAIN Digit \subseteq Nat BY <3>1, LenProperties
    <3> QED BY <2>2, <3>2
  <2>4. n \in 0 .. Length(Bytes) BY <1>1, <2>1 DEF Asked
  <2> QED BY <1>2, <2>3, <2>4
<1> HIDE DEF k
<1>6. chunk \in Seq(Octet) BY <1>2, <1>3, SubSeqType
<1>7. chunk = SubSeq(Bytes, 3, k) OBVIOUS
<1> HIDE DEF chunk
<1> QED BY <1>1, <1>3, <1>4, <1>5, <1>6, <1>7, PublishStep

\* A body is received over the reservation.
LEMMA OverrunStep ==
  ASSUME IInv, conns # << >>, NEW n \in 1 .. Len(Bytes), Overrun(n)
  PROVE  IInv'
<1>1. transport = "prefix" /\ Terminate("overrun") BY DEF Overrun, BodyAhead, Prefixed
<1> QED BY <1>1, TerminateStep

\* A header is received, and nothing behind it.
LEMMA HeaderStep ==
  ASSUME IInv, conns # << >>, RecvHeader
  PROVE  IInv'
<1>1. /\ transport = "prefix" /\ connected /\ at = "run" /\ Len(ring) < Room
      /\ 2 <= Len(Bytes) /\ (Publish(2, << >>) \/ Terminate("abort"))
  BY DEF RecvHeader, Prefixed, PrefixSize
<1>2. 2 \in 1 .. Len(Bytes) BY <1>1, BytesAre
<1>3. ASSUME Publish(2, << >>) PROVE IInv'
  <2> DEFINE k == 2
             chunk == << >>
  <2>1. chunk \in Seq(Octet) /\ Publish(k, chunk) /\ ~(k > 2) /\ k \in 1 .. Len(Bytes)
    BY <1>2, <1>3
  <2> HIDE DEF k, chunk
  <2> QED BY <1>1, <2>1, PublishStep
<1>4. ASSUME Terminate("abort") PROVE IInv' BY <1>1, <1>4, TerminateStep
<1> QED BY <1>1, <1>3, <1>4

-----------------------------------------------------------------------------
(***************************************************************************)
(* The theorems.                                                           *)
(***************************************************************************)

\* Nothing has been sent.
LEMMA Initial == Init => IInv
<1> SUFFICES ASSUME Init PROVE IInv OBVIOUS
<1>1. Len(<< >>) = 0 /\ 1 .. 0 = {} /\ 2 .. 0 = {} OBVIOUS
<1> DEFINE l == Line("tty")
<1>2. /\ l \in Connection /\ l.client = "tty" /\ l.pipe = << >> /\ l.end = "open"
      /\ l.sent = << >> /\ l.torn = FALSE
  <2>1. << >> \in Seq(AnyPiece) /\ << >> \in Seq(Payloads) OBVIOUS
  <2>2. l \in Connection BY <2>1 DEF Line, Connection
  <2> QED BY <2>2 DEF Line
<1> HIDE DEF l
<1>3. /\ transport \in Transports /\ tx = [c \in Clients |-> << >>] /\ sock = [c \in Clients |-> "idle"]
      /\ conns = IF transport = "serial" THEN << l >> ELSE << >>
      /\ connected = (transport = "serial")
      /\ rx = << >> /\ at = "run" /\ ring = << >> /\ frames = 0 /\ faults = 0
      /\ got = << >> /\ clean = TRUE /\ divided = FALSE /\ blurred = FALSE /\ due = << >>
  BY DEF Init, Serial, l
<1>4. TypeInv
  <2>1. conns \in Seq(Connection)
    <3>1. << l >> \in Seq(Connection) /\ << >> \in Seq(Connection) BY <1>2
    <3> QED BY <1>3, <3>1
  <2>2. /\ << >> \in Seq(Octet) /\ << >> \in Seq(Seq(Octet)) /\ << >> \in Seq(Payloads) OBVIOUS
  <2>3. tx \in [Clients -> Seq(Payloads)] BY <1>3, <2>2
  <2>4. frames \in 0 .. MaxFrames /\ faults \in 0 .. MaxFaults BY <1>3, BoundsAssumption
  <2>5. Len(rx) <= RxSize /\ Len(ring) <= Room BY <1>1, <1>3, RxSizeAssumption, RoomAssumption
  <2> QED BY <1>3, <2>1, <2>2, <2>3, <2>4, <2>5 DEF TypeInv
<1>5. Control
  <2>1. << l >> # << >> OBVIOUS
  <2> QED BY <1>3, <2>1 DEF Control, Ended
<1>6. Lines
  <2>1. CASE transport = "serial"
    <3>1. Len(<< l >>) = 1 /\ << l >>[1] = l OBVIOUS
    <3>2. conns = << l >> /\ connected BY <1>3, <2>1
    <3>3. LineOK(transport, l) BY <1>1, <1>2, <2>1 DEF LineOK
    <3>4. \A i \in 1 .. 1 : i = 1 /\ ~(i > 1) OBVIOUS
    <3> QED BY <3>1, <3>2, <3>3, <3>4 DEF Lines
  <2>2. CASE transport # "serial"
    <3>1. conns = << >> BY <1>3, <2>2
    <3> QED BY <1>1, <3>1 DEF Lines
  <2> QED BY <2>1, <2>2
<1>7. connected => conns[1] = l BY <1>3
<1>8. ~Ragged(<< >>) BY DEF Ragged
<1>9. << >> \in Seq(Octet) /\ << >> \in Seq(Seq(Octet)) OBVIOUS
<1>10. Sync
  <2>1. << >> \o << >> = << >> BY <1>9, Alone
  <2>2. Half(<< >>) = << >> BY <1>8 DEF Half
  <2>3. Closed(<< >>) BY DEF Closed
  <2> QED BY <1>2, <1>3, <1>7, <2>1, <2>2, <2>3 DEF Sync, Synchronous
<1>11. Order
  <2>1. << >> \o Coming(<< >>) = << >> BY <1>9, Alone, ComingIs
  <2> QED BY <1>2, <1>3, <1>7, <1>8, <2>1 DEF Order, Ordered
<1>12. Due BY <1>3 DEF Due
<1> QED BY <1>4, <1>5, <1>6, <1>10, <1>11, <1>12 DEF IInv

\* Every step of the program keeps the invariant.
LEMMA Step == IInv /\ [Next]_vars => IInv'
<1> SUFFICES ASSUME IInv, [Next]_vars PROVE IInv' OBVIOUS
<1>1. ASSUME UNCHANGED vars PROVE IInv'
  <2>1. UNCHANGED Daemon /\ UNCHANGED conns BY <1>1 DEF vars, Daemon
  <2>2. TypeInv' BY <1>1 DEF IInv, TypeInv, vars
  <2> QED BY <2>1, <2>2, IdleNone DEF IInv
<1>2. ASSUME NEW c \in Clients, Quota(c) PROVE IInv'
  <2>0. PICK m \in 1 .. 2 : \E msgs \in [1 .. m -> Payloads] : Start(c, msgs) BY <1>2 DEF Quota
  <2>1. PICK msgs \in [1 .. m -> Payloads] : Start(c, msgs) BY <2>0
  <2>2. msgs \in Seq(Payloads) BY SeqOfFcn
  <2> QED BY <2>1, <2>2, StartStep
<1>3. ASSUME NEW c \in Clients, Client(c) PROVE IInv'
  BY <1>3, ConnectStep, SendStep, ClientStep, ExitStep DEF Client
<1>4. ASSUME Fault PROVE IInv'
  <2>1. ASSUME NEW i \in DOMAIN conns, Break(i) PROVE IInv' BY <2>1, BreakStep
  <2>2. ASSUME conns # << >>, NEW n \in 1 .. Len(Bytes), Drop(n) PROVE IInv' BY <2>2, DropStep
  <2>3. ASSUME NEW c \in Clients, tx[c] # << >>, NEW n \in 1 .. Len(Encode(tx[c][1])) - 1, SendCut(c, n)
        PROVE  IInv'
    BY <2>3, SendCutStep
  <2> QED BY <1>4, <2>1, <2>2, <2>3 DEF Fault
<1>5. ASSUME Stream PROVE IInv'
  <2>1. CASE Accept BY <2>1, AcceptStep
  <2>2. CASE RecvEnd
    <3>1. connected /\ at = "run" /\ transport # "serial" /\ Hangup BY <2>2 DEF RecvEnd, Serial
    <3> QED BY <3>1, HangupStep
  <2>3. CASE RecvFull
    <3>1. connected /\ at = "run" /\ transport # "serial" /\ Hangup BY <2>3 DEF RecvFull
    <3> QED BY <3>1, HangupStep
  <2>4. CASE Parse BY <2>4, ParseStep
  <2>5. ASSUME conns # << >>, NEW n \in 1 .. Len(Bytes),
               Recv(n) \/ RecvHeaderCut(n) \/ RecvFrame(n) \/ Overrun(n)
        PROVE  IInv'
    BY <2>5, RecvStep, HeaderCutStep, FrameStep, OverrunStep
  <2>6. ASSUME conns # << >>, RecvHeader PROVE IInv' BY <2>6, HeaderStep
  <2> QED BY <1>5, <2>1, <2>2, <2>3, <2>4, <2>5, <2>6 DEF Stream
<1>6. CASE Drain BY <1>6, DrainStep
<1>7. ASSUME Quiet PROVE IInv' BY <1>1, <1>7 DEF Quiet
<1> QED BY <1>1, <1>2, <1>3, <1>4, <1>5, <1>6, <1>7 DEF Next

\* The inductive invariant holds of every execution, for every number of clients, every
\* set of messages, and rx_buf and ring of every size.
THEOREM Invariance == Spec => []IInv
BY Initial, Step, PTL DEF Spec

\* The types are part of it.
LEMMA TypesFollow == IInv => TypeOK
<1> SUFFICES ASSUME IInv PROVE TypeOK OBVIOUS
<1>1. conns \in Seq(Connection) /\ DOMAIN conns = 1 .. Len(conns) BY LenProperties DEF IInv, TypeInv
<1>2. ASSUME NEW i \in DOMAIN conns
      PROVE  /\ conns[i].client \in Clients \cup {"tty"}
             /\ conns[i].end \in {"open", "closed", "lost"}
             /\ conns[i].sent \in Seq(Payloads)
  <2>1. conns[i] \in Connection BY <1>1, ElementOfSeq
  <2> QED BY <2>1 DEF Connection
<1> QED BY <1>2 DEF TypeOK, IInv, TypeInv, Control

\* rx_off never gets beyond rx_buf (stream.h 1028-1029, 1088-1096), the ring is never
\* given more than write_req has room for, and a connected stream has a connection.
THEOREM TypeCorrect == Spec => []TypeOK
BY Invariance, TypesFollow, PTL

\* So is that nothing is due between two receives,
LEMMA UndividedFollows == IInv => UndividedFramesArrive
BY DEF IInv, Control, UndividedFramesArrive

\* Every SLIP frame that one recv brings whole is dispatched by the loop behind it
\* (stream.h 1051-1086, 1255-1290), unless the ring is full, whatever was cut, lost or
\* refused before: the decoder finds it again behind the next frame.
THEOREM UndividedArrive == Spec => []UndividedFramesArrive
BY Invariance, UndividedFollows, PTL

\* and that what has come and what is on its way are what was sent.
LEMMA OrderFollows == IInv => WholeFramesInOrder
<1> DEFINE l == conns[1]
           coming == [i \in DOMAIN l.pipe |-> l.pipe[i].payload]
<1> SUFFICES ASSUME IInv, connected, at = "run", clean, ~divided, ~l.torn, l.end # "lost"
             PROVE  /\ got \o coming = l.sent
                    /\ transport = "prefix" /\ PrefixSize <= Len(Bytes) =>
                         Asked(Bytes) = 0 .. Len(coming[1])
  BY DEF WholeFramesInOrder
<1>1. Ordered(l, at, rx, got) BY DEF IInv, Order
<1>2. ~Ragged(l.pipe) /\ got \o Coming(l.pipe) = l.sent BY <1>1 DEF Ordered
<1>3. ASSUME transport = "prefix", 2 <= Len(Bytes)
      PROVE  Asked(Bytes) = 0 .. Len(coming[1])
  <2>1. conns \in Seq(Connection) /\ conns # << >> BY DEF IInv, TypeInv, Control
  <2>2. 1 \in 1 .. Len(conns) BY <2>1, EmptySeq
  <2>3. l \in Connection /\ LineOK("prefix", l) BY <1>3, <2>1, <2>2, ElementOfSeq DEF IInv, Lines
  <2>4. Bytes = Joined(l.pipe) /\ "prefix" \in Transports BY <1>3 DEF Bytes, IInv, TypeInv
  <2>5. Len(Bytes) \in Nat BY <2>1, BytesAre
  <2>6. l.pipe \in Seq(AnyPiece) BY <2>3 DEF Connection
  <2>7. l.pipe # << >>
    <3>1. l.pipe = << >> => Bytes = << >> BY <2>4, JoinedIs
    <3>2. Len(<< >>) = 0 OBVIOUS
    <3> QED BY <1>3, <3>1, <3>2
  <2>8. 1 \in 1 .. Len(l.pipe) /\ DOMAIN l.pipe = 1 .. Len(l.pipe)
    BY <2>6, <2>7, EmptySeq, LenProperties
  <2>9. coming[1] = l.pipe[1].payload BY <2>8
  <2> HIDE DEF l, coming
  <2>10. Len(Bytes) >= 2 BY <1>3, <2>5
  <2>11. IsPrefixed(Bytes) /\ Length(Bytes) = Len(l.pipe[1].payload)
    BY <1>2, <2>3, <2>4, <2>10, PrefixAhead
  <2> QED BY <2>9, <2>11 DEF Asked
<1>4. got \o coming = l.sent BY <1>2 DEF Coming
<1> QED BY <1>3, <1>4 DEF PrefixSize

\* As long as every recv ends where a frame does and the daemon runs, what it
\* dispatches and what is on its way are together what was sent, by SLIP (stream.h
\* 1026-1099), with a length in front (1101-1139) and on a serial line (1232-1303): no
\* message is lost, doubled or reordered, and the recv behind a header asks for the
\* next message and no more.  The code does not compare that with what it has reserved
\* ("FIXME check prefix <= max_len", 1113): a message longer than ReqBuf may run over
\* the reservation, which ends the behaviours the theorem is about (Overrun).
THEOREM OrderKept == Spec => []WholeFramesInOrder
BY Invariance, OrderFollows, PTL
=============================================================================
