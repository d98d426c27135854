--------------------------- MODULE MonobusProofs ----------------------------
(***************************************************************************)
(* The rotation of the bitmap, and the messages of the MONOBUS protocol,   *)
(* for displays of every size and whatever is drawn.                       *)
(***************************************************************************)
EXTENDS Monobus, SequenceTheorems, WellFoundedInduction, TLAPS

(***************************************************************************)
(* Sequences: induction, and what FlattenSeq and SubSeq make of them.      *)
(***************************************************************************)
\* Induction over a set, from its element that is least among the missing ones.
LEMMA SetInduction ==
  ASSUME NEW T, 0 \in T, \A n \in Nat : n \in T => n + 1 \in T
  PROVE  \A n \in Nat : n \in T
<1> DEFINE Less == OpToRel(<, Nat)
           Missing == Nat \ T
<1>1. SUFFICES ASSUME Missing # {} PROVE FALSE
  OBVIOUS
<1>2. \E x \in Missing : \A y \in Missing : << y, x >> \notin Less
  <2> HIDE DEF Less, Missing
  <2>1. IsWellFoundedOn(Less, Nat) BY NatLessThanWellFounded DEF Less
  <2>2. Missing \subseteq Nat BY DEF Missing
  <2> QED BY <1>1, <2>1, <2>2, WFMin
<1>3. PICK x \in Missing : \A y \in Missing : << y, x >> \notin Less
  BY <1>2
<1>4. x \in Nat /\ x # 0 /\ x - 1 \in Nat /\ x = (x - 1) + 1
  OBVIOUS
<1>5. x - 1 \in Missing
  BY <1>4
<1>6. << x - 1, x >> \in Less
  BY <1>4 DEF OpToRel
<1> QED BY <1>3, <1>5, <1>6

\* Induction over the sequences of a set, from left to right.
LEMMA SequenceInduction ==
  ASSUME NEW S, NEW T,
         << >> \in T,
         \A s \in Seq(S), e \in S : s \in T => Append(s, e) \in T
  PROVE  Seq(S) \subseteq T
<1> DEFINE N == { n \in Nat : \A s \in Seq(S) : Len(s) = n => s \in T }
<1>1. 0 \in N
  BY EmptySeq
<1>2. ASSUME NEW n \in Nat, n \in N PROVE n + 1 \in N
  <2> SUFFICES ASSUME NEW s \in Seq(S), Len(s) = n + 1 PROVE s \in T
    OBVIOUS
  <2>1. s # << >>
    OBVIOUS
  <2>2. PICK t \in Seq(S), e \in S : s = Append(t, e)
    BY <2>1, SequenceEmptyOrAppend
  <2>3. Len(t) = n
    BY <2>2, AppendProperties, LenProperties
  <2> QED BY <1>2, <2>2, <2>3
<1>3. \A n \in Nat : n \in N
  <2> HIDE DEF N
  <2> QED BY <1>1, <1>2, SetInduction
<1> QED BY <1>3, LenProperties

\* FlattenSeq is defined with a recursive function, and there is one.
LEMMA FlattenDef ==
  ASSUME NEW S, NEW seqs \in Seq(Seq(S)), Len(seqs) # 0,
         NEW flatten, flatten = CHOOSE g : g = [i \in 1 .. Len(seqs) |->
            IF i = 1 THEN seqs[i] ELSE g[i - 1] \o seqs[i]]
  PROVE  flatten = [i \in 1 .. Len(seqs) |->
            IF i = 1 THEN seqs[i] ELSE flatten[i - 1] \o seqs[i]]
<1> DEFINE F(g, n) == [i \in 1 .. n |->
                        IF i = 1 THEN seqs[i] ELSE g[i - 1] \o seqs[i]]
           N == { n \in Nat : \E g : g = F(g, n) }
<1>1. 0 \in N
  <2> DEFINE g == [i \in 1 .. 0 |-> i]
  <2>1. g = F(g, 0) OBVIOUS
  <2> QED BY <2>1
<1>2. ASSUME NEW n \in Nat, n \in N PROVE n + 1 \in N
  <2>1. PICK g : g = F(g, n) BY <1>2
  <2> DEFINE h == [i \in 1 .. n + 1 |->
                    IF i = 1 THEN seqs[i] ELSE g[i - 1] \o seqs[i]]
  <2>2. ASSUME NEW i \in 1 .. n PROVE h[i] = g[i]
    <3>1. g[i] = IF i = 1 THEN seqs[i] ELSE g[i - 1] \o seqs[i]
      BY <2>1
    <3>2. h[i] = IF i = 1 THEN seqs[i] ELSE g[i - 1] \o seqs[i]
      OBVIOUS
    <3> QED BY <3>1, <3>2
  <2>3. ASSUME NEW i \in 1 .. n + 1, i # 1 PROVE h[i - 1] = g[i - 1]
    <3>1. i - 1 \in 1 .. n BY <2>3
    <3> QED BY <3>1, <2>2
  <2>4. h = F(h, n + 1)
    <3>1. \A i \in 1 .. n + 1 : h[i] = F(h, n + 1)[i]
      <4> HIDE DEF h
      <4>1. ASSUME NEW i \in 1 .. n + 1
            PROVE  F(h, n + 1)[i] = IF i = 1 THEN seqs[i] ELSE g[i - 1] \o seqs[i]
        BY <2>3
      <4> QED BY <4>1 DEF h
    <3> HIDE DEF F
    <3>2. DOMAIN h = 1 .. n + 1 /\ h = [i \in DOMAIN h |-> h[i]] OBVIOUS
    <3>3. DOMAIN F(h, n + 1) = 1 .. n + 1 /\
          F(h, n + 1) = [i \in 1 .. n + 1 |-> F(h, n + 1)[i]] BY DEF F
    <3> HIDE DEF h
    <3> QED BY <3>1, <3>2, <3>3
  <2>5. \E k : k = F(k, n + 1)
    <3> HIDE DEF F, h
    <3> QED BY <2>4
  <2> QED
    <3> HIDE DEF F, h
    <3> QED BY <2>5
<1>3. Len(seqs) \in N
  <2> HIDE DEF N
  <2> QED BY <1>1, <1>2, SetInduction, LenProperties
<1>4. \E g : g = F(g, Len(seqs)) BY <1>3
<1> QED BY <1>4

\* Nothing to join is nothing.
LEMMA FlattenEmpty == FlattenSeq(<< >>) = << >>
BY DEF FlattenSeq

\* The function FlattenSeq is defined with.
LEMMA FlattenFcn ==
  ASSUME NEW S, NEW seqs \in Seq(Seq(S)), Len(seqs) # 0
  PROVE  \E f : /\ FlattenSeq(seqs) = f[Len(seqs)]
               /\ f[1] = seqs[1]
               /\ \A i \in 2 .. Len(seqs) : f[i] = f[i - 1] \o seqs[i]
<1> DEFINE flatten == CHOOSE g : g = [i \in 1 .. Len(seqs) |->
                        IF i = 1 THEN seqs[i] ELSE g[i - 1] \o seqs[i]]
<1>1. FlattenSeq(seqs) = flatten[Len(seqs)]
  BY DEF FlattenSeq
<1> HIDE DEF flatten
<1>2. flatten = [i \in 1 .. Len(seqs) |->
                  IF i = 1 THEN seqs[i] ELSE flatten[i - 1] \o seqs[i]]
  BY FlattenDef, ZenonT(60) DEF flatten
<1>3. Len(seqs) \in Nat BY LenProperties
<1>4. flatten[1] = seqs[1]
  <2>1. 1 \in 1 .. Len(seqs) BY <1>3
  <2>2. flatten[1] = IF 1 = 1 THEN seqs[1] ELSE flatten[1 - 1] \o seqs[1]
    BY <1>2, <2>1
  <2> QED BY <2>2
<1>5. ASSUME NEW i \in 2 .. Len(seqs) PROVE flatten[i] = flatten[i - 1] \o seqs[i]
  <2>1. i \in 1 .. Len(seqs) /\ i # 1 BY <1>3
  <2>2. flatten[i] = IF i = 1 THEN seqs[i] ELSE flatten[i - 1] \o seqs[i]
    BY <1>2, <2>1
  <2> QED BY <2>1, <2>2
<1> QED BY <1>1, <1>4, <1>5

\* Joined sequences have the elements of their parts.
LEMMA FlattenType ==
  ASSUME NEW S, NEW seqs \in Seq(Seq(S))
  PROVE  FlattenSeq(seqs) \in Seq(S)
<1>1. CASE Len(seqs) = 0
  <2>1. seqs = << >> BY <1>1
  <2>2. << >> \in Seq(S) OBVIOUS
  <2> QED BY <2>1, <2>2, FlattenEmpty
<1>2. CASE Len(seqs) # 0
  <2>1. PICK f : /\ FlattenSeq(seqs) = f[Len(seqs)]
                 /\ f[1] = seqs[1]
                 /\ \A i \in 2 .. Len(seqs) : f[i] = f[i - 1] \o seqs[i]
    BY <1>2, FlattenFcn
  <2> DEFINE N == { n \in Nat : n \in 1 .. Len(seqs) => f[n] \in Seq(S) }
  <2>2. 0 \in N OBVIOUS
  <2>3. ASSUME NEW n \in Nat, n \in N PROVE n + 1 \in N
    <3>1. ASSUME n + 1 \in 1 .. Len(seqs) PROVE f[n + 1] \in Seq(S)
      <4>1. seqs[n + 1] \in Seq(S) BY <3>1
      <4>2. CASE n = 0 BY <2>1, <4>1, <4>2
      <4>3. CASE n # 0
        <5>1. n + 1 \in 2 .. Len(seqs) /\ n \in 1 .. Len(seqs) BY <3>1, <4>3
        <5>2. f[n + 1] = f[n] \o seqs[n + 1]
          <6>1. f[n + 1] = f[(n + 1) - 1] \o seqs[n + 1] BY <2>1, <5>1
          <6>2. (n + 1) - 1 = n OBVIOUS
          <6> QED BY <6>1, <6>2
        <5>3. f[n] \in Seq(S) BY <2>3, <5>1
        <5> QED BY <4>1, <5>2, <5>3
      <4> QED BY <4>2, <4>3
    <3> QED BY <3>1
  <2>4. Len(seqs) \in N
    <3> HIDE DEF N
    <3> QED BY <2>2, <2>3, SetInduction, LenProperties
  <2>5. Len(seqs) \in 1 .. Len(seqs) BY <1>2, LenProperties
  <2> QED BY <2>1, <2>4, <2>5
<1> QED BY <1>1, <1>2

\* Two functions that agree.
LEMMA FlattenAppend ==
  ASSUME NEW S, NEW seqs \in Seq(Seq(S)), NEW e \in Seq(S)
  PROVE  FlattenSeq(Append(seqs, e)) = FlattenSeq(seqs) \o e
<1> DEFINE all == Append(seqs, e)
           L == Len(seqs)
<1>1. /\ all \in Seq(Seq(S)) /\ L \in Nat /\ Len(all) = L + 1
      /\ all[L + 1] = e /\ \A i \in 1 .. L : all[i] = seqs[i]
  BY AppendProperties, LenProperties
<1> HIDE DEF all, L
<1>2. PICK f : /\ FlattenSeq(all) = f[L + 1]
               /\ f[1] = all[1]
               /\ \A i \in 2 .. L + 1 : f[i] = f[i - 1] \o all[i]
  <2>1. Len(all) # 0 BY <1>1
  <2>2. \E f : /\ FlattenSeq(all) = f[Len(all)]
              /\ f[1] = all[1]
              /\ \A i \in 2 .. Len(all) : f[i] = f[i - 1] \o all[i]
    BY <1>1, <2>1, FlattenFcn
  <2> QED BY <1>1, <2>2
<1>3. CASE L = 0
  <2>1. seqs = << >> BY <1>3 DEF L
  <2>2. FlattenSeq(seqs) = << >> BY <2>1, FlattenEmpty
  <2>3. f[L + 1] = e BY <1>1, <1>2, <1>3
  <2> QED BY <2>2, <2>3, <1>2 DEF all
<1>4. CASE L # 0
  <2>1. PICK g : /\ FlattenSeq(seqs) = g[L]
                 /\ g[1] = seqs[1]
                 /\ \A i \in 2 .. L : g[i] = g[i - 1] \o seqs[i]
    BY <1>4, FlattenFcn DEF L
  <2> DEFINE N == { n \in Nat : n \in 1 .. L => f[n] = g[n] }
  <2>2. 0 \in N OBVIOUS
  <2>3. ASSUME NEW n \in Nat, n \in N PROVE n + 1 \in N
    <3>1. ASSUME n + 1 \in 1 .. L PROVE f[n + 1] = g[n + 1]
      <4>1. seqs[n + 1] = all[n + 1] BY <1>1, <3>1
      <4>2. CASE n = 0 BY <1>1, <1>2, <1>4, <2>1, <4>1, <4>2
      <4>3. CASE n # 0
        <5>1. n + 1 \in 2 .. L /\ n + 1 \in 2 .. L + 1 /\ n \in 1 .. L
          BY <1>1, <3>1, <4>3
        <5>2. f[n + 1] = f[n] \o all[n + 1] /\ g[n + 1] = g[n] \o seqs[n + 1]
          <6>1. f[n + 1] = f[(n + 1) - 1] \o all[n + 1] BY <1>2, <5>1
          <6>2. g[n + 1] = g[(n + 1) - 1] \o seqs[n + 1] BY <2>1, <5>1
          <6>3. (n + 1) - 1 = n OBVIOUS
          <6> QED BY <6>1, <6>2, <6>3
        <5> QED BY <2>3, <4>1, <5>1, <5>2
      <4> QED BY <4>2, <4>3
    <3> QED BY <3>1
  <2>4. L \in N
    <3> HIDE DEF N
    <3> QED BY <1>1, <2>2, <2>3, SetInduction
  <2>5. f[L] = g[L] BY <1>1, <1>4, <2>4
  <2>6. f[L + 1] = f[L] \o all[L + 1]
    <3>1. L + 1 \in 2 .. L + 1 BY <1>1, <1>4
    <3>2. f[L + 1] = f[(L + 1) - 1] \o all[L + 1] BY <1>2, <3>1
    <3>3. (L + 1) - 1 = L BY <1>1
    <3> QED BY <3>2, <3>3
  <2> QED BY <1>1, <1>2, <2>1, <2>5, <2>6 DEF all
<1> QED BY <1>3, <1>4

\* How three sequences are joined does not matter.
LEMMA JoinAssociative ==
  \A S : \A x, y, z \in Seq(S) : (x \o y) \o z = x \o (y \o z)
BY ConcatAssociative

\* Joining can be done in two parts.
LEMMA FlattenConcat ==
  ASSUME NEW S, NEW s \in Seq(Seq(S)), NEW t \in Seq(Seq(S))
  PROVE  FlattenSeq(s \o t) = FlattenSeq(s) \o FlattenSeq(t)
<1> DEFINE T == { u \in Seq(Seq(S)) :
                    FlattenSeq(s \o u) = FlattenSeq(s) \o FlattenSeq(u) }
<1>1. << >> \in T
  <2>1. s \o << >> = s BY ConcatEmptySeq
  <2>2. FlattenSeq(s) \o << >> = FlattenSeq(s) BY FlattenType, ConcatEmptySeq
  <2>3. << >> \in Seq(Seq(S)) OBVIOUS
  <2> QED BY <2>1, <2>2, <2>3, FlattenEmpty
<1>2. ASSUME NEW u \in Seq(Seq(S)), NEW e \in Seq(S), u \in T PROVE Append(u, e) \in T
  <2>1. s \o Append(u, e) = Append(s \o u, e) OBVIOUS
  <2>2. FlattenSeq(Append(s \o u, e)) = FlattenSeq(s \o u) \o e
    <3>1. s \o u \in Seq(Seq(S)) OBVIOUS
    <3> QED BY <3>1, FlattenAppend
  <2>3. FlattenSeq(Append(u, e)) = FlattenSeq(u) \o e BY FlattenAppend
  <2>4. FlattenSeq(s) \in Seq(S) /\ FlattenSeq(u) \in Seq(S) BY FlattenType
  <2>6. Append(u, e) \in Seq(Seq(S)) OBVIOUS
  <2> DEFINE x == FlattenSeq(s)
             y == FlattenSeq(u)
  <2>7. x \in Seq(S) /\ y \in Seq(S) BY <2>4
  <2> HIDE DEF x, y
  <2>5. (x \o y) \o e = x \o (y \o e) BY <2>7, JoinAssociative, SMTT(30)
  <2> QED BY <1>2, <2>1, <2>2, <2>3, <2>5, <2>6 DEF x, y
<1>3. Seq(Seq(S)) \subseteq T
  <2> HIDE DEF T
  <2> QED BY <1>1, <1>2, SequenceInduction
<1> QED BY <1>3

\* A single sequence is joined already.
LEMMA FlattenOne ==
  ASSUME NEW S, NEW e \in Seq(S) PROVE FlattenSeq(<< e >>) = e
<1>1. << >> \in Seq(Seq(S)) /\ Append(<< >>, e) = << e >> /\ << >> \o e = e
  BY ConcatEmptySeq
<1> QED BY <1>1, FlattenAppend, FlattenEmpty

\* A part of a sequence: its elements, and how many there are.
LEMMA SubSeqType ==
  ASSUME NEW S, NEW s \in Seq(S), NEW m \in 1 .. Len(s) + 1, NEW n \in 0 .. Len(s)
  PROVE  /\ SubSeq(s, m, n) \in Seq(S)
         /\ Len(SubSeq(s, m, n)) = IF m <= n THEN n - m + 1 ELSE 0
         /\ \A i \in 1 .. n - m + 1 : SubSeq(s, m, n)[i] = s[m + i - 1]
<1>1. Len(s) \in Nat BY LenProperties
<1>2. m \in Int /\ n \in Int BY <1>1
<1>3. \A i \in m .. n : s[i] \in S
  <2>1. ASSUME NEW i \in m .. n PROVE i \in 1 .. Len(s) BY <1>1
  <2> QED BY <2>1, ElementOfSeq
<1> QED BY <1>2, <1>3, SubSeqProperties

\* A part from the start.
LEMMA Prefix ==
  ASSUME NEW S, NEW s \in Seq(S), NEW n \in 0 .. Len(s)
  PROVE  /\ SubSeq(s, 1, n) \in Seq(S) /\ Len(SubSeq(s, 1, n)) = n
         /\ \A i \in 1 .. n : SubSeq(s, 1, n)[i] = s[i]
<1>1. Len(s) \in Nat BY LenProperties
<1>2. 1 \in 1 .. Len(s) + 1 BY <1>1
<1>3. n - 1 + 1 = n /\ \A i \in 1 .. n : 1 + i - 1 = i BY <1>1
<1>4. 1 <= n \/ n = 0 BY <1>1
<1> QED BY <1>2, <1>3, <1>4, SubSeqType

\* The front of a front is a front.
LEMMA PrefixOfPrefix ==
  ASSUME NEW S, NEW s \in Seq(S), NEW n \in 0 .. Len(s), NEW k \in 0 .. n
  PROVE  SubSeq(SubSeq(s, 1, n), 1, k) = SubSeq(s, 1, k)
<1> DEFINE a == SubSeq(s, 1, n)
           b == SubSeq(a, 1, k)
           c == SubSeq(s, 1, k)
<1>1. Len(s) \in Nat /\ k \in 0 .. Len(s) BY LenProperties
<1>2. a \in Seq(S) /\ Len(a) = n /\ \A i \in 1 .. n : a[i] = s[i] BY Prefix
<1>3. c \in Seq(S) /\ Len(c) = k /\ \A i \in 1 .. k : c[i] = s[i]
  BY <1>1, Prefix
<1> HIDE DEF a
<1>4. b \in Seq(S) /\ Len(b) = k /\ \A i \in 1 .. k : b[i] = a[i]
  BY <1>2, Prefix
<1>5. \A i \in 1 .. k : i \in 1 .. n BY <1>1
<1> HIDE DEF b, c
<1>6. b = c BY <1>2, <1>3, <1>4, <1>5, SeqEqual
<1> QED BY <1>6 DEF a, b, c

\* The front of a concatenation within its first part.
LEMMA PrefixOfConcat ==
  ASSUME NEW S, NEW s \in Seq(S), NEW t \in Seq(S), NEW n \in 0 .. Len(s)
  PROVE  SubSeq(s \o t, 1, n) = SubSeq(s, 1, n)
<1> DEFINE st == s \o t
           b == SubSeq(st, 1, n)
           c == SubSeq(s, 1, n)
<1>1. Len(s) \in Nat /\ Len(t) \in Nat BY LenProperties
<1>2. /\ st \in Seq(S) /\ Len(st) = Len(s) + Len(t)
      /\ \A i \in 1 .. Len(s) + Len(t) : i <= Len(s) => st[i] = s[i]
  BY ConcatProperties
<1>3. c \in Seq(S) /\ Len(c) = n /\ \A i \in 1 .. n : c[i] = s[i] BY Prefix
<1> HIDE DEF st
<1>4. n \in 0 .. Len(st) BY <1>1, <1>2
<1>5. b \in Seq(S) /\ Len(b) = n /\ \A i \in 1 .. n : b[i] = st[i]
  BY <1>2, <1>4, Prefix
<1>6. \A i \in 1 .. n : i \in 1 .. Len(s) + Len(t) /\ i <= Len(s) BY <1>1
<1> HIDE DEF b, c
<1>7. b = c BY <1>2, <1>3, <1>5, <1>6, SeqEqual
<1> QED BY <1>7 DEF st, b, c

\* Both parts of a concatenation can be had back.
LEMMA ConcatParts ==
  ASSUME NEW S, NEW s \in Seq(S), NEW t \in Seq(S)
  PROVE  /\ SubSeq(s \o t, 1, Len(s)) = s
         /\ SubSeq(s \o t, Len(s) + 1, Len(s) + Len(t)) = t
<1>1. Len(s) \in Nat /\ Len(t) \in Nat BY LenProperties
<1>2. SubSeq(s \o t, 1, Len(s)) = s
  <2>1. Len(s) \in 0 .. Len(s) BY <1>1
  <2> QED BY <2>1, PrefixOfConcat, SubSeqFull
<1>3. SubSeq(s \o t, Len(s) + 1, Len(s) + Len(t)) = t
  <2> DEFINE st == s \o t
             m == Len(s)
             n == Len(t)
             b == SubSeq(st, m + 1, m + n)
  <2>1. /\ st \in Seq(S) /\ Len(st) = m + n
        /\ \A i \in 1 .. m + n : ~(i <= m) => st[i] = t[i - m]
    BY ConcatProperties
  <2>2. m \in Nat /\ n \in Nat /\ n = Len(t) BY <1>1
  <2> HIDE DEF st, m, n
  <2>3. m + 1 \in 1 .. Len(st) + 1 /\ m + n \in 0 .. Len(st) BY <2>1, <2>2
  <2>4. b \in Seq(S) /\ Len(b) = n /\ \A i \in 1 .. n : b[i] = st[m + i]
    <3> DEFINE x == m + 1
               y == m + n
    <3>1. x \in 1 .. Len(st) + 1 /\ y \in 0 .. Len(st) BY <2>3
    <3>2. SubSeq(st, x, y) = b OBVIOUS
    <3>3. y - x + 1 = n /\ (x <= y \/ n = 0) /\ \A i \in 1 .. n : x + i - 1 = m + i
      BY <2>2
    <3> HIDE DEF x, y, b
    <3>4. /\ b \in Seq(S) /\ Len(b) = IF x <= y THEN y - x + 1 ELSE 0
          /\ \A i \in 1 .. y - x + 1 : b[i] = st[x + i - 1]
      BY <2>1, <3>1, <3>2, SubSeqType
    <3> QED BY <3>3, <3>4
  <2>5. ASSUME NEW i \in 1 .. n PROVE b[i] = t[i]
    <3>1. m + i \in 1 .. m + n /\ ~(m + i <= m) /\ (m + i) - m = i BY <2>2
    <3> HIDE DEF b
    <3> QED BY <3>1, <2>1, <2>4
  <2> HIDE DEF b
  <2>6. b = t BY <2>2, <2>4, <2>5, SeqEqual
  <2> QED BY <2>6 DEF b, st, m, n
<1> QED BY <1>2, <1>3

\* An element in front is the head.
LEMMA ConsProperties ==
  ASSUME NEW S, NEW e \in S, NEW s \in Seq(S)
  PROVE  (<< e >> \o s)[1] = e /\ Tail(<< e >> \o s) = s /\ Len(<< e >> \o s) = Len(s) + 1
<1> DEFINE es == << e >> \o s
<1>1. /\ es \in Seq(S) /\ Len(es) = 1 + Len(s) /\ Len(s) \in Nat
      /\ \A i \in 1 .. 1 + Len(s) : es[i] = IF i <= 1 THEN << e >>[i] ELSE s[i - 1]
  BY ConcatProperties, LenProperties
<1> HIDE DEF es
<1>2. es[1] = e
  <2>1. 1 \in 1 .. 1 + Len(s) BY <1>1
  <2> QED BY <1>1, <2>1
<1>3. Tail(es) = s
  <2>1. es # << >> BY <1>1
  <2>2. /\ Tail(es) \in Seq(S) /\ Len(Tail(es)) = Len(s)
        /\ \A i \in 1 .. Len(s) : Tail(es)[i] = es[i + 1]
    BY <1>1, <2>1, HeadTailProperties
  <2>3. ASSUME NEW i \in 1 .. Len(s) PROVE Tail(es)[i] = s[i]
    <3>1. i + 1 \in 1 .. 1 + Len(s) /\ ~(i + 1 <= 1) /\ (i + 1) - 1 = i BY <1>1
    <3> QED BY <3>1, <1>1, <2>2
  <2> QED BY <2>2, <2>3, SeqEqual
<1> QED BY <1>1, <1>2, <1>3 DEF es

\* The front of a sequence with an element in front.
LEMMA ConsPrefix ==
  ASSUME NEW S, NEW e \in S, NEW s \in Seq(S), NEW n \in 0 .. Len(s)
  PROVE  SubSeq(<< e >> \o s, 1, n + 1) = << e >> \o SubSeq(s, 1, n)
<1> DEFINE es == << e >> \o s
           a == SubSeq(es, 1, n + 1)
           b == << e >> \o SubSeq(s, 1, n)
<1>1. /\ es \in Seq(S) /\ Len(es) = 1 + Len(s) /\ Len(s) \in Nat
      /\ \A i \in 1 .. 1 + Len(s) : es[i] = IF i <= 1 THEN << e >>[i] ELSE s[i - 1]
  BY ConcatProperties, LenProperties
<1>2. /\ SubSeq(s, 1, n) \in Seq(S) /\ Len(SubSeq(s, 1, n)) = n
      /\ \A i \in 1 .. n : SubSeq(s, 1, n)[i] = s[i]
  BY Prefix
<1>3. << e >> \in Seq(S) /\ Len(<< e >>) = 1 OBVIOUS
<1>4. /\ b \in Seq(S) /\ Len(b) = 1 + n
      /\ \A i \in 1 .. 1 + n : b[i] = IF i <= 1 THEN << e >>[i] ELSE SubSeq(s, 1, n)[i - 1]
  <2> DEFINE t == SubSeq(s, 1, n)
  <2> HIDE DEF t
  <2>1. t \in Seq(S) /\ Len(t) = n BY <1>2 DEF t
  <2>2. /\ << e >> \o t \in Seq(S) /\ Len(<< e >> \o t) = 1 + n
        /\ \A i \in 1 .. 1 + n : (<< e >> \o t)[i] = IF i <= 1 THEN << e >>[i] ELSE t[i - 1]
    BY <1>3, <2>1, ConcatProperties
  <2> QED BY <2>2 DEF t
<1> HIDE DEF es, b
<1>5. n + 1 \in 0 .. Len(es) BY <1>1
<1>6. a \in Seq(S) /\ Len(a) = n + 1 /\ \A i \in 1 .. n + 1 : a[i] = es[i]
  BY <1>1, <1>5, Prefix
<1> HIDE DEF a
<1>7. ASSUME NEW i \in 1 .. n + 1 PROVE a[i] = b[i]
  <2>1. i \in 1 .. 1 + n /\ i \in 1 .. 1 + Len(s) /\ (~(i <= 1) => i - 1 \in 1 .. n)
    BY <1>1
  <2> QED BY <2>1, <1>1, <1>2, <1>4, <1>6
<1>8. Len(a) = Len(b) BY <1>1, <1>4, <1>6
<1>9. a = b BY <1>4, <1>6, <1>7, <1>8, SeqEqual
<1> QED BY <1>9 DEF a, b, es

\* Two elements in front can be dropped.
LEMMA PairInFront ==
  ASSUME NEW S, NEW x \in S, NEW y \in S, NEW s \in Seq(S)
  PROVE  /\ << x, y >> \o s \in Seq(S) /\ Len(<< x, y >> \o s) = 2 + Len(s)
         /\ SubSeq(<< x, y >> \o s, 3, Len(<< x, y >> \o s)) = s
<1>1. << x, y >> \in Seq(S) /\ Len(<< x, y >>) = 2 OBVIOUS
<1> DEFINE xy == << x, y >>
<1> HIDE DEF xy
<1>2. xy \in Seq(S) /\ Len(xy) = 2 BY <1>1 DEF xy
<1>3. xy \o s \in Seq(S) /\ Len(xy \o s) = 2 + Len(s)
  <2>1. xy \o s \in Seq(S) /\ Len(xy \o s) = Len(xy) + Len(s)
    BY <1>2, ConcatProperties
  <2> QED BY <1>2, <2>1
<1>4. SubSeq(xy \o s, Len(xy) + 1, Len(xy) + Len(s)) = s BY <1>2, ConcatParts
<1>5. Len(xy) + 1 = 3 BY <1>2
<1> QED BY <1>2, <1>3, <1>4, <1>5 DEF xy

-----------------------------------------------------------------------------
(***************************************************************************)
(* Rows and columns of the bitmap.                                         *)
(***************************************************************************)

\* A byte's place within rows of equal length has one row and one column.
LEMMA RowUnique ==
  ASSUME NEW s \in Nat, NEW y \in Nat, NEW z \in Nat,
         NEW c \in 0 .. s - 1, NEW d \in 0 .. s - 1,
         y * s + c = z * s + d
  PROVE  y = z /\ c = d
<1>1. ASSUME y < z PROVE FALSE
  <2>1. PICK k \in Nat : z = y + 1 + k
    <3>1. z - y - 1 \in Nat /\ z = y + 1 + (z - y - 1)  BY <1>1
    <3>. QED  BY <3>1
  <2>2. z * s = y * s + s + k * s  BY <2>1
  <2>3. k * s >= 0  BY <2>1
  <2>4. y * s \in Nat /\ k * s \in Nat  BY <2>1
  <2>. QED  BY <2>2, <2>3, <2>4
<1>2. ASSUME z < y PROVE FALSE
  <2>1. PICK k \in Nat : y = z + 1 + k
    <3>1. y - z - 1 \in Nat /\ y = z + 1 + (y - z - 1)  BY <1>2
    <3>. QED  BY <3>1
  <2>2. y * s = z * s + s + k * s  BY <2>1
  <2>3. k * s >= 0  BY <2>1
  <2>4. z * s \in Nat /\ k * s \in Nat  BY <2>1
  <2>. QED  BY <2>2, <2>3, <2>4
<1>. QED  BY <1>1, <1>2

LEMMA Sizes ==
  /\ StrideSer \in Nat /\ StrideSer > 0 /\ HeightSer \in Nat
  /\ WidthSer \in Nat /\ WidthSer = 8 * StrideSer
  /\ LengthSer \in Nat /\ LengthSer = StrideSer * HeightSer
BY SizeAssumption DEF WidthSer, LengthSer

\* A column of bytes is one of the row's, and its bits are those of a byte.
LEMMA Column ==
  ASSUME NEW x \in 0 .. WidthSer - 1
  PROVE  /\ x \div 8 \in 0 .. StrideSer - 1 /\ x % 8 \in Bit
         /\ x = 8 * (x \div 8) + (x % 8)
         /\ StrideSer - (x \div 8) - 1 \in 0 .. StrideSer - 1
BY Sizes DEF Bit

\* A row's byte lies within the bitmap.
LEMMA RowWithin ==
  ASSUME NEW y \in 0 .. HeightSer - 1, NEW c \in 0 .. StrideSer - 1
  PROVE  y * StrideSer + c \in 0 .. LengthSer - 1
<1>1. PICK k \in Nat : HeightSer = y + 1 + k
  <2>1. HeightSer - y - 1 \in Nat /\ HeightSer = y + 1 + (HeightSer - y - 1)
    BY Sizes
  <2>. QED  BY <2>1
<1>2. LengthSer = y * StrideSer + StrideSer + k * StrideSer  BY <1>1, Sizes
<1>3. y * StrideSer \in Nat /\ k * StrideSer \in Nat  BY <1>1, Sizes
<1>. QED  BY <1>2, <1>3, Sizes

\* Every bit the loops of _beat set, monobusd.c 573-587, is one of
\* led_outdat.bitmap, whatever the size of the display.
THEOREM TurnedWithin ==
  ASSUME NEW lit \in SUBSET Pixel
  PROVE  Turned(lit) \subseteq (0 .. LengthSer - 1) \X Bit
<1> SUFFICES ASSUME NEW px \in lit
             PROVE  Place(px[1], px[2]) \in (0 .. LengthSer - 1) \X Bit
  BY DEF Turned
<1>1. px[1] \in 0 .. WidthSer - 1 /\ px[2] \in 0 .. HeightSer - 1
  BY DEF Pixel
<1>2. StrideSer - (px[1] \div 8) - 1 \in 0 .. StrideSer - 1 /\ px[1] % 8 \in Bit
  BY <1>1, Column
<1>3. px[2] * StrideSer + (StrideSer - (px[1] \div 8) - 1) \in 0 .. LengthSer - 1
  BY <1>1, <1>2, RowWithin
<1>4. px[2] * StrideSer \in Int /\ px[1] \div 8 \in Int  BY <1>1, Sizes
<1>5. px[2] * StrideSer + StrideSer - (px[1] \div 8) - 1
        = px[2] * StrideSer + (StrideSer - (px[1] \div 8) - 1)
  BY <1>4, Sizes
<1>. QED  BY <1>2, <1>3, <1>5 DEF Place

\* A display that shows the bytes of a turned canvas in PBM format shows the
\* canvas, turned clockwise by a quarter ("create rotated bitmap in PBM
\* format", monobusd.c 570), for every picture on displays of every size.
THEOREM Rotation ==
  ASSUME NEW lit \in SUBSET Pixel
  PROVE  Showing(Bytes(Turned(lit))) = Quarter(lit)
<1>1. ASSUME NEW y \in 0 .. HeightSer - 1, NEW x \in 0 .. WidthSer - 1
      PROVE  7 - (x % 8) \in Bytes(Turned(lit))[y * StrideSer + (x \div 8) + 1]
             <=> << WidthSer - 1 - x, y >> \in lit
  <2> DEFINE w == WidthSer - 1 - x
             at == y * StrideSer + (x \div 8)
  <2>1. /\ x \div 8 \in 0 .. StrideSer - 1 /\ x % 8 \in Bit
        /\ x = 8 * (x \div 8) + (x % 8)
    BY Column
  <2>2. w \in 0 .. WidthSer - 1  BY Sizes
  <2>3. /\ w \div 8 = StrideSer - 1 - (x \div 8)
        /\ w % 8 = 7 - (x % 8)
    BY Sizes, <2>1 DEF Bit
  <2>4. at \in 0 .. LengthSer - 1  BY <2>1, RowWithin
  <2>5. 7 - (x % 8) \in Bit  BY <2>1 DEF Bit
  <2>6. 7 - (x % 8) \in Bytes(Turned(lit))[at + 1]
          <=> << at, 7 - (x % 8) >> \in Turned(lit)
    <3>1. at + 1 \in 1 .. LengthSer /\ (at + 1) - 1 = at  BY <2>4, Sizes
    <3> HIDE DEF at
    <3>. QED  BY <3>1, <2>5 DEF Bytes
  <2>7. ASSUME NEW px \in lit
        PROVE  Place(px[1], px[2]) = << at, 7 - (x % 8) >> <=> px = << w, y >>
    <3>1. px[1] \in 0 .. WidthSer - 1 /\ px[2] \in 0 .. HeightSer - 1
          /\ px = << px[1], px[2] >>
      BY DEF Pixel
    <3> DEFINE c == StrideSer - (px[1] \div 8) - 1
    <3>2. /\ c \in 0 .. StrideSer - 1 /\ px[1] % 8 \in Bit
          /\ px[1] = 8 * (px[1] \div 8) + (px[1] % 8)
      BY <3>1, Column
    <3>3. Place(px[1], px[2]) = << px[2] * StrideSer + c, px[1] % 8 >>
      <4>1. px[2] * StrideSer \in Int /\ px[1] \div 8 \in Int  BY <3>1, Sizes
      <4>. QED  BY <4>1, Sizes DEF Place
    <3>4. px[2] * StrideSer + c = at <=> px[2] = y /\ c = x \div 8
      <4>1. px[2] \in Nat /\ y \in Nat  BY <3>1
      <4> HIDE DEF c
      <4>2. c \in 0 .. StrideSer - 1 /\ x \div 8 \in 0 .. StrideSer - 1  BY <3>2, <2>1
      <4>3. px[2] * StrideSer + c = y * StrideSer + x \div 8
              => px[2] = y /\ c = x \div 8
        BY <4>1, <4>2, RowUnique, Sizes
      <4>. QED  BY <4>3
    <3>5. c = x \div 8 /\ px[1] % 8 = 7 - (x % 8) <=> px[1] = w
      <4>1. ASSUME c = x \div 8, px[1] % 8 = 7 - (x % 8) PROVE px[1] = w
        <5>1. px[1] \div 8 = StrideSer - 1 - (x \div 8)
          BY <4>1, <3>1, <2>1, Sizes
        <5>2. px[1] = 8 * (StrideSer - 1 - (x \div 8)) + (7 - (x % 8))
          BY <5>1, <4>1, <3>2
        <5>. QED  BY <5>2, <2>1, Sizes DEF Bit
      <4>2. ASSUME px[1] = w PROVE c = x \div 8 /\ px[1] % 8 = 7 - (x % 8)
        <5>1. px[1] \div 8 = StrideSer - 1 - (x \div 8) /\ px[1] % 8 = 7 - (x % 8)
          BY <4>2, <2>3
        <5>. QED  BY <5>1, <2>1, Sizes
      <4>. QED  BY <4>1, <4>2
    <3> HIDE DEF c, w, at
    <3>. QED  BY <3>1, <3>3, <3>4, <3>5
  <2>8. << at, 7 - (x % 8) >> \in Turned(lit) <=> << w, y >> \in lit
    <3> HIDE DEF at, w
    <3>. QED  BY <2>7 DEF Turned
  <2>. QED  BY <2>6, <2>8
<1>2. ASSUME NEW px \in lit
      PROVE  /\ px[2] \in 0 .. HeightSer - 1
             /\ WidthSer - 1 - px[1] \in 0 .. WidthSer - 1
             /\ << WidthSer - 1 - (WidthSer - 1 - px[1]), px[2] >> = px
  <2>1. px[1] \in 0 .. WidthSer - 1 /\ px[2] \in 0 .. HeightSer - 1
        /\ px = << px[1], px[2] >>
    BY DEF Pixel
  <2>. QED  BY <2>1, Sizes
<1>3. Showing(Bytes(Turned(lit))) \subseteq Quarter(lit)
  <2> SUFFICES ASSUME NEW y \in 0 .. HeightSer - 1, NEW x \in 0 .. WidthSer - 1,
                      << WidthSer - 1 - x, y >> \in lit
               PROVE  << y, x >> \in Quarter(lit)
    <3>1. ASSUME NEW px \in Showing(Bytes(Turned(lit)))
          PROVE  /\ px[1] \in 0 .. HeightSer - 1 /\ px[2] \in 0 .. WidthSer - 1
                 /\ px = << px[1], px[2] >>
                 /\ << WidthSer - 1 - px[2], px[1] >> \in lit
      <4>1. /\ px[1] \in 0 .. HeightSer - 1 /\ px[2] \in 0 .. WidthSer - 1
            /\ px = << px[1], px[2] >>
        BY DEF Showing
      <4>2. 7 - (px[2] % 8)
              \in Bytes(Turned(lit))[px[1] * StrideSer + (px[2] \div 8) + 1]
        BY DEF Showing
      <4>. QED  BY <4>1, <4>2, <1>1
    <3>. QED  BY <3>1
  <2>1. WidthSer - 1 - (WidthSer - 1 - x) = x  BY Sizes
  <2>. QED  BY <2>1 DEF Quarter
<1>4. Quarter(lit) \subseteq Showing(Bytes(Turned(lit)))
  <2> SUFFICES ASSUME NEW px \in lit
               PROVE  << px[2], WidthSer - 1 - px[1] >> \in Showing(Bytes(Turned(lit)))
    BY DEF Quarter
  <2>. QED  BY <1>1, <1>2 DEF Showing
<1>. QED  BY <1>3, <1>4

-----------------------------------------------------------------------------
LEMMA XmitType ==
  ASSUME TypeOK, NEW c, NEW p, Xmit(c, p)
  PROVE  done' \in BOOLEAN
BY DEF Xmit, TypeOK

\* The daemon sets bits of led_outdat.bitmap only, in every frame of every
\* session (monobusd.c 571-587 and 624), for displays of every size.
THEOREM TypeCorrect == Spec => []TypeOK
<1>1. Init => TypeOK
  BY DEF Init, TypeOK
<1>2. TypeOK /\ [Next]_vars => TypeOK'
  <2> SUFFICES ASSUME TypeOK, [Next]_vars PROVE TypeOK'
    OBVIOUS
  <2>1. CASE SendStatus
    <3>1. done' \in BOOLEAN  BY <2>1, XmitType DEF SendStatus
    <3>. QED  BY <2>1, <3>1 DEF SendStatus, TypeOK
  <2>2. CASE SendSetup
    <3>1. done' \in BOOLEAN  BY <2>2, XmitType DEF SendSetup
    <3>. QED  BY <2>2, <3>1 DEF SendSetup, TypeOK
  <2>3. CASE Test
    BY <2>3 DEF Test, TypeOK
  <2>4. CASE Drain
    BY <2>4, PicturesAssumption DEF Drain, TypeOK
  <2>5. CASE SendOutset
    <3>1. done' \in BOOLEAN  BY <2>5, XmitType DEF SendOutset
    <3>. QED  BY <2>5, <3>1 DEF SendOutset, TypeOK
  <2>6. CASE SendOutdat
    <3>1. done' \in BOOLEAN  BY <2>6, XmitType DEF SendOutdat
    <3>2. bitmap' \subseteq (0 .. LengthSer - 1) \X Bit
      <4>1. bitmap' = Turned(canvas)  BY <2>6 DEF SendOutdat
      <4>2. canvas \in SUBSET Pixel  BY DEF TypeOK
      <4>. QED  BY <4>1, <4>2, TurnedWithin
    <3>3. whole' \in BOOLEAN  BY <2>6 DEF SendOutdat
    <3>. QED  BY <2>6, <3>1, <3>2, <3>3 DEF SendOutdat, TypeOK
  <2>7. CASE SendLastOutdat
    <3>1. done' \in BOOLEAN  BY <2>7, XmitType DEF SendLastOutdat
    <3>2. bitmap' \subseteq (0 .. LengthSer - 1) \X Bit
      BY <2>7 DEF SendLastOutdat
    <3>3. whole' \in BOOLEAN  BY <2>7 DEF SendLastOutdat
    <3>. QED  BY <2>7, <3>1, <3>2, <3>3 DEF SendLastOutdat, TypeOK
  <2>8. CASE SendOutput
    <3>1. done' \in BOOLEAN  BY <2>8, XmitType DEF SendOutput
    <3>2. whole' \in BOOLEAN  BY <2>8 DEF SendOutput
    <3>. QED  BY <2>8, <3>1, <3>2 DEF SendOutput, TypeOK
  <2>9. CASE Advance
    BY <2>9 DEF Advance, TypeOK
  <2>10. CASE Serve
    BY <2>10 DEF Serve, TypeOK
  <2>11. CASE Sig
    BY <2>11 DEF Sig, TypeOK
  <2>12. CASE Reconnect
    BY <2>12 DEF Reconnect, TypeOK
  <2>13. CASE Restart
    BY <2>13 DEF Restart, TypeOK
  <2>14. CASE UNCHANGED vars
    BY <2>14 DEF vars, TypeOK
  <2>. QED
    BY <2>1, <2>2, <2>3, <2>4, <2>5, <2>6, <2>7, <2>8, <2>9, <2>10, <2>11,
       <2>12, <2>13, <2>14 DEF Next
<1>. QED  BY <1>1, <1>2, PTL DEF Spec

-----------------------------------------------------------------------------
(***************************************************************************)
(* Bytes.  FRAMING and ESCAPE are told apart from all other bytes, and     *)
(* escaping can be undone.                                                 *)
(***************************************************************************)

\* A byte is the set of its bits.
Octet == SUBSET Bit

\* The bytes that are escaped.
Reserved == {FRAMING, ESCAPE}

\* What the daemon sends.
Commands == {Status, LedSetup, LedOutset, LedOutdat, LedOutput}

\* A byte is a set of bits.
LEMMA ByteIsOctet == \A n : Byte(n) \in Octet
BY DEF Byte, Octet

\* The weights of the eight bits.
LEMMA Weights ==
  /\ Weight[1] = 1 /\ Weight[2] = 2 /\ Weight[3] = 4 /\ Weight[4] = 8
  /\ Weight[5] = 16 /\ Weight[6] = 32 /\ Weight[7] = 64 /\ Weight[8] = 128
BY DEF Weight

\* The bits of a number that the reserved bytes and the commands differ in.
LEMMA BitsOf ==
  ASSUME NEW n \in Nat
  PROVE  /\ 0 \in Byte(n) <=> n % 2 = 1
         /\ 1 \in Byte(n) <=> (n \div 2) % 2 = 1
         /\ 4 \in Byte(n) <=> (n \div 16) % 2 = 1
         /\ 5 \in Byte(n) <=> (n \div 32) % 2 = 1
         /\ 6 \in Byte(n) <=> (n \div 64) % 2 = 1
         /\ 7 \in Byte(n) <=> (n \div 128) % 2 = 1
<1>1. \A i \in {0, 1, 4, 5, 6, 7} : i \in Byte(n) <=> (n \div Weight[i + 1]) % 2 = 1
  BY DEF Byte, Bit
<1>2. n \div 1 = n OBVIOUS
<1>3. 0 + 1 = 1 /\ 1 + 1 = 2 /\ 4 + 1 = 5 /\ 5 + 1 = 6 /\ 6 + 1 = 7 /\ 7 + 1 = 8
  OBVIOUS
<1> QED BY <1>1, <1>2, <1>3, Weights

\* What tells FRAMING and ESCAPE from each other and from escaped bytes.
LEMMA ReservedBits ==
  /\ 0 \notin FRAMING /\ 5 \in FRAMING /\ 7 \notin FRAMING
  /\ 0 \in ESCAPE /\ 5 \in ESCAPE /\ 7 \notin ESCAPE
  /\ 5 \in Flip
<1>1. 126 % 2 = 0 /\ (126 \div 32) % 2 = 1 /\ (126 \div 128) % 2 = 0 OBVIOUS
<1>2. 125 % 2 = 1 /\ (125 \div 32) % 2 = 1 /\ (125 \div 128) % 2 = 0 OBVIOUS
<1>3. (32 \div 32) % 2 = 1 OBVIOUS
<1> QED BY <1>1, <1>2, <1>3, BitsOf DEF FRAMING, ESCAPE, Flip

\* What tells the commands from each other and from the reserved bytes.
LEMMA CommandBits ==
  /\ \A c \in Commands : 7 \in c
  /\ 4 \notin Id /\ 5 \notin Id /\ 6 \notin Id
  /\ 4 \notin Status /\ 5 \notin Status /\ 6 \notin Status
  /\ 4 \in LedSetup /\ 5 \in LedSetup /\ 6 \notin LedSetup
  /\ 4 \notin LedOutset /\ 5 \notin LedOutset /\ 6 \in LedOutset
  /\ 4 \in LedOutdat /\ 5 \notin LedOutdat /\ 6 \in LedOutdat
  /\ 4 \notin LedOutput /\ 5 \in LedOutput /\ 6 \in LedOutput
<1>1. /\ (2 \div 16) % 2 = 0 /\ (2 \div 32) % 2 = 0 /\ (2 \div 64) % 2 = 0
      /\ (128 \div 16) % 2 = 0 /\ (128 \div 32) % 2 = 0 /\ (128 \div 64) % 2 = 0
      /\ (128 \div 128) % 2 = 1
      /\ (176 \div 16) % 2 = 1 /\ (176 \div 32) % 2 = 1 /\ (176 \div 64) % 2 = 0
      /\ (176 \div 128) % 2 = 1
      /\ (192 \div 16) % 2 = 0 /\ (192 \div 32) % 2 = 0 /\ (192 \div 64) % 2 = 1
      /\ (192 \div 128) % 2 = 1
      /\ (208 \div 16) % 2 = 1 /\ (208 \div 32) % 2 = 0 /\ (208 \div 64) % 2 = 1
      /\ (208 \div 128) % 2 = 1
      /\ (224 \div 16) % 2 = 0 /\ (224 \div 32) % 2 = 1 /\ (224 \div 64) % 2 = 1
      /\ (224 \div 128) % 2 = 1
  OBVIOUS
<1> QED
  BY <1>1, BitsOf DEF Commands, Id, Status, LedSetup, LedOutset, LedOutdat, LedOutput

\* The first byte of a message is not special, and tells which it is.
LEMMA Headed ==
  /\ \A c \in Commands : c \union Id \in Octet /\ c \union Id \notin Reserved
  /\ \A c, e \in Commands : c \union Id = e \union Id => c = e
<1>1. \A c \in Commands : c \in Octet /\ Id \in Octet
  BY ByteIsOctet DEF Commands, Id, Status, LedSetup, LedOutset, LedOutdat, LedOutput
<1>2. \A c \in Commands : c \union Id \in Octet /\ c \union Id \notin Reserved
  BY <1>1, CommandBits, ReservedBits DEF Octet, Reserved
<1>3. \A c, e \in Commands : c \union Id = e \union Id => c = e
  BY CommandBits DEF Commands
<1> QED BY <1>2, <1>3

\* The two reserved bytes differ.
LEMMA ReservedOctets == FRAMING \in Octet /\ ESCAPE \in Octet /\ Flip \in Octet /\ FRAMING # ESCAPE
BY ByteIsOctet, ReservedBits DEF FRAMING, ESCAPE, Flip

\* Escaping can be undone, and hides the special bytes.
LEMMA Flipped ==
  ASSUME NEW b \in Octet
  PROVE  /\ Xor(b, Flip) \in Octet /\ Xor(Xor(b, Flip), Flip) = b
         /\ b \in Reserved => Xor(b, Flip) \notin Reserved
<1>1. Xor(b, Flip) \in Octet BY ReservedOctets DEF Xor, Octet
<1>2. Xor(Xor(b, Flip), Flip) = b BY DEF Xor
<1>3. b \in Reserved => Xor(b, Flip) \notin Reserved
  <2>1. b \in Reserved => 5 \in b BY ReservedBits DEF Reserved
  <2>2. 5 \in b => 5 \notin Xor(b, Flip) BY ReservedBits DEF Xor
  <2> QED BY <2>1, <2>2, ReservedBits DEF Reserved
<1> QED BY <1>1, <1>2, <1>3

\* A byte becomes itself, or ESCAPE and one that is not reserved.
LEMMA StuffedBytes ==
  ASSUME NEW b \in Octet
  PROVE  /\ Stuffed(b) \in Seq(Octet)
         /\ \/ b \notin Reserved /\ Stuffed(b) = << b >>
            \/ \E x \in Octet \ Reserved : Stuffed(b) = << ESCAPE, x >> /\ Xor(x, Flip) = b
<1>1. CASE b \in Reserved
  <2> DEFINE x == Xor(b, Flip)
  <2>1. Stuffed(b) = << ESCAPE, x >> BY <1>1 DEF Stuffed, Reserved
  <2>2. x \in Octet \ Reserved /\ Xor(x, Flip) = b BY <1>1, Flipped
  <2> HIDE DEF x
  <2> QED BY <2>1, <2>2, ReservedOctets
<1>2. CASE b \notin Reserved
  <2>1. Stuffed(b) = << b >> BY <1>2 DEF Stuffed, Reserved
  <2> QED BY <1>2, <2>1
<1> QED BY <1>1, <1>2

-----------------------------------------------------------------------------
(***************************************************************************)
(* The display undoes the escapes.                                         *)
(***************************************************************************)

\* What each byte becomes when the escapes are undone.
Undone(bytes) ==
  [i \in DOMAIN bytes |->
    IF bytes[i] = ESCAPE THEN << >>
    ELSE IF i > 1 /\ bytes[i - 1] = ESCAPE THEN << Xor(bytes[i], Flip) >>
    ELSE << bytes[i] >>]

\* Plain joins what each byte becomes.
LEMMA PlainUndone == \A bytes : Plain(bytes) = FlattenSeq(Undone(bytes))
BY DEF Plain, Undone

\* Each byte becomes a sequence of bytes.
LEMMA UndoneType ==
  ASSUME NEW s \in Seq(Octet)
  PROVE  Undone(s) \in Seq(Seq(Octet)) /\ Len(Undone(s)) = Len(s)
<1>1. Len(s) \in Nat /\ DOMAIN s = 1 .. Len(s) BY LenProperties
<1>2. ASSUME NEW i \in 1 .. Len(s) PROVE Undone(s)[i] \in Seq(Octet)
  <2>1. s[i] \in Octet BY <1>1, ElementOfSeq
  <2>2. Xor(s[i], Flip) \in Octet BY <2>1, Flipped
  <2>3. << >> \in Seq(Octet) /\ << s[i] >> \in Seq(Octet) /\ << Xor(s[i], Flip) >> \in Seq(Octet)
    BY <2>1, <2>2
  <2> QED BY <1>1, <2>3 DEF Undone
<1>3. Undone(s) = [i \in 1 .. Len(s) |-> Undone(s)[i]] BY <1>1 DEF Undone
<1>4. Undone(s) \in [1 .. Len(s) -> Seq(Octet)]
  <2> DEFINE u == Undone(s)
  <2> HIDE DEF u
  <2>1. \A i \in 1 .. Len(s) : u[i] \in Seq(Octet) BY <1>2 DEF u
  <2>2. u = [i \in 1 .. Len(s) |-> u[i]] BY <1>3 DEF u
  <2> QED BY <2>1, <2>2 DEF u
<1> QED BY <1>1, <1>4, LenProperties, SeqDef

\* Without its escapes it is bytes again.
LEMMA PlainType == ASSUME NEW s \in Seq(Octet) PROVE Plain(s) \in Seq(Octet)
BY UndoneType, FlattenType, PlainUndone

\* Escapes are undone byte by byte, unless they are torn apart.
LEMMA PlainConcat ==
  ASSUME NEW a \in Seq(Octet), NEW b \in Seq(Octet), Len(a) > 0 => a[Len(a)] # ESCAPE
  PROVE  Plain(a \o b) = Plain(a) \o Plain(b)
<1> DEFINE m == Len(a)
           n == Len(b)
           ab == a \o b
<1>1. /\ ab \in Seq(Octet) /\ m \in Nat /\ n \in Nat /\ Len(ab) = m + n
      /\ \A i \in 1 .. m + n : ab[i] = IF i <= m THEN a[i] ELSE b[i - m]
  BY ConcatProperties, LenProperties
<1>2. /\ Undone(a) \in Seq(Seq(Octet)) /\ Len(Undone(a)) = m
      /\ Undone(b) \in Seq(Seq(Octet)) /\ Len(Undone(b)) = n
      /\ Undone(ab) \in Seq(Seq(Octet)) /\ Len(Undone(ab)) = m + n
  BY <1>1, UndoneType
<1>3. ASSUME NEW s \in Seq(Octet), NEW i \in 1 .. Len(s)
      PROVE  Undone(s)[i] = IF s[i] = ESCAPE THEN << >>
               ELSE IF i > 1 /\ s[i - 1] = ESCAPE THEN << Xor(s[i], Flip) >>
               ELSE << s[i] >>
  BY LenProperties DEF Undone
<1> HIDE DEF m, n, ab
<1>4. ASSUME NEW i \in 1 .. m PROVE Undone(ab)[i] = Undone(a)[i]
  <2>1. i \in 1 .. m + n BY <1>1
  <2>2. ab[i] = a[i] BY <1>1, <2>1
  <2>3. i > 1 => ab[i - 1] = a[i - 1]
    <3>1. i > 1 => i - 1 \in 1 .. m + n /\ i - 1 <= m BY <1>1
    <3> QED BY <1>1, <3>1
  <2>4. i \in 1 .. Len(ab) /\ i \in 1 .. Len(a) BY <2>1, <1>1 DEF m
  <2> QED BY <1>1, <1>3, <2>2, <2>3, <2>4
<1>5. ASSUME NEW i \in m + 1 .. m + n PROVE Undone(ab)[i] = Undone(b)[i - m]
  <2>1. i \in 1 .. m + n /\ i - m \in 1 .. n BY <1>1
  <2>2. ab[i] = b[i - m] BY <1>1, <2>1
  <2>3. i - m > 1 => i > 1 /\ ab[i - 1] = b[(i - m) - 1]
    <3>1. i - m > 1 => i - 1 \in 1 .. m + n /\ ~(i - 1 <= m) /\ (i - 1) - m = (i - m) - 1
      BY <1>1
    <3> QED BY <1>1, <3>1
  <2>4. ~(i - m > 1) /\ i > 1 => ab[i - 1] # ESCAPE
    <3>1. ~(i - m > 1) /\ i > 1 => i - 1 = m /\ m > 0 /\ m \in 1 .. m + n
      BY <1>1
    <3>2. m > 0 => a[m] # ESCAPE BY DEF m
    <3> QED BY <1>1, <3>1, <3>2
  <2>5. i \in 1 .. Len(ab) /\ i - m \in 1 .. Len(b) BY <2>1, <1>1 DEF n
  <2>6. i > 1 /\ ab[i - 1] = ESCAPE <=> i - m > 1 /\ b[(i - m) - 1] = ESCAPE
    BY <2>3, <2>4, <2>1, <1>1
  <2>7. Undone(ab)[i] = IF ab[i] = ESCAPE THEN << >>
               ELSE IF i > 1 /\ ab[i - 1] = ESCAPE THEN << Xor(ab[i], Flip) >>
               ELSE << ab[i] >>
    BY <1>1, <1>3, <2>5
  <2>8. Undone(b)[i - m] = IF b[i - m] = ESCAPE THEN << >>
               ELSE IF i - m > 1 /\ b[(i - m) - 1] = ESCAPE THEN << Xor(b[i - m], Flip) >>
               ELSE << b[i - m] >>
    BY <1>3, <2>5
  <2> QED BY <2>2, <2>6, <2>7, <2>8
<1>6. Undone(ab) = Undone(a) \o Undone(b)
  <2> DEFINE u == Undone(a)
             v == Undone(b)
             w == Undone(ab)
  <2>1. /\ u \in Seq(Seq(Octet)) /\ v \in Seq(Seq(Octet)) /\ w \in Seq(Seq(Octet))
        /\ Len(u) = m /\ Len(v) = n /\ Len(w) = m + n
        /\ \A i \in 1 .. m : w[i] = u[i]
        /\ \A i \in m + 1 .. m + n : w[i] = v[i - m]
    BY <1>2, <1>4, <1>5
  <2> HIDE DEF u, v, w
  <2>2. /\ u \o v \in Seq(Seq(Octet)) /\ Len(u \o v) = m + n
        /\ \A i \in 1 .. m + n : (u \o v)[i] = IF i <= m THEN u[i] ELSE v[i - m]
    BY <2>1, ConcatProperties
  <2>3. \A i \in 1 .. m + n : w[i] = (u \o v)[i]
    <3> SUFFICES ASSUME NEW i \in 1 .. m + n PROVE w[i] = (u \o v)[i] OBVIOUS
    <3>1. CASE i <= m
      <4>1. i \in 1 .. m BY <3>1, <1>1
      <4> QED BY <2>1, <2>2, <3>1, <4>1
    <3>2. CASE ~(i <= m)
      <4>1. i \in m + 1 .. m + n BY <3>2, <1>1
      <4> QED BY <2>1, <2>2, <3>2, <4>1
    <3> QED BY <3>1, <3>2
  <2>4. w = u \o v
    <3> DEFINE z == u \o v
    <3>1. /\ z \in Seq(Seq(Octet)) /\ Len(z) = Len(w)
          /\ \A i \in 1 .. Len(w) : w[i] = z[i]
      BY <2>1, <2>2, <2>3
    <3> HIDE DEF z
    <3>2. w = z BY <2>1, <3>1, SeqEqual
    <3> QED BY <3>2 DEF z
  <2> QED BY <2>4 DEF u, v, w
<1> QED BY <1>2, <1>6, FlattenConcat, PlainUndone DEF ab

\* What became of a byte is undone.
LEMMA PlainStuffed ==
  ASSUME NEW b \in Octet PROVE Plain(Stuffed(b)) = << b >>
<1>1. CASE b \notin Reserved /\ Stuffed(b) = << b >>
  <2>1. b # ESCAPE BY <1>1 DEF Reserved
  <2>2. Undone(<< b >>) = << << b >> >>
    <3>1. Undone(<< b >>) = [i \in {1} |-> << b >>] BY <2>1 DEF Undone
    <3> QED BY <3>1
  <2>3. << b >> \in Seq(Octet) OBVIOUS
  <2> QED BY <1>1, <2>2, <2>3, PlainUndone, FlattenOne
<1>2. ASSUME NEW x \in Octet \ Reserved, Stuffed(b) = << ESCAPE, x >>, Xor(x, Flip) = b
      PROVE  Plain(Stuffed(b)) = << b >>
  <2>1. x # ESCAPE BY DEF Reserved
  <2>2. Undone(<< ESCAPE, x >>) = << << >>, << b >> >>
    <3> DEFINE s == << ESCAPE, x >>
    <3>1. s[1] = ESCAPE /\ s[2] = x /\ DOMAIN s = {1, 2} OBVIOUS
    <3> HIDE DEF s
    <3>2. Undone(s)[1] = << >> BY <3>1 DEF Undone
    <3>3. Undone(s)[2] = << b >>
      <4>1. 2 > 1 /\ 2 - 1 = 1 OBVIOUS
      <4> QED BY <1>2, <2>1, <3>1, <4>1 DEF Undone
    <3>4. DOMAIN Undone(s) = {1, 2} /\ Undone(s) = [i \in {1, 2} |-> Undone(s)[i]]
      BY <3>1 DEF Undone
    <3>5. Undone(s) = << << >>, << b >> >>
      <4> DEFINE u == Undone(s)
      <4>1. u[1] = << >> /\ u[2] = << b >> /\ u = [i \in {1, 2} |-> u[i]]
        BY <3>2, <3>3, <3>4
      <4> HIDE DEF u
      <4>2. 1 .. 2 = {1, 2} OBVIOUS
      <4>3. u = << << >>, << b >> >> BY <4>1, <4>2
      <4> QED BY <4>3 DEF u
    <3> QED BY <3>5 DEF s
  <2>3. FlattenSeq(<< << >>, << b >> >>) = << b >>
    <3>1. << b >> \in Seq(Octet) /\ << >> \in Seq(Octet) /\ << << >> >> \in Seq(Seq(Octet))
      OBVIOUS
    <3>2. Append(<< << >> >>, << b >>) = << << >>, << b >> >>
      <4>1. ASSUME NEW S, NEW v \in S, NEW w \in S PROVE Append(<< v >>, w) = << v, w >>
        <5> DEFINE s == Append(<< v >>, w)
                   t == << v, w >>
        <5>1. t \in Seq(S) /\ Len(t) = 2 /\ t[1] = v /\ t[2] = w OBVIOUS
        <5>2. << v >> \in Seq(S) /\ Len(<< v >>) = 1 /\ << v >>[1] = v OBVIOUS
        <5>3. s \in Seq(S) /\ Len(s) = 2 /\ s[1] = v /\ s[2] = w
          BY <5>2, AppendProperties
        <5> HIDE DEF s, t
        <5>4. \A i \in 1 .. 2 : i = 1 \/ i = 2 OBVIOUS
        <5>5. s = t BY <5>1, <5>3, <5>4, SeqEqual
        <5> QED BY <5>5 DEF s, t
      <4> HIDE DEF Octet
      <4> QED BY <3>1, <4>1
    <3>3. FlattenSeq(<< << >> >>) = << >> BY <3>1, FlattenOne
    <3>4. << >> \o << b >> = << b >> OBVIOUS
    <3> QED BY <3>1, <3>2, <3>3, <3>4, FlattenAppend
  <2> QED BY <1>2, <2>2, <2>3, PlainUndone
<1> QED BY <1>1, <1>2, StuffedBytes

-----------------------------------------------------------------------------
(***************************************************************************)
(* The command and the payload: what the display reads back, whole.        *)
(***************************************************************************)

\* The payload as it travels.
Stuff(p) == [i \in DOMAIN p |-> Stuffed(p[i])]

\* The body is the command and the joined, escaped bytes.
LEMMA BodyIs == \A c, p : Body(c, p) = << c \union Id >> \o FlattenSeq(Stuff(p))
BY DEF Body, Stuff

\* Each byte of a payload is escaped for itself.
LEMMA StuffType ==
  ASSUME NEW p \in Seq(Octet)
  PROVE  Stuff(p) \in Seq(Seq(Octet)) /\ Len(Stuff(p)) = Len(p)
<1>1. Len(p) \in Nat /\ DOMAIN p = 1 .. Len(p) BY LenProperties
<1>2. ASSUME NEW i \in 1 .. Len(p) PROVE Stuff(p)[i] \in Seq(Octet)
  <2>1. p[i] \in Octet BY <1>1, ElementOfSeq
  <2> QED BY <1>1, <2>1, StuffedBytes DEF Stuff
<1>3. Stuff(p) = [i \in 1 .. Len(p) |-> Stuff(p)[i]] BY <1>1 DEF Stuff
<1>4. Stuff(p) \in [1 .. Len(p) -> Seq(Octet)]
  <2> DEFINE u == Stuff(p)
  <2>1. \A i \in 1 .. Len(p) : u[i] \in Seq(Octet) BY <1>2
  <2>2. u = [i \in 1 .. Len(p) |-> u[i]] BY <1>3
  <2> HIDE DEF u
  <2>3. u \in [1 .. Len(p) -> Seq(Octet)] BY <2>1, <2>2
  <2> QED BY <2>3 DEF u
<1> QED BY <1>1, <1>4, LenProperties, SeqDef

\* One more byte is escaped one more time.
LEMMA StuffAppend ==
  ASSUME NEW p \in Seq(Octet), NEW e \in Octet
  PROVE  Stuff(Append(p, e)) = Append(Stuff(p), Stuffed(e))
<1> DEFINE q == Append(p, e)
           u == Stuff(q)
           v == Append(Stuff(p), Stuffed(e))
           n == Len(p)
<1>1. /\ q \in Seq(Octet) /\ Len(q) = n + 1 /\ n \in Nat /\ q[n + 1] = e
      /\ \A i \in 1 .. n : q[i] = p[i]
  BY AppendProperties, LenProperties
<1>2. u \in Seq(Seq(Octet)) /\ Len(u) = n + 1
  <2> HIDE DEF q, n
  <2> QED BY <1>1, StuffType
<1>3. Stuff(p) \in Seq(Seq(Octet)) /\ Len(Stuff(p)) = n /\ Stuffed(e) \in Seq(Octet)
  BY StuffType, StuffedBytes
<1>4. /\ v \in Seq(Seq(Octet)) /\ Len(v) = n + 1 /\ v[n + 1] = Stuffed(e)
      /\ \A i \in 1 .. n : v[i] = Stuff(p)[i]
  <2> HIDE DEF n
  <2> QED BY <1>1, <1>3, AppendProperties
<1>5. ASSUME NEW i \in 1 .. n + 1 PROVE u[i] = v[i]
  <2>1. u[i] = Stuffed(q[i])
    <3>1. i \in DOMAIN q BY <1>1, LenProperties
    <3> HIDE DEF q
    <3> QED BY <3>1 DEF Stuff
  <2>2. CASE i = n + 1 BY <2>1, <2>2, <1>1, <1>4
  <2>3. CASE i # n + 1
    <3>1. i \in 1 .. n BY <2>3, <1>1
    <3>2. Stuff(p)[i] = Stuffed(p[i])
      <4>1. i \in DOMAIN p BY <3>1, LenProperties
      <4> QED BY <4>1 DEF Stuff
    <3> QED BY <2>1, <3>1, <3>2, <1>1, <1>4
  <2> QED BY <2>2, <2>3
<1> HIDE DEF q, u, v, n
<1>6. u = v BY <1>2, <1>4, <1>5, SeqEqual
<1> QED BY <1>6 DEF u, v, q

\* The body without a payload is the command.
LEMMA BodyEmpty == ASSUME NEW c \in Commands PROVE Body(c, << >>) = << c \union Id >>
<1>1. Stuff(<< >>) = << >>
  <2>1. << >> \in Seq(Octet) OBVIOUS
  <2>2. Stuff(<< >>) \in Seq(Seq(Octet)) /\ Len(Stuff(<< >>)) = 0
    BY <2>1, StuffType
  <2> QED BY <2>2
<1>2. << c \union Id >> \in Seq(Octet) BY Headed
<1> QED BY <1>1, <1>2, FlattenEmpty, ConcatEmptySeq, BodyIs

\* One more byte of the payload comes last in the body.
LEMMA BodyAppend ==
  ASSUME NEW c \in Commands, NEW p \in Seq(Octet), NEW e \in Octet
  PROVE  Body(c, Append(p, e)) = Body(c, p) \o Stuffed(e)
<1>1. Stuff(p) \in Seq(Seq(Octet)) /\ Stuffed(e) \in Seq(Octet)
  BY StuffType, StuffedBytes
<1>2. FlattenSeq(Stuff(Append(p, e))) = FlattenSeq(Stuff(p)) \o Stuffed(e)
  BY <1>1, StuffAppend, FlattenAppend
<1>3. FlattenSeq(Stuff(p)) \in Seq(Octet) BY <1>1, FlattenType
<1>4. << c \union Id >> \in Seq(Octet) BY Headed
<1>5. ASSUME NEW S, NEW h \in Seq(S), NEW f \in Seq(S), NEW s \in Seq(S)
      PROVE  (h \o f) \o s = h \o (f \o s)
  BY ConcatAssociative
<1>6. << c \union Id >> \o (FlattenSeq(Stuff(p)) \o Stuffed(e))
        = (<< c \union Id >> \o FlattenSeq(Stuff(p))) \o Stuffed(e)
  <2> DEFINE h == << c \union Id >>
             f == FlattenSeq(Stuff(p))
             s == Stuffed(e)
  <2>1. h \in Seq(Octet) /\ f \in Seq(Octet) /\ s \in Seq(Octet) BY <1>1, <1>3, <1>4
  <2> HIDE DEF h, f, s
  <2>2. (h \o f) \o s = h \o (f \o s) BY <2>1, <1>5
  <2> QED BY <2>2 DEF h, f, s
<1> QED BY <1>2, <1>6, BodyIs

\* The bytes between two FRAMINGs.
Quiet == Octet \ {FRAMING}

\* What is sent in front of the checksum has no FRAMING, does not end within an
\* escape, and is read back.
BodyOK(c, p) ==
  /\ Body(c, p) \in Seq(Quiet) /\ Len(Body(c, p)) >= 1
  /\ Body(c, p)[Len(Body(c, p))] # ESCAPE
  /\ Plain(Body(c, p)) = << c \union Id >> \o p

\* An escaped byte has no FRAMING, and does not end in ESCAPE.
LEMMA StuffedQuiet ==
  ASSUME NEW b \in Octet
  PROVE  /\ Stuffed(b) \in Seq(Quiet)
         /\ \/ Len(Stuffed(b)) = 1
            \/ Len(Stuffed(b)) = 2 /\ Stuffed(b)[1] = ESCAPE
         /\ Stuffed(b)[Len(Stuffed(b))] # ESCAPE
<1>1. CASE b \notin Reserved /\ Stuffed(b) = << b >>
  <2>1. b \in Quiet /\ b # ESCAPE BY <1>1 DEF Quiet, Reserved
  <2>2. << b >> \in Seq(Quiet) /\ Len(<< b >>) = 1 /\ << b >>[1] = b BY <2>1
  <2> QED BY <1>1, <2>1, <2>2
<1>2. ASSUME NEW x \in Octet \ Reserved, Stuffed(b) = << ESCAPE, x >>
      PROVE  /\ Stuffed(b) \in Seq(Quiet)
             /\ Len(Stuffed(b)) = 2 /\ Stuffed(b)[1] = ESCAPE
             /\ Stuffed(b)[Len(Stuffed(b))] # ESCAPE
  <2>1. x \in Quiet /\ x # ESCAPE /\ ESCAPE \in Quiet
    BY ReservedOctets DEF Quiet, Reserved
  <2>2. << ESCAPE, x >> \in Seq(Quiet) /\ Len(<< ESCAPE, x >>) = 2
        /\ << ESCAPE, x >>[2] = x /\ << ESCAPE, x >>[1] = ESCAPE
    BY <2>1
  <2> QED BY <1>2, <2>1, <2>2
<1> QED BY <1>1, <1>2, StuffedBytes

\* The display reads back what was put into the body.
LEMMA BodyRead ==
  ASSUME NEW c \in Commands
  PROVE  \A p \in Seq(Octet) : BodyOK(c, p)
<1> DEFINE T == { p \in Seq(Octet) : BodyOK(c, p) }
           h == c \union Id
<1>0. h \in Quiet /\ h # ESCAPE /\ h \in Octet BY Headed DEF Quiet, Reserved
<1>1. << >> \in T
  <2>1. Body(c, << >>) = << h >> BY BodyEmpty
  <2> HIDE DEF h
  <2>2. /\ << h >> \in Seq(Quiet) /\ << h >> \in Seq(Octet) /\ Len(<< h >>) = 1
        /\ << h >>[1] = h /\ << h >> \o << >> = << h >>
    BY <1>0
  <2>3. Plain(<< h >>) = << h >>
    <3>1. Undone(<< h >>) = << << h >> >>
      <4>1. Undone(<< h >>) = [i \in {1} |-> << h >>] BY <1>0 DEF Undone
      <4> QED BY <4>1
    <3> QED BY <3>1, <2>2, PlainUndone, FlattenOne
  <2>4. << >> \in Seq(Octet) OBVIOUS
  <2>5. BodyOK(c, << >>) <=> /\ << h >> \in Seq(Quiet) /\ Len(<< h >>) >= 1
                            /\ << h >>[Len(<< h >>)] # ESCAPE
                            /\ Plain(<< h >>) = << h >> \o << >>
    BY <2>1 DEF BodyOK, h
  <2>6. BodyOK(c, << >>)
    <3>1. Len(<< h >>) >= 1 /\ << h >>[Len(<< h >>)] # ESCAPE BY <1>0, <2>2
    <3> QED BY <2>2, <2>3, <2>5, <3>1
  <2> QED BY <2>4, <2>6
<1>2. ASSUME NEW p \in Seq(Octet), NEW e \in Octet, p \in T PROVE Append(p, e) \in T
  <2> DEFINE a == Body(c, p)
             s == Stuffed(e)
             m == Len(a)
             n == Len(s)
  <2>1. Body(c, Append(p, e)) = a \o s BY BodyAppend
  <2>2. /\ a \in Seq(Quiet) /\ m \in Nat /\ m >= 1 /\ a[m] # ESCAPE
        /\ Plain(a) = << h >> \o p
    BY <1>2, LenProperties DEF BodyOK
  <2>3. s \in Seq(Quiet) /\ n \in {1, 2} /\ s[n] # ESCAPE /\ s \in Seq(Octet)
    BY StuffedQuiet, StuffedBytes
  <2>4. a \in Seq(Octet)
    <3>1. Quiet \subseteq Octet BY DEF Quiet
    <3> QED BY <2>2, <3>1, SeqMonotonic
  <2>5. Plain(s) = << e >> BY PlainStuffed
  <2> HIDE DEF a, s, h
  <2>6. a \o s \in Seq(Quiet) /\ Len(a \o s) = m + n /\ (a \o s)[m + n] = s[n]
    <3>1. m = Len(a) /\ n = Len(s) OBVIOUS
    <3> HIDE DEF m, n
    <3>2. m + n \in 1 .. m + n /\ ~(m + n <= m) /\ (m + n) - m = n
      BY <2>2, <2>3
    <3> QED BY <3>1, <3>2, <2>2, <2>3, ConcatProperties
  <2>7. Plain(a \o s) = (<< h >> \o p) \o << e >>
    BY <2>2, <2>3, <2>4, <2>5, PlainConcat
  <2>8. (<< h >> \o p) \o << e >> = << h >> \o Append(p, e)
    <3>1. << h >> \in Seq(Octet) /\ << e >> \in Seq(Octet) BY <1>0
    <3>2. Append(p, e) = p \o << e >> BY AppendIsConcat
    <3> QED BY <3>1, <3>2, ConcatAssociative
  <2>9. Append(p, e) \in Seq(Octet) BY AppendProperties
  <2>10. m + n >= 1 BY <2>2, <2>3
  <2> QED BY <2>1, <2>3, <2>6, <2>7, <2>8, <2>9, <2>10 DEF BodyOK, h
<1>3. Seq(Octet) \subseteq T
  <2> HIDE DEF T
  <2> QED BY <1>1, <1>2, SequenceInduction
<1> QED BY <1>3

-----------------------------------------------------------------------------
(***************************************************************************)
(* The command and the payload, broken off.                                *)
(***************************************************************************)

\* A body that is broken off has lost part of the payload, or of an escape.
LEMMA BodyCut ==
  ASSUME NEW c \in Commands
  PROVE  \A p \in Seq(Octet) : \A n \in 1 .. Len(Body(c, p)) - 1 :
           \/ Body(c, p)[n] = ESCAPE /\ Body(c, p)[n + 1] # ESCAPE
           \/ \E q \in Seq(Octet) :
                Len(q) < Len(p) /\ Plain(SubSeq(Body(c, p), 1, n)) = << c \union Id >> \o q
<1> DEFINE h == c \union Id
           Lost(p, n) == \E q \in Seq(Octet) :
             Len(q) < Len(p) /\ Plain(SubSeq(Body(c, p), 1, n)) = << h >> \o q
           T == { p \in Seq(Octet) : \A n \in 1 .. Len(Body(c, p)) - 1 :
                    \/ Body(c, p)[n] = ESCAPE /\ Body(c, p)[n + 1] # ESCAPE
                    \/ Lost(p, n) }
<1>1. << >> \in T
  <2>1. Body(c, << >>) = << h >> BY BodyEmpty
  <2>2. Len(<< h >>) = 1 /\ << >> \in Seq(Octet) OBVIOUS
  <2> HIDE DEF Lost, h
  <2> DEFINE k == Len(Body(c, << >>)) - 1
  <2>3. k = 0 BY <2>1, <2>2
  <2> HIDE DEF k
  <2>4. \A n \in 1 .. k : FALSE BY <2>3
  <2> QED BY <2>2, <2>4 DEF k
<1>2. ASSUME NEW p \in Seq(Octet), NEW e \in Octet, p \in T PROVE Append(p, e) \in T
  <2> DEFINE a == Body(c, p)
             s == Stuffed(e)
             m == Len(a)
             b == Body(c, Append(p, e))
  <2>1. b = a \o s BY BodyAppend
  <2>2. /\ a \in Seq(Octet) /\ m \in Nat /\ m >= 1 /\ m = Len(a)
        /\ Plain(a) = << h >> \o p
    <3>1. BodyOK(c, p) BY BodyRead
    <3>2. Quiet \subseteq Octet BY DEF Quiet
    <3>3. a \in Seq(Octet) BY <3>1, <3>2, SeqMonotonic DEF BodyOK
    <3> QED BY <3>1, <3>3, LenProperties DEF BodyOK
  <2>3. s \in Seq(Octet) /\ (Len(s) = 1 \/ (Len(s) = 2 /\ s[1] = ESCAPE /\ s[2] # ESCAPE))
    BY StuffedBytes, StuffedQuiet
  <2>4. Append(p, e) \in Seq(Octet) /\ Len(Append(p, e)) = Len(p) + 1 /\ Len(p) \in Nat
    BY AppendProperties, LenProperties
  <2>5. ASSUME NEW n \in 1 .. m - 1, n \in Nat PROVE (a[n] = ESCAPE /\ a[n + 1] # ESCAPE) \/ Lost(p, n)
    BY <1>2
  <2> HIDE DEF T
  <2>6. /\ Len(b) = m + Len(s) /\ \A i \in 1 .. m : b[i] = a[i]
        /\ Len(s) = 2 => b[m + 1] = s[1] /\ b[m + 2] = s[2]
    <3> HIDE DEF a, s, m, b
    <3>1. \A i \in 1 .. m : i \in 1 .. Len(a) + Len(s) /\ i <= Len(a)
      BY <2>2, <2>3
    <3>2. Len(s) = 2 => m + 1 \in 1 .. Len(a) + Len(s) /\ ~(m + 1 <= Len(a)) /\ (m + 1) - Len(a) = 1
                          /\ m + 2 \in 1 .. Len(a) + Len(s) /\ ~(m + 2 <= Len(a)) /\ (m + 2) - Len(a) = 2
      BY <2>2
    <3> QED BY <2>1, <2>2, <2>3, <3>1, <3>2, ConcatProperties
  <2>7. \A n \in 0 .. m : SubSeq(b, 1, n) = SubSeq(a, 1, n)
    <3> HIDE DEF a, s, m, b
    <3> QED BY <2>1, <2>2, <2>3, PrefixOfConcat
  <2>8. ASSUME NEW n \in 1 .. Len(b) - 1
        PROVE  (b[n] = ESCAPE /\ b[n + 1] # ESCAPE) \/ Lost(Append(p, e), n)
    <3>0. n \in Nat /\ n >= 1 /\ (n < m \/ n = m \/ (n = m + 1 /\ Len(s) = 2))
      <4> HIDE DEF a, s, m, b
      <4>1. m \in Nat /\ (Len(b) = m + 1 \/ (Len(b) = m + 2 /\ Len(s) = 2))
        BY <2>2, <2>3, <2>6
      <4> QED BY <4>1
    <3>1. CASE n < m
      <4>1. n \in 1 .. m - 1 /\ n \in 1 .. m /\ n + 1 \in 1 .. m /\ n \in 0 .. m
        <5> HIDE DEF m
        <5> QED BY <3>0, <3>1, <2>2
      <4>2. CASE a[n] = ESCAPE /\ a[n + 1] # ESCAPE
        <5> HIDE DEF a, b, m, Lost
        <5> QED BY <2>6, <4>1, <4>2
      <4>3. CASE Lost(p, n)
        <5>1. PICK q \in Seq(Octet) : Len(q) < Len(p) /\ Plain(SubSeq(a, 1, n)) = << h >> \o q
          BY <4>3
        <5>2. SubSeq(b, 1, n) = SubSeq(a, 1, n)
          <6> HIDE DEF a, b, m
          <6> QED BY <4>1, <2>7
        <5>3. Len(q) < Len(Append(p, e)) BY <5>1, <2>4, LenProperties
        <5> HIDE DEF a
        <5> QED BY <5>1, <5>2, <5>3
      <4> HIDE DEF a, b, m, Lost
      <4> QED BY <4>1, <4>2, <4>3, <2>5, <3>0
    <3>2. CASE n = m
      <4>1. SubSeq(b, 1, n) = a
        <5>1. m \in 0 .. m BY <2>2
        <5>2. SubSeq(a, 1, m) = a BY <2>2, SubSeqFull
        <5> HIDE DEF a, b, m
        <5> QED BY <3>2, <5>1, <5>2, <2>7
      <4>2. Len(p) < Len(Append(p, e)) BY <2>4
      <4>3. Plain(SubSeq(b, 1, n)) = << h >> \o p BY <4>1, <2>2
      <4> HIDE DEF a
      <4> QED BY <4>2, <4>3
    <3>3. CASE n = m + 1 /\ Len(s) = 2
      <4> HIDE DEF a, b, m, s, Lost
      <4>1. n + 1 = m + 2 BY <3>3, <2>2
      <4> QED BY <3>3, <4>1, <2>3, <2>6
    <3> HIDE DEF Lost, a, b, m, s
    <3> QED BY <3>0, <3>1, <3>2, <3>3
  <2> HIDE DEF Lost
  <2> QED BY <2>4, <2>8 DEF T
<1>3. Seq(Octet) \subseteq T
  <2> HIDE DEF T
  <2> QED BY <1>1, <1>2, SequenceInduction
<1> QED BY <1>3

-----------------------------------------------------------------------------
(***************************************************************************)
(* The checksum.  The display accepts a message, and no front of one.      *)
(***************************************************************************)

\* What is sent between two FRAMINGs.
Wire(c, p) == Body(c, p) \o Stuffed(Crc8(Seed, Body(c, p)))

\* What the display takes for the part in front of the checksum.
Ahead(line) == SubSeq(line, 1, Len(line) - CrcSize(line))

\* A checksum is a byte.
LEMMA CrcIsOctet == \A s, d : Crc8(s, d) \in Octet
BY DEF Crc8, Not, Octet

\* Between separators there are none, and the checksum is found behind the body.
LEMMA WireRead ==
  ASSUME NEW c \in Commands, NEW p \in Seq(Octet)
  PROVE  /\ Wire(c, p) \in Seq(Quiet) /\ Ahead(Wire(c, p)) = Body(c, p)
         /\ Intact(Wire(c, p))
<1> DEFINE a == Body(c, p)
           k == Crc8(Seed, a)
           s == Stuffed(k)
           z == Wire(c, p)
           m == Len(a)
<1>1. a \in Seq(Quiet) /\ m \in Nat /\ m >= 1 /\ a[m] # ESCAPE /\ m = Len(a)
  BY BodyRead, LenProperties DEF BodyOK
<1>2. k \in Octet BY CrcIsOctet
<1>3. /\ s \in Seq(Quiet) /\ Len(s) \in {1, 2} /\ (Len(s) = 2 => s[1] = ESCAPE)
      /\ s[Len(s)] # ESCAPE /\ Plain(s) = << k >>
  <2> HIDE DEF k
  <2>1. /\ s \in Seq(Quiet) /\ (Len(s) = 1 \/ (Len(s) = 2 /\ s[1] = ESCAPE))
        /\ s[Len(s)] # ESCAPE
    BY <1>2, StuffedQuiet
  <2>2. Plain(s) = << k >> BY <1>2, PlainStuffed
  <2>3. ASSUME NEW x, Len(x) = 1 \/ (Len(x) = 2 /\ x[1] = ESCAPE)
        PROVE  Len(x) \in {1, 2} /\ (Len(x) = 2 => x[1] = ESCAPE)
    BY <2>3
  <2> HIDE DEF s
  <2>4. Len(s) \in {1, 2} /\ (Len(s) = 2 => s[1] = ESCAPE) BY <2>1, <2>3
  <2> QED BY <2>1, <2>2, <2>4
<1>4. z = a \o s BY DEF Wire
<1> HIDE DEF a, k, s, z, m
<1>5. /\ z \in Seq(Quiet) /\ Len(z) = m + Len(s)
      /\ \A i \in 1 .. m + Len(s) : z[i] = IF i <= m THEN a[i] ELSE s[i - m]
      /\ SubSeq(z, 1, m) = a /\ SubSeq(z, m + 1, Len(z)) = s
  BY <1>1, <1>3, <1>4, ConcatProperties, ConcatParts
<1>6. CrcSize(z) = Len(s)
  <2>1. CASE Len(s) = 1
    <3>1. m \in 1 .. m + Len(s) /\ m <= m /\ Len(z) - 1 = m BY <1>1, <1>5, <2>1
    <3>2. z[m] = a[m] BY <1>5, <3>1
    <3> QED BY <1>1, <2>1, <3>1, <3>2 DEF CrcSize
  <2>2. CASE Len(s) = 2
    <3>1. /\ m + 1 \in 1 .. m + Len(s) /\ ~(m + 1 <= m) /\ (m + 1) - m = 1
          /\ Len(z) - 1 = m + 1 /\ Len(z) > 1
      BY <1>1, <1>5, <2>2
    <3>2. z[m + 1] = s[1] BY <1>5, <3>1
    <3> QED BY <1>3, <2>2, <3>1, <3>2 DEF CrcSize
  <2> QED BY <1>3, <2>1, <2>2
<1>7. Ahead(z) = a
  <2>1. Len(z) - CrcSize(z) = m BY <1>1, <1>3, <1>5, <1>6
  <2> QED BY <1>5, <2>1 DEF Ahead
<1>8. Intact(z)
  <2>1. a # << >> BY <1>1
  <2>3. Last(z) # ESCAPE
    <3>1. /\ m + Len(s) \in 1 .. m + Len(s) /\ ~(m + Len(s) <= m)
          /\ (m + Len(s)) - m = Len(s)
      <4>1. m \in Nat /\ (Len(s) = 1 \/ Len(s) = 2) BY <1>1, <1>3
      <4>2. ASSUME NEW n \in {1, 2}
            PROVE  m + n \in 1 .. m + n /\ ~(m + n <= m) /\ (m + n) - m = n
        BY <4>1
      <4> QED BY <4>1, <4>2
    <3>2. z[m + Len(s)] = s[Len(s)] BY <1>5, <3>1
    <3> QED BY <1>3, <1>5, <3>2 DEF Last
  <2>2. Plain(SubSeq(z, Len(a) + 1, Len(z))) = << Crc8(Seed, a) >>
    BY <1>1, <1>3, <1>5 DEF k
  <2> QED BY <1>7, <2>1, <2>2, <2>3 DEF Intact, Ahead
<1> QED BY <1>5, <1>7, <1>8 DEF z, a

\* What the display makes of a message.
Received(d, c, p) ==
  [d EXCEPT !.got = << c \union Id >> \o p,
            !.memory = IF c = LedOutdat THEN SubSeq(p, 3, Len(p)) ELSE @,
            !.shown = IF c = LedOutput THEN d.memory ELSE @]

\* What Accept decides on: the part ahead of the checksum.
LEMMA AcceptAhead ==
  \A d, line :
    Accept(d, line) =
      IF ~ Intact(line)
           \/ Len(Tail(Plain(Ahead(line)))) # Lengths(Plain(Ahead(line))[1])
      THEN d
      ELSE [d EXCEPT
        !.got = Plain(Ahead(line)),
        !.memory = IF Plain(Ahead(line))[1] = LedOutdat \union Id
                   THEN SubSeq(Tail(Plain(Ahead(line))), 3, Len(Tail(Plain(Ahead(line)))))
                   ELSE @,
        !.shown = IF Plain(Ahead(line))[1] = LedOutput \union Id THEN d.memory ELSE @]
BY DEF Accept, Ahead

\* A message that arrives whole is accepted.
LEMMA AcceptWhole ==
  ASSUME NEW d, NEW c \in Commands, NEW p \in Seq(Octet), Len(p) = Lengths(c \union Id)
  PROVE  Accept(d, Wire(c, p)) = Received(d, c, p)
<1> DEFINE h == c \union Id
           z == Wire(c, p)
           plain == Plain(Ahead(z))
<1>1. Intact(z) /\ plain = << h >> \o p
  BY WireRead, BodyRead DEF BodyOK
<1>2. h \in Octet /\ LedOutdat \in Commands /\ LedOutput \in Commands
  BY Headed DEF Commands
<1>3. (h = LedOutdat \union Id <=> c = LedOutdat) /\ (h = LedOutput \union Id <=> c = LedOutput)
  BY <1>2, Headed
<1> HIDE DEF h, z, plain
<1>4. plain[1] = h /\ Tail(plain) = p BY <1>1, <1>2, ConsProperties
<1>5. Accept(d, z) = [d EXCEPT
        !.got = plain,
        !.memory = IF plain[1] = LedOutdat \union Id
                   THEN SubSeq(Tail(plain), 3, Len(Tail(plain))) ELSE @,
        !.shown = IF plain[1] = LedOutput \union Id THEN d.memory ELSE @]
  <2>1. Len(p) = Lengths(h) BY DEF h
  <2> QED BY <1>1, <1>4, <2>1, AcceptAhead DEF plain
<1>6. Accept(d, z) = Received(d, c, p)
  BY <1>1, <1>3, <1>4, <1>5 DEF Received, h
<1> QED BY <1>6 DEF z

\* One that is broken off is not, wherever that happens.
LEMMA AcceptPart ==
  ASSUME NEW d, NEW c \in Commands, NEW p \in Seq(Octet), Len(p) = Lengths(c \union Id),
         NEW k \in 0 .. Len(Wire(c, p)) - 1
  PROVE  Accept(d, SubSeq(Wire(c, p), 1, k)) = d
<1> DEFINE h == c \union Id
           a == Body(c, p)
           s == Stuffed(Crc8(Seed, a))
           z == Wire(c, p)
           line == SubSeq(z, 1, k)
           m == Len(a)
           r == CrcSize(line)
           j == k - r
<1>1. a \in Seq(Octet) /\ m \in Nat /\ m >= 1 /\ m = Len(a) /\ Plain(a) = << h >> \o p
  <2>1. Quiet \subseteq Octet BY DEF Quiet
  <2>2. a \in Seq(Octet) BY <2>1, BodyRead, SeqMonotonic DEF BodyOK
  <2> QED BY <2>2, BodyRead, LenProperties DEF BodyOK
<1>2. s \in Seq(Octet) /\ (Len(s) = 1 \/ (Len(s) = 2 /\ s[1] = ESCAPE))
  BY CrcIsOctet, StuffedBytes, StuffedQuiet
<1>3. z = a \o s BY DEF Wire
<1>4. /\ \A n \in 1 .. m - 1 : \/ a[n] = ESCAPE /\ a[n + 1] # ESCAPE
                               \/ \E q \in Seq(Octet) : /\ Len(q) < Len(p)
                                                        /\ Plain(SubSeq(a, 1, n)) = << h >> \o q
  BY BodyCut
<1>5. h \in Octet BY Headed
<1>6. r = 1 \/ r = 2 BY DEF CrcSize
<1>7. k \in 0 .. Len(z) - 1 OBVIOUS
<1>8. Len(p) = Lengths(h) OBVIOUS
<1> HIDE DEF a, s, m, h, z, r
<1>9. z \in Seq(Octet) /\ Len(z) = m + Len(s)
  BY <1>1, <1>2, <1>3, ConcatProperties
<1>10. k \in Nat /\ k \in 0 .. Len(z) /\ (k <= m \/ (k = m + 1 /\ Len(s) = 2))
  <2>1. m \in Nat /\ (Len(z) = m + 1 \/ (Len(z) = m + 2 /\ Len(s) = 2))
    BY <1>1, <1>2, <1>9
  <2> QED BY <2>1, <1>7
<1>11. line \in Seq(Octet) /\ Len(line) = k BY <1>9, <1>10, Prefix
<1>12. Ahead(line) = SubSeq(line, 1, j) BY <1>11 DEF Ahead, r
<1>13. SUFFICES ASSUME Intact(line), Len(Tail(Plain(Ahead(line)))) = Lengths(Plain(Ahead(line))[1])
                PROVE  FALSE
  <2>1. Accept(d, line) = d \/ (Intact(line) /\ Len(Tail(Plain(Ahead(line)))) = Lengths(Plain(Ahead(line))[1]))
    BY AcceptAhead
  <2> QED BY <2>1 DEF z
<1>14. Ahead(line) # << >> /\ line[k] # ESCAPE
  <2> HIDE DEF line
  <2> QED BY <1>11, <1>13 DEF Intact, Ahead, Last
<1>15. j \in Int /\ j >= 1 /\ j < k
  <2>1. j \in Int /\ j < k BY <1>6, <1>10
  <2>2. j < 1 => SubSeq(line, 1, j) = << >> BY <2>1, SubSeqEmpty
  <2> QED BY <2>1, <2>2, <1>12, <1>14
<1>16. Ahead(line) = SubSeq(z, 1, j)
  <2>1. j \in 0 .. k BY <1>10, <1>15
  <2> QED BY <2>1, <1>9, <1>10, <1>12, PrefixOfPrefix
<1>17. j \in 0 .. m /\ j \in 0 .. Len(a) /\ j \in 1 .. j /\ (j \in 1 .. m - 1 \/ (j = m /\ k = m + 1))
  <2> HIDE DEF j
  <2> QED BY <1>1, <1>10, <1>15
<1>18. Ahead(line) = SubSeq(a, 1, j)
  BY <1>1, <1>2, <1>3, <1>16, <1>17, PrefixOfConcat
<1> HIDE DEF j
<1>19. ASSUME NEW i \in 1 .. k PROVE line[i] = z[i] /\ (i <= m => z[i] = a[i])
  <2>1. i \in 1 .. Len(a) + Len(s) /\ m = Len(a) BY <1>1, <1>9, <1>10
  <2> QED BY <1>1, <1>2, <1>3, <1>9, <1>10, <2>1, Prefix, ConcatProperties
<1>20. CASE j \in 1 .. m - 1
  <2>1. ~ (a[j] = ESCAPE /\ a[j + 1] # ESCAPE)
    <3>1. /\ j \in 1 .. k /\ j <= m /\ j + 1 \in 1 .. k /\ j + 1 <= m
      BY <1>1, <1>10, <1>15, <1>20
    <3>2. line[j] = a[j] /\ line[j + 1] = a[j + 1] BY <1>19, <3>1
    <3>3. k > 1 /\ k - 1 = IF r = 1 THEN j ELSE j + 1
      BY <1>6, <1>10, <1>15 DEF j
    <3>4. IF r = 1 THEN line[k - 1] # ESCAPE ELSE line[k - 1] = ESCAPE
      <4> HIDE DEF line
      <4> QED BY <1>6, <1>11, <3>3 DEF r, CrcSize
    <3> QED BY <3>2, <3>3, <3>4
  <2>2. PICK q \in Seq(Octet) : Len(q) < Len(p) /\ Plain(SubSeq(a, 1, j)) = << h >> \o q
    BY <1>4, <1>20, <2>1
  <2>3. Plain(Ahead(line)) = << h >> \o q BY <1>18, <2>2
  <2>4. Plain(Ahead(line))[1] = h /\ Tail(Plain(Ahead(line))) = q
    BY <1>5, <2>3, ConsProperties
  <2>5. Len(q) = Lengths(h) BY <1>13, <2>4
  <2> QED BY <2>2, <2>5, <1>8, LenProperties
<1>21. CASE j = m /\ k = m + 1
  <2>1. Len(s) = 2 /\ s[1] = ESCAPE
    <3>1. ~ (k <= m) BY <1>1, <1>21
    <3>2. Len(s) = 2 BY <1>10, <3>1
    <3> QED BY <1>2, <3>2
  <2>2. /\ m + 1 \in 1 .. k /\ m + 1 \in 1 .. Len(a) + Len(s) /\ ~(m + 1 <= Len(a))
        /\ (m + 1) - Len(a) = 1
    BY <1>1, <1>21, <2>1
  <2>3. line[m + 1] = z[m + 1] BY <1>19, <2>2
  <2>4. z[m + 1] = s[1] BY <1>1, <1>2, <1>3, <2>2, ConcatProperties
  <2> QED BY <1>14, <1>21, <2>1, <2>3, <2>4
<1> QED BY <1>17, <1>20, <1>21

-----------------------------------------------------------------------------
(***************************************************************************)
(* The display hears byte by byte.                                         *)
(***************************************************************************)

\* The function that Hear is defined with: the display after each byte.
Hearing(d, bytes) ==
  CHOOSE g : g = [i \in 0 .. Len(bytes) |->
                   IF i = 0 THEN d ELSE HearByte(g[i - 1], bytes[i])]

\* There is such a function.
LEMMA HearingExists ==
  ASSUME NEW S, NEW bytes \in Seq(S), NEW d
  PROVE  Hearing(d, bytes) = [i \in 0 .. Len(bytes) |->
           IF i = 0 THEN d ELSE HearByte(Hearing(d, bytes)[i - 1], bytes[i])]
<1> DEFINE F(g, n) == [i \in 0 .. n |-> IF i = 0 THEN d ELSE HearByte(g[i - 1], bytes[i])]
           N == { n \in Nat : \E g : g = F(g, n) }
<1>1. 0 \in N
  <2> DEFINE g == [i \in 0 .. 0 |-> d]
  <2>1. g = F(g, 0)
    <3>1. \A i \in 0 .. 0 : i = 0 OBVIOUS
    <3> QED BY <3>1
  <2> QED BY <2>1
<1>2. ASSUME NEW n \in Nat, n \in N PROVE n + 1 \in N
  <2>1. PICK g : g = F(g, n) BY <1>2
  <2> DEFINE h == [i \in 0 .. n + 1 |-> IF i = 0 THEN d ELSE HearByte(g[i - 1], bytes[i])]
  <2>2. ASSUME NEW i \in 0 .. n PROVE h[i] = g[i]
    <3>1. g[i] = IF i = 0 THEN d ELSE HearByte(g[i - 1], bytes[i]) BY <2>1
    <3>2. h[i] = IF i = 0 THEN d ELSE HearByte(g[i - 1], bytes[i]) OBVIOUS
    <3> QED BY <3>1, <3>2
  <2>3. ASSUME NEW i \in 0 .. n + 1, i # 0 PROVE h[i - 1] = g[i - 1]
    <3>1. i - 1 \in 0 .. n BY <2>3
    <3> QED BY <3>1, <2>2
  <2>4. h = F(h, n + 1)
    <3>1. \A i \in 0 .. n + 1 : h[i] = F(h, n + 1)[i]
      <4> HIDE DEF h
      <4>1. ASSUME NEW i \in 0 .. n + 1
            PROVE  F(h, n + 1)[i] = IF i = 0 THEN d ELSE HearByte(g[i - 1], bytes[i])
        BY <2>3
      <4> QED BY <4>1 DEF h
    <3> HIDE DEF F
    <3>2. DOMAIN h = 0 .. n + 1 /\ h = [i \in DOMAIN h |-> h[i]] OBVIOUS
    <3>3. DOMAIN F(h, n + 1) = 0 .. n + 1 /\
          F(h, n + 1) = [i \in 0 .. n + 1 |-> F(h, n + 1)[i]] BY DEF F
    <3> HIDE DEF h
    <3> QED BY <3>1, <3>2, <3>3
  <2> HIDE DEF F, h
  <2>5. \E k : k = F(k, n + 1) BY <2>4
  <2> QED BY <2>5
<1>3. Len(bytes) \in N
  <2> HIDE DEF N
  <2> QED BY <1>1, <1>2, SetInduction, LenProperties
<1>4. \E g : g = F(g, Len(bytes)) BY <1>3
<1>5. Hearing(d, bytes) = F(Hearing(d, bytes), Len(bytes))
  <2>1. Hearing(d, bytes) = CHOOSE g : g = F(g, Len(bytes)) BY DEF Hearing
  <2> HIDE DEF F
  <2> QED BY <1>4, <2>1
<1> QED BY <1>5

\* Hear goes byte by byte.
LEMMA HearFcn ==
  ASSUME NEW S, NEW bytes \in Seq(S), NEW d
  PROVE  /\ Hear(d, bytes) = Hearing(d, bytes)[Len(bytes)]
         /\ Hearing(d, bytes)[0] = d
         /\ \A i \in 1 .. Len(bytes) :
              Hearing(d, bytes)[i] = HearByte(Hearing(d, bytes)[i - 1], bytes[i])
<1> DEFINE heard == Hearing(d, bytes)
<1>1. Hear(d, bytes) = heard[Len(bytes)] BY DEF Hear, Hearing
<1>2. heard = [i \in 0 .. Len(bytes) |->
                IF i = 0 THEN d ELSE HearByte(heard[i - 1], bytes[i])]
  BY HearingExists
<1> HIDE DEF heard
<1>3. Len(bytes) \in Nat BY LenProperties
<1>4. heard[0] = d BY <1>2, <1>3
<1>5. ASSUME NEW i \in 1 .. Len(bytes) PROVE heard[i] = HearByte(heard[i - 1], bytes[i])
  <2>1. i \in 0 .. Len(bytes) /\ i # 0 BY <1>3
  <2>2. heard[i] = IF i = 0 THEN d ELSE HearByte(heard[i - 1], bytes[i])
    BY <1>2, <2>1
  <2> QED BY <2>1, <2>2
<1> QED BY <1>1, <1>4, <1>5 DEF heard

\* The display hears nothing.
LEMMA HearNothing == ASSUME NEW d PROVE Hear(d, << >>) = d
<1>1. << >> \in Seq(Octet) /\ Len(<< >>) = 0 OBVIOUS
<1>2. Hear(d, << >>) = Hearing(d, << >>)[Len(<< >>)] /\ Hearing(d, << >>)[0] = d
  BY <1>1, HearFcn
<1> QED BY <1>1, <1>2

\* The display hears one byte after the other.
LEMMA HearAppend ==
  ASSUME NEW S, NEW s \in Seq(S), NEW b \in S, NEW d
  PROVE  Hear(d, Append(s, b)) = HearByte(Hear(d, s), b)
<1> DEFINE all == Append(s, b)
           L == Len(s)
<1>1. /\ all \in Seq(S) /\ L \in Nat /\ Len(all) = L + 1
      /\ all[L + 1] = b /\ \A i \in 1 .. L : all[i] = s[i]
  BY AppendProperties, LenProperties
<1> HIDE DEF all, L
<1> DEFINE f == Hearing(d, all)
           g == Hearing(d, s)
<1>2. /\ Hear(d, all) = f[L + 1] /\ f[0] = d
      /\ \A i \in 1 .. L + 1 : f[i] = HearByte(f[i - 1], all[i])
  BY <1>1, HearFcn
<1>3. /\ Hear(d, s) = g[L] /\ g[0] = d
      /\ \A i \in 1 .. L : g[i] = HearByte(g[i - 1], s[i])
  BY HearFcn DEF L
<1> HIDE DEF f, g
<1> DEFINE N == { n \in Nat : n \in 0 .. L => f[n] = g[n] }
<1>4. 0 \in N BY <1>2, <1>3
<1>5. ASSUME NEW n \in Nat, n \in N PROVE n + 1 \in N
  <2>1. ASSUME n + 1 \in 0 .. L PROVE f[n + 1] = g[n + 1]
    <3>1. n + 1 \in 1 .. L /\ n + 1 \in 1 .. L + 1 /\ n \in 0 .. L BY <1>1, <2>1
    <3>2. f[n + 1] = HearByte(f[(n + 1) - 1], all[n + 1]) BY <1>2, <3>1
    <3>3. g[n + 1] = HearByte(g[(n + 1) - 1], s[n + 1]) BY <1>3, <3>1
    <3>4. (n + 1) - 1 = n OBVIOUS
    <3>5. all[n + 1] = s[n + 1] BY <1>1, <3>1
    <3>6. f[n] = g[n] BY <1>5, <3>1
    <3> QED BY <3>2, <3>3, <3>4, <3>5, <3>6
  <2> QED BY <2>1
<1>6. L \in N
  <2> HIDE DEF N
  <2> QED BY <1>1, <1>4, <1>5, SetInduction
<1>7. f[L] = g[L] BY <1>1, <1>6
<1>8. f[L + 1] = HearByte(f[L], b)
  <2>1. L + 1 \in 1 .. L + 1 BY <1>1
  <2>2. f[L + 1] = HearByte(f[(L + 1) - 1], all[L + 1]) BY <1>2, <2>1
  <2>3. (L + 1) - 1 = L BY <1>1
  <2> QED BY <1>1, <2>2, <2>3
<1> QED BY <1>2, <1>3, <1>7, <1>8 DEF all

\* What is heard in two parts is heard as one.
LEMMA HearConcat ==
  ASSUME NEW S, NEW s \in Seq(S), NEW d
  PROVE  \A t \in Seq(S) : Hear(d, s \o t) = Hear(Hear(d, s), t)
<1> DEFINE T == { t \in Seq(S) : Hear(d, s \o t) = Hear(Hear(d, s), t) }
<1>1. << >> \in T
  <2>1. s \o << >> = s /\ << >> \in Seq(S) BY ConcatEmptySeq
  <2> QED BY <2>1, HearNothing
<1>2. ASSUME NEW t \in Seq(S), NEW b \in S, t \in T PROVE Append(t, b) \in T
  <2>1. s \o Append(t, b) = Append(s \o t, b) /\ s \o t \in Seq(S) /\ Append(t, b) \in Seq(S)
    OBVIOUS
  <2>2. Hear(d, Append(s \o t, b)) = HearByte(Hear(d, s \o t), b)
    BY <2>1, HearAppend
  <2>3. Hear(Hear(d, s), Append(t, b)) = HearByte(Hear(Hear(d, s), t), b)
    BY HearAppend
  <2> QED BY <1>2, <2>1, <2>2, <2>3
<1>3. Seq(S) \subseteq T
  <2> HIDE DEF T
  <2> QED BY <1>1, <1>2, SequenceInduction
<1> QED BY <1>3

\* What a display may hold: bytes, and bitmaps of any kind.
Display == [line : Seq(Quiet), got : Seq(Octet), memory : Seq(Octet), shown : Seq(Octet)]

\* The display hears a single byte.
LEMMA HearOne == ASSUME NEW b \in Octet, NEW d PROVE Hear(d, << b >>) = HearByte(d, b)
<1>1. << >> \in Seq(Octet) /\ Append(<< >>, b) = << b >> OBVIOUS
<1> QED BY <1>1, HearAppend, HearNothing

\* Between separators bytes are collected.
LEMMA HearQuiet ==
  ASSUME NEW d \in Display, d.line = << >>
  PROVE  \A s \in Seq(Quiet) : Hear(d, s) = [d EXCEPT !.line = s]
<1> DEFINE T == { s \in Seq(Quiet) : Hear(d, s) = [d EXCEPT !.line = s] }
<1>1. << >> \in T
  <2>1. [d EXCEPT !.line = << >>] = d BY DEF Display
  <2>2. << >> \in Seq(Quiet) OBVIOUS
  <2> QED BY <2>1, <2>2, HearNothing
<1>2. ASSUME NEW s \in Seq(Quiet), NEW b \in Quiet, s \in T PROVE Append(s, b) \in T
  <2>1. Hear(d, Append(s, b)) = HearByte([d EXCEPT !.line = s], b)
    BY <1>2, HearAppend
  <2>2. b # FRAMING BY DEF Quiet
  <2>3. HearByte([d EXCEPT !.line = s], b) = [d EXCEPT !.line = Append(s, b)]
    <3>1. HearByte([d EXCEPT !.line = s], b) = [[d EXCEPT !.line = s] EXCEPT !.line = Append(@, b)]
      BY <2>2 DEF HearByte
    <3> QED BY <3>1 DEF Display
  <2> QED BY <2>1, <2>3
<1>3. Seq(Quiet) \subseteq T
  <2> HIDE DEF T
  <2> QED BY <1>1, <1>2, SequenceInduction
<1> QED BY <1>3

-----------------------------------------------------------------------------
(***************************************************************************)
(* What the daemon sends: the pictures of clients, and a dark one.         *)
(***************************************************************************)
\* The pictures that may be sent.
Drawn == Pictures \union {{}}

\* A picture as the display keeps it.
Shown(lit) == Bytes(Turned(lit))

\* The messages of the daemon.
Sends(c, p) ==
  \/ c = Status /\ p = << >>
  \/ c = LedSetup /\ p = Setup
  \/ c = LedOutset /\ p = Outset
  \/ c = LedOutdat /\ \E lit \in Drawn : p = Outdat(Turned(lit))
  \/ c = LedOutput /\ p = << >>

\* A bitmap as bytes, and the payload it is sent in.
LEMMA ShownType ==
  ASSUME NEW lit
  PROVE  /\ Shown(lit) \in Seq(Octet) /\ Len(Shown(lit)) = LengthSer
         /\ Outdat(Turned(lit)) = << Byte(255), Byte(LengthSer) >> \o Shown(lit)
<1>1. Shown(lit) \in [1 .. LengthSer -> Octet]
  <2>1. \A i \in 1 .. LengthSer : {b \in Bit : << i - 1, b >> \in Turned(lit)} \in Octet
    BY DEF Octet
  <2> QED BY <2>1 DEF Shown, Bytes
<1>2. LengthSer \in Nat BY Sizes
<1>3. Shown(lit) \in Seq(Octet) BY <1>1, <1>2, SeqDef
<1> QED BY <1>1, <1>2, <1>3, LenProperties DEF Outdat, Shown

\* The payloads that are the same in each message.
LEMMA FixedPayloads ==
  /\ Setup \in Seq(Octet) /\ Len(Setup) = 17
  /\ Outset \in Seq(Octet) /\ Len(Outset) = 8
<1>1. Setup \in [1 .. 17 -> Octet] /\ Outset \in [1 .. 8 -> Octet]
  BY ByteIsOctet DEF Setup, Outset
<1> HIDE DEF Octet
<1>2. 17 \in Nat /\ 8 \in Nat OBVIOUS
<1>3. ASSUME NEW n \in Nat, NEW f \in [1 .. n -> Octet] PROVE f \in Seq(Octet) /\ Len(f) = n
  BY SeqDef, LenProperties
<1> QED BY <1>1, <1>2, <1>3

\* Every message the daemon sends has the length the display expects of it.
LEMMA SendsType ==
  ASSUME NEW c, NEW p, Sends(c, p)
  PROVE  /\ c \in Commands /\ p \in Seq(Octet) /\ Len(p) = Lengths(c \union Id)
         /\ c = LedOutdat => \E lit \in Drawn : SubSeq(p, 3, Len(p)) = Shown(lit)
<1>1. /\ Status \in Commands /\ LedSetup \in Commands /\ LedOutset \in Commands
      /\ LedOutdat \in Commands /\ LedOutput \in Commands
  BY DEF Commands
<1>2. /\ Status # LedSetup /\ Status # LedOutset /\ Status # LedOutdat
      /\ LedOutput # LedSetup /\ LedOutput # LedOutset /\ LedOutput # LedOutdat
      /\ LedSetup # LedOutset /\ LedSetup # LedOutdat /\ LedOutset # LedOutdat
  BY CommandBits
<1>3. /\ Lengths(Status \union Id) = 0 /\ Lengths(LedSetup \union Id) = 17
      /\ Lengths(LedOutset \union Id) = 8 /\ Lengths(LedOutdat \union Id) = 2 + LengthSer
      /\ Lengths(LedOutput \union Id) = 0
  <2>1. \A e, f \in Commands : e \union Id = f \union Id <=> e = f BY Headed
  <2> QED BY <1>1, <1>2, <2>1 DEF Lengths
<1>4. << >> \in Seq(Octet) /\ Len(<< >>) = 0 OBVIOUS
<1>5. CASE c = Status /\ p = << >> BY <1>1, <1>2, <1>3, <1>4, <1>5
<1>6. CASE c = LedSetup /\ p = Setup BY <1>1, <1>2, <1>3, <1>6, FixedPayloads
<1>7. CASE c = LedOutset /\ p = Outset BY <1>1, <1>2, <1>3, <1>7, FixedPayloads
<1>8. CASE c = LedOutput /\ p = << >> BY <1>1, <1>2, <1>3, <1>4, <1>8
<1>9. ASSUME NEW lit \in Drawn, c = LedOutdat, p = Outdat(Turned(lit))
      PROVE  /\ c \in Commands /\ p \in Seq(Octet) /\ Len(p) = Lengths(c \union Id)
             /\ \E l \in Drawn : SubSeq(p, 3, Len(p)) = Shown(l)
  <2>1. Byte(255) \in Octet /\ Byte(LengthSer) \in Octet BY ByteIsOctet
  <2>2. /\ Shown(lit) \in Seq(Octet) /\ Len(Shown(lit)) = LengthSer
        /\ p = << Byte(255), Byte(LengthSer) >> \o Shown(lit)
    BY <1>9, ShownType
  <2>3. p \in Seq(Octet) /\ Len(p) = 2 + LengthSer /\ SubSeq(p, 3, Len(p)) = Shown(lit)
    BY <2>1, <2>2, PairInFront
  <2> QED BY <1>1, <1>3, <1>9, <2>3
<1> QED BY <1>5, <1>6, <1>7, <1>8, <1>9 DEF Sends

-----------------------------------------------------------------------------
(***************************************************************************)
(* The inductive invariant.  What the display has got since the last       *)
(* separator is the front of a message, and its bitmaps are pictures.      *)
(***************************************************************************)
\* The front of a message, perhaps all of it.
Broken(line) ==
  \E c, p : Sends(c, p) /\ \E k \in 0 .. Len(Wire(c, p)) : line = SubSeq(Wire(c, p), 1, k)

\* Bitmaps of pictures that may be sent.
Pictured == {Shown(lit) : lit \in Drawn}

\* A display that has heard fronts of messages only.
DisplayOK(d) ==
  d \in Display /\ Broken(d.line) /\ d.memory \in Pictured /\ d.shown \in Pictured

\* A message of the daemon leaves a display with pictures.
LEMMA ReceivedOK ==
  ASSUME NEW d, DisplayOK(d), NEW c, NEW p, Sends(c, p)
  PROVE  DisplayOK(Received(d, c, p)) /\ Received(d, c, p).line = d.line
<1>1. c \in Commands /\ p \in Seq(Octet) BY SendsType
<1>2. c = LedOutdat => SubSeq(p, 3, Len(p)) \in Pictured
  BY SendsType DEF Pictured
<1>3. Pictured \subseteq Seq(Octet) BY ShownType DEF Pictured
<1>4. << c \union Id >> \o p \in Seq(Octet)
  <2>1. << c \union Id >> \in Seq(Octet) BY <1>1, Headed
  <2> QED BY <1>1, <2>1, ConcatProperties
<1> DEFINE r == Received(d, c, p)
<1>5. d \in Display /\ d.memory \in Pictured /\ d.shown \in Pictured /\ Broken(d.line)
  BY DEF DisplayOK
<1>6. /\ r = [line |-> d.line, got |-> << c \union Id >> \o p,
              memory |-> IF c = LedOutdat THEN SubSeq(p, 3, Len(p)) ELSE d.memory,
              shown |-> IF c = LedOutput THEN d.memory ELSE d.shown]
  <2>1. ASSUME NEW g, NEW m, NEW s
        PROVE  [d EXCEPT !.got = g, !.memory = m, !.shown = s]
                 = [line |-> d.line, got |-> g, memory |-> m, shown |-> s]
    <3>1. [d EXCEPT !.got = g]
            = [line |-> d.line, got |-> g, memory |-> d.memory, shown |-> d.shown]
      BY <1>5 DEF Display
    <3> DEFINE e == [d EXCEPT !.got = g]
               f == [e EXCEPT !.memory = m]
    <3>2. f = [line |-> d.line, got |-> g, memory |-> m, shown |-> d.shown]
      <4> HIDE DEF e
      <4>1. e = [line |-> d.line, got |-> g, memory |-> d.memory, shown |-> d.shown]
        BY <3>1 DEF e
      <4>2. DOMAIN e = {"line", "got", "memory", "shown"} BY <4>1
      <4> QED BY <4>1, <4>2
    <3>3. [f EXCEPT !.shown = s] = [line |-> d.line, got |-> g, memory |-> m, shown |-> s]
      <4> HIDE DEF f
      <4> QED BY <3>2
    <3> QED BY <3>3
  <2> QED BY <2>1 DEF Received
<1> HIDE DEF r
<1>7. r.line = d.line /\ r.memory \in Pictured /\ r.shown \in Pictured
  BY <1>2, <1>5, <1>6
<1>8. r \in Display
  <2>1. r.line \in Seq(Quiet) /\ r.got \in Seq(Octet) /\ r.memory \in Seq(Octet)
        /\ r.shown \in Seq(Octet)
    BY <1>3, <1>4, <1>5, <1>6, <1>7 DEF Display
  <2> QED BY <1>6, <2>1 DEF Display
<1> QED BY <1>5, <1>7, <1>8 DEF DisplayOK, r

\* An empty line is the front of a message.
LEMMA NoneSent == Broken(<< >>)
<1>1. Sends(Status, << >>) BY DEF Sends
<1>2. Wire(Status, << >>) \in Seq(Quiet) BY <1>1, SendsType, WireRead
<1>3. 0 \in 0 .. Len(Wire(Status, << >>)) BY <1>2, LenProperties
<1>4. SubSeq(Wire(Status, << >>), 1, 0) = << >> BY SubSeqEmpty
<1> QED BY <1>1, <1>3, <1>4 DEF Broken

\* A separator ends what was broken off, with or without a message.
LEMMA Separated ==
  ASSUME NEW d, DisplayOK(d)
  PROVE  /\ DisplayOK(HearByte(d, FRAMING)) /\ HearByte(d, FRAMING).line = << >>
         /\ d.line = << >> => HearByte(d, FRAMING) = d
<1> DEFINE e == Accept(d, d.line)
           f == HearByte(d, FRAMING)
<1>1. f = [e EXCEPT !.line = << >>] BY DEF HearByte
<1>2. PICK c, p : Sends(c, p) /\ \E k \in 0 .. Len(Wire(c, p)) : d.line = SubSeq(Wire(c, p), 1, k)
  BY DEF DisplayOK, Broken
<1>3. c \in Commands /\ p \in Seq(Octet) /\ Len(p) = Lengths(c \union Id)
  BY <1>2, SendsType
<1>4. Wire(c, p) \in Seq(Quiet) /\ Len(Wire(c, p)) \in Nat
  BY <1>3, WireRead, LenProperties
<1>5. PICK k \in 0 .. Len(Wire(c, p)) : d.line = SubSeq(Wire(c, p), 1, k)
  BY <1>2
<1>6. e = d \/ e = Received(d, c, p)
  <2>1. CASE k = Len(Wire(c, p))
    <3>1. d.line = Wire(c, p) BY <1>4, <1>5, <2>1, SubSeqFull
    <3> QED BY <1>3, <3>1, AcceptWhole
  <2>2. CASE k # Len(Wire(c, p))
    <3>1. k \in 0 .. Len(Wire(c, p)) - 1 BY <1>4, <2>2
    <3>2. Accept(d, SubSeq(Wire(c, p), 1, k)) = d BY <1>3, <3>1, AcceptPart
    <3> QED BY <1>5, <3>2
  <2> QED BY <2>1, <2>2
<1>7. DisplayOK(e) BY <1>2, <1>6, ReceivedOK
<1> HIDE DEF e, f
<1>8. /\ e \in Display /\ f = [line |-> << >>, got |-> e.got, memory |-> e.memory, shown |-> e.shown]
  BY <1>1, <1>7 DEF DisplayOK, Display
<1>9. DisplayOK(f)
  <2>1. << >> \in Seq(Quiet) OBVIOUS
  <2>2. f \in Display BY <1>8, <2>1 DEF Display
  <2>3. f.line = << >> /\ f.memory = e.memory /\ f.shown = e.shown BY <1>8
  <2> QED BY <1>7, <2>2, <2>3, NoneSent DEF DisplayOK
<1>10. ASSUME d.line = << >> PROVE f = d
  <2>1. d.line = SubSeq(Wire(Status, << >>), 1, 0) BY <1>10, SubSeqEmpty
  <2>2. Sends(Status, << >>) BY DEF Sends
  <2>3. /\ Status \in Commands /\ << >> \in Seq(Octet)
        /\ Len(<< >>) = Lengths(Status \union Id)
    BY <2>2, SendsType
  <2>4. Len(Wire(Status, << >>)) > 0 /\ Len(Wire(Status, << >>)) \in Nat
    <3> DEFINE a == Body(Status, << >>)
               s == Stuffed(Crc8(Seed, a))
    <3>1. a \in Seq(Quiet) /\ Len(a) >= 1 BY <2>3, BodyRead DEF BodyOK
    <3>2. s \in Seq(Quiet) BY CrcIsOctet, StuffedQuiet
    <3>3. Wire(Status, << >>) = a \o s BY DEF Wire
    <3> HIDE DEF a, s
    <3>4. Len(a \o s) = Len(a) + Len(s) BY <3>1, <3>2, ConcatProperties
    <3>5. Len(a) \in Nat /\ Len(s) \in Nat BY <3>1, <3>2, LenProperties
    <3> QED BY <3>1, <3>3, <3>4, <3>5
  <2>5. 0 \in 0 .. Len(Wire(Status, << >>)) - 1 BY <2>4
  <2>6. Accept(d, SubSeq(Wire(Status, << >>), 1, 0)) = d BY <2>3, <2>5, AcceptPart
  <2>7. e = d BY <2>1, <2>6 DEF e
  <2> QED BY <1>8, <1>10, <2>7 DEF Display
<1> QED BY <1>8, <1>9, <1>10 DEF f

-----------------------------------------------------------------------------
(***************************************************************************)
(* Transmissions that may break off anywhere.                              *)
(***************************************************************************)

\* Both separators around what WireRead and BodyCut are about.
LEMMA MessageIs ==
  ASSUME NEW c \in Commands, NEW p \in Seq(Octet)
  PROVE  /\ Message(c, p) = (<< FRAMING >> \o Wire(c, p)) \o << FRAMING >>
         /\ << FRAMING >> \o Wire(c, p) \in Seq(Octet)
         /\ Len(<< FRAMING >> \o Wire(c, p)) = 1 + Len(Wire(c, p))
         /\ Message(c, p) \in Seq(Octet)
         /\ Len(Message(c, p)) = 2 + Len(Wire(c, p))
<1>1. Quiet \subseteq Octet BY DEF Quiet
<1>2. Body(c, p) \in Seq(Octet) BY <1>1, BodyRead, SeqMonotonic DEF BodyOK
<1>3. Stuffed(Crc8(Seed, Body(c, p))) \in Seq(Octet) BY CrcIsOctet, StuffedBytes
<1>4. << FRAMING >> \in Seq(Octet) /\ Len(<< FRAMING >>) = 1 BY ReservedOctets
<1> DEFINE f == << FRAMING >>
           a == Body(c, p)
           s == Stuffed(Crc8(Seed, Body(c, p)))
<1>5. Message(c, p) = ((f \o a) \o s) \o f BY DEF Message
<1>6. Wire(c, p) = a \o s BY DEF Wire
<1> HIDE DEF f, a, s
<1>7. f \in Seq(Octet) /\ Len(f) = 1 /\ a \in Seq(Octet) /\ s \in Seq(Octet)
  BY <1>2, <1>3, <1>4 DEF f, a, s
<1>8. (f \o a) \o s = f \o (a \o s) BY <1>7, ConcatAssociative
<1>9. a \o s \in Seq(Octet) BY <1>7, ConcatProperties
<1> DEFINE w == a \o s
<1> HIDE DEF w
<1>10. f \o w \in Seq(Octet) /\ Len(f \o w) = 1 + Len(w) /\ Len(w) \in Nat
  <2>1. w \in Seq(Octet) BY <1>9 DEF w
  <2>2. f \o w \in Seq(Octet) /\ Len(f \o w) = Len(f) + Len(w)
    BY <1>7, <2>1, ConcatProperties
  <2> QED BY <1>7, <2>1, <2>2, LenProperties
<1>11. (f \o w) \o f \in Seq(Octet) /\ Len((f \o w) \o f) = 2 + Len(w)
  <2> DEFINE fw == f \o w
  <2>1. fw \in Seq(Octet) /\ Len(fw) = 1 + Len(w) BY <1>10
  <2> HIDE DEF fw
  <2>2. fw \o f \in Seq(Octet) /\ Len(fw \o f) = Len(fw) + Len(f)
    BY <1>7, <2>1, ConcatProperties
  <2>3. Len(fw) + Len(f) = 2 + Len(w) BY <1>7, <1>10, <2>1
  <2> QED BY <2>2, <2>3 DEF fw
<1> QED BY <1>5, <1>6, <1>8, <1>10, <1>11 DEF w, f

\* What the display has heard after any part of a message.
LEMMA MessageHeard ==
  ASSUME NEW d, DisplayOK(d), NEW c, NEW p, Sends(c, p),
         NEW n \in 0 .. Len(Message(c, p))
  PROVE  /\ DisplayOK(Hear(d, SubSeq(Message(c, p), 1, n)))
         /\ n = Len(Message(c, p)) =>
              Hear(d, SubSeq(Message(c, p), 1, n)) = Received(HearByte(d, FRAMING), c, p)
<1> DEFINE m == Message(c, p)
           w == Wire(c, p)
           f == << FRAMING >>
           e == HearByte(d, FRAMING)
<1>1. c \in Commands /\ p \in Seq(Octet) /\ Len(p) = Lengths(c \union Id)
  BY SendsType
<1>2. /\ m = (f \o w) \o f /\ f \o w \in Seq(Octet) /\ Len(f \o w) = 1 + Len(w)
      /\ m \in Seq(Octet) /\ Len(m) = 2 + Len(w)
  BY <1>1, MessageIs
<1>3. w \in Seq(Quiet) /\ w \in Seq(Octet) /\ Len(w) \in Nat
  <2>1. Quiet \subseteq Octet BY DEF Quiet
  <2> QED BY <1>1, <2>1, WireRead, SeqMonotonic, LenProperties
<1>4. FRAMING \in Octet /\ f \in Seq(Octet) /\ Len(f) = 1 BY ReservedOctets
<1>5. DisplayOK(e) /\ e.line = << >> /\ e \in Display BY Separated DEF DisplayOK
<1>6. n \in 0 .. Len(m) OBVIOUS
<1> HIDE DEF m, w, e
<1>7. ASSUME NEW k \in 0 .. Len(w)
      PROVE  /\ Hear(d, f \o SubSeq(w, 1, k)) = [e EXCEPT !.line = SubSeq(w, 1, k)]
             /\ DisplayOK([e EXCEPT !.line = SubSeq(w, 1, k)])
  <2> DEFINE s == SubSeq(w, 1, k)
             x == [e EXCEPT !.line = s]
  <2>1. s \in Seq(Quiet) /\ s \in Seq(Octet) BY <1>3, Prefix
  <2>2. Broken(s)
    <3>1. k \in 0 .. Len(Wire(c, p)) /\ s = SubSeq(Wire(c, p), 1, k) BY DEF w
    <3> QED BY <3>1 DEF Broken
  <2> HIDE DEF s
  <2>3. Hear(d, f \o s) = Hear(Hear(d, f), s)
    <3> HIDE DEF f
    <3> QED BY <1>4, <2>1, HearConcat
  <2>4. Hear(d, f) = e BY <1>4, HearOne DEF e
  <2>5. Hear(e, s) = x BY <1>5, <2>1, HearQuiet
  <2>6. x = [line |-> s, got |-> e.got, memory |-> e.memory, shown |-> e.shown]
    BY <1>5 DEF Display
  <2> HIDE DEF x
  <2>7. x \in Display BY <1>5, <2>1, <2>6 DEF Display
  <2>8. DisplayOK(x)
    <3>1. x.line = s /\ x.memory = e.memory /\ x.shown = e.shown BY <2>6
    <3> QED BY <1>5, <2>2, <2>7, <3>1 DEF DisplayOK
  <2> QED BY <2>3, <2>4, <2>5, <2>8 DEF s, x
<1>8. CASE n = 0
  <2>1. SubSeq(m, 1, 0) = << >> BY SubSeqEmpty
  <2>2. Hear(d, << >>) = d BY HearNothing
  <2>3. n # Len(m) BY <1>2, <1>3, <1>8
  <2> QED BY <1>8, <2>1, <2>2, <2>3 DEF m
<1>9. CASE n \in 1 .. 1 + Len(w)
  <2> DEFINE k == n - 1
  <2>1. k \in 0 .. Len(w) /\ n = k + 1 /\ n \in 0 .. Len(f \o w) /\ n # Len(m)
    BY <1>2, <1>3, <1>9
  <2> HIDE DEF k
  <2>2. SubSeq(m, 1, n) = SubSeq(f \o w, 1, n)
    <3> DEFINE fw == f \o w
    <3>1. fw \in Seq(Octet) /\ n \in 0 .. Len(fw) /\ m = fw \o f BY <1>2, <2>1
    <3> HIDE DEF fw, f
    <3>2. SubSeq(m, 1, n) = SubSeq(fw, 1, n) BY <1>4, <3>1, PrefixOfConcat
    <3> QED BY <3>2 DEF fw
  <2>3. SubSeq(f \o w, 1, k + 1) = f \o SubSeq(w, 1, k)
    BY <1>3, <1>4, <2>1, ConsPrefix
  <2>4. SubSeq(m, 1, n) = f \o SubSeq(w, 1, k) BY <2>1, <2>2, <2>3
  <2>5. DisplayOK(Hear(d, f \o SubSeq(w, 1, k))) BY <1>7, <2>1
  <2> HIDE DEF f
  <2> QED BY <2>1, <2>4, <2>5 DEF m
<1>10. CASE n = Len(m)
  <2> DEFINE x == [e EXCEPT !.line = w]
             y == Accept(x, w)
             z == Received(e, c, p)
  <2>1. Hear(d, f \o w) = x /\ DisplayOK(x)
    <3>1. Len(w) \in 0 .. Len(w) /\ SubSeq(w, 1, Len(w)) = w BY <1>3, SubSeqFull
    <3> HIDE DEF f
    <3> QED BY <1>7, <3>1
  <2>2. SubSeq(m, 1, n) = (f \o w) \o f BY <1>2, <1>10, SubSeqFull
  <2>3. Hear(d, (f \o w) \o f) = HearByte(x, FRAMING)
    <3>1. Hear(d, (f \o w) \o f) = Hear(Hear(d, f \o w), f)
      <4> DEFINE fw == f \o w
      <4>1. fw \in Seq(Octet) BY <1>2
      <4> HIDE DEF fw, f
      <4>2. Hear(d, fw \o f) = Hear(Hear(d, fw), f) BY <1>4, <4>1, HearConcat
      <4> QED BY <4>2 DEF fw
    <3> HIDE DEF x
    <3>2. Hear(x, f) = HearByte(x, FRAMING) BY <1>4, HearOne
    <3> QED BY <2>1, <3>1, <3>2
  <2>4. x = [line |-> w, got |-> e.got, memory |-> e.memory, shown |-> e.shown]
    BY <1>5 DEF Display
  <2>5. x.line = w BY <2>4
  <2> HIDE DEF x
  <2>6. y = Received(x, c, p) BY <1>1, AcceptWhole DEF w
  <2>7. HearByte(x, FRAMING) = [y EXCEPT !.line = << >>] BY <2>5 DEF HearByte
  <2>8. DisplayOK(y) /\ DisplayOK(z) BY <1>5, <2>1, <2>6, ReceivedOK
  <2>9. /\ y.got = z.got /\ y.memory = z.memory /\ y.shown = z.shown /\ z.line = << >>
    <3> DEFINE g == << c \union Id >> \o p
               q == SubSeq(p, 3, Len(p))
    <3> HIDE DEF g, q
    <3>1. x.got = e.got /\ x.memory = e.memory /\ x.shown = e.shown BY <2>4
    <3>2. /\ y = [x EXCEPT !.got = g, !.memory = IF c = LedOutdat THEN q ELSE @,
                           !.shown = IF c = LedOutput THEN x.memory ELSE @]
          /\ z = [e EXCEPT !.got = g, !.memory = IF c = LedOutdat THEN q ELSE @,
                           !.shown = IF c = LedOutput THEN e.memory ELSE @]
      BY <2>6 DEF Received, g, q
    <3>3. x \in Display /\ e \in Display BY <1>5, <2>1 DEF DisplayOK
    <3> HIDE DEF y, z
    <3>4. y.got = g /\ z.got = g BY <3>2, <3>3 DEF Display
    <3>5. y.memory = z.memory BY <3>1, <3>2, <3>3 DEF Display
    <3>6. y.shown = z.shown BY <3>1, <3>2, <3>3 DEF Display
    <3>7. z.line = << >> BY <3>2, <3>3, <1>5 DEF Display
    <3> QED BY <3>4, <3>5, <3>6, <3>7
  <2> HIDE DEF y, z
  <2>10. [y EXCEPT !.line = << >>] = z
    <3>1. y \in Display /\ z \in Display BY <2>8 DEF DisplayOK
    <3>2. [y EXCEPT !.line = << >>]
            = [line |-> << >>, got |-> y.got, memory |-> y.memory, shown |-> y.shown]
      <4>1. ASSUME NEW u \in Display, NEW l
            PROVE  [u EXCEPT !.line = l]
                     = [line |-> l, got |-> u.got, memory |-> u.memory, shown |-> u.shown]
        BY DEF Display
      <4> QED BY <3>1, <4>1
    <3>3. z = [line |-> z.line, got |-> z.got, memory |-> z.memory, shown |-> z.shown]
      BY <3>1 DEF Display
    <3> QED BY <2>9, <3>2, <3>3
  <2> HIDE DEF f
  <2>11. Hear(d, SubSeq(m, 1, n)) = z BY <2>2, <2>3, <2>7, <2>10
  <2> QED BY <2>8, <2>11 DEF z, e, m
<1>11. n = 0 \/ n \in 1 .. 1 + Len(w) \/ n = Len(m) BY <1>2, <1>3, <1>6
<1> QED BY <1>8, <1>9, <1>10, <1>11

\* The inductive invariant.
IInv ==
  /\ DisplayOK(display)
  /\ canvas \in Drawn
  /\ WholeReceived
  /\ pc = "output" /\ whole => display.memory = Shown(canvas) /\ display.line = << >>
  /\ pc = "last output" /\ whole => display.memory = Shown({}) /\ display.line = << >>
  /\ pc = "advance" /\ whole => display.shown = Shown(canvas)
  /\ pc = "end" /\ whole => display.shown = Shown({})

\* What a transmission leaves at the display.
LEMMA XmitHeard ==
  ASSUME DisplayOK(display), NEW c, NEW p, Sends(c, p), Xmit(c, p)
  PROVE  /\ DisplayOK(display') /\ WholeReceived'
         /\ sent' # << >> =>
              /\ display'.line = << >>
              /\ c = LedOutdat => display'.memory = SubSeq(p, 3, Len(p))
              /\ c = LedOutput => display'.shown = display'.memory
              /\ display.line = << >> /\ c # LedOutdat => display'.memory = display.memory
<1> DEFINE d == [display EXCEPT !.got = << >>]
           m == Message(c, p)
           e == HearByte(d, FRAMING)
           r == Received(e, c, p)
<1>1. c \in Commands /\ p \in Seq(Octet) /\ LedOutput # LedOutdat
  BY SendsType, CommandBits
<1>2. DisplayOK(d) /\ d.line = display.line /\ d.memory = display.memory
  <2>1. d = [line |-> display.line, got |-> << >>, memory |-> display.memory,
             shown |-> display.shown]
    BY DEF DisplayOK, Display
  <2>2. << >> \in Seq(Octet) OBVIOUS
  <2> HIDE DEF d
  <2>3. d \in Display BY <2>1, <2>2 DEF DisplayOK, Display
  <2>4. /\ d.line = display.line /\ d.memory = display.memory /\ d.shown = display.shown
    BY <2>1
  <2> QED BY <2>3, <2>4 DEF DisplayOK
<1>3. PICK n \in 0 .. Len(m), ok \in BOOLEAN :
        /\ ok => n = Len(m)
        /\ display' = Hear(d, SubSeq(m, 1, n))
        /\ sent' = IF ok THEN << c \union Id >> \o p ELSE << >>
  BY DEF Xmit
<1> HIDE DEF d
<1>4. DisplayOK(display') /\ (n = Len(m) => display' = r)
  BY <1>2, <1>3, MessageHeard
<1>5. DisplayOK(e) /\ e.line = << >> /\ (d.line = << >> => e = d)
  BY <1>2, Separated
<1> HIDE DEF m, e
<1>6. /\ r.line = << >> /\ r.got = << c \union Id >> \o p
      /\ c = LedOutdat => r.memory = SubSeq(p, 3, Len(p))
      /\ c # LedOutdat => r.memory = e.memory
      /\ c = LedOutput => r.shown = e.memory
  <2>1. e \in Display BY <1>5 DEF DisplayOK
  <2> DEFINE g == << c \union Id >> \o p
             q == SubSeq(p, 3, Len(p))
  <2> HIDE DEF g, q
  <2>2. r = [e EXCEPT !.got = g, !.memory = IF c = LedOutdat THEN q ELSE @,
                      !.shown = IF c = LedOutput THEN e.memory ELSE @]
    BY DEF Received, g, q
  <2> HIDE DEF r
  <2>3. r.line = e.line BY <2>1, <2>2 DEF Display
  <2>4. r.got = g BY <2>1, <2>2 DEF Display
  <2>5. r.memory = IF c = LedOutdat THEN q ELSE e.memory
    BY <2>1, <2>2 DEF Display
  <2>6. c = LedOutput => r.shown = e.memory BY <2>1, <2>2 DEF Display
  <2> QED BY <1>5, <2>3, <2>4, <2>5, <2>6 DEF g, q
<1> HIDE DEF r
<1>7. sent' # << >> => ok /\ sent' = << c \union Id >> \o p /\ display' = r
  BY <1>3, <1>4
<1>8. WholeReceived' BY <1>6, <1>7 DEF WholeReceived
<1>9. sent' # << >> /\ c = LedOutput => display'.shown = display'.memory
  BY <1>1, <1>6, <1>7
<1>10. sent' # << >> /\ display.line = << >> /\ c # LedOutdat => display'.memory = display.memory
  BY <1>2, <1>5, <1>6, <1>7
<1> QED BY <1>4, <1>6, <1>7, <1>8, <1>9, <1>10

\* A dark display shows the picture without pixels.
LEMMA DarkIs == Dark = Shown({}) /\ Turned({}) = {}
<1>1. Turned({}) = {} BY DEF Turned
<1>2. \A i \in 1 .. LengthSer : {b \in Bit : << i - 1, b >> \in {}} = {} OBVIOUS
<1> QED BY <1>1, <1>2 DEF Dark, Shown, Bytes

\* The inductive invariant holds at first.
LEMMA InitInv == Init => IInv
<1> SUFFICES ASSUME Init PROVE IInv OBVIOUS
<1>1. display = [line |-> << >>, got |-> << >>, memory |-> Dark, shown |-> Dark]
  BY DEF Init
<1>2. Dark \in Seq(Octet) BY DarkIs, ShownType
<1>3. << >> \in Seq(Octet) /\ << >> \in Seq(Quiet) OBVIOUS
<1>4. display \in Display BY <1>1, <1>2, <1>3 DEF Display
<1>5. Dark \in Pictured BY DarkIs DEF Pictured, Drawn
<1>6. DisplayOK(display) BY <1>1, <1>4, <1>5, NoneSent DEF DisplayOK
<1> QED BY <1>6 DEF Init, IInv, WholeReceived, Drawn

\* Steps that send nothing, and do not begin to show another picture.
LEMMA SilentInv ==
  ASSUME IInv, canvas' \in Drawn, UNCHANGED << display, sent >>,
         \/ UNCHANGED << pc, canvas, whole >>
         \/ pc' \notin {"output", "last output", "advance", "end"}
  PROVE  IInv'
<1>1. DisplayOK(display') /\ display' = display /\ WholeReceived'
  BY DEF IInv, WholeReceived
<1>2. CASE UNCHANGED << pc, canvas, whole >> BY <1>1, <1>2 DEF IInv
<1>3. CASE pc' \notin {"output", "last output", "advance", "end"}
  BY <1>1, <1>3 DEF IInv
<1> QED BY <1>2, <1>3

\* A message outside of a frame preserves the inductive invariant.
LEMMA SendInv ==
  ASSUME IInv, canvas' \in Drawn, NEW c, NEW p, Sends(c, p), Xmit(c, p),
         pc' \notin {"output", "last output", "advance", "end"}
  PROVE  IInv'
<1>1. DisplayOK(display') /\ WholeReceived' BY XmitHeard DEF IInv
<1> QED BY <1>1 DEF IInv

\* What the transmission of a bitmap leaves at the display.
LEMMA OutdatHeard ==
  ASSUME DisplayOK(display), NEW lit \in Drawn, Xmit(LedOutdat, Outdat(Turned(lit)))
  PROVE  /\ DisplayOK(display') /\ WholeReceived'
         /\ sent' # << >> => display'.line = << >> /\ display'.memory = Shown(lit)
<1> DEFINE p == Outdat(Turned(lit))
<1>1. Sends(LedOutdat, p) BY DEF Sends
<1>2. SubSeq(p, 3, Len(p)) = Shown(lit)
  <2>1. Byte(255) \in Octet /\ Byte(LengthSer) \in Octet BY ByteIsOctet
  <2>2. Shown(lit) \in Seq(Octet) /\ p = << Byte(255), Byte(LengthSer) >> \o Shown(lit)
    BY ShownType
  <2> HIDE DEF p
  <2> QED BY <2>1, <2>2, PairInFront
<1> HIDE DEF p
<1>3. Xmit(LedOutdat, p) BY DEF p
<1> QED BY <1>1, <1>2, <1>3, XmitHeard

\* Each step preserves the inductive invariant.
LEMMA StepInv == IInv /\ [Next]_vars => IInv'
<1> SUFFICES ASSUME IInv, [Next]_vars PROVE IInv' OBVIOUS
<1>0. DisplayOK(display) /\ canvas \in Drawn BY DEF IInv
<1>1. CASE SendStatus
  <2>1. Sends(Status, << >>) BY DEF Sends
  <2> QED BY <1>1, <2>1, <1>0, SendInv DEF SendStatus
<1>2. CASE SendSetup
  <2>1. Sends(LedSetup, Setup) BY DEF Sends
  <2> QED BY <1>2, <2>1, <1>0, SendInv DEF SendSetup
<1>3. CASE Test
  BY <1>3, <1>0, SilentInv DEF Test
<1>4. CASE Drain
  BY <1>4, SilentInv DEF Drain, Drawn
<1>5. CASE SendOutset
  <2>1. Sends(LedOutset, Outset) BY DEF Sends
  <2> QED BY <1>5, <2>1, <1>0, SendInv DEF SendOutset
<1>6. CASE SendOutdat
  <2>1. Xmit(LedOutdat, Outdat(Turned(canvas))) BY <1>6 DEF SendOutdat
  <2>2. /\ DisplayOK(display') /\ WholeReceived'
        /\ sent' # << >> => display'.line = << >> /\ display'.memory = Shown(canvas)
    BY <1>0, <2>1, OutdatHeard
  <2>3. pc' = "output" /\ canvas' = canvas /\ (whole' => sent' # << >>)
    BY <1>6 DEF SendOutdat
  <2> QED BY <1>0, <2>2, <2>3 DEF IInv
<1>7. CASE SendLastOutdat
  <2>1. Xmit(LedOutdat, Outdat(Turned({}))) BY <1>7, DarkIs DEF SendLastOutdat
  <2>2. {} \in Drawn BY DEF Drawn
  <2>3. /\ DisplayOK(display') /\ WholeReceived'
        /\ sent' # << >> => display'.line = << >> /\ display'.memory = Shown({})
    BY <1>0, <2>1, <2>2, OutdatHeard
  <2>4. pc' = "last output" /\ canvas' = canvas /\ (whole' => sent' # << >>)
    BY <1>7 DEF SendLastOutdat
  <2> QED BY <1>0, <2>3, <2>4 DEF IInv
<1>8. CASE SendOutput
  <2>1. Sends(LedOutput, << >>) /\ LedOutput # LedOutdat
    BY CommandBits DEF Sends
  <2>2. Xmit(LedOutput, << >>) BY <1>8 DEF SendOutput
  <2>3. /\ DisplayOK(display') /\ WholeReceived'
        /\ sent' # << >> =>
             /\ display'.shown = display'.memory
             /\ display.line = << >> => display'.memory = display.memory
    BY <1>0, <2>1, <2>2, XmitHeard
  <2>4. /\ canvas' = canvas /\ (whole' => whole /\ sent' # << >>)
        /\ \/ pc = "output" /\ pc' = "advance"
           \/ pc = "last output" /\ pc' = "end"
    BY <1>8 DEF SendOutput
  <2>5. CASE pc = "output" /\ pc' = "advance"
    <3>1. whole' => display'.shown = Shown(canvas') BY <2>3, <2>4, <2>5 DEF IInv
    <3> QED BY <1>0, <2>3, <2>4, <2>5, <3>1 DEF IInv
  <2>6. CASE pc = "last output" /\ pc' = "end"
    <3>1. whole' => display'.shown = Shown({}) BY <2>3, <2>4, <2>6 DEF IInv
    <3> QED BY <1>0, <2>3, <2>4, <2>6, <3>1 DEF IInv
  <2> QED BY <2>4, <2>5, <2>6
<1>9. CASE Advance
  BY <1>9, <1>0, SilentInv DEF Advance
<1>10. CASE Serve
  BY <1>10, <1>0, SilentInv DEF Serve
<1>11. CASE Sig
  BY <1>11, <1>0, SilentInv DEF Sig
<1>12. CASE Reconnect
  BY <1>12, <1>0, SilentInv DEF Reconnect
<1>13. CASE Restart
  BY <1>13, SilentInv DEF Restart, Drawn
<1>14. CASE UNCHANGED vars
  BY <1>14, <1>0, SilentInv DEF vars
<1> QED BY <1>1, <1>2, <1>3, <1>4, <1>5, <1>6, <1>7, <1>8, <1>9, <1>10, <1>11,
           <1>12, <1>13, <1>14 DEF Next

\* What the display has heard since the last separator is the front of a message
\* of the daemon, and its bitmaps are pictures (monobus.c 36-98 and monobusd.c
\* 553-671), for displays of every size and whatever is drawn.
THEOREM Invariance == Spec => []IInv
<1> QED BY InitInv, StepInv, PTL DEF Spec

\* A message that was written whole is accepted, after any number of
\* transmissions that failed anywhere (monobus.c 36-98), for displays of every
\* size and whatever is drawn.
THEOREM WholeMessagesReceived == Spec => []WholeReceived
<1>1. IInv => WholeReceived BY DEF IInv
<1> QED BY <1>1, Invariance, PTL

\* The display shows a picture turned by a quarter.
LEMMA DrawnOnCanvas == ASSUME NEW lit \in Drawn PROVE Showing(Shown(lit)) = Quarter(lit)
<1>1. lit \in SUBSET Pixel BY PicturesAssumption DEF Drawn
<1> QED BY <1>1, Rotation DEF Shown

\* After a frame that was written whole the display shows the canvas turned by a
\* quarter, and nothing at the end of the session (monobusd.c 570-587 and
\* 624-640), for displays of every size.
THEOREM PicturesShown == Spec => []PictureShown
<1>1. IInv => PictureShown
  <2> SUFFICES ASSUME IInv PROVE PictureShown OBVIOUS
  <2>1. canvas \in Drawn /\ {} \in Drawn BY DEF IInv, Drawn
  <2>2. Quarter({}) = {} BY DEF Quarter
  <2>3. Showing(Shown(canvas)) = Quarter(canvas) /\ Showing(Shown({})) = {}
    BY <2>1, <2>2, DrawnOnCanvas
  <2> QED BY <2>3 DEF IInv, PictureShown
<1> QED BY <1>1, Invariance, PTL

\* Whatever transmissions fail, the display shows one picture that was drawn, or
\* none (monobus.c 36-98), for displays of every size.
THEOREM NoMixture == Spec => []OnePicture
<1>1. IInv => OnePicture
  <2> SUFFICES ASSUME IInv PROVE OnePicture OBVIOUS
  <2>1. PICK lit \in Drawn : display.shown = Shown(lit)
    BY DEF IInv, DisplayOK, Pictured
  <2>2. Showing(display.shown) = Quarter(lit) BY <2>1, DrawnOnCanvas
  <2> QED BY <2>2 DEF OnePicture, Drawn
<1> QED BY <1>1, Invariance, PTL
=============================================================================
