----------------------------- MODULE OscProofs -----------------------------
(***************************************************************************)
(* Proofs about the writer and the reader of OSC packets, for buffers of   *)
(* every size, messages of every length and bundles nested in any way, and *)
(* packets cut anywhere: the writer stays in its buffer, no reader leaves  *)
(* the packet it was made for, and what is read is what was written, up to *)
(* the cut.                                                                *)
(***************************************************************************)
EXTENDS Osc, SequenceTheorems, FiniteSetTheorems, TLAPS

USE SizeAssumption, MinRoomAssumption

\* What a message and the head of a bundle are made of.
Plain(w) == WordOK(w) /\ w.kind # "size"
Words(s) == Len(s) \in Nat /\ DOMAIN s = 1 .. Len(s) /\ \A i \in 1 .. Len(s) : Plain(s[i])

\* What is made of words is a sequence of words.
LEMMA ElementsAreWords ==
  ASSUME NEW S, \A w \in S : Plain(w), NEW s \in Seq(S)
  PROVE  Words(s)
<1>1. Len(s) \in Nat /\ DOMAIN s = 1 .. Len(s) OBVIOUS
<1>2. \A i \in 1 .. Len(s) : s[i] \in S OBVIOUS
<1> QED BY <1>1, <1>2 DEF Words

LEMMA MoreOfThem ==
  ASSUME NEW n \in Nat
  PROVE  More(n) \in Seq({Word("more", 0)})
<1>1. More(n) \in [1 .. n -> {Word("more", 0)}] BY DEF More
<1> QED BY <1>1

LEMMA MoreIsWord == Plain(Word("more", 0))
BY DEF Plain, WordOK, Word

LEMMA StringIsWords ==
  ASSUME NEW text, NEW words \in Nat \ {0}
  PROVE  Words(String(text, words))
<1> DEFINE w == Word("string", [text |-> text, words |-> words])
           S == {w, Word("more", 0)}
<1>1. Plain(w) BY DEF Plain, WordOK, Word
<1>2. \A x \in S : Plain(x) BY <1>1, MoreIsWord
<1>3. << w >> \in Seq(S) OBVIOUS
<1>4. More(words - 1) \in Seq(S)
  <2>1. words - 1 \in Nat OBVIOUS
  <2>2. More(words - 1) \in Seq({Word("more", 0)}) BY <2>1, MoreOfThem
  <2> QED BY <2>2
<1>5. String(text, words) = << w >> \o More(words - 1) BY DEF String
<1> HIDE DEF S, w
<1>6. String(text, words) \in Seq(S) BY <1>3, <1>4, <1>5
<1> QED BY <1>2, <1>6, ElementsAreWords

LEMMA FormatIsWords ==
  ASSUME NEW types \in Seq(Type)
  PROVE  Words(Format(types))
<1> DEFINE w == Word("format", types)
           S == {w, Word("more", 0)}
<1>1. Plain(w) BY DEF Plain, WordOK, Word
<1>2. \A x \in S : Plain(x) BY <1>1, MoreIsWord
<1>3. << w >> \in Seq(S) OBVIOUS
<1>4. More(FormatWords(Len(types)) - 1) \in Seq(S)
  <2>1. FormatWords(Len(types)) - 1 \in Nat BY DEF FormatWords
  <2>2. More(FormatWords(Len(types)) - 1) \in Seq({Word("more", 0)})
    BY <2>1, MoreOfThem
  <2> QED BY <2>2
<1>5. Format(types) = << w >> \o More(FormatWords(Len(types)) - 1) BY DEF Format
<1> HIDE DEF S, w
<1>6. Format(types) \in Seq(S) BY <1>3, <1>4, <1>5
<1> QED BY <1>2, <1>6, ElementsAreWords

LEMMA ValueIsWords ==
  ASSUME NEW a, IsArg(a)
  PROVE  Words(Value(a))
<1> USE DEF IsArg, Type
<1> DEFINE data == Word("data", a.val)
<1>0. Plain(data) BY DEF Plain, WordOK, Word
<1>1. CASE a.type = "i"
  <2>1. Value(a) = << data >> BY <1>1 DEF Value
  <2>2. << data >> \in Seq({data}) OBVIOUS
  <2> HIDE DEF data
  <2> QED BY <1>0, <2>1, <2>2, ElementsAreWords
<1>2. CASE a.type = "h"
  <2>1. Value(a) = << data >> \o More(1) BY <1>2 DEF Value
  <2> DEFINE S == {data, Word("more", 0)}
  <2>2. << data >> \in Seq(S) OBVIOUS
  <2>3. More(1) \in Seq({Word("more", 0)}) BY MoreOfThem
  <2>4. More(1) \in Seq(S) BY <2>3
  <2>5. \A x \in S : Plain(x) BY <1>0, MoreIsWord
  <2> HIDE DEF data, S
  <2>6. Value(a) \in Seq(S) BY <2>1, <2>2, <2>4
  <2> QED BY <2>5, <2>6, ElementsAreWords
<1>3. CASE a.type = "s"
  <2>1. Value(a) = String(a.val, a.words) BY <1>3 DEF Value
  <2>2. a.words \in Nat \ {0} BY <1>3
  <2> QED BY <2>1, <2>2, StringIsWords
<1>4. CASE a.type = "b"
  <2> DEFINE w == Word("len", a.words)
             S == {w, data}
             body == [i \in 1 .. a.words |-> data]
  <2>1. Value(a) = << w >> \o body BY <1>4 DEF Value
  <2>2. Plain(w) BY DEF Plain, WordOK, Word
  <2>3. \A x \in S : Plain(x) BY <1>0, <2>2
  <2>4. << w >> \in Seq(S) OBVIOUS
  <2>5. body \in Seq(S)
    <3>1. body \in [1 .. a.words -> S] OBVIOUS
    <3> QED BY <3>1
  <2> HIDE DEF data, w, S, body
  <2>6. Value(a) \in Seq(S) BY <2>1, <2>4, <2>5
  <2> QED BY <2>3, <2>6, ElementsAreWords
<1>5. CASE a.type = "T"
  <2>1. Value(a) = << >> BY <1>5 DEF Value
  <2>2. << >> \in Seq({data}) OBVIOUS
  <2> HIDE DEF data
  <2> QED BY <1>0, <2>1, <2>2, ElementsAreWords
<1> QED BY <1>1, <1>2, <1>3, <1>4, <1>5

\* What callers write has words of its own, and ends.
LEMMA PathsAndArgs ==
  /\ \A p \in Paths : IsPath(p)
  /\ \A args \in Args : /\ Len(args) \in Nat /\ DOMAIN args = 1 .. Len(args)
                        /\ \A i \in DOMAIN args : IsArg(args[i])
<1>1. ASSUME NEW p \in Paths PROVE IsPath(p)
  <2> DEFINE none == [text |-> "", words |-> 1, rooted |-> FALSE]
  <2>0. NoMsg.path = none BY DEF NoMsg
  <2>1. IsPath(NoMsg.path)
    <3>1. none.words = 1 OBVIOUS
    <3>2. none.rooted = FALSE BY Zenon
    <3> HIDE DEF none
    <3>3. NoMsg.path.words \in Nat \ {0} BY <2>0, <3>1
    <3>4. NoMsg.path.rooted \in BOOLEAN BY <2>0, <3>2, Zenon
    <3> QED BY <3>3, <3>4 DEF IsPath
  <2> QED BY <2>1, MessagesAssumption DEF Paths
<1>2. ASSUME NEW args \in Args
      PROVE  /\ Len(args) \in Nat /\ DOMAIN args = 1 .. Len(args)
             /\ \A i \in DOMAIN args : IsArg(args[i])
  <2>1. CASE args = NoMsg.args BY <2>1 DEF NoMsg
  <2>2. CASE \E m \in Messages : args = m.args
    <3>1. PICK m \in Messages : args = m.args BY <2>2
    <3>2. args \in Seq({ args[i] : i \in DOMAIN args })
      BY <3>1, MessagesAssumption
    <3>3. \A i \in DOMAIN args : IsArg(args[i]) BY <3>1, MessagesAssumption
    <3> QED BY <3>2, <3>3
  <2> QED BY <2>1, <2>2 DEF Args
<1> QED BY <1>1, <1>2

LEMMA SequenceOfItsElements ==
  ASSUME NEW S, NEW s \in Seq(S)
  PROVE  s \in Seq({ s[i] : i \in DOMAIN s })
<1> DEFINE T == { s[i] : i \in DOMAIN s }
<1>1. Len(s) \in Nat /\ DOMAIN s = 1 .. Len(s) OBVIOUS
<1>2. \A i \in 1 .. Len(s) : s[i] \in T BY <1>1
<1> HIDE DEF T
<1>3. s = [i \in 1 .. Len(s) |-> s[i]] OBVIOUS
<1>4. s \in Seq(T) BY <1>1, <1>2, <1>3
<1> QED BY <1>4 DEF T

\* One more element, or one less, at the end.
LEMMA Appended ==
  ASSUME NEW S, NEW s \in Seq(S), NEW e
  PROVE  /\ Append(s, e) \in Seq(S \cup {e})
         /\ Len(Append(s, e)) = Len(s) + 1
         /\ \A i \in 1 .. Len(s) : Append(s, e)[i] = s[i]
         /\ Append(s, e)[Len(s) + 1] = e
<1> DEFINE T == S \cup {e}
<1>1. s \in Seq(T) /\ e \in T OBVIOUS
<1> HIDE DEF T
<1>2. Append(s, e) \in Seq(T) BY <1>1
<1>3. /\ Len(Append(s, e)) = Len(s) + 1
      /\ \A i \in 1 .. Len(s) : Append(s, e)[i] = s[i]
      /\ Append(s, e)[Len(s) + 1] = e
  BY <1>1
<1> QED BY <1>2, <1>3 DEF T

LEMMA Shortened ==
  ASSUME NEW S, NEW s \in Seq(S), s # << >>
  PROVE  /\ Front(s) \in Seq(S)
         /\ Len(Front(s)) = Len(s) - 1
         /\ Len(s) \in Nat \ {0}
         /\ \A i \in 1 .. Len(s) - 1 : Front(s)[i] = s[i]
<1>1. Len(s) \in Nat \ {0} OBVIOUS
<1>2. Front(s) = SubSeq(s, 1, Len(s) - 1) BY DEF Front
<1>3. \A i \in 1 .. Len(s) - 1 : s[i] \in S BY <1>1
<1> DEFINE n == Len(s) - 1
<1>4. n \in Nat /\ \A i \in 1 .. n : 1 + i - 1 = i BY <1>1
<1> HIDE DEF n
<1>5. /\ SubSeq(s, 1, n) \in Seq(S)
      /\ Len(SubSeq(s, 1, n)) = n
      /\ \A i \in 1 .. n : SubSeq(s, 1, n)[i] = s[i]
  <2>1. \A i \in 1 .. n : s[i] \in S BY <1>3 DEF n
  <2>2. /\ SubSeq(s, 1, n) \in Seq(S)
        /\ Len(SubSeq(s, 1, n)) = IF 1 <= n THEN n - 1 + 1 ELSE 0
        /\ \A i \in 1 .. n - 1 + 1 : SubSeq(s, 1, n)[i] = s[1 + i - 1]
    BY <2>1, <1>4, SubSeqProperties
  <2> QED BY <1>4, <2>2
<1> QED BY <1>1, <1>2, <1>5 DEF n

-----------------------------------------------------------------------------
(***************************************************************************)
(* The writer keeps to its buffer.                                         *)
(***************************************************************************)
MemOK == DOMAIN mem = 0 .. Size - 1 /\ \A i \in 0 .. Size - 1 : WordOK(mem[i])

LEMMA PutKeepsMemory ==
  ASSUME MemOK, ptr \in 0 .. Size - 1, NEW words, Words(words), Fits(Len(words)),
         Put(words)
  PROVE  MemOK' /\ ptr' \in 0 .. Size - 1
<1>1. ptr' = ptr + Len(words) /\ Len(words) \in Nat BY DEF Put, Words
<1>2. ptr' \in 0 .. Size - 1 BY <1>1 DEF Fits
<1>3. DOMAIN mem' = 0 .. Size - 1 BY DEF Put
<1>4. ASSUME NEW i \in 0 .. Size - 1 PROVE WordOK(mem'[i])
  <2>1. CASE i \in ptr .. ptr + Len(words) - 1
    <3>1. mem'[i] = words[i - ptr + 1] BY <2>1 DEF Put
    <3>2. i - ptr + 1 \in 1 .. Len(words) BY <2>1, <1>1
    <3> QED BY <3>1, <3>2 DEF Words, Plain
  <2>2. CASE i \notin ptr .. ptr + Len(words) - 1
    <3>1. mem'[i] = mem[i] BY <2>2 DEF Put
    <3> QED BY <3>1 DEF MemOK
  <2> QED BY <2>1, <2>2
<1> QED BY <1>2, <1>3, <1>4 DEF MemOK

LEMMA PieceIsWords ==
  ASSUME msg \in [path : Paths, args : Args, step : Nat],
         msg.step \in 1 .. Len(msg.args) + 1
  PROVE  Words(Piece)
<1>1. /\ Len(msg.args) \in Nat /\ DOMAIN msg.args = 1 .. Len(msg.args)
      /\ \A i \in DOMAIN msg.args : IsArg(msg.args[i])
  BY PathsAndArgs
<1>2. CASE msg.step = 1
  <2>1. Types(msg) \in Seq(Type)
    <3>1. \A i \in 1 .. Len(msg.args) : msg.args[i].type \in Type BY <1>1 DEF IsArg
    <3>2. Types(msg) \in [1 .. Len(msg.args) -> Type] BY <3>1 DEF Types
    <3> QED BY <1>1, <3>2
  <2> QED BY <1>2, <2>1, FormatIsWords DEF Piece
<1>3. CASE msg.step # 1
  <2>1. msg.step - 1 \in DOMAIN msg.args BY <1>1, <1>3
  <2>2. IsArg(msg.args[msg.step - 1]) BY <1>1, <2>1
  <2> QED BY <1>3, <2>2, ValueIsWords DEF Piece
<1> QED BY <1>2, <1>3

\* What the reader has is of no concern to the writer.
LEMMA WriterKeepsReader ==
  ASSUME IInv, UNCHANGED << phase, reader >>,
         MemOK', ptr' \in 0 .. Size - 1, open' \in Seq(Frame),
         msg' \in [path : Paths, args : Args, step : Nat]
  PROVE  IInv'
<1>1. UNCHANGED << phase, len, call, stack, arg, heard >> BY DEF reader
<1>2. ReadersNest' BY <1>1 DEF IInv, ReadersNest
<1>3. TypeOK' BY <1>1 DEF IInv, TypeOK, MemOK
<1> QED BY <1>1, <1>2, <1>3 DEF IInv

LEMMA WriterInv ==
  ASSUME IInv, Writer PROVE IInv'
<1>0. /\ MemOK /\ ptr \in 0 .. Size - 1 /\ open \in Seq(Frame)
      /\ msg \in [path : Paths, args : Args, step : Nat]
  BY DEF IInv, TypeOK, MemOK
<1>1. ASSUME NEW m \in Messages, AddPath(m) PROVE IInv'
  <2>1. m.path \in Paths /\ m.args \in Args BY DEF Paths, Args
  <2>2. m.path.words \in Nat \ {0} BY <2>1, PathsAndArgs DEF IsPath
  <2>3. Words(String(m.path, m.path.words)) BY <2>2, StringIsWords
  <2>4. Len(String(m.path, m.path.words)) = m.path.words
    <3> DEFINE w == Word("string", [text |-> m.path, words |-> m.path.words])
               rest == More(m.path.words - 1)
    <3>1. rest = [i \in 1 .. m.path.words - 1 |-> Word("more", 0)] BY DEF More
    <3>2. m.path.words - 1 \in Nat BY <2>2
    <3>3. rest \in Seq({Word("more", 0)}) BY <3>2, MoreOfThem
    <3>4. Len(rest) = m.path.words - 1 BY <3>1, <3>2
    <3> HIDE DEF w, rest
    <3>5. << w >> \in Seq({w}) /\ Len(<< w >>) = 1 OBVIOUS
    <3>6. Len(<< w >> \o rest) = 1 + Len(rest)
      BY <3>3, <3>5, ConcatProperties
    <3> QED BY <2>2, <3>4, <3>6 DEF String, w, rest
  <2>5. MemOK' /\ ptr' \in 0 .. Size - 1
    BY <1>0, <1>1, <2>3, <2>4, PutKeepsMemory DEF AddPath
  <2>6. msg' \in [path : Paths, args : Args, step : Nat] BY <1>1, <2>1 DEF AddPath
  <2> QED BY <1>0, <1>1, <2>5, <2>6, WriterKeepsReader DEF AddPath
<1>2. ASSUME AddPiece PROVE IInv'
  <2>1. Words(Piece) BY <1>0, <1>2, PieceIsWords DEF AddPiece
  <2>2. MemOK' /\ ptr' \in 0 .. Size - 1
    BY <1>0, <1>2, <2>1, PutKeepsMemory DEF AddPiece
  <2>3. msg' \in [path : Paths, args : Args, step : Nat] BY <1>0, <1>2 DEF AddPiece
  <2> QED BY <1>0, <1>2, <2>2, <2>3, WriterKeepsReader DEF AddPiece
<1>3. ASSUME MessageWritten PROVE IInv'
  <2>1. NoMsg \in [path : Paths, args : Args, step : Nat] BY DEF NoMsg, Paths, Args
  <2> QED BY <1>0, <1>3, <2>1, WriterKeepsReader DEF MessageWritten, MemOK
<1>4. ASSUME NEW t \in Tags, PushBundle(t) PROVE IInv'
  <2> DEFINE words == << Word("#bundle", 0), Word("more", 0), Word("tag", t),
                         Word("more", 0) >>
  <2>1. Words(words) /\ Len(words) = 4 BY DEF Words, Plain, WordOK, Word
  <2> HIDE DEF words
  <2>2. Fits(Len(words)) /\ Put(words) BY <1>4, <2>1 DEF PushBundle, words
  <2>3. MemOK' /\ ptr' \in 0 .. Size - 1 BY <1>0, <2>1, <2>2, PutKeepsMemory
  <2>4. open' \in Seq(Frame)
    <3>1. [kind |-> "bundle", ref |-> ptr, tag |-> t] \in Frame BY <1>0 DEF Frame
    <3> QED BY <1>0, <1>4, <3>1 DEF PushBundle
  <2> QED BY <1>0, <1>4, <2>3, <2>4, WriterKeepsReader DEF PushBundle
<1>5. ASSUME PushItem PROVE IInv'
  <2>1. open' \in Seq(Frame)
    <3>1. [kind |-> "item", ref |-> ptr, tag |-> Immediate] \in Frame BY <1>0 DEF Frame
    <3> QED BY <1>0, <1>5, <3>1 DEF PushItem
  <2>2. ptr' \in 0 .. Size - 1 BY <1>0, <1>5 DEF PushItem, Fits
  <2> QED BY <1>0, <1>5, <2>1, <2>2, WriterKeepsReader DEF PushItem, MemOK
<1>6. ASSUME NEW kind, Close(kind)
      PROVE  open' \in Seq(Frame) /\ Top.ref \in 0 .. Size - 1
  <2>1. Top \in Frame BY <1>0, <1>6 DEF Close, Top
  <2>2. Top.ref \in 0 .. Size - 1 BY <2>1 DEF Frame
  <2> QED BY <1>0, <1>6, <2>2, Shortened DEF Close
<1>7. ASSUME PopItem PROVE IInv'
  <2>1. open' \in Seq(Frame) /\ Top.ref \in 0 .. Size - 1
    BY <1>6, <1>7 DEF PopItem
  <2>2. MemOK' /\ ptr' \in 0 .. Size - 1
    <3>1. CASE ItemSize <= 0 BY <1>0, <1>7, <2>1, <3>1 DEF PopItem, MemOK
    <3>2. CASE ~(ItemSize <= 0)
      <4>1. ItemSize \in Nat BY <1>0, <2>1, <3>2 DEF ItemSize
      <4>2. WordOK(Word("size", ItemSize)) BY <4>1 DEF WordOK, Word
      <4>3. mem' = [mem EXCEPT ![Top.ref] = Word("size", ItemSize)] /\ ptr' = ptr
        BY <1>7, <3>2 DEF PopItem
      <4> QED BY <1>0, <2>1, <4>2, <4>3 DEF MemOK
    <3> QED BY <3>1, <3>2
  <2> QED BY <1>0, <1>7, <2>1, <2>2, WriterKeepsReader DEF PopItem
<1>8. ASSUME PopBundle PROVE IInv'
  <2>1. open' \in Seq(Frame) /\ Top.ref \in 0 .. Size - 1
    BY <1>6, <1>8 DEF PopBundle
  <2>2. ptr' \in 0 .. Size - 1 BY <1>0, <1>8, <2>1 DEF PopBundle
  <2> QED BY <1>0, <1>8, <2>1, <2>2, WriterKeepsReader DEF PopBundle, MemOK
<1>9. ASSUME GiveUp PROVE IInv'
  <2>1. phase' = "failed" /\ UNCHANGED << mem, ptr, open, msg, told, len, call, stack, arg, heard >>
    BY <1>9 DEF GiveUp, writer, reader
  <2> QED BY <2>1 DEF IInv, TypeOK, ReadersNest
<1> QED BY <1>1, <1>2, <1>3, <1>4, <1>5, <1>7, <1>8, <1>9 DEF Writer

-----------------------------------------------------------------------------
(***************************************************************************)
(* The reader keeps to the packet.                                         *)
(***************************************************************************)
LEMMA NumbersAndStrings ==
  ASSUME IInv, NEW at \in 0 .. len
  PROVE  /\ WordOK(mem[at]) /\ at \in 0 .. Size - 1
         /\ NumberAt(at) \in Nat /\ StringAt(at).words \in Nat \ {0}
<1>1. at \in 0 .. Size - 1 /\ WordOK(mem[at]) BY DEF IInv, TypeOK
<1>2. NumberAt(at) \in Nat BY <1>1 DEF NumberAt, WordOK
<1>3. StringAt(at).words \in Nat \ {0} BY <1>1 DEF StringAt, WordOK
<1> QED BY <1>1, <1>2, <1>3

\* Where a call reads.
LEMMA CallInPacket ==
  ASSUME IInv, Reading
  PROVE  /\ call.at \in Nat /\ call.len \in Nat /\ len \in 0 .. Size - 1
         /\ call.at + call.len <= len
<1>1. call.at \in Nat /\ call.len \in Nat /\ len \in 0 .. Size - 1
  BY DEF IInv, TypeOK
<1>2. CASE stack = << >> BY <1>1, <1>2 DEF IInv, ReadersNest, Reading
<1>3. CASE stack # << >>
  <2>1. stack \in Seq({ stack[i] : i \in DOMAIN stack }) BY DEF IInv, TypeOK
  <2>2. Len(stack) \in DOMAIN stack BY <1>3, <2>1
  <2> DEFINE b == stack[Len(stack)]
  <2>3. /\ b.ptr \in Nat /\ b.size \in Nat /\ b.end \in Nat
        /\ b.ptr + b.size <= b.end /\ b.end <= len
        /\ call.at + call.len <= b.ptr + b.size
    BY <1>3, <2>2 DEF IInv, TypeOK, ReadersNest, Reading
  <2> HIDE DEF b
  <2> QED BY <1>1, <2>3
<1> QED BY <1>1, <1>2, <1>3

\* An item that is there lies behind its size word, and in front of the end.
LEMMA ItemInBundle ==
  ASSUME IInv, NEW at \in Nat, NEW end \in Nat, end <= len, NEW tag, HasItem(at, end)
  PROVE  LET b == Bundle(at, end, tag)
         IN  /\ b.ptr \in Nat /\ b.size \in Nat /\ b.end = end
             /\ b.ptr + b.size <= end
<1>1. at + 1 <= end BY DEF HasItem, Over
<1>2. at \in 0 .. len BY <1>1 DEF IInv, TypeOK
<1>3. NumberAt(at) \in Nat BY <1>2, NumbersAndStrings
<1>4. at + 1 + NumberAt(at) <= end BY <1>3 DEF HasItem, Over
<1> QED BY <1>3, <1>4 DEF Bundle

\* What the writer has done stays.
LEMMA WriterUnchanged ==
  ASSUME IInv, writer' = writer, len' = len
  PROVE  /\ UNCHANGED << mem, ptr, open, msg, told, len >>
         /\ MemOK' /\ ptr' \in 0 .. Size - 1 /\ len' \in 0 .. Size - 1
         /\ open' \in Seq(Frame) /\ msg' \in [path : Paths, args : Args, step : Nat]
<1>1. UNCHANGED << mem, ptr, open, msg, told, len >> BY DEF writer
<1> QED BY <1>1 DEF IInv, TypeOK, MemOK

LEMMA OpenBundleInv ==
  ASSUME IInv, OpenBundle PROVE IInv'
<1> DEFINE end == call.at + call.len
           b == Bundle(call.at + 4, end, mem[call.at + 2].val)
<1>1. /\ phase = "read" /\ phase' = phase /\ writer' = writer
      /\ len' = len /\ arg' = arg
      /\ \/ /\ ~Over(call.at, 4, end) /\ HasItem(call.at + 4, end)
            /\ stack' = Append(stack, b) /\ call' = Item(b)
         \/ call' = NoCall /\ stack' = stack
  BY DEF OpenBundle, Reading
<1>2. call.at \in Nat /\ call.len \in Nat /\ end <= len /\ end \in Nat
  BY CallInPacket DEF OpenBundle
<1>3. CASE call' = NoCall /\ stack' = stack
  <2>1. NoCall.at = 0 /\ NoCall.len = 0 BY DEF NoCall
  <2>2. TypeOK' BY <1>1, <1>3, <2>1, WriterUnchanged DEF IInv, TypeOK, MemOK
  <2>3. ReadersNest' BY <1>1, <1>3 DEF IInv, ReadersNest
  <2> QED BY <1>1, <1>3, <2>2, <2>3 DEF IInv
<1>4. CASE HasItem(call.at + 4, end) /\ stack' = Append(stack, b) /\ call' = Item(b)
  <2>1. b.ptr \in Nat /\ b.size \in Nat /\ b.end = end /\ b.ptr + b.size <= end
    BY <1>2, <1>4, ItemInBundle
  <2> DEFINE S == { stack[i] : i \in DOMAIN stack }
             n == Len(stack)
  <2>2. stack \in Seq(S) /\ n \in Nat /\ DOMAIN stack = 1 .. n BY DEF IInv, TypeOK
  <2>3. call # NoCall BY DEF OpenBundle, Reading
  <2> HIDE DEF b, S
  <2>4. /\ stack' \in Seq(S \cup {b}) /\ Len(stack') = n + 1
        /\ \A i \in 1 .. n : stack'[i] = stack[i]
        /\ stack'[n + 1] = b
    BY <1>4, <2>2, Appended
  <2>5. DOMAIN stack' = 1 .. n + 1 BY <2>4
  <2>6. stack' \in Seq({ stack'[i] : i \in DOMAIN stack' })
    BY <2>4, SequenceOfItsElements
  <2>7. call'.at = b.ptr /\ call'.len = b.size BY <1>4 DEF Item
  <2>8. TypeOK'
    <3>1. \A i \in DOMAIN stack' : /\ stack'[i].ptr \in Nat /\ stack'[i].size \in Nat
                                   /\ stack'[i].end \in Nat
      <4>1. \A i \in 1 .. n : /\ stack[i].ptr \in Nat /\ stack[i].size \in Nat
                              /\ stack[i].end \in Nat
        BY <2>2 DEF IInv, TypeOK
      <4> QED BY <1>2, <2>1, <2>2, <2>4, <2>5, <4>1
    <3> QED BY <1>1, <2>1, <2>6, <2>7, <3>1, WriterUnchanged DEF IInv, TypeOK, MemOK
  <2>9. ReadersNest'
    <3>1. call'.at + call'.len <= stack'[Len(stack')].ptr + stack'[Len(stack')].size
      BY <2>1, <2>2, <2>4, <2>7
    <3>2. stack' # << >> BY <2>2, <2>4
    <3>3. arg'.ptr <= arg'.end /\ arg'.end <= len' BY <1>1 DEF IInv, ReadersNest
    <3>4. ASSUME NEW i \in DOMAIN stack'
          PROVE  /\ stack'[i].ptr + stack'[i].size <= stack'[i].end
                 /\ stack'[i].end <= IF i = 1 THEN len'
                                     ELSE stack'[i - 1].ptr + stack'[i - 1].size
      <4>1. CASE i \in 1 .. n
        <5>1. stack'[i] = stack[i] /\ (i # 1 => stack'[i - 1] = stack[i - 1])
          BY <2>2, <2>4, <4>1
        <5> QED BY <1>1, <2>2, <4>1, <5>1 DEF IInv, ReadersNest
      <4>2. CASE i = n + 1
        <5>1. stack'[i] = b BY <2>4, <4>2
        <5>2. CASE n = 0
          <6>1. stack = << >> BY <2>2, <5>2
          <6> QED BY <1>1, <1>2, <2>1, <4>2, <5>1, <5>2, <6>1
        <5>3. CASE n # 0
          <6>1. stack # << >> /\ i # 1 /\ i - 1 = n /\ n \in 1 .. n
            BY <2>2, <4>2, <5>3
          <6>2. end <= stack[n].ptr + stack[n].size
            BY <1>1, <2>3, <6>1 DEF IInv, ReadersNest
          <6>3. stack'[i - 1] = stack[n] BY <2>4, <6>1
          <6> QED BY <2>1, <5>1, <6>1, <6>2, <6>3
        <5> QED BY <5>2, <5>3
      <4> QED BY <2>2, <2>5, <4>1, <4>2
    <3> QED BY <3>1, <3>2, <3>3, <3>4 DEF ReadersNest
  <2>10. \A i \in DOMAIN stack' : stack'[i].end <= len'
    <3>1. \A i \in 1 .. n : stack[i].end <= len BY <2>2 DEF IInv
    <3> QED BY <1>1, <1>2, <2>1, <2>2, <2>4, <2>5, <3>1
  <2> QED BY <1>1, <2>8, <2>9, <2>10 DEF IInv
<1> QED BY <1>1, <1>3, <1>4

LEMMA NextItemInv ==
  ASSUME IInv, NextItem PROVE IInv'
<1> DEFINE S == { stack[i] : i \in DOMAIN stack }
           n == Len(stack)
           b == stack[n]
           at == b.ptr + b.size
           m == Bundle(at, b.end, b.tag)
<1>1. /\ phase = "read" /\ phase' = phase /\ writer' = writer
      /\ len' = len /\ arg' = arg /\ stack # << >>
      /\ \/ HasItem(at, b.end) /\ stack' = Append(Front(stack), m) /\ call' = Item(m)
         \/ stack' = Front(stack) /\ call' = call
  BY DEF NextItem
<1>2. stack \in Seq(S) /\ n \in Nat \ {0} /\ DOMAIN stack = 1 .. n
  <2>1. stack \in Seq(S) BY DEF IInv, TypeOK
  <2> HIDE DEF S
  <2> QED BY <1>1, <2>1
<1>3. \A i \in 1 .. n : /\ stack[i].ptr \in Nat /\ stack[i].size \in Nat
                        /\ stack[i].end \in Nat /\ stack[i].end <= len
                        /\ stack[i].ptr + stack[i].size <= stack[i].end
                        /\ stack[i].end <= IF i = 1 THEN len
                                           ELSE stack[i - 1].ptr + stack[i - 1].size
  BY <1>1, <1>2 DEF IInv, TypeOK, ReadersNest
<1>4. /\ Front(stack) \in Seq(S) /\ Len(Front(stack)) = n - 1
      /\ \A i \in 1 .. n - 1 : Front(stack)[i] = stack[i]
  BY <1>1, <1>2, Shortened
<1>5. arg.ptr <= arg.end /\ arg.end <= len BY <1>1 DEF IInv, ReadersNest
<1> HIDE DEF S, n, b, at, m
<1>6. CASE stack' = Front(stack) /\ call' = call
  <2>1. call = NoCall BY DEF NextItem
  <2>2. DOMAIN stack' = 1 .. n - 1 BY <1>2, <1>4, <1>6
  <2>3. \A i \in DOMAIN stack' : stack'[i] = stack[i] /\ i \in 1 .. n
    BY <1>2, <1>4, <1>6, <2>2
  <2>4. stack' \in Seq({ stack'[i] : i \in DOMAIN stack' })
    BY <1>4, <1>6, SequenceOfItsElements
  <2>5. \A i \in DOMAIN stack' : i # 1 => stack'[i - 1] = stack[i - 1]
    BY <1>2, <2>2, <2>3
  <2>6. TypeOK'
    BY <1>1, <1>3, <1>6, <2>3, <2>4, WriterUnchanged DEF IInv, TypeOK, MemOK
  <2>7. ReadersNest' BY <1>1, <1>3, <1>5, <1>6, <2>1, <2>3, <2>5 DEF ReadersNest
  <2> QED BY <1>1, <1>3, <2>3, <2>6, <2>7 DEF IInv
<1>7. CASE HasItem(at, b.end) /\ stack' = Append(Front(stack), m) /\ call' = Item(m)
  <2>0. n \in 1 .. n /\ b = stack[n] BY <1>2 DEF b
  <2>1. /\ b.ptr \in Nat /\ b.size \in Nat /\ b.end \in Nat /\ b.end <= len
        /\ b.end <= IF n = 1 THEN len ELSE stack[n - 1].ptr + stack[n - 1].size
    BY <1>3, <2>0
  <2>2. at \in Nat BY <2>1 DEF at
  <2>3. m.ptr \in Nat /\ m.size \in Nat /\ m.end = b.end /\ m.ptr + m.size <= b.end
    BY <1>7, <2>1, <2>2, ItemInBundle DEF m
  <2>4. /\ stack' \in Seq(S \cup {m}) /\ Len(stack') = n - 1 + 1
        /\ \A i \in 1 .. n - 1 : stack'[i] = Front(stack)[i]
        /\ stack'[n - 1 + 1] = m
    BY <1>4, <1>7, Appended
  <2>5. /\ Len(stack') = n /\ DOMAIN stack' = 1 .. n /\ stack'[n] = m
        /\ \A i \in 1 .. n - 1 : stack'[i] = stack[i]
    BY <1>2, <1>4, <2>4
  <2>6. stack' \in Seq({ stack'[i] : i \in DOMAIN stack' })
    BY <2>4, SequenceOfItsElements
  <2>7. call'.at = m.ptr /\ call'.len = m.size BY <1>7 DEF Item
  <2>8. ASSUME NEW i \in DOMAIN stack'
        PROVE  /\ stack'[i].ptr \in Nat /\ stack'[i].size \in Nat
               /\ stack'[i].end \in Nat /\ stack'[i].end <= len
               /\ stack'[i].ptr + stack'[i].size <= stack'[i].end
               /\ stack'[i].end <= IF i = 1 THEN len
                                   ELSE stack'[i - 1].ptr + stack'[i - 1].size
    <3>1. i # 1 => i - 1 \in 1 .. n - 1 /\ stack'[i - 1] = stack[i - 1]
      BY <1>2, <2>5
    <3>2. CASE i = n BY <2>1, <2>3, <2>5, <3>1, <3>2
    <3>3. CASE i # n
      <4>1. i \in 1 .. n /\ stack'[i] = stack[i] BY <1>2, <2>5, <3>3
      <4> QED BY <1>3, <3>1, <4>1
    <3> QED BY <3>2, <3>3
  <2>9. TypeOK'
    BY <1>1, <2>3, <2>6, <2>7, <2>8, WriterUnchanged DEF IInv, TypeOK, MemOK
  <2>10. ReadersNest'
    <3>1. stack' # << >> BY <1>2, <2>5
    <3>2. call'.at + call'.len <= stack'[Len(stack')].ptr + stack'[Len(stack')].size
      BY <2>3, <2>5, <2>7
    <3> QED BY <1>1, <1>5, <2>8, <3>1, <3>2 DEF ReadersNest
  <2> QED BY <1>1, <2>8, <2>9, <2>10 DEF IInv
<1> QED BY <1>1, <1>6, <1>7

\* A message that is read in the packet of the call that found it.
LEMMA OpenMessageInv ==
  ASSUME IInv, OpenMessage PROVE IInv'
<1> DEFINE end == call.at + call.len
           path == StringAt(call.at)
           fmt == call.at + path.words
           types == mem[fmt].val
<1>1. /\ phase = "read" /\ writer' = writer /\ len' = len /\ stack' = stack
      /\ call' = NoCall /\ NoCall.at = 0 /\ NoCall.len = 0
  BY DEF OpenMessage, Reading, NoCall
<1>2. call.at \in Nat /\ end \in Nat /\ end <= len /\ call.at \in 0 .. len
  BY CallInPacket DEF OpenMessage
<1>3. path.words \in Nat \ {0} BY <1>2, NumbersAndStrings
<1>4. CASE phase' = "fault" /\ arg' = arg
  <2>1. TypeOK' BY <1>1, <1>4, WriterUnchanged DEF IInv, TypeOK, MemOK
  <2> QED BY <1>1, <1>4, <2>1 DEF IInv, ReadersNest
<1>5. CASE /\ phase' = phase
           /\ ~Over(fmt, 1, end) /\ mem[fmt].kind = "format"
           /\ ~Over(fmt, FormatWords(Len(types)), end)
           /\ arg' = [tag |-> call.tag, path |-> path.text, types |-> types,
                      vals |-> << >>, ptr |-> fmt + FormatWords(Len(types)),
                      end |-> end]
  <2>1. fmt \in 0 .. len
    <3>1. ~Over(fmt, 1, end) BY <1>5
    <3>2. fmt \in Nat BY <1>2, <1>3
    <3>3. end \in Nat /\ end <= len /\ len \in Nat BY <1>2, CallInPacket DEF OpenMessage
    <3> HIDE DEF fmt, end
    <3> QED BY <3>1, <3>2, <3>3 DEF Over
  <2> HIDE DEF end, path, fmt
  <2>2. types \in Seq(Type) /\ Len(types) \in Nat
    <3>1. WordOK(mem[fmt]) BY <2>1, NumbersAndStrings
    <3> DEFINE w == mem[fmt]
    <3>2. WordOK(w) /\ w.kind = "format" BY <1>5, <3>1
    <3> HIDE DEF w
    <3>3. w.val \in Seq(Type) BY <3>2 DEF WordOK
    <3> QED BY <3>3 DEF w
  <2> HIDE DEF types
  <2>3. FormatWords(Len(types)) \in Nat BY <2>2 DEF FormatWords
  <2>4. arg'.ptr \in Nat /\ arg'.end = end /\ arg'.ptr <= end /\ end <= len
    BY <1>2, <1>5, <2>1, <2>3 DEF Over
  <2>5. /\ DOMAIN arg' = DOMAIN NoArg /\ arg'.types \in Seq(Type)
        /\ Len(arg'.vals) \in Nat
    BY <1>5, <2>2 DEF NoArg
  <2>6. TypeOK'
    BY <1>1, <1>2, <1>5, <2>4, <2>5, WriterUnchanged DEF IInv, TypeOK, MemOK
  <2>7. ReadersNest' BY <1>1, <1>5, <2>4 DEF IInv, ReadersNest
  <2> QED BY <1>1, <1>5, <2>6, <2>7 DEF IInv
<1> QED BY <1>4, <1>5 DEF OpenMessage

LEMMA ReadArgInv ==
  ASSUME IInv, ReadArg PROVE IInv'
<1> DEFINE type == arg.types[Len(arg.vals) + 1]
<1>1. /\ phase = "read" /\ writer' = writer /\ len' = len /\ stack' = stack
      /\ call' = call /\ Len(arg.vals) < Len(arg.types)
  BY DEF ReadArg
<1>2. CASE phase' = "fault" /\ arg' = arg
  <2>1. TypeOK' BY <1>1, <1>2, WriterUnchanged DEF IInv, TypeOK, MemOK
  <2> QED BY <1>1, <1>2, <2>1 DEF IInv, ReadersNest
<1>3. CASE /\ phase' = phase /\ ~Over(arg.ptr, Width(type), arg.end)
           /\ arg' = [arg EXCEPT !.ptr = @ + Width(type),
                                 !.vals = Append(@, Found(type))]
  <2>1. /\ arg.ptr \in Nat /\ arg.end \in Nat /\ DOMAIN arg = DOMAIN NoArg
        /\ arg.types \in Seq(Type) /\ Len(arg.vals) \in Nat
        /\ arg.ptr <= arg.end /\ arg.end <= len
    BY <1>1 DEF IInv, TypeOK, ReadersNest
  <2>2. type \in Type BY <1>1, <2>1
  <2>3. arg.ptr \in 0 .. len BY <2>1 DEF IInv, TypeOK
  <2>4. Width(type) \in Nat
    <3>1. NumberAt(arg.ptr) \in Nat /\ StringAt(arg.ptr).words \in Nat
      BY <2>3, NumbersAndStrings
    <3> HIDE DEF type
    <3>2. CASE type = "i" BY <3>2 DEF Width
    <3>3. CASE type = "h" BY <3>3 DEF Width
    <3>4. CASE type = "s" BY <3>1, <3>4 DEF Width
    <3>5. CASE type = "b" BY <3>1, <3>5 DEF Width
    <3>6. CASE type = "T" BY <3>6 DEF Width
    <3> QED BY <2>2, <3>2, <3>3, <3>4, <3>5, <3>6 DEF Type
  <2> HIDE DEF type
  <2>5. {"ptr", "end", "types", "vals"} \subseteq DOMAIN arg BY <2>1 DEF NoArg
  <2>6. /\ arg'.ptr = arg.ptr + Width(type) /\ arg'.end = arg.end
        /\ arg'.types = arg.types /\ arg'.vals = Append(arg.vals, Found(type))
        /\ DOMAIN arg' = DOMAIN NoArg
    BY <1>3, <2>1, <2>5
  <2>7. arg'.ptr \in Nat /\ arg'.ptr <= arg'.end /\ Len(arg'.vals) \in Nat
    BY <1>3, <2>1, <2>4, <2>6 DEF Over
  <2>8. TypeOK' BY <1>1, <1>3, <2>1, <2>6, <2>7, WriterUnchanged DEF IInv, TypeOK, MemOK
  <2>9. ReadersNest' BY <1>1, <1>3, <2>1, <2>6, <2>7 DEF IInv, ReadersNest
  <2> QED BY <1>1, <1>3, <2>8, <2>9 DEF IInv
<1> QED BY <1>2, <1>3 DEF ReadArg

\* A packet that is no message and no bundle, a message that is read, the end.
LEMMA ReturnInv ==
  ASSUME IInv, Ignore \/ MessageRead \/ Handled PROVE IInv'
<1>0. /\ NoCall.at = 0 /\ NoCall.len = 0
      /\ NoArg.ptr = 0 /\ NoArg.end = 0 /\ NoArg.types = << >> /\ NoArg.vals = << >>
  BY DEF NoCall, NoArg
<1>1. CASE Ignore
  <2>1. /\ phase = "read" /\ phase' = phase /\ writer' = writer /\ len' = len
        /\ stack' = stack /\ arg' = arg /\ call' = NoCall
    BY <1>1 DEF Ignore, Reading
  <2>2. TypeOK' BY <1>0, <2>1, WriterUnchanged DEF IInv, TypeOK, MemOK
  <2>3. ReadersNest' BY <2>1 DEF IInv, ReadersNest
  <2> QED BY <2>1, <2>2, <2>3 DEF IInv
<1>2. CASE MessageRead
  <2>1. /\ phase = "read" /\ phase' = phase /\ writer' = writer /\ len' = len
        /\ stack' = stack /\ arg' = NoArg /\ call' = call
    BY <1>2 DEF MessageRead
  <2>2. TypeOK'
    <3>1. /\ arg'.ptr \in Nat /\ arg'.end \in Nat /\ DOMAIN arg' = DOMAIN NoArg
          /\ arg'.types \in Seq(Type) /\ Len(arg'.vals) \in Nat
      <4>1. NoArg.types \in Seq(Type) BY <1>0
      <4>2. Len(NoArg.vals) \in Nat BY <1>0
      <4>3. NoArg.ptr \in Nat /\ NoArg.end \in Nat BY <1>0
      <4> QED BY <2>1, <4>1, <4>2, <4>3
    <3>2. /\ MemOK' /\ ptr' \in 0 .. Size - 1 /\ len' \in 0 .. Size - 1
          /\ open' \in Seq(Frame) /\ msg' \in [path : Paths, args : Args, step : Nat]
      BY <2>1, WriterUnchanged
    <3>3. /\ call'.at \in Nat /\ call'.len \in Nat /\ phase' = "read"
          /\ stack' \in Seq({ stack'[i] : i \in DOMAIN stack' })
          /\ \A i \in DOMAIN stack' : /\ stack'[i].ptr \in Nat /\ stack'[i].size \in Nat
                                       /\ stack'[i].end \in Nat
      BY <2>1 DEF IInv, TypeOK
    <3> QED BY <3>1, <3>2, <3>3 DEF TypeOK, MemOK
  <2>3. len \in Nat BY DEF IInv, TypeOK
  <2>4. ReadersNest' BY <1>0, <2>1, <2>3 DEF IInv, ReadersNest
  <2> QED BY <2>1, <2>2, <2>4 DEF IInv
<1>3. CASE Handled
  <2>1. /\ phase' = "done" /\ writer' = writer /\ len' = len
        /\ stack' = stack /\ arg' = arg /\ call' = call
    BY <1>3 DEF Handled, reader
  <2>2. TypeOK' BY <2>1, WriterUnchanged DEF IInv, TypeOK, MemOK
  <2> QED BY <2>1, <2>2 DEF IInv, ReadersNest
<1> QED BY <1>1, <1>2, <1>3

\* A packet arrives: whatever its length, it is no longer than was written.
LEMMA ArriveInv ==
  ASSUME IInv, NEW n \in 1 .. Size, Arrive(n) PROVE IInv'
<1>1. /\ phase = "write" /\ phase' = "read" /\ writer' = writer /\ len' = n
      /\ call'.at = 0 /\ call'.len = n /\ stack' = stack /\ arg' = arg
      /\ n \in 0 .. Size - 1
  BY DEF Arrive, IInv, TypeOK
<1>2. stack = << >> /\ arg = NoArg BY <1>1 DEF IInv
<1>3. MemOK' /\ ptr' \in 0 .. Size - 1 /\ open' = open /\ msg' = msg
  BY <1>1 DEF IInv, TypeOK, MemOK, writer
<1>4. TypeOK' BY <1>1, <1>3 DEF IInv, TypeOK, MemOK
<1>5. arg.ptr = 0 /\ arg.end = 0 BY <1>2 DEF NoArg
<1>6. ReadersNest' BY <1>1, <1>2, <1>5 DEF ReadersNest
<1> QED BY <1>1, <1>2, <1>4, <1>6 DEF IInv

LEMMA InitInv == Init => IInv
<1> SUFFICES ASSUME Init PROVE IInv OBVIOUS
<1>1. \A i \in 0 .. Size - 1 : WordOK(mem[i]) BY DEF Init, Stale, WordOK, Word
<1>2. NoMsg \in [path : Paths, args : Args, step : Nat] BY DEF NoMsg, Paths, Args
<1>3. /\ NoCall.at = 0 /\ NoCall.len = 0
      /\ NoArg.ptr = 0 /\ NoArg.end = 0 /\ NoArg.types = << >> /\ NoArg.vals = << >>
  BY DEF NoCall, NoArg
<1>4. DOMAIN mem = 0 .. Size - 1 BY DEF Init
<1>5. stack = << >> /\ open = << >> BY DEF Init
<1>6. stack \in Seq({ stack[i] : i \in DOMAIN stack }) /\ open \in Seq(Frame) BY <1>5
<1>7. TypeOK BY <1>1, <1>2, <1>3, <1>4, <1>5, <1>6 DEF Init, TypeOK
<1> QED BY <1>5, <1>7 DEF Init, IInv, ReadersNest

LEMMA StepInv == IInv /\ [Next]_vars => IInv'
<1> SUFFICES ASSUME IInv, [Next]_vars PROVE IInv' OBVIOUS
<1>1. CASE Writer BY <1>1, WriterInv
<1>2. CASE Reader
  BY <1>2, OpenBundleInv, NextItemInv, OpenMessageInv, ReadArgInv, ReturnInv DEF Reader
<1>3. CASE \E n \in 1 .. Size : Arrive(n) BY <1>3, ArriveInv
<1>4. CASE UNCHANGED vars BY <1>4 DEF vars, IInv, TypeOK, ReadersNest
<1> QED BY <1>1, <1>2, <1>3, <1>4 DEF Next, Quiet

\* The inductive invariant, for buffers of every size and all messages.
THEOREM Invariance == Spec => []IInv
BY InitInv, StepInv, PTL DEF Spec

\* The writer never writes the last word of its buffer, or beyond, and what
\* is taken back leaves nothing but words of a kind: lv2_osc_writer_overflow.
THEOREM TypeCorrect == Spec => []TypeOK
<1>1. IInv => TypeOK BY DEF IInv
<1> QED BY <1>1, Invariance, PTL

\* Wherever a packet has been cut, and however bundles are nested in it, nothing
\* behind the end of what has arrived is read: lv2_osc_reader_overflow.
THEOREM ReadersStayInside == Spec => []ReadersNest
<1>1. IInv => ReadersNest BY DEF IInv
<1> QED BY <1>1, Invariance, PTL

-----------------------------------------------------------------------------
(***************************************************************************)
(* What is written in memory: packets and items of bundles in each other, and *)
(* messages in them; and where the readers stand in it.                    *)
(***************************************************************************)

\* Items and packets of what has been written: an item that is open ends, so far,
\* where the writer is; any other ends where its size word says.
Held == { open[k].ref : k \in { l \in DOMAIN open : open[l].kind = "item" } }
Items == { i \in 0 .. ptr - 1 : i \in Held \/ mem[i].kind = "size" }
ItemEnd(i) == IF i \in Held THEN ptr ELSE i + 1 + mem[i].val
Packets == { p \in 0 .. ptr - 1 : p = 0 \/ p - 1 \in Items }
PacketEnd(p) == IF p = 0 THEN ptr ELSE ItemEnd(p - 1)
NoItem(from, to) == \A i \in Items : i < from \/ to <= i

\* Where a message that is being written begins.
Current == IF open = << >> THEN 0 ELSE Top.ref + 1
Unfinished(p) == msg.step # 0 /\ p = Current

\* The frames that are open are in each other, an item in a bundle and a bundle in
\* an item.
FramesOK ==
  \A k \in DOMAIN open :
    /\ \A l \in DOMAIN open : k < l => open[k].ref < open[l].ref
    /\ k = 1 => open[k].kind = "bundle" /\ open[k].ref = 0
    /\ open[k].kind = "bundle" =>
         /\ open[k].ref + 4 <= ptr
         /\ mem[open[k].ref].kind = "#bundle"
         /\ mem[open[k].ref + 2].val = open[k].tag
         /\ k + 1 \in DOMAIN open =>
              open[k + 1].kind = "item" /\ open[k].ref + 4 <= open[k + 1].ref
    /\ open[k].kind = "item" =>
         /\ open[k].ref < ptr
         /\ k + 1 \in DOMAIN open =>
              open[k + 1].kind = "bundle" /\ open[k + 1].ref = open[k].ref + 1

\* Two items are apart or in each other, and none that is open in one that is not.
Nested ==
  \A i, j \in Items :
    i < j => \/ ItemEnd(i) <= j
             \/ ItemEnd(j) <= ItemEnd(i) /\ (j \in Held => i \in Held)

\* Behind an item is the next one, of the same or another bundle, or the end.
Joined ==
  \A i \in Items :
    /\ i < ItemEnd(i) /\ ItemEnd(i) <= ptr
    /\ i \notin Held => i + 1 < ItemEnd(i)
    /\ ItemEnd(i) < ptr => ItemEnd(i) \in Items

BundleAt(p) ==
  /\ mem[p].kind = "#bundle"
  /\ p + 4 <= PacketEnd(p)
  /\ NoItem(p, p + 4)
  /\ p + 4 < PacketEnd(p) => p + 4 \in Items

PieceOf(m, j) == IF j = 1 THEN Format(Types(m)) ELSE Value(m.args[j - 1])

\* Where the pieces of a message begin, and where they end.
Offsets(m) == [1 .. m.step -> Nat]
Holds(at, words) == \A i \in 1 .. Len(words) : mem[at + i - 1] = words[i]
Placed(m, p, e, at) ==
  /\ at[1] = p + m.path.words /\ at[m.step] = e
  /\ \A j \in 1 .. m.step : p < at[j] /\ at[j] <= e
  /\ \A j \in 1 .. m.step - 1 : /\ at[j + 1] = at[j] + Len(PieceOf(m, j))
                                /\ Holds(at[j], PieceOf(m, j))
LaidOut(m, p, e) ==
  /\ mem[p] = Word("string", [text |-> m.path, words |-> m.path.words])
  /\ NoItem(p, e)
  /\ \E at \in Offsets(m) : Placed(m, p, e, at)

\* The messages that are told of, in the order of their places.
Rooted == { p \in Packets : /\ mem[p].kind = "string" /\ mem[p].val.text.rooted
                            /\ ~Unfinished(p) }
Before(p) == Cardinality({ q \in Rooted : q < p })

\* A bundle in which a packet is an item, and not one of an item.
InnerOf(b, p) == /\ mem[b].kind = "#bundle" /\ b < p /\ p < PacketEnd(b)
                 /\ \A j \in Items : b <= j /\ j < p - 1 => ItemEnd(j) < p
TagOf(t, p) == /\ p = 0 => t = Immediate
               /\ \A b \in Packets : InnerOf(b, p) => t = mem[b + 2].val

Message == { m \in [path : Paths, args : Args, step : Nat] : m.step = Len(m.args) + 2 }
Told(m, p) ==
  \E t \in Tags \cup {Immediate} :
    /\ TagOf(t, p)
    /\ told[Before(p) + 1] = [tag |-> t, path |-> m.path, args |-> Values(m)]
MessageAt(p) == \E m \in Message : /\ LaidOut(m, p, PacketEnd(p))
                                   /\ m.path.rooted => Told(m, p)

PacketsOK == \A p \in Packets : BundleAt(p) \/ Unfinished(p) \/ MessageAt(p)
ToldOK == /\ told \in Seq({ told[i] : i \in DOMAIN told })
          /\ Len(told) = Cardinality(Rooted)

WritingOK ==
  /\ msg.step # 0 =>
       /\ open # << >> => Top.kind = "item"
       /\ msg.step <= Len(msg.args) + 2
       /\ Current < ptr
       /\ LaidOut(msg, Current, ptr)
  /\ phase \in {"read", "done", "fault"} =>
       open = << >> /\ msg.step = 0 /\ 0 < len /\ len <= ptr

Layout == FramesOK /\ Nested /\ Joined /\ PacketsOK /\ ToldOK /\ WritingOK

\* The bundle that a reader is for, and what it is at.
BundleOf(k) == IF k = 1 THEN 0 ELSE stack[k - 1].ptr
ReadsItem(s, b, end) ==
  /\ b \in Packets /\ mem[b].kind = "#bundle" /\ b + 4 <= s.ptr - 1
  /\ s.tag = mem[b + 2].val
  /\ s.end = end
  /\ s.ptr - 1 \in Items /\ s.size = mem[s.ptr - 1].val
  /\ \A j \in Items : b <= j /\ j < s.ptr - 1 => ItemEnd(j) <= s.ptr - 1
StackOK ==
  \A k \in DOMAIN stack :
    ReadsItem(stack[k], BundleOf(k), IF k = 1 THEN len ELSE PacketEnd(BundleOf(k)))

At == IF stack = << >> THEN 0 ELSE stack[Len(stack)].ptr
AtEnd == IF stack = << >> THEN len ELSE At + stack[Len(stack)].size
AtTag == IF stack = << >> THEN Immediate ELSE stack[Len(stack)].tag

HeardBefore(p) == heard = SubSeq(told, 1, Before(p))
CallOK == call # NoCall => /\ call = [tag |-> AtTag, at |-> At, len |-> AtEnd - At]
                           /\ arg = NoArg /\ HeardBefore(At)
ArgOK ==
  arg # NoArg =>
    /\ call = NoCall /\ HeardBefore(At)
    /\ At \in Rooted /\ arg.tag = AtTag /\ arg.end = AtEnd
    /\ \E m \in Message :
         /\ LaidOut(m, At, PacketEnd(At)) /\ Told(m, At)
         /\ arg.path = m.path /\ arg.types = Types(m)
         /\ Len(arg.vals) <= Len(m.args)
         /\ arg.vals = SubSeq(Values(m), 1, Len(arg.vals))
         /\ \E at \in Offsets(m) : /\ Placed(m, At, PacketEnd(At), at)
                                   /\ arg.ptr = at[Len(arg.vals) + 2]
HeardSome == /\ \E n \in 0 .. Len(told) : heard = SubSeq(told, 1, n)
             /\ len = ptr => heard = told
IdleOK == call = NoCall /\ arg = NoArg => IF stack = << >> THEN HeardSome
                                          ELSE HeardBefore(AtEnd)

Reads ==
  /\ phase \in {"write", "failed"} => heard = << >>
  /\ phase = "read" => StackOK /\ CallOK /\ ArgOK /\ IdleOK
  /\ phase = "done" => HeardSome
  /\ phase = "fault" => /\ \E n \in 0 .. Len(told) : heard = SubSeq(told, 1, n)
                        /\ len < ptr /\ mem[0].kind = "string"

LInv == IInv /\ Layout /\ Reads

-----------------------------------------------------------------------------
(***************************************************************************)
(* Items, packets and frames.                                              *)
(***************************************************************************)

\* Places.
LEMMA UpTo == \A n \in Nat : \A p \in 0 .. n - 1 : p \in Nat /\ p < n
OBVIOUS

LEMMA InFront == \A p, q \in Nat : p < q <=> p \in 0 .. q - 1
OBVIOUS

\* What the writer's variables are.
LEMMA WriterTypes ==
  ASSUME IInv
  PROVE  /\ ptr \in 0 .. Size - 1 /\ DOMAIN mem = 0 .. Size - 1
         /\ \A i \in 0 .. Size - 1 : mem[i].kind = "size" => mem[i].val \in Nat
         /\ Len(open) \in Nat /\ DOMAIN open = 1 .. Len(open)
         /\ \A k \in 1 .. Len(open) : /\ open[k].kind \in {"bundle", "item"}
                                      /\ open[k].ref \in 0 .. Size - 1
                                      /\ open[k].tag \in Tags \cup {Immediate}
<1>1. ptr \in 0 .. Size - 1 /\ DOMAIN mem = 0 .. Size - 1 /\ open \in Seq(Frame)
  BY DEF IInv, TypeOK
<1>2. \A i \in 0 .. Size - 1 : WordOK(mem[i]) BY DEF IInv, TypeOK
<1>3. \A i \in 0 .. Size - 1 : mem[i].kind = "size" => mem[i].val \in Nat
  BY <1>2 DEF WordOK
<1>4. Len(open) \in Nat /\ DOMAIN open = 1 .. Len(open) BY <1>1
<1>5. ASSUME NEW k \in 1 .. Len(open)
      PROVE  /\ open[k].kind \in {"bundle", "item"}
             /\ open[k].ref \in 0 .. Size - 1
             /\ open[k].tag \in Tags \cup {Immediate}
  <2>1. open[k] \in Frame BY <1>1, <1>4
  <2> QED BY <2>1 DEF Frame
<1> QED BY <1>1, <1>3, <1>4, <1>5

\* The innermost frame is one of the writer's.
LEMMA TopIs ==
  ASSUME IInv, open # << >>
  PROVE  /\ Len(open) \in 1 .. Len(open) /\ Top = open[Len(open)]
         /\ Top.kind \in {"bundle", "item"} /\ Top.ref \in 0 .. Size - 1
<1>1. open \in Seq(Frame) BY DEF IInv, TypeOK
<1>2. Len(open) \in 1 .. Len(open) BY <1>1
<1> QED BY <1>2, WriterTypes DEF Top

\* Items that are open are items, and the frame on top is the last of them.
LEMMA HeldAreItems ==
  ASSUME IInv, FramesOK
  PROVE  /\ Held \subseteq Items /\ Held \subseteq 0 .. ptr - 1
         /\ \A i \in Held : \E k \in 1 .. Len(open) : open[k].kind = "item" /\ open[k].ref = i
<1>1. ASSUME NEW i \in Held
      PROVE  /\ i \in 0 .. ptr - 1
             /\ \E k \in 1 .. Len(open) : open[k].kind = "item" /\ open[k].ref = i
  <2>1. PICK k \in DOMAIN open : open[k].kind = "item" /\ open[k].ref = i BY DEF Held
  <2>2. k \in 1 .. Len(open) /\ i \in 0 .. Size - 1 BY <2>1, WriterTypes
  <2>3. i < ptr BY <2>1 DEF FramesOK
  <2>4. i \in 0 .. ptr - 1 BY <2>2, <2>3, WriterTypes
  <2> QED BY <2>1, <2>2, <2>4
<1> QED BY <1>1 DEF Items

\* Every other frame is in front of the innermost one.
LEMMA TopIsLast ==
  ASSUME IInv, FramesOK, open # << >>
  PROVE  /\ \A i \in Held : i < Top.ref \/ (i = Top.ref /\ Top.kind = "item")
         /\ Top.kind = "item" => Top.ref \in Held
         /\ Top.ref < ptr
<1> DEFINE n == Len(open)
<1>1. n \in 1 .. n /\ Top = open[n] /\ DOMAIN open = 1 .. n /\ n \in Nat BY TopIs, WriterTypes
<1> HIDE DEF n
<1>2. ASSUME NEW i \in Held PROVE i < Top.ref \/ (i = Top.ref /\ Top.kind = "item")
  <2>1. PICK k \in 1 .. n : open[k].kind = "item" /\ open[k].ref = i BY HeldAreItems DEF n
  <2>2. k < n => open[k].ref < open[n].ref BY <1>1 DEF FramesOK
  <2> QED BY <1>1, <2>1, <2>2
<1>3. Top.kind = "item" => Top.ref \in Held BY <1>1 DEF Held
<1>4. Top.ref < ptr
  <2>1. Top.ref + 4 <= ptr \/ Top.ref < ptr BY <1>1, TopIs DEF FramesOK
  <2> QED BY <2>1, TopIs, WriterTypes
<1> QED BY <1>2, <1>3, <1>4

\* Where items are and end.
LEMMA ItemsAre ==
  ASSUME IInv, FramesOK, Joined, NEW i \in Items
  PROVE  /\ i \in Nat /\ i \in 0 .. ptr - 1 /\ ItemEnd(i) \in Nat
         /\ i < ItemEnd(i) /\ ItemEnd(i) <= ptr
         /\ i \in Held => ItemEnd(i) = ptr
         /\ i \notin Held => i + 1 < ItemEnd(i) /\ ItemEnd(i) = i + 1 + mem[i].val
                             /\ mem[i].kind = "size"
<1>0. ptr \in 0 .. Size - 1 BY WriterTypes
<1>1. i \in 0 .. ptr - 1 BY DEF Items
<1>2. i \in 0 .. Size - 1 BY <1>0, <1>1
<1>3. i \in Held => ItemEnd(i) = ptr BY DEF ItemEnd
<1>4. i \notin Held => /\ ItemEnd(i) = i + 1 + mem[i].val /\ mem[i].val \in Nat
                       /\ mem[i].kind = "size"
  <2> SUFFICES ASSUME i \notin Held
               PROVE  /\ ItemEnd(i) = i + 1 + mem[i].val /\ mem[i].val \in Nat
                      /\ mem[i].kind = "size"
    OBVIOUS
  <2>1. mem[i].kind = "size" BY DEF Items
  <2>2. mem[i].val \in Nat BY <1>2, <2>1, WriterTypes
  <2> QED BY <2>1, <2>2 DEF ItemEnd
<1>5. ItemEnd(i) \in Nat BY <1>0, <1>1, <1>3, <1>4
<1> QED BY <1>0, <1>1, <1>3, <1>4, <1>5 DEF Joined

\* Packets are not empty, and end where the writer is or before.
LEMMA PacketsAre ==
  ASSUME IInv, FramesOK, Joined, NEW p \in Packets
  PROVE  /\ p \in Nat /\ p < ptr /\ PacketEnd(p) \in Nat
         /\ p < PacketEnd(p) /\ PacketEnd(p) <= ptr
         /\ p # 0 => p - 1 \in Items /\ PacketEnd(p) = ItemEnd(p - 1)
<1>1. p \in 0 .. ptr - 1 /\ ptr \in Nat /\ (p # 0 => p - 1 \in Items)
  BY WriterTypes DEF Packets
<1>2. CASE p = 0 BY <1>1, <1>2 DEF PacketEnd
<1>3. CASE p # 0
  <2>1. p - 1 \in Items /\ PacketEnd(p) = ItemEnd(p - 1) BY <1>1, <1>3 DEF PacketEnd
  <2>2. /\ ItemEnd(p - 1) \in Nat /\ ItemEnd(p - 1) <= ptr
        /\ p - 1 \in Held => ItemEnd(p - 1) = ptr
        /\ p - 1 \notin Held => p - 1 + 1 < ItemEnd(p - 1)
    BY <2>1, ItemsAre
  <2> QED BY <1>1, <2>1, <2>2
<1> QED BY <1>2, <1>3

\* A packet that is not ended is a bundle with a frame, or the last one.
LEMMA OpenPackets ==
  ASSUME IInv, FramesOK, NEW p \in Packets, p = 0 \/ p - 1 \in Held, open # << >>
  PROVE  mem[p].kind = "#bundle" \/ (Top.kind = "item" /\ p = Current)
<1> DEFINE n == Len(open)
<1>1. n \in 1 .. n /\ Top = open[n] /\ DOMAIN open = 1 .. n /\ n \in Nat BY TopIs, WriterTypes
<1> HIDE DEF n
<1>2. CASE p = 0
  <2>1. 1 \in DOMAIN open BY <1>1
  <2>2. open[1].kind = "bundle" /\ open[1].ref = 0 BY <2>1 DEF FramesOK
  <2> QED BY <1>2, <2>1, <2>2 DEF FramesOK
<1>3. CASE p - 1 \in Held
  <2>1. PICK k \in 1 .. n : open[k].kind = "item" /\ open[k].ref = p - 1
    BY <1>3, HeldAreItems DEF n
  <2>2. p \in Nat BY WriterTypes DEF Packets
  <2>3. CASE k = n BY <1>1, <2>1, <2>2, <2>3 DEF Current
  <2>4. CASE k # n
    <3>1. k + 1 \in DOMAIN open BY <1>1, <2>4
    <3>2. open[k + 1].kind = "bundle" /\ open[k + 1].ref = p
      BY <1>1, <2>1, <2>2, <3>1 DEF FramesOK
    <3> QED BY <3>1, <3>2 DEF FramesOK
  <2> QED BY <2>3, <2>4
<1> QED BY <1>2, <1>3

-----------------------------------------------------------------------------
(***************************************************************************)
(* What of them stays when the writer goes on.                             *)
(***************************************************************************)

\* What all steps of the writer have in common: words behind the end are written or
\* taken back, an item that is open ends where the writer is, the last of them may
\* be closed.
Steady ==
  /\ ptr' \in Nat
  /\ \A i \in 0 .. ptr - 1 : i < ptr' => /\ i \in Items' <=> i \in Items
                                         /\ i \notin Items => mem'[i] = mem[i]
                                         /\ i \in Held' => i \in Held
  /\ \A i \in Items' : i \in Nat /\ i < ptr' /\ (i < ptr \/ (i = ptr /\ i \in Held'))
  /\ \A i \in Items : i < ptr' => ItemEnd(i)' = IF i \in Held' THEN ptr' ELSE ItemEnd(i)
  /\ \A i \in Held, j \in Held' : i < j => i \in Held'
  /\ \A i \in Items \ Held : i < ptr' => /\ ItemEnd(i) <= ptr'
                                         /\ ItemEnd(i) < ptr' => ItemEnd(i) \in Items'
  /\ \A i \in Held \ Held' : i < ptr' => ptr' = ptr /\ i + 1 < ptr

\* What stays of an item and of a packet, they end where they did.
LEMMA EndsOf ==
  ASSUME IInv, FramesOK, Joined, Steady, NEW i \in Items'
  PROVE  /\ i \in Nat /\ i < ptr' /\ ItemEnd(i)' \in Nat /\ i < ItemEnd(i)' /\ ItemEnd(i)' <= ptr'
         /\ i \in Held' => ItemEnd(i)' = ptr'
         /\ i \notin Held' => i \in Items /\ i + 1 < ItemEnd(i)' /\ ItemEnd(i)' = ItemEnd(i)
         /\ i < ptr => i \in Items
         /\ i \in Held' /\ i < ptr => i \in Held
<1>1. i \in Nat /\ i < ptr' /\ (i < ptr \/ (i = ptr /\ i \in Held')) BY DEF Steady
<1>2. i < ptr => i \in Items /\ (i \in Held' => i \in Held)
  <2> SUFFICES ASSUME i < ptr PROVE i \in Items /\ (i \in Held' => i \in Held) OBVIOUS
  <2>1. i \in 0 .. ptr - 1 BY <1>1, WriterTypes
  <2> QED BY <1>1, <2>1 DEF Steady
<1>3. i \in Held' => ItemEnd(i)' = ptr' BY DEF ItemEnd
<1>4. ptr' \in Nat BY DEF Steady
<1>5. i \notin Held' => i \in Items /\ i + 1 < ItemEnd(i) /\ ItemEnd(i)' = ItemEnd(i) /\ ItemEnd(i) <= ptr'
  <2> SUFFICES ASSUME i \notin Held'
               PROVE i \in Items /\ i + 1 < ItemEnd(i) /\ ItemEnd(i)' = ItemEnd(i) /\ ItemEnd(i) <= ptr'
    OBVIOUS
  <2>1. i \in Items BY <1>1, <1>2
  <2>2. ItemEnd(i)' = ItemEnd(i) BY <1>1, <2>1 DEF Steady
  <2>3. CASE i \in Held
    <3>1. ptr' = ptr /\ i + 1 < ptr BY <1>1, <2>3 DEF Steady
    <3> QED BY <2>1, <2>2, <2>3, <3>1, ItemsAre
  <2>4. CASE i \notin Held
    <3>1. ItemEnd(i) <= ptr' BY <1>1, <2>1, <2>4 DEF Steady
    <3> QED BY <2>1, <2>2, <2>4, <3>1, ItemsAre
  <2> QED BY <2>3, <2>4
<1>6. i \notin Held' => ItemEnd(i) \in Nat BY <1>5, ItemsAre
<1> QED BY <1>1, <1>2, <1>3, <1>4, <1>5, <1>6

\* Items stay apart or in each other, and followed by items.
LEMMA SteadyItems ==
  ASSUME IInv, FramesOK, Nested, Joined, Steady
  PROVE  Nested' /\ Joined'
<1>0. ptr \in Nat /\ ptr' \in Nat BY WriterTypes DEF Steady
<1>1. ASSUME NEW i \in Items', NEW j \in Items', i < j
      PROVE  \/ ItemEnd(i)' <= j
             \/ ItemEnd(j)' <= ItemEnd(i)' /\ (j \in Held' => i \in Held')
  <2>1. /\ i \in Nat /\ j \in Nat /\ j < ptr' /\ ItemEnd(i)' \in Nat /\ ItemEnd(j)' \in Nat
        /\ ItemEnd(j)' <= ptr' /\ i < ptr' /\ j < ItemEnd(j)'
        /\ i \in Held' => ItemEnd(i)' = ptr'
        /\ j \in Held' => ItemEnd(j)' = ptr'
    BY EndsOf
  <2>2. CASE i \in Held' BY <2>1, <2>2
  <2>3. CASE i \notin Held'
    <3>1. i \in Items /\ ItemEnd(i)' = ItemEnd(i) /\ ItemEnd(i) <= ptr' BY <2>3, EndsOf
    <3>2. ItemEnd(i) \in Nat /\ ItemEnd(i) <= ptr /\ (i \in Held => ItemEnd(i) = ptr)
      BY <3>1, ItemsAre
    <3>3. j \in Held' => i \notin Held BY <1>1, <2>3 DEF Steady
    <3>4. CASE j < ptr
      <4>1. j \in Items /\ (j \in Held' => j \in Held) BY <3>4, EndsOf
      <4>2. ItemEnd(i) <= j \/ (ItemEnd(j) <= ItemEnd(i) /\ (j \in Held => i \in Held))
        BY <1>1, <3>1, <4>1 DEF Nested
      <4>3. j \notin Held' => ItemEnd(j)' = ItemEnd(j) BY EndsOf
      <4> QED BY <3>1, <3>3, <4>1, <4>2, <4>3
    <3>5. CASE ~(j < ptr)
      <4>1. j = ptr BY <3>5 DEF Steady
      <4> QED BY <3>1, <3>2, <4>1
    <3> QED BY <3>4, <3>5
  <2> QED BY <2>2, <2>3
<1>2. Nested' BY <1>1 DEF Nested
<1>3. ASSUME NEW i \in Items', ItemEnd(i)' < ptr' PROVE ItemEnd(i)' \in Items'
  <2>1. i \notin Held' /\ i \in Items /\ ItemEnd(i)' = ItemEnd(i) /\ i < ptr'
    BY <1>0, <1>3, EndsOf
  <2>2. i \notin Held
    <3> SUFFICES ASSUME i \in Held PROVE FALSE OBVIOUS
    <3>1. ptr' = ptr BY <2>1 DEF Steady
    <3>2. ItemEnd(i) = ptr BY <2>1, ItemsAre
    <3> QED BY <1>0, <1>3, <2>1, <3>1, <3>2
  <2> QED BY <1>3, <2>1, <2>2 DEF Steady
<1>4. Joined' BY <1>3, EndsOf DEF Joined
<1> QED BY <1>2, <1>4

\* Packets that were and are still written.
LEMMA SteadyPacket ==
  ASSUME IInv, FramesOK, Joined, Steady, NEW p \in Nat, p < ptr, p < ptr'
  PROVE  /\ p \in Packets' <=> p \in Packets
         /\ p \in Packets => PacketEnd(p)' = IF p = 0 \/ p - 1 \in Held' THEN ptr'
                                             ELSE PacketEnd(p)
         /\ p \in Packets /\ p # 0 /\ p - 1 \in Held' => p - 1 \in Held
<1>0. ptr \in Nat BY WriterTypes
<1>1. ptr' \in Nat BY DEF Steady
<1>2. p # 0 => (p - 1 \in Items' <=> p - 1 \in Items) /\ (p - 1 \in Held' => p - 1 \in Held)
  <2> SUFFICES ASSUME p # 0
               PROVE (p - 1 \in Items' <=> p - 1 \in Items) /\ (p - 1 \in Held' => p - 1 \in Held)
    OBVIOUS
  <2>0. p - 1 \in 0 .. ptr - 1 BY <1>0
  <2>1. p - 1 < ptr' BY <1>1
  <2> QED BY <2>0, <2>1 DEF Steady
<1>3. p \in Packets' <=> p \in Packets
  <2>0. p < ptr /\ p < ptr' OBVIOUS
  <2>1. p \in 0 .. ptr - 1 BY <1>0, <2>0
  <2>2. p \in 0 .. ptr' - 1 BY <1>1, <2>0, InFront
  <2>3. p \in Packets <=> (p = 0 \/ p - 1 \in Items) BY <2>1 DEF Packets
  <2>4. p \in Packets' <=> (p = 0 \/ p - 1 \in Items') BY <2>2 DEF Packets
  <2> QED BY <1>2, <2>3, <2>4
<1>4. ASSUME p \in Packets PROVE PacketEnd(p)' = IF p = 0 \/ p - 1 \in Held' THEN ptr' ELSE PacketEnd(p)
  <2>1. CASE p = 0 BY <2>1 DEF PacketEnd
  <2>2. CASE p # 0
    <3>1. p - 1 \in Items /\ PacketEnd(p) = ItemEnd(p - 1) BY <1>4, <2>2, PacketsAre
    <3>2. PacketEnd(p)' = ItemEnd(p - 1)' BY <2>2 DEF PacketEnd
    <3>3. p - 1 < ptr' BY <1>1, <2>2
    <3>4. ItemEnd(p - 1)' = IF p - 1 \in Held' THEN ptr' ELSE ItemEnd(p - 1)
      BY <3>1, <3>3 DEF Steady
    <3> QED BY <2>2, <3>1, <3>2, <3>4
  <2> QED BY <2>1, <2>2
<1> QED BY <1>2, <1>3, <1>4

\* No packet is an item: it starts with a bundle's head or a path.
LEMMA PacketIsNoItem ==
  ASSUME IInv, FramesOK, Joined, PacketsOK, WritingOK, NEW p \in Packets
  PROVE  /\ p \notin Items
         /\ mem[p].kind = "#bundle" => BundleAt(p) /\ p + 4 <= ptr
         /\ mem[p].kind # "#bundle" =>
              /\ mem[p].kind = "string"
              /\ NoItem(p, PacketEnd(p))
              /\ Unfinished(p) \/ MessageAt(p)
<1>0. /\ p \in Nat /\ p < ptr /\ PacketEnd(p) \in Nat /\ p < PacketEnd(p) /\ PacketEnd(p) <= ptr
      /\ p # 0 => p - 1 \in Items /\ PacketEnd(p) = ItemEnd(p - 1)
  BY PacketsAre
<1>00. ptr \in Nat BY WriterTypes
<1>1. BundleAt(p) \/ Unfinished(p) \/ MessageAt(p) BY DEF PacketsOK
<1>2. CASE BundleAt(p)
  <2>1. mem[p].kind = "#bundle" /\ NoItem(p, p + 4) /\ p + 4 <= PacketEnd(p) BY <1>2 DEF BundleAt
  <2>2. p \notin Items BY <1>0, <2>1 DEF NoItem
  <2> QED BY <1>0, <1>00, <1>2, <2>1, <2>2
<1>3. CASE MessageAt(p)
  <2>1. mem[p].kind = "string" /\ NoItem(p, PacketEnd(p))
    BY <1>3 DEF MessageAt, LaidOut, Word
  <2>2. p \notin Items BY <1>0, <2>1 DEF NoItem
  <2> QED BY <1>3, <2>1, <2>2
<1>4. CASE Unfinished(p)
  <2>1. LaidOut(msg, p, ptr) /\ (open # << >> => Top.kind = "item")
    BY <1>4 DEF WritingOK, Unfinished
  <2>2. PacketEnd(p) = ptr
    <3>1. CASE open = << >> BY <1>4, <3>1 DEF Unfinished, Current, PacketEnd
    <3>2. CASE open # << >>
      <4>1. p - 1 = Top.ref /\ Top.ref \in Held /\ p # 0
        BY <1>4, <2>1, <3>2, TopIs, TopIsLast DEF Unfinished, Current
      <4> QED BY <4>1 DEF PacketEnd, ItemEnd
    <3> QED BY <3>1, <3>2
  <2>3. mem[p].kind = "string" /\ NoItem(p, PacketEnd(p))
    BY <2>1, <2>2 DEF LaidOut, Word
  <2>4. p \notin Items BY <1>0, <2>3 DEF NoItem
  <2> QED BY <1>4, <2>3, <2>4
<1> QED BY <1>1, <1>2, <1>3, <1>4

\* The tag of a packet stays that of the bundle it is in.
LEMMA TagStays ==
  ASSUME IInv, FramesOK, Joined, PacketsOK, WritingOK, Steady,
         NEW p \in Packets, p < ptr', NEW t, TagOf(t, p)
  PROVE  TagOf(t, p)'
<1>0. p \in Nat /\ p < ptr /\ ptr \in Nat /\ ptr' \in Nat
  BY PacketsAre, WriterTypes DEF Steady
<1>1. ASSUME NEW b \in Packets', InnerOf(b, p)' PROVE t = mem'[b + 2].val
  <2>1. b \in Nat /\ b < ptr' /\ b < p
    <3>1. b \in 0 .. ptr' - 1 BY DEF Packets
    <3>2. b < p BY <1>1 DEF InnerOf
    <3> QED BY <1>0, <3>1, <3>2
  <2>2. b \in Packets BY <1>0, <2>1, SteadyPacket
  <2>3. b \notin Items /\ (mem[b].kind = "#bundle" => BundleAt(b) /\ b + 4 <= ptr) BY <2>2, PacketIsNoItem
  <2>4. mem'[b] = mem[b]
    <3>1. b \in 0 .. ptr - 1 BY <1>0, <2>1
    <3> QED BY <2>1, <2>3, <3>1 DEF Steady
  <2>5. mem[b].kind = "#bundle" BY <1>1, <2>4 DEF InnerOf
  <2>6. p < PacketEnd(b)
    <3>1. /\ PacketEnd(b)' = IF b = 0 \/ b - 1 \in Held' THEN ptr' ELSE PacketEnd(b)
          /\ b # 0 /\ b - 1 \in Held' => b - 1 \in Held
      BY <1>0, <2>1, <2>2, SteadyPacket
    <3>2. p < PacketEnd(b)' BY <1>1 DEF InnerOf
    <3>3. b = 0 \/ b - 1 \in Held => PacketEnd(b) = ptr BY DEF PacketEnd, ItemEnd
    <3> QED BY <1>0, <3>1, <3>2, <3>3
  <2>7. ASSUME NEW j \in Items, b <= j, j < p - 1 PROVE ItemEnd(j) < p
    <3>1. j \in 0 .. ptr - 1 /\ j < ptr' /\ j \in Nat
      <4>1. j \in 0 .. ptr - 1 /\ j \in Nat BY ItemsAre
      <4> QED BY <1>0, <2>7, <4>1
    <3>2. j \in Items' BY <3>1 DEF Steady
    <3>3. ItemEnd(j)' < p BY <1>1, <2>7, <3>2 DEF InnerOf
    <3>4. ItemEnd(j)' = IF j \in Held' THEN ptr' ELSE ItemEnd(j) BY <3>1 DEF Steady
    <3> QED BY <1>0, <3>3, <3>4
  <2>8. InnerOf(b, p) BY <2>1, <2>5, <2>6, <2>7 DEF InnerOf
  <2>9. t = mem[b + 2].val BY <2>2, <2>8 DEF TagOf
  <2>10. mem'[b + 2] = mem[b + 2]
    <3>1. NoItem(b, b + 4) /\ b + 4 <= ptr BY <2>3, <2>5 DEF BundleAt
    <3>2. b + 2 \notin Items BY <2>1, <3>1 DEF NoItem
    <3>3. b + 2 \in 0 .. ptr - 1 BY <1>0, <2>1, <3>1
    <3>4. b + 2 < ptr'
      <4>1. p \notin b + 1 .. b + 3
        <5> SUFFICES ASSUME p \in b + 1 .. b + 3 PROVE FALSE OBVIOUS
        <5>1. p - 1 \in Items /\ b <= p - 1 /\ p - 1 < b + 4 BY <2>1, PacketsAre
        <5> QED BY <2>1, <3>1, <5>1, <1>0 DEF NoItem
      <4> QED BY <1>0, <2>1, <4>1
    <3> QED BY <3>2, <3>3, <3>4 DEF Steady
  <2> QED BY <2>9, <2>10
<1>2. p = 0 => t = Immediate BY DEF TagOf
<1> QED BY <1>1, <1>2 DEF TagOf

\* A message, or as much of it as is written.
Begun == { m \in [path : Paths, args : Args, step : Nat] : m.step \in 1 .. Len(m.args) + 2 }

\* The pieces of a message are words that are no sizes of items.
LEMMA PieceOfIsWords ==
  ASSUME NEW m \in [path : Paths, args : Args, step : Nat], NEW j \in 1 .. Len(m.args) + 1
  PROVE  Words(PieceOf(m, j))
<1>1. /\ Len(m.args) \in Nat /\ DOMAIN m.args = 1 .. Len(m.args)
      /\ \A i \in DOMAIN m.args : IsArg(m.args[i])
  BY PathsAndArgs
<1>2. CASE j = 1
  <2>1. Types(m) \in Seq(Type)
    <3>1. \A i \in 1 .. Len(m.args) : m.args[i].type \in Type BY <1>1 DEF IsArg
    <3>2. Types(m) \in [1 .. Len(m.args) -> Type] BY <3>1 DEF Types
    <3> QED BY <1>1, <3>2
  <2> QED BY <1>2, <2>1, FormatIsWords DEF PieceOf
<1>3. CASE j # 1
  <2>1. j - 1 \in DOMAIN m.args BY <1>1, <1>3
  <2>2. IsArg(m.args[j - 1]) BY <1>1, <2>1
  <2> QED BY <1>3, <2>2, ValueIsWords DEF PieceOf
<1> QED BY <1>2, <1>3

\* What is written of a message stays where nothing of it is written over.
LEMMA LaidOutStays ==
  ASSUME NEW m \in Begun, NEW p \in Nat, NEW e \in Nat, p < e, LaidOut(m, p, e),
         \A x \in p .. e - 1 : mem'[x] = mem[x], NoItem(p, e)'
  PROVE  LaidOut(m, p, e)'
<1>0. /\ m \in [path : Paths, args : Args, step : Nat] /\ m.step \in 1 .. Len(m.args) + 2
      /\ Len(m.args) \in Nat
  BY PathsAndArgs DEF Begun
<1>1. PICK at \in Offsets(m) : Placed(m, p, e, at) BY DEF LaidOut
<1>2. mem'[p] = Word("string", [text |-> m.path, words |-> m.path.words])
  <2>1. p \in p .. e - 1 OBVIOUS
  <2> QED BY <2>1 DEF LaidOut
<1>3. ASSUME NEW j \in 1 .. m.step - 1
      PROVE  /\ at[j + 1] = at[j] + Len(PieceOf(m, j))
             /\ \A i \in 1 .. Len(PieceOf(m, j)) : mem'[at[j] + i - 1] = PieceOf(m, j)[i]
  <2> DEFINE n == Len(PieceOf(m, j))
             a == at[j]
  <2>1. n \in Nat
    <3>1. j \in 1 .. Len(m.args) + 1 BY <1>0
    <3> QED BY <1>0, <3>1, PieceOfIsWords DEF Words
  <2>2. j \in 1 .. m.step /\ j + 1 \in 1 .. m.step BY <1>0
  <2>3. a \in Nat /\ at[j + 1] \in Nat BY <2>2 DEF Offsets
  <2>4. p < a /\ at[j + 1] <= e /\ at[j + 1] = a + n BY <1>1, <2>2 DEF Placed
  <2>5. \A i \in 1 .. n : mem[a + i - 1] = PieceOf(m, j)[i] BY <1>1 DEF Placed, Holds
  <2> HIDE DEF n, a
  <2>6. ASSUME NEW i \in 1 .. n PROVE mem'[a + i - 1] = PieceOf(m, j)[i]
    <3>1. a + i - 1 \in p .. e - 1 BY <2>1, <2>3, <2>4
    <3> QED BY <2>5, <3>1
  <2> QED BY <2>4, <2>6 DEF n, a
<1>4. Placed(m, p, e, at)' BY <1>1, <1>3 DEF Placed, Holds
<1>5. at \in Offsets(m)' BY DEF Offsets
<1> QED BY <1>2, <1>4, <1>5 DEF LaidOut

\* A whole message is one that has been begun.
LEMMA MessageIsBegun == Message \subseteq Begun
<1>1. ASSUME NEW m \in Message PROVE m \in Begun
  <2>1. m \in [path : Paths, args : Args, step : Nat] /\ m.step = Len(m.args) + 2 BY DEF Message
  <2>2. Len(m.args) \in Nat BY <2>1, PathsAndArgs
  <2> QED BY <2>1, <2>2 DEF Begun
<1> QED BY <1>1

\* A message in an item that is ended stays, and what is told of it.
LEMMA MessageStays ==
  ASSUME IInv, FramesOK, Joined, PacketsOK, WritingOK, Steady,
         NEW p \in Packets, p < ptr', MessageAt(p),
         p # 0, p - 1 \notin Held',
         PacketEnd(p) <= ptr',
         mem[p].val.text.rooted =>
           Before(p)' = Before(p) /\ told'[Before(p) + 1] = told[Before(p) + 1]
  PROVE  MessageAt(p)'
<1>0. /\ p \in Nat /\ p < ptr /\ PacketEnd(p) \in Nat /\ p < PacketEnd(p)
      /\ PacketEnd(p) <= ptr
  BY PacketsAre
<1>1. ptr \in Nat BY WriterTypes
<1>2. ptr' \in Nat BY DEF Steady
<1>3. PacketEnd(p)' = PacketEnd(p) BY <1>0, SteadyPacket
<1>a. PICK e \in Nat : e = PacketEnd(p) BY <1>0
<1>4. PICK m \in Message : LaidOut(m, p, e) /\ (m.path.rooted => Told(m, p))
  BY <1>a DEF MessageAt
<1>5. e \in Nat /\ p < e /\ e <= ptr /\ e <= ptr' BY <1>0, <1>a
<1>6. PacketEnd(p)' = e BY <1>3, <1>a
<1>7. NoItem(p, e) BY <1>4 DEF LaidOut
<1>8. ASSUME NEW x \in p .. e - 1 PROVE x \notin Items /\ x \in 0 .. ptr - 1 /\ x < ptr'
  <2>1. x \in 0 .. ptr - 1 BY <1>0, <1>1, <1>5
  <2>2. x < ptr' BY <1>0, <1>2, <1>5
  <2>3. x \notin Items BY <1>0, <1>5, <1>7 DEF NoItem
  <2> QED BY <2>1, <2>2, <2>3
<1>9. \A x \in p .. e - 1 : mem'[x] = mem[x] /\ x \notin Items' BY <1>8 DEF Steady
<1>10. NoItem(p, e)'
  <2>1. \A i \in Items' : i \in Nat BY DEF Steady
  <2> QED BY <1>0, <1>5, <1>9, <2>1 DEF NoItem
<1>11. LaidOut(m, p, e)' BY <1>0, <1>4, <1>5, <1>9, <1>10, LaidOutStays, MessageIsBegun
<1>12. ASSUME m.path.rooted PROVE Told(m, p)'
  <2>1. mem[p].val.text = m.path BY <1>4 DEF LaidOut, Word
  <2>2. Before(p)' = Before(p) /\ told'[Before(p) + 1] = told[Before(p) + 1] BY <1>12, <2>1
  <2>3. PICK t \in Tags \cup {Immediate} :
          /\ TagOf(t, p)
          /\ told[Before(p) + 1] = [tag |-> t, path |-> m.path, args |-> Values(m)]
    BY <1>4, <1>12 DEF Told
  <2>4. TagOf(t, p)' BY <2>3, TagStays
  <2> QED BY <2>2, <2>3, <2>4 DEF Told
<1> QED BY <1>6, <1>11, <1>12 DEF MessageAt

\* A bundle's head stays, and is followed by an item if by anything.
LEMMA BundleStays ==
  ASSUME IInv, FramesOK, Joined, Steady,
         NEW p \in Packets, p < ptr', BundleAt(p),
         p + 4 <= ptr', p + 4 <= PacketEnd(p)',
         p + 4 = PacketEnd(p) => p + 4 = PacketEnd(p)' \/ p + 4 \in Items'
  PROVE  BundleAt(p)'
<1>0. /\ p \in Nat /\ p < ptr /\ PacketEnd(p) \in Nat /\ p < PacketEnd(p)
      /\ PacketEnd(p) <= ptr
  BY PacketsAre
<1>1. ptr \in Nat BY WriterTypes
<1>2. ptr' \in Nat BY DEF Steady
<1>3. p + 4 <= ptr /\ NoItem(p, p + 4) BY <1>0, <1>1 DEF BundleAt
<1>4. ASSUME NEW x \in p .. p + 3 PROVE mem'[x] = mem[x] /\ x \notin Items'
  <2>1. x \notin Items BY <1>0, <1>3 DEF NoItem
  <2>2. x \in 0 .. ptr - 1 BY <1>0, <1>1, <1>3
  <2>3. x < ptr' BY <1>0, <1>2
  <2> QED BY <2>1, <2>2, <2>3 DEF Steady
<1>5. mem'[p] = mem[p]
  <2>1. p \in p .. p + 3 BY <1>0
  <2> QED BY <1>4, <2>1
<1>6. NoItem(p, p + 4)'
  <2>1. \A i \in Items' : i \in Nat BY DEF Steady
  <2> QED BY <1>0, <1>4, <2>1 DEF NoItem
<1>7. p + 4 < PacketEnd(p)' => p + 4 \in Items'
  <2> SUFFICES ASSUME p + 4 < PacketEnd(p)' PROVE p + 4 \in Items' OBVIOUS
  <2>1. CASE p + 4 = PacketEnd(p)
    <3>1. PacketEnd(p)' = IF p = 0 \/ p - 1 \in Held' THEN ptr' ELSE PacketEnd(p)
      BY <1>0, SteadyPacket
    <3>2. p + 4 # PacketEnd(p)' BY <1>0, <1>2, <2>1, <3>1
    <3> QED BY <2>1, <3>2
  <2>2. CASE p + 4 # PacketEnd(p)
    <3>1. p + 4 \in Items BY <1>0, <2>2 DEF BundleAt
    <3>2. p + 4 \in 0 .. ptr - 1 BY <3>1, ItemsAre
    <3>3. p + 4 < ptr'
      <4>1. PacketEnd(p)' = IF p = 0 \/ p - 1 \in Held' THEN ptr' ELSE PacketEnd(p)
        BY <1>0, SteadyPacket
      <4>2. PacketEnd(p)' <= ptr'
        <5>1. CASE p = 0 \/ p - 1 \in Held' BY <1>2, <4>1, <5>1
        <5>2. CASE ~(p = 0 \/ p - 1 \in Held')
          <6>1. p \in Packets' BY <1>0, SteadyPacket
          <6>2. p - 1 \in Items' BY <5>2, <6>1 DEF Packets
          <6>3. PacketEnd(p)' = ItemEnd(p - 1)' BY <5>2 DEF PacketEnd
          <6> QED BY <6>2, <6>3, EndsOf
        <5> QED BY <5>1, <5>2
      <4>3. PacketEnd(p)' \in Nat BY <1>0, <1>2, <4>1
      <4> QED BY <1>0, <1>2, <4>2, <4>3
    <3> QED BY <3>1, <3>2, <3>3 DEF Steady
  <2> QED BY <2>1, <2>2
<1> QED BY <1>5, <1>6, <1>7 DEF BundleAt

\* Without frames there are no items that are open.
LEMMA HeldEmpty == open = << >> => Held = {}
BY DEF Held

\* Where something begins, or is being written, no item ends and no packet waits
\* for its end, but the one that is written and those that are bundles.
LEMMA Edge ==
  ASSUME IInv, FramesOK, Nested, Joined, PacketsOK, WritingOK, Vacant \/ msg.step # 0
  PROVE  /\ \A i \in Items \ Held : ItemEnd(i) < ptr
         /\ \A p \in Packets : BundleAt(p) /\ PacketEnd(p) = ptr => p + 4 < ptr
         /\ \A p \in Packets : mem[p].kind # "#bundle" =>
              Unfinished(p) \/ (p # 0 /\ p - 1 \notin Held)
<1>0. ptr \in Nat BY WriterTypes
<1>1. open # << >> => /\ Top.kind = "item" /\ Top.ref \in Held /\ Top.ref \in Items
                      /\ Top.ref \in Nat /\ Top.ref < ptr
                      /\ \A i \in Items : i <= Top.ref
                      /\ Current = Top.ref + 1
  <2> SUFFICES ASSUME open # << >>
               PROVE  /\ Top.kind = "item" /\ Top.ref \in Held /\ Top.ref \in Items
                      /\ Top.ref \in Nat /\ Top.ref < ptr
                      /\ \A i \in Items : i <= Top.ref
                      /\ Current = Top.ref + 1
    OBVIOUS
  <2>1. Top.kind = "item" BY DEF Vacant, WritingOK
  <2>0. Top.ref \in Nat BY TopIs
  <2>2. Top.ref \in Held /\ Top.ref \in Items /\ Top.ref < ptr
    BY <2>1, TopIsLast, HeldAreItems
  <2>3. Current = Top.ref + 1 BY DEF Current
  <2>4. ASSUME NEW i \in Items PROVE i <= Top.ref
    <3>0. i \in Nat BY ItemsAre
    <3>1. i < ptr BY <1>0, ItemsAre
    <3>2. CASE Vacant BY <1>0, <2>0, <2>2, <3>0, <3>1, <3>2 DEF Vacant
    <3>3. CASE msg.step # 0
      <4>1. NoItem(Current, ptr) BY <3>3 DEF WritingOK, LaidOut
      <4> QED BY <1>0, <2>0, <2>3, <3>0, <3>1, <4>1 DEF NoItem
    <3> QED BY <3>2, <3>3
  <2> QED BY <2>0, <2>1, <2>2, <2>3, <2>4
<1>2. open = << >> => /\ Items = {}
                      /\ \A p \in Packets : p = 0 /\ Unfinished(p)
  <2> SUFFICES ASSUME open = << >> PROVE Items = {} /\ \A p \in Packets : p = 0 /\ Unfinished(p)
    OBVIOUS
  <2>1. Current = 0 BY DEF Current
  <2>2. CASE Vacant
    <3>1. ptr = 0 BY <2>2 DEF Vacant
    <3>2. Items = {} BY <3>1 DEF Items
    <3>3. Packets = {} BY <3>1 DEF Packets
    <3> QED BY <3>2, <3>3
  <2>3. CASE msg.step # 0
    <3>1. NoItem(0, ptr) BY <2>1, <2>3 DEF WritingOK, LaidOut
    <3>2. \A i \in Items : i \in Nat /\ i < ptr BY <1>0, ItemsAre
    <3>3. Items = {} BY <1>0, <3>1, <3>2 DEF NoItem
    <3>4. \A p \in Packets : p = 0 BY <3>3 DEF Packets
    <3> QED BY <2>1, <2>3, <3>3, <3>4 DEF Unfinished
  <2> QED BY <2>2, <2>3
<1>3. ASSUME NEW i \in Items \ Held PROVE ItemEnd(i) < ptr
  <2>1. open # << >> BY <1>2
  <2>2. i < Top.ref
    <3>1. i <= Top.ref /\ i # Top.ref BY <1>1, <2>1
    <3>2. i \in Nat BY ItemsAre
    <3> QED BY <1>1, <2>1, <3>1, <3>2
  <2>3. ItemEnd(i) <= Top.ref BY <1>1, <2>1, <2>2 DEF Nested
  <2>4. ItemEnd(i) \in Nat BY ItemsAre
  <2> QED BY <1>0, <1>1, <2>1, <2>3, <2>4
<1>4. ASSUME NEW p \in Packets, BundleAt(p), PacketEnd(p) = ptr PROVE p + 4 < ptr
  <2>1. mem[p].kind = "#bundle" /\ NoItem(p, p + 4) /\ p + 4 <= ptr BY <1>4 DEF BundleAt
  <2>2. p \in Nat /\ p < ptr /\ (p # 0 => p - 1 \in Items) BY PacketsAre
  <2>3. ~Unfinished(p)
    <3> SUFFICES ASSUME Unfinished(p) PROVE FALSE OBVIOUS
    <3>1. LaidOut(msg, p, ptr) BY DEF Unfinished, WritingOK
    <3>2. mem[p].kind = "string" BY <3>1 DEF LaidOut, Word
    <3> QED BY <2>1, <3>2
  <2>4. open # << >> BY <1>2, <2>3
  <2>5. Top.ref < p \/ p + 4 <= Top.ref BY <1>1, <2>1, <2>2, <2>4 DEF NoItem
  <2>6. CASE p + 4 <= Top.ref BY <1>0, <1>1, <2>2, <2>4, <2>6
  <2>7. CASE Top.ref < p
    <3>1. p # 0 /\ p - 1 \in Items /\ p - 1 <= Top.ref BY <1>1, <2>2, <2>4, <2>7
    <3>2. p = Current BY <1>1, <2>2, <2>4, <2>7, <3>1
    <3>3. msg.step = 0 BY <2>3, <3>2 DEF Unfinished
    <3>4. ptr = Top.ref + 1 BY <2>4, <3>3 DEF Vacant
    <3> QED BY <1>0, <1>1, <2>1, <2>2, <2>4, <2>7, <3>4
  <2> QED BY <2>5, <2>6, <2>7
<1>5. ASSUME NEW p \in Packets, mem[p].kind # "#bundle", ~Unfinished(p)
      PROVE  p # 0 /\ p - 1 \notin Held
  <2>1. open # << >> BY <1>2, <1>5
  <2> SUFFICES ASSUME p = 0 \/ p - 1 \in Held PROVE FALSE OBVIOUS
  <2>2. p = Current BY <1>5, <2>1, OpenPackets
  <2>3. msg.step = 0 BY <1>5, <2>2 DEF Unfinished
  <2>4. ptr = Top.ref + 1 BY <2>1, <2>3 DEF Vacant
  <2>5. p \in Nat /\ p < ptr BY PacketsAre
  <2> QED BY <1>0, <1>1, <2>1, <2>2, <2>4, <2>5
<1> QED BY <1>3, <1>4, <1>5

\* What is put behind the end.
LEMMA PutSteady ==
  ASSUME IInv, FramesOK, Joined, NEW words, Words(words), Fits(Len(words)), Put(words),
         Held' = Held,
         \A i \in Items \ Held : ItemEnd(i) < ptr
  PROVE  /\ Steady /\ Items' = Items /\ ptr' = ptr + Len(words) /\ ptr <= ptr'
         /\ \A i \in 0 .. ptr - 1 : mem'[i] = mem[i]
<1>0. ptr \in 0 .. Size - 1 BY WriterTypes
<1>1. Len(words) \in Nat BY DEF Words
<1>2. ptr' = ptr + Len(words) BY DEF Put
<1>3. ptr' \in Nat BY <1>0, <1>1, <1>2
<1>4. ASSUME NEW i \in 0 .. ptr - 1 PROVE mem'[i] = mem[i]
  <2>1. i \in 0 .. Size - 1 /\ ~(i \in ptr .. ptr + Len(words) - 1) BY <1>0, <1>1
  <2> QED BY <2>1 DEF Put
<1>5. Items' = Items
  <2>1. ASSUME NEW i \in Items PROVE i \in Items'
    <3>1. i \in 0 .. ptr - 1 /\ (i \in Held \/ mem[i].kind = "size") BY DEF Items
    <3>2. i \in 0 .. (ptr + Len(words)) - 1 BY <1>0, <1>1, <3>1
    <3>3. i \in Held' \/ mem'[i].kind = "size" BY <1>4, <3>1
    <3> QED BY <1>2, <3>2, <3>3 DEF Items
  <2>2. ASSUME NEW i \in Items' PROVE i \in Items
    <3>1. i \in 0 .. (ptr + Len(words)) - 1 /\ (i \in Held \/ mem'[i].kind = "size")
      BY <1>2 DEF Items
    <3>2. CASE i \in 0 .. ptr - 1 BY <1>4, <3>1, <3>2 DEF Items
    <3>3. CASE i \notin 0 .. ptr - 1
      <4>1. i \in ptr .. ptr + Len(words) - 1 BY <1>0, <1>1, <3>1, <3>3
      <4>2. CASE i \in Held BY <4>2, HeldAreItems
      <4>3. CASE i \in 0 .. Size - 1 /\ i \notin Held
        <5>1. mem'[i] = words[i - ptr + 1] BY <4>1, <4>3 DEF Put
        <5>2. i - ptr + 1 \in 1 .. Len(words) BY <1>0, <1>1, <4>1
        <5> QED BY <3>1, <4>3, <5>1, <5>2 DEF Words, Plain
      <4>4. i \in 0 .. Size - 1 BY <1>0, <1>1, <4>1 DEF Fits
      <4> QED BY <4>2, <4>3, <4>4
    <3> QED BY <3>2, <3>3
  <2> QED BY <2>1, <2>2
<1>6. ptr <= ptr' BY <1>0, <1>1, <1>2
<1>7. ptr \in Nat BY <1>0
<1>8. ASSUME NEW i \in Items
      PROVE  /\ i \in Nat /\ i < ptr /\ i < ptr'
             /\ ItemEnd(i)' = IF i \in Held THEN ptr' ELSE ItemEnd(i)
             /\ i \notin Held => ItemEnd(i) <= ptr' /\ ItemEnd(i) \in Items'
  <2>1. i \in Nat /\ i \in 0 .. ptr - 1 BY ItemsAre
  <2>2. i < ptr BY <1>7, <2>1
  <2>3. i < ptr' BY <1>3, <1>6, <1>7, <2>1, <2>2
  <2>4. ItemEnd(i)' = IF i \in Held THEN ptr' ELSE ItemEnd(i)
    BY <1>4, <2>1 DEF ItemEnd
  <2>5. ASSUME i \notin Held PROVE ItemEnd(i) <= ptr' /\ ItemEnd(i) \in Items'
    <3>1. ItemEnd(i) < ptr /\ ItemEnd(i) \in Nat BY <2>5, ItemsAre
    <3>2. ItemEnd(i) \in Items BY <3>1 DEF Joined
    <3> QED BY <1>3, <1>5, <1>6, <1>7, <3>1, <3>2
  <2> QED BY <2>1, <2>2, <2>3, <2>4, <2>5
<1>9. Steady BY <1>3, <1>4, <1>5, <1>8 DEF Steady
<1> QED BY <1>2, <1>4, <1>5, <1>6, <1>9

\* The messages that are told of stay the same where none is finished or taken back.
LEMMA RootedStays ==
  ASSUME IInv, FramesOK, Joined, PacketsOK, WritingOK, Steady,
         \A q \in Packets : q < ptr' => (Unfinished(q)' <=> Unfinished(q)),
         \A q \in Packets : q < ptr' \/ mem[q].kind # "string",
         \A q \in Packets' : q < ptr \/ Unfinished(q)' \/ mem'[q].kind # "string"
  PROVE  Rooted' = Rooted /\ \A p \in Nat : Before(p)' = Before(p)
<1>0. ptr \in Nat BY WriterTypes
<1>1. ptr' \in Nat BY DEF Steady
<1>2. ASSUME NEW q \in Packets, q < ptr' PROVE q \in Packets' /\ mem'[q] = mem[q]
  <2>1. q \in Nat /\ q < ptr /\ q \notin Items BY PacketsAre, PacketIsNoItem
  <2>2. q \in Packets' BY <1>2, <2>1, SteadyPacket
  <2>3. q \in 0 .. ptr - 1 BY <1>0, <2>1, InFront
  <2> QED BY <1>2, <2>1, <2>2, <2>3 DEF Steady
<1>3. ASSUME NEW q \in Packets', q < ptr PROVE q \in Packets /\ q < ptr'
  <2>1. q \in 0 .. ptr' - 1 BY DEF Packets
  <2>2. q \in Nat /\ q < ptr' BY <1>1, <2>1, UpTo
  <2> QED BY <1>3, <2>2, SteadyPacket
<1>4. Rooted' \subseteq Rooted BY <1>2, <1>3 DEF Rooted
<1>5. Rooted \subseteq Rooted' BY <1>2 DEF Rooted
<1>6. Rooted' = Rooted BY <1>4, <1>5
<1> QED BY <1>6 DEF Before

\* Packets stay what they are while more is written.
LEMMA GrowPackets ==
  ASSUME IInv, FramesOK, Joined, PacketsOK, WritingOK, Steady, ptr <= ptr',
         \A p \in Packets : BundleAt(p) /\ PacketEnd(p) = ptr => p + 4 < ptr \/ ptr \in Items',
         \A p \in Packets : mem[p].kind # "#bundle" =>
           Unfinished(p) \/ (p # 0 /\ p - 1 \notin Held),
         \A p \in Nat : Before(p)' = Before(p), told' = told,
         NEW p \in Packets, ~Unfinished(p)
  PROVE  BundleAt(p)' \/ MessageAt(p)'
<1>0. ptr \in Nat BY WriterTypes
<1>1. ptr' \in Nat BY DEF Steady
<1>2. /\ p \in Nat /\ p < ptr /\ PacketEnd(p) \in Nat /\ PacketEnd(p) <= ptr
  BY PacketsAre
<1>3. p < ptr' BY <1>0, <1>1, <1>2
<1>4. /\ PacketEnd(p)' = IF p = 0 \/ p - 1 \in Held' THEN ptr' ELSE PacketEnd(p)
      /\ p # 0 /\ p - 1 \in Held' => p - 1 \in Held
  BY <1>2, <1>3, SteadyPacket
<1>5. CASE mem[p].kind = "#bundle"
  <2>1. BundleAt(p) /\ p + 4 <= PacketEnd(p) BY <1>5, PacketIsNoItem DEF BundleAt
  <2>2. p + 4 <= ptr' /\ p + 4 <= PacketEnd(p)' BY <1>0, <1>1, <1>2, <1>4, <2>1
  <2>3. p + 4 = PacketEnd(p) => p + 4 = PacketEnd(p)' \/ p + 4 \in Items'
    <3> SUFFICES ASSUME p + 4 = PacketEnd(p), p + 4 # PacketEnd(p)' PROVE p + 4 \in Items' OBVIOUS
    <3>1. p = 0 \/ p - 1 \in Held BY <1>4
    <3>2. PacketEnd(p) = ptr BY <3>1 DEF PacketEnd, ItemEnd
    <3> QED BY <1>0, <1>2, <2>1, <3>2
  <2> QED BY <1>3, <2>1, <2>2, <2>3, BundleStays
<1>6. CASE mem[p].kind # "#bundle"
  <2>1. MessageAt(p) /\ p # 0 /\ p - 1 \notin Held BY <1>6, PacketIsNoItem
  <2>2. p - 1 \notin Held' BY <1>4, <2>1
  <2>3. PacketEnd(p) <= ptr' BY <1>0, <1>1, <1>2
  <2> QED BY <1>2, <1>3, <2>1, <2>2, <2>3, MessageStays
<1> QED BY <1>5, <1>6

\* What comes to a writer that is still at a message, or is no longer.
LEMMA ToldStays ==
  ASSUME ToldOK, Rooted' = Rooted, told' = told PROVE ToldOK'
BY DEF ToldOK

\* New packets begin where the writer was.
LEMMA NewPackets ==
  ASSUME IInv, FramesOK, Joined, Steady, NEW p \in Packets', p \notin Packets
  PROVE  p \in Nat /\ p < ptr' /\ ptr <= p /\ (p # 0 => p - 1 \in Items')
<1>0. ptr \in Nat BY WriterTypes
<1>1. ptr' \in Nat BY DEF Steady
<1>2. p \in 0 .. ptr' - 1 /\ (p # 0 => p - 1 \in Items') BY DEF Packets
<1>3. p \in Nat /\ p < ptr' BY <1>1, <1>2, UpTo
<1>4. ~(p < ptr) BY <1>3, SteadyPacket
<1> QED BY <1>0, <1>2, <1>3, <1>4

-----------------------------------------------------------------------------
(***************************************************************************)
(* The writer keeps the layout.                                            *)
(***************************************************************************)

\* The path takes its words.
LEMMA StringIs ==
  ASSUME NEW text, NEW words \in Nat \ {0}
  PROVE  /\ Words(String(text, words)) /\ Len(String(text, words)) = words
         /\ String(text, words)[1] = Word("string", [text |-> text, words |-> words])
<1> DEFINE w == Word("string", [text |-> text, words |-> words])
           rest == More(words - 1)
<1>1. rest = [i \in 1 .. words - 1 |-> Word("more", 0)] BY DEF More
<1>2. words - 1 \in Nat OBVIOUS
<1>3. rest \in Seq({Word("more", 0)}) BY <1>2, MoreOfThem
<1>4. Len(rest) = words - 1 BY <1>1, <1>2
<1>5. String(text, words) = << w >> \o rest BY DEF String
<1> HIDE DEF w, rest
<1>6. << w >> \in Seq({w}) /\ Len(<< w >>) = 1 /\ << w >>[1] = w OBVIOUS
<1>7. Len(<< w >> \o rest) = 1 + Len(rest) /\ (<< w >> \o rest)[1] = w
  BY <1>3, <1>6, ConcatProperties
<1>8. Words(String(text, words)) BY StringIsWords
<1>9. Len(String(text, words)) = words BY <1>2, <1>4, <1>5, <1>7
<1>10. String(text, words)[1] = w BY <1>5, <1>7
<1> QED BY <1>8, <1>9, <1>10 DEF w

\* What is put is there.
LEMMA PutIs ==
  ASSUME IInv, NEW words, Words(words), Fits(Len(words)), Put(words),
         NEW i \in 1 .. Len(words)
  PROVE  mem'[ptr + i - 1] = words[i]
<1>1. ptr \in 0 .. Size - 1 BY WriterTypes
<1>2. Len(words) \in Nat BY DEF Words
<1>3. PICK x \in Nat : x = ptr + i - 1 BY <1>1
<1>4. x \in ptr .. ptr + Len(words) - 1 BY <1>1, <1>2, <1>3
<1>5. x \in 0 .. Size - 1 BY <1>1, <1>2, <1>3 DEF Fits
<1>6. mem'[x] = words[x - ptr + 1] BY <1>4, <1>5 DEF Put
<1>7. x - ptr + 1 = i BY <1>1, <1>3
<1> QED BY <1>3, <1>6, <1>7

\* The frames stay open.
LEMMA FramesStay ==
  ASSUME IInv, FramesOK, open' = open, ptr' \in Nat, ptr <= ptr',
         \A i \in 0 .. ptr - 1 : mem'[i] = mem[i]
  PROVE  FramesOK' /\ Held' = Held
<1>0. ptr \in Nat BY WriterTypes
<1>1. Held' = Held BY DEF Held
<1>2. ASSUME NEW k \in DOMAIN open
      PROVE  /\ open[k].kind = "bundle" => /\ open[k].ref + 4 <= ptr'
                                           /\ mem'[open[k].ref] = mem[open[k].ref]
                                           /\ mem'[open[k].ref + 2] = mem[open[k].ref + 2]
             /\ open[k].kind = "item" => open[k].ref < ptr'
  <2>1. open[k].ref \in Nat BY WriterTypes
  <2> DEFINE r == open[k].ref
  <2>2. open[k].kind = "bundle" => r + 4 <= ptr BY DEF FramesOK
  <2>3. open[k].kind = "item" => r < ptr BY DEF FramesOK
  <2> HIDE DEF r
  <2>4. r \in Nat BY <2>1 DEF r
  <2>5. ASSUME r + 4 <= ptr PROVE r + 4 <= ptr' /\ mem'[r] = mem[r] /\ mem'[r + 2] = mem[r + 2]
    <3>1. r \in 0 .. ptr - 1 BY <1>0, <2>4, <2>5
    <3>2. r + 2 \in 0 .. ptr - 1 BY <1>0, <2>4, <2>5
    <3>3. r + 4 <= ptr' BY <1>0, <2>4, <2>5
    <3> QED BY <3>1, <3>2, <3>3
  <2>6. r < ptr => r < ptr' BY <1>0, <2>4
  <2> QED BY <2>2, <2>3, <2>5, <2>6 DEF r
<1>3. FramesOK' BY <1>2 DEF FramesOK
<1> QED BY <1>1, <1>3

\* A message is begun where a packet may begin (writer.h, message_varlist).
LEMMA AddPathLayout ==
  ASSUME IInv, Layout, NEW m \in Messages, AddPath(m) PROVE Layout'
<1> USE DEF Layout
<1> DEFINE words == String(m.path, m.path.words)
<1>0. /\ Vacant /\ phase' = phase /\ open' = open /\ told' = told /\ Fits(m.path.words)
      /\ msg' = [path |-> m.path, args |-> m.args, step |-> 1] /\ Put(words) /\ phase = "write"
  BY DEF AddPath, Vacant
<1>1. m.path.words \in Nat \ {0} /\ Len(m.args) \in Nat
  <2>1. m.path \in Paths /\ m.args \in Args BY DEF Paths, Args
  <2> QED BY <2>1, PathsAndArgs DEF IsPath
<1>2. /\ Words(words) /\ Len(words) = m.path.words
      /\ words[1] = Word("string", [text |-> m.path, words |-> m.path.words])
  BY <1>1, StringIs
<1> HIDE DEF words
<1>3. ptr \in 0 .. Size - 1 BY WriterTypes
<1>4. Held' = Held BY <1>0 DEF Held
<1>5. /\ Steady /\ Items' = Items /\ ptr' = ptr + Len(words) /\ ptr <= ptr'
      /\ \A i \in 0 .. ptr - 1 : mem'[i] = mem[i]
  BY <1>0, <1>2, <1>4, Edge, PutSteady
<1>6. ptr' \in Nat BY <1>5 DEF Steady
<1>7. FramesOK' BY <1>0, <1>5, <1>6, FramesStay
<1>8. Nested' /\ Joined' BY <1>5, SteadyItems
<1>9. Current' = ptr /\ Current = ptr /\ msg.step = 0 /\ msg'.step = 1
      /\ (open # << >> => Top.kind = "item" /\ Top' = Top)
  BY <1>0 DEF Current, Vacant, Top
<1>10. \A q \in Packets : q \in Nat /\ q < ptr /\ q # ptr
  <2>1. ptr \in Nat BY <1>3
  <2>2. \A q \in Packets : q \in Nat /\ q < ptr BY PacketsAre
  <2> QED BY <2>1, <2>2
<1>11. \A i \in Items : i \in Nat /\ i < ptr BY ItemsAre, <1>3
<1>12. ASSUME NEW q \in Packets', ~(q < ptr) PROVE q = ptr
  <2>1. q \notin Packets BY <1>10, <1>12
  <2>2. q \in Nat /\ ptr <= q /\ (q # 0 => q - 1 \in Items) BY <1>5, <2>1, NewPackets
  <2>3. ptr \in Nat BY <1>3
  <2>4. q # 0 => q - 1 < ptr BY <1>11, <2>2
  <2> QED BY <2>2, <2>3, <2>4
<1>13. \A q : Unfinished(q)' <=> q = ptr BY <1>9 DEF Unfinished
<1>14. \A q : ~Unfinished(q) BY <1>9 DEF Unfinished
<1>15. Rooted' = Rooted /\ \A p \in Nat : Before(p)' = Before(p)
  <2>1. \A q \in Packets : q < ptr'
    <3>1. ptr \in Nat BY <1>3
    <3> QED BY <1>5, <1>6, <1>10, <3>1
  <2> QED BY <1>5, <1>10, <1>12, <1>13, <1>14, <2>1, RootedStays
<1>16. PacketsOK'
  <2>1. ASSUME NEW q \in Packets', q \in Packets PROVE BundleAt(q)' \/ MessageAt(q)'
    BY <1>0, <1>5, <1>14, <1>15, <2>1, GrowPackets, Edge
  <2>2. ASSUME NEW q \in Packets', q \notin Packets PROVE Unfinished(q)'
    <3>1. ptr <= q BY <1>5, <2>2, NewPackets
    <3>2. ptr \in Nat BY <1>3
    <3>3. q \in Nat BY <1>5, <2>2, NewPackets
    <3>4. ~(q < ptr) BY <3>1, <3>2, <3>3
    <3> QED BY <1>12, <1>13, <3>4
  <2> QED BY <2>1, <2>2 DEF PacketsOK
<1>17. ToldOK' BY <1>0, <1>15, ToldStays
<1>18. LaidOut(msg, Current, ptr)'
  <2>0. PICK at \in [1 .. 1 -> Nat] : at[1] = ptr'
    <3> DEFINE f == [j \in 1 .. 1 |-> ptr']
    <3>1. f \in [1 .. 1 -> Nat] /\ f[1] = ptr' BY <1>6
    <3> HIDE DEF f
    <3> QED BY <3>1
  <2>1. at \in Offsets(msg)' BY <1>9 DEF Offsets
  <2>2. msg'.path = m.path /\ ptr' = ptr + m.path.words BY <1>0, <1>2, <1>5
  <2>3. at[1] = ptr' BY <2>0
  <2>4. ptr < ptr'
    <3>1. ptr \in Nat BY <1>3
    <3> QED BY <1>1, <2>2, <3>1
  <2>5. Placed(msg, Current, ptr, at)'
    <3>1. \A j \in 1 .. 1 : ptr < at[j] /\ at[j] <= ptr' BY <1>6, <2>3, <2>4
    <3>2. 1 .. 1 - 1 = {} OBVIOUS
    <3> QED BY <1>9, <2>2, <2>3, <3>1, <3>2 DEF Placed
  <2>6. mem'[ptr] = words[1]
    <3>1. Len(words) \in Nat \ {0} BY <1>1, <1>2
    <3>2. ptr \in ptr .. ptr + Len(words) - 1 BY <1>3, <3>1
    <3>3. ptr \in 0 .. Size - 1 BY <1>3
    <3>4. ptr - ptr + 1 = 1 BY <1>3
    <3> QED BY <1>0, <3>2, <3>3, <3>4 DEF Put
  <2>7. NoItem(Current, ptr)' BY <1>5, <1>9, <1>11 DEF NoItem
  <2> QED BY <1>2, <1>9, <2>1, <2>2, <2>5, <2>6, <2>7 DEF LaidOut
<1>19. WritingOK'
  <2>1. msg'.args = m.args BY <1>0
  <2>2. Current' < ptr'
    <3>1. ptr \in Nat BY <1>3
    <3> QED BY <1>1, <1>2, <1>5, <1>9, <3>1
  <2> QED BY <1>0, <1>1, <1>9, <1>18, <2>1, <2>2 DEF WritingOK
<1> QED BY <1>7, <1>8, <1>16, <1>17, <1>19

\* It is continued behind what there is of it.
LEMMA AddPieceLayout ==
  ASSUME IInv, Layout, AddPiece PROVE Layout'
<1> USE DEF Layout
<1> DEFINE s == msg.step
<1>0. /\ phase = "write" /\ phase' = phase /\ open' = open /\ told' = told /\ Fits(Len(Piece))
      /\ msg' = [msg EXCEPT !.step = @ + 1] /\ Put(Piece)
      /\ s \in 1 .. Len(msg.args) + 1
  BY DEF AddPiece
<1>1. msg \in [path : Paths, args : Args, step : Nat] BY DEF IInv, TypeOK
<1>2. Len(msg.args) \in Nat BY <1>1, PathsAndArgs
<1>3. Words(Piece) /\ Piece = PieceOf(msg, s) BY <1>0, <1>1, PieceIsWords DEF Piece, PieceOf
<1>4. /\ msg'.path = msg.path /\ msg'.args = msg.args /\ msg'.step = s + 1
      /\ s \in Nat /\ s # 0 /\ s + 1 # 0 /\ s + 1 <= Len(msg.args) + 2
  BY <1>0, <1>1, <1>2
<1> HIDE DEF s
<1>5. s = msg.step BY DEF s
<1>6. ptr \in 0 .. Size - 1 BY WriterTypes
<1>7. ptr \in Nat BY <1>6
<1>8. Held' = Held BY <1>0 DEF Held
<1>9. /\ Steady /\ Items' = Items /\ ptr' = ptr + Len(Piece) /\ ptr <= ptr'
      /\ \A i \in 0 .. ptr - 1 : mem'[i] = mem[i]
  BY <1>0, <1>3, <1>4, <1>5, <1>8, Edge, PutSteady
<1>10. ptr' \in Nat BY <1>9 DEF Steady
<1>11. FramesOK' BY <1>0, <1>9, <1>10, FramesStay
<1>12. Nested' /\ Joined' BY <1>9, SteadyItems
<1>13. /\ Current' = Current /\ (open # << >> => Top.kind = "item" /\ Top' = Top)
       /\ Current < ptr /\ LaidOut(msg, Current, ptr)
  BY <1>0, <1>4, <1>5 DEF Current, Top, WritingOK
<1>14. Current \in Nat BY TopIs DEF Current
<1>15. \A q : Unfinished(q)' <=> Unfinished(q) BY <1>4, <1>5, <1>13 DEF Unfinished
<1>16. \A q \in Packets : q \in Nat /\ q < ptr /\ q < ptr'
  <2>1. \A q \in Packets : q \in Nat /\ q < ptr BY PacketsAre
  <2> QED BY <1>7, <1>9, <1>10, <2>1
<1>17. \A i \in Items : i \in Nat /\ i < ptr BY ItemsAre, <1>7
<1>18. NoItem(Current, ptr) BY <1>13 DEF LaidOut
<1>19. Packets' \subseteq Packets
  <2> SUFFICES ASSUME NEW q \in Packets', q \notin Packets PROVE FALSE OBVIOUS
  <2>1. q \in Nat /\ ptr <= q /\ (q # 0 => q - 1 \in Items) BY <1>9, NewPackets
  <2>2. q # 0 /\ q - 1 < ptr BY <1>7, <1>13, <1>14, <1>17, <2>1
  <2>3. q = ptr BY <1>7, <2>1, <2>2
  <2> QED BY <1>7, <1>13, <1>14, <1>18, <2>1, <2>2, <2>3 DEF NoItem
<1>20. Rooted' = Rooted /\ \A p \in Nat : Before(p)' = Before(p)
  BY <1>9, <1>15, <1>16, <1>19, RootedStays
<1>21. PacketsOK'
  <2>1. ASSUME NEW q \in Packets', ~Unfinished(q) PROVE BundleAt(q)' \/ MessageAt(q)'
    <3>1. q \in Packets BY <1>19
    <3> QED BY <1>0, <1>4, <1>5, <1>9, <1>20, <2>1, <3>1, GrowPackets, Edge
  <2> QED BY <1>15, <2>1 DEF PacketsOK
<1>22. ToldOK' BY <1>0, <1>20, ToldStays
<1>23. LaidOut(msg, Current, ptr)'
  <2>0. PICK at \in Offsets(msg) : Placed(msg, Current, ptr, at) BY <1>13 DEF LaidOut
  <2>1. at \in [1 .. s -> Nat] BY <2>0, <1>5 DEF Offsets
  <2>2. PICK z \in Nat : z = ptr' BY <1>10
  <2>3. PICK to \in [1 .. s + 1 -> Nat] : to[s + 1] = z /\ \A j \in 1 .. s : to[j] = at[j]
    <3> DEFINE f == [j \in 1 .. s + 1 |-> IF j = s + 1 THEN z ELSE at[j]]
    <3>1. \A j \in 1 .. s + 1 : j # s + 1 => j \in 1 .. s BY <1>4
    <3>2. f \in [1 .. s + 1 -> Nat] BY <1>4, <2>1, <3>1
    <3>3. f[s + 1] = z BY <1>4
    <3>4. \A j \in 1 .. s : f[j] = at[j] BY <1>4
    <3> HIDE DEF f
    <3> QED BY <3>2, <3>3, <3>4
  <2>4. to \in Offsets(msg)' BY <1>4, <2>3 DEF Offsets
  <2>5. /\ at[1] = Current + msg.path.words /\ at[s] = ptr
        /\ \A j \in 1 .. s : Current < at[j] /\ at[j] <= ptr
        /\ \A j \in 1 .. s - 1 : /\ at[j + 1] = at[j] + Len(PieceOf(msg, j))
                                 /\ Holds(at[j], PieceOf(msg, j))
    BY <1>5, <2>0 DEF Placed
  <2>6. \A j : PieceOf(msg, j)' = PieceOf(msg, j) BY <1>4 DEF PieceOf, Types
  <2>7. z = ptr + Len(PieceOf(msg, s)) /\ ptr <= z /\ Len(PieceOf(msg, s)) \in Nat
    BY <1>3, <1>9, <2>2 DEF Words
  <2>8. to[1] = Current + msg.path.words BY <1>4, <2>3, <2>5
  <2>9. ASSUME NEW j \in 1 .. s + 1 PROVE Current < to[j] /\ to[j] <= z
    <3>1. CASE j = s + 1 BY <1>7, <1>13, <1>14, <2>3, <2>7, <3>1
    <3>2. CASE j # s + 1
      <4>1. j \in 1 .. s BY <1>4, <3>2
      <4>2. at[j] \in Nat BY <2>1, <4>1
      <4>3. to[j] = at[j] /\ Current < at[j] /\ at[j] <= ptr BY <2>3, <2>5, <4>1
      <4> QED BY <1>7, <2>7, <4>2, <4>3
    <3> QED BY <3>1, <3>2
  <2>10. ASSUME NEW j \in 1 .. s
         PROVE  /\ to[j + 1] = to[j] + Len(PieceOf(msg, j))
                /\ \A i \in 1 .. Len(PieceOf(msg, j)) : mem'[to[j] + i - 1] = PieceOf(msg, j)[i]
    <3>1. CASE j = s
      <4>1. to[j] = ptr /\ to[j + 1] = z BY <1>4, <2>3, <2>5, <3>1
      <4>2. ASSUME NEW i \in 1 .. Len(Piece) PROVE mem'[ptr + i - 1] = Piece[i]
        BY <1>0, <1>3, PutIs
      <4> QED BY <1>3, <2>7, <3>1, <4>1, <4>2
    <3>2. CASE j # s
      <4>1. j \in 1 .. s - 1 /\ j + 1 \in 1 .. s BY <1>4, <3>2
      <4>2. at[j] \in Nat /\ at[j + 1] \in Nat BY <2>1, <4>1
      <4>3. /\ to[j] = at[j] /\ to[j + 1] = at[j + 1] /\ at[j + 1] <= ptr
            /\ at[j + 1] = at[j] + Len(PieceOf(msg, j))
            /\ Holds(at[j], PieceOf(msg, j))
        BY <2>3, <2>5, <4>1
      <4>4. Len(PieceOf(msg, j)) \in Nat
        <5>1. j \in 1 .. Len(msg.args) + 1 BY <1>2, <1>4, <4>1
        <5> QED BY <1>1, <5>1, PieceOfIsWords DEF Words
      <4>5. ASSUME NEW i \in 1 .. Len(PieceOf(msg, j))
            PROVE  mem'[at[j] + i - 1] = PieceOf(msg, j)[i]
        <5>1. at[j] + i - 1 \in 0 .. ptr - 1 BY <1>7, <4>2, <4>3, <4>4
        <5> QED BY <1>9, <4>3, <5>1 DEF Holds
      <4> QED BY <4>3, <4>5
    <3> QED BY <3>1, <3>2
  <2>11. Placed(msg, Current, ptr, to)'
    <3>1. msg'.step = s + 1 /\ s + 1 - 1 = s BY <1>4
    <3>2. msg'.path = msg.path /\ Current' = Current /\ ptr' = z BY <1>4, <1>13, <2>2
    <3>3. /\ to[1] = Current' + msg'.path.words /\ to[msg'.step] = ptr'
          /\ \A j \in 1 .. msg'.step : Current' < to[j] /\ to[j] <= ptr'
      BY <2>3, <2>8, <2>9, <3>1, <3>2
    <3>4. ASSUME NEW j \in 1 .. msg'.step - 1
          PROVE  /\ to[j + 1] = to[j] + Len(PieceOf(msg, j)')
                 /\ \A i \in 1 .. Len(PieceOf(msg, j)') :
                      mem'[to[j] + i - 1] = PieceOf(msg, j)'[i]
      <4>1. j \in 1 .. s
        <5>1. 1 .. msg'.step - 1 = 1 .. s
          <6>1. msg'.step = s + 1 BY <3>1
          <6>2. s \in Nat BY <1>4
          <6> QED BY <6>1, <6>2
        <5> QED BY <5>1
      <4>2. PICK w : w = PieceOf(msg, j) OBVIOUS
      <4>3. PieceOf(msg, j)' = w BY <2>6, <4>2
      <4>4. /\ to[j + 1] = to[j] + Len(w)
            /\ \A i \in 1 .. Len(w) : mem'[to[j] + i - 1] = w[i]
        BY <2>10, <4>1, <4>2
      <4> QED BY <4>3, <4>4
    <3> QED BY <3>3, <3>4 DEF Placed, Holds
  <2>12. NoItem(Current, ptr)'
    <3>1. \A i \in Items : i < Current
      BY <1>7, <1>14, <1>17, <1>18 DEF NoItem
    <3> QED BY <1>9, <1>13, <3>1 DEF NoItem
  <2>13. mem'[Current] = mem[Current]
    <3>1. Current \in 0 .. ptr - 1 BY <1>7, <1>13, <1>14
    <3> QED BY <1>9, <3>1
  <2>14. mem[Current] = Word("string", [text |-> msg.path, words |-> msg.path.words])
    BY <1>13 DEF LaidOut
  <2> QED BY <1>4, <1>13, <2>4, <2>11, <2>12, <2>13, <2>14 DEF LaidOut
<1>24. WritingOK'
  <2>1. Current' < ptr' BY <1>7, <1>9, <1>10, <1>13, <1>14
  <2> QED BY <1>0, <1>4, <1>5, <1>13, <1>23, <2>1 DEF WritingOK
<1> QED BY <1>11, <1>12, <1>21, <1>22, <1>24

\* A bundle is begun where a packet may begin (writer.h, push_bundle).
LEMMA PushBundleLayout ==
  ASSUME IInv, Layout, NEW t \in Tags, PushBundle(t) PROVE Layout'
<1> USE DEF Layout
<1> DEFINE words == << Word("#bundle", 0), Word("more", 0), Word("tag", t), Word("more", 0) >>
           n == Len(open)
           frame == [kind |-> "bundle", ref |-> ptr, tag |-> t]
<1>0. /\ Vacant /\ phase' = phase /\ told' = told /\ Fits(4) /\ msg' = msg /\ Put(words)
      /\ phase = "write" /\ open' = Append(open, frame)
  BY DEF PushBundle, Vacant
<1>1. /\ Words(words) /\ Len(words) = 4
      /\ words[1].kind = "#bundle" /\ words[3].val = t
  BY DEF Words, Plain, WordOK, Word
<1>2. frame.kind = "bundle" /\ frame.ref = ptr /\ frame.tag = t OBVIOUS
<1>3. /\ n \in Nat /\ DOMAIN open = 1 .. n /\ Len(open') = n + 1 /\ DOMAIN open' = 1 .. n + 1
      /\ \A k \in 1 .. n : open'[k] = open[k]
      /\ open'[n + 1] = frame
  <2>1. open \in Seq(Frame) BY DEF IInv, TypeOK
  <2>2. open' = Append(open, frame) BY <1>0
  <2> HIDE DEF frame
  <2> QED BY <2>1, <2>2, Appended
<1> HIDE DEF words, frame, n
<1>4. ptr \in 0 .. Size - 1 BY WriterTypes
<1>5. ptr \in Nat BY <1>4
<1>6. Held' = Held
  <2>1. \A k \in 1 .. n : k \in 1 .. n + 1 BY <1>3
  <2>2. \A k \in 1 .. n + 1 : k \in 1 .. n \/ k = n + 1 BY <1>3
  <2>3. ASSUME NEW i \in Held PROVE i \in Held'
    <3>1. PICK k \in 1 .. n : open[k].kind = "item" /\ open[k].ref = i BY <1>3 DEF Held
    <3> QED BY <1>3, <2>1, <3>1 DEF Held
  <2>4. ASSUME NEW i \in Held' PROVE i \in Held
    <3>1. PICK k \in 1 .. n + 1 : open'[k].kind = "item" /\ open'[k].ref = i BY <1>3 DEF Held
    <3>2. k \in 1 .. n BY <1>2, <1>3, <2>2, <3>1
    <3> QED BY <1>3, <3>1, <3>2 DEF Held
  <2> QED BY <2>3, <2>4
<1>7. /\ Steady /\ Items' = Items /\ ptr' = ptr + 4 /\ ptr <= ptr'
      /\ \A i \in 0 .. ptr - 1 : mem'[i] = mem[i]
  BY <1>0, <1>1, <1>6, Edge, PutSteady
<1>8. ptr' \in Nat BY <1>7 DEF Steady
<1>9. Nested' /\ Joined' BY <1>7, SteadyItems
<1>10. msg.step = 0 /\ (open = << >> => ptr = 0)
       /\ (open # << >> => /\ Top.kind = "item" /\ ptr = Top.ref + 1 /\ Top.ref \in Held
                           /\ Top = open[n] /\ n \in 1 .. n)
  BY <1>0, TopIs, TopIsLast DEF Vacant, n
<1>11. mem'[ptr].kind = "#bundle" /\ mem'[ptr + 2].val = t
  <2>0. Words(words) /\ Fits(Len(words)) /\ Put(words) BY <1>0, <1>1
  <2>00. 1 \in 1 .. Len(words) /\ 3 \in 1 .. Len(words) BY <1>1
  <2>1. mem'[ptr + 1 - 1] = words[1] BY <2>0, <2>00, PutIs
  <2>2. mem'[ptr + 3 - 1] = words[3] BY <2>0, <2>00, PutIs
  <2>3. ptr + 1 - 1 = ptr /\ ptr + 3 - 1 = ptr + 2 BY <1>5
  <2> QED BY <1>1, <2>1, <2>2, <2>3
<1>12. \A k \in 1 .. n : open[k].ref \in Nat /\ open[k].ref < ptr
  <2>1. ASSUME NEW k \in 1 .. n PROVE open[k].ref \in Nat /\ open[k].ref < ptr
    <3>1. open[k].ref \in Nat /\ open[k].kind \in {"bundle", "item"} BY WriterTypes DEF n
    <3>2. open[k].ref + 4 <= ptr \/ open[k].ref < ptr BY <1>3, <3>1 DEF FramesOK
    <3> QED BY <1>5, <3>1, <3>2
  <2> QED BY <2>1
<1>13. FramesOK'
  <2>1. ASSUME NEW k \in 1 .. n + 1
        PROVE  /\ \A l \in 1 .. n + 1 : k < l => open'[k].ref < open'[l].ref
               /\ k = 1 => open'[k].kind = "bundle" /\ open'[k].ref = 0
               /\ open'[k].kind = "bundle" =>
                    /\ open'[k].ref + 4 <= ptr'
                    /\ mem'[open'[k].ref].kind = "#bundle"
                    /\ mem'[open'[k].ref + 2].val = open'[k].tag
                    /\ k + 1 \in 1 .. n + 1 =>
                         open'[k + 1].kind = "item" /\ open'[k].ref + 4 <= open'[k + 1].ref
               /\ open'[k].kind = "item" =>
                    /\ open'[k].ref < ptr'
                    /\ k + 1 \in 1 .. n + 1 =>
                         open'[k + 1].kind = "bundle" /\ open'[k + 1].ref = open'[k].ref + 1
    <3>1. CASE k = n + 1
      <4>1. open'[k] = frame BY <1>3, <3>1
      <4>2. \A l \in 1 .. n + 1 : ~(k < l) BY <1>3, <3>1
      <4>3. k + 1 \notin 1 .. n + 1 BY <1>3, <3>1
      <4>4. k = 1 => ptr = 0
        <5>1. k = 1 => n = 0 BY <1>3, <3>1
        <5>2. n = 0 => open = << >>
          <6>1. open \in Seq(Frame) BY DEF IInv, TypeOK
          <6> QED BY <6>1 DEF n
        <5> QED BY <1>10, <5>1, <5>2
      <4> QED BY <1>2, <1>5, <1>7, <1>11, <4>1, <4>2, <4>3, <4>4
    <3>2. CASE k \in 1 .. n
      <4> DEFINE r == open[k].ref
      <4>1. open'[k] = open[k] /\ k \in DOMAIN open BY <1>3, <3>2
      <4>2. r \in Nat /\ r < ptr BY <1>12, <3>2
      <4>3. \A l \in 1 .. n + 1 : k < l => r < open'[l].ref
        <5>1. ASSUME NEW l \in 1 .. n, k < l PROVE r < open'[l].ref
          BY <1>3, <4>1, <5>1 DEF FramesOK
        <5>2. r < open'[n + 1].ref BY <1>2, <1>3, <4>2
        <5>3. \A l \in 1 .. n + 1 : l \in 1 .. n \/ l = n + 1 BY <1>3
        <5> QED BY <5>1, <5>2, <5>3
      <4>4. open[k].kind = "bundle" => /\ r + 4 <= ptr' /\ mem'[r] = mem[r] /\ mem'[r + 2] = mem[r + 2]
                                       /\ mem[r].kind = "#bundle" /\ mem[r + 2].val = open[k].tag
        <5> SUFFICES ASSUME open[k].kind = "bundle"
                     PROVE  /\ r + 4 <= ptr' /\ mem'[r] = mem[r] /\ mem'[r + 2] = mem[r + 2]
                            /\ mem[r].kind = "#bundle" /\ mem[r + 2].val = open[k].tag
          OBVIOUS
        <5>1. r + 4 <= ptr /\ mem[r].kind = "#bundle" /\ mem[r + 2].val = open[k].tag
          BY <4>1 DEF FramesOK
        <5> HIDE DEF r
        <5>2. r \in 0 .. ptr - 1 BY <1>5, <4>2, <5>1
        <5>3. r + 2 \in 0 .. ptr - 1 BY <1>5, <4>2, <5>1
        <5>4. r + 4 <= ptr' BY <1>5, <1>7, <1>8, <4>2, <5>1
        <5> QED BY <1>7, <5>1, <5>2, <5>3, <5>4
      <4>5. r < ptr' BY <1>5, <1>7, <1>8, <4>2
      <4>6. CASE k = n
        <5>1. open # << >> BY <1>3, <3>2
        <5>2. open[k].kind = "item" /\ ptr = r + 1 BY <1>10, <4>6, <5>1
        <5>3. open'[k + 1] = frame BY <1>3, <4>6
        <5>4. k = 1 => FALSE BY <4>1, <5>2 DEF FramesOK
        <5> HIDE DEF r
        <5> QED BY <1>2, <4>1, <4>3, <4>5, <5>2, <5>3, <5>4 DEF r
      <4>7. CASE k # n
        <5>1. k + 1 \in DOMAIN open /\ open'[k + 1] = open[k + 1] BY <1>3, <3>2, <4>7
        <5>2. /\ k = 1 => open[k].kind = "bundle" /\ r = 0
              /\ open[k].kind = "bundle" =>
                    open[k + 1].kind = "item" /\ r + 4 <= open[k + 1].ref
              /\ open[k].kind = "item" =>
                    open[k + 1].kind = "bundle" /\ open[k + 1].ref = r + 1
          BY <4>1, <5>1 DEF FramesOK
        <5> HIDE DEF r
        <5> QED BY <4>1, <4>3, <4>4, <4>5, <5>1, <5>2 DEF r
      <4> QED BY <4>6, <4>7
    <3> QED BY <1>3, <3>1, <3>2
  <2> QED BY <1>3, <2>1 DEF FramesOK
<1>14. \A q : ~Unfinished(q) /\ ~Unfinished(q)' BY <1>0, <1>10 DEF Unfinished
<1>15. \A q \in Packets : q \in Nat /\ q < ptr /\ q < ptr'
  <2>1. \A q \in Packets : q \in Nat /\ q < ptr BY PacketsAre
  <2> QED BY <1>5, <1>7, <1>8, <2>1
<1>16. ASSUME NEW q \in Packets', ~(q < ptr) PROVE q = ptr
  <2>1. q \notin Packets BY <1>15, <1>16
  <2>2. q \in Nat /\ ptr <= q /\ (q # 0 => q - 1 \in Items) BY <1>7, <2>1, NewPackets
  <2>3. q # 0 => q - 1 < ptr BY <1>5, <2>2, ItemsAre
  <2> QED BY <1>5, <2>2, <2>3
<1>17. Rooted' = Rooted /\ \A p \in Nat : Before(p)' = Before(p)
  <2>1. \A q \in Packets' : q < ptr \/ mem'[q].kind # "string" BY <1>11, <1>16
  <2> QED BY <1>7, <1>14, <1>15, <2>1, RootedStays
<1>18. ASSUME NEW p \in Nat, p = ptr PROVE BundleAt(p)'
  <2>1. p = ptr BY <1>18
  <2>2. PacketEnd(p)' = p + 4
    <3>1. CASE p = 0 BY <1>7, <2>1, <3>1 DEF PacketEnd
    <3>2. CASE p # 0
      <4>1. p - 1 \in Held' BY <1>6, <1>10, <2>1, <3>2, TopIs
      <4> QED BY <1>7, <2>1, <3>2, <4>1 DEF PacketEnd, ItemEnd
    <3> QED BY <3>1, <3>2
  <2>3. NoItem(p, p + 4)'
    <3>1. \A i \in Items : i < p BY <1>5, <2>1, ItemsAre
    <3> QED BY <1>7, <3>1 DEF NoItem
  <2> QED BY <1>11, <2>1, <2>2, <2>3 DEF BundleAt
<1>19. PacketsOK'
  <2>1. ASSUME NEW q \in Packets' PROVE BundleAt(q)' \/ MessageAt(q)'
    <3>1. CASE q \in Packets BY <1>0, <1>7, <1>14, <1>17, <3>1, GrowPackets, Edge
    <3>2. CASE q \notin Packets
      <4>1. q \in Nat /\ ptr <= q BY <1>7, <3>2, NewPackets
      <4>2. q = ptr BY <1>5, <1>16, <4>1
      <4> QED BY <1>18, <4>1, <4>2
    <3> QED BY <3>1, <3>2
  <2> QED BY <2>1 DEF PacketsOK
<1>20. ToldOK' BY <1>0, <1>17, ToldStays
<1>21. WritingOK' BY <1>0, <1>10 DEF WritingOK
<1> QED BY <1>9, <1>13, <1>19, <1>20, <1>21

\* In a bundle that is open no item waits for what comes next.
LEMMA InBundle ==
  ASSUME IInv, FramesOK, Nested, Joined, PacketsOK, WritingOK,
         msg.step = 0, open # << >>, Top.kind = "bundle"
  PROVE  /\ Top.ref \in Nat /\ Top.ref + 4 <= ptr
         /\ \A i \in Held : i < Top.ref
         /\ ptr - 1 \notin Items
         /\ \A p \in Packets : mem[p].kind # "#bundle" => p # 0 /\ p - 1 \notin Held
<1>0. ptr \in Nat BY WriterTypes
<1>1. Len(open) \in DOMAIN open /\ Top = open[Len(open)] BY TopIs, WriterTypes
<1>2. Top.ref \in Nat BY TopIs
<1>3. Top.ref + 4 <= ptr BY <1>1 DEF FramesOK
<1>4. \A i \in Held : i < Top.ref BY TopIsLast
<1>5. ptr - 1 \notin Items
  <2> SUFFICES ASSUME ptr - 1 \in Items PROVE FALSE OBVIOUS
  <2>1. ptr - 1 \notin Held BY <1>0, <1>2, <1>3, <1>4
  <2>2. ptr - 1 + 1 < ItemEnd(ptr - 1) /\ ItemEnd(ptr - 1) <= ptr /\ ItemEnd(ptr - 1) \in Nat
    BY <2>1, ItemsAre
  <2> QED BY <1>0, <2>2
<1>6. ASSUME NEW p \in Packets, mem[p].kind # "#bundle" PROVE p # 0 /\ p - 1 \notin Held
  BY <1>6, OpenPackets
<1> QED BY <1>2, <1>3, <1>4, <1>5, <1>6

\* An item is begun behind the others of its bundle (writer.h, push_item).
LEMMA PushItemLayout ==
  ASSUME IInv, Layout, PushItem PROVE Layout'
<1> USE DEF Layout
<1> DEFINE n == Len(open)
           frame == [kind |-> "item", ref |-> ptr, tag |-> Immediate]
<1>0. /\ phase' = phase /\ told' = told /\ msg' = msg /\ mem' = mem /\ phase = "write"
      /\ open' = Append(open, frame) /\ ptr' = ptr + 1
      /\ msg.step = 0 /\ open # << >> /\ Top.kind = "bundle"
  BY DEF PushItem
<1>2. frame.kind = "item" /\ frame.ref = ptr OBVIOUS
<1>3. /\ n \in Nat /\ DOMAIN open = 1 .. n /\ Len(open') = n + 1 /\ DOMAIN open' = 1 .. n + 1
      /\ \A k \in 1 .. n : open'[k] = open[k]
      /\ open'[n + 1] = frame
  <2>1. open \in Seq(Frame) BY DEF IInv, TypeOK
  <2>2. open' = Append(open, frame) BY <1>0
  <2> HIDE DEF frame
  <2> QED BY <2>1, <2>2, Appended
<1> HIDE DEF frame, n
<1>4. ptr \in 0 .. Size - 1 BY WriterTypes
<1>5. ptr \in Nat BY <1>4
<1>6. PICK z \in Nat : z = ptr' /\ z = ptr + 1 BY <1>0, <1>5
<1>7. n \in 1 .. n /\ Top = open[n] BY <1>0, TopIs DEF n
<1>8. /\ Top.ref \in Nat /\ Top.ref + 4 <= ptr
      /\ \A i \in Held : i < Top.ref
      /\ ptr - 1 \notin Items
      /\ \A p \in Packets : mem[p].kind # "#bundle" => p # 0 /\ p - 1 \notin Held
  BY <1>0, InBundle
<1>9. Held' = Held \cup {ptr}
  <2>1. \A k \in 1 .. n : k \in 1 .. n + 1 BY <1>3
  <2>2. \A k \in 1 .. n + 1 : k \in 1 .. n \/ k = n + 1 BY <1>3
  <2>3. ASSUME NEW i \in Held PROVE i \in Held'
    <3>1. PICK k \in 1 .. n : open[k].kind = "item" /\ open[k].ref = i BY <1>3 DEF Held
    <3> QED BY <1>3, <2>1, <3>1 DEF Held
  <2>4. ptr \in Held'
    <3>1. n + 1 \in 1 .. n + 1 BY <1>3
    <3> QED BY <1>2, <1>3, <3>1 DEF Held
  <2>5. ASSUME NEW i \in Held', i # ptr PROVE i \in Held
    <3>1. PICK k \in 1 .. n + 1 : open'[k].kind = "item" /\ open'[k].ref = i BY <1>3 DEF Held
    <3>2. k \in 1 .. n BY <1>2, <1>3, <2>2, <2>5, <3>1
    <3> QED BY <1>3, <3>1, <3>2 DEF Held
  <2> QED BY <2>3, <2>4, <2>5
<1>10. \A i \in Items : i \in Nat /\ i < ptr /\ i \in 0 .. ptr - 1 BY <1>5, ItemsAre
<1>11. Items' = Items \cup {ptr}
  <2>1. \A i \in 0 .. ptr - 1 : i \in 0 .. z - 1 BY <1>5, <1>6
  <2>2. \A i \in 0 .. z - 1 : i \in 0 .. ptr - 1 \/ i = ptr BY <1>5, <1>6
  <2>3. ptr \in 0 .. z - 1 BY <1>5, <1>6
  <2> QED BY <1>0, <1>6, <1>9, <2>1, <2>2, <2>3 DEF Items
<1>12. ptr \notin Held BY <1>5, <1>8
<1>13. Steady
  <2>1. ASSUME NEW i \in Items
        PROVE  ItemEnd(i)' = IF i \in Held' THEN ptr' ELSE ItemEnd(i)
    <3>1. i # ptr BY <1>5, <1>10
    <3> QED BY <1>0, <1>9, <3>1 DEF ItemEnd
  <2>2. ASSUME NEW i \in Items \ Held
        PROVE  ItemEnd(i) <= ptr' /\ (ItemEnd(i) < ptr' => ItemEnd(i) \in Items')
    <3>1. ItemEnd(i) \in Nat /\ ItemEnd(i) <= ptr BY ItemsAre
    <3>2. ItemEnd(i) <= ptr' BY <1>5, <1>6, <3>1
    <3>3. CASE ItemEnd(i) < ptr BY <1>11, <3>2, <3>3 DEF Joined
    <3>4. CASE ItemEnd(i) = ptr BY <1>11, <3>2, <3>4
    <3> QED BY <1>5, <3>1, <3>3, <3>4
  <2>3. ASSUME NEW i \in 0 .. ptr - 1 PROVE i # ptr BY <1>5
  <2>4. \A i \in Items' : i \in Nat /\ i < ptr' /\ (i < ptr \/ (i = ptr /\ i \in Held'))
    <3>1. \A i \in Items : i < ptr' BY <1>5, <1>6, <1>10
    <3>2. ptr < ptr' BY <1>5, <1>6
    <3> QED BY <1>5, <1>9, <1>10, <1>11, <3>1, <3>2
  <2>5. Held \ Held' = {} BY <1>9
  <2>6. ptr' \in Nat BY <1>6
  <2>7. \A i \in 0 .. ptr - 1 : /\ i \in Items' <=> i \in Items
                                /\ mem'[i] = mem[i]
                                /\ i \in Held' => i \in Held
    BY <1>0, <1>9, <1>11, <2>3
  <2>8. \A i \in Held : i \in Held' BY <1>9
  <2> QED BY <2>1, <2>2, <2>4, <2>5, <2>6, <2>7, <2>8 DEF Steady
<1>14. Nested' /\ Joined' BY <1>13, SteadyItems
<1>15. ptr <= ptr' /\ ptr < ptr' BY <1>5, <1>6
<1>16. \A k \in 1 .. n : open[k].ref \in Nat /\ open[k].ref < ptr
  <2>1. ASSUME NEW k \in 1 .. n PROVE open[k].ref \in Nat /\ open[k].ref < ptr
    <3>1. open[k].ref \in Nat /\ open[k].kind \in {"bundle", "item"} BY WriterTypes DEF n
    <3>2. open[k].ref + 4 <= ptr \/ open[k].ref < ptr BY <1>3, <3>1 DEF FramesOK
    <3> QED BY <1>5, <3>1, <3>2
  <2> QED BY <2>1
<1>17. FramesOK'
  <2>1. ASSUME NEW k \in 1 .. n + 1
        PROVE  /\ \A l \in 1 .. n + 1 : k < l => open'[k].ref < open'[l].ref
               /\ k = 1 => open'[k].kind = "bundle" /\ open'[k].ref = 0
               /\ open'[k].kind = "bundle" =>
                    /\ open'[k].ref + 4 <= ptr'
                    /\ mem'[open'[k].ref].kind = "#bundle"
                    /\ mem'[open'[k].ref + 2].val = open'[k].tag
                    /\ k + 1 \in 1 .. n + 1 =>
                         open'[k + 1].kind = "item" /\ open'[k].ref + 4 <= open'[k + 1].ref
               /\ open'[k].kind = "item" =>
                    /\ open'[k].ref < ptr'
                    /\ k + 1 \in 1 .. n + 1 =>
                         open'[k + 1].kind = "bundle" /\ open'[k + 1].ref = open'[k].ref + 1
    <3>1. CASE k = n + 1
      <4>1. open'[k] = frame BY <1>3, <3>1
      <4>2. \A l \in 1 .. n + 1 : ~(k < l) BY <1>3, <3>1
      <4>3. k + 1 \notin 1 .. n + 1 BY <1>3, <3>1
      <4>4. k # 1 BY <1>3, <1>7, <3>1
      <4> QED BY <1>2, <1>15, <4>1, <4>2, <4>3, <4>4
    <3>2. CASE k \in 1 .. n
      <4> DEFINE r == open[k].ref
      <4>1. open'[k] = open[k] /\ k \in DOMAIN open BY <1>3, <3>2
      <4>2. r \in Nat /\ r < ptr BY <1>16, <3>2
      <4>3. \A l \in 1 .. n + 1 : k < l => r < open'[l].ref
        <5>1. ASSUME NEW l \in 1 .. n, k < l PROVE r < open'[l].ref
          BY <1>3, <4>1, <5>1 DEF FramesOK
        <5>2. r < open'[n + 1].ref BY <1>2, <1>3, <4>2
        <5>3. \A l \in 1 .. n + 1 : l \in 1 .. n \/ l = n + 1 BY <1>3
        <5> QED BY <5>1, <5>2, <5>3
      <4>4. open[k].kind = "bundle" => /\ r + 4 <= ptr' /\ r + 4 <= ptr
                                       /\ mem[r].kind = "#bundle" /\ mem[r + 2].val = open[k].tag
        <5> SUFFICES ASSUME open[k].kind = "bundle"
                     PROVE  /\ r + 4 <= ptr' /\ r + 4 <= ptr
                            /\ mem[r].kind = "#bundle" /\ mem[r + 2].val = open[k].tag
          OBVIOUS
        <5>1. r + 4 <= ptr /\ mem[r].kind = "#bundle" /\ mem[r + 2].val = open[k].tag
          BY <4>1 DEF FramesOK
        <5> HIDE DEF r
        <5>4. r + 4 <= ptr' BY <1>5, <1>6, <4>2, <5>1
        <5> QED BY <5>1, <5>4
      <4>5. r < ptr' BY <1>5, <1>6, <4>2
      <4>6. CASE k = n
        <5>2. open[k].kind = "bundle" BY <1>0, <1>7, <4>6
        <5>3. open'[k + 1] = frame BY <1>3, <4>6
        <5>4. k = 1 => r = 0 BY <4>1 DEF FramesOK
        <5> HIDE DEF r
        <5> QED BY <1>0, <1>2, <4>1, <4>3, <4>4, <5>2, <5>3, <5>4 DEF r
      <4>7. CASE k # n
        <5>1. k + 1 \in DOMAIN open /\ open'[k + 1] = open[k + 1] BY <1>3, <3>2, <4>7
        <5>2. /\ k = 1 => open[k].kind = "bundle" /\ r = 0
              /\ open[k].kind = "bundle" =>
                    open[k + 1].kind = "item" /\ r + 4 <= open[k + 1].ref
              /\ open[k].kind = "item" =>
                    open[k + 1].kind = "bundle" /\ open[k + 1].ref = r + 1
          BY <4>1, <5>1 DEF FramesOK
        <5> HIDE DEF r
        <5> QED BY <1>0, <4>1, <4>3, <4>4, <4>5, <5>1, <5>2 DEF r
      <4> QED BY <4>6, <4>7
    <3> QED BY <1>3, <3>1, <3>2
  <2> QED BY <1>3, <2>1 DEF FramesOK
<1>18. \A q : ~Unfinished(q) /\ ~Unfinished(q)' BY <1>0 DEF Unfinished
<1>19. \A q \in Packets : q \in Nat /\ q < ptr /\ q < ptr'
  <2>1. \A q \in Packets : q \in Nat /\ q < ptr BY PacketsAre
  <2> QED BY <1>5, <1>6, <2>1
<1>20. Packets' \subseteq Packets
  <2> SUFFICES ASSUME NEW q \in Packets', q \notin Packets PROVE FALSE OBVIOUS
  <2>1. q \in Nat /\ ptr <= q /\ q < ptr' /\ (q # 0 => q - 1 \in Items') BY <1>13, NewPackets
  <2>2. q = ptr BY <1>5, <1>6, <2>1
  <2>3. q # 0 BY <1>5, <1>8, <2>2
  <2>4. ptr - 1 \in Items BY <1>5, <1>11, <2>1, <2>2, <2>3
  <2> QED BY <1>8, <2>4
<1>21. Rooted' = Rooted /\ \A p \in Nat : Before(p)' = Before(p)
  BY <1>13, <1>18, <1>19, <1>20, RootedStays
<1>22. PacketsOK'
  <2>1. ASSUME NEW q \in Packets' PROVE BundleAt(q)' \/ MessageAt(q)'
    <3>1. q \in Packets BY <1>20
    <3>2. ptr \in Items' BY <1>11
    <3> QED BY <1>0, <1>8, <1>13, <1>15, <1>18, <1>21, <3>1, <3>2, GrowPackets
  <2> QED BY <2>1 DEF PacketsOK
<1>23. ToldOK' BY <1>0, <1>21, ToldStays
<1>24. WritingOK' BY <1>0 DEF WritingOK
<1> QED BY <1>14, <1>17, <1>22, <1>23, <1>24

\* The frame on top is closed.
LEMMA FramePopped ==
  ASSUME IInv, FramesOK, open # << >>, open' = Front(open), ptr' \in Nat, Top.ref <= ptr',
         \A i \in 0 .. Top.ref - 1 : mem'[i] = mem[i]
  PROVE  /\ FramesOK'
         /\ Held' = Held \ {Top.ref}
<1> DEFINE n == Len(open)
<1>1. open \in Seq(Frame) BY DEF IInv, TypeOK
<1>2. /\ Front(open) \in Seq(Frame) /\ Len(Front(open)) = n - 1
      /\ n \in Nat \ {0}
      /\ \A k \in 1 .. n - 1 : Front(open)[k] = open[k]
  BY <1>1, Shortened
<1>3. DOMAIN open' = 1 .. n - 1 /\ \A k \in 1 .. n - 1 : open'[k] = open[k] BY <1>2
<1>4. DOMAIN open = 1 .. n /\ Top = open[n] /\ n \in 1 .. n BY TopIs, WriterTypes
<1>5. Top.ref \in Nat BY TopIs
<1>6. ptr \in Nat BY WriterTypes
<1> HIDE DEF n
<1>7. ASSUME NEW k \in 1 .. n - 1
      PROVE  /\ k \in 1 .. n /\ k + 1 \in 1 .. n /\ k < n /\ (k + 1 = n \/ k + 1 < n)
             /\ open[k].ref \in Nat
             /\ open[k].ref < Top.ref
             /\ open[k].kind = "bundle" => open[k].ref + 4 <= Top.ref
  <2>1. k \in 1 .. n /\ k + 1 \in 1 .. n /\ k < n /\ (k + 1 = n \/ k + 1 < n) BY <1>2
  <2>2. open[k].ref \in Nat /\ open[k + 1].ref \in Nat
    <3>1. \A l \in 1 .. n : open[l].ref \in Nat
      <4>1. \A l \in 1 .. n : open[l].ref \in 0 .. Size - 1 BY WriterTypes DEF n
      <4> QED BY <4>1
    <3> QED BY <2>1, <3>1
  <2>3. open[k].ref < Top.ref BY <1>4, <2>1 DEF FramesOK
  <2>4. open[k + 1].ref <= Top.ref
    <3>1. CASE k + 1 = n BY <1>4, <1>5, <3>1
    <3>2. CASE k + 1 < n
      <4>1. open[k + 1].ref < open[n].ref BY <1>4, <2>1, <3>2 DEF FramesOK
      <4> QED BY <1>4, <1>5, <2>2, <4>1
    <3> QED BY <2>1, <3>1, <3>2
  <2>5. open[k].kind = "bundle" => open[k].ref + 4 <= open[k + 1].ref
    BY <1>4, <2>1 DEF FramesOK
  <2> QED BY <1>5, <2>1, <2>2, <2>3, <2>4, <2>5
<1>8. Held' = Held \ {Top.ref}
  <2>1. ASSUME NEW i \in Held' PROVE i \in Held \ {Top.ref}
    <3>1. PICK k \in 1 .. n - 1 : open'[k].kind = "item" /\ open'[k].ref = i BY <1>3 DEF Held
    <3>2. open[k].kind = "item" /\ open[k].ref = i /\ k \in 1 .. n /\ i < Top.ref /\ i \in Nat
      BY <1>3, <1>7, <3>1
    <3>3. i # Top.ref BY <1>5, <3>2
    <3> QED BY <1>4, <3>2, <3>3 DEF Held
  <2>2. ASSUME NEW i \in Held, i # Top.ref PROVE i \in Held'
    <3>1. PICK k \in 1 .. n : open[k].kind = "item" /\ open[k].ref = i BY <1>4 DEF Held
    <3>2. k # n BY <1>4, <2>2, <3>1
    <3>3. k \in 1 .. n - 1 BY <1>2, <3>1, <3>2
    <3> QED BY <1>3, <3>1, <3>3 DEF Held
  <2> QED BY <2>1, <2>2
<1>9. ASSUME NEW k \in 1 .. n - 1
      PROVE  /\ \A l \in 1 .. n - 1 : k < l => open'[k].ref < open'[l].ref
             /\ k = 1 => open'[k].kind = "bundle" /\ open'[k].ref = 0
             /\ open'[k].kind = "bundle" =>
                  /\ open'[k].ref + 4 <= ptr'
                  /\ mem'[open'[k].ref].kind = "#bundle"
                  /\ mem'[open'[k].ref + 2].val = open'[k].tag
                  /\ k + 1 \in 1 .. n - 1 =>
                       open'[k + 1].kind = "item" /\ open'[k].ref + 4 <= open'[k + 1].ref
             /\ open'[k].kind = "item" =>
                  /\ open'[k].ref < ptr'
                  /\ k + 1 \in 1 .. n - 1 =>
                       open'[k + 1].kind = "bundle" /\ open'[k + 1].ref = open'[k].ref + 1
  <2>1. open'[k] = open[k] /\ k \in DOMAIN open BY <1>3, <1>4, <1>7
  <2>2. k + 1 \in 1 .. n - 1 => open'[k + 1] = open[k + 1] BY <1>3
  <2>3. ASSUME NEW l \in 1 .. n - 1, k < l PROVE open'[k].ref < open'[l].ref
    <3>1. l \in DOMAIN open BY <1>4, <1>7
    <3> QED BY <1>3, <2>1, <2>3, <3>1 DEF FramesOK
  <2> DEFINE r == open[k].ref
  <2>4. r \in Nat /\ r < Top.ref /\ (open[k].kind = "bundle" => r + 4 <= Top.ref) BY <1>7
  <2>5. open[k].kind = "bundle" => mem[r].kind = "#bundle" /\ mem[r + 2].val = open[k].tag
    BY <2>1 DEF FramesOK
  <2>6. k = 1 => open[k].kind = "bundle" /\ r = 0 BY <2>1 DEF FramesOK
  <2>7. k + 1 \in DOMAIN open BY <1>4, <1>7
  <2>8. /\ open[k].kind = "bundle" => open[k + 1].kind = "item" /\ r + 4 <= open[k + 1].ref
        /\ open[k].kind = "item" => open[k + 1].kind = "bundle" /\ open[k + 1].ref = r + 1
    BY <2>1, <2>7 DEF FramesOK
  <2> HIDE DEF r
  <2>9. r < ptr' BY <1>5, <2>4
  <2>10. ASSUME open[k].kind = "bundle"
         PROVE  r + 4 <= ptr' /\ mem'[r] = mem[r] /\ mem'[r + 2] = mem[r + 2]
    <3>1. r + 4 <= Top.ref BY <2>4, <2>10
    <3>2. r \in 0 .. Top.ref - 1 BY <1>5, <2>4, <3>1
    <3>3. r + 2 \in 0 .. Top.ref - 1 BY <1>5, <2>4, <3>1
    <3>4. r + 4 <= ptr' BY <1>5, <2>4, <3>1
    <3> QED BY <3>2, <3>3, <3>4
  <2> QED BY <2>1, <2>2, <2>3, <2>5, <2>6, <2>8, <2>9, <2>10 DEF r
<1>10. FramesOK' BY <1>3, <1>9 DEF FramesOK
<1> QED BY <1>8, <1>10

\* What is written behind the end is taken back: it is no message.
LEMMA PopPackets ==
  ASSUME IInv, Layout, Steady, ptr' <= ptr, msg.step = 0, msg' = msg, told' = told,
         \A p \in Packets : p < ptr' \/ mem[p].kind = "#bundle",
         \A p \in Packets : mem[p].kind # "#bundle" =>
           p # 0 /\ p - 1 \notin Held' /\ PacketEnd(p) <= ptr',
         \A p \in Packets : p < ptr' /\ mem[p].kind = "#bundle" =>
           p + 4 <= ptr' /\ (PacketEnd(p) = ptr /\ p + 4 = ptr => ptr' = ptr)
  PROVE  PacketsOK' /\ ToldOK'
<1> USE DEF Layout
<1>0. ptr \in Nat BY WriterTypes
<1>00. ptr' \in Nat BY DEF Steady
<1>1. \A q : ~Unfinished(q) /\ ~Unfinished(q)' BY DEF Unfinished
<1>2. Packets' \subseteq Packets
  <2> SUFFICES ASSUME NEW q \in Packets', q \notin Packets PROVE FALSE OBVIOUS
  <2>1. q \in Nat /\ ptr <= q /\ q < ptr' BY NewPackets
  <2> QED BY <1>0, <1>00, <2>1
<1>3. ASSUME NEW q \in Packets' PROVE q \in Packets /\ q \in Nat /\ q < ptr /\ q < ptr'
  <2>1. q \in 0 .. ptr' - 1 BY DEF Packets
  <2>2. q < ptr' BY <1>00, <2>1, UpTo
  <2>3. q \in Packets BY <1>2
  <2> QED BY <2>2, <2>3, PacketsAre
<1>4. \A q \in Packets : q < ptr' \/ mem[q].kind # "string"
  <2>1. ASSUME NEW q \in Packets, mem[q].kind = "#bundle" PROVE mem[q].kind # "string" BY <2>1
  <2> QED BY <2>1
<1>5. Rooted' = Rooted /\ \A p \in Nat : Before(p)' = Before(p)
  BY <1>1, <1>3, <1>4, RootedStays
<1>6. ASSUME NEW q \in Packets' PROVE BundleAt(q)' \/ MessageAt(q)'
  <2>1. q \in Packets /\ q \in Nat /\ q < ptr /\ q < ptr' BY <1>3
  <2>2. CASE mem[q].kind = "#bundle"
    <3>1. BundleAt(q) /\ q + 4 <= PacketEnd(q) BY <2>1, <2>2, PacketIsNoItem DEF BundleAt
    <3>2. /\ PacketEnd(q)' = IF q = 0 \/ q - 1 \in Held' THEN ptr' ELSE PacketEnd(q)
          /\ q # 0 /\ q - 1 \in Held' => q - 1 \in Held
      BY <2>1, SteadyPacket
    <3>3. q + 4 <= ptr' /\ (PacketEnd(q) = ptr /\ q + 4 = ptr => ptr' = ptr)
      BY <2>1, <2>2
    <3>4. q + 4 <= PacketEnd(q)' BY <3>1, <3>2, <3>3
    <3>5. q = 0 \/ q - 1 \in Held => PacketEnd(q) = ptr BY DEF PacketEnd, ItemEnd
    <3>6. q + 4 = PacketEnd(q) => q + 4 = PacketEnd(q)' BY <3>2, <3>3, <3>5
    <3> QED BY <2>1, <3>1, <3>3, <3>4, <3>6, BundleStays
  <2>3. CASE mem[q].kind # "#bundle"
    <3>1. MessageAt(q) BY <1>1, <2>1, <2>3, PacketIsNoItem
    <3>2. q # 0 /\ q - 1 \notin Held' /\ PacketEnd(q) <= ptr' BY <2>1, <2>3
    <3>3. Before(q)' = Before(q) BY <1>5, <2>1
    <3> QED BY <2>1, <3>1, <3>2, <3>3, MessageStays
  <2> QED BY <2>2, <2>3
<1>7. PacketsOK' BY <1>6 DEF PacketsOK
<1>8. ToldOK' BY <1>5, ToldStays
<1> QED BY <1>7, <1>8

\* A bundle is closed, or taken back when it is empty (writer.h, pop_bundle).
LEMMA PopBundleLayout ==
  ASSUME IInv, Layout, PopBundle PROVE Layout'
<1> USE DEF Layout
<1> DEFINE r == Top.ref
<1>0. /\ phase' = phase /\ told' = told /\ msg' = msg /\ mem' = mem /\ phase = "write"
      /\ open' = Front(open) /\ msg.step = 0 /\ open # << >> /\ Top.kind = "bundle"
      /\ ptr' = IF ptr - r - 4 <= 0 THEN r ELSE ptr
  BY DEF PopBundle, Close, BundleSize
<1>1. ptr \in Nat BY WriterTypes
<1>2. /\ r \in Nat /\ r + 4 <= ptr
      /\ \A i \in Held : i < r
      /\ \A p \in Packets : mem[p].kind # "#bundle" => p # 0 /\ p - 1 \notin Held
  BY <1>0, InBundle
<1> HIDE DEF r
<1>3. ptr' \in Nat /\ r <= ptr' /\ ptr' <= ptr BY <1>0, <1>1, <1>2
<1>4. FramesOK' /\ Held' = Held \ {r}
  <2>1. \A i \in 0 .. Top.ref - 1 : mem'[i] = mem[i] BY <1>0
  <2> QED BY <1>0, <1>3, <2>1, FramePopped DEF r
<1>5. Held' = Held BY <1>2, <1>4
<1>6. \A i \in Items : i \in Nat /\ i < ptr /\ i \in 0 .. ptr - 1 BY <1>1, ItemsAre
<1>7. WritingOK' BY <1>0 DEF WritingOK
<1>8. CASE ~(ptr - r - 4 <= 0)
  <2>1. ptr' = ptr BY <1>0, <1>8
  <2>2. Items' = Items BY <1>0, <1>5, <2>1 DEF Items
  <2>3. \A i : ItemEnd(i)' = ItemEnd(i) BY <1>0, <1>5, <2>1 DEF ItemEnd
  <2>4. \A i \in Items : i \in Held => ItemEnd(i) = ptr BY ItemsAre
  <2>5. \A i \in Items : ItemEnd(i) <= ptr /\ (ItemEnd(i) < ptr => ItemEnd(i) \in Items)
    BY DEF Joined
  <2>6. Steady BY <1>0, <1>1, <1>5, <1>6, <2>1, <2>2, <2>3, <2>4, <2>5 DEF Steady
  <2>7. Nested' /\ Joined' BY <2>6, SteadyItems
  <2>8. ASSUME NEW p \in Packets
        PROVE  /\ p < ptr' /\ PacketEnd(p) <= ptr'
               /\ mem[p].kind = "#bundle" => p + 4 <= ptr'
    BY <2>1, PacketsAre, PacketIsNoItem
  <2>9. PacketsOK' /\ ToldOK' BY <1>0, <1>2, <1>3, <1>5, <2>1, <2>6, <2>8, PopPackets
  <2> QED BY <1>4, <1>7, <2>7, <2>9
<1>9. CASE ptr - r - 4 <= 0
  <2>1. ptr' = r /\ ptr = r + 4 BY <1>0, <1>1, <1>2, <1>9
  <2>2. r = 0 \/ (r - 1 \in Held /\ r # 0)
    <3> DEFINE n == Len(open)
    <3>1. n \in Nat /\ n \in 1 .. n /\ DOMAIN open = 1 .. n /\ Top = open[n]
      BY <1>0, TopIs, WriterTypes
    <3> HIDE DEF n
    <3>2. CASE n = 1 BY <3>1, <3>2 DEF FramesOK, r
    <3>3. CASE n # 1
      <4>0. PICK k \in 1 .. n : k + 1 = n
        <5>1. n - 1 \in 1 .. n /\ n - 1 + 1 = n BY <3>1, <3>3
        <5> QED BY <5>1
      <4>1. open[k].kind # "bundle" BY <1>0, <3>1, <4>0 DEF FramesOK
      <4>2. open[k].kind = "item" BY <3>1, <4>1, WriterTypes
      <4>3. Top.ref = open[k].ref + 1 BY <3>1, <4>0, <4>2 DEF FramesOK
      <4>4. open[k].ref \in Held BY <3>1, <4>2 DEF Held
      <4>5. open[k].ref \in Nat BY <3>1, WriterTypes
      <4> QED BY <4>3, <4>4, <4>5 DEF r
    <3> QED BY <3>2, <3>3
  <2>3. r \in Packets
    <3>1. r \in 0 .. ptr - 1 BY <1>1, <1>2, <2>1
    <3>2. Held \subseteq Items BY HeldAreItems
    <3> QED BY <2>2, <3>1, <3>2 DEF Packets
  <2>4. mem[r].kind = "#bundle"
    <3>1. Len(open) \in DOMAIN open /\ Top = open[Len(open)] BY <1>0, TopIs, WriterTypes
    <3> QED BY <1>0, <3>1 DEF FramesOK, r
  <2>5. NoItem(r, r + 4) BY <2>3, <2>4, PacketIsNoItem DEF BundleAt
  <2>6. \A i \in Items : i < r BY <1>1, <1>2, <1>6, <2>1, <2>5 DEF NoItem
  <2>7. Items' = Items
    <3>1. \A i \in 0 .. r - 1 : i \in 0 .. ptr - 1 BY <1>1, <1>2, <2>1
    <3>2. \A i \in Items : i \in 0 .. r - 1 BY <1>2, <1>6, <2>6
    <3> QED BY <1>0, <1>5, <2>1, <3>1, <3>2 DEF Items
  <2>8. ASSUME NEW i \in Items \ Held PROVE ItemEnd(i) < r /\ ItemEnd(i) \in Items
    <3>0. i \in Nat /\ i < r /\ ItemEnd(i) \in Nat BY <2>6, ItemsAre
    <3>1. r - 1 \in Held /\ r # 0 BY <1>2, <2>2, <3>0
    <3>2. r - 1 \in Items BY <3>1, HeldAreItems
    <3>3. i < r - 1
      <4>1. i # r - 1 BY <3>1
      <4> QED BY <1>2, <3>0, <4>1
    <3>4. ItemEnd(i) <= r - 1 BY <3>1, <3>2, <3>3 DEF Nested
    <3>5. ItemEnd(i) < r BY <1>2, <3>0, <3>4
    <3>6. ItemEnd(i) < ptr BY <1>1, <1>2, <2>1, <3>0, <3>5
    <3> QED BY <3>5, <3>6 DEF Joined
  <2>9. \A i \in Items : ItemEnd(i)' = IF i \in Held THEN ptr' ELSE ItemEnd(i)
    BY <1>0, <1>5 DEF ItemEnd
  <2>10. Steady
    <3>1. \A i \in Items \ Held : ItemEnd(i) <= ptr' /\ ItemEnd(i) \in Items'
      <4>1. \A i \in Items \ Held : ItemEnd(i) \in Nat BY ItemsAre
      <4> QED BY <1>2, <2>1, <2>7, <2>8, <4>1
    <3> QED BY <1>0, <1>3, <1>5, <1>6, <2>1, <2>6, <2>7, <2>9, <3>1 DEF Steady
  <2>11. Nested' /\ Joined' BY <2>10, SteadyItems
  <2>12. ASSUME NEW p \in Packets PROVE p < ptr' \/ mem[p].kind = "#bundle"
    <3>1. p \in Nat /\ (p # 0 => p - 1 \in Items) BY PacketsAre
    <3>2. p < r \/ p = r BY <1>2, <2>6, <3>1
    <3> QED BY <2>1, <2>4, <3>2
  <2>13. ASSUME NEW p \in Packets, p # 0, p - 1 \notin Held PROVE PacketEnd(p) <= ptr'
    <3>1. p - 1 \in Items /\ PacketEnd(p) = ItemEnd(p - 1) /\ PacketEnd(p) \in Nat
      BY <2>13, PacketsAre
    <3>2. ItemEnd(p - 1) < r BY <2>8, <2>13, <3>1
    <3> QED BY <1>2, <2>1, <3>1, <3>2
  <2>14. ASSUME NEW p \in Packets, p < ptr', mem[p].kind = "#bundle"
         PROVE  p + 4 <= ptr' /\ p + 4 # ptr
    <3>1. p \in Nat /\ NoItem(p, p + 4) BY <2>14, PacketsAre, PacketIsNoItem DEF BundleAt
    <3>2. p < r BY <2>1, <2>14
    <3>3. r - 1 \in Items BY <1>2, <2>2, <3>1, <3>2, HeldAreItems
    <3>4. r - 1 < p \/ p + 4 <= r - 1 BY <3>1, <3>3 DEF NoItem
    <3> QED BY <1>2, <2>1, <3>1, <3>2, <3>4
  <2>15. PacketsOK' /\ ToldOK'
    BY <1>0, <1>2, <1>3, <1>5, <2>10, <2>12, <2>13, <2>14, PopPackets
  <2> QED BY <1>4, <1>7, <2>11, <2>15
<1> QED BY <1>8, <1>9

\* An item is closed, or taken back when it is empty (writer.h, pop_item).
LEMMA PopItemLayout ==
  ASSUME IInv, Layout, PopItem PROVE Layout'
<1> USE DEF Layout
<1> DEFINE r == Top.ref
<1>0. /\ phase' = phase /\ told' = told /\ msg' = msg /\ phase = "write"
      /\ open' = Front(open) /\ msg.step = 0 /\ open # << >> /\ Top.kind = "item"
      /\ IF ptr - r - 1 <= 0 THEN ptr' = r /\ mem' = mem
         ELSE mem' = [mem EXCEPT ![r] = Word("size", ptr - r - 1)] /\ ptr' = ptr
  BY DEF PopItem, Close, ItemSize
<1>1. ptr \in 0 .. Size - 1 /\ DOMAIN mem = 0 .. Size - 1 BY WriterTypes
<1>2. ptr \in Nat BY <1>1
<1>3. r \in Nat BY <1>0, TopIs
<1>4. /\ r \in Held /\ r \in Items /\ r < ptr
      /\ \A i \in Held : i <= r
  <2>1. r \in Held /\ r < ptr BY <1>0, TopIsLast
  <2>2. r \in Items BY <2>1, HeldAreItems
  <2>3. \A i \in Held : i < r \/ i = r BY <1>0, TopIsLast
  <2>4. ASSUME NEW i \in Held PROVE i <= r
    <3>1. i \in 0 .. ptr - 1 BY HeldAreItems
    <3>2. i < r \/ i = r BY <2>3
    <3> QED BY <1>3, <3>1, <3>2
  <2> QED BY <2>1, <2>2, <2>4
<1>5. Current = r + 1 BY <1>0 DEF Current
<1>6. \A p \in Packets : mem[p].kind # "#bundle" /\ (p = 0 \/ p - 1 \in Held) => p = r + 1
  BY <1>0, <1>5, OpenPackets
<1> HIDE DEF r
<1>7. ptr' \in Nat /\ r <= ptr' /\ ptr' <= ptr BY <1>0, <1>2, <1>3, <1>4
<1>8. r \in 0 .. Size - 1 BY <1>1, <1>3, <1>4
<1>9. FramesOK' /\ Held' = Held \ {r}
  <2>1. \A i \in 0 .. Top.ref - 1 : mem'[i] = mem[i]
    <3>1. \A i \in 0 .. r - 1 : i # r BY <1>3
    <3>2. \A i : i # r => mem'[i] = mem[i] \/ ~(i \in DOMAIN mem) BY <1>0
    <3>3. \A i \in 0 .. r - 1 : i \in DOMAIN mem BY <1>1, <1>3, <1>4
    <3> QED BY <3>1, <3>2, <3>3 DEF r
  <2> QED BY <1>0, <1>7, <2>1, FramePopped DEF r
<1>10. \A i \in Items : i \in Nat /\ i < ptr /\ i \in 0 .. ptr - 1 BY <1>2, ItemsAre
<1>11. WritingOK' BY <1>0 DEF WritingOK
<1>12. ASSUME NEW i \in Held, NEW j \in Held', i < j PROVE i \in Held'
  <2>1. j <= r /\ i # r
    <3>1. j \in Held BY <1>9
    <3> QED BY <1>3, <1>4, <1>10, <1>12, <3>1, HeldAreItems
  <2> QED BY <1>9, <2>1
<1>13. CASE ~(ptr - r - 1 <= 0)
  <2>1. ptr' = ptr /\ r + 1 < ptr BY <1>0, <1>2, <1>3, <1>13
  <2>2. mem'[r] = Word("size", ptr - r - 1) BY <1>0, <1>1, <1>8, <1>13
  <2>3. \A i \in 0 .. ptr - 1 : i # r => mem'[i] = mem[i]
    <3>1. \A i \in 0 .. ptr - 1 : i \in DOMAIN mem BY <1>1
    <3>2. mem' = [mem EXCEPT ![r] = Word("size", ptr - r - 1)] BY <1>0, <1>13
    <3> QED BY <3>1, <3>2
  <2>4. Items' = Items
    <3>1. mem'[r].kind = "size" BY <2>2 DEF Word
    <3>2. r \in 0 .. ptr - 1 BY <1>4, <1>10
    <3>3. ASSUME NEW i \in 0 .. ptr - 1 PROVE i \in Items' <=> i \in Items
      <4>1. i \in Items' <=> (i \in Held' \/ mem'[i].kind = "size") BY <2>1 DEF Items
      <4>2. i \in Items <=> (i \in Held \/ mem[i].kind = "size") BY DEF Items
      <4>3. CASE i = r BY <1>4, <3>1, <4>1, <4>3
      <4>4. CASE i # r BY <1>9, <2>3, <4>1, <4>2, <4>4
      <4> QED BY <4>3, <4>4
    <3>4. Items' \subseteq 0 .. ptr - 1 BY <2>1 DEF Items
    <3>5. Items \subseteq 0 .. ptr - 1 BY DEF Items
    <3> QED BY <3>3, <3>4, <3>5
  <2>5. ASSUME NEW i \in Items
        PROVE  /\ ItemEnd(i)' = ItemEnd(i)
               /\ i \in Held => ItemEnd(i) = ptr
               /\ ItemEnd(i) <= ptr /\ (ItemEnd(i) < ptr => ItemEnd(i) \in Items)
    <3>1. i \in Held => ItemEnd(i) = ptr BY ItemsAre
    <3>2. CASE i = r
      <4>1. r \notin Held' BY <1>9
      <4>2. ItemEnd(i)' = i + 1 + mem'[i].val BY <3>2, <4>1 DEF ItemEnd
      <4>3. mem'[r].val = ptr - r - 1 BY <2>2 DEF Word
      <4>4. ItemEnd(i)' = ptr BY <1>2, <1>3, <3>2, <4>2, <4>3
      <4>5. ItemEnd(i) = ptr BY <1>4, <3>2 DEF ItemEnd
      <4> QED BY <3>1, <4>4, <4>5 DEF Joined
    <3>3. CASE i # r
      <4>1. mem'[i] = mem[i] BY <1>10, <2>3, <3>3
      <4>2. i \in Held' <=> i \in Held BY <1>9, <3>3
      <4>3. ItemEnd(i)' = ItemEnd(i) BY <2>1, <4>1, <4>2 DEF ItemEnd
      <4> QED BY <3>1, <4>3 DEF Joined
    <3> QED BY <3>2, <3>3
  <2>6. Steady
    <3>1. \A i \in 0 .. ptr - 1 : /\ i \in Items' <=> i \in Items
                                  /\ i \notin Items => mem'[i] = mem[i]
                                  /\ i \in Held' => i \in Held
      BY <1>4, <1>9, <2>3, <2>4
    <3>2. \A i \in Items' : i \in Nat /\ i < ptr' /\ i < ptr BY <1>10, <2>1, <2>4
    <3>3. \A i \in Items : ItemEnd(i)' = IF i \in Held' THEN ptr' ELSE ItemEnd(i)
      BY <1>9, <2>1, <2>5
    <3>4. \A i \in Held \ Held' : ptr' = ptr /\ i + 1 < ptr BY <1>9, <2>1
    <3>5. \A i \in Items : ItemEnd(i) <= ptr' /\ (ItemEnd(i) < ptr' => ItemEnd(i) \in Items')
      BY <2>1, <2>4, <2>5
    <3> QED BY <1>7, <1>12, <3>1, <3>2, <3>3, <3>4, <3>5 DEF Steady
  <2>7. Nested' /\ Joined' BY <2>6, SteadyItems
  <2>8. ASSUME NEW p \in Packets
        PROVE  /\ p < ptr' /\ PacketEnd(p) <= ptr'
               /\ mem[p].kind = "#bundle" => p + 4 <= ptr'
    BY <2>1, PacketsAre, PacketIsNoItem
  <2>9. ASSUME NEW p \in Packets, mem[p].kind # "#bundle" PROVE p # 0 /\ p - 1 \notin Held'
    <3>1. p \in Nat BY PacketsAre
    <3>2. p = 0 \/ p - 1 \in Held => p = r + 1 BY <1>6, <2>9
    <3>3. p = r + 1 => p # 0 /\ p - 1 = r BY <1>3
    <3> QED BY <1>9, <3>2, <3>3
  <2>10. PacketsOK' /\ ToldOK' BY <1>0, <1>7, <2>1, <2>6, <2>8, <2>9, PopPackets
  <2> QED BY <1>9, <1>11, <2>7, <2>10
<1>14. CASE ptr - r - 1 <= 0
  <2>1. ptr' = r /\ ptr = r + 1 /\ mem' = mem BY <1>0, <1>2, <1>3, <1>4, <1>14
  <2>2. \A i \in Items : i # r => i < r BY <1>2, <1>3, <1>10, <2>1
  <2>3. Items' = Items \ {r}
    <3>1. \A i \in 0 .. r - 1 : i \in 0 .. ptr - 1 /\ i # r BY <1>2, <1>3, <2>1
    <3>2. \A i \in Items \ {r} : i \in 0 .. r - 1 BY <1>3, <1>10, <2>2
    <3> QED BY <1>9, <2>1, <3>1, <3>2 DEF Items
  <2>4. ASSUME NEW i \in Items \ Held
        PROVE  ItemEnd(i) \in Nat /\ ItemEnd(i) <= r /\ (ItemEnd(i) < r => ItemEnd(i) \in Items')
    <3>0. i \in Nat /\ ItemEnd(i) \in Nat BY ItemsAre
    <3>1. i # r /\ i < r BY <1>4, <2>2
    <3>2. ItemEnd(i) <= r BY <1>4, <3>1 DEF Nested
    <3>3. ASSUME ItemEnd(i) < r PROVE ItemEnd(i) \in Items'
      <4>1. ItemEnd(i) < ptr BY <1>3, <2>1, <3>0, <3>3
      <4>2. ItemEnd(i) \in Items BY <4>1 DEF Joined
      <4>3. ItemEnd(i) # r BY <1>3, <3>0, <3>3
      <4> QED BY <2>3, <4>2, <4>3
    <3> QED BY <3>0, <3>2, <3>3
  <2>5. ASSUME NEW i \in Items, i < r PROVE ItemEnd(i)' = IF i \in Held' THEN ptr' ELSE ItemEnd(i)
    <3>1. i # r BY <1>3, <1>10, <2>5
    <3>2. i \in Held' <=> i \in Held BY <1>9, <3>1
    <3> QED BY <2>1, <3>2 DEF ItemEnd
  <2>6. Steady
    <3>1. ASSUME NEW i \in 0 .. ptr - 1, i < ptr'
          PROVE  /\ i \in Items' <=> i \in Items
                 /\ mem'[i] = mem[i]
                 /\ i \in Held' => i \in Held
      <4>1. i \in Nat /\ i < r BY <1>2, <2>1, <3>1
      <4>2. i # r BY <1>3, <4>1
      <4> QED BY <1>9, <2>1, <2>3, <4>2
    <3>2. \A i \in Items' : i \in Nat /\ i < ptr' /\ i < ptr BY <1>10, <2>1, <2>2, <2>3
    <3>3. \A i \in Items : i < ptr' => ItemEnd(i)' = IF i \in Held' THEN ptr' ELSE ItemEnd(i)
      BY <2>1, <2>5
    <3>4. \A i \in Held \ Held' : ~(i < ptr') BY <1>3, <1>9, <2>1
    <3>5. \A i \in Items \ Held : ItemEnd(i) <= ptr' /\ (ItemEnd(i) < ptr' => ItemEnd(i) \in Items')
      BY <2>1, <2>4
    <3> QED BY <1>7, <1>12, <3>1, <3>2, <3>3, <3>4, <3>5 DEF Steady
  <2>7. Nested' /\ Joined' BY <2>6, SteadyItems
  <2>8. ASSUME NEW p \in Packets PROVE p \in Nat /\ p < r
    <3>1. p \in Nat /\ p < ptr /\ p \notin Items BY PacketsAre, PacketIsNoItem
    <3>2. p # r BY <1>4, <3>1
    <3> QED BY <1>3, <2>1, <3>1, <3>2
  <2>9. ASSUME NEW p \in Packets, mem[p].kind # "#bundle"
        PROVE  p # 0 /\ p - 1 \notin Held' /\ PacketEnd(p) <= ptr'
    <3>1. p \in Nat /\ p < r BY <2>8
    <3>2. p # r + 1 BY <1>3, <3>1
    <3>3. p # 0 /\ p - 1 \notin Held BY <1>6, <2>9, <3>2
    <3>4. p - 1 \in Items /\ PacketEnd(p) = ItemEnd(p - 1) BY <3>3, PacketsAre
    <3>5. ItemEnd(p - 1) <= r BY <2>4, <3>3, <3>4
    <3> QED BY <1>9, <2>1, <3>3, <3>4, <3>5
  <2>10. ASSUME NEW p \in Packets, mem[p].kind = "#bundle" PROVE p + 4 <= ptr' /\ p + 4 # ptr
    <3>1. p \in Nat /\ p < r /\ NoItem(p, p + 4) BY <2>8, <2>10, PacketIsNoItem DEF BundleAt
    <3>2. r < p \/ p + 4 <= r BY <1>4, <3>1 DEF NoItem
    <3> QED BY <1>3, <2>1, <3>1, <3>2
  <2>11. PacketsOK' /\ ToldOK' BY <1>0, <1>7, <2>1, <2>6, <2>8, <2>9, <2>10, PopPackets
  <2> QED BY <1>9, <1>11, <2>7, <2>11
<1> QED BY <1>13, <1>14

\* What has been written is the same as long as memory, end and frames are.
LEMMA WrittenStays ==
  ASSUME mem' = mem, ptr' = ptr, open' = open
  PROVE  /\ Held' = Held /\ Items' = Items /\ Packets' = Packets /\ Current' = Current
         /\ \A p : PacketEnd(p)' = PacketEnd(p)
         /\ \A t, p : TagOf(t, p)' <=> TagOf(t, p)
         /\ \A m, p, e : LaidOut(m, p, e)' <=> LaidOut(m, p, e)
         /\ \A p : BundleAt(p)' <=> BundleAt(p)
         /\ FramesOK' <=> FramesOK
         /\ Nested' <=> Nested
         /\ Joined' <=> Joined
<1>1. Held' = Held BY DEF Held
<1>2. Items' = Items BY <1>1 DEF Items
<1>3. Packets' = Packets BY <1>2 DEF Packets
<1>4. Current' = Current BY DEF Current, Top
<1>5. \A i : ItemEnd(i)' = ItemEnd(i) BY <1>1 DEF ItemEnd
<1>6. \A p : PacketEnd(p)' = PacketEnd(p) BY <1>5 DEF PacketEnd
<1>7. \A from, to : NoItem(from, to)' <=> NoItem(from, to) BY <1>2 DEF NoItem
<1>8. \A b, p : InnerOf(b, p)' <=> InnerOf(b, p) BY <1>2, <1>5, <1>6 DEF InnerOf
<1>9. \A t, p : TagOf(t, p)' <=> TagOf(t, p) BY <1>3, <1>8 DEF TagOf
<1>10. \A m, p, e : LaidOut(m, p, e)' <=> LaidOut(m, p, e)
  <2>1. \A at, words : Holds(at, words)' <=> Holds(at, words) BY DEF Holds
  <2>2. \A m, p, e, at : Placed(m, p, e, at)' <=> Placed(m, p, e, at) BY <2>1 DEF Placed
  <2>3. \A m : Offsets(m)' = Offsets(m) BY DEF Offsets
  <2> QED BY <1>7, <2>2, <2>3 DEF LaidOut
<1>11. \A p : BundleAt(p)' <=> BundleAt(p) BY <1>2, <1>6, <1>7 DEF BundleAt
<1>12. FramesOK' <=> FramesOK BY DEF FramesOK
<1>13. Nested' <=> Nested BY <1>1, <1>2, <1>5 DEF Nested
<1>14. Joined' <=> Joined BY <1>1, <1>2, <1>5 DEF Joined
<1> QED BY <1>1, <1>2, <1>3, <1>4, <1>6, <1>9, <1>10, <1>11, <1>12, <1>13, <1>14

\* What is in memory is what it was.
LEMMA LayoutStays ==
  ASSUME Layout, UNCHANGED << mem, ptr, open, msg, told >>, WritingOK'
  PROVE  Layout' /\ Rooted' = Rooted /\ \A p : Before(p)' = Before(p)
<1> USE DEF Layout
<1>1. /\ Held' = Held /\ Items' = Items /\ Packets' = Packets /\ Current' = Current
      /\ \A p : PacketEnd(p)' = PacketEnd(p)
      /\ \A t, p : TagOf(t, p)' <=> TagOf(t, p)
      /\ \A m, p, e : LaidOut(m, p, e)' <=> LaidOut(m, p, e)
      /\ \A p : BundleAt(p)' <=> BundleAt(p)
      /\ FramesOK' /\ Nested' /\ Joined'
  BY WrittenStays
<1>2. \A p : Unfinished(p)' <=> Unfinished(p) BY <1>1 DEF Unfinished
<1>3. Rooted' = Rooted BY <1>1, <1>2 DEF Rooted
<1>4. \A p : Before(p)' = Before(p) BY <1>3 DEF Before
<1>5. \A m, p : Told(m, p)' <=> Told(m, p) BY <1>1, <1>4 DEF Told
<1>6. \A p : MessageAt(p)' <=> MessageAt(p) BY <1>1, <1>5 DEF MessageAt
<1>7. PacketsOK' BY <1>1, <1>2, <1>6 DEF PacketsOK
<1>8. ToldOK' BY <1>3, ToldStays
<1> QED BY <1>1, <1>3, <1>4, <1>7, <1>8

\* The messages in front of a place.
LEMMA RootedAre ==
  ASSUME IInv, Layout
  PROVE  /\ IsFiniteSet(Rooted) /\ Len(told) = Cardinality(Rooted) /\ Len(told) \in Nat
         /\ \A q \in Rooted : q \in Packets /\ q \in Nat /\ q < ptr
         /\ \A p \in Nat : /\ IsFiniteSet({ q \in Rooted : q < p })
                           /\ Before(p) \in Nat /\ Before(p) <= Len(told)
         /\ \A p \in Rooted : Before(p) + 1 <= Len(told)
<1> USE DEF Layout
<1>1. ptr \in Nat BY WriterTypes
<1>2. \A q \in Rooted : q \in Packets /\ q \in Nat /\ q < ptr BY PacketsAre DEF Rooted
<1>3. IsFiniteSet(Rooted)
  <2>1. IsFiniteSet(0 .. ptr - 1) BY <1>1, FS_Interval
  <2>2. Rooted \subseteq 0 .. ptr - 1 BY DEF Rooted, Packets
  <2> QED BY <2>1, <2>2, FS_Subset
<1>4. Len(told) = Cardinality(Rooted) BY DEF ToldOK
<1>5. Cardinality(Rooted) \in Nat BY <1>3, FS_CardinalityType
<1>6. ASSUME NEW p \in Nat
      PROVE  /\ IsFiniteSet({ q \in Rooted : q < p })
             /\ Before(p) \in Nat /\ Before(p) <= Len(told)
  <2> DEFINE S == { q \in Rooted : q < p }
  <2>1. S \subseteq Rooted OBVIOUS
  <2>2. Before(p) = Cardinality(S) BY DEF Before
  <2> HIDE DEF S
  <2>3. IsFiniteSet(S) /\ Cardinality(S) <= Cardinality(Rooted) BY <1>3, <2>1, FS_Subset
  <2>4. Cardinality(S) \in Nat BY <2>3, FS_CardinalityType
  <2> QED BY <1>4, <2>2, <2>3, <2>4 DEF S
<1>7. ASSUME NEW p \in Rooted PROVE Before(p) + 1 <= Len(told)
  <2> DEFINE S == { q \in Rooted : q < p }
  <2>1. p \in Nat BY <1>2
  <2>2. S \subseteq Rooted /\ p \notin S BY <2>1
  <2>3. Before(p) = Cardinality(S) BY DEF Before
  <2>4. IsFiniteSet(S) BY <1>6, <2>1
  <2> HIDE DEF S
  <2>5. IsFiniteSet(S \cup {p}) /\ Cardinality(S \cup {p}) = Cardinality(S) + 1
    BY <2>2, <2>4, FS_AddElement
  <2>6. S \cup {p} \subseteq Rooted BY <2>2
  <2>7. Cardinality(S \cup {p}) <= Cardinality(Rooted) BY <1>3, <2>6, FS_Subset
  <2> QED BY <1>4, <2>3, <2>5, <2>7
<1> QED BY <1>2, <1>3, <1>4, <1>5, <1>6, <1>7

\* One more message.
LEMMA NextBefore ==
  ASSUME IInv, Layout, NEW p \in Nat, NEW q \in Nat, p < q,
         \A x \in Rooted : x <= p \/ q <= x
  PROVE  Before(q) = IF p \in Rooted THEN Before(p) + 1 ELSE Before(p)
<1> DEFINE S == { x \in Rooted : x < p }
           T == { x \in Rooted : x < q }
<1>1. Before(p) = Cardinality(S) /\ Before(q) = Cardinality(T) BY DEF Before
<1>2. \A x \in Rooted : x \in Nat BY RootedAre
<1>3. IsFiniteSet(S) BY RootedAre
<1>4. p \notin S BY DEF Before
<1>5. CASE p \in Rooted
  <2>1. T = S \cup {p}
    <3>1. \A x \in Rooted : x < q <=> x < p \/ x = p BY <1>2
    <3> QED BY <1>5, <3>1
  <2> HIDE DEF S, T
  <2>2. Cardinality(T) = Cardinality(S) + 1 BY <1>3, <1>4, <2>1, FS_AddElement
  <2> QED BY <1>1, <1>5, <2>2
<1>6. CASE p \notin Rooted
  <2>1. T = S
    <3>1. \A x \in Rooted : x # p BY <1>6
    <3>2. \A x \in Rooted : x < q <=> x < p BY <1>2, <3>1
    <3> QED BY <3>2
  <2> QED BY <1>1, <1>6, <2>1
<1> QED BY <1>5, <1>6

\* Where a message is being written: a packet that ends where the writer is, behind
\* all items.
LEMMA CurrentIs ==
  ASSUME IInv, Layout, msg.step # 0
  PROVE  /\ Current \in Packets /\ Current \in Nat /\ Current < ptr /\ PacketEnd(Current) = ptr
         /\ \A i \in Items : i < Current
         /\ \A p \in Packets : p <= Current
         /\ mem[Current] = Word("string", [text |-> msg.path, words |-> msg.path.words])
         /\ LaidOut(msg, Current, ptr)
         /\ Current # 0 => open # << >> /\ Current - 1 = Top.ref /\ Top.ref \in Held
<1> USE DEF Layout
<1>0. ptr \in Nat BY WriterTypes
<1>1. /\ open # << >> => Top.kind = "item"
      /\ Current < ptr /\ LaidOut(msg, Current, ptr)
  BY DEF WritingOK
<1>2. open = << >> => Current = 0 BY DEF Current
<1>3. open # << >> => /\ Current = Top.ref + 1 /\ Top.ref \in Nat
                      /\ Top.ref \in Held /\ Top.ref \in Items
  BY <1>1, TopIs, TopIsLast, HeldAreItems DEF Current
<1>4. Current \in Nat BY <1>2, <1>3
<1>5. /\ Current # 0 => open # << >> /\ Current - 1 = Top.ref /\ Top.ref \in Held
                         /\ Current - 1 \in Items
  BY <1>2, <1>3
<1>6. Current \in Packets
  <2>1. Current \in 0 .. ptr - 1 BY <1>0, <1>1, <1>4
  <2> QED BY <1>5, <2>1 DEF Packets
<1>7. PacketEnd(Current) = ptr
  <2>1. CASE Current = 0 BY <2>1 DEF PacketEnd
  <2>2. CASE Current # 0
    <3>1. Current - 1 \in Held BY <1>5, <2>2
    <3> QED BY <2>2, <3>1 DEF PacketEnd, ItemEnd
  <2> QED BY <2>1, <2>2
<1>8. mem[Current] = Word("string", [text |-> msg.path, words |-> msg.path.words])
  BY <1>1 DEF LaidOut
<1>9. ASSUME NEW i \in Items PROVE i < Current
  <2>1. NoItem(Current, ptr) BY <1>1 DEF LaidOut
  <2>2. i \in Nat /\ i < ptr BY <1>0, ItemsAre
  <2> QED BY <1>0, <1>4, <2>1, <2>2 DEF NoItem
<1>10. ASSUME NEW p \in Packets PROVE p <= Current
  <2>1. p \in Nat /\ (p # 0 => p - 1 \in Items) BY PacketsAre
  <2>2. p # 0 => p - 1 < Current BY <1>9, <2>1
  <2> QED BY <1>4, <2>1, <2>2
<1> QED BY <1>1, <1>4, <1>5, <1>6, <1>7, <1>8, <1>9, <1>10

\* The tag the writer gives a message is that of the bundle it is in.
LEMMA TagNowIs ==
  ASSUME IInv, Layout, msg.step # 0
  PROVE  TagNow \in Tags \cup {Immediate} /\ TagOf(TagNow, Current)
<1> USE DEF Layout
<1> DEFINE n == Len(open)
           c == Current
<1>1. /\ c \in Packets /\ c \in Nat /\ c < ptr /\ PacketEnd(c) = ptr
      /\ \A i \in Items : i < c
      /\ \A p \in Packets : p <= c
      /\ c # 0 => open # << >> /\ c - 1 = Top.ref /\ Top.ref \in Held
  BY CurrentIs
<1>2. /\ n \in Nat /\ DOMAIN open = 1 .. n
      /\ \A k \in 1 .. n : /\ open[k].kind \in {"bundle", "item"}
                           /\ open[k].tag \in Tags \cup {Immediate}
  BY WriterTypes
<1>3. \A k \in 1 .. n : open[k].ref \in Nat
  <2>1. \A k \in 1 .. n : open[k].ref \in 0 .. Size - 1 BY WriterTypes
  <2> QED BY <2>1
<1>4. open # << >> => n \in 1 .. n /\ Top = open[n] /\ Top.kind = "item"
  BY TopIs DEF WritingOK
<1>5. open = << >> => n = 0 OBVIOUS
<1>6. ptr \in Nat BY WriterTypes
<1>7. TagNow = IF n < 2 THEN Immediate ELSE open[n - 1].tag BY DEF TagNow
<1> HIDE DEF n, c
<1>8. TagNow \in Tags \cup {Immediate}
  <2>1. ~(n < 2) => n - 1 \in 1 .. n BY <1>2
  <2> QED BY <1>2, <1>7, <2>1
<1>9. c = 0 => TagNow = Immediate
  <2> SUFFICES ASSUME c = 0 PROVE TagNow = Immediate OBVIOUS
  <2>1. open = << >>
    <3> SUFFICES ASSUME open # << >> PROVE FALSE OBVIOUS
    <3>1. c = Top.ref + 1 BY DEF c, Current
    <3> QED BY <1>3, <1>4, <3>1
  <2> QED BY <1>5, <1>7, <2>1
<1>10. ASSUME NEW b \in Packets, InnerOf(b, c) PROVE TagNow = mem[b + 2].val
  <2>1. /\ mem[b].kind = "#bundle" /\ b < c /\ c < PacketEnd(b)
        /\ \A j \in Items : b <= j /\ j < c - 1 => ItemEnd(j) < c
    BY <1>10 DEF InnerOf
  <2>2. /\ b \in Nat /\ PacketEnd(b) \in Nat
        /\ b # 0 => b - 1 \in Items /\ PacketEnd(b) = ItemEnd(b - 1)
    BY PacketsAre
  <2>3. c # 0 /\ open # << >> /\ c - 1 = Top.ref /\ Top.ref \in Held BY <1>1, <2>1, <2>2
  <2>4. n \in 1 .. n /\ Top = open[n] /\ Top.kind = "item" BY <1>4, <2>3
  <2>5. n # 1 BY <1>2, <2>4 DEF FramesOK
  <2>6. PICK k \in 1 .. n : k + 1 = n /\ k < n /\ k = n - 1 /\ ~(n < 2)
    <3>1. n - 1 \in 1 .. n /\ n - 1 + 1 = n /\ n - 1 < n /\ ~(n < 2) BY <1>2, <2>4, <2>5
    <3> QED BY <3>1
  <2>7. open[k].kind = "bundle"
    <3>1. open[k].kind # "item" BY <1>2, <2>4, <2>6 DEF FramesOK
    <3> QED BY <1>2, <3>1
  <2>8. PICK a \in Nat : a = open[k].ref BY <1>3
  <2>9. a + 4 <= c - 1 /\ mem[a + 2].val = open[k].tag
    <3>1. k \in DOMAIN open /\ k + 1 \in DOMAIN open BY <1>2, <2>4, <2>6
    <3>2. open[k].ref + 4 <= open[k + 1].ref /\ mem[open[k].ref + 2].val = open[k].tag
      BY <2>7, <3>1 DEF FramesOK
    <3>3. open[k + 1].ref = c - 1 BY <2>3, <2>4, <2>6
    <3> QED BY <2>8, <3>2, <3>3
  <2>10. TagNow = mem[a + 2].val BY <1>7, <2>6, <2>9
  <2>11. ~(b < a)
    <3> SUFFICES ASSUME b < a PROVE FALSE OBVIOUS
    <3>1. k # 1 BY <1>2, <2>2, <2>6, <2>8 DEF FramesOK
    <3>2. PICK l \in 1 .. n : l + 1 = k
      <4>1. k - 1 \in 1 .. n /\ k - 1 + 1 = k BY <1>2, <2>6, <3>1
      <4> QED BY <4>1
    <3>3. open[l].kind = "item"
      <4>1. open[l].kind # "bundle" BY <1>2, <2>6, <2>7, <3>2 DEF FramesOK
      <4> QED BY <1>2, <4>1
    <3>4. open[k].ref = open[l].ref + 1 BY <1>2, <2>6, <3>2, <3>3 DEF FramesOK
    <3>5. PICK i \in Nat : i = open[l].ref BY <1>3
    <3>6. i \in Held BY <1>2, <3>3, <3>5 DEF Held
    <3>7. i \in Items /\ ItemEnd(i) = ptr BY <3>6, HeldAreItems DEF ItemEnd
    <3>8. b <= i /\ i < c - 1
      <4>1. a = i + 1 BY <2>8, <3>4, <3>5
      <4>2. c \in Nat /\ b \in Nat BY <1>1, <2>2
      <4> QED BY <2>9, <3>5, <4>1, <4>2
    <3>9. ItemEnd(i) < c BY <2>1, <3>7, <3>8
    <3> QED BY <1>1, <1>6, <3>7, <3>9
  <2>12. ~(a < b)
    <3> SUFFICES ASSUME a < b PROVE FALSE OBVIOUS
    <3>1. PICK i \in Nat : i = b - 1 /\ a <= i BY <2>2, <2>8
    <3>2. i \in Items /\ PacketEnd(b) = ItemEnd(i) /\ ItemEnd(i) \in Nat
      BY <2>2, <2>8, <3>1, ItemsAre
    <3>3. c - 1 \in Items /\ c - 1 \in Held BY <2>3, HeldAreItems
    <3>4. i < c - 1 BY <1>1, <2>1, <2>2, <3>1
    <3>5. ItemEnd(i) <= c - 1 \/ i \in Held BY <3>2, <3>3, <3>4 DEF Nested
    <3>6. i \in Held BY <1>1, <2>1, <3>2, <3>5
    <3>7. PICK l \in 1 .. n : open[l].kind = "item" /\ open[l].ref = i
      BY <3>6, HeldAreItems DEF n
    <3>8. l # k BY <2>7, <3>7
    <3>9. l # n BY <1>1, <2>3, <2>4, <3>4, <3>7
    <3>10. l < k BY <1>2, <2>6, <3>8, <3>9
    <3>11. open[l].ref < open[k].ref BY <1>2, <3>10 DEF FramesOK
    <3> QED BY <2>8, <3>1, <3>7, <3>11
  <2>13. a = b BY <2>2, <2>8, <2>11, <2>12
  <2> QED BY <2>10, <2>13
<1>11. TagOf(TagNow, c) BY <1>9, <1>10 DEF TagOf
<1> QED BY <1>8, <1>11 DEF c

\* A message is whole, and told of.
LEMMA MessageWrittenLayout ==
  ASSUME IInv, Layout, MessageWritten PROVE Layout'
<1> USE DEF Layout
<1>0. /\ UNCHANGED << mem, ptr, open, phase >> /\ msg' = NoMsg /\ msg.step = Len(msg.args) + 2
      /\ told' = IF msg.path.rooted
                 THEN Append(told, [tag |-> TagNow, path |-> msg.path, args |-> Values(msg)])
                 ELSE told
      /\ phase = "write"
  BY DEF MessageWritten
<1>1. msg \in [path : Paths, args : Args, step : Nat] BY DEF IInv, TypeOK
<1>2. msg \in Message BY <1>0, <1>1 DEF Message
<1>3. msg.step # 0
  <2>1. Len(msg.args) \in Nat BY <1>1, PathsAndArgs
  <2> QED BY <1>0, <2>1
<1>4. PICK c \in Nat : c = Current BY <1>3, CurrentIs
<1>5. /\ c \in Packets /\ c < ptr /\ PacketEnd(c) = ptr
      /\ \A i \in Items : i < c
      /\ \A p \in Packets : p <= c
      /\ mem[c] = Word("string", [text |-> msg.path, words |-> msg.path.words])
      /\ LaidOut(msg, c, ptr)
  BY <1>3, <1>4, CurrentIs
<1>6. /\ Items' = Items /\ Packets' = Packets
      /\ \A p : PacketEnd(p)' = PacketEnd(p)
      /\ \A t, p : TagOf(t, p)' <=> TagOf(t, p)
      /\ \A m, p, e : LaidOut(m, p, e)' <=> LaidOut(m, p, e)
      /\ \A p : BundleAt(p)' <=> BundleAt(p)
      /\ FramesOK' /\ Nested' /\ Joined'
  BY <1>0, WrittenStays
<1>7. msg'.step = 0 BY <1>0 DEF NoMsg
<1>8. \A p : ~Unfinished(p)' BY <1>7 DEF Unfinished
<1>9. \A p : Unfinished(p) <=> p = c BY <1>3, <1>4 DEF Unfinished
<1>10. mem[c].kind = "string" /\ mem[c].val.text = msg.path BY <1>5 DEF Word
<1>11. c \notin Rooted /\ Rooted' = IF msg.path.rooted THEN Rooted \cup {c} ELSE Rooted
  BY <1>0, <1>5, <1>6, <1>8, <1>9, <1>10 DEF Rooted
<1>12. ASSUME NEW p \in Packets PROVE Before(p)' = Before(p)
  <2>1. p \in Nat /\ p <= c BY <1>5, PacketsAre
  <2>2. ~(c < p) BY <1>4, <2>1
  <2>3. { q \in Rooted' : q < p } = { q \in Rooted : q < p } BY <1>11, <2>2
  <2> QED BY <2>3 DEF Before
<1>13. /\ IsFiniteSet(Rooted) /\ Len(told) = Cardinality(Rooted) /\ Len(told) \in Nat
       /\ \A q \in Rooted : q \in Packets /\ q \in Nat /\ Before(q) \in Nat
       /\ \A q \in Rooted : Before(q) + 1 <= Len(told)
  BY RootedAre
<1>14. Before(c) = Len(told)
  <2>1. \A q \in Rooted : q < c
    <3>1. \A q \in Rooted : q \in Nat /\ q <= c /\ q # c BY <1>5, <1>11, <1>13
    <3> QED BY <1>4, <3>1
  <2>2. { q \in Rooted : q < c } = Rooted BY <2>1
  <2> QED BY <1>13, <2>2 DEF Before
<1>15. /\ \A k \in 1 .. Len(told) : told'[k] = told[k]
       /\ msg.path.rooted =>
            /\ told'[Len(told) + 1] = [tag |-> TagNow, path |-> msg.path, args |-> Values(msg)]
            /\ Len(told') = Len(told) + 1
       /\ told' \in Seq({ told'[i] : i \in DOMAIN told' })
  <2> DEFINE S == { told[i] : i \in DOMAIN told }
             x == [tag |-> TagNow, path |-> msg.path, args |-> Values(msg)]
  <2>1. told \in Seq(S) BY DEF ToldOK
  <2>2. told' = IF msg.path.rooted THEN Append(told, x) ELSE told BY <1>0
  <2> HIDE DEF S, x
  <2>3. /\ Append(told, x) \in Seq(S \cup {x})
        /\ Len(Append(told, x)) = Len(told) + 1
        /\ \A i \in 1 .. Len(told) : Append(told, x)[i] = told[i]
        /\ Append(told, x)[Len(told) + 1] = x
    BY <2>1, Appended
  <2>4. \E T : told' \in Seq(T) BY <2>1, <2>2, <2>3
  <2>5. told' \in Seq({ told'[i] : i \in DOMAIN told' })
    <3>1. PICK s : s = told' OBVIOUS
    <3>2. PICK T : s \in Seq(T) BY <2>4, <3>1
    <3>3. s \in Seq({ s[i] : i \in DOMAIN s }) BY <3>2, SequenceOfItsElements
    <3> QED BY <3>1, <3>3
  <2> QED BY <2>2, <2>3, <2>5 DEF x
<1>16. ToldOK'
  <2>1. Cardinality(Rooted \cup {c}) = Cardinality(Rooted) + 1 BY <1>11, <1>13, FS_AddElement
  <2>2. Len(told') = Cardinality(Rooted')
    <3>1. CASE msg.path.rooted BY <1>11, <1>13, <1>15, <2>1, <3>1
    <3>2. CASE ~msg.path.rooted BY <1>0, <1>11, <1>13, <3>2
    <3> QED BY <3>1, <3>2
  <2> QED BY <1>15, <2>2 DEF ToldOK
<1>17. ASSUME NEW p \in Packets PROVE BundleAt(p)' \/ MessageAt(p)'
  <2>0. PICK e \in Nat : e = PacketEnd(p) BY PacketsAre
  <2>00. PacketEnd(p)' = e BY <1>6, <2>0
  <2>1. CASE p = c
    <3>1. PICK m \in Message : m = msg BY <1>2
    <3>2. LaidOut(m, p, e)' BY <1>5, <1>6, <2>0, <2>1, <3>1
    <3>3. ASSUME m.path.rooted PROVE Told(m, p)'
      <4>1. PICK t \in Tags \cup {Immediate} : t = TagNow /\ TagOf(t, p)
        BY <1>3, <1>4, <2>1, TagNowIs
      <4>2. TagOf(t, p)' BY <1>6, <4>1
      <4>3. Before(p)' = Len(told) BY <1>12, <1>14, <2>1
      <4>4. told'[Len(told) + 1] = [tag |-> t, path |-> m.path, args |-> Values(m)]
        BY <1>15, <3>1, <3>3, <4>1
      <4> QED BY <4>2, <4>3, <4>4 DEF Told
    <3> QED BY <2>00, <3>2, <3>3 DEF MessageAt
  <2>2. CASE p # c /\ BundleAt(p) BY <1>6, <2>2
  <2>3. CASE p # c /\ MessageAt(p)
    <3>1. PICK m \in Message : LaidOut(m, p, e) /\ (m.path.rooted => Told(m, p))
      BY <2>0, <2>3 DEF MessageAt
    <3>2. LaidOut(m, p, e)' BY <1>6, <3>1
    <3>3. ASSUME m.path.rooted PROVE Told(m, p)'
      <4>1. mem[p].kind = "string" /\ mem[p].val.text = m.path BY <3>1 DEF LaidOut, Word
      <4>2. p \in Rooted BY <1>9, <2>3, <3>3, <4>1 DEF Rooted
      <4>3. Before(p) + 1 \in 1 .. Len(told) BY <1>13, <4>2
      <4>4. told'[Before(p) + 1] = told[Before(p) + 1] BY <1>15, <4>3
      <4>5. Before(p)' = Before(p) BY <1>12
      <4>6. PICK t \in Tags \cup {Immediate} :
              /\ TagOf(t, p)
              /\ told[Before(p) + 1] = [tag |-> t, path |-> m.path, args |-> Values(m)]
        BY <3>1, <3>3 DEF Told
      <4>7. TagOf(t, p)' BY <1>6, <4>6
      <4> QED BY <4>4, <4>5, <4>6, <4>7 DEF Told
    <3> QED BY <2>00, <3>2, <3>3 DEF MessageAt
  <2> QED BY <1>9, <2>1, <2>2, <2>3 DEF PacketsOK
<1>18. PacketsOK' BY <1>6, <1>17 DEF PacketsOK
<1>19. WritingOK' BY <1>0, <1>7 DEF WritingOK
<1> QED BY <1>6, <1>16, <1>18, <1>19

\* What is written stays while it is read.
LEMMA ReadingLayout ==
  ASSUME IInv, Layout, UNCHANGED << mem, ptr, open, msg, told >>,
         phase' \in {"read", "done", "fault"} =>
           open = << >> /\ msg.step = 0 /\ 0 < len' /\ len' <= ptr
  PROVE  Layout' /\ Rooted' = Rooted /\ \A p : Before(p)' = Before(p)
<1>1. /\ Current' = Current
      /\ \A m, p, e : LaidOut(m, p, e)' <=> LaidOut(m, p, e)
  BY WrittenStays
<1>2. msg.step # 0 => LaidOut(msg, Current, ptr)'
  <2> SUFFICES ASSUME msg.step # 0 PROVE LaidOut(msg, Current, ptr)' OBVIOUS
  <2>1. PICK m : m = msg OBVIOUS
  <2>2. PICK c : c = Current OBVIOUS
  <2>3. PICK e : e = ptr OBVIOUS
  <2>4. LaidOut(m, c, e) BY <2>1, <2>2, <2>3 DEF Layout, WritingOK
  <2>5. LaidOut(m, c, e)' BY <1>1, <2>4
  <2>6. msg' = m /\ Current' = c /\ ptr' = e BY <1>1, <2>1, <2>2, <2>3
  <2> QED BY <2>5, <2>6
<1>3. WritingOK'
  <2>1. Top' = Top BY DEF Top
  <2> QED BY <1>1, <1>2, <2>1 DEF Layout, WritingOK
<1> QED BY <1>3, LayoutStays

\* Every step of the writer.
LEMMA WriterLayout ==
  ASSUME IInv, Layout, Writer PROVE Layout'
<1>1. CASE \E m \in Messages : AddPath(m) BY <1>1, AddPathLayout
<1>2. CASE AddPiece BY <1>2, AddPieceLayout
<1>3. CASE MessageWritten BY <1>3, MessageWrittenLayout
<1>4. CASE \E t \in Tags : PushBundle(t) BY <1>4, PushBundleLayout
<1>5. CASE PushItem BY <1>5, PushItemLayout
<1>6. CASE PopItem BY <1>6, PopItemLayout
<1>7. CASE PopBundle BY <1>7, PopBundleLayout
<1>8. CASE GiveUp
  <2>1. UNCHANGED << mem, ptr, open, msg, told >> /\ phase' = "failed"
    BY <1>8 DEF GiveUp, writer
  <2> QED BY <2>1, ReadingLayout
<1> QED BY <1>1, <1>2, <1>3, <1>4, <1>5, <1>6, <1>7, <1>8 DEF Writer

\* The reader changes nothing in the packet.
LEMMA ReaderLayout ==
  ASSUME IInv, Layout, Reader
  PROVE  /\ Layout' /\ Rooted' = Rooted /\ \A p : Before(p)' = Before(p)
         /\ UNCHANGED << mem, ptr, open, msg, told, len >>
<1>1. phase = "read" /\ UNCHANGED << mem, ptr, open, msg, told, len >>
  BY DEF Reader, OpenBundle, Ignore, OpenMessage, ReadArg, MessageRead, NextItem, Handled,
         Reading, writer, reader
<1>2. open = << >> /\ msg.step = 0 /\ 0 < len /\ len <= ptr BY <1>1 DEF Layout, WritingOK
<1> QED BY <1>1, <1>2, ReadingLayout

\* Nor does it change on its way, but for its length.
LEMMA ArriveLayout ==
  ASSUME IInv, Layout, NEW n \in 1 .. Size, Arrive(n)
  PROVE  /\ Layout' /\ Rooted' = Rooted /\ \A p : Before(p)' = Before(p)
<1>1. /\ UNCHANGED << mem, ptr, open, msg, told >> /\ len' = n
      /\ msg.step = 0 /\ open = << >>
      /\ n = ptr \/ (MinRoom <= n /\ n < ptr)
  BY DEF Arrive, writer
<1>2. 0 < n /\ n <= ptr
  <2>1. ptr \in Nat BY WriterTypes
  <2> QED BY <1>1, <2>1
<1> QED BY <1>1, <1>2, ReadingLayout

\* Nothing is written.
LEMMA InitLayout == Init => Layout
<1> SUFFICES ASSUME Init PROVE Layout OBVIOUS
<1>1. open = << >> /\ ptr = 0 /\ told = << >> /\ msg.step = 0 /\ phase = "write"
  BY DEF Init, NoMsg
<1>2. Held = {} BY <1>1, HeldEmpty
<1>3. Items = {} BY <1>1 DEF Items
<1>4. Packets = {} BY <1>1 DEF Packets
<1>5. Rooted = {} BY <1>4 DEF Rooted
<1>6. FramesOK BY <1>1 DEF FramesOK
<1>7. Nested /\ Joined BY <1>3 DEF Nested, Joined
<1>8. PacketsOK BY <1>4 DEF PacketsOK
<1>9. ToldOK
  <2>1. Cardinality({}) = 0 BY FS_EmptySet
  <2>2. << >> \in Seq({ told[i] : i \in DOMAIN told }) /\ Len(<< >>) = 0 OBVIOUS
  <2> QED BY <1>1, <1>5, <2>1, <2>2 DEF ToldOK
<1>10. WritingOK BY <1>1 DEF WritingOK
<1> QED BY <1>6, <1>7, <1>8, <1>9, <1>10 DEF Layout

-----------------------------------------------------------------------------
(***************************************************************************)
(* The reader is where something has been written.                         *)
(***************************************************************************)

\* A packet that is read is one that has been written.
LEMMA ReadingIs ==
  ASSUME IInv, Layout, phase \in {"read", "done", "fault"}
  PROVE  /\ Held = {} /\ \A p : ~Unfinished(p)
         /\ 0 \in Packets /\ PacketEnd(0) = ptr
         /\ len \in Nat /\ 0 < len /\ len <= ptr /\ ptr \in Nat
         /\ Before(ptr) = Len(told)
<1> USE DEF Layout
<1>1. open = << >> /\ msg.step = 0 /\ 0 < len /\ len <= ptr BY DEF WritingOK
<1>2. Held = {} BY <1>1, HeldEmpty
<1>3. \A p : ~Unfinished(p) BY <1>1 DEF Unfinished
<1>4. ptr \in Nat BY WriterTypes
<1>5. len \in Nat
  <2>1. len \in 0 .. Size - 1 BY DEF IInv, TypeOK
  <2> QED BY <2>1
<1>6. 0 \in Packets
  <2>1. 0 \in 0 .. ptr - 1 BY <1>1, <1>4, <1>5
  <2> QED BY <2>1 DEF Packets
<1>7. PacketEnd(0) = ptr BY DEF PacketEnd
<1>8. Before(ptr) = Len(told)
  <2>1. \A q \in Rooted : q < ptr BY RootedAre
  <2>2. { q \in Rooted : q < ptr } = Rooted BY <2>1
  <2> QED BY <2>2, RootedAre DEF Before
<1> QED BY <1>1, <1>2, <1>3, <1>4, <1>5, <1>6, <1>7, <1>8

\* Nothing is between a packet and its end but what it begins with.
LEMMA NothingBetween ==
  ASSUME IInv, Layout, phase = "read", NEW p \in Packets, NEW q \in Nat, p < q,
         NoItem(p, q - 1)
  PROVE  Before(q) = IF p \in Rooted THEN Before(p) + 1 ELSE Before(p)
<1> USE DEF Layout
<1>1. p \in Nat BY PacketsAre
<1>2. ASSUME NEW x \in Rooted PROVE x <= p \/ q <= x
  <2> SUFFICES ASSUME ~(x <= p) PROVE q <= x OBVIOUS
  <2>1. x \in Nat /\ x \in Packets BY RootedAre
  <2>2. p < x /\ x # 0 BY <1>1, <2>1
  <2>3. x - 1 \in Items BY <2>1, <2>2, PacketsAre
  <2>4. x - 1 < p \/ q - 1 <= x - 1 BY <2>3 DEF NoItem
  <2> QED BY <1>1, <2>1, <2>2, <2>4
<1> QED BY <1>1, <1>2, NextBefore

\* The place of the reader: a packet, and as much of it as has arrived.
LEMMA PlaceIs ==
  ASSUME IInv, Layout, phase = "read", StackOK
  PROVE  /\ At \in Packets /\ At \in Nat /\ AtEnd \in Nat /\ PacketEnd(At) \in Nat
         /\ At < AtEnd /\ AtEnd <= PacketEnd(At) /\ AtEnd <= len /\ PacketEnd(At) <= ptr
         /\ stack = << >> => At = 0 /\ AtEnd = len /\ PacketEnd(At) = ptr
         /\ stack # << >> => AtEnd = PacketEnd(At)
         /\ AtEnd # PacketEnd(At) => stack = << >> /\ At = 0 /\ len < ptr
<1> USE DEF Layout
<1>1. /\ Held = {} /\ 0 \in Packets /\ PacketEnd(0) = ptr
      /\ len \in Nat /\ 0 < len /\ len <= ptr /\ ptr \in Nat
  BY ReadingIs
<1>2. CASE stack = << >>
  <2>1. At = 0 /\ AtEnd = len BY <1>2 DEF At, AtEnd
  <2> QED BY <1>1, <1>2, <2>1
<1>3. CASE stack # << >>
  <2> DEFINE n == Len(stack)
  <2>1. n \in Nat /\ n \in 1 .. n /\ DOMAIN stack = 1 .. n /\ n # 0
    <3>1. stack \in Seq({ stack[i] : i \in DOMAIN stack }) BY DEF IInv, TypeOK
    <3>2. PICK S : stack \in Seq(S) BY <3>1
    <3> QED BY <1>3, <3>2
  <2>2. stack[n].ptr \in Nat /\ stack[n].size \in Nat /\ stack[n].end \in Nat
    BY <2>1 DEF IInv, TypeOK
  <2>3. stack[n].ptr + stack[n].size <= stack[n].end /\ stack[n].end <= len
    BY <2>1 DEF IInv, ReadersNest
  <2>4. /\ stack[n].ptr - 1 \in Items /\ stack[n].size = mem[stack[n].ptr - 1].val
    BY <2>1 DEF StackOK, ReadsItem
  <2>5. At = stack[n].ptr /\ AtEnd = At + stack[n].size BY <1>3 DEF At, AtEnd
  <2> HIDE DEF n
  <2>6. PICK i \in Nat : i = At - 1
    <3>1. At - 1 \in Nat BY <2>4, <2>5, ItemsAre
    <3> QED BY <3>1
  <2>7. i \in Items /\ At = i + 1 /\ At \in Nat BY <2>2, <2>4, <2>5, <2>6
  <2>8. ItemEnd(i) = i + 1 + mem[i].val /\ i + 1 < ItemEnd(i) /\ ItemEnd(i) \in Nat
        /\ ItemEnd(i) <= ptr
    BY <1>1, <2>7, ItemsAre
  <2>9. mem[i].val = stack[n].size BY <2>4, <2>5, <2>6
  <2>10. AtEnd = ItemEnd(i) BY <2>5, <2>7, <2>8, <2>9
  <2>11. At \in Packets
    <3>1. At \in 0 .. ptr - 1 BY <1>1, <2>7, <2>8
    <3> QED BY <2>6, <2>7, <3>1 DEF Packets
  <2>12. PacketEnd(At) = ItemEnd(i)
    <3>1. At # 0 /\ At - 1 = i BY <2>6, <2>7
    <3> QED BY <3>1 DEF PacketEnd
  <2>13. AtEnd <= len BY <1>1, <2>2, <2>3, <2>5
  <2> QED BY <1>3, <2>7, <2>8, <2>10, <2>11, <2>12, <2>13
<1> QED BY <1>2, <1>3

\* The tag the reader has for a packet is that of the bundle the packet is in.
LEMMA TagIs ==
  ASSUME IInv, Layout, phase = "read", StackOK, NEW t, TagOf(t, At)
  PROVE  t = AtTag
<1> USE DEF Layout
<1>1. CASE stack = << >> BY <1>1 DEF TagOf, At, AtTag
<1>2. CASE stack # << >>
  <2> DEFINE n == Len(stack)
             b == BundleOf(n)
  <2>1. n \in Nat /\ n \in 1 .. n /\ DOMAIN stack = 1 .. n /\ n # 0
    <3>1. stack \in Seq({ stack[i] : i \in DOMAIN stack }) BY DEF IInv, TypeOK
    <3>2. PICK S : stack \in Seq(S) BY <3>1
    <3> QED BY <1>2, <3>2
  <2>2. At = stack[n].ptr /\ AtEnd = At + stack[n].size /\ AtTag = stack[n].tag
    BY <1>2 DEF At, AtEnd, AtTag
  <2>3. stack[n].ptr + stack[n].size <= stack[n].end /\ stack[n].end \in Nat
    BY <2>1 DEF IInv, ReadersNest, TypeOK
  <2>4. /\ b \in Packets /\ mem[b].kind = "#bundle" /\ b + 4 <= stack[n].ptr - 1
        /\ stack[n].tag = mem[b + 2].val
        /\ stack[n].end = IF n = 1 THEN len ELSE PacketEnd(b)
        /\ \A j \in Items : b <= j /\ j < stack[n].ptr - 1 => ItemEnd(j) <= stack[n].ptr - 1
    BY <2>1 DEF StackOK, ReadsItem
  <2>5. n = 1 => b = 0 BY DEF BundleOf
  <2> HIDE DEF n, b
  <2>6. At \in Nat /\ AtEnd \in Nat /\ At < AtEnd BY PlaceIs
  <2>7. /\ b \in Nat /\ PacketEnd(b) \in Nat BY <2>4, PacketsAre
  <2>8. PacketEnd(0) = ptr /\ len \in Nat /\ len <= ptr /\ ptr \in Nat BY ReadingIs
  <2>9. stack[n].end <= PacketEnd(b) BY <2>4, <2>5, <2>7, <2>8
  <2>10. b < At BY <2>2, <2>4, <2>6, <2>7
  <2>11. At < PacketEnd(b) BY <2>2, <2>3, <2>6, <2>7, <2>9
  <2>12. ASSUME NEW j \in Items, b <= j, j < At - 1 PROVE ItemEnd(j) < At
    <3>1. ItemEnd(j) <= At - 1 BY <2>2, <2>4, <2>12
    <3>2. ItemEnd(j) \in Nat BY ItemsAre
    <3> QED BY <2>6, <3>1, <3>2
  <2>13. InnerOf(b, At) BY <2>4, <2>10, <2>11, <2>12 DEF InnerOf
  <2>14. t = mem[b + 2].val BY <2>4, <2>13 DEF TagOf
  <2> QED BY <2>2, <2>4, <2>14
<1> QED BY <1>1, <1>2

\* What has been written, as the reader finds it.
LEMMA Frozen ==
  ASSUME UNCHANGED << mem, ptr, open, msg, told >>, Rooted' = Rooted, \A p : Before(p)' = Before(p)
  PROVE  /\ Items' = Items /\ Packets' = Packets
         /\ \A p : PacketEnd(p)' = PacketEnd(p)
         /\ \A m, p, e : LaidOut(m, p, e)' <=> LaidOut(m, p, e)
         /\ \A m, p : Told(m, p)' <=> Told(m, p)
         /\ \A m, p, e, at : Placed(m, p, e, at)' <=> Placed(m, p, e, at)
         /\ \A m : Offsets(m)' = Offsets(m)
         /\ \A s, b, e : ReadsItem(s, b, e)' <=> ReadsItem(s, b, e)
<1>1. /\ Held' = Held /\ Items' = Items /\ Packets' = Packets
      /\ \A p : PacketEnd(p)' = PacketEnd(p)
      /\ \A t, p : TagOf(t, p)' <=> TagOf(t, p)
      /\ \A m, p, e : LaidOut(m, p, e)' <=> LaidOut(m, p, e)
  BY WrittenStays
<1>2. \A m, p : Told(m, p)' <=> Told(m, p) BY <1>1 DEF Told
<1>3. \A at, words : Holds(at, words)' <=> Holds(at, words) BY DEF Holds
<1>4. \A m, p, e, at : Placed(m, p, e, at)' <=> Placed(m, p, e, at) BY <1>3 DEF Placed
<1>5. \A m : Offsets(m)' = Offsets(m) BY DEF Offsets
<1>6. \A i : ItemEnd(i)' = ItemEnd(i) BY <1>1 DEF ItemEnd
<1>7. \A s, b, e : ReadsItem(s, b, e)' <=> ReadsItem(s, b, e) BY <1>1, <1>6 DEF ReadsItem
<1> QED BY <1>1, <1>2, <1>4, <1>5, <1>7

\* Beginnings of sequences.
LEMMA WholeSubSeq ==
  ASSUME NEW S, NEW s \in Seq(S) PROVE SubSeq(s, 1, Len(s)) = s
<1> DEFINE n == Len(s)
           u == SubSeq(s, 1, n)
<1>1. n \in Nat /\ \A i \in 1 .. n : s[i] \in S OBVIOUS
<1>2. /\ u \in Seq(S)
      /\ Len(u) = IF 1 <= n THEN n - 1 + 1 ELSE 0
      /\ \A i \in 1 .. n - 1 + 1 : u[i] = s[1 + i - 1]
  BY <1>1, SubSeqProperties
<1>3. n - 1 + 1 = n /\ \A i \in 1 .. n : 1 + i - 1 = i BY <1>1
<1>4. Len(u) = Len(s) /\ \A i \in 1 .. Len(s) : u[i] = s[i] BY <1>1, <1>2, <1>3
<1> HIDE DEF u
<1>5. u = s BY <1>2, <1>4, SeqEqual
<1> QED BY <1>5 DEF u

LEMMA Beginning ==
  ASSUME NEW S, NEW s \in Seq(S), NEW n \in 0 .. Len(s)
  PROVE  /\ SubSeq(s, 1, n) \in Seq(S) /\ Len(SubSeq(s, 1, n)) = n
         /\ \A i \in 1 .. n : SubSeq(s, 1, n)[i] = s[i]
<1>1. n \in Nat /\ \A i \in 1 .. n : s[i] \in S OBVIOUS
<1>2. /\ SubSeq(s, 1, n) \in Seq(S)
      /\ Len(SubSeq(s, 1, n)) = IF 1 <= n THEN n - 1 + 1 ELSE 0
      /\ \A i \in 1 .. n - 1 + 1 : SubSeq(s, 1, n)[i] = s[1 + i - 1]
  BY <1>1, SubSeqProperties
<1>3. n - 1 + 1 = n /\ \A i \in 1 .. n : 1 + i - 1 = i BY <1>1
<1> QED BY <1>1, <1>2, <1>3

LEMMA OneMore ==
  ASSUME NEW S, NEW s \in Seq(S), NEW n \in Nat, n + 1 <= Len(s)
  PROVE  Append(SubSeq(s, 1, n), s[n + 1]) = SubSeq(s, 1, n + 1)
<1> DEFINE a == SubSeq(s, 1, n)
           b == SubSeq(s, 1, n + 1)
           x == s[n + 1]
<1>1. n \in 0 .. Len(s) /\ n + 1 \in 0 .. Len(s) /\ n + 1 \in 1 .. Len(s) OBVIOUS
<1>2. a \in Seq(S) /\ Len(a) = n /\ \A i \in 1 .. n : a[i] = s[i] BY <1>1, Beginning
<1>3. b \in Seq(S) /\ Len(b) = n + 1 /\ \A i \in 1 .. n + 1 : b[i] = s[i] BY <1>1, Beginning
<1>4. x \in S BY <1>1
<1> HIDE DEF a, b
<1>5. Append(a, x) \in Seq(S) BY <1>2, <1>4
<1>6. /\ Len(Append(a, x)) = n + 1 /\ \A i \in 1 .. n : Append(a, x)[i] = a[i]
      /\ Append(a, x)[n + 1] = x
  BY <1>2, Appended
<1>7. \A i \in 1 .. n + 1 : i \in 1 .. n \/ i = n + 1 OBVIOUS
<1>8. \A i \in 1 .. n + 1 : Append(a, x)[i] = b[i] BY <1>2, <1>3, <1>6, <1>7
<1>9. Append(a, x) = b BY <1>3, <1>5, <1>6, <1>8, SeqEqual
<1> QED BY <1>9 DEF a, b

LEMMA NoneOfIt == ASSUME NEW s PROVE SubSeq(s, 1, 0) = << >>
OBVIOUS

LEMMA BeginningIsPrefix ==
  ASSUME NEW S, NEW s \in Seq(S), NEW n \in 0 .. Len(s)
  PROVE  IsPrefix(SubSeq(s, 1, n), s)
<1> DEFINE u == SubSeq(s, 1, n)
<1>1. u \in Seq(S) /\ Len(u) = n BY Beginning
<1>2. SubSeq(u, 1, Len(u)) = u
  <2> HIDE DEF u
  <2> QED BY <1>1, WholeSubSeq
<1>3. Len(u) <= Len(s) BY <1>1
<1> QED BY <1>1, <1>2, <1>3 DEF IsPrefix

\* A call returns that had a message, a bundle without items, or nothing to read.
LEMMA Returned ==
  ASSUME IInv, Layout, phase = "read", phase' = "read", StackOK,
         UNCHANGED << mem, ptr, open, msg, told, len, stack >>,
         Rooted' = Rooted, \A p : Before(p)' = Before(p),
         call' = NoCall, arg' = NoArg,
         NEW n \in 0 .. Len(told), heard' = SubSeq(told, 1, n),
         AtEnd = PacketEnd(At) => n = Before(AtEnd)
  PROVE  Reads'
<1>1. /\ \A s, b, e : ReadsItem(s, b, e)' <=> ReadsItem(s, b, e)
      /\ \A p : PacketEnd(p)' = PacketEnd(p)
  BY Frozen
<1>2. StackOK'
  <2>1. \A k : BundleOf(k)' = BundleOf(k) BY DEF BundleOf
  <2> QED BY <1>1, <2>1 DEF StackOK
<1>3. At' = At /\ AtEnd' = AtEnd BY DEF At, AtEnd
<1>4. CallOK' /\ ArgOK' BY DEF CallOK, ArgOK
<1>5. stack = << >> => HeardSome'
  <2> SUFFICES ASSUME stack = << >> PROVE HeardSome' OBVIOUS
  <2>1. len = ptr => heard' = told'
    <3> SUFFICES ASSUME len = ptr PROVE heard' = told' OBVIOUS
    <3>1. AtEnd = ptr /\ PacketEnd(At) = ptr BY PlaceIs
    <3>2. n = Len(told) BY <3>1, ReadingIs
    <3>3. told \in Seq({ told[i] : i \in DOMAIN told }) BY DEF Layout, ToldOK
    <3>4. PICK S : told \in Seq(S) BY <3>3
    <3> QED BY <3>2, <3>4, WholeSubSeq
  <2> QED BY <2>1 DEF HeardSome
<1>6. stack # << >> => HeardBefore(AtEnd)'
  <2> SUFFICES ASSUME stack # << >> PROVE HeardBefore(AtEnd)' OBVIOUS
  <2>1. n = Before(AtEnd) BY PlaceIs
  <2>2. PICK e : e = AtEnd OBVIOUS
  <2>3. AtEnd' = e BY <1>3, <2>2
  <2>4. Before(e)' = n BY <2>1, <2>2
  <2> QED BY <2>3, <2>4 DEF HeardBefore
<1>7. IdleOK' BY <1>5, <1>6 DEF IdleOK
<1> QED BY <1>2, <1>4, <1>7 DEF Reads

\* Behind a message that is read to its end.
LEMMA BehindMessage ==
  ASSUME IInv, Layout, phase = "read", NEW p \in Packets, mem[p].kind # "#bundle"
  PROVE  /\ mem[p].kind = "string" /\ MessageAt(p)
         /\ Before(PacketEnd(p)) = IF p \in Rooted THEN Before(p) + 1 ELSE Before(p)
<1> USE DEF Layout
<1>1. \A q : ~Unfinished(q) BY ReadingIs
<1>2. mem[p].kind = "string" /\ NoItem(p, PacketEnd(p)) /\ MessageAt(p)
  BY <1>1, PacketIsNoItem
<1>3. p \in Nat /\ PacketEnd(p) \in Nat /\ p < PacketEnd(p) BY PacketsAre
<1>4. PICK e \in Nat : e = PacketEnd(p) BY <1>3
<1>5. NoItem(p, e - 1)
  <2>1. \A i \in Items : i \in Nat BY ItemsAre
  <2> QED BY <1>2, <1>3, <1>4, <2>1 DEF NoItem
<1>6. Before(e) = IF p \in Rooted THEN Before(p) + 1 ELSE Before(p)
  BY <1>3, <1>4, <1>5, NothingBetween
<1> QED BY <1>2, <1>4, <1>6

\* Behind the head of a bundle, up to its first item or its end.
LEMMA BehindHead ==
  ASSUME IInv, Layout, phase = "read", NEW p \in Packets, mem[p].kind = "#bundle"
  PROVE  /\ BundleAt(p) /\ p + 4 <= PacketEnd(p)
         /\ Before(p + 4) = Before(p) /\ Before(p + 5) = Before(p)
<1> USE DEF Layout
<1>1. BundleAt(p) BY PacketIsNoItem
<1>2. NoItem(p, p + 4) /\ p + 4 <= PacketEnd(p) BY <1>1 DEF BundleAt
<1>3. p \in Nat BY PacketsAre
<1>4. p \notin Rooted
  <2>1. mem[p].kind # "string" OBVIOUS
  <2> QED BY <2>1 DEF Rooted
<1>5. NoItem(p, p + 4 - 1) /\ NoItem(p, p + 5 - 1)
  <2>1. \A i \in Items : i \in Nat BY ItemsAre
  <2> QED BY <1>2, <1>3, <2>1 DEF NoItem
<1>6. Before(p + 4) = Before(p)
  <2>1. PICK q \in Nat : q = p + 4 BY <1>3
  <2>2. Before(q) = Before(p) BY <1>3, <1>4, <1>5, <2>1, NothingBetween
  <2> QED BY <2>1, <2>2
<1>7. Before(p + 5) = Before(p)
  <2>1. PICK q \in Nat : q = p + 5 BY <1>3
  <2>2. Before(q) = Before(p) BY <1>3, <1>4, <1>5, <2>1, NothingBetween
  <2> QED BY <2>1, <2>2
<1> QED BY <1>1, <1>2, <1>6, <1>7

\* The call that is made is for the place of the reader.
LEMMA CallIs ==
  ASSUME IInv, Layout, Reads, Reading
  PROVE  /\ phase = "read" /\ StackOK
         /\ call = [tag |-> AtTag, at |-> At, len |-> AtEnd - At]
         /\ call.tag = AtTag /\ call.at = At /\ call.len = AtEnd - At
         /\ call.at + call.len = AtEnd
         /\ arg = NoArg
         /\ heard = SubSeq(told, 1, Before(At)) /\ Before(At) \in 0 .. Len(told)
<1>1. phase = "read" /\ call # NoCall BY DEF Reading
<1>2. StackOK /\ CallOK BY <1>1 DEF Reads
<1>3. /\ call = [tag |-> AtTag, at |-> At, len |-> AtEnd - At] /\ arg = NoArg
      /\ heard = SubSeq(told, 1, Before(At))
  BY <1>1, <1>2 DEF CallOK, HeardBefore
<1>4. At \in Nat /\ AtEnd \in Nat BY <1>1, <1>2, PlaceIs
<1>5. call.tag = AtTag /\ call.at = At /\ call.len = AtEnd - At BY <1>3
<1>6. call.at + call.len = AtEnd BY <1>4, <1>5
<1>7. Before(At) \in Nat /\ Before(At) <= Len(told) /\ Len(told) \in Nat BY <1>4, RootedAre
<1>8. Before(At) \in 0 .. Len(told) BY <1>7
<1> QED BY <1>1, <1>2, <1>3, <1>5, <1>6, <1>8

\* What is neither a bundle nor a message is told nothing of.
LEMMA IgnoreReads ==
  ASSUME IInv, Layout, Reads, Ignore PROVE Reads'
<1>1. /\ Reading /\ ~IsBundle /\ ~IsMessage /\ call' = NoCall
      /\ UNCHANGED << phase, stack, arg, heard >>
  BY DEF Ignore
<1>2. /\ Rooted' = Rooted /\ \A p : Before(p)' = Before(p)
      /\ UNCHANGED << mem, ptr, open, msg, told, len >>
  BY ReaderLayout DEF Reader
<1>3. /\ phase = "read" /\ StackOK /\ call.at = At /\ arg = NoArg
      /\ heard = SubSeq(told, 1, Before(At)) /\ Before(At) \in 0 .. Len(told)
  BY <1>1, CallIs
<1>4. At \in Packets /\ mem[At].kind # "#bundle" BY <1>1, <1>3, PlaceIs DEF IsBundle
<1>5. mem[At].kind = "string" BY <1>3, <1>4, BehindMessage
<1>6. At \notin Rooted
  <2>1. ~mem[At].val.text.rooted BY <1>1, <1>3, <1>5 DEF IsMessage, StringAt
  <2> QED BY <2>1 DEF Rooted
<1>7. Before(PacketEnd(At)) = Before(At) BY <1>3, <1>4, <1>6, BehindMessage
<1> QED BY <1>1, <1>2, <1>3, <1>7, Returned

\* A message that is read is the next one of those told of (reader.h, arg_is_end).
LEMMA MessageReadReads ==
  ASSUME IInv, Layout, Reads, MessageRead PROVE Reads'
<1> USE DEF Layout
<1>1. /\ phase = "read" /\ arg # NoArg /\ Len(arg.vals) = Len(arg.types)
      /\ heard' = Append(heard, [tag |-> arg.tag, path |-> arg.path, args |-> arg.vals])
      /\ arg' = NoArg /\ UNCHANGED << phase, call, stack >>
  BY DEF MessageRead
<1>2. /\ Rooted' = Rooted /\ \A p : Before(p)' = Before(p)
      /\ UNCHANGED << mem, ptr, open, msg, told, len >>
  BY ReaderLayout DEF Reader
<1>3. StackOK /\ ArgOK BY <1>1 DEF Reads
<1>4. /\ call = NoCall /\ heard = SubSeq(told, 1, Before(At))
      /\ At \in Rooted /\ arg.tag = AtTag
  BY <1>1, <1>3 DEF ArgOK, HeardBefore
<1>5. PICK m \in Message :
        /\ Told(m, At)
        /\ arg.path = m.path /\ arg.types = Types(m)
        /\ arg.vals = SubSeq(Values(m), 1, Len(arg.vals))
  BY <1>1, <1>3 DEF ArgOK
<1>6. Len(m.args) \in Nat
  <2>1. m \in [path : Paths, args : Args, step : Nat] BY DEF Message
  <2> QED BY <2>1, PathsAndArgs
<1>7. arg.vals = Values(m)
  <2>1. Len(arg.types) = Len(m.args) BY <1>5, <1>6 DEF Types
  <2>2. \E S : Values(m) \in Seq(S)
    <3> DEFINE S == { m.args[i].val : i \in 1 .. Len(m.args) }
    <3>1. \A i \in 1 .. Len(m.args) : m.args[i].val \in S OBVIOUS
    <3> HIDE DEF S
    <3>2. Values(m) \in Seq(S) BY <1>6, <3>1 DEF Values
    <3> QED BY <3>2
  <2>3. Len(Values(m)) = Len(m.args) BY <1>6 DEF Values
  <2> QED BY <1>1, <1>5, <2>1, <2>2, <2>3, WholeSubSeq
<1>8. PICK t \in Tags \cup {Immediate} :
        /\ TagOf(t, At)
        /\ told[Before(At) + 1] = [tag |-> t, path |-> m.path, args |-> Values(m)]
  BY <1>5 DEF Told
<1>9. t = AtTag BY <1>1, <1>3, <1>8, TagIs
<1>10. heard' = Append(SubSeq(told, 1, Before(At)), told[Before(At) + 1])
  BY <1>1, <1>4, <1>5, <1>7, <1>8, <1>9
<1>11. At \in Packets /\ At \in Nat BY <1>1, <1>3, PlaceIs
<1>12. PICK b \in Nat : b = Before(At) BY <1>11, RootedAre
<1>13. b + 1 <= Len(told) /\ Len(told) \in Nat BY <1>4, <1>12, RootedAre
<1>14. heard' = SubSeq(told, 1, b + 1)
  <2>1. told \in Seq({ told[i] : i \in DOMAIN told }) BY DEF ToldOK
  <2>2. PICK S : told \in Seq(S) BY <2>1
  <2> QED BY <1>10, <1>12, <1>13, <2>2, OneMore
<1>15. Before(PacketEnd(At)) = b + 1
  <2>1. mem[At].kind # "#bundle" BY <1>4 DEF Rooted
  <2> QED BY <1>1, <1>4, <1>11, <1>12, <2>1, BehindMessage
<1>16. b + 1 \in 0 .. Len(told) BY <1>12, <1>13
<1>17. phase' = "read" /\ call' = NoCall BY <1>1, <1>4
<1> QED BY <1>1, <1>2, <1>3, <1>14, <1>15, <1>16, <1>17, Returned

\* A word and the ones behind it.
LEMMA HeadAndRest ==
  ASSUME NEW w, NEW S, NEW rest \in Seq(S)
  PROVE  /\ Len(<< w >> \o rest) = 1 + Len(rest)
         /\ (<< w >> \o rest)[1] = w
         /\ \A i \in 1 .. Len(rest) : (<< w >> \o rest)[i + 1] = rest[i]
<1> DEFINE T == S \cup {w}
<1>1. << w >> \in Seq(T) /\ Len(<< w >>) = 1 /\ << w >>[1] = w OBVIOUS
<1>2. rest \in Seq(T) /\ Len(rest) \in Nat OBVIOUS
<1> HIDE DEF T
<1>3. /\ Len(<< w >> \o rest) = 1 + Len(rest)
      /\ \A i \in 1 .. 1 + Len(rest) : (<< w >> \o rest)[i] =
           IF i <= 1 THEN << w >>[i] ELSE rest[i - 1]
  BY <1>1, <1>2, ConcatProperties
<1>4. \A i \in 1 .. Len(rest) : i + 1 \in 1 .. 1 + Len(rest) /\ ~(i + 1 <= 1) /\ i + 1 - 1 = i
  BY <1>2
<1>5. 1 \in 1 .. 1 + Len(rest) BY <1>2
<1> QED BY <1>1, <1>3, <1>4, <1>5

\* A format takes its words.
LEMMA FormatIs ==
  ASSUME NEW types \in Seq(Type)
  PROVE  /\ Len(Format(types)) = FormatWords(Len(types))
         /\ FormatWords(Len(types)) \in Nat \ {0}
         /\ Format(types)[1] = Word("format", types)
<1> DEFINE n == FormatWords(Len(types))
           rest == More(n - 1)
           w == Word("format", types)
<1>1. n \in Nat \ {0} BY DEF FormatWords
<1> HIDE DEF n
<1>2. n - 1 \in Nat BY <1>1
<1>3. rest \in Seq({Word("more", 0)}) BY <1>2, MoreOfThem
<1>4. Len(rest) = n - 1 BY <1>2 DEF More
<1>5. Format(types) = << w >> \o rest BY DEF Format, n
<1> HIDE DEF rest, w
<1>6. Len(Format(types)) = 1 + Len(rest) /\ Format(types)[1] = w BY <1>3, <1>5, HeadAndRest
<1>7. Len(Format(types)) = n BY <1>1, <1>4, <1>6
<1> QED BY <1>1, <1>6, <1>7 DEF n, w

\* What an argument is read as is what has been written.
LEMMA ArgumentIs ==
  ASSUME NEW a, IsArg(a), NEW q \in Nat, Holds(q, Value(a)), arg.ptr = q
  PROVE  Width(a.type) = Len(Value(a)) /\ Found(a.type) = a.val
<1> DEFINE data == Word("data", a.val)
<1>1. q + 1 - 1 = q /\ q + 2 - 1 = q + 1 OBVIOUS
<1>2. ASSUME Len(Value(a)) \in Nat \ {0} PROVE mem[q] = Value(a)[1]
  <2>1. 1 \in 1 .. Len(Value(a)) BY <1>2
  <2> QED BY <1>1, <2>1 DEF Holds
<1>3. data.val = a.val BY DEF Word
<1> HIDE DEF data
<1>4. CASE a.type = "i"
  <2>1. Value(a) = << data >> BY <1>4 DEF Value, data
  <2>2. Len(Value(a)) = 1 /\ Value(a)[1] = data BY <2>1
  <2>3. Width(a.type) = 1 BY <1>4 DEF Width
  <2>4. Found(a.type) = mem[q].val BY <1>4 DEF Found
  <2> QED BY <1>2, <1>3, <2>2, <2>3, <2>4
<1>5. CASE a.type = "h"
  <2>1. Value(a) = << data >> \o More(1) BY <1>5 DEF Value, data
  <2>2. More(1) \in Seq({Word("more", 0)}) BY MoreOfThem
  <2>3. Len(More(1)) = 1 BY DEF More
  <2>4. Len(Value(a)) = 2 /\ Value(a)[1] = data BY <2>1, <2>2, <2>3, HeadAndRest
  <2>5. Width(a.type) = 2 BY <1>5 DEF Width
  <2>6. Found(a.type) = mem[q].val BY <1>5 DEF Found
  <2> QED BY <1>2, <1>3, <2>4, <2>5, <2>6
<1>6. CASE a.type = "s"
  <2>1. Value(a) = String(a.val, a.words) BY <1>6 DEF Value
  <2>2. a.words \in Nat \ {0} BY <1>6 DEF IsArg
  <2>3. /\ Len(Value(a)) = a.words
        /\ Value(a)[1] = Word("string", [text |-> a.val, words |-> a.words])
    BY <2>1, <2>2, StringIs
  <2>4. mem[q] = Word("string", [text |-> a.val, words |-> a.words]) BY <1>2, <2>2, <2>3
  <2>5. StringAt(q) = [text |-> a.val, words |-> a.words] BY <2>4 DEF StringAt, Word
  <2>6. Width(a.type) = StringAt(q).words BY <1>6 DEF Width
  <2>7. Found(a.type) = StringAt(q).text BY <1>6 DEF Found
  <2> QED BY <2>3, <2>5, <2>6, <2>7
<1>7. CASE a.type = "b"
  <2> DEFINE w == Word("len", a.words)
             body == [i \in 1 .. a.words |-> data]
  <2>1. Value(a) = << w >> \o body BY <1>7 DEF Value, data
  <2>2. a.words \in Nat BY DEF IsArg
  <2>3. body \in Seq({data}) /\ Len(body) = a.words /\ \A i \in 1 .. a.words : body[i] = data
    <3>1. body \in [1 .. a.words -> {data}] OBVIOUS
    <3> QED BY <2>2, <3>1
  <2>4. w.kind = "len" /\ w.val = a.words BY DEF Word
  <2> HIDE DEF w, body
  <2>5. /\ Len(Value(a)) = 1 + a.words /\ Value(a)[1] = w
        /\ \A i \in 1 .. a.words : Value(a)[i + 1] = data
    BY <2>1, <2>3, HeadAndRest
  <2>6. mem[q] = w BY <1>2, <2>2, <2>5
  <2>7. NumberAt(q) = a.words BY <2>4, <2>6 DEF NumberAt
  <2>8. Width(a.type) = 1 + a.words BY <1>7, <2>7 DEF Width
  <2>9. Found(a.type) = a.val
    <3>1. CASE a.words = 0
      <4>1. Found(a.type) = 0 BY <1>7, <2>7, <3>1 DEF Found
      <4> QED BY <1>7, <3>1, <4>1 DEF IsArg
    <3>2. CASE a.words # 0
      <4>1. 2 \in 1 .. Len(Value(a)) /\ 1 \in 1 .. a.words BY <2>2, <2>5, <3>2
      <4>2. mem[q + 2 - 1] = Value(a)[2] BY <4>1 DEF Holds
      <4>3. Value(a)[1 + 1] = data BY <2>5, <4>1
      <4>4. mem[q + 1] = data BY <1>1, <4>2, <4>3
      <4>5. Found(a.type) = mem[q + 1].val
        <5>1. a.type = "b" /\ NumberAt(arg.ptr) # 0 BY <1>7, <2>7, <3>2
        <5> QED BY <5>1 DEF Found
      <4> QED BY <1>3, <4>4, <4>5
    <3> QED BY <3>1, <3>2
  <2> QED BY <2>5, <2>8, <2>9
<1>8. CASE a.type = "T"
  <2>1. Value(a) = << >> BY <1>8 DEF Value
  <2>2. Width(a.type) = 0 /\ Found(a.type) = 0 BY <1>8 DEF Width, Found
  <2>3. a.val = 0 BY <1>8 DEF IsArg
  <2> QED BY <2>1, <2>2, <2>3
<1>9. a.type \in {"i", "h", "s", "b", "T"} BY DEF IsArg, Type
<1> QED BY <1>4, <1>5, <1>6, <1>7, <1>8, <1>9

\* Where the pieces of a message are.
LEMMA PieceIs ==
  ASSUME NEW m \in Message, NEW p \in Nat, NEW e \in Nat, NEW at \in Offsets(m),
         Placed(m, p, e, at), NEW j \in 1 .. Len(m.args) + 1
  PROVE  /\ j \in 1 .. m.step /\ j + 1 \in 1 .. m.step
         /\ at[j] \in Nat /\ at[j + 1] \in Nat
         /\ p < at[j] /\ p < at[j + 1] /\ at[j] <= e /\ at[j + 1] <= e
         /\ at[j + 1] = at[j] + Len(PieceOf(m, j)) /\ Len(PieceOf(m, j)) \in Nat
         /\ Holds(at[j], PieceOf(m, j))
<1>1. m \in [path : Paths, args : Args, step : Nat] /\ m.step = Len(m.args) + 2 BY DEF Message
<1>2. Len(m.args) \in Nat BY <1>1, PathsAndArgs
<1>3. j \in 1 .. m.step /\ j + 1 \in 1 .. m.step /\ j \in 1 .. m.step - 1 BY <1>1, <1>2
<1>4. at[j] \in Nat /\ at[j + 1] \in Nat BY <1>3 DEF Offsets
<1>5. Len(PieceOf(m, j)) \in Nat BY <1>1, PieceOfIsWords DEF Words
<1> QED BY <1>3, <1>4, <1>5 DEF Placed

\* The reader only runs into the end of a packet that was cut, of one message.
LEMMA FaultReads ==
  ASSUME IInv, Layout, phase = "read", StackOK, At \in Packets, mem[At].kind # "#bundle",
         AtEnd # PacketEnd(At), heard = SubSeq(told, 1, Before(At)),
         UNCHANGED << mem, ptr, open, msg, told, len, heard >>, phase' = "fault"
  PROVE  Reads'
<1>1. At = 0 /\ len < ptr /\ At \in Nat BY PlaceIs
<1>2. mem[0].kind = "string" BY <1>1, BehindMessage
<1>3. Before(At) \in Nat /\ Before(At) <= Len(told) /\ Len(told) \in Nat BY <1>1, RootedAre
<1>4. PICK n \in 0 .. Len(told) : n = Before(At) BY <1>3
<1>5. heard' = SubSeq(told', 1, n) BY <1>4
<1> QED BY <1>1, <1>2, <1>5 DEF Reads

\* A message that is read on.
LEMMA ReadingOn ==
  ASSUME Layout, phase = "read", phase' = "read", StackOK,
         UNCHANGED << mem, ptr, open, msg, told, len, stack, heard >>,
         Rooted' = Rooted, \A p : Before(p)' = Before(p),
         call' = NoCall, arg' # NoArg,
         heard = SubSeq(told, 1, Before(At)), At \in Rooted,
         arg'.tag = AtTag, arg'.end = AtEnd,
         NEW m \in Message, LaidOut(m, At, PacketEnd(At)), Told(m, At),
         arg'.path = m.path, arg'.types = Types(m),
         Len(arg'.vals) <= Len(m.args),
         arg'.vals = SubSeq(Values(m), 1, Len(arg'.vals)),
         NEW at \in Offsets(m), Placed(m, At, PacketEnd(At), at),
         arg'.ptr = at[Len(arg'.vals) + 2]
  PROVE  Reads'
<1>1. /\ \A s, b, e : ReadsItem(s, b, e)' <=> ReadsItem(s, b, e)
      /\ \A p : PacketEnd(p)' = PacketEnd(p)
      /\ \A x, p, e : LaidOut(x, p, e)' <=> LaidOut(x, p, e)
      /\ \A x, p : Told(x, p)' <=> Told(x, p)
      /\ \A x, p, e, f : Placed(x, p, e, f)' <=> Placed(x, p, e, f)
      /\ \A x : Offsets(x)' = Offsets(x)
  BY Frozen
<1>2. StackOK'
  <2>1. \A k : BundleOf(k)' = BundleOf(k) BY DEF BundleOf
  <2> QED BY <1>1, <2>1 DEF StackOK
<1>3. PICK p : p = At OBVIOUS
<1>4. At' = p /\ AtEnd' = AtEnd /\ AtTag' = AtTag BY <1>3 DEF At, AtEnd, AtTag
<1>5. PICK e : e = PacketEnd(p) OBVIOUS
<1>6. PacketEnd(p)' = e BY <1>1, <1>5
<1>7. LaidOut(m, p, e)' /\ Told(m, p)' /\ Placed(m, p, e, at)' BY <1>1, <1>3, <1>5
<1>8. HeardBefore(p)' BY <1>3 DEF HeardBefore
<1>9. ArgOK'
  <2>1. p \in Rooted' BY <1>3
  <2>2. \E f \in Offsets(m)' : Placed(m, p, e, f)' /\ arg'.ptr = f[Len(arg'.vals) + 2]
    BY <1>1, <1>7
  <2>3. /\ LaidOut(m, p, e)' /\ Told(m, p)'
        /\ arg'.path = m.path /\ arg'.types = Types(m)
        /\ Len(arg'.vals) <= Len(m.args)
        /\ arg'.vals = SubSeq(Values(m), 1, Len(arg'.vals))
    BY <1>7
  <2> QED BY <1>4, <1>6, <1>8, <2>1, <2>2, <2>3 DEF ArgOK
<1>10. CallOK' /\ IdleOK' BY DEF CallOK, IdleOK
<1> QED BY <1>2, <1>9, <1>10 DEF Reads

\* A message is opened, or runs into the cut (reader.h, arg_begin).
LEMMA OpenMessageReads ==
  ASSUME IInv, Layout, Reads, OpenMessage PROVE Reads'
<1> USE DEF Layout
<1>1. /\ Reading /\ IsMessage /\ call' = NoCall /\ UNCHANGED << stack, heard >>
      /\ LET end == call.at + call.len
             path == StringAt(call.at)
             fmt == call.at + path.words
         IN  IF \/ Over(call.at, path.words, end)
                \/ Over(fmt, 1, end) \/ mem[fmt].kind # "format"
                \/ Over(fmt, FormatWords(Len(mem[fmt].val)), end)
             THEN phase' = "fault" /\ UNCHANGED arg
             ELSE /\ arg' = [tag |-> call.tag, path |-> path.text,
                             types |-> mem[fmt].val, vals |-> << >>,
                             ptr |-> fmt + FormatWords(Len(mem[fmt].val)), end |-> end]
                  /\ UNCHANGED phase
  BY DEF OpenMessage
<1>2. /\ Rooted' = Rooted /\ \A p : Before(p)' = Before(p)
      /\ UNCHANGED << mem, ptr, open, msg, told, len >>
  BY ReaderLayout DEF Reader
<1>3. /\ phase = "read" /\ StackOK /\ call.at = At /\ call.tag = AtTag /\ arg = NoArg
      /\ call.at + call.len = AtEnd
      /\ heard = SubSeq(told, 1, Before(At)) /\ Before(At) \in 0 .. Len(told)
  BY <1>1, CallIs
<1>4. /\ At \in Packets /\ At \in Nat /\ AtEnd \in Nat /\ PacketEnd(At) \in Nat
      /\ At < PacketEnd(At) /\ AtEnd <= PacketEnd(At)
  <2>1. At \in Packets BY <1>3, PlaceIs
  <2> QED BY <1>3, <2>1, PlaceIs, PacketsAre
<1>5. mem[At].kind = "string" /\ mem[At].kind # "#bundle" /\ mem[At].val.text.rooted
  BY <1>1, <1>3 DEF IsMessage, StringAt
<1>6. At \in Rooted
  <2>1. ~Unfinished(At) BY <1>3, ReadingIs
  <2> QED BY <1>4, <1>5, <2>1 DEF Rooted
<1>7. PICK e \in Nat : e = PacketEnd(At) BY <1>4
<1>8. PICK m \in Message : LaidOut(m, At, e) /\ (m.path.rooted => Told(m, At))
  <2>1. MessageAt(At) BY <1>3, <1>4, <1>5, BehindMessage
  <2> QED BY <1>7, <2>1 DEF MessageAt
<1>9. PICK at \in Offsets(m) : Placed(m, At, e, at) BY <1>8 DEF LaidOut
<1>10. mem[At].val = [text |-> m.path, words |-> m.path.words] BY <1>8 DEF LaidOut, Word
<1>11. Told(m, At) BY <1>5, <1>8, <1>10
<1>12. /\ m \in [path : Paths, args : Args, step : Nat] /\ Len(m.args) \in Nat
       /\ m.path.words \in Nat \ {0}
       /\ \A i \in 1 .. Len(m.args) : IsArg(m.args[i])
  <2>1. m \in [path : Paths, args : Args, step : Nat] BY DEF Message
  <2> QED BY <2>1, PathsAndArgs DEF IsPath
<1>13. Types(m) \in Seq(Type) /\ Len(Types(m)) = Len(m.args)
  <2>1. \A i \in 1 .. Len(m.args) : m.args[i].type \in Type BY <1>12 DEF IsArg
  <2>2. Types(m) \in [1 .. Len(m.args) -> Type] BY <2>1 DEF Types
  <2> QED BY <1>12, <2>2 DEF Types
<1>14. PICK w \in Nat \ {0} : w = FormatWords(Len(Types(m))) BY <1>13, FormatIs
<1>15. Len(Format(Types(m))) = w /\ Format(Types(m))[1] = Word("format", Types(m))
  BY <1>13, <1>14, FormatIs
<1>16. PICK f \in Nat : f = at[1]
  <2>1. 1 \in 1 .. Len(m.args) + 1 BY <1>12
  <2> QED BY <1>4, <1>9, <2>1, PieceIs
<1>17. /\ At < at[2] /\ at[2] <= e /\ at[2] \in Nat
       /\ at[2] = f + w
       /\ f = At + m.path.words
       /\ mem[f] = Word("format", Types(m))
  <2>1. PICK j \in 1 .. Len(m.args) + 1 : j = 1
    <3>1. 1 \in 1 .. Len(m.args) + 1 BY <1>12
    <3> QED BY <3>1
  <2>2. PieceOf(m, j) = Format(Types(m)) BY <2>1 DEF PieceOf
  <2>3. /\ At < at[j + 1] /\ at[j + 1] <= e /\ at[j + 1] \in Nat
        /\ at[j + 1] = at[j] + Len(PieceOf(m, j))
        /\ Holds(at[j], PieceOf(m, j))
    BY <1>4, <1>7, <1>8, <1>9, <2>1, PieceIs
  <2>4. 1 \in 1 .. w BY <1>14
  <2>5. Holds(f, Format(Types(m))) BY <1>16, <2>1, <2>2, <2>3
  <2>6. mem[f + 1 - 1] = Format(Types(m))[1] BY <1>15, <2>4, <2>5 DEF Holds
  <2>7. f + 1 - 1 = f BY <1>16
  <2>8. at[1] = At + m.path.words BY <1>9 DEF Placed
  <2>9. j + 1 = 2 BY <2>1
  <2> QED BY <1>15, <1>16, <2>1, <2>2, <2>3, <2>6, <2>7, <2>8, <2>9
<1>18. /\ StringAt(At) = [text |-> m.path, words |-> m.path.words]
       /\ mem[f].kind = "format" /\ mem[f].val = Types(m)
  BY <1>5, <1>10, <1>17 DEF StringAt, Word
<1>19. IF Over(At, m.path.words, AtEnd) \/ Over(f, 1, AtEnd) \/ Over(f, w, AtEnd)
       THEN phase' = "fault"
       ELSE /\ arg' = [tag |-> AtTag, path |-> m.path, types |-> Types(m),
                       vals |-> << >>, ptr |-> f + w, end |-> AtEnd]
            /\ phase' = phase
  BY <1>1, <1>3, <1>14, <1>17, <1>18
<1>20. CASE Over(At, m.path.words, AtEnd) \/ Over(f, 1, AtEnd) \/ Over(f, w, AtEnd)
  <2>1. AtEnd # e
    <3>1. PICK a \in Nat : a = At BY <1>4
    <3>2. PICK pw \in Nat : pw = m.path.words BY <1>12
    <3>3. f = a + pw /\ f + w <= e BY <1>17, <3>1, <3>2
    <3>4. f + 1 <= e /\ a + pw <= e BY <1>7, <1>14, <1>16, <3>3
    <3>5. ~(a + pw > e) /\ ~(f + 1 > e) /\ ~(f + w > e) BY <1>7, <1>14, <1>16, <3>3, <3>4
    <3> SUFFICES ASSUME AtEnd = e PROVE FALSE OBVIOUS
    <3> QED BY <1>20, <3>1, <3>2, <3>5 DEF Over
  <2>2. phase' = "fault" BY <1>19, <1>20
  <2> QED BY <1>1, <1>2, <1>3, <1>4, <1>5, <1>7, <2>1, <2>2, FaultReads
<1>21. CASE ~(Over(At, m.path.words, AtEnd) \/ Over(f, 1, AtEnd) \/ Over(f, w, AtEnd))
  <2>1. /\ arg' = [tag |-> AtTag, path |-> m.path, types |-> Types(m),
                   vals |-> << >>, ptr |-> f + w, end |-> AtEnd]
        /\ phase' = phase
    BY <1>19, <1>21
  <2>2. /\ arg'.tag = AtTag /\ arg'.end = AtEnd /\ arg'.path = m.path /\ arg'.types = Types(m)
        /\ arg'.vals = << >> /\ arg'.ptr = f + w
    BY <2>1
  <2>3. arg' # NoArg
    <3>1. NoArg.ptr = 0 BY DEF NoArg
    <3>2. f + w # 0 BY <1>14, <1>16
    <3> QED BY <2>2, <3>1, <3>2
  <2>4. Len(arg'.vals) = 0 /\ Len(arg'.vals) <= Len(m.args) BY <1>12, <2>2
  <2>5. arg'.vals = SubSeq(Values(m), 1, Len(arg'.vals)) BY <2>2, <2>4, NoneOfIt
  <2>6. arg'.ptr = at[Len(arg'.vals) + 2] BY <1>17, <2>2, <2>4
  <2> QED BY <1>1, <1>2, <1>3, <1>6, <1>7, <1>8, <1>9, <1>11, <2>1, <2>2, <2>3, <2>4, <2>5, <2>6,
             ReadingOn
<1> QED BY <1>20, <1>21

\* An argument is read, or runs into the cut (reader.h, arg_raw).
LEMMA ReadArgReads ==
  ASSUME IInv, Layout, Reads, ReadArg PROVE Reads'
<1> USE DEF Layout
<1> DEFINE k == Len(arg.vals)
           type == arg.types[k + 1]
<1>1. /\ phase = "read" /\ arg # NoArg /\ k < Len(arg.types)
      /\ UNCHANGED << call, stack, heard >>
      /\ IF Over(arg.ptr, Width(type), arg.end)
         THEN phase' = "fault" /\ UNCHANGED arg
         ELSE /\ arg' = [arg EXCEPT !.ptr = @ + Width(type), !.vals = Append(@, Found(type))]
              /\ UNCHANGED phase
  BY DEF ReadArg
<1>2. /\ Rooted' = Rooted /\ \A p : Before(p)' = Before(p)
      /\ UNCHANGED << mem, ptr, open, msg, told, len >>
  BY ReaderLayout DEF Reader
<1>3. StackOK /\ ArgOK BY <1>1 DEF Reads
<1>4. /\ call = NoCall /\ heard = SubSeq(told, 1, Before(At))
      /\ At \in Rooted /\ arg.tag = AtTag /\ arg.end = AtEnd
  BY <1>1, <1>3 DEF ArgOK, HeardBefore
<1>5. /\ At \in Packets /\ At \in Nat /\ AtEnd \in Nat /\ PacketEnd(At) \in Nat
  BY <1>1, <1>3, PlaceIs
<1>6. PICK e \in Nat : e = PacketEnd(At) BY <1>5
<1>7. PICK m \in Message :
        /\ LaidOut(m, At, e) /\ Told(m, At)
        /\ arg.path = m.path /\ arg.types = Types(m)
        /\ k <= Len(m.args)
        /\ arg.vals = SubSeq(Values(m), 1, k)
        /\ \E at \in Offsets(m) : Placed(m, At, e, at) /\ arg.ptr = at[k + 2]
  BY <1>1, <1>3, <1>6 DEF ArgOK
<1>8. PICK at \in Offsets(m) : Placed(m, At, e, at) /\ arg.ptr = at[k + 2] BY <1>7
<1>9. /\ m \in [path : Paths, args : Args, step : Nat] /\ Len(m.args) \in Nat
      /\ DOMAIN m.args = 1 .. Len(m.args)
      /\ \A i \in DOMAIN m.args : IsArg(m.args[i])
  <2>1. m \in [path : Paths, args : Args, step : Nat] BY DEF Message
  <2> QED BY <2>1, PathsAndArgs
<1>10. k \in Nat /\ DOMAIN arg = DOMAIN NoArg BY DEF IInv, TypeOK
<1> HIDE DEF k
<1>11. Len(Types(m)) = Len(m.args) /\ Len(Values(m)) = Len(m.args) BY <1>9 DEF Types, Values
<1>12. k < Len(m.args) BY <1>1, <1>7, <1>11
<1>13. k + 1 \in 1 .. Len(m.args) /\ k + 1 <= Len(m.args) BY <1>9, <1>10, <1>12
<1>14. PICK a : a = m.args[k + 1] /\ IsArg(a) BY <1>9, <1>13
<1>15. type = a.type /\ Values(m)[k + 1] = a.val BY <1>7, <1>13, <1>14 DEF Types, Values
<1> HIDE DEF type
<1>16. PICK j \in 1 .. Len(m.args) + 1 : j = k + 2 BY <1>9, <1>10, <1>13
<1>17. PieceOf(m, j) = Value(a)
  <2>1. j # 1 /\ j - 1 = k + 1 BY <1>10, <1>16
  <2> QED BY <1>14, <2>1 DEF PieceOf
<1>18. /\ at[j] \in Nat /\ at[j + 1] \in Nat /\ At < at[j + 1] /\ at[j + 1] <= e
       /\ at[j + 1] = at[j] + Len(PieceOf(m, j)) /\ Holds(at[j], PieceOf(m, j))
  BY <1>5, <1>6, <1>7, <1>8, <1>16, PieceIs
<1>19. PICK q \in Nat : q = arg.ptr /\ q = at[j] BY <1>8, <1>16, <1>18
<1>20. Width(type) = Len(Value(a)) /\ Found(type) = a.val
  <2>1. Holds(q, Value(a)) BY <1>17, <1>18, <1>19
  <2> QED BY <1>14, <1>15, <1>19, <2>1, ArgumentIs
<1>21. arg.ptr + Width(type) = at[j + 1] BY <1>17, <1>18, <1>19, <1>20
<1>22. CASE Over(arg.ptr, Width(type), arg.end)
  <2>1. AtEnd # e BY <1>4, <1>18, <1>21, <1>22 DEF Over
  <2>2. mem[At].kind # "#bundle" BY <1>4 DEF Rooted
  <2>3. phase' = "fault" BY <1>1, <1>22
  <2> QED BY <1>1, <1>2, <1>3, <1>4, <1>5, <1>6, <2>1, <2>2, <2>3, FaultReads
<1>23. CASE ~Over(arg.ptr, Width(type), arg.end)
  <2>1. arg' = [arg EXCEPT !.ptr = @ + Width(type), !.vals = Append(@, Found(type))]
        /\ phase' = phase
    BY <1>1, <1>23
  <2>2. /\ arg'.tag = arg.tag /\ arg'.end = arg.end /\ arg'.path = arg.path
        /\ arg'.types = arg.types
        /\ arg'.ptr = arg.ptr + Width(type) /\ arg'.vals = Append(arg.vals, Found(type))
    BY <1>10, <2>1 DEF NoArg
  <2>3. arg'.vals = SubSeq(Values(m), 1, k + 1)
    <3>1. \E S : Values(m) \in Seq(S)
      <4> DEFINE S == { m.args[i].val : i \in 1 .. Len(m.args) }
      <4>1. \A i \in 1 .. Len(m.args) : m.args[i].val \in S OBVIOUS
      <4> HIDE DEF S
      <4>2. Values(m) \in Seq(S) BY <1>9, <4>1 DEF Values
      <4> QED BY <4>2
    <3>2. PICK S : Values(m) \in Seq(S) BY <3>1
    <3>3. Append(SubSeq(Values(m), 1, k), Values(m)[k + 1]) = SubSeq(Values(m), 1, k + 1)
      BY <1>10, <1>11, <1>13, <3>2, OneMore
    <3> QED BY <1>7, <1>15, <1>20, <2>2, <3>3
  <2>4. Len(arg'.vals) = k + 1
    <3>1. \E S : Values(m) \in Seq(S)
      <4> DEFINE S == { m.args[i].val : i \in 1 .. Len(m.args) }
      <4>1. \A i \in 1 .. Len(m.args) : m.args[i].val \in S OBVIOUS
      <4> HIDE DEF S
      <4>2. Values(m) \in Seq(S) BY <1>9, <4>1 DEF Values
      <4> QED BY <4>2
    <3>2. PICK S : Values(m) \in Seq(S) BY <3>1
    <3>3. k + 1 \in 0 .. Len(Values(m)) BY <1>9, <1>11, <1>13
    <3>4. Len(SubSeq(Values(m), 1, k + 1)) = k + 1 BY <3>2, <3>3, Beginning
    <3> QED BY <2>3, <3>4
  <2>5. arg'.ptr = at[Len(arg'.vals) + 2]
    <3>1. j + 1 = Len(arg'.vals) + 2 BY <1>10, <1>16, <2>4
    <3> QED BY <1>21, <2>2, <3>1
  <2>6. arg' # NoArg
    <3>1. NoArg.ptr = 0 BY DEF NoArg
    <3>2. at[j + 1] # 0 BY <1>5, <1>18
    <3> QED BY <1>21, <2>2, <3>1, <3>2
  <2>7. /\ arg'.tag = AtTag /\ arg'.end = AtEnd /\ arg'.path = m.path /\ arg'.types = Types(m)
        /\ Len(arg'.vals) <= Len(m.args) /\ arg'.vals = SubSeq(Values(m), 1, Len(arg'.vals))
    BY <1>4, <1>7, <1>13, <2>2, <2>3, <2>4
  <2>8. phase' = "read" /\ call' = NoCall BY <1>1, <1>4, <2>1
  <2> QED BY <1>1, <1>2, <1>3, <1>4, <1>6, <1>7, <1>8, <2>5, <2>6, <2>7, <2>8, ReadingOn
<1> QED BY <1>22, <1>23

\* The reader finds an item that has been written.
LEMMA ItemFound ==
  ASSUME IInv, Layout, phase = "read", NEW p \in Packets, NEW i \in Items,
         p <= i, i < PacketEnd(p)
  PROVE  /\ HasItem(i, PacketEnd(p)) /\ NumberAt(i) = mem[i].val
         /\ ItemEnd(i) = i + 1 + mem[i].val /\ i + 1 < ItemEnd(i)
<1> USE DEF Layout
<1>1. Held = {} /\ PacketEnd(0) = ptr BY ReadingIs
<1>2. /\ i \in Nat /\ ItemEnd(i) \in Nat /\ ItemEnd(i) = i + 1 + mem[i].val
      /\ i + 1 < ItemEnd(i) /\ mem[i].kind = "size" /\ ItemEnd(i) <= ptr
  BY <1>1, ItemsAre
<1>3. p \in Nat /\ PacketEnd(p) \in Nat /\ (p # 0 => p - 1 \in Items /\ PacketEnd(p) = ItemEnd(p - 1))
  BY PacketsAre
<1>4. NumberAt(i) = mem[i].val BY <1>2 DEF NumberAt
<1>5. ItemEnd(i) <= PacketEnd(p)
  <2>1. CASE p = 0 BY <1>1, <1>2, <2>1
  <2>2. CASE p # 0
    <3>1. p - 1 < i /\ p - 1 \in Items BY <1>2, <1>3, <2>2
    <3>2. ItemEnd(p - 1) <= i \/ ItemEnd(i) <= ItemEnd(p - 1) BY <3>1 DEF Nested
    <3>3. ~(PacketEnd(p) <= i) BY <1>2, <1>3
    <3> QED BY <1>3, <2>2, <3>2, <3>3
  <2> QED BY <2>1, <2>2
<1>6. PICK v \in Int : v = mem[i].val
  <2>1. mem[i].val \in Nat
    <3>1. i \in 0 .. ptr - 1 BY ItemsAre
    <3>2. ptr \in 0 .. Size - 1 BY WriterTypes
    <3>3. i \in 0 .. Size - 1 BY <3>1, <3>2
    <3> QED BY <1>2, <3>3, WriterTypes
  <2> QED BY <2>1
<1>7. ~Over(i, 1, PacketEnd(p)) BY <1>2, <1>3, <1>5 DEF Over
<1>8. ~Over(i + 1, v, PacketEnd(p)) BY <1>2, <1>3, <1>5, <1>6 DEF Over
<1> QED BY <1>2, <1>4, <1>6, <1>7, <1>8 DEF HasItem

\* A bundle is opened, down into its first item (reader.h, bundle_begin).
LEMMA OpenBundleReads ==
  ASSUME IInv, Layout, Reads, OpenBundle PROVE Reads'
<1> USE DEF Layout
<1>1. /\ Reading /\ IsBundle /\ UNCHANGED << phase, arg, heard >>
      /\ LET end == call.at + call.len
             b == Bundle(call.at + 4, end, mem[call.at + 2].val)
         IN  IF ~Over(call.at, 4, end) /\ HasItem(call.at + 4, end)
             THEN stack' = Append(stack, b) /\ call' = Item(b)
             ELSE call' = NoCall /\ UNCHANGED stack
  BY DEF OpenBundle
<1>2. /\ Rooted' = Rooted /\ \A p : Before(p)' = Before(p)
      /\ UNCHANGED << mem, ptr, open, msg, told, len >>
  BY ReaderLayout DEF Reader
<1>3. /\ phase = "read" /\ StackOK /\ call.at = At /\ call.tag = AtTag /\ arg = NoArg
      /\ call.at + call.len = AtEnd
      /\ heard = SubSeq(told, 1, Before(At)) /\ Before(At) \in 0 .. Len(told)
  BY <1>1, CallIs
<1>4. /\ At \in Packets /\ At \in Nat /\ AtEnd \in Nat /\ PacketEnd(At) \in Nat
      /\ AtEnd <= PacketEnd(At)
  BY <1>3, PlaceIs
<1>5. PICK p \in Nat : p = At BY <1>4
<1>6. PICK e \in Nat : e = PacketEnd(p) BY <1>4, <1>5
<1>7. PICK end \in Nat : end = AtEnd BY <1>4
<1>8. p \in Packets /\ end <= e /\ mem[p].kind = "#bundle"
  BY <1>1, <1>3, <1>4, <1>5, <1>6, <1>7 DEF IsBundle
<1>9. /\ BundleAt(p) /\ p + 4 <= e
      /\ Before(p + 4) = Before(p) /\ Before(p + 5) = Before(p)
  BY <1>3, <1>6, <1>8, BehindHead
<1>10. p + 4 < e => p + 4 \in Items BY <1>6, <1>9 DEF BundleAt
<1> DEFINE b == Bundle(p + 4, end, mem[p + 2].val)
<1>11. IF ~Over(p, 4, end) /\ HasItem(p + 4, end)
       THEN stack' = Append(stack, b) /\ call' = Item(b)
       ELSE call' = NoCall /\ UNCHANGED stack
  BY <1>1, <1>3, <1>5, <1>7
<1>12. CASE ~(~Over(p, 4, end) /\ HasItem(p + 4, end))
  <2>1. ASSUME end = e PROVE Before(p) = Before(end)
    <3>1. ~Over(p, 4, end) BY <1>9, <2>1 DEF Over
    <3>2. ~HasItem(p + 4, end) BY <1>12, <3>1
    <3>3. ~(p + 4 < e)
      <4> SUFFICES ASSUME p + 4 < e PROVE FALSE OBVIOUS
      <4>1. PICK i : i = p + 4 OBVIOUS
      <4>2. i \in Items /\ p <= i /\ i < PacketEnd(p) BY <1>6, <1>10, <4>1
      <4>3. HasItem(i, PacketEnd(p)) BY <1>3, <1>8, <4>2, ItemFound
      <4> QED BY <1>6, <2>1, <3>2, <4>1, <4>3
    <3>4. p + 4 = end BY <1>9, <2>1, <3>3
    <3> QED BY <1>9, <3>4
  <2>2. call' = NoCall /\ stack' = stack BY <1>11, <1>12
  <2>3. phase' = "read" /\ arg' = NoArg BY <1>1, <1>3
  <2>4. PICK n \in 0 .. Len(told) : n = Before(At) BY <1>3
  <2>5. heard' = SubSeq(told, 1, n) BY <1>1, <1>3, <2>4
  <2>6. AtEnd = PacketEnd(At) => n = Before(AtEnd) BY <1>5, <1>6, <1>7, <2>1, <2>4
  <2> QED BY <1>2, <1>3, <2>2, <2>3, <2>5, <2>6, Returned
<1>13. CASE ~Over(p, 4, end) /\ HasItem(p + 4, end)
  <2>1. p + 4 + 1 <= end BY <1>13 DEF HasItem, Over
  <2>2. p + 4 < e BY <1>8, <2>1
  <2>3. PICK i \in Nat : i = p + 4 OBVIOUS
  <2>4. i \in Items /\ p <= i /\ i < PacketEnd(p) BY <1>6, <1>10, <2>2, <2>3
  <2>5. NumberAt(i) = mem[i].val /\ ItemEnd(i) = i + 1 + mem[i].val
    BY <1>3, <1>8, <2>4, ItemFound
  <2>6. PICK v : v = mem[i].val OBVIOUS
  <2>7. v \in Int
    <3>1. mem[i].kind = "size" BY <1>3, <2>4, ItemsAre, ReadingIs
    <3>2. i \in 0 .. ptr - 1 BY <2>4, ItemsAre
    <3>3. ptr \in 0 .. Size - 1 BY WriterTypes
    <3>4. i \in 0 .. Size - 1 BY <3>2, <3>3
    <3>5. mem[i].val \in Nat BY <3>1, <3>4, WriterTypes
    <3> QED BY <2>6, <3>5
  <2>8. /\ b.ptr = p + 5 /\ b.ptr - 1 = i /\ b.end = end /\ b.tag = mem[p + 2].val
        /\ b.size = v
    <3>1. p + 4 + 1 = p + 5 /\ p + 5 - 1 = i BY <2>3
    <3> QED BY <2>3, <2>5, <2>6, <3>1 DEF Bundle
  <2>9. stack' = Append(stack, b) /\ call' = Item(b) BY <1>11, <1>13
  <2> HIDE DEF b
  <2> DEFINE n == Len(stack)
  <2>10. /\ n \in Nat /\ DOMAIN stack = 1 .. n /\ Len(stack') = n + 1
         /\ DOMAIN stack' = 1 .. n + 1
         /\ \A k \in 1 .. n : stack'[k] = stack[k]
         /\ stack'[n + 1] = b
         /\ stack' # << >>
         /\ n = 0 <=> stack = << >>
    <3>1. stack \in Seq({ stack[k] : k \in DOMAIN stack }) BY DEF IInv, TypeOK
    <3>2. PICK S : stack \in Seq(S) BY <3>1
    <3>3. n \in Nat /\ DOMAIN stack = 1 .. n /\ (n = 0 <=> stack = << >>) BY <3>2
    <3>4. /\ stack' \in Seq(S \cup {b}) /\ Len(stack') = n + 1
          /\ \A k \in 1 .. n : stack'[k] = stack[k]
          /\ stack'[n + 1] = b
      BY <2>9, <3>2, Appended
    <3>5. DOMAIN stack' = 1 .. n + 1 /\ stack' # << >> BY <3>3, <3>4
    <3> QED BY <3>3, <3>4, <3>5
  <2>11. n = 0 => p = 0 /\ end = len BY <1>5, <1>7, <2>10 DEF At, AtEnd
  <2>12. n # 0 => p = stack[n].ptr /\ end = e
    <3>1. n # 0 => stack # << >> BY <2>10
    <3>2. stack # << >> => AtEnd = PacketEnd(At) BY <1>3, PlaceIs
    <3> QED BY <1>5, <1>6, <1>7, <3>1, <3>2 DEF At
  <2> HIDE DEF n
  <2>13. /\ \A s, q, z : ReadsItem(s, q, z)' <=> ReadsItem(s, q, z)
         /\ \A q : PacketEnd(q)' = PacketEnd(q)
    BY <1>2, Frozen
  <2>14. StackOK'
    <3>1. ASSUME NEW k \in 1 .. n
          PROVE  ReadsItem(stack'[k], BundleOf(k)',
                           IF k = 1 THEN len ELSE PacketEnd(BundleOf(k)'))
      <4>1. BundleOf(k)' = BundleOf(k)
        <5>1. k # 1 => k - 1 \in 1 .. n BY <2>10
        <5> QED BY <2>10, <5>1 DEF BundleOf
      <4>2. ReadsItem(stack[k], BundleOf(k), IF k = 1 THEN len ELSE PacketEnd(BundleOf(k)))
        BY <1>3, <2>10 DEF StackOK
      <4> QED BY <2>10, <4>1, <4>2
    <3>2. ASSUME NEW k, k = n + 1 PROVE BundleOf(k)' = p
      <4>1. BundleOf(k)' = IF k = 1 THEN 0 ELSE stack'[k - 1].ptr BY DEF BundleOf
      <4>2. CASE n = 0
        <5>1. k = 1 BY <2>10, <3>2, <4>2
        <5> QED BY <2>11, <4>1, <4>2, <5>1
      <4>3. CASE n # 0
        <5>1. n \in 1 .. n /\ k - 1 = n /\ k # 1 BY <2>10, <3>2, <4>3
        <5>2. stack'[n] = stack[n] BY <2>10, <5>1
        <5> QED BY <2>12, <4>1, <4>3, <5>1, <5>2
      <4> QED BY <4>2, <4>3
    <3>3. ReadsItem(b, p, IF n = 0 THEN len ELSE PacketEnd(p))
      <4>1. \A j \in Items : ~(p <= j /\ j < i)
        <5>1. NoItem(p, p + 4) BY <1>9 DEF BundleAt
        <5>2. \A j \in Items : j \in Nat BY ItemsAre
        <5> QED BY <2>3, <5>1, <5>2 DEF NoItem
      <4>2. b.end = IF n = 0 THEN len ELSE PacketEnd(p) BY <1>6, <2>8, <2>11, <2>12
      <4>3. p + 4 <= i BY <2>3
      <4> QED BY <1>8, <2>4, <2>6, <2>8, <4>1, <4>2, <4>3 DEF ReadsItem
    <3>4. \A k \in 1 .. n + 1 : k \in 1 .. n \/ k = n + 1 BY <2>10
    <3>5. n + 1 = 1 <=> n = 0 BY <2>10
    <3>6. ASSUME NEW k \in DOMAIN stack', NEW c, c = BundleOf(k)'
          PROVE  ReadsItem(stack'[k], c, IF k = 1 THEN len ELSE PacketEnd(c))
      <4>1. CASE k \in 1 .. n BY <3>1, <3>6, <4>1
      <4>2. CASE k = n + 1
        <5>1. stack'[k] = b BY <2>10, <4>2
        <5>2. c = p BY <3>2, <3>6, <4>2
        <5>3. k = 1 <=> n = 0 BY <3>5, <4>2
        <5> QED BY <3>3, <5>1, <5>2, <5>3
      <4> QED BY <2>10, <3>4, <4>1, <4>2
    <3>7. ASSUME NEW k \in DOMAIN stack'
          PROVE  ReadsItem(stack[k], BundleOf(k), IF k = 1 THEN len ELSE PacketEnd(BundleOf(k)))'
      <4>1. PICK c : c = BundleOf(k)' OBVIOUS
      <4>2. PICK s : s = stack'[k] OBVIOUS
      <4>3. PICK z : z = IF k = 1 THEN len ELSE PacketEnd(c) OBVIOUS
      <4>4. ReadsItem(s, c, z) BY <3>6, <4>1, <4>2, <4>3
      <4>5. ReadsItem(s, c, z)' BY <2>13, <4>4
      <4>6. PacketEnd(c)' = PacketEnd(c) BY <2>13
      <4>7. z = IF k = 1 THEN len' ELSE PacketEnd(c)' BY <1>2, <4>3, <4>6
      <4> QED BY <4>1, <4>2, <4>5, <4>7
    <3> QED BY <3>7 DEF StackOK
  <2>15. At' = p + 5 /\ AtEnd' = p + 5 + v /\ AtTag' = b.tag
    BY <2>8, <2>10 DEF At, AtEnd, AtTag
  <2>16. call' = [tag |-> AtTag', at |-> At', len |-> AtEnd' - At']
    <3>1. PICK x \in Int : x = p + 5 OBVIOUS
    <3>2. PICK y \in Int : y = p + 5 + v BY <2>7
    <3>3. y - x = v BY <2>7, <3>1, <3>2
    <3>4. call' = [tag |-> b.tag, at |-> b.ptr, len |-> b.size] BY <2>9 DEF Item
    <3>5. At' = x /\ AtEnd' = y BY <2>15, <3>1, <3>2
    <3>6. call' = [tag |-> b.tag, at |-> x, len |-> v] BY <2>8, <3>1, <3>4
    <3>7. call' = [tag |-> AtTag', at |-> x, len |-> y - x] BY <2>15, <3>3, <3>6
    <3> QED BY <3>5, <3>7
  <2>17. call' # NoCall
    <3>1. call'.at = p + 5 BY <2>8, <2>9 DEF Item
    <3>2. NoCall.at = 0 BY DEF NoCall
    <3> QED BY <3>1, <3>2
  <2>18. HeardBefore(At)'
    <3>1. PICK q : q = p + 5 OBVIOUS
    <3>2. Before(q)' = Before(p) BY <1>2, <1>9, <3>1
    <3>3. heard' = SubSeq(told', 1, Before(p)) BY <1>1, <1>2, <1>3, <1>5
    <3> QED BY <2>15, <3>1, <3>2, <3>3 DEF HeardBefore
  <2>19. arg' = NoArg /\ phase' = "read" BY <1>1, <1>3
  <2>20. CallOK' /\ ArgOK' /\ IdleOK' BY <2>16, <2>17, <2>18, <2>19 DEF CallOK, ArgOK, IdleOK
  <2> QED BY <2>14, <2>19, <2>20 DEF Reads
<1> QED BY <1>12, <1>13

\* Each reader is for a bundle, in which it is at an item that has been written.
LEMMA ReaderIs ==
  ASSUME IInv, Layout, phase = "read", StackOK, NEW k \in DOMAIN stack
  PROVE  /\ stack[k].ptr \in Packets /\ stack[k].ptr \in Nat /\ stack[k].ptr # 0
         /\ stack[k].ptr - 1 \in Items
         /\ stack[k].size \in Nat /\ stack[k].end \in Nat
         /\ PacketEnd(stack[k].ptr) = stack[k].ptr + stack[k].size
         /\ ItemEnd(stack[k].ptr - 1) = stack[k].ptr + stack[k].size
         /\ stack[k].ptr + stack[k].size <= stack[k].end /\ stack[k].end <= len
<1> USE DEF Layout
<1>1. Held = {} /\ len <= ptr /\ ptr \in Nat BY ReadingIs
<1>2. stack[k].ptr \in Nat /\ stack[k].size \in Nat /\ stack[k].end \in Nat
  BY DEF IInv, TypeOK
<1>3. stack[k].ptr + stack[k].size <= stack[k].end /\ stack[k].end <= len
  BY DEF IInv, ReadersNest
<1>4. stack[k].ptr - 1 \in Items /\ stack[k].size = mem[stack[k].ptr - 1].val
  BY DEF StackOK, ReadsItem
<1>5. PICK p \in Nat : p = stack[k].ptr BY <1>2
<1>6. PICK i : i = p - 1 OBVIOUS
<1>7. i \in Items /\ mem[i].val = stack[k].size BY <1>4, <1>5, <1>6
<1>8. i \in Nat BY <1>7, ItemsAre
<1>9. ItemEnd(i) = i + 1 + mem[i].val /\ i + 1 < ItemEnd(i) /\ ItemEnd(i) <= ptr
      /\ ItemEnd(i) \in Nat
  BY <1>1, <1>7, ItemsAre
<1>10. p = i + 1 /\ p # 0 BY <1>5, <1>6, <1>8
<1>11. p \in Packets
  <2>1. p \in 0 .. ptr - 1 BY <1>1, <1>9, <1>10
  <2> QED BY <1>6, <1>7, <2>1 DEF Packets
<1>12. PacketEnd(p) = ItemEnd(i) BY <1>6, <1>10 DEF PacketEnd
<1>13. ItemEnd(i) = p + stack[k].size BY <1>7, <1>9, <1>10
<1> QED BY <1>2, <1>3, <1>5, <1>6, <1>7, <1>10, <1>11, <1>12, <1>13

\* Behind the item of the innermost reader is its next one, or the end of its bundle.
LEMMA BehindItem ==
  ASSUME IInv, Layout, phase = "read", StackOK,
         NEW n \in DOMAIN stack, NEW c, c = BundleOf(n), NEW e, e = stack[n].ptr + stack[n].size
  PROVE  /\ e \in Nat /\ c \in Packets
         /\ e < ptr => e \in Items
         /\ ~HasItem(e, stack[n].end) /\ stack[n].end = PacketEnd(c) => e = PacketEnd(c)
         /\ HasItem(e, stack[n].end) =>
              /\ e < ptr /\ NumberAt(e) = mem[e].val
              /\ \A j \in Items : c <= j /\ j < e => ItemEnd(j) <= e
<1> USE DEF Layout
<1>1. Held = {} /\ len \in Nat /\ len <= ptr /\ ptr \in Nat BY ReadingIs
<1>2. /\ stack[n].ptr \in Nat /\ stack[n].size \in Nat /\ stack[n].end \in Nat
      /\ stack[n].ptr - 1 \in Items
      /\ ItemEnd(stack[n].ptr - 1) = stack[n].ptr + stack[n].size
      /\ stack[n].ptr + stack[n].size <= stack[n].end /\ stack[n].end <= len
  BY ReaderIs
<1>3. PICK i : i = stack[n].ptr - 1 OBVIOUS
<1>4. PICK z \in Nat : z = stack[n].end BY <1>2
<1>5. /\ i \in Items /\ ItemEnd(i) = e /\ e \in Nat /\ e <= z /\ z <= ptr
  <2>1. e \in Nat BY <1>2
  <2>2. e <= z /\ z <= len BY <1>2, <1>4
  <2> QED BY <1>1, <1>2, <1>3, <1>4, <2>1, <2>2
<1>6. e < ptr => e \in Items BY <1>5 DEF Joined
<1>7. /\ c \in Packets /\ c + 4 <= i
      /\ \A j \in Items : c <= j /\ j < i => ItemEnd(j) <= i
  BY <1>3 DEF StackOK, ReadsItem
<1>8. i \in Nat /\ c \in Nat /\ i < e BY <1>5, <1>7, ItemsAre, PacketsAre
<1>9. ASSUME ~HasItem(e, z), z = PacketEnd(c) PROVE e = z
  <2>1. e < z => e \in Items BY <1>1, <1>4, <1>5, <1>6
  <2>2. e \in Items => c <= e BY <1>7, <1>8, <1>5
  <2>3. e < z => HasItem(e, z)
    <3> SUFFICES ASSUME e < z PROVE HasItem(e, z) OBVIOUS
    <3>1. e \in Items /\ c <= e /\ e < PacketEnd(c) BY <1>9, <2>1, <2>2
    <3> QED BY <1>7, <1>9, <3>1, ItemFound
  <2> QED BY <1>4, <1>5, <1>9, <2>3
<1>10. ASSUME HasItem(e, z)
       PROVE  /\ e < ptr /\ NumberAt(e) = mem[e].val
              /\ \A j \in Items : c <= j /\ j < e => ItemEnd(j) <= e
  <2>1. e + 1 <= z BY <1>4, <1>5, <1>10 DEF HasItem, Over
  <2>2. e < ptr BY <1>1, <1>4, <1>5, <2>1
  <2>3. mem[e].kind = "size" BY <1>1, <1>6, <2>2, ItemsAre
  <2>4. ASSUME NEW j \in Items, c <= j, j < e PROVE ItemEnd(j) <= e
    <3>1. j \in Nat /\ ItemEnd(j) \in Nat BY ItemsAre
    <3>2. CASE j < i BY <1>5, <1>7, <1>8, <2>4, <3>1, <3>2
    <3>3. CASE j = i BY <1>5, <3>3
    <3>4. CASE i < j
      <4>1. ItemEnd(i) <= j \/ ItemEnd(j) <= ItemEnd(i) BY <1>5, <3>4 DEF Nested
      <4> QED BY <1>5, <2>4, <3>1, <4>1
    <3> QED BY <1>8, <3>1, <3>2, <3>3, <3>4
  <2> QED BY <2>2, <2>3, <2>4 DEF NumberAt
<1> QED BY <1>4, <1>5, <1>6, <1>7, <1>9, <1>10

\* The reader of a bundle has returned from an item.
LEMMA NextItemReads ==
  ASSUME IInv, Layout, Reads, NextItem PROVE Reads'
<1> USE DEF Layout
<1>1. /\ phase = "read" /\ call = NoCall /\ arg = NoArg /\ stack # << >>
      /\ UNCHANGED << phase, arg, heard >>
  BY DEF NextItem
<1>2. /\ Rooted' = Rooted /\ \A p : Before(p)' = Before(p)
      /\ UNCHANGED << mem, ptr, open, msg, told, len >>
  BY ReaderLayout DEF Reader
<1>3. /\ \A s, q, z : ReadsItem(s, q, z)' <=> ReadsItem(s, q, z)
      /\ \A q : PacketEnd(q)' = PacketEnd(q)
  BY <1>2, Frozen
<1>4. StackOK /\ heard = SubSeq(told, 1, Before(AtEnd)) BY <1>1 DEF Reads, IdleOK, HeardBefore
<1>5. PICK S : stack \in Seq(S)
  <2>1. stack \in Seq({ stack[k] : k \in DOMAIN stack }) BY DEF IInv, TypeOK
  <2> QED BY <2>1
<1>6. PICK n \in Nat \ {0} : n = Len(stack) BY <1>1, <1>5
<1>7. DOMAIN stack = 1 .. n /\ n \in DOMAIN stack BY <1>5, <1>6
<1>8. PICK s : s = stack[n] OBVIOUS
<1>9. PICK c : c = BundleOf(n) OBVIOUS
<1>10. PICK e : e = s.ptr + s.size OBVIOUS
<1>11. /\ e \in Nat /\ c \in Packets /\ (e < ptr => e \in Items)
       /\ ~HasItem(e, s.end) /\ s.end = PacketEnd(c) => e = PacketEnd(c)
       /\ HasItem(e, s.end) => /\ e < ptr /\ NumberAt(e) = mem[e].val
                               /\ \A j \in Items : c <= j /\ j < e => ItemEnd(j) <= e
  BY <1>1, <1>4, <1>7, <1>8, <1>9, <1>10, BehindItem
<1>12. ReadsItem(s, c, IF n = 1 THEN len ELSE PacketEnd(c)) BY <1>4, <1>7, <1>8, <1>9 DEF StackOK
<1>13. AtEnd = e BY <1>1, <1>6, <1>8, <1>10 DEF At, AtEnd
<1>14. heard' = SubSeq(told', 1, Before(e)) BY <1>1, <1>2, <1>4, <1>13
<1>15. IF HasItem(e, s.end)
       THEN /\ stack' = Append(Front(stack), Bundle(e, s.end, s.tag))
            /\ call' = Item(Bundle(e, s.end, s.tag))
       ELSE stack' = Front(stack) /\ UNCHANGED call
  BY <1>6, <1>8, <1>10 DEF NextItem
<1>16. /\ Front(stack) \in Seq(S) /\ Len(Front(stack)) = n - 1
       /\ \A k \in 1 .. n - 1 : Front(stack)[k] = stack[k]
  BY <1>1, <1>5, <1>6, Shortened
<1>17. ASSUME NEW k \in 1 .. n PROVE ReadsItem(stack[k], BundleOf(k),
                                        IF k = 1 THEN len ELSE PacketEnd(BundleOf(k)))
  BY <1>4, <1>7 DEF StackOK
<1>18. ASSUME \A k \in 1 .. n - 1 : stack'[k] = stack[k], NEW k \in 1 .. n
       PROVE  BundleOf(k)' = BundleOf(k)
  <2>1. k # 1 => k - 1 \in 1 .. n - 1 OBVIOUS
  <2> QED BY <1>18, <2>1 DEF BundleOf
<1>19. ASSUME \A k \in 1 .. n - 1 : stack'[k] = stack[k], NEW k \in 1 .. n - 1
       PROVE  ReadsItem(stack[k], BundleOf(k), IF k = 1 THEN len ELSE PacketEnd(BundleOf(k)))'
  <2>0. k \in 1 .. n OBVIOUS
  <2>1. PICK b : b = BundleOf(k) OBVIOUS
  <2>2. PICK t : t = stack[k] OBVIOUS
  <2>3. PICK z : z = IF k = 1 THEN len ELSE PacketEnd(b) OBVIOUS
  <2>4. ReadsItem(t, b, z) BY <1>17, <2>0, <2>1, <2>2, <2>3
  <2>5. ReadsItem(t, b, z)' BY <1>3, <2>4
  <2>6. BundleOf(k)' = b BY <1>18, <1>19, <2>0, <2>1
  <2>7. stack'[k] = t BY <1>19, <2>2
  <2>8. z = IF k = 1 THEN len' ELSE PacketEnd(b)' BY <1>2, <1>3, <2>3
  <2> QED BY <2>5, <2>6, <2>7, <2>8
<1>20. CASE HasItem(e, s.end)
  <2> DEFINE b == Bundle(e, s.end, s.tag)
  <2>1. PICK v : v = mem[e].val OBVIOUS
  <2>2. e \in Items /\ e < ptr /\ NumberAt(e) = v BY <1>11, <1>20, <2>1
  <2>3. v \in Int
    <3>1. mem[e].kind = "size" BY <1>1, <2>2, ItemsAre, ReadingIs
    <3>2. e \in 0 .. ptr - 1 BY <2>2, ItemsAre
    <3>3. ptr \in 0 .. Size - 1 BY WriterTypes
    <3>4. e \in 0 .. Size - 1 BY <3>2, <3>3
    <3>5. mem[e].val \in Nat BY <3>1, <3>4, WriterTypes
    <3> QED BY <2>1, <3>5
  <2>4. b.ptr = e + 1 /\ b.ptr - 1 = e /\ b.end = s.end /\ b.tag = s.tag /\ b.size = v
    <3>1. PICK x : x = e + 1 OBVIOUS
    <3>2. x - 1 = e BY <1>11, <3>1
    <3>3. b = [ptr |-> x, end |-> s.end, tag |-> s.tag, size |-> v] BY <2>2, <3>1 DEF Bundle
    <3> HIDE DEF b
    <3> QED BY <3>1, <3>2, <3>3
  <2>5. stack' = Append(Front(stack), b) /\ call' = Item(b) BY <1>15, <1>20
  <2> HIDE DEF b
  <2>6. /\ Len(stack') = n /\ DOMAIN stack' = 1 .. n
        /\ \A k \in 1 .. n - 1 : stack'[k] = stack[k]
        /\ stack'[n] = b /\ stack' # << >>
    <3>1. PICK f : f = Front(stack) OBVIOUS
    <3>2. f \in Seq(S) /\ Len(f) = n - 1 /\ \A k \in 1 .. n - 1 : f[k] = stack[k] BY <1>16, <3>1
    <3>3. n - 1 + 1 = n OBVIOUS
    <3>4. stack' = Append(f, b) BY <2>5, <3>1
    <3>5. /\ stack' \in Seq(S \cup {b}) /\ Len(stack') = n
          /\ \A k \in 1 .. n - 1 : stack'[k] = f[k]
          /\ stack'[n] = b
      BY <3>2, <3>3, <3>4, Appended
    <3>6. DOMAIN stack' = 1 .. n /\ stack' # << >> BY <3>5
    <3> QED BY <3>2, <3>5, <3>6
  <2>7. BundleOf(n)' = c BY <1>9, <1>18, <2>6
  <2>8. ReadsItem(b, c, IF n = 1 THEN len ELSE PacketEnd(c))
    <3>1. /\ mem[c].kind = "#bundle" /\ c + 4 <= s.ptr - 1 /\ s.tag = mem[c + 2].val
          /\ s.end = IF n = 1 THEN len ELSE PacketEnd(c)
      BY <1>12 DEF ReadsItem
    <3>2. c + 4 <= e
      <4>1. s.ptr \in Nat /\ s.size \in Nat BY <1>7, <1>8 DEF IInv, TypeOK
      <4>2. c \in Nat BY <1>11, PacketsAre
      <4> QED BY <1>10, <3>1, <4>1, <4>2
    <3> QED BY <1>11, <1>20, <2>1, <2>2, <2>4, <3>1, <3>2 DEF ReadsItem
  <2>9. ASSUME NEW k \in 1 .. n
        PROVE  ReadsItem(stack[k], BundleOf(k), IF k = 1 THEN len ELSE PacketEnd(BundleOf(k)))'
    <3>1. CASE k = n
      <4>1. PICK z : z = IF n = 1 THEN len ELSE PacketEnd(c) OBVIOUS
      <4>2. PICK t : t = b OBVIOUS
      <4>3. ReadsItem(t, c, z)' BY <1>3, <2>8, <4>1, <4>2
      <4>4. z = IF k = 1 THEN len' ELSE PacketEnd(c)' BY <1>2, <1>3, <3>1, <4>1
      <4>5. stack'[k] = t /\ BundleOf(k)' = c BY <2>6, <2>7, <3>1, <4>2
      <4> QED BY <4>3, <4>4, <4>5
    <3>2. CASE k # n
      <4>1. k \in 1 .. n - 1 BY <3>2
      <4> QED BY <1>19, <2>6, <4>1
    <3> QED BY <3>1, <3>2
  <2>10. StackOK' BY <2>6, <2>9 DEF StackOK
  <2>11. At' = e + 1 /\ AtEnd' = e + 1 + v /\ AtTag' = s.tag
    BY <2>4, <2>6 DEF At, AtEnd, AtTag
  <2>12. call' = [tag |-> AtTag', at |-> At', len |-> AtEnd' - At']
    <3>1. PICK x \in Int : x = e + 1 BY <1>11
    <3>2. PICK y \in Int : y = e + 1 + v BY <1>11, <2>3
    <3>3. y - x = v BY <1>11, <2>3, <3>1, <3>2
    <3>4. call' = [tag |-> b.tag, at |-> b.ptr, len |-> b.size] BY <2>5 DEF Item
    <3>5. At' = x /\ AtEnd' = y BY <2>11, <3>1, <3>2
    <3>6. call' = [tag |-> s.tag, at |-> x, len |-> v] BY <2>4, <3>1, <3>4
    <3>7. call' = [tag |-> AtTag', at |-> x, len |-> y - x] BY <2>11, <3>3, <3>6
    <3> QED BY <3>5, <3>7
  <2>13. call' # NoCall
    <3>1. call'.at = e + 1 BY <2>4, <2>5 DEF Item
    <3>2. NoCall.at = 0 BY DEF NoCall
    <3> QED BY <1>11, <3>1, <3>2
  <2>14. HeardBefore(At)'
    <3>1. PICK q \in Nat : q = e + 1 BY <1>11
    <3>2. e \notin Rooted
      <4>1. e \notin Packets BY <2>2, PacketIsNoItem
      <4> QED BY <4>1, RootedAre
    <3>3. \A x \in Rooted : x <= e \/ q <= x
      <4>1. \A x \in Rooted : x \in Nat BY RootedAre
      <4> QED BY <1>11, <3>1, <4>1
    <3>4. e < q BY <1>11, <3>1
    <3>5. Before(q) = Before(e) BY <1>11, <3>2, <3>3, <3>4, NextBefore
    <3>6. heard' = SubSeq(told', 1, Before(q)') BY <1>2, <1>14, <3>5
    <3>7. At' = q BY <2>11, <3>1
    <3> QED BY <3>6, <3>7 DEF HeardBefore
  <2>15. arg' = NoArg /\ phase' = "read" BY <1>1
  <2>16. CallOK' /\ ArgOK' /\ IdleOK' BY <2>12, <2>13, <2>14, <2>15 DEF CallOK, ArgOK, IdleOK
  <2> QED BY <2>10, <2>15, <2>16 DEF Reads
<1>21. CASE ~HasItem(e, s.end)
  <2>1. stack' = Front(stack) /\ call' = NoCall BY <1>1, <1>15, <1>21
  <2>2. /\ Len(stack') = n - 1 /\ DOMAIN stack' = 1 .. n - 1
        /\ \A k \in 1 .. n - 1 : stack'[k] = stack[k]
        /\ stack' = << >> <=> n = 1
    <3>1. /\ stack' \in Seq(S) /\ Len(stack') = n - 1
          /\ \A k \in 1 .. n - 1 : stack'[k] = stack[k]
      BY <1>16, <2>1
    <3>2. DOMAIN stack' = 1 .. n - 1 BY <3>1
    <3>3. stack' = << >> <=> n - 1 = 0 BY <3>1
    <3> QED BY <3>1, <3>2, <3>3
  <2>3. StackOK' BY <1>19, <2>2 DEF StackOK
  <2>4. s.end = PacketEnd(c) => e = PacketEnd(c) BY <1>11, <1>21
  <2>5. s.end = IF n = 1 THEN len ELSE PacketEnd(c) BY <1>12 DEF ReadsItem
  <2>6. n = 1 => HeardSome'
    <3> SUFFICES ASSUME n = 1 PROVE HeardSome' OBVIOUS
    <3>1. c = 0 BY <1>9 DEF BundleOf
    <3>2. PICK m \in 0 .. Len(told) : m = Before(e)
      <4>1. Before(e) \in Nat /\ Before(e) <= Len(told) /\ Len(told) \in Nat BY <1>11, RootedAre
      <4> QED BY <4>1
    <3>3. len = ptr => heard' = told'
      <4> SUFFICES ASSUME len = ptr PROVE heard' = told' OBVIOUS
      <4>1. PacketEnd(c) = ptr /\ Before(ptr) = Len(told) BY <1>1, <3>1, ReadingIs
      <4>2. e = ptr BY <2>4, <2>5, <4>1
      <4>3. heard' = SubSeq(told, 1, Len(told)) BY <1>2, <1>14, <4>1, <4>2
      <4>4. told \in Seq({ told[i] : i \in DOMAIN told }) BY DEF ToldOK
      <4>5. PICK T : told \in Seq(T) BY <4>4
      <4> QED BY <1>2, <4>3, <4>5, WholeSubSeq
    <3>4. heard' = SubSeq(told', 1, m) /\ m \in 0 .. Len(told') BY <1>2, <1>14, <3>2
    <3>5. len' = ptr' => heard' = told' BY <1>2, <3>3
    <3> QED BY <3>4, <3>5 DEF HeardSome
  <2>7. n # 1 => HeardBefore(AtEnd)'
    <3> SUFFICES ASSUME n # 1 PROVE HeardBefore(AtEnd)' OBVIOUS
    <3>1. PICK l : l = n - 1 OBVIOUS
    <3>2. l \in 1 .. n - 1 /\ l \in 1 .. n BY <3>1
    <3>3. c = stack[l].ptr BY <1>9, <3>1 DEF BundleOf
    <3>4. PacketEnd(c) = c + stack[l].size BY <1>1, <1>4, <1>7, <3>2, <3>3, ReaderIs
    <3>5. e = c + stack[l].size BY <2>4, <2>5, <3>4
    <3>6. stack' # << >> /\ Len(stack') = l /\ stack'[l] = stack[l] BY <2>2, <3>1, <3>2
    <3>7. AtEnd' = e BY <3>3, <3>5, <3>6 DEF At, AtEnd
    <3>8. heard' = SubSeq(told', 1, Before(e)') BY <1>2, <1>14
    <3> QED BY <3>7, <3>8 DEF HeardBefore
  <2>8. phase' = "read" /\ arg' = NoArg BY <1>1
  <2>9. CallOK' /\ ArgOK' BY <2>1, <2>8 DEF CallOK, ArgOK
  <2>10. IdleOK' BY <2>2, <2>6, <2>7 DEF IdleOK
  <2> QED BY <2>3, <2>8, <2>9, <2>10 DEF Reads
<1> QED BY <1>20, <1>21

-----------------------------------------------------------------------------
(***************************************************************************)
(* The theorems.                                                           *)
(***************************************************************************)

\* The call for the whole packet has returned.
LEMMA HandledReads ==
  ASSUME IInv, Layout, Reads, Handled PROVE Reads'
<1>1. phase = "read" /\ call = NoCall /\ arg = NoArg /\ stack = << >> /\ phase' = "done"
      /\ UNCHANGED heard
  BY DEF Handled, reader
<1>2. UNCHANGED << ptr, told, len >> BY ReaderLayout DEF Reader
<1>3. HeardSome BY <1>1 DEF Reads, IdleOK
<1>4. HeardSome' BY <1>1, <1>2, <1>3 DEF HeardSome
<1> QED BY <1>1, <1>4 DEF Reads

\* The daemon is given what has arrived.
LEMMA ArriveReads ==
  ASSUME IInv, Layout, Reads, NEW n \in 1 .. Size, Arrive(n) PROVE Reads'
<1>1. /\ phase = "write" /\ phase' = "read" /\ len' = n
      /\ call' = [tag |-> Immediate, at |-> 0, len |-> n]
      /\ UNCHANGED << mem, ptr, open, msg, told, stack, arg, heard >>
  BY DEF Arrive, writer
<1>2. stack = << >> /\ arg = NoArg BY <1>1 DEF IInv
<1>3. heard = << >> BY <1>1 DEF Reads
<1>4. StackOK' BY <1>1, <1>2 DEF StackOK
<1>5. PICK z : z = 0 OBVIOUS
<1>6. At' = z /\ AtEnd' = n /\ AtTag' = Immediate
  BY <1>1, <1>2, <1>5 DEF At, AtEnd, AtTag
<1>7. call' # NoCall
  <2>1. call'.len = n BY <1>1
  <2>2. NoCall.len = 0 BY DEF NoCall
  <2> QED BY <2>1, <2>2
<1>8. n - z = n BY <1>5
<1>9. call' = [tag |-> AtTag', at |-> At', len |-> AtEnd' - At'] BY <1>1, <1>5, <1>6, <1>8
<1>10. Before(z)' = 0
  <2>1. \A q \in Rooted : ~(q < z) BY <1>5, RootedAre
  <2>2. { q \in Rooted : q < z } = {} BY <2>1
  <2>3. Before(z) = 0 BY <2>2, FS_EmptySet DEF Before
  <2> QED BY <2>3, ArriveLayout
<1>11. SubSeq(told', 1, 0) = << >> BY NoneOfIt
<1>12. HeardBefore(z)' BY <1>1, <1>3, <1>10, <1>11 DEF HeardBefore
<1>13. HeardBefore(At)' BY <1>6, <1>12 DEF HeardBefore
<1>14. arg' = NoArg BY <1>1, <1>2
<1>15. CallOK' /\ ArgOK' /\ IdleOK' BY <1>7, <1>9, <1>13, <1>14 DEF CallOK, ArgOK, IdleOK
<1> QED BY <1>1, <1>4, <1>15 DEF Reads

\* Every step of the reader.
LEMMA ReaderReads ==
  ASSUME IInv, Layout, Reads, Reader PROVE Reads'
BY OpenBundleReads, IgnoreReads, OpenMessageReads, ReadArgReads, MessageReadReads,
   NextItemReads, HandledReads DEF Reader

\* Every step of either keeps the invariant.
LEMMA StepLayout == LInv /\ [Next]_vars => LInv'
<1> SUFFICES ASSUME LInv, [Next]_vars PROVE LInv' OBVIOUS
<1>1. IInv /\ Layout /\ Reads BY DEF LInv
<1>2. IInv' BY <1>1, StepInv
<1>3. CASE Writer
  <2>1. Layout' BY <1>1, <1>3, WriterLayout
  <2>2. phase = "write" /\ phase' \in {"write", "failed"} /\ UNCHANGED heard
    BY <1>3 DEF Writer, AddPath, AddPiece, MessageWritten, PushBundle, PushItem, PopItem,
                PopBundle, GiveUp, Vacant, Close, reader
  <2>3. Reads' BY <1>1, <2>2 DEF Reads
  <2> QED BY <1>2, <2>1, <2>3 DEF LInv
<1>4. CASE Reader BY <1>1, <1>2, <1>4, ReaderLayout, ReaderReads DEF LInv
<1>5. CASE \E n \in 1 .. Size : Arrive(n) BY <1>1, <1>2, <1>5, ArriveLayout, ArriveReads DEF LInv
<1>6. CASE UNCHANGED vars
  <2>1. /\ UNCHANGED << mem, ptr, open, msg, told >>
        /\ UNCHANGED << phase, len, call, stack, arg, heard >>
    BY <1>6 DEF vars
  <2>2. /\ Layout' /\ Rooted' = Rooted /\ \A p : Before(p)' = Before(p)
    BY <1>1, <2>1, ReadingLayout DEF Layout, WritingOK
  <2>3. /\ \A s, b, e : ReadsItem(s, b, e)' <=> ReadsItem(s, b, e)
        /\ \A p : PacketEnd(p)' = PacketEnd(p)
        /\ \A m, p, e : LaidOut(m, p, e)' <=> LaidOut(m, p, e)
        /\ \A m, p : Told(m, p)' <=> Told(m, p)
        /\ \A m, p, e, at : Placed(m, p, e, at)' <=> Placed(m, p, e, at)
        /\ \A m : Offsets(m)' = Offsets(m)
    BY <2>1, <2>2, Frozen
  <2>4. Reads'
    <3>1. \A k : BundleOf(k)' = BundleOf(k) BY <2>1 DEF BundleOf
    <3>2. StackOK' <=> StackOK BY <2>1, <2>3, <3>1 DEF StackOK
    <3>3. At' = At /\ AtEnd' = AtEnd /\ AtTag' = AtTag BY <2>1 DEF At, AtEnd, AtTag
    <3>4. PICK a : a = At OBVIOUS
    <3>5. PICK e : e = AtEnd OBVIOUS
    <3>6. \A p : HeardBefore(p)' <=> HeardBefore(p) BY <2>1, <2>2 DEF HeardBefore
    <3>7. HeardSome' <=> HeardSome BY <2>1 DEF HeardSome
    <3>8. CallOK => CallOK' BY <2>1, <3>3, <3>4, <3>6 DEF CallOK
    <3>9. ArgOK => ArgOK' BY <2>1, <2>2, <2>3, <3>3, <3>4, <3>6 DEF ArgOK, Message
    <3>10. IdleOK => IdleOK' BY <2>1, <3>3, <3>5, <3>6, <3>7 DEF IdleOK
    <3> QED BY <1>1, <2>1, <3>2, <3>7, <3>8, <3>9, <3>10 DEF Reads
  <2> QED BY <1>2, <2>2, <2>4 DEF LInv
<1> QED BY <1>3, <1>4, <1>5, <1>6 DEF Next, Quiet

\* It holds when nothing is written.
LEMMA InitReads == Init => LInv
<1> SUFFICES ASSUME Init PROVE LInv OBVIOUS
<1>1. Reads BY DEF Init, Reads
<1> QED BY <1>1, InitInv, InitLayout DEF LInv

\* What has been written is, at every moment, packets and items in each other that end
\* where their sizes say, whatever lv2_osc_writer_pop_item and _pop_bundle have taken
\* back (writer.h), and the readers of _handle_osc_packet (monobusd.c) stand at packets
\* of it, with all messages heard that are in front.
THEOREM LayoutInvariance == Spec => []LInv
BY InitReads, StepLayout, PTL DEF Spec

\* A packet that arrives whole is read to its end: every message that
\* lv2_osc_writer_message_varlist has written is found by OSC_READER_BUNDLE_FOREACH and
\* OSC_READER_MESSAGE_FOREACH (reader.h), in order, with its path, its arguments and the
\* time tag of the bundle it is in, however bundles are nested.
THEOREM WholePacketHeard == Spec => []WholeHeard
<1>1. LInv => WholeHeard
  <2> SUFFICES ASSUME LInv, phase \in {"done", "fault"}, len = ptr
               PROVE  phase = "done" /\ heard = told
    BY DEF WholeHeard
  <2>1. Reads BY DEF LInv
  <2>2. phase # "fault"
    <3> SUFFICES ASSUME phase = "fault" PROVE FALSE OBVIOUS
    <3>1. len < ptr BY <2>1 DEF Reads
    <3>2. ptr \in Nat BY DEF LInv, IInv, TypeOK
    <3> QED BY <3>1, <3>2
  <2> QED BY <2>1, <2>2 DEF Reads, HeardSome
<1> QED BY <1>1, LayoutInvariance, PTL

\* Of a packet that was cut the first messages are found, as they were written, and no
\* others; lv2_osc_reader_arg_begin and arg_raw (reader.h) only return NULL to callers
\* that dereference it when the packet is a single message.
THEOREM CutPacketHeardInPart == Spec => []CutHeardInPart
<1>1. LInv => CutHeardInPart
  <2> SUFFICES ASSUME LInv PROVE CutHeardInPart OBVIOUS
  <2>1. IInv /\ Layout /\ Reads BY DEF LInv
  <2>2. PICK S : told \in Seq(S)
    <3>1. told \in Seq({ told[i] : i \in DOMAIN told }) BY <2>1 DEF Layout, ToldOK
    <3> QED BY <3>1
  <2>3. \E n \in 0 .. Len(told) : heard = SubSeq(told, 1, n)
    <3>1. CASE phase \in {"write", "failed"}
      <4>1. heard = << >> BY <2>1, <3>1 DEF Reads
      <4>2. heard = SubSeq(told, 1, 0) BY <4>1, NoneOfIt
      <4>3. 0 \in 0 .. Len(told) BY <2>2
      <4> QED BY <4>2, <4>3
    <3>2. CASE phase = "read"
      <4>1. StackOK /\ CallOK /\ ArgOK /\ IdleOK BY <2>1, <3>2 DEF Reads
      <4>2. At \in Nat /\ AtEnd \in Nat BY <2>1, <3>2, <4>1, PlaceIs
      <4>3. Before(At) \in 0 .. Len(told) /\ Before(AtEnd) \in 0 .. Len(told)
        <5>1. Before(At) \in Nat /\ Before(At) <= Len(told) /\ Len(told) \in Nat
          BY <2>1, <4>2, RootedAre
        <5>2. Before(AtEnd) \in Nat /\ Before(AtEnd) <= Len(told)
          BY <2>1, <4>2, RootedAre
        <5> QED BY <5>1, <5>2
      <4>4. CASE call # NoCall BY <4>1, <4>3, <4>4 DEF CallOK, HeardBefore
      <4>5. CASE arg # NoArg BY <4>1, <4>3, <4>5 DEF ArgOK, HeardBefore
      <4>6. CASE call = NoCall /\ arg = NoArg
        BY <4>1, <4>3, <4>6 DEF IdleOK, HeardBefore, HeardSome
      <4> QED BY <4>4, <4>5, <4>6
    <3>3. CASE phase = "done" BY <2>1, <3>3 DEF Reads, HeardSome
    <3>4. CASE phase = "fault" BY <2>1, <3>4 DEF Reads
    <3>5. phase \in {"write", "failed", "read", "done", "fault"} BY <2>1 DEF IInv, TypeOK
    <3> QED BY <3>1, <3>2, <3>3, <3>4, <3>5
  <2>4. PICK n \in 0 .. Len(told) : heard = SubSeq(told, 1, n) BY <2>3
  <2>5. IsPrefix(heard, told) BY <2>2, <2>4, BeginningIsPrefix
  <2>6. phase = "fault" => mem[0].kind = "string" BY <2>1 DEF Reads
  <2> QED BY <2>5, <2>6 DEF CutHeardInPart
<1> QED BY <1>1, LayoutInvariance, PTL
=============================================================================
