--------------------------------- MODULE Osc ---------------------------------
(***************************************************************************)
(* OSC packets: osc.lv2/writer.h, which serialises messages and bundles    *)
(* into a buffer of fixed size, and osc.lv2/reader.h, through which        *)
(* _handle_osc_packet of monobusd.c finds the messages in it again.  On    *)
(* its way a packet may be cut: recvfrom drops what a ring has no room for.*)
(*                                                                         *)
(* Everything in OSC is a multiple of four bytes, so that memory is a      *)
(* sequence of words.  A word says what has been written there; a string   *)
(* or value that takes several is held by the first of them.               *)
(***************************************************************************)
EXTENDS Integers, Sequences, SequencesExt

CONSTANTS
  Size,       \* words of the writer's buffer
  MinRoom,    \* LV2_OSC_STREAM_REQBUF: no packet is cut shorter
  Messages,   \* what callers write: a path and arguments
  Tags,       \* time tags of bundles
  Immediate,  \* LV2_OSC_IMMEDIATE
  MaxDepth,   \* bound: bundles in each other
  MaxTold     \* bound: messages in a packet

(***************************************************************************)
(* A path is its text, the words it takes, and whether it starts with a    *)
(* slash, which the writer does not ask for.  Types of arguments that      *)
(* behave alike are one: "i" stands for all of four bytes, "h" of eight,   *)
(* "s" for strings and symbols, "b" is a blob, "T" stands for all that     *)
(* have no value.                                                          *)
(***************************************************************************)
IsPath(p) == p.words \in Nat \ {0} /\ p.rooted \in BOOLEAN
Type == {"i", "h", "s", "b", "T"}
IsArg(a) == /\ a.type \in Type
            /\ a.words \in Nat
            /\ a.type = "s" => a.words # 0
            /\ a.type = "T" \/ (a.type = "b" /\ a.words = 0) => a.val = 0

ASSUME SizeAssumption == Size \in Nat \ {0}
ASSUME MinRoomAssumption == MinRoom \in Nat \ {0}
ASSUME MessagesAssumption ==
  \A m \in Messages :
    /\ IsPath(m.path)
    /\ m.args \in Seq({ m.args[i] : i \in DOMAIN m.args })
    /\ \A i \in DOMAIN m.args : IsArg(m.args[i])

VARIABLES
  phase,   \* "write", "failed", "read", "done", "fault"
  mem,     \* the buffer
  ptr,     \* writer.ptr
  open,    \* the writer's frames, from the outermost on
  msg,     \* the message being written, and how much of it is
  told,    \* history: messages written, each with the tag of its bundle
  len,     \* words of the packet that have arrived
  call,    \* the packet _handle_osc_packet is called with
  stack,   \* the bundles being read: reader and item of each call
  arg,     \* the message being read: reader and argument
  heard    \* what has been read

vars == << phase, mem, ptr, open, msg, told, len, call, stack, arg, heard >>
writer == << mem, ptr, open, msg, told >>
reader == << len, call, stack, arg, heard >>

Word(kind, val) == [kind |-> kind, val |-> val]
Stale == Word("stale", 0)
More(n) == [i \in 1 .. n |-> Word("more", 0)]

NoMsg == [path |-> [text |-> "", words |-> 1, rooted |-> FALSE], args |-> << >>,
          step |-> 0]
NoCall == [tag |-> Immediate, at |-> 0, len |-> 0]
NoArg == [tag |-> Immediate, path |-> NoMsg.path, types |-> << >>, vals |-> << >>,
          ptr |-> 0, end |-> 0]

Init ==
  /\ phase = "write"
  /\ mem = [i \in 0 .. Size - 1 |-> Stale] /\ ptr = 0
  /\ open = << >> /\ msg = NoMsg /\ told = << >>
  /\ len = 0 /\ call = NoCall /\ stack = << >> /\ arg = NoArg /\ heard = << >>

-----------------------------------------------------------------------------
(***************************************************************************)
(* The writer.                                                             *)
(***************************************************************************)
FormatWords(n) == (n + 5) \div 4

\* lv2_osc_writer_add_string, _add_format and the _add_ functions of each type:
\* the words they append.
String(text, words) ==
  << Word("string", [text |-> text, words |-> words]) >> \o More(words - 1)
Format(types) == << Word("format", types) >> \o More(FormatWords(Len(types)) - 1)
Value(a) ==
  CASE a.type = "i" -> << Word("data", a.val) >>
    [] a.type = "h" -> << Word("data", a.val) >> \o More(1)
    [] a.type = "s" -> String(a.val, a.words)
    [] a.type = "b" -> << Word("len", a.words) >> \o
                       [i \in 1 .. a.words |-> Word("data", a.val)]
    [] a.type = "T" -> << >>

Values(m) == [i \in 1 .. Len(m.args) |-> m.args[i].val]
Types(m) == [i \in 1 .. Len(m.args) |-> m.args[i].type]

\* What comes next of the message being written.
Piece == IF msg.step = 1 THEN Format(Types(msg)) ELSE Value(msg.args[msg.step - 1])

\* ~lv2_osc_writer_overflow: the last word of the buffer is never used.
\* Variant: it is, and ptr may reach the end.
FitsToTheEnd(n) == ptr + n <= Size
Fits(n) == ptr + n < Size

Put(words) ==
  /\ mem' = [i \in 0 .. Size - 1 |->
               IF i \in ptr .. ptr + Len(words) - 1 THEN words[i - ptr + 1]
               ELSE mem[i]]
  /\ ptr' = ptr + Len(words)

Top == open[Len(open)]
\* A packet, or an item of a bundle, has to be begun: with a message or a bundle.
Vacant == /\ phase = "write" /\ msg.step = 0
          /\ IF open = << >> THEN ptr = 0
             ELSE Top.kind = "item" /\ ptr = Top.ref + 1

\* The tag of the innermost bundle.
TagNow == IF Len(open) < 2 THEN Immediate ELSE open[Len(open) - 1].tag

\* lv2_osc_writer_message_varlist: path, format and arguments.
AddPath(m) ==
  /\ Vacant /\ Len(told) < MaxTold
  /\ Fits(m.path.words) /\ Put(String(m.path, m.path.words))
  /\ msg' = [path |-> m.path, args |-> m.args, step |-> 1]
  /\ UNCHANGED << phase, open, told, reader >>

AddPiece ==
  /\ phase = "write" /\ msg.step \in 1 .. Len(msg.args) + 1
  /\ Fits(Len(Piece)) /\ Put(Piece)
  /\ msg' = [msg EXCEPT !.step = @ + 1]
  /\ UNCHANGED << phase, open, told, reader >>

MessageWritten ==
  /\ phase = "write" /\ msg.step = Len(msg.args) + 2
  /\ told' = IF msg.path.rooted
             THEN Append(told, [tag |-> TagNow, path |-> msg.path, args |-> Values(msg)])
             ELSE told
  /\ msg' = NoMsg
  /\ UNCHANGED << phase, mem, ptr, open, reader >>

PushBundle(t) ==
  /\ Vacant /\ Len(open) < 2 * MaxDepth
  /\ Fits(4)
  /\ Put(<< Word("#bundle", 0), Word("more", 0), Word("tag", t), Word("more", 0) >>)
  /\ open' = Append(open, [kind |-> "bundle", ref |-> ptr, tag |-> t])
  /\ UNCHANGED << phase, msg, told, reader >>

PushItem ==
  /\ phase = "write" /\ msg.step = 0
  /\ open # << >> /\ Top.kind = "bundle"
  /\ Fits(1)
  /\ ptr' = ptr + 1
  /\ open' = Append(open, [kind |-> "item", ref |-> ptr, tag |-> Immediate])
  /\ UNCHANGED << phase, mem, msg, told, reader >>

Close(kind) == /\ phase = "write" /\ msg.step = 0
               /\ open # << >> /\ Top.kind = kind
               /\ open' = Front(open)

\* What pop finds between the frame and ptr; what is empty is taken back, and an
\* item that is not gets its size.  Variant: its own word is counted.
ItemSizeWithHeader == ptr - Top.ref
ItemSize == ptr - Top.ref - 1
BundleSize == ptr - Top.ref - 4

PopItem ==
  /\ Close("item")
  /\ IF ItemSize <= 0
     THEN ptr' = Top.ref /\ UNCHANGED mem
     ELSE mem' = [mem EXCEPT ![Top.ref] = Word("size", ItemSize)] /\ UNCHANGED ptr
  /\ UNCHANGED << phase, msg, told, reader >>

PopBundle ==
  /\ Close("bundle")
  /\ ptr' = IF BundleSize <= 0 THEN Top.ref ELSE ptr
  /\ UNCHANGED << phase, mem, msg, told, reader >>

\* A call has returned false, or the caller has nothing to write as the next
\* message or item: lv2_osc_writer_packet, and monobusc, give up.
GiveUp ==
  /\ phase = "write"
  /\ msg.step \in 1 .. Len(msg.args) + 1 => ~Fits(Len(Piece))
  /\ msg.step # Len(msg.args) + 2
  /\ phase' = "failed"
  /\ UNCHANGED << writer, reader >>

\* lv2_osc_writer_finalize, and the way to the daemon.
Arrive(n) ==
  /\ phase = "write" /\ msg.step = 0 /\ open = << >> /\ ptr > 0
  /\ n = ptr \/ (MinRoom <= n /\ n < ptr)
  /\ phase' = "read" /\ len' = n
  /\ call' = [tag |-> Immediate, at |-> 0, len |-> n]
  /\ UNCHANGED << writer, stack, arg, heard >>

-----------------------------------------------------------------------------
(***************************************************************************)
(* The reader, as _handle_osc_packet uses it: a reader of its own for each *)
(* packet, that is, for the datagram and for each item.                    *)
(***************************************************************************)
\* lv2_osc_reader_overflow
Over(at, n, end) == at + n > end

\* What a word is read as: the width of a string by its end, a number.
StringAt(at) == IF mem[at].kind = "string" THEN mem[at].val
                ELSE [text |-> NoMsg.path, words |-> 1]
NumberAt(at) == IF mem[at].kind \in {"size", "len"} THEN mem[at].val ELSE 0

\* lv2_osc_reader_item_raw: an item whose size word and body are there.
\* Variant: whatever its size.
HasItemAnySize(at, end) == ~Over(at, 1, end)
HasItem(at, end) == ~Over(at, 1, end) /\ ~Over(at + 1, NumberAt(at), end)

Bundle(at, end, tag) == [ptr |-> at + 1, end |-> end, tag |-> tag, size |-> NumberAt(at)]
\* The packet in it, with the tag of this bundle.  Variant: the tag is lost.
ItemUntagged(b) == [tag |-> Immediate, at |-> b.ptr, len |-> b.size]
Item(b) == [tag |-> b.tag, at |-> b.ptr, len |-> b.size]

Reading == phase = "read" /\ call # NoCall
IsBundle == mem[call.at].kind = "#bundle"
IsMessage == mem[call.at].kind = "string" /\ StringAt(call.at).text.rooted

\* OSC_READER_BUNDLE_BEGIN: down into the first item, or back if there is none.
OpenBundle ==
  /\ Reading /\ IsBundle
  /\ LET end == call.at + call.len
         b == Bundle(call.at + 4, end, mem[call.at + 2].val)
     IN  IF ~Over(call.at, 4, end) /\ HasItem(call.at + 4, end)
         THEN stack' = Append(stack, b) /\ call' = Item(b)
         ELSE call' = NoCall /\ UNCHANGED stack
  /\ UNCHANGED << phase, writer, len, arg, heard >>

\* Neither a bundle nor a message.
Ignore ==
  /\ Reading /\ ~IsBundle /\ ~IsMessage
  /\ call' = NoCall
  /\ UNCHANGED << phase, writer, len, stack, arg, heard >>

\* lv2_osc_reader_arg_begin, but for the first argument.  If path or format are
\* not there it returns NULL, which lv2_osc_reader_match dereferences.
OpenMessage ==
  /\ Reading /\ IsMessage
  /\ LET end == call.at + call.len
         path == StringAt(call.at)
         fmt == call.at + path.words
     IN  IF \/ Over(call.at, path.words, end)
            \/ Over(fmt, 1, end) \/ mem[fmt].kind # "format"
            \/ Over(fmt, FormatWords(Len(mem[fmt].val)), end)
         THEN phase' = "fault" /\ UNCHANGED arg
         ELSE /\ arg' = [tag |-> call.tag, path |-> path.text,
                         types |-> mem[fmt].val, vals |-> << >>,
                         ptr |-> fmt + FormatWords(Len(mem[fmt].val)), end |-> end]
              /\ UNCHANGED phase
  /\ call' = NoCall
  /\ UNCHANGED << writer, len, stack, heard >>

\* What lv2_osc_reader_arg_raw takes for an argument, and what it finds there.  A
\* string that is cut is longer than what there is of it, whatever is behind.
Width(type) ==
  CASE type = "i" -> 1
    [] type = "h" -> 2
    [] type = "T" -> 0
    [] type = "s" -> StringAt(arg.ptr).words
    [] type = "b" -> 1 + NumberAt(arg.ptr)
Found(type) ==
  CASE type = "T" \/ (type = "b" /\ NumberAt(arg.ptr) = 0) -> 0
    [] type = "b" /\ NumberAt(arg.ptr) # 0 -> mem[arg.ptr + 1].val
    [] type = "s" -> StringAt(arg.ptr).text
    [] OTHER -> mem[arg.ptr].val

\* lv2_osc_reader_arg_raw, in arg_begin or arg_next.  If it returns NULL,
\* _priority calls lv2_osc_reader_arg_is_end with it.
ReadArg ==
  /\ phase = "read" /\ arg # NoArg
  /\ Len(arg.vals) < Len(arg.types)
  /\ LET type == arg.types[Len(arg.vals) + 1]
     IN  IF Over(arg.ptr, Width(type), arg.end)
         THEN phase' = "fault" /\ UNCHANGED arg
         ELSE /\ arg' = [arg EXCEPT !.ptr = @ + Width(type),
                                    !.vals = Append(@, Found(type))]
              /\ UNCHANGED phase
  /\ UNCHANGED << writer, len, call, stack, heard >>

\* lv2_osc_reader_arg_is_end
MessageRead ==
  /\ phase = "read" /\ arg # NoArg
  /\ Len(arg.vals) = Len(arg.types)
  /\ heard' = Append(heard, [tag |-> arg.tag, path |-> arg.path, args |-> arg.vals])
  /\ arg' = NoArg
  /\ UNCHANGED << phase, writer, len, call, stack >>

\* The call has returned into the loop of OSC_READER_BUNDLE_FOREACH.
NextItem ==
  /\ phase = "read" /\ call = NoCall /\ arg = NoArg /\ stack # << >>
  /\ LET b == stack[Len(stack)]
         n == Bundle(b.ptr + b.size, b.end, b.tag)
     IN  IF HasItem(b.ptr + b.size, b.end)
         THEN stack' = Append(Front(stack), n) /\ call' = Item(n)
         ELSE stack' = Front(stack) /\ UNCHANGED call
  /\ UNCHANGED << phase, writer, len, arg, heard >>

\* The call for the datagram itself has returned.
Handled ==
  /\ phase = "read" /\ call = NoCall /\ arg = NoArg /\ stack = << >>
  /\ phase' = "done"
  /\ UNCHANGED << writer, reader >>

Reader == \/ OpenBundle \/ Ignore \/ OpenMessage \/ ReadArg \/ MessageRead
          \/ NextItem \/ Handled

Writer == \/ \E m \in Messages : AddPath(m)
          \/ AddPiece \/ MessageWritten
          \/ \E t \in Tags : PushBundle(t)
          \/ PushItem \/ PopItem \/ PopBundle \/ GiveUp

\* Nothing is left to do.  The reader stops nowhere else.
Quiet == phase \in {"failed", "done", "fault"} /\ UNCHANGED vars

Next == Writer \/ Reader \/ Quiet \/ \E n \in 1 .. Size : Arrive(n)

Spec == Init /\ [][Next]_vars

-----------------------------------------------------------------------------
(***************************************************************************)
(* Properties.                                                             *)
(***************************************************************************)
WordOK(w) ==
  /\ w.kind \in {"stale", "more", "#bundle", "tag", "size", "string", "format",
                 "len", "data"}
  /\ w.kind \in {"size", "len"} => w.val \in Nat
  /\ w.kind = "string" => w.val.words \in Nat \ {0}
  /\ w.kind = "format" => w.val \in Seq(Type)

Paths == { m.path : m \in Messages } \cup {NoMsg.path}
Args == { m.args : m \in Messages } \cup {NoMsg.args}
Frame == [kind : {"bundle", "item"}, ref : 0 .. Size - 1, tag : Tags \cup {Immediate}]

TypeOK ==
  /\ phase \in {"write", "failed", "read", "done", "fault"}
  /\ DOMAIN mem = 0 .. Size - 1 /\ \A i \in 0 .. Size - 1 : WordOK(mem[i])
  /\ ptr \in 0 .. Size - 1 /\ len \in 0 .. Size - 1
  /\ open \in Seq(Frame)
  /\ msg \in [path : Paths, args : Args, step : Nat]
  /\ call.at \in Nat /\ call.len \in Nat
  /\ arg.ptr \in Nat /\ arg.end \in Nat /\ DOMAIN arg = DOMAIN NoArg
  /\ arg.types \in Seq(Type) /\ Len(arg.vals) \in Nat
  /\ stack \in Seq({ stack[i] : i \in DOMAIN stack })
  /\ \A i \in DOMAIN stack : stack[i].ptr \in Nat /\ stack[i].size \in Nat
                            /\ stack[i].end \in Nat

\* Every message of a packet that arrives as it was written is found, in order,
\* with its path, its arguments and the time tag of the innermost bundle it is
\* in: whatever has been taken back while it was written.
WholeHeard ==
  phase \in {"done", "fault"} /\ len = ptr => phase = "done" /\ heard = told

\* What is found in a packet that was cut are its first messages; the reader
\* only runs into the cut of a single message.  In a bundle it leaves an item
\* alone that is not entirely there.
CutHeardInPart ==
  /\ IsPrefix(heard, told)
  /\ phase = "fault" => mem[0].kind = "string"

\* No reader is ever behind the end of its packet, and no packet reaches beyond
\* that of the call that made it: no argument is taken from behind what has arrived.
ReadersNest ==
  phase = "read" =>
    /\ call # NoCall =>
         call.at + call.len <=
           IF stack = << >> THEN len
           ELSE stack[Len(stack)].ptr + stack[Len(stack)].size
    /\ arg.ptr <= arg.end /\ arg.end <= len
    /\ \A i \in DOMAIN stack :
         /\ stack[i].ptr + stack[i].size <= stack[i].end
         /\ stack[i].end <= IF i = 1 THEN len
                            ELSE stack[i - 1].ptr + stack[i - 1].size

-----------------------------------------------------------------------------
\* What they rest on: a packet is read when it is written, and by new readers.
IInv == /\ TypeOK /\ ReadersNest
        /\ phase = "write" => stack = << >> /\ arg = NoArg
        /\ \A i \in DOMAIN stack : stack[i].end <= len
=============================================================================
