------------------------------ MODULE Pattern ------------------------------
(***************************************************************************)
(* Path patterns: lv2_osc_pattern_match of osc.lv2/util.h, which rewrites  *)
(* an OSC pattern for the extended fnmatch of glibc, and fnmatch itself    *)
(* (external), as far as OSC patterns use it.  A pattern and the name of   *)
(* an entry of the tree are sequences of characters.                       *)
(***************************************************************************)
EXTENDS Integers, Sequences, FiniteSets
LOCAL INSTANCE SequencesExt
LOCAL INSTANCE FiniteSetsExt

\* lv2_osc_pattern_match: {x,y} becomes @(x|y); a pattern without braces stays
\* as it is.
Converted(from) ==
  IF ~Contains(from, "{") THEN from
  ELSE FlattenSeq([i \in DOMAIN from |->
         CASE from[i] = "{" -> << "@", "(" >>
           [] from[i] = "," -> << "|" >>
           [] from[i] = "}" -> << ")" >>
           [] OTHER -> << from[i] >>])

\* The first place behind i that holds the character c, or 0.
NextPlace(pattern, i, c) ==
  LET places == { k \in DOMAIN pattern : k > i /\ pattern[k] = c }
  IN  IF places = {} THEN 0 ELSE Min(places)

\* A bracket expression: characters, perhaps all others.  Ranges are left out.
InBrackets(expr, char) ==
  IF expr[1] = "!" THEN ~Contains(Tail(expr), char) ELSE Contains(expr, char)

\* fnmatch(pattern, name, FNM_NOESCAPE | FNM_EXTMATCH), groups not in each other:
\* does the pattern from i on match the name from j on.
Fnmatch(pattern, name) ==
  LET opens(i) == i > 1 /\ pattern[i] = "(" /\ pattern[i - 1] = "@"
      close(i) == NextPlace(pattern, i, ")")
      inside(i) == \E k \in 1 .. i - 1 : opens(k) /\ close(k) >= i
      starts(i) == {i + 2} \cup { k + 1 : k \in { n \in i + 2 .. close(i) :
                                                    pattern[n] = "|" } }
      matches[i \in 1 .. Len(pattern) + 1, j \in 1 .. Len(name) + 1] ==
        LET more == j <= Len(name)
        IN  IF i > Len(pattern) THEN ~more
            ELSE CASE pattern[i] = "*" -> \/ matches[i + 1, j]
                                          \/ more /\ matches[i, j + 1]
                   [] pattern[i] = "?" -> more /\ matches[i + 1, j + 1]
                   [] pattern[i] = "[" /\ NextPlace(pattern, i, "]") # 0 ->
                        LET end == NextPlace(pattern, i, "]")
                        IN  /\ more
                            /\ InBrackets(SubSeq(pattern, i + 1, end - 1), name[j])
                            /\ matches[end + 1, j + 1]
                   [] i < Len(pattern) /\ opens(i + 1) /\ close(i) # 0 ->
                        \E k \in starts(i) : matches[k, j]
                   [] pattern[i] = "|" /\ inside(i) -> matches[close(i) + 1, j]
                   [] pattern[i] = ")" /\ inside(i) -> matches[i + 1, j]
                   [] OTHER -> more /\ pattern[i] = name[j] /\ matches[i + 1, j + 1]
  IN  matches[1, 1]

PatternMatch(from, name) == Fnmatch(Converted(from), name)

-----------------------------------------------------------------------------
(***************************************************************************)
(* The reference: a pattern of OSC stands for the patterns without braces  *)
(* that are got by choosing one of the alternatives of each pair.          *)
(***************************************************************************)
Alternatives(text) ==
  LET commas == { k \in DOMAIN text : text[k] = "," }
      from == {1} \cup { k + 1 : k \in commas }
      upto(k) == IF NextPlace(text, k - 1, ",") = 0 THEN Len(text)
                 ELSE NextPlace(text, k - 1, ",") - 1
  IN  { SubSeq(text, k, upto(k)) : k \in from }

Expanded(pattern) ==
  LET rest[i \in 1 .. Len(pattern) + 1] ==
        IF i > Len(pattern) THEN { << >> }
        ELSE IF pattern[i] = "{"
        THEN LET end == NextPlace(pattern, i, "}")
             IN  { c \o r : c \in Alternatives(SubSeq(pattern, i + 1, end - 1)),
                            r \in rest[end + 1] }
        ELSE { << pattern[i] >> \o r : r \in rest[i + 1] }
  IN  rest[1]

\* Braces come in pairs, not in each other, and commas between them.
WellFormed(pattern) ==
  LET upto(i, c) == Cardinality({ k \in 1 .. i : pattern[k] = c })
  IN  /\ \A i \in DOMAIN pattern :
           /\ upto(i, "{") - upto(i, "}") \in {0, 1}
           /\ pattern[i] = "," => upto(i, "{") > upto(i, "}")
      /\ upto(Len(pattern), "{") = upto(Len(pattern), "}")

\* Patterns match what OSC says they match: names without special characters.
MeansWhatOSCSays(patterns, names) ==
  \A p \in patterns : WellFormed(p) =>
    \A name \in names :
      PatternMatch(p, name) <=> \E e \in Expanded(p) : Fnmatch(e, name)
=============================================================================
