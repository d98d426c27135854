------------------------------- MODULE Mirror --------------------------------
(***************************************************************************)
(* What the two programs promise together to those who send messages: what *)
(* has arrived is handled in the order of arrival, and the display, unless *)
(* it is dark, shows what the messages handled so far add up to.           *)
(***************************************************************************)
EXTENDS Integers, Sequences

CONSTANT Message   \* records of a priority and of the ink it gets

VARIABLES
  pending,   \* messages that have arrived, oldest first
  handled,   \* messages that are part of the picture, oldest first
  shown      \* whether the display is lit

\* The ink of a priority is that of the last message for it; the topmost that
\* is not clear is seen.
LastOf(s, i) == \A j \in i + 1 .. Len(s) : s[j].prio # s[i].prio
Inked(s) == {i \in DOMAIN s : LastOf(s, i) /\ s[i].ink # "clear"}
Look(s) ==
  \E i \in Inked(s) : /\ \A j \in Inked(s) : s[j].prio <= s[i].prio
                      /\ s[i].ink = "on"

Init == pending = << >> /\ handled = << >> /\ shown = FALSE

Arrive ==
  /\ \E m \in Message : pending' = Append(pending, m)
  /\ UNCHANGED << handled, shown >>

Handle ==
  /\ pending # << >>
  /\ handled' = Append(handled, Head(pending))
  /\ pending' = Tail(pending)
  /\ UNCHANGED shown

Show == shown' = Look(handled) /\ UNCHANGED << pending, handled >>

\* The end of a session: the display gets dark, and what was not handled yet
\* is lost.
Darken == shown' = FALSE /\ UNCHANGED << pending, handled >>
Forget == pending' = << >> /\ UNCHANGED << handled, shown >>

Next == Arrive \/ Handle \/ Show \/ Darken \/ Forget

Spec == Init /\ [][Next]_<< pending, handled, shown >>
=============================================================================
