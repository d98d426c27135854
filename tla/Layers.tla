------------------------------- MODULE Layers -------------------------------
(***************************************************************************)
(* What the canvas of monobusd promises to its clients: one transparent    *)
(* layer per priority, drawn on and erased rectangle by rectangle without  *)
(* disturbing the others, of which the topmost opaque one is seen.         *)
(***************************************************************************)
EXTENDS Integers

CONSTANTS Width, Height, Prios

Columns == 0 .. Width - 1
Rows == 0 .. Height - 1
Pixel == Columns \X Rows
Prio == 0 .. Prios - 1

VARIABLE layer   \* what each priority holds: "clear", or ink that is on or off

Init == layer = [p \in Prio |-> [px \in Pixel |-> "clear"]]

\* A picture with these pixels on is drawn on one layer, opaque.
Draw ==
  \E p \in Prio, x0, x1 \in Columns, y0, y1 \in Rows :
    LET rect == (x0 .. x1) \X (y0 .. y1)
    IN  \E on \in SUBSET rect :
          layer' = [layer EXCEPT ![p] =
                      [px \in Pixel |-> IF px \notin rect THEN layer[p][px]
                                        ELSE IF px \in on THEN "on" ELSE "off"]]

\* A rectangle of one layer becomes transparent.
Erase ==
  \E p \in Prio, x0, x1 \in Columns, y0, y1 \in Rows :
    layer' = [layer EXCEPT ![p] =
                [px \in Pixel |-> IF px \notin (x0 .. x1) \X (y0 .. y1)
                                  THEN layer[p][px] ELSE "clear"]]

Next == Draw \/ Erase

Spec == Init /\ [][Next]_layer

\* The layers that hold ink at a pixel, and what is seen there.
Inked(px) == {p \in Prio : layer[p][px] # "clear"}
Lit(px) == \E p \in Inked(px) : /\ \A q \in Inked(px) : q <= p
                                /\ layer[p][px] = "on"
=============================================================================
