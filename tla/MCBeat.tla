------------------------------- MODULE MCBeat -------------------------------
(***************************************************************************)
(* Two frames a second, the default of monobusd, in tenths of a second; a  *)
(* transmission waits a tenth, or not at all in simulate mode.             *)
(* Messages are late already, or for this second, the next one             *)
(* or the one after, and come in any order.                                *)
(***************************************************************************)
EXTENDS Beat

SomeDelays == {-1, 7, 12, 23}
=============================================================================
