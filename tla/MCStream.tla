------------------------------ MODULE MCStream ------------------------------
(***************************************************************************)
(* Two clients with two messages in all, each with a byte to escape at the *)
(* front; a buffer that holds the longest frame and one byte more, as that *)
(* of the code does (0x4000 bytes, and frames from a ring of 0x2000); one  *)
(* fault.  A prefixed body is sure of one byte, and may get two.           *)
(***************************************************************************)
EXTENDS Stream

Digits == << "one", "two", "three", "four", "five", "six", "seven", "eight" >>
AllTransports == {"slip", "prefix", "serial"}
OnlySlip == {"slip"}
Messages == { << END, "c" >>, << ESC >> }
Letters == { << "a", "b" >>, << "c" >> }
=============================================================================
