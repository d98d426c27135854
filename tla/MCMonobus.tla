----------------------------- MODULE MCMonobus ------------------------------
(***************************************************************************)
(* A display of two rows of two bytes.  The pictures have no symmetry, and *)
(* bytes that equal FRAMING and ESCAPE, on either side of a row and as the *)
(* checksum.                                                               *)
(***************************************************************************)
EXTENDS Monobus

Special ==
  {<< x, 0 >> : x \in 1 .. 6} \union {<< x, 1 >> : x \in {2, 8} \union 10 .. 14}
ChecksumFraming == {<< 11, 0 >>, << 13, 0 >>, << 15, 0 >>}
Drawn == {Special, ChecksumFraming}

\* The real bitmap in the worst case, every byte escaped and the checksum as
\* well, stays within dst [512] of _beat, which monobus_message takes on trust.
ASSUME WorstCaseFits ==
  Len(Message(LedOutdat, [i \in 1 .. 226 |-> ESCAPE])) + 1 <= 512
=============================================================================
