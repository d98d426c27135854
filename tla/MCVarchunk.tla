----------------------------- MODULE MCVarchunk -----------------------------
(***************************************************************************)
(* Small rings for TLC.  Eight words hold two to four chunks of one or two *)
(* payload words, so that chunks end up at every offset, wrap with and     *)
(* without a gap, fill the ring and leave it empty at every position of    *)
(* its indices.                                                            *)
(***************************************************************************)
EXTENDS Varchunk

\* A short chunk that needs padding and a longer one that does not.
RingLens == {3, 16}

\* A request, and a length the maximum returned for it allows in an empty ring.
MaximumLens == {3, 60}
=============================================================================
