-------------------------------- MODULE MCOsc --------------------------------
(***************************************************************************)
(* Messages with arguments of every width, paths of one word and of two,   *)
(* one of them without a slash; two bundles in each other; buffers that    *)
(* are too small for some of what is written.                              *)
(***************************************************************************)
EXTENDS Osc

Path(text, words, rooted) == [text |-> text, words |-> words, rooted |-> rooted]
Arg(type, val, words) == [type |-> type, val |-> val, words |-> words]

Sent ==
  { [path |-> Path("/m/1", 2, TRUE),
     args |-> << Arg("i", 7, 1), Arg("b", 5, 2) >>],
    [path |-> Path("/a", 1, TRUE), args |-> << >>],
    [path |-> Path("/b", 1, TRUE),
     args |-> << Arg("T", 0, 0), Arg("s", "on", 1), Arg("h", 9, 2) >>],
    [path |-> Path("x", 1, FALSE), args |-> << Arg("b", 0, 0) >>] }
=============================================================================
