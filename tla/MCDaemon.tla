------------------------------ MODULE MCDaemon ------------------------------
(***************************************************************************)
(* Two signals: one may be in its handler on the beat thread when a second *)
(* session has begun, or come while the first is still being heeded.       *)
(***************************************************************************)
EXTENDS Daemon

TwoSignals == 2
=============================================================================
