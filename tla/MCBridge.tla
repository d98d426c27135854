------------------------------ MODULE MCBridge ------------------------------
(***************************************************************************)
(* Two priorities, with messages for each and one that clears; as many     *)
(* datagrams as fill the ring and the socket.                              *)
(***************************************************************************)
EXTENDS Bridge

Messages == { [prio |-> 0, ink |-> "on"],
              [prio |-> 1, ink |-> "off"], [prio |-> 1, ink |-> "clear"] }
=============================================================================
