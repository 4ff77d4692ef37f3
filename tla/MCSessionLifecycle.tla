------------------------- MODULE MCSessionLifecycle -------------------------
(* Two owner requests and a charge on one pass funded by one vault. *)
EXTENDS SessionLifecycle
CONSTANTS p1
MCPassOf == [k \in Key |-> p1]
MCAmount == [k \in Key |-> 1]
=============================================================================
