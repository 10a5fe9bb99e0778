------------------------------ MODULE MCNatsBus ------------------------------
(* A small instance of NatsBus for TLC. *)
EXTENDS NatsBus, TLC
=============================================================================
