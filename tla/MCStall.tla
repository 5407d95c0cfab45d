------------------------------ MODULE MCStall -------------------------------
(* Two clients, and room for one message in each direction. *)
EXTENDS Stall
=============================================================================
