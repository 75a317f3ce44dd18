----------------------------- MODULE MCClientNode -----------------------------
(* Instances of ClientNode for TLC. *)
EXTENDS ClientNode
=============================================================================
