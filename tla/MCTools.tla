------------------------------ MODULE MCTools ------------------------------
(* Instances of Tools. *)
EXTENDS Tools

SomeAddrs == 1 .. N + 1
=============================================================================
