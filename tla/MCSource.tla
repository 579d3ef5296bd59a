------------------------------ MODULE MCSource ------------------------------
(* Instances of Source. *)
EXTENDS Source, TLC

CONSTANT c1

OneCtx == {c1}
=============================================================================
