-------------------------------- MODULE MCM2M -------------------------------
(* Instances of M2M. *)
EXTENDS M2M, TLC

CONSTANTS c1, c2

OneCtx == {c1}
TwoCtxs == {c1, c2}
=============================================================================
