----------------------------- MODULE MCMetaRing -----------------------------
(* Instances of MetaRing: who reads which file; every row is distinct.   *)
EXTENDS MetaRing, TLC

CONSTANTS t1, t2, f1, f2

OwnFile == t1 :> f1 @@ t2 :> f2
NthRow == [n \in 0 .. MaxRows |-> {n}]   \* rows carry distinct numbers
OneFile == [t \in Threads |-> f1]
=============================================================================
