----------------------------- MODULE MCTinyCV -------------------------------
(* A 3 x 2 frame, regions that start before, inside, at and beyond its     *)
(* edges, and images with a border between the two levels.                 *)
EXTENDS TinyCV

EdgeRois == [left : {-1, 0, 2, 3, 4}, top : {-1, 1, 2, 3},
             width : {-1, 0, 1, 2, 5}, height : {0, 1, 4}]

Gradients == {[i \in Rows |-> [k \in Cols |-> (i + k) % 3]],
              [i \in Rows |-> [k \in Cols |-> (i * k + 1) % 3]]}

Stale == {[i \in Rows |-> [k \in Cols |-> 7]]}
=============================================================================
