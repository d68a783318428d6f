------------------------------ MODULE MCSnPool ------------------------------
(* TLC instances of SnPool. *)
EXTENDS SnPool, TLC

\* Neither the tasks nor the nodes are told apart by any definition; used only
\* where no liveness is checked.
Symmetry == Permutations(Tasks) \cup Permutations(Nodes)
=============================================================================
