------------------------------ MODULE MCPQueue ------------------------------
(* Five lines, so that heaps have three levels and a node with two children *)
(* below the root; lines are interchangeable.                               *)
EXTENDS PQueue, TLC

Symmetry == Permutations(Elem)
=============================================================================
