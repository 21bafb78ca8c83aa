------------------------------- MODULE MCHeap -------------------------------
(* The heap with clients that ask for none, one, two and three blocks.      *)
EXTENDS Heap
=============================================================================
