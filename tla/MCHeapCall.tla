----------------------------- MODULE MCHeapCall -----------------------------
(* Every well-formed table of a small heap, every call on it.              *)
EXTENDS HeapCall
=============================================================================
