----------------------------- MODULE MCTaskHeap -----------------------------
(* TLC instances of TaskHeap: four frames of 11 bytes in all.              *)
EXTENDS TaskHeap

Tasks == 1 .. 4

Sizes == <<2, 3, 2, 4>>
=============================================================================
