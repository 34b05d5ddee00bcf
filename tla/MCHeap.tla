------------------------------- MODULE MCHeap -------------------------------
(***************************************************************************)
(* Instances of Heap for TLC: pages of 16 words, a heap of six pages that  *)
(* shrinks to five and grows to twelve.                                    *)
(***************************************************************************)
EXTENDS Heap

=============================================================================
