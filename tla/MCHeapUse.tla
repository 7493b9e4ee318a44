----------------------------- MODULE MCHeapUse -----------------------------
(* Small heaps for HeapUse: four pools, the smallest used, the third empty. *)
EXTENDS HeapUse, TLC

CONSTANTS c0, c1, h1, h2, h3, h4

MCPoolNumber == 0 :> 1 @@ 1 :> 2 @@ 2 :> 0 @@ 3 :> 1
MCBlockSize == 0 :> 1 @@ 1 :> 2 @@ 2 :> 3 @@ 3 :> 4

Handles == Permutations(Handle)
=============================================================================
