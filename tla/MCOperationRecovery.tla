------------------------- MODULE MCOperationRecovery -------------------------
(***************************************************************************)
(* A small instance of OperationRecovery.                                  *)
(***************************************************************************)
EXTENDS OperationRecovery, TLC

CONSTANTS w1, w2, p1, p2, small, large

(* Two processes share the store directories.                              *)
OnePerProcess == (w1 :> p1) @@ (w2 :> p2)
TwoSizes == (small :> 1) @@ (large :> 3)

Symmetry == Permutations(Ops) \cup Permutations(Owners) \cup Permutations(Inputs)
=============================================================================
