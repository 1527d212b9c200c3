--------------------------- MODULE MCOperationStore ---------------------------
(***************************************************************************)
(* Small instances of OperationStore: two requests, served by one process  *)
(* each or by one process together.                                        *)
(***************************************************************************)
EXTENDS OperationStore, TLC

CONSTANTS w1, w2, p1, p2, small

(* Two processes share the store directories.                              *)
OnePerProcess == (w1 :> p1) @@ (w2 :> p2)
(* Two requests of one process share its model slot.                       *)
BothInOne == (w1 :> p1) @@ (w2 :> p1)

OneSize == (small :> 1)

Symmetry == Permutations(Ops) \cup Permutations(Owners) \cup Permutations(Inputs)
=============================================================================
