--------------------------- MODULE MCModelBudget -----------------------------
(***************************************************************************)
(* Small instances of ModelBudget for TLC.                                 *)
(***************************************************************************)
EXTENDS ModelBudget, TLC

CONSTANTS p1, p2, o1, o2, i1, i2, i3, i4

BothProcs == {p1, p2}
BothOwners == {o1, o2}
FourIds == {i1, i2, i3, i4}
Symmetry == Permutations(BothProcs) \cup Permutations(BothOwners) \cup Permutations(FourIds)
=============================================================================
