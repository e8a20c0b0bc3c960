------------------------------ MODULE MCUserFS ------------------------------
(* A small instance of UserFS for TLC. *)
EXTENDS UserFS, TLC

CONSTANTS f1, f2, b1, b2, b3, b4, x

FlagChoices == {{"UFS_CREATE"}, {"UFS_READ_ONLY"}}
BufferChoices == {<<x>>, <<x, x, x>>}
AddressSymmetry ==
  Permutations({f1, f2}) \cup Permutations({b1, b2, b3, b4})

(* The last result decides no step but what a stale ufs_errno() keeps. *)
StructureView == <<store, table, call>>
=============================================================================
