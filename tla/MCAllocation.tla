---------------------------- MODULE MCAllocation ----------------------------
(* Small instances of Allocation for TLC. *)
EXTENDS Allocation, TLC

\* Sellers among themselves and generators among themselves are alike.
TxSymmetry == Permutations(Seller) \cup Permutations(Generator)
=============================================================================
