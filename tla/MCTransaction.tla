---------------------------- MODULE MCTransaction ----------------------------
(* Instances of Transaction for TLC. *)
EXTENDS Transaction, TLC

CONSTANTS p1, p2

Symmetry == Permutations(Proc)
==============================================================================
