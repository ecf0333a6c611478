---------------------------- MODULE MCMaintenance ----------------------------
(* Instances of Maintenance for TLC: a tree with one file, and a tree with    *)
(* that tree as a directory and another file beside it.                       *)
EXTENDS Maintenance, TLC

CONSTANTS small, large, f, g, main, sub, p1, p2

MCEntries == small :> {f} @@ large :> {small, g}
Symmetry == Permutations(Readers)
==============================================================================
