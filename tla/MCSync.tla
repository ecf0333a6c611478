------------------------------- MODULE MCSync -------------------------------
(* Instances of Sync for TLC. *)
EXTENDS Sync, TLC

CONSTANTS c1, c2, h1, h2

Symmetry == {f @@ g : f \in Permutations(Client), g \in Permutations(Proc)}
==============================================================================
