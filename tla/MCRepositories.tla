--------------------------- MODULE MCRepositories ---------------------------
(* Instances of Repositories for TLC. *)
EXTENDS Repositories, TLC

CONSTANTS a, b, u, r1, r2

MCOwnerCaps ==
    {"read", "create-ref", "push", "force-push", "delete-ref", "delete-repo", "rename-repo", "admin"}

\* The operator leaves the owner with reading only.
MCEdits == {[s \in Subject |-> {"read"}]}

\* A push that moves one branch and starts another.
MCUpdates ==
    {<<[oldZero |-> FALSE, newZero |-> FALSE, force |-> FALSE],
       [oldZero |-> TRUE, newZero |-> FALSE, force |-> FALSE]>>}
Symmetry == Permutations(Name) \cup Permutations(Request)
=============================================================================
