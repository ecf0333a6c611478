----------------------------- MODULE MCAccounts -----------------------------
(* Instances of Accounts for TLC. *)
EXTENDS Accounts, TLC

CONSTANTS n, m, lower, s, t, r1, r2

\* The names differ in case only.
MCFold == [u \in User |-> lower]

\* The account waits after the first failure, the address after the second.
MCFree == [k \in Key |-> IF k = address THEN 2 ELSE 1]

Symmetry == Permutations(User) \cup Permutations(Request) \cup Permutations(Password)
=============================================================================
