------------------------------ MODULE MCHistory ------------------------------
(* Instances of History for TLC: two root trees that share a subtree and    *)
(* one that is that subtree.                                                *)
EXTENDS History

CONSTANTS dir, rootA, rootB, f, g

MCEntries == [t \in Tree |->
                 IF t = dir THEN {f} ELSE IF t = rootA THEN {dir} ELSE {dir, g}]
==============================================================================
