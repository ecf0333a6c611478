-------------------------------- MODULE Pack --------------------------------
(***************************************************************************)
(* Enumerate of pkg/transfer: the commits, trees and blobs of a pack.      *)
(***************************************************************************)
EXTENDS CommitGraph

CONSTANTS Tree, Blob,   \* the tree and blob objects
          Entries       \* Entries[t]: the subtrees and blobs tree t lists

ASSUME EntriesAssumption == Entries \in [Tree -> SUBSET (Tree \cup Blob)]

\* A tree is named by the hash of what it lists, so it is made after every tree it lists and
\* no tree is below itself.
ASSUME TreesAssumption == \A T \in SUBSET Tree : T # {} => \E t \in T : Entries[t] \cap T = {}

\* Mutant: a tree is pruned when anything it lists is excluded.
TreeClosurePruned(t, exclude) ==
    LET down[u \in Tree] ==
            IF Entries[u] \cap exclude # {} THEN {}
            ELSE {u} \cup ((Entries[u] \cap Blob) \ exclude)
                     \cup UNION {down[s] : s \in Entries[u] \cap Tree}
    IN  down[t]

\* addTreeClosureExcluding, with the trees of every readable commit readable.  The set it
\* adds to only saves it from walking a tree twice.
TreeClosure(t, exclude) ==
    LET down[u \in Tree] ==
            IF u \in exclude THEN {}
            ELSE {u} \cup ((Entries[u] \cap Blob) \ exclude)
                     \cup UNION {down[s] : s \in Entries[u] \cap Tree}
    IN  down[t]

\* Step 3: the commits, trees and blobs of the pack; rootTree[c] is the tree of commit c.
Enumerate(G, rootTree, S, wants, haves) ==
    LET send == SendCommits(G, S, wants, haves).commits
        haveObjs == UNION {TreeClosure(rootTree[c], {}) : c \in Boundary(G, S, haves).tips}
    IN  [commits |-> send,
         objects |-> UNION {TreeClosure(rootTree[c], haveObjs) : c \in send}]
==============================================================================
