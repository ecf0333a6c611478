------------------------------- MODULE History -------------------------------
(***************************************************************************)
(* The commit graphs VARA commands can make, and what the walks of         *)
(* CommitGraph and Pack must find in each of them.  A commit extends any   *)
(* commit (switch, then commit), starts an unrelated root, or merges two   *)
(* commits when the merge engine does not fast-forward.                    *)
(***************************************************************************)
EXTENDS Pack

CONSTANT MaxCommit   \* bound: commits made in a behaviour

ASSUME MaxCommitAssumption == MaxCommit \in Nat

VARIABLES parents,   \* parents[c]: Commit.Parents
          rootTree   \* rootTree[c]: Commit.TreeHash

vars == <<parents, rootTree>>

Commits == 1..Len(parents)

\* BuildCommit: the commit object is written.
BuildCommit(ps, t) ==
    /\ Len(parents) < MaxCommit
    /\ parents' = Append(parents, ps)
    /\ rootTree' = Append(rootTree, t)

\* RunCommit on an unborn branch.
CommitRoot(t) == BuildCommit(<< >>, t)

\* RunCommit with HEAD at p: an unchanged tree is refused.
CommitOn(p, t) == t # rootTree[p] /\ BuildCommit(<<p>>, t)

\* Merge: any base but ours ends in a two-parent commit, an up-to-date one too.
MergeCommit(our, their, t) ==
    /\ MergeBase(parents, Commits, our, their) \notin {our, NoCommit}
    /\ BuildCommit(<<our, their>>, t)

Init == parents = << >> /\ rootTree = << >>

Next ==
    \E t \in Tree :
        \/ CommitRoot(t)
        \/ \E p \in Commits : CommitOn(p, t)
        \/ \E our, their \in Commits : MergeCommit(our, their, t)

Spec == Init /\ [][Next]_vars

----------------------------------------------------------------------------
(* Properties                                                              *)

\* The stores a walk may meet: complete, or with one commit missing.
Stores == {Commits} \cup {Commits \ {c} : c \in Commits}

CommonAncestors(a, b) == Reach(parents, a) \cap Reach(parents, b)

\* MergeBase never invents a base and never misses one: its answer is an ancestor of both
\* commits even over a damaged store, and over a complete store it fails only for
\* unrelated histories.  ReceivePack's fast-forward check rests on the first half.
MergeBaseSound ==
    \A a, b \in Commits :
        /\ \A S \in Stores : MergeBase(parents, S, a, b) \in CommonAncestors(a, b) \cup {NoCommit}
        /\ CommonAncestors(a, b) # {} => MergeBase(parents, Commits, a, b) # NoCommit

\* Everything a checkout of any commit of C needs.
Closure(C) == UNION {TreeClosure(rootTree[c], {}) : c \in C}

HaveLists == {<< >>} \cup {<<a>> : a \in Commits} \cup {<<a, b>> : a, b \in Commits}

\* A receiver that has the closure of its haves has the closure of the want after it
\* ingests the pack, whatever commits the sender cannot read among the haves' history.
PackComplete ==
    \A w \in Commits : \A haves \in HaveLists : \A S \in Stores :
        LET had == UNION {Reach(parents, haves[i]) : i \in DOMAIN haves}
            pack == Enumerate(parents, rootTree, S, <<w>>, haves)
        IN  ~SendCommits(parents, S, <<w>>, haves).failed =>
                /\ Reach(parents, w) \subseteq pack.commits \cup had
                /\ Closure(Reach(parents, w)) \subseteq pack.objects \cup Closure(had)

\* Over a complete store the pack holds no commit the receiver has.
PackMinimal ==
    \A w \in Commits : \A haves \in HaveLists :
        SendCommits(parents, Commits, <<w>>, haves).commits \cap
            UNION {Reach(parents, haves[i]) : i \in DOMAIN haves} = {}

\* graph.go:80-88: MergeBase returns "the one with the highest Generation Number".
MergeBaseBest ==
    \A a, b \in Commits : \A c \in CommonAncestors(a, b) :
        Generation(parents, c) <= Generation(parents, MergeBase(parents, Commits, a, b))
==============================================================================
