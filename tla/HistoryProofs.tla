---------------------------- MODULE HistoryProofs ----------------------------
(***************************************************************************)
(* Proofs about History: over every commit graph the commands can make,    *)
(* MergeBase finds a common ancestor exactly when there is one, and a pack *)
(* is complete and minimal.                                                *)
(***************************************************************************)
EXTENDS History, CommitGraphProofs

----------------------------------------------------------------------------
(* Trees                                                                   *)

\* addTreeClosureExcluding collects what is below its tree outside the set it excludes.
LEMMA TreeClosureIs ==
    ASSUME NEW t \in Tree, NEW ex
    PROVE  TreeClosure(t, ex) = Below(Tree, Blob, Entries, ex, t)
<1>1. Grounded(Tree, Entries)
  BY TreesAssumption DEF Grounded
<1>2. TreeClosure(t, ex) = Descent(Tree, Blob, Entries, ex, t)
  BY DEF TreeClosure, Descent
<1> QED BY <1>1, <1>2, EntriesAssumption, DescentChosen

\* A tree's closure has what its trees list, and leaving out such a set misses nothing else.
LEMMA ClosureCompletes ==
    ASSUME NEW t \in Tree
    PROVE  /\ Fenced(Tree, Entries, {}, TreeClosure(t, {}))
           /\ \A ex : Fenced(Tree, Entries, {}, ex) => TreeClosure(t, {}) \subseteq TreeClosure(t, ex) \cup ex
<1>1. \A ex : TreeClosure(t, ex) = Below(Tree, Blob, Entries, ex, t)
  BY TreeClosureIs
<1>2. Fenced(Tree, Entries, {}, Below(Tree, Blob, Entries, {}, t))
  BY EntriesAssumption, BelowFenced
<1>3. \A ex : Fenced(Tree, Entries, {}, ex) =>
          Below(Tree, Blob, Entries, {}, t) \subseteq Below(Tree, Blob, Entries, ex, t) \cup ex
  BY EntriesAssumption, DescentCompletes
<1> QED BY <1>1, <1>2, <1>3

\* Enumerate is complete down to the blobs, over any store: a receiver that has the trees of
\* everything its haves reach has those of everything a want reaches once it has the pack.
THEOREM PackCompletes ==
    ASSUME NEW G, IsGraph(G), NEW R \in [DOMAIN G -> Tree], NEW S \in SUBSET DOMAIN G,
           NEW wants \in Seq(0..Len(G)), NEW haves \in Seq(DOMAIN G),
           ~SendCommits(G, S, wants, haves).failed
    PROVE  \A j \in DOMAIN wants : \A c \in Reach(G, wants[j]) :
              TreeClosure(R[c], {}) \subseteq
                  Enumerate(G, R, S, wants, haves).objects
                      \cup UNION {TreeClosure(R[d], {}) : d \in Had(G, haves)}
<1> DEFINE send == SendCommits(G, S, wants, haves).commits
           tips == Boundary(G, S, haves).tips
           haveObjs == UNION {TreeClosure(R[c], {}) : c \in tips}
           objects == UNION {TreeClosure(R[c], haveObjs) : c \in send}
           known == UNION {TreeClosure(R[d], {}) : d \in Had(G, haves)}
<1>1. Enumerate(G, R, S, wants, haves).objects = objects
  BY DEF Enumerate
<1>2. /\ \A j \in DOMAIN wants : Reach(G, wants[j]) \subseteq send \cup Had(G, haves)
      /\ send \subseteq DOMAIN G
      /\ tips \subseteq Had(G, haves) /\ tips \subseteq DOMAIN G
  BY SendCompletes, SendIsReadable, BoundaryInHad
<1> HIDE DEF send, tips
<1>3. haveObjs \subseteq known
  BY <1>2
<1>4. \A c \in tips : Fenced(Tree, Entries, {}, TreeClosure(R[c], {}))
  BY <1>2, ClosureCompletes
<1>5. Fenced(Tree, Entries, {}, haveObjs)
  <2> DEFINE Trees(c) == TreeClosure(R[c], {})
  <2>1. haveObjs = UNION {Trees(c) : c \in tips} /\ \A c \in tips : Fenced(Tree, Entries, {}, Trees(c))
    BY <1>4
  <2> HIDE DEF Trees, haveObjs
  <2> QED BY <2>1 DEF Fenced
<1>6. \A c \in send : TreeClosure(R[c], {}) \subseteq TreeClosure(R[c], haveObjs) \cup haveObjs
  <2> HIDE DEF haveObjs
  <2> QED BY <1>2, <1>5, ClosureCompletes
<1>7. \A c \in send : TreeClosure(R[c], haveObjs) \subseteq objects
  <2> HIDE DEF haveObjs
  <2> QED OBVIOUS
<1>8. \A c \in Had(G, haves) : TreeClosure(R[c], {}) \subseteq known
  OBVIOUS
<1> HIDE DEF haveObjs, objects, known
<1>9. \A c \in send \cup Had(G, haves) : TreeClosure(R[c], {}) \subseteq objects \cup known
  BY <1>3, <1>6, <1>7, <1>8
<1>10. \A j \in DOMAIN wants : \A c \in Reach(G, wants[j]) : TreeClosure(R[c], {}) \subseteq objects \cup known
  BY <1>2, <1>9
<1> QED BY <1>1, <1>10 DEF known

----------------------------------------------------------------------------
(* The graphs the commands make                                            *)

\* Parents come before their children, and every commit has a tree.
GraphInv ==
    /\ IsGraph(parents)
    /\ rootTree \in Seq(Tree)
    /\ Len(rootTree) = Len(parents)

\* The initial state, and every commit a command makes.
THEOREM GraphsHold == Spec => []GraphInv
<1>1. Init => GraphInv
  BY DEF Init, GraphInv, IsGraph
<1>2. ASSUME GraphInv, NEW ps \in Seq(1..Len(parents)), NEW t \in Tree, BuildCommit(ps, t) PROVE GraphInv'
  <2>1. IsGraph(parents') /\ parents \in Seq(Seq(Nat)) /\ ps \in Seq(Nat)
    <3>1. IsGraph(parents')
      BY <1>2, ReachGrows DEF GraphInv, BuildCommit
    <3> QED BY <1>2, <3>1 DEF GraphInv, IsGraph
  <2>2. Len(parents') = Len(parents) + 1
    BY <1>2, <2>1, AppendProperties DEF BuildCommit
  <2>3. rootTree' \in Seq(Tree) /\ Len(rootTree') = Len(rootTree) + 1
    BY <1>2, AppendProperties DEF GraphInv, BuildCommit
  <2> QED BY <1>2, <2>1, <2>2, <2>3 DEF GraphInv
<1>3. GraphInv /\ [Next]_vars => GraphInv'
  <2> SUFFICES ASSUME GraphInv, [Next]_vars PROVE GraphInv'
    OBVIOUS
  <2>1. CASE UNCHANGED vars
    BY <2>1 DEF GraphInv, vars
  <2>2. ASSUME NEW t \in Tree, CommitRoot(t) PROVE GraphInv'
    <3>1. << >> \in Seq(1..Len(parents)) /\ BuildCommit(<< >>, t)
      BY <2>2 DEF CommitRoot
    <3> QED BY <1>2, <3>1
  <2>3. ASSUME NEW t \in Tree, NEW p \in Commits, CommitOn(p, t) PROVE GraphInv'
    <3>1. <<p>> \in Seq(1..Len(parents)) /\ BuildCommit(<<p>>, t)
      BY <2>3 DEF CommitOn, Commits
    <3> QED BY <1>2, <3>1
  <2>4. ASSUME NEW t \in Tree, NEW our \in Commits, NEW their \in Commits, MergeCommit(our, their, t)
        PROVE  GraphInv'
    <3>1. <<our, their>> \in Seq(1..Len(parents)) /\ BuildCommit(<<our, their>>, t)
      BY <2>4 DEF MergeCommit, Commits
    <3> QED BY <1>2, <3>1
  <2> QED BY <2>1, <2>2, <2>3, <2>4 DEF Next
<1> QED BY <1>1, <1>3, PTL DEF Spec

\* The stores and the lists of haves the properties range over.
LEMMA StoresAndHaves ==
    ASSUME GraphInv
    PROVE  /\ Commits = DOMAIN parents /\ DOMAIN parents = 1..Len(parents) /\ Len(parents) \in Nat
           /\ Stores \subseteq SUBSET DOMAIN parents
           /\ HaveLists \subseteq Seq(DOMAIN parents)
           /\ rootTree \in [DOMAIN parents -> Tree]
<1>1. Commits = DOMAIN parents /\ DOMAIN parents = 1..Len(parents) /\ Len(parents) \in Nat
  BY DEF GraphInv, IsGraph, Commits
<1>2. rootTree \in [DOMAIN parents -> Tree]
  BY <1>1 DEF GraphInv
<1>3. Stores \subseteq SUBSET DOMAIN parents
  BY <1>1 DEF Stores
<1>4. ASSUME NEW haves \in HaveLists PROVE haves \in Seq(DOMAIN parents)
  <2>1. haves = << >> \/ (\E a \in Commits : haves = <<a>>) \/ (\E a, b \in Commits : haves = <<a, b>>)
    <3> DEFINE A == {<< >>}
               B == {<<a>> : a \in Commits}
               C == {<<a, b>> : a, b \in Commits}
    <3>1. haves \in A \cup B \cup C
      BY DEF HaveLists
    <3>2. haves \in A => haves = << >>
      OBVIOUS
    <3>3. haves \in B => \E a \in Commits : haves = <<a>>
      OBVIOUS
    <3>4. haves \in C => \E a, b \in Commits : haves = <<a, b>>
      OBVIOUS
    <3> HIDE DEF A, B, C
    <3> QED BY <3>1, <3>2, <3>3, <3>4
  <2>2. CASE haves = << >>
    BY <2>2
  <2>3. CASE \E a \in Commits : haves = <<a>>
    BY <1>1, <2>3
  <2>4. CASE \E a, b \in Commits : haves = <<a, b>>
    BY <1>1, <2>4
  <2> QED BY <2>1, <2>2, <2>3, <2>4
<1> QED BY <1>1, <1>2, <1>3, <1>4

\* In every graph the commands make, MergeBase answers with a common ancestor even over a
\* damaged store, and over a complete one it answers whenever there is one (MergeBaseSound).
THEOREM BasesSound == Spec => []MergeBaseSound
<1>1. GraphInv => MergeBaseSound
  <2> SUFFICES ASSUME GraphInv, NEW a \in Commits, NEW b \in Commits
               PROVE  /\ \A S \in Stores : MergeBase(parents, S, a, b) \in CommonAncestors(a, b) \cup {NoCommit}
                      /\ CommonAncestors(a, b) # {} => MergeBase(parents, Commits, a, b) # NoCommit
    BY DEF MergeBaseSound
  <2>1. /\ IsGraph(parents) /\ Stores \subseteq SUBSET DOMAIN parents /\ Commits = DOMAIN parents
        /\ a \in 0..Len(parents) /\ b \in 0..Len(parents)
    BY StoresAndHaves DEF GraphInv
  <2>2. ASSUME NEW S \in Stores PROVE MergeBase(parents, S, a, b) \in CommonAncestors(a, b) \cup {NoCommit}
    BY <2>1, MergeBaseIsCommon DEF CommonAncestors
  <2>3. CommonAncestors(a, b) # {} => MergeBase(parents, Commits, a, b) # NoCommit
    BY <2>1, MergeBaseFinds DEF CommonAncestors
  <2> QED BY <2>2, <2>3
<1> QED BY <1>1, GraphsHold, PTL

\* In every graph the commands make, a complete sender sends no commit the receiver has
\* (PackMinimal).
THEOREM PacksMinimal == Spec => []PackMinimal
<1>1. GraphInv => PackMinimal
  <2> SUFFICES ASSUME GraphInv, NEW w \in Commits, NEW haves \in HaveLists
               PROVE  SendCommits(parents, Commits, <<w>>, haves).commits \cap
                          UNION {Reach(parents, haves[i]) : i \in DOMAIN haves} = {}
    BY DEF PackMinimal
  <2> DEFINE ws == <<w>>
  <2>1. IsGraph(parents) /\ Commits = DOMAIN parents /\ haves \in Seq(DOMAIN parents) /\ w \in 0..Len(parents)
    BY StoresAndHaves DEF GraphInv
  <2>2. ws \in Seq(0..Len(parents))
    BY <2>1
  <2> HIDE DEF ws
  <2>3. SendCommits(parents, DOMAIN parents, ws, haves).commits \cap Had(parents, haves) = {}
    BY <2>1, <2>2, SendIsNew
  <2> QED BY <2>1, <2>3 DEF Had, ws
<1> QED BY <1>1, GraphsHold, PTL

\* In every graph the commands make, a receiver that has what its haves reach has what the want
\* reaches once it has ingested the pack, commits, trees and blobs, even when the sender cannot
\* read some of the haves' history (PackComplete).
THEOREM PacksComplete == Spec => []PackComplete
<1>1. GraphInv => PackComplete
  <2> SUFFICES ASSUME GraphInv, NEW w \in Commits, NEW haves \in HaveLists, NEW S \in Stores,
                      ~SendCommits(parents, S, <<w>>, haves).failed
               PROVE  /\ Reach(parents, w) \subseteq Enumerate(parents, rootTree, S, <<w>>, haves).commits
                             \cup UNION {Reach(parents, haves[i]) : i \in DOMAIN haves}
                      /\ Closure(Reach(parents, w)) \subseteq Enumerate(parents, rootTree, S, <<w>>, haves).objects
                             \cup Closure(UNION {Reach(parents, haves[i]) : i \in DOMAIN haves})
    BY Zenon DEF PackComplete
  <2> DEFINE ws == <<w>>
             pack == Enumerate(parents, rootTree, S, ws, haves)
             send == SendCommits(parents, S, ws, haves)
  <2>1. /\ IsGraph(parents) /\ S \in SUBSET DOMAIN parents /\ haves \in Seq(DOMAIN parents)
        /\ w \in 0..Len(parents) /\ rootTree \in [DOMAIN parents -> Tree]
    BY StoresAndHaves DEF GraphInv
  <2>2. ws \in Seq(0..Len(parents)) /\ 1 \in DOMAIN ws /\ ws[1] = w
    BY <2>1
  <2>3. pack.commits = send.commits /\ ~send.failed
    BY DEF Enumerate
  <2> HIDE DEF ws
  <2>4. Reach(parents, w) \subseteq pack.commits \cup Had(parents, haves)
    <3>1. Reach(parents, ws[1]) \subseteq send.commits \cup Had(parents, haves)
      BY <2>1, <2>2, <2>3, SendCompletes
    <3> QED BY <2>2, <2>3, <3>1
  <2>5. \A c \in Reach(parents, w) : TreeClosure(rootTree[c], {}) \subseteq
            pack.objects \cup UNION {TreeClosure(rootTree[d], {}) : d \in Had(parents, haves)}
    <3>1. \A j \in DOMAIN ws : \A c \in Reach(parents, ws[j]) :
             TreeClosure(rootTree[c], {}) \subseteq
                 Enumerate(parents, rootTree, S, ws, haves).objects
                     \cup UNION {TreeClosure(rootTree[d], {}) : d \in Had(parents, haves)}
      BY <2>1, <2>2, <2>3, PackCompletes
    <3> HIDE DEF pack
    <3> QED BY <2>2, <3>1 DEF pack
  <2> HIDE DEF pack, send
  <2>6. Closure(Reach(parents, w)) \subseteq pack.objects \cup Closure(Had(parents, haves))
    BY <2>5 DEF Closure
  <2> QED BY <2>4, <2>6 DEF pack, ws, Had
<1> QED BY <1>1, GraphsHold, PTL
==============================================================================
