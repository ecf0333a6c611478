-------------------------- MODULE MaintenanceProofs --------------------------
(***************************************************************************)
(* Proofs about Maintenance, for any set of trees, blobs, branches and     *)
(* readers, any history and any number of commands, collections and        *)
(* crashes: verify misses no damage, a collection that no command overlaps *)
(* removes nothing in use, and history shows the whole of a history or     *)
(* nothing of it.                                                          *)
(***************************************************************************)
EXTENDS Maintenance, CommitGraphProofs

----------------------------------------------------------------------------
(* The invariants                                                          *)
(*                                                                         *)
(* G is the graph of the commits, n their number, R their trees, S what is *)
(* stored, t the staged tree, br the branches.                             *)

Object == Tree \cup Blob
Store == [commits : SUBSET Nat, objects : SUBSET Object]

Committed(E) == \E x \in E : x[1] = "commit"

\* The commits there are once the steps E are done.
Known(n, E) == 1..(IF Committed(E) THEN n + 1 ELSE n)

\* A step that comes after the steps E has an argument it can work with.
StepTyped(n, br, E, e) ==
    /\ e[1] = "write" => e[2] \subseteq Object
    /\ e[1] = "index" => e[2] \in Tree
    /\ e[1] \in {"ref", "checkout"} => e[2] \in Known(n, E)
    /\ e[1] = "create" => e[2] \in Branches
    /\ e[1] = "head" => e[2] \in Branches /\ br[e[2]] # NoCommit
    /\ e[1] = "headlog" => e[2] \subseteq Known(n, E) \cup {NoCommit}
    /\ e[1] = "branchlog" => e[2] \in Seq(Known(n, E))

PlanTyped(n, br, p) == IsPlan(p) /\ \A i \in DOMAIN p : StepTyped(n, br, Earlier(p, i), p[i])

GcTyped(n, g) ==
    /\ g = [phase |-> g.phase, roots |-> g.roots, keep |-> g.keep, left |-> g.left]
    /\ g.left = [commits |-> g.left.commits, objects |-> g.left.objects]
    /\ g.phase \in {"idle", "roots", "list", "sweep"} /\ g.roots \subseteq 1..n

\* The commits, references and logs name commits that were made; HEAD's branch has one.
TypeInv ==
    /\ IsGraph(parents) /\ rootTree \in Seq(Tree) /\ Len(rootTree) = Len(parents)
    /\ stored \in Store /\ stored.commits \subseteq 1..Len(parents)
    /\ branch \in [Branches -> 0..Len(parents)]
    /\ head \in Branches /\ branch[head] # NoCommit
    /\ headLog \subseteq 1..Len(parents)
    /\ undoable \in [Branches -> Seq(1..Len(parents))]
    /\ staged \in Tree
    /\ GcTyped(Len(parents), gc)
    /\ PlanTyped(Len(parents), branch, plan)

\* The whole history of c is stored.
Fine(G, R, S, c) == \A d \in Reach(G, c) : d \in S.commits /\ TreeClosure(R[d], {}) \subseteq S.objects

\* What the steps E write.
Pending(E) == UNION {x[2] : x \in {y \in E : y[1] = "write"}}

\* A commit that is whole now or is made by E.
Coming(G, R, S, E, c) == (c \in DOMAIN G /\ Fine(G, R, S, c)) \/ (c = Len(G) + 1 /\ Committed(E))

\* A step that comes after the steps E finds what it makes reachable.
StepGood(G, R, S, t, E, e) ==
    /\ e[1] = "commit" =>
          /\ TreeClosure(t, {}) \subseteq S.objects \cup Pending(E)
          /\ \A x \in E : x[1] # "index"
    /\ e[1] = "index" =>
          \/ TreeClosure(e[2], {}) \cap Blob \subseteq S.objects \cup Pending(E)
          \/ \E x \in E : x[1] = "checkout" /\ x[2] \in DOMAIN R /\ R[x[2]] = e[2]
    /\ e[1] = "ref" => Coming(G, R, S, E, e[2])
    /\ e[1] = "headlog" => \A c \in e[2] \ {NoCommit} : Coming(G, R, S, E, c)

PlanGood(G, R, S, t, p) == \A i \in DOMAIN p : StepGood(G, R, S, t, Earlier(p, i), p[i])

\* The commits the branches br and HEAD's reflog log name.
Tips(br, log) == ({br[b] : b \in Branches} \cup log) \ {NoCommit}

\* What the collection g spares has all the history of the commits of C.
Spares(G, R, g, C) == \A c \in C : Fine(G, R, g.keep, c)

\* A collection under way, with no command running.
GcGood(G, R, br, log, p, g) ==
    /\ g.phase # "idle" => p = << >>
    /\ g.phase = "roots" => {br[b] : b \in Branches} \ {NoCommit} \subseteq g.roots
    /\ g.phase \in {"list", "sweep"} => Spares(G, R, g, Tips(br, log))
    /\ g.phase = "sweep" =>
          g.left.commits \cap g.keep.commits = {} /\ g.left.objects \cap g.keep.objects = {}

Safe ==
    /\ \A c \in Tips(branch, headLog) : Fine(parents, rootTree, stored, c)
    /\ TreeClosure(staged, {}) \cap Blob \subseteq stored.objects
    /\ PlanGood(parents, rootTree, stored, staged, plan)
    /\ GcGood(parents, rootTree, branch, headLog, plan, gc)

GcInv == "gc" \notin overlap => Safe

----------------------------------------------------------------------------
(* Plans                                                                   *)

\* The steps of a run of writes.
WriteSteps(S) == IF S = {} THEN {} ELSE {<<"write", S>>}

\* Where a step of plan p stands in plan q, which p puts after a run of writes of S.
Follows(p, i, q, S) == \E j \in DOMAIN q : p[i] = q[j] /\ Earlier(p, i) = WriteSteps(S) \cup Earlier(q, j)

\* A run of writes before a plan.
LEMMA PlanPrefix ==
    ASSUME NEW q, IsPlan(q), NEW S
    PROVE  /\ IsPlan(Writes(S) \o q)
           /\ \A i \in DOMAIN (Writes(S) \o q) :
                 \/ (Writes(S) \o q)[i] = <<"write", S>> /\ Earlier(Writes(S) \o q, i) = {}
                 \/ Follows(Writes(S) \o q, i, q, S)
           /\ \A j \in DOMAIN q : \E i \in DOMAIN (Writes(S) \o q) : (Writes(S) \o q)[i] = q[j]
<1> DEFINE R == {q[i] : i \in DOMAIN q}
<1>0. q \in Seq(R) /\ Len(q) \in Nat /\ DOMAIN q = 1..Len(q)
  BY DEF IsPlan
<1>1. CASE S = {}
  <2>1. Writes(S) \o q = q
    BY <1>0, <1>1, ConcatEmptySeq DEF Writes
  <2>2. WriteSteps(S) = {}
    BY <1>1 DEF WriteSteps
  <2> QED BY <2>1, <2>2 DEF Follows
<1>2. CASE S # {}
  <2> DEFINE w == <<"write", S>>
             s == <<w>>
             p == s \o q
             X == R \cup {w}
  <2>1. Writes(S) = s /\ WriteSteps(S) = {w}
    BY <1>2 DEF Writes, WriteSteps
  <2> HIDE DEF w
  <2>2. s \in Seq(X) /\ Len(s) = 1 /\ s[1] = w /\ q \in Seq(X)
    BY <1>0
  <2> HIDE DEF s, X
  <2>3. /\ p \in Seq(X) /\ Len(p) = Len(s) + Len(q)
        /\ \A i \in 1..Len(p) : p[i] = IF i <= Len(s) THEN s[i] ELSE q[i - Len(s)]
    BY <2>2, ConcatProperties
  <2> HIDE DEF p, R
  <2>4. /\ Len(p) = 1 + Len(q) /\ DOMAIN p = 1..Len(p) /\ p[1] = w
        /\ \A i \in 1..Len(q) : p[i + 1] = q[i]
    <3>1. Len(p) = 1 + Len(q) /\ DOMAIN p = 1..Len(p) /\ p[1] = w
      BY <1>0, <2>2, <2>3
    <3>2. ASSUME NEW i \in 1..Len(q) PROVE p[i + 1] = q[i]
      <4>1. i + 1 \in 1..Len(p) /\ ~(i + 1 <= Len(s)) /\ (i + 1) - Len(s) = i
        BY <1>0, <2>2, <3>1
      <4> QED BY <2>3, <4>1
    <3> QED BY <3>1, <3>2
  <2>5. IsPlan(p)
    BY <2>3, <2>4 DEF IsPlan
  <2>6. ASSUME NEW i \in DOMAIN p, i # 1 PROVE Follows(p, i, q, S)
    <3>1. i - 1 \in DOMAIN q /\ p[i] = q[i - 1] /\ i \in Nat /\ (i - 1) + 1 = i
      BY <1>0, <2>4, <2>6
    <3>2. ASSUME NEW x \in Earlier(p, i) PROVE x \in {w} \cup Earlier(q, i - 1)
      <4>1. PICK j \in 1..(i - 1) : x = p[j]
        BY DEF Earlier
      <4>2. CASE j = 1
        BY <2>4, <4>1, <4>2
      <4>3. CASE j # 1
        <5>1. j - 1 \in 1..((i - 1) - 1) /\ j - 1 \in 1..Len(q) /\ (j - 1) + 1 = j
          BY <1>0, <3>1, <4>1, <4>3
        <5>2. q[j - 1] = p[j]
          BY <2>4, <5>1
        <5> QED BY <4>1, <5>1, <5>2 DEF Earlier
      <4> QED BY <4>2, <4>3
    <3>3. w \in Earlier(p, i)
      <4>1. 1 \in 1..(i - 1)
        BY <2>6, <3>1, <2>4
      <4> QED BY <2>4, <4>1 DEF Earlier
    <3>4. ASSUME NEW x \in Earlier(q, i - 1) PROVE x \in Earlier(p, i)
      <4>1. PICK j \in 1..((i - 1) - 1) : x = q[j]
        BY DEF Earlier
      <4>2. j \in 1..Len(q) /\ j + 1 \in 1..(i - 1)
        BY <1>0, <3>1, <4>1
      <4> QED BY <2>4, <4>1, <4>2 DEF Earlier
    <3>5. Earlier(p, i) = {w} \cup Earlier(q, i - 1)
      BY <3>2, <3>3, <3>4
    <3> QED BY <2>1, <3>1, <3>5 DEF Follows
  <2>7. \A i \in DOMAIN p : (p[i] = w /\ Earlier(p, i) = {}) \/ Follows(p, i, q, S)
    <3>1. Earlier(p, 1) = {}
      BY DEF Earlier
    <3> QED BY <2>4, <2>6, <3>1
  <2>9. ASSUME NEW j \in DOMAIN q PROVE \E i \in DOMAIN p : p[i] = q[j]
    <3>1. j \in 1..Len(q) /\ j + 1 \in DOMAIN p
      BY <1>0, <2>4
    <3> QED BY <2>4, <3>1
  <2>8. Writes(S) \o q = p
    BY <2>1 DEF p
  <2> QED BY <2>5, <2>7, <2>8, <2>9 DEF w
<1> QED BY <1>1, <1>2

----------------------------------------------------------------------------
(* Types                                                                   *)

\* The rest of a plan stays typed when its first step is done and the repository grows.
LEMMA TypedTail ==
    ASSUME NEW n \in Nat, NEW m \in Nat, NEW br, NEW cr, NEW p, PlanTyped(n, br, p), p # << >>,
           n <= m, p[1][1] = "commit" => n + 1 <= m,
           \A b \in Branches : br[b] # NoCommit => cr[b] # NoCommit
    PROVE  PlanTyped(m, cr, Tail(p))
<1> DEFINE q == Tail(p)
<1>1. /\ IsPlan(q)
      /\ \A i \in DOMAIN q : /\ i + 1 \in DOMAIN p /\ q[i] = p[i + 1]
                             /\ Earlier(p, i + 1) = {p[1]} \cup Earlier(q, i)
  BY PlanTail DEF PlanTyped
<1> HIDE DEF q
<1>2. ASSUME NEW i \in DOMAIN q PROVE StepTyped(m, cr, Earlier(q, i), q[i])
  <2> DEFINE E == Earlier(q, i)
             F == {p[1]} \cup E
             e == q[i]
  <2>1. StepTyped(n, br, F, e)
    BY <1>1 DEF PlanTyped
  <2> HIDE DEF E, e
  <2>2. Known(n, F) \subseteq Known(m, E)
    <3>1. CASE p[1][1] = "commit"
      BY <3>1 DEF Known
    <3>2. CASE p[1][1] # "commit"
      <4>1. Committed(F) <=> Committed(E)
        BY <3>2 DEF Committed
      <4> QED BY <4>1 DEF Known
    <3> QED BY <3>1, <3>2
  <2>3. \A s \in Seq(Known(n, F)) : s \in Seq(Known(m, E))
    BY <2>2, SeqGrows
  <2> QED BY <2>1, <2>2, <2>3 DEF StepTyped, E, e
<1> QED BY <1>1, <1>2 DEF PlanTyped, q

\* A run of writes of objects before a typed plan.
LEMMA TypedPrefix ==
    ASSUME NEW n \in Nat, NEW br, NEW q, PlanTyped(n, br, q), NEW S, S \subseteq Object
    PROVE  PlanTyped(n, br, Writes(S) \o q)
<1> DEFINE p == Writes(S) \o q
           w == <<"write", S>>
<1>1. IsPlan(p) /\ \A i \in DOMAIN p : p[i] = w \/ Follows(p, i, q, S)
  BY PlanPrefix DEF PlanTyped
<1>2. \A E : StepTyped(n, br, E, w)
  BY DEF StepTyped
<1>3. \A x \in WriteSteps(S) : x[1] # "commit"
  BY DEF WriteSteps
<1> HIDE DEF p, w
<1>4. ASSUME NEW i \in DOMAIN p, Follows(p, i, q, S) PROVE StepTyped(n, br, Earlier(p, i), p[i])
  <2>1. PICK j \in DOMAIN q : p[i] = q[j] /\ Earlier(p, i) = WriteSteps(S) \cup Earlier(q, j)
    BY <1>4 DEF Follows
  <2>2. StepTyped(n, br, Earlier(q, j), q[j])
    BY DEF PlanTyped
  <2>3. Known(n, Earlier(p, i)) = Known(n, Earlier(q, j))
    BY <1>3, <2>1 DEF Known, Committed
  <2> QED BY <2>1, <2>2, <2>3 DEF StepTyped
<1> QED BY <1>1, <1>2, <1>4 DEF PlanTyped, p

\* No plan.
LEMMA NoPlan == IsPlan(<< >>) /\ \A n, br : PlanTyped(n, br, << >>)
BY DEF IsPlan, PlanTyped

\* The steps before each step of a plan written out.
LEMMA PlanOfOne ==
    ASSUME NEW a
    PROVE  IsPlan(<<a>>) /\ DOMAIN <<a>> = 1..1 /\ <<a>>[1] = a /\ Earlier(<<a>>, 1) = {}
BY DEF IsPlan, Earlier

\* The same of a plan of four steps (switch).
LEMMA PlanOfFour ==
    ASSUME NEW a, NEW b, NEW c, NEW d, NEW p, p = <<a, b, c, d>>
    PROVE  /\ IsPlan(p) /\ DOMAIN p = 1..4
           /\ p[1] = a /\ p[2] = b /\ p[3] = c /\ p[4] = d
           /\ Earlier(p, 1) = {} /\ Earlier(p, 2) = {a} /\ Earlier(p, 3) = {a, b}
           /\ Earlier(p, 4) = {a, b, c}
<1>1. DOMAIN p = 1..4 /\ p[1] = a /\ p[2] = b /\ p[3] = c /\ p[4] = d
  OBVIOUS
<1>2. IsPlan(p)
  BY DEF IsPlan
<1>3. 1..(2 - 1) = {1} /\ 1..(3 - 1) = {1, 2} /\ 1..(4 - 1) = {1, 2, 3} /\ 1..(1 - 1) = {}
  OBVIOUS
<1> QED BY <1>1, <1>2, <1>3 DEF Earlier

\* The same of a plan of five steps (undo).
LEMMA PlanOfFive ==
    ASSUME NEW a, NEW b, NEW c, NEW d, NEW e, NEW p, p = <<a, b, c, d, e>>
    PROVE  /\ IsPlan(p) /\ DOMAIN p = 1..5
           /\ p[1] = a /\ p[2] = b /\ p[3] = c /\ p[4] = d /\ p[5] = e
           /\ Earlier(p, 1) = {} /\ Earlier(p, 2) = {a} /\ Earlier(p, 3) = {a, b}
           /\ Earlier(p, 4) = {a, b, c} /\ Earlier(p, 5) = {a, b, c, d}
<1>1. DOMAIN p = 1..5 /\ p[1] = a /\ p[2] = b /\ p[3] = c /\ p[4] = d /\ p[5] = e
  OBVIOUS
<1>2. IsPlan(p)
  BY DEF IsPlan
<1>3. /\ 1..(2 - 1) = {1} /\ 1..(3 - 1) = {1, 2} /\ 1..(4 - 1) = {1, 2, 3} /\ 1..(1 - 1) = {}
      /\ 1..(5 - 1) = {1, 2, 3, 4}
  OBVIOUS
<1> QED BY <1>1, <1>2, <1>3 DEF Earlier

\* The same of a plan of six steps (commit).
LEMMA PlanOfSix ==
    ASSUME NEW a, NEW b, NEW c, NEW d, NEW e, NEW f, NEW p, p = <<a, b, c, d, e, f>>
    PROVE  /\ IsPlan(p) /\ DOMAIN p = 1..6
           /\ p[1] = a /\ p[2] = b /\ p[3] = c /\ p[4] = d /\ p[5] = e /\ p[6] = f
           /\ Earlier(p, 1) = {} /\ Earlier(p, 2) = {a} /\ Earlier(p, 3) = {a, b}
           /\ Earlier(p, 4) = {a, b, c} /\ Earlier(p, 5) = {a, b, c, d}
           /\ Earlier(p, 6) = {a, b, c, d, e}
<1>1. DOMAIN p = 1..6 /\ p[1] = a /\ p[2] = b /\ p[3] = c /\ p[4] = d /\ p[5] = e /\ p[6] = f
  OBVIOUS
<1>2. IsPlan(p)
  BY DEF IsPlan
<1>3. /\ 1..(2 - 1) = {1} /\ 1..(3 - 1) = {1, 2} /\ 1..(4 - 1) = {1, 2, 3} /\ 1..(1 - 1) = {}
      /\ 1..(5 - 1) = {1, 2, 3, 4} /\ 1..(6 - 1) = {1, 2, 3, 4, 5}
  OBVIOUS
<1> QED BY <1>1, <1>2, <1>3 DEF Earlier

----------------------------------------------------------------------------
(* Trees                                                                   *)

\* The walk of a tree collects what is below it.
LEMMA ClosureIsBelow ==
    ASSUME NEW t \in Tree
    PROVE  TreeClosure(t, {}) = Below(Tree, Blob, Entries, {}, t) /\ TreeClosure(t, {}) \subseteq Object
<1>1. Grounded(Tree, Entries)
  BY TreesAssumption DEF Grounded
<1>2. TreeClosure(t, {}) = Descent(Tree, Blob, Entries, {}, t)
  BY DEF TreeClosure, Descent
<1>3. Descent(Tree, Blob, Entries, {}, t) = Below(Tree, Blob, Entries, {}, t)
  BY <1>1, EntriesAssumption, DescentChosen
<1>4. Below(Tree, Blob, Entries, {}, t) \subseteq Tree \cup Blob
  BY EntriesAssumption, BelowFenced
<1> QED BY <1>2, <1>3, <1>4 DEF Object

----------------------------------------------------------------------------
(* The plans of the commands are typed                                     *)

\* add's plan has arguments its steps can work with.
LEMMA AddTyped ==
    ASSUME TypeInv, NEW t \in Tree
    PROVE  PlanTyped(Len(parents), branch, AddPlan(t))
<1> DEFINE n == Len(parents)
           a == <<"index", t>>
           q == <<a>>
           S == TreeClosure(t, {}) \cap Blob
<1>1. n \in Nat /\ S \subseteq Object
  BY DEF TypeInv, IsGraph, Object
<1>2. StepTyped(n, branch, {}, a)
  BY DEF StepTyped
<1>3. AddPlan(t) = Writes(S) \o q
  BY DEF AddPlan
<1> HIDE DEF a, n, S
<1>4. IsPlan(q) /\ DOMAIN q = 1..1 /\ q[1] = a /\ Earlier(q, 1) = {}
  BY PlanOfOne
<1> HIDE DEF q
<1>5. PlanTyped(n, branch, q)
  BY <1>2, <1>4 DEF PlanTyped
<1>6. PlanTyped(n, branch, Writes(S) \o q)
  BY <1>1, <1>5, TypedPrefix
<1> QED BY <1>3, <1>6 DEF n

\* branch's plan is typed.
LEMMA CreateTyped ==
    ASSUME TypeInv, NEW b \in Branches
    PROVE  PlanTyped(Len(parents), branch, << <<"create", b>> >>)
<1> DEFINE n == Len(parents)
           a == <<"create", b>>
           q == <<a>>
<1>1. StepTyped(n, branch, {}, a)
  BY DEF StepTyped
<1> HIDE DEF a, n
<1>2. IsPlan(q) /\ DOMAIN q = 1..1 /\ q[1] = a /\ Earlier(q, 1) = {}
  BY PlanOfOne
<1> HIDE DEF q
<1>3. PlanTyped(n, branch, q)
  BY <1>1, <1>2 DEF PlanTyped
<1> QED BY <1>3 DEF a, q, n

\* switch's plan is typed: the branch it switches to has a commit.
LEMMA SwitchTyped ==
    ASSUME TypeInv, NEW b \in Branches, branch[b] # NoCommit
    PROVE  PlanTyped(Len(parents), branch, SwitchPlan(b))
<1> DEFINE n == Len(parents)
           c == branch[b]
           s1 == <<"checkout", c>>
           s2 == <<"index", rootTree[c]>>
           s3 == <<"head", b>>
           s4 == <<"headlog", {branch[head], c}>>
           p == <<s1, s2, s3, s4>>
<1>1. n \in Nat /\ c \in 1..n /\ branch[head] \in 1..n /\ rootTree[c] \in Tree
  BY DEF TypeInv, IsGraph, NoCommit
<1>2. \A E : 1..n \subseteq Known(n, E)
  BY <1>1 DEF Known
<1>3. \A E : /\ StepTyped(n, branch, E, s1) /\ StepTyped(n, branch, E, s2)
             /\ StepTyped(n, branch, E, s3) /\ StepTyped(n, branch, E, s4)
  <2> HIDE DEF n, c
  <2> SUFFICES ASSUME NEW E
               PROVE  /\ StepTyped(n, branch, E, s1) /\ StepTyped(n, branch, E, s2)
                      /\ StepTyped(n, branch, E, s3) /\ StepTyped(n, branch, E, s4)
    OBVIOUS
  <2>1. c \in Known(n, E) /\ branch[head] \in Known(n, E)
    BY <1>1, <1>2
  <2>2. branch[b] # NoCommit
    OBVIOUS
  <2> QED BY <1>1, <2>1, <2>2 DEF StepTyped
<1>4. SwitchPlan(b) = p
  BY DEF SwitchPlan
<1> HIDE DEF s1, s2, s3, s4
<1>5. IsPlan(p) /\ DOMAIN p = 1..4 /\ p[1] = s1 /\ p[2] = s2 /\ p[3] = s3 /\ p[4] = s4
  BY PlanOfFour
<1> HIDE DEF p, n
<1>6. PlanTyped(n, branch, p)
  BY <1>3, <1>5 DEF PlanTyped
<1> QED BY <1>4, <1>6 DEF n

\* undo's plan is typed: a commit that has a parent has one that was made.
LEMMA UndoTyped ==
    ASSUME TypeInv, undoable[head] # << >>, parents[branch[head]] # << >>
    PROVE  PlanTyped(Len(parents), branch, UndoPlan)
<1> DEFINE n == Len(parents)
           c == branch[head]
           prev == parents[c][1]
           s1 == <<"ref", prev>>
           s2 == <<"checkout", prev>>
           s3 == <<"index", rootTree[prev]>>
           s4 == <<"branchlog", Front(undoable[head])>>
           s5 == <<"headlog", {c, prev}>>
           p == <<s1, s2, s3, s4, s5>>
<1>1. n \in Nat /\ c \in 1..n /\ prev \in 1..n /\ rootTree[prev] \in Tree
  <2>1. n \in Nat /\ c \in 1..n /\ DOMAIN parents = 1..n /\ parents[c] \in Seq(Nat)
    BY DEF TypeInv, IsGraph, NoCommit
  <2>2. 1 \in DOMAIN parents[c]
    BY <2>1
  <2>3. prev \in 1..(c - 1)
    BY <2>1, <2>2 DEF TypeInv, IsGraph
  <2>4. prev \in 1..n
    BY <2>1, <2>3
  <2> HIDE DEF prev
  <2> QED BY <2>1, <2>4 DEF TypeInv
<1>2. Front(undoable[head]) \in Seq(1..n)
  <2>1. undoable[head] \in Seq(1..n)
    BY DEF TypeInv
  <2> DEFINE u == undoable[head]
             K == 1..n
  <2>2. u \in Seq(K) /\ u # << >>
    BY <2>1
  <2> HIDE DEF u, K
  <2>3. Len(u) \in Nat /\ \A i \in 1..(Len(u) - 1) : u[i] \in K
    BY <2>2, ElementOfSeq, LenProperties
  <2>4. Front(u) \in Seq(K)
    BY <2>3, SubSeqProperties DEF Front
  <2> QED BY <2>4 DEF u, K
<1>3. \A E : 1..n \subseteq Known(n, E) /\ Front(undoable[head]) \in Seq(Known(n, E))
  <2>1. \A E : 1..n \subseteq Known(n, E)
    BY <1>1 DEF Known
  <2> QED BY <1>2, <2>1, SeqGrows
<1>4. \A E : /\ StepTyped(n, branch, E, s1) /\ StepTyped(n, branch, E, s2)
             /\ StepTyped(n, branch, E, s3) /\ StepTyped(n, branch, E, s4)
             /\ StepTyped(n, branch, E, s5)
  <2> DEFINE u == Front(undoable[head])
  <2> HIDE DEF n, c, prev, u
  <2> SUFFICES ASSUME NEW E
               PROVE  /\ StepTyped(n, branch, E, s1) /\ StepTyped(n, branch, E, s2)
                      /\ StepTyped(n, branch, E, s3) /\ StepTyped(n, branch, E, s4)
                      /\ StepTyped(n, branch, E, s5)
    OBVIOUS
  <2>1. c \in Known(n, E) /\ prev \in Known(n, E) /\ u \in Seq(Known(n, E))
    BY <1>1, <1>3 DEF u
  <2>2. s4 = <<"branchlog", u>>
    BY DEF u
  <2>3. StepTyped(n, branch, E, s4)
    BY <2>1, <2>2 DEF StepTyped
  <2> QED BY <1>1, <2>1, <2>3 DEF StepTyped
<1>5. UndoPlan = p
  BY DEF UndoPlan
<1> HIDE DEF s1, s2, s3, s4, s5
<1>6. IsPlan(p) /\ DOMAIN p = 1..5 /\ p[1] = s1 /\ p[2] = s2 /\ p[3] = s3 /\ p[4] = s4 /\ p[5] = s5
  BY PlanOfFive
<1> HIDE DEF p, n
<1>7. PlanTyped(n, branch, p)
  BY <1>4, <1>6 DEF PlanTyped
<1> QED BY <1>5, <1>7 DEF n

\* commit's plan is typed: the commit it moves the branch to is made before.
LEMMA CommitTyped ==
    ASSUME TypeInv
    PROVE  PlanTyped(Len(parents), branch, CommitPlan)
<1> DEFINE n == Len(parents)
           c == branch[head]
           log == Append(undoable[head], n + 1)
           s1 == <<"changed">>
           s2 == <<"commit">>
           s3 == <<"ref", n + 1>>
           s4 == <<"headlog", {c, n + 1}>>
           s5 == <<"branchlog", log>>
           s6 == <<"invalidate">>
           p == <<s1, s2, s3, s4, s5, s6>>
           S == TreeClosure(staged, {}) \cap Tree
<1>1. n \in Nat /\ c \in 1..n /\ undoable[head] \in Seq(1..n)
  BY DEF TypeInv, IsGraph, NoCommit
<1>2. \A E : Committed(E) => Known(n, E) = 1..(n + 1)
  BY DEF Known
<1>3. log \in Seq(1..(n + 1))
  <2>1. 1..n \subseteq 1..(n + 1) /\ n + 1 \in 1..(n + 1)
    BY <1>1
  <2>2. undoable[head] \in Seq(1..(n + 1))
    BY <1>1, <2>1, SeqGrows
  <2> QED BY <2>1, <2>2, AppendProperties
<1>4. \A E : StepTyped(n, branch, E, s1) /\ StepTyped(n, branch, E, s2) /\ StepTyped(n, branch, E, s6)
  BY DEF StepTyped
<1>5. \A E : Committed(E) =>
          StepTyped(n, branch, E, s3) /\ StepTyped(n, branch, E, s4) /\ StepTyped(n, branch, E, s5)
  <2> HIDE DEF n, c, log
  <2> SUFFICES ASSUME NEW E, Committed(E)
               PROVE  StepTyped(n, branch, E, s3) /\ StepTyped(n, branch, E, s4) /\ StepTyped(n, branch, E, s5)
    OBVIOUS
  <2>1. c \in Known(n, E) /\ n + 1 \in Known(n, E) /\ log \in Seq(Known(n, E))
    BY <1>1, <1>2, <1>3
  <2> QED BY <2>1 DEF StepTyped
<1>6. CommitPlan = Writes(S) \o p
  BY DEF CommitPlan
<1>7. S \subseteq Object /\ s2[1] = "commit"
  BY DEF Object
<1> HIDE DEF s1, s2, s3, s4, s5, s6, S
<1>8. /\ IsPlan(p) /\ DOMAIN p = 1..6
      /\ p[1] = s1 /\ p[2] = s2 /\ p[3] = s3 /\ p[4] = s4 /\ p[5] = s5 /\ p[6] = s6
      /\ s2 \in Earlier(p, 3) /\ s2 \in Earlier(p, 4) /\ s2 \in Earlier(p, 5)
  BY PlanOfSix
<1> HIDE DEF p, n
<1>9. Committed(Earlier(p, 3)) /\ Committed(Earlier(p, 4)) /\ Committed(Earlier(p, 5))
  BY <1>7, <1>8 DEF Committed
<1>10. PlanTyped(n, branch, p)
  BY <1>4, <1>5, <1>8, <1>9 DEF PlanTyped
<1>11. PlanTyped(n, branch, Writes(S) \o p)
  BY <1>1, <1>7, <1>10, TypedPrefix
<1> QED BY <1>6, <1>11 DEF n

----------------------------------------------------------------------------
(* The type invariant                                                      *)

\* The repository after its first commit is typed.
LEMMA TypeInit == Init => TypeInv
<1> SUFFICES ASSUME Init PROVE TypeInv
  OBVIOUS
<1>1. PICK t \in Tree :
        /\ parents = << << >> >> /\ rootTree = <<t>>
        /\ stored = [commits |-> {1}, objects |-> TreeClosure(t, {})]
        /\ branch = [b \in Branches |-> IF b = Main THEN 1 ELSE NoCommit] /\ head = Main
        /\ headLog = {1} /\ staged = t
        /\ undoable = [b \in Branches |-> IF b = Main THEN <<1>> ELSE << >>]
        /\ plan = << >> /\ gc = Quiet
  BY DEF Init
<1>2. IsGraph(parents) /\ Len(parents) = 1
  BY <1>1 DEF IsGraph
<1>3. rootTree \in Seq(Tree) /\ Len(rootTree) = 1
  BY <1>1
<1>4. stored \in Store /\ stored.commits \subseteq 1..1
  <2>1. TreeClosure(t, {}) \subseteq Object
    BY ClosureIsBelow
  <2> QED BY <1>1, <2>1 DEF Store
<1>5. branch \in [Branches -> 0..1] /\ head \in Branches /\ branch[head] # NoCommit
  BY <1>1, BranchAssumption DEF NoCommit
<1>6. undoable \in [Branches -> Seq(1..1)]
  <2>1. <<1>> \in Seq(1..1) /\ << >> \in Seq(1..1)
    OBVIOUS
  <2> QED BY <1>1, <2>1
<1>7. GcTyped(1, gc)
  BY <1>1 DEF GcTyped, Quiet
<1> QED BY <1>1, <1>2, <1>3, <1>4, <1>5, <1>6, <1>7, NoPlan DEF TypeInv

\* A command begins.
LEMMA TypeStart == TypeInv /\ CommandStart => TypeInv'
<1> SUFFICES ASSUME TypeInv, CommandStart PROVE TypeInv'
  OBVIOUS
<1>1. ASSUME NEW p, PlanTyped(Len(parents), branch, p), Begin(p) PROVE TypeInv'
  BY <1>1 DEF Begin, TypeInv, objectVars, refVars
<1>2. ASSUME NEW t \in Tree, Add(t) PROVE TypeInv'
  BY <1>1, <1>2, AddTyped DEF Add
<1>3. CASE CommitStaged
  BY <1>1, <1>3, CommitTyped DEF CommitStaged
<1>4. ASSUME NEW b \in Branches, CreateBranch(b) PROVE TypeInv'
  BY <1>1, <1>4, CreateTyped DEF CreateBranch
<1>5. ASSUME NEW b \in Branches, SwitchTo(b) PROVE TypeInv'
  BY <1>1, <1>5, SwitchTyped DEF SwitchTo
<1>6. CASE Undo
  BY <1>1, <1>6, UndoTyped DEF Undo
<1> QED BY <1>2, <1>3, <1>4, <1>5, <1>6 DEF CommandStart

\* The step a command is about to take.
LEMMA StepNow ==
    ASSUME TypeInv, plan # << >>
    PROVE  /\ Len(parents) \in Nat /\ Known(Len(parents), {}) = 1..Len(parents)
           /\ Head(plan) = plan[1] /\ StepTyped(Len(parents), branch, {}, Head(plan))
<1>1. IsPlan(plan) /\ \A i \in DOMAIN plan : StepTyped(Len(parents), branch, Earlier(plan, i), plan[i])
  BY DEF TypeInv, PlanTyped
<1>2. Head(plan) = plan[1] /\ 1 \in DOMAIN plan /\ Earlier(plan, 1) = {}
  BY <1>1, PlanTail
<1>3. StepTyped(Len(parents), branch, {}, Head(plan))
  BY <1>1, <1>2
<1>4. ~Committed({})
  BY DEF Committed
<1> QED BY <1>2, <1>3, <1>4 DEF Known, TypeInv, IsGraph

\* What a plan leaves to do is typed whether the command goes on, fails or dies.
LEMMA RestTyped ==
    ASSUME TypeInv, plan # << >>, plan' \in {Tail(plan), << >>},
           Len(parents') \in Nat, Len(parents) <= Len(parents'),
           plan[1][1] = "commit" => Len(parents) + 1 <= Len(parents'),
           \A b \in Branches : branch[b] # NoCommit => branch'[b] # NoCommit
    PROVE  PlanTyped(Len(parents'), branch', plan')
<1>1. Len(parents) \in Nat /\ PlanTyped(Len(parents), branch, plan)
  BY DEF TypeInv, IsGraph
<1>2. PlanTyped(Len(parents'), branch', Tail(plan))
  <2> DEFINE m == Len(parents')
             cr == branch'
  <2>1. /\ m \in Nat /\ Len(parents) <= m /\ (plan[1][1] = "commit" => Len(parents) + 1 <= m)
        /\ \A b \in Branches : branch[b] # NoCommit => cr[b] # NoCommit
    OBVIOUS
  <2> HIDE DEF m, cr
  <2>2. PlanTyped(m, cr, Tail(plan))
    BY <1>1, <2>1, TypedTail
  <2> QED BY <2>2 DEF m, cr
<1> QED BY <1>2, NoPlan

\* A command takes a step that makes no commit and moves no reference.
LEMMA TypeIdleStep ==
    ASSUME TypeInv, plan # << >>, plan' \in {Tail(plan), << >>},
           plan' = << >> \/ plan[1][1] # "commit",
           parents' = parents, rootTree' = rootTree, stored' = stored, gc' = gc,
           branch' = branch, head' = head,
           headLog' \subseteq 1..Len(parents), undoable' \in [Branches -> Seq(1..Len(parents))], staged' \in Tree
    PROVE  TypeInv'
<1>1. PlanTyped(Len(parents'), branch', plan')
  <2>1. CASE plan' = << >>
    BY <2>1, NoPlan
  <2>2. CASE plan[1][1] # "commit"
    BY <2>2, StepNow, RestTyped
  <2> QED BY <2>1, <2>2
<1> QED BY <1>1 DEF TypeInv

\* An object is written, or cannot be.
LEMMA TypeWrite ==
    ASSUME TypeInv, NEW o \in Object, WriteObject(o)
    PROVE  TypeInv'
<1>1. /\ plan # << >> /\ Head(plan)[1] = "write" /\ o \in Arg
      /\ UNCHANGED <<parents, rootTree, branch, head, headLog, undoable, staged, gc>>
  BY DEF WriteObject, Doing, writeNode, refVars
<1>2. Arg \subseteq Object
  BY <1>1, StepNow DEF StepTyped, Arg
<1>3. stored' \in Store /\ stored'.commits = stored.commits
  <2>1. stored' = stored \/ stored' = [stored EXCEPT !.objects = @ \cup {o}]
    BY DEF WriteObject
  <2>2. stored \in [commits : SUBSET Nat, objects : SUBSET Object]
    BY DEF TypeInv, Store
  <2> QED BY <2>1, <2>2 DEF Store
<1>4. PlanTyped(Len(parents), branch, plan')
  <2> DEFINE n == Len(parents)
             A == Arg \ {o}
             q == Tail(plan)
  <2>1. plan' = << >> \/ plan' = Writes(A) \o q
    BY DEF WriteObject, Fail
  <2>2. n \in Nat /\ A \subseteq Object
    BY <1>1, <1>2, StepNow
  <2>3. PlanTyped(n, branch, q)
    <3>1. PlanTyped(n, branch, plan) /\ plan[1][1] # "commit"
      BY <1>1, StepNow DEF TypeInv
    <3> HIDE DEF n
    <3> QED BY <1>1, <2>2, <3>1, TypedTail
  <2> HIDE DEF n, A, q
  <2>4. PlanTyped(n, branch, Writes(A) \o q)
    BY <2>2, <2>3, TypedPrefix
  <2> QED BY <2>1, <2>4, NoPlan DEF n
<1> QED BY <1>1, <1>3, <1>4 DEF TypeInv

\* A commit is made.
LEMMA TypeCommit ==
    ASSUME TypeInv, WriteCommit
    PROVE  TypeInv'
<1> DEFINE n == Len(parents)
           c == branch[head]
<1>1. /\ plan # << >> /\ plan' = Tail(plan) /\ parents' = Append(parents, <<c>>)
      /\ rootTree' = Append(rootTree, staged)
      /\ stored' = [stored EXCEPT !.commits = @ \cup {n + 1}]
      /\ UNCHANGED <<branch, head, headLog, undoable, staged, gc>>
  BY DEF WriteCommit, Doing, Proceed, refVars
<1>2. n \in Nat /\ c \in 1..n
  BY DEF TypeInv, IsGraph, NoCommit
<1>3. IsGraph(parents') /\ Len(parents') = n + 1
  <2>1. IsGraph(parents) /\ <<c>> \in Seq(1..n) /\ <<c>> \in Seq(Nat) /\ parents \in Seq(Seq(Nat))
    BY <1>2 DEF TypeInv, IsGraph
  <2>2. IsGraph(Append(parents, <<c>>))
    BY <2>1, ReachGrows
  <2>3. Len(Append(parents, <<c>>)) = n + 1
    BY <2>1, AppendProperties
  <2> QED BY <1>1, <2>2, <2>3
<1>4. rootTree' \in Seq(Tree) /\ Len(rootTree') = n + 1
  BY <1>1, AppendProperties DEF TypeInv
<1>5. stored' \in Store /\ stored'.commits \subseteq 1..(n + 1)
  <2>1. stored \in [commits : SUBSET Nat, objects : SUBSET Object] /\ stored.commits \subseteq 1..n
    BY DEF TypeInv, Store
  <2>2. stored.commits \cup {n + 1} \subseteq 1..(n + 1) /\ stored.commits \cup {n + 1} \subseteq Nat
    BY <1>2, <2>1
  <2>3. stored' = [commits |-> stored.commits \cup {n + 1}, objects |-> stored.objects]
    BY <1>1, <2>1
  <2> HIDE DEF n
  <2> QED BY <2>1, <2>2, <2>3 DEF Store
<1>6. branch' \in [Branches -> 0..(n + 1)] /\ headLog' \subseteq 1..(n + 1) /\ head' \in Branches
      /\ branch'[head'] # NoCommit /\ staged' \in Tree
  <2>1. 0..n \subseteq 0..(n + 1) /\ 1..n \subseteq 1..(n + 1)
    BY <1>2
  <2> QED BY <1>1, <2>1 DEF TypeInv
<1>7. undoable' \in [Branches -> Seq(1..(n + 1))]
  <2>1. 1..n \subseteq 1..(n + 1)
    BY <1>2
  <2>2. \A b \in Branches : undoable[b] \in Seq(1..n)
    BY DEF TypeInv
  <2>3. \A b \in Branches : undoable[b] \in Seq(1..(n + 1))
    BY <2>1, <2>2, SeqGrows
  <2> QED BY <1>1, <2>3 DEF TypeInv
<1>8. GcTyped(n + 1, gc')
  BY <1>1, <1>2 DEF GcTyped, TypeInv
<1>9. PlanTyped(n + 1, branch', plan')
  <2>1. PlanTyped(Len(parents'), branch', plan')
    BY <1>1, <1>2, <1>3, RestTyped
  <2> QED BY <1>3, <2>1
<1> QED BY <1>3, <1>4, <1>5, <1>6, <1>7, <1>8, <1>9 DEF TypeInv

\* A branch moves, is made, or is switched to.
LEMMA TypeMoveRef ==
    ASSUME TypeInv, MoveRef
    PROVE  TypeInv'
<1> DEFINE n == Len(parents)
<1>1. /\ plan # << >> /\ plan' = Tail(plan)
      /\ UNCHANGED <<parents, rootTree, stored, headLog, undoable, staged, gc>>
  BY DEF MoveRef, Doing, Proceed, objectVars
<1>2. /\ n \in Nat /\ Known(n, {}) = 1..n /\ Head(plan) = plan[1]
      /\ StepTyped(n, branch, {}, Head(plan)) /\ branch[head] \in 1..n /\ branch \in [Branches -> 0..n]
  <2>1. /\ n \in Nat /\ Known(n, {}) = 1..n /\ Head(plan) = plan[1]
        /\ StepTyped(n, branch, {}, Head(plan))
    BY <1>1, StepNow
  <2> QED BY <2>1 DEF TypeInv, NoCommit
<1>3. Head(plan)[1] \in {"ref", "create", "head"}
  BY DEF MoveRef, Doing
<1>4. /\ branch' \in [Branches -> 0..n] /\ head' \in Branches /\ branch'[head'] # NoCommit
      /\ \A b \in Branches : branch[b] # NoCommit => branch'[b] # NoCommit
  <2>1. CASE Doing("ref") /\ branch' = [branch EXCEPT ![head] = Arg] /\ UNCHANGED head
    <3>1. Arg \in 1..n
      BY <1>2, <2>1 DEF StepTyped, Doing, Arg
    <3> QED BY <1>2, <2>1, <3>1 DEF TypeInv, NoCommit
  <2>2. CASE Doing("create") /\ branch' = [branch EXCEPT ![Arg] = branch[head]] /\ UNCHANGED head
    <3>1. Arg \in Branches
      BY <1>2, <2>2 DEF StepTyped, Doing, Arg
    <3> QED BY <1>2, <2>2, <3>1 DEF TypeInv, NoCommit
  <2>3. CASE Doing("head") /\ head' = Arg /\ UNCHANGED branch
    <3>1. Arg \in Branches /\ branch[Arg] # NoCommit
      BY <1>2, <2>3 DEF StepTyped, Doing, Arg
    <3> QED BY <1>2, <2>3, <3>1 DEF TypeInv
  <2> QED BY <2>1, <2>2, <2>3 DEF MoveRef
<1>5. PlanTyped(Len(parents'), branch', plan')
  BY <1>1, <1>2, <1>3, <1>4, RestTyped
<1> QED BY <1>1, <1>4, <1>5 DEF TypeInv

\* A reflog is written.
LEMMA TypeLog ==
    ASSUME TypeInv, AppendLog
    PROVE  TypeInv'
<1> DEFINE n == Len(parents)
<1>1. /\ plan # << >> /\ plan' = Tail(plan) /\ Head(plan)[1] \in {"headlog", "branchlog"}
      /\ UNCHANGED <<parents, rootTree, stored, branch, head, staged, gc>>
  BY DEF AppendLog, Doing, Proceed, objectVars
<1>2. /\ n \in Nat /\ Known(n, {}) = 1..n /\ Head(plan) = plan[1]
      /\ StepTyped(n, branch, {}, Head(plan))
  BY <1>1, StepNow
<1>3. headLog' \subseteq 1..n /\ undoable' \in [Branches -> Seq(1..n)]
  <2>1. CASE Doing("headlog") /\ headLog' = headLog \cup (Arg \ {NoCommit}) /\ UNCHANGED undoable
    <3>1. Arg \subseteq 1..n \cup {NoCommit}
      BY <1>2, <2>1 DEF StepTyped, Doing, Arg
    <3> QED BY <2>1, <3>1 DEF TypeInv
  <2>2. CASE Doing("branchlog") /\ undoable' = [undoable EXCEPT ![head] = Arg] /\ UNCHANGED headLog
    <3>1. Arg \in Seq(1..n)
      BY <1>2, <2>2 DEF StepTyped, Doing, Arg
    <3>2. undoable \in [Branches -> Seq(1..n)] /\ headLog \subseteq 1..n
      BY DEF TypeInv
    <3> QED BY <2>2, <3>1, <3>2
  <2> QED BY <2>1, <2>2 DEF AppendLog
<1>4. staged' \in Tree
  BY <1>1 DEF TypeInv
<1> QED BY <1>1, <1>2, <1>3, <1>4, TypeIdleStep

\* The steps that check, write the staging index, remove the graph index or crash.
LEMMA TypeOtherStep ==
    ASSUME TypeInv, CheckChanged \/ Checkout \/ WriteIndex \/ Invalidate \/ CommandCrash
    PROVE  TypeInv'
<1>1. /\ plan # << >> /\ plan' \in {Tail(plan), << >>}
      /\ plan' = << >> \/ Head(plan)[1] # "commit"
      /\ UNCHANGED <<parents, rootTree, stored, branch, head, headLog, undoable, gc>>
  BY DEF CheckChanged, Checkout, WriteIndex, Invalidate, CommandCrash, Doing, Proceed, Fail, objectVars, refVars
<1>2. Head(plan) = plan[1] /\ StepTyped(Len(parents), branch, {}, Head(plan))
  BY <1>1, StepNow
<1>3. staged' \in Tree
  <2>1. CASE WriteIndex
    BY <1>2, <2>1 DEF WriteIndex, StepTyped, Doing, Arg
  <2>2. CASE ~WriteIndex
    BY <2>2 DEF CheckChanged, Checkout, Invalidate, CommandCrash, refVars, TypeInv
  <2> QED BY <2>1, <2>2
<1>4. headLog' \subseteq 1..Len(parents) /\ undoable' \in [Branches -> Seq(1..Len(parents))]
  BY <1>1 DEF TypeInv
<1> QED BY <1>1, <1>2, <1>3, <1>4, TypeIdleStep

\* Every step of a command keeps the types.
LEMMA TypeStep == TypeInv /\ CommandStep => TypeInv'
BY TypeWrite, TypeCommit, TypeMoveRef, TypeLog, TypeOtherStep DEF CommandStep, Object

\* Every step of a collection keeps the types.
LEMMA TypeCollect == TypeInv /\ Collect => TypeInv'
<1> SUFFICES ASSUME TypeInv, Collect PROVE TypeInv'
  OBVIOUS
<1> DEFINE n == Len(parents)
<1>1. UNCHANGED <<parents, rootTree, branch, head, headLog, undoable, staged, plan>>
  BY DEF Collect, ListRefs, Mark, listLooseObjects, Sweep, EndCollect, CollectCrash, objectVars, refVars
<1>2. GcTyped(n, gc) /\ GcTyped(n, Quiet)
  BY DEF TypeInv, GcTyped, Quiet
<1>3. GcTyped(n, gc')
  <2>1. CASE ListRefs
    <3> DEFINE R == {branch[b] : b \in Branches} \cap stored.commits
    <3>1. R \subseteq 1..n
      BY DEF TypeInv
    <3>2. gc' = [Quiet EXCEPT !.phase = "roots", !.roots = R]
      BY <2>1 DEF ListRefs
    <3> HIDE DEF R, n
    <3> QED BY <3>1, <3>2 DEF GcTyped, Quiet
  <2>2. CASE Mark
    <3>1. gc' = Quiet \/ \E k : gc' = [gc EXCEPT !.phase = "list", !.keep = k]
      BY <2>2 DEF Mark
    <3> HIDE DEF n
    <3>2. ASSUME NEW k, gc' = [gc EXCEPT !.phase = "list", !.keep = k] PROVE GcTyped(n, gc')
      BY <1>2, <3>2 DEF GcTyped
    <3> QED BY <1>2, <3>1, <3>2
  <2>3. CASE listLooseObjects
    <3> HIDE DEF n
    <3> QED BY <1>2, <2>3 DEF listLooseObjects, GcTyped
  <2>4. CASE Sweep
    <3> HIDE DEF n
    <3>1. \/ \E c : gc' = [gc EXCEPT !.left.commits = @ \ {c}]
          \/ \E o : gc' = [gc EXCEPT !.left.objects = @ \ {o}]
      BY <2>4 DEF Sweep, RemoveCommit, RemoveObject
    <3>2. ASSUME NEW c, gc' = [gc EXCEPT !.left.commits = @ \ {c}] PROVE GcTyped(n, gc')
      BY <1>2, <3>2 DEF GcTyped
    <3>3. ASSUME NEW o, gc' = [gc EXCEPT !.left.objects = @ \ {o}] PROVE GcTyped(n, gc')
      BY <1>2, <3>3 DEF GcTyped
    <3> QED BY <3>1, <3>2, <3>3
  <2>5. CASE EndCollect \/ CollectCrash
    BY <1>2, <2>5 DEF EndCollect, CollectCrash
  <2> QED BY <2>1, <2>2, <2>3, <2>4, <2>5 DEF Collect
<1>4. stored' \in Store /\ stored'.commits \subseteq 1..n
  <2>0. stored \in [commits : SUBSET Nat, objects : SUBSET Object] /\ stored.commits \subseteq 1..n
    BY DEF TypeInv, Store
  <2>1. \/ stored' = stored
        \/ \E c : stored' = [stored EXCEPT !.commits = @ \ {c}]
        \/ \E o : stored' = [stored EXCEPT !.objects = @ \ {o}]
    BY DEF Collect, ListRefs, Mark, listLooseObjects, Sweep, RemoveCommit, RemoveObject, EndCollect, CollectCrash,
           objectVars
  <2> HIDE DEF n
  <2>2. ASSUME NEW c, stored' = [stored EXCEPT !.commits = @ \ {c}]
        PROVE  stored' \in Store /\ stored'.commits \subseteq 1..n
    BY <2>0, <2>2 DEF Store
  <2>3. ASSUME NEW o, stored' = [stored EXCEPT !.objects = @ \ {o}]
        PROVE  stored' \in Store /\ stored'.commits \subseteq 1..n
    BY <2>0, <2>3 DEF Store
  <2> QED BY <2>0, <2>1, <2>2, <2>3 DEF Store
<1> QED BY <1>1, <1>3, <1>4 DEF TypeInv

\* A history reader touches neither objects nor references.
LEMMA HistoryFrame ==
    ASSUME NEW p \in Readers, History(p)
    PROVE  /\ UNCHANGED <<objectVars, refVars, plan, gc>>
           /\ overlap \subseteq overlap'
BY DEF History, resolveHEAD, Load, Build, OpenTmp, WriteTmp, RenameTmp, RemoveTmp, historyFromStore

\* In every behaviour the references, logs and plans name commits that were made.
THEOREM TypeCorrect == Spec => []TypeInv
<1>1. TypeInv /\ [Next]_vars => TypeInv'
  <2> SUFFICES ASSUME TypeInv, [Next]_vars PROVE TypeInv'
    OBVIOUS
  <2>1. CASE UNCHANGED vars
    BY <2>1 DEF TypeInv, vars, objectVars, refVars
  <2>2. ASSUME NEW p \in Readers, History(p) PROVE TypeInv'
    <3>1. UNCHANGED <<objectVars, refVars, plan, gc>>
      BY <2>2, HistoryFrame
    <3> QED BY <3>1 DEF TypeInv, objectVars, refVars
  <2> QED BY <2>1, <2>2, TypeStart, TypeStep, TypeCollect DEF Next
<1> QED BY <1>1, TypeInit, PTL DEF Spec

----------------------------------------------------------------------------
(* verify                                                                  *)

\* When verify's local checks find nothing wrong, the history of every branch is stored down
\* to the blobs, in every state that races and crashes can lead to (VerifySound).
THEOREM VerifyMissesNothing == Spec => []VerifySound
<1>1. TypeInv => VerifySound
  <2> SUFFICES ASSUME TypeInv, Healthy, NEW b \in Branches, NEW c \in Reach(parents, branch[b])
               PROVE  c \in stored.commits /\ TreeClosure(rootTree[c], {}) \subseteq stored.objects
    BY DEF VerifySound, Whole
  <2>1. IsGraph(parents) /\ stored.commits \subseteq DOMAIN parents /\ rootTree \in [DOMAIN parents -> Tree]
    BY DEF TypeInv, IsGraph
  <2>2. Closed(parents, stored.commits)
    <3>1. \A d \in stored.commits : Range(parents[d]) \subseteq stored.commits
      BY DEF Healthy, verifyCommits
    <3> QED BY <3>1 DEF Closed, Range
  <2>3. branch[b] # NoCommit
    BY ReachNone
  <2>4. branch[b] \in stored.commits
    BY <2>3 DEF Healthy, verifyRefs
  <2>5. c \in stored.commits
    BY <2>1, <2>2, <2>4, ReachLeast
  <2>6. rootTree[c] \in Tree /\ rootTree[c] \in stored.objects
    BY <2>1, <2>5 DEF Healthy, verifyCommits
  <2>7. Fenced(Tree, Entries, {}, stored.objects)
    BY DEF Healthy, verifyTrees, Fenced
  <2>8. Below(Tree, Blob, Entries, {}, rootTree[c]) \subseteq stored.objects
    BY <2>6, <2>7, EntriesAssumption, BelowLeast
  <2> QED BY <2>5, <2>6, <2>8, ClosureIsBelow
<1> QED BY <1>1, TypeCorrect, PTL

----------------------------------------------------------------------------
(* What a collection may remove                                            *)

\* What a store has, a larger one has.
LEMMA FineGrows ==
    ASSUME NEW G, NEW R, NEW S, NEW V, NEW c, Fine(G, R, S, c),
           S.commits \subseteq V.commits, S.objects \subseteq V.objects
    PROVE  Fine(G, R, V, c)
BY DEF Fine

\* What the steps of a run of writes write.
LEMMA PendingWrites ==
    ASSUME NEW A, NEW E
    PROVE  Pending(WriteSteps(A) \cup E) = A \cup Pending(E)
<1>1. CASE A = {}
  BY <1>1 DEF WriteSteps
<1>2. CASE A # {}
  <2> DEFINE w == <<"write", A>>
  <2>1. WriteSteps(A) = {w} /\ w[1] = "write" /\ w[2] = A
    BY <1>2 DEF WriteSteps
  <2> HIDE DEF w
  <2> QED BY <2>1 DEF Pending
<1> QED BY <1>1, <1>2

\* A run of writes before a plan whose steps find what they need after it.
LEMMA GoodPrefix ==
    ASSUME NEW G, NEW R, NEW S, NEW t, NEW A, NEW q, IsPlan(q),
           \A j \in DOMAIN q : StepGood(G, R, S, t, WriteSteps(A) \cup Earlier(q, j), q[j])
    PROVE  PlanGood(G, R, S, t, Writes(A) \o q)
<1> DEFINE p == Writes(A) \o q
           w == <<"write", A>>
<1>1. \A i \in DOMAIN p : p[i] = w \/ Follows(p, i, q, A)
  BY PlanPrefix
<1>2. \A E : StepGood(G, R, S, t, E, w)
  BY DEF StepGood
<1> HIDE DEF p, w
<1>3. ASSUME NEW i \in DOMAIN p, Follows(p, i, q, A) PROVE StepGood(G, R, S, t, Earlier(p, i), p[i])
  BY <1>3 DEF Follows
<1> QED BY <1>1, <1>2, <1>3 DEF PlanGood, p

\* The rest of a plan finds what it needs once its first step is done.
LEMMA GoodTail ==
    ASSUME NEW G, NEW R, NEW S, NEW t, NEW H, NEW Q, NEW V, NEW u,
           NEW p, IsPlan(p), p # << >>, PlanGood(G, R, S, t, p),
           p[1][1] # "write", S.objects \subseteq V.objects, t = u \/ p[1][1] = "index",
           \A d \in DOMAIN R : d \in DOMAIN Q /\ Q[d] = R[d],
           \A E, c : Coming(G, R, S, {p[1]} \cup E, c) => Coming(H, Q, V, E, c),
           p[1][1] = "checkout" /\ p[1][2] \in DOMAIN R =>
               TreeClosure(R[p[1][2]], {}) \cap Blob \subseteq V.objects
    PROVE  PlanGood(H, Q, V, u, Tail(p))
<1> DEFINE q == Tail(p)
<1>1. \A i \in DOMAIN q : /\ i + 1 \in DOMAIN p /\ q[i] = p[i + 1]
                          /\ Earlier(p, i + 1) = {p[1]} \cup Earlier(q, i)
  BY PlanTail
<1> HIDE DEF q
<1>2. ASSUME NEW i \in DOMAIN q PROVE StepGood(H, Q, V, u, Earlier(q, i), q[i])
  <2> DEFINE E == Earlier(q, i)
             F == {p[1]} \cup E
             e == q[i]
  <2>1. StepGood(G, R, S, t, F, e)
    BY <1>1 DEF PlanGood
  <2>2. Pending(F) = Pending(E)
    BY DEF Pending
  <2> HIDE DEF E, e
  <2>3. ASSUME e[1] = "commit"
        PROVE  /\ TreeClosure(u, {}) \subseteq V.objects \cup Pending(E)
               /\ \A x \in E : x[1] # "index"
    BY <2>1, <2>2, <2>3 DEF StepGood
  <2>4. ASSUME e[1] = "index"
        PROVE  \/ TreeClosure(e[2], {}) \cap Blob \subseteq V.objects \cup Pending(E)
               \/ \E x \in E : x[1] = "checkout" /\ x[2] \in DOMAIN Q /\ Q[x[2]] = e[2]
    <3>1. CASE TreeClosure(e[2], {}) \cap Blob \subseteq S.objects \cup Pending(F)
      BY <2>2, <3>1
    <3>2. ASSUME NEW x \in F, x[1] = "checkout", x[2] \in DOMAIN R, R[x[2]] = e[2]
          PROVE  \/ TreeClosure(e[2], {}) \cap Blob \subseteq V.objects
                 \/ \E y \in E : y[1] = "checkout" /\ y[2] \in DOMAIN Q /\ Q[y[2]] = e[2]
      <4>1. CASE x = p[1]
        BY <3>2, <4>1
      <4>2. CASE x \in E
        BY <3>2, <4>2
      <4> QED BY <4>1, <4>2
    <3> QED BY <2>1, <2>4, <3>1, <3>2 DEF StepGood
  <2>5. ASSUME e[1] = "ref" PROVE Coming(H, Q, V, E, e[2])
    BY <2>1, <2>5 DEF StepGood
  <2>6. ASSUME e[1] = "headlog" PROVE \A c \in e[2] \ {NoCommit} : Coming(H, Q, V, E, c)
    BY <2>1, <2>6 DEF StepGood
  <2> QED BY <2>3, <2>4, <2>5, <2>6 DEF StepGood, E, e
<1> QED BY <1>2 DEF PlanGood, q

\* An object is written.
LEMMA GoodWrite ==
    ASSUME NEW G, NEW R, NEW S, NEW t, NEW V, NEW p, IsPlan(p), p # << >>, PlanGood(G, R, S, t, p),
           p[1][1] = "write", NEW o,
           S.commits \subseteq V.commits, S.objects \cup {o} \subseteq V.objects
    PROVE  PlanGood(G, R, V, t, Writes(p[1][2] \ {o}) \o Tail(p))
<1> DEFINE q == Tail(p)
           A == p[1][2] \ {o}
<1>1. /\ IsPlan(q)
      /\ \A i \in DOMAIN q : /\ i + 1 \in DOMAIN p /\ q[i] = p[i + 1]
                             /\ Earlier(p, i + 1) = {p[1]} \cup Earlier(q, i)
  BY PlanTail
<1> HIDE DEF q
<1>2. ASSUME NEW i \in DOMAIN q PROVE StepGood(G, R, V, t, WriteSteps(A) \cup Earlier(q, i), q[i])
  <2> DEFINE E == Earlier(q, i)
             F == {p[1]} \cup E
             D == WriteSteps(A) \cup E
             e == q[i]
  <2>1. StepGood(G, R, S, t, F, e)
    BY <1>1 DEF PlanGood
  <2>2. S.objects \cup Pending(F) \subseteq V.objects \cup Pending(D)
    <3>1. Pending(F) = p[1][2] \cup Pending(E)
      BY DEF Pending
    <3>2. Pending(D) = A \cup Pending(E)
      BY PendingWrites
    <3> QED BY <3>1, <3>2
  <2>3. \A x \in WriteSteps(A) : x[1] = "write"
    BY DEF WriteSteps
  <2>4. \A c : Coming(G, R, S, F, c) => Coming(G, R, V, D, c)
    <3>1. Committed(F) => Committed(D)
      BY DEF Committed
    <3>2. \A c : Fine(G, R, S, c) => Fine(G, R, V, c)
      BY FineGrows
    <3> QED BY <3>1, <3>2 DEF Coming
  <2> HIDE DEF E, e
  <2>5. ASSUME e[1] = "commit"
        PROVE  /\ TreeClosure(t, {}) \subseteq V.objects \cup Pending(D)
               /\ \A x \in D : x[1] # "index"
    BY <2>1, <2>2, <2>3, <2>5 DEF StepGood
  <2>6. ASSUME e[1] = "index"
        PROVE  \/ TreeClosure(e[2], {}) \cap Blob \subseteq V.objects \cup Pending(D)
               \/ \E x \in D : x[1] = "checkout" /\ x[2] \in DOMAIN R /\ R[x[2]] = e[2]
    <3>1. CASE TreeClosure(e[2], {}) \cap Blob \subseteq S.objects \cup Pending(F)
      BY <2>2, <3>1
    <3>2. CASE \E x \in F : x[1] = "checkout" /\ x[2] \in DOMAIN R /\ R[x[2]] = e[2]
      BY <3>2
    <3> QED BY <2>1, <2>6, <3>1, <3>2 DEF StepGood
  <2>7. ASSUME e[1] = "ref" PROVE Coming(G, R, V, D, e[2])
    BY <2>1, <2>4, <2>7 DEF StepGood
  <2>8. ASSUME e[1] = "headlog" PROVE \A c \in e[2] \ {NoCommit} : Coming(G, R, V, D, c)
    BY <2>1, <2>4, <2>8 DEF StepGood
  <2> QED BY <2>5, <2>6, <2>7, <2>8 DEF StepGood, E, e
<1> HIDE DEF A
<1>3. PlanGood(G, R, V, t, Writes(A) \o q)
  BY <1>1, <1>2, GoodPrefix
<1> QED BY <1>3 DEF A, q

\* A commit that is whole needs no step before it.
LEMMA FineComes ==
    ASSUME TypeInv, NEW c \in 1..Len(parents), Fine(parents, rootTree, stored, c)
    PROVE  \A E : Coming(parents, rootTree, stored, E, c)
BY DEF Coming, TypeInv, IsGraph

\* The branches have whole histories.
LEMMA BranchesFine ==
    ASSUME TypeInv, Safe, NEW b \in Branches, branch[b] # NoCommit
    PROVE  branch[b] \in 1..Len(parents) /\ Fine(parents, rootTree, stored, branch[b])
<1>1. branch[b] \in Tips(branch, headLog)
  BY DEF Tips
<1>2. branch[b] \in 1..Len(parents)
  BY DEF TypeInv, NoCommit, IsGraph
<1> QED BY <1>1, <1>2 DEF Safe

\* add writes the blobs of the tree it stages before it stages it.
LEMMA AddGood ==
    ASSUME TypeInv, Safe, NEW t \in Tree
    PROVE  PlanGood(parents, rootTree, stored, staged, AddPlan(t))
<1> DEFINE a == <<"index", t>>
           q == <<a>>
           A == TreeClosure(t, {}) \cap Blob
           W == WriteSteps(A)
<1>1. Pending(W) = A
  <2>1. Pending(WriteSteps(A) \cup {}) = A \cup Pending({}) /\ WriteSteps(A) \cup {} = WriteSteps(A)
    BY PendingWrites
  <2>2. Pending({}) = {}
    BY DEF Pending
  <2> QED BY <2>1, <2>2
<1>2. StepGood(parents, rootTree, stored, staged, W, a)
  <2> HIDE DEF W
  <2> QED BY <1>1 DEF StepGood
<1>3. AddPlan(t) = Writes(A) \o q
  BY DEF AddPlan
<1> HIDE DEF a, A
<1>4. IsPlan(q) /\ DOMAIN q = 1..1 /\ q[1] = a /\ Earlier(q, 1) = {}
  BY PlanOfOne
<1> HIDE DEF q
<1>5. ASSUME NEW j \in DOMAIN q
      PROVE  StepGood(parents, rootTree, stored, staged, WriteSteps(A) \cup Earlier(q, j), q[j])
  <2>1. j = 1
    BY <1>4
  <2>2. WriteSteps(A) \cup Earlier(q, 1) = W
    BY <1>4
  <2> HIDE DEF W
  <2> QED BY <1>2, <1>4, <2>1, <2>2
<1>6. PlanGood(parents, rootTree, stored, staged, Writes(A) \o q)
  BY <1>4, <1>5, GoodPrefix
<1> QED BY <1>3, <1>6

\* branch makes nothing reachable that was not.
LEMMA CreateGood ==
    ASSUME NEW b
    PROVE  PlanGood(parents, rootTree, stored, staged, << <<"create", b>> >>)
<1> DEFINE a == <<"create", b>>
           q == <<a>>
<1>1. \A E : StepGood(parents, rootTree, stored, staged, E, a)
  BY DEF StepGood
<1> HIDE DEF a
<1>2. DOMAIN q = 1..1 /\ q[1] = a
  BY PlanOfOne
<1> HIDE DEF q
<1>3. PlanGood(parents, rootTree, stored, staged, q)
  BY <1>1, <1>2 DEF PlanGood
<1> QED BY <1>3 DEF a, q

\* switch stages a tree it has checked out, and logs commits that are whole.
LEMMA SwitchGood ==
    ASSUME TypeInv, Safe, NEW b \in Branches, branch[b] # NoCommit
    PROVE  PlanGood(parents, rootTree, stored, staged, SwitchPlan(b))
<1> DEFINE Good(E, e) == StepGood(parents, rootTree, stored, staged, E, e)
           c == branch[b]
           h == branch[head]
           s1 == <<"checkout", c>>
           s2 == <<"index", rootTree[c]>>
           s3 == <<"head", b>>
           s4 == <<"headlog", {h, c}>>
           p == <<s1, s2, s3, s4>>
<1>1. /\ c \in 1..Len(parents) /\ Fine(parents, rootTree, stored, c)
      /\ h \in 1..Len(parents) /\ Fine(parents, rootTree, stored, h)
  BY BranchesFine DEF TypeInv
<1>2. c \in DOMAIN rootTree
  BY <1>1 DEF TypeInv
<1>3. \A E : Coming(parents, rootTree, stored, E, c) /\ Coming(parents, rootTree, stored, E, h)
  BY <1>1, FineComes
<1>4. SwitchPlan(b) = p
  BY DEF SwitchPlan
<1> HIDE DEF c, h
<1>5. \A E : Good(E, s1) /\ Good(E, s3) /\ Good(E, s4)
  BY <1>3 DEF StepGood
<1>6. Good({s1}, s2)
  <2>1. s1[1] = "checkout" /\ s1[2] = c /\ s2[1] = "index" /\ s2[2] = rootTree[c]
    OBVIOUS
  <2> HIDE DEF s1, s2
  <2> QED BY <1>2, <2>1 DEF StepGood
<1> HIDE DEF s1, s2, s3, s4
<1>7. /\ DOMAIN p = 1..4 /\ p[1] = s1 /\ p[2] = s2 /\ p[3] = s3 /\ p[4] = s4
      /\ Earlier(p, 2) = {s1}
  BY PlanOfFour
<1> HIDE DEF p, Good
<1>8. \A i \in DOMAIN p : Good(Earlier(p, i), p[i])
  BY <1>5, <1>6, <1>7
<1> QED BY <1>4, <1>8 DEF PlanGood, Good

\* undo goes back to a commit that is whole because the branch's tip is.
LEMMA UndoGood ==
    ASSUME TypeInv, Safe, parents[branch[head]] # << >>
    PROVE  PlanGood(parents, rootTree, stored, staged, UndoPlan)
<1> DEFINE Good(E, e) == StepGood(parents, rootTree, stored, staged, E, e)
           c == branch[head]
           prev == parents[c][1]
           s1 == <<"ref", prev>>
           s2 == <<"checkout", prev>>
           s3 == <<"index", rootTree[prev]>>
           s4 == <<"branchlog", Front(undoable[head])>>
           s5 == <<"headlog", {c, prev}>>
           p == <<s1, s2, s3, s4, s5>>
<1>1. IsGraph(parents) /\ c \in 1..Len(parents) /\ c \in DOMAIN parents /\ Fine(parents, rootTree, stored, c)
  BY BranchesFine DEF TypeInv, IsGraph
<1>2. 1 \in DOMAIN parents[c] /\ prev \in 1..(c - 1)
  <2>1. parents[c] \in Seq(Nat) /\ parents[c] # << >>
    BY <1>1 DEF IsGraph
  <2>2. 1 \in DOMAIN parents[c]
    <3> HIDE DEF c
    <3> QED BY <2>1
  <2> QED BY <1>1, <2>2 DEF IsGraph
<1>3. Reach(parents, prev) \subseteq Reach(parents, c)
  BY <1>1, <1>2, ReachUnfolds
<1>4. UndoPlan = p
  BY DEF UndoPlan
<1> HIDE DEF c
<1>5. prev \in 1..Len(parents) /\ prev \in DOMAIN rootTree /\ Fine(parents, rootTree, stored, prev)
  <2>1. prev \in 1..Len(parents)
    BY <1>1, <1>2 DEF IsGraph
  <2>2. prev \in DOMAIN rootTree
    BY <2>1 DEF TypeInv
  <2> QED BY <1>1, <1>3, <2>1, <2>2 DEF Fine
<1>6. \A E : Coming(parents, rootTree, stored, E, c) /\ Coming(parents, rootTree, stored, E, prev)
  BY <1>1, <1>5, FineComes
<1> HIDE DEF prev
<1>7. \A E : Good(E, s1) /\ Good(E, s2) /\ Good(E, s4) /\ Good(E, s5)
  BY <1>6 DEF StepGood
<1>8. Good({s1, s2}, s3)
  <2>1. s2[1] = "checkout" /\ s2[2] = prev /\ s3[1] = "index" /\ s3[2] = rootTree[prev]
    OBVIOUS
  <2> HIDE DEF s1, s2, s3
  <2> QED BY <1>5, <2>1 DEF StepGood
<1> HIDE DEF s1, s2, s3, s4, s5
<1>9. /\ DOMAIN p = 1..5 /\ p[1] = s1 /\ p[2] = s2 /\ p[3] = s3 /\ p[4] = s4 /\ p[5] = s5
      /\ Earlier(p, 3) = {s1, s2}
  BY PlanOfFive
<1> HIDE DEF p, Good
<1>10. ASSUME NEW i \in DOMAIN p PROVE Good(Earlier(p, i), p[i])
  <2>1. CASE i = 3
    BY <1>8, <1>9, <2>1
  <2>2. CASE i # 3
    <3>1. p[i] \in {s1, s2, s4, s5}
      BY <1>9, <2>2
    <3> QED BY <1>7, <3>1
  <2> QED BY <2>1, <2>2
<1> QED BY <1>4, <1>10 DEF PlanGood, Good

\* commit writes the staged trees before the commit, and the commit before the branch moves to it.
LEMMA CommitGood ==
    ASSUME TypeInv, Safe
    PROVE  PlanGood(parents, rootTree, stored, staged, CommitPlan)
<1> DEFINE Good(E, e) == StepGood(parents, rootTree, stored, staged, E, e)
           n == Len(parents)
           c == branch[head]
           log == Append(undoable[head], n + 1)
           s1 == <<"changed">>
           s2 == <<"commit">>
           s3 == <<"ref", n + 1>>
           s4 == <<"headlog", {c, n + 1}>>
           s5 == <<"branchlog", log>>
           s6 == <<"invalidate">>
           p == <<s1, s2, s3, s4, s5, s6>>
           A == TreeClosure(staged, {}) \cap Tree
           W == WriteSteps(A)
<1>1. c \in 1..n /\ Fine(parents, rootTree, stored, c)
  BY BranchesFine DEF TypeInv
<1>2. \A E : Coming(parents, rootTree, stored, E, c)
  BY <1>1, FineComes
<1>3. \A E : Committed(E) => Coming(parents, rootTree, stored, E, n + 1)
  BY DEF Coming
<1>4. CommitPlan = Writes(A) \o p
  BY DEF CommitPlan
<1>5. TreeClosure(staged, {}) \subseteq stored.objects \cup A
  <2>1. TreeClosure(staged, {}) \subseteq Tree \cup Blob
    BY ClosureIsBelow DEF TypeInv, Object
  <2>2. TreeClosure(staged, {}) \cap Blob \subseteq stored.objects
    BY DEF Safe
  <2> QED BY <2>1, <2>2
<1>6. \A x \in W : x[1] = "write"
  BY DEF WriteSteps
<1> HIDE DEF n, c, A, log
<1>7. \A E : Good(E, s1) /\ Good(E, s5) /\ Good(E, s6)
  BY DEF StepGood
<1>8. \A E : Committed(E) => Good(E, s3) /\ Good(E, s4)
  BY <1>2, <1>3 DEF StepGood
<1>9. Good(W \cup {s1}, s2)
  <2>1. s1[1] = "changed" /\ s2[1] = "commit"
    OBVIOUS
  <2> HIDE DEF s1, s2
  <2>2. A \subseteq Pending(W \cup {s1})
    BY PendingWrites
  <2> HIDE DEF W
  <2> QED BY <1>5, <1>6, <2>1, <2>2 DEF StepGood
<1>10. s2[1] = "commit"
  OBVIOUS
<1> HIDE DEF s1, s2, s3, s4, s5, s6, Good
<1>11. /\ IsPlan(p) /\ DOMAIN p = 1..6
       /\ p[1] = s1 /\ p[2] = s2 /\ p[3] = s3 /\ p[4] = s4 /\ p[5] = s5 /\ p[6] = s6
       /\ Earlier(p, 2) = {s1} /\ s2 \in Earlier(p, 3) /\ s2 \in Earlier(p, 4)
  BY PlanOfSix
<1> HIDE DEF p
<1>12. Committed(W \cup Earlier(p, 3)) /\ Committed(W \cup Earlier(p, 4))
  BY <1>10, <1>11 DEF Committed
<1>13. \A j \in DOMAIN p : Good(W \cup Earlier(p, j), p[j])
  BY <1>7, <1>8, <1>9, <1>11, <1>12
<1>14. PlanGood(parents, rootTree, stored, staged, Writes(A) \o p)
  BY <1>11, <1>13, GoodPrefix DEF Good
<1> QED BY <1>4, <1>14

\* A finite set as a sequence has the elements of the set.
LEMMA SetToSeqLists ==
    ASSUME NEW T, IsFiniteSet(T)
    PROVE  SetToSeq(T) \in Seq(T) /\ \A x \in T : \E i \in DOMAIN SetToSeq(T) : SetToSeq(T)[i] = x
<1> DEFINE n == Cardinality(T)
           f == SetToSeq(T)
<1>1. n \in Nat /\ ExistsBijection(1..n, T)
  BY FS_CardinalityType
<1>2. \E g \in [1..n -> T] : IsInjective(g)
  BY <1>1 DEF ExistsBijection, Bijection, Injection
<1>3. f \in [1..n -> T] /\ IsInjective(f)
  BY <1>2 DEF SetToSeq
<1> HIDE DEF f
<1>4. f \in Injection(1..n, T)
  BY <1>3 DEF Injection
<1>5. IsFiniteSet(1..n) /\ Cardinality(1..n) = n
  BY <1>1, FS_Interval
<1>6. f \in Surjection(1..n, T)
  BY <1>4, <1>5, FS_Injection
<1>7. \A x \in T : \E i \in 1..n : f[i] = x
  BY <1>6 DEF Surjection
<1>8. f \in Seq(T) /\ DOMAIN f = 1..n
  BY <1>1, <1>3
<1> HIDE DEF n
<1> QED BY <1>7, <1>8 DEF f

\* What gc marks as reachable has all the history of its roots.
LEMMA MarkSpares ==
    ASSUME NEW G, IsGraph(G), NEW R \in [DOMAIN G -> Tree], NEW S \in SUBSET DOMAIN G,
           NEW T \in SUBSET (1..Len(G)), ~SendCommits(G, S, SetToSeq(T), << >>).failed
    PROVE  \A c \in T : Fine(G, R, Enumerate(G, R, S, SetToSeq(T), << >>), c)
<1> DEFINE wants == SetToSeq(T)
           haves == << >>
           send == SendCommits(G, S, wants, haves).commits
           tips == Boundary(G, S, haves).tips
           have == UNION {TreeClosure(R[c], {}) : c \in tips}
           objects == UNION {TreeClosure(R[c], have) : c \in send}
           E == Enumerate(G, R, S, wants, haves)
<1>1. Len(G) \in Nat /\ IsFiniteSet(T)
  <2>1. Len(G) \in Nat
    BY DEF IsGraph
  <2>2. IsFiniteSet(1..Len(G))
    BY <2>1, FS_Interval
  <2> QED BY <2>1, <2>2, FS_Subset
<1>2. wants \in Seq(0..Len(G)) /\ \A c \in T : \E i \in DOMAIN wants : wants[i] = c
  <2>1. wants \in Seq(T) /\ \A c \in T : \E i \in DOMAIN wants : wants[i] = c
    BY <1>1, SetToSeqLists
  <2>2. T \subseteq 0..Len(G)
    BY <1>1
  <2> HIDE DEF wants
  <2> QED BY <2>1, <2>2, SeqGrows
<1>3. haves \in Seq(DOMAIN G) /\ Had(G, haves) = {}
  BY DEF Had
<1>4. tips = {}
  <2> HIDE DEF haves
  <2> QED BY <1>3, BoundaryInHad
<1>5. have = {}
  BY <1>4
<1>6. E.commits = send /\ E.objects = objects
  BY DEF Enumerate
<1>7. \A j \in DOMAIN wants : Reach(G, wants[j]) \subseteq send
  <2>1. ~SendCommits(G, S, wants, haves).failed
    OBVIOUS
  <2> HIDE DEF haves, wants
  <2>2. \A j \in DOMAIN wants : Reach(G, wants[j]) \subseteq send \cup Had(G, haves)
    BY <1>2, <1>3, <2>1, SendCompletes
  <2> QED BY <1>3, <2>2
<1>8. \A c \in send : TreeClosure(R[c], {}) \subseteq objects
  <2> HIDE DEF have, send
  <2>1. \A c \in send : TreeClosure(R[c], have) \subseteq objects
    OBVIOUS
  <2> QED BY <1>5, <2>1
<1> HIDE DEF wants, haves, send, objects, E
<1>9. \A c \in T : Fine(G, R, E, c)
  BY <1>2, <1>6, <1>7, <1>8 DEF Fine
<1> QED BY <1>9 DEF E, wants, haves

\* No collection is under way while a command runs.
LEMMA GcIdle ==
    /\ \A G, R, br, log, p, g : g.phase = "idle" => GcGood(G, R, br, log, p, g)
    /\ \A G, R, S, t : PlanGood(G, R, S, t, << >>)
    /\ Safe /\ plan # << >> => gc.phase = "idle"
BY DEF GcGood, PlanGood, Safe

\* A command begins, and has seen no collection.
LEMMA SafeStart ==
    ASSUME TypeInv, Safe, CommandStart, "gc" \notin overlap'
    PROVE  Safe'
<1>1. ASSUME NEW p, PlanGood(parents, rootTree, stored, staged, p), Begin(p) PROVE Safe'
  <2>1. gc.phase = "idle"
    BY <1>1 DEF Begin
  <2>2. plan' = p /\ UNCHANGED <<parents, rootTree, stored, branch, headLog, staged, gc>>
    BY <1>1 DEF Begin, objectVars, refVars
  <2> QED BY <1>1, <2>1, <2>2, GcIdle DEF Safe
<1>2. ASSUME NEW t \in Tree, Add(t) PROVE Safe'
  BY <1>1, <1>2, AddGood DEF Add
<1>3. CASE CommitStaged
  BY <1>1, <1>3, CommitGood DEF CommitStaged
<1>4. ASSUME NEW b \in Branches, CreateBranch(b) PROVE Safe'
  BY <1>1, <1>4, CreateGood DEF CreateBranch
<1>5. ASSUME NEW b \in Branches, SwitchTo(b) PROVE Safe'
  BY <1>1, <1>5, SwitchGood DEF SwitchTo
<1>6. CASE Undo
  BY <1>1, <1>6, UndoGood DEF Undo
<1> QED BY <1>2, <1>3, <1>4, <1>5, <1>6 DEF CommandStart

\* An object is written: more is stored, and less is left to write.
LEMMA SafeWrite ==
    ASSUME TypeInv, Safe, NEW o \in Object, WriteObject(o)
    PROVE  Safe'
<1>1. /\ plan # << >> /\ Head(plan)[1] = "write"
      /\ UNCHANGED <<parents, rootTree, branch, headLog, staged, gc>>
  BY DEF WriteObject, Doing, refVars
<1>2. stored \in [commits : SUBSET Nat, objects : SUBSET Object]
  BY DEF TypeInv, Store
<1>3. stored.commits \subseteq stored'.commits /\ stored.objects \subseteq stored'.objects
  <2>1. stored' = stored \/ stored' = [stored EXCEPT !.objects = @ \cup {o}]
    BY DEF WriteObject
  <2> QED BY <1>2, <2>1
<1>4. PlanGood(parents, rootTree, stored', staged, plan')
  <2>1. CASE plan' = << >>
    BY <2>1, GcIdle
  <2>2. CASE plan' # << >>
    <3>1. plan' = Writes(Arg \ {o}) \o Tail(plan) /\ stored' = [stored EXCEPT !.objects = @ \cup {o}]
      BY <2>2 DEF WriteObject, Fail
    <3>2. stored.objects \cup {o} \subseteq stored'.objects
      BY <1>2, <3>1
    <3>3. Head(plan) = plan[1] /\ IsPlan(plan) /\ Arg = plan[1][2]
      BY <1>1, StepNow DEF TypeInv, PlanTyped, Arg
    <3>4. PlanGood(parents, rootTree, stored, staged, plan)
      BY DEF Safe
    <3> DEFINE V == stored'
    <3>5. stored.commits \subseteq V.commits /\ stored.objects \cup {o} \subseteq V.objects
      BY <1>3, <3>2
    <3> HIDE DEF V
    <3>6. PlanGood(parents, rootTree, V, staged, Writes(plan[1][2] \ {o}) \o Tail(plan))
      BY <1>1, <3>3, <3>4, <3>5, GoodWrite
    <3> QED BY <3>1, <3>3, <3>6 DEF V
  <2> QED BY <2>1, <2>2
<1>5. \A c \in Tips(branch, headLog) : Fine(parents, rootTree, stored', c)
  BY <1>3, FineGrows DEF Safe
<1>6. TreeClosure(staged, {}) \cap Blob \subseteq stored'.objects
  BY <1>3 DEF Safe
<1> QED BY <1>1, <1>4, <1>5, <1>6, GcIdle DEF Safe

\* The new commit is whole, and the others stay so.
LEMMA FineCommit ==
    ASSUME NEW G, IsGraph(G), NEW R \in Seq(Tree), Len(R) = Len(G), NEW S, NEW h \in 1..Len(G), NEW t \in Tree,
           Fine(G, R, S, h), TreeClosure(t, {}) \subseteq S.objects,
           NEW V, V.commits = S.commits \cup {Len(G) + 1}, V.objects = S.objects
    PROVE  /\ \A c \in 0..Len(G) : Fine(G, R, S, c) => Fine(Append(G, <<h>>), Append(R, t), V, c)
           /\ Fine(Append(G, <<h>>), Append(R, t), V, Len(G) + 1)
           /\ DOMAIN Append(G, <<h>>) = 1..(Len(G) + 1)
           /\ \A d \in DOMAIN R : d \in DOMAIN Append(R, t) /\ Append(R, t)[d] = R[d]
<1> DEFINE n == Len(G)
           ps == <<h>>
           H == Append(G, ps)
           Q == Append(R, t)
<1>1. n \in Nat /\ DOMAIN G = 1..n /\ DOMAIN R = 1..n /\ G \in Seq(Seq(Nat)) /\ ps \in Seq(1..n) /\ ps \in Seq(Nat)
      /\ DOMAIN ps = {1} /\ ps[1] = h
  BY DEF IsGraph
<1>2. /\ DOMAIN H = 1..(n + 1)
      /\ \A c \in 0..n : Reach(H, c) = Reach(G, c)
      /\ Reach(H, n + 1) = {n + 1} \cup UNION {Reach(G, ps[i]) : i \in DOMAIN ps}
  <2> HIDE DEF ps
  <2>1. DOMAIN H = 1..(n + 1)
    BY <1>1, AppendProperties
  <2>2. /\ \A c \in 0..Len(G) : Reach(Append(G, ps), c) = Reach(G, c)
        /\ Reach(Append(G, ps), Len(G) + 1) = {Len(G) + 1} \cup UNION {Reach(G, ps[i]) : i \in DOMAIN ps}
    BY <1>1, ReachGrows
  <2> QED BY <2>1, <2>2
<1>3. Reach(H, n + 1) = {n + 1} \cup Reach(G, h)
  <2> HIDE DEF H, ps
  <2> QED BY <1>1, <1>2
<1>4. /\ Q[n + 1] = t
      /\ \A d \in 1..n : d \in DOMAIN Q /\ Q[d] = R[d]
  <2>1. /\ Q \in Seq(Tree) /\ Len(Q) = n + 1 /\ Q[n + 1] = t
        /\ \A d \in 1..Len(R) : Q[d] = R[d]
    BY AppendProperties
  <2> HIDE DEF Q, n
  <2>2. DOMAIN Q = 1..(n + 1)
    BY <2>1
  <2>3. 1..n \subseteq 1..(n + 1) /\ Len(R) = n
    BY <1>1 DEF n
  <2> QED BY <2>1, <2>2, <2>3
<1>5. \A c \in 0..n : Reach(G, c) \subseteq 1..n
  BY <1>1, ReachIsClosed
<1> HIDE DEF H, Q, n
<1>6. ASSUME NEW c \in 0..n, Fine(G, R, S, c) PROVE Fine(H, Q, V, c)
  <2>1. \A d \in Reach(G, c) : Q[d] = R[d] /\ d \in S.commits /\ TreeClosure(R[d], {}) \subseteq S.objects
    BY <1>4, <1>5, <1>6 DEF Fine
  <2> QED BY <1>2, <2>1 DEF Fine
<1>7. Fine(H, Q, V, n + 1)
  <2>1. h \in 0..n
    BY <1>1 DEF n
  <2>2. \A d \in Reach(G, h) : Q[d] = R[d] /\ d \in S.commits /\ TreeClosure(R[d], {}) \subseteq S.objects
    BY <1>4, <1>5, <2>1 DEF Fine
  <2>3. n + 1 \in V.commits /\ TreeClosure(Q[n + 1], {}) \subseteq V.objects
    BY <1>4 DEF n
  <2> QED BY <1>3, <2>2, <2>3 DEF Fine
<1> QED BY <1>1, <1>2, <1>4, <1>6, <1>7 DEF H, Q, n

\* The branches and HEAD's reflog name commits that were made.
LEMMA TipsMade ==
    ASSUME TypeInv
    PROVE  Len(parents) \in Nat /\ Tips(branch, headLog) \subseteq 0..Len(parents)
<1> DEFINE n == Len(parents)
<1>1. n \in Nat /\ branch \in [Branches -> 0..n] /\ headLog \subseteq 1..n
  BY DEF TypeInv, IsGraph
<1> HIDE DEF n
<1>2. ASSUME NEW c \in Tips(branch, headLog) PROVE c \in 0..n
  <2>1. c \in headLog \/ \E b \in Branches : c = branch[b]
    BY DEF Tips
  <2>2. CASE c \in headLog
    <3>1. c \in 1..n
      BY <1>1, <2>2
    <3> QED BY <1>1, <3>1
  <2>3. ASSUME NEW b \in Branches, c = branch[b] PROVE c \in 0..n
    BY <1>1, <2>3
  <2> QED BY <2>1, <2>2, <2>3
<1> QED BY <1>1, <1>2 DEF n

\* A commit is made, whole: its trees are written and its parent is whole.
LEMMA SafeCommit ==
    ASSUME TypeInv, Safe, WriteCommit
    PROVE  Safe'
<1> DEFINE n == Len(parents)
           h == branch[head]
           H == Append(parents, <<h>>)
           Q == Append(rootTree, staged)
           V == stored'
<1>1. /\ plan # << >> /\ Head(plan)[1] = "commit" /\ plan' = Tail(plan) /\ parents' = H /\ rootTree' = Q
      /\ stored' = [stored EXCEPT !.commits = @ \cup {n + 1}]
      /\ UNCHANGED <<branch, headLog, staged, gc>>
  BY DEF WriteCommit, Doing, Proceed, refVars
<1>2. /\ n \in Nat /\ h \in 1..n /\ Fine(parents, rootTree, stored, h) /\ IsGraph(parents)
      /\ rootTree \in Seq(Tree) /\ Len(rootTree) = n /\ staged \in Tree
      /\ Tips(branch, headLog) \subseteq 0..n
  <2>1. Tips(branch, headLog) \subseteq 0..n /\ n \in Nat
    BY TipsMade
  <2> QED BY <2>1, BranchesFine DEF TypeInv
<1>3. V.commits = stored.commits \cup {n + 1} /\ V.objects = stored.objects
  BY <1>1 DEF TypeInv, Store
<1>4. IsPlan(plan) /\ Head(plan) = plan[1] /\ 1 \in DOMAIN plan /\ Earlier(plan, 1) = {}
  BY <1>1, PlanTail DEF TypeInv, PlanTyped
<1>5. PlanGood(parents, rootTree, stored, staged, plan)
  BY DEF Safe
<1>6. TreeClosure(staged, {}) \subseteq stored.objects
  <2>1. StepGood(parents, rootTree, stored, staged, {}, plan[1])
    BY <1>4, <1>5 DEF PlanGood
  <2>2. Pending({}) = {}
    BY DEF Pending
  <2> QED BY <1>1, <1>4, <2>1, <2>2 DEF StepGood
<1>7. /\ \A c \in 0..n : Fine(parents, rootTree, stored, c) => Fine(H, Q, V, c)
      /\ Fine(H, Q, V, n + 1)
      /\ DOMAIN H = 1..(n + 1)
      /\ \A d \in DOMAIN rootTree : d \in DOMAIN Q /\ Q[d] = rootTree[d]
  <2> HIDE DEF V
  <2> QED BY <1>2, <1>3, <1>6, FineCommit
<1>8. \A c \in Tips(branch, headLog) : Fine(H, Q, V, c)
  BY <1>2, <1>7 DEF Safe
<1>9. PlanGood(H, Q, V, staged, Tail(plan))
  <2>1. ASSUME NEW E, NEW c, Coming(parents, rootTree, stored, {plan[1]} \cup E, c) PROVE Coming(H, Q, V, E, c)
    <3>1. DOMAIN parents = 1..n
      BY <1>2 DEF IsGraph
    <3>2. c \in 1..(n + 1) /\ Fine(H, Q, V, c)
      <4> HIDE DEF H, Q, V
      <4>1. CASE c \in DOMAIN parents /\ Fine(parents, rootTree, stored, c)
        BY <1>2, <1>7, <3>1, <4>1
      <4>2. CASE c = n + 1
        BY <1>2, <1>7, <4>2
      <4> QED BY <2>1, <4>1, <4>2 DEF Coming
    <3> HIDE DEF H, Q, V
    <3> QED BY <1>7, <3>2 DEF Coming
  <2> HIDE DEF H, Q, V
  <2> QED BY <1>1, <1>3, <1>4, <1>5, <1>7, <2>1, GoodTail
<1>10. TreeClosure(staged, {}) \cap Blob \subseteq V.objects
  BY <1>3, <1>6
<1>11. GcGood(H, Q, branch, headLog, Tail(plan), gc)
  BY <1>1, GcIdle
<1> QED BY <1>1, <1>8, <1>9, <1>10, <1>11 DEF Safe

\* The rest of a plan when its first step changes neither commits nor objects.
LEMMA GoodRest ==
    ASSUME TypeInv, Safe, plan # << >>, plan[1][1] \notin {"write", "commit"},
           plan[1][1] = "checkout" => Whole(stored, plan[1][2]),
           NEW u, u = staged \/ plan[1][1] = "index"
    PROVE  PlanGood(parents, rootTree, stored, u, Tail(plan))
<1>1. IsPlan(plan) /\ PlanGood(parents, rootTree, stored, staged, plan)
  BY DEF TypeInv, PlanTyped, Safe
<1>2. ASSUME NEW E, NEW c, Coming(parents, rootTree, stored, {plan[1]} \cup E, c)
      PROVE  Coming(parents, rootTree, stored, E, c)
  BY <1>2 DEF Coming, Committed
<1>3. plan[1][1] = "checkout" => TreeClosure(rootTree[plan[1][2]], {}) \cap Blob \subseteq stored.objects
  BY DEF Whole
<1> QED BY <1>1, <1>2, <1>3, GoodTail

\* What the first step of a plan finds.
LEMMA GoodNow ==
    ASSUME TypeInv, Safe, plan # << >>
    PROVE  /\ Head(plan) = plan[1] /\ gc.phase = "idle"
           /\ Head(plan)[1] = "index" => TreeClosure(Head(plan)[2], {}) \cap Blob \subseteq stored.objects
           /\ Head(plan)[1] = "ref" => Fine(parents, rootTree, stored, Head(plan)[2])
           /\ Head(plan)[1] = "headlog" => \A c \in Head(plan)[2] \ {NoCommit} : Fine(parents, rootTree, stored, c)
<1>1. Head(plan) = plan[1] /\ 1 \in DOMAIN plan /\ Earlier(plan, 1) = {}
  BY PlanTail DEF TypeInv, PlanTyped
<1>2. StepGood(parents, rootTree, stored, staged, {}, plan[1])
  BY <1>1 DEF Safe, PlanGood
<1>3. Pending({}) = {} /\ ~Committed({})
  BY DEF Pending, Committed
<1> QED BY <1>1, <1>2, <1>3, GcIdle DEF StepGood, Coming

\* A branch moves to a commit that is whole.
LEMMA SafeMoveRef ==
    ASSUME TypeInv, Safe, MoveRef
    PROVE  Safe'
<1>1. /\ plan # << >> /\ plan' = Tail(plan) /\ Head(plan)[1] \in {"ref", "create", "head"}
      /\ UNCHANGED <<parents, rootTree, stored, headLog, staged, gc>>
  BY DEF MoveRef, Doing, Proceed, objectVars
<1>2. Head(plan) = plan[1] /\ gc.phase = "idle"
  BY <1>1, GoodNow
<1>3. PlanGood(parents, rootTree, stored, staged, Tail(plan))
  BY <1>1, <1>2, GoodRest
<1>4. \A c \in Tips(branch', headLog) : Fine(parents, rootTree, stored, c)
  <2>0. \A c \in Tips(branch, headLog) : Fine(parents, rootTree, stored, c)
    BY DEF Safe
  <2>1. CASE Doing("ref") /\ branch' = [branch EXCEPT ![head] = Arg]
    <3>1. Fine(parents, rootTree, stored, Arg)
      BY <1>1, <2>1, GoodNow DEF Doing, Arg
    <3>2. \A c \in Tips(branch', headLog) : c \in Tips(branch, headLog) \/ c = Arg
      BY <2>1 DEF Tips, TypeInv
    <3> QED BY <2>0, <3>1, <3>2
  <2>2. CASE Doing("create") /\ branch' = [branch EXCEPT ![Arg] = branch[head]]
    <3>1. \A c \in Tips(branch', headLog) : c \in Tips(branch, headLog)
      BY <2>2 DEF Tips, TypeInv
    <3> QED BY <2>0, <3>1
  <2>3. CASE branch' = branch
    BY <2>0, <2>3
  <2> QED BY <2>1, <2>2, <2>3 DEF MoveRef
<1> QED BY <1>1, <1>2, <1>3, <1>4, GcIdle DEF Safe

\* HEAD's reflog is given commits that are whole.
LEMMA SafeLog ==
    ASSUME TypeInv, Safe, AppendLog
    PROVE  Safe'
<1>1. /\ plan # << >> /\ plan' = Tail(plan) /\ Head(plan)[1] \in {"headlog", "branchlog"}
      /\ UNCHANGED <<parents, rootTree, stored, branch, staged, gc>>
  BY DEF AppendLog, Doing, Proceed, objectVars
<1>2. Head(plan) = plan[1] /\ gc.phase = "idle"
  BY <1>1, GoodNow
<1>3. PlanGood(parents, rootTree, stored, staged, Tail(plan))
  BY <1>1, <1>2, GoodRest
<1>4. \A c \in Tips(branch, headLog') : Fine(parents, rootTree, stored, c)
  <2>0. \A c \in Tips(branch, headLog) : Fine(parents, rootTree, stored, c)
    BY DEF Safe
  <2>1. CASE Doing("headlog") /\ headLog' = headLog \cup (Arg \ {NoCommit})
    <3>1. \A c \in Arg \ {NoCommit} : Fine(parents, rootTree, stored, c)
      BY <1>1, <2>1, GoodNow DEF Doing, Arg
    <3>2. \A c \in Tips(branch, headLog') : c \in Tips(branch, headLog) \/ c \in Arg \ {NoCommit}
      BY <2>1 DEF Tips
    <3> QED BY <2>0, <3>1, <3>2
  <2>2. CASE headLog' = headLog
    BY <2>0, <2>2
  <2> QED BY <2>1, <2>2 DEF AppendLog
<1> QED BY <1>1, <1>2, <1>3, <1>4, GcIdle DEF Safe

\* The steps that check, write the staging index, remove the graph index or crash.
LEMMA SafeOtherStep ==
    ASSUME TypeInv, Safe, CheckChanged \/ Checkout \/ WriteIndex \/ Invalidate \/ CommandCrash
    PROVE  Safe'
<1>1. /\ plan # << >> /\ plan' \in {Tail(plan), << >>}
      /\ plan' = << >> \/ Head(plan)[1] \notin {"write", "commit"}
      /\ plan' = << >> \/ (Head(plan)[1] = "checkout" => Whole(stored, Head(plan)[2]))
      /\ UNCHANGED <<parents, rootTree, stored, branch, headLog, gc>>
  BY DEF CheckChanged, Checkout, WriteIndex, Invalidate, CommandCrash, Doing, Arg, Proceed, Fail, objectVars, refVars
<1>2. Head(plan) = plan[1] /\ gc.phase = "idle"
  BY <1>1, GoodNow
<1>3. TreeClosure(staged', {}) \cap Blob \subseteq stored.objects /\ (staged' = staged \/ plan[1][1] = "index")
  <2>1. CASE WriteIndex
    <3>1. staged' = Head(plan)[2] /\ Head(plan)[1] = "index"
      BY <2>1 DEF WriteIndex, Doing, Arg
    <3> QED BY <1>1, <1>2, <3>1, GoodNow
  <2>2. CASE ~WriteIndex
    <3>1. staged' = staged
      BY <2>2 DEF CheckChanged, Checkout, Invalidate, CommandCrash, refVars
    <3> QED BY <3>1 DEF Safe
  <2> QED BY <2>1, <2>2
<1>4. PlanGood(parents, rootTree, stored, staged', plan')
  <2>1. CASE plan' = << >>
    BY <2>1, GcIdle
  <2>2. CASE plan' # << >>
    BY <1>1, <1>2, <1>3, <2>2, GoodRest
  <2> QED BY <2>1, <2>2
<1> QED BY <1>1, <1>2, <1>3, <1>4, GcIdle DEF Safe

\* A collection reads the references and the reflog, and finds the roots.
LEMMA SafeListRefs ==
    ASSUME TypeInv, Safe, ListRefs, "gc" \notin overlap'
    PROVE  Safe'
<1> DEFINE C == {branch[b] : b \in Branches} \cap stored.commits
<1>1. /\ plan = << >> /\ UNCHANGED <<parents, rootTree, stored, branch, headLog, staged, plan>>
      /\ gc' = [Quiet EXCEPT !.phase = "roots", !.roots = C]
  BY DEF ListRefs, objectVars, refVars
<1>2. {branch[b] : b \in Branches} \ {NoCommit} \subseteq C
  <2> SUFFICES ASSUME NEW b \in Branches, branch[b] # NoCommit PROVE branch[b] \in stored.commits
    OBVIOUS
  <2>1. branch[b] \in 1..Len(parents) /\ Fine(parents, rootTree, stored, branch[b])
    BY BranchesFine
  <2>2. IsGraph(parents) /\ branch[b] \in DOMAIN parents
    BY <2>1 DEF TypeInv, IsGraph
  <2>3. branch[b] \in Reach(parents, branch[b])
    BY <2>2, ReachUnfolds
  <2> QED BY <2>1, <2>3 DEF Fine
<1>3. gc'.phase = "roots" /\ gc'.roots = C
  BY <1>1 DEF Quiet
<1> HIDE DEF C
<1>4. GcGood(parents, rootTree, branch, headLog, plan, gc')
  BY <1>1, <1>2, <1>3 DEF GcGood
<1> QED BY <1>1, <1>4 DEF Safe

\* The collection marks what the roots reach, or ends before it removes anything.
LEMMA SafeMark ==
    ASSUME TypeInv, Safe, Mark
    PROVE  Safe'
<1> DEFINE T == gatherRoots(gc.roots)
           keep == Enumerate(parents, rootTree, stored.commits, SetToSeq(T), << >>)
<1>1. /\ UNCHANGED <<parents, rootTree, stored, branch, headLog, staged, plan>>
      /\ \/ gc' = Quiet
         \/ /\ gc' = [gc EXCEPT !.phase = "list", !.keep = keep]
            /\ ~SendCommits(parents, stored.commits, SetToSeq(T), << >>).failed
  BY DEF Mark, objectVars, refVars
<1>2. plan = << >> /\ {branch[b] : b \in Branches} \ {NoCommit} \subseteq gc.roots
  BY DEF Mark, Safe, GcGood
<1>3. CASE gc' = Quiet
  BY <1>1, <1>3, GcIdle DEF Safe, Quiet
<1>4. CASE /\ gc' = [gc EXCEPT !.phase = "list", !.keep = keep]
           /\ ~SendCommits(parents, stored.commits, SetToSeq(T), << >>).failed
  <2>1. gc'.phase = "list" /\ gc'.keep = keep
    BY <1>4 DEF TypeInv, GcTyped
  <2>2. /\ IsGraph(parents) /\ stored.commits \in SUBSET DOMAIN parents
        /\ rootTree \in [DOMAIN parents -> Tree] /\ T \in SUBSET (1..Len(parents))
    <3>1. IsGraph(parents) /\ stored.commits \in SUBSET DOMAIN parents /\ rootTree \in [DOMAIN parents -> Tree]
      BY DEF TypeInv, IsGraph
    <3>2. T \in SUBSET (1..Len(parents))
      BY DEF gatherRoots, TypeInv, GcTyped
    <3> QED BY <3>1, <3>2
  <2>3. Tips(branch, headLog) \subseteq T
    <3>1. ASSUME NEW c \in headLog PROVE c \in stored.commits
      <4>1. c \in DOMAIN parents
        BY DEF TypeInv, IsGraph
      <4>2. c # NoCommit
        BY DEF TypeInv, NoCommit
      <4>3. Fine(parents, rootTree, stored, c)
        BY <4>2 DEF Safe, Tips
      <4>4. c \in Reach(parents, c)
        BY <2>2, <4>1, ReachUnfolds
      <4> QED BY <4>3, <4>4 DEF Fine
    <3> QED BY <1>2, <3>1 DEF Tips, gatherRoots
  <2> HIDE DEF T
  <2>4. \A c \in T : Fine(parents, rootTree, keep, c)
    BY <1>4, <2>2, MarkSpares
  <2> HIDE DEF keep
  <2>5. Spares(parents, rootTree, gc', Tips(branch, headLog))
    BY <2>1, <2>3, <2>4 DEF Spares
  <2>6. GcGood(parents, rootTree, branch, headLog, plan, gc')
    BY <1>2, <2>1, <2>5 DEF GcGood
  <2> QED BY <1>1, <2>6 DEF Safe
<1> QED BY <1>1, <1>3, <1>4

\* What the collection lists for removal is what it has not marked.
LEMMA SafeListLoose ==
    ASSUME TypeInv, Safe, listLooseObjects
    PROVE  Safe'
<1> DEFINE L == [commits |-> stored.commits \ gc.keep.commits, objects |-> stored.objects \ gc.keep.objects]
<1>1. /\ gc.phase = "list" /\ gc' = [gc EXCEPT !.phase = "sweep", !.left = L]
      /\ UNCHANGED <<parents, rootTree, stored, branch, headLog, staged, plan>>
  BY DEF listLooseObjects, objectVars, refVars
<1>2. L.commits \cap gc.keep.commits = {} /\ L.objects \cap gc.keep.objects = {}
  OBVIOUS
<1> HIDE DEF L
<1>3. gc'.phase = "sweep" /\ gc'.keep = gc.keep /\ gc'.left = L
  BY <1>1 DEF TypeInv, GcTyped
<1>4. plan = << >> /\ Spares(parents, rootTree, gc, Tips(branch, headLog))
  BY <1>1 DEF Safe, GcGood
<1>5. GcGood(parents, rootTree, branch, headLog, plan, gc')
  BY <1>2, <1>3, <1>4 DEF GcGood, Spares
<1> QED BY <1>1, <1>5 DEF Safe

\* What is removed is not kept, and the index does not name it.
LEMMA SafeSweep ==
    ASSUME TypeInv, Safe, Sweep, "gc" \notin overlap'
    PROVE  Safe'
<1>1. gc.phase = "sweep" /\ UNCHANGED <<parents, rootTree, branch, headLog, staged, plan>>
  BY DEF Sweep, refVars
<1>2. /\ plan = << >> /\ Spares(parents, rootTree, gc, Tips(branch, headLog))
      /\ gc.left.commits \cap gc.keep.commits = {} /\ gc.left.objects \cap gc.keep.objects = {}
  BY <1>1 DEF Safe, GcGood
<1>3. stored \in [commits : SUBSET Nat, objects : SUBSET Object]
  BY DEF TypeInv, Store
<1>4. ASSUME gc'.phase = "sweep", gc'.keep = gc.keep,
             gc'.left.commits \subseteq gc.left.commits, gc'.left.objects \subseteq gc.left.objects,
             stored.commits \cap gc.keep.commits \subseteq stored'.commits,
             stored.objects \cap gc.keep.objects \subseteq stored'.objects,
             TreeClosure(staged, {}) \cap Blob \subseteq stored'.objects
      PROVE  Safe'
  <2>1. GcGood(parents, rootTree, branch, headLog, plan, gc')
    BY <1>2, <1>4 DEF GcGood, Spares
  <2>2. \A c \in Tips(branch, headLog) : Fine(parents, rootTree, stored', c)
    <3>1. \A c \in Tips(branch, headLog) : Fine(parents, rootTree, stored, c) /\ Fine(parents, rootTree, gc.keep, c)
      BY <1>2 DEF Safe, Spares
    <3> QED BY <1>4, <3>1 DEF Fine
  <2>3. PlanGood(parents, rootTree, stored', staged, plan)
    BY <1>2, GcIdle
  <2> QED BY <1>1, <1>4, <2>1, <2>2, <2>3 DEF Safe
<1>5. ASSUME NEW c \in gc.left.commits, RemoveCommit(c) PROVE Safe'
  <2>1. gc' = [gc EXCEPT !.left.commits = @ \ {c}] /\ stored' = [stored EXCEPT !.commits = @ \ {c}]
    BY <1>5 DEF RemoveCommit
  <2>2. /\ gc'.phase = "sweep" /\ gc'.keep = gc.keep
        /\ gc'.left.commits \subseteq gc.left.commits /\ gc'.left.objects \subseteq gc.left.objects
    BY <1>1, <2>1 DEF TypeInv, GcTyped
  <2>3. stored'.commits = stored.commits \ {c} /\ stored'.objects = stored.objects
    BY <1>3, <2>1
  <2>4. c \notin gc.keep.commits
    BY <1>2, <1>5
  <2>5. TreeClosure(staged, {}) \cap Blob \subseteq stored'.objects
    BY <2>3 DEF Safe
  <2> QED BY <1>4, <2>2, <2>3, <2>4, <2>5
<1>6. ASSUME NEW o \in gc.left.objects, RemoveObject(o) PROVE Safe'
  <2>1. gc' = [gc EXCEPT !.left.objects = @ \ {o}] /\ stored' = [stored EXCEPT !.objects = @ \ {o}]
    BY <1>6 DEF RemoveObject
  <2>2. /\ gc'.phase = "sweep" /\ gc'.keep = gc.keep
        /\ gc'.left.commits \subseteq gc.left.commits /\ gc'.left.objects \subseteq gc.left.objects
    BY <1>1, <2>1 DEF TypeInv, GcTyped
  <2>3. stored'.objects = stored.objects \ {o} /\ stored'.commits = stored.commits
    BY <1>3, <2>1
  <2>4. o \notin gc.keep.objects
    BY <1>2, <1>6
  <2>5. o \notin TreeClosure(staged, {})
    BY <1>6 DEF RemoveObject
  <2>6. TreeClosure(staged, {}) \cap Blob \subseteq stored'.objects
    BY <2>3, <2>5 DEF Safe
  <2> QED BY <1>4, <2>2, <2>3, <2>4, <2>6
<1> QED BY <1>5, <1>6 DEF Sweep

\* A collection ends or dies: it had marked what it spares.
LEMMA SafeEnd ==
    ASSUME Safe, EndCollect \/ CollectCrash
    PROVE  Safe'
<1>1. gc' = Quiet /\ UNCHANGED <<parents, rootTree, stored, branch, headLog, staged, plan>>
  BY DEF EndCollect, CollectCrash, objectVars, refVars
<1> QED BY <1>1, GcIdle DEF Safe, Quiet

\* What has overlapped is not forgotten.
LEMMA OverlapGrows == [Next]_vars => overlap \subseteq overlap'
<1> SUFFICES ASSUME [Next]_vars PROVE overlap \subseteq overlap'
  OBVIOUS
<1>1. CASE UNCHANGED vars
  BY <1>1 DEF vars
<1>2. CASE CommandStart
  BY <1>2 DEF CommandStart, Add, CommitStaged, CreateBranch, SwitchTo, Undo, Begin
<1>3. CASE CommandStep
  BY <1>3 DEF CommandStep, WriteObject, CheckChanged, WriteCommit, MoveRef, AppendLog, Checkout, WriteIndex,
              Invalidate, CommandCrash
<1>4. CASE Collect
  BY <1>4 DEF Collect, ListRefs, Mark, listLooseObjects, Sweep, RemoveCommit, RemoveObject, EndCollect, CollectCrash
<1>5. CASE \E p \in Readers : History(p)
  BY <1>5, HistoryFrame
<1> QED BY <1>1, <1>2, <1>3, <1>4, <1>5 DEF Next

\* The first commit is whole.
LEMMA GcInit == Init => GcInv
<1> SUFFICES ASSUME Init PROVE Safe
  BY DEF GcInv
<1>1. PICK t \in Tree :
        /\ parents = << << >> >> /\ rootTree = <<t>>
        /\ stored = [commits |-> {1}, objects |-> TreeClosure(t, {})]
        /\ branch = [b \in Branches |-> IF b = Main THEN 1 ELSE NoCommit]
        /\ headLog = {1} /\ staged = t
        /\ plan = << >> /\ gc = Quiet
  BY DEF Init
<1>2. IsGraph(parents) /\ DOMAIN parents = 1..1 /\ 1 \in DOMAIN parents
  BY <1>1 DEF IsGraph
<1>3. Reach(parents, 1) \subseteq {1}
  BY <1>2, ReachInGraph
<1>4. Tips(branch, headLog) = {1}
  BY <1>1 DEF Tips, NoCommit
<1>5. Fine(parents, rootTree, stored, 1)
  <2>1. rootTree[1] = t /\ stored.commits = {1} /\ stored.objects = TreeClosure(t, {})
    BY <1>1
  <2> QED BY <1>3, <2>1 DEF Fine
<1>6. TreeClosure(staged, {}) \cap Blob \subseteq stored.objects
  BY <1>1
<1> QED BY <1>1, <1>4, <1>5, <1>6, GcIdle DEF Safe, Quiet

\* While no command has run beside a collection, what is in use is safe from it.
THEOREM GcHolds == Spec => []GcInv
<1>1. TypeInv /\ GcInv /\ [Next]_vars => GcInv'
  <2> SUFFICES ASSUME TypeInv, GcInv, [Next]_vars, "gc" \notin overlap' PROVE Safe'
    BY DEF GcInv
  <2>0. Safe
    BY OverlapGrows DEF GcInv
  <2>1. CASE UNCHANGED vars
    BY <2>0, <2>1 DEF Safe, vars, objectVars, refVars
  <2>2. CASE CommandStart
    BY <2>0, <2>2, SafeStart
  <2>3. CASE CommandStep
    BY <2>0, <2>3, SafeWrite, SafeCommit, SafeMoveRef, SafeLog, SafeOtherStep DEF CommandStep, Object
  <2>4. CASE Collect
    BY <2>0, <2>4, SafeListRefs, SafeMark, SafeListLoose, SafeSweep, SafeEnd DEF Collect
  <2>5. ASSUME NEW p \in Readers, History(p) PROVE Safe'
    <3>1. UNCHANGED <<objectVars, refVars, plan, gc>>
      BY <2>5, HistoryFrame
    <3> QED BY <2>0, <3>1 DEF Safe, objectVars, refVars
  <2> QED BY <2>1, <2>2, <2>3, <2>4, <2>5 DEF Next
<1> QED BY <1>1, TypeCorrect, GcInit, PTL DEF Spec

\* Whatever commands and collections crash half way, gc removes nothing in use as long as no
\* command runs beside it (GcSpares).
THEOREM CollectionsSpare == Spec => []GcSpares
<1>1. GcInv => GcSpares
  <2>1. GcInv /\ "gc" \notin overlap => \A c \in Tips(branch, headLog) : Fine(parents, rootTree, stored, c)
    BY DEF GcInv, Safe
  <2> QED BY <2>1 DEF GcSpares, Tips, Fine, Whole
<1> QED BY <1>1, GcHolds, PTL

----------------------------------------------------------------------------
(* What history shows                                                      *)

Building == {"open", "write", "rename"}

\* A set of commits that has their history.
HasHistory(G, X) == X \subseteq DOMAIN G /\ Closed(G, X)

FileOK(G, x) == Parses(x) => HasHistory(G, x)

ReaderOK(G, r) ==
    /\ r = [pc |-> r.pc, head |-> r.head, entries |-> r.entries, file |-> r.file]
    /\ r.pc # "idle" => r.head \in DOMAIN G
    /\ r.pc \in Building => HasHistory(G, r.entries)
    /\ r.pc = "shown" => r.entries \in {Reach(G, r.head), {}}

\* An index file that loads has the history of each of its commits.
IndexInv ==
    /\ FileOK(parents, idx) /\ FileOK(parents, tmp)
    /\ reader = [p \in Readers |-> reader[p]]
    /\ \A p \in Readers : ReaderOK(parents, reader[p])
    /\ tmp # Absent => \E p \in Readers : reader[p].pc \in {"write", "rename"}

\* A step that comes after the steps E leaves what was reachable from c, the tip of HEAD's
\* branch, reachable, and logs what it makes undoable.
StepRooted(G, br, c, log, E, e) ==
    /\ e[1] \in {"ref", "create"} => \A x \in E : x[1] \notin {"ref", "create", "head"}
    /\ e[1] = "create" => br[e[2]] = NoCommit
    /\ e[1] = "ref" =>
          \/ c \in log
          \/ e[2] = Len(G) + 1 /\ Committed(E)
          \/ e[2] \in DOMAIN G /\ c \in Reach(G, e[2])
    /\ e[1] = "branchlog" =>
          \A i \in DOMAIN e[2] : e[2][i] \in log \/ \E x \in E : x[1] = "headlog" /\ e[2][i] \in x[2]

PlanRooted(G, br, c, log, p) == \A i \in DOMAIN p : StepRooted(G, br, c, log, Earlier(p, i), p[i])

Rooted(G, C, r) == r.pc \notin {"idle", "shown", "failed"} => \E c \in C : r.head \in Reach(G, c)

\* What a reader is reading stays reachable.
RootedInv ==
    /\ PlanRooted(parents, branch, branch[head], headLog, plan)
    /\ \A b \in Branches : \A i \in DOMAIN undoable[b] : undoable[b][i] \in headLog
    /\ \A p \in Readers : Rooted(parents, Tips(branch, headLog), reader[p])
    /\ (\E p \in Readers : reader[p].pc = "failed") => "gc" \in overlap

\* No command and reader have overlapped, no command has died and there is no nested branch.
Undisturbed == overlap \cap {"history", "crash"} = {} /\ \A b \in Nested : branch[b] = NoCommit

Failing == {"write", "changed", "checkout"}

\* The plan cannot fail and removes the index.
WillInvalidate(p) ==
    /\ \E i \in DOMAIN p : p[i][1] = "invalidate"
    /\ \A i \in DOMAIN p : p[i][1] \notin Failing

\* The plan removes the index, and cannot fail once it has moved the branch.
Invalidating(p) ==
    /\ \E i \in DOMAIN p : p[i][1] = "invalidate"
    /\ \A i \in DOMAIN p : p[i][1] \in Failing => \A x \in Earlier(p, i) : x[1] # "ref"
    /\ \A i \in DOMAIN p : p[i][1] = "ref" => \A x \in Earlier(p, i) : x[1] # "invalidate"

\* The plan moves the branch back from c at once or not at all.
MovesBack(G, c, p) == \A i \in DOMAIN p : p[i][1] = "ref" => i = 1 /\ p[1][2] \in Reach(G, c)

\* The index has the tips, or is about to be removed.
Current(G, br, c, p, x) ==
    /\ MovesBack(G, c, p) \/ Invalidating(p)
    /\ Parses(x) => Tips(br, {}) \subseteq x \/ WillInvalidate(p)

ReaderCurrent(G, br, c, p, r) ==
    /\ r.pc \notin {"idle", "shown", "failed"} => p = << >> /\ r.head = c
    /\ r.pc \in Building => Tips(br, {}) \subseteq r.entries
    /\ r.pc = "shown" => r.entries = Reach(G, r.head)

CurrentInv ==
    Undisturbed =>
        /\ Current(parents, branch, branch[head], plan, idx)
        /\ Parses(tmp) => Tips(branch, {}) \subseteq tmp
        /\ \A p \in Readers : ReaderCurrent(parents, branch, branch[head], plan, reader[p])

\* What the index builder's walk collects has its history, and has the tips.
LEMMA SendWhole ==
    ASSUME NEW G, IsGraph(G), NEW S \in SUBSET DOMAIN G, NEW T \in SUBSET (1..Len(G)),
           ~SendCommits(G, S, SetToSeq(T), << >>).failed
    PROVE  /\ HasHistory(G, SendCommits(G, S, SetToSeq(T), << >>).commits)
           /\ T \subseteq SendCommits(G, S, SetToSeq(T), << >>).commits
<1> DEFINE wants == SetToSeq(T)
           haves == << >>
           b == SendCommits(G, S, wants, haves)
           stop == Boundary(G, S, haves).seen
<1>1. Len(G) \in Nat /\ IsFiniteSet(T)
  <2>1. Len(G) \in Nat
    BY DEF IsGraph
  <2>2. IsFiniteSet(1..Len(G))
    BY <2>1, FS_Interval
  <2> QED BY <2>1, <2>2, FS_Subset
<1>2. wants \in Seq(0..Len(G)) /\ \A c \in T : \E i \in 1..Len(wants) : wants[i] = c
  <2>1. wants \in Seq(T) /\ \A c \in T : \E i \in DOMAIN wants : wants[i] = c
    BY <1>1, SetToSeqLists
  <2>2. T \subseteq 0..Len(G)
    BY <1>1
  <2> HIDE DEF wants
  <2>3. DOMAIN wants = 1..Len(wants)
    BY <2>1
  <2> QED BY <2>1, <2>2, <2>3, SeqGrows
<1>3. haves \in Seq(DOMAIN G) /\ Had(G, haves) = {}
  BY DEF Had
<1>4. stop = {}
  <2> HIDE DEF haves
  <2> QED BY <1>3, BoundaryInHad
<1>5. ~b.failed
  OBVIOUS
<1> HIDE DEF wants, haves
<1>6. WantsWalked(G, S, stop, wants, Len(wants), b)
  BY <1>2, SendWalks
<1> HIDE DEF stop, b
<1>7. \A d \in b.commits : d \in S /\ \A i \in DOMAIN G[d] : G[d][i] \in b.commits
  BY <1>4, <1>5, <1>6 DEF WantsWalked, Read
<1>8. \A j \in 1..Len(wants) : wants[j] \in b.commits
  BY <1>4, <1>6 DEF WantsWalked
<1>9. HasHistory(G, b.commits) /\ T \subseteq b.commits
  BY <1>2, <1>7, <1>8 DEF HasHistory, Closed
<1> QED BY <1>9 DEF b, wants, haves

\* The walk of the store collects the history or meets a commit the store lacks.
LEMMA StoreWalk ==
    ASSUME NEW G, IsGraph(G), NEW S \in SUBSET DOMAIN G, NEW c \in DOMAIN G
    PROVE  /\ Bfs(G, S, c, {}, {}, {}).end = "error" => ~(Reach(G, c) \subseteq S)
           /\ Bfs(G, S, c, {}, {}, {}).end # "error" => Bfs(G, S, c, {}, {}, {}).seen = Reach(G, c)
<1> DEFINE none == {}
           w == Bfs(G, S, c, none, none, {})
<1>1. w = walkCommits(G, S, c, none, none)
  BY DEF walkCommits
<1>2. c \in 0..Len(G) /\ c # NoCommit
  BY DEF IsGraph, NoCommit
<1>3. WalkRange(G, c) = Reach(G, c)
  BY <1>2 DEF WalkRange
<1>4. none = {}
  OBVIOUS
<1> HIDE DEF none
<1>5. Walked(G, S, c, none, none, w)
  <2>1. Walked(G, S, c, none, none, walkCommits(G, S, c, none, none))
    BY <1>2, WalkCommitsWalks
  <2> HIDE DEF w
  <2> QED BY <1>1, <2>1
<1> HIDE DEF w
<1>6. w.end = "error" => ~(Reach(G, c) \subseteq S)
  BY <1>3, <1>5 DEF Walked
<1>7. ASSUME w.end # "error" PROVE w.seen = Reach(G, c)
  <2>1. c \in w.seen /\ w.seen \subseteq Reach(G, c) /\ \A d \in w.seen : Read(G, S, none, {}, w.seen, d)
    BY <1>3, <1>4, <1>5, <1>7 DEF Walked
  <2>2. Closed(G, w.seen)
    BY <1>4, <2>1 DEF Closed, Read
  <2>3. Reach(G, c) \subseteq w.seen
    BY <2>1, <2>2, ReachLeast
  <2> QED BY <2>1, <2>3
<1> QED BY <1>6, <1>7 DEF w, none

\* What the index shows of a commit.
LEMMA IndexShows ==
    ASSUME NEW X, NEW c \in DOMAIN parents, IsGraph(parents), HasHistory(parents, X)
    PROVE  /\ c \in X => historyFromIndex(X, c) = Reach(parents, c)
           /\ c \notin X => historyFromIndex(X, c) = {}
<1>1. ASSUME c \in X PROVE Reach(parents, c) \subseteq X
  BY <1>1, ReachLeast DEF HasHistory
<1> QED BY <1>1 DEF historyFromIndex, IsAncestor

\* A commit is made: histories stay what they were.
LEMMA HistoryGrows ==
    ASSUME NEW G, IsGraph(G), NEW h \in 1..Len(G)
    PROVE  /\ IsGraph(Append(G, <<h>>))
           /\ DOMAIN G \subseteq DOMAIN Append(G, <<h>>)
           /\ \A d \in DOMAIN G : Reach(Append(G, <<h>>), d) = Reach(G, d)
           /\ \A X : HasHistory(G, X) => HasHistory(Append(G, <<h>>), X)
           /\ Reach(Append(G, <<h>>), Len(G) + 1) = {Len(G) + 1} \cup Reach(G, h)
<1> DEFINE ps == <<h>>
           H == Append(G, ps)
<1>1. /\ Len(G) \in Nat /\ DOMAIN G = 1..Len(G) /\ G \in Seq(Seq(Nat)) /\ ps \in Seq(1..Len(G)) /\ ps \in Seq(Nat)
      /\ DOMAIN ps = {1} /\ ps[1] = h
  BY DEF IsGraph
<1> HIDE DEF ps
<1>2. /\ IsGraph(H)
      /\ \A d \in 0..Len(G) : Reach(H, d) = Reach(G, d)
      /\ Reach(H, Len(G) + 1) = {Len(G) + 1} \cup UNION {Reach(G, ps[i]) : i \in DOMAIN ps}
  BY <1>1, ReachGrows
<1>3. DOMAIN H = 1..(Len(G) + 1) /\ \A d \in DOMAIN G : H[d] = G[d]
  BY <1>1, AppendProperties
<1> HIDE DEF H
<1>4. DOMAIN G \subseteq DOMAIN H
  BY <1>1, <1>3
<1>5. \A d \in DOMAIN G : Reach(H, d) = Reach(G, d)
  BY <1>1, <1>2
<1>6. Reach(H, Len(G) + 1) = {Len(G) + 1} \cup Reach(G, h)
  BY <1>1, <1>2
<1>7. \A X : HasHistory(G, X) => HasHistory(H, X)
  BY <1>3, <1>4 DEF HasHistory, Closed
<1> QED BY <1>2, <1>4, <1>5, <1>6, <1>7 DEF H, ps

\* What is there of a reader and its files stays right when a commit is made.
LEMMA ReaderGrows ==
    ASSUME NEW G, IsGraph(G), NEW h \in 1..Len(G)
    PROVE  /\ \A r : ReaderOK(G, r) => ReaderOK(Append(G, <<h>>), r)
           /\ \A x : FileOK(G, x) => FileOK(Append(G, <<h>>), x)
<1> DEFINE H == Append(G, <<h>>)
<1>1. /\ DOMAIN G \subseteq DOMAIN H /\ \A d \in DOMAIN G : Reach(H, d) = Reach(G, d)
      /\ \A X : HasHistory(G, X) => HasHistory(H, X)
  BY HistoryGrows
<1> HIDE DEF H
<1>2. \A x : FileOK(G, x) => FileOK(H, x)
  BY <1>1 DEF FileOK
<1>3. ASSUME NEW r, ReaderOK(G, r) PROVE ReaderOK(H, r)
  <2>1. r.pc # "idle" => r.head \in DOMAIN G /\ Reach(H, r.head) = Reach(G, r.head)
    BY <1>1, <1>3 DEF ReaderOK
  <2>2. r.pc \in Building => HasHistory(H, r.entries)
    BY <1>1, <1>3 DEF ReaderOK
  <2> QED BY <1>1, <1>3, <2>1, <2>2 DEF ReaderOK
<1> QED BY <1>2, <1>3 DEF H

----------------------------------------------------------------------------
(* Index files that load are whole                                         *)

\* There is no index at first.
LEMMA IndexInit == Init => IndexInv
<1> SUFFICES ASSUME Init PROVE IndexInv
  OBVIOUS
<1>1. idx = Absent /\ tmp = Absent /\ reader = [p \in Readers |-> Resting]
  BY DEF Init
<1>2. \A x : x = Absent => FileOK(parents, x)
  BY DEF FileOK, Parses
<1>3. ReaderOK(parents, Resting)
  BY DEF ReaderOK, Resting, Building
<1> QED BY <1>1, <1>2, <1>3 DEF IndexInv

\* The steps that leave the readers and their files alone.
LEMMA IndexFrame ==
    ASSUME TypeInv, IndexInv, UNCHANGED indexVars,
           parents' = parents \/ parents' = Append(parents, <<branch[head]>>)
    PROVE  IndexInv'
<1>1. UNCHANGED <<idx, tmp, reader>>
  BY DEF indexVars
<1>2. CASE parents' = parents
  BY <1>1, <1>2 DEF IndexInv
<1>3. CASE parents' = Append(parents, <<branch[head]>>)
  <2>1. IsGraph(parents) /\ branch[head] \in 1..Len(parents)
    BY DEF TypeInv, IsGraph, NoCommit
  <2>2. /\ \A r : ReaderOK(parents, r) => ReaderOK(parents', r)
        /\ \A x : FileOK(parents, x) => FileOK(parents', x)
    <3> DEFINE H == Append(parents, <<branch[head]>>)
    <3>1. /\ \A r : ReaderOK(parents, r) => ReaderOK(H, r)
          /\ \A x : FileOK(parents, x) => FileOK(H, x)
      BY <2>1, ReaderGrows
    <3> HIDE DEF H
    <3>2. parents' = H
      BY <1>3 DEF H
    <3> QED BY <3>1, <3>2
  <2>3. /\ FileOK(parents', idx) /\ FileOK(parents', tmp)
        /\ \A p \in Readers : ReaderOK(parents', reader[p])
    BY <2>2 DEF IndexInv
  <2> QED BY <1>1, <2>3 DEF IndexInv
<1> QED BY <1>2, <1>3

\* The index is removed.
LEMMA InvalidateFrame ==
    ASSUME Invalidate, IndexInv
    PROVE  /\ idx' = Absent /\ UNCHANGED <<objectVars, refVars, gc, tmp, overlap>> /\ plan' = Tail(plan)
           /\ plan # << >> /\ Head(plan)[1] = "invalidate"
           /\ reader' = [p \in Readers |-> reader'[p]]
           /\ \A p \in Readers : /\ reader'[p].pc = reader[p].pc /\ reader'[p].head = reader[p].head
                                 /\ reader'[p].entries = reader[p].entries
                                 /\ \A G : ReaderOK(G, reader[p]) => ReaderOK(G, reader'[p])
<1>1. /\ idx' = Absent /\ UNCHANGED <<objectVars, refVars, gc, tmp, overlap>> /\ plan' = Tail(plan)
      /\ plan # << >> /\ Head(plan)[1] = "invalidate"
      /\ reader' = [p \in Readers |-> IF reader[p].file = "idx" THEN [reader[p] EXCEPT !.file = "none"]
                                      ELSE reader[p]]
  BY DEF Invalidate, Doing, Proceed
<1>2. ASSUME NEW p \in Readers
      PROVE  /\ reader'[p].pc = reader[p].pc /\ reader'[p].head = reader[p].head
             /\ reader'[p].entries = reader[p].entries
             /\ \A G : ReaderOK(G, reader[p]) => ReaderOK(G, reader'[p])
  <2> DEFINE r == reader[p]
             s == reader'[p]
  <2>1. r = [pc |-> r.pc, head |-> r.head, entries |-> r.entries, file |-> r.file]
    BY DEF IndexInv, ReaderOK
  <2>2. s = r \/ s = [r EXCEPT !.file = "none"]
    BY <1>1
  <2> HIDE DEF r, s
  <2>3. s.pc = r.pc /\ s.head = r.head /\ s.entries = r.entries
        /\ s = [pc |-> s.pc, head |-> s.head, entries |-> s.entries, file |-> s.file]
    BY <2>1, <2>2
  <2>4. \A G : ReaderOK(G, r) => ReaderOK(G, s)
    BY <2>3 DEF ReaderOK
  <2> QED BY <2>3, <2>4 DEF r, s
<1>3. reader' = [p \in Readers |-> reader'[p]]
  BY <1>1
<1> QED BY <1>1, <1>2, <1>3

\* A reader moves.
LEMMA MoveFrame ==
    ASSUME IndexInv, NEW p \in Readers, NEW r, Move(p, r)
    PROVE  /\ reader' = [q \in Readers |-> reader'[q]]
           /\ reader'[p] = r /\ \A q \in Readers : q # p => reader'[q] = reader[q]
BY DEF IndexInv, Move

----------------------------------------------------------------------------
(* The steps of a reader                                                   *)

HistInv == IndexInv /\ RootedInv /\ CurrentInv

\* A reader that has not moved, whatever became of the file it has open.
SameReader(r, s) ==
    /\ s.pc = r.pc /\ s.head = r.head /\ s.entries = r.entries
    /\ \A G : ReaderOK(G, r) => ReaderOK(G, s)

\* What a step of reader p must establish of its new state r, and of the files x and y it
\* leaves as index and temporary file.
ReaderStepped(p, r, x, y) ==
    /\ ReaderOK(parents, r) /\ FileOK(parents, x) /\ FileOK(parents, y)
    /\ Rooted(parents, Tips(branch, headLog), r)
    /\ r.pc = "failed" => "gc" \in overlap
    /\ Undisturbed =>
          /\ r.pc \in Building => Tips(branch, {}) \subseteq r.entries
          /\ r.pc = "shown" => r.entries = Reach(parents, r.head)
          /\ Parses(y) => Tips(branch, {}) \subseteq y
          /\ Parses(x) => Tips(branch, {}) \subseteq x \/ WillInvalidate(plan)
    /\ y # Absent => r.pc \in {"write", "rename"} \/ \E q \in Readers \ {p} : reader[q].pc \in {"write", "rename"}

\* A step that establishes ReaderStepped of reader p, and moves no other reader.
LEMMA ReaderSteps ==
    ASSUME TypeInv, HistInv, NEW p \in Readers, History(p), NEW r, NEW x, NEW y, ReaderStepped(p, r, x, y),
           idx' = x, tmp' = y, reader' = [q \in Readers |-> reader'[q]], reader'[p] = r,
           \A q \in Readers : q # p => SameReader(reader[q], reader'[q]),
           Undisturbed' /\ r.pc \notin {"idle", "shown", "failed"} => plan = << >> /\ r.head = branch[head]
    PROVE  HistInv'
<1>1. UNCHANGED <<parents, branch, head, headLog, undoable, plan>> /\ overlap \subseteq overlap'
  BY HistoryFrame DEF objectVars, refVars
<1>2. IndexInv'
  <2>1. \A q \in Readers : ReaderOK(parents, reader'[q])
    BY DEF HistInv, IndexInv, SameReader, ReaderStepped
  <2>2. y # Absent => \E q \in Readers : reader'[q].pc \in {"write", "rename"}
    BY DEF ReaderStepped, SameReader
  <2>3. FileOK(parents, x) /\ FileOK(parents, y)
    BY DEF ReaderStepped
  <2> QED BY <1>1, <2>1, <2>2, <2>3 DEF IndexInv
<1>3. RootedInv'
  <2> DEFINE C == Tips(branch, headLog)
  <2>1. \A q \in Readers : Rooted(parents, C, reader'[q])
    <3>1. \A q \in Readers : Rooted(parents, C, reader[q])
      BY DEF HistInv, RootedInv
    <3>2. Rooted(parents, C, r)
      BY DEF ReaderStepped
    <3> HIDE DEF C
    <3> QED BY <3>1, <3>2 DEF Rooted, SameReader
  <2>2. (\E q \in Readers : reader'[q].pc = "failed") => "gc" \in overlap'
    BY <1>1 DEF HistInv, RootedInv, SameReader, ReaderStepped
  <2>3. /\ PlanRooted(parents, branch, branch[head], headLog, plan)
        /\ \A b \in Branches : \A i \in DOMAIN undoable[b] : undoable[b][i] \in headLog
    BY DEF HistInv, RootedInv
  <2> QED BY <1>1, <2>1, <2>2, <2>3 DEF RootedInv
<1>4. CurrentInv'
  <2> SUFFICES ASSUME Undisturbed'
               PROVE  /\ Current(parents, branch, branch[head], plan, x)
                      /\ Parses(y) => Tips(branch, {}) \subseteq y
                      /\ \A q \in Readers : ReaderCurrent(parents, branch, branch[head], plan, reader'[q])
    BY <1>1 DEF CurrentInv
  <2>1. Undisturbed
    BY <1>1 DEF Undisturbed
  <2>2. Current(parents, branch, branch[head], plan, idx)
    BY <2>1 DEF HistInv, CurrentInv
  <2>3. /\ r.pc \in Building => Tips(branch, {}) \subseteq r.entries
        /\ r.pc = "shown" => r.entries = Reach(parents, r.head)
        /\ Parses(y) => Tips(branch, {}) \subseteq y
        /\ Parses(x) => Tips(branch, {}) \subseteq x \/ WillInvalidate(plan)
    BY <2>1 DEF ReaderStepped
  <2>4. Current(parents, branch, branch[head], plan, x)
    BY <2>2, <2>3 DEF Current
  <2>5. ReaderCurrent(parents, branch, branch[head], plan, r)
    BY <2>3 DEF ReaderCurrent
  <2>6. ASSUME NEW q \in Readers, q # p PROVE ReaderCurrent(parents, branch, branch[head], plan, reader'[q])
    <3>1. ReaderCurrent(parents, branch, branch[head], plan, reader[q])
      BY <2>1 DEF HistInv, CurrentInv
    <3>2. SameReader(reader[q], reader'[q])
      BY <2>6
    <3> QED BY <3>1, <3>2 DEF ReaderCurrent, SameReader
  <2> QED BY <2>3, <2>4, <2>5, <2>6
<1> QED BY <1>2, <1>3, <1>4 DEF HistInv

\* A step that moves only reader p.
LEMMA ReaderStepsAlone ==
    ASSUME TypeInv, HistInv, NEW p \in Readers, History(p), NEW r, Move(p, r), ReaderStepped(p, r, idx', tmp'),
           Undisturbed' /\ r.pc \notin {"idle", "shown", "failed"} => plan = << >> /\ r.head = branch[head]
    PROVE  HistInv'
<1>1. /\ reader' = [q \in Readers |-> reader'[q]]
      /\ reader'[p] = r /\ \A q \in Readers : q # p => reader'[q] = reader[q]
  BY MoveFrame DEF HistInv
<1>2. \A q \in Readers : q # p => SameReader(reader[q], reader'[q])
  BY <1>1 DEF SameReader
<1>3. \A x, y : x = idx' /\ y = tmp' => ReaderStepped(p, r, x, y)
  OBVIOUS
<1> QED BY <1>1, <1>2, <1>3, ReaderSteps

\* What is known of a reader that is busy.
LEMMA ReaderNow ==
    ASSUME TypeInv, HistInv, NEW p \in Readers, NEW r, r = reader[p], r.pc \notin {"idle", "shown", "failed"}
    PROVE  /\ r = [pc |-> r.pc, head |-> r.head, entries |-> r.entries, file |-> r.file]
           /\ r.head \in DOMAIN parents
           /\ \A s : s.head = r.head => Rooted(parents, Tips(branch, headLog), s)
           /\ r.pc \in Building => HasHistory(parents, r.entries)
           /\ FileOK(parents, idx) /\ FileOK(parents, tmp)
           /\ Undisturbed => /\ plan = << >> /\ r.head = branch[head] /\ ~WillInvalidate(plan)
                             /\ r.pc \in Building => Tips(branch, {}) \subseteq r.entries
                             /\ Parses(tmp) => Tips(branch, {}) \subseteq tmp
                             /\ Parses(idx) => Tips(branch, {}) \subseteq idx
<1>1. ReaderOK(parents, r) /\ Rooted(parents, Tips(branch, headLog), r) /\ FileOK(parents, idx) /\ FileOK(parents, tmp)
  BY DEF HistInv, IndexInv, RootedInv
<1>2. ASSUME Undisturbed
      PROVE  /\ plan = << >> /\ r.head = branch[head] /\ ~WillInvalidate(plan)
             /\ r.pc \in Building => Tips(branch, {}) \subseteq r.entries
             /\ Parses(tmp) => Tips(branch, {}) \subseteq tmp
             /\ Parses(idx) => Tips(branch, {}) \subseteq idx
  <2>1. /\ Current(parents, branch, branch[head], plan, idx)
        /\ Parses(tmp) => Tips(branch, {}) \subseteq tmp
        /\ ReaderCurrent(parents, branch, branch[head], plan, r)
    BY <1>2 DEF HistInv, CurrentInv
  <2>2. plan = << >> /\ r.head = branch[head] /\ (r.pc \in Building => Tips(branch, {}) \subseteq r.entries)
    BY <2>1 DEF ReaderCurrent
  <2>3. ~WillInvalidate(<< >>)
    BY DEF WillInvalidate
  <2> QED BY <2>1, <2>2, <2>3 DEF Current
<1> QED BY <1>1, <1>2 DEF ReaderOK, Rooted

\* A step that moves only reader p and leaves the files alone.
LEMMA ReaderMoves ==
    ASSUME TypeInv, HistInv, NEW p \in Readers, History(p), NEW r, Move(p, r), UNCHANGED <<idx, tmp>>,
           reader[p].pc \notin {"write", "rename"},
           ReaderOK(parents, r), Rooted(parents, Tips(branch, headLog), r), r.pc = "failed" => "gc" \in overlap,
           Undisturbed => /\ r.pc \in Building => Tips(branch, {}) \subseteq r.entries
                          /\ r.pc = "shown" => r.entries = Reach(parents, r.head),
           Undisturbed' /\ r.pc \notin {"idle", "shown", "failed"} => plan = << >> /\ r.head = branch[head]
    PROVE  HistInv'
<1>1. FileOK(parents, idx) /\ FileOK(parents, tmp)
  BY DEF HistInv, IndexInv
<1>2. Undisturbed => /\ Parses(tmp) => Tips(branch, {}) \subseteq tmp
                     /\ Parses(idx) => Tips(branch, {}) \subseteq idx \/ WillInvalidate(plan)
  BY DEF HistInv, CurrentInv, Current
<1>3. tmp # Absent => \E q \in Readers \ {p} : reader[q].pc \in {"write", "rename"}
  BY DEF HistInv, IndexInv
<1>4. \A x, y : x = idx /\ y = tmp => ReaderStepped(p, r, x, y)
  BY <1>1, <1>2, <1>3 DEF ReaderStepped
<1>5. ReaderStepped(p, r, idx', tmp')
  BY <1>4
<1> QED BY <1>5, ReaderStepsAlone

IsReader(r) == r = [pc |-> r.pc, head |-> r.head, entries |-> r.entries, file |-> r.file]

\* A reader with two fields changed is a reader.
LEMMA ReaderFields ==
    ASSUME NEW r, IsReader(r), NEW a, NEW b
    PROVE  IsReader([r EXCEPT !.pc = a, !.file = b]) /\ IsReader([r EXCEPT !.pc = a, !.head = b])
<1> DEFINE s == [r EXCEPT !.pc = a]
           t == [s EXCEPT !.file = b]
           u == [s EXCEPT !.head = b]
<1>1. s = [pc |-> s.pc, head |-> s.head, entries |-> s.entries, file |-> s.file]
  BY DEF IsReader
<1> HIDE DEF s
<1>2. t = [pc |-> t.pc, head |-> t.head, entries |-> t.entries, file |-> t.file]
  BY <1>1
<1>3. u = [pc |-> u.pc, head |-> u.head, entries |-> u.entries, file |-> u.file]
  BY <1>1
<1>4. [r EXCEPT !.pc = a, !.file = b] = t /\ [r EXCEPT !.pc = a, !.head = b] = u
  BY DEF s
<1> HIDE DEF t, u
<1> QED BY <1>2, <1>3, <1>4 DEF IsReader

\* history reads HEAD.
LEMMA HistResolve ==
    ASSUME TypeInv, HistInv, NEW p \in Readers, resolveHEAD(p)
    PROVE  HistInv'
<1> DEFINE c == branch[head]
           r == [Resting EXCEPT !.pc = "load", !.head = c]
<1>0. r = [pc |-> r.pc, head |-> r.head, entries |-> r.entries, file |-> r.file] /\ r.pc = "load" /\ r.head = c
  <2>1. r.pc = "load" /\ r.head = c
    BY DEF Resting
  <2>2. IsReader(Resting)
    BY DEF IsReader, Resting
  <2>3. IsReader(r)
    BY <2>2, ReaderFields
  <2> HIDE DEF r
  <2> QED BY <2>1, <2>3 DEF IsReader
<1>1. /\ reader[p].pc = "idle" /\ Move(p, r) /\ UNCHANGED <<idx, tmp, plan, branch>>
      /\ overlap' = overlap \cup {x \in {"history"} : plan # << >>}
  BY DEF resolveHEAD, refVars
<1>2. c \in DOMAIN parents /\ c \in Tips(branch, headLog) /\ IsGraph(parents)
  BY DEF TypeInv, Tips, IsGraph, NoCommit
<1>3. c \in Reach(parents, c)
  BY <1>2, ReachUnfolds
<1>4. Undisturbed' => plan = << >>
  BY <1>1 DEF Undisturbed
<1>7. r.pc = "load" /\ r.head = branch[head]
  BY <1>0
<1> HIDE DEF r, c
<1>5. Rooted(parents, Tips(branch, headLog), r)
  BY <1>0, <1>2, <1>3 DEF Rooted
<1>6. ReaderOK(parents, r)
  BY <1>0, <1>2 DEF ReaderOK, Building
<1>8. History(p)
  BY DEF History
<1> QED BY <1>1, <1>4, <1>5, <1>6, <1>7, <1>8, ReaderMoves DEF Building

\* history loads the index.
LEMMA HistLoad ==
    ASSUME TypeInv, HistInv, NEW p \in Readers, Load(p)
    PROVE  HistInv'
<1> DEFINE r == reader[p]
           shown == historyFromIndex(idx, r.head)
           s == IF Parses(idx) THEN [r EXCEPT !.pc = "shown", !.entries = shown]
                ELSE [r EXCEPT !.pc = IF @ = "load" THEN "build" ELSE "store"]
<1>1. r.pc \in {"load", "reload"} /\ Move(p, s) /\ UNCHANGED <<idx, tmp, branch, overlap>>
  BY DEF Load, refVars
<1>2. History(p) /\ IsGraph(parents)
  BY DEF History, TypeInv
<1>3. /\ r = [pc |-> r.pc, head |-> r.head, entries |-> r.entries, file |-> r.file]
      /\ r.head \in DOMAIN parents
      /\ \A x : x.head = r.head => Rooted(parents, Tips(branch, headLog), x)
      /\ FileOK(parents, idx)
      /\ Undisturbed => /\ plan = << >> /\ r.head = branch[head]
                        /\ Parses(idx) => Tips(branch, {}) \subseteq idx
  BY <1>1, ReaderNow
<1>4. branch[head] \in Tips(branch, {})
  BY DEF TypeInv, Tips
<1>5. Parses(idx) => /\ shown \in {Reach(parents, r.head), {}}
                     /\ Undisturbed => shown = Reach(parents, r.head)
  BY <1>2, <1>3, <1>4, IndexShows DEF FileOK
<1> HIDE DEF shown, r
<1>6. /\ s = [pc |-> s.pc, head |-> r.head, entries |-> s.entries, file |-> s.file]
      /\ Parses(idx) => s.pc = "shown" /\ s.entries = shown
      /\ ~Parses(idx) => s.pc \in {"build", "store"}
  BY <1>1, <1>3
<1> HIDE DEF s
<1>7. ReaderOK(parents, s) /\ Rooted(parents, Tips(branch, headLog), s)
  BY <1>3, <1>5, <1>6 DEF ReaderOK, Building
<1>8. /\ Undisturbed => s.pc \notin Building /\ (s.pc = "shown" => s.entries = Reach(parents, s.head))
      /\ s.pc # "failed"
  BY <1>5, <1>6 DEF Building
<1>9. Undisturbed' => plan = << >> /\ s.head = branch[head]
  BY <1>1, <1>3, <1>6 DEF Undisturbed
<1> QED BY <1>1, <1>2, <1>7, <1>8, <1>9, ReaderMoves DEF r

\* The tips the index builder starts from are commits, and all of them without nested branches.
LEMMA TipsCollected ==
    ASSUME TypeInv
    PROVE  /\ collectTips \in SUBSET (1..Len(parents))
           /\ Undisturbed => Tips(branch, {}) \subseteq collectTips
<1> DEFINE n == Len(parents)
<1>1. n \in Nat /\ branch \in [Branches -> 0..n] /\ head \in Branches
  BY DEF TypeInv, IsGraph
<1> HIDE DEF n
<1>2. collectTips \subseteq 1..n
  BY <1>1 DEF collectTips, NoCommit
<1>3. Undisturbed => Tips(branch, {}) \subseteq collectTips
  BY <1>1 DEF Undisturbed, Tips, collectTips
<1> QED BY <1>2, <1>3 DEF n

\* history collects what it will write into the index.
LEMMA HistBuild ==
    ASSUME TypeInv, HistInv, NEW p \in Readers, Build(p)
    PROVE  HistInv'
<1> DEFINE r == reader[p]
           walk == SendCommits(parents, stored.commits, SetToSeq(collectTips), << >>)
           s == IF walk.failed THEN [r EXCEPT !.pc = "store"]
                ELSE [r EXCEPT !.pc = "open", !.entries = walk.commits]
<1>1. r.pc = "build" /\ Move(p, s) /\ UNCHANGED <<idx, tmp, branch, overlap>>
  BY DEF Build, refVars
<1>2. History(p) /\ IsGraph(parents) /\ stored.commits \in SUBSET DOMAIN parents
  BY DEF History, TypeInv, IsGraph
<1>3. /\ r = [pc |-> r.pc, head |-> r.head, entries |-> r.entries, file |-> r.file]
      /\ r.head \in DOMAIN parents
      /\ \A x : x.head = r.head => Rooted(parents, Tips(branch, headLog), x)
      /\ Undisturbed => plan = << >> /\ r.head = branch[head]
  BY <1>1, ReaderNow
<1>4. ~walk.failed => /\ HasHistory(parents, walk.commits)
                      /\ Undisturbed => Tips(branch, {}) \subseteq walk.commits
  <2>1. /\ collectTips \in SUBSET (1..Len(parents))
        /\ Undisturbed => Tips(branch, {}) \subseteq collectTips
    BY TipsCollected
  <2>2. ~walk.failed => HasHistory(parents, walk.commits) /\ collectTips \subseteq walk.commits
    BY <1>2, <2>1, SendWhole
  <2> QED BY <2>1, <2>2
<1> HIDE DEF walk, r
<1>5. /\ s = [pc |-> s.pc, head |-> r.head, entries |-> s.entries, file |-> s.file]
      /\ walk.failed => s.pc = "store"
      /\ ~walk.failed => s.pc = "open" /\ s.entries = walk.commits
  BY <1>1, <1>3
<1> HIDE DEF s
<1>6. ReaderOK(parents, s) /\ Rooted(parents, Tips(branch, headLog), s)
  BY <1>3, <1>4, <1>5 DEF ReaderOK, Building
<1>7. /\ Undisturbed => (s.pc \in Building => Tips(branch, {}) \subseteq s.entries)
      /\ s.pc # "failed" /\ s.pc # "shown"
  BY <1>4, <1>5 DEF Building
<1>8. Undisturbed' => plan = << >> /\ s.head = branch[head]
  BY <1>1, <1>3, <1>5 DEF Undisturbed
<1> QED BY <1>1, <1>2, <1>6, <1>7, <1>8, ReaderMoves DEF r

\* history opens the temporary file.
LEMMA HistOpen ==
    ASSUME TypeInv, HistInv, NEW p \in Readers, OpenTmp(p)
    PROVE  HistInv'
<1> DEFINE r == reader[p]
           s == [r EXCEPT !.pc = "write", !.file = "tmp"]
<1>1. r.pc = "open" /\ Move(p, s) /\ tmp' = Empty /\ UNCHANGED <<idx, branch, overlap>>
  BY DEF OpenTmp, refVars
<1>2. History(p)
  BY DEF History
<1>3. /\ r = [pc |-> r.pc, head |-> r.head, entries |-> r.entries, file |-> r.file]
      /\ r.head \in DOMAIN parents
      /\ \A x : x.head = r.head => Rooted(parents, Tips(branch, headLog), x)
      /\ HasHistory(parents, r.entries) /\ FileOK(parents, idx)
      /\ Undisturbed => /\ plan = << >> /\ r.head = branch[head]
                        /\ Tips(branch, {}) \subseteq r.entries
                        /\ Parses(idx) => Tips(branch, {}) \subseteq idx
  BY <1>1, ReaderNow DEF Building
<1> HIDE DEF r
<1>4. s = [pc |-> s.pc, head |-> r.head, entries |-> r.entries, file |-> s.file] /\ s.pc = "write"
  <2>1. r = [pc |-> r.pc, head |-> r.head, entries |-> r.entries, file |-> r.file]
    BY <1>3
  <2>2. s.pc = "write" /\ s.file = "tmp"
    BY <2>1
  <2>3. s.head = r.head /\ s.entries = r.entries
    BY <2>1
  <2>4. IsReader(r) => IsReader(s)
    BY ReaderFields
  <2> HIDE DEF s
  <2> QED BY <2>1, <2>2, <2>3, <2>4 DEF IsReader
<1> HIDE DEF s
<1>5. ReaderOK(parents, s) /\ Rooted(parents, Tips(branch, headLog), s) /\ s.pc = "write"
  BY <1>3, <1>4 DEF ReaderOK, Building
<1>6. ~Parses(Empty)
  BY DEF Parses
<1>7. \A x, y : x = idx /\ y = Empty => ReaderStepped(p, s, x, y)
  BY <1>3, <1>4, <1>5, <1>6 DEF ReaderStepped, FileOK
<1>8. ReaderStepped(p, s, idx', tmp')
  BY <1>1, <1>7
<1>9. Undisturbed' => plan = << >> /\ s.head = branch[head]
  BY <1>1, <1>3, <1>4 DEF Undisturbed
<1> QED BY <1>1, <1>2, <1>8, <1>9, ReaderStepsAlone

\* history writes the file it has open, wherever that is by now.
LEMMA HistWrite ==
    ASSUME TypeInv, HistInv, NEW p \in Readers, WriteTmp(p)
    PROVE  HistInv'
<1> DEFINE r == reader[p]
           s == [r EXCEPT !.pc = "rename", !.file = "none"]
<1>1. /\ r.pc = "write" /\ Move(p, s) /\ UNCHANGED <<branch, overlap>>
      /\ idx' \in {idx, r.entries, Torn} /\ tmp' \in {tmp, r.entries, Torn}
  BY DEF WriteTmp, refVars, Overwritten
<1>2. History(p)
  BY DEF History
<1>3. /\ r = [pc |-> r.pc, head |-> r.head, entries |-> r.entries, file |-> r.file]
      /\ r.head \in DOMAIN parents
      /\ \A x : x.head = r.head => Rooted(parents, Tips(branch, headLog), x)
      /\ HasHistory(parents, r.entries) /\ FileOK(parents, idx) /\ FileOK(parents, tmp)
      /\ Undisturbed => /\ plan = << >> /\ r.head = branch[head]
                        /\ Tips(branch, {}) \subseteq r.entries
                        /\ Parses(tmp) => Tips(branch, {}) \subseteq tmp
                        /\ Parses(idx) => Tips(branch, {}) \subseteq idx
  BY <1>1, ReaderNow DEF Building
<1> HIDE DEF r
<1>4. s = [pc |-> s.pc, head |-> r.head, entries |-> r.entries, file |-> s.file] /\ s.pc = "rename"
  <2>1. r = [pc |-> r.pc, head |-> r.head, entries |-> r.entries, file |-> r.file]
    BY <1>3
  <2>2. s.pc = "rename" /\ s.file = "none"
    BY <2>1
  <2>3. s.head = r.head /\ s.entries = r.entries
    BY <2>1
  <2>4. IsReader(r) => IsReader(s)
    BY ReaderFields
  <2> HIDE DEF s
  <2> QED BY <2>1, <2>2, <2>3, <2>4 DEF IsReader
<1> HIDE DEF s
<1>5. ReaderOK(parents, s) /\ Rooted(parents, Tips(branch, headLog), s) /\ s.pc = "rename"
  BY <1>3, <1>4 DEF ReaderOK, Building
<1>6. ~Parses(Torn)
  BY DEF Parses
<1>7. \A x \in {idx, r.entries, Torn}, y \in {tmp, r.entries, Torn} : ReaderStepped(p, s, x, y)
  BY <1>3, <1>4, <1>5, <1>6 DEF ReaderStepped, FileOK
<1>8. ReaderStepped(p, s, idx', tmp')
  BY <1>1, <1>7
<1>9. Undisturbed' => plan = << >> /\ s.head = branch[head]
  BY <1>1, <1>3, <1>4 DEF Undisturbed
<1> QED BY <1>1, <1>2, <1>8, <1>9, ReaderStepsAlone

\* history makes the temporary file the index, or finds another builder has.
LEMMA HistRename ==
    ASSUME TypeInv, HistInv, NEW p \in Readers, RenameTmp(p)
    PROVE  HistInv'
<1> DEFINE r == reader[p]
           s == [r EXCEPT !.pc = IF tmp = Absent THEN "remove" ELSE "reload"]
<1>1. r.pc = "rename" /\ UNCHANGED <<branch, overlap>> /\ History(p)
  BY DEF RenameTmp, History, refVars
<1>2. /\ r = [pc |-> r.pc, head |-> r.head, entries |-> r.entries, file |-> r.file]
      /\ r.head \in DOMAIN parents
      /\ \A x : x.head = r.head => Rooted(parents, Tips(branch, headLog), x)
      /\ FileOK(parents, idx) /\ FileOK(parents, tmp)
      /\ Undisturbed => /\ plan = << >> /\ r.head = branch[head]
                        /\ Parses(tmp) => Tips(branch, {}) \subseteq tmp
                        /\ Parses(idx) => Tips(branch, {}) \subseteq idx
  BY <1>1, ReaderNow
<1> HIDE DEF r
<1>3. /\ s = [pc |-> s.pc, head |-> r.head, entries |-> r.entries, file |-> s.file]
      /\ s.pc = IF tmp = Absent THEN "remove" ELSE "reload"
  BY <1>2
<1>4. ReaderOK(parents, s) /\ Rooted(parents, Tips(branch, headLog), s) /\ s.pc \in {"remove", "reload"}
  <2> HIDE DEF s
  <2> QED BY <1>2, <1>3 DEF ReaderOK, Building
<1>5. Undisturbed' => plan = << >> /\ s.head = branch[head]
  <2> HIDE DEF s
  <2> QED BY <1>1, <1>2, <1>3 DEF Undisturbed
<1>6. ~Parses(Absent)
  BY DEF Parses
<1>7. CASE tmp = Absent
  <2>1. Move(p, s) /\ UNCHANGED <<idx, tmp>>
    BY <1>7 DEF RenameTmp, r
  <2> HIDE DEF s
  <2>2. \A x, y : x = idx /\ y = Absent => ReaderStepped(p, s, x, y)
    BY <1>2, <1>4, <1>6 DEF ReaderStepped, FileOK, Building
  <2>3. ReaderStepped(p, s, idx', tmp')
    BY <1>7, <2>1, <2>2
  <2> QED BY <1>1, <1>5, <2>1, <2>3, ReaderStepsAlone
<1>8. CASE tmp # Absent
  <2>1. /\ idx' = tmp /\ tmp' = Absent
        /\ reader' = [q \in Readers |->
                        IF q = p THEN [reader[p] EXCEPT !.pc = "reload"]
                        ELSE [reader[q] EXCEPT !.file = IF @ = "tmp" THEN "idx" ELSE "none"]]
    BY <1>8 DEF RenameTmp
  <2>2. reader' = [q \in Readers |-> reader'[q]] /\ reader'[p] = s
    BY <1>8, <2>1 DEF r
  <2>3. ASSUME NEW q \in Readers, q # p PROVE SameReader(reader[q], reader'[q])
    <3> DEFINE a == reader[q]
               b == reader'[q]
    <3>1. a = [pc |-> a.pc, head |-> a.head, entries |-> a.entries, file |-> a.file]
      BY DEF HistInv, IndexInv, ReaderOK
    <3>2. b = [a EXCEPT !.file = IF @ = "tmp" THEN "idx" ELSE "none"]
      BY <2>1, <2>3
    <3> HIDE DEF a, b
    <3>3. b.pc = a.pc /\ b.head = a.head /\ b.entries = a.entries
          /\ b = [pc |-> b.pc, head |-> b.head, entries |-> b.entries, file |-> b.file]
      BY <3>1, <3>2
    <3>4. \A G : ReaderOK(G, a) => ReaderOK(G, b)
      BY <3>3 DEF ReaderOK
    <3> QED BY <3>3, <3>4 DEF SameReader, a, b
  <2> HIDE DEF s
  <2>4. \A x, y : x = tmp /\ y = Absent => ReaderStepped(p, s, x, y)
    BY <1>2, <1>4, <1>6 DEF ReaderStepped, FileOK, Building
  <2>5. ReaderStepped(p, s, idx', tmp')
    BY <2>1, <2>4
  <2> QED BY <1>1, <1>5, <2>2, <2>3, <2>5, ReaderSteps
<1> QED BY <1>7, <1>8

\* history removes the temporary file that it could not rename.
LEMMA HistRemove ==
    ASSUME TypeInv, HistInv, NEW p \in Readers, RemoveTmp(p)
    PROVE  HistInv'
<1> DEFINE r == reader[p]
           s == [r EXCEPT !.pc = "store"]
<1>1. /\ r.pc = "remove" /\ UNCHANGED <<branch, overlap, idx>> /\ History(p) /\ tmp' = Absent
      /\ reader' = [q \in Readers |->
                      IF q = p THEN [reader[p] EXCEPT !.pc = "store"]
                      ELSE [reader[q] EXCEPT !.file = IF @ = "tmp" THEN "none" ELSE @]]
  BY DEF RemoveTmp, History, refVars
<1>2. reader' = [q \in Readers |-> reader'[q]] /\ reader'[p] = s
  BY <1>1
<1>3. ASSUME NEW q \in Readers, q # p PROVE SameReader(reader[q], reader'[q])
  <2> DEFINE a == reader[q]
             b == reader'[q]
  <2>1. a = [pc |-> a.pc, head |-> a.head, entries |-> a.entries, file |-> a.file]
    BY DEF HistInv, IndexInv, ReaderOK
  <2>2. b = [a EXCEPT !.file = IF @ = "tmp" THEN "none" ELSE @]
    BY <1>1, <1>3
  <2> HIDE DEF a, b
  <2>3. b.pc = a.pc /\ b.head = a.head /\ b.entries = a.entries
        /\ b = [pc |-> b.pc, head |-> b.head, entries |-> b.entries, file |-> b.file]
    BY <2>1, <2>2
  <2>4. \A G : ReaderOK(G, a) => ReaderOK(G, b)
    BY <2>3 DEF ReaderOK
  <2> QED BY <2>3, <2>4 DEF SameReader, a, b
<1>4. /\ r = [pc |-> r.pc, head |-> r.head, entries |-> r.entries, file |-> r.file]
      /\ r.head \in DOMAIN parents
      /\ \A x : x.head = r.head => Rooted(parents, Tips(branch, headLog), x)
      /\ FileOK(parents, idx)
      /\ Undisturbed => /\ plan = << >> /\ r.head = branch[head]
                        /\ Parses(idx) => Tips(branch, {}) \subseteq idx
  BY <1>1, ReaderNow
<1> HIDE DEF r
<1>5. s = [pc |-> s.pc, head |-> r.head, entries |-> r.entries, file |-> s.file] /\ s.pc = "store"
  BY <1>4
<1> HIDE DEF s
<1>6. ReaderOK(parents, s) /\ Rooted(parents, Tips(branch, headLog), s)
  BY <1>4, <1>5 DEF ReaderOK, Building
<1>7. Undisturbed' => plan = << >> /\ s.head = branch[head]
  BY <1>1, <1>4, <1>5 DEF Undisturbed
<1>8. ~Parses(Absent)
  BY DEF Parses
<1>9. \A x, y : x = idx /\ y = Absent => ReaderStepped(p, s, x, y)
  BY <1>4, <1>5, <1>6, <1>8 DEF ReaderStepped, FileOK, Building
<1>10. ReaderStepped(p, s, idx', tmp')
  BY <1>1, <1>9
<1> QED BY <1>1, <1>2, <1>3, <1>7, <1>10, ReaderSteps

\* history walks the store.
LEMMA HistStore ==
    ASSUME TypeInv, HistInv, GcInv, NEW p \in Readers, historyFromStore(p)
    PROVE  HistInv'
<1> DEFINE r == reader[p]
           walk == Bfs(parents, stored.commits, r.head, {}, {}, {})
           s == IF walk.end = "error" THEN [r EXCEPT !.pc = "failed"]
                ELSE [r EXCEPT !.pc = "shown", !.entries = walk.seen]
<1>1. r.pc = "store" /\ Move(p, s) /\ UNCHANGED <<idx, tmp, branch, overlap>>
  BY DEF historyFromStore, refVars
<1>2. History(p) /\ IsGraph(parents) /\ stored.commits \in SUBSET DOMAIN parents
  BY DEF History, TypeInv, IsGraph
<1>3. /\ r = [pc |-> r.pc, head |-> r.head, entries |-> r.entries, file |-> r.file]
      /\ r.head \in DOMAIN parents
      /\ \A x : x.head = r.head => Rooted(parents, Tips(branch, headLog), x)
      /\ Undisturbed => plan = << >> /\ r.head = branch[head]
  BY <1>1, ReaderNow
<1>4. /\ walk.end = "error" => ~(Reach(parents, r.head) \subseteq stored.commits)
      /\ walk.end # "error" => walk.seen = Reach(parents, r.head)
  BY <1>2, <1>3, StoreWalk
<1>5. ASSUME "gc" \notin overlap PROVE Reach(parents, r.head) \subseteq stored.commits
  <2>1. Rooted(parents, Tips(branch, headLog), r)
    BY <1>3
  <2>2. PICK c \in Tips(branch, headLog) : r.head \in Reach(parents, c)
    BY <1>1, <2>1 DEF Rooted
  <2>3. c \in 0..Len(parents)
    BY TipsMade
  <2>4. Reach(parents, r.head) \subseteq Reach(parents, c)
    BY <1>2, <2>2, <2>3, ReachTransitive
  <2>5. Fine(parents, rootTree, stored, c)
    BY <1>5 DEF GcInv, Safe
  <2> QED BY <2>4, <2>5 DEF Fine
<1> HIDE DEF walk, r
<1>6. /\ s = [pc |-> s.pc, head |-> r.head, entries |-> s.entries, file |-> s.file]
      /\ walk.end = "error" => s.pc = "failed"
      /\ walk.end # "error" => s.pc = "shown" /\ s.entries = walk.seen
  BY <1>1, <1>3
<1> HIDE DEF s
<1>7. ReaderOK(parents, s) /\ Rooted(parents, Tips(branch, headLog), s)
  BY <1>3, <1>4, <1>6 DEF ReaderOK, Building
<1>8. /\ Undisturbed => s.pc \notin Building /\ (s.pc = "shown" => s.entries = Reach(parents, s.head))
      /\ s.pc = "failed" => "gc" \in overlap
      /\ s.pc \in {"shown", "failed"}
  BY <1>4, <1>5, <1>6 DEF Building
<1> QED BY <1>1, <1>2, <1>7, <1>8, ReaderMoves DEF r

----------------------------------------------------------------------------
(* What a command does to the history of what is being read                *)

\* The rest of a plan, once its first step has made G of the graph H, br of the branches cr.
LEMMA RootedTail ==
    ASSUME NEW G, NEW H, NEW br, NEW cr, NEW c, NEW d, NEW log, NEW new, NEW p,
           IsGraph(G), PlanTyped(Len(G), br, p), PlanRooted(G, br, c, log, p), p # << >>,
           p[1][1] \notin {"ref", "create", "head"} => cr = br /\ d = c,
           log \subseteq new, p[1][1] = "headlog" => p[1][2] \ {NoCommit} \subseteq new,
           p[1][1] # "commit" => H = G,
           p[1][1] = "commit" =>
               /\ DOMAIN G \subseteq DOMAIN H /\ Len(G) + 1 \in DOMAIN H /\ c \in Reach(H, Len(G) + 1)
               /\ \A x \in DOMAIN G : Reach(H, x) = Reach(G, x)
    PROVE  PlanRooted(H, cr, d, new, Tail(p))
<1> DEFINE q == Tail(p)
<1>1. \A i \in DOMAIN q : /\ i + 1 \in DOMAIN p /\ q[i] = p[i + 1]
                          /\ Earlier(p, i + 1) = {p[1]} \cup Earlier(q, i)
  BY PlanTail DEF PlanTyped
<1> HIDE DEF q
<1>2. ASSUME NEW i \in DOMAIN q PROVE StepRooted(H, cr, d, new, Earlier(q, i), q[i])
  <2> DEFINE E == Earlier(q, i)
             F == {p[1]} \cup E
             e == q[i]
  <2>1. StepRooted(G, br, c, log, F, e) /\ StepTyped(Len(G), br, F, e)
    BY <1>1 DEF PlanTyped, PlanRooted
  <2> HIDE DEF E, e
  <2>2. e[1] \in {"ref", "create"} => cr = br /\ d = c /\ \A x \in E : x[1] \notin {"ref", "create", "head"}
    BY <2>1 DEF StepRooted
  <2>3. e[1] = "create" => cr[e[2]] = NoCommit
    BY <2>1, <2>2 DEF StepRooted
  <2>4. ASSUME e[1] = "ref"
        PROVE  d \in new \/ (e[2] = Len(H) + 1 /\ Committed(E)) \/ (e[2] \in DOMAIN H /\ d \in Reach(H, e[2]))
    <3>1. d = c
      BY <2>2, <2>4
    <3>2. CASE c \in log
      BY <3>1, <3>2
    <3>3. CASE e[2] = Len(G) + 1 /\ Committed(F)
      <4>1. CASE p[1][1] = "commit"
        BY <3>1, <3>3, <4>1
      <4>2. CASE p[1][1] # "commit"
        BY <3>3, <4>2 DEF Committed
      <4> QED BY <4>1, <4>2
    <3>4. CASE e[2] \in DOMAIN G /\ c \in Reach(G, e[2])
      BY <3>1, <3>4
    <3> QED BY <2>1, <2>4, <3>2, <3>3, <3>4 DEF StepRooted
  <2>5. ASSUME e[1] = "branchlog", NEW j \in DOMAIN e[2]
        PROVE  e[2][j] \in new \/ \E x \in E : x[1] = "headlog" /\ e[2][j] \in x[2]
    <3>1. e[2][j] # NoCommit
      <4>1. e[2] \in Seq(Known(Len(G), F))
        BY <2>1, <2>5 DEF StepTyped
      <4>2. e[2][j] \in Known(Len(G), F)
        BY <2>5, <4>1
      <4>3. Len(G) \in Nat
        BY DEF IsGraph
      <4> QED BY <4>2, <4>3 DEF Known, NoCommit
    <3>2. e[2][j] \in log \/ \E x \in F : x[1] = "headlog" /\ e[2][j] \in x[2]
      BY <2>1, <2>5 DEF StepRooted
    <3> QED BY <3>1, <3>2
  <2> QED BY <2>2, <2>3, <2>4, <2>5 DEF StepRooted, E, e
<1> QED BY <1>2 DEF PlanRooted, q

\* A run of writes before a plan.
LEMMA RootedPrefix ==
    ASSUME NEW G, NEW br, NEW c, NEW log, NEW q, IsPlan(q), PlanRooted(G, br, c, log, q), NEW S
    PROVE  PlanRooted(G, br, c, log, Writes(S) \o q)
<1> DEFINE p == Writes(S) \o q
           w == <<"write", S>>
<1>1. \A i \in DOMAIN p : p[i] = w \/ Follows(p, i, q, S)
  BY PlanPrefix
<1>2. \A E : StepRooted(G, br, c, log, E, w)
  BY DEF StepRooted
<1>3. \A x \in WriteSteps(S) : x[1] = "write"
  BY DEF WriteSteps
<1> HIDE DEF p, w
<1>4. ASSUME NEW i \in DOMAIN p, Follows(p, i, q, S) PROVE StepRooted(G, br, c, log, Earlier(p, i), p[i])
  <2>1. PICK j \in DOMAIN q : p[i] = q[j] /\ Earlier(p, i) = WriteSteps(S) \cup Earlier(q, j)
    BY <1>4 DEF Follows
  <2>2. StepRooted(G, br, c, log, Earlier(q, j), q[j])
    BY DEF PlanRooted
  <2>3. /\ Committed(Earlier(q, j)) => Committed(Earlier(p, i))
        /\ \A x \in Earlier(p, i) : x[1] = "write" \/ x \in Earlier(q, j)
        /\ Earlier(q, j) \subseteq Earlier(p, i)
    BY <1>3, <2>1 DEF Committed
  <2> DEFINE E == Earlier(p, i)
             F == Earlier(q, j)
             e == q[j]
  <2>4. p[i] = e
    BY <2>1
  <2>5. StepRooted(G, br, c, log, E, e)
    <3> HIDE DEF E, F, e
    <3>1. e[1] \in {"ref", "create"} => \A x \in E : x[1] \notin {"ref", "create", "head"}
      BY <2>2, <2>3 DEF StepRooted, E, F, e
    <3> QED BY <2>2, <2>3, <3>1 DEF StepRooted, E, F, e
  <2> QED BY <2>4, <2>5
<1> QED BY <1>1, <1>2, <1>4 DEF PlanRooted, p

\* No plan, and no step that moves a branch or makes anything undoable.
LEMMA RootedTrivially ==
    ASSUME NEW G, NEW br, NEW c, NEW log, NEW p,
           \A i \in DOMAIN p : p[i][1] \notin {"ref", "create", "branchlog"}
    PROVE  PlanRooted(G, br, c, log, p)
BY DEF PlanRooted, StepRooted

\* The commits of D reach what those of C do.
TipsKept(G, C, H, D) == \A c \in C : \E d \in D : Reach(G, c) \subseteq Reach(H, d)

----------------------------------------------------------------------------
(* What a command does to the index                                        *)

NoRef(p) == \A i \in DOMAIN p : p[i][1] # "ref"

\* The rest of a plan, once its first step is done.
LEMMA CurrentTail ==
    ASSUME NEW G, NEW c, NEW p, IsPlan(p), p # << >>, MovesBack(G, c, p) \/ Invalidating(p)
    PROVE  /\ NoRef(Tail(p)) \/ Invalidating(Tail(p))
           /\ p[1][1] # "invalidate" /\ WillInvalidate(p) => WillInvalidate(Tail(p))
           /\ p[1][1] = "ref" => p[1][2] \in Reach(G, c) \/ WillInvalidate(Tail(p))
<1> DEFINE q == Tail(p)
<1>1. /\ 1 \in DOMAIN p
      /\ \A i \in DOMAIN q : /\ i + 1 \in DOMAIN p /\ q[i] = p[i + 1]
                             /\ Earlier(p, i + 1) = {p[1]} \cup Earlier(q, i)
  BY PlanTail
<1>2. \A i \in DOMAIN p : i = 1 \/ \E j \in DOMAIN q : i = j + 1
  <2> DEFINE S == {p[i] : i \in DOMAIN p}
  <2>1. p \in Seq(S) /\ Len(p) \in Nat /\ DOMAIN p = 1..Len(p)
    BY DEF IsPlan
  <2>2. q \in Seq(S) /\ Len(q) = Len(p) - 1
    BY <2>1, HeadTailProperties
  <2>3. DOMAIN q = 1..Len(q)
    BY <2>2
  <2> HIDE DEF q, S
  <2>4. ASSUME NEW i \in DOMAIN p, i # 1 PROVE i - 1 \in DOMAIN q /\ i = (i - 1) + 1
    BY <2>1, <2>2, <2>3, <2>4
  <2> QED BY <2>4
<1>3. \A i \in DOMAIN q : i \in Nat /\ i + 1 # 1
  <2> DEFINE S == {q[i] : i \in DOMAIN q}
  <2>1. q \in Seq(S)
    BY PlanTail DEF IsPlan
  <2>2. DOMAIN q = 1..Len(q) /\ Len(q) \in Nat
    BY <2>1
  <2> HIDE DEF q
  <2>3. ASSUME NEW i \in DOMAIN q PROVE i \in Nat /\ i + 1 # 1
    BY <2>2
  <2> QED BY <2>3
<1> HIDE DEF q
<1>4. MovesBack(G, c, p) => NoRef(q)
  BY <1>1, <1>3 DEF MovesBack, NoRef
<1>5. ASSUME \E i \in DOMAIN p : p[i][1] = "invalidate", p[1][1] # "invalidate"
      PROVE  \E i \in DOMAIN q : q[i][1] = "invalidate"
  BY <1>1, <1>2, <1>5
<1>6. Invalidating(p) /\ p[1][1] = "invalidate" => NoRef(q)
  BY <1>1 DEF Invalidating, NoRef
<1>7. ASSUME Invalidating(p), p[1][1] # "invalidate" PROVE Invalidating(q)
  <2>1. \E i \in DOMAIN q : q[i][1] = "invalidate"
    BY <1>5, <1>7 DEF Invalidating
  <2>2. ASSUME NEW i \in DOMAIN q, q[i][1] \in Failing PROVE \A x \in Earlier(q, i) : x[1] # "ref"
    BY <1>1, <1>7, <2>2 DEF Invalidating
  <2>3. ASSUME NEW i \in DOMAIN q, q[i][1] = "ref" PROVE \A x \in Earlier(q, i) : x[1] # "invalidate"
    BY <1>1, <1>7, <2>3 DEF Invalidating
  <2> QED BY <2>1, <2>2, <2>3 DEF Invalidating
<1>8. ASSUME p[1][1] # "invalidate", WillInvalidate(p) PROVE WillInvalidate(q)
  BY <1>1, <1>5, <1>8 DEF WillInvalidate
<1>9. ASSUME p[1][1] = "ref", Invalidating(p) PROVE WillInvalidate(q)
  <2>1. \E i \in DOMAIN q : q[i][1] = "invalidate"
    BY <1>5, <1>9 DEF Invalidating
  <2>2. \A i \in DOMAIN q : q[i][1] \notin Failing
    BY <1>1, <1>9 DEF Invalidating
  <2> QED BY <2>1, <2>2 DEF WillInvalidate
<1>10. p[1][1] = "ref" /\ MovesBack(G, c, p) => p[1][2] \in Reach(G, c)
  BY <1>1 DEF MovesBack
<1> QED BY <1>4, <1>6, <1>7, <1>8, <1>9, <1>10 DEF q

\* A run of writes before a plan.
LEMMA CurrentPrefix ==
    ASSUME NEW q, IsPlan(q), NoRef(q) \/ Invalidating(q), NEW S
    PROVE  NoRef(Writes(S) \o q) \/ Invalidating(Writes(S) \o q)
<1> DEFINE p == Writes(S) \o q
           w == <<"write", S>>
<1>1. /\ \A i \in DOMAIN p : (p[i] = w /\ Earlier(p, i) = {}) \/ Follows(p, i, q, S)
      /\ \A j \in DOMAIN q : \E i \in DOMAIN p : p[i] = q[j]
  BY PlanPrefix
<1>2. w[1] = "write"
  OBVIOUS
<1>3. \A x \in WriteSteps(S) : x[1] = "write"
  BY DEF WriteSteps
<1> HIDE DEF p, w
<1>4. CASE NoRef(q)
  <2>1. NoRef(p)
    BY <1>1, <1>2, <1>4 DEF NoRef, Follows
  <2> QED BY <2>1 DEF p
<1>5. CASE Invalidating(q)
  <2>1. \E i \in DOMAIN p : p[i][1] = "invalidate"
    BY <1>1, <1>5 DEF Invalidating
  <2>2. ASSUME NEW i \in DOMAIN p, p[i][1] \in Failing PROVE \A x \in Earlier(p, i) : x[1] # "ref"
    BY <1>1, <1>3, <1>5, <2>2 DEF Invalidating, Follows
  <2>3. ASSUME NEW i \in DOMAIN p, p[i][1] = "ref" PROVE \A x \in Earlier(p, i) : x[1] # "invalidate"
    BY <1>1, <1>2, <1>3, <1>5, <2>3 DEF Invalidating, Follows
  <2> QED BY <2>1, <2>2, <2>3 DEF Invalidating, p
<1> QED BY <1>4, <1>5 DEF p

\* What a command's step must establish of the index.
LEMMA CurrentCommand ==
    ASSUME TypeInv, HistInv, plan # << >>, tmp' = tmp,
           \A q \in Readers : SameReader(reader[q], reader'[q]),
           \A d \in DOMAIN parents : Reach(parents', d) = Reach(parents, d),
           Undisturbed' => Undisturbed,
           Undisturbed' => NoRef(plan') \/ Invalidating(plan'),
           Undisturbed' /\ Parses(idx') => Tips(branch', {}) \subseteq idx' \/ WillInvalidate(plan')
    PROVE  CurrentInv'
<1> SUFFICES ASSUME Undisturbed'
             PROVE  /\ Current(parents', branch', branch'[head'], plan', idx')
                    /\ ~Parses(tmp')
                    /\ \A p \in Readers : ReaderCurrent(parents', branch', branch'[head'], plan', reader'[p])
  BY DEF CurrentInv
<1>1. \A p \in Readers : ReaderCurrent(parents, branch, branch[head], plan, reader[p])
  BY DEF HistInv, CurrentInv
<1>2. \A p \in Readers : reader[p].pc \in {"idle", "shown", "failed"}
  BY <1>1 DEF ReaderCurrent
<1>3. tmp = Absent
  BY <1>2 DEF HistInv, IndexInv
<1>4. ~Parses(tmp')
  BY <1>3 DEF Parses
<1>5. Current(parents', branch', branch'[head'], plan', idx')
  BY DEF Current, MovesBack, NoRef
<1>6. ASSUME NEW p \in Readers
      PROVE  ReaderCurrent(parents', branch', branch'[head'], plan', reader'[p])
  <2>1. reader'[p].pc = reader[p].pc /\ reader'[p].head = reader[p].head /\ reader'[p].entries = reader[p].entries
    BY DEF SameReader
  <2>2. reader[p].pc = "shown" => reader[p].entries = Reach(parents, reader[p].head) /\ reader[p].head \in DOMAIN parents
    BY <1>1 DEF ReaderCurrent, HistInv, IndexInv, ReaderOK
  <2> QED BY <1>2, <2>1, <2>2 DEF ReaderCurrent, Building
<1> QED BY <1>4, <1>5, <1>6

\* What a command's step must establish of the roots.
LEMMA RootedCommand ==
    ASSUME HistInv, overlap \subseteq overlap',
           \A q \in Readers : SameReader(reader[q], reader'[q]),
           TipsKept(parents, Tips(branch, headLog), parents', Tips(branch', headLog')),
           PlanRooted(parents', branch', branch'[head'], headLog', plan'),
           \A b \in Branches : \A i \in DOMAIN undoable'[b] : undoable'[b][i] \in headLog'
    PROVE  RootedInv'
<1> DEFINE C == Tips(branch, headLog)
           D == Tips(branch', headLog')
<1>1. \A p \in Readers : Rooted(parents, C, reader[p])
  BY DEF HistInv, RootedInv
<1>2. \A p \in Readers : reader'[p].pc = reader[p].pc /\ reader'[p].head = reader[p].head
  BY DEF SameReader
<1>3. TipsKept(parents, C, parents', D)
  OBVIOUS
<1> HIDE DEF C, D
<1>4. \A p \in Readers : Rooted(parents', D, reader'[p])
  BY <1>1, <1>2, <1>3 DEF TipsKept, Rooted
<1>5. (\E p \in Readers : reader'[p].pc = "failed") => "gc" \in overlap'
  BY <1>2 DEF HistInv, RootedInv
<1> QED BY <1>4, <1>5 DEF RootedInv, D

\* Where a command's plan stands.
LEMMA PlanNow ==
    ASSUME TypeInv, HistInv, plan # << >>
    PROVE  /\ IsPlan(plan) /\ IsPlan(Tail(plan)) /\ Head(plan) = plan[1]
           /\ StepTyped(Len(parents), branch, {}, plan[1])
           /\ StepRooted(parents, branch, branch[head], headLog, {}, plan[1])
           /\ Undisturbed =>
                 /\ NoRef(Tail(plan)) \/ Invalidating(Tail(plan))
                 /\ plan[1][1] = "ref" => plan[1][2] \in Reach(parents, branch[head]) \/ WillInvalidate(Tail(plan))
                 /\ Parses(idx) /\ plan[1][1] # "invalidate" =>
                       Tips(branch, {}) \subseteq idx \/ (WillInvalidate(Tail(plan)) /\ plan[1][1] \notin Failing)
<1>1. IsPlan(plan) /\ IsPlan(Tail(plan)) /\ Head(plan) = plan[1] /\ 1 \in DOMAIN plan /\ Earlier(plan, 1) = {}
  BY PlanTail DEF TypeInv, PlanTyped
<1>2. StepTyped(Len(parents), branch, {}, plan[1]) /\ StepRooted(parents, branch, branch[head], headLog, {}, plan[1])
  BY <1>1 DEF TypeInv, PlanTyped, HistInv, RootedInv, PlanRooted
<1>3. ASSUME Undisturbed
      PROVE  /\ NoRef(Tail(plan)) \/ Invalidating(Tail(plan))
             /\ plan[1][1] = "ref" => plan[1][2] \in Reach(parents, branch[head]) \/ WillInvalidate(Tail(plan))
             /\ Parses(idx) /\ plan[1][1] # "invalidate" =>
                   Tips(branch, {}) \subseteq idx \/ (WillInvalidate(Tail(plan)) /\ plan[1][1] \notin Failing)
  <2>1. Current(parents, branch, branch[head], plan, idx)
    BY <1>3 DEF HistInv, CurrentInv
  <2>2. MovesBack(parents, branch[head], plan) \/ Invalidating(plan)
    BY <2>1 DEF Current
  <2>3. /\ NoRef(Tail(plan)) \/ Invalidating(Tail(plan))
        /\ plan[1][1] # "invalidate" /\ WillInvalidate(plan) => WillInvalidate(Tail(plan))
        /\ plan[1][1] = "ref" => plan[1][2] \in Reach(parents, branch[head]) \/ WillInvalidate(Tail(plan))
    BY <1>1, <2>2, CurrentTail
  <2>4. WillInvalidate(plan) => plan[1][1] \notin Failing
    BY <1>1 DEF WillInvalidate
  <2> QED BY <2>1, <2>3, <2>4 DEF Current
<1> QED BY <1>1, <1>2, <1>3

\* A step that only writes, checks or removes the index.
LEMMA HistOtherStep ==
    ASSUME TypeInv, HistInv, (\E o \in Object : WriteObject(o)) \/ CheckChanged \/ Checkout \/ WriteIndex \/ Invalidate
    PROVE  HistInv'
<1>1. plan # << >> /\ UNCHANGED <<parents, branch, head, headLog, undoable, tmp, overlap>>
  BY DEF WriteObject, CheckChanged, Checkout, WriteIndex, Invalidate, Doing, objectVars, refVars, indexVars
<1>2. /\ IsPlan(plan) /\ IsPlan(Tail(plan)) /\ Head(plan) = plan[1]
      /\ Undisturbed =>
            /\ NoRef(Tail(plan)) \/ Invalidating(Tail(plan))
            /\ Parses(idx) /\ plan[1][1] # "invalidate" =>
                  Tips(branch, {}) \subseteq idx \/ (WillInvalidate(Tail(plan)) /\ plan[1][1] \notin Failing)
  BY <1>1, PlanNow
<1>3. CASE Invalidate
  <2>1. /\ idx' = Absent /\ plan' = Tail(plan) /\ Head(plan)[1] = "invalidate"
        /\ reader' = [p \in Readers |-> reader'[p]]
        /\ \A p \in Readers : SameReader(reader[p], reader'[p])
    BY <1>3, InvalidateFrame DEF SameReader, HistInv
  <2>2. ~Parses(idx')
    BY <2>1 DEF Parses
  <2>3. IndexInv'
    <3>1. \A p \in Readers : ReaderOK(parents, reader'[p])
      BY <2>1 DEF SameReader, HistInv, IndexInv
    <3>2. tmp # Absent => \E p \in Readers : reader'[p].pc \in {"write", "rename"}
      BY <2>1 DEF SameReader, HistInv, IndexInv
    <3>3. FileOK(parents, tmp) /\ FileOK(parents, idx')
      BY <2>2 DEF FileOK, HistInv, IndexInv
    <3> QED BY <1>1, <2>1, <3>1, <3>2, <3>3 DEF IndexInv
  <2>4. PlanRooted(parents, branch, branch[head], headLog, Tail(plan))
    BY <1>1, <1>2, <2>1, RootedTail DEF TypeInv, HistInv, RootedInv
  <2>5. TipsKept(parents, Tips(branch, headLog), parents, Tips(branch, headLog))
    BY DEF TipsKept
  <2>6. RootedInv'
    BY <1>1, <2>1, <2>4, <2>5, RootedCommand DEF HistInv, RootedInv
  <2>7. CurrentInv'
    BY <1>1, <1>2, <2>1, <2>2, CurrentCommand DEF Undisturbed
  <2> QED BY <2>3, <2>6, <2>7 DEF HistInv
<1>4. CASE ~Invalidate
  <2>1. UNCHANGED indexVars /\ IndexInv'
    <3>1. UNCHANGED indexVars
      BY <1>4 DEF WriteObject, CheckChanged, Checkout, WriteIndex
    <3> QED BY <1>1, <3>1, IndexFrame DEF HistInv
  <2>2. idx' = idx /\ \A p \in Readers : SameReader(reader[p], reader'[p])
    BY <2>1 DEF indexVars, SameReader
  <2>3. /\ plan[1][1] \in {"write", "changed", "checkout", "index"}
        /\ \/ plan' = Tail(plan)
           \/ plan' = << >> /\ plan[1][1] \in Failing
           \/ plan[1][1] \in Failing /\ \E S : plan' = Writes(S) \o Tail(plan)
    BY <1>2, <1>4 DEF WriteObject, CheckChanged, Checkout, WriteIndex, Doing, Proceed, Fail, Failing
  <2>4. PlanRooted(parents, branch, branch[head], headLog, Tail(plan))
    BY <1>1, <1>2, <2>3, RootedTail DEF TypeInv, HistInv, RootedInv
  <2>5. /\ PlanRooted(parents, branch, branch[head], headLog, plan')
        /\ Undisturbed => /\ NoRef(plan') \/ Invalidating(plan')
                          /\ Parses(idx) => Tips(branch, {}) \subseteq idx \/ WillInvalidate(plan')
    <3>1. CASE plan' = Tail(plan)
      BY <1>2, <2>3, <2>4, <3>1
    <3>2. CASE plan' = << >> /\ plan[1][1] \in Failing
      BY <1>2, <2>3, <3>2 DEF PlanRooted, NoRef, Failing
    <3>3. ASSUME NEW S, plan' = Writes(S) \o Tail(plan), plan[1][1] \in Failing
          PROVE  /\ PlanRooted(parents, branch, branch[head], headLog, plan')
                 /\ Undisturbed => /\ NoRef(plan') \/ Invalidating(plan')
                                   /\ Parses(idx) => Tips(branch, {}) \subseteq idx \/ WillInvalidate(plan')
      <4>1. PlanRooted(parents, branch, branch[head], headLog, Writes(S) \o Tail(plan))
        BY <1>2, <2>4, RootedPrefix
      <4>2. Undisturbed => NoRef(Writes(S) \o Tail(plan)) \/ Invalidating(Writes(S) \o Tail(plan))
        BY <1>2, CurrentPrefix
      <4>3. Undisturbed /\ Parses(idx) => Tips(branch, {}) \subseteq idx
        BY <1>2, <3>3 DEF Failing
      <4> QED BY <3>3, <4>1, <4>2, <4>3
    <3> QED BY <2>3, <3>1, <3>2, <3>3
  <2>6. TipsKept(parents, Tips(branch, headLog), parents, Tips(branch, headLog))
    BY DEF TipsKept
  <2>7. RootedInv'
    BY <1>1, <2>2, <2>5, <2>6, RootedCommand DEF HistInv, RootedInv
  <2>8. CurrentInv'
    BY <1>1, <2>2, <2>5, CurrentCommand DEF Undisturbed
  <2> QED BY <2>1, <2>7, <2>8 DEF HistInv
<1> QED BY <1>3, <1>4

\* A commit is made.
LEMMA HistCommit ==
    ASSUME TypeInv, HistInv, WriteCommit
    PROVE  HistInv'
<1> DEFINE c == branch[head]
           n == Len(parents)
           H == Append(parents, <<c>>)
<1>1. /\ plan # << >> /\ plan' = Tail(plan) /\ Head(plan)[1] = "commit" /\ parents' = H
      /\ UNCHANGED <<branch, head, headLog, undoable, indexVars, overlap>>
  BY DEF WriteCommit, Doing, Proceed, refVars
<1>2. IsGraph(parents) /\ c \in 1..n /\ c \in DOMAIN parents
  BY DEF TypeInv, IsGraph, NoCommit
<1>3. IndexInv'
  BY <1>1, IndexFrame DEF HistInv
<1>4. idx' = idx /\ tmp' = tmp /\ \A p \in Readers : SameReader(reader[p], reader'[p])
  BY <1>1 DEF indexVars, SameReader
<1>5. /\ IsPlan(plan) /\ Head(plan) = plan[1]
      /\ Undisturbed =>
            /\ NoRef(Tail(plan)) \/ Invalidating(Tail(plan))
            /\ Parses(idx) /\ plan[1][1] # "invalidate" => Tips(branch, {}) \subseteq idx \/ WillInvalidate(Tail(plan))
  BY <1>1, PlanNow
<1>6. /\ DOMAIN parents \subseteq DOMAIN H /\ \A d \in DOMAIN parents : Reach(H, d) = Reach(parents, d)
      /\ Reach(H, n + 1) = {n + 1} \cup Reach(parents, c) /\ IsGraph(H)
  BY <1>2, HistoryGrows
<1>7. c \in Reach(parents, c)
  BY <1>2, ReachUnfolds
<1>8. n + 1 \in DOMAIN H
  <2>1. n \in Nat /\ parents \in Seq(Seq(Nat))
    BY DEF TypeInv, IsGraph
  <2>2. <<c>> \in Seq(Nat)
    BY <1>2, <2>1
  <2> QED BY <2>1, <2>2, AppendProperties
<1> HIDE DEF H
<1>9. PlanRooted(H, branch, c, headLog, Tail(plan))
  <2>1. /\ PlanRooted(parents, branch, c, headLog, plan) /\ PlanTyped(n, branch, plan)
        /\ plan[1][1] = "commit"
    BY <1>1, <1>5 DEF HistInv, RootedInv, TypeInv
  <2> HIDE DEF c
  <2> QED BY <1>1, <1>2, <1>6, <1>7, <1>8, <2>1, RootedTail
<1>10. TipsKept(parents, Tips(branch, headLog), H, Tips(branch, headLog))
  <2>1. ASSUME NEW t \in Tips(branch, headLog) PROVE t \in DOMAIN parents
    <3>1. n \in Nat /\ t \in 0..n /\ t # 0
      BY TipsMade DEF Tips, NoCommit
    <3> QED BY <3>1 DEF TypeInv, IsGraph
  <2> QED BY <1>6, <2>1 DEF TipsKept
<1>11. RootedInv'
  BY <1>1, <1>4, <1>9, <1>10, RootedCommand DEF HistInv, RootedInv
<1>12. CurrentInv'
  <2>1. \A d \in DOMAIN parents : Reach(parents', d) = Reach(parents, d)
    BY <1>1, <1>6
  <2>2. Undisturbed' => Undisturbed
    BY <1>1 DEF Undisturbed
  <2>3. Undisturbed' => NoRef(plan') \/ Invalidating(plan')
    BY <1>1, <1>5, <2>2
  <2>4. Undisturbed' /\ Parses(idx') => Tips(branch', {}) \subseteq idx' \/ WillInvalidate(plan')
    BY <1>1, <1>4, <1>5, <2>2
  <2> QED BY <1>1, <1>4, <2>1, <2>2, <2>3, <2>4, CurrentCommand
<1> QED BY <1>3, <1>11, <1>12 DEF HistInv

\* What moving a reference must establish.
LEMMA HistMoves ==
    ASSUME TypeInv, HistInv, MoveRef,
           TipsKept(parents, Tips(branch, headLog), parents, Tips(branch', headLog)),
           Undisturbed' => Undisturbed,
           Undisturbed' /\ Parses(idx) => Tips(branch', {}) \subseteq idx \/ WillInvalidate(Tail(plan))
    PROVE  HistInv'
<1>1. /\ plan # << >> /\ plan' = Tail(plan) /\ Head(plan)[1] \in {"ref", "create", "head"}
      /\ UNCHANGED <<parents, headLog, undoable, indexVars, overlap>>
  BY DEF MoveRef, Doing, Proceed, objectVars
<1>2. IndexInv'
  BY <1>1, IndexFrame DEF HistInv
<1>3. idx' = idx /\ tmp' = tmp /\ \A p \in Readers : SameReader(reader[p], reader'[p])
  BY <1>1 DEF indexVars, SameReader
<1>4. Head(plan) = plan[1] /\ (Undisturbed => NoRef(Tail(plan)) \/ Invalidating(Tail(plan)))
  BY <1>1, PlanNow
<1>5. PlanRooted(parents, branch', branch'[head'], headLog, Tail(plan))
  <2>1. /\ PlanRooted(parents, branch, branch[head], headLog, plan) /\ PlanTyped(Len(parents), branch, plan)
        /\ plan[1][1] \in {"ref", "create", "head"} /\ IsGraph(parents)
    BY <1>1, <1>4 DEF HistInv, RootedInv, TypeInv
  <2> QED BY <1>1, <2>1, RootedTail
<1>6. RootedInv'
  BY <1>1, <1>3, <1>5, RootedCommand DEF HistInv, RootedInv
<1>7. CurrentInv'
  <2>1. \A d \in DOMAIN parents : Reach(parents', d) = Reach(parents, d)
    BY <1>1
  <2>2. Undisturbed' => NoRef(plan') \/ Invalidating(plan')
    BY <1>1, <1>4
  <2>3. Undisturbed' /\ Parses(idx') => Tips(branch', {}) \subseteq idx' \/ WillInvalidate(plan')
    BY <1>1, <1>3
  <2> QED BY <1>1, <1>3, <2>1, <2>2, <2>3, CurrentCommand
<1> QED BY <1>2, <1>6, <1>7 DEF HistInv

\* A branch moves, is made, or is switched to.
LEMMA HistMoveRef ==
    ASSUME TypeInv, HistInv, MoveRef
    PROVE  HistInv'
<1> DEFINE c == branch[head]
           n == Len(parents)
<1>1. plan # << >> /\ UNCHANGED overlap
  BY DEF MoveRef, Doing
<1>2. /\ Head(plan) = plan[1]
      /\ StepTyped(n, branch, {}, plan[1])
      /\ StepRooted(parents, branch, c, headLog, {}, plan[1])
      /\ Undisturbed =>
            /\ plan[1][1] = "ref" => plan[1][2] \in Reach(parents, c) \/ WillInvalidate(Tail(plan))
            /\ Parses(idx) /\ plan[1][1] # "invalidate" => Tips(branch, {}) \subseteq idx \/ WillInvalidate(Tail(plan))
  BY <1>1, PlanNow
<1>3. /\ IsGraph(parents) /\ n \in Nat /\ c \in 1..n /\ c \in DOMAIN parents /\ head \in Branches
      /\ branch \in [Branches -> 0..n] /\ c \in 0..n
  BY DEF TypeInv, IsGraph, NoCommit
<1>4. ~Committed({})
  BY DEF Committed
<1>5. CASE Doing("ref") /\ branch' = [branch EXCEPT ![head] = Arg]
  <2> DEFINE a == plan[1][2]
  <2>1. plan[1][1] = "ref" /\ branch' = [branch EXCEPT ![head] = a]
    BY <1>2, <1>5 DEF Doing, Arg
  <2>2. a \in 1..n /\ a # NoCommit
    BY <1>2, <1>3, <1>4, <2>1 DEF StepTyped, Known, NoCommit
  <2>3. c \in headLog \/ (a \in DOMAIN parents /\ c \in Reach(parents, a))
    BY <1>2, <1>4, <2>1 DEF StepRooted
  <2> HIDE DEF a
  <2>4. TipsKept(parents, Tips(branch, headLog), parents, Tips(branch', headLog))
    <3>1. a \in Tips(branch', headLog) /\ \A t \in Tips(branch, headLog) : t = c \/ t \in Tips(branch', headLog)
      BY <1>3, <2>1, <2>2 DEF Tips
    <3>2. c \in headLog => c \in Tips(branch', headLog)
      BY <1>3 DEF Tips, NoCommit
    <3>3. c \in Reach(parents, a) => Reach(parents, c) \subseteq Reach(parents, a)
      <4>1. a \in 0..n
        BY <1>3, <2>2
      <4> QED BY <1>3, <4>1, ReachTransitive
    <3> HIDE DEF c
    <3> QED BY <2>3, <3>1, <3>2, <3>3 DEF TipsKept
  <2>5. Undisturbed' => Undisturbed
    BY <1>1, <1>3, <2>1, <2>2 DEF Undisturbed
  <2>6. Undisturbed' /\ Parses(idx) => Tips(branch', {}) \subseteq idx \/ WillInvalidate(Tail(plan))
    <3> SUFFICES ASSUME Undisturbed, Parses(idx), ~WillInvalidate(Tail(plan)) PROVE Tips(branch', {}) \subseteq idx
      BY <2>5
    <3>1. Tips(branch, {}) \subseteq idx /\ a \in Reach(parents, c)
      BY <1>2, <2>1 DEF a
    <3>2. c \in Tips(branch, {})
      BY <1>3 DEF Tips, NoCommit
    <3>3. Closed(parents, idx)
      BY DEF HistInv, IndexInv, FileOK, HasHistory
    <3>4. Reach(parents, c) \subseteq idx
      BY <1>3, <3>1, <3>2, <3>3, ReachLeast
    <3>5. \A t \in Tips(branch', {}) : t = a \/ t \in Tips(branch, {})
      BY <1>3, <2>1 DEF Tips
    <3> QED BY <3>1, <3>4, <3>5
  <2> QED BY <2>4, <2>5, <2>6, HistMoves
<1>6. CASE Doing("create") /\ branch' = [branch EXCEPT ![Arg] = branch[head]]
  <2> DEFINE a == plan[1][2]
  <2>1. plan[1][1] = "create" /\ branch' = [branch EXCEPT ![a] = c]
    BY <1>2, <1>6 DEF Doing, Arg
  <2>2. a \in Branches /\ branch[a] = NoCommit
    BY <1>2, <2>1 DEF StepTyped, StepRooted
  <2> HIDE DEF a
  <2>3. TipsKept(parents, Tips(branch, headLog), parents, Tips(branch', headLog))
    <3>1. \A t \in Tips(branch, headLog) : t \in Tips(branch', headLog)
      BY <1>3, <2>1, <2>2 DEF Tips
    <3> QED BY <3>1 DEF TipsKept
  <2>4. Undisturbed' => Undisturbed
    BY <1>1, <1>3, <2>1, <2>2 DEF Undisturbed, NoCommit
  <2>5. Tips(branch', {}) \subseteq Tips(branch, {})
    BY <1>3, <2>1, <2>2 DEF Tips
  <2> QED BY <1>2, <2>1, <2>3, <2>4, <2>5, HistMoves
<1>7. CASE Doing("head") /\ UNCHANGED branch
  <2>1. plan[1][1] = "head"
    BY <1>2, <1>7 DEF Doing
  <2>2. TipsKept(parents, Tips(branch, headLog), parents, Tips(branch', headLog))
    BY <1>7 DEF TipsKept
  <2>3. Undisturbed' => Undisturbed
    BY <1>1, <1>7 DEF Undisturbed
  <2> QED BY <1>2, <1>7, <2>1, <2>2, <2>3, HistMoves
<1> QED BY <1>5, <1>6, <1>7 DEF MoveRef

\* A reflog is written.
LEMMA HistLog ==
    ASSUME TypeInv, HistInv, AppendLog
    PROVE  HistInv'
<1>1. /\ plan # << >> /\ plan' = Tail(plan) /\ Head(plan)[1] \in {"headlog", "branchlog"}
      /\ UNCHANGED <<parents, branch, head, indexVars, overlap>>
  BY DEF AppendLog, Doing, Proceed, objectVars
<1>2. IndexInv'
  BY <1>1, IndexFrame DEF HistInv
<1>3. idx' = idx /\ tmp' = tmp /\ \A p \in Readers : SameReader(reader[p], reader'[p])
  BY <1>1 DEF indexVars, SameReader
<1>4. /\ Head(plan) = plan[1] /\ StepRooted(parents, branch, branch[head], headLog, {}, plan[1])
      /\ Undisturbed =>
            /\ NoRef(Tail(plan)) \/ Invalidating(Tail(plan))
            /\ Parses(idx) /\ plan[1][1] # "invalidate" => Tips(branch, {}) \subseteq idx \/ WillInvalidate(Tail(plan))
  BY <1>1, PlanNow
<1>5. /\ headLog \subseteq headLog'
      /\ plan[1][1] = "headlog" => plan[1][2] \ {NoCommit} \subseteq headLog'
  BY <1>4 DEF AppendLog, Doing, Arg
<1>6. PlanRooted(parents, branch, branch[head], headLog', Tail(plan))
  <2>1. /\ PlanRooted(parents, branch, branch[head], headLog, plan) /\ PlanTyped(Len(parents), branch, plan)
        /\ plan[1][1] \in {"headlog", "branchlog"} /\ IsGraph(parents)
    BY <1>1, <1>4 DEF HistInv, RootedInv, TypeInv
  <2> QED BY <1>1, <1>5, <2>1, RootedTail
<1>7. TipsKept(parents, Tips(branch, headLog), parents, Tips(branch, headLog'))
  <2>1. Tips(branch, headLog) \subseteq Tips(branch, headLog')
    BY <1>5 DEF Tips
  <2> QED BY <2>1 DEF TipsKept
<1>8. \A b \in Branches : \A i \in DOMAIN undoable'[b] : undoable'[b][i] \in headLog'
  <2>1. \A b \in Branches : \A i \in DOMAIN undoable[b] : undoable[b][i] \in headLog
    BY DEF HistInv, RootedInv
  <2>2. CASE undoable' = undoable
    BY <1>5, <2>1, <2>2
  <2>3. CASE Doing("branchlog") /\ undoable' = [undoable EXCEPT ![head] = Arg]
    <3> DEFINE a == plan[1][2]
    <3>1. \A i \in DOMAIN a : a[i] \in headLog
      BY <1>4, <2>3 DEF Doing, StepRooted
    <3>2. undoable' = [undoable EXCEPT ![head] = a]
      BY <1>4, <2>3 DEF Arg
    <3> HIDE DEF a
    <3>3. undoable \in [Branches -> Seq(1..Len(parents))]
      BY DEF TypeInv
    <3>4. \A b \in Branches : undoable'[b] = a \/ undoable'[b] = undoable[b]
      BY <3>2, <3>3
    <3> QED BY <1>5, <2>1, <3>1, <3>4
  <2> QED BY <2>2, <2>3 DEF AppendLog
<1>9. RootedInv'
  BY <1>1, <1>3, <1>6, <1>7, <1>8, RootedCommand
<1>10. CurrentInv'
  <2>1. \A d \in DOMAIN parents : Reach(parents', d) = Reach(parents, d)
    BY <1>1
  <2>2. Undisturbed' => Undisturbed
    BY <1>1 DEF Undisturbed
  <2>3. Undisturbed' => NoRef(plan') \/ Invalidating(plan')
    BY <1>1, <1>4, <2>2
  <2>4. Undisturbed' /\ Parses(idx') => Tips(branch', {}) \subseteq idx' \/ WillInvalidate(plan')
    BY <1>1, <1>3, <1>4, <2>2
  <2> QED BY <1>1, <1>3, <2>1, <2>2, <2>3, <2>4, CurrentCommand
<1> QED BY <1>2, <1>9, <1>10 DEF HistInv

\* A command dies.
LEMMA HistCrash ==
    ASSUME TypeInv, HistInv, CommandCrash
    PROVE  HistInv'
<1>1. /\ plan' = << >> /\ overlap' = overlap \cup {"crash"}
      /\ UNCHANGED <<parents, branch, head, headLog, undoable, indexVars>>
  BY DEF CommandCrash, refVars
<1>2. IndexInv'
  BY <1>1, IndexFrame DEF HistInv
<1>3. \A p \in Readers : SameReader(reader[p], reader'[p])
  BY <1>1 DEF indexVars, SameReader
<1>4. PlanRooted(parents, branch, branch[head], headLog, << >>)
  BY DEF PlanRooted
<1>5. TipsKept(parents, Tips(branch, headLog), parents, Tips(branch, headLog))
  BY DEF TipsKept
<1>6. RootedInv'
  BY <1>1, <1>3, <1>4, <1>5, RootedCommand DEF HistInv, RootedInv
<1>7. CurrentInv'
  BY <1>1 DEF CurrentInv, Undisturbed
<1> QED BY <1>2, <1>6, <1>7 DEF HistInv

\* A collection leaves all this alone.
LEMMA HistCollect ==
    ASSUME TypeInv, HistInv, Collect
    PROVE  HistInv'
<1>1. UNCHANGED <<parents, branch, head, headLog, undoable, plan, indexVars>> /\ overlap \subseteq overlap'
  BY DEF Collect, ListRefs, Mark, listLooseObjects, Sweep, RemoveCommit, RemoveObject, EndCollect, CollectCrash,
         objectVars, refVars
<1>2. IndexInv'
  BY <1>1, IndexFrame DEF HistInv
<1>3. \A p \in Readers : SameReader(reader[p], reader'[p])
  BY <1>1 DEF indexVars, SameReader
<1>4. TipsKept(parents, Tips(branch, headLog), parents, Tips(branch, headLog))
  BY DEF TipsKept
<1>5. RootedInv'
  BY <1>1, <1>3, <1>4, RootedCommand DEF HistInv, RootedInv
<1>6. CurrentInv'
  <2>1. Undisturbed' => Undisturbed
    BY <1>1 DEF Undisturbed
  <2> QED BY <1>1, <2>1 DEF HistInv, CurrentInv, indexVars
<1> QED BY <1>2, <1>5, <1>6 DEF HistInv

----------------------------------------------------------------------------
(* The plans of the commands keep what is being read                       *)

\* A plan a command may begin with.
StartsWell(p) ==
    /\ PlanRooted(parents, branch, branch[head], headLog, p)
    /\ MovesBack(parents, branch[head], p) \/ Invalidating(p)

\* A command begins.
LEMMA HistBegin ==
    ASSUME TypeInv, HistInv, NEW p, StartsWell(p), Begin(p)
    PROVE  HistInv'
<1>1. /\ plan = << >> /\ plan' = p /\ overlap \subseteq overlap'
      /\ (\E q \in Readers : Busy(q)) => "history" \in overlap'
      /\ UNCHANGED <<parents, branch, head, headLog, undoable, indexVars>>
  BY DEF Begin, objectVars, refVars
<1>2. IndexInv'
  BY <1>1, IndexFrame DEF HistInv
<1>3. idx' = idx /\ tmp' = tmp /\ reader' = reader /\ \A q \in Readers : SameReader(reader[q], reader'[q])
  BY <1>1 DEF indexVars, SameReader
<1>4. TipsKept(parents, Tips(branch, headLog), parents, Tips(branch, headLog))
  BY DEF TipsKept
<1>5. RootedInv'
  BY <1>1, <1>3, <1>4, RootedCommand DEF HistInv, RootedInv, StartsWell
<1>6. CurrentInv'
  <2> SUFFICES ASSUME Undisturbed'
               PROVE  /\ Current(parents, branch, branch[head], p, idx)
                      /\ Parses(tmp) => Tips(branch, {}) \subseteq tmp
                      /\ \A q \in Readers : ReaderCurrent(parents, branch, branch[head], p, reader[q])
    BY <1>1, <1>3 DEF CurrentInv
  <2>1. Undisturbed /\ \A q \in Readers : ~Busy(q)
    BY <1>1 DEF Undisturbed
  <2>2. /\ Current(parents, branch, branch[head], << >>, idx)
        /\ Parses(tmp) => Tips(branch, {}) \subseteq tmp
        /\ \A q \in Readers : ReaderCurrent(parents, branch, branch[head], << >>, reader[q])
    BY <1>1, <2>1 DEF HistInv, CurrentInv
  <2>3. ~WillInvalidate(<< >>)
    BY DEF WillInvalidate
  <2>4. Current(parents, branch, branch[head], p, idx)
    BY <2>2, <2>3 DEF Current, StartsWell
  <2>5. \A q \in Readers : ReaderCurrent(parents, branch, branch[head], p, reader[q])
    BY <2>1, <2>2 DEF ReaderCurrent, Busy
  <2> QED BY <2>2, <2>4, <2>5
<1> QED BY <1>2, <1>5, <1>6 DEF HistInv

\* A run of writes and then a plan.
LEMMA WritesStartWell ==
    ASSUME NEW q, IsPlan(q), NEW S, PlanRooted(parents, branch, branch[head], headLog, q), NoRef(q) \/ Invalidating(q)
    PROVE  StartsWell(Writes(S) \o q)
<1> DEFINE p == Writes(S) \o q
<1>1. PlanRooted(parents, branch, branch[head], headLog, p)
  BY RootedPrefix
<1>2. NoRef(p) \/ Invalidating(p)
  BY CurrentPrefix
<1> HIDE DEF p
<1>3. StartsWell(p)
  BY <1>1, <1>2 DEF StartsWell, MovesBack, NoRef
<1> QED BY <1>3 DEF p

\* add moves no branch.
LEMMA AddStartsWell ==
    ASSUME NEW t
    PROVE  StartsWell(AddPlan(t))
<1> DEFINE a == <<"index", t>>
           q == <<a>>
           A == TreeClosure(t, {}) \cap Blob
<1>1. a[1] = "index" /\ AddPlan(t) = Writes(A) \o q
  BY DEF AddPlan
<1> HIDE DEF a, A
<1>2. IsPlan(q) /\ DOMAIN q = 1..1 /\ q[1] = a
  BY PlanOfOne
<1> HIDE DEF q
<1>3. \A i \in DOMAIN q : q[i][1] = "index"
  BY <1>1, <1>2
<1>4. PlanRooted(parents, branch, branch[head], headLog, q)
  BY <1>3, RootedTrivially
<1>5. NoRef(q)
  BY <1>3 DEF NoRef
<1> QED BY <1>1, <1>2, <1>4, <1>5, WritesStartWell

\* branch makes one that was not there.
LEMMA CreateStartsWell ==
    ASSUME NEW b, branch[b] = NoCommit
    PROVE  StartsWell(<< <<"create", b>> >>)
<1> DEFINE a == <<"create", b>>
           q == <<a>>
<1>1. a[1] = "create" /\ a[2] = b
  OBVIOUS
<1> HIDE DEF a
<1>2. DOMAIN q = 1..1 /\ q[1] = a /\ Earlier(q, 1) = {}
  BY PlanOfOne
<1> HIDE DEF q
<1>3. StepRooted(parents, branch, branch[head], headLog, {}, a)
  BY <1>1 DEF StepRooted
<1>4. \A i \in DOMAIN q : i = 1
  BY <1>2
<1>5. StartsWell(q)
  BY <1>1, <1>2, <1>3, <1>4 DEF StartsWell, PlanRooted, MovesBack
<1> QED BY <1>5 DEF q, a

\* switch moves no branch.
LEMMA SwitchStartsWell ==
    ASSUME NEW b
    PROVE  StartsWell(SwitchPlan(b))
<1> DEFINE s1 == <<"checkout", branch[b]>>
           s2 == <<"index", rootTree[branch[b]]>>
           s3 == <<"head", b>>
           s4 == <<"headlog", {branch[head], branch[b]}>>
           p == <<s1, s2, s3, s4>>
<1>1. SwitchPlan(b) = p
  BY DEF SwitchPlan
<1>2. s1[1] = "checkout" /\ s2[1] = "index" /\ s3[1] = "head" /\ s4[1] = "headlog"
  OBVIOUS
<1> HIDE DEF s1, s2, s3, s4
<1>3. DOMAIN p = 1..4 /\ p[1] = s1 /\ p[2] = s2 /\ p[3] = s3 /\ p[4] = s4
  BY PlanOfFour
<1> HIDE DEF p
<1>4. \A i \in DOMAIN p : p[i][1] \in {"checkout", "index", "head", "headlog"}
  BY <1>2, <1>3
<1>5. PlanRooted(parents, branch, branch[head], headLog, p)
  BY <1>4, RootedTrivially
<1>6. MovesBack(parents, branch[head], p)
  BY <1>4 DEF MovesBack
<1> QED BY <1>1, <1>5, <1>6 DEF StartsWell

\* undo moves the branch back from a commit HEAD's reflog names.
LEMMA UndoStartsWell ==
    ASSUME TypeInv, HistInv, undoable[head] # << >>, branch[head] = Last(undoable[head]), parents[branch[head]] # << >>
    PROVE  StartsWell(UndoPlan)
<1> DEFINE c == branch[head]
           prev == parents[c][1]
           u == undoable[head]
           front == Front(u)
           s1 == <<"ref", prev>>
           s2 == <<"checkout", prev>>
           s3 == <<"index", rootTree[prev]>>
           s4 == <<"branchlog", front>>
           s5 == <<"headlog", {c, prev}>>
           p == <<s1, s2, s3, s4, s5>>
           Good(E, e) == StepRooted(parents, branch, c, headLog, E, e)
<1>1. UndoPlan = p
  BY DEF UndoPlan
<1>2. IsGraph(parents) /\ c \in DOMAIN parents
  BY DEF TypeInv, IsGraph, NoCommit
<1>3. prev \in Reach(parents, c)
  <2>1. parents[c] \in Seq(Nat) /\ parents[c] # << >>
    BY <1>2 DEF IsGraph
  <2>2. 1 \in DOMAIN parents[c]
    <3> HIDE DEF c
    <3> QED BY <2>1
  <2>3. prev \in DOMAIN parents
    BY <1>2, <2>2 DEF IsGraph
  <2>4. prev \in Reach(parents, prev) /\ Reach(parents, prev) \subseteq Reach(parents, c)
    <3> HIDE DEF c
    <3>1. prev \in Reach(parents, prev)
      BY <1>2, <2>3, ReachUnfolds
    <3>2. Reach(parents, prev) \subseteq Reach(parents, c)
      BY <1>2, <2>2, ReachUnfolds
    <3> QED BY <3>1, <3>2
  <2> QED BY <2>4
<1>4. c \in headLog /\ \A i \in DOMAIN front : front[i] \in headLog
  <2>1. head \in Branches /\ u \in Seq(1..Len(parents)) /\ u # << >> /\ c = Last(u)
    BY DEF TypeInv
  <2>2. \A i \in DOMAIN u : u[i] \in headLog
    BY <2>1 DEF HistInv, RootedInv
  <2> HIDE DEF u, c
  <2>3. Len(u) \in DOMAIN u /\ DOMAIN u = 1..Len(u) /\ Len(u) \in Nat
    BY <2>1
  <2>4. Last(u) = u[Len(u)]
    BY DEF Last
  <2>5. \A i \in DOMAIN front : i \in DOMAIN u /\ front[i] = u[i]
    BY <2>1, <2>3 DEF Front
  <2> QED BY <2>1, <2>2, <2>3, <2>4, <2>5
<1> HIDE DEF c, prev, front
<1>5. \A E : Good(E, s2) /\ Good(E, s3) /\ Good(E, s4) /\ Good(E, s5)
  BY <1>4 DEF StepRooted
<1>6. Good({}, s1)
  BY <1>4 DEF StepRooted
<1>7. s1[1] = "ref" /\ s1[2] = prev /\ s2[1] # "ref" /\ s3[1] # "ref" /\ s4[1] # "ref" /\ s5[1] # "ref"
  OBVIOUS
<1> HIDE DEF s1, s2, s3, s4, s5
<1>8. /\ DOMAIN p = 1..5 /\ p[1] = s1 /\ p[2] = s2 /\ p[3] = s3 /\ p[4] = s4 /\ p[5] = s5
      /\ Earlier(p, 1) = {}
  BY PlanOfFive
<1> HIDE DEF p, Good
<1>9. ASSUME NEW i \in DOMAIN p PROVE Good(Earlier(p, i), p[i]) /\ (p[i][1] = "ref" => i = 1)
  <2>1. CASE i = 1
    BY <1>6, <1>8, <2>1
  <2>2. CASE i # 1
    <3>1. p[i] \in {s2, s3, s4, s5}
      BY <1>8, <2>2
    <3> QED BY <1>5, <1>7, <3>1
  <2> QED BY <2>1, <2>2
<1>10. PlanRooted(parents, branch, c, headLog, p)
  BY <1>9 DEF PlanRooted, Good
<1>11. MovesBack(parents, c, p)
  BY <1>3, <1>7, <1>8, <1>9 DEF MovesBack
<1> QED BY <1>1, <1>10, <1>11 DEF StartsWell, c

\* commit moves the branch on to the new commit, logs it, and removes the index.
LEMMA CommitStartsWell ==
    ASSUME TypeInv, HistInv
    PROVE  StartsWell(CommitPlan)
<1> DEFINE n == Len(parents)
           c == branch[head]
           u == undoable[head]
           log == Append(u, n + 1)
           s1 == <<"changed">>
           s2 == <<"commit">>
           s3 == <<"ref", n + 1>>
           s4 == <<"headlog", {c, n + 1}>>
           s5 == <<"branchlog", log>>
           s6 == <<"invalidate">>
           p == <<s1, s2, s3, s4, s5, s6>>
           A == TreeClosure(staged, {}) \cap Tree
           Good(E, e) == StepRooted(parents, branch, c, headLog, E, e)
<1>1. CommitPlan = Writes(A) \o p
  BY DEF CommitPlan
<1>2. \A i \in DOMAIN log : log[i] \in headLog \/ log[i] = n + 1
  <2>1. head \in Branches /\ u \in Seq(1..n) /\ n \in Nat
    BY DEF TypeInv, IsGraph
  <2>2. \A i \in DOMAIN u : u[i] \in headLog
    BY <2>1 DEF HistInv, RootedInv
  <2> HIDE DEF u, n
  <2>3. u \in Seq(Nat) /\ n + 1 \in Nat
    <3>1. 1..n \subseteq Nat
      BY <2>1
    <3> QED BY <2>1, <3>1, SeqGrows
  <2>4. DOMAIN u = 1..Len(u) /\ Len(u) \in Nat
    BY <2>3
  <2>5. DOMAIN log = 1..(Len(u) + 1) /\ log[Len(u) + 1] = n + 1 /\ \A i \in 1..Len(u) : log[i] = u[i]
    BY <2>3, AppendProperties
  <2> HIDE DEF log
  <2> QED BY <2>2, <2>4, <2>5
<1> HIDE DEF n, c, A, log
<1>3. \A E : Good(E, s1) /\ Good(E, s2) /\ Good(E, s4) /\ Good(E, s6)
  BY DEF StepRooted
<1>4. Good({s1, s2}, s3)
  <2>1. Committed({s1, s2})
    BY DEF Committed
  <2>2. \A x \in {s1, s2} : x[1] \notin {"ref", "create", "head"}
    OBVIOUS
  <2>3. s3[1] = "ref" /\ s3[2] = n + 1
    OBVIOUS
  <2> HIDE DEF s1, s2, s3
  <2> QED BY <2>1, <2>2, <2>3 DEF StepRooted, n
<1>5. \A E : s4 \in E => Good(E, s5)
  <2>1. s4[1] = "headlog" /\ s4[2] = {c, n + 1} /\ s5[1] = "branchlog" /\ s5[2] = log
    OBVIOUS
  <2> HIDE DEF s4, s5
  <2> QED BY <1>2, <2>1 DEF StepRooted
<1>6. /\ s1[1] = "changed" /\ s2[1] = "commit" /\ s3[1] = "ref" /\ s4[1] = "headlog" /\ s5[1] = "branchlog"
      /\ s6[1] = "invalidate"
  OBVIOUS
<1> HIDE DEF s1, s2, s3, s4, s5, s6, Good
<1>7. /\ IsPlan(p) /\ DOMAIN p = 1..6
      /\ p[1] = s1 /\ p[2] = s2 /\ p[3] = s3 /\ p[4] = s4 /\ p[5] = s5 /\ p[6] = s6
      /\ Earlier(p, 1) = {} /\ Earlier(p, 3) = {s1, s2} /\ s4 \in Earlier(p, 5)
  BY PlanOfSix
<1> HIDE DEF p
<1>8. \A i \in DOMAIN p : Good(Earlier(p, i), p[i])
  BY <1>3, <1>4, <1>5, <1>7
<1>9. Invalidating(p)
  <2>1. 6 \in DOMAIN p /\ p[6][1] = "invalidate"
    BY <1>6, <1>7
  <2>2. \A i \in DOMAIN p : p[i][1] \in Failing => i = 1
    BY <1>6, <1>7 DEF Failing
  <2>3. \A i \in DOMAIN p : p[i][1] = "ref" => i = 3
    BY <1>6, <1>7
  <2> QED BY <1>6, <1>7, <2>1, <2>2, <2>3 DEF Invalidating
<1>10. PlanRooted(parents, branch, c, headLog, p)
  BY <1>8 DEF PlanRooted, Good
<1> QED BY <1>1, <1>7, <1>9, <1>10, WritesStartWell DEF c

----------------------------------------------------------------------------
(* Histories are shown whole                                               *)

\* Nothing is being read at first.
LEMMA HistInit == Init => HistInv
<1> SUFFICES ASSUME Init PROVE HistInv
  OBVIOUS
<1>1. /\ plan = << >> /\ idx = Absent /\ tmp = Absent /\ reader = [p \in Readers |-> Resting] /\ headLog = {1}
      /\ undoable = [b \in Branches |-> IF b = Main THEN <<1>> ELSE << >>]
  BY DEF Init
<1>2. \A p \in Readers : reader[p].pc = "idle"
  BY <1>1 DEF Resting
<1>3. ~Parses(Absent)
  BY DEF Parses
<1>4. \A b \in Branches : \A i \in DOMAIN undoable[b] : undoable[b][i] \in headLog
  BY <1>1
<1>5. RootedInv
  BY <1>1, <1>2, <1>4 DEF RootedInv, PlanRooted, Rooted
<1>6. CurrentInv
  BY <1>1, <1>2, <1>3 DEF CurrentInv, Current, MovesBack, ReaderCurrent, Building
<1> QED BY <1>5, <1>6, IndexInit DEF HistInv

\* history shows a whole history or nothing, and nothing only where the index may be out of
\* date; it fails only over a store that has lost a commit (HistoryWhole).
THEOREM HistoriesWhole == Spec => []HistoryWhole
<1>1. TypeInv /\ GcInv /\ HistInv /\ [Next]_vars => HistInv'
  <2> SUFFICES ASSUME TypeInv, GcInv, HistInv, [Next]_vars PROVE HistInv'
    OBVIOUS
  <2>1. CASE UNCHANGED vars
    <3>1. UNCHANGED <<parents, branch, head, headLog, undoable, plan, idx, tmp, reader, overlap>>
      BY <2>1 DEF vars, objectVars, refVars, indexVars
    <3> QED BY <3>1 DEF HistInv, IndexInv, RootedInv, CurrentInv, Undisturbed
  <2>2. CASE CommandStart
    <3>1. ASSUME NEW t \in Tree, Add(t) PROVE HistInv'
      BY <3>1, AddStartsWell, HistBegin DEF Add
    <3>2. CASE CommitStaged
      BY <3>2, CommitStartsWell, HistBegin DEF CommitStaged
    <3>3. ASSUME NEW b \in Branches, CreateBranch(b) PROVE HistInv'
      BY <3>3, CreateStartsWell, HistBegin DEF CreateBranch
    <3>4. ASSUME NEW b \in Branches, SwitchTo(b) PROVE HistInv'
      BY <3>4, SwitchStartsWell, HistBegin DEF SwitchTo
    <3>5. CASE Undo
      BY <3>5, UndoStartsWell, HistBegin DEF Undo
    <3> QED BY <2>2, <3>1, <3>2, <3>3, <3>4, <3>5 DEF CommandStart
  <2>3. CASE CommandStep
    BY <2>3, HistOtherStep, HistCommit, HistMoveRef, HistLog, HistCrash DEF CommandStep, Object
  <2>4. CASE Collect
    BY <2>4, HistCollect
  <2>5. ASSUME NEW p \in Readers, History(p) PROVE HistInv'
    BY <2>5, HistResolve, HistLoad, HistBuild, HistOpen, HistWrite, HistRename, HistRemove, HistStore DEF History
  <2> QED BY <2>1, <2>2, <2>3, <2>4, <2>5 DEF Next
<1>2. TypeInv /\ HistInv => HistoryWhole
  <2> SUFFICES ASSUME HistInv, NEW p \in Readers
               PROVE  /\ reader[p].pc = "shown" =>
                            \/ reader[p].entries = Reach(parents, reader[p].head)
                            \/ /\ reader[p].entries = {}
                               /\ overlap \cap {"history", "crash"} # {} \/ \E b \in Nested : branch[b] # NoCommit
                      /\ reader[p].pc = "failed" => "gc" \in overlap
    BY DEF HistoryWhole
  <2>1. reader[p].pc = "shown" => reader[p].entries \in {Reach(parents, reader[p].head), {}}
    BY DEF HistInv, IndexInv, ReaderOK
  <2>2. Undisturbed /\ reader[p].pc = "shown" => reader[p].entries = Reach(parents, reader[p].head)
    BY DEF HistInv, CurrentInv, ReaderCurrent
  <2>3. reader[p].pc = "failed" => "gc" \in overlap
    BY DEF HistInv, RootedInv
  <2> QED BY <2>1, <2>2, <2>3 DEF Undisturbed
<1> QED BY <1>1, <1>2, HistInit, TypeCorrect, GcHolds, PTL DEF Spec
==============================================================================
