--------------------------- MODULE WorkspaceProofs ---------------------------
(***************************************************************************)
(* Proofs about Workspace, for any set of paths, branches and contents,    *)
(* any history, any way to merge texts, and any number of commands, edits, *)
(* errors and crashes: the types, that nothing recorded names a blob the   *)
(* store lacks, that no edit of the user is lost, and what merge --abort   *)
(* leaves alone and leaves behind.                                         *)
(***************************************************************************)
EXTENDS Workspace, CommitGraphProofs

----------------------------------------------------------------------------
(* The inductive invariant                                                 *)
(*                                                                         *)
(* A step of a plan is judged by what is there when its turn comes: O has  *)
(* the kinds of the steps before it, A the blobs that are stored by then.  *)

Steps(p) == {p[i] : i \in DOMAIN p}
Ops(E) == {x.op : x \in E}

\* The blobs a step brings into the store.
Writes(w) ==
    IF w.op = "blobs" THEN w.add
    ELSE IF w.op = "files" /\ w.keep THEN {w.todo[q] : q \in DOMAIN w.todo} ELSE {}
Wrote(E) == UNION {Writes(x) : x \in E}

EntryOK(e) ==
    /\ e = Entry(e.blob, e.state)
    /\ e.state \in {"none", "unmodified", "added", "modified", "deleted"}
    /\ e.blob = None <=> e.state = "none"
IndexOK(A, ix) == \A q \in Path : EntryOK(ix[q]) /\ ix[q].blob \in A \cup {None}

TreeOK(A, t) == DOMAIN t = Path /\ \A q \in Path : t[q] \in A \cup {None}

ConflictOK(A, e) ==
    /\ e = [kind |-> e.kind, base |-> e.base, ours |-> e.ours, theirs |-> e.theirs, resolved |-> e.resolved]
    /\ {e.base, e.ours, e.theirs} \subseteq A \cup {None}
SidecarOK(A, s) ==
    /\ s = [on |-> s.on, entries |-> s.entries, touched |-> s.touched]
    /\ s.on \in BOOLEAN /\ DOMAIN s.entries \subseteq Path /\ s.touched \subseteq Path
    /\ \A q \in DOMAIN s.entries : ConflictOK(A, s.entries[q])

\* The latest commit there is once steps of the kinds O are done.
Known(n, O) == IF "commit" \in O THEN n + 1 ELSE n
LogLine(n) == [old : 0..n, new : 1..n, undo : BOOLEAN]

FilesForm(w) ==
    \/ w = [op |-> "files", todo |-> w.todo, keep |-> w.keep, soft |-> FALSE]
    \/ w = [op |-> "files", todo |-> w.todo, keep |-> TRUE, soft |-> FALSE, orelse |-> w.orelse]

\* The steps whose error ends the command.
Hard == {"begin", "end", "recover", "files", "blobs", "index", "commit", "ref", "head", "then", "hang"}

\* What a plan hands over to.
Handovers == {"policy", "resolve", "continue", "ask"}

StepTyped(n, O, w) ==
    /\ w.op \in Hard => ~w.soft
    /\ w.op = "files" => FilesForm(w) /\ DOMAIN w.todo \subseteq Path
    /\ w.op = "delete" => w = [op |-> "delete", gone |-> w.gone, soft |-> w.soft] /\ w.gone \subseteq Path
    /\ w.op = "commit" => w.parents \in Seq(1..n)
    /\ w.op = "mergeHead" => w.theirs \in 0..n
    /\ w.op = "ref" => w.name \in Branch /\ w.to \in 0..Known(n, O)
    /\ w.op = "head" => w.name \in Branch
    /\ w.op = "log" => w.name \in Branch /\ w.line \in LogLine(Known(n, O))
    /\ w.op = "headLog" => w.ids \subseteq 0..Known(n, O)
    /\ w.op = "then" => w.call.name \in Handovers

\* What a merge falls back to when the files of todo are not written.
FallbackOK(A, todo, f) ==
    /\ f.conflicts \subseteq Path
    /\ TreeOK(A, f.bt) /\ TreeOK(A, f.ot) /\ TreeOK(A, f.tt)
    /\ IndexOK(A, f.before)
    /\ \A q \in Path : EntryOK(f.after[q])
    /\ \A q \in Path \ DOMAIN todo : f.after[q].blob \in A \cup {None}
    /\ \A q \in DOMAIN todo : f.after[q].blob \in {todo[q], None}

\* What a step records is stored by then.
StepStored(A, w) ==
    /\ w.op = "index" => IndexOK(A, w.entries)
    /\ w.op = "sidecar" => SidecarOK(A, w.conflicts)
    /\ w.op = "commit" => TreeOK(A, w.tree)
    /\ w.op = "files" /\ "orelse" \in DOMAIN w => FallbackOK(A, w.todo, w.orelse)

\* What is handed on comes last, a transaction begins before any ends, and an entry of the
\* journal is recovered once; j is the number of entries.
StepOrdered(j, O, w) ==
    /\ w.op # "then" => "then" \notin O
    /\ w.op = "begin" => "end" \notin O /\ "hang" \notin O
    /\ w.op = "recover" => j > 0 /\ "recover" \notin O

\* The user's last edit mn of a file is safe before the file is written: it is among those
\* of the paths sec, a snapshot is taken first, or it is what is written.
StepGuarded(sec, mn, O, w) ==
    \/ "snap" \in O
    \/ /\ w.op = "files" => \A q \in DOMAIN w.todo : q \in sec \/ w.todo[q] = mn[q]
       /\ w.op = "delete" => w.gone \subseteq sec
       /\ w.op = "then" => Path \subseteq sec

StepOK(c, O, A, w) ==
    /\ StepTyped(c.n, O, w)
    /\ StepStored(A, w)
    /\ StepOrdered(c.j, O, w)
    /\ StepGuarded(c.sec, c.mine, O, w)

PlanOK(c, O, A, p) ==
    /\ IsPlan(p)
    /\ \A i \in DOMAIN p : StepOK(c, O \cup Ops(Earlier(p, i)), A \cup Wrote(Earlier(p, i)), p[i])

\* A transaction that is open, or will be, has its end in the plan, or a merge that hangs.
Closes(o, p) ==
    o \/ "begin" \in Ops(Steps(p)) => "end" \in Ops(Steps(p)) \/ "hang" \in Ops(Steps(p))

\* The paths whose last edit by the user, mn, is in the store, in a snapshot or given up.
Secured(mn, wn, S, ss) ==
    {q \in Path : mn[q] = None \/ wn \/ mn[q] \in S \/ \E s \in ss : s[q] = mn[q]}
Context(n, j, mn, wn, S, ss) == [n |-> n, j |-> j, sec |-> Secured(mn, wn, S, ss), mine |-> mn]

HistoryInv ==
    /\ IsGraph(parents) /\ IsPlan(trees) /\ Len(trees) = Len(parents)
    /\ branch \in [Branch -> 0..Len(parents)] /\ head \in Branch
    /\ mergeHead \in 0..Len(parents)
    /\ logs \in [Branch -> Seq(LogLine(Len(parents)))]
    /\ headLog \subseteq 0..Len(parents)

StoreInv ==
    /\ \A c \in 1..Len(parents) : TreeOK(stored, trees[c])
    /\ IndexOK(stored, index)
    /\ SidecarOK(stored, sidecar)

WorkInv ==
    /\ work = [q \in Path |-> work[q]]
    /\ mine = [q \in Path |-> mine[q]]
    /\ \A q \in Path : q \in Secured(mine, warned, stored, snaps) \/ work[q] = mine[q]

FaultInv ==
    /\ faults \in 0..MaxFaults /\ journal \in 0..faults
    /\ open \in BOOLEAN

PlanInv ==
    /\ PlanOK(Context(Len(parents), journal, mine, warned, stored, snaps), {}, stored, plan)
    /\ Closes(open, plan)

Inv == HistoryInv /\ StoreInv /\ WorkInv /\ FaultInv /\ PlanInv

----------------------------------------------------------------------------
(* Plans                                                                   *)

\* Where the i-th step of two plans put together comes from.
JoinedAt(p, q, r, i) ==
    \/ i \in DOMAIN p /\ r[i] = p[i] /\ Earlier(r, i) = Earlier(p, i)
    \/ \E j \in DOMAIN q : r[i] = q[j] /\ Earlier(r, i) = Steps(p) \cup Earlier(q, j)

Joined(p, q, r) ==
    /\ IsPlan(r)
    /\ Steps(r) = Steps(p) \cup Steps(q)
    /\ \A i \in DOMAIN r : JoinedAt(p, q, r, i)

\* Two plans put together.
LEMMA PlanCat ==
    ASSUME NEW p, NEW q, IsPlan(p), IsPlan(q)
    PROVE  Joined(p, q, p \o q)
<1> DEFINE r == p \o q
           X == Steps(p) \cup Steps(q)
           m == Len(p)
           n == Len(q)
<1>1. p \in Seq(Steps(p)) /\ q \in Seq(Steps(q))
  BY DEF IsPlan, Steps
<1>2. p \in Seq(X) /\ q \in Seq(X)
  BY <1>1, SeqGrows
<1>3. m \in Nat /\ n \in Nat /\ DOMAIN p = 1..m /\ DOMAIN q = 1..n
  BY <1>1
<1> HIDE DEF X
<1>4. r \in Seq(X) /\ Len(r) = m + n /\ \A i \in 1..Len(r) : r[i] = IF i <= m THEN p[i] ELSE q[i - m]
  BY <1>2, ConcatProperties
<1> HIDE DEF r, m, n
<1>5. DOMAIN r = 1..(m + n)
  BY <1>4
<1>6. IsPlan(r)
  BY <1>4 DEF IsPlan
<1>7. \A i \in 1..m : i \in DOMAIN r /\ r[i] = p[i]
  BY <1>3, <1>4, <1>5
<1>8. ASSUME NEW j \in 1..n PROVE m + j \in DOMAIN r /\ r[m + j] = q[j]
  <2>1. m + j \in 1..(m + n) /\ ~(m + j <= m) /\ (m + j) - m = j
    BY <1>3
  <2> QED BY <1>4, <1>5, <2>1
<1>9. \A i \in DOMAIN r : i \in 1..m \/ \E j \in 1..n : i = m + j
  <2> SUFFICES ASSUME NEW i \in 1..(m + n), i \notin 1..m PROVE \E j \in 1..n : i = m + j
    BY <1>5
  <2>1. i - m \in 1..n /\ i = m + (i - m)
    BY <1>3
  <2> QED BY <2>1
<1>10. Steps(r) = Steps(p) \cup Steps(q)
  <2>1. ASSUME NEW x \in Steps(r) PROVE x \in Steps(p) \cup Steps(q)
    BY <1>3, <1>7, <1>8, <1>9 DEF Steps
  <2>2. ASSUME NEW x \in Steps(p) PROVE x \in Steps(r)
    BY <1>3, <1>7 DEF Steps
  <2>3. ASSUME NEW x \in Steps(q) PROVE x \in Steps(r)
    BY <1>3, <1>8 DEF Steps
  <2> QED BY <2>1, <2>2, <2>3
<1>11. ASSUME NEW i \in 1..m PROVE JoinedAt(p, q, r, i)
  <2>1. \A k \in 1..(i - 1) : r[k] = p[k]
    <3>1. \A k \in 1..(i - 1) : k \in 1..m
      BY <1>3
    <3> QED BY <1>7, <3>1
  <2>2. Earlier(r, i) = Earlier(p, i)
    BY <2>1 DEF Earlier
  <2> QED BY <1>3, <1>7, <2>2 DEF JoinedAt
<1>12. ASSUME NEW j \in 1..n PROVE JoinedAt(p, q, r, m + j)
  <2>1. \A k \in 1..m : k \in 1..((m + j) - 1)
    BY <1>3
  <2>2. \A k \in 1..(j - 1) : m + k \in 1..((m + j) - 1) /\ k \in 1..n
    BY <1>3
  <2>3. \A k \in 1..((m + j) - 1) : k \in 1..m \/ \E l \in 1..(j - 1) : k = m + l
    <3> SUFFICES ASSUME NEW k \in 1..((m + j) - 1), k \notin 1..m PROVE \E l \in 1..(j - 1) : k = m + l
      OBVIOUS
    <3>1. k - m \in 1..(j - 1) /\ k = m + (k - m)
      BY <1>3
    <3> QED BY <3>1
  <2>4. ASSUME NEW x \in Earlier(r, m + j) PROVE x \in Steps(p) \cup Earlier(q, j)
    <3>1. PICK k \in 1..((m + j) - 1) : x = r[k]
      BY DEF Earlier
    <3>2. CASE k \in 1..m
      BY <1>3, <1>7, <3>1, <3>2 DEF Steps
    <3>3. CASE k \notin 1..m
      <4>1. PICK l \in 1..(j - 1) : k = m + l
        BY <2>3, <3>3
      <4>2. x = q[l]
        BY <1>8, <2>2, <3>1, <4>1
      <4> QED BY <4>2 DEF Earlier
    <3> QED BY <3>2, <3>3
  <2>5. ASSUME NEW x \in Steps(p) PROVE x \in Earlier(r, m + j)
    <3>1. PICK k \in 1..m : x = p[k]
      BY <1>3 DEF Steps
    <3> QED BY <1>7, <2>1, <3>1 DEF Earlier
  <2>6. ASSUME NEW x \in Earlier(q, j) PROVE x \in Earlier(r, m + j)
    <3>1. PICK l \in 1..(j - 1) : x = q[l]
      BY DEF Earlier
    <3>2. x = r[m + l]
      BY <1>8, <2>2, <3>1
    <3> QED BY <2>2, <3>2 DEF Earlier
  <2>7. Earlier(r, m + j) = Steps(p) \cup Earlier(q, j)
    BY <2>4, <2>5, <2>6
  <2> QED BY <1>3, <1>8, <2>7 DEF JoinedAt
<1>13. \A i \in DOMAIN r : JoinedAt(p, q, r, i)
  BY <1>9, <1>11, <1>12
<1> QED BY <1>6, <1>10, <1>13 DEF Joined, r

\* The steps of two plans put together.
LEMMA PlanJoin ==
    ASSUME NEW p, NEW q, IsPlan(p), IsPlan(q)
    PROVE  IsPlan(p \o q) /\ Steps(p \o q) = Steps(p) \cup Steps(q)
BY PlanCat DEF Joined

\* What is left of the first k steps of p once those with nothing to do are dropped.
KeptOf(p, k) == {x \in {p[j] : j \in 1..k} : ~Vacuous(x)}

\* q is p without the steps that have nothing to do.
Thinned(p, q) ==
    /\ IsPlan(q)
    /\ Steps(q) = KeptOf(p, Len(p))
    /\ \A i \in DOMAIN q : \E j \in DOMAIN p : /\ q[i] = p[j] /\ ~Vacuous(p[j])
                                               /\ Earlier(q, i) = KeptOf(p, j - 1)

\* One turn of the loop of Needed.
KeepStep(p, i, v) == IF Vacuous(p[i]) THEN v ELSE Append(v, p[i])

\* The loop of Needed runs through plans.
LEMMA NeededRuns ==
    ASSUME NEW p, IsPlan(p)
    PROVE  \E f \in [0..Len(p) -> Seq(Steps(p))] :
              /\ f[0] = << >> /\ Needed(p) = f[Len(p)]
              /\ \A i \in 1..Len(p) : f[i] = KeepStep(p, i, f[i - 1])
<1> DEFINE n == Len(p)
           W == Seq(Steps(p))
           F == [z \in (1..n) \X W |-> KeepStep(p, z[1], z[2])]
           Eq(f) == f = [i \in 0..n |-> IF i = 0 THEN << >> ELSE KeepStep(p, i, f[i - 1])]
           kept == CHOOSE f : Eq(f)
<1>0. p \in Seq(Steps(p)) /\ n \in Nat /\ DOMAIN p = 1..n
  BY DEF IsPlan, Steps
<1>a. ASSUME NEW i \in 1..n, NEW v \in W PROVE KeepStep(p, i, v) \in W
  <2>1. p[i] \in Steps(p)
    BY <1>0 DEF Steps
  <2> QED BY <2>1, AppendProperties DEF KeepStep
<1>e. << >> \in W
  OBVIOUS
<1>1. F \in [(1..n) \X W -> W]
  <2>1. \A z \in (1..n) \X W : KeepStep(p, z[1], z[2]) \in W
    BY <1>a
  <2> QED BY <2>1
<1>2. PICK g : Loops(g, F, W, n, << >>)
  <2> HIDE DEF F, W, n
  <2> QED BY <1>0, <1>1, <1>e, LoopExists
<1>3. ASSUME NEW i \in 1..n PROVE g[i] = KeepStep(p, i, g[i - 1])
  <2>1. g[i] = F[<<i, g[i - 1]>>] /\ g[i - 1] \in W
    <3>1. n \in Nat
      BY <1>0
    <3> HIDE DEF F, W, n
    <3>2. i - 1 \in 0..n
      BY <3>1
    <3> QED BY <3>2, <1>2 DEF Loops
  <2>2. <<i, g[i - 1]>> \in (1..n) \X W
    BY <2>1
  <2> QED BY <2>1, <2>2
<1>4. Eq(g)
  <2>1. g = [i \in 0..n |-> g[i]]
    BY <1>2 DEF Loops
  <2>2. \A i \in 0..n : g[i] = IF i = 0 THEN << >> ELSE KeepStep(p, i, g[i - 1])
    BY <1>0, <1>2, <1>3 DEF Loops
  <2> HIDE DEF n
  <2> QED BY <2>1, <2>2
<1>5. Eq(kept)
  <2> HIDE DEF Eq
  <2> QED BY <1>4
<1>6. Needed(p) = kept[n]
  BY DEF Needed, KeepStep
<1> HIDE DEF kept
<1>7. kept[0] = << >> /\ \A i \in 1..n : kept[i] = KeepStep(p, i, kept[i - 1])
  BY <1>0, <1>5
<1>8. \A i \in 0..n : kept[i] \in W
  <2> DEFINE T == {i \in Nat : i <= n => kept[i] \in W}
  <2>1. 0 \in T
    BY <1>7, <1>e
  <2>2. ASSUME NEW i \in Nat, i \in T PROVE i + 1 \in T
    <3> SUFFICES ASSUME i + 1 <= n PROVE kept[i + 1] \in W
      OBVIOUS
    <3>1. i + 1 \in 1..n /\ kept[i] \in W /\ kept[i + 1] = KeepStep(p, i + 1, kept[i])
      BY <1>0, <1>7, <2>2
    <3> QED BY <3>1, <1>a
  <2>3. \A i \in Nat : i \in T
    <3> HIDE DEF T
    <3> QED BY <2>1, <2>2, SetInduction
  <2> QED BY <2>3, <1>0
<1>9. kept \in [0..n -> W]
  BY <1>5, <1>8
<1> QED BY <1>6, <1>7, <1>9

\* The loop of Needed after k turns.
KeptAfter(p, k, q) ==
    /\ {q[i] : i \in 1..Len(q)} = KeptOf(p, k)
    /\ \A i \in 1..Len(q) : \E j \in 1..k : /\ q[i] = p[j] /\ ~Vacuous(p[j])
                                            /\ Earlier(q, i) = KeptOf(p, j - 1)

\* One turn more.
LEMMA KeepOneMore ==
    ASSUME NEW p, IsPlan(p), NEW q \in Seq(Steps(p)), NEW k \in Nat, k + 1 <= Len(p), KeptAfter(p, k, q)
    PROVE  KeptAfter(p, k + 1, KeepStep(p, k + 1, q))
<1>0. p \in Seq(Steps(p)) /\ Len(p) \in Nat /\ DOMAIN p = 1..Len(p) /\ k + 1 \in 1..Len(p) /\ Len(q) \in Nat
  BY DEF IsPlan, Steps
<1>k. 1..(k + 1) = (1..k) \cup {k + 1}
  OBVIOUS
<1>1. CASE Vacuous(p[k + 1])
  <2>1. KeptOf(p, k + 1) = KeptOf(p, k) /\ KeepStep(p, k + 1, q) = q
    BY <1>1, <1>k DEF KeptOf, KeepStep
  <2> QED BY <1>k, <2>1 DEF KeptAfter
<1>2. CASE ~Vacuous(p[k + 1])
  <2> DEFINE w == p[k + 1]
             r == Append(q, w)
  <2>1. KeptOf(p, k + 1) = KeptOf(p, k) \cup {w} /\ KeepStep(p, k + 1, q) = r
    BY <1>2, <1>k DEF KeptOf, KeepStep
  <2>2. w \in Steps(p)
    BY <1>0 DEF Steps
  <2>w. w = p[k + 1]
    OBVIOUS
  <2> HIDE DEF w
  <2>3. Len(r) = Len(q) + 1 /\ r[Len(q) + 1] = w /\ \A i \in 1..Len(q) : r[i] = q[i]
    BY <2>2, AppendProperties
  <2> HIDE DEF r
  <2>4. 1..Len(r) = (1..Len(q)) \cup {Len(q) + 1}
    BY <1>0, <2>3
  <2>5. {r[i] : i \in 1..Len(r)} = {q[i] : i \in 1..Len(q)} \cup {w}
    BY <2>3, <2>4
  <2>6. \A i \in 1..Len(q) : Earlier(r, i) = Earlier(q, i)
    <3> SUFFICES ASSUME NEW i \in 1..Len(q) PROVE Earlier(r, i) = Earlier(q, i)
      OBVIOUS
    <3>1. \A l \in 1..(i - 1) : l \in 1..Len(q)
      BY <1>0
    <3> QED BY <2>3, <3>1 DEF Earlier
  <2>7. Earlier(r, Len(q) + 1) = {q[i] : i \in 1..Len(q)}
    <3>1. (Len(q) + 1) - 1 = Len(q)
      BY <1>0
    <3> QED BY <2>3, <3>1 DEF Earlier
  <2>8. ASSUME NEW i \in 1..Len(r)
        PROVE  \E j \in 1..(k + 1) : r[i] = p[j] /\ ~Vacuous(p[j]) /\ Earlier(r, i) = KeptOf(p, j - 1)
    <3>1. CASE i \in 1..Len(q)
      <4>1. PICK j \in 1..k : q[i] = p[j] /\ ~Vacuous(p[j]) /\ Earlier(q, i) = KeptOf(p, j - 1)
        BY <3>1 DEF KeptAfter
      <4> QED BY <1>k, <2>3, <2>6, <3>1, <4>1
    <3>2. CASE i = Len(q) + 1
      <4>1. (k + 1) - 1 = k /\ k + 1 \in 1..(k + 1)
        OBVIOUS
      <4> QED BY <1>2, <2>w, <2>3, <2>7, <3>2, <4>1 DEF KeptAfter
    <3> QED BY <2>4, <3>1, <3>2
  <2> QED BY <2>1, <2>5, <2>8, ZenonT(30) DEF KeptAfter
<1> QED BY <1>1, <1>2

\* Needed keeps the steps with something to do, in their order.
LEMMA NeededThins ==
    ASSUME NEW p, IsPlan(p)
    PROVE  Thinned(p, Needed(p))
<1>0. Len(p) \in Nat /\ DOMAIN p = 1..Len(p)
  BY DEF IsPlan
<1>1. PICK f \in [0..Len(p) -> Seq(Steps(p))] :
              /\ f[0] = << >> /\ Needed(p) = f[Len(p)]
              /\ \A i \in 1..Len(p) : f[i] = KeepStep(p, i, f[i - 1])
  BY NeededRuns
<1> DEFINE T == {k \in Nat : k <= Len(p) => KeptAfter(p, k, f[k])}
<1>2. 0 \in T
  <2>1. KeptOf(p, 0) = {} /\ {f[0][i] : i \in 1..Len(f[0])} = {} /\ 1..Len(f[0]) = {}
    BY <1>1 DEF KeptOf
  <2> QED BY <2>1 DEF KeptAfter
<1>3. ASSUME NEW k \in Nat, k \in T PROVE k + 1 \in T
  <2> SUFFICES ASSUME k + 1 <= Len(p) PROVE KeptAfter(p, k + 1, f[k + 1])
    OBVIOUS
  <2>1. k \in 0..Len(p) /\ k + 1 \in 1..Len(p) /\ (k + 1) - 1 = k
    BY <1>0
  <2>2. f[k + 1] = KeepStep(p, k + 1, f[k]) /\ f[k] \in Seq(Steps(p))
    BY <1>1, <2>1
  <2>3. KeptAfter(p, k, f[k])
    BY <1>0, <1>3
  <2> QED BY <2>2, <2>3, KeepOneMore
<1>4. \A k \in Nat : k \in T
  <2> HIDE DEF T
  <2> QED BY <1>2, <1>3, SetInduction
<1>5. KeptAfter(p, Len(p), f[Len(p)])
  BY <1>0, <1>4
<1> DEFINE q == Needed(p)
<1>6. q \in Seq(Steps(p)) /\ KeptAfter(p, Len(p), q)
  BY <1>0, <1>1, <1>5
<1> HIDE DEF q
<1>7. DOMAIN q = 1..Len(q) /\ IsPlan(q)
  BY <1>6 DEF IsPlan
<1>8. Thinned(p, q)
  BY <1>0, <1>6, <1>7 DEF Thinned, KeptAfter, Steps
<1> QED BY <1>8 DEF q

----------------------------------------------------------------------------
(* Plans that are in order                                                 *)

\* What is in order stays so when blobs are added.
LEMMA IndexGrows ==
    ASSUME NEW A, NEW B, A \subseteq B, NEW ix, IndexOK(A, ix)
    PROVE  IndexOK(B, ix)
BY DEF IndexOK

\* The same of a tree.
LEMMA TreeGrows ==
    ASSUME NEW A, NEW B, A \subseteq B, NEW t, TreeOK(A, t)
    PROVE  TreeOK(B, t)
BY DEF TreeOK

\* The same of the record of a merge.
LEMMA SidecarGrows ==
    ASSUME NEW A, NEW B, A \subseteq B, NEW s, SidecarOK(A, s)
    PROVE  SidecarOK(B, s)
BY DEF SidecarOK, ConflictOK

\* The same of a whole step.
LEMMA StoredGrows ==
    ASSUME NEW A, NEW B, A \subseteq B, NEW w, StepStored(A, w)
    PROVE  StepStored(B, w)
<1>1. ASSUME NEW t, NEW f, FallbackOK(A, t, f) PROVE FallbackOK(B, t, f)
  <2>1. TreeOK(B, f.bt) /\ TreeOK(B, f.ot) /\ TreeOK(B, f.tt) /\ IndexOK(B, f.before)
    BY <1>1, TreeGrows, IndexGrows DEF FallbackOK
  <2> QED BY <1>1, <2>1 DEF FallbackOK
<1> QED BY <1>1, TreeGrows, IndexGrows, SidecarGrows DEF StepStored

Numbered(c) == c.n \in Nat /\ c.j \in Nat

\* A step that was in order after O and with A is so after P and with B.
Moves(c, O, A, d, P, B) ==
    /\ Numbered(c) /\ Numbered(d)
    /\ P \subseteq O /\ A \subseteq B
    /\ c.n <= d.n /\ Known(c.n, O) <= Known(d.n, P)
    /\ c.sec \subseteq d.sec /\ d.mine = c.mine
    /\ "snap" \in O => "snap" \in P \/ Path \subseteq d.sec

\* A step stays in order while the state moves on.
LEMMA StepMoves ==
    ASSUME NEW c, NEW d, NEW O, NEW P, NEW A, NEW B, NEW w, StepOK(c, O, A, w),
           Moves(c, O, A, d, P, B), w.op = "recover" => c.j <= d.j
    PROVE  StepOK(d, P, B, w)
<1>1. c.n \in Nat /\ d.n \in Nat /\ c.j \in Nat /\ d.j \in Nat /\ c.n <= d.n
      /\ P \subseteq O /\ A \subseteq B /\ Known(c.n, O) \in Nat /\ Known(d.n, P) \in Nat
  BY DEF Moves, Numbered, Known
<1>2. StepTyped(d.n, P, w)
  <2> DEFINE k == Known(c.n, O)
             l == Known(d.n, P)
  <2>1. k \in Nat /\ l \in Nat /\ k <= l
    BY <1>1 DEF Moves
  <2>2. StepTyped(c.n, O, w)
    BY DEF StepOK
  <2>3. 0..k \subseteq 0..l /\ 0..c.n \subseteq 0..d.n /\ 1..c.n \subseteq 1..d.n
    BY <1>1, <2>1
  <2>4. \A s \in Seq(1..c.n) : s \in Seq(1..d.n)
    BY <2>3, SeqGrows
  <2>5. LogLine(k) \subseteq LogLine(l)
    BY <2>1 DEF LogLine
  <2>6. /\ w.op = "ref" => w.name \in Branch /\ w.to \in 0..k
        /\ w.op = "log" => w.name \in Branch /\ w.line \in LogLine(k)
        /\ w.op = "headLog" => w.ids \subseteq 0..k
    BY <2>2 DEF StepTyped
  <2> HIDE DEF k, l
  <2>7. /\ w.op = "ref" => w.name \in Branch /\ w.to \in 0..l
        /\ w.op = "log" => w.name \in Branch /\ w.line \in LogLine(l)
        /\ w.op = "headLog" => w.ids \subseteq 0..l
    BY <2>3, <2>5, <2>6
  <2> QED BY <2>2, <2>3, <2>4, <2>7 DEF StepTyped, l
<1>3. StepStored(B, w)
  BY <1>1, StoredGrows DEF StepOK
<1>4. StepOrdered(d.j, P, w)
  BY <1>1 DEF StepOK, StepOrdered
<1>5. StepGuarded(d.sec, d.mine, P, w)
  <2>1. StepTyped(c.n, O, w) /\ StepGuarded(c.sec, c.mine, O, w)
    BY DEF StepOK
  <2>2. c.sec \subseteq d.sec /\ d.mine = c.mine /\ ("snap" \in O => "snap" \in P \/ Path \subseteq d.sec)
    BY DEF Moves
  <2>3. (w.op = "files" => DOMAIN w.todo \subseteq Path) /\ (w.op = "delete" => w.gone \subseteq Path)
    BY <2>1 DEF StepTyped
  <2>4. CASE "snap" \in P
    BY <2>4 DEF StepGuarded
  <2>5. CASE "snap" \notin P /\ "snap" \in O
    BY <2>2, <2>3, <2>5 DEF StepGuarded
  <2>6. CASE "snap" \notin O
    BY <2>1, <2>2, <2>6 DEF StepGuarded
  <2> QED BY <2>4, <2>5, <2>6
<1> QED BY <1>2, <1>3, <1>4, <1>5 DEF StepOK

\* No plan is in order.
LEMMA NoPlanOK == ASSUME NEW c, NEW O, NEW A PROVE PlanOK(c, O, A, << >>) /\ Steps(<< >>) = {}
BY DEF PlanOK, IsPlan, Steps

\* A plan of one step.
LEMMA OneOK ==
    ASSUME NEW c, NEW O, NEW A, NEW w, StepOK(c, O, A, w)
    PROVE  PlanOK(c, O, A, <<w>>) /\ Steps(<<w>>) = {w}
<1>1. IsPlan(<<w>>) /\ DOMAIN <<w>> = {1} /\ <<w>>[1] = w
  BY DEF IsPlan
<1>2. Earlier(<<w>>, 1) = {}
  BY DEF Earlier
<1>3. Ops({}) = {} /\ Wrote({}) = {}
  BY DEF Ops, Wrote
<1> QED BY <1>1, <1>2, <1>3 DEF PlanOK, Steps

\* What two sets of steps have between them.
LEMMA StepsJoin ==
    ASSUME NEW E, NEW F
    PROVE  Ops(E \cup F) = Ops(E) \cup Ops(F) /\ Wrote(E \cup F) = Wrote(E) \cup Wrote(F)
BY DEF Ops, Wrote

\* Two plans in order, the second after the first.
LEMMA CatOK ==
    ASSUME NEW c, NEW O, NEW A, NEW p, NEW q, PlanOK(c, O, A, p),
           PlanOK(c, O \cup Ops(Steps(p)), A \cup Wrote(Steps(p)), q)
    PROVE  PlanOK(c, O, A, p \o q) /\ Steps(p \o q) = Steps(p) \cup Steps(q)
<1> DEFINE r == p \o q
<1>1. Joined(p, q, r)
  BY PlanCat DEF PlanOK
<1> HIDE DEF r
<1>2. IsPlan(r) /\ Steps(r) = Steps(p) \cup Steps(q)
  BY <1>1 DEF Joined
<1>3. ASSUME NEW i \in DOMAIN r
      PROVE  StepOK(c, O \cup Ops(Earlier(r, i)), A \cup Wrote(Earlier(r, i)), r[i])
  <2>1. CASE i \in DOMAIN p /\ r[i] = p[i] /\ Earlier(r, i) = Earlier(p, i)
    BY <2>1 DEF PlanOK
  <2>2. ASSUME NEW j \in DOMAIN q, r[i] = q[j], Earlier(r, i) = Steps(p) \cup Earlier(q, j)
        PROVE  StepOK(c, O \cup Ops(Earlier(r, i)), A \cup Wrote(Earlier(r, i)), r[i])
    <3> DEFINE E == Steps(p)
               F == Earlier(q, j)
    <3>1. StepOK(c, (O \cup Ops(E)) \cup Ops(F), (A \cup Wrote(E)) \cup Wrote(F), q[j])
      BY DEF PlanOK
    <3> HIDE DEF E, F
    <3>2. (O \cup Ops(E)) \cup Ops(F) = O \cup Ops(E \cup F)
          /\ (A \cup Wrote(E)) \cup Wrote(F) = A \cup Wrote(E \cup F)
      BY StepsJoin
    <3>3. StepOK(c, O \cup Ops(E \cup F), A \cup Wrote(E \cup F), q[j])
      BY <3>1, <3>2
    <3> QED BY <2>2, <3>3 DEF E, F
  <2> QED BY <1>1, <2>1, <2>2 DEF Joined, JoinedAt
<1> QED BY <1>2, <1>3 DEF PlanOK, r

\* The same, with what is there by then named.
LEMMA Follows ==
    ASSUME NEW c, NEW O, NEW A, NEW P, NEW B, NEW p, NEW q, PlanOK(c, O, A, p), PlanOK(c, P, B, q),
           P = O \cup Ops(Steps(p)), B = A \cup Wrote(Steps(p))
    PROVE  PlanOK(c, O, A, p \o q) /\ Steps(p \o q) = Steps(p) \cup Steps(q)
<1>1. PlanOK(c, O \cup Ops(Steps(p)), A \cup Wrote(Steps(p)), q)
  OBVIOUS
<1>2. PlanOK(c, O, A, p \o q)
  BY <1>1, CatOK
<1>3. IsPlan(p) /\ IsPlan(q)
  BY DEF PlanOK
<1>4. Steps(p \o q) = Steps(p) \cup Steps(q)
  BY <1>3, PlanJoin
<1> QED BY <1>2, <1>4

\* A plan stays in order while the state moves on.
LEMMA PlanMoves ==
    ASSUME NEW c, NEW d, NEW O, NEW A, NEW B, NEW p, PlanOK(c, O, A, p), Numbered(c), Numbered(d),
           A \subseteq B, c.n <= d.n, c.j <= d.j, c.sec \subseteq d.sec, d.mine = c.mine
    PROVE  PlanOK(d, O, B, p)
<1> SUFFICES ASSUME NEW i \in DOMAIN p
             PROVE  StepOK(d, O \cup Ops(Earlier(p, i)), B \cup Wrote(Earlier(p, i)), p[i])
  BY DEF PlanOK
<1> DEFINE P == O \cup Ops(Earlier(p, i))
           X == Wrote(Earlier(p, i))
<1>1. StepOK(c, P, A \cup X, p[i])
  BY DEF PlanOK
<1> HIDE DEF P, X
<1>2. Moves(c, P, A \cup X, d, P, B \cup X)
  BY DEF Moves, Known, Numbered
<1>3. StepOK(d, P, B \cup X, p[i])
  BY <1>1, <1>2, StepMoves
<1> QED BY <1>3 DEF P, X

\* The steps with nothing to do may be left out.
LEMMA NeededOK ==
    ASSUME NEW c, NEW O, NEW A, NEW p, PlanOK(c, O, A, p), Numbered(c)
    PROVE  PlanOK(c, O, A, Needed(p)) /\ Steps(Needed(p)) = {x \in Steps(p) : ~Vacuous(x)}
<1> DEFINE q == Needed(p)
<1>0. IsPlan(p)
  BY DEF PlanOK
<1>1. Thinned(p, q)
  BY <1>0, NeededThins
<1> HIDE DEF q
<1>d. Len(p) \in Nat /\ DOMAIN p = 1..Len(p)
  BY <1>0 DEF IsPlan
<1>2. Steps(q) = {x \in Steps(p) : ~Vacuous(x)}
  BY <1>1, <1>d DEF Thinned, KeptOf, Steps
<1>3. ASSUME NEW i \in DOMAIN q
      PROVE  StepOK(c, O \cup Ops(Earlier(q, i)), A \cup Wrote(Earlier(q, i)), q[i])
  <2>1. PICK j \in DOMAIN p : q[i] = p[j] /\ Earlier(q, i) = KeptOf(p, j - 1)
    BY <1>1 DEF Thinned
  <2> DEFINE E == Earlier(p, j)
             F == Earlier(q, i)
  <2>2. StepOK(c, O \cup Ops(E), A \cup Wrote(E), p[j])
    BY DEF PlanOK
  <2>3. F = {x \in E : ~Vacuous(x)}
    BY <2>1 DEF KeptOf, Earlier
  <2> HIDE DEF E, F
  <2>4. Ops(F) \subseteq Ops(E)
    BY <2>3 DEF Ops
  <2>5. ASSUME NEW x \in E, x \notin F PROVE x.op \in {"files", "delete", "blobs"} /\ Writes(x) = {}
    BY <2>3, <2>5 DEF Vacuous, Writes
  <2>6. Wrote(E) = Wrote(F)
    <3>1. \A x \in F : x \in E
      BY <2>3
    <3> QED BY <2>5, <3>1 DEF Wrote
  <2>7. ("commit" \in Ops(E) => "commit" \in Ops(F)) /\ ("snap" \in Ops(E) => "snap" \in Ops(F))
    BY <2>5 DEF Ops
  <2>8. Moves(c, O \cup Ops(E), A \cup Wrote(E), c, O \cup Ops(F), A \cup Wrote(F))
    <3>1. c.n \in Nat /\ c.j \in Nat
      BY DEF Numbered
    <3>2. Known(c.n, O \cup Ops(E)) <= Known(c.n, O \cup Ops(F))
      BY <2>7, <3>1 DEF Known
    <3> QED BY <2>4, <2>6, <2>7, <3>1, <3>2 DEF Moves
  <2>9. StepOK(c, O \cup Ops(F), A \cup Wrote(F), p[j])
    <3>1. c.j <= c.j
      BY DEF Numbered
    <3> QED BY <2>2, <2>8, <3>1, StepMoves
  <2> QED BY <2>1, <2>9 DEF F
<1>4. IsPlan(q)
  BY <1>1 DEF Thinned
<1> QED BY <1>2, <1>3, <1>4 DEF PlanOK, q

\* The first step of a plan, and the others with it done.
LEMMA PlanSplits ==
    ASSUME NEW c, NEW A, NEW p, PlanOK(c, {}, A, p), p # << >>
    PROVE  /\ StepOK(c, {}, A, Head(p))
           /\ PlanOK(c, {Head(p).op}, A \cup Writes(Head(p)), Tail(p))
           /\ Steps(p) = {Head(p)} \cup Steps(Tail(p))
<1> DEFINE h == Head(p)
           q == Tail(p)
<1>0. IsPlan(p)
  BY DEF PlanOK
<1>1. /\ IsPlan(q) /\ h = p[1] /\ 1 \in DOMAIN p /\ Earlier(p, 1) = {}
      /\ \A i \in DOMAIN q : /\ i + 1 \in DOMAIN p /\ q[i] = p[i + 1]
                             /\ Earlier(p, i + 1) = {p[1]} \cup Earlier(q, i)
  BY <1>0, PlanTail
<1>d. Len(p) \in Nat /\ DOMAIN p = 1..Len(p) /\ Len(q) = Len(p) - 1 /\ DOMAIN q = 1..Len(q)
  <2>1. p \in Seq(Steps(p))
    BY <1>0 DEF IsPlan, Steps
  <2> QED BY <2>1, HeadTailProperties
<1> HIDE DEF h, q
<1>2. StepOK(c, {}, A, h)
  <2>1. Ops({}) = {} /\ Wrote({}) = {}
    BY DEF Ops, Wrote
  <2>2. {} \cup Ops(Earlier(p, 1)) = {} /\ A \cup Wrote(Earlier(p, 1)) = A
    BY <1>1, <2>1
  <2> QED BY <1>1, <2>2 DEF PlanOK
<1>3. ASSUME NEW i \in DOMAIN q
      PROVE  StepOK(c, {h.op} \cup Ops(Earlier(q, i)), (A \cup Writes(h)) \cup Wrote(Earlier(q, i)), q[i])
  <2> DEFINE E == Earlier(q, i)
  <2>1. StepOK(c, {} \cup Ops({h} \cup E), A \cup Wrote({h} \cup E), q[i])
    BY <1>1 DEF PlanOK
  <2> HIDE DEF E
  <2>2. {} \cup Ops({h} \cup E) = {h.op} \cup Ops(E) /\ A \cup Wrote({h} \cup E) = (A \cup Writes(h)) \cup Wrote(E)
    BY DEF Ops, Wrote
  <2>3. StepOK(c, {h.op} \cup Ops(E), (A \cup Writes(h)) \cup Wrote(E), q[i])
    BY <2>1, <2>2
  <2> QED BY <2>3 DEF E
<1>4. Steps(p) = {h} \cup Steps(q)
  <2>1. ASSUME NEW i \in DOMAIN p PROVE p[i] = h \/ p[i] \in Steps(q)
    <3>1. CASE i = 1
      BY <1>1, <3>1
    <3>2. CASE i # 1
      <4>1. i - 1 \in DOMAIN q /\ (i - 1) + 1 = i
        BY <1>d, <3>2
      <4> QED BY <1>1, <4>1 DEF Steps
    <3> QED BY <3>1, <3>2
  <2>2. ASSUME NEW x \in Steps(q) PROVE x \in Steps(p)
    BY <1>1 DEF Steps
  <2> QED BY <1>1, <2>1, <2>2 DEF Steps
<1> QED BY <1>1, <1>2, <1>3, <1>4 DEF PlanOK, h, q

\* The step h done, or skipped, leads from c to d and from the blobs A to B.
Advances(c, A, h, d, B) ==
    /\ Numbered(c) /\ Numbered(d)
    /\ Known(c.n, {h.op}) <= d.n
    /\ h.op # "recover" => c.j <= d.j
    /\ c.sec \subseteq d.sec /\ d.mine = c.mine
    /\ h.op = "snap" => Path \subseteq d.sec
    /\ A \cup Writes(h) \subseteq B

\* The rest of a plan is in order when its first step is done.
LEMMA RestOK ==
    ASSUME NEW c, NEW A, NEW p, PlanOK(c, {}, A, p), p # << >>,
           NEW d, NEW B, Advances(c, A, Head(p), d, B)
    PROVE  PlanOK(d, {}, B, Tail(p))
<1> DEFINE h == Head(p)
           q == Tail(p)
<1>1. PlanOK(c, {h.op}, A \cup Writes(h), q)
  BY PlanSplits
<1>2. Advances(c, A, h, d, B)
  OBVIOUS
<1> HIDE DEF h, q
<1>3. ASSUME NEW i \in DOMAIN q
      PROVE  StepOK(d, {} \cup Ops(Earlier(q, i)), B \cup Wrote(Earlier(q, i)), q[i])
  <2> DEFINE P == Ops(Earlier(q, i))
             X == Wrote(Earlier(q, i))
             O == {h.op} \cup P
             C == (A \cup Writes(h)) \cup X
  <2>1. StepOK(c, O, C, q[i])
    BY <1>1 DEF PlanOK
  <2> HIDE DEF P, X
  <2>2. Moves(c, O, C, d, P, B \cup X)
    <3>1. c.n \in Nat /\ d.n \in Nat /\ c.n <= d.n
      BY <1>2 DEF Advances, Numbered, Known
    <3>2. Known(c.n, O) <= Known(d.n, P)
      <4>1. CASE h.op = "commit"
        BY <1>2, <3>1, <4>1 DEF Advances, Known
      <4>2. CASE h.op # "commit"
        <5>1. "commit" \in O <=> "commit" \in P
          BY <4>2
        <5> QED BY <3>1, <5>1 DEF Known
      <4> QED BY <4>1, <4>2
    <3> QED BY <1>2, <3>1, <3>2 DEF Moves, Advances
  <2>3. q[i].op = "recover" => c.j <= d.j
    <3>1. q[i].op = "recover" => h.op # "recover"
      BY <2>1 DEF StepOK, StepOrdered
    <3> QED BY <1>2, <3>1 DEF Advances
  <2> HIDE DEF O, C
  <2>4. StepOK(d, P, B \cup X, q[i])
    BY <2>1, <2>2, <2>3, StepMoves
  <2>5. {} \cup P = P
    OBVIOUS
  <2> QED BY <2>4, <2>5 DEF P, X
<1> QED BY <1>1, <1>3 DEF PlanOK, q

----------------------------------------------------------------------------
(* The steps of the commands                                               *)

\* A step that is in order wherever it comes after O and with A.
StepPlain(c, O, A, w) ==
    /\ w.op \notin {"begin", "then", "recover"}
    /\ StepTyped(c.n, O, w)
    /\ StepStored(A, w)
    /\ StepGuarded(c.sec, c.mine, O, w)

\* A plan of such steps is in order.
LEMMA PlainOK ==
    ASSUME NEW c, NEW O, NEW A, NEW p, IsPlan(p), Numbered(c), "then" \notin O,
           \A x \in Steps(p) : StepPlain(c, O, A, x)
    PROVE  PlanOK(c, O, A, p)
<1> SUFFICES ASSUME NEW i \in DOMAIN p
             PROVE  StepOK(c, O \cup Ops(Earlier(p, i)), A \cup Wrote(Earlier(p, i)), p[i])
  BY DEF PlanOK
<1> DEFINE w == p[i]
           E == Earlier(p, i)
<1>0. Len(p) \in Nat /\ DOMAIN p = 1..Len(p)
  BY DEF IsPlan
<1>1. E \subseteq Steps(p) /\ w \in Steps(p)
  <2>1. \A k \in 1..(i - 1) : k \in DOMAIN p
    BY <1>0
  <2> QED BY <2>1 DEF Earlier, Steps
<1> HIDE DEF w, E
<1>2. "then" \notin O \cup Ops(E)
  BY <1>1 DEF Ops, StepPlain
<1>3. StepPlain(c, O, A, w)
  BY <1>1
<1>4. StepOK(c, O, A, w)
  BY <1>3 DEF StepOK, StepPlain, StepOrdered
<1> DEFINE P == O \cup Ops(E)
           B == A \cup Wrote(E)
<1>5. Known(c.n, O) \in Nat /\ Known(c.n, P) \in Nat /\ Known(c.n, O) <= Known(c.n, P)
  BY DEF Known, Numbered
<1>6. StepTyped(c.n, P, w)
  <2> DEFINE k == Known(c.n, O)
             l == Known(c.n, P)
  <2>1. StepTyped(c.n, O, w)
    BY <1>3 DEF StepPlain
  <2>2. 0..k \subseteq 0..l /\ LogLine(k) \subseteq LogLine(l)
    BY <1>5 DEF LogLine
  <2>3. /\ w.op = "ref" => w.name \in Branch /\ w.to \in 0..k
        /\ w.op = "log" => w.name \in Branch /\ w.line \in LogLine(k)
        /\ w.op = "headLog" => w.ids \subseteq 0..k
    BY <2>1 DEF StepTyped
  <2> HIDE DEF k, l
  <2>4. /\ w.op = "ref" => w.name \in Branch /\ w.to \in 0..l
        /\ w.op = "log" => w.name \in Branch /\ w.line \in LogLine(l)
        /\ w.op = "headLog" => w.ids \subseteq 0..l
    BY <2>2, <2>3
  <2> QED BY <2>1, <2>4 DEF StepTyped, l
<1>7. StepStored(B, w)
  <2>1. A \subseteq B
    OBVIOUS
  <2> HIDE DEF B
  <2> QED BY <1>3, <2>1, StoredGrows DEF StepPlain
<1>8. StepGuarded(c.sec, c.mine, P, w)
  BY <1>3 DEF StepGuarded, StepPlain
<1>9. StepOrdered(c.j, P, w)
  BY <1>2, <1>3 DEF StepOrdered, StepPlain
<1> QED BY <1>6, <1>7, <1>8, <1>9 DEF StepOK, w, E

\* The steps of plans written out.
LEMMA Listed ==
    /\ IsPlan(<< >>) /\ Steps(<< >>) = {}
    /\ \A a : IsPlan(<<a>>) /\ Steps(<<a>>) = {a}
    /\ \A a, b : IsPlan(<<a, b>>) /\ Steps(<<a, b>>) = {a, b}
    /\ \A a, b, c : IsPlan(<<a, b, c>>) /\ Steps(<<a, b, c>>) = {a, b, c}
    /\ \A a, b, c, d : IsPlan(<<a, b, c, d>>) /\ Steps(<<a, b, c, d>>) = {a, b, c, d}
    /\ \A a, b, c, d, e : IsPlan(<<a, b, c, d, e>>) /\ Steps(<<a, b, c, d, e>>) = {a, b, c, d, e}
    /\ \A a, b, c, d, e, f :
          IsPlan(<<a, b, c, d, e, f>>) /\ Steps(<<a, b, c, d, e, f>>) = {a, b, c, d, e, f}
    /\ \A a, b, c, d, e, f, g, h :
          IsPlan(<<a, b, c, d, e, f, g, h>>) /\ Steps(<<a, b, c, d, e, f, g, h>>) = {a, b, c, d, e, f, g, h}
<1>1. IsPlan(<< >>) /\ Steps(<< >>) = {}
  BY DEF IsPlan, Steps
<1>2. ASSUME NEW a PROVE IsPlan(<<a>>) /\ Steps(<<a>>) = {a}
  BY DEF IsPlan, Steps
<1>3. ASSUME NEW a, NEW b PROVE IsPlan(<<a, b>>) /\ Steps(<<a, b>>) = {a, b}
  BY DEF IsPlan, Steps
<1>4. ASSUME NEW a, NEW b, NEW c PROVE IsPlan(<<a, b, c>>) /\ Steps(<<a, b, c>>) = {a, b, c}
  BY DEF IsPlan, Steps
<1>5. ASSUME NEW a, NEW b, NEW c, NEW d PROVE IsPlan(<<a, b, c, d>>) /\ Steps(<<a, b, c, d>>) = {a, b, c, d}
  BY DEF IsPlan, Steps
<1>6. ASSUME NEW a, NEW b, NEW c, NEW d, NEW e
      PROVE  IsPlan(<<a, b, c, d, e>>) /\ Steps(<<a, b, c, d, e>>) = {a, b, c, d, e}
  BY DEF IsPlan, Steps
<1>7. ASSUME NEW a, NEW b, NEW c, NEW d, NEW e, NEW f
      PROVE  IsPlan(<<a, b, c, d, e, f>>) /\ Steps(<<a, b, c, d, e, f>>) = {a, b, c, d, e, f}
  BY DEF IsPlan, Steps
<1>8. ASSUME NEW a, NEW b, NEW c, NEW d, NEW e, NEW f, NEW g, NEW h
      PROVE  /\ IsPlan(<<a, b, c, d, e, f, g, h>>)
             /\ Steps(<<a, b, c, d, e, f, g, h>>) = {a, b, c, d, e, f, g, h}
  BY DEF IsPlan, Steps
<1> QED BY <1>1, <1>2, <1>3, <1>4, <1>5, <1>6, <1>7, <1>8

\* The kind of each step, and the blobs it brings.
LEMMA Kinds ==
    /\ Begin.op = "begin" /\ End.op = "end" /\ Recover.op = "recover"
    /\ \A m : Snap(m).op = "snap"
    /\ \A f, k : Files(f, k).op = "files" /\ Files(f, k).todo = f /\ Files(f, k).keep = k
    /\ \A ps, s : Delete(ps, s).op = "delete" /\ Delete(ps, s).gone = ps
    /\ \A bs : Blobs(bs).op = "blobs" /\ Blobs(bs).add = bs
    /\ \A ix : WriteIndex(ix).op = "index"
    /\ \A c, s : MergeHead(c, s).op = "mergeHead"
    /\ \A d, s : Sidecar(d, s).op = "sidecar"
    /\ \A ps, t : BuildCommit(ps, t).op = "commit"
    /\ \A b, c : Ref(b, c).op = "ref"
    /\ \A b : SymbolicHead(b).op = "head"
    /\ \A b, o, n, u, s : Log(b, o, n, u, s).op = "log"
    /\ \A cs : HeadLog(cs).op = "headLog"
    /\ \A c : Then(c).op = "then"
<1>1. Begin.op = "begin" /\ End.op = "end" /\ Recover.op = "recover"
  BY DEF Begin, End, Recover
<1>2. /\ \A m : Snap(m).op = "snap"
      /\ \A f, k : Files(f, k).op = "files" /\ Files(f, k).todo = f /\ Files(f, k).keep = k
      /\ \A ps, s : Delete(ps, s).op = "delete" /\ Delete(ps, s).gone = ps
      /\ \A bs : Blobs(bs).op = "blobs" /\ Blobs(bs).add = bs
  BY DEF Snap, Files, Delete, Blobs
<1>3. /\ \A ix : WriteIndex(ix).op = "index"
      /\ \A c, s : MergeHead(c, s).op = "mergeHead"
      /\ \A d, s : Sidecar(d, s).op = "sidecar"
      /\ \A ps, t : BuildCommit(ps, t).op = "commit"
  BY DEF WriteIndex, MergeHead, Sidecar, BuildCommit
<1>4. /\ \A b, c : Ref(b, c).op = "ref"
      /\ \A b : SymbolicHead(b).op = "head"
      /\ \A b, o, n, u, s : Log(b, o, n, u, s).op = "log"
      /\ \A cs : HeadLog(cs).op = "headLog"
      /\ \A c : Then(c).op = "then"
  BY DEF Ref, SymbolicHead, Log, HeadLog, Then
<1> QED BY <1>1, <1>2, <1>3, <1>4

\* The steps that are in order anywhere.
LEMMA PlainSteps ==
    ASSUME NEW c, NEW O, NEW A
    PROVE  /\ StepPlain(c, O, A, End)
           /\ \A m : StepPlain(c, O, A, Snap(m))
           /\ \A bs : StepPlain(c, O, A, Blobs(bs))
           /\ \A b \in Branch : StepPlain(c, O, A, SymbolicHead(b))
<1> USE DEF StepPlain, StepTyped, StepStored, StepGuarded, Hard
<1>1. StepPlain(c, O, A, End)
  BY DEF End
<1>2. ASSUME NEW m PROVE StepPlain(c, O, A, Snap(m))
  BY DEF Snap
<1>3. ASSUME NEW bs PROVE StepPlain(c, O, A, Blobs(bs))
  BY DEF Blobs
<1>4. ASSUME NEW b \in Branch PROVE StepPlain(c, O, A, SymbolicHead(b))
  BY DEF SymbolicHead
<1> QED BY <1>1, <1>2, <1>3, <1>4

\* A write of files, without a fallback.
LEMMA PlainFiles ==
    ASSUME NEW c, NEW O, NEW A, NEW f, NEW k, DOMAIN f \subseteq Path,
           "snap" \in O \/ \A q \in DOMAIN f : q \in c.sec \/ f[q] = c.mine[q]
    PROVE  StepPlain(c, O, A, Files(f, k))
<1> DEFINE w == Files(f, k)
<1>1. w = [op |-> "files", todo |-> f, keep |-> k, soft |-> FALSE] /\ DOMAIN w = {"op", "todo", "keep", "soft"}
  BY DEF Files
<1>2. w.op = "files" /\ w.todo = f /\ ~w.soft /\ w.keep = k /\ "orelse" \notin DOMAIN w
  BY <1>1
<1>3. FilesForm(w)
  BY <1>1, <1>2 DEF FilesForm
<1> HIDE DEF w
<1> QED BY <1>2, <1>3 DEF StepPlain, StepTyped, StepStored, StepGuarded, w

\* A removal of files.
LEMMA PlainDelete ==
    ASSUME NEW c, NEW O, NEW A, NEW ps, NEW s, ps \subseteq Path, "snap" \in O \/ ps \subseteq c.sec
    PROVE  StepPlain(c, O, A, Delete(ps, s))
<1> DEFINE w == Delete(ps, s)
<1>1. w = [op |-> "delete", gone |-> ps, soft |-> s]
  BY DEF Delete
<1>2. w.op = "delete" /\ w.gone = ps /\ w.soft = s
  BY <1>1
<1>3. w = [op |-> "delete", gone |-> w.gone, soft |-> w.soft]
  BY <1>1, <1>2
<1> HIDE DEF w
<1> QED BY <1>2, <1>3 DEF StepPlain, StepTyped, StepStored, StepGuarded, Hard, w

\* A write of the index.
LEMMA PlainIndex ==
    ASSUME NEW c, NEW O, NEW A, NEW ix, IndexOK(A, ix)
    PROVE  StepPlain(c, O, A, WriteIndex(ix))
BY DEF StepPlain, StepTyped, StepStored, StepGuarded, Hard, WriteIndex

\* A write of the state of a merge.
LEMMA PlainMerge ==
    ASSUME NEW c, NEW O, NEW A
    PROVE  /\ \A m \in 0..c.n : \A s : StepPlain(c, O, A, MergeHead(m, s))
           /\ \A r, s : SidecarOK(A, r) => StepPlain(c, O, A, Sidecar(r, s))
<1> USE DEF StepPlain, StepTyped, StepStored, StepGuarded, Hard
<1>1. ASSUME NEW m \in 0..c.n, NEW s PROVE StepPlain(c, O, A, MergeHead(m, s))
  BY DEF MergeHead
<1>2. ASSUME NEW r, NEW s, SidecarOK(A, r) PROVE StepPlain(c, O, A, Sidecar(r, s))
  BY <1>2 DEF Sidecar
<1> QED BY <1>1, <1>2

\* A commit.
LEMMA PlainCommit ==
    ASSUME NEW c, NEW O, NEW A, NEW ps \in Seq(1..c.n), NEW t, TreeOK(A, t)
    PROVE  StepPlain(c, O, A, BuildCommit(ps, t))
BY DEF StepPlain, StepTyped, StepStored, StepGuarded, Hard, BuildCommit

\* A write of a branch or of a log.
LEMMA PlainRefs ==
    ASSUME NEW c, NEW O, NEW A, NEW b \in Branch, NEW k, k = Known(c.n, O)
    PROVE  /\ \A m \in 0..k : StepPlain(c, O, A, Ref(b, m))
           /\ \A old \in 0..k, new \in 1..k, u \in BOOLEAN : \A s : StepPlain(c, O, A, Log(b, old, new, u, s))
           /\ \A cs \in SUBSET (0..k) : StepPlain(c, O, A, HeadLog(cs))
<1> USE DEF StepPlain, StepTyped, StepStored, StepGuarded, Hard
<1>1. ASSUME NEW m \in 0..k PROVE StepPlain(c, O, A, Ref(b, m))
  BY DEF Ref
<1>2. ASSUME NEW old \in 0..k, NEW new \in 1..k, NEW u \in BOOLEAN, NEW s
      PROVE  StepPlain(c, O, A, Log(b, old, new, u, s))
  <2>1. [old |-> old, new |-> new, undo |-> u] \in LogLine(k)
    BY DEF LogLine
  <2> QED BY <2>1 DEF Log
<1>3. ASSUME NEW cs \in SUBSET (0..k) PROVE StepPlain(c, O, A, HeadLog(cs))
  BY DEF HeadLog
<1> QED BY <1>1, <1>2, <1>3

\* The start of a transaction.
LEMMA BeginOK ==
    ASSUME NEW c, NEW O, NEW A, "then" \notin O, "end" \notin O, "hang" \notin O
    PROVE  StepOK(c, O, A, Begin)
BY DEF StepOK, StepTyped, StepStored, StepOrdered, StepGuarded, Hard, Begin

\* A recovery.
LEMMA RecoverOK ==
    ASSUME NEW c, NEW O, NEW A, "then" \notin O, "recover" \notin O, c.j > 0
    PROVE  StepOK(c, O, A, Recover)
BY DEF StepOK, StepTyped, StepStored, StepOrdered, StepGuarded, Hard, Recover

\* A command that another one hands over to.
LEMMA ThenOK ==
    ASSUME NEW c, NEW O, NEW A, "snap" \in O \/ Path \subseteq c.sec,
           NEW call, call.name \in Handovers
    PROVE  StepOK(c, O, A, Then(call))
BY DEF StepOK, StepTyped, StepStored, StepOrdered, StepGuarded, Hard, Then

----------------------------------------------------------------------------
(* Indexes, trees and records                                              *)

\* The tree of an index.
LEMMA BuildTreeOK ==
    ASSUME NEW A, NEW ix, IndexOK(A, ix)
    PROVE  TreeOK(A, BuildTree(ix))
BY DEF IndexOK, TreeOK, BuildTree

\* No entry.
LEMMA UntrackedOK == EntryOK(Untracked) /\ Untracked.blob = None
BY DEF EntryOK, Untracked, Entry

\* An entry with content.
LEMMA EntryMade ==
    ASSUME NEW b, b # None, NEW s \in {"unmodified", "added", "modified", "deleted"}
    PROVE  EntryOK(Entry(b, s)) /\ Entry(b, s).blob = b
BY DEF EntryOK, Entry

\* The index of a checkout.
LEMMA CheckoutOK ==
    ASSUME NEW A, NEW t, TreeOK(A, t)
    PROVE  IndexOK(A, checkoutIndex(t))
<1> SUFFICES ASSUME NEW q \in Path
             PROVE  EntryOK(checkoutIndex(t)[q]) /\ checkoutIndex(t)[q].blob \in A \cup {None}
  BY DEF IndexOK
<1>1. checkoutIndex(t)[q] = IF t[q] = None THEN Untracked ELSE Entry(t[q], "unmodified")
  BY DEF checkoutIndex
<1>2. t[q] \in A \cup {None}
  BY DEF TreeOK
<1> QED BY <1>1, <1>2, UntrackedOK, EntryMade

\* An index with files staged.
LEMMA StageOK ==
    ASSUME NEW A, NEW ix, IndexOK(A, ix), NEW f, \A q \in Path \cap DOMAIN f : f[q] \in A \cup {None}
    PROVE  IndexOK(A, StageAll(ix, f))
<1> SUFFICES ASSUME NEW q \in Path
             PROVE  EntryOK(StageAll(ix, f)[q]) /\ StageAll(ix, f)[q].blob \in A \cup {None}
  BY DEF IndexOK
<1>1. StageAll(ix, f)[q] = IF q \notin DOMAIN f THEN ix[q]
                           ELSE IF f[q] = None THEN Untracked ELSE Staged(ix, q, f[q])
  BY DEF StageAll
<1>2. CASE q \notin DOMAIN f
  BY <1>1, <1>2 DEF IndexOK
<1>3. CASE q \in DOMAIN f /\ f[q] = None
  BY <1>1, <1>3, UntrackedOK
<1>4. CASE q \in DOMAIN f /\ f[q] # None
  <2>1. EntryOK(Staged(ix, q, f[q])) /\ Staged(ix, q, f[q]).blob = f[q]
    BY <1>4, EntryMade DEF Staged
  <2> QED BY <1>1, <1>4, <2>1
<1> QED BY <1>2, <1>3, <1>4

\* An entry whose state changes while its blob stays.
LEMMA StateSet ==
    ASSUME NEW e, EntryOK(e), e.state # "none", NEW s \in {"unmodified", "deleted"}
    PROVE  EntryOK([e EXCEPT !.state = s]) /\ [e EXCEPT !.state = s].blob = e.blob
<1> DEFINE b == e.blob
           t == e.state
<1>1. e = [blob |-> b, state |-> t] /\ b # None
  BY DEF EntryOK, Entry
<1> HIDE DEF b, t
<1>2. [e EXCEPT !.state = s] = [blob |-> b, state |-> s]
  BY <1>1
<1>3. EntryOK(Entry(b, s)) /\ Entry(b, s).blob = b
  BY <1>1, EntryMade
<1>4. [e EXCEPT !.state = s] = Entry(b, s)
  BY <1>2 DEF Entry
<1> QED BY <1>3, <1>4 DEF b

\* The index after a resolution.
LEMMA RestageOK ==
    ASSUME NEW A, NEW ix, IndexOK(A, ix), NEW f, \A q \in Path \cap DOMAIN f : f[q] \in A \cup {None}
    PROVE  IndexOK(A, Restaged(ix, f))
<1> SUFFICES ASSUME NEW q \in Path
             PROVE  EntryOK(Restaged(ix, f)[q]) /\ Restaged(ix, f)[q].blob \in A \cup {None}
  BY DEF IndexOK
<1>1. Restaged(ix, f)[q] = IF q \notin DOMAIN f THEN ix[q]
                           ELSE IF f[q] # None THEN Staged(ix, q, f[q]) ELSE applyDeletion(ix[q])
  BY DEF Restaged
<1>e. EntryOK(ix[q]) /\ ix[q].blob \in A \cup {None}
  BY DEF IndexOK
<1>2. CASE q \notin DOMAIN f
  BY <1>1, <1>2, <1>e
<1>3. CASE q \in DOMAIN f /\ f[q] # None
  <2>1. EntryOK(Staged(ix, q, f[q])) /\ Staged(ix, q, f[q]).blob = f[q]
    BY <1>3, EntryMade DEF Staged
  <2> QED BY <1>1, <1>3, <2>1
<1>4. CASE q \in DOMAIN f /\ f[q] = None
  <2>1. EntryOK(applyDeletion(ix[q])) /\ applyDeletion(ix[q]).blob = ix[q].blob
    BY <1>e, StateSet DEF applyDeletion
  <2> QED BY <1>1, <1>4, <1>e, <2>1
<1> QED BY <1>2, <1>3, <1>4

\* The part of a function on some of its arguments.
LEMMA RestrictIs ==
    ASSUME NEW f, NEW S
    PROVE  DOMAIN Restrict(f, S) = S /\ \A x \in S : Restrict(f, S)[x] = f[x]
BY DEF Restrict

\* A record whose conflicts are marked.
LEMMA ResolvedOK ==
    ASSUME NEW A, NEW s, SidecarOK(A, s), NEW ps, NEW r
    PROVE  SidecarOK(A, SetResolved(s, ps, r)) /\ SetResolved(s, ps, r).on = s.on
<1> DEFINE en == [p \in DOMAIN s.entries |->
                    IF p \in ps THEN [s.entries[p] EXCEPT !.resolved = r[p]] ELSE s.entries[p]]
<1>1. s = [on |-> s.on, entries |-> s.entries, touched |-> s.touched]
  BY DEF SidecarOK
<1>2. SetResolved(s, ps, r) = [on |-> s.on, entries |-> en, touched |-> s.touched]
  <2> DEFINE a == s.on
             b == s.entries
             t == s.touched
  <2>1. s = [on |-> a, entries |-> b, touched |-> t]
    BY <1>1
  <2>2. SetResolved(s, ps, r) = [s EXCEPT !.entries = en]
    BY DEF SetResolved
  <2> HIDE DEF a, b, t, en
  <2>3. [s EXCEPT !.entries = en] = [on |-> a, entries |-> en, touched |-> t]
    BY <2>1
  <2> QED BY <2>2, <2>3 DEF a, t
<1>3. ASSUME NEW p \in DOMAIN s.entries PROVE ConflictOK(A, en[p])
  <2> DEFINE e == s.entries[p]
             v == r[p]
  <2>1. ConflictOK(A, e) /\ en[p] = IF p \in ps THEN [e EXCEPT !.resolved = v] ELSE e
    BY DEF SidecarOK
  <2> HIDE DEF e, v
  <2>2. ConflictOK(A, [e EXCEPT !.resolved = v])
    <3> DEFINE k == e.kind
               b == e.base
               o == e.ours
               t == e.theirs
               x == e.resolved
    <3>1. e = [kind |-> k, base |-> b, ours |-> o, theirs |-> t, resolved |-> x]
          /\ {b, o, t} \subseteq A \cup {None}
      BY <2>1 DEF ConflictOK
    <3> HIDE DEF k, b, o, t, x
    <3>2. [e EXCEPT !.resolved = v] = [kind |-> k, base |-> b, ours |-> o, theirs |-> t, resolved |-> v]
      BY <3>1
    <3> QED BY <3>1, <3>2 DEF ConflictOK
  <2> QED BY <2>1, <2>2
<1>4. DOMAIN en = DOMAIN s.entries
  OBVIOUS
<1> DEFINE z == SetResolved(s, ps, r)
<1>5. z.on = s.on /\ z.entries = en /\ z.touched = s.touched
  BY <1>2
<1>6. z = [on |-> z.on, entries |-> z.entries, touched |-> z.touched]
  BY <1>2, <1>5
<1> HIDE DEF en, z
<1>7. SidecarOK(A, z)
  BY <1>3, <1>4, <1>5, <1>6 DEF SidecarOK
<1> QED BY <1>5, <1>7 DEF z

\* No record.
LEMMA NoSidecarOK == \A A : SidecarOK(A, NoSidecar)
BY DEF SidecarOK, NoSidecar

\* The record of a merge.
LEMMA ConflictStateOK ==
    ASSUME NEW A, NEW bt, NEW ot, NEW tt, TreeOK(A, bt), TreeOK(A, ot), TreeOK(A, tt),
           NEW ps \in SUBSET Path, NEW ix
    PROVE  SidecarOK(A, ConflictState(bt, ot, tt, ps, ix))
<1> DEFINE s == ConflictState(bt, ot, tt, ps, ix)
           Kind(p) == IF None \in {ot[p], tt[p]} THEN "modify_delete" ELSE "content"
           en == [p \in ps |-> [kind |-> Kind(p), base |-> bt[p], ours |-> ot[p], theirs |-> tt[p],
                                resolved |-> FALSE]]
           tc == mergeTouchedPaths(ix, ot)
<1>1. s = [on |-> TRUE, entries |-> en, touched |-> tc]
  BY DEF ConflictState
<1>2. tc \subseteq Path
  BY DEF mergeTouchedPaths
<1>3. DOMAIN en = ps
  OBVIOUS
<1>4. ASSUME NEW p \in ps PROVE ConflictOK(A, en[p])
  <2> DEFINE k == Kind(p)
  <2>1. en[p] = [kind |-> k, base |-> bt[p], ours |-> ot[p], theirs |-> tt[p], resolved |-> FALSE]
    OBVIOUS
  <2>2. bt[p] \in A \cup {None} /\ ot[p] \in A \cup {None} /\ tt[p] \in A \cup {None}
    BY DEF TreeOK
  <2> HIDE DEF en, k
  <2> QED BY <2>1, <2>2 DEF ConflictOK
<1> HIDE DEF en, tc, s
<1>5. s.on = TRUE /\ s.entries = en /\ s.touched = tc
  BY <1>1
<1>6. SidecarOK(A, s)
  BY <1>1, <1>2, <1>3, <1>4, <1>5 DEF SidecarOK
<1> QED BY <1>6 DEF s

----------------------------------------------------------------------------
(* What the commands read                                                  *)

\* The commits and the trees of the store.
LEMMA TreesThere ==
    ASSUME HistoryInv, StoreInv
    PROVE  /\ Len(parents) \in Nat /\ Commits = 1..Len(parents) /\ NoCommit = 0
           /\ HeadCommit \in 0..Len(parents)
           /\ \A m \in 0..Len(parents) : TreeOK(stored, TreeOf(m))
           /\ TreeOK(stored, HeadTree)
<1>1. Len(parents) \in Nat /\ Commits = 1..Len(parents) /\ NoCommit = 0
  BY DEF HistoryInv, IsGraph, Commits, NoCommit
<1>2. HeadCommit \in 0..Len(parents)
  BY DEF HistoryInv, HeadCommit
<1>3. ASSUME NEW m \in 0..Len(parents) PROVE TreeOK(stored, TreeOf(m))
  <2>1. CASE m = 0
    BY <1>1, <2>1 DEF TreeOf, NoTree, TreeOK
  <2>2. CASE m # 0
    BY <1>1, <2>2 DEF TreeOf, StoreInv
  <2> QED BY <2>1, <2>2
<1> QED BY <1>1, <1>2, <1>3 DEF HeadTree

\* One line of the log looked at by undo.
UndoTurn(log, n, w) ==
    LET l == log[Len(log) + 1 - n]
    IN  CASE w.found # << >>                            -> w
          [] w.found = << >> /\ l.undo                  -> [w EXCEPT !.skip = @ + 1]
          [] w.found = << >> /\ ~l.undo /\ w.skip > 0   -> [w EXCEPT !.skip = @ - 1]
          [] w.found = << >> /\ ~l.undo /\ w.skip = 0   -> [w EXCEPT !.found = <<l>>]

\* Undo finds a line of the log or none.
LEMMA UndoTargetIn ==
    ASSUME NEW m, NEW log \in Seq(LogLine(m))
    PROVE  UndoTarget(log) = << >> \/ \E l \in LogLine(m) : UndoTarget(log) = <<l>>
<1> DEFINE n == Len(log)
           Found == {<< >>} \cup {<<l>> : l \in LogLine(m)}
           W == [skip : Nat, found : Found]
           F == [z \in (1..n) \X W |-> UndoTurn(log, z[1], z[2])]
           a == [skip |-> 0, found |-> << >>]
           Eq(f) == f = [i \in 0..n |-> IF i = 0 THEN a ELSE UndoTurn(log, i, f[i - 1])]
           walk == CHOOSE f : Eq(f)
<1>0. n \in Nat /\ DOMAIN log = 1..n
  OBVIOUS
<1>e. a \in W
  OBVIOUS
<1>a. ASSUME NEW i \in 1..n, NEW v \in W PROVE UndoTurn(log, i, v) \in W
  <2> DEFINE l == log[Len(log) + 1 - i]
             s == v.skip
             g == v.found
  <2>1. (Len(log) + 1) - i \in 1..n
    BY <1>0
  <2>a. l \in LogLine(m)
    BY <2>1, ElementOfSeq
  <2>2. l \in LogLine(m) /\ l.undo \in BOOLEAN /\ <<l>> \in Found
    <3> HIDE DEF l
    <3> QED BY <2>a DEF LogLine
  <2>3. v = [skip |-> s, found |-> g] /\ s \in Nat /\ g \in Found
    OBVIOUS
  <2> HIDE DEF Found, s, g, l
  <2>4. [v EXCEPT !.skip = @ + 1] \in W
    BY <2>3
  <2>5. s > 0 => [v EXCEPT !.skip = @ - 1] \in W
    BY <2>3
  <2>6. [v EXCEPT !.found = <<l>>] \in W
    BY <2>2, <2>3
  <2>7. s > 0 \/ s = 0
    BY <2>3
  <2> DEFINE x1 == [v EXCEPT !.skip = @ + 1]
             x2 == [v EXCEPT !.skip = @ - 1]
             x3 == [v EXCEPT !.found = <<l>>]
  <2>8. UndoTurn(log, i, v) = CASE g # << >> -> v
                                [] g = << >> /\ l.undo -> x1
                                [] g = << >> /\ ~l.undo /\ s > 0 -> x2
                                [] g = << >> /\ ~l.undo /\ s = 0 -> x3
    BY DEF UndoTurn, l, s, g
  <2> HIDE DEF x1, x2, x3, W
  <2> QED BY <2>2, <2>4, <2>5, <2>6, <2>7, <2>8 DEF x1, x2, x3
<1>1. F \in [(1..n) \X W -> W]
  <2>1. \A z \in (1..n) \X W : UndoTurn(log, z[1], z[2]) \in W
    BY <1>a
  <2> QED BY <2>1
<1>2. PICK g : Loops(g, F, W, n, a)
  <2> HIDE DEF F, W, n, a
  <2> QED BY <1>0, <1>1, <1>e, LoopExists
<1>3. ASSUME NEW i \in 1..n PROVE g[i] = UndoTurn(log, i, g[i - 1])
  <2>1. g[i] = F[<<i, g[i - 1]>>] /\ g[i - 1] \in W
    <3>1. n \in Nat
      BY <1>0
    <3> HIDE DEF F, W, n
    <3>2. i - 1 \in 0..n
      BY <3>1
    <3> QED BY <3>2, <1>2 DEF Loops
  <2>2. <<i, g[i - 1]>> \in (1..n) \X W
    BY <2>1
  <2> QED BY <2>1, <2>2
<1>4. Eq(g)
  <2>1. g = [i \in 0..n |-> g[i]]
    BY <1>2 DEF Loops
  <2>2. \A i \in 0..n : g[i] = IF i = 0 THEN a ELSE UndoTurn(log, i, g[i - 1])
    <3> HIDE DEF W, a
    <3> QED BY <1>0, <1>2, <1>3 DEF Loops
  <2> HIDE DEF n, a
  <2> QED BY <2>1, <2>2
<1>5. Eq(walk)
  <2> HIDE DEF Eq
  <2> QED BY <1>4
<1>6. UndoTarget(log) = walk[n].found
  BY DEF UndoTarget, UndoTurn
<1> HIDE DEF walk
<1>7. walk[0] = a /\ \A i \in 1..n : walk[i] = UndoTurn(log, i, walk[i - 1])
  <2> HIDE DEF a
  <2> QED BY <1>0, <1>5
<1>8. \A i \in 0..n : walk[i] \in W
  <2> DEFINE T == {i \in Nat : i <= n => walk[i] \in W}
  <2>1. 0 \in T
    BY <1>7, <1>e
  <2>2. ASSUME NEW i \in Nat, i \in T PROVE i + 1 \in T
    <3> SUFFICES ASSUME i + 1 <= n PROVE walk[i + 1] \in W
      OBVIOUS
    <3>1. i + 1 \in 1..n /\ walk[i] \in W /\ walk[i + 1] = UndoTurn(log, i + 1, walk[i])
      BY <1>0, <1>7, <2>2
    <3> QED BY <3>1, <1>a
  <2>3. \A i \in Nat : i \in T
    <3> HIDE DEF T
    <3> QED BY <2>1, <2>2, SetInduction
  <2> QED BY <2>3, <1>0
<1>9. walk[n] \in W
  BY <1>8, <1>0
<1>10. walk[n].found \in Found
  <2> HIDE DEF Found
  <2> QED BY <1>9
<1> QED BY <1>6, <1>10

\* The base a merge works from is a commit of the store.
LEMMA BaseThere ==
    ASSUME HistoryInv, NEW a \in 0..Len(parents), NEW b \in 0..Len(parents),
           MergeBase(parents, Commits, a, b) # NoCommit
    PROVE  MergeBase(parents, Commits, a, b) \in 1..Len(parents)
<1> DEFINE m == MergeBase(parents, Commits, a, b)
<1>1. IsGraph(parents) /\ DOMAIN parents = 1..Len(parents) /\ Len(parents) \in Nat
  BY DEF HistoryInv, IsGraph
<1>2. m \in Reach(parents, a)
  BY <1>1, MergeBaseIsCommon DEF Commits
<1>3. a \in DOMAIN parents
  BY <1>1, <1>2, ReachNone DEF NoCommit
<1> HIDE DEF m
<1> QED BY <1>1, <1>2, <1>3, ReachInGraph DEF m

----------------------------------------------------------------------------
(* The plans of the commands                                               *)

\* What may come after O with A may come later.
LEMMA PlainGrows ==
    ASSUME NEW c, NEW O, NEW P, NEW A, NEW B, NEW w, Numbered(c), StepPlain(c, O, A, w),
           O \subseteq P, A \subseteq B
    PROVE  StepPlain(c, P, B, w)
<1>1. Known(c.n, O) \in Nat /\ Known(c.n, P) \in Nat /\ Known(c.n, O) <= Known(c.n, P)
  BY DEF Known, Numbered
<1>2. StepTyped(c.n, P, w)
  <2> DEFINE k == Known(c.n, O)
             l == Known(c.n, P)
  <2>1. StepTyped(c.n, O, w)
    BY DEF StepPlain
  <2>2. 0..k \subseteq 0..l /\ LogLine(k) \subseteq LogLine(l)
    BY <1>1 DEF LogLine
  <2>3. /\ w.op = "ref" => w.name \in Branch /\ w.to \in 0..k
        /\ w.op = "log" => w.name \in Branch /\ w.line \in LogLine(k)
        /\ w.op = "headLog" => w.ids \subseteq 0..k
    BY <2>1 DEF StepTyped
  <2> HIDE DEF k, l
  <2>4. /\ w.op = "ref" => w.name \in Branch /\ w.to \in 0..l
        /\ w.op = "log" => w.name \in Branch /\ w.line \in LogLine(l)
        /\ w.op = "headLog" => w.ids \subseteq 0..l
    BY <2>2, <2>3
  <2> QED BY <2>1, <2>4 DEF StepTyped, l
<1>3. StepStored(B, w)
  BY StoredGrows DEF StepPlain
<1> QED BY <1>2, <1>3 DEF StepPlain, StepGuarded

\* Steps that may come anywhere after a plan.
LEMMA CatPlain ==
    ASSUME NEW c, NEW O, NEW A, NEW p, PlanOK(c, O, A, p), Numbered(c),
           "then" \notin O, "then" \notin Ops(Steps(p)),
           NEW q, IsPlan(q), NEW P, P \subseteq O \cup Ops(Steps(p)),
           NEW B, B \subseteq A \cup Wrote(Steps(p)), \A x \in Steps(q) : StepPlain(c, P, B, x)
    PROVE  PlanOK(c, O, A, p \o q) /\ Steps(p \o q) = Steps(p) \cup Steps(q)
<1> DEFINE Q == O \cup Ops(Steps(p))
           C == A \cup Wrote(Steps(p))
<1>1. "then" \notin Q /\ P \subseteq Q /\ B \subseteq C
  OBVIOUS
<1> HIDE DEF Q, C
<1>2. \A x \in Steps(q) : StepPlain(c, Q, C, x)
  BY <1>1, PlainGrows
<1>3. PlanOK(c, Q, C, q)
  BY <1>1, <1>2, PlainOK
<1>4. PlanOK(c, O \cup Ops(Steps(p)), A \cup Wrote(Steps(p)), q)
  BY <1>3 DEF Q, C
<1> QED BY <1>4, CatOK

\* Long plans cut in two.
LEMMA Cut ==
    /\ \A a, b, c, d : <<a, b, c, d>> = <<a, b>> \o <<c, d>>
    /\ \A a, b, c, d, e : <<a, b, c, d, e>> = <<a, b>> \o <<c, d, e>>
    /\ \A a, b, c, d, e, f, g, h : <<a, b, c, d, e, f, g, h>> = <<a, b>> \o <<c, d, e, f, g, h>>
    /\ \A a, b, c, d, e, f, g, h, i :
          <<a, b, c, d, e, f, g, h, i>> = <<a>> \o <<b, c, d, e, f, g, h, i>>
    /\ \A a, b : <<a, b>> = <<a>> \o <<b>>
    /\ \A a, b, c : <<a, b, c>> = <<a>> \o <<b, c>>
    /\ \A a, b, c, d : <<a, b, c, d>> = <<a>> \o <<b, c, d>>
    /\ \A a, b, c, d : <<a, b, c, d>> = <<a, b, c>> \o <<d>>
<1>1. \A a, b, c, d : <<a, b, c, d>> = <<a, b>> \o <<c, d>>
  OBVIOUS
<1>2. \A a, b, c, d, e : <<a, b, c, d, e>> = <<a, b>> \o <<c, d, e>>
  OBVIOUS
<1>3. \A a, b, c, d, e, f, g, h : <<a, b, c, d, e, f, g, h>> = <<a, b>> \o <<c, d, e, f, g, h>>
  OBVIOUS
<1>4. \A a, b, c, d, e, f, g, h, i :
         <<a, b, c, d, e, f, g, h, i>> = <<a>> \o <<b, c, d, e, f, g, h, i>>
  OBVIOUS
<1>5. ASSUME NEW a, NEW b PROVE <<a, b>> = <<a>> \o <<b>>
  <2> DEFINE r == <<a>> \o <<b>>
             s == <<a, b>>
             u == <<a>>
             v == <<b>>
  <2>1. u \in Seq({a, b}) /\ v \in Seq({a, b}) /\ Len(u) = 1 /\ Len(v) = 1 /\ u[1] = a /\ v[1] = b
    OBVIOUS
  <2>2. s \in Seq({a, b}) /\ Len(s) = 2 /\ s[1] = a /\ s[2] = b
    OBVIOUS
  <2> HIDE DEF u, v, s
  <2>3. r \in Seq({a, b}) /\ Len(r) = 2 /\ r[1] = a /\ r[2] = b
    <3>1. u \o v \in Seq({a, b}) /\ Len(u \o v) = 2
          /\ \A i \in 1..2 : (u \o v)[i] = IF i <= 1 THEN u[i] ELSE v[i - 1]
      <4> DEFINE S == {a, b}
      <4>1. u \in Seq(S) /\ v \in Seq(S)
        BY <2>1
      <4> HIDE DEF S
      <4>2. /\ u \o v \in Seq(S) /\ Len(u \o v) = Len(u) + Len(v)
            /\ \A i \in 1..(Len(u) + Len(v)) : (u \o v)[i] = IF i <= Len(u) THEN u[i] ELSE v[i - Len(u)]
        BY <4>1, ConcatProperties
      <4> QED BY <2>1, <4>2 DEF S
    <3>2. r = u \o v
      BY DEF u, v
    <3> HIDE DEF r
    <3> QED BY <2>1, <3>1, <3>2
  <2> HIDE DEF r
  <2>4. \A i \in 1..Len(s) : s[i] = r[i]
    BY <2>2, <2>3
  <2>5. s = r
    BY <2>2, <2>3, <2>4, SeqEqual
  <2> QED BY <2>5 DEF r, s
<1>6. \A a, b, c : <<a, b, c>> = <<a>> \o <<b, c>>
  OBVIOUS
<1>7. \A a, b, c, d : <<a, b, c, d>> = <<a>> \o <<b, c, d>>
  OBVIOUS
<1>8. \A a, b, c, d : <<a, b, c, d>> = <<a, b, c>> \o <<d>>
  OBVIOUS
<1> QED BY <1>1, <1>2, <1>3, <1>4, <1>5, <1>6, <1>7, <1>8

\* A snapshot, and the start of a transaction.
LEMMA SnapBegin ==
    ASSUME NEW c, NEW A, NEW m, Numbered(c)
    PROVE  /\ PlanOK(c, {}, A, <<Snap(m), Begin>>) /\ Steps(<<Snap(m), Begin>>) = {Snap(m), Begin}
           /\ Ops(Steps(<<Snap(m), Begin>>)) = {"snap", "begin"}
<1>1. StepOK(c, {}, A, Snap(m))
  BY PlainSteps DEF StepOK, StepPlain, StepOrdered
<1>2. PlanOK(c, {}, A, <<Snap(m)>>) /\ Steps(<<Snap(m)>>) = {Snap(m)}
  BY <1>1, OneOK
<1> DEFINE O == {} \cup Ops(Steps(<<Snap(m)>>))
           B == A \cup Wrote(Steps(<<Snap(m)>>))
<1>3. O = {"snap"}
  BY <1>2, Kinds DEF Ops
<1>4. StepOK(c, O, B, Begin)
  <2> HIDE DEF O, B
  <2> QED BY <1>3, BeginOK
<1>5. PlanOK(c, O, B, <<Begin>>)
  <2> HIDE DEF O, B
  <2> QED BY <1>4, OneOK
<1>6. PlanOK(c, {}, A, <<Snap(m)>> \o <<Begin>>)
  BY <1>2, <1>5, CatOK
<1>7. <<Snap(m)>> \o <<Begin>> = <<Snap(m), Begin>>
  BY Cut
<1>8. Steps(<<Snap(m), Begin>>) = {Snap(m), Begin}
  BY Listed
<1>9. PlanOK(c, {}, A, <<Snap(m), Begin>>)
  BY <1>6, <1>7
<1>10. Ops({Snap(m), Begin}) = {"snap", "begin"}
  BY Kinds DEF Ops
<1> QED BY <1>8, <1>9, <1>10

\* A command decides on p in the context c.
Now(c) == Numbered(c) /\ c.n = Len(parents) /\ c.j = journal
Starts(c, p) == PlanOK(c, {}, stored, p) /\ Closes(FALSE, p)

\* Plans without a transaction, or with its end.
LEMMA Settled ==
    ASSUME NEW p, "begin" \notin Ops(Steps(p)) \/ "end" \in Ops(Steps(p)) \/ "hang" \in Ops(Steps(p))
    PROVE  Closes(FALSE, p)
BY DEF Closes

\* The lines of the two logs.
LEMMA ReflogPlain ==
    ASSUME NEW c, NEW O, NEW A, NEW b \in Branch, NEW k, k = Known(c.n, O), NEW old \in 0..k, NEW new \in 1..k
    PROVE  /\ IsPlan(appendReflog(b, old, new))
           /\ \A x \in Steps(appendReflog(b, old, new)) : StepPlain(c, O, A, x) /\ x.op \in {"headLog", "log"}
<1> DEFINE p == appendReflog(b, old, new)
           x == HeadLog({old, new})
           y == Log(b, old, new, FALSE, TRUE)
<1>1. p = <<x, y>>
  BY DEF appendReflog
<1>2. {old, new} \in SUBSET (0..k)
  OBVIOUS
<1>3. StepPlain(c, O, A, x) /\ StepPlain(c, O, A, y)
  BY <1>2, PlainRefs
<1>4. x.op = "headLog" /\ y.op = "log"
  BY DEF HeadLog, Log
<1> HIDE DEF x, y, p
<1>5. IsPlan(p) /\ Steps(p) = {x, y}
  BY <1>1, Listed
<1> QED BY <1>3, <1>4, <1>5 DEF p

\* What add and rm write to the record of a merge.
LEMMA MarkPlain ==
    ASSUME StoreInv, NEW c, NEW O, NEW ps
    PROVE  /\ IsPlan(markResolvedByAdd(ps))
           /\ \A x \in Steps(markResolvedByAdd(ps)) : StepPlain(c, O, stored, x) /\ x.op = "sidecar"
<1> DEFINE p == markResolvedByAdd(ps)
           s == SetResolved(sidecar, ps, [q \in ps |-> TRUE])
           x == Sidecar(s, FALSE)
<1>1. p = <<x>> \/ p = << >>
  BY DEF markResolvedByAdd
<1>2. SidecarOK(stored, s)
  BY ResolvedOK DEF StoreInv
<1>3. StepPlain(c, O, stored, x) /\ x.op = "sidecar"
  <2> HIDE DEF s
  <2>1. x.op = "sidecar"
    BY DEF Sidecar
  <2>2. StepPlain(c, O, stored, x)
    BY <1>2, PlainMerge
  <2> QED BY <2>1, <2>2
<1> HIDE DEF x, p
<1>4. IsPlan(p) /\ Steps(p) \subseteq {x}
  BY <1>1, Listed
<1> QED BY <1>3, <1>4 DEF p

\* add stores the contents before the index names them.
LEMMA AddStarts ==
    ASSUME StoreInv, NEW c, Now(c), NEW content, DOMAIN content \subseteq Path, NEW clean
    PROVE  Starts(c, <<Blobs(Range(content)), WriteIndex(StageAll(index, content))>> \o markResolvedByAdd(clean))
<1> DEFINE R == Range(content)
           a == Blobs(R)
           ix == StageAll(index, content)
           b == WriteIndex(ix)
           m == markResolvedByAdd(clean)
           B == stored \cup R
<1>1. \A q \in DOMAIN content : content[q] \in R
  BY DEF Range
<1>2. IndexOK(B, ix)
  <2>1. IndexOK(stored, index) /\ stored \subseteq B
    BY DEF StoreInv
  <2> HIDE DEF B
  <2>2. IndexOK(B, index)
    BY <2>1, IndexGrows
  <2>3. \A q \in Path \cap DOMAIN content : content[q] \in B \cup {None}
    BY <1>1 DEF B
  <2> QED BY <2>2, <2>3, StageOK
<1> HIDE DEF R, ix
<1>3. Numbered(c)
  BY DEF Now
<1>4. a.op = "blobs" /\ Writes(a) = R /\ b.op = "index"
  BY Kinds DEF Writes
<1>5. StepOK(c, {}, stored, a)
  BY PlainSteps DEF StepOK, StepPlain, StepOrdered
<1>6. StepPlain(c, {}, B, b)
  <2> HIDE DEF B
  <2> QED BY <1>2, PlainIndex
<1>7. IsPlan(m) /\ \A x \in Steps(m) : StepPlain(c, {}, stored, x) /\ x.op = "sidecar"
  BY MarkPlain
<1> HIDE DEF a, b, m
<1> DEFINE p == <<a>>
           q == <<b>>
<1>8. PlanOK(c, {}, stored, p) /\ Steps(p) = {a} /\ IsPlan(q) /\ Steps(q) = {b}
  BY <1>5, OneOK, Listed
<1>9. Ops({a}) = {"blobs"} /\ Wrote({a}) = R
  BY <1>4 DEF Ops, Wrote
<1> HIDE DEF p, q
<1> DEFINE r == q \o m
<1>10. IsPlan(r) /\ Steps(r) = {b} \cup Steps(m)
  BY <1>7, <1>8, PlanJoin
<1> HIDE DEF r
<1>11. ASSUME NEW x \in Steps(r) PROVE StepPlain(c, {}, B, x)
  BY <1>3, <1>6, <1>7, <1>10, PlainGrows
<1> DEFINE z == p \o r
<1>12. PlanOK(c, {}, stored, z) /\ Steps(z) = {a} \cup Steps(r)
  <2>1. "then" \notin Ops(Steps(p)) /\ {} \subseteq {} \cup Ops(Steps(p)) /\ B \subseteq stored \cup Wrote(Steps(p))
    BY <1>8, <1>9
  <2> HIDE DEF B
  <2> QED BY <1>3, <1>8, <1>10, <1>11, <2>1, CatPlain
<1>13. z = <<a, b>> \o m
  <2>1. p \in Seq({a, b}) /\ q \in Seq({a, b})
    BY DEF p, q
  <2>2. m \in Seq(Steps(m))
    BY <1>7 DEF IsPlan, Steps
  <2> DEFINE X == {a, b} \cup Steps(m)
  <2>3. p \in Seq(X) /\ q \in Seq(X) /\ m \in Seq(X)
    BY <2>1, <2>2, SeqGrows
  <2> HIDE DEF X
  <2>4. (p \o q) \o m = p \o (q \o m)
    BY <2>3, ConcatAssociative
  <2>5. <<a, b>> = p \o q
    BY Cut DEF p, q
  <2> QED BY <2>4, <2>5 DEF r
<1> HIDE DEF z
<1>14. Closes(FALSE, z)
  <2>1. "begin" \notin Ops(Steps(z))
    BY <1>4, <1>7, <1>10, <1>12 DEF Ops
  <2> QED BY <2>1, Settled
<1> QED BY <1>12, <1>13, <1>14 DEF Starts, a, b, m, R, ix

\* rm.
LEMMA RmStarts ==
    ASSUME StoreInv, NEW c, Now(c), NEW gone, gone \subseteq Live(index), gone \subseteq c.sec, NEW ps
    PROVE  Starts(c, <<Delete(gone, FALSE),
                       WriteIndex([p \in Path |-> IF p \in gone THEN [index[p] EXCEPT !.state = "deleted"]
                                                  ELSE index[p]])>> \o markRemovedResolved(ps))
<1> DEFINE ix == [p \in Path |-> IF p \in gone THEN [index[p] EXCEPT !.state = "deleted"] ELSE index[p]]
           a == Delete(gone, FALSE)
           b == WriteIndex(ix)
           m == markRemovedResolved(ps)
<1>1. IndexOK(stored, ix)
  <2> SUFFICES ASSUME NEW q \in Path PROVE EntryOK(ix[q]) /\ ix[q].blob \in stored \cup {None}
    BY DEF IndexOK
  <2>1. ix[q] = IF q \in gone THEN [index[q] EXCEPT !.state = "deleted"] ELSE index[q]
    OBVIOUS
  <2>2. EntryOK(index[q]) /\ index[q].blob \in stored \cup {None}
    BY DEF StoreInv, IndexOK
  <2>3. q \in gone => index[q].state # "none"
    BY DEF Live
  <2> HIDE DEF ix
  <2> QED BY <2>1, <2>2, <2>3, StateSet
<1>2. gone \subseteq Path
  BY DEF Live
<1> HIDE DEF ix
<1>3. Numbered(c)
  BY DEF Now
<1>4. a.op = "delete" /\ b.op = "index"
  BY DEF Delete, WriteIndex
<1>5. StepPlain(c, {}, stored, a) /\ StepPlain(c, {}, stored, b)
  BY <1>1, <1>2, PlainDelete, PlainIndex
<1>6. IsPlan(m) /\ \A x \in Steps(m) : StepPlain(c, {}, stored, x) /\ x.op = "sidecar"
  BY MarkPlain DEF markRemovedResolved
<1> HIDE DEF a, b, m
<1> DEFINE p == <<a, b>>
           z == p \o m
<1>7. IsPlan(p) /\ Steps(p) = {a, b}
  BY Listed
<1> HIDE DEF p
<1>8. IsPlan(z) /\ Steps(z) = {a, b} \cup Steps(m)
  BY <1>6, <1>7, PlanJoin
<1> HIDE DEF z
<1>9. PlanOK(c, {}, stored, z)
  BY <1>3, <1>5, <1>6, <1>8, PlainOK
<1>10. "begin" \notin Ops(Steps(z))
  BY <1>4, <1>6, <1>8 DEF Ops
<1> QED BY <1>9, <1>10, Settled DEF Starts, z, p, a, b, m, ix

\* branch.
LEMMA BranchStarts ==
    ASSUME HistoryInv, StoreInv, NEW c, Now(c), NEW b \in Branch, HeadCommit # NoCommit
    PROVE  Starts(c, <<Ref(b, HeadCommit), Log(b, NoCommit, HeadCommit, FALSE, TRUE)>>)
<1> DEFINE x == Ref(b, HeadCommit)
           y == Log(b, NoCommit, HeadCommit, FALSE, TRUE)
           z == <<x, y>>
<1>1. Numbered(c) /\ HeadCommit \in 1..c.n /\ HeadCommit \in 0..c.n /\ NoCommit \in 0..c.n
  BY TreesThere DEF Now, Numbered
<1>2. Known(c.n, {}) = c.n
  BY DEF Known
<1>3. StepPlain(c, {}, stored, x) /\ StepPlain(c, {}, stored, y)
  BY <1>1, <1>2, PlainRefs
<1>a. x.op = "ref" /\ y.op = "log"
  BY DEF Ref, Log
<1> HIDE DEF x, y
<1>4. IsPlan(z) /\ Steps(z) = {x, y}
  BY Listed
<1> HIDE DEF z
<1>5. PlanOK(c, {}, stored, z)
  BY <1>1, <1>3, <1>4, PlainOK
<1>6. "begin" \notin Ops(Steps(z))
  BY <1>a, <1>4 DEF Ops
<1> QED BY <1>5, <1>6, Settled DEF Starts, z, x, y

\* The plan p is in order, and steps that may come after P with B may follow it.
Sofar(c, O, A, P, B, p) ==
    /\ PlanOK(c, O, A, p)
    /\ "then" \notin O /\ "then" \notin Ops(Steps(p))
    /\ P \subseteq O \cup Ops(Steps(p))
    /\ B \subseteq A \cup Wrote(Steps(p))

\* A plan goes on.
LEMMA GoesOn ==
    ASSUME NEW c, NEW O, NEW A, NEW P, NEW B, NEW p, Numbered(c), Sofar(c, O, A, P, B, p),
           NEW q, IsPlan(q), \A x \in Steps(q) : StepPlain(c, P, B, x)
    PROVE  Sofar(c, O, A, P, B, p \o q) /\ Steps(p \o q) = Steps(p) \cup Steps(q)
<1>1. /\ PlanOK(c, O, A, p) /\ "then" \notin O /\ "then" \notin Ops(Steps(p))
      /\ P \subseteq O \cup Ops(Steps(p)) /\ B \subseteq A \cup Wrote(Steps(p))
  BY DEF Sofar
<1> DEFINE r == p \o q
           X == O \cup Ops(Steps(p))
           Y == A \cup Wrote(Steps(p))
<1>2. PlanOK(c, O, A, r) /\ Steps(r) = Steps(p) \cup Steps(q)
  <2>1. P \subseteq X /\ B \subseteq Y /\ "then" \notin X
    BY <1>1
  <2> HIDE DEF X, Y
  <2>2. \A x \in Steps(q) : StepPlain(c, X, Y, x)
    BY <2>1, PlainGrows
  <2>3. PlanOK(c, X, Y, q)
    BY <2>1, <2>2, PlainOK
  <2>4. PlanOK(c, O \cup Ops(Steps(p)), A \cup Wrote(Steps(p)), q)
    BY <2>3 DEF X, Y
  <2> QED BY <1>1, <2>4, CatOK
<1> HIDE DEF r
<1>3. Ops(Steps(r)) = Ops(Steps(p)) \cup Ops(Steps(q)) /\ Wrote(Steps(r)) = Wrote(Steps(p)) \cup Wrote(Steps(q))
  BY <1>2, StepsJoin, ZenonT(30)
<1>4. "then" \notin Ops(Steps(q))
  BY DEF Ops, StepPlain
<1>5. Sofar(c, O, A, P, B, r)
  BY <1>1, <1>2, <1>3, <1>4 DEF Sofar
<1> QED BY <1>2, <1>5 DEF r

\* A plan that starts with one such step.
LEMMA GoesOnOne ==
    ASSUME NEW c, NEW O, NEW A, NEW w, Numbered(c), "then" \notin O, StepPlain(c, O, A, w)
    PROVE  Sofar(c, O, A, O \cup {w.op}, A \cup Writes(w), <<w>>) /\ Steps(<<w>>) = {w}
<1>1. StepOK(c, O, A, w) /\ w.op # "then"
  BY DEF StepOK, StepPlain, StepOrdered
<1>2. PlanOK(c, O, A, <<w>>) /\ Steps(<<w>>) = {w}
  BY <1>1, OneOK
<1>3. Ops({w}) = {w.op} /\ Wrote({w}) = Writes(w)
  BY DEF Ops, Wrote
<1> QED BY <1>1, <1>2, <1>3 DEF Sofar

\* The record and MERGE_HEAD are removed, or left.
ClearPlan(clear, soft) == IF clear THEN <<MergeHead(NoCommit, soft), Sidecar(NoSidecar, TRUE)>> ELSE << >>

\* Removing them may come anywhere.
LEMMA ClearPlain ==
    ASSUME NEW c, Numbered(c), NEW O, NEW A, NEW clear \in BOOLEAN, NEW soft \in BOOLEAN
    PROVE  /\ IsPlan(ClearPlan(clear, soft))
           /\ \A x \in Steps(ClearPlan(clear, soft)) : StepPlain(c, O, A, x) /\ x.op \in {"mergeHead", "sidecar"}
<1> DEFINE p == ClearPlan(clear, soft)
           x == MergeHead(NoCommit, soft)
           y == Sidecar(NoSidecar, TRUE)
<1>1. p = <<x, y>> \/ p = << >>
  BY DEF ClearPlan
<1>2. NoCommit \in 0..c.n
  BY DEF NoCommit, Numbered
<1>3. StepPlain(c, O, A, x) /\ StepPlain(c, O, A, y)
  BY <1>2, PlainMerge, NoSidecarOK
<1>4. x.op = "mergeHead" /\ y.op = "sidecar"
  BY DEF MergeHead, Sidecar
<1> HIDE DEF x, y, p
<1>5. IsPlan(p) /\ Steps(p) \subseteq {x, y}
  BY <1>1, Listed
<1> QED BY <1>3, <1>4, <1>5 DEF p

\* What commit leaves in the index.
LEMMA CommittedOK ==
    ASSUME StoreInv
    PROVE  IndexOK(stored, [p \in Path |-> IF p \in Live(index) THEN [index[p] EXCEPT !.state = "unmodified"]
                                           ELSE Untracked])
<1> DEFINE ix == [p \in Path |-> IF p \in Live(index) THEN [index[p] EXCEPT !.state = "unmodified"]
                                 ELSE Untracked]
<1> SUFFICES ASSUME NEW q \in Path PROVE EntryOK(ix[q]) /\ ix[q].blob \in stored \cup {None}
  BY DEF IndexOK
<1>1. ix[q] = IF q \in Live(index) THEN [index[q] EXCEPT !.state = "unmodified"] ELSE Untracked
  OBVIOUS
<1>2. EntryOK(index[q]) /\ index[q].blob \in stored \cup {None}
  BY DEF StoreInv, IndexOK
<1>3. q \in Live(index) => index[q].state # "none"
  BY DEF Live
<1> HIDE DEF ix
<1> QED BY <1>1, <1>2, <1>3, StateSet, UntrackedOK

\* commit stores the commit before the branch names it.
LEMMA CommitStarts ==
    ASSUME HistoryInv, StoreInv, NEW c, Now(c)
    PROVE  PlanOK(c, {}, stored, CommitPlan) /\ "begin" \notin Ops(Steps(CommitPlan))
<1> DEFINE new == Len(parents) + 1
           ps == (IF HeadCommit = NoCommit THEN << >> ELSE <<HeadCommit>>)
                 \o (IF MergeInProgress THEN <<mergeHead>> ELSE << >>)
           old == IF ps = << >> THEN NoCommit ELSE ps[1]
           ix == [p \in Path |-> IF p \in Live(index) THEN [index[p] EXCEPT !.state = "unmodified"]
                                 ELSE Untracked]
           bc == BuildCommit(ps, BuildTree(index))
           rf == Ref(head, new)
           wi == WriteIndex(ix)
           al == appendReflog(head, old, new)
           m == ClearPlan(MergeInProgress, TRUE)
<1>1. Numbered(c) /\ c.n = Len(parents) /\ c.n \in Nat
  BY DEF Now, Numbered
<1>2. ps \in Seq(1..c.n)
  <2> DEFINE a == IF HeadCommit = NoCommit THEN << >> ELSE <<HeadCommit>>
             b == IF MergeInProgress THEN <<mergeHead>> ELSE << >>
  <2>1. HeadCommit \in 0..c.n /\ mergeHead \in 0..c.n /\ NoCommit = 0
    BY <1>1, TreesThere DEF HistoryInv
  <2>2. a \in Seq(1..c.n)
    <3>1. HeadCommit # NoCommit => HeadCommit \in 1..c.n
      BY <1>1, <2>1
    <3>2. \A z \in 1..c.n : <<z>> \in Seq(1..c.n)
      OBVIOUS
    <3>3. << >> \in Seq(1..c.n)
      OBVIOUS
    <3> QED BY <3>1, <3>2, <3>3
  <2>3. b \in Seq(1..c.n)
    <3>1. MergeInProgress => mergeHead \in 1..c.n
      BY <1>1, <2>1 DEF MergeInProgress
    <3>2. \A z \in 1..c.n : <<z>> \in Seq(1..c.n)
      OBVIOUS
    <3>3. << >> \in Seq(1..c.n)
      OBVIOUS
    <3> QED BY <3>1, <3>2, <3>3
  <2> HIDE DEF a, b
  <2>4. a \o b \in Seq(1..c.n)
    BY <2>2, <2>3
  <2> QED BY <2>4 DEF a, b
<1> HIDE DEF ps
<1>3. old \in 0..c.n
  BY <1>1, <1>2 DEF NoCommit
<1>4. TreeOK(stored, BuildTree(index)) /\ IndexOK(stored, ix)
  BY BuildTreeOK, CommittedOK DEF StoreInv
<1> HIDE DEF old, ix
<1>5. StepPlain(c, {}, stored, bc) /\ bc.op = "commit"
  BY <1>2, <1>4, PlainCommit DEF BuildCommit
<1> HIDE DEF bc
<1> DEFINE p1 == <<bc>>
           O == {} \cup {bc.op}
           A == stored \cup Writes(bc)
<1>6. Sofar(c, {}, stored, O, A, p1) /\ Steps(p1) = {bc}
  BY <1>1, <1>5, GoesOnOne
<1>7. O = {"commit"} /\ stored \subseteq A
  BY <1>5
<1> HIDE DEF O, A
<1>8. Known(c.n, O) = c.n + 1 /\ new = c.n + 1 /\ head \in Branch
  BY <1>1, <1>7 DEF Known, HistoryInv
<1>9. StepPlain(c, O, A, rf) /\ rf.op = "ref"
  <2>1. new \in 0..(c.n + 1)
    BY <1>1, <1>8
  <2> QED BY <1>8, <2>1, PlainRefs DEF Ref
<1>10. StepPlain(c, O, A, wi) /\ wi.op = "index"
  <2>1. IndexOK(A, ix)
    BY <1>4, <1>7, IndexGrows
  <2> QED BY <2>1, PlainIndex DEF WriteIndex
<1>11. IsPlan(al) /\ \A x \in Steps(al) : StepPlain(c, O, A, x) /\ x.op \in {"headLog", "log"}
  <2>1. old \in 0..(c.n + 1) /\ new \in 1..(c.n + 1)
    BY <1>1, <1>3, <1>8
  <2> HIDE DEF new
  <2> QED BY <1>8, <2>1, ReflogPlain
<1>12. IsPlan(m) /\ \A x \in Steps(m) : StepPlain(c, O, A, x) /\ x.op \in {"mergeHead", "sidecar"}
  <2>1. MergeInProgress \in BOOLEAN
    BY DEF MergeInProgress
  <2> QED BY <1>1, <2>1, ClearPlain
<1> HIDE DEF rf, wi, al, m
<1> DEFINE q1 == <<rf>>
           q3 == <<wi>>
<1>13. IsPlan(q1) /\ Steps(q1) = {rf} /\ IsPlan(q3) /\ Steps(q3) = {wi}
  BY Listed
<1> HIDE DEF p1, q1, q3
<1> DEFINE p2 == p1 \o q1
<1>14. Sofar(c, {}, stored, O, A, p2) /\ Steps(p2) = {bc, rf}
  BY <1>1, <1>6, <1>9, <1>13, GoesOn
<1> HIDE DEF p2
<1> DEFINE p3 == p2 \o al
<1>15. Sofar(c, {}, stored, O, A, p3) /\ Steps(p3) = {bc, rf} \cup Steps(al)
  BY <1>1, <1>11, <1>14, GoesOn
<1> HIDE DEF p3
<1> DEFINE p4 == p3 \o q3
<1>16. Sofar(c, {}, stored, O, A, p4) /\ Steps(p4) = {bc, rf, wi} \cup Steps(al)
  BY <1>1, <1>10, <1>13, <1>15, GoesOn
<1> HIDE DEF p4
<1> DEFINE p5 == p4 \o m
<1>17. Sofar(c, {}, stored, O, A, p5) /\ Steps(p5) = {bc, rf, wi} \cup Steps(al) \cup Steps(m)
  BY <1>1, <1>12, <1>16, GoesOn
<1> HIDE DEF p5
<1>18. CommitPlan = p5
  <2>1. p2 = <<bc, rf>>
    BY Cut DEF p2, p1, q1
  <2>2. CommitPlan = ((<<bc, rf>> \o al) \o <<wi>>) \o m
    BY DEF CommitPlan, bc, rf, al, wi, m, ps, old, ix, ClearPlan
  <2> QED BY <2>1, <2>2 DEF p5, p4, p3, q3
<1>19. "begin" \notin Ops(Steps(p5))
  BY <1>5, <1>9, <1>10, <1>11, <1>12, <1>17 DEF Ops
<1> QED BY <1>17, <1>18, <1>19 DEF Sofar

\* A command that takes a snapshot and starts a transaction.
LEMMA Opened ==
    ASSUME NEW c, NEW A, NEW m, Numbered(c)
    PROVE  Sofar(c, {}, A, {"snap", "begin"}, A, <<Snap(m), Begin>>)
           /\ Steps(<<Snap(m), Begin>>) = {Snap(m), Begin}
BY SnapBegin DEF Sofar

\* A file of a tree is checked out once a snapshot is taken.
LEMMA FilesPlain ==
    ASSUME NEW c, NEW O, "snap" \in O, NEW A, NEW t, NEW keep
    PROVE  StepPlain(c, O, A, Files(Restrict(t, Present(t)), keep))
<1> DEFINE f == Restrict(t, Present(t))
<1>1. DOMAIN f \subseteq Path
  BY RestrictIs DEF Present
<1> HIDE DEF f
<1>2. StepPlain(c, O, A, Files(f, keep))
  BY <1>1, PlainFiles
<1> QED BY <1>2 DEF f

\* switch.
LEMMA SwitchStarts ==
    ASSUME HistoryInv, StoreInv, NEW c, Now(c), NEW b \in Branch
    PROVE  Starts(c, SwitchPlan(b))
<1> DEFINE t == TreeOf(branch[b])
           O == {"snap", "begin"}
           s1 == Files(Restrict(t, Present(t)), FALSE)
           s2 == Delete(Tracked(index) \ Present(t), TRUE)
           s3 == WriteIndex(checkoutIndex(t))
           s4 == SymbolicHead(b)
           s5 == HeadLog({HeadCommit, branch[b]})
           s6 == End
           q == <<s1, s2, s3, s4, s5, s6>>
           sn == Snap(FALSE)
           p == <<sn, Begin>>
           r == p \o q
<1>1. Numbered(c) /\ c.n = Len(parents) /\ branch[b] \in 0..c.n /\ HeadCommit \in 0..c.n
  BY TreesThere DEF Now, HistoryInv
<1>2. TreeOK(stored, t)
  BY <1>1, TreesThere
<1> HIDE DEF t
<1>3. Sofar(c, {}, stored, O, stored, p) /\ Steps(p) = {sn, Begin}
  BY <1>1, Opened
<1>4. StepPlain(c, O, stored, s1)
  BY FilesPlain
<1>5. StepPlain(c, O, stored, s2)
  <2>1. Tracked(index) \ Present(t) \subseteq Path
    BY DEF Tracked
  <2> QED BY <2>1, PlainDelete
<1>6. StepPlain(c, O, stored, s3)
  BY <1>2, CheckoutOK, PlainIndex
<1>7. StepPlain(c, O, stored, s4) /\ StepPlain(c, O, stored, s6)
  BY PlainSteps
<1>8. StepPlain(c, O, stored, s5)
  <2>1. Known(c.n, O) = c.n
    BY DEF Known
  <2>2. {HeadCommit, branch[b]} \in SUBSET (0..c.n)
    BY <1>1
  <2> QED BY <2>1, <2>2, PlainRefs
<1>9. s6.op = "end"
  BY DEF End
<1>10. SwitchPlan(b) = r
  <2>1. SwitchPlan(b) = <<sn, Begin, s1, s2, s3, s4, s5, s6>>
    BY DEF SwitchPlan, t
  <2> HIDE DEF sn, s1, s2, s3, s4, s5, s6
  <2> QED BY <2>1, Cut
<1> HIDE DEF sn, s1, s2, s3, s4, s5, s6, O, p
<1>11. IsPlan(q) /\ Steps(q) = {s1, s2, s3, s4, s5, s6}
  BY Listed
<1> HIDE DEF q
<1>12. Sofar(c, {}, stored, O, stored, r) /\ Steps(r) = Steps(p) \cup Steps(q)
  <2>1. \A x \in Steps(q) : StepPlain(c, O, stored, x)
    BY <1>4, <1>5, <1>6, <1>7, <1>8, <1>11
  <2> QED BY <1>1, <1>3, <1>11, <2>1, GoesOn
<1> HIDE DEF r
<1>13. "end" \in Ops(Steps(r))
  BY <1>9, <1>11, <1>12 DEF Ops
<1> QED BY <1>10, <1>12, <1>13, Settled DEF Starts, Sofar

\* merge --abort.
LEMMA AbortStarts ==
    ASSUME HistoryInv, StoreInv, NEW c, Now(c)
    PROVE  Starts(c, AbortPlan)
<1> DEFINE t == HeadTree
           O == {"snap", "begin"}
           s1 == Files(Restrict(t, Present(t)), FALSE)
           s2 == Delete(Tracked(index) \ Present(t), TRUE)
           s3 == WriteIndex(checkoutIndex(t))
           s4 == MergeHead(NoCommit, FALSE)
           s5 == Sidecar(NoSidecar, FALSE)
           s6 == End
           q == <<s1, s2, s3, s4, s5, s6>>
           sn == Snap(FALSE)
           p == <<sn, Begin>>
           r == p \o q
<1>1. Numbered(c) /\ NoCommit \in 0..c.n
  BY DEF Now, Numbered, NoCommit
<1>2. TreeOK(stored, t)
  BY <1>1, TreesThere
<1>3. Sofar(c, {}, stored, O, stored, p) /\ Steps(p) = {sn, Begin}
  BY <1>1, Opened
<1>4. StepPlain(c, O, stored, s1)
  BY FilesPlain
<1>5. StepPlain(c, O, stored, s2)
  <2>1. Tracked(index) \ Present(t) \subseteq Path
    BY DEF Tracked
  <2> QED BY <2>1, PlainDelete
<1>6. StepPlain(c, O, stored, s3)
  BY <1>2, CheckoutOK, PlainIndex
<1>7. StepPlain(c, O, stored, s4) /\ StepPlain(c, O, stored, s5)
  BY <1>1, PlainMerge, NoSidecarOK
<1>8. StepPlain(c, O, stored, s6) /\ s6.op = "end"
  BY PlainSteps DEF End
<1>9. AbortPlan = r
  <2>1. AbortPlan = <<sn, Begin, s1, s2, s3, s4, s5, s6>>
    BY DEF AbortPlan
  <2> HIDE DEF sn, s1, s2, s3, s4, s5, s6
  <2> QED BY <2>1, Cut, SMTT(30)
<1> HIDE DEF sn, s1, s2, s3, s4, s5, s6, O, p
<1>10. IsPlan(q) /\ Steps(q) = {s1, s2, s3, s4, s5, s6}
  BY Listed
<1> HIDE DEF q
<1>11. Sofar(c, {}, stored, O, stored, r) /\ Steps(r) = Steps(p) \cup Steps(q)
  <2>1. \A x \in Steps(q) : StepPlain(c, O, stored, x)
    BY <1>4, <1>5, <1>6, <1>7, <1>8, <1>10
  <2> QED BY <1>1, <1>3, <1>10, <2>1, GoesOn
<1> HIDE DEF r
<1>12. "end" \in Ops(Steps(r))
  BY <1>8, <1>10, <1>11 DEF Ops
<1> QED BY <1>9, <1>11, <1>12, Settled DEF Starts, Sofar

\* A fast-forward.
LEMMA FastForwardStarts ==
    ASSUME HistoryInv, StoreInv, NEW c, Now(c), NEW their \in 1..Len(parents)
    PROVE  Starts(c, FastForwardPlan(their))
<1> DEFINE t == TreeOf(their)
           f == Restrict(t, Present(t))
           O == {"snap", "begin"}
           s1 == Files(f, FALSE)
           s2 == WriteIndex(StageAll(index, f))
           s3 == Ref(head, their)
           al == appendReflog(head, HeadCommit, their)
           q == <<s1, s2, s3>>
           sn == Snap(FALSE)
           p == <<sn, Begin>>
           r == p \o q
           e == <<End>>
<1>1. /\ Numbered(c) /\ c.n = Len(parents) /\ their \in 0..c.n /\ their \in 1..c.n
      /\ HeadCommit \in 0..c.n /\ head \in Branch
  BY TreesThere DEF Now, HistoryInv, Numbered
<1>2. TreeOK(stored, t)
  BY <1>1, TreesThere
<1> HIDE DEF t
<1>3. Sofar(c, {}, stored, O, stored, p) /\ Steps(p) = {sn, Begin}
  BY <1>1, Opened
<1>4. StepPlain(c, O, stored, s1)
  BY FilesPlain
<1>5. StepPlain(c, O, stored, s2)
  <2>1. \A x \in Path \cap DOMAIN f : f[x] \in stored \cup {None}
    BY <1>2, RestrictIs DEF TreeOK
  <2>2. IndexOK(stored, index)
    BY DEF StoreInv
  <2> HIDE DEF f
  <2> QED BY <2>1, <2>2, StageOK, PlainIndex
<1>k. Known(c.n, O) = c.n
  BY DEF Known
<1>6. StepPlain(c, O, stored, s3)
  BY <1>1, <1>k, PlainRefs
<1>7. IsPlan(al) /\ \A x \in Steps(al) : StepPlain(c, O, stored, x) /\ x.op \in {"headLog", "log"}
  BY <1>1, <1>k, ReflogPlain
<1>8. StepPlain(c, O, stored, End) /\ End.op = "end" /\ IsPlan(e) /\ Steps(e) = {End}
  BY PlainSteps, Listed DEF End
<1>9. FastForwardPlan(their) = (r \o al) \o e
  <2>1. FastForwardPlan(their) = (<<sn, Begin, s1, s2, s3>> \o al) \o <<End>>
    BY DEF FastForwardPlan, t
  <2> HIDE DEF sn, s1, s2, s3, al
  <2>2. <<sn, Begin, s1, s2, s3>> = r
    BY Cut
  <2> QED BY <2>1, <2>2
<1> HIDE DEF sn, s1, s2, s3, al, O, p, e
<1>10. IsPlan(q) /\ Steps(q) = {s1, s2, s3}
  BY Listed
<1> HIDE DEF q
<1>11. Sofar(c, {}, stored, O, stored, r)
  BY <1>1, <1>3, <1>4, <1>5, <1>6, <1>10, GoesOn
<1> HIDE DEF r
<1> DEFINE u == r \o al
<1>12. Sofar(c, {}, stored, O, stored, u)
  BY <1>1, <1>7, <1>11, GoesOn
<1> HIDE DEF u
<1> DEFINE z == u \o e
<1>13. Sofar(c, {}, stored, O, stored, z) /\ Steps(z) = Steps(u) \cup {End}
  BY <1>1, <1>8, <1>12, GoesOn
<1> HIDE DEF z
<1>14. "end" \in Ops(Steps(z))
  BY <1>8, <1>13 DEF Ops
<1> QED BY <1>9, <1>13, <1>14, Settled DEF Starts, Sofar, z, u

\* A branch without commits takes those of another: the files that are there have to be
\* the same.
LEMMA UnbornStarts ==
    ASSUME HistoryInv, StoreInv, NEW c, Now(c), NEW their \in 1..Len(parents), NEW t, t = TreeOf(their),
           \A q \in Present(t) : q \in c.sec \/ t[q] = c.mine[q]
    PROVE  Starts(c, <<Begin, Files(Restrict(t, Present(t)), FALSE), WriteIndex(checkoutIndex(t)),
                       Ref(head, their)>> \o appendReflog(head, NoCommit, their) \o <<End>>)
<1> DEFINE f == Restrict(t, Present(t))
           O == {} \cup {"begin"}
           s1 == Files(f, FALSE)
           s2 == WriteIndex(checkoutIndex(t))
           s3 == Ref(head, their)
           al == appendReflog(head, NoCommit, their)
           q == <<s1, s2, s3>>
           p == <<Begin>>
           r == p \o q
           e == <<End>>
<1>1. /\ Numbered(c) /\ c.n = Len(parents) /\ their \in 0..c.n /\ their \in 1..c.n
      /\ NoCommit \in 0..c.n /\ head \in Branch
  BY TreesThere DEF Now, HistoryInv, Numbered
<1>2. TreeOK(stored, t)
  BY <1>1, TreesThere
<1>3. Sofar(c, {}, stored, O, stored, p)
  <2>a. StepOK(c, {}, stored, Begin)
    BY BeginOK
  <2>1. PlanOK(c, {}, stored, p) /\ Steps(p) = {Begin}
    BY <2>a, OneOK
  <2>2. Ops({Begin}) = {"begin"}
    BY Kinds DEF Ops
  <2>3. "then" \notin {"begin"} /\ O \subseteq {} \cup {"begin"}
    OBVIOUS
  <2> HIDE DEF p, O
  <2> QED BY <2>1, <2>2, <2>3 DEF Sofar
<1>4. StepPlain(c, O, stored, s1)
  <2>1. DOMAIN f \subseteq Path /\ \A x \in DOMAIN f : x \in c.sec \/ f[x] = c.mine[x]
    BY RestrictIs DEF Present
  <2> HIDE DEF f
  <2> QED BY <2>1, PlainFiles
<1>5. StepPlain(c, O, stored, s2)
  BY <1>2, CheckoutOK, PlainIndex
<1>k. Known(c.n, O) = c.n
  BY DEF Known
<1>6. StepPlain(c, O, stored, s3)
  BY <1>1, <1>k, PlainRefs
<1>7. IsPlan(al) /\ \A x \in Steps(al) : StepPlain(c, O, stored, x) /\ x.op \in {"headLog", "log"}
  BY <1>1, <1>k, ReflogPlain, ZenonT(30)
<1>8. StepPlain(c, O, stored, End) /\ End.op = "end" /\ IsPlan(e) /\ Steps(e) = {End}
  BY PlainSteps, Listed DEF End
<1> HIDE DEF s1, s2, s3, al, O
<1>9. <<Begin, s1, s2, s3>> = r
  BY Cut
<1> HIDE DEF p
<1>10. IsPlan(q) /\ Steps(q) = {s1, s2, s3}
  BY Listed
<1> HIDE DEF q
<1>11. Sofar(c, {}, stored, O, stored, r)
  BY <1>1, <1>3, <1>4, <1>5, <1>6, <1>10, GoesOn
<1> HIDE DEF r, e
<1> DEFINE u == r \o al
<1>12. Sofar(c, {}, stored, O, stored, u)
  BY <1>1, <1>7, <1>11, GoesOn
<1> HIDE DEF u
<1> DEFINE z == u \o e
<1>13. Sofar(c, {}, stored, O, stored, z) /\ Steps(z) = Steps(u) \cup {End}
  BY <1>1, <1>8, <1>12, GoesOn
<1> HIDE DEF z
<1>14. "end" \in Ops(Steps(z))
  BY <1>8, <1>13 DEF Ops
<1>15. Starts(c, z)
  BY <1>13, <1>14, Settled DEF Starts, Sofar
<1>16. z = (<<Begin, s1, s2, s3>> \o al) \o <<End>>
  BY <1>9 DEF z, u, e
<1> QED BY <1>15, <1>16 DEF s1, s2, s3, al

\* A merge commit is stored before the branch names it.
LEMMA ConcludeOK ==
    ASSUME HistoryInv, StoreInv, NEW c, Now(c), NEW O, NEW A, "then" \notin O,
           NEW our \in 1..Len(parents), NEW their \in 1..Len(parents), NEW ix, IndexOK(A, ix), NEW clear \in BOOLEAN
    PROVE  /\ PlanOK(c, O, A, concludeMerge(our, their, ix, clear))
           /\ "end" \in Ops(Steps(concludeMerge(our, their, ix, clear)))
<1> DEFINE new == Len(parents) + 1
           ps == <<our, their>>
           bc == BuildCommit(ps, BuildTree(ix))
           wi == WriteIndex(ix)
           rf == Ref(head, new)
           al == appendReflog(head, our, new)
           m == ClearPlan(clear, FALSE)
           e == <<End>>
<1>1. Numbered(c) /\ c.n = Len(parents) /\ c.n \in Nat
  BY DEF Now, Numbered
<1>2. ps \in Seq(1..c.n)
  BY <1>1
<1> HIDE DEF ps
<1>4. TreeOK(A, BuildTree(ix))
  BY BuildTreeOK
<1>5. StepPlain(c, O, A, bc) /\ bc.op = "commit" /\ Writes(bc) = {}
  BY <1>2, <1>4, PlainCommit DEF BuildCommit, Writes
<1> HIDE DEF bc
<1> DEFINE p1 == <<bc>>
           P == O \cup {bc.op}
<1>6. Sofar(c, O, A, P, A, p1)
  <2>1. Sofar(c, O, A, P, A \cup Writes(bc), p1) /\ A \cup Writes(bc) = A
    BY <1>1, <1>5, GoesOnOne
  <2> QED BY <2>1
<1>7. "commit" \in P
  BY <1>5
<1> HIDE DEF P
<1>8. Known(c.n, P) = c.n + 1 /\ new = c.n + 1 /\ head \in Branch
  BY <1>1, <1>7 DEF Known, HistoryInv
<1>9. StepPlain(c, P, A, rf)
  <2>1. new \in 0..(c.n + 1)
    BY <1>1, <1>8
  <2> QED BY <1>8, <2>1, PlainRefs
<1>10. StepPlain(c, P, A, wi)
  BY PlainIndex
<1>11. IsPlan(al) /\ \A x \in Steps(al) : StepPlain(c, P, A, x)
  <2>1. our \in 0..(c.n + 1) /\ new \in 1..(c.n + 1)
    BY <1>1, <1>8
  <2> HIDE DEF new
  <2> QED BY <1>8, <2>1, ReflogPlain
<1>12. IsPlan(m) /\ \A x \in Steps(m) : StepPlain(c, P, A, x)
  BY <1>1, ClearPlain
<1>13. StepPlain(c, P, A, End) /\ End.op = "end" /\ IsPlan(e) /\ Steps(e) = {End}
  BY PlainSteps, Listed DEF End
<1> HIDE DEF rf, wi, al, m
<1> DEFINE q1 == <<wi>>
           q3 == <<rf>>
<1>14. IsPlan(q1) /\ Steps(q1) = {wi} /\ IsPlan(q3) /\ Steps(q3) = {rf}
  BY Listed
<1> HIDE DEF p1, q1, q3, e
<1> DEFINE p2 == p1 \o q1
<1>15. Sofar(c, O, A, P, A, p2)
  BY <1>1, <1>6, <1>10, <1>14, GoesOn
<1> HIDE DEF p2
<1> DEFINE p3 == p2 \o m
<1>16. Sofar(c, O, A, P, A, p3)
  BY <1>1, <1>12, <1>15, GoesOn
<1> HIDE DEF p3
<1> DEFINE p4 == p3 \o q3
<1>17. Sofar(c, O, A, P, A, p4)
  BY <1>1, <1>9, <1>14, <1>16, GoesOn
<1> HIDE DEF p4
<1> DEFINE p5 == p4 \o al
<1>18. Sofar(c, O, A, P, A, p5)
  BY <1>1, <1>11, <1>17, GoesOn
<1> HIDE DEF p5
<1> DEFINE p6 == p5 \o e
<1>19. Sofar(c, O, A, P, A, p6) /\ Steps(p6) = Steps(p5) \cup {End}
  BY <1>1, <1>13, <1>18, GoesOn
<1> HIDE DEF p6
<1>20. concludeMerge(our, their, ix, clear) = p6
  <2>1. p2 = <<bc, wi>>
    BY Cut DEF p2, p1, q1
  <2>2. concludeMerge(our, their, ix, clear) = (((<<bc, wi>> \o m) \o <<rf>>) \o al) \o <<End>>
    BY DEF concludeMerge, bc, rf, al, wi, m, ps, ClearPlan
  <2> QED BY <2>1, <2>2 DEF p6, p5, p4, p3, q3, e
<1>21. "end" \in Ops(Steps(p6))
  BY <1>13, <1>19 DEF Ops
<1> QED BY <1>19, <1>20, <1>21 DEF Sofar

\* A merge that has nothing to take.
LEMMA UpToDateStarts ==
    ASSUME HistoryInv, StoreInv, NEW c, Now(c), NEW their \in 1..Len(parents), HeadCommit # NoCommit
    PROVE  Starts(c, UpToDatePlan(their))
<1> DEFINE sn == Snap(FALSE)
           p == <<sn, Begin>>
           q == concludeMerge(HeadCommit, their, index, FALSE)
           O == {} \cup Ops(Steps(p))
           A == stored \cup Wrote(Steps(p))
<1>1. Numbered(c) /\ HeadCommit \in 1..Len(parents)
  BY TreesThere DEF Now
<1>2. Sofar(c, {}, stored, {"snap", "begin"}, stored, p)
  BY <1>1, Opened
<1>3. PlanOK(c, {}, stored, p) /\ "then" \notin O
  BY <1>2 DEF Sofar
<1>4. IndexOK(A, index)
  BY IndexGrows DEF StoreInv
<1>5. PlanOK(c, O, A, q) /\ "end" \in Ops(Steps(q))
  <2> HIDE DEF O, A
  <2> QED BY <1>1, <1>3, <1>4, ConcludeOK
<1>6. UpToDatePlan(their) = p \o q
  BY DEF UpToDatePlan
<1> HIDE DEF q, p
<1>7. PlanOK(c, {}, stored, p \o q) /\ Steps(p \o q) = Steps(p) \cup Steps(q)
  <2>1. PlanOK(c, {} \cup Ops(Steps(p)), stored \cup Wrote(Steps(p)), q)
    BY <1>5
  <2>2. PlanOK(c, {}, stored, p)
    BY <1>3
  <2> HIDE DEF O, A
  <2> QED BY <2>1, <2>2, CatOK, SMTT(30)
<1>8. "end" \in Ops(Steps(p \o q))
  BY <1>5, <1>7 DEF Ops
<1> QED BY <1>6, <1>7, <1>8, Settled DEF Starts

\* What is left of a merge with conflicts: the index, the record, and the policy.
LEMMA LeftOK ==
    ASSUME NEW c, Numbered(c), NEW O, NEW A, "then" \notin O, "snap" \in O,
           NEW ix, IndexOK(A, ix), NEW sc, SidecarOK(A, sc), NEW policy, NEW left
    PROVE  LET p == <<WriteIndex(ix), Sidecar(sc, TRUE), End, Then([name |-> "policy", by |-> policy, of |-> left])>>
           IN  PlanOK(c, O, A, p) /\ "end" \in Ops(Steps(p))
<1> DEFINE a == WriteIndex(ix)
           b == Sidecar(sc, TRUE)
           th == Then([name |-> "policy", by |-> policy, of |-> left])
           p == <<a, b, End>>
           q == <<th>>
           P == O \cup Ops(Steps(p))
           B == A \cup Wrote(Steps(p))
<1>1. StepPlain(c, O, A, a) /\ StepPlain(c, O, A, b) /\ StepPlain(c, O, A, End)
  BY PlainIndex, PlainMerge, PlainSteps
<1> HIDE DEF a, b
<1>2. IsPlan(p) /\ Steps(p) = {a, b, End}
  BY Listed
<1> HIDE DEF p
<1>3. PlanOK(c, O, A, p)
  BY <1>1, <1>2, PlainOK
<1>4. StepOK(c, P, B, th)
  <2> DEFINE call == [name |-> "policy", by |-> policy, of |-> left]
  <2>1. call.name \in Handovers /\ "snap" \in P
    BY DEF Handovers
  <2> HIDE DEF call, P, B
  <2>2. StepOK(c, P, B, Then(call))
    BY <2>1, ThenOK
  <2> QED BY <2>2 DEF call
<1> HIDE DEF th
<1>5. PlanOK(c, P, B, q)
  <2> HIDE DEF P, B
  <2> QED BY <1>4, OneOK
<1> HIDE DEF q
<1>6. PlanOK(c, O, A, p \o q) /\ Steps(p \o q) = Steps(p) \cup Steps(q)
  <2>1. P = O \cup Ops(Steps(p)) /\ B = A \cup Wrote(Steps(p))
    OBVIOUS
  <2> HIDE DEF P, B
  <2> QED BY <1>3, <1>5, <2>1, Follows
<1>7. "end" \in Ops(Steps(p \o q))
  BY <1>2, <1>6, Kinds DEF Ops
<1>8. p \o q = <<a, b, End, th>>
  <2>1. \A x, y, z, u : <<x, y, z, u>> = <<x, y, z>> \o <<u>>
    BY Cut
  <2> QED BY <2>1 DEF p, q
<1> QED BY <1>6, <1>7, <1>8 DEF a, b, th

\* The conflicts rendered again, with what to do when that fails, and what comes then.
RefineStep(bt, ot, tt, ix, conflicts, refined) ==
    [op |-> "files", todo |-> refined, keep |-> TRUE, soft |-> FALSE,
     orelse |-> [conflicts |-> conflicts, bt |-> bt, ot |-> ot, tt |-> tt,
                 before |-> ix, after |-> StageAll(ix, refined)]]
Refined(bt, ot, tt, ix2, left, our, their, policy) ==
    IF left = {} THEN concludeMerge(our, their, ix2, TRUE)
    ELSE <<WriteIndex(ix2), Sidecar(ConflictState(bt, ot, tt, left, ix2), TRUE), End,
           Then([name |-> "policy", by |-> policy, of |-> left])>>

\* The files of the conflicts may be written once a snapshot is taken.
LEMMA RefinedPlain ==
    ASSUME NEW c, NEW O, NEW A, "snap" \in O, NEW bt, NEW ot, NEW tt,
           TreeOK(A, bt), TreeOK(A, ot), TreeOK(A, tt), NEW ix, IndexOK(A, ix), NEW conflicts \in SUBSET Path,
           NEW refined, DOMAIN refined \subseteq Path, NEW w, w = RefineStep(bt, ot, tt, ix, conflicts, refined)
    PROVE  StepPlain(c, O, A, w)
<1> DEFINE ix2 == StageAll(ix, refined)
           f == [conflicts |-> conflicts, bt |-> bt, ot |-> ot, tt |-> tt, before |-> ix, after |-> ix2]
<1>0. w = [op |-> "files", todo |-> refined, keep |-> TRUE, soft |-> FALSE, orelse |-> f]
  BY DEF RefineStep
<1>1. ASSUME NEW q \in Path
      PROVE  /\ EntryOK(ix2[q])
             /\ q \notin DOMAIN refined => ix2[q].blob \in A \cup {None}
             /\ q \in DOMAIN refined => ix2[q].blob \in {refined[q], None}
  <2>1. ix2[q] = IF q \notin DOMAIN refined THEN ix[q]
                 ELSE IF refined[q] = None THEN Untracked ELSE Staged(ix, q, refined[q])
    BY DEF StageAll
  <2>2. CASE q \notin DOMAIN refined
    BY <2>1, <2>2 DEF IndexOK
  <2>3. CASE q \in DOMAIN refined /\ refined[q] = None
    BY <2>1, <2>3, UntrackedOK
  <2>4. CASE q \in DOMAIN refined /\ refined[q] # None
    <3>1. EntryOK(Staged(ix, q, refined[q])) /\ Staged(ix, q, refined[q]).blob = refined[q]
      BY <2>4, EntryMade DEF Staged
    <3> QED BY <2>1, <2>4, <3>1
  <2> QED BY <2>2, <2>3, <2>4
<1> HIDE DEF ix2
<1>2. /\ f.conflicts = conflicts /\ f.bt = bt /\ f.ot = ot /\ f.tt = tt /\ f.before = ix /\ f.after = ix2
  OBVIOUS
<1> HIDE DEF f
<1>3. FallbackOK(A, refined, f)
  BY <1>1, <1>2 DEF FallbackOK
<1>4. w.op = "files" /\ w.todo = refined /\ w.keep /\ ~w.soft /\ w.orelse = f
  BY <1>0
<1>5. FilesForm(w)
  BY <1>0 DEF FilesForm
<1> QED BY <1>3, <1>4, <1>5 DEF StepPlain, StepTyped, StepStored, StepGuarded

RefinePlan(bt, ot, tt, ix, conflicts, left, refined, our, their, policy) ==
    <<MergeHead(their, FALSE), RefineStep(bt, ot, tt, ix, conflicts, refined)>>
    \o Refined(bt, ot, tt, StageAll(ix, refined), left, our, their, policy)

\* What such a plan needs.
Refinable(O, A, bt, ot, tt, ix, conflicts, left, refined) ==
    /\ "then" \notin O /\ "snap" \in O
    /\ TreeOK(A, bt) /\ TreeOK(A, ot) /\ TreeOK(A, tt) /\ IndexOK(A, ix)
    /\ conflicts \in SUBSET Path /\ left \in SUBSET Path /\ DOMAIN refined \subseteq Path

\* The rest of a merge once conflicts are rendered again.
LEMMA RefineOK ==
    ASSUME HistoryInv, StoreInv, NEW c, Now(c), NEW O, NEW A, NEW bt, NEW ot, NEW tt, NEW ix,
           NEW conflicts, NEW left, NEW refined, Refinable(O, A, bt, ot, tt, ix, conflicts, left, refined),
           NEW our \in 1..Len(parents), NEW their \in 1..Len(parents), NEW policy,
           NEW z, z = RefinePlan(bt, ot, tt, ix, conflicts, left, refined, our, their, policy)
    PROVE  PlanOK(c, O, A, z) /\ "end" \in Ops(Steps(z))
<1> DEFINE ix2 == StageAll(ix, refined)
           mh == MergeHead(their, FALSE)
           w == RefineStep(bt, ot, tt, ix, conflicts, refined)
           q == Refined(bt, ot, tt, ix2, left, our, their, policy)
           sc == ConflictState(bt, ot, tt, left, ix2)
           r1 == concludeMerge(our, their, ix2, TRUE)
           r2 == <<WriteIndex(ix2), Sidecar(sc, TRUE), End, Then([name |-> "policy", by |-> policy, of |-> left])>>
           p == <<mh, w>>
           P == O \cup Ops(Steps(p))
           B == A \cup Wrote(Steps(p))
<1>0. /\ "then" \notin O /\ "snap" \in O
      /\ TreeOK(A, bt) /\ TreeOK(A, ot) /\ TreeOK(A, tt) /\ IndexOK(A, ix)
      /\ conflicts \in SUBSET Path /\ left \in SUBSET Path /\ DOMAIN refined \subseteq Path
  BY DEF Refinable
<1>1. Numbered(c) /\ their \in 0..c.n
  BY DEF Now, Numbered
<1>2. StepPlain(c, O, A, w) /\ Writes(w) = {refined[x] : x \in DOMAIN refined} /\ w.op = "files"
  <2>1. StepPlain(c, O, A, w)
    BY <1>0, RefinedPlain
  <2>2. Writes(w) = {refined[x] : x \in DOMAIN refined} /\ w.op = "files"
    BY DEF RefineStep, Writes
  <2> QED BY <2>1, <2>2
<1>3. StepPlain(c, O, A, mh) /\ mh.op = "mergeHead"
  <2>1. mh.op = "mergeHead"
    BY DEF MergeHead
  <2>2. StepPlain(c, O, A, mh)
    BY <1>1, PlainMerge
  <2> QED BY <2>1, <2>2
<1> HIDE DEF mh, w
<1>4. IsPlan(p) /\ Steps(p) = {mh, w}
  BY Listed
<1> HIDE DEF p
<1>5. PlanOK(c, O, A, p)
  BY <1>0, <1>1, <1>2, <1>3, <1>4, PlainOK
<1>6. "then" \notin P /\ "snap" \in P /\ A \subseteq B /\ \A x \in DOMAIN refined : refined[x] \in B
  <2>1. Ops(Steps(p)) = {"mergeHead", "files"}
    BY <1>2, <1>3, <1>4 DEF Ops
  <2>2. Writes(w) \subseteq Wrote(Steps(p))
    BY <1>4 DEF Wrote
  <2> QED BY <1>0, <1>2, <2>1, <2>2
<1> HIDE DEF P, B
<1>7. IndexOK(B, ix2)
  <2>1. IndexOK(B, ix)
    BY <1>0, <1>6, IndexGrows
  <2> QED BY <1>0, <1>6, <2>1, StageOK
<1>8. SidecarOK(B, sc)
  <2>1. TreeOK(B, bt) /\ TreeOK(B, ot) /\ TreeOK(B, tt)
    BY <1>0, <1>6, TreeGrows
  <2> HIDE DEF ix2
  <2> QED BY <1>0, <2>1, ConflictStateOK
<1> HIDE DEF sc, ix2
<1>9. PlanOK(c, P, B, r1) /\ "end" \in Ops(Steps(r1))
  BY <1>6, <1>7, ConcludeOK
<1>10. PlanOK(c, P, B, r2) /\ "end" \in Ops(Steps(r2))
  BY <1>1, <1>6, <1>7, <1>8, LeftOK
<1>11. PlanOK(c, P, B, q) /\ "end" \in Ops(Steps(q))
  <2>1. q = IF left = {} THEN r1 ELSE r2
    BY DEF sc, Refined
  <2> HIDE DEF r1, r2
  <2> QED BY <1>9, <1>10, <2>1
<1> HIDE DEF q
<1>12. P = O \cup Ops(Steps(p)) /\ B = A \cup Wrote(Steps(p))
  BY DEF P, B
<1>13. PlanOK(c, O, A, p \o q) /\ Steps(p \o q) = Steps(p) \cup Steps(q)
  <2>1. PlanOK(c, O, A, p \o q)
    BY <1>5, <1>11, <1>12, Follows
  <2> QED BY <1>5, <1>11, <2>1, PlanJoin DEF PlanOK
<1>14. "end" \in Ops(Steps(p \o q))
  BY <1>11, <1>13 DEF Ops
<1>15. z = p \o q
  BY DEF RefinePlan, p, q, mh, w, ix2
<1> QED BY <1>13, <1>14, <1>15

\* A merge of two histories.
LEMMA MergeStarts ==
    ASSUME HistoryInv, StoreInv, NEW c, Now(c), NEW bt, NEW ot, NEW tt,
           TreeOK(stored, bt), TreeOK(stored, ot), TreeOK(stored, tt), NEW step, NEW again,
           HeadCommit # NoCommit, NEW their \in 1..Len(parents), NEW policy
    PROVE  Starts(c, MergePlan(bt, ot, tt, step, again, their, policy))
<1> DEFINE conflicts == {p \in Path : step[p].conflict}
           left == {p \in conflicts : ~again[p].settled}
           hung == {p \in Path : step[p].act = "hang"}
           Written(s, ps) == [p \in {x \in ps : s[x].act = "write"} |-> s[p].blob]
           engine == Written(step, Path)
           gone == {p \in DOMAIN engine : engine[p] = None}
           refined == Written(again, conflicts)
           ix == StageAll(index, engine)
           f == Restrict(engine, DOMAIN engine \ gone)
           s1 == Files(f, TRUE)
           s2 == Delete(gone, TRUE)
           sn == Snap(FALSE)
           p0 == <<sn, Begin>>
           p1 == <<s1, s2>>
           p == p0 \o p1
           hs == [op |-> "hang", soft |-> FALSE]
           r1 == <<hs>>
           r2 == concludeMerge(HeadCommit, their, ix, FALSE)
           r3 == RefinePlan(bt, ot, tt, ix, conflicts, left, refined, HeadCommit, their, policy)
           q == IF hung # {} THEN r1 ELSE IF conflicts = {} THEN r2 ELSE r3
           O == {"snap", "begin"}
           P == {} \cup Ops(Steps(p))
           A == stored \cup Wrote(Steps(p))
<1>1. Numbered(c) /\ HeadCommit \in 1..Len(parents)
  BY TreesThere DEF Now
<1>2. MergePlan(bt, ot, tt, step, again, their, policy) = <<sn, Begin, s1, s2>> \o q
  BY DEF MergePlan, RefinePlan, RefineStep, Refined
<1>3. DOMAIN engine \subseteq Path /\ gone \subseteq DOMAIN engine
      /\ conflicts \in SUBSET Path /\ left \in SUBSET Path /\ DOMAIN refined \subseteq Path
  OBVIOUS
<1> HIDE DEF engine, refined, conflicts, left, hung
<1>4. DOMAIN f \subseteq Path /\ gone \subseteq Path /\ \A x \in DOMAIN engine : engine[x] = None \/ (x \in DOMAIN f /\ f[x] = engine[x])
  BY <1>3, RestrictIs
<1> HIDE DEF gone, f
<1>5. StepPlain(c, O, stored, s1) /\ StepPlain(c, O, stored, s2)
  BY <1>4, PlainFiles, PlainDelete
<1>6. s1.op = "files" /\ Writes(s1) = {f[x] : x \in DOMAIN f} /\ s2.op = "delete"
  BY DEF Files, Delete, Writes
<1>7. Sofar(c, {}, stored, O, stored, p0)
  BY <1>1, Opened
<1> HIDE DEF s1, s2, sn, O
<1>8. <<sn, Begin, s1, s2>> = p
  BY Cut, SMTT(30)
<1>9. IsPlan(p1) /\ Steps(p1) = {s1, s2}
  BY Listed
<1> HIDE DEF p0, p1
<1>10. Sofar(c, {}, stored, O, stored, p) /\ Steps(p) = Steps(p0) \cup {s1, s2}
  BY <1>1, <1>5, <1>7, <1>9, GoesOn
<1> HIDE DEF p
<1>11. PlanOK(c, {}, stored, p) /\ "then" \notin P /\ "snap" \in P /\ stored \subseteq A /\ Writes(s1) \subseteq A
  BY <1>10 DEF Sofar, O, Wrote
<1> HIDE DEF P, A
<1>12. IndexOK(A, ix)
  <2>1. IndexOK(A, index)
    BY <1>11, IndexGrows DEF StoreInv
  <2>2. \A x \in Path \cap DOMAIN engine : engine[x] \in A \cup {None}
    BY <1>4, <1>6, <1>11
  <2> QED BY <2>1, <2>2, StageOK
<1>13. TreeOK(A, bt) /\ TreeOK(A, ot) /\ TreeOK(A, tt)
  BY <1>11, TreeGrows
<1> HIDE DEF ix
<1>14. PlanOK(c, P, A, r1) /\ "hang" \in Ops(Steps(r1))
  <2>1. StepOK(c, P, A, hs)
    BY <1>11 DEF StepOK, StepTyped, StepStored, StepOrdered, StepGuarded, Hard
  <2>2. hs.op = "hang"
    OBVIOUS
  <2> HIDE DEF hs
  <2>3. PlanOK(c, P, A, <<hs>>) /\ Steps(<<hs>>) = {hs}
    BY <2>1, OneOK
  <2> QED BY <2>2, <2>3 DEF Ops
<1>15. PlanOK(c, P, A, r2) /\ "end" \in Ops(Steps(r2))
  BY <1>1, <1>11, <1>12, ConcludeOK
<1>16. PlanOK(c, P, A, r3) /\ "end" \in Ops(Steps(r3))
  <2>1. Refinable(P, A, bt, ot, tt, ix, conflicts, left, refined)
    BY <1>3, <1>11, <1>12, <1>13 DEF Refinable
  <2> QED BY <1>1, <2>1, RefineOK
<1> HIDE DEF r1, r2, r3
<1>17. PlanOK(c, P, A, q) /\ ("end" \in Ops(Steps(q)) \/ "hang" \in Ops(Steps(q)))
  BY <1>14, <1>15, <1>16
<1> HIDE DEF q
<1>18. P = {} \cup Ops(Steps(p)) /\ A = stored \cup Wrote(Steps(p))
  BY DEF P, A
<1>19. PlanOK(c, {}, stored, p \o q) /\ Steps(p \o q) = Steps(p) \cup Steps(q)
  <2>1. PlanOK(c, {}, stored, p \o q)
    BY <1>11, <1>17, <1>18, Follows
  <2>2. IsPlan(p) /\ IsPlan(q)
    BY <1>11, <1>17 DEF PlanOK
  <2> QED BY <2>1, <2>2, PlanJoin
<1>20. "end" \in Ops(Steps(p \o q)) \/ "hang" \in Ops(Steps(p \o q))
  BY <1>17, <1>19 DEF Ops
<1> QED BY <1>2, <1>8, <1>19, <1>20, Settled DEF Starts

\* A resolution writes the files and stores them before the index and the record name them.
LEMMA RestageStarts ==
    ASSUME StoreInv, NEW c, Now(c), NEW f, DOMAIN f \subseteq Path, DOMAIN f \subseteq c.sec,
           NEW s, SidecarOK(stored, s)
    PROVE  PlanOK(c, {}, stored, RestagePlan(f, s)) /\ "begin" \notin Ops(Steps(RestagePlan(f, s)))
<1> DEFINE gone == {p \in DOMAIN f : f[p] = None}
           g == Restrict(f, DOMAIN f \ gone)
           ix == Restaged(index, f)
           s1 == Files(g, TRUE)
           s2 == Delete(gone, FALSE)
           s3 == WriteIndex(ix)
           s4 == Sidecar(s, FALSE)
           m == IF s.on THEN <<s4>> ELSE << >>
           p == <<s1>>
           q == <<s2, s3>>
           O == {} \cup {s1.op}
           A == stored \cup Writes(s1)
<1>1. Numbered(c)
  BY DEF Now
<1>2. RestagePlan(f, s) = <<s1, s2, s3>> \o m
  BY DEF RestagePlan
<1>3. /\ DOMAIN g \subseteq Path /\ gone \subseteq Path /\ gone \subseteq c.sec
      /\ \A x \in DOMAIN g : x \in c.sec
      /\ \A x \in DOMAIN f : f[x] = None \/ (x \in DOMAIN g /\ g[x] = f[x])
  BY RestrictIs
<1> HIDE DEF gone, g
<1>4. StepPlain(c, {}, stored, s1) /\ s1.op = "files" /\ Writes(s1) = {g[x] : x \in DOMAIN g}
  <2>1. StepPlain(c, {}, stored, s1)
    BY <1>3, PlainFiles
  <2>2. s1.op = "files" /\ Writes(s1) = {g[x] : x \in DOMAIN g}
    BY DEF Files, Writes
  <2> QED BY <2>1, <2>2
<1> HIDE DEF s1
<1>5. Sofar(c, {}, stored, O, A, p) /\ Steps(p) = {s1}
  BY <1>1, <1>4, GoesOnOne
<1>6. stored \subseteq A /\ \A x \in DOMAIN f : f[x] \in A \cup {None}
  BY <1>3, <1>4
<1> HIDE DEF O, A
<1>7. StepPlain(c, O, A, s2) /\ s2.op = "delete"
  <2>1. s2.op = "delete"
    BY DEF Delete
  <2> QED BY <1>3, <2>1, PlainDelete
<1>8. StepPlain(c, O, A, s3) /\ s3.op = "index"
  <2>1. IndexOK(A, index)
    BY <1>6, IndexGrows DEF StoreInv
  <2>2. IndexOK(A, ix)
    BY <1>6, <2>1, RestageOK
  <2> HIDE DEF ix
  <2> QED BY <2>2, PlainIndex DEF WriteIndex
<1>9. StepPlain(c, O, A, s4) /\ s4.op = "sidecar"
  <2>1. SidecarOK(A, s)
    BY <1>6, SidecarGrows
  <2>2. s4.op = "sidecar"
    BY DEF Sidecar
  <2>3. StepPlain(c, O, A, s4)
    BY <2>1, PlainMerge
  <2> QED BY <2>2, <2>3
<1> HIDE DEF s2, s3, s4
<1>10. IsPlan(q) /\ Steps(q) = {s2, s3}
  BY Listed
<1>11. IsPlan(m) /\ Steps(m) \subseteq {s4}
  BY Listed
<1>12. <<s1, s2, s3>> = p \o q
  BY Cut, SMTT(30)
<1> HIDE DEF p, q, m
<1> DEFINE r == p \o q
<1>13. Sofar(c, {}, stored, O, A, r) /\ Steps(r) = Steps(p) \cup Steps(q)
  BY <1>1, <1>5, <1>7, <1>8, <1>10, GoesOn
<1> HIDE DEF r
<1> DEFINE z == r \o m
<1>14. Sofar(c, {}, stored, O, A, z) /\ Steps(z) = Steps(r) \cup Steps(m)
  <2>1. \A x \in Steps(m) : StepPlain(c, O, A, x)
    BY <1>9, <1>11
  <2> QED BY <1>1, <1>11, <1>13, <2>1, GoesOn
<1>15. RestagePlan(f, s) = z
  BY <1>2, <1>12 DEF r
<1> HIDE DEF z
<1>16. "begin" \notin Ops(Steps(z))
  BY <1>4, <1>5, <1>7, <1>8, <1>9, <1>10, <1>11, <1>13, <1>14 DEF Ops
<1> QED BY <1>14, <1>15, <1>16 DEF Sofar

\* resolve.
LEMMA ResolveStarts ==
    ASSUME StoreInv, NEW c, Now(c), NEW strat, NEW ps, ps \cap Path \subseteq c.sec
    PROVE  /\ PlanOK(c, {}, stored, RunResolve(strat, ps))
           /\ "begin" \notin Ops(Steps(RunResolve(strat, ps)))
<1> DEFINE r == [p \in ps \cap DOMAIN sidecar.entries |-> resolved(sidecar.entries[p], strat)]
           written == {p \in DOMAIN r : r[p].act = "write"}
           f == [p \in written |-> r[p].blob]
           done == [p \in written |-> r[p].settled]
           s == SetResolved(sidecar, written, done)
           h == [p \in LegacyFiles(ps) |-> Legacy(work[p], strat)]
<1>1. SidecarOK(stored, sidecar) /\ DOMAIN sidecar.entries \subseteq Path
  BY DEF StoreInv, SidecarOK
<1>2. DOMAIN f \subseteq ps \cap Path
  BY <1>1
<1>3. DOMAIN h \subseteq ps \cap Path
  BY DEF LegacyFiles, Live
<1>4. \/ RunResolve(strat, ps) = RestagePlan(f, s) \/ RunResolve(strat, ps) = RestagePlan(h, NoSidecar)
      \/ RunResolve(strat, ps) = << >>
  BY DEF RunResolve, resolveFromSidecar, resolveLegacy
<1> HIDE DEF f, h, done, written
<1>5. SidecarOK(stored, s) /\ SidecarOK(stored, NoSidecar)
  BY <1>1, ResolvedOK, NoSidecarOK
<1> HIDE DEF s
<1>6. PlanOK(c, {}, stored, RestagePlan(f, s)) /\ "begin" \notin Ops(Steps(RestagePlan(f, s)))
  BY <1>2, <1>5, RestageStarts
<1>7. PlanOK(c, {}, stored, RestagePlan(h, NoSidecar)) /\ "begin" \notin Ops(Steps(RestagePlan(h, NoSidecar)))
  BY <1>3, <1>5, RestageStarts
<1>8. PlanOK(c, {}, stored, << >>) /\ "begin" \notin Ops(Steps(<< >>))
  BY NoPlanOK DEF Ops
<1> QED BY <1>4, <1>6, <1>7, <1>8

\* What a session makes of one file.
LEMMA ChosenStarts ==
    ASSUME StoreInv, NEW c, Now(c), NEW p \in DOMAIN sidecar.entries, p \in c.sec, NEW d
    PROVE  PlanOK(c, {}, stored, Chosen(p, d)) /\ "begin" \notin Ops(Steps(Chosen(p, d)))
<1> DEFINE f == [q \in {p} |-> d.blob]
           s == SetResolved(sidecar, {p}, [q \in {p} |-> d.left = 0])
<1>1. SidecarOK(stored, s)
  BY ResolvedOK DEF StoreInv
<1>2. DOMAIN f = {p} /\ {p} \subseteq Path /\ {p} \subseteq c.sec
  BY DEF StoreInv, SidecarOK
<1>3. Chosen(p, d) = RestagePlan(f, s)
  BY DEF Chosen
<1> HIDE DEF f, s
<1> QED BY <1>1, <1>2, <1>3, RestageStarts

\* A merge that is continued.
LEMMA ContinueStarts ==
    ASSUME HistoryInv, StoreInv, NEW c, Now(c)
    PROVE  PlanOK(c, {}, stored, RunMergeContinue) /\ "begin" \notin Ops(Steps(RunMergeContinue))
<1>1. RunMergeContinue = CommitPlan \/ RunMergeContinue = << >>
  BY DEF RunMergeContinue
<1>2. PlanOK(c, {}, stored, << >>) /\ "begin" \notin Ops(Steps(<< >>))
  BY NoPlanOK DEF Ops
<1> QED BY <1>1, <1>2, CommitStarts

\* A step that only hands over.
IsThen(w) == w.op = "then" /\ ~w.soft /\ w.call.name \in Handovers

\* A plan of such steps is in order anywhere once every edit is safe.
LEMMA ThensOK ==
    ASSUME NEW c, Path \subseteq c.sec, NEW O, NEW A, NEW p, IsPlan(p), \A x \in Steps(p) : IsThen(x)
    PROVE  PlanOK(c, O, A, p)
<1>1. ASSUME NEW P, NEW B, NEW x \in Steps(p) PROVE StepOK(c, P, B, x)
  <2>1. IsThen(x)
    OBVIOUS
  <2> QED BY <2>1 DEF IsThen, StepOK, StepTyped, StepStored, StepOrdered, StepGuarded, Hard
<1> QED BY <1>1 DEF PlanOK, Steps

\* The policy of a merge hands over to resolve and to what is left.
LEMMA PolicyStarts ==
    ASSUME NEW c, Path \subseteq c.sec, NEW policy, NEW conflicts
    PROVE  /\ PlanOK(c, {}, stored, applyMergePolicy(policy, conflicts))
           /\ "begin" \notin Ops(Steps(applyMergePolicy(policy, conflicts)))
<1> DEFINE Of(s) == {p \in conflicts : policy.by[p] = s}
           By(s) == IF Of(s) = {} THEN << >> ELSE <<Then([name |-> "resolve", strat |-> s, paths |-> Of(s)])>>
           b1 == By("ours")
           b2 == By("theirs")
           b3 == By("union")
           th == Then([name |-> "continue", ask |-> policy.ask])
           b4 == <<th>>
           Good(p) == IsPlan(p) /\ \A x \in Steps(p) : IsThen(x)
<1>1. ASSUME NEW s PROVE Good(By(s))
  <2> DEFINE ps == Of(s)
             x == Then([name |-> "resolve", strat |-> s, paths |-> ps])
  <2>1. By(s) = << >> \/ By(s) = <<x>>
    OBVIOUS
  <2> HIDE DEF ps
  <2>2. IsThen(x)
    BY DEF IsThen, Then, Handovers
  <2> HIDE DEF x, By
  <2> QED BY <2>1, <2>2, Listed
<1>2. Good(b4)
  <2>1. IsThen(th)
    BY DEF IsThen, Then, Handovers
  <2> HIDE DEF th
  <2> QED BY <2>1, Listed
<1>3. ASSUME NEW p, NEW q, Good(p), Good(q) PROVE Good(p \o q)
  BY <1>3, PlanJoin
<1>4. Good(b1) /\ Good(b2) /\ Good(b3)
  <2> HIDE DEF Good, By
  <2> QED BY <1>1
<1> DEFINE b == (b1 \o b2) \o b3
<1>5. applyMergePolicy(policy, conflicts) = IF b = << >> /\ ~policy.ask THEN << >> ELSE b \o b4
  BY DEF applyMergePolicy
<1>6. Good(<< >>)
  BY Listed
<1> HIDE DEF b1, b2, b3, b4
<1>7. Good(b \o b4)
  <2> HIDE DEF Good
  <2>1. Good(b1 \o b2)
    BY <1>3, <1>4
  <2>2. Good((b1 \o b2) \o b3)
    BY <1>3, <1>4, <2>1
  <2> QED BY <1>2, <1>3, <2>2
<1> DEFINE z == applyMergePolicy(policy, conflicts)
<1>8. Good(z)
  <2> HIDE DEF Good, b
  <2> QED BY <1>5, <1>6, <1>7
<1> HIDE DEF z
<1>9. PlanOK(c, {}, stored, z)
  BY <1>8, ThensOK
<1>10. "begin" \notin Ops(Steps(z))
  BY <1>8 DEF Ops, IsThen
<1> QED BY <1>9, <1>10 DEF z

\* The answers of a session, each followed by the rest of the session or by nothing.
LEMMA AskStarts ==
    ASSUME HistoryInv, StoreInv, NEW c, Now(c), Path \subseteq c.sec, NEW todo, NEW z \in AskPlans(todo)
    PROVE  PlanOK(c, {}, stored, z) /\ "begin" \notin Ops(Steps(z))
<1> DEFINE asked == todo \cap UnresolvedPaths(sidecar)
           Answers(p) == {RestagePlan(<< >>, sidecar)} \cup {Chosen(p, d) : d \in Offered(p)}
           Goes(p) == {<< >>, <<Then([name |-> "ask", todo |-> todo \ {p}])>>}
           Good(p) == PlanOK(c, {}, stored, p) /\ "begin" \notin Ops(Steps(p))
<1>1. Good(<< >>)
  BY NoPlanOK DEF Ops
<1>2. Good(RunMergeContinue)
  BY ContinueStarts
<1>3. ASSUME NEW p \in asked, NEW a \in Answers(p), NEW g \in Goes(p) PROVE Good(a \o g)
  <2>1. p \in DOMAIN sidecar.entries /\ p \in c.sec
    BY DEF UnresolvedPaths, StoreInv, SidecarOK
  <2>2. Good(a)
    <3>1. CASE a = RestagePlan(<< >>, sidecar)
      <4>1. DOMAIN << >> = {} /\ SidecarOK(stored, sidecar)
        BY DEF StoreInv
      <4>2. Good(RestagePlan(<< >>, sidecar))
        BY <4>1, RestageStarts
      <4> QED BY <3>1, <4>2
    <3>2. CASE a \in {Chosen(p, d) : d \in Offered(p)}
      <4>1. PICK d \in Offered(p) : a = Chosen(p, d)
        BY <3>2
      <4> QED BY <2>1, <4>1, ChosenStarts
    <3> QED BY <3>1, <3>2
  <2>3. IsPlan(g) /\ \A x \in Steps(g) : IsThen(x)
    <3> DEFINE t == todo \ {p}
               x == Then([name |-> "ask", todo |-> t])
    <3>1. g = << >> \/ g = <<x>>
      OBVIOUS
    <3> HIDE DEF t
    <3>2. IsThen(x)
      BY DEF IsThen, Then, Handovers
    <3> HIDE DEF x
    <3> QED BY <3>1, <3>2, Listed
  <2> DEFINE P == {} \cup Ops(Steps(a))
             B == stored \cup Wrote(Steps(a))
  <2>4. P = {} \cup Ops(Steps(a)) /\ B = stored \cup Wrote(Steps(a)) /\ PlanOK(c, {}, stored, a)
    BY <2>2
  <2> HIDE DEF P, B, Answers, Goes, asked
  <2>5. PlanOK(c, P, B, g)
    BY <2>3, ThensOK
  <2>6. PlanOK(c, {}, stored, a \o g)
    BY <2>4, <2>5, Follows
  <2>7. Steps(a \o g) = Steps(a) \cup Steps(g)
    BY <2>3, <2>4, PlanJoin DEF PlanOK
  <2>8. "begin" \notin Ops(Steps(a \o g))
    BY <2>2, <2>3, <2>7 DEF Ops, IsThen
  <2> QED BY <2>6, <2>8
<1>4. ASSUME NEW p \in asked, z \in AnswerPlans(todo, p) PROVE Good(z)
  <2> HIDE DEF asked, Good
  <2>1. PICK a \in Answers(p), g \in Goes(p) : z = a \o g
    BY <1>4 DEF AnswerPlans
  <2> QED BY <1>3, <2>1
<1>5. z \in IF asked = {} THEN {<< >>, RunMergeContinue} ELSE UNION {AnswerPlans(todo, p) : p \in asked}
  BY DEF AskPlans
<1> HIDE DEF Good, asked, Answers, Goes
<1>6. Good(z)
  BY <1>1, <1>2, <1>4, <1>5
<1> QED BY <1>6 DEF Good

\* What a merge falls back to.
LEMMA FallbackStarts ==
    ASSUME NEW c, Numbered(c), NEW A, NEW w, FallbackOK(A, w.todo, w.orelse)
    PROVE  PlanOK(c, {}, A, Fallback(w)) /\ "end" \in Ops(Steps(Fallback(w)))
<1> DEFINE f == w.orelse
           ix == [p \in Path |-> IF p \in DOMAIN w.todo THEN f.before[p] ELSE f.after[p]]
           sc == ConflictState(f.bt, f.ot, f.tt, f.conflicts, ix)
           a == WriteIndex(ix)
           b == Sidecar(sc, TRUE)
           p == <<a, b, End>>
<1>1. Fallback(w) = p
  BY DEF Fallback
<1>2. IndexOK(A, ix)
  <2> SUFFICES ASSUME NEW q \in Path PROVE EntryOK(ix[q]) /\ ix[q].blob \in A \cup {None}
    BY DEF IndexOK
  <2>1. ix[q] = IF q \in DOMAIN w.todo THEN f.before[q] ELSE f.after[q]
    OBVIOUS
  <2> HIDE DEF ix
  <2> QED BY <2>1 DEF FallbackOK, IndexOK
<1> HIDE DEF ix
<1>3. SidecarOK(A, sc)
  <2>1. /\ f.conflicts \in SUBSET Path
        /\ TreeOK(A, f.bt) /\ TreeOK(A, f.ot) /\ TreeOK(A, f.tt)
    BY DEF FallbackOK
  <2> HIDE DEF f
  <2> QED BY <2>1, ConflictStateOK
<1> HIDE DEF sc
<1>4. StepPlain(c, {}, A, a) /\ StepPlain(c, {}, A, b) /\ StepPlain(c, {}, A, End)
  BY <1>2, <1>3, PlainIndex, PlainMerge, PlainSteps
<1> HIDE DEF a, b
<1>5. IsPlan(p) /\ Steps(p) = {a, b, End}
  BY Listed
<1> HIDE DEF p
<1>6. PlanOK(c, {}, A, p)
  BY <1>4, <1>5, PlainOK
<1>7. "end" \in Ops(Steps(p))
  BY <1>5, Kinds DEF Ops
<1> QED BY <1>1, <1>6, <1>7

\* undo along the log of a branch.
LEMMA UndoReflogOK ==
    ASSUME HistoryInv, StoreInv, NEW c, Now(c), NEW O, NEW A, stored \subseteq A, O = {"snap"},
           NEW target, target.old \in 1..Len(parents), HeadCommit \in 1..Len(parents)
    PROVE  PlanOK(c, O, A, undoReflog(target)) /\ "end" \in Ops(Steps(undoReflog(target)))
<1> DEFINE t == TreeOf(target.old)
           added == {p \in Path : index[p].state = "unmodified" /\ t[p] = None}
           s1 == Ref(head, target.old)
           s2 == Files(Restrict(t, Present(t)), FALSE)
           s3 == Delete(added, FALSE)
           s4 == WriteIndex(checkoutIndex(t))
           s5 == MergeHead(NoCommit, TRUE)
           s6 == Log(head, HeadCommit, target.old, TRUE, FALSE)
           s7 == HeadLog({HeadCommit, target.old})
           p == <<Begin>>
           q == <<s1, s2, s3, s4, s5, s6, s7, End>>
           r == p \o q
<1>1. /\ Numbered(c) /\ c.n = Len(parents) /\ head \in Branch /\ NoCommit \in 0..c.n
      /\ target.old \in 0..c.n /\ HeadCommit \in 0..c.n /\ target.old \in 1..c.n
  BY DEF Now, HistoryInv, Numbered, NoCommit
<1>2. TreeOK(A, t)
  BY <1>1, TreesThere, TreeGrows
<1>3. undoReflog(target) = <<Begin, s1, s2, s3, s4, s5, s6, s7, End>>
  BY DEF undoReflog
<1>k. Known(c.n, O) = c.n
  BY DEF Known
<1>4. StepPlain(c, O, A, s1)
  BY <1>1, <1>k, PlainRefs
<1>5. StepPlain(c, O, A, s2)
  BY FilesPlain
<1>6. StepPlain(c, O, A, s3)
  <2>1. added \subseteq Path /\ "snap" \in O
    OBVIOUS
  <2> HIDE DEF added
  <2> QED BY <2>1, PlainDelete
<1>7. StepPlain(c, O, A, s4)
  <2> HIDE DEF t
  <2> QED BY <1>2, CheckoutOK, PlainIndex
<1>8. StepPlain(c, O, A, s5)
  BY <1>1, PlainMerge
<1>9. StepPlain(c, O, A, s6)
  BY <1>1, <1>k, PlainRefs
<1>10. StepPlain(c, O, A, s7)
  <2>1. {HeadCommit, target.old} \in SUBSET (0..c.n)
    BY <1>1
  <2> QED BY <1>1, <1>k, <2>1, PlainRefs
<1>11. StepPlain(c, O, A, End) /\ End.op = "end"
  BY PlainSteps DEF End
<1> HIDE DEF s1, s2, s3, s4, s5, s6, s7
<1>12. <<Begin, s1, s2, s3, s4, s5, s6, s7, End>> = r
  BY Cut
<1>13. IsPlan(q) /\ Steps(q) = {s1, s2, s3, s4, s5, s6, s7, End}
  BY Listed
<1>14. Sofar(c, O, A, O, A, p)
  <2>1. StepOK(c, O, A, Begin)
    BY BeginOK
  <2>2. PlanOK(c, O, A, p) /\ Steps(p) = {Begin}
    BY <2>1, OneOK
  <2>3. Ops({Begin}) = {"begin"}
    BY Kinds DEF Ops
  <2>4. "then" \notin O /\ "then" \notin {"begin"} /\ O \subseteq O \cup {"begin"} /\ A \subseteq A \cup Wrote({Begin})
    OBVIOUS
  <2> HIDE DEF p
  <2> QED BY <2>2, <2>3, <2>4 DEF Sofar
<1> HIDE DEF p, q
<1>15. Sofar(c, O, A, O, A, r) /\ Steps(r) = Steps(p) \cup Steps(q)
  <2>1. \A x \in Steps(q) : StepPlain(c, O, A, x)
    BY <1>4, <1>5, <1>6, <1>7, <1>8, <1>9, <1>10, <1>11, <1>13
  <2> QED BY <1>1, <1>13, <1>14, <2>1, GoesOn
<1> HIDE DEF r
<1>16. "end" \in Ops(Steps(r))
  BY <1>11, <1>13, <1>15 DEF Ops
<1> QED BY <1>3, <1>12, <1>15, <1>16 DEF Sofar

\* undo, whatever it finds.
LEMMA UndoStarts ==
    ASSUME HistoryInv, StoreInv, NEW c, Now(c), NEW m
    PROVE  Starts(c, <<Snap(m)>> \o UndoPlan(UndoTarget(logs[head])))
<1> DEFINE sn == Snap(m)
           p == <<sn>>
           target == UndoTarget(logs[head])
           q == UndoPlan(target)
           O == {} \cup Ops(Steps(p))
           A == stored \cup Wrote(Steps(p))
           Good(x) == PlanOK(c, O, A, x) /\ ("begin" \notin Ops(Steps(x)) \/ "end" \in Ops(Steps(x)))
<1>1. Numbered(c) /\ c.n = Len(parents) /\ c.j = journal /\ journal \in Nat /\ HeadCommit \in 0..Len(parents) /\ NoCommit = 0
  BY TreesThere DEF Now, Numbered
<1>2. target = << >> \/ \E l \in LogLine(Len(parents)) : target = <<l>>
  <2>1. logs[head] \in Seq(LogLine(Len(parents)))
    BY DEF HistoryInv
  <2> QED BY <2>1, UndoTargetIn
<1>3. /\ PlanOK(c, {}, stored, p) /\ Steps(p) = {sn}
      /\ O = {"snap"} /\ stored \subseteq A
  <2>1. StepPlain(c, {}, stored, sn) /\ sn.op = "snap"
    BY PlainSteps, Kinds
  <2>2. StepOK(c, {}, stored, sn)
    BY <2>1 DEF StepOK, StepPlain, StepOrdered
  <2> HIDE DEF sn
  <2>3. PlanOK(c, {}, stored, p) /\ Steps(p) = {sn}
    BY <2>2, OneOK
  <2>4. O = {"snap"}
    BY <2>1, <2>3 DEF Ops
  <2> QED BY <2>3, <2>4
<1> HIDE DEF target
<1>4. \/ q = <<Recover>> /\ journal > 0
      \/ q = << >> \/ q = undoSnapshot
      \/ target # << >> /\ target[1].old # NoCommit /\ ReversesTip(target[1]) /\ q = undoReflog(target[1])
  BY <1>1 DEF UndoPlan
<1> HIDE DEF p, sn, q
<1> DEFINE P == O
           B == A
<1> HIDE DEF O, A
<1>5. Good(<<Recover>>) \/ ~(journal > 0)
  <2> SUFFICES ASSUME journal > 0 PROVE Good(<<Recover>>)
    OBVIOUS
  <2>1. StepOK(c, O, A, Recover)
    BY <1>1, <1>3, RecoverOK
  <2>2. PlanOK(c, O, A, <<Recover>>) /\ Steps(<<Recover>>) = {Recover}
    BY <2>1, OneOK
  <2> QED BY <2>2, Kinds DEF Ops
<1>6. Good(<< >>)
  BY NoPlanOK DEF Ops
<1>7. Good(undoSnapshot)
  <2> DEFINE x == Files(Restrict(newest, Present(newest)), FALSE)
  <2>1. StepPlain(c, O, A, x) /\ x.op = "files"
    BY <1>3, FilesPlain DEF Files
  <2>2. undoSnapshot = <<x>>
    BY DEF undoSnapshot
  <2> HIDE DEF x
  <2>3. StepOK(c, O, A, x)
    BY <1>3, <2>1 DEF StepOK, StepPlain, StepOrdered
  <2>4. PlanOK(c, O, A, <<x>>) /\ Steps(<<x>>) = {x}
    BY <2>3, OneOK
  <2> QED BY <2>1, <2>2, <2>4 DEF Ops
<1>8. ASSUME target # << >>, target[1].old # NoCommit, ReversesTip(target[1]) PROVE Good(undoReflog(target[1]))
  <2>1. PICK l \in LogLine(Len(parents)) : target = <<l>>
    BY <1>2, <1>8
  <2>2. target[1] = l /\ l.old \in 0..Len(parents) /\ l.new \in 1..Len(parents)
    BY <2>1 DEF LogLine
  <2>3. target[1].old \in 1..Len(parents) /\ HeadCommit \in 1..Len(parents)
    BY <1>1, <1>8, <2>2 DEF ReversesTip
  <2> HIDE DEF Good
  <2>4. PlanOK(c, O, A, undoReflog(target[1])) /\ "end" \in Ops(Steps(undoReflog(target[1])))
    BY <1>3, <2>3, UndoReflogOK
  <2> QED BY <2>4 DEF Good
<1>9. Good(q)
  <2> HIDE DEF Good
  <2> QED BY <1>4, <1>5, <1>6, <1>7, <1>8
<1>10. PlanOK(c, {}, stored, p \o q)
  <2>1. O = {} \cup Ops(Steps(p)) /\ A = stored \cup Wrote(Steps(p))
    BY DEF O, A
  <2> QED BY <1>3, <1>9, <2>1, Follows
<1>11. Steps(p \o q) = Steps(p) \cup Steps(q)
  BY <1>3, <1>9, PlanJoin DEF PlanOK
<1>12. "begin" \notin Ops(Steps(p \o q)) \/ "end" \in Ops(Steps(p \o q))
  <2>1. sn.op = "snap"
    BY Kinds DEF sn
  <2> QED BY <1>3, <1>9, <1>11, <2>1 DEF Ops
<1>13. Closes(FALSE, p \o q)
  BY <1>12, Settled
<1> QED BY <1>10, <1>13 DEF Starts, p, q, sn, target

\* snapshot restore.
LEMMA RestoreStarts ==
    ASSUME StoreInv, NEW c, Now(c), NEW m, NEW s
    PROVE  Starts(c, <<Snap(m), Files(Restrict(s, Present(s)), FALSE)>>)
<1> DEFINE sn == Snap(m)
           x == Files(Restrict(s, Present(s)), FALSE)
           p == <<sn>>
           q == <<x>>
           r == p \o q
           O == {} \cup {sn.op}
           A == stored \cup Writes(sn)
<1>1. Numbered(c)
  BY DEF Now
<1>2. StepPlain(c, {}, stored, sn) /\ sn.op = "snap"
  BY PlainSteps, Kinds
<1> HIDE DEF sn
<1>3. Sofar(c, {}, stored, O, A, p) /\ Steps(p) = {sn}
  BY <1>1, <1>2, GoesOnOne
<1>4. "snap" \in O
  BY <1>2
<1> HIDE DEF O, A
<1>5. StepPlain(c, O, A, x) /\ x.op = "files"
  BY <1>4, FilesPlain DEF Files
<1> HIDE DEF x
<1>6. IsPlan(q) /\ Steps(q) = {x}
  BY Listed
<1>7. <<sn, x>> = r
  BY Cut
<1> HIDE DEF p, q
<1>8. Sofar(c, {}, stored, O, A, r) /\ Steps(r) = Steps(p) \cup Steps(q)
  <2>1. \A y \in Steps(q) : StepPlain(c, O, A, y)
    BY <1>5, <1>6
  <2> QED BY <1>1, <1>3, <1>6, <2>1, GoesOn
<1> HIDE DEF r
<1>9. "begin" \notin Ops(Steps(r))
  BY <1>2, <1>3, <1>5, <1>6, <1>8 DEF Ops
<1>10. PlanOK(c, {}, stored, r) /\ Closes(FALSE, r)
  BY <1>8, <1>9, Settled DEF Sofar
<1> QED BY <1>7, <1>10 DEF Starts, sn, x

----------------------------------------------------------------------------
(* A command starts                                                        *)

\* What a command that may discard the files ds starts from.
Kept(ds) == [q \in Path |-> IF q \in ds THEN None ELSE mine[q]]
Fresh(ds) == Context(Len(parents), journal, Kept(ds), warned, stored, snaps)

\* What is discarded counts as safe, and any other edit is safe or still on disk.
LEMMA FreshIs ==
    ASSUME Inv, NEW ds
    PROVE  /\ Now(Fresh(ds))
           /\ ds \cap Path \subseteq Fresh(ds).sec
           /\ \A q \in Path : q \in Fresh(ds).sec \/ work[q] = Fresh(ds).mine[q]
<1>1. Len(parents) \in Nat /\ journal \in Nat
  BY DEF Inv, HistoryInv, FaultInv, IsGraph
<1>2. /\ Fresh(ds).n = Len(parents) /\ Fresh(ds).j = journal /\ Fresh(ds).mine = Kept(ds)
      /\ Fresh(ds).sec = Secured(Kept(ds), warned, stored, snaps)
  BY DEF Fresh, Context
<1>3. \A q \in Path : q \in ds => q \in Secured(Kept(ds), warned, stored, snaps)
  BY DEF Secured, Kept
<1>4. ASSUME NEW q \in Path, q \notin ds
      PROVE  q \in Secured(Kept(ds), warned, stored, snaps) \/ work[q] = Kept(ds)[q]
  <2>1. Kept(ds)[q] = mine[q]
    BY <1>4 DEF Kept
  <2>2. q \in Secured(mine, warned, stored, snaps) \/ work[q] = mine[q]
    BY DEF Inv, WorkInv
  <2> QED BY <2>1, <2>2 DEF Secured
<1> QED BY <1>1, <1>2, <1>3, <1>4 DEF Now, Numbered

\* A command whose plan is right starts well.
LEMMA RunOK ==
    ASSUME Inv, Idle, NEW name, NEW p, NEW ds, Run(name, p, ds), Starts(Fresh(ds), p)
    PROVE  Inv'
<1>1. /\ UNCHANGED <<files, history, merging, saved, warned, past, edits, faults>>
      /\ plan' = Needed(p) /\ mine' = Kept(ds)
  BY DEF Run, Kept
<1>2. HistoryInv'
  BY <1>1 DEF Inv, HistoryInv, history, merging
<1>3. StoreInv'
  BY <1>1 DEF Inv, StoreInv, history, merging, files
<1>4. FaultInv'
  BY <1>1 DEF Inv, FaultInv, saved
<1>5. /\ stored' = stored /\ snaps' = snaps /\ warned' = warned /\ work' = work /\ parents' = parents
      /\ journal' = journal /\ open' = open
  BY <1>1 DEF files, saved, history
<1>6. WorkInv'
  <2>1. \A q \in Path : q \in Secured(Kept(ds), warned, stored, snaps) \/ work[q] = Kept(ds)[q]
    BY FreshIs DEF Fresh, Context
  <2>2. work = [q \in Path |-> work[q]]
    BY DEF Inv, WorkInv
  <2>3. Kept(ds) = [q \in Path |-> Kept(ds)[q]]
    BY DEF Kept
  <2> QED BY <1>1, <1>5, <2>1, <2>2, <2>3 DEF WorkInv
<1>7. ~open
  <2>1. Steps(<< >>) = {}
    BY Listed
  <2> QED BY <2>1 DEF Idle, Inv, PlanInv, Closes, Ops
<1>8. PlanOK(Fresh(ds), {}, stored, Needed(p)) /\ Steps(Needed(p)) = {x \in Steps(p) : ~Vacuous(x)}
  <2>1. Numbered(Fresh(ds)) /\ PlanOK(Fresh(ds), {}, stored, p)
    BY FreshIs DEF Now, Starts
  <2> QED BY <2>1, NeededOK
<1>9. Closes(FALSE, Needed(p))
  <2>1. \A o \in {"begin", "end", "hang"} : o \in Ops(Steps(Needed(p))) <=> o \in Ops(Steps(p))
    BY <1>8 DEF Ops, Vacuous
  <2>2. Closes(FALSE, p)
    BY DEF Starts
  <2> QED BY <2>1, <2>2 DEF Closes
<1>10. PlanInv'
  <2>1. Fresh(ds) = Context(Len(parents'), journal', mine', warned', stored', snaps')
    BY <1>1, <1>5 DEF Fresh
  <2>2. PlanOK(Context(Len(parents'), journal', mine', warned', stored', snaps'), {}, stored', plan')
    BY <1>1, <1>5, <1>8, <2>1
  <2>3. Closes(open', plan')
    BY <1>1, <1>5, <1>7, <1>9 DEF Closes
  <2> QED BY <2>2, <2>3 DEF PlanInv
<1> QED BY <1>2, <1>3, <1>4, <1>6, <1>10 DEF Inv

\* Every command starts well.
LEMMA CommandOK ==
    ASSUME Inv, Idle, UserCommand
    PROVE  Inv'
<1>0. HistoryInv /\ StoreInv /\ Now(Fresh({}))
  BY FreshIs DEF Inv
<1>h. Len(parents) \in Nat /\ NoCommit = 0 /\ HeadCommit \in 0..Len(parents) /\ head \in Branch
      /\ branch \in [Branch -> 0..Len(parents)]
  BY <1>0, TreesThere DEF HistoryInv
<1>1. ASSUME NEW ps \in Pathspecs, Add(ps) PROVE Inv'
  <2> DEFINE toAdd == {p \in ps : Changed(p)}
             content == [p \in toAdd |-> work[p]]
             clean == {p \in toAdd \cap DOMAIN sidecar.entries : ~Marked(work[p])}
             z == <<Blobs(Range(content)), WriteIndex(StageAll(index, content))>> \o markResolvedByAdd(clean)
  <2>1. Run("add", z, {})
    BY <1>1 DEF Add
  <2>2. DOMAIN content \subseteq Path
    BY DEF Pathspecs
  <2> HIDE DEF content, clean
  <2>3. Starts(Fresh({}), z)
    BY <1>0, <2>2, AddStarts
  <2> HIDE DEF z
  <2> QED BY <2>1, <2>3, RunOK
<1>2. ASSUME NEW ps \in Pathspecs, Rm(ps) PROVE Inv'
  <2> DEFINE gone == ps \cap Live(index)
             z == <<Delete(gone, FALSE),
                    WriteIndex([p \in Path |-> IF p \in gone THEN [index[p] EXCEPT !.state = "deleted"]
                                               ELSE index[p]])>> \o markRemovedResolved(gone)
  <2>1. Run("rm", z, gone)
    BY <1>2 DEF Rm
  <2>2. gone \subseteq Live(index) /\ gone \subseteq Path
    BY DEF Live
  <2> HIDE DEF gone
  <2>3. Now(Fresh(gone)) /\ gone \subseteq Fresh(gone).sec
    BY <2>2, FreshIs
  <2>4. Starts(Fresh(gone), z)
    BY <1>0, <2>2, <2>3, RmStarts
  <2> HIDE DEF z
  <2> QED BY <2>1, <2>4, RunOK
<1>3. ASSUME NEW ps \in Pathspecs, NEW s \in Strategy, Resolve(s, ps) PROVE Inv'
  <2>1. Run("resolve", RunResolve(s, ps), ps)
    BY <1>3 DEF Resolve
  <2>2. Now(Fresh(ps)) /\ ps \cap Path \subseteq Fresh(ps).sec
    BY FreshIs
  <2>3. PlanOK(Fresh(ps), {}, stored, RunResolve(s, ps)) /\ "begin" \notin Ops(Steps(RunResolve(s, ps)))
    BY <1>0, <2>2, ResolveStarts
  <2>4. Starts(Fresh(ps), RunResolve(s, ps))
    BY <2>3, Settled DEF Starts
  <2> QED BY <2>1, <2>4, RunOK
<1>4. ASSUME NEW p \in DOMAIN sidecar.entries, RunResolveInteractive(p) PROVE Inv'
  <2>1. PICK d : Run("interactive", Chosen(p, d), {p})
    BY <1>4 DEF RunResolveInteractive
  <2>2. p \in Path
    BY <1>0 DEF StoreInv, SidecarOK
  <2>3. Now(Fresh({p})) /\ p \in Fresh({p}).sec
    BY <2>2, FreshIs
  <2> DEFINE z == Chosen(p, d)
  <2>4. PlanOK(Fresh({p}), {}, stored, z) /\ "begin" \notin Ops(Steps(z))
    BY <1>0, <2>3, ChosenStarts
  <2> HIDE DEF z
  <2>5. Starts(Fresh({p}), z)
    BY <2>4, Settled DEF Starts
  <2> QED BY <2>1, <2>5, RunOK DEF z
<1>5. ASSUME NEW b \in Branch, CreateBranch(b) PROVE Inv'
  <2> DEFINE z == <<Ref(b, HeadCommit), Log(b, NoCommit, HeadCommit, FALSE, TRUE)>>
  <2>1. Run("branch", z, {}) /\ HeadCommit # NoCommit
    BY <1>5 DEF CreateBranch
  <2>2. Starts(Fresh({}), z)
    BY <1>0, <2>1, BranchStarts
  <2> HIDE DEF z
  <2> QED BY <2>1, <2>2, RunOK
<1>6. ASSUME NEW b \in Branch, Switch(b) PROVE Inv'
  BY <1>0, <1>6, SwitchStarts, RunOK DEF Switch
<1>7. ASSUME NEW b \in Branch, NEW policy \in Policies, Merge(b, policy) PROVE Inv'
  <2> DEFINE their == branch[b]
             base == MergeBase(parents, Commits, HeadCommit, their)
  <2>1. their \in 1..Len(parents) /\ HeadCommit # NoCommit /\ base # NoCommit
    BY <1>h, <1>7 DEF Merge
  <2>2. base \in 1..Len(parents)
    <3> HIDE DEF their
    <3>1. their \in 0..Len(parents)
      BY <1>h, <2>1
    <3> QED BY <1>0, <1>h, <2>1, <3>1, BaseThere
  <2>3. \/ Run("fastForward", FastForwardPlan(their), {})
        \/ Run("upToDate", UpToDatePlan(their), {})
        \/ Run("merge", ThreeWayPlan(base, their, policy), {})
    BY <1>7 DEF Merge
  <2> HIDE DEF their, base
  <2>4. ASSUME Run("fastForward", FastForwardPlan(their), {}) PROVE Inv'
    BY <1>0, <2>1, <2>4, FastForwardStarts, RunOK
  <2>5. ASSUME Run("upToDate", UpToDatePlan(their), {}) PROVE Inv'
    BY <1>0, <2>1, <2>5, UpToDateStarts, RunOK
  <2>6. ASSUME Run("merge", ThreeWayPlan(base, their, policy), {}) PROVE Inv'
    <3> DEFINE bt == TreeOf(base)
               tt == TreeOf(their)
               st == [p \in Path |-> threeWay(bt[p], HeadTree[p], tt[p])]
               ag == [p \in Path |-> refineConflict(bt[p], HeadTree[p], tt[p])]
               z == MergePlan(bt, HeadTree, tt, st, ag, their, policy)
    <3>1. z = ThreeWayPlan(base, their, policy)
      BY DEF ThreeWayPlan
    <3>2. base \in 0..Len(parents) /\ their \in 0..Len(parents)
      BY <1>h, <2>1, <2>2
    <3>3. TreeOK(stored, bt) /\ TreeOK(stored, tt) /\ TreeOK(stored, HeadTree)
      BY <1>0, <3>2, TreesThere
    <3> HIDE DEF bt, tt, st, ag
    <3>4. Starts(Fresh({}), z)
      BY <1>0, <2>1, <3>3, MergeStarts
    <3> HIDE DEF z
    <3> QED BY <2>6, <3>1, <3>4, RunOK
  <2> QED BY <2>3, <2>4, <2>5, <2>6
<1>8. ASSUME NEW b \in Branch, FastForwardUnborn(b) PROVE Inv'
  <2> DEFINE their == branch[b]
             t == TreeOf(their)
             z == <<Begin, Files(Restrict(t, Present(t)), FALSE), WriteIndex(checkoutIndex(t)),
                    Ref(head, their)>> \o appendReflog(head, NoCommit, their) \o <<End>>
  <2>1. Run("unborn", z, {}) /\ their # NoCommit /\ \A p \in Present(t) : work[p] \in {None, t[p]}
    BY <1>8 DEF FastForwardUnborn
  <2>2. their \in 1..Len(parents)
    BY <1>h, <2>1
  <2> HIDE DEF their
  <2>3. \A q \in Path : q \in Fresh({}).sec \/ work[q] = Fresh({}).mine[q]
    BY FreshIs
  <2>4. ASSUME NEW q \in Present(t) PROVE q \in Fresh({}).sec \/ t[q] = Fresh({}).mine[q]
    <3>1. q \in Path /\ work[q] \in {None, t[q]}
      BY <2>1 DEF Present
    <3>2. CASE work[q] = t[q]
      BY <2>3, <3>1, <3>2
    <3>3. CASE work[q] = None
      <4>1. Fresh({}).mine[q] = None => q \in Fresh({}).sec
        BY <3>1 DEF Fresh, Context, Secured
      <4> QED BY <2>3, <3>1, <3>3, <4>1
    <3> QED BY <3>1, <3>2, <3>3
  <2> HIDE DEF t
  <2>5. t = TreeOf(their)
    BY DEF t
  <2>6. Starts(Fresh({}), z)
    BY <1>0, <2>2, <2>4, <2>5, UnbornStarts
  <2> HIDE DEF z
  <2> QED BY <2>1, <2>6, RunOK
<1>9. ASSUME Commit PROVE Inv'
  <2>1. Starts(Fresh({}), CommitPlan)
    BY <1>0, CommitStarts, Settled DEF Starts
  <2> QED BY <1>9, <2>1, RunOK DEF Commit
<1>10. ASSUME Abort PROVE Inv'
  BY <1>0, <1>10, AbortStarts, RunOK DEF Abort
<1>11. ASSUME NEW force \in BOOLEAN, Undo(force) PROVE Inv'
  <2> DEFINE must == uncommittedPaths # {}
             z == <<Snap(must)>> \o UndoPlan(UndoTarget(logs[head]))
  <2>1. Run("undo", z, {})
    BY <1>11 DEF Undo
  <2> HIDE DEF must
  <2>2. Starts(Fresh({}), z)
    BY <1>0, UndoStarts
  <2> HIDE DEF z
  <2> QED BY <2>1, <2>2, RunOK
<1>12. ASSUME NEW s \in snaps, NEW force \in BOOLEAN, SnapshotRestore(s, force) PROVE Inv'
  <2> DEFINE must == uncommittedPaths # {}
             z == <<Snap(must), Files(Restrict(s, Present(s)), FALSE)>>
  <2>1. Run("restore", z, {})
    BY <1>12 DEF SnapshotRestore
  <2> HIDE DEF must
  <2>2. Starts(Fresh({}), z)
    BY <1>0, RestoreStarts
  <2> HIDE DEF z
  <2> QED BY <2>1, <2>2, RunOK
<1> QED BY <1>1, <1>2, <1>3, <1>4, <1>5, <1>6, <1>7, <1>8, <1>9, <1>10, <1>11, <1>12 DEF UserCommand

----------------------------------------------------------------------------
(* A command goes on                                                       *)

\* What is there now.
Here == Context(Len(parents), journal, mine, warned, stored, snaps)

\* What is safe stays so while the store and the snapshots grow.
LEMMA SecuredGrows ==
    ASSUME NEW mn, NEW wn, NEW S, NEW ss, NEW vn, NEW T, NEW tt, wn => vn, S \subseteq T, ss \subseteq tt
    PROVE  Secured(mn, wn, S, ss) \subseteq Secured(mn, vn, T, tt)
BY DEF Secured

\* The transaction has its end in the plan after the first step too.
LEMMA ClosesOn ==
    ASSUME NEW c, NEW A, NEW p, PlanOK(c, {}, A, p), p # << >>, NEW o \in BOOLEAN, Closes(o, p),
           Head(p).op # "hang"
    PROVE  Closes(Head(p).op = "begin" \/ (o /\ Head(p).op # "end"), Tail(p))
<1> DEFINE w == Head(p)
           q == Tail(p)
<1>1. PlanOK(c, {w.op}, A \cup Writes(w), q) /\ Steps(p) = {w} \cup Steps(q)
  BY PlanSplits
<1> HIDE DEF w, q
<1>2. Ops(Steps(p)) = {w.op} \cup Ops(Steps(q))
  BY <1>1 DEF Ops
<1>3. w.op = "end" => "begin" \notin Ops(Steps(q))
  <2> SUFFICES ASSUME w.op = "end", NEW i \in DOMAIN q PROVE q[i].op # "begin"
    BY DEF Ops, Steps
  <2> QED BY <1>1 DEF PlanOK, StepOK, StepOrdered
<1>4. CASE w.op = "begin"
  BY <1>2, <1>4 DEF Closes, w, q
<1>5. CASE w.op = "end"
  BY <1>3, <1>5 DEF Closes, w, q
<1>6. CASE w.op \notin {"begin", "end"}
  BY <1>2, <1>6 DEF Closes, w, q
<1> QED BY <1>4, <1>5, <1>6

\* The first step of the plan is in order.
LEMMA HeadOK ==
    ASSUME Inv, ~Idle
    PROVE  /\ StepOK(Here, {}, stored, Head(plan)) /\ PlanOK(Here, {}, stored, plan) /\ plan # << >>
           /\ Now(Here) /\ Len(parents) \in Nat
           /\ StepTyped(Len(parents), {}, Head(plan)) /\ StepStored(stored, Head(plan))
<1>1. PlanOK(Here, {}, stored, plan) /\ plan # << >>
  BY DEF Inv, PlanInv, Here, Idle
<1>2. StepOK(Here, {}, stored, Head(plan))
  BY <1>1, PlanSplits
<1>3. Len(parents) \in Nat /\ journal \in Nat
  BY DEF Inv, HistoryInv, FaultInv, IsGraph
<1>4. Here.n = Len(parents) /\ Here.j = journal
  BY DEF Here, Context
<1> QED BY <1>1, <1>2, <1>3, <1>4 DEF StepOK, Now, Numbered

\* A step keeps the history in order.
LEMMA StepHistory ==
    ASSUME Inv, Step
    PROVE  HistoryInv' /\ Known(Len(parents), {Head(plan).op}) = Len(parents')
<1> DEFINE w == Head(plan)
           n == Len(parents)
           m == Len(parents')
<1>1. /\ ~Idle
      /\ parents' = IF w.op = "commit" THEN Append(parents, w.parents) ELSE parents
      /\ trees' = IF w.op = "commit" THEN Append(trees, w.tree) ELSE trees
      /\ branch' = IF w.op = "ref" THEN [branch EXCEPT ![w.name] = w.to] ELSE branch
      /\ head' = IF w.op = "head" THEN w.name ELSE head
      /\ logs' = IF w.op = "log" THEN [logs EXCEPT ![w.name] = Append(@, w.line)] ELSE logs
      /\ headLog' = IF w.op = "headLog" THEN headLog \cup w.ids ELSE headLog
      /\ mergeHead' = IF w.op = "mergeHead" THEN w.theirs ELSE mergeHead
  BY DEF Step
<1>2. n \in Nat /\ StepTyped(n, {}, w) /\ StepStored(stored, w)
  BY <1>1, HeadOK
<1>3. /\ IsGraph(parents) /\ IsPlan(trees) /\ Len(trees) = n
      /\ branch \in [Branch -> 0..n] /\ head \in Branch /\ mergeHead \in 0..n
      /\ logs \in [Branch -> Seq(LogLine(n))] /\ headLog \subseteq 0..n
  BY DEF Inv, HistoryInv
<1> HIDE DEF w
<1>4. /\ w.op = "commit" => w.parents \in Seq(1..n)
      /\ w.op = "mergeHead" => w.theirs \in 0..n
      /\ w.op = "ref" => w.name \in Branch /\ w.to \in 0..n
      /\ w.op = "head" => w.name \in Branch
      /\ w.op = "log" => w.name \in Branch /\ w.line \in LogLine(n)
      /\ w.op = "headLog" => w.ids \subseteq 0..n
  BY <1>2 DEF StepTyped, Known
<1>5. /\ IsGraph(parents') /\ IsPlan(trees') /\ Len(trees') = m
      /\ m = IF w.op = "commit" THEN n + 1 ELSE n
  <2>1. CASE w.op = "commit"
    <3>1. parents' = Append(parents, w.parents) /\ trees' = Append(trees, w.tree) /\ w.parents \in Seq(1..n)
      BY <1>1, <1>4, <2>1
    <3>2. IsGraph(parents')
      BY <1>3, <3>1, ReachGrows
    <3>3. m = n + 1
      <4>1. parents \in Seq(Seq(Nat)) /\ w.parents \in Seq(Nat)
        BY <1>3, <3>1 DEF IsGraph
      <4> QED BY <3>1, <4>1, AppendProperties
    <3>4. IsPlan(trees') /\ Len(trees') = n + 1
      <4> DEFINE X == Steps(trees) \cup {w.tree}
      <4>1. trees \in Seq(X) /\ w.tree \in X
        <5>1. trees \in Seq(Steps(trees))
          BY <1>3 DEF IsPlan, Steps
        <5> QED BY <5>1, SeqGrows
      <4> HIDE DEF X
      <4>2. Append(trees, w.tree) \in Seq(X) /\ Len(Append(trees, w.tree)) = Len(trees) + 1
        BY <4>1, AppendProperties
      <4>3. \A r \in Seq(X) : IsPlan(r)
        BY DEF IsPlan
      <4>4. IsPlan(Append(trees, w.tree))
        BY <4>2, <4>3
      <4> QED BY <1>3, <3>1, <4>2, <4>4
    <3> QED BY <2>1, <3>2, <3>3, <3>4
  <2>2. CASE w.op # "commit"
    BY <1>1, <1>3, <2>2
  <2> QED BY <2>1, <2>2
<1>6. Known(n, {w.op}) = m
  BY <1>5 DEF Known
<1>7. m \in Nat /\ n <= m
  BY <1>2, <1>5
<1> HIDE DEF m, n
<1>8. 0..n \subseteq 0..m
  BY <1>2, <1>7
<1>9. LogLine(n) \subseteq LogLine(m)
  BY <1>2, <1>7, <1>8 DEF LogLine
<1>10. branch' \in [Branch -> 0..m] /\ head' \in Branch /\ mergeHead' \in 0..m
  BY <1>1, <1>3, <1>4, <1>8
<1>11. headLog' \subseteq 0..m
  BY <1>1, <1>3, <1>4, <1>8
<1>12. logs' \in [Branch -> Seq(LogLine(m))]
  <2>1. Seq(LogLine(n)) \subseteq Seq(LogLine(m))
    BY <1>9, SeqGrows
  <2>2. logs \in [Branch -> Seq(LogLine(m))]
    BY <1>3, <2>1
  <2>3. CASE w.op = "log"
    <3>1. w.name \in Branch /\ w.line \in LogLine(m)
      BY <1>4, <1>9, <2>3
    <3>2. Append(logs[w.name], w.line) \in Seq(LogLine(m))
      BY <2>2, <3>1, AppendProperties
    <3> QED BY <1>1, <2>2, <2>3, <3>2
  <2> QED BY <1>1, <2>2, <2>3
<1>13. HistoryInv'
  BY <1>5, <1>10, <1>11, <1>12 DEF HistoryInv, m
<1> QED BY <1>6, <1>13 DEF w, n, m

\* A step records nothing that is not stored.
LEMMA StepStore ==
    ASSUME Inv, Step
    PROVE  StoreInv' /\ stored \cup Writes(Head(plan)) \subseteq stored'
<1> DEFINE w == Head(plan)
           n == Len(parents)
<1>1. /\ ~Idle /\ w.op # "files"
      /\ stored' = IF w.op = "blobs" THEN stored \cup w.add ELSE stored
      /\ index' = IF w.op = "index" THEN w.entries ELSE index
      /\ sidecar' = IF w.op = "sidecar" THEN w.conflicts ELSE sidecar
      /\ parents' = IF w.op = "commit" THEN Append(parents, w.parents) ELSE parents
      /\ trees' = IF w.op = "commit" THEN Append(trees, w.tree) ELSE trees
  BY DEF Step
<1>2. n \in Nat /\ StepStored(stored, w)
  BY <1>1, HeadOK
<1>3. /\ \A c \in 1..n : TreeOK(stored, trees[c])
      /\ IndexOK(stored, index) /\ SidecarOK(stored, sidecar) /\ IsPlan(trees) /\ Len(trees) = n
  BY DEF Inv, StoreInv, HistoryInv
<1>4. Len(parents') = Known(n, {w.op})
  BY StepHistory
<1> HIDE DEF w, n
<1>5. stored \subseteq stored' /\ stored \cup Writes(w) \subseteq stored'
  BY <1>1 DEF Writes
<1>6. /\ w.op = "index" => IndexOK(stored, w.entries)
      /\ w.op = "sidecar" => SidecarOK(stored, w.conflicts)
      /\ w.op = "commit" => TreeOK(stored, w.tree)
  BY <1>2 DEF StepStored
<1>7. IndexOK(stored', index')
  <2>1. IndexOK(stored, index')
    BY <1>1, <1>3, <1>6
  <2> QED BY <1>5, <2>1, IndexGrows
<1>8. SidecarOK(stored', sidecar')
  <2>1. SidecarOK(stored, sidecar')
    BY <1>1, <1>3, <1>6
  <2> QED BY <1>5, <2>1, SidecarGrows
<1>9. \A c \in 1..Len(parents') : TreeOK(stored', trees'[c])
  <2> SUFFICES ASSUME NEW c \in 1..Len(parents') PROVE TreeOK(stored, trees'[c])
    BY <1>5, TreeGrows
  <2>1. CASE w.op = "commit"
    <3>1. trees' = Append(trees, w.tree) /\ TreeOK(stored, w.tree) /\ c \in 1..(n + 1)
      BY <1>1, <1>4, <1>6, <2>1 DEF Known
    <3> DEFINE X == Steps(trees) \cup {w.tree}
    <3>2. trees \in Seq(X) /\ w.tree \in X
      <4>1. trees \in Seq(Steps(trees))
        BY <1>3 DEF IsPlan, Steps
      <4> QED BY <4>1, SeqGrows
    <3> HIDE DEF X
    <3>3. trees'[c] = IF c = n + 1 THEN w.tree ELSE trees[c]
      BY <1>2, <1>3, <3>1, <3>2, AppendProperties
    <3>4. c # n + 1 => c \in 1..n
      BY <1>2, <3>1
    <3> QED BY <1>3, <3>1, <3>3, <3>4
  <2>2. CASE w.op # "commit"
    <3>1. trees' = trees /\ c \in 1..n
      BY <1>1, <1>4, <2>2 DEF Known
    <3> QED BY <1>3, <3>1
  <2> QED BY <2>1, <2>2
<1>10. StoreInv'
  BY <1>7, <1>8, <1>9 DEF StoreInv
<1> QED BY <1>5, <1>10 DEF w

\* After a step the rest of the plan is in order.
LEMMA StepInv ==
    ASSUME Inv, Step
    PROVE  Inv'
<1> DEFINE w == Head(plan)
<1>1. /\ ~Idle /\ w.op \notin {"files", "delete", "hang", "then"} /\ plan' = Tail(plan)
      /\ open' = (w.op = "begin" \/ (open /\ w.op # "end"))
      /\ journal' = IF w.op = "recover" THEN journal - 1 ELSE journal
      /\ snaps' = IF w.op = "snap" THEN snaps \cup {work} ELSE snaps
      /\ work' = work /\ mine' = mine /\ warned' = warned /\ faults' = faults
  BY DEF Step, bounds
<1>2. /\ StepOK(Here, {}, stored, w) /\ PlanOK(Here, {}, stored, plan) /\ plan # << >>
      /\ Now(Here) /\ Len(parents) \in Nat
  BY <1>1, HeadOK
<1>3. /\ HistoryInv' /\ Known(Len(parents), {w.op}) = Len(parents')
      /\ StoreInv' /\ stored \cup Writes(w) \subseteq stored'
  BY StepHistory, StepStore
<1>4. /\ faults \in 0..MaxFaults /\ journal \in 0..faults /\ open \in BOOLEAN
      /\ work = [q \in Path |-> work[q]] /\ mine = [q \in Path |-> mine[q]]
      /\ \A q \in Path : q \in Secured(mine, warned, stored, snaps) \/ work[q] = mine[q]
      /\ Closes(open, plan)
  BY DEF Inv, FaultInv, WorkInv, PlanInv
<1>5. Here.n = Len(parents) /\ Here.j = journal /\ Here.mine = mine /\ Here.sec = Secured(mine, warned, stored, snaps)
  BY DEF Here, Context
<1> DEFINE d == Context(Len(parents'), journal', mine', warned', stored', snaps')
<1>6. d.n = Len(parents') /\ d.j = journal' /\ d.mine = mine' /\ d.sec = Secured(mine', warned', stored', snaps')
  BY DEF Context
<1> HIDE DEF w
<1>7. FaultInv'
  <2>1. w.op = "recover" => journal > 0
    BY <1>2, <1>5 DEF StepOK, StepOrdered
  <2>2. journal \in Int /\ faults \in Int
    BY <1>4
  <2>3. journal' \in 0..faults'
    BY <1>1, <1>4, <2>1, <2>2
  <2>4. open' \in BOOLEAN
    BY <1>1
  <2> QED BY <1>1, <1>4, <2>3, <2>4 DEF FaultInv
<1>8. Here.sec \subseteq d.sec
  <2>1. snaps \subseteq snaps' /\ stored \subseteq stored'
    BY <1>1, <1>3
  <2>2. Secured(mine, warned, stored, snaps) \subseteq Secured(mine, warned, stored', snaps')
    BY <2>1, SecuredGrows
  <2> QED BY <1>1, <1>5, <1>6, <2>2
<1>9. WorkInv'
  <2>1. \A q \in Path : q \in Secured(mine', warned', stored', snaps') \/ work'[q] = mine'[q]
    BY <1>1, <1>4, <1>5, <1>6, <1>8
  <2> QED BY <1>1, <1>4, <2>1 DEF WorkInv
<1>10. w.op = "snap" => Path \subseteq d.sec
  <2> SUFFICES ASSUME w.op = "snap", NEW q \in Path PROVE q \in d.sec
    OBVIOUS
  <2>1. work \in snaps'
    BY <1>1
  <2>2. q \in Here.sec \/ work[q] = mine'[q]
    BY <1>1, <1>4, <1>5
  <2> QED BY <1>6, <1>8, <2>1, <2>2 DEF Secured
<1>11. Len(parents') \in Nat /\ journal' \in Nat
  <2>1. faults' \in Nat /\ journal' \in 0..faults'
    BY <1>7 DEF FaultInv
  <2>2. Len(parents') \in Nat
    BY <1>2, <1>3 DEF Known
  <2> QED BY <2>1, <2>2
<1> HIDE DEF d
<1>12. Advances(Here, stored, w, d, stored')
  <2>1. w.op # "recover" => Here.j <= d.j
    BY <1>1, <1>5, <1>6, <1>11
  <2>2. Known(Here.n, {w.op}) <= d.n
    BY <1>3, <1>5, <1>6, <1>11
  <2>3. Numbered(Here) /\ Numbered(d)
    BY <1>2, <1>6, <1>11 DEF Now, Numbered
  <2> QED BY <1>1, <1>3, <1>5, <1>6, <1>8, <1>10, <2>1, <2>2, <2>3 DEF Advances
<1>13. PlanOK(d, {}, stored', plan')
  BY <1>1, <1>2, <1>12, RestOK DEF w
<1>14. Closes(open', plan')
  BY <1>1, <1>2, <1>4, ClosesOn DEF w
<1>15. PlanInv'
  BY <1>13, <1>14 DEF PlanInv, d
<1> QED BY <1>3, <1>7, <1>9, <1>15 DEF Inv

\* The step that is left of the writing of files.
Leaves(w, r, f) ==
    /\ FilesForm(r) /\ r.op = "files" /\ r.todo = f /\ r.keep = w.keep /\ ~r.soft
    /\ "orelse" \in DOMAIN r => "orelse" \in DOMAIN w /\ r.keep = TRUE /\ r.orelse = w.orelse

\* It is a step of the same form.
LEMMA FilesLeft ==
    ASSUME NEW w, FilesForm(w), NEW S
    PROVE  Leaves(w, [w EXCEPT !.todo = Restrict(@, S)], Restrict(w.todo, S))
<1> DEFINE f == Restrict(w.todo, S)
           r == [w EXCEPT !.todo = f]
           a == w.todo
           k == w.keep
           e == w.orelse
           no == FALSE
           yes == TRUE
<1>0. r = [w EXCEPT !.todo = Restrict(@, S)]
  OBVIOUS
<1> HIDE DEF f
<1>1. CASE w = [op |-> "files", todo |-> w.todo, keep |-> w.keep, soft |-> FALSE]
  <2> DEFINE u == [op |-> "files", todo |-> a, keep |-> k, soft |-> no]
             v == [op |-> "files", todo |-> f, keep |-> k, soft |-> no]
  <2>1. w = u
    BY <1>1
  <2>2. r = [u EXCEPT !.todo = f]
    <3> HIDE DEF u
    <3> QED BY <2>1, Zenon
  <2> HIDE DEF a, k, no
  <2>3. [u EXCEPT !.todo = f] = v /\ w.keep = k
    BY <2>1, SMT
  <2>4. r = v
    <3> HIDE DEF u, v
    <3> QED BY <2>2, <2>3, Zenon
  <2> HIDE DEF r
  <2>5. r.op = "files" /\ r.todo = f /\ r.keep = k /\ r.soft = no /\ "orelse" \notin DOMAIN r
    BY <2>4
  <2>6. FilesForm(r) /\ ~r.soft
    BY <2>4, <2>5 DEF FilesForm, no
  <2>7. Leaves(w, r, f)
    <3> HIDE DEF u, v
    <3> QED BY <2>3, <2>5, <2>6 DEF Leaves
  <2> QED BY <1>0, <2>7 DEF f
<1>2. CASE w = [op |-> "files", todo |-> w.todo, keep |-> TRUE, soft |-> FALSE, orelse |-> w.orelse]
  <2> DEFINE u == [op |-> "files", todo |-> a, keep |-> yes, soft |-> no, orelse |-> e]
             v == [op |-> "files", todo |-> f, keep |-> yes, soft |-> no, orelse |-> e]
  <2>1. w = u
    BY <1>2
  <2>2. r = [u EXCEPT !.todo = f]
    <3> HIDE DEF u
    <3> QED BY <2>1, Zenon
  <2> HIDE DEF a, e, no, yes
  <2>3. [u EXCEPT !.todo = f] = v /\ w.keep = yes /\ w.orelse = e /\ "orelse" \in DOMAIN w
    BY <2>1, SMT
  <2>4. r = v
    <3> HIDE DEF u, v
    <3> QED BY <2>2, <2>3, Zenon
  <2> HIDE DEF r
  <2>5. r.op = "files" /\ r.todo = f /\ r.keep = yes /\ r.soft = no /\ r.orelse = e
    BY <2>4
  <2>6. FilesForm(r) /\ ~r.soft
    BY <2>4, <2>5 DEF FilesForm, no, yes
  <2>7. Leaves(w, r, f)
    <3> HIDE DEF u, v
    <3> QED BY <2>3, <2>5, <2>6 DEF Leaves, yes
  <2> QED BY <1>0, <2>7 DEF f
<1> QED BY <1>1, <1>2 DEF FilesForm

\* The file p of the step w is written, which leaves f and the step r.
WritesOne(c, d, A, B, w, p, f, r) ==
    /\ StepOK(c, {}, A, w) /\ w.op = "files" /\ p \in DOMAIN w.todo
    /\ f = Restrict(w.todo, DOMAIN w.todo \ {p}) /\ Leaves(w, r, f)
    /\ c.sec \subseteq d.sec /\ d.mine = c.mine /\ A \subseteq B
    /\ w.keep => w.todo[p] \in B

\* What is left of it is in order once one file is written and its blob stored.
LEMMA FilesLeftOK ==
    ASSUME NEW c, NEW d, NEW A, NEW B, NEW w, NEW p, NEW f, NEW r, WritesOne(c, d, A, B, w, p, f, r)
    PROVE  StepOK(d, {}, B, r) /\ B \cup Writes(r) = B \cup Writes(w) /\ (DOMAIN f = {} => Writes(w) \subseteq B)
<1>0. /\ StepOK(c, {}, A, w) /\ w.op = "files" /\ p \in DOMAIN w.todo
      /\ f = Restrict(w.todo, DOMAIN w.todo \ {p}) /\ Leaves(w, r, f)
      /\ c.sec \subseteq d.sec /\ d.mine = c.mine /\ A \subseteq B
      /\ w.keep => w.todo[p] \in B
  BY DEF WritesOne
<1> USE <1>0
<1>1. DOMAIN f = DOMAIN w.todo \ {p} /\ \A q \in DOMAIN f : f[q] = w.todo[q]
  BY RestrictIs
<1> HIDE DEF Restrict
<1>2. /\ FilesForm(r) /\ r.op = "files" /\ r.todo = f /\ r.keep = w.keep /\ ~r.soft
      /\ "orelse" \in DOMAIN r => "orelse" \in DOMAIN w /\ r.keep = TRUE /\ r.orelse = w.orelse
  BY DEF Leaves
<1>3. DOMAIN w.todo \subseteq Path /\ \A q \in DOMAIN w.todo : q \in c.sec \/ w.todo[q] = c.mine[q]
  BY DEF StepOK, StepTyped, StepGuarded
<1>4. StepTyped(d.n, {}, r)
  BY <1>1, <1>2, <1>3 DEF StepTyped
<1>5. StepGuarded(d.sec, d.mine, {}, r)
  BY <1>1, <1>2, <1>3 DEF StepGuarded
<1>6. StepOrdered(d.j, {}, r)
  BY <1>2 DEF StepOrdered
<1>7. ASSUME "orelse" \in DOMAIN r PROVE FallbackOK(B, f, r.orelse)
  <2> DEFINE e == r.orelse
  <2>1. w.keep = TRUE /\ FallbackOK(A, w.todo, e)
    BY <1>2, <1>7 DEF StepOK, StepStored
  <2> HIDE DEF e
  <2>2. TreeOK(B, e.bt) /\ TreeOK(B, e.ot) /\ TreeOK(B, e.tt) /\ IndexOK(B, e.before)
    BY <2>1, TreeGrows, IndexGrows DEF FallbackOK
  <2>3. \A q \in Path \ DOMAIN f : e.after[q].blob \in B \cup {None}
    <3> SUFFICES ASSUME NEW q \in Path \ DOMAIN f PROVE e.after[q].blob \in B \cup {None}
      OBVIOUS
    <3>1. CASE q = p
      <4>1. e.after[p].blob \in {w.todo[p], None} /\ w.todo[p] \in B
        BY <2>1 DEF FallbackOK
      <4> QED BY <3>1, <4>1
    <3>2. CASE q # p
      <4>1. q \in Path \ DOMAIN w.todo
        BY <1>1, <3>2
      <4> QED BY <2>1, <4>1 DEF FallbackOK
    <3> QED BY <3>1, <3>2
  <2>4. \A q \in DOMAIN f : e.after[q].blob \in {f[q], None}
    BY <1>1, <2>1 DEF FallbackOK
  <2>5. e.conflicts \subseteq Path /\ \A q \in Path : EntryOK(e.after[q])
    BY <2>1 DEF FallbackOK
  <2> QED BY <2>2, <2>3, <2>4, <2>5 DEF FallbackOK, e
<1>8. StepStored(B, r)
  BY <1>2, <1>7 DEF StepStored
<1>9. B \cup Writes(r) = B \cup Writes(w) /\ (DOMAIN f = {} => Writes(w) \subseteq B)
  <2>1. CASE w.keep
    <3>1. Writes(r) = {f[q] : q \in DOMAIN f} /\ Writes(w) = {w.todo[q] : q \in DOMAIN w.todo}
      BY <1>2, <2>1 DEF Writes
    <3>2. Writes(w) = Writes(r) \cup {w.todo[p]}
      BY <1>1, <3>1
    <3>3. DOMAIN f = {} => Writes(r) = {}
      BY <3>1
    <3> QED BY <2>1, <3>2, <3>3
  <2>2. CASE ~w.keep
    <3>1. Writes(r) = {} /\ Writes(w) = {}
      BY <1>2, <2>2 DEF Writes
    <3> QED BY <3>1
  <2> QED BY <2>1, <2>2
<1> QED BY <1>4, <1>5, <1>6, <1>8, <1>9 DEF StepOK

\* The first step of p is done in part and leaves r.
Repeats(c, d, A, B, p, r) ==
    /\ PlanOK(c, {}, A, p) /\ p # << >> /\ Numbered(c) /\ Numbered(d) /\ A \subseteq B
    /\ c.n <= d.n /\ c.j <= d.j /\ c.sec \subseteq d.sec /\ d.mine = c.mine
    /\ StepOK(d, {}, B, r) /\ r.op = Head(p).op /\ B \cup Writes(r) = B \cup Writes(Head(p))

\* A step of which only a part is done comes again with the rest.
LEMMA RepeatOK ==
    ASSUME NEW c, NEW d, NEW A, NEW B, NEW p, NEW r, Repeats(c, d, A, B, p, r)
    PROVE  PlanOK(d, {}, B, <<r>> \o Tail(p)) /\ Steps(<<r>> \o Tail(p)) = {r} \cup Steps(Tail(p))
<1>0. /\ PlanOK(c, {}, A, p) /\ p # << >> /\ Numbered(c) /\ Numbered(d) /\ A \subseteq B
      /\ c.n <= d.n /\ c.j <= d.j /\ c.sec \subseteq d.sec /\ d.mine = c.mine
      /\ StepOK(d, {}, B, r) /\ r.op = Head(p).op /\ B \cup Writes(r) = B \cup Writes(Head(p))
  BY DEF Repeats
<1> USE <1>0
<1> DEFINE w == Head(p)
           q == Tail(p)
           P == {} \cup Ops(Steps(<<r>>))
           C == B \cup Wrote(Steps(<<r>>))
<1>1. PlanOK(c, {w.op}, A \cup Writes(w), q)
  BY PlanSplits
<1>2. PlanOK(d, {}, B, <<r>>) /\ Steps(<<r>>) = {r}
  BY OneOK
<1>3. P = {w.op} /\ A \cup Writes(w) \subseteq C
  BY <1>2 DEF Ops, Wrote
<1> HIDE DEF w, q, P, C
<1>4. PlanOK(d, P, C, q)
  BY <1>1, <1>3, PlanMoves
<1>5. PlanOK(d, {}, B, <<r>> \o q)
  BY <1>2, <1>4, Follows DEF P, C
<1>6. Steps(<<r>> \o q) = {r} \cup Steps(q)
  BY <1>2, <1>4, PlanJoin DEF PlanOK
<1> QED BY <1>5, <1>6 DEF q

\* Blobs may come and files may change: what is recorded is as good as it was.
LEMMA StoreKept ==
    ASSUME HistoryInv, StoreInv, UNCHANGED history, UNCHANGED merging, index' = index, stored \subseteq stored'
    PROVE  HistoryInv' /\ StoreInv'
<1>1. HistoryInv'
  BY DEF HistoryInv, history, merging
<1>2. IndexOK(stored', index)
  BY IndexGrows DEF StoreInv
<1>3. SidecarOK(stored', sidecar)
  BY SidecarGrows DEF StoreInv
<1>4. \A c \in 1..Len(parents) : TreeOK(stored', trees[c])
  BY TreeGrows DEF StoreInv
<1>5. StoreInv'
  BY <1>2, <1>3, <1>4 DEF StoreInv, history, merging
<1> QED BY <1>1, <1>5

\* One file is written or deleted, and the rest of the plan is in order.
LEMMA TouchOK ==
    ASSUME Inv, ~Idle, UNCHANGED <<index, history, merging, saved, ghosts, bounds>>, stored \subseteq stored',
           NEW p \in Path, NEW b, work' = [work EXCEPT ![p] = b], p \in Here.sec \/ b = mine[p],
           Head(plan).op \in {"files", "delete"}, NEW r, r.op = Head(plan).op, StepOK(Here', {}, stored', r),
           stored' \cup Writes(r) = stored' \cup Writes(Head(plan)),
           \/ plan' = Tail(plan) /\ Writes(Head(plan)) \subseteq stored'
           \/ plan' = <<r>> \o Tail(plan)
    PROVE  Inv'
<1> DEFINE w == Head(plan)
           d == Context(Len(parents'), journal', mine', warned', stored', snaps')
<1>1. /\ UNCHANGED history /\ UNCHANGED merging /\ index' = index /\ parents' = parents
      /\ journal' = journal /\ mine' = mine /\ warned' = warned /\ snaps' = snaps /\ open' = open /\ faults' = faults
  BY DEF history, saved, ghosts, bounds
<1>2. HistoryInv' /\ StoreInv'
  BY <1>1, StoreKept DEF Inv
<1>3. FaultInv'
  BY <1>1 DEF Inv, FaultInv
<1>4. Here.n = Len(parents) /\ Here.j = journal /\ Here.mine = mine /\ Here.sec = Secured(mine, warned, stored, snaps)
  BY DEF Here, Context
<1>5. d.n = Len(parents) /\ d.j = journal /\ d.mine = mine /\ d.sec = Secured(mine, warned, stored', snaps)
  BY <1>1 DEF Context
<1>6. Here' = d
  BY DEF Here
<1> HIDE DEF d
<1>7. Here.sec \subseteq d.sec
  BY <1>4, <1>5, SecuredGrows
<1>8. WorkInv'
  <2>1. /\ work = [q \in Path |-> work[q]] /\ mine = [q \in Path |-> mine[q]]
        /\ \A q \in Path : q \in Here.sec \/ work[q] = mine[q]
    BY <1>4 DEF Inv, WorkInv
  <2>2. work' = [q \in Path |-> work'[q]] /\ \A q \in Path : work'[q] = IF q = p THEN b ELSE work[q]
    BY <2>1
  <2>3. \A q \in Path : q \in Secured(mine', warned', stored', snaps') \/ work'[q] = mine'[q]
    BY <1>1, <1>5, <1>7, <2>1, <2>2
  <2> QED BY <1>1, <2>1, <2>2, <2>3 DEF WorkInv
<1>9. /\ PlanOK(Here, {}, stored, plan) /\ plan # << >> /\ Numbered(Here) /\ Len(parents) \in Nat /\ journal \in Nat
      /\ Closes(open, plan) /\ open \in BOOLEAN
  BY HeadOK DEF Now, Inv, PlanInv, FaultInv, Numbered
<1>10. Numbered(d)
  BY <1>5, <1>9 DEF Numbered
<1>11. Steps(plan) = {w} \cup Steps(Tail(plan))
  BY <1>9, PlanSplits
<1>12. PlanOK(d, {}, stored', plan') /\ Closes(open', plan')
  <2>1. ASSUME plan' = Tail(plan), Writes(w) \subseteq stored'
        PROVE  PlanOK(d, {}, stored', plan') /\ Closes(open', plan')
    <3>1. Advances(Here, stored, w, d, stored')
      BY <1>4, <1>5, <1>7, <1>9, <1>10, <2>1 DEF Advances, Known
    <3>2. PlanOK(d, {}, stored', plan')
      BY <1>9, <2>1, <3>1, RestOK
    <3>3. Closes(open', plan')
      BY <1>1, <1>9, <2>1, ClosesOn
    <3> QED BY <3>2, <3>3
  <2>2. ASSUME plan' = <<r>> \o Tail(plan) PROVE PlanOK(d, {}, stored', plan') /\ Closes(open', plan')
    <3> DEFINE c == Here
               A == stored
               B == stored'
               z == plan
    <3>a. PlanOK(c, {}, A, z) /\ z # << >> /\ Numbered(c) /\ Numbered(d) /\ A \subseteq B
      BY <1>9, <1>10
    <3>b. c.n <= d.n /\ c.j <= d.j /\ c.sec \subseteq d.sec /\ d.mine = c.mine
      BY <1>4, <1>5, <1>7, <1>9
    <3>c. StepOK(d, {}, B, r) /\ r.op = Head(z).op /\ B \cup Writes(r) = B \cup Writes(Head(z))
      BY <1>6
    <3>d. plan' = <<r>> \o Tail(z)
      BY <2>2
    <3> HIDE DEF c, A, B, z
    <3>e. PlanOK(d, {}, B, <<r>> \o Tail(z)) /\ Steps(<<r>> \o Tail(z)) = {r} \cup Steps(Tail(z))
      <4>1. Repeats(c, d, A, B, z, r)
        BY <3>a, <3>b, <3>c DEF Repeats
      <4> QED BY <4>1, RepeatOK
    <3>1. PlanOK(d, {}, stored', plan') /\ Steps(plan') = {r} \cup Steps(Tail(plan))
      BY <3>d, <3>e DEF B, z
    <3>2. Ops(Steps(plan')) = Ops(Steps(plan))
      BY <1>11, <3>1 DEF Ops
    <3> QED BY <1>1, <1>9, <3>1, <3>2 DEF Closes
  <2> QED BY <2>1, <2>2
<1>13. PlanInv'
  BY <1>12 DEF PlanInv, d
<1> QED BY <1>2, <1>3, <1>8, <1>13 DEF Inv

\* The writing of a file.
LEMMA StepFileInv ==
    ASSUME Inv, StepFile
    PROVE  Inv'
<1> DEFINE w == Head(plan)
           Rest(p) == [w EXCEPT !.todo = Restrict(@, DOMAIN @ \ {p})]
<1>1. /\ ~Idle /\ w.op = "files" /\ UNCHANGED <<index, history, merging, saved, ghosts, bounds>>
  BY DEF StepFile
<1>2. PICK p \in DOMAIN w.todo :
         /\ work' = [work EXCEPT ![p] = w.todo[p]]
         /\ stored' = IF w.keep THEN stored \cup {w.todo[p]} ELSE stored
         /\ plan' = IF Vacuous(Rest(p)) THEN Tail(plan) ELSE <<Rest(p)>> \o Tail(plan)
  BY DEF StepFile
<1> DEFINE r == Rest(p)
           f == Restrict(w.todo, DOMAIN w.todo \ {p})
<1>3. StepOK(Here, {}, stored, w)
  BY <1>1, HeadOK
<1>4. FilesForm(w) /\ p \in Path /\ (p \in Here.sec \/ w.todo[p] = Here.mine[p]) /\ Here.mine = mine
  BY <1>1, <1>3 DEF StepOK, StepTyped, StepGuarded, Here, Context
<1>5. Leaves(w, r, f)
  <2> HIDE DEF w
  <2> QED BY <1>4, FilesLeft
<1> HIDE DEF r
<1>6. r.op = "files" /\ (Vacuous(r) <=> DOMAIN f = {})
  BY <1>5 DEF Leaves, Vacuous
<1>7. stored \subseteq stored' /\ (w.keep => w.todo[p] \in stored')
  BY <1>2
<1>8. Here.sec \subseteq Here'.sec /\ Here'.mine = Here.mine
  <2>1. mine' = mine /\ warned' = warned /\ snaps' = snaps
    BY <1>1 DEF ghosts, saved
  <2>2. Secured(mine, warned, stored, snaps) \subseteq Secured(mine, warned, stored', snaps)
    BY <1>7, SecuredGrows
  <2> QED BY <2>1, <2>2 DEF Here, Context
<1>9. /\ StepOK(Here', {}, stored', r) /\ stored' \cup Writes(r) = stored' \cup Writes(w)
      /\ (DOMAIN f = {} => Writes(w) \subseteq stored')
  <2> DEFINE d == Here'
             c == Here
             A == stored
             B == stored'
  <2>1. f = Restrict(w.todo, DOMAIN w.todo \ {p})
    OBVIOUS
  <2>2. StepOK(c, {}, A, w) /\ c.sec \subseteq d.sec /\ d.mine = c.mine /\ w.op = "files" /\ p \in DOMAIN w.todo
    BY <1>1, <1>2, <1>3, <1>8
  <2>3. A \subseteq B /\ (w.keep => w.todo[p] \in B) /\ Leaves(w, r, f)
    BY <1>5, <1>7
  <2> HIDE DEF w, f, d, c, A, B
  <2>4. StepOK(d, {}, B, r) /\ B \cup Writes(r) = B \cup Writes(w) /\ (DOMAIN f = {} => Writes(w) \subseteq B)
    <3>1. WritesOne(c, d, A, B, w, p, f, r)
      BY <2>1, <2>2, <2>3 DEF WritesOne
    <3> QED BY <3>1, FilesLeftOK
  <2> QED BY <2>4 DEF d, B
<1>10. \/ plan' = Tail(plan) /\ Writes(w) \subseteq stored'
       \/ plan' = <<r>> \o Tail(plan)
  <2>1. plan' = IF Vacuous(r) THEN Tail(plan) ELSE <<r>> \o Tail(plan)
    BY <1>2 DEF r
  <2> QED BY <1>6, <1>9, <2>1
<1> DEFINE b == w.todo[p]
<1>11. work' = [work EXCEPT ![p] = b] /\ (p \in Here.sec \/ b = mine[p])
  BY <1>2, <1>4
<1> HIDE DEF b, f
<1> QED BY <1>1, <1>4, <1>6, <1>7, <1>9, <1>10, <1>11, TouchOK

\* The deletion of a file.
LEMMA StepDeleteInv ==
    ASSUME Inv, StepDelete
    PROVE  Inv'
<1> DEFINE w == Head(plan)
           Rest(p) == [w EXCEPT !.gone = @ \ {p}]
<1>1. /\ ~Idle /\ w.op = "delete" /\ UNCHANGED <<index, history, merging, saved, ghosts, bounds>> /\ stored' = stored
  BY DEF StepDelete
<1>2. PICK p \in w.gone :
         /\ work' = [work EXCEPT ![p] = None]
         /\ plan' = IF Vacuous(Rest(p)) THEN Tail(plan) ELSE <<Rest(p)>> \o Tail(plan)
  BY DEF StepDelete
<1> DEFINE r == Rest(p)
           g == w.gone \ {p}
<1>3. StepOK(Here, {}, stored, w)
  BY <1>1, HeadOK
<1>4. /\ w = [op |-> "delete", gone |-> w.gone, soft |-> w.soft] /\ w.gone \subseteq Path
      /\ w.gone \subseteq Here.sec
  BY <1>1, <1>3 DEF StepOK, StepTyped, StepGuarded
<1>5. r = [op |-> "delete", gone |-> g, soft |-> w.soft]
  <2> DEFINE a == w.gone
             s == w.soft
             u == [op |-> "delete", gone |-> a, soft |-> s]
             v == [op |-> "delete", gone |-> g, soft |-> s]
  <2>1. w = u /\ r = [w EXCEPT !.gone = g]
    BY <1>4
  <2> HIDE DEF w, g, a, s, r
  <2>2. r = [u EXCEPT !.gone = g]
    <3> HIDE DEF u
    <3> QED BY <2>1, Zenon
  <2>3. [u EXCEPT !.gone = g] = v
    BY SMT
  <2>4. r = v
    <3> HIDE DEF u, v
    <3> QED BY <2>2, <2>3, Zenon
  <2> QED BY <2>4 DEF s
<1> HIDE DEF r
<1>6. r.op = "delete" /\ r.gone = g /\ r.soft = w.soft /\ g \subseteq Path /\ g \subseteq Here.sec
  BY <1>4, <1>5
<1>7. Here' = Here
  BY <1>1 DEF Here, ghosts, saved, history
<1>8. Writes(r) = {} /\ Writes(w) = {}
  BY <1>1, <1>6 DEF Writes
<1>9. StepOK(Here, {}, stored, r)
  <2>1. StepTyped(Here.n, {}, r)
    BY <1>5, <1>6 DEF StepTyped, Hard
  <2>2. StepStored(stored, r) /\ StepOrdered(Here.j, {}, r) /\ StepGuarded(Here.sec, Here.mine, {}, r)
    BY <1>6 DEF StepStored, StepOrdered, StepGuarded
  <2> QED BY <2>1, <2>2 DEF StepOK
<1>10. plan' = Tail(plan) \/ plan' = <<r>> \o Tail(plan)
  BY <1>2 DEF r
<1>11. p \in Path /\ p \in Here.sec /\ work' = [work EXCEPT ![p] = None]
  BY <1>2, <1>4
<1> QED BY <1>1, <1>6, <1>7, <1>8, <1>9, <1>10, <1>11, TouchOK

\* A command goes on with what it reads now.
LEMMA StepThenInv ==
    ASSUME Inv, StepThen
    PROVE  Inv'
<1> DEFINE w == Head(plan)
           c == w.call
           q == Tail(plan)
<1>0. PICK next \in Continuations(c) : plan' = Needed(next) \o q
  BY DEF StepThen
<1> DEFINE z == Needed(next)
<1>1. ~Idle /\ w.op = "then" /\ plan' = z \o q /\ UNCHANGED <<files, history, merging, saved, ghosts, bounds>>
  BY <1>0 DEF StepThen
<1>2. /\ StepOK(Here, {}, stored, w) /\ PlanOK(Here, {}, stored, plan) /\ plan # << >> /\ Now(Here)
  BY <1>1, HeadOK
<1>3. HistoryInv /\ StoreInv
  BY DEF Inv
<1>4. Path \subseteq Here.sec /\ c.name \in Handovers
  BY <1>1, <1>2 DEF StepOK, StepGuarded, StepTyped
<1>5. PlanOK(Here, {}, stored, next) /\ "begin" \notin Ops(Steps(next))
  <2> DEFINE k == Here
  <2>1. Path \subseteq k.sec /\ Now(k)
    BY <1>2, <1>4
  <2> HIDE DEF c, k
  <2>2. CASE c.name = "policy"
    <3>1. next = applyMergePolicy(c.by, c.of)
      BY <1>0, <2>2 DEF Continuations
    <3> QED BY <2>1, <3>1, PolicyStarts DEF k
  <2>3. CASE c.name = "resolve"
    <3>1. next = RunResolve(c.strat, c.paths)
      BY <1>0, <2>3 DEF Continuations
    <3>2. c.paths \cap Path \subseteq k.sec
      BY <2>1
    <3> QED BY <1>3, <2>1, <3>1, <3>2, ResolveStarts DEF k
  <2>4. CASE c.name = "continue"
    <3>1. next = RunMergeContinue \/ next \in AskPlans(UnresolvedPaths(sidecar))
      BY <1>0, <2>4 DEF Continuations, SettlePlans
    <3>2. CASE next = RunMergeContinue
      BY <1>3, <2>1, <3>2, ContinueStarts DEF k
    <3>3. CASE next \in AskPlans(UnresolvedPaths(sidecar))
      BY <1>3, <2>1, <3>3, AskStarts DEF k
    <3> QED BY <3>1, <3>2, <3>3
  <2>5. CASE c.name = "ask"
    <3>1. next \in AskPlans(c.todo)
      BY <1>0, <2>5 DEF Continuations
    <3> QED BY <1>3, <2>1, <3>1, AskStarts DEF k
  <2> QED BY <1>4, <2>2, <2>3, <2>4, <2>5 DEF c, Handovers
<1>6. PlanOK(Here, {}, stored, z) /\ Steps(z) = {x \in Steps(next) : ~Vacuous(x)}
  BY <1>2, <1>5, NeededOK DEF Now
<1> HIDE DEF z
<1>7. PlanOK(Here, {w.op}, stored \cup Writes(w), q) /\ Steps(plan) = {w} \cup Steps(q)
  BY <1>2, PlanSplits
<1>8. IsPlan(q) /\ \A x \in Steps(q) : IsThen(x)
  <2> HIDE DEF w, q
  <2> SUFFICES ASSUME NEW i \in DOMAIN q PROVE IsThen(q[i])
    BY <1>7 DEF PlanOK, Steps
  <2> DEFINE O == {w.op} \cup Ops(Earlier(q, i))
  <2>1. StepTyped(Here.n, O, q[i]) /\ StepOrdered(Here.j, O, q[i]) /\ "then" \in O
    BY <1>1, <1>7 DEF PlanOK, StepOK
  <2> HIDE DEF O
  <2>2. q[i].op = "then"
    BY <2>1 DEF StepOrdered
  <2> QED BY <2>1, <2>2 DEF StepTyped, Hard, IsThen
<1> HIDE DEF q
<1>9. PlanOK(Here, {}, stored, z \o q) /\ Steps(z \o q) = Steps(z) \cup Steps(q)
  <2> DEFINE P == {} \cup Ops(Steps(z))
             B == stored \cup Wrote(Steps(z))
             k == Here
  <2>1. P = {} \cup Ops(Steps(z)) /\ B = stored \cup Wrote(Steps(z)) /\ PlanOK(k, {}, stored, z) /\ Path \subseteq k.sec
    BY <1>4, <1>6
  <2> HIDE DEF P, B, k
  <2>2. PlanOK(k, P, B, q)
    BY <1>8, <2>1, ThensOK
  <2>3. PlanOK(k, {}, stored, z \o q)
    BY <2>1, <2>2, Follows
  <2>4. Steps(z \o q) = Steps(z) \cup Steps(q)
    BY <2>1, <1>8, PlanJoin DEF PlanOK
  <2> QED BY <2>3, <2>4 DEF k
<1>10. Here' = Here /\ stored' = stored /\ open' = open
  BY <1>1 DEF Here, files, history, saved, ghosts
<1>11. ~open
  <2>1. Ops(Steps(plan)) \subseteq {"then"}
    BY <1>1, <1>7, <1>8 DEF Ops, IsThen
  <2> QED BY <2>1 DEF Inv, PlanInv, Closes
<1>12. "begin" \notin Ops(Steps(plan'))
  BY <1>1, <1>5, <1>6, <1>8, <1>9 DEF Ops, IsThen
<1>13. PlanInv'
  <2>1. PlanOK(Here', {}, stored', plan')
    BY <1>1, <1>9, <1>10
  <2>2. Closes(open', plan')
    BY <1>10, <1>11, <1>12 DEF Closes
  <2> QED BY <2>1, <2>2 DEF PlanInv, Here
<1>14. HistoryInv' /\ StoreInv' /\ WorkInv' /\ FaultInv'
  BY <1>1 DEF Inv, HistoryInv, StoreInv, WorkInv, FaultInv, history, merging, files, saved, ghosts, bounds
<1> QED BY <1>13, <1>14 DEF Inv

\* A write fails.
LEMMA FailInv ==
    ASSUME Inv, Fail
    PROVE  Inv'
<1> DEFINE w == Head(plan)
           renders == w.op = "files" /\ "orelse" \in DOMAIN w
           d == Context(Len(parents'), journal', mine', warned', stored', snaps')
<1>1. /\ ~Idle /\ w.op \notin {"hang", "then"} /\ faults < MaxFaults /\ faults' = faults + 1
      /\ plan' = IF w.soft THEN Tail(plan) ELSE IF renders THEN Fallback(w) ELSE << >>
      /\ open' = (open /\ (w.soft \/ renders))
      /\ journal' = IF w.op = "end" THEN journal + 1 ELSE journal
      /\ warned' = (warned \/ w.op = "snap")
      /\ UNCHANGED <<files, history, merging, snaps, newest, mine, past, commands, edits>>
  BY DEF Fail
<1>2. /\ StepOK(Here, {}, stored, w) /\ PlanOK(Here, {}, stored, plan) /\ plan # << >> /\ Now(Here)
      /\ Len(parents) \in Nat
  BY <1>1, HeadOK
<1>3. /\ parents' = parents /\ mine' = mine /\ stored' = stored /\ snaps' = snaps /\ work' = work
      /\ HistoryInv' /\ StoreInv'
  BY <1>1 DEF Inv, HistoryInv, StoreInv, history, merging, files
<1>4. /\ faults \in 0..MaxFaults /\ journal \in 0..faults /\ open \in BOOLEAN /\ MaxFaults \in Nat
      /\ work = [q \in Path |-> work[q]] /\ mine = [q \in Path |-> mine[q]]
      /\ \A q \in Path : q \in Secured(mine, warned, stored, snaps) \/ work[q] = mine[q]
      /\ Closes(open, plan)
  BY WorkspaceAssumption DEF Inv, FaultInv, WorkInv, PlanInv
<1>5. Here.n = Len(parents) /\ Here.j = journal /\ Here.mine = mine /\ Here.sec = Secured(mine, warned, stored, snaps)
  BY DEF Here, Context
<1>6. d.n = Len(parents) /\ d.j = journal' /\ d.mine = mine /\ d.sec = Secured(mine, warned', stored, snaps)
  BY <1>3 DEF Context
<1>7. FaultInv' /\ journal' \in Nat /\ journal <= journal'
  <2>1. journal' \in 0..faults' /\ faults' \in 0..MaxFaults /\ journal <= journal'
    BY <1>1, <1>4
  <2>2. open' \in BOOLEAN
    BY <1>1
  <2> QED BY <2>1, <2>2 DEF FaultInv
<1>8. Here.sec \subseteq d.sec /\ Numbered(d) /\ Numbered(Here)
  <2>1. warned => warned'
    BY <1>1
  <2>2. Secured(mine, warned, stored, snaps) \subseteq Secured(mine, warned', stored, snaps)
    BY <2>1, SecuredGrows
  <2> QED BY <1>2, <1>5, <1>6, <1>7, <2>2 DEF Numbered, Now
<1> HIDE DEF d
<1>9. WorkInv'
  BY <1>3, <1>4, <1>5, <1>6, <1>8 DEF WorkInv
<1>10. PlanOK(d, {}, stored', plan') /\ Closes(open', plan')
  <2>1. CASE w.soft
    <3>1. w.op \notin Hard
      BY <1>2, <2>1 DEF StepOK, StepTyped
    <3>2. Writes(w) = {} /\ Known(Here.n, {w.op}) = Here.n
      BY <3>1 DEF Writes, Known, Hard
    <3>3. w.op = "snap" => Path \subseteq d.sec
      BY <1>1, <1>6 DEF Secured
    <3>4. Advances(Here, stored, w, d, stored)
      BY <1>2, <1>5, <1>6, <1>7, <1>8, <3>2, <3>3 DEF Advances, Numbered
    <3>5. PlanOK(d, {}, stored, Tail(plan))
      BY <1>2, <3>4, RestOK
    <3>6. Closes(w.op = "begin" \/ (open /\ w.op # "end"), Tail(plan))
      BY <1>1, <1>2, <1>4, ClosesOn
    <3>7. plan' = Tail(plan) /\ open' = open /\ w.op # "begin" /\ w.op # "end"
      BY <1>1, <1>4, <2>1, <3>1 DEF Hard
    <3> QED BY <1>3, <3>5, <3>6, <3>7 DEF Closes
  <2>2. CASE ~w.soft /\ renders
    <3>1. plan' = Fallback(w)
      BY <1>1, <2>2
    <3>2. FallbackOK(stored, w.todo, w.orelse)
      BY <1>2, <2>2 DEF StepOK, StepStored
    <3> HIDE DEF w
    <3>3. PlanOK(d, {}, stored, Fallback(w)) /\ "end" \in Ops(Steps(Fallback(w)))
      BY <1>8, <3>2, FallbackStarts
    <3> QED BY <1>3, <3>1, <3>3 DEF Closes
  <2>3. CASE ~w.soft /\ ~renders
    <3>1. plan' = << >> /\ ~open'
      BY <1>1, <2>3
    <3>2. PlanOK(d, {}, stored', << >>) /\ Steps(<< >>) = {}
      BY NoPlanOK
    <3> QED BY <3>1, <3>2 DEF Closes, Ops
  <2> QED BY <2>1, <2>2, <2>3
<1>11. PlanInv'
  BY <1>10 DEF PlanInv, d
<1> QED BY <1>3, <1>7, <1>9, <1>11 DEF Inv

\* The process dies.
LEMMA CrashInv ==
    ASSUME Inv, Crash
    PROVE  Inv'
<1>1. /\ faults < MaxFaults /\ faults' = faults + 1 /\ plan' = << >> /\ open' = FALSE
      /\ journal' = IF open THEN journal + 1 ELSE journal
      /\ UNCHANGED <<files, history, merging, snaps, newest, ghosts, commands, edits>>
  BY DEF Crash
<1>2. HistoryInv' /\ StoreInv' /\ WorkInv'
  BY <1>1 DEF Inv, HistoryInv, StoreInv, WorkInv, history, merging, files, ghosts
<1>3. FaultInv'
  <2>1. faults \in 0..MaxFaults /\ journal \in 0..faults /\ MaxFaults \in Nat
    BY WorkspaceAssumption DEF Inv, FaultInv
  <2>2. faults' \in 0..MaxFaults /\ journal' \in 0..faults'
    BY <1>1, <2>1
  <2>3. open' \in BOOLEAN
    BY <1>1
  <2> QED BY <2>2, <2>3 DEF FaultInv
<1>4. PlanInv'
  <2>1. /\ PlanOK(Context(Len(parents'), journal', mine', warned', stored', snaps'), {}, stored', << >>)
        /\ Steps(<< >>) = {}
    BY NoPlanOK
  <2> QED BY <1>1, <2>1 DEF PlanInv, Closes, Ops
<1> QED BY <1>2, <1>3, <1>4 DEF Inv

\* The user edits a file.
LEMMA EditInv ==
    ASSUME Inv, NEW p \in Path, NEW b, UserEdit(p, b)
    PROVE  Inv'
<1>1. /\ plan = << >> /\ work' = [work EXCEPT ![p] = b] /\ mine' = [mine EXCEPT ![p] = b]
      /\ UNCHANGED <<index, stored, history, merging, saved, warned, past, commands, faults, cmd, plan>>
  BY DEF UserEdit, Idle
<1>2. HistoryInv' /\ StoreInv' /\ FaultInv'
  BY <1>1 DEF Inv, HistoryInv, StoreInv, FaultInv, history, merging, saved
<1>3. WorkInv'
  <2>1. /\ work = [q \in Path |-> work[q]] /\ mine = [q \in Path |-> mine[q]]
        /\ \A q \in Path : q \in Secured(mine, warned, stored, snaps) \/ work[q] = mine[q]
    BY DEF Inv, WorkInv
  <2>2. /\ work' = [q \in Path |-> work'[q]] /\ mine' = [q \in Path |-> mine'[q]]
        /\ \A q \in Path : /\ work'[q] = IF q = p THEN b ELSE work[q]
                           /\ mine'[q] = IF q = p THEN b ELSE mine[q]
    BY <1>1, <2>1
  <2>3. stored' = stored /\ snaps' = snaps /\ warned' = warned
    BY <1>1 DEF saved
  <2>4. ASSUME NEW q \in Path PROVE q \in Secured(mine', warned', stored', snaps') \/ work'[q] = mine'[q]
    BY <2>1, <2>2, <2>3 DEF Secured
  <2> QED BY <2>2, <2>4 DEF WorkInv
<1>4. PlanInv'
  <2>1. /\ PlanOK(Context(Len(parents'), journal', mine', warned', stored', snaps'), {}, stored', << >>)
    BY NoPlanOK
  <2>2. Closes(open', plan')
    BY <1>1 DEF Inv, PlanInv, saved
  <2> QED BY <1>1, <2>1, <2>2 DEF PlanInv
<1> QED BY <1>2, <1>3, <1>4 DEF Inv

----------------------------------------------------------------------------
(* The start                                                               *)

Made(t) == IF t = << >> THEN << >> ELSE <<t>>
Grown(f) == Made(f.base) \o Made(f.ours) \o Made(f.theirs)
Line(a, b) == [old |-> a, new |-> b, undo |-> FALSE]
Logged(c) == IF c = NoCommit THEN << >> ELSE IF c = 1 THEN <<Line(NoCommit, 1)>>
             ELSE <<Line(NoCommit, 1), Line(1, c)>>
OursOf(f) == IF f.base = << >> THEN NoCommit ELSE IF f.ours = << >> THEN 1 ELSE 2
TheirsOf(f) == IF f.theirs = << >> THEN (IF f.hasSide THEN 1 ELSE NoCommit) ELSE Len(Grown(f))

\* A set of trees and how many there are.
LEMMA GrownIs ==
    ASSUME NEW f \in Forks
    PROVE  /\ IsPlan(Grown(f)) /\ Len(Grown(f)) \in Nat /\ DOMAIN Grown(f) = 1..Len(Grown(f))
           /\ \A c \in DOMAIN Grown(f) : Grown(f)[c] = [p \in Path |-> Grown(f)[c][p]]
           /\ OursOf(f) \in 0..Len(Grown(f)) /\ TheirsOf(f) \in 0..Len(Grown(f))
           /\ f.base # << >> => 1 \in 0..Len(Grown(f))
<1> DEFINE X == {f.base, f.ours, f.theirs} \ {<< >>}
           One(t) == IF t = << >> THEN 0 ELSE 1
<1>1. /\ \A t \in {f.base, f.ours, f.theirs} : t = << >> \/ t \in [Path -> Range(t)]
      /\ f.base = << >> => f.ours = << >> /\ (f.hasSide => f.theirs # << >>)
  BY WorkspaceAssumption
<1>2. ASSUME NEW t \in {f.base, f.ours, f.theirs} PROVE Made(t) \in Seq(X) /\ Len(Made(t)) = One(t)
  <2>1. CASE t = << >>
    BY <2>1 DEF Made
  <2>2. CASE t # << >>
    <3>1. t \in X
      BY <2>2
    <3> HIDE DEF X
    <3>2. <<t>> \in Seq(X) /\ Len(<<t>>) = 1
      BY <3>1
    <3> QED BY <2>2, <3>2 DEF Made
  <2> QED BY <2>1, <2>2
<1>3. /\ Made(f.base) \in Seq(X) /\ Made(f.ours) \in Seq(X) /\ Made(f.theirs) \in Seq(X)
      /\ Len(Made(f.base)) = One(f.base) /\ Len(Made(f.ours)) = One(f.ours) /\ Len(Made(f.theirs)) = One(f.theirs)
  BY <1>2
<1>4. \A t \in X : t = [p \in Path |-> t[p]]
  BY <1>1
<1> HIDE DEF X
<1>5. /\ Made(f.base) \o Made(f.ours) \in Seq(X)
      /\ Len(Made(f.base) \o Made(f.ours)) = One(f.base) + One(f.ours)
  BY <1>3, ConcatProperties
<1>6. Grown(f) \in Seq(X) /\ Len(Grown(f)) = One(f.base) + One(f.ours) + One(f.theirs)
  BY <1>3, <1>5, ConcatProperties DEF Grown
<1> DEFINE g == Grown(f)
           n == Len(g)
<1> HIDE DEF g
<1>7. g \in Seq(X) /\ n = One(f.base) + One(f.ours) + One(f.theirs)
  BY <1>6 DEF g
<1>8. IsPlan(g) /\ n \in Nat /\ DOMAIN g = 1..n /\ \A c \in DOMAIN g : g[c] \in X
  BY <1>7 DEF IsPlan
<1>9. OursOf(f) \in 0..n /\ (f.base # << >> => 1 \in 0..n)
  BY <1>1, <1>7 DEF OursOf, NoCommit
<1>10. TheirsOf(f) \in 0..n
  BY <1>1, <1>7, <1>9 DEF TheirsOf, NoCommit, g
<1> QED BY <1>4, <1>8, <1>9, <1>10 DEF g

\* The log of a branch names its commit and the one before.
LEMMA LoggedIn ==
    ASSUME NEW n \in Nat, NEW c \in 0..n
    PROVE  Logged(c) \in Seq(LogLine(n))
<1>0. NoCommit = 0
  BY DEF NoCommit
<1>1. CASE c = 0
  BY <1>0, <1>1 DEF Logged
<1>2. ASSUME c # 0 PROVE Line(NoCommit, 1) \in LogLine(n)
  BY <1>0, <1>2 DEF Line, LogLine
<1>3. ASSUME c # 0 PROVE Line(1, c) \in LogLine(n)
  BY <1>3 DEF Line, LogLine
<1>4. CASE c # 0
  <2> DEFINE a == Line(NoCommit, 1)
             b == Line(1, c)
             S == LogLine(n)
  <2>1. a \in S /\ b \in S
    BY <1>2, <1>3, <1>4
  <2>2. Logged(c) = <<a>> \/ Logged(c) = <<a, b>>
    BY <1>0, <1>4 DEF Logged
  <2> HIDE DEF a, b, S
  <2>3. <<a>> \in Seq(S) /\ <<a, b>> \in Seq(S)
    BY <2>1
  <2> QED BY <2>2, <2>3 DEF S
<1> QED BY <1>1, <1>4

\* A run starts well.
LEMMA InitInv ==
    ASSUME Init
    PROVE  Inv
<1>1. PICK f \in Forks : InitFork(f)
  BY DEF Init
<1> DEFINE g == Grown(f)
           n == Len(g)
           ours == OursOf(f)
           theirs == TheirsOf(f)
<1>2. /\ trees = g
      /\ parents = [c \in DOMAIN g |-> IF c = 1 \/ f.base = << >> THEN << >> ELSE <<1>>]
      /\ stored = (UNION {Range(g[c]) : c \in DOMAIN g}) \ {None}
      /\ branch = [b \in Branch |-> IF b = f.main THEN ours ELSE IF b = f.side THEN theirs
                                    ELSE IF f.base = << >> THEN NoCommit ELSE 1]
      /\ head = f.main
      /\ logs = [b \in Branch |-> Logged(branch[b])]
      /\ headLog = {NoCommit} \cup DOMAIN g
      /\ index = checkoutIndex(IF ours = NoCommit THEN NoTree ELSE g[ours])
      /\ work = IF ours = NoCommit THEN NoTree ELSE g[ours]
  BY <1>1 DEF InitFork, Grown, Made, OursOf, TheirsOf, Logged, Line
<1>3. /\ mergeHead = NoCommit /\ sidecar = NoSidecar /\ journal = 0 /\ open = FALSE /\ plan = << >>
      /\ mine = NoTree /\ faults = 0
  BY DEF Init
<1>4. /\ IsPlan(g) /\ n \in Nat /\ DOMAIN g = 1..n /\ (\A c \in DOMAIN g : g[c] = [p \in Path |-> g[c][p]])
      /\ ours \in 0..n /\ theirs \in 0..n /\ (f.base # << >> => 1 \in 0..n) /\ NoCommit = 0
  BY GrownIs DEF NoCommit
<1>5. f.main \in Branch
  BY WorkspaceAssumption
<1> HIDE DEF g, ours, theirs
<1>6. IsGraph(parents) /\ Len(parents) = n
  <2>1. DOMAIN parents = 1..n /\ \A c \in 1..n : parents[c] = IF c = 1 \/ f.base = << >> THEN << >> ELSE <<1>>
    BY <1>2, <1>4
  <2>2. \A c \in 1..n : parents[c] \in Seq(Nat)
    <3>1. << >> \in Seq(Nat) /\ <<1>> \in Seq(Nat)
      OBVIOUS
    <3> QED BY <2>1, <3>1
  <2>3. parents \in [1..n -> Seq(Nat)]
    BY <1>2, <1>4, <2>1, <2>2
  <2>4. parents \in Seq(Seq(Nat)) /\ Len(parents) = n
    BY <1>4, <2>3, SeqDef, LenProperties
  <2>5. ASSUME NEW c \in 1..n, NEW i \in DOMAIN parents[c] PROVE parents[c][i] \in 1..(c - 1)
    <3>1. CASE c = 1 \/ f.base = << >>
      BY <2>1, <3>1
    <3>2. CASE ~(c = 1 \/ f.base = << >>)
      <4>1. parents[c] = <<1>> /\ 1 \in 1..(c - 1)
        BY <1>4, <2>1, <3>2
      <4> QED BY <4>1
    <3> QED BY <3>1, <3>2
  <2> QED BY <2>1, <2>4, <2>5 DEF IsGraph
<1>7. branch \in [Branch -> 0..n] /\ head \in Branch /\ mergeHead \in 0..n /\ headLog \subseteq 0..n
  BY <1>2, <1>3, <1>4, <1>5
<1>8. logs \in [Branch -> Seq(LogLine(n))]
  BY <1>2, <1>4, <1>7, LoggedIn
<1>9. HistoryInv
  BY <1>2, <1>3, <1>4, <1>6, <1>7, <1>8 DEF HistoryInv
<1>10. \A c \in 1..n : TreeOK(stored, g[c])
  <2> SUFFICES ASSUME NEW c \in 1..n PROVE TreeOK(stored, g[c])
    OBVIOUS
  <2> DEFINE t == g[c]
  <2>1. t = [p \in Path |-> t[p]]
    BY <1>4
  <2>2. DOMAIN t = Path
    BY <2>1
  <2>3. Range(t) \subseteq stored \cup {None}
    <3>1. Range(t) \in {Range(g[k]) : k \in DOMAIN g} /\ stored = (UNION {Range(g[k]) : k \in DOMAIN g}) \ {None}
      BY <1>2, <1>4
    <3> DEFINE R == {Range(g[k]) : k \in DOMAIN g}
    <3> HIDE DEF R
    <3>2. Range(t) \in R /\ stored = (UNION R) \ {None}
      BY <3>1 DEF R
    <3> QED BY <3>2
  <2> HIDE DEF t
  <2>4. \A q \in Path : t[q] \in stored \cup {None}
    BY <2>2, <2>3 DEF Range
  <2> QED BY <2>2, <2>4 DEF TreeOK, t
<1>11. TreeOK(stored, IF ours = NoCommit THEN NoTree ELSE g[ours])
  <2>1. CASE ours = NoCommit
    BY <2>1 DEF NoTree, TreeOK
  <2>2. CASE ours # NoCommit
    <3>1. ours \in 1..n
      BY <1>4, <2>2
    <3> QED BY <1>10, <2>2, <3>1
  <2> QED BY <2>1, <2>2
<1>12. StoreInv
  <2>1. IndexOK(stored, index)
    BY <1>2, <1>11, CheckoutOK
  <2> QED BY <1>2, <1>3, <1>6, <1>10, <2>1, NoSidecarOK DEF StoreInv
<1>13. WorkInv
  <2>1. work = [q \in Path |-> work[q]]
    <3>1. CASE ours = NoCommit
      BY <1>2, <3>1 DEF NoTree
    <3>2. CASE ours # NoCommit
      <4>1. ours \in 1..n
        BY <1>4, <3>2
      <4> QED BY <1>2, <1>4, <3>2, <4>1
    <3> QED BY <3>1, <3>2
  <2>2. mine = [q \in Path |-> mine[q]] /\ \A q \in Path : mine[q] = None
    BY <1>3 DEF NoTree
  <2> QED BY <2>1, <2>2 DEF WorkInv, Secured
<1>14. FaultInv
  <2>1. MaxFaults \in Nat
    BY WorkspaceAssumption
  <2>2. faults \in 0..MaxFaults /\ journal \in 0..faults
    BY <1>3, <2>1
  <2>3. open \in BOOLEAN
    BY <1>3
  <2> QED BY <2>2, <2>3 DEF FaultInv
<1>15. PlanInv
  <2>1. PlanOK(Context(Len(parents), journal, mine, warned, stored, snaps), {}, stored, << >>) /\ Steps(<< >>) = {}
    BY NoPlanOK
  <2> QED BY <1>3, <2>1 DEF PlanInv, Closes, Ops
<1> QED BY <1>9, <1>12, <1>13, <1>14, <1>15 DEF Inv

\* Every step keeps the invariant.
LEMMA NextInv ==
    ASSUME Inv, [Next]_vars
    PROVE  Inv'
<1>1. ASSUME Idle, UserCommand PROVE Inv'
  BY <1>1, CommandOK
<1>2. ASSUME NEW p \in Path, NEW b \in UserBlob \cup {None}, UserEdit(p, b) PROVE Inv'
  BY <1>2, EditInv
<1>3. ASSUME UNCHANGED vars PROVE Inv'
  BY <1>3 DEF Inv, HistoryInv, StoreInv, WorkInv, FaultInv, PlanInv, vars, files, history, merging, saved, ghosts, bounds
<1> QED BY <1>1, <1>2, <1>3, StepInv, StepFileInv, StepDeleteInv, StepThenInv, FailInv, CrashInv DEF Next

\* The inductive invariant of the working copy holds in every state.
THEOREM InvHolds == Spec => []Inv
BY InitInv, NextInv, PTL DEF Spec

\* Whatever fails and whenever a command dies, tips, MERGE_HEAD and logs name commits of
\* the store, an entry has a blob exactly when it is in the index, and only a command with
\* writes left has a transaction open.
THEOREM TypeCorrect == Spec => []TypeOK
<1>1. Inv => TypeOK
  <2> SUFFICES ASSUME Inv PROVE TypeOK
    OBVIOUS
  <2> DEFINE n == Len(parents)
  <2>1. /\ n \in Nat /\ DOMAIN parents = 1..n /\ DOMAIN trees = 1..n /\ Commits = 1..n /\ NoCommit = 0
    BY DEF Inv, HistoryInv, IsGraph, IsPlan, Commits, NoCommit
  <2>2. {NoCommit} \cup Commits = 0..n
    BY <2>1
  <2>3. /\ branch \in [Branch -> 0..n] /\ head \in Branch /\ mergeHead \in 0..n
        /\ logs \in [Branch -> Seq(LogLine(n))] /\ headLog \subseteq 0..n
    BY DEF Inv, HistoryInv
  <2>4. \A p \in Path : index[p].state \in {"none", "unmodified", "added", "modified", "deleted"}
                        /\ (index[p].blob = None <=> index[p].state = "none")
    BY DEF Inv, StoreInv, IndexOK, EntryOK
  <2>5. sidecar.on \in BOOLEAN /\ DOMAIN sidecar.entries \subseteq Path /\ sidecar.touched \subseteq Path
    BY DEF Inv, StoreInv, SidecarOK
  <2>6. journal \in 0..MaxFaults
    <3>1. MaxFaults \in Nat
      BY WorkspaceAssumption
    <3> QED BY <3>1 DEF Inv, FaultInv
  <2>7. open => plan # << >>
    <3>1. Steps(<< >>) = {}
      BY Listed
    <3> QED BY <3>1 DEF Inv, PlanInv, Closes, Ops
  <2>8. \A b \in Branch : \A i \in DOMAIN logs[b] : logs[b][i] \in [old : {NoCommit} \cup Commits, new : Commits, undo : BOOLEAN]
    <3> HIDE DEF n
    <3>1. LogLine(n) = [old : {NoCommit} \cup Commits, new : Commits, undo : BOOLEAN]
      BY <2>1, <2>2 DEF LogLine
    <3>2. \A b \in Branch : \A i \in DOMAIN logs[b] : logs[b][i] \in LogLine(n)
      BY <2>3
    <3> QED BY <3>1, <3>2
  <2> QED BY <2>1, <2>2, <2>3, <2>4, <2>5, <2>6, <2>7, <2>8 DEF TypeOK
<1> QED BY <1>1, InvHolds, PTL

\* Whatever write a command dies or fails at, no tree of a commit, no entry of the index and
\* no side of a recorded conflict names a blob that is not stored.
THEOREM NothingEverDangles == Spec => []NothingDangles
<1>1. Inv => NothingDangles
  <2> SUFFICES ASSUME Inv PROVE NothingDangles
    OBVIOUS
  <2>1. Commits = 1..Len(parents)
    BY DEF Inv, HistoryInv, IsGraph, Commits
  <2>2. \A c \in Commits : Range(trees[c]) \subseteq stored \cup {None}
    BY <2>1 DEF Inv, StoreInv, TreeOK, Range
  <2>3. \A p \in Path : index[p].blob \in stored \cup {None}
    BY DEF Inv, StoreInv, IndexOK
  <2>4. \A p \in DOMAIN sidecar.entries :
           LET e == sidecar.entries[p] IN {e.base, e.ours, e.theirs} \subseteq stored \cup {None}
    BY DEF Inv, StoreInv, SidecarOK, ConflictOK
  <2> QED BY <2>2, <2>3, <2>4 DEF NothingDangles
<1> QED BY <1>1, InvHolds, PTL

\* Whatever the commands do, fail at or die at: what the user wrote last into a file, and
\* has not asked to discard, is on disk, in the store or in a snapshot, unless a failed
\* snapshot was reported.
THEOREM MineAlwaysKept == Spec => []MineKept
<1>1. Inv => MineKept
  BY DEF Inv, WorkInv, Secured, MineKept
<1> QED BY <1>1, InvHolds, PTL

----------------------------------------------------------------------------
(* merge --abort                                                           *)

\* The paths a step writes or deletes.
Touched(w) == IF w.op = "files" THEN DOMAIN w.todo ELSE IF w.op = "delete" THEN w.gone ELSE {}

\* The index and the record of the merge are written once no file is left to write.
FilesFirst(p) ==
    \A i \in DOMAIN p : p[i].op \in {"files", "delete"} => Ops(Earlier(p, i)) \cap {"index", "sidecar"} = {}

\* A step of the restoring of the tree t.
AbortStep(t, w) ==
    /\ w.op \in {"snap", "begin", "files", "delete", "index", "mergeHead", "sidecar", "end"}
    /\ w.soft => w.op \in {"snap", "delete"}
    /\ Touched(w) \subseteq Path
    /\ w.op = "files" => /\ "orelse" \notin DOMAIN w
                         /\ \A q \in DOMAIN w.todo : w.todo[q] = t[q] /\ q \in Present(t)
    /\ w.op = "delete" => \A q \in w.gone : t[q] = None
    /\ w.op = "index" => w.entries = checkoutIndex(t)
    /\ w.op = "mergeHead" => w.theirs = NoCommit
    /\ w.op = "sidecar" => w.conflicts = NoSidecar

\* A path may be changed: the merge touched it, or its deletion is staged.
Given(ix, sc, q) == MergeInvolved(sc, q) \/ ix[q].state = "deleted"

\* What is left to an abort, p, restores what is not yet as in t and changes nothing else.
AbortOK(t, wk, ix, sc, mh, p) ==
    LET E == Steps(p)
    IN  /\ p # << >> /\ FilesFirst(p)
        /\ \A w \in E : AbortStep(t, w)
        /\ \A w \in E : \A q \in Touched(w) : wk[q] = t[q] \/ Given(ix, sc, q)
        /\ "index" \notin Ops(E) => ix = checkoutIndex(t)
        /\ "mergeHead" \notin Ops(E) => mh = NoCommit
        /\ "sidecar" \notin Ops(E) => sc = NoSidecar
        /\ \A q \in Present(t) : wk[q] = t[q] \/ \E w \in E : w.op = "files" /\ q \in Touched(w)

AbortInv == cmd = "abort" => AbortOK(HeadTree, work, index, sidecar, mergeHead, plan)

\* The order of the steps is kept when the first is done.
LEMMA FirstTail ==
    ASSUME NEW p, IsPlan(p), p # << >>, FilesFirst(p)
    PROVE  /\ FilesFirst(Tail(p))
           /\ Head(p).op \in {"index", "sidecar"} => \A w \in Steps(Tail(p)) : w.op \notin {"files", "delete"}
<1> DEFINE q == Tail(p)
<1>1. /\ IsPlan(q) /\ Head(p) = p[1]
      /\ \A i \in DOMAIN q : /\ i + 1 \in DOMAIN p /\ q[i] = p[i + 1]
                             /\ Earlier(p, i + 1) = {p[1]} \cup Earlier(q, i)
  BY PlanTail
<1> HIDE DEF q
<1>2. ASSUME NEW i \in DOMAIN q, q[i].op \in {"files", "delete"}
      PROVE  Ops({p[1]} \cup Earlier(q, i)) \cap {"index", "sidecar"} = {}
  BY <1>1, <1>2 DEF FilesFirst
<1>3. FilesFirst(q)
  BY <1>2 DEF FilesFirst, Ops
<1>4. ASSUME Head(p).op \in {"index", "sidecar"}, NEW w \in Steps(q) PROVE w.op \notin {"files", "delete"}
  <2>1. PICK i \in DOMAIN q : w = q[i]
    BY DEF Steps
  <2>2. p[1].op \in Ops({p[1]} \cup Earlier(q, i))
    BY DEF Ops
  <2> QED BY <1>1, <1>2, <1>4, <2>1, <2>2
<1> QED BY <1>3, <1>4 DEF q

\* It is kept when the first is done in part.
LEMMA FirstAgain ==
    ASSUME NEW p, IsPlan(p), p # << >>, FilesFirst(p), NEW r, r.op = Head(p).op
    PROVE  FilesFirst(<<r>> \o Tail(p))
<1> DEFINE q == Tail(p)
           a == <<r>>
           z == a \o q
<1>1. /\ IsPlan(q) /\ Head(p) = p[1]
      /\ \A i \in DOMAIN q : /\ i + 1 \in DOMAIN p /\ q[i] = p[i + 1]
                             /\ Earlier(p, i + 1) = {p[1]} \cup Earlier(q, i)
  BY PlanTail
<1>2. IsPlan(a) /\ Steps(a) = {r} /\ DOMAIN a = {1} /\ Earlier(a, 1) = {}
  BY Listed DEF Earlier
<1> HIDE DEF q, a
<1>3. \A i \in DOMAIN z : JoinedAt(a, q, z, i)
  BY <1>1, <1>2, PlanCat DEF Joined
<1> HIDE DEF z
<1>4. ASSUME NEW i \in DOMAIN z, z[i].op \in {"files", "delete"}
      PROVE  Ops(Earlier(z, i)) \cap {"index", "sidecar"} = {}
  <2>1. CASE i \in DOMAIN a /\ z[i] = a[i] /\ Earlier(z, i) = Earlier(a, i)
    BY <1>2, <2>1 DEF Ops
  <2>2. ASSUME NEW j \in DOMAIN q, z[i] = q[j], Earlier(z, i) = Steps(a) \cup Earlier(q, j)
        PROVE  Ops(Earlier(z, i)) \cap {"index", "sidecar"} = {}
    <3>1. Ops({p[1]} \cup Earlier(q, j)) \cap {"index", "sidecar"} = {}
      BY <1>1, <1>4, <2>2 DEF FilesFirst
    <3>2. Ops(Earlier(z, i)) = Ops({p[1]} \cup Earlier(q, j))
      BY <1>1, <1>2, <2>2 DEF Ops
    <3> QED BY <3>1, <3>2
  <2> QED BY <1>3, <2>1, <2>2 DEF JoinedAt
<1> QED BY <1>4 DEF FilesFirst, z, q, a

\* It is kept when the steps with nothing to do are dropped.
LEMMA FirstNeeded ==
    ASSUME NEW p, IsPlan(p), FilesFirst(p)
    PROVE  FilesFirst(Needed(p))
<1> DEFINE q == Needed(p)
<1>1. Thinned(p, q)
  BY NeededThins
<1> HIDE DEF q
<1>2. ASSUME NEW i \in DOMAIN q, q[i].op \in {"files", "delete"}
      PROVE  Ops(Earlier(q, i)) \cap {"index", "sidecar"} = {}
  <2>1. PICK j \in DOMAIN p : q[i] = p[j] /\ Earlier(q, i) = KeptOf(p, j - 1)
    BY <1>1 DEF Thinned
  <2>2. Earlier(q, i) \subseteq Earlier(p, j)
    BY <2>1 DEF KeptOf, Earlier
  <2>3. Ops(Earlier(p, j)) \cap {"index", "sidecar"} = {}
    BY <1>2, <2>1 DEF FilesFirst
  <2> QED BY <2>2, <2>3 DEF Ops
<1> QED BY <1>2 DEF FilesFirst, q

\* A step that writes no file leaves the rest of an abort.
AbortLeaves(t, wk, ix, sc, mh, p, jx, dc, nh) ==
    /\ AbortOK(t, wk, ix, sc, mh, p)
    /\ IsPlan(p) /\ Steps(p) = {Head(p)} \cup Steps(Tail(p)) /\ Tail(p) # << >>
    /\ Head(p).op # "files"
    /\ jx = IF Head(p).op = "index" THEN Head(p).entries ELSE ix
    /\ dc = IF Head(p).op = "sidecar" THEN Head(p).conflicts ELSE sc
    /\ nh = IF Head(p).op = "mergeHead" THEN Head(p).theirs ELSE mh

\* The rest is an abort too.
LEMMA AbortGoesOn ==
    ASSUME NEW t, NEW wk, NEW ix, NEW sc, NEW mh, NEW p, NEW jx, NEW dc, NEW nh,
           AbortLeaves(t, wk, ix, sc, mh, p, jx, dc, nh)
    PROVE  AbortOK(t, wk, jx, dc, nh, Tail(p))
<1> DEFINE w == Head(p)
           q == Tail(p)
<1>1. /\ IsPlan(p) /\ Steps(p) = {w} \cup Steps(q) /\ q # << >> /\ w.op # "files"
      /\ jx = IF w.op = "index" THEN w.entries ELSE ix
      /\ dc = IF w.op = "sidecar" THEN w.conflicts ELSE sc
      /\ nh = IF w.op = "mergeHead" THEN w.theirs ELSE mh
  BY DEF AbortLeaves
<1>2. /\ p # << >> /\ FilesFirst(p)
      /\ \A x \in Steps(p) : AbortStep(t, x)
      /\ \A x \in Steps(p) : \A y \in Touched(x) : wk[y] = t[y] \/ Given(ix, sc, y)
      /\ "index" \notin Ops(Steps(p)) => ix = checkoutIndex(t)
      /\ "mergeHead" \notin Ops(Steps(p)) => mh = NoCommit
      /\ "sidecar" \notin Ops(Steps(p)) => sc = NoSidecar
      /\ \A y \in Present(t) : wk[y] = t[y] \/ \E x \in Steps(p) : x.op = "files" /\ y \in Touched(x)
  BY DEF AbortLeaves, AbortOK
<1>3. FilesFirst(q) /\ (w.op \in {"index", "sidecar"} => \A x \in Steps(q) : x.op \notin {"files", "delete"})
  BY <1>1, <1>2, FirstTail
<1> HIDE DEF w, q
<1>4. \A x \in Steps(q) : AbortStep(t, x)
  BY <1>1, <1>2
<1>5. ASSUME NEW x \in Steps(q), NEW y \in Touched(x) PROVE wk[y] = t[y] \/ Given(jx, dc, y)
  <2>1. CASE w.op \in {"index", "sidecar"}
    BY <1>3, <2>1 DEF Touched
  <2>2. CASE w.op \notin {"index", "sidecar"}
    BY <1>1, <1>2, <2>2
  <2> QED BY <2>1, <2>2
<1>6. AbortStep(t, w)
  BY <1>1, <1>2
<1>7. Ops(Steps(p)) = {w.op} \cup Ops(Steps(q))
  BY <1>1 DEF Ops
<1>8. "index" \notin Ops(Steps(q)) => jx = checkoutIndex(t)
  BY <1>1, <1>2, <1>6, <1>7 DEF AbortStep
<1>9. "mergeHead" \notin Ops(Steps(q)) => nh = NoCommit
  BY <1>1, <1>2, <1>6, <1>7 DEF AbortStep
<1>10. "sidecar" \notin Ops(Steps(q)) => dc = NoSidecar
  BY <1>1, <1>2, <1>6, <1>7 DEF AbortStep
<1>11. \A y \in Present(t) : wk[y] = t[y] \/ \E x \in Steps(q) : x.op = "files" /\ y \in Touched(x)
  BY <1>1, <1>2
<1>12. AbortOK(t, wk, jx, dc, nh, q)
  BY <1>1, <1>3, <1>4, <1>5, <1>8, <1>9, <1>10, <1>11 DEF AbortOK
<1> QED BY <1>12 DEF q

\* One file, y, of the first step is made as in t, which leaves r of the step or nothing, and the plan z.
AbortTouches(t, wk, ix, sc, mh, p, y, vk, r, z) ==
    /\ AbortOK(t, wk, ix, sc, mh, p)
    /\ IsPlan(p) /\ Steps(p) = {Head(p)} \cup Steps(Tail(p)) /\ z # << >>
    /\ y \in Touched(Head(p)) /\ Head(p).op \in {"files", "delete"}
    /\ \A x \in Path : vk[x] = IF x = y THEN t[y] ELSE wk[x]
    /\ r.op = Head(p).op /\ AbortStep(t, r) /\ Touched(r) = Touched(Head(p)) \ {y}
    /\ \/ z = Tail(p) /\ Touched(r) = {}
       \/ z = <<r>> \o Tail(p)

\* The rest is an abort too.
LEMMA AbortRestores ==
    ASSUME NEW t, NEW wk, NEW ix, NEW sc, NEW mh, NEW p, NEW y, NEW vk, NEW r, NEW z,
           AbortTouches(t, wk, ix, sc, mh, p, y, vk, r, z)
    PROVE  AbortOK(t, vk, ix, sc, mh, z)
<1> DEFINE w == Head(p)
           q == Tail(p)
<1>1. /\ IsPlan(p) /\ Steps(p) = {w} \cup Steps(q) /\ z # << >>
      /\ y \in Touched(w) /\ w.op \in {"files", "delete"}
      /\ \A x \in Path : vk[x] = IF x = y THEN t[y] ELSE wk[x]
      /\ r.op = w.op /\ AbortStep(t, r) /\ Touched(r) = Touched(w) \ {y}
      /\ \/ z = q /\ Touched(r) = {}
         \/ z = <<r>> \o q
  BY DEF AbortTouches
<1>2. /\ p # << >> /\ FilesFirst(p)
      /\ \A x \in Steps(p) : AbortStep(t, x)
      /\ \A x \in Steps(p) : \A u \in Touched(x) : wk[u] = t[u] \/ Given(ix, sc, u)
      /\ "index" \notin Ops(Steps(p)) => ix = checkoutIndex(t)
      /\ "mergeHead" \notin Ops(Steps(p)) => mh = NoCommit
      /\ "sidecar" \notin Ops(Steps(p)) => sc = NoSidecar
      /\ \A u \in Present(t) : wk[u] = t[u] \/ \E x \in Steps(p) : x.op = "files" /\ u \in Touched(x)
  BY DEF AbortTouches, AbortOK
<1>3. FilesFirst(q) /\ FilesFirst(<<r>> \o q) /\ IsPlan(q)
  BY <1>1, <1>2, FirstTail, FirstAgain, PlanTail
<1>4. Steps(<<r>> \o q) = {r} \cup Steps(q)
  BY <1>3, Listed, PlanJoin
<1> HIDE DEF w, q
<1>5. FilesFirst(z) /\ Steps(q) \subseteq Steps(z) /\ Steps(z) \subseteq {r} \cup Steps(q) /\ (Touched(r) = {} \/ r \in Steps(z))
  BY <1>1, <1>3, <1>4
<1>6. \A x \in Steps(z) : AbortStep(t, x) /\ Touched(x) \subseteq Path
  <2>1. \A x \in Steps(z) : AbortStep(t, x)
    BY <1>1, <1>2, <1>5
  <2> QED BY <2>1 DEF AbortStep
<1>7. ASSUME NEW x \in Steps(z), NEW u \in Touched(x) PROVE vk[u] = t[u] \/ Given(ix, sc, u)
  <2>1. u \in Path
    BY <1>6
  <2>2. wk[u] = t[u] \/ Given(ix, sc, u)
    BY <1>1, <1>2, <1>5
  <2> QED BY <1>1, <2>1, <2>2
<1>8. \A o \in {"index", "mergeHead", "sidecar"} : o \notin Ops(Steps(z)) => o \notin Ops(Steps(p))
  BY <1>1, <1>5 DEF Ops
<1>9. ASSUME NEW u \in Present(t) PROVE vk[u] = t[u] \/ \E x \in Steps(z) : x.op = "files" /\ u \in Touched(x)
  <2>1. u \in Path
    BY DEF Present
  <2>2. CASE u = y
    BY <1>1, <2>1, <2>2
  <2>3. CASE u # y
    <3>1. vk[u] = wk[u]
      BY <1>1, <2>1, <2>3
    <3>2. ASSUME NEW x \in Steps(p), x.op = "files", u \in Touched(x)
          PROVE  \E x2 \in Steps(z) : x2.op = "files" /\ u \in Touched(x2)
      <4>1. CASE x = w
        <5>1. u \in Touched(r) /\ r.op = "files"
          BY <1>1, <2>3, <3>2, <4>1
        <5> QED BY <1>5, <5>1
      <4>2. CASE x \in Steps(q)
        BY <1>5, <3>2, <4>2
      <4> QED BY <1>1, <4>1, <4>2
    <3> QED BY <1>2, <3>1, <3>2
  <2> QED BY <2>2, <2>3
<1> QED BY <1>1, <1>2, <1>5, <1>6, <1>7, <1>8, <1>9 DEF AbortOK

\* The order of the steps of an abort.
LEMMA AbortInOrder == IsPlan(AbortPlan) /\ FilesFirst(AbortPlan)
<1> DEFINE s1 == Snap(FALSE)
           s2 == Begin
           s3 == Files(Restrict(HeadTree, Present(HeadTree)), FALSE)
           s4 == Delete(Tracked(index) \ Present(HeadTree), TRUE)
           s5 == WriteIndex(checkoutIndex(HeadTree))
           s6 == MergeHead(NoCommit, FALSE)
           s7 == Sidecar(NoSidecar, FALSE)
           p == <<s1, s2, s3, s4, s5, s6, s7, End>>
<1>1. AbortPlan = p
  BY DEF AbortPlan
<1>2. /\ s1.op = "snap" /\ s2.op = "begin" /\ s3.op = "files" /\ s4.op = "delete" /\ s5.op = "index"
      /\ s6.op = "mergeHead" /\ s7.op = "sidecar" /\ End.op = "end"
  BY DEF Snap, Begin, Files, Delete, WriteIndex, MergeHead, Sidecar, End
<1> HIDE DEF s1, s2, s3, s4, s5, s6, s7
<1>3. IsPlan(p)
  BY Listed
<1>4. /\ DOMAIN p = 1..8 /\ p[1] = s1 /\ p[2] = s2 /\ p[3] = s3 /\ p[4] = s4 /\ p[5] = s5 /\ p[6] = s6
      /\ p[7] = s7 /\ p[8] = End
  OBVIOUS
<1> HIDE DEF p
<1>5. ASSUME NEW i \in DOMAIN p, p[i].op \in {"files", "delete"}
      PROVE  Ops(Earlier(p, i)) \cap {"index", "sidecar"} = {}
  <2>1. i = 3 \/ i = 4
    BY <1>2, <1>4, <1>5
  <2>2. \A j \in 1..(i - 1) : j = 1 \/ j = 2 \/ j = 3
    BY <2>1
  <2>3. \A x \in Earlier(p, i) : x.op \in {"snap", "begin", "files"}
    BY <1>2, <1>4, <2>2 DEF Earlier
  <2> QED BY <2>3 DEF Ops
<1> QED BY <1>1, <1>3, <1>5 DEF FilesFirst

\* The steps of an abort restore the tree of HEAD.
LEMMA AbortBegins ==
    ASSUME Inv, Abort
    PROVE  AbortOK(HeadTree, work, index, sidecar, mergeHead, Needed(AbortPlan))
<1> DEFINE t == HeadTree
           f == Restrict(t, Present(t))
           g == Tracked(index) \ Present(t)
           s1 == Snap(FALSE)
           s2 == Begin
           s3 == Files(f, FALSE)
           s4 == Delete(g, TRUE)
           s5 == WriteIndex(checkoutIndex(t))
           s6 == MergeHead(NoCommit, FALSE)
           s7 == Sidecar(NoSidecar, FALSE)
           s8 == End
           z == Needed(AbortPlan)
           E == Steps(z)
<1>1. AbortPlan = <<s1, s2, s3, s4, s5, s6, s7, s8>>
  BY DEF AbortPlan
<1>2. DOMAIN f = Present(t) /\ \A q \in Present(t) : f[q] = t[q]
  BY RestrictIs
<1>3. g \subseteq Path /\ (\A q \in g : t[q] = None) /\ Present(t) \subseteq Path
  BY DEF Present, Tracked
<1>c. \A q \in Path : q \in Present(t) \cup Live(index) => work[q] = t[q] \/ MergeInvolved(sidecar, q)
  BY DEF Abort, AbortClobbers
<1>4. \A q \in Present(t) \cup g : work[q] = t[q] \/ Given(index, sidecar, q)
  <2>1. ASSUME NEW q \in g, index[q].state # "deleted" PROVE q \in Live(index)
    BY <1>3, <2>1 DEF Tracked, Live
  <2> QED BY <1>3, <1>c, <2>1 DEF Given
<1> HIDE DEF f, g, t
<1>5. /\ AbortStep(t, s1) /\ Touched(s1) = {} /\ s1.op = "snap"
      /\ AbortStep(t, s2) /\ Touched(s2) = {} /\ s2.op = "begin"
      /\ AbortStep(t, s8) /\ Touched(s8) = {} /\ s8.op = "end"
  BY DEF AbortStep, Snap, Begin, End, Touched
<1>6. AbortStep(t, s3) /\ Touched(s3) = Present(t) /\ s3.op = "files" /\ s3.todo = f
  <2>1. /\ s3.op = "files" /\ s3.todo = f /\ s3.soft = FALSE /\ "orelse" \notin DOMAIN s3
    BY DEF Files
  <2> HIDE DEF s3
  <2> QED BY <1>2, <1>3, <2>1 DEF AbortStep, Touched
<1>7. AbortStep(t, s4) /\ Touched(s4) = g /\ s4.op = "delete"
  <2>1. s4.op = "delete" /\ s4.gone = g
    BY DEF Delete
  <2> HIDE DEF s4
  <2> QED BY <1>3, <2>1 DEF AbortStep, Touched
<1>8. AbortStep(t, s5) /\ Touched(s5) = {} /\ s5.op = "index"
  BY DEF AbortStep, WriteIndex, Touched
<1>9. AbortStep(t, s6) /\ Touched(s6) = {} /\ s6.op = "mergeHead"
  BY DEF AbortStep, MergeHead, Touched
<1>10. AbortStep(t, s7) /\ Touched(s7) = {} /\ s7.op = "sidecar"
  BY DEF AbortStep, Sidecar, Touched
<1> HIDE DEF s1, s2, s3, s4, s5, s6, s7, s8
<1>11. Steps(AbortPlan) = {s1, s2, s3, s4, s5, s6, s7, s8}
  BY <1>1, Listed
<1>12. E = {x \in Steps(AbortPlan) : ~Vacuous(x)}
  <2>1. HistoryInv /\ StoreInv /\ Now(Fresh({}))
    BY FreshIs DEF Inv
  <2>2. PlanOK(Fresh({}), {}, stored, AbortPlan) /\ Numbered(Fresh({}))
    BY <2>1, AbortStarts DEF Starts, Now
  <2> QED BY <2>2, NeededOK
<1>13. FilesFirst(z)
  BY AbortInOrder, FirstNeeded
<1>14. s5 \in E /\ s6 \in E /\ s7 \in E /\ s8 \in E
  BY <1>5, <1>8, <1>9, <1>10, <1>11, <1>12 DEF Vacuous
<1>15. z # << >>
  <2>1. Steps(<< >>) = {}
    BY Listed
  <2> QED BY <1>14, <2>1
<1>16. \A x \in E : AbortStep(t, x)
  BY <1>5, <1>6, <1>7, <1>8, <1>9, <1>10, <1>11, <1>12
<1>17. \A x \in E : \A q \in Touched(x) : work[q] = t[q] \/ Given(index, sidecar, q)
  <2>1. \A x \in E : Touched(x) \subseteq Present(t) \cup g
    BY <1>5, <1>6, <1>7, <1>8, <1>9, <1>10, <1>11, <1>12
  <2> QED BY <1>4, <2>1
<1>18. "index" \in Ops(E) /\ "mergeHead" \in Ops(E) /\ "sidecar" \in Ops(E)
  BY <1>8, <1>9, <1>10, <1>14 DEF Ops
<1>19. \A q \in Present(t) : \E x \in E : x.op = "files" /\ q \in Touched(x)
  <2> SUFFICES ASSUME NEW q \in Present(t) PROVE s3 \in E
    BY <1>6
  <2>1. ~Vacuous(s3)
    BY <1>2, <1>6 DEF Vacuous
  <2> QED BY <1>11, <1>12, <2>1
<1> HIDE DEF z
<1>20. AbortOK(t, work, index, sidecar, mergeHead, z)
  BY <1>13, <1>15, <1>16, <1>17, <1>18, <1>19 DEF AbortOK
<1> QED BY <1>20 DEF t, z

\* Only merge --abort starts an abort.
LEMMA OnlyAbort ==
    ASSUME UserCommand, cmd' = "abort"
    PROVE  Abort
<1>1. ASSUME NEW ps \in Pathspecs, Add(ps) PROVE FALSE
  BY <1>1 DEF Add, Run
<1>2. ASSUME NEW ps \in Pathspecs, Rm(ps) PROVE FALSE
  BY <1>2 DEF Rm, Run
<1>3. ASSUME NEW ps \in Pathspecs, NEW s \in Strategy, Resolve(s, ps) PROVE FALSE
  BY <1>3 DEF Resolve, Run
<1>4. ASSUME NEW p \in DOMAIN sidecar.entries, RunResolveInteractive(p) PROVE FALSE
  BY <1>4 DEF RunResolveInteractive, Run
<1>5. ASSUME NEW b \in Branch, CreateBranch(b) PROVE FALSE
  BY <1>5 DEF CreateBranch, Run
<1>6. ASSUME NEW b \in Branch, Switch(b) PROVE FALSE
  BY <1>6 DEF Switch, Run
<1>7. ASSUME NEW b \in Branch, NEW policy \in Policies, Merge(b, policy) PROVE FALSE
  BY <1>7 DEF Merge, Run
<1>8. ASSUME NEW b \in Branch, FastForwardUnborn(b) PROVE FALSE
  BY <1>8 DEF FastForwardUnborn, Run
<1>9. ASSUME Commit PROVE FALSE
  BY <1>9 DEF Commit, Run
<1>10. ASSUME NEW force \in BOOLEAN, Undo(force) PROVE FALSE
  BY <1>10 DEF Undo, Run
<1>11. ASSUME NEW s \in snaps, NEW force \in BOOLEAN, SnapshotRestore(s, force) PROVE FALSE
  BY <1>11 DEF SnapshotRestore, Run
<1> QED BY <1>1, <1>2, <1>3, <1>4, <1>5, <1>6, <1>7, <1>8, <1>9, <1>10, <1>11 DEF UserCommand

\* What is known while an abort runs.
LEMMA Aborting ==
    ASSUME Inv, AbortInv, cmd = "abort"
    PROVE  /\ AbortOK(HeadTree, work, index, sidecar, mergeHead, plan) /\ plan # << >> /\ ~Idle
           /\ IsPlan(plan) /\ Steps(plan) = {Head(plan)} \cup Steps(Tail(plan))
           /\ AbortStep(HeadTree, Head(plan))
           /\ \A q \in Touched(Head(plan)) : work[q] = HeadTree[q] \/ Given(index, sidecar, q)
<1>1. AbortOK(HeadTree, work, index, sidecar, mergeHead, plan)
  BY DEF AbortInv
<1>2. plan # << >>
  BY <1>1 DEF AbortOK
<1>3. IsPlan(plan) /\ Steps(plan) = {Head(plan)} \cup Steps(Tail(plan))
  <2>1. PlanOK(Here, {}, stored, plan)
    BY DEF Inv, PlanInv, Here
  <2> QED BY <1>2, <2>1, PlanSplits DEF PlanOK
<1>4. Head(plan) \in Steps(plan)
  BY <1>3
<1> QED BY <1>1, <1>2, <1>3, <1>4 DEF AbortOK, Idle

\* The step of an abort that writes or deletes a file.
AbortFile(y) ==
    /\ y \in Path /\ y \in Touched(Head(plan))
    /\ \A x \in Path : work'[x] = IF x = y THEN HeadTree[y] ELSE work[x]

\* A file is written as HEAD has it.
LEMMA AbortWrites ==
    ASSUME Inv, AbortInv, cmd = "abort", StepFile
    PROVE  /\ plan' # << >> => AbortOK(HeadTree, work', index, sidecar, mergeHead, plan')
           /\ \E y \in Path : AbortFile(y)
<1> DEFINE w == Head(plan)
           t == HeadTree
           Rest(p) == [w EXCEPT !.todo = Restrict(@, DOMAIN @ \ {p})]
<1>1. /\ AbortOK(t, work, index, sidecar, mergeHead, plan) /\ plan # << >> /\ ~Idle
      /\ IsPlan(plan) /\ Steps(plan) = {w} \cup Steps(Tail(plan)) /\ AbortStep(t, w)
  BY Aborting
<1>2. w.op = "files"
  BY DEF StepFile
<1>3. PICK p \in DOMAIN w.todo :
         /\ work' = [work EXCEPT ![p] = w.todo[p]]
         /\ plan' = IF Vacuous(Rest(p)) THEN Tail(plan) ELSE <<Rest(p)>> \o Tail(plan)
  BY DEF StepFile
<1> DEFINE r == Rest(p)
           f == Restrict(w.todo, DOMAIN w.todo \ {p})
<1>4. FilesForm(w) /\ work = [q \in Path |-> work[q]]
  BY <1>1, <1>2, HeadOK DEF StepTyped, Inv, WorkInv
<1>5. Leaves(w, r, f)
  <2> HIDE DEF w
  <2> QED BY <1>4, FilesLeft
<1>6. DOMAIN f = DOMAIN w.todo \ {p} /\ \A q \in DOMAIN f : f[q] = w.todo[q]
  BY RestrictIs
<1>7. plan' = IF Vacuous(r) THEN Tail(plan) ELSE <<r>> \o Tail(plan)
  BY <1>3
<1> HIDE DEF r, f
<1>8. /\ "orelse" \notin DOMAIN w /\ (\A q \in DOMAIN w.todo : w.todo[q] = t[q] /\ q \in Present(t))
      /\ Touched(w) = DOMAIN w.todo /\ DOMAIN w.todo \subseteq Path
  BY <1>1, <1>2 DEF AbortStep, Touched
<1>9. r.op = "files" /\ r.todo = f /\ ~r.soft /\ "orelse" \notin DOMAIN r
  BY <1>5, <1>8 DEF Leaves
<1>10. Touched(r) = Touched(w) \ {p} /\ (Vacuous(r) => Touched(r) = {})
  BY <1>6, <1>8, <1>9 DEF Touched, Vacuous
<1>11. AbortStep(t, r)
  BY <1>6, <1>8, <1>9, <1>10 DEF AbortStep
<1>12. p \in Path /\ p \in Touched(w) /\ \A x \in Path : work'[x] = IF x = p THEN t[p] ELSE work[x]
  BY <1>3, <1>4, <1>8
<1>13. ASSUME plan' # << >> PROVE AbortOK(t, work', index, sidecar, mergeHead, plan')
  <2>1. (plan' = Tail(plan) /\ Touched(r) = {}) \/ plan' = <<r>> \o Tail(plan)
    BY <1>7, <1>10
  <2>2. AbortTouches(t, work, index, sidecar, mergeHead, plan, p, work', r, plan')
    BY <1>1, <1>2, <1>9, <1>10, <1>11, <1>12, <1>13, <2>1 DEF AbortTouches
  <2> QED BY <2>2, AbortRestores
<1>14. AbortFile(p)
  BY <1>12 DEF AbortFile
<1> QED BY <1>12, <1>13, <1>14

\* A file that HEAD does not have is deleted.
LEMMA AbortDeletes ==
    ASSUME Inv, AbortInv, cmd = "abort", StepDelete
    PROVE  /\ plan' # << >> => AbortOK(HeadTree, work', index, sidecar, mergeHead, plan')
           /\ \E y \in Path : AbortFile(y)
<1> DEFINE w == Head(plan)
           t == HeadTree
           Rest(p) == [w EXCEPT !.gone = @ \ {p}]
<1>1. /\ AbortOK(t, work, index, sidecar, mergeHead, plan) /\ plan # << >> /\ ~Idle
      /\ IsPlan(plan) /\ Steps(plan) = {w} \cup Steps(Tail(plan)) /\ AbortStep(t, w)
  BY Aborting
<1>2. w.op = "delete"
  BY DEF StepDelete
<1>3. PICK p \in w.gone :
         /\ work' = [work EXCEPT ![p] = None]
         /\ plan' = IF Vacuous(Rest(p)) THEN Tail(plan) ELSE <<Rest(p)>> \o Tail(plan)
  BY DEF StepDelete
<1> DEFINE r == Rest(p)
           g == w.gone \ {p}
<1>4. w = [op |-> "delete", gone |-> w.gone, soft |-> w.soft] /\ work = [q \in Path |-> work[q]]
  BY <1>1, <1>2, HeadOK DEF StepTyped, Inv, WorkInv
<1>5. r = [op |-> "delete", gone |-> g, soft |-> w.soft]
  <2> DEFINE a == w.gone
             s == w.soft
             u == [op |-> "delete", gone |-> a, soft |-> s]
             v == [op |-> "delete", gone |-> g, soft |-> s]
  <2>1. w = u /\ r = [w EXCEPT !.gone = g]
    BY <1>4
  <2> HIDE DEF w, g, a, s, r
  <2>2. r = [u EXCEPT !.gone = g]
    <3> HIDE DEF u
    <3> QED BY <2>1, Zenon
  <2>3. [u EXCEPT !.gone = g] = v
    BY SMT
  <2>4. r = v
    <3> HIDE DEF u, v
    <3> QED BY <2>2, <2>3, Zenon
  <2> QED BY <2>4 DEF s
<1>7. plan' = IF Vacuous(r) THEN Tail(plan) ELSE <<r>> \o Tail(plan)
  BY <1>3
<1> HIDE DEF r
<1>8. (\A q \in w.gone : t[q] = None) /\ Touched(w) = w.gone /\ w.gone \subseteq Path
  BY <1>1, <1>2 DEF AbortStep, Touched
<1>9. r.op = "delete" /\ r.gone = g
  BY <1>5
<1>10. Touched(r) = Touched(w) \ {p} /\ (Vacuous(r) => Touched(r) = {})
  BY <1>8, <1>9 DEF Touched, Vacuous
<1>11. AbortStep(t, r)
  BY <1>8, <1>9, <1>10 DEF AbortStep
<1>12. p \in Path /\ p \in Touched(w) /\ \A x \in Path : work'[x] = IF x = p THEN t[p] ELSE work[x]
  BY <1>3, <1>4, <1>8
<1>13. ASSUME plan' # << >> PROVE AbortOK(t, work', index, sidecar, mergeHead, plan')
  <2>1. (plan' = Tail(plan) /\ Touched(r) = {}) \/ plan' = <<r>> \o Tail(plan)
    BY <1>7, <1>10
  <2>2. AbortTouches(t, work, index, sidecar, mergeHead, plan, p, work', r, plan')
    BY <1>1, <1>2, <1>9, <1>10, <1>11, <1>12, <1>13, <2>1 DEF AbortTouches
  <2> QED BY <2>2, AbortRestores
<1>14. AbortFile(p)
  BY <1>12 DEF AbortFile
<1> QED BY <1>12, <1>13, <1>14

\* Every step keeps it.
LEMMA AbortNext ==
    ASSUME Inv, AbortInv, [Next]_vars
    PROVE  AbortInv'
<1> DEFINE w == Head(plan)
<1> SUFFICES ASSUME cmd' = "abort"
             PROVE  AbortOK(HeadTree', work', index', sidecar', mergeHead', plan')
  BY DEF AbortInv
<1>h. branch' = branch /\ head' = head /\ trees' = trees => HeadTree' = HeadTree
  BY DEF HeadTree, TreeOf, HeadCommit
<1>r. cmd' = Running => cmd = "abort" /\ plan' # << >>
  BY DEF Running
<1>1. ASSUME UserCommand PROVE AbortOK(HeadTree', work', index', sidecar', mergeHead', plan')
  <2>1. Abort
    BY <1>1, OnlyAbort
  <2>2. /\ plan' = Needed(AbortPlan) /\ branch' = branch /\ head' = head /\ trees' = trees
        /\ work' = work /\ index' = index /\ sidecar' = sidecar /\ mergeHead' = mergeHead
    BY <2>1 DEF Abort, Run, files, history, merging
  <2> QED BY <1>h, <2>1, <2>2, AbortBegins
<1>2. ASSUME NEW p \in Path, NEW b \in UserBlob \cup {None}, UserEdit(p, b) PROVE FALSE
  <2>1. cmd = "abort" /\ Idle
    BY <1>2 DEF UserEdit
  <2> QED BY <2>1, Aborting
<1>3. ASSUME UNCHANGED vars PROVE AbortOK(HeadTree', work', index', sidecar', mergeHead', plan')
  BY <1>h, <1>3 DEF AbortInv, vars, files, history, merging
<1>4. ASSUME Step PROVE AbortOK(HeadTree', work', index', sidecar', mergeHead', plan')
  <2>1. cmd = "abort" /\ plan' # << >>
    BY <1>4, <1>r DEF Step
  <2>2. /\ AbortOK(HeadTree, work, index, sidecar, mergeHead, plan) /\ IsPlan(plan)
        /\ Steps(plan) = {w} \cup Steps(Tail(plan)) /\ AbortStep(HeadTree, w)
    BY <2>1, Aborting
  <2>3. w.op \notin {"commit", "ref", "head"}
    BY <2>2 DEF AbortStep
  <2>4. /\ plan' = Tail(plan) /\ w.op # "files"
        /\ index' = IF w.op = "index" THEN w.entries ELSE index
        /\ sidecar' = IF w.op = "sidecar" THEN w.conflicts ELSE sidecar
        /\ mergeHead' = IF w.op = "mergeHead" THEN w.theirs ELSE mergeHead
        /\ branch' = branch /\ head' = head /\ trees' = trees /\ work' = work
    BY <1>4, <2>3 DEF Step
  <2>5. AbortLeaves(HeadTree, work, index, sidecar, mergeHead, plan, index', sidecar', mergeHead')
    BY <2>1, <2>2, <2>4 DEF AbortLeaves
  <2>6. AbortOK(HeadTree, work, index', sidecar', mergeHead', Tail(plan))
    BY <2>5, AbortGoesOn
  <2> QED BY <1>h, <2>4, <2>6
<1>5. ASSUME StepFile PROVE AbortOK(HeadTree', work', index', sidecar', mergeHead', plan')
  <2>1. cmd = "abort" /\ plan' # << >>
    BY <1>5, <1>r DEF StepFile
  <2>2. /\ index' = index /\ sidecar' = sidecar /\ mergeHead' = mergeHead
        /\ branch' = branch /\ head' = head /\ trees' = trees
    BY <1>5 DEF StepFile, history, merging
  <2> QED BY <1>h, <1>5, <2>1, <2>2, AbortWrites
<1>6. ASSUME StepDelete PROVE AbortOK(HeadTree', work', index', sidecar', mergeHead', plan')
  <2>1. cmd = "abort" /\ plan' # << >>
    BY <1>6, <1>r DEF StepDelete
  <2>2. /\ index' = index /\ sidecar' = sidecar /\ mergeHead' = mergeHead
        /\ branch' = branch /\ head' = head /\ trees' = trees
    BY <1>6 DEF StepDelete, history, merging
  <2> QED BY <1>h, <1>6, <2>1, <2>2, AbortDeletes
<1>7. ASSUME StepThen PROVE FALSE
  <2>1. cmd = "abort" /\ w.op = "then"
    BY <1>7, <1>r DEF StepThen
  <2>2. AbortStep(HeadTree, w)
    BY <2>1, Aborting
  <2> QED BY <2>1, <2>2 DEF AbortStep
<1>8. ASSUME Fail PROVE AbortOK(HeadTree', work', index', sidecar', mergeHead', plan')
  <2>1. cmd = "abort" /\ plan' # << >>
    BY <1>8, <1>r DEF Fail
  <2>2. /\ AbortOK(HeadTree, work, index, sidecar, mergeHead, plan) /\ IsPlan(plan)
        /\ Steps(plan) = {w} \cup Steps(Tail(plan)) /\ AbortStep(HeadTree, w)
    BY <2>1, Aborting
  <2>3. ~(w.op = "files" /\ "orelse" \in DOMAIN w)
    BY <2>2 DEF AbortStep
  <2>4. w.soft /\ plan' = Tail(plan)
    BY <1>8, <2>1, <2>3 DEF Fail
  <2>5. w.op \in {"snap", "delete"}
    BY <2>2, <2>4 DEF AbortStep
  <2>6. /\ index' = index /\ sidecar' = sidecar /\ mergeHead' = mergeHead /\ work' = work
        /\ branch' = branch /\ head' = head /\ trees' = trees
    BY <1>8 DEF Fail, history, merging, files
  <2>7. AbortLeaves(HeadTree, work, index, sidecar, mergeHead, plan, index, sidecar, mergeHead)
    BY <2>1, <2>2, <2>4, <2>5 DEF AbortLeaves
  <2>8. AbortOK(HeadTree, work, index, sidecar, mergeHead, Tail(plan))
    BY <2>7, AbortGoesOn
  <2> QED BY <1>h, <2>4, <2>6, <2>8
<1>9. ASSUME Crash PROVE FALSE
  BY <1>9, <1>r DEF Crash
<1> QED BY <1>1, <1>2, <1>3, <1>4, <1>5, <1>6, <1>7, <1>8, <1>9 DEF Next

\* What an abort has still to do is right in every state.
THEOREM AbortInvHolds == Spec => []AbortInv
<1>1. Init => AbortInv
  BY DEF Init, AbortInv
<1>2. Inv /\ AbortInv /\ [Next]_vars => AbortInv'
  BY AbortNext
<1> QED BY <1>1, <1>2, InvHolds, PTL DEF Spec

\* merge --abort changes no file the merge did not touch, whatever was edited, staged,
\* resolved or cut off since; a path whose deletion is staged is the one exception.
THEOREM AbortAlwaysSpares == Spec => AbortSpares
<1> DEFINE Spares == \A p \in Path : cmd = "abort" /\ work'[p] # work[p] =>
                        MergeInvolved(sidecar, p) \/ index[p].state = "deleted"
<1>1. ASSUME Inv, AbortInv, [Next]_vars PROVE Spares
  <2> SUFFICES ASSUME NEW p \in Path, cmd = "abort", work'[p] # work[p] PROVE Given(index, sidecar, p)
    BY DEF Given
  <2>1. ~Idle
    BY <1>1, Aborting
  <2>2. StepFile \/ StepDelete
    BY <1>1, <2>1 DEF Next, UserEdit, Step, StepThen, Fail, Crash, vars, files
  <2>3. PICK y \in Path : AbortFile(y)
    BY <2>2, <1>1, AbortWrites, AbortDeletes
  <2>4. p = y /\ work'[p] = HeadTree[p] /\ p \in Touched(Head(plan))
    BY <2>3 DEF AbortFile
  <2> QED BY <1>1, <2>4, Aborting
<1> HIDE DEF Spares
<1>2. Spec => [][Spares]_vars
  BY <1>1, InvHolds, AbortInvHolds, PTL DEF Spec
<1> QED BY <1>2 DEF AbortSpares, Spares

\* An abort that ends leaves the index and the files of HEAD's tree as HEAD has them and
\* no merge open.
THEOREM AbortAlwaysExact == Spec => AbortExact
<1> DEFINE Exact == cmd = "abort" /\ plan = <<End>> /\ faults' = faults =>
                        /\ index = checkoutIndex(HeadTree)
                        /\ \A p \in Present(HeadTree) : work[p] = HeadTree[p]
                        /\ mergeHead = NoCommit /\ ~sidecar.on
<1>1. ASSUME AbortInv PROVE Exact
  <2> SUFFICES ASSUME cmd = "abort", plan = <<End>>
               PROVE  /\ index = checkoutIndex(HeadTree)
                      /\ \A p \in Present(HeadTree) : work[p] = HeadTree[p]
                      /\ mergeHead = NoCommit /\ ~sidecar.on
    OBVIOUS
  <2>1. AbortOK(HeadTree, work, index, sidecar, mergeHead, plan)
    BY <1>1 DEF AbortInv
  <2>2. Steps(plan) = {End} /\ End.op = "end"
    BY Listed, Kinds
  <2>3. Ops(Steps(plan)) = {"end"}
    BY <2>2 DEF Ops
  <2>4. NoSidecar.on = FALSE
    BY DEF NoSidecar
  <2>5. index = checkoutIndex(HeadTree) /\ mergeHead = NoCommit /\ sidecar = NoSidecar
    BY <2>1, <2>3 DEF AbortOK
  <2>6. \A p \in Present(HeadTree) : work[p] = HeadTree[p]
    BY <2>1, <2>2 DEF AbortOK
  <2> QED BY <2>4, <2>5, <2>6
<1> HIDE DEF Exact
<1>2. Spec => [][Exact]_vars
  BY <1>1, AbortInvHolds, PTL
<1> QED BY <1>2 DEF AbortExact, Exact
==============================================================================
