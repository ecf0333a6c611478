------------------------------ MODULE Workspace ------------------------------
(***************************************************************************)
(* One working copy: the files of the user, the index, the branches, the   *)
(* state of a merge, the snapshots and the reflogs, and the commands that  *)
(* write them (add, rm, commit, branch, switch, merge, resolve, abort,     *)
(* undo, snapshot restore).                                                *)
(*                                                                         *)
(* A command reads and decides first and writes afterwards.  Starting one  *)
(* is an action; what it decided is its plan, the sequence of the durable  *)
(* writes it has still to make.  Step makes the first of them, Fail is an  *)
(* error of that write and Crash the death of the process.  One command    *)
(* runs at a time: the locks between processes are the subject of module   *)
(* Transaction.                                                            *)
(*                                                                         *)
(* A blob is the content of a file, a tree a function from paths to blobs. *)
(* How texts are merged is a parameter; LineMerge provides it.             *)
(***************************************************************************)
EXTENDS CommitGraph, FiniteSets, Functions
LOCAL INSTANCE SequencesExt

CONSTANTS
    Path, Branch, None,        \* None: no file
    Forks,                     \* the histories a run starts from
    UserBlob,                  \* what the user may write into a file
    Engine(_, _, _),           \* ThreeWayMerge of base, ours, theirs: [blob, conflict, end]
    Rendered(_, _, _),         \* Render: [blob, remaining]
    Union(_, _, _),            \* the union strategy over the markers of the engine: a blob
    Legacy(_, _),              \* Resolve over the markers in a file, by a strategy: a blob
    Picked(_),                 \* what a session can make of a file with markers: set of [blob, left]
    Marked(_), Binary(_),      \* HasMarkers, IsBinary
    Policies,                  \* the merge settings: [by, ask], by a function from paths to a strategy
                               \* or "manual", ask whether a session is offered what is left
    MaxCommands, MaxEdits, MaxFaults, MaxCommit   \* bounds

ASSUME WorkspaceAssumption ==
    /\ IsFiniteSet(Path)
    /\ None \notin UserBlob
    /\ {MaxCommands, MaxEdits, MaxFaults, MaxCommit} \subseteq Nat
    /\ \A f \in Forks : /\ f.main \in Branch /\ f.side \in Branch /\ f.main # f.side
                        /\ \A t \in {f.base, f.ours, f.theirs} : t = << >> \/ t \in [Path -> Range(t)]
                        /\ f.base = << >> => f.ours = << >> /\ (f.hasSide => f.theirs # << >>)
                        /\ f.commands \in 0..MaxCommands

VARIABLES
    parents, trees,            \* the commits of the store, by number
    stored,                    \* the blobs of the store
    branch, head,              \* the tips; the branch HEAD names
    logs, headLog,             \* the reflog of each branch; the commits the reflog of HEAD names
    index, work,               \* the index; the working tree
    mergeHead, sidecar,        \* MERGE_HEAD and CONFLICTS
    snaps, newest,             \* the snapshots; the newest one undo did not take
    journal, open,             \* pending journal entries of dead commands; a transaction is open
    cmd, plan,                 \* the running command and the writes left to it
    mine, warned, past,        \* history variables: last edit of the user per path, a snapshot
                               \* failed, the earlier tips of each branch
    commands, edits, faults    \* how often each happened

files == <<index, work, stored>>
history == <<parents, trees, branch, head, logs, headLog>>
merging == <<mergeHead, sidecar>>
saved == <<snaps, newest, journal, open>>
ghosts == <<mine, warned, past>>
bounds == <<commands, edits, faults>>
vars == <<files, history, merging, saved, ghosts, bounds, cmd, plan>>

----------------------------------------------------------------------------
(* Index, trees and the state of a merge                                   *)

Untracked == [blob |-> None, state |-> "none"]
Entry(b, s) == [blob |-> b, state |-> s]
Tracked(ix) == {p \in Path : ix[p].state # "none"}
Live(ix) == {p \in Path : ix[p].state \notin {"none", "deleted"}}
NoTree == [p \in Path |-> None]
TreeOf(c) == IF c = NoCommit THEN NoTree ELSE trees[c]
Present(t) == {p \in Path : t[p] # None}

\* BuildTree: a deleted entry is left out.
BuildTree(ix) == [p \in Path |-> IF p \in Live(ix) THEN ix[p].blob ELSE None]

\* The index a checkout of the tree leaves.
checkoutIndex(t) == [p \in Path |-> IF t[p] = None THEN Untracked ELSE Entry(t[p], "unmodified")]

\* The entry add, resolve and merge write for a path.
Staged(ix, p, b) == Entry(b, IF ix[p].state = "none" THEN "added" ELSE "modified")

\* The index with the files of f staged; a path f maps to None is dropped.
StageAll(ix, f) ==
    [p \in Path |-> IF p \notin DOMAIN f THEN ix[p]
                    ELSE IF f[p] = None THEN Untracked ELSE Staged(ix, p, f[p])]

NoSidecar == [on |-> FALSE, entries |-> << >>, touched |-> {}]
UnresolvedPaths(s) == {p \in DOMAIN s.entries : ~s.entries[p].resolved}
MergeInvolved(s, p) == s.on /\ p \in s.touched \cup DOMAIN s.entries
SetResolved(s, ps, r) ==
    [s EXCEPT !.entries = [p \in DOMAIN @ |-> IF p \in ps THEN [@[p] EXCEPT !.resolved = r[p]] ELSE @[p]]]

\* A side that has no blob counts as empty text.
sideContent(x) == IF x = None THEN << >> ELSE x
entryIsBinary(b, o, t) == \E x \in {b, o, t} \ {None} : Binary(x)

Idle == plan = << >>
HeadCommit == branch[head]
HeadTree == TreeOf(HeadCommit)
Commits == DOMAIN parents

----------------------------------------------------------------------------
(* The writes of a plan.  A soft write is one whose error the command      *)
(* ignores or only warns about.                                            *)

Begin == [op |-> "begin", soft |-> FALSE]
End == [op |-> "end", soft |-> FALSE]
Snap(must) == [op |-> "snap", soft |-> ~must]
Recover == [op |-> "recover", soft |-> FALSE]
\* One file after the other in any order, each with its blob when keep holds.
Files(f, keep) == [op |-> "files", todo |-> f, keep |-> keep, soft |-> FALSE]
Delete(ps, soft) == [op |-> "delete", gone |-> ps, soft |-> soft]
Blobs(bs) == [op |-> "blobs", add |-> bs, soft |-> FALSE]
WriteIndex(ix) == [op |-> "index", entries |-> ix, soft |-> FALSE]
MergeHead(c, soft) == [op |-> "mergeHead", theirs |-> c, soft |-> soft]
Sidecar(s, soft) == [op |-> "sidecar", conflicts |-> s, soft |-> soft]
BuildCommit(ps, t) == [op |-> "commit", parents |-> ps, tree |-> t, soft |-> FALSE]
Ref(b, c) == [op |-> "ref", name |-> b, to |-> c, soft |-> FALSE]
SymbolicHead(b) == [op |-> "head", name |-> b, soft |-> FALSE]
Log(b, old, new, undo, soft) ==
    [op |-> "log", name |-> b, line |-> [old |-> old, new |-> new, undo |-> undo], soft |-> soft]
HeadLog(cs) == [op |-> "headLog", ids |-> cs, soft |-> TRUE]
\* Goes on with what another command decides from the state reached.
Then(c) == [op |-> "then", call |-> c, soft |-> FALSE]

\* appendReflog writes both logs and ignores their errors.
appendReflog(b, old, new) == <<HeadLog({old, new}), Log(b, old, new, FALSE, TRUE)>>

Vacuous(w) ==
    \/ w.op = "files" /\ DOMAIN w.todo = {}
    \/ w.op = "delete" /\ w.gone = {}
    \/ w.op = "blobs" /\ w.add = {}

\* The writes of a plan that have something to do.
Needed(p) ==
    LET kept[i \in 0..Len(p)] ==
            IF i = 0 THEN << >>
            ELSE IF Vacuous(p[i]) THEN kept[i - 1] ELSE Append(kept[i - 1], p[i])
    IN  kept[Len(p)]

\* A command starts with its plan; what it may discard is no longer the user's.  A
\* command that ends is forgotten.
Run(name, p, discards) ==
    /\ commands' = commands + 1
    /\ cmd' = name
    /\ plan' = Needed(p)
    /\ mine' = [q \in Path |-> IF q \in discards THEN None ELSE mine[q]]
    /\ UNCHANGED <<files, history, merging, saved, warned, past, edits, faults>>

----------------------------------------------------------------------------
(* add, rm, branch                                                         *)

\* Scan: the content decides, not the time stamp.
Changed(p) == work[p] # None /\ (index[p].state = "none" \/ work[p] # index[p].blob)
uncommittedPaths == {p \in Tracked(index) : work[p] # index[p].blob}

\* Files added without markers, and files removed, count as resolved.
markResolvedByAdd(ps) ==
    IF sidecar.on /\ ps # {} THEN <<Sidecar(SetResolved(sidecar, ps, [p \in ps |-> TRUE]), FALSE)>> ELSE << >>
markRemovedResolved(ps) == markResolvedByAdd(ps \cap DOMAIN sidecar.entries)

\* A name that matches no file is an error.
Add(ps) ==
    LET toAdd == {p \in ps : Changed(p)}
        content == [p \in toAdd |-> work[p]]
        clean == {p \in toAdd \cap DOMAIN sidecar.entries : ~Marked(work[p])}
    IN  /\ \A p \in ps : ps = Path \/ work[p] # None \/ p \in Tracked(index)
        /\ toAdd # {}
        /\ Run("add", <<Blobs(Range(content)), WriteIndex(StageAll(index, content))>>
                      \o markResolvedByAdd(clean), {})

Rm(ps) ==
    LET matched == ps \cap Live(index)
    IN  /\ matched # {}
        /\ Run("rm", <<Delete(matched, FALSE),
                       WriteIndex([p \in Path |-> IF p \in matched THEN [index[p] EXCEPT !.state = "deleted"]
                                                  ELSE index[p]])>>
                     \o markRemovedResolved(matched), matched)

CreateBranch(b) ==
    /\ HeadCommit # NoCommit
    /\ branch[b] = NoCommit
    /\ Run("branch", <<Ref(b, HeadCommit), Log(b, NoCommit, HeadCommit, FALSE, TRUE)>>, {})

----------------------------------------------------------------------------
(* commit and merge --continue                                             *)

MergeInProgress == mergeHead # NoCommit

\* The sidecar decides; without one the files on disk are searched for markers.
unresolvedConflicts ==
    IF sidecar.on THEN UnresolvedPaths(sidecar)
    ELSE {p \in Live(index) : work[p] # None /\ Marked(work[p])}

\* Mutant: the branch moves before the commit is stored.
CommitPlanRefFirst ==
    LET new == Len(parents) + 1
        ps == IF HeadCommit = NoCommit THEN << >> ELSE <<HeadCommit>>
    IN  <<Ref(head, new), BuildCommit(ps, BuildTree(index))>>
        \o appendReflog(head, IF ps = << >> THEN NoCommit ELSE ps[1], new) \o <<WriteIndex(index)>>

CommitPlan ==
    LET new == Len(parents) + 1
        ps == (IF HeadCommit = NoCommit THEN << >> ELSE <<HeadCommit>>)
              \o (IF MergeInProgress THEN <<mergeHead>> ELSE << >>)
        committed == [p \in Path |-> IF p \in Live(index) THEN [index[p] EXCEPT !.state = "unmodified"]
                                     ELSE Untracked]
    IN  <<BuildCommit(ps, BuildTree(index)), Ref(head, new)>>
        \o appendReflog(head, IF ps = << >> THEN NoCommit ELSE ps[1], new)
        \o <<WriteIndex(committed)>>
        \o (IF MergeInProgress THEN <<MergeHead(NoCommit, TRUE), Sidecar(NoSidecar, TRUE)>> ELSE << >>)

CanCommit == MergeInProgress => unresolvedConflicts = {}

\* Nothing new to record is refused, except for a merge.
Commit ==
    /\ CanCommit
    /\ \/ MergeInProgress
       \/ IF HeadCommit = NoCommit THEN Tracked(index) # {} ELSE BuildTree(index) # HeadTree
    /\ Len(parents) < MaxCommit
    /\ Run("commit", CommitPlan, {})

----------------------------------------------------------------------------
(* switch                                                                  *)

\* Mutant: the snapshot is taken once the files are checked out.
SwitchPlanSnapsLate(b) ==
    LET t == TreeOf(branch[b])
        kept == Present(t)
    IN  <<Begin, Files(Restrict(t, kept), FALSE), Snap(FALSE), Delete(Tracked(index) \ kept, TRUE),
          WriteIndex(checkoutIndex(t)), SymbolicHead(b), HeadLog({HeadCommit, branch[b]}), End>>

\* Only the log of HEAD hears of a switch.
SwitchPlan(b) ==
    LET t == TreeOf(branch[b])
        kept == Present(t)
    IN  <<Snap(FALSE), Begin, Files(Restrict(t, kept), FALSE), Delete(Tracked(index) \ kept, TRUE),
          WriteIndex(checkoutIndex(t)), SymbolicHead(b), HeadLog({HeadCommit, branch[b]}), End>>

Switch(b) ==
    /\ branch[b] # NoCommit
    /\ b # head
    /\ Run("switch", SwitchPlan(b), {})

----------------------------------------------------------------------------
(* merge                                                                   *)

\* What the text merge of two changed files amounts to.
mergeFileContent(e) ==
    IF e.end # "done" THEN [act |-> "hang", conflict |-> FALSE]
    ELSE [act |-> "write", blob |-> e.blob, conflict |-> e.conflict]

\* The engine's view of one path: what to write, or a conflict.  A path nothing is
\* written for keeps the file and the entry it has.
threeWay(b, o, t) ==
    CASE o = b /\ t = b -> [act |-> "keep", conflict |-> FALSE]
      [] o # b /\ t = b -> [act |-> "write", blob |-> o, conflict |-> FALSE]
      [] o = b /\ t # b -> [act |-> "write", blob |-> t, conflict |-> FALSE]
      [] o # b /\ o = t -> [act |-> "write", blob |-> o, conflict |-> FALSE]
      [] o # b /\ t # b /\ o # t ->
            IF None \in {b, o, t} THEN [act |-> "keep", conflict |-> TRUE]
            ELSE mergeFileContent(Engine(b, o, t))

\* What a conflict becomes above the engine: a deletion against a change stays as it is,
\* binary keeps ours, text is rendered again and may turn out settled.
refineConflict(b, o, t) ==
    LET Text(r) == [act |-> "write", blob |-> r.blob, settled |-> r.remaining = 0]
    IN  IF None \in {o, t} THEN [act |-> "keep", settled |-> FALSE]
        ELSE IF entryIsBinary(b, o, t) THEN [act |-> "write", blob |-> o, settled |-> FALSE]
        ELSE Text(Rendered(sideContent(b), o, t))

\* Every path where the index is not the tree merged into.
mergeTouchedPaths(ix, ot) == {p \in Path : BuildTree(ix)[p] # ot[p]}

\* What is left of the conflicts of a merge: the record of each, and the paths it touched.
ConflictState(bt, ot, tt, ps, ix) ==
    [on |-> TRUE,
     entries |-> [p \in ps |-> [kind |-> IF None \in {ot[p], tt[p]} THEN "modify_delete" ELSE "content",
                                base |-> bt[p], ours |-> ot[p], theirs |-> tt[p], resolved |-> FALSE]],
     touched |-> mergeTouchedPaths(ix, ot)]

\* Mutant: the commit is built from the index as it was before the merge.
concludeMergeStale(our, their, ix, clear) ==
    LET new == Len(parents) + 1
    IN  <<BuildCommit(<<our, their>>, BuildTree(index)), WriteIndex(ix)>>
        \o (IF clear THEN <<MergeHead(NoCommit, FALSE), Sidecar(NoSidecar, TRUE)>> ELSE << >>)
        \o <<Ref(head, new)>> \o appendReflog(head, our, new) \o <<End>>

\* The entries keep their states: only commit and checkout make them "unmodified".
concludeMerge(our, their, ix, clear) ==
    LET new == Len(parents) + 1
    IN  <<BuildCommit(<<our, their>>, BuildTree(ix)), WriteIndex(ix)>>
        \o (IF clear THEN <<MergeHead(NoCommit, FALSE), Sidecar(NoSidecar, TRUE)>> ELSE << >>)
        \o <<Ref(head, new)>> \o appendReflog(head, our, new) \o <<End>>

\* fastForward checks the tree out over the index it finds: nothing is removed.
FastForwardPlan(their) ==
    LET t == Restrict(TreeOf(their), Present(TreeOf(their)))
    IN  <<Snap(FALSE), Begin, Files(t, FALSE), WriteIndex(StageAll(index, t)), Ref(head, their)>>
        \o appendReflog(head, HeadCommit, their) \o <<End>>

\* Everything of theirs is ours: a merge commit is made nonetheless.
UpToDatePlan(their) ==
    <<Snap(FALSE), Begin>> \o concludeMerge(HeadCommit, their, index, FALSE)

\* step and again: what the engine and refineConflict decide for each path of the trees
\* base, ours and theirs.
MergePlan(bt, ot, tt, step, again, their, policy) ==
    LET conflicts == {p \in Path : step[p].conflict}
        left == {p \in conflicts : ~again[p].settled}
        hung == {p \in Path : step[p].act = "hang"}
        Written(s, ps) == [p \in {q \in ps : s[q].act = "write"} |-> s[p].blob]
        engine == Written(step, Path)
        gone == {p \in DOMAIN engine : engine[p] = None}
        refined == Written(again, conflicts)
        ix == StageAll(index, engine)
        ix2 == StageAll(ix, refined)
        sc == ConflictState(bt, ot, tt, left, ix2)
        \* The sidecar of a merge whose conflicts could not all be rendered again.
        fallback == [conflicts |-> conflicts, bt |-> bt, ot |-> ot, tt |-> tt, before |-> ix, after |-> ix2]
    IN  <<Snap(FALSE), Begin, Files(Restrict(engine, DOMAIN engine \ gone), TRUE), Delete(gone, TRUE)>>
        \o (IF hung # {} THEN <<[op |-> "hang", soft |-> FALSE]>>
            ELSE IF conflicts = {} THEN concludeMerge(HeadCommit, their, ix, FALSE)
            ELSE <<MergeHead(their, FALSE),
                   [op |-> "files", todo |-> refined, keep |-> TRUE, soft |-> FALSE, orelse |-> fallback]>>
                 \o (IF left = {} THEN concludeMerge(HeadCommit, their, ix2, TRUE)
                     ELSE <<WriteIndex(ix2), Sidecar(sc, TRUE), End, Then([name |-> "policy", by |-> policy, of |-> left])>>))

ThreeWayPlan(base, their, policy) ==
    LET Plan(bt, ot, tt) == MergePlan(bt, ot, tt, [p \in Path |-> threeWay(bt[p], ot[p], tt[p])],
                                      [p \in Path |-> refineConflict(bt[p], ot[p], tt[p])], their, policy)
    IN  Plan(TreeOf(base), HeadTree, TreeOf(their))

\* Neither a merge in progress nor changed files stop a merge.
Merge(b, policy) ==
    LET their == branch[b]
        base == MergeBase(parents, Commits, HeadCommit, their)
    IN  /\ their # NoCommit /\ HeadCommit # NoCommit
        /\ base # NoCommit
        /\ Len(parents) < MaxCommit
        /\ \/ base = HeadCommit /\ Run("fastForward", FastForwardPlan(their), {})
           \/ base # HeadCommit /\ base = their /\ Run("upToDate", UpToDatePlan(their), {})
           \/ base \notin {HeadCommit, their} /\ Run("merge", ThreeWayPlan(base, their, policy), {})

\* A branch without commits takes theirs, unless a file would be overwritten.
FastForwardUnborn(b) ==
    LET t == TreeOf(branch[b])
    IN  /\ HeadCommit = NoCommit /\ branch[b] # NoCommit
        /\ Tracked(index) = {}
        /\ \A p \in Present(t) : work[p] \in {None, t[p]}
        /\ Run("unborn", <<Begin, Files(Restrict(t, Present(t)), FALSE), WriteIndex(checkoutIndex(t)),
                           Ref(head, branch[b])>> \o appendReflog(head, NoCommit, branch[b]) \o <<End>>, {})

----------------------------------------------------------------------------
(* resolve                                                                 *)

\* What a strategy makes of one recorded conflict: the blob to write (None deletes) and
\* whether that settles it.  No strategy but ours and theirs decides on a deletion or on
\* binary content.  The engine has merged these sides once, so that it ends on them is known.
resolved(e, strat) ==
    LET Write(b) == [act |-> "write", blob |-> b, settled |-> TRUE]
        Text(r) == [act |-> "write", blob |-> r.blob, settled |-> r.remaining = 0]
        bin == entryIsBinary(e.base, e.ours, e.theirs)
    IN  CASE strat = "ours"   -> Write(e.ours)
          [] strat = "theirs" -> Write(e.theirs)
          [] strat \in {"auto", "union"} /\ (e.kind = "modify_delete" \/ bin) -> [act |-> "keep"]
          [] strat = "auto" /\ e.kind = "content" /\ ~bin -> Text(Rendered(sideContent(e.base), e.ours, e.theirs))
          [] strat = "union" /\ e.kind = "content" /\ ~bin -> Write(Union(sideContent(e.base), e.ours, e.theirs))

\* A resolution that deletes only marks the entry.
applyDeletion(e) == IF e.state = "none" THEN e ELSE [e EXCEPT !.state = "deleted"]

\* The index after a resolution.
Restaged(ix, f) ==
    [p \in Path |-> IF p \notin DOMAIN f THEN ix[p]
                    ELSE IF f[p] # None THEN Staged(ix, p, f[p]) ELSE applyDeletion(ix[p])]

\* Mutant: the record and the index are written before the files.
RestagePlanRecordFirst(f, s) ==
    LET gone == {p \in DOMAIN f : f[p] = None}
    IN  (IF s.on THEN <<Sidecar(s, FALSE)>> ELSE << >>)
        \o <<WriteIndex(Restaged(index, f)), Files(Restrict(f, DOMAIN f \ gone), TRUE), Delete(gone, FALSE)>>

\* The files of f written or deleted, then the index, then the record.
RestagePlan(f, s) ==
    LET gone == {p \in DOMAIN f : f[p] = None}
    IN  <<Files(Restrict(f, DOMAIN f \ gone), TRUE), Delete(gone, FALSE), WriteIndex(Restaged(index, f))>>
        \o (IF s.on THEN <<Sidecar(s, FALSE)>> ELSE << >>)

resolveFromSidecar(strat, ps) ==
    LET Restage(written, r) == RestagePlan([p \in written |-> r[p].blob],
                                           SetResolved(sidecar, written, [p \in written |-> r[p].settled]))
        Decided(r) == Restage({p \in DOMAIN r : r[p].act = "write"}, r)
    IN  Decided([p \in ps \cap DOMAIN sidecar.entries |-> resolved(sidecar.entries[p], strat)])

\* Without a record: the tracked files with markers.
LegacyFiles(ps) == {p \in ps \cap Live(index) : work[p] # None /\ Marked(work[p])}
resolveLegacy(strat, ps) ==
    RestagePlan([p \in LegacyFiles(ps) |-> Legacy(work[p], strat)], NoSidecar)

\* The files a resolve has something to do for; without any it writes nothing.
Matching(ps) == IF sidecar.on THEN ps \cap DOMAIN sidecar.entries ELSE LegacyFiles(ps)

RunResolve(strat, ps) ==
    IF Matching(ps) = {} THEN << >>
    ELSE IF sidecar.on THEN resolveFromSidecar(strat, ps) ELSE resolveLegacy(strat, ps)

Resolve(strat, ps) ==
    /\ Matching(ps) # {}
    /\ Run("resolve", RunResolve(strat, ps), ps)

\* Text is decided hunk by hunk on the file as it is, or rendered again when its markers
\* are gone.
text(p, e) ==
    Picked(IF work[p] # None /\ Marked(work[p]) THEN work[p]
           ELSE Rendered(sideContent(e.base), e.ours, e.theirs).blob)

\* Of a deletion or of binary content one side is kept.
modifyDelete(e) == {[blob |-> e.ours, left |-> 0], [blob |-> e.theirs, left |-> 0]}

\* What the user can make of one file in a session.
Offered(p) ==
    LET e == sidecar.entries[p]
    IN  IF e.kind = "modify_delete" \/ entryIsBinary(e.base, e.ours, e.theirs) THEN modifyDelete(e) ELSE text(p, e)

Chosen(p, c) == RestagePlan([q \in {p} |-> c.blob], SetResolved(sidecar, {p}, [q \in {p} |-> c.left = 0]))

\* One file of an interactive session, which saves after every file and may be quit
\* between two.
RunResolveInteractive(p) ==
    /\ sidecar.on /\ p \in UnresolvedPaths(sidecar)
    /\ \E c \in Offered(p) : Run("interactive", Chosen(p, c), {p})

----------------------------------------------------------------------------
(* What follows a merge with conflicts                                     *)

\* The strategies chosen for the conflicts of this merge, one after the other, then what
\* is left of the record.  A manual path is left to the user.
applyMergePolicy(policy, conflicts) ==
    LET Of(s) == {p \in conflicts : policy.by[p] = s}
        By(s) == IF Of(s) = {} THEN << >> ELSE <<Then([name |-> "resolve", strat |-> s, paths |-> Of(s)])>>
        ByStrategy == By("ours") \o By("theirs") \o By("union")
    IN  IF ByStrategy = << >> /\ ~policy.ask THEN << >>
        ELSE ByStrategy \o <<Then([name |-> "continue", ask |-> policy.ask])>>

RunMergeContinue ==
    IF sidecar.on /\ MergeInProgress /\ unresolvedConflicts = {} THEN CommitPlan ELSE << >>

\* One file of a session about the files of todo.  It may be skipped and the session quit
\* after it; what was decided is saved.
AnswerPlans(todo, p) ==
    LET Answers == {RestagePlan(<< >>, sidecar)} \cup {Chosen(p, c) : c \in Offered(p)}
        Goes == {<< >>, <<Then([name |-> "ask", todo |-> todo \ {p}])>>}
    IN  {a \o g : a \in Answers, g \in Goes}

\* A session about the files of todo, whatever merge recorded them.  Once nothing is left
\* the user may still leave the merge open.
AskPlans(todo) ==
    LET asked == todo \cap UnresolvedPaths(sidecar)
    IN  IF asked = {} THEN {<< >>, RunMergeContinue} ELSE UNION {AnswerPlans(todo, p) : p \in asked}

\* The record on disk says what is left, be it of this merge or of an earlier one.
SettlePlans(ask) ==
    IF ask /\ sidecar.on /\ UnresolvedPaths(sidecar) # {} THEN AskPlans(UnresolvedPaths(sidecar))
    ELSE {RunMergeContinue}

\* What the command goes on with.
Continuations(c) ==
    CASE c.name = "policy"   -> {applyMergePolicy(c.by, c.of)}
      [] c.name = "resolve"  -> {RunResolve(c.strat, c.paths)}
      [] c.name = "continue" -> SettlePlans(c.ask)
      [] c.name = "ask"      -> AskPlans(c.todo)

----------------------------------------------------------------------------
(* merge --abort                                                           *)

\* Mutant: any path that differs from HEAD in the index counts as the merge's own.
AbortClobbersByIndex ==
    {p \in (Present(HeadTree) \cup Live(index)) :
        BuildTree(index)[p] = HeadTree[p] /\ work[p] # HeadTree[p]}

\* The files the merge did not touch whose change the restore would discard.
AbortClobbers ==
    {p \in (Present(HeadTree) \cup Live(index)) :
        ~MergeInvolved(sidecar, p) /\ work[p] # HeadTree[p]}

\* Mutant: the record of the conflicts stays.
AbortPlanKeepsRecord ==
    LET kept == Present(HeadTree)
    IN  <<Snap(FALSE), Begin, Files(Restrict(HeadTree, kept), FALSE), Delete(Tracked(index) \ kept, TRUE),
          WriteIndex(checkoutIndex(HeadTree)), MergeHead(NoCommit, FALSE), End>>

AbortPlan ==
    LET kept == Present(HeadTree)
    IN  <<Snap(FALSE), Begin, Files(Restrict(HeadTree, kept), FALSE), Delete(Tracked(index) \ kept, TRUE),
          WriteIndex(checkoutIndex(HeadTree)), MergeHead(NoCommit, FALSE), Sidecar(NoSidecar, FALSE), End>>

Abort ==
    /\ MergeInProgress /\ HeadCommit # NoCommit
    /\ AbortClobbers = {}
    /\ Run("abort", AbortPlan, {})

----------------------------------------------------------------------------
(* undo and snapshot restore                                               *)

\* The newest line of the log that is neither an undo nor undone; << >> when there is none.
UndoTarget(log) ==
    LET walk[n \in 0..Len(log)] ==      \* the n newest lines looked at, newest first
            IF n = 0 THEN [skip |-> 0, found |-> << >>]
            ELSE LET w == walk[n - 1]
                     l == log[Len(log) + 1 - n]
                 IN  CASE w.found # << >>                            -> w
                       [] w.found = << >> /\ l.undo                  -> [w EXCEPT !.skip = @ + 1]
                       [] w.found = << >> /\ ~l.undo /\ w.skip > 0   -> [w EXCEPT !.skip = @ - 1]
                       [] w.found = << >> /\ ~l.undo /\ w.skip = 0   -> [w EXCEPT !.found = <<l>>]
    IN  walk[Len(log)].found

\* Mutant: the branch is moved back wherever it stands.
ReversesTipUnchecked(target) == TRUE

\* A branch that moved without a line in its log is not moved.
ReversesTip(target) == target.new = HeadCommit

undoReflog(target) ==
    LET t == TreeOf(target.old)
        added == {p \in Path : index[p].state = "unmodified" /\ t[p] = None}
    IN  <<Begin, Ref(head, target.old), Files(Restrict(t, Present(t)), FALSE), Delete(added, FALSE),
          WriteIndex(checkoutIndex(t)), MergeHead(NoCommit, TRUE),
          Log(head, HeadCommit, target.old, TRUE, FALSE), HeadLog({HeadCommit, target.old}), End>>

undoSnapshot == <<Files(Restrict(newest, Present(newest)), FALSE)>>

\* Journal, then reflog, then snapshot.  The first line of a log is never undone, and the
\* snapshot of the files is taken even when there turns out to be nothing to undo.
UndoPlan(target) ==
    CASE journal > 0                                          -> <<Recover>>
      [] journal = 0 /\ target # << >>                        ->
            IF target[1].old # NoCommit /\ ReversesTip(target[1]) THEN undoReflog(target[1]) ELSE << >>
      [] journal = 0 /\ logs[head] = << >> /\ HeadCommit = NoCommit -> undoSnapshot
      [] OTHER                                                -> << >>

Undo(force) ==
    /\ force \/ uncommittedPaths = {}
    /\ Run("undo", <<Snap(uncommittedPaths # {})>> \o UndoPlan(UndoTarget(logs[head])), {})

\* Files the snapshot lacks are left alone.
SnapshotRestore(s, force) ==
    /\ force \/ uncommittedPaths = {}
    /\ Run("restore", <<Snap(uncommittedPaths # {}), Files(Restrict(s, Present(s)), FALSE)>>, {})

----------------------------------------------------------------------------
(* The writes happen, fail, or are cut off                                 *)

Running == IF plan' = << >> THEN "none" ELSE cmd

\* Every write but those of files, which go one by one.
Step ==
    LET w == Head(plan)
    IN  /\ ~Idle /\ w.op \notin {"files", "delete", "hang", "then"}
        /\ plan' = Tail(plan)
        /\ stored' = IF w.op = "blobs" THEN stored \cup w.add ELSE stored
        /\ open' = (w.op = "begin" \/ (open /\ w.op # "end"))
        /\ journal' = IF w.op = "recover" THEN journal - 1 ELSE journal
        /\ snaps' = IF w.op = "snap" THEN snaps \cup {work} ELSE snaps
        /\ newest' = IF w.op = "snap" /\ cmd # "undo" THEN work ELSE newest
        /\ index' = IF w.op = "index" THEN w.entries ELSE index
        /\ mergeHead' = IF w.op = "mergeHead" THEN w.theirs ELSE mergeHead
        /\ sidecar' = IF w.op = "sidecar" THEN w.conflicts ELSE sidecar
        /\ parents' = IF w.op = "commit" THEN Append(parents, w.parents) ELSE parents
        /\ trees' = IF w.op = "commit" THEN Append(trees, w.tree) ELSE trees
        /\ branch' = IF w.op = "ref" THEN [branch EXCEPT ![w.name] = w.to] ELSE branch
        /\ past' = IF w.op # "ref" \/ branch' = branch THEN past
                   ELSE [past EXCEPT ![w.name] = IF cmd = "undo" THEN Front(@) ELSE Append(@, branch[w.name])]
        /\ head' = IF w.op = "head" THEN w.name ELSE head
        /\ logs' = IF w.op = "log" THEN [logs EXCEPT ![w.name] = Append(@, w.line)] ELSE logs
        /\ headLog' = IF w.op = "headLog" THEN headLog \cup w.ids ELSE headLog
        /\ cmd' = Running
        /\ UNCHANGED <<work, mine, warned, bounds>>

\* One file; its blob is in the store before the next one.
StepFile ==
    LET w == Head(plan)
    IN  /\ ~Idle /\ w.op = "files"
        /\ \E p \in DOMAIN w.todo :
              LET rest == [w EXCEPT !.todo = Restrict(@, DOMAIN @ \ {p})]
              IN  /\ work' = [work EXCEPT ![p] = w.todo[p]]
                  /\ stored' = IF w.keep THEN stored \cup {w.todo[p]} ELSE stored
                  /\ plan' = IF Vacuous(rest) THEN Tail(plan) ELSE <<rest>> \o Tail(plan)
        /\ cmd' = Running
        /\ UNCHANGED <<index, history, merging, saved, ghosts, bounds>>

StepDelete ==
    LET w == Head(plan)
    IN  /\ ~Idle /\ w.op = "delete"
        /\ \E p \in w.gone :
              LET rest == [w EXCEPT !.gone = @ \ {p}]
              IN  /\ work' = [work EXCEPT ![p] = None]
                  /\ plan' = IF Vacuous(rest) THEN Tail(plan) ELSE <<rest>> \o Tail(plan)
        /\ cmd' = Running
        /\ UNCHANGED <<index, stored, history, merging, saved, ghosts, bounds>>

\* The command goes on with what it reads now.
StepThen ==
    /\ ~Idle /\ Head(plan).op = "then"
    /\ \E next \in Continuations(Head(plan).call) : plan' = Needed(next) \o Tail(plan)
    /\ cmd' = Running
    /\ UNCHANGED <<files, history, merging, saved, ghosts, bounds>>

\* What a merge does when a conflict cannot be rendered again: the markers of the engine
\* and the record of every conflict.
Fallback(w) ==
    LET f == w.orelse
        ix == [p \in Path |-> IF p \in DOMAIN w.todo THEN f.before[p] ELSE f.after[p]]
    IN  <<WriteIndex(ix), Sidecar(ConflictState(f.bt, f.ot, f.tt, f.conflicts, ix), TRUE), End>>

\* The error of a write ends the command, and its transaction is rolled back, unless the
\* command ignores it.  A transaction that cannot be completed stays in the journal.
Fail ==
    LET w == Head(plan)
        renders == w.op = "files" /\ "orelse" \in DOMAIN w
    IN  /\ ~Idle /\ w.op \notin {"hang", "then"} /\ faults < MaxFaults
        /\ faults' = faults + 1
        /\ plan' = IF w.soft THEN Tail(plan) ELSE IF renders THEN Fallback(w) ELSE << >>
        /\ open' = (open /\ (w.soft \/ renders))
        /\ journal' = IF w.op = "end" THEN journal + 1 ELSE journal
        /\ warned' = (warned \/ w.op = "snap")
        /\ cmd' = Running
        /\ UNCHANGED <<files, history, merging, snaps, newest, mine, past, commands, edits>>

Crash ==
    /\ ~Idle /\ faults < MaxFaults
    /\ faults' = faults + 1
    /\ plan' = << >>
    /\ open' = FALSE
    /\ journal' = IF open THEN journal + 1 ELSE journal
    /\ cmd' = Running
    /\ UNCHANGED <<files, history, merging, snaps, newest, ghosts, commands, edits>>

\* The user writes or deletes a file between two commands.
UserEdit(p, b) ==
    /\ Idle /\ edits < MaxEdits
    /\ work[p] # b
    /\ edits' = edits + 1
    /\ work' = [work EXCEPT ![p] = b]
    /\ mine' = [mine EXCEPT ![p] = b]
    /\ UNCHANGED <<index, stored, history, merging, saved, warned, past, commands, faults, cmd, plan>>

----------------------------------------------------------------------------
(* The specification                                                       *)

\* A history of a base commit, a commit on the main branch and one on the side branch,
\* each of the two optional, checked out on the main branch.  Any other branch is at the
\* base commit.  A fork names the number of commands that follow.
InitFork(f) ==
    LET Made(t) == IF t = << >> THEN << >> ELSE <<t>>
        grown == Made(f.base) \o Made(f.ours) \o Made(f.theirs)
        ours == IF f.base = << >> THEN NoCommit ELSE IF f.ours = << >> THEN 1 ELSE 2
        theirs == IF f.theirs = << >> THEN (IF f.hasSide THEN 1 ELSE NoCommit) ELSE Len(grown)
        Line(a, b) == [old |-> a, new |-> b, undo |-> FALSE]
        Logged(c) == IF c = NoCommit THEN << >> ELSE IF c = 1 THEN <<Line(NoCommit, 1)>>
                     ELSE <<Line(NoCommit, 1), Line(1, c)>>
    IN  /\ trees = grown
        /\ parents = [c \in DOMAIN grown |-> IF c = 1 \/ f.base = << >> THEN << >> ELSE <<1>>]
        /\ stored = (UNION {Range(grown[c]) : c \in DOMAIN grown}) \ {None}
        /\ branch = [b \in Branch |-> IF b = f.main THEN ours ELSE IF b = f.side THEN theirs
                                      ELSE IF f.base = << >> THEN NoCommit ELSE 1]
        /\ head = f.main
        /\ logs = [b \in Branch |-> Logged(branch[b])]
        /\ past = [b \in Branch |-> [i \in DOMAIN Logged(branch[b]) |-> Logged(branch[b])[i].old]]
        /\ headLog = {NoCommit} \cup DOMAIN grown
        /\ index = checkoutIndex(IF ours = NoCommit THEN NoTree ELSE grown[ours])
        /\ work = IF ours = NoCommit THEN NoTree ELSE grown[ours]
        /\ commands = MaxCommands - f.commands

Init ==
    /\ \E f \in Forks : InitFork(f)
    /\ mergeHead = NoCommit /\ sidecar = NoSidecar
    /\ snaps = {} /\ newest = NoTree
    /\ journal = 0 /\ open = FALSE
    /\ cmd = "none" /\ plan = << >>
    /\ mine = NoTree /\ warned = FALSE
    /\ edits = 0 /\ faults = 0

Strategy == {"ours", "theirs", "union", "auto"}
Pathspecs == {Path} \cup {{p} : p \in Path}

UserCommand ==
    \/ \E ps \in Pathspecs : Add(ps)
    \/ \E ps \in Pathspecs : Rm(ps)
    \/ \E ps \in Pathspecs, s \in Strategy : Resolve(s, ps)
    \/ \E p \in DOMAIN sidecar.entries : RunResolveInteractive(p)
    \/ \E b \in Branch : CreateBranch(b)
    \/ \E b \in Branch : Switch(b)
    \/ \E b \in Branch, policy \in Policies : Merge(b, policy)
    \/ \E b \in Branch : FastForwardUnborn(b)
    \/ Commit
    \/ Abort
    \/ \E force \in BOOLEAN : Undo(force)
    \/ \E s \in snaps, force \in BOOLEAN : SnapshotRestore(s, force)

Next ==
    \/ Idle /\ commands < MaxCommands /\ UserCommand
    \/ \E p \in Path, b \in UserBlob \cup {None} : UserEdit(p, b)
    \/ Step \/ StepFile \/ StepDelete \/ StepThen
    \/ Fail
    \/ Crash

Spec == Init /\ [][Next]_vars

----------------------------------------------------------------------------
(* Properties                                                              *)

Blob == stored \cup UserBlob \cup UNION {Range(s) : s \in snaps} \cup Range(work)

\* Type correctness: tips, MERGE_HEAD and logs name commits of the store, an entry has a
\* blob exactly when it is in the index, and only a command with writes left has a
\* transaction open.
TypeOK ==
    /\ DOMAIN parents = DOMAIN trees
    /\ branch \in [Branch -> {NoCommit} \cup Commits] /\ head \in Branch
    /\ mergeHead \in {NoCommit} \cup Commits
    /\ \A b \in Branch : \A i \in DOMAIN logs[b] :
          logs[b][i] \in [old : {NoCommit} \cup Commits, new : Commits, undo : BOOLEAN]
    /\ headLog \subseteq {NoCommit} \cup Commits
    /\ \A p \in Path : index[p].state \in {"none", "unmodified", "added", "modified", "deleted"}
                       /\ (index[p].blob = None <=> index[p].state = "none")
    /\ sidecar.on \in BOOLEAN /\ DOMAIN sidecar.entries \subseteq Path /\ sidecar.touched \subseteq Path
    /\ journal \in 0..MaxFaults
    /\ open => plan # << >>

\* Nothing that is recorded names a blob the store lacks: no tree of a commit, no entry of
\* the index, no side of a recorded conflict, whatever write a command died or failed at.
NothingDangles ==
    LET Sides(e) == {e.base, e.ours, e.theirs}
    IN  /\ \A c \in Commits : Range(trees[c]) \subseteq stored \cup {None}
        /\ \A p \in Path : index[p].blob \in stored \cup {None}
        /\ \A p \in DOMAIN sidecar.entries : Sides(sidecar.entries[p]) \subseteq stored \cup {None}

\* An undo moves the branch to where it was before the last change that has not been
\* undone, although an error or a crash may have lost one line of the log (MaxFaults is 1
\* in the run; it takes three lost lines to mislead the undo).
UndoGoesBack ==
    [][\A b \in Branch : cmd = "undo" /\ branch'[b] # branch[b] =>
            past[b] # << >> /\ branch'[b] = Last(past[b])]_vars

\* What the user wrote last into a file, and has not asked to discard, is on disk, in the
\* store or in a snapshot, unless a failed snapshot was reported.
MineKept ==
    \A p \in Path : mine[p] = None \/ warned \/ work[p] = mine[p] \/ mine[p] \in stored
                    \/ \E s \in snaps : s[p] = mine[p]

\* A merge that is committed by the command itself takes every change that only one side
\* made, and every change both made alike, whatever the user had staged.
MergeTakesBothSides ==
    [][cmd = "merge" /\ parents' # parents =>
        LET new == Len(parents')
            our == parents'[new][1]
            their == parents'[new][2]
            base == MergeBase(parents, Commits, our, their)
        IN  \A p \in Path :
               LET b == trees[base][p]
                   o == trees[our][p]
                   t == trees[their][p]
               IN  /\ (o # b /\ t \in {b, o}) => trees'[new][p] = o
                   /\ (o = b /\ t # b) => trees'[new][p] = t]_vars

\* merge --abort changes no file the merge did not touch, whatever was edited, staged,
\* resolved or cut off since; a path whose deletion is staged is the one exception.
AbortSpares ==
    [][\A p \in Path : cmd = "abort" /\ work'[p] # work[p] =>
            MergeInvolved(sidecar, p) \/ index[p].state = "deleted"]_vars

\* An abort that ends leaves the repository as HEAD has it and no merge open.
AbortExact ==
    [][cmd = "abort" /\ plan = <<End>> /\ faults' = faults =>
        /\ index = checkoutIndex(HeadTree)
        /\ \A p \in Present(HeadTree) : work[p] = HeadTree[p]
        /\ mergeHead = NoCommit /\ ~sidecar.on]_vars

\* commit.go: a merge is never sealed with conflict markers in its files.
NoMarkersSealed ==
    \A c \in Commits, p \in Path : Len(parents[c]) = 2 /\ trees[c][p] # None => ~Marked(trees[c][p])
==============================================================================
