----------------------------- MODULE Maintenance -----------------------------
(***************************************************************************)
(* The object store of one repository and those who share it without a     *)
(* lock: the command that writes objects and moves references, gc that     *)
(* removes objects, the history readers that build and load the commit     *)
(* graph index graph.idx, and verify.                                      *)
(*                                                                         *)
(* A command runs a plan of steps, one file written per step; plan = << >> *)
(* when none runs.  A crash loses the rest of a plan.                      *)
(***************************************************************************)
EXTENDS Pack, SequencesExt

CONSTANTS Branches, Main,   \* branch names, and the one HEAD starts on
          Nested,           \* the branches with a slash in their name
          Readers,          \* the processes that run vara history
          Absent, Empty, Torn,   \* no such file; opened, nothing written; fails its checksum
          MaxCommit, MaxCommands, MaxCollections, MaxCrashes   \* bounds

ASSUME BranchAssumption == Main \in Branches /\ Nested \subseteq Branches

VARIABLES parents, rootTree,   \* every commit built so far: its parents, its tree
          stored,              \* the commits and objects with a readable file
          stuck,               \* the objects whose read-only temporary file a crash left
          branch, head,        \* refs/heads (NoCommit: no such branch), and the branch HEAD names
          headLog,             \* the commits the reflog of HEAD names
          undoable,            \* the commits of a branch's reflog undo has not reversed
          staged,              \* the tree the index would build
          plan,                \* the rest of the running command
          gc,                  \* the collection under way
          idx, tmp,            \* graph.idx and graph.idx.tmp: Absent, Empty, Torn or a set of commits
          reader,              \* the history readers
          overlap,             \* what has happened at the same time so far
          spent                \* what is used of the bounds

objectVars == <<parents, rootTree, stored, stuck>>
refVars == <<branch, head, headLog, undoable, staged>>
indexVars == <<idx, tmp, reader>>
vars == <<objectVars, refVars, plan, gc, indexVars, overlap, spent>>

Quiet == [phase |-> "idle", roots |-> {}, keep |-> [commits |-> {}, objects |-> {}],
          left |-> [commits |-> {}, objects |-> {}]]
Resting == [pc |-> "idle", head |-> NoCommit, entries |-> {}, file |-> "none"]

\* A repository after its first commit, that of tree t, with no graph.idx.
Init ==
    \E t \in Tree :
        /\ parents = << << >> >> /\ rootTree = <<t>>
        /\ stored = [commits |-> {1}, objects |-> TreeClosure(t, {})] /\ stuck = {}
        /\ branch = [b \in Branches |-> IF b = Main THEN 1 ELSE NoCommit] /\ head = Main
        /\ headLog = {1} /\ staged = t
        /\ undoable = [b \in Branches |-> IF b = Main THEN <<1>> ELSE << >>]
        /\ plan = << >> /\ gc = Quiet
        /\ idx = Absent /\ tmp = Absent /\ reader = [p \in Readers |-> Resting]
        /\ overlap = {}
        /\ spent = [commands |-> 0, collections |-> 0, crashes |-> 0]

----------------------------------------------------------------------------
(* The plans of the commands                                               *)

\* A run of writes of objects, which may be none.
Writes(objs) == IF objs = {} THEN << >> ELSE << <<"write", objs>> >>

AddPlan(t) == Writes(TreeClosure(t, {}) \cap Blob) \o << <<"index", t>> >>

\* Mutant: the graph index is left alone.
CommitPlanKeepsIndex ==
    LET new == Len(parents) + 1
    IN  Writes(TreeClosure(staged, {}) \cap Tree) \o
        << <<"changed">>, <<"commit">>, <<"ref", new>>, <<"headlog", {branch[head], new}>>,
           <<"branchlog", Append(undoable[head], new)>> >>

\* The tree is written before the commit is refused for having nothing new.
CommitPlan ==
    LET new == Len(parents) + 1
    IN  Writes(TreeClosure(staged, {}) \cap Tree) \o
        << <<"changed">>, <<"commit">>, <<"ref", new>>, <<"headlog", {branch[head], new}>>,
           <<"branchlog", Append(undoable[head], new)>>, <<"invalidate">> >>

SwitchPlan(b) ==
    << <<"checkout", branch[b]>>, <<"index", rootTree[branch[b]]>>, <<"head", b>>,
       <<"headlog", {branch[head], branch[b]}>> >>

\* undoReflog moves the branch before it reads what it checks out, and keeps graph.idx.
UndoPlan ==
    LET prev == parents[branch[head]][1]
    IN  << <<"ref", prev>>, <<"checkout", prev>>, <<"index", rootTree[prev]>>,
           <<"branchlog", Front(undoable[head])>>, <<"headlog", {branch[head], prev}>> >>

----------------------------------------------------------------------------
(* Commands: the checks before anything is written, then the plan          *)

Busy(p) == reader[p].pc \notin {"idle", "shown", "failed"}

Begin(steps) ==
    /\ plan = << >>
    /\ spent.commands < MaxCommands
    /\ spent' = [spent EXCEPT !.commands = @ + 1]
    /\ plan' = steps
    /\ overlap' = overlap \cup {x \in {"gc"} : gc.phase # "idle"}
                          \cup {x \in {"history"} : \E p \in Readers : Busy(p)}
    /\ UNCHANGED <<objectVars, refVars, gc, indexVars>>

Add(t) == staged # t /\ Begin(AddPlan(t))

CommitStaged ==
    /\ Len(parents) < MaxCommit
    /\ Begin(CommitPlan)

CreateBranch(b) ==
    /\ branch[b] = NoCommit
    /\ Begin(<< <<"create", b>> >>)

SwitchTo(b) ==
    /\ b # head /\ branch[b] # NoCommit
    /\ Begin(SwitchPlan(b))

\* The newest change the branch's reflog records, if it is where the branch is and it is
\* not the branch's first.
Undo ==
    /\ undoable[head] # << >>
    /\ branch[head] = Last(undoable[head])
    /\ parents[branch[head]] # << >>
    /\ Begin(UndoPlan)

----------------------------------------------------------------------------
(* The steps of a plan                                                     *)

Doing(op) == plan # << >> /\ Head(plan)[1] = op
Arg == Head(plan)[2]
Proceed == plan' = Tail(plan)
Fail == plan' = << >>

Whole(S, c) == c \in S.commits /\ TreeClosure(rootTree[c], {}) \subseteq S.objects

\* The objects of a run that can be written next: a tree comes after the trees it lists.
writeNode(objs) == {o \in objs : o \in Tree => Entries[o] \cap objs = {}}

\* Store.Write: a file that is there is left alone, a leftover temporary file cannot be
\* opened for writing.
WriteObject(o) ==
    /\ Doing("write")
    /\ o \in writeNode(Arg)
    /\ IF o \in stuck THEN Fail /\ UNCHANGED stored
       ELSE /\ plan' = Writes(Arg \ {o}) \o Tail(plan)
            /\ stored' = [stored EXCEPT !.objects = @ \cup {o}]
    /\ UNCHANGED <<parents, rootTree, stuck, refVars, gc, indexVars, overlap, spent>>

\* A commit whose tree is its parent's is refused.
CheckChanged ==
    /\ Doing("changed")
    /\ LET old == branch[head]
       IN  IF old \in stored.commits /\ rootTree[old] = staged
           THEN Fail ELSE Proceed
    /\ UNCHANGED <<objectVars, refVars, gc, indexVars, overlap, spent>>

WriteCommit ==
    /\ Doing("commit")
    /\ parents' = Append(parents, <<branch[head]>>)
    /\ rootTree' = Append(rootTree, staged)
    /\ stored' = [stored EXCEPT !.commits = @ \cup {Len(parents) + 1}]
    /\ Proceed
    /\ UNCHANGED <<stuck, refVars, gc, indexVars, overlap, spent>>

MoveRef ==
    /\ \/ Doing("ref") /\ branch' = [branch EXCEPT ![head] = Arg] /\ UNCHANGED head
       \/ Doing("create") /\ branch' = [branch EXCEPT ![Arg] = branch[head]] /\ UNCHANGED head
       \/ Doing("head") /\ head' = Arg /\ UNCHANGED branch
    /\ Proceed
    /\ UNCHANGED <<objectVars, headLog, undoable, staged, gc, indexVars, overlap, spent>>

AppendLog ==
    /\ \/ Doing("headlog") /\ headLog' = headLog \cup (Arg \ {NoCommit}) /\ UNCHANGED undoable
       \/ Doing("branchlog") /\ undoable' = [undoable EXCEPT ![head] = Arg] /\ UNCHANGED headLog
    /\ Proceed
    /\ UNCHANGED <<objectVars, branch, head, staged, gc, indexVars, overlap, spent>>

Checkout ==
    /\ Doing("checkout")
    /\ IF Whole(stored, Arg) THEN Proceed ELSE Fail
    /\ UNCHANGED <<objectVars, refVars, gc, indexVars, overlap, spent>>

WriteIndex ==
    /\ Doing("index")
    /\ staged' = Arg
    /\ Proceed
    /\ UNCHANGED <<objectVars, branch, head, headLog, undoable, gc, indexVars, overlap, spent>>

\* A process still writing the removed file goes on writing a file without a name.
Invalidate ==
    /\ Doing("invalidate")
    /\ idx' = Absent
    /\ reader' = [p \in Readers |->
                    IF reader[p].file = "idx" THEN [reader[p] EXCEPT !.file = "none"]
                    ELSE reader[p]]
    /\ Proceed
    /\ UNCHANGED <<objectVars, refVars, gc, tmp, overlap, spent>>

\* The command dies, before a step or between the two of Store.Write.
CommandCrash ==
    /\ plan # << >> /\ spent.crashes < MaxCrashes
    /\ spent' = [spent EXCEPT !.crashes = @ + 1]
    /\ overlap' = overlap \cup {"crash"}
    /\ plan' = << >>
    /\ \/ UNCHANGED stuck
       \/ /\ Doing("write")
          /\ \E o \in writeNode(Arg) \ stored.objects : stuck' = stuck \cup {o}
    /\ UNCHANGED <<parents, rootTree, stored, refVars, gc, indexVars>>

----------------------------------------------------------------------------
(* Garbage collection                                                      *)

\* Mutant: only the references are roots.
gatherRootsOfRefs(fromRefs) == fromRefs

\* The readable commits of the references and HEAD, read before, and of HEAD's reflog.
gatherRoots(fromRefs) == fromRefs \cup (headLog \cap stored.commits)

ListRefs ==
    /\ gc.phase = "idle" /\ spent.collections < MaxCollections
    /\ spent' = [spent EXCEPT !.collections = @ + 1]
    /\ gc' = [Quiet EXCEPT !.phase = "roots",
                           !.roots = {branch[b] : b \in Branches} \cap stored.commits]
    /\ overlap' = overlap \cup {x \in {"gc"} : plan # << >>}
    /\ UNCHANGED <<objectVars, refVars, plan, indexVars>>

\* A commit or a tree that cannot be read ends the collection before anything is removed.
Mark ==
    /\ gc.phase = "roots"
    /\ LET wants == SetToSeq(gatherRoots(gc.roots))
           send == SendCommits(parents, stored.commits, wants, << >>)
           reachable == Enumerate(parents, rootTree, stored.commits, wants, << >>)
       IN  gc' = IF send.failed \/ ~ (reachable.objects \cap Tree \subseteq stored.objects)
                 THEN Quiet
                 ELSE [gc EXCEPT !.phase = "list", !.keep = reachable]
    /\ UNCHANGED <<objectVars, refVars, plan, indexVars, overlap, spent>>

listLooseObjects ==
    /\ gc.phase = "list"
    /\ gc' = [gc EXCEPT !.phase = "sweep",
                        !.left = [commits |-> stored.commits \ gc.keep.commits,
                                  objects |-> stored.objects \ gc.keep.objects]]
    /\ UNCHANGED <<objectVars, refVars, plan, indexVars, overlap, spent>>

RemoveCommit(c) ==
    /\ c \in gc.left.commits
    /\ gc' = [gc EXCEPT !.left.commits = @ \ {c}]
    /\ stored' = [stored EXCEPT !.commits = @ \ {c}]
    /\ UNCHANGED overlap

\* The index is not a root: what only it names is removed too.
RemoveObject(o) ==
    /\ o \in gc.left.objects
    /\ gc' = [gc EXCEPT !.left.objects = @ \ {o}]
    /\ stored' = [stored EXCEPT !.objects = @ \ {o}]
    /\ overlap' = overlap \cup {x \in {"gc"} : o \in TreeClosure(staged, {})}

Sweep ==
    /\ gc.phase = "sweep"
    /\ (\E c \in gc.left.commits : RemoveCommit(c)) \/ (\E o \in gc.left.objects : RemoveObject(o))
    /\ UNCHANGED <<parents, rootTree, stuck, refVars, plan, indexVars, spent>>

EndCollect ==
    /\ gc.phase = "sweep" /\ gc.left = Quiet.left
    /\ gc' = Quiet
    /\ UNCHANGED <<objectVars, refVars, plan, indexVars, overlap, spent>>

CollectCrash ==
    /\ gc.phase = "sweep" /\ gc.left # Quiet.left
    /\ spent.crashes < MaxCrashes
    /\ spent' = [spent EXCEPT !.crashes = @ + 1]
    /\ gc' = Quiet
    /\ UNCHANGED <<objectVars, refVars, plan, indexVars, overlap>>

----------------------------------------------------------------------------
(* history                                                                 *)

Move(p, r) == reader' = [reader EXCEPT ![p] = r]

resolveHEAD(p) ==
    /\ reader[p].pc = "idle"
    /\ Move(p, [Resting EXCEPT !.pc = "load", !.head = branch[head]])
    /\ overlap' = overlap \cup {x \in {"history"} : plan # << >>}
    /\ UNCHANGED <<objectVars, refVars, plan, gc, idx, tmp, spent>>

\* parseIndex: the length and the checksum are right.
Parses(file) == file \notin {Absent, Empty, Torn}

\* A commit without an entry is passed over, and so is what only it leads to.
historyFromIndex(entries, c) == {d \in entries : c \in entries /\ IsAncestor(parents, d, c)}

\* LoadOrBuild: an index that does not load is built, and loaded once more.
Load(p) ==
    /\ reader[p].pc \in {"load", "reload"}
    /\ Move(p, IF Parses(idx)
               THEN [reader[p] EXCEPT !.pc = "shown", !.entries = historyFromIndex(idx, reader[p].head)]
               ELSE [reader[p] EXCEPT !.pc = IF @ = "load" THEN "build" ELSE "store"])
    /\ UNCHANGED <<objectVars, refVars, plan, gc, idx, tmp, overlap, spent>>

\* The branch of HEAD, and the branches that are files directly under refs/heads.
collectTips == {branch[b] : b \in (Branches \ Nested) \cup {head}} \ {NoCommit}

Build(p) ==
    /\ reader[p].pc = "build"
    /\ LET walk == SendCommits(parents, stored.commits, SetToSeq(collectTips), << >>)
       IN  Move(p, IF walk.failed THEN [reader[p] EXCEPT !.pc = "store"]
                   ELSE [reader[p] EXCEPT !.pc = "open", !.entries = walk.commits])
    /\ UNCHANGED <<objectVars, refVars, plan, gc, idx, tmp, overlap, spent>>

\* writeIndex opens the temporary file every builder uses and empties it.
OpenTmp(p) ==
    /\ reader[p].pc = "open"
    /\ tmp' = Empty
    /\ Move(p, [reader[p] EXCEPT !.pc = "write", !.file = "tmp"])
    /\ UNCHANGED <<objectVars, refVars, plan, gc, idx, overlap, spent>>

\* Written over what another builder wrote, the file may keep the end of that.
Overwritten(file, entries) == IF file \in {Empty, entries} THEN {entries} ELSE {entries, Torn}

\* The open file is the temporary one, the index another builder has made of it, or gone.
WriteTmp(p) ==
    /\ reader[p].pc = "write"
    /\ tmp' \in IF reader[p].file = "tmp" THEN Overwritten(tmp, reader[p].entries) ELSE {tmp}
    /\ idx' \in IF reader[p].file = "idx" THEN Overwritten(idx, reader[p].entries) ELSE {idx}
    /\ Move(p, [reader[p] EXCEPT !.pc = "rename", !.file = "none"])
    /\ UNCHANGED <<objectVars, refVars, plan, gc, overlap, spent>>

\* The rename fails when another builder has renamed the file before.
RenameTmp(p) ==
    /\ reader[p].pc = "rename"
    /\ IF tmp = Absent
       THEN /\ Move(p, [reader[p] EXCEPT !.pc = "remove"])
            /\ UNCHANGED <<idx, tmp>>
       ELSE /\ idx' = tmp /\ tmp' = Absent
            /\ reader' = [q \in Readers |->
                            IF q = p THEN [reader[p] EXCEPT !.pc = "reload"]
                            ELSE [reader[q] EXCEPT !.file = IF @ = "tmp" THEN "idx" ELSE "none"]]
    /\ UNCHANGED <<objectVars, refVars, plan, gc, overlap, spent>>

\* By the time it is removed, the file may be the one another builder has opened since.
RemoveTmp(p) ==
    /\ reader[p].pc = "remove"
    /\ tmp' = Absent
    /\ reader' = [q \in Readers |->
                     IF q = p THEN [reader[p] EXCEPT !.pc = "store"]
                     ELSE [reader[q] EXCEPT !.file = IF @ = "tmp" THEN "none" ELSE @]]
    /\ UNCHANGED <<objectVars, refVars, plan, gc, idx, overlap, spent>>

historyFromStore(p) ==
    /\ reader[p].pc = "store"
    /\ LET walk == Bfs(parents, stored.commits, reader[p].head, {}, {}, {})
       IN  Move(p, IF walk.end = "error" THEN [reader[p] EXCEPT !.pc = "failed"]
                   ELSE [reader[p] EXCEPT !.pc = "shown", !.entries = walk.seen])
    /\ UNCHANGED <<objectVars, refVars, plan, gc, idx, tmp, overlap, spent>>

----------------------------------------------------------------------------
(* verify                                                                  *)

\* Mutant: only the subtrees a tree lists are looked for.
verifyTreesOnly == \A t \in stored.objects \cap Tree : Entries[t] \cap Tree \subseteq stored.objects

verifyTrees == \A t \in stored.objects \cap Tree : Entries[t] \subseteq stored.objects

verifyCommits ==
    \A c \in stored.commits : /\ rootTree[c] \in stored.objects
                              /\ Range(parents[c]) \subseteq stored.commits

verifyRefs == \A b \in Branches : branch[b] \in stored.commits \/ (branch[b] = NoCommit /\ b # head)

\* The verdict over the objects, trees, commits and references.
Healthy == verifyTrees /\ verifyCommits /\ verifyRefs

----------------------------------------------------------------------------

CommandStart ==
    \/ \E t \in Tree : Add(t)
    \/ CommitStaged
    \/ \E b \in Branches : CreateBranch(b) \/ SwitchTo(b)
    \/ Undo

CommandStep ==
    (\E o \in Tree \cup Blob : WriteObject(o)) \/ CheckChanged \/ WriteCommit \/ MoveRef \/ AppendLog \/ Checkout
    \/ WriteIndex \/ Invalidate \/ CommandCrash

Collect == ListRefs \/ Mark \/ listLooseObjects \/ Sweep \/ EndCollect \/ CollectCrash

History(p) ==
    resolveHEAD(p) \/ Load(p) \/ Build(p) \/ OpenTmp(p) \/ WriteTmp(p) \/ RenameTmp(p)
    \/ RemoveTmp(p) \/ historyFromStore(p)

Next == CommandStart \/ CommandStep \/ Collect \/ \E p \in Readers : History(p)

Spec == Init /\ [][Next]_vars

----------------------------------------------------------------------------
(* Properties                                                              *)

\* gc keeps what is in use: as long as no command has run while a collection was under way
\* and none has removed what the index names, every commit reachable from a branch or named
\* by HEAD's reflog, where undo may return to, is stored with its whole tree; through
\* commits, undos, crashes of commands half way and of collections half way.
GcSpares ==
    "gc" \notin overlap =>
        \A c \in ({branch[b] : b \in Branches} \cup headLog) \ {NoCommit} :
            \A d \in Reach(parents, c) : Whole(stored, d)

\* history shows the whole history of the commit HEAD named or nothing, never a part of it,
\* however builders of graph.idx share its temporary file; nothing only if the index is one
\* a command raced or died before removing, or there is a nested branch: an index built
\* elsewhere leaves it out, and what is branched off it.  It fails only over a store that has
\* lost a commit.
HistoryWhole ==
    \A p \in Readers :
        /\ reader[p].pc = "shown" =>
              \/ reader[p].entries = Reach(parents, reader[p].head)
              \/ /\ reader[p].entries = {}
                 /\ overlap \cap {"history", "crash"} # {} \/ \E b \in Nested : branch[b] # NoCommit
        /\ reader[p].pc = "failed" => "gc" \in overlap

\* verify's local checks are enough: when it finds nothing wrong, the whole history of
\* every branch is there, down to the blobs, whatever has raced or crashed before.
VerifySound ==
    Healthy => \A b \in Branches : \A c \in Reach(parents, branch[b]) : Whole(stored, c)
==============================================================================
