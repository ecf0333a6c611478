----------------------------- MODULE Transaction -----------------------------
(***************************************************************************)
(* The transaction engine: processes that run VARA commands on one         *)
(* repository, each a fixed program of journal updates and durable writes  *)
(* between Begin and Commit or Rollback (internal/transaction), under the  *)
(* lock files of Locking, with crashes, I/O errors, lock timeouts and the  *)
(* first layer of `vara undo` (internal/undo, pkg/recovery).               *)
(*                                                                         *)
(* What a command writes is abstracted to which file it writes; the order  *)
(* of its writes and of its journal states is the code's.                  *)
(***************************************************************************)
EXTENDS Locking, Sequences, FiniteSets

CONSTANTS Commands,   \* the commands the processes run, a subset of AllCommands
          MaxTxn      \* bound: journal files created in a behaviour

VARIABLES pc,         \* where each process is
          cmd,        \* the command it runs
          step,       \* next lock to take, or next program step
          held,       \* Transaction.locks: the locks it knows it holds
          txn,        \* the number of its journal file; 0 is none
          journal,    \* the journal directory, in file-name (creation) order
          wrote,      \* history: files written by the unfinished command
          scan        \* what a running `vara undo` read from the journal

txnVars == <<lockFile, pc, cmd, step, held, txn, journal, wrote, scan>>
localVars == <<cmd, step, held, txn, scan>>

----------------------------------------------------------------------------
(* The commands                                                            *)

State   == {"BEGIN", "EXECUTE", "VERIFY", "COMMIT", "COMPLETED", "FAILED"}
File    == {"worktree", "index", "HEAD", "ref", "reflog", "MERGE_HEAD", "CONFLICTS"}

SetState(s) == [op |-> "journal", arg |-> s]
Write(f)    == [op |-> "write", arg |-> f]   \* an error aborts the command
Try(f)      == [op |-> "try", arg |-> f]     \* an error is ignored or only warned of
Steps == {SetState(s) : s \in State} \cup {Write(f) : f \in File} \cup {Try(f) : f \in File}

\* RunSwitch, from Begin to Commit.
SwitchProgram ==
    << SetState("EXECUTE"), Write("worktree"), Write("index"), SetState("VERIFY"),
       Write("HEAD"), Try("reflog"), SetState("COMMIT") >>

\* MergeIntoHEADWith when the engine fast-forwards.
FastForwardProgram ==
    << SetState("EXECUTE"), Write("worktree"), Write("index"), SetState("VERIFY"),
       Write("ref"), Try("reflog") >>

\* MergeIntoHEADWith and concludeMerge when the engine merges cleanly.
CleanMergeProgram ==
    << SetState("EXECUTE"), Write("worktree"), SetState("VERIFY"),
       Write("index"), Write("ref"), Try("reflog") >>

\* MergeIntoHEADWith when their commit is already merged: the engine touches nothing, and
\* concludeMerge makes a merge commit all the same.
UpToDateProgram ==
    << SetState("EXECUTE"), SetState("VERIFY"), Write("index"), Write("ref"), Try("reflog") >>

\* MergeIntoHEADWith when conflicts remain: the engine leaves MERGE_HEAD behind, then
\* refineConflicts rewrites the working tree or, failing, leaves the engine's markers.  What
\* applyMergePolicy does after Commit is resolve and commit.
ConflictProgram ==
    << SetState("EXECUTE"), Write("worktree"), Write("MERGE_HEAD"),
       Try("worktree"), Write("index"), Try("CONFLICTS") >>

\* MergeIntoHEADWith when refineConflicts settles every conflict; when it cannot, the
\* command is a ConflictProgram.
SettledMergeProgram ==
    << SetState("EXECUTE"), Write("worktree"), Write("MERGE_HEAD"), SetState("VERIFY"),
       Write("index"), Write("MERGE_HEAD"), Try("CONFLICTS"), Write("ref"), Try("reflog") >>

\* fastForwardUnborn.
UnbornProgram ==
    << SetState("EXECUTE"), Write("worktree"), Write("index"), Write("ref"), Try("reflog") >>

\* RunMergeAbort.
AbortProgram ==
    << SetState("EXECUTE"), Write("worktree"), Write("index"), SetState("VERIFY"),
       Write("MERGE_HEAD"), Write("CONFLICTS") >>

\* undoReflog: the journal stays in BEGIN until Commit.
UndoProgram ==
    << Write("ref"), Write("worktree"), Write("index"), Try("MERGE_HEAD"), Write("reflog") >>

\* Local.ReceivePack: the refs lock, no journal.
ReceivePackProgram == << Try("ref") >>

\* RunCommitWith: neither lock nor journal.
CommitProgram ==
    << Write("ref"), Try("reflog"), Write("index"), Try("MERGE_HEAD"), Try("CONFLICTS") >>

Program ==
    [ switch      |-> SwitchProgram,
      fastForward |-> FastForwardProgram,
      merge       |-> CleanMergeProgram,
      upToDate    |-> UpToDateProgram,
      conflict    |-> ConflictProgram,
      settled     |-> SettledMergeProgram,
      unborn      |-> UnbornProgram,
      abort       |-> AbortProgram,
      undo        |-> UndoProgram,
      receivePack |-> ReceivePackProgram,
      commit      |-> CommitProgram ]

Journaled ==
    {"switch", "fastForward", "merge", "upToDate", "conflict", "settled", "unborn", "abort", "undo"}
Locked == Journaled \cup {"receivePack"}
AllCommands == Locked \cup {"commit"}
NoCommand == "none"

\* Mutant: a push takes no lock.
LockPlanReceiveNone(c) == IF c \in Journaled THEN << "refs", "index" >> ELSE << >>

\* Mutant: a push takes both locks, in alphabetical order.
LockPlanReceiveReversed(c) ==
    IF c \in Journaled THEN << "refs", "index" >>
    ELSE IF c = "receivePack" THEN << "index", "refs" >> ELSE << >>

\* The lockNames each caller passes to Begin, or to AcquireWithTimeout.
LockPlan(c) ==
    IF c \in Journaled THEN << "refs", "index" >>
    ELSE IF c = "receivePack" THEN << "refs" >> ELSE << >>

ASSUME CommandsAssumption == Commands \subseteq AllCommands
ASSUME MaxTxnAssumption == MaxTxn \in Nat

----------------------------------------------------------------------------
(* Begin                                                                   *)

PC == {"idle", "acquire", "run", "rollback", "release", "recover-read", "recover-write", "dead"}

\* A journal file: the command, its state, and (history) the files written under it.
Entry == [cmd : Journaled, state : State, wrote : SUBSET File]

NoScan == [id |-> 0, state |-> "BEGIN", data |-> "BEGIN"]

Goto(p, l) == pc' = [pc EXCEPT ![p] = l]

Started == Len(journal) + Cardinality({p \in Proc : pc[p] = "acquire" /\ cmd[p] \in Journaled})

\* ScanJournal: the unfinished transactions.
Pending == {i \in DOMAIN journal : journal[i].state \notin {"COMPLETED", "FAILED"}}

\* A process starts a command.  `vara undo` does so only when ScanJournal finds
\* nothing pending (Undo, layer 2).
Start(p, c) ==
    /\ pc[p] = "idle"
    /\ c \in Journaled => Started < MaxTxn
    /\ c = "undo" => Pending = {}
    /\ Goto(p, "acquire")
    /\ cmd' = [cmd EXCEPT ![p] = c]
    /\ step' = [step EXCEPT ![p] = 1]
    /\ UNCHANGED <<lockFile, held, txn, journal, wrote, scan>>

NextLock(p) == LockPlan(cmd[p])[step[p]]

\* Begin: the next lock of the plan is taken.
Acquire(p) ==
    /\ pc[p] = "acquire"
    /\ step[p] <= Len(LockPlan(cmd[p]))
    /\ TryAcquire(p, NextLock(p))
    /\ held' = [held EXCEPT ![p] = @ \cup {NextLock(p)}]
    /\ step' = [step EXCEPT ![p] = @ + 1]
    /\ UNCHANGED <<pc, cmd, txn, journal, wrote, scan>>

\* Mutant: the loop has no deadline.
AcquireNeverFails(p) == pc[p] = "none" /\ UNCHANGED txnVars

\* Begin: the deadline passed with the file still there, or the open failed with
\* another error; the locks already taken are released and the command fails.
AcquireFails(p) ==
    /\ pc[p] = "acquire"
    /\ step[p] <= Len(LockPlan(cmd[p]))
    /\ Goto(p, "release")
    /\ UNCHANGED <<lockFile, localVars, journal, wrote>>

\* Begin, after the last lock: the journal file is created in state BEGIN.
BeginJournal(p) ==
    /\ pc[p] = "acquire"
    /\ step[p] > Len(LockPlan(cmd[p]))
    /\ IF cmd[p] \in Journaled
       THEN /\ journal' = Append(journal, [cmd |-> cmd[p], state |-> "BEGIN", wrote |-> {}])
            /\ txn' = [txn EXCEPT ![p] = Len(journal) + 1]
       ELSE UNCHANGED <<journal, txn>>
    /\ Goto(p, "run")
    /\ step' = [step EXCEPT ![p] = 1]
    /\ UNCHANGED <<lockFile, cmd, held, wrote, scan>>

\* Begin: the journal directory or file cannot be written.
BeginFails(p) ==
    /\ pc[p] = "acquire"
    /\ step[p] > Len(LockPlan(cmd[p]))
    /\ cmd[p] \in Journaled
    /\ Goto(p, "release")
    /\ UNCHANGED <<lockFile, localVars, journal, wrote>>

----------------------------------------------------------------------------
(* The body of a command                                                   *)

\* flush: the whole in-memory journal record replaces the file (temp file, rename).
Flush(p, s) == journal' = [journal EXCEPT ![txn[p]].state = s]

\* A durable write, remembered in the history of the process and of its journal entry.
Record(p, f) ==
    /\ wrote' = [wrote EXCEPT ![p] = @ \cup {f}]
    /\ journal' = IF txn[p] = 0 THEN journal
                  ELSE [journal EXCEPT ![txn[p]].wrote = @ \cup {f}]

Current(p) == Program[cmd[p]][step[p]]

Running(p) == pc[p] = "run" /\ step[p] <= Len(Program[cmd[p]])

Advance(p) ==
    /\ step' = [step EXCEPT ![p] = @ + 1]
    /\ UNCHANGED <<lockFile, pc, cmd, held, txn, scan>>

\* SetState: a journal update.
SetStateStep(p) ==
    /\ Running(p)
    /\ Current(p).op = "journal"
    /\ Flush(p, Current(p).arg)
    /\ UNCHANGED wrote
    /\ Advance(p)

\* A write of the working tree, the index, a reference, a reflog or a merge marker.
WriteStep(p) ==
    /\ Running(p)
    /\ Current(p).op \in {"write", "try"}
    /\ Record(p, Current(p).arg)
    /\ Advance(p)

\* Mutant: every write error is only warned of.
AnyWriteFailsQuietly(p) ==
    /\ Running(p)
    /\ Current(p).op \in {"write", "try"}
    /\ UNCHANGED <<journal, wrote>>
    /\ Advance(p)

\* A write whose error the code ignores is skipped.
TryFails(p) ==
    /\ Running(p)
    /\ Current(p).op = "try"
    /\ UNCHANGED <<journal, wrote>>
    /\ Advance(p)

\* Any other step that fails makes the command return its error; the deferred
\* Rollback (or lock.Release) runs next.
StepFails(p) ==
    /\ Running(p)
    /\ Current(p).op # "try"
    /\ Goto(p, "rollback")
    /\ UNCHANGED <<lockFile, localVars, journal, wrote>>

\* Mutant: Commit flushes a state that recovery does not know.
CommitMisspelt(p) ==
    /\ pc[p] = "run"
    /\ step[p] > Len(Program[cmd[p]])
    /\ txn[p] # 0 /\ Flush(p, "COMPLETE")
    /\ wrote' = [wrote EXCEPT ![p] = {}]
    /\ Goto(p, "release")
    /\ UNCHANGED <<lockFile, localVars>>

\* Commit: COMPLETED is flushed, or the flush fails; the locks are released either way
\* and the deferred Rollback has become a no-op.
Commit(p) ==
    /\ pc[p] = "run"
    /\ step[p] > Len(Program[cmd[p]])
    /\ \/ txn[p] # 0 /\ Flush(p, "COMPLETED")
       \/ UNCHANGED journal
    /\ wrote' = [wrote EXCEPT ![p] = {}]
    /\ Goto(p, "release")
    /\ UNCHANGED <<lockFile, localVars>>

\* Rollback: FAILED is flushed, best effort.  No write is taken back.
Rollback(p) ==
    /\ pc[p] = "rollback"
    /\ \/ txn[p] # 0 /\ Flush(p, "FAILED")
       \/ UNCHANGED journal
    /\ wrote' = [wrote EXCEPT ![p] = {}]
    /\ Goto(p, "release")
    /\ UNCHANGED <<lockFile, localVars>>

\* releaseLocks, one file at a time in acquisition order.  An error of Release is
\* ignored: the file stays and nobody remembers it.
ReleaseOne(p) ==
    /\ pc[p] = "release"
    /\ \E l \in held[p] :
          /\ \A m \in held[p] : Rank[l] <= Rank[m]
          /\ Remove(l) \/ UNCHANGED lockFile
          /\ held' = [held EXCEPT ![p] = @ \ {l}]
    /\ UNCHANGED <<pc, cmd, step, txn, journal, wrote, scan>>

\* Mutant: releaseLocks stops after the first lock.
ReturnEarly(p) ==
    /\ pc[p] = "release"
    /\ Cardinality(held[p]) <= 1
    /\ Goto(p, "idle")
    /\ cmd' = [cmd EXCEPT ![p] = NoCommand]
    /\ step' = [step EXCEPT ![p] = 1]
    /\ txn' = [txn EXCEPT ![p] = 0]
    /\ UNCHANGED <<lockFile, held, journal, wrote, scan>>

\* The command returns.
Return(p) ==
    /\ pc[p] = "release"
    /\ held[p] = {}
    /\ Goto(p, "idle")
    /\ cmd' = [cmd EXCEPT ![p] = NoCommand]
    /\ step' = [step EXCEPT ![p] = 1]
    /\ txn' = [txn EXCEPT ![p] = 0]
    /\ UNCHANGED <<lockFile, held, journal, wrote, scan>>

\* The process dies: its memory is gone, its files stay.
Crash(p) ==
    /\ pc[p] \notin {"idle", "dead"}
    /\ Goto(p, "dead")
    /\ cmd' = [cmd EXCEPT ![p] = NoCommand]
    /\ step' = [step EXCEPT ![p] = 1]
    /\ held' = [held EXCEPT ![p] = {}]
    /\ txn' = [txn EXCEPT ![p] = 0]
    /\ scan' = [scan EXCEPT ![p] = NoScan]
    /\ UNCHANGED <<lockFile, journal, wrote>>

----------------------------------------------------------------------------
(* vara undo, layer 1: no lock is taken                                    *)

\* Undo: ScanJournal found pending transactions; the oldest is chosen.
Scan(p) ==
    /\ pc[p] = "idle"
    /\ \E i \in Pending :
          /\ \A j \in Pending : i <= j
          /\ scan' = [scan EXCEPT ![p] = [NoScan EXCEPT !.id = i, !.state = journal[i].state]]
    /\ Goto(p, "recover-read")
    /\ UNCHANGED <<lockFile, cmd, step, held, txn, journal, wrote>>

\* undoJournal: the file is read again.
RecoverRead(p) ==
    /\ pc[p] = "recover-read"
    /\ scan' = [scan EXCEPT ![p].data = journal[scan[p].id].state]
    /\ Goto(p, "recover-write")
    /\ UNCHANGED <<lockFile, cmd, step, held, txn, journal, wrote>>

\* undoJournal: the scanned state is replaced by FAILED in what was read, and that
\* text replaces the file, unless the write fails.
RecoverWrite(p) ==
    /\ pc[p] = "recover-write"
    /\ \/ journal' = [journal EXCEPT ![scan[p].id].state =
                         IF scan[p].data = scan[p].state THEN "FAILED" ELSE scan[p].data]
       \/ UNCHANGED journal
    /\ scan' = [scan EXCEPT ![p] = NoScan]
    /\ Goto(p, "idle")
    /\ UNCHANGED <<lockFile, cmd, step, held, txn, wrote>>

----------------------------------------------------------------------------
(* The specification                                                       *)

Init ==
    /\ LockInit
    /\ pc = [p \in Proc |-> "idle"]
    /\ cmd = [p \in Proc |-> NoCommand]
    /\ step = [p \in Proc |-> 1]
    /\ held = [p \in Proc |-> {}]
    /\ txn = [p \in Proc |-> 0]
    /\ journal = << >>
    /\ wrote = [p \in Proc |-> {}]
    /\ scan = [p \in Proc |-> NoScan]

\* What a running command does next, whatever the outcome.
Progress(p) ==
    \/ Acquire(p) \/ AcquireFails(p) \/ BeginJournal(p) \/ BeginFails(p)
    \/ SetStateStep(p) \/ WriteStep(p) \/ TryFails(p) \/ StepFails(p)
    \/ Commit(p) \/ Rollback(p) \/ ReleaseOne(p) \/ Return(p)
    \/ RecoverRead(p) \/ RecoverWrite(p)

Next ==
    \E p \in Proc :
        \/ \E c \in Commands : Start(p, c)
        \/ Scan(p)
        \/ Progress(p)
        \/ Crash(p)

Spec == Init /\ [][Next]_txnVars

\* A command that has started is run to its end by its process unless it dies: every
\* loop of AcquireWithTimeout ends at its deadline.
FairSpec == Spec /\ \A p \in Proc : WF_txnVars(Progress(p))

----------------------------------------------------------------------------
(* Properties                                                              *)

TypeOK ==
    /\ lockFile \in [Lock -> Proc \cup {Free}]
    /\ pc \in [Proc -> PC]
    /\ cmd \in [Proc -> Commands \cup {NoCommand}]
    /\ step \in [Proc -> Nat \ {0}]
    /\ held \in [Proc -> SUBSET Lock]
    /\ txn \in [Proc -> Nat]
    /\ journal \in Seq(Entry)
    /\ wrote \in [Proc -> SUBSET File]
    /\ scan \in [Proc -> [id : Nat, state : State, data : State]]

\* A lock a process believes it holds is a lock file with its own PID, so releasing it
\* never removes the file of another process (Release removes by path, unchecked).
HeldIsOwned == \A p \in Proc : \A l \in held[p] : lockFile[l] = p

\* At most one command is between its first durable write and its end, crashed ones
\* included: nobody updates a repository another command left half written.  The lock
\* file a dead process leaves behind is what keeps the others out.
OneOpenUpdate ==
    \A p, q \in Proc : wrote[p] # {} /\ wrote[q] # {} => p = q

\* p waits for a lock file that q created and still means to remove.
WaitsFor(p, q) ==
    /\ pc[p] = "acquire"
    /\ step[p] <= Len(LockPlan(cmd[p]))
    /\ NextLock(p) \in held[q]

\* No set of processes in which each waits for another one of the set: the order of
\* the lock plans makes Begin free of deadlock (README: "Deadlock-free by construction").
NoCircularWait ==
    \A S \in SUBSET Proc : S # {} => \E p \in S : \A q \in S : ~WaitsFor(p, q)

\* The locks Begin has taken before its k-th.
Taken(c, k) == {LockPlan(c)[i] : i \in {j \in DOMAIN LockPlan(c) : j < k}}

\* Which locks a process holds follows from where it is.
HeldByPlace ==
    \A p \in Proc :
        /\ pc[p] \in {"idle", "dead", "recover-read", "recover-write"} => held[p] = {}
        /\ pc[p] \in {"acquire", "run", "rollback", "release"} => cmd[p] \in Commands
        /\ pc[p] = "acquire" => held[p] = Taken(cmd[p], step[p])
        /\ pc[p] \in {"run", "rollback"} /\ cmd[p] \in Locked => "refs" \in held[p]

\* A half-written repository has its writer's PID in the refs lock, dead or alive.
OpenUpdateLocked ==
    \A p \in Proc : wrote[p] # {} =>
        /\ pc[p] \in {"run", "rollback", "dead"}
        /\ Commands \subseteq Locked => lockFile["refs"] = p

\* The inductive invariant behind OneOpenUpdate and NoCircularWait.
LockInv == HeldIsOwned /\ HeldByPlace /\ OpenUpdateLocked

\* The files a command must have written before its k-th step.
MustHaveWritten(c, k) ==
    {Program[c][i].arg : i \in {j \in 1..(k - 1) : Program[c][j].op = "write"}}

\* The journal never runs ahead of the disk: an entry in EXECUTE, VERIFY or COMMIT has
\* every mandatory write its program makes before that phase, a COMPLETED one has all,
\* whatever a concurrent `vara undo` wrote over the entry.
JournalNeverAhead ==
    \A i \in DOMAIN journal :
        LET e == journal[i] IN
        /\ \A k \in DOMAIN Program[e.cmd] :
              Program[e.cmd][k] = SetState(e.state) => MustHaveWritten(e.cmd, k) \subseteq e.wrote
        /\ e.state = "COMPLETED" => MustHaveWritten(e.cmd, Len(Program[e.cmd]) + 1) \subseteq e.wrote

\* Every command returns, though locks may be orphaned by crashes: the lock timeout ends
\* the wait.
CommandsReturn ==
    \A p \in Proc : pc[p] # "idle" ~> pc[p] \in {"idle", "dead"}
==============================================================================
