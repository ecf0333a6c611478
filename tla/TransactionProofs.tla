-------------------------- MODULE TransactionProofs --------------------------
(***************************************************************************)
(* Proofs about Transaction, for every set of processes, every set of      *)
(* commands and every bound on the journal.                                *)
(***************************************************************************)
EXTENDS Transaction, SequenceTheorems, TLAPS

USE FreeAssumption, CommandsAssumption, MaxTxnAssumption

----------------------------------------------------------------------------
(* The commands                                                            *)

\* The lock plan of a command is a sequence of lock names in increasing rank.
LEMMA PlanFacts ==
    ASSUME NEW c \in AllCommands
    PROVE  /\ LockPlan(c) \in Seq(Lock)
           /\ Len(LockPlan(c)) \in Nat
           /\ DOMAIN LockPlan(c) = 1..Len(LockPlan(c))
           /\ \A i, j \in 1..Len(LockPlan(c)) :
                 i < j => Rank[LockPlan(c)[i]] < Rank[LockPlan(c)[j]]
           /\ c \in Locked => "refs" \in {LockPlan(c)[i] : i \in 1..Len(LockPlan(c))}
<1>1. CASE c \in Journaled
  <2>1. LockPlan(c) = << "refs", "index" >>
    BY <1>1 DEF LockPlan
  <2> QED BY <2>1, <1>1 DEF Lock, Rank
<1>2. CASE c = "receivePack"
  <2>1. LockPlan(c) = << "refs" >>
    BY <1>2 DEF LockPlan, Journaled
  <2> QED BY <2>1 DEF Lock, Rank
<1>3. CASE c = "commit"
  <2>1. LockPlan(c) = << >>
    BY <1>3 DEF LockPlan, Journaled
  <2> QED BY <2>1, <1>3 DEF Lock, Rank, Locked, Journaled
<1> QED BY <1>1, <1>2, <1>3 DEF AllCommands, Locked

\* Every program is a finite sequence of steps.
LEMMA ProgramFacts ==
    ASSUME NEW c \in AllCommands
    PROVE  /\ Program[c] \in Seq(Steps)
           /\ Len(Program[c]) \in Nat
           /\ DOMAIN Program[c] = 1..Len(Program[c])
<1> USE DEF Program, Steps, SetState, Write, Try, State, File
<1>1. CASE c = "switch"       BY <1>1 DEF SwitchProgram
<1>2. CASE c = "fastForward" BY <1>2 DEF FastForwardProgram
<1>3. CASE c = "merge"        BY <1>3 DEF CleanMergeProgram
<1>4. CASE c = "conflict"     BY <1>4 DEF ConflictProgram
<1>5. CASE c = "settled"      BY <1>5 DEF SettledMergeProgram
<1>6. CASE c = "unborn"       BY <1>6 DEF UnbornProgram
<1>7. CASE c = "abort"        BY <1>7 DEF AbortProgram
<1>8. CASE c = "undo"         BY <1>8 DEF UndoProgram
<1>9. CASE c = "receivePack" BY <1>9 DEF ReceivePackProgram
<1>10. CASE c = "commit"      BY <1>10 DEF CommitProgram
<1>11. CASE c = "upToDate"    BY <1>11 DEF UpToDateProgram
<1> QED BY <1>1, <1>2, <1>3, <1>4, <1>5, <1>6, <1>7, <1>8, <1>9, <1>10, <1>11
   DEF AllCommands, Locked, Journaled

----------------------------------------------------------------------------
(* Type correctness                                                        *)

\* Rewriting one field of one journal entry gives a journal of the same length.
LEMMA StateUpdate ==
    ASSUME NEW j \in Seq(Entry), NEW n \in Nat, NEW s \in State, NEW k,
           k = [j EXCEPT ![n].state = s]
    PROVE  k \in Seq(Entry) /\ Len(k) = Len(j)
<1>1. j \in [1..Len(j) -> Entry] /\ Len(j) \in Nat
  BY LenProperties
<1>2. k \in [1..Len(j) -> Entry]
  BY <1>1 DEF Entry
<1> QED BY <1>1, <1>2, IsASeq, LenProperties

\* The commands of running processes are among Commands: the part of LockInv that the
\* type invariant needs.
CommandsKnown ==
    \A p \in Proc : pc[p] \in {"acquire", "run", "rollback", "release"} => cmd[p] \in Commands

\* Journal files are never removed, so what a scan chose stays there.
ScanKnown ==
    \A p \in Proc : pc[p] \in {"recover-read", "recover-write"} => scan[p].id \in 1..Len(journal)

TypeInv == TypeOK /\ CommandsKnown /\ ScanKnown

\* The step a running command is at is a step of some program.
LEMMA CurrentType ==
    ASSUME NEW p \in Proc, TypeInv, Running(p)
    PROVE  /\ Current(p) \in Steps
           /\ Current(p).op = "journal" => Current(p).arg \in State
           /\ Current(p).op \in {"write", "try"} => Current(p).arg \in File
<1>1. cmd[p] \in AllCommands /\ step[p] \in 1..Len(Program[cmd[p]])
  BY ProgramFacts DEF TypeInv, TypeOK, CommandsKnown, Running
<1>2. Current(p) \in Steps
  BY <1>1, ProgramFacts, ElementOfSeq DEF Current
<1> QED BY <1>2 DEF Steps, SetState, Write, Try

\* The initial state is well typed.
LEMMA TypeInit == Init => TypeInv
<1> SUFFICES ASSUME Init PROVE TypeInv
  OBVIOUS
<1>1. journal \in Seq(Entry)
  BY DEF Init
<1> QED BY <1>1 DEF Init, TypeInv, TypeOK, CommandsKnown, ScanKnown, LockInit, NoScan, State, PC

\* Every step of every process keeps the types and the two facts TypeInv adds to them.
LEMMA TypeStep == TypeInv /\ [Next]_txnVars => TypeInv'
<1> SUFFICES ASSUME TypeInv, [Next]_txnVars PROVE TypeInv'
  OBVIOUS
<1> USE DEF TypeInv, TypeOK, CommandsKnown, ScanKnown, PC
<1>len. Len(journal) \in Nat
  BY LenProperties
<1>0. CASE UNCHANGED txnVars
  BY <1>0 DEF txnVars
<1>1. ASSUME NEW p \in Proc, NEW c \in Commands, Start(p, c) PROVE TypeInv'
  BY <1>1 DEF Start, Goto
<1>2. ASSUME NEW p \in Proc, Acquire(p) PROVE TypeInv'
  <2>1. NextLock(p) \in Lock
    <3>1. cmd[p] \in AllCommands /\ step[p] \in 1..Len(LockPlan(cmd[p]))
      BY <1>2, PlanFacts DEF Acquire
    <3> QED BY <3>1, PlanFacts, ElementOfSeq DEF NextLock
  <2> QED BY <2>1, <1>2 DEF Acquire, TryAcquire
<1>3. ASSUME NEW p \in Proc, AcquireFails(p) PROVE TypeInv'
  BY <1>3 DEF AcquireFails, Goto, localVars
<1>4. ASSUME NEW p \in Proc, BeginJournal(p) PROVE TypeInv'
  <2>1. journal' \in Seq(Entry) /\ Len(journal') >= Len(journal) /\ txn' \in [Proc -> Nat]
    <3>1. CASE cmd[p] \in Journaled
      <4> DEFINE e == [cmd |-> cmd[p], state |-> "BEGIN", wrote |-> {}]
      <4>1. e \in Entry
        BY <3>1 DEF Entry, State
      <4>2. journal' = Append(journal, e) /\ txn' = [txn EXCEPT ![p] = Len(journal) + 1]
        BY <3>1, <1>4 DEF BeginJournal
      <4> HIDE DEF e
      <4>3. journal' \in Seq(Entry) /\ Len(journal') = Len(journal) + 1
        BY <4>1, <4>2, AppendProperties
      <4> QED BY <4>2, <4>3, <1>len
    <3>2. CASE cmd[p] \notin Journaled
      BY <3>2, <1>4, <1>len DEF BeginJournal
    <3> QED BY <3>1, <3>2
  <2> QED BY <2>1, <1>4, <1>len, LenProperties DEF BeginJournal, Goto
<1>5. ASSUME NEW p \in Proc, BeginFails(p) PROVE TypeInv'
  BY <1>5 DEF BeginFails, Goto, localVars
<1>6. ASSUME NEW p \in Proc, SetStateStep(p) PROVE TypeInv'
  <2>1. journal' \in Seq(Entry) /\ Len(journal') = Len(journal)
    <3>1. Current(p).arg \in State
      BY <1>6, CurrentType DEF SetStateStep
    <3>2. journal' = [journal EXCEPT ![txn[p]].state = Current(p).arg]
      BY <1>6 DEF SetStateStep, Flush
    <3>3. journal \in Seq(Entry) /\ txn[p] \in Nat
      OBVIOUS
    <3> HIDE DEF TypeInv
    <3> QED BY <3>1, <3>2, <3>3, StateUpdate, ZenonT(30)
  <2> QED BY <2>1, <1>6 DEF SetStateStep, Advance
<1>7. ASSUME NEW p \in Proc, WriteStep(p) PROVE TypeInv'
  <2>1. Current(p).arg \in File
    BY <1>7, CurrentType DEF WriteStep
  <2>2. wrote' \in [Proc -> SUBSET File]
    BY <2>1, <1>7 DEF WriteStep, Record
  <2>3. journal' \in Seq(Entry) /\ Len(journal') = Len(journal)
    <3>1. CASE txn[p] \in DOMAIN journal
      <4>1. journal[txn[p]] \in Entry
        BY <3>1, ElementOfSeq, LenProperties
      <4>2. journal[txn[p]].wrote \cup {Current(p).arg} \in SUBSET File
        BY <4>1, <2>1 DEF Entry
      <4> DEFINE W == journal[txn[p]].wrote \cup {Current(p).arg}
      <4>3. journal \in Seq(Entry) /\ txn[p] \in Nat /\ txn[p] # 0
        BY <3>1, LenProperties
      <4>4. journal' = [journal EXCEPT ![txn[p]].wrote = W]
        BY <4>3, <1>7 DEF WriteStep, Record
      <4> HIDE DEF W, TypeInv
      <4>5. W \in SUBSET File
        BY <4>2 DEF W
      <4>6. journal \in [1..Len(journal) -> Entry] /\ Len(journal) \in Nat
        BY <4>3, LenProperties
      <4>7. journal' \in [1..Len(journal) -> Entry]
        BY <4>4, <4>5, <4>6 DEF Entry
      <4> QED BY <4>6, <4>7, IsASeq, LenProperties
    <3>2. CASE txn[p] \notin DOMAIN journal
      <4>1. journal' = journal
        BY <3>2, <1>7, LenProperties DEF WriteStep, Record
      <4> QED BY <4>1
    <3> QED BY <3>1, <3>2
  <2> QED BY <2>2, <2>3, <1>7 DEF WriteStep, Advance
<1>8. ASSUME NEW p \in Proc, TryFails(p) PROVE TypeInv'
  BY <1>8 DEF TryFails, Advance
<1>9. ASSUME NEW p \in Proc, StepFails(p) PROVE TypeInv'
  BY <1>9 DEF StepFails, Running, Goto, localVars
<1>10. ASSUME NEW p \in Proc, Commit(p) PROVE TypeInv'
  <2>0. "COMPLETED" \in State
    BY DEF State
  <2>1. journal' \in Seq(Entry) /\ Len(journal') = Len(journal)
    BY <1>10, <2>0, StateUpdate DEF Commit, Flush
  <2> QED BY <2>1, <1>10 DEF Commit, Goto, localVars
<1>11. ASSUME NEW p \in Proc, Rollback(p) PROVE TypeInv'
  <2>0. "FAILED" \in State
    BY DEF State
  <2>1. journal' \in Seq(Entry) /\ Len(journal') = Len(journal)
    BY <1>11, <2>0, StateUpdate DEF Rollback, Flush
  <2> QED BY <2>1, <1>11 DEF Rollback, Goto, localVars
<1>12. ASSUME NEW p \in Proc, ReleaseOne(p) PROVE TypeInv'
  <2>1. PICK l \in held[p] :
            (Remove(l) \/ UNCHANGED lockFile) /\ held' = [held EXCEPT ![p] = @ \ {l}]
    BY <1>12 DEF ReleaseOne
  <2>2. lockFile' \in [Lock -> Proc \cup {Free}]
    BY <2>1 DEF Remove
  <2> QED BY <2>1, <2>2, <1>12 DEF ReleaseOne
<1>13. ASSUME NEW p \in Proc, Return(p) PROVE TypeInv'
  BY <1>13 DEF Return, Goto
<1>14. ASSUME NEW p \in Proc, Crash(p) PROVE TypeInv'
  BY <1>14 DEF Crash, Goto, NoScan, State
<1>15. ASSUME NEW p \in Proc, Scan(p) PROVE TypeInv'
  <2>1. PICK i \in Pending :
          scan' = [scan EXCEPT ![p] = [NoScan EXCEPT !.id = i, !.state = journal[i].state]]
    BY <1>15 DEF Scan
  <2>2. i \in Nat /\ journal[i] \in Entry
    BY <2>1, ElementOfSeq, LenProperties DEF Pending
  <2>3. journal[i].state \in State
    BY <2>2 DEF Entry
  <2>4. scan' \in [Proc -> [id : Nat, state : State, data : State]] /\ scan'[p].id = i
    BY <2>1, <2>2, <2>3 DEF NoScan, State
  <2>5. i \in 1..Len(journal)
    BY <2>1, LenProperties DEF Pending
  <2> QED BY <2>1, <2>4, <2>5, <1>15 DEF Scan, Goto
<1>16. ASSUME NEW p \in Proc, RecoverRead(p) PROVE TypeInv'
  <2>1. journal[scan[p].id] \in Entry
    BY <1>16, ElementOfSeq DEF RecoverRead
  <2>2. journal[scan[p].id].state \in State
    BY <2>1 DEF Entry
  <2> QED BY <2>2, <1>16 DEF RecoverRead, Goto
<1>17. ASSUME NEW p \in Proc, RecoverWrite(p) PROVE TypeInv'
  <2>0. "FAILED" \in State /\ NoScan \in [id : Nat, state : State, data : State]
    BY DEF State, NoScan
  <2>1. journal' \in Seq(Entry) /\ Len(journal') = Len(journal)
    <3> DEFINE s == IF scan[p].data = scan[p].state THEN "FAILED" ELSE scan[p].data
    <3>1. s \in State
      BY <2>0
    <3>2. journal \in Seq(Entry) /\ scan[p].id \in Nat
      OBVIOUS
    <3>3. \/ journal' = [journal EXCEPT ![scan[p].id].state = s]
          \/ journal' = journal
      BY <1>17 DEF RecoverWrite
    <3>4. CASE journal' = journal
      BY <3>2, <3>4
    <3>5. CASE journal' = [journal EXCEPT ![scan[p].id].state = s]
      <4>1. PICK n \in Nat : n = scan[p].id
        BY <3>2
      <4>2. PICK x \in State : x = s
        BY <3>1
      <4>3. journal' = [journal EXCEPT ![n].state = x]
        BY <3>5, <4>1, <4>2
      <4> QED BY <3>2, <4>3, StateUpdate
    <3> QED BY <3>3, <3>4, <3>5
  <2> QED BY <2>0, <2>1, <1>17 DEF RecoverWrite, Goto
<1> QED
  BY <1>0, <1>1, <1>2, <1>3, <1>4, <1>5, <1>6, <1>7, <1>8, <1>9, <1>10, <1>11, <1>12,
     <1>13, <1>14, <1>15, <1>16, <1>17 DEF Next, Progress

\* Every reachable state of the transaction engine is well typed: no journal rewrite by a
\* command or by `vara undo` leaves anything but a journal of known states.
THEOREM TypeCorrect == Spec => []TypeOK
<1>1. TypeInv => TypeOK
  BY DEF TypeInv
<1> QED BY <1>1, TypeInit, TypeStep, PTL DEF Spec

----------------------------------------------------------------------------
(* The lock invariant                                                      *)

\* Nobody holds a lock initially.
LEMMA LockInvInit == Init => LockInv
BY DEF Init, LockInv, HeldIsOwned, HeldByPlace, OpenUpdateLocked

\* Every step of every process keeps the lock invariant.
LEMMA LockInvStep == TypeInv /\ LockInv /\ [Next]_txnVars => LockInv'
<1> SUFFICES ASSUME TypeInv, LockInv, [Next]_txnVars PROVE LockInv'
  OBVIOUS
<1> USE DEF TypeInv, TypeOK, PC, LockInv
<1>0. CASE UNCHANGED txnVars
  BY <1>0 DEF txnVars, HeldIsOwned, HeldByPlace, OpenUpdateLocked
<1>1. ASSUME NEW p \in Proc, NEW c \in Commands, Start(p, c) PROVE LockInv'
  <2>1. HeldIsOwned'
    BY <1>1 DEF Start, Goto, HeldIsOwned
  <2>2. HeldByPlace'
    <3>1. DOMAIN LockPlan(c) \subseteq Nat \ {0}
      BY PlanFacts
    <3>2. Taken(c, 1) = {}
      BY <3>1 DEF Taken
    <3>3. held[p] = {}
      BY <1>1 DEF Start, HeldByPlace
    <3> QED BY <1>1, <3>2, <3>3 DEF Start, Goto, HeldByPlace
  <2>3. OpenUpdateLocked'
    BY <1>1 DEF Start, Goto, OpenUpdateLocked
  <2> QED BY <2>1, <2>2, <2>3
<1>2. ASSUME NEW p \in Proc, Acquire(p) PROVE LockInv'
  <2> DEFINE plan == LockPlan(cmd[p])
             l == NextLock(p)
  <2>1. cmd[p] \in AllCommands /\ step[p] \in 1..Len(plan) /\ DOMAIN plan = 1..Len(plan)
    BY <1>2, PlanFacts DEF Acquire, HeldByPlace
  <2>2. l \in Lock
    BY <2>1, PlanFacts, ElementOfSeq DEF NextLock
  <2>3. HeldIsOwned'
    BY <1>2, <2>2 DEF Acquire, TryAcquire, HeldIsOwned
  <2>4. HeldByPlace'
    <3>1. Taken(cmd[p], step[p] + 1) = Taken(cmd[p], step[p]) \cup {l}
      BY <2>1 DEF NextLock, Taken
    <3> HIDE DEF l
    <3>2. /\ held' = [held EXCEPT ![p] = @ \cup {l}] /\ step' = [step EXCEPT ![p] = @ + 1]
          /\ pc[p] = "acquire" /\ UNCHANGED <<pc, cmd>>
      BY <1>2 DEF Acquire, l
    <3> QED BY <3>1, <3>2 DEF HeldByPlace
  <2>5. OpenUpdateLocked'
    BY <1>2, <2>2 DEF Acquire, TryAcquire, Lock, OpenUpdateLocked
  <2> QED BY <2>3, <2>4, <2>5
<1>3. ASSUME NEW p \in Proc, AcquireFails(p) PROVE LockInv'
  <2>1. HeldIsOwned'
    BY <1>3 DEF AcquireFails, Goto, localVars, HeldIsOwned
  <2>2. HeldByPlace'
    BY <1>3 DEF AcquireFails, Goto, localVars, HeldByPlace
  <2>3. OpenUpdateLocked'
    BY <1>3 DEF AcquireFails, Goto, localVars, OpenUpdateLocked
  <2> QED BY <2>1, <2>2, <2>3
<1>4. ASSUME NEW p \in Proc, BeginJournal(p) PROVE LockInv'
  <2>1. HeldIsOwned'
    BY <1>4 DEF BeginJournal, HeldIsOwned
  <2>2. HeldByPlace'
    <3> DEFINE plan == LockPlan(cmd[p])
    <3>1. cmd[p] \in Commands /\ cmd[p] \in AllCommands /\ held[p] = Taken(cmd[p], step[p])
      BY <1>4 DEF BeginJournal, HeldByPlace
    <3>2. DOMAIN plan = 1..Len(plan) /\ Len(plan) \in Nat /\ step[p] > Len(plan)
      BY <1>4, <3>1, PlanFacts DEF BeginJournal
    <3>3. Taken(cmd[p], step[p]) = {plan[i] : i \in 1..Len(plan)}
      <4>1. {j \in DOMAIN plan : j < step[p]} = 1..Len(plan)
        BY <3>2
      <4> HIDE DEF plan
      <4>2. Taken(cmd[p], step[p]) = {plan[i] : i \in {j \in DOMAIN plan : j < step[p]}}
        BY DEF Taken, plan
      <4> QED BY <4>1, <4>2
    <3>4. cmd[p] \in Locked => "refs" \in held[p]
      BY <3>1, <3>3, PlanFacts
    <3> QED BY <1>4, <3>1, <3>4 DEF BeginJournal, Goto, HeldByPlace
  <2>3. OpenUpdateLocked'
    BY <1>4 DEF BeginJournal, Goto, OpenUpdateLocked
  <2> QED BY <2>1, <2>2, <2>3
<1>5. ASSUME NEW p \in Proc, BeginFails(p) PROVE LockInv'
  <2>1. HeldIsOwned'
    BY <1>5 DEF BeginFails, Goto, localVars, HeldIsOwned
  <2>2. HeldByPlace'
    BY <1>5 DEF BeginFails, Goto, localVars, HeldByPlace
  <2>3. OpenUpdateLocked'
    BY <1>5 DEF BeginFails, Goto, localVars, OpenUpdateLocked
  <2> QED BY <2>1, <2>2, <2>3
<1>6. ASSUME NEW p \in Proc, SetStateStep(p) PROVE LockInv'
  <2>1. HeldIsOwned'
    BY <1>6 DEF SetStateStep, Running, Advance, HeldIsOwned
  <2>2. HeldByPlace'
    BY <1>6 DEF SetStateStep, Running, Advance, HeldByPlace
  <2>3. OpenUpdateLocked'
    BY <1>6 DEF SetStateStep, Running, Advance, OpenUpdateLocked
  <2> QED BY <2>1, <2>2, <2>3
<1>7. ASSUME NEW p \in Proc, WriteStep(p) PROVE LockInv'
  <2>1. HeldIsOwned'
    BY <1>7 DEF WriteStep, Advance, HeldIsOwned
  <2>2. HeldByPlace'
    BY <1>7 DEF WriteStep, Running, Advance, HeldByPlace
  <2>3. OpenUpdateLocked'
    <3>1. pc[p] = "run" /\ cmd[p] \in Commands
      BY <1>7 DEF WriteStep, Running, HeldByPlace
    <3>2. Commands \subseteq Locked => lockFile["refs"] = p
      BY <3>1 DEF HeldByPlace, HeldIsOwned
    <3>3. \A q \in Proc : q # p => wrote'[q] = wrote[q]
      BY <1>7 DEF WriteStep, Record
    <3> QED BY <1>7, <3>1, <3>2, <3>3 DEF WriteStep, Advance, OpenUpdateLocked
  <2> QED BY <2>1, <2>2, <2>3
<1>8. ASSUME NEW p \in Proc, TryFails(p) PROVE LockInv'
  <2>1. HeldIsOwned'
    BY <1>8 DEF TryFails, Running, Advance, HeldIsOwned
  <2>2. HeldByPlace'
    BY <1>8 DEF TryFails, Running, Advance, HeldByPlace
  <2>3. OpenUpdateLocked'
    BY <1>8 DEF TryFails, Running, Advance, OpenUpdateLocked
  <2> QED BY <2>1, <2>2, <2>3
<1>9. ASSUME NEW p \in Proc, StepFails(p) PROVE LockInv'
  <2>1. HeldIsOwned'
    BY <1>9 DEF StepFails, Running, Goto, localVars, HeldIsOwned
  <2>2. HeldByPlace'
    BY <1>9 DEF StepFails, Running, Goto, localVars, HeldByPlace
  <2>3. OpenUpdateLocked'
    BY <1>9 DEF StepFails, Running, Goto, localVars, OpenUpdateLocked
  <2> QED BY <2>1, <2>2, <2>3
<1>10. ASSUME NEW p \in Proc, Commit(p) PROVE LockInv'
  <2>1. HeldIsOwned'
    BY <1>10 DEF Commit, Goto, localVars, HeldIsOwned
  <2>2. HeldByPlace'
    BY <1>10 DEF Commit, Goto, localVars, HeldByPlace
  <2>3. OpenUpdateLocked'
    BY <1>10 DEF Commit, Goto, localVars, OpenUpdateLocked
  <2> QED BY <2>1, <2>2, <2>3
<1>11. ASSUME NEW p \in Proc, Rollback(p) PROVE LockInv'
  <2>1. HeldIsOwned'
    BY <1>11 DEF Rollback, Goto, localVars, HeldIsOwned
  <2>2. HeldByPlace'
    BY <1>11 DEF Rollback, Goto, localVars, HeldByPlace
  <2>3. OpenUpdateLocked'
    BY <1>11 DEF Rollback, Goto, localVars, OpenUpdateLocked
  <2> QED BY <2>1, <2>2, <2>3
<1>12. ASSUME NEW p \in Proc, ReleaseOne(p) PROVE LockInv'
  <2>1. PICK l \in held[p] :
            (Remove(l) \/ UNCHANGED lockFile) /\ held' = [held EXCEPT ![p] = @ \ {l}]
    BY <1>12 DEF ReleaseOne
  <2>2. lockFile[l] = p /\ l \in Lock
    BY <2>1 DEF HeldIsOwned
  <2>3. HeldIsOwned'
    BY <2>1, <2>2 DEF Remove, HeldIsOwned
  <2>4. HeldByPlace'
    BY <1>12, <2>1 DEF ReleaseOne, HeldByPlace
  <2>5. OpenUpdateLocked'
    BY <1>12, <2>1, <2>2 DEF Remove, ReleaseOne, Lock, OpenUpdateLocked
  <2> QED BY <2>3, <2>4, <2>5
<1>13. ASSUME NEW p \in Proc, Return(p) PROVE LockInv'
  <2>1. HeldIsOwned'
    BY <1>13 DEF Return, Goto, HeldIsOwned
  <2>2. HeldByPlace'
    BY <1>13 DEF Return, Goto, HeldByPlace
  <2>3. OpenUpdateLocked'
    BY <1>13 DEF Return, Goto, OpenUpdateLocked
  <2> QED BY <2>1, <2>2, <2>3
<1>14. ASSUME NEW p \in Proc, Crash(p) PROVE LockInv'
  <2>1. HeldIsOwned'
    BY <1>14 DEF Crash, Goto, HeldIsOwned
  <2>2. HeldByPlace'
    BY <1>14 DEF Crash, Goto, HeldByPlace
  <2>3. OpenUpdateLocked'
    BY <1>14 DEF Crash, Goto, OpenUpdateLocked
  <2> QED BY <2>1, <2>2, <2>3
<1>15. ASSUME NEW p \in Proc, Scan(p) PROVE LockInv'
  <2>1. HeldIsOwned'
    BY <1>15 DEF Scan, Goto, HeldIsOwned
  <2>2. HeldByPlace'
    BY <1>15 DEF Scan, Goto, HeldByPlace
  <2>3. OpenUpdateLocked'
    BY <1>15 DEF Scan, Goto, OpenUpdateLocked
  <2> QED BY <2>1, <2>2, <2>3
<1>16. ASSUME NEW p \in Proc, RecoverRead(p) PROVE LockInv'
  <2>1. HeldIsOwned'
    BY <1>16 DEF RecoverRead, Goto, HeldIsOwned
  <2>2. HeldByPlace'
    BY <1>16 DEF RecoverRead, Goto, HeldByPlace
  <2>3. OpenUpdateLocked'
    BY <1>16 DEF RecoverRead, Goto, OpenUpdateLocked
  <2> QED BY <2>1, <2>2, <2>3
<1>17. ASSUME NEW p \in Proc, RecoverWrite(p) PROVE LockInv'
  <2>1. HeldIsOwned'
    BY <1>17 DEF RecoverWrite, Goto, HeldIsOwned
  <2>2. HeldByPlace'
    BY <1>17 DEF RecoverWrite, Goto, HeldByPlace
  <2>3. OpenUpdateLocked'
    BY <1>17 DEF RecoverWrite, Goto, OpenUpdateLocked
  <2> QED BY <2>1, <2>2, <2>3
<1> QED
  BY <1>0, <1>1, <1>2, <1>3, <1>4, <1>5, <1>6, <1>7, <1>8, <1>9, <1>10, <1>11, <1>12,
     <1>13, <1>14, <1>15, <1>16, <1>17 DEF Next, Progress

\* The locks a process holds follow from where it is, and are always lock files with its
\* own PID: Begin, Commit and Rollback never take or remove the lock of another process.
THEOREM LocksConsistent == Spec => [](TypeInv /\ LockInv)
BY TypeInit, TypeStep, LockInvInit, LockInvStep, PTL DEF Spec

\* When every command that runs takes the refs lock, no two commands are ever between
\* their first durable write and their end, even if one of them died there.
THEOREM UpdatesIsolated == Commands \subseteq Locked => (Spec => []OneOpenUpdate)
<1> SUFFICES ASSUME Commands \subseteq Locked PROVE Spec => []OneOpenUpdate
  OBVIOUS
<1>1. TypeInv /\ LockInv => OneOpenUpdate
  BY DEF LockInv, OpenUpdateLocked, OneOpenUpdate
<1> QED BY <1>1, LocksConsistent, PTL

----------------------------------------------------------------------------
(* Freedom from deadlock                                                   *)

\* A waiting process waits for a lock of higher rank than every lock it holds.
LEMMA WaitsUpwards ==
    ASSUME TypeInv, LockInv, NEW p \in Proc, NEW q \in Proc, WaitsFor(p, q)
    PROVE  /\ NextLock(p) \in Lock
           /\ \A l \in held[p] : Rank[l] < Rank[NextLock(p)]
<1> DEFINE plan == LockPlan(cmd[p])
<1>1. cmd[p] \in AllCommands /\ pc[p] = "acquire" /\ held[p] = Taken(cmd[p], step[p])
  BY DEF WaitsFor, LockInv, HeldByPlace
<1>2. DOMAIN plan = 1..Len(plan) /\ step[p] \in 1..Len(plan) /\ Len(plan) \in Nat
  BY <1>1, PlanFacts DEF WaitsFor, TypeInv, TypeOK
<1>3. NextLock(p) \in Lock
  BY <1>1, <1>2, PlanFacts, ElementOfSeq DEF NextLock
<1>4. ASSUME NEW l \in held[p] PROVE Rank[l] < Rank[NextLock(p)]
  <2>1. PICK i \in DOMAIN plan : i < step[p] /\ l = plan[i]
    BY <1>1 DEF Taken
  <2> QED BY <2>1, <1>1, <1>2, PlanFacts DEF NextLock
<1> QED BY <1>3, <1>4

\* In a set of processes that all wait for one another, a waiter leads to a waiter whose
\* lock has a higher rank.
LEMMA RankGrows ==
    ASSUME TypeInv, LockInv, NEW S \in SUBSET Proc,
           \A x \in S : \E y \in S : WaitsFor(x, y),
           NEW p \in S
    PROVE  /\ Rank[NextLock(p)] \in 1..4
           /\ \E q \in S : Rank[NextLock(p)] < Rank[NextLock(q)]
<1>1. PICK q \in S : WaitsFor(p, q)
  OBVIOUS
<1>2. PICK r \in S : WaitsFor(q, r)
  OBVIOUS
<1>3. NextLock(p) \in held[q] /\ NextLock(p) \in Lock
  BY <1>1, WaitsUpwards DEF WaitsFor
<1>4. Rank[NextLock(p)] < Rank[NextLock(q)]
  BY <1>2, <1>3, WaitsUpwards
<1>5. Rank[NextLock(p)] \in 1..4
  BY <1>3 DEF Lock, Rank
<1> QED BY <1>4, <1>5

\* No set of processes waits in a circle, however many run: a chain of waiters climbs the
\* four ranks of the lock hierarchy, so it ends.
THEOREM DeadlockFree == Spec => []NoCircularWait
<1>1. TypeInv /\ LockInv => NoCircularWait
  <2> SUFFICES ASSUME TypeInv, LockInv, NEW S \in SUBSET Proc, S # {},
                      \A x \in S : \E y \in S : WaitsFor(x, y)
               PROVE  FALSE
    BY DEF NoCircularWait
  <2> DEFINE R(x) == Rank[NextLock(x)]
  <2>1. \A x \in S : R(x) \in 1..4 /\ \E y \in S : R(x) < R(y)
    BY RankGrows
  <2> HIDE DEF R
  <2>2. PICK a \in S : TRUE
    OBVIOUS
  <2>3. PICK b \in S : R(a) < R(b)
    BY <2>1
  <2>4. PICK c \in S : R(b) < R(c)
    BY <2>1
  <2>5. PICK d \in S : R(c) < R(d)
    BY <2>1
  <2>6. PICK e \in S : R(d) < R(e)
    BY <2>1
  <2>7. R(a) \in 1..4 /\ R(b) \in 1..4 /\ R(c) \in 1..4 /\ R(d) \in 1..4 /\ R(e) \in 1..4
    BY <2>1
  <2> QED BY <2>3, <2>4, <2>5, <2>6, <2>7
<1> QED BY <1>1, LocksConsistent, PTL
----------------------------------------------------------------------------
(* The journal and the disk                                                *)

\* An entry of command c that wrote the files w may be in state s.
Justified(c, s, w) ==
    /\ \A k \in DOMAIN Program[c] :
          Program[c][k] = SetState(s) => MustHaveWritten(c, k) \subseteq w
    /\ s = "COMPLETED" => MustHaveWritten(c, Len(Program[c]) + 1) \subseteq w

\* Every entry is justified by its own writes.
EntriesJustified ==
    \A i \in DOMAIN journal : Justified(journal[i].cmd, journal[i].state, journal[i].wrote)

\* A running journaled command has an entry of its own command, which has recorded every
\* mandatory write of the steps done; a command without a journal has no entry.
FollowsProgram(p) ==
    /\ pc[p] \in {"run", "rollback"} =>
          IF cmd[p] \in Journaled
          THEN txn[p] \in DOMAIN journal /\ journal[txn[p]].cmd = cmd[p]
          ELSE txn[p] = 0
    /\ pc[p] = "run" /\ cmd[p] \in Journaled =>
          MustHaveWritten(cmd[p], step[p]) \subseteq journal[txn[p]].wrote
    /\ pc[p] \in {"idle", "acquire", "dead", "recover-read", "recover-write"} => txn[p] = 0

\* The state a `vara undo` has read and will write back, however old, is still justified.
ReadIsJustified(p) ==
    pc[p] = "recover-write" =>
        Justified(journal[scan[p].id].cmd, scan[p].data, journal[scan[p].id].wrote)

\* The inductive invariant behind JournalNeverAhead.
JournalInv ==
    /\ EntriesJustified
    /\ \A p \in Proc : FollowsProgram(p) /\ ReadIsJustified(p)

\* What every step does to the journal: entries stay, and their writes only grow.
JournalGrows ==
    \A i \in DOMAIN journal :
        /\ i \in DOMAIN journal'
        /\ journal'[i].cmd = journal[i].cmd
        /\ journal[i].wrote \subseteq journal'[i].wrote

\* A program enters a state at most once, and never BEGIN, FAILED or COMPLETED: those are
\* written by Begin, Rollback, Commit and `vara undo`.  Only journaled programs enter one.
LEMMA ProgramStates ==
    ASSUME NEW c \in AllCommands
    PROVE  /\ \A i, j \in DOMAIN Program[c] :
                 Program[c][i].op = "journal" /\ Program[c][i] = Program[c][j] => i = j
           /\ \A i \in DOMAIN Program[c] :
                 Program[c][i] \notin {SetState("BEGIN"), SetState("FAILED"), SetState("COMPLETED")}
           /\ \A i \in DOMAIN Program[c] : Program[c][i].op = "journal" => c \in Journaled
<1> USE DEF Program, SetState, Write, Try, Journaled
<1>1. CASE c = "switch"       BY <1>1 DEF SwitchProgram
<1>2. CASE c = "fastForward" BY <1>2 DEF FastForwardProgram
<1>3. CASE c = "merge"        BY <1>3 DEF CleanMergeProgram
<1>4. CASE c = "conflict"     BY <1>4 DEF ConflictProgram
<1>5. CASE c = "settled"      BY <1>5 DEF SettledMergeProgram
<1>6. CASE c = "unborn"       BY <1>6 DEF UnbornProgram
<1>7. CASE c = "abort"        BY <1>7 DEF AbortProgram
<1>8. CASE c = "undo"         BY <1>8 DEF UndoProgram
<1>9. CASE c = "receivePack" BY <1>9 DEF ReceivePackProgram
<1>10. CASE c = "commit"      BY <1>10 DEF CommitProgram
<1>11. CASE c = "upToDate"    BY <1>11 DEF UpToDateProgram
<1> QED BY <1>1, <1>2, <1>3, <1>4, <1>5, <1>6, <1>7, <1>8, <1>9, <1>10, <1>11
   DEF AllCommands, Locked

\* The mandatory writes before a step are those before the last one and its own.
LEMMA MustGrow ==
    ASSUME NEW c, NEW k \in Nat \ {0}
    PROVE  /\ Program[c][k].op = "write" =>
                 MustHaveWritten(c, k + 1) \subseteq MustHaveWritten(c, k) \cup {Program[c][k].arg}
           /\ Program[c][k].op # "write" =>
                 MustHaveWritten(c, k + 1) \subseteq MustHaveWritten(c, k)
           /\ \A m \in Nat : k <= m => MustHaveWritten(c, k) \subseteq MustHaveWritten(c, m)
BY DEF MustHaveWritten

\* More writes justify no less.
LEMMA JustifiedGrows ==
    ASSUME NEW c, NEW s, NEW w, NEW v, w \subseteq v, Justified(c, s, w)
    PROVE  Justified(c, s, v)
BY DEF Justified

\* BEGIN and FAILED claim nothing about the disk.
LEMMA AlwaysJustified ==
    ASSUME NEW c \in AllCommands, NEW w, NEW s \in {"BEGIN", "FAILED"}
    PROVE  Justified(c, s, w)
BY ProgramStates DEF Justified

\* A process that a step does not touch keeps its part of the invariant.
LEMMA OthersKeep ==
    ASSUME TypeInv, JournalInv, JournalGrows, NEW q \in Proc,
           pc'[q] = pc[q], cmd'[q] = cmd[q], step'[q] = step[q], txn'[q] = txn[q],
           scan'[q] = scan[q]
    PROVE  FollowsProgram(q)' /\ ReadIsJustified(q)'
<1>1. FollowsProgram(q) /\ ReadIsJustified(q)
  BY DEF JournalInv
<1>2. FollowsProgram(q)'
  BY <1>1 DEF FollowsProgram, JournalGrows
<1>3. ReadIsJustified(q)'
  <2> SUFFICES ASSUME pc'[q] = "recover-write"
               PROVE  Justified(journal'[scan'[q].id].cmd, scan'[q].data, journal'[scan'[q].id].wrote)
    BY DEF ReadIsJustified
  <2>1. scan[q].id \in DOMAIN journal
    BY LenProperties DEF TypeInv, TypeOK, ScanKnown
  <2> QED BY <1>1, <2>1, JustifiedGrows DEF ReadIsJustified, JournalGrows
<1> QED BY <1>2, <1>3

\* A step that leaves the journal alone keeps the entries justified.
LEMMA SameJournal ==
    ASSUME journal' = journal, EntriesJustified
    PROVE  JournalGrows /\ EntriesJustified'
BY DEF JournalGrows, EntriesJustified

\* A flush of a justified state.
LEMMA FlushJustified ==
    ASSUME TypeInv, EntriesJustified, NEW n \in DOMAIN journal, NEW s,
           journal' = [journal EXCEPT ![n].state = s],
           Justified(journal[n].cmd, s, journal[n].wrote)
    PROVE  JournalGrows /\ EntriesJustified'
<1>1. journal \in [1..Len(journal) -> Entry] /\ Len(journal) \in Nat
  BY LenProperties DEF TypeInv, TypeOK
<1>2. /\ DOMAIN journal' = DOMAIN journal
      /\ \A i \in DOMAIN journal : /\ journal'[i].cmd = journal[i].cmd
                                   /\ journal'[i].wrote = journal[i].wrote
                                   /\ journal'[i].state = IF i = n THEN s ELSE journal[i].state
  BY <1>1 DEF Entry
<1> QED BY <1>2 DEF JournalGrows, EntriesJustified

\* A recorded write.
LEMMA RecordJustified ==
    ASSUME TypeInv, EntriesJustified, NEW n \in DOMAIN journal, NEW f,
           journal' = [journal EXCEPT ![n].wrote = @ \cup {f}]
    PROVE  JournalGrows /\ EntriesJustified' /\ f \in journal'[n].wrote
<1>1. journal \in [1..Len(journal) -> Entry] /\ Len(journal) \in Nat
  BY LenProperties DEF TypeInv, TypeOK
<1>2. /\ DOMAIN journal' = DOMAIN journal
      /\ \A i \in DOMAIN journal :
            /\ journal'[i].cmd = journal[i].cmd
            /\ journal'[i].state = journal[i].state
            /\ i # n => journal'[i].wrote = journal[i].wrote
      /\ journal'[n].wrote = journal[n].wrote \cup {f}
  BY <1>1 DEF Entry
<1>3. JournalGrows /\ f \in journal'[n].wrote
  BY <1>2 DEF JournalGrows
<1>4. EntriesJustified'
  BY <1>2, JustifiedGrows DEF EntriesJustified
<1> QED BY <1>3, <1>4

\* Nothing has been written and nobody runs.
LEMMA JournalInit == Init => JournalInv
BY DEF Init, JournalInv, EntriesJustified, FollowsProgram, ReadIsJustified

\* Every step of every process keeps the journal justified.
LEMMA JournalStep == TypeInv /\ JournalInv /\ [Next]_txnVars => JournalInv'
<1> SUFFICES ASSUME TypeInv, JournalInv, [Next]_txnVars PROVE JournalInv'
  OBVIOUS
<1> USE DEF JournalInv, TypeInv, TypeOK, PC
<1>dom. DOMAIN journal = 1..Len(journal) /\ Len(journal) \in Nat
  BY LenProperties
<1>cmd. \A p \in Proc : pc[p] \in {"acquire", "run", "rollback"} => cmd[p] \in AllCommands
  BY DEF CommandsKnown
<1>0. CASE UNCHANGED txnVars
  <2>1. JournalGrows /\ EntriesJustified'
    BY <1>0, SameJournal DEF txnVars
  <2> QED BY <1>0, <2>1, OthersKeep DEF txnVars
<1>1. ASSUME NEW p \in Proc, NEW c \in Commands, Start(p, c) PROVE JournalInv'
  <2>1. JournalGrows /\ EntriesJustified'
    BY <1>1, SameJournal DEF Start
  <2>2. FollowsProgram(p)' /\ ReadIsJustified(p)'
    BY <1>1 DEF Start, Goto, FollowsProgram, ReadIsJustified
  <2> QED BY <1>1, <2>1, <2>2, OthersKeep DEF Start, Goto
<1>2. ASSUME NEW p \in Proc, Acquire(p) PROVE JournalInv'
  <2>1. JournalGrows /\ EntriesJustified'
    BY <1>2, SameJournal DEF Acquire
  <2>2. FollowsProgram(p)' /\ ReadIsJustified(p)'
    BY <1>2 DEF Acquire, FollowsProgram, ReadIsJustified
  <2> QED BY <1>2, <2>1, <2>2, OthersKeep DEF Acquire
<1>3. ASSUME NEW p \in Proc, AcquireFails(p) PROVE JournalInv'
  <2>1. JournalGrows /\ EntriesJustified'
    BY <1>3, SameJournal DEF AcquireFails, Goto, localVars
  <2>2. FollowsProgram(p)' /\ ReadIsJustified(p)'
    BY <1>3 DEF AcquireFails, Goto, localVars, FollowsProgram, ReadIsJustified
  <2> QED BY <1>3, <2>1, <2>2, OthersKeep DEF AcquireFails, Goto, localVars
<1>4. ASSUME NEW p \in Proc, BeginJournal(p) PROVE JournalInv'
  <2>1. CASE cmd[p] \in Journaled
    <3> DEFINE e == [cmd |-> cmd[p], state |-> "BEGIN", wrote |-> {}]
    <3>1. e \in Entry
      BY <2>1 DEF Entry, State
    <3>2. journal' = Append(journal, e) /\ txn' = [txn EXCEPT ![p] = Len(journal) + 1]
      BY <2>1, <1>4 DEF BeginJournal
    <3> HIDE DEF e
    <3>3. /\ DOMAIN journal' = 1..(Len(journal) + 1)
          /\ \A i \in DOMAIN journal : journal'[i] = journal[i]
          /\ journal'[Len(journal) + 1] = e
      BY <3>1, <3>2, <1>dom, AppendProperties
    <3>4. JournalGrows
      BY <3>3, <1>dom DEF JournalGrows
    <3>5. EntriesJustified'
      <4>1. Justified(e.cmd, e.state, e.wrote)
        BY <1>4, <1>cmd, AlwaysJustified DEF e, BeginJournal
      <4> QED BY <4>1, <3>3, <1>dom DEF EntriesJustified
    <3>6. FollowsProgram(p)' /\ ReadIsJustified(p)'
      <4>1. pc'[p] = "run" /\ cmd'[p] = cmd[p] /\ step'[p] = 1 /\ txn'[p] = Len(journal) + 1
        BY <1>4, <3>2 DEF BeginJournal, Goto
      <4>2. MustHaveWritten(cmd[p], 1) = {}
        BY DEF MustHaveWritten
      <4> QED BY <4>1, <4>2, <2>1, <3>3, <1>dom DEF FollowsProgram, ReadIsJustified, e
    <3> QED BY <1>4, <3>2, <3>4, <3>5, <3>6, OthersKeep DEF BeginJournal, Goto
  <2>2. CASE cmd[p] \notin Journaled
    <3>1. JournalGrows /\ EntriesJustified'
      BY <1>4, <2>2, SameJournal DEF BeginJournal
    <3>2. FollowsProgram(p)' /\ ReadIsJustified(p)'
      BY <1>4, <2>2 DEF BeginJournal, Goto, FollowsProgram, ReadIsJustified
    <3> QED BY <1>4, <2>2, <3>1, <3>2, OthersKeep DEF BeginJournal, Goto
  <2> QED BY <2>1, <2>2
<1>5. ASSUME NEW p \in Proc, BeginFails(p) PROVE JournalInv'
  <2>1. JournalGrows /\ EntriesJustified'
    BY <1>5, SameJournal DEF BeginFails, Goto, localVars
  <2>2. FollowsProgram(p)' /\ ReadIsJustified(p)'
    BY <1>5 DEF BeginFails, Goto, localVars, FollowsProgram, ReadIsJustified
  <2> QED BY <1>5, <2>1, <2>2, OthersKeep DEF BeginFails, Goto, localVars
<1>6. ASSUME NEW p \in Proc, SetStateStep(p) PROVE JournalInv'
  <2> DEFINE c == cmd[p]  k == step[p]  n == txn[p]
  <2>1. c \in AllCommands /\ k \in DOMAIN Program[c] /\ k \in Nat \ {0} /\ pc[p] = "run"
    BY <1>6, <1>cmd, ProgramFacts DEF SetStateStep, Running
  <2>2. Program[c][k].op = "journal" /\ Program[c][k] = SetState(Program[c][k].arg)
    <3>1. Current(p) \in Steps /\ Current(p).op = "journal"
      BY <1>6, CurrentType DEF SetStateStep
    <3>2. Current(p) = SetState(Current(p).arg)
      BY <3>1 DEF Steps, SetState, Write, Try
    <3> QED BY <3>1, <3>2 DEF Current
  <2>3. c \in Journaled
    BY <2>1, <2>2, ProgramStates
  <2>4. n \in DOMAIN journal /\ journal[n].cmd = c /\ MustHaveWritten(c, k) \subseteq journal[n].wrote
    BY <2>1, <2>3 DEF FollowsProgram
  <2>5. Justified(c, Program[c][k].arg, journal[n].wrote)
    <3>1. \A i \in DOMAIN Program[c] : Program[c][i] = Program[c][k] => i = k
      BY <2>1, <2>2, ProgramStates
    <3>2. Program[c][k].arg # "COMPLETED"
      BY <2>1, <2>2, ProgramStates
    <3> QED BY <2>2, <2>4, <3>1, <3>2 DEF Justified
  <2>6. JournalGrows /\ EntriesJustified'
    BY <1>6, <2>4, <2>5, FlushJustified DEF SetStateStep, Flush, Current
  <2>7. FollowsProgram(p)' /\ ReadIsJustified(p)'
    <3>1. MustHaveWritten(c, k + 1) \subseteq MustHaveWritten(c, k)
      BY <2>1, <2>2, MustGrow
    <3>2. pc'[p] = "run" /\ cmd'[p] = c /\ step'[p] = k + 1 /\ txn'[p] = n
      BY <1>6, <2>1 DEF SetStateStep, Advance
    <3> QED BY <2>3, <2>4, <2>6, <3>1, <3>2 DEF FollowsProgram, ReadIsJustified, JournalGrows
  <2> QED BY <1>6, <2>6, <2>7, OthersKeep DEF SetStateStep, Advance
<1>7. ASSUME NEW p \in Proc, WriteStep(p) PROVE JournalInv'
  <2> DEFINE c == cmd[p]  k == step[p]  n == txn[p]  f == Program[c][k].arg
  <2>1. c \in AllCommands /\ k \in Nat \ {0} /\ pc[p] = "run"
    BY <1>7, <1>cmd DEF WriteStep, Running
  <2>2. pc'[p] = "run" /\ cmd'[p] = c /\ step'[p] = k + 1 /\ txn'[p] = n
    BY <1>7, <2>1 DEF WriteStep, Advance
  <2>3. CASE c \in Journaled
    <3>1. n \in DOMAIN journal /\ n # 0 /\ journal[n].cmd = c
          /\ MustHaveWritten(c, k) \subseteq journal[n].wrote
      BY <2>1, <2>3, <1>dom DEF FollowsProgram
    <3>2. JournalGrows /\ EntriesJustified' /\ f \in journal'[n].wrote
      BY <1>7, <3>1, RecordJustified DEF WriteStep, Record, Current
    <3>3. MustHaveWritten(c, k + 1) \subseteq MustHaveWritten(c, k) \cup {f}
      BY <2>1, MustGrow
    <3>4. /\ n \in DOMAIN journal' /\ journal'[n].cmd = c
          /\ MustHaveWritten(c, k + 1) \subseteq journal'[n].wrote
      BY <3>1, <3>2, <3>3 DEF JournalGrows
    <3>5. FollowsProgram(p)' /\ ReadIsJustified(p)'
      BY <2>2, <2>3, <3>4 DEF FollowsProgram, ReadIsJustified
    <3> QED BY <1>7, <3>2, <3>5, OthersKeep DEF WriteStep, Advance
  <2>4. CASE c \notin Journaled
    <3>1. n = 0
      BY <2>1, <2>4 DEF FollowsProgram
    <3>2. JournalGrows /\ EntriesJustified'
      BY <1>7, <3>1, SameJournal DEF WriteStep, Record
    <3>3. FollowsProgram(p)' /\ ReadIsJustified(p)'
      BY <2>2, <2>4, <3>1 DEF FollowsProgram, ReadIsJustified
    <3> QED BY <1>7, <3>2, <3>3, OthersKeep DEF WriteStep, Advance
  <2> QED BY <2>3, <2>4
<1>8. ASSUME NEW p \in Proc, TryFails(p) PROVE JournalInv'
  <2> DEFINE c == cmd[p]  k == step[p]
  <2>1. JournalGrows /\ EntriesJustified'
    BY <1>8, SameJournal DEF TryFails
  <2>2. MustHaveWritten(c, k + 1) \subseteq MustHaveWritten(c, k)
    BY <1>8, MustGrow DEF TryFails, Current
  <2>3. pc[p] = "run" /\ pc'[p] = "run" /\ cmd'[p] = c /\ step'[p] = k + 1
        /\ txn'[p] = txn[p] /\ journal' = journal
    BY <1>8 DEF TryFails, Running, Advance
  <2>4. FollowsProgram(p)' /\ ReadIsJustified(p)'
    BY <2>2, <2>3 DEF FollowsProgram, ReadIsJustified
  <2> QED BY <1>8, <2>1, <2>4, OthersKeep DEF TryFails, Advance
<1>9. ASSUME NEW p \in Proc, StepFails(p) PROVE JournalInv'
  <2>1. JournalGrows /\ EntriesJustified'
    BY <1>9, SameJournal DEF StepFails, Running, Goto, localVars
  <2>2. FollowsProgram(p)' /\ ReadIsJustified(p)'
    BY <1>9 DEF StepFails, Running, Goto, localVars, FollowsProgram, ReadIsJustified
  <2> QED BY <1>9, <2>1, <2>2, OthersKeep DEF StepFails, Running, Goto, localVars
<1>10. ASSUME NEW p \in Proc, Commit(p) PROVE JournalInv'
  <2>1. JournalGrows /\ EntriesJustified'
    <3>1. CASE journal' = journal
      BY <3>1, SameJournal
    <3>2. CASE txn[p] # 0 /\ Flush(p, "COMPLETED")
      <4>1. txn[p] \in DOMAIN journal /\ cmd[p] \in Journaled /\ journal[txn[p]].cmd = cmd[p]
        BY <1>10, <3>2 DEF Commit, FollowsProgram
      <4>2. Justified(cmd[p], "COMPLETED", journal[txn[p]].wrote)
        <5>1. cmd[p] \in AllCommands /\ step[p] \in Nat /\ pc[p] = "run"
          BY <1>10, <1>cmd DEF Commit
        <5>2. Len(Program[cmd[p]]) + 1 <= step[p] /\ Len(Program[cmd[p]]) \in Nat
          BY <1>10, <5>1, ProgramFacts DEF Commit
        <5>3. MustHaveWritten(cmd[p], Len(Program[cmd[p]]) + 1) \subseteq MustHaveWritten(cmd[p], step[p])
          BY <5>1, <5>2, MustGrow
        <5>4. MustHaveWritten(cmd[p], step[p]) \subseteq journal[txn[p]].wrote
          BY <4>1, <5>1 DEF FollowsProgram
        <5> QED BY <5>1, <5>3, <5>4, ProgramStates DEF Justified
      <4> QED BY <4>1, <4>2, <3>2, FlushJustified DEF Flush
    <3> QED BY <1>10, <3>1, <3>2 DEF Commit
  <2>2. FollowsProgram(p)' /\ ReadIsJustified(p)'
    BY <1>10 DEF Commit, Goto, localVars, FollowsProgram, ReadIsJustified
  <2> QED BY <1>10, <2>1, <2>2, OthersKeep DEF Commit, Goto, localVars
<1>11. ASSUME NEW p \in Proc, Rollback(p) PROVE JournalInv'
  <2>1. JournalGrows /\ EntriesJustified'
    <3>1. CASE journal' = journal
      BY <3>1, SameJournal
    <3>2. CASE txn[p] # 0 /\ Flush(p, "FAILED")
      <4>1. txn[p] \in DOMAIN journal /\ cmd[p] \in Journaled /\ journal[txn[p]].cmd = cmd[p]
        BY <1>11, <3>2 DEF Rollback, FollowsProgram
      <4>2. Justified(cmd[p], "FAILED", journal[txn[p]].wrote)
        BY <1>11, <1>cmd, AlwaysJustified DEF Rollback
      <4> QED BY <4>1, <4>2, <3>2, FlushJustified DEF Flush
    <3> QED BY <1>11, <3>1, <3>2 DEF Rollback
  <2>2. FollowsProgram(p)' /\ ReadIsJustified(p)'
    BY <1>11 DEF Rollback, Goto, localVars, FollowsProgram, ReadIsJustified
  <2> QED BY <1>11, <2>1, <2>2, OthersKeep DEF Rollback, Goto, localVars
<1>12. ASSUME NEW p \in Proc, ReleaseOne(p) PROVE JournalInv'
  <2>1. JournalGrows /\ EntriesJustified'
    BY <1>12, SameJournal DEF ReleaseOne
  <2>2. FollowsProgram(p)' /\ ReadIsJustified(p)'
    BY <1>12 DEF ReleaseOne, FollowsProgram, ReadIsJustified
  <2> QED BY <1>12, <2>1, <2>2, OthersKeep DEF ReleaseOne
<1>13. ASSUME NEW p \in Proc, Return(p) PROVE JournalInv'
  <2>1. JournalGrows /\ EntriesJustified'
    BY <1>13, SameJournal DEF Return, Goto
  <2>2. FollowsProgram(p)' /\ ReadIsJustified(p)'
    BY <1>13 DEF Return, Goto, FollowsProgram, ReadIsJustified
  <2> QED BY <1>13, <2>1, <2>2, OthersKeep DEF Return, Goto
<1>14. ASSUME NEW p \in Proc, Crash(p) PROVE JournalInv'
  <2>1. JournalGrows /\ EntriesJustified'
    BY <1>14, SameJournal DEF Crash, Goto
  <2>2. FollowsProgram(p)' /\ ReadIsJustified(p)'
    BY <1>14 DEF Crash, Goto, FollowsProgram, ReadIsJustified
  <2> QED BY <1>14, <2>1, <2>2, OthersKeep DEF Crash, Goto
<1>15. ASSUME NEW p \in Proc, Scan(p) PROVE JournalInv'
  <2>1. JournalGrows /\ EntriesJustified'
    BY <1>15, SameJournal DEF Scan
  <2>2. FollowsProgram(p)' /\ ReadIsJustified(p)'
    BY <1>15 DEF Scan, Goto, FollowsProgram, ReadIsJustified
  <2>3. \A q \in Proc : q # p => scan'[q] = scan[q]
    BY <1>15 DEF Scan
  <2> QED BY <1>15, <2>1, <2>2, <2>3, OthersKeep DEF Scan, Goto
<1>16. ASSUME NEW p \in Proc, RecoverRead(p) PROVE JournalInv'
  <2> DEFINE n == scan[p].id
  <2>1. JournalGrows /\ EntriesJustified'
    BY <1>16, SameJournal DEF RecoverRead
  <2>2. n \in DOMAIN journal /\ scan'[p].id = n /\ scan'[p].data = journal[n].state
    BY <1>16, <1>dom DEF RecoverRead, ScanKnown
  <2>3. FollowsProgram(p)' /\ ReadIsJustified(p)'
    BY <1>16, <2>2 DEF RecoverRead, Goto, FollowsProgram, ReadIsJustified, EntriesJustified
  <2> QED BY <1>16, <2>1, <2>3, OthersKeep DEF RecoverRead, Goto
<1>17. ASSUME NEW p \in Proc, RecoverWrite(p) PROVE JournalInv'
  <2> DEFINE n == scan[p].id
             s == IF scan[p].data = scan[p].state THEN "FAILED" ELSE scan[p].data
  <2>1. n \in DOMAIN journal /\ Justified(journal[n].cmd, scan[p].data, journal[n].wrote)
    BY <1>17, <1>dom DEF RecoverWrite, ScanKnown, ReadIsJustified
  <2>2. Justified(journal[n].cmd, s, journal[n].wrote)
    <3>1. journal[n] \in Entry
      BY <2>1, <1>dom, ElementOfSeq
    <3>2. journal[n].cmd \in AllCommands
      BY <3>1 DEF Entry, AllCommands, Locked
    <3> QED BY <2>1, <3>2, AlwaysJustified
  <2>3. JournalGrows /\ EntriesJustified'
    <3>1. CASE journal' = journal
      BY <3>1, SameJournal
    <3>2. CASE journal' = [journal EXCEPT ![n].state = s]
      BY <3>2, <2>1, <2>2, FlushJustified
    <3> QED BY <1>17, <3>1, <3>2 DEF RecoverWrite
  <2>4. FollowsProgram(p)' /\ ReadIsJustified(p)'
    BY <1>17 DEF RecoverWrite, Goto, FollowsProgram, ReadIsJustified
  <2> QED BY <1>17, <2>3, <2>4, OthersKeep DEF RecoverWrite, Goto
<1> QED
  BY <1>0, <1>1, <1>2, <1>3, <1>4, <1>5, <1>6, <1>7, <1>8, <1>9, <1>10, <1>11, <1>12,
     <1>13, <1>14, <1>15, <1>16, <1>17 DEF Next, Progress

\* The journal never runs ahead of the disk, for any number of processes, any interleaving
\* of commands with unlocked `vara undo`s and any crash: an entry in a phase has every
\* mandatory write its program makes before it.
THEOREM JournalSound == Spec => []JournalNeverAhead
<1>1. JournalInv => JournalNeverAhead
  BY DEF JournalInv, EntriesJustified, Justified, JournalNeverAhead
<1> QED BY <1>1, TypeInit, TypeStep, JournalInit, JournalStep, PTL DEF Spec
==============================================================================
