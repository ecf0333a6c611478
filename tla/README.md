# A TLA+ model of VARA

VARA is a content-addressed, distributed version control system written in Go: a command
line program that works on a repository directory (`.vara`), and a server that offers
repositories over HTTP. This directory holds TLA+ modules translated from its source, the
TLC configurations that check them on small instances, and TLAPS proofs. `PROJECT.json` is
the index: which definition models which lines, which run checks which property, which
mutated definition each property catches, what was found, and which hazards the code has.

Run a check with `tlc -config MCTransaction_safety.cfg MCTransaction`, a proof with
`tlapm TransactionProofs.tla`.

## 1. The system

| Component | State | Operations | What makes it correct | Module |
|---|---|---|---|---|
| Lock files (`internal/locking`) | `.vara/locks/*.lock` | acquire with deadline, release | only the creator removes a lock; orders do not cross | `Locking` |
| Transactions (`internal/transaction`) | held locks, `.vara/journal/*.json` | Begin, SetState, Commit, Rollback | one update at a time; the journal describes what is on disk | `Transaction` |
| Undo and recovery (`internal/undo`, `pkg/recovery`) | reads journal, reflog, snapshots | three layers of `vara undo` | goes back one change, never worsens what it repairs | `Transaction`, `Workspace` |
| Local commands (`internal/commands`) | working tree, index, HEAD, branches, reflog, MERGE_HEAD, CONFLICTS | add, rm, commit, switch, branch, merge, resolve, abort, ... | no work of the user and no change of a side is lost | `Workspace` |
| Text merge (`pkg/diff`, `internal/conflict`, `internal/smartmerge`) | none | diff, three-way merge, markers, strategies, key merge | nothing is dropped without a conflict; markers read back | `LineDiff`, `LineMerge`, `TreeMerge`, `MergeRules`, `TextMerge` |
| Commit graph (`pkg/graph`) | commit objects | MergeBase, Generation | the right ancestor | `CommitGraph`, `History` |
| Object store, gc, graph index, verify (`pkg/object`, `pkg/gc`, `pkg/graphindex`, `pkg/verify`) | loose objects, `graph.idx` | Write, Collect, LoadOrBuild, Invalidate, Verify | nothing in use is deleted; the cache never shows a part; verify does not miss damage | `Maintenance` |
| Transfer (`pkg/transfer`) | object store | Enumerate, WritePack, ReadPack | the receiver ends with a closed store | `Pack`, `History` |
| Remote commands, transport (`internal/transport`, `commands/remote.go`) | branches and tracking refs of two repositories | clone, fetch, pull, push | no push is lost, no reference dangles | `Sync`, `RemoteBranch` |
| Repository manager (`internal/repomanager`) | content, policy and record of each repository | create, delete, rename, load | all or nothing across crashes | `Repositories` |
| Authorization (`internal/authz`) | policy files, cached policies | edit, enforce | enforcement follows the policy | `Repositories` |
| Accounts (`internal/identity`, `server/throttle.go`) | account and credential files, failure counts | login, logout, tokens, password, disable, delete | a disabled account is out; what is revoked stays so; guesses are slowed | `Accounts` |
| Server (`internal/server`, `internal/hub`) | none of its own | remote protocol, control plane, browsing | each request passes authentication, authorization and the index | `Sync`, `Repositories`, `Accounts` |

How they interact. Every command is a process of its own; processes meet only through files.
`switch`, `merge`, `merge --abort`, the fast-forward of an unborn branch and the reflog layer
of `undo` run inside a transaction with the `refs` and `index` locks. `ReceivePack` takes the
`refs` lock around its reference updates and writes no journal. `commit`, `add`, `rm`,
`resolve`, `branch`, `fetch`, `history` and `gc` take no lock. `merge` calls the line merge
(`pkg/diff`) to find out whether a path conflicts and the renderer (`internal/conflict`) to
decide it again and mark it; `resolve` and `commit` read those marks and the CONFLICTS
sidecar. Commands remove `graph.idx`; `history` rebuilds it. The server runs one goroutine
per request; the stores of accounts and credentials, the manager, the policy store and the
limiters each have a mutex of their own, and a request holds none of them between two calls.

What is hard here: commands that interleave on unlocked files, processes that die between two
writes, errors after half of the writes, errors the code ignores, answers lost after the hub
has acted, decisions taken on values read before a lock, caches refreshed by modification
time, records read, changed and written back as a whole, graph walks over stores that lack
objects, and the edge cases of merging text. `hazards` in `PROJECT.json` lists each at its
line with the property that would catch it.

## 2. The modules

### Locking, Transaction (`MCTransaction`, `TransactionProofs`)

`Locking` is the lock files: `lockFile[l]` is the process whose PID the file holds. Nothing
reads the PID back, so only Release (and no crash) frees a lock.

`Transaction` is a set of processes that run commands on one repository. A command is a
*program*: the sequence of journal updates (`SetState`) and durable writes between `Begin` and
`Commit`, in the order of the source. `Write(f)` is a write whose error aborts the command,
`Try(f)` one whose error the code ignores or only warns of. What is written is abstracted to
which file is written; repeated writes to the working tree are one step, because each single
file is replaced on its own and no property tells them apart.

| State | Code |
|---|---|
| `pc`, `cmd`, `step` | where the process is in `Begin`, its command, `Commit`/`Rollback` or `undoJournal` |
| `held`, `txn` | `Transaction.locks`, `Transaction.journal` |
| `journal` | the files under `.vara/journal`, in creation order |
| `scan` | what `undoJournal` read: the scanned state, then the text of the file |
| `wrote`, `journal[i].wrote` | history: files the unfinished command, and its entry, have written |

| Action | Code |
|---|---|
| `Start`, `Acquire`, `AcquireFails`, `BeginJournal`, `BeginFails` | `Begin` and `AcquireWithTimeout`, with the deadline and every error |
| `SetStateStep`, `WriteStep`, `TryFails`, `StepFails` | the body of the command; any step may fail |
| `Commit`, `Rollback`, `ReleaseOne`, `Return` | the end, with failing flushes and failing removals |
| `Crash` | the process dies at any point; files stay |
| `Scan`, `RecoverRead`, `RecoverWrite` | layer 1 of `vara undo`, which runs beside live transactions without a lock |

### Workspace (`MCWorkspace`, `WorkspaceProofs`)

One working copy. A command reads and decides first and writes afterwards: the action that
starts it computes its *plan*, the sequence of durable writes left to it, from the state it
found. `Step` (with `StepFile` and `StepDelete`, one path at a time in any order) makes the
first of them, `Fail` is an error of it (a soft write is one whose error the code ignores),
`Crash` loses the rest, `StepThen` goes on with what a command reads only then. After
a merge that left conflicts these are the `resolve` of each strategy the policy chose for the
conflicts of this merge, from the record on disk or, when there is none, by the markers in the
files; then the session with the user, one file after the other, and `merge --continue`, both from
the record on disk, whichever merge wrote it. Between commands the user edits files.

| State | Code |
|---|---|
| `parents`, `trees`, `stored` | commits and blobs in the object store |
| `branch`, `head`, `logs`, `headLog` | references, HEAD, and their reflogs |
| `index`, `work` | the index with its entry states; the files |
| `mergeHead`, `sidecar` | `.vara/MERGE_HEAD` and `.vara/CONFLICTS` |
| `snaps`, `newest`, `journal`, `open` | snapshots, pending journal entries, an open transaction |
| `mine`, `warned`, `past` | history: the user's last edit per path, a reported snapshot failure, earlier tips |

How two texts merge is a parameter of the module; `MCWorkspace` gives it by `LineMerge`, so a
conflict in this model is a conflict of the real line merge, with its markers in the file.

### LineDiff, LineMerge, TreeMerge, MergeRules, TextMerge (`MCTextMerge`)

A file is a sequence of lines; only the last may lack its newline, and concatenation fuses such
a line with the next as `splitLines` would. `LineDiff` has the Myers search with its trace and
backtrack and the LCS walk of the renderer; `LineMerge` the engine's loop over change blocks, one
turn of which is `MergeTurn`, the renderer with its three styles and its hoisting of common lines,
both readers of markers, the strategies and the picks. `TreeMerge` is the key-by-key merge of
decoded documents, `MergeRules` the patterns of the merge policy. `TextMerge` takes every
base, ours and theirs of the bound as an initial state and runs the engine's loop one turn per
step.

### CommitGraph, Pack, History (`MCHistory`, `CommitGraphProofs`, `HistoryProofs`)

`CommitGraph` has the walks of `pkg/graph` and `pkg/transfer` as recursive functions over a
graph `G` and the set `S` of readable commits; a walk that leaves `S` fails as the code does.
`Reach` is the reference definition they are compared with. `Pack` adds trees and blobs:
`Enumerate` gives the contents of a pack. `History` makes every commit graph the commands can
make (commits, unrelated roots, merges that the engine does not fast-forward), and checks the
walks in each of them.

### Maintenance (`MCMaintenance`, `MaintenanceProofs`)

The store and everyone who shares it without a lock: one command at a time (add, commit, branch,
switch, undo) that writes objects and moves references file by file, a collection (roots and
mark, list, remove one object after the other), readers that load or build `graph.idx` through
its shared temporary file (removed when the rename fails, be it another builder's by then), and
verify's checks as one look at the store (`Healthy`). The plan of
a command is a sequence of steps; the objects it writes are one step `Writes(objs)` that is
taken object by object, a tree after the trees it lists. A crash loses the rest of a command or
of a collection and may leave the read-only temporary file of an object, which then blocks later
writes of that object (`stuck`). `overlap` remembers which races have happened, so that a
property can say what holds without them.

### RemoteBranch, Sync (`MCSync`, `SyncProofs`)

`RemoteBranch` says what a hub promises: a branch that a request moves in one step, only from
the value the client saw, only forward unless forced. `Sync` is what the code does: clients
that commit, push, fetch and pull one branch, and slots that each serve one `ReceivePack`:
ingest object by object, lock, compare and check, write, release, answer, each a step of its
own; answers get lost, handlers fail, and the process that serves a call may die with the lock
file left behind. A commit in a store stands for the commit with its trees and blobs, which
`Pack` and `PackComplete` justify. The refinement mapping takes `branch[Hub]` to `tip` and a
slot's call to a request; ingestion, locking, the check and the release are stuttering steps.

### Repositories (`MCRepositories`, `RepositoriesProofs`)

The manager's mutex lets one of Create, Delete and Rename run at a time; its plan is the steps
left to it, with the rollback of Create, the tombstone of Delete and the three moves of Rename.
On disk are `content`, `policy` (by name) and `meta` (by id); in memory `byName`, `known` and
whether they are loaded. A crash empties the memory; the next operation loads, which purges
tombstones and half-made repositories. Requests run beside: authorize with the cached policy
(stat, then the cache under the policy mutex, as two steps), look the name up, open the
directory. The operator edits policy files at any time.

### Accounts (`MCAccounts`, `AccountsProofs`)

A call of a store is atomic, a request is several calls, so it is several actions: a login is
throttle check, read and verify, optional rehash, put session, reset or count the failures; a
bearer request reads the credential, then the account, then touches the credential. Disable and
delete are an update and a revocation in the order of the code. Time passes; the limiters live in
memory and a restart forgets them. A key of the limiter is a folded name (`fold` is `ToLower`, any
function from names to names; `pairKey` applies it), so that several accounts may share one;
accounts themselves are looked up by their exact name. `clobbered` marks accounts where a whole stale record was
written over a newer one.

## 3. What is checked

| Run | Instance | States | Properties |
|---|---|---|---|
| `txn_safety` | 2 processes, all eleven commands, 1 journal file | 2,297,149 | `TypeOK`, `LockInv`, `JournalNeverAhead` |
| `txn_liveness` | 2 processes, unborn fast-forward and receivePack, 2 journal files, fairness | 361,806 | `OneOpenUpdate`, `NoCircularWait`, `CommandsReturn` |
| `workspace` | 8 histories, 2 files, 2 branches, up to 3 commands, 1 edit, 1 error or crash, merges left to the user or settled by a policy and a session | 2,169,733 | `TypeOK`, `NothingDangles`, `MineKept`, `UndoGoesBack`, `AbortSpares`, `AbortExact`, `MergeTakesBothSides` |
| `text_merge` | every base, ours and theirs of up to 3 lines over 2 texts, with and without a last newline; every three documents over 2 keys and 2 scalars, nested once; every pattern and path of up to 3 segments | 54,438 | `DiffsExact`, `PicksLoseNothing`, `MarkersReadBack`, `StrategiesAgree`, `CleanMergesAgree`, `CleanTreeHasBothSides`, `PatternsMean` |
| `maintenance` | 2 trees that share a subtree, 2 branches (one nested), 2 readers, 3 commands, 1 collection, 1 crash | 1,917,951 | `GcSpares`, `HistoryWhole`, `VerifySound` |
| `graph_walks` | every history of up to 4 commits, 3 trees that share a subtree | 1,825 | `MergeBaseSound`, `PackComplete`, `PackMinimal` |
| `sync_push` | 2 clients, 2 slots, 3 commits, 3 remote commands, with and without force | 876,462 | `TypeOK`, `RefsClosed`, `TrackingKept`, `CompareAndSwap` |
| `repositories` | 2 names, 2 repositories, 2 requests, 4 operations, 2 lookups, 1 policy edit, 2 errors or crashes | 1,508,362 | `TypeOK`, `ServedWhole`, `DeletedStaysDeleted`, `PolicyCurrent` |
| `accounts` | 2 users with one folded name, 2 passwords, 2 request slots, 3 requests, 2 credentials, 3 ticks, 1 restart | 1,971,860 | `TypeOK`, `RevokedStaysRevoked`, `DisableHolds`, `DeletedNotRevived`, `WaitServed`, `ThrottleHolds` |
| `merge_base`, `merge_hang`, `merge_seal` | violations, see Findings | | `MergeBaseBest`, `LoopAdvances`, `NoMarkersSealed` |

The properties in words.

*Locks and transactions*

- `LockInv`: a lock a process believes it holds is a file with its own PID; which locks it
  holds follows from where it is; a half-written repository has its writer's PID in the refs
  lock, dead or alive.
- `OneOpenUpdate`: at most one command is between its first durable write and its end, crashed
  ones included.
- `NoCircularWait`: no set of processes waits in a circle.
- `JournalNeverAhead`: an entry in EXECUTE, VERIFY, COMMIT or COMPLETED has every mandatory
  write that its program makes before that state, whatever a concurrent `vara undo` wrote over
  the entry. A state scanned before the owner moved on may be written back later; it is then
  behind the disk, never ahead of it.
- `CommandsReturn`: every command returns or dies.

*One working copy*

- `NothingDangles`: no commit, index entry or recorded conflict names a blob the store lacks,
  whatever write a command died or failed at.
- `MineKept`: what the user wrote last into a file and has not asked to discard is on disk, in
  the store or in a snapshot, unless a failed snapshot was reported.
- `UndoGoesBack`: undo moves a branch to where it was before the last change not yet undone,
  although a line of the reflog may have been lost (one: section 6 has the case of three).
- `MergeTakesBothSides`: a merge that commits takes every change that one side made, or both
  made alike, whatever was staged.
- `AbortSpares`, `AbortExact`: abort changes no file the merge did not touch (a staged deletion
  is the exception), and one that ends leaves the index and files as HEAD has them.

*Text*

- `DiffsExact`: both diffs describe the other file exactly, and the Myers script is shortest.
- `PicksLoseNothing`: taking one side in all conflicts the renderer leaves gives all changes of
  that side plus the changes of the other that touch none of them, in all three styles.
- `MarkersReadBack`: what the renderer writes can be parsed, with as many hunks as it counted,
  and comes back unchanged when nothing is decided.
- `StrategiesAgree`: `resolve --strategy` and the interactive picks make the same of a file, and
  no strategy fails on or leaves a marker in what the engine wrote.
- `CleanMergesAgree`: a merge the engine calls clean is clean to the renderer too, and calling
  the sides the other way round changes neither that nor the result.
- `CleanTreeHasBothSides`: a structural merge reported clean has every change of both sides.
- `PatternsMean`: the backtracking matcher of policy patterns agrees with their meaning.

*Store, index of the graph, verification*

- `GcSpares`: while no command ran during a collection and none removed what the index names,
  everything reachable from branches and from HEAD's reflog is stored whole, through undos,
  crashed commands and crashed collections.
- `HistoryWhole`: `history` shows all of the history or nothing, never a part, however builders
  share `graph.idx.tmp`; nothing only in the cases of section 5.
- `VerifySound`: when verify's local checks find nothing, the history of every branch is there
  to the last blob, whatever has raced or crashed before.

*Graphs and transfer*

- `MergeBaseSound`: the merge base is a common ancestor even over a store that lacks commits,
  and over a complete store it is found whenever there is one.
- `PackComplete`, `PackMinimal`: a receiver with the closure of its haves has the closure of
  the want after ingestion, even when the sender cannot read all of the haves' history; a
  sender with a complete store resends no commit.
- `RefsClosed`: no branch or tracking reference names a commit whose history its repository
  lacks. This is not evident: `ReceivePack` looks only for the new commit itself, in a store
  that interrupted pushes may have filled with commits that lack their parents. It holds
  because a pack leaves out only the history of what the hub advertised.
- `TrackingKept`: until a forced push rewrites the branch, what a client was told stays in it.
- `CompareAndSwap`: `Sync` implements `RemoteBranch`.

*The server*

- `ServedWhole`: between operations a live record has its own directory and policy, and no
  directory or policy is without its record; the names where the code keeps no such promise
  (section 5) are left out by `residue`.
- `DeletedStaysDeleted`: a repository whose deletion was reported is never live again, although
  all removals after the tombstone may fail and the server may restart.
- `PolicyCurrent`: the policy a request is decided by was in the file at some moment since the
  request looked.
- `RevokedStaysRevoked`: a revoked session or token is not put back by a request that read it
  before.
- `DisableHolds`: after disable or delete returned, no request that arrives later gets through,
  not even with a session that a login under way minted after the revocation.
- `DeletedNotRevived`: a deleted account comes back only by being created.
- `WaitServed`: a wait the limiter imposed on a key is served whatever other requests do
  meanwhile, until an account of that key signs in or the server restarts. Accounts whose names
  differ in case only share the key.
- `ThrottleHolds`: while a key waits, only requests that were past the check are still counted.

**Bounds.** Two processes are enough for every pairwise race of the locks, and a crashed
process counts as one; the proofs cover any number. Two journal files let a recovery choose
between a finished and an unfinished entry. The eight histories of `workspace` are the shapes the
per-path merge distinguishes: edit against edit, deletion against edit, add against add, binary
files, neighbouring edits that the renderer settles, a clean merge, a fast-forward, an unborn branch,
and a single branch; three commands give merge, an answer to it (resolve, add, rm, commit, abort)
and an undo, with an edit and one error or crash anywhere. One policy leaves all conflicts
to the user; the other settles p by union and asks about the rest. Three lines hold two changes on
one side around or beside a change of the other; two texts make equal and unequal changes. In
`maintenance` one command can be cut by a crash, followed by a collection and a second command;
two readers collide on the temporary file. Four commits hold the criss-cross and the diamond with
a tail; `merge_base` is allowed six and needs four. Three commits and three remote commands let two pushes
race with a commit in between, a push be repeated after a lost answer, and a fetch overtake a
push. Two names and two repositories allow a rename onto a freed name and a re-creation under an
old one; two faults allow an error in the clean-up after an error. Two request slots and three
requests let a login or a password change straddle a disable or a delete and be followed by
another attempt, and let one of two users that share a key fail, the other succeed and the first
come back.
Symmetry is used over processes, slots, clients, readers, requests, users and names, which the
specifications do not tell apart. `CHECK_DEADLOCK FALSE` is set where, at the bounds, everything
may be idle or dead with nothing left to start; `text_merge` checks deadlock, its end being a
stuttering step.

**Fairness.** `FairSpec` has weak fairness on `Progress(p)`: a process that runs a command
takes its next step unless it dies. The scheduler of the operating system gives that, and
the one wait in the code, the loop of `AcquireWithTimeout`, ends at a deadline, so the
disjunct `AcquireFails` is always enabled in it. No fairness is assumed on starting commands,
on crashes or on a lock ever becoming free.

## 4. Findings

Each is a run that TLC must refute.

1. `merge_base`: `MergeBase` promises the common ancestor with the highest generation
   (`pkg/graph/graph.go:81`) and returns the nearest: with 2 on 1, 3 on 2 and 4 a merge of 3 and 1,
   `MergeBase(2, 4)` is 1. A true fast-forward is then refused by `ReceivePack`, and merged
   three-way by `merge`.
2. `merge_hang`: a merge produces "one of the following terminal or suspended states"
   (`docs/VARA-RFC-0008-MERGE-ALGORITHM.md:25`), and `ThreeWayMerge` "returns the merged bytes and a
   boolean" (`pkg/diff/diff.go:107`). With a base of one line and a different line inserted before
   it on each side, the loop of `mergeChangeBlocks` repeats a turn that changes nothing: the region
   of two insertions at one place is empty, and an empty region takes no block
   (`threeway.go:162`). `diff.go:121` and `docs/merge-state.md:116` know the hang and treat it as one
   of the empty base only. An insertion on one side alone hangs too: `AppendedLineHangs` in
   `MCTextMerge` has a line appended against a change elsewhere.
3. `merge_seal`: `commit.go:70` says a merge is never "sealed with unresolved <<<<<<< markers
   baked into history". `merge` has no such check: run on a branch already contained, while a
   conflicted merge is open, it commits the marked files.

## 5. What the models show besides

Behaviours met while modelling that the properties above exclude explicitly, by a hypothesis, a
history variable or an assumption; each was seen as a TLC trace when the exclusion was left out,
or follows directly from the cited lines.

- **Locks.** `undo.go:107` expects the lock files of a dead process to be gone; they are created
  with `O_EXCL` and only `Release` removes them. `docs/COMPATIBILITY.md:83-84`
  says that a lock file "being present means the resource is held by a live process" and that a
  stale one "can be detected and cleared": no code does either, the PID in the file is never read,
  and every later command waits until its deadline and fails. The same orphan keeps others out of a
  half written repository (`OpenUpdateLocked`). `commit` takes no lock although "every mutating command
  uses the same pattern" (`docs/ARCHITECTURE.md:275`): `UpdatesIsolated` assumes
  `Commands \subseteq Locked`, and `OneOpenUpdate` is false when `commit` is among the commands.
- **Text.** When the second block of a side starts inside a region and ends behind it, slicing
  `base[to:re]` panics (`threeway.go:178`). A key set to null on one side and to a value on the
  other silently takes the value when the base lacks it (RFC-0025:109 counts it as a conflict).
  A last line without newline is fused with the line that follows it; `PicksLoseNothing` and
  `StrategiesAgree` are about files whose lines all end in a newline.
- **Working copy.** A fast-forward leaves the files it deleted in the index, although "updates
  the working directory and index to match TheirCommit" (`internal/merge/merge.go:88`); they
  come back with the next commit. Undo leaves the CONFLICTS sidecar. `abort` deletes a file the
  user made again after staging its deletion. An up-to-date merge still makes a commit. Neither
  `switch` nor `merge` asks whether a merge is open.
- **Store.** The roots of gc do not include the index, so `add`, `gc`, `commit` leaves a commit
  whose blobs are gone; a command beside a collection loses objects in the same way. Both set
  `overlap`, without which `GcSpares` is false. A collection cut off by a crash may make verify
  complain of unreachable trees. `graph.idx` is stale, and `history` then empty, when HEAD is on a
  nested branch (`graphindex.go:409` skips directories), after a crash between the move of a
  reference and `Invalidate`, when `Build` races a commit, and after a push into the repository,
  which does not invalidate it. Nor is a plain branch safe from the first of these: an index built
  while HEAD is elsewhere lacks the commits of a nested branch, and creating a branch on that one
  does not remove the index, so the new branch has an empty history too. It takes three branches;
  the proof of `HistoryWhole` brought it out, and the property exempts every repository with a
  nested branch. The read-only temporary file a crash leaves makes later writes of
  that object fail.
- **Repositories.** A rename cut off between its moves leaves content and record under different
  names. An ignored removal error leaves content that a later Create of that name takes over, and a
  stale tombstone may shadow a live name after a restart. A Delete whose tombstone write fails is
  "deleting" in memory and active on disk until a restart, and a retried Delete of a tombstone is
  answered with not-found. The policy cache may pair a parsed policy with the time of an older
  file (`torn`), and a failing load answers with the last good policy. `Servable` and the opening of
  the directory are two steps.
- **Accounts.** ChangePassword and the rehash at login write back the whole record they read, so a
  disable in between can be lost (`clobbered`). A login between the revocation and the removal of an
  account leaves a session, dead until an account of that name is created again. Touch may move
  `LastUsedAt` backwards. The limiter is "one per (address, account) so a person who mistypes is
  slowed alone" (`server/throttle.go:102`), but `pairKey` lower-cases the name while `ValidUsername`
  (`identity/account.go:56`) admits upper case and accounts keep their case: Alice and alice share
  an entry, so a failure of one makes the other wait, and a success of one ends the other's wait.
  Attempts that run in parallel pass the limiter together, no more than
  there are requests (`ThrottleHolds`).

## 6. What is proved

A theorem holds for every value of the constants: any set of processes, clients, readers,
requests, names, branches and trees, any history and any bound. Every safety property of the
runs of Transaction, History, Sync, Maintenance, Accounts and Repositories is proved, and every
invariant of Workspace with two of its four action properties.

| Module | Theorem | Property | Inductive invariant |
|---|---|---|---|
| `TransactionProofs` | `TypeCorrect` | `TypeOK` | `TypeInv` |
| | `LocksConsistent` | `LockInv` | `LockInv` itself, with `TypeInv` |
| | `UpdatesIsolated` | `OneOpenUpdate`, when every command is in `Locked` | |
| | `DeadlockFree` | `NoCircularWait` | |
| | `JournalSound` | `JournalNeverAhead` | `JournalInv` |
| `WorkspaceProofs` | `TypeCorrect`, `NothingEverDangles`, `MineAlwaysKept` | `TypeOK`, `NothingDangles`, `MineKept` | `Inv` |
| | `AbortAlwaysSpares`, `AbortAlwaysExact` | `AbortSpares`, `AbortExact` | `AbortInv`, with `Inv` |
| `AccountsProofs` | `TypeCorrect`, `RevocationPermanent`, `DisabledKeptOut`, `DeletedStaysOff`, `WaitsServed`, `ThrottleBounds` | `TypeOK`, `RevokedStaysRevoked`, `DisableHolds`, `DeletedNotRevived`, `WaitServed`, `ThrottleHolds` | `Inv` |
| `RepositoriesProofs` | `TypeCorrect`, `DeletionLasts`, `PoliciesCurrent` | `TypeOK`, `DeletedStaysDeleted`, `PolicyCurrent` | `Inv` |
| | `AlwaysServedWhole` | `ServedWhole` | `WholeInv`, with `Inv` |
| `CommitGraphProofs` | `MergeBaseIsCommon`, `MergeBaseFinds`, `SendCompletes`, `SendIsNew` | what the walks compute, for every graph and store | loop invariants |
| `HistoryProofs` | `BasesSound`, `PacksComplete`, `PacksMinimal` | `MergeBaseSound`, `PackComplete`, `PackMinimal` | `GraphInv` |
| `SyncProofs` | `TypeCorrect`, `HistoriesComplete`, `PushesKept` | `TypeOK`, `RefsClosed`, `TrackingKept` | `TypeInv`, `ClosedInv`, `KeptInv` |
| | `UpdatesExclusive`, `Refinement` | `CompareAndSwap` | `Exclusive` |
| `MaintenanceProofs` | `VerifyMissesNothing`, `CollectionsSpare`, `HistoriesWhole` | `VerifySound`, `GcSpares`, `HistoryWhole` | `TypeInv`, `GcInv`, `HistInv` |

The assumptions are those named in the modules: the special values are no processes or names
(`FreeAssumption`, `HubAssumption`), the sets of commands and branches are what the code has
(`CommandsAssumption`, `BranchAssumption`), bounds are natural numbers, the throttle's constants
are in order (`AccountsAssumption`), trees list trees and blobs and, being named by their
hash, are in no circle (`EntriesAssumption`, `TreesAssumption`), the empty string names no
repository (`NameAssumption`; `ValidName` refuses it), and the histories a working copy starts
from are histories: trees are functions over the finite set of paths, the two branches differ,
and an unborn branch has no tree of its own (`WorkspaceAssumption`). Nothing is assumed of how
texts merge: the theorems about `Workspace` hold for every `Engine`, `Rendered`, `Union`,
`Legacy` and `Picked`.

**Transactions.** `TypeOK` is not inductive: a recovering process writes the journal at
`scan[p].id`, so `TypeInv` adds that this is an entry of the journal (`ScanKnown`) and that
running processes run a command of `Commands` (`CommandsKnown`). For the locks one needs to know
that two processes do not both believe they hold a file (ownership of the file) and that a
process never takes a lock it has (`HeldByPlace`, from the plan of the command). Two writers
would both be in the one refs file (`OpenUpdateLocked`); a waiter waits for a lock of higher rank
than all it holds (`WaitsUpwards`), so in a circle ranks would grow for ever, and there are four.
`JournalInv` says of every entry that its own writes justify its state (`EntriesJustified`), of a
running command that its entry has recorded each mandatory write of the steps done
(`FollowsProgram`), and of a `vara undo` beside it that the state it has read is still justified
when it writes it back (`ReadIsJustified`): the writes of an entry only grow, so a justified
state stays justified.

**Working copy.** `Inv` is about the plan of the running command (`PlanInv`) besides the state.
A step is judged by the kinds of the steps before it and by the blobs that will be stored by then
(`PlanOK`): it writes values of the right kind (`StepTyped`); the tree, index or sidecar it writes
names blobs that are stored by then (`StepStored`), which is what `NothingDangles` needs when a
command stops after any of its writes; no transaction begins after one has ended, only hand-overs
follow a hand-over, and recovery finds an entry of the journal (`StepOrdered`); and a file it overwrites or deletes holds nothing
of the user's, or what it holds is in the store, in a snapshot that an earlier step takes, or given
up (`StepGuarded`, over the paths `Secured`). `Closes`: an open transaction has its end in the
plan. Each command is shown to start with such a plan, by lemmas on plans put together and on the
steps that `Needed` leaves out; a step done turns what it promised to later steps into a fact of
the state, and a hand-over (`StepThen`) starts the next command from a state like any other.
`AbortInv` is about the plan of an abort alone: each step left would restore HEAD's tree, the files
come before the index and the sidecar (`FilesFirst`; the sidecar says which files may be touched),
and what is no longer pending is done.

**Accounts.** Per credential: a revoked one was minted and is gone. Per request: one that came
after its account was switched off gets no further than the check of the account, unless a stale
record was written back (`OffOK`). Per key of the limiter: a wait that is owed is in the limiter
(`WaitKept`; the loop of `fail` never makes it shorter), and while it lasts, the failures counted
and those still to come leave out the request that began it (`ThrottleCounts`, by cardinality).

**Repositories.** The plan of an operation is a sequence, so the invariant is about each of its
steps and what follows it (`PlanOK`): what is to be returned is still recorded or already buried
(`Returns`), and no step brings back what was reported deleted (`Spares`). For policies: a
modification time names one content (`StampsIdentify`), the cache pairs them rightly unless
marked `torn` (`Paired`), and what a request has looked at was current since (`Looking`).

`ServedWhole` is far from inductive: it says nothing while an operation is at work. `WholeInv`
says of every loaded state that the operation is somewhere on its course (`OnCourse`): over, and
then the records, the index and the disk agree (`Settled`), or in one of five phases: `Clearing`
away a repository that load found half made or half deleted, or that a rollback undoes, with what
is to follow; `Creating`; `Returning`; `Deleting`; `Renaming`. A phase gives the plans
that may be left with what is on disk at each. Every name is whole in all of them (`Sound`), except
those of `residue` and the two names of a rename between its moves, which are in neither the state
before nor the state after it (`Between`). Before the manager has loaded, only the disk can be
spoken of: `Sound` alone. That is enough for the restart, since at most one record bears a whole
name, so the index that load builds knows it by that record, and what load purges is not live.
Each step of a plan is taken once as an effect on the seven parts of the state (`DoRemember`,
`DoWriteMeta`, ...), and each phase is then shown to go from plan to plan by these effects, with the
error branch of every step.

**Graphs.** `CommitGraphProofs` begins with induction over sets of naturals, the existence of iterations and
of loops as recursive functions, and descent through a graph without circles; they take sets and
functions as parameters where the library's theorems take operators, which no installed prover
can instantiate. With them, what a recursive function computes can be proved. It then shows that `Reach` is the least set closed under parents; that a walk keeps
what it has seen within reach, and has read what it has seen and not queued (`WalkOK`); and that
`Len(G) + 1` turns are enough, because every turn that goes on sees another commit.
`HistoryProofs` adds trees: the closure of a tree is the least set with it that is closed under
entries, and leaving out a set that is closed itself leaves out nothing else
(`DescentCompletes`).

**Sync.** `ClosedInv` adds to `RefsClosed` that a client waits for a call of its own with a
commit it has in full (`Waiting`), and that what a call or a fetch has still to write completes
the history of its commit (`Completing`); a pack starts so by `SendCompletes`. `KeptInv` adds
that what clients are about to record is in the hub's branch (`Promised`). For the refinement,
`Exclusive` says that a call past its check holds the refs lock, so the branch is still what the
call compared with. A commit or merge of a client maps to `Grow`, the start of a push to
`Submit`, a refused check and a failed ingestion or write to `Refuse`, `WriteRef` to `Move`, the
end of a call to `Finish`, and every other step to a stutter.

**Maintenance.** The invariants are about the steps still in a plan and the steps `Earlier` in
it. `VerifySound` needs only types: what verify has looked at is closed under entries and
parents, and such a set has everything below its elements. `GcInv`: unless a command has met a
collection, each tip is whole, each step of the plan finds what it makes reachable stored or
written by an earlier step (`StepGood`), and a collection under way spares the history of the
tips (`GcGood`; the mark by `SendCompletes`). `HistInv` has three parts. `IndexInv`: an index file
that loads has the history of each of its commits, whoever wrote it. `RootedInv`: what a reader
is reading stays reachable from a branch or HEAD's reflog, since commit moves a branch forward and
undo moves it back from a commit that is logged; so, with `GcInv`, the walk of the store fails
only after a race with a collection. `CurrentInv`: without a race, a crash or a nested branch,
the index has every tip or the running command is bound to remove it (`WillInvalidate`), and
undo, which keeps it, moves the branch to a commit the index has because it has its child.

Only model-checked:

- `CommandsReturn`: liveness under fairness is beyond the prover.
- `UndoGoesBack`: not a theorem, for it is false beyond the bounds of the run, which allow one
  error. Errors of the reflog are ignored, and undo trusts the newest line not undone when the
  line ends at the tip. With three lines lost it may be the wrong one: a fast-forward from A to C
  is logged, its undo is not, and then fast-forwards from A to B and from B to C are not logged
  either; undo goes to A. The attempt to prove it brought this out.
- `MergeTakesBothSides`: not a theorem for the same reason. An error of writing CONFLICTS is
  ignored by `merge`, and a session and the `merge --continue` after it work from the record on
  disk (`mergepolicy.go:204-213`). It takes five commands: a merge is left open with a conflict in
  p; `undo` takes back the commit with our change of p, removes MERGE_HEAD and keeps CONFLICTS; an
  edit of q is added and committed; and a second merge, with a session, conflicts in q, but its
  record is not written. The session asks about p, where only the other side has a change now, and
  the answer of the old record overwrites it; q is not in the record, so it is not asked about and
  committed with its markers. The run has three commands. The strategies of the policy are not
  misled: they are given the paths of this merge.
- The properties of `TextMerge`: they are about operators declared `RECURSIVE`, which takes the
  SMT backend from the prover, and the diff, the three-way merge and the structural merge would
  each need induction over their inputs.

## 7. Plan

Done: lock files and transactions; the working copy and its commands; text and structural merge;
commit graph and packs; the object store with gc, graph index and verify; push, fetch and pull;
the repository manager with authorization; accounts and throttling; the proofs of section 6.
Left: `UndoGoesBack` and `MergeTakesBothSides` under a bound on the writes that fail unnoticed, for
which the invariant would have to count the lines a log lacks; the line diff and the structural
merge as recursive functions, so that `DiffsExact` and `CleanTreeHasBothSides` can be reasoned about;
the parts of section 8.

## 8. What is not modelled

Byte formats (object, index, pack, journal and graph index encodings), hashing and compression;
decoding and rendering of JSON, YAML and TOML around the structural merge; configuration files;
read-only views (doctor, status texts, diffs shown to the user, hub browsing and search); HTTP
routing, limits, headers and TLS; the web frontend; argument parsing and credential prompts;
ignore patterns and the fingerprint shortcut of the scanner. They keep no state that a sequence
of steps could spoil, or convert bytes one to one.

Left out of modelled parts: in `Workspace` two processes at once on one working copy (their locks
are the subject of `Transaction`, their objects of `Maintenance`), a detached HEAD, `commit
--allow-empty`, free editing during an interactive resolution, and the structural drivers of the
renderer and of `resolve` under `auto` (`resolve.go:254`), whose merge is `TreeMerge`'s; in
`Transaction` a torn journal: `undoJournal` and the owner's flush write one `<journal>.tmp`
(`undo.go:114`), and each is taken as one atomic replacement; in `Maintenance` verify as more than
one look, and two writers of one temporary object file; torn bytes of a reference written by two commands without a lock; in `Sync` more than
one branch per push; in `Repositories` two writes of a policy file within one tick of the file
system's clock. `components` in `PROJECT.json` says so part by part.
