-------------------------------- MODULE Sync --------------------------------
(***************************************************************************)
(* Push, fetch and pull between client repositories and one hub: RunPush,  *)
(* RunFetch and RunPull on the client side, Local.FetchPack and            *)
(* Local.ReceivePack on the hub's, over one branch.  A slot of Handler is  *)
(* one run of ReceivePack: a goroutine of the server, or the client's own  *)
(* process when the remote is a path.                                      *)
(*                                                                         *)
(* A store is the set of commits it can read: a commit object stands for   *)
(* the trees and blobs the pack carries with it (see Pack).                *)
(***************************************************************************)
EXTENDS Locking, CommitGraph

CONSTANTS Client, Hub,    \* the repositories
          Forces,         \* the values of --force that are used
          MaxCommit,      \* bound: commits made in a behaviour
          MaxRemote       \* bound: pushes, fetches and pulls started in a behaviour

ASSUME HubAssumption == Hub \notin Client
ASSUME ForcesAssumption == Forces \subseteq BOOLEAN
ASSUME BoundAssumption == MaxCommit \in Nat /\ MaxRemote \in Nat

Handler == Proc
Repo == Client \cup {Hub}

VARIABLES parents,    \* parents[c]: Commit.Parents of every commit made anywhere
          store,      \* store[r]: the commits repository r has
          branch,     \* branch[r]: refs/heads/main
          track,      \* track[c]: refs/remotes/origin/main
          act,        \* act[c]: the command client c runs
          hand,       \* hand[h]: the ReceivePack call slot h serves
          started,    \* how many remote commands were started
          rewritten   \* history: a forced push has dropped commits of the hub's branch

syncVars == <<lockFile, parents, store, branch, track, act, hand, started, rewritten>>
hubVars == <<lockFile, hand, rewritten>>

Idle == [op |-> "idle", h |-> Free, target |-> NoCommit, todo |-> {}]
NoCall == [pc |-> "idle", old |-> NoCommit, new |-> NoCommit, force |-> FALSE,
           todo |-> {}, result |-> "none"]

\* The list of a reference that exists, and of one that does not.
Refs(c) == IF c = NoCommit THEN << >> ELSE <<c>>

----------------------------------------------------------------------------
(* Local commands                                                          *)

\* BuildCommit and the ref update that follows it, in a repository of its own.
CommitHere(c, ps) ==
    /\ Len(parents) < MaxCommit
    /\ parents' = Append(parents, ps)
    /\ store' = [store EXCEPT ![c] = @ \cup {Len(parents) + 1}]
    /\ branch' = [branch EXCEPT ![c] = Len(parents) + 1]

\* Mutant: the zero commit of an unborn branch is recorded as a parent.
LocalCommitOnZero(c) ==
    /\ act[c].op = "idle"
    /\ CommitHere(c, <<branch[c]>>)
    /\ UNCHANGED <<hubVars, track, act, started>>

\* RunCommit.
LocalCommit(c) ==
    /\ act[c].op = "idle"
    /\ CommitHere(c, Refs(branch[c]))
    /\ UNCHANGED <<hubVars, track, act, started>>

----------------------------------------------------------------------------
(* Push                                                                    *)

\* RunPush up to the request: ListRefs, Enumerate against the advertised tip, WritePack.
\* The call reaches the hub with the value of the branch seen here.
Push(c, h, f) ==
    /\ act[c].op = "idle"
    /\ started < MaxRemote
    /\ hand[h].pc = "idle"
    /\ branch[c] # NoCommit
    /\ branch[c] # branch[Hub]
    /\ LET send == SendCommits(parents, store[c], <<branch[c]>>, Refs(branch[Hub]))
       IN  /\ ~send.failed
           /\ hand' = [hand EXCEPT ![h] = [NoCall EXCEPT !.pc = "ingest", !.old = branch[Hub],
                                              !.new = branch[c], !.force = f, !.todo = send.commits]]
    /\ act' = [act EXCEPT ![c] = [Idle EXCEPT !.op = "push", !.h = h]]
    /\ started' = started + 1
    /\ UNCHANGED <<lockFile, parents, store, branch, track, rewritten>>

\* The next place of the call and its result so far.
Goto(h, l, r) == hand' = [hand EXCEPT ![h].pc = l, ![h].result = r]

\* ReadPack: one object is written.  The trailer of the whole stream was verified first;
\* records come in hash order, which says nothing of ancestry.
Ingest(h, x) ==
    /\ hand[h].pc = "ingest"
    /\ x \in hand[h].todo
    /\ store' = [store EXCEPT ![Hub] = @ \cup {x}]
    /\ hand' = [hand EXCEPT ![h].todo = @ \ {x}]
    /\ UNCHANGED <<lockFile, parents, branch, track, act, rewritten, started>>

\* Mutant: the update starts before the pack is ingested.
AcquireBeforeIngest(h) ==
    /\ hand[h].pc = "ingest"
    /\ TryAcquire(h, "refs")
    /\ Goto(h, "check", "none")
    /\ UNCHANGED <<parents, store, branch, track, act, rewritten, started>>

\* Mutant: the update takes no lock.
AcquireNothing(h) ==
    /\ hand[h].pc = "ingest"
    /\ hand[h].todo = {}
    /\ Goto(h, "check", "none")
    /\ UNCHANGED <<lockFile, parents, store, branch, track, act, rewritten, started>>

\* The refs lock is taken, once the pack is ingested.
AcquireRefs(h) ==
    /\ hand[h].pc = "ingest"
    /\ hand[h].todo = {}
    /\ TryAcquire(h, "refs")
    /\ Goto(h, "check", "none")
    /\ UNCHANGED <<parents, store, branch, track, act, rewritten, started>>

\* The stream is bad, an object cannot be written, or the lock is not free in time.
ReceiveFails(h) ==
    /\ hand[h].pc = "ingest"
    /\ Goto(h, "reply", "refused")
    /\ UNCHANGED <<lockFile, parents, store, branch, track, act, rewritten, started>>

\* applyUpdate up to its write: compare with Old, look for New, test for a fast-forward.
Check(h) ==
    LET u == hand[h]
        current == branch[Hub]
        fastForward == MergeBase(parents, store[Hub], current, u.new) = current
        ok == /\ current = u.old
              /\ u.new \in store[Hub]
              /\ u.force \/ current = NoCommit \/ fastForward
    IN  /\ u.pc = "check"
        /\ IF ok THEN Goto(h, "write", "none") ELSE Goto(h, "release", "refused")
        /\ UNCHANGED <<lockFile, parents, store, branch, track, act, rewritten, started>>

\* applyUpdate: refs.Update, or refs.Create, which does not overwrite a branch made since.
WriteRef(h) ==
    LET u == hand[h]
    IN  /\ u.pc = "write"
        /\ u.old = NoCommit => branch[Hub] = NoCommit
        /\ branch' = [branch EXCEPT ![Hub] = u.new]
        /\ rewritten' = (rewritten \/ (branch[Hub] # NoCommit /\ ~IsAncestor(parents, branch[Hub], u.new)))
        /\ Goto(h, "release", "ok")
        /\ UNCHANGED <<lockFile, parents, store, track, act, started>>

\* applyUpdate: the write fails, or refs.Create finds the branch.
WriteFails(h) ==
    /\ hand[h].pc = "write"
    /\ Goto(h, "release", "refused")
    /\ UNCHANGED <<lockFile, parents, store, branch, track, act, rewritten, started>>

\* The deferred lock.Release, whose error is dropped.
Release(h) ==
    /\ hand[h].pc = "release"
    /\ Remove("refs") \/ UNCHANGED lockFile
    /\ Goto(h, "reply", hand[h].result)
    /\ UNCHANGED <<parents, store, branch, track, act, rewritten, started>>

\* Mutant: the tracking ref is moved whatever the result.
ReplyUnchecked(c, h) ==
    /\ act[c].op = "push"
    /\ act[c].h = h
    /\ hand[h].pc = "reply"
    /\ track' = [track EXCEPT ![c] = hand[h].new]
    /\ act' = [act EXCEPT ![c] = Idle]
    /\ hand' = [hand EXCEPT ![h] = NoCall]
    /\ UNCHANGED <<lockFile, parents, store, branch, rewritten, started>>

\* RunPush gets the results; an accepted push is mirrored in the tracking ref, best effort.
Reply(c, h) ==
    /\ act[c].op = "push"
    /\ act[c].h = h
    /\ hand[h].pc = "reply"
    /\ \/ hand[h].result = "ok" /\ track' = [track EXCEPT ![c] = hand[h].new]
       \/ UNCHANGED track
    /\ act' = [act EXCEPT ![c] = Idle]
    /\ hand' = [hand EXCEPT ![h] = NoCall]
    /\ UNCHANGED <<lockFile, parents, store, branch, rewritten, started>>

\* The connection breaks, or the client is stopped: RunPush fails, the call goes on.
LoseReply(c) ==
    /\ act[c].op = "push"
    /\ act' = [act EXCEPT ![c] = Idle]
    /\ UNCHANGED <<hubVars, parents, store, branch, track, started>>

\* The answer to a client that is gone.
Discard(h) ==
    /\ hand[h].pc = "reply"
    /\ \A c \in Client : act[c].h # h
    /\ hand' = [hand EXCEPT ![h] = NoCall]
    /\ UNCHANGED <<lockFile, parents, store, branch, track, act, rewritten, started>>

\* The process of the call dies; the lock file, if it has one, stays.
Crash(h) ==
    /\ hand[h].pc \notin {"idle", "dead"}
    /\ hand' = [hand EXCEPT ![h] = [NoCall EXCEPT !.pc = "dead"]]
    /\ UNCHANGED <<lockFile, parents, store, branch, track, act, rewritten, started>>

----------------------------------------------------------------------------
(* Fetch and pull                                                          *)

\* RunFetch: ListRefs.
ListRefs(c) ==
    /\ act[c].op = "idle"
    /\ started < MaxRemote
    /\ branch[Hub] # NoCommit
    /\ act' = [act EXCEPT ![c] = [Idle EXCEPT !.op = "list", !.target = branch[Hub]]]
    /\ started' = started + 1
    /\ UNCHANGED <<hubVars, parents, store, branch, track>>

\* RunFetch: the hub enumerates against every ref the client has.
FetchPack(c) ==
    /\ act[c].op = "list"
    /\ LET send == SendCommits(parents, store[Hub], <<act[c].target>>, Refs(branch[c]) \o Refs(track[c]))
       IN  /\ ~send.failed
           /\ act' = [act EXCEPT ![c].op = "unpack", ![c].todo = send.commits]
    /\ UNCHANGED <<hubVars, parents, store, branch, track, started>>

\* RunFetch: ReadPack writes one object.
Unpack(c, x) ==
    /\ act[c].op = "unpack"
    /\ x \in act[c].todo
    /\ store' = [store EXCEPT ![c] = @ \cup {x}]
    /\ act' = [act EXCEPT ![c].todo = @ \ {x}]
    /\ UNCHANGED <<hubVars, parents, branch, track, started>>

\* RunFetch: the tracking ref takes the advertised value, whatever it held.  RunPull goes
\* on to merge; RunFetch ends here (ClientStops).
UpdateTracking(c) ==
    /\ act[c].op = "unpack"
    /\ act[c].todo = {}
    /\ track' = [track EXCEPT ![c] = act[c].target]
    /\ act' = [act EXCEPT ![c] = [Idle EXCEPT !.op = "merge"]]
    /\ UNCHANGED <<hubVars, parents, store, branch, started>>

\* RunPull: MergeIntoHEADWith.  An unborn branch or a base that is ours takes their commit;
\* any other base ends in a merge commit.
PullMerge(c) ==
    LET our == branch[c]
        their == track[c]
        base == MergeBase(parents, store[c], our, their)
    IN  /\ act[c].op = "merge"
        /\ \/ /\ our = NoCommit \/ base = our
              /\ branch' = [branch EXCEPT ![c] = their]
              /\ UNCHANGED <<parents, store>>
           \/ /\ our # NoCommit /\ base \notin {our, NoCommit}
              /\ CommitHere(c, <<our, their>>)
        /\ act' = [act EXCEPT ![c] = Idle]
        /\ UNCHANGED <<hubVars, track, started>>

\* A fetch is done, any step of a fetch or a pull fails, or the client is stopped; unrelated
\* histories and conflicts end a pull too.  What was written stays.
ClientStops(c) ==
    /\ act[c].op \in {"list", "unpack", "merge"}
    /\ act' = [act EXCEPT ![c] = Idle]
    /\ UNCHANGED <<hubVars, parents, store, branch, track, started>>

----------------------------------------------------------------------------
(* The specification                                                       *)

\* Empty repositories, or clones of a hub with one commit.
Init ==
    /\ LockInit
    /\ \/ /\ parents = << >>
          /\ store = [r \in Repo |-> {}]
          /\ branch = [r \in Repo |-> NoCommit]
          /\ track = [c \in Client |-> NoCommit]
       \/ /\ parents = << << >> >>
          /\ store = [r \in Repo |-> {1}]
          /\ branch = [r \in Repo |-> 1]
          /\ track = [c \in Client |-> 1]
    /\ act = [c \in Client |-> Idle]
    /\ hand = [h \in Handler |-> NoCall]
    /\ started = 0
    /\ rewritten = FALSE

ClientNext(c) ==
    \/ LocalCommit(c)
    \/ \E h \in Handler, f \in Forces : Push(c, h, f)
    \/ \E h \in Handler : Reply(c, h)
    \/ LoseReply(c)
    \/ ListRefs(c)
    \/ FetchPack(c)
    \/ \E x \in act[c].todo : Unpack(c, x)
    \/ UpdateTracking(c)
    \/ PullMerge(c)
    \/ ClientStops(c)

HandlerNext(h) ==
    \/ \E x \in hand[h].todo : Ingest(h, x)
    \/ AcquireRefs(h) \/ ReceiveFails(h) \/ Check(h) \/ WriteRef(h) \/ WriteFails(h)
    \/ Release(h) \/ Discard(h) \/ Crash(h)

Next == (\E c \in Client : ClientNext(c)) \/ (\E h \in Handler : HandlerNext(h))

Spec == Init /\ [][Next]_syncVars

----------------------------------------------------------------------------
(* Properties                                                              *)

CommitOrNone == 0..Len(parents)

TypeOK ==
    /\ lockFile \in [Lock -> Handler \cup {Free}]
    /\ \A c \in DOMAIN parents : \A i \in DOMAIN parents[c] : parents[c][i] \in 1..(c - 1)
    /\ store \in [Repo -> SUBSET DOMAIN parents]
    /\ branch \in [Repo -> CommitOrNone]
    /\ track \in [Client -> CommitOrNone]
    /\ \A c \in Client :
          /\ act[c].op \in {"idle", "push", "list", "unpack", "merge"}
          /\ act[c].h \in Handler \cup {Free}
          /\ act[c].target \in CommitOrNone
          /\ act[c].todo \subseteq DOMAIN parents
    /\ \A h \in Handler :
          /\ hand[h].pc \in {"idle", "ingest", "check", "write", "release", "reply", "dead"}
          /\ hand[h].old \in CommitOrNone /\ hand[h].new \in CommitOrNone
          /\ hand[h].todo \subseteq DOMAIN parents
          /\ hand[h].result \in {"none", "ok", "refused"}
    /\ started \in 0..MaxRemote
    /\ rewritten \in BOOLEAN

\* No reference ever names a commit whose history its repository does not have in full,
\* through partial ingests, lost replies, races and crashes: ReceivePack only looks for New
\* itself, and a pack leaves out what the sender believes the receiver has.
RefsClosed ==
    /\ \A r \in Repo : Reach(parents, branch[r]) \subseteq store[r]
    /\ \A c \in Client : Reach(parents, track[c]) \subseteq store[c]

\* Until a forced push rewrites the hub's branch, what a client was told of it (an accepted
\* push, an advertised tip) stays in it: no push is lost, and none is reported that was not made.
TrackingKept ==
    ~rewritten => \A c \in Client : Reach(parents, track[c]) \subseteq Reach(parents, branch[Hub])

NoRequest == [status |-> "none"]

\* The call of slot h as RemoteBranch sees it.
RequestOf(h) ==
    IF hand[h].pc \in {"idle", "dead"} THEN NoRequest
    ELSE [old |-> hand[h].old, new |-> hand[h].new, force |-> hand[h].force,
          status |-> IF hand[h].result = "none" THEN "open"
                     ELSE IF hand[h].result = "ok" THEN "moved" ELSE "refused"]

Remote == INSTANCE RemoteBranch WITH
              tip <- branch[Hub], request <- [h \in Handler |-> RequestOf(h)]

\* The calls of ReceivePack, with their check and their write apart, act on the branch as
\* single compare-and-swap steps that only go forward unless forced.
CompareAndSwap == Remote!Spec
==============================================================================
