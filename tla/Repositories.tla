---------------------------- MODULE Repositories ----------------------------
(***************************************************************************)
(* The repositories of a server: the manager that creates, deletes and     *)
(* renames them, the policy store that says who may do what, and the       *)
(* requests that pass both.  A repository is three things on disk: its     *)
(* content and its policy, under its name, and its record, under its id.   *)
(*                                                                         *)
(* The manager works under one mutex, so one operation runs at a time; its *)
(* plan is the sequence of the steps left to it.  Step makes the first of  *)
(* them, Fail is an error of it, Crash the death of the server.  The       *)
(* policy store has a mutex of its own: requests read policies between the *)
(* steps of an operation.                                                  *)
(***************************************************************************)
EXTENDS Integers, Sequences, FiniteSets

CONSTANTS
    Name, Subject, Request,
    ownerCaps, Edits,          \* what an owner is granted; what the operator may grant
    Updates,                   \* the update lists a push may bring: sequences of shapes
    MaxRepos, MaxOps, MaxLookups, MaxEdits, MaxFaults   \* bounds

Id == 1..MaxRepos
Nobody == 0                    \* no repository
Scrap == MaxRepos + 1          \* a directory a failed Init or RemoveAll left half done

ASSUME RepositoriesAssumption ==
    /\ IsFiniteSet(Name)
    /\ \A g \in Edits : DOMAIN g = Subject
    /\ {MaxRepos, MaxOps, MaxLookups, MaxEdits, MaxFaults} \subseteq Nat

\* ValidName refuses the empty name.
ASSUME NameAssumption == "" \notin Name

VARIABLES
    content, policy, meta,     \* on disk: directory and policy of a name, record of an id
    byName, known, loaded,     \* the index in memory, once it is loaded
    plan,                      \* the steps left to the running operation
    cache,                     \* the parsed policies
    request,                   \* what each request is doing
    created, stamp,            \* the ids and the modification times given out
    deleted, residue, torn,    \* history: ids whose Delete succeeded; names where a step of an
                               \* operation is missing; names cached with an older time
    ops, lookups, edits, faults

disk == <<content, policy, meta>>
memory == <<byName, known, loaded>>
given == <<created, stamp>>
ghosts == <<deleted, residue, torn>>
bounds == <<ops, lookups, edits, faults>>
vars == <<disk, memory, plan, cache, request, given, ghosts, bounds>>

----------------------------------------------------------------------------
(* Records, policies, capabilities                                         *)

NoRecord == [name |-> "", state |-> "none"]
live(s) == s \in {"active", "archived"}

NoPolicy == [of |-> Nobody, stamp |-> 0, ok |-> FALSE, grants |-> << >>]
NoEntry == [policy |-> NoPolicy, stamp |-> 0]
DenyAll == [u \in Subject |-> {}]
Allows(grants, u, cap) == u \in DOMAIN grants /\ cap \in grants[u]

RequiredForUpdate(u) ==
    CASE u.newZero -> "delete-ref"
      [] ~u.newZero /\ u.oldZero -> "create-ref"
      [] ~u.newZero /\ ~u.oldZero /\ u.force -> "force-push"
      [] OTHER -> "push"

\* The capabilities a request is checked for, one lookup each.  "read" is handleListRefs
\* or handleFetch.
Needs(want) ==
    CASE want.kind = "read" -> <<"read">>
      [] want.kind = "receive" -> [i \in DOMAIN want.updates |-> RequiredForUpdate(want.updates[i])]
      [] want.kind = "get" -> <<"admin", "read">>
      [] want.kind = "delete" -> <<"delete-repo">>
      [] want.kind = "rename" -> <<"rename-repo">>

----------------------------------------------------------------------------
(* The steps of a plan.  The error of a soft step is ignored; after the    *)
(* error of any other the plan goes on with its fail.                      *)

writeMeta(id, n, s, fail) ==
    [op |-> "writeMeta", id |-> id, to |-> [name |-> n, state |-> s], soft |-> FALSE, fail |-> fail]
removeMeta(id, n) == [op |-> "removeMeta", id |-> id, name |-> n, soft |-> TRUE]
InitContent(n, id, fail) == [op |-> "init", name |-> n, id |-> id, soft |-> FALSE, fail |-> fail]
RemoveAll(n) == [op |-> "removeAll", name |-> n, soft |-> TRUE]
WritePolicy(n, id, u, fail) ==
    [op |-> "writePolicy", name |-> n, id |-> id, owner |-> u, soft |-> FALSE, fail |-> fail]
RemovePolicy(n) == [op |-> "removePolicy", name |-> n, soft |-> TRUE]
MoveContent(n, m, soft) == [op |-> "moveContent", name |-> n, to |-> m, soft |-> soft, fail |-> << >>]
MovePolicy(n, m, fail) == [op |-> "movePolicy", name |-> n, to |-> m, soft |-> FALSE, fail |-> fail]
\* Changes of the index in memory, which cannot fail.
Remember(id, n, s) == [op |-> "remember", id |-> id, to |-> [name |-> n, state |-> s]]
Forget(id, n) == [op |-> "forget", id |-> id, name |-> n]
Unname(n) == [op |-> "unname", name |-> n]
Return(id) == [op |-> "return", id |-> id]

purge(id, n) == <<RemoveAll(n), RemovePolicy(n), removeMeta(id, n), Forget(id, n)>>

rollback(id, n, hasContent, hasPolicy) ==
    (IF hasPolicy THEN <<RemovePolicy(n)>> ELSE << >>)
    \o (IF hasContent THEN <<RemoveAll(n)>> ELSE << >>)
    \o <<removeMeta(id, n), Forget(id, n)>>

----------------------------------------------------------------------------
(* The manager                                                             *)

Idle == plan = << >>

\* The index load finds: the one in memory, or the records of the disk, of which any may
\* be the last that bears a name.
load ==
    LET Bearing(n) == {i \in Id : meta[i].state # "none" /\ meta[i].name = n}
    IN  IF loaded THEN {byName}
        ELSE {f \in [Name -> Id \cup {Nobody}] :
                 \A n \in Name : IF Bearing(n) = {} THEN f[n] = Nobody ELSE f[n] \in Bearing(n)}
records == IF loaded THEN known ELSE meta

Loads(f) == byName' = f /\ known' = records /\ loaded' = TRUE

\* What the index f says of a name.
StateOf(f, n) == IF f[n] = Nobody THEN "none" ELSE records[f[n]].state
Reclaim(f, n) == IF StateOf(f, n) = "none" THEN << >> ELSE purge(f[n], n)

\* Mutant: the leftovers of a tombstone are not removed.
CreatePlanNoPurge(f, n, id, u) ==
    <<writeMeta(id, n, "creating", << >>), Remember(id, n, "creating"),
      InitContent(n, id, rollback(id, n, FALSE, FALSE)),
      WritePolicy(n, id, u, rollback(id, n, TRUE, FALSE)), Remember(id, n, "active"),
      writeMeta(id, n, "active", rollback(id, n, TRUE, TRUE)), Return(id)>>

CreatePlan(f, n, id, u) ==
    Reclaim(f, n)
    \o <<writeMeta(id, n, "creating", << >>), Remember(id, n, "creating"),
         InitContent(n, id, rollback(id, n, FALSE, FALSE)),
         WritePolicy(n, id, u, rollback(id, n, TRUE, FALSE)), Remember(id, n, "active"),
         writeMeta(id, n, "active", rollback(id, n, TRUE, TRUE)), Return(id)>>

\* Mutant: no tombstone is written before the removal.
DeletePlanNoTombstone(n, id) == purge(id, n) \o <<Return(id)>>

\* The index knows of the deletion even when the tombstone cannot be written.
DeletePlan(n, id) ==
    <<Remember(id, n, "deleting"), writeMeta(id, n, "deleting", << >>)>> \o purge(id, n) \o <<Return(id)>>

\* Mutant: the old name stays in the index.
RenamePlanKeepsName(f, n, m, id) ==
    IF n = m THEN <<Return(id)>>
    ELSE Reclaim(f, m)
         \o <<MoveContent(n, m, FALSE), MovePolicy(n, m, <<MoveContent(m, n, TRUE)>>),
              Remember(id, m, records[id].state), writeMeta(id, m, records[id].state, << >>), Return(id)>>

\* A policy that cannot be moved takes the content back; a record that cannot be written
\* does not.
RenamePlan(f, n, m, id) ==
    IF n = m THEN <<Return(id)>>
    ELSE Reclaim(f, m)
         \o <<MoveContent(n, m, FALSE), MovePolicy(n, m, <<MoveContent(m, n, TRUE)>>),
              Unname(n), Remember(id, m, records[id].state),
              writeMeta(id, m, records[id].state, << >>), Return(id)>>

Starts(f, p) ==
    /\ Loads(f)
    /\ plan' = p
    /\ ops' = ops + 1

----------------------------------------------------------------------------
(* Requests: one policy lookup for each capability, then the manager       *)

NoRequest == [at |-> "none"]
Done(r) == request' = [request EXCEPT ![r] = NoRequest]
\* The request whose operation the manager runs is answered.
Answered == request' = [r \in Request |-> IF request[r].at = "managing" THEN NoRequest ELSE request[r]]

\* handleCreateRepo: the server's own policy, which no operation changes, lets everyone
\* create.
Create(r, n, u) ==
    /\ request[r].at = "none"
    /\ Idle /\ ops < MaxOps /\ created < MaxRepos
    /\ \E f \in load :
          \/ /\ live(StateOf(f, n))
             /\ Loads(f)
             /\ UNCHANGED <<plan, request, created, ops>>
          \/ /\ ~live(StateOf(f, n))
             /\ created' = created + 1
             /\ Starts(f, CreatePlan(f, n, created + 1, u))
             /\ request' = [request EXCEPT ![r] = [at |-> "managing"]]
    /\ UNCHANGED <<disk, cache, stamp, ghosts, lookups, edits, faults>>

\* The lookup is over: what the request does next.  get is content with either capability,
\* the others need them all.
Decided(q, grants) ==
    LET allowed == Allows(grants, q.user, Head(q.need))
        any == q.want.kind = "get"
        over == Tail(q.need) = << >> \/ allowed = any
    IN  IF ~over THEN [at |-> "stat", name |-> q.name, user |-> q.user, want |-> q.want, need |-> Tail(q.need)]
        ELSE IF allowed THEN [at |-> "authorized", name |-> q.name, want |-> q.want]
        ELSE NoRequest

\* PolicyFor looks at the file before it takes the mutex of the store.
Asking(q) ==
    LET file == policy[q.name]
    IN  IF file = NoPolicy THEN Decided(q, DenyAll)
        ELSE [at |-> "lookup", name |-> q.name, user |-> q.user, want |-> q.want, need |-> q.need,
              stamp |-> file.stamp, seen |-> {file}]

\* begin, and the first lookup if there is one.
Arrive(r, n, u, want) ==
    /\ request[r].at = "none"
    /\ lookups < MaxLookups
    /\ lookups' = lookups + 1
    /\ request' = [request EXCEPT ![r] =
                      IF Needs(want) = << >> THEN [at |-> "authorized", name |-> n, want |-> want]
                      ELSE Asking([at |-> "stat", name |-> n, user |-> u, want |-> want, need |-> Needs(want)])]
    /\ UNCHANGED <<disk, memory, plan, cache, given, ghosts, ops, edits, faults>>

\* The lookup of a further capability.
Stat(r) ==
    /\ request[r].at = "stat"
    /\ request' = [request EXCEPT ![r] = Asking(@)]
    /\ UNCHANGED <<disk, memory, plan, cache, given, ghosts, bounds>>

\* What the lookup finds for a file with the given time: the parsed policy, whether the
\* file was read, and whether reading it failed.
\* Mutant: a policy once parsed is never read again.
FoundCachedForEver(n, time) ==
    IF cache[n] # NoEntry THEN [policy |-> cache[n].policy, store |-> FALSE, bad |-> FALSE]
    ELSE [policy |-> policy[n], store |-> policy[n].ok, bad |-> ~policy[n].ok]

Found(n, time) ==
    IF cache[n] # NoEntry /\ cache[n].stamp = time
    THEN [policy |-> cache[n].policy, store |-> FALSE, bad |-> FALSE]
    ELSE IF policy[n].ok THEN [policy |-> policy[n], store |-> TRUE, bad |-> FALSE]
    ELSE [policy |-> cache[n].policy, store |-> FALSE, bad |-> TRUE]

Lookup(r) ==
    LET q == request[r]
        found == Found(q.name, q.stamp)
    IN  /\ q.at = "lookup"
        /\ cache' = IF found.store THEN [cache EXCEPT ![q.name] = [policy |-> found.policy, stamp |-> q.stamp]]
                    ELSE cache
        /\ torn' = IF ~found.store THEN torn
                   ELSE IF found.policy.stamp = q.stamp THEN torn \ {q.name} ELSE torn \cup {q.name}
        /\ request' = [request EXCEPT ![r] =
                          [at |-> "found", name |-> q.name, user |-> q.user, want |-> q.want, need |-> q.need,
                           seen |-> q.seen, policy |-> found.policy,
                           sure |-> found.store \/ (~found.bad /\ q.name \notin torn)]]
        /\ UNCHANGED <<disk, memory, plan, given, deleted, residue, bounds>>

Authorize(r) ==
    /\ request[r].at = "found"
    /\ request' = [request EXCEPT ![r] = Decided(@, @.policy.grants)]
    /\ UNCHANGED <<disk, memory, plan, cache, given, ghosts, bounds>>

\* openRepo: the index is asked first, the directory opened after.
Servable(r) ==
    /\ request[r].at = "authorized" /\ request[r].want.kind \in {"read", "receive"}
    /\ Idle
    /\ \E f \in load :
          /\ Loads(f)
          /\ request' = [request EXCEPT ![r] =
                            IF StateOf(f, @.name) = "active" THEN [@ EXCEPT !.at = "open"] ELSE NoRequest]
    /\ UNCHANGED <<disk, plan, cache, given, ghosts, bounds>>

\* The transfer itself is the subject of module Sync.
Open(r) ==
    /\ request[r].at = "open"
    /\ Done(r)
    /\ UNCHANGED <<disk, memory, plan, cache, given, ghosts, bounds>>

\* handleGetRepo, and List, change nothing but the index they load.
Get(r) ==
    /\ request[r].at = "authorized" /\ request[r].want.kind = "get"
    /\ Idle
    /\ \E f \in load : Loads(f)
    /\ Done(r)
    /\ UNCHANGED <<disk, plan, cache, given, ghosts, bounds>>

Delete(r) ==
    LET n == request[r].name
    IN  /\ request[r].at = "authorized" /\ request[r].want.kind = "delete"
        /\ Idle /\ ops < MaxOps
        /\ \E f \in load :
              \/ /\ ~live(StateOf(f, n))
                 /\ Loads(f) /\ Done(r)
                 /\ UNCHANGED <<plan, ops>>
              \/ /\ live(StateOf(f, n))
                 /\ Starts(f, DeletePlan(n, f[n]))
                 /\ request' = [request EXCEPT ![r] = [at |-> "managing"]]
        /\ UNCHANGED <<disk, cache, given, ghosts, lookups, edits, faults>>

Rename(r) ==
    LET n == request[r].name
        m == request[r].want.to
    IN  /\ request[r].at = "authorized" /\ request[r].want.kind = "rename"
        /\ Idle /\ ops < MaxOps
        /\ \E f \in load :
              \/ /\ ~live(StateOf(f, n)) \/ (n # m /\ live(StateOf(f, m)))
                 /\ Loads(f) /\ Done(r)
                 /\ UNCHANGED <<plan, ops>>
              \/ /\ live(StateOf(f, n)) /\ (n = m \/ ~live(StateOf(f, m)))
                 /\ Starts(f, RenamePlan(f, n, m, f[n]))
                 /\ request' = [request EXCEPT ![r] = [at |-> "managing"]]
        /\ UNCHANGED <<disk, cache, given, ghosts, lookups, edits, faults>>

----------------------------------------------------------------------------
(* Steps, errors, crashes                                                  *)

\* Requests between Stat and Authorize remember what the file held meanwhile.
Witnessed(files) ==
    [r \in Request |-> IF request[r].at = "lookup"
                       THEN [request[r] EXCEPT !.seen = @ \cup {files[request[r].name]}] ELSE request[r]]

Rest == Tail(plan)

StepMemory ==
    LET w == Head(plan)
    IN  /\ w.op \in {"remember", "forget", "unname"}
        /\ \/ /\ w.op = "remember"
              /\ byName' = [byName EXCEPT ![w.to.name] = w.id]
              /\ known' = [known EXCEPT ![w.id] = w.to]
           \/ /\ w.op = "forget"
              /\ byName' = [byName EXCEPT ![w.name] = Nobody]
              /\ known' = [known EXCEPT ![w.id] = NoRecord]
           \/ /\ w.op = "unname"
              /\ byName' = [byName EXCEPT ![w.name] = Nobody]
              /\ UNCHANGED known
        /\ plan' = Rest
        /\ UNCHANGED <<disk, loaded, cache, request, given, ghosts, bounds>>

StepMeta ==
    LET w == Head(plan)
    IN  /\ \/ /\ w.op = "writeMeta"
              /\ meta' = [meta EXCEPT ![w.id] = w.to]
           \/ /\ w.op = "removeMeta"
              /\ meta' = [meta EXCEPT ![w.id] = NoRecord]
        /\ plan' = Rest
        /\ UNCHANGED <<content, policy, memory, cache, request, given, ghosts, bounds>>

\* What stops a move: a directory in the way, or nothing to move.
Blocked(w) ==
    \/ w.op = "moveContent" /\ (content[w.name] = Nobody \/ content[w.to] # Nobody)
    \/ w.op = "movePolicy" /\ policy[w.name] = NoPolicy

\* Init keeps what it finds: only over nothing, or over scrap, does it make a new repository.
StepContent ==
    LET w == Head(plan)
    IN  /\ ~Blocked(w)
        /\ \/ /\ w.op = "init"
              /\ content' = [content EXCEPT ![w.name] = IF @ \in {Nobody, Scrap} THEN w.id ELSE @]
           \/ /\ w.op = "removeAll"
              /\ content' = [content EXCEPT ![w.name] = Nobody]
           \/ /\ w.op = "moveContent"
              /\ content' = [content EXCEPT ![w.to] = content[w.name], ![w.name] = Nobody]
        /\ residue' = IF w.op = "moveContent" /\ w.name \in residue THEN residue \cup {w.to} ELSE residue
        /\ plan' = Rest
        /\ UNCHANGED <<policy, meta, memory, cache, request, given, deleted, torn, bounds>>

\* Every write of a policy has a modification time of its own; a move keeps it.
StepPolicy ==
    LET w == Head(plan)
    IN  /\ ~Blocked(w)
        /\ \/ /\ w.op = "writePolicy"
              /\ policy' = [policy EXCEPT ![w.name] =
                               [of |-> w.id, stamp |-> stamp + 1, ok |-> TRUE,
                                grants |-> [u \in Subject |-> IF u = w.owner THEN ownerCaps ELSE {}]]]
              /\ stamp' = stamp + 1
           \/ /\ w.op = "removePolicy"
              /\ policy' = [policy EXCEPT ![w.name] = NoPolicy]
              /\ UNCHANGED stamp
           \/ /\ w.op = "movePolicy"
              /\ policy' = [policy EXCEPT ![w.to] = policy[w.name], ![w.name] = NoPolicy]
              /\ UNCHANGED stamp
        /\ request' = Witnessed(policy')
        /\ plan' = Rest
        /\ UNCHANGED <<content, meta, memory, cache, created, ghosts, bounds>>

\* The operation returns without an error.
StepReturn ==
    LET w == Head(plan)
    IN  /\ w.op = "return"
        /\ deleted' = IF known[w.id].state = "none" THEN deleted \cup {w.id} ELSE deleted
        /\ Answered
        /\ plan' = << >>
        /\ UNCHANGED <<disk, memory, cache, given, residue, torn, bounds>>

Step ==
    /\ plan # << >>
    /\ StepMemory \/ StepMeta \/ StepContent \/ StepPolicy \/ StepReturn

\* The names an operation leaves in pieces when the step w does not happen: a removal that
\* is given up, a move that is not taken back, a record that stays behind a move, a tombstone
\* the index has and the disk has not.
Left(w) ==
    CASE w.op \in {"removeAll", "removePolicy", "removeMeta"} -> {w.name}
      [] w.op = "moveContent" /\ w.soft -> {w.name, w.to}
      [] w.op = "writeMeta" ->
            IF meta[w.id].name \notin {"", w.to.name} THEN {meta[w.id].name, w.to.name}
            ELSE IF w.to.state = "deleting" THEN {w.to.name} ELSE {}
      [] OTHER -> {}

\* What a step that fails half way makes of the directories.
Halves(w) ==
    IF (w.op = "init" /\ content[w.name] = Nobody) \/ (w.op = "removeAll" /\ content[w.name] # Nobody)
    THEN {content, [content EXCEPT ![w.name] = Scrap]} ELSE {content}

\* A step fails because it must, or because the disk does; the caller hears of it when it is
\* not soft.
Fail ==
    LET w == Head(plan)
    IN  /\ plan # << >>
        /\ w.op \notin {"remember", "forget", "unname", "return"}
        /\ \/ Blocked(w) /\ UNCHANGED <<content, faults>>
           \/ /\ ~Blocked(w) /\ faults < MaxFaults
              /\ faults' = faults + 1
              /\ content' \in Halves(w)
        /\ residue' = residue \cup Left(w)
        /\ plan' = IF w.soft THEN Rest ELSE w.fail
        /\ IF plan' = << >> THEN Answered ELSE UNCHANGED request
        /\ UNCHANGED <<policy, meta, memory, cache, given, deleted, torn, ops, lookups, edits>>

\* The names of a rename that has moved something and is not over.
Moving ==
    LET behind == {i \in DOMAIN plan : plan[i].op = "writeMeta"}
    IN  IF Idle THEN {}
        ELSE IF Head(plan).op = "movePolicy" \/ (Head(plan).op = "moveContent" /\ Head(plan).soft)
        THEN {Head(plan).name, Head(plan).to}
        ELSE IF \E i \in DOMAIN plan : plan[i].op = "moveContent" THEN {}
        ELSE UNION {Left(plan[i]) : i \in {j \in behind : plan[j].to.state # "deleting"}}

Crash ==
    /\ faults < MaxFaults
    /\ faults' = faults + 1
    /\ content' \in IF Idle THEN {content} ELSE Halves(Head(plan))
    /\ residue' = residue \cup Moving
    /\ plan' = << >>
    /\ loaded' = FALSE
    /\ byName' = [n \in Name |-> Nobody]
    /\ known' = [i \in Id |-> NoRecord]
    /\ cache' = [n \in Name |-> NoEntry]
    /\ torn' = {}
    /\ request' = [r \in Request |-> NoRequest]
    /\ UNCHANGED <<policy, meta, given, deleted, ops, lookups, edits>>

\* The operator rewrites the policy of a repository, or breaks it.
Edit(n, g, ok) ==
    /\ edits < MaxEdits
    /\ policy[n] # NoPolicy
    /\ edits' = edits + 1
    /\ stamp' = stamp + 1
    /\ policy' = [policy EXCEPT ![n] = [of |-> @.of, stamp |-> stamp + 1, ok |-> ok, grants |-> g]]
    /\ request' = Witnessed(policy')
    /\ UNCHANGED <<content, meta, memory, plan, cache, created, ghosts, ops, lookups, faults>>

Want ==
    {[kind |-> k] : k \in {"read", "get", "delete"}}
    \cup {[kind |-> "receive", updates |-> u] : u \in Updates}
    \cup {[kind |-> "rename", to |-> n] : n \in Name}

----------------------------------------------------------------------------

Init ==
    /\ content = [n \in Name |-> Nobody]
    /\ policy = [n \in Name |-> NoPolicy]
    /\ meta = [i \in Id |-> NoRecord]
    /\ byName = [n \in Name |-> Nobody] /\ known = meta /\ loaded = FALSE
    /\ plan = << >>
    /\ cache = [n \in Name |-> NoEntry]
    /\ request = [r \in Request |-> NoRequest]
    /\ created = 0 /\ stamp = 0
    /\ deleted = {} /\ residue = {} /\ torn = {}
    /\ ops = 0 /\ lookups = 0 /\ edits = 0 /\ faults = 0

Next ==
    \/ \E r \in Request :
          \/ \E n \in Name, u \in Subject : Create(r, n, u)
          \/ \E n \in Name, u \in Subject, want \in Want : Arrive(r, n, u, want)
          \/ Stat(r) \/ Lookup(r) \/ Authorize(r)
          \/ Servable(r) \/ Open(r) \/ Get(r) \/ Delete(r) \/ Rename(r)
    \/ Step
    \/ Fail
    \/ Crash
    \/ \E n \in Name, g \in Edits, ok \in BOOLEAN : Edit(n, g, ok)

Spec == Init /\ [][Next]_vars

----------------------------------------------------------------------------
(* Properties                                                              *)

\* Every variable has its type, and the two maps of the index agree: what a name leads to
\* is known by that name (Manager.byName, Manager.byID).
TypeOK ==
    /\ content \in [Name -> Id \cup {Nobody, Scrap}]
    /\ \A n \in Name : policy[n] = NoPolicy \/ (policy[n].of \in Id /\ policy[n].stamp \in 1..stamp)
    /\ \A i \in Id : meta[i].state \in {"none", "creating", "active", "deleting"}
    /\ \A n \in Name : byName[n] # Nobody => known[byName[n]].name = n \/ ~Idle
    /\ deleted \subseteq Id /\ residue \subseteq Name /\ torn \subseteq Name
    /\ \A n \in Name : cache[n].stamp \in 0..stamp

\* Between operations a repository is whole or it is not there, whatever failed or crashed
\* before: a record that is live names the directory and the policy of that repository, and
\* no directory or policy is without its record (Create, Delete and Rename, with rollback and
\* purge).  Names are left out where the code keeps no such promise: a removal failed
\* unnoticed, a rename was cut off after its first move, or a tombstone could not be written.
ServedWhole ==
    Idle => \A n \in Name \ residue :
        /\ \A i \in Id : (live(meta[i].state) /\ meta[i].name = n) => content[n] = i /\ policy[n].of = i
        /\ content[n] \in Id => meta[content[n]].name = n
        /\ policy[n] # NoPolicy => meta[policy[n].of].name = n
        /\ (loaded /\ byName[n] # Nobody /\ live(known[byName[n]].state)) => meta[byName[n]] = known[byName[n]]

\* A repository whose deletion was reported done is never live again, neither in the index
\* nor in a record a restart would read, even when the removals after the tombstone all
\* failed (Delete, purge).
DeletedStaysDeleted ==
    \A i \in deleted : ~live(meta[i].state) /\ ~live(known[i].state)

\* The policy a request is decided by was in the file at some moment since the request
\* looked at it: neither a cached policy nor one of an earlier repository of that name
\* (PolicyFor).  Left out are the lookups PolicyFor itself answers with the last good
\* policy, and hits on an entry that pairs a policy with the time of another.
PolicyCurrent ==
    \A r \in Request : (request[r].at = "found" /\ request[r].sure) => request[r].policy \in request[r].seen
=============================================================================
