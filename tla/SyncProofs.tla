----------------------------- MODULE SyncProofs -----------------------------
(***************************************************************************)
(* Proofs about Sync, for any number of clients and of ReceivePack calls   *)
(* at once, any history and any number of pushes, fetches and pulls: no    *)
(* reference names a commit whose history its repository lacks, no push    *)
(* that was acknowledged is lost, and the calls act on the hub's branch as *)
(* single compare-and-swap steps.                                          *)
(***************************************************************************)
EXTENDS Sync, CommitGraphProofs

----------------------------------------------------------------------------
(* The inductive invariant                                                 *)

\* What a client and a call know of a graph with n commits.
Acts(n) ==
    [op : {"idle", "push", "list", "unpack", "merge"}, h : Handler \cup {Free},
     target : 0..n, todo : SUBSET (1..n)]

Calls(n) ==
    [pc : {"idle", "ingest", "check", "write", "release", "reply", "dead"}, old : 0..n, new : 0..n,
     force : BOOLEAN, todo : SUBSET (1..n), result : {"none", "ok", "refused"}]

\* The commits a client and a call know exist, and the graph is one.
TypeInv ==
    /\ lockFile \in [Lock -> Handler \cup {Free}]
    /\ IsGraph(parents)
    /\ store \in [Repo -> SUBSET (1..Len(parents))]
    /\ branch \in [Repo -> 0..Len(parents)]
    /\ track \in [Client -> 0..Len(parents)]
    /\ act \in [Client -> Acts(Len(parents))]
    /\ hand \in [Handler -> Calls(Len(parents))]
    /\ started \in 0..MaxRemote
    /\ rewritten \in BOOLEAN

\* A client that waits for an answer waits for a call of its own, with a commit it has in full.
Waiting ==
    /\ \A c \in Client : act[c].op = "push" =>
          /\ act[c].h \in Handler
          /\ hand[act[c].h].pc # "idle"
          /\ Reach(parents, hand[act[c].h].new) \subseteq store[c]
    /\ \A c, d \in Client : act[c].op = "push" /\ act[d].op = "push" /\ act[c].h = act[d].h => c = d

\* What a call or a fetch has still to write completes the history of its commit.
Completing ==
    /\ \A h \in Handler :
          /\ hand[h].pc = "ingest" => Reach(parents, hand[h].new) \subseteq store[Hub] \cup hand[h].todo
          /\ hand[h].pc \in {"check", "write"} => Reach(parents, hand[h].new) \subseteq store[Hub]
    /\ \A c \in Client :
          act[c].op = "unpack" => Reach(parents, act[c].target) \subseteq store[c] \cup act[c].todo

ClosedInv == RefsClosed /\ Waiting /\ Completing

\* What clients are about to record of the hub's branch is in it.
Promised ==
    /\ \A c \in Client : act[c].op \in {"list", "unpack"} =>
          Reach(parents, act[c].target) \subseteq Reach(parents, branch[Hub])
    /\ \A h \in Handler : hand[h].result = "ok" =>
          Reach(parents, hand[h].new) \subseteq Reach(parents, branch[Hub])

KeptInv == TrackingKept /\ (~rewritten => Promised)

\* From its check to its release a call has the refs lock; what it checked holds until it
\* writes, and it has no result before it is done.
Exclusive ==
    \A h \in Handler :
        /\ hand[h].pc \in {"check", "write", "release"} => lockFile["refs"] = h
        /\ hand[h].pc \in {"ingest", "check", "write"} => hand[h].result = "none" /\ hand[h].new # NoCommit
        /\ hand[h].pc = "write" =>
              /\ branch[Hub] = hand[h].old
              /\ hand[h].force \/ branch[Hub] = NoCommit \/ IsAncestor(parents, branch[Hub], hand[h].new)

----------------------------------------------------------------------------
(* Lists of references                                                     *)

\* The domain of a graph.
LEMMA GraphDomain ==
    ASSUME NEW G, IsGraph(G)
    PROVE  DOMAIN G = 1..Len(G) /\ Len(G) \in Nat
BY DEF IsGraph

\* Refs lists commits of the graph, and their history is that of the references.
LEMMA RefsListed ==
    ASSUME NEW G, IsGraph(G), NEW x \in 0..Len(G), NEW y \in 0..Len(G)
    PROVE  /\ Refs(x) \in Seq(DOMAIN G) /\ Had(G, Refs(x)) = Reach(G, x)
           /\ Refs(x) \o Refs(y) \in Seq(DOMAIN G)
           /\ Had(G, Refs(x) \o Refs(y)) = Reach(G, x) \cup Reach(G, y)
<1>0. DOMAIN G = 1..Len(G) /\ Len(G) \in Nat
  BY GraphDomain
<1>1. ASSUME NEW z \in 0..Len(G)
      PROVE  /\ Refs(z) \in Seq(DOMAIN G)
             /\ Had(G, Refs(z)) = Reach(G, z)
  <2>1. CASE z = NoCommit
    <3>1. Refs(z) = << >>
      BY <2>1 DEF Refs
    <3>2. Had(G, << >>) = {}
      BY DEF Had
    <3>3. << >> \in Seq(DOMAIN G) /\ Reach(G, z) = {}
      BY <2>1, ReachNone
    <3> QED BY <3>1, <3>2, <3>3
  <2>2. CASE z # NoCommit
    <3> DEFINE s == <<z>>
    <3>1. Refs(z) = s
      BY <2>2 DEF Refs
    <3>2. z \in DOMAIN G
      BY <1>0, <2>2 DEF NoCommit
    <3>3. s \in Seq(DOMAIN G) /\ DOMAIN s = {1} /\ s[1] = z
      BY <3>2
    <3> HIDE DEF s
    <3>4. Had(G, s) = Reach(G, z)
      BY <3>3 DEF Had
    <3> QED BY <3>1, <3>3, <3>4
  <2> QED BY <2>1, <2>2
<1>2. Refs(x) \in Seq(DOMAIN G) /\ Refs(y) \in Seq(DOMAIN G)
  BY <1>1
<1>3. ASSUME NEW s \in Seq(DOMAIN G), NEW t \in Seq(DOMAIN G)
      PROVE  s \o t \in Seq(DOMAIN G) /\ Had(G, s \o t) = Had(G, s) \cup Had(G, t)
  <2> DEFINE u == s \o t
  <2>1. /\ u \in Seq(DOMAIN G) /\ Len(u) = Len(s) + Len(t)
        /\ \A i \in 1..Len(u) : u[i] = IF i <= Len(s) THEN s[i] ELSE t[i - Len(s)]
    BY ConcatProperties
  <2>2. DOMAIN u = 1..Len(u) /\ DOMAIN s = 1..Len(s) /\ DOMAIN t = 1..Len(t) /\ Len(s) \in Nat /\ Len(t) \in Nat
    BY <2>1
  <2> HIDE DEF u
  <2>3. ASSUME NEW i \in DOMAIN u PROVE (\E j \in DOMAIN s : u[i] = s[j]) \/ (\E j \in DOMAIN t : u[i] = t[j])
    <3>1. CASE i <= Len(s)
      BY <2>1, <2>2, <3>1
    <3>2. CASE ~(i <= Len(s))
      <4>1. i - Len(s) \in DOMAIN t
        BY <2>1, <2>2, <3>2
      <4> QED BY <2>1, <2>2, <3>2, <4>1
    <3> QED BY <3>1, <3>2
  <2>4. ASSUME NEW j \in DOMAIN s PROVE \E i \in DOMAIN u : u[i] = s[j]
    <3>1. j \in DOMAIN u /\ u[j] = s[j]
      BY <2>1, <2>2
    <3> QED BY <3>1
  <2>5. ASSUME NEW j \in DOMAIN t PROVE \E i \in DOMAIN u : u[i] = t[j]
    <3>1. j + Len(s) \in DOMAIN u /\ ~(j + Len(s) <= Len(s)) /\ (j + Len(s)) - Len(s) = j
      BY <2>1, <2>2
    <3>2. u[j + Len(s)] = t[j]
      BY <2>1, <2>2, <3>1
    <3> QED BY <3>1, <3>2
  <2>6. Had(G, u) \subseteq Had(G, s) \cup Had(G, t)
    BY <2>3 DEF Had
  <2>7. Had(G, s) \subseteq Had(G, u)
    BY <2>4 DEF Had
  <2>8. Had(G, t) \subseteq Had(G, u)
    BY <2>5 DEF Had
  <2> QED BY <2>1, <2>6, <2>7, <2>8 DEF u
<1>4. Had(G, Refs(x)) = Reach(G, x) /\ Had(G, Refs(y)) = Reach(G, y)
  BY <1>1
<1> QED BY <1>2, <1>3, <1>4

\* The pack for one want: commits of the sender, which complete what the references listed reach.
LEMMA PackFor ==
    ASSUME NEW G, IsGraph(G), NEW S \in SUBSET (1..Len(G)), NEW w \in 0..Len(G),
           NEW haves \in Seq(DOMAIN G), NEW b, b = SendCommits(G, S, <<w>>, haves), ~b.failed
    PROVE  /\ b.commits \subseteq 1..Len(G)
           /\ Reach(G, w) \subseteq b.commits \cup Had(G, haves)
<1> DEFINE ws == <<w>>
<1>1. ws \in Seq(0..Len(G)) /\ 1 \in DOMAIN ws /\ ws[1] = w /\ S \in SUBSET DOMAIN G
  BY GraphDomain
<1> HIDE DEF ws
<1>2. b = SendCommits(G, S, ws, haves)
  BY DEF ws
<1>3. b.commits \subseteq S
  BY <1>1, <1>2, SendIsReadable
<1>4. Reach(G, ws[1]) \subseteq b.commits \cup Had(G, haves)
  BY <1>1, <1>2, SendCompletes
<1> QED BY <1>1, <1>3, <1>4

----------------------------------------------------------------------------
(* Types                                                                   *)

\* What is known of a graph stays known as it grows.
LEMMA TypesGrow ==
    ASSUME NEW n \in Nat, NEW m \in Nat, n <= m
    PROVE  /\ Acts(n) \subseteq Acts(m) /\ Calls(n) \subseteq Calls(m)
           /\ 0..n \subseteq 0..m /\ 1..n \subseteq 1..m
<1>1. 0..n \subseteq 0..m /\ 1..n \subseteq 1..m
  OBVIOUS
<1> QED BY <1>1 DEF Acts, Calls

\* A commit in repository c: the graph grows, the ancestors of what was there stay, and c has
\* the new commit.
LEMMA CommitGrows ==
    ASSUME TypeInv, NEW c \in Client, NEW ps \in Seq(1..Len(parents)), CommitHere(c, ps)
    PROVE  /\ IsGraph(parents')
           /\ Len(parents') = Len(parents) + 1
           /\ store' \in [Repo -> SUBSET (1..Len(parents'))]
           /\ branch' \in [Repo -> 0..Len(parents')]
           /\ track \in [Client -> 0..Len(parents')]
           /\ act \in [Client -> Acts(Len(parents'))]
           /\ hand \in [Handler -> Calls(Len(parents'))]
           /\ \A r \in Repo : store[r] \subseteq store'[r]
           /\ Len(parents') \in store'[c]
           /\ branch'[c] = Len(parents')
           /\ \A r \in Repo : r # c => branch'[r] = branch[r] /\ store'[r] = store[r]
           /\ \A x \in 0..Len(parents) : Reach(parents', x) = Reach(parents, x)
           /\ Reach(parents', Len(parents')) =
                  {Len(parents')} \cup UNION {Reach(parents, ps[i]) : i \in DOMAIN ps}
<1> DEFINE n == Len(parents)
<1>0. /\ n \in Nat /\ IsGraph(parents) /\ c \in Repo
      /\ store \in [Repo -> SUBSET (1..n)] /\ branch \in [Repo -> 0..n]
  BY GraphDomain DEF TypeInv, Repo
<1>1. /\ IsGraph(parents')
      /\ \A x \in 0..n : Reach(parents', x) = Reach(parents, x)
      /\ Reach(parents', n + 1) = {n + 1} \cup UNION {Reach(parents, ps[i]) : i \in DOMAIN ps}
  BY <1>0, ReachGrows DEF CommitHere
<1>2. Len(parents') = n + 1
  <2>1. parents \in Seq(Seq(Nat)) /\ ps \in Seq(Nat)
    BY <1>0 DEF IsGraph
  <2> QED BY <2>1, AppendProperties DEF CommitHere
<1>3. /\ store' = [store EXCEPT ![c] = @ \cup {n + 1}]
      /\ branch' = [branch EXCEPT ![c] = n + 1]
  BY DEF CommitHere
<1>4. /\ Acts(n) \subseteq Acts(n + 1) /\ Calls(n) \subseteq Calls(n + 1)
      /\ 0..n \subseteq 0..(n + 1) /\ 1..n \subseteq 1..(n + 1) /\ n + 1 \in 1..(n + 1) /\ n + 1 \in 0..(n + 1)
  BY <1>0, TypesGrow
<1>5. track \in [Client -> 0..n] /\ act \in [Client -> Acts(n)] /\ hand \in [Handler -> Calls(n)]
  BY DEF TypeInv
<1> HIDE DEF n
<1>6. track \in [Client -> 0..(n + 1)] /\ act \in [Client -> Acts(n + 1)] /\ hand \in [Handler -> Calls(n + 1)]
  BY <1>4, <1>5
<1>7. store' \in [Repo -> SUBSET (1..(n + 1))] /\ branch' \in [Repo -> 0..(n + 1)]
  BY <1>0, <1>3, <1>4
<1>8. /\ \A r \in Repo : store[r] \subseteq store'[r]
      /\ n + 1 \in store'[c] /\ branch'[c] = n + 1
      /\ \A r \in Repo : r # c => branch'[r] = branch[r] /\ store'[r] = store[r]
  BY <1>0, <1>3
<1> QED BY <1>1, <1>2, <1>6, <1>7, <1>8 DEF n

\* What a pull does to the graph and the references: it takes their commit, or makes one of
\* both.
LEMMA PullGrows ==
    ASSUME TypeInv, NEW c \in Client, PullMerge(c)
    PROVE  /\ \A x \in 0..Len(parents) : Reach(parents', x) = Reach(parents, x)
           /\ branch'[Hub] = branch[Hub]
           /\ \/ UNCHANGED parents
              \/ \E a, b \in DOMAIN parents : parents' = Append(parents, <<a, b>>)
<1> DEFINE n == Len(parents)
           our == branch[c]
           their == track[c]
           base == MergeBase(parents, store[c], our, their)
<1>a. Hub \in Repo /\ c \in Repo /\ c # Hub
  BY HubAssumption DEF Repo
<1>b. /\ IsGraph(parents) /\ n \in Nat /\ DOMAIN parents = 1..n
      /\ branch \in [Repo -> 0..n] /\ our \in 0..n /\ their \in 0..n /\ store[c] \subseteq 1..n
  BY <1>a, GraphDomain DEF TypeInv
<1>1. CASE branch' = [branch EXCEPT ![c] = their] /\ UNCHANGED <<parents, store>>
  BY <1>1, <1>a, <1>b
<1>2. CASE our # NoCommit /\ base \notin {our, NoCommit} /\ CommitHere(c, <<our, their>>)
  <2> DEFINE ps == <<our, their>>
  <2>1. their # NoCommit
    <3>1. base \in Reach(parents, their)
      BY <1>b, <1>2, MergeBaseIsCommon
    <3> QED BY <3>1, ReachNone
  <2>2. our \in 1..n /\ their \in 1..n
    BY <1>b, <1>2, <2>1 DEF NoCommit
  <2>3. ps \in Seq(1..n) /\ CommitHere(c, ps) /\ parents' = Append(parents, <<our, their>>)
    BY <1>2, <2>2 DEF CommitHere
  <2> HIDE DEF ps
  <2>4. (\A r \in Repo : r # c => branch'[r] = branch[r]) /\ \A x \in 0..n : Reach(parents', x) = Reach(parents, x)
    BY <2>3, CommitGrows
  <2> QED BY <1>a, <1>b, <2>2, <2>3, <2>4
<1> QED BY <1>1, <1>2 DEF PullMerge

\* The initial states.
LEMMA TypeInit == Init => TypeInv
<1> SUFFICES ASSUME Init PROVE TypeInv
  OBVIOUS
<1>1. lockFile \in [Lock -> Handler \cup {Free}] /\ started \in 0..MaxRemote /\ rewritten \in BOOLEAN
  <2>1. lockFile \in [Lock -> Handler \cup {Free}]
    BY DEF Init, LockInit
  <2>2. started \in 0..MaxRemote
    BY BoundAssumption DEF Init
  <2>3. rewritten \in BOOLEAN
    BY DEF Init
  <2> QED BY <2>1, <2>2, <2>3
<1>2. act = [c \in Client |-> Idle] /\ hand = [h \in Handler |-> NoCall]
  BY DEF Init
<1>3. \A n \in Nat : Idle \in Acts(n) /\ NoCall \in Calls(n)
  BY DEF Idle, NoCall, Acts, Calls, NoCommit
<1>4. \A n \in Nat : act \in [Client -> Acts(n)] /\ hand \in [Handler -> Calls(n)]
  BY <1>2, <1>3
<1>5. CASE parents = << >> /\ store = [r \in Repo |-> {}] /\ branch = [r \in Repo |-> NoCommit]
           /\ track = [c \in Client |-> NoCommit]
  <2>1. Len(parents) = 0 /\ IsGraph(parents)
    BY <1>5 DEF IsGraph
  <2> QED BY <1>1, <1>4, <1>5, <2>1 DEF TypeInv, NoCommit
<1>6. CASE parents = << << >> >> /\ store = [r \in Repo |-> {1}] /\ branch = [r \in Repo |-> 1]
           /\ track = [c \in Client |-> 1]
  <2>1. Len(parents) = 1 /\ IsGraph(parents)
    BY <1>6 DEF IsGraph
  <2> QED BY <1>1, <1>4, <1>6, <2>1 DEF TypeInv
<1> QED BY <1>5, <1>6 DEF Init

\* A step of Goto keeps the types.
LEMMA GotoTyped ==
    ASSUME NEW n, hand \in [Handler -> Calls(n)], NEW h \in Handler,
           NEW l \in {"check", "write", "release", "reply"}, NEW r \in {"none", "ok", "refused"}, Goto(h, l, r)
    PROVE  /\ hand' \in [Handler -> Calls(n)]
           /\ hand'[h] = [hand[h] EXCEPT !.pc = l, !.result = r]
           /\ \A g \in Handler : g # h => hand'[g] = hand[g]
<1>1. hand' = [hand EXCEPT ![h] = [hand[h] EXCEPT !.pc = l, !.result = r]]
  BY DEF Goto
<1>2. [hand[h] EXCEPT !.pc = l, !.result = r] \in Calls(n)
  BY DEF Calls
<1> QED BY <1>1, <1>2

\* An action of a client keeps the types.
LEMMA TypeClient ==
    ASSUME TypeInv, NEW c \in Client, ClientNext(c)
    PROVE  TypeInv'
<1> DEFINE n == Len(parents)
<1>0. /\ lockFile \in [Lock -> Handler \cup {Free}] /\ IsGraph(parents)
      /\ store \in [Repo -> SUBSET (1..n)] /\ branch \in [Repo -> 0..n] /\ track \in [Client -> 0..n]
      /\ act \in [Client -> Acts(n)] /\ hand \in [Handler -> Calls(n)]
      /\ started \in 0..MaxRemote /\ rewritten \in BOOLEAN
  BY DEF TypeInv
<1>a. c \in Repo /\ Hub \in Repo /\ n \in Nat /\ DOMAIN parents = 1..n /\ MaxRemote \in Nat
  BY <1>0, GraphDomain, BoundAssumption DEF Repo
<1>b. Idle \in Acts(n) /\ NoCall \in Calls(n)
  BY <1>a DEF Idle, NoCall, Acts, Calls, NoCommit
<1>c. act[c] \in Acts(n) /\ act[c].target \in 0..n /\ act[c].todo \subseteq 1..n
      /\ branch[c] \in 0..n /\ branch[Hub] \in 0..n /\ track[c] \in 0..n
      /\ store[c] \subseteq 1..n /\ store[Hub] \subseteq 1..n
  BY <1>0, <1>a DEF Acts
<1>1. CASE LocalCommit(c)
  <2>1. Refs(branch[c]) \in Seq(1..n)
    BY <1>0, <1>a, <1>c, RefsListed
  <2>2. CommitHere(c, Refs(branch[c])) /\ UNCHANGED <<lockFile, hand, rewritten, track, act, started>>
    BY <1>1 DEF LocalCommit, hubVars
  <2> QED BY <1>0, <2>1, <2>2, CommitGrows DEF TypeInv
<1>2. CASE \E h \in Handler, f \in Forces : Push(c, h, f)
  <2>1. PICK h \in Handler, f \in Forces : Push(c, h, f)
    BY <1>2
  <2> DEFINE send == SendCommits(parents, store[c], <<branch[c]>>, Refs(branch[Hub]))
             call == [NoCall EXCEPT !.pc = "ingest", !.old = branch[Hub], !.new = branch[c],
                                    !.force = f, !.todo = send.commits]
             do == [Idle EXCEPT !.op = "push", !.h = h]
  <2>2. /\ ~send.failed /\ started < MaxRemote
        /\ hand' = [hand EXCEPT ![h] = call]
        /\ act' = [act EXCEPT ![c] = do]
        /\ started' = started + 1
        /\ UNCHANGED <<lockFile, parents, store, branch, track, rewritten>>
    BY <2>1 DEF Push
  <2>3. send.commits \subseteq 1..n
    <3>1. Refs(branch[Hub]) \in Seq(DOMAIN parents)
      BY <1>0, <1>c, RefsListed
    <3> QED BY <1>0, <1>c, <2>2, <3>1, PackFor
  <2> HIDE DEF send
  <2>4. call \in Calls(n)
    <3>1. f \in BOOLEAN
      BY ForcesAssumption
    <3> QED BY <1>b, <1>c, <2>3, <3>1 DEF Calls, NoCall
  <2>5. do \in Acts(n)
    BY <1>b DEF Acts, Idle
  <2>6. started' \in 0..MaxRemote
    BY <1>0, <1>a, <2>2
  <2> HIDE DEF call, do
  <2>7. hand' \in [Handler -> Calls(n)] /\ act' \in [Client -> Acts(n)]
    BY <1>0, <2>2, <2>4, <2>5
  <2> QED BY <1>0, <2>2, <2>6, <2>7 DEF TypeInv
<1>3. CASE \E h \in Handler : Reply(c, h)
  <2>1. PICK h \in Handler : Reply(c, h)
    BY <1>3
  <2>2. /\ track' = [track EXCEPT ![c] = hand[h].new] \/ track' = track
        /\ act' = [act EXCEPT ![c] = Idle]
        /\ hand' = [hand EXCEPT ![h] = NoCall]
        /\ UNCHANGED <<lockFile, parents, store, branch, rewritten, started>>
    BY <2>1 DEF Reply
  <2>3. hand[h].new \in 0..n
    BY <1>0 DEF Calls
  <2>4. track' \in [Client -> 0..n] /\ act' \in [Client -> Acts(n)] /\ hand' \in [Handler -> Calls(n)]
    BY <1>0, <1>b, <2>2, <2>3
  <2> QED BY <1>0, <2>2, <2>4 DEF TypeInv
<1>4. CASE LoseReply(c) \/ ClientStops(c)
  <2>1. act' = [act EXCEPT ![c] = Idle] /\ UNCHANGED <<lockFile, hand, rewritten, parents, store, branch, track, started>>
    BY <1>4 DEF LoseReply, ClientStops, hubVars
  <2>2. act' \in [Client -> Acts(n)]
    BY <1>0, <1>b, <2>1
  <2> QED BY <1>0, <2>1, <2>2 DEF TypeInv
<1>5. CASE ListRefs(c)
  <2> DEFINE do == [Idle EXCEPT !.op = "list", !.target = branch[Hub]]
  <2>1. /\ act' = [act EXCEPT ![c] = do] /\ started < MaxRemote /\ started' = started + 1
        /\ UNCHANGED <<lockFile, hand, rewritten, parents, store, branch, track>>
    BY <1>5 DEF ListRefs, hubVars
  <2>2. do \in Acts(n)
    BY <1>b, <1>c DEF Acts, Idle
  <2> HIDE DEF do
  <2>3. act' \in [Client -> Acts(n)] /\ started' \in 0..MaxRemote
    BY <1>0, <1>a, <2>1, <2>2
  <2> QED BY <1>0, <2>1, <2>3 DEF TypeInv
<1>6. CASE FetchPack(c)
  <2> DEFINE send == SendCommits(parents, store[Hub], <<act[c].target>>, Refs(branch[c]) \o Refs(track[c]))
             do == [act[c] EXCEPT !.op = "unpack", !.todo = send.commits]
  <2>1. /\ ~send.failed
        /\ act' = [act EXCEPT ![c] = do]
        /\ UNCHANGED <<lockFile, hand, rewritten, parents, store, branch, track, started>>
    BY <1>6 DEF FetchPack, hubVars
  <2>2. send.commits \subseteq 1..n
    <3>1. Refs(branch[c]) \o Refs(track[c]) \in Seq(DOMAIN parents)
      BY <1>0, <1>c, RefsListed
    <3> QED BY <1>0, <1>c, <2>1, <3>1, PackFor
  <2> HIDE DEF send
  <2>3. do \in Acts(n)
    BY <1>c, <2>2 DEF Acts
  <2> HIDE DEF do
  <2>4. act' \in [Client -> Acts(n)]
    BY <1>0, <2>1, <2>3
  <2> QED BY <1>0, <2>1, <2>4 DEF TypeInv
<1>7. CASE \E x \in act[c].todo : Unpack(c, x)
  <2>1. PICK x \in act[c].todo : Unpack(c, x)
    BY <1>7
  <2> DEFINE do == [act[c] EXCEPT !.todo = @ \ {x}]
  <2>2. /\ store' = [store EXCEPT ![c] = @ \cup {x}]
        /\ act' = [act EXCEPT ![c] = do]
        /\ UNCHANGED <<lockFile, hand, rewritten, parents, branch, track, started>>
    BY <2>1 DEF Unpack, hubVars
  <2>3. do \in Acts(n) /\ x \in 1..n
    BY <1>c, <2>1 DEF Acts
  <2> HIDE DEF do
  <2>4. act' \in [Client -> Acts(n)] /\ store' \in [Repo -> SUBSET (1..n)]
    BY <1>0, <1>a, <2>2, <2>3
  <2> QED BY <1>0, <2>2, <2>4 DEF TypeInv
<1>8. CASE UpdateTracking(c)
  <2> DEFINE do == [Idle EXCEPT !.op = "merge"]
  <2>1. /\ track' = [track EXCEPT ![c] = act[c].target]
        /\ act' = [act EXCEPT ![c] = do]
        /\ UNCHANGED <<lockFile, hand, rewritten, parents, store, branch, started>>
    BY <1>8 DEF UpdateTracking, hubVars
  <2>2. do \in Acts(n)
    BY <1>b DEF Acts, Idle
  <2> HIDE DEF do
  <2>3. act' \in [Client -> Acts(n)] /\ track' \in [Client -> 0..n]
    BY <1>0, <1>c, <2>1, <2>2
  <2> QED BY <1>0, <2>1, <2>3 DEF TypeInv
<1>9. CASE PullMerge(c)
  <2> DEFINE our == branch[c]
             their == track[c]
             base == MergeBase(parents, store[c], our, their)
  <2>1. act' = [act EXCEPT ![c] = Idle] /\ UNCHANGED <<lockFile, hand, rewritten, track, started>>
    BY <1>9 DEF PullMerge, hubVars
  <2>2. CASE branch' = [branch EXCEPT ![c] = their] /\ UNCHANGED <<parents, store>>
    <3>1. act' \in [Client -> Acts(n)] /\ branch' \in [Repo -> 0..n]
      BY <1>0, <1>a, <1>b, <1>c, <2>1, <2>2
    <3> QED BY <1>0, <2>1, <2>2, <3>1 DEF TypeInv
  <2>3. CASE our # NoCommit /\ base \notin {our, NoCommit} /\ CommitHere(c, <<our, their>>)
    <3> DEFINE ps == <<our, their>>
    <3>1. their # NoCommit
      <4>1. base \in Reach(parents, their)
        BY <1>0, <1>a, <1>c, <2>3, MergeBaseIsCommon
      <4> QED BY <4>1, ReachNone
    <3>2. our \in 1..n /\ their \in 1..n
      BY <1>a, <1>c, <2>3, <3>1 DEF NoCommit
    <3>3. ps \in Seq(1..n) /\ CommitHere(c, ps)
      BY <2>3, <3>2
    <3> HIDE DEF ps
    <3>4. /\ IsGraph(parents')
          /\ store' \in [Repo -> SUBSET (1..Len(parents'))]
          /\ branch' \in [Repo -> 0..Len(parents')]
          /\ track \in [Client -> 0..Len(parents')]
          /\ act \in [Client -> Acts(Len(parents'))]
          /\ hand \in [Handler -> Calls(Len(parents'))]
      BY <3>3, CommitGrows
    <3>5. Idle \in Acts(Len(parents'))
      BY <3>4, GraphDomain DEF Idle, Acts, NoCommit
    <3>6. act' \in [Client -> Acts(Len(parents'))]
      BY <2>1, <3>4, <3>5
    <3> QED BY <1>0, <2>1, <3>4, <3>6 DEF TypeInv
  <2> QED BY <1>9, <2>2, <2>3 DEF PullMerge
<1> QED BY <1>1, <1>2, <1>3, <1>4, <1>5, <1>6, <1>7, <1>8, <1>9 DEF ClientNext

\* An action of a call keeps the types.
LEMMA TypeHandler ==
    ASSUME TypeInv, NEW h \in Handler, HandlerNext(h)
    PROVE  TypeInv'
<1> DEFINE n == Len(parents)
<1>0. /\ lockFile \in [Lock -> Handler \cup {Free}] /\ IsGraph(parents)
      /\ store \in [Repo -> SUBSET (1..n)] /\ branch \in [Repo -> 0..n] /\ track \in [Client -> 0..n]
      /\ act \in [Client -> Acts(n)] /\ hand \in [Handler -> Calls(n)]
      /\ started \in 0..MaxRemote /\ rewritten \in BOOLEAN
  BY DEF TypeInv
<1>a. Hub \in Repo /\ n \in Nat /\ DOMAIN parents = 1..n
  BY <1>0, GraphDomain DEF Repo
<1>b. NoCall \in Calls(n)
  BY <1>a DEF NoCall, Calls, NoCommit
<1>c. hand[h] \in Calls(n) /\ hand[h].new \in 0..n /\ hand[h].todo \subseteq 1..n
      /\ hand[h].result \in {"none", "ok", "refused"}
  BY <1>0 DEF Calls
<1> HIDE DEF n
<1>1. CASE \E x \in hand[h].todo : Ingest(h, x)
  <2>1. PICK x \in hand[h].todo : Ingest(h, x)
    BY <1>1
  <2> DEFINE do == [hand[h] EXCEPT !.todo = @ \ {x}]
  <2>2. /\ store' = [store EXCEPT ![Hub] = @ \cup {x}]
        /\ hand' = [hand EXCEPT ![h] = do]
        /\ UNCHANGED <<lockFile, parents, branch, track, act, rewritten, started>>
    BY <2>1 DEF Ingest
  <2>3. do \in Calls(n) /\ x \in 1..n
    BY <1>c, <2>1 DEF Calls
  <2> HIDE DEF do
  <2>4. hand' \in [Handler -> Calls(n)] /\ store' \in [Repo -> SUBSET (1..n)]
    BY <1>0, <1>a, <2>2, <2>3
  <2> QED BY <1>0, <2>2, <2>4 DEF TypeInv, n
<1>2. CASE AcquireRefs(h)
  <2>1. Goto(h, "check", "none") /\ lockFile' = [lockFile EXCEPT !["refs"] = h]
        /\ UNCHANGED <<parents, store, branch, track, act, rewritten, started>>
    BY <1>2 DEF AcquireRefs, TryAcquire
  <2>2. hand' \in [Handler -> Calls(n)]
    BY <1>0, <2>1, GotoTyped
  <2>3. lockFile' \in [Lock -> Handler \cup {Free}]
    BY <1>0, <2>1
  <2> QED BY <1>0, <2>1, <2>2, <2>3 DEF TypeInv, n
<1>3. CASE ReceiveFails(h) \/ Check(h) \/ WriteFails(h)
  <2>1. UNCHANGED <<lockFile, parents, store, branch, track, act, rewritten, started>>
        /\ \/ Goto(h, "reply", "refused") \/ Goto(h, "write", "none") \/ Goto(h, "release", "refused")
    BY <1>3 DEF ReceiveFails, Check, WriteFails
  <2>2. hand' \in [Handler -> Calls(n)]
    BY <1>0, <2>1, GotoTyped
  <2> QED BY <1>0, <2>1, <2>2 DEF TypeInv, n
<1>4. CASE WriteRef(h)
  <2>1. /\ branch' = [branch EXCEPT ![Hub] = hand[h].new]
        /\ Goto(h, "release", "ok")
        /\ UNCHANGED <<lockFile, parents, store, track, act, started>>
    BY <1>4 DEF WriteRef
  <2>2. rewritten' \in BOOLEAN
    BY <1>4 DEF WriteRef
  <2>3. hand' \in [Handler -> Calls(n)]
    BY <1>0, <2>1, GotoTyped
  <2>4. branch' \in [Repo -> 0..n]
    BY <1>0, <1>a, <1>c, <2>1
  <2> QED BY <1>0, <2>1, <2>2, <2>3, <2>4 DEF TypeInv, n
<1>5. CASE Release(h)
  <2>1. /\ lockFile' = [lockFile EXCEPT !["refs"] = Free] \/ lockFile' = lockFile
        /\ Goto(h, "reply", hand[h].result)
        /\ UNCHANGED <<parents, store, branch, track, act, rewritten, started>>
    BY <1>5 DEF Release, Remove
  <2>2. hand' \in [Handler -> Calls(n)]
    <3>1. Goto(h, "reply", "none") \/ Goto(h, "reply", "ok") \/ Goto(h, "reply", "refused")
      BY <1>c, <2>1
    <3> QED BY <1>0, <3>1, GotoTyped
  <2>3. lockFile' \in [Lock -> Handler \cup {Free}]
    BY <1>0, <2>1
  <2> QED BY <1>0, <2>1, <2>2, <2>3 DEF TypeInv, n
<1>6. CASE Discard(h) \/ Crash(h)
  <2> DEFINE dead == [NoCall EXCEPT !.pc = "dead"]
  <2>1. /\ hand' = [hand EXCEPT ![h] = NoCall] \/ hand' = [hand EXCEPT ![h] = dead]
        /\ UNCHANGED <<lockFile, parents, store, branch, track, act, rewritten, started>>
    BY <1>6 DEF Discard, Crash
  <2>2. dead \in Calls(n)
    BY <1>b DEF Calls, NoCall
  <2> HIDE DEF dead
  <2>3. hand' \in [Handler -> Calls(n)]
    BY <1>0, <1>b, <2>1, <2>2
  <2> QED BY <1>0, <2>1, <2>3 DEF TypeInv, n
<1> QED BY <1>1, <1>2, <1>3, <1>4, <1>5, <1>6 DEF HandlerNext

\* A step that changes nothing.
LEMMA TypeStutter == TypeInv /\ UNCHANGED syncVars => TypeInv'
BY DEF TypeInv, syncVars

\* The types hold always.
THEOREM TypesHold == Spec => []TypeInv
<1>1. TypeInv /\ [Next]_syncVars => TypeInv'
  BY TypeClient, TypeHandler, TypeStutter DEF Next
<1> QED BY <1>1, TypeInit, PTL DEF Spec

\* TypeInv has what TypeOK asks.
LEMMA TypeInvTypeOK == TypeInv => TypeOK
<1> SUFFICES ASSUME TypeInv PROVE TypeOK
  OBVIOUS
<1> DEFINE n == Len(parents)
<1>0. /\ lockFile \in [Lock -> Handler \cup {Free}] /\ IsGraph(parents)
      /\ store \in [Repo -> SUBSET (1..n)] /\ branch \in [Repo -> 0..n] /\ track \in [Client -> 0..n]
      /\ act \in [Client -> Acts(n)] /\ hand \in [Handler -> Calls(n)]
      /\ started \in 0..MaxRemote /\ rewritten \in BOOLEAN
  BY DEF TypeInv
<1>1. DOMAIN parents = 1..n /\ \A c \in DOMAIN parents : \A i \in DOMAIN parents[c] : parents[c][i] \in 1..(c - 1)
  BY <1>0, GraphDomain DEF IsGraph
<1>2. \A c \in Client :
          /\ act[c].op \in {"idle", "push", "list", "unpack", "merge"}
          /\ act[c].h \in Handler \cup {Free}
          /\ act[c].target \in 0..n
          /\ act[c].todo \subseteq 1..n
  BY <1>0 DEF Acts
<1>3. \A h \in Handler :
          /\ hand[h].pc \in {"idle", "ingest", "check", "write", "release", "reply", "dead"}
          /\ hand[h].old \in 0..n /\ hand[h].new \in 0..n
          /\ hand[h].todo \subseteq 1..n
          /\ hand[h].result \in {"none", "ok", "refused"}
  BY <1>0 DEF Calls
<1> QED BY <1>0, <1>1, <1>2, <1>3 DEF TypeOK, CommitOrNone

\* Every store, reference, call and fetch is about commits that exist, whatever the order of
\* commits, pushes, fetches and pulls (TypeOK).
THEOREM TypeCorrect == Spec => []TypeOK
BY TypesHold, TypeInvTypeOK, PTL

----------------------------------------------------------------------------
(* Closed histories                                                        *)

\* The initial states.
LEMMA ClosedInit == Init => ClosedInv
<1> SUFFICES ASSUME Init PROVE ClosedInv
  OBVIOUS
<1>0. TypeInv
  BY TypeInit
<1>1. (\A c \in Client : act[c].op = "idle") /\ (\A h \in Handler : hand[h].pc = "idle")
  BY DEF Init, Idle, NoCall
<1>2. Waiting /\ Completing
  BY <1>1 DEF Waiting, Completing
<1>3. RefsClosed
  <2>1. CASE branch = [r \in Repo |-> NoCommit] /\ track = [c \in Client |-> NoCommit]
    BY <2>1, ReachNone DEF RefsClosed
  <2>2. CASE parents = << << >> >> /\ store = [r \in Repo |-> {1}] /\ branch = [r \in Repo |-> 1] /\ track = [c \in Client |-> 1]
    <3>1. 1 \in DOMAIN parents
      BY <2>2
    <3>2. Reach(parents, 1) \subseteq 1..1
      BY <1>0, <3>1, ReachInGraph DEF TypeInv
    <3>3. Reach(parents, 1) \subseteq {1}
      BY <3>2
    <3>4. Client \subseteq Repo
      BY DEF Repo
    <3> QED BY <2>2, <3>3, <3>4 DEF RefsClosed
  <2> QED BY <2>1, <2>2 DEF Init
<1> QED BY <1>2, <1>3 DEF ClosedInv

\* The parts of ClosedInv about a client, a call and a repository.
WaitsFor(c) ==
    act[c].op = "push" =>
        /\ act[c].h \in Handler
        /\ hand[act[c].h].pc # "idle"
        /\ Reach(parents, hand[act[c].h].new) \subseteq store[c]

Ingests(h) ==
    /\ hand[h].pc = "ingest" => Reach(parents, hand[h].new) \subseteq store[Hub] \cup hand[h].todo
    /\ hand[h].pc \in {"check", "write"} => Reach(parents, hand[h].new) \subseteq store[Hub]

Fetches(c) == act[c].op = "unpack" => Reach(parents, act[c].target) \subseteq store[c] \cup act[c].todo

Distinct == \A c, d \in Client : act[c].op = "push" /\ act[d].op = "push" /\ act[c].h = act[d].h => c = d

\* ClosedInv by its parts.
LEMMA ClosedParts ==
    ClosedInv <=>
        /\ RefsClosed
        /\ Distinct
        /\ \A h \in Handler : Ingests(h)
        /\ \A c \in Client : WaitsFor(c) /\ Fetches(c)
BY DEF ClosedInv, Waiting, Completing, WaitsFor, Ingests, Fetches, Distinct

\* The same of the next state.
LEMMA ClosedPartsNext ==
    ClosedInv' <=>
        /\ RefsClosed'
        /\ Distinct'
        /\ \A h \in Handler : Ingests(h)'
        /\ \A c \in Client : WaitsFor(c)' /\ Fetches(c)'
BY DEF ClosedInv, Waiting, Completing, WaitsFor, Ingests, Fetches, Distinct

\* An action of call h that leaves the graph and the clients alone.
LEMMA HandlerKeeps ==
    ASSUME TypeInv, ClosedInv, NEW h \in Handler, UNCHANGED <<parents, track, act>>,
           \A r \in Repo : store[r] \subseteq store'[r],
           \A g \in Handler : g # h => hand'[g] = hand[g],
           hand'[h].new \in {hand[h].new, NoCommit},
           hand'[h].pc # "idle" \/ \A c \in Client : act[c].h # h,
           Ingests(h)',
           \A r \in Repo : r # Hub => branch'[r] = branch[r],
           Reach(parents, branch'[Hub]) \subseteq store'[Hub]
    PROVE  ClosedInv'
<1>0. /\ RefsClosed /\ Distinct /\ (\A g \in Handler : Ingests(g))
      /\ \A c \in Client : WaitsFor(c) /\ Fetches(c)
  BY ClosedParts
<1>a. Hub \in Repo /\ Client \subseteq Repo /\ Hub \notin Client
  BY HubAssumption DEF Repo
<1>1. RefsClosed'
  <2>1. ASSUME NEW r \in Repo PROVE Reach(parents', branch'[r]) \subseteq store'[r]
    <3>1. CASE r = Hub
      BY <3>1
    <3>2. CASE r # Hub
      BY <1>0, <3>2 DEF RefsClosed
    <3> QED BY <3>1, <3>2
  <2>2. \A c \in Client : Reach(parents', track'[c]) \subseteq store'[c]
    BY <1>0, <1>a DEF RefsClosed
  <2> QED BY <2>1, <2>2 DEF RefsClosed
<1>2. Distinct'
  BY <1>0 DEF Distinct
<1>3. ASSUME NEW g \in Handler PROVE Ingests(g)'
  <2>1. CASE g = h
    BY <2>1
  <2>2. CASE g # h
    BY <1>0, <1>a, <2>2 DEF Ingests
  <2> QED BY <2>1, <2>2
<1>4. ASSUME NEW c \in Client PROVE WaitsFor(c)' /\ Fetches(c)'
  <2>1. Fetches(c)'
    BY <1>0, <1>a DEF Fetches
  <2>2. WaitsFor(c)'
    <3> SUFFICES ASSUME act[c].op = "push"
                 PROVE  act[c].h \in Handler /\ hand'[act[c].h].pc # "idle"
                        /\ Reach(parents, hand'[act[c].h].new) \subseteq store'[c]
      BY DEF WaitsFor
    <3>1. act[c].h \in Handler /\ hand[act[c].h].pc # "idle" /\ Reach(parents, hand[act[c].h].new) \subseteq store'[c]
      BY <1>0, <1>a DEF WaitsFor
    <3>2. CASE act[c].h = h
      BY <3>1, <3>2, ReachNone
    <3>3. CASE act[c].h # h
      BY <3>1, <3>3
    <3> QED BY <3>2, <3>3
  <2> QED BY <2>1, <2>2
<1> QED BY <1>1, <1>2, <1>3, <1>4, ClosedPartsNext

\* An action of client c that leaves the calls alone and starts no push.
LEMMA ClientKeeps ==
    ASSUME TypeInv, ClosedInv, NEW c \in Client, UNCHANGED hand,
           \A x \in 0..Len(parents) : Reach(parents', x) = Reach(parents, x),
           \A r \in Repo : store[r] \subseteq store'[r],
           \A d \in Client : d # c => act'[d] = act[d] /\ track'[d] = track[d],
           \A r \in Repo : r # c => branch'[r] = branch[r],
           Reach(parents', branch'[c]) \subseteq store'[c],
           Reach(parents', track'[c]) \subseteq store'[c],
           act'[c].op # "push",
           Fetches(c)'
    PROVE  ClosedInv'
<1>0. /\ RefsClosed /\ Distinct /\ (\A g \in Handler : Ingests(g))
      /\ \A d \in Client : WaitsFor(d) /\ Fetches(d)
  BY ClosedParts
<1>a. Hub \in Repo /\ Client \subseteq Repo /\ Hub \notin Client
  BY HubAssumption DEF Repo
<1>b. /\ \A r \in Repo : branch[r] \in 0..Len(parents)
      /\ \A d \in Client : track[d] \in 0..Len(parents) /\ act[d].target \in 0..Len(parents)
      /\ \A g \in Handler : hand[g].new \in 0..Len(parents)
  BY DEF TypeInv, Acts, Calls
<1>1. RefsClosed'
  <2>1. ASSUME NEW r \in Repo PROVE Reach(parents', branch'[r]) \subseteq store'[r]
    <3>1. CASE r = c
      BY <3>1
    <3>2. CASE r # c
      BY <1>0, <1>b, <3>2 DEF RefsClosed
    <3> QED BY <3>1, <3>2
  <2>2. ASSUME NEW d \in Client PROVE Reach(parents', track'[d]) \subseteq store'[d]
    <3>1. CASE d = c
      BY <3>1
    <3>2. CASE d # c
      BY <1>0, <1>a, <1>b, <3>2 DEF RefsClosed
    <3> QED BY <3>1, <3>2
  <2> QED BY <2>1, <2>2 DEF RefsClosed
<1>2. Distinct'
  BY <1>0 DEF Distinct
<1>3. ASSUME NEW g \in Handler PROVE Ingests(g)'
  BY <1>0, <1>a, <1>b DEF Ingests
<1>4. ASSUME NEW d \in Client PROVE WaitsFor(d)' /\ Fetches(d)'
  <2>1. CASE d = c
    BY <2>1 DEF WaitsFor
  <2>2. CASE d # c
    <3>1. Fetches(d)'
      BY <1>0, <1>a, <1>b, <2>2 DEF Fetches
    <3>2. WaitsFor(d)'
      BY <1>0, <1>a, <1>b, <2>2 DEF WaitsFor
    <3> QED BY <3>1, <3>2
  <2> QED BY <2>1, <2>2
<1> QED BY <1>1, <1>2, <1>3, <1>4, ClosedPartsNext

\* An action of a call keeps histories closed.
LEMMA ClosedHandler ==
    ASSUME TypeInv, ClosedInv, NEW h \in Handler, HandlerNext(h)
    PROVE  ClosedInv'
<1>0. /\ RefsClosed /\ Distinct /\ (\A g \in Handler : Ingests(g))
      /\ \A d \in Client : WaitsFor(d) /\ Fetches(d)
  BY ClosedParts
<1>a. Hub \in Repo /\ Client \subseteq Repo /\ Hub \notin Client
  BY HubAssumption DEF Repo
<1>b. /\ hand \in [Handler -> Calls(Len(parents))] /\ hand[h] \in Calls(Len(parents))
      /\ store \in [Repo -> SUBSET (1..Len(parents))] /\ branch \in [Repo -> 0..Len(parents)]
  BY DEF TypeInv
<1>c. Reach(parents, branch[Hub]) \subseteq store[Hub]
  BY <1>0, <1>a DEF RefsClosed
<1>d. ASSUME NEW l \in {"check", "write", "release", "reply"}, NEW r \in {"none", "ok", "refused"}, Goto(h, l, r)
      PROVE  /\ hand'[h].pc = l /\ hand'[h].new = hand[h].new
             /\ \A g \in Handler : g # h => hand'[g] = hand[g]
  <2>1. hand'[h] = [hand[h] EXCEPT !.pc = l, !.result = r] /\ \A g \in Handler : g # h => hand'[g] = hand[g]
    BY <1>b, <1>d DEF Goto
  <2> QED BY <1>b, <2>1 DEF Calls
<1>1. CASE \E x \in hand[h].todo : Ingest(h, x)
  <2>1. PICK x \in hand[h].todo : Ingest(h, x)
    BY <1>1
  <2> DEFINE do == [hand[h] EXCEPT !.todo = @ \ {x}]
  <2>2. /\ hand[h].pc = "ingest"
        /\ store' = [store EXCEPT ![Hub] = @ \cup {x}]
        /\ hand' = [hand EXCEPT ![h] = do]
        /\ UNCHANGED <<lockFile, parents, branch, track, act, rewritten, started>>
    BY <2>1 DEF Ingest
  <2>3. do.pc = "ingest" /\ do.new = hand[h].new /\ do.todo = hand[h].todo \ {x}
    BY <1>b, <2>2 DEF Calls
  <2> HIDE DEF do
  <2>4. hand'[h] = do /\ (\A g \in Handler : g # h => hand'[g] = hand[g])
        /\ store'[Hub] = store[Hub] \cup {x} /\ (\A r \in Repo : store[r] \subseteq store'[r])
    BY <1>a, <1>b, <2>2
  <2>5. Ingests(h)'
    BY <1>0, <2>2, <2>3, <2>4 DEF Ingests
  <2>6. Reach(parents, branch'[Hub]) \subseteq store'[Hub]
    BY <1>c, <2>2, <2>4
  <2> QED BY <2>2, <2>3, <2>4, <2>5, <2>6, HandlerKeeps
<1>2. CASE AcquireRefs(h)
  <2>1. hand[h].pc = "ingest" /\ hand[h].todo = {} /\ Goto(h, "check", "none")
        /\ UNCHANGED <<parents, store, branch, track, act>>
    BY <1>2 DEF AcquireRefs
  <2>2. hand'[h].pc = "check" /\ hand'[h].new = hand[h].new /\ \A g \in Handler : g # h => hand'[g] = hand[g]
    BY <1>d, <2>1
  <2>3. Ingests(h)'
    BY <1>0, <2>1, <2>2 DEF Ingests
  <2> QED BY <1>c, <2>1, <2>2, <2>3, HandlerKeeps
<1>3. CASE ReceiveFails(h) \/ WriteFails(h)
  <2>1. (Goto(h, "reply", "refused") \/ Goto(h, "release", "refused")) /\ UNCHANGED <<parents, store, branch, track, act>>
    BY <1>3 DEF ReceiveFails, WriteFails
  <2>2. hand'[h].pc \in {"reply", "release"} /\ hand'[h].new = hand[h].new /\ \A g \in Handler : g # h => hand'[g] = hand[g]
    BY <1>d, <2>1
  <2>3. Ingests(h)'
    BY <2>2 DEF Ingests
  <2> QED BY <1>c, <2>1, <2>2, <2>3, HandlerKeeps
<1>4. CASE Check(h)
  <2>1. hand[h].pc = "check" /\ (Goto(h, "write", "none") \/ Goto(h, "release", "refused")) /\ UNCHANGED <<parents, store, branch, track, act>>
    BY <1>4 DEF Check
  <2>2. hand'[h].pc \in {"write", "release"} /\ hand'[h].new = hand[h].new /\ \A g \in Handler : g # h => hand'[g] = hand[g]
    BY <1>d, <2>1
  <2>3. Ingests(h)'
    BY <1>0, <2>1, <2>2 DEF Ingests
  <2> QED BY <1>c, <2>1, <2>2, <2>3, HandlerKeeps
<1>5. CASE WriteRef(h)
  <2>1. hand[h].pc = "write" /\ Goto(h, "release", "ok") /\ UNCHANGED <<parents, store, track, act>>
        /\ branch' = [branch EXCEPT ![Hub] = hand[h].new]
    BY <1>5 DEF WriteRef
  <2>2. hand'[h].pc = "release" /\ hand'[h].new = hand[h].new /\ \A g \in Handler : g # h => hand'[g] = hand[g]
    BY <1>d, <2>1
  <2>3. Ingests(h)'
    BY <2>2 DEF Ingests
  <2>4. branch'[Hub] = hand[h].new /\ \A r \in Repo : r # Hub => branch'[r] = branch[r]
    BY <1>a, <1>b, <2>1
  <2>5. Reach(parents, branch'[Hub]) \subseteq store'[Hub]
    BY <1>0, <2>1, <2>4 DEF Ingests
  <2> QED BY <2>1, <2>2, <2>3, <2>4, <2>5, HandlerKeeps
<1>6. CASE Release(h)
  <2>1. Goto(h, "reply", hand[h].result) /\ UNCHANGED <<parents, store, branch, track, act>>
    BY <1>6 DEF Release
  <2>2. Goto(h, "reply", "none") \/ Goto(h, "reply", "ok") \/ Goto(h, "reply", "refused")
    BY <1>b, <2>1 DEF Calls
  <2>3. hand'[h].pc = "reply" /\ hand'[h].new = hand[h].new /\ \A g \in Handler : g # h => hand'[g] = hand[g]
    BY <1>d, <2>2
  <2>4. Ingests(h)'
    BY <2>3 DEF Ingests
  <2> QED BY <1>c, <2>1, <2>3, <2>4, HandlerKeeps
<1>7. CASE Discard(h)
  <2>1. hand' = [hand EXCEPT ![h] = NoCall] /\ (\A c \in Client : act[c].h # h) /\ UNCHANGED <<parents, store, branch, track, act>>
    BY <1>7 DEF Discard
  <2>2. hand'[h].pc = "idle" /\ hand'[h].new = NoCommit /\ \A g \in Handler : g # h => hand'[g] = hand[g]
    BY <1>b, <2>1 DEF NoCall
  <2>3. Ingests(h)'
    BY <2>2 DEF Ingests
  <2> QED BY <1>c, <2>1, <2>2, <2>3, HandlerKeeps
<1>8. CASE Crash(h)
  <2>1. hand' = [hand EXCEPT ![h] = [NoCall EXCEPT !.pc = "dead"]] /\ UNCHANGED <<parents, store, branch, track, act>>
    BY <1>8 DEF Crash
  <2>2. hand'[h].pc = "dead" /\ hand'[h].new = NoCommit /\ \A g \in Handler : g # h => hand'[g] = hand[g]
    BY <1>b, <2>1 DEF NoCall
  <2>3. Ingests(h)'
    BY <2>2 DEF Ingests
  <2> QED BY <1>c, <2>1, <2>2, <2>3, HandlerKeeps
<1> QED BY <1>1, <1>2, <1>3, <1>4, <1>5, <1>6, <1>7, <1>8 DEF HandlerNext

\* An action of a client keeps histories closed.
LEMMA ClosedClient ==
    ASSUME TypeInv, ClosedInv, NEW c \in Client, ClientNext(c)
    PROVE  ClosedInv'
<1> DEFINE n == Len(parents)
<1>0. /\ RefsClosed /\ Distinct /\ (\A g \in Handler : Ingests(g))
      /\ \A d \in Client : WaitsFor(d) /\ Fetches(d)
  BY ClosedParts
<1>a. Hub \in Repo /\ Client \subseteq Repo /\ Hub \notin Client /\ c \in Repo /\ c # Hub
  BY HubAssumption DEF Repo
<1>b. /\ IsGraph(parents) /\ n \in Nat /\ DOMAIN parents = 1..n
      /\ act \in [Client -> Acts(n)] /\ act[c] \in Acts(n) /\ hand \in [Handler -> Calls(n)]
      /\ store \in [Repo -> SUBSET (1..n)] /\ branch \in [Repo -> 0..n] /\ track \in [Client -> 0..n]
  BY GraphDomain DEF TypeInv
<1>c. /\ Reach(parents, branch[Hub]) \subseteq store[Hub] /\ Reach(parents, branch[c]) \subseteq store[c]
      /\ Reach(parents, track[c]) \subseteq store[c]
  BY <1>0, <1>a DEF RefsClosed
<1>d. act[c].target \in 0..n /\ branch[c] \in 0..n /\ branch[Hub] \in 0..n /\ track[c] \in 0..n
      /\ store[c] \subseteq 1..n /\ store[Hub] \subseteq 1..n
  BY <1>a, <1>b DEF Acts
<1>e. Idle.op = "idle"
  BY DEF Idle
<1>1. CASE LocalCommit(c)
  <2>1. Refs(branch[c]) \in Seq(1..n) /\ Had(parents, Refs(branch[c])) = Reach(parents, branch[c])
    BY <1>b, <1>d, RefsListed
  <2>2. /\ CommitHere(c, Refs(branch[c])) /\ UNCHANGED <<hand, track, act>> /\ act[c].op = "idle"
    BY <1>1 DEF LocalCommit, hubVars
  <2>3. /\ \A r \in Repo : store[r] \subseteq store'[r]
        /\ Len(parents') \in store'[c]
        /\ branch'[c] = Len(parents')
        /\ \A r \in Repo : r # c => branch'[r] = branch[r]
        /\ \A x \in 0..n : Reach(parents', x) = Reach(parents, x)
        /\ Reach(parents', Len(parents')) = {Len(parents')} \cup Had(parents, Refs(branch[c]))
    BY <2>1, <2>2, CommitGrows DEF Had
  <2>4. Reach(parents', branch'[c]) \subseteq store'[c]
    BY <1>a, <1>c, <2>1, <2>3
  <2>5. Reach(parents', track'[c]) \subseteq store'[c]
    BY <1>a, <1>c, <1>d, <2>2, <2>3
  <2>6. Fetches(c)' /\ act'[c].op # "push"
    BY <2>2 DEF Fetches
  <2> QED BY <2>2, <2>3, <2>4, <2>5, <2>6, ClientKeeps
<1>2. CASE \E h \in Handler, f \in Forces : Push(c, h, f)
  <2>1. PICK h \in Handler, f \in Forces : Push(c, h, f)
    BY <1>2
  <2> DEFINE send == SendCommits(parents, store[c], <<branch[c]>>, Refs(branch[Hub]))
             call == [NoCall EXCEPT !.pc = "ingest", !.old = branch[Hub], !.new = branch[c],
                                    !.force = f, !.todo = send.commits]
             do == [Idle EXCEPT !.op = "push", !.h = h]
  <2>2. /\ ~send.failed /\ hand[h].pc = "idle"
        /\ hand' = [hand EXCEPT ![h] = call]
        /\ act' = [act EXCEPT ![c] = do]
        /\ UNCHANGED <<lockFile, parents, store, branch, track, rewritten>>
    BY <2>1 DEF Push
  <2>3. Reach(parents, branch[c]) \subseteq send.commits \cup Reach(parents, branch[Hub])
    <3>1. Refs(branch[Hub]) \in Seq(DOMAIN parents) /\ Had(parents, Refs(branch[Hub])) = Reach(parents, branch[Hub])
      BY <1>b, <1>d, RefsListed
    <3>2. Reach(parents, branch[c]) \subseteq send.commits \cup Had(parents, Refs(branch[Hub]))
      BY <1>b, <1>d, <2>2, <3>1, PackFor
    <3> QED BY <3>1, <3>2
  <2>4. call.pc = "ingest" /\ call.new = branch[c] /\ call.todo = send.commits /\ do.op = "push" /\ do.h = h
    BY DEF NoCall, Idle
  <2> HIDE DEF send, call, do
  <2>5. /\ hand'[h] = call /\ (\A g \in Handler : g # h => hand'[g] = hand[g])
        /\ act'[c] = do /\ (\A d \in Client : d # c => act'[d] = act[d])
    BY <1>b, <2>2
  <2>6. RefsClosed'
    BY <1>0, <2>2 DEF RefsClosed
  <2>7. \A d \in Client : act[d].op = "push" => act[d].h # h
    BY <1>0, <2>2 DEF WaitsFor
  <2>8. Distinct'
    BY <1>0, <2>4, <2>5, <2>7 DEF Distinct
  <2>9. ASSUME NEW g \in Handler PROVE Ingests(g)'
    <3>1. CASE g = h
      BY <1>c, <2>2, <2>3, <2>4, <2>5, <3>1 DEF Ingests
    <3>2. CASE g # h
      BY <1>0, <2>2, <2>5, <3>2 DEF Ingests
    <3> QED BY <3>1, <3>2
  <2>10. ASSUME NEW d \in Client PROVE WaitsFor(d)' /\ Fetches(d)'
    <3>1. CASE d = c
      BY <1>c, <2>2, <2>4, <2>5, <3>1 DEF WaitsFor, Fetches
    <3>2. CASE d # c
      <4>1. Fetches(d)'
        BY <1>0, <2>2, <2>5, <3>2 DEF Fetches
      <4>2. WaitsFor(d)'
        BY <1>0, <2>2, <2>5, <2>7, <3>2 DEF WaitsFor
      <4> QED BY <4>1, <4>2
    <3> QED BY <3>1, <3>2
  <2> QED BY <2>6, <2>8, <2>9, <2>10, ClosedPartsNext
<1>3. CASE \E h \in Handler : Reply(c, h)
  <2>1. PICK h \in Handler : Reply(c, h)
    BY <1>3
  <2>2. /\ act[c].op = "push" /\ act[c].h = h
        /\ track' = [track EXCEPT ![c] = hand[h].new] \/ track' = track
        /\ act' = [act EXCEPT ![c] = Idle]
        /\ hand' = [hand EXCEPT ![h] = NoCall]
        /\ UNCHANGED <<lockFile, parents, store, branch, rewritten, started>>
    BY <2>1 DEF Reply
  <2>3. /\ hand'[h] = NoCall /\ (\A g \in Handler : g # h => hand'[g] = hand[g])
        /\ act'[c] = Idle /\ (\A d \in Client : d # c => act'[d] = act[d] /\ track'[d] = track[d])
        /\ track'[c] \in {hand[h].new, track[c]}
    BY <1>b, <2>2
  <2>4. NoCall.pc = "idle"
    BY DEF NoCall
  <2>5. RefsClosed'
    <3>1. Reach(parents, hand[h].new) \subseteq store[c]
      BY <1>0, <2>2 DEF WaitsFor
    <3>2. \A d \in Client : Reach(parents, track'[d]) \subseteq store[d]
      BY <1>0, <1>c, <2>3, <3>1 DEF RefsClosed
    <3> QED BY <1>0, <2>2, <3>2 DEF RefsClosed
  <2>6. Distinct'
    BY <1>0, <1>e, <2>3 DEF Distinct
  <2>7. ASSUME NEW g \in Handler PROVE Ingests(g)'
    <3>1. CASE g = h
      BY <2>3, <2>4, <3>1 DEF Ingests
    <3>2. CASE g # h
      BY <1>0, <2>2, <2>3, <3>2 DEF Ingests
    <3> QED BY <3>1, <3>2
  <2>8. ASSUME NEW d \in Client PROVE WaitsFor(d)' /\ Fetches(d)'
    <3>1. CASE d = c
      BY <1>e, <2>3, <3>1 DEF WaitsFor, Fetches
    <3>2. CASE d # c
      <4>1. act[d].op = "push" => act[d].h # h
        BY <1>0, <2>2, <3>2 DEF Distinct
      <4>2. Fetches(d)'
        BY <1>0, <2>2, <2>3, <3>2 DEF Fetches
      <4>3. WaitsFor(d)'
        BY <1>0, <2>2, <2>3, <3>2, <4>1 DEF WaitsFor
      <4> QED BY <4>2, <4>3
    <3> QED BY <3>1, <3>2
  <2> QED BY <2>5, <2>6, <2>7, <2>8, ClosedPartsNext
<1>4. CASE LoseReply(c) \/ ClientStops(c)
  <2>1. act' = [act EXCEPT ![c] = Idle] /\ UNCHANGED <<hand, parents, store, branch, track>>
    BY <1>4 DEF LoseReply, ClientStops, hubVars
  <2>2. act'[c] = Idle /\ \A d \in Client : d # c => act'[d] = act[d]
    BY <1>b, <2>1
  <2>3. Fetches(c)' /\ act'[c].op # "push"
    BY <1>e, <2>2 DEF Fetches
  <2> QED BY <1>c, <2>1, <2>2, <2>3, ClientKeeps
<1>5. CASE ListRefs(c)
  <2>1. act' = [act EXCEPT ![c] = [Idle EXCEPT !.op = "list", !.target = branch[Hub]]]
        /\ UNCHANGED <<hand, parents, store, branch, track>>
    BY <1>5 DEF ListRefs, hubVars
  <2>2. act'[c].op = "list" /\ \A d \in Client : d # c => act'[d] = act[d]
    BY <1>b, <2>1 DEF Idle
  <2>3. Fetches(c)' /\ act'[c].op # "push"
    BY <2>2 DEF Fetches
  <2> QED BY <1>c, <2>1, <2>2, <2>3, ClientKeeps
<1>6. CASE FetchPack(c)
  <2> DEFINE send == SendCommits(parents, store[Hub], <<act[c].target>>, Refs(branch[c]) \o Refs(track[c]))
             do == [act[c] EXCEPT !.op = "unpack", !.todo = send.commits]
  <2>1. /\ ~send.failed
        /\ act' = [act EXCEPT ![c] = do]
        /\ UNCHANGED <<hand, parents, store, branch, track>>
    BY <1>6 DEF FetchPack, hubVars
  <2>2. Reach(parents, act[c].target) \subseteq send.commits \cup store[c]
    <3>1. /\ Refs(branch[c]) \o Refs(track[c]) \in Seq(DOMAIN parents)
          /\ Had(parents, Refs(branch[c]) \o Refs(track[c])) = Reach(parents, branch[c]) \cup Reach(parents, track[c])
      BY <1>b, <1>d, RefsListed
    <3>2. Reach(parents, act[c].target) \subseteq send.commits \cup Had(parents, Refs(branch[c]) \o Refs(track[c]))
      BY <1>b, <1>d, <2>1, <3>1, PackFor
    <3> QED BY <1>c, <3>1, <3>2
  <2>3. do.op = "unpack" /\ do.target = act[c].target /\ do.todo = send.commits
    BY <1>b DEF Acts
  <2> HIDE DEF send, do
  <2>4. act'[c] = do /\ \A d \in Client : d # c => act'[d] = act[d]
    BY <1>b, <2>1
  <2>5. Fetches(c)' /\ act'[c].op # "push"
    BY <2>1, <2>2, <2>3, <2>4 DEF Fetches
  <2> QED BY <1>c, <2>1, <2>4, <2>5, ClientKeeps
<1>7. CASE \E x \in act[c].todo : Unpack(c, x)
  <2>1. PICK x \in act[c].todo : Unpack(c, x)
    BY <1>7
  <2> DEFINE do == [act[c] EXCEPT !.todo = @ \ {x}]
  <2>2. /\ act[c].op = "unpack"
        /\ store' = [store EXCEPT ![c] = @ \cup {x}]
        /\ act' = [act EXCEPT ![c] = do]
        /\ UNCHANGED <<hand, parents, branch, track>>
    BY <2>1 DEF Unpack, hubVars
  <2>3. do.op = "unpack" /\ do.target = act[c].target /\ do.todo = act[c].todo \ {x}
    BY <1>b, <2>2 DEF Acts
  <2> HIDE DEF do
  <2>4. /\ act'[c] = do /\ (\A d \in Client : d # c => act'[d] = act[d])
        /\ store'[c] = store[c] \cup {x} /\ \A r \in Repo : store[r] \subseteq store'[r]
    BY <1>a, <1>b, <2>2
  <2>5. Fetches(c)' /\ act'[c].op # "push"
    BY <1>0, <2>2, <2>3, <2>4 DEF Fetches
  <2>6. Reach(parents', branch'[c]) \subseteq store'[c] /\ Reach(parents', track'[c]) \subseteq store'[c]
    BY <1>c, <2>2, <2>4
  <2> QED BY <2>2, <2>4, <2>5, <2>6, ClientKeeps
<1>8. CASE UpdateTracking(c)
  <2>1. /\ act[c].op = "unpack" /\ act[c].todo = {}
        /\ track' = [track EXCEPT ![c] = act[c].target]
        /\ act' = [act EXCEPT ![c] = [Idle EXCEPT !.op = "merge"]]
        /\ UNCHANGED <<hand, parents, store, branch>>
    BY <1>8 DEF UpdateTracking, hubVars
  <2>2. act'[c].op = "merge" /\ track'[c] = act[c].target
        /\ \A d \in Client : d # c => act'[d] = act[d] /\ track'[d] = track[d]
    BY <1>b, <2>1 DEF Idle
  <2>3. Fetches(c)' /\ act'[c].op # "push"
    BY <2>2 DEF Fetches
  <2>4. Reach(parents', track'[c]) \subseteq store'[c]
    BY <1>0, <2>1, <2>2 DEF Fetches
  <2> QED BY <1>c, <2>1, <2>2, <2>3, <2>4, ClientKeeps
<1>9. CASE PullMerge(c)
  <2> DEFINE our == branch[c]
             their == track[c]
             base == MergeBase(parents, store[c], our, their)
  <2>1. act' = [act EXCEPT ![c] = Idle] /\ UNCHANGED <<hand, track>>
    BY <1>9 DEF PullMerge, hubVars
  <2>2. act'[c] = Idle /\ \A d \in Client : d # c => act'[d] = act[d]
    BY <1>b, <2>1
  <2>3. Fetches(c)' /\ act'[c].op # "push"
    BY <1>e, <2>2 DEF Fetches
  <2>4. CASE branch' = [branch EXCEPT ![c] = their] /\ UNCHANGED <<parents, store>>
    <3>1. branch'[c] = track[c] /\ \A r \in Repo : r # c => branch'[r] = branch[r]
      BY <1>a, <1>b, <2>4
    <3> QED BY <1>c, <2>1, <2>2, <2>3, <2>4, <3>1, ClientKeeps
  <2>5. CASE our # NoCommit /\ base \notin {our, NoCommit} /\ CommitHere(c, <<our, their>>)
    <3> DEFINE ps == <<our, their>>
    <3>1. their # NoCommit
      <4>1. base \in Reach(parents, their)
        BY <1>b, <1>d, <2>5, MergeBaseIsCommon
      <4> QED BY <4>1, ReachNone
    <3>2. our \in 1..n /\ their \in 1..n
      BY <1>b, <1>d, <2>5, <3>1 DEF NoCommit
    <3>3. ps \in Seq(1..n) /\ CommitHere(c, ps) /\ DOMAIN ps = {1, 2} /\ ps[1] = our /\ ps[2] = their
      BY <2>5, <3>2
    <3> HIDE DEF ps
    <3>4. /\ \A r \in Repo : store[r] \subseteq store'[r]
          /\ Len(parents') \in store'[c]
          /\ branch'[c] = Len(parents')
          /\ \A r \in Repo : r # c => branch'[r] = branch[r]
          /\ \A x \in 0..n : Reach(parents', x) = Reach(parents, x)
          /\ Reach(parents', Len(parents')) = {Len(parents')} \cup UNION {Reach(parents, ps[i]) : i \in DOMAIN ps}
      BY <3>3, CommitGrows
    <3>5. \A i \in DOMAIN ps : Reach(parents, ps[i]) \subseteq store'[c]
      BY <1>a, <1>c, <3>3, <3>4
    <3>6. Reach(parents', branch'[c]) \subseteq store'[c]
      BY <3>4, <3>5
    <3>7. Reach(parents', track'[c]) \subseteq store'[c]
      BY <1>a, <1>c, <1>d, <2>1, <3>4
    <3> QED BY <2>1, <2>2, <2>3, <3>4, <3>6, <3>7, ClientKeeps
  <2> QED BY <1>9, <2>4, <2>5 DEF PullMerge
<1> QED BY <1>1, <1>2, <1>3, <1>4, <1>5, <1>6, <1>7, <1>8, <1>9 DEF ClientNext

\* A step that changes nothing.
LEMMA ClosedStutter == ClosedInv /\ UNCHANGED syncVars => ClosedInv'
BY DEF ClosedInv, RefsClosed, Waiting, Completing, syncVars

\* No reference ever names a commit whose history its repository does not have in full, through
\* partial ingests, lost replies, races of pushes and crashes of calls (RefsClosed).
THEOREM HistoriesComplete == Spec => []RefsClosed
<1>1. TypeInv /\ ClosedInv /\ [Next]_syncVars => ClosedInv'
  BY ClosedClient, ClosedHandler, ClosedStutter DEF Next
<1>2. ClosedInv => RefsClosed
  BY DEF ClosedInv
<1> QED BY <1>1, <1>2, ClosedInit, TypesHold, PTL DEF Spec

----------------------------------------------------------------------------
(* Acknowledged pushes                                                     *)

\* The parts of KeptInv about a client and a call.
InHub(x) == Reach(parents, x) \subseteq Reach(parents, branch[Hub])
Knows(c) == InHub(track[c]) /\ (act[c].op \in {"list", "unpack"} => InHub(act[c].target))
Acked(h) == hand[h].result = "ok" => InHub(hand[h].new)

\* KeptInv by its parts, in a state and in the next one.
LEMMA KeptParts ==
    /\ KeptInv <=> (~rewritten => (\A c \in Client : Knows(c)) /\ (\A h \in Handler : Acked(h)))
    /\ KeptInv' <=> (~rewritten' => (\A c \in Client : Knows(c)') /\ (\A h \in Handler : Acked(h)'))
BY Zenon DEF KeptInv, TrackingKept, Promised, Knows, Acked, InHub

\* What is in the hub's branch stays in it when the branch keeps its history.
LEMMA InHubStays ==
    ASSUME NEW x \in 0..Len(parents), InHub(x),
           \A y \in 0..Len(parents) : Reach(parents', y) = Reach(parents, y),
           Reach(parents, branch[Hub]) \subseteq Reach(parents', branch'[Hub])
    PROVE  Reach(parents', x) \subseteq Reach(parents', branch'[Hub])
BY DEF InHub

\* The initial states.
LEMMA KeptInit == Init => KeptInv
<1> SUFFICES ASSUME Init PROVE KeptInv
  OBVIOUS
<1>1. (\A c \in Client : act[c].op = "idle") /\ (\A h \in Handler : hand[h].result = "none")
  BY DEF Init, Idle, NoCall
<1>2. \A c \in Client : track[c] = branch[Hub]
  BY DEF Init, Repo
<1>3. (\A c \in Client : Knows(c)) /\ (\A h \in Handler : Acked(h))
  BY <1>1, <1>2 DEF Knows, Acked, InHub
<1> QED BY <1>3, KeptParts

\* An action of client c that leaves the hub's branch alone.
LEMMA KeptByClient ==
    ASSUME TypeInv, NEW c \in Client,
           \A d \in Client : Knows(d), \A h \in Handler : Acked(h),
           \A x \in 0..Len(parents) : Reach(parents', x) = Reach(parents, x),
           branch'[Hub] = branch[Hub],
           \A d \in Client : d # c => act'[d] = act[d] /\ track'[d] = track[d],
           \A h \in Handler : hand'[h] = hand[h] \/ hand'[h].result = "none",
           \E x \in 0..Len(parents) : track'[c] = x /\ InHub(x),
           act'[c].op \in {"list", "unpack"} => \E x \in 0..Len(parents) : act'[c].target = x /\ InHub(x)
    PROVE  (\A d \in Client : Knows(d)') /\ (\A h \in Handler : Acked(h)')
<1>0. /\ branch[Hub] \in 0..Len(parents)
      /\ \A d \in Client : track[d] \in 0..Len(parents) /\ act[d].target \in 0..Len(parents)
      /\ \A h \in Handler : hand[h].new \in 0..Len(parents)
  BY DEF TypeInv, Acts, Calls, Repo
<1>1. Reach(parents, branch[Hub]) \subseteq Reach(parents', branch'[Hub])
  BY <1>0
<1>2. \A x \in 0..Len(parents) : InHub(x) => Reach(parents', x) \subseteq Reach(parents', branch'[Hub])
  BY <1>1, InHubStays
<1>3. ASSUME NEW d \in Client PROVE Knows(d)'
  <2>1. CASE d = c
    BY <1>2, <2>1 DEF Knows, InHub
  <2>2. CASE d # c
    <3>1. Knows(d) /\ track[d] \in 0..Len(parents) /\ act[d].target \in 0..Len(parents)
      BY <1>0
    <3>2. InHub(track[d]) /\ (act[d].op \in {"list", "unpack"} => InHub(act[d].target))
      BY <3>1 DEF Knows
    <3> QED BY <1>2, <2>2, <3>1, <3>2 DEF Knows, InHub
  <2> QED BY <2>1, <2>2
<1>4. ASSUME NEW h \in Handler PROVE Acked(h)'
  <2>1. CASE hand'[h].result = "none"
    BY <2>1 DEF Acked
  <2>2. CASE hand'[h] = hand[h]
    <3>1. hand[h].result = "ok" => InHub(hand[h].new)
      BY DEF Acked
    <3> QED BY <1>0, <1>2, <2>2, <3>1 DEF Acked, InHub
  <2> QED BY <2>1, <2>2
<1> QED BY <1>3, <1>4

\* An action of call h that moves the hub's branch forward or not at all.
LEMMA KeptByHandler ==
    ASSUME TypeInv, NEW h \in Handler,
           \A d \in Client : Knows(d), \A g \in Handler : Acked(g),
           UNCHANGED <<parents, track, act>>,
           Reach(parents, branch[Hub]) \subseteq Reach(parents, branch'[Hub]),
           \A g \in Handler : g # h => hand'[g] = hand[g],
           Acked(h)'
    PROVE  (\A d \in Client : Knows(d)') /\ (\A g \in Handler : Acked(g)')
BY DEF Knows, Acked, InHub

\* An action of a client keeps what clients were told.
LEMMA KeptClient ==
    ASSUME TypeInv, KeptInv, NEW c \in Client, ClientNext(c)
    PROVE  KeptInv'
<1> DEFINE n == Len(parents)
<1>a. Hub \in Repo /\ Client \subseteq Repo /\ Hub \notin Client /\ c \in Repo /\ c # Hub
  BY HubAssumption DEF Repo
<1>b. /\ IsGraph(parents) /\ n \in Nat /\ DOMAIN parents = 1..n
      /\ act \in [Client -> Acts(n)] /\ act[c] \in Acts(n) /\ hand \in [Handler -> Calls(n)]
      /\ store \in [Repo -> SUBSET (1..n)] /\ branch \in [Repo -> 0..n] /\ track \in [Client -> 0..n]
  BY GraphDomain DEF TypeInv
<1>d. act[c].target \in 0..n /\ branch[c] \in 0..n /\ branch[Hub] \in 0..n /\ track[c] \in 0..n
  BY <1>a, <1>b DEF Acts
<1>e. Idle.op = "idle" /\ NoCall.result = "none"
  BY DEF Idle, NoCall
<1>0. rewritten' = rewritten
  BY DEF ClientNext, LocalCommit, Push, Reply, LoseReply, ListRefs, FetchPack, Unpack, UpdateTracking,
         PullMerge, ClientStops, hubVars
<1> SUFFICES ASSUME ~rewritten PROVE (\A d \in Client : Knows(d)') /\ (\A h \in Handler : Acked(h)')
  BY <1>0, KeptParts, Zenon
<1>f. (\A d \in Client : Knows(d)) /\ (\A h \in Handler : Acked(h))
  BY KeptParts, Zenon
<1>g. InHub(track[c]) /\ (act[c].op \in {"list", "unpack"} => InHub(act[c].target)) /\ InHub(branch[Hub])
  BY <1>f DEF Knows, InHub
<1>1. CASE LocalCommit(c)
  <2>1. Refs(branch[c]) \in Seq(1..n)
    BY <1>b, <1>d, RefsListed
  <2>2. CommitHere(c, Refs(branch[c])) /\ UNCHANGED <<hand, track, act>> /\ act[c].op = "idle"
    BY <1>1 DEF LocalCommit, hubVars
  <2>3. (\A r \in Repo : r # c => branch'[r] = branch[r]) /\ \A x \in 0..n : Reach(parents', x) = Reach(parents, x)
    BY <2>1, <2>2, CommitGrows
  <2> QED BY <1>a, <1>d, <1>f, <1>g, <2>2, <2>3, KeptByClient
<1>2. CASE \E h \in Handler, f \in Forces : Push(c, h, f)
  <2>1. PICK h \in Handler, f \in Forces : Push(c, h, f)
    BY <1>2
  <2>2. PICK todo : hand' = [hand EXCEPT ![h] = [NoCall EXCEPT !.pc = "ingest", !.old = branch[Hub],
                                              !.new = branch[c], !.force = f, !.todo = todo]]
    BY <2>1 DEF Push
  <2>3. /\ act' = [act EXCEPT ![c] = [Idle EXCEPT !.op = "push", !.h = h]]
        /\ UNCHANGED <<parents, branch, track>>
    BY <2>1 DEF Push
  <2>4. \A g \in Handler : hand'[g] = hand[g] \/ hand'[g].result = "none"
    BY <1>b, <2>2 DEF NoCall
  <2>5. act'[c].op = "push" /\ \A d \in Client : d # c => act'[d] = act[d]
    BY <1>b, <2>3 DEF Idle
  <2> QED BY <1>d, <1>f, <1>g, <2>3, <2>4, <2>5, KeptByClient
<1>3. CASE \E h \in Handler : Reply(c, h)
  <2>1. PICK h \in Handler : Reply(c, h)
    BY <1>3
  <2>2. /\ (hand[h].result = "ok" /\ track' = [track EXCEPT ![c] = hand[h].new]) \/ track' = track
        /\ act' = [act EXCEPT ![c] = Idle]
        /\ hand' = [hand EXCEPT ![h] = NoCall]
        /\ UNCHANGED <<parents, store, branch>>
    BY <2>1 DEF Reply
  <2>3. hand[h].new \in 0..n /\ (hand[h].result = "ok" => InHub(hand[h].new))
    BY <1>b, <1>f DEF Acked, Calls
  <2>4. /\ \A g \in Handler : hand'[g] = hand[g] \/ hand'[g].result = "none"
        /\ act'[c].op = "idle" /\ (\A d \in Client : d # c => act'[d] = act[d] /\ track'[d] = track[d])
        /\ (hand[h].result = "ok" /\ track'[c] = hand[h].new) \/ track'[c] = track[c]
    BY <1>b, <1>e, <2>2
  <2>5. \E x \in 0..n : track'[c] = x /\ InHub(x)
    BY <1>d, <1>g, <2>3, <2>4
  <2> QED BY <1>f, <2>2, <2>4, <2>5, KeptByClient
<1>4. CASE LoseReply(c) \/ ClientStops(c)
  <2>1. act' = [act EXCEPT ![c] = Idle] /\ UNCHANGED <<hand, parents, store, branch, track>>
    BY <1>4 DEF LoseReply, ClientStops, hubVars
  <2>2. act'[c].op = "idle" /\ \A d \in Client : d # c => act'[d] = act[d]
    BY <1>b, <1>e, <2>1
  <2> QED BY <1>d, <1>f, <1>g, <2>1, <2>2, KeptByClient
<1>5. CASE ListRefs(c)
  <2>1. act' = [act EXCEPT ![c] = [Idle EXCEPT !.op = "list", !.target = branch[Hub]]]
        /\ UNCHANGED <<hand, parents, store, branch, track>>
    BY <1>5 DEF ListRefs, hubVars
  <2>2. act'[c].target = branch[Hub] /\ \A d \in Client : d # c => act'[d] = act[d]
    BY <1>b, <2>1 DEF Idle
  <2> QED BY <1>d, <1>f, <1>g, <2>1, <2>2, KeptByClient
<1>6. CASE FetchPack(c)
  <2>1. PICK todo : act' = [act EXCEPT ![c] = [act[c] EXCEPT !.op = "unpack", !.todo = todo]]
    BY <1>6 DEF FetchPack
  <2>2. act[c].op = "list" /\ UNCHANGED <<hand, parents, store, branch, track>>
    BY <1>6 DEF FetchPack, hubVars
  <2>3. act'[c].target = act[c].target /\ \A d \in Client : d # c => act'[d] = act[d]
    BY <1>b, <2>1 DEF Acts
  <2> QED BY <1>d, <1>f, <1>g, <2>2, <2>3, KeptByClient
<1>7. CASE \E x \in act[c].todo : Unpack(c, x)
  <2>1. PICK x \in act[c].todo : Unpack(c, x)
    BY <1>7
  <2>2. act[c].op = "unpack" /\ act' = [act EXCEPT ![c] = [act[c] EXCEPT !.todo = @ \ {x}]]
        /\ UNCHANGED <<hand, parents, branch, track>>
    BY <2>1 DEF Unpack, hubVars
  <2>3. act'[c].target = act[c].target /\ \A d \in Client : d # c => act'[d] = act[d]
    BY <1>b, <2>2 DEF Acts
  <2> QED BY <1>d, <1>f, <1>g, <2>2, <2>3, KeptByClient
<1>8. CASE UpdateTracking(c)
  <2>1. /\ act[c].op = "unpack"
        /\ track' = [track EXCEPT ![c] = act[c].target]
        /\ act' = [act EXCEPT ![c] = [Idle EXCEPT !.op = "merge"]]
        /\ UNCHANGED <<hand, parents, store, branch>>
    BY <1>8 DEF UpdateTracking, hubVars
  <2>2. act'[c].op = "merge" /\ track'[c] = act[c].target
        /\ \A d \in Client : d # c => act'[d] = act[d] /\ track'[d] = track[d]
    BY <1>b, <2>1 DEF Idle
  <2> QED BY <1>d, <1>f, <1>g, <2>1, <2>2, KeptByClient
<1>9. CASE PullMerge(c)
  <2>1. act' = [act EXCEPT ![c] = Idle] /\ UNCHANGED <<hand, track>>
    BY <1>9 DEF PullMerge, hubVars
  <2>2. act'[c].op = "idle" /\ \A d \in Client : d # c => act'[d] = act[d]
    BY <1>b, <1>e, <2>1
  <2>3. branch'[Hub] = branch[Hub] /\ \A x \in 0..n : Reach(parents', x) = Reach(parents, x)
    BY <1>9, PullGrows DEF PullMerge
  <2> QED BY <1>d, <1>f, <1>g, <2>1, <2>2, <2>3, KeptByClient
<1> QED BY <1>1, <1>2, <1>3, <1>4, <1>5, <1>6, <1>7, <1>8, <1>9 DEF ClientNext

\* What Goto does to call h and to the others.
LEMMA GotoChanges ==
    ASSUME TypeInv, NEW h \in Handler,
           NEW l \in {"check", "write", "release", "reply"}, NEW r \in {"none", "ok", "refused"}, Goto(h, l, r)
    PROVE  /\ hand'[h].pc = l /\ hand'[h].result = r
           /\ hand'[h].old = hand[h].old /\ hand'[h].new = hand[h].new /\ hand'[h].force = hand[h].force
           /\ \A g \in Handler : g # h => hand'[g] = hand[g]
<1>1. hand \in [Handler -> Calls(Len(parents))] /\ hand[h] \in Calls(Len(parents))
  BY DEF TypeInv
<1>2. hand'[h] = [hand[h] EXCEPT !.pc = l, !.result = r] /\ \A g \in Handler : g # h => hand'[g] = hand[g]
  BY <1>1 DEF Goto
<1> QED BY <1>1, <1>2 DEF Calls

\* An action of a call keeps what clients were told.
LEMMA KeptHandler ==
    ASSUME TypeInv, KeptInv, NEW h \in Handler, HandlerNext(h)
    PROVE  KeptInv'
<1> DEFINE n == Len(parents)
<1>a. Hub \in Repo
  BY DEF Repo
<1>b. /\ IsGraph(parents) /\ hand \in [Handler -> Calls(n)] /\ hand[h] \in Calls(n)
      /\ branch \in [Repo -> 0..n] /\ branch[Hub] \in 0..n /\ hand[h].new \in 0..n
      /\ hand[h].result \in {"none", "ok", "refused"}
  BY <1>a DEF TypeInv, Calls
<1>c. NoCall.result = "none"
  BY DEF NoCall
<1>1. CASE WriteRef(h)
  <2>1. /\ branch' = [branch EXCEPT ![Hub] = hand[h].new]
        /\ Goto(h, "release", "ok")
        /\ UNCHANGED <<parents, track, act>>
    BY <1>1 DEF WriteRef
  <2>2. rewritten' = (rewritten \/ (branch[Hub] # NoCommit /\ ~IsAncestor(parents, branch[Hub], hand[h].new)))
    BY <1>1 DEF WriteRef
  <2> SUFFICES ASSUME ~rewritten' PROVE (\A d \in Client : Knows(d)') /\ (\A g \in Handler : Acked(g)')
    BY KeptParts, Zenon
  <2>3. ~rewritten
    BY <2>2, Zenon
  <2>4. branch[Hub] = NoCommit \/ IsAncestor(parents, branch[Hub], hand[h].new)
    BY <2>2, Zenon
  <2>5. (\A d \in Client : Knows(d)) /\ (\A g \in Handler : Acked(g))
    BY <2>3, KeptParts, Zenon
  <2>6. branch'[Hub] = hand[h].new
    BY <1>a, <1>b, <2>1
  <2>7. Reach(parents, branch[Hub]) \subseteq Reach(parents, branch'[Hub])
    <3>1. CASE branch[Hub] = NoCommit
      BY <3>1, ReachNone
    <3>2. CASE IsAncestor(parents, branch[Hub], hand[h].new)
      <4>1. branch[Hub] \in Reach(parents, hand[h].new)
        BY <3>2 DEF IsAncestor
      <4> QED BY <1>b, <2>6, <4>1, ReachTransitive
    <3> QED BY <2>4, <3>1, <3>2
  <2>8. hand'[h].new = hand[h].new /\ \A g \in Handler : g # h => hand'[g] = hand[g]
    BY <2>1, GotoChanges
  <2>9. Acked(h)'
    BY <2>6, <2>8 DEF Acked, InHub
  <2> QED BY <2>1, <2>5, <2>7, <2>8, <2>9, KeptByHandler
<1>2. CASE ~WriteRef(h)
  <2>1. UNCHANGED <<parents, branch, track, act, rewritten>>
    BY <1>2 DEF HandlerNext, Ingest, AcquireRefs, ReceiveFails, Check, WriteFails, Release, Discard, Crash
  <2> SUFFICES ASSUME ~rewritten PROVE (\A d \in Client : Knows(d)') /\ (\A g \in Handler : Acked(g)')
    BY <2>1, KeptParts, Zenon
  <2>2. (\A d \in Client : Knows(d)) /\ (\A g \in Handler : Acked(g))
    BY KeptParts, Zenon
  <2>3. /\ \A g \in Handler : g # h => hand'[g] = hand[g]
        /\ hand'[h].result # "ok" \/ (hand'[h].result = hand[h].result /\ hand'[h].new = hand[h].new)
    <3>1. CASE \E x \in hand[h].todo : Ingest(h, x)
      <4>1. PICK x \in hand[h].todo : hand' = [hand EXCEPT ![h] = [hand[h] EXCEPT !.todo = @ \ {x}]]
        BY <3>1 DEF Ingest
      <4> QED BY <1>b, <4>1 DEF Calls
    <3>2. CASE AcquireRefs(h)
      <4>1. Goto(h, "check", "none")
        BY <3>2 DEF AcquireRefs
      <4> QED BY <4>1, GotoChanges
    <3>3. CASE ReceiveFails(h) \/ Check(h) \/ WriteFails(h)
      <4>1. Goto(h, "reply", "refused") \/ Goto(h, "write", "none") \/ Goto(h, "release", "refused")
        BY <3>3 DEF ReceiveFails, Check, WriteFails
      <4> QED BY <4>1, GotoChanges
    <3>4. CASE Release(h)
      <4>1. \/ hand[h].result = "none" /\ Goto(h, "reply", "none")
            \/ hand[h].result = "ok" /\ Goto(h, "reply", "ok")
            \/ hand[h].result = "refused" /\ Goto(h, "reply", "refused")
        BY <1>b, <3>4 DEF Release
      <4> QED BY <4>1, GotoChanges
    <3>5. CASE Discard(h) \/ Crash(h)
      <4>1. hand' = [hand EXCEPT ![h] = NoCall] \/ hand' = [hand EXCEPT ![h] = [NoCall EXCEPT !.pc = "dead"]]
        BY <3>5 DEF Discard, Crash
      <4> QED BY <1>b, <4>1 DEF NoCall
    <3> QED BY <1>2, <3>1, <3>2, <3>3, <3>4, <3>5 DEF HandlerNext
  <2>4. Acked(h)'
    BY <2>1, <2>2, <2>3 DEF Acked, InHub
  <2> QED BY <2>1, <2>2, <2>3, <2>4, KeptByHandler
<1> QED BY <1>1, <1>2

\* A step that changes nothing.
LEMMA KeptStutter == KeptInv /\ UNCHANGED syncVars => KeptInv'
<1> SUFFICES ASSUME KeptInv, UNCHANGED syncVars PROVE KeptInv'
  OBVIOUS
<1>1. UNCHANGED <<parents, branch, track, act, hand, rewritten>>
  BY DEF syncVars
<1>2. ASSUME NEW c \in Client, Knows(c) PROVE Knows(c)'
  BY <1>1, <1>2 DEF Knows, InHub
<1>3. ASSUME NEW h \in Handler, Acked(h) PROVE Acked(h)'
  BY <1>1, <1>3 DEF Acked, InHub
<1> QED BY <1>1, <1>2, <1>3, KeptParts, Zenon

\* Until a forced push drops commits of the hub's branch, what a client was told of the branch
\* stays in it: no acknowledged push is lost, however pushes race, calls crash and replies get
\* lost (TrackingKept).
THEOREM PushesKept == Spec => []TrackingKept
<1>1. TypeInv /\ KeptInv /\ [Next]_syncVars => KeptInv'
  BY KeptClient, KeptHandler, KeptStutter DEF Next
<1>2. KeptInv => TrackingKept
  BY DEF KeptInv
<1> QED BY <1>1, <1>2, KeptInit, TypesHold, PTL DEF Spec

----------------------------------------------------------------------------
(* The refs lock                                                           *)

\* Exclusive for one call.
Holds(h) ==
    /\ hand[h].pc \in {"check", "write", "release"} => lockFile["refs"] = h
    /\ hand[h].pc \in {"ingest", "check", "write"} => hand[h].result = "none" /\ hand[h].new # NoCommit
    /\ hand[h].pc = "write" =>
          /\ branch[Hub] = hand[h].old
          /\ hand[h].force \/ branch[Hub] = NoCommit \/ IsAncestor(parents, branch[Hub], hand[h].new)

\* Exclusive, call by call.
LEMMA ExclusiveParts ==
    /\ Exclusive <=> \A h \in Handler : Holds(h)
    /\ Exclusive' <=> \A h \in Handler : Holds(h)'
BY Zenon DEF Exclusive, Holds

\* A call that a step leaves alone, with its branch and its lock.
LEMMA HoldsStays ==
    ASSUME TypeInv, NEW g \in Handler, Holds(g), hand'[g] = hand[g],
           lockFile' = lockFile, branch'[Hub] = branch[Hub],
           \A x \in 0..Len(parents) : Reach(parents', x) = Reach(parents, x)
    PROVE  Holds(g)'
<1>1. hand[g].new \in 0..Len(parents)
  BY DEF TypeInv, Calls
<1>2. Reach(parents', hand[g].new) = Reach(parents, hand[g].new)
  BY <1>1
<1> QED BY <1>2 DEF Holds, IsAncestor

\* A call that a step leaves alone, when another call has the lock or nobody has.
LEMMA HoldsNothing ==
    ASSUME NEW h \in Handler, NEW g \in Handler, g # h, Holds(g), hand'[g] = hand[g],
           lockFile["refs"] \in {Free, h}
    PROVE  Holds(g)'
<1>1. hand[g].pc \notin {"check", "write", "release"}
  BY FreeAssumption DEF Holds, Handler
<1> QED BY <1>1 DEF Holds

\* The initial states.
LEMMA ExclusiveInit == Init => Exclusive
<1> SUFFICES ASSUME Init PROVE Exclusive
  OBVIOUS
<1>1. \A h \in Handler : hand[h].pc = "idle"
  BY DEF Init, NoCall
<1>2. \A h \in Handler : Holds(h)
  BY <1>1 DEF Holds
<1> QED BY <1>2, ExclusiveParts

\* What an action of a client leaves: the lock, the hub's branch, the ancestors of the commits
\* there are and every call but the one it makes or ends.
LEMMA ClientLeaves ==
    ASSUME TypeInv, NEW c \in Client, ClientNext(c)
    PROVE  /\ UNCHANGED <<lockFile, rewritten>>
           /\ branch'[Hub] = branch[Hub]
           /\ \A x \in 0..Len(parents) : Reach(parents', x) = Reach(parents, x)
<1>1. UNCHANGED <<lockFile, rewritten>>
  BY DEF ClientNext, LocalCommit, Push, Reply, LoseReply, ListRefs, FetchPack, Unpack, UpdateTracking,
         PullMerge, ClientStops, hubVars
<1>a. Hub \in Repo /\ c # Hub /\ c \in Repo
  BY HubAssumption DEF Repo
<1>b. IsGraph(parents) /\ branch[c] \in 0..Len(parents) /\ DOMAIN parents = 1..Len(parents)
  BY <1>a, GraphDomain DEF TypeInv
<1>2. CASE LocalCommit(c)
  <2>1. Refs(branch[c]) \in Seq(1..Len(parents)) /\ CommitHere(c, Refs(branch[c]))
    BY <1>2, <1>b, RefsListed DEF LocalCommit
  <2>2. /\ \A r \in Repo : r # c => branch'[r] = branch[r]
        /\ \A x \in 0..Len(parents) : Reach(parents', x) = Reach(parents, x)
    BY <2>1, CommitGrows
  <2> QED BY <1>1, <1>a, <2>2
<1>3. CASE PullMerge(c)
  BY <1>1, <1>3, PullGrows
<1>4. CASE ~LocalCommit(c) /\ ~PullMerge(c)
  <2>1. UNCHANGED <<branch, parents>>
    BY <1>4 DEF ClientNext, Push, Reply, LoseReply, ListRefs, FetchPack, Unpack, UpdateTracking, ClientStops
  <2> QED BY <1>1, <2>1
<1> QED BY <1>2, <1>3, <1>4

\* An action of a client keeps the lock's promise.
LEMMA ExclusiveClient ==
    ASSUME TypeInv, Exclusive, NEW c \in Client, ClientNext(c)
    PROVE  Exclusive'
<1>0. \A h \in Handler : Holds(h)
  BY ExclusiveParts
<1>1. hand \in [Handler -> Calls(Len(parents))]
  BY DEF TypeInv
<1>2. /\ lockFile' = lockFile /\ branch'[Hub] = branch[Hub]
      /\ \A x \in 0..Len(parents) : Reach(parents', x) = Reach(parents, x)
  BY ClientLeaves
<1> SUFFICES ASSUME NEW g \in Handler PROVE Holds(g)'
  BY ExclusiveParts
<1>3. CASE hand'[g] = hand[g]
  BY <1>0, <1>2, <1>3, HoldsStays
<1>4. CASE \E h \in Handler, f \in Forces : Push(c, h, f)
  <2>1. PICK h \in Handler, f \in Forces : Push(c, h, f)
    BY <1>4
  <2>2. PICK todo : hand' = [hand EXCEPT ![h] = [NoCall EXCEPT !.pc = "ingest", !.old = branch[Hub],
                                              !.new = branch[c], !.force = f, !.todo = todo]]
    BY <2>1 DEF Push
  <2>3. branch[c] # NoCommit
    BY <2>1 DEF Push
  <2>4. CASE g # h
    BY <1>1, <1>3, <2>2, <2>4
  <2>5. CASE g = h
    <3>1. hand'[g].pc = "ingest" /\ hand'[g].result = "none" /\ hand'[g].new = branch[c]
      BY <1>1, <2>2, <2>5 DEF NoCall
    <3> QED BY <2>3, <3>1 DEF Holds
  <2> QED BY <2>4, <2>5
<1>5. CASE \E h \in Handler : Reply(c, h)
  <2>1. PICK h \in Handler : hand' = [hand EXCEPT ![h] = NoCall]
    BY <1>5 DEF Reply
  <2>2. CASE g # h
    BY <1>1, <1>3, <2>1, <2>2
  <2>3. CASE g = h
    <3>1. hand'[g].pc = "idle"
      BY <1>1, <2>1, <2>3 DEF NoCall
    <3> QED BY <3>1 DEF Holds
  <2> QED BY <2>2, <2>3
<1>6. CASE ~(\E h \in Handler, f \in Forces : Push(c, h, f)) /\ ~(\E h \in Handler : Reply(c, h))
  <2>1. hand' = hand
    BY <1>6 DEF ClientNext, LocalCommit, LoseReply, ListRefs, FetchPack, Unpack, UpdateTracking,
         PullMerge, ClientStops, hubVars
  <2> QED BY <1>3, <2>1
<1> QED BY <1>4, <1>5, <1>6

\* What a check that succeeds has found: the value the client saw, and a fast-forward unless forced.
LEMMA CheckFinds ==
    ASSUME TypeInv, NEW h \in Handler, Check(h), hand'[h].pc # "release"
    PROVE  /\ branch[Hub] = hand[h].old
           /\ hand[h].force \/ branch[Hub] = NoCommit \/ IsAncestor(parents, branch[Hub], hand[h].new)
<1> DEFINE fastForward == MergeBase(parents, store[Hub], branch[Hub], hand[h].new) = branch[Hub]
           ok == /\ branch[Hub] = hand[h].old
                 /\ hand[h].new \in store[Hub]
                 /\ hand[h].force \/ branch[Hub] = NoCommit \/ fastForward
<1>1. IF ok THEN Goto(h, "write", "none") ELSE Goto(h, "release", "refused")
  BY DEF Check
<1>2. ok
  <2>1. ASSUME Goto(h, "release", "refused") PROVE hand'[h].pc = "release"
    BY <2>1, GotoChanges
  <2> HIDE DEF ok
  <2> QED BY <1>1, <2>1
<1>3. ASSUME branch[Hub] # NoCommit, fastForward PROVE IsAncestor(parents, branch[Hub], hand[h].new)
  <2>1. /\ IsGraph(parents) /\ store[Hub] \in SUBSET DOMAIN parents
        /\ branch[Hub] \in 0..Len(parents) /\ hand[h].new \in 0..Len(parents)
    BY GraphDomain DEF TypeInv, Repo, Calls
  <2>2. MergeBase(parents, store[Hub], branch[Hub], hand[h].new) \in
            Reach(parents, branch[Hub]) \cap Reach(parents, hand[h].new)
    BY <1>3, <2>1, MergeBaseIsCommon
  <2> QED BY <1>3, <2>2 DEF IsAncestor
<1> QED BY <1>2, <1>3

\* An action of a call keeps the lock's promise.
LEMMA ExclusiveHandler ==
    ASSUME TypeInv, Exclusive, NEW h \in Handler, HandlerNext(h)
    PROVE  Exclusive'
<1>0. \A g \in Handler : Holds(g)
  BY ExclusiveParts
<1>b. /\ lockFile \in [Lock -> Handler \cup {Free}] /\ "refs" \in Lock
      /\ hand \in [Handler -> Calls(Len(parents))] /\ hand[h] \in Calls(Len(parents))
      /\ hand[h].result \in {"none", "ok", "refused"}
  BY DEF TypeInv, Calls, Lock
<1>c. ASSUME Holds(h)', \A g \in Handler : g # h => hand'[g] = hand[g],
             \/ UNCHANGED <<lockFile, branch, parents>>
             \/ lockFile["refs"] \in {Free, h}
      PROVE  Exclusive'
  <2> SUFFICES ASSUME NEW g \in Handler PROVE Holds(g)'
    BY ExclusiveParts
  <2>1. CASE g = h
    BY <1>c, <2>1
  <2>2. CASE g # h
    <3>1. CASE UNCHANGED <<lockFile, branch, parents>>
      BY <1>0, <1>c, <2>2, <3>1, HoldsStays
    <3>2. CASE lockFile["refs"] \in {Free, h}
      BY <1>0, <1>c, <2>2, <3>2, HoldsNothing
    <3> QED BY <1>c, <3>1, <3>2
  <2> QED BY <2>1, <2>2
<1>1. CASE \E x \in hand[h].todo : Ingest(h, x)
  <2>1. PICK x \in hand[h].todo : hand' = [hand EXCEPT ![h] = [hand[h] EXCEPT !.todo = @ \ {x}]]
    BY <1>1 DEF Ingest
  <2>2. hand[h].pc = "ingest" /\ UNCHANGED <<lockFile, branch, parents>>
    BY <1>1 DEF Ingest
  <2>3. /\ hand'[h].pc = "ingest" /\ hand'[h].result = hand[h].result /\ hand'[h].new = hand[h].new
        /\ \A g \in Handler : g # h => hand'[g] = hand[g]
    BY <1>b, <2>1, <2>2 DEF Calls
  <2>4. Holds(h)'
    BY <1>0, <2>2, <2>3 DEF Holds
  <2> QED BY <1>c, <2>2, <2>3, <2>4
<1>2. CASE AcquireRefs(h)
  <2>1. hand[h].pc = "ingest" /\ lockFile["refs"] = Free /\ Goto(h, "check", "none")
        /\ lockFile' = [lockFile EXCEPT !["refs"] = h]
    BY <1>2 DEF AcquireRefs, TryAcquire
  <2>2. /\ hand'[h].pc = "check" /\ hand'[h].result = "none" /\ hand'[h].new = hand[h].new
        /\ \A g \in Handler : g # h => hand'[g] = hand[g]
    BY <2>1, GotoChanges
  <2>3. lockFile'["refs"] = h
    BY <1>b, <2>1
  <2>4. Holds(h)'
    BY <1>0, <2>1, <2>2, <2>3 DEF Holds
  <2> QED BY <1>c, <2>1, <2>2, <2>4
<1>3. CASE ReceiveFails(h)
  <2>1. Goto(h, "reply", "refused") /\ UNCHANGED <<lockFile, branch, parents>>
    BY <1>3 DEF ReceiveFails
  <2>2. hand'[h].pc = "reply" /\ \A g \in Handler : g # h => hand'[g] = hand[g]
    BY <2>1, GotoChanges
  <2>3. Holds(h)'
    BY <2>2 DEF Holds
  <2> QED BY <1>c, <2>1, <2>2, <2>3
<1>4. CASE Check(h)
  <2>1. /\ hand[h].pc = "check" /\ UNCHANGED <<lockFile, branch, parents>>
        /\ Goto(h, "write", "none") \/ Goto(h, "release", "refused")
    BY <1>4 DEF Check
  <2>2. /\ hand'[h].old = hand[h].old /\ hand'[h].new = hand[h].new /\ hand'[h].force = hand[h].force
        /\ \/ hand'[h].pc = "write" /\ hand'[h].result = "none"
           \/ hand'[h].pc = "release"
        /\ \A g \in Handler : g # h => hand'[g] = hand[g]
    BY <2>1, GotoChanges
  <2>3. lockFile["refs"] = h /\ hand[h].new # NoCommit
    BY <1>0, <2>1 DEF Holds
  <2>4. hand'[h].pc = "write" =>
           /\ branch[Hub] = hand[h].old
           /\ hand[h].force \/ branch[Hub] = NoCommit \/ IsAncestor(parents, branch[Hub], hand[h].new)
    BY <1>4, CheckFinds
  <2>5. Holds(h)'
    BY <2>1, <2>2, <2>3, <2>4 DEF Holds
  <2> QED BY <1>c, <2>1, <2>2, <2>5
<1>5. CASE WriteRef(h) \/ WriteFails(h)
  <2>1. hand[h].pc = "write" /\ lockFile' = lockFile /\ (Goto(h, "release", "ok") \/ Goto(h, "release", "refused"))
    BY <1>5 DEF WriteRef, WriteFails
  <2>2. hand'[h].pc = "release" /\ \A g \in Handler : g # h => hand'[g] = hand[g]
    BY <2>1, GotoChanges
  <2>3. lockFile["refs"] = h
    BY <1>0, <2>1 DEF Holds
  <2>4. Holds(h)'
    BY <2>1, <2>2, <2>3 DEF Holds
  <2> QED BY <1>c, <2>2, <2>3, <2>4
<1>6. CASE Release(h)
  <2>1. hand[h].pc = "release"
        /\ (Goto(h, "reply", "none") \/ Goto(h, "reply", "ok") \/ Goto(h, "reply", "refused"))
    BY <1>b, <1>6 DEF Release
  <2>2. hand'[h].pc = "reply" /\ \A g \in Handler : g # h => hand'[g] = hand[g]
    BY <2>1, GotoChanges
  <2>3. lockFile["refs"] = h
    BY <1>0, <2>1 DEF Holds
  <2>4. Holds(h)'
    BY <2>2 DEF Holds
  <2> QED BY <1>c, <2>2, <2>3, <2>4
<1>7. CASE Discard(h) \/ Crash(h)
  <2>1. /\ hand' = [hand EXCEPT ![h] = NoCall] \/ hand' = [hand EXCEPT ![h] = [NoCall EXCEPT !.pc = "dead"]]
        /\ UNCHANGED <<lockFile, branch, parents>>
    BY <1>7 DEF Discard, Crash
  <2>2. hand'[h].pc \in {"idle", "dead"} /\ \A g \in Handler : g # h => hand'[g] = hand[g]
    BY <1>b, <2>1 DEF NoCall
  <2>3. Holds(h)'
    BY <2>2 DEF Holds
  <2> QED BY <1>c, <2>1, <2>2, <2>3
<1> QED BY <1>1, <1>2, <1>3, <1>4, <1>5, <1>6, <1>7 DEF HandlerNext

\* A step that changes nothing.
LEMMA ExclusiveStutter == Exclusive /\ UNCHANGED syncVars => Exclusive'
BY DEF Exclusive, syncVars

\* A call that has compared the branch with the value its client saw still finds that value when
\* it writes: no other call comes between check and write (Exclusive).
THEOREM UpdatesExclusive == Spec => []Exclusive
<1>1. TypeInv /\ Exclusive /\ [Next]_syncVars => Exclusive'
  BY ExclusiveClient, ExclusiveHandler, ExclusiveStutter DEF Next
<1> QED BY <1>1, ExclusiveInit, TypesHold, PTL DEF Spec

----------------------------------------------------------------------------
(* The refinement                                                          *)

\* The requests of RemoteBranch, as Sync serves them.
Requests == [h \in Handler |-> RequestOf(h)]

\* A commit is made whose list of parents is in Ps.
Grows(Ps) == \E ps \in Ps : parents' = Append(parents, ps)

\* The two modules mean the same by an ancestor.
LEMMA SameAncestors == \A G, a, b : Remote!IsAncestor(G, a, b) <=> IsAncestor(G, a, b)
BY DEF Remote!IsAncestor, IsAncestor, Remote!Reach, Reach, Remote!NoCommit, NoCommit

\* The request of a call that is not over, and of one that is.
LEMMA RequestFields ==
    ASSUME NEW h \in Handler
    PROVE  /\ hand[h].pc \in {"idle", "dead"} => RequestOf(h) = NoRequest
           /\ hand[h].pc \notin {"idle", "dead"} =>
                 /\ RequestOf(h) # NoRequest
                 /\ RequestOf(h).old = hand[h].old /\ RequestOf(h).new = hand[h].new
                 /\ RequestOf(h).force = hand[h].force
                 /\ hand[h].result = "none" => RequestOf(h).status = "open"
<1>1. CASE hand[h].pc \in {"idle", "dead"}
  BY <1>1 DEF RequestOf
<1>2. CASE hand[h].pc \notin {"idle", "dead"}
  <2> DEFINE s == IF hand[h].result = "none" THEN "open"
                  ELSE IF hand[h].result = "ok" THEN "moved" ELSE "refused"
  <2>1. RequestOf(h) = [old |-> hand[h].old, new |-> hand[h].new, force |-> hand[h].force, status |-> s]
    BY <1>2 DEF RequestOf
  <2>2. s # "none" /\ (hand[h].result = "none" => s = "open")
    OBVIOUS
  <2> HIDE DEF s
  <2>3. RequestOf(h).status = s /\ NoRequest.status = "none"
    BY <2>1 DEF NoRequest
  <2> QED BY <1>2, <2>1, <2>2, <2>3
<1> QED BY <1>1, <1>2

\* The initial states map to initial states.
LEMMA RefinesInit == Init => Remote!Init
<1> SUFFICES ASSUME Init PROVE Remote!Init
  OBVIOUS
<1>1. \A h \in Handler : RequestOf(h) = NoRequest
  BY DEF Init, NoCall, RequestOf
<1>2. [h \in Handler |-> RequestOf(h)] = [h \in Handler |-> NoRequest]
  BY <1>1
<1>3. (parents = << >> /\ branch[Hub] = NoCommit) \/ (parents = << << >> >> /\ branch[Hub] = 1)
  BY DEF Init, Repo
<1> QED BY <1>2, <1>3 DEF Remote!Init, Remote!NoCommit, NoCommit

\* A step that leaves graph, branch and requests alone is a stutter.
LEMMA RefinesStutter ==
    ASSUME UNCHANGED parents, branch'[Hub] = branch[Hub], \A h \in Handler : RequestOf(h)' = RequestOf(h)
    PROVE  UNCHANGED Remote!vars
<1>1. UNCHANGED [h \in Handler |-> RequestOf(h)]
  BY Zenon
<1> QED BY <1>1 DEF Remote!vars

\* Requests that a step leaves alone.
LEMMA RequestKept ==
    ASSUME NEW g \in Handler, hand'[g] = hand[g]
    PROVE  RequestOf(g)' = RequestOf(g)
BY DEF RequestOf, NoRequest

\* The requests after a step that changes only the one of h.
LEMMA RequestsStep ==
    ASSUME NEW h \in Handler, \A g \in Handler : g # h => hand'[g] = hand[g]
    PROVE  /\ Requests[h] = RequestOf(h)
           /\ RequestOf(h)' = NoRequest => Requests' = [Requests EXCEPT ![h] = NoRequest]
           /\ \A s \in {"moved", "refused"} :
                 RequestOf(h)' = [RequestOf(h) EXCEPT !.status = s] => Requests' = [Requests EXCEPT ![h].status = s]
           /\ RequestOf(h)' = RequestOf(h) => Requests' = Requests
<1>1. \A g \in Handler : g # h => RequestOf(g)' = RequestOf(g)
  BY RequestKept
<1> QED BY <1>1 DEF Requests

\* A call that Goto gives a result, or none.
LEMMA RequestGoes ==
    ASSUME TypeInv, NEW h \in Handler, hand[h].pc \notin {"idle", "dead"},
           NEW l \in {"check", "write", "release", "reply"}, NEW r \in {"none", "ok", "refused"}, Goto(h, l, r)
    PROVE  /\ hand[h].result = r => RequestOf(h)' = RequestOf(h)
           /\ r = "ok" => RequestOf(h)' = [RequestOf(h) EXCEPT !.status = "moved"]
           /\ r = "refused" => RequestOf(h)' = [RequestOf(h) EXCEPT !.status = "refused"]
<1>1. /\ hand'[h].pc = l /\ hand'[h].result = r
      /\ hand'[h].old = hand[h].old /\ hand'[h].new = hand[h].new /\ hand'[h].force = hand[h].force
  BY GotoChanges
<1> QED BY <1>1 DEF RequestOf

\* A request ends.
LEMMA RefinesFinish ==
    ASSUME NEW h \in Handler, hand[h].pc \notin {"idle", "dead"}, hand'[h].pc \in {"idle", "dead"},
           \A g \in Handler : g # h => hand'[g] = hand[g], UNCHANGED parents, branch'[Hub] = branch[Hub]
    PROVE  Remote!Finish(h)
<1>1. RequestOf(h)' = NoRequest
  BY DEF RequestOf, NoRequest
<1>2. RequestOf(h) # NoRequest
  BY RequestFields
<1>3. Requests[h] # NoRequest /\ Requests' = [Requests EXCEPT ![h] = NoRequest]
  BY <1>1, <1>2, RequestsStep
<1> QED BY <1>3 DEF Remote!Finish, Requests

\* A request is refused.
LEMMA RefinesRefuse ==
    ASSUME TypeInv, Exclusive, NEW h \in Handler, hand[h].pc \in {"ingest", "check", "write"},
           NEW l \in {"reply", "release"}, Goto(h, l, "refused"), UNCHANGED parents, branch'[Hub] = branch[Hub]
    PROVE  Remote!Refuse(h)
<1>1. hand[h].result = "none"
  BY DEF Exclusive
<1>2. RequestOf(h) # NoRequest /\ RequestOf(h).status = "open"
  BY <1>1, RequestFields
<1>3. RequestOf(h)' = [RequestOf(h) EXCEPT !.status = "refused"]
  BY RequestGoes
<1>4. \A g \in Handler : g # h => hand'[g] = hand[g]
  BY GotoChanges
<1>5. Requests[h] = RequestOf(h) /\ Requests' = [Requests EXCEPT ![h].status = "refused"]
  BY <1>3, <1>4, RequestsStep
<1> QED BY <1>2, <1>5 DEF Remote!Refuse, Requests

\* The branch moves.
LEMMA RefinesMove ==
    ASSUME TypeInv, Exclusive, NEW h \in Handler, WriteRef(h)
    PROVE  Remote!Move(h)
<1>0. hand[h].pc = "write" /\ Goto(h, "release", "ok") /\ UNCHANGED parents
      /\ branch' = [branch EXCEPT ![Hub] = hand[h].new]
  BY DEF WriteRef
<1>1. /\ hand[h].result = "none"
      /\ branch[Hub] = hand[h].old
      /\ hand[h].force \/ branch[Hub] = NoCommit \/ IsAncestor(parents, branch[Hub], hand[h].new)
  BY <1>0 DEF Exclusive
<1>2. /\ RequestOf(h) # NoRequest /\ RequestOf(h).status = "open"
      /\ RequestOf(h).old = hand[h].old /\ RequestOf(h).new = hand[h].new /\ RequestOf(h).force = hand[h].force
  BY <1>0, <1>1, RequestFields
<1>3. RequestOf(h)' = [RequestOf(h) EXCEPT !.status = "moved"]
  BY <1>0, RequestGoes
<1>4. \A g \in Handler : g # h => hand'[g] = hand[g]
  BY <1>0, GotoChanges
<1>5. Requests[h] = RequestOf(h) /\ Requests' = [Requests EXCEPT ![h].status = "moved"]
  BY <1>3, <1>4, RequestsStep
<1>6. branch'[Hub] = hand[h].new
  BY <1>0 DEF TypeInv, Repo
<1>7. hand[h].force \/ branch[Hub] = Remote!NoCommit \/ Remote!IsAncestor(parents, branch[Hub], hand[h].new)
  BY <1>1, SameAncestors DEF NoCommit, Remote!NoCommit
<1> QED BY <1>0, <1>1, <1>2, <1>5, <1>6, <1>7 DEF Remote!Move, Requests

\* A request is made.
LEMMA RefinesSubmit ==
    ASSUME TypeInv, NEW c \in Client, NEW h \in Handler, NEW f \in Forces, Push(c, h, f)
    PROVE  Remote!Submit(h)
<1> DEFINE call(todo) == [NoCall EXCEPT !.pc = "ingest", !.old = branch[Hub], !.new = branch[c], !.force = f,
                                        !.todo = todo]
           req == [old |-> branch[Hub], new |-> branch[c], force |-> f, status |-> "open"]
<1>1. PICK todo : hand' = [hand EXCEPT ![h] = call(todo)]
  BY DEF Push
<1>2. hand[h].pc = "idle" /\ branch[c] # NoCommit /\ UNCHANGED <<parents, branch>>
  BY DEF Push
<1>3. /\ branch[Hub] \in DOMAIN parents \cup {NoCommit} /\ branch[c] \in DOMAIN parents
      /\ f \in BOOLEAN /\ hand \in [Handler -> Calls(Len(parents))]
  <2>1. branch[Hub] \in 0..Len(parents) /\ branch[c] \in 0..Len(parents) /\ Len(parents) \in Nat
        /\ DOMAIN parents = 1..Len(parents)
    BY GraphDomain DEF TypeInv, Repo
  <2> QED BY <1>2, <2>1, ForcesAssumption DEF TypeInv, NoCommit
<1>4. /\ call(todo).pc = "ingest" /\ call(todo).result = "none" /\ call(todo).old = branch[Hub]
      /\ call(todo).new = branch[c] /\ call(todo).force = f
  BY DEF NoCall
<1> HIDE DEF call
<1>5. hand'[h] = call(todo) /\ \A g \in Handler : g # h => hand'[g] = hand[g]
  BY <1>1, <1>3
<1>6. RequestOf(h)' = req
  BY <1>4, <1>5 DEF RequestOf
<1>7. RequestOf(h) = NoRequest
  BY <1>2, RequestFields
<1>8. \A g \in Handler : g # h => RequestOf(g)' = RequestOf(g)
  BY <1>5, RequestKept
<1> HIDE DEF req
<1>9. Requests[h] = NoRequest /\ Requests' = [Requests EXCEPT ![h] = req]
  BY <1>6, <1>7, <1>8 DEF Requests
<1>10. \E old \in DOMAIN parents \cup {Remote!NoCommit}, new \in DOMAIN parents, force \in BOOLEAN :
          Requests' = [Requests EXCEPT ![h] = [old |-> old, new |-> new, force |-> force, status |-> "open"]]
  <2>1. branch[Hub] \in DOMAIN parents \cup {Remote!NoCommit}
    BY <1>3 DEF Remote!NoCommit, NoCommit
  <2>2. Requests' = [Requests EXCEPT ![h] = [old |-> branch[Hub], new |-> branch[c], force |-> f, status |-> "open"]]
    BY <1>9 DEF req
  <2> QED BY <1>3, <2>1, <2>2, Zenon
<1> QED BY <1>2, <1>9, <1>10, Zenon DEF Remote!Submit, Requests

\* The lists of parents that RemoteBranch lets a commit have.
LEMMA ParentLists ==
    ASSUME NEW D
    PROVE  /\ << >> \in {<< >>} \cup {<<a>> : a \in D} \cup {<<a, b>> : a, b \in D}
           /\ \A x \in D : <<x>> \in {<< >>} \cup {<<a>> : a \in D} \cup {<<a, b>> : a, b \in D}
           /\ \A x, y \in D : <<x, y>> \in {<< >>} \cup {<<a>> : a \in D} \cup {<<a, b>> : a, b \in D}
<1>1. << >> \in {<< >>}
  OBVIOUS
<1>2. \A x \in D : <<x>> \in {<<a>> : a \in D}
  OBVIOUS
<1>3. \A x, y \in D : <<x, y>> \in {<<a, b>> : a, b \in D}
  OBVIOUS
<1> DEFINE A == {<< >>}
           B == {<<a>> : a \in D}
           C == {<<a, b>> : a, b \in D}
<1>4. /\ << >> \in A /\ (\A x \in D : <<x>> \in B) /\ (\A x, y \in D : <<x, y>> \in C)
  BY <1>1, <1>2, <1>3
<1> HIDE DEF A, B, C
<1>5. /\ << >> \in A \cup B \cup C /\ (\A x \in D : <<x>> \in A \cup B \cup C)
      /\ \A x, y \in D : <<x, y>> \in A \cup B \cup C
  BY <1>4
<1> QED BY <1>5 DEF A, B, C

\* Every action of a client is a step of RemoteBranch or a stutter.
LEMMA RefinesClient ==
    ASSUME TypeInv, NEW c \in Client, ClientNext(c)
    PROVE  Remote!Next \/ UNCHANGED Remote!vars
<1>a. branch'[Hub] = branch[Hub]
  BY ClientLeaves
<1>b. ASSUME hand' = hand PROVE UNCHANGED [g \in Handler |-> RequestOf(g)]
  <2>1. \A g \in Handler : RequestOf(g)' = RequestOf(g)
    BY <1>b, RequestKept
  <2> QED BY <2>1, Zenon
<1>1. CASE LocalCommit(c)
  <2>1. /\ parents' = Append(parents, Refs(branch[c])) /\ hand' = hand
    BY <1>1 DEF LocalCommit, CommitHere, hubVars
  <2>2. Refs(branch[c]) = << >> \/ (Refs(branch[c]) = <<branch[c]>> /\ branch[c] \in DOMAIN parents)
    <3>1. branch[c] \in 0..Len(parents) /\ Len(parents) \in Nat /\ DOMAIN parents = 1..Len(parents)
      BY GraphDomain DEF TypeInv, Repo
    <3> QED BY <3>1 DEF Refs, NoCommit
  <2> DEFINE Ps == {<< >>} \cup {<<a>> : a \in DOMAIN parents} \cup {<<a, b>> : a, b \in DOMAIN parents}
  <2>3. Refs(branch[c]) \in Ps
    BY <2>2, ParentLists
  <2> HIDE DEF Ps
  <2>4. Grows(Ps)
    BY <2>1, <2>3 DEF Grows
  <2>5. Remote!Grow
    BY <1>a, <1>b, <2>1, <2>4 DEF Remote!Grow, Grows, Ps
  <2> QED BY <2>5 DEF Remote!Next
<1>2. CASE PullMerge(c)
  <2>1. hand' = hand
    BY <1>2 DEF PullMerge, hubVars
  <2>2. CASE UNCHANGED parents
    BY <1>a, <1>b, <2>1, <2>2 DEF Remote!vars
  <2>3. CASE \E a, b \in DOMAIN parents : parents' = Append(parents, <<a, b>>)
    <3> DEFINE Ps == {<< >>} \cup {<<a>> : a \in DOMAIN parents} \cup {<<a, b>> : a, b \in DOMAIN parents}
    <3>1. PICK a \in DOMAIN parents, b \in DOMAIN parents : parents' = Append(parents, <<a, b>>)
      BY <2>3
    <3>2. <<a, b>> \in Ps
      BY ParentLists
    <3> HIDE DEF Ps
    <3>3. Grows(Ps)
      BY <3>1, <3>2 DEF Grows
    <3>4. Remote!Grow
      BY <1>a, <1>b, <2>1, <3>3 DEF Remote!Grow, Grows, Ps
    <3> QED BY <3>4 DEF Remote!Next
  <2> QED BY <1>2, <2>2, <2>3, PullGrows
<1>3. CASE \E h \in Handler, f \in Forces : Push(c, h, f)
  <2>1. PICK h \in Handler, f \in Forces : Push(c, h, f)
    BY <1>3
  <2>2. Remote!Submit(h)
    BY <2>1, RefinesSubmit
  <2> QED BY <2>2 DEF Remote!Next
<1>4. CASE \E h \in Handler : Reply(c, h)
  <2>1. PICK h \in Handler : Reply(c, h)
    BY <1>4
  <2>2. hand[h].pc = "reply" /\ hand' = [hand EXCEPT ![h] = NoCall] /\ UNCHANGED parents
    BY <2>1 DEF Reply
  <2>3. hand'[h].pc = "idle" /\ \A g \in Handler : g # h => hand'[g] = hand[g]
    BY <2>2 DEF TypeInv, NoCall
  <2>4. Remote!Finish(h)
    BY <1>a, <2>2, <2>3, RefinesFinish
  <2> QED BY <2>4 DEF Remote!Next
<1>5. CASE LoseReply(c) \/ ListRefs(c) \/ FetchPack(c) \/ (\E x \in act[c].todo : Unpack(c, x))
           \/ UpdateTracking(c) \/ ClientStops(c)
  <2>1. UNCHANGED <<parents, hand>>
    BY <1>5 DEF LoseReply, ListRefs, FetchPack, Unpack, UpdateTracking, ClientStops, hubVars
  <2> QED BY <1>a, <1>b, <2>1 DEF Remote!vars
<1> QED BY <1>1, <1>2, <1>3, <1>4, <1>5 DEF ClientNext

\* Every action of a call is a step of RemoteBranch or a stutter.
LEMMA RefinesHandler ==
    ASSUME TypeInv, Exclusive, NEW h \in Handler, HandlerNext(h)
    PROVE  Remote!Next \/ UNCHANGED Remote!vars
<1>b. /\ hand \in [Handler -> Calls(Len(parents))] /\ hand[h] \in Calls(Len(parents))
      /\ hand[h].result \in {"none", "ok", "refused"}
  BY DEF TypeInv, Calls
<1>c. hand[h].pc \in {"ingest", "check", "write"} => hand[h].result = "none"
  BY DEF Exclusive
<1>d. ASSUME NEW l \in {"check", "write", "release", "reply"}, NEW r \in {"none", "ok", "refused"}, Goto(h, l, r),
             hand[h].pc \notin {"idle", "dead"}, hand[h].result = r, UNCHANGED parents, branch' = branch
      PROVE  UNCHANGED Remote!vars
  <2>1. RequestOf(h)' = RequestOf(h) /\ \A g \in Handler : g # h => hand'[g] = hand[g]
    BY <1>d, RequestGoes, GotoChanges
  <2>2. \A g \in Handler : RequestOf(g)' = RequestOf(g)
    BY <2>1, RequestKept
  <2> QED BY <1>d, <2>2, RefinesStutter
<1>1. CASE \E x \in hand[h].todo : Ingest(h, x)
  <2>1. PICK x \in hand[h].todo : hand' = [hand EXCEPT ![h] = [hand[h] EXCEPT !.todo = @ \ {x}]]
    BY <1>1 DEF Ingest
  <2>2. UNCHANGED <<branch, parents>>
    BY <1>1 DEF Ingest
  <2>3. /\ hand'[h].pc = hand[h].pc /\ hand'[h].result = hand[h].result /\ hand'[h].new = hand[h].new
        /\ hand'[h].old = hand[h].old /\ hand'[h].force = hand[h].force
        /\ \A g \in Handler : g # h => hand'[g] = hand[g]
    BY <1>b, <2>1 DEF Calls
  <2>4. RequestOf(h)' = RequestOf(h)
    BY <2>3 DEF RequestOf, NoRequest
  <2>5. \A g \in Handler : RequestOf(g)' = RequestOf(g)
    BY <2>3, <2>4, RequestKept
  <2> QED BY <2>2, <2>5, RefinesStutter
<1>2. CASE AcquireRefs(h)
  <2>1. hand[h].pc = "ingest" /\ Goto(h, "check", "none") /\ UNCHANGED <<branch, parents>>
    BY <1>2 DEF AcquireRefs
  <2> QED BY <1>c, <1>d, <2>1
<1>3. CASE ReceiveFails(h) \/ WriteFails(h)
  <2>1. /\ hand[h].pc \in {"ingest", "write"} /\ UNCHANGED <<branch, parents>>
        /\ Goto(h, "reply", "refused") \/ Goto(h, "release", "refused")
    BY <1>3 DEF ReceiveFails, WriteFails
  <2>2. Remote!Refuse(h)
    BY <2>1, RefinesRefuse
  <2> QED BY <2>2 DEF Remote!Next
<1>4. CASE Check(h)
  <2>1. /\ hand[h].pc = "check" /\ UNCHANGED <<branch, parents>>
        /\ Goto(h, "write", "none") \/ Goto(h, "release", "refused")
    BY <1>4 DEF Check
  <2>2. CASE Goto(h, "write", "none")
    BY <1>c, <1>d, <2>1, <2>2
  <2>3. CASE Goto(h, "release", "refused")
    <3>1. Remote!Refuse(h)
      BY <2>1, <2>3, RefinesRefuse
    <3> QED BY <3>1 DEF Remote!Next
  <2> QED BY <2>1, <2>2, <2>3
<1>5. CASE WriteRef(h)
  <2>1. Remote!Move(h)
    BY <1>5, RefinesMove
  <2> QED BY <2>1 DEF Remote!Next
<1>6. CASE Release(h)
  <2>1. hand[h].pc = "release" /\ UNCHANGED <<branch, parents>>
    BY <1>6 DEF Release
  <2>2. \/ hand[h].result = "none" /\ Goto(h, "reply", "none")
        \/ hand[h].result = "ok" /\ Goto(h, "reply", "ok")
        \/ hand[h].result = "refused" /\ Goto(h, "reply", "refused")
    BY <1>b, <1>6 DEF Release
  <2> QED BY <1>d, <2>1, <2>2
<1>7. CASE Discard(h) \/ Crash(h)
  <2>1. /\ hand' = [hand EXCEPT ![h] = NoCall] \/ hand' = [hand EXCEPT ![h] = [NoCall EXCEPT !.pc = "dead"]]
        /\ UNCHANGED <<branch, parents>> /\ hand[h].pc \notin {"idle", "dead"}
    BY <1>7 DEF Discard, Crash
  <2>2. hand'[h].pc \in {"idle", "dead"} /\ \A g \in Handler : g # h => hand'[g] = hand[g]
    BY <1>b, <2>1 DEF NoCall
  <2>3. Remote!Finish(h)
    BY <2>1, <2>2, RefinesFinish
  <2> QED BY <2>3 DEF Remote!Next
<1> QED BY <1>1, <1>2, <1>3, <1>4, <1>5, <1>6, <1>7 DEF HandlerNext

\* The calls of ReceivePack, whose check and write are steps of their own, act on the hub's
\* branch as single compare-and-swap steps that only go forward unless forced (CompareAndSwap):
\* Sync implements RemoteBranch.
THEOREM Refinement == Spec => CompareAndSwap
<1>1. TypeInv /\ Exclusive /\ [Next]_syncVars => [Remote!Next]_(Remote!vars)
  <2> SUFFICES ASSUME TypeInv, Exclusive, [Next]_syncVars PROVE Remote!Next \/ UNCHANGED Remote!vars
    OBVIOUS
  <2>1. CASE UNCHANGED syncVars
    <3>1. UNCHANGED <<parents, branch, hand>>
      BY <2>1 DEF syncVars
    <3>2. \A h \in Handler : RequestOf(h)' = RequestOf(h)
      BY <3>1, RequestKept
    <3> QED BY <3>1, <3>2, RefinesStutter
  <2> QED BY <2>1, RefinesClient, RefinesHandler DEF Next
<1> QED BY <1>1, RefinesInit, TypesHold, UpdatesExclusive, PTL DEF Spec, CompareAndSwap, Remote!Spec
=============================================================================
