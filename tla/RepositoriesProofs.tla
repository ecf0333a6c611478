------------------------- MODULE RepositoriesProofs -------------------------
(***************************************************************************)
(* Proofs about Repositories, for every set of names, requests and         *)
(* repositories, and whatever fails or crashes.                            *)
(***************************************************************************)
EXTENDS Repositories, SequenceTheorems, TLAPS

USE RepositoriesAssumption

----------------------------------------------------------------------------
(* The inductive invariant: what is stored                                 *)

Given == 1..created

Record == [name : Name, state : {"creating", "active", "deleting"}]

Records == [Id -> Record \cup {NoRecord}]

StoresTyped ==
    /\ content \in [Name -> Id \cup {Nobody, Scrap}]
    /\ meta \in Records /\ known \in Records
    /\ \A i \in Id : i > created => meta[i] = NoRecord /\ known[i] = NoRecord
    /\ byName \in [Name -> Given \cup {Nobody}]
    /\ loaded \in BOOLEAN
    /\ created \in 0..MaxRepos
    /\ deleted \subseteq Given /\ residue \subseteq Name

\* The index f agrees with the repositories k it knows: what a name leads to is known by
\* that name, in the middle of an operation too.
Agree(f, k) == \A n \in Name : f[n] # Nobody => k[f[n]].name = n
IndexAgrees == Agree(byName, known)

----------------------------------------------------------------------------
(* The inductive invariant: plans                                          *)

\* The steps an operation falls back on.  A repository is forgotten under its name, the
\* one g gives it; the one that is being renamed, x, is not forgotten.  All are among I.
SoftStep(g, x, I) ==
    [op : {"removeAll", "removePolicy"}, name : Name, soft : {TRUE}]
    \cup [op : {"removeMeta"}, id : I, name : Name, soft : {TRUE}]
    \cup [op : {"moveContent"}, name : Name, to : Name, soft : {TRUE}, fail : {<< >>}]
    \cup {Forget(i, g[i]) : i \in {j \in I : j # x /\ g[j] \in Name}}

PlanStep(g, x, I) ==
    SoftStep(g, x, I)
    \cup [op : {"writeMeta"}, id : I, to : Record, soft : {FALSE}, fail : Seq(SoftStep(g, x, I))]
    \cup [op : {"init"}, name : Name, id : I, soft : {FALSE}, fail : Seq(SoftStep(g, x, I))]
    \cup [op : {"writePolicy"}, name : Name, id : I, owner : Subject, soft : {FALSE},
          fail : Seq(SoftStep(g, x, I))]
    \cup [op : {"moveContent"}, name : Name, to : Name, soft : {FALSE}, fail : {<< >>}]
    \cup [op : {"movePolicy"}, name : Name, to : Name, soft : {FALSE}, fail : Seq(SoftStep(g, x, I))]
    \cup {w \in [op : {"remember"}, id : I, to : Record] : w.to.name = g[w.id]}
    \cup [op : {"unname"}, name : Name]
    \cup [op : {"return"}, id : I]

\* Names of repositories, one for each.
Naming == [Id -> Name \cup {""}]

\* A name leads to the repository that bears it, except the one that the repository under
\* rename gives up, which is to be removed.
Leads(g, x, f, p) ==
    \A n \in Name : f[n] # Nobody =>
        g[f[n]] = n \/ (f[n] = x /\ \E j \in DOMAIN p : p[j].op = "unname" /\ p[j].name = n)

\* A name is given up before the new one is taken, and to return is the last step.
InOrder(p) ==
    \A i, j \in DOMAIN p :
        /\ p[i].op = "remember" /\ p[j].op = "unname" => j < i
        /\ p[i].op = "return" => i = Len(p)

\* What is to be returned will be known, or it will have a tombstone on disk.
Keeps(p, i, k) ==
    /\ \A j \in DOMAIN p : p[j].op = "forget" => p[j].id # i
    /\ k[i].state # "none" \/ \E j \in DOMAIN p : p[j].op = "remember" /\ p[j].id = i

Buries(p, i, m) ==
    /\ \A j \in DOMAIN p : p[j].op = "writeMeta" /\ p[j].id = i => ~live(p[j].to.state)
    /\ ~live(m[i].state)
       \/ \E j \in DOMAIN p : p[j].op = "writeMeta" /\ p[j].id = i /\ p[j].fail = << >>

Returns(p, k, m) == \A j \in DOMAIN p : p[j].op = "return" => Keeps(p, p[j].id, k) \/ Buries(p, p[j].id, m)

\* No step brings one of the repositories in d to life.
Spares(p, d) ==
    \A j \in DOMAIN p : p[j].op \in {"writeMeta", "remember"} /\ p[j].id \in d => ~live(p[j].to.state)

\* The plan p, made of steps about the repositories in I, while the index is f and k, the
\* records on disk are m, and the repositories in d are deleted.
PlanOK(p, f, k, m, d, I) ==
    /\ \E g \in Naming, x \in Id \cup {Nobody} : p \in Seq(PlanStep(g, x, I)) /\ Leads(g, x, f, p)
    /\ InOrder(p) /\ Returns(p, k, m) /\ Spares(p, d)

PlanInv == PlanOK(plan, byName, known, meta, deleted, Given)

----------------------------------------------------------------------------
(* The inductive invariant: policies                                       *)

\* The policies that are stored, parsed or were seen by a request under way.
Policies ==
    {policy[n] : n \in Name} \cup {cache[n].policy : n \in Name} \cup {NoPolicy}
    \cup UNION {request[r].seen : r \in {q \in Request : request[q].at = "lookup"}}

\* A modification time tells the policies apart.
StampsIdentify == \A p, q \in Policies : p.stamp = q.stamp => p = q

PolicyTyped(p) ==
    /\ p.stamp \in 0..stamp
    /\ p # NoPolicy => p.of \in Id /\ p.stamp # 0

PoliciesTyped ==
    /\ DOMAIN policy = Name /\ DOMAIN cache = Name
    /\ stamp \in Nat
    /\ \A p \in Policies : PolicyTyped(p)
    /\ \A n \in Name : {"policy", "stamp"} \subseteq DOMAIN cache[n] /\ cache[n].stamp \in 0..stamp
    /\ torn \subseteq Name

\* An entry of the cache that is not torn pairs a policy with its time.
Paired == \A n \in Name : n \notin torn => cache[n].policy.stamp = cache[n].stamp

Asks == {"at", "name", "user", "want", "need"}

\* What a request carries from one lookup to the next.
Shape(q) ==
    /\ "at" \in DOMAIN q
    /\ q.at \in {"none", "managing", "stat", "lookup", "found", "authorized", "open"}
    /\ q.at \in {"stat", "lookup", "found"} => q.name \in Name /\ q.want \in Want
    /\ q.at = "stat" => DOMAIN q = Asks
    /\ q.at = "lookup" => DOMAIN q = Asks \cup {"stamp", "seen"}
    /\ q.at = "found" => DOMAIN q = Asks \cup {"seen", "policy", "sure"}
    /\ q.at = "authorized" => DOMAIN q = {"at", "name", "want"} /\ q.name \in Name /\ q.want \in Want

\* A lookup under way has seen the file as it was at the time it will compare with, and as
\* it is now.
Looking(q, files) ==
    q.at = "lookup" => files[q.name] \in q.seen /\ \E p \in q.seen : p.stamp = q.stamp

RequestsInv ==
    /\ DOMAIN request = Request
    /\ \A r \in Request : Shape(request[r]) /\ Looking(request[r], policy)

PolicyInv == StampsIdentify /\ PoliciesTyped /\ Paired /\ RequestsInv /\ PolicyCurrent

ManagerInv == StoresTyped /\ IndexAgrees /\ PlanInv /\ DeletedStaysDeleted

Inv == ManagerInv /\ PolicyInv

----------------------------------------------------------------------------
(* Plans                                                                   *)

Removal == {"removeAll", "removePolicy", "removeMeta", "forget"}
MemoryOp == {"remember", "forget", "unname", "return"}

\* What the steps of a plan carry.
LEMMA StepFields ==
    ASSUME NEW g, NEW x, NEW I, NEW w \in PlanStep(g, x, I)
    PROVE  /\ w.op \in Removal \cup {"moveContent", "writeMeta", "init", "writePolicy", "movePolicy", "remember",
                                     "unname", "return"}
           /\ w.op \in {"writeMeta", "remember"} => w.id \in I /\ w.to \in Record
           /\ w.op \in {"removeMeta", "forget", "init", "writePolicy"} => w.id \in I /\ w.name \in Name
           /\ w.op \in {"removeAll", "removePolicy", "moveContent", "movePolicy", "unname"} => w.name \in Name
           /\ w.op \in {"moveContent", "movePolicy"} => w.to \in Name
           /\ w.op = "return" => w.id \in I
           /\ w.op = "remember" => w.to.name = g[w.id]
           /\ w.op = "forget" => w.name = g[w.id] /\ w.id # x
           /\ w.op \notin MemoryOp => w.soft \in BOOLEAN /\ (~w.soft => w.fail \in Seq(SoftStep(g, x, I)))
<1>1. CASE w \in SoftStep(g, x, I)
  <2>1. CASE w \in [op : {"removeAll", "removePolicy"}, name : Name, soft : {TRUE}]
             \/ w \in [op : {"removeMeta"}, id : I, name : Name, soft : {TRUE}]
    BY <2>1 DEF Removal, MemoryOp
  <2>2. CASE w \in [op : {"moveContent"}, name : Name, to : Name, soft : {TRUE}, fail : {<< >>}]
    BY <2>2 DEF Removal, MemoryOp
  <2>3. ASSUME NEW i \in I, i # x, g[i] \in Name, w = Forget(i, g[i])
        PROVE  w.op = "forget" /\ w.id = i /\ w.name = g[i]
    BY <2>3 DEF Forget
  <2>4. CASE w \in {Forget(i, g[i]) : i \in {j \in I : j # x /\ g[j] \in Name}}
    BY <2>3, <2>4 DEF Removal, MemoryOp
  <2> QED BY <1>1, <2>1, <2>2, <2>4 DEF SoftStep
<1>2. CASE w \in [op : {"writeMeta"}, id : I, to : Record, soft : {FALSE}, fail : Seq(SoftStep(g, x, I))]
           \/ w \in [op : {"init"}, name : Name, id : I, soft : {FALSE}, fail : Seq(SoftStep(g, x, I))]
           \/ w \in [op : {"writePolicy"}, name : Name, id : I, owner : Subject, soft : {FALSE},
                      fail : Seq(SoftStep(g, x, I))]
           \/ w \in [op : {"movePolicy"}, name : Name, to : Name, soft : {FALSE}, fail : Seq(SoftStep(g, x, I))]
  BY <1>2 DEF Removal, MemoryOp
<1>3. CASE w \in [op : {"moveContent"}, name : Name, to : Name, soft : {FALSE}, fail : {<< >>}]
  <2>1. << >> \in Seq(SoftStep(g, x, I))
    OBVIOUS
  <2> QED BY <1>3, <2>1 DEF Removal, MemoryOp
<1>4. CASE w \in {v \in [op : {"remember"}, id : I, to : Record] : v.to.name = g[v.id]}
           \/ w \in [op : {"unname"}, name : Name]
           \/ w \in [op : {"return"}, id : I]
  BY <1>4 DEF Removal, MemoryOp
<1> QED BY <1>1, <1>2, <1>3, <1>4 DEF PlanStep

\* The error of a record that cannot be written is never ignored.
LEMMA HardWrites ==
    ASSUME NEW g, NEW x, NEW I, NEW w \in PlanStep(g, x, I), w.op = "writeMeta"
    PROVE  ~w.soft
<1>1. w \notin SoftStep(g, x, I)
  <2>1. ASSUME NEW i \in I, w = Forget(i, g[i])
        PROVE  FALSE
    BY <2>1 DEF Forget
  <2> QED BY <2>1 DEF SoftStep
<1> QED BY <1>1 DEF PlanStep

\* A step that is taken from a plan.
LEMMA TailOf ==
    ASSUME NEW S, NEW p \in Seq(S), p # << >>
    PROVE  /\ Head(p) \in S /\ Head(p) = p[1] /\ 1 \in DOMAIN p
           /\ Tail(p) \in Seq(S)
           /\ Len(Tail(p)) = Len(p) - 1
           /\ \A i \in DOMAIN Tail(p) : i + 1 \in DOMAIN p /\ Tail(p)[i] = p[i + 1]
           /\ \A i \in DOMAIN p : i # 1 => i - 1 \in DOMAIN Tail(p) /\ Tail(p)[i - 1] = p[i]
  OBVIOUS

\* The order of the steps left stays.
LEMMA OrderTail ==
    ASSUME NEW S, NEW p \in Seq(S), p # << >>, InOrder(p)
    PROVE  InOrder(Tail(p))
<1> DEFINE t == Tail(p)
<1>t. /\ t \in Seq(S) /\ Len(t) = Len(p) - 1
      /\ \A i \in DOMAIN t : i + 1 \in DOMAIN p /\ t[i] = p[i + 1]
  BY TailOf
<1> HIDE DEF t
<1>1. ASSUME NEW i \in DOMAIN t, NEW j \in DOMAIN t
      PROVE  /\ t[i].op = "remember" /\ t[j].op = "unname" => j < i
             /\ t[i].op = "return" => i = Len(t)
  <2>1. i + 1 \in DOMAIN p /\ j + 1 \in DOMAIN p /\ t[i] = p[i + 1] /\ t[j] = p[j + 1]
        /\ Len(t) = Len(p) - 1 /\ Len(p) \in Nat /\ i \in Nat /\ j \in Nat
    BY <1>t
  <2>2. /\ p[i + 1].op = "remember" /\ p[j + 1].op = "unname" => j + 1 < i + 1
        /\ p[i + 1].op = "return" => i + 1 = Len(p)
    BY <2>1 DEF InOrder
  <2> QED BY <2>1, <2>2, SMTT(30)
<1>2. InOrder(t)
  BY <1>1 DEF InOrder
<1> QED BY <1>2 DEF t

\* The steps left spare what the plan spares.
LEMMA SparesTail ==
    ASSUME NEW S, NEW p \in Seq(S), p # << >>, NEW d, Spares(p, d)
    PROVE  Spares(Tail(p), d)
  BY TailOf DEF Spares

\* Taking a step that does to the index and to the records what it says keeps the promise
\* of the plan.
LEMMA ReturnsTail ==
    ASSUME NEW S, NEW p \in Seq(S), p # << >>, NEW k, NEW m, Returns(p, k, m),
           NEW k2, NEW m2,
           \A j \in DOMAIN p : p[j].op = "return" => p[j].id \in Id,
           \A i \in Id : k[i].state # "none" =>
                     k2[i].state # "none" \/ (Head(p).op = "forget" /\ Head(p).id = i),
           Head(p).op = "remember" => k2[Head(p).id].state # "none",
           \A i \in Id : ~live(m[i].state) =>
                     ~live(m2[i].state) \/ (Head(p).op = "writeMeta" /\ Head(p).id = i),
           Head(p).op = "writeMeta" => m2[Head(p).id] = Head(p).to
    PROVE  Returns(Tail(p), k2, m2)
<1> DEFINE t == Tail(p)
<1>0. Returns(t, k2, m2) <=> Returns(Tail(p), k2, m2)
  OBVIOUS
<1>2. Head(p) = p[1] /\ 1 \in DOMAIN p
  BY TailOf
<1>3. \A l \in DOMAIN t : l + 1 \in DOMAIN p /\ t[l] = p[l + 1]
  BY TailOf
<1>4. \A l \in DOMAIN p : l # 1 => l - 1 \in DOMAIN t /\ t[l - 1] = p[l]
  BY TailOf
<1> HIDE DEF t
<1> SUFFICES ASSUME NEW j \in DOMAIN t, t[j].op = "return"
             PROVE  Keeps(t, t[j].id, k2) \/ Buries(t, t[j].id, m2)
  BY <1>0 DEF Returns
<1> DEFINE i == t[j].id
<1>1. j + 1 \in DOMAIN p /\ p[j + 1].op = "return" /\ p[j + 1].id = i /\ i \in Id
  BY <1>3
<1>5. CASE Keeps(p, i, k)
  <2>1. \A l \in DOMAIN t : t[l].op = "forget" => t[l].id # i
    BY <1>3, <1>5 DEF Keeps
  <2>2. ~(Head(p).op = "forget" /\ Head(p).id = i)
    BY <1>2, <1>5 DEF Keeps
  <2>3. CASE k[i].state # "none"
    BY <1>1, <2>1, <2>2, <2>3 DEF Keeps
  <2>4. ASSUME NEW l \in DOMAIN p, p[l].op = "remember", p[l].id = i
        PROVE  Keeps(t, i, k2)
    <3>1. CASE l = 1
      BY <1>2, <2>1, <2>4, <3>1 DEF Keeps
    <3>2. CASE l # 1
      BY <1>4, <2>1, <2>4, <3>2 DEF Keeps
    <3> QED BY <3>1, <3>2
  <2> QED BY <1>5, <2>3, <2>4 DEF Keeps
<1>6. CASE Buries(p, i, m)
  <2>1. \A l \in DOMAIN t : t[l].op = "writeMeta" /\ t[l].id = i => ~live(t[l].to.state)
    BY <1>3, <1>6 DEF Buries
  <2>2. Head(p).op = "writeMeta" /\ Head(p).id = i => ~live(m2[i].state)
    BY <1>2, <1>6 DEF Buries
  <2>3. CASE ~live(m[i].state)
    BY <1>1, <2>1, <2>2, <2>3 DEF Buries
  <2>4. ASSUME NEW l \in DOMAIN p, p[l].op = "writeMeta", p[l].id = i, p[l].fail = << >>
        PROVE  Buries(t, i, m2)
    <3>1. CASE l = 1
      BY <1>2, <2>1, <2>2, <2>4, <3>1 DEF Buries
    <3>2. CASE l # 1
      BY <1>4, <2>1, <2>4, <3>2 DEF Buries
    <3> QED BY <3>1, <3>2
  <2> QED BY <1>6, <2>3, <2>4 DEF Buries
<1>7. Keeps(p, i, k) \/ Buries(p, i, m)
  BY <1>1 DEF Returns
<1> QED BY <1>5, <1>6, <1>7

\* What an operation falls back on neither writes a record nor names a repository.
LEMMA SoftFields ==
    ASSUME NEW g, NEW x, NEW I, NEW w \in SoftStep(g, x, I)
    PROVE  w \in PlanStep(g, x, I) /\ w.op \in Removal \cup {"moveContent"}
<1>1. w \in PlanStep(g, x, I)
  BY DEF PlanStep
<1>2. w.op \in Removal \cup {"moveContent"}
  <2>1. ASSUME NEW i \in I, w = Forget(i, g[i])
        PROVE  w.op = "forget"
    BY <2>1 DEF Forget
  <2>2. CASE w \in {Forget(i, g[i]) : i \in {j \in I : j # x /\ g[j] \in Name}}
    BY <2>1, <2>2 DEF Removal
  <2> QED BY <2>2 DEF SoftStep, Removal
<1> QED BY <1>1, <1>2

\* A sequence is one of every set its elements are in.
LEMMA SeqWithin ==
    ASSUME NEW S, NEW T, NEW p \in Seq(S), \A i \in DOMAIN p : p[i] \in T
    PROVE  p \in Seq(T)
  OBVIOUS

\* The name of the repository x in g does not matter to the steps that fall back.
LEMMA SoftRename ==
    ASSUME NEW g \in Naming, NEW x \in Id, NEW I \in SUBSET Id, NEW n \in Name \cup {""}
    PROVE  SoftStep([g EXCEPT ![x] = n], x, I) = SoftStep(g, x, I)
<1> DEFINE h == [g EXCEPT ![x] = n]
<1>1. \A i \in Id : i # x => h[i] = g[i]
  BY DEF Naming
<1> HIDE DEF h
<1>2. {Forget(i, h[i]) : i \in {j \in I : j # x /\ h[j] \in Name}}
       = {Forget(i, g[i]) : i \in {j \in I : j # x /\ g[j] \in Name}}
  BY <1>1
<1>3. SoftStep(h, x, I) = SoftStep(g, x, I)
  BY <1>2 DEF SoftStep
<1> QED BY <1>3 DEF h

\* A record bears a name, or none.
LEMMA RecordNames ==
    ASSUME NEW k \in Records, NEW i \in Id
    PROVE  k[i].name \in Name \cup {""}
<1>1. k[i] \in Record \/ k[i] = NoRecord
  BY DEF Records
<1>2. CASE k[i] \in Record
  BY <1>2 DEF Record
<1>3. CASE k[i] = NoRecord
  <2>1. NoRecord.name = ""
    BY DEF NoRecord
  <2> QED BY <1>3, <2>1
<1> QED BY <1>1, <1>2, <1>3

\* No plan is left.
LEMMA NoPlan ==
    ASSUME NEW I, NEW f \in [Name -> Id \cup {Nobody}], NEW k \in Records, Agree(f, k), NEW m, NEW d
    PROVE  PlanOK(<< >>, f, k, m, d, I)
<1> DEFINE g == [i \in Id |-> k[i].name]
<1>1. g \in Naming
  BY RecordNames DEF Naming
<1>2. \A n \in Name : f[n] # Nobody => g[f[n]] = n
  BY DEF Agree, Nobody, Id
<1> HIDE DEF g
<1>3. Leads(g, Nobody, f, << >>) /\ << >> \in Seq(PlanStep(g, Nobody, I))
  BY <1>2 DEF Leads
<1>4. InOrder(<< >>) /\ Returns(<< >>, k, m) /\ Spares(<< >>, d)
  BY DEF InOrder, Returns, Spares
<1> QED BY <1>1, <1>3, <1>4 DEF PlanOK

\* The plan goes on with the steps the failed one falls back on.
LEMMA FallsBack ==
    ASSUME NEW I \in SUBSET Id, NEW f \in [Name -> Id \cup {Nobody}], NEW k \in Records, Agree(f, k), NEW m, NEW d,
           NEW g \in Naming, NEW x \in Id \cup {Nobody}, NEW p, Leads(g, x, f, p),
           NEW q \in Seq(SoftStep(g, x, I))
    PROVE  PlanOK(q, f, k, m, d, I)
<1> DEFINE h == IF x \in Id THEN [g EXCEPT ![x] = k[x].name] ELSE g
<1>1. h \in Naming /\ SoftStep(h, x, I) = SoftStep(g, x, I)
  <2>1. CASE x \in Id
    <3>1. k[x].name \in Name \cup {""}
      BY <2>1, RecordNames
    <3>2. [g EXCEPT ![x] = k[x].name] \in Naming
      BY <3>1, <2>1 DEF Naming
    <3> QED BY <2>1, <3>1, <3>2, SoftRename
  <2> QED BY <2>1
<1>2. \A n \in Name : f[n] # Nobody => h[f[n]] = n
  <2> SUFFICES ASSUME NEW n \in Name, f[n] # Nobody PROVE h[f[n]] = n
    OBVIOUS
  <2>1. f[n] \in Id /\ k[f[n]].name = n
    BY DEF Agree
  <2>2. CASE f[n] = x
    BY <2>1, <2>2 DEF Naming
  <2>3. CASE f[n] # x
    <3>1. g[f[n]] = n
      BY <2>3 DEF Leads
    <3> QED BY <2>1, <2>3, <3>1 DEF Naming
  <2> QED BY <2>2, <2>3
<1> HIDE DEF h
<1>3. Leads(h, x, f, q)
  BY <1>2 DEF Leads
<1>4. \A i \in DOMAIN q : q[i] \in SoftStep(h, x, I)
  BY <1>1
<1>5. \A i \in DOMAIN q : q[i] \in PlanStep(h, x, I) /\ q[i].op \in Removal \cup {"moveContent"}
  BY <1>4, SoftFields
<1>6. q \in Seq(PlanStep(h, x, I))
  BY <1>5, SeqWithin
<1>7. InOrder(q) /\ Returns(q, k, m) /\ Spares(q, d)
  BY <1>5 DEF InOrder, Returns, Spares, Removal
<1> QED BY <1>1, <1>3, <1>6, <1>7 DEF PlanOK

\* The steps of two plans, one after the other.
LEMMA StepsOf ==
    ASSUME NEW S, NEW r \in Seq(S), NEW p \in Seq(S)
    PROVE  /\ r \o p \in Seq(S) /\ Len(r \o p) = Len(r) + Len(p)
           /\ \A i \in DOMAIN (r \o p) :
                 \/ i \in DOMAIN r /\ (r \o p)[i] = r[i]
                 \/ i > Len(r) /\ i - Len(r) \in DOMAIN p /\ (r \o p)[i] = p[i - Len(r)]
           /\ \A i \in DOMAIN p : i + Len(r) \in DOMAIN (r \o p) /\ (r \o p)[i + Len(r)] = p[i]
  OBVIOUS

\* A plan p that begins with the removal r of what another repository left.
LEMMA RemovalFirst ==
    ASSUME NEW S, NEW r \in Seq(S), NEW p \in Seq(S),
           \A i \in DOMAIN r : r[i].op \in Removal,
           NEW k, NEW m, NEW d,
           InOrder(p), Spares(p, d),
           \A j \in DOMAIN p : p[j].op = "return" =>
               Keeps(p, p[j].id, k) /\ \A i \in DOMAIN r : r[i].op = "forget" => r[i].id # p[j].id
    PROVE  InOrder(r \o p) /\ Spares(r \o p, d) /\ Returns(r \o p, k, m)
<1> DEFINE q == r \o p
           l == Len(r)
<1>1. /\ Len(q) = l + Len(p)
      /\ \A i \in DOMAIN q : \/ i \in DOMAIN r /\ q[i] = r[i]
                             \/ i > l /\ i - l \in DOMAIN p /\ q[i] = p[i - l]
      /\ \A i \in DOMAIN p : i + l \in DOMAIN q /\ q[i + l] = p[i]
      /\ DOMAIN q \subseteq Nat /\ l \in Nat /\ Len(p) \in Nat
  BY StepsOf
<1> HIDE DEF q, l
<1>2. \A i \in DOMAIN q : q[i].op \notin Removal => i > l /\ i - l \in DOMAIN p /\ q[i] = p[i - l]
  BY <1>1
<1>3. InOrder(q)
  <2> SUFFICES ASSUME NEW i \in DOMAIN q, NEW j \in DOMAIN q
               PROVE  /\ q[i].op = "remember" /\ q[j].op = "unname" => j < i
                      /\ q[i].op = "return" => i = Len(q)
    BY DEF InOrder
  <2>1. ASSUME q[i].op = "remember", q[j].op = "unname" PROVE j < i
    <3>1. i - l \in DOMAIN p /\ j - l \in DOMAIN p /\ p[i - l].op = "remember" /\ p[j - l].op = "unname"
      BY <1>2, <2>1 DEF Removal
    <3>2. j - l < i - l
      BY <3>1 DEF InOrder
    <3> QED BY <1>1, <3>2
  <2>2. ASSUME q[i].op = "return" PROVE i = Len(q)
    <3>1. i - l \in DOMAIN p /\ p[i - l].op = "return"
      BY <1>2, <2>2 DEF Removal
    <3>2. i - l = Len(p)
      BY <3>1 DEF InOrder
    <3> QED BY <1>1, <3>2
  <2> QED BY <2>1, <2>2
<1>4. Spares(q, d)
  BY <1>2 DEF Spares, Removal
<1>5. Returns(q, k, m)
  <2> SUFFICES ASSUME NEW j \in DOMAIN q, q[j].op = "return"
               PROVE  Keeps(q, q[j].id, k)
    BY DEF Returns
  <2>1. j - l \in DOMAIN p /\ q[j] = p[j - l]
    BY <1>2 DEF Removal
  <2>2. Keeps(p, q[j].id, k) /\ \A i \in DOMAIN r : r[i].op = "forget" => r[i].id # q[j].id
    BY <2>1
  <2>3. \A i \in DOMAIN q : q[i].op = "forget" => q[i].id # q[j].id
    BY <1>1, <2>2 DEF Keeps
  <2>4. CASE k[q[j].id].state # "none"
    BY <2>3, <2>4 DEF Keeps
  <2>5. ASSUME NEW i \in DOMAIN p, p[i].op = "remember", p[i].id = q[j].id
        PROVE  \E h \in DOMAIN q : q[h].op = "remember" /\ q[h].id = q[j].id
    BY <1>1, <2>5
  <2> QED BY <2>2, <2>3, <2>4, <2>5 DEF Keeps
<1> QED BY <1>3, <1>4, <1>5 DEF q

\* The plan r removes what there is of the repository i, and of no other.
Clears(r, i, g, x, I) ==
    /\ r \in Seq(SoftStep(g, x, I))
    /\ \A j \in DOMAIN r : r[j].op \in Removal /\ (r[j].op = "forget" => r[j].id = i)

\* What purge removes it removes under the name of the repository.
LEMMA PurgeSteps ==
    ASSUME NEW g, NEW x, NEW I, NEW i \in I, NEW n \in Name, i # x, g[i] = n
    PROVE  Clears(purge(i, n), i, g, x, I)
<1>1. /\ RemoveAll(n) \in SoftStep(g, x, I) /\ RemovePolicy(n) \in SoftStep(g, x, I)
      /\ removeMeta(i, n) \in SoftStep(g, x, I)
  BY DEF RemoveAll, RemovePolicy, removeMeta, SoftStep
<1>2. Forget(i, n) \in SoftStep(g, x, I)
  BY DEF SoftStep
<1>3. /\ RemoveAll(n).op = "removeAll" /\ RemovePolicy(n).op = "removePolicy" /\ removeMeta(i, n).op = "removeMeta"
      /\ Forget(i, n).op = "forget" /\ Forget(i, n).id = i
  BY DEF RemoveAll, RemovePolicy, removeMeta, Forget
<1>4. /\ purge(i, n) \in Seq(SoftStep(g, x, I))
      /\ Len(purge(i, n)) = 4
      /\ purge(i, n)[1] = RemoveAll(n) /\ purge(i, n)[2] = RemovePolicy(n)
      /\ purge(i, n)[3] = removeMeta(i, n) /\ purge(i, n)[4] = Forget(i, n)
  BY <1>1, <1>2 DEF purge
<1>5. \A j \in DOMAIN purge(i, n) : j \in {1, 2, 3, 4}
  BY <1>4
<1> QED BY <1>3, <1>4, <1>5 DEF Removal, Clears

\* What rollback undoes it undoes under the name of the repository.
LEMMA RollbackSteps ==
    ASSUME NEW g, NEW x, NEW I, NEW i \in I, NEW n \in Name, i # x, g[i] = n
    PROVE  /\ rollback(i, n, FALSE, FALSE) \in Seq(SoftStep(g, x, I))
           /\ rollback(i, n, TRUE, FALSE) \in Seq(SoftStep(g, x, I))
           /\ rollback(i, n, TRUE, TRUE) \in Seq(SoftStep(g, x, I))
<1>1. /\ RemoveAll(n) \in SoftStep(g, x, I) /\ RemovePolicy(n) \in SoftStep(g, x, I)
      /\ removeMeta(i, n) \in SoftStep(g, x, I)
  BY DEF RemoveAll, RemovePolicy, removeMeta, SoftStep
<1>2. Forget(i, n) \in SoftStep(g, x, I)
  BY DEF SoftStep
<1>3. <<RemoveAll(n)>> \in Seq(SoftStep(g, x, I)) /\ <<RemovePolicy(n)>> \in Seq(SoftStep(g, x, I))
      /\ <<removeMeta(i, n), Forget(i, n)>> \in Seq(SoftStep(g, x, I)) /\ << >> \in Seq(SoftStep(g, x, I))
  BY <1>1, <1>2
<1> QED BY <1>3 DEF rollback

\* The plan of Create is in order, whatever an earlier repository of the name left.
LEMMA CreatePlanned ==
    ASSUME NEW c \in Nat, c + 1 \in Id,
           NEW f \in [Name -> (1..c) \cup {Nobody}], NEW k \in Records, Agree(f, k), NEW m,
           NEW d \in SUBSET (1..c), NEW n \in Name, NEW u \in Subject,
           NEW r, r = << >> \/ (f[n] # Nobody /\ r = purge(f[n], n))
    PROVE  PlanOK(r \o <<writeMeta(c + 1, n, "creating", << >>), Remember(c + 1, n, "creating"),
                         InitContent(n, c + 1, rollback(c + 1, n, FALSE, FALSE)),
                         WritePolicy(n, c + 1, u, rollback(c + 1, n, TRUE, FALSE)), Remember(c + 1, n, "active"),
                         writeMeta(c + 1, n, "active", rollback(c + 1, n, TRUE, TRUE)), Return(c + 1)>>,
                  f, k, m, d, 1..(c + 1))
<1> DEFINE id == c + 1
           I == 1..id
           g == [i \in Id |-> IF i = id THEN n ELSE k[i].name]
           s1 == writeMeta(id, n, "creating", << >>)
           s2 == Remember(id, n, "creating")
           s3 == InitContent(n, id, rollback(id, n, FALSE, FALSE))
           s4 == WritePolicy(n, id, u, rollback(id, n, TRUE, FALSE))
           s5 == Remember(id, n, "active")
           s6 == writeMeta(id, n, "active", rollback(id, n, TRUE, TRUE))
           s7 == Return(id)
           p == <<s1, s2, s3, s4, s5, s6, s7>>
           S == PlanStep(g, Nobody, I)
<1>0. id \in Id /\ id \in I /\ id # Nobody /\ id \notin 1..c /\ 1..c \subseteq Id /\ 1..c \subseteq I /\ Nobody \notin Id
  BY DEF Id, Nobody
<1>1. g \in Naming /\ g[id] = n
  BY <1>0, RecordNames DEF Naming
<1>2. \A l \in Name : f[l] # Nobody => f[l] \in 1..c /\ g[f[l]] = l
  BY <1>0 DEF Agree
<1> HIDE DEF g, I
<1>3. /\ [name |-> n, state |-> "creating"] \in Record /\ [name |-> n, state |-> "active"] \in Record
  BY DEF Record
<1>4. /\ s1 \in S /\ s1.op = "writeMeta" /\ s1.id = id
      /\ s6 \in S /\ s6.op = "writeMeta" /\ s6.id = id
  <2>1. rollback(id, n, TRUE, TRUE) \in Seq(SoftStep(g, Nobody, I))
    BY <1>0, <1>1, RollbackSteps
  <2>2. << >> \in Seq(SoftStep(g, Nobody, I))
    OBVIOUS
  <2> QED BY <1>0, <1>3, <2>1, <2>2 DEF writeMeta, PlanStep
<1>5. /\ s2 \in S /\ s2.op = "remember" /\ s2.id = id
      /\ s5 \in S /\ s5.op = "remember" /\ s5.id = id
  BY <1>0, <1>1, <1>3 DEF Remember, PlanStep
<1>6. s3 \in S /\ s3.op = "init"
  <2>1. rollback(id, n, FALSE, FALSE) \in Seq(SoftStep(g, Nobody, I))
    BY <1>0, <1>1, RollbackSteps
  <2> QED BY <1>0, <2>1 DEF InitContent, PlanStep
<1>7. s4 \in S /\ s4.op = "writePolicy"
  <2>1. rollback(id, n, TRUE, FALSE) \in Seq(SoftStep(g, Nobody, I))
    BY <1>0, <1>1, RollbackSteps
  <2> QED BY <1>0, <2>1 DEF WritePolicy, PlanStep
<1>8. s7 \in S /\ s7.op = "return" /\ s7.id = id
  BY <1>0 DEF Return, PlanStep
<1> HIDE DEF s1, s2, s3, s4, s5, s6, s7, S
<1>9. /\ p \in Seq(S) /\ Len(p) = 7 /\ DOMAIN p = 1..7
      /\ p[1] = s1 /\ p[2] = s2 /\ p[3] = s3 /\ p[4] = s4 /\ p[5] = s5 /\ p[6] = s6 /\ p[7] = s7
  BY <1>4, <1>5, <1>6, <1>7, <1>8
<1> HIDE DEF p
<1>10. \A i \in DOMAIN p : i \in {1, 2, 3, 4, 5, 6, 7}
  BY <1>9
<1>11. InOrder(p)
  BY <1>4, <1>5, <1>6, <1>7, <1>8, <1>9, <1>10 DEF InOrder
<1>12. Spares(p, d)
  BY <1>0, <1>4, <1>5, <1>6, <1>7, <1>8, <1>9, <1>10 DEF Spares
<1>13. \A j \in DOMAIN p : p[j].op = "return" => p[j].id = id
  BY <1>4, <1>5, <1>6, <1>7, <1>8, <1>9, <1>10
<1>14. Keeps(p, id, k)
  BY <1>4, <1>5, <1>6, <1>7, <1>8, <1>9, <1>10 DEF Keeps
<1>15. /\ r \in Seq(S)
       /\ \A i \in DOMAIN r : r[i].op \in Removal
       /\ \A i \in DOMAIN r : r[i].op = "forget" => r[i].id # id
  <2>1. CASE r = << >>
    BY <2>1
  <2>2. CASE f[n] # Nobody /\ r = purge(f[n], n)
    <3>1. f[n] \in I /\ f[n] # Nobody /\ g[f[n]] = n /\ f[n] # id
      BY <1>0, <1>2, <2>2
    <3>i. PICK i \in I : i = f[n]
      BY <3>1
    <3>p. Clears(purge(i, n), i, g, Nobody, I)
      <4>1. i # Nobody /\ g[i] = n
        BY <3>1, <3>i
      <4> QED BY <3>i, <4>1, PurgeSteps
    <3>2. Clears(r, i, g, Nobody, I)
      BY <2>2, <3>i, <3>p
    <3>3. r \in Seq(S)
      BY <3>2, SoftFields, SeqWithin DEF S, Clears
    <3> QED BY <3>1, <3>i, <3>2, <3>3 DEF Clears
  <2> QED BY <2>1, <2>2
<1>a. \A j \in DOMAIN p : p[j].op = "return" =>
          Keeps(p, p[j].id, k) /\ \A i \in DOMAIN r : r[i].op = "forget" => r[i].id # p[j].id
  BY <1>13, <1>14, <1>15
<1>b. r \in Seq(S) /\ p \in Seq(S)
  BY <1>9, <1>15
<1>16. InOrder(r \o p) /\ Spares(r \o p, d) /\ Returns(r \o p, k, m) /\ r \o p \in Seq(S)
  BY <1>11, <1>12, <1>15, <1>a, <1>b, RemovalFirst, StepsOf
<1>17. Leads(g, Nobody, f, r \o p)
  BY <1>2 DEF Leads
<1>18. PlanOK(r \o p, f, k, m, d, I)
  BY <1>1, <1>16, <1>17 DEF PlanOK, S
<1> QED BY <1>18 DEF p, s1, s2, s3, s4, s5, s6, s7, I

\* The plan of Delete, written out: two steps, a purge and a return.
LEMMA TwoFourOne ==
    ASSUME NEW a, NEW b, NEW c, NEW d, NEW e, NEW f, NEW h
    PROVE  <<a, b>> \o <<c, d, e, f>> \o <<h>> = <<a, b, c, d, e, f, h>>
<1> DEFINE S == {a, b, c, d, e, f, h}
           o == <<a, b>>
           p == <<c, d, e, f>>
           q == <<h>>
           r == <<a, b, c, d, e, f, h>>
<1>1. /\ o \in Seq(S) /\ p \in Seq(S) /\ q \in Seq(S) /\ r \in Seq(S)
      /\ Len(o) = 2 /\ Len(p) = 4 /\ Len(q) = 1 /\ Len(r) = 7
  OBVIOUS
<1>2. (o \o p) \o q \in Seq(S) /\ Len((o \o p) \o q) = 7
  BY <1>1
<1>3. \A i \in 1..7 : ((o \o p) \o q)[i] = r[i]
  OBVIOUS
<1> HIDE DEF o, p, q, r, S
<1>4. (o \o p) \o q = r
  BY <1>1, <1>2, <1>3, SeqEqual
<1> QED BY <1>4 DEF o, p, q, r

\* The plan of Delete writes the tombstone first.
LEMMA DeletePlanned ==
    ASSUME NEW c \in Nat, 1..c \subseteq Id,
           NEW f \in [Name -> (1..c) \cup {Nobody}], NEW k \in Records, Agree(f, k), NEW m, NEW d,
           NEW n \in Name, NEW id \in 1..c, f[n] = id
    PROVE  PlanOK(DeletePlan(n, id), f, k, m, d, 1..c)
<1> DEFINE I == 1..c
           g == [i \in Id |-> k[i].name]
           s1 == Remember(id, n, "deleting")
           s2 == writeMeta(id, n, "deleting", << >>)
           s3 == RemoveAll(n)
           s4 == RemovePolicy(n)
           s5 == removeMeta(id, n)
           s6 == Forget(id, n)
           s7 == Return(id)
           p == <<s1, s2, s3, s4, s5, s6, s7>>
           S == PlanStep(g, Nobody, I)
<1>0. id # Nobody /\ id \in Id /\ Nobody \notin Id
  BY DEF Id, Nobody
<1>1. g \in Naming
  BY RecordNames DEF Naming
<1>2. \A l \in Name : f[l] # Nobody => g[f[l]] = l
  BY DEF Agree
<1>3. g[id] = n
  BY <1>0, <1>2
<1> HIDE DEF g, I
<1>4. s1 \in S /\ s1.op = "remember" /\ ~live(s1.to.state)
  BY <1>3 DEF I, Remember, PlanStep, Record, live
<1>5. s2 \in S /\ s2.op = "writeMeta" /\ s2.id = id /\ ~live(s2.to.state) /\ s2.fail = << >>
  <2>1. << >> \in Seq(SoftStep(g, Nobody, I)) /\ [name |-> n, state |-> "deleting"] \in Record
    BY DEF Record
  <2> QED BY <2>1 DEF I, writeMeta, PlanStep, live
<1>6. s3 \in S /\ s4 \in S /\ s5 \in S /\ s3.op = "removeAll" /\ s4.op = "removePolicy" /\ s5.op = "removeMeta"
  BY DEF I, RemoveAll, RemovePolicy, removeMeta, PlanStep, SoftStep
<1>7. s6 \in S /\ s6.op = "forget"
  <2>1. s6 \in SoftStep(g, Nobody, I)
    BY <1>0, <1>3 DEF I, SoftStep
  <2> QED BY <2>1 DEF PlanStep, Forget
<1>8. s7 \in S /\ s7.op = "return" /\ s7.id = id
  BY DEF I, Return, PlanStep
<1>p. DeletePlan(n, id) = p
  BY TwoFourOne DEF DeletePlan, purge
<1> HIDE DEF s1, s2, s3, s4, s5, s6, s7, S
<1>9. /\ p \in Seq(S) /\ Len(p) = 7 /\ DOMAIN p = 1..7
      /\ p[1] = s1 /\ p[2] = s2 /\ p[3] = s3 /\ p[4] = s4 /\ p[5] = s5 /\ p[6] = s6 /\ p[7] = s7
  BY <1>4, <1>5, <1>6, <1>7, <1>8
<1> HIDE DEF p
<1>10. \A i \in DOMAIN p : i \in {1, 2, 3, 4, 5, 6, 7}
  BY <1>9
<1>11. InOrder(p)
  BY <1>4, <1>5, <1>6, <1>7, <1>8, <1>9, <1>10 DEF InOrder
<1>12. Spares(p, d)
  BY <1>4, <1>5, <1>6, <1>7, <1>8, <1>9, <1>10 DEF Spares
<1>13. \A j \in DOMAIN p : p[j].op = "return" => p[j].id = id
  BY <1>4, <1>5, <1>6, <1>7, <1>8, <1>9, <1>10
<1>14. Buries(p, id, m)
  BY <1>4, <1>5, <1>6, <1>7, <1>8, <1>9, <1>10 DEF Buries
<1>15. Returns(p, k, m)
  BY <1>13, <1>14 DEF Returns
<1>16. Leads(g, Nobody, f, p)
  BY <1>2 DEF Leads
<1> QED BY <1>1, <1>9, <1>11, <1>12, <1>15, <1>16, <1>p DEF PlanOK, S, I

\* The plan of Rename gives the old name up before it takes the new one, and what it
\* removes of an earlier repository of that name is not the one it renames.
LEMMA RenamePlanned ==
    ASSUME NEW c \in Nat, 1..c \subseteq Id,
           NEW f \in [Name -> (1..c) \cup {Nobody}], NEW k \in Records, Agree(f, k), NEW m, NEW d,
           NEW n \in Name, NEW n2 \in Name, NEW id \in 1..c, f[n] = id, n # n2,
           NEW s \in {"creating", "active", "deleting"}, id \notin d, k[id].state # "none",
           NEW r, r = << >> \/ (f[n2] # Nobody /\ r = purge(f[n2], n2))
    PROVE  PlanOK(r \o <<MoveContent(n, n2, FALSE), MovePolicy(n, n2, <<MoveContent(n2, n, TRUE)>>),
                         Unname(n), Remember(id, n2, s), writeMeta(id, n2, s, << >>), Return(id)>>,
                  f, k, m, d, 1..c)
<1> DEFINE I == 1..c
           g == [i \in Id |-> IF i = id THEN n2 ELSE k[i].name]
           s1 == MoveContent(n, n2, FALSE)
           s2 == MovePolicy(n, n2, <<MoveContent(n2, n, TRUE)>>)
           s3 == Unname(n)
           s4 == Remember(id, n2, s)
           s5 == writeMeta(id, n2, s, << >>)
           s6 == Return(id)
           p == <<s1, s2, s3, s4, s5, s6>>
           S == PlanStep(g, id, I)
<1>0. id # Nobody /\ id \in Id /\ id \in I /\ Nobody \notin Id
  BY DEF Id, Nobody
<1>1. g \in Naming /\ g[id] = n2
  BY <1>0, RecordNames DEF Naming
<1>2. \A l \in Name : f[l] # Nobody => f[l] \in Id /\ f[l] \in I /\ k[f[l]].name = l
  BY DEF Agree
<1>3. \A l \in Name : f[l] # Nobody /\ f[l] # id => g[f[l]] = l
  BY <1>2
<1>4. \A l \in Name : f[l] = id => l = n
  BY <1>0, <1>2
<1> HIDE DEF g, I
<1>5. s1 \in S /\ s1.op = "moveContent"
  BY DEF MoveContent, PlanStep
<1>6. s2 \in S /\ s2.op = "movePolicy"
  <2>1. MoveContent(n2, n, TRUE) \in SoftStep(g, id, I)
    BY DEF MoveContent, SoftStep
  <2> DEFINE v == MoveContent(n2, n, TRUE)
  <2> HIDE DEF v
  <2>v. <<v>> \in Seq(SoftStep(g, id, I))
    <3>1. v \in SoftStep(g, id, I)
      BY <2>1 DEF v
    <3> QED BY <3>1
  <2>2. <<MoveContent(n2, n, TRUE)>> \in Seq(SoftStep(g, id, I))
    BY <2>v DEF v
  <2> QED BY <2>2 DEF MovePolicy, PlanStep
<1>7. s3 \in S /\ s3.op = "unname" /\ s3.name = n
  BY DEF Unname, PlanStep
<1>r. [name |-> n2, state |-> s] \in Record
  BY DEF Record
<1>8. s4 \in S /\ s4.op = "remember" /\ s4.id = id
  BY <1>0, <1>1, <1>r DEF Remember, PlanStep
<1>9. s5 \in S /\ s5.op = "writeMeta" /\ s5.id = id
  <2>1. << >> \in Seq(SoftStep(g, id, I))
    OBVIOUS
  <2> QED BY <1>0, <1>r, <2>1 DEF writeMeta, PlanStep
<1>10. s6 \in S /\ s6.op = "return" /\ s6.id = id
  BY <1>0 DEF Return, PlanStep
<1> HIDE DEF s1, s2, s3, s4, s5, s6, S
<1>11. /\ p \in Seq(S) /\ Len(p) = 6 /\ DOMAIN p = 1..6
       /\ p[1] = s1 /\ p[2] = s2 /\ p[3] = s3 /\ p[4] = s4 /\ p[5] = s5 /\ p[6] = s6
  BY <1>5, <1>6, <1>7, <1>8, <1>9, <1>10
<1> HIDE DEF p
<1>12. \A i \in DOMAIN p : i \in {1, 2, 3, 4, 5, 6}
  BY <1>11
<1>13. InOrder(p)
  BY <1>5, <1>6, <1>7, <1>8, <1>9, <1>10, <1>11, <1>12 DEF InOrder
<1>14. Spares(p, d)
  BY <1>5, <1>6, <1>7, <1>8, <1>9, <1>10, <1>11, <1>12 DEF Spares
<1>15. \A j \in DOMAIN p : p[j].op = "return" => p[j].id = id
  BY <1>5, <1>6, <1>7, <1>8, <1>9, <1>10, <1>11, <1>12
<1>16. Keeps(p, id, k)
  BY <1>5, <1>6, <1>7, <1>8, <1>9, <1>10, <1>11, <1>12 DEF Keeps
<1>17. /\ r \in Seq(S)
       /\ \A i \in DOMAIN r : r[i].op \in Removal
       /\ \A i \in DOMAIN r : r[i].op = "forget" => r[i].id # id
  <2>1. CASE r = << >>
    BY <2>1
  <2>2. CASE f[n2] # Nobody /\ r = purge(f[n2], n2)
    <3>1. f[n2] \in I /\ g[f[n2]] = n2 /\ f[n2] # id
      BY <1>2, <1>3, <1>4, <2>2
    <3>i. PICK i \in I : i = f[n2]
      BY <3>1
    <3>p. Clears(purge(i, n2), i, g, id, I)
      <4>1. i # id /\ g[i] = n2
        BY <3>1, <3>i
      <4> QED BY <3>i, <4>1, PurgeSteps
    <3>2. Clears(r, i, g, id, I)
      BY <2>2, <3>i, <3>p
    <3>3. r \in Seq(S)
      BY <3>2, SoftFields, SeqWithin DEF S, Clears
    <3> QED BY <3>1, <3>i, <3>2, <3>3 DEF Clears
  <2> QED BY <2>1, <2>2
<1>a. \A j \in DOMAIN p : p[j].op = "return" =>
          Keeps(p, p[j].id, k) /\ \A i \in DOMAIN r : r[i].op = "forget" => r[i].id # p[j].id
  BY <1>15, <1>16, <1>17
<1>b. r \in Seq(S) /\ p \in Seq(S)
  BY <1>11, <1>17
<1>18. InOrder(r \o p) /\ Spares(r \o p, d) /\ Returns(r \o p, k, m) /\ r \o p \in Seq(S)
  BY <1>13, <1>14, <1>17, <1>a, <1>b, RemovalFirst, StepsOf
<1>19. \E j \in DOMAIN (r \o p) : (r \o p)[j].op = "unname" /\ (r \o p)[j].name = n
  <2>1. \A i \in DOMAIN p : i + Len(r) \in DOMAIN (r \o p) /\ (r \o p)[i + Len(r)] = p[i]
    BY <1>b, StepsOf
  <2>2. 3 \in DOMAIN p /\ p[3] = s3
    BY <1>11
  <2> QED BY <1>7, <2>1, <2>2
<1>20. Leads(g, id, f, r \o p)
  BY <1>3, <1>4, <1>19 DEF Leads
<1>21. PlanOK(r \o p, f, k, m, d, I)
  BY <1>0, <1>1, <1>18, <1>20 DEF PlanOK, S
<1> QED BY <1>21 DEF p, s1, s2, s3, s4, s5, s6, I

\* The plan of a Rename that changes nothing.
LEMMA NothingPlanned ==
    ASSUME NEW c \in Nat, 1..c \subseteq Id,
           NEW f \in [Name -> (1..c) \cup {Nobody}], NEW k \in Records, Agree(f, k), NEW m, NEW d,
           NEW id \in 1..c, k[id].state # "none"
    PROVE  PlanOK(<<Return(id)>>, f, k, m, d, 1..c)
<1> DEFINE g == [i \in Id |-> k[i].name]
           s == Return(id)
           p == <<s>>
           S == PlanStep(g, Nobody, 1..c)
<1>1. g \in Naming
  BY RecordNames DEF Naming
<1>2. \A l \in Name : f[l] # Nobody => g[f[l]] = l
  BY DEF Agree
<1> HIDE DEF g
<1>3. s \in S /\ s.op = "return" /\ s.id = id
  BY DEF Return, PlanStep
<1> HIDE DEF s, S
<1>4. p \in Seq(S) /\ Len(p) = 1 /\ DOMAIN p = {1} /\ p[1] = s
  BY <1>3
<1> HIDE DEF p
<1>5. InOrder(p) /\ Spares(p, d)
  BY <1>3, <1>4 DEF InOrder, Spares
<1>6. Returns(p, k, m)
  BY <1>3, <1>4 DEF Returns, Keeps
<1>7. Leads(g, Nobody, f, p)
  BY <1>2 DEF Leads
<1>8. PlanOK(p, f, k, m, d, 1..c)
  BY <1>1, <1>4, <1>5, <1>6, <1>7 DEF PlanOK, S
<1> QED BY <1>8 DEF p, s

\* A step of a plan that does what it says to the index.
LEMMA LeadsTail ==
    ASSUME NEW S, NEW p \in Seq(S), p # << >>, NEW g, NEW x, NEW f, Leads(g, x, f, p), NEW f2,
           \A n \in Name : f2[n] = f[n] \/ f2[n] = Nobody \/ g[f2[n]] = n,
           Head(p).op = "unname" => f2[Head(p).name] = Nobody
    PROVE  Leads(g, x, f2, Tail(p))
<1> DEFINE t == Tail(p)
<1>1. Head(p) = p[1]
  BY TailOf
<1>2. \A j \in DOMAIN p : j # 1 => j - 1 \in DOMAIN t /\ t[j - 1] = p[j]
  BY TailOf
<1> HIDE DEF t
<1>3. ASSUME NEW n \in Name, f2[n] # Nobody
      PROVE  g[f2[n]] = n \/ (f2[n] = x /\ \E j \in DOMAIN t : t[j].op = "unname" /\ t[j].name = n)
  <2>1. CASE g[f2[n]] = n
    BY <2>1
  <2>2. CASE f2[n] = f[n] /\ g[f2[n]] # n
    <3>1. PICK j \in DOMAIN p : f[n] = x /\ p[j].op = "unname" /\ p[j].name = n
      BY <1>3, <2>2 DEF Leads
    <3>2. j # 1
      BY <1>1, <1>3, <3>1
    <3> QED BY <1>2, <2>2, <3>1, <3>2
  <2> QED BY <1>3, <2>1, <2>2
<1>4. Leads(g, x, f2, t)
  BY <1>3 DEF Leads
<1> QED BY <1>4 DEF t

----------------------------------------------------------------------------
(* The manager                                                             *)

\* The repositories given out are repositories; nobody and scrap are not.
LEMMA GivenIds ==
    ASSUME StoresTyped
    PROVE  Given \subseteq Id /\ Nobody \notin Id /\ Scrap \notin Id /\ created \in Nat
  BY DEF StoresTyped, Given, Id, Nobody, Scrap

\* What load finds agrees with the records it finds it in.
LEMMA LoadAgrees ==
    ASSUME StoresTyped, IndexAgrees, DeletedStaysDeleted, NEW f \in load
    PROVE  /\ f \in [Name -> Given \cup {Nobody}]
           /\ records \in Records /\ Agree(f, records)
           /\ \A i \in Id : i > created => records[i] = NoRecord
           /\ \A i \in deleted : ~live(records[i].state)
<1>1. CASE loaded
  BY <1>1 DEF load, records, StoresTyped, IndexAgrees, DeletedStaysDeleted
<1>2. CASE ~loaded
  <2>1. records = meta
    BY <1>2 DEF records
  <2>2. f \in [Name -> Id \cup {Nobody}]
    BY <1>2 DEF load
  <2>3. ASSUME NEW n \in Name, f[n] # Nobody
        PROVE  f[n] \in Id /\ meta[f[n]].state # "none" /\ meta[f[n]].name = n
    BY <1>2, <2>3 DEF load
  <2>4. ASSUME NEW n \in Name, f[n] # Nobody PROVE f[n] \in Given
    <3>1. ~(f[n] > created)
      <4>1. NoRecord.state = "none"
        BY DEF NoRecord
      <4> QED BY <2>3, <2>4, <4>1 DEF StoresTyped
    <3> QED BY <2>3, <2>4, <3>1, GivenIds DEF Given, Id
  <2>5. f \in [Name -> Given \cup {Nobody}]
    BY <2>2, <2>4
  <2> QED BY <2>1, <2>3, <2>5 DEF StoresTyped, DeletedStaysDeleted, Agree
<1> QED BY <1>1, <1>2 DEF StoresTyped

\* An operation begins, with the index it loads.
LEMMA Starting ==
    ASSUME ManagerInv, NEW f \in load, Loads(f),
           created' \in {created, created + 1}, created' <= MaxRepos,
           PlanOK(plan', f, records, meta, deleted, 1..created'),
           UNCHANGED <<content, meta, deleted, residue>>
    PROVE  ManagerInv'
<1> USE DEF ManagerInv
<1>1. /\ f \in [Name -> Given \cup {Nobody}] /\ records \in Records /\ Agree(f, records)
      /\ \A i \in Id : i > created => records[i] = NoRecord
      /\ \A i \in deleted : ~live(records[i].state)
  BY LoadAgrees
<1>2. byName' = f /\ known' = records /\ loaded' = TRUE
  BY DEF Loads
<1>3. created \in Nat /\ created' \in Nat /\ created <= created' /\ 1..created \subseteq 1..created'
  BY DEF StoresTyped
<1>4. byName' \in [Name -> (1..created') \cup {Nobody}]
  BY <1>1, <1>2, <1>3 DEF Given
<1>5. \A i \in Id : i > created' => meta'[i] = NoRecord /\ known'[i] = NoRecord
  BY <1>1, <1>2, <1>3 DEF StoresTyped, Id
<1>6. StoresTyped'
  BY <1>1, <1>2, <1>3, <1>4, <1>5 DEF StoresTyped, Given
<1>7. IndexAgrees' /\ PlanInv'
  BY <1>1, <1>2 DEF IndexAgrees, PlanInv, Given
<1>8. DeletedStaysDeleted'
  BY <1>1, <1>2 DEF DeletedStaysDeleted
<1> QED BY <1>6, <1>7, <1>8

\* The index is loaded and nothing else happens.
LEMMA Loading ==
    ASSUME ManagerInv, Idle, NEW f \in load, Loads(f),
           UNCHANGED <<content, meta, plan, created, deleted, residue>>
    PROVE  ManagerInv'
<1>1. /\ f \in [Name -> Given \cup {Nobody}] /\ records \in Records /\ Agree(f, records)
  BY LoadAgrees DEF ManagerInv
<1>2. f \in [Name -> Id \cup {Nobody}]
  BY <1>1, GivenIds DEF ManagerInv
<1>3. PlanOK(plan', f, records, meta, deleted, 1..created')
  BY <1>1, <1>2, NoPlan DEF Idle
<1>4. created' <= MaxRepos
  BY DEF ManagerInv, StoresTyped
<1> QED BY <1>3, <1>4, Starting

\* Nothing of the manager changes.
LEMMA ManagerKept ==
    ASSUME ManagerInv, UNCHANGED <<content, meta, memory, plan, created, deleted, residue>>
    PROVE  ManagerInv'
<1>1. StoresTyped'
  BY DEF ManagerInv, StoresTyped, memory, Given
<1>2. IndexAgrees' /\ PlanInv' /\ DeletedStaysDeleted'
  BY DEF ManagerInv, IndexAgrees, PlanInv, DeletedStaysDeleted, memory, Given
<1> QED BY <1>1, <1>2 DEF ManagerInv

\* The next step of the plan, when it changes the index to f2 and k2 and the records to m2
\* as it says.
LEMMA PlanAdvances ==
    ASSUME StoresTyped, PlanInv, plan # << >>, NEW f2, NEW k2, NEW m2,
           \A g, x : Head(plan) \in PlanStep(g, x, Given) =>
               \A n \in Name : f2[n] = byName[n] \/ f2[n] = Nobody \/ g[f2[n]] = n,
           Head(plan).op = "unname" => f2[Head(plan).name] = Nobody,
           \A i \in Id : known[i].state # "none" =>
                     k2[i].state # "none" \/ (Head(plan).op = "forget" /\ Head(plan).id = i),
           Head(plan).op = "remember" => k2[Head(plan).id].state # "none",
           \A i \in Id : ~live(meta[i].state) =>
                     ~live(m2[i].state) \/ (Head(plan).op = "writeMeta" /\ Head(plan).id = i),
           Head(plan).op = "writeMeta" => m2[Head(plan).id] = Head(plan).to
    PROVE  PlanOK(Tail(plan), f2, k2, m2, deleted, Given)
<1>1. PICK g \in Naming, x \in Id \cup {Nobody} :
          plan \in Seq(PlanStep(g, x, Given)) /\ Leads(g, x, byName, plan)
  BY DEF PlanInv, PlanOK
<1>2. Head(plan) \in PlanStep(g, x, Given) /\ Tail(plan) \in Seq(PlanStep(g, x, Given))
  BY <1>1, TailOf
<1>3. \A n \in Name : f2[n] = byName[n] \/ f2[n] = Nobody \/ g[f2[n]] = n
  BY <1>2
<1>4. Leads(g, x, f2, Tail(plan))
  BY <1>1, <1>3, LeadsTail
<1>5. InOrder(Tail(plan)) /\ Spares(Tail(plan), deleted)
  BY <1>1, OrderTail, SparesTail DEF PlanInv, PlanOK
<1>6. Returns(plan, known, meta)
  BY DEF PlanInv, PlanOK
<1>7. \A j \in DOMAIN plan : plan[j].op = "return" => plan[j].id \in Id
  <2>1. \A j \in DOMAIN plan : plan[j] \in PlanStep(g, x, Given)
    BY <1>1
  <2> QED BY <2>1, StepFields, GivenIds
<1>8. Returns(Tail(plan), k2, m2)
  BY <1>1, <1>6, <1>7, ReturnsTail
<1> QED BY <1>1, <1>2, <1>4, <1>5, <1>8 DEF PlanOK

\* A step that leaves the index and the records alone.
LEMMA PlanAdvancesQuietly ==
    ASSUME StoresTyped, PlanInv, plan # << >>, Head(plan).op \notin {"unname", "remember", "writeMeta"}
    PROVE  PlanOK(Tail(plan), byName, known, meta, deleted, Given)
  BY PlanAdvances

\* The step at hand has the fields of its kind.
LEMMA HeadFields ==
    ASSUME ManagerInv, plan # << >>, NEW w, w = Head(plan)
    PROVE  /\ w.op \in Removal \cup {"moveContent", "writeMeta", "init", "writePolicy", "movePolicy", "remember",
                                     "unname", "return"}
           /\ w.op \in {"writeMeta", "remember"} => w.id \in Given /\ w.to \in Record
           /\ w.op \in {"removeMeta", "forget", "init", "writePolicy"} => w.id \in Given /\ w.name \in Name
           /\ w.op \in {"removeAll", "removePolicy", "moveContent", "movePolicy", "unname"} => w.name \in Name
           /\ w.op \in {"moveContent", "movePolicy"} => w.to \in Name
           /\ w.op = "return" => w.id \in Given
<1>1. PICK g, x : plan \in Seq(PlanStep(g, x, Given))
  BY DEF ManagerInv, PlanInv, PlanOK
<1>2. w \in PlanStep(g, x, Given)
  BY <1>1, TailOf
<1> QED BY <1>2, StepFields

\* Where the repository under rename has two names, it has no third: what remember and
\* forget change in the index leaves no name astray.
LEMMA OneName ==
    ASSUME ManagerInv, plan # << >>, NEW w, w = Head(plan), NEW n \in Name
    PROVE  /\ w.op = "remember" /\ byName[n] = w.id => n = w.to.name
           /\ w.op = "forget" /\ byName[n] = w.id => n = w.name
<1>1. PICK g \in Naming, x \in Id \cup {Nobody} :
          plan \in Seq(PlanStep(g, x, Given)) /\ Leads(g, x, byName, plan)
  BY DEF ManagerInv, PlanInv, PlanOK
<1>2. w \in PlanStep(g, x, Given) /\ w = plan[1] /\ 1 \in DOMAIN plan
  BY <1>1, TailOf
<1>3. Given \subseteq Id /\ Nobody \notin Id
  BY GivenIds DEF ManagerInv
<1>4. /\ w.op \in {"remember", "forget"} => w.id \in Given
      /\ w.op = "remember" => w.to.name = g[w.id]
      /\ w.op = "forget" => w.name = g[w.id] /\ w.id # x
  BY <1>2, StepFields
<1>5. ASSUME w.op = "forget", byName[n] = w.id PROVE n = w.name
  <2>1. byName[n] # Nobody /\ byName[n] # x
    BY <1>3, <1>4, <1>5
  <2> QED BY <1>1, <1>4, <1>5, <2>1 DEF Leads
<1>6. ASSUME w.op = "remember", byName[n] = w.id PROVE n = w.to.name
  <2>1. byName[n] # Nobody
    BY <1>3, <1>4, <1>6
  <2>2. ASSUME NEW j \in DOMAIN plan, plan[j].op = "unname" PROVE FALSE
    <3>1. j < 1
      BY <1>2, <1>6, <2>2 DEF ManagerInv, PlanInv, PlanOK, InOrder
    <3>2. j \in 1..Len(plan) /\ Len(plan) \in Nat
      BY <1>1
    <3> QED BY <3>1, <3>2
  <2> QED BY <1>1, <1>4, <1>6, <2>1, <2>2 DEF Leads
<1> QED BY <1>5, <1>6

\* What is not recorded is not live.
LEMMA NoRecordFields == NoRecord.state = "none" /\ NoRecord.name = "" /\ ~live(NoRecord.state)
  BY DEF NoRecord, live

\* The fields of a record.
LEMMA RecordFields ==
    ASSUME NEW t \in Record
    PROVE  t.name \in Name /\ t.state \in {"creating", "active", "deleting"} /\ t.state # "none"
  BY DEF Record

\* A change of the index that the plan has made.
LEMMA ManagerMemory ==
    ASSUME ManagerInv, plan # << >>, StepMemory
    PROVE  ManagerInv'
<1> DEFINE w == Head(plan)
<1>w. w = Head(plan)
  OBVIOUS
<1>u. plan' = Tail(plan) /\ UNCHANGED <<content, meta, loaded, created, deleted, residue>>
  BY DEF StepMemory, Rest, disk, given, ghosts
<1>o. \/ /\ w.op = "remember"
         /\ byName' = [byName EXCEPT ![w.to.name] = w.id] /\ known' = [known EXCEPT ![w.id] = w.to]
      \/ /\ w.op = "forget"
         /\ byName' = [byName EXCEPT ![w.name] = Nobody] /\ known' = [known EXCEPT ![w.id] = NoRecord]
      \/ /\ w.op = "unname"
         /\ byName' = [byName EXCEPT ![w.name] = Nobody] /\ known' = known
  BY DEF StepMemory
<1>i. Given \subseteq Id /\ Nobody \notin Id /\ Given' = Given
  BY <1>u, GivenIds DEF ManagerInv, Given
<1> HIDE DEF w
<1>t. /\ w.op \in {"writeMeta", "remember"} => w.id \in Given /\ w.to \in Record
      /\ w.op = "forget" => w.id \in Given /\ w.name \in Name
      /\ w.op = "unname" => w.name \in Name
  BY <1>w, HeadFields
<1>s. /\ byName \in [Name -> Given \cup {Nobody}] /\ known \in Records /\ Agree(byName, known)
      /\ \A i \in Id : i > created => known[i] = NoRecord
      /\ created \in Nat
  BY GivenIds DEF ManagerInv, StoresTyped, IndexAgrees
<1>d. \A i \in Given : i \in Id /\ ~(i > created)
  BY <1>i, <1>s DEF Given
<1>p. PlanInv /\ StoresTyped
  BY DEF ManagerInv
<1>k. \A i \in deleted : i \in Id /\ ~live(known[i].state)
  BY <1>i DEF ManagerInv, DeletedStaysDeleted, StoresTyped
<1>1. CASE w.op = "remember"
  <2>0. w.id \in Given /\ w.to \in Record /\ w.to.name \in Name /\ w.to.state # "none"
    BY <1>1, <1>t, RecordFields
  <2>1. byName' = [byName EXCEPT ![w.to.name] = w.id] /\ known' = [known EXCEPT ![w.id] = w.to]
    BY <1>1, <1>o
  <2>2. /\ byName' \in [Name -> Given \cup {Nobody}] /\ known' \in Records
        /\ \A i \in Id : i > created => known'[i] = NoRecord
    BY <1>d, <1>s, <2>0, <2>1 DEF Records
  <2>3. Agree(byName', known')
    <3> SUFFICES ASSUME NEW n \in Name, byName'[n] # Nobody PROVE known'[byName'[n]].name = n
      BY DEF Agree
    <3>1. CASE n = w.to.name
      BY <1>i, <1>s, <2>0, <2>1, <3>1 DEF Records
    <3>2. CASE n # w.to.name
      <4>1. byName'[n] = byName[n] /\ byName[n] \in Id /\ byName[n] # w.id
        BY <1>1, <1>i, <1>s, <1>w, <2>1, <3>2, OneName
      <4> QED BY <1>s, <2>1, <4>1 DEF Records, Agree
    <3> QED BY <3>1, <3>2
  <2>4. DeletedStaysDeleted'
    <3>1. w.id \in deleted => ~live(w.to.state)
      <4>1. Spares(plan, deleted) /\ plan[1] = w /\ 1 \in DOMAIN plan
        BY <1>p, <1>w, TailOf DEF PlanInv, PlanOK
      <4> QED BY <1>1, <4>1 DEF Spares
    <3>2. \A i \in Id : known'[i] = IF i = w.id THEN w.to ELSE known[i]
      BY <1>s, <2>1 DEF Records
    <3> QED BY <1>k, <1>u, <3>1, <3>2 DEF DeletedStaysDeleted, ManagerInv
  <2>5. PlanInv'
    <3>1. \A g, x : Head(plan) \in PlanStep(g, x, Given) =>
              \A n \in Name : byName'[n] = byName[n] \/ byName'[n] = Nobody \/ g[byName'[n]] = n
      <4> SUFFICES ASSUME NEW g, NEW x, w \in PlanStep(g, x, Given), NEW n \in Name
                   PROVE  byName'[n] = byName[n] \/ g[byName'[n]] = n
        BY <1>w
      <4>1. w.to.name = g[w.id]
        BY <1>1, StepFields
      <4> QED BY <1>s, <2>1, <4>1
    <3>2. \A i \in Id : known[i].state # "none" => known'[i].state # "none"
      BY <1>s, <2>0, <2>1 DEF Records
    <3>3. known'[w.id].state # "none"
      BY <1>i, <1>s, <2>0, <2>1 DEF Records
    <3>4. PlanOK(Tail(plan), byName', known', meta, deleted, Given)
      BY <1>1, <1>p, <1>w, <3>1, <3>2, <3>3, PlanAdvances
    <3> QED BY <1>i, <1>u, <3>4 DEF PlanInv
  <2> QED BY <1>i, <1>u, <2>2, <2>3, <2>4, <2>5 DEF ManagerInv, StoresTyped, IndexAgrees
<1>2. CASE w.op = "forget"
  <2>0. w.id \in Given /\ w.name \in Name
    BY <1>2, <1>t
  <2>1. byName' = [byName EXCEPT ![w.name] = Nobody] /\ known' = [known EXCEPT ![w.id] = NoRecord]
    BY <1>2, <1>o
  <2>2. /\ byName' \in [Name -> Given \cup {Nobody}] /\ known' \in Records
        /\ \A i \in Id : i > created => known'[i] = NoRecord
    BY <1>s, <2>0, <2>1 DEF Records
  <2>3. Agree(byName', known')
    <3> SUFFICES ASSUME NEW n \in Name, byName'[n] # Nobody PROVE known'[byName'[n]].name = n
      BY DEF Agree
    <3>1. n # w.name
      BY <1>s, <2>0, <2>1
    <3>2. byName'[n] = byName[n] /\ byName[n] \in Id /\ byName[n] # w.id
      BY <1>2, <1>i, <1>s, <1>w, <2>1, <3>1, OneName
    <3> QED BY <1>s, <2>1, <3>2 DEF Records, Agree
  <2>4. DeletedStaysDeleted'
    <3>1. \A i \in Id : known'[i] = IF i = w.id THEN NoRecord ELSE known[i]
      BY <1>s, <2>1 DEF Records
    <3> QED BY <1>k, <1>u, <3>1, NoRecordFields DEF DeletedStaysDeleted, ManagerInv
  <2>5. PlanInv'
    <3>1. \A n \in Name : byName'[n] = byName[n] \/ byName'[n] = Nobody
      BY <1>s, <2>1
    <3>2. \A i \in Id : known[i].state # "none" => known'[i].state # "none" \/ w.id = i
      BY <1>s, <2>0, <2>1 DEF Records
    <3>4. PlanOK(Tail(plan), byName', known', meta, deleted, Given)
      BY <1>2, <1>p, <1>w, <3>1, <3>2, PlanAdvances
    <3> QED BY <1>i, <1>u, <3>4 DEF PlanInv
  <2> QED BY <1>i, <1>u, <2>2, <2>3, <2>4, <2>5 DEF ManagerInv, StoresTyped, IndexAgrees
<1>3. CASE w.op = "unname"
  <2>0. w.name \in Name
    BY <1>3, <1>t
  <2>1. byName' = [byName EXCEPT ![w.name] = Nobody] /\ known' = known
    BY <1>3, <1>o
  <2>2. byName' \in [Name -> Given \cup {Nobody}]
    BY <1>s, <2>0, <2>1
  <2>3. \A n \in Name : byName'[n] = byName[n] \/ byName'[n] = Nobody
    BY <1>s, <2>1
  <2>4. Agree(byName', known')
    BY <1>s, <2>1, <2>3 DEF Agree
  <2>5. PlanInv'
    <3>1. byName'[w.name] = Nobody
      BY <1>s, <2>0, <2>1
    <3>2. PlanOK(Tail(plan), byName', known, meta, deleted, Given)
      BY <1>3, <1>p, <1>w, <2>3, <3>1, PlanAdvances
    <3> QED BY <1>i, <1>u, <2>1, <3>2 DEF PlanInv
  <2>6. DeletedStaysDeleted'
    BY <1>u, <2>1 DEF ManagerInv, DeletedStaysDeleted
  <2> QED BY <1>i, <1>u, <2>1, <2>2, <2>4, <2>5, <2>6 DEF ManagerInv, StoresTyped, IndexAgrees
<1> QED BY <1>o, <1>1, <1>2, <1>3

\* A record that the plan has written or removed.
LEMMA ManagerMeta ==
    ASSUME ManagerInv, plan # << >>, StepMeta
    PROVE  ManagerInv'
<1> DEFINE w == Head(plan)
<1>w. w = Head(plan)
  OBVIOUS
<1>u. plan' = Tail(plan) /\ UNCHANGED <<content, byName, known, loaded, created, deleted, residue>>
  BY DEF StepMeta, Rest, memory, given, ghosts
<1>o. \/ w.op = "writeMeta" /\ meta' = [meta EXCEPT ![w.id] = w.to]
      \/ w.op = "removeMeta" /\ meta' = [meta EXCEPT ![w.id] = NoRecord]
  BY DEF StepMeta
<1>i. Given \subseteq Id /\ Given' = Given
  BY <1>u, GivenIds DEF ManagerInv, Given
<1> HIDE DEF w
<1>t. /\ w.op = "writeMeta" => w.id \in Given /\ w.to \in Record
      /\ w.op = "removeMeta" => w.id \in Given
  BY <1>w, HeadFields
<1>s. /\ meta \in Records
      /\ \A i \in Id : i > created => meta[i] = NoRecord
      /\ created \in Nat
  BY GivenIds DEF ManagerInv, StoresTyped
<1>d. \A i \in Given : i \in Id /\ ~(i > created)
  BY <1>i, <1>s DEF Given
<1>p. PlanInv /\ StoresTyped
  BY DEF ManagerInv
<1>k. \A i \in deleted : i \in Id /\ ~live(meta[i].state)
  BY <1>i DEF ManagerInv, DeletedStaysDeleted, StoresTyped
<1>1. CASE w.op = "writeMeta"
  <2>1. w.id \in Given /\ w.id \in Id /\ w.to \in Record /\ meta' = [meta EXCEPT ![w.id] = w.to]
    BY <1>1, <1>i, <1>o, <1>t
  <2>2. \A i \in Id : meta'[i] = IF i = w.id THEN w.to ELSE meta[i]
    BY <1>s, <2>1 DEF Records
  <2>3. meta' \in Records /\ \A i \in Id : i > created => meta'[i] = NoRecord
    BY <1>d, <1>s, <2>1 DEF Records
  <2>4. DeletedStaysDeleted'
    <3>1. w.id \in deleted => ~live(w.to.state)
      <4>1. Spares(plan, deleted) /\ plan[1] = w /\ 1 \in DOMAIN plan
        BY <1>p, <1>w, TailOf DEF PlanInv, PlanOK
      <4> QED BY <1>1, <4>1 DEF Spares
    <3> QED BY <1>k, <1>u, <2>2, <3>1 DEF DeletedStaysDeleted, ManagerInv
  <2>5. PlanInv'
    <3>1. \A i \in Id : ~live(meta[i].state) => ~live(meta'[i].state) \/ w.id = i
      BY <2>2
    <3>2. meta'[w.id] = w.to
      BY <2>1, <2>2
    <3>3. PlanOK(Tail(plan), byName, known, meta', deleted, Given)
      BY <1>1, <1>p, <1>w, <3>1, <3>2, PlanAdvances
    <3> QED BY <1>i, <1>u, <3>3 DEF PlanInv
  <2> QED BY <1>i, <1>u, <2>3, <2>4, <2>5 DEF ManagerInv, StoresTyped, IndexAgrees
<1>2. CASE w.op = "removeMeta"
  <2>1. w.id \in Given /\ w.id \in Id /\ meta' = [meta EXCEPT ![w.id] = NoRecord]
    BY <1>2, <1>i, <1>o, <1>t
  <2>2. \A i \in Id : meta'[i] = IF i = w.id THEN NoRecord ELSE meta[i]
    BY <1>s, <2>1 DEF Records
  <2>3. meta' \in Records /\ \A i \in Id : i > created => meta'[i] = NoRecord
    BY <1>s, <2>1 DEF Records
  <2>4. DeletedStaysDeleted'
    BY <1>k, <1>u, <2>2, NoRecordFields DEF DeletedStaysDeleted, ManagerInv
  <2>5. PlanInv'
    <3>1. \A i \in Id : ~live(meta[i].state) => ~live(meta'[i].state)
      BY <2>2, NoRecordFields
    <3>2. PlanOK(Tail(plan), byName, known, meta', deleted, Given)
      BY <1>2, <1>p, <1>w, <3>1, PlanAdvances
    <3> QED BY <1>i, <1>u, <3>2 DEF PlanInv
  <2> QED BY <1>i, <1>u, <2>3, <2>4, <2>5 DEF ManagerInv, StoresTyped, IndexAgrees
<1> QED BY <1>o, <1>1, <1>2

\* The plan goes on to a plan that keeps the promises; of what is stored only directories
\* have changed, and names are marked as left in pieces.
LEMMA ManagerGoesOn ==
    ASSUME ManagerInv, PlanOK(plan', byName, known, meta, deleted, Given),
           content' \in [Name -> Id \cup {Nobody, Scrap}], residue' \subseteq Name,
           UNCHANGED <<meta, byName, known, loaded, created, deleted>>
    PROVE  ManagerInv'
<1>1. StoresTyped'
  BY DEF ManagerInv, StoresTyped, Given
<1>2. IndexAgrees' /\ PlanInv' /\ DeletedStaysDeleted'
  BY DEF ManagerInv, IndexAgrees, PlanInv, DeletedStaysDeleted, Given
<1> QED BY <1>1, <1>2 DEF ManagerInv

\* A directory that the plan has made, removed or moved.
LEMMA ManagerContent ==
    ASSUME ManagerInv, plan # << >>, StepContent
    PROVE  ManagerInv'
<1> DEFINE w == Head(plan)
<1>w. w = Head(plan)
  OBVIOUS
<1>u. plan' = Tail(plan) /\ UNCHANGED <<meta, byName, known, loaded, created, deleted>>
  BY DEF StepContent, Rest, memory, given
<1>o. \/ w.op = "init" /\ content' = [content EXCEPT ![w.name] = IF @ \in {Nobody, Scrap} THEN w.id ELSE @]
      \/ w.op = "removeAll" /\ content' = [content EXCEPT ![w.name] = Nobody]
      \/ w.op = "moveContent" /\ content' = [content EXCEPT ![w.to] = content[w.name], ![w.name] = Nobody]
  BY DEF StepContent
<1>r. residue' = IF w.op = "moveContent" /\ w.name \in residue THEN residue \cup {w.to} ELSE residue
  BY DEF StepContent
<1> HIDE DEF w
<1>t. /\ w.op = "init" => w.id \in Id /\ w.name \in Name
      /\ w.op \in {"removeAll", "moveContent"} => w.name \in Name
      /\ w.op = "moveContent" => w.to \in Name
  BY <1>w, HeadFields, GivenIds DEF ManagerInv
<1>1. content \in [Name -> Id \cup {Nobody, Scrap}] /\ residue \subseteq Name
  BY DEF ManagerInv, StoresTyped
<1>2. content' \in [Name -> Id \cup {Nobody, Scrap}]
  <2>1. CASE w.op = "init" /\ content' = [content EXCEPT ![w.name] = IF @ \in {Nobody, Scrap} THEN w.id ELSE @]
    BY <1>1, <1>t, <2>1
  <2>2. CASE w.op = "removeAll" /\ content' = [content EXCEPT ![w.name] = Nobody]
    BY <1>1, <1>t, <2>2
  <2>3. CASE w.op = "moveContent" /\ content' = [content EXCEPT ![w.to] = content[w.name], ![w.name] = Nobody]
    <3>1. content[w.name] \in Id \cup {Nobody, Scrap}
      BY <1>1, <1>t, <2>3
    <3> QED BY <1>1, <1>t, <2>3, <3>1
  <2> QED BY <1>o, <2>1, <2>2, <2>3
<1>3. residue' \subseteq Name
  BY <1>1, <1>r, <1>t
<1>4. PlanOK(Tail(plan), byName, known, meta, deleted, Given)
  BY <1>o, <1>w, PlanAdvancesQuietly DEF ManagerInv
<1> QED BY <1>2, <1>3, <1>4, <1>u, ManagerGoesOn

\* A policy that the plan has written, removed or moved changes nothing of the index.
LEMMA ManagerPolicy ==
    ASSUME ManagerInv, plan # << >>, StepPolicy
    PROVE  ManagerInv'
<1>1. Head(plan).op \in {"writePolicy", "removePolicy", "movePolicy"} /\ plan' = Tail(plan)
      /\ UNCHANGED <<content, meta, byName, known, loaded, created, deleted, residue>>
  BY DEF StepPolicy, Rest, memory, ghosts
<1>2. PlanOK(Tail(plan), byName, known, meta, deleted, Given)
  BY <1>1, PlanAdvancesQuietly DEF ManagerInv
<1>3. content' \in [Name -> Id \cup {Nobody, Scrap}] /\ residue' \subseteq Name
  BY <1>1 DEF ManagerInv, StoresTyped
<1> QED BY <1>1, <1>2, <1>3, ManagerGoesOn

\* An operation that has nothing left to do: what it returns is known, or buried.
LEMMA ManagerReturn ==
    ASSUME ManagerInv, plan # << >>, StepReturn
    PROVE  ManagerInv'
<1> DEFINE w == Head(plan)
<1>w. w = Head(plan)
  OBVIOUS
<1>u. /\ w.op = "return" /\ plan' = << >>
      /\ deleted' = IF known[w.id].state = "none" THEN deleted \cup {w.id} ELSE deleted
      /\ UNCHANGED <<content, meta, byName, known, loaded, created, residue>>
  BY DEF StepReturn, disk, memory, given
<1> HIDE DEF w
<1>s. /\ byName \in [Name -> Id \cup {Nobody}] /\ known \in Records /\ Agree(byName, known)
      /\ deleted \subseteq Given /\ Given \subseteq Id
  BY GivenIds DEF ManagerInv, StoresTyped, IndexAgrees
<1>t. w.id \in Given
  BY <1>u, <1>w, HeadFields
<1>1. Keeps(plan, w.id, known) \/ Buries(plan, w.id, meta)
  BY <1>u, <1>w, TailOf DEF ManagerInv, PlanInv, PlanOK, Returns
<1>2. \A j \in DOMAIN plan : j = 1
  <2>1. PICK S : plan \in Seq(S)
    BY DEF ManagerInv, PlanInv, PlanOK
  <2>2. 1 = Len(plan)
    <3>1. plan[1].op = "return" /\ 1 \in DOMAIN plan
      BY <1>u, <1>w, <2>1, TailOf
    <3> QED BY <3>1 DEF ManagerInv, PlanInv, PlanOK, InOrder
  <2> QED BY <2>1, <2>2
<1>3. \A j \in DOMAIN plan : plan[j].op = "return"
  <2>1. plan[1].op = "return"
    BY <1>u, <1>w, TailOf DEF ManagerInv, PlanInv, PlanOK
  <2> QED BY <1>2, <2>1
<1>4. known[w.id].state = "none" => ~live(meta[w.id].state)
  BY <1>1, <1>3 DEF Keeps, Buries
<1>5. DeletedStaysDeleted'
  BY <1>u, <1>4 DEF ManagerInv, DeletedStaysDeleted, live
<1>6. StoresTyped' /\ IndexAgrees'
  BY <1>s, <1>t, <1>u DEF ManagerInv, StoresTyped, IndexAgrees, Given
<1>7. PlanInv'
  BY <1>s, <1>u, NoPlan DEF PlanInv
<1> QED BY <1>5, <1>6, <1>7 DEF ManagerInv

\* Names that are left in pieces are names.
LEMMA LeftNames ==
    ASSUME ManagerInv, NEW g, NEW x, NEW w \in PlanStep(g, x, Given)
    PROVE  Left(w) \subseteq Name
<1>1. /\ w.op \in {"removeAll", "removePolicy", "removeMeta"} => w.name \in Name
      /\ w.op = "moveContent" => w.name \in Name /\ w.to \in Name
      /\ w.op = "writeMeta" => w.id \in Id /\ w.to \in Record
  BY StepFields, GivenIds DEF ManagerInv
<1>2. w.op = "writeMeta" => w.to.name \in Name /\ meta[w.id].name \in Name \cup {""}
  BY <1>1, RecordNames, RecordFields DEF ManagerInv, StoresTyped
<1> QED BY <1>1, <1>2 DEF Left

\* What a step that fails half way leaves of a directory.
LEMMA HalvesTyped ==
    ASSUME ManagerInv, plan # << >>, NEW c \in Halves(Head(plan))
    PROVE  c \in [Name -> Id \cup {Nobody, Scrap}]
<1>1. content \in [Name -> Id \cup {Nobody, Scrap}]
  BY DEF ManagerInv, StoresTyped
<1> QED BY <1>1 DEF Halves

\* A step that fails leaves the steps after it, or those it falls back on.
LEMMA ManagerFail ==
    ASSUME ManagerInv, Fail
    PROVE  ManagerInv'
<1> DEFINE w == Head(plan)
<1>w. w = Head(plan)
  OBVIOUS
<1>u. /\ plan # << >> /\ w.op \notin MemoryOp
      /\ content' = content \/ content' \in Halves(w)
      /\ residue' = residue \cup Left(w)
      /\ plan' = IF w.soft THEN Tail(plan) ELSE w.fail
      /\ UNCHANGED <<meta, byName, known, loaded, created, deleted>>
  BY DEF Fail, Rest, memory, given, MemoryOp
<1> HIDE DEF w
<1>1. PICK g \in Naming, x \in Id \cup {Nobody} :
          plan \in Seq(PlanStep(g, x, Given)) /\ Leads(g, x, byName, plan)
  BY DEF ManagerInv, PlanInv, PlanOK
<1>2. w \in PlanStep(g, x, Given) /\ w = plan[1] /\ 1 \in DOMAIN plan
      /\ Tail(plan) \in Seq(PlanStep(g, x, Given))
  BY <1>1, <1>u, <1>w, TailOf
<1>3. w.soft \in BOOLEAN /\ (~w.soft => w.fail \in Seq(SoftStep(g, x, Given)))
  BY <1>2, <1>u, StepFields
<1>s. /\ byName \in [Name -> Id \cup {Nobody}] /\ known \in Records /\ Agree(byName, known)
      /\ Given \in SUBSET Id
  BY GivenIds DEF ManagerInv, StoresTyped, IndexAgrees
<1>4. content' \in [Name -> Id \cup {Nobody, Scrap}] /\ residue' \subseteq Name
  BY <1>2, <1>u, <1>w, HalvesTyped, LeftNames DEF ManagerInv, StoresTyped
<1>5. PlanOK(plan', byName, known, meta, deleted, Given)
  <2>1. CASE ~w.soft
    <3>1. plan' = w.fail /\ w.fail \in Seq(SoftStep(g, x, Given))
      BY <1>3, <1>u, <2>1
    <3>2. PlanOK(w.fail, byName, known, meta, deleted, Given)
      BY <1>1, <1>s, <3>1, FallsBack
    <3> QED BY <3>1, <3>2
  <2>2. CASE w.soft
    <3>1. plan' = Tail(plan)
      BY <1>u, <2>2
    <3>2. w.op # "writeMeta"
      BY <1>2, <2>2, HardWrites
    <3>3. w.op \notin {"unname", "remember", "writeMeta"}
      BY <1>u, <3>2 DEF MemoryOp
    <3> QED BY <1>u, <1>w, <3>1, <3>3, PlanAdvancesQuietly DEF ManagerInv
  <2> QED BY <1>3, <2>1, <2>2
<1> QED BY <1>4, <1>5, <1>u, ManagerGoesOn

\* The server dies: the index is gone, and the operation with it.
LEMMA ManagerCrash ==
    ASSUME ManagerInv, Crash
    PROVE  ManagerInv'
<1>u. /\ plan' = << >> /\ loaded' = FALSE
      /\ byName' = [n \in Name |-> Nobody] /\ known' = [i \in Id |-> NoRecord]
      /\ residue' = residue \cup Moving
      /\ UNCHANGED <<meta, created, deleted>>
  BY DEF Crash, given
<1>1. PICK g \in Naming, x \in Id \cup {Nobody} : plan \in Seq(PlanStep(g, x, Given))
  BY DEF ManagerInv, PlanInv, PlanOK
<1>2. \A i \in DOMAIN plan : plan[i] \in PlanStep(g, x, Given)
  BY <1>1
<1>3. Moving \subseteq Name
  <2>1. \A i \in DOMAIN plan : Left(plan[i]) \subseteq Name
    BY <1>2, LeftNames
  <2>2. ~Idle /\ Head(plan).op \in {"movePolicy", "moveContent"} => Head(plan).name \in Name /\ Head(plan).to \in Name
    BY HeadFields DEF Idle
  <2> QED BY <2>1, <2>2 DEF Moving
<1>4. content' \in [Name -> Id \cup {Nobody, Scrap}]
  <2>1. CASE Idle
    BY <2>1 DEF Crash, ManagerInv, StoresTyped
  <2>2. CASE ~Idle
    BY <2>2, HalvesTyped DEF Crash, Idle
  <2> QED BY <2>1, <2>2
<1>5. byName' \in [Name -> Given \cup {Nobody}] /\ known' \in Records /\ Agree(byName', known')
      /\ byName' \in [Name -> Id \cup {Nobody}] /\ Given' = Given
  BY <1>u DEF Records, Agree, Given
<1>6. StoresTyped'
  BY <1>3, <1>4, <1>5, <1>u DEF ManagerInv, StoresTyped
<1>7. IndexAgrees' /\ PlanInv'
  BY <1>5, <1>u, NoPlan DEF IndexAgrees, PlanInv
<1>8. DeletedStaysDeleted'
  <2>1. \A i \in deleted : i \in Id
    BY GivenIds DEF ManagerInv, StoresTyped
  <2> QED BY <1>u, <2>1, NoRecordFields DEF ManagerInv, DeletedStaysDeleted
<1> QED BY <1>6, <1>7, <1>8 DEF ManagerInv

\* What Create and Rename remove of an earlier repository of a name.
LEMMA ReclaimIs ==
    ASSUME NEW f, NEW n
    PROVE  Reclaim(f, n) = << >> \/ (f[n] # Nobody /\ Reclaim(f, n) = purge(f[n], n))
  BY DEF Reclaim, StateOf

\* Create answers at once, or begins its plan (Manager.Create).
LEMMA ManagerCreate ==
    ASSUME ManagerInv, NEW r \in Request, NEW n \in Name, NEW u \in Subject, Create(r, n, u)
    PROVE  ManagerInv'
<1>1. PICK f \in load :
          \/ Loads(f) /\ UNCHANGED <<plan, request, created, ops>>
          \/ created' = created + 1 /\ Starts(f, CreatePlan(f, n, created + 1, u))
  BY DEF Create
<1>2. Idle /\ created < MaxRepos /\ UNCHANGED <<content, meta, deleted, residue>>
  BY DEF Create, disk, ghosts
<1>3. CASE Loads(f) /\ UNCHANGED <<plan, request, created, ops>>
  BY <1>2, <1>3, Loading
<1>4. CASE created' = created + 1 /\ Starts(f, CreatePlan(f, n, created + 1, u))
  <2>1. Loads(f) /\ plan' = CreatePlan(f, n, created + 1, u)
    BY <1>4 DEF Starts
  <2>2. created \in Nat /\ created + 1 \in Id /\ created' <= MaxRepos /\ deleted \in SUBSET (1..created)
    BY <1>2, <1>4 DEF ManagerInv, StoresTyped, Id, Given
  <2>3. f \in [Name -> (1..created) \cup {Nobody}] /\ records \in Records /\ Agree(f, records)
    BY LoadAgrees DEF ManagerInv, Given
  <2>4. PICK q : q = Reclaim(f, n) /\ (q = << >> \/ (f[n] # Nobody /\ q = purge(f[n], n)))
    BY ReclaimIs
  <2>5. PlanOK(CreatePlan(f, n, created + 1, u), f, records, meta, deleted, 1..(created + 1))
    BY <2>2, <2>3, <2>4, CreatePlanned DEF CreatePlan
  <2> QED BY <1>2, <1>4, <2>1, <2>2, <2>5, Starting
<1> QED BY <1>1, <1>3, <1>4

\* A request that was authorized names what it is about.
LEMMA AuthorizedNames ==
    ASSUME PolicyInv, NEW r \in Request, request[r].at = "authorized"
    PROVE  /\ request[r].name \in Name
           /\ request[r].want.kind = "rename" => request[r].want.to \in Name
<1>1. request[r].name \in Name /\ request[r].want \in Want
  BY DEF PolicyInv, RequestsInv, Shape
<1>2. ASSUME NEW w \in Want, w.kind = "rename" PROVE w.to \in Name
  BY <1>2 DEF Want
<1> QED BY <1>1, <1>2

\* What is live is known, and not deleted.
LEMMA LiveOnes ==
    ASSUME ManagerInv, NEW f \in load, NEW n \in Name, live(StateOf(f, n))
    PROVE  /\ f[n] \in 1..created /\ f[n] \notin deleted
           /\ records[f[n]].state \in {"creating", "active", "deleting"}
<1>1. /\ f \in [Name -> Given \cup {Nobody}]
      /\ records \in Records
      /\ \A i \in deleted : ~live(records[i].state)
  BY LoadAgrees DEF ManagerInv
<1>2. f[n] # Nobody /\ live(records[f[n]].state)
  BY DEF StateOf, live
<1>3. f[n] \in Given /\ f[n] \in Id
  BY <1>1, <1>2, GivenIds DEF ManagerInv
<1>4. records[f[n]] \in Record
  <2>1. records[f[n]] # NoRecord
    BY <1>2, NoRecordFields
  <2> QED BY <1>1, <1>3, <2>1 DEF Records
<1> QED BY <1>1, <1>2, <1>3, <1>4, RecordFields DEF Given

\* Delete answers at once, or begins its plan (Manager.Delete).
LEMMA ManagerDelete ==
    ASSUME Inv, NEW r \in Request, Delete(r)
    PROVE  ManagerInv'
<1> DEFINE n == request[r].name
<1>n. n \in Name
  BY AuthorizedNames DEF Inv, Delete
<1>m. ManagerInv
  BY DEF Inv
<1>1. PICK f \in load :
          \/ Loads(f) /\ UNCHANGED plan
          \/ live(StateOf(f, n)) /\ Starts(f, DeletePlan(n, f[n]))
  BY DEF Delete
<1>2. Idle /\ UNCHANGED <<content, meta, created, deleted, residue>>
  BY DEF Delete, disk, ghosts, given
<1> HIDE DEF n
<1>3. CASE Loads(f) /\ UNCHANGED plan
  BY <1>2, <1>3, <1>m, Loading
<1>4. CASE live(StateOf(f, n)) /\ Starts(f, DeletePlan(n, f[n]))
  <2>1. Loads(f) /\ plan' = DeletePlan(n, f[n])
    BY <1>4 DEF Starts
  <2>2. PICK id \in 1..created : id = f[n]
    BY <1>4, <1>m, <1>n, LiveOnes
  <2>3. created \in Nat /\ 1..created \subseteq Id /\ created' <= MaxRepos
    BY <1>2, <1>m, GivenIds DEF ManagerInv, StoresTyped, Given
  <2>4. f \in [Name -> (1..created) \cup {Nobody}] /\ records \in Records /\ Agree(f, records)
    BY <1>m, LoadAgrees DEF ManagerInv, Given
  <2>5. PlanOK(DeletePlan(n, id), f, records, meta, deleted, 1..created)
    BY <1>n, <2>2, <2>3, <2>4, DeletePlanned
  <2>6. PlanOK(plan', f, records, meta, deleted, 1..created')
    BY <1>2, <2>1, <2>2, <2>5
  <2> QED BY <1>2, <1>m, <2>1, <2>3, <2>6, Starting
<1> QED BY <1>1, <1>3, <1>4

\* Rename answers at once, or begins its plan (Manager.Rename).
LEMMA ManagerRename ==
    ASSUME Inv, NEW r \in Request, Rename(r)
    PROVE  ManagerInv'
<1> DEFINE n == request[r].name
           n2 == request[r].want.to
<1>n. n \in Name /\ n2 \in Name
  BY AuthorizedNames DEF Inv, Rename
<1>m. ManagerInv
  BY DEF Inv
<1>1. PICK f \in load :
          \/ Loads(f) /\ UNCHANGED plan
          \/ live(StateOf(f, n)) /\ Starts(f, RenamePlan(f, n, n2, f[n]))
  BY DEF Rename
<1>2. Idle /\ UNCHANGED <<content, meta, created, deleted, residue>>
  BY DEF Rename, disk, ghosts, given
<1> HIDE DEF n, n2
<1>3. CASE Loads(f) /\ UNCHANGED plan
  BY <1>2, <1>3, <1>m, Loading
<1>4. CASE live(StateOf(f, n)) /\ Starts(f, RenamePlan(f, n, n2, f[n]))
  <2>1. Loads(f) /\ plan' = RenamePlan(f, n, n2, f[n])
    BY <1>4 DEF Starts
  <2>2. PICK id \in 1..created : id = f[n] /\ id \notin deleted
                                 /\ records[id].state \in {"creating", "active", "deleting"}
    BY <1>4, <1>m, <1>n, LiveOnes
  <2>3. created \in Nat /\ 1..created \subseteq Id /\ created' <= MaxRepos /\ id \in Id
    BY <1>2, <1>m, GivenIds DEF ManagerInv, StoresTyped, Given
  <2>4. f \in [Name -> (1..created) \cup {Nobody}] /\ records \in Records /\ Agree(f, records)
    BY <1>m, LoadAgrees DEF ManagerInv, Given
  <2>5. records[id].state # "none"
    BY <2>2
  <2>6. PlanOK(RenamePlan(f, n, n2, id), f, records, meta, deleted, 1..created)
    <3>1. CASE n = n2
      <4>1. RenamePlan(f, n, n2, id) = <<Return(id)>>
        BY <3>1 DEF RenamePlan
      <4>2. PlanOK(<<Return(id)>>, f, records, meta, deleted, 1..created)
        BY <2>3, <2>4, <2>5, NothingPlanned
      <4> QED BY <4>1, <4>2
    <3>2. CASE n # n2
      <4>1. PICK q : q = Reclaim(f, n2) /\ (q = << >> \/ (f[n2] # Nobody /\ q = purge(f[n2], n2)))
        BY ReclaimIs
      <4>2. RenamePlan(f, n, n2, id) =
               q \o <<MoveContent(n, n2, FALSE), MovePolicy(n, n2, <<MoveContent(n2, n, TRUE)>>),
                      Unname(n), Remember(id, n2, records[id].state),
                      writeMeta(id, n2, records[id].state, << >>), Return(id)>>
        BY <3>2, <4>1 DEF RenamePlan
      <4>3. PICK s \in {"creating", "active", "deleting"} : s = records[id].state
        BY <2>2
      <4>4. PlanOK(q \o <<MoveContent(n, n2, FALSE), MovePolicy(n, n2, <<MoveContent(n2, n, TRUE)>>),
                          Unname(n), Remember(id, n2, s), writeMeta(id, n2, s, << >>), Return(id)>>,
                   f, records, meta, deleted, 1..created)
        <5>1. f[n] = id /\ id \notin deleted
          BY <2>2
        <5>2. n \in Name /\ n2 \in Name /\ (q = << >> \/ (f[n2] # Nobody /\ q = purge(f[n2], n2)))
          BY <1>n, <4>1
        <5> QED BY <2>3, <2>4, <2>5, <3>2, <5>1, <5>2, RenamePlanned
      <4> QED BY <4>2, <4>3, <4>4
    <3> QED BY <3>1, <3>2
  <2>7. PlanOK(plan', f, records, meta, deleted, 1..created')
    BY <1>2, <2>1, <2>2, <2>6
  <2> QED BY <1>2, <1>m, <2>1, <2>3, <2>7, Starting
<1> QED BY <1>1, <1>3, <1>4

----------------------------------------------------------------------------
(* Policies                                                                *)

\* No policy is new.
LEMMA NoNewPolicy ==
    ASSUME StampsIdentify, PoliciesTyped, Policies' \subseteq Policies, stamp' = stamp
    PROVE  StampsIdentify' /\ \A p \in Policies' : PolicyTyped(p)'
<1>1. StampsIdentify'
  BY DEF StampsIdentify
<1>2. \A p \in Policies' : PolicyTyped(p)'
  BY DEF PoliciesTyped, PolicyTyped
<1> QED BY <1>1, <1>2

\* Requests that are not looking a policy up do not matter.
LEMMA RequestsGoOn ==
    ASSUME PolicyInv, UNCHANGED <<policy, cache, stamp, torn>>,
           DOMAIN request' = Request,
           \A r \in Request :
               request'[r] = request[r] \/ (Shape(request'[r]) /\ request'[r].at \notin {"lookup", "found"})
    PROVE  PolicyInv'
<1>1. Policies' \subseteq Policies
  BY DEF Policies
<1>2. StampsIdentify' /\ \A p \in Policies' : PolicyTyped(p)'
  BY <1>1, NoNewPolicy DEF PolicyInv
<1>3. PoliciesTyped' /\ Paired'
  BY <1>2 DEF PolicyInv, PoliciesTyped, Paired
<1>4. \A r \in Request : Shape(request'[r]) /\ Looking(request'[r], policy)
  BY DEF PolicyInv, RequestsInv, Looking
<1>5. RequestsInv'
  BY <1>4 DEF RequestsInv
<1>6. PolicyCurrent'
  BY DEF PolicyInv, PolicyCurrent
<1> QED BY <1>2, <1>3, <1>5, <1>6 DEF PolicyInv

\* A request that is not there, and one the manager works for.
LEMMA RestingShapes ==
    /\ Shape(NoRequest) /\ NoRequest.at = "none"
    /\ Shape([at |-> "managing"]) /\ [at |-> "managing"].at = "managing"
  BY DEF Shape, NoRequest

\* The one request r goes on to x, which looks nothing up.
LEMMA RequestGoesOn ==
    ASSUME PolicyInv, UNCHANGED <<policy, cache, stamp, torn>>, NEW r \in Request, NEW x,
           request' = [request EXCEPT ![r] = x], Shape(x), x.at \notin {"lookup", "found"}
    PROVE  PolicyInv'
<1>1. DOMAIN request = Request
  BY DEF PolicyInv, RequestsInv
<1>2. DOMAIN request' = Request /\ \A s \in Request : request'[s] = IF s = r THEN x ELSE request[s]
  BY <1>1
<1> QED BY <1>2, RequestsGoOn

\* Requests are answered, or left as they are.
LEMMA RequestsAnswered ==
    ASSUME PolicyInv, UNCHANGED <<policy, cache, stamp, torn>>, Answered \/ UNCHANGED request
    PROVE  PolicyInv'
<1>1. DOMAIN request' = Request /\ \A s \in Request : request'[s] \in {NoRequest, request[s]}
  BY DEF PolicyInv, RequestsInv, Answered
<1> QED BY <1>1, RequestsGoOn, RestingShapes

\* What a request does once a lookup is over.
LEMMA DecidedShape ==
    ASSUME NEW q, NEW grants, q.name \in Name, q.want \in Want
    PROVE  Shape(Decided(q, grants)) /\ Decided(q, grants).at \notin {"lookup", "found"}
<1> DEFINE a == [at |-> "stat", name |-> q.name, user |-> q.user, want |-> q.want, need |-> Tail(q.need)]
           b == [at |-> "authorized", name |-> q.name, want |-> q.want]
<1>1. Decided(q, grants) \in {a, b, NoRequest}
  BY DEF Decided
<1>2. Shape(a) /\ a.at = "stat"
  BY DEF Shape, Asks
<1>3. Shape(b) /\ b.at = "authorized"
  BY DEF Shape
<1> HIDE DEF a, b
<1> QED BY <1>1, <1>2, <1>3, RestingShapes

\* A lookup that begins sees the file as it is.
LEMMA AskingShape ==
    ASSUME NEW q, Shape(q), q.at = "stat", Asking(q).at = "lookup"
    PROVE  LET x == Asking(q)
           IN  /\ Shape(x)
               /\ x.name = q.name /\ q.name \in Name
               /\ x.stamp = policy[q.name].stamp /\ x.seen = {policy[q.name]}
<1>0. DOMAIN q = Asks /\ q.name \in Name /\ q.want \in Want
  BY DEF Shape
<1> DEFINE x == [at |-> "lookup", name |-> q.name, user |-> q.user, want |-> q.want, need |-> q.need,
                 stamp |-> policy[q.name].stamp, seen |-> {policy[q.name]}]
<1>1. Asking(q) = x
  <2>1. Decided(q, DenyAll).at # "lookup"
    BY <1>0, DecidedShape
  <2> QED BY <2>1 DEF Asking
<1>2. /\ DOMAIN x = Asks \cup {"stamp", "seen"}
      /\ x.at = "lookup" /\ x.name = q.name /\ x.want = q.want
      /\ x.stamp = policy[q.name].stamp /\ x.seen = {policy[q.name]}
  BY <1>0 DEF Asks
<1> HIDE DEF x
<1>3. Shape(x)
  BY <1>0, <1>2 DEF Shape
<1> QED BY <1>0, <1>1, <1>2, <1>3

\* A request asks for a capability, its first or a further one.
LEMMA RequestAsks ==
    ASSUME PolicyInv, UNCHANGED <<policy, cache, stamp, torn>>, NEW r \in Request, NEW q,
           Shape(q), q.at = "stat", request' = [request EXCEPT ![r] = Asking(q)]
    PROVE  PolicyInv'
<1> DEFINE x == Asking(q)
<1>0. q.name \in Name /\ q.want \in Want
  BY DEF Shape
<1>1. CASE x.at # "lookup"
  <2>1. x = Decided(q, DenyAll)
    BY <1>1 DEF Asking
  <2>2. Shape(x) /\ x.at \notin {"lookup", "found"}
    BY <1>0, <2>1, DecidedShape
  <2> QED BY <2>2, RequestGoesOn
<1>2. CASE x.at = "lookup"
  <2>1. /\ Shape(x) /\ x.name = q.name
        /\ x.stamp = policy[q.name].stamp /\ x.seen = {policy[q.name]}
    BY <1>2, AskingShape
  <2>2. DOMAIN request' = Request /\ \A s \in Request : request'[s] = IF s = r THEN x ELSE request[s]
    BY DEF PolicyInv, RequestsInv
  <2> HIDE DEF x
  <2>3. Policies' \subseteq Policies
    <3> SUFFICES ASSUME NEW p \in Policies' PROVE p \in Policies
      OBVIOUS
    <3>1. ASSUME NEW s \in Request, request'[s].at = "lookup", p \in request'[s].seen
          PROVE  p \in Policies
      BY <1>0, <2>1, <2>2, <3>1 DEF Policies
    <3> QED BY <3>1 DEF Policies
  <2>4. StampsIdentify' /\ \A p \in Policies' : PolicyTyped(p)'
    BY <2>3, NoNewPolicy DEF PolicyInv
  <2>5. PoliciesTyped' /\ Paired'
    BY <2>4 DEF PolicyInv, PoliciesTyped, Paired
  <2>6. \A s \in Request : Shape(request'[s]) /\ Looking(request'[s], policy)
    BY <1>0, <2>1, <2>2 DEF PolicyInv, RequestsInv, Looking
  <2>7. RequestsInv'
    BY <2>2, <2>6 DEF RequestsInv
  <2>8. PolicyCurrent'
    BY <1>2, <2>2 DEF PolicyInv, PolicyCurrent
  <2> QED BY <2>4, <2>5, <2>7, <2>8 DEF PolicyInv
<1> QED BY <1>1, <1>2

\* A lookup reads the file, which it has seen, or takes what was parsed for the time it
\* compares with: modification times tell policies apart, so it has seen that too.
LEMMA PolicyLookup ==
    ASSUME PolicyInv, NEW r \in Request, Lookup(r)
    PROVE  PolicyInv'
<1> DEFINE q == request[r]
           n == q.name
           found == Found(n, q.stamp)
           sure == found.store \/ (~found.bad /\ n \notin torn)
           x == [at |-> "found", name |-> n, user |-> q.user, want |-> q.want, need |-> q.need,
                 seen |-> q.seen, policy |-> found.policy, sure |-> sure]
<1>q. q.at = "lookup" /\ n \in Name /\ q.want \in Want
  BY DEF Lookup, PolicyInv, RequestsInv, Shape
<1>s. policy[n] \in q.seen /\ \E p \in q.seen : p.stamp = q.stamp
  BY <1>q DEF PolicyInv, RequestsInv, Looking
<1>u. /\ cache' = IF found.store THEN [cache EXCEPT ![n] = [policy |-> found.policy, stamp |-> q.stamp]] ELSE cache
      /\ torn' = IF ~found.store THEN torn
                 ELSE IF found.policy.stamp = q.stamp THEN torn \ {n} ELSE torn \cup {n}
      /\ request' = [request EXCEPT ![r] = x]
      /\ UNCHANGED <<policy, stamp>>
  BY DEF Lookup, disk, given
<1>x. /\ Shape(x) /\ x.at = "found" /\ x.seen = q.seen /\ x.policy = found.policy /\ x.sure = sure
  BY <1>q DEF Shape, Asks
<1>f. \/ /\ cache[n].stamp = q.stamp
         /\ found.policy = cache[n].policy /\ found.store = FALSE /\ found.bad = FALSE
      \/ found.policy = policy[n] /\ found.store = TRUE
      \/ found.policy = cache[n].policy /\ found.store = FALSE /\ found.bad = TRUE
  BY DEF Found
<1>r. DOMAIN request' = Request /\ \A s \in Request : request'[s] = IF s = r THEN x ELSE request[s]
  BY <1>u DEF PolicyInv, RequestsInv
<1>c. DOMAIN cache = Name /\ DOMAIN policy = Name
  BY DEF PolicyInv, PoliciesTyped
<1>m. q.seen \subseteq Policies /\ cache[n].policy \in Policies /\ policy[n] \in Policies
  BY <1>q DEF Policies
<1> HIDE DEF x, found, q, n
<1>1. found.store \in BOOLEAN /\ found.policy \in Policies
  BY <1>f, <1>m
<1>2. DOMAIN cache' = Name
  BY <1>c, <1>u
<1>3. \A l \in Name : \/ cache'[l] = cache[l] /\ (l \in torn' <=> l \in torn)
                      \/ /\ l = n /\ found.store /\ cache'[l] = [policy |-> found.policy, stamp |-> q.stamp]
                         /\ l \notin torn' => found.policy.stamp = q.stamp
  <2>1. CASE found.store
    BY <1>c, <1>u, <2>1
  <2>2. CASE ~found.store
    BY <1>u, <2>2
  <2> QED BY <1>1, <2>1, <2>2
<1>4. Policies' \subseteq Policies
  <2> SUFFICES ASSUME NEW p \in Policies' PROVE p \in Policies
    OBVIOUS
  <2>1. ASSUME NEW s \in Request, request'[s].at = "lookup", p \in request'[s].seen
        PROVE  p \in Policies
    BY <1>r, <1>x, <2>1 DEF Policies
  <2>2. ASSUME NEW l \in Name, p = cache'[l].policy
        PROVE  p \in Policies
    BY <1>1, <1>3, <2>2 DEF Policies
  <2>3. ASSUME NEW l \in Name, p = policy'[l]
        PROVE  p \in Policies
    BY <1>u, <2>3 DEF Policies
  <2> QED BY <2>1, <2>2, <2>3 DEF Policies
<1>5. StampsIdentify' /\ \A p \in Policies' : PolicyTyped(p)'
  BY <1>4, <1>u, NoNewPolicy DEF PolicyInv
<1>6. q.stamp \in 0..stamp
  <2>1. PICK p \in q.seen : p.stamp = q.stamp
    BY <1>s
  <2>2. PolicyTyped(p)
    BY <1>m, <2>1 DEF PolicyInv, PoliciesTyped
  <2> QED BY <2>1, <2>2 DEF PolicyTyped
<1>7. torn' \subseteq Name
  BY <1>q, <1>u, <1>1 DEF PolicyInv, PoliciesTyped
<1>8. PoliciesTyped'
  <2>1. ASSUME NEW l \in Name
        PROVE  {"policy", "stamp"} \subseteq DOMAIN cache'[l] /\ cache'[l].stamp \in 0..stamp
    BY <1>3, <1>6 DEF PolicyInv, PoliciesTyped
  <2> QED BY <1>2, <1>5, <1>7, <1>c, <1>u, <2>1 DEF PolicyInv, PoliciesTyped
<1>9. Paired'
  <2> SUFFICES ASSUME NEW l \in Name, l \notin torn' PROVE cache'[l].policy.stamp = cache'[l].stamp
    BY DEF Paired
  <2> QED BY <1>3 DEF PolicyInv, Paired
<1>10. RequestsInv'
  <2>1. \A s \in Request : Shape(request'[s]) /\ Looking(request'[s], policy)
    BY <1>r, <1>x DEF PolicyInv, RequestsInv, Looking
  <2> QED BY <1>r, <1>u, <2>1 DEF RequestsInv
<1>11. sure => found.policy \in q.seen
  <2>1. CASE found.policy = policy[n]
    BY <1>s, <2>1
  <2>2. CASE found.policy = cache[n].policy /\ cache[n].stamp = q.stamp /\ n \notin torn
    <3>1. cache[n].policy.stamp = q.stamp
      BY <1>q, <2>2 DEF PolicyInv, Paired
    <3>2. PICK p \in q.seen : p.stamp = q.stamp
      BY <1>s
    <3>3. p = cache[n].policy
      BY <1>m, <3>1, <3>2 DEF PolicyInv, StampsIdentify
    <3> QED BY <2>2, <3>2, <3>3
  <2> QED BY <1>f, <2>1, <2>2
<1>12. PolicyCurrent'
  BY <1>11, <1>r, <1>x DEF PolicyInv, PolicyCurrent
<1> QED BY <1>5, <1>8, <1>9, <1>10, <1>12 DEF PolicyInv

\* The files change, to what was in one of them, to nothing, or to a policy with a time of
\* its own; the requests that look one up see it.
LEMMA FilesChange ==
    ASSUME PolicyInv, UNCHANGED <<cache, torn>>, DOMAIN policy' = Name,
           request' = Witnessed(policy'),
           NEW v,
           \/ /\ stamp' = stamp + 1 /\ v.stamp = stamp + 1 /\ v.of \in Id
              /\ \A n \in Name : policy'[n] = policy[n] \/ policy'[n] = v
           \/ /\ stamp' = stamp
              /\ \A n \in Name : policy'[n] = NoPolicy \/ \E l \in Name : policy'[n] = policy[l]
    PROVE  PolicyInv'
<1>r. /\ DOMAIN request' = Request
      /\ \A s \in Request :
            request'[s] = IF request[s].at = "lookup"
                          THEN [request[s] EXCEPT !.seen = request[s].seen \cup {policy'[request[s].name]}]
                          ELSE request[s]
  BY DEF Witnessed
<1>q. \A s \in Request : request[s].at = "lookup" =>
          /\ request[s].name \in Name /\ DOMAIN request[s] = Asks \cup {"stamp", "seen"}
          /\ Shape(request[s]) /\ \E p \in request[s].seen : p.stamp = request[s].stamp
  BY DEF PolicyInv, RequestsInv, Shape, Looking
<1>x. ASSUME NEW s \in Request, request[s].at = "lookup"
      PROVE  /\ DOMAIN request'[s] = Asks \cup {"stamp", "seen"}
             /\ request'[s].at = "lookup" /\ request'[s].name = request[s].name
             /\ request'[s].want = request[s].want /\ request'[s].stamp = request[s].stamp
             /\ request'[s].seen = request[s].seen \cup {policy'[request[s].name]}
  BY <1>q, <1>r, <1>x DEF Asks
<1>y. \A s \in Request : request[s].at # "lookup" => request'[s] = request[s]
  BY <1>r
<1>t. stamp \in Nat /\ stamp' \in Nat /\ stamp <= stamp'
  BY DEF PolicyInv, PoliciesTyped
<1>v. stamp' = stamp + 1 => v.stamp = stamp + 1 /\ v.of \in Id
  BY <1>t
<1>1. ASSUME NEW p \in Policies' PROVE p \in Policies \/ (p = v /\ stamp' = stamp + 1)
  <2>1. ASSUME NEW n \in Name, p = policy'[n]
        PROVE  p \in Policies \/ (p = v /\ stamp' = stamp + 1)
    BY <2>1 DEF Policies
  <2>2. ASSUME NEW s \in Request, request'[s].at = "lookup", p \in request'[s].seen
        PROVE  p \in Policies \/ (p = v /\ stamp' = stamp + 1)
    <3>1. request[s].at = "lookup"
      BY <1>y, <2>2
    <3>2. p \in request[s].seen \/ p = policy'[request[s].name]
      BY <1>x, <2>2, <3>1
    <3>3. CASE p \in request[s].seen
      BY <3>1, <3>3 DEF Policies
    <3>4. CASE p = policy'[request[s].name]
      BY <1>q, <2>1, <3>1, <3>4
    <3> QED BY <3>2, <3>3, <3>4
  <2>3. ASSUME p = NoPolicy \/ \E n \in Name : p = cache[n].policy
        PROVE  p \in Policies
    BY <2>3 DEF Policies
  <2> QED BY <2>1, <2>2, <2>3 DEF Policies
<1>2. StampsIdentify'
  <2> SUFFICES ASSUME NEW p \in Policies', NEW o \in Policies', p.stamp = o.stamp PROVE p = o
    BY DEF StampsIdentify
  <2>1. \A z \in Policies : z.stamp # stamp + 1
    BY <1>t DEF PolicyInv, PoliciesTyped, PolicyTyped
  <2> QED BY <1>1, <1>v, <2>1 DEF PolicyInv, StampsIdentify
<1>3. \A p \in Policies' : PolicyTyped(p)'
  <2> SUFFICES ASSUME NEW p \in Policies' PROVE p.stamp \in 0..stamp' /\ (p # NoPolicy => p.of \in Id /\ p.stamp # 0)
    BY DEF PolicyTyped
  <2>1. CASE p \in Policies
    BY <1>t, <2>1 DEF PolicyInv, PoliciesTyped, PolicyTyped
  <2>2. CASE p = v /\ stamp' = stamp + 1
    BY <1>t, <1>v, <2>2
  <2> QED BY <1>1, <2>1, <2>2
<1>4. PoliciesTyped' /\ Paired'
  <2>1. \A n \in Name : cache[n].stamp \in 0..stamp'
    BY <1>t DEF PolicyInv, PoliciesTyped
  <2> QED BY <1>3, <1>t, <2>1 DEF PolicyInv, PoliciesTyped, Paired
<1>5. RequestsInv'
  <2>1. ASSUME NEW s \in Request PROVE Shape(request'[s]) /\ Looking(request'[s], policy')
    <3>1. CASE request[s].at = "lookup"
      BY <1>q, <1>x, <3>1 DEF Shape, Looking
    <3>2. CASE request[s].at # "lookup"
      BY <1>y, <3>2 DEF PolicyInv, RequestsInv, Looking
    <3> QED BY <3>1, <3>2
  <2> QED BY <1>r, <2>1 DEF RequestsInv
<1>6. PolicyCurrent'
  <2> SUFFICES ASSUME NEW s \in Request, request'[s].at = "found", request'[s].sure
               PROVE  request'[s].policy \in request'[s].seen
    BY DEF PolicyCurrent
  <2>1. request[s].at # "lookup"
    BY <1>x
  <2> QED BY <1>y, <2>1 DEF PolicyInv, PolicyCurrent
<1> QED BY <1>2, <1>4, <1>5, <1>6 DEF PolicyInv

\* A policy that the plan has written, removed or moved.
LEMMA PolicyStep ==
    ASSUME Inv, plan # << >>, StepPolicy
    PROVE  PolicyInv'
<1> DEFINE w == Head(plan)
           v == [of |-> w.id, stamp |-> stamp + 1, ok |-> TRUE,
                 grants |-> [u \in Subject |-> IF u = w.owner THEN ownerCaps ELSE {}]]
<1>w. w = Head(plan)
  OBVIOUS
<1>u. request' = Witnessed(policy') /\ UNCHANGED <<cache, torn>>
  BY DEF StepPolicy, ghosts
<1>o. \/ w.op = "writePolicy" /\ policy' = [policy EXCEPT ![w.name] = v] /\ stamp' = stamp + 1
      \/ w.op = "removePolicy" /\ policy' = [policy EXCEPT ![w.name] = NoPolicy] /\ stamp' = stamp
      \/ /\ w.op = "movePolicy" /\ stamp' = stamp
         /\ policy' = [policy EXCEPT ![w.to] = policy[w.name], ![w.name] = NoPolicy]
  BY DEF StepPolicy
<1>v. v.stamp = stamp + 1 /\ v.of = w.id
  OBVIOUS
<1> HIDE DEF w, v
<1>p. PolicyInv /\ ManagerInv /\ DOMAIN policy = Name
  BY DEF Inv, PolicyInv, PoliciesTyped
<1>t. /\ w.op = "writePolicy" => w.id \in Id
      /\ w.op = "movePolicy" => w.name \in Name
  BY <1>p, <1>w, HeadFields, GivenIds DEF ManagerInv
<1>d. DOMAIN policy' = Name
  BY <1>o, <1>p
<1>1. CASE w.op = "writePolicy" /\ policy' = [policy EXCEPT ![w.name] = v] /\ stamp' = stamp + 1
  <2>1. \A n \in Name : policy'[n] = policy[n] \/ policy'[n] = v
    BY <1>1, <1>p
  <2> QED BY <1>1, <1>d, <1>p, <1>t, <1>u, <1>v, <2>1, FilesChange
<1>2. ASSUME stamp' = stamp, \A n \in Name : policy'[n] = NoPolicy \/ \E l \in Name : policy'[n] = policy[l]
      PROVE  PolicyInv'
  BY <1>2, <1>d, <1>p, <1>u, FilesChange
<1>3. CASE w.op = "removePolicy" /\ policy' = [policy EXCEPT ![w.name] = NoPolicy] /\ stamp' = stamp
  <2>1. \A n \in Name : policy'[n] = NoPolicy \/ policy'[n] = policy[n]
    BY <1>3, <1>p
  <2> QED BY <1>2, <1>3, <2>1
<1>4. CASE /\ w.op = "movePolicy" /\ stamp' = stamp
           /\ policy' = [policy EXCEPT ![w.to] = policy[w.name], ![w.name] = NoPolicy]
  <2>1. \A n \in Name : policy'[n] = NoPolicy \/ policy'[n] = policy[n] \/ policy'[n] = policy[w.name]
    BY <1>4, <1>p
  <2> QED BY <1>2, <1>4, <1>t, <2>1
<1> QED BY <1>1, <1>3, <1>4, <1>o

\* The operator rewrites a policy.
LEMMA PolicyEdit ==
    ASSUME PolicyInv, NEW n \in Name, NEW g, NEW ok, Edit(n, g, ok)
    PROVE  PolicyInv'
<1> DEFINE v == [of |-> policy[n].of, stamp |-> stamp + 1, ok |-> ok, grants |-> g]
<1>1. /\ policy' = [policy EXCEPT ![n] = v] /\ stamp' = stamp + 1 /\ policy[n] # NoPolicy
      /\ request' = Witnessed(policy') /\ UNCHANGED <<cache, torn>>
  BY DEF Edit, ghosts
<1>2. v.stamp = stamp + 1 /\ v.of = policy[n].of
  OBVIOUS
<1> HIDE DEF v
<1>3. DOMAIN policy = Name /\ policy[n].of \in Id
  <2>1. policy[n] \in Policies
    BY DEF Policies
  <2> QED BY <1>1, <2>1 DEF PolicyInv, PoliciesTyped, PolicyTyped
<1>4. DOMAIN policy' = Name /\ \A l \in Name : policy'[l] = policy[l] \/ policy'[l] = v
  BY <1>1, <1>3
<1> QED BY <1>1, <1>2, <1>3, <1>4, FilesChange

\* The fields of an entry that is not there.
LEMMA NoEntryFields == NoEntry.policy = NoPolicy /\ NoEntry.stamp = 0 /\ NoPolicy.stamp = 0
                       /\ DOMAIN NoEntry = {"policy", "stamp"}
  BY DEF NoEntry, NoPolicy

\* The server dies: no request is left, and nothing is parsed.
LEMMA PolicyCrash ==
    ASSUME PolicyInv, Crash
    PROVE  PolicyInv'
<1>1. /\ cache' = [n \in Name |-> NoEntry] /\ torn' = {} /\ request' = [r \in Request |-> NoRequest]
      /\ UNCHANGED <<policy, stamp>>
  BY DEF Crash, given
<1>2. \A r \in Request : request'[r] = NoRequest /\ request'[r].at = "none"
  BY <1>1, RestingShapes
<1>3. \A n \in Name : cache'[n] = NoEntry
  BY <1>1
<1>4. Policies' \subseteq Policies
  BY <1>1, <1>2, <1>3, NoEntryFields DEF Policies
<1>5. StampsIdentify' /\ \A p \in Policies' : PolicyTyped(p)'
  BY <1>1, <1>4, NoNewPolicy DEF PolicyInv
<1>6. PoliciesTyped' /\ Paired'
  BY <1>1, <1>3, <1>5, NoEntryFields DEF PolicyInv, PoliciesTyped, Paired
<1>7. RequestsInv' /\ PolicyCurrent'
  BY <1>1, <1>2, RestingShapes DEF RequestsInv, PolicyCurrent, Looking
<1> QED BY <1>5, <1>6, <1>7 DEF PolicyInv

----------------------------------------------------------------------------
(* The theorems                                                            *)

\* The invariant holds of an empty server.
LEMMA InvInit == Init => Inv
<1> SUFFICES ASSUME Init PROVE Inv
  OBVIOUS
<1>1. StoresTyped
  <2>1. content \in [Name -> Id \cup {Nobody, Scrap}] /\ byName \in [Name -> Given \cup {Nobody}]
    BY DEF Init
  <2>2. meta \in Records /\ known \in Records /\ \A i \in Id : meta[i] = NoRecord /\ known[i] = NoRecord
    BY DEF Init, Records
  <2>3. loaded \in BOOLEAN /\ deleted \subseteq Given /\ residue \subseteq Name
    BY DEF Init
  <2>4. created \in 0..MaxRepos
    <3>1. created = 0
      BY DEF Init
    <3>2. MaxRepos \in Nat
      OBVIOUS
    <3> QED BY <3>1, <3>2
  <2> QED BY <2>1, <2>2, <2>3, <2>4 DEF StoresTyped
<1>2. IndexAgrees
  BY DEF Init, IndexAgrees, Agree
<1>3. PlanInv
  <2>1. byName \in [Name -> Id \cup {Nobody}] /\ known \in Records /\ Agree(byName, known)
    BY DEF Init, Records, Agree
  <2> QED BY <2>1, NoPlan DEF Init, PlanInv
<1>4. DeletedStaysDeleted
  BY DEF Init, DeletedStaysDeleted
<1>5. \A r \in Request : request[r] = NoRequest /\ request[r].at = "none"
  BY RestingShapes DEF Init
<1>6. Policies \subseteq {NoPolicy}
  BY <1>5, NoEntryFields DEF Init, Policies
<1>7. StampsIdentify /\ PoliciesTyped /\ Paired
  BY <1>6, NoEntryFields DEF Init, StampsIdentify, PoliciesTyped, PolicyTyped, Paired
<1>8. RequestsInv /\ PolicyCurrent
  BY <1>5, RestingShapes DEF Init, RequestsInv, PolicyCurrent, Looking
<1> QED BY <1>1, <1>2, <1>3, <1>4, <1>7, <1>8 DEF Inv, ManagerInv, PolicyInv

\* Every step of every request, of the manager and of the operator keeps the invariant.
LEMMA InvStep == Inv /\ [Next]_vars => Inv'
<1> SUFFICES ASSUME Inv, [Next]_vars PROVE Inv'
  OBVIOUS
<1> USE DEF Inv
<1>1. ASSUME NEW r \in Request, NEW n \in Name, NEW u \in Subject, Create(r, n, u) PROVE Inv'
  <2>1. PolicyInv'
    <3>1. UNCHANGED request \/ request' = [request EXCEPT ![r] = [at |-> "managing"]]
      BY <1>1 DEF Create
    <3>2. UNCHANGED <<policy, cache, stamp, torn>>
      BY <1>1 DEF Create, disk, ghosts
    <3>3. CASE UNCHANGED request
      BY <3>2, <3>3, RequestsAnswered
    <3>4. CASE request' = [request EXCEPT ![r] = [at |-> "managing"]]
      BY <3>2, <3>4, RequestGoesOn, RestingShapes
    <3> QED BY <3>1, <3>3, <3>4
  <2> QED BY <1>1, <2>1, ManagerCreate
<1>2. ASSUME NEW r \in Request, NEW n \in Name, NEW u \in Subject, NEW want \in Want, Arrive(r, n, u, want)
      PROVE  Inv'
  <2> DEFINE a == [at |-> "authorized", name |-> n, want |-> want]
             q == [at |-> "stat", name |-> n, user |-> u, want |-> want, need |-> Needs(want)]
  <2>1. Shape(a) /\ a.at = "authorized"
    BY DEF Shape
  <2>2. Shape(q) /\ q.at = "stat"
    BY DEF Shape, Asks
  <2>3. request' = [request EXCEPT ![r] = a] \/ request' = [request EXCEPT ![r] = Asking(q)]
    BY <1>2 DEF Arrive
  <2>4. UNCHANGED <<policy, cache, stamp, torn>>
    BY <1>2 DEF Arrive, disk, given, ghosts
  <2> HIDE DEF a, q
  <2>5. PolicyInv'
    BY <2>1, <2>2, <2>3, <2>4, RequestGoesOn, RequestAsks
  <2> QED BY <1>2, <2>5, ManagerKept DEF Arrive, disk, given, ghosts
<1>3. ASSUME NEW r \in Request, Stat(r) PROVE Inv'
  <2>1. DOMAIN request = Request /\ Shape(request[r])
    BY DEF PolicyInv, RequestsInv
  <2>2. request' = [request EXCEPT ![r] = Asking(request[r])] /\ request[r].at = "stat"
    BY <1>3, <2>1 DEF Stat
  <2>3. UNCHANGED <<policy, cache, stamp, torn>>
    BY <1>3 DEF Stat, disk, given, ghosts
  <2>4. PICK q : q = request[r] /\ request' = [request EXCEPT ![r] = Asking(q)]
    BY <2>2
  <2>5. PolicyInv'
    BY <2>1, <2>2, <2>3, <2>4, RequestAsks
  <2> QED BY <1>3, <2>5, ManagerKept DEF Stat, disk, given, ghosts
<1>4. ASSUME NEW r \in Request, Lookup(r) PROVE Inv'
  BY <1>4, PolicyLookup, ManagerKept DEF Lookup, disk, given
<1>5. ASSUME NEW r \in Request, Authorize(r) PROVE Inv'
  <2>1. DOMAIN request = Request /\ Shape(request[r]) /\ request[r].at = "found"
    BY <1>5 DEF PolicyInv, RequestsInv, Authorize
  <2>2. request[r].name \in Name /\ request[r].want \in Want
    BY <2>1 DEF Shape
  <2> DEFINE x == Decided(request[r], request[r].policy.grants)
  <2>3. request' = [request EXCEPT ![r] = x]
    BY <1>5, <2>1 DEF Authorize
  <2>4. Shape(x) /\ x.at \notin {"lookup", "found"}
    BY <2>2, DecidedShape
  <2> HIDE DEF x
  <2>5. UNCHANGED <<policy, cache, stamp, torn>>
    BY <1>5 DEF Authorize, disk, given, ghosts
  <2>6. PolicyInv'
    BY <2>3, <2>4, <2>5, RequestGoesOn
  <2> QED BY <1>5, <2>6, ManagerKept DEF Authorize, disk, given, ghosts
<1>6. ASSUME NEW r \in Request, Servable(r) PROVE Inv'
  <2>1. DOMAIN request = Request /\ Shape(request[r]) /\ request[r].at = "authorized"
    BY <1>6 DEF PolicyInv, RequestsInv, Servable
  <2> DEFINE x == [request[r] EXCEPT !.at = "open"]
  <2>2. Shape(x) /\ x.at = "open"
    BY <2>1 DEF Shape
  <2>3. PICK f \in load : /\ Loads(f)
                          /\ request' = [request EXCEPT ![r] = x] \/ request' = [request EXCEPT ![r] = NoRequest]
    BY <1>6, <2>1 DEF Servable
  <2> HIDE DEF x
  <2>4. Idle /\ UNCHANGED <<content, policy, meta, plan, cache, created, stamp, deleted, residue, torn>>
    BY <1>6 DEF Servable, disk, given, ghosts
  <2>5. PolicyInv'
    BY <2>2, <2>3, <2>4, RequestGoesOn, RestingShapes
  <2>6. ManagerInv'
    BY <2>3, <2>4, Loading
  <2> QED BY <2>5, <2>6
<1>7. ASSUME NEW r \in Request, Open(r) PROVE Inv'
  <2>1. PolicyInv'
    BY <1>7, RequestGoesOn, RestingShapes DEF Open, Done, disk, given, ghosts
  <2> QED BY <1>7, <2>1, ManagerKept DEF Open, disk, given, ghosts
<1>8. ASSUME NEW r \in Request, Get(r) PROVE Inv'
  <2>1. PICK f \in load : Loads(f)
    BY <1>8 DEF Get
  <2>2. PolicyInv'
    BY <1>8, RequestGoesOn, RestingShapes DEF Get, Done, disk, given, ghosts
  <2>3. ManagerInv'
    BY <1>8, <2>1, Loading DEF Get, disk, given, ghosts
  <2> QED BY <2>2, <2>3
<1>9. ASSUME NEW r \in Request, Delete(r) \/ Rename(r) PROVE Inv'
  <2>1. \/ request' = [request EXCEPT ![r] = NoRequest]
        \/ request' = [request EXCEPT ![r] = [at |-> "managing"]]
    BY <1>9 DEF Delete, Rename, Done
  <2>2. UNCHANGED <<policy, cache, stamp, torn>>
    BY <1>9 DEF Delete, Rename, disk, given, ghosts
  <2>3. PolicyInv'
    BY <2>1, <2>2, RequestGoesOn, RestingShapes
  <2> QED BY <1>9, <2>3, ManagerDelete, ManagerRename
<1>10. CASE Step
  <2>1. plan # << >>
    BY <1>10 DEF Step
  <2>2. CASE StepMemory
    BY <2>1, <2>2, ManagerMemory, RequestsAnswered DEF StepMemory, disk, given, ghosts
  <2>3. CASE StepMeta
    BY <2>1, <2>3, ManagerMeta, RequestsAnswered DEF StepMeta, given, ghosts
  <2>4. CASE StepContent
    BY <2>1, <2>4, ManagerContent, RequestsAnswered DEF StepContent, given
  <2>5. CASE StepPolicy
    BY <2>1, <2>5, ManagerPolicy, PolicyStep
  <2>6. CASE StepReturn
    BY <2>1, <2>6, ManagerReturn, RequestsAnswered DEF StepReturn, disk, given
  <2> QED BY <1>10, <2>2, <2>3, <2>4, <2>5, <2>6 DEF Step
<1>11. CASE Fail
  <2>1. Answered \/ UNCHANGED request
    BY <1>11 DEF Fail
  <2>2. UNCHANGED <<policy, cache, stamp, torn>>
    BY <1>11 DEF Fail, given
  <2> QED BY <1>11, <2>1, <2>2, ManagerFail, RequestsAnswered
<1>12. CASE Crash
  BY <1>12, ManagerCrash, PolicyCrash
<1>13. ASSUME NEW n \in Name, NEW g \in Edits, NEW ok \in BOOLEAN, Edit(n, g, ok) PROVE Inv'
  BY <1>13, PolicyEdit, ManagerKept DEF Edit, ghosts
<1>14. CASE UNCHANGED vars
  BY <1>14, ManagerKept, RequestsAnswered DEF vars, disk, given, ghosts
<1> QED BY <1>1, <1>2, <1>3, <1>4, <1>5, <1>6, <1>7, <1>8, <1>9, <1>10, <1>11, <1>12, <1>13, <1>14 DEF Next

\* The invariant holds of every reachable state, whatever fails and crashes: plans keep
\* their promises, and modification times tell policies apart (Manager, policyStore).
THEOREM RepositoriesInvariant == Spec => []Inv
  BY InvInit, InvStep, PTL DEF Spec

\* Every variable has its type, and what a name leads to is known by that name.
THEOREM TypeCorrect == Spec => []TypeOK
<1>1. Inv => TypeOK
  <2> SUFFICES ASSUME Inv PROVE TypeOK
    OBVIOUS
  <2> USE DEF Inv
  <2>1. content \in [Name -> Id \cup {Nobody, Scrap}] /\ residue \subseteq Name /\ torn \subseteq Name
    BY DEF ManagerInv, StoresTyped, PolicyInv, PoliciesTyped
  <2>2. ASSUME NEW n \in Name PROVE policy[n] = NoPolicy \/ (policy[n].of \in Id /\ policy[n].stamp \in 1..stamp)
    <3>1. policy[n] \in Policies
      BY DEF Policies
    <3>2. stamp \in Nat /\ PolicyTyped(policy[n])
      BY <3>1 DEF PolicyInv, PoliciesTyped
    <3> QED BY <3>2 DEF PolicyTyped
  <2>3. ASSUME NEW i \in Id PROVE meta[i].state \in {"none", "creating", "active", "deleting"}
    <3>1. meta[i] \in Record \/ meta[i] = NoRecord
      BY DEF ManagerInv, StoresTyped, Records
    <3> QED BY <3>1, RecordFields, NoRecordFields
  <2>4. \A n \in Name : byName[n] # Nobody => known[byName[n]].name = n
    BY DEF ManagerInv, IndexAgrees, Agree
  <2>5. deleted \subseteq Id /\ \A n \in Name : cache[n].stamp \in 0..stamp
    BY GivenIds DEF ManagerInv, StoresTyped, PolicyInv, PoliciesTyped
  <2> QED BY <2>1, <2>2, <2>3, <2>4, <2>5 DEF TypeOK
<1> QED BY <1>1, RepositoriesInvariant, PTL

\* A repository whose deletion was reported done is never live again (Delete, purge): the
\* tombstone is on disk before anything is removed, and no later step writes its record.
THEOREM DeletionLasts == Spec => []DeletedStaysDeleted
<1>1. Inv => DeletedStaysDeleted
  BY DEF Inv, ManagerInv
<1> QED BY <1>1, RepositoriesInvariant, PTL

\* A request is decided by a policy the file held since the request looked at it
\* (PolicyFor): the entries of the cache that are not torn pair a policy with its time.
THEOREM PoliciesCurrent == Spec => []PolicyCurrent
<1>1. Inv => PolicyCurrent
  BY DEF Inv, PolicyInv
<1> QED BY <1>1, RepositoriesInvariant, PTL

----------------------------------------------------------------------------
(* A repository is whole: the invariant.  The arguments are the            *)
(* directories c, the repositories o that the policies are of, the records *)
(* m, the index f and k, and the names R where something is missing.       *)

owner == [n \in Name |-> policy[n].of]

Named(m, n) == {i \in Id : m[i].name = n}

\* At most one record bears the name; if it is live the directory and the policy are of
\* that repository, and a directory or a policy of a repository is of the one on record.
Whole(c, o, m, n) ==
    /\ \A i, j \in Named(m, n) : i = j
    /\ \A i \in Named(m, n) : live(m[i].state) => c[n] = i /\ o[n] = i
    /\ c[n] \in Id => c[n] \in Named(m, n)
    /\ o[n] \in Id => o[n] \in Named(m, n)

Sound(c, o, m, R) == \A n \in Name \ R : Whole(c, o, m, n)

\* Nothing is stored under the name.
Bare(c, o, m, R, n) == n \in R \/ (Named(m, n) = {} /\ c[n] \notin Id /\ o[n] \notin Id)

\* The index knows a repository by its record; where it does not, both names are in R.
Synced(k, m, R, i) == k[i] = NoRecord \/ k[i] = m[i] \/ {k[i].name, m[i].name} \subseteq R

\* The index and the records agree, but for the repositories I and the names X.
Current(f, k, m, R, I, X) ==
    /\ \A i \in Id \ I : Synced(k, m, R, i)
    /\ \A n \in Name \ (R \cup X) : \A i \in Named(m, n) : f[n] = i

Settled(c, o, m, f, k, R) == Sound(c, o, m, R) /\ Current(f, k, m, R, {}, {})

\* The record of repository i is the one that bears the name.
Bears(m, R, i, n) ==
    /\ m[i] # NoRecord
    /\ m[i].name = n \/ {n, m[i].name} \subseteq R
    /\ n \in R \/ Named(m, n) \subseteq {i}

\* What is left of Create, from its first step on to its sixth.
Create6(n, id) == <<writeMeta(id, n, "active", rollback(id, n, TRUE, TRUE)), Return(id)>>
Create5(n, id) == <<Remember(id, n, "active"), writeMeta(id, n, "active", rollback(id, n, TRUE, TRUE)), Return(id)>>
Create4(n, id, u) ==
    <<WritePolicy(n, id, u, rollback(id, n, TRUE, FALSE)), Remember(id, n, "active"),
      writeMeta(id, n, "active", rollback(id, n, TRUE, TRUE)), Return(id)>>
Create3(n, id, u) ==
    <<InitContent(n, id, rollback(id, n, FALSE, FALSE)), WritePolicy(n, id, u, rollback(id, n, TRUE, FALSE)),
      Remember(id, n, "active"), writeMeta(id, n, "active", rollback(id, n, TRUE, TRUE)), Return(id)>>
Create2(n, id, u) ==
    <<Remember(id, n, "creating"),
      InitContent(n, id, rollback(id, n, FALSE, FALSE)), WritePolicy(n, id, u, rollback(id, n, TRUE, FALSE)),
      Remember(id, n, "active"), writeMeta(id, n, "active", rollback(id, n, TRUE, TRUE)), Return(id)>>
Create1(n, id, u) ==
    <<writeMeta(id, n, "creating", << >>), Remember(id, n, "creating"),
      InitContent(n, id, rollback(id, n, FALSE, FALSE)), WritePolicy(n, id, u, rollback(id, n, TRUE, FALSE)),
      Remember(id, n, "active"), writeMeta(id, n, "active", rollback(id, n, TRUE, TRUE)), Return(id)>>

\* What is left of Rename, from x to n.
Rename5(n, id, s) == <<writeMeta(id, n, s, << >>), Return(id)>>
Rename4(n, id, s) == <<Remember(id, n, s), writeMeta(id, n, s, << >>), Return(id)>>
Rename3(x, n, id, s) == <<Unname(x), Remember(id, n, s), writeMeta(id, n, s, << >>), Return(id)>>
Rename2(x, n, id, s) ==
    <<MovePolicy(x, n, <<MoveContent(n, x, TRUE)>>),
      Unname(x), Remember(id, n, s), writeMeta(id, n, s, << >>), Return(id)>>
Rename1(x, n, id, s) ==
    <<MoveContent(x, n, FALSE), MovePolicy(x, n, <<MoveContent(n, x, TRUE)>>),
      Unname(x), Remember(id, n, s), writeMeta(id, n, s, << >>), Return(id)>>

\* What may follow once repository i is removed from the name: nothing more, Create, or Rename.
Ends(i) == {<< >>, <<Return(i)>>}
Creates(n, i, k, m) ==
    {Create1(n, id, u) : id \in {j \in Id \ {i} : m[j] = NoRecord /\ k[j] = NoRecord}, u \in Subject}
Renames(n, i, f, k) ==
    {Rename1(x, n, f[x], k[f[x]].state) :
        x \in {y \in Name \ {n} : f[y] \in Id \ {i} /\ k[f[y]].name = y /\ live(k[f[y]].state)}}
Rests(n, i, f, k, m) == Ends(i) \cup Creates(n, i, k, m) \cup Renames(n, i, f, k)

\* Purge, or a rollback, of repository i and its name.
Removing(p, c, o, m, f, k, R, n, i, rest) ==
    /\ Sound(c, o, m, R) /\ Current(f, k, m, R, {i}, {n})
    /\ \/ /\ Bears(m, R, i, n) /\ (n \in R \/ ~live(m[i].state))
          /\ \/ p = <<RemoveAll(n), RemovePolicy(n), removeMeta(i, n), Forget(i, n)>> \o rest
             \/ p = <<RemovePolicy(n), RemoveAll(n), removeMeta(i, n), Forget(i, n)>> \o rest
             \/ /\ p = <<RemovePolicy(n), removeMeta(i, n), Forget(i, n)>> \o rest
                /\ n \in R \/ c[n] \notin Id
             \/ /\ p = <<RemoveAll(n), removeMeta(i, n), Forget(i, n)>> \o rest
                /\ n \in R \/ o[n] \notin Id
             \/ /\ p = <<removeMeta(i, n), Forget(i, n)>> \o rest
                /\ n \in R \/ (c[n] \notin Id /\ o[n] \notin Id)
       \/ /\ p = <<Forget(i, n)>> \o rest
          /\ Bare(c, o, m, R, n)
          /\ m[i] = NoRecord \/ {n, m[i].name} \subseteq R

Clearing(p, c, o, m, f, k, R) ==
    \E n \in Name, i \in Id : \E rest \in Rests(n, i, f, k, m) : Removing(p, c, o, m, f, k, R, n, i, rest)

Creating(p, c, o, m, f, k, R) ==
    \E n \in Name, id \in Id, u \in Subject :
        /\ Sound(c, o, m, R)
        /\ \/ /\ p = Create1(n, id, u)
              /\ Current(f, k, m, R, {}, {}) /\ Bare(c, o, m, R, n)
              /\ m[id] = NoRecord /\ k[id] = NoRecord
           \/ /\ Current(f, k, m, R, {id}, {n})
              /\ m[id] = [name |-> n, state |-> "creating"] /\ Bears(m, R, id, n)
              /\ \/ p \in {Create2(n, id, u), Create3(n, id, u)} /\ (n \in R \/ (c[n] \notin Id /\ o[n] \notin Id))
                 \/ p = Create4(n, id, u) /\ (n \in R \/ (c[n] = id /\ o[n] \notin Id))
                 \/ p = Create5(n, id) /\ (n \in R \/ (c[n] = id /\ o[n] = id))
                 \/ /\ p = Create6(n, id) /\ (n \in R \/ (c[n] = id /\ o[n] = id))
                    /\ f[n] = id /\ k[id] = [name |-> n, state |-> "active"]

Returning(p, c, o, m, f, k, R) == \E id \in Id : p = <<Return(id)>> /\ Settled(c, o, m, f, k, R)

Deleting(p, c, o, m, f, k, R) ==
    \E n \in Name, i \in Id :
        /\ Sound(c, o, m, R) /\ Bears(m, R, i, n) /\ Current(f, k, m, R, {i}, {n})
        /\ \/ p = <<Remember(i, n, "deleting"), writeMeta(i, n, "deleting", << >>)>> \o (purge(i, n) \o <<Return(i)>>)
           \/ /\ p = <<writeMeta(i, n, "deleting", << >>)>> \o (purge(i, n) \o <<Return(i)>>)
              /\ f[n] = i /\ k[i] = [name |-> n, state |-> "deleting"]

\* Between the first move and the record, the two names of a rename are in neither state.
Between(c, o, m, R, x, n, i, s) ==
    /\ Sound(c, o, m, R \cup {x, n})
    /\ x \in R => n \in R /\ m[i].name \in R
    /\ x \notin R => m[i] = [name |-> x, state |-> s] /\ Named(m, x) = {i} /\ c[n] = i /\ c[x] = Nobody
    /\ n \notin R => Named(m, n) = {}

\* Before the policy is moved, and after.
Unmoved(o, m, f, k, R, x, n, i, s) ==
    /\ Current(f, k, m, R, {}, {}) /\ f[x] = i /\ k[i] = [name |-> x, state |-> s]
    /\ (x \notin R => o[x] = i) /\ (n \notin R => o[n] \notin Id)
Moved(o, m, f, k, R, x, n, i) ==
    /\ Current(f, k, m, R, {i}, {x, n})
    /\ x \notin R => o[n] = i /\ o[x] \notin Id

RenamingTo(p, c, o, m, f, k, R, x, n, i, s) ==
    \/ /\ p = Rename1(x, n, i, s)
       /\ Settled(c, o, m, f, k, R) /\ Bare(c, o, m, R, n)
       /\ f[x] = i /\ k[i] = [name |-> x, state |-> s]
    \/ /\ Between(c, o, m, R, x, n, i, s)
       /\ \/ p \in {Rename2(x, n, i, s), <<MoveContent(n, x, TRUE)>>} /\ Unmoved(o, m, f, k, R, x, n, i, s)
          \/ /\ Moved(o, m, f, k, R, x, n, i)
             /\ \/ p = Rename3(x, n, i, s)
                \/ p = Rename4(n, i, s)
                \/ p = Rename5(n, i, s) /\ f[n] = i /\ k[i] = [name |-> n, state |-> s]

Renaming(p, c, o, m, f, k, R) ==
    \E x, n \in Name, i \in Id : \E s \in {"active", "archived"} :
        x # n /\ RenamingTo(p, c, o, m, f, k, R, x, n, i, s)

OnCourse(p, c, o, m, f, k, R) ==
    \/ p = << >> /\ Settled(c, o, m, f, k, R)
    \/ Clearing(p, c, o, m, f, k, R)
    \/ Creating(p, c, o, m, f, k, R)
    \/ Returning(p, c, o, m, f, k, R)
    \/ Deleting(p, c, o, m, f, k, R)
    \/ Renaming(p, c, o, m, f, k, R)

WholeInv ==
    IF loaded THEN OnCourse(plan, content, owner, meta, byName, known, residue)
    ELSE plan = << >> /\ Sound(content, owner, meta, residue)

----------------------------------------------------------------------------
(* A repository is whole: what the step at hand does                       *)

\* Every policy is of a repository; no policy is of nobody.
LEMMA Owners ==
    ASSUME PolicyInv
    PROVE  /\ owner \in [Name -> Id \cup {Nobody}]
           /\ DOMAIN policy = Name
           /\ \A n \in Name : owner[n] = policy[n].of /\ (policy[n] = NoPolicy <=> owner[n] \notin Id)
<1>1. NoPolicy.of = Nobody /\ Nobody \notin Id
  BY DEF NoPolicy, Nobody, Id
<1>2. ASSUME NEW n \in Name PROVE policy[n] = NoPolicy \/ policy[n].of \in Id
  <2>1. policy[n] \in Policies
    BY DEF Policies
  <2> QED BY <2>1 DEF PolicyInv, PoliciesTyped, PolicyTyped
<1> QED BY <1>1, <1>2 DEF owner, PolicyInv, PoliciesTyped

\* What is in memory is as it was.
Remembered == UNCHANGED <<byName, known, loaded>>

\* RemoveAll: the directory is gone, or the name is left in pieces.
LEMMA DoRemoveAll ==
    ASSUME Inv, plan # << >>, NEW n \in Name, Head(plan) = RemoveAll(n), Step \/ Fail
    PROVE  /\ plan' = Tail(plan) /\ Remembered /\ meta' = meta /\ owner' = owner
           /\ \A x \in Name : x # n => content'[x] = content[x]
           /\ \/ residue' = residue /\ content'[n] = Nobody
              \/ residue' = residue \cup {n}
<1>1. content \in [Name -> Id \cup {Nobody, Scrap}]
  BY DEF Inv, ManagerInv, StoresTyped
<1> DEFINE w == Head(plan)
<1>2. w.op = "removeAll" /\ w.name = n /\ w.soft = TRUE
  BY DEF RemoveAll
<1>3. CASE Step
  <2>1. StepContent
    BY <1>2, <1>3 DEF Step, StepMemory, StepMeta, StepPolicy, StepReturn
  <2> QED BY <1>1, <1>2, <2>1 DEF StepContent, Rest, memory, Remembered, owner
<1>4. CASE Fail
  <2>1. residue' = residue \cup {n}
    BY <1>2, <1>4 DEF Fail, Left
  <2>2. plan' = Tail(plan) /\ Remembered /\ meta' = meta /\ policy' = policy
    BY <1>2, <1>4 DEF Fail, Rest, memory, Remembered
  <2>3. content' = content \/ content' \in {content, [content EXCEPT ![n] = Scrap]}
    BY <1>2, <1>4 DEF Fail, Halves
  <2> QED BY <1>1, <2>1, <2>2, <2>3 DEF owner
<1> QED BY <1>3, <1>4

\* RemovePolicy.
LEMMA DoRemovePolicy ==
    ASSUME Inv, plan # << >>, NEW n \in Name, Head(plan) = RemovePolicy(n), Step \/ Fail
    PROVE  /\ plan' = Tail(plan) /\ Remembered /\ meta' = meta /\ content' = content
           /\ \A x \in Name : x # n => owner'[x] = owner[x]
           /\ \/ residue' = residue /\ owner'[n] \notin Id
              \/ residue' = residue \cup {n} /\ owner' = owner
<1>1. DOMAIN policy = Name
  BY Owners DEF Inv
<1> DEFINE w == Head(plan)
<1>2. w.op = "removePolicy" /\ w.name = n /\ w.soft = TRUE
  BY DEF RemovePolicy
<1>3. CASE Step
  <2>1. StepPolicy
    BY <1>2, <1>3 DEF Step, StepMemory, StepMeta, StepContent, StepReturn
  <2>2. policy' = [policy EXCEPT ![n] = NoPolicy] /\ residue' = residue
    BY <1>2, <2>1 DEF StepPolicy, ghosts
  <2>3. NoPolicy.of \notin Id
    BY DEF NoPolicy, Nobody, Id
  <2> QED BY <1>1, <1>2, <2>1, <2>2, <2>3 DEF StepPolicy, Rest, memory, Remembered, owner
<1>4. CASE Fail
  <2>1. residue' = residue \cup {n}
    BY <1>2, <1>4 DEF Fail, Left
  <2>2. plan' = Tail(plan) /\ Remembered /\ meta' = meta /\ policy' = policy /\ content' = content
    BY <1>2, <1>4 DEF Fail, Rest, memory, Remembered, Halves
  <2> QED BY <1>1, <2>1, <2>2 DEF owner
<1> QED BY <1>3, <1>4

\* removeMeta.
LEMMA DoRemoveMeta ==
    ASSUME Inv, plan # << >>, NEW n \in Name, NEW i \in Id, Head(plan) = removeMeta(i, n), Step \/ Fail
    PROVE  /\ plan' = Tail(plan) /\ Remembered /\ content' = content /\ owner' = owner
           /\ \A j \in Id : j # i => meta'[j] = meta[j]
           /\ \/ residue' = residue /\ meta'[i] = NoRecord
              \/ residue' = residue \cup {n} /\ meta' = meta
<1>1. meta \in Records
  BY DEF Inv, ManagerInv, StoresTyped
<1> DEFINE w == Head(plan)
<1>2. w.op = "removeMeta" /\ w.name = n /\ w.id = i /\ w.soft = TRUE
  BY DEF removeMeta
<1>3. CASE Step
  <2>1. StepMeta
    BY <1>2, <1>3 DEF Step, StepMemory, StepContent, StepPolicy, StepReturn
  <2> QED BY <1>1, <1>2, <2>1 DEF StepMeta, Rest, memory, Remembered, owner, ghosts, Records
<1>4. CASE Fail
  <2>1. residue' = residue \cup {n}
    BY <1>2, <1>4 DEF Fail, Left
  <2>2. plan' = Tail(plan) /\ Remembered /\ meta' = meta /\ policy' = policy /\ content' = content
    BY <1>2, <1>4 DEF Fail, Rest, memory, Remembered, Halves
  <2> QED BY <1>1, <2>1, <2>2 DEF owner
<1> QED BY <1>3, <1>4

\* Changes of the index do not fail.
LEMMA DoForget ==
    ASSUME Inv, plan # << >>, NEW n \in Name, NEW i \in Id, Head(plan) = Forget(i, n), Step \/ Fail
    PROVE  /\ plan' = Tail(plan) /\ content' = content /\ owner' = owner /\ meta' = meta /\ residue' = residue
           /\ loaded' = loaded
           /\ \A x \in Name : x # n => byName'[x] = byName[x]
           /\ \A j \in Id : j # i => known'[j] = known[j]
           /\ byName'[n] = Nobody /\ known'[i] = NoRecord
<1>1. known \in Records /\ byName \in [Name -> Given \cup {Nobody}]
  BY DEF Inv, ManagerInv, StoresTyped
<1> DEFINE w == Head(plan)
<1>2. w.op = "forget" /\ w.name = n /\ w.id = i
  BY DEF Forget
<1>3. StepMemory
  BY <1>2 DEF Step, StepMeta, StepContent, StepPolicy, StepReturn, Fail
<1>4. /\ byName' = [byName EXCEPT ![n] = Nobody]
      /\ known' = [known EXCEPT ![i] = NoRecord]
  BY <1>2, <1>3 DEF StepMemory
<1>5. plan' = Tail(plan) /\ content' = content /\ policy' = policy /\ meta' = meta /\ residue' = residue
      /\ loaded' = loaded
  BY <1>3 DEF StepMemory, Rest, disk, ghosts
<1> QED BY <1>1, <1>4, <1>5 DEF owner, Records

Remembers(i, n, s) ==
    /\ plan' = Tail(plan) /\ content' = content /\ owner' = owner /\ meta' = meta /\ residue' = residue
    /\ loaded' = loaded
    /\ \A x \in Name : x # n => byName'[x] = byName[x]
    /\ \A j \in Id : j # i => known'[j] = known[j]
    /\ byName'[n] = i /\ known'[i] = [name |-> n, state |-> s]

\* Recording a repository in the index (register) changes the index only.
LEMMA DoRemember ==
    ASSUME Inv, plan # << >>, NEW n \in Name, NEW i \in Id, NEW s, Head(plan) = Remember(i, n, s), Step \/ Fail
    PROVE  Remembers(i, n, s)
<1> USE DEF Remembers
<1>1. known \in Records /\ byName \in [Name -> Given \cup {Nobody}]
  BY DEF Inv, ManagerInv, StoresTyped
<1> DEFINE w == Head(plan)
           v == [name |-> n, state |-> s]
<1>2. w.op = "remember" /\ w.to = v /\ w.to.name = n /\ w.id = i
  BY DEF Remember
<1>3. StepMemory
  BY <1>2 DEF Step, StepMeta, StepContent, StepPolicy, StepReturn, Fail
<1> HIDE DEF v
<1>4. /\ byName' = [byName EXCEPT ![n] = i]
      /\ known' = [known EXCEPT ![i] = v]
  BY <1>2, <1>3 DEF StepMemory
<1>5. plan' = Tail(plan) /\ content' = content /\ policy' = policy /\ meta' = meta /\ residue' = residue
      /\ loaded' = loaded
  BY <1>3 DEF StepMemory, Rest, disk, ghosts
<1>6. known'[i] = v
  BY <1>1, <1>4 DEF Records
<1> QED BY <1>1, <1>4, <1>5, <1>6 DEF owner, Records, v

\* Dropping the old name from the index changes that name's entry only.
LEMMA DoUnname ==
    ASSUME Inv, plan # << >>, NEW n \in Name, Head(plan) = Unname(n), Step \/ Fail
    PROVE  /\ plan' = Tail(plan) /\ content' = content /\ owner' = owner /\ meta' = meta /\ residue' = residue
           /\ loaded' = loaded /\ known' = known
           /\ \A x \in Name : x # n => byName'[x] = byName[x]
<1>1. byName \in [Name -> Given \cup {Nobody}]
  BY DEF Inv, ManagerInv, StoresTyped
<1> DEFINE w == Head(plan)
<1>2. w.op = "unname" /\ w.name = n
  BY DEF Unname
<1>3. StepMemory
  BY <1>2 DEF Step, StepMeta, StepContent, StepPolicy, StepReturn, Fail
<1>4. byName' = [byName EXCEPT ![n] = Nobody] /\ known' = known
  BY <1>2, <1>3 DEF StepMemory
<1>5. plan' = Tail(plan) /\ content' = content /\ policy' = policy /\ meta' = meta /\ residue' = residue
      /\ loaded' = loaded
  BY <1>3 DEF StepMemory, Rest, disk, ghosts
<1> QED BY <1>1, <1>4, <1>5 DEF owner

\* An operation returns: its plan is over and it has changed nothing.
LEMMA DoReturn ==
    ASSUME Inv, plan # << >>, NEW i, Head(plan) = Return(i), Step \/ Fail
    PROVE  /\ plan' = << >> /\ content' = content /\ owner' = owner /\ meta' = meta /\ residue' = residue
           /\ Remembered
<1> DEFINE w == Head(plan)
<1>2. w.op = "return"
  BY DEF Return
<1>3. StepReturn
  BY <1>2 DEF Step, StepMeta, StepContent, StepPolicy, StepMemory, Fail
<1> QED BY <1>3 DEF StepReturn, disk, memory, Remembered, owner

\* writeMeta: the record is written, or the plan goes on with its fail.
WritesRecord(i, n, s) ==
    /\ plan' = Tail(plan) /\ residue' = residue
    /\ meta'[i] = [name |-> n, state |-> s]
    /\ \A j \in Id : j # i => meta'[j] = meta[j]
FailsRecord(i, n, s, e) ==
    /\ plan' = e /\ meta' = meta
    /\ residue' = residue \cup (IF meta[i].name \notin {"", n} THEN {meta[i].name, n}
                                ELSE IF s = "deleting" THEN {n} ELSE {})

\* A record is written, or the write fails and the plan becomes its error branch.
LEMMA DoWriteMeta ==
    ASSUME Inv, plan # << >>, NEW n \in Name, NEW i \in Id, NEW s, NEW e,
           Head(plan) = writeMeta(i, n, s, e), Step \/ Fail
    PROVE  /\ Remembered /\ content' = content /\ owner' = owner
           /\ WritesRecord(i, n, s) \/ FailsRecord(i, n, s, e)
<1> USE DEF WritesRecord, FailsRecord
<1>1. meta \in Records
  BY DEF Inv, ManagerInv, StoresTyped
<1> DEFINE w == Head(plan)
           v == [name |-> n, state |-> s]
<1>2. w.op = "writeMeta" /\ w.to = v /\ w.id = i /\ w.soft = FALSE /\ w.fail = e
  BY DEF writeMeta
<1>v. v.name = n /\ v.state = s
  OBVIOUS
<1> HIDE DEF v
<1>3. CASE Step
  <2>1. StepMeta
    BY <1>2, <1>3 DEF Step, StepMemory, StepContent, StepPolicy, StepReturn
  <2>2. meta' = [meta EXCEPT ![i] = v] /\ plan' = Tail(plan) /\ Remembered /\ content' = content
        /\ policy' = policy /\ residue' = residue
    BY <1>2, <2>1 DEF StepMeta, Rest, memory, Remembered, ghosts
  <2>3. meta'[i] = v
    BY <1>1, <2>2 DEF Records
  <2> QED BY <1>1, <2>2, <2>3 DEF owner, Records, v
<1>4. CASE Fail
  <2>1. Left(w) = IF meta[i].name \notin {"", n} THEN {meta[i].name, n}
                  ELSE IF s = "deleting" THEN {n} ELSE {}
    <3>1. PICK y : y = w
      OBVIOUS
    <3>2. y.op = "writeMeta" /\ y.id = i /\ y.to.name = n /\ y.to.state = s
      BY <1>2, <1>v, <3>1
    <3> HIDE DEF w
    <3> QED BY <3>1, <3>2 DEF Left
  <2>2. plan' = e /\ Remembered /\ meta' = meta /\ policy' = policy /\ content' = content
        /\ residue' = residue \cup Left(w)
    BY <1>2, <1>4 DEF Fail, memory, Remembered, Halves
  <2> QED BY <2>1, <2>2 DEF owner
<1> QED BY <1>3, <1>4

\* Init.
LEMMA DoInit ==
    ASSUME Inv, plan # << >>, NEW n \in Name, NEW i \in Id, NEW e,
           Head(plan) = InitContent(n, i, e), Step \/ Fail
    PROVE  /\ Remembered /\ meta' = meta /\ owner' = owner /\ residue' = residue
           /\ \A x \in Name : x # n => content'[x] = content[x]
           /\ \/ plan' = Tail(plan) /\ (content[n] \notin Id => content'[n] = i)
              \/ plan' = e /\ (content[n] \notin Id => content'[n] \notin Id)
<1>1. content \in [Name -> Id \cup {Nobody, Scrap}] /\ Scrap \notin Id
  BY GivenIds DEF Inv, ManagerInv, StoresTyped
<1> DEFINE w == Head(plan)
<1>2. w.op = "init" /\ w.name = n /\ w.id = i /\ w.soft = FALSE /\ w.fail = e
  BY DEF InitContent
<1>3. CASE Step
  <2>1. StepContent
    BY <1>2, <1>3 DEF Step, StepMemory, StepMeta, StepPolicy, StepReturn
  <2>2. content' = [content EXCEPT ![n] = IF @ \in {Nobody, Scrap} THEN i ELSE @] /\ residue' = residue
        /\ plan' = Tail(plan) /\ Remembered /\ meta' = meta /\ policy' = policy
    BY <1>2, <2>1 DEF StepContent, Rest, memory, Remembered
  <2> QED BY <1>1, <2>2 DEF owner
<1>4. CASE Fail
  <2>1. Left(w) = {}
    BY <1>2 DEF Left
  <2>2. plan' = e /\ Remembered /\ meta' = meta /\ policy' = policy /\ residue' = residue \cup Left(w)
    BY <1>2, <1>4 DEF Fail, memory, Remembered
  <2>3. content' = content \/ content' \in {content, [content EXCEPT ![n] = Scrap]}
    BY <1>2, <1>4 DEF Fail, Halves
  <2> QED BY <1>1, <2>1, <2>2, <2>3 DEF owner
<1> QED BY <1>3, <1>4

\* WritePolicy.
LEMMA DoWritePolicy ==
    ASSUME Inv, plan # << >>, NEW n \in Name, NEW i \in Id, NEW u, NEW e,
           Head(plan) = WritePolicy(n, i, u, e), Step \/ Fail
    PROVE  /\ Remembered /\ meta' = meta /\ content' = content /\ residue' = residue
           /\ \/ plan' = Tail(plan) /\ owner'[n] = i /\ \A x \in Name : x # n => owner'[x] = owner[x]
              \/ plan' = e /\ owner' = owner
<1>1. DOMAIN policy = Name
  BY Owners DEF Inv
<1> DEFINE w == Head(plan)
<1>2. w.op = "writePolicy" /\ w.name = n /\ w.id = i /\ w.soft = FALSE /\ w.fail = e
  BY DEF WritePolicy
<1>3. CASE Step
  <2>1. StepPolicy
    BY <1>2, <1>3 DEF Step, StepMemory, StepMeta, StepContent, StepReturn
  <2>2. PICK g : policy' = [policy EXCEPT ![n] = [of |-> i, stamp |-> stamp + 1, ok |-> TRUE, grants |-> g]]
    BY <1>2, <2>1 DEF StepPolicy
  <2>3. residue' = residue /\ plan' = Tail(plan) /\ Remembered /\ meta' = meta /\ content' = content
    BY <1>2, <2>1 DEF StepPolicy, Rest, memory, Remembered, ghosts
  <2>4. policy'[n].of = i /\ \A x \in Name : x # n => policy'[x] = policy[x]
    BY <1>1, <2>2
  <2> QED BY <2>3, <2>4 DEF owner
<1>4. CASE Fail
  <2>1. Left(w) = {}
    BY <1>2 DEF Left
  <2>2. plan' = e /\ Remembered /\ meta' = meta /\ policy' = policy /\ residue' = residue \cup Left(w)
        /\ content' = content
    BY <1>2, <1>4 DEF Fail, memory, Remembered, Halves
  <2> QED BY <2>1, <2>2 DEF owner
<1> QED BY <1>3, <1>4

\* The move of a directory, which an error of another step may ask for too.
LEMMA DoMoveContent ==
    ASSUME Inv, plan # << >>, NEW n \in Name, NEW x \in Name, x # n, NEW b \in BOOLEAN,
           Head(plan) = MoveContent(x, n, b), Step \/ Fail
    PROVE  /\ Remembered /\ meta' = meta /\ owner' = owner
           /\ \A y \in Name : y \notin {x, n} => content'[y] = content[y]
           /\ \/ /\ plan' = Tail(plan) /\ residue' = IF x \in residue THEN residue \cup {n} ELSE residue
                 /\ content[x] # Nobody /\ content[n] = Nobody
                 /\ content'[n] = content[x] /\ content'[x] = Nobody
              \/ /\ content' = content
                 /\ residue' = IF b THEN residue \cup {x, n} ELSE residue
                 /\ plan' = IF b THEN Tail(plan) ELSE << >>
<1>1. content \in [Name -> Id \cup {Nobody, Scrap}]
  BY DEF Inv, ManagerInv, StoresTyped
<1> DEFINE w == Head(plan)
<1>2. w.op = "moveContent" /\ w.name = x /\ w.to = n /\ w.soft = b /\ w.fail = << >>
  BY DEF MoveContent
<1>3. CASE Step
  <2>1. StepContent
    BY <1>2, <1>3 DEF Step, StepMemory, StepMeta, StepPolicy, StepReturn
  <2>2. content' = [content EXCEPT ![n] = content[x], ![x] = Nobody]
        /\ residue' = (IF x \in residue THEN residue \cup {n} ELSE residue)
        /\ plan' = Tail(plan) /\ Remembered /\ meta' = meta /\ policy' = policy
    BY <1>2, <2>1 DEF StepContent, Rest, memory, Remembered
  <2>3. content[x] # Nobody /\ content[n] = Nobody
    BY <1>2, <2>1 DEF StepContent, Blocked
  <2> QED BY <1>1, <2>2, <2>3 DEF owner
<1>4. CASE Fail
  <2>1. Left(w) = IF b THEN {x, n} ELSE {}
    BY <1>2 DEF Left
  <2>2. plan' = (IF b THEN Tail(plan) ELSE << >>)
        /\ Remembered /\ meta' = meta /\ policy' = policy /\ residue' = residue \cup Left(w)
        /\ content' = content
    BY <1>2, <1>4 DEF Fail, memory, Remembered, Halves, Rest
  <2> QED BY <2>1, <2>2 DEF owner
<1> QED BY <1>3, <1>4

\* The move of a policy.
LEMMA DoMovePolicy ==
    ASSUME Inv, plan # << >>, NEW n \in Name, NEW x \in Name, x # n, NEW e,
           Head(plan) = MovePolicy(x, n, e), Step \/ Fail
    PROVE  /\ Remembered /\ meta' = meta /\ content' = content /\ residue' = residue
           /\ \/ /\ plan' = Tail(plan) /\ owner'[n] = owner[x] /\ owner'[x] \notin Id
                 /\ \A y \in Name : y \notin {x, n} => owner'[y] = owner[y]
              \/ plan' = e /\ owner' = owner
<1>1. DOMAIN policy = Name
  BY Owners DEF Inv
<1> DEFINE w == Head(plan)
<1>2. w.op = "movePolicy" /\ w.name = x /\ w.to = n /\ w.soft = FALSE /\ w.fail = e
  BY DEF MovePolicy
<1>3. CASE Step
  <2>1. StepPolicy
    BY <1>2, <1>3 DEF Step, StepMemory, StepMeta, StepContent, StepReturn
  <2>2. policy' = [policy EXCEPT ![n] = policy[x], ![x] = NoPolicy]
    BY <1>2, <2>1 DEF StepPolicy
  <2>3. residue' = residue /\ plan' = Tail(plan) /\ Remembered /\ meta' = meta /\ content' = content
    BY <1>2, <2>1 DEF StepPolicy, Rest, memory, Remembered, ghosts
  <2>4. policy'[n] = policy[x] /\ policy'[x] = NoPolicy
        /\ \A y \in Name : y \notin {x, n} => policy'[y] = policy[y]
    BY <1>1, <2>2
  <2>5. NoPolicy.of \notin Id
    BY DEF NoPolicy, Nobody, Id
  <2> QED BY <2>3, <2>4, <2>5 DEF owner
<1>4. CASE Fail
  <2>1. Left(w) = {}
    BY <1>2 DEF Left
  <2>2. plan' = e /\ Remembered /\ meta' = meta /\ policy' = policy /\ residue' = residue \cup Left(w)
        /\ content' = content
    BY <1>2, <1>4 DEF Fail, memory, Remembered, Halves
  <2> QED BY <2>1, <2>2 DEF owner
<1> QED BY <1>3, <1>4

----------------------------------------------------------------------------
(* A repository is whole: changes of one name, of one record               *)

\* More names in pieces promise less.
LEMMA FewerPromises ==
    ASSUME NEW c, NEW o, NEW m, NEW f, NEW k, NEW R, NEW R2, R \subseteq R2
    PROVE  /\ Sound(c, o, m, R) => Sound(c, o, m, R2)
           /\ \A I, X : Current(f, k, m, R, I, X) => Current(f, k, m, R2, I, X)
           /\ \A i, n : Bears(m, R, i, n) => Bears(m, R2, i, n)
           /\ \A n : Bare(c, o, m, R, n) => Bare(c, o, m, R2, n)
<1>1. Sound(c, o, m, R) => Sound(c, o, m, R2)
  BY DEF Sound
<1>2. \A I, X : Current(f, k, m, R, I, X) => Current(f, k, m, R2, I, X)
  BY DEF Current, Synced
<1>3. \A i, n : Bears(m, R, i, n) => Bears(m, R2, i, n)
  BY DEF Bears
<1>4. \A n : Bare(c, o, m, R, n) => Bare(c, o, m, R2, n)
  BY DEF Bare
<1> QED BY <1>1, <1>2, <1>3, <1>4

\* Only the directory and the policy of one name have changed.
LEMMA SoundElsewhere ==
    ASSUME NEW c, NEW o, NEW m, NEW R, Sound(c, o, m, R), NEW c2, NEW o2, NEW n,
           \A x \in Name : x # n => c2[x] = c[x] /\ o2[x] = o[x],
           n \in R \/ Whole(c2, o2, m, n)
    PROVE  Sound(c2, o2, m, R)
<1>1. ASSUME NEW x \in Name \ R PROVE Whole(c2, o2, m, x)
  <2>1. CASE x = n
    BY <2>1
  <2>2. CASE x # n
    <3>1. Whole(c, o, m, x) /\ c2[x] = c[x] /\ o2[x] = o[x]
      BY <2>2 DEF Sound
    <3> QED BY <3>1 DEF Whole
  <2> QED BY <2>1, <2>2
<1> QED BY <1>1 DEF Sound

\* Only the record of repository i has changed, and of the whole names only n is concerned.
LEMMA SoundRecords ==
    ASSUME NEW c, NEW o, NEW m, NEW R, Sound(c, o, m, R), NEW m2, NEW i \in Id, NEW n,
           \A j \in Id : j # i => m2[j] = m[j],
           \A x \in Name \ R : x # n => m[i].name # x /\ m2[i].name # x,
           n \in R \/ Whole(c, o, m2, n)
    PROVE  Sound(c, o, m2, R)
<1>1. ASSUME NEW x \in Name \ R PROVE Whole(c, o, m2, x)
  <2>1. CASE x = n
    BY <2>1
  <2>2. CASE x # n
    <3>1. Whole(c, o, m, x) /\ m[i].name # x /\ m2[i].name # x
      BY <2>2 DEF Sound
    <3>2. Named(m2, x) = Named(m, x)
      BY <3>1 DEF Named
    <3>3. \A j \in Named(m, x) : m2[j] = m[j]
      BY <3>1 DEF Named
    <3> QED BY <3>1, <3>2, <3>3 DEF Whole
  <2> QED BY <2>1, <2>2
<1> QED BY <1>1 DEF Sound

\* A name with nothing stored is whole, and so is one whose record is not live.
LEMMA WholeWhenBare ==
    ASSUME NEW c, NEW o, NEW m, NEW n, Named(m, n) = {}, c[n] \notin Id, o[n] \notin Id
    PROVE  Whole(c, o, m, n)
  BY DEF Whole

\* A name that only a repository not yet live bears is whole.
LEMMA WholeWhenUnborn ==
    ASSUME NEW c, NEW o, NEW m, NEW n, NEW i \in Id, Named(m, n) \subseteq {i},
           ~live(m[i].state), c[n] \notin Id \/ c[n] \in Named(m, n), o[n] \notin Id \/ o[n] \in Named(m, n)
    PROVE  Whole(c, o, m, n)
  BY DEF Whole

\* Repository i may be removed from the name.
Removable(c, o, m, f, k, R, i, n) ==
    /\ Sound(c, o, m, R) /\ Current(f, k, m, R, {i}, {n})
    /\ Bears(m, R, i, n) /\ (n \in R \/ ~live(m[i].state))

\* Under the name n something is removed, or made for repository i, or the name is left in
\* pieces.
ChangesAt(c, o, R, c2, o2, R2, i, n) ==
    /\ R \subseteq R2
    /\ \A x \in Name : x # n => c2[x] = c[x] /\ o2[x] = o[x]
    /\ n \in R2 \/ c2[n] \in {c[n], i} \/ c2[n] \notin Id
    /\ n \in R2 \/ o2[n] \in {o[n], i} \/ o2[n] \notin Id

\* Changes under the name of a repository that is not live.
LEMMA Removes ==
    ASSUME NEW c, NEW o, NEW m, NEW f, NEW k, NEW R, NEW i \in Id, NEW n \in Name,
           Removable(c, o, m, f, k, R, i, n), NEW c2, NEW o2, NEW R2, ChangesAt(c, o, R, c2, o2, R2, i, n)
    PROVE  Removable(c2, o2, m, f, k, R2, i, n)
<1> USE DEF Removable, ChangesAt
<1>1. R \subseteq R2
  OBVIOUS
<1>2. Sound(c, o, m, R2) /\ Current(f, k, m, R2, {i}, {n}) /\ Bears(m, R2, i, n)
  BY <1>1, FewerPromises
<1>3. n \in R2 \/ ~live(m[i].state)
  BY <1>1
<1>4. n \in R2 \/ Whole(c2, o2, m, n)
  <2> SUFFICES ASSUME n \notin R2 PROVE Whole(c2, o2, m, n)
    OBVIOUS
  <2>1. Whole(c, o, m, n)
    BY <1>2 DEF Sound
  <2>2. Named(m, n) \subseteq {i}
    BY <1>2 DEF Bears
  <2>5. i \in Named(m, n)
    BY <1>2 DEF Bears, Named
  <2>3. c2[n] \notin Id \/ c2[n] \in Named(m, n)
    BY <2>1, <2>5 DEF Whole
  <2>4. o2[n] \notin Id \/ o2[n] \in Named(m, n)
    BY <2>1, <2>5 DEF Whole
  <2> QED BY <1>3, <2>2, <2>3, <2>4, WholeWhenUnborn
<1>5. Sound(c2, o2, m, R2)
  BY <1>2, <1>4, SoundElsewhere
<1> QED BY <1>2, <1>3, <1>5

\* The index still agrees when a record that it need not agree with has changed.
LEMMA CurrentRecords ==
    ASSUME NEW f, NEW k, NEW m, NEW R, NEW i \in Id, NEW X, Current(f, k, m, R, {i}, X), NEW m2,
           \A j \in Id : j # i => m2[j] = m[j],
           m2[i].name \notin Name \/ m2[i].name \in R \cup X
    PROVE  Current(f, k, m2, R, {i}, X)
<1>1. \A j \in Id \ {i} : Synced(k, m2, R, j)
  BY DEF Current, Synced
<1>2. ASSUME NEW n \in Name \ (R \cup X), NEW j \in Named(m2, n) PROVE f[n] = j
  <2>1. j # i
    BY DEF Named
  <2>2. j \in Named(m, n)
    BY <2>1 DEF Named
  <2> QED BY <2>2 DEF Current
<1> QED BY <1>1, <1>2 DEF Current

\* The index agrees everywhere once it agrees about repository i and the names X.
LEMMA CurrentAgain ==
    ASSUME NEW f, NEW k, NEW m, NEW R, NEW i \in Id, NEW X, Current(f, k, m, R, {i}, X),
           NEW f2, NEW k2,
           \A j \in Id : j # i => k2[j] = k[j],
           \A x \in Name : x \notin X => f2[x] = f[x],
           Synced(k2, m, R, i),
           \A x \in X : x \in R \/ \A j \in Named(m, x) : f2[x] = j
    PROVE  Current(f2, k2, m, R, {}, {})
<1>1. \A j \in Id : Synced(k2, m, R, j)
  BY DEF Current, Synced
<1>2. ASSUME NEW n \in Name \ R, NEW j \in Named(m, n) PROVE f2[n] = j
  BY DEF Current
<1> QED BY <1>1, <1>2 DEF Current

\* The index has changed where it need not agree.
LEMMA CurrentElsewhere ==
    ASSUME NEW f, NEW k, NEW m, NEW R, NEW I, NEW X, NEW X2, X \subseteq X2, NEW I2, I \subseteq I2,
           Current(f, k, m, R, I, X),
           NEW f2, NEW k2,
           \A j \in Id : j \notin I2 => k2[j] = k[j],
           \A x \in Name : x \notin X2 => f2[x] = f[x]
    PROVE  Current(f2, k2, m, R, I2, X2)
<1>1. \A j \in Id \ I2 : Synced(k2, m, R, j)
  BY DEF Current, Synced
<1>2. ASSUME NEW n \in Name \ (R \cup X2), NEW j \in Named(m, n) PROVE f2[n] = j
  BY DEF Current
<1> QED BY <1>1, <1>2 DEF Current

----------------------------------------------------------------------------
(* A repository is whole: the plans as tuples                              *)

\* The first step and the rest of a short plan.
LEMMA Tuples ==
    ASSUME NEW a, NEW b, NEW c, NEW d, NEW e
    PROVE  /\ <<a>> # << >> /\ Head(<<a>>) = a /\ Tail(<<a>>) = << >>
           /\ <<a, b>> # << >> /\ Head(<<a, b>>) = a /\ Tail(<<a, b>>) = <<b>>
           /\ <<a, b, c>> # << >> /\ Head(<<a, b, c>>) = a /\ Tail(<<a, b, c>>) = <<b, c>>
           /\ <<a, b, c, d>> # << >> /\ Head(<<a, b, c, d>>) = a /\ Tail(<<a, b, c, d>>) = <<b, c, d>>
           /\ <<a, b, c, d, e>> # << >> /\ Head(<<a, b, c, d, e>>) = a /\ Tail(<<a, b, c, d, e>>) = <<b, c, d, e>>
  OBVIOUS

\* The same for the longest plans, a recreation of a removed repository.
LEMMA LongTuples ==
    ASSUME NEW a, NEW b, NEW c, NEW d, NEW e, NEW g, NEW h
    PROVE  /\ <<a, b, c, d, e, g>> # << >> /\ Head(<<a, b, c, d, e, g>>) = a
           /\ Tail(<<a, b, c, d, e, g>>) = <<b, c, d, e, g>>
           /\ <<a, b, c, d, e, g, h>> # << >> /\ Head(<<a, b, c, d, e, g, h>>) = a
           /\ Tail(<<a, b, c, d, e, g, h>>) = <<b, c, d, e, g, h>>
  OBVIOUS

\* A plan followed by another goes through the first before the second.
LEMMA ChainTail ==
    ASSUME NEW T, NEW s \in Seq(T), s # << >>, NEW r \in Seq(T)
    PROVE  s \o r # << >> /\ Head(s \o r) = Head(s) /\ Tail(s \o r) = Tail(s) \o r
<1>1. s \o r \in Seq(T) /\ Len(s \o r) = Len(s) + Len(r) /\ Len(s) \in Nat /\ Len(r) \in Nat /\ Len(s) > 0
      /\ \A j \in 1..(Len(s) + Len(r)) : (s \o r)[j] = IF j <= Len(s) THEN s[j] ELSE r[j - Len(s)]
  OBVIOUS
<1>2. s \o r # << >>
  BY <1>1
<1>3. Head(s \o r) = Head(s)
  BY <1>1, <1>2
<1> DEFINE t == s \o r
           q == Tail(s) \o r
<1> HIDE DEF t
<1>4. Tail(s) \in Seq(T) /\ Len(Tail(s)) = Len(s) - 1 /\ \A j \in 1..(Len(s) - 1) : Tail(s)[j] = s[j + 1]
  BY <1>1
<1>5. q \in Seq(T) /\ Len(q) = Len(s) - 1 + Len(r)
      /\ \A j \in 1..(Len(s) - 1 + Len(r)) : q[j] = IF j <= Len(s) - 1 THEN s[j + 1] ELSE r[j - (Len(s) - 1)]
  BY <1>1, <1>4
<1>6. Tail(t) \in Seq(T) /\ Len(Tail(t)) = Len(s) + Len(r) - 1
      /\ \A j \in 1..(Len(s) + Len(r) - 1) : Tail(t)[j] = t[j + 1]
  BY <1>1, <1>2 DEF t
<1>7. \A j \in 1..(Len(s) + Len(r) - 1) : t[j + 1] = IF j + 1 <= Len(s) THEN s[j + 1] ELSE r[j + 1 - Len(s)]
  BY <1>1 DEF t
<1> HIDE DEF q
<1>8. \A j \in 1..(Len(s) + Len(r) - 1) : Tail(t)[j] = q[j]
  BY <1>1, <1>5, <1>6, <1>7
<1>9. Tail(t) = q
  BY <1>1, <1>5, <1>6, <1>8, SeqEqual, SMTT(30)
<1> QED BY <1>2, <1>3, <1>9 DEF t, q

\* The same where the first plan is written out.
LEMMA Chains ==
    ASSUME NEW S, NEW r \in Seq(S), NEW a, NEW b, NEW c, NEW d
    PROVE  /\ <<a>> \o r # << >> /\ Head(<<a>> \o r) = a /\ Tail(<<a>> \o r) = r
           /\ <<a, b>> \o r # << >> /\ Head(<<a, b>> \o r) = a /\ Tail(<<a, b>> \o r) = <<b>> \o r
           /\ <<a, b, c>> \o r # << >> /\ Head(<<a, b, c>> \o r) = a /\ Tail(<<a, b, c>> \o r) = <<b, c>> \o r
           /\ <<a, b, c, d>> \o r # << >> /\ Head(<<a, b, c, d>> \o r) = a
           /\ Tail(<<a, b, c, d>> \o r) = <<b, c, d>> \o r
<1> DEFINE T == S \cup {a, b, c, d}
<1>1. r \in Seq(T) /\ a \in T /\ b \in T /\ c \in T /\ d \in T
  OBVIOUS
<1> HIDE DEF T
<1>2. <<a>> \in Seq(T) /\ <<a, b>> \in Seq(T) /\ <<a, b, c>> \in Seq(T) /\ <<a, b, c, d>> \in Seq(T)
  BY <1>1
<1>3. << >> \o r = r
  OBVIOUS
<1>4. <<a>> \o r # << >> /\ Head(<<a>> \o r) = a /\ Tail(<<a>> \o r) = << >> \o r
  <2>1. PICK s \in Seq(T) : s = <<a>>
    BY <1>2
  <2>2. s # << >> /\ Head(s) = a /\ Tail(s) = << >>
    BY <2>1, Tuples
  <2>3. s \o r # << >> /\ Head(s \o r) = Head(s) /\ Tail(s \o r) = Tail(s) \o r
    BY <1>1, <2>2, ChainTail
  <2> QED BY <2>1, <2>2, <2>3
<1>5. <<a, b>> \o r # << >> /\ Head(<<a, b>> \o r) = a /\ Tail(<<a, b>> \o r) = <<b>> \o r
  <2>1. PICK s \in Seq(T) : s = <<a, b>>
    BY <1>2
  <2>2. s # << >> /\ Head(s) = a /\ Tail(s) = <<b>>
    BY <2>1, Tuples
  <2>3. s \o r # << >> /\ Head(s \o r) = Head(s) /\ Tail(s \o r) = Tail(s) \o r
    BY <1>1, <2>2, ChainTail
  <2> QED BY <2>1, <2>2, <2>3
<1>6. <<a, b, c>> \o r # << >> /\ Head(<<a, b, c>> \o r) = a /\ Tail(<<a, b, c>> \o r) = <<b, c>> \o r
  <2>1. PICK s \in Seq(T) : s = <<a, b, c>>
    BY <1>2
  <2>2. s # << >> /\ Head(s) = a /\ Tail(s) = <<b, c>>
    BY <2>1, Tuples
  <2>3. s \o r # << >> /\ Head(s \o r) = Head(s) /\ Tail(s \o r) = Tail(s) \o r
    BY <1>1, <2>2, ChainTail
  <2> QED BY <2>1, <2>2, <2>3
<1>7. <<a, b, c, d>> \o r # << >> /\ Head(<<a, b, c, d>> \o r) = a /\ Tail(<<a, b, c, d>> \o r) = <<b, c, d>> \o r
  <2>1. PICK s \in Seq(T) : s = <<a, b, c, d>>
    BY <1>2
  <2>2. s # << >> /\ Head(s) = a /\ Tail(s) = <<b, c, d>>
    BY <2>1, Tuples
  <2>3. s \o r # << >> /\ Head(s \o r) = Head(s) /\ Tail(s \o r) = Tail(s) \o r
    BY <1>1, <2>2, ChainTail
  <2> QED BY <2>1, <2>2, <2>3
<1> QED BY <1>3, <1>4, <1>5, <1>6, <1>7

----------------------------------------------------------------------------
(* A repository is whole: a removal, and what follows it                   *)

\* What follows a removal is a sequence of steps.
LEMMA RestIsPlan ==
    ASSUME NEW n, NEW i, NEW f, NEW k, NEW m, NEW rest \in Rests(n, i, f, k, m)
    PROVE  \E S : rest \in Seq(S)
<1>1. << >> \in Seq({}) /\ <<Return(i)>> \in Seq({Return(i)})
  OBVIOUS
<1>2. ASSUME NEW a, NEW b, NEW c, NEW d, NEW e, NEW g, NEW h
      PROVE  <<a, b, c, d, e, g, h>> \in Seq({a, b, c, d, e, g, h}) /\ <<a, b, c, d, e, g>> \in Seq({a, b, c, d, e, g})
  OBVIOUS
<1>3. \A id, u : \E S : Create1(n, id, u) \in Seq(S)
  BY <1>2 DEF Create1
<1>4. \A x, id, s : \E S : Rename1(x, n, id, s) \in Seq(S)
  BY <1>2 DEF Rename1
<1>5. \/ rest = << >> \/ rest = <<Return(i)>>
      \/ \E id, u : rest = Create1(n, id, u)
      \/ \E x, id, s : rest = Rename1(x, n, id, s)
  BY DEF Rests, Ends, Creates, Renames
<1>6. CASE rest = << >>
  BY <1>1, <1>6
<1>7. CASE rest = <<Return(i)>>
  BY <1>1, <1>7
<1> QED BY <1>3, <1>4, <1>5, <1>6, <1>7

\* What follows a removal does not depend on the record that is removed.
LEMMA RestKept ==
    ASSUME NEW n, NEW i, NEW f, NEW k, NEW m, NEW rest \in Rests(n, i, f, k, m), NEW m2,
           \A j \in Id : j # i => m2[j] = m[j]
    PROVE  rest \in Rests(n, i, f, k, m2)
<1>1. {j \in Id \ {i} : m2[j] = NoRecord /\ k[j] = NoRecord} = {j \in Id \ {i} : m[j] = NoRecord /\ k[j] = NoRecord}
  OBVIOUS
<1> QED BY <1>1 DEF Rests, Ends, Creates, Renames

\* A record is its name and its state.
LEMMA RecordIs ==
    ASSUME NEW k \in Records, NEW i \in Id, k[i] # NoRecord
    PROVE  k[i] = [name |-> k[i].name, state |-> k[i].state] /\ k[i].name \in Name
<1>1. k[i] \in Record
  BY DEF Records
<1> QED BY <1>1 DEF Record

\* After the removal nothing is left of repository i, and the rest of the plan may start.
LEMMA Cleared ==
    ASSUME NEW c, NEW o, NEW m, NEW f, NEW k \in Records, NEW R, NEW i \in Id, NEW n \in Name,
           NEW rest \in Rests(n, i, f, k, m),
           Sound(c, o, m, R), Current(f, k, m, R, {i}, {n}), Bare(c, o, m, R, n),
           NEW f2, NEW k2,
           \A x \in Name : x # n => f2[x] = f[x],
           \A j \in Id : j # i => k2[j] = k[j],
           k2[i] = NoRecord
    PROVE  OnCourse(rest, c, o, m, f2, k2, R)
<1>1. Current(f2, k2, m, R, {}, {})
  <2>1. Synced(k2, m, R, i)
    BY DEF Synced
  <2>2. \A x \in {n} : x \in R \/ \A j \in Named(m, x) : f2[x] = j
    BY DEF Bare
  <2>3. \A x \in Name : x \notin {n} => f2[x] = f[x]
    OBVIOUS
  <2> QED BY <2>1, <2>2, <2>3, CurrentAgain
<1>2. Settled(c, o, m, f2, k2, R)
  BY <1>1 DEF Settled
<1>3. CASE rest = << >>
  BY <1>2, <1>3 DEF OnCourse
<1>4. CASE rest = <<Return(i)>>
  BY <1>2, <1>4 DEF OnCourse, Returning
<1>5. CASE \E id \in {j \in Id \ {i} : m[j] = NoRecord /\ k[j] = NoRecord}, u \in Subject : rest = Create1(n, id, u)
  <2>1. PICK id \in Id \ {i}, u \in Subject : m[id] = NoRecord /\ k[id] = NoRecord /\ rest = Create1(n, id, u)
    BY <1>5
  <2>2. k2[id] = NoRecord
    BY <2>1
  <2> QED BY <1>1, <2>1, <2>2 DEF OnCourse, Creating
<1>6. CASE \E x \in {y \in Name \ {n} : f[y] \in Id \ {i} /\ k[f[y]].name = y /\ live(k[f[y]].state)} :
              rest = Rename1(x, n, f[x], k[f[x]].state)
  <2>1. PICK x \in Name \ {n} : f[x] \in Id \ {i} /\ k[f[x]].name = x /\ live(k[f[x]].state)
                                /\ rest = Rename1(x, n, f[x], k[f[x]].state)
    BY <1>6
  <2>2. PICK id \in Id \ {i} : id = f[x]
    BY <2>1
  <2>3. PICK s \in {"active", "archived"} : s = k[id].state
    BY <2>1, <2>2 DEF live
  <2>4. k[id] # NoRecord
    BY <2>1, <2>2, NoRecordFields
  <2>5. k2[id] = [name |-> x, state |-> s]
    BY <2>1, <2>2, <2>3, <2>4, RecordIs
  <2>6. rest = Rename1(x, n, id, s) /\ f2[x] = id /\ x # n
    BY <2>1, <2>2, <2>3
  <2> QED BY <1>2, <2>5, <2>6 DEF OnCourse, Renaming, RenamingTo
<1> QED BY <1>3, <1>4, <1>5, <1>6 DEF Rests, Ends, Creates, Renames

\* The record of a name with nothing else stored is removed.
LEMMA Unrecords ==
    ASSUME NEW c, NEW o, NEW m, NEW f, NEW k, NEW R, NEW i \in Id, NEW n \in Name,
           Sound(c, o, m, R), Current(f, k, m, R, {i}, {n}), Bears(m, R, i, n), R \subseteq Name,
           n \in R \/ (c[n] \notin Id /\ o[n] \notin Id),
           NEW m2, m2[i] = NoRecord, \A j \in Id : j # i => m2[j] = m[j]
    PROVE  Sound(c, o, m2, R) /\ Current(f, k, m2, R, {i}, {n}) /\ Bare(c, o, m2, R, n)
<1>1. m2[i].name \notin Name
  BY NoRecordFields, NameAssumption
<1>2. Current(f, k, m2, R, {i}, {n})
  BY <1>1, CurrentRecords
<1>3. Bare(c, o, m2, R, n)
  <2>1. n \notin R => Named(m2, n) = {}
    BY <1>1 DEF Bears, Named
  <2> QED BY <2>1 DEF Bare
<1>4. n \in R \/ Whole(c, o, m2, n)
  BY <1>3, WholeWhenBare DEF Bare
<1>5. \A x \in Name \ R : x # n => m[i].name # x /\ m2[i].name # x
  BY <1>1 DEF Bears
<1> QED BY <1>2, <1>3, <1>4, <1>5, SoundRecords

\* A step of a removal, whether it fails or not.
LEMMA ClearingGoes ==
    ASSUME Inv, Clearing(plan, content, owner, meta, byName, known, residue), Step \/ Fail
    PROVE  OnCourse(plan', content', owner', meta', byName', known', residue') /\ loaded' = loaded
<1>0. PICK n \in Name, i \in Id : \E rest \in Rests(n, i, byName, known, meta) :
          Removing(plan, content, owner, meta, byName, known, residue, n, i, rest)
  BY DEF Clearing
<1>1. PICK rest \in Rests(n, i, byName, known, meta) :
          Removing(plan, content, owner, meta, byName, known, residue, n, i, rest)
  BY <1>0
<1>2. /\ Sound(content, owner, meta, residue) /\ Current(byName, known, meta, residue, {i}, {n})
      /\ \/ /\ Bears(meta, residue, i, n) /\ (n \in residue \/ ~live(meta[i].state))
            /\ \/ plan = <<RemoveAll(n), RemovePolicy(n), removeMeta(i, n), Forget(i, n)>> \o rest
               \/ plan = <<RemovePolicy(n), RemoveAll(n), removeMeta(i, n), Forget(i, n)>> \o rest
               \/ /\ plan = <<RemovePolicy(n), removeMeta(i, n), Forget(i, n)>> \o rest
                  /\ n \in residue \/ content[n] \notin Id
               \/ /\ plan = <<RemoveAll(n), removeMeta(i, n), Forget(i, n)>> \o rest
                  /\ n \in residue \/ owner[n] \notin Id
               \/ /\ plan = <<removeMeta(i, n), Forget(i, n)>> \o rest
                  /\ n \in residue \/ (content[n] \notin Id /\ owner[n] \notin Id)
         \/ /\ plan = <<Forget(i, n)>> \o rest
            /\ Bare(content, owner, meta, residue, n)
            /\ meta[i] = NoRecord \/ {n, meta[i].name} \subseteq residue
  BY <1>1 DEF Removing
<1>3. PICK S : rest \in Seq(S)
  BY RestIsPlan
<1>4. Nobody \notin Id /\ residue \subseteq Name /\ known \in Records
  BY GivenIds DEF Inv, ManagerInv, StoresTyped
<1>6. CASE plan = <<Forget(i, n)>> \o rest /\ Bare(content, owner, meta, residue, n)
  <2>1. plan # << >> /\ Head(plan) = Forget(i, n) /\ Tail(plan) = rest
    BY <1>3, <1>6, Chains
  <2>2. /\ plan' = rest /\ content' = content /\ owner' = owner /\ meta' = meta /\ residue' = residue
        /\ loaded' = loaded
        /\ \A x \in Name : x # n => byName'[x] = byName[x]
        /\ \A j \in Id : j # i => known'[j] = known[j]
        /\ byName'[n] = Nobody /\ known'[i] = NoRecord
    BY <2>1, DoForget
  <2>3. PICK f2, k2 : f2 = byName' /\ k2 = known'
    OBVIOUS
  <2>4. OnCourse(rest, content, owner, meta, f2, k2, residue)
    BY <1>2, <1>4, <1>6, <2>2, <2>3, Cleared
  <2> QED BY <2>2, <2>3, <2>4
<1>5. CASE Bears(meta, residue, i, n) /\ (n \in residue \/ ~live(meta[i].state))
  \* A directory or a policy is removed.
  <2>1. ASSUME Remembered, meta' = meta, residue' \in {residue, residue \cup {n}},
               \A x \in Name : x # n => content'[x] = content[x] /\ owner'[x] = owner[x],
               n \in residue' \/ content'[n] = content[n] \/ content'[n] \notin Id,
               n \in residue' \/ owner'[n] = owner[n] \/ owner'[n] \notin Id,
               \/ plan' = <<RemoveAll(n), removeMeta(i, n), Forget(i, n)>> \o rest
                  /\ (n \in residue' \/ owner'[n] \notin Id)
               \/ plan' = <<RemovePolicy(n), removeMeta(i, n), Forget(i, n)>> \o rest
                  /\ (n \in residue' \/ content'[n] \notin Id)
               \/ plan' = <<removeMeta(i, n), Forget(i, n)>> \o rest
                  /\ (n \in residue' \/ (content'[n] \notin Id /\ owner'[n] \notin Id))
        PROVE  OnCourse(plan', content', owner', meta', byName', known', residue') /\ loaded' = loaded
    <3>1. byName' = byName /\ known' = known /\ loaded' = loaded
      BY <2>1 DEF Remembered
    <3>2. PICK c2, o2, R2, p2 : c2 = content' /\ o2 = owner' /\ R2 = residue' /\ p2 = plan'
      OBVIOUS
    <3>3. /\ Sound(c2, o2, meta, R2) /\ Current(byName, known, meta, R2, {i}, {n}) /\ Bears(meta, R2, i, n)
          /\ n \in R2 \/ ~live(meta[i].state)
      <4>1. ChangesAt(content, owner, residue, c2, o2, R2, i, n)
        BY <2>1, <3>2 DEF ChangesAt
      <4>2. Removable(content, owner, meta, byName, known, residue, i, n)
        BY <1>2, <1>5 DEF Removable
      <4>3. Removable(c2, o2, meta, byName, known, R2, i, n)
        BY <4>1, <4>2, Removes
      <4> QED BY <4>3 DEF Removable
    <3>4. \/ p2 = <<RemoveAll(n), removeMeta(i, n), Forget(i, n)>> \o rest /\ (n \in R2 \/ o2[n] \notin Id)
          \/ p2 = <<RemovePolicy(n), removeMeta(i, n), Forget(i, n)>> \o rest /\ (n \in R2 \/ c2[n] \notin Id)
          \/ p2 = <<removeMeta(i, n), Forget(i, n)>> \o rest /\ (n \in R2 \/ (c2[n] \notin Id /\ o2[n] \notin Id))
      BY <2>1, <3>2
    <3>5. Clearing(p2, c2, o2, meta, byName, known, R2)
      BY <3>3, <3>4 DEF Clearing, Removing
    <3> QED BY <2>1, <3>1, <3>2, <3>5 DEF OnCourse
  <2>2. CASE plan = <<RemoveAll(n), RemovePolicy(n), removeMeta(i, n), Forget(i, n)>> \o rest
    <3>1. plan # << >> /\ Head(plan) = RemoveAll(n) /\ Tail(plan) = <<RemovePolicy(n), removeMeta(i, n), Forget(i, n)>> \o rest
      BY <1>3, <2>2, Chains, SMTT(30)
    <3> QED BY <1>4, <2>1, <3>1, DoRemoveAll
  <2>3. CASE plan = <<RemovePolicy(n), RemoveAll(n), removeMeta(i, n), Forget(i, n)>> \o rest
    <3>1. plan # << >> /\ Head(plan) = RemovePolicy(n) /\ Tail(plan) = <<RemoveAll(n), removeMeta(i, n), Forget(i, n)>> \o rest
      BY <1>3, <2>3, Chains, SMTT(30)
    <3> QED BY <1>4, <2>1, <3>1, DoRemovePolicy
  <2>4. CASE plan = <<RemovePolicy(n), removeMeta(i, n), Forget(i, n)>> \o rest /\ (n \in residue \/ content[n] \notin Id)
    <3>1. plan # << >> /\ Head(plan) = RemovePolicy(n) /\ Tail(plan) = <<removeMeta(i, n), Forget(i, n)>> \o rest
      BY <1>3, <2>4, Chains, SMTT(30)
    <3> QED BY <1>4, <2>1, <2>4, <3>1, DoRemovePolicy
  <2>5. CASE plan = <<RemoveAll(n), removeMeta(i, n), Forget(i, n)>> \o rest /\ (n \in residue \/ owner[n] \notin Id)
    <3>1. plan # << >> /\ Head(plan) = RemoveAll(n) /\ Tail(plan) = <<removeMeta(i, n), Forget(i, n)>> \o rest
      BY <1>3, <2>5, Chains, SMTT(30)
    <3> QED BY <1>4, <2>1, <2>5, <3>1, DoRemoveAll
  <2>6. CASE plan = <<removeMeta(i, n), Forget(i, n)>> \o rest
             /\ (n \in residue \/ (content[n] \notin Id /\ owner[n] \notin Id))
    <3>1. plan # << >> /\ Head(plan) = removeMeta(i, n) /\ Tail(plan) = <<Forget(i, n)>> \o rest
      BY <1>3, <2>6, Chains, SMTT(30)
    <3>2. /\ plan' = Tail(plan) /\ Remembered /\ content' = content /\ owner' = owner
          /\ \A j \in Id : j # i => meta'[j] = meta[j]
          /\ \/ residue' = residue /\ meta'[i] = NoRecord
             \/ residue' = residue \cup {n} /\ meta' = meta
      BY <3>1, DoRemoveMeta
    <3>3. byName' = byName /\ known' = known /\ loaded' = loaded
      BY <3>2 DEF Remembered
    <3>4. PICK m2, R2 : m2 = meta' /\ R2 = residue'
      OBVIOUS
    <3>5. rest \in Rests(n, i, byName, known, m2)
      BY <3>2, <3>4, RestKept
    <3>6. CASE residue' = residue /\ meta'[i] = NoRecord
      <4>1. Sound(content, owner, m2, residue) /\ Current(byName, known, m2, residue, {i}, {n})
            /\ Bare(content, owner, m2, residue, n)
        <5>1. m2[i] = NoRecord /\ \A j \in Id : j # i => m2[j] = meta[j]
          BY <3>2, <3>4, <3>6
        <5> QED BY <1>2, <1>4, <1>5, <2>6, <5>1, Unrecords
      <4>2. Clearing(<<Forget(i, n)>> \o rest, content, owner, m2, byName, known, residue)
        BY <3>4, <3>5, <3>6, <4>1 DEF Clearing, Removing
      <4> QED BY <3>1, <3>2, <3>3, <3>4, <3>6, <4>2 DEF OnCourse
    <3>7. CASE residue' = residue \cup {n} /\ meta' = meta
      <4>1. Sound(content, owner, meta, R2) /\ Current(byName, known, meta, R2, {i}, {n})
            /\ Bears(meta, R2, i, n)
        BY <1>2, <1>5, <3>4, <3>7, FewerPromises
      <4>2. n \in R2 /\ m2 = meta
        BY <3>4, <3>7
      <4>3. Bare(content, owner, meta, R2, n) /\ {n, meta[i].name} \subseteq R2
        BY <4>1, <4>2 DEF Bare, Bears
      <4>4. Clearing(<<Forget(i, n)>> \o rest, content, owner, m2, byName, known, R2)
        BY <3>5, <4>1, <4>2, <4>3 DEF Clearing, Removing
      <4> QED BY <3>1, <3>2, <3>3, <3>4, <4>4 DEF OnCourse
    <3> QED BY <3>2, <3>6, <3>7
  <2>7. CASE plan = <<Forget(i, n)>> \o rest /\ Bare(content, owner, meta, residue, n)
    BY <1>6, <2>7
  <2> QED BY <1>2, <2>2, <2>3, <2>4, <2>5, <2>6, <2>7
<1> QED BY <1>2, <1>5, <1>6

----------------------------------------------------------------------------
(* A repository is whole: Create, Delete, and the end of an operation      *)

\* The index changes about a repository, and a name, that may be removed.
LEMMA RemovableIndex ==
    ASSUME NEW c, NEW o, NEW m, NEW f, NEW k, NEW R, NEW i \in Id, NEW n \in Name,
           Removable(c, o, m, f, k, R, i, n), NEW f2, NEW k2,
           \A x \in Name : x # n => f2[x] = f[x], \A j \in Id : j # i => k2[j] = k[j]
    PROVE  Removable(c, o, m, f2, k2, R, i, n)
<1>1. Current(f2, k2, m, R, {i}, {n})
  <2>1. \A j \in Id \ {i} : Synced(k2, m, R, j)
    BY DEF Removable, Current, Synced
  <2>2. \A x \in Name \ (R \cup {n}) : \A j \in Named(m, x) : f2[x] = j
    BY DEF Removable, Current
  <2> QED BY <2>1, <2>2 DEF Current
<1> QED BY <1>1 DEF Removable

\* The repository may be removed, and only the removal of its record is left.
LEMMA ClearsRecord ==
    ASSUME NEW c, NEW o, NEW m, NEW f, NEW k, NEW R, NEW i \in Id, NEW n \in Name,
           Removable(c, o, m, f, k, R, i, n), NEW p,
           \/ p = <<RemovePolicy(n), RemoveAll(n), removeMeta(i, n), Forget(i, n)>>
           \/ p = <<RemoveAll(n), removeMeta(i, n), Forget(i, n)>> /\ (n \in R \/ o[n] \notin Id)
           \/ p = <<removeMeta(i, n), Forget(i, n)>> /\ (n \in R \/ (c[n] \notin Id /\ o[n] \notin Id))
    PROVE  OnCourse(p, c, o, m, f, k, R)
<1>1. << >> \in Rests(n, i, f, k, m)
  BY DEF Rests, Ends
<1>2. PICK r \in Rests(n, i, f, k, m) : r = << >>
  BY <1>1
<1>3. p = p \o r
  BY <1>2
<1>4. \/ p = <<RemovePolicy(n), RemoveAll(n), removeMeta(i, n), Forget(i, n)>> \o r
      \/ p = <<RemoveAll(n), removeMeta(i, n), Forget(i, n)>> \o r /\ (n \in R \/ o[n] \notin Id)
      \/ p = <<removeMeta(i, n), Forget(i, n)>> \o r /\ (n \in R \/ (c[n] \notin Id /\ o[n] \notin Id))
  BY <1>3
<1>5. Clearing(p, c, o, m, f, k, R)
  BY <1>4 DEF Clearing, Removing, Removable
<1> QED BY <1>5 DEF OnCourse

\* The three rollbacks of a creation that fails, written out.
LEMMA RollbackIs ==
    ASSUME NEW i, NEW n
    PROVE  /\ rollback(i, n, TRUE, TRUE) = <<RemovePolicy(n), RemoveAll(n), removeMeta(i, n), Forget(i, n)>>
           /\ rollback(i, n, TRUE, FALSE) = <<RemoveAll(n), removeMeta(i, n), Forget(i, n)>>
           /\ rollback(i, n, FALSE, FALSE) = <<removeMeta(i, n), Forget(i, n)>>
<1>1. ASSUME NEW a, NEW b, NEW c, NEW d
      PROVE  /\ <<a>> \o <<b>> \o <<c, d>> = <<a, b, c, d>>
             /\ << >> \o <<b>> \o <<c, d>> = <<b, c, d>>
             /\ << >> \o << >> \o <<c, d>> = <<c, d>>
  <2>1. <<a>> \o <<b>> = <<a, b>>
    <3> DEFINE s == <<a>> \o <<b>>
               t == <<a, b>>
    <3>1. s \in Seq({a, b, c, d}) /\ t \in Seq({a, b, c, d}) /\ Len(s) = 2 /\ Len(t) = 2
      OBVIOUS
    <3>2. \A j \in 1..2 : s[j] = t[j]
      OBVIOUS
    <3> HIDE DEF s, t
    <3>3. s = t
      BY <3>1, <3>2, SeqEqual
    <3> QED BY <3>3 DEF s, t
  <2>2. << >> \o <<b>> = <<b>> /\ << >> \o << >> = << >>
    OBVIOUS
  <2>3. <<a, b>> \o <<c, d>> = <<a, b, c, d>>
    <3> DEFINE s == <<a, b>> \o <<c, d>>
               t == <<a, b, c, d>>
    <3>1. s \in Seq({a, b, c, d}) /\ t \in Seq({a, b, c, d}) /\ Len(s) = 4 /\ Len(t) = 4
      OBVIOUS
    <3>2. \A j \in 1..4 : s[j] = t[j]
      OBVIOUS
    <3> HIDE DEF s, t
    <3>3. s = t
      BY <3>1, <3>2, SeqEqual
    <3> QED BY <3>3 DEF s, t
  <2>4. <<b>> \o <<c, d>> = <<b, c, d>>
    <3> DEFINE s == <<b>> \o <<c, d>>
               t == <<b, c, d>>
    <3>1. s \in Seq({a, b, c, d}) /\ t \in Seq({a, b, c, d}) /\ Len(s) = 3 /\ Len(t) = 3
      OBVIOUS
    <3>2. \A j \in 1..3 : s[j] = t[j]
      OBVIOUS
    <3> HIDE DEF s, t
    <3>3. s = t
      BY <3>1, <3>2, SeqEqual
    <3> QED BY <3>3 DEF s, t
  <2>5. << >> \o <<c, d>> = <<c, d>>
    OBVIOUS
  <2> QED BY <2>1, <2>2, <2>3, <2>4, <2>5, Zenon
<1> QED BY <1>1 DEF rollback

\* The first record of a repository.
LEMMA Records1 ==
    ASSUME NEW c, NEW o, NEW m, NEW f, NEW k, NEW R, NEW i \in Id, NEW n \in Name,
           Sound(c, o, m, R), Current(f, k, m, R, {}, {}), Bare(c, o, m, R, n), m[i] = NoRecord,
           NEW m2, m2[i] = [name |-> n, state |-> "creating"], \A j \in Id : j # i => m2[j] = m[j]
    PROVE  Removable(c, o, m2, f, k, R, i, n)
<1>1. m[i].name \notin Name
  BY NoRecordFields, NameAssumption
<1>2. m2[i].name = n /\ ~live(m2[i].state) /\ m2[i] # NoRecord
  <2>1. m2[i].name = n
    OBVIOUS
  <2>2. m2[i].state = "creating"
    OBVIOUS
  <2>3. ~live(m2[i].state)
    BY <2>2 DEF live
  <2>4. m2[i] # NoRecord
    BY <2>2, NoRecordFields
  <2> QED BY <2>1, <2>3, <2>4
<1>3. n \in R \/ Named(m2, n) \subseteq {i}
  BY DEF Bare, Named
<1>4. n \in R \/ Whole(c, o, m2, n)
  BY <1>2, <1>3, WholeWhenUnborn DEF Bare
<1>5. Sound(c, o, m2, R)
  <2>1. \A x \in Name \ R : x # n => m[i].name # x /\ m2[i].name # x
    BY <1>1, <1>2
  <2> QED BY <1>4, <2>1, SoundRecords
<1>6. Current(f, k, m, R, {i}, {n})
  BY DEF Current
<1>7. Current(f, k, m2, R, {i}, {n})
  BY <1>2, <1>6, CurrentRecords
<1> QED BY <1>2, <1>3, <1>5, <1>7 DEF Removable, Bears

\* The repository that was made becomes live.
LEMMA Records6 ==
    ASSUME NEW c, NEW o, NEW m, NEW f, NEW k, NEW R, NEW i \in Id, NEW n \in Name,
           Removable(c, o, m, f, k, R, i, n), m[i].name = n, n \in R \/ (c[n] = i /\ o[n] = i),
           f[n] = i, NEW m2, m2[i] = k[i], k[i].name = n, \A j \in Id : j # i => m2[j] = m[j]
    PROVE  Settled(c, o, m2, f, k, R)
<1>1. Named(m2, n) = Named(m, n)
  BY DEF Named
<1>2. n \in R \/ Whole(c, o, m2, n)
  <2> SUFFICES ASSUME n \notin R PROVE Whole(c, o, m2, n)
    OBVIOUS
  <2>1. Named(m2, n) = {i}
    BY <1>1 DEF Removable, Bears, Named
  <2> QED BY <2>1 DEF Whole
<1>3. Sound(c, o, m2, R)
  <2>1. \A x \in Name \ R : x # n => m[i].name # x /\ m2[i].name # x
    OBVIOUS
  <2> QED BY <1>2, <2>1, SoundRecords DEF Removable
<1>4. Current(f, k, m2, R, {i}, {n})
  BY CurrentRecords, ZenonT(30) DEF Removable
<1>5. Current(f, k, m2, R, {}, {})
  <2>1. Synced(k, m2, R, i)
    BY DEF Synced
  <2>2. n \in R \/ \A j \in Named(m2, n) : f[n] = j
    BY <1>1 DEF Removable, Bears
  <2>3. \A x \in {n} : x \in R \/ \A j \in Named(m2, x) : f[x] = j
    BY <2>2
  <2> QED BY <1>4, <2>1, <2>3, CurrentAgain
<1> QED BY <1>3, <1>5 DEF Settled

\* An operation that returns leaves everything settled.
LEMMA ReturningGoes ==
    ASSUME Inv, Returning(plan, content, owner, meta, byName, known, residue), Step \/ Fail
    PROVE  OnCourse(plan', content', owner', meta', byName', known', residue') /\ loaded' = loaded
<1>1. PICK id \in Id : plan = <<Return(id)>> /\ Settled(content, owner, meta, byName, known, residue)
  BY DEF Returning
<1>2. plan # << >> /\ Head(plan) = Return(id)
  BY <1>1, Tuples
<1>3. /\ plan' = << >> /\ content' = content /\ owner' = owner /\ meta' = meta /\ residue' = residue
      /\ Remembered
  BY <1>2, DoReturn
<1> QED BY <1>1, <1>3 DEF OnCourse, Remembered

\* The plan of Create, step by step.
LEMMA CreateTails ==
    ASSUME NEW n, NEW id, NEW u
    PROVE  /\ Create1(n, id, u) # << >> /\ Head(Create1(n, id, u)) = writeMeta(id, n, "creating", << >>)
           /\ Tail(Create1(n, id, u)) = Create2(n, id, u)
           /\ Create2(n, id, u) # << >> /\ Head(Create2(n, id, u)) = Remember(id, n, "creating")
           /\ Tail(Create2(n, id, u)) = Create3(n, id, u)
           /\ Create3(n, id, u) # << >>
           /\ Head(Create3(n, id, u)) = InitContent(n, id, rollback(id, n, FALSE, FALSE))
           /\ Tail(Create3(n, id, u)) = Create4(n, id, u)
           /\ Create4(n, id, u) # << >>
           /\ Head(Create4(n, id, u)) = WritePolicy(n, id, u, rollback(id, n, TRUE, FALSE))
           /\ Tail(Create4(n, id, u)) = Create5(n, id)
           /\ Create5(n, id) # << >> /\ Head(Create5(n, id)) = Remember(id, n, "active")
           /\ Tail(Create5(n, id)) = Create6(n, id)
           /\ Create6(n, id) # << >>
           /\ Head(Create6(n, id)) = writeMeta(id, n, "active", rollback(id, n, TRUE, TRUE))
           /\ Tail(Create6(n, id)) = <<Return(id)>>
<1> DEFINE a == writeMeta(id, n, "creating", << >>)
           b == Remember(id, n, "creating")
           c == InitContent(n, id, rollback(id, n, FALSE, FALSE))
           d == WritePolicy(n, id, u, rollback(id, n, TRUE, FALSE))
           e == Remember(id, n, "active")
           g == writeMeta(id, n, "active", rollback(id, n, TRUE, TRUE))
           h == Return(id)
<1>1. /\ Create1(n, id, u) = <<a, b, c, d, e, g, h>> /\ Create2(n, id, u) = <<b, c, d, e, g, h>>
      /\ Create3(n, id, u) = <<c, d, e, g, h>> /\ Create4(n, id, u) = <<d, e, g, h>>
      /\ Create5(n, id) = <<e, g, h>> /\ Create6(n, id) = <<g, h>>
  BY Zenon DEF Create1, Create2, Create3, Create4, Create5, Create6
<1> HIDE DEF a, b, c, d, e, g, h
<1>2. /\ Create1(n, id, u) # << >> /\ Head(Create1(n, id, u)) = a /\ Tail(Create1(n, id, u)) = Create2(n, id, u)
      /\ Create2(n, id, u) # << >> /\ Head(Create2(n, id, u)) = b /\ Tail(Create2(n, id, u)) = Create3(n, id, u)
  BY <1>1, LongTuples
<1>3. /\ Create3(n, id, u) # << >> /\ Head(Create3(n, id, u)) = c /\ Tail(Create3(n, id, u)) = Create4(n, id, u)
      /\ Create4(n, id, u) # << >> /\ Head(Create4(n, id, u)) = d /\ Tail(Create4(n, id, u)) = Create5(n, id)
      /\ Create5(n, id) # << >> /\ Head(Create5(n, id)) = e /\ Tail(Create5(n, id)) = Create6(n, id)
      /\ Create6(n, id) # << >> /\ Head(Create6(n, id)) = g /\ Tail(Create6(n, id)) = <<h>>
  BY <1>1, Tuples
<1> QED BY <1>2, <1>3, Zenon DEF a, b, c, d, e, g, h

\* Before its first record a repository is nowhere.
LEMMA Create1Goes ==
    ASSUME Inv, NEW n \in Name, NEW id \in Id, NEW u \in Subject, plan = Create1(n, id, u),
           Sound(content, owner, meta, residue),
           Current(byName, known, meta, residue, {}, {}), Bare(content, owner, meta, residue, n),
           meta[id] = NoRecord, Step \/ Fail
    PROVE  OnCourse(plan', content', owner', meta', byName', known', residue') /\ loaded' = loaded
<1>0. PICK s, e : s = "creating" /\ e = << >>
  OBVIOUS
<1>1. plan # << >> /\ Head(plan) = writeMeta(id, n, s, e) /\ Tail(plan) = Create2(n, id, u)
  BY <1>0, CreateTails, Zenon
<1>2. /\ Remembered /\ content' = content /\ owner' = owner
      /\ WritesRecord(id, n, s) \/ FailsRecord(id, n, s, e)
  BY <1>1, DoWriteMeta
<1>3. byName' = byName /\ known' = known /\ loaded' = loaded
  BY <1>2 DEF Remembered
<1>4. CASE plan' = << >> /\ meta' = meta /\ residue' = residue
  BY <1>2, <1>3, <1>4 DEF OnCourse, Settled
<1>5. CASE WritesRecord(id, n, s)
  <2>1. PICK m2 : m2 = meta'
    OBVIOUS
  <2>2. m2[id] = [name |-> n, state |-> "creating"] /\ \A j \in Id : j # id => m2[j] = meta[j]
    BY <1>0, <1>5, <2>1 DEF WritesRecord
  <2>3. Removable(content, owner, m2, byName, known, residue, id, n)
    BY <2>2, Records1
  <2>4. Creating(Create2(n, id, u), content, owner, m2, byName, known, residue)
    BY <2>2, <2>3 DEF Creating, Removable, Bare
  <2>5. plan' = Create2(n, id, u) /\ residue' = residue
    BY <1>1, <1>5 DEF WritesRecord
  <2> QED BY <1>2, <1>3, <2>1, <2>4, <2>5 DEF OnCourse
<1>6. meta[id].name = ""
  BY NoRecordFields
<1>7. residue \cup (IF meta[id].name \notin {"", n} THEN {meta[id].name, n}
                    ELSE IF s = "deleting" THEN {n} ELSE {}) = residue
  BY <1>0, <1>6
<1> QED BY <1>0, <1>2, <1>4, <1>5, <1>7 DEF FailsRecord

\* The repository that is being created, between its two records.
Made(c, o, m, f, k, R, id, n) ==
    /\ Removable(c, o, m, f, k, R, id, n)
    /\ m[id] = [name |-> n, state |-> "creating"]

\* The steps between the two records.
Makes(p, c, o, m, f, k, R, n, id, u) ==
    /\ Made(c, o, m, f, k, R, id, n)
    /\ \/ p \in {Create2(n, id, u), Create3(n, id, u)} /\ (n \in R \/ (c[n] \notin Id /\ o[n] \notin Id))
       \/ p = Create4(n, id, u) /\ (n \in R \/ (c[n] = id /\ o[n] \notin Id))
       \/ p = Create5(n, id) /\ (n \in R \/ (c[n] = id /\ o[n] = id))
       \/ /\ p = Create6(n, id) /\ (n \in R \/ (c[n] = id /\ o[n] = id))
          /\ f[n] = id /\ k[id] = [name |-> n, state |-> "active"]

\* A creation under way is on course, and it can be rolled back.
LEMMA MakesCreating ==
    ASSUME NEW p, NEW c, NEW o, NEW m, NEW f, NEW k, NEW R, NEW n \in Name, NEW id \in Id, NEW u \in Subject
    PROVE  /\ Makes(p, c, o, m, f, k, R, n, id, u) => OnCourse(p, c, o, m, f, k, R)
           /\ /\ Sound(c, o, m, R) /\ Current(f, k, m, R, {id}, {n})
              /\ m[id] = [name |-> n, state |-> "creating"] /\ Bears(m, R, id, n)
              => Made(c, o, m, f, k, R, id, n)
<1>1. Makes(p, c, o, m, f, k, R, n, id, u) => Creating(p, c, o, m, f, k, R)
  BY DEF Makes, Made, Removable, Creating
<1>2. m[id] = [name |-> n, state |-> "creating"] => m[id].state = "creating" /\ ~live(m[id].state)
  BY DEF live
<1> QED BY <1>1, <1>2 DEF OnCourse, Made, Removable

\* Every step of a creation, failed or not, stays on course.
LEMMA MakesGoes ==
    ASSUME Inv, NEW n \in Name, NEW id \in Id, NEW u \in Subject,
           Makes(plan, content, owner, meta, byName, known, residue, n, id, u), Step \/ Fail
    PROVE  OnCourse(plan', content', owner', meta', byName', known', residue') /\ loaded' = loaded
<1>0. Made(content, owner, meta, byName, known, residue, id, n)
  BY DEF Makes
<1>r. Removable(content, owner, meta, byName, known, residue, id, n)
      /\ meta[id] = [name |-> n, state |-> "creating"] /\ meta[id].name = n
  BY <1>0 DEF Made
<1>1. CASE plan = Create2(n, id, u) /\ (n \in residue \/ (content[n] \notin Id /\ owner[n] \notin Id))
  <2>0. PICK s : s = "creating"
    OBVIOUS
  <2>1. plan # << >> /\ Head(plan) = Remember(id, n, s) /\ Tail(plan) = Create3(n, id, u)
    BY <1>1, <2>0, CreateTails, Zenon
  <2>2. /\ plan' = Tail(plan) /\ content' = content /\ owner' = owner /\ meta' = meta /\ residue' = residue
        /\ loaded' = loaded
        /\ \A x \in Name : x # n => byName'[x] = byName[x]
        /\ \A j \in Id : j # id => known'[j] = known[j]
    <3>1. Remembers(id, n, s)
      BY <2>1, DoRemember
    <3> QED BY <3>1 DEF Remembers
  <2>3. PICK f2, k2 : f2 = byName' /\ k2 = known'
    OBVIOUS
  <2>4. Removable(content, owner, meta, f2, k2, residue, id, n)
    BY <1>r, <2>2, <2>3, RemovableIndex
  <2>5. Makes(Create3(n, id, u), content, owner, meta, f2, k2, residue, n, id, u)
    BY <1>1, <1>r, <2>4 DEF Makes, Made
  <2> QED BY <2>1, <2>2, <2>3, <2>5, MakesCreating
<1>2. CASE plan = Create3(n, id, u) /\ (n \in residue \/ (content[n] \notin Id /\ owner[n] \notin Id))
  <2> DEFINE e == rollback(id, n, FALSE, FALSE)
  <2>1. plan # << >> /\ Head(plan) = InitContent(n, id, e) /\ Tail(plan) = Create4(n, id, u)
    BY <1>2, CreateTails, Zenon
  <2> HIDE DEF e
  <2>2. /\ Remembered /\ meta' = meta /\ owner' = owner /\ residue' = residue
        /\ \A x \in Name : x # n => content'[x] = content[x]
        /\ \/ plan' = Tail(plan) /\ (content[n] \notin Id => content'[n] = id)
           \/ plan' = e /\ (content[n] \notin Id => content'[n] \notin Id)
    BY <2>1, DoInit
  <2>3. byName' = byName /\ known' = known /\ loaded' = loaded
    BY <2>2 DEF Remembered
  <2>4. PICK c2 : c2 = content'
    OBVIOUS
  <2>5. ChangesAt(content, owner, residue, c2, owner, residue, id, n)
    BY <1>2, <2>2, <2>4 DEF ChangesAt
  <2>6. Removable(c2, owner, meta, byName, known, residue, id, n)
    BY <1>r, <2>5, Removes
  <2>7. CASE plan' = Tail(plan) /\ (content[n] \notin Id => content'[n] = id)
    <3>1. Makes(Create4(n, id, u), c2, owner, meta, byName, known, residue, n, id, u)
      BY <1>2, <1>r, <2>4, <2>6, <2>7 DEF Makes, Made
    <3> QED BY <2>1, <2>2, <2>3, <2>4, <2>7, <3>1, MakesCreating
  <2>8. CASE plan' = e /\ (content[n] \notin Id => content'[n] \notin Id)
    <3>1. e = <<removeMeta(id, n), Forget(id, n)>>
      BY RollbackIs DEF e
    <3>2. n \in residue \/ (c2[n] \notin Id /\ owner[n] \notin Id)
      BY <1>2, <2>4, <2>8
    <3>3. OnCourse(e, c2, owner, meta, byName, known, residue)
      BY <2>6, <3>1, <3>2, ClearsRecord
    <3> QED BY <2>2, <2>3, <2>4, <2>8, <3>3
  <2> QED BY <2>2, <2>7, <2>8
<1>3. CASE plan = Create4(n, id, u) /\ (n \in residue \/ (content[n] = id /\ owner[n] \notin Id))
  <2> DEFINE e == rollback(id, n, TRUE, FALSE)
  <2>1. plan # << >> /\ Head(plan) = WritePolicy(n, id, u, e) /\ Tail(plan) = Create5(n, id)
    BY <1>3, CreateTails, Zenon
  <2> HIDE DEF e
  <2>2. /\ Remembered /\ meta' = meta /\ content' = content /\ residue' = residue
        /\ \/ plan' = Tail(plan) /\ owner'[n] = id /\ \A x \in Name : x # n => owner'[x] = owner[x]
           \/ plan' = e /\ owner' = owner
    BY <2>1, DoWritePolicy
  <2>3. byName' = byName /\ known' = known /\ loaded' = loaded
    BY <2>2 DEF Remembered
  <2>7. CASE plan' = Tail(plan) /\ owner'[n] = id /\ \A x \in Name : x # n => owner'[x] = owner[x]
    <3>1. PICK o2 : o2 = owner'
      OBVIOUS
    <3>2. ChangesAt(content, owner, residue, content, o2, residue, id, n)
      BY <2>7, <3>1 DEF ChangesAt
    <3>3. Removable(content, o2, meta, byName, known, residue, id, n)
      BY <1>r, <3>2, Removes
    <3>4. Makes(Create5(n, id), content, o2, meta, byName, known, residue, n, id, u)
      BY <1>3, <1>r, <2>7, <3>1, <3>3 DEF Makes, Made
    <3> QED BY <2>1, <2>2, <2>3, <2>7, <3>1, <3>4, MakesCreating
  <2>8. CASE plan' = e /\ owner' = owner
    <3>1. e = <<RemoveAll(n), removeMeta(id, n), Forget(id, n)>>
      BY RollbackIs DEF e
    <3>2. OnCourse(e, content, owner, meta, byName, known, residue)
      BY <1>3, <1>r, <3>1, ClearsRecord
    <3> QED BY <2>2, <2>3, <2>8, <3>2
  <2> QED BY <2>2, <2>7, <2>8
<1>4. CASE plan = Create5(n, id) /\ (n \in residue \/ (content[n] = id /\ owner[n] = id))
  <2>0. PICK s : s = "active"
    OBVIOUS
  <2>1. plan # << >> /\ Head(plan) = Remember(id, n, s) /\ Tail(plan) = Create6(n, id)
    BY <1>4, <2>0, CreateTails, Zenon
  <2>2. /\ plan' = Tail(plan) /\ content' = content /\ owner' = owner /\ meta' = meta /\ residue' = residue
        /\ loaded' = loaded
        /\ \A x \in Name : x # n => byName'[x] = byName[x]
        /\ \A j \in Id : j # id => known'[j] = known[j]
        /\ byName'[n] = id /\ known'[id] = [name |-> n, state |-> s]
    <3>1. Remembers(id, n, s)
      BY <2>1, DoRemember
    <3> QED BY <3>1 DEF Remembers
  <2>3. PICK f2, k2 : f2 = byName' /\ k2 = known'
    OBVIOUS
  <2>4. Removable(content, owner, meta, f2, k2, residue, id, n)
    BY <1>r, <2>2, <2>3, RemovableIndex
  <2>5. Makes(Create6(n, id), content, owner, meta, f2, k2, residue, n, id, u)
    BY <1>4, <1>r, <2>0, <2>2, <2>3, <2>4 DEF Makes, Made
  <2> QED BY <2>1, <2>2, <2>3, <2>5, MakesCreating
<1>5. CASE /\ plan = Create6(n, id) /\ (n \in residue \/ (content[n] = id /\ owner[n] = id))
           /\ byName[n] = id /\ known[id] = [name |-> n, state |-> "active"]
  <2> DEFINE e == rollback(id, n, TRUE, TRUE)
  <2>0. PICK s : s = "active"
    OBVIOUS
  <2>1. plan # << >> /\ Head(plan) = writeMeta(id, n, s, e) /\ Tail(plan) = <<Return(id)>>
    BY <1>5, <2>0, CreateTails, Zenon
  <2> HIDE DEF e
  <2>2. /\ Remembered /\ content' = content /\ owner' = owner
        /\ WritesRecord(id, n, s) \/ FailsRecord(id, n, s, e)
    BY <2>1, DoWriteMeta
  <2>3. byName' = byName /\ known' = known /\ loaded' = loaded
    BY <2>2 DEF Remembered
  <2>4. residue \cup (IF meta[id].name \notin {"", n} THEN {meta[id].name, n}
                      ELSE IF s = "deleting" THEN {n} ELSE {}) = residue
    BY <1>r, <2>0
  <2>5. CASE WritesRecord(id, n, s)
    <3>1. PICK m2 : m2 = meta'
      OBVIOUS
    <3>2. m2[id] = known[id] /\ known[id].name = n /\ \A j \in Id : j # id => m2[j] = meta[j]
      BY <1>5, <2>0, <2>5, <3>1 DEF WritesRecord
    <3>3. Settled(content, owner, m2, byName, known, residue)
      BY <1>5, <1>r, <3>2, Records6
    <3>4. plan' = <<Return(id)>> /\ residue' = residue
      BY <2>1, <2>5 DEF WritesRecord
    <3> QED BY <2>2, <2>3, <3>1, <3>3, <3>4 DEF OnCourse, Returning
  <2>6. CASE plan' = e /\ meta' = meta /\ residue' = residue
    <3>1. e = <<RemovePolicy(n), RemoveAll(n), removeMeta(id, n), Forget(id, n)>>
      BY RollbackIs DEF e
    <3>2. OnCourse(e, content, owner, meta, byName, known, residue)
      BY <1>r, <3>1, ClearsRecord
    <3> QED BY <2>2, <2>3, <2>6, <3>2
  <2> QED BY <2>2, <2>4, <2>5, <2>6 DEF FailsRecord
<1> QED BY <1>1, <1>2, <1>3, <1>4, <1>5 DEF Makes

\* A creation is before its first record, or between its two records.
LEMMA CreatingIs ==
    ASSUME NEW p, NEW c, NEW o, NEW m, NEW f, NEW k, NEW R, Creating(p, c, o, m, f, k, R)
    PROVE  \E n \in Name, id \in Id, u \in Subject :
             /\ Sound(c, o, m, R)
             /\ \/ /\ p = Create1(n, id, u)
                   /\ Current(f, k, m, R, {}, {}) /\ Bare(c, o, m, R, n)
                   /\ m[id] = NoRecord
                \/ Makes(p, c, o, m, f, k, R, n, id, u)
<1>1. PICK n \in Name, id \in Id, u \in Subject :
      /\ Sound(c, o, m, R)
      /\ \/ /\ p = Create1(n, id, u)
            /\ Current(f, k, m, R, {}, {}) /\ Bare(c, o, m, R, n)
            /\ m[id] = NoRecord /\ k[id] = NoRecord
         \/ /\ Current(f, k, m, R, {id}, {n})
            /\ m[id] = [name |-> n, state |-> "creating"] /\ Bears(m, R, id, n)
            /\ \/ /\ p \in {Create2(n, id, u), Create3(n, id, u)}
                  /\ n \in R \/ (c[n] \notin Id /\ o[n] \notin Id)
               \/ p = Create4(n, id, u) /\ (n \in R \/ (c[n] = id /\ o[n] \notin Id))
               \/ p = Create5(n, id) /\ (n \in R \/ (c[n] = id /\ o[n] = id))
               \/ /\ p = Create6(n, id) /\ (n \in R \/ (c[n] = id /\ o[n] = id))
                  /\ f[n] = id /\ k[id] = [name |-> n, state |-> "active"]
  BY DEF Creating
<1> QED BY <1>1, MakesCreating DEF Makes

\* A step of a creation.
LEMMA CreatingGoes ==
    ASSUME Inv, Creating(plan, content, owner, meta, byName, known, residue), Step \/ Fail
    PROVE  OnCourse(plan', content', owner', meta', byName', known', residue') /\ loaded' = loaded
<1>1. PICK n \in Name, id \in Id, u \in Subject :
          /\ Sound(content, owner, meta, residue)
          /\ \/ /\ plan = Create1(n, id, u)
                /\ Current(byName, known, meta, residue, {}, {}) /\ Bare(content, owner, meta, residue, n)
                /\ meta[id] = NoRecord
             \/ Makes(plan, content, owner, meta, byName, known, residue, n, id, u)
  BY CreatingIs
<1> QED BY <1>1, Create1Goes, MakesGoes

----------------------------------------------------------------------------

\* The tombstone is on disk.
LEMMA Entombs ==
    ASSUME NEW c, NEW o, NEW m, NEW f, NEW k, NEW R, NEW i \in Id, NEW n \in Name,
           Sound(c, o, m, R), Bears(m, R, i, n), Current(f, k, m, R, {i}, {n}),
           NEW m2, m2[i] = [name |-> n, state |-> "deleting"], \A j \in Id : j # i => m2[j] = m[j]
    PROVE  Removable(c, o, m2, f, k, R, i, n)
<1>1. m2[i].name = n /\ m2[i].state = "deleting"
  OBVIOUS
<1>2. ~live(m2[i].state) /\ m2[i] # NoRecord
  BY <1>1, NoRecordFields DEF live
<1>3. n \notin R => Named(m2, n) = Named(m, n)
  BY <1>1 DEF Named, Bears
<1>4. Bears(m2, R, i, n)
  BY <1>1, <1>2, <1>3 DEF Bears
<1>5. n \in R \/ Whole(c, o, m2, n)
  <2> SUFFICES ASSUME n \notin R PROVE Whole(c, o, m2, n)
    OBVIOUS
  <2>1. Named(m2, n) \subseteq {i} /\ Whole(c, o, m, n)
    BY <1>4 DEF Bears, Sound
  <2> QED BY <1>2, <1>3, <2>1, WholeWhenUnborn DEF Whole
<1>6. Sound(c, o, m2, R)
  <2>1. \A x \in Name \ R : x # n => m[i].name # x /\ m2[i].name # x
    BY <1>1 DEF Bears
  <2> QED BY <1>5, <2>1, SoundRecords
<1>7. Current(f, k, m2, R, {i}, {n})
  BY <1>1, CurrentRecords
<1> QED BY <1>2, <1>4, <1>6, <1>7 DEF Removable

\* A tombstone that the index has and the disk has not.
LEMMA Unentombed ==
    ASSUME NEW c, NEW o, NEW m, NEW f, NEW k, NEW R, NEW i \in Id, NEW n \in Name,
           Sound(c, o, m, R), Current(f, k, m, R, {i}, {n}), k[i].name = n,
           NEW R2, R \subseteq R2, n \in R2, m[i].name \in R2
    PROVE  Settled(c, o, m, f, k, R2)
<1>3. Sound(c, o, m, R2) /\ Current(f, k, m, R2, {i}, {n})
  BY FewerPromises
<1>4. Synced(k, m, R2, i)
  BY DEF Synced
<1>5. \A x \in {n} : x \in R2 \/ \A j \in Named(m, x) : f[x] = j
  OBVIOUS
<1>6. Current(f, k, m, R2, {}, {})
  BY <1>3, <1>4, <1>5, CurrentAgain
<1> QED BY <1>3, <1>6 DEF Settled

\* A step of a deletion before anything is removed.
LEMMA DeletingGoes ==
    ASSUME Inv, Deleting(plan, content, owner, meta, byName, known, residue), Step \/ Fail
    PROVE  OnCourse(plan', content', owner', meta', byName', known', residue') /\ loaded' = loaded
<1>1. PICK n \in Name, i \in Id :
        /\ Sound(content, owner, meta, residue) /\ Bears(meta, residue, i, n)
        /\ Current(byName, known, meta, residue, {i}, {n})
        /\ \/ plan = <<Remember(i, n, "deleting"), writeMeta(i, n, "deleting", << >>)>> \o (purge(i, n) \o <<Return(i)>>)
           \/ /\ plan = <<writeMeta(i, n, "deleting", << >>)>> \o (purge(i, n) \o <<Return(i)>>)
              /\ byName[n] = i /\ known[i] = [name |-> n, state |-> "deleting"]
  BY DEF Deleting
<1>0. PICK s, e : s = "deleting" /\ e = << >>
  OBVIOUS
<1> DEFINE t == purge(i, n) \o <<Return(i)>>
           w == writeMeta(i, n, s, e)
<1>2. PICK S : t \in Seq(S)
  <2> DEFINE T == {RemoveAll(n), RemovePolicy(n), removeMeta(i, n), Forget(i, n), Return(i)}
  <2>1. purge(i, n) \in Seq(T) /\ <<Return(i)>> \in Seq(T)
    BY DEF purge
  <2> HIDE DEF T
  <2>2. t \in Seq(T)
    BY <2>1
  <2> QED BY <2>2
<1> HIDE DEF t
<1>3. CASE plan = <<Remember(i, n, s), w>> \o t
  <2>1. plan # << >> /\ Head(plan) = Remember(i, n, s) /\ Tail(plan) = <<w>> \o t
    BY <1>2, <1>3, Chains
  <2>2. /\ plan' = Tail(plan) /\ content' = content /\ owner' = owner /\ meta' = meta /\ residue' = residue
        /\ loaded' = loaded
        /\ \A x \in Name : x # n => byName'[x] = byName[x]
        /\ \A j \in Id : j # i => known'[j] = known[j]
        /\ byName'[n] = i /\ known'[i] = [name |-> n, state |-> s]
    <3>1. Remembers(i, n, s)
      BY <2>1, DoRemember
    <3> QED BY <3>1 DEF Remembers
  <2>3. PICK f2, k2 : f2 = byName' /\ k2 = known'
    OBVIOUS
  <2>4. Current(f2, k2, meta, residue, {i}, {n})
    <3>1. \A j \in Id : j \notin {i} => k2[j] = known[j]
      BY <2>2, <2>3
    <3>2. \A x \in Name : x \notin {n} => f2[x] = byName[x]
      BY <2>2, <2>3
    <3> QED BY <1>1, <3>1, <3>2, CurrentElsewhere
  <2>5. Deleting(<<w>> \o t, content, owner, meta, f2, k2, residue)
    <3>1. f2[n] = i /\ k2[i] = [name |-> n, state |-> "deleting"]
      BY <1>0, <2>2, <2>3
    <3>2. <<w>> \o t = <<writeMeta(i, n, "deleting", << >>)>> \o (purge(i, n) \o <<Return(i)>>)
      BY <1>0, Zenon DEF t
    <3> QED BY <1>1, <2>4, <3>1, <3>2 DEF Deleting
  <2> QED BY <2>1, <2>2, <2>3, <2>5 DEF OnCourse
<1>4. CASE plan = <<w>> \o t /\ byName[n] = i /\ known[i] = [name |-> n, state |-> "deleting"]
  <2>1. plan # << >> /\ Head(plan) = w /\ Tail(plan) = t
    BY <1>2, <1>4, Chains
  <2>2. /\ Remembered /\ content' = content /\ owner' = owner
        /\ WritesRecord(i, n, s) \/ FailsRecord(i, n, s, e)
    BY <2>1, DoWriteMeta
  <2>3. byName' = byName /\ known' = known /\ loaded' = loaded
    BY <2>2 DEF Remembered
  <2>4. CASE WritesRecord(i, n, s)
    <3>1. PICK m2 : m2 = meta'
      OBVIOUS
    <3>2. m2[i] = [name |-> n, state |-> "deleting"] /\ \A j \in Id : j # i => m2[j] = meta[j]
      BY <1>0, <2>4, <3>1 DEF WritesRecord
    <3>3. Removable(content, owner, m2, byName, known, residue, i, n)
      BY <1>1, <3>2, Entombs
    <3>4. PICK r \in Rests(n, i, byName, known, m2) : r = <<Return(i)>>
      <4>1. <<Return(i)>> \in Rests(n, i, byName, known, m2)
        BY DEF Rests, Ends
      <4> QED BY <4>1
    <3>5. t = <<RemoveAll(n), RemovePolicy(n), removeMeta(i, n), Forget(i, n)>> \o r
      BY <3>4 DEF t, purge
    <3>6. Clearing(t, content, owner, m2, byName, known, residue)
      BY <3>3, <3>5 DEF Clearing, Removing, Removable
    <3>7. plan' = t /\ residue' = residue
      BY <2>1, <2>4 DEF WritesRecord
    <3> QED BY <2>2, <2>3, <3>1, <3>6, <3>7 DEF OnCourse
  <2>5. CASE FailsRecord(i, n, s, e)
    <3>1. PICK R2 : R2 = residue'
      OBVIOUS
    <3>2. meta \in Records
      BY DEF Inv, ManagerInv, StoresTyped
    <3>3. meta[i].name # ""
      BY <1>1, <3>2, RecordIs, NameAssumption DEF Bears
    <3>4. residue \subseteq R2 /\ n \in R2 /\ meta[i].name \in R2
      BY <1>0, <2>5, <3>1, <3>3 DEF FailsRecord
    <3>5. known[i].name = n
      BY <1>4
    <3>6. Settled(content, owner, meta, byName, known, R2)
      BY <1>1, <3>4, <3>5, Unentombed
    <3>7. plan' = << >> /\ meta' = meta
      BY <1>0, <2>5 DEF FailsRecord
    <3> QED BY <2>2, <2>3, <3>1, <3>6, <3>7 DEF OnCourse
  <2> QED BY <2>2, <2>4, <2>5
<1> QED BY <1>0, <1>1, <1>3, <1>4 DEF t

----------------------------------------------------------------------------
(* A repository is whole: Rename                                           *)

\* The plan p is the step w and then q.
Goes(p, w, q) == p # << >> /\ Head(p) = w /\ Tail(p) = q

\* The plan of Rename, step by step.
LEMMA RenameTails ==
    ASSUME NEW x, NEW n, NEW i, NEW s
    PROVE  /\ Goes(Rename1(x, n, i, s), MoveContent(x, n, FALSE), Rename2(x, n, i, s))
           /\ Goes(Rename2(x, n, i, s), MovePolicy(x, n, <<MoveContent(n, x, TRUE)>>), Rename3(x, n, i, s))
           /\ Goes(Rename3(x, n, i, s), Unname(x), Rename4(n, i, s))
           /\ Goes(Rename4(n, i, s), Remember(i, n, s), Rename5(n, i, s))
           /\ Goes(Rename5(n, i, s), writeMeta(i, n, s, << >>), <<Return(i)>>)
<1> DEFINE a == MoveContent(x, n, FALSE)
           b == MovePolicy(x, n, <<MoveContent(n, x, TRUE)>>)
           c == Unname(x)
           d == Remember(i, n, s)
           e == writeMeta(i, n, s, << >>)
           h == Return(i)
<1>1. /\ Rename1(x, n, i, s) = <<a, b, c, d, e, h>> /\ Rename2(x, n, i, s) = <<b, c, d, e, h>>
      /\ Rename3(x, n, i, s) = <<c, d, e, h>> /\ Rename4(n, i, s) = <<d, e, h>>
      /\ Rename5(n, i, s) = <<e, h>>
  BY Zenon DEF Rename1, Rename2, Rename3, Rename4, Rename5
<1> HIDE DEF a, b, c, d, e, h
<1>2. Rename1(x, n, i, s) # << >> /\ Head(Rename1(x, n, i, s)) = a /\ Tail(Rename1(x, n, i, s)) = Rename2(x, n, i, s)
  BY <1>1, LongTuples
<1>3. /\ Rename2(x, n, i, s) # << >> /\ Head(Rename2(x, n, i, s)) = b /\ Tail(Rename2(x, n, i, s)) = Rename3(x, n, i, s)
      /\ Rename3(x, n, i, s) # << >> /\ Head(Rename3(x, n, i, s)) = c /\ Tail(Rename3(x, n, i, s)) = Rename4(n, i, s)
      /\ Rename4(n, i, s) # << >> /\ Head(Rename4(n, i, s)) = d /\ Tail(Rename4(n, i, s)) = Rename5(n, i, s)
      /\ Rename5(n, i, s) # << >> /\ Head(Rename5(n, i, s)) = e /\ Tail(Rename5(n, i, s)) = <<h>>
  BY <1>1, Tuples
<1> QED BY <1>2, <1>3, Zenon DEF a, b, c, d, e, h, Goes

\* Only two names have changed.
Beside(c, o, R, c2, o2, R2, x, n) ==
    /\ \A y \in R : y \in R2 \/ y = x \/ y = n
    /\ \A y \in Name : y # x /\ y # n => c2[y] = c[y] /\ o2[y] = o[y]

\* If the two names are whole too, every name still is.
LEMMA SoundBeside ==
    ASSUME NEW c, NEW o, NEW m, NEW R, NEW x, NEW n, Sound(c, o, m, R), NEW c2, NEW o2, NEW R2,
           Beside(c, o, R, c2, o2, R2, x, n),
           x \in R2 \/ Whole(c2, o2, m, x), n \in R2 \/ Whole(c2, o2, m, n)
    PROVE  Sound(c2, o2, m, R2)
<1>1. ASSUME NEW y \in Name \ R2 PROVE Whole(c2, o2, m, y)
  <2>1. CASE y \in {x, n}
    BY <2>1
  <2>2. CASE y \notin {x, n}
    <3>1. Whole(c, o, m, y) /\ c2[y] = c[y] /\ o2[y] = o[y]
      BY <2>2 DEF Sound, Beside
    <3> QED BY <3>1 DEF Whole
  <2> QED BY <2>1, <2>2
<1> QED BY <1>1 DEF Sound

\* The directory is moved.
Moves(c, R, c2, R2, x, n) ==
    /\ \A y \in Name : y \notin {x, n} => c2[y] = c[y]
    /\ c2[n] = c[x] /\ c2[x] = Nobody
    /\ R2 = IF x \in R THEN R \cup {n} ELSE R

\* Once the directory is renamed, the two names are between the states before and after.
LEMMA ContentMoves ==
    ASSUME NEW c, NEW o, NEW m, NEW f, NEW k, NEW R, NEW x \in Name, NEW n \in Name, NEW i \in Id,
           NEW s \in {"active", "archived"}, x # n,
           Settled(c, o, m, f, k, R), Bare(c, o, m, R, n), f[x] = i, k[i] = [name |-> x, state |-> s],
           NEW c2, NEW R2, Moves(c, R, c2, R2, x, n)
    PROVE  Between(c2, o, m, R2, x, n, i, s) /\ Unmoved(o, m, f, k, R2, x, n, i, s)
<1>0. R \subseteq R2 /\ (x \in R2 => x \in R /\ n \in R2) /\ (x \notin R2 => R2 = R)
  BY DEF Moves
<1>1. k[i].name = x /\ k[i].state = s /\ k[i] # NoRecord /\ live(s)
  <2>1. k[i].name = x /\ k[i].state = s
    OBVIOUS
  <2> QED BY <2>1, NoRecordFields DEF live
<1>2. Synced(k, m, R, i)
  BY DEF Settled, Current
<1>3. Sound(c2, o, m, R2 \cup {x, n})
  <2>1. PICK R3 : R3 = R2 \cup {x, n}
    OBVIOUS
  <2>2. Beside(c, o, R, c2, o, R3, x, n) /\ x \in R3 /\ n \in R3
    BY <1>0, <2>1 DEF Beside, Moves
  <2>3. Sound(c2, o, m, R3)
    BY <2>2, SoundBeside DEF Settled
  <2> QED BY <2>1, <2>3
<1>4. x \in R2 => n \in R2 /\ m[i].name \in R2
  BY <1>0, <1>1, <1>2 DEF Synced
<1>5. ASSUME x \notin R2
      PROVE  m[i] = [name |-> x, state |-> s] /\ Named(m, x) = {i} /\ c2[n] = i /\ c2[x] = Nobody /\ o[x] = i
  <2>1. k[i] = m[i] /\ x \notin R
    BY <1>0, <1>1, <1>2, <1>5 DEF Synced
  <2>2. Whole(c, o, m, x)
    BY <2>1 DEF Settled, Sound
  <2>3. i \in Named(m, x) /\ live(m[i].state)
    BY <1>1, <2>1 DEF Named
  <2> QED BY <2>1, <2>2, <2>3 DEF Whole, Moves
<1>6. n \notin R2 => Named(m, n) = {} /\ o[n] \notin Id
  BY <1>0 DEF Bare
<1>7. Current(f, k, m, R2, {}, {})
  BY <1>0, FewerPromises DEF Settled
<1>8. Between(c2, o, m, R2, x, n, i, s)
  BY <1>3, <1>4, <1>5, <1>6 DEF Between
<1> QED BY <1>5, <1>6, <1>7, <1>8 DEF Unmoved

\* The policy is moved.
LEMMA PolicyMoves ==
    ASSUME NEW c, NEW o, NEW m, NEW f, NEW k, NEW R, NEW x \in Name, NEW n \in Name, NEW i \in Id, NEW s,
           Between(c, o, m, R, x, n, i, s), Unmoved(o, m, f, k, R, x, n, i, s),
           NEW o2, \A y \in Name : y \notin {x, n} => o2[y] = o[y], o2[n] = o[x], o2[x] \notin Id
    PROVE  Between(c, o2, m, R, x, n, i, s) /\ Moved(o2, m, f, k, R, x, n, i)
<1>1. Sound(c, o2, m, R \cup {x, n})
  <2>1. PICK R3 : R3 = R \cup {x, n}
    OBVIOUS
  <2>2. Sound(c, o, m, R3) /\ x \in R3 /\ n \in R3 /\ Beside(c, o, R3, c, o2, R3, x, n)
    BY <2>1 DEF Between, Beside
  <2>3. Sound(c, o2, m, R3)
    BY <2>2, SoundBeside
  <2> QED BY <2>1, <2>3
<1>2. Current(f, k, m, R, {i}, {x, n})
  BY DEF Unmoved, Current
<1>3. Between(c, o2, m, R, x, n, i, s)
  BY <1>1 DEF Between
<1> QED BY <1>2, <1>3 DEF Moved, Unmoved

\* The directory is taken back.
LEMMA ContentReturns ==
    ASSUME NEW c, NEW o, NEW m, NEW f, NEW k, NEW R, NEW x \in Name, NEW n \in Name, NEW i \in Id, NEW s, x # n,
           Between(c, o, m, R, x, n, i, s), Unmoved(o, m, f, k, R, x, n, i, s),
           NEW c2, \A y \in Name : y \notin {x, n} => c2[y] = c[y],
           NEW R2, R \subseteq R2,
           \/ {x, n} \subseteq R2
           \/ R2 = (IF n \in R THEN R \cup {x} ELSE R) /\ c2[x] = c[n] /\ c2[n] = Nobody
    PROVE  Settled(c2, o, m, f, k, R2)
<1>1. Current(f, k, m, R2, {}, {})
  BY FewerPromises DEF Unmoved
<1>2. ASSUME x \notin R2 PROVE Whole(c2, o, m, x)
  <2>1. x \notin R /\ c2[x] = c[n]
    BY <1>2
  <2>2. Named(m, x) = {i} /\ c[n] = i /\ o[x] = i
    BY <2>1 DEF Between, Unmoved
  <2> QED BY <2>1, <2>2 DEF Whole
<1>3. ASSUME n \notin R2 PROVE Whole(c2, o, m, n)
  <2>1. n \notin R /\ c2[n] = Nobody /\ Nobody \notin Id
    BY <1>3 DEF Nobody, Id
  <2>2. Named(m, n) = {} /\ o[n] \notin Id
    BY <2>1 DEF Between, Unmoved
  <2> QED BY <2>1, <2>2, WholeWhenBare
<1>4. Sound(c2, o, m, R2)
  <2>1. PICK R3 : R3 = R \cup {x, n}
    OBVIOUS
  <2>2. Sound(c, o, m, R3) /\ Beside(c, o, R3, c2, o, R2, x, n)
    BY <2>1 DEF Between, Beside
  <2> QED BY <1>2, <1>3, <2>2, SoundBeside
<1> QED BY <1>1, <1>4 DEF Settled

\* The index changes about the repository and its two names.
LEMMA MovedIndex ==
    ASSUME NEW o, NEW m, NEW f, NEW k, NEW R, NEW x \in Name, NEW n \in Name, NEW i \in Id,
           Moved(o, m, f, k, R, x, n, i), NEW f2, NEW k2,
           \A y \in Name : y \notin {x, n} => f2[y] = f[y], \A j \in Id : j # i => k2[j] = k[j]
    PROVE  Moved(o, m, f2, k2, R, x, n, i)
<1>1. \A j \in Id : j \notin {i} => k2[j] = k[j]
  OBVIOUS
<1>2. Current(f2, k2, m, R, {i}, {x, n})
  BY <1>1, CurrentElsewhere DEF Moved
<1> QED BY <1>2 DEF Moved

\* The record follows.
LEMMA RecordMoves ==
    ASSUME NEW c, NEW o, NEW m, NEW f, NEW k, NEW R, NEW x \in Name, NEW n \in Name, NEW i \in Id, NEW s, x # n,
           Between(c, o, m, R, x, n, i, s), Moved(o, m, f, k, R, x, n, i), f[n] = i, k[i].name = n,
           NEW m2, m2[i] = k[i], \A j \in Id : j # i => m2[j] = m[j]
    PROVE  Settled(c, o, m2, f, k, R)
<1>1. m2[i].name = n /\ Nobody \notin Id
  BY DEF Nobody, Id
<1>2. ASSUME x \notin R PROVE Named(m2, x) = {} /\ c[x] \notin Id /\ o[x] \notin Id
  <2>1. Named(m, x) = {i} /\ c[x] = Nobody /\ o[x] \notin Id
    BY <1>2 DEF Between, Moved
  <2>2. Named(m2, x) = {}
    BY <1>1, <2>1 DEF Named
  <2> QED BY <1>1, <2>1, <2>2
<1>3. ASSUME n \notin R PROVE Named(m2, n) = {i} /\ c[n] = i /\ o[n] = i
  <2>1. x \notin R
    BY <1>3 DEF Between
  <2>2. Named(m, n) = {} /\ c[n] = i /\ o[n] = i
    BY <1>3, <2>1 DEF Between, Moved
  <2>3. Named(m2, n) = {i}
    BY <1>1, <2>2 DEF Named
  <2> QED BY <2>2, <2>3
<1>4. ASSUME NEW y \in Name \ R PROVE Whole(c, o, m2, y)
  <2>1. CASE y = x
    BY <1>2, <2>1, WholeWhenBare
  <2>2. CASE y = n
    BY <1>3, <2>2 DEF Whole
  <2>3. CASE y \notin {x, n}
    <3>1. Whole(c, o, m, y)
      BY <2>3 DEF Between, Sound
    <3>2. m[i].name # y
      <4>1. CASE x \in R
        BY <4>1 DEF Between
      <4>2. CASE x \notin R
        BY <2>3, <4>2 DEF Between
      <4> QED BY <4>1, <4>2
    <3>3. Named(m2, y) = Named(m, y) /\ \A j \in Named(m, y) : m2[j] = m[j]
      BY <1>1, <2>3, <3>2 DEF Named
    <3> QED BY <3>1, <3>3 DEF Whole
  <2> QED BY <2>1, <2>2, <2>3
<1>5. Current(f, k, m2, R, {i}, {x, n})
  BY <1>1, CurrentRecords DEF Moved
<1>6. Synced(k, m2, R, i)
  BY DEF Synced
<1>7. \A y \in {x, n} : y \in R \/ \A j \in Named(m2, y) : f[y] = j
  BY <1>2, <1>3
<1>8. Current(f, k, m2, R, {}, {})
  BY <1>5, <1>6, <1>7, CurrentAgain
<1> QED BY <1>4, <1>8 DEF Settled, Sound

\* The record stays behind.
LEMMA RecordStays ==
    ASSUME NEW c, NEW o, NEW m, NEW f, NEW k, NEW R, NEW x \in Name, NEW n \in Name, NEW i \in Id, NEW s,
           Between(c, o, m, R, x, n, i, s), Moved(o, m, f, k, R, x, n, i), k[i].name = n,
           NEW R2, R \subseteq R2, {x, n, m[i].name} \subseteq R2
    PROVE  Settled(c, o, m, f, k, R2)
<1>1. Sound(c, o, m, R2)
  BY DEF Between, Sound
<1>2. Current(f, k, m, R2, {i}, {x, n})
  BY FewerPromises DEF Moved
<1>3. Synced(k, m, R2, i)
  BY DEF Synced
<1>4. \A y \in {x, n} : y \in R2 \/ \A j \in Named(m, y) : f[y] = j
  OBVIOUS
<1>5. Current(f, k, m, R2, {}, {})
  BY <1>2, <1>3, <1>4, CurrentAgain
<1> QED BY <1>1, <1>5 DEF Settled

\* A rename on its way.
LEMMA RenamingIs ==
    ASSUME NEW p, NEW c, NEW o, NEW m, NEW f, NEW k, NEW R, NEW x \in Name, NEW n \in Name, x # n, NEW i \in Id,
           NEW s \in {"active", "archived"}, Between(c, o, m, R, x, n, i, s),
           \/ Unmoved(o, m, f, k, R, x, n, i, s) /\ (p = Rename2(x, n, i, s) \/ p = <<MoveContent(n, x, TRUE)>>)
           \/ Moved(o, m, f, k, R, x, n, i) /\ (p = Rename3(x, n, i, s) \/ p = Rename4(n, i, s))
           \/ /\ Moved(o, m, f, k, R, x, n, i) /\ p = Rename5(n, i, s)
              /\ f[n] = i /\ k[i] = [name |-> n, state |-> s]
    PROVE  OnCourse(p, c, o, m, f, k, R)
<1>1. Renaming(p, c, o, m, f, k, R)
  <2>1. RenamingTo(p, c, o, m, f, k, R, x, n, i, s)
    BY DEF RenamingTo
  <2> QED BY <2>1 DEF Renaming
<1> QED BY <1>1 DEF OnCourse

\* A step of a rename once the target name is free.
LEMMA RenamingGoes ==
    ASSUME Inv, Renaming(plan, content, owner, meta, byName, known, residue), Step \/ Fail
    PROVE  OnCourse(plan', content', owner', meta', byName', known', residue') /\ loaded' = loaded
<1>1. PICK x \in Name, n \in Name, i \in Id : \E s \in {"active", "archived"} :
        x # n /\ RenamingTo(plan, content, owner, meta, byName, known, residue, x, n, i, s)
  BY DEF Renaming
<1>2. PICK s \in {"active", "archived"} :
        x # n /\ RenamingTo(plan, content, owner, meta, byName, known, residue, x, n, i, s)
  BY <1>1
<1>3. x # n
  BY <1>2
<1>4. PICK t, e : t \in BOOLEAN /\ t = FALSE /\ e = << >>
  OBVIOUS
<1>5. CASE /\ plan = Rename1(x, n, i, s)
           /\ Settled(content, owner, meta, byName, known, residue) /\ Bare(content, owner, meta, residue, n)
           /\ byName[x] = i /\ known[i] = [name |-> x, state |-> s]
  <2>1. plan # << >> /\ Head(plan) = MoveContent(x, n, t) /\ Tail(plan) = Rename2(x, n, i, s)
    <3>1. plan = Rename1(x, n, i, s)
      BY <1>5
    <3>2. Goes(Rename1(x, n, i, s), MoveContent(x, n, FALSE), Rename2(x, n, i, s))
      BY RenameTails, Zenon
    <3> QED BY <1>4, <3>1, <3>2, Zenon DEF Goes
  <2>2. /\ Remembered /\ meta' = meta /\ owner' = owner
        /\ \A y \in Name : y \notin {x, n} => content'[y] = content[y]
        /\ \/ /\ plan' = Tail(plan) /\ residue' = IF x \in residue THEN residue \cup {n} ELSE residue
              /\ content'[n] = content[x] /\ content'[x] = Nobody
           \/ content' = content /\ residue' = residue /\ plan' = << >>
    BY <1>3, <1>4, <2>1, DoMoveContent
  <2>3. byName' = byName /\ known' = known /\ loaded' = loaded
    BY <2>2 DEF Remembered
  <2>4. CASE content' = content /\ residue' = residue /\ plan' = << >>
    BY <1>5, <2>2, <2>3, <2>4 DEF OnCourse
  <2>5. CASE /\ plan' = Tail(plan) /\ residue' = IF x \in residue THEN residue \cup {n} ELSE residue
             /\ content'[n] = content[x] /\ content'[x] = Nobody
    <3>1. PICK c2, R2 : c2 = content' /\ R2 = residue'
      OBVIOUS
    <3>2. Moves(content, residue, c2, R2, x, n)
      BY <2>2, <2>5, <3>1 DEF Moves
    <3>3. Between(c2, owner, meta, R2, x, n, i, s) /\ Unmoved(owner, meta, byName, known, R2, x, n, i, s)
      BY <1>3, <1>5, <3>2, ContentMoves
    <3>4. OnCourse(Rename2(x, n, i, s), c2, owner, meta, byName, known, R2)
      BY <1>3, <3>3, RenamingIs
    <3> QED BY <2>1, <2>2, <2>3, <2>5, <3>1, <3>4
  <2> QED BY <2>2, <2>4, <2>5
<1>6. CASE /\ Between(content, owner, meta, residue, x, n, i, s)
           /\ plan = Rename2(x, n, i, s) /\ Unmoved(owner, meta, byName, known, residue, x, n, i, s)
  <2> DEFINE g == <<MoveContent(n, x, TRUE)>>
  <2>1. plan # << >> /\ Head(plan) = MovePolicy(x, n, g) /\ Tail(plan) = Rename3(x, n, i, s)
    <3>1. plan = Rename2(x, n, i, s)
      BY <1>6
    <3>2. Goes(Rename2(x, n, i, s), MovePolicy(x, n, g), Rename3(x, n, i, s))
      BY RenameTails, Zenon
    <3> QED BY <3>1, <3>2, Zenon DEF Goes
  <2> HIDE DEF g
  <2>2. /\ Remembered /\ meta' = meta /\ content' = content /\ residue' = residue
        /\ \/ /\ plan' = Tail(plan) /\ owner'[n] = owner[x] /\ owner'[x] \notin Id
              /\ \A y \in Name : y \notin {x, n} => owner'[y] = owner[y]
           \/ plan' = g /\ owner' = owner
    BY <1>3, <2>1, DoMovePolicy
  <2>3. byName' = byName /\ known' = known /\ loaded' = loaded
    BY <2>2 DEF Remembered
  <2>4. CASE plan' = g /\ owner' = owner
    <3>1. g = <<MoveContent(n, x, TRUE)>>
      BY DEF g
    <3>2. OnCourse(g, content, owner, meta, byName, known, residue)
      BY <1>3, <1>6, <3>1, RenamingIs
    <3> QED BY <2>2, <2>3, <2>4, <3>2
  <2>5. CASE /\ plan' = Tail(plan) /\ owner'[n] = owner[x] /\ owner'[x] \notin Id
             /\ \A y \in Name : y \notin {x, n} => owner'[y] = owner[y]
    <3>1. PICK o2 : o2 = owner'
      OBVIOUS
    <3>2. Between(content, o2, meta, residue, x, n, i, s) /\ Moved(o2, meta, byName, known, residue, x, n, i)
      BY <1>6, <2>5, <3>1, PolicyMoves
    <3>3. OnCourse(Rename3(x, n, i, s), content, o2, meta, byName, known, residue)
      BY <1>3, <3>2, RenamingIs
    <3> QED BY <2>1, <2>2, <2>3, <2>5, <3>1, <3>3
  <2> QED BY <2>2, <2>4, <2>5
<1>7. CASE /\ Between(content, owner, meta, residue, x, n, i, s)
           /\ plan = <<MoveContent(n, x, TRUE)>> /\ Unmoved(owner, meta, byName, known, residue, x, n, i, s)
  <2>0. PICK b : b \in BOOLEAN /\ b = TRUE
    OBVIOUS
  <2>1. plan # << >> /\ Head(plan) = MoveContent(n, x, b) /\ Tail(plan) = << >>
    BY <1>7, <2>0, Tuples
  <2>2. /\ Remembered /\ meta' = meta /\ owner' = owner /\ plan' = << >>
        /\ \A y \in Name : y \notin {x, n} => content'[y] = content[y]
        /\ \/ /\ residue' = IF n \in residue THEN residue \cup {x} ELSE residue
              /\ content'[x] = content[n] /\ content'[n] = Nobody
           \/ residue' = residue \cup {n, x}
    BY <1>3, <2>0, <2>1, DoMoveContent
  <2>3. byName' = byName /\ known' = known /\ loaded' = loaded
    BY <2>2 DEF Remembered
  <2>4. PICK c2, R2 : c2 = content' /\ R2 = residue'
    OBVIOUS
  <2>5. Settled(c2, owner, meta, byName, known, R2)
    <3>1. residue \subseteq R2 /\ \A y \in Name : y \notin {x, n} => c2[y] = content[y]
      BY <2>2, <2>4
    <3>2. \/ {x, n} \subseteq R2
          \/ R2 = (IF n \in residue THEN residue \cup {x} ELSE residue) /\ c2[x] = content[n] /\ c2[n] = Nobody
      BY <2>2, <2>4
    <3> QED BY <1>3, <1>7, <3>1, <3>2, ContentReturns
  <2> QED BY <2>2, <2>3, <2>4, <2>5 DEF OnCourse
<1>8. CASE /\ Between(content, owner, meta, residue, x, n, i, s)
           /\ plan = Rename3(x, n, i, s) /\ Moved(owner, meta, byName, known, residue, x, n, i)
  <2>1. plan # << >> /\ Head(plan) = Unname(x) /\ Tail(plan) = Rename4(n, i, s)
    <3>1. plan = Rename3(x, n, i, s)
      BY <1>8
    <3>2. Goes(Rename3(x, n, i, s), Unname(x), Rename4(n, i, s))
      BY RenameTails, Zenon
    <3> QED BY <3>1, <3>2, Zenon DEF Goes
  <2>2. /\ plan' = Tail(plan) /\ content' = content /\ owner' = owner /\ meta' = meta /\ residue' = residue
        /\ loaded' = loaded /\ known' = known
        /\ \A y \in Name : y # x => byName'[y] = byName[y]
    BY <2>1, DoUnname
  <2>3. PICK f2 : f2 = byName'
    OBVIOUS
  <2>4. Moved(owner, meta, f2, known, residue, x, n, i)
    <3>1. \A y \in Name : y \notin {x, n} => f2[y] = byName[y]
      BY <2>2, <2>3
    <3> QED BY <1>8, <3>1, MovedIndex
  <2>5. OnCourse(Rename4(n, i, s), content, owner, meta, f2, known, residue)
    BY <1>3, <1>8, <2>4, RenamingIs
  <2> QED BY <2>1, <2>2, <2>3, <2>5
<1>9. CASE /\ Between(content, owner, meta, residue, x, n, i, s)
           /\ plan = Rename4(n, i, s) /\ Moved(owner, meta, byName, known, residue, x, n, i)
  <2>1. plan # << >> /\ Head(plan) = Remember(i, n, s) /\ Tail(plan) = Rename5(n, i, s)
    BY <1>9, RenameTails, Zenon DEF Goes
  <2>2. /\ plan' = Tail(plan) /\ content' = content /\ owner' = owner /\ meta' = meta /\ residue' = residue
        /\ loaded' = loaded
        /\ \A y \in Name : y # n => byName'[y] = byName[y]
        /\ \A j \in Id : j # i => known'[j] = known[j]
        /\ byName'[n] = i /\ known'[i] = [name |-> n, state |-> s]
    <3>1. Remembers(i, n, s)
      BY <2>1, DoRemember
    <3> QED BY <3>1 DEF Remembers
  <2>3. PICK f2, k2 : f2 = byName' /\ k2 = known'
    OBVIOUS
  <2>4. Moved(owner, meta, f2, k2, residue, x, n, i)
    <3>1. \A y \in Name : y \notin {x, n} => f2[y] = byName[y]
      BY <2>2, <2>3
    <3>2. \A j \in Id : j # i => k2[j] = known[j]
      BY <2>2, <2>3
    <3> QED BY <1>9, <3>1, <3>2, MovedIndex
  <2>5. f2[n] = i /\ k2[i] = [name |-> n, state |-> s]
    BY <2>2, <2>3
  <2>6. OnCourse(Rename5(n, i, s), content, owner, meta, f2, k2, residue)
    BY <1>3, <1>9, <2>4, <2>5, RenamingIs
  <2> QED BY <2>1, <2>2, <2>3, <2>6
<1>10. CASE /\ Between(content, owner, meta, residue, x, n, i, s)
            /\ Moved(owner, meta, byName, known, residue, x, n, i)
            /\ plan = Rename5(n, i, s) /\ byName[n] = i /\ known[i] = [name |-> n, state |-> s]
  <2>1. plan # << >> /\ Head(plan) = writeMeta(i, n, s, e) /\ Tail(plan) = <<Return(i)>>
    BY <1>4, <1>10, RenameTails, Zenon DEF Goes
  <2>2. /\ Remembered /\ content' = content /\ owner' = owner
        /\ WritesRecord(i, n, s) \/ FailsRecord(i, n, s, e)
    BY <2>1, DoWriteMeta
  <2>3. byName' = byName /\ known' = known /\ loaded' = loaded
    BY <2>2 DEF Remembered
  <2>4. known[i].name = n
    BY <1>10
  <2>5. CASE WritesRecord(i, n, s)
    <3>1. PICK m2 : m2 = meta'
      OBVIOUS
    <3>2. m2[i] = known[i] /\ \A j \in Id : j # i => m2[j] = meta[j]
      BY <1>10, <2>5, <3>1 DEF WritesRecord
    <3>3. Settled(content, owner, m2, byName, known, residue)
      BY <1>3, <1>10, <2>4, <3>2, RecordMoves
    <3>4. plan' = <<Return(i)>> /\ residue' = residue
      BY <2>1, <2>5 DEF WritesRecord
    <3> QED BY <2>2, <2>3, <3>1, <3>3, <3>4 DEF OnCourse, Returning
  <2>6. CASE FailsRecord(i, n, s, e)
    <3>1. PICK R2 : R2 = residue'
      OBVIOUS
    <3>2. residue \subseteq R2 /\ {x, n, meta[i].name} \subseteq R2
      <4>1. CASE x \in residue
        <5>1. n \in residue /\ meta[i].name \in residue
          BY <1>10, <4>1 DEF Between
        <5>2. residue \subseteq R2
          BY <2>6, <3>1 DEF FailsRecord
        <5> QED BY <4>1, <5>1, <5>2
      <4>2. CASE x \notin residue
        <5>1. meta[i].name = x
          BY <4>2, <1>10 DEF Between
        <5>2. meta[i].name \notin {"", n}
          BY <1>3, <5>1, NameAssumption
        <5> QED BY <2>6, <3>1, <5>1, <5>2 DEF FailsRecord
      <4> QED BY <4>1, <4>2
    <3>3. Settled(content, owner, meta, byName, known, R2)
      BY <1>10, <2>4, <3>2, RecordStays
    <3>4. plan' = << >> /\ meta' = meta
      BY <1>4, <2>6 DEF FailsRecord
    <3> QED BY <2>2, <2>3, <3>1, <3>3, <3>4 DEF OnCourse
  <2> QED BY <2>2, <2>5, <2>6
<1> QED BY <1>2, <1>5, <1>6, <1>7, <1>8, <1>9, <1>10 DEF RenamingTo

----------------------------------------------------------------------------
(* A repository is whole: an operation begins                              *)

\* A creation under way has a step to make.
LEMMA CreatingGoesOn ==
    ASSUME NEW c, NEW o, NEW m, NEW f, NEW k, NEW R, NEW p, Creating(p, c, o, m, f, k, R)
    PROVE  p # << >>
<1>1. PICK n \in Name, id \in Id, u \in Subject : p = Create1(n, id, u) \/ Makes(p, c, o, m, f, k, R, n, id, u)
  BY CreatingIs
<1>2. \/ p = Create1(n, id, u) \/ p \in {Create2(n, id, u), Create3(n, id, u)} \/ p = Create4(n, id, u)
      \/ p = Create5(n, id) \/ p = Create6(n, id)
  BY <1>1 DEF Makes
<1> QED BY <1>2, CreateTails

\* A plan that is not settled is not over.
LEMMA OverIsSettled ==
    ASSUME NEW c, NEW o, NEW m, NEW f, NEW k, NEW R, NEW p, OnCourse(p, c, o, m, f, k, R), p = << >>
    PROVE  Settled(c, o, m, f, k, R)
<1>1. ~Clearing(p, c, o, m, f, k, R)
  <2>1. ASSUME NEW n \in Name, NEW i \in Id, NEW rest \in Rests(n, i, f, k, m)
        PROVE  /\ p # <<RemoveAll(n), RemovePolicy(n), removeMeta(i, n), Forget(i, n)>> \o rest
               /\ p # <<RemovePolicy(n), RemoveAll(n), removeMeta(i, n), Forget(i, n)>> \o rest
               /\ p # <<RemovePolicy(n), removeMeta(i, n), Forget(i, n)>> \o rest
               /\ p # <<RemoveAll(n), removeMeta(i, n), Forget(i, n)>> \o rest
               /\ p # <<removeMeta(i, n), Forget(i, n)>> \o rest
               /\ p # <<Forget(i, n)>> \o rest
    <3>1. PICK S : rest \in Seq(S)
      BY RestIsPlan
    <3>2. \A a1, a2, a3, a4 : /\ <<a1>> \o rest # << >> /\ <<a1, a2>> \o rest # << >>
                              /\ <<a1, a2, a3>> \o rest # << >> /\ <<a1, a2, a3, a4>> \o rest # << >>
      BY <3>1, Chains
    <3> QED BY <3>2, Zenon
  <2>2. ASSUME NEW n \in Name, NEW i \in Id, NEW rest \in Rests(n, i, f, k, m)
        PROVE  ~Removing(p, c, o, m, f, k, R, n, i, rest)
    BY <2>1, Zenon DEF Removing
  <2> QED BY <2>2 DEF Clearing
<1>2. ~Creating(p, c, o, m, f, k, R)
  BY CreatingGoesOn
<1>3. ~Returning(p, c, o, m, f, k, R)
  BY DEF Returning
<1>4. ~Deleting(p, c, o, m, f, k, R)
  <2>1. ASSUME NEW n, NEW i PROVE \E S : purge(i, n) \o <<Return(i)>> \in Seq(S)
    <3> DEFINE T == {RemoveAll(n), RemovePolicy(n), removeMeta(i, n), Forget(i, n), Return(i)}
    <3>1. purge(i, n) \in Seq(T) /\ <<Return(i)>> \in Seq(T)
      BY DEF purge
    <3> HIDE DEF T
    <3> QED BY <3>1
  <2>2. ASSUME NEW q, NEW a, NEW b, NEW S, q \in Seq(S) PROVE <<a, b>> \o q # << >> /\ <<a>> \o q # << >>
    BY <2>2, Chains
  <2> QED BY <2>1, <2>2 DEF Deleting
<1>5. ~Renaming(p, c, o, m, f, k, R)
  <2>1. ASSUME NEW x \in Name, NEW n \in Name, NEW i \in Id, NEW s \in {"active", "archived"}
        PROVE  /\ p # Rename1(x, n, i, s) /\ p \notin {Rename2(x, n, i, s), <<MoveContent(n, x, TRUE)>>}
               /\ p # Rename3(x, n, i, s) /\ p # Rename4(n, i, s) /\ p # Rename5(n, i, s)
    BY DEF Rename1, Rename2, Rename3, Rename4, Rename5
  <2>2. ASSUME NEW x \in Name, NEW n \in Name, NEW i \in Id, NEW s \in {"active", "archived"}
        PROVE  ~RenamingTo(p, c, o, m, f, k, R, x, n, i, s)
    BY <2>1, Zenon DEF RenamingTo
  <2> QED BY <2>2 DEF Renaming
<1> QED BY <1>1, <1>2, <1>3, <1>4, <1>5 DEF OnCourse

\* Between operations what load finds is settled: the index in memory, or the records.
LEMMA LoadSettled ==
    ASSUME Inv, WholeInv, Idle, NEW f \in load
    PROVE  Settled(content, owner, meta, f, records, residue)
<1>1. CASE loaded
  <2>1. f = byName /\ records = known /\ OnCourse(plan, content, owner, meta, byName, known, residue)
    BY <1>1 DEF load, records, WholeInv
  <2> QED BY <2>1, OverIsSettled DEF Idle
<1>2. CASE ~loaded
  <2>1. records = meta /\ Sound(content, owner, meta, residue) /\ meta \in Records
    BY <1>2 DEF records, WholeInv, Inv, ManagerInv, StoresTyped
  <2>2. ASSUME NEW n \in Name \ residue, NEW j \in Named(meta, n) PROVE f[n] = j
    <3>1. j \in Id /\ meta[j].name = n /\ Whole(content, owner, meta, n)
      BY <2>1 DEF Named, Sound
    <3>2. meta[j] # NoRecord
      BY <3>1, NoRecordFields, NameAssumption
    <3>3. meta[j].state # "none"
      BY <2>1, <3>1, <3>2, RecordFields DEF Records
    <3>4. f[n] \in {i \in Id : meta[i].state # "none" /\ meta[i].name = n}
      BY <1>2, <3>1, <3>3 DEF load
    <3> QED BY <3>1, <3>4 DEF Whole, Named
  <2>3. Current(f, meta, meta, residue, {}, {})
    BY <2>2 DEF Current, Synced
  <2> QED BY <2>1, <2>3 DEF Settled
<1> QED BY <1>1, <1>2

\* What the index knows by a name, the records do too, or the name is in pieces.
LEMMA KnownBears ==
    ASSUME NEW c, NEW o, NEW m, NEW f, NEW k, NEW R, Settled(c, o, m, f, k, R), R \subseteq Name,
           NEW n \in Name, NEW i \in Id, f[n] = i, k[i].name = n
    PROVE  /\ Bears(m, R, i, n) /\ Current(f, k, m, R, {i}, {n}) /\ k[i] # NoRecord
           /\ ~live(k[i].state) => n \in R \/ ~live(m[i].state)
<1>1. k[i] # NoRecord /\ "" \notin Name
  BY NoRecordFields, NameAssumption
<1>2. k[i] = m[i] \/ {n, m[i].name} \subseteq R
  BY <1>1 DEF Settled, Current, Synced
<1>3. m[i] # NoRecord
  BY <1>1, <1>2, NoRecordFields
<1>4. n \in R \/ Named(m, n) \subseteq {i}
  BY DEF Settled, Current
<1>5. Bears(m, R, i, n)
  BY <1>2, <1>3, <1>4 DEF Bears
<1>6. Current(f, k, m, R, {i}, {n})
  BY DEF Settled, Current
<1> QED BY <1>1, <1>2, <1>5, <1>6

\* Under a name that the index does not know nothing is stored.
LEMMA UnknownBare ==
    ASSUME NEW c, NEW o, NEW m, NEW f, NEW k, NEW R, Settled(c, o, m, f, k, R), NEW n \in Name, f[n] \notin Id
    PROVE  Bare(c, o, m, R, n)
<1> SUFFICES ASSUME n \notin R PROVE Named(m, n) = {} /\ c[n] \notin Id /\ o[n] \notin Id
  BY DEF Bare
<1>1. Named(m, n) = {}
  BY DEF Settled, Current, Named
<1> QED BY <1>1 DEF Settled, Sound, Whole

\* What is left of an earlier repository is removed first.
LEMMA Reclaimed ==
    ASSUME NEW c, NEW o, NEW m, NEW f, NEW k, NEW R, Settled(c, o, m, f, k, R), R \subseteq Name,
           NEW n \in Name, NEW i \in Id, f[n] = i, k[i].name = n, ~live(k[i].state),
           NEW rest \in Rests(n, i, f, k, m)
    PROVE  OnCourse(purge(i, n) \o rest, c, o, m, f, k, R)
<1>1. Bears(m, R, i, n) /\ Current(f, k, m, R, {i}, {n}) /\ (n \in R \/ ~live(m[i].state))
  BY KnownBears
<1>2. PICK p : p = purge(i, n) \o rest
  OBVIOUS
<1>3. p = <<RemoveAll(n), RemovePolicy(n), removeMeta(i, n), Forget(i, n)>> \o rest
  BY <1>2 DEF purge
<1>4. Clearing(p, c, o, m, f, k, R)
  <2>1. Removing(p, c, o, m, f, k, R, n, i, rest)
    BY <1>1, <1>3 DEF Removing, Settled
  <2> QED BY <2>1 DEF Clearing
<1> QED BY <1>2, <1>4 DEF OnCourse

\* Create begins.
LEMMA CreateBegins ==
    ASSUME NEW c, NEW o, NEW m, NEW f, NEW k \in Records, NEW R, Settled(c, o, m, f, k, R), R \subseteq Name,
           Agree(f, k), NEW n \in Name, NEW id \in Id, NEW u \in Subject, m[id] = NoRecord, k[id] = NoRecord,
           NEW q, \/ q = << >> /\ f[n] \notin Id
                  \/ f[n] \in Id /\ f[n] # Nobody /\ ~live(k[f[n]].state) /\ q = purge(f[n], n)
    PROVE  OnCourse(q \o Create1(n, id, u), c, o, m, f, k, R)
<1>1. CASE q = << >> /\ f[n] \notin Id
  <2>1. PICK S : Create1(n, id, u) \in Seq(S)
    <3>1. ASSUME NEW a1, NEW a2, NEW a3, NEW a4, NEW a5, NEW a6, NEW a7
          PROVE  <<a1, a2, a3, a4, a5, a6, a7>> \in Seq({a1, a2, a3, a4, a5, a6, a7})
      OBVIOUS
    <3> QED BY <3>1 DEF Create1
  <2>2. PICK p : p = q \o Create1(n, id, u) /\ p = Create1(n, id, u)
    BY <1>1, <2>1
  <2>3. Creating(p, c, o, m, f, k, R)
    BY <1>1, <2>2, UnknownBare DEF Creating, Settled
  <2> QED BY <2>2, <2>3 DEF OnCourse
<1>2. CASE f[n] \in Id /\ f[n] # Nobody /\ ~live(k[f[n]].state) /\ q = purge(f[n], n)
  <2>1. PICK i \in Id : i = f[n] /\ k[i].name = n
    BY <1>2 DEF Agree
  <2>2. k[i] # NoRecord
    BY <2>1, NoRecordFields, NameAssumption
  <2>3. Create1(n, id, u) \in Rests(n, i, f, k, m)
    BY <2>2 DEF Rests, Creates
  <2>4. PICK rest \in Rests(n, i, f, k, m) : rest = Create1(n, id, u)
    BY <2>3
  <2>5. OnCourse(purge(i, n) \o rest, c, o, m, f, k, R)
    BY <1>2, <2>1, Reclaimed
  <2> QED BY <1>2, <2>1, <2>4, <2>5
<1> QED BY <1>1, <1>2

\* Rename begins.
LEMMA RenameBegins ==
    ASSUME NEW c, NEW o, NEW m, NEW f, NEW k \in Records, NEW R, Settled(c, o, m, f, k, R), R \subseteq Name,
           Agree(f, k), NEW x \in Name, NEW n \in Name, x # n, NEW id \in Id, f[x] = id, id # Nobody,
           live(k[id].state),
           NEW q, \/ q = << >> /\ f[n] \notin Id
                  \/ f[n] \in Id /\ f[n] # Nobody /\ ~live(k[f[n]].state) /\ q = purge(f[n], n)
    PROVE  OnCourse(q \o Rename1(x, n, id, k[id].state), c, o, m, f, k, R)
<1>0. k[id].name = x /\ k[id] # NoRecord
  BY NoRecordFields DEF Agree
<1>1. CASE q = << >> /\ f[n] \notin Id
  <2>1. PICK s \in {"active", "archived"} : s = k[id].state
    BY DEF live
  <2>2. PICK S : Rename1(x, n, id, s) \in Seq(S)
    <3>1. ASSUME NEW a1, NEW a2, NEW a3, NEW a4, NEW a5, NEW a6
          PROVE  <<a1, a2, a3, a4, a5, a6>> \in Seq({a1, a2, a3, a4, a5, a6})
      OBVIOUS
    <3> QED BY <3>1 DEF Rename1
  <2>3. PICK p : p = q \o Rename1(x, n, id, s) /\ p = Rename1(x, n, id, s)
    BY <1>1, <2>2
  <2>4. k[id] = [name |-> x, state |-> s]
    BY <1>0, <2>1, RecordIs
  <2>5. Bare(c, o, m, R, n)
    BY <1>1, UnknownBare
  <2>6. Renaming(p, c, o, m, f, k, R)
    <3>1. RenamingTo(p, c, o, m, f, k, R, x, n, id, s)
      BY <2>3, <2>4, <2>5 DEF RenamingTo
    <3> QED BY <3>1 DEF Renaming
  <2> QED BY <2>1, <2>3, <2>6 DEF OnCourse
<1>2. CASE f[n] \in Id /\ f[n] # Nobody /\ ~live(k[f[n]].state) /\ q = purge(f[n], n)
  <2>1. PICK i \in Id : i = f[n] /\ k[i].name = n
    BY <1>2 DEF Agree
  <2>2. id # i
    BY <1>0, <2>1
  <2>3. Rename1(x, n, f[x], k[f[x]].state) \in Rests(n, i, f, k, m)
    BY <1>0, <2>2 DEF Rests, Renames
  <2>4. PICK rest \in Rests(n, i, f, k, m) : rest = Rename1(x, n, id, k[id].state)
    BY <2>3
  <2>5. OnCourse(purge(i, n) \o rest, c, o, m, f, k, R)
    BY <1>2, <2>1, Reclaimed
  <2> QED BY <1>2, <2>1, <2>4, <2>5
<1> QED BY <1>1, <1>2

\* The plan of Delete, taken apart after its second step.
LEMMA TwoThenFive ==
    ASSUME NEW a, NEW b, NEW c, NEW d, NEW e, NEW f, NEW h
    PROVE  <<a, b>> \o (<<c, d, e, f>> \o <<h>>) = <<a, b, c, d, e, f, h>>
<1> DEFINE S == {a, b, c, d, e, f, h}
           o == <<a, b>>
           p == <<c, d, e, f>>
           q == <<h>>
           r == <<a, b, c, d, e, f, h>>
<1>1. /\ o \in Seq(S) /\ p \in Seq(S) /\ q \in Seq(S) /\ r \in Seq(S)
      /\ Len(o) = 2 /\ Len(p) = 4 /\ Len(q) = 1 /\ Len(r) = 7
  OBVIOUS
<1>2. o \o (p \o q) \in Seq(S) /\ Len(o \o (p \o q)) = 7
  BY <1>1
<1>3. \A i \in 1..7 : (o \o (p \o q))[i] = r[i]
  OBVIOUS
<1> HIDE DEF o, p, q, r, S
<1>4. o \o (p \o q) = r
  BY <1>1, <1>2, <1>3, SeqEqual
<1> QED BY <1>4 DEF o, p, q, r

\* Delete begins.
LEMMA DeleteBegins ==
    ASSUME NEW c, NEW o, NEW m, NEW f, NEW k, NEW R, Settled(c, o, m, f, k, R), R \subseteq Name,
           NEW n \in Name, NEW i \in Id, f[n] = i, k[i].name = n
    PROVE  OnCourse(DeletePlan(n, i), c, o, m, f, k, R)
<1>1. Bears(m, R, i, n) /\ Current(f, k, m, R, {i}, {n})
  BY KnownBears
<1>2. DeletePlan(n, i) =
        <<Remember(i, n, "deleting"), writeMeta(i, n, "deleting", << >>)>> \o (purge(i, n) \o <<Return(i)>>)
  <2> DEFINE a == Remember(i, n, "deleting")
             b == writeMeta(i, n, "deleting", << >>)
             d == Return(i)
             g == RemoveAll(n)
             h == RemovePolicy(n)
             v == removeMeta(i, n)
             w == Forget(i, n)
  <2>1. DeletePlan(n, i) = <<a, b>> \o <<g, h, v, w>> \o <<d>> /\ purge(i, n) = <<g, h, v, w>>
    BY Zenon DEF DeletePlan, purge
  <2> HIDE DEF a, b, d, g, h, v, w
  <2>2. DeletePlan(n, i) = <<a, b>> \o (purge(i, n) \o <<d>>)
    <3>1. <<a, b>> \o <<g, h, v, w>> \o <<d>> = <<a, b, g, h, v, w, d>>
      BY TwoFourOne
    <3>2. <<a, b>> \o (<<g, h, v, w>> \o <<d>>) = <<a, b, g, h, v, w, d>>
      BY TwoThenFive
    <3> QED BY <2>1, <3>1, <3>2, Zenon
  <2> QED BY <2>2, Zenon DEF a, b, d
<1>3. PICK p : p = DeletePlan(n, i)
  OBVIOUS
<1>4. Deleting(p, c, o, m, f, k, R)
  BY <1>1, <1>2, <1>3 DEF Deleting, Settled
<1> QED BY <1>3, <1>4 DEF OnCourse

----------------------------------------------------------------------------
(* A repository is whole: the server dies                                  *)

\* A step cut off half way spoils a directory only where a repository is not live.
LEMMA HalfWay ==
    ASSUME Inv, NEW c2 \in Halves(Head(plan)), NEW n \in Name, NEW i \in Id,
           Removable(content, owner, meta, byName, known, residue, i, n),
           Head(plan).op \notin {"init", "removeAll"} \/ Head(plan).name = n
    PROVE  Sound(c2, owner, meta, residue)
<1>1. content \in [Name -> Id \cup {Nobody, Scrap}] /\ Scrap \notin Id
  BY GivenIds DEF Inv, ManagerInv, StoresTyped
<1>2. c2 = content \/ (Head(plan).name = n /\ c2 = [content EXCEPT ![n] = Scrap])
  BY DEF Halves
<1>3. ChangesAt(content, owner, residue, c2, owner, residue, i, n)
  BY <1>1, <1>2 DEF ChangesAt
<1>4. Removable(c2, owner, meta, byName, known, residue, i, n)
  BY <1>3, Removes
<1> QED BY <1>4 DEF Removable

\* Most steps do not touch directories.
LEMMA Untouched ==
    ASSUME NEW w, w.op \notin {"init", "removeAll"}
    PROVE  Halves(w) = {content}
  BY DEF Halves

\* Something is moved already.
Underway(p, x, n, i, s) ==
    p \in {Rename2(x, n, i, s), <<MoveContent(n, x, TRUE)>>, Rename3(x, n, i, s), Rename4(n, i, s), Rename5(n, i, s)}

\* No step of a rename spoils a directory.
LEMMA RenamingHead ==
    ASSUME NEW x, NEW n, NEW i, NEW s,
           Underway(plan, x, n, i, s)
    PROVE  Halves(Head(plan)) = {content}
<1>1. \/ Head(plan) = MovePolicy(x, n, <<MoveContent(n, x, TRUE)>>)
      \/ Head(plan) = MoveContent(n, x, TRUE)
      \/ Head(plan) = Unname(x) \/ Head(plan) = Remember(i, n, s) \/ Head(plan) = writeMeta(i, n, s, << >>)
  <2>1. Head(<<MoveContent(n, x, TRUE)>>) = MoveContent(n, x, TRUE)
    OBVIOUS
  <2>2. /\ Goes(Rename2(x, n, i, s), MovePolicy(x, n, <<MoveContent(n, x, TRUE)>>), Rename3(x, n, i, s))
        /\ Goes(Rename3(x, n, i, s), Unname(x), Rename4(n, i, s))
        /\ Goes(Rename4(n, i, s), Remember(i, n, s), Rename5(n, i, s))
        /\ Goes(Rename5(n, i, s), writeMeta(i, n, s, << >>), <<Return(i)>>)
    BY RenameTails, Zenon
  <2> QED BY <2>1, <2>2, Zenon DEF Goes, Underway
<1>2. Head(plan).op \notin {"init", "removeAll"}
  BY <1>1 DEF MovePolicy, MoveContent, Unname, Remember, writeMeta
<1> QED BY <1>2, Untouched

\* A rename under way: both names are in pieces.
LEMMA MovingBoth ==
    ASSUME NEW x \in Name, NEW n \in Name, NEW i \in Id, NEW s \in {"active", "archived"}, x # n,
           meta[i].name = x, plan # << >>,
           Underway(plan, x, n, i, s)
    PROVE  {x, n} \subseteq Moving
<1> DEFINE u == Unname(x)
           v == Remember(i, n, s)
           w == writeMeta(i, n, s, << >>)
           z == Return(i)
<1>1. /\ u.op = "unname" /\ v.op = "remember" /\ w.op = "writeMeta" /\ z.op = "return"
      /\ w.id = i /\ w.to.name = n /\ w.to.state = s /\ s # "deleting"
  BY DEF Unname, Remember, writeMeta, Return
<1>2. CASE plan = Rename2(x, n, i, s)
  <2>1. Head(plan) = MovePolicy(x, n, <<MoveContent(n, x, TRUE)>>)
    <3>1. Goes(Rename2(x, n, i, s), MovePolicy(x, n, <<MoveContent(n, x, TRUE)>>), Rename3(x, n, i, s))
      BY RenameTails, Zenon
    <3> QED BY <1>2, <3>1, Zenon DEF Goes
  <2>2. Head(plan).op = "movePolicy" /\ Head(plan).name = x /\ Head(plan).to = n
    BY <2>1 DEF MovePolicy
  <2> QED BY <2>2 DEF Moving, Idle
<1>3. CASE plan = <<MoveContent(n, x, TRUE)>>
  <2>1. Head(plan) = MoveContent(n, x, TRUE)
    BY <1>3
  <2>2. Head(plan).op = "moveContent" /\ Head(plan).name = n /\ Head(plan).to = x /\ Head(plan).soft
    BY <2>1 DEF MoveContent
  <2> QED BY <2>2 DEF Moving, Idle
<1>4. /\ Rename3(x, n, i, s) = <<u, v, w, z>> /\ Rename4(n, i, s) = <<v, w, z>> /\ Rename5(n, i, s) = <<w, z>>
  BY Zenon DEF Rename3, Rename4, Rename5
<1> HIDE DEF u, v, w, z
<1>5. Left(w) = {x, n}
  <2>1. meta[w.id].name \notin {"", w.to.name}
    BY <1>1, NameAssumption
  <2> QED BY <1>1, <2>1 DEF Left
<1>6. ASSUME \A j \in DOMAIN plan : plan[j].op \in {"unname", "remember", "writeMeta", "return"},
             NEW j \in DOMAIN plan, plan[j] = w, Head(plan) \in {u, v, w}
      PROVE  {x, n} \subseteq Moving
  <2>1. Head(plan).op \in {"unname", "remember", "writeMeta"}
    BY <1>1, <1>6
  <2>2. ~\E l \in DOMAIN plan : plan[l].op = "moveContent"
    BY <1>6
  <2>3. Left(plan[j]) = {x, n} /\ plan[j].op = "writeMeta" /\ plan[j].to.state # "deleting"
    BY <1>1, <1>5, <1>6
  <2>4. Moving = UNION {Left(plan[l]) : l \in {y \in {h \in DOMAIN plan : plan[h].op = "writeMeta"} :
                                                   plan[y].to.state # "deleting"}}
    BY <2>1, <2>2 DEF Moving, Idle
  <2> QED BY <2>3, <2>4
<1>7. CASE plan = Rename3(x, n, i, s)
  <2>1. plan = <<u, v, w, z>>
    BY <1>4, <1>7
  <2>2. DOMAIN plan = 1..4 /\ plan[1] = u /\ plan[2] = v /\ plan[3] = w /\ plan[4] = z /\ Head(plan) = u
    BY <2>1
  <2>3. \A j \in DOMAIN plan : plan[j].op \in {"unname", "remember", "writeMeta", "return"}
    BY <1>1, <2>2
  <2> QED BY <1>6, <2>2, <2>3
<1>8. CASE plan = Rename4(n, i, s)
  <2>1. plan = <<v, w, z>>
    BY <1>4, <1>8
  <2>2. DOMAIN plan = 1..3 /\ plan[1] = v /\ plan[2] = w /\ plan[3] = z /\ Head(plan) = v
    BY <2>1
  <2>3. \A j \in DOMAIN plan : plan[j].op \in {"unname", "remember", "writeMeta", "return"}
    BY <1>1, <2>2
  <2> QED BY <1>6, <2>2, <2>3
<1>9. CASE plan = Rename5(n, i, s)
  <2>1. plan = <<w, z>>
    BY <1>4, <1>9
  <2>2. DOMAIN plan = 1..2 /\ plan[1] = w /\ plan[2] = z /\ Head(plan) = w
    BY <2>1
  <2>3. \A j \in DOMAIN plan : plan[j].op \in {"unname", "remember", "writeMeta", "return"}
    BY <1>1, <2>2
  <2> QED BY <1>6, <2>2, <2>3
<1> QED BY <1>2, <1>3, <1>7, <1>8, <1>9, Zenon DEF Underway

\* The plan of Delete begins with the tombstone.
LEMMA DeletingHead ==
    ASSUME Deleting(plan, content, owner, meta, byName, known, residue)
    PROVE  Head(plan).op \in {"remember", "writeMeta"}
<1>1. ASSUME NEW n \in Name, NEW i \in Id, NEW a, NEW b
      PROVE  /\ Head(<<a, b>> \o (purge(i, n) \o <<Return(i)>>)) = a
             /\ Head(<<a>> \o (purge(i, n) \o <<Return(i)>>)) = a
  <2> DEFINE T == {RemoveAll(n), RemovePolicy(n), removeMeta(i, n), Forget(i, n), Return(i)}
             t == purge(i, n) \o <<Return(i)>>
  <2>1. purge(i, n) \in Seq(T) /\ <<Return(i)>> \in Seq(T)
    BY DEF purge
  <2> HIDE DEF T
  <2>2. t \in Seq(T)
    BY <2>1
  <2> HIDE DEF t
  <2>3. Head(<<a, b>> \o t) = a /\ Head(<<a>> \o t) = a
    BY <2>2, Chains
  <2> QED BY <2>3, Zenon DEF t
<1>2. PICK n \in Name, i \in Id :
        \/ plan = <<Remember(i, n, "deleting"), writeMeta(i, n, "deleting", << >>)>> \o (purge(i, n) \o <<Return(i)>>)
        \/ plan = <<writeMeta(i, n, "deleting", << >>)>> \o (purge(i, n) \o <<Return(i)>>)
  BY Zenon DEF Deleting
<1>3. Head(plan) = Remember(i, n, "deleting") \/ Head(plan) = writeMeta(i, n, "deleting", << >>)
  <2>1. PICK a, b : a = Remember(i, n, "deleting") /\ b = writeMeta(i, n, "deleting", << >>)
    OBVIOUS
  <2>2. Head(<<a, b>> \o (purge(i, n) \o <<Return(i)>>)) = a /\ Head(<<b>> \o (purge(i, n) \o <<Return(i)>>)) = b
    BY <1>1
  <2> QED BY <1>2, <2>1, <2>2, Zenon
<1> QED BY <1>3 DEF Remember, writeMeta

\* Wherever the server dies, the names that are not in pieces are whole.
LEMMA CutShort ==
    ASSUME Inv, OnCourse(plan, content, owner, meta, byName, known, residue), plan # << >>,
           NEW c2 \in Halves(Head(plan)), NEW R2, R2 = residue \cup Moving
    PROVE  Sound(c2, owner, meta, R2)
<1>0. residue \subseteq R2
  OBVIOUS
<1>a. Sound(content, owner, meta, residue) => Sound(content, owner, meta, R2)
  BY <1>0, FewerPromises
<1>b. Sound(c2, owner, meta, residue) => Sound(c2, owner, meta, R2)
  BY <1>0, FewerPromises
<1>1. CASE Clearing(plan, content, owner, meta, byName, known, residue)
  <2>0. PICK n \in Name, i \in Id : \E rest \in Rests(n, i, byName, known, meta) :
            Removing(plan, content, owner, meta, byName, known, residue, n, i, rest)
    BY <1>1 DEF Clearing
  <2>1. PICK rest \in Rests(n, i, byName, known, meta) :
            Removing(plan, content, owner, meta, byName, known, residue, n, i, rest)
    BY <2>0
  <2>2. PICK S : rest \in Seq(S)
    BY RestIsPlan
  <2>3. CASE plan = <<Forget(i, n)>> \o rest
    <3>1. Head(plan) = Forget(i, n)
      BY <2>2, <2>3, Chains
    <3>2. Head(plan).op = "forget"
      BY <3>1 DEF Forget
    <3>3. c2 = content
      BY <3>2, Untouched
    <3> QED BY <1>a, <2>1, <3>3 DEF Removing
  <2>4. CASE Removable(content, owner, meta, byName, known, residue, i, n)
             /\ Head(plan) \in {RemoveAll(n), RemovePolicy(n), removeMeta(i, n)}
    <3>1. Head(plan).op \notin {"init", "removeAll"} \/ Head(plan).name = n
      BY <2>4 DEF RemoveAll, RemovePolicy, removeMeta
    <3>2. Sound(c2, owner, meta, residue)
      BY <2>4, <3>1, HalfWay
    <3> QED BY <1>b, <3>2
  <2>5. plan = <<Forget(i, n)>> \o rest
        \/ (/\ Removable(content, owner, meta, byName, known, residue, i, n)
            /\ \/ plan = <<RemoveAll(n), RemovePolicy(n), removeMeta(i, n), Forget(i, n)>> \o rest
               \/ plan = <<RemovePolicy(n), RemoveAll(n), removeMeta(i, n), Forget(i, n)>> \o rest
               \/ plan = <<RemovePolicy(n), removeMeta(i, n), Forget(i, n)>> \o rest
               \/ plan = <<RemoveAll(n), removeMeta(i, n), Forget(i, n)>> \o rest
               \/ plan = <<removeMeta(i, n), Forget(i, n)>> \o rest)
    BY <2>1, Zenon DEF Removing, Removable
  <2>6. ASSUME NEW a1, NEW a2, NEW a3, NEW a4,
               \/ plan = <<a1, a2>> \o rest \/ plan = <<a1, a2, a3>> \o rest \/ plan = <<a1, a2, a3, a4>> \o rest
        PROVE  Head(plan) = a1
    BY <2>2, <2>6, Chains
  <2>7. PICK a, b, d, e : a = RemoveAll(n) /\ b = RemovePolicy(n) /\ d = removeMeta(i, n) /\ e = Forget(i, n)
    OBVIOUS
  <2>8. CASE /\ Removable(content, owner, meta, byName, known, residue, i, n)
             /\ \/ plan = <<a, b, d, e>> \o rest \/ plan = <<b, a, d, e>> \o rest \/ plan = <<b, d, e>> \o rest
                \/ plan = <<a, d, e>> \o rest \/ plan = <<d, e>> \o rest
    <3>1. Head(plan) = a \/ Head(plan) = b \/ Head(plan) = d
      BY <2>6, <2>8, Zenon
    <3> QED BY <2>4, <2>7, <2>8, <3>1
  <2> QED BY <2>3, <2>5, <2>7, <2>8, Zenon
<1>2. CASE Creating(plan, content, owner, meta, byName, known, residue)
  <2>1. PICK n \in Name, id \in Id, u \in Subject :
          /\ Sound(content, owner, meta, residue)
          /\ plan = Create1(n, id, u) \/ Makes(plan, content, owner, meta, byName, known, residue, n, id, u)
    BY <1>2, CreatingIs
  <2>2. CASE plan = Create1(n, id, u)
    <3>1. Head(plan) = writeMeta(id, n, "creating", << >>)
      BY <2>2, CreateTails, Zenon
    <3>2. Head(plan).op = "writeMeta"
      BY <3>1 DEF writeMeta
    <3> QED BY <1>a, <2>1, <3>2, Untouched
  <2>3. CASE Makes(plan, content, owner, meta, byName, known, residue, n, id, u)
    <3>1. Removable(content, owner, meta, byName, known, residue, id, n)
      BY <2>3 DEF Makes, Made
    <3>2. plan \in {Create2(n, id, u), Create3(n, id, u), Create4(n, id, u), Create5(n, id), Create6(n, id)}
      BY <2>3, Zenon DEF Makes
    <3>a. PICK e1, e2, e3, s1, s2 :
             /\ e1 = rollback(id, n, FALSE, FALSE) /\ e2 = rollback(id, n, TRUE, FALSE)
             /\ e3 = rollback(id, n, TRUE, TRUE) /\ s1 = "creating" /\ s2 = "active"
      OBVIOUS
    <3>3. \/ Head(plan) = Remember(id, n, s1) \/ Head(plan) = InitContent(n, id, e1)
          \/ Head(plan) = WritePolicy(n, id, u, e2) \/ Head(plan) = Remember(id, n, s2)
          \/ Head(plan) = writeMeta(id, n, s2, e3)
      BY <3>2, <3>a, CreateTails, Zenon
    <3>4. Head(plan).op \notin {"init", "removeAll"} \/ Head(plan).name = n
      BY <3>3 DEF Remember, InitContent, WritePolicy, writeMeta
    <3>5. Sound(c2, owner, meta, residue)
      BY <3>1, <3>4, HalfWay
    <3> QED BY <1>b, <3>5
  <2> QED BY <2>1, <2>2, <2>3
<1>3. CASE Returning(plan, content, owner, meta, byName, known, residue)
  <2>1. PICK id \in Id : plan = <<Return(id)>> /\ Settled(content, owner, meta, byName, known, residue)
    BY <1>3 DEF Returning
  <2>2. Head(plan) = Return(id)
    BY <2>1, Tuples
  <2>3. Head(plan).op = "return"
    BY <2>2 DEF Return
  <2> QED BY <1>a, <2>1, <2>3, Untouched DEF Settled
<1>4. CASE Deleting(plan, content, owner, meta, byName, known, residue)
  <2>1. Sound(content, owner, meta, residue)
    BY <1>4 DEF Deleting
  <2>2. Head(plan).op \in {"remember", "writeMeta"}
    BY <1>4, DeletingHead
  <2> QED BY <1>a, <2>1, <2>2, Untouched
<1>5. CASE Renaming(plan, content, owner, meta, byName, known, residue)
  <2>1. PICK x \in Name, n \in Name, i \in Id : \E s \in {"active", "archived"} :
          x # n /\ RenamingTo(plan, content, owner, meta, byName, known, residue, x, n, i, s)
    BY <1>5 DEF Renaming
  <2>2. PICK s \in {"active", "archived"} :
          x # n /\ RenamingTo(plan, content, owner, meta, byName, known, residue, x, n, i, s)
    BY <2>1
  <2>3. CASE plan = Rename1(x, n, i, s) /\ Settled(content, owner, meta, byName, known, residue)
    <3>1. Head(plan) = MoveContent(x, n, FALSE)
      <4>1. Goes(Rename1(x, n, i, s), MoveContent(x, n, FALSE), Rename2(x, n, i, s))
        BY RenameTails, Zenon
      <4> QED BY <2>3, <4>1, Zenon DEF Goes
    <3>2. Head(plan).op = "moveContent"
      BY <3>1 DEF MoveContent
    <3> QED BY <1>a, <2>3, <3>2, Untouched DEF Settled
  <2>4. CASE /\ Between(content, owner, meta, residue, x, n, i, s)
             /\ Underway(plan, x, n, i, s)
    <3>1. c2 = content
      BY <2>4, RenamingHead
    <3>2. {x, n} \subseteq R2
      <4>1. CASE x \in residue
        BY <2>4, <4>1 DEF Between
      <4>2. CASE x \notin residue
        <5>1. meta[i].name = x
          BY <2>4, <4>2 DEF Between
        <5>2. {x, n} \subseteq Moving
          BY <2>2, <2>4, <5>1, MovingBoth
        <5> QED BY <5>2
      <4> QED BY <4>1, <4>2
    <3>3. residue \cup {x, n} \subseteq R2
      BY <3>2
    <3> QED BY <2>4, <3>1, <3>3 DEF Between, Sound
  <2> QED BY <2>2, <2>3, <2>4, Zenon DEF RenamingTo, Underway
<1> QED BY <1>1, <1>2, <1>3, <1>4, <1>5 DEF OnCourse

----------------------------------------------------------------------------
(* A repository is whole                                                   *)

\* The index is loaded between operations.
LEMMA WholeLoading ==
    ASSUME Inv, WholeInv, Idle, NEW f \in load, Loads(f), UNCHANGED <<content, policy, meta, plan, residue>>
    PROVE  WholeInv'
<1>1. Settled(content, owner, meta, f, records, residue)
  BY LoadSettled
<1>2. byName' = f /\ known' = records /\ loaded' = TRUE /\ owner' = owner
  BY DEF Loads, owner
<1>3. OnCourse(plan, content, owner, meta, f, records, residue)
  BY <1>1 DEF OnCourse, Idle
<1> QED BY <1>2, <1>3 DEF WholeInv

\* An operation begins.
LEMMA WholeStarting ==
    ASSUME NEW f, Loads(f), UNCHANGED <<content, policy, meta, residue>>,
           OnCourse(plan', content, owner, meta, f, records, residue)
    PROVE  WholeInv'
<1>1. byName' = f /\ known' = records /\ loaded' = TRUE /\ owner' = owner
  BY DEF Loads, owner
<1> QED BY <1>1 DEF WholeInv

\* What Create and Rename remove is not live.
LEMMA ReclaimsDead ==
    ASSUME Inv, NEW f \in load, NEW n \in Name, ~live(StateOf(f, n))
    PROVE  \/ Reclaim(f, n) = << >> /\ f[n] \notin Id
           \/ /\ f[n] \in Id /\ f[n] # Nobody /\ ~live(records[f[n]].state)
              /\ Reclaim(f, n) = purge(f[n], n)
<1>1. /\ f \in [Name -> Given \cup {Nobody}] /\ records \in Records /\ Agree(f, records)
  BY LoadAgrees DEF Inv, ManagerInv
<1>2. Given \subseteq Id /\ Nobody \notin Id
  BY GivenIds DEF Inv, ManagerInv
<1>3. CASE f[n] = Nobody
  BY <1>2, <1>3 DEF Reclaim, StateOf
<1>4. CASE f[n] # Nobody
  <2>1. PICK i \in Id : i = f[n] /\ records[i].name = n
    BY <1>1, <1>2, <1>4 DEF Agree
  <2>2. records[i] # NoRecord
    BY <2>1, NoRecordFields, NameAssumption
  <2>3. records[i].state # "none"
    BY <1>1, <2>2, RecordFields DEF Records
  <2>4. StateOf(f, n) = records[i].state
    BY <1>4, <2>1 DEF StateOf
  <2> QED BY <1>4, <2>1, <2>3, <2>4 DEF Reclaim
<1> QED BY <1>3, <1>4

\* Create answers at once, or begins its plan.
LEMMA WholeCreate ==
    ASSUME Inv, WholeInv, NEW r \in Request, NEW n \in Name, NEW u \in Subject, Create(r, n, u)
    PROVE  WholeInv'
<1>1. PICK f \in load :
          \/ Loads(f) /\ UNCHANGED <<plan, request, created, ops>>
          \/ ~live(StateOf(f, n)) /\ Starts(f, CreatePlan(f, n, created + 1, u))
  BY DEF Create
<1>2. Idle /\ created < MaxRepos /\ UNCHANGED <<content, policy, meta, residue>>
  BY DEF Create, disk, ghosts
<1>3. CASE Loads(f) /\ UNCHANGED <<plan, request, created, ops>>
  BY <1>2, <1>3, WholeLoading
<1>4. CASE ~live(StateOf(f, n)) /\ Starts(f, CreatePlan(f, n, created + 1, u))
  <2>1. Loads(f) /\ plan' = CreatePlan(f, n, created + 1, u)
    BY <1>4 DEF Starts
  <2>2. PICK id \in Id : id = created + 1 /\ id > created
    BY <1>2 DEF Inv, ManagerInv, StoresTyped, Id
  <2>3. /\ records \in Records /\ Agree(f, records) /\ residue \subseteq Name
        /\ meta[id] = NoRecord /\ records[id] = NoRecord
    BY <2>2, LoadAgrees DEF Inv, ManagerInv, StoresTyped
  <2>4. Settled(content, owner, meta, f, records, residue)
    BY <1>2, LoadSettled
  <2>5. PICK k, q : k = records /\ q = Reclaim(f, n)
    OBVIOUS
  <2>6. \/ q = << >> /\ f[n] \notin Id
        \/ f[n] \in Id /\ f[n] # Nobody /\ ~live(k[f[n]].state) /\ q = purge(f[n], n)
    BY <1>4, <2>5, ReclaimsDead
  <2>7. OnCourse(q \o Create1(n, id, u), content, owner, meta, f, k, residue)
    <3>1. k \in Records /\ Agree(f, k) /\ k[id] = NoRecord /\ Settled(content, owner, meta, f, k, residue)
      BY <2>3, <2>4, <2>5
    <3> QED BY <2>3, <2>6, <3>1, CreateBegins
  <2>8. plan' = q \o Create1(n, id, u)
    BY <2>1, <2>2, <2>5, Zenon DEF CreatePlan, Create1
  <2> QED BY <1>2, <2>1, <2>5, <2>7, <2>8, WholeStarting
<1> QED BY <1>1, <1>3, <1>4

\* Delete answers at once, or begins its plan.
LEMMA WholeDelete ==
    ASSUME Inv, WholeInv, NEW r \in Request, Delete(r)
    PROVE  WholeInv'
<1> DEFINE n == request[r].name
<1>n. n \in Name
  BY AuthorizedNames DEF Inv, Delete
<1>1. PICK f \in load :
          \/ Loads(f) /\ UNCHANGED plan
          \/ live(StateOf(f, n)) /\ Starts(f, DeletePlan(n, f[n]))
  BY DEF Delete
<1>2. Idle /\ UNCHANGED <<content, policy, meta, residue>>
  BY DEF Delete, disk, ghosts
<1> HIDE DEF n
<1>3. CASE Loads(f) /\ UNCHANGED plan
  BY <1>2, <1>3, WholeLoading
<1>4. CASE live(StateOf(f, n)) /\ Starts(f, DeletePlan(n, f[n]))
  <2>1. Loads(f) /\ plan' = DeletePlan(n, f[n])
    BY <1>4 DEF Starts
  <2>2. Agree(f, records) /\ residue \subseteq Name /\ f[n] \in Given /\ Given \subseteq Id /\ Nobody \notin Id
    BY <1>4, <1>n, LoadAgrees, LiveOnes, GivenIds DEF Inv, ManagerInv, StoresTyped, Given
  <2>3. PICK id \in Id : id = f[n] /\ records[id].name = n
    BY <1>n, <2>2 DEF Agree
  <2>4. Settled(content, owner, meta, f, records, residue)
    BY <1>2, LoadSettled
  <2>5. PICK k : k = records
    OBVIOUS
  <2>6. OnCourse(DeletePlan(n, id), content, owner, meta, f, k, residue)
    BY <1>n, <2>2, <2>3, <2>4, <2>5, DeleteBegins
  <2> QED BY <1>2, <2>1, <2>3, <2>5, <2>6, WholeStarting
<1> QED BY <1>1, <1>3, <1>4

\* Rename answers at once, or begins its plan.
LEMMA WholeRename ==
    ASSUME Inv, WholeInv, NEW r \in Request, Rename(r)
    PROVE  WholeInv'
<1> DEFINE x == request[r].name
           n == request[r].want.to
<1>n. x \in Name /\ n \in Name
  BY AuthorizedNames DEF Inv, Rename
<1>1. PICK f \in load :
          \/ Loads(f) /\ UNCHANGED plan
          \/ /\ live(StateOf(f, x)) /\ (x = n \/ ~live(StateOf(f, n)))
             /\ Starts(f, RenamePlan(f, x, n, f[x]))
  BY DEF Rename
<1>2. Idle /\ UNCHANGED <<content, policy, meta, residue>>
  BY DEF Rename, disk, ghosts
<1> HIDE DEF n, x
<1>3. CASE Loads(f) /\ UNCHANGED plan
  BY <1>2, <1>3, WholeLoading
<1>4. CASE /\ live(StateOf(f, x)) /\ (x = n \/ ~live(StateOf(f, n)))
           /\ Starts(f, RenamePlan(f, x, n, f[x]))
  <2>1. Loads(f) /\ plan' = RenamePlan(f, x, n, f[x])
    BY <1>4 DEF Starts
  <2>2. /\ records \in Records /\ Agree(f, records) /\ residue \subseteq Name
        /\ f[x] \in Given /\ Given \subseteq Id /\ Nobody \notin Id
    BY <1>4, <1>n, LoadAgrees, LiveOnes, GivenIds DEF Inv, ManagerInv, StoresTyped, Given
  <2>3. PICK id \in Id : id = f[x] /\ id # Nobody
    BY <2>2
  <2>4. Settled(content, owner, meta, f, records, residue)
    BY <1>2, LoadSettled
  <2>5. PICK k, q : k = records /\ q = Reclaim(f, n)
    OBVIOUS
  <2>6. live(k[id].state)
    BY <1>4, <2>3, <2>5 DEF StateOf
  <2>7. CASE x = n
    <3>1. plan' = <<Return(id)>>
      BY <2>1, <2>3, <2>7 DEF RenamePlan
    <3>2. OnCourse(<<Return(id)>>, content, owner, meta, f, records, residue)
      BY <2>4 DEF OnCourse, Returning
    <3> QED BY <1>2, <2>1, <3>1, <3>2, WholeStarting
  <2>8. CASE x # n
    <3>1. \/ q = << >> /\ f[n] \notin Id
          \/ f[n] \in Id /\ f[n] # Nobody /\ ~live(k[f[n]].state) /\ q = purge(f[n], n)
      BY <1>4, <1>n, <2>5, <2>8, ReclaimsDead
    <3>2. OnCourse(q \o Rename1(x, n, id, k[id].state), content, owner, meta, f, k, residue)
      <4>1. k \in Records /\ Agree(f, k) /\ Settled(content, owner, meta, f, k, residue)
        BY <2>2, <2>4, <2>5
      <4> QED BY <1>n, <2>2, <2>3, <2>6, <2>8, <3>1, <4>1, RenameBegins
    <3>3. plan' = q \o Rename1(x, n, id, k[id].state)
      BY <2>1, <2>3, <2>5, <2>8, Zenon DEF RenamePlan, Rename1
    <3> QED BY <1>2, <2>1, <2>5, <3>2, <3>3, WholeStarting
  <2> QED BY <2>7, <2>8
<1> QED BY <1>1, <1>3, <1>4

\* The server dies.
LEMMA WholeCrash ==
    ASSUME Inv, WholeInv, Crash
    PROVE  WholeInv'
<1>1. PICK c2, R2 : c2 = content' /\ R2 = residue' /\ R2 = residue \cup Moving
  BY DEF Crash
<1>2. plan' = << >> /\ loaded' = FALSE /\ meta' = meta /\ owner' = owner
  BY DEF Crash, owner
<1>3. Sound(c2, owner, meta, R2)
  <2>1. CASE Idle
    <3>1. c2 = content /\ Sound(content, owner, meta, residue)
      BY <1>1, <2>1, OverIsSettled DEF Crash, WholeInv, Settled, Idle
    <3> QED BY <1>1, <3>1, FewerPromises
  <2>2. CASE ~Idle
    <3>1. plan # << >> /\ OnCourse(plan, content, owner, meta, byName, known, residue)
      BY <2>2 DEF WholeInv, Idle
    <3>2. c2 \in Halves(Head(plan))
      BY <1>1, <2>2 DEF Crash
    <3> QED BY <1>1, <3>1, <3>2, CutShort
  <2> QED BY <2>1, <2>2
<1> QED BY <1>1, <1>2, <1>3 DEF WholeInv

\* At first nothing is stored.
LEMMA WholeInit == Init => WholeInv
<1> SUFFICES ASSUME Init PROVE WholeInv
  OBVIOUS
<1>1. plan = << >> /\ loaded = FALSE
  BY DEF Init
<1>2. ASSUME NEW n \in Name PROVE Whole(content, owner, meta, n)
  <2>1. content[n] \notin Id /\ owner[n] \notin Id
    BY DEF Init, owner, NoPolicy, Nobody, Id
  <2>2. Named(meta, n) = {}
    BY NoRecordFields, NameAssumption DEF Init, Named
  <2> QED BY <2>1, <2>2, WholeWhenBare
<1> QED BY <1>1, <1>2 DEF WholeInv, Sound

\* Every step of every request, of the manager and of the operator keeps it.
LEMMA WholeStep == Inv /\ WholeInv /\ [Next]_vars => WholeInv'
<1> SUFFICES ASSUME Inv, WholeInv, [Next]_vars PROVE WholeInv'
  OBVIOUS
<1>1. ASSUME UNCHANGED <<content, policy, meta, byName, known, loaded, plan, residue>> PROVE WholeInv'
  <2>1. owner' = owner
    BY <1>1 DEF owner
  <2> QED BY <1>1, <2>1 DEF WholeInv
<1>2. ASSUME NEW r \in Request, NEW n \in Name, NEW u \in Subject, Create(r, n, u) PROVE WholeInv'
  BY <1>2, WholeCreate
<1>3. ASSUME NEW r \in Request, NEW n \in Name, NEW u \in Subject, NEW want \in Want, Arrive(r, n, u, want)
      PROVE  WholeInv'
  BY <1>1, <1>3 DEF Arrive, disk, memory, ghosts
<1>4. ASSUME NEW r \in Request, Stat(r) \/ Lookup(r) \/ Authorize(r) \/ Open(r) PROVE WholeInv'
  BY <1>1, <1>4 DEF Stat, Lookup, Authorize, Open, disk, memory, ghosts
<1>5. ASSUME NEW r \in Request, Servable(r) \/ Get(r) PROVE WholeInv'
  <2>1. PICK f \in load : Loads(f)
    BY <1>5 DEF Servable, Get
  <2>2. Idle /\ UNCHANGED <<content, policy, meta, plan, residue>>
    BY <1>5 DEF Servable, Get, disk, ghosts
  <2> QED BY <2>1, <2>2, WholeLoading
<1>6. ASSUME NEW r \in Request, Delete(r) \/ Rename(r) PROVE WholeInv'
  BY <1>6, WholeDelete, WholeRename
<1>7. CASE Step \/ Fail
  <2>1. plan # << >>
    BY <1>7 DEF Step, Fail
  <2>2. loaded /\ OnCourse(plan, content, owner, meta, byName, known, residue)
    BY <2>1 DEF WholeInv
  <2>3. OnCourse(plan', content', owner', meta', byName', known', residue') /\ loaded' = loaded
    BY <1>7, <2>1, <2>2, ClearingGoes, CreatingGoes, ReturningGoes, DeletingGoes, RenamingGoes DEF OnCourse
  <2> QED BY <2>2, <2>3 DEF WholeInv
<1>8. CASE Crash
  BY <1>8, WholeCrash
<1>9. ASSUME NEW n \in Name, NEW g \in Edits, NEW ok \in BOOLEAN, Edit(n, g, ok) PROVE WholeInv'
  <2>1. owner' = owner
    <3>1. DOMAIN policy = Name
      BY Owners DEF Inv
    <3>2. policy' = [policy EXCEPT ![n] = [of |-> policy[n].of, stamp |-> stamp + 1, ok |-> ok, grants |-> g]]
      BY <1>9, <3>1 DEF Edit
    <3>3. \A x \in Name : policy'[x].of = policy[x].of
      BY <3>1, <3>2
    <3> QED BY <3>3 DEF owner
  <2>2. UNCHANGED <<content, meta, byName, known, loaded, plan, residue>>
    BY <1>9 DEF Edit, memory, ghosts
  <2> QED BY <2>1, <2>2 DEF WholeInv
<1>10. CASE UNCHANGED vars
  BY <1>1, <1>10 DEF vars, disk, memory, ghosts
<1> QED BY <1>2, <1>3, <1>4, <1>5, <1>6, <1>7, <1>8, <1>9, <1>10 DEF Next

\* Every plan is somewhere on its course in every reachable state, whatever fails and
\* crashes: what the phase of an operation says of the names, the records and the index
\* holds (Create, Delete and Rename, with rollback and purge).
THEOREM WholeInvariant == Spec => []WholeInv
  BY RepositoriesInvariant, WholeInit, WholeStep, PTL DEF Spec

\* Between operations a repository is whole or it is not there, whatever failed or crashed
\* before, but for the names where the code promises nothing (Create, Delete, Rename).
THEOREM AlwaysServedWhole == Spec => []ServedWhole
<1>1. Inv /\ WholeInv => ServedWhole
  <2> SUFFICES ASSUME Inv, WholeInv, Idle, NEW n \in Name \ residue
               PROVE  /\ \A i \in Id : (live(meta[i].state) /\ meta[i].name = n) => content[n] = i /\ policy[n].of = i
                      /\ content[n] \in Id => meta[content[n]].name = n
                      /\ policy[n] # NoPolicy => meta[policy[n].of].name = n
                      /\ (loaded /\ byName[n] # Nobody /\ live(known[byName[n]].state))
                            => meta[byName[n]] = known[byName[n]]
    BY DEF ServedWhole
  <2>1. Sound(content, owner, meta, residue)
        /\ (loaded => Current(byName, known, meta, residue, {}, {}))
    BY OverIsSettled DEF WholeInv, Idle, Settled
  <2>2. Whole(content, owner, meta, n)
    BY <2>1 DEF Sound
  <2>3. owner[n] = policy[n].of /\ (policy[n] = NoPolicy <=> owner[n] \notin Id)
    BY Owners DEF Inv
  <2>4. \A i \in Id : (live(meta[i].state) /\ meta[i].name = n) => content[n] = i /\ policy[n].of = i
    BY <2>2, <2>3 DEF Whole, Named
  <2>5. (content[n] \in Id => meta[content[n]].name = n) /\ (policy[n] # NoPolicy => meta[policy[n].of].name = n)
    BY <2>2, <2>3 DEF Whole, Named
  <2>6. ASSUME loaded, byName[n] # Nobody, live(known[byName[n]].state) PROVE meta[byName[n]] = known[byName[n]]
    <3>1. PICK i \in Id : i = byName[n] /\ known[i].name = n
      BY <2>6, GivenIds DEF Inv, ManagerInv, StoresTyped, IndexAgrees, Agree
    <3>2. known[i] # NoRecord
      BY <3>1, NoRecordFields, NameAssumption
    <3>3. Synced(known, meta, residue, i)
      BY <2>1, <2>6 DEF Current
    <3> QED BY <3>1, <3>2, <3>3 DEF Synced
  <2> QED BY <2>4, <2>5, <2>6
<1> QED BY <1>1, RepositoriesInvariant, WholeInvariant, PTL
=============================================================================
