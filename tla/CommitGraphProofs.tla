-------------------------- MODULE CommitGraphProofs --------------------------
(***************************************************************************)
(* What the walks of CommitGraph find in every commit graph, over every    *)
(* store: Reach is the least set closed under parents, MergeBase answers   *)
(* with common ancestors and finds one when there is one, and the commits  *)
(* Enumerate sends complete what its receiver has.                         *)
(***************************************************************************)
EXTENDS CommitGraph, Integers, FiniteSetTheorems, SequenceTheorems, WellFoundedInduction, TLAPS

----------------------------------------------------------------------------
(* Induction and recursion, over the natural numbers and down a graph, in  *)
(* the form the provers can use: about sets and functions, without         *)
(* operator parameters.  What the loops and the recursive functions of the *)
(* models compute is proved from these facts, here and in the other proofs.*)

\* Every set of natural numbers with an element has a least one.
THEOREM LeastNatural ==
    ASSUME NEW T \in SUBSET Nat, T # {}
    PROVE  \E x \in T : \A y \in T : x <= y
<1> DEFINE R == {ss \in Nat \X Nat : ss[1] < ss[2]}
<1>1. IsWellFoundedOn(R, Nat)
  BY NatLessThanWellFounded DEF OpToRel
<1>2. PICK x \in T : \A y \in T : ~ (<<y, x>> \in R)
  <2> HIDE DEF R
  <2> QED BY <1>1, WFMin
<1>3. \A y \in T : ~(y < x)
  BY <1>2
<1> QED BY <1>3

\* A set with 0 that is closed under successor has every natural number.
THEOREM SetInduction ==
    ASSUME NEW T, 0 \in T, \A n \in Nat : n \in T => n + 1 \in T
    PROVE  \A n \in Nat : n \in T
<1> SUFFICES ASSUME Nat \ T # {} PROVE FALSE
  OBVIOUS
<1>1. PICK x \in Nat \ T : \A y \in Nat \ T : x <= y
  BY LeastNatural
<1>2. x # 0 /\ x - 1 \in Nat
  BY <1>1
<1>3. x - 1 \in T
  BY <1>1, <1>2
<1> QED BY <1>1, <1>2, <1>3

\* The first n steps of the iteration of F from a.
Chain(F, S, a, n) ==
    {f \in [0..n -> S] : f[0] = a /\ \A i \in 0..(n - 1) : f[i + 1] = F[f[i]]}

\* Two chains from the same start agree as far as both go.
LEMMA ChainsAgree ==
    ASSUME NEW S, NEW F \in [S -> S], NEW a \in S, NEW n \in Nat, NEW m \in Nat,
           NEW f \in Chain(F, S, a, n), NEW g \in Chain(F, S, a, m), n <= m
    PROVE  f[n] = g[n]
<1> DEFINE T == {i \in Nat : i <= n => f[i] = g[i]}
<1>1. 0 \in T
  BY DEF Chain
<1>2. ASSUME NEW i \in Nat, i \in T PROVE i + 1 \in T
  <2> SUFFICES ASSUME i + 1 <= n PROVE f[i + 1] = g[i + 1]
    OBVIOUS
  <2>1. i \in 0..(n - 1) /\ i \in 0..(m - 1) /\ f[i] = g[i]
    BY <1>2
  <2> QED BY <2>1 DEF Chain
<1>3. n \in T
  <2> HIDE DEF T
  <2> QED BY <1>1, <1>2, SetInduction
<1> QED BY <1>3

\* Chains of every length exist.
LEMMA ChainsExist ==
    ASSUME NEW S, NEW F \in [S -> S], NEW a \in S
    PROVE  \A n \in Nat : Chain(F, S, a, n) # {}
<1> DEFINE T == {n \in Nat : Chain(F, S, a, n) # {}}
<1>1. 0 \in T
  <2>1. [i \in 0..0 |-> a] \in Chain(F, S, a, 0)
    BY DEF Chain
  <2> QED BY <2>1
<1>2. ASSUME NEW n \in Nat, n \in T PROVE n + 1 \in T
  <2>1. PICK f \in Chain(F, S, a, n) : TRUE
    BY <1>2
  <2> DEFINE g == [i \in 0..(n + 1) |-> IF i = n + 1 THEN F[f[n]] ELSE f[i]]
  <2>2. f \in [0..n -> S] /\ f[0] = a /\ \A i \in 0..(n - 1) : f[i + 1] = F[f[i]]
    BY <2>1 DEF Chain
  <2>3. g \in [0..(n + 1) -> S] /\ g[0] = a
    BY <2>2
  <2>4. ASSUME NEW i \in 0..n PROVE g[i + 1] = F[g[i]]
    <3>1. CASE i = n
      BY <3>1
    <3>2. CASE i # n
      BY <2>2, <3>2
    <3> QED BY <3>1, <3>2
  <2>5. g \in Chain(F, S, a, n + 1)
    <3>1. (n + 1) - 1 = n
      OBVIOUS
    <3> HIDE DEF g
    <3> QED BY <2>3, <2>4, <3>1 DEF Chain
  <2> QED BY <2>5
<1> HIDE DEF T
<1>3. \A n \in Nat : n \in T
  BY <1>1, <1>2, SetInduction
<1> QED BY <1>3 DEF T

\* w is the sequence of values of a loop whose body is the function F, started at a.
Iterates(w, F, S, a) ==
    /\ w \in [Nat -> S]
    /\ w[0] = a
    /\ \A n \in Nat : w[n + 1] = F[w[n]]

\* A loop whose body is the function F runs through a sequence of values from every start.
THEOREM IterationExists ==
    ASSUME NEW S, NEW F \in [S -> S], NEW a \in S
    PROVE  \E w : Iterates(w, F, S, a)
<1> DEFINE c(n) == CHOOSE f : f \in Chain(F, S, a, n)
           w == [n \in Nat |-> c(n)[n]]
<1>1. \A n \in Nat : c(n) \in Chain(F, S, a, n)
  BY ChainsExist
<1> HIDE DEF c
<1>2. w \in [Nat -> S] /\ w[0] = a
  BY <1>1 DEF Chain
<1>3. ASSUME NEW n \in Nat PROVE w[n + 1] = F[w[n]]
  <2>1. c(n + 1)[n + 1] = F[c(n + 1)[n]]
    BY <1>1 DEF Chain
  <2>2. c(n)[n] = c(n + 1)[n]
    BY <1>1, ChainsAgree
  <2> QED BY <2>1, <2>2
<1> QED BY <1>2, <1>3 DEF Iterates

\* f holds the values of a loop over the places 1..n whose body is the function F.
Loops(f, F, S, n, a) ==
    /\ f \in [0..n -> S]
    /\ f[0] = a
    /\ \A i \in 1..n : f[i] = F[<<i, f[i - 1]>>]

\* A loop over the places of a sequence runs through a sequence of values from every start.
THEOREM LoopExists ==
    ASSUME NEW S, NEW n \in Nat, NEW F \in [(1..n) \X S -> S], NEW a \in S
    PROVE  \E f : Loops(f, F, S, n, a)
<1> DEFINE T == {m \in Nat : m <= n => \E f : Loops(f, F, S, m, a)}
<1>1. 0 \in T
  <2> DEFINE f == [i \in 0..0 |-> a]
  <2>1. Loops(f, F, S, 0, a)
    BY DEF Loops
  <2> QED BY <2>1
<1>2. ASSUME NEW m \in Nat, m \in T PROVE m + 1 \in T
  <2> SUFFICES ASSUME m + 1 <= n PROVE \E f : Loops(f, F, S, m + 1, a)
    OBVIOUS
  <2>1. PICK f : Loops(f, F, S, m, a)
    BY <1>2
  <2> DEFINE g == [i \in 0..(m + 1) |-> IF i = m + 1 THEN F[<<m + 1, f[m]>>] ELSE f[i]]
  <2>2. f \in [0..m -> S] /\ f[0] = a /\ \A i \in 1..m : f[i] = F[<<i, f[i - 1]>>]
    BY <2>1 DEF Loops
  <2>3. F[<<m + 1, f[m]>>] \in S
    <3>1. <<m + 1, f[m]>> \in (1..n) \X S
      BY <2>2
    <3> QED BY <3>1
  <2>4. g \in [0..(m + 1) -> S] /\ g[0] = a
    BY <2>2, <2>3
  <2>5. ASSUME NEW i \in 1..(m + 1) PROVE g[i] = F[<<i, g[i - 1]>>]
    <3>1. CASE i = m + 1
      BY <3>1, SMTT(30)
    <3>2. CASE i # m + 1
      <4>1. i \in 1..m /\ i - 1 \in 0..m /\ i - 1 # m + 1 /\ i \in 0..(m + 1) /\ i - 1 \in 0..(m + 1)
        BY <3>2
      <4> QED BY <2>2, <3>2, <4>1
    <3> QED BY <3>1, <3>2
  <2>6. Loops(g, F, S, m + 1, a)
    <3> HIDE DEF g
    <3> QED BY <2>4, <2>5 DEF Loops
  <2> QED BY <2>6
<1>3. n \in T
  <2> HIDE DEF T
  <2> QED BY <1>1, <1>2, SetInduction
<1> QED BY <1>3

----------------------------------------------------------------------------
(* Descent through a graph: from each t in T to what E[t] lists, in T or   *)
(* in B, without entering ex.                                              *)

\* No element of T is listed below itself.
Grounded(T, E) == \A V \in SUBSET T : V # {} => \E t \in V : E[t] \cap V = {}

\* C has what its elements outside ex list outside ex.
Fenced(T, E, ex, C) == \A v \in C \cap T : v \in ex \/ E[v] \ ex \subseteq C

\* What is below t: the least such set with t, nothing when t is itself in ex.
Below(T, B, E, ex, t) ==
    {x \in T \cup B : t \notin ex /\ \A C \in SUBSET (T \cup B) : t \in C /\ Fenced(T, E, ex, C) => x \in C}

\* f collects recursively what is below each element of T.
Descends(f, T, B, E, ex) ==
    \A u \in T : f[u] = IF u \in ex THEN {}
                        ELSE {u} \cup ((E[u] \cap B) \ ex) \cup UNION {f[s] : s \in E[u] \cap T}

\* What is below t has t, and what it lists.
LEMMA BelowFenced ==
    ASSUME NEW T, NEW B, NEW E \in [T -> SUBSET (T \cup B)], NEW ex, NEW t \in T
    PROVE  /\ Below(T, B, E, ex, t) \subseteq T \cup B
           /\ Fenced(T, E, ex, Below(T, B, E, ex, t))
           /\ t \notin ex => t \in Below(T, B, E, ex, t)
           /\ t \in ex => Below(T, B, E, ex, t) = {}
BY DEF Below, Fenced

\* What is below t is in every such set.
LEMMA BelowLeast ==
    ASSUME NEW T, NEW B, NEW E \in [T -> SUBSET (T \cup B)], NEW ex, NEW t \in T,
           NEW C, t \in C, Fenced(T, E, ex, C)
    PROVE  Below(T, B, E, ex, t) \subseteq C
<1> DEFINE D == C \cap (T \cup B)
<1>1. D \in SUBSET (T \cup B) /\ t \in D
  OBVIOUS
<1>2. Fenced(T, E, ex, D)
  BY DEF Fenced
<1>3. D \subseteq C
  OBVIOUS
<1> HIDE DEF D
<1> QED BY <1>1, <1>2, <1>3 DEF Below

\* What is below t is t, the elements of B it lists and what is below the others.
LEMMA BelowUnfolds ==
    ASSUME NEW T, NEW B, NEW E \in [T -> SUBSET (T \cup B)], NEW ex
    PROVE  Descends([u \in T |-> Below(T, B, E, ex, u)], T, B, E, ex)
<1> DEFINE g == [u \in T |-> Below(T, B, E, ex, u)]
<1>0. \A u \in T : g[u] = Below(T, B, E, ex, u)
  OBVIOUS
<1> HIDE DEF g
<1> SUFFICES ASSUME NEW u \in T
             PROVE  g[u] = IF u \in ex THEN {}
                           ELSE {u} \cup ((E[u] \cap B) \ ex) \cup UNION {g[s] : s \in E[u] \cap T}
  BY DEF Descends, g
<1>1. CASE u \in ex
  BY <1>0, <1>1, BelowFenced
<1>2. CASE u \notin ex
  <2> DEFINE R == {u} \cup ((E[u] \cap B) \ ex) \cup UNION {g[s] : s \in E[u] \cap T}
  <2>1. u \in g[u] /\ Fenced(T, E, ex, g[u])
    BY <1>0, <1>2, BelowFenced
  <2>2. E[u] \ ex \subseteq g[u] /\ E[u] \subseteq T \cup B
    BY <1>2, <2>1 DEF Fenced
  <2>3. ASSUME NEW s \in E[u] \cap T PROVE g[s] \subseteq g[u]
    <3>1. CASE s \in ex
      BY <1>0, <3>1, BelowFenced
    <3>2. CASE s \notin ex
      <4>1. s \in g[u]
        BY <2>2, <3>2
      <4> QED BY <1>0, <2>1, <4>1, BelowLeast
    <3> QED BY <3>1, <3>2
  <2>4. R \subseteq g[u]
    BY <2>1, <2>2, <2>3
  <2>5. \A s \in E[u] \cap T : g[s] \subseteq R
    OBVIOUS
  <2>6. u \in R /\ (E[u] \cap B) \ ex \subseteq R
    OBVIOUS
  <2>7. ASSUME NEW v \in R PROVE v = u \/ v \in (E[u] \cap B) \ ex \/ \E s \in E[u] \cap T : v \in g[s]
    OBVIOUS
  <2> HIDE DEF R
  <2>8. \A s \in E[u] \cap T : Fenced(T, E, ex, g[s]) /\ (s \notin ex => s \in g[s])
    BY <1>0, BelowFenced
  <2>9. ASSUME NEW v \in R \cap T, v \notin ex PROVE E[v] \ ex \subseteq R
    <3>1. CASE v = u
      BY <2>2, <2>5, <2>6, <2>8, <3>1
    <3>2. ASSUME NEW s \in E[u] \cap T, v \in g[s] PROVE E[v] \ ex \subseteq R
      <4>1. E[v] \ ex \subseteq g[s]
        BY <2>8, <2>9, <3>2 DEF Fenced
      <4> QED BY <2>5, <4>1
    <3>3. CASE v \in (E[u] \cap B) \ ex
      <4>1. v \in E[u] \cap T /\ v \in g[v]
        BY <2>8, <2>9, <3>3
      <4> QED BY <3>2, <4>1
    <3> QED BY <2>7, <3>1, <3>2, <3>3
  <2>10. Fenced(T, E, ex, R)
    BY <2>9 DEF Fenced
  <2>11. g[u] \subseteq R
    BY <1>0, <2>6, <2>10, BelowLeast
  <2> QED BY <1>2, <2>4, <2>11 DEF R
<1> QED BY <1>1, <1>2

\* The recursion has one solution when no element is below itself.
THEOREM DescentFinds ==
    ASSUME NEW T, NEW B, NEW E \in [T -> SUBSET (T \cup B)], NEW ex, Grounded(T, E),
           NEW f, Descends(f, T, B, E, ex), NEW t \in T
    PROVE  f[t] = Below(T, B, E, ex, t)
<1> DEFINE g == [u \in T |-> Below(T, B, E, ex, u)]
           V == {u \in T : f[u] # g[u]}
<1>1. Descends(g, T, B, E, ex)
  BY BelowUnfolds
<1>2. g[t] = Below(T, B, E, ex, t)
  OBVIOUS
<1> HIDE DEF g
<1>3. ASSUME V # {} PROVE FALSE
  <2>1. PICK u \in V : E[u] \cap V = {}
    BY <1>3 DEF Grounded
  <2>2. \A s \in E[u] \cap T : f[s] = g[s]
    BY <2>1
  <2>3. u \in T /\ f[u] # g[u]
    OBVIOUS
  <2>4. {f[s] : s \in E[u] \cap T} = {g[s] : s \in E[u] \cap T}
    BY <2>2
  <2> QED BY <1>1, <2>3, <2>4 DEF Descends
<1> QED BY <1>2, <1>3

\* The descent from t as a recursive function.
Descent(T, B, E, ex, t) ==
    LET down[u \in T] == IF u \in ex THEN {}
                         ELSE {u} \cup ((E[u] \cap B) \ ex) \cup UNION {down[s] : s \in E[u] \cap T}
    IN  down[t]

\* It finds what is below t.
THEOREM DescentChosen ==
    ASSUME NEW T, NEW B, NEW E \in [T -> SUBSET (T \cup B)], NEW ex, Grounded(T, E), NEW t \in T
    PROVE  Descent(T, B, E, ex, t) = Below(T, B, E, ex, t)
<1> DEFINE Eq(f) == f = [u \in T |-> IF u \in ex THEN {}
                                     ELSE {u} \cup ((E[u] \cap B) \ ex)
                                              \cup UNION {f[s] : s \in E[u] \cap T}]
           down == CHOOSE f : Eq(f)
           g == [u \in T |-> Below(T, B, E, ex, u)]
<1>1. Descends(g, T, B, E, ex) /\ g = [u \in T |-> g[u]]
  BY BelowUnfolds
<1> HIDE DEF g
<1>2. Eq(g)
  BY <1>1 DEF Descends
<1>3. Eq(down)
  <2> HIDE DEF Eq
  <2> QED BY <1>2
<1>4. Descent(T, B, E, ex, t) = down[t]
  BY DEF Descent
<1> HIDE DEF down
<1>5. Descends(down, T, B, E, ex)
  BY <1>3 DEF Descends
<1> QED BY <1>4, <1>5, DescentFinds

\* A descent that leaves out a set which has what it lists misses nothing outside that set.
THEOREM DescentCompletes ==
    ASSUME NEW T, NEW B, NEW E \in [T -> SUBSET (T \cup B)], NEW ex, Fenced(T, E, {}, ex), NEW t \in T
    PROVE  Below(T, B, E, {}, t) \subseteq Below(T, B, E, ex, t) \cup ex
<1> DEFINE D == Below(T, B, E, ex, t)
<1>1. Fenced(T, E, ex, D) /\ t \in D \cup ex
  BY BelowFenced
<1> HIDE DEF D
<1>2. Fenced(T, E, {}, D \cup ex)
  BY <1>1 DEF Fenced
<1>3. Below(T, B, E, {}, t) \subseteq D \cup ex
  BY <1>1, <1>2, BelowLeast
<1> QED BY <1>3 DEF D

----------------------------------------------------------------------------
(* Sequences and plans: the steps a command has still to make              *)

\* A sequence over a set is one over a larger set.
LEMMA SeqGrows ==
    ASSUME NEW A, NEW B, A \subseteq B, NEW s \in Seq(A)
    PROVE  s \in Seq(B)
<1>1. Len(s) \in Nat /\ DOMAIN s = 1..Len(s) /\ \A i \in 1..Len(s) : s[i] \in A
  BY LenProperties, ElementOfSeq
<1>2. s = [i \in 1..Len(s) |-> s[i]]
  BY LenProperties
<1>3. s \in [1..Len(s) -> B]
  BY <1>1, <1>2
<1> QED BY <1>1, <1>3, SeqDef

\* The steps of p that come before its i-th.
Earlier(p, i) == {p[j] : j \in 1..(i - 1)}

IsPlan(p) == p \in Seq({p[i] : i \in DOMAIN p})

\* A plan without its first step.
LEMMA PlanTail ==
    ASSUME NEW p, IsPlan(p), p # << >>
    PROVE  /\ IsPlan(Tail(p)) /\ Head(p) = p[1] /\ 1 \in DOMAIN p /\ Earlier(p, 1) = {}
           /\ \A i \in DOMAIN Tail(p) : /\ i + 1 \in DOMAIN p /\ Tail(p)[i] = p[i + 1]
                                        /\ Earlier(p, i + 1) = {p[1]} \cup Earlier(Tail(p), i)
<1> DEFINE q == Tail(p)
           S == {p[i] : i \in DOMAIN p}
<1>1. p \in Seq(S) /\ Len(p) \in Nat /\ DOMAIN p = 1..Len(p) /\ Len(p) # 0
  BY DEF IsPlan
<1>2. q \in Seq(S) /\ Len(q) = Len(p) - 1 /\ Head(p) = p[1] /\ \A i \in 1..Len(q) : q[i] = p[i + 1]
  BY <1>1, HeadTailProperties
<1> HIDE DEF q, S
<1>3. DOMAIN q = 1..Len(q) /\ Len(q) \in Nat
  BY <1>2
<1>4. IsPlan(q)
  BY <1>2, <1>3 DEF IsPlan
<1>5. ASSUME NEW i \in DOMAIN q PROVE Earlier(p, i + 1) = {p[1]} \cup Earlier(q, i)
  <2>1. i \in 1..Len(q) /\ i \in Nat
    BY <1>3
  <2>2. ASSUME NEW x \in Earlier(p, i + 1) PROVE x \in {p[1]} \cup Earlier(q, i)
    <3>1. PICK j \in 1..((i + 1) - 1) : x = p[j]
      BY DEF Earlier
    <3>2. CASE j = 1
      BY <3>1, <3>2
    <3>3. CASE j # 1
      <4>1. j - 1 \in 1..(i - 1) /\ j - 1 \in 1..Len(q) /\ (j - 1) + 1 = j
        BY <2>1, <3>1, <3>3, <1>3
      <4>2. q[j - 1] = p[j]
        BY <1>2, <4>1
      <4> QED BY <3>1, <4>1, <4>2 DEF Earlier
    <3> QED BY <3>2, <3>3
  <2>3. p[1] \in Earlier(p, i + 1)
    <3>1. 1 \in 1..((i + 1) - 1)
      BY <2>1
    <3> QED BY <3>1 DEF Earlier
  <2>4. ASSUME NEW x \in Earlier(q, i) PROVE x \in Earlier(p, i + 1)
    <3>1. PICK j \in 1..(i - 1) : x = q[j]
      BY DEF Earlier
    <3>2. j \in 1..Len(q) /\ j + 1 \in 1..((i + 1) - 1)
      BY <2>1, <3>1, <1>3
    <3> QED BY <1>2, <3>1, <3>2 DEF Earlier
  <2> QED BY <2>2, <2>3, <2>4
<1>6. Earlier(p, 1) = {}
  BY DEF Earlier
<1> QED BY <1>1, <1>2, <1>3, <1>4, <1>5, <1>6 DEF q

----------------------------------------------------------------------------
(* Commit graphs                                                           *)

\* A commit graph: parents come before their children.
IsGraph(G) ==
    /\ G \in Seq(Seq(Nat))
    /\ \A c \in DOMAIN G : \A i \in DOMAIN G[c] : G[c][i] \in 1..(c - 1)

----------------------------------------------------------------------------
(* Reach                                                                   *)

\* The equation of Reach for the commits of D.
Ups(G, D, up) == up = [d \in D |-> {d} \cup UNION {up[G[d][i]] : i \in DOMAIN G[d]}]

\* The function that Reach is defined by exists.
LEMMA UpsExist ==
    ASSUME NEW G, IsGraph(G)
    PROVE  \E up : Ups(G, DOMAIN G, up)
<1> DEFINE T == {n \in Nat : n <= Len(G) => \E up : Ups(G, 1..n, up)}
<1>0. Len(G) \in Nat /\ DOMAIN G = 1..Len(G)
  BY DEF IsGraph
<1>1. 0 \in T
  <2> DEFINE f == [d \in 1..0 |-> {}]
  <2>1. Ups(G, 1..0, f)
    BY DEF Ups
  <2> QED BY <2>1
<1>2. ASSUME NEW n \in Nat, n \in T PROVE n + 1 \in T
  <2> SUFFICES ASSUME n + 1 <= Len(G) PROVE \E up : Ups(G, 1..(n + 1), up)
    OBVIOUS
  <2>1. PICK up : Ups(G, 1..n, up)
    BY <1>2, <1>0
  <2> DEFINE U(f, d) == {d} \cup UNION {f[G[d][i]] : i \in DOMAIN G[d]}
             f == [d \in 1..(n + 1) |-> IF d = n + 1 THEN U(up, d) ELSE up[d]]
  <2>2. ASSUME NEW d \in 1..(n + 1) PROVE f[d] = U(f, d)
    <3>1. \A i \in DOMAIN G[d] : G[d][i] \in 1..n /\ G[d][i] # n + 1 /\ G[d][i] \in 1..(n + 1)
      <4>1. d \in DOMAIN G
        BY <1>0
      <4>2. \A i \in DOMAIN G[d] : G[d][i] \in 1..(d - 1)
        BY <4>1 DEF IsGraph
      <4> QED BY <4>2
    <3>2. \A i \in DOMAIN G[d] : f[G[d][i]] = up[G[d][i]]
      BY <3>1
    <3>3. U(f, d) = U(up, d)
      <4> HIDE DEF f
      <4> QED BY <3>2
    <3>4. CASE d = n + 1
      <4>1. f[d] = U(up, d)
        BY <3>4
      <4> QED BY <4>1, <3>3
    <3>5. CASE d # n + 1
      <4>1. f[d] = up[d] /\ d \in 1..n
        BY <3>5
      <4>2. up[d] = U(up, d)
        BY <4>1, <2>1 DEF Ups
      <4> QED BY <4>1, <4>2, <3>3
    <3> QED BY <3>4, <3>5
  <2>3. f = [d \in 1..(n + 1) |-> U(f, d)]
    <3> DEFINE g == [d \in 1..(n + 1) |-> U(f, d)]
    <3>1. DOMAIN f = DOMAIN g /\ \A d \in 1..(n + 1) : f[d] = g[d]
      BY <2>2
    <3>2. f = [d \in 1..(n + 1) |-> f[d]]
      OBVIOUS
    <3> HIDE DEF f
    <3> QED BY <2>2, <3>2
  <2>4. Ups(G, 1..(n + 1), f)
    <3> HIDE DEF f
    <3> QED BY <2>3 DEF Ups
  <2> QED BY <2>4
<1>3. Len(G) \in T
  <2> HIDE DEF T
  <2> QED BY <1>0, <1>1, <1>2, SetInduction
<1>4. \E up : Ups(G, 1..Len(G), up)
  BY <1>3, <1>0
<1> QED BY <1>4, <1>0

\* A commit's ancestors are itself and its parents' ancestors.
LEMMA ReachUnfolds ==
    ASSUME NEW G, IsGraph(G), NEW c \in DOMAIN G
    PROVE  /\ c \in Reach(G, c)
           /\ \A i \in DOMAIN G[c] : Reach(G, G[c][i]) \subseteq Reach(G, c)
           /\ \A d \in Reach(G, c) : d = c \/ \E i \in DOMAIN G[c] : d \in Reach(G, G[c][i])
<1> DEFINE up == CHOOSE up : up = [d \in DOMAIN G |-> {d} \cup UNION {up[G[d][i]] : i \in DOMAIN G[d]}]
<1>0. DOMAIN G = 1..Len(G) /\ Len(G) \in Nat
  BY DEF IsGraph
<1>1. up = [d \in DOMAIN G |-> {d} \cup UNION {up[G[d][i]] : i \in DOMAIN G[d]}]
  <2>1. \E f : f = [d \in DOMAIN G |-> {d} \cup UNION {f[G[d][i]] : i \in DOMAIN G[d]}]
    BY UpsExist DEF Ups
  <2> QED BY <2>1
<1>2. \A d : Reach(G, d) = IF d = NoCommit THEN {} ELSE up[d]
  BY DEF Reach
<1> HIDE DEF up
<1>3. c # NoCommit /\ \A i \in DOMAIN G[c] : G[c][i] # NoCommit
  BY <1>0 DEF IsGraph, NoCommit
<1>4. up[c] = {c} \cup UNION {up[G[c][i]] : i \in DOMAIN G[c]}
  BY <1>1
<1> QED BY <1>2, <1>3, <1>4

\* Ancestors are commits made no later.
LEMMA ReachInGraph ==
    ASSUME NEW G, IsGraph(G), NEW c \in DOMAIN G
    PROVE  Reach(G, c) \subseteq 1..c /\ Reach(G, c) \subseteq DOMAIN G
<1> DEFINE T == {n \in Nat : \A e \in DOMAIN G : e <= n => Reach(G, e) \subseteq 1..e}
<1>0. DOMAIN G = 1..Len(G) /\ Len(G) \in Nat
  BY DEF IsGraph
<1>1. 0 \in T
  BY <1>0
<1>2. ASSUME NEW n \in Nat, n \in T PROVE n + 1 \in T
  <2> SUFFICES ASSUME NEW e \in DOMAIN G, e <= n + 1, NEW d \in Reach(G, e) PROVE d \in 1..e
    OBVIOUS
  <2>1. d = e \/ \E i \in DOMAIN G[e] : d \in Reach(G, G[e][i])
    BY ReachUnfolds
  <2>2. \A i \in DOMAIN G[e] : G[e][i] \in 1..(e - 1)
    BY DEF IsGraph
  <2>3. ASSUME NEW i \in DOMAIN G[e] PROVE Reach(G, G[e][i]) \subseteq 1..(e - 1)
    <3>1. G[e][i] \in DOMAIN G /\ G[e][i] <= n /\ G[e][i] \in 1..(e - 1) /\ e \in Nat
      BY <1>0, <2>2
    <3>2. Reach(G, G[e][i]) \subseteq 1..(G[e][i])
      BY <1>2, <3>1
    <3> QED BY <3>1, <3>2
  <2> QED BY <2>1, <2>3, <1>0
<1>3. c \in T /\ c \in Nat
  <2> HIDE DEF T
  <2> QED BY <1>0, <1>1, <1>2, SetInduction
<1>4. Reach(G, c) \subseteq 1..c
  BY <1>3
<1> QED BY <1>0, <1>4

\* With a commit, Reach has its parents.
LEMMA ReachClosed ==
    ASSUME NEW G, IsGraph(G), NEW c \in DOMAIN G, NEW d \in Reach(G, c), NEW i \in DOMAIN G[d]
    PROVE  G[d][i] \in Reach(G, c)
<1> DEFINE T == {n \in Nat : \A e \in DOMAIN G : e <= n /\ d \in Reach(G, e) => G[d][i] \in Reach(G, e)}
<1>0. DOMAIN G = 1..Len(G) /\ Len(G) \in Nat
  BY DEF IsGraph
<1>1. 0 \in T
  BY <1>0
<1>2. ASSUME NEW n \in Nat, n \in T PROVE n + 1 \in T
  <2> SUFFICES ASSUME NEW e \in DOMAIN G, e <= n + 1, d \in Reach(G, e) PROVE G[d][i] \in Reach(G, e)
    OBVIOUS
  <2>1. CASE d = e
    <3>1. G[e][i] \in DOMAIN G
      BY <1>0, <2>1 DEF IsGraph
    <3>2. G[e][i] \in Reach(G, G[e][i])
      BY <3>1, ReachUnfolds
    <3> QED BY <2>1, <3>2, ReachUnfolds
  <2>2. CASE d # e
    <3>1. PICK j \in DOMAIN G[e] : d \in Reach(G, G[e][j])
      BY <2>2, ReachUnfolds
    <3>2. G[e][j] \in DOMAIN G /\ G[e][j] <= n
      <4>1. G[e][j] \in 1..(e - 1)
        BY DEF IsGraph
      <4> QED BY <4>1, <1>0
    <3>3. G[d][i] \in Reach(G, G[e][j])
      BY <1>2, <3>1, <3>2
    <3> QED BY <3>3, ReachUnfolds
  <2> QED BY <2>1, <2>2
<1>3. c \in T /\ c \in Nat
  <2> HIDE DEF T
  <2> QED BY <1>0, <1>1, <1>2, SetInduction
<1> QED BY <1>3

\* A is closed under parents.
Closed(G, A) == \A d \in A : d \in DOMAIN G => \A i \in DOMAIN G[d] : G[d][i] \in A

\* Reach is in every closed set with its commit.
LEMMA ReachLeast ==
    ASSUME NEW G, IsGraph(G), NEW A, Closed(G, A), NEW c \in DOMAIN G, c \in A
    PROVE  Reach(G, c) \subseteq A
<1> DEFINE T == {n \in Nat : \A e \in DOMAIN G : e <= n /\ e \in A => Reach(G, e) \subseteq A}
<1>0. DOMAIN G = 1..Len(G) /\ Len(G) \in Nat
  BY DEF IsGraph
<1>1. 0 \in T
  BY <1>0
<1>2. ASSUME NEW n \in Nat, n \in T PROVE n + 1 \in T
  <2> SUFFICES ASSUME NEW e \in DOMAIN G, e <= n + 1, e \in A PROVE Reach(G, e) \subseteq A
    OBVIOUS
  <2>1. ASSUME NEW i \in DOMAIN G[e] PROVE Reach(G, G[e][i]) \subseteq A
    <3>1. G[e][i] \in 1..(e - 1) /\ e \in Nat
      BY <1>0 DEF IsGraph
    <3>2. G[e][i] \in DOMAIN G /\ G[e][i] <= n /\ G[e][i] \in A
      BY <3>1, <1>0 DEF Closed
    <3> QED BY <1>2, <3>2
  <2> QED BY <2>1, ReachUnfolds
<1>3. c \in T /\ c \in Nat
  <2> HIDE DEF T
  <2> QED BY <1>0, <1>1, <1>2, SetInduction
<1> QED BY <1>3

\* Reach of a commit or of none is a closed set of commits.
LEMMA ReachIsClosed ==
    ASSUME NEW G, IsGraph(G), NEW c \in 0..Len(G)
    PROVE  Closed(G, Reach(G, c)) /\ Reach(G, c) \subseteq DOMAIN G
<1>0. DOMAIN G = 1..Len(G) /\ Len(G) \in Nat
  BY DEF IsGraph
<1>1. CASE c = 0
  <2>1. Reach(G, c) = {}
    BY <1>1 DEF Reach, NoCommit
  <2> QED BY <2>1 DEF Closed
<1>2. CASE c # 0
  <2>1. c \in DOMAIN G
    BY <1>0, <1>2
  <2> QED BY <2>1, ReachClosed, ReachInGraph DEF Closed
<1> QED BY <1>1, <1>2

\* The ancestors of an ancestor are ancestors.
LEMMA ReachTransitive ==
    ASSUME NEW G, IsGraph(G), NEW c \in 0..Len(G), NEW d \in Reach(G, c)
    PROVE  Reach(G, d) \subseteq Reach(G, c)
<1>1. d \in DOMAIN G /\ Closed(G, Reach(G, c))
  BY ReachIsClosed
<1> QED BY <1>1, ReachLeast

\* Unborn references reach nothing.
LEMMA ReachNone == \A G : Reach(G, NoCommit) = {}
BY DEF Reach

\* A graph that grows by a commit keeps the ancestors of the commits it had, and those of the
\* new commit are itself and its parents' ancestors.
LEMMA ReachGrows ==
    ASSUME NEW G, IsGraph(G), NEW ps \in Seq(1..Len(G))
    PROVE  /\ IsGraph(Append(G, ps))
           /\ \A c \in 0..Len(G) : Reach(Append(G, ps), c) = Reach(G, c)
           /\ Reach(Append(G, ps), Len(G) + 1) =
                  {Len(G) + 1} \cup UNION {Reach(G, ps[i]) : i \in DOMAIN ps}
<1> DEFINE H == Append(G, ps)
           n == Len(G) + 1
<1>0. DOMAIN G = 1..Len(G) /\ Len(G) \in Nat /\ G \in Seq(Seq(Nat))
  BY DEF IsGraph
<1>1. H \in Seq(Seq(Nat)) /\ Len(H) = n /\ DOMAIN H = 1..n /\ H[n] = ps
      /\ \A c \in DOMAIN G : H[c] = G[c]
  <2>1. ps \in Seq(Nat)
    OBVIOUS
  <2> QED BY <1>0, <2>1, AppendProperties
<1> HIDE DEF H
<1>2. IsGraph(H)
  <2> SUFFICES ASSUME NEW c \in DOMAIN H, NEW i \in DOMAIN H[c] PROVE H[c][i] \in 1..(c - 1)
    BY <1>1 DEF IsGraph
  <2>1. CASE c = n
    <3>1. DOMAIN ps = 1..Len(ps) /\ \A j \in DOMAIN ps : ps[j] \in 1..Len(G)
      OBVIOUS
    <3> QED BY <1>0, <1>1, <2>1, <3>1
  <2>2. CASE c # n
    <3>1. c \in DOMAIN G
      BY <1>0, <1>1, <2>2
    <3>2. H[c] = G[c]
      BY <1>1, <3>1
    <3> QED BY <3>1, <3>2 DEF IsGraph
  <2> QED BY <2>1, <2>2
<1>3. ASSUME NEW c \in DOMAIN G PROVE Reach(H, c) = Reach(G, c)
  <2>1. c \in DOMAIN H /\ c \in 0..Len(G)
    BY <1>0, <1>1
  <2>2. Closed(H, Reach(G, c)) /\ c \in Reach(G, c)
    BY <1>1, <2>1, ReachIsClosed, ReachUnfolds DEF Closed
  <2>3. Reach(H, c) \subseteq Reach(G, c)
    BY <1>2, <2>1, <2>2, ReachLeast
  <2>4. Closed(G, Reach(H, c)) /\ c \in Reach(H, c)
    <3>1. c \in 0..Len(H)
      BY <1>0, <1>1
    <3>2. Closed(H, Reach(H, c)) /\ c \in Reach(H, c)
      BY <1>2, <2>1, <3>1, ReachIsClosed, ReachUnfolds
    <3>3. DOMAIN G \subseteq DOMAIN H
      BY <1>0, <1>1
    <3> QED BY <1>1, <3>2, <3>3 DEF Closed
  <2>5. Reach(G, c) \subseteq Reach(H, c)
    BY <2>4, ReachLeast
  <2> QED BY <2>3, <2>5
<1>4. \A c \in 0..Len(G) : Reach(H, c) = Reach(G, c)
  <2>1. Reach(H, 0) = Reach(G, 0)
    BY ReachNone DEF NoCommit
  <2>2. \A c \in 0..Len(G) : c = 0 \/ c \in DOMAIN G
    BY <1>0
  <2> QED BY <1>3, <2>1, <2>2
<1>5. Reach(H, n) = {n} \cup UNION {Reach(G, ps[i]) : i \in DOMAIN ps}
  <2>1. n \in DOMAIN H
    BY <1>0, <1>1
  <2>2. \A i \in DOMAIN ps : ps[i] \in DOMAIN G
    BY <1>0
  <2>3. \A i \in DOMAIN ps : Reach(H, ps[i]) = Reach(G, ps[i])
    BY <1>3, <2>2
  <2>4. /\ n \in Reach(H, n)
        /\ \A i \in DOMAIN ps : Reach(H, ps[i]) \subseteq Reach(H, n)
        /\ \A d \in Reach(H, n) : d = n \/ \E i \in DOMAIN ps : d \in Reach(H, ps[i])
    BY <1>1, <1>2, <2>1, ReachUnfolds
  <2> QED BY <2>3, <2>4
<1> QED BY <1>2, <1>4, <1>5 DEF H

----------------------------------------------------------------------------
(* Enqueue                                                                 *)

\* The states of a walk that queues commits of D and records commits of E.
Walks(D, E) == [queue : Seq(D), seen : SUBSET E, end : {"none", "found", "error"}]

Queued(w) == {w.queue[i] : i \in DOMAIN w.queue}

\* The turn of Enqueue for parent i.
AddParent(ps, stop, i, v) ==
    IF ps[i] \in v.seen \cup stop THEN v
    ELSE [v EXCEPT !.queue = Append(@, ps[i]), !.seen = @ \cup {ps[i]}]

\* One turn: the walk stays a walk, and the parent is queued exactly when it is recorded.
LEMMA AddParentStep ==
    ASSUME NEW D, NEW E, D \subseteq E, NEW ps \in Seq(D), NEW stop, NEW i \in DOMAIN ps,
           NEW v \in Walks(D, E), NEW u, u = AddParent(ps, stop, i, v)
    PROVE  /\ u \in Walks(D, E)
           /\ u.end = v.end
           /\ ps[i] \in u.seen \cup stop
           /\ Queued(v) \subseteq Queued(u)
           /\ \/ u.seen = v.seen /\ u.queue = v.queue
              \/ /\ ps[i] \notin v.seen \cup stop
                 /\ u.seen = v.seen \cup {ps[i]}
                 /\ ps[i] \in Queued(u)
                 /\ Len(u.queue) = Len(v.queue) + 1
<1>0. v.queue \in Seq(D) /\ v.seen \subseteq E /\ ps[i] \in D
  BY DEF Walks
<1>1. CASE ps[i] \in v.seen \cup stop
  BY <1>1 DEF AddParent
<1>2. CASE ps[i] \notin v.seen \cup stop
  <2>1. u = [v EXCEPT !.queue = Append(v.queue, ps[i]), !.seen = v.seen \cup {ps[i]}]
    BY <1>2 DEF AddParent
  <2>2. u \in Walks(D, E) /\ u.end = v.end /\ u.queue = Append(v.queue, ps[i]) /\ u.seen = v.seen \cup {ps[i]}
    <3> DEFINE q == Append(v.queue, ps[i])
               s == v.seen \cup {ps[i]}
    <3>1. q \in Seq(D) /\ s \in SUBSET E
      BY <1>0, AppendProperties
    <3>2. u = [v EXCEPT !.queue = q, !.seen = s]
      BY <2>1
    <3> HIDE DEF q, s
    <3>3. u \in Walks(D, E) /\ u.end = v.end /\ u.queue = q /\ u.seen = s
      BY <3>1, <3>2 DEF Walks
    <3> QED BY <3>3 DEF q, s
  <2>3. /\ Len(u.queue) = Len(v.queue) + 1
        /\ DOMAIN u.queue = 1..(Len(v.queue) + 1)
        /\ u.queue[Len(v.queue) + 1] = ps[i]
        /\ DOMAIN v.queue = 1..Len(v.queue)
        /\ Len(v.queue) \in Nat
        /\ \A j \in DOMAIN v.queue : u.queue[j] = v.queue[j]
    BY <1>0, <2>2, AppendProperties
  <2>4. ps[i] \in Queued(u) /\ Queued(v) \subseteq Queued(u)
    <3>1. Len(v.queue) + 1 \in DOMAIN u.queue
      BY <2>3
    <3>2. DOMAIN v.queue \subseteq DOMAIN u.queue
      BY <2>3
    <3> QED BY <2>3, <3>1, <3>2 DEF Queued
  <2> QED BY <1>2, <2>2, <2>3, <2>4
<1> QED BY <1>1, <1>2

\* f holds the states of the loop of Enqueue, the last one its result.
EnqueueStates(ps, stop, w, f) ==
    /\ f[0] = w
    /\ \A i \in 1..Len(ps) : f[i] = AddParent(ps, stop, i, f[i - 1])
    /\ Enqueue(ps, stop, w) = f[Len(ps)]

\* The loop of Enqueue has a state after every parent.
LEMMA EnqueueRuns ==
    ASSUME NEW D, NEW E, D \subseteq E, NEW ps \in Seq(D), NEW stop, NEW w \in Walks(D, E)
    PROVE  \E f \in [0..Len(ps) -> Walks(D, E)] : EnqueueStates(ps, stop, w, f)
<1> DEFINE n == Len(ps)
           W == Walks(D, E)
           F == [z \in (1..n) \X W |-> AddParent(ps, stop, z[1], z[2])]
           Eq(f) == f = [i \in 0..n |-> IF i = 0 THEN w ELSE AddParent(ps, stop, i, f[i - 1])]
           after == CHOOSE f : Eq(f)
<1>0. n \in Nat /\ DOMAIN ps = 1..n
  OBVIOUS
<1>a. ASSUME NEW i \in 1..n, NEW v \in W PROVE AddParent(ps, stop, i, v) \in W
  <2> DEFINE u == AddParent(ps, stop, i, v)
  <2>1. i \in DOMAIN ps /\ u = AddParent(ps, stop, i, v)
    BY <1>0
  <2> HIDE DEF u
  <2>2. u \in Walks(D, E)
    BY <2>1, AddParentStep
  <2> QED BY <2>2 DEF u
<1>1. F \in [(1..n) \X W -> W]
  <2>1. \A z \in (1..n) \X W : AddParent(ps, stop, z[1], z[2]) \in W
    BY <1>a
  <2> QED BY <2>1
<1>2. PICK g : Loops(g, F, W, n, w)
  <2> HIDE DEF F, W, n
  <2> QED BY <1>0, <1>1, LoopExists DEF W
<1>3. \A i \in 1..n : g[i] = AddParent(ps, stop, i, g[i - 1])
  <2> SUFFICES ASSUME NEW i \in 1..n PROVE g[i] = AddParent(ps, stop, i, g[i - 1])
    OBVIOUS
  <2>1. g[i] = F[<<i, g[i - 1]>>] /\ g[i - 1] \in W
    <3>1. n \in Nat
      BY <1>0
    <3> HIDE DEF F, W, n
    <3>2. i - 1 \in 0..n
      BY <3>1
    <3> QED BY <3>2, <1>2 DEF Loops
  <2>2. <<i, g[i - 1]>> \in (1..n) \X W
    BY <2>1
  <2> QED BY <2>1, <2>2
<1>4. Eq(g)
  <2>1. g = [i \in 0..n |-> g[i]]
    BY <1>2 DEF Loops
  <2>2. \A i \in 0..n : g[i] = IF i = 0 THEN w ELSE AddParent(ps, stop, i, g[i - 1])
    BY <1>0, <1>2, <1>3 DEF Loops
  <2> HIDE DEF n
  <2> QED BY <2>1, <2>2
<1>5. Eq(after)
  <2> HIDE DEF Eq
  <2> QED BY <1>4
<1>6. Enqueue(ps, stop, w) = after[n]
  BY DEF Enqueue, AddParent
<1> HIDE DEF after
<1>7. after[0] = w /\ \A i \in 1..n : after[i] = AddParent(ps, stop, i, after[i - 1])
  BY <1>0, <1>5
<1>8. \A i \in 0..n : after[i] \in W
  <2> DEFINE T == {i \in Nat : i <= n => after[i] \in W}
  <2>1. 0 \in T
    BY <1>7
  <2>2. ASSUME NEW i \in Nat, i \in T PROVE i + 1 \in T
    <3> SUFFICES ASSUME i + 1 <= n PROVE after[i + 1] \in W
      OBVIOUS
    <3>1. i + 1 \in 1..n /\ after[i] \in W /\ after[i + 1] = AddParent(ps, stop, i + 1, after[i])
      BY <1>0, <1>7, <2>2
    <3> QED BY <3>1, <1>a
  <2>3. \A i \in Nat : i \in T
    <3> HIDE DEF T
    <3> QED BY <2>1, <2>2, SetInduction
  <2> QED BY <2>3, <1>0
<1>9. after \in [0..n -> W]
  BY <1>5, <1>8
<1> QED BY <1>6, <1>7, <1>9 DEF EnqueueStates

\* What is still to come in a walk over the commits of C.
Open(C, w) == Len(w.queue) + Cardinality(C \ w.seen)

\* v is w with the first n parents of ps seen to.
Enqueued(C, ps, n, stop, w, v) ==
    /\ v.end = w.end
    /\ w.seen \subseteq v.seen
    /\ Queued(w) \subseteq Queued(v)
    /\ \A i \in 1..n : ps[i] \in v.seen \cup stop
    /\ \A d \in v.seen : d \in w.seen \/ (d \in Queued(v) /\ d \notin stop)
    /\ Open(C, v) = Open(C, w)

\* Enqueue sees to every parent, and records exactly what it queues.
LEMMA EnqueueAdds ==
    ASSUME NEW C, IsFiniteSet(C), NEW D, NEW E, D \subseteq C, D \subseteq E, NEW ps \in Seq(D), NEW stop,
           NEW w \in Walks(D, E)
    PROVE  /\ Enqueue(ps, stop, w) \in Walks(D, E)
           /\ Enqueued(C, ps, Len(ps), stop, w, Enqueue(ps, stop, w))
<1>0. Len(ps) \in Nat /\ DOMAIN ps = 1..Len(ps)
  OBVIOUS
<1>a. PICK f \in [0..Len(ps) -> Walks(D, E)] : EnqueueStates(ps, stop, w, f)
  BY EnqueueRuns
<1>1. /\ f \in [0..Len(ps) -> Walks(D, E)]
      /\ f[0] = w
      /\ \A i \in 1..Len(ps) : f[i] = AddParent(ps, stop, i, f[i - 1])
      /\ Enqueue(ps, stop, w) = f[Len(ps)]
  BY <1>a DEF EnqueueStates
<1> DEFINE T == {i \in Nat : i <= Len(ps) => Enqueued(C, ps, i, stop, w, f[i])}
<1>2. 0 \in T
  BY <1>0, <1>1 DEF Enqueued
<1>3. ASSUME NEW i \in Nat, i \in T PROVE i + 1 \in T
  <2> SUFFICES ASSUME i + 1 <= Len(ps) PROVE Enqueued(C, ps, i + 1, stop, w, f[i + 1])
    OBVIOUS
  <2> DEFINE v == f[i]
             u == f[i + 1]
             p == ps[i + 1]
  <2>1. /\ i + 1 \in DOMAIN ps /\ i + 1 \in 1..Len(ps) /\ i \in 0..Len(ps) /\ (i + 1) - 1 = i
        /\ v \in Walks(D, E)
        /\ u = AddParent(ps, stop, i + 1, v)
        /\ Enqueued(C, ps, i, stop, w, v)
        /\ p \in C
    BY <1>0, <1>1, <1>3
  <2> HIDE DEF u, v
  <2>2. /\ u \in Walks(D, E)
        /\ u.end = v.end
        /\ p \in u.seen \cup stop
        /\ Queued(v) \subseteq Queued(u)
        /\ \/ u.seen = v.seen /\ u.queue = v.queue
           \/ /\ p \notin v.seen \cup stop
              /\ u.seen = v.seen \cup {p}
              /\ p \in Queued(u)
              /\ Len(u.queue) = Len(v.queue) + 1
    BY <2>1, AddParentStep
  <2>3. \A j \in 1..(i + 1) : j \in 1..i \/ j = i + 1
    OBVIOUS
  <2> HIDE DEF p
  <2>4. \A j \in 1..(i + 1) : ps[j] \in u.seen \cup stop
    BY <2>1, <2>2, <2>3 DEF Enqueued, p
  <2>5. Open(C, u) = Open(C, v)
    <3>1. CASE u.seen = v.seen /\ u.queue = v.queue
      BY <3>1 DEF Open
    <3>2. CASE p \notin v.seen /\ u.seen = v.seen \cup {p} /\ Len(u.queue) = Len(v.queue) + 1
      <4>1. IsFiniteSet(C \ v.seen)
        BY FS_Difference
      <4>2. p \in C \ v.seen /\ C \ u.seen = (C \ v.seen) \ {p}
        BY <2>1, <3>2
      <4>3. Cardinality(C \ u.seen) = Cardinality(C \ v.seen) - 1 /\ Cardinality(C \ v.seen) \in Nat
        <5> DEFINE K == C \ v.seen
        <5>1. IsFiniteSet(K) /\ p \in K /\ C \ u.seen = K \ {p}
          BY <4>1, <4>2
        <5> HIDE DEF K
        <5>2. Cardinality(K \ {p}) = Cardinality(K) - 1
          BY <5>1, FS_RemoveElement
        <5>3. Cardinality(K) \in Nat
          BY <5>1, FS_CardinalityType
        <5> QED BY <5>1, <5>2, <5>3 DEF K
      <4>4. Len(v.queue) \in Nat
        BY <2>1 DEF Walks
      <4> QED BY <3>2, <4>3, <4>4 DEF Open
    <3> QED BY <2>2, <3>1, <3>2
  <2>6. u.end = w.end /\ w.seen \subseteq u.seen /\ Queued(w) \subseteq Queued(u)
    BY <2>1, <2>2 DEF Enqueued
  <2>7. \A d \in u.seen : d \in w.seen \/ (d \in Queued(u) /\ d \notin stop)
    BY <2>1, <2>2 DEF Enqueued
  <2>8. Open(C, u) = Open(C, w)
    BY <2>1, <2>5 DEF Enqueued
  <2>9. Enqueued(C, ps, i + 1, stop, w, u)
    BY <2>4, <2>6, <2>7, <2>8 DEF Enqueued
  <2> QED BY <2>9 DEF u
<1>4. \A i \in Nat : i \in T
  <2> HIDE DEF T
  <2> QED BY <1>2, <1>3, SetInduction
<1> QED BY <1>0, <1>1, <1>4

----------------------------------------------------------------------------
(* Bfs                                                                     *)

\* A walk from start over store S that may meet the commits of R.
MayWalk(G, S, R, start) ==
    /\ IsGraph(G)
    /\ S \subseteq DOMAIN G
    /\ R \subseteq 0..Len(G)
    /\ start \in R
    /\ \A d \in R \cap S : \A i \in DOMAIN G[d] : G[d][i] \in R

\* A commit the walk has read.
Read(G, S, stop, goal, seen, d) ==
    d \in S /\ d \notin goal /\ \A i \in DOMAIN G[d] : G[d][i] \in seen \cup stop

\* What the walk has recorded is in base, waits in the queue or was read; nothing recorded on
\* the way is in stop; an end has its reason at the head of the queue.
WalkOK(G, S, R, start, base, stop, goal, w) ==
    /\ w \in Walks(R, base \cup R)
    /\ base \cup {start} \subseteq w.seen
    /\ \A d \in w.seen : d \in base \/ d \in Queued(w) \/ Read(G, S, stop, goal, w.seen, d)
    /\ w.seen \cap stop \subseteq base \cup {start}
    /\ w.end = "found" => w.queue # << >> /\ Head(w.queue) \in goal
    /\ w.end = "error" => w.queue # << >> /\ Head(w.queue) \notin S

\* The start of a walk.
LEMMA WalkStarts ==
    ASSUME NEW G, NEW S, NEW R, NEW start, NEW base, NEW stop, NEW goal, MayWalk(G, S, R, start),
           NEW w, w = [queue |-> <<start>>, seen |-> base \cup {start}, end |-> "none"]
    PROVE  /\ WalkOK(G, S, R, start, base, stop, goal, w)
           /\ Open(0..Len(G), w) <= Len(G) + 1 /\ Open(0..Len(G), w) \in Nat
<1> DEFINE q == <<start>>
<1>1. q \in Seq(R) /\ DOMAIN q = 1..1 /\ q[1] = start /\ Len(q) = 1
  BY DEF MayWalk
<1>2. w.queue = q /\ w.seen = base \cup {start} /\ w.end = "none" /\ w = [queue |-> q, seen |-> base \cup {start}, end |-> "none"]
  OBVIOUS
<1> HIDE DEF q
<1>3. start \in R
  BY DEF MayWalk
<1>4. w \in Walks(R, base \cup R)
  <2>1. base \cup {start} \in SUBSET (base \cup R)
    BY <1>3
  <2> QED BY <1>1, <1>2, <2>1 DEF Walks
<1>5. start \in Queued(w)
  BY <1>1, <1>2 DEF Queued
<1>6. WalkOK(G, S, R, start, base, stop, goal, w)
  BY <1>2, <1>4, <1>5 DEF WalkOK
<1>7. Open(0..Len(G), w) <= Len(G) + 1 /\ Open(0..Len(G), w) \in Nat
  <2> DEFINE C == 0..Len(G)
             K == C \ (base \cup {start})
  <2>1. Len(G) \in Nat
    BY DEF MayWalk, IsGraph
  <2>2. IsFiniteSet(C) /\ Cardinality(C) = Len(G) + 1
    BY <2>1, FS_Interval
  <2>3. start \in C
    BY <1>3 DEF MayWalk
  <2> HIDE DEF C
  <2>4. IsFiniteSet(C \ {start}) /\ Cardinality(C \ {start}) = Len(G)
    <3>1. IsFiniteSet(C \ {start}) /\ Cardinality(C \ {start}) = Cardinality(C) - 1
      BY <2>2, <2>3, FS_RemoveElement
    <3> QED BY <2>1, <2>2, <3>1
  <2>5. K \in SUBSET (C \ {start})
    OBVIOUS
  <2> HIDE DEF K
  <2>6. Cardinality(K) <= Cardinality(C \ {start}) /\ IsFiniteSet(K)
    BY <2>4, <2>5, FS_Subset
  <2>7. Cardinality(K) \in Nat
    BY <2>6, FS_CardinalityType
  <2>8. Open(C, w) = 1 + Cardinality(K)
    BY <1>1, <1>2 DEF Open, K
  <2> QED BY <2>1, <2>4, <2>6, <2>7, <2>8 DEF C
<1> QED BY <1>6, <1>7

\* The queue without its head.
LEMMA TailOfQueue ==
    ASSUME NEW D, NEW E, NEW w \in Walks(D, E), w.queue # << >>, NEW u, u = [w EXCEPT !.queue = Tail(@)]
    PROVE  /\ u \in Walks(D, E) /\ u.seen = w.seen /\ u.end = w.end
           /\ Head(w.queue) \in D
           /\ Len(u.queue) = Len(w.queue) - 1
           /\ \A d \in Queued(w) : d = Head(w.queue) \/ d \in Queued(u)
<1> DEFINE q == w.queue
           t == Tail(q)
<1>1. q \in Seq(D) /\ q # << >>
  BY DEF Walks
<1>2. t \in Seq(D) /\ Len(t) = Len(q) - 1 /\ Head(q) \in D /\ Head(q) = q[1]
      /\ \A i \in 1..Len(t) : t[i] = q[i + 1]
  <2> HIDE DEF q
  <2> QED BY <1>1, HeadTailProperties
<1>3. u = [w EXCEPT !.queue = t]
  OBVIOUS
<1> HIDE DEF t
<1>4. u \in Walks(D, E) /\ u.seen = w.seen /\ u.end = w.end /\ u.queue = t
  BY <1>2, <1>3 DEF Walks
<1>5. ASSUME NEW i \in DOMAIN q PROVE q[i] = Head(q) \/ q[i] \in Queued(u)
  <2>1. DOMAIN q = 1..Len(q) /\ Len(q) \in Nat /\ DOMAIN t = 1..Len(t)
    BY <1>1, <1>2
  <2>2. CASE i = 1
    BY <1>2, <2>2
  <2>3. CASE i # 1
    <3>1. i - 1 \in DOMAIN t /\ (i - 1) + 1 = i
      BY <1>2, <2>1, <2>3
    <3>2. t[i - 1] = q[i]
      BY <1>2, <2>1, <3>1
    <3> QED BY <1>4, <3>1, <3>2 DEF Queued
  <2> QED BY <2>2, <2>3
<1>6. \A d \in Queued(w) : d = Head(q) \/ d \in Queued(u)
  BY <1>5 DEF Queued
<1> QED BY <1>2, <1>4, <1>6

\* A turn keeps the walk sound; one that ends nothing leaves less to come.
LEMMA TurnWalks ==
    ASSUME NEW G, NEW S, NEW R, NEW start, NEW base, NEW stop, NEW goal, MayWalk(G, S, R, start),
           NEW w, WalkOK(G, S, R, start, base, stop, goal, w),
           NEW v, v = Turn(G, S, stop, goal, w)
    PROVE  /\ WalkOK(G, S, R, start, base, stop, goal, v)
           /\ w.end # "none" \/ w.queue = << >> => v = w
           /\ \/ v.end # "none" \/ v.queue = << >>
              \/ Open(0..Len(G), v) = Open(0..Len(G), w) - 1
<1> DEFINE c == Head(w.queue)
           E == base \cup R
           C == 0..Len(G)
<1>0. w \in Walks(R, E) /\ Len(G) \in Nat /\ IsFiniteSet(C) /\ R \subseteq C /\ R \subseteq E /\ S \subseteq DOMAIN G
  <2>1. Len(G) \in Nat
    BY DEF MayWalk, IsGraph
  <2>2. IsFiniteSet(C)
    BY <2>1, FS_Interval
  <2> QED BY <2>1, <2>2 DEF WalkOK, MayWalk
<1>1. CASE w.end # "none" \/ w.queue = << >>
  <2>1. v = w
    BY <1>1 DEF Turn
  <2> QED BY <1>1, <2>1
<1>2. CASE w.end = "none" /\ w.queue # << >> /\ c \in goal
  <2>1. v = [w EXCEPT !.end = "found"]
    BY <1>2 DEF Turn
  <2>2. v \in Walks(R, E) /\ v.queue = w.queue /\ v.seen = w.seen /\ v.end = "found"
    <3> HIDE DEF E
    <3> QED BY <1>0, <2>1 DEF Walks
  <2>3. Queued(v) = Queued(w)
    BY <2>2 DEF Queued
  <2>4. WalkOK(G, S, R, start, base, stop, goal, v)
    BY <1>2, <2>2, <2>3 DEF WalkOK
  <2> QED BY <1>2, <2>2, <2>4
<1>3. CASE w.end = "none" /\ w.queue # << >> /\ c \notin goal /\ c \notin S
  <2>1. v = [w EXCEPT !.end = "error"]
    BY <1>3 DEF Turn
  <2>2. v \in Walks(R, E) /\ v.queue = w.queue /\ v.seen = w.seen /\ v.end = "error"
    <3> HIDE DEF E
    <3> QED BY <1>0, <2>1 DEF Walks
  <2>3. Queued(v) = Queued(w)
    BY <2>2 DEF Queued
  <2>4. WalkOK(G, S, R, start, base, stop, goal, v)
    BY <1>3, <2>2, <2>3 DEF WalkOK
  <2> QED BY <1>3, <2>2, <2>4
<1>4. CASE w.end = "none" /\ w.queue # << >> /\ c \notin goal /\ c \in S
  <2> DEFINE u == [w EXCEPT !.queue = Tail(@)]
             ps == G[c]
  <2>1. v = Enqueue(ps, stop, u)
    BY <1>4 DEF Turn
  <2>2. /\ u \in Walks(R, E) /\ u.seen = w.seen /\ u.end = w.end
        /\ c \in R
        /\ Len(u.queue) = Len(w.queue) - 1
        /\ \A d \in Queued(w) : d = c \/ d \in Queued(u)
    <3>1. w \in Walks(R, E) /\ w.queue # << >>
      BY <1>0, <1>4
    <3> HIDE DEF E
    <3> QED BY <3>1, TailOfQueue
  <2>3. ps \in Seq(R)
    <3>1. c \in DOMAIN G /\ c \in R \cap S
      BY <1>0, <1>4, <2>2
    <3>2. ps \in Seq(Nat) /\ \A i \in DOMAIN ps : ps[i] \in R
      BY <3>1 DEF MayWalk, IsGraph
    <3> HIDE DEF ps
    <3>3. ps \in [1..Len(ps) -> R] /\ Len(ps) \in Nat
      BY <3>2
    <3> QED BY <3>3
  <2> HIDE DEF u, ps
  <2>4. v \in Walks(R, E) /\ Enqueued(C, ps, Len(ps), stop, u, v)
    <3> HIDE DEF C, E
    <3> QED BY <1>0, <2>1, <2>2, <2>3, EnqueueAdds
  <2>5. DOMAIN ps = 1..Len(ps)
    BY <2>3
  <2>6. Read(G, S, stop, goal, v.seen, c)
    BY <1>4, <2>4, <2>5 DEF Read, Enqueued, ps
  <2>7. \A d \in v.seen : d \in base \/ d \in Queued(v) \/ Read(G, S, stop, goal, v.seen, d)
    <3> SUFFICES ASSUME NEW d \in v.seen PROVE d \in base \/ d \in Queued(v) \/ Read(G, S, stop, goal, v.seen, d)
      OBVIOUS
    <3>1. CASE d \in w.seen
      <4>1. d \in base \/ d \in Queued(w) \/ Read(G, S, stop, goal, w.seen, d)
        BY <3>1 DEF WalkOK
      <4>2. Read(G, S, stop, goal, w.seen, d) => Read(G, S, stop, goal, v.seen, d)
        BY <2>2, <2>4 DEF Read, Enqueued
      <4>3. d \in Queued(w) => d = c \/ d \in Queued(v)
        BY <2>2, <2>4 DEF Enqueued
      <4> HIDE DEF c
      <4> QED BY <4>1, <4>2, <4>3, <2>6
    <3>2. CASE d \notin w.seen
      BY <2>2, <2>4, <3>2 DEF Enqueued
    <3> QED BY <3>1, <3>2
  <2>8. base \cup {start} \subseteq v.seen
    BY <2>2, <2>4 DEF WalkOK, Enqueued
  <2>9. v.seen \cap stop \subseteq base \cup {start}
    BY <2>2, <2>4 DEF WalkOK, Enqueued
  <2>10. v.end = "none"
    BY <1>4, <2>2, <2>4 DEF Enqueued
  <2>11. WalkOK(G, S, R, start, base, stop, goal, v)
    BY <2>4, <2>7, <2>8, <2>9, <2>10 DEF WalkOK
  <2>12. Open(C, v) = Open(C, w) - 1
    <3>1. Open(C, v) = Len(u.queue) + Cardinality(C \ w.seen)
      BY <2>2, <2>4 DEF Enqueued, Open
    <3>2. Len(w.queue) \in Nat
      BY <1>0 DEF Walks
    <3>3. Cardinality(C \ w.seen) \in Nat
      <4>1. IsFiniteSet(C \ w.seen)
        BY <1>0, FS_Difference
      <4> QED BY <4>1, FS_CardinalityType
    <3> QED BY <2>2, <3>1, <3>2, <3>3 DEF Open
  <2> QED BY <1>4, <2>11, <2>12
<1> QED BY <1>1, <1>2, <1>3, <1>4

\* walk holds the states of the loop of Bfs.
WalkStates(G, S, start, base, stop, goal, walk) ==
    /\ walk[0] = [queue |-> <<start>>, seen |-> base \cup {start}, end |-> "none"]
    /\ \A n \in Nat : walk[n + 1] = Turn(G, S, stop, goal, walk[n])
    /\ Bfs(G, S, start, base, stop, goal) = walk[Len(G) + 1]

\* The loop of Bfs has a state after every turn.
LEMMA BfsRuns ==
    ASSUME NEW G, NEW S, NEW R, NEW start, NEW base, NEW stop, NEW goal, MayWalk(G, S, R, start)
    PROVE  \E walk : WalkStates(G, S, start, base, stop, goal, walk)
<1> DEFINE W == {w \in Walks(R, base \cup R) : WalkOK(G, S, R, start, base, stop, goal, w)}
           a == [queue |-> <<start>>, seen |-> base \cup {start}, end |-> "none"]
           F == [w \in W |-> Turn(G, S, stop, goal, w)]
           Eq(f) == f = [n \in Nat |-> IF n = 0 THEN a ELSE Turn(G, S, stop, goal, f[n - 1])]
           walk == CHOOSE f : Eq(f)
<1>1. a \in W
  <2> HIDE DEF a
  <2>1. a = [queue |-> <<start>>, seen |-> base \cup {start}, end |-> "none"]
    BY DEF a
  <2>2. WalkOK(G, S, R, start, base, stop, goal, a)
    BY <2>1, WalkStarts
  <2> QED BY <2>2 DEF WalkOK
<1>2. F \in [W -> W]
  <2>1. ASSUME NEW w \in W PROVE Turn(G, S, stop, goal, w) \in W
    <3> DEFINE v == Turn(G, S, stop, goal, w)
    <3>1. v = Turn(G, S, stop, goal, w) /\ WalkOK(G, S, R, start, base, stop, goal, w)
      OBVIOUS
    <3> HIDE DEF v
    <3>2. WalkOK(G, S, R, start, base, stop, goal, v)
      BY <3>1, TurnWalks
    <3> QED BY <3>1, <3>2 DEF WalkOK, v
  <2> HIDE DEF W
  <2> QED BY <2>1
<1>3. PICK g : Iterates(g, F, W, a)
  <2> HIDE DEF F, W, a
  <2> QED BY <1>1, <1>2, IterationExists
<1>4. Eq(g)
  <2>1. g \in [Nat -> W] /\ g[0] = a /\ \A n \in Nat : g[n + 1] = F[g[n]]
    <3> HIDE DEF F, W, a
    <3> QED BY <1>3 DEF Iterates
  <2>2. \A n \in Nat : g[n + 1] = Turn(G, S, stop, goal, g[n])
    <3> HIDE DEF W, a
    <3> QED BY <2>1
  <2>3. \A n \in Nat : g[n] = IF n = 0 THEN a ELSE Turn(G, S, stop, goal, g[n - 1])
    <3> HIDE DEF W, a, F
    <3> SUFFICES ASSUME NEW n \in Nat, n # 0 PROVE g[n] = Turn(G, S, stop, goal, g[n - 1])
      BY <2>1
    <3>1. n - 1 \in Nat /\ (n - 1) + 1 = n
      OBVIOUS
    <3> QED BY <2>2, <3>1
  <2> HIDE DEF W, a, F
  <2>4. g = [n \in Nat |-> g[n]]
    BY <2>1
  <2> QED BY <2>3, <2>4
<1>5. Eq(walk)
  <2> HIDE DEF Eq
  <2> QED BY <1>4
<1>6. Bfs(G, S, start, base, stop, goal) = walk[Len(G) + 1]
  BY DEF Bfs
<1> HIDE DEF walk
<1>7. walk[0] = a
  <2> HIDE DEF a
  <2> QED BY <1>5
<1>8. ASSUME NEW n \in Nat PROVE walk[n + 1] = Turn(G, S, stop, goal, walk[n])
  <2>1. n + 1 \in Nat /\ n + 1 # 0 /\ (n + 1) - 1 = n
    OBVIOUS
  <2> HIDE DEF a
  <2> QED BY <1>5, <2>1
<1>9. WalkStates(G, S, start, base, stop, goal, walk)
  BY <1>6, <1>7, <1>8 DEF WalkStates
<1> QED BY <1>9

\* Bfs ends a sound walk: it has failed, met a goal or emptied its queue.
LEMMA BfsWalks ==
    ASSUME NEW G, NEW S, NEW R, NEW start, NEW base, NEW stop, NEW goal, MayWalk(G, S, R, start),
           NEW w, w = Bfs(G, S, start, base, stop, goal)
    PROVE  /\ WalkOK(G, S, R, start, base, stop, goal, w)
           /\ w.end # "none" \/ w.queue = << >>
<1> DEFINE C == 0..Len(G)
           OK(u) == WalkOK(G, S, R, start, base, stop, goal, u)
           Ended(u) == u.end # "none" \/ u.queue = << >>
<1>0. Len(G) \in Nat
  BY DEF MayWalk, IsGraph
<1>1. PICK walk : WalkStates(G, S, start, base, stop, goal, walk)
  BY BfsRuns
<1>2. /\ walk[0] = [queue |-> <<start>>, seen |-> base \cup {start}, end |-> "none"]
      /\ \A n \in Nat : walk[n + 1] = Turn(G, S, stop, goal, walk[n])
      /\ w = walk[Len(G) + 1]
  BY <1>1 DEF WalkStates
<1> DEFINE T == {n \in Nat : OK(walk[n]) /\ (Ended(walk[n]) \/ Open(C, walk[n]) + n <= Len(G) + 1)
                              /\ Open(C, walk[n]) \in Int}
<1>3. 0 \in T
  <2>1. OK(walk[0]) /\ Open(C, walk[0]) <= Len(G) + 1 /\ Open(C, walk[0]) \in Nat
    BY <1>2, WalkStarts
  <2> HIDE DEF OK, Ended, C
  <2> QED BY <2>1, <1>0
<1>4. ASSUME NEW n \in Nat, n \in T PROVE n + 1 \in T
  <2> DEFINE u == walk[n]
             v == walk[n + 1]
  <2>1. OK(u) /\ v = Turn(G, S, stop, goal, u) /\ Open(C, u) \in Int /\ (Ended(u) \/ Open(C, u) + n <= Len(G) + 1)
    BY <1>2, <1>4
  <2> HIDE DEF u, v
  <2>2. OK(v) /\ (Ended(u) => v = u) /\ (Ended(v) \/ Open(C, v) = Open(C, u) - 1)
    BY <2>1, TurnWalks
  <2>3. Open(C, v) \in Int
    <3>1. Len(v.queue) \in Nat
      BY <2>2 DEF WalkOK, Walks
    <3>2. IsFiniteSet(C \ v.seen)
      <4>1. IsFiniteSet(C)
        BY <1>0, FS_Interval
      <4> HIDE DEF C
      <4> QED BY <4>1, FS_Difference
    <3>3. Cardinality(C \ v.seen) \in Nat
      BY <3>2, FS_CardinalityType
    <3> QED BY <3>1, <3>3 DEF Open
  <2>4. OK(v) /\ (Ended(v) \/ Open(C, v) + (n + 1) <= Len(G) + 1) /\ Open(C, v) \in Int
    <3> HIDE DEF OK, Ended, C
    <3> QED BY <1>0, <2>1, <2>2, <2>3
  <2> QED BY <2>4 DEF v
<1>5. Len(G) + 1 \in T
  <2>1. \A n \in Nat : n \in T
    <3> HIDE DEF T
    <3> QED BY <1>3, <1>4, SetInduction
  <2> HIDE DEF T
  <2> QED BY <1>0, <2>1
<1>6. OK(w) /\ (Ended(w) \/ Open(C, w) + (Len(G) + 1) <= Len(G) + 1)
  BY <1>2, <1>5
<1>7. ASSUME Open(C, w) + (Len(G) + 1) <= Len(G) + 1 PROVE w.queue = << >>
  <2>1. w.queue \in Seq(R)
    BY <1>6 DEF WalkOK, Walks
  <2>2. IsFiniteSet(C \ w.seen)
    <3>1. IsFiniteSet(C)
      BY <1>0, FS_Interval
    <3> HIDE DEF C
    <3> QED BY <3>1, FS_Difference
  <2>3. Cardinality(C \ w.seen) \in Nat
    BY <2>2, FS_CardinalityType
  <2>4. Len(w.queue) = 0
    BY <1>0, <1>7, <2>1, <2>3 DEF Open
  <2> QED BY <2>1, <2>4, EmptySeq
<1> QED BY <1>6, <1>7

\* The commits a walk from c may meet: its ancestors, or the zero commit alone.
WalkRange(G, c) == IF c = NoCommit THEN {NoCommit} ELSE Reach(G, c)

\* Walks over a store of commits of the graph meet ancestors of their start.
LEMMA WalkInRange ==
    ASSUME NEW G, IsGraph(G), NEW S \in SUBSET DOMAIN G, NEW c \in 0..Len(G)
    PROVE  MayWalk(G, S, WalkRange(G, c), c)
<1>0. DOMAIN G = 1..Len(G) /\ Len(G) \in Nat
  BY DEF IsGraph
<1>1. CASE c = NoCommit
  <2>1. WalkRange(G, c) = {0} /\ 0 \notin S /\ 0 \in 0..Len(G)
    BY <1>0, <1>1 DEF WalkRange, NoCommit
  <2> QED BY <1>1, <2>1 DEF MayWalk, NoCommit
<1>2. CASE c # NoCommit
  <2>1. c \in DOMAIN G /\ WalkRange(G, c) = Reach(G, c)
    BY <1>0, <1>2 DEF WalkRange, NoCommit
  <2>2. c \in Reach(G, c) /\ Closed(G, Reach(G, c)) /\ Reach(G, c) \subseteq DOMAIN G
    BY <2>1, ReachUnfolds, ReachIsClosed
  <2>3. DOMAIN G \subseteq 0..Len(G)
    BY <1>0
  <2> QED BY <2>1, <2>2, <2>3 DEF MayWalk, Closed
<1> QED BY <1>1, <1>2

\* An empty queue holds nothing; a walk that stopped stopped at a commit of its range.
LEMMA HeadInRange ==
    ASSUME NEW G, NEW S, NEW R, NEW start, NEW base, NEW stop, NEW goal, NEW w,
           WalkOK(G, S, R, start, base, stop, goal, w)
    PROVE  /\ w.queue = << >> => Queued(w) = {}
           /\ w.queue # << >> => Head(w.queue) \in R
           /\ w.seen \subseteq base \cup R
           /\ w.end \in {"none", "found", "error"}
<1>1. w.queue \in Seq(R) /\ w.seen \subseteq base \cup R /\ w.end \in {"none", "found", "error"}
  BY DEF WalkOK, Walks
<1>2. w.queue # << >> => Head(w.queue) \in R
  BY <1>1, HeadTailProperties
<1>3. w.queue = << >> => Queued(w) = {}
  BY DEF Queued
<1> QED BY <1>1, <1>2, <1>3

----------------------------------------------------------------------------
(* MergeBase                                                               *)

\* MergeBase answers with a common ancestor, over any store: the fast-forward check of
\* ReceivePack and the merge engine rest on it.
THEOREM MergeBaseIsCommon ==
    ASSUME NEW G, IsGraph(G), NEW S \in SUBSET DOMAIN G, NEW a \in 0..Len(G), NEW b \in 0..Len(G),
           MergeBase(G, S, a, b) # NoCommit
    PROVE  MergeBase(G, S, a, b) \in Reach(G, a) \cap Reach(G, b)
<1> DEFINE m == MergeBase(G, S, a, b)
           wa == Bfs(G, S, a, {}, {}, {})
           wb == Bfs(G, S, b, {}, {}, wa.seen)
<1>0. DOMAIN G = 1..Len(G) /\ Len(G) \in Nat
  BY DEF IsGraph
<1>1. CASE a = b
  <2>1. m = a
    BY <1>1 DEF MergeBase
  <2>2. a \in DOMAIN G
    BY <1>0, <2>1 DEF NoCommit
  <2> QED BY <1>1, <2>1, <2>2, ReachUnfolds
<1>2. CASE a # b
  <2>1. wb.end = "found" /\ m = Head(wb.queue)
    BY <1>2 DEF MergeBase, collectAncestors
  <2>2. /\ WalkOK(G, S, WalkRange(G, a), a, {}, {}, {}, wa)
        /\ WalkOK(G, S, WalkRange(G, b), b, {}, {}, wa.seen, wb)
    BY WalkInRange, BfsWalks
  <2> HIDE DEF wa, wb
  <2>3. wb.queue # << >> /\ m \in wa.seen
    BY <2>1, <2>2 DEF WalkOK
  <2>4. m \in WalkRange(G, a) /\ m \in WalkRange(G, b)
    BY <2>1, <2>2, <2>3, HeadInRange
  <2> HIDE DEF m
  <2> QED BY <2>4 DEF WalkRange, m
<1> QED BY <1>1, <1>2

\* Over a complete store MergeBase finds a base whenever there is one.
THEOREM MergeBaseFinds ==
    ASSUME NEW G, IsGraph(G), NEW a \in DOMAIN G, NEW b \in DOMAIN G,
           Reach(G, a) \cap Reach(G, b) # {}
    PROVE  MergeBase(G, DOMAIN G, a, b) # NoCommit
<1> DEFINE S == DOMAIN G
           m == MergeBase(G, S, a, b)
           wa == Bfs(G, S, a, {}, {}, {})
           wb == Bfs(G, S, b, {}, {}, wa.seen)
<1>0. DOMAIN G = 1..Len(G) /\ Len(G) \in Nat /\ a \in 0..Len(G) /\ b \in 0..Len(G) /\ a # NoCommit /\ b # NoCommit
      /\ NoCommit \notin DOMAIN G
  BY DEF IsGraph, NoCommit
<1>1. CASE a = b
  BY <1>0, <1>1 DEF MergeBase
<1>2. CASE a # b
  <2>1. /\ WalkOK(G, S, Reach(G, a), a, {}, {}, {}, wa) /\ (wa.end # "none" \/ wa.queue = << >>)
        /\ WalkOK(G, S, Reach(G, b), b, {}, {}, wa.seen, wb) /\ (wb.end # "none" \/ wb.queue = << >>)
    <3>1. WalkRange(G, a) = Reach(G, a) /\ WalkRange(G, b) = Reach(G, b)
      BY <1>0 DEF WalkRange
    <3>2. MayWalk(G, S, Reach(G, a), a) /\ MayWalk(G, S, Reach(G, b), b)
      BY <1>0, <3>1, WalkInRange
    <3> QED BY <3>2, BfsWalks
  <2> HIDE DEF wa, wb
  <2>2. Reach(G, a) \subseteq S /\ Reach(G, b) \subseteq S
    BY ReachInGraph
  <2>3. wa.end = "none" /\ wa.queue = << >>
    <3>1. (wa.queue # << >> => Head(wa.queue) \in S) /\ wa.end \in {"none", "found", "error"}
      BY <2>1, <2>2, HeadInRange
    <3>2. wa.end # "found" /\ wa.end # "error"
      BY <2>1, <3>1 DEF WalkOK
    <3> QED BY <2>1, <3>1, <3>2
  <2>4. wb.end # "error"
    <3>1. wb.queue # << >> => Head(wb.queue) \in S
      BY <2>1, <2>2, HeadInRange
    <3> QED BY <2>1, <3>1 DEF WalkOK
  <2>5. Reach(G, a) \subseteq wa.seen
    <3>1. Queued(wa) = {}
      BY <2>1, <2>3, HeadInRange
    <3>2. Closed(G, wa.seen) /\ a \in wa.seen
      BY <2>1, <3>1 DEF WalkOK, Read, Closed
    <3> QED BY <3>2, ReachLeast
  <2>6. wb.end = "found"
    <3> SUFFICES ASSUME wb.end # "found" PROVE FALSE
      OBVIOUS
    <3>1. wb.end = "none" /\ wb.queue = << >>
      BY <2>1, <2>4, HeadInRange
    <3>2. Queued(wb) = {}
      BY <2>1, <3>1, HeadInRange
    <3>3. Closed(G, wb.seen) /\ b \in wb.seen /\ wb.seen \cap wa.seen = {}
      BY <2>1, <3>2 DEF WalkOK, Read, Closed
    <3>4. Reach(G, b) \subseteq wb.seen
      BY <3>3, ReachLeast
    <3> QED BY <2>5, <3>3, <3>4
  <2>7. m = Head(wb.queue)
    BY <1>2, <2>3, <2>6 DEF MergeBase, collectAncestors, wa, wb
  <2>8. m \in Reach(G, b)
    <3>1. wb.queue # << >>
      BY <2>1, <2>6 DEF WalkOK
    <3> QED BY <2>1, <2>7, <3>1, HeadInRange
  <2> HIDE DEF m
  <2>9. m # NoCommit
    BY <1>0, <2>2, <2>8
  <2> QED BY <2>9 DEF m
<1> QED BY <1>1, <1>2

----------------------------------------------------------------------------
(* Enumerate                                                               *)

\* What a call of walkCommits does to the set of commits it adds to.
Walked(G, S, start, base, stop, w) ==
    /\ base \subseteq w.seen /\ w.seen \subseteq base \cup WalkRange(G, start)
    /\ w.end \in {"none", "error"}
    /\ start \in w.seen \cup stop
    /\ w.seen \cap stop \subseteq base
    /\ w.end = "none" => \A d \in w.seen : d \in base \/ Read(G, S, stop, {}, w.seen, d)
    /\ w.end = "error" => ~(WalkRange(G, start) \subseteq S)

\* walkCommits does that.
LEMMA WalkCommitsWalks ==
    ASSUME NEW G, IsGraph(G), NEW S \in SUBSET DOMAIN G, NEW start \in 0..Len(G), NEW base, NEW stop
    PROVE  Walked(G, S, start, base, stop, walkCommits(G, S, start, base, stop))
<1> DEFINE w == walkCommits(G, S, start, base, stop)
<1>1. CASE start \in stop \cup base
  <2>1. w.seen = base /\ w.end = "none"
    BY <1>1 DEF walkCommits
  <2> HIDE DEF w
  <2>2. Walked(G, S, start, base, stop, w)
    BY <1>1, <2>1 DEF Walked
  <2> QED BY <2>2 DEF w
<1>2. CASE start \notin stop \cup base
  <2> DEFINE R == WalkRange(G, start)
  <2>1. w = Bfs(G, S, start, base, stop, {})
    BY <1>2 DEF walkCommits
  <2>2. MayWalk(G, S, R, start)
    BY WalkInRange
  <2> HIDE DEF w, R
  <2>3. WalkOK(G, S, R, start, base, stop, {}, w) /\ (w.end # "none" \/ w.queue = << >>)
    BY <2>1, <2>2, BfsWalks
  <2>4. /\ w.queue = << >> => Queued(w) = {}
        /\ w.queue # << >> => Head(w.queue) \in R
        /\ w.seen \subseteq base \cup R
        /\ w.end \in {"none", "found", "error"}
    BY <2>3, HeadInRange
  <2>5. w.end \in {"none", "error"}
    BY <2>3, <2>4 DEF WalkOK
  <2>6. w.end = "none" => \A d \in w.seen : d \in base \/ Read(G, S, stop, {}, w.seen, d)
    BY <2>3, <2>4 DEF WalkOK
  <2>7. w.end = "error" => ~(R \subseteq S)
    BY <2>3, <2>4 DEF WalkOK
  <2>8. base \subseteq w.seen /\ start \in w.seen /\ w.seen \cap stop \subseteq base
    BY <1>2, <2>3 DEF WalkOK
  <2>9. Walked(G, S, start, base, stop, w)
    BY <2>4, <2>5, <2>6, <2>7, <2>8 DEF Walked, R
  <2> QED BY <2>9 DEF w
<1> QED BY <1>1, <1>2

\* What walkCommits adds are commits or the zero commit.
LEMMA WalkRangeBounds ==
    ASSUME NEW G, IsGraph(G), NEW c \in 0..Len(G)
    PROVE  WalkRange(G, c) \subseteq 0..Len(G) /\ c \in WalkRange(G, c)
BY WalkInRange DEF MayWalk

\* The turn of Boundary for a have.
AddHave(G, S, h, b) ==
    LET w == walkCommits(G, S, h, b.seen, {})
    IN  [seen |-> w.seen,
         tips |-> IF w.end = "error" \/ h \notin S THEN b.tips ELSE b.tips \cup {h}]

\* The turn of step 2 for a want.
AddWant(G, S, stop, c, b) ==
    LET w == walkCommits(G, S, c, b.commits, stop)
    IN  [commits |-> w.seen, failed |-> b.failed \/ w.end = "error"]

\* f holds the states of the loop of Boundary.
BoundaryStates(G, S, haves, f) ==
    /\ f[0] = [seen |-> {}, tips |-> {}]
    /\ \A i \in 1..Len(haves) : f[i] = AddHave(G, S, haves[i], f[i - 1])
    /\ Boundary(G, S, haves) = f[Len(haves)]

\* The loop of Boundary has a state after every have.
LEMMA BoundaryRuns ==
    ASSUME NEW G, IsGraph(G), NEW S \in SUBSET DOMAIN G, NEW haves \in Seq(0..Len(G))
    PROVE  \E f : BoundaryStates(G, S, haves, f)
<1> DEFINE n == Len(haves)
           W == [seen : SUBSET (0..Len(G)), tips : SUBSET S]
           a == [seen |-> {}, tips |-> {}]
           F == [z \in (1..n) \X W |-> AddHave(G, S, haves[z[1]], z[2])]
           Eq(f) == f = [i \in 0..n |-> IF i = 0 THEN a ELSE AddHave(G, S, haves[i], f[i - 1])]
           after == CHOOSE f : Eq(f)
<1>0. n \in Nat /\ DOMAIN haves = 1..n /\ \A i \in 1..n : haves[i] \in 0..Len(G)
  OBVIOUS
<1>1. ASSUME NEW h \in 0..Len(G), NEW b \in W PROVE AddHave(G, S, h, b) \in W
  <2> DEFINE w == walkCommits(G, S, h, b.seen, {})
  <2>1. w.seen \subseteq b.seen \cup WalkRange(G, h)
    BY WalkCommitsWalks DEF Walked
  <2>2. w.seen \subseteq 0..Len(G)
    BY <2>1, WalkRangeBounds
  <2> HIDE DEF w
  <2> QED BY <2>2 DEF AddHave, w
<1>2. F \in [(1..n) \X W -> W]
  <2> HIDE DEF W, n
  <2>1. \A z \in (1..n) \X W : AddHave(G, S, haves[z[1]], z[2]) \in W
    BY <1>0, <1>1
  <2> QED BY <2>1
<1>3. PICK g : Loops(g, F, W, n, a)
  <2>1. a \in W
    OBVIOUS
  <2> HIDE DEF F, W, n, a
  <2> QED BY <1>0, <1>2, <2>1, LoopExists
<1>4. Eq(g)
  <2>1. g \in [0..n -> W] /\ g[0] = a /\ \A i \in 1..n : g[i] = F[<<i, g[i - 1]>>]
    <3> HIDE DEF F, W, n, a
    <3> QED BY <1>3 DEF Loops
  <2>2. ASSUME NEW i \in 1..n PROVE g[i] = AddHave(G, S, haves[i], g[i - 1])
    <3> HIDE DEF W, n, a
    <3>1. i - 1 \in 0..n
      BY <1>0
    <3>2. <<i, g[i - 1]>> \in (1..n) \X W
      BY <2>1, <3>1
    <3> QED BY <2>1, <3>2
  <2> HIDE DEF W, n, a, F
  <2>3. \A i \in 0..n : g[i] = IF i = 0 THEN a ELSE AddHave(G, S, haves[i], g[i - 1])
    BY <1>0, <2>1, <2>2
  <2>4. g = [i \in 0..n |-> g[i]]
    BY <2>1
  <2> QED BY <2>3, <2>4
<1>5. Eq(after)
  <2> HIDE DEF Eq
  <2> QED BY <1>4
<1>6. Boundary(G, S, haves) = after[n]
  BY DEF Boundary, AddHave
<1> HIDE DEF after
<1>7. after[0] = a /\ \A i \in 1..n : after[i] = AddHave(G, S, haves[i], after[i - 1])
  <2> HIDE DEF a, n
  <2> QED BY <1>0, <1>5
<1>8. BoundaryStates(G, S, haves, after)
  BY <1>6, <1>7 DEF BoundaryStates
<1> QED BY <1>8

\* f holds the states of the loop of step 2.
SendStates(G, S, wants, haves, f) ==
    /\ f[0] = [commits |-> {}, failed |-> FALSE]
    /\ \A i \in 1..Len(wants) : f[i] = AddWant(G, S, Boundary(G, S, haves).seen, wants[i], f[i - 1])
    /\ SendCommits(G, S, wants, haves) = f[Len(wants)]

\* The loop of step 2 has a state after every want.
LEMMA SendRuns ==
    ASSUME NEW G, IsGraph(G), NEW S \in SUBSET DOMAIN G, NEW wants \in Seq(0..Len(G)), NEW haves
    PROVE  \E f : SendStates(G, S, wants, haves, f)
<1> DEFINE stop == Boundary(G, S, haves).seen
           n == Len(wants)
           W == [commits : SUBSET (0..Len(G)), failed : BOOLEAN]
           a == [commits |-> {}, failed |-> FALSE]
           F == [z \in (1..n) \X W |-> AddWant(G, S, stop, wants[z[1]], z[2])]
           Eq(f) == f = [i \in 0..n |-> IF i = 0 THEN a ELSE AddWant(G, S, stop, wants[i], f[i - 1])]
           after == CHOOSE f : Eq(f)
<1>0. n \in Nat /\ DOMAIN wants = 1..n /\ \A i \in 1..n : wants[i] \in 0..Len(G)
  OBVIOUS
<1>1. ASSUME NEW h \in 0..Len(G), NEW b \in W PROVE AddWant(G, S, stop, h, b) \in W
  <2> DEFINE w == walkCommits(G, S, h, b.commits, stop)
  <2>1. w.seen \subseteq b.commits \cup WalkRange(G, h)
    BY WalkCommitsWalks DEF Walked
  <2>2. w.seen \subseteq 0..Len(G)
    BY <2>1, WalkRangeBounds
  <2> HIDE DEF w
  <2> QED BY <2>2 DEF AddWant, w
<1>2. F \in [(1..n) \X W -> W]
  <2> HIDE DEF W, n
  <2>1. \A z \in (1..n) \X W : AddWant(G, S, stop, wants[z[1]], z[2]) \in W
    BY <1>0, <1>1
  <2> QED BY <2>1
<1>3. PICK g : Loops(g, F, W, n, a)
  <2>1. a \in W
    OBVIOUS
  <2> HIDE DEF F, W, n, a
  <2> QED BY <1>0, <1>2, <2>1, LoopExists
<1>4. Eq(g)
  <2>1. g \in [0..n -> W] /\ g[0] = a /\ \A i \in 1..n : g[i] = F[<<i, g[i - 1]>>]
    <3> HIDE DEF F, W, n, a
    <3> QED BY <1>3 DEF Loops
  <2>2. ASSUME NEW i \in 1..n PROVE g[i] = AddWant(G, S, stop, wants[i], g[i - 1])
    <3> HIDE DEF W, n, a
    <3>1. i - 1 \in 0..n
      BY <1>0
    <3>2. <<i, g[i - 1]>> \in (1..n) \X W
      BY <2>1, <3>1
    <3> QED BY <2>1, <3>2
  <2> HIDE DEF W, n, a, F
  <2>3. \A i \in 0..n : g[i] = IF i = 0 THEN a ELSE AddWant(G, S, stop, wants[i], g[i - 1])
    BY <1>0, <2>1, <2>2
  <2>4. g = [i \in 0..n |-> g[i]]
    BY <2>1
  <2> QED BY <2>3, <2>4
<1>5. Eq(after)
  <2> HIDE DEF Eq
  <2> QED BY <1>4
<1>6. SendCommits(G, S, wants, haves) = after[n]
  BY DEF SendCommits, AddWant
<1> HIDE DEF after
<1>7. after[0] = a /\ \A i \in 1..n : after[i] = AddWant(G, S, stop, wants[i], after[i - 1])
  <2> HIDE DEF a, n
  <2> QED BY <1>0, <1>5
<1>8. SendStates(G, S, wants, haves, after)
  BY <1>6, <1>7 DEF SendStates, stop
<1> QED BY <1>8

\* The first n haves are in the boundary, which holds nothing but their history, all of it when
\* the store is complete.
HavesWalked(G, S, haves, n, b) ==
    /\ \A d \in b.seen : \E j \in 1..n : d \in WalkRange(G, haves[j])
    /\ \A d \in b.tips : d \in S /\ \E j \in 1..n : d = haves[j]
    /\ \A j \in 1..n : haves[j] \in b.seen
    /\ S = DOMAIN G /\ (\A j \in 1..n : haves[j] # NoCommit) => Closed(G, b.seen)

\* Boundary is the history of the haves, as far as the store can tell.
LEMMA BoundaryWalks ==
    ASSUME NEW G, IsGraph(G), NEW S \in SUBSET DOMAIN G, NEW haves \in Seq(0..Len(G))
    PROVE  HavesWalked(G, S, haves, Len(haves), Boundary(G, S, haves))
<1>0. Len(haves) \in Nat /\ \A i \in 1..Len(haves) : haves[i] \in 0..Len(G)
  OBVIOUS
<1>1. PICK f : BoundaryStates(G, S, haves, f)
  BY BoundaryRuns
<1>2. /\ f[0] = [seen |-> {}, tips |-> {}]
      /\ \A i \in 1..Len(haves) : f[i] = AddHave(G, S, haves[i], f[i - 1])
      /\ Boundary(G, S, haves) = f[Len(haves)]
  BY <1>1 DEF BoundaryStates
<1> DEFINE T == {i \in Nat : i <= Len(haves) => HavesWalked(G, S, haves, i, f[i])}
<1>3. 0 \in T
  <2>1. f[0].seen = {} /\ f[0].tips = {}
    BY <1>2
  <2> QED BY <2>1 DEF HavesWalked, Closed
<1>4. ASSUME NEW i \in Nat, i \in T PROVE i + 1 \in T
  <2> SUFFICES ASSUME i + 1 <= Len(haves) PROVE HavesWalked(G, S, haves, i + 1, f[i + 1])
    OBVIOUS
  <2> DEFINE b == f[i]
             h == haves[i + 1]
             w == walkCommits(G, S, h, b.seen, {})
             u == f[i + 1]
  <2>1. /\ h \in 0..Len(G)
        /\ HavesWalked(G, S, haves, i, b)
        /\ u.seen = w.seen
        /\ u.tips = IF w.end = "error" \/ h \notin S THEN b.tips ELSE b.tips \cup {h}
    <3>1. i + 1 \in 1..Len(haves) /\ (i + 1) - 1 = i /\ i <= Len(haves)
      BY <1>0
    <3>2. u = AddHave(G, S, h, b)
      BY <1>2, <3>1
    <3>3. h \in 0..Len(G) /\ HavesWalked(G, S, haves, i, b)
      BY <1>0, <1>4, <3>1
    <3> QED BY <3>2, <3>3 DEF AddHave
  <2>2. Walked(G, S, h, b.seen, {}, w)
    BY <2>1, WalkCommitsWalks
  <2>3. \A j \in 1..(i + 1) : j \in 1..i \/ j = i + 1
    OBVIOUS
  <2>4. 1..i \subseteq 1..(i + 1) /\ i + 1 \in 1..(i + 1)
    OBVIOUS
  <2>5. h = haves[i + 1]
    OBVIOUS
  <2> HIDE DEF b, h, w, u
  <2>6. \A d \in u.seen : \E j \in 1..(i + 1) : d \in WalkRange(G, haves[j])
    BY <2>1, <2>2, <2>4, <2>5 DEF HavesWalked, Walked
  <2>7. \A d \in u.tips : d \in S /\ \E j \in 1..(i + 1) : d = haves[j]
    BY <2>1, <2>4, <2>5 DEF HavesWalked
  <2>8. \A j \in 1..(i + 1) : haves[j] \in u.seen
    BY <2>1, <2>2, <2>3, <2>5 DEF HavesWalked, Walked
  <2>9. ASSUME S = DOMAIN G, \A j \in 1..(i + 1) : haves[j] # NoCommit PROVE Closed(G, u.seen)
    <3>1. Closed(G, b.seen)
      BY <2>1, <2>4, <2>9 DEF HavesWalked
    <3>2. WalkRange(G, h) = Reach(G, h)
      BY <2>4, <2>5, <2>9 DEF WalkRange
    <3>3. w.end = "none"
      <4>1. Reach(G, h) \subseteq S
        BY <2>1, <2>9, ReachIsClosed
      <4> QED BY <2>2, <3>2, <4>1 DEF Walked
    <3>4. \A d \in w.seen : d \in b.seen \/ Read(G, S, {}, {}, w.seen, d)
      BY <2>2, <3>3 DEF Walked
    <3>5. b.seen \subseteq w.seen
      BY <2>2 DEF Walked
    <3>6. Closed(G, w.seen)
      BY <3>1, <3>4, <3>5 DEF Closed, Read
    <3> QED BY <2>1, <3>6
  <2>10. HavesWalked(G, S, haves, i + 1, u)
    BY <2>6, <2>7, <2>8, <2>9 DEF HavesWalked
  <2> QED BY <2>10 DEF u
<1>5. Len(haves) \in T
  <2> HIDE DEF T
  <2> QED BY <1>0, <1>3, <1>4, SetInduction
<1> QED BY <1>0, <1>2, <1>5

\* The first n wants are sent or in the boundary; what is sent was read unless the walk
\* failed, and it fails only at a commit the store lacks.
WantsWalked(G, S, stop, wants, n, b) ==
    /\ \A d \in b.commits : \E j \in 1..n : d \in WalkRange(G, wants[j])
    /\ b.failed \in BOOLEAN
    /\ \A j \in 1..n : wants[j] \in b.commits \cup stop
    /\ b.commits \cap stop = {}
    /\ ~b.failed => \A d \in b.commits : Read(G, S, stop, {}, b.commits, d)
    /\ b.failed => \E j \in 1..n : ~(WalkRange(G, wants[j]) \subseteq S)

\* SendCommits sends the history of the wants down to the boundary.
LEMMA SendWalks ==
    ASSUME NEW G, IsGraph(G), NEW S \in SUBSET DOMAIN G, NEW wants \in Seq(0..Len(G)), NEW haves
    PROVE  WantsWalked(G, S, Boundary(G, S, haves).seen, wants, Len(wants), SendCommits(G, S, wants, haves))
<1> DEFINE stop == Boundary(G, S, haves).seen
<1>0. Len(wants) \in Nat /\ \A i \in 1..Len(wants) : wants[i] \in 0..Len(G)
  OBVIOUS
<1>1. PICK f : SendStates(G, S, wants, haves, f)
  BY SendRuns
<1>2. /\ f[0] = [commits |-> {}, failed |-> FALSE]
      /\ \A i \in 1..Len(wants) : f[i] = AddWant(G, S, stop, wants[i], f[i - 1])
      /\ SendCommits(G, S, wants, haves) = f[Len(wants)]
  BY <1>1 DEF SendStates
<1> HIDE DEF stop
<1> DEFINE T == {i \in Nat : i <= Len(wants) => WantsWalked(G, S, stop, wants, i, f[i])}
<1>3. 0 \in T
  <2>1. f[0].commits = {} /\ f[0].failed = FALSE
    BY <1>2
  <2>2. f[0].failed \in BOOLEAN /\ ~f[0].failed
    BY <2>1
  <2>3. WantsWalked(G, S, stop, wants, 0, f[0])
    BY <2>1, <2>2 DEF WantsWalked
  <2> QED BY <2>3
<1>4. ASSUME NEW i \in Nat, i \in T PROVE i + 1 \in T
  <2> SUFFICES ASSUME i + 1 <= Len(wants) PROVE WantsWalked(G, S, stop, wants, i + 1, f[i + 1])
    OBVIOUS
  <2> DEFINE b == f[i]
             h == wants[i + 1]
             w == walkCommits(G, S, h, b.commits, stop)
             u == f[i + 1]
  <2>1. /\ h \in 0..Len(G)
        /\ WantsWalked(G, S, stop, wants, i, b)
        /\ u.commits = w.seen
        /\ u.failed = (b.failed \/ w.end = "error")
    <3>1. i + 1 \in 1..Len(wants) /\ (i + 1) - 1 = i /\ i <= Len(wants)
      BY <1>0
    <3>2. u = AddWant(G, S, stop, h, b)
      BY <1>2, <3>1
    <3>3. h \in 0..Len(G) /\ WantsWalked(G, S, stop, wants, i, b)
      BY <1>0, <1>4, <3>1
    <3> QED BY <3>2, <3>3 DEF AddWant
  <2>2. Walked(G, S, h, b.commits, stop, w)
    BY <2>1, WalkCommitsWalks
  <2>3. \A j \in 1..(i + 1) : j \in 1..i \/ j = i + 1
    OBVIOUS
  <2>4. 1..i \subseteq 1..(i + 1) /\ i + 1 \in 1..(i + 1)
    OBVIOUS
  <2>5. h = wants[i + 1]
    OBVIOUS
  <2> HIDE DEF b, h, w, u
  <2>6. \A d \in u.commits : \E j \in 1..(i + 1) : d \in WalkRange(G, wants[j])
    BY <2>1, <2>2, <2>4, <2>5 DEF WantsWalked, Walked
  <2>7. \A j \in 1..(i + 1) : wants[j] \in u.commits \cup stop
    BY <2>1, <2>2, <2>3, <2>5 DEF WantsWalked, Walked
  <2>8. u.commits \cap stop = {}
    BY <2>1, <2>2 DEF WantsWalked, Walked
  <2>9. ASSUME ~u.failed PROVE \A d \in u.commits : Read(G, S, stop, {}, u.commits, d)
    <3>1. ~b.failed /\ w.end = "none"
      BY <2>1, <2>2, <2>9 DEF Walked
    <3> QED BY <2>1, <2>2, <3>1 DEF WantsWalked, Walked, Read
  <2>10. ASSUME u.failed PROVE \E j \in 1..(i + 1) : ~(WalkRange(G, wants[j]) \subseteq S)
    BY <2>1, <2>2, <2>4, <2>5, <2>10 DEF WantsWalked, Walked
  <2>11. u.failed \in BOOLEAN
    BY <2>1
  <2>12. WantsWalked(G, S, stop, wants, i + 1, u)
    BY <2>6, <2>7, <2>8, <2>9, <2>10, <2>11 DEF WantsWalked
  <2> QED BY <2>12 DEF u
<1>5. Len(wants) \in T
  <2> HIDE DEF T
  <2> QED BY <1>0, <1>3, <1>4, SetInduction
<1> QED BY <1>0, <1>2, <1>5 DEF stop

\* The history of the haves.
Had(G, haves) == UNION {Reach(G, haves[j]) : j \in DOMAIN haves}

\* The history of commits is closed, and the boundary is part of it.
LEMMA BoundaryInHad ==
    ASSUME NEW G, IsGraph(G), NEW S \in SUBSET DOMAIN G, NEW haves \in Seq(DOMAIN G)
    PROVE  /\ Boundary(G, S, haves).seen \subseteq Had(G, haves)
           /\ Boundary(G, S, haves).tips \subseteq Had(G, haves) \cap S
           /\ Closed(G, Had(G, haves))
           /\ S = DOMAIN G => Had(G, haves) \subseteq Boundary(G, S, haves).seen
<1> DEFINE b == Boundary(G, S, haves)
<1>0. DOMAIN G = 1..Len(G) /\ Len(G) \in Nat /\ DOMAIN haves = 1..Len(haves)
      /\ \A j \in DOMAIN haves : haves[j] \in DOMAIN G /\ haves[j] \in 0..Len(G) /\ haves[j] # NoCommit
  <2>1. DOMAIN G = 1..Len(G) /\ Len(G) \in Nat
    BY DEF IsGraph
  <2>2. DOMAIN haves = 1..Len(haves) /\ \A j \in DOMAIN haves : haves[j] \in DOMAIN G
    OBVIOUS
  <2> QED BY <2>1, <2>2 DEF NoCommit
<1>1. HavesWalked(G, S, haves, Len(haves), b)
  <2>1. haves \in Seq(0..Len(G))
    <3>1. Len(haves) \in Nat /\ haves \in [1..Len(haves) -> 0..Len(G)]
      BY <1>0
    <3> QED BY <3>1
  <2> QED BY <2>1, BoundaryWalks
<1> HIDE DEF b
<1>2. \A j \in DOMAIN haves : WalkRange(G, haves[j]) = Reach(G, haves[j])
  BY <1>0 DEF WalkRange
<1>3. \A j \in DOMAIN haves : haves[j] \in Reach(G, haves[j])
  BY <1>0, ReachUnfolds
<1>4. b.seen \subseteq Had(G, haves) /\ b.tips \subseteq Had(G, haves) \cap S
  BY <1>0, <1>1, <1>2, <1>3 DEF HavesWalked, Had
<1>5. Closed(G, Had(G, haves))
  <2>1. \A j \in DOMAIN haves : Closed(G, Reach(G, haves[j]))
    BY <1>0, ReachIsClosed
  <2> QED BY <2>1 DEF Closed, Had
<1>6. ASSUME S = DOMAIN G PROVE Had(G, haves) \subseteq b.seen
  <2>1. Closed(G, b.seen) /\ \A j \in DOMAIN haves : haves[j] \in b.seen
    BY <1>0, <1>1, <1>6 DEF HavesWalked
  <2>2. \A j \in DOMAIN haves : Reach(G, haves[j]) \subseteq b.seen
    BY <1>0, <2>1, ReachLeast
  <2> QED BY <2>2 DEF Had
<1> QED BY <1>4, <1>5, <1>6 DEF b

\* Enumerate is complete, over any store: a receiver that has the history of its haves has the
\* history of every want once it has the commits sent.
THEOREM SendCompletes ==
    ASSUME NEW G, IsGraph(G), NEW S \in SUBSET DOMAIN G, NEW wants \in Seq(0..Len(G)),
           NEW haves \in Seq(DOMAIN G), ~SendCommits(G, S, wants, haves).failed
    PROVE  \A j \in DOMAIN wants :
              Reach(G, wants[j]) \subseteq SendCommits(G, S, wants, haves).commits \cup Had(G, haves)
<1> DEFINE stop == Boundary(G, S, haves).seen
           b == SendCommits(G, S, wants, haves)
           A == b.commits \cup Had(G, haves)
<1>0. DOMAIN G = 1..Len(G) /\ Len(G) \in Nat /\ DOMAIN wants = 1..Len(wants)
      /\ \A j \in DOMAIN wants : wants[j] \in 0..Len(G)
  <2>1. DOMAIN G = 1..Len(G) /\ Len(G) \in Nat
    BY DEF IsGraph
  <2> QED BY <2>1
<1>1. WantsWalked(G, S, stop, wants, Len(wants), b) /\ ~b.failed
  BY SendWalks
<1>2. stop \subseteq Had(G, haves) /\ Closed(G, Had(G, haves))
  BY BoundaryInHad
<1> HIDE DEF stop, b
<1>3. Closed(G, A)
  BY <1>1, <1>2 DEF WantsWalked, Read, Closed
<1>4. \A j \in DOMAIN wants : wants[j] \in A
  BY <1>0, <1>1, <1>2 DEF WantsWalked
<1> HIDE DEF A
<1>5. ASSUME NEW j \in DOMAIN wants PROVE Reach(G, wants[j]) \subseteq A
  <2>1. CASE wants[j] = NoCommit
    BY <2>1, ReachNone
  <2>2. CASE wants[j] # NoCommit
    <3>1. wants[j] \in DOMAIN G
      BY <1>0, <2>2 DEF NoCommit
    <3> QED BY <1>3, <1>4, <3>1, ReachLeast
  <2> QED BY <2>1, <2>2
<1> QED BY <1>5 DEF A, b

\* What Enumerate sends, the sender could read.
LEMMA SendIsReadable ==
    ASSUME NEW G, IsGraph(G), NEW S \in SUBSET DOMAIN G, NEW wants \in Seq(0..Len(G)), NEW haves,
           ~SendCommits(G, S, wants, haves).failed
    PROVE  SendCommits(G, S, wants, haves).commits \subseteq S
<1> DEFINE stop == Boundary(G, S, haves).seen
           b == SendCommits(G, S, wants, haves)
<1>1. WantsWalked(G, S, stop, wants, Len(wants), b)
  BY SendWalks
<1>2. ~b.failed
  OBVIOUS
<1> HIDE DEF stop, b
<1>3. b.commits \subseteq S
  BY <1>1, <1>2 DEF WantsWalked, Read
<1> QED BY <1>3 DEF b

\* Enumerate is minimal: over a complete store it sends no commit of the haves' history.
THEOREM SendIsNew ==
    ASSUME NEW G, IsGraph(G), NEW wants \in Seq(0..Len(G)), NEW haves \in Seq(DOMAIN G)
    PROVE  SendCommits(G, DOMAIN G, wants, haves).commits \cap Had(G, haves) = {}
<1> DEFINE S == DOMAIN G
           stop == Boundary(G, S, haves).seen
           b == SendCommits(G, S, wants, haves)
<1>0. S \in SUBSET DOMAIN G
  OBVIOUS
<1>1. WantsWalked(G, S, stop, wants, Len(wants), b)
  BY SendWalks
<1>2. Had(G, haves) \subseteq stop
  BY BoundaryInHad
<1> HIDE DEF stop, b
<1>3. b.commits \cap stop = {}
  BY <1>1 DEF WantsWalked
<1>4. b.commits \cap Had(G, haves) = {}
  BY <1>2, <1>3
<1> QED BY <1>4 DEF b
==============================================================================
