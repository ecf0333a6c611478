----------------------------- MODULE CommitGraph -----------------------------
(***************************************************************************)
(* The walks over the commit graph that the rest of the program rests on:  *)
(* MergeBase and Generation of pkg/graph, the commit walks of Enumerate of *)
(* pkg/transfer.                                                           *)
(*                                                                         *)
(* Commits are numbered in the order they are made.  G[c] is the sequence  *)
(* of the parents of c; S is the set of commits the store walked over can  *)
(* read.  A walk that meets a commit outside S ends with an error.         *)
(***************************************************************************)
EXTENDS Naturals, Sequences
LOCAL INSTANCE FiniteSetsExt
LOCAL INSTANCE Functions

NoCommit == 0   \* the zero CommitID

----------------------------------------------------------------------------
(* Reference definitions                                                   *)

\* The ancestors of c, c included.  Parents come before their children.
Reach(G, c) ==
    LET up[d \in DOMAIN G] == {d} \cup UNION {up[G[d][i]] : i \in DOMAIN G[d]}
    IN  IF c = NoCommit THEN {} ELSE up[c]

IsAncestor(G, a, b) == a \in Reach(G, b)

----------------------------------------------------------------------------
(* Breadth-first walks                                                     *)

\* The parents ps of a commit that was read: each one neither seen nor in stop is recorded
\* and queued.
Enqueue(ps, stop, w) ==
    LET after[i \in 0..Len(ps)] ==
            IF i = 0 THEN w
            ELSE LET v == after[i - 1]
                 IN  IF ps[i] \in v.seen \cup stop THEN v
                     ELSE [v EXCEPT !.queue = Append(@, ps[i]), !.seen = @ \cup {ps[i]}]
    IN  after[Len(ps)]

\* One turn of the queue loop the walks share: dequeue, stop at a goal, read, enqueue.
Turn(G, S, stop, goal, w) ==
    LET c == Head(w.queue)
    IN  IF w.end # "none" \/ w.queue = << >> THEN w
        ELSE IF c \in goal THEN [w EXCEPT !.end = "found"]
        ELSE IF c \notin S THEN [w EXCEPT !.end = "error"]
        ELSE Enqueue(G[c], stop, [w EXCEPT !.queue = Tail(@)])

\* The loop.  Each commit is queued once, so Len(G) + 1 turns empty the queue.
Bfs(G, S, start, seen, stop, goal) ==
    LET walk[n \in Nat] ==
            IF n = 0 THEN [queue |-> <<start>>, seen |-> seen \cup {start}, end |-> "none"]
            ELSE Turn(G, S, stop, goal, walk[n - 1])
    IN  walk[Len(G) + 1]

\* Mutant: the start itself is not recorded.
collectProperAncestors(G, S, start) ==
    [Bfs(G, S, start, {}, {}, {}) EXCEPT !.seen = @ \ {start}]

collectAncestors(G, S, start) == Bfs(G, S, start, {}, {}, {})

\* The first commit of the walk from b that is an ancestor of a; NoCommit for any error.
MergeBase(G, S, a, b) ==
    LET ancestorsA == collectAncestors(G, S, a)
        walkB == Bfs(G, S, b, {}, {}, ancestorsA.seen)
    IN  IF a = b THEN a
        ELSE IF ancestorsA.end = "error" \/ walkB.end # "found" THEN NoCommit
        ELSE Head(walkB.queue)

\* Root 0, child one more than its highest parent.
Generation(G, c) ==
    LET gen[d \in DOMAIN G] ==
            IF G[d] = << >> THEN 0 ELSE 1 + Max({gen[G[d][i]] : i \in DOMAIN G[d]})
    IN  gen[c]

----------------------------------------------------------------------------
(* Enumerate, steps 1 and 2                                                *)

walkCommits(G, S, start, seen, stop) ==
    IF start \in stop \cup seen THEN [queue |-> << >>, seen |-> seen, end |-> "none"]
    ELSE Bfs(G, S, start, seen, stop, {})

\* Mutant: the boundary is the haves, without their history.
BoundaryOfTips(G, S, haves) ==
    [seen |-> Range(haves), tips |-> Range(haves) \cap S]

\* Step 1.  A have whose walk fails is skipped, but the commits its walk has marked stay
\* in the boundary.  tips are the haves whose trees seed haveObjs.
Boundary(G, S, haves) ==
    LET after[i \in 0..Len(haves)] ==
            IF i = 0 THEN [seen |-> {}, tips |-> {}]
            ELSE LET b == after[i - 1]
                     w == walkCommits(G, S, haves[i], b.seen, {})
                 IN  [seen |-> w.seen,
                      tips |-> IF w.end = "error" \/ haves[i] \notin S THEN b.tips
                               ELSE b.tips \cup {haves[i]}]
    IN  after[Len(haves)]

\* Step 2: the commits to send, and whether the walk failed.
SendCommits(G, S, wants, haves) ==
    LET stop == Boundary(G, S, haves).seen
        after[i \in 0..Len(wants)] ==
            IF i = 0 THEN [commits |-> {}, failed |-> FALSE]
            ELSE LET b == after[i - 1]
                     w == walkCommits(G, S, wants[i], b.commits, stop)
                 IN  [commits |-> w.seen, failed |-> b.failed \/ w.end = "error"]
    IN  after[Len(wants)]
==============================================================================
