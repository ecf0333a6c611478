----------------------------- MODULE MCWorkspace -----------------------------
(***************************************************************************)
(* TLC instances of Workspace: files of two lines, merged by LineMerge.    *)
(***************************************************************************)
EXTENDS Workspace
CONSTANTS p, q, main, side, old
LM == INSTANCE LineMerge

T(a, b) == <<LM!Line(a, TRUE), LM!Line(b, TRUE)>>
Bin(a) == <<LM!Line("NUL", TRUE), LM!Line(a, TRUE)>>

A == T("a", "b")
X == T("x", "b")
Y == T("y", "b")
Z == T("a", "z")

Tree(f, g) == [r \in Path |-> IF r = p THEN f ELSE g]
Fork(base, ours, theirs, hasSide, n) ==
    [main |-> main, side |-> side, base |-> base, ours |-> ours, theirs |-> theirs,
     hasSide |-> hasSide, commands |-> n]

Conflict    == Fork(Tree(A, None), Tree(X, None), Tree(Y, X), TRUE, 3)         \* edit against edit, an added file
Settled     == Fork(Tree(A, A), Tree(X, A), Tree(Z, None), TRUE, 2)            \* neighbouring edits, a deleted file
Structural  == Fork(Tree(A, A), Tree(None, X), Tree(X, A), TRUE, 3)            \* deletion against edit
BinaryFiles == Fork(Tree(Bin("0"), None), Tree(Bin("1"), X), Tree(Bin("2"), Y), TRUE, 2)  \* and add against add
Clean       == Fork(Tree(A, None), Tree(X, None), Tree(A, Y), TRUE, 3)
Behind      == Fork(Tree(A, A), << >>, Tree(X, None), TRUE, 3)                 \* a fast-forward
Unborn      == Fork(<< >>, << >>, Tree(A, None), TRUE, 3)
Linear      == Fork(Tree(A, None), Tree(X, None), << >>, FALSE, 3)             \* one branch

AllForks == {Conflict, Settled, Structural, BinaryFiles, Clean, Behind, Unborn, Linear}
SealForks == {Conflict}

Mine == {T("u", "b")}
Manual == [r \in Path |-> "manual"]
Mixed == [r \in Path |-> IF r = p THEN "union" ELSE "manual"]
Settings(by, ask) == [by |-> by, ask |-> ask]
SomePolicies == {Settings(Manual, FALSE), Settings(Mixed, TRUE)}
ManualOnly == {Settings(Manual, FALSE)}

MCBinary(f) == \E i \in DOMAIN f : f[i].text = <<"NUL">>
MCMarked(f) == LM!HasMarkers(f)
MCEngine(b, o, t) ==
    LET Result(m) == [blob |-> m.lines, conflict |-> m.conflict, end |-> m.end]
    IN  Result(LM!ThreeWayMerge(b, o, t))
MCRendered(b, o, t) ==
    LET Result(r) == [blob |-> r.lines, remaining |-> r.remaining]
    IN  Result(LM!Render(b, o, t, "zdiff3"))
MCUnion(b, o, t) == LM!resolveContent(b, o, t, "union", "zdiff3").lines
MCLegacy(f, strat) == LM!Resolve(f, strat).lines

\* Every way to decide the hunks of a file, at least one of them.
MCPicked(f) ==
    LET Result(a) == [blob |-> a.lines, left |-> a.remaining]
        Picks(n) == {e \in [1..n -> {"ours", "theirs", "both", "bothTheirsFirst", "skip"}] :
                        \E i \in DOMAIN e : e[i] # "skip"}
        Decided(segs, n) == IF n = 0 THEN {[blob |-> f, left |-> 0]}
                            ELSE {Result(LM!Assemble(segs, d)) : d \in Picks(n)}
        Of(read) == IF read.err THEN {} ELSE Decided(read.segs, LM!HunkCount(read.segs))
    IN  Of(LM!Parse(f))
==============================================================================
