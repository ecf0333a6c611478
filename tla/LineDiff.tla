------------------------------- MODULE LineDiff -------------------------------
(***************************************************************************)
(* Edit scripts between two files: the Myers search of pkg/diff and the    *)
(* longest-common-subsequence walk of internal/conflict, both reduced to   *)
(* the change blocks the two merges work on.                               *)
(*                                                                         *)
(* A file is a sequence of lines.  A line is a record: its text, a         *)
(* sequence of tokens, and whether a newline ends it; only the last line   *)
(* of a file may lack one.  Positions in a file are counted from 0 as in   *)
(* the code, so Slice(f, i, j) is the slice f[i:j].                        *)
(***************************************************************************)
EXTENDS Integers, Sequences
LOCAL INSTANCE SequencesExt
LOCAL INSTANCE FiniteSetsExt

Line(token, nl) == [text |-> <<token>>, nl |-> nl]

Slice(f, i, j) == SubSeq(f, i + 1, j)

\* What splitLines makes of the concatenation of the lines: a line without a newline is
\* fused with the line after it.
splitLines(lines) ==
    FoldLeft(LAMBDA f, l :
                IF f # << >> /\ ~Last(f).nl
                THEN Front(f) \o <<[text |-> Last(f).text \o l.text, nl |-> l.nl]>>
                ELSE Append(f, l),
             << >>, lines)

\* A run of base lines and the lines that replace it.
Block(from, to, new) == [from |-> from, to |-> to, new |-> new]

\* The file the blocks turn base into: the meaning of a list of change blocks.
ApplyBlocks(base, blocks) ==
    LET done == FoldLeft(LAMBDA a, b : [pos |-> b.to, out |-> a.out \o Slice(base, a.pos, b.from) \o b.new],
                         [pos |-> 0, out |-> << >>], blocks)
    IN  done.out \o Slice(base, done.pos, Len(base))

----------------------------------------------------------------------------
(* The Myers search                                                        *)

Edit(op, line) == [op |-> op, line |-> line]

\* Whether diagonal k is reached in round d by an insertion, from diagonal k + 1.
Down(v, k, d) == k = -d \/ (k # d /\ v[k - 1] < v[k + 1])

\* How many equal lines follow (x, y).
Snake(src, dst, x, y) ==
    CHOOSE s \in 0..Len(src) :
        /\ \A i \in 1..s : x + i <= Len(src) /\ y + i <= Len(dst) /\ src[x + i] = dst[y + i]
        /\ \/ x + s >= Len(src) \/ y + s >= Len(dst)
           \/ src[x + s + 1] # dst[y + s + 1]

\* Mutant: the diagonal is not followed to its end.
FarOneStep(src, dst, v, k, d) ==
    LET x == IF Down(v, k, d) THEN v[k + 1] ELSE v[k - 1] + 1
    IN  x + Min({1, Snake(src, dst, x, x - k)})

\* The furthest x on diagonal k with d edits.
Far(src, dst, v, k, d) ==
    LET x == IF Down(v, k, d) THEN v[k + 1] ELSE v[k - 1] + 1
    IN  x + Snake(src, dst, x, x - k)

Diagonals(d) == {k \in -d..d : (d - k) % 2 = 0}

\* traces[d]: the furthest points before round d.  A round reads only the diagonals of
\* the other parity, so its order does not matter.
Traces(src, dst) ==
    LET max == Len(src) + Len(dst)
        t[d \in 0..max] ==
            IF d = 0 THEN [k \in -(max + 1)..(max + 1) |-> 0]
            ELSE [k \in -(max + 1)..(max + 1) |->
                    IF k \in Diagonals(d - 1) THEN Far(src, dst, t[d - 1], k, d - 1) ELSE t[d - 1][k]]
    IN  t

\* The edits of the d-path that ends in (x, y), found backwards.
RECURSIVE BuildEdits(_, _, _, _, _, _)
BuildEdits(traces, src, dst, d, x, y) ==
    LET Keeps(n) == [i \in 1..n |-> Edit("keep", src[x - n + i])]
        k == x - y
        down == Down(traces[d], k, d)
        prevK == IF down THEN k + 1 ELSE k - 1
        prevX == traces[d][prevK]
        prevY == prevX - prevK
        step == IF down THEN Edit("insert", dst[prevY + 1]) ELSE Edit("delete", src[prevX + 1])
        snake == IF down THEN Min({x - prevX, y - prevY - 1}) ELSE Min({x - prevX - 1, y - prevY})
    IN  IF d = 0 THEN Keeps(Min({x, y}))
        ELSE Append(BuildEdits(traces, src, dst, d - 1, prevX, prevY), step) \o Keeps(snake)

myersDiff(src, dst) ==
    LET n == Len(src)
        m == Len(dst)
        traces == Traces(src, dst)
        Ends(d) == \E k \in Diagonals(d) :
                      LET x == Far(src, dst, traces[d], k, d) IN x >= n /\ x - k >= m
    IN  IF n = 0 THEN [i \in 1..m |-> Edit("insert", dst[i])]
        ELSE IF m = 0 THEN [i \in 1..n |-> Edit("delete", src[i])]
        ELSE BuildEdits(traces, src, dst, Min({d \in 0..(n + m) : Ends(d)}), n, m)

\* Runs of edits between kept lines become one block each.
extractChangeBlocks(edits) ==
    LET Turn(a, e) ==
            LET b == IF a.open THEN Last(a.blocks) ELSE Block(a.pos, a.pos, << >>)
                rest == IF a.open THEN Front(a.blocks) ELSE a.blocks
            IN  CASE e.op = "keep"   -> [a EXCEPT !.pos = @ + 1, !.open = FALSE]
                  [] e.op = "delete" -> [pos |-> a.pos + 1, open |-> TRUE,
                                         blocks |-> Append(rest, [b EXCEPT !.to = @ + 1])]
                  [] e.op = "insert" -> [pos |-> a.pos, open |-> TRUE,
                                         blocks |-> Append(rest, [b EXCEPT !.new = Append(@, e.line)])]
    IN  FoldLeft(Turn, [pos |-> 0, open |-> FALSE, blocks |-> << >>], edits).blocks

----------------------------------------------------------------------------
(* The blocks of internal/conflict                                         *)

\* lcs[i, j]: the length of a longest common subsequence of base[i:] and other[j:].
Lcs(base, other) ==
    LET n == Len(base)
        m == Len(other)
        l[i \in 0..n, j \in 0..m] ==
            IF i = n \/ j = m THEN 0
            ELSE IF base[i + 1] = other[j + 1] THEN l[i + 1, j + 1] + 1
            ELSE Max({l[i + 1, j], l[i, j + 1]})
    IN  l

\* The walk over both files: equal lines are kept, otherwise the longer remainder decides.
LcsEdits(base, other) ==
    LET n == Len(base)
        m == Len(other)
        lcs == Lcs(base, other)
        Tails(i, j) == [t \in 1..(n - i) |-> Edit("delete", base[i + t])]
                       \o [t \in 1..(m - j) |-> Edit("insert", other[j + t])]
        walk[i \in 0..n, j \in 0..m] ==
            IF i = n \/ j = m THEN Tails(i, j)
            ELSE IF base[i + 1] = other[j + 1] THEN <<Edit("keep", base[i + 1])>> \o walk[i + 1, j + 1]
            ELSE IF lcs[i + 1, j] >= lcs[i, j + 1] THEN <<Edit("delete", base[i + 1])>> \o walk[i + 1, j]
            ELSE <<Edit("insert", other[j + 1])>> \o walk[i, j + 1]
    IN  walk[0, 0]

\* A block ends where the files agree again; the edit that reaches the end of the file is
\* joined to the block it continues.
changeBlocks(base, other) == extractChangeBlocks(LcsEdits(base, other))
==============================================================================
