------------------------------ MODULE TextMerge ------------------------------
(***************************************************************************)
(* One three-way merge of a file, over every base, ours and theirs of the  *)
(* bound.  The engine's loop runs one turn per step, so that its ending is *)
(* a question about behaviours; what the other operators compute is        *)
(* checked in the first state of each.  Other behaviours take a structured *)
(* document or a rule of the merge policy instead of a file.               *)
(***************************************************************************)
EXTENDS LineMerge, TreeMerge, MergeRules, FiniteSets
LOCAL INSTANCE SequencesExt

CONSTANTS Token,     \* the texts of lines, none of them a marker
          MaxLines,  \* bound on the length of a file
          Key,       \* keys of an object
          Scalar,    \* scalar values
          Name,      \* names of folders and files
          MaxDepth   \* bound on the segments of a pattern and of a path

VARIABLES base, ours, theirs,         \* the three versions of the file
          ourBlocks, theirBlocks,     \* the changes of each side
          m,                          \* the state of the loop of mergeChangeBlocks
          doc,                        \* three versions of a structured document
          rule                        \* a pattern and a path
vars == <<base, ours, theirs, ourBlocks, theirBlocks, m, doc, rule>>

ASSUME TextAssumption ==
    MaxLines \in Nat /\ MaxDepth \in Nat /\ Token \cap {"<<<", "|||", "===", ">>>"} = {}

\* Only the last line of a file may lack its newline.
Files ==
    UNION {{f \in [1..n -> {Line(t, nl) : t \in Token, nl \in BOOLEAN}] :
               \A i \in 1..(n - 1) : f[i].nl} : n \in 0..MaxLines}

\* Objects of scalars, and objects one of whose members is such an object.
Flat == {Object(f) : f \in UNION {[ks -> {Atom(v) : v \in Scalar}] : ks \in SUBSET Key}}
Docs == {Atom(v) : v \in Scalar} \cup Flat \cup {Object([k \in {x} |-> n]) : x \in Key, n \in Flat}

Segments(set) == UNION {[1..n -> set] : n \in 1..MaxDepth}

NoDoc == <<Null, Null, Null>>
NoRule == << << >>, << >> >>

\* The merge engine calls ThreeWayMerge for a file both sides modified; an empty base is
\* decided without the loop.  Tokens are only compared, so the first may be fixed.
InitFile ==
    /\ base \in Files /\ base # << >>
    /\ base[1].text = <<CHOOSE t \in Token : TRUE>>
    /\ \E blocks \in {[f \in Files |-> EngineBlocks(base, f)]} :
          /\ ours \in Files /\ theirs \in Files
          /\ ours # base /\ theirs # base /\ ours # theirs
          /\ ourBlocks = blocks[ours] /\ theirBlocks = blocks[theirs]
    /\ m = MergeStart
    /\ doc = NoDoc /\ rule = NoRule

InitOther ==
    /\ base = << >> /\ ours = << >> /\ theirs = << >>
    /\ ourBlocks = << >> /\ theirBlocks = << >>
    /\ m = [MergeStart EXCEPT !.end = "done"]
    /\ \/ rule = NoRule /\ doc \in Docs \X Docs \X Docs
       \/ doc = NoDoc /\ rule \in Segments(Name \cup {"*", "**"}) \X Segments(Name)

Init == InitOther \/ InitFile

Turn ==
    /\ m.end = "none"
    /\ m' = MergeTurn(base, ourBlocks, theirBlocks, m)
    /\ UNCHANGED <<base, ours, theirs, ourBlocks, theirBlocks, doc, rule>>

Ended ==
    /\ m.end # "none"
    /\ UNCHANGED vars

Next == Turn \/ Ended

Spec == Init /\ [][Next]_vars

----------------------------------------------------------------------------
(* Properties                                                              *)

Styles == {"merge", "diff3", "zdiff3"}
AtStart == m = MergeStart
NewlineEnds(f) == f = << >> \/ Last(f).nl
AllNewlines == NewlineEnds(base) /\ NewlineEnds(ours) /\ NewlineEnds(theirs)

\* Both ways of finding changes (myersDiff with extractChangeBlocks, and changeBlocks)
\* describe exactly the other file, and the Myers script is as short as an LCS allows.
DiffsExact ==
    AtStart =>
        LET Exact(blocks) == ApplyBlocks(base, blocks) = ours
            Shortest(edits) == Len(edits) = Len(base) + Len(ours) - 2 * Lcs(base, ours)[0, 0]
            ExactScript(script) == /\ Exact(extractChangeBlocks(script))
                                   /\ Shortest(SelectSeq(script, LAMBDA e : e.op # "keep"))
        IN  ExactScript(myersDiff(base, ours)) /\ Exact(changeBlocks(base, ours))

\* Two changes of one base meet: they overlap or start at the same place.
Touches(a, b) == (a.from < b.to /\ b.from < a.to) \/ a.from = b.from

SortedBlocks(set) == SetToSortSeq(set, LAMBDA a, b : a.from < b.from \/ (a.from = b.from /\ a.to < b.to))

\* The merge that prefers one side: all its changes and the changes of the other side
\* that touch none of them.
Preferring(mine, yours) ==
    ApplyBlocks(base, SortedBlocks(Range(mine) \cup {b \in Range(yours) : \A a \in Range(mine) : ~Touches(a, b)}))

AllPicks(segs, pick) == [k \in 1..HunkCount(segs) |-> pick]

\* Render settles everything but true overlaps: keeping our side of every conflict it
\* leaves gives all our changes plus their changes that touch none of ours, and the same
\* for their side, in every marker style.
PicksLoseNothing ==
    AtStart /\ AllNewlines =>
        LET Picked(segs, pick) == Assemble(segs, AllPicks(segs, pick)).lines
            LosesNothing(segs, o, t) ==
                Picked(segs, "ours") = Preferring(o, t) /\ Picked(segs, "theirs") = Preferring(t, o)
        IN  \A style \in Styles :
                LosesNothing(Parse(Render(base, ours, theirs, style).lines).segs,
                             changeBlocks(base, ours), changeBlocks(base, theirs))

\* Whatever Render writes can be read back: the hunks are as many as it counted, none is
\* malformed, and a file in which nothing is decided comes back as it was.
MarkersReadBack ==
    AtStart =>
        LET Same(r, p) ==
                /\ ~p.err
                /\ HunkCount(p.segs) = r.remaining /\ Count(r.lines) = r.remaining
                /\ (r.remaining = 0) = ~HasMarkers(r.lines)
                /\ Assemble(p.segs, << >>) = [lines |-> r.lines, remaining |-> r.remaining]
            ReadsBack(r) == Same(r, Parse(r.lines))
        IN  \A style \in Styles : ReadsBack(Render(base, ours, theirs, style))

\* The strategies of resolve, which read two-way markers, and the picks of the interactive
\* resolver, which read every style, make the same of a file; and where the engine's merge
\* came to an end, resolve's rendering of the same sides does so too, and no strategy fails
\* on, or leaves a marker in, what the engine wrote.
StrategiesAgree ==
    AllNewlines =>
        /\ AtStart =>
              LET Agree(f, segs) ==
                      \A s \in {<<"ours", "ours">>, <<"theirs", "theirs">>, <<"union", "both">>} :
                          Resolve(f, s[1]).lines = Assemble(segs, AllPicks(segs, s[2])).lines
                  AgreeOn(f) == Agree(f, Parse(f).segs)
              IN  AgreeOn(Render(base, ours, theirs, "merge").lines)
        /\ m.end = "done" =>
              LET Settled(r) == r.end = "done" /\ ~r.err /\ ~HasMarkers(r.lines)
              IN  \A strat \in {"ours", "theirs", "union"} :
                      Settled(resolveContent(base, ours, theirs, strat, "merge"))

\* Whether a merge is clean is one question: a merge the engine reports clean is one Render
\* also settles, and which side is called ours decides neither whether Render finds a
\* conflict nor what a clean merge contains.
CleanMergesAgree ==
    LET here == Render(base, ours, theirs, "merge")
        Alike(r, s) == r.remaining = s.remaining /\ (r.remaining = 0 => r.lines = s.lines)
    IN  /\ m.end = "done" /\ ~m.conflict => here.remaining = 0
        /\ AtStart => Alike(here, Render(base, theirs, ours, "merge"))

\* The value at a path of keys when it is a scalar, as text; "none" where there is none.
Leaf(n, p) ==
    LET RECURSIVE At(_, _)
        At(v, q) == IF q = << >> THEN IF v.kind = "object" THEN "none" ELSE v.atom
                    ELSE IF v.kind = "object" /\ Has(v.kids, Head(q)) THEN At(v.kids[Head(q)], Tail(q))
                    ELSE "none"
    IN  At(n, p)

\* A structural merge reported clean has every change of both sides: at every path the
\* scalar is the one of the side that changed it.  Anything else counts a conflict and
\* marks it in the tree, and the order of the sides does not matter.
CleanTreeHasBothSides ==
    LET r == mergeTree(doc[1], doc[2], doc[3])
        s == mergeTree(doc[1], doc[3], doc[2])
        paths == {<< >>} \cup {<<k>> : k \in Key} \cup (Key \X Key)
        Wanted(p) == IF Leaf(doc[2], p) # Leaf(doc[1], p) THEN Leaf(doc[2], p) ELSE Leaf(doc[3], p)
    IN  /\ containsConflict(r.value) = (r.conflicts > 0)
        /\ r.conflicts = s.conflicts
        /\ r.conflicts = 0 =>
              \A p \in paths :
                  /\ Leaf(r.value, p) = Wanted(p)
                  /\ Leaf(doc[3], p) # Leaf(doc[1], p) => Leaf(r.value, p) = Leaf(doc[3], p)

\* The ways to write a pattern without a double star for a path of n segments: each one
\* stands for any number of stars, the last for at least one.
Spelled(pat, n) ==
    {q \in [1..n -> Name \cup {"*"}] :
        \E w \in [DOMAIN pat -> 0..n] :
            /\ \A i \in DOMAIN pat : pat[i] # "**" => w[i] = 1
            /\ pat[Len(pat)] = "**" => w[Len(pat)] > 0
            /\ q = FlattenSeq([i \in DOMAIN pat |-> [x \in 1..w[i] |-> IF pat[i] = "**" THEN "*" ELSE pat[i]]])}

\* matchSegments, which tries the spans of the double stars one after the other, agrees
\* with the meaning of the pattern.
PatternsMean ==
    rule # NoRule =>
        matchSegments(rule[1], rule[2])
            = \E q \in Spelled(rule[1], Len(rule[2])) : \A i \in DOMAIN q : Glob(q[i], rule[2][i])

\* The engine's loop (mergeChangeBlocks) ends for every file, so that every merge comes to
\* one of the results RFC-0008 lists: a turn that is not the last consumes a block of one
\* side.  (A turn that changes nothing would be repeated for ever, and a panic ends the
\* program in the middle of a merge.)
LoopAdvances ==
    m.end = "none" =>
        LET Consumes(next) == next.end = "done" \/ (next.end = "none" /\ next.oi + next.ti > m.oi + m.ti)
        IN  Consumes(MergeTurn(base, ourBlocks, theirBlocks, m))
==============================================================================
