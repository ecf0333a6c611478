------------------------------ MODULE LineMerge ------------------------------
(***************************************************************************)
(* The two three-way merges of lines and the conflict markers they leave:  *)
(* ThreeWayMerge of pkg/diff, used by the merge engine, and Render of      *)
(* internal/conflict, which decides its conflicts again; Parse, Assemble   *)
(* and Resolve read the markers back.                                      *)
(***************************************************************************)
EXTENDS LineDiff
LOCAL INSTANCE SequencesExt
LOCAL INSTANCE FiniteSetsExt

\* The marker lines, seven characters each in a file.
Marker(kind) == Line(kind, TRUE)
isBegin(l)      == Head(l.text) = "<<<"
isBaseMarker(l) == Head(l.text) = "|||"
isSep(l)        == l.text = <<"===">>
isEnd(l)        == Head(l.text) = ">>>"

HasMarkers(f) == \E i \in DOMAIN f : isBegin(f[i])
Count(f) == Len(SelectSeq(f, isBegin))

\* Mutant: a section may start behind a line without a newline.
EnsureNLNever(f) == f

EnsureNL(f) == IF f = << >> THEN f ELSE Append(Front(f), [Last(f) EXCEPT !.nl = TRUE])

\* The first block at or after index i starts here; n when there is none.
NextStart(blocks, i, n) == IF i < Len(blocks) THEN blocks[i + 1].from ELSE n

----------------------------------------------------------------------------
(* ThreeWayMerge of pkg/diff                                               *)

\* applyBlocksInRegion: the blocks from index i that start before re, applied to the
\* region.  A block may reach past the region: slicing base[to:re] is then a panic.
ApplyInRegion(base, blocks, i, rs, re) ==
    LET here == SelectSeq(SubSeq(blocks, i + 1, Len(blocks)), LAMBDA b : b.from < re)
        done == FoldLeft(LAMBDA a, b : [pos |-> b.to, out |-> a.out \o Slice(base, a.pos, b.from) \o b.new],
                         [pos |-> rs, out |-> << >>], here)
    IN  [out |-> done.out \o Slice(base, done.pos, re), next |-> i + Len(here),
         changed |-> here # << >>, panics |-> done.pos > re]

\* Where the region that starts at pos ends: the two next blocks, as long as they overlap.
RegionEnd(ours, theirs, m, pos) ==
    LET Next(blocks, i) == IF i < Len(blocks) THEN {blocks[i + 1]} ELSE {}
        Reaches(bs, r, touch) == Max({r} \cup {b.to : b \in {c \in bs : c.from < r \/ (touch /\ c.from = r)}})
        o == Next(ours, m.oi)
        t == Next(theirs, m.ti)
        start == Reaches(t, Reaches(o, pos, TRUE), TRUE)
        Expand(r) == Reaches(t, Reaches(o, r, FALSE), FALSE)
    IN  Expand(Expand(start))

MergeStart == [out |-> << >>, pos |-> 0, oi |-> 0, ti |-> 0, conflict |-> FALSE, end |-> "none"]

\* What one region contributes.
RegionText(o, t) ==
    LET Settled(lines) == [lines |-> lines, conflict |-> FALSE]
    IN  CASE ~o.changed /\ ~t.changed -> Settled(<< >>)
          [] o.out = t.out            -> Settled(o.out)
          [] ~o.changed               -> Settled(t.out)
          [] ~t.changed               -> Settled(o.out)
          [] OTHER -> [lines |-> <<Marker("<<<")>> \o o.out \o <<Marker("===")>>
                                 \o t.out \o <<Marker(">>>")>>,
                       conflict |-> TRUE]

\* One turn of the loop of mergeChangeBlocks.
MergeTurn(base, ours, theirs, m) ==
    LET n == Len(base)
        Emit(pos, re, o, t, r) ==
            IF o.panics \/ t.panics THEN [m EXCEPT !.end = "panic"]
            ELSE [m EXCEPT !.out = @ \o Slice(base, m.pos, pos) \o r.lines, !.pos = re,
                           !.oi = o.next, !.ti = t.next, !.conflict = @ \/ r.conflict]
        Both(pos, re, o, t) == Emit(pos, re, o, t, RegionText(o, t))
        Region(pos, re) == Both(pos, re, ApplyInRegion(base, ours, m.oi, pos, re),
                                         ApplyInRegion(base, theirs, m.ti, pos, re))
        From(pos) == Region(pos, RegionEnd(ours, theirs, m, pos))
    IN  IF m.oi >= Len(ours) /\ m.ti >= Len(theirs)
        THEN [m EXCEPT !.out = @ \o Slice(base, m.pos, n), !.end = "done"]
        ELSE From(Min({NextStart(ours, m.oi, n), NextStart(theirs, m.ti, n)}))

\* No base line to anchor on: the whole file is one conflict.
wholeFileConflict(ours, theirs) ==
    <<Marker("<<<")>> \o EnsureNL(ours) \o <<Marker("===")>>
    \o EnsureNL(theirs) \o <<Marker(">>>")>>

EngineBlocks(base, other) == extractChangeBlocks(myersDiff(base, other))

\* The outcome of the whole call; a turn that changes nothing is repeated for ever.
RECURSIVE MergeLoop(_, _, _, _)
MergeLoop(base, ours, theirs, m) ==
    LET After(next) == IF next = m THEN [m EXCEPT !.end = "hang"] ELSE MergeLoop(base, ours, theirs, next)
    IN  IF m.end # "none" THEN m ELSE After(MergeTurn(base, ours, theirs, m))

ThreeWayMerge(base, ours, theirs) ==
    IF base = << >>
    THEN IF ours = theirs THEN [lines |-> ours, conflict |-> FALSE, end |-> "done"]
         ELSE [lines |-> wholeFileConflict(ours, theirs), conflict |-> TRUE, end |-> "done"]
    ELSE LET Result(m) == [lines |-> splitLines(m.out), conflict |-> m.conflict, end |-> m.end]
         IN  Result(MergeLoop(base, EngineBlocks(base, ours), EngineBlocks(base, theirs), MergeStart))

----------------------------------------------------------------------------
(* Render of internal/conflict                                             *)

\* The blocks of one side that belong to the region [rs, re), which they extend.
RECURSIVE Take(_, _, _, _)
Take(blocks, i, rs, re) ==
    IF i < Len(blocks) /\ (blocks[i + 1].from < re \/ blocks[i + 1].from = rs)
    THEN Take(blocks, i + 1, rs, Max({re, blocks[i + 1].to}))
    ELSE [i |-> i, re |-> re]

RECURSIVE Grow(_, _, _, _)
Grow(ours, theirs, rs, g) ==
    LET o == Take(ours, g.oi, rs, g.re)
        t == Take(theirs, g.ti, rs, o.re)
    IN  IF o.i = g.oi /\ t.i = g.ti THEN g
        ELSE Grow(ours, theirs, rs, [oi |-> o.i, ti |-> t.i, re |-> t.re])

flattenRegion(base, region, rs, re) ==
    LET done == FoldLeft(LAMBDA a, b : [pos |-> b.to, out |-> a.out \o Slice(base, a.pos, b.from) \o b.new],
                         [pos |-> rs, out |-> << >>], region)
    IN  done.out \o Slice(base, done.pos, re)

commonPrefixLen(a, b) ==
    Max({n \in 0..Min({Len(a), Len(b)}) : SubSeq(a, 1, n) = SubSeq(b, 1, n)})

commonSuffixLen(a, b) == commonPrefixLen(Reverse(a), Reverse(b))

\* The base lines that stand against the hoisted ones are not shown again.
trimBaseByHoist(base, pre, suf) ==
    LET i == commonPrefixLen(base, pre)
        rest == Slice(base, i, Len(base))
    IN  Slice(rest, 0, Len(rest) - commonSuffixLen(rest, suf))

\* Mutant: the suffix is looked for in the lines the prefix has taken too.
HoistOverlapping(ours, theirs) ==
    LET pre == commonPrefixLen(ours, theirs)
    IN  [pre |-> pre, suf |-> commonSuffixLen(ours, theirs)]

\* How many lines zdiff3 moves out of the markers.
Hoist(ours, theirs) ==
    LET pre == commonPrefixLen(ours, theirs)
    IN  [pre |-> pre, suf |-> commonSuffixLen(Slice(ours, pre, Len(ours)), Slice(theirs, pre, Len(theirs)))]

\* Every section starts on a line of its own.
emitConflict(out, ours, base, theirs, style) ==
    LET Section(f, s) == EnsureNL(Append(f, Marker(s[1])) \o s[2])
        Sections(f, o, b, t) ==
            Append(FoldLeft(Section, f, << <<"<<<", o>> >>
                                        \o (IF style = "merge" THEN << >> ELSE << <<"|||", b>> >>)
                                        \o << <<"===", t>> >>),
                   Marker(">>>"))
        Around(pre, suf, h) ==
            EnsureNL(Sections(EnsureNL(splitLines(out \o pre)), Slice(ours, h.pre, Len(ours) - h.suf),
                              trimBaseByHoist(base, pre, suf), Slice(theirs, h.pre, Len(theirs) - h.suf))
                     \o suf)
        Hoisted(h) == Around(Slice(ours, 0, h.pre), Slice(ours, Len(ours) - h.suf, Len(ours)), h)
    IN  IF style = "zdiff3" THEN Hoisted(Hoist(ours, theirs)) ELSE Sections(out, ours, base, theirs)

RenderStart == [out |-> << >>, pos |-> 0, oi |-> 0, ti |-> 0, total |-> 0, remaining |-> 0]

\* Mutant: a region both sides deleted from is taken for a change of ours alone.
RenderRegionDeletes(m, oc, o, b, tc, t, style) ==
    IF oc /\ (~tc \/ t = << >>) THEN [m EXCEPT !.out = @ \o o]
    ELSE IF tc /\ ~oc THEN [m EXCEPT !.out = @ \o t]
    ELSE IF o = t THEN [m EXCEPT !.out = @ \o o, !.total = @ + 1]
    ELSE [m EXCEPT !.out = emitConflict(@, o, b, t, style), !.total = @ + 1, !.remaining = @ + 1]

\* oc and tc: whether our and their side changed the region.
RenderRegion(m, oc, o, b, tc, t, style) ==
    IF oc /\ ~tc THEN [m EXCEPT !.out = @ \o o]
    ELSE IF tc /\ ~oc THEN [m EXCEPT !.out = @ \o t]
    ELSE IF o = t THEN [m EXCEPT !.out = @ \o o, !.total = @ + 1]
    ELSE [m EXCEPT !.out = emitConflict(@, o, b, t, style), !.total = @ + 1, !.remaining = @ + 1]

RECURSIVE RenderLoop(_, _, _, _, _)
RenderLoop(base, ours, theirs, m, style) ==
    LET n == Len(base)
        Region(rs, g) ==
            RenderRegion([m EXCEPT !.out = @ \o Slice(base, m.pos, rs), !.pos = g.re, !.oi = g.oi, !.ti = g.ti],
                         g.oi > m.oi, flattenRegion(base, SubSeq(ours, m.oi + 1, g.oi), rs, g.re),
                         Slice(base, rs, g.re),
                         g.ti > m.ti, flattenRegion(base, SubSeq(theirs, m.ti + 1, g.ti), rs, g.re), style)
        From(rs) == Region(rs, Grow(ours, theirs, rs, [oi |-> m.oi, ti |-> m.ti, re |-> rs]))
    IN  IF m.oi >= Len(ours) /\ m.ti >= Len(theirs)
        THEN [m EXCEPT !.out = @ \o Slice(base, m.pos, n)]
        ELSE RenderLoop(base, ours, theirs,
                        From(Min({NextStart(ours, m.oi, n), NextStart(theirs, m.ti, n)})), style)

Render(base, ours, theirs, style) ==
    IF base = << >>
    THEN IF ours = theirs THEN [lines |-> ours, total |-> 0, remaining |-> 0]
         ELSE [lines |-> emitConflict(<< >>, ours, << >>, theirs, style), total |-> 1, remaining |-> 1]
    ELSE LET Result(m) == [lines |-> splitLines(m.out), total |-> m.total, remaining |-> m.remaining]
         IN  Result(RenderLoop(base, changeBlocks(base, ours), changeBlocks(base, theirs), RenderStart, style))

----------------------------------------------------------------------------
(* Reading the markers back                                                *)

Hunk(ours, base, theirs, raw) ==
    [hunk |-> TRUE, ours |-> ours, base |-> base, theirs |-> theirs, raw |-> raw]
TextSegment(l) == [hunk |-> FALSE, raw |-> <<l>>]

\* Parse: plain lines and hunks with an optional base section; an error for anything
\* malformed.
Parse(f) ==
    LET Start == [segs |-> << >>, in |-> "text", h |-> Hunk(<< >>, << >>, << >>, << >>), err |-> FALSE]
        Open(a, l) == [a EXCEPT !.in = "ours", !.h = Hunk(<< >>, << >>, << >>, <<l>>)]
        Go(a, l, section) == [a EXCEPT !.in = section, !.h.raw = Append(@, l)]
        Keep(a, l) ==
            LET r == [a EXCEPT !.h.raw = Append(@, l)]
            IN  CASE a.in = "ours"   -> [r EXCEPT !.h.ours = Append(@, l)]
                  [] a.in = "base"   -> [r EXCEPT !.h.base = Append(@, l)]
                  [] a.in = "theirs" -> [r EXCEPT !.h.theirs = Append(@, l)]
        Turn(a, l) ==
            CASE a.err -> a
              [] ~a.err /\ a.in = "text" ->
                    IF isBegin(l) THEN Open(a, l) ELSE [a EXCEPT !.segs = Append(@, TextSegment(l))]
              [] OTHER ->
                    IF isBegin(l) \/ (isBaseMarker(l) /\ a.in = "base") \/ (isEnd(l) /\ a.in # "theirs")
                    THEN [a EXCEPT !.err = TRUE]
                    ELSE IF isBaseMarker(l) /\ a.in = "ours" THEN Go(a, l, "base")
                    ELSE IF isSep(l) /\ a.in # "theirs" THEN Go(a, l, "theirs")
                    ELSE IF isEnd(l)
                    THEN [a EXCEPT !.in = "text", !.segs = Append(@, [a.h EXCEPT !.raw = Append(@, l)])]
                    ELSE Keep(a, l)
        r == FoldLeft(Turn, Start, f)
    IN  [segs |-> r.segs, err |-> r.err \/ r.in # "text"]

IsHunk(s) == s.hunk
HunkCount(segs) == Len(SelectSeq(segs, IsHunk))

joinLines(a, b) == IF b = << >> THEN a ELSE EnsureNL(a) \o b

\* The lines one pick leaves of a hunk; a hunk that is skipped stays as it was.
PickLines(s, pick) ==
    CASE ~s.hunk -> s.raw
      [] s.hunk /\ pick = "ours"   -> s.ours
      [] s.hunk /\ pick = "theirs" -> s.theirs
      [] s.hunk /\ pick = "both"   -> joinLines(s.ours, s.theirs)
      [] s.hunk /\ pick = "bothTheirsFirst" -> joinLines(s.theirs, s.ours)
      [] OTHER -> s.raw

\* picks[k] settles the k-th hunk.
Assemble(segs, picks) ==
    LET Of(i) == LET k == HunkCount(SubSeq(segs, 1, i)) IN IF k \in DOMAIN picks THEN picks[k] ELSE "skip"
    IN  [lines |-> splitLines(FlattenSeq([i \in DOMAIN segs |-> PickLines(segs[i], Of(i))])),
         remaining |-> Cardinality({i \in DOMAIN segs : segs[i].hunk /\ Of(i) = "skip"})]

\* Mutant: union keeps their lines first.
resolveHunkSwapped(h, strat) ==
    CASE strat = "ours"   -> [lines |-> h.ours, ok |-> TRUE]
      [] strat = "theirs" -> [lines |-> h.theirs, ok |-> TRUE]
      [] strat = "union"  -> [lines |-> h.theirs \o h.ours, ok |-> TRUE]
      [] strat = "auto"   -> [lines |-> h.raw, ok |-> FALSE]

\* Auto settles what needs no guess.
resolveHunk(h, strat) ==
    CASE strat = "ours"   -> [lines |-> h.ours, ok |-> TRUE]
      [] strat = "theirs" -> [lines |-> h.theirs, ok |-> TRUE]
      [] strat = "union"  -> [lines |-> h.ours \o h.theirs, ok |-> TRUE]
      [] strat = "auto"   -> IF h.ours = h.theirs \/ h.ours = << >> THEN [lines |-> h.theirs, ok |-> TRUE]
                             ELSE IF h.theirs = << >> THEN [lines |-> h.ours, ok |-> TRUE]
                             ELSE [lines |-> h.raw, ok |-> FALSE]

\* Resolve knows only the two-way markers: a base section counts as our lines.
Resolve(f, strat) ==
    LET Start == [out |-> << >>, in |-> "text", h |-> Hunk(<< >>, << >>, << >>, << >>), left |-> 0, err |-> FALSE]
        Turn(a, l) ==
            LET r == [a EXCEPT !.h.raw = Append(@, l)]
                done == resolveHunk(r.h, strat)
            IN  CASE a.err -> a
                  [] ~a.err /\ a.in = "text" ->
                        IF isBegin(l) THEN [a EXCEPT !.in = "ours", !.h = Hunk(<< >>, << >>, << >>, <<l>>)]
                        ELSE [a EXCEPT !.out = Append(@, l)]
                  [] ~a.err /\ a.in = "ours" ->
                        IF isSep(l) THEN [r EXCEPT !.in = "theirs"]
                        ELSE IF isBegin(l) \/ isEnd(l) THEN [a EXCEPT !.err = TRUE]
                        ELSE [r EXCEPT !.h.ours = Append(@, l)]
                  [] ~a.err /\ a.in = "theirs" ->
                        IF isEnd(l) THEN [r EXCEPT !.in = "text", !.out = @ \o done.lines,
                                                   !.left = @ + (IF done.ok THEN 0 ELSE 1)]
                        ELSE IF isBegin(l) \/ isSep(l) THEN [a EXCEPT !.err = TRUE]
                        ELSE [r EXCEPT !.h.theirs = Append(@, l)]
        r == FoldLeft(Turn, Start, f)
    IN  [lines |-> splitLines(r.out), remaining |-> r.left, err |-> r.err \/ r.in # "text"]

\* resolveContent: what each strategy makes of a recorded content conflict.  All but auto
\* render the sides with the engine first, ours and theirs only to count the hunks: end is
\* how that call ends, and without a "done" nothing is written.  The structural driver a
\* path may have under auto is left out.
resolveContent(base, ours, theirs, strat, style) ==
    LET rendered == ThreeWayMerge(base, ours, theirs)
        end == IF strat = "auto" THEN "done" ELSE rendered.end
        Written(lines, remaining, err) == [lines |-> lines, remaining |-> remaining, err |-> err, end |-> end]
        FromRender(r) == Written(r.lines, r.remaining, FALSE)
        FromResolve(r) == Written(r.lines, r.remaining, r.err)
    IN
    CASE strat = "ours"   -> Written(ours, 0, FALSE)
      [] strat = "theirs" -> Written(theirs, 0, FALSE)
      [] strat = "auto"   -> FromRender(Render(base, ours, theirs, style))
      [] strat = "union"  -> FromResolve(Resolve(rendered.lines, "union"))
==============================================================================
