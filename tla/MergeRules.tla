------------------------------ MODULE MergeRules ------------------------------
(***************************************************************************)
(* The patterns of the rules that say which strategy a merge applies to a  *)
(* conflicted path on its own (internal/commands/mergepolicy.go).  A path  *)
(* and a pattern with a slash are sequences of segments.                   *)
(***************************************************************************)
EXTENDS Naturals, Sequences

\* path.Match of one segment, for the literal names and the star the rules are made of.
Glob(p, s) == p = "*" \/ p = s

\* Mutant: a double star stands for at least one folder.
SpansOfSome(seg) == 1..Len(seg)

\* How many folders a double star that is not the last segment may stand for.
Spans(seg) == 0..Len(seg)

RECURSIVE matchSegments(_, _)
matchSegments(pat, seg) ==
    IF pat = << >> THEN seg = << >>
    ELSE IF Head(pat) = "**"
    THEN IF Len(pat) = 1 THEN seg # << >> ELSE \E i \in Spans(seg) : matchSegments(Tail(pat), SubSeq(seg, i + 1, Len(seg)))
    ELSE seg # << >> /\ Glob(Head(pat), Head(seg)) /\ matchSegments(Tail(pat), Tail(seg))
==============================================================================
