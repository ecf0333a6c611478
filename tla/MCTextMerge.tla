----------------------------- MODULE MCTextMerge -----------------------------
(***************************************************************************)
(* TLC instances of TextMerge.                                             *)
(***************************************************************************)
EXTENDS TextMerge

Text(s) == [i \in DOMAIN s |-> Line(s[i], TRUE)]

\* A shape beyond the bound of the runs: the second block of one side starts inside the
\* region and ends behind it, and the engine slices base[4:3].
ASSUME SecondBlockReachesOut ==
    ThreeWayMerge(Text(<<"a", "b", "c", "d">>), Text(<<"x", "b", "y">>), Text(<<"z", "d">>)).end = "panic"

\* One side appends a line, the other changes another line: the loop turns for ever.
ASSUME AppendedLineHangs ==
    ThreeWayMerge(Text(<<"a", "b", "c">>), Text(<<"a", "b", "c", "d">>), Text(<<"x", "b", "c">>)).end = "hang"

\* Both sides add a key, one of them as an explicit null: the null is dropped unreported.
ASSUME NullIsDropped ==
    LET with(v) == Object([k \in {"k"} |-> v])
    IN  mergeTree(Object(<< >>), with(Null), with(Atom("1"))) = [value |-> with(Atom("1")), conflicts |-> 0]
==============================================================================
