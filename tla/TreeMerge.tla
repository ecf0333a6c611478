------------------------------ MODULE TreeMerge ------------------------------
(***************************************************************************)
(* The structural merge of internal/smartmerge: documents decoded from     *)
(* JSON, YAML or TOML merged key by key, and the drivers that fall back to *)
(* the line merge.                                                         *)
(*                                                                         *)
(* A node is a record: an object has its members in kids, a scalar or an   *)
(* array (merged as a whole) its value in atom.  A conflict is a node of   *)
(* its own, with the three sides as kids.                                  *)
(***************************************************************************)
EXTENDS Naturals, Sequences
LOCAL INSTANCE FiniteSetsExt

Atom(v) == [kind |-> "atom", atom |-> v, kids |-> << >>]
Object(f) == [kind |-> "object", atom |-> "", kids |-> f]
Null == Atom("null")
Absent == Atom("absent")
ConflictMark(b, o, t) == [kind |-> "conflict", atom |-> "", kids |-> <<b, o, t>>]

Has(f, k) == k \in DOMAIN f
SideOrAbsent(f, k) == IF Has(f, k) THEN f[k] ELSE Absent

\* Mutant: a key one side deleted and the other changed is deleted.
KeyChoiceDeletes(b, o, t) ==
    IF o = t \/ b = t THEN "ours"
    ELSE IF b = o THEN "theirs"
    ELSE IF o # Absent /\ t # Absent THEN "recurse"
    ELSE IF o = Absent THEN "ours" ELSE "theirs"

\* What becomes of one key: the side that changed it, a merge of its values, or a conflict
\* when one side deleted what the other changed.
KeyChoice(b, o, t) ==
    IF o = t \/ b = t THEN "ours"
    ELSE IF b = o THEN "theirs"
    ELSE IF o # Absent /\ t # Absent THEN "recurse"
    ELSE "conflict"

RECURSIVE mergeTree(_, _, _)

\* A key that is in no side of the result is Absent.  A base that lacks the key is passed
\* on as null.
keyMerge(b, o, t) ==
    LET choice == KeyChoice(b, o, t)
    IN  CASE choice = "ours"     -> [value |-> o, conflicts |-> 0]
          [] choice = "theirs"   -> [value |-> t, conflicts |-> 0]
          [] choice = "recurse"  -> mergeTree(IF b = Absent THEN Null ELSE b, o, t)
          [] choice = "conflict" -> [value |-> ConflictMark(b, o, t), conflicts |-> 1]

objectMerge(b, o, t) ==
    LET keys == DOMAIN b \cup DOMAIN o \cup DOMAIN t
        at == [k \in keys |-> keyMerge(SideOrAbsent(b, k), SideOrAbsent(o, k), SideOrAbsent(t, k))]
    IN  [value |-> Object([k \in {j \in keys : at[j].value # Absent} |-> at[k].value]),
         conflicts |-> FoldSet(LAMBDA k, n : n + at[k].conflicts, 0, keys)]

\* A base that is not an object counts as an empty one.
mergeTree(b, o, t) ==
    IF o = t THEN [value |-> o, conflicts |-> 0]
    ELSE IF b = o THEN [value |-> t, conflicts |-> 0]
    ELSE IF b = t THEN [value |-> o, conflicts |-> 0]
    ELSE IF o.kind = "object" /\ t.kind = "object"
    THEN objectMerge(IF b.kind = "object" THEN b.kids ELSE << >>, o.kids, t.kids)
    ELSE [value |-> ConflictMark(b, o, t), conflicts |-> 1]

\* Whether a conflict is left anywhere in the tree: the spine the renderers walk.
RECURSIVE containsConflict(_)
containsConflict(v) ==
    v.kind = "conflict" \/ \E k \in DOMAIN v.kids : containsConflict(v.kids[k])
==============================================================================
