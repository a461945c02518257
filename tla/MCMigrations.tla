---------------------------- MODULE MCMigrations ----------------------------
(* Two current programs and one of an earlier release open every file one   *)
(* of them may find.                                                         *)
EXTENDS Migrations

Targets == [p \in Programs |-> IF p = "old" THEN 2 ELSE 3]

NoRecords == [v \in Versions |-> None]
Records(n) == [v \in Versions |-> IF v <= n THEN StepName[v] ELSE None]
Blank == [m \in Memories |-> None]
AFile(v, s, l, e, d, i) ==
    [version |-> v, schema |-> s, ledger |-> l, embedding |-> e,
     dimension |-> d, index |-> i]

\* Embedded rows: none, some, all of different lengths; one that is malformed.
Embedded == {Blank, [m \in Memories |-> IF m = "m1" THEN 1 ELSE None],
             [m \in Memories |-> IF m = "m1" THEN 1 ELSE 2]}
Stored == Embedded \cup {[m \in Memories |-> IF m = "m1" THEN Malformed ELSE 2]}

\* Fresh, legacy layouts (one table, all, one of them in part, the layout of
\* version 1), with and without audit records.
Unversioned ==
    {AFile(0, s, NoRecords, Blank, Blank, None) :
        s \in {{}, {Base("memories")}, BaseColumns,
               (BaseColumns \ {Base("lessons")}) \cup {Part("lessons")}}}
    \cup {AFile(0, BaseColumns \cup AddedColumns, l, e, Blank, None) :
        l \in {NoRecords, [NoRecords EXCEPT ![1] = "renamed"]}, e \in Stored}
\* Versions 1 to 3, and version 1 from before the audit records.
Versioned123 ==
    {AFile(1, Source, l, e, Blank, None) :
        l \in {Records(1), [Records(1) EXCEPT ![2] = "renamed"]}, e \in Stored}
    \cup {AFile(1, BaseColumns \cup AddedColumns, NoRecords, e, Blank, None) :
        e \in Stored}
    \cup {AFile(2, Required(2), Records(2), e, e, None) : e \in Embedded}
    \cup {AFile(3, Required(3), Records(3), e, e, i) :
        e \in Embedded, i \in {"ready", "rebuilding"}}
Newer == {AFile(4, Required(3), Records(3), Blank, Blank, "ready")}
FoundFiles == Unversioned \cup Versioned123 \cup Newer
=============================================================================
