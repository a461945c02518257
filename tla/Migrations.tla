----------------------------- MODULE Migrations -----------------------------
(***************************************************************************)
(* SchemaMigrator (experia/memory/migrations.py): programs of several      *)
(* releases open one SQLite file and migrate it, each along its chain of   *)
(* steps in one immediate transaction.                                     *)
(*                                                                         *)
(* A program reads the version without a lock, then BEGIN IMMEDIATE makes  *)
(* it the file's only writer, and it reads the version again.  What it     *)
(* writes is a draft no other program sees until its COMMIT; an error, or  *)
(* the program's death, drops the draft.  The statements of one step have  *)
(* no effect on anybody but the draft, so a step is atomic here.           *)
(***************************************************************************)
EXTENDS Naturals

CONSTANTS
    Programs,       \* processes that open the file
    Target,         \* [Programs -> target_version]: the release of each
    Memories,       \* rows of the memories table
    Dimensions,     \* lengths of embeddings
    None, Malformed,\* NULL, and text that is no finite numeric vector
    StartFiles,     \* what the file may be at first
    MayFail,        \* whether a statement may fail
    MaxReopens      \* bound: openings again after a failure or a crash

CURRENT_SCHEMA_VERSION == 3
Versions == 1 .. CURRENT_SCHEMA_VERSION

\* MIGRATIONS: the name of the step that leads to each version.
StepName == [v \in Versions |->
    IF v = 1 THEN "normalize_source_schema"
    ELSE IF v = 2 THEN "add_vector_index_schema" ELSE "add_vector_index_state"]

\* The schema is the set of what exists: a column, an index or a table.  A
\* source table has all of its base columns, or only part of them.
SourceTables == {"experiences", "lessons", "memories"}
Base(t) == <<t, "base">>
Part(t) == <<t, "part">>
AddedColumns == {<<"experiences", "agent_role">>, <<"lessons", "agent_role">>,
                 <<"lessons", "root_cause">>, <<"memories", "agent_role">>,
                 <<"memories", "embedding">>, <<"memories", "counts">>}
BaseColumns == {Base(t) : t \in SourceTables}
SourceIndexes == <<"index", "source">>
Registry == <<"table", "schema_migrations">>
Dimension == <<"memories", "embedding_dimension">>
Bands == <<"table", "memory_vector_bands">>
IndexState == <<"table", "memory_vector_index_state">>
\* What each version requires; a legacy layout is taken for version 1 without
\* a look at its indexes.
Source == BaseColumns \cup AddedColumns \cup {SourceIndexes, Registry}
Required(v) == IF v = 0 THEN {}
               ELSE IF v = 1 THEN Source \ {SourceIndexes}
               ELSE IF v = 2 THEN Source \cup {Dimension, Bands}
               ELSE Source \cup {Dimension, Bands, IndexState}
Schemas == SUBSET (Required(CURRENT_SCHEMA_VERSION)
                       \cup {Part(t) : t \in SourceTables})

\* A file: PRAGMA user_version, the schema, the audit records, the embedding
\* of every memory and its recorded dimension, the state of the index.
Names == {StepName[v] : v \in Versions} \cup {"renamed"}
Embeddings == Dimensions \cup {None, Malformed}
Files == [version: Nat, schema: Schemas, ledger: [Versions -> Names \cup {None}],
          embedding: [Memories -> Embeddings],
          dimension: [Memories -> Dimensions \cup {None}],
          index: {"ready", "rebuilding", None}]

ASSUME MigrationConstants ==
    /\ Target \in [Programs -> 0 .. CURRENT_SCHEMA_VERSION]
    /\ None \notin Programs /\ None \notin Dimensions /\ Malformed \notin Dimensions
    /\ None # Malformed
    /\ None \notin {"ready", "rebuilding"} /\ None \notin Names
    /\ StartFiles \subseteq Files
    /\ MayFail \in BOOLEAN /\ MaxReopens \in Nat

\* A file that says it is of a version was made by that release or a later one.
ASSUME FilesFound ==
    \A f \in StartFiles :
        /\ f.version >= 1 => BaseColumns \subseteq f.schema
        /\ f.version >= 2 =>
               /\ Required(f.version) \subseteq f.schema
               /\ \A m \in Memories :
                      f.embedding[m] # None => f.dimension[m] = f.embedding[m]
        /\ f.version >= 3 => f.index # None

VARIABLES
    file,       \* the committed database
    draft,      \* the database as the open transaction sees it
    writer,     \* the program that holds SQLite's write lock
    pc,         \* where each program's migrate() is
    at,         \* the version it read, then the one its chain has reached
    reopens,    \* openings again so far
    origin      \* what the file was at first (history)

vars == <<file, draft, writer, pc, at, reopens, origin>>

Nobody == None

Init ==
    /\ file \in StartFiles
    /\ draft = file /\ origin = file
    /\ writer = Nobody
    /\ pc = [p \in Programs |-> "open"]
    /\ at = [p \in Programs |-> 0]
    /\ reopens = 0
-----------------------------------------------------------------------------
Goto(p, where) == pc' = [pc EXCEPT ![p] = where]

\* _reject_downgrade
Downgrade(p, version) == Target[p] < version

\* migrate() up to the transaction: the version is read without a lock.
ReadVersion(p) ==
    /\ pc[p] = "open"
    /\ Goto(p, IF Downgrade(p, file.version) THEN "failed"
               ELSE IF file.version = Target[p] THEN "opened" ELSE "begin")
    /\ at' = [at EXCEPT ![p] = IF Downgrade(p, file.version) THEN @ ELSE file.version]
    /\ UNCHANGED <<file, draft, writer, reopens, origin>>

\* BEGIN IMMEDIATE waits for the write lock.
Begin(p) ==
    /\ pc[p] = "begin" /\ writer = Nobody
    /\ writer' = p /\ draft' = file
    /\ Goto(p, "begun")
    /\ UNCHANGED <<file, at, reopens, origin>>

\* Mutant: the statements that change the schema commit by themselves.
RollBackNothing(p) ==
    /\ writer' = Nobody /\ file' = draft
    /\ Goto(p, "failed")
    /\ UNCHANGED <<draft, at, reopens, origin>>

\* Mutant: the transaction of a failed chain is left open.
RollBackForgotten(p) ==
    /\ Goto(p, "failed")
    /\ UNCHANGED <<file, draft, writer, at, reopens, origin>>

\* ROLLBACK: every error inside the transaction ends here.
RollBack(p) ==
    /\ writer' = Nobody /\ draft' = file
    /\ Goto(p, "failed")
    /\ UNCHANGED <<file, at, reopens, origin>>

\* A statement fails: BEGIN because the lock stays taken, any other one, or
\* COMMIT.
StatementFails(p) ==
    /\ MayFail
    /\ \/ /\ pc[p] = "begin" /\ Goto(p, "failed")
          /\ UNCHANGED <<file, draft, writer, at, reopens, origin>>
       \/ pc[p] \in {"begun", "chain"} /\ RollBack(p)

\* _detect_legacy_version: what a file of version 0 really is.
Exists(db, t) == \E c \in db.schema : c[1] = t
FoundTables(db) == {t \in SourceTables : Exists(db, t)}
Unsupported(db) == \E t \in FoundTables(db) : Base(t) \notin db.schema
LegacyVersion(db) ==
    IF FoundTables(db) = SourceTables /\ AddedColumns \subseteq db.schema
    THEN 1 ELSE 0

\* Mutant: a record is replaced whatever it says.
ConflictIgnored(db, v) == FALSE

\* _record_migration; an existing record must have the registry's name.
Conflict(db, v) == db.ledger[v] \notin {None, StepName[v]}
Recorded(db, v) == [db EXCEPT !.ledger[v] = StepName[v]]

\* Mutant: the version read before the transaction is trusted.
DetectTrusts(p) ==
    /\ pc[p] = "begun"
    /\ Goto(p, "chain")
    /\ UNCHANGED <<file, draft, writer, at, reopens, origin>>

\* The second read, and for an unversioned file the detection of its layout
\* with the audit records of the steps that layout stands for.
Detect(p) ==
    /\ pc[p] = "begun"
    /\ LET found == IF draft.version = 0 THEN LegacyVersion(draft) ELSE draft.version
           legacy == draft.version = 0 /\ found = 1
           refused == \/ Downgrade(p, draft.version) \/ Downgrade(p, found)
                      \/ draft.version = 0 /\ Unsupported(draft)
                      \/ legacy /\ Conflict(draft, 1)
       IN IF refused THEN RollBack(p)
          ELSE /\ at' = [at EXCEPT ![p] = found]
               /\ draft' = IF legacy
                           THEN Recorded([draft EXCEPT !.schema = @ \cup {Registry}], 1)
                           ELSE draft
               /\ Goto(p, "chain")
               /\ UNCHANGED <<file, writer, reopens, origin>>
-----------------------------------------------------------------------------
\* _normalize_source_schema: CREATE ... IF NOT EXISTS and missing columns.  A
\* table that exists keeps the base columns it has.
Normalized(db) ==
    [db EXCEPT !.schema = @ \cup AddedColumns \cup {SourceIndexes, Registry}
                            \cup {Base(t) : t \in SourceTables \ FoundTables(db)}]

\* _add_vector_index_schema: every stored embedding gets its dimension, or the
\* step raises.
Undecodable(db) == \E m \in Memories : db.embedding[m] = Malformed
Dimensioned(db) ==
    [Normalized(db) EXCEPT
        !.schema = @ \cup {Dimension, Bands},
        !.dimension = [m \in Memories |-> IF db.embedding[m] = None
                                          THEN @[m] ELSE db.embedding[m]]]

\* _add_vector_index_state: INSERT OR IGNORE of the state of an empty index.
HasEmbeddings(db) == \E m \in Memories : db.embedding[m] # None
Indexed(db) ==
    [db EXCEPT !.schema = @ \cup {IndexState},
               !.index = IF @ # None THEN @
                         ELSE IF HasEmbeddings(db) THEN "rebuilding" ELSE "ready"]

Migrated(db, v) == IF v = 1 THEN Normalized(db)
                   ELSE IF v = 2 THEN Dimensioned(db) ELSE Indexed(db)
StepRaises(db, v) == Conflict(db, v) \/ (v = 2 /\ Undecodable(db))

\* One step of _migration_chain and its audit record.
Step(p) ==
    /\ pc[p] = "chain" /\ at[p] < Target[p]
    /\ LET v == at[p] + 1 IN
       IF StepRaises(draft, v) THEN RollBack(p)
       ELSE /\ draft' = Recorded(Migrated(draft, v), v)
            /\ at' = [at EXCEPT ![p] = v]
            /\ UNCHANGED <<file, writer, pc, reopens, origin>>

\* PRAGMA user_version after the last step, and COMMIT.
Versioned(p) == [draft EXCEPT !.version = Target[p]]
Commit(p) ==
    /\ pc[p] = "chain" /\ at[p] = Target[p]
    /\ file' = Versioned(p) /\ draft' = Versioned(p)
    /\ writer' = Nobody
    /\ Goto(p, "opened")
    /\ UNCHANGED <<at, reopens, origin>>

\* The program dies; SQLite drops its transaction.
Crash(p) ==
    /\ MayFail
    /\ pc[p] \in {"open", "begin", "begun", "chain", "opened"}
    /\ Goto(p, "dead")
    /\ IF writer = p THEN writer' = Nobody /\ draft' = file
       ELSE UNCHANGED <<writer, draft>>
    /\ UNCHANGED <<file, at, reopens, origin>>

\* It is started again, or initialize() is called again.
Reopen(p) ==
    /\ pc[p] \in {"failed", "dead"} /\ reopens < MaxReopens
    /\ reopens' = reopens + 1
    /\ Goto(p, "open")
    /\ UNCHANGED <<file, draft, writer, at, origin>>

Migrate(p) == ReadVersion(p) \/ Begin(p) \/ Detect(p) \/ Step(p) \/ Commit(p)
Next == \E p \in Programs :
    Migrate(p) \/ StatementFails(p) \/ Crash(p) \/ Reopen(p)
Spec == Init /\ [][Next]_vars

\* aiosqlite executes what it was sent, and SQLite grants the lock to a
\* program that keeps asking for it (busy_timeout).
LiveSpec == Spec /\ \A p \in Programs : SF_vars(Migrate(p))
-----------------------------------------------------------------------------
\* The types of the state: what a file, a draft and a program may be.
TypeOK ==
    /\ file \in Files /\ draft \in Files /\ origin \in Files
    /\ writer \in Programs \cup {Nobody}
    /\ pc \in [Programs -> {"open", "begin", "begun", "chain", "opened",
                            "failed", "dead"}]
    /\ at \in [Programs -> 0 .. CURRENT_SCHEMA_VERSION]
    /\ reopens \in 0 .. MaxReopens

\* What a database at its version promises those who open it: the objects of
\* that version, a dimension on every embedded row, an index that says ready
\* only if there was nothing to index or it said so before.
Promised(db, v) ==
    /\ Required(v) \subseteq db.schema
    /\ v >= 2 => \A m \in Memories :
           db.embedding[m] # None => db.dimension[m] = db.embedding[m]
    /\ v >= 3 => /\ db.index # None
                 /\ db.index = "ready" => \/ origin.index = "ready"
                                          \/ ~HasEmbeddings(db)
\* The audit records of the steps that brought it there.
Audited(db, v) == \A w \in Versions :
    /\ db.ledger[w] \in {origin.ledger[w], StepName[w]}
    /\ origin.version < w /\ w <= v => db.ledger[w] = StepName[w]
    /\ w > v => db.ledger[w] = origin.ledger[w]

\* migrations.py: user_version "changes only after every migration step and
\* audit record in this chain has succeeded".  Whatever fails, dies or races,
\* the committed file is the one that was there, or one a whole chain made.
FileIsWhole == \/ file = origin
               \/ Promised(file, file.version) /\ Audited(file, file.version)

\* migrations.py: a migration is for schema only.  The embeddings of every
\* memory are those of the first file, and no audit record is rewritten.
SourceSurvives ==
    /\ file.embedding = origin.embedding
    /\ \A v \in Versions : origin.ledger[v] # None => file.ledger[v] = origin.ledger[v]
    /\ origin.schema \subseteq file.schema

\* migrate() "without implicit downgrades": no program, however old and
\* however stale the version it read, moves the file back.
NeverDowngraded == [][file'.version >= file.version]_vars

\* Every call of migrate() returns or raises.
OpeningsEnd == \A p \in Programs :
    pc[p] = "open" ~> pc[p] \in {"opened", "failed", "dead"}
=============================================================================
