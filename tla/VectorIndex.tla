---------------------------- MODULE VectorIndex ----------------------------
(***************************************************************************)
(* The vector candidate index (experia/memory/vector_index.py) with the    *)
(* writes that maintain it (store.py), its first state (migrations.py) and *)
(* the searches that read it (retrieval.py).                               *)
(*                                                                         *)
(* BEGIN IMMEDIATE lets one transaction write at a time, whoever runs it.  *)
(* A step of a transaction is one SQL statement that writes; disk is what  *)
(* is committed and draft what the connection of the transaction sees.     *)
(***************************************************************************)
EXTENDS Naturals, FiniteSets

CONSTANTS
    MaxId,          \* memory ids are 1 .. MaxId, in the order of their text
    Rebuilds,       \* calls of rebuild()
    Searches,       \* semantic searches
    Shared,         \* searches run on the connection of the writes
    BatchSize,      \* batch_size
    Limit,          \* limit of a search
    Budget,         \* DEFAULT_INDEX_CANDIDATE_BUDGET
    MaxWrites,      \* bound: saves and prunes
    MaxFaults       \* bound: failed, cancelled or crashed calls

ASSUME VectorIndexSizes ==
    /\ MaxId \in Nat /\ BatchSize \in Nat \ {0} /\ Shared \in BOOLEAN
    /\ Limit \in Nat \ {0} /\ Budget \in Nat \ {0}
    /\ MaxWrites \in Nat /\ MaxFaults \in Nat

Ids == 1 .. MaxId
NoId == 0           \* last_memory_id IS NULL
NoBands == 0
Current == 1        \* CURRENT_VECTOR_INDEX_VERSION
Other == 2          \* the version of another release
Nobody == "nobody"

ASSUME RebuildNames == Nobody \notin Rebuilds

\* A memory without embedding; with one whose bands match the query; with one
\* that shares no band with it.
Kinds == {"absent", "plain", "near", "far"}
IsEmbedded(kind) == kind \in {"near", "far"}

VARIABLES
    disk,       \* the committed database
    draft,      \* the database as the open transaction sees it
    txn,        \* the open transaction
    rebuild,    \* every rebuild() call
    search,     \* every search
    writes,     \* saves and prunes so far
    faults      \* failures so far

vivars == <<disk, draft, txn, rebuild, search, writes, faults>>

Embedded(db) == {i \in Ids : IsEmbedded(db.mem[i])}
Ready(db) == db.version = Current /\ db.status = "ready"

NoTxn == [kind |-> "none", by |-> Nobody, pc |-> "none", todo |-> {},
          touched |-> {}, last |-> NoId]

\* Every search that runs has seen these memories change.
Unsteady(ids) ==
    search' = [s \in Searches |-> [search[s] EXCEPT !.steady = @ \ ids]]

----------------------------------------------------------------------------
\* Writes of the store.

\* save_memory: INSERT OR REPLACE, whose cascade deletes the old bands.
Save(i, kind) ==
    /\ txn.kind = "none" /\ writes < MaxWrites
    /\ draft' = [disk EXCEPT !.mem[i] = kind, !.bands[i] = NoBands]
    /\ txn' = [NoTxn EXCEPT !.kind = "save", !.pc = "maintain",
                            !.todo = {i}, !.touched = {i}]
    /\ writes' = writes + 1
    /\ Unsteady({i})
    /\ UNCHANGED <<disk, rebuild, faults>>

\* prune_expired.
Prune(S) ==
    /\ txn.kind = "none" /\ writes < MaxWrites
    /\ draft' = [disk EXCEPT
          !.mem = [i \in Ids |-> IF i \in S THEN "absent" ELSE @[i]],
          !.bands = [i \in Ids |-> IF i \in S THEN NoBands ELSE @[i]]]
    /\ txn' = [NoTxn EXCEPT !.kind = "prune", !.pc = "commit", !.touched = S]
    /\ writes' = writes + 1
    /\ Unsteady(S)
    /\ UNCHANGED <<disk, rebuild, faults>>

----------------------------------------------------------------------------
\* maintain_memory, for the memory of a save or those of a batch.

\* The memories are taken in the order of their ids.
IsNext(i) == i \in txn.todo /\ \A j \in txn.todo : i <= j

Maintaining == txn.pc = "maintain" /\ txn.todo # {}

Outdated == draft.version # Current

\* Mutant: the new version inherits the status of the old one.
OutdateStaysReady ==
    /\ Maintaining /\ Outdated
    /\ draft' = [draft EXCEPT !.version = Current, !.cursor = NoId]
    /\ UNCHANGED <<disk, txn, rebuild, search, writes, faults>>

\* An index of another version begins anew with this memory.
Outdate ==
    /\ Maintaining /\ Outdated
    /\ draft' = [draft EXCEPT !.version = Current, !.status = "rebuilding",
                              !.cursor = NoId]
    /\ UNCHANGED <<disk, txn, rebuild, search, writes, faults>>

DeleteBands(i) ==
    /\ txn.pc = "maintain" /\ IsNext(i) /\ ~ Outdated
    /\ draft' = [draft EXCEPT !.bands[i] = NoBands]
    /\ txn' = [txn EXCEPT !.pc = "insert"]
    /\ UNCHANGED <<disk, rebuild, search, writes, faults>>

InsertBands(i) ==
    /\ txn.pc = "insert" /\ IsNext(i)
    /\ draft' = IF i \in Embedded(draft)
                THEN [draft EXCEPT !.bands[i] = Current] ELSE draft
    /\ txn' = [txn EXCEPT !.pc = "maintain", !.todo = @ \ {i}]
    /\ UNCHANGED <<disk, rebuild, search, writes, faults>>

----------------------------------------------------------------------------
\* rebuild().

\* Mutant: a forced rebuild keeps the cursor of the last one.
AnewKeepsCursor(db) ==
    [db EXCEPT !.version = Current, !.status = "rebuilding"]

Anew(db) == [db EXCEPT !.version = Current, !.status = "rebuilding",
                       !.cursor = NoId]

\* The first transaction: delete all bands, find the index ready, or resume.
RebuildClears(r, force) ==
    /\ rebuild[r] = "idle" /\ txn.kind = "none"
    /\ force \/ disk.version # Current
    /\ draft' = [disk EXCEPT !.bands = [i \in Ids |-> NoBands]]
    /\ txn' = [NoTxn EXCEPT !.kind = "start", !.by = r, !.pc = "mark"]
    /\ rebuild' = [rebuild EXCEPT ![r] = "starting"]
    /\ UNCHANGED <<disk, search, writes, faults>>

RebuildMarks ==
    /\ txn.pc = "mark"
    /\ draft' = Anew(draft)
    /\ txn' = [txn EXCEPT !.pc = "commit"]
    /\ UNCHANGED <<disk, rebuild, search, writes, faults>>

RebuildResumes(r) ==
    /\ rebuild[r] = "idle" /\ txn.kind = "none"
    /\ disk.version = Current
    /\ rebuild' = [rebuild EXCEPT ![r] =
                      IF Ready(disk) THEN "complete" ELSE "looping"]
    /\ UNCHANGED <<disk, draft, txn, search, writes, faults>>

\* The first ids of S, at most n.
FirstOf(S, n) == {i \in S : Cardinality({j \in S : j < i}) < n}

Rest == {i \in Embedded(disk) : i > disk.cursor}

\* A batch behind the cursor or, when nothing is left there, the sweep.
Batch(r) ==
    /\ rebuild[r] = "looping" /\ txn.kind = "none"
    /\ draft' = disk
    /\ \/ /\ Rest = {}
          /\ txn' = [NoTxn EXCEPT !.kind = "batch", !.by = r, !.pc = "sweep"]
       \/ LET batch == FirstOf(Rest, BatchSize)
          IN  \E last \in batch :
                /\ \A i \in batch : i <= last
                /\ txn' = [NoTxn EXCEPT !.kind = "batch", !.by = r,
                                        !.pc = "maintain", !.todo = batch,
                                        !.last = last]
    /\ UNCHANGED <<disk, rebuild, search, writes, faults>>

\* Mutant: the cursor is left where it was.
CursorStays(db, last) == [db EXCEPT !.status = "rebuilding"]

CursorMoved(db, last) == [db EXCEPT !.status = "rebuilding", !.cursor = last]

MoveCursor ==
    /\ txn.kind = "batch" /\ txn.pc = "maintain" /\ txn.todo = {}
    /\ draft' = CursorMoved(draft, txn.last)
    /\ txn' = [txn EXCEPT !.pc = "commit"]
    /\ UNCHANGED <<disk, rebuild, search, writes, faults>>

Sweep ==
    /\ txn.pc = "sweep"
    /\ draft' = [draft EXCEPT !.bands =
          [i \in Ids |-> IF @[i] = Current /\ draft.mem[i] # "plain"
                         THEN Current ELSE NoBands]]
    /\ txn' = [txn EXCEPT !.pc = "finish"]
    /\ UNCHANGED <<disk, rebuild, search, writes, faults>>

NoneMissing(db) == \A i \in Embedded(db) : db.bands[i] = Current

Finish ==
    /\ txn.pc = "finish"
    /\ draft' = [draft EXCEPT
          !.status = IF NoneMissing(draft) THEN "ready" ELSE "rebuilding",
          !.cursor = NoId]
    /\ txn' = [txn EXCEPT !.pc = "commit"]
    /\ UNCHANGED <<disk, rebuild, search, writes, faults>>

----------------------------------------------------------------------------
\* The end of a transaction.

AtCommit ==
    \/ txn.pc = "commit"
    \/ txn.kind = "save" /\ txn.pc = "maintain" /\ txn.todo = {}

Commit ==
    /\ AtCommit
    /\ disk' = draft
    /\ rebuild' = [r \in Rebuilds |->
          IF r # txn.by THEN rebuild[r]
          ELSE IF txn.kind = "batch" /\ Ready(draft) THEN "complete"
          ELSE "looping"]
    /\ txn' = NoTxn
    /\ UNCHANGED <<draft, search, writes, faults>>

\* A statement fails, the task is cancelled or the process dies: rolled back.
Rollback ==
    /\ txn.kind # "none" /\ faults < MaxFaults
    /\ draft' = disk
    /\ txn' = NoTxn
    /\ rebuild' = [r \in Rebuilds |->
                      IF r = txn.by THEN "failed" ELSE rebuild[r]]
    /\ faults' = faults + 1
    /\ UNCHANGED <<disk, search, writes>>

\* rebuild() is interrupted between two transactions.
Interrupted(r) ==
    /\ rebuild[r] = "looping" /\ txn.by # r /\ faults < MaxFaults
    /\ rebuild' = [rebuild EXCEPT ![r] = "failed"]
    /\ faults' = faults + 1
    /\ UNCHANGED <<disk, draft, txn, search, writes>>

----------------------------------------------------------------------------
\* RetrievalEngine.search with a query embedding.

\* What a search reads: its own connection's transaction, or the last commit.
View == IF Shared /\ txn.kind # "none" THEN draft ELSE disk

Goes(s, pc) == search' = [search EXCEPT ![s].pc = pc]

\* candidate_ids: status().
SearchStarts(s) ==
    /\ search[s].pc = "idle"
    /\ search' = [search EXCEPT
          ![s].pc = IF Ready(View) THEN "querying" ELSE "streaming",
          ![s].steady = Ids \ txn.touched]
    /\ UNCHANGED <<disk, draft, txn, rebuild, writes, faults>>

\* A memory's rank: its likeness to the query, then its id.
Better(m, n) ==
    LET likeness(row) == CASE row.kind = "near" -> 2
                           [] row.kind = "far" -> 1
                           [] OTHER -> 0
    IN  \/ likeness(m) > likeness(n)
        \/ likeness(m) = likeness(n) /\ m.id < n.id

\* _BoundedMemoryRanker: the best of the rows it was given.
Ranked(rows) ==
    {m \in rows : Cardinality({n \in rows : Better(n, m)}) < Limit}

Rows(db, kinds) == {[id |-> i, kind |-> db.mem[i]] :
                       i \in {j \in Ids : db.mem[j] \in kinds}}

\* Mutant: the state read before is trusted.
StillReadyAlways(db) == TRUE

StillReady(db) == Ready(db)

\* The candidate query reads the state again, in the same statement.
SearchQueries(s) ==
    /\ search[s].pc = "querying"
    /\ \/ /\ ~ StillReady(View)
          /\ Goes(s, "streaming")
       \/ /\ StillReady(View)
          /\ search' = [search EXCEPT ![s].pc = "loading", ![s].ids =
                FirstOf({i \in Ids : /\ View.bands[i] = Current
                                     /\ View.mem[i] = "near"}, Budget)]
    /\ UNCHANGED <<disk, draft, txn, rebuild, writes, faults>>

\* The candidates' rows, as they are now.
SearchLoads(s) ==
    /\ search[s].pc = "loading"
    /\ search' = [search EXCEPT
          ![s].pc = "filling",
          ![s].rows = {row \in Rows(View, Kinds \ {"absent"}) :
                          row.id \in search[s].ids}]
    /\ UNCHANGED <<disk, draft, txn, rebuild, writes, faults>>

\* _add_unembedded_candidates, with what is left of the budget.
SearchFills(s) ==
    /\ search[s].pc = "filling"
    /\ LET left == Budget - Cardinality(search[s].ids)
           plain == FirstOf({i \in Ids : View.mem[i] = "plain"}, left)
       IN  search' = [search EXCEPT
              ![s].pc = "done",
              ![s].rows = Ranked(@ \cup {row \in Rows(View, {"plain"}) :
                                            row.id \in plain})]
    /\ UNCHANGED <<disk, draft, txn, rebuild, writes, faults>>

\* _stream_exact.
SearchStreams(s) ==
    /\ search[s].pc = "streaming"
    /\ search' = [search EXCEPT
          ![s].pc = "done",
          ![s].rows = Ranked(Rows(View, Kinds \ {"absent"}))]
    /\ UNCHANGED <<disk, draft, txn, rebuild, writes, faults>>

----------------------------------------------------------------------------
\* _add_vector_index_state: no bands yet, ready when there is nothing to index.
MigratedFile(mem) ==
    [mem |-> mem, bands |-> [i \in Ids |-> NoBands], version |-> Current,
     status |-> IF \E i \in Ids : IsEmbedded(mem[i])
                THEN "rebuilding" ELSE "ready",
     cursor |-> NoId]

\* A complete index left by another release.
OtherRelease(mem) ==
    [mem |-> mem, version |-> Other, status |-> "ready", cursor |-> NoId,
     bands |-> [i \in Ids |-> IF IsEmbedded(mem[i]) THEN Other ELSE NoBands]]

Init ==
    /\ \E mem \in [Ids -> Kinds] :
          disk \in {MigratedFile(mem), OtherRelease(mem)}
    /\ draft = disk
    /\ txn = NoTxn
    /\ rebuild = [r \in Rebuilds |-> "idle"]
    /\ search = [s \in Searches |-> [pc |-> "idle", ids |-> {}, rows |-> {},
                                     steady |-> {}]]
    /\ writes = 0
    /\ faults = 0

TxnStep == \/ Outdate
           \/ \E i \in Ids : DeleteBands(i) \/ InsertBands(i)
           \/ RebuildMarks \/ MoveCursor \/ Sweep \/ Finish \/ Commit

SearchStep(s) == \/ SearchStarts(s) \/ SearchQueries(s) \/ SearchLoads(s)
                 \/ SearchFills(s) \/ SearchStreams(s)

Next ==
    \/ \E i \in Ids, kind \in Kinds \ {"absent"} : Save(i, kind)
    \/ \E S \in SUBSET Ids : Prune(S)
    \/ TxnStep
    \/ Rollback
    \/ \E r \in Rebuilds :
          \/ \E force \in BOOLEAN : RebuildClears(r, force)
          \/ RebuildResumes(r) \/ Batch(r) \/ Interrupted(r)
    \/ \E s \in Searches : SearchStep(s)

Spec == Init /\ [][Next]_vivars

\* Statements are answered, and the write lock is handed on in order.
LiveSpec ==
    /\ Spec
    /\ WF_vivars(TxnStep)
    /\ \A r \in Rebuilds : SF_vivars(Batch(r))

----------------------------------------------------------------------------
\* A committed index that says ready has the current bands of every embedded
\* memory and of no other, after any mix of saves, prunes, failures and
\* concurrent, forced or resumed rebuilds (rebuild, maintain_memory).
ReadyIsComplete ==
    Ready(disk) => \A i \in Ids : disk.bands[i] =
                      IF i \in Embedded(disk) THEN Current ELSE NoBands

\* An interrupted rebuild may resume at the cursor: everything up to it is
\* indexed, whatever was saved or pruned since and whoever moved it.
CursorCovers ==
    disk.version = Current =>
        \A i \in Embedded(disk) : i <= disk.cursor => disk.bands[i] = Current

\* vector_index.py:105, retrieval.py:157: while the index is absent or rebuilding
\* a search falls back.  So a search finds every matching memory that nobody
\* changed meanwhile, unless others fill its candidate budget or its limit.
SearchFindsNear ==
    \A s \in Searches : search[s].pc = "done" =>
        \A i \in search[s].steady : disk.mem[i] = "near" =>
            LET row == [id |-> i, kind |-> "near"]
            IN  \/ row \in search[s].rows
                \/ i \notin search[s].ids /\ Cardinality(search[s].ids) = Budget
                \/ /\ Cardinality(search[s].rows) = Limit
                   /\ \A m \in search[s].rows : Better(m, row)

\* Every rebuild() comes to an end, also next to others and to saves.
RebuildsEnd ==
    \A r \in Rebuilds :
        (rebuild[r] \in {"starting", "looping"}) ~>
        (rebuild[r] \in {"complete", "failed"})
=============================================================================
