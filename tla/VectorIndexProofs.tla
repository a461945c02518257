------------------------- MODULE VectorIndexProofs -------------------------
(***************************************************************************)
(* Proofs about VectorIndex for every number of memories, rebuilds and     *)
(* writes and every size of a batch.                                       *)
(*                                                                         *)
(* What holds of a committed database holds of a draft except for the      *)
(* memories the transaction has still to maintain; the transaction hands   *)
(* it back to the disk when none is left.                                  *)
(***************************************************************************)
EXTENDS VectorIndex, FiniteSetTheorems, WellFoundedInduction, TLAPS

USE DEF NoId, NoBands, Current, Other

Database ==
    [mem     : [Ids -> Kinds],
     bands   : [Ids -> {NoBands, Current, Other}],
     version : {Current, Other},
     status  : {"ready", "rebuilding"},
     cursor  : Nat]

Transaction ==
    [kind    : {"none", "save", "prune", "start", "batch"},
     by      : Rebuilds \cup {Nobody},
     pc      : {"none", "maintain", "insert", "mark", "sweep", "finish",
                "commit"},
     todo    : SUBSET Ids,
     touched : SUBSET Ids,
     last    : Nat]

RebuildStates == {"idle", "starting", "looping", "complete", "failed"}

TypeInv ==
    /\ disk \in Database /\ draft \in Database
    /\ txn \in Transaction
    /\ rebuild \in [Rebuilds -> RebuildStates]

\* Bands belong to embedded memories.
Derived(db) == \A i \in Ids : db.bands[i] # NoBands => i \in Embedded(db)

\* Except for the memories in S, the cursor and the status tell the truth.
Covered(db, S) ==
    /\ db.version = Current =>
         \A i \in Embedded(db) \ S : i <= db.cursor => db.bands[i] = Current
    /\ Ready(db) => \A i \in Embedded(db) \ S : db.bands[i] = Current

\* A rebuild loops only over an index of its own version.
DiskInv ==
    /\ Derived(disk) /\ Covered(disk, {})
    /\ (\E r \in Rebuilds : rebuild[r] = "looping") => disk.version = Current

\* Which step a transaction of which kind may be at.
StepInv ==
    /\ txn.kind = "none" <=> txn.pc = "none"
    /\ txn.kind = "save" => txn.pc \in {"maintain", "insert"}
    /\ txn.kind = "prune" => txn.pc = "commit"
    /\ txn.kind = "start" => txn.pc \in {"mark", "commit"}
    /\ txn.kind = "batch" => txn.pc # "mark"
    /\ txn.kind \in {"save", "prune"} => txn.by = Nobody

\* The batch below its last memory is done, but for what is left of it.
BatchInv ==
    (txn.kind = "batch" /\ txn.pc \in {"maintain", "insert"}) =>
        \A i \in Embedded(draft) \ txn.todo :
            i <= txn.last => draft.bands[i] = Current

DraftInv ==
    /\ StepInv
    /\ txn.pc \notin {"maintain", "insert"} => txn.todo = {}
    /\ txn.kind # "none" =>
         /\ Derived(draft)
         /\ txn.pc # "mark" => Covered(draft, txn.todo)
         /\ disk.version = Current => draft.version = Current
    /\ (txn.kind = "batch" \/ (txn.kind = "start" /\ txn.pc = "commit"))
         => draft.version = Current
    /\ BatchInv

IInv == TypeInv /\ DiskInv /\ DraftInv

----------------------------------------------------------------------------
LEMMA Sizes == MaxId \in Nat /\ BatchSize \in Nat
    BY VectorIndexSizes DEF VectorIndexSizes

LEMMA NobodyRebuilds == Nobody \notin Rebuilds
    BY RebuildNames DEF RebuildNames

\* What comes before one of the first n members of S is one of them.
LEMMA FirstOfDownward ==
    ASSUME NEW S \in SUBSET Ids, NEW n \in Nat,
           NEW i \in S, NEW k \in FirstOf(S, n), i <= k
    PROVE  i \in FirstOf(S, n)
  <1> DEFINE Below(m) == {j \in S : j < m}
  <1>1. IsFiniteSet(Ids)
    BY FS_Interval, Sizes DEF Ids
  <1>2. Below(i) \in SUBSET Below(k) /\ Below(k) \in SUBSET Ids
    <2>1. i \in Nat /\ k \in Nat /\ \A j \in S : j \in Nat
      BY Sizes DEF FirstOf, Ids
    <2>2. \A j \in Below(i) : j \in Below(k)
      BY <2>1
    <2>3. Below(k) \in SUBSET S
      OBVIOUS
    <2> QED
      BY <2>2, <2>3
  <1>3. IsFiniteSet(Below(k)) /\ IsFiniteSet(Below(i))
    BY <1>1, <1>2, FS_Subset
  <1>4. Cardinality(Below(i)) <= Cardinality(Below(k))
    BY <1>2, <1>3, FS_Subset
  <1>5. Cardinality(Below(i)) \in Nat /\ Cardinality(Below(k)) \in Nat
    BY <1>3, FS_CardinalityType
  <1>6. Cardinality(Below(k)) < n
    BY DEF FirstOf
  <1> HIDE DEF Below
  <1>7. Cardinality(Below(i)) < n
    BY <1>4, <1>5, <1>6
  <1> QED
    BY <1>7 DEF FirstOf, Below

LEMMA InitEstablishes == Init => IInv
  <1> SUFFICES ASSUME Init PROVE IInv
    OBVIOUS
  <1>1. PICK mem \in [Ids -> Kinds] :
           disk = MigratedFile(mem) \/ disk = OtherRelease(mem)
    BY DEF Init
  <1>2. TypeInv
    BY <1>1, Sizes
       DEF Init, TypeInv, Database, Transaction, NoTxn, MigratedFile,
           OtherRelease, RebuildStates
  <1>3. DiskInv
    BY <1>1, Sizes
       DEF Init, DiskInv, Derived, Covered, Ready, Embedded,
                MigratedFile, OtherRelease, Ids
  <1>4. DraftInv
    BY DEF Init, DraftInv, NoTxn, StepInv, BatchInv
  <1> QED
    BY <1>2, <1>3, <1>4 DEF IInv

----------------------------------------------------------------------------
\* Writes of the store.

LEMMA SavePreserves ==
    ASSUME IInv, NEW i \in Ids, NEW kind \in Kinds, Save(i, kind)
    PROVE  IInv'
  <1>1. TypeInv'
    <2>1. draft' \in Database
      BY DEF Save, IInv, TypeInv, Database
    <2>2. txn' \in Transaction
      BY DEF Save, NoTxn, Transaction
    <2> QED
      BY <2>1, <2>2 DEF Save, IInv, TypeInv
  <1>2. DiskInv'
    BY DEF Save, IInv, DiskInv, Derived, Covered, Ready, Embedded
  <1>3. Derived(draft)' /\ Covered(draft, {i})'
    BY DEF Save, IInv, TypeInv, Database, DiskInv, Derived, Covered, Ready,
           Embedded
  <1>4. DraftInv'
    BY <1>3 DEF Save, IInv, TypeInv, Database, DraftInv, NoTxn, StepInv,
                BatchInv
  <1> QED
    BY <1>1, <1>2, <1>4 DEF IInv

LEMMA PrunePreserves ==
    ASSUME IInv, NEW S \in SUBSET Ids, Prune(S)
    PROVE  IInv'
  <1>1. TypeInv'
    <2>1. draft' \in Database
      BY DEF Prune, IInv, TypeInv, Database, Kinds
    <2>2. txn' \in Transaction
      BY DEF Prune, NoTxn, Transaction
    <2> QED
      BY <2>1, <2>2 DEF Prune, IInv, TypeInv
  <1>2. DiskInv'
    BY DEF Prune, IInv, DiskInv, Derived, Covered, Ready, Embedded
  <1>3. Derived(draft)' /\ Covered(draft, {})'
    BY DEF Prune, IInv, TypeInv, Database, DiskInv, Derived, Covered, Ready,
           Embedded, IsEmbedded
  <1>4. DraftInv'
    BY <1>3 DEF Prune, IInv, TypeInv, Database, DraftInv, NoTxn, StepInv,
                BatchInv
  <1> QED
    BY <1>1, <1>2, <1>4 DEF IInv

----------------------------------------------------------------------------
\* Statements that maintain a memory.

LEMMA OutdatePreserves ==
    ASSUME IInv, Outdate
    PROVE  IInv'
  <1>1. TypeInv'
    <2>1. draft' \in Database
      BY DEF Outdate, IInv, TypeInv, Database
    <2> QED
      BY <2>1 DEF Outdate, IInv, TypeInv
  <1>2. DiskInv'
    BY DEF Outdate, IInv, DiskInv, Derived, Covered, Ready, Embedded
  <1>3. txn.kind = "save" /\ draft.version # Current
    BY DEF Outdate, Outdated, Maintaining, IInv, DraftInv, StepInv,
           TypeInv, Transaction
  <1>4. Derived(draft)' /\ Covered(draft, txn.todo)'
    BY <1>3 DEF Outdate, IInv, TypeInv, Database, DraftInv, Derived, Covered,
                Ready, Embedded, Ids
  <1>5. DraftInv'
    BY <1>3, <1>4 DEF Outdate, Maintaining, IInv, TypeInv, Database, DraftInv,
                      StepInv, BatchInv
  <1> QED
    BY <1>1, <1>2, <1>5 DEF IInv

LEMMA DeletePreserves ==
    ASSUME IInv, NEW i \in Ids, DeleteBands(i)
    PROVE  IInv'
  <1>1. TypeInv'
    BY DEF DeleteBands, IInv, TypeInv, Database, Transaction
  <1>2. DiskInv'
    BY DEF DeleteBands, IInv, DiskInv, Derived, Covered, Ready, Embedded
  <1>3. txn.kind \in {"save", "batch"} /\ i \in txn.todo
    BY DEF DeleteBands, IsNext, IInv, DraftInv, StepInv, TypeInv, Transaction
  <1>4. /\ draft \in Database /\ txn \in Transaction
        /\ draft' = [draft EXCEPT !.bands[i] = NoBands]
        /\ txn' = [txn EXCEPT !.pc = "insert"]
        /\ disk' = disk /\ txn.pc = "maintain"
    BY DEF DeleteBands, IInv, TypeInv
  <1>5. /\ txn'.todo = txn.todo /\ txn'.kind = txn.kind
        /\ txn'.pc = "insert" /\ txn'.last = txn.last
    BY <1>4 DEF Transaction
  <1>6. /\ draft'.mem = draft.mem /\ draft'.version = draft.version
        /\ draft'.status = draft.status /\ draft'.cursor = draft.cursor
        /\ draft'.bands = [draft.bands EXCEPT ![i] = NoBands]
    BY <1>4 DEF Database
  <1>7. Derived(draft)' /\ Covered(draft, txn.todo)' /\ BatchInv'
    BY <1>3, <1>4, <1>5, <1>6
       DEF IInv, DraftInv, Derived, Covered, Ready, Embedded, BatchInv,
           Database
  <1>8. DraftInv'
    BY <1>3, <1>4, <1>5, <1>6, <1>7 DEF IInv, DraftInv, StepInv
  <1> QED
    BY <1>1, <1>2, <1>8 DEF IInv

LEMMA InsertPreserves ==
    ASSUME IInv, NEW i \in Ids, InsertBands(i)
    PROVE  IInv'
  <1>1. TypeInv'
    BY DEF InsertBands, IInv, TypeInv, Database, Transaction
  <1>2. DiskInv'
    BY DEF InsertBands, IInv, DiskInv, Derived, Covered, Ready, Embedded
  <1>3. txn.kind \in {"save", "batch"}
    BY DEF InsertBands, IInv, DraftInv, StepInv, TypeInv, Transaction
  <1>4. /\ draft \in Database /\ txn \in Transaction
        /\ draft' = IF i \in Embedded(draft)
                    THEN [draft EXCEPT !.bands[i] = Current] ELSE draft
        /\ txn' = [txn EXCEPT !.pc = "maintain", !.todo = @ \ {i}]
        /\ disk' = disk /\ txn.pc = "insert"
    BY DEF InsertBands, IInv, TypeInv
  <1>5. /\ txn'.todo = txn.todo \ {i} /\ txn'.kind = txn.kind
        /\ txn'.pc = "maintain" /\ txn'.last = txn.last
    BY <1>4 DEF Transaction
  <1>6. /\ draft'.mem = draft.mem /\ draft'.version = draft.version
        /\ draft'.status = draft.status /\ draft'.cursor = draft.cursor
        /\ \A k \in Ids : k # i => draft'.bands[k] = draft.bands[k]
        /\ i \in Embedded(draft) => draft'.bands[i] = Current
        /\ i \notin Embedded(draft) => draft'.bands[i] = draft.bands[i]
    BY <1>4 DEF Database
  <1>7. Derived(draft)' /\ Covered(draft, txn.todo)' /\ BatchInv'
    BY <1>3, <1>4, <1>5, <1>6
       DEF IInv, DraftInv, Derived, Covered, Ready, Embedded, BatchInv
  <1>8. DraftInv'
    BY <1>3, <1>4, <1>5, <1>6, <1>7 DEF IInv, DraftInv, StepInv
  <1> QED
    BY <1>1, <1>2, <1>8 DEF IInv

----------------------------------------------------------------------------
\* rebuild().

LEMMA ClearsPreserves ==
    ASSUME IInv, NEW r \in Rebuilds, NEW force \in BOOLEAN,
           RebuildClears(r, force)
    PROVE  IInv'
  <1>1. TypeInv'
    <2>1. draft' \in Database
      BY DEF RebuildClears, IInv, TypeInv, Database
    <2>2. txn' \in Transaction
      BY DEF RebuildClears, NoTxn, Transaction
    <2>3. rebuild' \in [Rebuilds -> RebuildStates]
      BY DEF RebuildClears, IInv, TypeInv, RebuildStates
    <2> QED
      BY <2>1, <2>2, <2>3 DEF RebuildClears, IInv, TypeInv
  <1>2. DiskInv'
    BY DEF RebuildClears, IInv, TypeInv, DiskInv, Derived, Covered, Ready,
           Embedded
  <1>3. DraftInv'
    BY DEF RebuildClears, IInv, TypeInv, Database, DraftInv, Derived, NoTxn,
           StepInv, BatchInv
  <1> QED
    BY <1>1, <1>2, <1>3 DEF IInv

LEMMA MarksPreserves ==
    ASSUME IInv, RebuildMarks
    PROVE  IInv'
  <1>1. TypeInv'
    <2>1. draft' \in Database
      BY DEF RebuildMarks, Anew, IInv, TypeInv, Database
    <2>2. txn' \in Transaction
      BY DEF RebuildMarks, IInv, TypeInv, Transaction
    <2> QED
      BY <2>1, <2>2 DEF RebuildMarks, IInv, TypeInv
  <1>2. DiskInv'
    BY DEF RebuildMarks, IInv, DiskInv, Derived, Covered, Ready, Embedded
  <1>3. txn.kind = "start" /\ txn.todo = {}
    BY DEF RebuildMarks, IInv, DraftInv, StepInv, TypeInv, Transaction
  <1>4. Derived(draft)' /\ Covered(draft, {})'
    BY <1>3, Sizes
       DEF RebuildMarks, Anew, IInv, TypeInv, Database, DraftInv, Derived,
           Covered, Ready, Embedded, Ids
  <1>5. DraftInv'
    BY <1>3, <1>4 DEF RebuildMarks, Anew, IInv, TypeInv, Database,
                      Transaction, DraftInv, StepInv, BatchInv
  <1> QED
    BY <1>1, <1>2, <1>5 DEF IInv

\* A rebuild begins to loop, or ends, without a transaction of its own.
LEMMA ResumesPreserves ==
    ASSUME IInv, NEW r \in Rebuilds, RebuildResumes(r) \/ Interrupted(r)
    PROVE  IInv'
  <1>1. TypeInv'
    BY DEF RebuildResumes, Interrupted, IInv, TypeInv, RebuildStates
  <1>2. DiskInv'
    BY DEF RebuildResumes, Interrupted, IInv, TypeInv, DiskInv, Derived,
           Covered, Ready, Embedded
  <1>3. DraftInv'
    BY DEF RebuildResumes, Interrupted, IInv, DraftInv, Derived, Covered,
           Ready, Embedded, StepInv, BatchInv
  <1> QED
    BY <1>1, <1>2, <1>3 DEF IInv

LEMMA BatchPreserves ==
    ASSUME IInv, NEW r \in Rebuilds, Batch(r)
    PROVE  IInv'
  <1> DEFINE batch == FirstOf(Rest, BatchSize)
  <1>1. /\ disk' = disk /\ draft' = disk /\ rebuild' = rebuild
        /\ disk \in Database /\ disk.version = Current
        /\ Derived(disk) /\ Covered(disk, {})
    BY DEF Batch, IInv, TypeInv, DiskInv
  <1>2. DiskInv'
    BY <1>1 DEF IInv, DiskInv, Derived, Covered, Ready, Embedded
  <1>3. Rest \in SUBSET Ids /\ batch \in SUBSET Rest
    BY DEF Rest, Embedded, FirstOf
  <1>4. CASE /\ Rest = {}
             /\ txn' = [NoTxn EXCEPT !.kind = "batch", !.by = r,
                                     !.pc = "sweep"]
    <2>1. txn' \in Transaction
      BY <1>4 DEF NoTxn, Transaction
    <2>2. TypeInv'
      BY <1>1, <2>1 DEF IInv, TypeInv
    <2>3. DraftInv'
      BY <1>1, <1>4 DEF NoTxn, DraftInv, Derived, Covered, Ready, Embedded,
                        StepInv, BatchInv
    <2> QED
      BY <1>2, <2>2, <2>3 DEF IInv
  <1>5. CASE \E last \in batch :
               /\ \A i \in batch : i <= last
               /\ txn' = [NoTxn EXCEPT !.kind = "batch", !.by = r,
                                       !.pc = "maintain", !.todo = batch,
                                       !.last = last]
    <2>1. PICK last \in batch :
               /\ \A i \in batch : i <= last
               /\ txn' = [NoTxn EXCEPT !.kind = "batch", !.by = r,
                                       !.pc = "maintain", !.todo = batch,
                                       !.last = last]
      BY <1>5
    <2>2. last \in Nat /\ batch \in SUBSET Ids
      <3>1. last \in Ids /\ batch \in SUBSET Ids
        BY <1>3
      <3> QED
        BY <3>1, Sizes DEF Ids
    <2> HIDE DEF batch
    <2>3. /\ txn'.kind = "batch" /\ txn'.pc = "maintain"
          /\ txn'.todo = batch /\ txn'.last = last
      BY <2>1 DEF NoTxn
    <2>4. txn' \in Transaction
      BY <2>1, <2>2 DEF NoTxn, Transaction
    <2>5. TypeInv'
      BY <1>1, <2>4 DEF IInv, TypeInv
    <2>6. ASSUME NEW i \in Embedded(disk), i \notin batch, i <= last
          PROVE  disk.bands[i] = Current
      <3>1. i \notin Rest
        <4>1. SUFFICES ASSUME i \in Rest PROVE FALSE
          OBVIOUS
        <4>2. last \in FirstOf(Rest, BatchSize) /\ BatchSize \in Nat
          BY Sizes DEF batch
        <4>3. i \in FirstOf(Rest, BatchSize)
          BY <1>3, <2>6, <4>1, <4>2, FirstOfDownward
        <4> QED
          BY <2>6, <4>3 DEF batch
      <3>2. i <= disk.cursor
        BY <3>1, <2>6, <1>1, Sizes
           DEF Rest, Embedded, Ids, Database
      <3> QED
        BY <1>1, <2>6, <3>2 DEF Covered
    <2>7. DraftInv'
      BY <1>1, <2>3, <2>6 DEF DraftInv, Derived, Covered, Ready, Embedded,
                              StepInv, BatchInv
    <2> QED
      BY <1>2, <2>5, <2>7 DEF IInv
  <1> QED
    BY <1>4, <1>5 DEF Batch

LEMMA MovePreserves ==
    ASSUME IInv, MoveCursor
    PROVE  IInv'
  <1>1. /\ draft \in Database /\ txn \in Transaction
        /\ txn.kind = "batch" /\ txn.pc = "maintain" /\ txn.todo = {}
        /\ disk' = disk /\ rebuild' = rebuild
        /\ draft' = CursorMoved(draft, txn.last)
        /\ txn' = [txn EXCEPT !.pc = "commit"]
    BY DEF MoveCursor, IInv, TypeInv
  <1>2. /\ draft' \in Database /\ txn' \in Transaction
        /\ draft'.mem = draft.mem /\ draft'.bands = draft.bands
        /\ draft'.version = draft.version /\ draft'.cursor = txn.last
        /\ draft'.status = "rebuilding"
        /\ txn'.kind = "batch" /\ txn'.pc = "commit" /\ txn'.todo = {}
    BY <1>1 DEF CursorMoved, Database, Transaction
  <1>3. TypeInv' /\ DiskInv'
    BY <1>1, <1>2 DEF IInv, TypeInv, DiskInv, Derived, Covered, Ready,
                      Embedded
  <1>4. Derived(draft)' /\ Covered(draft, {})'
    BY <1>1, <1>2 DEF IInv, DraftInv, BatchInv, Derived, Covered, Ready,
                      Embedded
  <1>5. DraftInv'
    BY <1>1, <1>2, <1>4 DEF IInv, DraftInv, StepInv, BatchInv
  <1> QED
    BY <1>3, <1>5 DEF IInv

LEMMA SweepPreserves ==
    ASSUME IInv, Sweep
    PROVE  IInv'
  <1>1. /\ draft \in Database /\ txn \in Transaction
        /\ txn.kind = "batch" /\ txn.pc = "sweep" /\ txn.todo = {}
        /\ disk' = disk /\ rebuild' = rebuild
        /\ draft' = [draft EXCEPT !.bands =
             [i \in Ids |-> IF @[i] = Current /\ draft.mem[i] # "plain"
                            THEN Current ELSE NoBands]]
        /\ txn' = [txn EXCEPT !.pc = "finish"]
    BY DEF Sweep, IInv, TypeInv, DraftInv, StepInv, Transaction
  <1>2. /\ draft' \in Database /\ txn' \in Transaction
        /\ draft'.mem = draft.mem /\ draft'.cursor = draft.cursor
        /\ draft'.version = draft.version /\ draft'.status = draft.status
        /\ \A i \in Ids : draft'.bands[i] =
              IF draft.bands[i] = Current /\ draft.mem[i] # "plain"
              THEN Current ELSE NoBands
        /\ txn'.kind = "batch" /\ txn'.pc = "finish" /\ txn'.todo = {}
    BY <1>1 DEF Database, Transaction
  <1>3. TypeInv' /\ DiskInv'
    BY <1>1, <1>2 DEF IInv, TypeInv, DiskInv, Derived, Covered, Ready,
                      Embedded
  <1>4. Derived(draft)' /\ Covered(draft, {})'
    BY <1>1, <1>2 DEF IInv, DraftInv, Derived, Covered, Ready, Embedded,
                      IsEmbedded
  <1>5. DraftInv'
    BY <1>1, <1>2, <1>4 DEF IInv, DraftInv, StepInv, BatchInv
  <1> QED
    BY <1>3, <1>5 DEF IInv

LEMMA FinishPreserves ==
    ASSUME IInv, Finish
    PROVE  IInv'
  <1>1. /\ draft \in Database /\ txn \in Transaction
        /\ txn.kind = "batch" /\ txn.pc = "finish" /\ txn.todo = {}
        /\ disk' = disk /\ rebuild' = rebuild
        /\ draft' = [draft EXCEPT
             !.status = IF NoneMissing(draft) THEN "ready" ELSE "rebuilding",
             !.cursor = NoId]
        /\ txn' = [txn EXCEPT !.pc = "commit"]
    BY DEF Finish, IInv, TypeInv, DraftInv, StepInv, Transaction
  <1>2. /\ draft' \in Database /\ txn' \in Transaction
        /\ draft'.mem = draft.mem /\ draft'.bands = draft.bands
        /\ draft'.version = draft.version /\ draft'.cursor = NoId
        /\ draft'.status = "ready" => NoneMissing(draft)
        /\ txn'.kind = "batch" /\ txn'.pc = "commit" /\ txn'.todo = {}
    BY <1>1 DEF Database, Transaction
  <1>3. TypeInv' /\ DiskInv'
    BY <1>1, <1>2 DEF IInv, TypeInv, DiskInv, Derived, Covered, Ready,
                      Embedded
  <1>4. Derived(draft)' /\ Covered(draft, {})'
    BY <1>1, <1>2, Sizes
       DEF IInv, DraftInv, Derived, Covered, Ready, Embedded, NoneMissing,
           Ids
  <1>5. DraftInv'
    BY <1>1, <1>2, <1>4 DEF IInv, DraftInv, StepInv, BatchInv
  <1> QED
    BY <1>3, <1>5 DEF IInv

----------------------------------------------------------------------------
\* The end of a transaction: its draft becomes the disk only when nothing is
\* left to maintain.

LEMMA CommitPreserves ==
    ASSUME IInv, Commit
    PROVE  IInv'
  <1>1. /\ draft \in Database /\ txn \in Transaction
        /\ txn.kind # "none" /\ txn.pc # "mark" /\ txn.todo = {}
        /\ disk' = draft /\ draft' = draft /\ txn' = NoTxn
    BY DEF Commit, AtCommit, IInv, TypeInv, DraftInv, StepInv
  <1>2. /\ Derived(draft) /\ Covered(draft, {})
        /\ disk.version = Current => draft.version = Current
    BY <1>1 DEF IInv, DraftInv
  <1>3. TypeInv'
    <2>1. txn' \in Transaction
      BY <1>1 DEF NoTxn, Transaction
    <2>2. rebuild' \in [Rebuilds -> RebuildStates]
      BY DEF Commit, IInv, TypeInv, RebuildStates
    <2> QED
      BY <1>1, <2>1, <2>2 DEF TypeInv
  <1>4. (\E r \in Rebuilds : rebuild'[r] = "looping")
           => draft.version = Current
    <2> SUFFICES ASSUME NEW r \in Rebuilds, rebuild'[r] = "looping"
                 PROVE  draft.version = Current
      OBVIOUS
    <2>1. CASE r # txn.by
      BY <2>1, <1>2 DEF Commit, IInv, DiskInv
    <2>2. CASE r = txn.by
      <3>1. txn.kind \in {"start", "batch"}
        BY <2>2, <1>1, NobodyRebuilds DEF IInv, DraftInv, StepInv, Transaction
      <3> QED
        BY <3>1, <1>1 DEF Commit, AtCommit, IInv, DraftInv, StepInv
    <2> QED
      BY <2>1, <2>2
  <1>5. DiskInv'
    BY <1>1, <1>2, <1>4 DEF DiskInv, Derived, Covered, Ready, Embedded
  <1>6. DraftInv'
    BY <1>1 DEF NoTxn, DraftInv, StepInv, BatchInv
  <1> QED
    BY <1>3, <1>5, <1>6 DEF IInv

----------------------------------------------------------------------------
LEMMA RollbackPreserves ==
    ASSUME IInv, Rollback
    PROVE  IInv'
  <1>1. /\ disk' = disk /\ draft' = disk /\ txn' = NoTxn
        /\ rebuild' = [r \in Rebuilds |->
              IF r = txn.by THEN "failed" ELSE rebuild[r]]
    BY DEF Rollback
  <1>2. TypeInv'
    <2>1. txn' \in Transaction
      BY <1>1 DEF NoTxn, Transaction
    <2>2. rebuild' \in [Rebuilds -> RebuildStates]
      BY <1>1 DEF IInv, TypeInv, RebuildStates
    <2> QED
      BY <1>1, <2>1, <2>2 DEF IInv, TypeInv
  <1>3. DiskInv'
    BY <1>1 DEF IInv, DiskInv, Derived, Covered, Ready, Embedded
  <1>4. DraftInv'
    BY <1>1 DEF NoTxn, DraftInv, StepInv, BatchInv
  <1> QED
    BY <1>2, <1>3, <1>4 DEF IInv

\* Searches, and steps that change nothing, read the database only.
LEMMA ReadPreserves ==
    ASSUME IInv, UNCHANGED <<disk, draft, txn, rebuild>>
    PROVE  IInv'
    BY DEF IInv, TypeInv, DiskInv, DraftInv, StepInv, BatchInv, Derived,
           Covered, Ready, Embedded

LEMMA NextPreserves ==
    ASSUME IInv, [Next]_vivars
    PROVE  IInv'
  <1>1. CASE \E i \in Ids, kind \in Kinds \ {"absent"} : Save(i, kind)
    BY <1>1, SavePreserves
  <1>2. CASE \E S \in SUBSET Ids : Prune(S)
    BY <1>2, PrunePreserves
  <1>3. CASE TxnStep
    BY <1>3, OutdatePreserves, DeletePreserves, InsertPreserves,
       MarksPreserves, MovePreserves, SweepPreserves, FinishPreserves,
       CommitPreserves DEF TxnStep
  <1>4. CASE Rollback
    BY <1>4, RollbackPreserves
  <1>5. CASE \E r \in Rebuilds :
               \/ \E force \in BOOLEAN : RebuildClears(r, force)
               \/ RebuildResumes(r) \/ Batch(r) \/ Interrupted(r)
    BY <1>5, ClearsPreserves, ResumesPreserves, BatchPreserves
  <1>6. CASE \E s \in Searches : SearchStep(s)
    <2>1. UNCHANGED <<disk, draft, txn, rebuild>>
      BY <1>6 DEF SearchStep, SearchStarts, SearchQueries, SearchLoads,
                  SearchFills, SearchStreams
    <2> QED
      BY <2>1, ReadPreserves
  <1>7. CASE UNCHANGED vivars
    BY <1>7, ReadPreserves DEF vivars
  <1> QED
    BY <1>1, <1>2, <1>3, <1>4, <1>5, <1>6, <1>7 DEF Next

\* The strengthened invariant holds in every reachable state (maintain_memory,
\* rebuild and the transactions they run in).
THEOREM IndexInvariant == Spec => []IInv
  <1>1. Init => IInv
    BY InitEstablishes
  <1>2. IInv /\ [Next]_vivars => IInv'
    BY NextPreserves
  <1> QED
    BY <1>1, <1>2, PTL DEF Spec

\* A committed index that says ready has the current bands of every embedded
\* memory and of no other, for any number of memories, rebuilds and writes.
THEOREM ReadyIndexIsComplete == Spec => []ReadyIsComplete
  <1>1. IInv => ReadyIsComplete
    BY DEF IInv, DiskInv, Derived, Covered, ReadyIsComplete
  <1> QED
    BY <1>1, IndexInvariant, PTL

\* A rebuild that was interrupted may resume at the persisted cursor,
\* whatever other calls did to it since.
THEOREM CursorIsCovered == Spec => []CursorCovers
  <1>1. IInv => CursorCovers
    BY DEF IInv, DiskInv, Covered, CursorCovers
  <1> QED
    BY <1>1, IndexInvariant, PTL
-----------------------------------------------------------------------------
\* A set of numbers has a least one.
LEMMA LeastNumber ==
    ASSUME NEW T \in SUBSET Nat, T # {}
    PROVE  \E m \in T : \A k \in T : m <= k
  <1>1. PICK m \in T : \A k \in T : ~ (<<k, m>> \in OpToRel(<, Nat))
    BY NatLessThanWellFounded, WFMin, Zenon
  <1>2. \A k \in T : ~ (k < m)
    BY <1>1 DEF OpToRel
  <1> QED
    BY <1>2

\* The members of S that fewer than n members precede.
Leading(S, f, n) == {x \in S : Cardinality({y \in S : f[y] < f[x]}) < n}

\* If they are not all, they are n, and precede every other.
LEMMA LeadersCount ==
    ASSUME NEW S, IsFiniteSet(S), NEW b \in Nat, NEW f \in [S -> 0 .. b],
           \A x, y \in S : f[x] = f[y] => x = y,
           NEW n \in Nat, NEW z \in S, z \notin Leading(S, f, n)
    PROVE  /\ Cardinality(Leading(S, f, n)) = n
           /\ \A m \in Leading(S, f, n) : f[m] < f[z]
  <1> DEFINE F == Leading(S, f, n)
             Below(x) == {y \in S : f[y] < f[x]}
  <1>1. /\ F \in SUBSET S
        /\ \A x \in S : f[x] \in Nat /\ f[x] <= b
    BY DEF Leading
  <1>2. ASSUME NEW x \in S
        PROVE  /\ IsFiniteSet(Below(x)) /\ Cardinality(Below(x)) \in Nat
               /\ x \in F <=> Cardinality(Below(x)) < n
    <2>1. Below(x) \in SUBSET S
      OBVIOUS
    <2> QED
      BY <2>1, FS_Subset, FS_CardinalityType DEF Leading
  <1>3. ASSUME NEW x \in S, NEW m \in F, f[x] <= f[m]
        PROVE  x \in F
    <2>1. m \in S /\ Cardinality(Below(m)) < n
      BY <1>1, <1>2
    <2>2. Below(x) \in SUBSET Below(m)
      BY <1>1, <1>3, <2>1
    <2>3. Cardinality(Below(x)) <= Cardinality(Below(m))
      BY <1>2, <2>1, <2>2, FS_Subset
    <2> HIDE DEF F, Below
    <2> QED
      BY <1>2, <2>1, <2>3
  <1>4. \A m \in F : f[m] < f[z]
    BY <1>1, <1>3
  <1>5. PICK x \in S \ F : \A y \in S \ F : f[x] <= f[y]
    <2> DEFINE T == {f[y] : y \in S \ F}
    <2>1. T \in SUBSET Nat /\ T # {}
      BY <1>1
    <2>2. PICK k \in T : \A l \in T : k <= l
      BY <2>1, LeastNumber
    <2> QED
      BY <2>2
  <1>6. F = Below(x)
    <2>1. \A m \in F : m \in Below(x)
      BY <1>1, <1>3, <1>5
    <2>2. \A y \in Below(x) : y \in F
      BY <1>1, <1>5
    <2> QED
      BY <2>1, <2>2
  <1>7. IsFiniteSet(F) /\ Cardinality(F) \in Nat /\ Cardinality(F) >= n
    <2> HIDE DEF F, Below
    <2> QED
      BY <1>2, <1>5, <1>6
  <1>8. Cardinality(F) <= n
    <2>1. CASE F = {}
      BY <2>1, FS_EmptySet
    <2>2. CASE F # {}
      <3>1. PICK m \in F : \A y \in F : b - f[m] <= b - f[y]
        <4> DEFINE T == {b - f[y] : y \in F}
        <4>1. T \in SUBSET Nat /\ T # {}
          BY <1>1, <2>2
        <4>2. PICK k \in T : \A l \in T : k <= l
          BY <4>1, LeastNumber
        <4> QED
          BY <4>2
      <3>2. m \in S /\ \A y \in F : f[y] <= f[m]
        BY <1>1, <3>1
      <3>3. F \ {m} \in SUBSET Below(m)
        BY <1>1, <3>2
      <3>4. Cardinality(F \ {m}) <= Cardinality(Below(m))
        BY <1>2, <3>2, <3>3, FS_Subset
      <3>5. Cardinality(F \ {m}) = Cardinality(F) - 1
        BY <1>7, FS_RemoveElement
      <3> HIDE DEF F, Below
      <3>6. Cardinality(Below(m)) \in Nat /\ Cardinality(Below(m)) < n
        BY <1>2, <3>2
      <3> QED
        BY <1>7, <3>4, <3>5, <3>6
    <2> QED
      BY <2>1, <2>2
  <1> HIDE DEF F
  <1>9. Cardinality(F) = n
    BY <1>7, <1>8
  <1> QED
    BY <1>4, <1>9 DEF F

\* Whoever is not among the first n members of S has n before it.
LEMMA FirstOfCount ==
    ASSUME NEW S \in SUBSET Ids, NEW n \in Nat, NEW i \in S, i \notin FirstOf(S, n)
    PROVE  Cardinality(FirstOf(S, n)) = n
  <1> DEFINE f == [j \in S |-> j]
  <1>1. IsFiniteSet(S) /\ f \in [S -> 0 .. MaxId] /\ MaxId \in Nat
    <2>1. IsFiniteSet(Ids)
      BY FS_Interval, Sizes DEF Ids
    <2>2. IsFiniteSet(S)
      BY <2>1, FS_Subset
    <2>3. f \in [S -> 0 .. MaxId]
      BY Sizes DEF Ids
    <2> QED
      BY <2>2, <2>3, Sizes
  <1>2. FirstOf(S, n) = Leading(S, f, n)
    <2>1. ASSUME NEW j \in S
          PROVE  {k \in S : k < j} = {k \in S : f[k] < f[j]}
      BY Zenon
    <2>2. ASSUME NEW j \in S
          PROVE  Cardinality({k \in S : k < j}) < n
                 <=> Cardinality({k \in S : f[k] < f[j]}) < n
      BY <2>1
    <2> HIDE DEF f
    <2> QED
      BY <2>2, Zenon DEF FirstOf, Leading
  <1>3. \A x, y \in S : f[x] = f[y] => x = y
    OBVIOUS
  <1> HIDE DEF f
  <1> QED
    BY <1>1, <1>2, <1>3, LeadersCount

Found == [id : Ids, kind : Kinds \ {"absent"}]

\* The ranker keeps a row unless Limit better ones are there.
LEMMA RankedKeeps ==
    ASSUME NEW R \in SUBSET Found, NEW row \in R, row \notin Ranked(R)
    PROVE  /\ Cardinality(Ranked(R)) = Limit
           /\ \A m \in Ranked(R) : Better(m, row)
  <1> DEFINE place(m) == CASE m.kind = "near" -> m.id
                           [] m.kind = "far" -> MaxId + m.id
                           [] OTHER -> 2 * MaxId + m.id
             f == [m \in R |-> place(m)]
  <1>1. MaxId \in Nat /\ Limit \in Nat
    BY VectorIndexSizes DEF VectorIndexSizes
  <1>2. \A m \in Found : /\ m.id \in Nat /\ 1 <= m.id /\ m.id <= MaxId
                         /\ m.kind \in {"near", "far", "plain"}
                         /\ m = [id |-> m.id, kind |-> m.kind]
    BY <1>1 DEF Found, Ids, Kinds
  <1>3. f \in [R -> 0 .. 3 * MaxId]
    <2>1. \A m \in R : place(m) \in 0 .. 3 * MaxId
      BY <1>1, <1>2
    <2> QED
      BY <2>1
  <1>4. \A m, o \in R : f[m] = f[o] => m = o
    <2>1. \A m, o \in R : place(m) = place(o) => m.id = o.id /\ m.kind = o.kind
      BY <1>1, <1>2
    <2> QED
      BY <1>2, <2>1
  <1>5. \A m, o \in R : Better(m, o) <=> f[m] < f[o]
    BY <1>1, <1>2 DEF Better
  <1>6. IsFiniteSet(R)
    <2>1. IsFiniteSet(Ids) /\ IsFiniteSet({"near", "far", "plain"})
      <3>1. IsFiniteSet(Ids)
        BY <1>1, FS_Interval DEF Ids
      <3>2. IsFiniteSet({"near"})
        BY FS_Singleton
      <3>3. IsFiniteSet({"near"} \cup {"far"})
        BY <3>2, FS_AddElement
      <3>4. IsFiniteSet(({"near"} \cup {"far"}) \cup {"plain"})
        BY <3>3, FS_AddElement
      <3>5. {"near", "far", "plain"} = ({"near"} \cup {"far"}) \cup {"plain"}
        OBVIOUS
      <3> QED
        BY <3>1, <3>4, <3>5
    <2>2. IsFiniteSet(Ids \X {"near", "far", "plain"})
      BY <2>1, FS_Product
    <2> DEFINE g == [m \in R |-> <<m.id, m.kind>>]
    <2>3. g \in Injection(R, Ids \X {"near", "far", "plain"})
      <3>1. g \in [R -> Ids \X {"near", "far", "plain"}]
        BY <1>2 DEF Found
      <3>2. \A m, o \in R : g[m] = g[o] => m = o
        BY <1>2
      <3> QED
        BY <3>1, <3>2, Zenon DEF Injection, IsInjective
    <2> QED
      BY <2>2, <2>3, FS_Injection, Zenon
  <1> HIDE DEF f
  <1>7. Ranked(R) = Leading(R, f, Limit)
    <2>1. ASSUME NEW m \in R
          PROVE  {o \in R : Better(o, m)} = {o \in R : f[o] < f[m]}
      BY <1>5
    <2> QED
      BY <2>1 DEF Ranked, Leading
  <1>8. 3 * MaxId \in Nat
    BY <1>1
  <1>9. /\ Cardinality(Ranked(R)) = Limit
        /\ \A m \in Ranked(R) : f[m] < f[row]
    BY <1>1, <1>3, <1>4, <1>6, <1>7, <1>8, LeadersCount
  <1>10. Ranked(R) \in SUBSET R
    BY DEF Ranked
  <1> QED
    BY <1>5, <1>9, <1>10
-----------------------------------------------------------------------------
\* What a search has found of the memories that nobody changed meanwhile.
Finds(s) ==
    \A i \in s.steady : disk.mem[i] = "near" =>
        LET row == [id |-> i, kind |-> "near"]
        IN  /\ s.pc \in {"loading", "filling"} =>
                  i \in s.ids \/ Cardinality(s.ids) = Budget
            /\ s.pc = "filling" => row \in s.rows \/ i \notin s.ids
            /\ s.pc = "done" =>
                  \/ row \in s.rows
                  \/ i \notin s.ids /\ Cardinality(s.ids) = Budget
                  \/ /\ Cardinality(s.rows) = Limit
                     /\ \A m \in s.rows : Better(m, row)

SearchInv ==
    /\ search \in [Searches ->
          [pc : {"idle", "querying", "streaming", "loading", "filling", "done"},
           ids : SUBSET Ids, rows : SUBSET Found, steady : SUBSET Ids]]
    /\ txn.kind # "none" =>
          \A i \in Ids \ txn.touched : draft.mem[i] = disk.mem[i]
    /\ \A s \in Searches : search[s].steady \cap txn.touched = {}
    /\ \A s \in Searches : Finds(search[s])
-----------------------------------------------------------------------------
\* A step of a writer that neither commits nor changes a memory.
LEMMA WriterKeeps ==
    ASSUME IInv, SearchInv, disk' = disk, search' = search,
           \/ /\ draft'.mem = draft.mem /\ txn'.touched = txn.touched
              /\ txn.kind # "none"
           \/ draft'.mem = disk.mem /\ txn'.touched = {}
    PROVE  SearchInv'
  BY DEF SearchInv, Finds

LEMMA SearchInitially == Init => SearchInv
  BY DEF Init, SearchInv, Finds, NoTxn

\* A save or prune of the memories in S.
LEMMA WriteBegins ==
    ASSUME IInv, SearchInv, NEW S \in SUBSET Ids, disk' = disk, Unsteady(S),
           txn'.touched = S, \A i \in Ids \ S : draft'.mem[i] = disk.mem[i]
    PROVE  SearchInv'
  <1>1. ASSUME NEW s \in Searches
        PROVE  /\ search'[s] = [search[s] EXCEPT !.steady = search[s].steady \ S]
               /\ search'[s].steady = search[s].steady \ S
               /\ search'[s].pc = search[s].pc /\ search'[s].ids = search[s].ids
               /\ search'[s].rows = search[s].rows
    BY DEF Unsteady, SearchInv
  <1>2. search' \in [Searches ->
          [pc : {"idle", "querying", "streaming", "loading", "filling", "done"},
           ids : SUBSET Ids, rows : SUBSET Found, steady : SUBSET Ids]]
    BY DEF Unsteady, SearchInv
  <1>3. \A s \in Searches : search'[s].steady \cap txn'.touched = {}
    BY <1>1
  <1>4. ASSUME NEW s \in Searches
        PROVE  Finds(search[s])'
    <2>1. Finds(search[s])
      BY DEF SearchInv
    <2> QED
      BY <1>1, <2>1 DEF Finds
  <1> QED
    BY <1>2, <1>3, <1>4 DEF SearchInv

LEMMA CommitKeeps ==
    ASSUME IInv, SearchInv, Commit
    PROVE  SearchInv'
  <1>1. /\ disk' = draft /\ txn' = NoTxn /\ search' = search
        /\ txn.kind # "none"
    BY DEF Commit, AtCommit, IInv, DraftInv, StepInv
  <1>2. \A s \in Searches : \A i \in search[s].steady : disk'.mem[i] = disk.mem[i]
    BY <1>1 DEF SearchInv
  <1> QED
    BY <1>1, <1>2 DEF SearchInv, Finds, NoTxn

\* A step of one search; what it finds is left to show.
LEMMA OneSearchMoves ==
    ASSUME SearchInv, UNCHANGED <<disk, draft, txn>>, NEW s \in Searches, NEW r,
           search' = [search EXCEPT ![s] = r],
           r \in [pc : {"idle", "querying", "streaming", "loading", "filling", "done"},
                  ids : SUBSET Ids, rows : SUBSET Found, steady : SUBSET Ids],
           r.steady \cap txn.touched = {}, Finds(r)
    PROVE  SearchInv'
  <1>1. \A u \in Searches : search'[u] = IF u = s THEN r ELSE search[u]
    BY DEF SearchInv
  <1>2. ASSUME NEW u \in Searches
        PROVE  Finds(search[u])'
    <2>1. Finds(search'[u])
      BY <1>1 DEF SearchInv
    <2> QED
      BY <2>1 DEF Finds
  <1> QED
    BY <1>1, <1>2 DEF SearchInv

LEMMA SearchStepKeeps ==
    ASSUME ~ Shared, IInv, SearchInv, NEW s \in Searches, SearchStep(s)
    PROVE  SearchInv'
  <1> DEFINE Typed(r) ==
        r \in [pc : {"idle", "querying", "streaming", "loading", "filling", "done"},
               ids : SUBSET Ids, rows : SUBSET Found, steady : SUBSET Ids]
             old == search[s]
  <1>1. View = disk /\ disk \in Database
    BY DEF View, IInv, TypeInv
  <1>2. /\ Typed(old) /\ old.steady \cap txn.touched = {} /\ Finds(old)
        /\ old.steady \in SUBSET Ids
    BY DEF SearchInv
  <1>3. \A pc : Goes(s, pc) => search' = [search EXCEPT ![s] = [old EXCEPT !.pc = pc]]
    BY DEF Goes
  <1>4. Rows(disk, Kinds \ {"absent"}) \in SUBSET Found
    BY DEF Rows, Found
  <1>5. \A i \in Ids : disk.mem[i] = "near" =>
            [id |-> i, kind |-> "near"] \in Rows(disk, Kinds \ {"absent"})
    BY DEF Rows, Kinds
  <1>6. CASE SearchStarts(s)
    <2> DEFINE r == [old EXCEPT !.pc = IF Ready(disk) THEN "querying" ELSE "streaming",
                                !.steady = Ids \ txn.touched]
    <2>1. search' = [search EXCEPT ![s] = r] /\ UNCHANGED <<disk, draft, txn>>
      BY <1>1, <1>6 DEF SearchStarts
    <2>2. Typed(r) /\ r.steady \cap txn.touched = {} /\ r.pc \in {"querying", "streaming"}
      BY <1>2
    <2>3. Finds(r)
      BY <2>2 DEF Finds
    <2> HIDE DEF r
    <2> QED
      BY <2>1, <2>2, <2>3, OneSearchMoves
  <1>7. CASE SearchQueries(s)
    <2> DEFINE near == {i \in Ids : disk.bands[i] = Current /\ disk.mem[i] = "near"}
               ids == FirstOf(near, Budget)
               r1 == [old EXCEPT !.pc = "streaming"]
               r2 == [old EXCEPT !.pc = "loading", !.ids = ids]
    <2>1. UNCHANGED <<disk, draft, txn>>
      BY <1>7 DEF SearchQueries
    <2>2. \/ search' = [search EXCEPT ![s] = r1]
          \/ search' = [search EXCEPT ![s] = r2] /\ Ready(disk)
      BY <1>1, <1>7 DEF SearchQueries, Goes, StillReady
    <2>3. CASE search' = [search EXCEPT ![s] = r1]
      <3>1. Typed(r1) /\ r1.steady \cap txn.touched = {} /\ r1.pc = "streaming"
        BY <1>2
      <3>2. Finds(r1)
        BY <3>1 DEF Finds
      <3> HIDE DEF r1
      <3> QED
        BY <2>1, <2>3, <3>1, <3>2, OneSearchMoves
    <2>4. CASE search' = [search EXCEPT ![s] = r2] /\ Ready(disk)
      <3>1. ids \in SUBSET Ids
        BY DEF FirstOf
      <3>2. /\ Typed(r2) /\ r2.steady \cap txn.touched = {} /\ r2.pc = "loading"
            /\ r2.ids = ids /\ r2.steady = old.steady
        BY <1>2, <3>1
      <3>3. \A i \in Ids : disk.mem[i] = "near" => i \in near
        BY <2>4 DEF IInv, DiskInv, Covered, Embedded, IsEmbedded
      <3>4. \A i \in near : i \in ids \/ Cardinality(ids) = Budget
        BY FirstOfCount, VectorIndexSizes DEF VectorIndexSizes
      <3>5. Finds(r2)
        BY <1>2, <3>2, <3>3, <3>4 DEF Finds
      <3> HIDE DEF r2
      <3> QED
        BY <2>1, <2>4, <3>2, <3>5, OneSearchMoves
    <2> QED
      BY <2>2, <2>3, <2>4
  <1>8. CASE SearchLoads(s)
    <2> DEFINE rows == {row \in Rows(disk, Kinds \ {"absent"}) : row.id \in old.ids}
               r == [old EXCEPT !.pc = "filling", !.rows = rows]
    <2>1. search' = [search EXCEPT ![s] = r] /\ UNCHANGED <<disk, draft, txn>>
      BY <1>1, <1>8 DEF SearchLoads
    <2>2. rows \in SUBSET Found
      BY <1>4
    <2>3. /\ Typed(r) /\ r.steady \cap txn.touched = {} /\ r.pc = "filling"
          /\ r.ids = old.ids /\ r.rows = rows /\ r.steady = old.steady
      BY <1>2, <2>2
    <2>4. \A i \in old.ids : disk.mem[i] = "near" => [id |-> i, kind |-> "near"] \in rows
      BY <1>2, <1>5
    <2>5. old.pc = "loading"
      BY <1>8 DEF SearchLoads
    <2> HIDE DEF r, rows
    <2>6. Finds(r)
      BY <1>2, <2>3, <2>4, <2>5 DEF Finds
    <2> QED
      BY <2>1, <2>3, <2>6, OneSearchMoves
  <1>9. CASE SearchFills(s)
    <2> DEFINE plain == FirstOf({i \in Ids : disk.mem[i] = "plain"},
                                Budget - Cardinality(old.ids))
               all == old.rows \cup {row \in Rows(disk, {"plain"}) : row.id \in plain}
               r == [old EXCEPT !.pc = "done", !.rows = Ranked(all)]
    <2>1. search' = [search EXCEPT ![s] = r] /\ UNCHANGED <<disk, draft, txn>>
      BY <1>1, <1>9 DEF SearchFills
    <2>2. all \in SUBSET Found
      BY <1>2 DEF Rows, Found, Kinds
    <2>3. Ranked(all) \in SUBSET Found
      BY <2>2 DEF Ranked
    <2>4. old.rows \subseteq all /\ old.pc = "filling"
      BY <1>9 DEF SearchFills
    <2> HIDE DEF all
    <2>5. /\ Typed(r) /\ r.steady \cap txn.touched = {} /\ r.pc = "done"
          /\ r.ids = old.ids /\ r.rows = Ranked(all) /\ r.steady = old.steady
      BY <1>2, <2>3
    <2>6. \A row \in all : \/ row \in Ranked(all)
                           \/ /\ Cardinality(Ranked(all)) = Limit
                              /\ \A m \in Ranked(all) : Better(m, row)
      BY <2>2, RankedKeeps
    <2> HIDE DEF r
    <2>7. Finds(r)
      BY <1>2, <2>4, <2>5, <2>6 DEF Finds
    <2> QED
      BY <2>1, <2>5, <2>7, OneSearchMoves
  <1>10. CASE SearchStreams(s)
    <2> DEFINE all == Rows(disk, Kinds \ {"absent"})
               r == [old EXCEPT !.pc = "done", !.rows = Ranked(all)]
    <2>1. search' = [search EXCEPT ![s] = r] /\ UNCHANGED <<disk, draft, txn>>
      BY <1>1, <1>10 DEF SearchStreams
    <2> HIDE DEF all
    <2>2. Ranked(all) \in SUBSET Found
      BY <1>4 DEF Ranked, all
    <2>3. /\ Typed(r) /\ r.steady \cap txn.touched = {} /\ r.pc = "done"
          /\ r.rows = Ranked(all) /\ r.steady = old.steady
      BY <1>2, <2>2
    <2>4. \A row \in all : \/ row \in Ranked(all)
                           \/ /\ Cardinality(Ranked(all)) = Limit
                              /\ \A m \in Ranked(all) : Better(m, row)
      BY <1>4, RankedKeeps DEF all
    <2>5. \A i \in Ids : disk.mem[i] = "near" => [id |-> i, kind |-> "near"] \in all
      BY <1>5 DEF all
    <2> HIDE DEF r
    <2>6. Finds(r)
      BY <1>2, <2>3, <2>4, <2>5 DEF Finds
    <2> QED
      BY <2>1, <2>3, <2>6, OneSearchMoves
  <1> QED
    BY <1>6, <1>7, <1>8, <1>9, <1>10 DEF SearchStep

LEMMA SearchesStep ==
    ASSUME ~ Shared, IInv, SearchInv, [Next]_vivars
    PROVE  SearchInv'
  <1>1. /\ disk \in Database /\ draft \in Database /\ txn \in Transaction
    BY DEF IInv, TypeInv
  <1>2. ASSUME NEW i \in Ids, NEW kind \in Kinds \ {"absent"}, Save(i, kind)
        PROVE  SearchInv'
    <2>1. /\ txn'.touched = {i} /\ {i} \in SUBSET Ids
          /\ \A j \in Ids \ {i} : draft'.mem[j] = disk.mem[j]
          /\ disk' = disk /\ Unsteady({i})
      BY <1>1, <1>2 DEF Save, NoTxn, Database
    <2> QED
      BY <2>1, WriteBegins
  <1>3. ASSUME NEW S \in SUBSET Ids, Prune(S)
        PROVE  SearchInv'
    <2>1. /\ txn'.touched = S
          /\ \A j \in Ids \ S : draft'.mem[j] = disk.mem[j]
          /\ disk' = disk /\ Unsteady(S)
      BY <1>1, <1>3 DEF Prune, NoTxn, Database
    <2> QED
      BY <2>1, WriteBegins
  <1>4. CASE TxnStep
    <2>1. CASE Commit
      BY <2>1, CommitKeeps
    <2>2. ASSUME NEW i \in Ids, DeleteBands(i) \/ InsertBands(i)
          PROVE  SearchInv'
      <3>1. txn.kind # "none" /\ txn'.touched = txn.touched
        BY <1>1, <2>2 DEF DeleteBands, InsertBands, IInv, DraftInv, StepInv, Transaction
      <3>2. draft'.mem = draft.mem /\ disk' = disk /\ search' = search
        BY <1>1, <2>2 DEF DeleteBands, InsertBands, Database
      <3> QED
        BY <3>1, <3>2, WriterKeeps
    <2>3. ASSUME Outdate \/ RebuildMarks \/ MoveCursor \/ Sweep \/ Finish
          PROVE  SearchInv'
      <3>1. txn.kind # "none" /\ txn'.touched = txn.touched
        BY <1>1, <2>3 DEF Outdate, Maintaining, RebuildMarks, MoveCursor, Sweep, Finish,
           IInv, DraftInv, StepInv, Transaction
      <3>2. draft'.mem = draft.mem /\ disk' = disk /\ search' = search
        BY <1>1, <2>3 DEF Outdate, RebuildMarks, Anew, MoveCursor, CursorMoved, Sweep,
           Finish, Database
      <3> QED
        BY <3>1, <3>2, WriterKeeps
    <2> QED
      BY <1>4, <2>1, <2>2, <2>3 DEF TxnStep
  <1>5. CASE Rollback
    BY <1>5, WriterKeeps DEF Rollback, NoTxn
  <1>6. ASSUME NEW r \in Rebuilds, NEW force \in BOOLEAN, RebuildClears(r, force)
        PROVE  SearchInv'
    BY <1>1, <1>6, WriterKeeps DEF RebuildClears, NoTxn, Database
  <1>7. ASSUME NEW r \in Rebuilds, RebuildResumes(r) \/ Interrupted(r)
        PROVE  SearchInv'
    BY <1>7 DEF RebuildResumes, Interrupted, SearchInv, Finds
  <1>8. ASSUME NEW r \in Rebuilds, Batch(r)
        PROVE  SearchInv'
    <2>1. txn'.touched = {}
      BY <1>8 DEF Batch, NoTxn
    <2>2. draft'.mem = disk.mem /\ disk' = disk /\ search' = search
      BY <1>8 DEF Batch
    <2> QED
      BY <2>1, <2>2, WriterKeeps
  <1>9. ASSUME NEW s \in Searches, SearchStep(s)
        PROVE  SearchInv'
    BY <1>9, SearchStepKeeps
  <1>10. CASE UNCHANGED vivars
    BY <1>10 DEF vivars, SearchInv, Finds
  <1> QED
    BY <1>2, <1>3, <1>4, <1>5, <1>6, <1>7, <1>8, <1>9, <1>10 DEF Next

\* A search on a connection of its own finds every matching memory that nobody
\* changed meanwhile, unless others fill its candidate budget or its limit,
\* whatever rebuilds and writes run beside it (candidate_ids, search).
THEOREM SearchesFindNear ==
    ASSUME ~ Shared
    PROVE  Spec => []SearchFindsNear
  <1>1. SearchInv => SearchFindsNear
    BY DEF SearchInv, Finds, SearchFindsNear
  <1>2. IInv /\ SearchInv /\ [Next]_vivars => (IInv /\ SearchInv)'
    BY NextPreserves, SearchesStep
  <1> QED
    BY <1>1, <1>2, InitEstablishes, SearchInitially, PTL DEF Spec
=============================================================================
