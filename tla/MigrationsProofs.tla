-------------------------- MODULE MigrationsProofs --------------------------
(***************************************************************************)
(* Proofs about Migrations for every set of programs, releases, memories   *)
(* and start files.                                                        *)
(*                                                                         *)
(* Sound(db, v) says what a database whose chain has reached v owes to the *)
(* file of the beginning.  The committed file is sound at its version and  *)
(* the draft of a running chain at the version reached; each step of a     *)
(* chain (StepIsSound) and the detection of a legacy layout (LegacyIsSound)*)
(* keep that, and COMMIT only writes the version down.                     *)
(***************************************************************************)
EXTENDS Migrations, TLAPS

\* What no migration may touch.
Kept(db) ==
    /\ db.embedding = origin.embedding
    /\ origin.schema \subseteq db.schema
    /\ \A w \in Versions : origin.ledger[w] # None => db.ledger[w] = origin.ledger[w]

Sound(db, v) ==
    /\ v >= origin.version
    /\ v = origin.version => db = origin
    /\ Kept(db)
    /\ v >= 1 => BaseColumns \subseteq db.schema
    /\ (v > origin.version \/ v >= 2) => Promised(db, v)
    /\ v < 3 => db.index = origin.index
    /\ Audited(db, v)

\* A chain writes in the transaction of its program, onto what the file was
\* when it began.
ChainInv(p) ==
    pc[p] = "chain" =>
        /\ draft.version = file.version
        /\ file.version <= at[p] /\ at[p] <= Target[p]
        /\ at[p] = 0 => ~Unsupported(draft)
        /\ Sound(draft, at[p])

IInv ==
    /\ TypeOK /\ origin \in StartFiles
    /\ \A p \in Programs : pc[p] \in {"begun", "chain"} <=> writer = p
    /\ (\A p \in Programs : pc[p] # "chain") => draft = file
    /\ Sound(file, file.version)
    /\ \A p \in Programs : ChainInv(p)
-----------------------------------------------------------------------------
LEMMA ColumnsRequired ==
    /\ Versions = {1, 2, 3}
    /\ Required(1) \subseteq BaseColumns \cup AddedColumns \cup {Registry}
    /\ Required(2) \subseteq BaseColumns \cup AddedColumns
                             \cup {SourceIndexes, Registry, Dimension, Bands}
    /\ \A v \in Nat : v >= 3 =>
         Required(v) = BaseColumns \cup AddedColumns
                       \cup {SourceIndexes, Registry, Dimension, Bands, IndexState}
    /\ Required(CURRENT_SCHEMA_VERSION) = Required(3)
    /\ Required(0) = {}
  <1>1. Versions = {1, 2, 3}
    BY DEF Versions, CURRENT_SCHEMA_VERSION
  <1>2. Source = BaseColumns \cup AddedColumns \cup {SourceIndexes, Registry}
    BY DEF Source
  <1> QED
    BY <1>1, <1>2 DEF Required, CURRENT_SCHEMA_VERSION

LEMMA StepNames ==
    /\ StepName \in [Versions -> Names]
    /\ \A v \in Versions : StepName[v] # None
  <1>1. StepName \in [Versions -> Names]
    BY DEF StepName, Names
  <1>2. None \notin Names
    BY MigrationConstants DEF MigrationConstants
  <1> QED BY <1>1, <1>2

\* The schema of a file may grow by whatever the newest version requires.
LEMMA SchemasGrow ==
    ASSUME NEW S \in Schemas,
           NEW T, T \subseteq BaseColumns \cup AddedColumns
                     \cup {SourceIndexes, Registry, Dimension, Bands, IndexState}
    PROVE  S \cup T \in Schemas
  BY ColumnsRequired DEF Schemas

\* Files, field by field.
LEMMA FileFields ==
    ASSUME NEW db
    PROVE  db \in Files <=>
             /\ db = [version |-> db.version, schema |-> db.schema,
                      ledger |-> db.ledger, embedding |-> db.embedding,
                      dimension |-> db.dimension, index |-> db.index]
             /\ db.version \in Nat /\ db.schema \in Schemas
             /\ db.ledger \in [Versions -> Names \cup {None}]
             /\ db.embedding \in [Memories -> Embeddings]
             /\ db.dimension \in [Memories -> Dimensions \cup {None}]
             /\ db.index \in {"ready", "rebuilding", None}
  BY DEF Files

\* What _normalize_source_schema does.
LEMMA NormalizedEffect ==
    ASSUME NEW db \in Files
    PROVE  LET n == Normalized(db) IN
           /\ n \in Files
           /\ n.version = db.version /\ n.ledger = db.ledger
           /\ n.embedding = db.embedding /\ n.dimension = db.dimension
           /\ n.index = db.index
           /\ db.schema \cup AddedColumns \cup {SourceIndexes, Registry}
                \subseteq n.schema
           /\ ~Unsupported(db) => BaseColumns \subseteq n.schema
  <1> DEFINE T == AddedColumns \cup {SourceIndexes, Registry}
                    \cup {Base(t) : t \in SourceTables \ FoundTables(db)}
             n == Normalized(db)
  <1>1. {Base(t) : t \in SourceTables \ FoundTables(db)} \subseteq BaseColumns
    BY DEF BaseColumns
  <1>2. db.schema \cup T \in Schemas
    BY <1>1, SchemasGrow DEF Files
  <1>3. n = [db EXCEPT !.schema = db.schema \cup T]
    BY DEF Normalized
  <1>4. /\ n.version = db.version /\ n.ledger = db.ledger
        /\ n.embedding = db.embedding /\ n.dimension = db.dimension
        /\ n.index = db.index /\ n.schema = db.schema \cup T
    BY <1>3 DEF Files
  <1>5. n \in Files
    BY <1>2, <1>3 DEF Files
  <1>6. ASSUME ~Unsupported(db) PROVE BaseColumns \subseteq n.schema
    BY <1>4, <1>6 DEF Unsupported, BaseColumns
  <1> HIDE DEF T
  <1> QED BY <1>4, <1>5, <1>6 DEF T

\* A step that does not raise: what it adds, and that it changes nothing else.
LEMMA StepEffect ==
    ASSUME NEW db \in Files, NEW v \in Versions, ~StepRaises(db, v)
    PROVE  LET n == Recorded(Migrated(db, v), v) IN
           /\ n \in Files
           /\ n.version = db.version /\ n.embedding = db.embedding
           /\ n.ledger = [db.ledger EXCEPT ![v] = StepName[v]]
           /\ db.schema \subseteq n.schema
           /\ v = 1 => /\ AddedColumns \cup {Registry} \subseteq n.schema
                       /\ ~Unsupported(db) => BaseColumns \subseteq n.schema
           /\ v = 2 => /\ AddedColumns \cup {SourceIndexes, Registry, Dimension, Bands}
                            \subseteq n.schema
                       /\ \A m \in Memories : db.embedding[m] # None =>
                                                n.dimension[m] = db.embedding[m]
           /\ v < 3 => n.index = db.index
           /\ v = 3 => /\ IndexState \in n.schema
                       /\ n.dimension = db.dimension
                       /\ n.index # None
                       /\ n.index = "ready" =>
                             db.index = "ready" \/ ~HasEmbeddings(db)
  <1> DEFINE d == Migrated(db, v)
             n == Recorded(d, v)
             l == [db.ledger EXCEPT ![v] = StepName[v]]
  <1>1. ASSUME d \in Files, d.ledger = db.ledger
        PROVE  /\ n \in Files
               /\ n.version = d.version /\ n.embedding = d.embedding
               /\ n.ledger = l /\ n.schema = d.schema
               /\ n.dimension = d.dimension /\ n.index = d.index
    <2>1. n = [d EXCEPT !.ledger = l]
      BY <1>1 DEF Recorded
    <2>2. l \in [Versions -> Names \cup {None}]
      BY StepNames DEF Files
    <2> QED BY <1>1, <2>1, <2>2 DEF Files
  <1>2. Versions = {1, 2, 3}
    BY ColumnsRequired
  <1>3. CASE v = 1
    <2>1. d = Normalized(db)
      BY <1>3 DEF Migrated
    <2> QED BY <1>1, <1>3, <2>1, NormalizedEffect
  <1>4. CASE v = 2
    <2> DEFINE e == Normalized(db)
               dim == [m \in Memories |-> IF e.embedding[m] = None
                                          THEN e.dimension[m] ELSE e.embedding[m]]
    <2>1. d = Dimensioned(db)
      BY <1>4 DEF Migrated
    <2>2. /\ e \in Files /\ e.version = db.version /\ e.ledger = db.ledger
          /\ e.embedding = db.embedding /\ e.index = db.index
          /\ db.schema \cup AddedColumns \cup {SourceIndexes, Registry} \subseteq e.schema
      BY NormalizedEffect
    <2>3. dim \in [Memories -> Dimensions \cup {None}]
      <3>1. \A m \in Memories : db.embedding[m] \in Dimensions \cup {None}
        BY <1>4 DEF StepRaises, Undecodable, Files, Embeddings
      <3> QED BY <2>2, <3>1 DEF Files
    <2>4. d = [e EXCEPT !.schema = e.schema \cup {Dimension, Bands}, !.dimension = dim]
      BY <2>1, <2>2 DEF Dimensioned
    <2>5. e.schema \cup {Dimension, Bands} \in Schemas
      BY <2>2, SchemasGrow DEF Files
    <2>6. /\ d \in Files /\ d.version = db.version /\ d.ledger = db.ledger
          /\ d.embedding = db.embedding /\ d.index = db.index
          /\ d.schema = e.schema \cup {Dimension, Bands} /\ d.dimension = dim
      BY <2>2, <2>3, <2>4, <2>5 DEF Files
    <2>7. \A m \in Memories : db.embedding[m] # None => dim[m] = db.embedding[m]
      BY <2>2
    <2> HIDE DEF dim, e
    <2> QED BY <1>1, <1>4, <2>2, <2>6, <2>7
  <1>5. CASE v = 3
    <2> DEFINE i == IF db.index # None THEN db.index
                    ELSE IF HasEmbeddings(db) THEN "rebuilding" ELSE "ready"
    <2>1. d = [db EXCEPT !.schema = db.schema \cup {IndexState}, !.index = i]
      BY <1>5 DEF Migrated, Indexed
    <2>2. db.schema \cup {IndexState} \in Schemas
      BY SchemasGrow DEF Files
    <2>3. i \in {"ready", "rebuilding", None}
      BY DEF Files
    <2>4. /\ d \in Files /\ d.version = db.version /\ d.ledger = db.ledger
          /\ d.embedding = db.embedding /\ d.dimension = db.dimension
          /\ d.schema = db.schema \cup {IndexState} /\ d.index = i
      BY <2>1, <2>2, <2>3 DEF Files
    <2>5. i # None /\ (i = "ready" => db.index = "ready" \/ ~HasEmbeddings(db))
      BY MigrationConstants DEF MigrationConstants
    <2> HIDE DEF i
    <2> QED BY <1>1, <1>5, <2>4, <2>5
  <1> QED BY <1>2, <1>3, <1>4, <1>5
-----------------------------------------------------------------------------
\* A step of the chain leaves a sound database sound.
LEMMA StepIsSound ==
    ASSUME NEW db \in Files, origin \in Files, NEW v \in Versions,
           Sound(db, v - 1), ~StepRaises(db, v),
           v = 1 => ~Unsupported(db)
    PROVE  LET n == Recorded(Migrated(db, v), v) IN
           n \in Files /\ n.version = db.version /\ Sound(n, v)
  <1> DEFINE n == Recorded(Migrated(db, v), v)
  <1>1. /\ n \in Files
        /\ n.version = db.version /\ n.embedding = db.embedding
        /\ n.ledger = [db.ledger EXCEPT ![v] = StepName[v]]
        /\ db.schema \subseteq n.schema
        /\ v = 1 => /\ AddedColumns \cup {Registry} \subseteq n.schema
                    /\ ~Unsupported(db) => BaseColumns \subseteq n.schema
        /\ v = 2 => /\ AddedColumns \cup {SourceIndexes, Registry, Dimension, Bands}
                         \subseteq n.schema
                    /\ \A m \in Memories : db.embedding[m] # None =>
                                             n.dimension[m] = db.embedding[m]
        /\ v < 3 => n.index = db.index
        /\ v = 3 => /\ IndexState \in n.schema
                    /\ n.dimension = db.dimension
                    /\ n.index # None
                    /\ n.index = "ready" =>
                          db.index = "ready" \/ ~HasEmbeddings(db)
    BY StepEffect
  <1> HIDE DEF n
  <1>2. /\ v \in 1 .. 3 /\ origin.version \in Nat /\ v > origin.version
        /\ Versions = {1, 2, 3}
        /\ v - 1 = origin.version => db = origin
    BY ColumnsRequired DEF Sound, Files
  <1>3. Kept(n)
    <2>1. db.ledger[v] \in {None, StepName[v]}
      BY DEF StepRaises, Conflict
    <2>2. ASSUME NEW w \in Versions, origin.ledger[w] # None
          PROVE  n.ledger[w] = origin.ledger[w]
      BY <1>1, <2>1, <2>2 DEF Sound, Kept, Files
    <2> QED BY <1>1, <2>2 DEF Sound, Kept
  <1>4. BaseColumns \subseteq n.schema
    BY <1>1, <1>2 DEF Sound
  <1>5. Required(v) \subseteq n.schema
    <2>1. CASE v = 1
      BY <1>1, <1>4, <2>1, ColumnsRequired
    <2>2. CASE v = 2
      BY <1>1, <1>4, <2>2, ColumnsRequired
    <2>3. CASE v = 3
      <3>1. Required(2) \subseteq db.schema
        BY <2>3 DEF Sound, Promised
      <3>2. Required(3) \subseteq Required(2) \cup {IndexState}
        BY DEF Required, Source
      <3> QED BY <1>1, <2>3, <3>1, <3>2
    <2> QED BY <1>2, <2>1, <2>2, <2>3
  <1>6. v >= 2 => \A m \in Memories :
            n.embedding[m] # None => n.dimension[m] = n.embedding[m]
    <2>1. CASE v = 2
      BY <1>1, <2>1
    <2>2. CASE v = 3
      BY <1>1, <2>2 DEF Sound, Promised
    <2> QED BY <1>2, <2>1, <2>2
  <1>7. v = 3 => /\ n.index # None
                 /\ n.index = "ready" => origin.index = "ready" \/ ~HasEmbeddings(n)
    BY <1>1 DEF Sound, HasEmbeddings
  <1>8. Promised(n, v)
    BY <1>2, <1>5, <1>6, <1>7 DEF Promised
  <1>9. Audited(n, v)
    <2>1. ASSUME NEW w \in Versions
          PROVE  n.ledger[w] = IF w = v THEN StepName[v] ELSE db.ledger[w]
      BY <1>1 DEF Files
    <2>2. ASSUME NEW w \in Versions
          PROVE  /\ n.ledger[w] \in {origin.ledger[w], StepName[w]}
                 /\ origin.version < w /\ w <= v => n.ledger[w] = StepName[w]
                 /\ w > v => n.ledger[w] = origin.ledger[w]
      BY <1>2, <2>1 DEF Sound, Audited
    <2> QED BY <2>2 DEF Audited
  <1>10. v < 3 => n.index = origin.index
    BY <1>1, <1>2 DEF Sound
  <1>11. Sound(n, v)
    BY <1>2, <1>3, <1>4, <1>8, <1>9, <1>10 DEF Sound
  <1> QED BY <1>1, <1>11 DEF n

\* So does the audit record of a layout that is taken for version 1.
LEMMA LegacyIsSound ==
    ASSUME NEW db \in Files, origin \in Files, db.version = 0, Sound(db, 0),
           ~Unsupported(db), LegacyVersion(db) = 1, ~Conflict(db, 1)
    PROVE  LET n == Recorded([db EXCEPT !.schema = @ \cup {Registry}], 1) IN
           n \in Files /\ n.version = db.version /\ Sound(n, 1)
  <1> DEFINE d == [db EXCEPT !.schema = db.schema \cup {Registry}]
             n == Recorded(d, 1)
  <1>1. /\ d \in Files /\ d.version = 0 /\ d.embedding = db.embedding
        /\ d.ledger = db.ledger /\ d.schema = db.schema \cup {Registry}
        /\ d.index = db.index
    <2>1. db.schema \cup {Registry} \in Schemas
      BY SchemasGrow DEF Files
    <2> QED BY <2>1 DEF Files
  <1>2. 1 \in Versions /\ Versions = {1, 2, 3}
    BY ColumnsRequired
  <1>3. /\ n \in Files /\ n.version = 0 /\ n.embedding = db.embedding
        /\ n.ledger = [db.ledger EXCEPT ![1] = StepName[1]]
        /\ n.schema = db.schema \cup {Registry} /\ n.index = db.index
    <2>1. [d.ledger EXCEPT ![1] = StepName[1]] \in [Versions -> Names \cup {None}]
      BY <1>1, <1>2, StepNames DEF Files
    <2>2. n = [d EXCEPT !.ledger = [d.ledger EXCEPT ![1] = StepName[1]]]
      BY <1>1 DEF Recorded
    <2> HIDE DEF d, n
    <2> QED BY <1>1, <2>1, <2>2 DEF Files
  <1>4. origin.version = 0 /\ db = origin
    BY DEF Sound, Files
  <1>5. db.ledger[1] \in {None, StepName[1]}
    BY DEF Conflict
  <1>6. Required(1) \subseteq n.schema /\ BaseColumns \subseteq n.schema
    <2>1. FoundTables(db) = SourceTables /\ AddedColumns \subseteq db.schema
      BY DEF LegacyVersion
    <2>2. BaseColumns \subseteq db.schema
      BY <2>1 DEF Unsupported, BaseColumns
    <2> QED BY <1>3, <2>1, <2>2, ColumnsRequired
  <1>7. Kept(n) /\ Audited(n, 1)
    <2>1. ASSUME NEW w \in Versions
          PROVE  n.ledger[w] = IF w = 1 THEN StepName[1] ELSE origin.ledger[w]
      BY <1>2, <1>3, <1>4 DEF Files
    <2> HIDE DEF n
    <2>2. Kept(n)
      BY <1>3, <1>4, <1>5, <2>1 DEF Kept
    <2>3. Audited(n, 1)
      BY <1>2, <1>4, <2>1 DEF Audited
    <2> QED BY <2>2, <2>3
  <1> HIDE DEF n
  <1>8. Sound(n, 1)
    BY <1>3, <1>4, <1>6, <1>7 DEF Sound, Promised
  <1>9. n = Recorded([db EXCEPT !.schema = @ \cup {Registry}], 1)
    BY DEF n
  <1> QED BY <1>3, <1>8, <1>9
-----------------------------------------------------------------------------
LEMMA InvInit == Init => IInv
  <1> SUFFICES ASSUME Init PROVE IInv
    OBVIOUS
  <1>1. origin \in StartFiles /\ origin \in Files /\ file = origin /\ draft = origin
    BY MigrationConstants DEF Init, MigrationConstants
  <1>2. TypeOK
    BY <1>1, MigrationConstants DEF Init, TypeOK, Nobody, MigrationConstants,
                                    CURRENT_SCHEMA_VERSION
  <1>3. Sound(origin, origin.version)
    <2>1. origin.version \in Nat
      BY <1>1 DEF Files
    <2>2. Kept(origin)
      BY DEF Kept
    <2>3. Audited(origin, origin.version)
      BY <2>1, ColumnsRequired DEF Audited
    <2>4. origin.version >= 2 => Promised(origin, origin.version)
      BY <1>1, FilesFound DEF Promised, FilesFound
    <2> QED BY <1>1, <2>1, <2>2, <2>3, <2>4, FilesFound DEF Sound, FilesFound
  <1>4. \A p \in Programs : pc[p] = "open" /\ writer # p
    BY MigrationConstants DEF Init, Nobody, MigrationConstants
  <1> QED BY <1>1, <1>2, <1>3, <1>4 DEF IInv, ChainInv

\* What holds of the file and the drafts when a step changes neither them nor
\* whose they are: the invariant is kept.
LEMMA IdleStep ==
    ASSUME IInv, NEW p \in Programs,
           pc[p] \notin {"begun", "chain"},
           UNCHANGED <<file, draft, writer, origin>>,
           NEW where \in {"open", "begin", "opened", "failed", "dead"},
           Goto(p, where),
           at' \in [Programs -> 0 .. CURRENT_SCHEMA_VERSION],
           \A q \in Programs \ {p} : at'[q] = at[q],
           reopens' \in 0 .. MaxReopens
    PROVE  IInv'
  <1>1. /\ pc' \in [Programs -> {"open", "begin", "begun", "chain", "opened",
                                 "failed", "dead"}]
        /\ pc'[p] = where
        /\ \A q \in Programs \ {p} : pc'[q] = pc[q]
    BY DEF IInv, TypeOK, Goto
  <1>2. TypeOK'
    BY <1>1 DEF IInv, TypeOK
  <1>3. \A q \in Programs : pc'[q] \in {"begun", "chain"} <=> writer' = q
    BY <1>1 DEF IInv
  <1>4. (\A q \in Programs : pc'[q] # "chain") => draft' = file'
    BY <1>1 DEF IInv
  <1>5. Sound(file, file.version)'
    BY DEF IInv, Sound, Kept, Promised, Audited
  <1>6. ASSUME NEW q \in Programs PROVE ChainInv(q)'
    <2>1. ChainInv(q)
      BY DEF IInv
    <2>2. CASE q = p
      BY <1>1, <2>2 DEF ChainInv
    <2>3. CASE q # p
      BY <1>1, <2>1, <2>3 DEF ChainInv, Sound, Kept, Promised, Audited
    <2> QED BY <2>2, <2>3
  <1> QED BY <1>2, <1>3, <1>4, <1>5, <1>6 DEF IInv

\* ROLLBACK, or the death of the writer: the draft is gone.
LEMMA AbandonedStep ==
    ASSUME IInv, NEW p \in Programs, writer = p,
           writer' = Nobody, draft' = file,
           UNCHANGED <<file, at, reopens, origin>>,
           NEW where \in {"failed", "dead"}, Goto(p, where)
    PROVE  IInv'
  <1>1. /\ pc' \in [Programs -> {"open", "begin", "begun", "chain", "opened",
                                 "failed", "dead"}]
        /\ pc'[p] = where
        /\ \A q \in Programs \ {p} : pc'[q] = pc[q]
    BY DEF IInv, TypeOK, Goto
  <1>2. TypeOK'
    BY <1>1 DEF IInv, TypeOK
  <1>3. \A q \in Programs : pc'[q] \notin {"begun", "chain"} /\ writer' # q
    BY <1>1, MigrationConstants DEF IInv, Nobody, MigrationConstants
  <1>4. Sound(file, file.version)'
    BY DEF IInv, Sound, Kept, Promised, Audited
  <1> QED BY <1>2, <1>3, <1>4 DEF IInv, ChainInv

\* A step of the writer on its draft.
LEMMA WriterStep ==
    ASSUME IInv, NEW p \in Programs, writer = p,
           UNCHANGED <<file, writer, reopens, origin>>,
           draft' \in Files,
           pc' \in [Programs -> {"open", "begin", "begun", "chain", "opened",
                                 "failed", "dead"}],
           pc'[p] = "chain", \A q \in Programs \ {p} : pc'[q] = pc[q],
           at' \in [Programs -> 0 .. CURRENT_SCHEMA_VERSION],
           ChainInv(p)'
    PROVE  IInv'
  <1>1. TypeOK'
    BY DEF IInv, TypeOK
  <1>2. \A q \in Programs : pc'[q] \in {"begun", "chain"} <=> writer' = q
    BY DEF IInv
  <1>3. Sound(file, file.version)'
    BY DEF IInv, Sound, Kept, Promised, Audited
  <1>4. ASSUME NEW q \in Programs, q # p PROVE ChainInv(q)'
    BY <1>2, <1>4 DEF ChainInv
  <1> QED BY <1>1, <1>2, <1>3, <1>4 DEF IInv
-----------------------------------------------------------------------------
LEMMA InvReadVersion ==
    ASSUME IInv, NEW p \in Programs, ReadVersion(p)
    PROVE  IInv'
  <1>1. /\ file.version \in Nat /\ Target[p] \in 0 .. CURRENT_SCHEMA_VERSION
        /\ at \in [Programs -> 0 .. CURRENT_SCHEMA_VERSION]
    BY MigrationConstants DEF IInv, TypeOK, Files, MigrationConstants
  <1>2. at' = [at EXCEPT ![p] = IF Downgrade(p, file.version) THEN at[p] ELSE file.version]
    BY DEF ReadVersion
  <1>3. at' \in [Programs -> 0 .. CURRENT_SCHEMA_VERSION]
    BY <1>1, <1>2 DEF Downgrade, CURRENT_SCHEMA_VERSION
  <1>4. \A q \in Programs \ {p} : at'[q] = at[q]
    BY <1>1, <1>2
  <1>5. reopens' \in 0 .. MaxReopens
    BY DEF IInv, TypeOK, ReadVersion
  <1> DEFINE where == IF Downgrade(p, file.version) THEN "failed"
                      ELSE IF file.version = Target[p] THEN "opened" ELSE "begin"
  <1>6. Goto(p, where) /\ where \in {"open", "begin", "opened", "failed", "dead"}
    BY DEF ReadVersion
  <1> HIDE DEF where
  <1> QED BY <1>3, <1>4, <1>5, <1>6, IdleStep DEF ReadVersion

LEMMA InvBegin ==
    ASSUME IInv, NEW p \in Programs, Begin(p)
    PROVE  IInv'
  <1>1. /\ pc' \in [Programs -> {"open", "begin", "begun", "chain", "opened",
                                 "failed", "dead"}]
        /\ pc'[p] = "begun"
        /\ \A q \in Programs \ {p} : pc'[q] = pc[q]
    BY DEF IInv, TypeOK, Begin, Goto
  <1>2. TypeOK'
    BY <1>1 DEF IInv, TypeOK, Begin
  <1>3. \A q \in Programs : pc[q] \notin {"begun", "chain"}
    BY MigrationConstants DEF IInv, Begin, Nobody, MigrationConstants
  <1>4. \A q \in Programs : pc'[q] \in {"begun", "chain"} <=> writer' = q
    BY <1>1, <1>3 DEF Begin
  <1>5. Sound(file, file.version)'
    BY DEF IInv, Begin, Sound, Kept, Promised, Audited
  <1> QED BY <1>1, <1>2, <1>3, <1>4, <1>5 DEF IInv, ChainInv, Begin

LEMMA InvRollBack ==
    ASSUME IInv, NEW p \in Programs, pc[p] \in {"begun", "chain"}, RollBack(p)
    PROVE  IInv'
  BY AbandonedStep DEF RollBack, IInv

LEMMA InvStatementFails ==
    ASSUME IInv, NEW p \in Programs, StatementFails(p)
    PROVE  IInv'
  <1>1. CASE /\ pc[p] = "begin" /\ Goto(p, "failed")
             /\ UNCHANGED <<file, draft, writer, at, reopens, origin>>
    BY <1>1, IdleStep DEF IInv, TypeOK
  <1>2. CASE pc[p] \in {"begun", "chain"} /\ RollBack(p)
    BY <1>2, InvRollBack
  <1> QED BY <1>1, <1>2 DEF StatementFails

LEMMA InvDetect ==
    ASSUME IInv, NEW p \in Programs, Detect(p)
    PROVE  IInv'
  <1> DEFINE found == IF draft.version = 0 THEN LegacyVersion(draft) ELSE draft.version
             legacy == draft.version = 0 /\ found = 1
             refused == \/ Downgrade(p, draft.version) \/ Downgrade(p, found)
                        \/ draft.version = 0 /\ Unsupported(draft)
                        \/ legacy /\ Conflict(draft, 1)
             n == Recorded([draft EXCEPT !.schema = @ \cup {Registry}], 1)
  <1>1. pc[p] = "begun" /\ writer = p
    BY DEF IInv, Detect
  <1>2. CASE refused
    BY <1>1, <1>2, InvRollBack DEF Detect
  <1>3. CASE ~refused
    <2>1. /\ at' = [at EXCEPT ![p] = found]
          /\ draft' = IF legacy THEN n ELSE draft
          /\ Goto(p, "chain")
          /\ UNCHANGED <<file, writer, reopens, origin>>
      BY <1>3 DEF Detect
    <2>2. /\ draft = file /\ draft \in Files /\ origin \in Files
          /\ Sound(draft, draft.version)
      <3>1. \A q \in Programs : pc[q] # "chain"
        BY <1>1 DEF IInv
      <3> QED BY <3>1 DEF IInv, TypeOK
    <2>3. /\ LegacyVersion(draft) \in {0, 1} /\ draft.version \in Nat
          /\ Target[p] \in 0 .. 3 /\ found <= Target[p] /\ draft.version <= found
      BY <1>3, <2>2, MigrationConstants
      DEF LegacyVersion, Files, Downgrade, MigrationConstants, CURRENT_SCHEMA_VERSION
    <2>4. /\ draft' \in Files /\ draft'.version = draft.version
          /\ Sound(draft', found)
      <3>1. CASE legacy
        <4>1. LegacyVersion(draft) = 1 /\ ~Unsupported(draft) /\ ~Conflict(draft, 1)
              /\ draft.version = 0
          BY <1>3, <3>1
        <4>2. n \in Files /\ n.version = draft.version /\ Sound(n, 1)
          BY <2>2, <4>1, LegacyIsSound
        <4> QED BY <2>1, <3>1, <4>2
      <3>2. CASE ~legacy
        <4>1. found = draft.version /\ draft' = draft
          BY <2>1, <2>3, <3>2
        <4> QED BY <2>2, <4>1
      <3> QED BY <3>1, <3>2
    <2>5. found = 0 => draft' = draft /\ ~Unsupported(draft)
      BY <1>3, <2>1, <2>3
    <2>6. at' \in [Programs -> 0 .. CURRENT_SCHEMA_VERSION] /\ at'[p] = found
      BY <2>1, <2>3 DEF IInv, TypeOK, CURRENT_SCHEMA_VERSION
    <2>7. /\ pc' \in [Programs -> {"open", "begin", "begun", "chain", "opened",
                                   "failed", "dead"}]
          /\ pc'[p] = "chain"
          /\ \A q \in Programs \ {p} : pc'[q] = pc[q]
      BY <2>1 DEF IInv, TypeOK, Goto
    <2> HIDE DEF found, n
    <2>8. ChainInv(p)'
      <3>1. Sound(draft, at[p])'
        BY <2>1, <2>4, <2>6 DEF Sound, Kept, Promised, Audited
      <3> QED BY <2>1, <2>2, <2>3, <2>4, <2>5, <2>6, <3>1 DEF ChainInv
    <2> QED BY <1>1, <2>1, <2>4, <2>6, <2>7, <2>8, WriterStep
  <1> QED BY <1>2, <1>3

LEMMA InvStep ==
    ASSUME IInv, NEW p \in Programs, Step(p)
    PROVE  IInv'
  <1> DEFINE v == at[p] + 1
             n == Recorded(Migrated(draft, v), v)
  <1>1. /\ pc[p] = "chain" /\ writer = p /\ ChainInv(p)
        /\ draft \in Files /\ origin \in Files
        /\ at \in [Programs -> 0 .. 3]
    BY DEF IInv, TypeOK, Step, CURRENT_SCHEMA_VERSION
  <1>2. CASE StepRaises(draft, v)
    BY <1>1, <1>2, InvRollBack DEF Step
  <1>3. CASE ~StepRaises(draft, v)
    <2>1. /\ draft' = n /\ at' = [at EXCEPT ![p] = v]
          /\ UNCHANGED <<file, writer, pc, reopens, origin>>
      BY <1>3 DEF Step
    <2>2. Target[p] \in 0 .. 3 /\ at[p] < Target[p] /\ at[p] \in 0 .. 3
          /\ file.version \in Nat
      BY <1>1, MigrationConstants
      DEF Step, MigrationConstants, CURRENT_SCHEMA_VERSION, IInv, TypeOK, Files
    <2>3. v \in Versions /\ v - 1 = at[p] /\ v <= Target[p]
      BY <2>2 DEF Versions, CURRENT_SCHEMA_VERSION
    <2>4. n \in Files /\ n.version = draft.version /\ Sound(n, v)
      <3>1. Sound(draft, v - 1) /\ (v = 1 => ~Unsupported(draft))
        BY <1>1, <2>3, <2>2 DEF ChainInv
      <3> HIDE DEF v
      <3> QED BY <1>1, <1>3, <2>3, <3>1, StepIsSound
    <2>5. at' \in [Programs -> 0 .. CURRENT_SCHEMA_VERSION] /\ at'[p] = v
      BY <1>1, <2>1, <2>2 DEF CURRENT_SCHEMA_VERSION
    <2>6. ChainInv(p)'
      <3>1. Sound(draft, at[p])'
        <4> HIDE DEF v, n
        <4> QED BY <2>1, <2>4, <2>5 DEF Sound, Kept, Promised, Audited
      <3>2. draft'.version = file'.version /\ file'.version <= v
        BY <1>1, <2>1, <2>2, <2>4 DEF ChainInv
      <3> QED BY <2>2, <2>3, <2>1, <2>5, <3>1, <3>2 DEF ChainInv
    <2> HIDE DEF v, n
    <2> QED BY <1>1, <2>1, <2>4, <2>5, <2>6, WriterStep DEF IInv, TypeOK
  <1> QED BY <1>2, <1>3

LEMMA InvCommit ==
    ASSUME IInv, NEW p \in Programs, Commit(p)
    PROVE  IInv' /\ file'.version >= file.version
  <1> DEFINE n == Versioned(p)
  <1>1. /\ pc[p] = "chain" /\ writer = p /\ at[p] = Target[p] /\ ChainInv(p)
        /\ draft \in Files /\ origin \in Files
        /\ file.version \in Nat /\ Target[p] \in Nat
    BY MigrationConstants
    DEF IInv, TypeOK, Commit, Files, MigrationConstants, CURRENT_SCHEMA_VERSION
  <1>2. /\ n \in Files /\ n.version = Target[p] /\ n.schema = draft.schema
        /\ n.ledger = draft.ledger /\ n.embedding = draft.embedding
        /\ n.dimension = draft.dimension /\ n.index = draft.index
    BY <1>1 DEF Versioned, Files
  <1>3. Target[p] = origin.version => n = origin
    <2>1. Target[p] = origin.version => draft = origin
      BY <1>1 DEF ChainInv, Sound
    <2> QED BY <1>1, <2>1 DEF Versioned, Files
  <1> HIDE DEF n
  <1>4. Sound(n, n.version)
    BY <1>1, <1>2, <1>3 DEF ChainInv, Sound, Kept, Promised, Audited, HasEmbeddings
  <1>5. /\ file' = n /\ draft' = n /\ writer' = Nobody /\ Goto(p, "opened")
        /\ UNCHANGED <<at, reopens, origin>>
    BY DEF Commit, n
  <1>6. Sound(file, file.version)'
    BY <1>4, <1>5 DEF Sound, Kept, Promised, Audited
  <1>7. /\ pc' \in [Programs -> {"open", "begin", "begun", "chain", "opened",
                                 "failed", "dead"}]
        /\ pc'[p] = "opened"
        /\ \A q \in Programs \ {p} : pc'[q] = pc[q]
    BY <1>5 DEF IInv, TypeOK, Goto
  <1>8. TypeOK'
    BY <1>2, <1>5, <1>7 DEF IInv, TypeOK
  <1>9. \A q \in Programs : pc'[q] \notin {"begun", "chain"} /\ writer' # q
    BY <1>1, <1>5, <1>7, MigrationConstants DEF IInv, Nobody, MigrationConstants
  <1>10. IInv'
    BY <1>5, <1>6, <1>8, <1>9 DEF IInv, ChainInv
  <1>11. file'.version >= file.version
    BY <1>1, <1>2, <1>5 DEF ChainInv
  <1> QED BY <1>10, <1>11

LEMMA InvCrash ==
    ASSUME IInv, NEW p \in Programs, Crash(p)
    PROVE  IInv'
  <1>1. CASE writer = p
    BY <1>1, AbandonedStep DEF Crash
  <1>2. CASE writer # p
    <2>1. pc[p] \notin {"begun", "chain"}
      BY <1>2 DEF IInv
    <2> QED BY <1>2, <2>1, IdleStep DEF Crash, IInv, TypeOK
  <1> QED BY <1>1, <1>2

LEMMA InvReopen ==
    ASSUME IInv, NEW p \in Programs, Reopen(p)
    PROVE  IInv'
  <1>1. reopens' \in 0 .. MaxReopens
    BY MigrationConstants DEF Reopen, IInv, TypeOK, MigrationConstants
  <1> QED BY <1>1, IdleStep DEF Reopen, IInv, TypeOK

LEMMA InvNext ==
    ASSUME IInv, [Next]_vars
    PROVE  IInv' /\ (file'.version >= file.version \/ UNCHANGED vars)
  <1>1. file.version \in Nat
    BY DEF IInv, TypeOK, Files
  <1>2. ASSUME NEW p \in Programs, ReadVersion(p)
        PROVE  IInv' /\ file' = file
    BY <1>2, InvReadVersion DEF ReadVersion
  <1>3. ASSUME NEW p \in Programs, Begin(p)
        PROVE  IInv' /\ file' = file
    BY <1>3, InvBegin DEF Begin
  <1>4. ASSUME NEW p \in Programs, Detect(p)
        PROVE  IInv' /\ file' = file
    BY <1>4, InvDetect DEF Detect, RollBack
  <1>5. ASSUME NEW p \in Programs, Step(p)
        PROVE  IInv' /\ file' = file
    BY <1>5, InvStep DEF Step, RollBack
  <1>6. ASSUME NEW p \in Programs, StatementFails(p)
        PROVE  IInv' /\ file' = file
    BY <1>6, InvStatementFails DEF StatementFails, RollBack
  <1>7. ASSUME NEW p \in Programs, Crash(p)
        PROVE  IInv' /\ file' = file
    BY <1>7, InvCrash DEF Crash
  <1>8. ASSUME NEW p \in Programs, Reopen(p)
        PROVE  IInv' /\ file' = file
    BY <1>8, InvReopen DEF Reopen
  <1>9. ASSUME UNCHANGED vars
        PROVE  IInv' /\ file' = file
    <2>1. TypeOK' /\ Sound(file, file.version)'
      BY <1>9 DEF IInv, vars, TypeOK, Sound, Kept, Promised, Audited
    <2>2. ASSUME NEW p \in Programs PROVE ChainInv(p)'
      BY <1>9 DEF IInv, vars, ChainInv, Sound, Kept, Promised, Audited
    <2> QED BY <1>9, <2>1, <2>2 DEF IInv, vars
  <1> QED BY <1>1, <1>2, <1>3, <1>4, <1>5, <1>6, <1>7, <1>8, <1>9, InvCommit
          DEF Next, Migrate

-----------------------------------------------------------------------------
\* What a file, a draft and every program are, and that the committed file and
\* every draft are sound, is inductive (SchemaMigrator.migrate).
THEOREM MigrationInvariant == Spec => []IInv
  <1> QED BY InvInit, InvNext, PTL DEF Spec

\* The committed file is the one that was found or one that a whole chain made:
\* a crash, an error or a race never shows a part of a migration.
THEOREM CommittedFileIsWhole == Spec => []FileIsWhole
  <1>1. IInv => FileIsWhole
    <2> SUFFICES ASSUME IInv PROVE FileIsWhole
      OBVIOUS
    <2>1. file.version \in Nat /\ origin.version \in Nat
      BY DEF IInv, TypeOK, Files
    <2> QED BY <2>1 DEF IInv, Sound, FileIsWhole
  <1> QED BY <1>1, MigrationInvariant, PTL

\* No migration changes an embedding, drops a column or rewrites an audit
\* record of the file that was found.
THEOREM StoredDataSurvives == Spec => []SourceSurvives
  <1>1. IInv => SourceSurvives
    BY DEF IInv, Sound, Kept, SourceSurvives
  <1> QED BY <1>1, MigrationInvariant, PTL

\* The version of the file never goes back, whichever releases race.
THEOREM VersionsOnlyGrow == Spec => NeverDowngraded
  <1>1. IInv /\ [Next]_vars => [file'.version >= file.version]_vars
    BY InvNext
  <1> QED BY <1>1, MigrationInvariant, PTL DEF Spec, NeverDowngraded
=============================================================================
