---------------------------- MODULE Serialization ----------------------------
(***************************************************************************)
(* StorageSerializer (experia/memory/serialization.py): records become     *)
(* rows and rows become records.                                           *)
(*                                                                         *)
(* A Python value is the name of a leaf ("int", "nan", ...) or a reference *)
(* into a heap of lists and dicts, so that containers may be shared and    *)
(* may contain themselves.  A JSON text is the tree it describes: a type   *)
(* and its members, each with a key (0 in a list and for a key that is no  *)
(* string).  A cell of a row is such a tree, or a leaf that names what     *)
(* the column holds.  Trees are no deeper than Depth.                      *)
(***************************************************************************)
EXTENDS Naturals, Sequences, Selections

CONSTANT Depth

StrictLeaves == {"none", "bool", "int", "str", "float"}
Leaf(type) == [type |-> type, items |-> <<>>]
Object == Leaf("dict")

\* A heap: no container has the name of a leaf, and a dict has a key once.
Items == Seq([key : Nat, value : STRING])
IsHeap(heap) ==
    /\ heap \in [DOMAIN heap -> [type : {"list", "dict"}, items : Items]]
    /\ IsFiniteSet(DOMAIN heap) /\ Cardinality(DOMAIN heap) <= Depth
    /\ DOMAIN heap \cap (StrictLeaves \cup {"nan"}) = {}
    /\ \A c \in DOMAIN heap : heap[c].type = "dict" =>
          \A i, j \in DOMAIN heap[c].items :
              heap[c].items[i].key = heap[c].items[j].key => i = j \/ heap[c].items[i].key = 0
-----------------------------------------------------------------------------
\* Mutant: a container is not removed from the set once it has been left.
StrictSeen(heap, v) ==
    LET strict[active \in SUBSET DOMAIN heap] == [c \in DOMAIN heap |->
            /\ c \notin active
            /\ \A i \in DOMAIN heap[c].items :
                 LET item == heap[c].items[i]
                     left == {heap[c].items[j].value : j \in 1 .. i - 1} \cap DOMAIN heap
                 IN /\ heap[c].type = "dict" => item.key # 0
                    /\ IF item.value \notin DOMAIN heap THEN item.value \in StrictLeaves
                       ELSE strict[active \cup {c} \cup left][item.value]]
    IN IF v \notin DOMAIN heap THEN v \in StrictLeaves ELSE strict[{}][v]

\* _validate_json_value: active is the set of containers being visited.
Strict(heap, v) ==
    LET strict[active \in SUBSET DOMAIN heap] == [c \in DOMAIN heap |->
            /\ c \notin active
            /\ \A i \in DOMAIN heap[c].items :
                 LET item == heap[c].items[i]
                 IN /\ heap[c].type = "dict" => item.key # 0
                    /\ IF item.value \notin DOMAIN heap THEN item.value \in StrictLeaves
                       ELSE strict[active \cup {c}][item.value]]
    IN IF v \notin DOMAIN heap THEN v \in StrictLeaves ELSE strict[{}][v]

\* json.dumps of a strict value: dictionaries are written in key order.  Of what
\* is nested too deeply, a cycle for one, it makes no text.
ByKey(items) ==
    LET places == Sorted(DOMAIN items, {p \in (DOMAIN items) \X (DOMAIN items) :
                                           items[p[1]].key < items[p[2]].key})
    IN [k \in DOMAIN places |-> items[places[k]]]
Dumped(heap, v) ==
    LET dumped[n \in 0 .. Depth] == [c \in DOMAIN heap |->
            IF n = 0 THEN Leaf("circular")
            ELSE LET items == heap[c].items
                     written == [i \in DOMAIN items |->
                         [key |-> items[i].key,
                          value |-> IF items[i].value \notin DOMAIN heap
                                    THEN Leaf(items[i].value)
                                    ELSE dumped[n - 1][items[i].value]]]
                 IN [type |-> heap[c].type,
                     items |-> IF heap[c].type = "dict" THEN ByKey(written) ELSE written]]
    IN IF v \notin DOMAIN heap THEN Leaf(v) ELSE dumped[Depth][v]

\* What json.loads takes here: no constants such as NaN, no repeated keys.
Repeats(items) == \E i, j \in DOMAIN items : i # j /\ items[i].key = items[j].key
ReadableTrees[n \in 0 .. Depth] ==
    {Leaf(type) : type \in StrictLeaves} \cup
    (IF n = 0 THEN {}
     ELSE LET readable == Seq([key : Nat, value : ReadableTrees[n - 1]])
          IN [type : {"list"}, items : readable] \cup
             {tree \in [type : {"dict"}, items : readable] : ~Repeats(tree.items)})
Readable(tree) == tree \in ReadableTrees[Depth]
-----------------------------------------------------------------------------
\* The columns in the order they are converted; "plain" ones are left to the
\* model class, which validates them after all the others.
Columns ==
    [experiences |-> << <<"id", "uuid">>, <<"context", "mapping">>,
                        <<"created_at", "timestamp">>, <<"task", "plain">> >>,
     lessons |-> << <<"id", "uuid">>, <<"experience_id", "uuid">>,
                    <<"created_at", "timestamp">>, <<"content", "plain">> >>,
     memories |-> << <<"id", "uuid">>, <<"type", "type">>, <<"metadata", "mapping">>,
                     <<"embedding", "embedding">>, <<"reinforcement_count", "count">>,
                     <<"created_at", "timestamp">>, <<"updated_at", "timestamp">>,
                     <<"expires_at", "expiry">>, <<"content", "plain">> >>]
Fields(table) == {Columns[table][i][1] : i \in DOMAIN Columns[table]}
Kind(table, f) == Columns[table][CHOOSE i \in DOMAIN Columns[table] :
                                     Columns[table][i][1] = f][2]
FirstField(table, bad) ==
    IF bad = {} THEN "none"
    ELSE LET i == CHOOSE i \in DOMAIN Columns[table] :
                      /\ Columns[table][i][1] \in bad
                      /\ \A j \in 1 .. i - 1 : Columns[table][j][1] \notin bad
         IN Columns[table][i][1]

\* _encode_timestamp, _encode_json
Encodable(heap, kind, v) ==
    /\ kind \in {"timestamp", "expiry"} => v # "naive"
    /\ kind \in {"mapping", "embedding"} => Strict(heap, v)
\* Mutant: None is NULL in every column.
NullForNone(heap, kind, v) ==
    IF v = "none" THEN Leaf("null")
    ELSE IF kind \in {"mapping", "embedding"} THEN Dumped(heap, v) ELSE Leaf(v)

EncodedCell(heap, kind, v) ==
    IF kind = "mapping" \/ (kind = "embedding" /\ v # "none") THEN Dumped(heap, v)
    ELSE IF v = "none" THEN Leaf("null") ELSE Leaf(v)

\* encode_experience, encode_lesson, encode_memory: the first field that
\* cannot be encoded, or the row.
Encode(heap, table, record) ==
    LET bad == {f \in Fields(table) : ~Encodable(heap, Kind(table, f), record[f])}
    IN [error |-> FirstField(table, bad),
        row |-> IF bad # {} THEN <<>>
                ELSE [f \in Fields(table) |-> EncodedCell(heap, Kind(table, f), record[f])]]

\* _decode_uuid, _decode_memory_type, _decode_timestamp, _decode_json
FloatVector(tree) == /\ tree.type = "list"
                     /\ \A i \in DOMAIN tree.items : tree.items[i].value.type = "float"
Decodable(kind, cell) ==
    \/ kind \in {"plain", "count"}
    \/ kind \in {"mapping", "embedding", "expiry"} /\ cell.type = "null"
    \/ kind = "uuid" /\ cell.type = "uuid"
    \/ kind = "type" /\ cell.type = "lesson"
    \/ kind \in {"timestamp", "expiry"} /\ cell.type = "aware"
    \/ kind = "mapping" /\ Readable(cell) /\ cell.type \in {"dict", "none"}
    \/ kind = "embedding" /\ Readable(cell) /\ (cell.type = "none" \/ FloatVector(cell))

\* NULL in a row of an earlier release stands for a default.
DecodedCell(kind, cell) ==
    IF cell.type # "null" THEN cell
    ELSE IF kind = "mapping" THEN Object
    ELSE IF kind = "count" THEN Leaf("zero") ELSE Leaf("none")

\* decode_experience, decode_lesson, decode_memory: an error names the first
\* column that cannot be converted, or the record if a plain one is not valid.
Decode(table, row) ==
    LET bad == {f \in Fields(table) : ~Decodable(Kind(table, f), row[f])}
        invalid == \E f \in Fields(table) :
                       Kind(table, f) = "plain" /\ row[f].type = "null"
    IN [error |-> IF bad # {} THEN FirstField(table, bad)
                  ELSE IF invalid THEN "record" ELSE "none",
        record |-> IF bad # {} \/ invalid THEN <<>>
                   ELSE [f \in Fields(table) |-> DecodedCell(Kind(table, f), row[f])]]

\* EncodedMemory.embedding_dimension, a column of its own.
EmbeddingDimension(row) ==
    IF row.embedding.type = "null" THEN "null" ELSE Len(row.embedding.items)
-----------------------------------------------------------------------------
\* What a record has in a field of each kind.
OfKind(heap, kind, v) ==
    \/ kind = "plain" /\ v = "text"
    \/ kind = "count" /\ v \in {"zero", "int"}
    \/ kind = "uuid" /\ v = "uuid"
    \/ kind = "type" /\ v = "lesson"
    \/ kind = "timestamp" /\ v \in {"aware", "naive"}
    \/ kind = "expiry" /\ v \in {"none", "aware", "naive"}
    \/ kind \in {"mapping", "embedding"} /\ v = "none"
    \/ kind = "mapping" /\ v \in DOMAIN heap /\ heap[v].type = "dict"
    \/ /\ kind = "embedding" /\ v \in DOMAIN heap /\ heap[v].type = "list"
       /\ \A i \in DOMAIN heap[v].items : heap[v].items[i].value \in {"float", "nan"}
IsRecord(heap, table, record) ==
    /\ table \in DOMAIN Columns
    /\ \A f \in Fields(table) : OfKind(heap, Kind(table, f), record[f])

\* What a strict value is, said of the graph of its containers: none of them
\* reaches itself, and all that is reached is a string key or a JSON value.
Closed(heap, S) ==
    \A c \in S : \A i \in DOMAIN heap[c].items :
        heap[c].items[i].value \in DOMAIN heap => heap[c].items[i].value \in S
Reached(heap, v) ==
    {c \in DOMAIN heap : \A S \in SUBSET DOMAIN heap : v \in S /\ Closed(heap, S) => c \in S}
IsJson(heap, v) ==
    IF v \notin DOMAIN heap THEN v \in StrictLeaves
    ELSE \A c \in Reached(heap, v) : \A i \in DOMAIN heap[c].items :
             LET item == heap[c].items[i]
             IN /\ heap[c].type = "dict" => item.key # 0
                /\ IF item.value \notin DOMAIN heap THEN item.value \in StrictLeaves
                   ELSE c \notin Reached(heap, item.value)

\* serialization.py: "JSON is canonical and rejects non-standard numbers and
\* lossy Python containers".  A container that is shared is no cycle.
ValidatesJson(heap, v) == Strict(heap, v) <=> IsJson(heap, v)

\* The record a row stands for: dictionaries are equal whatever their order.
Meaning(heap, kind, v) ==
    IF kind \in {"mapping", "embedding"} THEN Dumped(heap, v) ELSE Leaf(v)
\* A record that was accepted for a write is read back as it was, and a write
\* is refused with the field that is to blame, before a transaction begins.
WritesReadBack(heap, table, record) ==
    LET written == Encode(heap, table, record)
        read == Decode(table, written.row)
    IN IF written.error # "none"
       THEN LET v == record[written.error] IN v = "naive" \/ ~IsJson(heap, v)
       ELSE /\ read.error = "none"
            /\ \A f \in Fields(table) :
                   read.record[f] = Meaning(heap, Kind(table, f), record[f])
=============================================================================
