------------------------------- MODULE Ranking -------------------------------
(***************************************************************************)
(* RetrievalEngine.search (experia/memory/retrieval.py) on one state of    *)
(* the table: filters, eligibility, the order of results, the bounded      *)
(* ranker, and the paths with and without candidates of the vector index.  *)
(* What other tasks do to the table between two statements is the matter   *)
(* of VectorIndex.                                                         *)
(*                                                                         *)
(* A row has the similarity it would have to the query (NaN if its vector  *)
(* is degenerate) and the dimension of its embedding, None without one;    *)
(* expires is the time to its expiry, 0 at the start of the query and      *)
(* Never if it has none.  Timestamps are of one time zone.                 *)
(***************************************************************************)
EXTENDS Integers, Sequences, SequencesExt, FiniteSets, Selections

None == -1
Never == 99
NaN == 77
NoCandidates == <<0>>

Rows == [id: Nat, type: STRING, role: STRING, text: STRING, expires: Int, dimension: Int,
         similarity: Int, importance: Int, confidence: Int, created: Int]
RetrievalQueries == [limit: Nat, type: STRING, role: STRING, text: STRING, dimension: Int,
                     expired: BOOLEAN]
\* The id is the primary key; the index has bands of embedded memories only.
IsTable(rows) ==
    rows \in Seq(Rows) /\ \A i, j \in DOMAIN rows : rows[i].id = rows[j].id => i = j
OfEmbedded(candidates, rows) ==
    \A i \in DOMAIN candidates, m \in Range(rows) :
        m.id = candidates[i] => m.dimension # None

\* memory_is_eligible
OfRole(m, q) == \/ q.role = "" \/ m.role = q.role
                \/ m.role = "global" /\ m.type = "strategy"
Eligible(m, q) == /\ q.type \in {"", m.type}
                  /\ OfRole(m, q)
                  /\ q.expired \/ m.expires = Never \/ m.expires > 0

\* _source_filters
Filtered(m, q, text) == /\ q.type \in {"", m.type}
                        /\ OfRole(m, q)
                        /\ text => q.text \in {"", m.text}

\* _memory_rank_key: 0.75 * similarity + 0.25 * importance, times four.
Score(m, q) ==
    IF q.dimension = None THEN 0
    ELSE IF m.dimension = None THEN m.importance
    ELSE IF m.similarity = NaN THEN -100 ELSE 3 * m.similarity + m.importance
RankKey(m, q) == <<Score(m, q), m.importance, m.confidence, m.created, -m.id>>
Above(j, k) == \E i \in DOMAIN j : j[i] > k[i] /\ \A h \in 1 .. i - 1 : j[h] = k[h]
Beats(m, n, q) == Above(RankKey(m, q), RankKey(n, q))

\* Mutant: the new memory takes the place of whichever came last.
AddOverLast(q, kept, m) ==
    IF q.limit = 0 THEN kept
    ELSE IF Len(kept) < q.limit THEN Append(kept, m)
    ELSE IF Beats(m, Last(kept), q) THEN Append(Front(kept), m) ELSE kept

\* _BoundedMemoryRanker.add
Add(q, kept, m) ==
    LET worst == CHOOSE i \in DOMAIN kept :
                     \A j \in DOMAIN kept \ {i} : ~Beats(kept[i], kept[j], q)
    IN IF q.limit = 0 THEN kept
       ELSE IF Len(kept) < q.limit THEN Append(kept, m)
       ELSE IF Beats(m, kept[worst], q) THEN [kept EXCEPT ![worst] = m] ELSE kept
\* rank_memories: the heap after the first rows, and results.
Kept(q, rows) ==
    LET kept[i \in 0 .. Len(rows)] ==
            IF i = 0 THEN <<>> ELSE Add(q, kept[i - 1], rows[i])
    IN kept[Len(rows)]
RankMemories(q, rows) ==
    LET heap == Kept(q, rows)
        places == DOMAIN heap
        order == Sorted(places, {p \in places \X places :
                                     Beats(heap[p[1]], heap[p[2]], q)})
    IN [k \in DOMAIN order |-> heap[order[k]]]

\* _is_dimension_mismatch
Mismatch(m, q) == q.dimension # None /\ m.dimension \notin {None, q.dimension}
Usable(m, q) == Eligible(m, q) /\ ~Mismatch(m, q)

\* _stream_exact
StreamExact(q, rows) ==
    RankMemories(q, InOrder(rows, {i \in DOMAIN rows :
        Filtered(rows[i], q, q.dimension = None) /\ Usable(rows[i], q)}))

\* _rank_indexed_candidates: the first ids of the index, each once.
Cut(s, n) == SubSeq(s, 1, IF Len(s) < n THEN Len(s) ELSE n)
Loaded(candidates, budget) == Cut(Unique(candidates), budget)

\* _add_unembedded_candidates: in the order of its ORDER BY.
SqlKey(m) == <<m.importance, m.confidence, m.created, -m.id>>
Unembedded(q, rows, budget) ==
    LET found == {m \in Range(rows) :
                     Filtered(m, q, FALSE) /\ m.dimension = None /\ Eligible(m, q)}
    IN Cut(Sorted(found, {p \in found \X found : Above(SqlKey(p[1]), SqlKey(p[2]))}), budget)
RankIndexed(q, rows, candidates, budget) ==
    LET ids == Loaded(candidates, budget)
        loaded == InOrder(rows, {i \in DOMAIN rows :
                      rows[i].id \in Range(ids) /\ Usable(rows[i], q)})
    IN RankMemories(q, loaded \o Unembedded(q, rows, budget - Len(ids)))

\* search
Search(q, rows, candidates, budget) ==
    IF q.limit = 0 THEN <<>>
    ELSE IF q.dimension = None \/ candidates = NoCandidates THEN StreamExact(q, rows)
    ELSE RankIndexed(q, rows, candidates, budget)

\* The memories a search reports as left out for their dimension.
Diagnosed(q, rows, candidates, budget) ==
    LET indexed == candidates # NoCandidates
        ids == Range(Loaded(candidates, budget))
    IN IF q.limit = 0 \/ q.dimension = None THEN {}
       ELSE {m \in Range(rows) : /\ Eligible(m, q) /\ Mismatch(m, q)
                                 /\ indexed => m.id \in ids \/ Filtered(m, q, FALSE)}

\* most_similar: the last of the best candidates that reach the threshold.
MostSimilar(similarities, threshold) ==
    FoldLeft(LAMBDA best, i :
                 IF similarities[i] >= (IF best = 0 THEN threshold ELSE similarities[best])
                 THEN i ELSE best,
             0, [i \in DOMAIN similarities |-> i])
-----------------------------------------------------------------------------
\* retrieval.py: "Return at most limit memories in the documented total
\* order".  Whichever path a search takes, what it returns is eligible, in
\* order and without repetition; it is as long as the limit and the rows in
\* reach allow; and no row in reach that it left out beats one it returned.
\* Without candidates every row is in reach, and with them the rows of the
\* first ids up to the budget and as many without an embedding as it leaves.
InReach(q, rows, candidates, budget) ==
    LET usable == {m \in Range(rows) : Usable(m, q)}
        ids == {candidates[i] : i \in {j \in DOMAIN candidates :
                    Cardinality({candidates[h] : h \in 1 .. j}) <= budget}}
        plain == {m \in usable : m.dimension = None}
        ahead(m) == {n \in plain : Beats(n, m, q)}
    IN IF q.dimension = None THEN {m \in usable : q.text \in {"", m.text}}
       ELSE IF candidates = NoCandidates THEN usable
       ELSE {m \in usable : m.id \in ids}
            \cup {m \in plain : Cardinality(ahead(m)) < budget - Cardinality(ids)}
SearchIsExact(q, rows, candidates, budget) ==
    LET found == Search(q, rows, candidates, budget)
        reach == InReach(q, rows, candidates, budget)
    IN /\ Range(found) \subseteq reach
       /\ \A i, j \in DOMAIN found : i < j => Beats(found[i], found[j], q)
       /\ Len(found) = IF Cardinality(reach) < q.limit THEN Cardinality(reach) ELSE q.limit
       /\ \A m \in Range(found), n \in reach \ Range(found) : ~Beats(n, m, q)

\* An embedded row is never left out in silence: a search reports every
\* eligible memory whose vector it could not compare.
OmissionsAreReported(q, rows, candidates, budget) ==
    q.limit > 0 /\ q.dimension # None =>
        {m \in Range(rows) : Eligible(m, q) /\ ~Usable(m, q)}
            \subseteq Diagnosed(q, rows, candidates, budget)
=============================================================================
