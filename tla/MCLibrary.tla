------------------------------ MODULE MCLibrary ------------------------------
(* Bounded inputs for every part of the library: small values of every      *)
(* kind the code tells apart, and every combination of them.                *)
EXTENDS Library, Integers, TLC

UpTo(n, S) == UNION {[1 .. k -> S] : k \in 0 .. n}

\* Heaps of two containers of up to two members, which may be one another.
Members(keys) == UpTo(2, [key: keys, value: {"c1", "c2", "int", "nan"}])
Distinct(items) == Len(items) = 2 => items[1].key # items[2].key
Containers == {[type |-> "list", items |-> s] : s \in Members({0})}
    \cup {[type |-> "dict", items |-> s] : s \in {m \in Members({0, 1, 2}) : Distinct(m)}}
TheJsonValues == {[heap |-> [c1 |-> c, c2 |-> d], value |-> "c1"] :
                     c \in Containers, d \in Containers}

Item(k, v) == [key |-> k, value |-> v]
List(items) == [type |-> "list", items |-> items]
Dict(items) == [type |-> "dict", items |-> items]
Heap == [nested |-> Dict(<<Item(2, "shared"), Item(1, "shared")>>),
         shared |-> List(<<Item(0, "int"), Item(0, "none")>>),
         empty |-> Dict(<<>>), cycle |-> Dict(<<Item(1, "cycle")>>),
         keyed |-> Dict(<<Item(0, "int")>>), infinite |-> Dict(<<Item(1, "nan")>>),
         vector |-> List(<<Item(0, "float"), Item(0, "float")>>),
         broken |-> List(<<Item(0, "float"), Item(0, "nan")>>)]
Mappings == {"none", "nested", "empty", "cycle", "keyed", "infinite"}
TheRecords ==
    {[heap |-> Heap, table |-> "experiences", record |->
        [id |-> "uuid", context |-> c, created_at |-> t, task |-> "text"]] :
        c \in Mappings, t \in {"aware", "naive"}}
    \cup {[heap |-> Heap, table |-> "lessons", record |->
        [id |-> "uuid", experience_id |-> "uuid", created_at |-> t, content |-> "text"]] :
        t \in {"aware", "naive"}}
    \cup {[heap |-> Heap, table |-> "memories", record |->
        [id |-> "uuid", type |-> "lesson", metadata |-> c, embedding |-> v,
         reinforcement_count |-> n, created_at |-> t, updated_at |-> "aware",
         expires_at |-> e, content |-> "text"]] :
        c \in Mappings, v \in {"none", "vector", "broken"}, n \in {"zero", "int"},
        t \in {"aware", "naive"}, e \in {"none", "aware", "naive"}}

\* Payloads of leaves and of one container of every kind; four sanitizers.
Plain(t) == Protector!Leaf(Protector!Raw(t))
Inner == {Plain(t) : t \in {"a", "b"}}
    \cup {Protector!Container(k, <<Item("x", Plain("a")), Item("y", Plain("b"))>>) :
          k \in {"dict", "list", "tuple", "set", "model"}}
    \cup {Protector!Container("dict", <<Item(k, Plain("a")), Item("1", Plain("b"))>>) :
          k \in {"x", "object"}}
Payloads == {Protector!Container("dict", <<>>)}
    \cup {Protector!Container("dict", <<Item("p", v), Item("q", w)>>) : v, w \in Inner}
TheRequests ==
    [provider: {"LLMEvaluator", "LiteLLMEmbedder", "ReflectionEngine", "RuleGenerator"},
     fields: Payloads,
     metadata: {Protector!Container("dict", <<Item("model", v)>>) :
                    v \in {Plain("b"), Plain("c")}},
     sanitizer: {Protector!NoSanitizer} \cup
                [present: {TRUE}, raises: {{}, {"a"}, {"c"}}, spoils: {{}, {"b"}}],
     answer: {"raises", "no content", "blank", "NONE", "text", "lesson", "vectors"},
     stores: BOOLEAN]

\* Up to three memories; budgets around the sizes of what they make.
Memories == {<<>>, <<"x">>, <<"x", "x", "angle">>, <<"newline", "end", "newline">>, <<"nan">>}
Budgets == {Builder!NoBudget}
    \cup [unit: {"characters"}, amount: {0, 5, 7, 8, 9, 13, 14, 15, 20, 23, 40},
          counter: {"none"}]
    \cup [unit: {"tokens"}, amount: {0, 1, 2, 9, 15},
          counter: {"none", "length", "data", "merging", "fails on end"}]
ThePrompts == [budget: Budgets, memories: UpTo(3, Memories)]

\* Conversations of up to four messages, with a question before them or not.
Messages ==
    {Graph!Message("human", c, <<>>, "") : c \in {"", "task"}}
    \cup {Graph!Message("ai", "", calls, "") : calls \in
            {<<>>, <<"i">>, <<"i", "j">>, <<"i", "i">>, <<Graph!NoId, Graph!NoId>>,
             <<"i", Graph!NoId>>}}
    \cup {Graph!Message("tool", "out", <<>>, id) : id \in {"i", "j", Graph!NoId, Graph!BadId}}
    \cup {Graph!Message("tool", "", <<>>, id) : id \in {"i", Graph!NoId}}
TheConversations ==
    UpTo(3, Messages) \cup {<<Graph!Message("human", "task", <<>>, "")>> \o m :
                               m \in [1 .. 4 -> Messages]}

\* Tables of up to three rows of the sorts a query tells apart.
Row(type, role, expires, dimension, similarity, importance) ==
    [type |-> type, role |-> role, expires |-> expires, dimension |-> dimension,
     similarity |-> similarity, importance |-> importance, confidence |-> 1,
     created |-> importance % 2, text |-> IF importance = 0 THEN "t" ELSE "u"]
Rows == {Row("lesson", "a", 99, 1, 1, 0), Row("lesson", "b", 99, 1, 0, 3),
         Row("strategy", "global", 99, 1, 0, 3), Row("rule", "global", 99, -1, 0, 2),
         Row("lesson", "a", 0, 1, 1, 4), Row("lesson", "a", 1, -1, 0, 3),
         Row("lesson", "a", 99, 2, 0, 1), Row("rule", "a", 99, 1, 77, 4)}
Tables == {[i \in DOMAIN t |-> [id |-> i] @@ t[i]] : t \in [1 .. 3 -> Rows]}
Embedded(rows, ids) == ids = Engine!NoCandidates
    \/ \A i \in DOMAIN ids : rows[ids[i]].dimension # Engine!None
TheQueries == {q \in
    [query: {[limit |-> l, type |-> "", role |-> r, dimension |-> d, expired |-> x,
              text |-> "t"] : l \in {0, 1, 2}, r \in {"", "a"}, d \in {-1, 1},
                              x \in BOOLEAN},
     rows: Tables,
     candidates: {Engine!NoCandidates, <<>>, <<2, 2, 1>>, <<3, 1, 2>>},
     budget: {1, 2, 4}] : Embedded(q.rows, q.candidates)}

\* Signatures in the order Python allows, the old one with names in order.
Kinds == <<"positional_only", "positional_or_keyword", "var_positional",
           "keyword_only", "var_keyword">>
Rank(p) == CHOOSE i \in DOMAIN Kinds : Kinds[i] = p.kind
Parameters(names) ==
    {p \in [name: names, kind: {Kinds[i] : i \in DOMAIN Kinds}, required: BOOLEAN,
            default: {"d"}, annotation: {{"int"}}] :
        p.kind \in {"var_positional", "var_keyword"} => ~p.required}
Legal(s) == \A i, j \in DOMAIN s : i < j =>
    /\ Rank(s[i]) <= Rank(s[j]) /\ s[i].name # s[j].name
    /\ Rank(s[i]) = Rank(s[j]) => Rank(s[i]) \notin {3, 5}
    /\ Rank(s[j]) <= 2 => (s[j].required => s[i].required)
Ordered(s) == \A i \in DOMAIN s : s[i].name = <<"a", "b", "c">>[i]
TheSignatures ==
    [old: {s \in UpTo(2, Parameters({"a", "b"})) : Legal(s) /\ Ordered(s)},
     new: {s \in UpTo(3, Parameters({"a", "b", "c"})) : Legal(s)}]

\* An export with a member and an enum with a value, deprecated or not, and what
\* may become of them in the next minor and the next major release.
Undeprecated == [deprecated |-> FALSE, since |-> Gate!Version(0, 0),
                 replacement |-> Gate!None, message |-> Gate!None]
Deprecated(minor) == [deprecated |-> TRUE, since |-> Gate!Version(0, minor),
                      replacement |-> "N", message |-> "N"]
Parent(p) == IF p = "A.m" THEN "A" ELSE IF p = "B.v" THEN "B" ELSE Gate!None
Node(p, d) == [shape |-> IF p = "B.v" THEN Gate!EnumValue ELSE "class", callable |-> FALSE, signature |-> <<>>, value |-> "",
               parent |-> Parent(p), deprecation |-> d]
Snapshot(v, paths, D) == [version |-> v, nodes |-> [p \in paths |-> Node(p, D[p])]]
AllPaths == {"A", "A.m", "B", "B.v"}
Lives == {Undeprecated, Deprecated(5), Deprecated(6)}
Guides == UpTo(2, [path: {"A", "A.m", "B"}, replacement: {"N", "O"}])
TheReleases ==
    {[old |-> Snapshot(Gate!Version(0, 7), AllPaths, D),
      new |-> Snapshot(v, paths, D), guide |-> g] :
        D \in {D \in [AllPaths -> Lives] : D["B.v"] = Undeprecated},
        v \in {Gate!Version(0, 6), Gate!Version(0, 8), Gate!Version(1, 0)},
        paths \in {q \in SUBSET AllPaths : ("A.m" \in q => "A" \in q) /\ ("B.v" \in q => "B" \in q)}, g \in Guides}
=============================================================================
