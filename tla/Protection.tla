----------------------------- MODULE Protection -----------------------------
(***************************************************************************)
(* DataProtectionLayer (experia/security/protection.py) and the four       *)
(* components that hand protected data to a language model: LLMEvaluator,  *)
(* LiteLLMEmbedder, ReflectionEngine and RuleGenerator.                    *)
(*                                                                         *)
(* A value is a leaf with what it holds, or a container with members under *)
(* keys, nested no deeper than Depth (Python's recursion has an end too).  *)
(* What a leaf holds is a raw text, its clean form at some path, or an     *)
(* object that JSON cannot hold.                                           *)
(* A sanitizer is an application's: it raises for some leaves, answers     *)
(* what JSON cannot hold for others, and else answers a clean one that     *)
(* depends on where the leaf stands.                                       *)
(***************************************************************************)
EXTENDS Naturals, Sequences

CONSTANT Depth

Leaf(name) == [kind |-> "leaf", name |-> name, members |-> <<>>]
Container(kind, members) == [kind |-> kind, name |-> <<>>, members |-> members]
NoSanitizer == [present |-> FALSE, raises |-> {}, spoils |-> {}]
Raw(text) == <<"raw", text, <<>>>>
Clean(text, path) == <<"clean", text, path>>
Object(text) == <<"object", text, <<>>>>
Empty == Leaf(<<>>)

\* The values of a payload: Nested[n] has those with at most n containers
\* around a leaf.
Components == [key : STRING, index : {0}] \cup [key : {"index"}, index : Nat]
Paths == Seq(Components)
Contents == ({"raw", "object"} \X STRING \X {<<>>}) \cup ({"clean"} \X STRING \X Paths)
Leaves == [kind : {"leaf"}, name : Contents, members : {<<>>}]
Kinds == {"dict", "model", "list", "tuple", "set"}
Nested[n \in 0 .. Depth] ==
    IF n = 0 THEN Leaves
    ELSE Leaves \cup [kind : Kinds, name : {<<>>},
                      members : Seq([key : STRING, value : Nested[n - 1]])]
Values == Nested[Depth]

\* _sanitize on the copy of one leaf.
Sanitized(name, path, sanitizer) ==
    IF ~sanitizer.present THEN name
    ELSE IF name[2] \in sanitizer.spoils THEN Object(name[2]) ELSE Clean(name[2], path)

\* _path_component: the key, or the index where members have no keys.
Component(v, i) == IF v.kind \in {"dict", "model"} THEN [key |-> v.members[i].key, index |-> 0]
                   ELSE [key |-> "index", index |-> i]

\* Mutant: a tuple is copied as it is.
CopiedButTuples(v, path, sanitizer) ==
    LET copied[w \in Values] == [p \in Paths |->
            IF w.kind = "leaf" THEN [w EXCEPT !.name = Sanitized(@, p, sanitizer)]
            ELSE IF w.kind = "tuple" THEN w
            ELSE [w EXCEPT !.members = [i \in DOMAIN @ |->
                     [key |-> w.members[i].key,
                      value |-> copied[w.members[i].value][Append(p, Component(w, i))]]]]]
    IN copied[v][path]

\* _copy_value, _copy_model: containers are rebuilt, leaves sanitized.
Copied(v, path, sanitizer) ==
    LET copied[w \in Values] == [p \in Paths |->
            IF w.kind = "leaf" THEN [w EXCEPT !.name = Sanitized(@, p, sanitizer)]
            ELSE [w EXCEPT !.members = [i \in DOMAIN @ |->
                     [key |-> w.members[i].key,
                      value |-> copied[w.members[i].value][Append(p, Component(w, i))]]]]]
    IN copied[v][path]

RaisesOn(sanitizer, type) == sanitizer.present /\ type \in sanitizer.raises
\* The sanitizer raises on some leaf.
Raises(v, sanitizer) ==
    LET raises[w \in Values] ==
            IF w.kind = "leaf" THEN RaisesOn(sanitizer, w.name[2])
            ELSE \E i \in DOMAIN w.members : raises[w.members[i].value]
    IN raises[v]

\* json.dumps with sort_keys: no sets and no models, no keys that are neither
\* text nor number, and not both of these in one object.
Sortable(keys) == "object" \notin keys /\ ("1" \in keys => keys = {"1"})
Serializable[v \in Values] ==
    IF v.kind = "leaf" THEN v.name[1] # "object"
    ELSE /\ v.kind \in {"dict", "list", "tuple"}
         /\ v.kind = "dict" => Sortable({v.members[i].key : i \in DOMAIN v.members})
         /\ \A i \in DOMAIN v.members : Serializable[v.members[i].value]

\* protect_sink: both structures or neither.
Refused(operation) == [error |-> operation, fields |-> Empty, metadata |-> Empty]
ProtectSink(fields, metadata, sanitizer) ==
    LET external == Copied(fields, <<>>, sanitizer)
        logged == Copied(metadata, <<>>, sanitizer)
    IN IF Raises(fields, sanitizer) THEN Refused("external_request")
       ELSE IF Raises(metadata, sanitizer) THEN Refused("log_metadata")
       ELSE IF ~Serializable[external] THEN Refused("external_request")
       ELSE IF ~Serializable[logged] THEN Refused("log_metadata")
       ELSE [error |-> "none", fields |-> external, metadata |-> logged]
-----------------------------------------------------------------------------
\* One call of a provider: what was sent and logged, whether a memory was
\* saved, what was returned and what was raised.
Silent == [sent |-> Empty, logged |-> Empty, saved |-> FALSE,
           returned |-> "nothing", raised |-> "none"]
Failed(outcome) == [outcome EXCEPT !.raised = "EvaluationError"]
Returned(outcome, what) == [outcome EXCEPT !.returned = what]
Remembered(outcome) == [Returned(outcome, "memory") EXCEPT !.saved = TRUE]

\* evaluate(): the answer must be JSON of the schema; none at all is None.
Evaluated(outcome, answer) ==
    IF answer = "lesson" THEN Returned(outcome, "lesson")
    ELSE IF answer = "no content" THEN outcome ELSE Failed(outcome)

\* embed()
Embedded(outcome, answer) ==
    IF answer = "vectors" THEN Returned(outcome, "vectors") ELSE Failed(outcome)

\* Mutant: the memory is returned although it could not be saved.
DistilledAnyway(outcome, answer, stores) ==
    IF answer \in {"NONE", "blank"} THEN outcome
    ELSE IF answer # "text" THEN Failed(outcome)
    ELSE [Returned(outcome, "memory") EXCEPT !.saved = stores]

\* reflect() and consolidate_lesson() once they have an answer.
Distilled(outcome, answer, stores) ==
    IF answer \in {"NONE", "blank"} THEN outcome
    ELSE IF answer = "text" /\ stores THEN Remembered(outcome) ELSE Failed(outcome)

\* consolidate_lesson() turns every failure of that into None.
Swallowed(outcome) == [outcome EXCEPT !.raised = "none", !.returned = "nothing"]

Answered(provider, outcome, answer, stores) ==
    IF provider = "LLMEvaluator" THEN Evaluated(outcome, answer)
    ELSE IF provider = "LiteLLMEmbedder" THEN Embedded(outcome, answer)
    ELSE LET distilled == Distilled(outcome, answer, stores)
         IN IF provider = "RuleGenerator" /\ distilled.raised # "none"
            THEN Swallowed(distilled) ELSE distilled

\* A call: nothing to do without texts or experiences; protection stands
\* outside the try block, so its error reaches every caller.
Call(provider, fields, metadata, sanitizer, answer, stores) ==
    LET protected == ProtectSink(fields, metadata, sanitizer)
        begun == [Silent EXCEPT !.sent = protected.fields, !.logged = protected.metadata]
    IN IF provider \in {"LiteLLMEmbedder", "ReflectionEngine"} /\ fields.members = <<>>
       THEN Silent
       ELSE IF protected.error # "none"
       THEN [Silent EXCEPT !.raised = "SanitizationError"]
       ELSE Answered(provider, begun, answer, stores)

\* SimpleHeuristicEvaluator.evaluate: by the words found in the result.
HeuristicConfidence(words) ==
    IF words \cap {"fail", "error"} # {} THEN 6
    ELSE IF "success" \in words THEN 8 ELSE 0
-----------------------------------------------------------------------------
\* The leaves of a value with their paths.
LeavesAt[v \in Values] == [path \in Paths |->
    IF v.kind = "leaf" THEN {<<path, v.name>>}
    ELSE UNION {LeavesAt[v.members[i].value][Append(path, Component(v, i))] :
                i \in DOMAIN v.members}]

\* protection.py: request and metadata are "copied, recursively protected, and
\* proven JSON serializable before either can reach a side-effecting sink".
\* Whatever the sanitizer does: what is sent and what is logged hold the clean
\* form of every leaf at its own place and nothing else, or neither leaves.
NothingRawLeaves(provider, fields, metadata, sanitizer, answer, stores) ==
    LET call == Call(provider, fields, metadata, sanitizer, answer, stores)
        CleanOf(v) == {<<leaf[1], IF sanitizer.present THEN Clean(leaf[2][2], leaf[1])
                                  ELSE leaf[2]>> : leaf \in LeavesAt[v][<<>>]}
        left == call.sent # Empty \/ call.logged # Empty
    IN /\ left => /\ LeavesAt[call.sent][<<>>] = CleanOf(fields)
                  /\ LeavesAt[call.logged][<<>>] = CleanOf(metadata)
                  /\ Serializable[call.sent] /\ Serializable[call.logged]
       /\ call.raised = "SanitizationError" => ~left /\ ~call.saved

\* A memory is returned exactly when it was saved; a provider that gives
\* nothing and raises nothing was told so, had nothing to send, or is the
\* rule generator, whose failures must not fail an evaluation.
ReturnsWhatItSaved(provider, fields, metadata, sanitizer, answer, stores) ==
    LET call == Call(provider, fields, metadata, sanitizer, answer, stores)
    IN /\ call.returned = "memory" <=> call.saved
       /\ call.raised # "none" => call.returned = "nothing"
       /\ call.returned = "nothing" /\ call.raised = "none" =>
            \/ answer \in {"no content", "NONE", "blank"}
            \/ fields.members = <<>>
            \/ provider = "RuleGenerator"
=============================================================================
