------------------------------- MODULE Library -------------------------------
(***************************************************************************)
(* The parts of Experia that compute an answer and keep no state: what     *)
(* each of them returns for each input of a bounded set is compared with   *)
(* a definition of what it should be.  A behaviour is one use of one part. *)
(***************************************************************************)
EXTENDS Naturals, Sequences

CONSTANTS
    Depth,          \* of nested data, at most
    JsonValues,     \* a heap and a value in it, for the encoder
    Records,        \* a table, a heap and a record to be written
    Requests,       \* a provider's call: data, sanitizer, answer, store
    Prompts,        \* a budget and memories
    Conversations,  \* messages of a LangGraph state
    Queries,        \* a query, the rows, candidates of the index, a budget
    Signatures,     \* two signatures of one callable
    Releases        \* two snapshots and a migration guide

Serializer == INSTANCE Serialization
Protector == INSTANCE Protection
Builder == INSTANCE PromptContext
Graph == INSTANCE ToolResults
Engine == INSTANCE Ranking
Gate == INSTANCE ReleaseGates

\* A value is in a heap, and a record has what the model class let through; a
\* request is of nested data; a prompt is made of memories; conversations hold
\* messages; a query meets a table, and candidates of an index that has embedded
\* memories only; signatures are Python's; a member's export is in its snapshot,
\* and the older snapshot has passed the gate at its own release.
ASSUME DepthIsNatural == Depth \in Nat
ASSUME JsonValuesOfHeaps == \A x \in JsonValues : Serializer!IsHeap(x.heap)
ASSUME RecordsOfModels ==
    \A x \in Records : /\ Serializer!IsHeap(x.heap)
                       /\ Serializer!IsRecord(x.heap, x.table, x.record)
ASSUME RequestsOfValues ==
    \A x \in Requests : x.fields \in Protector!Values /\ x.metadata \in Protector!Values
ASSUME PromptsOfMemories ==
    \A x \in Prompts : x.memories \in Seq(Seq(Builder!Atoms))
ASSUME ConversationsOfMessages == Conversations \subseteq Seq(Graph!Messages)
ASSUME QueriesOfTables ==
    \A x \in Queries :
        /\ x.query \in Engine!RetrievalQueries /\ x.budget \in Nat
        /\ Engine!IsTable(x.rows) /\ x.candidates \in Seq(Nat)
        /\ x.candidates # Engine!NoCandidates => Engine!OfEmbedded(x.candidates, x.rows)
ASSUME SignaturesOfPython ==
    \A x \in Signatures : Gate!IsSignature(x.old) /\ Gate!IsSignature(x.new)
ASSUME ReleasesOfSnapshots ==
    \A x \in Releases : /\ x.guide \in Seq(Gate!Entries)
                        /\ Gate!IsSnapshot(x.old) /\ Gate!IsSnapshot(x.new)
                        /\ Gate!DeprecationIssues(x.old) = {}

VARIABLES
    part,           \* the part in use
    input           \* what it was given

vars == <<part, input>>

Init == part = "none" /\ input = <<>>
Use(name, x) == part' = name /\ input' = x

Next ==
    /\ part = "none"
    /\ \/ \E x \in JsonValues : Use("json", x)
       \/ \E x \in Records : Use("record", x)
       \/ \E x \in Requests : Use("request", x)
       \/ \E x \in Prompts : Use("prompt", x)
       \/ \E x \in Conversations : Use("conversation", x)
       \/ \E x \in Queries : Use("query", x)
       \/ \E x \in Signatures : Use("signature", x)
       \/ \E x \in Releases : Use("release", x)
Spec == Init /\ [][Next]_vars
-----------------------------------------------------------------------------
\* The encoder takes exactly the values that are JSON (shared containers but
\* no cycles, string keys, finite numbers), and what is written reads the same.
RecordsReadBack ==
    /\ part = "json" => Serializer!ValidatesJson(input.heap, input.value)
    /\ part = "record" =>
           Serializer!WritesReadBack(input.heap, input.table, input.record)

\* Nothing leaves a provider but the clean form of what it was given.
NothingRaw ==
    part = "request" => Protector!NothingRawLeaves(input.provider, input.fields,
        input.metadata, input.sanitizer, input.answer, input.stores)

\* A provider returns the memory it saved, and fails where it can be seen.
SavedIsReturned ==
    part = "request" => Protector!ReturnsWhatItSaved(input.provider, input.fields,
        input.metadata, input.sanitizer, input.answer, input.stores)

\* A prompt is within its budget, of whole blocks, and has all that fits; no
\* memory can write a line that looks like a marker of the builder.
PromptsAreBounded ==
    part = "prompt" => /\ Builder!PromptIsBounded(input.budget, input.memories)
                       /\ Builder!OnlyOwnMarkers(input.budget, input.memories)

\* What a LangGraph node learns are the answers to the calls they stand under.
GroupsAreWhole == part = "conversation" => Graph!LearnsWholeGroups(input)

\* A search returns the best of what is in its reach, and reports every
\* embedded memory it could not compare.
SearchesAreExact ==
    part = "query" =>
        /\ Engine!SearchIsExact(input.query, input.rows, input.candidates, input.budget)
        /\ Engine!OmissionsAreReported(input.query, input.rows, input.candidates,
                                       input.budget)

\* A signature that passes the comparison accepts every call it used to.
CallsAreKept == part = "signature" => Gate!CallsSurvive(input.old, input.new)

\* A path is removed under a greater major only, with notice and a guide.
RemovalsAnnounced ==
    part = "release" => Gate!RemovalsAreAnnounced(input.old, input.new, input.guide)
=============================================================================
