# Verification of experia

experia (Python, asyncio) records what an agent did, evaluates it in background
jobs, keeps lessons and memories in SQLite and retrieves them for later
prompts. This directory holds TLA+ models of its core, the TLC runs that check
them, and TLAPS proofs. `PROJECT.json` lists every run, the source lines behind
every definition, one mutation of the code's behaviour per property, the
hazards and the theorems. Paths below are relative to `experia/`.

## 1. Inventory

| component | state | operations | hard behaviour | correct when |
|---|---|---|---|---|
| Work manager `core/work.py` | job records, child index, generation tags, OPEN/DRAINING/CANCELLING/CLOSED | `submit`, `cancel`, `wait`, `flush`, `shutdown`, `prune_terminal`, `retain_for_flush`, `release_flush_generation`; done-callbacks of tasks and observers | callbacks run after the task they belong to; flushes overlap; children arrive late; callers are cancelled | a flush or shutdown ends only when all it owes has ended, nothing owed is pruned, an outcome is final |
| Learner `core/learner.py`, `improvement/rules.py` | none of its own; drives manager, store, evaluator, embedder | `record`, `remember`, `flush`, `shutdown`, `aclose`, `reinforce`, `prune`, `reflect`, `retrieve_context` | a shutdown between two awaits of `record`; find-then-insert; jobs that wait for jobs | an experience is saved before it is evaluated, a lesson has its memory, a flush covers what was asked |
| SQLite store `memory/store.py`, `memory/transactions.py` | connection, leases, close task, write lock, tables | `initialize`, `close`, saves, reads, feedback | one connection for all tasks; cancelled statements; a failing COMMIT; close next to everything | saves are atomic and truthfully reported, close waits for leases |
| Vector index `memory/vector_index.py` | bands per memory, status row with version and cursor | `maintain_memory`, `rebuild`, `candidate_ids`, `status` | batches interleaved with saves, crashes, two rebuilds, another release's index | ready means complete; the cursor covers what it passed |
| Retrieval `memory/retrieval.py` | none | `search` | index state read before the query that uses it; heap and budget at their limits | a ready index loses no match a scan would find; the answer is the best of what is in reach, what was left out is reported |
| Migrations `memory/migrations.py` | schema version, audit ledger | `migrate` | several programs and releases race; a step fails or the process dies; layouts from before versions existed | all or nothing, nothing stored is lost, no version goes back |
| LangChain `integrations/langchain/`, `_dispatch.py`, `_candidates.py` | run registry: chains, tools, parents | callback handlers | callbacks late, repeated, missing, out of order, under shutdown | one event per run, and a true one; no run lost |
| Serialisation `memory/serialization.py` | none | encode, decode | containers that are shared or contain themselves, legacy NULLs | what is written reads back, what JSON has not is refused |
| Data protection `security/protection.py` and the model providers (evaluators, embedder, reflection, rules) | none | `protect_sink`; one call of a provider | a sanitizer, the copy or the encoding fails half way; the provider answers anything | nothing raw leaves; what is returned was saved |
| Prompt context `context/builder.py` | none | `build_prompt` | the counter is the application's and need not add up | within budget, whole blocks, no forged markers |
| LangGraph `integrations/langgraph/` | none | learning and context node | results with and without ids, missing, repeated, of an earlier turn | a node learns the results of the calls they answer |
| Release gates `scripts/api_compatibility.py`, `changelog_gate.py` | none | `compare_snapshots`, migration-guide check | a signature is judged parameter by parameter | old calls still bind; a removal is announced |
| Events, retriever wrapper, support code, stubs, other release scripts | none | - | none | see section 9 |

Interactions: integrations call the Learner; the Learner submits jobs to its
work manager and calls the store from callers and jobs alike; the store runs
transactions on one connection, in which saves maintain the vector index;
retrieval reads that connection without the write lock. Serialiser, protection,
prompt builder and ranking are called by these and keep no state. Everything in a process
runs on one asyncio event loop: code between two awaits is atomic, and what
interleaves is tasks, done-callbacks and the connection's thread.

## 2. Modules

| module | models | note |
|---|---|---|
| `WorkManager` | `AsyncWorkManager` | one action per piece of code between two awaits |
| `WorkContract` | what callers of the manager rely on | abstract specification: jobs get one outcome, promises are kept |
| `WorkManagerRefinement` | - | refinement mapping; `ImplementsContract` is checked by a run |
| `WorkManagerProofs` | - | the TLAPS proofs about `WorkManager`, in two parts: the registry, and that no later flush repeats a report |
| `WorkContractProofs` | - | the proof that `WorkManager` implements `WorkContract` |
| `Learner` | the Learner | instantiates `WorkContract` for its manager, so no detail of the registry is repeated |
| `LearnerProofs` | - | the TLAPS proofs about `Learner` |
| `Store` | store, transaction manager, and aiosqlite/SQLite as an external thread per connection | |
| `StoreProofs` | - | the TLAPS proofs about `Store` |
| `VectorIndex` | the index, the saves and prunes that maintain it, rebuilds, searches | statements of one transaction at a time over `disk` and `draft` |
| `VectorIndexProofs` | - | the TLAPS proofs about `VectorIndex` |
| `LangChain` | run registry, handlers, dispatch, and the Learner's answer to a record | |
| `LangChainProofs` | - | the TLAPS proofs about `LangChain` |
| `Migrations` | `SchemaMigrator`: several programs of several releases on one file | a step of a chain is atomic on a draft nobody else sees |
| `MigrationsProofs` | - | the TLAPS proofs about `Migrations` |
| `Serialization`, `Protection`, `PromptContext`, `ToolResults`, `Ranking`, `ReleaseGates` | the parts that compute an answer | operators translated from the code, each beside a reference definition of what the answer should be |
| `Library` | a use of one of these parts | composes them: an input is chosen, the invariants compare |
| `Selections` | - | list comprehensions, `sorted()` and `dict.fromkeys()` by what they return; shared by `Ranking`, `ReleaseGates`, `PromptContext` and `Serialization` |
| `LibraryProofs` | - | the TLAPS proofs about the LangGraph extraction, retrieval, the prompt builder, protection and providers, the encoder of the store, and the gates of a release |
| `MC*` | - | the values TLC checks with |

### How state and actions correspond to the code

*WorkManager.* `records` is `_records`, `children` `_children`, `mgr` `_state`;
`job[j]` is a `JobRecord` with the state of its task and its observer task. A
task passes through `scheduled`, `running`, `observing`, `returned` or
`cancelled`, and `settled` once its done-callback has run; so the window in
which a task has ended and `_on_task_done` has not run, where half of the
hazards live, is explicit. `flush[g]` is one `flush()` call or the shutdown
task, whose `awaiting` is the `gather` it is in; `Rescan` is another turn of
its loop. `accepted_sequence` names jobs. `owed` and `prior` are history: the
jobs open at a cutoff and those earlier flushes had reported by then; no guard
reads them.

*Learner.* A job's `pc` says which await its body is in; `manager` is the
state of `WorkContract`. `config` holds the constructor's arguments, chosen in
`Init`. A transaction of the store is one step here because `Store` shows that
saves are atomic. `asked` is history.

*Store.* A task awaits one statement at a time; `wire[c]` is the queue of
connection `c`'s thread, in which a cancelled task leaves its statement;
`file` is what a restarted process would find, so an invariant on it is an
invariant over crashes. `lockq` is the FIFO `asyncio.Lock`; a released lock is
handed to the first waiter at once, where asyncio lets it wake up first. No
task takes the lock without queueing while others wait, so this hides nothing.

*VectorIndex.* `disk` is committed, `draft` what the transaction `txn` sees; a
step is one writing statement. A save writes one memory and maintains its
bands; `rebuild()` is a first transaction, then one per batch, then a sweep
with the final check. `steady` is history: the memories no one changed while a
search ran. Bands are abstracted to the version they were made by, and a
memory to whether its bands share one with the query.

*LangChain.* `active` and `parent` are the registry's two maps; a run is a
chain id with the number of its registration, so reused ids are told apart.

*Migrations.* `file` is what is committed, `draft` what the transaction of
`writer` sees: `BEGIN IMMEDIATE` makes one program the writer. `pc[p]` is where
program `p` is in `migrate()`, `at[p]` the version it read, then the one its
chain has reached. A schema is a set of tables and columns, some of them of a
partly written layout; an embedding is its length, malformed or absent, since
that is what the dimension step tells apart. `origin` is history: the file that
was found.

*Library.* The parts keep nothing, so a behaviour is one use. What matters is
the set of inputs, which `MCLibrary` builds so that every branch of the code is
taken: a heap of two containers that may hold each other, every place at which
a sanitizer can fail, counters that do not add up, conversations of every kind
of message, rows that tie, signatures of every kind of parameter.

## 3. Runs

| run | question | instance | distinct states |
|---|---|---|---|
| `wm_registry` | Do tags, inheritance, pruning and the child index keep what the manager promises? | 2 jobs with observers, `cancel()`, `prune_terminal()`, 2 generations (two flushes, or a flush and a drain) + 1 of a direct caller | 1.9M |
| `wm_live` | Does everything end, and does every step refine `WorkContract`? | 2 jobs with observers, 2 generations, callers that are cancelled, either policy | 137k |
| `wm_lost_outcome` | *finding 1* | 1 job, 1 generation | violation |
| `ln_records` | Order of save and evaluation, lessons and memories, what flush covers, drain, cancel, `aclose`, and that all comes to rest | 2 callers that record, remember and flush, with 2 contents on 2 sorts of learner and with 1 on a third; a caller and a callback under a shutdown in both evaluation modes; failing store, evaluator, embedder and sanitizer, `aclose()` interrupted | 1.0M |
| `ln_rejected_write` | *finding 3* | 1 caller, a drain | violation |
| `st_store` | Saves under failures, cancellation and close | 2 writers of 2 rows, a reader, an initializer, 2 closers, 1 fault, 2 cancellations | 252k |
| `st_two_connections` | *finding 2* | 2 initializers, 1 closer | violation |
| `vi_index` | Index against saves, prunes, failures, two rebuilds and a search | 2 memories, batches of 1, 2 writes, 1 fault | 779k |
| `vi_dirty_read` | *finding 4* | no save; search on the writer's connection | violation |
| `lc_runs` | Registry of runs against callbacks in any order | 2 chains registered twice, 1 tool, both modes | 122k |
| `mg_chain` | One file under several programs and releases | 2 current programs and 1 of an earlier release, every file one may find, 2 memories, failures and crashes, 1 more opening each | 94k |
| `library` | Do the parts without state return what they should? | every member of a bounded set of inputs for each part | 307k |

Bounds and why they suffice. Two jobs are a parent and its child or two
strangers, each in every stage of its life with its observer; that a chain of
jobs or more generations adds nothing is not left to the bound: the theorems of
section 6 hold for every number of both. Two generations give every overlap the
code distinguishes (earlier, overlapping, shutdown). `wm_registry` drains only,
because its size does not allow more; the cancelling policy, hanging bodies and
cancelled callers are in `wm_live`. Two callers with the same or different
contents are what deduplication can tell apart; who calls `flush()` in
`ln_records` does not shut the learner down, so that both scenarios fit. Two
rows make a save divisible, and the second cancellation is the one that can hit
a rollback. In `vi_index` a batch of one memory of two leaves a rebuild between
batches with work on both sides of the cursor; the budget and the limit are
small enough to be exhausted. Two registrations of a chain id are what it takes
to confuse a late callback. Three programs in `mg_chain` are a race of two of
one release and one that finds a file newer than itself. `MaxJobs`, `MaxGens`,
`AppFlushes`, `MaxFaults`, `MaxCancels`, `MaxWrites`, `MaxStarts` and
`MaxReopens` are bounds of the models, not of the code. So is `Depth`: payloads are nested at
most that deep, and a heap has at most that many containers. The inputs of
`library` need no more than 2 for the payloads, each container in each other,
and 8 for the heap of the records; a cycle of two containers, a shared one and
one left before it is met again are all the validator can confuse. No run uses
symmetry: several check liveness, and ids are ordered.

`CHECK_DEADLOCK FALSE` stands where a behaviour may be over: every job has
ended and the bound on calls is reached, or every callback was delivered. The
Store runs check deadlock; their `Finished` step is allowed only when all tasks
have ended.

## 4. Fairness

* `WorkManager`: `LoopFairness` is weak fairness of every step the event loop
  owes (a ready task, a scheduled callback, a gather that is over), job by job.
  `ObserverFairness` says that observers end. `BodyFairness` says that bodies
  end by themselves, except under a cancelling shutdown, where they may hang
  until they are cancelled: it is weak fairness of finishing when the policy is
  not CANCEL or the cancellation has been requested. Nothing is fair about new
  submissions, flushes or cancellations.
* `Learner`: weak fairness of the union `GoesOn`: while anything that has begun
  (a call, a job, a shutdown) can go on, something does. It rests on what
  `wm_live` shows of the manager and on evaluator, embedder and store answering,
  in time or with an error. Each begun call has finitely many steps, so the
  union is enough, and it assumes no order among tasks. New calls of `record`,
  `shutdown` and `aclose` are never forced.
* `Store`: the connection's thread answers and tasks resume. The write lock is
  a queue, so no fairness of the lock is assumed.
* `VectorIndex`: statements of the open transaction are answered (WF). A batch
  has strong fairness because the write lock (an asyncio FIFO lock inside a
  process, `BEGIN IMMEDIATE` with a busy timeout between processes) is
  requested by every transaction and released between them; weak fairness would
  let saves overtake a rebuild for ever.
* `Migrations`: strong fairness of each program's steps; the file's only lock is
  released by every transaction, and SQLite's busy handler retries for it.
* `Library`: none, nothing takes time.
* `LangChain`: records and the shutdown progress; callbacks are never forced.

## 5. Findings

1. `wm_lost_outcome`, `core/work.py:352`. A cancelled `flush()` caller
   (`asyncio.wait_for`) releases its generation while jobs still run and marks
   them for pruning; if one then fails it is pruned at once and nobody ever
   reports it, against API_REFERENCE.md:200 and the comment at work.py:465.
2. `st_two_connections`, `memory/store.py:109`. Two concurrent `initialize()`
   calls open two connections; one is never closed, against store.py:43.
3. `ln_rejected_write`, `core/learner.py:119`. A shutdown that begins while
   `record()` saves makes it raise `LifecycleError` with the experience
   written, against API_REFERENCE.md:201.
4. `vi_dirty_read`, `memory/vector_index.py:390`. A search shares the
   connection with a forced rebuild and reads its uncommitted DELETE under a
   state that still says ready: an empty answer where the exact scan is
   promised (vector_index.py:105, retrieval.py:157). `vi_index` shows that
   with a connection of its own (`Shared = FALSE`) the algorithm is right.

Met while modelling, without a run of their own:

* Near duplicates are found in one transaction and inserted in another
  (learner.py:258), so two concurrent evaluations store two copies
  (CHANGELOG.md:46 says that they are reinforced).
* `consolidate_lesson` swallows every failure (rules.py:103) and the job ends
  as a success; API_REFERENCE.md:200 has failures reported.
* `aclose(close_store=True)` closes the store in its finally clause, also when
  its caller is cancelled while the shutdown waits for jobs, and when
  `shutdown()` raises before it has done anything (a policy that is none,
  another event loop: work.py:365). Jobs then run on a closed store and fail
  there, against API_REFERENCE.md:185, by which `aclose` performs the order "so
  no evaluation job races the connection close". Both are actions of the model
  (`AcloseCancelled`, `AcloseRefused`). `ln_records` shows that they are the
  only ways to get there (`StoreOutlivesJobs`), and that all comes to rest
  even so (`EverybodyEnds`).
* A second `initialize()` in one process reads the version outside the write
  lock on the connection of the first, and may return on a version that one then
  rolls back (migrations.py:315, API_REFERENCE.md:182). Programs with connections
  of their own are not exposed: `mg_chain`.
* A legacy file stamped with version 1 gets no indexes when its target is 1.
* `find_similar_memory` looks only at the best ranked candidate (store.py:382),
  and ranking blends importance in, so a duplicate above the threshold can be
  missed behind a less similar, more important memory.
* An exact stream on the writer's connection may rank a row twice that a save
  replaces meanwhile (retrieval.py:350); so may a search through the index rank
  twice a row that is saved again without an embedding between the query for
  candidates and the one for the rest (retrieval.py:264).
* `compare_snapshots` has no objection to two changes that old calls notice,
  although within a major "accepted signatures must remain compatible"
  (api_compatibility.py:124, API_REFERENCE.md:225), since each parameter passes
  by itself (api_compatibility.py:296). A keyword-only parameter may become
  positional in front of others, or before `*args`: old positional arguments
  then go to the wrong one (`TakesPlaces`). And where there is `**kwargs`, a
  parameter may take the name of a keyword that it collected (`TakesKeywords`):
  the argument goes elsewhere, or, when a positional-only parameter can now be
  named, the call is refused.
  `CallsAreKept` is an equivalence: a comparison without an issue keeps all
  calls exactly if neither change was made. Of the 1874 pairs of signatures in
  `library` that pass the comparison 79 make the first change and 60 the second,
  and of each of them some call is not kept.
* A value of an enum that is removed under a greater major needs no entry in the
  migration guide: the comparison within a major knows the values
  (api_compatibility.py:247), the list of removed paths does not
  (changelog_gate.py:384).
* The gate does not notice that the `since` of a deprecation is rewritten to an
  earlier release, which shortens the window.
* A migration guide with two records for one path passes if the last is right.
* A cancelled record emits no integration event, and a chain whose end callback
  never comes stays registered.

## 6. Proofs

Eight modules hold proofs. `WorkManagerProofs` proves for every number of jobs and
generations, every policy and every switch, from `BoundsAssumption`, `SwitchAssumption` and
`ExtGensAssumption`: `TypeOK`, `ReportComplete`, `OwedRetained`,
`ShutdownCovers`, `ClosedQuiescent`, `ChildIndexExact` and `OutcomeIsFinal`.

The argument. `ReportComplete` is not inductive: that a report holds all it
owes needs that owed jobs stay registered and tagged while a generation waits
(`OwedRetained`), which needs that only terminal, untagged records are pruned
and that a tag belongs to a waiting generation (`RegistryInv`,
`GenerationInv`); `ClosedQuiescent` needs `ShutdownCovers` and where the
shutdown's generation is in its life (`ShutdownInv`). `IInv` is their
conjunction. Most actions only move one job along or prune: `QuietStep` states
what these have in common, each is shown to be one, and `QuietPreserves` shows
the invariant once. Submission and the actions on generations are taken one by
one; those that only add or remove tags share `TagStepPreserves` and
`GenerationStepPreserves`. `ChildIndexExact` and `OutcomeIsFinal` follow from
`IInv` with an argument of their own.

The second part of the module proves `NoDoubleReport`. A flush leaves out what a prior
generation owns, but its traversal enters every child of what it takes, and the
records of what was reported may still be registered; that the traversal meets
none of them needs the shape of what the earlier flush `h` took. `Sealed` is
that shape: up to some job `c` generation `h` took or left owned everything, and
beyond `c` it has only descendants of what it has. Then the records beyond `c`
that are not its own are closed under children and hold all that nobody owns, so
they hold every later capture (`CaptureUnreported`). `c` is the last job accepted
at the cutoff; `OwnedKept` (what is owned stays owned, since whoever takes a tag
away leaves the prune mark) keeps the seal through every other step.

`VectorIndexProofs` proves `ReadyIsComplete` and `CursorCovers` for every
number of memories, rebuilds, writes and failures and every batch size, from
`VectorIndexSizes` and `RebuildNames`. Both speak of committed states; alone
they are not inductive, since a transaction breaks them between its statements.
`IInv` says that a draft keeps them except for the memories it has still to
maintain (`Covered(draft, txn.todo)`), that a batch below its last memory is
done but for those (`BatchInv`), that bands belong to embedded memories
(`Derived`), and that rebuilds loop only over an index of the current version.
The step that needs an argument is the start of a batch: what is at most its
last id and not in it lies at or before the cursor, because the first n members
of a set are closed downwards (`FirstOfDownward`).

`SearchFindsNear` is proved there for searches on a connection of their own
(`~ Shared`). The hypothesis is needed: on the transaction's connection a search
reads rows that are rolled back, and `vi_dirty_read` shows what it then misses.
`SearchInv` says for each stage of a search what has become of a memory that
stayed as it was: it is among the ids read from the index, or those are the
budget; it is among the rows ranked, or better ones
fill the limit. The first holds
because a ready index covers the memories (`ReadyIsComplete`), the second because
ranking one row more drops only the last (`RankedKeeps`). That a leading part of
a set has as many members as it should (`FirstOfCount`, `LeadersCount`) would be
an induction; it is shown by a least counterexample instead (`LeastNumber`).

`WorkContractProofs` proves that `WorkManager` implements `WorkContract`
(`ManagerKeepsItsContract`) for every number of jobs and generations, from
`IInv` and one fact more: who has not called owes nothing. The initial states
map to the contract's, and each step maps to a step of the contract or changes
nothing callers see. Most steps are stutters: starting, observing, callbacks,
pruning and tags are the registry's own business, and `SameOutcomes` and
`SamePromises` say so once. What maps to the contract's steps is acceptance, a
job's outcome, the begin of a call and its end; that a call ends only on
settled jobs is `ReportComplete`'s invariant at work, that nothing is accepted
below an ended job during a close is the guard of `Accepts`.

`MigrationsProofs` proves `FileIsWhole`, `SourceSurvives` and `NeverDowngraded`
for every set of programs, releases, memories and start files, from
`MigrationConstants` and `FilesFound` (what a file may be at first: the states
the code itself produces or recognises). `Sound(db, v)` is what a database
whose chain has reached `v` owes to the file of the beginning; the invariant
says that the file is sound at its version, a draft at the version its writer
has reached (`ChainInv`), and that without a chain the draft is the file. One lemma per step of
the chain, one for the detection of a legacy layout.

`LangChainProofs` proves `RegistryConsistent` and `ToldTruthfully` for every set
of chains and tools, every number of registrations of an id and every order of
callbacks, from `LangChainSwitches` and `ChainNames`. The first needs that what
has finished has a result, since the guard on the result is what keeps a tool
from finishing twice (`ChainAgrees`); every callback changes one chain, and
`OneChainChanges` leaves only that chain to show. The second needs where each
registration is in its life: those to come and the one in the registry are
untouched (`FreshRuns`), and nothing is told while the Learner works on a record
(`TellsOnce`), so a run popped from the registry can be told about once.
`RunsAreHandedOver`, the action half of `RunsAreNotLost`, needs beside them that
a chain in the registry has been registered at least once (`CountInv`). A run
leaves the registry only when its own chain ends (`OnlyEndsConsume`), into a
record the Learner has accepted or with word that there is no experience in it.

`StoreProofs` proves `TransactionsDoNotMix` and `SavesAreAtomic` for every set
of tasks, every number of rows, failures and cancellations and any number of
connections, from `StoreBounds`, `StoreTasks` (a task runs one operation, the
close task none) and `StoreRows` (the rows of a save are new, and a file with
rows of an earlier life has the schema). The hard case is
the cancelled save: its statement, and perhaps its rollback, stay in the queue
of the connection while the lock goes on to the next save. `WireInv` says why
they stay apart all the same. Who awaits a statement of a transaction holds the
lock, so nothing of another transaction is behind that statement; who was
answered `ok` in one has nothing of another in front either, because the queue
is first in, first out; hence an INSERT or COMMIT about to run is its owner's.
`SaveInv` ties the queue to the rows: an open transaction holds rows of its owner
alone, and all rows the owner has been through (`RowsWritten`), so a COMMIT is
sent with the whole save in the transaction. `SendStep`, `ThreadStep` and
`CancelStep` (`SaveSend`, `SaveThread`, `SaveCancel`) state once what sending,
executing and abandoning a statement keep; one lemma per group of actions
applies them. Without the lock in `MayBegin` the proof fails at `Begin`, with a
`LastPart` that commits early at the COMMIT of `TransactionStep`.

The same module proves what callers are told and how the store closes.
`OutcomesAreTruthful` rests on `OutcomeInv`: a save that knows of no commit
(`Untold`) has no row in the file, and no COMMIT that it gave up is in a queue;
a cancelled COMMIT leaves that state, since it may still take effect. `LeaseInv`
counts the leases: `active` is the number of operations between their lease and
their end, the close task goes on at none, and afterwards none begins
(`ClosesWhenDrained`).

`ClosedForGood`, `SingleConnection` and `CancellationIsContained` are proved for
stores that at most one task initializes (`OneInitializer`). The hypothesis is
needed: with two tasks `SingleConnection` is false, and `st_two_connections`
shows how. `SingleInv` says where the one connection is: the store's until the
native close has answered. Whatever cancelled tasks have left is in front of the
CLOSE in its queue, so nothing is written after it. `CancellationIsContained` is
the largest proof. A BEGIN fails inside an open transaction, so each transaction
must have been ended, in the order of the queue, before the next begins
(`Ordered`, and `Over` when no task is in one: `CalmInv`); an INSERT fails on a
row that is there, so the rows a save has yet to write are nowhere (`NewInv`);
and a CLOSE comes last, since only the close task sends one and statements
nobody awaits are those of tasks that gave up (`LeftInv`). A cancelled save
keeps the first because `write()` sends ROLLBACK before it releases the lock.

`LearnerProofs` proves `PersistedFirst`, `LessonsAreRemembered`,
`FlushMeansEvaluated`, `DrainFinishesRecords` and `StoreOutlivesJobs` for every
set of callers, callbacks and contents, every way a learner is made, whatever
fails and any number of flushes, from `LearnerSwitches` and `LearnerNames`
(callers and callbacks are finitely many and different). They share one
invariant, `LInv`. `SavedInv` carries the saved experience from the record to
its evaluation and its embedding job, so that failing saves, late cancellations
and orders of jobs do not matter. `LessonInv` adds that who reinforces has found
a memory: between the two transactions that memory must not go. `CallAgrees`
says what the place of a caller tells about his experience. The core is
`PromiseAgrees`: a promise stands for every open job about an experience it was
asked for, also a job submitted after the call. It is kept because such a job is
submitted below an open job about the same experience, which the promise already
owes (`AcceptPromises`); a record not yet returned was not asked for.
`DrainInv` is the other half: a job that may not submit although it is open is
refused by a cancelling shutdown only (`Refused`), and a record job goes on only
with its evaluation submitted. `StoreOutlivesJobs` rests on `ClosedInv` and
leaves out the interrupted `aclose()` of section 5 only. One lemma each says what a body that goes on, a
job that ends, an accepted job, a caller's step and a promise's step preserve
(`JobMoves`, `JobIsOver`, `JobAccepted`, `CallMoves`, `PromisesMove`); one lemma
per action applies them. With a mutation of section 7 in the place of its action
the proof of that action fails.

`LibraryProofs` proves five properties of the library for inputs of any length.
What an input is, is said by assumptions on the constants, each read off the
code: `ConversationsOfMessages`; `ReleasesOfSnapshots` (a member's export is in
its snapshot; the older snapshot has passed the gate at its own release);
`SignaturesOfPython` (names once each, positional parameters first);
`QueriesOfTables` (the id is the primary key; the index has embedded memories
only, which `VectorIndexProofs` proves of it); `PromptsOfMemories`;
`RequestsOfValues` (payloads are leaves and containers nested at most `Depth`
deep, where `Depth` is any number: a Python value that holds itself, or is nested
deeper than the interpreter recurses, ends in a `SanitizationError` before
anything leaves); `JsonValuesOfHeaps` (a heap has at most `Depth` containers, no
container has the name of a leaf, and a dict has a string key once);
`RecordsOfModels` (a field holds what its model class lets through: a mapping is
a dict or `None`, an embedding a list of floats or `None`). `Depth` is any
number, so the theorem is about every finite heap.

* `GroupsAreWhole`. What a node learns is compared with every group of messages
  that could be one: such a group can only be the newest results and the message
  right before them, and those are what the code finds (`OneGroup`); and the
  code's comparison of ids by sets and counts says the same as each answer
  having its call and each call its answer (`AssociatedAnswers`).
* `RemovalsAnnounced`. A removal passes `SnapshotIssues` only under a greater
  major, and there the guide and the window of deprecation cover it, its
  export is gone as well, or it was the value of an enum (`NoSilentRemoval`).
* `CallsAreKept`, both ways. The positional parameters of a signature are a
  prefix of it. If no keyword-only parameter takes a place among them, the names
  that were positional before are still first and in their order, so each has
  its old place (`PlacesKept`); positional parameters are added only after them,
  and only where there is no `*args` that took those arguments before
  (`SamePlaces`). With the places the keywords stay, unless `**kwargs` loses one
  (`CallsOfBaseline`). Conversely, the call that fills every place, names what
  else is required and hands one more keyword to `**kwargs` is accepted by the
  old signature (`FullCall`) and not kept by a new one that takes a place or
  that keyword (`TakenPlace`, `TakenKeyword`).
* `SearchesAreExact`. The comparison of the ranker is a total order because two
  rows never have one id (`BeatsOrders`). Sorting puts each element at the number
  of those ahead of it (`SortedPlaces`), from which follow what `Selections`
  returns and what `dict.fromkeys()` keeps (`LoadedIds`). The invariant of the
  bounded heap is that after each row it holds the best of the rows so far
  (`Best`, `AddKeepsBest`). The `ORDER BY` of the rows without a vector agrees
  with the ranker on such rows (`PlainOrder`), which makes its `LIMIT` harmless
  (`UnembeddedRows`), and a search with all of the index is one ranking of what
  is in its reach (`JoinedTables`, `IndexedIsExact`).
* `PromptsAreBounded`. The loop of the builder has, after each memory, taken just
  those of the memories so far that fitted when their turn came (`Taken`,
  `TakesNext`), whatever the counter answers: nothing is assumed of it. What is
  written of a memory has no marker and ends no line (`SerializedIsPlain`), so a
  block is three lines, and another block keeps the frame in which the first
  sign of a line tells the line's number modulo three (`Framed`, `FrameGrows`).
* `NothingRaw`, `SavedIsReturned`. Values are sets by depth (`Nested`), and the
  copy, the leaves and the check for JSON are recursive functions over them. A
  recursion that looks only at members has a function (`RecursionExists`, by the
  least level without one), so each of the three unfolds (`CopyUnfolds`,
  `LeavesUnfold`, `SerializableUnfolds`), and a copy has the depth of its
  original. Level by level, a copy that JSON takes has the clean form of every
  leaf at its own path: copying changes no kind and no key, so no path
  (`CopiesClean`, `AllCopiesClean`). A call ends in one of three ways
  (`CallOutcome`), and no answer changes what was sent before it
  (`AnswerOutcome`). Of the sanitizer nothing is assumed.

* `RecordsReadBack`. The validator's verdict on a container depends on the set of
  those it is in, and each level leaves one container less, so the recursion has
  a function whatever the cycles (`ActiveRecursion`, `StrictUnfolds`). That it
  refuses just the cycles and what JSON has not is compared with what is reached
  in the graph (`ValidationIsExact`): of a cycle that was let through, one
  container would be accepted with the fewest left to visit, and the next with
  fewer (`StrictIsJson`); of JSON that was refused the same holds the other way
  round (`JsonIsStrict`). What is let through is written as a text no deeper than
  the heap has containers, whose objects have their keys once since sorting
  repeats none (`StrictDumps`, `ByKeyKeeps`), so it can be read; the rest is a
  case for each kind of column (`CellReadsBack`), and the field an error names is
  the first that cannot be encoded (`FirstFieldIsBad`).

Every safety invariant the runs check is thus a theorem. Only model-checked are
the liveness properties (liveness under fairness is out of the prover's reach),
the liveness half of `RunsAreNotLost` and the store's `OperationsEnd` among them.

## 7. Mutations

Each property of a passing run has a mutation in `PROJECT.json`: a mapped
definition replaced by the form a plausible bug would give it (a callback that
does not prune, a cancelled save that skips its rollback, an index that keeps
`ready` across versions, a tool that is not forgotten with its chain, a cycle
check that forgets to leave a container). They
stand beside the definitions, each under a comment that begins with `Mutant`.

## 8. Abstractions to keep in mind

* Time is left out: a timeout is a cancellation that may come at any await.
* A task switch may come at every await. asyncio resumes ready tasks in order,
  so the models allow interleavings it would not produce; what they prove holds
  for those it does.
* The Learner's callers are not cancelled, but for those of `aclose()`; the
  manager's flush callers and the store's tasks are.
* In `Store` a statement that fails has no effect, except a close, which may
  fail with the connection closed or open.
* Likeness of vectors is a relation on contents; scores are an order.
* `Serialization` has no limit of recursion: the encoder refuses a value nested
  deeper than the interpreter recurses with a `StorageError`, whatever it holds.
* In `Migrations` column types and indexes are grouped with their table, and a
  step is atomic: its statements touch a draft only its program sees.
* In the library a text is as much of it as the code looks at: blank or not, its
  atoms, the units of a counter.

## 9. Not modelled

The retriever wrapper (one call, no state), events and logging (formatting),
support code (error types, protocols, deprecation warnings), adapters and stubs
(empty, or they raise), benchmarks and examples. Of the release tooling only the
two gates with a decision worth a reference definition are modelled; building
artifacts, taking snapshots, the data contract over monitored files and the
parsing of documents are sequential scripts over texts.

Inside modelled parts: floating-point projections and scores, keyword search,
`update_memory_feedback`'s arithmetic, timestamps of different zones, messages
that are mappings, custom extractors, `model_extra`, the prompts of the
providers, the range checks of the model classes, SQL texts and column types,
two releases writing one index at the same time, `reflect`, `reinforce` and
`prune` of the Learner (single store calls), and cancellation of the callers of
`record()`, `remember()` and `flush()`.

## 10. Plan

Done, in this order: WorkManager with its proofs, Store, Learner, LangChain,
VectorIndex with its proofs, Migrations with its proofs, the library, the proofs
that `WorkManager` implements its contract and repeats no report, those of
the LangChain registry, those of the store's transactions, outcomes, closing
and cancellations, those of the Learner, of the searches of the index, and of
the parts of the library: extraction, gates, ranking, the prompt builder,
protection and the encoder.

Next, the most important first:

1. Cancelled callers of `record()`, `remember()` and `flush()`.
2. Reads of the store that see uncommitted rows; streams whose table changes
   between batches.
