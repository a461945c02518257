------------------------------ MODULE Learner ------------------------------
(***************************************************************************)
(* Learner (experia/core/learner.py) over the contract of its work manager *)
(* (WorkContract, which WorkManager implements) and a store whose every    *)
(* transaction is one step: record() and its evaluation and embedding      *)
(* jobs, records made from callbacks, remember(), flush(), shutdown() and  *)
(* aclose().  A step is the code between two awaits; the awaits are the    *)
(* evaluator, the embedder, the rule generator, the store and other jobs.  *)
(***************************************************************************)
EXTENDS Naturals, FiniteSets

CONSTANTS
    Callers,            \* tasks that call record() or remember() once
    Callbacks,          \* callbacks that record as background work
    Contents,           \* what lessons and memories say
    Configs,            \* the constructor arguments learners are made with,
                        \* and what the application does with each
    Policies,           \* the shutdown policies callers may choose
    MayFail,            \* what may fail: "store", "evaluator", "embedder",
                        \* "sanitizer", "extra" (an optional dependency) and
                        \* "aclose" (it is interrupted)
    AppFlushes          \* bound: flush() calls of the application

ASSUME LearnerSwitches ==
    /\ Configs \subseteq [background : BOOLEAN, embedder : BOOLEAN,
                         fallback : BOOLEAN, rules : BOOLEAN,
                         users : SUBSET (Callers \cup Callbacks),
                         contents : SUBSET Contents, flushes : BOOLEAN,
                         policies : SUBSET Policies]
    /\ AppFlushes \in Nat

\* A callback is not a caller.
ASSUME LearnerNames ==
    /\ IsFiniteSet(Callers) /\ IsFiniteSet(Callbacks)
    /\ Callers \cap Callbacks = {}

\* A record makes an evaluation job and an embedding job, and a record from
\* a callback is a job itself.
MaxJobs == 2 * Cardinality(Callers) + 3 * Cardinality(Callbacks)
MaxGens == 1 + AppFlushes + Cardinality(Callers)
ShutdownGen == 1
AppGens == 2 .. 1 + AppFlushes
CallerGens == 2 + AppFlushes .. MaxGens

VARIABLES
    phase, outcome, promise, closer,    \* of the work manager
    config,         \* background_evaluation, embedder, fallback policy, rules;
                    \* who calls, what may be said, flush() and shutdown
    policy,         \* the shutdown policy in force
    job,            \* the body of every job
    call,           \* every caller and callback
    experiences,    \* saved experiences, named by who recorded them
    lessons,        \* saved lessons
    memories,       \* stored memories
    store,          \* "open" or "closed"
    aclose,         \* the aclose() call: "idle", "shutting", "ended", or
                    \* interrupted: "refused" by shutdown(), or "cancelled"
    asked           \* history: experiences whose record() had returned at flush()

manager == <<phase, outcome, promise, closer>>
saved == <<experiences, lessons, memories>>
lvars == <<phase, outcome, promise, closer, config, policy, job, call,
           experiences, lessons, memories, store, aclose, asked>>

Background == config.background
HasEmbedder == config.embedder
Fallback == config.fallback
HasRules == config.rules
Users == config.users

WM == INSTANCE WorkContract WITH MaxJobs <- MaxJobs, MaxGens <- MaxGens

Jobs == 1 .. MaxJobs
NoJob == 0
Nobody == "nobody"

\* What a job does, for which experience; and how that goes on.
Body(kind, exp, pc) ==
    [kind |-> kind, exp |-> exp, pc |-> pc, content |-> "none",
     found |-> Nobody, child |-> NoJob, why |-> "none"]
NoJobBody == Body("none", Nobody, "none")
To(r, pc) == [r EXCEPT !.pc = pc]
Told(r, content) == [r EXCEPT !.content = content]
Found(r, by) == [r EXCEPT !.pc = "reinforcing", !.found = by]
Awaiting(r, pc, n) == [r EXCEPT !.pc = pc, !.child = n]
Ended(r, why) == [r EXCEPT !.pc = "ended", !.why = why]

NextJob == CHOOSE n \in Jobs : /\ outcome[n] = "none"
                               /\ \A m \in 1 .. n - 1 : outcome[m] # "none"

\* submit() below job p, NoJob for none: the manager is open, or drains and p
\* is still open.
Admits(p) ==
    \/ phase = "open"
    \/ phase = "closing" /\ policy = "DRAIN" /\ p \in WM!OpenJobs

\* submit(): a body of this kind becomes the next job, below p.
Submit(p, kind, exp, pc) ==
    /\ NextJob \in Jobs
    /\ WM!Accept(NextJob, p)
    /\ job' = [job EXCEPT ![NextJob] = Body(kind, exp, pc)]

\* Job j submits, and goes on as r.
SubmitFrom(j, p, r, kind, exp, pc) ==
    /\ NextJob \in Jobs
    /\ WM!Accept(NextJob, p)
    /\ job' = [job EXCEPT ![NextJob] = Body(kind, exp, pc), ![j] = r]

Goes(j, pc) == job' = [job EXCEPT ![j] = To(@, pc)]
CallGoes(c, pc) == call' = [call EXCEPT ![c] = To(@, pc)]

\* A body returns, or raises: its job gets its outcome.
JobEnds(j, o, why) ==
    /\ WM!Settle(j, o)
    /\ job' = [job EXCEPT ![j] = Ended(@, why)]

At(j, kind, pc) == job[j].kind = kind /\ job[j].pc = pc

----------------------------------------------------------------------------
\* record() in the caller's own task.

\* _assert_accepting, then save_experience is awaited.
Record(c) ==
    /\ call[c].pc = "start"
    /\ CallGoes(c, IF phase = "open" THEN "saving" ELSE "rejected")
    /\ UNCHANGED <<config, manager, policy, job, saved, store, aclose, asked>>

\* Mutant: record() returns once the experience is saved.
ExperienceSavedReturns(c) ==
    /\ call[c].pc = "saving"
    /\ store = "open"
    /\ experiences' = experiences \cup {c}
    /\ CallGoes(c, "returned")
    /\ UNCHANGED <<config, manager, policy, job, lessons, memories, store,
                   aclose, asked>>

ExperienceSaved(c) ==
    /\ call[c].pc = "saving"
    /\ store = "open"
    /\ experiences' = experiences \cup {c}
    /\ CallGoes(c, "saved")
    /\ UNCHANGED <<config, manager, policy, job, lessons, memories, store,
                   aclose, asked>>

\* Mutant: the failure of the save is logged and forgotten.
CallerStoreFailsSilently(c) ==
    /\ call[c].pc = "saving"
    /\ "store" \in MayFail
    /\ CallGoes(c, "saved")
    /\ UNCHANGED <<config, manager, policy, job, saved, store, aclose, asked>>

CallerStoreFails(c) ==
    /\ call[c].pc \in {"saving", "finding", "storing", "reinforcing"}
    /\ store = "closed" \/ "store" \in MayFail
    /\ CallGoes(c, "failed")
    /\ UNCHANGED <<config, manager, policy, job, saved, store, aclose, asked>>

\* Experiences whose record() has returned: what a flush() is asked for.
ReturnedRecords == {c \in experiences : call[c].pc = "returned"}

\* submit() and the capture of flush(), with no await between them.
SubmitAndFlush(g, c) ==
    /\ promise[g].status = "unmade"
    /\ NextJob \in Jobs /\ outcome[NextJob] = "none"
    /\ job' = [job EXCEPT ![NextJob] = Body("EVALUATION", c, "evaluating")]
    /\ outcome' = [outcome EXCEPT ![NextJob] = "open"]
    /\ promise' = [promise EXCEPT ![g] = [status |-> "standing",
                                         owed |-> WM!OpenJobs \cup {NextJob}]]
    /\ asked' = [asked EXCEPT ![g] = ReturnedRecords]
    /\ UNCHANGED <<phase, closer>>

Flushes(r, g) == [r EXCEPT !.pc = "flushing", !.gen = g]

\* The save returned: submit the evaluation.  With background evaluation
\* record() returns; otherwise it awaits flush().
RecordSubmits(c) ==
    /\ call[c].pc = "saved"
    /\ \/ /\ ~ Admits(NoJob)
          /\ CallGoes(c, "rejected")
          /\ UNCHANGED <<manager, job, asked>>
       \/ /\ Admits(NoJob)
          /\ Background
          /\ Submit(NoJob, "EVALUATION", c, "evaluating")
          /\ CallGoes(c, "returned")
          /\ UNCHANGED asked
       \/ /\ Admits(NoJob)
          /\ ~ Background
          /\ \E g \in CallerGens :
               /\ SubmitAndFlush(g, c)
               /\ call' = [call EXCEPT ![c] = Flushes(@, g)]
    /\ UNCHANGED <<config, policy, saved, store, aclose>>

\* Mutant: the flush is started but not awaited.
RecordEndsEarly(c) ==
    /\ call[c].pc = "flushing"
    /\ CallGoes(c, "returned")
    /\ UNCHANGED <<config, manager, policy, job, saved, store, aclose, asked>>

Failures(jobs) == {j \in jobs : outcome[j] = "FAILURE"}

\* flush() raises when its report holds a failure.  The report covers what it
\* owed, and may cover failures that ended before the call.
RecordEnds(c) ==
    /\ call[c].pc = "flushing"
    /\ promise[call[c].gen].status = "kept"
    /\ \/ /\ Failures(promise[call[c].gen].owed) = {}
          /\ CallGoes(c, "returned")
       \/ /\ Failures(Jobs) # {}
          /\ CallGoes(c, "failed")
    /\ UNCHANGED <<config, manager, policy, job, saved, store, aclose, asked>>

----------------------------------------------------------------------------
\* A record made from a callback is a job whose children are its own.

CallbackRecord(c) ==
    /\ call[c].pc = "start"
    /\ \/ /\ phase = "open"
          /\ Submit(NoJob, "RECORD", c, "saving")
          /\ CallGoes(c, "submitted")
       \/ /\ phase # "open"
          /\ CallGoes(c, "rejected")
          /\ UNCHANGED <<manager, job>>
    /\ UNCHANGED <<config, policy, saved, store, aclose, asked>>

JobExperienceSaved(j) ==
    /\ At(j, "RECORD", "saving")
    /\ store = "open"
    /\ experiences' = experiences \cup {job[j].exp}
    /\ Goes(j, "saved")
    /\ UNCHANGED <<config, manager, policy, call, lessons, memories, store,
                   aclose, asked>>

\* Mutant: the evaluation is not submitted as a child of the record job.
EvaluationParentLost(j) == NoJob

EvaluationParent(j) == j

\* Mutant: with background_evaluation off the job awaits flush().
WaitsForFlush(j) ==
    /\ At(j, "RECORD", "waiting")
    /\ outcome[j] # "open"

\* With background_evaluation off the record job waits for that one job.
EvaluationOver(j) ==
    /\ At(j, "RECORD", "waiting")
    /\ outcome[job[j].child] # "open"

RecordJobSubmits(j) ==
    /\ At(j, "RECORD", "saved")
    /\ LET p == EvaluationParent(j)
       IN  \/ /\ Admits(p)
              /\ ~ Background
              /\ SubmitFrom(j, p, Awaiting(job[j], "waiting", NextJob),
                            "EVALUATION", job[j].exp, "evaluating")
           \/ /\ Admits(p)
              /\ Background
              /\ SubmitFrom(j, p, To(job[j], "ending"),
                            "EVALUATION", job[j].exp, "evaluating")
           \/ /\ ~ Admits(p)
              /\ JobEnds(j, "FAILURE", "lifecycle")
    /\ UNCHANGED <<config, policy, call, saved, store, aclose, asked>>

RecordJobEnds(j) ==
    /\ EvaluationOver(j) \/ At(j, "RECORD", "ending")
    /\ outcome[j] = "open"
    /\ JobEnds(j, "SUCCESS", "none")
    /\ UNCHANGED <<config, policy, call, saved, store, aclose, asked>>

----------------------------------------------------------------------------
\* _evaluate_and_remember, the body of an evaluation job.

\* The evaluator answers: no lesson, or a lesson to embed.
EvaluatorAnswers(j) ==
    /\ At(j, "EVALUATION", "evaluating")
    /\ \/ JobEnds(j, "SUCCESS", "none")
       \/ \E content \in config.contents :
            LET told == Told(job[j], content)
            IN  \/ /\ ~ HasEmbedder
                   /\ job' = [job EXCEPT ![j] = To(told, "storing")]
                   /\ UNCHANGED manager
                \/ /\ HasEmbedder /\ Admits(j)
                   /\ SubmitFrom(j, j, Awaiting(told, "embedding", NextJob),
                                 "EMBEDDING", job[j].exp, "calling")
                \/ /\ HasEmbedder /\ ~ Admits(j)
                   /\ JobEnds(j, "FAILURE", "lifecycle")
    /\ UNCHANGED <<config, policy, call, saved, store, aclose, asked>>

EvaluatorFails(j) ==
    /\ At(j, "EVALUATION", "evaluating")
    /\ "evaluator" \in MayFail
    /\ JobEnds(j, "FAILURE", "evaluator")
    /\ UNCHANGED <<config, policy, call, saved, store, aclose, asked>>

\* The embedding job.
EmbedderAnswers(j) ==
    /\ At(j, "EMBEDDING", "calling")
    /\ \/ JobEnds(j, "SUCCESS", "none")
       \/ \E why \in {"embedder", "sanitizer"} \cap MayFail :
             JobEnds(j, "FAILURE", why)
    /\ UNCHANGED <<config, policy, call, saved, store, aclose, asked>>

\* _embed: the evaluation goes on with the embedding, or without one, or
\* shares the fate of the embedding job.  The fallback is not for texts that
\* the data protection refused.
Embedded(j) ==
    /\ At(j, "EVALUATION", "embedding")
    /\ LET o == outcome[job[j].child]
       IN  \/ o = "SUCCESS" /\ Goes(j, "finding") /\ UNCHANGED manager
           \/ o = "CANCELLATION" /\ JobEnds(j, "CANCELLATION", "none")
           \/ \E why \in {"embedder", "sanitizer"} :
                /\ o = "FAILURE" /\ job[job[j].child].why = why
                /\ IF Fallback /\ why = "embedder"
                   THEN Goes(j, "storing") /\ UNCHANGED manager
                   ELSE JobEnds(j, "FAILURE", why)
    /\ UNCHANGED <<config, policy, call, saved, store, aclose, asked>>

\* Mutant: the best candidate is taken whatever its similarity.
SimilarAnyhow(content, type) == {m \in memories : m.type = type /\ m.vec}

\* find_similar_memory: near duplicates of the same type and role, among the
\* memories that have an embedding.
Similar(content, type) ==
    {m \in memories : m.type = type /\ m.content = content /\ m.vec}

Find(j) ==
    /\ At(j, "EVALUATION", "finding")
    /\ store = "open"
    /\ LET S == Similar(job[j].content, "LESSON")
       IN  \/ S = {} /\ Goes(j, "storing")
           \/ \E m \in S : job' = [job EXCEPT ![j] = Found(@, m.by)]
    /\ UNCHANGED <<config, manager, policy, call, saved, store, aclose, asked>>

Lesson(j) == [exp |-> job[j].exp, content |-> job[j].content]

AfterStoring == IF HasRules THEN "consolidating" ELSE "ending"

\* save_lesson_and_memory, one transaction.
StoreLessonAndMemory(j) ==
    /\ At(j, "EVALUATION", "storing")
    /\ store = "open"
    /\ lessons' = lessons \cup {Lesson(j)}
    /\ memories' = memories \cup
          {[by |-> job[j].exp, type |-> "LESSON", content |-> job[j].content,
            vec |-> HasEmbedder /\ outcome[job[j].child] = "SUCCESS"]}
    /\ Goes(j, AfterStoring)
    /\ UNCHANGED <<config, manager, policy, call, experiences, store, aclose,
                   asked>>

\* save_lesson, then the feedback in a transaction of its own.
SaveLesson(j) ==
    /\ At(j, "EVALUATION", "reinforcing")
    /\ store = "open"
    /\ lessons' = lessons \cup {Lesson(j)}
    /\ Goes(j, "feedback")
    /\ UNCHANGED <<config, manager, policy, call, experiences, memories, store,
                   aclose, asked>>

Feedback(j) ==
    /\ At(j, "EVALUATION", "feedback")
    /\ store = "open"
    /\ Goes(j, AfterStoring)
    /\ UNCHANGED <<config, manager, policy, call, saved, store, aclose, asked>>

\* consolidate_lesson: a RULE memory; or none, because no rule applies or
\* because the provider or save_memory failed, which is logged.
Consolidated(j) ==
    /\ At(j, "EVALUATION", "consolidating")
    /\ Goes(j, "ending")
    /\ \/ UNCHANGED memories
       \/ /\ store = "open"
          /\ memories' = memories \cup
                {[by |-> job[j].exp, type |-> "RULE",
                  content |-> job[j].content, vec |-> FALSE]}
    /\ UNCHANGED <<config, manager, policy, call, experiences, lessons, store,
                   aclose, asked>>

\* What stands before its try fails the job, its lesson saved: the provider's
\* library is missing, or the data protection refuses the lesson.
ConsolidationFails(j) ==
    /\ At(j, "EVALUATION", "consolidating")
    /\ \E why \in {"extra", "sanitizer"} \cap MayFail :
         JobEnds(j, "FAILURE", why)
    /\ UNCHANGED <<config, policy, call, saved, store, aclose, asked>>

EvaluationEnds(j) ==
    /\ At(j, "EVALUATION", "ending")
    /\ JobEnds(j, "SUCCESS", "none")
    /\ UNCHANGED <<config, policy, call, saved, store, aclose, asked>>

\* A StorageError in a job: the store failed, or is closed.
JobStoreFails(j) ==
    /\ job[j].pc \in {"saving", "finding", "storing", "reinforcing",
                      "feedback"}
    /\ store = "closed" \/ "store" \in MayFail
    /\ JobEnds(j, "FAILURE", "store")
    /\ UNCHANGED <<config, policy, call, saved, store, aclose, asked>>

\* A cancelling shutdown has asked every open job to cancel; a body that
\* swallows the request goes on.
JobCancelled(j) ==
    /\ policy = "CANCEL"
    /\ JobEnds(j, "CANCELLATION", "none")
    /\ UNCHANGED <<config, policy, call, saved, store, aclose, asked>>

----------------------------------------------------------------------------
Says(r, content, vec, pc) ==
    [r EXCEPT !.content = content, !.vec = vec, !.pc = pc]

\* remember(): a manual FACT, embedded in the caller's own task; what a failing
\* embedder does is the policy's choice, but a refusal of the data protection
\* is raised.
Embeddings(pc) ==
    \/ HasEmbedder /\ pc = "finding"
    \/ ~ HasEmbedder /\ pc = "storing"
    \/ HasEmbedder /\ "embedder" \in MayFail
       /\ pc = (IF Fallback THEN "storing" ELSE "failed")
    \/ HasEmbedder /\ "sanitizer" \in MayFail /\ pc = "failed"

Remember(c) ==
    /\ call[c].pc = "start"
    /\ \E content \in config.contents, pc \in {"finding", "storing", "failed"} :
         /\ Embeddings(pc)
         /\ call' = [call EXCEPT ![c] = Says(@, content, pc = "finding", pc)]
    /\ UNCHANGED <<config, manager, policy, job, saved, store, aclose, asked>>

RememberFinds(c) ==
    /\ call[c].pc = "finding"
    /\ store = "open"
    /\ CallGoes(c, IF Similar(call[c].content, "FACT") = {}
                   THEN "storing" ELSE "reinforcing")
    /\ UNCHANGED <<config, manager, policy, job, saved, store, aclose, asked>>

RememberStores(c) ==
    /\ call[c].pc \in {"storing", "reinforcing"}
    /\ store = "open"
    /\ memories' = IF call[c].pc = "storing"
                   THEN memories \cup
                          {[by |-> c, type |-> "FACT", vec |-> call[c].vec,
                            content |-> call[c].content]}
                   ELSE memories
    /\ CallGoes(c, "returned")
    /\ UNCHANGED <<config, manager, policy, job, experiences, lessons, store,
                   aclose, asked>>

----------------------------------------------------------------------------
\* The application's flush(), shutdown() and aclose().

Flush(g) ==
    /\ WM!Make(g)
    /\ asked' = [asked EXCEPT ![g] = ReturnedRecords]
    /\ UNCHANGED <<config, policy, job, call, saved, store, aclose>>

FlushEnds(g) ==
    /\ WM!Keep(g)
    /\ UNCHANGED <<config, policy, job, call, saved, store, aclose, asked>>

Shutdown(pol) ==
    /\ WM!BeginClose(ShutdownGen)
    /\ policy' = pol
    /\ UNCHANGED <<config, job, call, saved, store, aclose, asked>>

ShutdownEnds ==
    /\ WM!EndClose
    /\ UNCHANGED <<config, policy, job, call, saved, store, aclose, asked>>

\* aclose(close_store=True): shutdown() first, whoever started it.
Aclose(pol) ==
    /\ aclose = "idle"
    /\ aclose' = "shutting"
    /\ \/ phase = "open" /\ WM!BeginClose(ShutdownGen) /\ policy' = pol
       \/ phase # "open" /\ UNCHANGED <<manager, policy>>
    /\ UNCHANGED <<config, job, call, saved, store, asked>>

\* Mutant: the shutdown is not awaited.
AwaitedShutdownEarly == TRUE

AwaitedShutdown == phase = "closed"

\* The finally clause closes the store once the shutdown is over, whatever
\* shutdown() then returns or raises.
AcloseEnds ==
    /\ aclose = "shutting"
    /\ AwaitedShutdown
    /\ aclose' = "ended"
    /\ store' = "closed"
    /\ UNCHANGED <<config, manager, policy, job, call, saved, asked>>

\* The finally clause runs too when shutdown() raises before it has done
\* anything: the policy is none, or the manager is of another event loop.
AcloseRefused ==
    /\ aclose = "idle"
    /\ "aclose" \in MayFail
    /\ aclose' = "refused"
    /\ store' = "closed"
    /\ UNCHANGED <<config, manager, policy, job, call, saved, asked>>

\* And when the caller is cancelled: the shutdown is shielded and goes on, but
\* nobody awaits it.
AcloseCancelled ==
    /\ aclose = "shutting"
    /\ phase = "closing"
    /\ "aclose" \in MayFail
    /\ aclose' = "cancelled"
    /\ store' = "closed"
    /\ UNCHANGED <<config, manager, policy, job, call, saved, asked>>

----------------------------------------------------------------------------
Init ==
    /\ WM!Init
    /\ config \in Configs
    /\ policy = "none"
    /\ job = [j \in Jobs |-> NoJobBody]
    /\ call = [c \in Callers \cup Callbacks |->
                 [pc |-> "start", gen |-> 0, content |-> "none",
                  vec |-> FALSE]]
    /\ experiences = {}
    /\ lessons = {}
    /\ memories = {}
    /\ store = "open"
    /\ aclose = "idle"
    /\ asked = [g \in 1 .. MaxGens |-> {}]

CallerStep(c) ==
    \/ ExperienceSaved(c) \/ CallerStoreFails(c)
    \/ RecordSubmits(c) \/ RecordEnds(c)
    \/ RememberFinds(c) \/ RememberStores(c)

JobStep(j) ==
    \/ JobExperienceSaved(j) \/ RecordJobSubmits(j) \/ RecordJobEnds(j)
    \/ EvaluatorAnswers(j) \/ EvaluatorFails(j)
    \/ EmbedderAnswers(j) \/ Embedded(j)
    \/ Find(j) \/ StoreLessonAndMemory(j) \/ SaveLesson(j) \/ Feedback(j)
    \/ Consolidated(j) \/ ConsolidationFails(j) \/ EvaluationEnds(j)
    \/ JobStoreFails(j) \/ JobCancelled(j)

Next ==
    \/ \E c \in Callers \cap Users : Record(c) \/ Remember(c) \/ CallerStep(c)
    \/ \E c \in Callbacks \cap Users : CallbackRecord(c)
    \/ \E j \in Jobs : JobStep(j)
    \/ config.flushes /\ \E g \in AppGens : Flush(g)
    \/ \E g \in 1 .. MaxGens : FlushEnds(g)
    \/ \E pol \in config.policies : Shutdown(pol) \/ Aclose(pol)
    \/ ShutdownEnds
    \/ AcloseEnds
    \/ config.policies # {} /\ (AcloseRefused \/ AcloseCancelled)

Spec == Init /\ [][Next]_lvars

\* The manager keeps its promises; the evaluator, the embedder, the rule
\* generator and the store answer.  What has begun goes on while anything can.
GoesOn ==
    \/ \E j \in Jobs : JobStep(j)
    \/ \E c \in Callers : CallerStep(c)
    \/ \E g \in 1 .. MaxGens : FlushEnds(g)
    \/ ShutdownEnds

LiveSpec == Spec /\ WF_lvars(GoesOn)

----------------------------------------------------------------------------
Evaluates(j, c) == job[j].kind = "EVALUATION" /\ job[j].exp = c

\* An evaluation or a lesson exists only for an experience already saved, in
\* whatever order callers, jobs and failures fall (_record).
PersistedFirst ==
    /\ \A j \in Jobs : job[j].kind \in {"EVALUATION", "EMBEDDING"} =>
                          job[j].exp \in experiences
    /\ \A l \in lessons : l.exp \in experiences

\* Every saved lesson has its derived memory: its own, or the near duplicate
\* that was reinforced instead (_evaluate_and_remember).
LessonsAreRemembered ==
    \A l \in lessons :
        \E m \in memories : m.type = "LESSON" /\ m.content = l.content

\* When flush() ends, every experience whose record() had returned before the
\* call has been evaluated, its embedding included.
FlushCovers ==
    \A g \in 1 .. MaxGens : (promise[g].status = "kept" /\ g # closer) =>
        \A c \in asked[g] :
            /\ \E j \in Jobs : Evaluates(j, c)
            /\ \A j \in Jobs : job[j].exp = c => outcome[j] # "open"

\* With background_evaluation off record() returns only when its own evaluation
\* is over and did not fail, whatever other callers flush meanwhile.
ForegroundCovers ==
    ~ Background => \A c \in ReturnedRecords \cap Callers :
        \E j \in Jobs : Evaluates(j, c) /\ outcome[j] \notin {"open", "FAILURE"}

\* Who waits for a flush, his own or record()'s, finds his records evaluated
\* (flush, _record).
FlushMeansEvaluated == FlushCovers /\ ForegroundCovers

\* A drain accepts what its jobs submit: none of them fails for the shutdown,
\* and a record accepted from a callback is evaluated before closing.
DrainFinishesRecords ==
    policy = "DRAIN" =>
        /\ \A j \in Jobs : job[j].why # "lifecycle"
        /\ phase = "closed" =>
             \A j \in Jobs :
                (job[j].kind = "RECORD" /\ outcome[j] = "SUCCESS") =>
                    \E i \in Jobs : Evaluates(i, job[j].exp)
                                    /\ outcome[i] # "open"

\* What interrupts an aclose() before the shutdown that it awaits is over.
Interrupted == {"refused", "cancelled"}

\* The store is closed under running jobs only by an aclose(close_store=True)
\* that was interrupted: the ordering that API_REFERENCE.md:185 promises without
\* this exception, "so no evaluation job races the connection close", holds for
\* every other one, whoever began the shutdown and whatever fails (aclose).
StoreOutlivesJobs ==
    store = "closed" /\ aclose \notin Interrupted => WM!OpenJobs = {}

\* API_REFERENCE.md:201: a record refused by a shutdown writes nothing.
RejectedWritesNothing ==
    \A c \in Callers : call[c].pc = "rejected" => c \notin experiences

Quiet ==
    /\ WM!OpenJobs = {}
    /\ \A c \in Callers :
           call[c].pc \in {"start", "returned", "failed", "rejected"}

\* Nobody waits for himself: although jobs wait for jobs and record() may wait
\* for a flush, all that is under way comes to rest, again and again
\* (_submit_callback_record, _record).
EverybodyEnds == []<>Quiet
=============================================================================
