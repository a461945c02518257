---------------------------- MODULE WorkManager ----------------------------
(***************************************************************************)
(* AsyncWorkManager (experia/core/work.py): the registry of background    *)
(* jobs of one Learner.  Everything runs on one asyncio event loop, so a   *)
(* piece of code between two awaits is one atomic action here; what        *)
(* interleaves is: job bodies, the done-callbacks asyncio schedules after  *)
(* a task has ended, observer tasks, flush callers and the one shutdown    *)
(* task.                                                                   *)
(*                                                                         *)
(* A job is named by its accepted_sequence (job ids are fresh, so the two  *)
(* are in bijection) and a flush or a shutdown by its generation number.   *)
(***************************************************************************)
EXTENDS Naturals, FiniteSets

CONSTANTS
    MaxJobs,        \* bound: jobs accepted in a behaviour
    MaxGens,        \* bound: generations (flush calls and the shutdown)
    HasObserver,    \* an observer callback was given to the constructor
    CallersCancel,  \* a flush() caller may be cancelled while it waits
    UserCancels,    \* cancel() is called on single jobs
    Outcomes,       \* what the job bodies of a run do
    Policies,       \* the shutdown policies callers may choose
    UserPrunes,     \* prune_terminal() is called
    ExtGens         \* generations used by direct calls of retain_for_flush()

ASSUME BoundsAssumption == MaxJobs \in Nat /\ MaxGens \in Nat
ASSUME SwitchAssumption ==
    /\ HasObserver \in BOOLEAN /\ CallersCancel \in BOOLEAN
    /\ UserPrunes \in BOOLEAN /\ UserCancels \in BOOLEAN
    /\ Outcomes \subseteq {"SUCCESS", "FAILURE", "CANCELLATION"}
    /\ Policies \subseteq {"DRAIN", "CANCEL"}
ASSUME ExtGensAssumption == ExtGens \cap (0 .. MaxGens) = {}

Jobs == 1 .. MaxJobs
Gens == 1 .. MaxGens
NoParent == 0
NoGen == 0

Terminal == {"SUCCESS", "FAILURE", "CANCELLATION"}
Live == {"PENDING", "RUNNING"}

\* scheduled: create_task was called, the coroutine has not run;
\* running: the body is awaited; observing: the outcome is committed and
\* _run awaits the observer; returned and cancelled: task.done() is true but
\* _on_task_done has not run; settled: it has.
TaskStates == {"unborn", "scheduled", "running", "observing",
               "returned", "cancelled", "settled"}
\* done: observer_task.done() is true but _on_observer_done has not run.
ObserverStates == {"none", "running", "done", "settled"}

JobRecord ==
    [state  : Live \cup Terminal,       \* JobRecord.state
     task   : TaskStates,               \* JobRecord.task
     cancel : BOOLEAN,                  \* a CancelledError is on its way
     obs    : ObserverStates,           \* JobRecord.observer_task
     gens   : SUBSET (Gens \cup ExtGens),   \* JobRecord.flush_generations
     prune  : BOOLEAN]                  \* JobRecord.prune_when_unreferenced

UnbornJob == [state |-> "PENDING", task |-> "unborn", cancel |-> FALSE,
              obs |-> "none", gens |-> {}, prune |-> FALSE]

VARIABLES
    mgr,        \* AsyncWorkManager._state
    accepted,   \* the last accepted_sequence handed out
    genCount,   \* the last generation number handed out
    shutGen,    \* generation of _shutdown_task, NoGen before shutdown()
    policy,     \* the policy the first shutdown() caller selected
    job,        \* the JobRecord of every accepted job
    parent,     \* JobHandle.parent_job_id
    records,    \* keys of _records: the registered jobs
    children,   \* _children
    flush,      \* the flush or shutdown task of every generation
    owed,       \* history: the jobs a generation has promised to report
    prior       \* history: the jobs flush() reported before a cutoff

registry == <<job, records, children>>
vars == <<mgr, accepted, genCount, shutGen, policy, job, parent, records,
          children, flush, owed, prior>>

IsTerminal(r) == r.state \in Terminal
TaskDone(r) == r.task \in {"returned", "cancelled", "settled"}
ObserverDone(r) == r.obs \in {"none", "done", "settled"}

\* What wait() on one job waits for.
Settled(r) == IsTerminal(r) /\ ObserverDone(r)

\* Mutant: the terminal-state test is missing.
TransitionAlways(r, outcome) ==
    [r EXCEPT !.state = outcome,
              !.obs = IF HasObserver THEN "running" ELSE "none"]

\* _transition_terminal: the first outcome wins; the observer task is
\* scheduled in the same synchronous step.
TransitionTerminal(r, outcome) ==
    IF IsTerminal(r)
    THEN r
    ELSE [r EXCEPT !.state = outcome,
                   !.obs = IF HasObserver THEN "running" ELSE "none"]

\* Mutant: the generations that still retain the record are not looked at.
PrunableThoughRetained(r) ==
    r.prune /\ IsTerminal(r) /\ TaskDone(r) /\ ObserverDone(r)

\* _try_prune's condition.
Prunable(r) ==
    r.prune /\ IsTerminal(r) /\ r.gens = {} /\ TaskDone(r) /\ ObserverDone(r)

\* Mutant: the parent's child entry is left behind.
PruneKeepingChildren(jb, candidates) ==
    /\ job' = jb
    /\ records' = records \ {j \in candidates : Prunable(jb[j])}
    /\ UNCHANGED children

\* _try_prune on each job of candidates, after the records became jb.
Prune(jb, candidates) ==
    LET gone == {j \in records \cap candidates : Prunable(jb[j])}
    IN  /\ job' = jb
        /\ records' = records \ gone
        /\ children' = [p \in Jobs |->
                            children[p] \ {j \in gone : parent[j] = p}]

----------------------------------------------------------------------------
\* Mutant: an ended parent still lets a drain accept children.
AcceptsBelowEnded(p) ==
    mgr = "OPEN" \/ (mgr = "DRAINING" /\ p \in records /\ job[p].gens # {})

\* submit()'s state test: open, or draining below a live retained parent.
Accepts(p) ==
    \/ mgr = "OPEN"
    \/ /\ mgr = "DRAINING"
       /\ p \in records
       /\ ~ IsTerminal(job[p])
       /\ job[p].gens # {}

\* Mutant: a child starts without its parent's generations.
InheritsNothing(p) == {}

\* A child is born retained by what retains its registered parent, ended or
\* not.
InheritedGens(p) == IF p \in records THEN job[p].gens ELSE {}

\* submit(): register the job, let it inherit its registered parent's
\* generations, create its task.  A parent id already pruned is legal.
Submit(p) ==
    LET n == accepted + 1
    IN  /\ n \in Jobs
        /\ Accepts(p)
        /\ accepted' = n
        /\ job' = [job EXCEPT ![n] = [UnbornJob EXCEPT
                       !.task = "scheduled",
                       !.gens = InheritedGens(p)]]
        /\ parent' = [parent EXCEPT ![n] = p]
        /\ records' = records \cup {n}
        /\ children' = [q \in Jobs |->
                            children[q] \cup (IF q = p THEN {n} ELSE {})]
        /\ owed' = [g \in Gens |->
                        IF flush[g].status = "waiting" /\ p \in owed[g]
                        THEN owed[g] \cup {n} ELSE owed[g]]
        /\ UNCHANGED <<mgr, genCount, shutGen, policy, flush, prior>>

\* cancel(): task.cancel() on a job that is registered and not terminal.
Cancel(j) ==
    /\ UserCancels
    /\ j \in records
    /\ ~ IsTerminal(job[j])
    /\ job[j].task \in {"scheduled", "running"}
    /\ job' = [job EXCEPT ![j].cancel = TRUE]
    /\ UNCHANGED <<mgr, accepted, genCount, shutGen, policy, parent, records,
                   children, flush, owed, prior>>

----------------------------------------------------------------------------
\* The job tasks.

onlyJob == UNCHANGED <<mgr, accepted, genCount, shutGen, policy, parent,
                       flush, owed, prior>>

\* The first step of the task: _run starts with _mark_running.
Start(j) ==
    /\ job[j].task = "scheduled"
    /\ ~ job[j].cancel
    /\ job' = [job EXCEPT ![j].task = "running", ![j].state = "RUNNING"]
    /\ UNCHANGED <<records, children>>
    /\ onlyJob

\* A task cancelled before its first step ends without running _run at all.
NeverStart(j) ==
    /\ job[j].task = "scheduled"
    /\ job[j].cancel
    /\ job' = [job EXCEPT ![j].task = "cancelled", ![j].cancel = FALSE]
    /\ UNCHANGED <<records, children>>
    /\ onlyJob

\* The awaited body ends and _run commits the outcome.  A body may swallow
\* or translate a CancelledError, and may be cancelled so late that the
\* request is still pending afterwards.  Without an observer _run returns in
\* the same step, and a request still pending makes the task cancelled().
Finish(j, outcome) ==
    /\ job[j].task = "running"
    /\ \E late \in {FALSE, job[j].cancel} :
         LET ended == IF outcome = "CANCELLATION" \/ late
                      THEN "cancelled" ELSE "returned"
         IN  job' = [job EXCEPT ![j] =
                       [TransitionTerminal(job[j], outcome) EXCEPT
                          !.task = IF HasObserver THEN "observing" ELSE ended,
                          !.cancel = HasObserver /\ late]]
    /\ UNCHANGED <<records, children>>
    /\ onlyJob

\* _await_observer_without_changing_state returns: the observer ended, or a
\* pending cancellation interrupted the wait and was swallowed.
StopObserving(j) ==
    /\ job[j].task = "observing"
    /\ ObserverDone(job[j]) \/ job[j].cancel
    /\ job' = [job EXCEPT
                 ![j].task = IF job[j].state = "CANCELLATION"
                             THEN "cancelled" ELSE "returned",
                 ![j].cancel = FALSE]
    /\ UNCHANGED <<records, children>>
    /\ onlyJob

\* Mutant: the fallback transition is missing.
OnTaskDoneNoFallback(j) ==
    /\ job[j].task \in {"returned", "cancelled"}
    /\ Prune([job EXCEPT ![j].task = "settled"], {j})
    /\ onlyJob

\* Mutant: _try_prune is not called.
OnTaskDoneNoPrune(j) ==
    /\ job[j].task \in {"returned", "cancelled"}
    /\ job' = [job EXCEPT ![j] = [TransitionTerminal(job[j], "CANCELLATION")
                                    EXCEPT !.task = "settled"]]
    /\ UNCHANGED <<records, children>>
    /\ onlyJob

\* _on_task_done: a job whose task ended without _run gets its outcome here.
OnTaskDone(j) ==
    /\ job[j].task \in {"returned", "cancelled"}
    /\ LET outcome == IF job[j].task = "cancelled"
                      THEN "CANCELLATION" ELSE "SUCCESS"
           r == [TransitionTerminal(job[j], outcome) EXCEPT
                   !.task = "settled"]
       IN  Prune([job EXCEPT ![j] = r], {j})
    /\ onlyJob

\* _invoke_observer: whatever the observer does, its task just ends.
ObserverEnds(j) ==
    /\ job[j].obs = "running"
    /\ job' = [job EXCEPT ![j].obs = "done"]
    /\ UNCHANGED <<records, children>>
    /\ onlyJob

\* _on_observer_done.
OnObserverDone(j) ==
    /\ job[j].obs = "done"
    /\ Prune([job EXCEPT ![j].obs = "settled"], {j})
    /\ onlyJob

----------------------------------------------------------------------------
\* Generations.

Members(g, jb) == {j \in records : g \in jb[j].gens}

Retain(g, S) == [j \in Jobs |->
    IF j \in S THEN [job[j] EXCEPT !.gens = @ \cup {g}] ELSE job[j]]

\* release_flush_generation: every member becomes prunable, and is pruned
\* when nothing else holds it.
Release(g, jb) ==
    Prune([j \in Jobs |->
             IF j \in Members(g, jb)
             THEN [jb[j] EXCEPT !.gens = @ \ {g}, !.prune = TRUE]
             ELSE jb[j]],
          Members(g, jb))

\* Mutant: released records that await pruning are not considered owned.
RetainedOnly(r) == IsTerminal(r) /\ r.gens # {}

\* _owned_by_prior_generation.
OwnedByPriorGeneration(r) ==
    IsTerminal(r) /\ (r.gens # {} \/ r.prune)

\* _capture_flush_generation: the roots, and what is reachable from them
\* through registered children.  The cutoff is the largest registered
\* sequence number, so it excludes no record.
FlushCapture ==
    LET roots == {j \in records : ~ OwnedByPriorGeneration(job[j])}
        closed == {S \in SUBSET records :
                     /\ roots \subseteq S
                     /\ \A p \in S : children[p] \cap records \subseteq S}
    IN  {j \in records : \A S \in closed : j \in S}

\* Mutant: jobs that have not started yet are forgotten.
StartedOnly == {j \in records : job[j].state = "RUNNING"}

\* _capture_shutdown_generation.
ShutdownCapture == {j \in records : ~ IsTerminal(job[j])}

NextGen == genCount + 1

\* Mutant: the observer of a job is not waited for.
NotTerminalOf(S) == {j \in S : ~ IsTerminal(job[j])}

\* The pending members a scan finds.
PendingOf(S) == {j \in S : ~ Settled(job[j])}
OpenJobs == {j \in 1 .. accepted : ~ IsTerminal(job[j])}
ReportedJobs == UNION {flush[g].report : g \in Gens}
ReportedByFlush == UNION {flush[g].report : g \in Gens \ {shutGen}}

\* How flush() or _complete_shutdown ends once its report is complete.
Verdict(report, raises) ==
    IF raises /\ \E j \in report : job[j].state = "FAILURE"
    THEN "raised" ELSE "returned"

\* The report is built and the generation released in one step.
Publish(g, jb, raises) ==
    /\ flush' = [flush EXCEPT ![g] =
                   [status   |-> Verdict(Members(g, jb), raises),
                    awaiting |-> {},
                    report   |-> Members(g, jb)]]
    /\ Release(g, jb)

\* A generation's cutoff: what it owes by its contract, and what earlier
\* flushes have reported by then.
Cutoff(g) ==
    /\ genCount' = g
    /\ owed' = [owed EXCEPT ![g] = OpenJobs]
    /\ prior' = [prior EXCEPT ![g] = ReportedByFlush]

\* flush() with nothing pending: cutoff, report and release in one step.
FlushAtOnce ==
    LET g == NextGen
    IN  /\ g \in Gens
        /\ PendingOf(FlushCapture) = {}
        /\ Cutoff(g)
        /\ Publish(g, Retain(g, FlushCapture), TRUE)
        /\ UNCHANGED <<mgr, accepted, shutGen, policy, parent>>

\* flush() up to its first await: it gathers a wait() on every pending job.
FlushBegin ==
    LET g == NextGen
    IN  /\ g \in Gens
        /\ PendingOf(FlushCapture) # {}
        /\ Cutoff(g)
        /\ job' = Retain(g, FlushCapture)
        /\ flush' = [flush EXCEPT ![g].status = "waiting",
                                  ![g].awaiting = PendingOf(FlushCapture)]
        /\ UNCHANGED <<mgr, accepted, shutGen, policy, parent, records,
                       children>>

\* The gather is over and the scan found no pending member.
FlushEnd(g) ==
    /\ g # shutGen
    /\ flush[g].status = "waiting"
    /\ PendingOf(flush[g].awaiting) = {}
    /\ PendingOf(Members(g, job)) = {}
    /\ Publish(g, job, TRUE)
    /\ UNCHANGED <<mgr, accepted, genCount, shutGen, policy, parent, owed,
                   prior>>

\* The gather is over and the scan found members that joined meanwhile.  The
\* first scan of a shutdown, whose task starts by scanning, is here too.
Rescan(g) ==
    /\ flush[g].status = "waiting"
    /\ PendingOf(flush[g].awaiting) = {}
    /\ PendingOf(Members(g, job)) # {}
    /\ flush' = [flush EXCEPT ![g].awaiting = PendingOf(Members(g, job))]
    /\ UNCHANGED <<mgr, accepted, genCount, shutGen, policy, job, parent,
                   records, children, owed, prior>>

\* The task awaiting flush() is cancelled: its finally clause releases.
FlushCancelled(g) ==
    /\ CallersCancel
    /\ g # shutGen
    /\ flush[g].status = "waiting"
    /\ flush' = [flush EXCEPT ![g].status = "abandoned", ![g].awaiting = {}]
    /\ Release(g, job)
    /\ UNCHANGED <<mgr, accepted, genCount, shutGen, policy, parent, owed,
                   prior>>

\* Mutant: only jobs that have started are asked to cancel.
AskedWhenRunning(pol, j) == pol = "CANCEL" /\ job[j].task = "running"

\* _request_shutdown_cancellation: task.cancel() on an ended task is a no-op.
AskedToCancel(pol, j) == pol = "CANCEL" /\ ~ TaskDone(job[j])

\* The first shutdown() call.  Under CANCEL every captured task that has not
\* ended is asked to cancel; a task that has ended ignores the request.
Shutdown(pol) ==
    LET g == NextGen
        captured == ShutdownCapture
    IN  /\ g \in Gens
        /\ mgr = "OPEN"
        /\ mgr' = IF pol = "DRAIN" THEN "DRAINING" ELSE "CANCELLING"
        /\ policy' = pol
        /\ shutGen' = g
        /\ Cutoff(g)
        /\ job' = [j \in Jobs |->
             IF j \in captured
             THEN [job[j] EXCEPT
                     !.gens = @ \cup {g},
                     !.cancel = @ \/ AskedToCancel(pol, j)]
             ELSE job[j]]
        /\ flush' = [flush EXCEPT ![g].status = "waiting"]
        /\ UNCHANGED <<accepted, parent, records, children>>

\* The last step of _complete_shutdown.  Later shutdown() calls only await
\* the same task, so they change nothing.
ShutdownEnd ==
    /\ shutGen # NoGen
    /\ flush[shutGen].status = "waiting"
    /\ PendingOf(flush[shutGen].awaiting) = {}
    /\ PendingOf(Members(shutGen, job)) = {}
    /\ Publish(shutGen, job, policy = "DRAIN")
    /\ mgr' = "CLOSED"
    /\ UNCHANGED <<accepted, genCount, shutGen, policy, parent, owed, prior>>

\* prune_terminal().
PruneTerminal ==
    /\ UserPrunes
    /\ LET done == {j \in records : IsTerminal(job[j])}
       IN  Prune([j \in Jobs |-> IF j \in done
                                 THEN [job[j] EXCEPT !.prune = TRUE]
                                 ELSE job[j]], done)
    /\ onlyJob

\* retain_for_flush() called directly, with a generation of the caller's own.
RetainForFlush(g, j) ==
    /\ j \in records
    /\ job' = Retain(g, {j})
    /\ UNCHANGED <<records, children>>
    /\ onlyJob

\* release_flush_generation() called directly.
ReleaseFlushGeneration(g) ==
    /\ Release(g, job)
    /\ onlyJob

----------------------------------------------------------------------------
Init ==
    /\ mgr = "OPEN"
    /\ accepted = 0
    /\ genCount = 0
    /\ shutGen = NoGen
    /\ policy = "none"
    /\ job = [j \in Jobs |-> UnbornJob]
    /\ parent = [j \in Jobs |-> NoParent]
    /\ records = {}
    /\ children = [j \in Jobs |-> {}]
    /\ flush = [g \in Gens |-> [status |-> "unused", awaiting |-> {},
                                report |-> {}]]
    /\ owed = [g \in Gens |-> {}]
    /\ prior = [g \in Gens |-> {}]

JobStep(j) ==
    \/ Cancel(j)
    \/ Start(j)
    \/ NeverStart(j)
    \/ \E outcome \in Outcomes : Finish(j, outcome)
    \/ StopObserving(j)
    \/ OnTaskDone(j)
    \/ ObserverEnds(j)
    \/ OnObserverDone(j)

Next ==
    \/ \E p \in {NoParent} \cup 1 .. accepted : Submit(p)
    \/ \E j \in Jobs : JobStep(j)
    \/ FlushAtOnce
    \/ FlushBegin
    \/ \E g \in Gens : FlushEnd(g) \/ Rescan(g) \/ FlushCancelled(g)
    \/ \E pol \in Policies : Shutdown(pol)
    \/ ShutdownEnd
    \/ PruneTerminal
    \/ \E g \in ExtGens : \/ \E j \in Jobs : RetainForFlush(g, j)
                          \/ ReleaseFlushGeneration(g)

Spec == Init /\ [][Next]_vars

\* What the event loop guarantees: a ready task runs, a scheduled callback
\* is called.
LoopFairness ==
    /\ \A j \in Jobs : /\ WF_vars(Start(j))
                       /\ WF_vars(NeverStart(j))
                       /\ WF_vars(StopObserving(j))
                       /\ WF_vars(OnTaskDone(j))
                       /\ WF_vars(OnObserverDone(j))
    /\ \A g \in Gens : WF_vars(FlushEnd(g)) /\ WF_vars(Rescan(g))
    /\ WF_vars(ShutdownEnd)

\* Observers end; the manager runs them once and bounds them by nothing.
ObserverFairness == \A j \in Jobs : WF_vars(ObserverEnds(j))

\* Bodies end by themselves (the evaluator, the provider or the store answer).
\* Under a cancelling shutdown they may hang until they are cancelled.
BodyFairness ==
    \A j \in Jobs : WF_vars(/\ policy # "CANCEL" \/ job[j].cancel
                           /\ \E outcome \in Outcomes : Finish(j, outcome))

LiveSpec == Spec /\ LoopFairness /\ ObserverFairness /\ BodyFairness

----------------------------------------------------------------------------
FlushRecord == [status   : {"unused", "waiting", "returned", "raised",
                            "abandoned"},
                awaiting : SUBSET Jobs,
                report   : SUBSET Jobs]

\* Type invariant of the whole registry.
TypeOK ==
    /\ mgr \in {"OPEN", "DRAINING", "CANCELLING", "CLOSED"}
    /\ accepted \in 0 .. MaxJobs
    /\ genCount \in 0 .. MaxGens
    /\ shutGen \in 0 .. MaxGens
    /\ policy \in {"none", "DRAIN", "CANCEL"}
    /\ job \in [Jobs -> JobRecord]
    /\ parent \in [Jobs -> 0 .. MaxJobs]
    /\ records \subseteq Jobs
    /\ children \in [Jobs -> SUBSET Jobs]
    /\ flush \in [Gens -> FlushRecord]
    /\ owed \in [Gens -> SUBSET Jobs]
    /\ prior \in [Gens -> SUBSET Jobs]

Reported(g) == flush[g].status \in {"returned", "raised"}

\* A flush or shutdown that ends reports every job that was open at its
\* cutoff and every descendant accepted while it waited, each with its final
\* outcome and its observer ended (flush, _wait_for_flush_generation).
ReportComplete ==
    \A g \in Gens : Reported(g) =>
        /\ owed[g] \subseteq flush[g].report
        /\ \A j \in flush[g].report : Settled(job[j])

\* While a generation waits, each job it owes is registered and tagged with
\* it: no prune, release or overlapping generation takes one away.
OwedRetained ==
    \A g \in Gens : flush[g].status = "waiting" =>
        \A j \in owed[g] : j \in records /\ g \in job[j].gens

\* A generation that starts after a flush has reported never reports one of
\* that flush's jobs again, although the record may still be registered
\* (_owned_by_prior_generation).  Overlapping flushes may share a job.
NoDoubleReport ==
    \A g \in Gens : Reported(g) => flush[g].report \cap prior[g] = {}

\* API_REFERENCE.md:200: a job that failed is reported by flush() or shutdown.
\* So a record leaves the registry only after some generation reported it.
NoOutcomeLost == (1 .. accepted) \ records \subseteq ReportedJobs

\* After shutdown has completed no accepted job is still open, whichever
\* policy ran, whatever was submitted while it drained.
ClosedQuiescent == mgr = "CLOSED" => OpenJobs = {}

\* While shutdown runs every open job belongs to its generation: a child
\* accepted by a drain joined it through its parent.
ShutdownCovers ==
    mgr \in {"DRAINING", "CANCELLING"} =>
        \A j \in OpenJobs : j \in records /\ shutGen \in job[j].gens

\* The child index holds exactly the registered jobs of each parent: pruning
\* leaves no dangling entry that a later traversal could follow.
ChildIndexExact ==
    \A p \in Jobs : children[p] = {j \in records : parent[j] = p}

KeepsOutcome(j) ==
    IsTerminal(job[j]) =>
        /\ job'[j].state = job[j].state
        /\ job[j].obs \in {"done", "settled"} => job'[j].obs # "running"

\* An outcome is committed once: no callback, late cancellation or ended task
\* changes it, and the observer is never started a second time.
OutcomeIsFinal == [][\A j \in Jobs : KeepsOutcome(j)]_vars

\* Every accepted job reaches a terminal state, every flush comes to an end
\* although children may join it meanwhile, and so does a shutdown that has
\* begun, although it waits for both (_run, flush, _complete_shutdown).
WorkEnds ==
    /\ \A j \in Jobs : (accepted >= j) ~> IsTerminal(job[j])
    /\ \A g \in Gens : (flush[g].status = "waiting") ~>
                        (flush[g].status # "waiting")
    /\ (mgr \in {"DRAINING", "CANCELLING"}) ~> (mgr = "CLOSED")

\* The registry does not leak: a terminal record marked for pruning is
\* removed, unless a generation takes hold of it.
MarkedRecordsGo ==
    \A j \in Jobs :
        (j \in records /\ IsTerminal(job[j]) /\ job[j].prune)
            ~> (j \notin records)
=============================================================================
