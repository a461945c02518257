----------------------------- MODULE LangChain -----------------------------
(***************************************************************************)
(* The LangChain integration (experia/integrations/langchain/builder.py,   *)
(* callbacks.py, _dispatch.py, _candidates.py): callbacks of interleaved   *)
(* runs build one candidate per chain run and hand it to the Learner.      *)
(*                                                                         *)
(* LangChain delivers callbacks in any order, late, twice or not at all.   *)
(* A registry operation holds a lock around code without an await, and     *)
(* take_candidate and the dispatch have no suspension between them, so a   *)
(* callback up to its first await of the Learner is one step.              *)
(***************************************************************************)
EXTENDS Naturals, Sequences

CONSTANTS
    Chains,         \* run ids of top-level chains
    Tools,          \* run ids of tool invocations
    Modes,          \* callback modes: "background", "durable"
    MaxStarts,      \* bound: times a chain run id is registered
    Texts,          \* tasks and tool results: "text", "blank"
    Policies,       \* the shutdown policies callers may choose
    SaveMayFail     \* save_experience may fail

ASSUME LangChainSwitches ==
    /\ Modes \subseteq {"background", "durable"}
    /\ SaveMayFail \in BOOLEAN /\ MaxStarts \in Nat
    /\ Texts \subseteq {"text", "blank"}

NoChain == "no_chain"
ASSUME ChainNames == NoChain \notin Chains

\* The n-th registration of a chain run id.
Runs == Chains \X (1 .. MaxStarts)

VARIABLES
    mode,       \* callback_mode
    active,     \* active_runs: the state of every registered chain
    parent,     \* _tool_parents
    starts,     \* registrations of every chain run id so far
    record,     \* the record made of every consumed run
    told,       \* integration events of every run, ORPHAN left out
    saved,      \* runs whose experience is in the store
    learner,    \* state of the Learner's work manager
    policy      \* its shutdown policy

lcvars == <<mode, active, parent, starts, record, told, saved, learner, policy>>

Durable == mode = "durable"

\* ChainRunState; results holds ToolRunState.result, "none" while running.
Absent == [live |-> FALSE, task |-> "none", order |-> <<>>,
           completed |-> <<>>, results |-> [t \in Tools |-> "none"]]

InOrder(c) == {active[c].order[i] : i \in DOMAIN active[c].order}
RunOf(c) == <<c, starts[c]>>
Tell(k, event) == told' = [told EXCEPT ![k] = Append(@, event)]

----------------------------------------------------------------------------
\* start_chain: a duplicate start leaves the state alone.  A run id may be
\* registered again once its run was consumed.
ChainStart(c, task) ==
    /\ ~ active[c].live
    /\ starts[c] < MaxStarts
    /\ active' = [active EXCEPT ![c] = [Absent EXCEPT !.live = TRUE,
                                                      !.task = task]]
    /\ starts' = [starts EXCEPT ![c] = @ + 1]
    /\ UNCHANGED <<mode, parent, record, told, saved, learner, policy>>

\* A ChainRunState with a tool started, and with a tool completed.
Started(run, t) ==
    [run EXCEPT !.order = Append(@, t), !.results = [@ EXCEPT ![t] = "none"]]
Completed(run, t, result) ==
    [run EXCEPT !.completed = Append(@, t), !.results = [@ EXCEPT ![t] = result]]

FreshTool(t, c) == parent[t] = NoChain

\* start_tool: the chain must be registered and the tool id unknown.  What
\* is an orphan or a duplicate changes nothing.
ToolStart(t, c) ==
    /\ active[c].live
    /\ FreshTool(t, c)
    /\ active' = [active EXCEPT ![c] = Started(@, t)]
    /\ parent' = [parent EXCEPT ![t] = c]
    /\ UNCHANGED <<mode, starts, record, told, saved, learner, policy>>

Unfinished(t, c) == parent[t] = c /\ active[c].results[t] = "none"

\* finish_tool, for on_tool_end and on_tool_error.
ToolFinish(t, c, result) ==
    /\ active[c].live
    /\ Unfinished(t, c)
    /\ active' = [active EXCEPT ![c] = Completed(@, t, result)]
    /\ UNCHANGED <<mode, parent, starts, record, told, saved, learner, policy>>

\* The candidate's result: that of the tool that finished last, else the
\* chain's own output or error.
ResultOf(c) ==
    LET done == active[c].completed
    IN  IF done = <<>> THEN "text" ELSE active[c].results[done[Len(done)]]

\* finalize_experience_candidate: no input of record() may be blank; the
\* action is blank when no tool was started.
Valid(c) ==
    /\ active[c].task # "blank"
    /\ active[c].order # <<>>
    /\ ResultOf(c) # "blank"

\* Mutant: the tools of a consumed run stay in _tool_parents.
ReleasedNone(c) == parent

\* The parents left when chain c is consumed.
Released(c) == [t \in Tools |-> IF parent[t] = c THEN NoChain ELSE parent[t]]

\* Mutant: a shutting down Learner is not noticed before the run is popped.
MayTakeAlways == TRUE

\* assert_accepting: otherwise LifecycleError is raised and the run is kept.
MayTake == learner = "open"

\* Mutant: the run is not popped.
ConsumedNot(c) == active

Consumed(c) == [active EXCEPT ![c] = Absent]

\* on_chain_end and on_chain_error: take_candidate, then the dispatch.  In
\* background mode a RECORD job is submitted; in durable mode record() runs
\* in the callback.  Both refuse when the Learner is not open.
ChainEnd(c) ==
    /\ active[c].live
    /\ Valid(c) => MayTake
    /\ active' = Consumed(c)
    /\ parent' = Released(c)
    /\ \/ /\ ~ Valid(c)
          /\ Tell(RunOf(c), "NO_EXPERIENCE")
          /\ UNCHANGED record
       \/ /\ Valid(c)
          /\ record' = [record EXCEPT ![RunOf(c)] =
                IF learner = "open" THEN "saving" ELSE "rejected"]
          /\ UNCHANGED told
    /\ UNCHANGED <<mode, starts, saved, learner, policy>>

----------------------------------------------------------------------------
\* The record in the Learner: as a job, or in the callback's own task.

Saved(k) ==
    /\ record[k] = "saving"
    /\ saved' = saved \cup {k}
    /\ record' = [record EXCEPT ![k] = "saved"]
    /\ UNCHANGED <<mode, active, parent, starts, told, learner, policy>>

\* on_failure.
FailureEvent == "FAILED"

SaveFails(k) ==
    /\ SaveMayFail
    /\ record[k] = "saving"
    /\ record' = [record EXCEPT ![k] = "failed"]
    /\ Tell(k, FailureEvent)
    /\ UNCHANGED <<mode, active, parent, starts, saved, learner, policy>>

\* Does the Learner take the evaluation of a record that was saved?
TakesEvaluation ==
    learner = "open" \/ (~ Durable /\ learner = "closing" /\ policy = "DRAIN")

\* Mutant: a refused evaluation is not handled.
RecordedOrNothing(k) ==
    /\ record[k] = "saved"
    /\ TakesEvaluation
    /\ record' = [record EXCEPT ![k] = "recorded"]
    /\ Tell(k, "RECORDED")
    /\ UNCHANGED <<mode, active, parent, starts, saved, learner, policy>>

\* The save has returned: the evaluation is submitted, and on_success or
\* on_failure called.
Recorded(k) ==
    /\ record[k] = "saved"
    /\ IF TakesEvaluation
       THEN /\ record' = [record EXCEPT ![k] = "recorded"]
            /\ Tell(k, "RECORDED")
       ELSE /\ record' = [record EXCEPT ![k] = "failed"]
            /\ Tell(k, FailureEvent)
    /\ UNCHANGED <<mode, active, parent, starts, saved, learner, policy>>

\* A cancelled record calls neither on_success nor on_failure: a job is
\* cancelled by a cancelling shutdown, a durable callback by its own caller.
RecordCancelled(k) ==
    /\ record[k] \in {"saving", "saved"}
    /\ Durable \/ policy = "CANCEL"
    /\ record' = [record EXCEPT ![k] = "cancelled"]
    /\ UNCHANGED <<mode, active, parent, starts, told, saved, learner, policy>>

Shutdown(pol) ==
    /\ learner = "open"
    /\ learner' = "closing"
    /\ policy' = pol
    /\ UNCHANGED <<mode, active, parent, starts, record, told, saved>>

\* The shutdown waits for record jobs, and not for durable callbacks.
ShutdownEnds ==
    /\ learner = "closing"
    /\ Durable \/ \A k \in Runs : record[k] \notin {"saving", "saved"}
    /\ learner' = "closed"
    /\ UNCHANGED <<mode, active, parent, starts, record, told, saved, policy>>

----------------------------------------------------------------------------
Init ==
    /\ mode \in Modes
    /\ active = [c \in Chains |-> Absent]
    /\ parent = [t \in Tools |-> NoChain]
    /\ starts = [c \in Chains |-> 0]
    /\ record = [k \in Runs |-> "none"]
    /\ told = [k \in Runs |-> <<>>]
    /\ saved = {}
    /\ learner = "open"
    /\ policy = "none"

RecordStep(k) == Saved(k) \/ SaveFails(k) \/ Recorded(k) \/ RecordCancelled(k)

Next ==
    \/ \E c \in Chains : \/ \E task \in Texts : ChainStart(c, task)
                         \/ \E t \in Tools : ToolStart(t, c)
                         \/ \E t \in Tools, r \in Texts : ToolFinish(t, c, r)
                         \/ ChainEnd(c)
    \/ \E k \in Runs : RecordStep(k)
    \/ \E pol \in Policies : Shutdown(pol)
    \/ ShutdownEnds

Spec == Init /\ [][Next]_lcvars

\* The store answers and the event loop resumes the record.
LiveSpec ==
    /\ Spec
    /\ \A k \in Runs : WF_lcvars(Saved(k) \/ SaveFails(k) \/ Recorded(k))
    /\ WF_lcvars(ShutdownEnds)

----------------------------------------------------------------------------
\* The registry's two maps agree: a tool belongs to the one registered chain
\* that lists it, once, no entry outlives its chain, and what finished was
\* started in that run and finished once; so a reused id is never an orphan
\* and never taken for another chain's tool (ChainRunState, _tool_parents).
RegistryConsistent ==
    /\ \A t \in Tools :
        /\ parent[t] \in {NoChain} \cup {c \in Chains : active[c].live}
        /\ \A c \in Chains : t \in InOrder(c) <=> parent[t] = c
    /\ \A c \in Chains :
        LET done == active[c].completed
        IN  /\ \A i \in DOMAIN done : done[i] \in InOrder(c)
            /\ \A i, j \in DOMAIN done : done[i] = done[j] => i = j

\* A run is told about at most once, whatever callbacks are repeated, and
\* RECORDED only when its experience is in the store (_emit_outcome).
ToldTruthfully ==
    \A k \in Runs : /\ told[k] \in {<<>>, <<"RECORDED">>, <<"FAILED">>,
                                     <<"NO_EXPERIENCE">>}
                    /\ told[k] = <<"RECORDED">> => k \in saved

\* A run with an experience in it leaves the registry only into a record the
\* Learner has accepted, so a shutdown keeps it (_finalize_and_record).
RunsAreHandedOver ==
    [][\A c \in Chains :
           (active[c].live /\ ~ active'[c].live) =>
               \/ record'[RunOf(c)] = "saving"
               \/ told'[RunOf(c)] = <<"NO_EXPERIENCE">>]_lcvars

\* And every accepted record ends although the shutdown may refuse its
\* evaluation.
RunsAreNotLost ==
    /\ RunsAreHandedOver
    /\ \A k \in Runs : (record[k] = "saving") ~>
           (record[k] \in {"recorded", "failed", "cancelled"})
=============================================================================
