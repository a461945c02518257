----------------------- MODULE WorkManagerRefinement -----------------------
(***************************************************************************)
(* AsyncWorkManager implements WorkContract.                               *)
(***************************************************************************)
EXTENDS WorkManager

\* A job is open from its acceptance to its terminal state.
OutcomeOf(j) ==
    IF j > accepted THEN "none"
    ELSE IF IsTerminal(job[j]) THEN job[j].state ELSE "open"

PhaseOf ==
    IF mgr = "OPEN" THEN "open"
    ELSE IF mgr = "CLOSED" THEN "closed" ELSE "closing"

PromiseStatus(g) ==
    IF flush[g].status = "unused" THEN "unmade"
    ELSE IF flush[g].status = "waiting" THEN "standing"
    ELSE IF Reported(g) THEN "kept" ELSE "withdrawn"

PromiseOf(g) == [status |-> PromiseStatus(g), owed |-> owed[g]]

Contract == INSTANCE WorkContract WITH
    phase   <- PhaseOf,
    outcome <- [j \in Jobs |-> OutcomeOf(j)],
    promise <- [g \in Gens |-> PromiseOf(g)],
    closer  <- shutGen

\* The registry, with its tags, inheritance, callbacks and pruning, keeps
\* the promises flush() and shutdown() make to their callers.
ImplementsContract == Contract!Spec
=============================================================================
