---------------------------- MODULE WorkContract ----------------------------
(***************************************************************************)
(* What the callers of AsyncWorkManager rely on, without its registry: a   *)
(* job that was accepted gets one outcome; flush() and shutdown() promise  *)
(* the jobs open at the call and everything accepted below them, and end   *)
(* only when each of these has its outcome; after a shutdown nothing is    *)
(* open.  There are no tasks, callbacks, observers, tags or pruning here.  *)
(***************************************************************************)
EXTENDS Naturals

CONSTANTS MaxJobs, MaxGens

Jobs == 1 .. MaxJobs
Gens == 1 .. MaxGens
FinalOutcomes == {"SUCCESS", "FAILURE", "CANCELLATION"}

VARIABLES
    phase,      \* "open", "closing" or "closed"
    outcome,    \* "none" before acceptance, "open", or the final outcome
    promise,    \* the promise of every flush() and of the shutdown
    closer      \* the promise shutdown() made, 0 when there is none

cvars == <<phase, outcome, promise, closer>>

OpenJobs == {j \in Jobs : outcome[j] = "open"}
Unmade == [status |-> "unmade", owed |-> {}]

Init ==
    /\ phase = "open"
    /\ outcome = [j \in Jobs |-> "none"]
    /\ promise = [g \in Gens |-> Unmade]
    /\ closer = 0

\* A job is accepted, below p when p is a job.  Once closing, only below a
\* job that is still open.
Accept(n, p) ==
    /\ outcome[n] = "none"
    /\ phase = "open" \/ (phase = "closing" /\ p \in OpenJobs)
    /\ outcome' = [outcome EXCEPT ![n] = "open"]
    /\ promise' = [g \in Gens |->
                     IF promise[g].status = "standing" /\ p \in promise[g].owed
                     THEN [promise[g] EXCEPT !.owed = @ \cup {n}]
                     ELSE promise[g]]
    /\ UNCHANGED <<phase, closer>>

Settle(j, o) ==
    /\ outcome[j] = "open"
    /\ outcome' = [outcome EXCEPT ![j] = o]
    /\ UNCHANGED <<phase, promise, closer>>

\* flush() is called; when nothing is open it may end at once.
Make(g) ==
    /\ promise[g].status = "unmade"
    /\ \/ promise' = [promise EXCEPT ![g] = [status |-> "standing",
                                             owed |-> OpenJobs]]
       \/ /\ OpenJobs = {}
          /\ promise' = [promise EXCEPT ![g].status = "kept"]
    /\ UNCHANGED <<phase, outcome, closer>>

Keepable(g) ==
    promise[g].status = "standing" /\ promise[g].owed \cap OpenJobs = {}

Keep(g) ==
    /\ g # closer
    /\ Keepable(g)
    /\ promise' = [promise EXCEPT ![g].status = "kept"]
    /\ UNCHANGED <<phase, outcome, closer>>

\* The caller of flush() goes away.
Withdraw(g) ==
    /\ g # closer
    /\ promise[g].status = "standing"
    /\ promise' = [promise EXCEPT ![g].status = "withdrawn"]
    /\ UNCHANGED <<phase, outcome, closer>>

BeginClose(g) ==
    /\ phase = "open"
    /\ promise[g].status = "unmade"
    /\ phase' = "closing"
    /\ closer' = g
    /\ promise' = [promise EXCEPT ![g] = [status |-> "standing",
                                          owed |-> OpenJobs]]
    /\ UNCHANGED outcome

\* Closing ends with nothing open, not only with the promise kept.
EndClose ==
    /\ phase = "closing"
    /\ OpenJobs = {}
    /\ phase' = "closed"
    /\ promise' = [promise EXCEPT ![closer].status = "kept"]
    /\ UNCHANGED <<outcome, closer>>

Next ==
    \/ \E n \in Jobs, p \in {0} \cup Jobs : Accept(n, p)
    \/ \E j \in Jobs, o \in FinalOutcomes : Settle(j, o)
    \/ \E g \in Gens : Make(g) \/ Keep(g) \/ Withdraw(g) \/ BeginClose(g)
    \/ EndClose

Spec == Init /\ [][Next]_cvars
=============================================================================
