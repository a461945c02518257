------------------------- MODULE WorkContractProofs -------------------------
(***************************************************************************)
(* AsyncWorkManager implements WorkContract, for every number of jobs and  *)
(* generations: each step of WorkManager is a step of the contract, or     *)
(* changes nothing its callers see.                                        *)
(***************************************************************************)
EXTENDS WorkManagerRefinement, WorkManagerProofs

USE DEF Jobs, Gens

\* What the mapping needs beside IInv: who has not called owes nothing.
UnusedOwesNothing ==
    \A g \in Gens : flush[g].status = "unused" => owed[g] = {}

RInv == IInv /\ UnusedOwesNothing

\* What the callers see of the jobs, and of the calls.
SameOutcomes ==
    /\ accepted' = accepted
    /\ \A j \in Jobs : OutcomeOf(j)' = OutcomeOf(j)
SamePromises ==
    \A g \in Gens : /\ PromiseStatus(g)' = PromiseStatus(g)
                    /\ owed'[g] = owed[g]
OtherPromises(g) ==
    \A h \in Gens \ {g} : /\ PromiseStatus(h)' = PromiseStatus(h)
                          /\ owed'[h] = owed[h]
-----------------------------------------------------------------------------
LEMMA OpenJobsMap ==
    ASSUME IInv
    PROVE  Contract!OpenJobs = OpenJobs
  <1>1. accepted \in 0 .. MaxJobs /\ job \in [Jobs -> JobRecord]
    BY DEF IInv, TypeOK
  <1>2. \A j \in Jobs : job[j].state \in Live \cup Terminal
    BY <1>1 DEF JobRecord
  <1>3. \A j \in Jobs : OutcomeOf(j) = "open" <=> j \in OpenJobs
    BY <1>1, <1>2, BoundsAssumption
       DEF OutcomeOf, OpenJobs, IsTerminal, Live, Terminal
  <1>4. OpenJobs \subseteq Jobs
    BY <1>1, BoundsAssumption DEF OpenJobs
  <1> QED
    BY <1>3, <1>4 DEF Contract!OpenJobs, Contract!Jobs

\* A step that changes no outcome, no promise and no phase is not seen.
LEMMA Unseen ==
    ASSUME SameOutcomes, SamePromises, UNCHANGED <<mgr, shutGen>>
    PROVE  UNCHANGED Contract!cvars
  <1>1. \A g \in Gens : PromiseOf(g)' = PromiseOf(g)
    BY DEF SamePromises, PromiseOf
  <1>2. PhaseOf' = PhaseOf
    BY DEF PhaseOf
  <1> QED
    BY <1>1, <1>2 DEF SameOutcomes, Contract!cvars

LEMMA StatesKept ==
    ASSUME IInv, accepted' = accepted,
           \A j \in Jobs : job'[j].state = job[j].state
    PROVE  SameOutcomes
    BY DEF SameOutcomes, OutcomeOf, IsTerminal

LEMMA OnlyJobPromises ==
    ASSUME onlyJob
    PROVE  SamePromises /\ UNCHANGED <<mgr, shutGen>>
    BY DEF onlyJob, SamePromises, PromiseStatus, Reported

-----------------------------------------------------------------------------
\* A step of one job commits its outcome or is not seen.
LEMMA OneJobMaps ==
    ASSUME IInv, QuietStep, NEW j \in Jobs,
           \A k \in Jobs : k # j => job'[k].state = job[k].state
    PROVE  Contract!Next \/ UNCHANGED Contract!cvars
  <1>1. /\ accepted \in 0 .. MaxJobs /\ accepted' = accepted
        /\ job'[j] \in JobRecord /\ onlyJob
    BY DEF IInv, TypeOK, QuietStep, onlyJob
  <1>2. SamePromises /\ UNCHANGED <<mgr, shutGen>>
    BY <1>1, OnlyJobPromises
  <1>3. \A k \in Jobs : k # j => OutcomeOf(k)' = OutcomeOf(k)
    BY <1>1 DEF OutcomeOf, IsTerminal
  <1>4. CASE OutcomeOf(j)' = OutcomeOf(j)
    BY <1>1, <1>2, <1>3, <1>4, Unseen DEF SameOutcomes
  <1>5. CASE OutcomeOf(j)' # OutcomeOf(j)
    <2>1. j <= accepted /\ ~ IsTerminal(job[j]) /\ IsTerminal(job'[j])
      <3>1. IsTerminal(job[j]) => job'[j].state = job[j].state
        BY DEF QuietStep
      <3> QED
        BY <1>1, <1>5, <3>1 DEF OutcomeOf, IsTerminal
    <2> DEFINE o == job'[j].state
    <2>2. o \in Contract!FinalOutcomes
      BY <2>1 DEF IsTerminal, Terminal, Contract!FinalOutcomes
    <2>3. OutcomeOf(j) = "open" /\ OutcomeOf(j)' = o
      BY <1>1, <2>1 DEF OutcomeOf, IsTerminal
    <2> HIDE DEF o
    <2>4. [k \in Jobs |-> OutcomeOf(k)']
            = [[k \in Jobs |-> OutcomeOf(k)] EXCEPT ![j] = o]
      BY <1>3, <2>3
    <2>5. \A g \in Gens : PromiseOf(g)' = PromiseOf(g)
      BY <1>2 DEF SamePromises, PromiseOf
    <2>6. PhaseOf' = PhaseOf
      BY <1>2 DEF PhaseOf
    <2>7. Contract!Settle(j, o)
      BY <1>2, <2>3, <2>4, <2>5, <2>6 DEF Contract!Settle
    <2> QED
      BY <2>2, <2>7 DEF Contract!Next, Contract!Jobs
  <1> QED
    BY <1>4, <1>5

LEMMA OthersUntouched ==
    ASSUME IInv, NEW j \in Jobs, JobStep(j), NEW k \in Jobs, k # j
    PROVE  job'[k] = job[k]
  <1>1. job \in [Jobs -> JobRecord]
    BY DEF IInv, TypeOK
  <1> QED
    BY <1>1 DEF JobStep, Cancel, Start, NeverStart, Finish, StopObserving,
                OnTaskDone, ObserverEnds, OnObserverDone, Prune

LEMMA JobStepMaps ==
    ASSUME IInv, NEW j \in Jobs, JobStep(j)
    PROVE  Contract!Next \/ UNCHANGED Contract!cvars
  <1>1. QuietStep
    BY JobStepQuiet
  <1> QED
    BY <1>1, OthersUntouched, OneJobMaps

\* prune_terminal() and the direct calls of retain and release.
LEMMA RegistryStepMaps ==
    ASSUME IInv,
           \/ PruneTerminal
           \/ \E g \in ExtGens, j \in Jobs : RetainForFlush(g, j)
           \/ \E g \in ExtGens : ReleaseFlushGeneration(g)
    PROVE  UNCHANGED Contract!cvars
  <1>1. job \in [Jobs -> JobRecord]
    BY DEF IInv, TypeOK
  <1>2. CASE PruneTerminal
    <2>1. onlyJob /\ \A j \in Jobs : job'[j].state = job[j].state
      BY <1>1, <1>2 DEF PruneTerminal, Prune, JobRecord
    <2> QED
      BY <2>1, StatesKept, OnlyJobPromises, Unseen DEF onlyJob
  <1>3. CASE \E g \in ExtGens, j \in Jobs : RetainForFlush(g, j)
    <2>1. onlyJob /\ \A j \in Jobs : job'[j].state = job[j].state
      BY <1>1, <1>3 DEF RetainForFlush, Retain, JobRecord
    <2> QED
      BY <2>1, StatesKept, OnlyJobPromises, Unseen DEF onlyJob
  <1>4. CASE \E g \in ExtGens : ReleaseFlushGeneration(g)
    <2>1. PICK g \in ExtGens : Release(g, job) /\ onlyJob
      BY <1>4 DEF ReleaseFlushGeneration
    <2>2. job' = [j \in Jobs |->
                    IF j \in Members(g, job)
                    THEN [job[j] EXCEPT !.gens = @ \ {g}, !.prune = TRUE]
                    ELSE job[j]]
      BY <2>1 DEF Release, Prune
    <2>3. \A j \in Jobs : job'[j].state = job[j].state
      BY <1>1, <2>2 DEF JobRecord
    <2> QED
      BY <2>1, <2>3, StatesKept, OnlyJobPromises, Unseen DEF onlyJob
  <1> QED
    BY <1>2, <1>3, <1>4

-----------------------------------------------------------------------------
LEMMA SubmitMaps ==
    ASSUME RInv, NEW p \in {NoParent} \cup 1 .. accepted, Submit(p)
    PROVE  Contract!Next
  <1>0. PICK n \in Jobs : n = accepted + 1
    BY DEF Submit
  <1>1. /\ accepted \in 0 .. MaxJobs /\ job \in [Jobs -> JobRecord]
        /\ owed \in [Gens -> SUBSET Jobs] /\ IInv
        /\ \A g \in Gens : PromiseStatus(g) = "standing" <=> flush[g].status = "waiting"
    BY DEF RInv, IInv, TypeOK, PromiseStatus
  <1>2. /\ Accepts(p) /\ accepted' = n
        /\ job' = [job EXCEPT ![n] = [UnbornJob EXCEPT
                       !.task = "scheduled", !.gens = InheritedGens(p)]]
        /\ \A g \in Gens :
             owed'[g] = IF flush[g].status = "waiting" /\ p \in owed[g]
                        THEN owed[g] \cup {n} ELSE owed[g]
        /\ UNCHANGED <<mgr, shutGen, flush>>
    BY <1>0 DEF Submit
  <1>3. PhaseOf = "open" \/ (PhaseOf = "closing" /\ p \in Contract!OpenJobs)
    <2>1. CASE mgr = "OPEN"
      BY <2>1 DEF PhaseOf
    <2>2. CASE mgr = "DRAINING" /\ p \in records /\ ~ IsTerminal(job[p])
      <3>1. p \in OpenJobs
        BY <1>1, <2>2 DEF IInv, RegistryInv, OpenJobs
      <3> QED
        BY <1>1, <2>2, <3>1, OpenJobsMap DEF PhaseOf
    <2> QED
      BY <1>2, <2>1, <2>2 DEF Accepts
  <1>4. /\ OutcomeOf(n) = "none" /\ OutcomeOf(n)' = "open"
        /\ \A k \in Jobs : k # n => OutcomeOf(k)' = OutcomeOf(k)
    <2>2. job'[n].state = "PENDING" /\ \A k \in Jobs : k # n => job'[k] = job[k]
      BY <1>1, <1>2 DEF UnbornJob
    <2>3. accepted' = n /\ accepted \in Nat
      BY <1>1, <1>2
    <2> QED
      BY <1>0, <2>2, <2>3 DEF OutcomeOf, IsTerminal, Terminal
  <1>5. [k \in Jobs |-> OutcomeOf(k)']
          = [[k \in Jobs |-> OutcomeOf(k)] EXCEPT ![n] = "open"]
    BY <1>4
  <1>6. \A g \in Gens :
          PromiseOf(g)' = IF PromiseOf(g).status = "standing" /\ p \in PromiseOf(g).owed
                          THEN [PromiseOf(g) EXCEPT !.owed = @ \cup {n}]
                          ELSE PromiseOf(g)
    <2> TAKE g \in Gens
    <2>1. PromiseStatus(g)' = PromiseStatus(g)
      BY <1>2 DEF PromiseStatus, Reported
    <2> QED
      BY <1>1, <1>2, <2>1 DEF PromiseOf
  <1>7. Contract!Accept(n, p)
    BY <1>2, <1>3, <1>4, <1>5, <1>6 DEF Contract!Accept, Contract!Gens, PhaseOf
  <1>8. p \in {0} \cup Jobs
    BY <1>1, BoundsAssumption DEF NoParent
  <1> QED
    BY <1>2, <1>7, <1>8 DEF Contract!Next, Contract!Jobs

-----------------------------------------------------------------------------
\* A step on generation g, which changes its status and what it owes.
LEMMA PromiseUpdate ==
    ASSUME NEW g \in Gens, OtherPromises(g)
    PROVE  [h \in Gens |-> PromiseOf(h)']
             = [[h \in Gens |-> PromiseOf(h)] EXCEPT ![g] = PromiseOf(g)']
    BY DEF OtherPromises, PromiseOf

LEMMA StatusUpdate ==
    ASSUME NEW g \in Gens, OtherPromises(g), owed'[g] = owed[g]
    PROVE  [h \in Gens |-> PromiseOf(h)']
             = [[h \in Gens |-> PromiseOf(h)]
                  EXCEPT ![g].status = PromiseStatus(g)']
    BY DEF OtherPromises, PromiseOf

LEMMA TagStepOutcomes ==
    ASSUME IInv, \E h \in Gens : TagStep(h)
    PROVE  SameOutcomes
  <1>1. accepted' = accepted /\ \A j \in Jobs : job'[j].state = job[j].state
    BY DEF TagStep
  <1> QED
    BY <1>1, StatesKept

\* What a call of flush() or shutdown() starts from.
LEMMA NextGenUnmade ==
    ASSUME RInv, NEW g \in Gens, g = NextGen
    PROVE  /\ PromiseOf(g) = [status |-> "unmade", owed |-> {}]
           /\ flush[g].status = "unused"
           /\ owed[g] = {}
           /\ g # shutGen
  <1>1. flush[g].status = "unused" /\ g # shutGen
    BY NextGenFresh DEF RInv
  <1> QED
    BY <1>1 DEF RInv, UnusedOwesNothing, PromiseOf, PromiseStatus

LEMMA FlushAtOnceMaps ==
    ASSUME RInv, FlushAtOnce
    PROVE  Contract!Next
  <1>0. PICK g \in Gens : g = NextGen
    BY DEF FlushAtOnce
  <1>1. /\ IInv /\ OpenJobs = {} /\ SameOutcomes
        /\ flush \in [Gens -> FlushRecord] /\ owed \in [Gens -> SUBSET Jobs]
    <2>1. IInv
      BY DEF RInv
    <2>2. OpenJobs \subseteq PendingOf(FlushCapture)
      BY <2>1, CaptureEffect DEF PendingOf, OpenJobs, Settled
    <2>3. PendingOf(FlushCapture) = {}
      BY DEF FlushAtOnce
    <2> QED
      BY <2>1, <2>2, <2>3, FlushAtOncePreserves, TagStepOutcomes DEF IInv, TypeOK
  <1>2. /\ \E V \in {"returned", "raised"} : \E R :
              flush' = [flush EXCEPT ![g] = [status |-> V, awaiting |-> {},
                                             report |-> R]]
        /\ owed' = [owed EXCEPT ![g] = OpenJobs]
        /\ UNCHANGED <<mgr, shutGen>>
    BY <1>0 DEF FlushAtOnce, Publish, Verdict, Cutoff
  <1>3. OtherPromises(g) /\ PromiseStatus(g)' = "kept" /\ owed'[g] = {}
    BY <1>1, <1>2 DEF OtherPromises, PromiseStatus, Reported
  <1>4. PromiseStatus(g) = "unmade" /\ owed[g] = {}
    BY <1>0, NextGenUnmade DEF PromiseOf
  <1>5. [h \in Gens |-> PromiseOf(h)']
          = [[h \in Gens |-> PromiseOf(h)] EXCEPT ![g].status = "kept"]
    BY <1>3, <1>4, StatusUpdate
  <1>6. Contract!Make(g)
    BY <1>1, <1>2, <1>4, <1>5, OpenJobsMap
       DEF Contract!Make, SameOutcomes, PhaseOf, PromiseOf
  <1> QED
    BY <1>6 DEF Contract!Next, Contract!Gens

LEMMA FlushBeginMaps ==
    ASSUME RInv, FlushBegin
    PROVE  Contract!Next
  <1>0. PICK g \in Gens : g = NextGen
    BY DEF FlushBegin
  <1>1. /\ IInv /\ SameOutcomes
        /\ flush \in [Gens -> FlushRecord] /\ owed \in [Gens -> SUBSET Jobs]
    BY FlushBeginPreserves, TagStepOutcomes DEF RInv, IInv, TypeOK
  <1>2. /\ flush' = [flush EXCEPT ![g].status = "waiting",
                                  ![g].awaiting = PendingOf(FlushCapture)]
        /\ owed' = [owed EXCEPT ![g] = OpenJobs]
        /\ UNCHANGED <<mgr, shutGen>>
    BY <1>0 DEF FlushBegin, Cutoff
  <1>3. OtherPromises(g) /\ PromiseStatus(g)' = "standing" /\ owed'[g] = OpenJobs
    BY <1>1, <1>2 DEF OtherPromises, PromiseStatus, Reported, FlushRecord
  <1>4. PromiseStatus(g) = "unmade"
    BY <1>0, NextGenUnmade DEF PromiseOf
  <1>5. [h \in Gens |-> PromiseOf(h)']
          = [[h \in Gens |-> PromiseOf(h)] EXCEPT
               ![g] = [status |-> "standing", owed |-> OpenJobs]]
    BY <1>3, PromiseUpdate DEF PromiseOf
  <1>6. Contract!Make(g)
    BY <1>1, <1>2, <1>4, <1>5, OpenJobsMap
       DEF Contract!Make, SameOutcomes, PhaseOf, PromiseOf
  <1> QED
    BY <1>6 DEF Contract!Next, Contract!Gens

\* What a generation owes is among its members, so nothing of it is open
\* when no member is pending.
LEMMA NothingOwedIsOpen ==
    ASSUME IInv, NEW g \in Gens, flush[g].status = "waiting",
           PendingOf(Members(g, job)) = {}
    PROVE  owed[g] \cap OpenJobs = {}
  <1>1. owed[g] \subseteq Members(g, job)
    BY DEF IInv, OwedRetained, Members
  <1>2. \A j \in Members(g, job) : IsTerminal(job[j])
    BY DEF PendingOf, Settled
  <1> QED
    BY <1>1, <1>2 DEF OpenJobs

LEMMA FlushEndMaps ==
    ASSUME IInv, NEW g \in Gens, FlushEnd(g)
    PROVE  Contract!Next
  <1>1. /\ SameOutcomes
        /\ flush \in [Gens -> FlushRecord] /\ owed \in [Gens -> SUBSET Jobs]
    BY FlushEndPreserves, TagStepOutcomes DEF IInv, TypeOK
  <1>2. /\ \E V \in {"returned", "raised"} : \E R :
              flush' = [flush EXCEPT ![g] = [status |-> V, awaiting |-> {},
                                             report |-> R]]
        /\ g # shutGen /\ flush[g].status = "waiting"
        /\ PendingOf(Members(g, job)) = {}
        /\ UNCHANGED <<mgr, shutGen, owed>>
    BY DEF FlushEnd, Publish, Verdict
  <1>3. OtherPromises(g) /\ PromiseStatus(g)' = "kept" /\ owed'[g] = owed[g]
    BY <1>1, <1>2 DEF OtherPromises, PromiseStatus, Reported
  <1>4. PromiseStatus(g) = "standing" /\ owed[g] \cap Contract!OpenJobs = {}
    BY <1>2, NothingOwedIsOpen, OpenJobsMap DEF PromiseStatus
  <1>5. [h \in Gens |-> PromiseOf(h)']
          = [[h \in Gens |-> PromiseOf(h)] EXCEPT ![g].status = "kept"]
    BY <1>3, StatusUpdate
  <1>6. Contract!Keep(g)
    BY <1>1, <1>2, <1>4, <1>5
       DEF Contract!Keep, Contract!Keepable, SameOutcomes, PhaseOf, PromiseOf
  <1> QED
    BY <1>6 DEF Contract!Next, Contract!Gens

LEMMA FlushCancelledMaps ==
    ASSUME IInv, NEW g \in Gens, FlushCancelled(g)
    PROVE  Contract!Next
  <1>1. /\ SameOutcomes
        /\ flush \in [Gens -> FlushRecord] /\ owed \in [Gens -> SUBSET Jobs]
    BY FlushCancelledPreserves, TagStepOutcomes DEF IInv, TypeOK
  <1>2. /\ flush' = [flush EXCEPT ![g].status = "abandoned", ![g].awaiting = {}]
        /\ g # shutGen /\ flush[g].status = "waiting"
        /\ UNCHANGED <<mgr, shutGen, owed>>
    BY DEF FlushCancelled
  <1>3. /\ OtherPromises(g) /\ PromiseStatus(g)' = "withdrawn"
        /\ owed'[g] = owed[g] /\ PromiseStatus(g) = "standing"
    BY <1>1, <1>2 DEF OtherPromises, PromiseStatus, Reported, FlushRecord
  <1>4. [h \in Gens |-> PromiseOf(h)']
          = [[h \in Gens |-> PromiseOf(h)] EXCEPT ![g].status = "withdrawn"]
    BY <1>3, StatusUpdate
  <1>5. Contract!Withdraw(g)
    BY <1>1, <1>2, <1>3, <1>4
       DEF Contract!Withdraw, SameOutcomes, PhaseOf, PromiseOf
  <1> QED
    BY <1>5 DEF Contract!Next, Contract!Gens

LEMMA RescanMaps ==
    ASSUME IInv, NEW g \in Gens, Rescan(g)
    PROVE  UNCHANGED Contract!cvars
  <1>1. /\ flush' = [flush EXCEPT ![g].awaiting = PendingOf(Members(g, job))]
        /\ UNCHANGED <<mgr, shutGen, owed, accepted, job>>
        /\ flush \in [Gens -> FlushRecord]
    BY DEF Rescan, IInv, TypeOK
  <1>2. \A h \in Gens : flush'[h].status = flush[h].status
    BY <1>1 DEF FlushRecord
  <1> QED
    BY <1>1, <1>2, StatesKept, Unseen DEF SamePromises, PromiseStatus, Reported

LEMMA ShutdownMaps ==
    ASSUME RInv, NEW pol \in Policies, Shutdown(pol)
    PROVE  Contract!Next
  <1>0. PICK g \in Gens : g = NextGen
    BY DEF Shutdown
  <1>1. /\ IInv /\ SameOutcomes
        /\ flush \in [Gens -> FlushRecord] /\ owed \in [Gens -> SUBSET Jobs]
    BY ShutdownPreserves, TagStepOutcomes DEF RInv, IInv, TypeOK
  <1>2. /\ flush' = [flush EXCEPT ![g].status = "waiting"]
        /\ owed' = [owed EXCEPT ![g] = OpenJobs]
        /\ mgr = "OPEN" /\ mgr' \in {"DRAINING", "CANCELLING"} /\ shutGen' = g
    BY <1>0 DEF Shutdown, Cutoff
  <1>3. OtherPromises(g) /\ PromiseStatus(g)' = "standing" /\ owed'[g] = OpenJobs
    BY <1>1, <1>2 DEF OtherPromises, PromiseStatus, Reported, FlushRecord
  <1>4. PromiseStatus(g) = "unmade"
    BY <1>0, NextGenUnmade DEF PromiseOf
  <1>5. [h \in Gens |-> PromiseOf(h)']
          = [[h \in Gens |-> PromiseOf(h)] EXCEPT
               ![g] = [status |-> "standing", owed |-> OpenJobs]]
    BY <1>3, PromiseUpdate DEF PromiseOf
  <1>6. Contract!BeginClose(g)
    BY <1>1, <1>2, <1>4, <1>5, OpenJobsMap
       DEF Contract!BeginClose, SameOutcomes, PhaseOf, PromiseOf
  <1> QED
    BY <1>6 DEF Contract!Next, Contract!Gens

LEMMA ShutdownEndMaps ==
    ASSUME IInv, ShutdownEnd
    PROVE  Contract!Next
  <1>0. PICK g \in Gens : g = shutGen
    BY BoundsAssumption DEF ShutdownEnd, IInv, TypeOK, NoGen
  <1>1. /\ SameOutcomes /\ IInv' /\ accepted' = accepted
        /\ flush \in [Gens -> FlushRecord] /\ owed \in [Gens -> SUBSET Jobs]
    BY ShutdownEndPreserves, TagStepOutcomes DEF IInv, TypeOK, SameOutcomes
  <1>2. /\ \E V \in {"returned", "raised"} : \E R :
              flush' = [flush EXCEPT ![g] = [status |-> V, awaiting |-> {},
                                             report |-> R]]
        /\ g # NoGen /\ flush[g].status = "waiting"
        /\ PendingOf(Members(g, job)) = {}
        /\ mgr' = "CLOSED"
        /\ UNCHANGED <<shutGen, owed>>
    BY <1>0 DEF ShutdownEnd, Publish, Verdict
  <1>3. OtherPromises(g) /\ PromiseStatus(g)' = "kept" /\ owed'[g] = owed[g]
    BY <1>1, <1>2 DEF OtherPromises, PromiseStatus, Reported
  <1>4. PhaseOf = "closing" /\ PhaseOf' = "closed"
    BY <1>0, <1>2 DEF PhaseOf, IInv, TypeOK, ShutdownInv, Reported
  <1>5. OpenJobs = {}
    <2>1. OpenJobs \subseteq Members(g, job)
      <3>1. mgr \in {"DRAINING", "CANCELLING"}
        BY <1>4 DEF PhaseOf, IInv, TypeOK
      <3> QED
        BY <1>0, <3>1 DEF IInv, ShutdownCovers, Members
    <2> QED
      BY <1>2, <2>1 DEF PendingOf, Settled, OpenJobs
  <1>6. [h \in Gens |-> PromiseOf(h)']
          = [[h \in Gens |-> PromiseOf(h)] EXCEPT ![g].status = "kept"]
    BY <1>3, StatusUpdate
  <1>7. Contract!EndClose
    BY <1>0, <1>1, <1>2, <1>4, <1>5, <1>6, OpenJobsMap
       DEF Contract!EndClose, SameOutcomes
  <1> QED
    BY <1>7 DEF Contract!Next

-----------------------------------------------------------------------------
LEMMA UnusedKept ==
    ASSUME RInv, [Next]_vars
    PROVE  UnusedOwesNothing'
  <1>1. /\ flush \in [Gens -> FlushRecord] /\ owed \in [Gens -> SUBSET Jobs]
        /\ IInv
    BY DEF RInv, IInv, TypeOK
  <1> SUFFICES ASSUME NEW h \in Gens, flush'[h].status = "unused"
               PROVE  owed'[h] = {}
    BY DEF UnusedOwesNothing
  <1>2. CASE onlyJob \/ UNCHANGED vars
    BY <1>2 DEF onlyJob, vars, RInv, UnusedOwesNothing
  <1>3. CASE \E p \in {NoParent} \cup 1 .. accepted : Submit(p)
    BY <1>3 DEF Submit, RInv, UnusedOwesNothing
  <1>4. CASE FlushAtOnce
    <2>1. PICK g \in Gens : g = NextGen
      BY <1>4 DEF FlushAtOnce
    <2>2. h # g
      BY <1>1, <1>4, <2>1 DEF FlushAtOnce, Publish, Verdict
    <2> QED
      BY <1>1, <1>4, <2>1, <2>2
         DEF FlushAtOnce, Publish, Cutoff, RInv, UnusedOwesNothing
  <1>5. CASE FlushBegin
    <2>1. PICK g \in Gens : g = NextGen
      BY <1>5 DEF FlushBegin
    <2>2. h # g
      BY <1>1, <1>5, <2>1 DEF FlushBegin, FlushRecord
    <2> QED
      BY <1>1, <1>5, <2>1, <2>2 DEF FlushBegin, Cutoff, RInv, UnusedOwesNothing
  <1>6. CASE \E pol \in Policies : Shutdown(pol)
    <2>1. PICK g \in Gens : g = NextGen
      BY <1>6 DEF Shutdown
    <2>2. h # g
      BY <1>1, <1>6, <2>1 DEF Shutdown, FlushRecord
    <2> QED
      BY <1>1, <1>6, <2>1, <2>2 DEF Shutdown, Cutoff, RInv, UnusedOwesNothing
  <1>7. CASE \E g \in Gens : FlushEnd(g) \/ Rescan(g) \/ FlushCancelled(g)
    <2> SUFFICES ASSUME NEW g \in Gens,
                        FlushEnd(g) \/ Rescan(g) \/ FlushCancelled(g)
                 PROVE  owed'[h] = {}
      BY <1>7
    <2>1. flush[g].status = "waiting" /\ owed' = owed
      BY DEF FlushEnd, Rescan, FlushCancelled
    <2>2. CASE h = g
      <3>1. CASE FlushEnd(g)
        BY <1>1, <2>2, <3>1 DEF FlushEnd, Publish, Verdict
      <3>2. CASE Rescan(g)
        BY <1>1, <2>1, <2>2, <3>2 DEF Rescan, FlushRecord
      <3>3. CASE FlushCancelled(g)
        BY <1>1, <2>2, <3>3 DEF FlushCancelled, FlushRecord
      <3> QED
        BY <3>1, <3>2, <3>3
    <2>3. CASE h # g
      BY <1>1, <2>1, <2>3 DEF FlushEnd, Rescan, FlushCancelled, Publish, RInv,
                              UnusedOwesNothing
    <2> QED
      BY <2>2, <2>3
  <1>8. CASE ShutdownEnd
    <2>1. PICK g \in Gens : g = shutGen
      BY <1>1, <1>8, BoundsAssumption DEF ShutdownEnd, IInv, TypeOK, NoGen
    <2>2. h # g
      BY <1>1, <1>8, <2>1 DEF ShutdownEnd, Publish, Verdict
    <2> QED
      BY <1>1, <1>8, <2>1, <2>2
         DEF ShutdownEnd, Publish, RInv, UnusedOwesNothing
  <1>9. CASE \E j \in Jobs : JobStep(j)
    BY <1>1, <1>2, <1>9, JobStepQuiet DEF QuietStep
  <1>10. CASE PruneTerminal
    BY <1>2, <1>10 DEF PruneTerminal
  <1>11. CASE \E g \in ExtGens : \/ \E j \in Jobs : RetainForFlush(g, j)
                                \/ ReleaseFlushGeneration(g)
    BY <1>2, <1>11 DEF RetainForFlush, ReleaseFlushGeneration
  <1> QED
    BY <1>2, <1>3, <1>4, <1>5, <1>6, <1>7, <1>8, <1>9, <1>10, <1>11 DEF Next

LEMMA NextMaps ==
    ASSUME RInv, [Next]_vars
    PROVE  [Contract!Next]_(Contract!cvars)
  <1>1. IInv
    BY DEF RInv
  <1>2. CASE \E p \in {NoParent} \cup 1 .. accepted : Submit(p)
    BY <1>2, SubmitMaps
  <1>3. CASE \E j \in Jobs : JobStep(j)
    BY <1>1, <1>3, JobStepMaps
  <1>4. CASE FlushAtOnce
    BY <1>4, FlushAtOnceMaps
  <1>11. CASE FlushBegin
    BY <1>11, FlushBeginMaps
  <1>5. CASE \E g \in Gens : FlushEnd(g) \/ Rescan(g) \/ FlushCancelled(g)
    BY <1>1, <1>5, FlushEndMaps, RescanMaps, FlushCancelledMaps
  <1>6. CASE \E pol \in Policies : Shutdown(pol)
    BY <1>6, ShutdownMaps
  <1>7. CASE ShutdownEnd
    BY <1>1, <1>7, ShutdownEndMaps
  <1>8. CASE PruneTerminal
    BY <1>1, <1>8, RegistryStepMaps
  <1>12. CASE \E g \in ExtGens : \/ \E j \in Jobs : RetainForFlush(g, j)
                                \/ ReleaseFlushGeneration(g)
    <2>1. CASE \E g \in ExtGens, j \in Jobs : RetainForFlush(g, j)
      BY <1>1, <2>1, RegistryStepMaps
    <2>2. CASE \E g \in ExtGens : ReleaseFlushGeneration(g)
      BY <1>1, <2>2, RegistryStepMaps
    <2> QED
      BY <1>12, <2>1, <2>2
  <1>9. CASE UNCHANGED vars
    <2>1. SameOutcomes /\ SamePromises /\ UNCHANGED <<mgr, shutGen>>
      BY <1>1, <1>9, StatesKept DEF vars, SamePromises, PromiseStatus, Reported
    <2> QED
      BY <2>1, Unseen
  <1> QED
    BY <1>2, <1>3, <1>4, <1>5, <1>6, <1>7, <1>8, <1>9, <1>11, <1>12 DEF Next

LEMMA InitMaps ==
    ASSUME Init
    PROVE  Contract!Init /\ UnusedOwesNothing
  <1>1. UnusedOwesNothing
    BY DEF Init, UnusedOwesNothing
  <1>2. \A j \in Jobs : OutcomeOf(j) = "none"
    BY BoundsAssumption DEF Init, OutcomeOf
  <1>3. \A g \in Gens : PromiseOf(g) = Contract!Unmade
    BY DEF Init, PromiseOf, PromiseStatus, Contract!Unmade
  <1> QED
    BY <1>1, <1>2, <1>3
       DEF Init, Contract!Init, Contract!Jobs, Contract!Gens, PhaseOf, NoGen

\* The registry of jobs, tags, callbacks and pruning implements what callers
\* of flush() and shutdown() are promised: one outcome for each accepted job,
\* no call that ends early, nothing open after the shutdown.
THEOREM ManagerKeepsItsContract == Spec => ImplementsContract
  <1>1. Init => Contract!Init /\ UnusedOwesNothing
    BY InitMaps
  <1>2. RInv /\ [Next]_vars => UnusedOwesNothing'
    BY UnusedKept
  <1>3. RInv /\ [Next]_vars => [Contract!Next]_(Contract!cvars)
    BY NextMaps
  <1> QED
    BY <1>1, <1>2, <1>3, InductiveInvariant, PTL
       DEF Spec, RInv, ImplementsContract, Contract!Spec
=============================================================================
