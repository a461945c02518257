------------------------- MODULE WorkManagerProofs -------------------------
(***************************************************************************)
(* Proofs about WorkManager for every number of jobs and generations.      *)
(*                                                                         *)
(* The safety argument rests on IInv.  Most actions only move one job      *)
(* along or prune; QuietStep says what all of these have in common, and    *)
(* the invariant is shown once for QuietStep.  The actions on generations  *)
(* are taken one by one.                                                   *)
(***************************************************************************)
EXTENDS WorkManager, TLAPS

USE DEF Jobs, Gens

\* Beyond the accepted jobs nothing is registered, and a job that has not
\* run is pending; an open job and a retained job are registered.
RegistryInv ==
    /\ records \subseteq 1 .. accepted
    /\ \A j \in Jobs :
        /\ j > accepted => job[j] = UnbornJob
        /\ job[j].task \in {"unborn", "scheduled"} => job[j].state = "PENDING"
        /\ (j <= accepted /\ ~ IsTerminal(job[j])) => j \in records
        /\ job[j].gens # {} => j \in records

\* A generation that tags a job is waiting; numbers not handed out are
\* unused.
GenerationInv ==
    /\ \A g \in Gens : g > genCount => flush[g].status = "unused"
    /\ \A j \in Jobs, g \in Gens :
        g \in job[j].gens => flush[g].status = "waiting"

\* Where the shutdown generation is in its life.
ShutdownInv ==
    /\ shutGen <= genCount
    /\ mgr = "OPEN" <=> shutGen = NoGen
    /\ mgr \in {"DRAINING", "CANCELLING"} => flush[shutGen].status = "waiting"
    /\ mgr = "CLOSED" => Reported(shutGen)

IInv ==
    /\ TypeOK
    /\ RegistryInv
    /\ GenerationInv
    /\ ShutdownInv
    /\ OwedRetained
    /\ ReportComplete
    /\ ShutdownCovers
    /\ ClosedQuiescent

\* What a step that concerns no generation of the manager does to the jobs.
QuietStep ==
    /\ onlyJob
    /\ job' \in [Jobs -> JobRecord]
    /\ children' \in [Jobs -> SUBSET Jobs]
    /\ records' \subseteq records
    /\ \A j \in Jobs :
        /\ job[j] = UnbornJob => job'[j] = UnbornJob \/ j \in records
        /\ job'[j].gens \cap Gens = job[j].gens \cap Gens
        /\ job'[j].gens # {} => job[j].gens # {} \/ j \in records
        /\ IsTerminal(job[j]) => job'[j].state = job[j].state
        /\ Settled(job[j]) => Settled(job'[j])
        /\ job'[j].task \in {"unborn", "scheduled"} => job'[j].state = "PENDING"
        /\ (j \in records /\ (job'[j].gens # {} \/ ~ IsTerminal(job'[j])))
               => j \in records'

----------------------------------------------------------------------------
\* Pruning removes only terminal records that nothing retains, and leaves
\* the index well typed.
LEMMA PruneEffect ==
    ASSUME TypeOK, NEW jb, NEW C, Prune(jb, C)
    PROVE  /\ job' = jb
           /\ records' \subseteq records
           /\ children' \in [Jobs -> SUBSET Jobs]
           /\ \A j \in records :
                (jb[j].gens # {} \/ ~ IsTerminal(jb[j])) => j \in records'
    BY DEF Prune, Prunable, TypeOK

\* The first transition commits an outcome, later ones change nothing.
LEMMA TransitionEffect ==
    ASSUME NEW r \in JobRecord, NEW o \in Terminal
    PROVE  /\ TransitionTerminal(r, o) \in JobRecord
           /\ IsTerminal(TransitionTerminal(r, o))
           /\ TransitionTerminal(r, o).gens = r.gens
           /\ IsTerminal(r) => TransitionTerminal(r, o) = r
    BY DEF TransitionTerminal, JobRecord, IsTerminal, Terminal, ObserverStates

----------------------------------------------------------------------------
\* A step that replaces one record and prunes nothing.
LEMMA OneRecordQuiet ==
    ASSUME IInv, NEW j \in Jobs, NEW r \in JobRecord, onlyJob,
           job' = [job EXCEPT ![j] = r],
           UNCHANGED <<records, children>>,
           job[j] # UnbornJob,
           r.gens = job[j].gens,
           IsTerminal(job[j]) => r.state = job[j].state,
           Settled(job[j]) => Settled(r),
           r.task \in {"unborn", "scheduled"} => r.state = "PENDING"
    PROVE  QuietStep
  <1>1. /\ job \in [Jobs -> JobRecord]
        /\ children \in [Jobs -> SUBSET Jobs]
    BY DEF IInv, TypeOK
  <1>2. job'[j] = r /\ \A k \in Jobs : k # j => job'[k] = job[k]
    BY <1>1
  <1>3. job' \in [Jobs -> JobRecord]
    BY <1>1
  <1>4. \A k \in Jobs :
          job[k].task \in {"unborn", "scheduled"} => job[k].state = "PENDING"
    BY DEF IInv, RegistryInv
  <1>5. ASSUME NEW k \in Jobs
        PROVE  /\ job[k] = UnbornJob => job'[k] = UnbornJob \/ k \in records
               /\ job'[k].gens \cap Gens = job[k].gens \cap Gens
               /\ job'[k].gens # {} => job[k].gens # {} \/ k \in records
               /\ IsTerminal(job[k]) => job'[k].state = job[k].state
               /\ Settled(job[k]) => Settled(job'[k])
               /\ job'[k].task \in {"unborn", "scheduled"}
                      => job'[k].state = "PENDING"
               /\ (k \in records
                     /\ (job'[k].gens # {} \/ ~ IsTerminal(job'[k])))
                      => k \in records'
    BY <1>2, <1>4
  <1> QED
    BY <1>1, <1>3, <1>5 DEF QuietStep

LEMMA CancelQuiet ==
    ASSUME IInv, NEW j \in Jobs, Cancel(j)
    PROVE  QuietStep
  <1> DEFINE r == [job[j] EXCEPT !.cancel = TRUE]
  <1>1. job[j] \in JobRecord /\ r \in JobRecord
    BY DEF IInv, TypeOK, JobRecord
  <1>2. job' = [job EXCEPT ![j] = r]
    BY DEF Cancel
  <1>3. /\ r.gens = job[j].gens /\ r.state = job[j].state
        /\ r.task = job[j].task /\ r.obs = job[j].obs
    BY <1>1 DEF JobRecord
  <1>4. job[j].task \in {"unborn", "scheduled"} => job[j].state = "PENDING"
    BY DEF IInv, RegistryInv
  <1>5. /\ IsTerminal(job[j]) => r.state = job[j].state
        /\ Settled(job[j]) => Settled(r)
        /\ r.task \in {"unborn", "scheduled"} => r.state = "PENDING"
    BY <1>3, <1>4 DEF Settled, IsTerminal, ObserverDone
  <1>6. job[j] # UnbornJob /\ onlyJob /\ UNCHANGED <<records, children>>
    BY DEF Cancel, UnbornJob, onlyJob
  <1> HIDE DEF r
  <1> QED
    BY <1>1, <1>2, <1>3, <1>5, <1>6, OneRecordQuiet

LEMMA StartQuiet ==
    ASSUME IInv, NEW j \in Jobs, Start(j)
    PROVE  QuietStep
  <1> DEFINE r == [job[j] EXCEPT !.task = "running", !.state = "RUNNING"]
  <1>1. job[j] \in JobRecord /\ r \in JobRecord
    <2>1. job[j] \in JobRecord
      BY DEF IInv, TypeOK
    <2> QED
      BY <2>1 DEF JobRecord, TaskStates, Live
  <1>2. job' = [job EXCEPT ![j] = r]
    BY <1>1 DEF Start, IInv, TypeOK, JobRecord
  <1>3. /\ r.gens = job[j].gens
        /\ r.task = "running"
    BY <1>1 DEF JobRecord
  <1>4. job[j].state = "PENDING"
    BY DEF IInv, RegistryInv, Start
  <1>5. ~ IsTerminal(job[j]) /\ ~ Settled(job[j])
    BY <1>4 DEF Settled, IsTerminal, Terminal
  <1>6. job[j] # UnbornJob /\ onlyJob /\ UNCHANGED <<records, children>>
    BY DEF Start, UnbornJob, onlyJob
  <1> HIDE DEF r
  <1> QED
    BY <1>1, <1>2, <1>3, <1>5, <1>6, OneRecordQuiet

LEMMA NeverStartQuiet ==
    ASSUME IInv, NEW j \in Jobs, NeverStart(j)
    PROVE  QuietStep
  <1> DEFINE r == [job[j] EXCEPT !.task = "cancelled", !.cancel = FALSE]
  <1>1. job[j] \in JobRecord /\ r \in JobRecord
    <2>1. job[j] \in JobRecord
      BY DEF IInv, TypeOK
    <2> QED
      BY <2>1 DEF JobRecord, TaskStates
  <1>2. job' = [job EXCEPT ![j] = r]
    BY <1>1 DEF NeverStart, IInv, TypeOK, JobRecord
  <1>3. /\ r.gens = job[j].gens /\ r.state = job[j].state
        /\ r.task = "cancelled" /\ r.obs = job[j].obs
    BY <1>1 DEF JobRecord
  <1>4. Settled(job[j]) => Settled(r)
    BY <1>3 DEF Settled, IsTerminal, ObserverDone
  <1>5. job[j] # UnbornJob /\ onlyJob /\ UNCHANGED <<records, children>>
    BY DEF NeverStart, UnbornJob, onlyJob
  <1> HIDE DEF r
  <1> QED
    BY <1>1, <1>2, <1>3, <1>4, <1>5, OneRecordQuiet

LEMMA FinishQuiet ==
    ASSUME IInv, NEW j \in Jobs, NEW o \in Terminal, Finish(j, o)
    PROVE  QuietStep
  <1> DEFINE t == TransitionTerminal(job[j], o)
  <1>1. job[j] \in JobRecord
    BY DEF IInv, TypeOK
  <1>2. /\ t \in JobRecord /\ t.gens = job[j].gens
        /\ IsTerminal(job[j]) => t = job[j]
    BY <1>1, TransitionEffect
  <1> HIDE DEF t
  <1>3. PICK late \in {FALSE, job[j].cancel} :
           job' = [job EXCEPT ![j] =
                    [t EXCEPT
                       !.task = IF HasObserver THEN "observing"
                                ELSE IF o = "CANCELLATION" \/ late
                                     THEN "cancelled" ELSE "returned",
                       !.cancel = HasObserver /\ late]]
    BY DEF Finish, t
  <1> DEFINE k == IF HasObserver THEN "observing"
                  ELSE IF o = "CANCELLATION" \/ late
                       THEN "cancelled" ELSE "returned"
             c == HasObserver /\ late
             r == [t EXCEPT !.task = k, !.cancel = c]
  <1>4. k \in {"observing", "cancelled", "returned"}
    OBVIOUS
  <1>5. job[j].cancel \in BOOLEAN
    BY <1>1 DEF JobRecord
  <1>6. c \in BOOLEAN
    BY <1>5, SwitchAssumption
  <1>7. job' = [job EXCEPT ![j] = r]
    BY <1>3
  <1> HIDE DEF k, c
  <1>8. /\ r \in JobRecord /\ r.gens = t.gens /\ r.state = t.state
        /\ r.obs = t.obs /\ r.task = k
    BY <1>2, <1>4, <1>6 DEF JobRecord, TaskStates
  <1> HIDE DEF r
  <1>9. /\ IsTerminal(job[j]) => r.state = job[j].state
        /\ Settled(job[j]) => Settled(r)
    BY <1>2, <1>8 DEF Settled, IsTerminal, ObserverDone
  <1>10. job[j] # UnbornJob /\ onlyJob /\ UNCHANGED <<records, children>>
    BY DEF Finish, UnbornJob, onlyJob
  <1> QED
    BY <1>2, <1>4, <1>7, <1>8, <1>9, <1>10, OneRecordQuiet

LEMMA StopObservingQuiet ==
    ASSUME IInv, NEW j \in Jobs, StopObserving(j)
    PROVE  QuietStep
  <1> DEFINE k == IF job[j].state = "CANCELLATION"
                  THEN "cancelled" ELSE "returned"
             r == [job[j] EXCEPT !.task = k, !.cancel = FALSE]
  <1>1. job[j] \in JobRecord
    BY DEF IInv, TypeOK
  <1>2. job' = [job EXCEPT ![j] = r]
    BY <1>1 DEF StopObserving, IInv, TypeOK, JobRecord
  <1>3. k \in {"cancelled", "returned"}
    OBVIOUS
  <1> HIDE DEF k
  <1>4. /\ r \in JobRecord /\ r.gens = job[j].gens
        /\ r.state = job[j].state /\ r.obs = job[j].obs /\ r.task = k
    BY <1>1, <1>3 DEF JobRecord, TaskStates
  <1> HIDE DEF r
  <1>5. Settled(job[j]) => Settled(r)
    BY <1>4 DEF Settled, IsTerminal, ObserverDone
  <1>6. job[j] # UnbornJob /\ onlyJob /\ UNCHANGED <<records, children>>
    BY DEF StopObserving, UnbornJob, onlyJob
  <1> QED
    BY <1>2, <1>3, <1>4, <1>5, <1>6, OneRecordQuiet

LEMMA ObserverEndsQuiet ==
    ASSUME IInv, NEW j \in Jobs, ObserverEnds(j)
    PROVE  QuietStep
  <1> DEFINE r == [job[j] EXCEPT !.obs = "done"]
  <1>1. job[j] \in JobRecord /\ r \in JobRecord
    BY DEF IInv, TypeOK, JobRecord, ObserverStates
  <1>2. job' = [job EXCEPT ![j] = r]
    BY DEF ObserverEnds
  <1>3. /\ r.gens = job[j].gens /\ r.state = job[j].state
        /\ r.task = job[j].task /\ r.obs = "done"
    BY <1>1 DEF JobRecord
  <1>4. job[j].task \in {"unborn", "scheduled"} => job[j].state = "PENDING"
    BY DEF IInv, RegistryInv
  <1>5. /\ IsTerminal(job[j]) => r.state = job[j].state
        /\ Settled(job[j]) => Settled(r)
        /\ r.task \in {"unborn", "scheduled"} => r.state = "PENDING"
    BY <1>3, <1>4 DEF Settled, IsTerminal, ObserverDone
  <1>6. job[j] # UnbornJob /\ onlyJob /\ UNCHANGED <<records, children>>
    BY DEF ObserverEnds, UnbornJob, onlyJob
  <1> HIDE DEF r
  <1> QED
    BY <1>1, <1>2, <1>3, <1>5, <1>6, OneRecordQuiet

\* A step that rewrites records and prunes.
LEMMA PruneQuiet ==
    ASSUME IInv, NEW jb \in [Jobs -> JobRecord], NEW C, onlyJob, Prune(jb, C),
           \A k \in Jobs :
             /\ job[k] = UnbornJob => jb[k] = UnbornJob \/ k \in records
             /\ jb[k].gens \cap Gens = job[k].gens \cap Gens
             /\ jb[k].gens # {} => job[k].gens # {} \/ k \in records
             /\ IsTerminal(job[k]) => jb[k].state = job[k].state
             /\ Settled(job[k]) => Settled(jb[k])
             /\ jb[k].task \in {"unborn", "scheduled"}
                    => jb[k].state = "PENDING"
    PROVE  QuietStep
  <1>1. TypeOK
    BY DEF IInv
  <1>2. /\ job' = jb
        /\ records' \subseteq records
        /\ children' \in [Jobs -> SUBSET Jobs]
        /\ \A j \in records :
             (jb[j].gens # {} \/ ~ IsTerminal(jb[j])) => j \in records'
    BY <1>1, PruneEffect
  <1> QED
    BY <1>2 DEF QuietStep

LEMMA OnTaskDoneQuiet ==
    ASSUME IInv, NEW j \in Jobs, OnTaskDone(j)
    PROVE  QuietStep
  <1> DEFINE o == IF job[j].task = "cancelled" THEN "CANCELLATION" ELSE "SUCCESS"
             t == TransitionTerminal(job[j], o)
             r == [t EXCEPT !.task = "settled"]
             jb == [job EXCEPT ![j] = r]
  <1>1. /\ job \in [Jobs -> JobRecord] /\ o \in Terminal
        /\ \A k \in Jobs : job[k].task \in {"unborn", "scheduled"}
                            => job[k].state = "PENDING"
    BY DEF IInv, TypeOK, RegistryInv, Terminal
  <1>2. Prune(jb, {j}) /\ onlyJob /\ job[j] # UnbornJob
    BY DEF OnTaskDone, UnbornJob
  <1> HIDE DEF o
  <1>3. /\ t \in JobRecord /\ t.gens = job[j].gens
        /\ IsTerminal(job[j]) => t = job[j]
    BY <1>1, TransitionEffect
  <1> HIDE DEF t
  <1>4. /\ r \in JobRecord /\ r.gens = t.gens /\ r.state = t.state
        /\ r.obs = t.obs /\ r.task = "settled"
    BY <1>3 DEF JobRecord, TaskStates
  <1> HIDE DEF r
  <1>5. /\ IsTerminal(job[j]) => r.state = job[j].state
        /\ Settled(job[j]) => Settled(r)
    BY <1>3, <1>4 DEF Settled, IsTerminal, ObserverDone
  <1>6. jb \in [Jobs -> JobRecord] /\ jb[j] = r
        /\ \A k \in Jobs : k # j => jb[k] = job[k]
    BY <1>1, <1>4
  <1>7. ASSUME NEW k \in Jobs
        PROVE  /\ job[k] = UnbornJob => jb[k] = UnbornJob \/ k \in records
               /\ jb[k].gens \cap Gens = job[k].gens \cap Gens
               /\ jb[k].gens # {} => job[k].gens # {} \/ k \in records
               /\ IsTerminal(job[k]) => jb[k].state = job[k].state
               /\ Settled(job[k]) => Settled(jb[k])
               /\ jb[k].task \in {"unborn", "scheduled"}
                    => jb[k].state = "PENDING"
    BY <1>1, <1>2, <1>3, <1>4, <1>5, <1>6
  <1> HIDE DEF jb
  <1> QED
    BY <1>2, <1>6, <1>7, PruneQuiet

LEMMA OnObserverDoneQuiet ==
    ASSUME IInv, NEW j \in Jobs, OnObserverDone(j)
    PROVE  QuietStep
  <1> DEFINE r == [job[j] EXCEPT !.obs = "settled"]
             jb == [job EXCEPT ![j] = r]
  <1>1. /\ job \in [Jobs -> JobRecord]
        /\ \A k \in Jobs : job[k].task \in {"unborn", "scheduled"}
                            => job[k].state = "PENDING"
    BY DEF IInv, TypeOK, RegistryInv
  <1>2. Prune(jb, {j}) /\ onlyJob /\ job[j] # UnbornJob
    BY DEF OnObserverDone, UnbornJob
  <1>3. /\ r \in JobRecord /\ r.gens = job[j].gens /\ r.obs = "settled"
        /\ r.state = job[j].state /\ r.task = job[j].task
    BY <1>1 DEF JobRecord, ObserverStates
  <1> HIDE DEF r
  <1>4. Settled(job[j]) => Settled(r)
    BY <1>3 DEF Settled, IsTerminal, ObserverDone
  <1>5. jb \in [Jobs -> JobRecord] /\ jb[j] = r
        /\ \A k \in Jobs : k # j => jb[k] = job[k]
    BY <1>1, <1>3
  <1>6. ASSUME NEW k \in Jobs
        PROVE  /\ job[k] = UnbornJob => jb[k] = UnbornJob \/ k \in records
               /\ jb[k].gens \cap Gens = job[k].gens \cap Gens
               /\ jb[k].gens # {} => job[k].gens # {} \/ k \in records
               /\ IsTerminal(job[k]) => jb[k].state = job[k].state
               /\ Settled(job[k]) => Settled(jb[k])
               /\ jb[k].task \in {"unborn", "scheduled"}
                    => jb[k].state = "PENDING"
    BY <1>1, <1>2, <1>3, <1>4, <1>5
  <1> HIDE DEF jb
  <1> QED
    BY <1>2, <1>5, <1>6, PruneQuiet

\* Marking and untagging touch only the registered jobs of a set S, and a
\* tag that is not one of the manager's generations.
LEMMA TaggingQuiet ==
    ASSUME IInv, NEW jb \in [Jobs -> JobRecord], onlyJob,
           \A k \in Jobs :
             /\ jb[k] = job[k] \/ k \in records
             /\ jb[k].gens \cap Gens = job[k].gens \cap Gens
             /\ jb[k].state = job[k].state
             /\ jb[k].task = job[k].task
             /\ jb[k].obs = job[k].obs,
           \/ job' = jb /\ UNCHANGED <<records, children>>
           \/ \E C \in SUBSET Jobs : Prune(jb, C)
    PROVE  QuietStep
  <1>1. /\ job \in [Jobs -> JobRecord]
        /\ children \in [Jobs -> SUBSET Jobs]
        /\ \A k \in Jobs : job[k].task \in {"unborn", "scheduled"}
                            => job[k].state = "PENDING"
    BY DEF IInv, TypeOK, RegistryInv
  <1>2. ASSUME NEW k \in Jobs
        PROVE  /\ job[k] = UnbornJob => jb[k] = UnbornJob \/ k \in records
               /\ jb[k].gens \cap Gens = job[k].gens \cap Gens
               /\ jb[k].gens # {} => job[k].gens # {} \/ k \in records
               /\ IsTerminal(job[k]) => jb[k].state = job[k].state
               /\ Settled(job[k]) => Settled(jb[k])
               /\ jb[k].task \in {"unborn", "scheduled"}
                    => jb[k].state = "PENDING"
    BY <1>1 DEF Settled, IsTerminal, ObserverDone
  <1>3. CASE job' = jb /\ UNCHANGED <<records, children>>
    BY <1>1, <1>2, <1>3 DEF QuietStep
  <1>4. CASE \E C \in SUBSET Jobs : Prune(jb, C)
    <2>1. PICK C \in SUBSET Jobs : Prune(jb, C)
      BY <1>4
    <2> QED
      BY <1>2, <2>1, PruneQuiet
  <1> QED
    BY <1>3, <1>4

LEMMA PruneTerminalQuiet ==
    ASSUME IInv, PruneTerminal
    PROVE  QuietStep
  <1> DEFINE done == {j \in records : IsTerminal(job[j])}
             jb == [j \in Jobs |-> IF j \in done
                                  THEN [job[j] EXCEPT !.prune = TRUE]
                                  ELSE job[j]]
  <1>1. job \in [Jobs -> JobRecord] /\ records \subseteq Jobs
    BY DEF IInv, TypeOK
  <1>2. Prune(jb, done) /\ onlyJob /\ done \in SUBSET Jobs
    BY <1>1 DEF PruneTerminal
  <1>3. ASSUME NEW k \in Jobs
        PROVE  /\ jb[k] \in JobRecord
               /\ jb[k] = job[k] \/ k \in records
               /\ jb[k].gens \cap Gens = job[k].gens \cap Gens
               /\ jb[k].state = job[k].state
               /\ jb[k].task = job[k].task
               /\ jb[k].obs = job[k].obs
    BY <1>1 DEF JobRecord
  <1>4. jb \in [Jobs -> JobRecord]
    BY <1>3
  <1> HIDE DEF jb, done
  <1> QED
    BY <1>2, <1>3, <1>4, TaggingQuiet

LEMMA RetainForFlushQuiet ==
    ASSUME IInv, NEW g \in ExtGens, NEW j \in Jobs, RetainForFlush(g, j)
    PROVE  QuietStep
  <1> DEFINE jb == Retain(g, {j})
  <1>1. job \in [Jobs -> JobRecord] /\ g \notin Gens
    BY BoundsAssumption, ExtGensAssumption DEF IInv, TypeOK
  <1>2. /\ job' = jb /\ onlyJob /\ j \in records
        /\ UNCHANGED <<records, children>>
    BY DEF RetainForFlush
  <1>3. ASSUME NEW k \in Jobs
        PROVE  /\ jb[k] \in JobRecord
               /\ jb[k] = job[k] \/ k \in records
               /\ jb[k].gens \cap Gens = job[k].gens \cap Gens
               /\ jb[k].state = job[k].state
               /\ jb[k].task = job[k].task
               /\ jb[k].obs = job[k].obs
    BY <1>1, <1>2 DEF JobRecord, Retain
  <1>4. jb \in [Jobs -> JobRecord]
    BY <1>3 DEF Retain
  <1> HIDE DEF jb
  <1> QED
    BY <1>2, <1>3, <1>4, TaggingQuiet

LEMMA ReleaseExternalQuiet ==
    ASSUME IInv, NEW g \in ExtGens, ReleaseFlushGeneration(g)
    PROVE  QuietStep
  <1> DEFINE jb == [j \in Jobs |->
                      IF j \in Members(g, job)
                      THEN [job[j] EXCEPT !.gens = @ \ {g}, !.prune = TRUE]
                      ELSE job[j]]
  <1>1. /\ job \in [Jobs -> JobRecord] /\ records \subseteq Jobs
        /\ g \notin Gens
    BY BoundsAssumption, ExtGensAssumption DEF IInv, TypeOK
  <1>2. Prune(jb, Members(g, job)) /\ onlyJob
    BY DEF ReleaseFlushGeneration, Release
  <1>3. Members(g, job) \in SUBSET Jobs /\ Members(g, job) \subseteq records
    BY <1>1 DEF Members
  <1>4. ASSUME NEW k \in Jobs
        PROVE  /\ jb[k] \in JobRecord
               /\ jb[k] = job[k] \/ k \in records
               /\ jb[k].gens \cap Gens = job[k].gens \cap Gens
               /\ jb[k].state = job[k].state
               /\ jb[k].task = job[k].task
               /\ jb[k].obs = job[k].obs
    BY <1>1, <1>3 DEF JobRecord
  <1>5. jb \in [Jobs -> JobRecord]
    BY <1>4
  <1> HIDE DEF jb
  <1> QED
    BY <1>2, <1>3, <1>4, <1>5, TaggingQuiet

----------------------------------------------------------------------------
\* The invariant survives every quiet step.
LEMMA QuietPreserves ==
    ASSUME IInv, QuietStep
    PROVE  IInv'
  <1>1. UNCHANGED <<mgr, accepted, genCount, shutGen, policy, parent, flush,
                    owed, prior>>
    BY DEF QuietStep, onlyJob
  <1>2. TypeOK'
    BY <1>1 DEF IInv, TypeOK, QuietStep
  <1>3. RegistryInv'
    <2>1. records' \subseteq 1 .. accepted'
      BY <1>1 DEF IInv, RegistryInv, QuietStep
    <2>2. ASSUME NEW j \in Jobs
          PROVE  /\ j > accepted' => job'[j] = UnbornJob
                 /\ job'[j].task \in {"unborn", "scheduled"}
                      => job'[j].state = "PENDING"
                 /\ (j <= accepted' /\ ~ IsTerminal(job'[j])) => j \in records'
                 /\ job'[j].gens # {} => j \in records'
      <3>1. /\ job[j] = UnbornJob => job'[j] = UnbornJob \/ j \in records
            /\ job'[j].gens # {} => job[j].gens # {} \/ j \in records
            /\ IsTerminal(job[j]) => job'[j].state = job[j].state
            /\ job'[j].task \in {"unborn", "scheduled"}
                 => job'[j].state = "PENDING"
            /\ (j \in records /\ (job'[j].gens # {} \/ ~ IsTerminal(job'[j])))
                 => j \in records'
        BY DEF QuietStep
      <3>2. /\ j > accepted => job[j] = UnbornJob /\ j \notin records
            /\ (j <= accepted /\ ~ IsTerminal(job[j])) => j \in records
            /\ job[j].gens # {} => j \in records
            /\ accepted \in Nat
        BY BoundsAssumption DEF IInv, RegistryInv, TypeOK
      <3> QED
        BY <1>1, <3>1, <3>2 DEF IsTerminal
    <2> QED
      BY <2>1, <2>2 DEF RegistryInv
  <1>4. GenerationInv'
    BY <1>1 DEF IInv, GenerationInv, QuietStep
  <1>5. ShutdownInv'
    BY <1>1 DEF IInv, ShutdownInv, Reported
  <1>6. OwedRetained'
    <2> SUFFICES ASSUME NEW g \in Gens, flush[g].status = "waiting",
                        NEW j \in owed[g]
                 PROVE  j \in records' /\ g \in job'[j].gens
      BY <1>1 DEF OwedRetained
    <2>1. j \in Jobs /\ j \in records /\ g \in job[j].gens
      BY DEF IInv, TypeOK, OwedRetained
    <2> QED
      BY <2>1 DEF QuietStep
  <1>7. ReportComplete'
    <2> SUFFICES ASSUME NEW g \in Gens, Reported(g)
                 PROVE  /\ owed[g] \subseteq flush[g].report
                        /\ \A j \in flush[g].report : Settled(job'[j])
      BY <1>1 DEF ReportComplete, Reported, Settled, IsTerminal, ObserverDone
    <2>1. /\ owed[g] \subseteq flush[g].report
          /\ \A j \in flush[g].report : Settled(job[j])
          /\ flush[g].report \subseteq Jobs
      BY DEF IInv, ReportComplete, TypeOK, FlushRecord
    <2> QED
      BY <2>1 DEF QuietStep
  <1>8. OpenJobs' \subseteq OpenJobs
    <2>1. accepted \in 0 .. MaxJobs
      BY DEF IInv, TypeOK
    <2>2. 1 .. accepted \subseteq Jobs
      BY <2>1, BoundsAssumption
    <2>3. \A j \in Jobs : IsTerminal(job[j]) => IsTerminal(job'[j])
      BY DEF QuietStep, IsTerminal
    <2>4. OpenJobs' = {j \in 1 .. accepted : ~ IsTerminal(job'[j])}
      BY <1>1 DEF OpenJobs, IsTerminal
    <2> QED
      BY <2>2, <2>3, <2>4 DEF OpenJobs
  <1>9. ShutdownCovers'
    <2> SUFFICES ASSUME mgr \in {"DRAINING", "CANCELLING"}, NEW j \in OpenJobs'
                 PROVE  j \in records' /\ shutGen \in job'[j].gens
      BY <1>1 DEF ShutdownCovers
    <2>1. j \in records /\ shutGen \in job[j].gens
      BY <1>8 DEF IInv, ShutdownCovers
    <2>2. j \in Jobs
      BY <2>1 DEF IInv, TypeOK
    <2>3. shutGen \in Gens
      BY BoundsAssumption DEF IInv, TypeOK, ShutdownInv, NoGen
    <2> QED
      BY <2>1, <2>2, <2>3 DEF QuietStep
  <1>10. ClosedQuiescent'
    BY <1>1, <1>8 DEF IInv, ClosedQuiescent
  <1> QED
    BY <1>2, <1>3, <1>4, <1>5, <1>6, <1>7, <1>9, <1>10 DEF IInv

----------------------------------------------------------------------------
\* The invariant survives an acceptance: the new job inherits the tags of
\* its parent, so every generation that owes the parent holds the child.
LEMMA SubmitPreserves ==
    ASSUME IInv, NEW p \in {NoParent} \cup 1 .. accepted, Submit(p)
    PROVE  IInv'
  <1> DEFINE n == accepted + 1
             r == [UnbornJob EXCEPT
                     !.task = "scheduled",
                     !.gens = IF p \in records THEN job[p].gens ELSE {}]
  <1>1. /\ TypeOK /\ RegistryInv /\ accepted \in Nat /\ p \in 0 .. MaxJobs
        /\ job \in [Jobs -> JobRecord] /\ records \subseteq Jobs
    BY BoundsAssumption DEF IInv, TypeOK, NoParent
  <1>2. /\ n \in Jobs /\ Accepts(p) /\ accepted' = n
        /\ job' = [job EXCEPT ![n] = r]
        /\ records' = records \cup {n}
    BY DEF Submit, InheritedGens
  <1>3. UNCHANGED <<mgr, genCount, shutGen, policy, flush, prior>>
    BY DEF Submit
  <1>4. job[n] = UnbornJob /\ n \notin records
    BY <1>1, <1>2 DEF RegistryInv
  <1>5. /\ r \in JobRecord /\ r.task = "scheduled" /\ r.state = "PENDING"
        /\ r.gens = IF p \in records THEN job[p].gens ELSE {}
    BY <1>1 DEF UnbornJob, JobRecord, TaskStates, Live, ObserverStates
  <1> HIDE DEF r
  <1>6. job'[n] = r /\ \A k \in Jobs : k # n => job'[k] = job[k]
    BY <1>1, <1>2
  <1>7. ~ IsTerminal(r) /\ ~ Settled(job[n])
    BY <1>4, <1>5 DEF IsTerminal, Terminal, Settled, UnbornJob
  <1>8. TypeOK'
    <2>1. job' \in [Jobs -> JobRecord]
      BY <1>1, <1>2, <1>5
    <2>2. parent' \in [Jobs -> 0 .. MaxJobs]
      BY <1>1 DEF Submit, TypeOK
    <2>3. children' \in [Jobs -> SUBSET Jobs]
      BY <1>2 DEF Submit, TypeOK, IInv
    <2>4. owed' \in [Gens -> SUBSET Jobs]
      BY <1>2 DEF Submit, TypeOK, IInv
    <2> QED
      BY <1>1, <1>2, <1>3, <2>1, <2>2, <2>3, <2>4, BoundsAssumption DEF TypeOK
  <1>9. RegistryInv'
    <2>1. records' \subseteq 1 .. accepted'
      <3>1. records \subseteq 1 .. accepted
        BY <1>1 DEF RegistryInv
      <3>2. n \in Nat /\ accepted \in Nat /\ accepted <= n /\ 1 <= n
        BY <1>1
      <3> HIDE DEF n
      <3>3. \A i \in 1 .. accepted : i \in 1 .. n
        BY <3>2
      <3>4. n \in 1 .. n
        BY <3>2
      <3> QED
        BY <1>2, <3>1, <3>3, <3>4
    <2>2. ASSUME NEW j \in Jobs
          PROVE  /\ j > n => job'[j] = UnbornJob
                 /\ job'[j].task \in {"unborn", "scheduled"}
                      => job'[j].state = "PENDING"
                 /\ (j <= n /\ ~ IsTerminal(job'[j])) => j \in records'
                 /\ job'[j].gens # {} => j \in records'
      <3>1. CASE j = n
        BY <1>1, <1>2, <1>5, <1>6, <3>1
      <3>2. CASE j # n
        <4>1. job'[j] = job[j]
          BY <1>6, <3>2
        <4>2. /\ j > n => j > accepted
              /\ j <= n => j <= accepted
          BY <1>1, <3>2
        <4> QED
          BY <1>1, <1>2, <4>1, <4>2 DEF RegistryInv
      <3> QED
        BY <3>1, <3>2
    <2> QED
      BY <1>2, <2>1, <2>2 DEF RegistryInv, IsTerminal
  <1>10. GenerationInv'
    BY <1>1, <1>3, <1>5, <1>6 DEF IInv, GenerationInv
  <1>11. ShutdownInv'
    BY <1>3 DEF IInv, ShutdownInv, Reported
  <1>12. OwedRetained'
    <2> SUFFICES ASSUME NEW g \in Gens, flush[g].status = "waiting",
                        NEW j \in owed'[g]
                 PROVE  j \in records' /\ g \in job'[j].gens
      BY <1>3 DEF OwedRetained
    <2>1. \A k \in owed[g] : k \in Jobs /\ k \in records /\ g \in job[k].gens
      BY DEF IInv, TypeOK, OwedRetained
    <2>2. j \in owed[g] \/ (j = n /\ p \in owed[g])
      BY DEF Submit
    <2> QED
      BY <1>2, <1>4, <1>5, <1>6, <2>1, <2>2
  <1>13. ReportComplete'
    <2> SUFFICES ASSUME NEW g \in Gens, Reported(g)
                 PROVE  /\ owed'[g] \subseteq flush[g].report
                        /\ \A j \in flush[g].report : Settled(job'[j])
      BY <1>3 DEF ReportComplete, Reported, Settled, IsTerminal, ObserverDone
    <2>1. owed'[g] = owed[g]
      BY DEF Submit, Reported
    <2>2. /\ owed[g] \subseteq flush[g].report
          /\ \A j \in flush[g].report : j \in Jobs /\ Settled(job[j])
      BY DEF IInv, ReportComplete, TypeOK, FlushRecord
    <2> QED
      BY <1>6, <1>7, <2>1, <2>2
  <1>14. OpenJobs' \subseteq OpenJobs \cup {n}
    <2>1. OpenJobs' = {j \in 1 .. n : ~ IsTerminal(job'[j])}
      BY <1>2 DEF OpenJobs, IsTerminal
    <2>2. \A j \in 1 .. n : j \in Jobs /\ (j = n \/ j \in 1 .. accepted)
      BY <1>1, <1>2, BoundsAssumption
    <2> QED
      BY <1>6, <2>1, <2>2 DEF OpenJobs
  <1>15. ShutdownCovers'
    <2> SUFFICES ASSUME mgr \in {"DRAINING", "CANCELLING"}, NEW j \in OpenJobs'
                 PROVE  j \in records' /\ shutGen \in job'[j].gens
      BY <1>3 DEF ShutdownCovers
    <2>1. CASE j = n
      <3>1. p \in records /\ ~ IsTerminal(job[p])
        BY <1>2 DEF Accepts
      <3>2. p \in OpenJobs
        BY <1>1, <3>1 DEF OpenJobs, RegistryInv
      <3>3. shutGen \in job[p].gens
        BY <3>2 DEF IInv, ShutdownCovers
      <3> QED
        BY <1>2, <1>5, <1>6, <2>1, <3>1, <3>3
    <2>2. CASE j \in OpenJobs
      <3>1. j \in records /\ shutGen \in job[j].gens
        BY <2>2 DEF IInv, ShutdownCovers
      <3> QED
        BY <1>1, <1>2, <1>4, <1>6, <3>1
    <2> QED
      BY <1>14, <2>1, <2>2
  <1>16. ClosedQuiescent'
    BY <1>2, <1>3 DEF ClosedQuiescent, Accepts
  <1> QED
    BY <1>8, <1>9, <1>10, <1>11, <1>12, <1>13, <1>15, <1>16 DEF IInv

----------------------------------------------------------------------------
\* What taking hold of, or letting go of, generation g does to the registry:
\* only g's tags and prune marks change, and a job still tagged or still
\* open stays registered.
TagStep(g) ==
    /\ UNCHANGED <<accepted, parent>>
    /\ job' \in [Jobs -> JobRecord]
    /\ children' \in [Jobs -> SUBSET Jobs]
    /\ records' \subseteq records
    /\ \A j \in Jobs :
        /\ j \notin records => job'[j] = job[j]
        /\ job'[j].gens \ {g} = job[j].gens \ {g}
        /\ job'[j].state = job[j].state
        /\ job'[j].task = job[j].task
        /\ job'[j].obs = job[j].obs
        /\ (j \in records /\ (job'[j].gens # {} \/ ~ IsTerminal(job'[j])))
               => j \in records'

\* Retaining S and releasing g at once, or releasing what g already holds
\* (S = {}), is such a step and leaves no tag g behind.
LEMMA ReleaseEffect ==
    ASSUME IInv, NEW g \in Gens, NEW S \in SUBSET records,
           Release(g, Retain(g, S)),
           UNCHANGED <<accepted, parent>>
    PROVE  TagStep(g) /\ \A j \in Jobs : g \notin job'[j].gens
  <1> DEFINE jb == Retain(g, S)
             M == Members(g, jb)
             rb == [j \in Jobs |-> IF j \in M
                      THEN [jb[j] EXCEPT !.gens = @ \ {g}, !.prune = TRUE]
                      ELSE jb[j]]
  <1>1. /\ TypeOK /\ job \in [Jobs -> JobRecord] /\ records \subseteq Jobs
        /\ \A j \in Jobs : job[j].gens # {} => j \in records
    BY DEF IInv, TypeOK, RegistryInv
  <1>2. \A j \in Jobs :
          /\ jb[j] \in JobRecord
          /\ jb[j].state = job[j].state /\ jb[j].task = job[j].task
          /\ jb[j].obs = job[j].obs
          /\ jb[j].gens \ {g} = job[j].gens \ {g}
          /\ j \notin records => jb[j] = job[j]
          /\ g \in jb[j].gens => j \in records
    BY <1>1 DEF Retain, JobRecord
  <1>3. Prune(rb, M)
    BY DEF Release
  <1>4. \A j \in Jobs : j \in M <=> j \in records /\ g \in jb[j].gens
    BY DEF Members
  <1> HIDE DEF jb, M
  <1>5. ASSUME NEW j \in Jobs
        PROVE  /\ rb[j] \in JobRecord
               /\ j \notin records => rb[j] = job[j]
               /\ rb[j].gens \ {g} = job[j].gens \ {g}
               /\ rb[j].state = job[j].state
               /\ rb[j].task = job[j].task
               /\ rb[j].obs = job[j].obs
               /\ g \notin rb[j].gens
    <2>1. CASE j \in M
      BY <1>2, <1>4, <2>1 DEF JobRecord
    <2>2. CASE j \notin M
      BY <1>2, <1>4, <2>2
    <2> QED
      BY <2>1, <2>2
  <1>6. rb \in [Jobs -> JobRecord]
    BY <1>5
  <1> HIDE DEF rb
  <1>7. /\ job' = rb /\ records' \subseteq records
        /\ children' \in [Jobs -> SUBSET Jobs]
        /\ \A j \in records :
             (rb[j].gens # {} \/ ~ IsTerminal(rb[j])) => j \in records'
    BY <1>1, <1>3, PruneEffect
  <1> QED
    BY <1>5, <1>6, <1>7 DEF TagStep

\* Releasing without retaining first.
LEMMA ReleaseHeld ==
    ASSUME IInv, NEW g \in Gens, Release(g, job),
           UNCHANGED <<accepted, parent>>
    PROVE  TagStep(g) /\ \A j \in Jobs : g \notin job'[j].gens
  <1>1. job \in [Jobs -> JobRecord]
    BY DEF IInv, TypeOK
  <1>2. Retain(g, {}) = job
    BY <1>1 DEF Retain
  <1>3. Release(g, Retain(g, {}))
    BY <1>2
  <1> QED
    BY <1>3, ReleaseEffect

LEMMA RetainEffect ==
    ASSUME IInv, NEW g \in Gens, NEW S \in SUBSET records,
           job' = Retain(g, S),
           UNCHANGED <<accepted, parent, records, children>>
    PROVE  TagStep(g) /\ \A j \in S : g \in job'[j].gens
  <1>1. /\ job \in [Jobs -> JobRecord] /\ records \subseteq Jobs
        /\ children \in [Jobs -> SUBSET Jobs]
    BY DEF IInv, TypeOK
  <1>2. \A j \in Jobs :
          /\ job'[j] \in JobRecord
          /\ job'[j].state = job[j].state /\ job'[j].task = job[j].task
          /\ job'[j].obs = job[j].obs
          /\ job'[j].gens \ {g} = job[j].gens \ {g}
          /\ j \notin records => job'[j] = job[j]
          /\ j \in S => g \in job'[j].gens
    BY <1>1 DEF Retain, JobRecord
  <1>3. job' \in [Jobs -> JobRecord]
    BY <1>2 DEF Retain
  <1> QED
    BY <1>1, <1>2, <1>3 DEF TagStep

\* What every such step preserves of the registry and of other generations.
LEMMA TagStepPreserves ==
    ASSUME IInv, NEW g \in Gens, TagStep(g)
    PROVE  /\ RegistryInv'
           /\ OpenJobs' = OpenJobs
           /\ \A j \in Jobs : Settled(job'[j]) <=> Settled(job[j])
           /\ \A h \in Gens, j \in Jobs :
                h # g => (h \in job'[j].gens <=> h \in job[j].gens)
           /\ \A j \in Jobs : (j \in records /\ job'[j].gens # {}) => j \in records'
  <1>1. accepted \in 0 .. MaxJobs /\ accepted' = accepted
    BY DEF IInv, TypeOK, TagStep
  <1>2. \A j \in Jobs :
          /\ j \notin records => job'[j] = job[j]
          /\ job'[j].gens \ {g} = job[j].gens \ {g}
          /\ job'[j].state = job[j].state
          /\ job'[j].task = job[j].task
          /\ job'[j].obs = job[j].obs
          /\ (j \in records /\ (job'[j].gens # {} \/ ~ IsTerminal(job'[j])))
               => j \in records'
    BY DEF TagStep
  <1>3. RegistryInv'
    <2>1. records' \subseteq 1 .. accepted'
      BY <1>1 DEF IInv, RegistryInv, TagStep
    <2>2. ASSUME NEW j \in Jobs
          PROVE  /\ j > accepted => job'[j] = UnbornJob
                 /\ job'[j].task \in {"unborn", "scheduled"}
                      => job'[j].state = "PENDING"
                 /\ (j <= accepted /\ ~ IsTerminal(job'[j])) => j \in records'
                 /\ job'[j].gens # {} => j \in records'
      <3>1. /\ j > accepted => job[j] = UnbornJob /\ j \notin records
            /\ job[j].task \in {"unborn", "scheduled"}
                      => job[j].state = "PENDING"
            /\ (j <= accepted /\ ~ IsTerminal(job[j])) => j \in records
            /\ job[j].gens # {} => j \in records
        BY <1>1 DEF IInv, RegistryInv
      <3> QED
        BY <1>2, <3>1 DEF IsTerminal
    <2> QED
      BY <1>1, <2>1, <2>2 DEF RegistryInv, IsTerminal
  <1>4. OpenJobs' = OpenJobs
    <2>1. 1 .. accepted \subseteq Jobs
      BY <1>1, BoundsAssumption
    <2>2. OpenJobs' = {j \in 1 .. accepted : ~ IsTerminal(job'[j])}
      BY <1>1 DEF OpenJobs, IsTerminal
    <2> QED
      BY <1>2, <2>1, <2>2 DEF OpenJobs, IsTerminal
  <1>5. \A j \in Jobs : Settled(job'[j]) <=> Settled(job[j])
    BY <1>2 DEF Settled, IsTerminal, ObserverDone
  <1> QED
    BY <1>2, <1>3, <1>4, <1>5

\* What remains to be shown of an action on generation g: that g itself
\* keeps its promise.
GenerationStep(g) ==
    /\ TagStep(g)
    /\ genCount' \in genCount .. MaxGens
    /\ g <= genCount'
    /\ flush' \in [Gens -> FlushRecord]
    /\ owed' \in [Gens -> SUBSET Jobs]
    /\ \A h \in Gens : h # g => flush'[h] = flush[h] /\ owed'[h] = owed[h]
    /\ flush'[g].status = "waiting" =>
            \A j \in owed'[g] : g \in job'[j].gens
    /\ flush'[g].status \in {"returned", "raised"} =>
            /\ owed'[g] \subseteq flush'[g].report
            /\ \A j \in flush'[g].report : Settled(job[j])
    /\ \A j \in Jobs : g \in job'[j].gens => flush'[g].status = "waiting"

LEMMA GenerationStepPreserves ==
    ASSUME IInv, NEW g \in Gens, GenerationStep(g)
    PROVE  RegistryInv' /\ GenerationInv' /\ OwedRetained' /\ ReportComplete'
  <1>1. TagStep(g)
    BY DEF GenerationStep
  <1>2. /\ RegistryInv'
        /\ \A j \in Jobs : Settled(job'[j]) <=> Settled(job[j])
        /\ \A h \in Gens, j \in Jobs :
             h # g => (h \in job'[j].gens <=> h \in job[j].gens)
    BY <1>1, TagStepPreserves
  <1>3. /\ genCount \in 0 .. MaxGens /\ genCount' \in genCount .. MaxGens
        /\ g <= genCount'
        /\ \A h \in Gens : h # g => flush'[h] = flush[h] /\ owed'[h] = owed[h]
        /\ \A h \in Gens : /\ owed[h] \subseteq Jobs /\ owed'[h] \subseteq Jobs
                           /\ flush[h].report \subseteq Jobs
                           /\ flush'[h].report \subseteq Jobs
    BY DEF GenerationStep, IInv, TypeOK, FlushRecord
  <1>4. GenerationInv'
    <2>1. ASSUME NEW h \in Gens, h > genCount'
          PROVE  flush'[h].status = "unused"
      BY <1>3, <2>1, BoundsAssumption DEF IInv, GenerationInv
    <2>2. ASSUME NEW j \in Jobs, NEW h \in Gens, h \in job'[j].gens
          PROVE  flush'[h].status = "waiting"
      BY <1>2, <1>3, <2>2 DEF IInv, GenerationInv, GenerationStep
    <2> QED
      BY <2>1, <2>2 DEF GenerationInv
  <1>5. OwedRetained'
    <2> SUFFICES ASSUME NEW h \in Gens, flush'[h].status = "waiting",
                        NEW j \in owed'[h]
                 PROVE  j \in records' /\ h \in job'[j].gens
      BY DEF OwedRetained
    <2>1. j \in Jobs
      BY <1>3
    <2>2. h \in job'[j].gens
      <3>1. CASE h = g
        BY <3>1 DEF GenerationStep
      <3>2. CASE h # g
        BY <1>2, <1>3, <2>1, <3>2 DEF IInv, OwedRetained
      <3> QED
        BY <3>1, <3>2
    <2> QED
      BY <1>2, <2>1, <2>2 DEF RegistryInv
  <1>6. ReportComplete'
    <2> SUFFICES ASSUME NEW h \in Gens,
                        flush'[h].status \in {"returned", "raised"}
                 PROVE  /\ owed'[h] \subseteq flush'[h].report
                        /\ \A j \in flush'[h].report : Settled(job'[j])
      BY DEF ReportComplete, Reported, Settled, IsTerminal, ObserverDone
    <2>1. CASE h = g
      BY <1>2, <1>3, <2>1 DEF GenerationStep
    <2>2. CASE h # g
      BY <1>2, <1>3, <2>2 DEF IInv, ReportComplete, Reported
    <2> QED
      BY <2>1, <2>2
  <1> QED
    BY <1>2, <1>4, <1>5, <1>6

\* An action on a flush generation leaves the shutdown alone.
LEMMA ShutdownUntouched ==
    ASSUME IInv, NEW g \in Gens, GenerationStep(g), g # shutGen,
           UNCHANGED <<mgr, shutGen>>
    PROVE  ShutdownInv' /\ ShutdownCovers' /\ ClosedQuiescent'
  <1>1. TagStep(g)
    BY DEF GenerationStep
  <1>2. /\ RegistryInv' /\ OpenJobs' = OpenJobs
        /\ \A h \in Gens, j \in Jobs :
             h # g => (h \in job'[j].gens <=> h \in job[j].gens)
    BY <1>1, TagStepPreserves
  <1>3. /\ mgr # "OPEN" => shutGen \in Gens
        /\ mgr \in {"OPEN", "DRAINING", "CANCELLING", "CLOSED"}
    BY BoundsAssumption DEF IInv, TypeOK, ShutdownInv, NoGen
  <1>4. /\ genCount \in 0 .. MaxGens /\ genCount' \in genCount .. MaxGens
        /\ shutGen \in 0 .. MaxGens /\ shutGen <= genCount
        /\ \A h \in Gens : h # g => flush'[h] = flush[h]
    BY DEF GenerationStep, IInv, TypeOK, ShutdownInv
  <1>5. ShutdownInv'
    <2>1. shutGen' <= genCount'
      BY <1>4
    <2> QED
      BY <1>3, <1>4, <2>1 DEF IInv, ShutdownInv, Reported
  <1>6. ShutdownCovers'
    <2> SUFFICES ASSUME mgr \in {"DRAINING", "CANCELLING"}, NEW j \in OpenJobs
                 PROVE  j \in records' /\ shutGen \in job'[j].gens
      BY <1>2 DEF ShutdownCovers
    <2>1. j \in records /\ shutGen \in job[j].gens
      BY DEF IInv, ShutdownCovers
    <2>2. j \in Jobs
      BY <2>1 DEF IInv, TypeOK
    <2>3. shutGen \in job'[j].gens
      BY <1>2, <1>3, <2>1, <2>2
    <2> QED
      BY <1>2, <2>2, <2>3 DEF RegistryInv
  <1>7. ClosedQuiescent'
    BY <1>2 DEF IInv, ClosedQuiescent
  <1> QED
    BY <1>5, <1>6, <1>7

----------------------------------------------------------------------------
\* _capture_flush_generation retains every open job; the traversal only adds.
LEMMA CaptureEffect ==
    ASSUME IInv
    PROVE  /\ FlushCapture \in SUBSET records
           /\ OpenJobs \subseteq FlushCapture
           /\ OpenJobs \subseteq ShutdownCapture
           /\ OpenJobs \subseteq Jobs
  <1>1. accepted \in 0 .. MaxJobs
    BY DEF IInv, TypeOK
  <1>2. OpenJobs \subseteq Jobs
    BY <1>1, BoundsAssumption DEF OpenJobs
  <1>3. \A j \in OpenJobs : j \in records /\ ~ IsTerminal(job[j])
    BY <1>1, <1>2 DEF OpenJobs, IInv, RegistryInv
  <1>4. OpenJobs \subseteq {j \in records : ~ OwnedByPriorGeneration(job[j])}
    BY <1>3 DEF OwnedByPriorGeneration
  <1> QED
    BY <1>2, <1>3, <1>4 DEF FlushCapture, ShutdownCapture

\* The number a new generation gets is unused and tags nothing.
LEMMA NextGenFresh ==
    ASSUME IInv, NextGen \in Gens
    PROVE  /\ flush[NextGen].status = "unused"
           /\ \A j \in Jobs : NextGen \notin job[j].gens
           /\ NextGen # shutGen
           /\ NextGen \in genCount .. MaxGens
  <1>1. genCount \in 0 .. MaxGens /\ shutGen \in 0 .. MaxGens
    BY DEF IInv, TypeOK
  <1>2. NextGen > genCount /\ NextGen # shutGen
    BY <1>1, BoundsAssumption DEF NextGen, IInv, ShutdownInv
  <1>3. flush[NextGen].status = "unused"
    BY <1>2 DEF IInv, GenerationInv
  <1>4. NextGen \in genCount .. MaxGens
    BY <1>1, BoundsAssumption DEF NextGen
  <1> QED
    BY <1>2, <1>3, <1>4 DEF IInv, GenerationInv

LEMMA FlushAtOncePreserves ==
    ASSUME IInv, FlushAtOnce
    PROVE  IInv' /\ \E h \in Gens : TagStep(h)
  <1> DEFINE g == NextGen
             S == FlushCapture
             jb == Retain(g, S)
  <1>1. /\ g \in Gens /\ PendingOf(S) = {} /\ Cutoff(g) /\ Publish(g, jb, TRUE)
        /\ UNCHANGED <<mgr, accepted, shutGen, policy, parent>>
    BY DEF FlushAtOnce
  <1>2. /\ flush[g].status = "unused" /\ g # shutGen
        /\ \A j \in Jobs : g \notin job[j].gens
        /\ g \in genCount .. MaxGens
    BY <1>1, NextGenFresh
  <1>3. /\ S \in SUBSET records /\ OpenJobs \subseteq S /\ OpenJobs \subseteq Jobs
    BY CaptureEffect
  <1>4. /\ TypeOK /\ records \subseteq Jobs /\ job \in [Jobs -> JobRecord]
    BY DEF IInv, TypeOK
  <1> HIDE DEF g, S
  <1>5. Members(g, jb) = S
    BY <1>2, <1>3, <1>4 DEF Members, Retain, JobRecord
  <1>6. Release(g, jb)
    BY <1>1 DEF Publish
  <1>7. TagStep(g) /\ \A j \in Jobs : g \notin job'[j].gens
    BY <1>1, <1>3, <1>6, ReleaseEffect
  <1>8. OpenJobs = {} /\ \A j \in S : Settled(job[j])
    BY <1>1, <1>3 DEF PendingOf, Settled, OpenJobs
  <1>9. /\ flush' = [flush EXCEPT ![g] =
                       [status |-> Verdict(S, TRUE), awaiting |-> {},
                        report |-> S]]
        /\ genCount' = g /\ owed' = [owed EXCEPT ![g] = OpenJobs]
        /\ prior' = [prior EXCEPT ![g] = ReportedByFlush]
    BY <1>1, <1>5 DEF Publish, Cutoff
  <1>10. Verdict(S, TRUE) \in {"raised", "returned"}
    BY DEF Verdict
  <1>11. /\ flush' \in [Gens -> FlushRecord]
         /\ owed' \in [Gens -> SUBSET Jobs]
         /\ flush'[g].status = Verdict(S, TRUE) /\ flush'[g].report = S
         /\ owed'[g] = {}
         /\ \A h \in Gens : h # g => flush'[h] = flush[h] /\ owed'[h] = owed[h]
    BY <1>1, <1>3, <1>4, <1>8, <1>9, <1>10 DEF TypeOK, FlushRecord
  <1>12. GenerationStep(g)
    <2>1. g <= genCount' /\ genCount' \in genCount .. MaxGens
      BY <1>1, <1>2, <1>9, BoundsAssumption
    <2>2. flush'[g].status # "waiting"
      BY <1>10, <1>11
    <2>3. owed'[g] \subseteq flush'[g].report
      BY <1>11
    <2>4. \A j \in flush'[g].report : Settled(job[j])
      BY <1>8, <1>11
    <2> QED
      BY <1>7, <1>11, <2>1, <2>2, <2>3, <2>4 DEF GenerationStep
  <1>13. TypeOK'
    <2>1. ReportedByFlush \subseteq Jobs
      BY <1>4 DEF ReportedByFlush, TypeOK, FlushRecord
    <2>2. prior' \in [Gens -> SUBSET Jobs]
      BY <1>4, <1>9, <2>1 DEF TypeOK
    <2>3. genCount' \in 0 .. MaxGens
      BY <1>1, <1>9, BoundsAssumption
    <2> QED
      BY <1>1, <1>4, <1>7, <1>11, <2>2, <2>3 DEF TypeOK, TagStep
  <1>20. IInv'
    BY <1>1, <1>2, <1>12, <1>13, GenerationStepPreserves, ShutdownUntouched DEF IInv
  <1> QED
    BY <1>20, <1>1, <1>7

LEMMA FlushBeginPreserves ==
    ASSUME IInv, FlushBegin
    PROVE  IInv' /\ \E h \in Gens : TagStep(h)
  <1> DEFINE g == NextGen
             S == FlushCapture
  <1>1. /\ g \in Gens /\ Cutoff(g) /\ job' = Retain(g, S)
        /\ flush' = [flush EXCEPT ![g].status = "waiting",
                                  ![g].awaiting = PendingOf(S)]
        /\ UNCHANGED <<mgr, accepted, shutGen, policy, parent, records,
                       children>>
    BY DEF FlushBegin
  <1>2. /\ flush[g].status = "unused" /\ g # shutGen
        /\ g \in genCount .. MaxGens
    BY <1>1, NextGenFresh
  <1>3. /\ S \in SUBSET records /\ OpenJobs \subseteq S /\ OpenJobs \subseteq Jobs
    BY CaptureEffect
  <1>4. /\ TypeOK /\ records \subseteq Jobs
    BY DEF IInv, TypeOK
  <1> HIDE DEF g, S
  <1>5. TagStep(g) /\ \A j \in S : g \in job'[j].gens
    BY <1>1, <1>3, RetainEffect
  <1>6. PendingOf(S) \subseteq Jobs
    BY <1>3, <1>4 DEF PendingOf
  <1>7. /\ genCount' = g /\ owed' = [owed EXCEPT ![g] = OpenJobs]
        /\ prior' = [prior EXCEPT ![g] = ReportedByFlush]
    BY <1>1 DEF Cutoff
  <1>8. /\ flush' \in [Gens -> FlushRecord]
        /\ owed' \in [Gens -> SUBSET Jobs]
        /\ flush'[g].status = "waiting" /\ owed'[g] = OpenJobs
        /\ \A h \in Gens : h # g => flush'[h] = flush[h] /\ owed'[h] = owed[h]
    <2>1. /\ flush \in [Gens -> FlushRecord] /\ flush[g] \in FlushRecord
          /\ owed \in [Gens -> SUBSET Jobs]
      BY <1>1, <1>4 DEF TypeOK
    <2> DEFINE f == [flush[g] EXCEPT !.status = "waiting",
                                     !.awaiting = PendingOf(S)]
    <2>2. flush' = [flush EXCEPT ![g] = f]
      BY <1>1
    <2>3. f \in FlushRecord /\ f.status = "waiting"
      BY <1>6, <2>1 DEF FlushRecord
    <2> HIDE DEF f
    <2>4. /\ flush' \in [Gens -> FlushRecord] /\ flush'[g] = f
          /\ \A h \in Gens : h # g => flush'[h] = flush[h]
      BY <1>1, <2>1, <2>2, <2>3
    <2>5. /\ owed' \in [Gens -> SUBSET Jobs] /\ owed'[g] = OpenJobs
          /\ \A h \in Gens : h # g => owed'[h] = owed[h]
      BY <1>1, <1>3, <1>7, <2>1
    <2> QED
      BY <2>3, <2>4, <2>5
  <1>9. GenerationStep(g)
    <2>1. g <= genCount' /\ genCount' \in genCount .. MaxGens
      BY <1>1, <1>2, <1>7, BoundsAssumption
    <2> QED
      BY <1>3, <1>5, <1>8, <2>1 DEF GenerationStep
  <1>10. TypeOK'
    <2>1. ReportedByFlush \subseteq Jobs
      BY <1>4 DEF ReportedByFlush, TypeOK, FlushRecord
    <2>2. prior' \in [Gens -> SUBSET Jobs]
      BY <1>4, <1>7, <2>1 DEF TypeOK
    <2>3. genCount' \in 0 .. MaxGens
      BY <1>1, <1>7, BoundsAssumption
    <2> QED
      BY <1>1, <1>4, <1>5, <1>8, <2>2, <2>3 DEF TypeOK, TagStep
  <1>20. IInv'
    BY <1>1, <1>2, <1>9, <1>10, GenerationStepPreserves, ShutdownUntouched DEF IInv
  <1> QED
    BY <1>20, <1>1, <1>5

\* A generation whose members have all settled keeps its promise.
LEMMA PublishEffect ==
    ASSUME IInv, NEW g \in Gens, NEW raises \in BOOLEAN,
           flush[g].status = "waiting",
           PendingOf(Members(g, job)) = {},
           Publish(g, job, raises),
           UNCHANGED <<accepted, genCount, parent, owed>>
    PROVE  /\ GenerationStep(g)
           /\ flush'[g].status \in {"returned", "raised"}
           /\ TagStep(g)
           /\ flush' \in [Gens -> FlushRecord]
  <1> DEFINE M == Members(g, job)
  <1>1. /\ TypeOK /\ records \subseteq Jobs
        /\ genCount \in 0 .. MaxGens
    BY DEF IInv, TypeOK
  <1>2. M \subseteq Jobs /\ \A j \in M : Settled(job[j])
    BY <1>1 DEF Members, PendingOf
  <1>3. owed[g] \subseteq M
    BY DEF IInv, OwedRetained, Members
  <1>4. /\ flush' = [flush EXCEPT ![g] =
                       [status |-> Verdict(M, raises), awaiting |-> {},
                        report |-> M]]
        /\ Release(g, job)
    BY DEF Publish
  <1> HIDE DEF M
  <1>5. TagStep(g) /\ \A j \in Jobs : g \notin job'[j].gens
    BY <1>4, ReleaseHeld
  <1>6. Verdict(M, raises) \in {"returned", "raised"}
    BY DEF Verdict
  <1>7. /\ flush' \in [Gens -> FlushRecord]
        /\ flush'[g].status = Verdict(M, raises) /\ flush'[g].report = M
        /\ \A h \in Gens : h # g => flush'[h] = flush[h]
    BY <1>1, <1>2, <1>4, <1>6 DEF TypeOK, FlushRecord
  <1>8. g <= genCount' /\ genCount' \in genCount .. MaxGens
    BY <1>1, BoundsAssumption DEF IInv, GenerationInv
  <1>9. /\ flush'[g].status # "waiting" /\ owed'[g] \subseteq flush'[g].report
        /\ \A j \in flush'[g].report : Settled(job[j])
    BY <1>2, <1>3, <1>6, <1>7
  <1>10. owed' \in [Gens -> SUBSET Jobs]
    BY <1>1 DEF TypeOK
  <1>11. GenerationStep(g)
    BY <1>5, <1>7, <1>8, <1>9, <1>10 DEF GenerationStep
  <1> QED
    BY <1>5, <1>6, <1>7, <1>11

LEMMA FlushEndPreserves ==
    ASSUME IInv, NEW g \in Gens, FlushEnd(g)
    PROVE  IInv' /\ \E h \in Gens : TagStep(h)
  <1>1. /\ g # shutGen /\ flush[g].status = "waiting"
        /\ PendingOf(Members(g, job)) = {} /\ Publish(g, job, TRUE)
        /\ UNCHANGED <<mgr, accepted, genCount, shutGen, policy, parent, owed,
                       prior>>
    BY DEF FlushEnd
  <1>2. /\ GenerationStep(g) /\ TagStep(g)
        /\ flush' \in [Gens -> FlushRecord]
    BY <1>1, PublishEffect
  <1>3. TypeOK'
    BY <1>1, <1>2 DEF IInv, TypeOK, TagStep
  <1>20. IInv'
    BY <1>1, <1>2, <1>3, GenerationStepPreserves, ShutdownUntouched DEF IInv
  <1> QED
    BY <1>20, <1>2

LEMMA FlushCancelledPreserves ==
    ASSUME IInv, NEW g \in Gens, FlushCancelled(g)
    PROVE  IInv' /\ \E h \in Gens : TagStep(h)
  <1>1. /\ g # shutGen /\ flush[g].status = "waiting" /\ Release(g, job)
        /\ flush' = [flush EXCEPT ![g].status = "abandoned", ![g].awaiting = {}]
        /\ UNCHANGED <<mgr, accepted, genCount, shutGen, policy, parent, owed,
                       prior>>
    BY DEF FlushCancelled
  <1>2. TypeOK /\ genCount \in 0 .. MaxGens /\ owed \in [Gens -> SUBSET Jobs]
    BY DEF IInv, TypeOK
  <1>3. TagStep(g) /\ \A j \in Jobs : g \notin job'[j].gens
    BY <1>1, ReleaseHeld
  <1>4. /\ flush' \in [Gens -> FlushRecord]
        /\ flush'[g].status = "abandoned"
        /\ \A h \in Gens : h # g => flush'[h] = flush[h]
    <2> DEFINE r == [flush[g] EXCEPT !.status = "abandoned", !.awaiting = {}]
    <2>1. flush[g] \in FlushRecord /\ flush \in [Gens -> FlushRecord]
      BY <1>2 DEF TypeOK
    <2>2. r \in FlushRecord /\ r.status = "abandoned"
      BY <2>1 DEF FlushRecord
    <2>3. flush' = [flush EXCEPT ![g] = r]
      BY <1>1, <2>1 DEF FlushRecord
    <2> HIDE DEF r
    <2> QED
      BY <2>1, <2>2, <2>3
  <1>5. g <= genCount' /\ genCount' \in genCount .. MaxGens
    BY <1>1, <1>2, BoundsAssumption DEF IInv, GenerationInv
  <1>6. GenerationStep(g)
    BY <1>1, <1>2, <1>3, <1>4, <1>5 DEF GenerationStep
  <1>7. TypeOK'
    BY <1>1, <1>3, <1>4 DEF IInv, TypeOK, TagStep
  <1>20. IInv'
    BY <1>1, <1>6, <1>7, GenerationStepPreserves, ShutdownUntouched DEF IInv
  <1> QED
    BY <1>20, <1>3

LEMMA RescanPreserves ==
    ASSUME IInv, NEW g \in Gens, Rescan(g)
    PROVE  IInv'
  <1>1. /\ flush[g].status = "waiting"
        /\ flush' = [flush EXCEPT ![g].awaiting = PendingOf(Members(g, job))]
        /\ UNCHANGED <<mgr, accepted, genCount, shutGen, policy, job, parent,
                       records, children, owed, prior>>
    BY DEF Rescan
  <1>2. PendingOf(Members(g, job)) \subseteq Jobs
    BY DEF PendingOf, Members, IInv, TypeOK
  <1>3. /\ flush' \in [Gens -> FlushRecord]
        /\ \A h \in Gens : /\ flush'[h].status = flush[h].status
                           /\ flush'[h].report = flush[h].report
    BY <1>1, <1>2 DEF IInv, TypeOK, FlushRecord
  <1>4. TypeOK' /\ RegistryInv'
    BY <1>1, <1>3 DEF IInv, TypeOK, RegistryInv, IsTerminal
  <1>5. GenerationInv' /\ OwedRetained'
    BY <1>1, <1>3 DEF IInv, GenerationInv, OwedRetained
  <1>6. ReportComplete'
    BY <1>1, <1>3 DEF IInv, ReportComplete, Reported, Settled, IsTerminal,
                      ObserverDone
  <1>7. ShutdownInv'
    <2>1. mgr # "OPEN" => shutGen \in Gens
      BY BoundsAssumption DEF IInv, TypeOK, ShutdownInv, NoGen
    <2> QED
      BY <1>1, <1>3, <2>1 DEF IInv, TypeOK, ShutdownInv, Reported
  <1>8. ShutdownCovers' /\ ClosedQuiescent'
    BY <1>1 DEF IInv, ShutdownCovers, ClosedQuiescent, OpenJobs, IsTerminal
  <1> QED
    BY <1>4, <1>5, <1>6, <1>7, <1>8 DEF IInv

LEMMA ShutdownEndPreserves ==
    ASSUME IInv, ShutdownEnd
    PROVE  IInv' /\ \E h \in Gens : TagStep(h)
  <1> DEFINE g == shutGen
  <1>1. /\ g # NoGen /\ flush[g].status = "waiting"
        /\ PendingOf(Members(g, job)) = {} /\ Publish(g, job, policy = "DRAIN")
        /\ mgr' = "CLOSED"
        /\ UNCHANGED <<accepted, genCount, shutGen, policy, parent, owed, prior>>
    BY DEF ShutdownEnd
  <1>2. g \in Gens
    BY <1>1, BoundsAssumption DEF IInv, TypeOK, NoGen
  <1>3. (policy = "DRAIN") \in BOOLEAN
    OBVIOUS
  <1>4. /\ GenerationStep(g) /\ TagStep(g)
        /\ flush' \in [Gens -> FlushRecord]
        /\ flush'[g].status \in {"returned", "raised"}
    BY <1>1, <1>2, <1>3, PublishEffect
  <1>5. TypeOK'
    BY <1>1, <1>4 DEF IInv, TypeOK, TagStep
  <1>6. RegistryInv' /\ GenerationInv' /\ OwedRetained' /\ ReportComplete'
    BY <1>2, <1>4, GenerationStepPreserves
  <1>7. ShutdownInv' /\ ShutdownCovers'
    BY <1>1, <1>4 DEF IInv, ShutdownInv, ShutdownCovers, Reported, NoGen
  <1>8. OpenJobs = {}
    <2>1. mgr \in {"DRAINING", "CANCELLING"}
      BY <1>1 DEF IInv, TypeOK, ShutdownInv, Reported
    <2>2. \A j \in OpenJobs : j \in Members(g, job)
      BY <2>1 DEF IInv, ShutdownCovers, Members
    <2>3. \A j \in OpenJobs : ~ Settled(job[j])
      BY DEF OpenJobs, Settled
    <2> QED
      BY <1>1, <2>2, <2>3 DEF PendingOf
  <1>9. ClosedQuiescent'
    BY <1>2, <1>4, <1>8, TagStepPreserves DEF ClosedQuiescent
  <1>20. IInv'
    BY <1>5, <1>6, <1>7, <1>9 DEF IInv
  <1> QED
    BY <1>20, <1>2, <1>4

LEMMA ShutdownPreserves ==
    ASSUME IInv, NEW pol \in Policies, Shutdown(pol)
    PROVE  IInv' /\ \E h \in Gens : TagStep(h)
  <1> DEFINE g == NextGen
             S == ShutdownCapture
             asked(j) == AskedToCancel(pol, j)
             r(j) == [job[j] EXCEPT !.gens = @ \cup {g},
                                    !.cancel = @ \/ asked(j)]
  <1>1. /\ g \in Gens /\ mgr = "OPEN" /\ Cutoff(g)
        /\ mgr' = IF pol = "DRAIN" THEN "DRAINING" ELSE "CANCELLING"
        /\ policy' = pol /\ shutGen' = g
        /\ job' = [j \in Jobs |-> IF j \in S THEN r(j) ELSE job[j]]
        /\ flush' = [flush EXCEPT ![g].status = "waiting"]
        /\ UNCHANGED <<accepted, parent, records, children>>
    BY DEF Shutdown
  <1>2. /\ flush[g].status = "unused" /\ g \in genCount .. MaxGens
        /\ pol \in {"DRAIN", "CANCEL"}
    BY <1>1, NextGenFresh, SwitchAssumption
  <1>3. /\ OpenJobs \subseteq S /\ OpenJobs \subseteq Jobs
        /\ S \subseteq records
    BY CaptureEffect DEF ShutdownCapture
  <1>4. /\ TypeOK /\ records \subseteq Jobs /\ job \in [Jobs -> JobRecord]
    BY DEF IInv, TypeOK
  <1> HIDE DEF g, S
  <1>5. ASSUME NEW j \in Jobs
        PROVE  /\ r(j) \in JobRecord
               /\ r(j).gens = job[j].gens \cup {g}
               /\ r(j).state = job[j].state
               /\ r(j).task = job[j].task
               /\ r(j).obs = job[j].obs
    <2> DEFINE c == job[j].cancel \/ asked(j)
    <2>1. job[j] \in JobRecord
      BY <1>4
    <2>2. c \in BOOLEAN
      OBVIOUS
    <2> HIDE DEF c
    <2>3. /\ [job[j] EXCEPT !.gens = @ \cup {g}, !.cancel = c] \in JobRecord
          /\ [job[j] EXCEPT !.gens = @ \cup {g}, !.cancel = c].gens
                = job[j].gens \cup {g}
          /\ [job[j] EXCEPT !.gens = @ \cup {g}, !.cancel = c].state
                = job[j].state
          /\ [job[j] EXCEPT !.gens = @ \cup {g}, !.cancel = c].task
                = job[j].task
          /\ [job[j] EXCEPT !.gens = @ \cup {g}, !.cancel = c].obs = job[j].obs
      BY <1>1, <2>1, <2>2 DEF JobRecord
    <2>4. r(j) = [job[j] EXCEPT !.gens = @ \cup {g}, !.cancel = c]
      BY Zenon DEF c
    <2> QED
      BY <2>3, <2>4
  <1> HIDE DEF r
  <1>6. TagStep(g) /\ \A j \in S : g \in job'[j].gens
    <2>1. \A j \in Jobs :
            /\ job'[j] \in JobRecord
            /\ j \notin records => job'[j] = job[j]
            /\ job'[j].gens \ {g} = job[j].gens \ {g}
            /\ job'[j].state = job[j].state
            /\ job'[j].task = job[j].task
            /\ job'[j].obs = job[j].obs
            /\ j \in S => g \in job'[j].gens
      BY <1>1, <1>3, <1>4, <1>5
    <2>2. job' \in [Jobs -> JobRecord]
      BY <1>1, <2>1
    <2>3. S \subseteq Jobs /\ children \in [Jobs -> SUBSET Jobs]
      BY <1>3, <1>4 DEF TypeOK
    <2> QED
      BY <1>1, <2>1, <2>2, <2>3 DEF TagStep
  <1>7. /\ genCount' = g /\ owed' = [owed EXCEPT ![g] = OpenJobs]
        /\ prior' = [prior EXCEPT ![g] = ReportedByFlush]
    BY <1>1 DEF Cutoff
  <1>8. /\ flush' \in [Gens -> FlushRecord]
        /\ owed' \in [Gens -> SUBSET Jobs]
        /\ flush'[g].status = "waiting" /\ owed'[g] = OpenJobs
        /\ \A h \in Gens : h # g => flush'[h] = flush[h] /\ owed'[h] = owed[h]
    BY <1>1, <1>3, <1>4, <1>7 DEF TypeOK, FlushRecord
  <1>9. g <= genCount' /\ genCount' \in genCount .. MaxGens
    BY <1>1, <1>2, <1>7, BoundsAssumption
  <1>10. GenerationStep(g)
    BY <1>3, <1>6, <1>8, <1>9 DEF GenerationStep
  <1>11. RegistryInv' /\ GenerationInv' /\ OwedRetained' /\ ReportComplete'
    BY <1>1, <1>10, GenerationStepPreserves
  <1>12. TypeOK'
    <2>1. ReportedByFlush \subseteq Jobs
      BY <1>4 DEF ReportedByFlush, TypeOK, FlushRecord
    <2>2. prior' \in [Gens -> SUBSET Jobs]
      BY <1>4, <1>7, <2>1 DEF TypeOK
    <2>3. genCount' \in 0 .. MaxGens /\ shutGen' \in 0 .. MaxGens
      BY <1>1, <1>7, BoundsAssumption
    <2> QED
      BY <1>1, <1>2, <1>4, <1>6, <1>8, <2>2, <2>3 DEF TypeOK, TagStep
  <1>13. ShutdownInv'
    <2>1. g # NoGen /\ g <= g
      BY <1>1, BoundsAssumption DEF NoGen
    <2> QED
      BY <1>1, <1>2, <1>7, <1>8, <2>1 DEF ShutdownInv
  <1>14. ShutdownCovers'
    <2>1. OpenJobs' = OpenJobs
      BY <1>1, <1>6, TagStepPreserves
    <2>2. \A j \in OpenJobs : j \in records' /\ g \in job'[j].gens
      BY <1>1, <1>3, <1>6
    <2> QED
      BY <1>1, <2>1, <2>2 DEF ShutdownCovers
  <1>15. ClosedQuiescent'
    BY <1>1, <1>2 DEF ClosedQuiescent
  <1>20. IInv'
    BY <1>11, <1>12, <1>13, <1>14, <1>15 DEF IInv
  <1> QED
    BY <1>20, <1>1, <1>6

----------------------------------------------------------------------------
LEMMA InitEstablishes ==
    ASSUME Init
    PROVE  IInv
  <1>1. UnbornJob \in JobRecord
    BY DEF UnbornJob, JobRecord, Live, TaskStates, ObserverStates
  <1>2. TypeOK
    BY <1>1, BoundsAssumption DEF Init, TypeOK, NoGen, NoParent, FlushRecord
  <1>3. RegistryInv
    BY BoundsAssumption DEF Init, RegistryInv, UnbornJob
  <1>4. GenerationInv
    BY DEF Init, GenerationInv, UnbornJob
  <1>5. ShutdownInv
    BY DEF Init, ShutdownInv, NoGen
  <1>6. OwedRetained /\ ReportComplete /\ ShutdownCovers /\ ClosedQuiescent
    BY DEF Init, OwedRetained, ReportComplete, Reported, ShutdownCovers,
           ClosedQuiescent
  <1> QED
    BY <1>2, <1>3, <1>4, <1>5, <1>6 DEF IInv

\* A job's own steps are quiet.
LEMMA JobStepQuiet ==
    ASSUME IInv, NEW j \in Jobs, JobStep(j)
    PROVE  QuietStep
  <1>1. CASE Cancel(j)
    BY <1>1, CancelQuiet
  <1>2. CASE Start(j)
    BY <1>2, StartQuiet
  <1>3. CASE NeverStart(j)
    BY <1>3, NeverStartQuiet
  <1>4. CASE \E outcome \in Outcomes : Finish(j, outcome)
    BY <1>4, FinishQuiet, SwitchAssumption DEF Terminal
  <1>5. CASE StopObserving(j)
    BY <1>5, StopObservingQuiet
  <1>6. CASE OnTaskDone(j)
    BY <1>6, OnTaskDoneQuiet
  <1>7. CASE ObserverEnds(j)
    BY <1>7, ObserverEndsQuiet
  <1>8. CASE OnObserverDone(j)
    BY <1>8, OnObserverDoneQuiet
  <1> QED
    BY <1>1, <1>2, <1>3, <1>4, <1>5, <1>6, <1>7, <1>8 DEF JobStep

\* A step that changes no variable preserves the invariant.
LEMMA StutterPreserves ==
    ASSUME IInv, UNCHANGED vars
    PROVE  IInv'
  <1>1. TypeOK' /\ RegistryInv' /\ GenerationInv'
    BY DEF IInv, vars, TypeOK, RegistryInv, GenerationInv, IsTerminal
  <1>2. ShutdownInv' /\ OwedRetained' /\ ShutdownCovers' /\ ClosedQuiescent'
    BY DEF IInv, vars, ShutdownInv, Reported, OwedRetained, ShutdownCovers,
           ClosedQuiescent, OpenJobs, IsTerminal
  <1>3. ReportComplete'
    BY DEF IInv, vars, ReportComplete, Reported, Settled, IsTerminal,
           ObserverDone
  <1> QED
    BY <1>1, <1>2, <1>3 DEF IInv

LEMMA NextPreserves ==
    ASSUME IInv, [Next]_vars
    PROVE  IInv'
  <1>1. CASE \E p \in {NoParent} \cup 1 .. accepted : Submit(p)
    BY <1>1, SubmitPreserves
  <1>2. CASE \E j \in Jobs : JobStep(j)
    BY <1>2, JobStepQuiet, QuietPreserves
  <1>3. CASE FlushAtOnce
    BY <1>3, FlushAtOncePreserves
  <1>4. CASE FlushBegin
    BY <1>4, FlushBeginPreserves
  <1>5. CASE \E g \in Gens : FlushEnd(g) \/ Rescan(g) \/ FlushCancelled(g)
    BY <1>5, FlushEndPreserves, RescanPreserves, FlushCancelledPreserves
  <1>6. CASE \E pol \in Policies : Shutdown(pol)
    BY <1>6, ShutdownPreserves
  <1>7. CASE ShutdownEnd
    BY <1>7, ShutdownEndPreserves
  <1>8. CASE PruneTerminal
    BY <1>8, PruneTerminalQuiet, QuietPreserves
  <1>9. CASE \E g \in ExtGens : \/ \E j \in Jobs : RetainForFlush(g, j)
                               \/ ReleaseFlushGeneration(g)
    BY <1>9, RetainForFlushQuiet, ReleaseExternalQuiet, QuietPreserves
  <1>10. CASE UNCHANGED vars
    BY <1>10, StutterPreserves
  <1> QED
    BY <1>1, <1>2, <1>3, <1>4, <1>5, <1>6, <1>7, <1>8, <1>9, <1>10 DEF Next

\* The inductive invariant holds in every reachable state, for any number of
\* jobs and generations, with or without observer, cancelled callers, manual
\* pruning and direct retention.
THEOREM InductiveInvariant == Spec => []IInv
  <1>1. Init => IInv
    BY InitEstablishes
  <1>2. IInv /\ [Next]_vars => IInv'
    BY NextPreserves
  <1> QED
    BY <1>1, <1>2, PTL DEF Spec

\* The registry's variables keep their types.
THEOREM TypeCorrect == Spec => []TypeOK
  <1>1. IInv => TypeOK
    BY DEF IInv
  <1> QED
    BY <1>1, InductiveInvariant, PTL

\* flush() and shutdown() report everything they owe: each job open at the
\* cutoff and each descendant accepted while they waited, settled.
THEOREM FlushReportsAreComplete == Spec => []ReportComplete
  <1>1. IInv => ReportComplete
    BY DEF IInv
  <1> QED
    BY <1>1, InductiveInvariant, PTL

\* No prune, release, cancellation of another caller or overlapping
\* generation takes an owed job from a waiting generation.
THEOREM OwedJobsAreRetained == Spec => []OwedRetained
  <1>1. IInv => OwedRetained
    BY DEF IInv
  <1> QED
    BY <1>1, InductiveInvariant, PTL

\* While shutdown runs, every open job is in its generation.
THEOREM ShutdownCoversOpenJobs == Spec => []ShutdownCovers
  <1>1. IInv => ShutdownCovers
    BY DEF IInv
  <1> QED
    BY <1>1, InductiveInvariant, PTL

\* When shutdown has completed, no accepted job is open, under either policy.
THEOREM ShutdownLeavesNothingOpen == Spec => []ClosedQuiescent
  <1>1. IInv => ClosedQuiescent
    BY DEF IInv
  <1> QED
    BY <1>1, InductiveInvariant, PTL

----------------------------------------------------------------------------
\* Pruning keeps the child index exact.
LEMMA PruneKeepsIndex ==
    ASSUME TypeOK, ChildIndexExact, NEW jb, NEW C, Prune(jb, C),
           UNCHANGED parent
    PROVE  ChildIndexExact'
    BY DEF TypeOK, ChildIndexExact, Prune

LEMMA SubmitKeepsIndex ==
    ASSUME IInv, ChildIndexExact, NEW p \in {NoParent} \cup 1 .. accepted,
           Submit(p)
    PROVE  ChildIndexExact'
  <1> DEFINE n == accepted + 1
  <1>1. n \in Jobs /\ n \notin records /\ records \subseteq Jobs
    BY BoundsAssumption DEF Submit, IInv, RegistryInv, TypeOK
  <1>2. /\ records' = records \cup {n}
        /\ parent' = [parent EXCEPT ![n] = p]
        /\ children' = [q \in Jobs |->
                            children[q] \cup (IF q = p THEN {n} ELSE {})]
    BY DEF Submit
  <1>3. /\ parent'[n] = p
        /\ \A j \in records : parent'[j] = parent[j]
    BY <1>1, <1>2 DEF IInv, TypeOK
  <1> HIDE DEF n
  <1> SUFFICES ASSUME NEW q \in Jobs
               PROVE  children'[q] = {j \in records' : parent'[j] = q}
    BY DEF ChildIndexExact
  <1>4. children[q] = {j \in records : parent[j] = q}
    BY DEF ChildIndexExact
  <1> QED
    BY <1>2, <1>3, <1>4

LEMMA NextKeepsIndex ==
    ASSUME IInv, ChildIndexExact, [Next]_vars
    PROVE  ChildIndexExact'
  <1>0. TypeOK
    BY DEF IInv
  <1>1. CASE UNCHANGED <<parent, records, children>>
    BY <1>1 DEF ChildIndexExact
  <1>2. ASSUME NEW jb, NEW C, Prune(jb, C), UNCHANGED parent
        PROVE  ChildIndexExact'
    BY <1>0, <1>2, PruneKeepsIndex
  <1>3. CASE \E p \in {NoParent} \cup 1 .. accepted : Submit(p)
    BY <1>3, SubmitKeepsIndex
  <1>4. CASE \E j \in Jobs : JobStep(j)
    <2> SUFFICES ASSUME NEW j \in Jobs, JobStep(j)
                 PROVE  ChildIndexExact'
      BY <1>4
    <2>1. CASE OnTaskDone(j)
      BY <1>2, <2>1 DEF OnTaskDone, onlyJob
    <2>2. CASE OnObserverDone(j)
      BY <1>2, <2>2 DEF OnObserverDone, onlyJob
    <2>3. CASE Cancel(j) \/ Start(j) \/ NeverStart(j)
               \/ StopObserving(j) \/ ObserverEnds(j)
      BY <1>1, <2>3 DEF Cancel, Start, NeverStart, StopObserving,
                        ObserverEnds, onlyJob
    <2>4. CASE \E outcome \in Outcomes : Finish(j, outcome)
      BY <1>1, <2>4 DEF Finish, onlyJob
    <2> QED
      BY <2>1, <2>2, <2>3, <2>4 DEF JobStep
  <1>5. CASE FlushAtOnce
    BY <1>2, <1>5 DEF FlushAtOnce, Publish, Release
  <1>6. CASE FlushBegin
    BY <1>1, <1>6 DEF FlushBegin
  <1>7. CASE \E g \in Gens : FlushEnd(g) \/ Rescan(g) \/ FlushCancelled(g)
    <2> SUFFICES ASSUME NEW g \in Gens,
                        FlushEnd(g) \/ Rescan(g) \/ FlushCancelled(g)
                 PROVE  ChildIndexExact'
      BY <1>7
    <2>1. CASE FlushEnd(g)
      BY <1>2, <2>1 DEF FlushEnd, Publish, Release
    <2>2. CASE Rescan(g)
      BY <1>1, <2>2 DEF Rescan
    <2>3. CASE FlushCancelled(g)
      BY <1>2, <2>3 DEF FlushCancelled, Release
    <2> QED
      BY <2>1, <2>2, <2>3
  <1>8. CASE \E pol \in Policies : Shutdown(pol)
    BY <1>1, <1>8 DEF Shutdown
  <1>9. CASE ShutdownEnd
    BY <1>2, <1>9 DEF ShutdownEnd, Publish, Release
  <1>10. CASE PruneTerminal
    BY <1>2, <1>10 DEF PruneTerminal, onlyJob
  <1>11. CASE \E g \in ExtGens : \/ \E j \in Jobs : RetainForFlush(g, j)
                                \/ ReleaseFlushGeneration(g)
    <2>1. CASE \E g \in ExtGens, j \in Jobs : RetainForFlush(g, j)
      BY <1>1, <2>1 DEF RetainForFlush, onlyJob
    <2>2. CASE \E g \in ExtGens : ReleaseFlushGeneration(g)
      BY <1>2, <2>2 DEF ReleaseFlushGeneration, Release, onlyJob
    <2> QED
      BY <1>11, <2>1, <2>2
  <1>12. CASE UNCHANGED vars
    BY <1>1, <1>12 DEF vars
  <1> QED
    BY <1>3, <1>4, <1>5, <1>6, <1>7, <1>8, <1>9, <1>10, <1>11, <1>12 DEF Next

\* The child index never holds a pruned job and never misses a registered one.
THEOREM ChildIndexIsExact == Spec => []ChildIndexExact
  <1>1. Init => ChildIndexExact
    BY DEF Init, ChildIndexExact
  <1>2. IInv /\ ChildIndexExact /\ [Next]_vars => ChildIndexExact'
    BY NextKeepsIndex
  <1> QED
    BY <1>1, <1>2, InductiveInvariant, PTL DEF Spec

----------------------------------------------------------------------------
LEMMA QuietIsFinal ==
    ASSUME QuietStep, NEW j \in Jobs
    PROVE  KeepsOutcome(j)
  <1>1. /\ IsTerminal(job[j]) => job'[j].state = job[j].state
        /\ Settled(job[j]) => Settled(job'[j])
    BY DEF QuietStep
  <1> QED
    BY <1>1 DEF KeepsOutcome, Settled, IsTerminal, ObserverDone

LEMMA TagStepIsFinal ==
    ASSUME NEW g, TagStep(g), NEW j \in Jobs
    PROVE  KeepsOutcome(j)
    BY DEF TagStep, KeepsOutcome

\* A committed outcome is never changed and no observer is started twice,
\* whatever callbacks, late cancellations and flushes do.
THEOREM OutcomesAreFinal == Spec => OutcomeIsFinal
  <1>1. ASSUME IInv, [Next]_vars, NEW j \in Jobs
        PROVE  KeepsOutcome(j)
    <2>1. CASE \E p \in {NoParent} \cup 1 .. accepted : Submit(p)
      <3>1. PICK p \in {NoParent} \cup 1 .. accepted : Submit(p)
        BY <2>1
      <3> DEFINE n == accepted + 1
      <3>2. n \in Jobs /\ n > accepted /\ job[n] = UnbornJob
        BY <1>1, <3>1, BoundsAssumption DEF IInv, TypeOK, RegistryInv, Submit
      <3>3. ~ IsTerminal(job[n])
        BY <3>2 DEF IsTerminal, UnbornJob, Terminal
      <3>4. j # n => job'[j] = job[j]
        BY <1>1, <3>1 DEF Submit, IInv, TypeOK
      <3> HIDE DEF n
      <3> QED
        BY <3>3, <3>4 DEF KeepsOutcome
    <2>2. CASE \E k \in Jobs : JobStep(k)
      BY <1>1, <2>2, JobStepQuiet, QuietIsFinal
    <2>3. CASE FlushAtOnce
      BY <1>1, <2>3, FlushAtOncePreserves, TagStepIsFinal
    <2>4. CASE FlushBegin
      BY <1>1, <2>4, FlushBeginPreserves, TagStepIsFinal
    <2>5. CASE \E g \in Gens : FlushEnd(g) \/ FlushCancelled(g)
      BY <1>1, <2>5, FlushEndPreserves, FlushCancelledPreserves, TagStepIsFinal
    <2>6. CASE \E g \in Gens : Rescan(g)
      BY <2>6 DEF Rescan, KeepsOutcome
    <2>7. CASE \E pol \in Policies : Shutdown(pol)
      BY <1>1, <2>7, ShutdownPreserves, TagStepIsFinal
    <2>8. CASE ShutdownEnd
      BY <1>1, <2>8, ShutdownEndPreserves, TagStepIsFinal
    <2>9. CASE PruneTerminal
      BY <1>1, <2>9, PruneTerminalQuiet, QuietIsFinal
    <2>10. CASE \E g \in ExtGens : \/ \E k \in Jobs : RetainForFlush(g, k)
                                  \/ ReleaseFlushGeneration(g)
      BY <1>1, <2>10, RetainForFlushQuiet, ReleaseExternalQuiet, QuietIsFinal
    <2>11. CASE UNCHANGED vars
      BY <2>11 DEF vars, KeepsOutcome
    <2> QED
      BY <1>1, <2>1, <2>2, <2>3, <2>4, <2>5, <2>6, <2>7, <2>8, <2>9, <2>10,
         <2>11 DEF Next
  <1>2. IInv /\ [Next]_vars => [\A j \in Jobs : KeepsOutcome(j)]_vars
    BY <1>1
  <1> QED
    BY <1>2, InductiveInvariant, PTL DEF OutcomeIsFinal, Spec
-----------------------------------------------------------------------------
(***************************************************************************)
(* No flush reports a job again that an earlier one has reported           *)
(* (NoDoubleReport), for every number of jobs and generations.             *)
(*                                                                         *)
(* A flush leaves out what a prior generation owns, but its traversal      *)
(* enters every child of what it takes.  Sealed says why it meets no       *)
(* reported job on the way: up to some job c a generation took or left     *)
(* owned everything, and beyond c it has only descendants of what it has.  *)
(* What is beyond c and not its own is closed under children, holds every  *)
(* record that no generation owns, and so holds all of a later capture.    *)
(***************************************************************************)
Owned(j) == OwnedByPriorGeneration(job[j])

\* Generation h holds job j or has reported it.
Taken(h, j) ==
    IF flush[h].status = "waiting" THEN h \in job[j].gens
    ELSE j \in flush[h].report

SealedAt(h, c) ==
    \A j \in records :
        /\ j <= c => Taken(h, j) \/ Owned(j)
        /\ (j > c /\ Taken(h, j)) => parent[j] <= c \/ Taken(h, parent[j])
        /\ (Reported(h) /\ Taken(h, j)) => Owned(j)

Flushed(h) ==
    h # shutGen /\ flush[h].status \in {"waiting", "returned", "raised"}

Sealed == \A h \in Gens : Flushed(h) => \E c \in 0 .. accepted : SealedAt(h, c)

\* Histories speak of accepted jobs, and a parent is older than its child.
HistoryInv ==
    /\ \A g \in Gens : /\ prior[g] \subseteq 1 .. accepted
                       /\ flush[g].report \subseteq 1 .. accepted
                       /\ ~ Reported(g) => flush[g].report = {}
    /\ \A j \in 1 .. accepted : parent[j] \in 0 .. j - 1

\* What a waiting generation holds was not reported before its cutoff.
HoldsUnreported ==
    \A g \in Gens, j \in Jobs : g \in job[j].gens => j \notin prior[g]

RepInv ==
    /\ IInv /\ ChildIndexExact
    /\ HistoryInv /\ Sealed /\ HoldsUnreported /\ NoDoubleReport
-----------------------------------------------------------------------------
\* A record that a generation owns stays owned: what is terminal stays
\* terminal, and who takes its tag away marks it for pruning.
OwnedKept == \A j \in Jobs : Owned(j) => OwnedByPriorGeneration(job'[j])

\* An outcome changes no tag and no mark.
LEMMA TransitionKeepsMark ==
    ASSUME NEW r \in JobRecord, NEW o \in Terminal
    PROVE  /\ TransitionTerminal(r, o) \in JobRecord
           /\ TransitionTerminal(r, o).gens = r.gens
           /\ TransitionTerminal(r, o).prune = r.prune
  BY DEF TransitionTerminal, JobRecord, IsTerminal, Terminal, ObserverStates

\* A job's own steps leave its tags and its mark alone.
LEMMA JobStepOwned ==
    ASSUME IInv, NEW j \in Jobs, JobStep(j)
    PROVE  OwnedKept
  <1>1. QuietStep
    BY JobStepQuiet
  <1>2. \A k \in Jobs : IsTerminal(job[k]) => IsTerminal(job'[k])
    BY <1>1 DEF QuietStep, IsTerminal
  <1>3. job \in [Jobs -> JobRecord]
    BY DEF IInv, TypeOK
  <1>4. \A k \in Jobs : k # j => job'[k] = job[k]
    BY <1>3 DEF JobStep, Cancel, Start, NeverStart, Finish, StopObserving,
                OnTaskDone, ObserverEnds, OnObserverDone, Prune
  <1>5. job'[j].gens = job[j].gens /\ job'[j].prune = job[j].prune
    <2>1. CASE Cancel(j)
      BY <1>3, <2>1 DEF Cancel, JobRecord
    <2>2. CASE Start(j)
      BY <1>3, <2>2 DEF Start, JobRecord
    <2>3. CASE NeverStart(j)
      BY <1>3, <2>3 DEF NeverStart, JobRecord
    <2>4. CASE \E outcome \in Outcomes : Finish(j, outcome)
      <3>1. PICK o \in Outcomes : Finish(j, o)
        BY <2>4
      <3>2. o \in Terminal
        BY SwitchAssumption DEF SwitchAssumption, Terminal
      <3> DEFINE t == TransitionTerminal(job[j], o)
      <3>3. \E k, c : job' = [job EXCEPT ![j] = [t EXCEPT !.task = k, !.cancel = c]]
        BY <3>1 DEF Finish
      <3>4. t \in JobRecord /\ t.gens = job[j].gens /\ t.prune = job[j].prune
        BY <1>3, <3>2, TransitionKeepsMark
      <3> HIDE DEF t
      <3> QED
        BY <1>3, <3>3, <3>4 DEF JobRecord
    <2>5. CASE StopObserving(j)
      BY <1>3, <2>5 DEF StopObserving, JobRecord
    <2>6. CASE OnTaskDone(j)
      <3> DEFINE o == IF job[j].task = "cancelled" THEN "CANCELLATION" ELSE "SUCCESS"
                 t == TransitionTerminal(job[j], o)
      <3>1. job' = [job EXCEPT ![j] = [t EXCEPT !.task = "settled"]]
        BY <2>6 DEF OnTaskDone, Prune
      <3>2. o \in Terminal
        BY DEF Terminal
      <3> HIDE DEF o
      <3>3. t \in JobRecord /\ t.gens = job[j].gens /\ t.prune = job[j].prune
        BY <1>3, <3>2, TransitionKeepsMark
      <3> HIDE DEF t
      <3> QED
        BY <1>3, <3>1, <3>3 DEF JobRecord
    <2>7. CASE ObserverEnds(j)
      BY <1>3, <2>7 DEF ObserverEnds, JobRecord
    <2>8. CASE OnObserverDone(j)
      BY <1>3, <2>8 DEF OnObserverDone, Prune, JobRecord
    <2> QED
      BY <2>1, <2>2, <2>3, <2>4, <2>5, <2>6, <2>7, <2>8 DEF JobStep
  <1> QED
    BY <1>2, <1>4, <1>5 DEF OwnedKept, Owned, OwnedByPriorGeneration

LEMMA PruneTerminalOwned ==
    ASSUME IInv, PruneTerminal
    PROVE  OwnedKept
  <1>1. job \in [Jobs -> JobRecord]
    BY DEF IInv, TypeOK
  <1>2. job' = [j \in Jobs |-> IF j \in {k \in records : IsTerminal(job[k])}
                              THEN [job[j] EXCEPT !.prune = TRUE] ELSE job[j]]
    BY DEF PruneTerminal, Prune
  <1> SUFFICES ASSUME NEW j \in Jobs, Owned(j)
               PROVE  OwnedByPriorGeneration(job'[j])
    BY DEF OwnedKept
  <1>3. CASE j \in records
    <2>1. job'[j] = [job[j] EXCEPT !.prune = TRUE]
      BY <1>2, <1>3 DEF Owned, OwnedByPriorGeneration
    <2>2. job'[j].state = job[j].state /\ job'[j].prune
      BY <1>1, <2>1 DEF JobRecord
    <2> QED
      BY <2>2 DEF Owned, OwnedByPriorGeneration, IsTerminal
  <1>4. CASE j \notin records
    BY <1>2, <1>4 DEF Owned
  <1> QED
    BY <1>3, <1>4

LEMMA RetainOwned ==
    ASSUME IInv, NEW g, NEW S, job' = Retain(g, S)
    PROVE  OwnedKept
  <1>1. job \in [Jobs -> JobRecord]
    BY DEF IInv, TypeOK
  <1>2. \A j \in Jobs : /\ job'[j].state = job[j].state
                       /\ job[j].gens \subseteq job'[j].gens
                       /\ job'[j].prune = job[j].prune
    BY <1>1 DEF Retain, JobRecord
  <1> QED
    BY <1>2 DEF OwnedKept, Owned, OwnedByPriorGeneration, IsTerminal

\* Release marks what it lets go, after it was retained or not.
LEMMA ReleaseOwned ==
    ASSUME IInv, NEW g, NEW S \in SUBSET records, Release(g, Retain(g, S))
    PROVE  /\ OwnedKept
           /\ \A j \in Members(g, Retain(g, S)) : job'[j].prune
           /\ \A j \in Jobs : job'[j].state = job[j].state
  <1> DEFINE jb == Retain(g, S)
             M == Members(g, jb)
             rb == [j \in Jobs |-> IF j \in M
                      THEN [jb[j] EXCEPT !.gens = @ \ {g}, !.prune = TRUE]
                      ELSE jb[j]]
  <1>1. job \in [Jobs -> JobRecord] /\ records \subseteq Jobs
        /\ \A j \in Jobs : job[j].gens # {} => j \in records
    BY DEF IInv, TypeOK, RegistryInv
  <1>2. ASSUME NEW j \in Jobs
        PROVE  /\ \E e \in JobRecord : \E G : jb[j] = [e EXCEPT !.gens = G]
               /\ jb[j].state = job[j].state
               /\ jb[j].gens \ {g} = job[j].gens \ {g}
               /\ jb[j].prune = job[j].prune
               /\ g \in jb[j].gens => j \in records
    <2>1. job[j] \in JobRecord
      BY <1>1
    <2>2. CASE j \in S
      <3>1. jb[j] = [job[j] EXCEPT !.gens = @ \cup {g}]
        BY <2>2 DEF Retain
      <3> HIDE DEF jb
      <3> QED
        BY <1>1, <2>1, <2>2, <3>1 DEF JobRecord
    <2>3. CASE j \notin S
      <3>1. jb[j] = job[j]
        BY <2>3 DEF Retain
      <3>2. job[j] = [job[j] EXCEPT !.gens = job[j].gens]
        BY <2>1 DEF JobRecord
      <3> HIDE DEF jb
      <3> QED
        BY <1>1, <2>1, <3>1, <3>2
    <2> QED
      BY <2>2, <2>3
  <1>3. job' = rb
    BY DEF Release, Prune
  <1>4. \A j \in Jobs : j \in M <=> j \in records /\ g \in jb[j].gens
    BY DEF Members
  <1>5. M \subseteq Jobs
    BY <1>1 DEF Members
  <1> HIDE DEF jb, M
  <1>6. ASSUME NEW j \in Jobs
        PROVE  /\ rb[j].state = job[j].state
               /\ j \in M => rb[j].prune
               /\ j \notin M => rb[j].gens = jb[j].gens
                               /\ rb[j].prune = jb[j].prune
    <2>1. CASE j \in M
      <3>1. rb[j] = [jb[j] EXCEPT !.gens = @ \ {g}, !.prune = TRUE]
        BY <2>1
      <3>2. PICK e \in JobRecord : \E G : jb[j] = [e EXCEPT !.gens = G]
        BY <1>2
      <3> HIDE DEF rb
      <3>3. rb[j].state = jb[j].state /\ rb[j].prune
        BY <3>1, <3>2 DEF JobRecord
      <3> QED
        BY <1>2, <2>1, <3>3
    <2>2. CASE j \notin M
      BY <1>2, <2>2
    <2> QED
      BY <2>1, <2>2
  <1> HIDE DEF rb
  <1>7. OwnedKept
    <2> SUFFICES ASSUME NEW j \in Jobs, Owned(j)
                 PROVE  OwnedByPriorGeneration(job'[j])
      BY DEF OwnedKept
    <2>1. IsTerminal(job'[j]) /\ (job[j].gens # {} \/ job[j].prune)
      BY <1>3, <1>6 DEF Owned, OwnedByPriorGeneration, IsTerminal
    <2>2. CASE j \in M
      BY <1>3, <1>6, <2>1, <2>2 DEF OwnedByPriorGeneration
    <2>3. CASE j \notin M
      <3>1. g \notin jb[j].gens
        BY <1>2, <1>4, <2>3
      <3>2. job[j].gens \subseteq jb[j].gens \cup {g}
        BY <1>2
      <3>3. g \notin job[j].gens
        BY <1>1, <3>1 DEF jb, Retain, JobRecord
      <3> QED
        BY <1>2, <1>3, <1>6, <2>1, <2>3, <3>2, <3>3 DEF OwnedByPriorGeneration
    <2> QED
      BY <2>2, <2>3
  <1> QED
    BY <1>3, <1>5, <1>6, <1>7 DEF jb, M

LEMMA ReleaseHeldOwned ==
    ASSUME IInv, NEW g, Release(g, job)
    PROVE  /\ OwnedKept
           /\ \A j \in Members(g, job) : job'[j].prune
           /\ \A j \in Jobs : job'[j].state = job[j].state
  <1>1. Retain(g, {}) = job
    BY DEF IInv, TypeOK, Retain
  <1> QED
    BY <1>1, ReleaseOwned
-----------------------------------------------------------------------------
\* Registered jobs are accepted ones, and older than their children.
LEMMA Registered ==
    ASSUME RepInv
    PROVE  /\ accepted \in Nat /\ 1 .. accepted \subseteq Jobs
           /\ records \subseteq 1 .. accepted
           /\ \A j \in 1 .. accepted : parent[j] \in 0 .. j - 1
  BY BoundsAssumption DEF RepInv, IInv, TypeOK, RegistryInv, HistoryInv

\* What a flush captures, no earlier one has reported.
LEMMA CaptureUnreported ==
    ASSUME RepInv
    PROVE  FlushCapture \cap ReportedByFlush = {}
  <1> SUFFICES ASSUME NEW h \in Gens \ {shutGen}, NEW j \in flush[h].report
               PROVE  j \notin FlushCapture
    BY DEF ReportedByFlush
  <1>1. Reported(h) /\ flush[h].status # "waiting"
    BY DEF RepInv, HistoryInv, Reported
  <1>2. PICK c \in 0 .. accepted : SealedAt(h, c)
    BY <1>1 DEF RepInv, Sealed, Flushed, Reported
  <1>3. \A k \in records :
          /\ k <= c => OwnedByPriorGeneration(job[k])
          /\ k \in flush[h].report => OwnedByPriorGeneration(job[k])
          /\ (k > c /\ k \in flush[h].report)
                => parent[k] <= c \/ parent[k] \in flush[h].report
    BY <1>1, <1>2 DEF SealedAt, Taken, Owned
  <1> DEFINE S == {k \in records : k > c /\ k \notin flush[h].report}
  <1>4. {k \in records : ~ OwnedByPriorGeneration(job[k])} \subseteq S
    BY <1>3, Registered
  <1>5. \A p \in S : children[p] \cap records \subseteq S
    <2> SUFFICES ASSUME NEW p \in S, NEW k \in children[p] \cap records
                 PROVE  k > c /\ k \notin flush[h].report
      OBVIOUS
    <2>1. parent[k] = p
      BY DEF RepInv, ChildIndexExact, IInv, TypeOK
    <2>2. k \in 1 .. accepted /\ p \in 0 .. k - 1 /\ p > c
      BY <2>1, Registered
    <2>3. k > c
      BY <2>2, Registered
    <2> QED
      BY <1>3, <2>1, <2>2, <2>3, Registered
  <1> QED
    BY <1>4, <1>5 DEF FlushCapture

\* A generation that a step leaves alone stays sealed.
LEMMA SealKept ==
    ASSUME RepInv, NEW h \in Gens, Flushed(h), OwnedKept,
           accepted' = accepted, parent' = parent, records' \subseteq records,
           flush'[h].status = flush[h].status,
           flush'[h].report = flush[h].report,
           \A j \in Jobs : h \in job'[j].gens <=> h \in job[j].gens
    PROVE  \E c \in 0 .. accepted : SealedAt(h, c)'
  <1>1. PICK c \in 0 .. accepted : SealedAt(h, c)
    BY DEF RepInv, Sealed
  <1>2. \A j \in Jobs : Taken(h, j)' <=> Taken(h, j)
    BY DEF Taken
  <1>3. \A j \in Jobs : Owned(j) => Owned(j)'
    BY DEF OwnedKept, Owned, OwnedByPriorGeneration, IsTerminal
  <1>4. ASSUME NEW j \in records'
        PROVE  /\ j <= c => Taken(h, j)' \/ Owned(j)'
               /\ (j > c /\ Taken(h, j)') => parent[j] <= c \/ Taken(h, parent[j])'
               /\ (Reported(h) /\ Taken(h, j)') => Owned(j)'
    <2>1. j \in records /\ j \in Jobs /\ j \in 1 .. accepted
      BY Registered
    <2>2. parent[j] > c => parent[j] \in Jobs
      BY <2>1, Registered
    <2>3. parent[j] \in Nat /\ c \in Nat
      BY <2>1, Registered
    <2>4. /\ j <= c => Taken(h, j) \/ Owned(j)
          /\ (j > c /\ Taken(h, j)) => parent[j] <= c \/ Taken(h, parent[j])
          /\ (Reported(h) /\ Taken(h, j)) => Owned(j)
      BY <1>1, <2>1 DEF SealedAt
    <2> QED
      BY <1>2, <1>3, <2>1, <2>2, <2>3, <2>4
  <1>5. SealedAt(h, c)'
    BY <1>4 DEF SealedAt, Reported
  <1> QED
    BY <1>5

\* A step that concerns no generation changes nothing that has been reported.
LEMMA QuietKeepsReports ==
    ASSUME RepInv, QuietStep, OwnedKept
    PROVE  HistoryInv' /\ Sealed' /\ HoldsUnreported' /\ NoDoubleReport'
  <1>1. /\ UNCHANGED <<accepted, shutGen, parent, flush, prior>>
        /\ records' \subseteq records
        /\ \A j \in Jobs : job'[j].gens \cap Gens = job[j].gens \cap Gens
    BY DEF QuietStep, onlyJob
  <1>2. \A j \in Jobs, h \in Gens : h \in job'[j].gens <=> h \in job[j].gens
    BY <1>1
  <1>3. HistoryInv' /\ NoDoubleReport'
    BY <1>1 DEF RepInv, HistoryInv, NoDoubleReport, Reported
  <1>4. HoldsUnreported'
    BY <1>1, <1>2 DEF RepInv, HoldsUnreported
  <1>5. \A h \in Gens : Flushed(h)' => \E c \in 0 .. accepted : SealedAt(h, c)'
    BY <1>1, <1>2, SealKept DEF Flushed
  <1> QED
    BY <1>1, <1>3, <1>4, <1>5 DEF Sealed

\* What an action on generation g does to the histories.
HistoryStep(g) ==
    /\ accepted' = accepted /\ parent' = parent /\ records' \subseteq records
    /\ OwnedKept
    /\ shutGen' = shutGen \/ shutGen = NoGen
    /\ \A h \in Gens : h # g =>
           /\ flush'[h].status = flush[h].status
           /\ flush'[h].report = flush[h].report
           /\ prior'[h] = prior[h]
           /\ \A j \in Jobs : h \in job'[j].gens <=> h \in job[j].gens
    /\ prior'[g] \subseteq 1 .. accepted
    /\ flush'[g].report \subseteq 1 .. accepted
    /\ flush'[g].status \in {"returned", "raised"} \/ flush'[g].report = {}
    /\ \A j \in Jobs : g \in job'[j].gens => j \notin prior'[g]
    /\ flush'[g].report \cap prior'[g] = {}

\* What remains to be shown of an action on g is that g is sealed.
LEMMA HistoryStepKeepsReports ==
    ASSUME RepInv, NEW g \in Gens, HistoryStep(g),
           Flushed(g)' => \E c \in 0 .. accepted : SealedAt(g, c)'
    PROVE  HistoryInv' /\ Sealed' /\ HoldsUnreported' /\ NoDoubleReport'
  <1>1. HistoryInv'
    <2>1. ASSUME NEW h \in Gens
          PROVE  /\ prior'[h] \subseteq 1 .. accepted
                 /\ flush'[h].report \subseteq 1 .. accepted
                 /\ ~ Reported(h)' => flush'[h].report = {}
      BY DEF HistoryStep, RepInv, HistoryInv, Reported
    <2> QED
      BY <2>1, Registered DEF HistoryStep, HistoryInv
  <1>2. HoldsUnreported'
    <2> SUFFICES ASSUME NEW h \in Gens, NEW j \in Jobs, h \in job'[j].gens
                 PROVE  j \notin prior'[h]
      BY DEF HoldsUnreported
    <2> QED
      BY DEF HistoryStep, RepInv, HoldsUnreported
  <1>3. NoDoubleReport'
    BY DEF HistoryStep, RepInv, NoDoubleReport, Reported
  <1>4. \A h \in Gens : Flushed(h)' => \E c \in 0 .. accepted : SealedAt(h, c)'
    <2> SUFFICES ASSUME NEW h \in Gens, Flushed(h)'
                 PROVE  \E c \in 0 .. accepted : SealedAt(h, c)'
      OBVIOUS
    <2>1. CASE h = g
      BY <2>1
    <2>2. CASE h # g
      <3>1. Flushed(h)
        BY <2>2 DEF HistoryStep, Flushed, NoGen
      <3> QED
        BY <2>2, <3>1, SealKept DEF HistoryStep
    <2> QED
      BY <2>1, <2>2
  <1> QED
    BY <1>1, <1>2, <1>3, <1>4 DEF Sealed, HistoryStep
-----------------------------------------------------------------------------
\* A child joins what holds its parent; no report names it yet.
LEMMA SubmitKeepsReports ==
    ASSUME RepInv, NEW p \in {NoParent} \cup 1 .. accepted, Submit(p)
    PROVE  HistoryInv' /\ Sealed' /\ HoldsUnreported' /\ NoDoubleReport'
  <1>0. PICK n \in Jobs : n = accepted + 1
    BY DEF Submit
  <1>1. /\ accepted' = n
        /\ job' = [job EXCEPT ![n] = [UnbornJob EXCEPT !.task = "scheduled",
                                                       !.gens = InheritedGens(p)]]
        /\ parent' = [parent EXCEPT ![n] = p]
        /\ records' = records \cup {n}
        /\ UNCHANGED <<shutGen, flush, prior>>
    BY <1>0 DEF Submit
  <1>2. /\ job \in [Jobs -> JobRecord] /\ parent \in [Jobs -> 0 .. MaxJobs]
        /\ accepted \in Nat /\ 1 .. accepted \subseteq Jobs
        /\ records \subseteq 1 .. accepted
    BY Registered DEF RepInv, IInv, TypeOK
  <1>3. /\ \A j \in Jobs : j # n => job'[j] = job[j] /\ parent'[j] = parent[j]
        /\ job'[n].gens = InheritedGens(p) /\ parent'[n] = p
    BY <1>1, <1>2 DEF UnbornJob
  <1>4. p \in 0 .. accepted /\ n \notin 1 .. accepted
        /\ \A j \in 1 .. accepted : j # n
    BY <1>0, <1>2 DEF NoParent
  <1>5. HistoryInv'
    <2>1. \A g \in Gens : /\ prior[g] \subseteq 1 .. n
                          /\ flush[g].report \subseteq 1 .. n
                          /\ ~ Reported(g) => flush[g].report = {}
      BY <1>0, <1>2 DEF RepInv, HistoryInv
    <2>2. ASSUME NEW j \in 1 .. n
          PROVE  parent'[j] \in 0 .. j - 1
      <3>1. CASE j = n
        BY <1>0, <1>2, <1>3, <1>4, <3>1
      <3>2. CASE j # n
        <4>1. j \in 1 .. accepted
          BY <1>0, <1>2, <3>2
        <4> QED
          BY <1>2, <1>3, <3>2, <4>1, Registered
      <3> QED
        BY <3>1, <3>2
    <2> QED
      BY <1>1, <2>1, <2>2 DEF HistoryInv, Reported
  <1>6. \A h \in Gens : h \in job'[n].gens => p \in Jobs /\ h \in job[p].gens
    BY <1>2, <1>3 DEF InheritedGens
  <1>7. HoldsUnreported'
    <2> SUFFICES ASSUME NEW g \in Gens, NEW j \in Jobs, g \in job'[j].gens
                 PROVE  j \notin prior[g]
      BY <1>1 DEF HoldsUnreported
    <2>1. CASE j = n
      BY <1>4, <2>1 DEF RepInv, HistoryInv
    <2>2. CASE j # n
      BY <1>3, <2>2 DEF RepInv, HoldsUnreported
    <2> QED
      BY <2>1, <2>2
  <1>8. NoDoubleReport'
    BY <1>1 DEF RepInv, NoDoubleReport, Reported
  <1>9. ASSUME NEW h \in Gens, Flushed(h)
        PROVE  \E c \in 0 .. n : SealedAt(h, c)'
    <2>1. PICK c \in 0 .. accepted : SealedAt(h, c)
      BY <1>9 DEF RepInv, Sealed
    <2>2. \A j \in Jobs : j # n => (Taken(h, j)' <=> Taken(h, j))
      BY <1>1, <1>3 DEF Taken
    <2>3. \A j \in Jobs : j # n => (Owned(j)' <=> Owned(j))
      BY <1>3 DEF Owned, OwnedByPriorGeneration, IsTerminal
    <2>4. Taken(h, n)' => ~ Reported(h) /\ p \in Jobs /\ Taken(h, p) /\ p # n
      <3>1. CASE flush[h].status = "waiting"
        BY <1>1, <1>4, <1>6, <1>2, <3>1 DEF Taken, Reported
      <3>2. CASE flush[h].status # "waiting"
        BY <1>1, <1>4, <3>2 DEF Taken, RepInv, HistoryInv
      <3> QED
        BY <3>1, <3>2
    <2>5. ASSUME NEW j \in records'
          PROVE  /\ j <= c => Taken(h, j)' \/ Owned(j)'
                 /\ (j > c /\ Taken(h, j)')
                        => parent'[j] <= c \/ (Taken(h, parent[j]))'
                 /\ (Reported(h) /\ Taken(h, j)') => Owned(j)'
      <3>1. CASE j = n
        <4>1. ~ (j <= c)
          BY <1>0, <1>2, <3>1
        <4> QED
          BY <1>3, <2>2, <2>4, <3>1, <4>1 DEF Taken
      <3>2. CASE j # n
        <4>1. j \in records /\ j \in Jobs /\ j \in 1 .. accepted
          BY <1>1, <1>2, <3>2
        <4>2. parent'[j] = parent[j] /\ parent[j] \in 0 .. j - 1
          BY <1>3, <3>2, <4>1, Registered
        <4>3. parent[j] > c => parent[j] \in Jobs /\ parent[j] # n
          BY <1>2, <1>4, <4>1, <4>2
        <4>4. /\ j <= c => Taken(h, j) \/ Owned(j)
              /\ (j > c /\ Taken(h, j)) => parent[j] <= c \/ Taken(h, parent[j])
              /\ (Reported(h) /\ Taken(h, j)) => Owned(j)
          BY <2>1, <4>1 DEF SealedAt
        <4>5. parent[j] \in Nat /\ c \in Nat
          BY <1>2, <4>1, <4>2
        <4> QED
          BY <2>2, <2>3, <3>2, <4>1, <4>2, <4>3, <4>4, <4>5 DEF Taken
      <3> QED
        BY <3>1, <3>2
    <2>6. SealedAt(h, c)'
      BY <1>1, <2>5 DEF SealedAt, Reported
    <2> QED
      BY <1>0, <1>2, <2>6
  <1>10. Sealed'
    BY <1>1, <1>9 DEF Sealed, Flushed
  <1> QED
    BY <1>5, <1>7, <1>8, <1>10

\* What generation g is, when it takes its number, and what it takes then.
LEMMA FreshGeneration ==
    ASSUME RepInv, NEW g \in Gens, g = NextGen
    PROVE  /\ flush[g].status = "unused" /\ flush[g].report = {}
           /\ g # shutGen /\ \A j \in Jobs : g \notin job[j].gens
           /\ ReportedByFlush \subseteq 1 .. accepted
           /\ FlushCapture \in SUBSET records
           /\ flush \in [Gens -> FlushRecord] /\ prior \in [Gens -> SUBSET Jobs]
           /\ job \in [Jobs -> JobRecord] /\ records \subseteq Jobs
  <1>1. IInv
    BY DEF RepInv
  <1>2. /\ flush[g].status = "unused" /\ g # shutGen
        /\ \A j \in Jobs : g \notin job[j].gens
    BY <1>1, NextGenFresh
  <1>3. flush[g].report = {} /\ ReportedByFlush \subseteq 1 .. accepted
    BY <1>2 DEF RepInv, HistoryInv, Reported, ReportedByFlush
  <1> QED
    BY <1>1, <1>2, <1>3, CaptureEffect DEF IInv, TypeOK

\* Up to its cutoff a new flush has taken or left owned everything.
LEMMA SealedAtCutoff ==
    ASSUME RepInv, NEW g \in Gens, OwnedKept, records' \subseteq records,
           \A j \in FlushCapture : Taken(g, j)',
           Reported(g)' => \A j \in records' : Taken(g, j)' => Owned(j)'
    PROVE  \E c \in 0 .. accepted : SealedAt(g, c)'
  <1>1. PICK c \in 0 .. accepted : c = accepted
    BY Registered
  <1>2. ASSUME NEW j \in records'
        PROVE  Taken(g, j)' \/ Owned(j)'
    <2>1. j \in Jobs /\ j \in records
      BY DEF RepInv, IInv, TypeOK
    <2>2. Owned(j) => Owned(j)'
      BY <2>1 DEF OwnedKept, Owned, OwnedByPriorGeneration, IsTerminal
    <2>3. ~ Owned(j) => j \in FlushCapture
      BY <2>1 DEF FlushCapture, Owned
    <2> QED
      BY <2>2, <2>3
  <1>3. \A j \in records' : ~ (j > c)
    BY <1>1, Registered
  <1>4. SealedAt(g, c)'
    BY <1>2, <1>3 DEF SealedAt
  <1> QED
    BY <1>4

\* A flush that waits takes its capture, and the capture is new.
LEMMA FlushBeginKeepsReports ==
    ASSUME RepInv, FlushBegin
    PROVE  HistoryInv' /\ Sealed' /\ HoldsUnreported' /\ NoDoubleReport'
  <1>0. PICK g \in Gens : g = NextGen
    BY DEF FlushBegin
  <1>1. /\ job' = Retain(g, FlushCapture)
        /\ flush' = [flush EXCEPT ![g].status = "waiting",
                                  ![g].awaiting = PendingOf(FlushCapture)]
        /\ prior' = [prior EXCEPT ![g] = ReportedByFlush]
        /\ UNCHANGED <<accepted, shutGen, parent, records, children>>
    BY <1>0 DEF FlushBegin, Cutoff
  <1>2. /\ flush[g].report = {}
        /\ \A j \in Jobs : g \notin job[j].gens
        /\ ReportedByFlush \subseteq 1 .. accepted
        /\ FlushCapture \in SUBSET records
        /\ flush \in [Gens -> FlushRecord] /\ prior \in [Gens -> SUBSET Jobs]
        /\ job \in [Jobs -> JobRecord] /\ records \subseteq Jobs
    BY <1>0, FreshGeneration
  <1>3. IInv
    BY DEF RepInv
  <1>4. TagStep(g)
    BY <1>1, <1>2, <1>3, RetainEffect
  <1>5. \A h \in Gens, j \in Jobs :
          h # g => (h \in job'[j].gens <=> h \in job[j].gens)
    BY <1>3, <1>4, TagStepPreserves
  <1>6. OwnedKept
    BY <1>1, <1>3, RetainOwned
  <1>7. \A j \in Jobs : g \in job'[j].gens <=> j \in FlushCapture
    BY <1>1, <1>2 DEF Retain, JobRecord
  <1>8. /\ flush'[g].status = "waiting" /\ flush'[g].report = {}
        /\ prior'[g] = ReportedByFlush
        /\ \A h \in Gens : h # g => flush'[h] = flush[h] /\ prior'[h] = prior[h]
    BY <1>1, <1>2 DEF FlushRecord
  <1>9. HistoryStep(g)
    BY <1>1, <1>2, <1>5, <1>6, <1>7, <1>8, CaptureUnreported DEF HistoryStep
  <1>10. \A j \in FlushCapture : Taken(g, j)'
    BY <1>2, <1>7, <1>8 DEF Taken
  <1>11. ~ Reported(g)'
    BY <1>8 DEF Reported
  <1> QED
    BY <1>1, <1>6, <1>9, <1>10, <1>11, SealedAtCutoff, HistoryStepKeepsReports

\* A flush with nothing to wait for reports its capture, all of it ended.
LEMMA FlushAtOnceKeepsReports ==
    ASSUME RepInv, FlushAtOnce
    PROVE  HistoryInv' /\ Sealed' /\ HoldsUnreported' /\ NoDoubleReport'
  <1>0. PICK g \in Gens : g = NextGen
    BY DEF FlushAtOnce
  <1> DEFINE S == FlushCapture
             jb == Retain(g, S)
  <1>1. /\ PendingOf(S) = {} /\ Publish(g, jb, TRUE)
        /\ prior' = [prior EXCEPT ![g] = ReportedByFlush]
        /\ UNCHANGED <<accepted, shutGen, parent>>
    BY <1>0 DEF FlushAtOnce, Cutoff
  <1>2. /\ \A j \in Jobs : g \notin job[j].gens
        /\ ReportedByFlush \subseteq 1 .. accepted
        /\ S \in SUBSET records
        /\ flush \in [Gens -> FlushRecord] /\ prior \in [Gens -> SUBSET Jobs]
        /\ job \in [Jobs -> JobRecord] /\ records \subseteq Jobs
    BY <1>0, FreshGeneration
  <1>3. IInv /\ S \cap ReportedByFlush = {}
    BY CaptureUnreported DEF RepInv
  <1> HIDE DEF S
  <1>4. Members(g, jb) = S
    BY <1>2 DEF Members, Retain, JobRecord
  <1>5. Release(g, Retain(g, S))
    BY <1>1 DEF Publish
  <1>6. TagStep(g) /\ \A j \in Jobs : g \notin job'[j].gens
    BY <1>1, <1>2, <1>3, <1>5, ReleaseEffect
  <1>7. /\ records' \subseteq records
        /\ \A h \in Gens, j \in Jobs :
             h # g => (h \in job'[j].gens <=> h \in job[j].gens)
    BY <1>3, <1>6, TagStepPreserves DEF TagStep
  <1>8. /\ OwnedKept /\ \A j \in S : job'[j].prune
        /\ \A j \in Jobs : job'[j].state = job[j].state
    BY <1>2, <1>3, <1>4, <1>5, ReleaseOwned
  <1>9. /\ flush' = [flush EXCEPT ![g] =
                       [status |-> Verdict(S, TRUE), awaiting |-> {},
                        report |-> S]]
    BY <1>1, <1>4 DEF Publish
  <1>10. Verdict(S, TRUE) \in {"raised", "returned"}
    BY DEF Verdict
  <1>11. /\ flush'[g].status \in {"raised", "returned"} /\ flush'[g].report = S
         /\ prior'[g] = ReportedByFlush
         /\ \A h \in Gens : h # g => flush'[h] = flush[h] /\ prior'[h] = prior[h]
    BY <1>1, <1>2, <1>9, <1>10
  <1>12. HistoryStep(g)
    <2>1. S \subseteq 1 .. accepted
      BY <1>2, Registered
    <2> QED
      BY <1>1, <1>2, <1>3, <1>6, <1>7, <1>8, <1>11, <2>1 DEF HistoryStep
  <1>13. \A j \in Jobs : Taken(g, j)' <=> j \in S
    BY <1>11 DEF Taken
  <1>14. \A j \in S : Owned(j)'
    <2>1. \A j \in S : IsTerminal(job'[j])
      BY <1>1, <1>2, <1>8 DEF PendingOf, Settled, IsTerminal
    <2> QED
      BY <1>8, <2>1 DEF Owned, OwnedByPriorGeneration, IsTerminal
  <1>15. \A j \in FlushCapture : Taken(g, j)'
    BY <1>2, <1>13 DEF S
  <1>16. \A j \in records' : Taken(g, j)' => Owned(j)'
    BY <1>2, <1>7, <1>13, <1>14
  <1> QED
    BY <1>7, <1>8, <1>12, <1>15, <1>16, SealedAtCutoff, HistoryStepKeepsReports

\* A generation that reports what it holds, or lets it go without a report.
LEMMA ReleaseKeepsReports ==
    ASSUME RepInv, NEW g \in Gens, flush[g].status = "waiting", Release(g, job),
           UNCHANGED <<accepted, parent, shutGen, prior>>,
           \A h \in Gens : h # g => flush'[h] = flush[h],
           \/ flush'[g].status = "abandoned" /\ flush'[g].report = {}
           \/ /\ flush'[g].status \in {"returned", "raised"}
              /\ flush'[g].report = Members(g, job)
              /\ \A j \in Members(g, job) : IsTerminal(job[j])
    PROVE  HistoryInv' /\ Sealed' /\ HoldsUnreported' /\ NoDoubleReport'
  <1>1. IInv
    BY DEF RepInv
  <1>2. TagStep(g) /\ \A j \in Jobs : g \notin job'[j].gens
    BY <1>1, ReleaseHeld
  <1>3. /\ records' \subseteq records
        /\ \A h \in Gens, j \in Jobs :
             h # g => (h \in job'[j].gens <=> h \in job[j].gens)
    BY <1>1, <1>2, TagStepPreserves DEF TagStep
  <1>4. /\ OwnedKept /\ \A j \in Members(g, job) : job'[j].prune
        /\ \A j \in Jobs : job'[j].state = job[j].state
    BY <1>1, ReleaseHeldOwned
  <1>5. /\ \A j \in Jobs : j \in Members(g, job) <=> g \in job[j].gens
        /\ Members(g, job) \subseteq 1 .. accepted
        /\ Members(g, job) \cap prior[g] = {}
    BY <1>1, Registered DEF Members, IInv, RegistryInv, RepInv, HoldsUnreported
  <1>6. HistoryStep(g)
    BY <1>2, <1>3, <1>4, <1>5 DEF HistoryStep, RepInv, HistoryInv
  <1>7. ASSUME Flushed(g)'
        PROVE  \E c \in 0 .. accepted : SealedAt(g, c)'
    <2>1. /\ flush'[g].status # "waiting"
          /\ flush'[g].report = Members(g, job)
          /\ \A j \in Members(g, job) : IsTerminal(job[j])
          /\ Flushed(g)
      BY <1>7 DEF Flushed
    <2>2. PICK c \in 0 .. accepted : SealedAt(g, c)
      BY <2>1 DEF RepInv, Sealed
    <2>3. \A j \in Jobs : Taken(g, j)' <=> Taken(g, j)
      BY <1>5, <2>1 DEF Taken
    <2>4. \A j \in Jobs : Owned(j) => Owned(j)'
      BY <1>4 DEF OwnedKept, Owned, OwnedByPriorGeneration, IsTerminal
    <2>5. \A j \in Members(g, job) : Owned(j)'
      BY <1>4, <1>5, <2>1, Registered DEF Owned, OwnedByPriorGeneration, IsTerminal
    <2>6. ASSUME NEW j \in records'
          PROVE  /\ j <= c => Taken(g, j)' \/ Owned(j)'
                 /\ (j > c /\ Taken(g, j)') => parent[j] <= c \/ Taken(g, parent[j])'
                 /\ Taken(g, j)' => Owned(j)'
      <3>1. j \in records /\ j \in Jobs /\ j \in 1 .. accepted
        BY <1>3, Registered
      <3>2. /\ parent[j] > c => parent[j] \in Jobs
            /\ parent[j] \in Nat /\ c \in Nat
        BY <3>1, Registered
      <3>3. /\ j <= c => Taken(g, j) \/ Owned(j)
            /\ (j > c /\ Taken(g, j)) => parent[j] <= c \/ Taken(g, parent[j])
        BY <2>2, <3>1 DEF SealedAt
      <3>4. Taken(g, j)' => j \in Members(g, job)
        BY <2>1 DEF Taken
      <3> QED
        BY <2>3, <2>4, <2>5, <3>1, <3>2, <3>3, <3>4
    <2>7. SealedAt(g, c)'
      BY <2>6 DEF SealedAt
    <2> QED
      BY <2>7
  <1> QED
    BY <1>6, <1>7, HistoryStepKeepsReports

LEMMA PublishKeepsReports ==
    ASSUME RepInv, NEW g \in Gens, NEW raises, flush[g].status = "waiting",
           PendingOf(Members(g, job)) = {}, Publish(g, job, raises),
           UNCHANGED <<accepted, parent, shutGen, prior>>
    PROVE  HistoryInv' /\ Sealed' /\ HoldsUnreported' /\ NoDoubleReport'
  <1> DEFINE M == Members(g, job)
  <1>1. /\ flush' = [flush EXCEPT ![g] =
                       [status |-> Verdict(M, raises), awaiting |-> {},
                        report |-> M]]
        /\ Release(g, job)
    BY DEF Publish
  <1>2. \A j \in M : IsTerminal(job[j])
    BY DEF PendingOf, Settled
  <1>3. Verdict(M, raises) \in {"returned", "raised"}
    BY DEF Verdict
  <1>4. flush \in [Gens -> FlushRecord]
    BY DEF RepInv, IInv, TypeOK
  <1> DEFINE v == Verdict(M, raises)
  <1> HIDE DEF v
  <1>5. /\ \A h \in Gens : h # g => flush'[h] = flush[h]
        /\ flush'[g].status \in {"returned", "raised"}
        /\ flush'[g].report = Members(g, job)
    BY <1>1, <1>3, <1>4
  <1> QED
    BY <1>1, <1>2, <1>5, ReleaseKeepsReports

LEMMA FlushCancelledKeepsReports ==
    ASSUME RepInv, NEW g \in Gens, FlushCancelled(g)
    PROVE  HistoryInv' /\ Sealed' /\ HoldsUnreported' /\ NoDoubleReport'
  <1>1. /\ flush[g].status = "waiting" /\ Release(g, job)
        /\ flush' = [flush EXCEPT ![g].status = "abandoned", ![g].awaiting = {}]
        /\ UNCHANGED <<accepted, parent, shutGen, prior>>
    BY DEF FlushCancelled
  <1>2. flush \in [Gens -> FlushRecord] /\ flush[g].report = {}
    BY <1>1 DEF RepInv, IInv, TypeOK, HistoryInv, Reported
  <1>3. /\ \A h \in Gens : h # g => flush'[h] = flush[h]
        /\ flush'[g].status = "abandoned" /\ flush'[g].report = {}
    BY <1>1, <1>2 DEF FlushRecord
  <1> QED
    BY <1>1, <1>3, ReleaseKeepsReports

LEMMA RescanKeepsReports ==
    ASSUME RepInv, NEW g \in Gens, Rescan(g)
    PROVE  HistoryInv' /\ Sealed' /\ HoldsUnreported' /\ NoDoubleReport'
  <1>1. /\ flush' = [flush EXCEPT ![g].awaiting = PendingOf(Members(g, job))]
        /\ UNCHANGED <<accepted, shutGen, parent, job, records, prior>>
    BY DEF Rescan
  <1>2. flush \in [Gens -> FlushRecord]
    BY DEF RepInv, IInv, TypeOK
  <1>3. \A h \in Gens : /\ flush'[h].status = flush[h].status
                        /\ flush'[h].report = flush[h].report
    BY <1>1, <1>2 DEF FlushRecord
  <1>4. OwnedKept
    BY <1>1 DEF OwnedKept, Owned
  <1>5. HistoryInv' /\ NoDoubleReport' /\ HoldsUnreported'
    BY <1>1, <1>3 DEF RepInv, HistoryInv, NoDoubleReport, HoldsUnreported, Reported
  <1>6. \A h \in Gens : Flushed(h)' => \E c \in 0 .. accepted : SealedAt(h, c)'
    BY <1>1, <1>3, <1>4, SealKept DEF Flushed
  <1> QED
    BY <1>1, <1>5, <1>6 DEF Sealed

\* A shutdown captures open jobs; what was reported has ended.
LEMMA ShutdownKeepsReports ==
    ASSUME RepInv, NEW pol \in Policies, Shutdown(pol)
    PROVE  HistoryInv' /\ Sealed' /\ HoldsUnreported' /\ NoDoubleReport'
  <1>0. PICK g \in Gens : g = NextGen
    BY DEF Shutdown
  <1> DEFINE asked(j) == AskedToCancel(pol, j)
             r(j) == [job[j] EXCEPT !.gens = @ \cup {g},
                                    !.cancel = @ \/ asked(j)]
  <1>1. /\ job' = [j \in Jobs |-> IF j \in ShutdownCapture THEN r(j) ELSE job[j]]
        /\ flush' = [flush EXCEPT ![g].status = "waiting"]
        /\ prior' = [prior EXCEPT ![g] = ReportedByFlush]
        /\ mgr = "OPEN" /\ shutGen' = g
        /\ UNCHANGED <<accepted, parent, records, children>>
    BY <1>0 DEF Shutdown, Cutoff
  <1>2. /\ flush[g].report = {}
        /\ \A j \in Jobs : g \notin job[j].gens
        /\ ReportedByFlush \subseteq 1 .. accepted
        /\ flush \in [Gens -> FlushRecord] /\ prior \in [Gens -> SUBSET Jobs]
        /\ job \in [Jobs -> JobRecord] /\ records \subseteq Jobs
    BY <1>0, FreshGeneration
  <1>3. shutGen = NoGen
    BY <1>1 DEF RepInv, IInv, ShutdownInv
  <1> HIDE DEF asked
  <1>4. ASSUME NEW j \in Jobs
        PROVE  /\ r(j).gens = job[j].gens \cup {g}
               /\ j \in ShutdownCapture => job'[j].gens = job[j].gens \cup {g}
               /\ j \notin ShutdownCapture => job'[j] = job[j]
    BY <1>1, <1>2 DEF JobRecord
  <1> HIDE DEF r
  <1>5. \A h \in Gens, j \in Jobs :
          /\ h # g => (h \in job'[j].gens <=> h \in job[j].gens)
          /\ g \in job'[j].gens => j \in ShutdownCapture
    BY <1>2, <1>4
  <1>6. OwnedKept
    <2>1. \A j \in Jobs : Owned(j) => job'[j] = job[j]
      BY <1>4 DEF Owned, OwnedByPriorGeneration, ShutdownCapture
    <2> QED
      BY <2>1 DEF OwnedKept, Owned
  <1>7. ShutdownCapture \cap ReportedByFlush = {}
    <2> SUFFICES ASSUME NEW h \in Gens, NEW j \in flush[h].report
                 PROVE  j \notin ShutdownCapture
      BY DEF ReportedByFlush
    <2>1. Reported(h)
      BY DEF RepInv, HistoryInv
    <2>2. IsTerminal(job[j])
      BY <2>1 DEF RepInv, IInv, ReportComplete, Settled
    <2> QED
      BY <2>2 DEF ShutdownCapture
  <1>8. /\ flush'[g].status = "waiting" /\ flush'[g].report = {}
        /\ prior'[g] = ReportedByFlush
        /\ \A h \in Gens : h # g => flush'[h] = flush[h] /\ prior'[h] = prior[h]
    BY <1>1, <1>2 DEF FlushRecord
  <1>9. HistoryStep(g)
    BY <1>1, <1>2, <1>3, <1>5, <1>6, <1>7, <1>8 DEF HistoryStep
  <1>10. ~ Flushed(g)'
    BY <1>1 DEF Flushed
  <1> QED
    BY <1>9, <1>10, HistoryStepKeepsReports
-----------------------------------------------------------------------------
LEMMA InitReportsNothing ==
    ASSUME Init
    PROVE  RepInv
  <1>1. IInv
    BY InitEstablishes
  <1>2. ChildIndexExact /\ HistoryInv /\ Sealed /\ HoldsUnreported /\ NoDoubleReport
    BY BoundsAssumption DEF Init, ChildIndexExact, HistoryInv, Sealed, Flushed,
           HoldsUnreported, NoDoubleReport, Reported, UnbornJob, NoGen
  <1> QED
    BY <1>1, <1>2 DEF RepInv

LEMMA NextKeepsReports ==
    ASSUME RepInv, [Next]_vars
    PROVE  HistoryInv' /\ Sealed' /\ HoldsUnreported' /\ NoDoubleReport'
  <1>0. IInv
    BY DEF RepInv
  <1>1. CASE \E p \in {NoParent} \cup 1 .. accepted : Submit(p)
    BY <1>1, SubmitKeepsReports
  <1>2. CASE \E j \in Jobs : JobStep(j)
    BY <1>0, <1>2, JobStepQuiet, JobStepOwned, QuietKeepsReports
  <1>3. CASE FlushAtOnce
    BY <1>3, FlushAtOnceKeepsReports
  <1>4. CASE FlushBegin
    BY <1>4, FlushBeginKeepsReports
  <1>5. CASE \E g \in Gens : FlushEnd(g) \/ Rescan(g) \/ FlushCancelled(g)
    <2> SUFFICES ASSUME NEW g \in Gens,
                        FlushEnd(g) \/ Rescan(g) \/ FlushCancelled(g)
                 PROVE  HistoryInv' /\ Sealed' /\ HoldsUnreported' /\ NoDoubleReport'
      BY <1>5
    <2>1. CASE FlushEnd(g)
      BY <2>1, PublishKeepsReports DEF FlushEnd
    <2>2. CASE Rescan(g)
      BY <2>2, RescanKeepsReports
    <2>3. CASE FlushCancelled(g)
      BY <2>3, FlushCancelledKeepsReports
    <2> QED
      BY <2>1, <2>2, <2>3
  <1>6. CASE \E pol \in Policies : Shutdown(pol)
    BY <1>6, ShutdownKeepsReports
  <1>7. CASE ShutdownEnd
    <2>1. shutGen \in Gens
      BY <1>0, <1>7, BoundsAssumption DEF ShutdownEnd, IInv, TypeOK, NoGen
    <2>2. PICK g \in Gens : g = shutGen
      BY <2>1
    <2>3. /\ flush[g].status = "waiting" /\ PendingOf(Members(g, job)) = {}
          /\ Publish(g, job, policy = "DRAIN")
          /\ UNCHANGED <<accepted, parent, shutGen, prior>>
      BY <1>7, <2>2 DEF ShutdownEnd
    <2> QED
      BY <2>3, PublishKeepsReports
  <1>8. CASE PruneTerminal
    BY <1>0, <1>8, PruneTerminalQuiet, PruneTerminalOwned, QuietKeepsReports
  <1>9. CASE \E g \in ExtGens : \/ \E j \in Jobs : RetainForFlush(g, j)
                               \/ ReleaseFlushGeneration(g)
    <2>1. CASE \E g \in ExtGens, j \in Jobs : RetainForFlush(g, j)
      <3>1. PICK g \in ExtGens, j \in Jobs : RetainForFlush(g, j)
        BY <2>1
      <3>2. OwnedKept
        BY <1>0, <3>1, RetainOwned DEF RetainForFlush
      <3> QED
        BY <1>0, <3>1, <3>2, RetainForFlushQuiet, QuietKeepsReports
    <2>2. CASE \E g \in ExtGens : ReleaseFlushGeneration(g)
      <3>1. PICK g \in ExtGens : ReleaseFlushGeneration(g)
        BY <2>2
      <3>2. OwnedKept
        BY <1>0, <3>1, ReleaseHeldOwned DEF ReleaseFlushGeneration
      <3> QED
        BY <1>0, <3>1, <3>2, ReleaseExternalQuiet, QuietKeepsReports
    <2> QED
      BY <1>9, <2>1, <2>2
  <1>10. CASE UNCHANGED vars
    <2>1. UNCHANGED <<accepted, shutGen, job, parent, records, flush, prior>>
      BY <1>10 DEF vars
    <2>2. HistoryInv' /\ HoldsUnreported' /\ NoDoubleReport'
      BY <2>1 DEF RepInv, HistoryInv, HoldsUnreported, NoDoubleReport, Reported
    <2>3. OwnedKept
      BY <2>1 DEF OwnedKept, Owned
    <2>4. \A h \in Gens : Flushed(h)' => \E c \in 0 .. accepted : SealedAt(h, c)'
      BY <2>1, <2>3, SealKept DEF Flushed
    <2> QED
      BY <2>1, <2>2, <2>4 DEF Sealed
  <1> QED
    BY <1>1, <1>2, <1>3, <1>4, <1>5, <1>6, <1>7, <1>8, <1>9, <1>10 DEF Next

\* A job that some flush has reported is in no report of a generation that
\* begins later, however the records of both overlap in the registry.
THEOREM ReportsAreNotRepeated == Spec => []NoDoubleReport
  <1>1. Init => RepInv
    BY InitReportsNothing
  <1>2. RepInv /\ [Next]_vars => RepInv'
    BY NextPreserves, NextKeepsIndex, NextKeepsReports DEF RepInv
  <1>3. RepInv => NoDoubleReport
    BY DEF RepInv
  <1> QED
    BY <1>1, <1>2, <1>3, PTL DEF Spec
=============================================================================
