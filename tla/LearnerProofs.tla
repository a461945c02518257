---------------------------- MODULE LearnerProofs ----------------------------
(***************************************************************************)
(* Proofs about Learner for every set of callers, callbacks and contents,  *)
(* every learner, whatever fails, and any number of flushes.               *)
(*                                                                         *)
(* A record is followed from its call to its outcome: what a caller was    *)
(* told says whether his experience is saved and has an evaluation         *)
(* (CallAgrees), the evaluation carries the experience on to its embedding *)
(* job (SavedInv), and a promise stands for every open job of what it was  *)
(* asked for, those submitted later included (PromiseAgrees), because they *)
(* are submitted below a job it already owes.                              *)
(***************************************************************************)
EXTENDS Learner, FiniteSetTheorems, TLAPS

Everyone == Callers \cup Callbacks
\* Kinds and places of jobs, places of calls, and why jobs fail.
Words == {"none", "RECORD", "EVALUATION", "EMBEDDING",
          "start", "saving", "saved", "waiting", "ending", "ended",
          "evaluating", "embedding", "calling", "finding", "storing",
          "reinforcing", "feedback", "consolidating", "flushing", "returned",
          "rejected", "failed", "submitted", "lifecycle", "store",
          "evaluator", "embedder", "sanitizer", "extra"}
Said == Contents \cup {"none"}
Outcomes == {"none", "open", "SUCCESS", "FAILURE", "CANCELLATION"}
Promises == [status : {"unmade", "standing", "kept"}, owed : SUBSET Jobs]
JobBody == [kind : Words, exp : Everyone \cup {Nobody}, pc : Words,
            content : Said, found : Everyone \cup {Nobody},
            child : Jobs \cup {NoJob}, why : Words]
CallState == [pc : Words, gen : Nat, content : Said, vec : BOOLEAN]
Memory == [by : Everyone \cup {Nobody}, type : {"LESSON", "FACT", "RULE"},
           content : Said, vec : BOOLEAN]

TypesInv ==
    /\ outcome \in [Jobs -> Outcomes]
    /\ promise \in [1 .. MaxGens -> Promises]
    /\ config \in Configs
    /\ job \in [Jobs -> JobBody]
    /\ call \in [Everyone -> CallState]
    /\ experiences \subseteq Everyone
    /\ memories \subseteq Memory
    /\ asked \in [1 .. MaxGens -> SUBSET Everyone]

Evaluated(c) == \E j \in Jobs : Evaluates(j, c)
RememberedIn(M, content) == \E m \in M : m.type = "LESSON" /\ m.content = content
Remembered(content) == RememberedIn(memories, content)

\* A job that was not accepted has no body, one that does something is open.
BodyInv ==
    \A j \in Jobs :
        /\ outcome[j] = "none" => job[j].kind = "none"
        /\ job[j].pc \notin {"none", "ended"} => outcome[j] = "open"

\* What is evaluated is saved; a record job is a callback's.
SavedInv ==
    \A j \in Jobs :
        /\ job[j].kind \in {"EVALUATION", "EMBEDDING"} =>
               job[j].exp \in experiences
        /\ job[j].kind = "RECORD" =>
               /\ job[j].exp \in Callbacks
               /\ call[job[j].exp].pc = "submitted"
               /\ job[j].pc \in {"saved", "waiting", "ending"} =>
                      job[j].exp \in experiences

\* A lesson is saved for an experience and has its memory; who reinforces has
\* found one.
LessonInv ==
    /\ \A l \in lessons : l.exp \in experiences /\ Remembered(l.content)
    /\ \A j \in Jobs :
           At(j, "EVALUATION", "reinforcing") => Remembered(job[j].content)

\* Nothing is refused before a shutdown or by a drain, and a record job goes on
\* only with its evaluation submitted.
DrainInv ==
    \A j \in Jobs :
        /\ phase = "open" \/ policy = "DRAIN" => job[j].why # "lifecycle"
        /\ job[j].kind = "RECORD" =>
               (job[j].pc \in {"waiting", "ending"} \/ outcome[j] = "SUCCESS"
                   => Evaluated(job[j].exp))

ClosedInv ==
    /\ phase \in {"open", "closing", "closed"}
    /\ phase = "closed" => WM!OpenJobs = {}
    /\ store = "closed" => phase = "closed" \/ aclose \in Interrupted

\* Where a caller is tells whether his experience is saved and evaluated.
CallAgrees(c) ==
    /\ call[c].pc \in {"start", "saving", "finding", "storing", "reinforcing"}
           => c \notin experiences
    /\ call[c].pc = "saved" => c \in experiences
    /\ call[c].pc = "returned" /\ c \in experiences =>
           \E j \in Jobs : /\ Evaluates(j, c)
                           /\ ~ Background =>
                                  outcome[j] \notin {"open", "FAILURE"}
    /\ call[c].pc = "flushing" =>
           /\ call[c].gen \in 1 .. MaxGens
           /\ promise[call[c].gen].status # "unmade"
           /\ \E j \in promise[call[c].gen].owed : Evaluates(j, c)
CallInv ==
    /\ \A c \in Callers : CallAgrees(c)
    /\ \A c \in Callbacks : call[c].pc \in {"start", "submitted", "rejected"}

\* A promise stands for every job about what it was asked for.
PromiseAgrees(g) ==
    /\ promise[g].status = "kept" => promise[g].owed \cap WM!OpenJobs = {}
    /\ \A j \in promise[g].owed : outcome[j] # "none"
    /\ \A c \in asked[g] :
           /\ c \in experiences /\ call[c].pc = "returned"
           /\ promise[g].status # "unmade"
           /\ \A j \in Jobs : job[j].exp = c /\ outcome[j] = "open" =>
                  promise[g].status = "standing" /\ j \in promise[g].owed
PromiseInv == \A g \in 1 .. MaxGens : PromiseAgrees(g)

LInv ==
    /\ TypesInv /\ BodyInv /\ SavedInv /\ LessonInv /\ DrainInv /\ ClosedInv
    /\ CallInv /\ PromiseInv
-----------------------------------------------------------------------------
LEMMA WordFacts ==
    /\ "none" \in Words /\ "RECORD" \in Words /\ "EVALUATION" \in Words
    /\ "EMBEDDING" \in Words /\ "start" \in Words /\ "saving" \in Words
    /\ "saved" \in Words /\ "waiting" \in Words /\ "ending" \in Words
    /\ "ended" \in Words /\ "evaluating" \in Words /\ "embedding" \in Words
    /\ "calling" \in Words /\ "finding" \in Words /\ "storing" \in Words
    /\ "reinforcing" \in Words /\ "feedback" \in Words
    /\ "consolidating" \in Words /\ "flushing" \in Words
    /\ "returned" \in Words /\ "rejected" \in Words /\ "failed" \in Words
    /\ "submitted" \in Words /\ "lifecycle" \in Words /\ "store" \in Words
    /\ "evaluator" \in Words /\ "embedder" \in Words
    /\ "sanitizer" \in Words /\ "extra" \in Words
  BY DEF Words

\* What the operators on the state of a job and of a call make of it.
LEMMA BodyFacts ==
    ASSUME NEW kind \in Words, NEW exp \in Everyone \cup {Nobody}, NEW pc \in Words
    PROVE  /\ Body(kind, exp, pc) \in JobBody
           /\ Body(kind, exp, pc).kind = kind /\ Body(kind, exp, pc).exp = exp
           /\ Body(kind, exp, pc).pc = pc /\ Body(kind, exp, pc).why = "none"
  BY WordFacts DEF Body, JobBody, Said

LEMMA ToFacts ==
    ASSUME NEW r \in JobBody, NEW pc \in Words
    PROVE  /\ To(r, pc) \in JobBody /\ To(r, pc).kind = r.kind
           /\ To(r, pc).exp = r.exp /\ To(r, pc).pc = pc
           /\ To(r, pc).content = r.content /\ To(r, pc).why = r.why
  BY DEF To, JobBody

LEMMA ToldFacts ==
    ASSUME NEW r \in JobBody, NEW content \in Contents
    PROVE  /\ Told(r, content) \in JobBody /\ Told(r, content).kind = r.kind
           /\ Told(r, content).exp = r.exp /\ Told(r, content).pc = r.pc
           /\ Told(r, content).content = content /\ Told(r, content).why = r.why
  BY DEF Told, JobBody, Said

LEMMA FoundFacts ==
    ASSUME NEW r \in JobBody, NEW by \in Everyone \cup {Nobody}
    PROVE  /\ Found(r, by) \in JobBody /\ Found(r, by).kind = r.kind
           /\ Found(r, by).exp = r.exp /\ Found(r, by).pc = "reinforcing"
           /\ Found(r, by).content = r.content /\ Found(r, by).why = r.why
  BY WordFacts DEF Found, JobBody

LEMMA AwaitingFacts ==
    ASSUME NEW r \in JobBody, NEW pc \in Words, NEW n \in Jobs
    PROVE  /\ Awaiting(r, pc, n) \in JobBody /\ Awaiting(r, pc, n).kind = r.kind
           /\ Awaiting(r, pc, n).exp = r.exp /\ Awaiting(r, pc, n).pc = pc
           /\ Awaiting(r, pc, n).why = r.why
  BY DEF Awaiting, JobBody

LEMMA EndedFacts ==
    ASSUME NEW r \in JobBody, NEW why \in Words
    PROVE  /\ Ended(r, why) \in JobBody /\ Ended(r, why).kind = r.kind
           /\ Ended(r, why).exp = r.exp /\ Ended(r, why).pc = "ended"
           /\ Ended(r, why).why = why
  BY WordFacts DEF Ended, JobBody

LEMMA CallToFacts ==
    ASSUME NEW r \in CallState, NEW pc \in Words
    PROVE  To(r, pc) \in CallState /\ To(r, pc).pc = pc /\ To(r, pc).gen = r.gen
  BY DEF To, CallState

LEMMA FlushesFacts ==
    ASSUME NEW r \in CallState, NEW g \in Nat
    PROVE  /\ Flushes(r, g) \in CallState /\ Flushes(r, g).pc = "flushing"
           /\ Flushes(r, g).gen = g
  BY WordFacts DEF Flushes, CallState

LEMMA SaysFacts ==
    ASSUME NEW r \in CallState, NEW content \in Contents, NEW vec \in BOOLEAN,
           NEW pc \in Words
    PROVE  Says(r, content, vec, pc) \in CallState /\ Says(r, content, vec, pc).pc = pc
  BY DEF Says, CallState, Said

\* The numbers of jobs and of promises.
LEMMA Numbers ==
    /\ MaxGens \in Nat /\ AppFlushes \in Nat
    /\ NoJob \notin Jobs
    /\ ShutdownGen \in 1 .. MaxGens
    /\ AppGens \subseteq 1 .. MaxGens /\ CallerGens \subseteq 1 .. MaxGens
    /\ WM!Jobs = Jobs /\ WM!Gens = 1 .. MaxGens
  <1>1. Cardinality(Callers) \in Nat /\ AppFlushes \in Nat
    BY LearnerNames, LearnerSwitches, FS_CardinalityType DEF LearnerNames, LearnerSwitches
  <1> DEFINE n == Cardinality(Callers)
  <1>2. MaxGens = 1 + AppFlushes + n /\ n \in Nat
    BY <1>1 DEF MaxGens
  <1> HIDE DEF n
  <1>3. MaxGens \in Nat /\ 1 + AppFlushes <= MaxGens
    BY <1>1, <1>2
  <1> QED
    BY <1>1, <1>3 DEF NoJob, Jobs, ShutdownGen, AppGens, CallerGens, WM!Jobs, WM!Gens

\* What the types say of one job and one call.
LEMMA TypeFacts ==
    ASSUME LInv
    PROVE  /\ outcome \in [Jobs -> Outcomes] /\ job \in [Jobs -> JobBody]
           /\ call \in [Everyone -> CallState]
           /\ promise \in [1 .. MaxGens -> Promises]
           /\ asked \in [1 .. MaxGens -> SUBSET Everyone]
           /\ experiences \subseteq Everyone /\ memories \subseteq Memory
           /\ config \in Configs
           /\ WM!OpenJobs = {j \in Jobs : outcome[j] = "open"}
  BY Numbers DEF LInv, TypesInv, WM!OpenJobs
-----------------------------------------------------------------------------
\* An open job goes on, and may write to the store.
LEMMA JobMoves ==
    ASSUME LInv, NEW j \in Jobs, NEW r \in JobBody,
           job' = [job EXCEPT ![j] = r],
           job[j].pc \notin {"none", "ended"},
           r.kind = job[j].kind, r.exp = job[j].exp, r.why = job[j].why,
           UNCHANGED <<phase, outcome, promise, config, policy, call, store,
                       aclose, asked>>,
           NEW X \in SUBSET Callbacks, experiences' = experiences \cup X,
           memories \subseteq memories', memories' \subseteq Memory,
           \A l \in lessons' :
               l \in lessons \/ (l.exp \in experiences /\ RememberedIn(memories', l.content)),
           r.kind = "RECORD" =>
               /\ r.pc \in {"saved", "waiting", "ending"} => r.exp \in experiences'
               /\ r.pc \in {"waiting", "ending"} => Evaluated(r.exp),
           r.kind = "EVALUATION" /\ r.pc = "reinforcing" => RememberedIn(memories', r.content)
    PROVE  LInv'
  <1>1. /\ job \in [Jobs -> JobBody] /\ job' \in [Jobs -> JobBody] /\ job'[j] = r
        /\ \A i \in Jobs : i # j => job'[i] = job[i]
        /\ \A i \in Jobs : job'[i].kind = job[i].kind /\ job'[i].exp = job[i].exp
                           /\ job'[i].why = job[i].why
    BY TypeFacts
  <1>2. TypesInv'
    BY <1>1 DEF LInv, TypesInv, Everyone
  <1>3. BodyInv'
    BY <1>1 DEF LInv, BodyInv
  <1>4. SavedInv'
    BY <1>1 DEF LInv, SavedInv
  <1>5. \A x : Remembered(x) => RememberedIn(memories', x)
    BY DEF Remembered, RememberedIn
  <1>6. LessonInv'
    <2>1. \A l \in lessons' : l.exp \in experiences' /\ RememberedIn(memories', l.content)
      BY <1>5 DEF LInv, LessonInv
    <2>2. ASSUME NEW i \in Jobs, At(i, "EVALUATION", "reinforcing")'
          PROVE  RememberedIn(memories', job'[i].content)
      BY <1>1, <1>5, <2>2 DEF LInv, LessonInv, At
    <2> QED
      BY <2>1, <2>2 DEF LessonInv, Remembered
  <1>7. \A c, i : i \in Jobs => (Evaluates(i, c)' <=> Evaluates(i, c))
    BY <1>1 DEF Evaluates
  <1>8. \A c : Evaluated(c) => Evaluated(c)'
    BY <1>7 DEF Evaluated
  <1>9. DrainInv'
    BY <1>1, <1>8 DEF LInv, DrainInv, BodyInv
  <1>10. ClosedInv'
    BY TypeFacts DEF LInv, ClosedInv, WM!OpenJobs
  <1>11. CallInv'
    <2>1. ASSUME NEW c \in Callers PROVE CallAgrees(c)'
      <3>1. CallAgrees(c) /\ c \notin X
        BY LearnerNames DEF LInv, CallInv, LearnerNames
      <3>2. call'[c] = call[c] /\ promise' = promise /\ outcome' = outcome
            /\ (Background' <=> Background)
        BY DEF Background
      <3>3. \A g \in 1 .. MaxGens : promise[g].owed \subseteq Jobs
        BY TypeFacts DEF Promises
      <3> QED
        BY <1>7, <3>1, <3>2, <3>3 DEF CallAgrees
    <2> QED
      BY <2>1 DEF LInv, CallInv
  <1>12. PromiseInv'
    BY <1>1 DEF LInv, PromiseInv, PromiseAgrees, WM!OpenJobs
  <1> QED
    BY <1>2, <1>3, <1>4, <1>6, <1>9, <1>10, <1>11, <1>12 DEF LInv

\* A job gets its outcome.
LEMMA JobIsOver ==
    ASSUME LInv, NEW j \in Jobs, NEW o \in {"SUCCESS", "FAILURE", "CANCELLATION"},
           NEW why \in Words, JobEnds(j, o, why),
           UNCHANGED <<config, policy, call, experiences, lessons, memories,
                       store, aclose, asked>>,
           why = "lifecycle" => phase # "open" /\ policy # "DRAIN",
           job[j].kind = "RECORD" /\ o = "SUCCESS" => Evaluated(job[j].exp)
    PROVE  LInv'
  <1> DEFINE r == Ended(job[j], why)
  <1>1. /\ job \in [Jobs -> JobBody] /\ job' = [job EXCEPT ![j] = r] /\ r \in JobBody
        /\ r.kind = job[j].kind /\ r.exp = job[j].exp /\ r.pc = "ended" /\ r.why = why
    BY TypeFacts, EndedFacts DEF JobEnds
  <1> HIDE DEF r
  <1>2. /\ job' \in [Jobs -> JobBody] /\ job'[j] = r
        /\ \A i \in Jobs : i # j => job'[i] = job[i]
        /\ \A i \in Jobs : job'[i].kind = job[i].kind /\ job'[i].exp = job[i].exp
    BY <1>1
  <1>3. /\ outcome[j] = "open" /\ UNCHANGED <<phase, promise, closer>>
        /\ outcome' \in [Jobs -> Outcomes] /\ outcome'[j] = o
        /\ \A i \in Jobs : i # j => outcome'[i] = outcome[i]
    BY TypeFacts DEF JobEnds, WM!Settle, Outcomes
  <1>4. TypesInv'
    BY <1>2, <1>3 DEF LInv, TypesInv
  <1>5. BodyInv'
    BY <1>1, <1>2, <1>3 DEF LInv, BodyInv
  <1>6. SavedInv'
    BY <1>1, <1>2 DEF LInv, SavedInv
  <1>7. LessonInv'
    BY <1>1, <1>2 DEF LInv, LessonInv, At, Remembered, RememberedIn
  <1>8. \A c, i : i \in Jobs => (Evaluates(i, c)' <=> Evaluates(i, c))
    BY <1>2 DEF Evaluates
  <1>9. \A c : Evaluated(c) => Evaluated(c)'
    BY <1>8 DEF Evaluated
  <1>10. DrainInv'
    <2>1. ASSUME NEW i \in Jobs, i # j
          PROVE  /\ phase = "open" \/ policy = "DRAIN" => job'[i].why # "lifecycle"
                 /\ job'[i].kind = "RECORD" =>
                      (job'[i].pc \in {"waiting", "ending"} \/ outcome'[i] = "SUCCESS"
                          => Evaluated(job[i].exp)')
      BY <1>2, <1>3, <1>9, <2>1 DEF LInv, DrainInv
    <2>2. /\ phase = "open" \/ policy = "DRAIN" => job'[j].why # "lifecycle"
          /\ job'[j].kind = "RECORD" /\ outcome'[j] = "SUCCESS" => Evaluated(job[j].exp)'
          /\ job'[j].pc = "ended"
      BY <1>1, <1>2, <1>3, <1>9
    <2> QED
      BY <1>3, <2>1, <2>2 DEF DrainInv
  <1>11. WM!OpenJobs' \subseteq WM!OpenJobs
    BY <1>3, Numbers DEF WM!OpenJobs
  <1>12. ClosedInv'
    BY <1>3, <1>11 DEF LInv, ClosedInv
  <1>13. CallInv'
    <2>1. ASSUME NEW c \in Callers PROVE CallAgrees(c)'
      <3>1. CallAgrees(c)
        BY DEF LInv, CallInv
      <3>2. call'[c] = call[c] /\ promise' = promise /\ experiences' = experiences
            /\ (Background' <=> Background)
        BY <1>3 DEF Background
      <3>3. \A g \in 1 .. MaxGens : promise[g].owed \subseteq Jobs
        BY TypeFacts DEF Promises
      <3>4. \A i \in Jobs : outcome[i] \notin {"open", "FAILURE"}
                                => outcome'[i] \notin {"open", "FAILURE"}
        BY <1>3
      <3> QED
        BY <1>8, <3>1, <3>2, <3>3, <3>4 DEF CallAgrees
    <2> QED
      BY <2>1 DEF LInv, CallInv
  <1>14. PromiseInv'
    <2>1. ASSUME NEW g \in 1 .. MaxGens PROVE PromiseAgrees(g)'
      <3>1. PromiseAgrees(g)
        BY DEF LInv, PromiseInv
      <3>2. /\ promise[g].owed \subseteq Jobs
            /\ \A i \in Jobs : outcome[i] # "none" => outcome'[i] # "none"
            /\ \A i \in Jobs : outcome'[i] = "open" => outcome[i] = "open"
        BY <1>3, TypeFacts DEF Promises
      <3> QED
        BY <1>2, <1>3, <1>11, <3>1, <3>2 DEF PromiseAgrees
    <2> QED
      BY <2>1 DEF PromiseInv
  <1> QED
    BY <1>4, <1>5, <1>6, <1>7, <1>10, <1>12, <1>13, <1>14 DEF LInv
-----------------------------------------------------------------------------
\* What was agreed with a caller stays true while promises grow.
LEMMA CallKept ==
    ASSUME LInv, NEW c \in Callers, call'[c] = call[c], UNCHANGED config,
           c \in experiences' <=> c \in experiences,
           \A i \in Jobs : Evaluates(i, c) => Evaluates(i, c)',
           \A i \in Jobs : outcome[i] \notin {"none", "open", "FAILURE"}
                               => outcome'[i] \notin {"open", "FAILURE"},
           \A g \in 1 .. MaxGens :
               promise[g].status # "unmade" =>
                   /\ promise'[g].status # "unmade"
                   /\ promise[g].owed \subseteq promise'[g].owed
    PROVE  CallAgrees(c)'
  <1>1. CallAgrees(c)
    BY DEF LInv, CallInv
  <1>2. Background' <=> Background
    BY DEF Background
  <1>3. \A g \in 1 .. MaxGens : promise[g].owed \subseteq Jobs
    BY TypeFacts DEF Promises
  <1>4. \A i \in Jobs : Evaluates(i, c) => outcome[i] # "none"
    BY DEF LInv, BodyInv, Evaluates
  <1>5. call'[c].pc = "returned" /\ c \in experiences' =>
           \E j \in Jobs : /\ Evaluates(j, c)'
                           /\ ~ Background' => outcome'[j] \notin {"open", "FAILURE"}
    BY <1>1, <1>2, <1>4 DEF CallAgrees
  <1>6. call'[c].pc = "flushing" =>
           /\ call'[c].gen \in 1 .. MaxGens
           /\ promise'[call'[c].gen].status # "unmade"
           /\ \E j \in promise'[call'[c].gen].owed : Evaluates(j, c)'
    BY <1>1, <1>3 DEF CallAgrees
  <1> QED
    BY <1>1, <1>5, <1>6 DEF CallAgrees

\* A caller goes on, and may save his experience or store what he remembers.
LEMMA CallMoves ==
    ASSUME LInv, NEW c \in Everyone, NEW s \in CallState,
           call' = [call EXCEPT ![c] = s],
           call[c].pc \notin {"returned", "submitted"},
           UNCHANGED <<phase, outcome, promise, config, policy, job, lessons,
                       store, aclose, asked>>,
           NEW X \in SUBSET ({c} \cap Callers), experiences' = experiences \cup X,
           memories \subseteq memories', memories' \subseteq Memory,
           c \in Callers => CallAgrees(c)',
           c \in Callbacks => s.pc \in {"submitted", "rejected"}
    PROVE  LInv'
  <1>1. /\ call' \in [Everyone -> CallState] /\ call'[c] = s
        /\ \A d \in Everyone : d # c => call'[d] = call[d]
    BY TypeFacts
  <1>2. TypesInv'
    BY <1>1 DEF LInv, TypesInv, Everyone
  <1>3. BodyInv'
    BY DEF LInv, BodyInv
  <1>4. SavedInv'
    BY <1>1 DEF LInv, SavedInv, Everyone
  <1>5. \A x : Remembered(x) => Remembered(x)'
    BY DEF Remembered, RememberedIn
  <1>6. LessonInv'
    BY <1>5 DEF LInv, LessonInv, At
  <1>7. \A d, i : Evaluates(i, d)' <=> Evaluates(i, d)
    BY DEF Evaluates
  <1>8. DrainInv'
    BY <1>7 DEF LInv, DrainInv, Evaluated
  <1>9. ClosedInv'
    BY DEF LInv, ClosedInv, WM!OpenJobs
  <1>10. CallInv'
    <2>1. ASSUME NEW d \in Callers PROVE CallAgrees(d)'
      <3>1. CASE d = c
        BY <3>1
      <3>2. CASE d # c
        <4>1. /\ call'[d] = call[d] /\ (d \in experiences' <=> d \in experiences)
          BY <1>1, <3>2 DEF Everyone
        <4> QED
          BY <1>7, <4>1, CallKept
      <3> QED
        BY <3>1, <3>2
    <2>2. \A d \in Callbacks : call'[d].pc \in {"start", "submitted", "rejected"}
      BY <1>1 DEF LInv, CallInv, Everyone
    <2> QED
      BY <2>1, <2>2 DEF CallInv
  <1>11. PromiseInv'
    <2>1. ASSUME NEW g \in 1 .. MaxGens PROVE PromiseAgrees(g)'
      <3>1. PromiseAgrees(g) /\ asked[g] \subseteq Everyone
        BY TypeFacts DEF LInv, PromiseInv
      <3> QED
        BY <1>1, <3>1 DEF PromiseAgrees, WM!OpenJobs
    <2> QED
      BY <2>1 DEF PromiseInv
  <1> QED
    BY <1>2, <1>3, <1>4, <1>6, <1>8, <1>9, <1>10, <1>11 DEF LInv

\* Promises are made or kept, and the manager or the store is closed.
LEMMA PromisesMove ==
    ASSUME LInv,
           UNCHANGED <<outcome, config, job, call, experiences, lessons,
                       memories>>,
           promise' \in [1 .. MaxGens -> Promises],
           asked' \in [1 .. MaxGens -> SUBSET Everyone],
           \A g \in 1 .. MaxGens :
               /\ PromiseAgrees(g)'
               /\ promise[g].status # "unmade" =>
                      /\ promise'[g].status # "unmade"
                      /\ promise[g].owed \subseteq promise'[g].owed,
           phase' = "open" \/ policy' = "DRAIN" => phase = "open" \/ policy = "DRAIN",
           ClosedInv'
    PROVE  LInv'
  <1>1. TypesInv'
    BY DEF LInv, TypesInv
  <1>2. BodyInv' /\ SavedInv' /\ LessonInv'
    BY DEF LInv, BodyInv, SavedInv, LessonInv, At, Remembered, RememberedIn
  <1>3. \A d, i : Evaluates(i, d)' <=> Evaluates(i, d)
    BY DEF Evaluates
  <1>4. DrainInv'
    BY <1>3 DEF LInv, DrainInv, Evaluated
  <1>5. ASSUME NEW d \in Callers PROVE CallAgrees(d)'
    BY <1>3, CallKept
  <1>6. CallInv'
    BY <1>5 DEF LInv, CallInv
  <1> QED
    BY <1>1, <1>2, <1>4, <1>6 DEF LInv, PromiseInv

\* The body of job n is new.
NewBody(n, kind, exp) ==
    /\ job' \in [Jobs -> JobBody]
    /\ job'[n].kind = kind /\ job'[n].exp = exp /\ job'[n].why = "none"
    /\ job'[n].pc \in {"saving", "evaluating", "calling"}

\* The other bodies stay, or are those of open jobs that go on.
OthersGoOn(n, kind, exp) ==
    \A i \in Jobs : i # n =>
        \/ job'[i] = job[i]
        \/ /\ job'[i].kind = job[i].kind /\ job'[i].exp = job[i].exp
           /\ job'[i].why = job[i].why /\ outcome[i] = "open"
           /\ job'[i].pc # "reinforcing"
           /\ job[i].kind = "RECORD" => kind = "EVALUATION" /\ exp = job[i].exp

\* What a submission makes of the bodies.
LEMMA SubmitBodies ==
    ASSUME LInv, NEW n \in Jobs, outcome[n] = "none", phase # "closed",
           UNCHANGED <<phase, config, policy, experiences, lessons, memories,
                       store, aclose>>,
           outcome' = [outcome EXCEPT ![n] = "open"],
           NEW kind \in {"RECORD", "EVALUATION", "EMBEDDING"}, NEW exp \in Everyone,
           NewBody(n, kind, exp),
           kind = "RECORD" => exp \in Callbacks /\ call'[exp].pc = "submitted",
           kind # "RECORD" => exp \in experiences,
           \A c \in Callbacks : call[c].pc = "submitted" => call'[c].pc = "submitted",
           OthersGoOn(n, kind, exp)
    PROVE  /\ outcome' \in [Jobs -> Outcomes]
           /\ BodyInv' /\ SavedInv' /\ LessonInv' /\ DrainInv' /\ ClosedInv'
           /\ \A c : \A i \in Jobs : Evaluates(i, c) => Evaluates(i, c)'
           /\ \A i \in Jobs : i # n => job'[i].exp = job[i].exp
  <1>1. /\ outcome' \in [Jobs -> Outcomes] /\ outcome'[n] = "open"
        /\ \A i \in Jobs : i # n => outcome'[i] = outcome[i]
    BY TypeFacts DEF Outcomes
  <1>2. /\ job[n].kind = "none"
        /\ \A i \in Jobs : i # n => /\ job'[i].kind = job[i].kind
                                    /\ job'[i].exp = job[i].exp
                                    /\ job'[i].why = job[i].why
    BY DEF LInv, BodyInv, OthersGoOn
  <1> USE DEF NewBody
  <1>3. BodyInv'
    BY <1>1, <1>2 DEF LInv, BodyInv, OthersGoOn
  <1>4. SavedInv'
    <2>1. ASSUME NEW i \in Jobs, job'[i].kind = "RECORD", i # n
          PROVE  /\ job'[i].exp \in Callbacks /\ call'[job'[i].exp].pc = "submitted"
                 /\ job'[i].pc \in {"saved", "waiting", "ending"} =>
                        job'[i].exp \in experiences
      BY <1>2, <2>1 DEF LInv, SavedInv, OthersGoOn
    <2>2. ASSUME NEW i \in Jobs, job'[i].kind \in {"EVALUATION", "EMBEDDING"}, i # n
          PROVE  job'[i].exp \in experiences
      BY <1>2, <2>2 DEF LInv, SavedInv
    <2> QED
      BY <2>1, <2>2 DEF SavedInv
  <1>5. LessonInv'
    BY <1>2 DEF LInv, LessonInv, Remembered, RememberedIn, At, OthersGoOn
  <1>6. \A c : \A i \in Jobs : Evaluates(i, c) => Evaluates(i, c)'
    BY <1>2 DEF Evaluates
  <1>7. DrainInv'
    <2>1. \A c : Evaluated(c) => Evaluated(c)'
      BY <1>6 DEF Evaluated
    <2>2. kind = "EVALUATION" => Evaluated(exp)'
      BY DEF Evaluated, Evaluates
    <2>3. ASSUME NEW i \in Jobs, i # n
          PROVE  /\ phase = "open" \/ policy = "DRAIN" => job'[i].why # "lifecycle"
                 /\ job'[i].kind = "RECORD" =>
                      (job'[i].pc \in {"waiting", "ending"} \/ outcome'[i] = "SUCCESS"
                          => Evaluated(job[i].exp)')
      <3>1. CASE job'[i] = job[i]
        BY <1>1, <2>1, <2>3, <3>1 DEF LInv, DrainInv
      <3>2. CASE job[i].kind = "RECORD" => kind = "EVALUATION" /\ exp = job[i].exp
        BY <1>1, <1>2, <2>2, <2>3, <3>2 DEF LInv, DrainInv
      <3> QED
        BY <2>3, <3>1, <3>2 DEF OthersGoOn
    <2> QED
      BY <1>1, <1>2, <2>3 DEF DrainInv
  <1>8. ClosedInv'
    BY DEF LInv, ClosedInv
  <1> QED
    BY <1>1, <1>2, <1>3, <1>4, <1>5, <1>6, <1>7, <1>8
-----------------------------------------------------------------------------
\* What WM!Accept does, below p or below no job.
LEMMA AcceptFacts ==
    ASSUME LInv, NEW n \in Jobs, NEW p, WM!Accept(n, p)
    PROVE  /\ outcome[n] = "none" /\ outcome' = [outcome EXCEPT ![n] = "open"]
           /\ phase # "closed" /\ UNCHANGED <<phase, closer>>
           /\ promise' \in [1 .. MaxGens -> Promises]
           /\ \A g \in 1 .. MaxGens :
                  /\ promise'[g].status = promise[g].status
                  /\ promise[g].owed \subseteq promise'[g].owed
                  /\ promise'[g].owed \subseteq promise[g].owed \cup {n}
                  /\ promise[g].status # "standing" => promise'[g].owed = promise[g].owed
                  /\ promise[g].status = "standing" /\ p \in promise[g].owed
                         => n \in promise'[g].owed
  <1>1. /\ outcome[n] = "none" /\ outcome' = [outcome EXCEPT ![n] = "open"]
        /\ phase # "closed" /\ UNCHANGED <<phase, closer>>
    BY DEF WM!Accept
  <1> DEFINE P(g) == IF promise[g].status = "standing" /\ p \in promise[g].owed
                     THEN [promise[g] EXCEPT !.owed = @ \cup {n}]
                     ELSE promise[g]
  <1>2. promise' = [g \in 1 .. MaxGens |-> P(g)]
    BY Numbers DEF WM!Accept
  <1>3. ASSUME NEW g \in 1 .. MaxGens
        PROVE  /\ P(g) \in Promises
               /\ P(g).status = promise[g].status
               /\ promise[g].owed \subseteq P(g).owed
               /\ P(g).owed \subseteq promise[g].owed \cup {n}
               /\ promise[g].status # "standing" => P(g).owed = promise[g].owed
               /\ promise[g].status = "standing" /\ p \in promise[g].owed
                      => n \in P(g).owed
    <2>1. promise[g] \in Promises
      BY TypeFacts
    <2> QED
      BY <2>1 DEF Promises
  <1> HIDE DEF P
  <1> QED
    BY <1>1, <1>2, <1>3

\* A job about an experience that somebody asked for is accepted below an open
\* job about that experience, so what was promised covers it.
LEMMA AcceptPromises ==
    ASSUME LInv, NEW n \in Jobs, NEW p, WM!Accept(n, p),
           UNCHANGED <<experiences, asked>>,
           \A c \in Everyone : call[c].pc = "returned" => call'[c].pc = "returned",
           \A i \in Jobs : i # n => job'[i].exp = job[i].exp,
           \/ call[job'[n].exp].pc # "returned"
           \/ p \in Jobs /\ outcome[p] = "open" /\ job[p].exp = job'[n].exp
    PROVE  PromiseInv'
  <1>1. /\ outcome[n] = "none"
        /\ \A i \in Jobs : i # n => outcome'[i] = outcome[i]
        /\ outcome'[n] = "open"
    BY AcceptFacts, TypeFacts
  <1>2. WM!OpenJobs' \subseteq WM!OpenJobs \cup {n}
    BY <1>1, Numbers DEF WM!OpenJobs
  <1>3. ASSUME NEW g \in 1 .. MaxGens PROVE PromiseAgrees(g)'
    <2>1. PromiseAgrees(g) /\ asked[g] \subseteq Everyone /\ asked'[g] = asked[g]
      BY TypeFacts DEF LInv, PromiseInv
    <2>2. /\ promise'[g].status = promise[g].status
          /\ promise[g].owed \subseteq promise'[g].owed
          /\ promise'[g].owed \subseteq promise[g].owed \cup {n}
          /\ promise[g].status # "standing" => promise'[g].owed = promise[g].owed
          /\ promise[g].status = "standing" /\ p \in promise[g].owed
                 => n \in promise'[g].owed
      BY AcceptFacts
    <2>3. n \notin promise[g].owed /\ promise[g].owed \subseteq Jobs
      BY <1>1, <2>1, TypeFacts DEF PromiseAgrees, Promises
    <2>4. promise'[g].status = "kept" => promise'[g].owed \cap WM!OpenJobs' = {}
      BY <1>2, <2>1, <2>2, <2>3 DEF PromiseAgrees
    <2>5. \A j \in promise'[g].owed : outcome'[j] # "none"
      BY <1>1, <2>1, <2>2, <2>3 DEF PromiseAgrees
    <2>6. ASSUME NEW c \in asked[g]
          PROVE  /\ c \in experiences' /\ call'[c].pc = "returned"
                 /\ promise'[g].status # "unmade"
                 /\ \A j \in Jobs : job'[j].exp = c /\ outcome'[j] = "open" =>
                        promise'[g].status = "standing" /\ j \in promise'[g].owed
      <3>1. /\ c \in Everyone /\ c \in experiences /\ call[c].pc = "returned"
            /\ promise[g].status # "unmade"
            /\ \A j \in Jobs : job[j].exp = c /\ outcome[j] = "open" =>
                   promise[g].status = "standing" /\ j \in promise[g].owed
        BY <2>1 DEF PromiseAgrees
      <3>2. job'[n].exp = c => promise'[g].status = "standing" /\ n \in promise'[g].owed
        BY <2>2, <3>1
      <3> QED
        BY <1>1, <2>2, <3>1, <3>2
    <2> QED
      BY <2>1, <2>4, <2>5, <2>6 DEF PromiseAgrees
  <1> QED
    BY <1>3 DEF PromiseInv

\* A job is accepted: the manager's step, the bodies, and who called it.
LEMMA JobAccepted ==
    ASSUME LInv, NEW n \in Jobs, NEW p, WM!Accept(n, p),
           UNCHANGED <<config, policy, experiences, lessons, memories, store, aclose, asked>>,
           NEW kind \in {"RECORD", "EVALUATION", "EMBEDDING"}, NEW exp \in Everyone,
           NewBody(n, kind, exp),
           kind = "RECORD" => exp \in Callbacks /\ call'[exp].pc = "submitted",
           kind # "RECORD" => exp \in experiences,
           OthersGoOn(n, kind, exp),
           \/ call[exp].pc # "returned"
           \/ p \in Jobs /\ outcome[p] = "open" /\ job[p].exp = exp,
           call' \in [Everyone -> CallState],
           \A c \in Everyone : \/ call'[c] = call[c]
                               \/ /\ call[c].pc \notin {"submitted", "returned"}
                                  /\ c \in Callers => CallAgrees(c)'
                                  /\ c \in Callbacks => call'[c].pc = "submitted"
    PROVE  LInv'
  <1>1. /\ outcome[n] = "none" /\ outcome' = [outcome EXCEPT ![n] = "open"]
        /\ phase # "closed" /\ UNCHANGED phase
        /\ promise' \in [1 .. MaxGens -> Promises]
    BY AcceptFacts
  <1>2. /\ \A c \in Callbacks : call[c].pc = "submitted" => call'[c].pc = "submitted"
        /\ \A c \in Everyone : call[c].pc = "returned" => call'[c].pc = "returned"
    BY DEF Everyone
  <1>3. /\ outcome' \in [Jobs -> Outcomes]
        /\ BodyInv' /\ SavedInv' /\ LessonInv' /\ DrainInv' /\ ClosedInv'
        /\ \A c : \A i \in Jobs : Evaluates(i, c) => Evaluates(i, c)'
        /\ \A i \in Jobs : i # n => job'[i].exp = job[i].exp
    BY <1>1, <1>2, SubmitBodies
  <1>4. TypesInv'
    BY <1>1, <1>3 DEF LInv, TypesInv, NewBody
  <1>5. PromiseInv'
    BY <1>2, <1>3, AcceptPromises DEF NewBody
  <1>6. CallInv'
    <2>1. ASSUME NEW c \in Callers, call'[c] = call[c] PROVE CallAgrees(c)'
      <3>1. \A i \in Jobs : outcome[i] \notin {"none", "open", "FAILURE"}
                               => outcome'[i] \notin {"open", "FAILURE"}
        BY <1>1, TypeFacts
      <3>2. \A g \in 1 .. MaxGens :
               promise[g].status # "unmade" =>
                   /\ promise'[g].status # "unmade"
                   /\ promise[g].owed \subseteq promise'[g].owed
        BY AcceptFacts
      <3>3. \A i \in Jobs : Evaluates(i, c) => Evaluates(i, c)'
        BY <1>3
      <3> QED
        BY <2>1, <3>1, <3>2, <3>3, CallKept
    <2>2. \A c \in Callers : CallAgrees(c)'
      BY <2>1 DEF Everyone
    <2>3. \A c \in Callbacks : call'[c].pc \in {"start", "submitted", "rejected"}
      BY DEF LInv, CallInv, Everyone
    <2> QED
      BY <2>2, <2>3 DEF CallInv
  <1> QED
    BY <1>3, <1>4, <1>5, <1>6 DEF LInv
-----------------------------------------------------------------------------
\* The steps of the body of an open job.
LEMMA PlaceFacts ==
    ASSUME LInv, NEW j \in Jobs
    PROVE  /\ job[j] \in JobBody /\ job[j].pc \in Words
           /\ job[j].exp \in Everyone \cup {Nobody}
           /\ job[j].kind \in {"EVALUATION", "EMBEDDING"} =>
                  job[j].exp \in experiences /\ job[j].exp \in Everyone
           /\ job[j].kind = "RECORD" => job[j].exp \in Everyone
           /\ job[j].pc \notin {"none", "ended"} => outcome[j] = "open"
  BY TypeFacts DEF LInv, SavedInv, BodyInv, JobBody, Everyone

\* A job that may not submit, although it is open, is refused by a shutdown
\* that cancels.
LEMMA Refused ==
    ASSUME LInv, NEW j \in Jobs, outcome[j] = "open", ~ Admits(j)
    PROVE  phase # "open" /\ policy # "DRAIN"
  <1>1. j \in WM!OpenJobs
    BY TypeFacts
  <1> QED
    BY <1>1 DEF Admits, LInv, ClosedInv

LEMMA JobExperienceSavedKeeps ==
    ASSUME LInv, NEW j \in Jobs, JobExperienceSaved(j)
    PROVE  LInv'
  <1>1. /\ job[j] \in JobBody /\ job[j].kind = "RECORD" /\ job[j].pc = "saving"
        /\ job[j].exp \in Callbacks
    BY PlaceFacts DEF JobExperienceSaved, At, LInv, SavedInv
  <1> DEFINE r == To(job[j], "saved")
  <1>2. /\ r \in JobBody /\ r.kind = job[j].kind /\ r.exp = job[j].exp
        /\ r.why = job[j].why /\ r.pc = "saved"
    BY <1>1, ToFacts, WordFacts
  <1>3. job' = [job EXCEPT ![j] = r]
    BY DEF JobExperienceSaved, Goes
  <1> HIDE DEF r
  <1> DEFINE X == {job[j].exp}
  <1>4. /\ X \in SUBSET Callbacks /\ experiences' = experiences \cup X
        /\ r.exp \in experiences'
        /\ UNCHANGED <<phase, outcome, promise, config, policy, call, store,
                       aclose, asked, lessons, memories>>
    BY <1>1, <1>2 DEF JobExperienceSaved, manager
  <1>5. memories' \subseteq Memory
    BY <1>4, TypeFacts
  <1> HIDE DEF X
  <1> QED
    BY <1>1, <1>2, <1>3, <1>4, <1>5, JobMoves

\* A body of an evaluation goes on without writing anything.
LEMMA EvaluationGoesOn ==
    ASSUME LInv, NEW j \in Jobs, NEW r \in JobBody,
           job' = [job EXCEPT ![j] = r],
           job[j].kind = "EVALUATION", job[j].pc \notin {"none", "ended"},
           r.kind = job[j].kind, r.exp = job[j].exp, r.why = job[j].why,
           UNCHANGED <<phase, outcome, promise, config, policy, call, store,
                       aclose, asked,
                       experiences>>,
           memories \subseteq memories', memories' \subseteq Memory,
           \A l \in lessons' :
               l \in lessons \/ (l.exp = job[j].exp /\ RememberedIn(memories', l.content)),
           r.pc = "reinforcing" => RememberedIn(memories', r.content)
    PROVE  LInv'
  <1>1. job[j].exp \in experiences
    BY PlaceFacts
  <1> DEFINE X == {}
  <1>2. X \in SUBSET Callbacks /\ experiences' = experiences \cup X
    OBVIOUS
  <1>3. \A l \in lessons' :
               l \in lessons \/ (l.exp \in experiences /\ RememberedIn(memories', l.content))
    BY <1>1
  <1> HIDE DEF X
  <1> QED
    BY <1>2, <1>3, JobMoves

LEMMA FindKeeps ==
    ASSUME LInv, NEW j \in Jobs, Find(j)
    PROVE  LInv'
  <1>1. /\ job[j] \in JobBody /\ job[j].kind = "EVALUATION" /\ job[j].pc = "finding"
        /\ memories' = memories /\ memories' \subseteq Memory /\ lessons' = lessons
        /\ UNCHANGED <<phase, outcome, promise, config, policy, call, store,
                       aclose, asked, experiences>>
    BY PlaceFacts, TypeFacts DEF Find, At, manager, saved
  <1>2. CASE Goes(j, "storing")
    <2> DEFINE r == To(job[j], "storing")
    <2>1. /\ r \in JobBody /\ r.kind = job[j].kind /\ r.exp = job[j].exp
          /\ r.why = job[j].why /\ r.pc = "storing"
      BY <1>1, ToFacts, WordFacts
    <2>2. job' = [job EXCEPT ![j] = r]
      BY <1>2 DEF Goes
    <2> HIDE DEF r
    <2> QED
      BY <1>1, <2>1, <2>2, EvaluationGoesOn
  <1>3. ASSUME NEW m \in Similar(job[j].content, "LESSON"),
               job' = [job EXCEPT ![j] = Found(@, m.by)]
        PROVE  LInv'
    <2>1. /\ m \in memories /\ m.type = "LESSON" /\ m.content = job[j].content
          /\ m.by \in Everyone \cup {Nobody}
      BY TypeFacts DEF Similar, Memory
    <2> DEFINE r == Found(job[j], m.by)
    <2>2. /\ r \in JobBody /\ r.kind = job[j].kind /\ r.exp = job[j].exp
          /\ r.why = job[j].why /\ r.content = job[j].content
      BY <1>1, <2>1, FoundFacts
    <2>3. job' = [job EXCEPT ![j] = r]
      BY <1>3
    <2> HIDE DEF r
    <2>4. RememberedIn(memories', r.content)
      BY <1>1, <2>1, <2>2 DEF RememberedIn
    <2> QED
      BY <1>1, <2>2, <2>3, <2>4, EvaluationGoesOn
  <1> QED
    BY <1>2, <1>3 DEF Find

\* What the transactions leave behind.
LEMMA Stored ==
    ASSUME LInv, NEW j \in Jobs, NEW type \in {"LESSON", "RULE"}, NEW vec \in BOOLEAN,
           memories' = memories \cup
               {[by |-> job[j].exp, type |-> type, content |-> job[j].content, vec |-> vec]}
    PROVE  /\ memories \subseteq memories' /\ memories' \subseteq Memory
           /\ type = "LESSON" => RememberedIn(memories', job[j].content)
  <1> DEFINE m == [by |-> job[j].exp, type |-> type, content |-> job[j].content, vec |-> vec]
  <1>1. job[j].exp \in Everyone \cup {Nobody} /\ job[j].content \in Said
    BY TypeFacts DEF JobBody
  <1>2. m \in Memory /\ m.type = type /\ m.content = job[j].content
    BY <1>1 DEF Memory
  <1>3. memories' = memories \cup {m}
    OBVIOUS
  <1> HIDE DEF m
  <1>4. memories \subseteq memories' /\ memories' \subseteq Memory /\ m \in memories'
    BY <1>2, <1>3, TypeFacts
  <1>5. type = "LESSON" => \E x \in memories' : x.type = "LESSON" /\ x.content = job[j].content
    BY <1>2, <1>4
  <1>6. m.content = job[j].content
    BY <1>2
  <1> QED
    BY <1>4, <1>5 DEF RememberedIn
LEMMA StoreLessonAndMemoryKeeps ==
    ASSUME LInv, NEW j \in Jobs, StoreLessonAndMemory(j)
    PROVE  LInv'
  <1> DEFINE vec == HasEmbedder /\ outcome[job[j].child] = "SUCCESS"
             r == To(job[j], AfterStoring)
             l == Lesson(j)
  <1>1. /\ job[j] \in JobBody /\ job[j].kind = "EVALUATION" /\ job[j].pc = "storing"
        /\ memories' = memories \cup
              {[by |-> job[j].exp, type |-> "LESSON", content |-> job[j].content, vec |-> vec]}
        /\ lessons' = lessons \cup {l} /\ job' = [job EXCEPT ![j] = r]
        /\ UNCHANGED <<phase, outcome, promise, config, policy, call, store,
                       aclose, asked, experiences>>
    BY PlaceFacts DEF StoreLessonAndMemory, At, manager, Goes
  <1>2. AfterStoring \in Words /\ AfterStoring # "reinforcing"
    BY WordFacts DEF AfterStoring
  <1>3. /\ r \in JobBody /\ r.kind = job[j].kind /\ r.exp = job[j].exp
        /\ r.why = job[j].why /\ r.pc # "reinforcing"
    BY <1>1, <1>2, ToFacts
  <1>4. vec \in BOOLEAN
    OBVIOUS
  <1>5. l.exp = job[j].exp /\ l.content = job[j].content
    BY DEF Lesson
  <1> HIDE DEF vec, r, l
  <1>6. /\ memories \subseteq memories' /\ memories' \subseteq Memory
        /\ RememberedIn(memories', job[j].content)
    BY <1>1, <1>4, Stored
  <1> QED
    BY <1>1, <1>3, <1>5, <1>6, EvaluationGoesOn

LEMMA SaveLessonKeeps ==
    ASSUME LInv, NEW j \in Jobs, SaveLesson(j)
    PROVE  LInv'
  <1> DEFINE r == To(job[j], "feedback")
             l == Lesson(j)
  <1>1. /\ job[j] \in JobBody /\ job[j].kind = "EVALUATION" /\ job[j].pc = "reinforcing"
        /\ lessons' = lessons \cup {l} /\ job' = [job EXCEPT ![j] = r]
        /\ UNCHANGED <<phase, outcome, promise, config, policy, call, store,
                       aclose, asked, experiences, memories>>
    BY PlaceFacts DEF SaveLesson, At, manager, Goes
  <1>2. /\ r \in JobBody /\ r.kind = job[j].kind /\ r.exp = job[j].exp
        /\ r.why = job[j].why /\ r.pc = "feedback"
    BY <1>1, ToFacts, WordFacts
  <1>3. l.exp = job[j].exp /\ l.content = job[j].content
    BY DEF Lesson
  <1> HIDE DEF r, l
  <1>4. memories' \subseteq Memory /\ RememberedIn(memories', job[j].content)
    BY <1>1, TypeFacts DEF LInv, LessonInv, At, Remembered
  <1> QED
    BY <1>1, <1>2, <1>3, <1>4, EvaluationGoesOn

\* The steps of an evaluation that only change its place.
LEMMA EvaluationGoes ==
    ASSUME LInv, NEW j \in Jobs, NEW pc \in Words,
           job[j].kind = "EVALUATION", job[j].pc \notin {"none", "ended"},
           Goes(j, pc), pc # "reinforcing",
           UNCHANGED <<phase, outcome, promise, config, policy, call, store,
                       aclose, asked,
                       experiences, lessons>>,
           memories \subseteq memories', memories' \subseteq Memory
    PROVE  LInv'
  <1> DEFINE r == To(job[j], pc)
  <1>1. /\ r \in JobBody /\ r.kind = job[j].kind /\ r.exp = job[j].exp
        /\ r.why = job[j].why /\ r.pc = pc
    BY PlaceFacts, ToFacts
  <1>2. job' = [job EXCEPT ![j] = r]
    BY DEF Goes
  <1> HIDE DEF r
  <1> QED
    BY <1>1, <1>2, EvaluationGoesOn

LEMMA FeedbackKeeps ==
    ASSUME LInv, NEW j \in Jobs, Feedback(j)
    PROVE  LInv'
  <1>1. AfterStoring \in Words /\ AfterStoring # "reinforcing"
    BY WordFacts DEF AfterStoring
  <1>2. /\ job[j].kind = "EVALUATION" /\ job[j].pc \notin {"none", "ended"}
        /\ Goes(j, AfterStoring)
        /\ UNCHANGED <<phase, outcome, promise, config, policy, call, store,
                       aclose, asked,
                       experiences, lessons, memories>>
    BY DEF Feedback, At, manager, saved
  <1> QED
    BY <1>1, <1>2, EvaluationGoes, TypeFacts

LEMMA ConsolidatedKeeps ==
    ASSUME LInv, NEW j \in Jobs, Consolidated(j)
    PROVE  LInv'
  <1>1. /\ job[j].kind = "EVALUATION" /\ job[j].pc \notin {"none", "ended"}
        /\ Goes(j, "ending")
        /\ UNCHANGED <<phase, outcome, promise, config, policy, call, store,
                       aclose, asked,
                       experiences, lessons>>
    BY DEF Consolidated, At, manager
  <1>2. memories \subseteq memories' /\ memories' \subseteq Memory
    <2>1. CASE UNCHANGED memories
      BY <2>1, TypeFacts
    <2>2. CASE memories' = memories \cup
                {[by |-> job[j].exp, type |-> "RULE",
                  content |-> job[j].content, vec |-> FALSE]}
      BY <2>2, Stored
    <2> QED
      BY <2>1, <2>2 DEF Consolidated
  <1> QED
    BY <1>1, <1>2, EvaluationGoes, WordFacts

LEMMA EmbeddedKeeps ==
    ASSUME LInv, NEW j \in Jobs, Embedded(j)
    PROVE  LInv'
  <1>1. /\ job[j].kind = "EVALUATION" /\ job[j].pc \notin {"none", "ended"}
        /\ UNCHANGED <<config, policy, call, store, aclose, asked, experiences,
                       lessons, memories>>
        /\ memories' \subseteq Memory
    BY TypeFacts DEF Embedded, At, saved
  <1>2. CASE Goes(j, "finding") /\ UNCHANGED manager
    BY <1>1, <1>2, EvaluationGoes, WordFacts DEF manager
  <1>3. CASE JobEnds(j, "CANCELLATION", "none")
    BY <1>1, <1>3, JobIsOver, WordFacts
  <1>4. CASE Goes(j, "storing") /\ UNCHANGED manager
    BY <1>1, <1>4, EvaluationGoes, WordFacts DEF manager
  <1>5. CASE \E why \in {"embedder", "sanitizer"} : JobEnds(j, "FAILURE", why)
    BY <1>1, <1>5, JobIsOver, WordFacts
  <1> QED
    BY <1>2, <1>3, <1>4, <1>5 DEF Embedded

LEMMA EvaluatorAnswersKeeps ==
    ASSUME LInv, NEW j \in Jobs, EvaluatorAnswers(j)
    PROVE  LInv'
  <1>1. /\ job[j] \in JobBody /\ job[j].kind = "EVALUATION" /\ job[j].pc = "evaluating"
        /\ job[j].exp \in experiences /\ job[j].exp \in Everyone /\ outcome[j] = "open"
        /\ UNCHANGED <<config, policy, call, store, aclose, asked, experiences,
                       lessons, memories>>
        /\ memories' \subseteq Memory
    BY PlaceFacts, TypeFacts DEF EvaluatorAnswers, At, saved
  <1>2. CASE JobEnds(j, "SUCCESS", "none")
    BY <1>1, <1>2, JobIsOver, WordFacts
  <1>3. CASE ~ Admits(j) /\ JobEnds(j, "FAILURE", "lifecycle")
    BY <1>1, <1>3, JobIsOver, Refused, WordFacts
  <1>4. ASSUME NEW content \in config.contents,
               job' = [job EXCEPT ![j] = To(Told(job[j], content), "storing")],
               UNCHANGED manager
        PROVE  LInv'
    <2>1. content \in Contents
      BY TypeFacts, LearnerSwitches DEF LearnerSwitches
    <2> DEFINE told == Told(job[j], content)
               r == To(told, "storing")
    <2>2. /\ told \in JobBody /\ told.kind = job[j].kind /\ told.exp = job[j].exp
          /\ told.why = job[j].why
      BY <1>1, <2>1, ToldFacts
    <2> HIDE DEF told
    <2>3. /\ r \in JobBody /\ r.kind = job[j].kind /\ r.exp = job[j].exp
          /\ r.why = job[j].why /\ r.pc = "storing"
      BY <2>2, ToFacts, WordFacts
    <2>4. job' = [job EXCEPT ![j] = r]
      BY <1>4 DEF told
    <2> HIDE DEF r
    <2> QED
      BY <1>1, <1>4, <2>3, <2>4, EvaluationGoesOn DEF manager
  <1>5. ASSUME NEW content \in config.contents,
               SubmitFrom(j, j, Awaiting(Told(job[j], content), "embedding", NextJob),
                          "EMBEDDING", job[j].exp, "calling")
        PROVE  LInv'
    <2>1. content \in Contents
      BY TypeFacts, LearnerSwitches DEF LearnerSwitches
    <2> DEFINE told == Told(job[j], content)
               n == NextJob
               r == Awaiting(told, "embedding", n)
               b == Body("EMBEDDING", job[j].exp, "calling")
    <2>2. /\ told \in JobBody /\ told.kind = job[j].kind /\ told.exp = job[j].exp
          /\ told.why = job[j].why
      BY <1>1, <2>1, ToldFacts
    <2>3. n \in Jobs /\ WM!Accept(n, j) /\ job' = [job EXCEPT ![n] = b, ![j] = r]
      BY <1>5 DEF SubmitFrom
    <2>4. /\ b \in JobBody /\ b.kind = "EMBEDDING" /\ b.exp = job[j].exp
          /\ b.pc = "calling" /\ b.why = "none"
      <3>1. /\ "EMBEDDING" \in Words /\ "calling" \in Words
            /\ job[j].exp \in Everyone \cup {Nobody}
        BY <1>1, WordFacts
      <3> QED
        BY <3>1, BodyFacts
    <2> HIDE DEF told, n, b
    <2>5. /\ r \in JobBody /\ r.kind = job[j].kind /\ r.exp = job[j].exp
          /\ r.why = job[j].why /\ r.pc = "embedding"
      BY <2>2, <2>3, AwaitingFacts, WordFacts
    <2> HIDE DEF r
    <2>6. n # j
      BY <1>1, <2>3, AcceptFacts
    <2>7. NewBody(n, "EMBEDDING", job[j].exp)
      BY <2>3, <2>4, <2>5, <2>6, TypeFacts DEF NewBody
    <2>8. OthersGoOn(n, "EMBEDDING", job[j].exp)
      BY <1>1, <2>3, <2>5, <2>6, TypeFacts DEF OthersGoOn
    <2>9. call' \in [Everyone -> CallState] /\ \A c \in Everyone : call'[c] = call[c]
      BY <1>1, TypeFacts
    <2> QED
      BY <1>1, <2>3, <2>7, <2>8, <2>9, JobAccepted
  <1> QED
    BY <1>2, <1>3, <1>4, <1>5 DEF EvaluatorAnswers
\* The submission of an evaluation below its record job, which goes on as r.
LEMMA RecordJobSubmitsBelow ==
    ASSUME LInv, NEW j \in Jobs, NEW r \in JobBody,
           job[j].kind = "RECORD", job[j].pc = "saved",
           r.kind = job[j].kind, r.exp = job[j].exp, r.why = job[j].why,
           r.pc \in {"waiting", "ending"},
           SubmitFrom(j, j, r, "EVALUATION", job[j].exp, "evaluating"),
           UNCHANGED <<config, policy, call, store, aclose, asked, experiences,
                       lessons, memories>>
    PROVE  LInv'
  <1> DEFINE n == NextJob
             b == Body("EVALUATION", job[j].exp, "evaluating")
  <1>1. /\ n \in Jobs /\ WM!Accept(n, j) /\ job' = [job EXCEPT ![n] = b, ![j] = r]
    BY DEF SubmitFrom
  <1>2. /\ job[j].exp \in Everyone /\ job[j].exp \in experiences /\ outcome[j] = "open"
    BY PlaceFacts DEF LInv, SavedInv
  <1>3. /\ b \in JobBody /\ b.kind = "EVALUATION" /\ b.exp = job[j].exp
        /\ b.pc = "evaluating" /\ b.why = "none"
    <2>1. /\ "EVALUATION" \in Words /\ "evaluating" \in Words
          /\ job[j].exp \in Everyone \cup {Nobody}
      BY <1>2, WordFacts
    <2> QED
      BY <2>1, BodyFacts
  <1> HIDE DEF n, b
  <1>4. n # j
    BY <1>1, <1>2, AcceptFacts
  <1>5. NewBody(n, "EVALUATION", job[j].exp)
    BY <1>1, <1>3, <1>4, TypeFacts DEF NewBody
  <1>6. OthersGoOn(n, "EVALUATION", job[j].exp)
    BY <1>1, <1>2, <1>4, TypeFacts DEF OthersGoOn
  <1>7. call' \in [Everyone -> CallState] /\ \A c \in Everyone : call'[c] = call[c]
    BY TypeFacts
  <1> QED
    BY <1>1, <1>2, <1>5, <1>6, <1>7, JobAccepted

LEMMA RecordJobSubmitsKeeps ==
    ASSUME LInv, NEW j \in Jobs, RecordJobSubmits(j)
    PROVE  LInv'
  <1>1. /\ job[j] \in JobBody /\ job[j].kind = "RECORD" /\ job[j].pc = "saved"
        /\ outcome[j] = "open" /\ EvaluationParent(j) = j
        /\ UNCHANGED <<config, policy, call, store, aclose, asked, experiences,
                       lessons, memories>>
    BY PlaceFacts DEF RecordJobSubmits, At, saved, EvaluationParent
  <1>2. CASE SubmitFrom(j, j, Awaiting(job[j], "waiting", NextJob),
                        "EVALUATION", job[j].exp, "evaluating")
    <2> DEFINE n == NextJob
               r == Awaiting(job[j], "waiting", n)
    <2>1. n \in Jobs
      BY <1>2 DEF SubmitFrom
    <2> HIDE DEF n
    <2>2. /\ r \in JobBody /\ r.kind = job[j].kind /\ r.exp = job[j].exp
          /\ r.why = job[j].why /\ r.pc = "waiting"
      <3>1. "waiting" \in Words
        BY WordFacts
      <3> QED
        BY <1>1, <2>1, <3>1, AwaitingFacts
    <2>3. SubmitFrom(j, j, r, "EVALUATION", job[j].exp, "evaluating")
      BY <1>2 DEF n
    <2> HIDE DEF r
    <2> QED
      BY <1>1, <2>2, <2>3, RecordJobSubmitsBelow
  <1>3. CASE SubmitFrom(j, j, To(job[j], "ending"),
                        "EVALUATION", job[j].exp, "evaluating")
    <2> DEFINE r == To(job[j], "ending")
    <2>1. /\ r \in JobBody /\ r.kind = job[j].kind /\ r.exp = job[j].exp
          /\ r.why = job[j].why /\ r.pc = "ending"
      BY <1>1, ToFacts, WordFacts
    <2>2. SubmitFrom(j, j, r, "EVALUATION", job[j].exp, "evaluating")
      BY <1>3
    <2> HIDE DEF r
    <2> QED
      BY <1>1, <2>1, <2>2, RecordJobSubmitsBelow
  <1>4. CASE ~ Admits(j) /\ JobEnds(j, "FAILURE", "lifecycle")
    BY <1>1, <1>4, JobIsOver, Refused, WordFacts
  <1> QED
    BY <1>1, <1>2, <1>3, <1>4 DEF RecordJobSubmits

\* The steps that end a job and write nothing.
LEMMA EndingsKeep ==
    ASSUME LInv, NEW j \in Jobs,
           \/ RecordJobEnds(j) \/ EvaluatorFails(j) \/ EmbedderAnswers(j)
           \/ ConsolidationFails(j) \/ EvaluationEnds(j)
           \/ JobStoreFails(j) \/ JobCancelled(j)
    PROVE  LInv'
  <1>1. UNCHANGED <<config, policy, call, store, aclose, asked, experiences, lessons,
                    memories>>
    BY DEF RecordJobEnds, EvaluatorFails, EmbedderAnswers, EvaluationEnds,
           ConsolidationFails, JobStoreFails, JobCancelled, saved
  <1>2. CASE RecordJobEnds(j)
    <2>1. /\ JobEnds(j, "SUCCESS", "none") /\ job[j].kind = "RECORD"
          /\ job[j].pc \in {"waiting", "ending"}
      BY <1>2 DEF RecordJobEnds, EvaluationOver, At
    <2>2. Evaluated(job[j].exp)
      BY <2>1 DEF LInv, DrainInv
    <2> QED
      BY <1>1, <2>1, <2>2, JobIsOver, WordFacts
  <1>3. CASE EvaluatorFails(j) \/ JobStoreFails(j) \/ ConsolidationFails(j)
    <2>1. \E why \in {"evaluator", "store", "extra", "sanitizer"} :
             JobEnds(j, "FAILURE", why)
      BY <1>3 DEF EvaluatorFails, JobStoreFails, ConsolidationFails
    <2> QED
      BY <1>1, <2>1, JobIsOver, WordFacts
  <1>4. CASE EmbedderAnswers(j)
    <2>1. /\ \/ JobEnds(j, "SUCCESS", "none")
             \/ \E why \in {"embedder", "sanitizer"} : JobEnds(j, "FAILURE", why)
          /\ job[j].kind = "EMBEDDING"
      BY <1>4 DEF EmbedderAnswers, At
    <2> QED
      BY <1>1, <2>1, JobIsOver, WordFacts
  <1>5. CASE EvaluationEnds(j)
    <2>1. JobEnds(j, "SUCCESS", "none") /\ job[j].kind = "EVALUATION"
      BY <1>5 DEF EvaluationEnds, At
    <2> QED
      BY <1>1, <2>1, JobIsOver, WordFacts
  <1>6. CASE JobCancelled(j)
    BY <1>1, <1>6, JobIsOver, WordFacts DEF JobCancelled
  <1> QED
    BY <1>2, <1>3, <1>4, <1>5, <1>6

LEMMA JobStepKeeps ==
    ASSUME LInv, NEW j \in Jobs, JobStep(j)
    PROVE  LInv'
  BY JobExperienceSavedKeeps, RecordJobSubmitsKeeps, EvaluatorAnswersKeeps,
     EmbeddedKeeps, FindKeeps, StoreLessonAndMemoryKeeps, SaveLessonKeeps,
     FeedbackKeeps, ConsolidatedKeeps, EndingsKeep DEF JobStep
-----------------------------------------------------------------------------
LEMMA CallbackRecordKeeps ==
    ASSUME LInv, NEW c \in Callbacks, CallbackRecord(c)
    PROVE  LInv'
  <1>1. /\ c \in Everyone /\ c \notin Callers /\ call[c].pc = "start" /\ call[c] \in CallState
        /\ UNCHANGED <<config, policy, store, aclose, asked, experiences, lessons,
                       memories>>
    BY LearnerNames, TypeFacts DEF CallbackRecord, saved, Everyone, LearnerNames
  <1>2. CASE Submit(NoJob, "RECORD", c, "saving") /\ CallGoes(c, "submitted")
    <2> DEFINE n == NextJob
               b == Body("RECORD", c, "saving")
               s == To(call[c], "submitted")
    <2>1. /\ n \in Jobs /\ WM!Accept(n, NoJob) /\ job' = [job EXCEPT ![n] = b]
          /\ call' = [call EXCEPT ![c] = s]
      BY <1>2 DEF Submit, CallGoes
    <2>2. /\ b \in JobBody /\ b.kind = "RECORD" /\ b.exp = c
          /\ b.pc = "saving" /\ b.why = "none"
      <3>1. "RECORD" \in Words /\ "saving" \in Words /\ c \in Everyone \cup {Nobody}
        BY <1>1, WordFacts
      <3> QED
        BY <3>1, BodyFacts
    <2>3. s \in CallState /\ s.pc = "submitted"
      BY <1>1, CallToFacts, WordFacts
    <2> HIDE DEF n, b, s
    <2>4. NewBody(n, "RECORD", c)
      BY <2>1, <2>2, TypeFacts DEF NewBody
    <2>5. OthersGoOn(n, "RECORD", c)
      BY <2>1, TypeFacts DEF OthersGoOn
    <2>6. /\ call' \in [Everyone -> CallState] /\ call'[c].pc = "submitted"
          /\ \A d \in Everyone : d # c => call'[d] = call[d]
      BY <1>1, <2>1, <2>3, TypeFacts
    <2>7. \A d \in Everyone : \/ call'[d] = call[d]
                              \/ /\ call[d].pc \notin {"submitted", "returned"}
                                 /\ d \in Callers => CallAgrees(d)'
                                 /\ d \in Callbacks => call'[d].pc = "submitted"
      BY <1>1, <2>6
    <2> QED
      BY <1>1, <2>1, <2>4, <2>5, <2>6, <2>7, JobAccepted
  <1>3. CASE CallGoes(c, "rejected") /\ UNCHANGED <<manager, job>>
    <2> DEFINE s == To(call[c], "rejected")
               X == {}
    <2>1. s \in CallState /\ s.pc = "rejected"
      BY <1>1, CallToFacts, WordFacts
    <2>2. /\ call' = [call EXCEPT ![c] = s] /\ X \in SUBSET ({c} \cap Callers)
          /\ experiences' = experiences \cup X
          /\ UNCHANGED <<phase, outcome, promise,
                         job>> /\ memories' \subseteq Memory
      BY <1>1, <1>3, TypeFacts DEF CallGoes, manager
    <2> HIDE DEF s, X
    <2> QED
      BY <1>1, <2>1, <2>2, CallMoves
  <1> QED
    BY <1>2, <1>3 DEF CallbackRecord
\* The place of a caller changes, he saves and stores nothing.
LEMMA CallerGoes ==
    ASSUME LInv, NEW c \in Callers, NEW s \in CallState,
           call' = [call EXCEPT ![c] = s],
           call[c].pc \in {"start", "saving", "saved", "flushing", "finding",
                           "storing", "reinforcing"},
           UNCHANGED <<phase, outcome, promise, config, policy, job, lessons,
                       store, aclose, asked,
                       experiences>>,
           memories \subseteq memories', memories' \subseteq Memory,
           s.pc \in {"failed", "rejected"}
             \/ /\ s.pc \in {"saving", "finding", "storing", "reinforcing", "returned"}
                /\ c \notin experiences
             \/ /\ s.pc = "returned"
                /\ \E j \in Jobs : /\ Evaluates(j, c)
                                   /\ outcome[j] \notin {"open", "FAILURE"}
    PROVE  LInv'
  <1>1. c \in Everyone /\ c \notin Callbacks /\ call'[c] = s
    BY LearnerNames, TypeFacts DEF LearnerNames, Everyone
  <1>2. \A j : Evaluates(j, c)' <=> Evaluates(j, c)
    BY DEF Evaluates
  <1>3. CallAgrees(c)'
    BY <1>1, <1>2 DEF CallAgrees
  <1> DEFINE X == {}
  <1>4. X \in SUBSET ({c} \cap Callers) /\ experiences' = experiences \cup X
    OBVIOUS
  <1> HIDE DEF X
  <1> QED
    BY <1>1, <1>3, <1>4, CallMoves

LEMMA CallPlace ==
    ASSUME LInv, NEW c \in Callers
    PROVE  /\ call[c] \in CallState /\ c \in Everyone /\ CallAgrees(c) /\ c \notin Callbacks
           /\ memories \subseteq Memory
  BY TypeFacts, LearnerNames DEF Everyone, LInv, CallInv, LearnerNames

LEMMA RecordKeeps ==
    ASSUME LInv, NEW c \in Callers, Record(c)
    PROVE  LInv'
  <1> DEFINE pc == IF phase = "open" THEN "saving" ELSE "rejected"
             s == To(call[c], pc)
  <1>1. pc \in Words /\ pc \in {"saving", "rejected"}
    BY WordFacts
  <1>2. /\ call' = [call EXCEPT ![c] = s] /\ call[c].pc = "start" /\ memories' = memories
        /\ UNCHANGED <<phase, outcome, promise, config, policy, job, lessons,
                       store, aclose, asked,
                       experiences>>
    BY DEF Record, CallGoes, manager, saved
  <1> HIDE DEF pc
  <1>3. s \in CallState /\ s.pc = pc
    BY <1>1, CallPlace, CallToFacts
  <1>4. c \notin experiences
    BY <1>2, CallPlace DEF CallAgrees
  <1> HIDE DEF s
  <1> QED
    BY <1>1, <1>2, <1>3, <1>4, CallPlace, CallerGoes

LEMMA RememberKeeps ==
    ASSUME LInv, NEW c \in Callers, Remember(c)
    PROVE  LInv'
  <1>1. /\ call[c].pc = "start" /\ memories' = memories
        /\ UNCHANGED <<phase, outcome, promise, config, policy, job, lessons,
                       store, aclose, asked,
                       experiences>>
    BY DEF Remember, manager, saved
  <1>2. PICK content \in config.contents, pc \in {"finding", "storing", "failed"} :
           call' = [call EXCEPT ![c] = Says(@, content, pc = "finding", pc)]
    BY DEF Remember
  <1>3. content \in Contents
    BY TypeFacts, LearnerSwitches DEF LearnerSwitches
  <1> DEFINE vec == pc = "finding"
             s == Says(call[c], content, vec, pc)
  <1>4. pc \in Words /\ vec \in BOOLEAN
    BY WordFacts
  <1>5. call' = [call EXCEPT ![c] = s]
    BY <1>2
  <1> HIDE DEF vec
  <1>6. s \in CallState /\ s.pc = pc
    BY <1>3, <1>4, CallPlace, SaysFacts
  <1>7. c \notin experiences
    BY <1>1, CallPlace DEF CallAgrees
  <1> HIDE DEF s
  <1> QED
    BY <1>1, <1>4, <1>5, <1>6, <1>7, CallPlace, CallerGoes

LEMMA ExperienceSavedKeeps ==
    ASSUME LInv, NEW c \in Callers, ExperienceSaved(c)
    PROVE  LInv'
  <1> DEFINE s == To(call[c], "saved")
             X == {c}
  <1>1. /\ call' = [call EXCEPT ![c] = s] /\ call[c].pc = "saving" /\ memories' = memories
        /\ experiences' = experiences \cup X /\ X \in SUBSET ({c} \cap Callers)
        /\ UNCHANGED <<phase, outcome, promise, config, policy, job, lessons,
                       store, aclose, asked>>
    BY DEF ExperienceSaved, CallGoes, manager
  <1>2. s \in CallState /\ s.pc = "saved"
    BY CallPlace, CallToFacts, WordFacts
  <1>3. c \in experiences'
    BY <1>1
  <1> HIDE DEF s, X
  <1>4. call'[c] = s
    BY <1>1, CallPlace, TypeFacts
  <1>5. CallAgrees(c)'
    BY <1>2, <1>3, <1>4 DEF CallAgrees
  <1> QED
    BY <1>1, <1>2, <1>5, CallPlace, CallMoves

LEMMA CallerStoreFailsKeeps ==
    ASSUME LInv, NEW c \in Callers, CallerStoreFails(c)
    PROVE  LInv'
  <1> DEFINE s == To(call[c], "failed")
  <1>1. /\ call' = [call EXCEPT ![c] = s] /\ memories' = memories
        /\ call[c].pc \in {"saving", "finding", "storing", "reinforcing"}
        /\ UNCHANGED <<phase, outcome, promise, config, policy, job, lessons,
                       store, aclose, asked,
                       experiences>>
    BY DEF CallerStoreFails, CallGoes, manager, saved
  <1>2. s \in CallState /\ s.pc = "failed"
    BY CallPlace, CallToFacts, WordFacts
  <1> HIDE DEF s
  <1> QED
    BY <1>1, <1>2, CallPlace, CallerGoes

\* The flush that record() awaits is over: its evaluation, which it owed, has
\* its outcome, and did not fail when record() returns.
LEMMA RecordEndsKeeps ==
    ASSUME LInv, NEW c \in Callers, RecordEnds(c)
    PROVE  LInv'
  <1>1. /\ call[c].pc = "flushing" /\ memories' = memories
        /\ promise[call[c].gen].status = "kept"
        /\ UNCHANGED <<phase, outcome, promise, config, policy, job, lessons,
                       store, aclose, asked,
                       experiences>>
    BY DEF RecordEnds, manager, saved
  <1>2. CASE CallGoes(c, "returned") /\ Failures(promise[call[c].gen].owed) = {}
    <2> DEFINE s == To(call[c], "returned")
    <2>1. s \in CallState /\ s.pc = "returned" /\ call' = [call EXCEPT ![c] = s]
      BY <1>2, CallPlace, CallToFacts, WordFacts DEF CallGoes
    <2>2. PICK j \in promise[call[c].gen].owed : Evaluates(j, c)
      BY <1>1, CallPlace DEF CallAgrees
    <2>3. call[c].gen \in 1 .. MaxGens
      BY <1>1, CallPlace DEF CallAgrees
    <2>4. promise[call[c].gen].owed \cap WM!OpenJobs = {}
      BY <1>1, <2>3 DEF LInv, PromiseInv, PromiseAgrees
    <2>5. j \in Jobs /\ outcome[j] # "FAILURE"
      BY <1>2, <2>2, <2>3, TypeFacts DEF Promises, Failures
    <2>6. outcome[j] # "open"
      BY <2>2, <2>4, <2>5, TypeFacts
    <2> HIDE DEF s
    <2> QED
      BY <1>1, <2>1, <2>2, <2>5, <2>6, CallPlace, CallerGoes
  <1>3. CASE CallGoes(c, "failed")
    <2> DEFINE s == To(call[c], "failed")
    <2>1. s \in CallState /\ s.pc = "failed" /\ call' = [call EXCEPT ![c] = s]
      BY <1>3, CallPlace, CallToFacts, WordFacts DEF CallGoes
    <2> HIDE DEF s
    <2> QED
      BY <1>1, <2>1, CallPlace, CallerGoes
  <1> QED
    BY <1>2, <1>3 DEF RecordEnds

LEMMA RememberFindsKeeps ==
    ASSUME LInv, NEW c \in Callers, RememberFinds(c)
    PROVE  LInv'
  <1> DEFINE pc == IF Similar(call[c].content, "FACT") = {}
                   THEN "storing" ELSE "reinforcing"
             s == To(call[c], pc)
  <1>1. pc \in Words /\ pc \in {"storing", "reinforcing"}
    BY WordFacts
  <1>2. /\ call' = [call EXCEPT ![c] = s] /\ call[c].pc = "finding" /\ memories' = memories
        /\ UNCHANGED <<phase, outcome, promise, config, policy, job, lessons,
                       store, aclose, asked,
                       experiences>>
    BY DEF RememberFinds, CallGoes, manager, saved
  <1> HIDE DEF pc
  <1>3. s \in CallState /\ s.pc = pc
    BY <1>1, CallPlace, CallToFacts
  <1>4. c \notin experiences
    BY <1>2, CallPlace DEF CallAgrees
  <1> HIDE DEF s
  <1> QED
    BY <1>1, <1>2, <1>3, <1>4, CallPlace, CallerGoes

LEMMA RememberStoresKeeps ==
    ASSUME LInv, NEW c \in Callers, RememberStores(c)
    PROVE  LInv'
  <1> DEFINE s == To(call[c], "returned")
             m == [by |-> c, type |-> "FACT", vec |-> call[c].vec,
                   content |-> call[c].content]
  <1>1. /\ call' = [call EXCEPT ![c] = s] /\ call[c].pc \in {"storing", "reinforcing"}
        /\ memories' = memories \/ memories' = memories \cup {m}
        /\ UNCHANGED <<phase, outcome, promise, config, policy, job, lessons,
                       store, aclose, asked,
                       experiences>>
    BY DEF RememberStores, CallGoes, manager
  <1>2. s \in CallState /\ s.pc = "returned"
    BY CallPlace, CallToFacts, WordFacts
  <1>3. m \in Memory
    BY CallPlace DEF CallState, Memory
  <1>4. c \notin experiences
    BY <1>1, CallPlace DEF CallAgrees
  <1> HIDE DEF s, m
  <1>5. memories \subseteq memories' /\ memories' \subseteq Memory
    BY <1>1, <1>3, CallPlace
  <1> QED
    BY <1>1, <1>2, <1>4, <1>5, CallerGoes
\* The foreground: the evaluation is submitted and the flush is called at once.
LEMMA SubmitAndFlushKeeps ==
    ASSUME LInv, NEW c \in Callers, NEW g \in CallerGens,
           call[c].pc = "saved", Admits(NoJob), SubmitAndFlush(g, c),
           call' = [call EXCEPT ![c] = Flushes(@, g)],
           UNCHANGED <<config, policy, experiences, lessons, memories, store, aclose>>
    PROVE  LInv'
  <1> DEFINE n == NextJob
             b == Body("EVALUATION", c, "evaluating")
             s == Flushes(call[c], g)
             q == [status |-> "standing", owed |-> WM!OpenJobs \cup {n}]
  <1>1. /\ n \in Jobs /\ outcome[n] = "none" /\ promise[g].status = "unmade"
        /\ job' = [job EXCEPT ![n] = b] /\ outcome' = [outcome EXCEPT ![n] = "open"]
        /\ promise' = [promise EXCEPT ![g] = q]
        /\ asked' = [asked EXCEPT ![g] = ReturnedRecords]
        /\ UNCHANGED phase
        /\ call' = [call EXCEPT ![c] = s]
    BY DEF SubmitAndFlush
  <1>2. g \in 1 .. MaxGens /\ g \in Nat
    BY Numbers
  <1>3. /\ call[c] \in CallState /\ c \in Everyone /\ c \notin Callbacks /\ c \in experiences
    BY CallPlace DEF CallAgrees
  <1>4. /\ b \in JobBody /\ b.kind = "EVALUATION" /\ b.exp = c
        /\ b.pc = "evaluating" /\ b.why = "none"
    <2>1. "EVALUATION" \in Words /\ "evaluating" \in Words /\ c \in Everyone \cup {Nobody}
      BY <1>3, WordFacts
    <2> QED
      BY <2>1, BodyFacts
  <1>5. s \in CallState /\ s.pc = "flushing" /\ s.gen = g
    BY <1>2, <1>3, FlushesFacts
  <1>6. q.status = "standing" /\ q.owed = WM!OpenJobs \cup {n} /\ q \in Promises
    BY <1>1, TypeFacts DEF Promises
  <1>7. phase # "closed"
    BY TypeFacts, Numbers DEF Admits
  <1> HIDE DEF n, b, s, q
  <1>8. NewBody(n, "EVALUATION", c) /\ OthersGoOn(n, "EVALUATION", c)
    BY <1>1, <1>4, TypeFacts DEF NewBody, OthersGoOn
  <1>9. /\ call' \in [Everyone -> CallState] /\ call'[c] = s
        /\ \A d \in Everyone : d # c => call'[d] = call[d]
    BY <1>1, <1>3, <1>5, TypeFacts
  <1>10. \A d \in Callbacks : call[d].pc = "submitted" => call'[d].pc = "submitted"
    BY <1>3, <1>9 DEF Everyone
  <1>11. /\ outcome' \in [Jobs -> Outcomes]
         /\ BodyInv' /\ SavedInv' /\ LessonInv' /\ DrainInv' /\ ClosedInv'
         /\ \A d : \A i \in Jobs : Evaluates(i, d) => Evaluates(i, d)'
         /\ \A i \in Jobs : i # n => job'[i].exp = job[i].exp
    BY <1>1, <1>3, <1>7, <1>8, <1>10, SubmitBodies
  <1>12. /\ promise' \in [1 .. MaxGens -> Promises] /\ promise'[g] = q
         /\ \A h \in 1 .. MaxGens : h # g => promise'[h] = promise[h]
    BY <1>1, <1>2, <1>6, TypeFacts
  <1>13. ReturnedRecords \subseteq Everyone /\ c \notin ReturnedRecords
    BY TypeFacts DEF ReturnedRecords
  <1>14. /\ asked' \in [1 .. MaxGens -> SUBSET Everyone] /\ asked'[g] = ReturnedRecords
         /\ \A h \in 1 .. MaxGens : h # g => asked'[h] = asked[h]
    BY <1>1, <1>2, <1>13, TypeFacts
  <1>15. TypesInv'
    BY <1>8, <1>9, <1>11, <1>12, <1>14 DEF LInv, TypesInv, NewBody
  <1>16. /\ \A i \in Jobs : i # n => outcome'[i] = outcome[i]
         /\ outcome'[n] = "open" /\ job'[n].exp = c
         /\ job'[n].kind = "EVALUATION"
    BY <1>1, <1>8, TypeFacts DEF NewBody
  <1>17. WM!OpenJobs' \subseteq WM!OpenJobs \cup {n} /\ WM!OpenJobs \subseteq Jobs
    BY <1>16, Numbers DEF WM!OpenJobs
  <1>18. CallInv'
    <2>1. ASSUME NEW d \in Callers, d # c PROVE CallAgrees(d)'
      <3>1. call'[d] = call[d]
        BY <1>9, <2>1 DEF Everyone
      <3>2. \A i \in Jobs : outcome[i] \notin {"none", "open", "FAILURE"}
                               => outcome'[i] \notin {"open", "FAILURE"}
        BY <1>1, <1>16
      <3>3. \A h \in 1 .. MaxGens :
               promise[h].status # "unmade" =>
                   /\ promise'[h].status # "unmade"
                   /\ promise[h].owed \subseteq promise'[h].owed
        BY <1>1, <1>12
      <3>4. \A i \in Jobs : Evaluates(i, d) => Evaluates(i, d)'
        BY <1>11
      <3> QED
        BY <3>1, <3>2, <3>3, <3>4, CallKept
    <2>2. CallAgrees(c)'
      <3>1. \E i \in promise'[g].owed : Evaluates(i, c)'
        BY <1>6, <1>12, <1>16 DEF Evaluates
      <3> QED
        BY <1>2, <1>5, <1>6, <1>9, <1>12, <3>1 DEF CallAgrees
    <2>3. \A d \in Callbacks : call'[d].pc \in {"start", "submitted", "rejected"}
      BY <1>3, <1>9 DEF LInv, CallInv, Everyone
    <2> QED
      BY <2>1, <2>2, <2>3 DEF CallInv
  <1>19. ASSUME NEW h \in 1 .. MaxGens PROVE PromiseAgrees(h)'
    <2>1. PromiseAgrees(h)
      BY DEF LInv, PromiseInv
    <2>2. CASE h = g
      <3>1. ASSUME NEW d \in asked'[g]
            PROVE  /\ d \in experiences' /\ call'[d].pc = "returned"
                   /\ \A j \in Jobs : job'[j].exp = d /\ outcome'[j] = "open" =>
                          j \in promise'[g].owed
        <4>1. d \in experiences /\ d \in Everyone /\ call[d].pc = "returned" /\ d # c
          BY <1>13, <1>14, <3>1, TypeFacts DEF ReturnedRecords
        <4> QED
          BY <1>6, <1>9, <1>12, <1>16, <4>1, TypeFacts
      <3>2. \A j \in promise'[g].owed : outcome'[j] # "none"
        BY <1>6, <1>12, <1>16, TypeFacts
      <3> QED
        BY <1>6, <1>12, <2>2, <3>1, <3>2 DEF PromiseAgrees
    <2>3. CASE h # g
      <3>1. promise'[h] = promise[h] /\ asked'[h] = asked[h] /\ asked[h] \subseteq Everyone
            /\ promise[h].owed \subseteq Jobs
        BY <1>12, <1>14, <2>3, TypeFacts DEF Promises
      <3>2. n \notin promise[h].owed
        BY <1>1, <2>1 DEF PromiseAgrees
      <3>3. \A d \in asked[h] : d # c /\ call'[d].pc = "returned"
        BY <1>9, <2>1, <3>1 DEF PromiseAgrees
      <3> QED
        BY <1>11, <1>16, <1>17, <2>1, <3>1, <3>2, <3>3 DEF PromiseAgrees
    <2> QED
      BY <2>2, <2>3
  <1> QED
    BY <1>11, <1>15, <1>18, <1>19 DEF LInv, PromiseInv

LEMMA RecordSubmitsKeeps ==
    ASSUME LInv, NEW c \in Callers, RecordSubmits(c)
    PROVE  LInv'
  <1>1. /\ call[c].pc = "saved" /\ c \in experiences
        /\ call[c] \in CallState /\ c \in Everyone /\ c \notin Callbacks
        /\ UNCHANGED <<config, policy, experiences, lessons, memories, store, aclose>>
        /\ memories' \subseteq Memory
    BY CallPlace DEF RecordSubmits, saved, CallAgrees
  <1>2. CASE CallGoes(c, "rejected") /\ UNCHANGED <<manager, job, asked>>
    <2> DEFINE s == To(call[c], "rejected")
    <2>1. s \in CallState /\ s.pc = "rejected"
      BY <1>1, CallToFacts, WordFacts
    <2>2. call' = [call EXCEPT ![c] = s] /\ UNCHANGED <<phase, outcome,
                                                        promise, job, asked>>
      BY <1>2 DEF CallGoes, manager
    <2> HIDE DEF s
    <2> QED
      BY <1>1, <2>1, <2>2, CallerGoes
  <1>3. CASE /\ Background /\ Submit(NoJob, "EVALUATION", c, "evaluating")
             /\ CallGoes(c, "returned") /\ UNCHANGED asked
    <2> DEFINE n == NextJob
               b == Body("EVALUATION", c, "evaluating")
               s == To(call[c], "returned")
    <2>1. /\ n \in Jobs /\ WM!Accept(n, NoJob) /\ job' = [job EXCEPT ![n] = b]
          /\ call' = [call EXCEPT ![c] = s]
      BY <1>3 DEF Submit, CallGoes
    <2>2. /\ b \in JobBody /\ b.kind = "EVALUATION" /\ b.exp = c
          /\ b.pc = "evaluating" /\ b.why = "none"
      <3>1. "EVALUATION" \in Words /\ "evaluating" \in Words /\ c \in Everyone \cup {Nobody}
        BY <1>1, WordFacts
      <3> QED
        BY <3>1, BodyFacts
    <2>3. s \in CallState /\ s.pc = "returned"
      BY <1>1, CallToFacts, WordFacts
    <2> HIDE DEF n, b, s
    <2>4. NewBody(n, "EVALUATION", c)
      BY <2>1, <2>2, TypeFacts DEF NewBody
    <2>5. OthersGoOn(n, "EVALUATION", c)
      BY <2>1, TypeFacts DEF OthersGoOn
    <2>6. /\ call' \in [Everyone -> CallState] /\ call'[c].pc = "returned"
          /\ \A d \in Everyone : d # c => call'[d] = call[d]
      BY <1>1, <2>1, <2>3, TypeFacts
    <2>7. (\E i \in Jobs : Evaluates(i, c)') /\ Background'
      BY <1>1, <1>3, <2>1, <2>4 DEF NewBody, Evaluates, Background
    <2>8. CallAgrees(c)'
      BY <2>6, <2>7 DEF CallAgrees
    <2>9. \A d \in Everyone : \/ call'[d] = call[d]
                              \/ /\ call[d].pc \notin {"submitted", "returned"}
                                 /\ d \in Callers => CallAgrees(d)'
                                 /\ d \in Callbacks => call'[d].pc = "submitted"
      BY <1>1, <2>6, <2>8
    <2> QED
      BY <1>1, <1>3, <2>1, <2>4, <2>5, <2>6, <2>9, JobAccepted
  <1>4. ASSUME NEW g \in CallerGens, Admits(NoJob), SubmitAndFlush(g, c),
               call' = [call EXCEPT ![c] = Flushes(@, g)]
        PROVE  LInv'
    BY <1>1, <1>4, SubmitAndFlushKeeps
  <1> QED
    BY <1>2, <1>3, <1>4 DEF RecordSubmits

LEMMA CallerStepKeeps ==
    ASSUME LInv, NEW c \in Callers, Record(c) \/ Remember(c) \/ CallerStep(c)
    PROVE  LInv'
  BY RecordKeeps, RememberKeeps, ExperienceSavedKeeps, CallerStoreFailsKeeps,
     RecordSubmitsKeeps, RecordEndsKeeps, RememberFindsKeeps, RememberStoresKeeps
     DEF CallerStep
-----------------------------------------------------------------------------
\* flush() or shutdown() is called: promise g is made for every open job.
LEMMA PromiseMade ==
    ASSUME LInv, NEW g \in 1 .. MaxGens, promise[g].status = "unmade",
           NEW q \in Promises, promise' = [promise EXCEPT ![g] = q],
           \/ q.status = "standing" /\ q.owed = WM!OpenJobs
           \/ q.status = "kept" /\ q.owed = promise[g].owed /\ WM!OpenJobs = {},
           asked' = asked \/ asked' = [asked EXCEPT ![g] = ReturnedRecords],
           UNCHANGED <<outcome, config, job, call, experiences, lessons,
                       memories>>,
           phase' = "open" \/ policy' = "DRAIN" => phase = "open" \/ policy = "DRAIN",
           ClosedInv'
    PROVE  LInv'
  <1>1. /\ promise' \in [1 .. MaxGens -> Promises] /\ promise'[g] = q
        /\ \A h \in 1 .. MaxGens : h # g => promise'[h] = promise[h]
    BY TypeFacts
  <1>2. ReturnedRecords \subseteq Everyone
    BY TypeFacts DEF ReturnedRecords
  <1>3. /\ asked' \in [1 .. MaxGens -> SUBSET Everyone]
        /\ asked'[g] \in {asked[g], ReturnedRecords}
        /\ \A h \in 1 .. MaxGens : h # g => asked'[h] = asked[h]
    BY <1>2, TypeFacts
  <1>4. WM!OpenJobs' = WM!OpenJobs
    BY DEF WM!OpenJobs
  <1>5. ASSUME NEW h \in 1 .. MaxGens PROVE PromiseAgrees(h)'
    <2>1. PromiseAgrees(h)
      BY DEF LInv, PromiseInv
    <2>2. CASE h = g
      <3>1. asked[g] = {}
        BY <2>1, <2>2 DEF PromiseAgrees
      <3>2. \A c \in asked'[g] : c \in experiences /\ call[c].pc = "returned"
        BY <1>3, <3>1 DEF ReturnedRecords
      <3>3. \A j \in promise'[g].owed : outcome[j] # "none"
        BY <1>1, <2>1, <2>2, TypeFacts DEF PromiseAgrees
      <3>4. /\ promise'[g].status # "unmade"
            /\ promise'[g].status = "kept" => WM!OpenJobs = {}
            /\ \A j \in Jobs : outcome[j] = "open" =>
                   promise'[g].status = "standing" /\ j \in promise'[g].owed
        BY <1>1, TypeFacts
      <3> QED
        BY <1>4, <2>2, <3>2, <3>3, <3>4 DEF PromiseAgrees
    <2>3. CASE h # g
      BY <1>1, <1>3, <1>4, <2>1, <2>3 DEF PromiseAgrees
    <2> QED
      BY <2>2, <2>3
  <1>6. \A h \in 1 .. MaxGens :
               promise[h].status # "unmade" =>
                      /\ promise'[h].status # "unmade"
                      /\ promise[h].owed \subseteq promise'[h].owed
    BY <1>1
  <1> QED
    BY <1>1, <1>3, <1>5, <1>6, PromisesMove

\* A flush or the shutdown ends, when nothing it owes is open.
LEMMA PromiseKept ==
    ASSUME LInv, NEW g,
           promise[g].owed \cap WM!OpenJobs = {},
           promise[g].status = "standing" \/ WM!OpenJobs = {},
           promise' = [promise EXCEPT ![g].status = "kept"],
           UNCHANGED <<outcome, config, job, call, experiences, lessons,
                       memories, asked>>,
           phase' = "open" \/ policy' = "DRAIN" => phase = "open" \/ policy = "DRAIN",
           ClosedInv'
    PROVE  LInv'
  <1>1. /\ promise' \in [1 .. MaxGens -> Promises]
        /\ g \in 1 .. MaxGens =>
               promise'[g].status = "kept" /\ promise'[g].owed = promise[g].owed
        /\ \A h \in 1 .. MaxGens : h # g => promise'[h] = promise[h]
    <2>1. promise \in [1 .. MaxGens -> Promises]
      BY TypeFacts
    <2>2. ASSUME NEW h \in 1 .. MaxGens
          PROVE  [promise[h] EXCEPT !.status = "kept"] \in Promises
      BY <2>1 DEF Promises
    <2>3. promise' \in [1 .. MaxGens -> Promises]
      BY <2>1, <2>2
    <2> QED
      BY <2>1, <2>3 DEF Promises
  <1>2. WM!OpenJobs' = WM!OpenJobs
    BY DEF WM!OpenJobs
  <1>3. ASSUME NEW h \in 1 .. MaxGens PROVE PromiseAgrees(h)'
    <2>1. PromiseAgrees(h)
      BY DEF LInv, PromiseInv
    <2>2. CASE h = g
      <3>1. \A c \in asked[g] : \A j \in Jobs : ~ (job[j].exp = c /\ outcome[j] = "open")
        BY <2>1, <2>2, TypeFacts DEF PromiseAgrees
      <3> QED
        BY <1>1, <1>2, <2>1, <2>2, <3>1 DEF PromiseAgrees
    <2>3. CASE h # g
      BY <1>1, <1>2, <2>1, <2>3 DEF PromiseAgrees
    <2> QED
      BY <2>2, <2>3
  <1>4. \A h \in 1 .. MaxGens :
               promise[h].status # "unmade" =>
                      /\ promise'[h].status # "unmade"
                      /\ promise[h].owed \subseteq promise'[h].owed
    BY <1>1
  <1>5. asked' \in [1 .. MaxGens -> SUBSET Everyone]
    BY TypeFacts
  <1> QED
    BY <1>1, <1>3, <1>4, <1>5, PromisesMove

LEMMA FlushKeeps ==
    ASSUME LInv, NEW g \in 1 .. MaxGens, Flush(g)
    PROVE  LInv'
  <1>1. /\ promise[g].status = "unmade"
        /\ asked' = [asked EXCEPT ![g] = ReturnedRecords]
        /\ UNCHANGED <<phase, outcome, config, policy, job, call, experiences,
                       lessons,
                       memories, store, aclose>>
    BY DEF Flush, WM!Make, saved
  <1>2. ClosedInv'
    BY <1>1 DEF LInv, ClosedInv, WM!OpenJobs
  <1>3. CASE promise' = [promise EXCEPT ![g] = [status |-> "standing", owed |-> WM!OpenJobs]]
    <2> DEFINE q == [status |-> "standing", owed |-> WM!OpenJobs]
    <2>1. q \in Promises /\ q.status = "standing" /\ q.owed = WM!OpenJobs
      BY TypeFacts DEF Promises
    <2>2. promise' = [promise EXCEPT ![g] = q]
      BY <1>3
    <2> HIDE DEF q
    <2> QED
      BY <1>1, <1>2, <2>1, <2>2, PromiseMade
  <1>4. CASE WM!OpenJobs = {} /\ promise' = [promise EXCEPT ![g].status = "kept"]
    <2> DEFINE q == [promise[g] EXCEPT !.status = "kept"]
    <2>1. q \in Promises /\ q.status = "kept" /\ q.owed = promise[g].owed
      BY TypeFacts DEF Promises
    <2>2. promise' = [promise EXCEPT ![g] = q]
      BY <1>4
    <2> HIDE DEF q
    <2> QED
      BY <1>1, <1>2, <1>4, <2>1, <2>2, PromiseMade
  <1> QED
    BY <1>3, <1>4 DEF Flush, WM!Make
LEMMA FlushEndsKeeps ==
    ASSUME LInv, NEW g \in 1 .. MaxGens, FlushEnds(g)
    PROVE  LInv'
  <1>1. /\ promise[g].status = "standing" /\ promise[g].owed \cap WM!OpenJobs = {}
        /\ promise' = [promise EXCEPT ![g].status = "kept"]
        /\ UNCHANGED <<phase, outcome, config, policy, job, call, experiences,
                       lessons,
                       memories, store, aclose, asked>>
    BY DEF FlushEnds, WM!Keep, WM!Keepable, saved
  <1>2. ClosedInv'
    BY <1>1 DEF LInv, ClosedInv, WM!OpenJobs
  <1> QED
    BY <1>1, <1>2, PromiseKept

LEMMA CloseBegins ==
    ASSUME LInv, WM!BeginClose(ShutdownGen),
           UNCHANGED <<config, job, call, experiences, lessons, memories,
                       store, asked>>,
           aclose' = aclose \/ aclose = "idle"
    PROVE  LInv'
  <1> DEFINE q == [status |-> "standing", owed |-> WM!OpenJobs]
  <1>1. q \in Promises /\ q.status = "standing" /\ q.owed = WM!OpenJobs
    BY TypeFacts DEF Promises
  <1>2. /\ promise' = [promise EXCEPT ![ShutdownGen] = q]
        /\ promise[ShutdownGen].status = "unmade" /\ ShutdownGen \in 1 .. MaxGens
        /\ phase = "open" /\ phase' = "closing" /\ UNCHANGED outcome
    BY Numbers DEF WM!BeginClose
  <1> HIDE DEF q
  <1>3. ClosedInv'
    BY <1>2 DEF LInv, ClosedInv, Interrupted
  <1> QED
    BY <1>1, <1>2, <1>3, PromiseMade

\* The end of a shutdown keeps the promise it made when it began.
LEMMA ShutdownEndsKeeps ==
    ASSUME LInv, ShutdownEnds
    PROVE  LInv'
  <1>1. /\ WM!OpenJobs = {} /\ phase = "closing" /\ phase' = "closed"
        /\ promise' = [promise EXCEPT ![closer].status = "kept"]
        /\ UNCHANGED <<outcome, config, policy, job, call, experiences, lessons,
                       memories, store, aclose, asked>>
    BY DEF ShutdownEnds, WM!EndClose, saved
  <1>2. ClosedInv'
    BY <1>1 DEF LInv, ClosedInv, WM!OpenJobs
  <1> DEFINE g == closer
  <1>3. /\ promise' = [promise EXCEPT ![g].status = "kept"]
        /\ promise[g].owed \cap WM!OpenJobs = {}
    BY <1>1
  <1> HIDE DEF g
  <1> QED
    BY <1>1, <1>2, <1>3, PromiseKept

LEMMA ShutdownKeeps ==
    ASSUME LInv, NEW pol, Shutdown(pol) \/ Aclose(pol)
    PROVE  LInv'
  <1>1. CASE WM!BeginClose(ShutdownGen)
    <2>1. /\ UNCHANGED <<config, job, call, experiences, lessons, memories, store,
                         asked>>
          /\ aclose' = aclose \/ aclose = "idle"
      BY DEF Shutdown, Aclose, saved
    <2> QED
      BY <1>1, <2>1, CloseBegins
  <1>2. CASE UNCHANGED <<manager, policy>> /\ Aclose(pol)
    <2>1. /\ UNCHANGED <<phase, outcome, promise, config, policy, job, call,
                         experiences, lessons, memories, store, asked>>
          /\ aclose = "idle"
      BY <1>2 DEF Aclose, saved, manager
    <2>2. ClosedInv' /\ (\A h \in 1 .. MaxGens : PromiseAgrees(h)')
      BY <2>1 DEF LInv, ClosedInv, Interrupted, PromiseInv, PromiseAgrees, WM!OpenJobs
    <2> QED
      BY <2>1, <2>2, TypeFacts, PromisesMove
  <1> QED
    BY <1>1, <1>2 DEF Shutdown, Aclose

\* aclose() closes the store: the shutdown it awaited left nothing open, or it
\* was interrupted.
LEMMA AcloseEndsKeeps ==
    ASSUME LInv, AcloseEnds \/ AcloseRefused \/ AcloseCancelled
    PROVE  LInv'
  <1>1. /\ phase = "closed" \/ aclose' \in Interrupted
        /\ UNCHANGED <<phase, outcome, promise, config, policy, job, call,
                       experiences, lessons,
                       memories, asked>>
    BY DEF AcloseEnds, AwaitedShutdown, AcloseRefused, AcloseCancelled,
           Interrupted, saved, manager
  <1>2. ClosedInv' /\ (\A h \in 1 .. MaxGens : PromiseAgrees(h)')
    BY <1>1 DEF LInv, ClosedInv, PromiseInv, PromiseAgrees, WM!OpenJobs
  <1> QED
    BY <1>1, <1>2, TypeFacts, PromisesMove

LEMMA NextKeeps ==
    ASSUME LInv, [Next]_lvars
    PROVE  LInv'
  <1>1. CASE UNCHANGED lvars
    <2>1. UNCHANGED <<phase, outcome, promise, config, policy, job, call,
                      experiences, lessons,
                      memories, store, aclose, asked>>
      BY <1>1 DEF lvars
    <2>2. ClosedInv' /\ (\A h \in 1 .. MaxGens : PromiseAgrees(h)')
      BY <2>1 DEF LInv, ClosedInv, PromiseInv, PromiseAgrees, WM!OpenJobs
    <2> QED
      BY <2>1, <2>2, TypeFacts, PromisesMove
  <1>2. ASSUME NEW c \in Callers \cap Users, Record(c) \/ Remember(c) \/ CallerStep(c)
        PROVE  LInv'
    BY <1>2, CallerStepKeeps
  <1>3. ASSUME NEW c \in Callbacks \cap Users, CallbackRecord(c) PROVE LInv'
    BY <1>3, CallbackRecordKeeps
  <1>4. ASSUME NEW j \in Jobs, JobStep(j) PROVE LInv'
    BY <1>4, JobStepKeeps
  <1>5. ASSUME NEW g \in AppGens, Flush(g) PROVE LInv'
    BY <1>5, FlushKeeps, Numbers
  <1>6. ASSUME NEW g \in 1 .. MaxGens, FlushEnds(g) PROVE LInv'
    BY <1>6, FlushEndsKeeps
  <1>7. ASSUME NEW pol \in config.policies, Shutdown(pol) \/ Aclose(pol) PROVE LInv'
    BY <1>7, ShutdownKeeps
  <1>8. CASE ShutdownEnds
    BY <1>8, ShutdownEndsKeeps
  <1>9. CASE AcloseEnds \/ AcloseRefused \/ AcloseCancelled
    BY <1>9, AcloseEndsKeeps
  <1> QED
    BY <1>1, <1>2, <1>3, <1>4, <1>5, <1>6, <1>7, <1>8, <1>9 DEF Next

LEMMA InitHolds ==
    ASSUME Init
    PROVE  LInv
  <1>1. /\ phase = "open" /\ outcome = [j \in Jobs |-> "none"]
        /\ promise = [g \in 1 .. MaxGens |-> WM!Unmade]
        /\ config \in Configs /\ job = [j \in Jobs |-> NoJobBody]
        /\ call = [c \in Everyone |->
                     [pc |-> "start", gen |-> 0, content |-> "none", vec |-> FALSE]]
        /\ experiences = {} /\ lessons = {} /\ memories = {} /\ store = "open"
        /\ asked = [g \in 1 .. MaxGens |-> {}]
    BY Numbers DEF Init, WM!Init, Everyone
  <1>2. /\ NoJobBody \in JobBody /\ NoJobBody.kind = "none" /\ NoJobBody.pc = "none"
        /\ NoJobBody.why = "none"
    <2>1. "none" \in Words /\ Nobody \in Everyone \cup {Nobody}
      BY WordFacts
    <2> QED
      BY <2>1, BodyFacts DEF NoJobBody
  <1>3. WM!Unmade \in Promises /\ WM!Unmade.status = "unmade" /\ WM!Unmade.owed = {}
    BY DEF WM!Unmade, Promises
  <1>4. \A c \in Everyone : call[c] \in CallState /\ call[c].pc = "start"
    BY <1>1, WordFacts DEF CallState, Said
  <1>5. TypesInv
    BY <1>1, <1>2, <1>3, <1>4 DEF TypesInv, Outcomes
  <1>6. BodyInv /\ SavedInv /\ LessonInv /\ DrainInv /\ ClosedInv
    BY <1>1, <1>2 DEF BodyInv, SavedInv, LessonInv, DrainInv, ClosedInv, At
  <1>7. CallInv
    BY <1>1, <1>4 DEF CallInv, CallAgrees, Everyone
  <1>8. PromiseInv
    BY <1>1, <1>3 DEF PromiseInv, PromiseAgrees
  <1> QED
    BY <1>5, <1>6, <1>7, <1>8 DEF LInv

LEMMA InvHolds == Spec => []LInv
  <1>1. Init => LInv
    BY InitHolds
  <1>2. LInv /\ [Next]_lvars => LInv'
    BY NextKeeps
  <1> QED
    BY <1>1, <1>2, PTL DEF Spec
-----------------------------------------------------------------------------
\* No job evaluates or embeds, and no lesson tells of, an experience that is
\* not saved, whatever fails and whenever it fails (_record).
THEOREM EvaluatedAfterSaved == Spec => []PersistedFirst
  <1>1. LInv => PersistedFirst
    BY DEF LInv, SavedInv, LessonInv, PersistedFirst
  <1> QED
    BY <1>1, InvHolds, PTL

\* A saved lesson always has a memory that says the same, although two
\* transactions may save it (_evaluate_and_remember).
THEOREM LessonsHaveMemories == Spec => []LessonsAreRemembered
  <1>1. LInv => LessonsAreRemembered
    BY DEF LInv, LessonInv, Remembered, RememberedIn, LessonsAreRemembered
  <1> QED
    BY <1>1, InvHolds, PTL

\* A flush that ends leaves no job open about an experience whose record() had
\* returned before the call, those submitted meanwhile included; and record()
\* in the foreground returns with its evaluation over (flush, _record).
THEOREM FlushedIsEvaluated == Spec => []FlushMeansEvaluated
  <1>1. ASSUME LInv PROVE FlushMeansEvaluated
    <2>1. ASSUME NEW g \in 1 .. MaxGens, promise[g].status = "kept",
                 NEW c \in asked[g]
          PROVE  /\ \E j \in Jobs : Evaluates(j, c)
                 /\ \A j \in Jobs : job[j].exp = c => outcome[j] # "open"
      <3>1. c \in experiences /\ call[c].pc = "returned" /\ c \in Everyone
        BY <1>1, <2>1, TypeFacts DEF LInv, PromiseInv, PromiseAgrees
      <3>2. c \in Callers
        BY <1>1, <3>1 DEF LInv, CallInv, Everyone
      <3>3. \E j \in Jobs : Evaluates(j, c)
        BY <1>1, <3>1, <3>2 DEF LInv, CallInv, CallAgrees
      <3>4. \A j \in Jobs : job[j].exp = c => outcome[j] # "open"
        BY <1>1, <2>1 DEF LInv, PromiseInv, PromiseAgrees
      <3> QED
        BY <3>3, <3>4
    <2>2. FlushCovers
      BY <2>1 DEF FlushCovers
    <2>3. ForegroundCovers
      BY <1>1 DEF LInv, CallInv, CallAgrees, ForegroundCovers, ReturnedRecords
    <2> QED
      BY <2>2, <2>3 DEF FlushMeansEvaluated
  <1> QED
    BY <1>1, InvHolds, PTL

\* A drain refuses none of its own jobs, and when it ends the records accepted
\* from callbacks have been evaluated (submit, _submit_callback_record).
THEOREM DrainsFinishRecords == Spec => []DrainFinishesRecords
  <1>1. ASSUME LInv PROVE DrainFinishesRecords
    <2>1. ASSUME policy = "DRAIN" PROVE \A j \in Jobs : job[j].why # "lifecycle"
      BY <1>1, <2>1 DEF LInv, DrainInv
    <2>2. ASSUME phase = "closed", NEW j \in Jobs,
                 job[j].kind = "RECORD", outcome[j] = "SUCCESS"
          PROVE  \E i \in Jobs : Evaluates(i, job[j].exp) /\ outcome[i] # "open"
      <3>1. Evaluated(job[j].exp)
        BY <1>1, <2>2 DEF LInv, DrainInv
      <3>2. \A i \in Jobs : outcome[i] # "open"
        BY <1>1, <2>2, TypeFacts DEF LInv, ClosedInv
      <3> QED
        BY <3>1, <3>2 DEF Evaluated
    <2> QED
      BY <2>1, <2>2 DEF DrainFinishesRecords
  <1> QED
    BY <1>1, InvHolds, PTL

\* No job is open once aclose() has closed the store, whoever began the shutdown
\* that it awaited, whatever fails; unless it was interrupted before that
\* shutdown was over (aclose).
THEOREM StoreClosesLast == Spec => []StoreOutlivesJobs
  <1>1. LInv => StoreOutlivesJobs
    BY DEF LInv, ClosedInv, StoreOutlivesJobs
  <1> QED
    BY <1>1, InvHolds, PTL
=============================================================================
