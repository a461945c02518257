-------------------------- MODULE LangChainProofs --------------------------
(***************************************************************************)
(* Proofs about LangChain for every set of chains and tools, every number  *)
(* of registrations, both callback modes and every order of callbacks.     *)
(*                                                                         *)
(* RegistryConsistent needs that a tool that finished has a result, for    *)
(* the guard on results is what keeps it from finishing twice              *)
(* (ChainAgrees).  ToldTruthfully needs where each registration is in its  *)
(* life: those that have not begun and the one in the registry are         *)
(* untouched (FreshRuns), and of the others nothing is told before their   *)
(* record has ended (TellsOnce).                                           *)
(***************************************************************************)
EXTENDS LangChain, SequenceTheorems, TLAPS

Results == Texts \cup {"none"}
ChainState == [live : BOOLEAN, task : Results, order : Seq(Tools),
               completed : Seq(Tools), results : [Tools -> Results]]

RegistryTypes ==
    /\ active \in [Chains -> ChainState]
    /\ parent \in [Tools -> Chains \cup {NoChain}]

\* The state r of a chain c agrees with the parents p; what has finished has
\* a result.
ChainAgrees(c, r, p) ==
    /\ \A t \in Tools : (\E i \in DOMAIN r.order : r.order[i] = t) <=> p[t] = c
    /\ \A i \in DOMAIN r.completed :
          /\ p[r.completed[i]] = c
          /\ r.results[r.completed[i]] # "none"
    /\ \A i, j \in DOMAIN r.completed : r.completed[i] = r.completed[j] => i = j

RegistryInv ==
    /\ RegistryTypes
    /\ \A t \in Tools : parent[t] # NoChain => active[parent[t]].live
    /\ \A c \in Chains : ChainAgrees(c, active[c], parent)
-----------------------------------------------------------------------------
\* The invariant, stated chain by chain, is what the registry promises.
LEMMA RegistryInvImplies == RegistryInv => RegistryConsistent
  <1> SUFFICES ASSUME RegistryInv PROVE RegistryConsistent
    OBVIOUS
  <1>1. ASSUME NEW c \in Chains
        PROVE  /\ active[c].order \in Seq(Tools) /\ active[c].completed \in Seq(Tools)
               /\ \A i \in DOMAIN active[c].completed : active[c].completed[i] \in Tools
    BY ElementOfSeq, LenProperties DEF RegistryInv, RegistryTypes, ChainState
  <1>2. ASSUME NEW c \in Chains, NEW t \in Tools
        PROVE  t \in InOrder(c) <=> \E i \in DOMAIN active[c].order : active[c].order[i] = t
    BY DEF InOrder
  <1>3. ASSUME NEW t \in Tools
        PROVE  parent[t] \in {NoChain} \cup {c \in Chains : active[c].live}
    BY DEF RegistryInv, RegistryTypes
  <1> QED
    BY <1>1, <1>2, <1>3 DEF RegistryInv, RegistryConsistent, ChainAgrees

\* A state in which a tool has been started.
LEMMA StartedState ==
    ASSUME NEW r \in ChainState, NEW t \in Tools
    PROVE  /\ Started(r, t) \in ChainState
           /\ Started(r, t).live = r.live
           /\ Started(r, t).order = Append(r.order, t)
           /\ Started(r, t).completed = r.completed
           /\ Started(r, t).results = [r.results EXCEPT ![t] = "none"]
  <1> DEFINE o == Append(r.order, t)
             f == [r.results EXCEPT ![t] = "none"]
  <1>1. r.order \in Seq(Tools) /\ r.results \in [Tools -> Results]
    BY DEF ChainState
  <1>2. o \in Seq(Tools)
    BY <1>1, AppendProperties
  <1>3. f \in [Tools -> Results]
    BY <1>1 DEF Results
  <1>4. Started(r, t) = [r EXCEPT !.order = o, !.results = f]
    BY DEF Started
  <1> HIDE DEF o, f
  <1>5. /\ Started(r, t) \in ChainState
        /\ Started(r, t).live = r.live
        /\ Started(r, t).order = o
        /\ Started(r, t).completed = r.completed
        /\ Started(r, t).results = f
    BY <1>2, <1>3, <1>4 DEF ChainState
  <1> QED
    BY <1>5 DEF o, f

\* A state in which a tool has been completed.
LEMMA CompletedState ==
    ASSUME NEW r \in ChainState, NEW t \in Tools, NEW result \in Texts
    PROVE  /\ Completed(r, t, result) \in ChainState
           /\ Completed(r, t, result).live = r.live
           /\ Completed(r, t, result).order = r.order
           /\ Completed(r, t, result).completed = Append(r.completed, t)
           /\ Completed(r, t, result).results = [r.results EXCEPT ![t] = result]
  <1> DEFINE o == Append(r.completed, t)
             f == [r.results EXCEPT ![t] = result]
  <1>1. r.completed \in Seq(Tools) /\ r.results \in [Tools -> Results]
    BY DEF ChainState
  <1>2. o \in Seq(Tools)
    BY <1>1, AppendProperties
  <1>3. f \in [Tools -> Results]
    BY <1>1 DEF Results
  <1>4. Completed(r, t, result) = [r EXCEPT !.completed = o, !.results = f]
    BY DEF Completed
  <1> HIDE DEF o, f
  <1>5. /\ Completed(r, t, result) \in ChainState
        /\ Completed(r, t, result).live = r.live
        /\ Completed(r, t, result).order = r.order
        /\ Completed(r, t, result).completed = o
        /\ Completed(r, t, result).results = f
    BY <1>2, <1>3, <1>4 DEF ChainState
  <1> QED
    BY <1>5 DEF o, f

\* Neither ends the chain.
LEMMA StillLive ==
    ASSUME NEW r \in ChainState, NEW t \in Tools, NEW result \in Texts
    PROVE  Started(r, t).live = r.live /\ Completed(r, t, result).live = r.live
  <1>1. Started(r, t).live = r.live
    BY DEF Started, ChainState
  <1>2. Completed(r, t, result).live = r.live
    BY DEF Completed, ChainState
  <1> QED
    BY <1>1, <1>2
-----------------------------------------------------------------------------
\* What an action on chain c leaves to show: that c agrees.
LEMMA OneChainChanges ==
    ASSUME RegistryInv, NEW c \in Chains, NEW r \in ChainState,
           active' = [active EXCEPT ![c] = r],
           parent' \in [Tools -> Chains \cup {NoChain}],
           \A t \in Tools : parent'[t] # parent[t] =>
               parent[t] \in {NoChain, c} /\ parent'[t] \in {NoChain, c},
           (\E t \in Tools : parent'[t] = c) => r.live,
           ChainAgrees(c, r, parent')
    PROVE  RegistryInv'
  <1>1. active \in [Chains -> ChainState]
    BY DEF RegistryInv, RegistryTypes
  <1>2. active'[c] = r /\ \A d \in Chains : d # c => active'[d] = active[d]
    BY <1>1
  <1>3. RegistryTypes'
    BY <1>1 DEF RegistryTypes
  <1>4. ASSUME NEW t \in Tools, parent'[t] # NoChain
        PROVE  active'[parent'[t]].live
    <2>1. CASE parent'[t] = c
      BY <1>2, <2>1
    <2>2. CASE parent'[t] # c
      <3>1. parent'[t] = parent[t] /\ parent[t] \in Chains
        BY <1>4, <2>2 DEF RegistryInv, RegistryTypes
      <3>2. active[parent[t]].live
        BY <1>4, <3>1 DEF RegistryInv
      <3> QED
        BY <1>2, <2>2, <3>1, <3>2
    <2> QED
      BY <2>1, <2>2
  <1>5. ASSUME NEW d \in Chains
        PROVE  ChainAgrees(d, active'[d], parent')
    <2>1. CASE d = c
      BY <1>2, <2>1
    <2>2. CASE d # c
      <3>1. ChainAgrees(d, active[d], parent) /\ active'[d] = active[d]
        BY <1>2, <2>2 DEF RegistryInv
      <3>2. \A t \in Tools : parent'[t] = d <=> parent[t] = d
        BY <2>2, ChainNames DEF ChainNames
      <3>3. \A i \in DOMAIN active[d].completed : active[d].completed[i] \in Tools
        BY <1>1, ElementOfSeq, LenProperties DEF ChainState
      <3> QED
        BY <3>1, <3>2, <3>3 DEF ChainAgrees
    <2> QED
      BY <2>1, <2>2
  <1> QED
    BY <1>3, <1>4, <1>5 DEF RegistryInv
-----------------------------------------------------------------------------
\* The state of a run id that is not registered has no tools.
LEMMA AbsentState ==
    /\ Absent \in ChainState
    /\ Absent.order = <<>> /\ Absent.completed = <<>> /\ ~ Absent.live
  BY DEF Absent, ChainState, Results

LEMMA RegistryInitially == Init => RegistryInv
  <1> SUFFICES ASSUME Init PROVE RegistryInv
    OBVIOUS
  <1>1. RegistryTypes
    BY AbsentState DEF Init, RegistryTypes
  <1>2. ASSUME NEW c \in Chains
        PROVE  ChainAgrees(c, active[c], parent)
    BY AbsentState, ChainNames DEF Init, ChainAgrees, ChainNames
  <1> QED
    BY <1>1, <1>2 DEF Init, RegistryInv

LEMMA ChainStartKeeps ==
    ASSUME RegistryInv, NEW c \in Chains, NEW task \in Texts, ChainStart(c, task)
    PROVE  RegistryInv'
  <1> DEFINE r == [Absent EXCEPT !.live = TRUE, !.task = task]
  <1>1. /\ r \in ChainState
        /\ r.order = <<>> /\ r.completed = <<>> /\ r.live
    BY AbsentState DEF ChainState, Results
  <1>2. active' = [active EXCEPT ![c] = r] /\ parent' = parent
    BY DEF ChainStart
  <1>3. \A t \in Tools : parent[t] # c
    BY ChainNames DEF ChainStart, RegistryInv, ChainNames
  <1>4. ChainAgrees(c, r, parent')
    BY <1>1, <1>2, <1>3 DEF ChainAgrees
  <1>5. parent' \in [Tools -> Chains \cup {NoChain}]
    BY <1>2 DEF RegistryInv, RegistryTypes
  <1> HIDE DEF r
  <1> QED
    BY <1>1, <1>2, <1>3, <1>4, <1>5, OneChainChanges

LEMMA ToolStartKeeps ==
    ASSUME RegistryInv, NEW c \in Chains, NEW t \in Tools, ToolStart(t, c)
    PROVE  RegistryInv'
  <1> DEFINE r == Started(active[c], t)
  <1>1. active[c] \in ChainState /\ parent \in [Tools -> Chains \cup {NoChain}]
    BY DEF RegistryInv, RegistryTypes
  <1>2. /\ r \in ChainState /\ r.live = active[c].live
        /\ r.order = Append(active[c].order, t)
        /\ r.completed = active[c].completed
        /\ r.results = [active[c].results EXCEPT ![t] = "none"]
    BY <1>1, StartedState
  <1>3. /\ active' = [active EXCEPT ![c] = r]
        /\ parent' = [parent EXCEPT ![t] = c]
        /\ active[c].live /\ parent[t] = NoChain
    BY DEF ToolStart, FreshTool
  <1>4. /\ active[c].order \in Seq(Tools) /\ active[c].completed \in Seq(Tools)
        /\ active[c].results \in [Tools -> Results]
    BY <1>1 DEF ChainState
  <1>5. ChainAgrees(c, active[c], parent)
    BY DEF RegistryInv
  <1> HIDE DEF r
  <1>6. ASSUME NEW u \in Tools
        PROVE  (\E i \in DOMAIN r.order : r.order[i] = u) <=> parent'[u] = c
    <2>1. (\E i \in DOMAIN r.order : r.order[i] = u)
             <=> u = t \/ (\E i \in DOMAIN active[c].order : active[c].order[i] = u)
      <3> DEFINE o == active[c].order
      <3>1. /\ DOMAIN r.order = 1 .. Len(o) + 1 /\ DOMAIN o = 1 .. Len(o)
            /\ r.order[Len(o) + 1] = t
            /\ \A i \in 1 .. Len(o) : r.order[i] = o[i]
            /\ Len(o) \in Nat
        BY <1>2, <1>4, AppendProperties, LenProperties
      <3> HIDE DEF o
      <3>2. (\E i \in DOMAIN r.order : r.order[i] = u)
              <=> u = t \/ (\E i \in DOMAIN o : o[i] = u)
        BY <3>1
      <3> QED
        BY <3>2 DEF o
    <2> QED
      BY <1>1, <1>3, <1>5, <2>1 DEF ChainAgrees
  <1>7. ASSUME NEW i \in DOMAIN r.completed
        PROVE  parent'[r.completed[i]] = c /\ r.results[r.completed[i]] # "none"
    <2>1. /\ r.completed[i] \in Tools /\ parent[r.completed[i]] = c
          /\ active[c].results[r.completed[i]] # "none"
      BY <1>2, <1>4, <1>5, ElementOfSeq, LenProperties DEF ChainAgrees
    <2>2. r.completed[i] # t
      BY <1>3, <2>1, ChainNames DEF ChainNames
    <2> QED
      BY <1>1, <1>2, <1>3, <1>4, <2>1, <2>2
  <1>8. ChainAgrees(c, r, parent')
    BY <1>2, <1>5, <1>6, <1>7 DEF ChainAgrees
  <1> QED
    BY <1>1, <1>2, <1>3, <1>8, OneChainChanges

LEMMA ToolFinishKeeps ==
    ASSUME RegistryInv, NEW c \in Chains, NEW t \in Tools, NEW result \in Texts,
           ToolFinish(t, c, result)
    PROVE  RegistryInv'
  <1> DEFINE r == Completed(active[c], t, result)
  <1>1. active[c] \in ChainState /\ parent \in [Tools -> Chains \cup {NoChain}]
    BY DEF RegistryInv, RegistryTypes
  <1>2. /\ r \in ChainState /\ r.live = active[c].live
        /\ r.order = active[c].order
        /\ r.completed = Append(active[c].completed, t)
        /\ r.results = [active[c].results EXCEPT ![t] = result]
    BY <1>1, CompletedState
  <1>3. /\ active' = [active EXCEPT ![c] = r] /\ parent' = parent
        /\ active[c].live /\ parent[t] = c /\ active[c].results[t] = "none"
    BY DEF ToolFinish, Unfinished
  <1>4. /\ active[c].completed \in Seq(Tools)
        /\ active[c].results \in [Tools -> Results]
        /\ result # "none"
    BY <1>1, LangChainSwitches DEF ChainState, LangChainSwitches
  <1>5. ChainAgrees(c, active[c], parent)
    BY DEF RegistryInv
  <1> HIDE DEF r
  <1> DEFINE done == active[c].completed
  <1>6. /\ DOMAIN r.completed = 1 .. Len(done) + 1 /\ DOMAIN done = 1 .. Len(done)
        /\ r.completed[Len(done) + 1] = t
        /\ \A i \in 1 .. Len(done) : r.completed[i] = done[i]
        /\ Len(done) \in Nat
    BY <1>2, <1>4, AppendProperties, LenProperties
  <1>7. \A i \in 1 .. Len(done) : done[i] \in Tools /\ done[i] # t
    BY <1>3, <1>4, <1>5, <1>6, ElementOfSeq DEF ChainAgrees
  <1>8. ASSUME NEW i \in DOMAIN r.completed
        PROVE  parent'[r.completed[i]] = c /\ r.results[r.completed[i]] # "none"
    <2>1. CASE i = Len(done) + 1
      BY <1>2, <1>3, <1>4, <1>6, <2>1
    <2>2. CASE i # Len(done) + 1
      <3>1. i \in 1 .. Len(done) /\ r.completed[i] = done[i]
        BY <1>6, <2>2
      <3> QED
        BY <1>2, <1>3, <1>4, <1>5, <1>6, <1>7, <3>1 DEF ChainAgrees
    <2> QED
      BY <2>1, <2>2
  <1>9. ASSUME NEW i \in DOMAIN r.completed, NEW j \in DOMAIN r.completed,
               r.completed[i] = r.completed[j]
        PROVE  i = j
    <2>1. \A k, l \in 1 .. Len(done) : done[k] = done[l] => k = l
      BY <1>5, <1>6 DEF ChainAgrees
    <2>2. i \in 1 .. Len(done) + 1 /\ j \in 1 .. Len(done) + 1
      BY <1>6, <1>9
    <2>3. r.completed[i] = r.completed[j]
      BY <1>9
    <2> DEFINE n == Len(done)
    <2>4. /\ r.completed[n + 1] = t
          /\ \A k \in 1 .. n : r.completed[k] = done[k] /\ done[k] # t
      BY <1>6, <1>7
    <2>5. n \in Nat /\ i \in 1 .. n + 1 /\ j \in 1 .. n + 1
      BY <1>6, <2>2
    <2>6. \A k, l \in 1 .. n : done[k] = done[l] => k = l
      BY <2>1
    <2> HIDE DEF done, n
    <2>7. CASE i \in 1 .. n /\ j \in 1 .. n
      <3>1. r.completed[i] = done[i] /\ r.completed[j] = done[j]
        BY <2>4, <2>7
      <3> QED
        BY <2>3, <2>6, <2>7, <3>1
    <2>8. ASSUME i \in 1 .. n, j = n + 1
          PROVE  FALSE
      <3>1. r.completed[i] # t
        BY <2>4, <2>8
      <3> QED
        BY <2>3, <2>4, <2>8, <3>1
    <2>9. ASSUME i = n + 1, j \in 1 .. n
          PROVE  FALSE
      <3>1. r.completed[j] # t
        BY <2>4, <2>9
      <3> QED
        BY <2>3, <2>4, <2>9, <3>1
    <2>10. (i \in 1 .. n \/ i = n + 1) /\ (j \in 1 .. n \/ j = n + 1)
      BY <2>5
    <2> QED
      BY <2>7, <2>8, <2>9, <2>10, Zenon
  <1>10. ChainAgrees(c, r, parent')
    <2>1. \A u \in Tools : (\E i \in DOMAIN r.order : r.order[i] = u) <=> parent'[u] = c
      BY <1>2, <1>3, <1>5 DEF ChainAgrees
    <2>2. \A i \in DOMAIN r.completed :
             parent'[r.completed[i]] = c /\ r.results[r.completed[i]] # "none"
      BY <1>8
    <2>3. \A i, j \in DOMAIN r.completed : r.completed[i] = r.completed[j] => i = j
      BY <1>9
    <2> QED
      BY <2>1, <2>2, <2>3, Zenon DEF ChainAgrees
  <1> QED
    BY <1>1, <1>2, <1>3, <1>10, OneChainChanges

LEMMA ChainEndKeeps ==
    ASSUME RegistryInv, NEW c \in Chains, ChainEnd(c)
    PROVE  RegistryInv'
  <1>1. active' = [active EXCEPT ![c] = Absent] /\ parent' = Released(c)
    BY DEF ChainEnd, Consumed
  <1>2. parent \in [Tools -> Chains \cup {NoChain}]
    BY DEF RegistryInv, RegistryTypes
  <1>3. /\ parent' \in [Tools -> Chains \cup {NoChain}]
        /\ \A t \in Tools : parent'[t] = IF parent[t] = c THEN NoChain ELSE parent[t]
    BY <1>1, <1>2 DEF Released
  <1>4. \A t \in Tools : parent'[t] # c
    BY <1>3, ChainNames DEF ChainNames
  <1>5. ChainAgrees(c, Absent, parent')
    BY <1>4, AbsentState DEF ChainAgrees
  <1> QED
    BY <1>1, <1>3, <1>4, <1>5, AbsentState, OneChainChanges

LEMMA RegistryStep == RegistryInv /\ [Next]_lcvars => RegistryInv'
  <1> SUFFICES ASSUME RegistryInv, [Next]_lcvars PROVE RegistryInv'
    OBVIOUS
  <1>1. ASSUME UNCHANGED <<active, parent>>
        PROVE  RegistryInv'
    BY <1>1 DEF RegistryInv, RegistryTypes
  <1>2. ASSUME NEW c \in Chains, NEW task \in Texts, ChainStart(c, task)
        PROVE  RegistryInv'
    BY <1>2, ChainStartKeeps
  <1>3. ASSUME NEW c \in Chains, NEW t \in Tools, ToolStart(t, c)
        PROVE  RegistryInv'
    BY <1>3, ToolStartKeeps
  <1>4. ASSUME NEW c \in Chains, NEW t \in Tools, NEW r \in Texts, ToolFinish(t, c, r)
        PROVE  RegistryInv'
    BY <1>4, ToolFinishKeeps
  <1>5. ASSUME NEW c \in Chains, ChainEnd(c)
        PROVE  RegistryInv'
    BY <1>5, ChainEndKeeps
  <1>6. ASSUME NEW k \in Runs, RecordStep(k)
        PROVE  RegistryInv'
    BY <1>1, <1>6 DEF RecordStep, Saved, SaveFails, Recorded, RecordCancelled
  <1>7. ASSUME NEW pol \in Policies, Shutdown(pol)
        PROVE  RegistryInv'
    BY <1>1, <1>7 DEF Shutdown
  <1>8. CASE ShutdownEnds
    BY <1>1, <1>8 DEF ShutdownEnds
  <1>9. CASE UNCHANGED lcvars
    BY <1>1, <1>9 DEF lcvars
  <1> QED
    BY <1>2, <1>3, <1>4, <1>5, <1>6, <1>7, <1>8, <1>9 DEF Next

\* Whatever order the callbacks come in, however often and for however many
\* runs, the registry's two maps agree: a tool belongs to the one registered
\* chain that lists it and has finished at most once (LangChainRunRegistry).
THEOREM RegistryStaysConsistent == Spec => []RegistryConsistent
  <1>1. Spec => []RegistryInv
    BY RegistryInitially, RegistryStep, PTL DEF Spec
  <1> QED
    BY <1>1, RegistryInvImplies, PTL
-----------------------------------------------------------------------------
Stages == {"none", "saving", "saved", "recorded", "failed", "rejected", "cancelled"}
Tales == {<<>>, <<"RECORDED">>, <<"FAILED">>, <<"NO_EXPERIENCE">>}

\* A registration that has not begun, or whose chain is in the registry.
FreshRun(k) ==
    \/ k[2] > starts[k[1]]
    \/ active[k[1]].live /\ k[2] = starts[k[1]]

\* Callbacks and the Learner have not touched it yet.
FreshRuns ==
    \A k \in Runs : FreshRun(k) => record[k] = "none" /\ told[k] = <<>>

\* Nothing is told while the Learner works on a record.
TellsOnce ==
    \A k \in Runs :
        /\ record[k] \in {"saving", "saved"} => told[k] = <<>>
        /\ record[k] = "saved" => k \in saved
        /\ told[k] = <<"RECORDED">> => k \in saved

ToldInv ==
    /\ starts \in [Chains -> Nat]
    /\ record \in [Runs -> Stages]
    /\ told \in [Runs -> Tales]
    /\ FreshRuns
    /\ TellsOnce

\* What an action on run k leaves to show: that no run becomes fresh again.
LEMMA OneRunChanges ==
    ASSUME ToldInv, NEW k \in Runs, NEW stage \in Stages, NEW tale \in Tales,
           record' = [record EXCEPT ![k] = stage],
           told' = [told EXCEPT ![k] = tale],
           saved \subseteq saved',
           starts' = starts,
           \A j \in Runs : FreshRun(j)' => FreshRun(j) /\ j # k,
           stage \in {"saving", "saved"} => tale = <<>>,
           stage = "saved" => k \in saved',
           tale = <<"RECORDED">> => k \in saved'
    PROVE  ToldInv'
  <1>1. /\ record' \in [Runs -> Stages] /\ told' \in [Runs -> Tales]
        /\ record'[k] = stage /\ told'[k] = tale
        /\ \A j \in Runs : j # k => record'[j] = record[j] /\ told'[j] = told[j]
    BY DEF ToldInv
  <1>2. FreshRuns'
    BY <1>1 DEF ToldInv, FreshRuns
  <1>3. TellsOnce'
    BY <1>1 DEF ToldInv, TellsOnce
  <1> QED
    BY <1>1, <1>2, <1>3 DEF ToldInv

\* A callback that tells nothing and makes no record.
LEMMA NoRunChanges ==
    ASSUME ToldInv, UNCHANGED <<record, told, saved>>,
           starts' \in [Chains -> Nat],
           \A j \in Runs : FreshRun(j)' => FreshRun(j)
    PROVE  ToldInv'
  BY DEF ToldInv, FreshRuns, TellsOnce

LEMMA ToldInitially == Init => ToldInv
  <1> SUFFICES ASSUME Init PROVE ToldInv
    OBVIOUS
  <1> QED
    BY DEF Init, ToldInv, FreshRuns, TellsOnce, Stages, Tales

LEMMA ToldChainStart ==
    ASSUME ToldInv, RegistryTypes, NEW c \in Chains, NEW task \in Texts,
           ChainStart(c, task)
    PROVE  ToldInv'
  <1>1. /\ starts' \in [Chains -> Nat]
        /\ starts'[c] = starts[c] + 1
        /\ \A d \in Chains : d # c => starts'[d] = starts[d] /\ active'[d] = active[d]
        /\ starts[c] \in Nat
    BY DEF ChainStart, ToldInv, RegistryTypes
  <1>2. ASSUME NEW j \in Runs, FreshRun(j)'
        PROVE  FreshRun(j)
    <2>1. j[1] \in Chains /\ j[2] \in Nat
      BY DEF Runs
    <2>2. CASE j[1] = c
      BY <1>1, <1>2, <2>1, <2>2 DEF FreshRun
    <2>3. CASE j[1] # c
      BY <1>1, <1>2, <2>1, <2>3 DEF FreshRun
    <2> QED
      BY <2>2, <2>3
  <1> QED
    BY <1>1, <1>2, NoRunChanges DEF ChainStart

LEMMA ToldTool ==
    ASSUME ToldInv, RegistryTypes, NEW c \in Chains, NEW t \in Tools,
           ToolStart(t, c) \/ \E r \in Texts : ToolFinish(t, c, r)
    PROVE  ToldInv'
  <1>1. active[c] \in ChainState
    BY DEF RegistryTypes
  <1>2. \E s : active' = [active EXCEPT ![c] = s] /\ s.live = active[c].live
    <2>1. CASE ToolStart(t, c)
      <3>1. active' = [active EXCEPT ![c] = Started(active[c], t)]
        BY <2>1 DEF ToolStart
      <3>2. Started(active[c], t).live = active[c].live
        BY <1>1, StartedState
      <3> WITNESS Started(active[c], t)
      <3> QED
        BY <3>1, <3>2
    <2>2. ASSUME NEW r \in Texts, ToolFinish(t, c, r)
          PROVE  \E s : active' = [active EXCEPT ![c] = s] /\ s.live = active[c].live
      <3>1. active' = [active EXCEPT ![c] = Completed(active[c], t, r)]
        BY <2>2 DEF ToolFinish
      <3>2. Completed(active[c], t, r).live = active[c].live
        BY <1>1, StillLive
      <3> WITNESS Completed(active[c], t, r)
      <3> QED
        BY <3>1, <3>2
    <2> QED
      BY <2>1, <2>2
  <1>3. UNCHANGED <<starts, record, told, saved>>
    BY DEF ToolStart, ToolFinish
  <1>4. \A d \in Chains : active'[d].live = active[d].live
    <2>1. PICK s : active' = [active EXCEPT ![c] = s] /\ s.live = active[c].live
      BY <1>2
    <2>2. active \in [Chains -> ChainState]
      BY DEF RegistryTypes
    <2> QED
      BY <2>1, <2>2
  <1>5. \A j \in Runs : FreshRun(j)' => FreshRun(j)
    BY <1>3, <1>4 DEF FreshRun, Runs
  <1> QED
    BY <1>3, <1>5, NoRunChanges DEF ToldInv

LEMMA ToldChainEnd ==
    ASSUME ToldInv, RegistryTypes, NEW c \in Chains, ChainEnd(c)
    PROVE  ToldInv'
  <1> DEFINE k == RunOf(c)
  <1>1. /\ active[c].live /\ starts' = starts /\ saved' = saved
        /\ ~ active'[c].live
        /\ \A d \in Chains : d # c => active'[d] = active[d]
    BY AbsentState DEF ChainEnd, Consumed, RegistryTypes
  <1>2. \A j \in Runs : j[1] \in Chains /\ j[2] \in Nat /\ (j[1] = c /\ j[2] = starts[c] <=> j = k)
    BY DEF Runs, RunOf
  <1>3. \A j \in Runs : FreshRun(j)' => FreshRun(j) /\ j # k
    BY <1>1, <1>2 DEF FreshRun, ToldInv
  <1>4. CASE k \notin Runs
    <2>1. record' = record /\ told' = told
      BY <1>4 DEF ChainEnd, Tell, ToldInv
    <2> QED
      BY <1>1, <1>3, <2>1, NoRunChanges DEF ToldInv
  <1>5. CASE k \in Runs
    <2>1. record[k] = "none" /\ told[k] = <<>>
      BY <1>1, <1>2, <1>5 DEF ToldInv, FreshRuns, FreshRun
    <2>2. CASE told' = [told EXCEPT ![k] = Append(@, "NO_EXPERIENCE")] /\ record' = record
      <3>1. told' = [told EXCEPT ![k] = <<"NO_EXPERIENCE">>]
        BY <2>1, <2>2
      <3>2. record' = [record EXCEPT ![k] = "none"]
        BY <1>5, <2>1, <2>2 DEF ToldInv
      <3>3. <<"NO_EXPERIENCE">> # <<"RECORDED">>
        OBVIOUS
      <3> QED
        BY <1>1, <1>3, <1>5, <3>1, <3>2, <3>3, OneRunChanges DEF Stages, Tales
    <2>3. ASSUME NEW s \in {"saving", "rejected"}, record' = [record EXCEPT ![k] = s],
                 told' = told
          PROVE  ToldInv'
      <3>1. told' = [told EXCEPT ![k] = <<>>]
        BY <1>5, <2>1, <2>3 DEF ToldInv
      <3>2. <<>> # <<"RECORDED">> /\ s \in Stages /\ s # "saved"
        BY DEF Stages
      <3> QED
        BY <1>1, <1>3, <1>5, <2>3, <3>1, <3>2, OneRunChanges DEF Tales
    <2> QED
      BY <2>2, <2>3 DEF ChainEnd, Tell
  <1> QED
    BY <1>4, <1>5

LEMMA ToldRecordStep ==
    ASSUME ToldInv, RegistryTypes, NEW k \in Runs, RecordStep(k)
    PROVE  ToldInv'
  <1>1. /\ starts' = starts /\ active' = active /\ saved \subseteq saved'
        /\ record[k] \in {"saving", "saved"}
    BY DEF RecordStep, Saved, SaveFails, Recorded, RecordCancelled
  <1>2. told[k] = <<>> /\ (record[k] = "saved" => k \in saved)
    BY <1>1 DEF ToldInv, TellsOnce
  <1>3. \A j \in Runs : FreshRun(j)' => FreshRun(j) /\ j # k
    BY <1>1 DEF FreshRun, ToldInv, FreshRuns
  <1>4. told' = told => told' = [told EXCEPT ![k] = <<>>]
    BY <1>2 DEF ToldInv
  <1>5. \A e : Tell(k, e) => told' = [told EXCEPT ![k] = <<e>>]
    BY <1>2 DEF Tell
  <1>6. <<>> # <<"RECORDED">> /\ <<"FAILED">> # <<"RECORDED">>
    OBVIOUS
  <1>7. CASE Saved(k)
    BY <1>1, <1>3, <1>4, <1>6, <1>7, OneRunChanges DEF Saved, Stages, Tales
  <1>8. CASE SaveFails(k)
    BY <1>1, <1>3, <1>5, <1>6, <1>8, OneRunChanges DEF SaveFails, FailureEvent, Stages, Tales
  <1>9. CASE Recorded(k)
    <2>1. CASE TakesEvaluation
      BY <1>1, <1>2, <1>3, <1>5, <1>9, <2>1, OneRunChanges DEF Recorded, Stages, Tales
    <2>2. CASE ~ TakesEvaluation
      BY <1>1, <1>3, <1>5, <1>6, <1>9, <2>2, OneRunChanges
      DEF Recorded, FailureEvent, Stages, Tales
    <2> QED
      BY <2>1, <2>2
  <1>10. CASE RecordCancelled(k)
    BY <1>1, <1>3, <1>4, <1>6, <1>10, OneRunChanges DEF RecordCancelled, Stages, Tales
  <1> QED
    BY <1>7, <1>8, <1>9, <1>10 DEF RecordStep

LEMMA ToldStep == ToldInv /\ RegistryInv /\ [Next]_lcvars => ToldInv'
  <1> SUFFICES ASSUME ToldInv, RegistryTypes, [Next]_lcvars PROVE ToldInv'
    BY DEF RegistryInv
  <1>1. ASSUME UNCHANGED <<active, starts, record, told, saved>>
        PROVE  ToldInv'
    BY <1>1, NoRunChanges DEF FreshRun, ToldInv
  <1>2. ASSUME NEW c \in Chains, NEW task \in Texts, ChainStart(c, task)
        PROVE  ToldInv'
    BY <1>2, ToldChainStart
  <1>3. ASSUME NEW c \in Chains, NEW t \in Tools, ToolStart(t, c)
        PROVE  ToldInv'
    BY <1>3, ToldTool
  <1>4. ASSUME NEW c \in Chains, NEW t \in Tools, NEW r \in Texts, ToolFinish(t, c, r)
        PROVE  ToldInv'
    BY <1>4, ToldTool
  <1>5. ASSUME NEW c \in Chains, ChainEnd(c)
        PROVE  ToldInv'
    BY <1>5, ToldChainEnd
  <1>6. ASSUME NEW k \in Runs, RecordStep(k)
        PROVE  ToldInv'
    BY <1>6, ToldRecordStep
  <1>7. ASSUME NEW pol \in Policies, Shutdown(pol)
        PROVE  ToldInv'
    BY <1>1, <1>7 DEF Shutdown
  <1>8. CASE ShutdownEnds
    BY <1>1, <1>8 DEF ShutdownEnds
  <1>9. CASE UNCHANGED lcvars
    BY <1>1, <1>9 DEF lcvars
  <1> QED
    BY <1>2, <1>3, <1>4, <1>5, <1>6, <1>7, <1>8, <1>9 DEF Next

\* Whatever callbacks are repeated and wherever the save, the evaluation or a
\* shutdown falls, a run is told about at most once, and RECORDED only when
\* its experience is in the store (_finalize_and_record, _emit_outcome).
THEOREM RunsAreToldTruthfully == Spec => []ToldTruthfully
  <1>1. ToldInv => ToldTruthfully
    BY DEF ToldInv, TellsOnce, ToldTruthfully, Tales
  <1>2. Spec => [](ToldInv /\ RegistryInv)
    BY RegistryInitially, RegistryStep, ToldInitially, ToldStep, PTL DEF Spec
  <1> QED
    BY <1>1, <1>2, PTL
-----------------------------------------------------------------------------
\* A registered chain has been counted.
CountInv ==
    /\ starts \in [Chains -> 0 .. MaxStarts]
    /\ \A c \in Chains : active[c].live => starts[c] # 0

LEMMA CountInitially == Init => CountInv
  BY AbsentState, LangChainSwitches DEF Init, CountInv, LangChainSwitches

LEMMA CountStep == CountInv /\ RegistryInv /\ [Next]_lcvars => CountInv'
  <1> SUFFICES ASSUME CountInv, RegistryTypes, [Next]_lcvars PROVE CountInv'
    BY DEF RegistryInv
  <1>1. ASSUME starts' = starts, \A c \in Chains : active'[c].live => active[c].live
        PROVE  CountInv'
    BY <1>1 DEF CountInv
  <1>2. ASSUME NEW c \in Chains, NEW task \in Texts, ChainStart(c, task)
        PROVE  CountInv'
    <2>1. /\ starts[c] \in Nat /\ starts[c] < MaxStarts /\ MaxStarts \in Nat
          /\ starts' = [starts EXCEPT ![c] = @ + 1]
          /\ \A d \in Chains : d # c => active'[d] = active[d]
      BY <1>2, LangChainSwitches DEF ChainStart, CountInv, RegistryTypes, LangChainSwitches
    <2> QED
      BY <2>1 DEF CountInv
  <1>3. ASSUME NEW c \in Chains, NEW t \in Tools,
               ToolStart(t, c) \/ \E r \in Texts : ToolFinish(t, c, r)
        PROVE  CountInv'
    <2>1. active[c].live /\ starts' = starts
      BY <1>3 DEF ToolStart, ToolFinish
    <2>2. \A d \in Chains : d # c => active'[d] = active[d]
      BY <1>3 DEF ToolStart, ToolFinish, RegistryTypes
    <2> QED
      BY <1>1, <2>1, <2>2
  <1>4. ASSUME NEW c \in Chains, ChainEnd(c)
        PROVE  CountInv'
    <2>1. \A d \in Chains : d # c => active'[d] = active[d]
      BY <1>4 DEF ChainEnd, Consumed, RegistryTypes
    <2> QED
      BY <1>1, <1>4, <2>1 DEF ChainEnd
  <1>5. ASSUME UNCHANGED <<active, starts>>
        PROVE  CountInv'
    BY <1>1, <1>5
  <1>6. ASSUME NEW k \in Runs, RecordStep(k)
        PROVE  CountInv'
    BY <1>5, <1>6 DEF RecordStep, Saved, SaveFails, Recorded, RecordCancelled
  <1>7. ASSUME NEW pol \in Policies, Shutdown(pol)
        PROVE  CountInv'
    BY <1>5, <1>7 DEF Shutdown
  <1>8. CASE ShutdownEnds \/ UNCHANGED lcvars
    BY <1>5, <1>8 DEF ShutdownEnds, lcvars
  <1> QED
    BY <1>2, <1>3, <1>4, <1>6, <1>7, <1>8 DEF Next

\* Only the end of a chain takes it out of the registry.
LEMMA OnlyEndsConsume ==
    ASSUME RegistryInv, [Next]_lcvars, NEW c \in Chains,
           active[c].live, ~ active'[c].live
    PROVE  ChainEnd(c)
  <1>1. active \in [Chains -> ChainState]
    BY DEF RegistryInv, RegistryTypes
  <1>2. active' # active
    OBVIOUS
  <1>3. ASSUME NEW d \in Chains, NEW task \in Texts, ChainStart(d, task)
        PROVE  FALSE
    BY <1>1, <1>3 DEF ChainStart
  <1>4. ASSUME NEW d \in Chains, NEW t \in Tools, ToolStart(t, d)
        PROVE  FALSE
    <2>1. active' = [active EXCEPT ![d] = Started(active[d], t)] /\ active[d].live
      BY <1>4 DEF ToolStart
    <2>2. Started(active[d], t).live
      BY <1>1, <2>1, StartedState
    <2> QED
      BY <1>1, <2>1, <2>2
  <1>5. ASSUME NEW d \in Chains, NEW t \in Tools, NEW r \in Texts, ToolFinish(t, d, r)
        PROVE  FALSE
    <2>1. active' = [active EXCEPT ![d] = Completed(active[d], t, r)] /\ active[d].live
      BY <1>5 DEF ToolFinish
    <2>2. Completed(active[d], t, r).live
      BY <1>1, <2>1, CompletedState
    <2> QED
      BY <1>1, <2>1, <2>2
  <1>6. ASSUME NEW d \in Chains, ChainEnd(d), d # c
        PROVE  FALSE
    BY <1>1, <1>6 DEF ChainEnd, Consumed
  <1> QED
    BY <1>2, <1>3, <1>4, <1>5, <1>6
       DEF Next, RecordStep, Saved, SaveFails, Recorded, RecordCancelled, Shutdown,
           ShutdownEnds, lcvars

\* A callback pops a run with an experience in it only when the Learner accepts
\* the record, and whatever else it pops is told of as such, for every order of
\* callbacks and shutdowns (_finalize_and_record, assert_accepting).
THEOREM RunsReachTheLearner == Spec => RunsAreHandedOver
  <1>1. ASSUME RegistryInv, ToldInv, CountInv, [Next]_lcvars, NEW c \in Chains,
               active[c].live, ~ active'[c].live
        PROVE  record'[RunOf(c)] = "saving" \/ told'[RunOf(c)] = <<"NO_EXPERIENCE">>
    <2>1. ChainEnd(c)
      BY <1>1, OnlyEndsConsume
    <2>2. RunOf(c) \in Runs /\ FreshRun(RunOf(c))
      BY <1>1, LangChainSwitches
      DEF CountInv, RunOf, Runs, FreshRun, LangChainSwitches
    <2>3. told[RunOf(c)] = <<>>
      BY <1>1, <2>2 DEF ToldInv, FreshRuns
    <2>4. /\ record \in [Runs -> Stages] /\ told \in [Runs -> Tales]
      BY <1>1 DEF ToldInv
    <2>5. CASE ~ Valid(c)
      <3>1. told' = [told EXCEPT ![RunOf(c)] = Append(@, "NO_EXPERIENCE")]
        BY <2>1, <2>5 DEF ChainEnd, Tell
      <3> QED
        BY <2>2, <2>3, <2>4, <3>1
    <2>6. CASE Valid(c)
      BY <2>1, <2>2, <2>4, <2>6 DEF ChainEnd, MayTake
    <2> QED
      BY <2>5, <2>6
  <1>2. RegistryInv /\ ToldInv /\ CountInv /\ [Next]_lcvars =>
            [\A c \in Chains :
                (active[c].live /\ ~ active'[c].live) =>
                    \/ record'[RunOf(c)] = "saving"
                    \/ told'[RunOf(c)] = <<"NO_EXPERIENCE">>]_lcvars
    BY <1>1
  <1>3. Spec => [](RegistryInv /\ ToldInv /\ CountInv)
    BY RegistryInitially, RegistryStep, ToldInitially, ToldStep, CountInitially,
       CountStep, PTL DEF Spec
  <1> QED
    BY <1>2, <1>3, PTL DEF Spec, RunsAreHandedOver
=============================================================================
