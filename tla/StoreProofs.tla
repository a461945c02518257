---------------------------- MODULE StoreProofs ----------------------------
(***************************************************************************)
(* Proofs about Store for every set of tasks, every statement that may     *)
(* fail, every number of failures and cancellations, and any number of     *)
(* connections.                                                            *)
(*                                                                         *)
(* A task that was cancelled leaves its statement in the queue of the      *)
(* connection and may leave its rollback there too, and the write lock     *)
(* goes on to the next task: what keeps transactions apart is the order of *)
(* the queue.  WireInv says how: whoever awaits a statement of a           *)
(* transaction holds the lock, so nothing of another transaction is behind *)
(* it; whoever was answered in a transaction has nothing of another before *)
(* it either; and so no INSERT or COMMIT has any before it.                *)
(*                                                                         *)
(* SaveInv adds what is in an open transaction: rows of its owner alone,   *)
(* and every row its owner has been through, so a COMMIT takes all of a    *)
(* save to the file and whatever else ends a transaction none of it.       *)
(*                                                                         *)
(* OutcomeInv relates what a caller is told to the file: a save that knows *)
(* of no commit has none, and no COMMIT it gave up is on its way.          *)
(*                                                                         *)
(* LeaseInv counts the leases, so close() goes on when none is left.  With *)
(* one initialize() there is one connection: SingleInv says where it is    *)
(* until close() has closed it.  ContainInv says that what cancelled tasks *)
(* leave behind ends every transaction before the next begins, so that no  *)
(* statement fails while none fails by itself.                             *)
(***************************************************************************)
EXTENDS Store, SequenceTheorems, FiniteSetTheorems, TLAPS

\* The places, statements, replies and fates of tasks.
Words == {"start", "lock", "connect", "await", "join", "drain", "done",
          "PRAGMA", "VERSION", "SELECT", "BEGIN", "INSERT", "COMMIT",
          "ROLLBACK", "CLOSE", "none", "ok", "failed", "absent", "cancelled",
          "refused", "unready", "returned"}
Rows == {Row(t, k) : t \in Tasks, k \in Nat}
TaskState == [pc : Words, stmt : Words, part : Nat, on : Nat,
              reply : Words, fate : Words, cancels : Nat]
Message == [by : Tasks, stmt : Words, row : Rows, live : BOOLEAN]
ConnState == [open : BOOLEAN, owner : Tasks \cup {Nobody}, rows : SUBSET Rows]

TypesInv ==
    /\ conn \in Nat /\ opened \in Nat
    /\ lockq \in Seq(Tasks)
    /\ task \in [Tasks -> TaskState]
    /\ wire \in [Conns -> Seq(Message)]
    /\ conns \in [Conns -> ConnState]

\* The close task is idle while the store is open.
CloseInv == lifecycle = "open" => task[CloseTask].pc = "start"

\* Only connections that were opened are used.
OpenedInv ==
    /\ conn <= opened
    /\ \A t \in Tasks : task[t].on <= opened
    /\ \A c \in Conns : c > opened => wire[c] = <<>>

Txn == {"BEGIN", "INSERT", "COMMIT", "ROLLBACK"}
Within(r) == r.pc = "await" /\ r.stmt \in Txn
HolderInv == \A t \in Tasks : Within(task[t]) => Holds(t)

\* A live statement is the one its task awaits.
LiveAwaited(c, q, tk) ==
    \A i \in 1 .. Len(q) : q[i].live =>
        /\ tk[q[i].by].pc = "await" /\ tk[q[i].by].stmt = q[i].stmt
        /\ tk[q[i].by].on = c /\ tk[q[i].by].reply = "none"
        /\ \A j \in 1 .. Len(q) : q[j].live /\ q[j].by = q[i].by => j = i

\* Nothing of a transaction is behind a live statement of one.
LiveIsLast(q) ==
    \A i, j \in 1 .. Len(q) :
        q[i].live /\ q[i].stmt \in Txn /\ q[j].stmt \in Txn => j <= i

\* Nothing of a transaction is before what works in one, and that one is its own.
WorkIsFirst(q, k) ==
    \A i \in 1 .. Len(q) : q[i].stmt \in {"INSERT", "COMMIT"} =>
        /\ \A j \in 1 .. Len(q) : q[j].stmt \in Txn => i <= j
        /\ k.open => k.owner = q[i].by

\* The task was told that it is in a transaction on connection c.
Owns(r, c) ==
    /\ r.pc = "await" /\ r.stmt \in {"BEGIN", "INSERT"}
    /\ r.reply = "ok" /\ r.on = c

OwnersAlone(c, q, k, tk) ==
    \A t \in Tasks : Owns(tk[t], c) =>
        /\ \A i \in 1 .. Len(q) : q[i].stmt \notin Txn
        /\ k.open => k.owner = t

WireAgrees(c, q, k, tk) ==
    /\ LiveAwaited(c, q, tk)
    /\ LiveIsLast(q)
    /\ WorkIsFirst(q, k)
    /\ OwnersAlone(c, q, k, tk)

WireInv == \A c \in Conns : WireAgrees(c, wire[c], conns[c], task)

MixInv == TypesInv /\ CloseInv /\ OpenedInv /\ HolderInv /\ WireInv
-----------------------------------------------------------------------------
LEMMA WordFacts ==
    /\ "start" \in Words /\ "lock" \in Words /\ "connect" \in Words
    /\ "await" \in Words /\ "join" \in Words /\ "drain" \in Words
    /\ "done" \in Words
    /\ "PRAGMA" \in Words /\ "VERSION" \in Words /\ "SELECT" \in Words
    /\ "BEGIN" \in Words /\ "INSERT" \in Words /\ "COMMIT" \in Words
    /\ "ROLLBACK" \in Words /\ "CLOSE" \in Words
    /\ "none" \in Words /\ "ok" \in Words /\ "failed" \in Words
    /\ "absent" \in Words /\ "cancelled" \in Words
    /\ "refused" \in Words /\ "unready" \in Words /\ "returned" \in Words
  BY DEF Words

\* What the steps of a task make of its state.
LEMMA AtFacts ==
    ASSUME NEW r \in TaskState, NEW s \in Words
    PROVE  /\ At(r, s) \in TaskState /\ At(r, s).pc = s /\ At(r, s).on = r.on
           /\ At(r, s).part = r.part
  BY DEF TaskState, At

LEMMA DoneFacts ==
    ASSUME NEW r \in TaskState, NEW s \in Words
    PROVE  Done(r, s) \in TaskState /\ Done(r, s).pc = "done" /\ Done(r, s).on = r.on
  BY WordFacts DEF TaskState, Done

LEMMA AnswerFacts ==
    ASSUME NEW r \in TaskState, NEW s \in Words
    PROVE  /\ Answer(r, s) \in TaskState /\ Answer(r, s).pc = r.pc
           /\ Answer(r, s).on = r.on /\ Answer(r, s).stmt = r.stmt
           /\ Answer(r, s).part = r.part /\ Answer(r, s).reply = s
  BY DEF TaskState, Answer

LEMMA CancelledFacts ==
    ASSUME NEW r \in TaskState
    PROVE  /\ Cancelled(r) \in TaskState /\ Cancelled(r).pc = r.pc
           /\ Cancelled(r).on = r.on /\ Cancelled(r).stmt = r.stmt
           /\ Cancelled(r).part = r.part /\ Cancelled(r).reply = "cancelled"
  <1> DEFINE n == r.cancels + 1
  <1>1. n \in Nat
    BY DEF TaskState
  <1>2. Cancelled(r) = [r EXCEPT !.reply = "cancelled", !.cancels = n]
    BY DEF Cancelled
  <1> HIDE DEF n
  <1> QED
    BY <1>1, <1>2, WordFacts DEF TaskState

LEMMA FailingFacts ==
    ASSUME NEW r \in TaskState
    PROVE  Failing(r) \in TaskState
  BY DEF TaskState, Failing

LEMMA NextPartFacts ==
    ASSUME NEW r \in TaskState
    PROVE  NextPart(r) \in TaskState /\ NextPart(r).part = r.part + 1
  BY DEF TaskState, NextPart

LEMMA AwaitingFacts ==
    ASSUME NEW r \in TaskState, NEW c \in Nat, NEW s \in Words
    PROVE  /\ Awaiting(r, c, s) \in TaskState /\ Awaiting(r, c, s).pc = "await"
           /\ Awaiting(r, c, s).stmt = s /\ Awaiting(r, c, s).on = c
           /\ Awaiting(r, c, s).reply = "none" /\ Awaiting(r, c, s).part = r.part
  BY WordFacts DEF TaskState, Awaiting

LEMMA IdleFacts ==
    /\ Idle \in TaskState
    /\ Idle.pc = "start" /\ Idle.on = 0 /\ Idle.part = 1
  BY WordFacts DEF Idle, TaskState, NoConn

LEMMA StatementFacts ==
    ASSUME NEW t \in Tasks, NEW s \in Words, NEW part \in Nat
    PROVE  /\ Statement(t, s, part) \in Message
           /\ Statement(t, s, part).by = t /\ Statement(t, s, part).stmt = s
           /\ Statement(t, s, part).row = Row(t, part) /\ Statement(t, s, part).live
  <1> DEFINE rw == Row(t, part)
  <1>1. rw \in Rows
    BY DEF Rows
  <1>2. Statement(t, s, part) = [by |-> t, stmt |-> s, row |-> rw, live |-> TRUE]
    BY DEF Statement
  <1> HIDE DEF rw
  <1>3. /\ Statement(t, s, part) \in Message
        /\ Statement(t, s, part).by = t /\ Statement(t, s, part).stmt = s
        /\ Statement(t, s, part).row = rw /\ Statement(t, s, part).live
    BY <1>1, <1>2 DEF Message
  <1> QED
    BY <1>3 DEF rw

LEMMA MessageFacts ==
    ASSUME NEW q \in Seq(Message)
    PROVE  /\ Len(q) \in Nat
           /\ \A i \in 1 .. Len(q) : q[i] \in Message /\ q[i].by \in Tasks
  <1>1. Len(q) \in Nat /\ \A i \in 1 .. Len(q) : q[i] \in Message
    BY ElementOfSeq, LenProperties
  <1>2. \A m \in Message : m.by \in Tasks
    BY DEF Message
  <1> QED
    BY <1>1, <1>2

\* Whoever leaves the queue of the lock leaves the others where they are.
LEMMA LeaveFacts ==
    ASSUME NEW q \in Seq(Tasks), NEW t \in Tasks
    PROVE  /\ Leave(q, t) \in Seq(Tasks)
           /\ q # <<>> /\ Head(q) # t => Leave(q, t) # <<>> /\ Head(Leave(q, t)) = Head(q)
  <1>1. CASE \E i \in DOMAIN q : q[i] = t
    <2> DEFINE i == CHOOSE i \in DOMAIN q : q[i] = t
    <2>1. i \in DOMAIN q /\ q[i] = t
      BY <1>1
    <2>2. i \in 1 .. Len(q) /\ Len(q) \in Nat
      BY <2>1, LenProperties
    <2>3. Leave(q, t) = SubSeq(q, 1, i - 1) \o SubSeq(q, i + 1, Len(q))
      BY <1>1 DEF Leave
    <2> HIDE DEF i
    <2>4. /\ SubSeq(q, 1, i - 1) \in Seq(Tasks) /\ Len(SubSeq(q, 1, i - 1)) = i - 1
          /\ \A j \in 1 .. i - 1 : SubSeq(q, 1, i - 1)[j] = q[j]
      BY <2>2, SubSeqProperties, LenProperties
    <2>5. SubSeq(q, i + 1, Len(q)) \in Seq(Tasks)
      BY <2>2, SubSeqProperties
    <2>6. CASE q # <<>> /\ Head(q) # t
      <3>1. q[1] = Head(q) /\ i # 1
        BY <2>1, <2>6, HeadTailProperties
      <3>2. i - 1 \in Nat /\ 1 \in 1 .. i - 1
        BY <2>2, <3>1
      <3>3. Len(Leave(q, t)) >= 1 /\ Leave(q, t)[1] = q[1] /\ Leave(q, t) \in Seq(Tasks)
        BY <2>3, <2>4, <2>5, <3>2, ConcatProperties, LenProperties
      <3>4. Leave(q, t) # <<>> /\ Head(Leave(q, t)) = Leave(q, t)[1]
        BY <3>3, HeadTailProperties, EmptySeq
      <3> QED
        BY <3>1, <3>3, <3>4
    <2> QED
      BY <2>3, <2>4, <2>5, <2>6, ConcatProperties
  <1>2. CASE ~ \E i \in DOMAIN q : q[i] = t
    BY <1>2 DEF Leave
  <1> QED
    BY <1>1, <1>2
-----------------------------------------------------------------------------
\* A step that sends nothing: only tasks that wait for no answer go on, and
\* none to await one.
LEMMA QuietStep ==
    ASSUME MixInv, UNCHANGED <<wire, conns, opened>>,
           conn' \in Nat, conn' <= opened,
           lockq' \in Seq(Tasks),
           task' \in [Tasks -> TaskState],
           \A u \in Tasks : task'[u] # task[u] =>
               /\ task'[u].pc # "await" /\ task'[u].on <= opened
               /\ ~ (task[u].pc = "await" /\ task[u].reply = "none"),
           \A u \in Tasks :
               task'[u] = task[u] /\ Within(task[u]) /\ Holds(u) => Holds(u)',
           CloseInv'
    PROVE  MixInv'
  <1>1. TypesInv'
    BY DEF MixInv, TypesInv
  <1>2. OpenedInv'
    BY DEF MixInv, OpenedInv
  <1>3. HolderInv'
    BY DEF MixInv, HolderInv, Within
  <1>4. ASSUME NEW c \in Conns
        PROVE  WireAgrees(c, wire[c], conns[c], task')
    <2>1. WireAgrees(c, wire[c], conns[c], task) /\ wire[c] \in Seq(Message)
      BY DEF MixInv, WireInv, TypesInv
    <2>2. \A i \in 1 .. Len(wire[c]) : wire[c][i].by \in Tasks
      BY <2>1, MessageFacts
    <2>3. LiveAwaited(c, wire[c], task')
      BY <2>1, <2>2 DEF WireAgrees, LiveAwaited
    <2>4. OwnersAlone(c, wire[c], conns[c], task')
      BY <2>1 DEF WireAgrees, OwnersAlone, Owns
    <2> QED
      BY <2>1, <2>3, <2>4 DEF WireAgrees
  <1>5. WireInv'
    BY <1>4 DEF WireInv
  <1> QED
    BY <1>1, <1>2, <1>3, <1>5 DEF MixInv

\* A step that sends a statement: one of a transaction only by the holder of
\* the lock, one that works in a transaction only by who was told to be in it.
LEMMA SendStep ==
    ASSUME MixInv, NEW t \in Tasks, NEW r \in TaskState, NEW c \in Nat,
           NEW s \in Words, Send(t, r, c, s),
           conn' \in Nat, opened' \in Nat, opened <= opened',
           conn' <= opened', c <= opened', lockq' = lockq,
           conns' \in [Conns -> ConnState],
           \A d \in Conns : /\ conns'[d].owner = conns[d].owner
                            /\ conns'[d].open => conns[d].open \/ d > opened,
           ~ (task[t].pc = "await" /\ task[t].reply = "none"),
           s \in Txn => Holds(t),
           s \in {"INSERT", "COMMIT"} => Owns(task[t], c),
           CloseInv'
    PROVE  MixInv'
  <1> DEFINE m == Statement(t, s, r.part)
  <1>1. /\ m \in Message /\ m.by = t /\ m.stmt = s /\ m.live
    BY StatementFacts DEF TaskState
  <1>2. /\ task \in [Tasks -> TaskState] /\ wire \in [Conns -> Seq(Message)]
        /\ \A u \in Tasks : task[u].on \in Nat /\ task[u].on <= opened
        /\ opened \in Nat
    BY DEF MixInv, TypesInv, OpenedInv, TaskState
  <1>3. /\ task' \in [Tasks -> TaskState]
        /\ task'[t].pc = "await" /\ task'[t].stmt = s /\ task'[t].on = c
        /\ task'[t].reply = "none"
        /\ \A u \in Tasks : u # t => task'[u] = task[u]
    BY <1>2, AwaitingFacts DEF Send
  <1>4. /\ wire' = [wire EXCEPT ![c] = Append(@, m)]
        /\ \A d \in Conns : d # c => wire'[d] = wire[d]
        /\ c \in Conns => wire'[c] = Append(wire[c], m)
    BY <1>2 DEF Send
  <1> HIDE DEF m
  <1>5. wire' \in [Conns -> Seq(Message)]
    <2>1. ASSUME NEW d \in Conns PROVE wire'[d] \in Seq(Message)
      BY <1>1, <1>2, <1>4, AppendProperties
    <2> QED
      BY <1>2, <1>4, <2>1
  <1>6. TypesInv'
    BY <1>3, <1>5 DEF MixInv, TypesInv
  <1>7. OpenedInv'
    <2>1. \A d \in Conns : d \in Nat
      BY DEF Conns
    <2>2. ASSUME NEW d \in Conns, d > opened' PROVE wire'[d] = <<>>
      BY <1>2, <1>4, <2>1, <2>2 DEF MixInv, OpenedInv
    <2>3. ASSUME NEW u \in Tasks PROVE task'[u].on <= opened'
      BY <1>2, <1>3
    <2> QED
      BY <2>2, <2>3 DEF OpenedInv
  <1>8. HolderInv'
    BY <1>3 DEF MixInv, HolderInv, Within, Holds
  <1>9. ASSUME NEW u \in Tasks, u # t, s \in Txn
        PROVE  ~ Within(task[u])
    BY <1>9 DEF MixInv, HolderInv, Holds
  <1>10. ASSUME NEW d \in Conns
         PROVE  WireAgrees(d, wire'[d], conns'[d], task')
    <2> DEFINE q == wire[d]
    <2>1. /\ LiveAwaited(d, q, task) /\ LiveIsLast(q)
          /\ WorkIsFirst(q, conns[d]) /\ OwnersAlone(d, q, conns[d], task)
      BY DEF MixInv, WireInv, WireAgrees
    <2>2. /\ q \in Seq(Message) /\ Len(q) \in Nat
          /\ \A i \in 1 .. Len(q) : q[i] \in Message /\ q[i].by \in Tasks
      BY <1>2, MessageFacts
    <2>3. \A i \in 1 .. Len(q) : q[i].live => q[i].by # t
      BY <2>1 DEF LiveAwaited
    <2>4. \A u \in Tasks : u # t => (Owns(task'[u], d) <=> Owns(task[u], d))
      BY <1>3
    <2>5. ~ Owns(task'[t], d)
      BY <1>3 DEF Owns
    <2>6. ASSUME NEW u \in Tasks, Owns(task[u], d), conns'[d].open
          PROVE  conns[d].open
      <3>1. d = task[u].on /\ d <= opened /\ d \in Nat
        BY <1>2, <2>6 DEF Owns
      <3> QED
        BY <1>2, <2>6, <3>1
    <2>7. conns'[d].open => conns[d].open \/ q = <<>>
      BY DEF MixInv, OpenedInv
    <2> HIDE DEF q
    <2>8. CASE d # c
      <3>1. wire'[d] = q
        BY <1>4, <2>8 DEF q
      <3>2. LiveAwaited(d, q, task')
        BY <1>3, <2>1, <2>2, <2>3 DEF LiveAwaited
      <3>3. OwnersAlone(d, q, conns'[d], task')
        BY <2>1, <2>4, <2>5, <2>6 DEF OwnersAlone
      <3>4. WorkIsFirst(q, conns'[d])
        BY <2>1, <2>2, <2>7, EmptySeq DEF WorkIsFirst
      <3> QED
        BY <2>1, <3>1, <3>2, <3>3, <3>4 DEF WireAgrees
    <2>9. CASE d = c
      <3> DEFINE p == wire'[d]
      <3>1. /\ p \in Seq(Message) /\ Len(p) = Len(q) + 1
            /\ p[Len(q) + 1] = m
            /\ \A i \in 1 .. Len(q) : p[i] = q[i]
        BY <1>1, <1>4, <2>2, <2>9, AppendProperties DEF q
      <3> HIDE DEF p
      <3>2. LiveAwaited(d, p, task')
        <4>1. ASSUME NEW i \in 1 .. Len(q), q[i].live
              PROVE  /\ p[i] = q[i] /\ q[i].by # t /\ q[i].by \in Tasks
                     /\ task'[q[i].by] = task[q[i].by]
                     /\ \A j \in 1 .. Len(q) :
                            q[j].live /\ q[j].by = q[i].by => j = i
          BY <1>3, <2>1, <2>2, <2>3, <3>1, <4>1 DEF LiveAwaited
        <4>2. ASSUME NEW i \in 1 .. Len(p), p[i].live, i # Len(q) + 1
              PROVE  /\ i \in 1 .. Len(q) /\ q[i].live /\ p[i] = q[i]
          BY <2>2, <3>1, <4>2
        <4>3. ASSUME NEW i \in 1 .. Len(p), p[i].live
              PROVE  /\ task'[p[i].by].pc = "await"
                     /\ task'[p[i].by].stmt = p[i].stmt
                     /\ task'[p[i].by].on = d /\ task'[p[i].by].reply = "none"
          <5>1. CASE i = Len(q) + 1
            BY <1>1, <1>3, <2>9, <3>1, <5>1
          <5>2. CASE i # Len(q) + 1
            BY <2>1, <4>1, <4>2, <4>3, <5>2 DEF LiveAwaited
          <5> QED
            BY <5>1, <5>2
        <4>4. ASSUME NEW i \in 1 .. Len(p), NEW j \in 1 .. Len(p),
                     p[i].live, p[j].live, p[j].by = p[i].by
              PROVE  j = i
          <5>1. CASE i # Len(q) + 1 /\ j # Len(q) + 1
            BY <4>1, <4>2, <4>4, <5>1
          <5>2. CASE i = Len(q) + 1 \/ j = Len(q) + 1
            BY <1>1, <3>1, <4>1, <4>2, <4>4, <5>2
          <5> QED
            BY <5>1, <5>2
        <4> QED
          BY <4>3, <4>4 DEF LiveAwaited
      <3>3. LiveIsLast(p)
        <4>1. ASSUME NEW i \in 1 .. Len(q), q[i].live, q[i].stmt \in Txn
              PROVE  s \notin Txn
          BY <1>9, <2>1, <2>2, <2>3, <4>1 DEF LiveAwaited, Within
        <4>2. ASSUME NEW i \in 1 .. Len(p), NEW j \in 1 .. Len(p),
                     p[i].live, p[i].stmt \in Txn, p[j].stmt \in Txn
              PROVE  j <= i
          <5>1. CASE i = Len(q) + 1
            BY <2>2, <3>1, <5>1
          <5>2. CASE i # Len(q) + 1
            <6>1. i \in 1 .. Len(q) /\ q[i].live /\ q[i].stmt \in Txn
              BY <2>2, <3>1, <4>2, <5>2
            <6>2. j # Len(q) + 1
              BY <1>1, <3>1, <4>1, <4>2, <6>1
            <6>3. j \in 1 .. Len(q) /\ q[j].stmt \in Txn
              BY <2>2, <3>1, <4>2, <6>2
            <6> QED
              BY <2>1, <6>1, <6>3 DEF LiveIsLast
          <5> QED
            BY <5>1, <5>2
        <4> QED
          BY <4>2 DEF LiveIsLast
      <3>4. s \in {"INSERT", "COMMIT"} =>
                /\ \A i \in 1 .. Len(q) : q[i].stmt \notin Txn
                /\ conns'[d].open => conns'[d].owner = t
        BY <2>1, <2>6, <2>9 DEF OwnersAlone
      <3>5. WorkIsFirst(p, conns'[d])
        <4>1. ASSUME NEW i \in 1 .. Len(p), i # Len(q) + 1
              PROVE  i \in 1 .. Len(q) /\ p[i] = q[i]
          BY <2>2, <3>1, <4>1
        <4>2. ASSUME NEW i \in 1 .. Len(q)
              PROVE  conns'[d].open => conns[d].open
          BY <2>2, <2>7, <4>2, EmptySeq
        <4>3. ASSUME NEW i \in 1 .. Len(p), p[i].stmt \in {"INSERT", "COMMIT"}
              PROVE  /\ \A j \in 1 .. Len(p) : p[j].stmt \in Txn => i <= j
                     /\ conns'[d].open => conns'[d].owner = p[i].by
          <5>1. CASE i = Len(q) + 1
            <6>1. s \in {"INSERT", "COMMIT"} /\ p[i].by = t
              BY <1>1, <3>1, <4>3, <5>1
            <6>2. \A j \in 1 .. Len(p) : p[j].stmt \in Txn => j = i
              BY <3>4, <4>1, <5>1, <6>1
            <6> QED
              BY <3>4, <6>1, <6>2
          <5>2. CASE i # Len(q) + 1
            <6>1. i \in 1 .. Len(q) /\ p[i] = q[i]
              BY <4>1, <5>2
            <6>2. /\ \A j \in 1 .. Len(q) : q[j].stmt \in Txn => i <= j
                  /\ conns[d].open => conns[d].owner = q[i].by
              BY <2>1, <4>3, <6>1 DEF WorkIsFirst
            <6>3. \A j \in 1 .. Len(p) : p[j].stmt \in Txn => i <= j
              BY <2>2, <4>1, <6>1, <6>2
            <6> QED
              BY <4>2, <6>1, <6>2, <6>3
          <5> QED
            BY <5>1, <5>2
        <4> QED
          BY <4>3 DEF WorkIsFirst
      <3>6. OwnersAlone(d, p, conns'[d], task')
        <4>1. ASSUME NEW u \in Tasks, Owns(task'[u], d)
              PROVE  /\ \A i \in 1 .. Len(p) : p[i].stmt \notin Txn
                     /\ conns'[d].open => conns'[d].owner = u
          <5>1. u # t /\ Owns(task[u], d)
            BY <2>4, <2>5, <4>1
          <5>2. s \notin Txn
            BY <1>9, <5>1 DEF Owns, Within, Txn
          <5> QED
            BY <1>1, <2>1, <2>2, <2>6, <3>1, <5>1, <5>2 DEF OwnersAlone
        <4> QED
          BY <4>1 DEF OwnersAlone
      <3> QED
        BY <3>2, <3>3, <3>5, <3>6 DEF WireAgrees, p
    <2> QED
      BY <2>8, <2>9
  <1>11. WireInv'
    BY <1>10 DEF WireInv
  <1> QED
    BY <1>6, <1>7, <1>8, <1>11 DEF MixInv

\* A step of the thread of connection c, which becomes k: it answers the
\* statement at the head if that is awaited.
LEMMA ThreadStep ==
    ASSUME MixInv, NEW c \in Conns, wire[c] # <<>>,
           NEW reply \in Words, reply # "none", Deliver(c, reply),
           NEW k \in ConnState, conns' = [conns EXCEPT ![c] = k],
           UNCHANGED <<lifecycle, conn, opened, lockq>>,
           k.open => conns[c].open,
           Head(wire[c]).stmt \notin Txn => (k.open => k.owner = conns[c].owner),
           Head(wire[c]).stmt \in {"BEGIN", "INSERT"} /\ reply = "ok"
               => (k.open => k.owner = Head(wire[c]).by)
    PROVE  MixInv'
  <1> DEFINE q == wire[c]
             p == wire'[c]
             h == Head(wire[c])
  <1>1. /\ task \in [Tasks -> TaskState] /\ wire \in [Conns -> Seq(Message)]
        /\ conns \in [Conns -> ConnState]
    BY DEF MixInv, TypesInv
  <1>2. /\ q \in Seq(Message) /\ Len(q) \in Nat /\ Len(q) >= 1
        /\ \A i \in 1 .. Len(q) : q[i] \in Message /\ q[i].by \in Tasks
        /\ h = q[1]
    BY <1>1, MessageFacts, HeadTailProperties, EmptySeq
  <1>3. /\ p \in Seq(Message) /\ Len(p) = Len(q) - 1
        /\ \A i \in 1 .. Len(p) : p[i] = q[i + 1]
        /\ \A d \in Conns : d # c => wire'[d] = wire[d]
        /\ wire' \in [Conns -> Seq(Message)]
    <2>1. wire' = [wire EXCEPT ![c] = Tail(q)]
      BY DEF Deliver
    <2>2. /\ Tail(q) \in Seq(Message) /\ Len(Tail(q)) = Len(q) - 1
          /\ \A i \in 1 .. Len(Tail(q)) : Tail(q)[i] = q[i + 1]
      BY <1>2, HeadTailProperties
    <2> QED
      BY <1>1, <2>1, <2>2
  <1>4. h \in Message /\ h.by \in Tasks /\ h = q[1] /\ 1 \in 1 .. Len(q)
    BY <1>2
  <1>5. /\ \A d \in Conns : d # c => conns'[d] = conns[d]
        /\ conns'[c] = k /\ conns' \in [Conns -> ConnState]
    BY <1>1
  <1>6. /\ LiveAwaited(c, q, task) /\ LiveIsLast(q)
        /\ WorkIsFirst(q, conns[c]) /\ OwnersAlone(c, q, conns[c], task)
    BY DEF MixInv, WireInv, WireAgrees
  <1>7. /\ task' \in [Tasks -> TaskState]
        /\ \A u \in Tasks : ~ (h.live /\ u = h.by) => task'[u] = task[u]
        /\ \A u \in Tasks : /\ task'[u].pc = task[u].pc /\ task'[u].stmt = task[u].stmt
                            /\ task'[u].on = task[u].on
        /\ h.live => task'[h.by].reply = reply
    <2>1. CASE h.live
      <3>1. task' = [task EXCEPT ![h.by] = Answer(task[h.by], reply)]
        BY <2>1 DEF Deliver
      <3> QED
        BY <1>1, <1>4, <2>1, <3>1, AnswerFacts
    <2>2. CASE ~ h.live
      <3>1. task' = task
        BY <2>2 DEF Deliver
      <3> QED
        BY <1>1, <2>2, <3>1
    <2> QED
      BY <2>1, <2>2
  <1>8. h.live => /\ task[h.by].pc = "await" /\ task[h.by].on = c
                  /\ task[h.by].stmt = h.stmt
    BY <1>4, <1>6 DEF LiveAwaited
  <1> HIDE DEF q, p, h
  <1>9. TypesInv'
    BY <1>3, <1>5, <1>7 DEF MixInv, TypesInv
  <1>10. CloseInv'
    BY <1>7 DEF MixInv, CloseInv, Tasks
  <1>11. OpenedInv'
    <2>1. c <= opened
      BY DEF MixInv, OpenedInv, TypesInv, Conns
    <2>2. \A d \in Conns : d > opened => wire'[d] = <<>>
      BY <1>3, <2>1 DEF MixInv, OpenedInv, TypesInv, Conns
    <2> QED
      BY <1>7, <2>2 DEF MixInv, OpenedInv
  <1>12. HolderInv'
    BY <1>7 DEF MixInv, HolderInv, Within, Holds
  <1>13. ASSUME NEW d \in Conns, d # c
         PROVE  WireAgrees(d, wire'[d], conns'[d], task')
    <2>1. /\ LiveAwaited(d, wire[d], task) /\ LiveIsLast(wire[d])
          /\ WorkIsFirst(wire[d], conns[d]) /\ OwnersAlone(d, wire[d], conns[d], task)
      BY DEF MixInv, WireInv, WireAgrees
    <2>2. \A i \in 1 .. Len(wire[d]) : wire[d][i].by \in Tasks
      BY <1>1, MessageFacts
    <2>3. LiveAwaited(d, wire[d], task')
      <3> DEFINE w == wire[d]
      <3>1. LiveAwaited(d, w, task) /\ \A i \in 1 .. Len(w) : w[i].by \in Tasks
        BY <2>1, <2>2
      <3> HIDE DEF w
      <3>2. \A i \in 1 .. Len(w) : w[i].live => task'[w[i].by] = task[w[i].by]
        BY <1>7, <1>8, <1>13, <3>1 DEF LiveAwaited
      <3>3. LiveAwaited(d, w, task')
        BY <3>1, <3>2 DEF LiveAwaited
      <3> QED
        BY <3>3 DEF w
    <2>4. OwnersAlone(d, wire[d], conns[d], task')
      BY <1>7, <1>8, <1>13, <2>1 DEF OwnersAlone, Owns
    <2> QED
      BY <1>3, <1>5, <1>13, <2>1, <2>3, <2>4 DEF WireAgrees
  <1>14. WireAgrees(c, p, k, task')
    <2>1. \A i \in 1 .. Len(p) : i + 1 \in 1 .. Len(q) /\ p[i] = q[i + 1] /\ i + 1 # 1
      BY <1>2, <1>3
    <2>2. LiveAwaited(c, p, task')
      <3>1. ASSUME NEW i \in 1 .. Len(p), p[i].live
            PROVE  task'[p[i].by] = task[p[i].by] /\ p[i].by \in Tasks
        <4>1. q[i + 1].live /\ i + 1 \in 1 .. Len(q) /\ i + 1 # 1
          BY <2>1, <3>1
        <4>2. ~ (h.live /\ p[i].by = h.by)
          BY <1>4, <1>6, <2>1, <4>1 DEF LiveAwaited
        <4> QED
          BY <1>2, <1>7, <2>1, <4>1, <4>2
      <3>2. ASSUME NEW i \in 1 .. Len(p), NEW j \in 1 .. Len(p),
                   p[i].live, p[j].live, p[j].by = p[i].by
            PROVE  j = i
        <4>1. /\ i + 1 \in 1 .. Len(q) /\ j + 1 \in 1 .. Len(q)
              /\ q[i + 1].live /\ q[j + 1].live /\ q[j + 1].by = q[i + 1].by
          BY <2>1, <3>2
        <4>2. j + 1 = i + 1
          BY <1>6, <4>1 DEF LiveAwaited
        <4> QED
          BY <4>2
      <3>3. ASSUME NEW i \in 1 .. Len(p), p[i].live
            PROVE  /\ task'[p[i].by].pc = "await" /\ task'[p[i].by].stmt = p[i].stmt
                   /\ task'[p[i].by].on = c /\ task'[p[i].by].reply = "none"
        <4>1. i + 1 \in 1 .. Len(q) /\ p[i] = q[i + 1]
          BY <2>1
        <4>2. /\ task[p[i].by].pc = "await" /\ task[p[i].by].stmt = p[i].stmt
              /\ task[p[i].by].on = c /\ task[p[i].by].reply = "none"
          BY <1>6, <3>3, <4>1 DEF LiveAwaited
        <4> QED
          BY <3>1, <3>3, <4>2
      <3> QED
        BY <3>2, <3>3 DEF LiveAwaited
    <2>3. LiveIsLast(p)
      <3>1. ASSUME NEW i \in 1 .. Len(p), NEW j \in 1 .. Len(p),
                   p[i].live, p[i].stmt \in Txn, p[j].stmt \in Txn
            PROVE  j <= i
        <4>1. /\ i + 1 \in 1 .. Len(q) /\ j + 1 \in 1 .. Len(q)
              /\ q[i + 1].live /\ q[i + 1].stmt \in Txn /\ q[j + 1].stmt \in Txn
          BY <2>1, <3>1
        <4>2. j + 1 <= i + 1
          BY <1>6, <4>1 DEF LiveIsLast
        <4> QED
          BY <4>2
      <3> QED
        BY <3>1 DEF LiveIsLast
    <2>4. WorkIsFirst(p, k)
      <3>1. ASSUME NEW i \in 1 .. Len(p), p[i].stmt \in {"INSERT", "COMMIT"}
            PROVE  /\ \A j \in 1 .. Len(p) : p[j].stmt \in Txn => i <= j
                   /\ k.open => k.owner = p[i].by
        <4>1. h.stmt \notin Txn
          <5>1. i + 1 \in 1 .. Len(q) /\ i + 1 # 1 /\ q[i + 1].stmt \in {"INSERT", "COMMIT"}
            BY <2>1, <3>1
          <5>2. h.stmt \in Txn => i + 1 <= 1
            BY <1>4, <1>6, <5>1 DEF WorkIsFirst
          <5> QED
            BY <5>1, <5>2
        <4>2. ASSUME NEW j \in 1 .. Len(p), p[j].stmt \in Txn
              PROVE  i <= j
          <5>1. i + 1 <= j + 1
            BY <1>6, <2>1, <3>1, <4>2 DEF WorkIsFirst
          <5> QED
            BY <5>1
        <4>3. k.open => k.owner = p[i].by
          BY <1>6, <2>1, <3>1, <4>1 DEF WorkIsFirst, h
        <4> QED
          BY <4>2, <4>3
      <3> QED
        BY <3>1 DEF WorkIsFirst
    <2>5. OwnersAlone(c, p, k, task')
      <3>1. ASSUME NEW u \in Tasks, Owns(task'[u], c)
            PROVE  /\ \A i \in 1 .. Len(p) : p[i].stmt \notin Txn
                   /\ k.open => k.owner = u
        <4>1. CASE h.live /\ u = h.by
          <5>1. h.stmt \in {"BEGIN", "INSERT"} /\ reply = "ok"
            BY <1>7, <1>8, <3>1, <4>1 DEF Owns
          <5>2. \A i \in 1 .. Len(p) : p[i].stmt \notin Txn
            <6>1. ASSUME NEW i \in 1 .. Len(p), p[i].stmt \in Txn PROVE FALSE
              <7>1. i + 1 <= 1
                BY <1>4, <1>6, <2>1, <4>1, <5>1, <6>1 DEF LiveIsLast, Txn
              <7> QED
                BY <7>1
            <6> QED
              BY <6>1
          <5> QED
            BY <4>1, <5>1, <5>2 DEF h
        <4>2. CASE ~ (h.live /\ u = h.by)
          <5>1. Owns(task[u], c)
            BY <1>7, <3>1, <4>2
          <5>2. /\ \A i \in 1 .. Len(q) : q[i].stmt \notin Txn
                /\ conns[c].open => conns[c].owner = u
            BY <1>6, <5>1 DEF OwnersAlone
          <5> QED
            BY <1>4, <2>1, <5>2 DEF h
        <4> QED
          BY <4>1, <4>2
      <3> QED
        BY <3>1 DEF OwnersAlone
    <2> QED
      BY <2>2, <2>3, <2>4, <2>5 DEF WireAgrees
  <1>15. WireInv'
    BY <1>5, <1>13, <1>14 DEF WireInv, p
  <1> QED
    BY <1>9, <1>10, <1>11, <1>12, <1>15 DEF MixInv

\* The queue in which the statements of t are not awaited any more.
LEMMA AbandonedFacts ==
    ASSUME NEW q \in Seq(Message), NEW t
    PROVE  /\ Abandoned(q, t) \in Seq(Message) /\ Len(Abandoned(q, t)) = Len(q)
           /\ \A i \in 1 .. Len(q) :
                 /\ Abandoned(q, t)[i].by = q[i].by /\ Abandoned(q, t)[i].stmt = q[i].stmt
                 /\ Abandoned(q, t)[i].row = q[i].row
                 /\ Abandoned(q, t)[i].live => q[i].live /\ q[i].by # t
                 /\ q[i].by # t => Abandoned(q, t)[i] = q[i]
  <1>1. /\ Len(q) \in Nat /\ DOMAIN q = 1 .. Len(q)
        /\ \A i \in 1 .. Len(q) : q[i] \in Message
    BY MessageFacts, LenProperties
  <1>2. \A m \in Message : /\ [m EXCEPT !.live = FALSE] \in Message
                           /\ [m EXCEPT !.live = FALSE].by = m.by
                           /\ [m EXCEPT !.live = FALSE].stmt = m.stmt
                           /\ [m EXCEPT !.live = FALSE].row = m.row
                           /\ ~ [m EXCEPT !.live = FALSE].live
    BY DEF Message
  <1>3. /\ Abandoned(q, t) = [i \in 1 .. Len(q) |->
               IF q[i].by = t THEN [q[i] EXCEPT !.live = FALSE] ELSE q[i]]
        /\ \A i \in 1 .. Len(q) : Abandoned(q, t)[i] =
               IF q[i].by = t THEN [q[i] EXCEPT !.live = FALSE] ELSE q[i]
    BY <1>1 DEF Abandoned
  <1>4. \A i \in 1 .. Len(q) : Abandoned(q, t)[i] \in Message
    BY <1>1, <1>2, <1>3
  <1>5. Abandoned(q, t) \in [1 .. Len(q) -> Message]
    BY <1>3, <1>4
  <1>6. Abandoned(q, t) \in Seq(Message) /\ Len(Abandoned(q, t)) = Len(q)
    BY <1>1, <1>5, IsASeq, LenProperties
  <1> QED
    BY <1>1, <1>2, <1>3, <1>6

\* A task that awaits is cancelled: its statement goes on without it.
LEMMA CancelStep ==
    ASSUME MixInv, NEW t \in Tasks, task[t].pc = "await",
           task' = [task EXCEPT ![t] = Cancelled(@)],
           wire' = [wire EXCEPT ![task[t].on] = Abandoned(@, t)],
           UNCHANGED <<lifecycle, conn, conns, opened, lockq>>
    PROVE  MixInv'
  <1>1. /\ task \in [Tasks -> TaskState] /\ wire \in [Conns -> Seq(Message)]
    BY DEF MixInv, TypesInv
  <1>2. /\ task' \in [Tasks -> TaskState]
        /\ \A u \in Tasks : u # t => task'[u] = task[u]
        /\ \A u \in Tasks : /\ task'[u].pc = task[u].pc /\ task'[u].stmt = task[u].stmt
                            /\ task'[u].on = task[u].on
        /\ task'[t].reply = "cancelled"
    BY <1>1, CancelledFacts
  <1>3. ASSUME NEW q \in Seq(Message)
        PROVE  /\ Abandoned(q, t) \in Seq(Message) /\ Len(Abandoned(q, t)) = Len(q)
               /\ \A i \in 1 .. Len(q) :
                     /\ Abandoned(q, t)[i].by = q[i].by /\ Abandoned(q, t)[i].stmt = q[i].stmt
                     /\ Abandoned(q, t)[i].live => q[i].live /\ q[i].by # t
    BY AbandonedFacts
  <1>4. /\ \A d \in Conns : d # task[t].on => wire'[d] = wire[d]
        /\ \A d \in Conns : d = task[t].on => wire'[d] = Abandoned(wire[d], t)
        /\ wire' \in [Conns -> Seq(Message)]
    <2>1. \A d \in Conns : Abandoned(wire[d], t) \in Seq(Message)
      BY <1>1, <1>3
    <2> QED
      BY <1>1, <2>1
  <1>5. TypesInv'
    BY <1>2, <1>4 DEF MixInv, TypesInv
  <1>6. CloseInv'
    BY <1>2 DEF MixInv, CloseInv, Tasks
  <1>7. OpenedInv'
    <2>1. ASSUME NEW d \in Conns, d > opened PROVE wire'[d] = <<>>
      <3>1. wire[d] = <<>> /\ opened \in Nat /\ task[t].on <= opened /\ task[t].on \in Nat
        BY <1>1, <2>1 DEF MixInv, OpenedInv, TypesInv, TaskState
      <3>2. d # task[t].on
        BY <2>1, <3>1 DEF Conns
      <3> QED
        BY <1>4, <3>1, <3>2
    <2> QED
      BY <1>2, <2>1 DEF MixInv, OpenedInv
  <1>8. HolderInv'
    BY <1>2 DEF MixInv, HolderInv, Within, Holds
  <1>9. ASSUME NEW d \in Conns
        PROVE  WireAgrees(d, wire'[d], conns[d], task')
    <2> DEFINE q == wire[d]
               p == wire'[d]
    <2>1. /\ LiveAwaited(d, q, task) /\ LiveIsLast(q)
          /\ WorkIsFirst(q, conns[d]) /\ OwnersAlone(d, q, conns[d], task)
      BY DEF MixInv, WireInv, WireAgrees
    <2>2. /\ q \in Seq(Message)
          /\ \A i \in 1 .. Len(q) : q[i].by \in Tasks
      BY <1>1, MessageFacts
    <2>3. /\ Len(p) = Len(q)
          /\ \A i \in 1 .. Len(q) :
                /\ p[i].by = q[i].by /\ p[i].stmt = q[i].stmt
                /\ p[i].live => q[i].live /\ q[i].by # t
      <3>1. CASE d = task[t].on
        <4>1. p = Abandoned(q, t)
          BY <1>4, <3>1
        <4> HIDE DEF p, q
        <4> QED
          BY <1>3, <2>2, <4>1
      <3>2. CASE d # task[t].on
        BY <1>4, <2>1, <3>2 DEF LiveAwaited
      <3> QED
        BY <3>1, <3>2
    <2> HIDE DEF p, q
    <2>4. LiveAwaited(d, p, task')
      BY <1>2, <2>1, <2>2, <2>3 DEF LiveAwaited
    <2>5. LiveIsLast(p)
      BY <2>1, <2>3 DEF LiveIsLast
    <2>6. WorkIsFirst(p, conns[d])
      BY <2>1, <2>3 DEF WorkIsFirst
    <2>7. OwnersAlone(d, p, conns[d], task')
      BY <1>2, <2>1, <2>3 DEF OwnersAlone, Owns
    <2> QED
      BY <2>4, <2>5, <2>6, <2>7 DEF WireAgrees, p
  <1>10. WireInv'
    BY <1>9 DEF WireInv
  <1> QED
    BY <1>5, <1>6, <1>7, <1>8, <1>10 DEF MixInv
-----------------------------------------------------------------------------
\* What an operation or a caller of close() does leaves the close task alone.
LEMMA OperationFacts ==
    ASSUME MixInv, NEW t \in Operations \cup Closers
    PROVE  /\ t \in Tasks /\ t # CloseTask
           /\ task[t] \in TaskState /\ task[t].on <= opened /\ task[t].on \in Nat
           /\ task[t].fate \in Words /\ task[t].reply \in Words
           /\ \A r : /\ lifecycle' = lifecycle
                    /\ task' = [task EXCEPT ![t] = r]
                    => CloseInv'
  <1>1. t \in Tasks /\ t # CloseTask
    BY StoreTasks DEF StoreTasks, Tasks
  <1>2. task \in [Tasks -> TaskState] /\ CloseTask \in Tasks /\ task[t].on <= opened
    BY <1>1 DEF MixInv, TypesInv, OpenedInv, Tasks
  <1>3. /\ task[t] \in TaskState /\ task[t].on \in Nat
        /\ task[t].fate \in Words /\ task[t].reply \in Words
    BY <1>1, <1>2 DEF TaskState
  <1>4. \A r : /\ lifecycle' = lifecycle
              /\ task' = [task EXCEPT ![t] = r]
              => CloseInv'
    BY <1>1, <1>2 DEF MixInv, CloseInv
  <1> QED
    BY <1>1, <1>2, <1>3, <1>4

\* A task goes somewhere without sending anything, and may leave the lock or
\* queue for it.
LEMMA MoveStep ==
    ASSUME MixInv, NEW t \in Tasks, NEW r \in TaskState,
           task' = [task EXCEPT ![t] = r],
           r.pc # "await", r.on <= opened,
           ~ (task[t].pc = "await" /\ task[t].reply = "none"),
           lockq' \in {lockq, Append(lockq, t), Leave(lockq, t)},
           UNCHANGED <<conn, wire, conns, opened>>,
           CloseInv'
    PROVE  MixInv'
  <1>1. /\ task \in [Tasks -> TaskState] /\ lockq \in Seq(Tasks)
        /\ conn \in Nat /\ conn <= opened
    BY DEF MixInv, TypesInv, OpenedInv
  <1>2. task' \in [Tasks -> TaskState] /\ \A u \in Tasks : u # t => task'[u] = task[u]
    BY <1>1
  <1>3. task'[t] = r
    BY <1>1
  <1>4. lockq' \in Seq(Tasks)
    <2>1. Leave(lockq, t) \in Seq(Tasks)
      BY <1>1, LeaveFacts
    <2>2. Append(lockq, t) \in Seq(Tasks)
      BY <1>1, AppendProperties
    <2> QED
      BY <1>1, <2>1, <2>2
  <1>5. ASSUME NEW u \in Tasks, task'[u] = task[u], Within(task[u]), Holds(u)
        PROVE  Holds(u)'
    <2>1. u # t
      BY <1>3, <1>5 DEF Within
    <2>2. CASE lockq' = Append(lockq, t)
      BY <1>1, <1>5, <2>2, HeadTailAppend, AppendProperties DEF Holds
    <2>3. CASE lockq' = Leave(lockq, t)
      BY <1>1, <1>5, <2>1, <2>3, LeaveFacts DEF Holds
    <2> QED
      BY <1>5, <2>2, <2>3 DEF Holds
  <1> QED
    BY <1>1, <1>2, <1>3, <1>4, <1>5, QuietStep

LEMMA EndKeeps ==
    ASSUME MixInv, NEW t \in Operations \cup Closers, NEW fate \in Words, End(t, fate),
           ~ (task[t].pc = "await" /\ task[t].reply = "none"),
           UNCHANGED <<lifecycle, conn, wire, conns, opened>>
    PROVE  MixInv'
  <1>1. /\ t \in Tasks /\ task[t] \in TaskState /\ task[t].on <= opened
        /\ task' = [task EXCEPT ![t] = Done(task[t], fate)]
    BY OperationFacts DEF End
  <1>2. /\ Done(task[t], fate) \in TaskState /\ Done(task[t], fate).pc = "done"
        /\ Done(task[t], fate).on <= opened
    BY <1>1, DoneFacts
  <1>3. CloseInv'
    BY <1>1, OperationFacts
  <1> QED
    BY <1>1, <1>2, <1>3, MoveStep DEF End

LEMMA StartsKeep ==
    ASSUME MixInv, NEW t \in Operations,
           Refuse(t) \/ WriteStarts(t) \/ ReadStarts(t) \/ InitializeStarts(t)
    PROVE  MixInv'
  <1>1. /\ t \in Tasks /\ task[t] \in TaskState /\ task[t].on <= opened
        /\ task[t].pc = "start"
    BY OperationFacts DEF Refuse, WriteStarts, ReadStarts, InitializeStarts
  <1>2. ASSUME NEW r \in TaskState, task' = [task EXCEPT ![t] = r],
               r.pc # "await", r.on <= opened, lockq' \in {lockq, Append(lockq, t)},
               UNCHANGED <<lifecycle, conn, wire, conns, opened>>
        PROVE  MixInv'
    <2>1. CloseInv'
      BY <1>2, OperationFacts
    <2> QED
      BY <1>1, <1>2, <2>1, MoveStep
  <1>3. ASSUME NEW s \in {"SELECT", "VERSION"}, Send(t, task[t], conn, s),
               UNCHANGED <<lifecycle, conn, conns, opened, lockq>>
        PROVE  MixInv'
    <2>1. CloseInv'
      BY <1>3, OperationFacts DEF Send
    <2>2. s \in Words /\ s \notin Txn
      BY WordFacts DEF Txn
    <2>3. /\ conn \in Nat /\ conn <= opened /\ opened \in Nat
          /\ conns \in [Conns -> ConnState]
      BY DEF MixInv, TypesInv, OpenedInv
    <2> QED
      BY <1>1, <1>3, <2>1, <2>2, <2>3, SendStep DEF Txn
  <1>4. CASE Refuse(t)
    <2>1. task' = [task EXCEPT ![t] = Done(task[t], "refused")]
      BY <1>4 DEF Refuse
    <2>2. /\ Done(task[t], "refused") \in TaskState
          /\ Done(task[t], "refused").pc # "await" /\ Done(task[t], "refused").on <= opened
      BY <1>1, DoneFacts, WordFacts
    <2> QED
      BY <1>2, <1>4, <2>1, <2>2 DEF Refuse
  <1>5. CASE WriteStarts(t)
    <2>1. task' = [task EXCEPT ![t] = At(task[t], "lock")]
      BY <1>5 DEF WriteStarts
    <2>2. /\ At(task[t], "lock") \in TaskState
          /\ At(task[t], "lock").pc # "await" /\ At(task[t], "lock").on <= opened
      BY <1>1, AtFacts, WordFacts
    <2> QED
      BY <1>2, <1>5, <2>1, <2>2 DEF WriteStarts
  <1>6. CASE ReadStarts(t)
    <2>1. CASE conn # NoConn
      BY <1>3, <1>6, <2>1 DEF ReadStarts
    <2>2. CASE conn = NoConn
      <3>1. task' = [task EXCEPT ![t] = Done(task[t], "unready")]
        BY <1>6, <2>2 DEF ReadStarts
      <3> QED
        BY <1>1, <1>2, <1>6, <2>2, <3>1, DoneFacts, WordFacts DEF ReadStarts
    <2> QED
      BY <2>1, <2>2
  <1>7. CASE InitializeStarts(t)
    <2>1. CASE conn # NoConn
      BY <1>3, <1>7, <2>1 DEF InitializeStarts
    <2>2. CASE conn = NoConn
      <3>1. task' = [task EXCEPT ![t] = At(task[t], "connect")]
        BY <1>7, <2>2 DEF InitializeStarts
      <3>2. /\ At(task[t], "connect") \in TaskState
            /\ At(task[t], "connect").pc # "await" /\ At(task[t], "connect").on <= opened
        BY <1>1, AtFacts, WordFacts
      <3> QED
        BY <1>2, <1>7, <2>2, <3>1, <3>2 DEF InitializeStarts
    <2> QED
      BY <2>1, <2>2
  <1> QED
    BY <1>4, <1>5, <1>6, <1>7

LEMMA ConnectKeeps ==
    ASSUME MixInv, NEW t \in Operations, Connected(t) \/ ConnectFails(t)
    PROVE  MixInv'
  <1>1. /\ t \in Tasks /\ task[t] \in TaskState /\ task[t].on <= opened
        /\ task[t].pc = "connect"
    BY OperationFacts DEF Connected, ConnectFails
  <1>2. CASE ConnectFails(t)
    BY <1>1, <1>2, EndKeeps, WordFacts DEF ConnectFails
  <1>3. CASE Connected(t)
    <2> DEFINE n == opened + 1
    <2>1. n \in Nat /\ opened <= n /\ opened < n /\ conns \in [Conns -> ConnState]
      BY DEF MixInv, TypesInv
    <2>2. /\ opened' = n /\ conn' = n /\ Send(t, task[t], n, "PRAGMA")
          /\ conns' = [conns EXCEPT ![n] = Opened(conns[n])]
          /\ lockq' = lockq /\ lifecycle' = lifecycle
      BY <1>3 DEF Connected
    <2>3. \A k \in ConnState : /\ Opened(k) \in ConnState /\ Opened(k).owner = k.owner
      BY DEF ConnState, Opened
    <2> HIDE DEF n
    <2>4. /\ conns' \in [Conns -> ConnState]
          /\ \A d \in Conns : /\ conns'[d].owner = conns[d].owner
                              /\ conns'[d].open => conns[d].open \/ d > opened
      BY <2>1, <2>2, <2>3
    <2>5. CloseInv'
      BY <2>2, OperationFacts DEF Send
    <2>6. "PRAGMA" \in Words /\ "PRAGMA" \notin Txn
      BY WordFacts DEF Txn
    <2> QED
      BY <1>1, <2>1, <2>2, <2>4, <2>5, <2>6, SendStep DEF Txn
  <1> QED
    BY <1>2, <1>3

LEMMA ResumeKeeps ==
    ASSUME MixInv, NEW t \in Operations, Resume(t)
    PROVE  MixInv'
  <1>1. /\ t \in Tasks /\ task[t] \in TaskState /\ task[t].on <= opened
        /\ task[t].on \in Nat /\ task[t].fate \in Words /\ task[t].reply \in Words
        /\ conn \in Nat /\ conn <= opened /\ opened \in Nat
        /\ conns \in [Conns -> ConnState]
    BY OperationFacts DEF MixInv, TypesInv, OpenedInv
  <1>2. ASSUME NEW r \in TaskState, NEW c \in Nat, NEW s \in Words, Send(t, r, c, s),
               c <= opened,
               UNCHANGED <<lifecycle, conn, conns, opened, lockq>>,
               ~ (task[t].pc = "await" /\ task[t].reply = "none"),
               s \in Txn => Holds(t),
               s \in {"INSERT", "COMMIT"} => Owns(task[t], c)
        PROVE  MixInv'
    <2>1. CloseInv'
      BY <1>2, OperationFacts DEF Send
    <2> QED
      BY <1>1, <1>2, <2>1, SendStep
  <1>3. CASE PragmaDone(t)
    BY <1>1, <1>2, <1>3, WordFacts DEF PragmaDone, Answered, Txn
  <1>4. CASE MigrationNeeded(t)
    <2>1. /\ task' = [task EXCEPT ![t] = At(task[t], "lock")]
          /\ lifecycle' = lifecycle
      BY <1>4 DEF MigrationNeeded
    <2>2. CloseInv'
      BY <2>1, OperationFacts
    <2>3. /\ At(task[t], "lock") \in TaskState /\ At(task[t], "lock").pc = "lock"
          /\ At(task[t], "lock").on <= opened
      BY <1>1, AtFacts, WordFacts
    <2> QED
      BY <1>1, <1>4, <2>1, <2>2, <2>3, MoveStep DEF MigrationNeeded, Answered
  <1>5. CASE PlainDone(t)
    BY <1>1, <1>5, EndKeeps, WordFacts DEF PlainDone, Answered
  <1>6. CASE Begin(t)
    <2>1. CASE conn # NoConn
      BY <1>1, <1>2, <1>6, <2>1, WordFacts DEF Begin, MayBegin
    <2>2. CASE conn = NoConn
      BY <1>1, <1>6, <2>2, EndKeeps, WordFacts DEF Begin
    <2> QED
      BY <2>1, <2>2
  <1>7. CASE TransactionStep(t)
    <2>1. /\ Owns(task[t], task[t].on) /\ Within(task[t])
          /\ task[t].pc = "await" /\ task[t].reply # "none"
      BY <1>7 DEF TransactionStep, Answered, Owns, Within, Txn
    <2>2. Holds(t)
      BY <1>1, <2>1 DEF MixInv, HolderInv
    <2>3. NextPart(task[t]) \in TaskState
      BY <1>1, NextPartFacts
    <2> QED
      BY <1>1, <1>2, <1>7, <2>1, <2>2, <2>3, WordFacts DEF TransactionStep
  <1>8. CASE Committed(t)
    BY <1>1, <1>8, EndKeeps, WordFacts DEF Committed, Answered
  <1>9. CASE Failed(t)
    <2>1. Within(task[t]) /\ task[t].reply # "none"
      BY <1>9 DEF Failed, Answered, Within, Txn
    <2>2. Holds(t)
      BY <1>1, <2>1 DEF MixInv, HolderInv
    <2>3. Failing(task[t]) \in TaskState
      BY <1>1, FailingFacts
    <2> QED
      BY <1>1, <1>2, <1>9, <2>1, <2>2, <2>3, WordFacts DEF Failed
  <1>10. CASE RolledBack(t)
    BY <1>1, <1>10, EndKeeps, WordFacts DEF RolledBack, Answered
  <1> QED
    BY <1>3, <1>4, <1>5, <1>6, <1>7, <1>8, <1>9, <1>10 DEF Resume

LEMMA CancelKeeps ==
    ASSUME MixInv, NEW t \in Operations \cup Closers, Cancel(t)
    PROVE  MixInv'
  <1>1. /\ t \in Tasks /\ task[t] \in TaskState /\ task[t].on <= opened
    BY OperationFacts
  <1>2. CASE task[t].pc = "await"
    BY <1>1, <1>2, CancelStep DEF Cancel
  <1>3. CASE task[t].pc = "lock"
    BY <1>1, <1>3, EndKeeps, WordFacts DEF Cancel
  <1>4. CASE task[t].pc = "join"
    <2>1. /\ task' = [task EXCEPT ![t] = Done(task[t], "cancelled")]
          /\ UNCHANGED <<lifecycle, conn, conns, opened, lockq, wire>>
      BY <1>4 DEF Cancel
    <2>2. /\ Done(task[t], "cancelled") \in TaskState
          /\ Done(task[t], "cancelled").pc # "await" /\ Done(task[t], "cancelled").on <= opened
      BY <1>1, DoneFacts, WordFacts
    <2>3. CloseInv'
      BY <2>1, OperationFacts
    <2> QED
      BY <1>1, <1>4, <2>1, <2>2, <2>3, MoveStep
  <1> QED
    BY <1>2, <1>3, <1>4 DEF Cancel

LEMMA CloseKeeps ==
    ASSUME MixInv, NEW t \in Closers, Close(t)
    PROVE  MixInv'
  <1>1. /\ t \in Tasks /\ t # CloseTask /\ task[t] \in TaskState
        /\ task[t].on <= opened /\ task[t].pc = "start"
        /\ UNCHANGED <<conn, lockq, wire, conns, opened>>
    BY OperationFacts DEF Close
  <1>2. ASSUME NEW r \in TaskState, task' = [task EXCEPT ![t] = r],
               r.pc # "await", r.on <= opened, lifecycle' = lifecycle
        PROVE  MixInv'
    <2>1. CloseInv'
      BY <1>2, OperationFacts
    <2> QED
      BY <1>1, <1>2, <2>1, MoveStep
  <1>3. /\ At(task[t], "join") \in TaskState /\ At(task[t], "join").pc # "await"
        /\ At(task[t], "join").on <= opened
        /\ Done(task[t], "returned") \in TaskState /\ Done(task[t], "returned").pc # "await"
        /\ Done(task[t], "returned").on <= opened
    <2>1. "join" \in Words /\ "returned" \in Words
      BY WordFacts
    <2>2. /\ At(task[t], "join") \in TaskState /\ At(task[t], "join").pc = "join"
          /\ At(task[t], "join").on = task[t].on
      BY <1>1, <2>1, AtFacts
    <2>3. /\ Done(task[t], "returned") \in TaskState
          /\ Done(task[t], "returned").pc = "done"
          /\ Done(task[t], "returned").on = task[t].on
      BY <1>1, <2>1, DoneFacts
    <2> QED
      BY <1>1, <2>2, <2>3
  <1>4. CASE lifecycle = "closed"
    <2>1. task' = [task EXCEPT ![t] = Done(task[t], "returned")] /\ lifecycle' = lifecycle
      BY <1>4 DEF Close
    <2> QED
      BY <1>2, <1>3, <2>1
  <1>5. CASE lifecycle = "closing"
    <2>1. task' = [task EXCEPT ![t] = At(task[t], "join")] /\ lifecycle' = lifecycle
      BY <1>5 DEF Close
    <2> QED
      BY <1>2, <1>3, <2>1
  <1>6. CASE lifecycle = "open"
    <2> DEFINE a == At(task[t], "join")
               b == At(task[CloseTask], "drain")
    <2>1. /\ task' = [task EXCEPT ![t] = a, ![CloseTask] = b]
          /\ lifecycle' = "closing"
      BY <1>1, <1>6 DEF Close
    <2>2. /\ CloseTask \in Tasks /\ task[CloseTask] \in TaskState
          /\ task[CloseTask].on <= opened /\ task[CloseTask].pc = "start"
          /\ task \in [Tasks -> TaskState]
      BY <1>6 DEF MixInv, TypesInv, OpenedInv, CloseInv, Tasks
    <2>3. /\ a \in TaskState /\ a.pc # "await" /\ a.on <= opened
          /\ b \in TaskState /\ b.pc # "await" /\ b.on <= opened
      <3>1. "drain" \in Words /\ "drain" # "await"
        BY WordFacts
      <3>2. b \in TaskState /\ b.pc = "drain" /\ b.on = task[CloseTask].on
        BY <2>2, <3>1, AtFacts
      <3> QED
        BY <1>3, <2>2, <3>1, <3>2
    <2> HIDE DEF a, b
    <2>4. /\ task' \in [Tasks -> TaskState]
          /\ task'[t] = a /\ task'[CloseTask] = b
          /\ \A u \in Tasks : u # t /\ u # CloseTask => task'[u] = task[u]
      BY <1>1, <2>1, <2>2, <2>3
    <2>5. \A u \in Tasks : task'[u] # task[u] =>
             /\ task'[u].pc # "await" /\ task'[u].on <= opened
             /\ ~ (task[u].pc = "await" /\ task[u].reply = "none")
      BY <1>1, <2>2, <2>3, <2>4
    <2>6. CloseInv'
      BY <2>1 DEF CloseInv
    <2>7. lockq' \in Seq(Tasks) /\ conn' \in Nat /\ conn' <= opened
      BY <1>1 DEF MixInv, TypesInv, OpenedInv
    <2>8. \A u \in Tasks : Holds(u) => Holds(u)'
      BY <1>1 DEF Holds
    <2> QED
      BY <1>1, <2>4, <2>5, <2>6, <2>7, <2>8, QuietStep
  <1> QED
    BY <1>4, <1>5, <1>6 DEF Close

\* The end of the close task, and what it tells those who await it.
LEMMA CloseEndsKeeps ==
    ASSUME MixInv, NEW ok \in BOOLEAN, CloseEnds(ok), wire' = wire,
           ~ (task[CloseTask].pc = "await" /\ task[CloseTask].reply = "none")
    PROVE  MixInv'
  <1>1. /\ CloseTask \in Tasks /\ task \in [Tasks -> TaskState]
        /\ lockq \in Seq(Tasks) /\ conn \in Nat /\ conn <= opened /\ opened \in Nat
    BY DEF MixInv, TypesInv, OpenedInv, Tasks
  <1> DEFINE a == At(Idle, IF ok THEN "done" ELSE "start")
             d(u) == Done(task[u], IF ok THEN "returned" ELSE "failed")
             e(u) == IF u = CloseTask THEN a
                     ELSE IF u \in Closers /\ task[u].pc = "join" THEN d(u)
                     ELSE task[u]
  <1>2. /\ task' = [u \in Tasks |-> e(u)]
        /\ lockq' = Leave(lockq, CloseTask)
        /\ lifecycle' = IF ok THEN "closed" ELSE "open"
        /\ conn' = IF ok THEN NoConn ELSE conn
        /\ UNCHANGED <<conns, opened>>
    BY DEF CloseEnds
  <1>3. /\ a \in TaskState /\ a.pc # "await" /\ a.on = 0
        /\ a.pc = IF ok THEN "done" ELSE "start"
    <2> DEFINE s == IF ok THEN "done" ELSE "start"
    <2>1. s \in Words /\ s # "await"
      BY WordFacts
    <2> HIDE DEF s
    <2>2. /\ At(Idle, s) \in TaskState /\ At(Idle, s).pc = s
          /\ At(Idle, s).on = 0
      BY <2>1, IdleFacts, AtFacts
    <2> QED
      BY <2>1, <2>2 DEF s
  <1>4. ASSUME NEW u \in Tasks
        PROVE  /\ d(u) \in TaskState /\ d(u).pc # "await" /\ d(u).on <= opened
    <2> DEFINE s == IF ok THEN "returned" ELSE "failed"
    <2>1. s \in Words
      BY WordFacts
    <2>2. task[u] \in TaskState /\ task[u].on <= opened
      BY <1>1 DEF MixInv, OpenedInv
    <2> HIDE DEF s
    <2>3. /\ Done(task[u], s) \in TaskState /\ Done(task[u], s).pc = "done"
          /\ Done(task[u], s).on = task[u].on
      BY <2>1, <2>2, DoneFacts
    <2> QED
      BY <2>2, <2>3 DEF s
  <1> HIDE DEF a, d
  <1>5. task' \in [Tasks -> TaskState]
    BY <1>1, <1>2, <1>3, <1>4
  <1>6. ASSUME NEW u \in Tasks, task'[u] # task[u]
        PROVE  /\ task'[u].pc # "await" /\ task'[u].on <= opened
               /\ ~ (task[u].pc = "await" /\ task[u].reply = "none")
    <2>1. CASE u = CloseTask
      BY <1>1, <1>2, <1>3, <2>1
    <2>2. CASE u # CloseTask
      <3>1. task'[u] = d(u) /\ task[u].pc = "join"
        BY <1>2, <1>6, <2>2
      <3> QED
        BY <1>4, <3>1
    <2> QED
      BY <2>1, <2>2
  <1>7. ASSUME NEW u \in Tasks, task'[u] = task[u], Within(task[u]), Holds(u)
        PROVE  Holds(u)'
    <2>1. u # CloseTask
      BY <1>1, <1>2, <1>3, <1>7 DEF Within
    <2> QED
      BY <1>1, <1>2, <1>7, <2>1, LeaveFacts DEF Holds
  <1>8. CloseInv'
    BY <1>1, <1>2, <1>3 DEF CloseInv
  <1>9. lockq' \in Seq(Tasks) /\ conn' \in Nat /\ conn' <= opened
    BY <1>1, <1>2, LeaveFacts DEF NoConn
  <1> QED
    BY <1>2, <1>5, <1>6, <1>7, <1>8, <1>9, QuietStep

LEMMA CloseTaskKeeps ==
    ASSUME MixInv, CloseDrained \/ CloseNative \/ CloseAnswered
    PROVE  MixInv'
  <1>1. /\ CloseTask \in Tasks /\ task \in [Tasks -> TaskState]
        /\ task[CloseTask] \in TaskState /\ task[CloseTask].on <= opened
        /\ conn \in Nat /\ conn <= opened /\ opened \in Nat
        /\ conns \in [Conns -> ConnState]
    BY DEF MixInv, TypesInv, OpenedInv, Tasks
  <1>2. CASE CloseDrained
    <2>1. /\ task' = [task EXCEPT ![CloseTask] = At(task[CloseTask], "lock")]
          /\ lifecycle' = lifecycle /\ task[CloseTask].pc = "drain"
      BY <1>2 DEF CloseDrained
    <2>2. /\ At(task[CloseTask], "lock") \in TaskState
          /\ At(task[CloseTask], "lock").pc # "await"
          /\ At(task[CloseTask], "lock").on <= opened
      BY <1>1, AtFacts, WordFacts
    <2>3. CloseInv'
      BY <2>1 DEF MixInv, CloseInv
    <2> QED
      BY <1>1, <1>2, <2>1, <2>2, <2>3, MoveStep DEF CloseDrained
  <1>3. CASE CloseNative
    <2>1. CASE conn # NoConn
      <3>1. /\ Send(CloseTask, task[CloseTask], conn, "CLOSE")
            /\ UNCHANGED <<lifecycle, conn, lockq, conns, opened>>
            /\ task[CloseTask].pc = "lock"
        BY <1>3, <2>1 DEF CloseNative
      <3>2. CloseInv'
        BY <3>1 DEF MixInv, CloseInv
      <3> QED
        BY <1>1, <3>1, <3>2, SendStep, WordFacts DEF Txn
    <2>2. CASE conn = NoConn
      BY <1>3, <2>2, CloseEndsKeeps DEF CloseNative
    <2> QED
      BY <2>1, <2>2
  <1>4. CASE CloseAnswered
    BY <1>4, CloseEndsKeeps DEF CloseAnswered, Answered
  <1> QED
    BY <1>2, <1>3, <1>4

LEMMA ThreadKeeps ==
    ASSUME MixInv, NEW c \in Conns, Execute(c) \/ ExecuteFails(c)
    PROVE  MixInv'
  <1> DEFINE h == Head(wire[c])
             k == After(c, h)
  <1>1. /\ wire[c] # <<>> /\ UNCHANGED <<lifecycle, conn, opened, lockq>>
    BY DEF Execute, ExecuteFails
  <1>2. /\ wire[c] \in Seq(Message) /\ Len(wire[c]) \in Nat /\ 1 \in 1 .. Len(wire[c])
        /\ h = wire[c][1] /\ h \in Message
    BY <1>1, MessageFacts, HeadTailProperties, EmptySeq DEF MixInv, TypesInv
  <1>3. conns[c] \in ConnState /\ conns \in [Conns -> ConnState]
    BY DEF MixInv, TypesInv
  <1>4. /\ h.by \in Tasks /\ h.row \in Rows
        /\ conns[c].open \in BOOLEAN /\ conns[c].owner \in Tasks \cup {Nobody}
        /\ conns[c].rows \in SUBSET Rows
    BY <1>2, <1>3 DEF Message, ConnState
  <1>5. h.stmt \in {"INSERT", "COMMIT"} /\ conns[c].open => conns[c].owner = h.by
    BY <1>2 DEF MixInv, WireInv, WireAgrees, WorkIsFirst
  <1> HIDE DEF h
  <1>6. /\ k.open = (conns[c].open /\ h.stmt # "CLOSE")
        /\ k.owner = IF EndsTransaction(h.stmt) THEN Nobody
                     ELSE IF Opens(c, h) THEN h.by ELSE conns[c].owner
        /\ k.rows = IF EndsTransaction(h.stmt) THEN {}
                    ELSE IF h.stmt = "INSERT" THEN conns[c].rows \cup {h.row}
                    ELSE conns[c].rows
        /\ k \in ConnState
    <2>1. k = [open |-> k.open, owner |-> k.owner, rows |-> k.rows]
      BY DEF After
    <2>2. /\ k.open = (conns[c].open /\ h.stmt # "CLOSE")
          /\ k.owner = IF EndsTransaction(h.stmt) THEN Nobody
                       ELSE IF Opens(c, h) THEN h.by ELSE conns[c].owner
          /\ k.rows = IF EndsTransaction(h.stmt) THEN {}
                      ELSE IF h.stmt = "INSERT" THEN conns[c].rows \cup {h.row}
                      ELSE conns[c].rows
      BY DEF After
    <2> HIDE DEF k
    <2>3. /\ k.open \in BOOLEAN /\ k.owner \in Tasks \cup {Nobody}
          /\ k.rows \in SUBSET Rows
      BY <1>4, <2>2
    <2> QED
      BY <2>1, <2>2, <2>3 DEF ConnState
  <1> HIDE DEF k
  <1>7. /\ k.open => conns[c].open
        /\ h.stmt \notin Txn => (k.open => k.owner = conns[c].owner)
        /\ h.stmt \in {"BEGIN", "INSERT"} => (k.open => k.owner = h.by)
    BY <1>5, <1>6 DEF EndsTransaction, Opens, Txn
  <1>8. ASSUME NEW reply \in Words, reply # "none", Deliver(c, reply),
               conns' = [conns EXCEPT ![c] = k]
        PROVE  MixInv'
    BY <1>1, <1>6, <1>7, <1>8, ThreadStep DEF h
  <1>9. ASSUME Deliver(c, "failed"), conns' = conns
        PROVE  MixInv'
    <2>1. conns' = [conns EXCEPT ![c] = conns[c]]
      BY <1>3, <1>9
    <2> QED
      <3>1. "failed" \in Words /\ "failed" # "none" /\ "failed" # "ok"
        BY WordFacts
      <3> DEFINE d == conns[c]
      <3>2. /\ d \in ConnState /\ conns' = [conns EXCEPT ![c] = d]
            /\ d.open => conns[c].open
            /\ d.open => d.owner = conns[c].owner
        BY <1>3, <2>1
      <3> HIDE DEF d
      <3> QED
        BY <1>1, <1>9, <3>1, <3>2, ThreadStep
  <1>10. CASE Execute(c)
    <2>1. CASE Runs(c, h)
      <3>1. /\ \/ Deliver(c, "absent")
               \/ Deliver(c, "ok")
            /\ conns' = [conns EXCEPT ![c] = k]
        BY <1>10, <2>1 DEF Execute, h, k
      <3> QED
        BY <1>8, <3>1, WordFacts
    <2>2. CASE ~ Runs(c, h)
      BY <1>9, <1>10, <2>2 DEF Execute, h
    <2> QED
      BY <2>1, <2>2
  <1>11. CASE ExecuteFails(c)
    <2>1. Deliver(c, "failed") /\ (conns' = conns \/ conns' = [conns EXCEPT ![c] = k])
      BY <1>11 DEF ExecuteFails, h, k
    <2> QED
      BY <1>8, <1>9, <2>1, WordFacts
  <1> QED
    BY <1>10, <1>11

LEMMA MixInitially == Init => MixInv
  <1> SUFFICES ASSUME Init PROVE MixInv
    OBVIOUS
  <1>1. \A t \in Tasks : task[t] = Idle
    BY DEF Init
  <1>2. TypesInv
    <2>1. \A c \in Conns : wire[c] = <<>> /\ <<>> \in Seq(Message)
      BY EmptySeq DEF Init
    <2>2. [open |-> FALSE, owner |-> Nobody, rows |-> {}] \in ConnState
      BY DEF ConnState
    <2>3. <<>> \in Seq(Tasks)
      BY EmptySeq
    <2> QED
      BY <2>1, <2>2, <2>3, IdleFacts DEF Init, TypesInv, NoConn
  <1>3. CloseInv
    BY <1>1, IdleFacts DEF CloseInv, Tasks
  <1>4. OpenedInv
    BY <1>1, IdleFacts DEF Init, OpenedInv, NoConn
  <1>5. HolderInv
    BY <1>1, IdleFacts DEF HolderInv, Within
  <1>6. WireInv
    BY <1>1, IdleFacts DEF Init, WireInv, WireAgrees, LiveAwaited, LiveIsLast,
       WorkIsFirst, OwnersAlone, Owns
  <1> QED
    BY <1>2, <1>3, <1>4, <1>5, <1>6 DEF MixInv

LEMMA MixStep == MixInv /\ [Next]_svars => MixInv'
  <1> SUFFICES ASSUME MixInv, [Next]_svars PROVE MixInv'
    OBVIOUS
  <1>1. ASSUME UNCHANGED svars PROVE MixInv'
    BY <1>1 DEF svars, MixInv, TypesInv, CloseInv, OpenedInv, HolderInv, Holds, WireInv
  <1>2. ASSUME NEW t \in Operations, Refuse(t) \/ Resume(t) PROVE MixInv'
    BY <1>2, StartsKeep, ResumeKeeps
  <1>3. ASSUME NEW t \in Writers, WriteStarts(t) PROVE MixInv'
    BY <1>3, StartsKeep DEF Operations
  <1>4. ASSUME NEW t \in Readers, ReadStarts(t) PROVE MixInv'
    BY <1>4, StartsKeep DEF Operations
  <1>5. ASSUME NEW t \in Initializers,
               InitializeStarts(t) \/ Connected(t) \/ ConnectFails(t)
        PROVE  MixInv'
    BY <1>5, StartsKeep, ConnectKeeps DEF Operations
  <1>6. ASSUME NEW t \in Operations \cup Closers, Cancel(t) PROVE MixInv'
    BY <1>6, CancelKeeps
  <1>7. ASSUME NEW t \in Closers, Close(t) PROVE MixInv'
    BY <1>7, CloseKeeps
  <1>8. CASE CloseDrained \/ CloseNative \/ CloseAnswered
    BY <1>8, CloseTaskKeeps
  <1>9. ASSUME NEW c \in Conns, Execute(c) \/ ExecuteFails(c) PROVE MixInv'
    BY <1>9, ThreadKeeps
  <1>10. CASE Finished
    BY <1>1, <1>10 DEF Finished
  <1> QED
    BY <1>1, <1>2, <1>3, <1>4, <1>5, <1>6, <1>7, <1>8, <1>9, <1>10 DEF Next

\* Whatever is cancelled or fails, and however many connections there are, no
\* statement of one save runs inside the transaction of another
\* (SQLiteTransactionManager.write on the connection all saves share).
THEOREM TransactionsStayApart == Spec => []TransactionsDoNotMix
  <1>1. MixInv => TransactionsDoNotMix
    <2> SUFFICES ASSUME MixInv, NEW c \in Conns, wire[c] # <<>>,
                        Head(wire[c]).stmt \in {"INSERT", "COMMIT"}, conns[c].open
                 PROVE  conns[c].owner = Head(wire[c]).by
      BY DEF TransactionsDoNotMix
    <2>1. wire[c] \in Seq(Message) /\ 1 \in 1 .. Len(wire[c]) /\ Head(wire[c]) = wire[c][1]
      BY MessageFacts, HeadTailProperties, EmptySeq DEF MixInv, TypesInv
    <2> QED
      BY <2>1 DEF MixInv, WireInv, WireAgrees, WorkIsFirst
  <1>2. Spec => []MixInv
    BY MixInitially, MixStep, PTL DEF Spec
  <1> QED
    BY <1>1, <1>2, PTL
-----------------------------------------------------------------------------
\* The first n rows of a save.
RowsUpTo(w, n) == {<<w, k>> : k \in 1 .. n}

\* Only the last statements of a transaction follow its first row.
PartInv ==
    \A t \in Tasks :
        \/ task[t].pc = "done"
        \/ task[t].pc = "await" /\ task[t].stmt \in {"INSERT", "COMMIT", "ROLLBACK"}
        \/ task[t].part = 1

\* A statement writes a row of its task, an awaited one the row of its part.
RowsSent(q, tk) ==
    \A i \in 1 .. Len(q) :
        /\ \E k \in Nat : q[i].row = Row(q[i].by, k)
        /\ q[i].live => q[i].row = Row(q[i].by, tk[q[i].by].part)

\* An open transaction holds rows of its owner alone.
RowsOwned(k) ==
    \A w \in Writers :
        RowsOf(w) \cap k.rows # {} => k.open /\ k.owner = w

\* It holds every row its owner has been through: all of them when a COMMIT is
\* under way.
RowsWritten(c, q, k, tk) ==
    k.open => \A w \in Writers :
        /\ \A i \in 1 .. Len(q) : q[i].by = w =>
              /\ q[i].stmt = "COMMIT" => RowsOf(w) \subseteq k.rows
              /\ q[i].live /\ q[i].stmt = "INSERT"
                    => RowsUpTo(w, tk[w].part - 1) \subseteq k.rows
        /\ Owns(tk[w], c) /\ tk[w].stmt = "INSERT"
              => RowsUpTo(w, tk[w].part) \subseteq k.rows

RowsAgree(c, q, k, tk) ==
    RowsSent(q, tk) /\ RowsOwned(k) /\ RowsWritten(c, q, k, tk)

SaveInv ==
    /\ PartInv
    /\ \A c \in Conns : RowsAgree(c, wire[c], conns[c], task)
    /\ SavesAreAtomic
-----------------------------------------------------------------------------
LEMMA RowFacts ==
    ASSUME NEW w \in Writers
    PROVE  /\ w \in Tasks
           /\ \A k \in Nat : Row(w, k) = <<w, k>>
           /\ \A t \in Tasks, k \in Nat : Row(t, k) \in RowsOf(w) => t = w
           /\ RowsUpTo(w, 0) = {} /\ RowsUpTo(w, Parts) = RowsOf(w)
           /\ \A n \in Nat \ {0} : RowsUpTo(w, n) = RowsUpTo(w, n - 1) \cup {<<w, n>>}
           /\ Schema \notin RowsOf(w) /\ Earlier \notin RowsOf(w)
  <1>1. w \in Tasks /\ w \notin Initializers /\ w # "schema" /\ w # "earlier"
    BY StoreTasks, StoreRows DEF StoreTasks, StoreRows, Tasks, Operations
  <1>2. Schema \notin RowsOf(w) /\ Earlier \notin RowsOf(w)
    BY <1>1 DEF RowsOf, Schema, Earlier
  <1>3. \A k \in Nat : Row(w, k) = <<w, k>>
    BY <1>1 DEF Row
  <1>4. ASSUME NEW t \in Tasks, NEW k \in Nat, Row(t, k) \in RowsOf(w)
        PROVE  t = w
    <2>1. t \notin Initializers
      BY <1>2, <1>4 DEF Row
    <2>2. <<t, k>> \in RowsOf(w)
      BY <1>4, <2>1 DEF Row
    <2> QED
      BY <2>2 DEF RowsOf
  <1>5. RowsUpTo(w, 0) = {} /\ RowsUpTo(w, Parts) = RowsOf(w)
    BY DEF RowsUpTo, RowsOf
  <1>6. ASSUME NEW n \in Nat \ {0}
        PROVE  RowsUpTo(w, n) = RowsUpTo(w, n - 1) \cup {<<w, n>>}
    <2>1. 1 .. n = (1 .. n - 1) \cup {n}
      OBVIOUS
    <2> QED
      BY <2>1 DEF RowsUpTo
  <1> QED
    BY <1>1, <1>2, <1>3, <1>4, <1>5, <1>6

LEMMA NoMoreRows ==
    ASSUME SaveInv, UNCHANGED file
    PROVE  SavesAreAtomic'
  BY DEF SaveInv, SavesAreAtomic

\* A step that sends nothing and leaves the file alone.
LEMMA SaveQuiet ==
    ASSUME MixInv, SaveInv, UNCHANGED <<wire, conns, file>>,
           \A u \in Tasks : task'[u] # task[u] =>
               /\ task'[u].pc # "await"
               /\ task'[u].pc = "done" \/ task'[u].part = 1
               /\ ~ (task[u].pc = "await" /\ task[u].reply = "none")
    PROVE  SaveInv'
  <1>1. PartInv'
    BY DEF SaveInv, PartInv
  <1>2. ASSUME NEW c \in Conns
        PROVE  RowsAgree(c, wire[c], conns[c], task')
    <2> DEFINE q == wire[c]
    <2>1. /\ RowsAgree(c, q, conns[c], task) /\ LiveAwaited(c, q, task)
          /\ q \in Seq(Message)
      BY DEF MixInv, WireInv, WireAgrees, SaveInv, TypesInv
    <2>2. \A i \in 1 .. Len(q) : q[i].by \in Tasks
      BY <2>1, MessageFacts
    <2> HIDE DEF q
    <2>3. \A i \in 1 .. Len(q) : q[i].live => task'[q[i].by] = task[q[i].by]
      BY <2>1, <2>2 DEF LiveAwaited
    <2>4. RowsSent(q, task')
      BY <2>1, <2>3 DEF RowsAgree, RowsSent
    <2>5. \A w \in Writers : w \in Tasks
      BY RowFacts
    <2>6. RowsWritten(c, q, conns[c], task')
      BY <2>1, <2>3, <2>5 DEF RowsAgree, RowsWritten, Owns
    <2> QED
      BY <2>1, <2>4, <2>6 DEF RowsAgree, q
  <1> QED
    BY <1>1, <1>2, NoMoreRows DEF SaveInv

\* A step that sends a statement: every row up to the one it inserts, and
\* every row before it commits, is in the transaction.
LEMMA SaveSend ==
    ASSUME MixInv, SaveInv, NEW t \in Tasks, NEW r \in TaskState, NEW c \in Nat,
           NEW s \in Words, Send(t, r, c, s), file' = file,
           \A d \in Conns : /\ conns'[d].owner = conns[d].owner
                            /\ conns'[d].rows = conns[d].rows
                            /\ conns[d].open => conns'[d].open
                            /\ conns'[d].open => conns[d].open \/ d > opened,
           ~ (task[t].pc = "await" /\ task[t].reply = "none"),
           s \notin {"INSERT", "COMMIT", "ROLLBACK"} => r.part = 1,
           t \in Writers /\ c \in Conns /\ conns[c].open =>
               /\ s = "INSERT" => RowsUpTo(t, r.part - 1) \subseteq conns[c].rows
               /\ s = "COMMIT" => RowsOf(t) \subseteq conns[c].rows,
           s \in {"INSERT", "COMMIT"} => Owns(task[t], c)
    PROVE  SaveInv'
  <1> DEFINE m == Statement(t, s, r.part)
  <1>1. /\ m \in Message /\ m.by = t /\ m.stmt = s /\ m.live
        /\ m.row = Row(t, r.part) /\ r.part \in Nat
    BY StatementFacts DEF TaskState
  <1>2. /\ task \in [Tasks -> TaskState] /\ wire \in [Conns -> Seq(Message)]
        /\ \A u \in Tasks : task[u].on \in Nat /\ task[u].on <= opened
        /\ opened \in Nat
    BY DEF MixInv, TypesInv, OpenedInv, TaskState
  <1>3. /\ task'[t].pc = "await" /\ task'[t].stmt = s /\ task'[t].on = c
        /\ task'[t].reply = "none" /\ task'[t].part = r.part
        /\ \A u \in Tasks : u # t => task'[u] = task[u]
    BY <1>2, AwaitingFacts DEF Send
  <1>4. /\ wire' = [wire EXCEPT ![c] = Append(@, m)]
        /\ \A d \in Conns : d # c => wire'[d] = wire[d]
        /\ c \in Conns => wire'[c] = Append(wire[c], m)
    BY <1>2 DEF Send
  <1> HIDE DEF m
  <1>5. PartInv'
    BY <1>3 DEF SaveInv, PartInv
  <1>6. ASSUME NEW d \in Conns
        PROVE  RowsAgree(d, wire'[d], conns'[d], task')
    <2> DEFINE q == wire[d]
               k == conns[d]
               p == wire'[d]
    <2>1. /\ RowsSent(q, task) /\ RowsOwned(k) /\ RowsWritten(d, q, k, task)
          /\ LiveAwaited(d, q, task)
      BY DEF MixInv, WireInv, WireAgrees, SaveInv, RowsAgree
    <2>2. /\ q \in Seq(Message) /\ Len(q) \in Nat
          /\ \A i \in 1 .. Len(q) : q[i].by \in Tasks
      BY <1>2, MessageFacts
    <2>3. \A i \in 1 .. Len(q) : q[i].live => q[i].by # t
      BY <2>1 DEF LiveAwaited
    <2>4. ~ Owns(task'[t], d) /\ \A w \in Writers : w \in Tasks
      BY <1>3, RowFacts DEF Owns
    <2>5. ASSUME NEW u \in Tasks, Owns(task[u], d), conns'[d].open
          PROVE  k.open
      <3>1. d = task[u].on /\ d <= opened /\ d \in Nat
        BY <1>2, <2>5 DEF Owns
      <3> QED
        BY <1>2, <2>5, <3>1
    <2>6. conns'[d].open => k.open \/ q = <<>>
      BY DEF MixInv, OpenedInv
    <2>7. RowsOwned(conns'[d])
      BY <2>1 DEF RowsOwned
    <2>8. /\ Len(q) <= Len(p) /\ Len(p) \in Nat /\ (d # c => Len(p) = Len(q))
          /\ \A i \in 1 .. Len(q) : p[i] = q[i]
          /\ \A i \in 1 .. Len(p) : i \notin 1 .. Len(q) => p[i] = m /\ d = c
      <3>1. CASE d # c
        BY <1>4, <2>2, <3>1
      <3>2. CASE d = c
        <4>1. /\ p \in Seq(Message) /\ Len(p) = Len(q) + 1
              /\ p[Len(q) + 1] = m
              /\ \A i \in 1 .. Len(q) : p[i] = q[i]
          BY <1>1, <1>4, <2>2, <3>2, AppendProperties
        <4> QED
          BY <2>2, <3>2, <4>1
      <3> QED
        BY <3>1, <3>2
    <2> HIDE DEF p, q
    <2>9. RowsSent(p, task')
      <3>1. ASSUME NEW i \in 1 .. Len(p)
            PROVE  /\ \E n \in Nat : p[i].row = Row(p[i].by, n)
                   /\ p[i].live => p[i].row = Row(p[i].by, task'[p[i].by].part)
        <4>1. CASE i \in 1 .. Len(q)
          BY <1>3, <2>1, <2>2, <2>3, <2>8, <4>1 DEF RowsSent
        <4>2. CASE i \notin 1 .. Len(q)
          BY <1>1, <1>3, <2>8, <4>2
        <4> QED
          BY <4>1, <4>2
      <3> QED
        BY <3>1 DEF RowsSent
    <2>10. ASSUME conns'[d].open, NEW w \in Writers, NEW i \in 1 .. Len(p), p[i].by = w
           PROVE  /\ p[i].stmt = "COMMIT" => RowsOf(w) \subseteq k.rows
                  /\ p[i].live /\ p[i].stmt = "INSERT"
                        => RowsUpTo(w, task'[w].part - 1) \subseteq k.rows
      <3>1. CASE i \in 1 .. Len(q)
        <4>1. k.open /\ q[i] = p[i]
          BY <2>2, <2>6, <2>8, <2>10, <3>1, EmptySeq
        <4> QED
          BY <1>3, <2>1, <2>3, <2>4, <2>10, <3>1, <4>1 DEF RowsWritten
      <3>2. CASE i \notin 1 .. Len(q)
        <4>1. p[i] = m /\ d = c /\ w = t
          BY <1>1, <2>8, <2>10, <3>2
        <4>2. s \in {"INSERT", "COMMIT"} => k.open
          BY <2>5, <2>10, <4>1
        <4> QED
          BY <1>1, <1>3, <4>1, <4>2
      <3> QED
        BY <3>1, <3>2
    <2>11. ASSUME conns'[d].open, NEW w \in Writers, Owns(task'[w], d),
                  task'[w].stmt = "INSERT"
           PROVE  RowsUpTo(w, task'[w].part) \subseteq k.rows
      <3>1. w # t /\ task'[w] = task[w] /\ w \in Tasks
        BY <1>3, <2>4, <2>11
      <3>2. k.open
        BY <2>5, <2>11, <3>1
      <3> QED
        BY <2>1, <2>11, <3>1, <3>2 DEF RowsWritten
    <2>12. RowsWritten(d, p, conns'[d], task')
      BY <2>10, <2>11 DEF RowsWritten
    <2> QED
      BY <2>7, <2>9, <2>12 DEF RowsAgree, p
  <1> QED
    BY <1>5, <1>6, NoMoreRows DEF SaveInv

\* A step of the thread of connection c, which becomes k.
LEMMA SaveThread ==
    ASSUME MixInv, SaveInv, NEW c \in Conns, wire[c] # <<>>,
           NEW reply \in Words, Deliver(c, reply), NEW k \in ConnState,
           conns' = [conns EXCEPT ![c] = k],
           k.open => conns[c].open,
           RowsOwned(k),
           Head(wire[c]).stmt \notin Txn => (k.open => k.rows = conns[c].rows),
           Head(wire[c]).stmt = "INSERT" /\ reply = "ok" =>
               (k.open => k.rows = conns[c].rows \cup {Head(wire[c]).row}),
           SavesAreAtomic'
    PROVE  SaveInv'
  <1> DEFINE q == wire[c]
             p == wire'[c]
             h == Head(wire[c])
  <1>1. /\ task \in [Tasks -> TaskState] /\ wire \in [Conns -> Seq(Message)]
        /\ conns \in [Conns -> ConnState]
    BY DEF MixInv, TypesInv
  <1>2. /\ q \in Seq(Message) /\ Len(q) \in Nat /\ 1 \in 1 .. Len(q)
        /\ \A i \in 1 .. Len(q) : q[i] \in Message /\ q[i].by \in Tasks
        /\ h = q[1] /\ h.by \in Tasks
    BY <1>1, MessageFacts, HeadTailProperties, EmptySeq
  <1>3. /\ \A i \in 1 .. Len(p) : i + 1 \in 1 .. Len(q) /\ p[i] = q[i + 1] /\ i + 1 # 1
        /\ \A d \in Conns : d # c => wire'[d] = wire[d]
    <2>1. wire' = [wire EXCEPT ![c] = Tail(q)]
      BY DEF Deliver
    <2>2. /\ Len(Tail(q)) = Len(q) - 1
          /\ \A i \in 1 .. Len(Tail(q)) : Tail(q)[i] = q[i + 1]
      BY <1>2, HeadTailProperties
    <2> QED
      BY <1>1, <1>2, <2>1, <2>2
  <1>4. /\ \A d \in Conns : d # c => conns'[d] = conns[d]
        /\ conns'[c] = k
    BY <1>1
  <1>5. /\ LiveAwaited(c, q, task) /\ WorkIsFirst(q, conns[c])
        /\ OwnersAlone(c, q, conns[c], task)
        /\ RowsSent(q, task) /\ RowsWritten(c, q, conns[c], task)
    BY DEF MixInv, WireInv, WireAgrees, SaveInv, RowsAgree
  <1>6. /\ \A u \in Tasks : ~ (h.live /\ u = h.by) => task'[u] = task[u]
        /\ \A u \in Tasks : /\ task'[u].pc = task[u].pc /\ task'[u].stmt = task[u].stmt
                            /\ task'[u].on = task[u].on /\ task'[u].part = task[u].part
        /\ h.live => task'[h.by].reply = reply
    <2>1. CASE h.live
      <3>1. task' = [task EXCEPT ![h.by] = Answer(task[h.by], reply)]
        BY <2>1 DEF Deliver
      <3> HIDE DEF h, q
      <3> QED
        BY <1>1, <1>2, <2>1, <3>1, AnswerFacts
    <2>2. CASE ~ h.live
      <3>1. task' = task
        BY <2>2 DEF Deliver
      <3> HIDE DEF h, q
      <3> QED
        BY <1>1, <2>2, <3>1
    <2> QED
      BY <2>1, <2>2
  <1>7. h.live => task[h.by].on = c /\ task[h.by].stmt = h.stmt
    BY <1>2, <1>5 DEF LiveAwaited
  <1>8. \A w \in Writers : w \in Tasks
    BY RowFacts
  <1> HIDE DEF q, p, h
  <1>9. PartInv'
    BY <1>6 DEF SaveInv, PartInv
  <1>10. ASSUME NEW d \in Conns, d # c
         PROVE  RowsAgree(d, wire'[d], conns'[d], task')
    <2>1. /\ LiveAwaited(d, wire[d], task) /\ RowsSent(wire[d], task)
          /\ RowsOwned(conns[d]) /\ RowsWritten(d, wire[d], conns[d], task)
      BY DEF MixInv, WireInv, WireAgrees, SaveInv, RowsAgree
    <2>2. \A i \in 1 .. Len(wire[d]) : wire[d][i].by \in Tasks
      BY <1>1, MessageFacts
    <2>3. RowsSent(wire[d], task')
      BY <1>6, <2>1, <2>2 DEF RowsSent
    <2>4. \A u \in Tasks : Owns(task'[u], d) => Owns(task[u], d)
      BY <1>6, <1>7, <1>10 DEF Owns
    <2>5. RowsWritten(d, wire[d], conns[d], task')
      BY <1>6, <1>8, <2>1, <2>4 DEF RowsWritten
    <2> QED
      BY <1>3, <1>4, <1>10, <2>1, <2>3, <2>5 DEF RowsAgree
  <1>11. RowsAgree(c, p, k, task')
    <2>1. RowsSent(p, task')
      BY <1>2, <1>3, <1>5, <1>6 DEF RowsSent
    <2>2. ASSUME k.open, NEW w \in Writers, NEW i \in 1 .. Len(p), p[i].by = w
          PROVE  /\ p[i].stmt = "COMMIT" => RowsOf(w) \subseteq k.rows
                 /\ p[i].live /\ p[i].stmt = "INSERT"
                       => RowsUpTo(w, task'[w].part - 1) \subseteq k.rows
      <3>1. SUFFICES ASSUME p[i].stmt \in {"INSERT", "COMMIT"}
                     PROVE  /\ p[i].stmt = "COMMIT" => RowsOf(w) \subseteq k.rows
                            /\ p[i].live /\ p[i].stmt = "INSERT"
                                  => RowsUpTo(w, task'[w].part - 1) \subseteq k.rows
        OBVIOUS
      <3>2. h.stmt \notin Txn
        BY <1>2, <1>3, <1>5, <3>1 DEF WorkIsFirst
      <3>3. k.rows = conns[c].rows /\ conns[c].open
        BY <2>2, <3>2 DEF h
      <3>4. /\ q[i + 1].by = w /\ q[i + 1].stmt = p[i].stmt
            /\ q[i + 1].live = p[i].live /\ i + 1 \in 1 .. Len(q)
        BY <1>3, <2>2
      <3> QED
        BY <1>5, <1>6, <1>8, <3>3, <3>4 DEF RowsWritten
    <2>3. ASSUME k.open, NEW w \in Writers, Owns(task'[w], c), task'[w].stmt = "INSERT"
          PROVE  RowsUpTo(w, task'[w].part) \subseteq k.rows
      <3>1. CASE h.live /\ w = h.by
        <4> DEFINE n == task[w].part
        <4>1. n \in Nat
          BY <1>1, <1>8 DEF TaskState
        <4>2. h.stmt = "INSERT" /\ reply = "ok" /\ task'[w].part = n
          BY <1>6, <1>7, <1>8, <2>3, <3>1 DEF Owns
        <4>3. k.rows = conns[c].rows \cup {h.row} /\ conns[c].open
          BY <2>3, <4>2 DEF h
        <4>4. RowsUpTo(w, n - 1) \subseteq conns[c].rows
          BY <1>2, <1>5, <3>1, <4>2, <4>3 DEF RowsWritten
        <4>5. h.row = <<w, n>>
          BY <1>2, <1>5, <3>1, <4>1, RowFacts DEF RowsSent
        <4> HIDE DEF n
        <4>6. CASE n = 0
          BY <4>2, <4>6, RowFacts
        <4>7. CASE n # 0
          BY <4>1, <4>2, <4>3, <4>4, <4>5, <4>7, RowFacts
        <4> QED
          BY <4>6, <4>7
      <3>2. CASE ~ (h.live /\ w = h.by)
        <4>1. task'[w] = task[w] /\ w \in Tasks
          BY <1>6, <1>8, <3>2
        <4>2. h.stmt \notin Txn
          BY <1>2, <1>5, <2>3, <4>1 DEF OwnersAlone
        <4>3. k.rows = conns[c].rows /\ conns[c].open
          BY <2>3, <4>2 DEF h
        <4> QED
          BY <1>5, <2>3, <4>1, <4>3 DEF RowsWritten
      <3> QED
        BY <3>1, <3>2
    <2>4. RowsWritten(c, p, k, task')
      BY <2>2, <2>3 DEF RowsWritten
    <2> QED
      BY <2>1, <2>4 DEF RowsAgree
  <1>12. \A d \in Conns : RowsAgree(d, wire'[d], conns'[d], task')
    BY <1>4, <1>10, <1>11 DEF p
  <1> QED
    BY <1>9, <1>12 DEF SaveInv

LEMMA ThreadSaves ==
    ASSUME MixInv, SaveInv, NEW c \in Conns, Execute(c) \/ ExecuteFails(c)
    PROVE  SaveInv'
  <1> DEFINE h == Head(wire[c])
             k == After(c, h)
  <1>1. wire[c] # <<>>
    BY DEF Execute, ExecuteFails
  <1>2. /\ wire[c] \in Seq(Message) /\ 1 \in 1 .. Len(wire[c])
        /\ h = wire[c][1] /\ h \in Message
    BY <1>1, MessageFacts, HeadTailProperties, EmptySeq DEF MixInv, TypesInv
  <1>3. conns[c] \in ConnState /\ conns \in [Conns -> ConnState]
    BY DEF MixInv, TypesInv
  <1>4. /\ h.by \in Tasks /\ h.row \in Rows
        /\ conns[c].open \in BOOLEAN /\ conns[c].owner \in Tasks \cup {Nobody}
        /\ conns[c].rows \in SUBSET Rows
    BY <1>2, <1>3 DEF Message, ConnState
  <1>5. h.stmt \in {"INSERT", "COMMIT"} /\ conns[c].open => conns[c].owner = h.by
    BY <1>2 DEF MixInv, WireInv, WireAgrees, WorkIsFirst
  <1>6. /\ RowsSent(wire[c], task) /\ RowsOwned(conns[c])
        /\ RowsWritten(c, wire[c], conns[c], task)
    BY DEF SaveInv, RowsAgree
  <1>7. \E n \in Nat : h.row = Row(h.by, n)
    BY <1>2, <1>6 DEF RowsSent
  <1>8. /\ h.stmt = "COMMIT" /\ conns[c].open /\ h.by \in Writers
              => RowsOf(h.by) \subseteq conns[c].rows
    BY <1>2, <1>6 DEF RowsWritten
  <1> HIDE DEF h
  <1>9. /\ k.open = (conns[c].open /\ h.stmt # "CLOSE")
        /\ k.owner = IF EndsTransaction(h.stmt) THEN Nobody
                     ELSE IF Opens(c, h) THEN h.by ELSE conns[c].owner
        /\ k.rows = IF EndsTransaction(h.stmt) THEN {}
                    ELSE IF h.stmt = "INSERT" THEN conns[c].rows \cup {h.row}
                    ELSE conns[c].rows
        /\ k \in ConnState
    <2>1. k = [open |-> k.open, owner |-> k.owner, rows |-> k.rows]
      BY DEF After
    <2>2. /\ k.open = (conns[c].open /\ h.stmt # "CLOSE")
          /\ k.owner = IF EndsTransaction(h.stmt) THEN Nobody
                       ELSE IF Opens(c, h) THEN h.by ELSE conns[c].owner
          /\ k.rows = IF EndsTransaction(h.stmt) THEN {}
                      ELSE IF h.stmt = "INSERT" THEN conns[c].rows \cup {h.row}
                      ELSE conns[c].rows
      BY DEF After
    <2> HIDE DEF k
    <2>3. /\ k.open \in BOOLEAN /\ k.owner \in Tasks \cup {Nobody}
          /\ k.rows \in SUBSET Rows
      BY <1>4, <2>2
    <2> QED
      BY <2>1, <2>2, <2>3 DEF ConnState
  <1> HIDE DEF k
  <1>10. /\ k.open => conns[c].open
         /\ h.stmt \notin Txn => (k.open => k.rows = conns[c].rows)
         /\ h.stmt = "INSERT" => k.rows = conns[c].rows \cup {h.row}
    BY <1>9 DEF EndsTransaction, Txn
  <1>11. ASSUME Runs(c, h)
         PROVE  RowsOwned(k)
    <2>1. ASSUME NEW w \in Writers, RowsOf(w) \cap k.rows # {}
          PROVE  k.open /\ k.owner = w
      <3>1. ~ EndsTransaction(h.stmt) /\ h.stmt # "CLOSE"
        BY <1>9, <2>1 DEF EndsTransaction
      <3>2. conns[c].open /\ k.open
        BY <1>9, <1>11, <3>1 DEF Runs
      <3>3. w # Nobody
        BY StoreTasks DEF StoreTasks, Operations
      <3>4. CASE h.stmt = "INSERT"
        <4>1. conns[c].owner = h.by /\ k.owner = h.by
          BY <1>5, <1>9, <3>1, <3>2, <3>4 DEF Opens
        <4>2. CASE RowsOf(w) \cap conns[c].rows # {}
          BY <1>6, <3>2, <4>1, <4>2 DEF RowsOwned
        <4>3. CASE h.row \in RowsOf(w)
          BY <1>4, <1>7, <3>2, <4>1, <4>3, RowFacts
        <4> QED
          BY <1>9, <2>1, <3>1, <3>4, <4>2, <4>3
      <3>5. CASE h.stmt # "INSERT"
        <4>1. k.rows = conns[c].rows /\ conns[c].owner = w
          BY <1>6, <1>9, <2>1, <3>1, <3>5 DEF RowsOwned
        <4>2. h.stmt # "BEGIN"
          BY <1>11, <3>3, <4>1 DEF Runs
        <4> QED
          BY <1>9, <3>1, <3>2, <3>5, <4>1, <4>2 DEF Opens
      <3> QED
        BY <3>4, <3>5
    <2> QED
      BY <2>1 DEF RowsOwned
  <1>12. ASSUME Deliver(c, "failed"), conns' = conns, file' = file
         PROVE  SaveInv'
    <2> DEFINE d == conns[c]
    <2>1. "failed" \in Words /\ "failed" # "ok" /\ SavesAreAtomic'
      BY <1>12, WordFacts, NoMoreRows
    <2>2. /\ d \in ConnState /\ conns' = [conns EXCEPT ![c] = d]
          /\ RowsOwned(d) /\ d.rows = conns[c].rows /\ (d.open => conns[c].open)
      BY <1>3, <1>6, <1>12
    <2> HIDE DEF d
    <2> QED
      BY <1>1, <1>12, <2>1, <2>2, SaveThread
  <1>13. CASE Execute(c) /\ Runs(c, h)
    <2>1. SavesAreAtomic'
      <3>1. CASE h.stmt # "COMMIT"
        <4>1. file' = file
          BY <1>13, <3>1 DEF Execute, h
        <4> QED
          BY <4>1, NoMoreRows
      <3>2. CASE h.stmt = "COMMIT"
        <4>1. file' = file \cup conns[c].rows /\ conns[c].open
          BY <1>13, <3>2 DEF Execute, Visible, Runs, h
        <4>2. conns[c].owner = h.by
          BY <1>5, <3>2, <4>1
        <4>3. ASSUME NEW w \in Writers
              PROVE  RowsOf(w) \cap file' \in {{}, RowsOf(w)}
          <5>1. RowsOf(w) \cap file \in {{}, RowsOf(w)}
            BY DEF SaveInv, SavesAreAtomic
          <5>2. CASE w = h.by
            BY <1>8, <3>2, <4>1, <5>2
          <5>3. CASE w # h.by
            <6>1. RowsOf(w) \cap conns[c].rows = {}
              BY <1>6, <4>2, <5>3 DEF RowsOwned
            <6>2. RowsOf(w) \cap file' = RowsOf(w) \cap file
              BY <4>1, <6>1
            <6> QED
              BY <5>1, <6>2
          <5> QED
            BY <5>2, <5>3
        <4> QED
          BY <4>3 DEF SavesAreAtomic
      <3> QED
        BY <3>1, <3>2
    <2>2. conns' = [conns EXCEPT ![c] = k] /\ (Deliver(c, "absent") \/ Deliver(c, "ok"))
      BY <1>13 DEF Execute, h, k
    <2>3. "absent" \in Words /\ "ok" \in Words
      BY WordFacts
    <2> QED
      BY <1>1, <1>9, <1>10, <1>11, <1>13, <2>1, <2>2, <2>3, SaveThread DEF h
  <1>14. CASE Execute(c) /\ ~ Runs(c, h)
    BY <1>12, <1>14 DEF Execute, h
  <1>15. CASE ExecuteFails(c) /\ conns' # conns
    <2>1. /\ Deliver(c, "failed") /\ file' = file
          /\ conns' = [conns EXCEPT ![c] = k] /\ h.stmt = "CLOSE"
      BY <1>15 DEF ExecuteFails, h, k
    <2>2. Runs(c, h)
      BY <2>1 DEF Runs
    <2>3. "failed" \in Words /\ "failed" # "ok" /\ SavesAreAtomic'
      BY <2>1, WordFacts, NoMoreRows
    <2> QED
      BY <1>1, <1>9, <1>10, <1>11, <2>1, <2>2, <2>3, SaveThread DEF h
  <1>16. CASE ExecuteFails(c) /\ conns' = conns
    BY <1>12, <1>16 DEF ExecuteFails
  <1> QED
    BY <1>13, <1>14, <1>15, <1>16

\* A task that awaits is cancelled.
LEMMA SaveCancel ==
    ASSUME MixInv, SaveInv, NEW t \in Tasks, task[t].pc = "await",
           task' = [task EXCEPT ![t] = Cancelled(@)],
           wire' = [wire EXCEPT ![task[t].on] = Abandoned(@, t)],
           UNCHANGED <<conns, file>>
    PROVE  SaveInv'
  <1>1. /\ task \in [Tasks -> TaskState] /\ wire \in [Conns -> Seq(Message)]
    BY DEF MixInv, TypesInv
  <1>2. /\ \A u \in Tasks : u # t => task'[u] = task[u]
        /\ \A u \in Tasks : /\ task'[u].pc = task[u].pc /\ task'[u].stmt = task[u].stmt
                            /\ task'[u].on = task[u].on /\ task'[u].part = task[u].part
        /\ task'[t].reply = "cancelled"
    BY <1>1, CancelledFacts
  <1>3. PartInv'
    BY <1>2 DEF SaveInv, PartInv
  <1>4. ASSUME NEW d \in Conns
        PROVE  RowsAgree(d, wire'[d], conns[d], task')
    <2> DEFINE q == wire[d]
               p == wire'[d]
    <2>1. /\ RowsSent(q, task) /\ RowsOwned(conns[d])
          /\ RowsWritten(d, q, conns[d], task)
      BY DEF SaveInv, RowsAgree
    <2>2. /\ q \in Seq(Message)
          /\ \A i \in 1 .. Len(q) : q[i].by \in Tasks
      BY <1>1, MessageFacts
    <2>3. /\ Len(p) = Len(q)
          /\ \A i \in 1 .. Len(q) :
                /\ p[i].by = q[i].by /\ p[i].stmt = q[i].stmt /\ p[i].row = q[i].row
                /\ p[i].live => q[i].live
      <3>1. CASE d = task[t].on
        <4>1. p = Abandoned(q, t)
          BY <1>1, <3>1
        <4> HIDE DEF p, q
        <4> QED
          BY <2>2, <4>1, AbandonedFacts
      <3>2. CASE d # task[t].on
        BY <1>1, <3>2
      <3> QED
        BY <3>1, <3>2
    <2> HIDE DEF p, q
    <2>4. \A w \in Writers : w \in Tasks
      BY RowFacts
    <2>5. RowsSent(p, task')
      BY <1>2, <2>1, <2>2, <2>3 DEF RowsSent
    <2>6. \A u \in Tasks : Owns(task'[u], d) => Owns(task[u], d)
      BY <1>2 DEF Owns
    <2>7. RowsWritten(d, p, conns[d], task')
      BY <1>2, <2>1, <2>3, <2>4, <2>6 DEF RowsWritten
    <2> QED
      BY <2>1, <2>5, <2>7 DEF RowsAgree, p
  <1> QED
    BY <1>3, <1>4, NoMoreRows DEF SaveInv
-----------------------------------------------------------------------------
\* One task goes on without sending anything.
LEMMA SaveMove ==
    ASSUME MixInv, SaveInv, NEW t \in Tasks, NEW r,
           task' = [task EXCEPT ![t] = r],
           r.pc # "await", r.pc = "done" \/ r.part = 1,
           ~ (task[t].pc = "await" /\ task[t].reply = "none"),
           UNCHANGED <<wire, conns, file>>
    PROVE  SaveInv'
  <1>1. /\ \A u \in Tasks : u # t => task'[u] = task[u]
        /\ task'[t] = r
    BY DEF MixInv, TypesInv
  <1> QED
    BY <1>1, SaveQuiet

LEMMA SaveEnd ==
    ASSUME MixInv, SaveInv, NEW t \in Tasks, NEW fate \in Words, End(t, fate),
           ~ (task[t].pc = "await" /\ task[t].reply = "none"),
           UNCHANGED <<wire, conns, file>>
    PROVE  SaveInv'
  <1>1. task[t] \in TaskState /\ task' = [task EXCEPT ![t] = Done(task[t], fate)]
    BY DEF MixInv, TypesInv, End
  <1>2. Done(task[t], fate).pc = "done"
    BY <1>1, DoneFacts
  <1> QED
    BY <1>1, <1>2, SaveMove

LEMMA StartsSave ==
    ASSUME MixInv, SaveInv, NEW t \in Operations,
           \/ Refuse(t) \/ WriteStarts(t) \/ ReadStarts(t) \/ InitializeStarts(t)
           \/ Connected(t) \/ ConnectFails(t)
    PROVE  SaveInv'
  <1>1. /\ t \in Tasks /\ task[t] \in TaskState /\ task[t].part = 1
        /\ task[t].pc # "await" /\ file' = file /\ conn \in Nat /\ opened \in Nat
    BY OperationFacts DEF Refuse, WriteStarts, ReadStarts, InitializeStarts, Connected,
       ConnectFails, SaveInv, PartInv, MixInv, TypesInv
  <1>2. ASSUME NEW s \in {"lock", "connect"}
        PROVE  At(task[t], s).pc # "await" /\ At(task[t], s).part = 1
    <2>1. s \in Words /\ s # "await"
      BY <1>2, WordFacts
    <2> QED
      BY <1>1, <2>1, AtFacts
  <1>3. ASSUME NEW s \in {"refused", "unready"}
        PROVE  Done(task[t], s).pc = "done"
    BY <1>1, DoneFacts, WordFacts
  <1>4. CASE Refuse(t)
    <2>1. task' = [task EXCEPT ![t] = Done(task[t], "refused")]
      BY <1>4 DEF Refuse
    <2> QED
      BY <1>1, <1>3, <1>4, <2>1, SaveMove DEF Refuse
  <1>5. CASE WriteStarts(t)
    <2>1. task' = [task EXCEPT ![t] = At(task[t], "lock")]
      BY <1>5 DEF WriteStarts
    <2> QED
      BY <1>1, <1>2, <1>5, <2>1, SaveMove DEF WriteStarts
  <1>6. ASSUME NEW s \in {"SELECT", "VERSION"}, Send(t, task[t], conn, s),
               conns' = conns
        PROVE  SaveInv'
    <2>1. s \in Words /\ s \notin {"INSERT", "COMMIT", "ROLLBACK"}
      BY WordFacts
    <2> QED
      BY <1>1, <1>6, <2>1, SaveSend
  <1>7. CASE ReadStarts(t)
    <2>1. CASE conn # NoConn
      BY <1>6, <1>7, <2>1 DEF ReadStarts
    <2>2. CASE conn = NoConn
      <3>1. task' = [task EXCEPT ![t] = Done(task[t], "unready")]
        BY <1>7, <2>2 DEF ReadStarts
      <3> QED
        BY <1>1, <1>3, <1>7, <2>2, <3>1, SaveMove DEF ReadStarts
    <2> QED
      BY <2>1, <2>2
  <1>8. CASE InitializeStarts(t)
    <2>1. CASE conn # NoConn
      BY <1>6, <1>8, <2>1 DEF InitializeStarts
    <2>2. CASE conn = NoConn
      <3>1. task' = [task EXCEPT ![t] = At(task[t], "connect")]
        BY <1>8, <2>2 DEF InitializeStarts
      <3> QED
        BY <1>1, <1>2, <1>8, <2>2, <3>1, SaveMove DEF InitializeStarts
    <2> QED
      BY <2>1, <2>2
  <1>9. CASE Connected(t)
    <2> DEFINE n == opened + 1
    <2>1. /\ Send(t, task[t], n, "PRAGMA")
          /\ conns' = [conns EXCEPT ![n] = Opened(conns[n])]
          /\ conns \in [Conns -> ConnState] /\ n > opened /\ n \in Nat
      BY <1>1, <1>9 DEF Connected, MixInv, TypesInv
    <2>2. \A k \in ConnState : /\ Opened(k).owner = k.owner /\ Opened(k).rows = k.rows
                               /\ Opened(k).open
      BY DEF ConnState, Opened
    <2> HIDE DEF n
    <2>3. \A d \in Conns : /\ conns'[d].owner = conns[d].owner
                           /\ conns'[d].rows = conns[d].rows
                           /\ conns[d].open => conns'[d].open
                           /\ conns'[d].open => conns[d].open \/ d > opened
      BY <2>1, <2>2
    <2>4. "PRAGMA" \in Words
      BY WordFacts
    <2> QED
      BY <1>1, <2>1, <2>3, <2>4, SaveSend
  <1>10. CASE ConnectFails(t)
    BY <1>1, <1>10, SaveEnd, WordFacts DEF ConnectFails
  <1> QED
    BY <1>4, <1>5, <1>7, <1>8, <1>9, <1>10

LEMMA ResumeSaves ==
    ASSUME MixInv, SaveInv, NEW t \in Operations, Resume(t)
    PROVE  SaveInv'
  <1>1. /\ t \in Tasks /\ task[t] \in TaskState /\ task[t].on \in Nat
        /\ task[t].fate \in Words /\ task[t].reply \in Words
        /\ conn \in Nat /\ task[t].part \in Nat
    BY OperationFacts DEF MixInv, TypesInv, TaskState
  <1>2. ASSUME NEW r \in TaskState, NEW c \in Nat, NEW s \in Words, Send(t, r, c, s),
               UNCHANGED <<conns, file>>,
               ~ (task[t].pc = "await" /\ task[t].reply = "none"),
               s \notin {"INSERT", "COMMIT", "ROLLBACK"} => r.part = 1,
               s \notin {"INSERT", "COMMIT"}
        PROVE  SaveInv'
    BY <1>1, <1>2, SaveSend
  <1>3. CASE PragmaDone(t)
    <2>1. task[t].part = 1 /\ "VERSION" \in Words
      BY <1>1, <1>3, WordFacts DEF PragmaDone, Answered, SaveInv, PartInv
    <2> QED
      BY <1>1, <1>2, <1>3, <2>1 DEF PragmaDone, Answered
  <1>4. CASE MigrationNeeded(t)
    <2>1. task[t].part = 1 /\ task' = [task EXCEPT ![t] = At(task[t], "lock")]
      BY <1>1, <1>4 DEF MigrationNeeded, Answered, SaveInv, PartInv
    <2>2. At(task[t], "lock").pc # "await" /\ At(task[t], "lock").part = 1
      BY <1>1, <2>1, AtFacts, WordFacts
    <2> QED
      BY <1>1, <1>4, <2>1, <2>2, SaveMove DEF MigrationNeeded, Answered
  <1>5. CASE PlainDone(t)
    BY <1>1, <1>5, SaveEnd, WordFacts DEF PlainDone, Answered
  <1>6. CASE Begin(t)
    <2>1. CASE conn # NoConn
      <3>1. task[t].part = 1 /\ "BEGIN" \in Words
        BY <1>1, <1>6, WordFacts DEF Begin, SaveInv, PartInv
      <3> QED
        BY <1>1, <1>2, <1>6, <2>1, <3>1 DEF Begin
    <2>2. CASE conn = NoConn
      BY <1>1, <1>6, <2>2, SaveEnd, WordFacts DEF Begin
    <2> QED
      BY <2>1, <2>2
  <1>7. CASE TransactionStep(t)
    <2> DEFINE c == task[t].on
    <2>1. /\ Owns(task[t], c) /\ task[t].pc = "await" /\ task[t].reply # "none"
          /\ c \in Nat /\ UNCHANGED <<conns, file>>
      BY <1>1, <1>7 DEF TransactionStep, Answered, Owns
    <2>2. /\ NextPart(task[t]) \in TaskState
          /\ NextPart(task[t]).part = task[t].part + 1
      BY <1>1, NextPartFacts
    <2>3. "INSERT" \in Words /\ "COMMIT" \in Words
      BY WordFacts
    <2>4. ASSUME t \in Writers, c \in Conns, conns[c].open, task[t].stmt = "INSERT"
          PROVE  RowsUpTo(t, task[t].part) \subseteq conns[c].rows
      BY <2>1, <2>4 DEF SaveInv, RowsAgree, RowsWritten
    <2>5. CASE task[t].stmt = "BEGIN"
      <3>1. Send(t, task[t], c, "INSERT")
        BY <1>7, <2>5 DEF TransactionStep, Answered
      <3>2. task[t].part = 1
        BY <1>1, <2>1, <2>5 DEF SaveInv, PartInv
      <3>3. t \in Writers => RowsUpTo(t, task[t].part - 1) = {}
        BY <3>2, RowFacts
      <3> HIDE DEF c
      <3> QED
        BY <1>1, <2>1, <2>3, <3>1, <3>2, <3>3, SaveSend
    <2>6. CASE task[t].stmt = "INSERT" /\ ~ LastPart(t)
      <3> DEFINE r == NextPart(task[t])
      <3>1. Send(t, r, c, "INSERT")
        BY <1>7, <2>6 DEF TransactionStep, Answered
      <3>2. r \in TaskState /\ r.part - 1 = task[t].part
        BY <1>1, <2>2
      <3> HIDE DEF c, r
      <3> QED
        BY <1>1, <2>1, <2>3, <2>4, <2>6, <3>1, <3>2, SaveSend
    <2>7. CASE task[t].stmt = "INSERT" /\ LastPart(t)
      <3>1. Send(t, task[t], c, "COMMIT")
        BY <1>7, <2>7 DEF TransactionStep, Answered
      <3>2. t \in Writers => RowsUpTo(t, task[t].part) = RowsOf(t)
        BY <2>7, RowFacts, StoreTasks DEF LastPart, StoreTasks
      <3> HIDE DEF c
      <3> QED
        BY <1>1, <2>1, <2>3, <2>4, <2>7, <3>1, <3>2, SaveSend
    <2>8. task[t].stmt = "BEGIN" \/ task[t].stmt = "INSERT"
      BY <1>7 DEF TransactionStep, Answered
    <2> QED
      BY <2>5, <2>6, <2>7, <2>8
  <1>8. CASE Committed(t)
    BY <1>1, <1>8, SaveEnd, WordFacts DEF Committed, Answered
  <1>9. CASE Failed(t)
    <2>1. Failing(task[t]) \in TaskState /\ "ROLLBACK" \in Words
      BY <1>1, FailingFacts, WordFacts
    <2> QED
      BY <1>1, <1>2, <1>9, <2>1 DEF Failed, Answered
  <1>10. CASE RolledBack(t)
    BY <1>1, <1>10, SaveEnd, WordFacts DEF RolledBack, Answered
  <1> QED
    BY <1>3, <1>4, <1>5, <1>6, <1>7, <1>8, <1>9, <1>10 DEF Resume

LEMMA CancelSaves ==
    ASSUME MixInv, SaveInv, NEW t \in Operations \cup Closers, Cancel(t)
    PROVE  SaveInv'
  <1>1. t \in Tasks /\ task[t] \in TaskState
    BY OperationFacts
  <1>2. CASE task[t].pc = "await"
    BY <1>1, <1>2, SaveCancel DEF Cancel
  <1>3. CASE task[t].pc = "lock"
    BY <1>1, <1>3, SaveEnd, WordFacts DEF Cancel
  <1>4. CASE task[t].pc = "join"
    <2>1. task' = [task EXCEPT ![t] = Done(task[t], "cancelled")]
      BY <1>4 DEF Cancel
    <2>2. Done(task[t], "cancelled").pc = "done"
      BY <1>1, DoneFacts, WordFacts
    <2> QED
      BY <1>1, <1>4, <2>1, <2>2, SaveMove DEF Cancel
  <1> QED
    BY <1>2, <1>3, <1>4 DEF Cancel

LEMMA CloseSaves ==
    ASSUME MixInv, SaveInv,
           \/ \E t \in Closers : Close(t)
           \/ CloseDrained \/ CloseNative \/ CloseAnswered
    PROVE  SaveInv'
  <1>1. /\ CloseTask \in Tasks /\ task \in [Tasks -> TaskState]
        /\ task[CloseTask] \in TaskState /\ conn \in Nat
    BY DEF MixInv, TypesInv, Tasks
  <1>2. UNCHANGED <<conns, file>>
    BY DEF Close, CloseDrained, CloseNative, CloseAnswered, CloseEnds
  <1>3. ASSUME NEW ok \in BOOLEAN, CloseEnds(ok), wire' = wire,
               ~ (task[CloseTask].pc = "await" /\ task[CloseTask].reply = "none")
        PROVE  SaveInv'
    <2>1. ASSUME NEW s \in {"done", "start"}
          PROVE  At(Idle, s).pc # "await" /\ At(Idle, s).part = 1
      <3>1. s \in Words /\ s # "await"
        BY <2>1, WordFacts
      <3> QED
        BY <3>1, IdleFacts, AtFacts
    <2>2. ASSUME NEW u \in Tasks, NEW s \in {"returned", "failed"}
          PROVE  Done(task[u], s).pc = "done"
      <3>1. s \in Words /\ task[u] \in TaskState
        BY <1>1, <2>2, WordFacts
      <3> QED
        BY <3>1, DoneFacts
    <2>3. ASSUME NEW u \in Tasks, task'[u] # task[u]
          PROVE  /\ task'[u].pc # "await"
                 /\ task'[u].pc = "done" \/ task'[u].part = 1
                 /\ ~ (task[u].pc = "await" /\ task[u].reply = "none")
      <3>1. CASE u = CloseTask
        <4>1. task'[u] \in {At(Idle, "done"), At(Idle, "start")}
          BY <1>1, <1>3, <3>1 DEF CloseEnds
        <4> QED
          BY <1>3, <2>1, <3>1, <4>1
      <3>2. CASE u # CloseTask
        <4>1. /\ task'[u] \in {Done(task[u], "returned"), Done(task[u], "failed")}
              /\ task[u].pc = "join"
          BY <1>3, <2>3, <3>2 DEF CloseEnds
        <4> QED
          BY <2>2, <4>1
      <3> QED
        BY <3>1, <3>2
    <2> QED
      BY <1>2, <1>3, <2>3, SaveQuiet
  <1>4. ASSUME NEW t \in Closers, Close(t)
        PROVE  SaveInv'
    <2>1. /\ t \in Tasks /\ t # CloseTask /\ task[t] \in TaskState
          /\ task[t].pc = "start" /\ wire' = wire /\ task[t].part = 1
      BY <1>4, OperationFacts DEF Close, SaveInv, PartInv
    <2> DEFINE a == At(task[t], "join")
               b == At(task[CloseTask], "drain")
               d == Done(task[t], "returned")
    <2>2. a.pc # "await" /\ a.part = 1 /\ d.pc = "done"
      <3>1. "join" \in Words /\ "returned" \in Words
        BY WordFacts
      <3>2. a.pc = "join" /\ a.part = task[t].part
        BY <2>1, <3>1, AtFacts
      <3>3. d.pc = "done"
        BY <2>1, <3>1, DoneFacts
      <3> QED
        BY <2>1, <3>2, <3>3
    <2>3. CASE lifecycle = "open"
      <3>1. task[CloseTask].pc = "start" /\ task[CloseTask].part = 1
        BY <1>1, <2>3 DEF MixInv, CloseInv, SaveInv, PartInv
      <3>2. b.pc # "await" /\ b.part = 1
        <4>1. "drain" \in Words /\ "drain" # "await"
          BY WordFacts
        <4> QED
          BY <1>1, <3>1, <4>1, AtFacts
      <3>3. task' = [task EXCEPT ![t] = a, ![CloseTask] = b]
        BY <1>4, <2>1, <2>3 DEF Close
      <3> HIDE DEF a, b, d
      <3>4. /\ task'[t] = a /\ task'[CloseTask] = b
            /\ \A u \in Tasks : u # t /\ u # CloseTask => task'[u] = task[u]
        BY <1>1, <2>1, <3>3
      <3>5. \A u \in Tasks : task'[u] # task[u] =>
               /\ task'[u].pc # "await"
               /\ task'[u].pc = "done" \/ task'[u].part = 1
               /\ ~ (task[u].pc = "await" /\ task[u].reply = "none")
        BY <2>1, <2>2, <3>1, <3>2, <3>4
      <3> QED
        BY <1>2, <2>1, <3>5, SaveQuiet
    <2>4. CASE lifecycle # "open"
      <3>1. task' = [task EXCEPT ![t] = a] \/ task' = [task EXCEPT ![t] = d]
        BY <1>4, <2>4 DEF Close
      <3> HIDE DEF a, b, d
      <3> QED
        BY <1>2, <2>1, <2>2, <3>1, SaveMove
    <2> QED
      BY <2>3, <2>4
  <1>5. CASE CloseDrained
    <2>1. /\ task' = [task EXCEPT ![CloseTask] = At(task[CloseTask], "lock")]
          /\ task[CloseTask].pc = "drain" /\ wire' = wire /\ task[CloseTask].part = 1
      BY <1>1, <1>5 DEF CloseDrained, SaveInv, PartInv
    <2>2. At(task[CloseTask], "lock").pc # "await" /\ At(task[CloseTask], "lock").part = 1
      <3>1. "lock" \in Words /\ "lock" # "await"
        BY WordFacts
      <3> QED
        BY <1>1, <2>1, <3>1, AtFacts
    <2> QED
      BY <1>1, <1>2, <2>1, <2>2, SaveMove
  <1>6. CASE CloseNative
    <2>1. CASE conn # NoConn
      <3>1. /\ Send(CloseTask, task[CloseTask], conn, "CLOSE")
            /\ task[CloseTask].pc = "lock" /\ task[CloseTask].part = 1
        BY <1>1, <1>6, <2>1 DEF CloseNative, SaveInv, PartInv
      <3>2. "CLOSE" \in Words
        BY WordFacts
      <3> QED
        BY <1>1, <1>2, <3>1, <3>2, SaveSend
    <2>2. CASE conn = NoConn
      BY <1>3, <1>6, <2>2 DEF CloseNative
    <2> QED
      BY <2>1, <2>2
  <1>7. CASE CloseAnswered
    BY <1>3, <1>7 DEF CloseAnswered, Answered
  <1> QED
    BY <1>4, <1>5, <1>6, <1>7

LEMMA SaveInitially == Init => SaveInv
  <1> SUFFICES ASSUME Init PROVE SaveInv
    OBVIOUS
  <1>1. \A t \in Tasks : task[t].part = 1 /\ task[t].pc = "start"
    BY IdleFacts DEF Init
  <1>2. PartInv
    BY <1>1 DEF PartInv
  <1>3. ASSUME NEW c \in Conns
        PROVE  RowsAgree(c, wire[c], conns[c], task)
    <2>1. /\ wire[c] = <<>> /\ Len(wire[c]) = 0 /\ conns[c].rows = {} /\ ~ conns[c].open
      BY EmptySeq DEF Init
    <2> QED
      BY <2>1 DEF RowsAgree, RowsSent, RowsOwned, RowsWritten
  <1>4. ASSUME NEW w \in Writers
        PROVE  RowsOf(w) \cap file = {}
    <2>1. file \subseteq {Schema, Earlier}
      BY StoreRows DEF Init, StoreRows
    <2>2. Schema \notin RowsOf(w) /\ Earlier \notin RowsOf(w)
      BY RowFacts
    <2> QED
      BY <2>1, <2>2
  <1> QED
    BY <1>2, <1>3, <1>4 DEF SaveInv, SavesAreAtomic

LEMMA SaveStep == MixInv /\ SaveInv /\ [Next]_svars => SaveInv'
  <1> SUFFICES ASSUME MixInv, SaveInv, [Next]_svars PROVE SaveInv'
    OBVIOUS
  <1>1. ASSUME UNCHANGED svars PROVE SaveInv'
    BY <1>1, SaveQuiet DEF svars
  <1>2. ASSUME NEW t \in Operations, Refuse(t) \/ Resume(t) PROVE SaveInv'
    BY <1>2, StartsSave, ResumeSaves
  <1>3. ASSUME NEW t \in Writers, WriteStarts(t) PROVE SaveInv'
    BY <1>3, StartsSave DEF Operations
  <1>4. ASSUME NEW t \in Readers, ReadStarts(t) PROVE SaveInv'
    BY <1>4, StartsSave DEF Operations
  <1>5. ASSUME NEW t \in Initializers,
               InitializeStarts(t) \/ Connected(t) \/ ConnectFails(t)
        PROVE  SaveInv'
    BY <1>5, StartsSave DEF Operations
  <1>6. ASSUME NEW t \in Operations \cup Closers, Cancel(t) PROVE SaveInv'
    BY <1>6, CancelSaves
  <1>7. ASSUME NEW t \in Closers, Close(t) PROVE SaveInv'
    BY <1>7, CloseSaves
  <1>8. CASE CloseDrained \/ CloseNative \/ CloseAnswered
    BY <1>8, CloseSaves
  <1>9. ASSUME NEW c \in Conns, Execute(c) \/ ExecuteFails(c) PROVE SaveInv'
    BY <1>9, ThreadSaves
  <1>10. CASE Finished
    BY <1>1, <1>10 DEF Finished
  <1> QED
    BY <1>1, <1>2, <1>3, <1>4, <1>5, <1>6, <1>7, <1>8, <1>9, <1>10 DEF Next

\* Wherever a statement fails, a task is cancelled or the process stops, the
\* rows of one save are in the file together or not at all (write() and the
\* saves that use it).
THEOREM SavesStayAtomic == Spec => []SavesAreAtomic
  <1>1. SaveInv => SavesAreAtomic
    BY DEF SaveInv
  <1>2. Spec => [](MixInv /\ SaveInv)
    BY MixInitially, MixStep, SaveInitially, SaveStep, PTL DEF Spec
  <1> QED
    BY <1>1, <1>2, PTL
-----------------------------------------------------------------------------
\* A COMMIT of w that nobody awaits any more is on its way.
CommitLeft(q, w) ==
    \E i \in 1 .. Len(q) : q[i].by = w /\ q[i].stmt = "COMMIT" /\ ~ q[i].live

\* A save awaits statements of a transaction, and rolls back for a reason.
Saving(r) ==
    r.pc = "await" =>
        /\ r.stmt \in Txn
        /\ r.stmt = "ROLLBACK" => r.fate \in {"failed", "cancelled"}

\* The caller knows, or is about to be told, that its rows are committed.
Told(r) ==
    \/ r.pc = "await" /\ r.stmt = "COMMIT" /\ r.reply = "ok"
    \/ r.pc = "done" /\ r.fate = "returned"

\* Nothing of the save is committed, and nothing will be that it does not await.
Untold(r) ==
    \/ r.pc \in {"start", "lock"}
    \/ r.pc = "await" /\ r.stmt \in {"BEGIN", "INSERT"}
    \/ r.pc = "await" /\ r.stmt = "COMMIT" /\ r.reply \in {"none", "failed"}
    \/ r.pc = "await" /\ r.stmt = "ROLLBACK" /\ r.fate = "failed"
    \/ r.pc = "done" /\ r.fate \in {"failed", "refused", "unready"}

OutcomeInv ==
    \A w \in Writers :
        /\ Saving(task[w])
        /\ Told(task[w]) => RowsOf(w) \subseteq file
        /\ Untold(task[w]) =>
              /\ RowsOf(w) \cap file = {}
              /\ \A c \in Conns : ~ CommitLeft(wire[c], w)
-----------------------------------------------------------------------------
\* How the steps of a task leave the error it will end with.
LEMMA FateFacts ==
    ASSUME NEW r \in TaskState
    PROVE  /\ \A s \in Words : Done(r, s).fate = s
           /\ \A s \in Words : Answer(r, s).fate = r.fate
           /\ \A s \in Words, c \in Nat : Awaiting(r, c, s).fate = r.fate
           /\ Cancelled(r).fate = r.fate /\ Failing(r).fate = r.reply
  BY DEF TaskState, Done, Answer, Awaiting, Cancelled, Failing

\* A writer does nothing else.
LEMMA WriterFacts ==
    ASSUME NEW w \in Writers
    PROVE  /\ w \in Operations /\ w \in Tasks /\ w # CloseTask
           /\ w \notin Readers /\ w \notin Initializers /\ w \notin Closers
  BY StoreTasks DEF StoreTasks, Operations, Tasks

\* A step of a task that leaves the file alone: what the task knows next it
\* knew before, and only a COMMIT it gives up is left behind.
LEMMA OutcomeStep ==
    ASSUME OutcomeInv, NEW t \in Tasks, file' = file,
           \A u \in Tasks : u # t => task'[u] = task[u],
           \A c \in Conns, w \in Writers : CommitLeft(wire'[c], w) =>
               CommitLeft(wire[c], w) \/ (w = t /\ ~ Untold(task'[t])),
           t \in Writers =>
               /\ Saving(task'[t])
               /\ Told(task'[t]) => Told(task[t])
               /\ Untold(task'[t]) => Untold(task[t])
    PROVE  OutcomeInv'
  <1>1. ASSUME NEW w \in Writers
        PROVE  /\ Saving(task'[w])
               /\ Told(task'[w]) => RowsOf(w) \subseteq file'
               /\ Untold(task'[w]) =>
                     /\ RowsOf(w) \cap file' = {}
                     /\ \A c \in Conns : ~ CommitLeft(wire'[c], w)
    <2>1. /\ Saving(task[w])
          /\ Told(task[w]) => RowsOf(w) \subseteq file
          /\ Untold(task[w]) =>
                /\ RowsOf(w) \cap file = {}
                /\ \A c \in Conns : ~ CommitLeft(wire[c], w)
      BY DEF OutcomeInv
    <2>2. /\ Saving(task'[w])
          /\ Told(task'[w]) => Told(task[w])
          /\ Untold(task'[w]) => Untold(task[w])
      BY <2>1, WriterFacts
    <2> QED
      BY <2>1, <2>2
  <1> QED
    BY <1>1 DEF OutcomeInv

\* A statement that is sent is awaited.
LEMMA OutcomeSend ==
    ASSUME MixInv, OutcomeInv, NEW t \in Tasks, NEW r \in TaskState, NEW c \in Nat,
           NEW s \in Words, Send(t, r, c, s), file' = file,
           t \in Writers =>
               /\ s \in Txn
               /\ s = "ROLLBACK" => r.fate \in {"failed", "cancelled"}
               /\ s # "ROLLBACK" \/ r.fate = "failed" => Untold(task[t])
    PROVE  OutcomeInv'
  <1> DEFINE m == Statement(t, s, r.part)
             a == Awaiting(r, c, s)
  <1>1. /\ task \in [Tasks -> TaskState] /\ wire \in [Conns -> Seq(Message)]
        /\ r.part \in Nat
    BY DEF MixInv, TypesInv, TaskState
  <1>2. m \in Message /\ m.live
    BY <1>1, StatementFacts
  <1>3. a.pc = "await" /\ a.stmt = s /\ a.reply = "none" /\ a.fate = r.fate
    BY AwaitingFacts, FateFacts
  <1>4. task' = [task EXCEPT ![t] = a] /\ wire' = [wire EXCEPT ![c] = Append(@, m)]
    BY DEF Send
  <1> HIDE DEF m, a
  <1>5. task'[t] = a /\ \A u \in Tasks : u # t => task'[u] = task[u]
    BY <1>1, <1>4
  <1>6. ASSUME NEW d \in Conns, NEW w \in Writers, CommitLeft(wire'[d], w)
        PROVE  CommitLeft(wire[d], w)
    <2>1. CASE d = c
      <3> DEFINE q == wire[d]
      <3>1. q \in Seq(Message) /\ wire'[d] = Append(q, m)
        BY <1>1, <1>4, <2>1
      <3> HIDE DEF q
      <3>2. /\ Len(Append(q, m)) = Len(q) + 1 /\ Len(q) \in Nat
            /\ Append(q, m)[Len(q) + 1] = m
            /\ \A i \in 1 .. Len(q) : Append(q, m)[i] = q[i]
        BY <1>2, <3>1, AppendProperties, LenProperties
      <3>3. PICK i \in 1 .. Len(Append(q, m)) :
                /\ Append(q, m)[i].by = w /\ Append(q, m)[i].stmt = "COMMIT"
                /\ ~ Append(q, m)[i].live
        BY <1>6, <3>1 DEF CommitLeft
      <3>4. i # Len(q) + 1
        BY <1>2, <3>2, <3>3
      <3>5. i \in 1 .. Len(q)
        BY <3>2, <3>4
      <3>6. q[i].by = w /\ q[i].stmt = "COMMIT" /\ ~ q[i].live
        BY <3>2, <3>3, <3>5
      <3>7. CommitLeft(q, w)
        BY <3>5, <3>6 DEF CommitLeft
      <3> QED
        BY <3>7 DEF q
    <2>2. CASE d # c
      BY <1>1, <1>4, <1>6, <2>2
    <2> QED
      BY <2>1, <2>2
  <1>7. t \in Writers =>
            /\ Saving(task'[t])
            /\ Told(task'[t]) => Told(task[t])
            /\ Untold(task'[t]) => Untold(task[t])
    <2>1. t \in Writers => Saving(task'[t])
      BY <1>3, <1>5 DEF Saving
    <2>2. ~ Told(task'[t])
      BY <1>3, <1>5 DEF Told
    <2>3. Untold(task'[t]) => s # "ROLLBACK" \/ r.fate = "failed"
      BY <1>3, <1>5 DEF Untold
    <2> QED
      BY <2>1, <2>2, <2>3
  <1> QED
    BY <1>5, <1>6, <1>7, OutcomeStep

\* A task goes on or ends without sending anything.
LEMMA OutcomeMove ==
    ASSUME MixInv, OutcomeInv, NEW t \in Tasks, NEW r,
           task' = [task EXCEPT ![t] = r], UNCHANGED <<wire, file>>,
           t \in Writers =>
               /\ r.pc # "await"
               /\ Told(r) => Told(task[t])
               /\ Untold(r) => Untold(task[t])
    PROVE  OutcomeInv'
  <1>1. /\ \A u \in Tasks : u # t => task'[u] = task[u]
        /\ task'[t] = r
    BY DEF MixInv, TypesInv
  <1>2. t \in Writers => Saving(r)
    BY DEF Saving
  <1> QED
    BY <1>1, <1>2, OutcomeStep

LEMMA OutcomeEnd ==
    ASSUME MixInv, OutcomeInv, NEW t \in Tasks, NEW fate \in Words, End(t, fate),
           UNCHANGED <<wire, file>>,
           t \in Writers =>
               /\ fate = "returned" => Told(task[t])
               /\ fate \in {"failed", "refused", "unready"} => Untold(task[t])
    PROVE  OutcomeInv'
  <1> DEFINE d == Done(task[t], fate)
  <1>1. task[t] \in TaskState /\ task' = [task EXCEPT ![t] = d]
    BY DEF MixInv, TypesInv, End
  <1>2. d.pc = "done" /\ d.fate = fate
    BY <1>1, DoneFacts, FateFacts
  <1> HIDE DEF d
  <1>3. Told(d) => fate = "returned"
    BY <1>2 DEF Told
  <1>4. Untold(d) => fate \in {"failed", "refused", "unready"}
    BY <1>2 DEF Untold
  <1> QED
    BY <1>1, <1>2, <1>3, <1>4, OutcomeMove

\* A task that awaits is cancelled: the COMMIT it may leave behind makes it one
\* that does not know.
LEMMA OutcomeCancel ==
    ASSUME MixInv, OutcomeInv, NEW t \in Tasks, task[t].pc = "await",
           task' = [task EXCEPT ![t] = Cancelled(@)],
           wire' = [wire EXCEPT ![task[t].on] = Abandoned(@, t)], file' = file
    PROVE  OutcomeInv'
  <1>1. /\ task \in [Tasks -> TaskState] /\ wire \in [Conns -> Seq(Message)]
    BY DEF MixInv, TypesInv
  <1>2. /\ \A u \in Tasks : u # t => task'[u] = task[u]
        /\ task'[t].pc = "await" /\ task'[t].stmt = task[t].stmt
        /\ task'[t].reply = "cancelled" /\ task'[t].fate = task[t].fate
    BY <1>1, CancelledFacts, FateFacts
  <1>3. ASSUME NEW d \in Conns, NEW w \in Writers, CommitLeft(wire'[d], w)
        PROVE  CommitLeft(wire[d], w) \/ (w = t /\ task[t].stmt = "COMMIT")
    <2>1. CASE d = task[t].on
      <3> DEFINE q == wire[d]
                 p == Abandoned(q, t)
      <3>1. /\ q \in Seq(Message) /\ wire'[d] = p /\ LiveAwaited(d, q, task)
        BY <1>1, <2>1 DEF MixInv, WireInv, WireAgrees
      <3> HIDE DEF q
      <3>2. /\ Len(p) = Len(q)
            /\ \A i \in 1 .. Len(q) :
                  /\ p[i].by = q[i].by /\ p[i].stmt = q[i].stmt
                  /\ q[i].by # t => p[i] = q[i]
        BY <3>1, AbandonedFacts
      <3> HIDE DEF p
      <3>3. PICK i \in 1 .. Len(p) : p[i].by = w /\ p[i].stmt = "COMMIT" /\ ~ p[i].live
        BY <1>3, <3>1 DEF CommitLeft
      <3>4. i \in 1 .. Len(q) /\ q[i].by = w /\ q[i].stmt = "COMMIT"
        BY <3>2, <3>3
      <3>5. CASE ~ q[i].live
        BY <3>4, <3>5 DEF CommitLeft, q
      <3>6. CASE q[i].live
        BY <3>1, <3>2, <3>3, <3>4, <3>6 DEF LiveAwaited
      <3> QED
        BY <3>5, <3>6
    <2>2. CASE d # task[t].on
      BY <1>1, <1>3, <2>2
    <2> QED
      BY <2>1, <2>2
  <1>4. task[t].stmt = "COMMIT" => ~ Untold(task'[t])
    BY <1>2 DEF Untold
  <1>5. t \in Writers =>
            /\ Saving(task'[t])
            /\ Told(task'[t]) => Told(task[t])
            /\ Untold(task'[t]) => Untold(task[t])
    <2>1. t \in Writers => Saving(task'[t])
      BY <1>2 DEF OutcomeInv, Saving
    <2>2. ~ Told(task'[t])
      BY <1>2 DEF Told
    <2>3. Untold(task'[t]) => Untold(task[t])
      BY <1>2 DEF Untold
    <2> QED
      BY <2>1, <2>2, <2>3
  <1> QED
    BY <1>2, <1>3, <1>4, <1>5, OutcomeStep

\* A step of the thread of connection c: the file takes the rows of a COMMIT
\* that is answered "ok", and of no other statement.
LEMMA OutcomeThread ==
    ASSUME MixInv, SaveInv, OutcomeInv, NEW c \in Conns, wire[c] # <<>>,
           NEW reply \in Words, reply # "none", Deliver(c, reply),
           \/ /\ file' = file
              /\ Head(wire[c]).stmt # "COMMIT" \/ reply = "failed"
           \/ /\ file' = file \cup conns[c].rows /\ conns[c].open
              /\ Head(wire[c]).stmt = "COMMIT" /\ reply = "ok"
    PROVE  OutcomeInv'
  <1> DEFINE q == wire[c]
             h == Head(wire[c])
  <1>1. /\ task \in [Tasks -> TaskState] /\ wire \in [Conns -> Seq(Message)]
    BY DEF MixInv, TypesInv
  <1>2. /\ q \in Seq(Message) /\ Len(q) \in Nat /\ 1 \in 1 .. Len(q)
        /\ \A i \in 1 .. Len(q) : q[i] \in Message /\ q[i].by \in Tasks
        /\ h = q[1] /\ h.by \in Tasks
    <2>1. q \in Seq(Message) /\ q # <<>>
      BY <1>1
    <2>2. h = q[1] /\ Len(q) \in Nat /\ 1 \in 1 .. Len(q)
      BY <2>1, HeadTailProperties, LenProperties, EmptySeq
    <2>3. \A i \in 1 .. Len(q) : q[i] \in Message /\ q[i].by \in Tasks
      BY <2>1, MessageFacts
    <2> QED
      BY <2>1, <2>2, <2>3
  <1>3. /\ LiveAwaited(c, q, task) /\ WorkIsFirst(q, conns[c])
        /\ RowsOwned(conns[c]) /\ RowsWritten(c, q, conns[c], task)
    BY DEF MixInv, WireInv, WireAgrees, SaveInv, RowsAgree
  <1>4. h.live => /\ task[h.by].pc = "await" /\ task[h.by].stmt = h.stmt
                  /\ task[h.by].reply = "none"
    BY <1>2, <1>3 DEF LiveAwaited
  <1>5. /\ \A u \in Tasks : ~ (h.live /\ u = h.by) => task'[u] = task[u]
        /\ h.live => /\ task'[h.by].pc = "await" /\ task'[h.by].stmt = h.stmt
                     /\ task'[h.by].reply = reply /\ task'[h.by].fate = task[h.by].fate
    <2>1. CASE h.live
      <3>1. task' = [task EXCEPT ![h.by] = Answer(task[h.by], reply)]
        BY <2>1 DEF Deliver
      <3> QED
        BY <1>1, <1>2, <1>4, <2>1, <3>1, AnswerFacts, FateFacts
    <2>2. CASE ~ h.live
      <3>1. task' = task
        BY <2>2 DEF Deliver
      <3> QED
        BY <1>1, <2>2, <3>1
    <2> QED
      BY <2>1, <2>2
  <1>6. ASSUME NEW d \in Conns, NEW w, CommitLeft(wire'[d], w)
        PROVE  CommitLeft(wire[d], w)
    <2>1. wire' = [wire EXCEPT ![c] = Tail(q)]
      BY DEF Deliver
    <2>2. CASE d = c
      <3>1. /\ wire'[d] = Tail(q) /\ Len(Tail(q)) = Len(q) - 1
            /\ \A i \in 1 .. Len(Tail(q)) : Tail(q)[i] = q[i + 1]
        BY <1>1, <1>2, <2>1, <2>2, HeadTailProperties
      <3>2. PICK i \in 1 .. Len(Tail(q)) :
                Tail(q)[i].by = w /\ Tail(q)[i].stmt = "COMMIT" /\ ~ Tail(q)[i].live
        BY <1>6, <3>1 DEF CommitLeft
      <3>3. i + 1 \in 1 .. Len(q) /\ Tail(q)[i] = q[i + 1]
        BY <1>2, <3>1, <3>2
      <3>4. CommitLeft(q, w)
        BY <3>2, <3>3 DEF CommitLeft
      <3> QED
        BY <2>2, <3>4
    <2>3. CASE d # c
      BY <1>1, <1>6, <2>1, <2>3
    <2> QED
      BY <2>2, <2>3
  <1>7. h.stmt = "COMMIT" /\ ~ h.live => CommitLeft(q, h.by)
    BY <1>2 DEF CommitLeft
  <1>8. h.stmt = "COMMIT" /\ conns[c].open =>
            /\ conns[c].owner = h.by
            /\ h.by \in Writers => RowsOf(h.by) \subseteq conns[c].rows
    BY <1>2, <1>3 DEF WorkIsFirst, RowsWritten
  <1> HIDE DEF q, h
  <1>9. \A w \in Writers : w # h.by => RowsOf(w) \cap file' = RowsOf(w) \cap file
    <2>1. CASE file' = file
      BY <2>1
    <2>2. CASE file' # file
      <3>1. file' = file \cup conns[c].rows /\ conns[c].open /\ conns[c].owner = h.by
        BY <1>8, <2>2 DEF h
      <3>2. \A w \in Writers : w # h.by => RowsOf(w) \cap conns[c].rows = {}
        BY <1>3, <3>1 DEF RowsOwned
      <3> QED
        BY <3>1, <3>2
    <2> QED
      BY <2>1, <2>2
  <1>10. file \subseteq file'
    OBVIOUS
  <1>11. ASSUME NEW w \in Writers
         PROVE  /\ Saving(task'[w])
                /\ Told(task'[w]) => RowsOf(w) \subseteq file'
                /\ Untold(task'[w]) =>
                      /\ RowsOf(w) \cap file' = {}
                      /\ \A d \in Conns : ~ CommitLeft(wire'[d], w)
    <2>1. /\ Saving(task[w])
          /\ Told(task[w]) => RowsOf(w) \subseteq file
          /\ Untold(task[w]) =>
                /\ RowsOf(w) \cap file = {}
                /\ \A d \in Conns : ~ CommitLeft(wire[d], w)
      BY DEF OutcomeInv
    <2>2. w \in Tasks
      BY WriterFacts
    <2>3. CASE ~ (h.live /\ w = h.by)
      <3>1. task'[w] = task[w]
        BY <1>5, <2>2, <2>3
      <3>2. Untold(task[w]) => RowsOf(w) \cap file' = {}
        <4>1. CASE w # h.by
          BY <1>9, <2>1, <4>1
        <4>2. CASE w = h.by /\ Untold(task[w])
          <5>1. h.stmt # "COMMIT"
            BY <1>7, <2>1, <2>3, <4>2 DEF q
          <5> QED
            BY <2>1, <4>2, <5>1 DEF h
        <4> QED
          BY <4>1, <4>2
      <3> QED
        BY <1>6, <1>10, <2>1, <3>1, <3>2
    <2>4. CASE h.live /\ w = h.by
      <3>1. /\ task'[w].pc = "await" /\ task'[w].stmt = h.stmt
            /\ task'[w].reply = reply /\ task'[w].fate = task[w].fate
            /\ task[w].pc = "await" /\ task[w].stmt = h.stmt
            /\ task[w].reply = "none"
        BY <1>4, <1>5, <2>4
      <3>2. Saving(task'[w])
        BY <2>1, <3>1 DEF Saving
      <3>3. ASSUME Told(task'[w])
            PROVE  RowsOf(w) \subseteq file'
        <4>1. h.stmt = "COMMIT" /\ reply = "ok"
          BY <3>1, <3>3 DEF Told
        <4>2. file' = file \cup conns[c].rows /\ conns[c].open
          BY <4>1 DEF h
        <4> QED
          BY <1>8, <2>4, <4>1, <4>2
      <3>4. ASSUME Untold(task'[w])
            PROVE  Untold(task[w]) /\ ~ (h.stmt = "COMMIT" /\ reply = "ok")
        BY <3>1, <3>4 DEF Untold
      <3>5. Untold(task'[w]) => file' = file
        BY <3>4 DEF h
      <3> QED
        BY <1>6, <2>1, <3>2, <3>3, <3>4, <3>5
    <2> QED
      BY <2>3, <2>4
  <1> QED
    BY <1>11 DEF OutcomeInv
-----------------------------------------------------------------------------
\* What an operation begins with is not told, nor committed.
LEMMA StartsTell ==
    ASSUME MixInv, OutcomeInv, NEW t \in Operations,
           \/ Refuse(t)
           \/ t \in Writers /\ WriteStarts(t)
           \/ t \in Readers /\ ReadStarts(t)
           \/ t \in Initializers
              /\ (InitializeStarts(t) \/ Connected(t) \/ ConnectFails(t))
    PROVE  OutcomeInv'
  <1>1. /\ t \in Tasks /\ task[t] \in TaskState /\ file' = file
        /\ conn \in Nat /\ opened \in Nat
    BY OperationFacts DEF Refuse, WriteStarts, ReadStarts, InitializeStarts, Connected,
       ConnectFails, MixInv, TypesInv
  <1>2. task[t].pc = "start" => Untold(task[t])
    BY DEF Untold
  <1>3. ASSUME NEW s \in {"refused", "unready"}
        PROVE  /\ Done(task[t], s).pc # "await" /\ ~ Told(Done(task[t], s))
    <2>1. s \in Words /\ s # "returned"
      BY <1>3, WordFacts
    <2>2. Done(task[t], s).pc = "done" /\ Done(task[t], s).fate = s
      BY <1>1, <2>1, DoneFacts, FateFacts
    <2> QED
      BY <2>1, <2>2 DEF Told
  <1>4. CASE Refuse(t)
    <2>1. /\ task' = [task EXCEPT ![t] = Done(task[t], "refused")]
          /\ task[t].pc = "start" /\ wire' = wire
      BY <1>4 DEF Refuse
    <2> QED
      BY <1>1, <1>2, <1>3, <2>1, OutcomeMove
  <1>5. CASE t \in Writers /\ WriteStarts(t)
    <2>1. /\ task' = [task EXCEPT ![t] = At(task[t], "lock")]
          /\ task[t].pc = "start" /\ wire' = wire
      BY <1>5 DEF WriteStarts
    <2>2. At(task[t], "lock").pc = "lock"
      BY <1>1, AtFacts, WordFacts
    <2>3. ~ Told(At(task[t], "lock"))
      BY <2>2 DEF Told
    <2> QED
      BY <1>1, <1>2, <2>1, <2>2, <2>3, OutcomeMove
  <1>6. ASSUME t \notin Writers, NEW s \in {"SELECT", "VERSION"}, Send(t, task[t], conn, s)
        PROVE  OutcomeInv'
    <2>1. s \in Words
      BY <1>6, WordFacts
    <2> QED
      BY <1>1, <1>6, <2>1, OutcomeSend
  <1>7. CASE t \in Readers /\ ReadStarts(t)
    <2>1. t \notin Writers
      BY <1>7, WriterFacts
    <2>2. CASE conn # NoConn
      BY <1>6, <1>7, <2>1, <2>2 DEF ReadStarts
    <2>3. CASE conn = NoConn
      <3>1. task' = [task EXCEPT ![t] = Done(task[t], "unready")] /\ wire' = wire
        BY <1>7, <2>3 DEF ReadStarts
      <3> QED
        BY <1>1, <2>1, <3>1, OutcomeMove
    <2> QED
      BY <2>2, <2>3
  <1>8. CASE t \in Initializers /\ InitializeStarts(t)
    <2>1. t \notin Writers
      BY <1>8, WriterFacts
    <2>2. CASE conn # NoConn
      BY <1>6, <1>8, <2>1, <2>2 DEF InitializeStarts
    <2>3. CASE conn = NoConn
      <3>1. task' = [task EXCEPT ![t] = At(task[t], "connect")] /\ wire' = wire
        BY <1>8, <2>3 DEF InitializeStarts
      <3> QED
        BY <1>1, <2>1, <3>1, OutcomeMove
    <2> QED
      BY <2>2, <2>3
  <1>9. CASE t \in Initializers /\ Connected(t)
    <2> DEFINE n == opened + 1
    <2>1. Send(t, task[t], n, "PRAGMA") /\ n \in Nat
      BY <1>1, <1>9 DEF Connected
    <2>2. t \notin Writers /\ "PRAGMA" \in Words
      BY <1>9, WriterFacts, WordFacts
    <2> HIDE DEF n
    <2> QED
      BY <1>1, <2>1, <2>2, OutcomeSend
  <1>10. CASE t \in Initializers /\ ConnectFails(t)
    BY <1>1, <1>10, OutcomeEnd, WriterFacts, WordFacts DEF ConnectFails
  <1> QED
    BY <1>4, <1>5, <1>7, <1>8, <1>9, <1>10

LEMMA ResumeTells ==
    ASSUME MixInv, OutcomeInv, NEW t \in Operations, Resume(t)
    PROVE  OutcomeInv'
  <1>1. /\ t \in Tasks /\ task[t] \in TaskState /\ task[t].on \in Nat
        /\ task[t].fate \in Words /\ task[t].reply \in Words /\ conn \in Nat
    BY OperationFacts DEF MixInv, TypesInv
  <1>2. t \in Writers => Saving(task[t])
    BY DEF OutcomeInv
  <1>3. CASE PragmaDone(t)
    <2>1. t \notin Writers /\ "VERSION" \in Words
      BY <1>2, <1>3, WordFacts DEF PragmaDone, Answered, Saving, Txn
    <2> QED
      BY <1>1, <1>3, <2>1, OutcomeSend DEF PragmaDone
  <1>4. CASE MigrationNeeded(t)
    <2>1. t \notin Writers
      BY <1>2, <1>4 DEF MigrationNeeded, Answered, Saving, Txn
    <2>2. /\ task' = [task EXCEPT ![t] = At(task[t], "lock")]
          /\ UNCHANGED <<wire, file>>
      BY <1>4 DEF MigrationNeeded
    <2> QED
      BY <1>1, <2>1, <2>2, OutcomeMove
  <1>5. CASE PlainDone(t)
    <2>1. t \notin Writers
      BY <1>2, <1>5 DEF PlainDone, Answered, Saving, Txn
    <2> QED
      BY <1>1, <1>5, <2>1, OutcomeEnd, WordFacts DEF PlainDone
  <1>6. CASE Begin(t)
    <2>1. Untold(task[t]) /\ file' = file
      BY <1>6 DEF Begin, Untold
    <2>2. CASE conn # NoConn
      <3>1. Send(t, task[t], conn, "BEGIN") /\ "BEGIN" \in Words /\ "BEGIN" \in Txn
        BY <1>6, <2>2, WordFacts DEF Begin, Txn
      <3> QED
        BY <1>1, <2>1, <3>1, OutcomeSend
    <2>3. CASE conn = NoConn
      BY <1>1, <1>6, <2>1, <2>3, OutcomeEnd, WordFacts DEF Begin
    <2> QED
      BY <2>2, <2>3
  <1>7. CASE TransactionStep(t)
    <2>1. Untold(task[t]) /\ file' = file
      BY <1>7 DEF TransactionStep, Answered, Untold
    <2>2. /\ NextPart(task[t]) \in TaskState
          /\ "INSERT" \in Words /\ "COMMIT" \in Words
          /\ "INSERT" \in Txn /\ "COMMIT" \in Txn
      BY <1>1, NextPartFacts, WordFacts DEF Txn
    <2>3. \/ Send(t, task[t], task[t].on, "INSERT")
          \/ Send(t, NextPart(task[t]), task[t].on, "INSERT")
          \/ Send(t, task[t], task[t].on, "COMMIT")
      BY <1>7 DEF TransactionStep
    <2> DEFINE r == NextPart(task[t])
               c == task[t].on
    <2> HIDE DEF r, c
    <2>4. r \in TaskState /\ c \in Nat
      BY <1>1, <2>2 DEF r, c
    <2>5. CASE Send(t, task[t], c, "INSERT")
      BY <1>1, <2>1, <2>2, <2>4, <2>5, OutcomeSend
    <2>6. CASE Send(t, r, c, "INSERT")
      BY <1>1, <2>1, <2>2, <2>4, <2>6, OutcomeSend
    <2>7. CASE Send(t, task[t], c, "COMMIT")
      BY <1>1, <2>1, <2>2, <2>4, <2>7, OutcomeSend
    <2> QED
      BY <2>3, <2>5, <2>6, <2>7 DEF r, c
  <1>8. CASE Committed(t)
    <2>1. Told(task[t])
      BY <1>8 DEF Committed, Answered, Told
    <2> QED
      BY <1>1, <1>8, <2>1, OutcomeEnd, WordFacts DEF Committed
  <1>9. CASE Failed(t)
    <2> DEFINE r == Failing(task[t])
               c == task[t].on
    <2>1. /\ r \in TaskState /\ r.fate = task[t].reply /\ c \in Nat
          /\ "ROLLBACK" \in Words /\ "ROLLBACK" \in Txn
      BY <1>1, FailingFacts, FateFacts, WordFacts DEF Txn
    <2>2. Send(t, r, c, "ROLLBACK") /\ file' = file
      BY <1>9 DEF Failed
    <2>3. /\ task[t].reply \in {"failed", "cancelled"}
          /\ task[t].reply = "failed" => Untold(task[t])
      BY <1>9 DEF Failed, Answered, Untold
    <2> HIDE DEF r, c
    <2> QED
      BY <1>1, <2>1, <2>2, <2>3, OutcomeSend
  <1>10. CASE RolledBack(t)
    <2>1. /\ End(t, task[t].fate) /\ UNCHANGED <<wire, file>>
          /\ task[t].pc = "await" /\ task[t].stmt = "ROLLBACK"
      BY <1>10 DEF RolledBack, Answered
    <2>2. t \in Writers => task[t].fate \in {"failed", "cancelled"}
      BY <1>2, <2>1 DEF Saving
    <2>3. task[t].fate = "failed" => Untold(task[t])
      BY <2>1 DEF Untold
    <2> QED
      BY <1>1, <2>1, <2>2, <2>3, OutcomeEnd
  <1> QED
    BY <1>3, <1>4, <1>5, <1>6, <1>7, <1>8, <1>9, <1>10 DEF Resume

LEMMA CancelTells ==
    ASSUME MixInv, OutcomeInv, NEW t \in Operations \cup Closers, Cancel(t)
    PROVE  OutcomeInv'
  <1>1. t \in Tasks /\ task[t] \in TaskState
    BY OperationFacts
  <1>2. CASE task[t].pc = "await"
    BY <1>1, <1>2, OutcomeCancel DEF Cancel
  <1>3. CASE task[t].pc = "lock"
    BY <1>1, <1>3, OutcomeEnd, WordFacts DEF Cancel
  <1>4. CASE task[t].pc = "join"
    <2> DEFINE d == Done(task[t], "cancelled")
    <2>1. task' = [task EXCEPT ![t] = d] /\ UNCHANGED <<wire, file>>
      BY <1>4 DEF Cancel
    <2>2. d.pc = "done" /\ d.fate = "cancelled"
      BY <1>1, DoneFacts, FateFacts, WordFacts
    <2> HIDE DEF d
    <2>3. ~ Told(d) /\ ~ Untold(d)
      BY <2>2 DEF Told, Untold
    <2> QED
      BY <1>1, <2>1, <2>2, <2>3, OutcomeMove
  <1> QED
    BY <1>2, <1>3, <1>4 DEF Cancel

\* Closing tells the callers of close() alone.
LEMMA CloseTells ==
    ASSUME MixInv, OutcomeInv,
           \/ \E t \in Closers : Close(t)
           \/ CloseDrained \/ CloseNative \/ CloseAnswered
    PROVE  OutcomeInv'
  <1>1. task \in [Tasks -> TaskState] /\ CloseTask \in Tasks /\ conn \in Nat
    BY DEF MixInv, TypesInv, Tasks
  <1>2. \A w \in Writers : w \in Tasks /\ w # CloseTask /\ w \notin Closers
    BY WriterFacts
  <1>3. ASSUME file' = file, wire' = wire, \A w \in Writers : task'[w] = task[w]
        PROVE  OutcomeInv'
    BY <1>3 DEF OutcomeInv
  <1>4. ASSUME NEW ok \in BOOLEAN, CloseEnds(ok), wire' = wire
        PROVE  OutcomeInv'
    <2>1. \A w \in Writers : task'[w] = task[w]
      BY <1>2, <1>4 DEF CloseEnds
    <2> QED
      BY <1>3, <1>4, <2>1 DEF CloseEnds
  <1>5. ASSUME NEW t \in Closers, Close(t)
        PROVE  OutcomeInv'
    <2>1. \A w \in Writers : task'[w] = task[w]
      BY <1>1, <1>2, <1>5 DEF Close
    <2> QED
      BY <1>3, <1>5, <2>1 DEF Close
  <1>6. CASE CloseDrained
    <2>1. \A w \in Writers : task'[w] = task[w]
      BY <1>1, <1>2, <1>6 DEF CloseDrained
    <2> QED
      BY <1>3, <1>6, <2>1 DEF CloseDrained
  <1>7. CASE CloseNative
    <2>1. CASE conn # NoConn
      <3>1. /\ Send(CloseTask, task[CloseTask], conn, "CLOSE") /\ file' = file
            /\ "CLOSE" \in Words /\ CloseTask \notin Writers
            /\ task[CloseTask] \in TaskState
        BY <1>1, <1>2, <1>7, <2>1, WordFacts DEF CloseNative
      <3> QED
        BY <1>1, <3>1, OutcomeSend
    <2>2. CASE conn = NoConn
      BY <1>4, <1>7, <2>2 DEF CloseNative
    <2> QED
      BY <2>1, <2>2
  <1>8. CASE CloseAnswered
    BY <1>4, <1>8 DEF CloseAnswered
  <1> QED
    BY <1>5, <1>6, <1>7, <1>8

LEMMA ThreadTells ==
    ASSUME MixInv, SaveInv, OutcomeInv, NEW c \in Conns, Execute(c) \/ ExecuteFails(c)
    PROVE  OutcomeInv'
  <1> DEFINE h == Head(wire[c])
  <1>1. wire[c] # <<>>
    BY DEF Execute, ExecuteFails
  <1>2. CASE Execute(c) /\ Runs(c, h) /\ h.stmt = "COMMIT"
    <2>1. /\ Deliver(c, "ok") /\ "ok" \in Words
          /\ file' = file \cup conns[c].rows /\ conns[c].open
      BY <1>2, WordFacts DEF Execute, Runs, Visible, h
    <2> QED
      BY <1>1, <1>2, <2>1, OutcomeThread DEF h
  <1>3. CASE Execute(c) /\ Runs(c, h) /\ h.stmt # "COMMIT"
    <2>1. (Deliver(c, "absent") \/ Deliver(c, "ok")) /\ file' = file
      BY <1>3 DEF Execute, h
    <2> QED
      BY <1>1, <1>3, <2>1, OutcomeThread, WordFacts DEF h
  <1>4. CASE Execute(c) /\ ~ Runs(c, h)
    <2>1. Deliver(c, "failed") /\ file' = file
      BY <1>4 DEF Execute, h
    <2> QED
      BY <1>1, <2>1, OutcomeThread, WordFacts
  <1>5. CASE ExecuteFails(c)
    <2>1. Deliver(c, "failed") /\ file' = file
      BY <1>5 DEF ExecuteFails
    <2> QED
      BY <1>1, <2>1, OutcomeThread, WordFacts
  <1> QED
    BY <1>2, <1>3, <1>4, <1>5

LEMMA OutcomeInitially == Init => OutcomeInv
  <1> SUFFICES ASSUME Init, NEW w \in Writers
               PROVE  /\ Saving(task[w]) /\ ~ Told(task[w])
                      /\ RowsOf(w) \cap file = {}
                      /\ \A c \in Conns : ~ CommitLeft(wire[c], w)
    BY DEF OutcomeInv
  <1>1. task[w].pc = "start"
    BY WriterFacts, IdleFacts DEF Init
  <1>2. Saving(task[w]) /\ ~ Told(task[w])
    BY <1>1 DEF Saving, Told
  <1>3. file \subseteq {Schema, Earlier}
    BY StoreRows DEF Init, StoreRows
  <1>4. \A c \in Conns : ~ CommitLeft(wire[c], w)
    BY EmptySeq DEF Init, CommitLeft
  <1> QED
    BY <1>2, <1>3, <1>4, RowFacts

LEMMA OutcomesStep == MixInv /\ SaveInv /\ OutcomeInv /\ [Next]_svars => OutcomeInv'
  <1> SUFFICES ASSUME MixInv, SaveInv, OutcomeInv, [Next]_svars PROVE OutcomeInv'
    OBVIOUS
  <1>1. ASSUME UNCHANGED svars PROVE OutcomeInv'
    BY <1>1 DEF svars, OutcomeInv
  <1>2. ASSUME NEW t \in Operations, Refuse(t) \/ Resume(t) PROVE OutcomeInv'
    BY <1>2, StartsTell, ResumeTells
  <1>3. ASSUME NEW t \in Writers, WriteStarts(t) PROVE OutcomeInv'
    BY <1>3, StartsTell DEF Operations
  <1>4. ASSUME NEW t \in Readers, ReadStarts(t) PROVE OutcomeInv'
    BY <1>4, StartsTell DEF Operations
  <1>5. ASSUME NEW t \in Initializers,
               InitializeStarts(t) \/ Connected(t) \/ ConnectFails(t)
        PROVE  OutcomeInv'
    BY <1>5, StartsTell DEF Operations
  <1>6. ASSUME NEW t \in Operations \cup Closers, Cancel(t) PROVE OutcomeInv'
    BY <1>6, CancelTells
  <1>7. ASSUME NEW t \in Closers, Close(t) PROVE OutcomeInv'
    BY <1>7, CloseTells
  <1>8. CASE CloseDrained \/ CloseNative \/ CloseAnswered
    BY <1>8, CloseTells
  <1>9. ASSUME NEW c \in Conns, Execute(c) \/ ExecuteFails(c) PROVE OutcomeInv'
    BY <1>9, ThreadTells
  <1>10. CASE Finished
    BY <1>1, <1>10 DEF Finished
  <1> QED
    BY <1>1, <1>2, <1>3, <1>4, <1>5, <1>6, <1>7, <1>8, <1>9, <1>10 DEF Next

\* What the caller of a save is told stays true of the file: returned means
\* committed, an error or a refusal that nothing was written, wherever a
\* statement fails (write() and _raise_failure of the transaction manager).
THEOREM OutcomesStayTruthful == Spec => []OutcomesAreTruthful
  <1>1. OutcomeInv => OutcomesAreTruthful
    BY DEF OutcomeInv, OutcomesAreTruthful, Told, Untold
  <1>2. Spec => [](MixInv /\ SaveInv /\ OutcomeInv)
    BY MixInitially, MixStep, SaveInitially, SaveStep, OutcomeInitially, OutcomesStep,
       PTL DEF Spec
  <1> QED
    BY <1>1, <1>2, PTL
-----------------------------------------------------------------------------
\* The operations that hold a lease.
Leased == {t \in Operations : task[t].pc \notin {"start", "done"}}

\* Where the tasks of each kind can be; the close task runs while the store is
\* closing.
PlaceInv ==
    /\ \A t \in Operations : task[t].pc \in {"start", "lock", "connect", "await", "done"}
    /\ \A t \in Closers : task[t].pc \in {"start", "join", "done"}
    /\ \/ lifecycle = "open" /\ task[CloseTask].pc = "start"
       \/ lifecycle = "closing" /\ task[CloseTask].pc \in {"drain", "lock", "await"}
       \/ lifecycle = "closed" /\ task[CloseTask].pc = "done"

\* The leases are counted, and the close task goes on when there is none.
LeaseInv ==
    /\ PlaceInv
    /\ IsFiniteSet(Leased) /\ active = Cardinality(Leased)
    /\ drained <=> active = 0
    /\ lifecycle = "closed" \/ task[CloseTask].pc \in {"lock", "await"} => Leased = {}
-----------------------------------------------------------------------------
LEMMA TaskFacts ==
    ASSUME NEW t \in Operations
    PROVE  t \in Tasks /\ t # CloseTask /\ t \notin Closers
  BY StoreTasks DEF StoreTasks, Tasks

\* Whoever sends a statement awaits it.
LEMMA SentFacts ==
    ASSUME MixInv, NEW t \in Tasks, NEW r \in TaskState, NEW c \in Nat, NEW s \in Words,
           Send(t, r, c, s)
    PROVE  /\ task'[t].pc = "await"
           /\ \A u \in Tasks : u # t => task'[u] = task[u]
  <1>1. task \in [Tasks -> TaskState] /\ task' = [task EXCEPT ![t] = Awaiting(r, c, s)]
    BY DEF MixInv, TypesInv, Send
  <1>2. Awaiting(r, c, s).pc = "await"
    BY AwaitingFacts
  <1> QED
    BY <1>1, <1>2

LEMMA PlaceKept ==
    ASSUME PlaceInv, NEW t \in Operations, lifecycle' = lifecycle,
           \A u \in Tasks : u # t => task'[u].pc = task[u].pc,
           task'[t].pc \in {"start", "lock", "connect", "await", "done"}
    PROVE  PlaceInv'
  <1>1. /\ \A u \in Operations : u \in Tasks
        /\ \A u \in Closers : u \in Tasks /\ u # t
        /\ CloseTask \in Tasks /\ CloseTask # t
    BY TaskFacts DEF Tasks
  <1> QED
    BY <1>1 DEF PlaceInv

\* A step that neither takes nor gives back a lease.
LEMMA LeaseKept ==
    ASSUME LeaseInv, PlaceInv', UNCHANGED <<active, drained>>,
           \A t \in Operations : (task'[t].pc \in {"start", "done"})
                                     <=> (task[t].pc \in {"start", "done"}),
           lifecycle' = "closed" \/ task'[CloseTask].pc \in {"lock", "await"} => Leased = {}
    PROVE  LeaseInv'
  <1>1. Leased' = Leased
    BY DEF Leased
  <1> QED
    BY <1>1 DEF LeaseInv

\* _operation(), entry: only an open store gives a lease.
LEMMA LeaseTaken ==
    ASSUME LeaseInv, NEW t \in Operations, Lease, lifecycle' = lifecycle,
           task[t].pc = "start", task'[t].pc \in {"lock", "connect", "await"},
           \A u \in Tasks : u # t => task'[u] = task[u]
    PROVE  LeaseInv'
  <1>1. PlaceInv'
    BY PlaceKept DEF LeaseInv
  <1>2. t \notin Leased /\ Leased' = Leased \cup {t}
    BY TaskFacts DEF Leased
  <1>3. IsFiniteSet(Leased') /\ Cardinality(Leased') = Cardinality(Leased) + 1
    BY <1>2, FS_AddElement DEF LeaseInv
  <1>4. Cardinality(Leased) \in Nat
    BY FS_CardinalityType DEF LeaseInv
  <1>5. active' = Cardinality(Leased') /\ active' # 0
    BY <1>3, <1>4 DEF LeaseInv, Lease
  <1>6. drained' <=> active' = 0
    BY <1>5 DEF Lease
  <1>7. lifecycle' = "open" /\ task'[CloseTask].pc = "start"
    BY <1>1 DEF Lease, PlaceInv
  <1> QED
    BY <1>1, <1>3, <1>5, <1>6, <1>7 DEF LeaseInv

\* _operation(), exit: the last one tells the close task.
LEMMA LeaseGiven ==
    ASSUME MixInv, LeaseInv, NEW t \in Operations, NEW fate \in Words, End(t, fate),
           lifecycle' = lifecycle, task[t].pc \notin {"start", "done"}
    PROVE  LeaseInv'
  <1>1. /\ t \in Tasks /\ task \in [Tasks -> TaskState]
        /\ task' = [task EXCEPT ![t] = Done(task[t], fate)]
    BY TaskFacts DEF MixInv, TypesInv, End
  <1>2. Done(task[t], fate).pc = "done"
    BY <1>1, DoneFacts
  <1>3. task'[t].pc = "done" /\ \A u \in Tasks : u # t => task'[u] = task[u]
    BY <1>1, <1>2
  <1>4. PlaceInv'
    BY <1>3, PlaceKept DEF LeaseInv
  <1>5. t \in Leased /\ Leased' = Leased \ {t}
    BY <1>3, TaskFacts DEF Leased
  <1>6. IsFiniteSet(Leased') /\ Cardinality(Leased') = Cardinality(Leased) - 1
    BY <1>5, FS_RemoveElement DEF LeaseInv
  <1>7. Cardinality(Leased) \in Nat /\ Cardinality(Leased') \in Nat
    BY <1>6, FS_CardinalityType DEF LeaseInv
  <1>8. active' = Cardinality(Leased') /\ (drained' <=> active' = 0)
    <2>1. active' = active - 1 /\ active = Cardinality(Leased)
      BY DEF End, LeaseInv
    <2>2. drained' <=> active = 1
      BY DEF End
    <2>3. active = 1 <=> active' = 0
      BY <1>6, <1>7, <2>1
    <2> QED
      BY <1>6, <2>1, <2>2, <2>3
  <1>9. task'[CloseTask] = task[CloseTask]
    BY <1>3, TaskFacts DEF Tasks
  <1> QED
    BY <1>4, <1>5, <1>6, <1>8, <1>9 DEF LeaseInv

\* An operation goes on with the lease it has or has none.
LEMMA LeaseHeld ==
    ASSUME LeaseInv, NEW t \in Operations, UNCHANGED <<active, drained, lifecycle>>,
           task'[t].pc \in {"start", "lock", "connect", "await", "done"},
           (task'[t].pc \in {"start", "done"}) <=> (task[t].pc \in {"start", "done"}),
           \A u \in Tasks : u # t => task'[u] = task[u]
    PROVE  LeaseInv'
  <1>1. PlaceInv'
    BY PlaceKept DEF LeaseInv
  <1>2. \A u \in Operations : (task'[u].pc \in {"start", "done"})
                                  <=> (task[u].pc \in {"start", "done"})
    BY TaskFacts
  <1>3. task'[CloseTask] = task[CloseTask]
    BY TaskFacts DEF Tasks
  <1> QED
    BY <1>1, <1>2, <1>3, LeaseKept DEF LeaseInv
-----------------------------------------------------------------------------
LEMMA StartsLease ==
    ASSUME MixInv, LeaseInv, NEW t \in Operations,
           \/ Refuse(t) \/ WriteStarts(t) \/ ReadStarts(t) \/ InitializeStarts(t)
           \/ Connected(t) \/ ConnectFails(t)
    PROVE  LeaseInv'
  <1>1. /\ t \in Tasks /\ task[t] \in TaskState /\ task \in [Tasks -> TaskState]
        /\ lifecycle' = lifecycle /\ conn \in Nat /\ opened \in Nat
    BY OperationFacts DEF Refuse, WriteStarts, ReadStarts, InitializeStarts, Connected,
       ConnectFails, MixInv, TypesInv
  <1>2. ASSUME NEW s \in {"lock", "connect"}, task' = [task EXCEPT ![t] = At(@, s)]
        PROVE  task'[t].pc = s /\ \A u \in Tasks : u # t => task'[u] = task[u]
    <2>1. s \in Words
      BY <1>2, WordFacts
    <2>2. At(task[t], s).pc = s
      BY <1>1, <2>1, AtFacts
    <2> QED
      BY <1>1, <1>2, <2>2
  <1>3. ASSUME NEW s \in {"refused", "unready"}, task' = [task EXCEPT ![t] = Done(@, s)]
        PROVE  task'[t].pc = "done" /\ \A u \in Tasks : u # t => task'[u] = task[u]
    <2>1. s \in Words
      BY <1>3, WordFacts
    <2>2. Done(task[t], s).pc = "done"
      BY <1>1, <2>1, DoneFacts
    <2> QED
      BY <1>1, <1>3, <2>2
  <1>4. ASSUME NEW c \in Nat, NEW s \in {"SELECT", "VERSION", "PRAGMA"},
               Send(t, task[t], c, s)
        PROVE  task'[t].pc = "await" /\ \A u \in Tasks : u # t => task'[u] = task[u]
    <2>1. s \in Words
      BY <1>4, WordFacts
    <2> QED
      BY <1>1, <1>4, <2>1, SentFacts
  <1>5. CASE Refuse(t)
    BY <1>1, <1>3, <1>5, LeaseHeld DEF Refuse
  <1>6. CASE WriteStarts(t)
    BY <1>1, <1>2, <1>6, LeaseTaken DEF WriteStarts
  <1>7. CASE ReadStarts(t)
    <2>1. CASE conn # NoConn
      BY <1>1, <1>4, <1>7, <2>1, LeaseTaken DEF ReadStarts
    <2>2. CASE conn = NoConn
      BY <1>1, <1>3, <1>7, <2>2, LeaseHeld DEF ReadStarts
    <2> QED
      BY <2>1, <2>2
  <1>8. CASE InitializeStarts(t)
    <2>1. CASE conn # NoConn
      BY <1>1, <1>4, <1>8, <2>1, LeaseTaken DEF InitializeStarts
    <2>2. CASE conn = NoConn
      BY <1>1, <1>2, <1>8, <2>2, LeaseTaken DEF InitializeStarts
    <2> QED
      BY <2>1, <2>2
  <1>9. CASE Connected(t)
    <2>1. /\ Send(t, task[t], opened + 1, "PRAGMA") /\ opened + 1 \in Nat
          /\ task[t].pc = "connect" /\ UNCHANGED <<active, drained>>
      BY <1>1, <1>9 DEF Connected
    <2>2. task'[t].pc = "await" /\ \A u \in Tasks : u # t => task'[u] = task[u]
      BY <1>4, <2>1
    <2> QED
      BY <1>1, <2>1, <2>2, LeaseHeld
  <1>10. CASE ConnectFails(t)
    BY <1>1, <1>10, LeaseGiven, WordFacts DEF ConnectFails
  <1> QED
    BY <1>5, <1>6, <1>7, <1>8, <1>9, <1>10

LEMMA ResumeLeases ==
    ASSUME MixInv, LeaseInv, NEW t \in Operations, Resume(t)
    PROVE  LeaseInv'
  <1>1. /\ t \in Tasks /\ task[t] \in TaskState /\ task \in [Tasks -> TaskState]
        /\ task[t].on \in Nat /\ task[t].fate \in Words /\ task[t].reply \in Words
        /\ conn \in Nat
    BY OperationFacts DEF MixInv, TypesInv
  <1>2. ASSUME NEW r \in TaskState, NEW c \in Nat, NEW s \in Words, Send(t, r, c, s),
               UNCHANGED <<active, drained, lifecycle>>,
               task[t].pc \in {"lock", "await"}
        PROVE  LeaseInv'
    <2>1. task'[t].pc = "await" /\ \A u \in Tasks : u # t => task'[u] = task[u]
      BY <1>1, <1>2, SentFacts
    <2> QED
      BY <1>2, <2>1, LeaseHeld
  <1>3. CASE PragmaDone(t)
    BY <1>1, <1>2, <1>3, WordFacts DEF PragmaDone, Answered
  <1>4. CASE MigrationNeeded(t)
    <2>1. task' = [task EXCEPT ![t] = At(task[t], "lock")] /\ task[t].pc = "await"
      BY <1>4 DEF MigrationNeeded, Answered
    <2>2. At(task[t], "lock").pc = "lock"
      BY <1>1, AtFacts, WordFacts
    <2>3. task'[t].pc = "lock" /\ \A u \in Tasks : u # t => task'[u] = task[u]
      BY <1>1, <2>1, <2>2
    <2> QED
      BY <1>4, <2>1, <2>3, LeaseHeld DEF MigrationNeeded
  <1>5. CASE PlainDone(t)
    BY <1>1, <1>5, LeaseGiven, WordFacts DEF PlainDone, Answered
  <1>6. CASE Begin(t)
    <2>1. CASE conn # NoConn
      BY <1>1, <1>2, <1>6, <2>1, WordFacts DEF Begin
    <2>2. CASE conn = NoConn
      BY <1>1, <1>6, <2>2, LeaseGiven, WordFacts DEF Begin
    <2> QED
      BY <2>1, <2>2
  <1>7. CASE TransactionStep(t)
    <2> DEFINE r == NextPart(task[t])
               c == task[t].on
    <2>1. /\ r \in TaskState /\ c \in Nat
          /\ "INSERT" \in Words /\ "COMMIT" \in Words
      BY <1>1, NextPartFacts, WordFacts
    <2>2. \/ Send(t, task[t], c, "INSERT")
          \/ Send(t, r, c, "INSERT")
          \/ Send(t, task[t], c, "COMMIT")
      BY <1>7 DEF TransactionStep
    <2>3. task[t].pc = "await" /\ UNCHANGED <<active, drained, lifecycle>>
      BY <1>7 DEF TransactionStep, Answered
    <2> HIDE DEF r, c
    <2> QED
      BY <1>1, <1>2, <2>1, <2>2, <2>3
  <1>8. CASE Committed(t)
    BY <1>1, <1>8, LeaseGiven, WordFacts DEF Committed, Answered
  <1>9. CASE Failed(t)
    <2>1. Failing(task[t]) \in TaskState /\ "ROLLBACK" \in Words
      BY <1>1, FailingFacts, WordFacts
    <2> QED
      BY <1>1, <1>2, <1>9, <2>1 DEF Failed, Answered
  <1>10. CASE RolledBack(t)
    BY <1>1, <1>10, LeaseGiven DEF RolledBack, Answered
  <1> QED
    BY <1>3, <1>4, <1>5, <1>6, <1>7, <1>8, <1>9, <1>10 DEF Resume

LEMMA CancelLeases ==
    ASSUME MixInv, LeaseInv, NEW t \in Operations \cup Closers, Cancel(t)
    PROVE  LeaseInv'
  <1>1. t \in Tasks /\ task[t] \in TaskState /\ task \in [Tasks -> TaskState]
    BY OperationFacts DEF MixInv, TypesInv
  <1>2. lifecycle' = lifecycle /\ CloseTask \in Tasks /\ t # CloseTask
    BY OperationFacts DEF Cancel, Tasks
  <1>3. CASE task[t].pc = "await"
    <2>1. task' = [task EXCEPT ![t] = Cancelled(task[t])] /\ UNCHANGED <<active, drained>>
      BY <1>3 DEF Cancel
    <2>2. Cancelled(task[t]).pc = "await"
      BY <1>1, <1>3, CancelledFacts
    <2>3. task'[t].pc = "await" /\ \A u \in Tasks : u # t => task'[u] = task[u]
      BY <1>1, <2>1, <2>2
    <2>4. t \in Operations
      BY <1>3 DEF LeaseInv, PlaceInv
    <2> QED
      BY <1>2, <1>3, <2>1, <2>3, <2>4, LeaseHeld
  <1>4. CASE task[t].pc = "lock"
    <2>1. t \in Operations /\ "cancelled" \in Words
      BY <1>4, WordFacts DEF LeaseInv, PlaceInv
    <2> QED
      BY <1>2, <1>4, <2>1, LeaseGiven DEF Cancel
  <1>5. CASE task[t].pc = "join"
    <2>1. task' = [task EXCEPT ![t] = Done(task[t], "cancelled")] /\ UNCHANGED <<active, drained>>
      BY <1>5 DEF Cancel
    <2>2. Done(task[t], "cancelled").pc = "done"
      BY <1>1, DoneFacts, WordFacts
    <2>3. task'[t].pc = "done" /\ \A u \in Tasks : u # t => task'[u] = task[u]
      BY <1>1, <2>1, <2>2
    <2>4. t \notin Operations /\ \A u \in Operations \cup Closers : u \in Tasks
      BY <1>5 DEF LeaseInv, PlaceInv, Tasks
    <2>5. /\ \A u \in Operations : task'[u] = task[u]
          /\ task'[CloseTask] = task[CloseTask]
      BY <1>2, <2>3, <2>4
    <2>6. PlaceInv'
      BY <1>2, <2>3, <2>4, <2>5 DEF LeaseInv, PlaceInv
    <2> QED
      BY <1>2, <2>1, <2>5, <2>6, LeaseKept DEF LeaseInv
  <1> QED
    BY <1>3, <1>4, <1>5 DEF Cancel

\* A step of a thread moves no task.
LEMMA ThreadMovesNobody ==
    ASSUME MixInv, NEW c \in Conns, Execute(c) \/ ExecuteFails(c)
    PROVE  \A u \in Tasks : task'[u].pc = task[u].pc /\ task'[u].fate = task[u].fate
  <1> DEFINE h == Head(wire[c])
  <1>1. /\ task \in [Tasks -> TaskState] /\ wire[c] \in Seq(Message) /\ wire[c] # <<>>
    BY DEF Execute, ExecuteFails, MixInv, TypesInv
  <1>2. h.by \in Tasks
    BY <1>1, MessageFacts, HeadTailProperties, EmptySeq
  <1>3. PICK reply \in {"ok", "absent", "failed"} : Deliver(c, reply)
    BY DEF Execute, ExecuteFails
  <1>4. reply \in Words
    BY WordFacts
  <1>5. CASE h.live
    <2>1. task' = [task EXCEPT ![h.by] = Answer(task[h.by], reply)]
      BY <1>3, <1>5 DEF Deliver
    <2> HIDE DEF h
    <2> QED
      BY <1>1, <1>2, <1>4, <2>1, AnswerFacts, FateFacts
  <1>6. CASE ~ h.live
    BY <1>3, <1>6 DEF Deliver
  <1> QED
    BY <1>5, <1>6

LEMMA ThreadLeases ==
    ASSUME MixInv, LeaseInv, NEW c \in Conns, Execute(c) \/ ExecuteFails(c)
    PROVE  LeaseInv'
  <1>1. UNCHANGED <<active, drained, lifecycle>>
    BY DEF Execute, ExecuteFails
  <1>2. \A u \in Operations \cup Closers \cup {CloseTask} : task'[u].pc = task[u].pc
    BY ThreadMovesNobody DEF Tasks
  <1>3. PlaceInv'
    BY <1>1, <1>2 DEF LeaseInv, PlaceInv
  <1> QED
    BY <1>1, <1>2, <1>3, LeaseKept DEF LeaseInv

\* Closing: the close task waits until no lease is left.
LEMMA CloseLeases ==
    ASSUME MixInv, LeaseInv,
           \/ \E t \in Closers : Close(t)
           \/ CloseDrained \/ CloseNative \/ CloseAnswered
    PROVE  LeaseInv'
  <1>1. /\ task \in [Tasks -> TaskState] /\ CloseTask \in Tasks
        /\ task[CloseTask] \in TaskState /\ conn \in Nat
    BY DEF MixInv, TypesInv, Tasks
  <1>2. /\ \A u \in Operations : u \in Tasks /\ u # CloseTask /\ u \notin Closers
        /\ \A u \in Closers : u \in Tasks /\ u # CloseTask
    BY TaskFacts, StoreTasks DEF StoreTasks, Tasks
  <1>3. /\ At(task[CloseTask], "drain").pc = "drain" /\ At(task[CloseTask], "lock").pc = "lock"
        /\ At(Idle, "done").pc = "done" /\ At(Idle, "start").pc = "start"
    BY <1>1, AtFacts, IdleFacts, WordFacts
  <1>4. ASSUME NEW u \in Tasks
        PROVE  /\ At(task[u], "join").pc = "join"
               /\ Done(task[u], "returned").pc = "done" /\ Done(task[u], "failed").pc = "done"
    BY <1>1, <1>4, AtFacts, DoneFacts, WordFacts
  <1>5. ASSUME NEW ok \in BOOLEAN, CloseEnds(ok), task[CloseTask].pc \in {"lock", "await"}
        PROVE  LeaseInv'
    <2>1. /\ \A u \in Operations : task'[u] = task[u]
          /\ UNCHANGED <<active, drained>>
      BY <1>2, <1>5 DEF CloseEnds
    <2>2. \/ lifecycle' = "closed" /\ task'[CloseTask].pc = "done"
          \/ lifecycle' = "open" /\ task'[CloseTask].pc = "start"
      BY <1>1, <1>3, <1>5 DEF CloseEnds
    <2>3. \A u \in Closers : task'[u].pc \in {"start", "join", "done"}
      <3>1. ASSUME NEW u \in Closers
            PROVE  task'[u] = task[u] \/ task'[u].pc = "done"
        <4>1. task'[u] \in {task[u], Done(task[u], "returned"), Done(task[u], "failed")}
          BY <1>2, <1>5 DEF CloseEnds
        <4> QED
          BY <1>2, <1>4, <4>1
      <3> QED
        BY <3>1 DEF LeaseInv, PlaceInv
    <2>4. PlaceInv'
      BY <2>1, <2>2, <2>3 DEF LeaseInv, PlaceInv
    <2> QED
      BY <1>5, <2>1, <2>4, LeaseKept DEF LeaseInv
  <1>6. ASSUME NEW t \in Closers, Close(t)
        PROVE  LeaseInv'
    <2>1. t \in Tasks /\ t # CloseTask /\ UNCHANGED <<active, drained>>
      BY <1>2, <1>6 DEF Close
    <2> DEFINE a == At(task[t], "join")
               b == At(task[CloseTask], "drain")
               d == Done(task[t], "returned")
    <2>2. a.pc = "join" /\ b.pc = "drain" /\ d.pc = "done"
      BY <1>3, <1>4, <2>1
    <2>3. CASE lifecycle = "open"
      <3>1. task' = [task EXCEPT ![t] = a, ![CloseTask] = b] /\ lifecycle' = "closing"
        BY <1>6, <2>1, <2>3 DEF Close
      <3> HIDE DEF a, b, d
      <3>2. /\ task'[t] = a /\ task'[CloseTask] = b
            /\ \A u \in Tasks : u # t /\ u # CloseTask => task'[u] = task[u]
        BY <1>1, <2>1, <3>1
      <3>3. PlaceInv'
        BY <1>2, <2>2, <3>1, <3>2 DEF LeaseInv, PlaceInv
      <3> QED
        BY <1>2, <2>1, <2>2, <3>1, <3>2, <3>3, LeaseKept
    <2>4. CASE lifecycle # "open"
      <3>1. /\ task' = [task EXCEPT ![t] = a] \/ task' = [task EXCEPT ![t] = d]
            /\ lifecycle' = lifecycle
        BY <1>6, <2>4 DEF Close
      <3> HIDE DEF a, b, d
      <3>2. /\ task'[t] \in {a, d}
            /\ \A u \in Tasks : u # t => task'[u] = task[u]
        BY <1>1, <2>1, <3>1
      <3>3. PlaceInv'
        BY <1>1, <1>2, <2>1, <2>2, <3>1, <3>2 DEF LeaseInv, PlaceInv
      <3> QED
        BY <1>1, <1>2, <2>1, <3>1, <3>2, <3>3, LeaseKept DEF LeaseInv
    <2> QED
      BY <2>3, <2>4
  <1>7. CASE CloseDrained
    <2>1. /\ task' = [task EXCEPT ![CloseTask] = At(task[CloseTask], "lock")]
          /\ task[CloseTask].pc = "drain" /\ drained
          /\ UNCHANGED <<active, drained, lifecycle>>
      BY <1>7 DEF CloseDrained
    <2>2. /\ task'[CloseTask].pc = "lock"
          /\ \A u \in Tasks : u # CloseTask => task'[u] = task[u]
      BY <1>1, <1>3, <2>1
    <2>3. Leased = {}
      BY <2>1, FS_EmptySet DEF LeaseInv
    <2>4. PlaceInv'
      BY <1>2, <2>1, <2>2 DEF LeaseInv, PlaceInv
    <2> QED
      BY <1>2, <2>1, <2>2, <2>3, <2>4, LeaseKept
  <1>8. CASE CloseNative
    <2>1. CASE conn # NoConn
      <3>1. /\ Send(CloseTask, task[CloseTask], conn, "CLOSE") /\ "CLOSE" \in Words
            /\ task[CloseTask].pc = "lock" /\ UNCHANGED <<active, drained, lifecycle>>
        BY <1>8, <2>1, WordFacts DEF CloseNative
      <3>2. /\ task'[CloseTask].pc = "await"
            /\ \A u \in Tasks : u # CloseTask => task'[u] = task[u]
        BY <1>1, <3>1, SentFacts
      <3>3. PlaceInv'
        BY <1>2, <3>1, <3>2 DEF LeaseInv, PlaceInv
      <3> QED
        BY <1>2, <3>1, <3>2, <3>3, LeaseKept DEF LeaseInv
    <2>2. CASE conn = NoConn
      BY <1>5, <1>8, <2>2 DEF CloseNative
    <2> QED
      BY <2>1, <2>2
  <1>9. CASE CloseAnswered
    BY <1>5, <1>9 DEF CloseAnswered, Answered
  <1> QED
    BY <1>6, <1>7, <1>8, <1>9

LEMMA LeaseInitially == Init => LeaseInv
  <1> SUFFICES ASSUME Init PROVE LeaseInv
    OBVIOUS
  <1>1. \A u \in Tasks : task[u].pc = "start"
    BY IdleFacts DEF Init
  <1>2. \A u \in Operations \cup Closers \cup {CloseTask} : u \in Tasks
    BY DEF Tasks
  <1>3. PlaceInv
    BY <1>1, <1>2 DEF Init, PlaceInv
  <1>4. Leased = {}
    BY <1>1, <1>2 DEF Leased
  <1>5. IsFiniteSet(Leased) /\ active = Cardinality(Leased)
    BY <1>4, FS_EmptySet DEF Init
  <1>6. drained <=> active = 0
    BY DEF Init
  <1> QED
    BY <1>3, <1>4, <1>5, <1>6 DEF LeaseInv

LEMMA LeaseStep == MixInv /\ LeaseInv /\ [Next]_svars => LeaseInv'
  <1> SUFFICES ASSUME MixInv, LeaseInv, [Next]_svars PROVE LeaseInv'
    OBVIOUS
  <1>1. ASSUME UNCHANGED svars PROVE LeaseInv'
    BY <1>1 DEF svars, LeaseInv, PlaceInv, Leased
  <1>2. ASSUME NEW t \in Operations, Refuse(t) \/ Resume(t) PROVE LeaseInv'
    BY <1>2, StartsLease, ResumeLeases
  <1>3. ASSUME NEW t \in Writers, WriteStarts(t) PROVE LeaseInv'
    BY <1>3, StartsLease DEF Operations
  <1>4. ASSUME NEW t \in Readers, ReadStarts(t) PROVE LeaseInv'
    BY <1>4, StartsLease DEF Operations
  <1>5. ASSUME NEW t \in Initializers,
               InitializeStarts(t) \/ Connected(t) \/ ConnectFails(t)
        PROVE  LeaseInv'
    BY <1>5, StartsLease DEF Operations
  <1>6. ASSUME NEW t \in Operations \cup Closers, Cancel(t) PROVE LeaseInv'
    BY <1>6, CancelLeases
  <1>7. ASSUME NEW t \in Closers, Close(t) PROVE LeaseInv'
    BY <1>7, CloseLeases
  <1>8. CASE CloseDrained \/ CloseNative \/ CloseAnswered
    BY <1>8, CloseLeases
  <1>9. ASSUME NEW c \in Conns, Execute(c) \/ ExecuteFails(c) PROVE LeaseInv'
    BY <1>9, ThreadLeases
  <1>10. CASE Finished
    BY <1>1, <1>10 DEF Finished
  <1> QED
    BY <1>1, <1>2, <1>3, <1>4, <1>5, <1>6, <1>7, <1>8, <1>9, <1>10 DEF Next

\* close() drains: the native close runs, and the store is closed, only when no
\* operation holds a lease, and none gets one later, whatever was cancelled.
THEOREM ClosesWhenDrained ==
    Spec => [](task[CloseTask].pc = "await" \/ lifecycle = "closed" => NothingRuns)
  <1>1. LeaseInv => (task[CloseTask].pc = "await" \/ lifecycle = "closed" => NothingRuns)
    BY DEF LeaseInv, Leased, NothingRuns
  <1>2. Spec => [](MixInv /\ LeaseInv)
    BY MixInitially, MixStep, LeaseInitially, LeaseStep, PTL DEF Spec
  <1> QED
    BY <1>1, <1>2, PTL
-----------------------------------------------------------------------------
\* No two tasks call initialize(): there is at most one connection.
OneInitializer == \A a, b \in Initializers : a = b

LEMMA OneConnection ==
    ASSUME OneInitializer
    PROVE  \A c \in Conns : c = 1
  <1>1. CASE Initializers = {}
    BY <1>1, FS_EmptySet DEF Conns
  <1>2. CASE Initializers # {}
    <2>1. PICK a : a \in Initializers
      BY <1>2
    <2>2. Initializers = {a}
      BY <2>1 DEF OneInitializer
    <2>3. Cardinality(Initializers) = 1
      BY <2>2, FS_Singleton
    <2> QED
      BY <2>3 DEF Conns
  <1> QED
    BY <1>1, <1>2

\* The connection is the store's until close() has closed it.
SingleInv ==
    /\ \A t \in Initializers : task[t].pc \in {"start", "connect"} => opened = 0
    /\ opened <= 1
    /\ lifecycle # "closed" => conn = opened
    /\ \A c \in Conns : c > opened => ~ conns[c].open
    /\ task[CloseTask].pc = "await" =>
          /\ task[CloseTask].stmt = "CLOSE"
          /\ conn # NoConn /\ task[CloseTask].on = conn
          /\ task[CloseTask].reply = "ok" => \A c \in Conns : ~ conns[c].open
    /\ lifecycle = "closed" => \A c \in Conns : ~ conns[c].open
-----------------------------------------------------------------------------
LEMMA PcFacts ==
    ASSUME NEW r \in TaskState
    PROVE  /\ \A c, s : Awaiting(r, c, s).pc = "await"
           /\ \A s : Done(r, s).pc = "done" /\ At(r, s).pc = s
           /\ Cancelled(r).pc = r.pc
  BY DEF TaskState, Awaiting, Done, At, Cancelled

\* A task that has begun does not begin again, and connects at once or never.
LEMMA OperationGoesOn ==
    ASSUME MixInv, NEW t \in Operations \cup Closers,
           \/ Refuse(t) \/ WriteStarts(t) \/ ReadStarts(t) \/ InitializeStarts(t)
           \/ Connected(t) \/ ConnectFails(t) \/ Resume(t) \/ Cancel(t)
    PROVE  /\ \A u \in Tasks : u # t => task'[u] = task[u]
           /\ task'[t].pc \in {"lock", "await", "done"}
              \/ (task'[t].pc = "connect" /\ task[t].pc = "start")
  <1>1. /\ t \in Tasks /\ task[t] \in TaskState /\ task \in [Tasks -> TaskState]
    BY OperationFacts DEF MixInv, TypesInv
  <1>2. ASSUME NEW r, task' = [task EXCEPT ![t] = r],
               r.pc \in {"lock", "await", "done"} \/ (r.pc = "connect" /\ task[t].pc = "start")
        PROVE  /\ \A u \in Tasks : u # t => task'[u] = task[u]
               /\ task'[t].pc \in {"lock", "await", "done"}
                  \/ (task'[t].pc = "connect" /\ task[t].pc = "start")
    BY <1>1, <1>2
  <1>3. ASSUME NEW r \in TaskState, NEW c, NEW s, Send(t, r, c, s)
        PROVE  /\ \A u \in Tasks : u # t => task'[u] = task[u]
               /\ task'[t].pc \in {"lock", "await", "done"}
                  \/ (task'[t].pc = "connect" /\ task[t].pc = "start")
    <2>1. task' = [task EXCEPT ![t] = Awaiting(r, c, s)] /\ Awaiting(r, c, s).pc = "await"
      BY <1>3, PcFacts DEF Send
    <2> QED
      BY <1>2, <2>1
  <1>4. ASSUME NEW s, task' = [task EXCEPT ![t] = Done(task[t], s)]
        PROVE  /\ \A u \in Tasks : u # t => task'[u] = task[u]
               /\ task'[t].pc \in {"lock", "await", "done"}
                  \/ (task'[t].pc = "connect" /\ task[t].pc = "start")
    <2>1. Done(task[t], s).pc = "done"
      BY <1>1, PcFacts
    <2> QED
      BY <1>2, <1>4, <2>1
  <1>5. ASSUME NEW s, task' = [task EXCEPT ![t] = At(task[t], s)],
               s = "lock" \/ (s = "connect" /\ task[t].pc = "start")
        PROVE  /\ \A u \in Tasks : u # t => task'[u] = task[u]
               /\ task'[t].pc \in {"lock", "await", "done"}
                  \/ (task'[t].pc = "connect" /\ task[t].pc = "start")
    <2>1. At(task[t], s).pc = s
      BY <1>1, PcFacts
    <2> QED
      BY <1>2, <1>5, <2>1
  <1>6. NextPart(task[t]) \in TaskState /\ Failing(task[t]) \in TaskState
    BY <1>1, NextPartFacts, FailingFacts
  <1>7. CASE Refuse(t) \/ WriteStarts(t) \/ ReadStarts(t)
    BY <1>1, <1>3, <1>4, <1>5, <1>7 DEF Refuse, WriteStarts, ReadStarts
  <1>8. CASE InitializeStarts(t) \/ Connected(t) \/ ConnectFails(t)
    BY <1>1, <1>3, <1>4, <1>5, <1>8 DEF InitializeStarts, Connected, ConnectFails, End
  <1>9. CASE PragmaDone(t) \/ MigrationNeeded(t) \/ PlainDone(t)
    BY <1>1, <1>3, <1>4, <1>5, <1>9 DEF PragmaDone, MigrationNeeded, PlainDone, End
  <1>10. CASE Begin(t) \/ TransactionStep(t)
    BY <1>1, <1>3, <1>4, <1>6, <1>10 DEF Begin, TransactionStep, End
  <1>11. CASE Committed(t) \/ Failed(t) \/ RolledBack(t)
    BY <1>1, <1>3, <1>4, <1>6, <1>11 DEF Committed, Failed, RolledBack, End
  <1>12. CASE Cancel(t)
    <2>1. CASE task[t].pc = "await"
      <3>1. /\ task' = [task EXCEPT ![t] = Cancelled(task[t])]
            /\ Cancelled(task[t]).pc = "await"
        BY <1>1, <1>12, <2>1, PcFacts DEF Cancel
      <3> QED
        BY <1>2, <3>1
    <2>2. CASE task[t].pc # "await"
      BY <1>4, <1>12, <2>2 DEF Cancel, End
    <2> QED
      BY <2>1, <2>2
  <1> QED
    BY <1>7, <1>8, <1>9, <1>10, <1>11, <1>12 DEF Resume

\* A step that leaves the connection and the close task alone.
LEMMA SingleKept ==
    ASSUME SingleInv, UNCHANGED <<opened, conn, lifecycle>>,
           \A c \in Conns : conns'[c].open => conns[c].open,
           \A t \in Initializers : task'[t].pc \in {"start", "connect"}
                                       => task[t].pc \in {"start", "connect"},
           task'[CloseTask] = task[CloseTask]
    PROVE  SingleInv'
  BY DEF SingleInv

LEMMA SingleOperation ==
    ASSUME OneInitializer, MixInv, LeaseInv, SingleInv, NEW t \in Operations \cup Closers,
           \/ Refuse(t) \/ WriteStarts(t) \/ ReadStarts(t) \/ InitializeStarts(t)
           \/ (t \in Initializers /\ (Connected(t) \/ ConnectFails(t)))
           \/ Resume(t) \/ Cancel(t)
    PROVE  SingleInv'
  <1>1. /\ t \in Tasks /\ t # CloseTask /\ CloseTask \in Tasks
        /\ \A u \in Initializers : u \in Tasks
    BY OperationFacts DEF Tasks, Operations
  <1>2. /\ \A u \in Tasks : u # t => task'[u] = task[u]
        /\ task'[t].pc \in {"lock", "await", "done"}
           \/ (task'[t].pc = "connect" /\ task[t].pc = "start")
    BY OperationGoesOn
  <1>3. CASE t \in Initializers /\ Connected(t)
    <2>1. /\ task[t].pc = "connect" /\ t \in Leased
      BY <1>3 DEF Connected, Leased, Operations
    <2>2. lifecycle # "closed" /\ task[CloseTask].pc # "await" /\ lifecycle' = lifecycle
      BY <1>3, <2>1 DEF Connected, LeaseInv
    <2>3. opened = 0 /\ opened' = 1 /\ conn' = 1
      BY <1>3, <2>1 DEF Connected, SingleInv
    <2>4. \A u \in Initializers : u = t
      BY <1>3 DEF OneInitializer
    <2>5. task'[t].pc \notin {"start", "connect"}
      BY <1>2, <2>1
    <2>6. task'[CloseTask] = task[CloseTask]
      BY <1>1, <1>2
    <2>7. \A c \in Conns : ~ (c > opened')
      BY <2>3, OneConnection
    <2> QED
      BY <2>2, <2>3, <2>4, <2>5, <2>6, <2>7 DEF SingleInv
  <1>4. CASE ~ (t \in Initializers /\ Connected(t))
    <2>1. UNCHANGED <<opened, conn, conns, lifecycle>>
      BY <1>4 DEF Refuse, WriteStarts, ReadStarts, InitializeStarts, ConnectFails, Resume,
         PragmaDone, MigrationNeeded, PlainDone, Begin, TransactionStep, Committed, Failed,
         RolledBack, Cancel
    <2>2. \A u \in Initializers : task'[u].pc \in {"start", "connect"}
                                       => task[u].pc \in {"start", "connect"}
      BY <1>1, <1>2
    <2> QED
      BY <1>1, <1>2, <2>1, <2>2, SingleKept
  <1> QED
    BY <1>3, <1>4

LEMMA SingleClose ==
    ASSUME OneInitializer, MixInv, LeaseInv, SingleInv,
           \/ \E t \in Closers : Close(t)
           \/ CloseDrained \/ CloseNative \/ CloseAnswered
    PROVE  SingleInv'
  <1>1. /\ task \in [Tasks -> TaskState] /\ CloseTask \in Tasks
        /\ task[CloseTask] \in TaskState /\ conn \in Nat
        /\ UNCHANGED <<conns, opened>>
    BY DEF MixInv, TypesInv, Tasks, Close, CloseDrained, CloseNative, CloseAnswered, CloseEnds
  <1>2. \A u \in Initializers : u \in Tasks /\ u # CloseTask /\ u \notin Closers
    BY TaskFacts DEF Operations
  <1>3. ASSUME NEW p \in {"drain", "lock", "done", "start"}
        PROVE  At(task[CloseTask], p).pc # "await" /\ At(Idle, p).pc # "await"
    BY <1>1, <1>3, PcFacts, IdleFacts
  <1>4. ASSUME NEW ok \in BOOLEAN, CloseEnds(ok), task[CloseTask].pc \in {"lock", "await"},
               ok => \A c \in Conns : ~ conns[c].open
        PROVE  SingleInv'
    <2>1. \A u \in Initializers : task'[u] = task[u]
      BY <1>2, <1>4 DEF CloseEnds
    <2>2. task'[CloseTask].pc # "await"
      BY <1>1, <1>3, <1>4 DEF CloseEnds
    <2>3. lifecycle # "closed"
      BY <1>4 DEF LeaseInv, PlaceInv
    <2>4. CASE ok
      BY <1>1, <1>4, <2>1, <2>2, <2>4 DEF SingleInv, CloseEnds
    <2>5. CASE ~ ok
      BY <1>1, <1>4, <2>1, <2>2, <2>3, <2>5 DEF SingleInv, CloseEnds
    <2> QED
      BY <2>4, <2>5
  <1>5. ASSUME NEW t \in Closers, Close(t)
        PROVE  SingleInv'
    <2>1. conn' = conn /\ t \in Tasks
      BY <1>5 DEF Close, Tasks
    <2>2. \A u \in Initializers : task'[u] = task[u]
      BY <1>1, <1>2, <1>5 DEF Close
    <2>3. CASE lifecycle = "open"
      <3>1. /\ task' = [task EXCEPT ![t] = At(task[t], "join"),
                                    ![CloseTask] = At(task[CloseTask], "drain")]
            /\ lifecycle' = "closing"
        BY <1>5, <2>3, StoreTasks DEF Close, StoreTasks
      <3>2. task'[CloseTask] = At(task[CloseTask], "drain")
        BY <1>1, <3>1
      <3>3. task'[CloseTask].pc # "await"
        BY <1>3, <3>2
      <3> QED
        BY <1>1, <2>1, <2>2, <2>3, <3>1, <3>3 DEF SingleInv
    <2>4. CASE lifecycle # "open"
      <3>1. lifecycle' = lifecycle /\ task'[CloseTask] = task[CloseTask]
        BY <1>1, <1>5, <2>4, StoreTasks DEF Close, StoreTasks
      <3> QED
        BY <1>1, <2>1, <2>2, <3>1, SingleKept
    <2> QED
      BY <2>3, <2>4
  <1>6. CASE CloseDrained
    <2>1. /\ UNCHANGED <<conn, lifecycle>>
          /\ task' = [task EXCEPT ![CloseTask] = At(task[CloseTask], "lock")]
      BY <1>6 DEF CloseDrained
    <2>2. /\ task'[CloseTask].pc # "await"
          /\ \A u \in Initializers : task'[u] = task[u]
      BY <1>1, <1>2, <1>3, <2>1
    <2> QED
      BY <1>1, <2>1, <2>2 DEF SingleInv
  <1>7. CASE CloseNative
    <2>1. CASE conn # NoConn
      <3> DEFINE a == Awaiting(task[CloseTask], conn, "CLOSE")
      <3>1. /\ task' = [task EXCEPT ![CloseTask] = a] /\ UNCHANGED <<conn, lifecycle>>
            /\ task[CloseTask].pc = "lock"
        BY <1>7, <2>1 DEF CloseNative, Send
      <3>2. a.stmt = "CLOSE" /\ a.on = conn /\ a.reply = "none"
        BY <1>1, AwaitingFacts, WordFacts
      <3> HIDE DEF a
      <3>3. /\ task'[CloseTask] = a
            /\ \A u \in Initializers : task'[u] = task[u]
        BY <1>1, <1>2, <3>1
      <3> QED
        BY <1>1, <2>1, <3>1, <3>2, <3>3 DEF SingleInv
    <2>2. CASE conn = NoConn
      <3>1. CloseEnds(TRUE) /\ task[CloseTask].pc = "lock"
        BY <1>7, <2>2 DEF CloseNative
      <3>2. opened = 0
        BY <2>2, <3>1 DEF SingleInv, LeaseInv, PlaceInv, NoConn
      <3>3. \A c \in Conns : ~ conns[c].open
        BY <3>2, OneConnection DEF SingleInv
      <3> QED
        BY <1>4, <3>1, <3>3
    <2> QED
      BY <2>1, <2>2
  <1>8. CASE CloseAnswered
    <2>1. /\ CloseEnds(task[CloseTask].reply = "ok") /\ task[CloseTask].pc = "await"
      BY <1>8 DEF CloseAnswered, Answered
    <2>2. task[CloseTask].reply = "ok" => \A c \in Conns : ~ conns[c].open
      BY <2>1 DEF SingleInv
    <2> QED
      BY <1>4, <2>1, <2>2
  <1> QED
    BY <1>5, <1>6, <1>7, <1>8

\* A thread closes its connection before it answers the close task.
LEMMA SingleThread ==
    ASSUME OneInitializer, MixInv, SingleInv, NEW c \in Conns, Execute(c) \/ ExecuteFails(c)
    PROVE  SingleInv'
  <1> DEFINE h == Head(wire[c])
  <1>1. /\ UNCHANGED <<opened, conn, lifecycle>> /\ wire[c] # <<>>
        /\ task \in [Tasks -> TaskState] /\ wire[c] \in Seq(Message)
        /\ conns \in [Conns -> ConnState]
        /\ CloseTask \in Tasks /\ \A u \in Initializers : u \in Tasks
    BY DEF Execute, ExecuteFails, MixInv, TypesInv, Tasks, Operations
  <1>2. h.by \in Tasks /\ h = wire[c][1] /\ 1 \in 1 .. Len(wire[c])
    BY <1>1, MessageFacts, HeadTailProperties, EmptySeq
  <1>3. h.live => task[h.by].stmt = h.stmt
    BY <1>2 DEF MixInv, WireInv, WireAgrees, LiveAwaited
  <1> HIDE DEF h
  <1>4. \A d \in Conns : /\ conns'[d].open => conns[d].open
                         /\ d = c /\ h.stmt = "CLOSE" /\ conns' # conns => ~ conns'[d].open
    <2>1. conns' = conns \/ conns' = [conns EXCEPT ![c] = After(c, h)]
      BY DEF Execute, ExecuteFails, h
    <2>2. After(c, h).open = (conns[c].open /\ h.stmt # "CLOSE")
      BY DEF After
    <2> QED
      BY <1>1, <2>1, <2>2
  <1>5. \A u \in Tasks : task'[u].pc = task[u].pc
    BY ThreadMovesNobody
  <1>6. CASE h.live /\ h.by = CloseTask /\ task[CloseTask].pc = "await"
    <2>1. PICK reply \in {"ok", "absent", "failed"} :
              /\ Deliver(c, reply)
              /\ reply = "ok" => conns' = [conns EXCEPT ![c] = After(c, h)]
      BY DEF Execute, ExecuteFails, h
    <2>2. task' = [task EXCEPT ![CloseTask] = Answer(task[CloseTask], reply)]
      BY <1>6, <2>1 DEF Deliver, h
    <2>3. reply \in Words
      BY WordFacts
    <2>4. /\ task'[CloseTask].stmt = task[CloseTask].stmt
          /\ task'[CloseTask].on = task[CloseTask].on
          /\ task'[CloseTask].reply = reply
      BY <1>1, <2>2, <2>3, AnswerFacts
    <2>5. h.stmt = "CLOSE"
      BY <1>3, <1>6 DEF SingleInv
    <2>6. reply = "ok" => \A d \in Conns : ~ conns'[d].open
      <3>1. After(c, h).open = (conns[c].open /\ h.stmt # "CLOSE")
        BY DEF After
      <3>2. reply = "ok" => ~ conns'[c].open
        BY <1>1, <2>1, <2>5, <3>1
      <3>3. \A d \in Conns : d = c
        BY OneConnection
      <3> QED
        BY <3>2, <3>3
    <2> QED
      BY <1>1, <1>4, <1>5, <1>6, <2>4, <2>6 DEF SingleInv
  <1>7. CASE ~ (h.live /\ h.by = CloseTask)
    <2>1. task'[CloseTask] = task[CloseTask]
      <3>1. PICK reply : Deliver(c, reply)
        BY DEF Execute, ExecuteFails
      <3> QED
        BY <1>1, <1>7, <3>1 DEF Deliver, h
    <2> QED
      BY <1>1, <1>4, <1>5, <2>1, SingleKept
  <1>8. h.live => task[h.by].pc = "await"
    BY <1>2 DEF MixInv, WireInv, WireAgrees, LiveAwaited, h
  <1> QED
    BY <1>6, <1>7, <1>8

LEMMA SingleInitially == Init => SingleInv
  <1> SUFFICES ASSUME Init PROVE SingleInv
    OBVIOUS
  <1>1. task[CloseTask].pc = "start"
    BY IdleFacts DEF Init, Tasks
  <1>2. \A c \in Conns : ~ conns[c].open
    BY DEF Init
  <1> QED
    BY <1>1, <1>2 DEF Init, SingleInv, NoConn

LEMMA SingleStep ==
    ASSUME OneInitializer
    PROVE  MixInv /\ LeaseInv /\ SingleInv /\ [Next]_svars => SingleInv'
  <1> SUFFICES ASSUME MixInv, LeaseInv, SingleInv, [Next]_svars PROVE SingleInv'
    OBVIOUS
  <1>1. ASSUME UNCHANGED svars PROVE SingleInv'
    BY <1>1 DEF svars, SingleInv
  <1>2. ASSUME NEW t \in Operations, Refuse(t) \/ Resume(t) PROVE SingleInv'
    BY <1>2, SingleOperation
  <1>3. ASSUME NEW t \in Writers, WriteStarts(t) PROVE SingleInv'
    BY <1>3, SingleOperation DEF Operations
  <1>4. ASSUME NEW t \in Readers, ReadStarts(t) PROVE SingleInv'
    BY <1>4, SingleOperation DEF Operations
  <1>5. ASSUME NEW t \in Initializers,
               InitializeStarts(t) \/ Connected(t) \/ ConnectFails(t)
        PROVE  SingleInv'
    BY <1>5, SingleOperation DEF Operations
  <1>6. ASSUME NEW t \in Operations \cup Closers, Cancel(t) PROVE SingleInv'
    BY <1>6, SingleOperation
  <1>7. ASSUME NEW t \in Closers, Close(t) PROVE SingleInv'
    BY <1>7, SingleClose
  <1>8. CASE CloseDrained \/ CloseNative \/ CloseAnswered
    BY <1>8, SingleClose
  <1>9. ASSUME NEW c \in Conns, Execute(c) \/ ExecuteFails(c) PROVE SingleInv'
    BY <1>9, SingleThread
  <1>10. CASE Finished
    BY <1>1, <1>10 DEF Finished
  <1> QED
    BY <1>1, <1>2, <1>3, <1>4, <1>5, <1>6, <1>7, <1>8, <1>9, <1>10 DEF Next

LEMMA SingleAlways ==
    ASSUME OneInitializer
    PROVE  Spec => [](MixInv /\ LeaseInv /\ SingleInv)
  <1>1. Init => MixInv /\ LeaseInv /\ SingleInv
    BY MixInitially, LeaseInitially, SingleInitially
  <1>2. MixInv /\ LeaseInv /\ SingleInv /\ [Next]_svars => (MixInv /\ LeaseInv /\ SingleInv)'
    BY MixStep, LeaseStep, SingleStep
  <1> QED
    BY <1>1, <1>2, PTL DEF Spec

\* A closed store stays closed and its file as it was, whoever closes it again:
\* no operation begins, and what cancelled tasks have left behind was executed
\* before the native close (close(), _close_when_drained()).
THEOREM ClosedStaysClosed ==
    ASSUME OneInitializer
    PROVE  Spec => ClosedForGood
  <1>1. LeaseInv => (task[CloseTask].pc = "await" \/ lifecycle = "closed" => NothingRuns)
    BY DEF LeaseInv, Leased, NothingRuns
  <1>2. MixInv /\ LeaseInv /\ SingleInv /\ [Next]_svars
            => [lifecycle = "closed" => lifecycle' = "closed" /\ file' = file]_svars
    <2> SUFFICES ASSUME MixInv, LeaseInv, SingleInv, [Next]_svars, lifecycle = "closed"
                 PROVE  lifecycle' = "closed" /\ file' = file
      OBVIOUS
    <2>1. task[CloseTask].pc = "done" /\ \A c \in Conns : ~ conns[c].open
      BY DEF LeaseInv, PlaceInv, SingleInv
    <2>2. CASE \E c \in Conns : Execute(c) \/ ExecuteFails(c)
      <3>1. PICK c \in Conns : Execute(c) \/ ExecuteFails(c)
        BY <2>2
      <3> DEFINE h == Head(wire[c])
      <3>2. h.stmt = "COMMIT" => ~ Runs(c, h)
        BY <2>1 DEF Runs
      <3>3. file' = file
        BY <3>1, <3>2 DEF Execute, ExecuteFails, h
      <3> QED
        BY <3>1, <3>3 DEF Execute, ExecuteFails
    <2>3. CASE ~ \E c \in Conns : Execute(c) \/ ExecuteFails(c)
      <3>1. ~ CloseDrained /\ ~ CloseNative /\ ~ CloseAnswered
        BY <2>1 DEF CloseDrained, CloseNative, CloseAnswered, Answered
      <3>2. CASE \E t \in Closers : Close(t)
        BY <3>2 DEF Close
      <3>3. CASE \E t \in Operations : Refuse(t) \/ Resume(t)
        BY <3>3 DEF Refuse, Resume, PragmaDone, MigrationNeeded, PlainDone, Begin,
           TransactionStep, Committed, Failed, RolledBack
      <3>4. CASE \E t \in Operations \cup Closers : Cancel(t)
        BY <3>4 DEF Cancel
      <3>5. CASE \/ \E t \in Writers : WriteStarts(t)
                 \/ \E t \in Readers : ReadStarts(t)
                 \/ \E t \in Initializers :
                       InitializeStarts(t) \/ Connected(t) \/ ConnectFails(t)
        BY <3>5 DEF WriteStarts, ReadStarts, InitializeStarts, Connected, ConnectFails
      <3>6. CASE Finished \/ UNCHANGED svars
        BY <3>6 DEF Finished, svars
      <3> QED
        BY <2>3, <3>1, <3>2, <3>3, <3>4, <3>5, <3>6 DEF Next
    <2> QED
      BY <2>2, <2>3
  <1>3. Spec => [](MixInv /\ LeaseInv /\ SingleInv)
    BY SingleAlways
  <1> QED
    BY <1>1, <1>2, <1>3, PTL DEF Spec, ClosedForGood

\* close() leaves no connection open when one initialize() has opened it; two
\* that run at once may (finding, run st_two_connections).
THEOREM CloseLeavesNoConnection ==
    ASSUME OneInitializer
    PROVE  Spec => []SingleConnection
  <1>1. SingleInv => SingleConnection
    BY DEF SingleInv, SingleConnection
  <1> QED
    BY <1>1, SingleAlways, PTL
-----------------------------------------------------------------------------
\* A task that was cancelled, or failed, sends nothing more but a ROLLBACK.
GaveUp(r) ==
    \/ r.pc = "done"
    \/ r.pc = "await" /\ (r.reply = "cancelled" \/ r.stmt = "ROLLBACK")

\* Only the close task closes, it is never cancelled, and what nobody awaits was
\* left by a task that gave up.
Sent(m, tk) ==
    /\ m.by \in Operations \cup {CloseTask}
    /\ m.stmt = "CLOSE" <=> m.by = CloseTask
    /\ ~ m.live => m.by # CloseTask /\ GaveUp(tk[m.by])

LeftInv == \A c \in Conns : \A i \in 1 .. Len(wire[c]) : Sent(wire[c][i], task)

\* A save writes, and the first row it has not written.
Writing(r) ==
    \/ r.pc \in {"start", "lock"}
    \/ r.pc = "await" /\ r.stmt \in {"BEGIN", "INSERT"} /\ r.reply # "cancelled"
Unwritten(r) ==
    IF r.pc = "await" /\ r.stmt = "INSERT" /\ r.reply # "none" THEN r.part + 1 ELSE r.part

NewInv ==
    \A w \in Writers : Writing(task[w]) =>
        \A k \in Nat : k >= Unwritten(task[w]) =>
            /\ <<w, k>> \notin file
            /\ \A c \in Conns : <<w, k>> \notin conns[c].rows

\* A transaction has begun when j statements of q were executed after owner o
\* had one; statements i to j end it.
Begun(q, o, j) == IF j = 0 THEN o # Nobody ELSE q[j].stmt = "BEGIN"
Ended(q, i, j) == \E e \in i .. j : q[e].stmt \in {"COMMIT", "ROLLBACK"}

\* Each transaction is ended before the next begins; all of them are.
Ordered(q, o) ==
    \A i \in 1 .. Len(q) : \A j \in 0 .. i - 1 :
        q[i].stmt = "BEGIN" /\ Begun(q, o, j) => Ended(q, j + 1, i - 1)
Over(q, o) ==
    \A j \in 0 .. Len(q) : Begun(q, o, j) => Ended(q, j + 1, Len(q))

\* A task is in a transaction it has not sent the end of.
Working(r, c) == r.pc = "await" /\ r.stmt \in {"BEGIN", "INSERT"} /\ r.on = c

Orderly(c) ==
    conns[c].open =>
        /\ Ordered(wire[c], conns[c].owner)
        /\ Over(wire[c], conns[c].owner) \/ \E t \in Tasks : Working(task[t], c)

\* No statement has failed on a file that was migrated earlier.
Calm == faults = 0 /\ Earlier \in file

Broken(r) == r.reply = "failed" \/ r.fate = "failed"

CalmInv ==
    /\ faults \in Nat
    /\ Calm =>
        /\ Schema \in file
        /\ \A w \in Writers : ~ Broken(task[w])
        /\ task[CloseTask].reply # "failed"
        /\ \A c \in Conns : c <= opened /\ ~ conns[c].open =>
              \/ lifecycle = "closed"
              \/ task[CloseTask].pc = "await" /\ task[CloseTask].reply = "ok"
        /\ \A c \in Conns : c > opened => conns[c].owner = Nobody
        /\ \A c \in Conns : Orderly(c)
-----------------------------------------------------------------------------
\* What the queue of statements of a connection looks like depends on their kind.
LEMMA SameStatements ==
    ASSUME NEW q \in Seq(Message), NEW p \in Seq(Message), NEW o, Len(p) = Len(q),
           \A i \in 1 .. Len(q) : p[i].stmt = q[i].stmt
    PROVE  /\ Ordered(q, o) => Ordered(p, o)
           /\ Over(q, o) => Over(p, o)
  <1>1. Len(q) \in Nat
    BY LenProperties
  <1>2. \A j \in 0 .. Len(q) : Begun(p, o, j) => Begun(q, o, j)
    BY <1>1 DEF Begun
  <1>3. \A i, j \in Int : 1 <= i /\ j <= Len(q) /\ Ended(q, i, j) => Ended(p, i, j)
    BY <1>1 DEF Ended
  <1>4. ASSUME Ordered(q, o) PROVE Ordered(p, o)
    <2> SUFFICES ASSUME NEW i \in 1 .. Len(q), NEW j \in 0 .. i - 1,
                        p[i].stmt = "BEGIN", Begun(p, o, j)
                 PROVE  Ended(p, j + 1, i - 1)
      BY DEF Ordered
    <2>1. j \in 0 .. Len(q) /\ 1 <= j + 1 /\ i - 1 <= Len(q) /\ j + 1 \in Int /\ i - 1 \in Int
      BY <1>1
    <2>2. Ended(q, j + 1, i - 1)
      BY <1>2, <1>4, <2>1 DEF Ordered
    <2> QED
      BY <1>3, <2>1, <2>2
  <1>5. ASSUME Over(q, o) PROVE Over(p, o)
    <2> SUFFICES ASSUME NEW j \in 0 .. Len(q), Begun(p, o, j)
                 PROVE  Ended(p, j + 1, Len(q))
      BY DEF Over
    <2>1. 1 <= j + 1 /\ j + 1 \in Int /\ Len(q) \in Int
      BY <1>1
    <2>2. Ended(q, j + 1, Len(q))
      BY <1>2, <1>5 DEF Over
    <2> QED
      BY <1>3, <2>1, <2>2
  <1> QED
    BY <1>4, <1>5

\* A statement is sent.
LEMMA OneMore ==
    ASSUME NEW q \in Seq(Message), NEW m \in Message, NEW o, Ordered(q, o)
    PROVE  /\ (m.stmt = "BEGIN" => Over(q, o)) => Ordered(Append(q, m), o)
           /\ m.stmt \in {"COMMIT", "ROLLBACK"} => Over(Append(q, m), o)
           /\ m.stmt # "BEGIN" /\ Over(q, o) => Over(Append(q, m), o)
  <1> DEFINE p == Append(q, m)
             n == Len(q)
  <1>1. /\ n \in Nat /\ Len(p) = n + 1 /\ p[n + 1] = m
        /\ \A i \in 1 .. n : p[i] = q[i]
    BY AppendProperties, LenProperties
  <1> HIDE DEF p, n
  <1>2. \A j \in 0 .. n : Begun(p, o, j) => Begun(q, o, j)
    BY <1>1 DEF Begun
  <1>3. \A i, j \in Int : 1 <= i /\ j <= n /\ Ended(q, i, j) => Ended(p, i, j)
    BY <1>1 DEF Ended
  <1>4. ASSUME m.stmt = "BEGIN" => Over(q, o) PROVE Ordered(p, o)
    <2> SUFFICES ASSUME NEW i \in 1 .. n + 1, NEW j \in 0 .. i - 1,
                        p[i].stmt = "BEGIN", Begun(p, o, j)
                 PROVE  Ended(p, j + 1, i - 1)
      BY <1>1 DEF Ordered
    <2>1. /\ j \in 0 .. n /\ 1 <= j + 1 /\ i - 1 <= n /\ j + 1 \in Int /\ i - 1 \in Int
      BY <1>1
    <2>2. Begun(q, o, j)
      BY <1>2, <2>1
    <2>3. CASE i = n + 1
      <3>1. Over(q, o)
        BY <1>1, <1>4, <2>3
      <3>2. Ended(q, j + 1, n)
        BY <2>1, <2>2, <3>1 DEF Over, n
      <3>3. n = i - 1
        BY <1>1, <2>3
      <3> QED
        BY <1>3, <2>1, <3>2, <3>3
    <2>4. CASE i # n + 1
      <3>1. i \in 1 .. n
        BY <1>1, <2>4
      <3>2. q[i].stmt = "BEGIN"
        BY <1>1, <3>1
      <3>3. Ended(q, j + 1, i - 1)
        BY <2>2, <3>1, <3>2 DEF Ordered, n
      <3> QED
        BY <1>3, <2>1, <3>3
    <2> QED
      BY <2>3, <2>4
  <1>5. ASSUME m.stmt \in {"COMMIT", "ROLLBACK"} PROVE Over(p, o)
    <2> SUFFICES ASSUME NEW j \in 0 .. n + 1, Begun(p, o, j)
                 PROVE  Ended(p, j + 1, n + 1)
      BY <1>1 DEF Over
    <2>1. j # n + 1
      <3>1. n + 1 # 0
        BY <1>1
      <3> QED
        BY <1>1, <1>5, <3>1 DEF Begun
    <2>2. n + 1 \in j + 1 .. n + 1
      BY <1>1, <2>1
    <2> QED
      BY <1>1, <1>5, <2>2 DEF Ended
  <1>6. ASSUME m.stmt # "BEGIN", Over(q, o) PROVE Over(p, o)
    <2> SUFFICES ASSUME NEW j \in 0 .. n + 1, Begun(p, o, j)
                 PROVE  Ended(p, j + 1, n + 1)
      BY <1>1 DEF Over
    <2>1. j # n + 1
      <3>1. n + 1 # 0
        BY <1>1
      <3> QED
        BY <1>1, <1>6, <3>1 DEF Begun
    <2>2. j \in 0 .. n /\ j + 1 \in Int /\ 1 <= j + 1
      BY <1>1, <2>1
    <2>3. Ended(q, j + 1, n)
      BY <1>2, <1>6, <2>2 DEF Over, n
    <2>4. Ended(p, j + 1, n)
      BY <1>1, <1>3, <2>2, <2>3
    <2>5. \A e \in j + 1 .. n : e \in j + 1 .. n + 1
      BY <1>1, <2>2
    <2> QED
      BY <2>4, <2>5 DEF Ended
  <1> QED
    BY <1>4, <1>5, <1>6 DEF p

\* The first statement is executed; what it leaves as the owner had one before
\* or begins with it.
LEMMA OneLess ==
    ASSUME NEW q \in Seq(Message), q # <<>>, NEW o, NEW b, Ordered(q, o),
           b # Nobody => /\ Head(q).stmt \notin {"COMMIT", "ROLLBACK"}
                         /\ o # Nobody \/ Head(q).stmt = "BEGIN"
    PROVE  /\ Ordered(Tail(q), b)
           /\ Over(q, o) => Over(Tail(q), b)
           /\ Head(q).stmt = "BEGIN" => o = Nobody
  <1> DEFINE p == Tail(q)
             n == Len(q)
  <1>1. /\ n \in Nat /\ n >= 1 /\ Len(p) = n - 1 /\ Head(q) = q[1]
        /\ \A i \in 1 .. n - 1 : p[i] = q[i + 1]
    BY HeadTailProperties, LenProperties, EmptySeq
  <1> HIDE DEF p, n
  <1>2. ASSUME NEW j \in 0 .. n - 1, Begun(p, b, j)
        PROVE  \/ Begun(q, o, j + 1)
               \/ j = 0 /\ Begun(q, o, 0) /\ q[1].stmt \notin {"COMMIT", "ROLLBACK"}
    <2>1. CASE j = 0
      <3>1. b # Nobody
        BY <1>2, <2>1 DEF Begun
      <3> QED
        BY <1>1, <2>1, <3>1 DEF Begun
    <2>2. CASE j # 0
      <3>1. j \in 1 .. n - 1 /\ j + 1 # 0
        BY <1>1, <2>2
      <3>2. p[j].stmt = "BEGIN"
        BY <1>2, <2>2 DEF Begun
      <3> QED
        BY <1>1, <3>1, <3>2 DEF Begun
    <2> QED
      BY <2>1, <2>2
  <1>3. ASSUME NEW i \in Int, NEW j \in Int, 1 <= i, j <= n, Ended(q, i + 1, j)
        PROVE  Ended(p, i, j - 1)
    <2>1. PICK e \in i + 1 .. j : q[e].stmt \in {"COMMIT", "ROLLBACK"}
      BY <1>3 DEF Ended
    <2>2. e - 1 \in i .. j - 1 /\ e - 1 \in 1 .. n - 1 /\ (e - 1) + 1 = e
      BY <1>1, <1>3
    <2>3. p[e - 1] = q[e]
      BY <1>1, <2>2
    <2> QED
      BY <2>1, <2>2, <2>3 DEF Ended
  <1>4. ASSUME q[1].stmt \notin {"COMMIT", "ROLLBACK"}, NEW j \in Int, Ended(q, 1, j)
        PROVE  Ended(q, 2, j)
    <2>1. PICK e \in 1 .. j : q[e].stmt \in {"COMMIT", "ROLLBACK"}
      BY <1>4 DEF Ended
    <2>2. e \in 2 .. j
      BY <1>4, <2>1
    <2> QED
      BY <2>1, <2>2 DEF Ended
  <1>5. Ordered(p, b)
    <2> SUFFICES ASSUME NEW i \in 1 .. n - 1, NEW j \in 0 .. i - 1,
                        p[i].stmt = "BEGIN", Begun(p, b, j)
                 PROVE  Ended(p, j + 1, i - 1)
      BY <1>1 DEF Ordered
    <2>1. /\ j \in 0 .. n - 1 /\ i + 1 \in 1 .. n /\ q[i + 1].stmt = "BEGIN"
          /\ j + 1 \in 0 .. (i + 1) - 1 /\ 0 \in 0 .. (i + 1) - 1 /\ 0 + 1 = 1
          /\ (i + 1) - 1 = i /\ i <= n /\ i \in Int /\ j + 1 \in Int /\ 1 <= j + 1
      BY <1>1
    <2>2. Ended(q, (j + 1) + 1, i)
      <3>1. CASE Begun(q, o, j + 1)
        <4>1. Ended(q, (j + 1) + 1, (i + 1) - 1)
          BY <2>1, <3>1 DEF Ordered, n
        <4> QED
          BY <2>1, <4>1
      <3>2. CASE j = 0 /\ Begun(q, o, 0) /\ q[1].stmt \notin {"COMMIT", "ROLLBACK"}
        <4>1. Ended(q, 0 + 1, (i + 1) - 1)
          BY <2>1, <3>2 DEF Ordered, n
        <4>2. Ended(q, 1, i)
          BY <2>1, <4>1
        <4>3. Ended(q, 2, i) /\ (j + 1) + 1 = 2
          BY <1>4, <2>1, <3>2, <4>2
        <4> QED
          BY <4>3
      <3> QED
        BY <1>2, <2>1, <3>1, <3>2
    <2> QED
      BY <1>3, <2>1, <2>2
  <1>6. ASSUME Over(q, o) PROVE Over(p, b)
    <2> SUFFICES ASSUME NEW j \in 0 .. n - 1, Begun(p, b, j)
                 PROVE  Ended(p, j + 1, n - 1)
      BY <1>1 DEF Over
    <2>1. /\ j + 1 \in 0 .. n /\ 0 \in 0 .. n /\ 0 + 1 = 1 /\ n \in Int /\ n <= n
          /\ j + 1 \in Int /\ 1 <= j + 1
      BY <1>1
    <2>2. Ended(q, (j + 1) + 1, n)
      <3>1. CASE Begun(q, o, j + 1)
        BY <1>6, <2>1, <3>1 DEF Over, n
      <3>2. CASE j = 0 /\ Begun(q, o, 0) /\ q[1].stmt \notin {"COMMIT", "ROLLBACK"}
        <4>1. Ended(q, 0 + 1, n)
          BY <1>6, <2>1, <3>2 DEF Over, n
        <4>2. Ended(q, 1, n)
          BY <2>1, <4>1
        <4>3. Ended(q, 2, n) /\ (j + 1) + 1 = 2
          BY <1>4, <2>1, <3>2, <4>2
        <4> QED
          BY <4>3
      <3> QED
        BY <1>2, <3>1, <3>2
    <2> QED
      BY <1>3, <2>1, <2>2
  <1>7. ASSUME Head(q).stmt = "BEGIN" PROVE o = Nobody
    <2>1. 1 \in 1 .. n /\ 0 \in 0 .. 1 - 1 /\ 0 + 1 = 1 /\ 1 - 1 = 0
      BY <1>1
    <2>2. ~ Ended(q, 0 + 1, 1 - 1)
      BY <2>1 DEF Ended
    <2>3. ~ Begun(q, o, 0)
      BY <1>1, <1>7, <2>1, <2>2 DEF Ordered, n
    <2> QED
      BY <2>3 DEF Begun
  <1> QED
    BY <1>5, <1>6, <1>7 DEF p
-----------------------------------------------------------------------------
\* A task of an operation goes on without a statement.
Quietly(t, r) ==
    /\ wire' = wire /\ task' = [task EXCEPT ![t] = r]
    /\ r.pc # "await" /\ ~ \E c \in Conns : Working(task[t], c)
    /\ GaveUp(task[t]) => r.pc = "done"
    /\ t \in Writers => /\ Writing(r) => Writing(task[t]) /\ r.part = Unwritten(task[t])
                        /\ Broken(r) => Broken(task[t])

\* It goes on with statement s on connection c.
Onwards(t, r, c, s) ==
    /\ r \in TaskState /\ c \in Nat /\ s \in Words /\ Send(t, r, c, s)
    /\ s # "CLOSE" /\ (GaveUp(task[t]) => s = "ROLLBACK")
    /\ s \in {"BEGIN", "INSERT"} => Writing(task[t]) /\ r.part = Unwritten(task[t])
    /\ r.fate = "failed" => Broken(task[t])
    /\ s = "BEGIN" => task[t].pc = "lock" /\ Holds(t)
    /\ \A d \in Conns : Working(task[t], d)
           => d = c /\ s \in {"INSERT", "COMMIT", "ROLLBACK"}

LEMMA StateFacts ==
    ASSUME NEW r \in TaskState
    PROVE  /\ \A s : /\ Done(r, s).reply = r.reply /\ Done(r, s).fate = s
                     /\ At(r, s).reply = r.reply /\ At(r, s).fate = r.fate
                     /\ At(r, s).part = r.part
           /\ \A c, s : /\ Awaiting(r, c, s).reply = "none"
                        /\ Awaiting(r, c, s).fate = r.fate
                        /\ Awaiting(r, c, s).part = r.part
                        /\ Awaiting(r, c, s).stmt = s
           /\ NextPart(r).fate = r.fate /\ NextPart(r).part = r.part + 1
           /\ Failing(r).fate = r.reply
  BY DEF TaskState, Done, At, Awaiting, NextPart, Failing

LEMMA DoneQuietly ==
    ASSUME NEW t \in Tasks, NEW s, task[t] \in TaskState,
           task' = [task EXCEPT ![t] = Done(@, s)], task \in [Tasks -> TaskState],
           wire' = wire, ~ \E c \in Conns : Working(task[t], c),
           t \in Writers /\ s = "failed" => Broken(task[t])
    PROVE  \E r : Quietly(t, r)
  <1> DEFINE r == Done(task[t], s)
  <1>1. r.pc = "done" /\ r.reply = task[t].reply /\ r.fate = s
    BY PcFacts, StateFacts
  <1>2. task' = [task EXCEPT ![t] = r]
    OBVIOUS
  <1> HIDE DEF r
  <1>3. ~ Writing(r)
    BY <1>1 DEF Writing
  <1>4. t \in Writers /\ Broken(r) => Broken(task[t])
    BY <1>1 DEF Broken
  <1> QED
    BY <1>1, <1>2, <1>3, <1>4 DEF Quietly

\* Every step of an operation but the cancellation of an awaited statement.
LEMMA OperationSteps ==
    ASSUME MixInv, OutcomeInv, NEW t \in Operations,
           \/ Refuse(t) \/ WriteStarts(t) \/ ReadStarts(t) \/ InitializeStarts(t)
           \/ (t \in Initializers /\ (Connected(t) \/ ConnectFails(t)))
           \/ Resume(t)
           \/ (Cancel(t) /\ task[t].pc # "await")
    PROVE  (\E r : Quietly(t, r)) \/ \E r, c, s : Onwards(t, r, c, s)
  <1>1. /\ t \in Tasks /\ task[t] \in TaskState /\ task \in [Tasks -> TaskState]
        /\ conn \in Nat /\ opened \in Nat /\ task[t].on \in Nat
        /\ task[t].part \in Nat
    BY OperationFacts DEF MixInv, TypesInv, TaskState
  <1>2. ASSUME NEW s, task' = [task EXCEPT ![t] = Done(@, s)], wire' = wire,
               ~ (task[t].pc = "await" /\ task[t].stmt \in {"BEGIN", "INSERT"}),
               t \in Writers /\ s = "failed" => Broken(task[t])
        PROVE  \E r : Quietly(t, r)
    <2>1. ~ \E c \in Conns : Working(task[t], c)
      BY <1>2 DEF Working
    <2> QED
      BY <1>1, <1>2, <2>1, DoneQuietly
  <1>3. ASSUME NEW s \in {"lock", "connect"}, task' = [task EXCEPT ![t] = At(task[t], s)],
               wire' = wire, ~ GaveUp(task[t]),
               ~ (task[t].pc = "await" /\ task[t].stmt \in {"BEGIN", "INSERT"}),
               t \in Writers => task[t].pc = "start"
        PROVE  \E r : Quietly(t, r)
    <2> DEFINE r == At(task[t], s)
    <2>1. /\ r.pc = s /\ r.reply = task[t].reply /\ r.fate = task[t].fate
          /\ r.part = task[t].part
      BY <1>1, PcFacts, StateFacts
    <2>2. task' = [task EXCEPT ![t] = r]
      BY <1>3
    <2> HIDE DEF r
    <2>3. t \in Writers => Writing(task[t]) /\ r.part = Unwritten(task[t])
      BY <1>3, <2>1 DEF Writing, Unwritten
    <2>4. Broken(r) => Broken(task[t])
      BY <2>1 DEF Broken
    <2>5. ~ \E c \in Conns : Working(task[t], c)
      BY <1>3 DEF Working
    <2> QED
      BY <1>3, <2>1, <2>2, <2>3, <2>4, <2>5 DEF Quietly
  <1>4. ASSUME NEW c \in Nat, NEW s \in {"SELECT", "VERSION", "PRAGMA"},
               Send(t, task[t], c, s), ~ GaveUp(task[t]),
               ~ (task[t].pc = "await" /\ task[t].stmt \in {"BEGIN", "INSERT"})
        PROVE  \E r, d, x : Onwards(t, r, d, x)
    <2>1. s \in Words /\ s \notin {"CLOSE", "BEGIN", "INSERT"}
      BY <1>4, WordFacts
    <2>2. ~ \E d \in Conns : Working(task[t], d)
      BY <1>4 DEF Working
    <2>3. task[t].fate = "failed" => Broken(task[t])
      BY DEF Broken
    <2> QED
      BY <1>1, <1>4, <2>1, <2>2, <2>3 DEF Onwards
  <1>5. CASE Refuse(t) \/ WriteStarts(t)
    BY <1>2, <1>3, <1>5 DEF Refuse, WriteStarts, GaveUp
  <1>6. CASE ReadStarts(t)
    BY <1>1, <1>2, <1>4, <1>6 DEF ReadStarts, GaveUp
  <1>7. CASE InitializeStarts(t)
    <2>1. CASE conn = NoConn
      <3>1. t \in Writers => task[t].pc = "start"
        BY <1>7 DEF InitializeStarts
      <3> QED
        BY <1>3, <1>7, <2>1, <3>1 DEF InitializeStarts, GaveUp
    <2>2. CASE conn # NoConn
      BY <1>1, <1>4, <1>7, <2>2 DEF InitializeStarts, GaveUp
    <2> QED
      BY <2>1, <2>2
  <1>8. CASE t \in Initializers /\ Connected(t)
    <2>1. opened + 1 \in Nat
      BY <1>1
    <2> QED
      BY <1>4, <1>8, <2>1 DEF Connected, GaveUp
  <1>9. CASE t \in Initializers /\ ConnectFails(t)
    BY <1>2, <1>9, WriterFacts DEF ConnectFails, End
  <1>10. CASE PragmaDone(t)
    BY <1>1, <1>4, <1>10 DEF PragmaDone, Answered, GaveUp
  <1>11. CASE MigrationNeeded(t)
    <2>1. t \notin Writers
      BY <1>11 DEF MigrationNeeded, Answered, OutcomeInv, Saving, Txn
    <2> QED
      BY <1>3, <1>11, <2>1 DEF MigrationNeeded, Answered, GaveUp
  <1>12. CASE PlainDone(t)
    <2> DEFINE s == IF task[t].reply = "ok" THEN "returned" ELSE task[t].reply
    <2>1. End(t, s) /\ wire' = wire /\ task[t].stmt \notin {"BEGIN", "INSERT"}
      BY <1>12 DEF PlainDone, Answered
    <2>2. s = "failed" => Broken(task[t])
      BY DEF Broken
    <2> HIDE DEF s
    <2> QED
      BY <1>2, <2>1, <2>2 DEF End
  <1>13. CASE Begin(t)
    <2>1. CASE conn # NoConn
      <3>1. /\ Send(t, task[t], conn, "BEGIN") /\ task[t].pc = "lock" /\ Holds(t)
            /\ "BEGIN" \in Words
        BY <1>13, <2>1, WordFacts DEF Begin, MayBegin
      <3>2. ~ GaveUp(task[t]) /\ Writing(task[t]) /\ task[t].part = Unwritten(task[t])
        BY <3>1 DEF GaveUp, Writing, Unwritten
      <3>3. ~ \E d \in Conns : Working(task[t], d)
        BY <3>1 DEF Working
      <3>4. task[t].fate = "failed" => Broken(task[t])
        BY DEF Broken
      <3> QED
        BY <1>1, <3>1, <3>2, <3>3, <3>4 DEF Onwards
    <2>2. CASE conn = NoConn
      BY <1>2, <1>13, <2>2 DEF Begin, End
    <2> QED
      BY <2>1, <2>2
  <1>14. CASE TransactionStep(t)
    <2> DEFINE c == task[t].on
    <2>1. /\ task[t].pc = "await" /\ task[t].reply = "ok"
          /\ task[t].stmt \in {"BEGIN", "INSERT"}
      BY <1>14 DEF TransactionStep, Answered
    <2>2. ~ GaveUp(task[t]) /\ Writing(task[t])
      BY <2>1 DEF GaveUp, Writing
    <2>3. "INSERT" \in Words /\ "COMMIT" \in Words /\ c \in Nat
      BY <1>1, WordFacts
    <2>4. \A d \in Conns : Working(task[t], d) => d = c
      BY DEF Working
    <2>5. task[t].fate = "failed" => Broken(task[t])
      BY DEF Broken
    <2>6. CASE task[t].stmt = "BEGIN"
      <3>1. Send(t, task[t], c, "INSERT")
        BY <1>14, <2>6 DEF TransactionStep, Answered
      <3>2. task[t].part = Unwritten(task[t])
        BY <2>6 DEF Unwritten
      <3> HIDE DEF c
      <3> QED
        BY <1>1, <2>2, <2>3, <2>4, <2>5, <3>1, <3>2 DEF Onwards
    <2>7. CASE task[t].stmt = "INSERT" /\ ~ LastPart(t)
      <3> DEFINE r == NextPart(task[t])
      <3>1. Send(t, r, c, "INSERT")
        BY <1>14, <2>7 DEF TransactionStep, Answered
      <3>2. r \in TaskState /\ r.part = task[t].part + 1 /\ r.fate = task[t].fate
        BY <1>1, NextPartFacts, StateFacts
      <3> HIDE DEF r, c
      <3>3. r.part = Unwritten(task[t])
        BY <2>1, <2>7, <3>2 DEF Unwritten
      <3> QED
        BY <2>2, <2>3, <2>4, <2>5, <3>1, <3>2, <3>3 DEF Onwards
    <2>8. CASE task[t].stmt = "INSERT" /\ LastPart(t)
      <3>1. Send(t, task[t], c, "COMMIT")
        BY <1>14, <2>8 DEF TransactionStep, Answered
      <3> HIDE DEF c
      <3> QED
        BY <1>1, <2>2, <2>3, <2>4, <2>5, <3>1 DEF Onwards
    <2> QED
      BY <2>1, <2>6, <2>7, <2>8
  <1>15. CASE Committed(t)
    BY <1>2, <1>15 DEF Committed, Answered, End
  <1>16. CASE Failed(t)
    <2> DEFINE r == Failing(task[t])
               c == task[t].on
    <2>1. Send(t, r, c, "ROLLBACK") /\ "ROLLBACK" \in Words /\ c \in Nat
      BY <1>1, <1>16, WordFacts DEF Failed
    <2>2. r \in TaskState /\ r.fate = task[t].reply
      BY <1>1, FailingFacts, StateFacts
    <2>3. \A d \in Conns : Working(task[t], d) => d = c
      BY DEF Working
    <2> HIDE DEF r, c
    <2>4. r.fate = "failed" => Broken(task[t])
      BY <2>2 DEF Broken
    <2> QED
      BY <2>1, <2>2, <2>3, <2>4 DEF Onwards
  <1>17. CASE RolledBack(t)
    <2>1. task[t].fate = "failed" => Broken(task[t])
      BY DEF Broken
    <2> QED
      BY <1>2, <1>17, <2>1 DEF RolledBack, Answered, End
  <1>18. CASE Cancel(t) /\ task[t].pc # "await"
    BY <1>2, <1>18 DEF Cancel, End
  <1> QED
    BY <1>5, <1>6, <1>7, <1>8, <1>9, <1>10, <1>11, <1>12, <1>13, <1>14, <1>15, <1>16,
       <1>17, <1>18 DEF Resume
-----------------------------------------------------------------------------
\* No task takes up what it gave up, and no save writes again what it wrote.
Onward ==
    \A u \in Operations :
        /\ GaveUp(task[u]) => GaveUp(task'[u])
        /\ u \in Writers /\ Writing(task'[u]) =>
              Writing(task[u]) /\ Unwritten(task[u]) <= Unwritten(task'[u])

\* No save fails that has not failed before.
Unfailed == \A u \in Writers : Broken(task'[u]) => Broken(task[u])

LEMMA OnwardKept ==
    ASSUME MixInv, \A u \in Operations : task'[u] = task[u]
    PROVE  Onward /\ Unfailed
  <1>1. \A u \in Operations : Unwritten(task[u]) \in Nat
    <2>1. ASSUME NEW u \in Operations PROVE task[u].part \in Nat
      BY TaskFacts DEF MixInv, TypesInv, TaskState
    <2> QED
      BY <2>1 DEF Unwritten
  <1> QED
    BY <1>1, WriterFacts DEF Onward, Unfailed

LEMMA OnwardStep ==
    ASSUME MixInv, NEW t \in Operations, NEW r, task' = [task EXCEPT ![t] = r],
           GaveUp(task[t]) => GaveUp(r),
           t \in Writers =>
               /\ Writing(r) => Writing(task[t]) /\ Unwritten(r) = Unwritten(task[t])
               /\ Broken(r) => Broken(task[t])
    PROVE  Onward /\ Unfailed
  <1>1. /\ task'[t] = r
        /\ \A u \in Operations : u # t => task'[u] = task[u]
    BY TaskFacts DEF MixInv, TypesInv
  <1>2. \A u \in Operations : Unwritten(task[u]) \in Nat
    <2>1. ASSUME NEW u \in Operations PROVE task[u].part \in Nat
      BY TaskFacts DEF MixInv, TypesInv, TaskState
    <2> QED
      BY <2>1 DEF Unwritten
  <1> QED
    BY <1>1, <1>2, WriterFacts DEF Onward, Unfailed

LEMMA OperationsOnward ==
    ASSUME MixInv, NEW t \in Operations,
           (\E r : Quietly(t, r)) \/ \E r, c, s : Onwards(t, r, c, s)
    PROVE  Onward /\ Unfailed
  <1>1. ASSUME NEW r, Quietly(t, r) PROVE Onward /\ Unfailed
    <2>1. GaveUp(task[t]) => GaveUp(r)
      BY <1>1 DEF Quietly, GaveUp
    <2>2. Unwritten(r) = r.part
      BY <1>1 DEF Quietly, Unwritten
    <2> QED
      BY <1>1, <2>1, <2>2, OnwardStep DEF Quietly
  <1>2. ASSUME NEW r, NEW c, NEW s, Onwards(t, r, c, s) PROVE Onward /\ Unfailed
    <2> DEFINE a == Awaiting(r, c, s)
    <2>1. task' = [task EXCEPT ![t] = a] /\ r \in TaskState
      BY <1>2 DEF Onwards, Send
    <2>2. /\ a.pc = "await" /\ a.stmt = s /\ a.reply = "none" /\ a.part = r.part
          /\ a.fate = r.fate
      BY <2>1, PcFacts, StateFacts
    <2> HIDE DEF a
    <2>3. GaveUp(task[t]) => GaveUp(a)
      BY <1>2, <2>2 DEF Onwards, GaveUp
    <2>4. Unwritten(a) = r.part
      BY <2>2 DEF Unwritten
    <2>5. Writing(a) => Writing(task[t]) /\ Unwritten(a) = Unwritten(task[t])
      BY <1>2, <2>2, <2>4 DEF Onwards, Writing
    <2>6. Broken(a) => Broken(task[t])
      BY <1>2, <2>2 DEF Onwards, Broken
    <2> QED
      BY <2>1, <2>3, <2>5, <2>6, OnwardStep
  <1> QED
    BY <1>1, <1>2

LEMMA CancelOnward ==
    ASSUME MixInv, NEW t \in Operations, task[t].pc = "await",
           task' = [task EXCEPT ![t] = Cancelled(@)]
    PROVE  Onward /\ Unfailed
  <1> DEFINE r == Cancelled(task[t])
  <1>1. task[t] \in TaskState /\ task' = [task EXCEPT ![t] = r]
    BY OperationFacts
  <1>2. r.pc = "await" /\ r.reply = "cancelled" /\ r.fate = task[t].fate
    BY <1>1, CancelledFacts, FateFacts
  <1> HIDE DEF r
  <1>3. GaveUp(r) /\ ~ Writing(r)
    BY <1>2 DEF GaveUp, Writing
  <1>4. Broken(r) => Broken(task[t])
    BY <1>2 DEF Broken
  <1> QED
    BY <1>1, <1>3, <1>4, OnwardStep

LEMMA NewKept ==
    ASSUME MixInv, MixInv', NewInv, Onward, file' = file,
           \A c \in Conns : conns'[c].rows = conns[c].rows
    PROVE  NewInv'
  <1> SUFFICES ASSUME NEW w \in Writers, Writing(task'[w]), NEW k \in Nat,
                      k >= Unwritten(task'[w])
               PROVE  <<w, k>> \notin file /\ \A c \in Conns : <<w, k>> \notin conns[c].rows
    BY DEF NewInv
  <1>1. Writing(task[w]) /\ Unwritten(task[w]) <= Unwritten(task'[w])
    BY WriterFacts DEF Onward
  <1>2. task[w].part \in Nat
    BY WriterFacts DEF MixInv, TypesInv, TaskState
  <1>3. Unwritten(task[w]) \in Nat
    BY <1>2 DEF Unwritten
  <1>4. Unwritten(task'[w]) \in Nat
    <2>1. task'[w].part \in Nat
      BY WriterFacts DEF MixInv, TypesInv, TaskState
    <2> QED
      BY <2>1 DEF Unwritten
  <1>5. k >= Unwritten(task[w])
    BY <1>1, <1>3, <1>4
  <1> QED
    BY <1>1, <1>5 DEF NewInv

LEMMA LeftSend ==
    ASSUME MixInv, LeftInv, NEW t \in Operations \cup {CloseTask}, NEW r \in TaskState,
           NEW c \in Nat, NEW s \in Words, Send(t, r, c, s),
           s = "CLOSE" <=> t = CloseTask,
           GaveUp(task[t]) => s = "ROLLBACK"
    PROVE  LeftInv'
  <1> DEFINE m == Statement(t, s, r.part)
             a == Awaiting(r, c, s)
  <1>1. /\ task \in [Tasks -> TaskState] /\ wire \in [Conns -> Seq(Message)]
        /\ r.part \in Nat /\ t \in Tasks
    BY DEF MixInv, TypesInv, TaskState, Tasks
  <1>2. m \in Message /\ m.live /\ m.by = t /\ m.stmt = s
    BY <1>1, StatementFacts
  <1>3. a.pc = "await" /\ a.stmt = s
    BY AwaitingFacts
  <1>4. task' = [task EXCEPT ![t] = a] /\ wire' = [wire EXCEPT ![c] = Append(@, m)]
    BY DEF Send
  <1> HIDE DEF m, a
  <1>5. task'[t] = a /\ \A u \in Tasks : u # t => task'[u] = task[u]
    BY <1>1, <1>4
  <1>6. \A u \in Tasks : GaveUp(task[u]) => GaveUp(task'[u])
    BY <1>3, <1>5 DEF GaveUp
  <1>7. \A u \in Operations : u \in Tasks
    BY DEF Tasks
  <1>8. ASSUME NEW d \in Conns, NEW i \in 1 .. Len(wire'[d])
        PROVE  Sent(wire'[d][i], task')
    <2> DEFINE q == wire[d]
    <2>1. q \in Seq(Message) /\ \A j \in 1 .. Len(q) : Sent(q[j], task)
      BY <1>1 DEF LeftInv
    <2> HIDE DEF q
    <2>2. \A j \in 1 .. Len(q) : Sent(q[j], task')
      BY <1>6, <1>7, <2>1 DEF Sent
    <2>3. CASE d = c
      <3>1. wire'[d] = Append(q, m)
        BY <1>1, <1>4, <2>3 DEF q
      <3>2. /\ Len(Append(q, m)) = Len(q) + 1 /\ Len(q) \in Nat
            /\ Append(q, m)[Len(q) + 1] = m
            /\ \A j \in 1 .. Len(q) : Append(q, m)[j] = q[j]
        BY <1>2, <2>1, AppendProperties, LenProperties
      <3>3. Sent(m, task')
        BY <1>2 DEF Sent
      <3>4. CASE i = Len(q) + 1
        BY <3>1, <3>2, <3>3, <3>4
      <3>5. CASE i # Len(q) + 1
        BY <2>2, <3>1, <3>2, <3>5
      <3> QED
        BY <3>4, <3>5
    <2>4. CASE d # c
      BY <1>1, <1>4, <2>2, <2>4 DEF q
    <2> QED
      BY <2>3, <2>4
  <1> QED
    BY <1>8 DEF LeftInv

\* Nothing is sent, and no task takes up again what it gave up.
LEMMA LeftKept ==
    ASSUME LeftInv, wire' = wire,
           \A u \in Operations : GaveUp(task[u]) => GaveUp(task'[u])
    PROVE  LeftInv'
  BY DEF LeftInv, Sent

LEMMA LeftCancel ==
    ASSUME MixInv, LeftInv, NEW t \in Operations, task[t].pc = "await",
           task' = [task EXCEPT ![t] = Cancelled(@)],
           wire' = [wire EXCEPT ![task[t].on] = Abandoned(@, t)]
    PROVE  LeftInv'
  <1>1. /\ task \in [Tasks -> TaskState] /\ wire \in [Conns -> Seq(Message)]
        /\ t \in Tasks /\ t # CloseTask /\ \A u \in Operations : u \in Tasks
    BY TaskFacts DEF MixInv, TypesInv
  <1>2. /\ \A u \in Tasks : u # t => task'[u] = task[u]
        /\ GaveUp(task'[t])
    BY <1>1, CancelledFacts DEF GaveUp
  <1>3. ASSUME NEW d \in Conns, NEW i \in 1 .. Len(wire'[d])
        PROVE  Sent(wire'[d][i], task')
    <2> DEFINE q == wire[d]
    <2>1. q \in Seq(Message) /\ \A j \in 1 .. Len(q) : Sent(q[j], task)
      BY <1>1 DEF LeftInv
    <2> HIDE DEF q
    <2>2. CASE d = task[t].on
      <3> DEFINE p == Abandoned(q, t)
      <3>1. wire'[d] = p
        BY <1>1, <2>2 DEF q
      <3>2. Len(p) = Len(q)
        BY <2>1, AbandonedFacts
      <3>3. \A j \in 1 .. Len(q) : p[j].by = q[j].by
        BY <2>1, AbandonedFacts
      <3>4. \A j \in 1 .. Len(q) : p[j].stmt = q[j].stmt
        BY <2>1, AbandonedFacts
      <3>5. \A j \in 1 .. Len(q) : q[j].by # t => p[j] = q[j]
        BY <2>1, AbandonedFacts
      <3> HIDE DEF p
      <3>6. i \in 1 .. Len(q) /\ Sent(q[i], task)
        BY <2>1, <3>1, <3>2
      <3>7. CASE q[i].by = t
        <4>1. GaveUp(task'[p[i].by]) /\ p[i].by # CloseTask
          BY <1>1, <1>2, <3>3, <3>6, <3>7
        <4> QED
          BY <3>1, <3>3, <3>4, <3>6, <4>1 DEF Sent
      <3>8. CASE q[i].by # t
        <4>1. p[i] = q[i]
          BY <3>5, <3>6, <3>8
        <4> QED
          BY <1>1, <1>2, <3>1, <3>6, <3>8, <4>1 DEF Sent
      <3> QED
        BY <3>7, <3>8
    <2>3. CASE d # task[t].on
      BY <1>1, <1>2, <2>1, <2>3 DEF q, Sent
    <2> QED
      BY <2>2, <2>3
  <1> QED
    BY <1>3 DEF LeftInv

\* How a thread leaves the tasks and the queues.
LEMMA DeliverFacts ==
    ASSUME MixInv, NEW c \in Conns, wire[c] # <<>>, NEW reply \in Words, Deliver(c, reply)
    PROVE  /\ Head(wire[c]) = wire[c][1] /\ 1 \in 1 .. Len(wire[c])
           /\ Head(wire[c]) \in Message /\ Head(wire[c]).by \in Tasks
           /\ Head(wire[c]).live =>
                 /\ task[Head(wire[c]).by].pc = "await"
                 /\ task[Head(wire[c]).by].stmt = Head(wire[c]).stmt
                 /\ task[Head(wire[c]).by].on = c
                 /\ task[Head(wire[c]).by].reply = "none"
                 /\ task'[Head(wire[c]).by].reply = reply
           /\ \A u \in Tasks : ~ (Head(wire[c]).live /\ u = Head(wire[c]).by)
                                   => task'[u] = task[u]
           /\ \A u \in Tasks : /\ task'[u].pc = task[u].pc /\ task'[u].stmt = task[u].stmt
                               /\ task'[u].on = task[u].on /\ task'[u].part = task[u].part
                               /\ task'[u].fate = task[u].fate
           /\ wire'[c] = Tail(wire[c]) /\ Len(wire[c]) \in Nat
           /\ Len(wire'[c]) = Len(wire[c]) - 1
           /\ \A i \in 1 .. Len(wire'[c]) : /\ wire'[c][i] = wire[c][i + 1]
                                            /\ i + 1 \in 1 .. Len(wire[c])
           /\ \A d \in Conns : d # c => wire'[d] = wire[d]
  <1> DEFINE q == wire[c]
             h == Head(q)
  <1>1. /\ task \in [Tasks -> TaskState] /\ wire \in [Conns -> Seq(Message)]
    BY DEF MixInv, TypesInv
  <1>2. /\ q \in Seq(Message) /\ Len(q) \in Nat /\ 1 \in 1 .. Len(q)
        /\ h = q[1] /\ h \in Message /\ h.by \in Tasks
    BY <1>1, MessageFacts, HeadTailProperties, EmptySeq
  <1>3. h.live => /\ task[h.by].pc = "await" /\ task[h.by].stmt = h.stmt
                  /\ task[h.by].on = c /\ task[h.by].reply = "none"
    BY <1>2 DEF MixInv, WireInv, WireAgrees, LiveAwaited
  <1>4. /\ wire' = [wire EXCEPT ![c] = Tail(q)]
        /\ task' = IF h.live THEN [task EXCEPT ![h.by] = Answer(task[h.by], reply)] ELSE task
    BY DEF Deliver
  <1>5. /\ Len(Tail(q)) = Len(q) - 1
        /\ \A i \in 1 .. Len(Tail(q)) : Tail(q)[i] = q[i + 1]
    BY <1>2, HeadTailProperties
  <1>6. /\ wire'[c] = Tail(q)
        /\ \A d \in Conns : d # c => wire'[d] = wire[d]
    BY <1>1, <1>4
  <1>7. /\ \A u \in Tasks : ~ (h.live /\ u = h.by) => task'[u] = task[u]
        /\ \A u \in Tasks : /\ task'[u].pc = task[u].pc /\ task'[u].stmt = task[u].stmt
                            /\ task'[u].on = task[u].on /\ task'[u].part = task[u].part
                            /\ task'[u].fate = task[u].fate
        /\ h.live => task'[h.by].reply = reply
    <2>1. CASE h.live
      <3>1. task' = [task EXCEPT ![h.by] = Answer(task[h.by], reply)]
        BY <1>4, <2>1
      <3> HIDE DEF h
      <3> QED
        BY <1>1, <1>2, <2>1, <3>1, AnswerFacts, FateFacts
    <2>2. CASE ~ h.live
      BY <1>4, <2>2
    <2> QED
      BY <2>1, <2>2
  <1> HIDE DEF q, h
  <1>8. \A i \in 1 .. Len(Tail(q)) : i + 1 \in 1 .. Len(q)
    BY <1>2, <1>5
  <1> QED
    BY <1>2, <1>3, <1>5, <1>6, <1>7, <1>8 DEF q, h

LEMMA LeftThread ==
    ASSUME MixInv, LeftInv, NEW c \in Conns, wire[c] # <<>>, NEW reply \in Words,
           Deliver(c, reply)
    PROVE  LeftInv'
  <1>1. \A u \in Operations : u \in Tasks
    BY DEF Tasks
  <1>2. \A u \in Tasks : GaveUp(task[u]) => GaveUp(task'[u])
    BY DeliverFacts DEF GaveUp
  <1>3. ASSUME NEW d \in Conns, NEW i \in 1 .. Len(wire'[d])
        PROVE  Sent(wire'[d][i], task')
    <2>1. \E j \in 1 .. Len(wire[d]) : wire'[d][i] = wire[d][j]
      <3>1. CASE d = c
        BY <3>1, DeliverFacts
      <3>2. CASE d # c
        BY <3>2, DeliverFacts
      <3> QED
        BY <3>1, <3>2
    <2>2. Sent(wire'[d][i], task)
      BY <2>1 DEF LeftInv
    <2> QED
      BY <1>1, <1>2, <2>2 DEF Sent
  <1> QED
    BY <1>3 DEF LeftInv
-----------------------------------------------------------------------------
\* A statement is sent: BEGIN when all before it is over, and the end of a
\* transaction by who is in it.
LEMMA OrderlySend ==
    ASSUME MixInv, NEW t \in Tasks, NEW r \in TaskState, NEW c \in Nat, NEW s \in Words,
           Send(t, r, c, s), NEW d \in Conns, NEW o, Ordered(wire[d], o),
           Over(wire[d], o) \/ \E u \in Tasks : Working(task[u], d),
           s = "BEGIN" /\ d = c => Over(wire[d], o),
           Working(task[t], d) => d = c /\ s \in {"INSERT", "COMMIT", "ROLLBACK"}
    PROVE  /\ Ordered(wire'[d], o)
           /\ Over(wire'[d], o) \/ \E u \in Tasks : Working(task'[u], d)
  <1> DEFINE m == Statement(t, s, r.part)
             a == Awaiting(r, c, s)
             q == wire[d]
  <1>1. /\ task \in [Tasks -> TaskState] /\ wire \in [Conns -> Seq(Message)]
        /\ q \in Seq(Message) /\ r.part \in Nat
    BY DEF MixInv, TypesInv, TaskState
  <1>2. m \in Message /\ m.stmt = s
    BY <1>1, StatementFacts
  <1>3. a.pc = "await" /\ a.stmt = s /\ a.on = c
    BY AwaitingFacts
  <1>4. task' = [task EXCEPT ![t] = a] /\ wire' = [wire EXCEPT ![c] = Append(@, m)]
    BY DEF Send
  <1> HIDE DEF m, a
  <1>5. task'[t] = a /\ \A u \in Tasks : u # t => task'[u] = task[u]
    BY <1>1, <1>4
  <1>6. CASE d = c
    <2>1. wire'[d] = Append(q, m)
      BY <1>1, <1>4, <1>6
    <2>2. Ordered(wire'[d], o)
      BY <1>1, <1>2, <1>6, <2>1, OneMore
    <2>3. CASE s \in {"COMMIT", "ROLLBACK"}
      BY <1>1, <1>2, <2>1, <2>2, <2>3, OneMore
    <2>4. CASE s \in {"BEGIN", "INSERT"}
      BY <1>3, <1>5, <1>6, <2>2, <2>4 DEF Working
    <2>5. CASE s \notin {"COMMIT", "ROLLBACK", "BEGIN", "INSERT"}
      <3>1. ~ Working(task[t], d)
        BY <2>5
      <3>2. CASE Over(q, o)
        BY <1>1, <1>2, <2>1, <2>2, <2>5, <3>2, OneMore
      <3>3. CASE \E u \in Tasks : Working(task[u], d)
        BY <1>5, <2>2, <3>1, <3>3
      <3> QED
        BY <3>2, <3>3
    <2> QED
      BY <2>3, <2>4, <2>5
  <1>7. CASE d # c
    <2>1. wire'[d] = q
      BY <1>1, <1>4, <1>7
    <2>2. ~ Working(task[t], d)
      BY <1>7
    <2> QED
      BY <1>5, <2>1, <2>2
  <1> QED
    BY <1>6, <1>7

\* Only Connected opens a connection.
LEMMA OperationConns ==
    ASSUME MixInv, NEW t \in Operations,
           \/ Refuse(t) \/ WriteStarts(t) \/ ReadStarts(t) \/ InitializeStarts(t)
           \/ (t \in Initializers /\ (Connected(t) \/ ConnectFails(t)))
           \/ Resume(t) \/ Cancel(t)
    PROVE  /\ file' = file /\ lifecycle' = lifecycle
           /\ opened \in Nat /\ (opened' = opened \/ opened' = opened + 1)
           /\ \A d \in Conns : /\ conns'[d].owner = conns[d].owner
                               /\ conns'[d].rows = conns[d].rows
                               /\ conns[d].open => conns'[d].open
                               /\ conns'[d].open => conns[d].open \/ d > opened
                               /\ d > opened /\ d <= opened' => conns'[d].open
  <1>1. opened \in Nat /\ conns \in [Conns -> ConnState] /\ \A d \in Conns : d \in Nat
    BY DEF MixInv, TypesInv, Conns
  <1>2. file' = file /\ lifecycle' = lifecycle
    BY DEF Refuse, WriteStarts, ReadStarts, InitializeStarts, Connected, ConnectFails,
       Resume, PragmaDone, MigrationNeeded, PlainDone, Begin, TransactionStep, Committed,
       Failed, RolledBack, Cancel
  <1>3. CASE Connected(t)
    <2> DEFINE n == opened + 1
    <2>1. opened' = n /\ conns' = [conns EXCEPT ![n] = Opened(conns[n])]
      BY <1>3 DEF Connected
    <2>2. \A k \in ConnState : /\ Opened(k).owner = k.owner /\ Opened(k).rows = k.rows
                               /\ Opened(k).open
      BY DEF ConnState, Opened
    <2>3. n > opened /\ \A d \in Conns : d > opened /\ d <= n => d = n
      BY <1>1
    <2>4. opened' = opened + 1
      BY <2>1
    <2> HIDE DEF n
    <2>5. ASSUME NEW d \in Conns
          PROVE  /\ conns'[d].owner = conns[d].owner
                 /\ conns'[d].rows = conns[d].rows
                 /\ conns[d].open => conns'[d].open
                 /\ conns'[d].open => conns[d].open \/ d > opened
                 /\ d > opened /\ d <= opened' => conns'[d].open
      <3>1. CASE d = n
        BY <1>1, <2>1, <2>2, <2>3, <3>1
      <3>2. CASE d # n
        BY <1>1, <2>1, <2>3, <3>2
      <3> QED
        BY <3>1, <3>2
    <2> QED
      BY <1>1, <1>2, <2>4, <2>5
  <1>4. CASE ~ Connected(t)
    <2>1. opened' = opened /\ conns' = conns
      BY <1>4 DEF Refuse, WriteStarts, ReadStarts, InitializeStarts, ConnectFails,
         Resume, PragmaDone, MigrationNeeded, PlainDone, Begin, TransactionStep, Committed,
         Failed, RolledBack, Cancel
    <2> QED
      BY <1>1, <1>2, <2>1
  <1> QED
    BY <1>3, <1>4

\* The part of CalmInv an operation cannot touch.
LEMMA CalmSteady ==
    ASSUME MixInv, CalmInv, Calm, Unfailed, file' = file, lifecycle' = lifecycle,
           task'[CloseTask] = task[CloseTask],
           opened \in Nat, opened' = opened \/ opened' = opened + 1,
           \A d \in Conns : /\ conns'[d].owner = conns[d].owner
                            /\ conns[d].open => conns'[d].open
                            /\ d > opened /\ d <= opened' => conns'[d].open,
           faults' \in Nat,
           \A d \in Conns : Orderly(d)'
    PROVE  CalmInv'
  <1>1. \A d \in Conns : d \in Nat
    BY DEF Conns
  <1>2. /\ Schema \in file'
        /\ \A w \in Writers : ~ Broken(task'[w])
        /\ task'[CloseTask].reply # "failed"
    BY DEF CalmInv, Unfailed
  <1>3. ASSUME NEW d \in Conns, d <= opened', ~ conns'[d].open
        PROVE  \/ lifecycle' = "closed"
               \/ task'[CloseTask].pc = "await" /\ task'[CloseTask].reply = "ok"
    <2>1. d <= opened /\ ~ conns[d].open
      BY <1>1, <1>3
    <2> QED
      BY <2>1 DEF CalmInv
  <1>4. ASSUME NEW d \in Conns, d > opened' PROVE conns'[d].owner = Nobody
    <2>1. d > opened
      BY <1>1, <1>4
    <2> QED
      BY <2>1 DEF CalmInv
  <1> QED
    BY <1>2, <1>3, <1>4 DEF CalmInv

LEMMA OperationCalm ==
    ASSUME MixInv, OutcomeInv, CalmInv, NEW t \in Operations,
           \/ Refuse(t) \/ WriteStarts(t) \/ ReadStarts(t) \/ InitializeStarts(t)
           \/ (t \in Initializers /\ (Connected(t) \/ ConnectFails(t)))
           \/ Resume(t)
           \/ (Cancel(t) /\ task[t].pc # "await")
    PROVE  CalmInv'
  <1>1. /\ file' = file /\ lifecycle' = lifecycle
        /\ opened \in Nat /\ (opened' = opened \/ opened' = opened + 1)
        /\ \A d \in Conns : /\ conns'[d].owner = conns[d].owner
                            /\ conns[d].open => conns'[d].open
                            /\ conns'[d].open => conns[d].open \/ d > opened
                            /\ d > opened /\ d <= opened' => conns'[d].open
    BY OperationConns
  <1>2. faults \in Nat /\ (faults' = faults \/ faults' = faults + 1)
    BY DEF CalmInv, Refuse, WriteStarts, ReadStarts, InitializeStarts, Connected,
       ConnectFails, Resume, PragmaDone, MigrationNeeded, PlainDone, Begin,
       TransactionStep, Committed, Failed, RolledBack, Cancel
  <1>3. (\E r : Quietly(t, r)) \/ \E r, c, s : Onwards(t, r, c, s)
    BY OperationSteps
  <1>4. Unfailed
    BY <1>3, OperationsOnward
  <1>5. /\ task \in [Tasks -> TaskState] /\ t \in Tasks /\ t # CloseTask
        /\ CloseTask \in Tasks /\ wire \in [Conns -> Seq(Message)]
    BY TaskFacts DEF MixInv, TypesInv, Tasks
  <1>6. \A u \in Tasks : u # t => task'[u] = task[u]
    <2>1. ASSUME NEW r, Quietly(t, r) PROVE \A u \in Tasks : u # t => task'[u] = task[u]
      BY <1>5, <2>1 DEF Quietly
    <2>2. ASSUME NEW r, NEW c, NEW s, Onwards(t, r, c, s)
          PROVE  \A u \in Tasks : u # t => task'[u] = task[u]
      BY <1>5, <2>2 DEF Onwards, Send
    <2> QED
      BY <1>3, <2>1, <2>2
  <1>7. CASE Calm'
    <2>1. Calm
      BY <1>1, <1>2, <1>7 DEF Calm
    <2>2. ASSUME NEW d \in Conns, conns'[d].open
          PROVE  /\ Ordered(wire[d], conns'[d].owner)
                 /\ Over(wire[d], conns'[d].owner) \/ \E u \in Tasks : Working(task[u], d)
      <3>1. CASE conns[d].open
        BY <1>1, <2>1, <3>1 DEF CalmInv, Orderly
      <3>2. CASE ~ conns[d].open
        <4>1. wire[d] = <<>> /\ conns'[d].owner = Nobody
          BY <1>1, <2>1, <2>2, <3>2 DEF CalmInv, MixInv, OpenedInv
        <4>2. Len(wire[d]) = 0
          BY <4>1
        <4> QED
          BY <4>1, <4>2 DEF Ordered, Over, Begun
      <3> QED
        BY <3>1, <3>2
    <2>3. ASSUME NEW d \in Conns, conns'[d].open
          PROVE  /\ Ordered(wire'[d], conns'[d].owner)
                 /\ Over(wire'[d], conns'[d].owner) \/ \E u \in Tasks : Working(task'[u], d)
      <3>1. ASSUME NEW r, Quietly(t, r)
            PROVE  /\ Ordered(wire'[d], conns'[d].owner)
                   /\ \/ Over(wire'[d], conns'[d].owner)
                      \/ \E u \in Tasks : Working(task'[u], d)
        <4>1. wire' = wire /\ ~ Working(task[t], d)
          BY <3>1 DEF Quietly
        <4> QED
          BY <1>6, <2>2, <2>3, <4>1
      <3>2. ASSUME NEW r, NEW c, NEW s, Onwards(t, r, c, s)
            PROVE  /\ Ordered(wire'[d], conns'[d].owner)
                   /\ \/ Over(wire'[d], conns'[d].owner)
                      \/ \E u \in Tasks : Working(task'[u], d)
        <4>1. /\ r \in TaskState /\ c \in Nat /\ s \in Words /\ Send(t, r, c, s)
              /\ s = "BEGIN" => task[t].pc = "lock" /\ Holds(t)
              /\ Working(task[t], d) => d = c /\ s \in {"INSERT", "COMMIT", "ROLLBACK"}
          BY <3>2 DEF Onwards
        <4>2. s = "BEGIN" => Over(wire[d], conns'[d].owner)
          <5> SUFFICES ASSUME s = "BEGIN" PROVE ~ \E u \in Tasks : Working(task[u], d)
            BY <2>2, <2>3
          <5>1. \A u \in Tasks : Working(task[u], d) => u = t
            BY <4>1 DEF MixInv, HolderInv, Within, Working, Holds, Txn
          <5> QED
            BY <4>1, <5>1 DEF Working
        <4> QED
          BY <1>5, <2>2, <2>3, <4>1, <4>2, OrderlySend
      <3> QED
        BY <1>3, <3>1, <3>2
    <2>4. \A d \in Conns : Orderly(d)'
      BY <2>3 DEF Orderly
    <2>5. task'[CloseTask] = task[CloseTask] /\ faults' \in Nat
      BY <1>2, <1>5, <1>6
    <2> QED
      BY <1>1, <1>4, <2>1, <2>4, <2>5, CalmSteady
  <1>8. CASE ~ Calm'
    <2>1. faults' \in Nat
      BY <1>2
    <2> QED
      BY <1>8, <2>1 DEF CalmInv
  <1> QED
    BY <1>7, <1>8

LEMMA CancelCalm ==
    ASSUME MixInv, MixInv', CalmInv, NEW t \in Operations, task[t].pc = "await",
           task' = [task EXCEPT ![t] = Cancelled(@)],
           wire' = [wire EXCEPT ![task[t].on] = Abandoned(@, t)],
           UNCHANGED <<lifecycle, conns, opened, file, faults>>
    PROVE  CalmInv'
  <1>1. /\ task \in [Tasks -> TaskState] /\ t \in Tasks /\ t # CloseTask
        /\ CloseTask \in Tasks /\ wire \in [Conns -> Seq(Message)]
        /\ wire' \in [Conns -> Seq(Message)] /\ opened \in Nat
    BY TaskFacts DEF MixInv, TypesInv, Tasks
  <1>2. /\ \A u \in Tasks : u # t => task'[u] = task[u]
        /\ task'[t] = Cancelled(task[t])
    BY <1>1
  <1>3. \A d \in Conns : Working(task[t], d) => Working(task'[t], d)
    BY <1>1, <1>2, CancelledFacts DEF Working
  <1>4. CASE Calm
    <2>1. ASSUME NEW d \in Conns, NEW o
          PROVE  /\ Ordered(wire[d], o) => Ordered(wire'[d], o)
                 /\ Over(wire[d], o) => Over(wire'[d], o)
      <3>1. CASE d = task[t].on
        <4>1. wire'[d] = Abandoned(wire[d], t)
          BY <1>1, <3>1
        <4>2. /\ Len(wire'[d]) = Len(wire[d])
              /\ \A i \in 1 .. Len(wire[d]) : wire'[d][i].stmt = wire[d][i].stmt
          BY <1>1, <4>1, AbandonedFacts
        <4> QED
          BY <1>1, <4>2, SameStatements
      <3>2. CASE d # task[t].on
        BY <1>1, <3>2
      <3> QED
        BY <3>1, <3>2
    <2>2. \A d \in Conns : Orderly(d)'
      BY <1>2, <1>3, <1>4, <2>1 DEF Orderly, CalmInv
    <2>3. Unfailed
      BY CancelOnward
    <2>4. task'[CloseTask] = task[CloseTask] /\ faults' \in Nat
      BY <1>1, <1>2 DEF CalmInv
    <2>5. \A d \in Conns : d > opened => ~ (d <= opened')
      BY <1>1 DEF Conns
    <2> QED
      BY <1>1, <1>4, <2>2, <2>3, <2>4, <2>5, CalmSteady
  <1>5. CASE ~ Calm
    BY <1>5 DEF CalmInv, Calm
  <1> QED
    BY <1>4, <1>5
-----------------------------------------------------------------------------
\* Only operations are in transactions.
LEMMA OperationsWork ==
    ASSUME LeaseInv, SingleInv, NEW u \in Tasks, NEW c, Working(task[u], c)
    PROVE  u \in Operations
  BY DEF LeaseInv, PlaceInv, SingleInv, Working, Tasks

\* What close() does to tasks and queues.
LEMMA CloseFacts ==
    ASSUME MixInv, LeaseInv, SingleInv,
           \/ \E t \in Closers : Close(t)
           \/ CloseDrained \/ CloseNative \/ CloseAnswered
    PROVE  /\ \A u \in Operations : task'[u] = task[u]
           /\ UNCHANGED <<conns, opened, file, faults>>
           /\ \/ /\ wire' = wire
                 /\ task'[CloseTask].reply # "failed" \/ task[CloseTask].reply = "failed"
                 /\ \/ task'[CloseTask] = task[CloseTask] /\ lifecycle' = lifecycle
                    \/ task[CloseTask].pc # "await" /\ lifecycle # "closed"
                    \/ task[CloseTask].reply = "ok" /\ lifecycle' = "closed"
                    \/ task[CloseTask].reply = "failed"
              \/ /\ task[CloseTask].pc = "lock" /\ lifecycle # "closed" /\ conn \in Nat
                 /\ Send(CloseTask, task[CloseTask], conn, "CLOSE")
  <1>1. /\ task \in [Tasks -> TaskState] /\ CloseTask \in Tasks
        /\ task[CloseTask] \in TaskState /\ conn \in Nat
        /\ UNCHANGED <<conns, opened, file, faults>>
    BY DEF MixInv, TypesInv, Tasks, Close, CloseDrained, CloseNative, CloseAnswered, CloseEnds
  <1>2. \A u \in Operations : u \in Tasks /\ u # CloseTask /\ u \notin Closers
    BY TaskFacts
  <1>3. ASSUME NEW s
        PROVE  /\ At(task[CloseTask], s).reply = task[CloseTask].reply
               /\ At(Idle, s).reply = "none"
    BY <1>1, IdleFacts, StateFacts DEF Idle
  <1>4. ASSUME NEW ok \in BOOLEAN, CloseEnds(ok)
        PROVE  /\ \A u \in Operations : task'[u] = task[u]
               /\ task'[CloseTask].reply = "none"
               /\ ok => lifecycle' = "closed"
    <2>1. task'[CloseTask] \in {At(Idle, "done"), At(Idle, "start")}
      BY <1>1, <1>4 DEF CloseEnds
    <2> QED
      BY <1>2, <1>3, <1>4, <2>1 DEF CloseEnds
  <1>5. ASSUME NEW t \in Closers, Close(t)
        PROVE  /\ \A u \in Operations : task'[u] = task[u]
               /\ wire' = wire
               /\ task'[CloseTask].reply = task[CloseTask].reply
               /\ \/ task'[CloseTask] = task[CloseTask] /\ lifecycle' = lifecycle
                  \/ task[CloseTask].pc # "await" /\ lifecycle # "closed"
    <2>1. t \in Tasks /\ t # CloseTask /\ wire' = wire
      BY <1>5, StoreTasks DEF Close, StoreTasks, Tasks
    <2>2. \A u \in Operations : task'[u] = task[u]
      BY <1>1, <1>2, <1>5 DEF Close
    <2>3. CASE lifecycle = "open"
      <3> DEFINE a == At(task[t], "join")
                 b == At(task[CloseTask], "drain")
      <3>1. task' = [task EXCEPT ![t] = a, ![CloseTask] = b]
        BY <1>5, <2>1, <2>3 DEF Close
      <3>2. b.reply = task[CloseTask].reply
        BY <1>3
      <3> HIDE DEF a, b
      <3>3. task'[CloseTask] = b
        BY <1>1, <2>1, <3>1
      <3>4. task[CloseTask].pc # "await"
        BY <2>3 DEF LeaseInv, PlaceInv
      <3> QED
        BY <2>1, <2>2, <2>3, <3>2, <3>3, <3>4
    <2>4. CASE lifecycle # "open"
      <3>1. lifecycle' = lifecycle /\ task'[CloseTask] = task[CloseTask]
        BY <1>1, <1>5, <2>1, <2>4 DEF Close
      <3> QED
        BY <2>1, <2>2, <3>1
    <2> QED
      BY <2>3, <2>4
  <1>6. CASE CloseDrained
    <2>1. /\ wire' = wire /\ task[CloseTask].pc = "drain"
          /\ task' = [task EXCEPT ![CloseTask] = At(task[CloseTask], "lock")]
      BY <1>6 DEF CloseDrained
    <2>2. task'[CloseTask].reply = task[CloseTask].reply
      BY <1>1, <1>3, <2>1
    <2>3. lifecycle # "closed"
      BY <2>1 DEF LeaseInv, PlaceInv
    <2> QED
      BY <1>1, <1>2, <2>1, <2>2, <2>3
  <1>7. CASE CloseNative
    <2>1. task[CloseTask].pc = "lock" /\ lifecycle # "closed"
      BY <1>7 DEF CloseNative, LeaseInv, PlaceInv
    <2>2. CASE conn # NoConn
      <3>1. Send(CloseTask, task[CloseTask], conn, "CLOSE")
        BY <1>7, <2>2 DEF CloseNative
      <3>2. \A u \in Operations : task'[u] = task[u]
        BY <1>1, <1>2, <3>1 DEF Send
      <3> QED
        BY <1>1, <2>1, <3>1, <3>2
    <2>3. CASE conn = NoConn
      <3>1. CloseEnds(TRUE) /\ wire' = wire
        BY <1>7, <2>3 DEF CloseNative
      <3> QED
        BY <1>1, <1>4, <2>1, <3>1
    <2> QED
      BY <2>2, <2>3
  <1>8. CASE CloseAnswered
    <2>1. /\ wire' = wire /\ task[CloseTask].pc = "await"
          /\ task[CloseTask].reply \in {"ok", "failed"}
          /\ CloseEnds(task[CloseTask].reply = "ok")
      BY <1>8 DEF CloseAnswered, Answered
    <2>2. lifecycle # "closed"
      BY <2>1 DEF LeaseInv, PlaceInv
    <2>3. /\ \A u \in Operations : task'[u] = task[u]
          /\ task'[CloseTask].reply = "none"
          /\ task[CloseTask].reply = "ok" => lifecycle' = "closed"
      BY <1>4, <2>1
    <2> QED
      BY <1>1, <2>1, <2>2, <2>3
  <1> QED
    BY <1>1, <1>5, <1>6, <1>7, <1>8

LEMMA CloseCalm ==
    ASSUME MixInv, LeaseInv, SingleInv, CalmInv,
           \/ \E t \in Closers : Close(t)
           \/ CloseDrained \/ CloseNative \/ CloseAnswered
    PROVE  CalmInv'
  <1>1. /\ \A u \in Operations : task'[u] = task[u]
        /\ UNCHANGED <<conns, opened, file, faults>>
    BY CloseFacts
  <1>2. /\ task \in [Tasks -> TaskState] /\ CloseTask \in Tasks
        /\ wire \in [Conns -> Seq(Message)] /\ \A u \in Operations : u \in Tasks
    BY DEF MixInv, TypesInv, Tasks
  <1>3. ASSUME Calm
        PROVE  CalmInv'
    <2>1. /\ faults \in Nat /\ Schema \in file
          /\ \A w \in Writers : ~ Broken(task[w])
          /\ task[CloseTask].reply # "failed"
          /\ \A d \in Conns : d <= opened /\ ~ conns[d].open =>
                \/ lifecycle = "closed"
                \/ task[CloseTask].pc = "await" /\ task[CloseTask].reply = "ok"
          /\ \A d \in Conns : d > opened => conns[d].owner = Nobody
          /\ \A d \in Conns : Orderly(d)
      BY <1>3 DEF CalmInv
    <2>2. \A w \in Writers : ~ Broken(task'[w])
      BY <1>1, <2>1, WriterFacts
    <2>3. CASE wire' = wire
      <3>1. /\ task'[CloseTask].reply # "failed"
            /\ \/ task'[CloseTask] = task[CloseTask] /\ lifecycle' = lifecycle
               \/ task[CloseTask].pc # "await" /\ lifecycle # "closed"
               \/ lifecycle' = "closed"
        <4>1. Send(CloseTask, task[CloseTask], conn, "CLOSE") => task'[CloseTask].reply = "none"
          <5> DEFINE a == Awaiting(task[CloseTask], conn, "CLOSE")
          <5>1. a.reply = "none"
            BY <1>2, StateFacts
          <5> HIDE DEF a
          <5> QED
            BY <1>2, <5>1 DEF Send, a
        <4> QED
          BY <2>1, <4>1, CloseFacts
      <3>2. ASSUME NEW d \in Conns, d <= opened, ~ conns[d].open
            PROVE  \/ lifecycle' = "closed"
                   \/ task'[CloseTask].pc = "await" /\ task'[CloseTask].reply = "ok"
        BY <2>1, <3>1, <3>2
      <3>3. \A d \in Conns : Orderly(d)'
        <4>1. ASSUME NEW d \in Conns, NEW u \in Tasks, Working(task[u], d)
              PROVE  Working(task'[u], d)
          BY <1>1, <4>1, OperationsWork
        <4> QED
          BY <1>1, <2>1, <2>3, <4>1 DEF Orderly
      <3> QED
        BY <1>1, <2>1, <2>2, <3>1, <3>2, <3>3 DEF CalmInv
    <2>4. CASE /\ task[CloseTask].pc = "lock" /\ lifecycle # "closed" /\ conn \in Nat
               /\ Send(CloseTask, task[CloseTask], conn, "CLOSE")
      <3> DEFINE a == Awaiting(task[CloseTask], conn, "CLOSE")
      <3>1. a.reply = "none" /\ task' = [task EXCEPT ![CloseTask] = a]
        BY <1>2, <2>4, StateFacts DEF Send
      <3> HIDE DEF a
      <3>2. task'[CloseTask].reply = "none"
        BY <1>2, <3>1
      <3>3. \A d \in Conns : d <= opened => conns[d].open
        BY <2>1, <2>4
      <3>4. ASSUME NEW d \in Conns, conns[d].open
            PROVE  /\ Ordered(wire'[d], conns[d].owner)
                   /\ Over(wire'[d], conns[d].owner) \/ \E u \in Tasks : Working(task'[u], d)
        <4>1. /\ Ordered(wire[d], conns[d].owner)
              /\ Over(wire[d], conns[d].owner) \/ \E u \in Tasks : Working(task[u], d)
          BY <2>1, <3>4 DEF Orderly
        <4>2. ~ Working(task[CloseTask], d)
          BY <2>4 DEF Working
        <4>3. "CLOSE" \in Words /\ task[CloseTask] \in TaskState
          BY <1>2, WordFacts
        <4> QED
          BY <1>2, <2>4, <4>1, <4>2, <4>3, OrderlySend
      <3>5. \A d \in Conns : Orderly(d)'
        BY <1>1, <3>4 DEF Orderly
      <3> QED
        BY <1>1, <2>1, <2>2, <3>2, <3>3, <3>5 DEF CalmInv
    <2> QED
      BY <2>3, <2>4, CloseFacts
  <1>4. CASE ~ Calm
    BY <1>1, <1>4 DEF CalmInv, Calm
  <1> QED
    BY <1>3, <1>4
-----------------------------------------------------------------------------
LEMMA ThreadOnward ==
    ASSUME MixInv, NEW c \in Conns, wire[c] # <<>>,
           NEW reply \in {"ok", "absent", "failed"}, Deliver(c, reply)
    PROVE  Onward
  <1> DEFINE h == Head(wire[c])
  <1>1. reply \in Words
    BY WordFacts
  <1>2. /\ h.live => task[h.by].reply = "none" /\ task'[h.by].reply = reply
        /\ \A u \in Tasks : ~ (h.live /\ u = h.by) => task'[u] = task[u]
        /\ \A u \in Tasks : /\ task'[u].pc = task[u].pc /\ task'[u].stmt = task[u].stmt
                            /\ task'[u].part = task[u].part
    BY <1>1, DeliverFacts
  <1> HIDE DEF h
  <1>3. ASSUME NEW u \in Operations
        PROVE  /\ GaveUp(task[u]) => GaveUp(task'[u])
               /\ Writing(task'[u]) =>
                     Writing(task[u]) /\ Unwritten(task[u]) <= Unwritten(task'[u])
    <2>1. u \in Tasks /\ task[u].part \in Nat
      BY TaskFacts DEF MixInv, TypesInv, TaskState
    <2>2. Unwritten(task[u]) \in Nat
      BY <2>1 DEF Unwritten
    <2>3. CASE h.live /\ u = h.by
      <3>1. task[u].reply = "none" /\ task'[u].reply = reply
        BY <1>2, <2>3
      <3>2. Unwritten(task[u]) = task[u].part
        BY <3>1 DEF Unwritten
      <3>3. Unwritten(task'[u]) \in {task[u].part, task[u].part + 1}
        BY <1>2, <2>1 DEF Unwritten
      <3>4. Unwritten(task[u]) <= Unwritten(task'[u])
        BY <2>1, <3>2, <3>3
      <3>5. GaveUp(task[u]) => GaveUp(task'[u])
        BY <1>2, <2>1, <3>1 DEF GaveUp
      <3>6. Writing(task'[u]) => Writing(task[u])
        BY <1>2, <2>1, <3>1 DEF Writing
      <3> QED
        BY <3>4, <3>5, <3>6
    <2>4. CASE ~ (h.live /\ u = h.by)
      BY <1>2, <2>1, <2>2, <2>4
    <2> QED
      BY <2>3, <2>4
  <1> QED
    BY <1>3 DEF Onward

\* A row that is inserted is the next one of its save, or nobody writes it again.
LEMMA ThreadNew ==
    ASSUME MixInv, MixInv', SaveInv, LeftInv, NewInv, NEW c \in Conns,
           Execute(c) \/ ExecuteFails(c)
    PROVE  NewInv'
  <1> DEFINE h == Head(wire[c])
  <1>1. wire[c] # <<>>
    BY DEF Execute, ExecuteFails
  <1>2. PICK reply \in {"ok", "absent", "failed"} :
            /\ Deliver(c, reply)
            /\ reply # "ok" \/ h.stmt = "VERSION" \/ h.stmt # "INSERT"
               \/ conns' = [conns EXCEPT ![c] = After(c, h)]
            /\ conns' = conns \/ conns' = [conns EXCEPT ![c] = After(c, h)]
            /\ file' = file \/ file' = Visible(c)
    BY DEF Execute, ExecuteFails
  <1>3. Onward /\ reply \in Words
    BY <1>1, <1>2, ThreadOnward, WordFacts
  <1>4. /\ h = wire[c][1] /\ 1 \in 1 .. Len(wire[c]) /\ h.by \in Tasks
        /\ h.live => /\ task[h.by].pc = "await" /\ task[h.by].stmt = h.stmt
                     /\ task'[h.by].reply = reply
        /\ \A u \in Tasks : /\ task'[u].pc = task[u].pc /\ task'[u].stmt = task[u].stmt
                            /\ task'[u].part = task[u].part
    <2>1. Deliver(c, reply) /\ reply \in Words
      BY <1>2, <1>3
    <2>2. h = wire[c][1] /\ 1 \in 1 .. Len(wire[c]) /\ h.by \in Tasks
      BY <1>1, <2>1, DeliverFacts
    <2>3. h.live => /\ task[h.by].pc = "await" /\ task[h.by].stmt = h.stmt
                    /\ task'[h.by].reply = reply
      BY <1>1, <2>1, DeliverFacts
    <2>4. \A u \in Tasks : /\ task'[u].pc = task[u].pc /\ task'[u].stmt = task[u].stmt
                            /\ task'[u].part = task[u].part
      BY <1>1, <2>1, DeliverFacts
    <2> QED
      BY <2>2, <2>3, <2>4
  <1>5. /\ \E n \in Nat : h.row = Row(h.by, n)
        /\ h.live => h.row = Row(h.by, task[h.by].part)
    BY <1>4 DEF SaveInv, RowsAgree, RowsSent
  <1>6. ~ h.live => GaveUp(task[h.by])
    BY <1>4 DEF LeftInv, Sent
  <1>7. conns \in [Conns -> ConnState]
    BY DEF MixInv, TypesInv
  <1> HIDE DEF h
  <1>8. After(c, h).rows \subseteq conns[c].rows \cup IF h.stmt = "INSERT" THEN {h.row} ELSE {}
    BY DEF After
  <1>9. \A d \in Conns : conns'[d].rows \subseteq
            conns[d].rows \cup IF h.stmt = "INSERT" THEN {h.row} ELSE {}
    BY <1>2, <1>7, <1>8
  <1> SUFFICES ASSUME NEW w \in Writers, Writing(task'[w]), NEW k \in Nat,
                      k >= Unwritten(task'[w])
               PROVE  <<w, k>> \notin file' /\ \A d \in Conns : <<w, k>> \notin conns'[d].rows
    BY DEF NewInv
  <1>10. Writing(task[w]) /\ Unwritten(task[w]) <= Unwritten(task'[w])
    BY <1>3, WriterFacts DEF Onward
  <1>11. /\ task[w].part \in Nat /\ Unwritten(task[w]) \in Nat /\ Unwritten(task'[w]) \in Nat
    <2>1. task[w].part \in Nat /\ task'[w].part \in Nat
      BY WriterFacts DEF MixInv, TypesInv, TaskState
    <2> QED
      BY <2>1 DEF Unwritten
  <1>12. /\ <<w, k>> \notin file /\ \A d \in Conns : <<w, k>> \notin conns[d].rows
    <2>1. k >= Unwritten(task[w])
      BY <1>10, <1>11
    <2> QED
      BY <1>10, <2>1 DEF NewInv
  <1>13. <<w, k>> \notin file'
    BY <1>2, <1>12 DEF Visible
  <1>14. h.stmt = "INSERT" => h.row # <<w, k>>
    <2> SUFFICES ASSUME h.stmt = "INSERT", h.row = <<w, k>> PROVE FALSE
      OBVIOUS
    <2>1. w # "schema" /\ w \in Tasks
      BY StoreRows, WriterFacts DEF StoreRows
    <2>2. \A u \in Tasks, n \in Nat : Row(u, n) = <<w, k>> => u = w /\ n = k
      BY <2>1 DEF Row, Schema
    <2>3. h.by = w
      BY <1>4, <1>5, <2>2
    <2>4. CASE h.live
      <3>1. task[w].part = k
        BY <1>4, <1>5, <1>11, <2>2, <2>3, <2>4
      <3>2. /\ task'[w].pc = "await" /\ task'[w].stmt = "INSERT"
            /\ task'[w].reply # "none" /\ task'[w].part = k
        BY <1>4, <2>1, <2>3, <2>4, <3>1
      <3>3. Unwritten(task'[w]) = k + 1
        BY <3>2 DEF Unwritten
      <3> QED
        BY <3>3
    <2>5. CASE ~ h.live
      BY <1>6, <1>10, <2>3, <2>5 DEF GaveUp, Writing
    <2> QED
      BY <2>4, <2>5
  <1> QED
    BY <1>9, <1>12, <1>13, <1>14

\* While nothing has failed, no statement of a save does.
LEMMA CalmRuns ==
    ASSUME OneInitializer, MixInv, SaveInv, OutcomeInv, LeaseInv, LeftInv, NewInv, CalmInv,
           Calm, NEW c \in Conns, wire[c] # <<>>, Head(wire[c]).live,
           Head(wire[c]).by \in Writers \cup {CloseTask}
    PROVE  Runs(c, Head(wire[c]))
  <1> DEFINE h == Head(wire[c])
  <1>1. /\ wire[c] \in Seq(Message) /\ h = wire[c][1] /\ 1 \in 1 .. Len(wire[c])
    BY MessageFacts, HeadTailProperties, EmptySeq DEF MixInv, TypesInv
  <1>2. /\ task[h.by].pc = "await" /\ task[h.by].stmt = h.stmt /\ task[h.by].reply = "none"
        /\ h.row = Row(h.by, task[h.by].part)
        /\ h.stmt = "CLOSE" <=> h.by = CloseTask
    <2>1. LiveAwaited(c, wire[c], task) /\ RowsSent(wire[c], task)
      BY DEF MixInv, WireInv, WireAgrees, SaveInv, RowsAgree
    <2>2. h.stmt = "CLOSE" <=> h.by = CloseTask
      BY <1>1 DEF LeftInv, Sent
    <2> QED
      BY <1>1, <2>1, <2>2 DEF LiveAwaited, RowsSent
  <1>3. CASE h.by = CloseTask
    BY <1>2, <1>3 DEF Runs
  <1>4. CASE h.by \in Writers
    <2>1. /\ h.by \in Tasks /\ h.by \in Operations /\ h.stmt \in Txn
          /\ task[h.by].part \in Nat
      BY <1>2, <1>4, WriterFacts DEF OutcomeInv, Saving, MixInv, TypesInv, TaskState
    <2>2. conns[c].open
      <3>1. c <= opened
        BY DEF MixInv, OpenedInv, TypesInv, Conns
      <3>2. h.by \in Leased
        BY <1>2, <2>1 DEF Leased
      <3> QED
        BY <3>1, <3>2 DEF LeaseInv, CalmInv
    <2>3. h.stmt = "BEGIN" => \A d \in Conns : conns[d].owner = Nobody
      <3>1. ASSUME h.stmt = "BEGIN" PROVE conns[c].owner = Nobody
        <4>1. Ordered(wire[c], conns[c].owner)
          BY <2>2 DEF CalmInv, Orderly
        <4> QED
          BY <1>1, <3>1, <4>1, OneLess
      <3> QED
        BY <3>1, OneConnection
    <2>4. h.stmt = "INSERT" => h.row \notin Visible(c) /\ Schema \in Visible(c)
      <3> SUFFICES ASSUME h.stmt = "INSERT"
                   PROVE  h.row \notin Visible(c) /\ Schema \in Visible(c)
        OBVIOUS
      <3>1. Writing(task[h.by]) /\ Unwritten(task[h.by]) = task[h.by].part
        BY <1>2 DEF Writing, Unwritten
      <3>2. h.row = <<h.by, task[h.by].part>>
        BY <1>2, <1>4, <2>1, RowFacts
      <3> DEFINE n == task[h.by].part
      <3>3. n \in Nat /\ n >= Unwritten(task[h.by])
        BY <2>1, <3>1
      <3> HIDE DEF n
      <3>4. <<h.by, n>> \notin file /\ <<h.by, n>> \notin conns[c].rows
        BY <1>4, <3>1, <3>3 DEF NewInv
      <3> QED
        BY <3>2, <3>4 DEF n, Visible, CalmInv
    <2> QED
      BY <2>2, <2>3, <2>4 DEF Runs
  <1> QED
    BY <1>3, <1>4

LEMMA ThreadCalm ==
    ASSUME OneInitializer, MixInv, MixInv', SaveInv, OutcomeInv, LeaseInv, LeftInv, NewInv,
           CalmInv, NEW c \in Conns, Execute(c) \/ ExecuteFails(c)
    PROVE  CalmInv'
  <1> DEFINE h == Head(wire[c])
             k == After(c, h)
  <1>1. /\ wire[c] # <<>> /\ UNCHANGED <<opened, lifecycle>> /\ faults \in Nat
        /\ faults' = faults \/ faults' = faults + 1
        /\ ExecuteFails(c) => faults' = faults + 1
        /\ conns \in [Conns -> ConnState] /\ wire \in [Conns -> Seq(Message)]
        /\ wire' \in [Conns -> Seq(Message)] /\ CloseTask \in Tasks /\ c \in Nat
        /\ opened \in Nat
    BY DEF Execute, ExecuteFails, MixInv, TypesInv, CalmInv, Tasks, Conns
  <1>2. faults' \in Nat /\ (faults' = 0 => faults = 0 /\ faults' # faults + 1)
    BY <1>1
  <1>3. CASE ~ Calm'
    BY <1>2, <1>3 DEF CalmInv
  <1>4. CASE Calm'
    <2>1. faults = 0 /\ Execute(c)
      BY <1>1, <1>2, <1>4 DEF Calm
    <2>2. PICK reply \in {"ok", "absent", "failed"} :
              /\ Deliver(c, reply)
              /\ Runs(c, h) => /\ reply # "failed" /\ (h.stmt # "VERSION" => reply = "ok")
                               /\ conns' = [conns EXCEPT ![c] = k]
              /\ ~ Runs(c, h) => conns' = conns
              /\ file' = file \/ file' = Visible(c)
      BY <2>1 DEF Execute
    <2>3. reply \in Words
      BY WordFacts
    <2>4. /\ h = wire[c][1] /\ 1 \in 1 .. Len(wire[c]) /\ h.by \in Tasks
          /\ h.live => /\ task[h.by].reply = "none" /\ task'[h.by].reply = reply
                       /\ task[h.by].pc = "await"
          /\ \A u \in Tasks : ~ (h.live /\ u = h.by) => task'[u] = task[u]
          /\ \A u \in Tasks : /\ task'[u].pc = task[u].pc /\ task'[u].stmt = task[u].stmt
                              /\ task'[u].on = task[u].on /\ task'[u].fate = task[u].fate
          /\ wire'[c] = Tail(wire[c])
          /\ \A d \in Conns : d # c => wire'[d] = wire[d]
      <3>1. Deliver(c, reply) /\ wire[c] # <<>>
        BY <1>1, <2>2
      <3>2. /\ h = wire[c][1] /\ 1 \in 1 .. Len(wire[c]) /\ h.by \in Tasks
            /\ h.live => /\ task[h.by].reply = "none" /\ task'[h.by].reply = reply
                         /\ task[h.by].pc = "await"
        BY <2>3, <3>1, DeliverFacts
      <3>3. \A u \in Tasks : ~ (h.live /\ u = h.by) => task'[u] = task[u]
        BY <2>3, <3>1, DeliverFacts
      <3>4. \A u \in Tasks : /\ task'[u].pc = task[u].pc /\ task'[u].stmt = task[u].stmt
                              /\ task'[u].on = task[u].on /\ task'[u].fate = task[u].fate
        BY <2>3, <3>1, DeliverFacts
      <3>5. /\ wire'[c] = Tail(wire[c])
            /\ \A d \in Conns : d # c => wire'[d] = wire[d]
        BY <2>3, <3>1, DeliverFacts
      <3> QED
        BY <3>2, <3>3, <3>4, <3>5
    <2>5. /\ h.stmt = "CLOSE" <=> h.by = CloseTask
          /\ ~ h.live => h.by # CloseTask
          /\ h.by \in Operations \cup {CloseTask}
      BY <2>4 DEF LeftInv, Sent
    <2>6. /\ k.open => conns[c].open /\ h.stmt # "CLOSE"
          /\ conns[c].open /\ h.stmt # "CLOSE" => k.open
          /\ k.owner = IF EndsTransaction(h.stmt) THEN Nobody
                       ELSE IF Opens(c, h) THEN h.by ELSE conns[c].owner
      BY DEF After
    <2>7. Earlier \in file /\ file \subseteq file'
      <3>1. "earlier" \notin Tasks
        BY StoreRows DEF StoreRows
      <3>2. Earlier \notin Rows
        <4>1. \A t \in Tasks, n \in Nat : <<t, n>> # Earlier
          BY <3>1 DEF Earlier
        <4>2. Schema # Earlier
          BY DEF Schema, Earlier
        <4> QED
          BY <4>1, <4>2 DEF Rows, Row
      <3>3. conns[c].rows \subseteq Rows
        BY <1>1 DEF ConnState
      <3> QED
        BY <1>4, <2>2, <3>2, <3>3 DEF Calm, Visible
    <2>8. Calm
      BY <2>1, <2>7 DEF Calm
    <2>9. h.live /\ h.by \in Writers \cup {CloseTask} => Runs(c, h)
      BY <1>1, <2>8, CalmRuns
    <2> HIDE DEF h, k
    <2>10. Schema \in file'
      BY <2>7, <2>8 DEF CalmInv
    <2>11. \A w \in Writers : ~ Broken(task'[w])
      <3> SUFFICES ASSUME NEW w \in Writers PROVE ~ Broken(task'[w])
        OBVIOUS
      <3>1. w \in Tasks /\ ~ Broken(task[w])
        BY <2>8, WriterFacts DEF CalmInv
      <3>2. CASE h.live /\ w = h.by
        BY <2>2, <2>4, <2>9, <3>1, <3>2 DEF Broken
      <3>3. CASE ~ (h.live /\ w = h.by)
        BY <2>4, <3>1, <3>3
      <3> QED
        BY <3>2, <3>3
    <2>12. task'[CloseTask].reply # "failed"
      <3>1. task[CloseTask].reply # "failed"
        BY <2>8 DEF CalmInv
      <3>2. CASE h.live /\ CloseTask = h.by
        BY <2>2, <2>4, <2>9, <3>2
      <3>3. CASE ~ (h.live /\ CloseTask = h.by)
        BY <1>1, <2>4, <3>1, <3>3
      <3> QED
        BY <3>2, <3>3
    <2>13. ASSUME NEW d \in Conns, d <= opened, ~ conns'[d].open
           PROVE  \/ lifecycle = "closed"
                  \/ task'[CloseTask].pc = "await" /\ task'[CloseTask].reply = "ok"
      <3>1. CASE ~ conns[d].open
        <4>1. CASE lifecycle = "closed"
          BY <4>1
        <4>2. CASE task[CloseTask].pc = "await" /\ task[CloseTask].reply = "ok"
          <5>1. ~ (h.live /\ CloseTask = h.by)
            BY <2>4, <4>2
          <5>2. task'[CloseTask] = task[CloseTask]
            BY <1>1, <2>4, <5>1
          <5> QED
            BY <4>2, <5>2
        <4> QED
          BY <2>8, <2>13, <3>1, <4>1, <4>2 DEF CalmInv
      <3>2. CASE conns[d].open
        <4>1. Runs(c, h) /\ d = c /\ ~ k.open
          BY <1>1, <2>2, <2>13, <3>2
        <4>2. h.stmt = "CLOSE"
          BY <2>6, <3>2, <4>1
        <4>3. h.by = CloseTask /\ h.live
          BY <2>5, <4>2
        <4>4. reply = "ok"
          BY <2>2, <4>1, <4>2
        <4> QED
          BY <1>1, <2>4, <4>3, <4>4
      <3> QED
        BY <3>1, <3>2
    <2>14. ASSUME NEW d \in Conns, d > opened PROVE conns'[d].owner = Nobody
      <3>1. wire[d] = <<>> /\ conns[d].owner = Nobody
        BY <2>8, <2>14 DEF CalmInv, MixInv, OpenedInv
      <3>2. d # c
        BY <1>1, <3>1
      <3> QED
        BY <1>1, <2>2, <3>1, <3>2
    <2>15. \A d \in Conns, u \in Tasks : Working(task[u], d) => Working(task'[u], d)
      BY <2>4 DEF Working
    <2>16. ASSUME NEW d \in Conns, conns'[d].open
           PROVE  /\ Ordered(wire'[d], conns'[d].owner)
                  /\ Over(wire'[d], conns'[d].owner) \/ \E u \in Tasks : Working(task'[u], d)
      <3>1. CASE d # c
        <4>1. wire'[d] = wire[d] /\ conns'[d] = conns[d]
          BY <1>1, <2>2, <2>4, <3>1
        <4> QED
          BY <2>8, <2>15, <2>16, <4>1 DEF CalmInv, Orderly
      <3>2. CASE d = c
        <4> DEFINE o == conns[c].owner
                   b == conns'[c].owner
                   q == wire[c]
        <4>1. conns[c].open
          BY <1>1, <2>2, <2>6, <2>16, <3>2
        <4>2. Ordered(q, o) /\ (Over(q, o) \/ \E u \in Tasks : Working(task[u], c))
          BY <2>8, <4>1 DEF CalmInv, Orderly
        <4>3. b # Nobody => /\ Head(q).stmt \notin {"COMMIT", "ROLLBACK"}
                            /\ o # Nobody \/ Head(q).stmt = "BEGIN"
          <5>1. CASE Runs(c, h)
            <6>1. b = k.owner
              BY <1>1, <2>2, <5>1
            <6>2. h.stmt = "INSERT" => o # Nobody
              <7>1. h.stmt = "INSERT" => o = h.by
                BY <2>4, <4>1 DEF MixInv, WireInv, WireAgrees, WorkIsFirst
              <7>2. h.by # Nobody
                BY <2>5, StoreTasks DEF StoreTasks, CloseTask, Nobody
              <7> QED
                BY <7>1, <7>2
            <6>3. b # Nobody => /\ h.stmt \notin {"COMMIT", "ROLLBACK"}
                                /\ o # Nobody \/ h.stmt = "BEGIN"
              BY <2>6, <6>1, <6>2 DEF EndsTransaction, Opens
            <6> QED
              BY <6>3 DEF h
          <5>2. CASE ~ Runs(c, h)
            <6>1. b = o /\ h.stmt \in {"BEGIN", "INSERT"}
              BY <2>2, <4>1, <5>2 DEF Runs
            <6> QED
              BY <6>1 DEF h
          <5> QED
            BY <5>1, <5>2
        <4>4. q \in Seq(Message) /\ q # <<>>
          BY <1>1
        <4> HIDE DEF o, b, q
        <4>5. Ordered(Tail(q), b) /\ (Over(q, o) => Over(Tail(q), b))
          BY <4>2, <4>3, <4>4, OneLess
        <4> QED
          BY <2>4, <2>15, <3>2, <4>2, <4>5 DEF b, q
      <3> QED
        BY <3>1, <3>2
    <2>17. \A d \in Conns : Orderly(d)'
      BY <2>16 DEF Orderly
    <2> QED
      BY <1>1, <1>2, <2>10, <2>11, <2>12, <2>13, <2>14, <2>17 DEF CalmInv
  <1> QED
    BY <1>3, <1>4
-----------------------------------------------------------------------------
ContainInv == LeftInv /\ NewInv /\ CalmInv

LEMMA OperationContains ==
    ASSUME MixInv, MixInv', OutcomeInv, ContainInv, NEW t \in Operations,
           \/ Refuse(t) \/ WriteStarts(t) \/ ReadStarts(t) \/ InitializeStarts(t)
           \/ (t \in Initializers /\ (Connected(t) \/ ConnectFails(t)))
           \/ Resume(t)
           \/ (Cancel(t) /\ task[t].pc # "await")
    PROVE  ContainInv'
  <1>1. (\E r : Quietly(t, r)) \/ \E r, c, s : Onwards(t, r, c, s)
    BY OperationSteps
  <1>2. Onward
    BY <1>1, OperationsOnward
  <1>3. LeftInv'
    <2>1. ASSUME NEW r, Quietly(t, r) PROVE LeftInv'
      BY <1>2, <2>1, LeftKept DEF Quietly, Onward, ContainInv
    <2>2. ASSUME NEW r, NEW c, NEW s, Onwards(t, r, c, s) PROVE LeftInv'
      BY <2>2, LeftSend, TaskFacts DEF Onwards, ContainInv
    <2> QED
      BY <1>1, <2>1, <2>2
  <1>4. NewInv'
    <2>1. file' = file /\ \A c \in Conns : conns'[c].rows = conns[c].rows
      BY OperationConns
    <2> QED
      BY <1>2, <2>1, NewKept DEF ContainInv
  <1>5. CalmInv'
    BY OperationCalm DEF ContainInv
  <1> QED
    BY <1>3, <1>4, <1>5 DEF ContainInv

LEMMA CancelContains ==
    ASSUME MixInv, MixInv', OutcomeInv, LeaseInv, ContainInv,
           NEW t \in Operations \cup Closers, Cancel(t)
    PROVE  ContainInv'
  <1>1. UNCHANGED <<lifecycle, conns, opened, file, faults>>
    BY DEF Cancel
  <1>2. CASE t \in Operations /\ task[t].pc = "await"
    <2>1. /\ task' = [task EXCEPT ![t] = Cancelled(@)]
          /\ wire' = [wire EXCEPT ![task[t].on] = Abandoned(@, t)]
      BY <1>2 DEF Cancel
    <2>2. Onward
      BY <1>2, <2>1, CancelOnward
    <2>3. LeftInv'
      BY <1>2, <2>1, LeftCancel DEF ContainInv
    <2>4. NewInv'
      BY <1>1, <2>2, NewKept DEF ContainInv
    <2>5. CalmInv'
      BY <1>1, <1>2, <2>1, CancelCalm DEF ContainInv
    <2> QED
      BY <2>3, <2>4, <2>5 DEF ContainInv
  <1>3. CASE t \in Operations /\ task[t].pc # "await"
    BY <1>3, OperationContains
  <1>4. CASE t \in Closers
    <2>1. /\ wire' = wire /\ task' = [task EXCEPT ![t] = Done(@, "cancelled")]
      BY <1>4 DEF Cancel, LeaseInv, PlaceInv
    <2>2. t # CloseTask /\ t \notin Operations /\ CloseTask \in Tasks
          /\ task \in [Tasks -> TaskState] /\ \A u \in Operations : u \in Tasks
      BY <1>4, StoreTasks DEF StoreTasks, Tasks, MixInv, TypesInv
    <2>3. /\ \A u \in Tasks : u # t => task'[u] = task[u]
          /\ \A u \in Operations : task'[u] = task[u]
          /\ task'[CloseTask] = task[CloseTask]
      BY <2>1, <2>2
    <2>4. Onward /\ Unfailed
      BY <2>3, OnwardKept
    <2>5. LeftInv'
      BY <2>1, <2>3, LeftKept DEF ContainInv
    <2>6. NewInv'
      BY <1>1, <2>4, NewKept DEF ContainInv
    <2>7. CalmInv'
      <3>1. CASE Calm
        <4>1. \A d \in Conns : ~ Working(task[t], d)
          BY <1>4 DEF LeaseInv, PlaceInv, Working
        <4>2. \A d \in Conns : Orderly(d)'
          BY <1>1, <2>1, <2>3, <3>1, <4>1 DEF Orderly, ContainInv, CalmInv
        <4>3. opened \in Nat /\ faults' \in Nat /\ \A d \in Conns : d \in Nat
          BY <1>1 DEF MixInv, TypesInv, ContainInv, CalmInv, Conns
        <4> QED
          BY <1>1, <2>3, <2>4, <3>1, <4>2, <4>3, CalmSteady DEF ContainInv
      <3>2. CASE ~ Calm
        BY <1>1, <3>2 DEF ContainInv, CalmInv, Calm
      <3> QED
        BY <3>1, <3>2
    <2> QED
      BY <2>5, <2>6, <2>7 DEF ContainInv
  <1> QED
    BY <1>2, <1>3, <1>4

LEMMA CloseContains ==
    ASSUME MixInv, MixInv', LeaseInv, SingleInv, ContainInv,
           \/ \E t \in Closers : Close(t)
           \/ CloseDrained \/ CloseNative \/ CloseAnswered
    PROVE  ContainInv'
  <1>1. /\ \A u \in Operations : task'[u] = task[u]
        /\ UNCHANGED <<conns, opened, file, faults>>
        /\ \/ wire' = wire
           \/ /\ task[CloseTask].pc = "lock" /\ conn \in Nat
              /\ Send(CloseTask, task[CloseTask], conn, "CLOSE")
    BY CloseFacts
  <1>2. Onward
    BY <1>1, OnwardKept
  <1>3. LeftInv'
    <2>1. CASE wire' = wire
      BY <1>1, <2>1, LeftKept DEF ContainInv
    <2>2. CASE /\ task[CloseTask].pc = "lock" /\ conn \in Nat
               /\ Send(CloseTask, task[CloseTask], conn, "CLOSE")
      <3>1. task[CloseTask] \in TaskState /\ "CLOSE" \in Words
        BY WordFacts DEF MixInv, TypesInv, Tasks
      <3>2. ~ GaveUp(task[CloseTask])
        BY <2>2 DEF GaveUp
      <3> QED
        BY <2>2, <3>1, <3>2, LeftSend DEF ContainInv
    <2> QED
      BY <1>1, <2>1, <2>2
  <1>4. NewInv'
    BY <1>1, <1>2, NewKept DEF ContainInv
  <1>5. CalmInv'
    BY CloseCalm DEF ContainInv
  <1> QED
    BY <1>3, <1>4, <1>5 DEF ContainInv

LEMMA ThreadContains ==
    ASSUME OneInitializer, MixInv, MixInv', SaveInv, OutcomeInv, LeaseInv, ContainInv,
           NEW c \in Conns, Execute(c) \/ ExecuteFails(c)
    PROVE  ContainInv'
  <1>1. PICK reply \in {"ok", "absent", "failed"} : Deliver(c, reply)
    BY DEF Execute, ExecuteFails
  <1>2. wire[c] # <<>> /\ reply \in Words
    BY WordFacts DEF Execute, ExecuteFails
  <1>3. LeftInv'
    BY <1>1, <1>2, LeftThread DEF ContainInv
  <1>4. NewInv'
    BY ThreadNew DEF ContainInv
  <1>5. CalmInv'
    BY ThreadCalm DEF ContainInv
  <1> QED
    BY <1>3, <1>4, <1>5 DEF ContainInv

LEMMA ContainInitially == Init => ContainInv
  <1> SUFFICES ASSUME Init PROVE ContainInv
    OBVIOUS
  <1>1. \A c \in Conns : wire[c] = <<>> /\ conns[c].owner = Nobody /\ conns[c].rows = {}
                         /\ ~ conns[c].open
    BY DEF Init
  <1>2. \A u \in Tasks : task[u] = Idle
    BY DEF Init
  <1>3. LeftInv
    <2>1. \A c \in Conns : Len(wire[c]) = 0
      BY <1>1
    <2> QED
      BY <2>1 DEF LeftInv
  <1>4. file \subseteq {Schema, Earlier} /\ (Earlier \in file => Schema \in file)
    BY StoreRows DEF Init, StoreRows
  <1>5. NewInv
    <2>1. \A w \in Writers, k \in Nat : <<w, k>> # Schema /\ <<w, k>> # Earlier
      BY StoreRows, WriterFacts DEF StoreRows, Schema, Earlier
    <2> QED
      BY <1>1, <1>4, <2>1 DEF NewInv
  <1>6. CalmInv
    <2>1. Idle.reply = "none" /\ Idle.fate = "none"
      BY DEF Idle
    <2>2. \A w \in Writers : ~ Broken(task[w])
      BY <1>2, <2>1, WriterFacts DEF Broken
    <2>3. task[CloseTask].reply # "failed"
      BY <1>2, <2>1 DEF Tasks
    <2>4. \A c \in Conns : ~ (c <= opened)
      BY DEF Init, Conns
    <2>5. faults \in Nat
      BY DEF Init
    <2> QED
      BY <1>1, <1>4, <2>2, <2>3, <2>4, <2>5 DEF CalmInv, Calm, Orderly
  <1> QED
    BY <1>3, <1>5, <1>6 DEF ContainInv

LEMMA ContainStep ==
    ASSUME OneInitializer
    PROVE  MixInv /\ MixInv' /\ SaveInv /\ OutcomeInv /\ LeaseInv /\ SingleInv /\ ContainInv
               /\ [Next]_svars => ContainInv'
  <1> SUFFICES ASSUME MixInv, MixInv', SaveInv, OutcomeInv, LeaseInv, SingleInv,
                      ContainInv, [Next]_svars
               PROVE  ContainInv'
    OBVIOUS
  <1>1. ASSUME UNCHANGED svars PROVE ContainInv'
    BY <1>1 DEF svars, ContainInv, LeftInv, NewInv, CalmInv, Calm, Orderly
  <1>2. ASSUME NEW t \in Operations, Refuse(t) \/ Resume(t) PROVE ContainInv'
    BY <1>2, OperationContains
  <1>3. ASSUME NEW t \in Writers, WriteStarts(t) PROVE ContainInv'
    BY <1>3, OperationContains DEF Operations
  <1>4. ASSUME NEW t \in Readers, ReadStarts(t) PROVE ContainInv'
    BY <1>4, OperationContains DEF Operations
  <1>5. ASSUME NEW t \in Initializers,
               InitializeStarts(t) \/ Connected(t) \/ ConnectFails(t)
        PROVE  ContainInv'
    BY <1>5, OperationContains DEF Operations
  <1>6. ASSUME NEW t \in Operations \cup Closers, Cancel(t) PROVE ContainInv'
    BY <1>6, CancelContains
  <1>7. ASSUME NEW t \in Closers, Close(t) PROVE ContainInv'
    BY <1>7, CloseContains
  <1>8. CASE CloseDrained \/ CloseNative \/ CloseAnswered
    BY <1>8, CloseContains
  <1>9. ASSUME NEW c \in Conns, Execute(c) \/ ExecuteFails(c) PROVE ContainInv'
    BY <1>9, ThreadContains
  <1>10. CASE Finished
    BY <1>1, <1>10 DEF Finished
  <1> QED
    BY <1>1, <1>2, <1>3, <1>4, <1>5, <1>6, <1>7, <1>8, <1>9, <1>10 DEF Next

\* A cancelled save does not poison the connection for the next one: as long as
\* no statement fails by itself, no save does, whoever was cancelled and wherever
\* (write(), _rollback()).
THEOREM CancellationStaysContained ==
    ASSUME OneInitializer
    PROVE  Spec => []CancellationIsContained
  <1> DEFINE I == MixInv /\ SaveInv /\ OutcomeInv /\ LeaseInv /\ SingleInv /\ ContainInv
  <1>1. I => CancellationIsContained
    BY DEF ContainInv, CalmInv, Calm, Broken, CancellationIsContained
  <1>2. Init => I
    BY MixInitially, SaveInitially, OutcomeInitially, LeaseInitially, SingleInitially,
       ContainInitially
  <1>3. I /\ [Next]_svars => I'
    BY MixStep, SaveStep, OutcomesStep, LeaseStep, SingleStep, ContainStep
  <1> HIDE DEF I
  <1>4. Spec => []I
    BY <1>2, <1>3, PTL DEF Spec
  <1> QED
    BY <1>1, <1>4, PTL
=============================================================================
