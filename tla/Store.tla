------------------------------- MODULE Store -------------------------------
(***************************************************************************)
(* SQLiteStore (experia/memory/store.py) and its transaction manager       *)
(* (experia/memory/transactions.py): leases on the connection, the write   *)
(* lock, transactions under failures and cancellation, close().            *)
(*                                                                         *)
(* One task runs one public operation.  aiosqlite (external) executes the  *)
(* statements of a connection in one thread, in the order they were sent;  *)
(* a task awaits one statement at a time, and a task that is cancelled     *)
(* leaves its statement in the queue.  The lifecycle lock guards code      *)
(* without an await, so what it guards is atomic here.                     *)
(***************************************************************************)
EXTENDS Naturals, Sequences, FiniteSets

CONSTANTS
    Writers,        \* tasks that save: one transaction each
    Readers,        \* tasks that get or search
    Initializers,   \* tasks that call initialize()
    Closers,        \* tasks that call close()
    Parts,          \* rows one save writes
    StartRows,      \* what the database file may hold at first
    MayFail,        \* statements that may fail
    MaxFaults,      \* bound: failing statements in a behaviour
    MayCancel,      \* tasks that may be cancelled
    MaxCancels      \* bound: cancellations of one task

ASSUME StoreBounds == Parts \in Nat /\ MaxFaults \in Nat /\ MaxCancels \in Nat

CloseTask == "close_task"   \* _close_task
Nobody == "nobody"
Operations == Writers \cup Readers \cup Initializers
Tasks == Operations \cup Closers \cup {CloseTask}

\* A task runs one operation; the close task is the store's own.
ASSUME StoreTasks ==
    /\ CloseTask \notin Operations \cup Closers
    /\ Nobody \notin Operations
    /\ Writers \cap (Readers \cup Initializers) = {}
    /\ Operations \cap Closers = {}

Schema == <<"schema", 1>>
\* A row of an earlier life of the file.
Earlier == <<"earlier", 1>>
Row(t, part) == IF t \in Initializers THEN Schema ELSE <<t, part>>
RowsOf(t) == {<<t, k>> : k \in 1 .. Parts}

\* The file holds nothing of this life's saves at first, and rows only in tables.
ASSUME StoreRows ==
    /\ {"schema", "earlier"} \cap Tasks = {}
    /\ \A rows \in StartRows : /\ rows \subseteq {Schema, Earlier}
                               /\ Earlier \in rows => Schema \in rows

NoConn == 0
Conns == 1 .. Cardinality(Initializers)

VARIABLES
    lifecycle,  \* _lifecycle_state
    conn,       \* _conn
    active,     \* _active_operations
    drained,    \* _operations_drained.is_set()
    lockq,      \* _write_lock: its holder, then the tasks waiting for it
    task,       \* what every task is doing
    wire,       \* the statements sent to each connection
    conns,      \* the native connections and their open transaction
    opened,     \* connections opened so far
    file,       \* committed rows: what a restarted process would find
    faults      \* statements that have failed

svars == <<lifecycle, conn, active, drained, lockq, task, wire, conns, opened,
           file, faults>>

\* reply is the future of the statement the task awaits; fate is how the
\* operation ends, or while it rolls back the error it will end with.
Idle == [pc |-> "start", stmt |-> "none", part |-> 1, on |-> NoConn,
         reply |-> "none", fate |-> "none", cancels |-> 0]

Visible(c) == file \cup conns[c].rows
Holds(t) == lockq # <<>> /\ Head(lockq) = t

\* What a task does next: it goes to a place, awaits a statement, is answered
\* or ends.
At(r, pc) == [r EXCEPT !.pc = pc]
Awaiting(r, c, s) ==
    [r EXCEPT !.pc = "await", !.stmt = s, !.on = c, !.reply = "none"]
Answer(r, reply) == [r EXCEPT !.reply = reply]
Done(r, fate) == [r EXCEPT !.pc = "done", !.fate = fate]

\* conn.execute(): the statement is queued and its future awaited.
Statement(t, s, part) ==
    [by |-> t, stmt |-> s, row |-> Row(t, part), live |-> TRUE]
Send(t, r, c, s) ==
    /\ task' = [task EXCEPT ![t] = Awaiting(r, c, s)]
    /\ wire' = [wire EXCEPT ![c] = Append(@, Statement(t, s, r.part))]

\* The queue of the lock without task t, which is in it at most once.
Leave(q, t) ==
    IF \E i \in DOMAIN q : q[i] = t
    THEN LET i == CHOOSE i \in DOMAIN q : q[i] = t
         IN  SubSeq(q, 1, i - 1) \o SubSeq(q, i + 1, Len(q))
    ELSE q

----------------------------------------------------------------------------
\* Mutant: the event is not cleared.
LeaseEventKept ==
    /\ lifecycle = "open"
    /\ active' = active + 1
    /\ UNCHANGED drained

\* _operation(), entry.
Lease ==
    /\ lifecycle = "open"
    /\ active' = active + 1
    /\ drained' = FALSE

\* Mutant: the event is never set again.
EndUnsignalled(t, fate) ==
    /\ task' = [task EXCEPT ![t] = Done(@, fate)]
    /\ lockq' = Leave(lockq, t)
    /\ active' = active - 1
    /\ UNCHANGED drained

\* Mutant: a task that gives up does not give back the write lock.
EndLocked(t, fate) ==
    /\ task' = [task EXCEPT ![t] = Done(@, fate)]
    /\ lockq' = IF fate = "cancelled" THEN lockq ELSE Leave(lockq, t)
    /\ active' = active - 1
    /\ drained' = (active = 1)

\* The operation ends: the write lock is released if it was held or waited
\* for, and the lease is given back, without an await in between.
End(t, fate) ==
    /\ task' = [task EXCEPT ![t] = Done(@, fate)]
    /\ lockq' = Leave(lockq, t)
    /\ active' = active - 1
    /\ drained' = (active = 1)

\* An operation on a closing or closed store.
Refuse(t) ==
    /\ task[t].pc = "start"
    /\ lifecycle # "open"
    /\ task' = [task EXCEPT ![t] = Done(@, "refused")]
    /\ UNCHANGED <<lifecycle, conn, active, drained, lockq, wire, conns,
                   opened, file, faults>>

\* A save: lease, then the write lock.
WriteStarts(t) ==
    /\ task[t].pc = "start"
    /\ Lease
    /\ task' = [task EXCEPT ![t] = At(@, "lock")]
    /\ lockq' = Append(lockq, t)
    /\ UNCHANGED <<lifecycle, conn, wire, conns, opened, file, faults>>

\* A read: lease and the first SELECT.  Before initialize() it fails.
ReadStarts(t) ==
    /\ task[t].pc = "start"
    /\ \/ /\ conn # NoConn
          /\ Lease
          /\ Send(t, task[t], conn, "SELECT")
       \/ /\ conn = NoConn
          /\ lifecycle = "open"
          /\ task' = [task EXCEPT ![t] = Done(@, "unready")]
          /\ UNCHANGED <<active, drained, wire>>
    /\ UNCHANGED <<lifecycle, conn, lockq, conns, opened, file, faults>>

\* initialize(): connect unless there is a connection, then read the version.
InitializeStarts(t) ==
    /\ task[t].pc = "start"
    /\ Lease
    /\ \/ /\ conn = NoConn
          /\ task' = [task EXCEPT ![t] = At(@, "connect")]
          /\ UNCHANGED wire
       \/ /\ conn # NoConn
          /\ Send(t, task[t], conn, "VERSION")
    /\ UNCHANGED <<lifecycle, conn, lockq, conns, opened, file, faults>>

Opened(c) == [c EXCEPT !.open = TRUE]

\* aiosqlite.connect() returns: _conn is assigned whatever it holds now.
Connected(t) ==
    /\ task[t].pc = "connect"
    /\ opened' = opened + 1
    /\ conn' = opened'
    /\ conns' = [conns EXCEPT ![opened'] = Opened(@)]
    /\ Send(t, task[t], opened', "PRAGMA")
    /\ UNCHANGED <<lifecycle, active, drained, lockq, file, faults>>

ConnectFails(t) ==
    /\ task[t].pc = "connect"
    /\ "CONNECT" \in MayFail /\ faults < MaxFaults
    /\ faults' = faults + 1
    /\ End(t, "failed")
    /\ UNCHANGED <<lifecycle, conn, wire, conns, opened, file>>

----------------------------------------------------------------------------
\* Resuming with the reply of the awaited statement.

Answered(t, stmts, replies) ==
    /\ task[t].pc = "await"
    /\ task[t].stmt \in stmts
    /\ task[t].reply \in replies

\* After the PRAGMAs the version is read on what _conn is by then.
PragmaDone(t) ==
    /\ Answered(t, {"PRAGMA"}, {"ok"})
    /\ Send(t, task[t], conn, "VERSION")
    /\ UNCHANGED <<lifecycle, conn, active, drained, lockq, conns, opened,
                   file, faults>>

\* migrate(): nothing to do at the current version, else a write.
MigrationNeeded(t) ==
    /\ Answered(t, {"VERSION"}, {"absent"})
    /\ task' = [task EXCEPT ![t] = At(@, "lock")]
    /\ lockq' = Append(lockq, t)
    /\ UNCHANGED <<lifecycle, conn, active, drained, wire, conns, opened,
                   file, faults>>

\* A statement outside a transaction was the last one, or failed.
PlainDone(t) ==
    /\ \/ Answered(t, {"SELECT", "VERSION"}, {"ok"})
       \/ Answered(t, {"PRAGMA", "SELECT", "VERSION"}, {"failed", "cancelled"})
    /\ End(t, IF task[t].reply = "ok" THEN "returned" ELSE task[t].reply)
    /\ UNCHANGED <<lifecycle, conn, wire, conns, opened, file, faults>>

\* Mutant: the write lock is not taken.
MayBeginUnlocked(t) == TRUE

MayBegin(t) == Holds(t)

\* write(): with the lock held the connection is read and BEGIN IMMEDIATE
\* sent.  Before initialize() there is none.
Begin(t) ==
    /\ task[t].pc = "lock"
    /\ MayBegin(t)
    /\ \/ /\ conn # NoConn
          /\ Send(t, task[t], conn, "BEGIN")
          /\ UNCHANGED <<lockq, active, drained>>
       \/ /\ conn = NoConn
          /\ End(t, "unready")
          /\ UNCHANGED wire
    /\ UNCHANGED <<lifecycle, conn, conns, opened, file, faults>>

\* Mutant: every row is committed by itself.
LastPartAtOnce(t) == TRUE

\* The row just written is the last one of this operation.
LastPart(t) == t \in Initializers \/ task[t].part = Parts

NextPart(r) == [r EXCEPT !.part = @ + 1]

\* BEGIN, one INSERT per row, COMMIT.
TransactionStep(t) ==
    /\ \/ /\ Answered(t, {"BEGIN"}, {"ok"})
          /\ Send(t, task[t], task[t].on, "INSERT")
       \/ /\ Answered(t, {"INSERT"}, {"ok"})
          /\ ~ LastPart(t)
          /\ Send(t, NextPart(task[t]), task[t].on, "INSERT")
       \/ /\ Answered(t, {"INSERT"}, {"ok"})
          /\ LastPart(t)
          /\ Send(t, task[t], task[t].on, "COMMIT")
    /\ UNCHANGED <<lifecycle, conn, active, drained, lockq, conns, opened,
                   file, faults>>

\* Mutant: the commit stands outside the try block.
CommittedUnchecked(t) ==
    /\ Answered(t, {"COMMIT"}, {"ok", "failed"})
    /\ End(t, "returned")
    /\ UNCHANGED <<lifecycle, conn, wire, conns, opened, file, faults>>

Committed(t) ==
    /\ Answered(t, {"COMMIT"}, {"ok"})
    /\ End(t, "returned")
    /\ UNCHANGED <<lifecycle, conn, wire, conns, opened, file, faults>>

Failing(r) == [r EXCEPT !.fate = r.reply]

\* Mutant: only Exception is caught, so a cancellation skips the rollback.
FailedNotCancelled(t) ==
    \/ /\ Answered(t, {"BEGIN", "INSERT", "COMMIT"}, {"failed"})
       /\ Send(t, Failing(task[t]), task[t].on, "ROLLBACK")
       /\ UNCHANGED <<lifecycle, conn, active, drained, lockq, conns, opened,
                      file, faults>>
    \/ /\ Answered(t, {"BEGIN", "INSERT", "COMMIT"}, {"cancelled"})
       /\ End(t, "cancelled")
       /\ UNCHANGED <<lifecycle, conn, wire, conns, opened, file, faults>>

\* Any failure or cancellation after the lock was taken rolls back.
Failed(t) ==
    /\ Answered(t, {"BEGIN", "INSERT", "COMMIT"}, {"failed", "cancelled"})
    /\ Send(t, Failing(task[t]), task[t].on, "ROLLBACK")
    /\ UNCHANGED <<lifecycle, conn, active, drained, lockq, conns, opened,
                   file, faults>>

\* _raise_failure: the original error is raised, rolled back or not.
RolledBack(t) ==
    /\ Answered(t, {"ROLLBACK"}, {"ok", "failed", "cancelled"})
    /\ End(t, task[t].fate)
    /\ UNCHANGED <<lifecycle, conn, wire, conns, opened, file, faults>>

Cancelled(r) == [r EXCEPT !.reply = "cancelled", !.cancels = @ + 1]

\* The statements of t go on without anybody awaiting them.
Abandoned(q, t) ==
    [i \in DOMAIN q |-> IF q[i].by = t THEN [q[i] EXCEPT !.live = FALSE] ELSE q[i]]

\* task.cancel() on a task that awaits: its statement stays in the queue.
Cancel(t) ==
    /\ t \in MayCancel
    /\ task[t].cancels < MaxCancels
    /\ \/ /\ task[t].pc = "await"
          /\ task[t].reply # "cancelled"
          /\ task' = [task EXCEPT ![t] = Cancelled(@)]
          /\ wire' = [wire EXCEPT ![task[t].on] = Abandoned(@, t)]
          /\ UNCHANGED <<lockq, active, drained>>
       \/ /\ task[t].pc = "lock"
          /\ End(t, "cancelled")
          /\ UNCHANGED wire
       \/ /\ task[t].pc = "join"
          /\ task' = [task EXCEPT ![t] = Done(@, "cancelled")]
          /\ UNCHANGED <<lockq, active, drained, wire>>
    /\ UNCHANGED <<lifecycle, conn, conns, opened, file, faults>>

----------------------------------------------------------------------------
\* Closing.

\* Mutant: a closed store is not recognised.
CloseAgain(t) ==
    /\ task[t].pc = "start"
    /\ task' = [task EXCEPT ![t] = At(@, "join"),
                                  ![CloseTask] = At(@, "drain")]
    /\ lifecycle' = "closing"
    /\ UNCHANGED <<conn, active, drained, lockq, wire, conns, opened, file,
                   faults>>

\* close(): start the close task unless it runs, then await it, shielded.
Close(t) ==
    /\ task[t].pc = "start"
    /\ \/ /\ lifecycle = "closed"
          /\ task' = [task EXCEPT ![t] = Done(@, "returned")]
          /\ UNCHANGED lifecycle
       \/ /\ lifecycle = "closing"
          /\ task' = [task EXCEPT ![t] = At(@, "join")]
          /\ UNCHANGED lifecycle
       \/ /\ lifecycle = "open"
          /\ task' = [task EXCEPT ![t] = At(@, "join"),
                                  ![CloseTask] = At(@, "drain")]
          /\ lifecycle' = "closing"
    /\ UNCHANGED <<conn, active, drained, lockq, wire, conns, opened, file,
                   faults>>

\* _close_when_drained: no lease is left; queue for the write lock.
CloseDrained ==
    /\ task[CloseTask].pc = "drain"
    /\ drained
    /\ task' = [task EXCEPT ![CloseTask] = At(@, "lock")]
    /\ lockq' = Append(lockq, CloseTask)
    /\ UNCHANGED <<lifecycle, conn, active, drained, wire, conns, opened,
                   file, faults>>

\* The close task ends and every caller awaiting it is told.
CloseEnds(ok) ==
    /\ task' = [t \in Tasks |->
          IF t = CloseTask THEN At(Idle, IF ok THEN "done" ELSE "start")
          ELSE IF t \in Closers /\ task[t].pc = "join"
          THEN Done(task[t], IF ok THEN "returned" ELSE "failed")
          ELSE task[t]]
    /\ lockq' = Leave(lockq, CloseTask)
    /\ lifecycle' = IF ok THEN "closed" ELSE "open"
    /\ conn' = IF ok THEN NoConn ELSE conn
    /\ UNCHANGED <<active, drained, conns, opened, file, faults>>

CloseNative ==
    /\ task[CloseTask].pc = "lock"
    /\ Holds(CloseTask)
    /\ \/ /\ conn # NoConn
          /\ Send(CloseTask, task[CloseTask], conn, "CLOSE")
          /\ UNCHANGED <<lifecycle, conn, active, drained, lockq, conns,
                         opened, file, faults>>
       \/ /\ conn = NoConn
          /\ CloseEnds(TRUE)
          /\ UNCHANGED wire

CloseAnswered ==
    /\ Answered(CloseTask, {"CLOSE"}, {"ok", "failed"})
    /\ CloseEnds(task[CloseTask].reply = "ok")
    /\ UNCHANGED wire

----------------------------------------------------------------------------
\* The thread of a connection (external: aiosqlite and SQLite).

Deliver(c, reply) ==
    LET h == Head(wire[c])
    IN  /\ wire' = [wire EXCEPT ![c] = Tail(@)]
        /\ task' = IF h.live THEN [task EXCEPT ![h.by] = Answer(@, reply)] ELSE task

\* BEGIN needs the writer slot of the file; a row can be inserted once, and
\* only when the tables exist.
Runs(c, h) ==
    \/ h.stmt = "CLOSE"
    \/ /\ conns[c].open
       /\ h.stmt = "BEGIN" => \A d \in Conns : conns[d].owner = Nobody
       /\ h.stmt = "INSERT" => \/ h.row = Schema
                               \/ h.row \notin Visible(c) /\ Schema \in Visible(c)

\* An INSERT outside a transaction opens one; these end it.
EndsTransaction(s) == s \in {"COMMIT", "ROLLBACK", "CLOSE"}
Opens(c, h) == h.stmt = "BEGIN" \/ (h.stmt = "INSERT" /\ conns[c].owner = Nobody)

After(c, h) ==
    [open  |-> conns[c].open /\ h.stmt # "CLOSE",
     owner |-> IF EndsTransaction(h.stmt) THEN Nobody
               ELSE IF Opens(c, h) THEN h.by ELSE conns[c].owner,
     rows  |-> IF EndsTransaction(h.stmt) THEN {}
               ELSE IF h.stmt = "INSERT" THEN conns[c].rows \cup {h.row}
               ELSE conns[c].rows]

Execute(c) ==
    /\ wire[c] # <<>>
    /\ LET h == Head(wire[c])
       IN  IF Runs(c, h)
           THEN /\ Deliver(c, IF h.stmt = "VERSION" /\ Schema \notin Visible(c)
                              THEN "absent" ELSE "ok")
                /\ conns' = [conns EXCEPT ![c] = After(c, h)]
                /\ file' = IF h.stmt = "COMMIT" THEN Visible(c) ELSE file
           ELSE /\ Deliver(c, "failed")
                /\ UNCHANGED <<conns, file>>
    /\ UNCHANGED <<lifecycle, conn, active, drained, lockq, opened, faults>>

\* A statement fails without effect; a close may fail half way.
ExecuteFails(c) ==
    /\ wire[c] # <<>>
    /\ Head(wire[c]).stmt \in MayFail /\ faults < MaxFaults
    /\ faults' = faults + 1
    /\ Deliver(c, "failed")
    /\ \/ UNCHANGED conns
       \/ /\ Head(wire[c]).stmt = "CLOSE"
          /\ conns' = [conns EXCEPT ![c] = After(c, Head(wire[c]))]
    /\ UNCHANGED <<lifecycle, conn, active, drained, lockq, opened, file>>

----------------------------------------------------------------------------
Init ==
    /\ lifecycle = "open"
    /\ conn = NoConn
    /\ active = 0
    /\ drained = TRUE
    /\ lockq = <<>>
    /\ task = [t \in Tasks |-> Idle]
    /\ wire = [c \in Conns |-> <<>>]
    /\ conns = [c \in Conns |-> [open |-> FALSE, owner |-> Nobody,
                                 rows |-> {}]]
    /\ opened = 0
    /\ file \in StartRows
    /\ faults = 0

Resume(t) ==
    \/ PragmaDone(t)
    \/ MigrationNeeded(t)
    \/ PlainDone(t)
    \/ Begin(t)
    \/ TransactionStep(t)
    \/ Committed(t)
    \/ Failed(t)
    \/ RolledBack(t)

\* Every task has ended and nothing is queued.
Finished ==
    /\ \A t \in Operations \cup Closers : task[t].pc = "done"
    /\ task[CloseTask].pc \in {"start", "done"}
    /\ \A c \in Conns : wire[c] = <<>>
    /\ UNCHANGED svars

Next ==
    \/ \E t \in Operations : Refuse(t) \/ Resume(t)
    \/ \E t \in Writers : WriteStarts(t)
    \/ \E t \in Readers : ReadStarts(t)
    \/ \E t \in Initializers :
          InitializeStarts(t) \/ Connected(t) \/ ConnectFails(t)
    \/ \E t \in Operations \cup Closers : Cancel(t)
    \/ \E t \in Closers : Close(t)
    \/ CloseDrained
    \/ CloseNative
    \/ CloseAnswered
    \/ \E c \in Conns : Execute(c) \/ ExecuteFails(c)
    \/ Finished

Spec == Init /\ [][Next]_svars

\* The event loop resumes what can go on, and the threads of the connections
\* work.  The write lock is first come, first served.
LiveSpec ==
    /\ Spec
    /\ \A t \in Operations : WF_svars(Resume(t))
    /\ \A t \in Initializers : WF_svars(Connected(t))
    /\ WF_svars(CloseDrained) /\ WF_svars(CloseNative)
    /\ WF_svars(CloseAnswered)
    /\ \A c \in Conns : WF_svars(Execute(c))

----------------------------------------------------------------------------
\* store.py:236, API_REFERENCE.md:196: the rows of one save are in the file
\* together or not at all, at every moment a crash could freeze.
SavesAreAtomic ==
    \A w \in Writers : RowsOf(w) \cap file \in {{}, RowsOf(w)}

\* What a caller is told is what the file holds, for good: a save that
\* returned is committed, one that failed, was refused or came too early left
\* nothing.  Only a cancelled caller does not know.
OutcomesAreTruthful ==
    \A w \in Writers :
        /\ task[w].fate = "returned" /\ task[w].pc = "done"
              => RowsOf(w) \subseteq file
        /\ task[w].fate \in {"failed", "refused", "unready"}
              /\ task[w].pc = "done"
              => RowsOf(w) \cap file = {}

\* No statement of one save runs inside the transaction of another, although
\* they share the connection and cancelled tasks leave statements behind.
TransactionsDoNotMix ==
    \A c \in Conns :
        (/\ wire[c] # <<>>
         /\ Head(wire[c]).stmt \in {"INSERT", "COMMIT"}
         /\ conns[c].open)
            => conns[c].owner = Head(wire[c]).by

\* A cancelled save does not poison the connection: on a database that was
\* migrated earlier a save fails only when one of its statements did.
CancellationIsContained ==
    (faults = 0 /\ Earlier \in file) => \A w \in Writers : task[w].fate # "failed"

NothingRuns == \A t \in Operations : task[t].pc \in {"start", "done"}

\* The native close runs when no operation holds a lease, afterwards nothing
\* does, and API_REFERENCE.md:185: a closed store stays closed, its data as it
\* was, whoever closes it again.
ClosedForGood ==
    /\ [](task[CloseTask].pc = "await" \/ lifecycle = "closed" => NothingRuns)
    /\ [][lifecycle = "closed" => lifecycle' = "closed" /\ file' = file]_svars

\* store.py:43: a single connection, so a closed store has none open.
SingleConnection ==
    lifecycle = "closed" => \A c \in Conns : ~ conns[c].open

\* Every operation that has begun ends, whoever was cancelled before it; and so
\* does close(): closed, or open again after a failure.
OperationsEnd ==
    /\ (lifecycle = "closing") ~> (lifecycle # "closing")
    /\ \A t \in Operations : (task[t].pc # "start") ~> (task[t].pc = "done")
=============================================================================
