--------------------------- MODULE JobWorkerProofs ---------------------------
(***************************************************************************)
(* Proofs about JobWorker, for any number of jobs, workers and ids, both   *)
(* stores and every combination of faults; and about JobNotify, for any    *)
(* set of jobs and any batch: no wakeup is lost, since the store's own     *)
(* receiver never moves, so a clone of it has seen nothing, while one      *)
(* delivery is enough to raise the channel's version above it.             *)
(***************************************************************************)
EXTENDS JobWorker, JobNotify, FiniteSetTheorems, TLAPS

Waiting(j) == rows[j].status \in {"pending", "scheduled"}

\* The lock column and the status column agree; rows of open transactions are new.
RowsInv ==
    \A j \in Jobs :
        /\ rows[j].lockedBy # NoLock <=> rows[j].status = "running"
        /\ rows[j].status = "absent" => rows[j] = NoRow
        /\ outbox[j] # NoRow =>
              /\ rows[j] = NoRow
              /\ outbox[j].status = "pending" /\ outbox[j].attempts = 0
              /\ outbox[j].lockedBy = NoLock /\ outbox[j].maxRetries \in Retries

\* Every claim in progress has an id of its own, and the batch it holds is locked
\* under that id.
ClaimsInv ==
    /\ \A w \in Workers :
          /\ wpc[w] \in {"reply", "spawn"} <=> wid[w] # NoLock
          /\ \A j \in batch[w] :
                rows[j].status = "running" /\ rows[j].lockedBy = wid[w]
    /\ \A v, w \in Workers : wid[v] = wid[w] /\ wid[v] # NoLock => v = w

\* Every task owns its row through the id of its claim, alone.
TasksInv ==
    /\ \A t \in tasks :
          /\ rows[t.job].status = "running" /\ rows[t.job].lockedBy = t.id
          /\ t.pc = "failUpdate" =>
                t.lock = t.id /\ t.attempts = rows[t.job].attempts
          /\ \A w \in Workers :
                t.job \notin batch[w] /\ (wpc[w] = "reply" => wid[w] # t.id)
    /\ \A t, u \in tasks : t.job = u.job => t = u

OwnInv == TypeOK /\ RowsInv /\ ClaimsInv /\ TasksInv

\* Claims and tasks go by ids their own process has issued; no two processes have issued
\* the same id, and none that a predecessor left behind has been issued again.
NamesInv ==
    /\ \A w \in Workers : wid[w] # NoLock => wid[w] \in issued[w]
    /\ \A t \in tasks : t.id \in issued[t.worker]
    /\ \A v, w \in Workers : past[v] \cap issued[w] = {}
    /\ \A v, w \in Workers : v # w => issued[v] \cap issued[w] = {}

LockInv == OwnInv /\ NamesInv

\* runs[j] exceeds the attempts counted by the one under way, if any, and by the
\* revivals that restarts have made possible.
JobCount(j) ==
    /\ wins[j] + rows[j].attempts <= runs[j]
    /\ rows[j].status = "absent" => runs[j] = 0
    /\ Waiting(j) => /\ runs[j] <= rows[j].attempts + Revivals
                     /\ rows[j].attempts <= rows[j].maxRetries
    /\ rows[j].status \in {"running", "completed"} =>
          /\ runs[j] <= rows[j].attempts + 1 + Revivals
          /\ rows[j].attempts <= rows[j].maxRetries
    /\ rows[j].status = "completed" => wins[j] >= 1
    /\ rows[j].status = "failed" =>
          /\ runs[j] <= rows[j].attempts + Revivals
          /\ rows[j].attempts = rows[j].maxRetries + 1

\* w has the job in its batch, or SQLite's SELECT may still put it there.
HandOut(w, j) ==
    \/ j \in batch[w]
    \/ Sqlite /\ wpc[w] = "reply" /\ rows[j].lockedBy = wid[w]
    \/ Sqlite /\ Recurring /\ wpc[w] # "dead" /\ rows[j].lockedBy \in past[w]

\* The attempt of a task is neither counted as failed nor, before its handler returned
\* Ok, as a success.
TaskCount(t) ==
    IF t.pc = "complete" THEN wins[t.job] >= 1
                         ELSE wins[t.job] + rows[t.job].attempts < runs[t.job]

CountInv ==
    /\ \A j \in Jobs : JobCount(j)
    /\ \A w \in Workers, j \in Jobs : HandOut(w, j) => runs[j] <= rows[j].attempts + Revivals
    /\ \A t \in tasks : TaskCount(t)

IInv == LockInv /\ CountInv
-----------------------------------------------------------------------------
\* What the statements of JobTable do to a row.

\* A new row is well typed, unlocked and waiting.
LEMMA NewRows ==
    ASSUME NEW m \in Nat, NEW d \in Int
    PROVE  /\ PushRow(m, d) \in Row
           /\ PushRow(m, d).status \in {"pending", "scheduled"}
           /\ PushRow(m, d).attempts = 0 /\ PushRow(m, d).maxRetries = m
           /\ PushRow(m, d).lockedBy = NoLock
           /\ OutboxRow(m) \in Row
           /\ OutboxRow(m).status = "pending" /\ OutboxRow(m).maxRetries = m
           /\ OutboxRow(m).attempts = 0 /\ OutboxRow(m).lockedBy = NoLock
BY DEF PushRow, OutboxRow, Row, Status, NoLock

\* The UPDATE of complete() changes status and lock only.
LEMMA CompletedRow ==
    ASSUME NEW row \in Row
    PROVE  /\ CompleteRow(row) \in Row
           /\ CompleteRow(row).status = "completed"
           /\ CompleteRow(row).lockedBy = NoLock
           /\ CompleteRow(row).attempts = row.attempts
           /\ CompleteRow(row).maxRetries = row.maxRetries
BY DEF CompleteRow, Row, Status, NoLock

\* The UPDATE of fail() releases the lock, counts one attempt and re-queues the job
\* exactly when max_retries allows it.
LEMMA FailedRow ==
    ASSUME NEW row \in Row, NEW a \in Nat
    PROVE  /\ FailRow(row, a) \in Row
           /\ FailRow(row, a).lockedBy = NoLock
           /\ FailRow(row, a).attempts = a + 1
           /\ FailRow(row, a).maxRetries = row.maxRetries
           /\ FailRow(row, a).status =
                 IF a + 1 <= row.maxRetries THEN "pending" ELSE "failed"
<1> DEFINE b == a + 1
           d == RetryDelay(b)
<1>1. b \in Nat /\ d \in Int
  BY DelayAssumption DEF RetryDelay
<1> HIDE DEF b, d
<1> DEFINE retried == [row EXCEPT !.status = "pending", !.attempts = b,
                                  !.due = d, !.lockedBy = NoLock]
           given == [row EXCEPT !.status = "failed", !.attempts = b, !.lockedBy = NoLock]
<1>2. /\ retried \in Row /\ retried.lockedBy = NoLock /\ retried.attempts = b
      /\ retried.maxRetries = row.maxRetries /\ retried.status = "pending"
  BY <1>1 DEF Row, Status, NoLock
<1>3. /\ given \in Row /\ given.lockedBy = NoLock /\ given.attempts = b
      /\ given.maxRetries = row.maxRetries /\ given.status = "failed"
  BY <1>1 DEF Row, Status, NoLock
<1>4. FailRow(row, a) = IF b <= row.maxRetries THEN retried ELSE given
  BY DEF FailRow, b, d
<1> HIDE DEF retried, given
<1> QED
  BY <1>2, <1>3, <1>4 DEF b

\* Claiming sets status and lock of the selected rows and nothing else.
LEMMA ClaimedRows ==
    ASSUME NEW rs \in [Jobs -> Row], NEW S \in SUBSET Jobs, NEW id \in Ids
    PROVE  /\ ClaimRows(rs, S, id) \in [Jobs -> Row]
           /\ \A j \in Jobs \ S : ClaimRows(rs, S, id)[j] = rs[j]
           /\ \A j \in S : /\ ClaimRows(rs, S, id)[j].status = "running"
                           /\ ClaimRows(rs, S, id)[j].lockedBy = id
                           /\ ClaimRows(rs, S, id)[j].attempts = rs[j].attempts
                           /\ ClaimRows(rs, S, id)[j].maxRetries = rs[j].maxRetries
BY WorkerAssumption DEF ClaimRows, Row, Status, NoLock

\* Ageing changes nothing but the due time of waiting rows.
LEMMA AgedRows ==
    ASSUME NEW rs \in [Jobs -> Row]
    PROVE  /\ AgeRows(rs) \in [Jobs -> Row]
           /\ \A j \in Jobs :
                 /\ AgeRows(rs)[j].status = rs[j].status
                 /\ AgeRows(rs)[j].attempts = rs[j].attempts
                 /\ AgeRows(rs)[j].maxRetries = rs[j].maxRetries
                 /\ AgeRows(rs)[j].lockedBy = rs[j].lockedBy
                 /\ rs[j].status \notin {"pending", "scheduled"} => AgeRows(rs)[j] = rs[j]
BY DelayAssumption DEF AgeRows, Row, Status, NoLock

\* An id that worker_id() returns is held by no claim and no task, and by a row only when
\* a predecessor of the process left it there.
LEMMA IssuedIds ==
    ASSUME TypeOK, NamesInv, NEW w \in Workers, NEW id \in Ids, WorkerId(w, id)
    PROVE  /\ id # NoLock
           /\ \A v \in Workers : wid[v] # id
           /\ \A t \in tasks : t.id # id
           /\ \A j \in Jobs : rows[j].lockedBy = id => Recurring /\ id \in past[w]
<1>1. id # NoLock
  BY WorkerAssumption
<1>2. CASE id \notin UsedIds
  BY <1>1, <1>2 DEF UsedIds
<1>3. CASE Recurring /\ id \in past[w]
  <2>1. \A v \in Workers : id \notin issued[v]
    BY <1>3 DEF NamesInv
  <2> QED BY <1>1, <1>3, <2>1 DEF NamesInv, TypeOK, Task
<1> QED BY <1>2, <1>3 DEF WorkerId
-----------------------------------------------------------------------------
\* What one claim does: the rows in S, waiting before, become id's.
ClaimedBy(w, id, S) ==
    /\ \A j \in S : rows[j].status \in {"pending", "scheduled"}
    /\ rows' \in [Jobs -> Row]
    /\ \A j \in Jobs \ S : rows'[j] = rows[j]
    /\ \A j \in S : /\ rows'[j].status = "running" /\ rows'[j].lockedBy = id
                    /\ rows'[j].attempts = rows[j].attempts
                    /\ rows'[j].maxRetries = rows[j].maxRetries
    /\ wid' = [wid EXCEPT ![w] = id]
    /\ batch' = [batch EXCEPT ![w] = IF Sqlite THEN {} ELSE S]
    /\ id # NoLock
    /\ \A v \in Workers : wid[v] # id
    /\ \A t \in tasks : t.id # id
    /\ \A j \in Jobs : rows[j].lockedBy = id => Recurring /\ id \in past[w]
    /\ past' = [v \in Workers |-> (past[v] \cap UsedIds) \ {id}]

\* The UPDATE of claim() moves waiting rows only, all under an id nobody goes by.
LEMMA ClaimEffect ==
    ASSUME TypeOK, NamesInv, NEW w \in Workers, ClaimUpdate(w)
    PROVE  \E id \in Ids, S \in SUBSET Jobs : ClaimedBy(w, id, S)
<1> PICK id \in Ids, S \in ClaimSets(rows, BatchSize) :
        /\ WorkerId(w, id) /\ Issue(w, id)
        /\ rows' = ClaimRows(rows, S, id)
        /\ wid' = [wid EXCEPT ![w] = id]
        /\ batch' = [batch EXCEPT ![w] = IF Sqlite THEN {} ELSE S]
  BY DEF ClaimUpdate
<1>1. /\ S \in SUBSET Jobs
      /\ \A j \in S : rows[j].status \in {"pending", "scheduled"}
  BY DEF ClaimSets, Due
<1>2. rows \in [Jobs -> Row]
  BY DEF TypeOK
<1>3. /\ ClaimRows(rows, S, id) \in [Jobs -> Row]
      /\ \A j \in Jobs \ S : ClaimRows(rows, S, id)[j] = rows[j]
      /\ \A j \in S : /\ ClaimRows(rows, S, id)[j].status = "running"
                      /\ ClaimRows(rows, S, id)[j].lockedBy = id
                      /\ ClaimRows(rows, S, id)[j].attempts = rows[j].attempts
                      /\ ClaimRows(rows, S, id)[j].maxRetries = rows[j].maxRetries
  BY ONLY <1>1, <1>2, ClaimedRows, id \in Ids
<1>4. /\ id # NoLock
      /\ \A v \in Workers : wid[v] # id
      /\ \A t \in tasks : t.id # id
      /\ \A j \in Jobs : rows[j].lockedBy = id => Recurring /\ id \in past[w]
  BY IssuedIds
<1>5. ClaimedBy(w, id, S)
  BY <1>1, <1>3, <1>4 DEF ClaimedBy, Issue
<1> QED BY <1>1, <1>5

\* What the UPDATE of fail() writes.
FailedTo(t, row) ==
    /\ rows' = [rows EXCEPT ![t.job] = row]
    /\ row.lockedBy = NoLock
    /\ row.attempts = rows[t.job].attempts + 1
    /\ row.maxRetries = rows[t.job].maxRetries
    /\ row.status = IF row.attempts <= row.maxRetries THEN "pending" ELSE "failed"

\* fail() counts on the attempts it read: the lock it checks was never given up.
LEMMA FailEffect ==
    ASSUME TypeOK, RowsInv, TasksInv, NEW t \in tasks, FailUpdate(t)
    PROVE  \E row \in Row : FailedTo(t, row)
<1>1. /\ t.job \in Jobs /\ rows[t.job] \in Row /\ t.attempts \in Nat
      /\ t.lock = t.id /\ t.id # NoLock /\ rows[t.job].lockedBy = t.id
      /\ t.attempts = rows[t.job].attempts
  BY WorkerAssumption DEF TypeOK, Task, TasksInv, FailUpdate
<1> DEFINE row == FailRow(rows[t.job], t.attempts)
<1>2. /\ row \in Row /\ row.lockedBy = NoLock
      /\ row.attempts = t.attempts + 1 /\ row.maxRetries = rows[t.job].maxRetries
      /\ row.status = IF t.attempts + 1 <= rows[t.job].maxRetries THEN "pending" ELSE "failed"
  BY <1>1, FailedRow
<1>3. rows' = [rows EXCEPT ![t.job] = row]
  BY <1>1 DEF FailUpdate, LockMatches
<1> HIDE DEF row
<1>4. FailedTo(t, row)
  BY <1>1, <1>2, <1>3 DEF FailedTo
<1> QED BY <1>2, <1>4

\* The lock invariant holds initially.
LEMMA LockInit == Init => LockInv
BY WorkerAssumption
   DEF Init, LockInv, OwnInv, NamesInv, TypeOK, RowsInv, ClaimsInv, TasksInv, NoRow, Row, Status, NoLock,
       WorkerPc, Task

\* Every step keeps the ids apart.
LEMMA NamesNext == LockInv /\ [Next]_vars => NamesInv'
<1> SUFFICES ASSUME LockInv, [Next]_vars PROVE NamesInv'
  OBVIOUS
<1> USE DEF LockInv, OwnInv, store, loop, proc, names, hist
<1>1. ASSUME UNCHANGED <<issued, past>>, \A w \in Workers : wid'[w] \in {wid[w], NoLock},
             \A u \in tasks' : \E t \in tasks : u.id = t.id /\ u.worker = t.worker
      PROVE  NamesInv'
  <2>1. \A u \in tasks' : u.id \in issued[u.worker]
    BY <1>1 DEF NamesInv
  <2> QED BY <1>1, <2>1 DEF NamesInv
<1>2. ASSUME NEW j \in Jobs, Producer(j) PROVE NamesInv'
  BY <1>2 DEF Producer, Push, OutboxInsert, OutboxCommit, OutboxRollback, NamesInv
<1>3. ASSUME Tick \/ UNCHANGED vars PROVE NamesInv'
  BY <1>3 DEF Tick, vars, NamesInv
<1>4. ASSUME NEW w \in Workers, ClaimUpdate(w) PROVE NamesInv'
  <2> PICK id \in Ids : WorkerId(w, id) /\ Issue(w, id) /\ wid' = [wid EXCEPT ![w] = id]
    BY <1>4 DEF ClaimUpdate
  <2>1. /\ \A v \in Workers : issued'[v] = ((issued[v] \cap UsedIds) \ {id}) \cup (IF v = w THEN {id} ELSE {})
        /\ \A v \in Workers : past'[v] = (past[v] \cap UsedIds) \ {id}
    BY DEF Issue
  <2>2. \A v \in Workers : wid[v] # id /\ wid'[v] = IF v = w THEN id ELSE wid[v]
    BY IssuedIds DEF TypeOK
  <2>3. \A v \in Workers : wid'[v] # NoLock => wid'[v] \in issued'[v]
    BY <2>1, <2>2 DEF NamesInv, UsedIds
  <2>4. tasks' = tasks /\ \A t \in tasks : t.id # id /\ t.id \in UsedIds /\ t.worker \in Workers
    BY <1>4, IssuedIds DEF ClaimUpdate, UsedIds, TypeOK, Task
  <2>5. \A t \in tasks' : t.id \in issued'[t.worker]
    BY <2>1, <2>4 DEF NamesInv
  <2>6. \A u, v \in Workers : past'[u] \cap issued'[v] = {}
    BY <2>1 DEF NamesInv
  <2>7. \A u, v \in Workers : u # v => issued'[u] \cap issued'[v] = {}
    BY <2>1 DEF NamesInv
  <2> QED BY <2>3, <2>5, <2>6, <2>7 DEF NamesInv
<1>5. ASSUME NEW w \in Workers, ClaimReply(w) \/ ClaimError(w) \/ SpawnDone(w) PROVE NamesInv'
  <2>1. /\ UNCHANGED <<issued, past, tasks>>
        /\ wid' = wid \/ wid' = [wid EXCEPT ![w] = NoLock]
    BY <1>5 DEF ClaimReply, ClaimError, SpawnDone
  <2>2. \A v \in Workers : wid'[v] \in {wid[v], NoLock}
    BY <2>1 DEF TypeOK
  <2> QED BY <1>1, <2>1, <2>2
<1>6. ASSUME NEW w \in Workers, Wake(w) \/ Stop(w) \/ Signal(w) \/ Restart(w) PROVE NamesInv'
  BY <1>6 DEF Wake, Stop, Signal, Restart, NamesInv
<1>7. ASSUME NEW w \in Workers, Spawn(w) PROVE NamesInv'
  <2> PICK j \in batch[w] :
        tasks' = tasks \cup {[worker |-> w, job |-> j, id |-> wid[w],
                              pc |-> "run", attempts |-> 0, lock |-> NoLock]}
    BY <1>7 DEF Spawn
  <2>1. wid[w] # NoLock /\ UNCHANGED <<issued, past, wid>>
    BY <1>7 DEF Spawn, ClaimsInv
  <2> QED BY <2>1 DEF NamesInv
<1>8. ASSUME NEW w \in Workers, Crash(w) \/ Exit(w) PROVE NamesInv'
  <2>1. /\ wid' = [wid EXCEPT ![w] = NoLock] /\ tasks' = {t \in tasks : t.worker # w}
        /\ issued' = [issued EXCEPT ![w] = {}]
        /\ past' = [past EXCEPT ![w] = (@ \cup issued[w]) \cap {rows[j].lockedBy : j \in Jobs}]
    BY <1>8 DEF Crash, Exit, Die
  <2>2. \A v \in Workers : /\ wid'[v] = IF v = w THEN NoLock ELSE wid[v]
                           /\ issued'[v] = IF v = w THEN {} ELSE issued[v]
                           /\ past'[v] \subseteq past[v] \cup (IF v = w THEN issued[v] ELSE {})
    BY <2>1 DEF TypeOK
  <2>3. \A t \in tasks' : t \in tasks /\ t.worker # w /\ t.worker \in Workers
    BY <2>1 DEF TypeOK, Task
  <2>4. \A u, v \in Workers : past'[u] \cap issued'[v] = {}
    BY <2>2 DEF NamesInv
  <2> QED BY <2>2, <2>3, <2>4 DEF NamesInv
<1>9. ASSUME NEW t \in tasks, RunTask(t) PROVE NamesInv'
  <2>1. UNCHANGED <<issued, past, wid>>
    BY <1>9 DEF RunTask, DispatchOk, DispatchErr, DispatchPanic, Complete, FailSelect,
                FailUpdate, StoreError
  <2>2. \/ tasks' = tasks \ {t}
        \/ \E p \in TaskPc : tasks' = (tasks \ {t}) \cup {[t EXCEPT !.pc = p]}
        \/ tasks' = (tasks \ {t}) \cup {[t EXCEPT !.pc = "failUpdate", !.attempts = rows[t.job].attempts,
                                                  !.lock = rows[t.job].lockedBy]}
    BY <1>9 DEF RunTask, DispatchOk, DispatchErr, DispatchPanic, Complete, FailSelect,
                FailUpdate, StoreError, Returned, Finish, TaskPc
  <2>3. t \in Task
    BY DEF TypeOK
  <2>4. \A u \in tasks' : \E v \in tasks : u.id = v.id /\ u.worker = v.worker
    BY <2>2, <2>3 DEF Task
  <2> QED BY <1>1, <2>1, <2>4
<1> QED
  BY <1>2, <1>3, <1>4, <1>5, <1>6, <1>7, <1>8, <1>9 DEF Next, RunLoop, Process

\* Every step keeps the lock invariant.
LEMMA LockNext == LockInv /\ [Next]_vars => LockInv'
<1> SUFFICES ASSUME LockInv, [Next]_vars PROVE OwnInv'
  BY NamesNext DEF LockInv
<1> USE DEF LockInv, OwnInv, store, loop, proc, names, hist
<1>1. ASSUME NEW j \in Jobs, Push(j) PROVE OwnInv'
  <2> PICK m \in Retries, d \in Delays : rows' = [rows EXCEPT ![j] = PushRow(m, d)]
    BY <1>1 DEF Push
  <2> DEFINE row == PushRow(m, d)
  <2>a. /\ row \in Row /\ row.lockedBy = NoLock
        /\ row.status \in {"pending", "scheduled"}
    BY NewRows, WorkerAssumption
  <2>b. rows' = [rows EXCEPT ![j] = row]
    OBVIOUS
  <2> HIDE DEF row
  <2>1. TypeOK'
    BY <1>1, <2>a, <2>b DEF Push, TypeOK
  <2>2. RowsInv'
    BY <1>1, <2>a, <2>b DEF Push, Fresh, TypeOK, RowsInv
  <2>3. ClaimsInv'
    BY <1>1, <2>a, <2>b DEF Push, Fresh, TypeOK, RowsInv, ClaimsInv, NoRow
  <2>4. TasksInv'
    BY <1>1, <2>a, <2>b DEF Push, Fresh, TypeOK, RowsInv, TasksInv, Task, NoRow
  <2> QED BY <2>1, <2>2, <2>3, <2>4
<1>2. ASSUME NEW j \in Jobs, OutboxInsert(j) PROVE OwnInv'
  <2> PICK m \in Retries : outbox' = [outbox EXCEPT ![j] = OutboxRow(m)]
    BY <1>2 DEF OutboxInsert
  <2>a. /\ OutboxRow(m) \in Row /\ OutboxRow(m).status = "pending"
        /\ OutboxRow(m).attempts = 0 /\ OutboxRow(m).lockedBy = NoLock
        /\ OutboxRow(m).maxRetries = m
    BY NewRows, WorkerAssumption
  <2>1. TypeOK'
    BY <1>2, <2>a DEF OutboxInsert, TypeOK
  <2>2. RowsInv'
    BY <1>2, <2>a DEF OutboxInsert, Fresh, TypeOK, RowsInv
  <2>3. ClaimsInv'
    BY <1>2 DEF OutboxInsert, ClaimsInv
  <2>4. TasksInv'
    BY <1>2 DEF OutboxInsert, TasksInv
  <2> QED BY <2>1, <2>2, <2>3, <2>4
<1>3. ASSUME NEW j \in Jobs, OutboxCommit(j) PROVE OwnInv'
  <2>1. TypeOK'
    BY <1>3 DEF OutboxCommit, TypeOK, WorkerPc, Task, TaskPc, NoRow, Row, Status, NoLock
  <2>2. RowsInv'
    BY <1>3 DEF OutboxCommit, TypeOK, RowsInv, ClaimsInv, TasksInv, Task, NoRow
  <2>3. ClaimsInv'
    BY <1>3 DEF OutboxCommit, TypeOK, RowsInv, ClaimsInv, TasksInv, Task, NoRow
  <2>4. TasksInv'
    BY <1>3 DEF OutboxCommit, TypeOK, RowsInv, ClaimsInv, TasksInv, Task, NoRow
  <2> QED BY <2>1, <2>2, <2>3, <2>4
<1>4. ASSUME NEW j \in Jobs, OutboxRollback(j) PROVE OwnInv'
  <2>1. TypeOK'
    BY <1>4 DEF OutboxRollback, TypeOK, WorkerPc, Task, TaskPc, NoRow, Row, Status, NoLock
  <2>2. RowsInv'
    BY <1>4 DEF OutboxRollback, TypeOK, RowsInv, ClaimsInv, TasksInv, Task, NoRow
  <2>3. ClaimsInv'
    BY <1>4 DEF OutboxRollback, TypeOK, RowsInv, ClaimsInv, TasksInv, Task, NoRow
  <2>4. TasksInv'
    BY <1>4 DEF OutboxRollback, TypeOK, RowsInv, ClaimsInv, TasksInv, Task, NoRow
  <2> QED BY <2>1, <2>2, <2>3, <2>4
<1>5. ASSUME Tick PROVE OwnInv'
  <2>1. TypeOK'
    BY <1>5, AgedRows DEF Tick, TypeOK, WorkerPc, Task, TaskPc, NoRow, Row, Status, NoLock
  <2>2. RowsInv'
    <3>1. /\ rows' = AgeRows(rows) /\ rows \in [Jobs -> Row]
          /\ outbox' = AgeRows(outbox) /\ outbox \in [Jobs -> Row]
      BY <1>5 DEF Tick, TypeOK
    <3>2. \A j \in Jobs : /\ rows[j] = NoRow => rows'[j] = NoRow
                         /\ outbox[j] = NoRow => outbox'[j] = NoRow
      BY <3>1, AgedRows DEF NoRow
    <3>3. \A j \in Jobs : rows[j].status = "absent" => rows'[j] = rows[j]
      BY <3>1, AgedRows
    <3>4. \A j \in Jobs : /\ rows'[j].status = rows[j].status
                         /\ rows'[j].lockedBy = rows[j].lockedBy
                         /\ outbox'[j].status = outbox[j].status
                         /\ outbox'[j].attempts = outbox[j].attempts
                         /\ outbox'[j].maxRetries = outbox[j].maxRetries
                         /\ outbox'[j].lockedBy = outbox[j].lockedBy
      BY <3>1, AgedRows
    <3> QED BY <3>2, <3>3, <3>4 DEF RowsInv, NoRow, NoLock
  <2>3. ClaimsInv'
    <3>1. /\ UNCHANGED <<wpc, wid, batch>> /\ rows' = AgeRows(rows) /\ rows \in [Jobs -> Row]
      BY <1>5 DEF Tick, TypeOK
    <3>2. \A j \in Jobs : rows'[j].status = rows[j].status /\ rows'[j].lockedBy = rows[j].lockedBy
      BY <3>1, AgedRows
    <3> QED BY <3>1, <3>2 DEF ClaimsInv, TypeOK
  <2>4. TasksInv'
    BY <1>5, AgedRows DEF Tick, TypeOK, RowsInv, ClaimsInv, TasksInv, Task, NoRow
  <2> QED BY <2>1, <2>2, <2>3, <2>4
<1>6. ASSUME NEW w \in Workers, ClaimUpdate(w) PROVE OwnInv'
  <2> PICK id \in Ids, S \in SUBSET Jobs : ClaimedBy(w, id, S)
    BY <1>6, ClaimEffect
  <2>a. \A j \in S : rows[j].status \in {"pending", "scheduled"}
    BY DEF ClaimedBy
  <2>b. /\ rows' \in [Jobs -> Row]
        /\ \A j \in Jobs \ S : rows'[j] = rows[j]
        /\ \A j \in S : rows'[j].status = "running" /\ rows'[j].lockedBy = id
        /\ wid' = [wid EXCEPT ![w] = id]
        /\ batch' = [batch EXCEPT ![w] = IF Sqlite THEN {} ELSE S]
    BY DEF ClaimedBy
  <2>c. /\ id # NoLock
        /\ \A v \in Workers : wid[v] # id
        /\ \A t \in tasks : t.id # id
    BY DEF ClaimedBy
  <2>d. /\ wpc[w] = "claim" /\ wpc' = [wpc EXCEPT ![w] = "reply"]
        /\ UNCHANGED <<outbox, permits, sig, tasks, hist>>
        /\ \E i \in Ids : Issue(w, i)
    BY <1>6 DEF ClaimUpdate
  <2>e. \A v \in Workers : batch'[v] = IF v # w THEN batch[v] ELSE IF Sqlite THEN {} ELSE S
    BY <2>b DEF TypeOK
  <2>f. batch' \in [Workers -> SUBSET Jobs]
    BY <2>b DEF TypeOK
  <2>1. TypeOK'
    BY <2>b, <2>d, <2>f DEF TypeOK, WorkerPc, Issue
  <2>2. RowsInv'
    BY <2>a, <2>b, <2>c, <2>d DEF RowsInv, NoRow
  <2>3. ClaimsInv'
    <3>1. \A v \in Workers : wpc'[v] \in {"reply", "spawn"} <=> wid'[v] # NoLock
      BY <2>b, <2>c, <2>d DEF ClaimsInv, TypeOK
    <3>2. ASSUME NEW v \in Workers, NEW j \in batch'[v]
          PROVE  rows'[j].status = "running" /\ rows'[j].lockedBy = wid'[v]
      <4>1. CASE v = w
        BY <4>1, <2>a, <2>b, <2>e DEF TypeOK
      <4>2. CASE v # w
        <5>1. rows[j].status = "running" /\ rows[j].lockedBy = wid[v] /\ j \in Jobs
          BY <3>2, <4>2, <2>e DEF ClaimsInv, TypeOK
        <5> QED
          BY <5>1, <4>2, <2>a, <2>b DEF TypeOK
      <4> QED BY <4>1, <4>2
    <3>3. \A u, v \in Workers : wid'[u] = wid'[v] /\ wid'[u] # NoLock => u = v
      BY <2>b, <2>c DEF ClaimsInv, TypeOK
    <3> QED BY <3>1, <3>2, <3>3 DEF ClaimsInv
  <2>4. TasksInv'
    <3>1. ASSUME NEW t \in tasks PROVE rows'[t.job] = rows[t.job] /\ t.job \in Jobs \ S
      BY <3>1, <2>a, <2>b DEF TasksInv, TypeOK, Task
    <3>2. ASSUME NEW t \in tasks, NEW v \in Workers
          PROVE  t.job \notin batch'[v] /\ (wpc'[v] = "reply" => wid'[v] # t.id)
      BY <3>1, <2>b, <2>c, <2>d, <2>e DEF TasksInv, TypeOK
    <3> QED BY <3>1, <3>2, <2>d DEF TasksInv
  <2> QED BY <2>1, <2>2, <2>3, <2>4
<1>7. ASSUME NEW w \in Workers, ClaimReply(w) PROVE OwnInv'
  <2>1. TypeOK'
    BY <1>7 DEF ClaimReply, LockedRows, TypeOK, WorkerPc, Task, TaskPc, NoRow, Row, Status, NoLock
  <2>2. RowsInv'
    BY <1>7 DEF ClaimReply, LockedRows, TypeOK, RowsInv, ClaimsInv, TasksInv, Task, NoRow
  <2>3. ClaimsInv'
    BY <1>7 DEF ClaimReply, LockedRows, TypeOK, RowsInv, ClaimsInv, TasksInv, Task, NoRow
  <2>4. TasksInv'
    BY <1>7 DEF ClaimReply, LockedRows, TypeOK, RowsInv, ClaimsInv, TasksInv, Task, NoRow
  <2> QED BY <2>1, <2>2, <2>3, <2>4
<1>8. ASSUME NEW w \in Workers, ClaimError(w) PROVE OwnInv'
  <2>1. TypeOK'
    BY <1>8 DEF ClaimError, TypeOK, WorkerPc, Task, TaskPc, NoRow, Row, Status, NoLock
  <2>2. RowsInv'
    BY <1>8 DEF ClaimError, TypeOK, RowsInv, ClaimsInv, TasksInv, Task, NoRow
  <2>3. ClaimsInv'
    BY <1>8 DEF ClaimError, TypeOK, RowsInv, ClaimsInv, TasksInv, Task, NoRow
  <2>4. TasksInv'
    BY <1>8 DEF ClaimError, TypeOK, RowsInv, ClaimsInv, TasksInv, Task, NoRow
  <2> QED BY <2>1, <2>2, <2>3, <2>4
<1>9. ASSUME NEW w \in Workers, Spawn(w) PROVE OwnInv'
  <2>1. TypeOK'
    <3> PICK j \in batch[w] :
            tasks' = tasks \cup {[worker |-> w, job |-> j, id |-> wid[w], pc |-> "run",
                                  attempts |-> 0, lock |-> NoLock]}
      BY <1>9 DEF Spawn
    <3>1. j \in Jobs /\ wid[w] \in Ids
      BY <1>9 DEF Spawn, TypeOK, ClaimsInv
    <3>2. tasks' \in SUBSET Task
      BY <3>1 DEF TypeOK, Task, TaskPc, NoLock
    <3>3. permits' \in [Workers -> Nat]
      BY <1>9 DEF Spawn, TypeOK
    <3>4. runs' \in [Jobs -> Nat]
      BY <1>9 DEF Spawn, TypeOK
    <3> QED BY <1>9, <3>2, <3>3, <3>4 DEF Spawn, TypeOK
  <2>2. RowsInv'
    BY <1>9 DEF Spawn, NextInBatch, TypeOK, RowsInv, ClaimsInv, TasksInv, Task, NoRow
  <2>3. ClaimsInv'
    BY <1>9 DEF Spawn, NextInBatch, TypeOK, RowsInv, ClaimsInv, TasksInv, Task, NoRow
  <2>4. TasksInv'
    BY <1>9 DEF Spawn, NextInBatch, TypeOK, RowsInv, ClaimsInv, TasksInv, Task, NoRow
  <2> QED BY <2>1, <2>2, <2>3, <2>4
<1>10. ASSUME NEW w \in Workers, SpawnDone(w) PROVE OwnInv'
  <2>1. TypeOK'
    BY <1>10 DEF SpawnDone, TypeOK, WorkerPc, Task, TaskPc, NoRow, Row, Status, NoLock
  <2>2. RowsInv'
    BY <1>10 DEF SpawnDone, TypeOK, RowsInv, ClaimsInv, TasksInv, Task, NoRow
  <2>3. ClaimsInv'
    BY <1>10 DEF SpawnDone, TypeOK, RowsInv, ClaimsInv, TasksInv, Task, NoRow
  <2>4. TasksInv'
    BY <1>10 DEF SpawnDone, TypeOK, RowsInv, ClaimsInv, TasksInv, Task, NoRow
  <2> QED BY <2>1, <2>2, <2>3, <2>4
<1>11. ASSUME NEW w \in Workers, Wake(w) PROVE OwnInv'
  <2>1. TypeOK'
    BY <1>11 DEF Wake, TypeOK, WorkerPc, Task, TaskPc, NoRow, Row, Status, NoLock
  <2>2. RowsInv'
    BY <1>11 DEF Wake, TypeOK, RowsInv, ClaimsInv, TasksInv, Task, NoRow
  <2>3. ClaimsInv'
    BY <1>11 DEF Wake, TypeOK, RowsInv, ClaimsInv, TasksInv, Task, NoRow
  <2>4. TasksInv'
    BY <1>11 DEF Wake, TypeOK, RowsInv, ClaimsInv, TasksInv, Task, NoRow
  <2> QED BY <2>1, <2>2, <2>3, <2>4
<1>12. ASSUME NEW w \in Workers, Stop(w) PROVE OwnInv'
  <2>1. TypeOK'
    BY <1>12 DEF Stop, TypeOK, WorkerPc, Task, TaskPc, NoRow, Row, Status, NoLock
  <2>2. RowsInv'
    BY <1>12 DEF Stop, TypeOK, RowsInv, ClaimsInv, TasksInv, Task, NoRow
  <2>3. ClaimsInv'
    BY <1>12 DEF Stop, TypeOK, RowsInv, ClaimsInv, TasksInv, Task, NoRow
  <2>4. TasksInv'
    BY <1>12 DEF Stop, TypeOK, RowsInv, ClaimsInv, TasksInv, Task, NoRow
  <2> QED BY <2>1, <2>2, <2>3, <2>4
<1>13. ASSUME NEW w \in Workers, Signal(w) PROVE OwnInv'
  <2>1. TypeOK'
    BY <1>13 DEF Signal, TypeOK, WorkerPc, Task, TaskPc, NoRow, Row, Status, NoLock
  <2>2. RowsInv'
    BY <1>13 DEF Signal, TypeOK, RowsInv, ClaimsInv, TasksInv, Task, NoRow
  <2>3. ClaimsInv'
    BY <1>13 DEF Signal, TypeOK, RowsInv, ClaimsInv, TasksInv, Task, NoRow
  <2>4. TasksInv'
    BY <1>13 DEF Signal, TypeOK, RowsInv, ClaimsInv, TasksInv, Task, NoRow
  <2> QED BY <2>1, <2>2, <2>3, <2>4
<1>14. ASSUME NEW w \in Workers, Crash(w) PROVE OwnInv'
  <2>1. TypeOK'
    BY <1>14 DEF Crash, Die, TypeOK, WorkerPc, Task, TaskPc, NoRow, Row, Status, NoLock
  <2>2. RowsInv'
    BY <1>14 DEF Crash, Die, TypeOK, RowsInv, ClaimsInv, TasksInv, Task, NoRow
  <2>3. ClaimsInv'
    BY <1>14 DEF Crash, Die, TypeOK, RowsInv, ClaimsInv, TasksInv, Task, NoRow
  <2>4. TasksInv'
    BY <1>14 DEF Crash, Die, TypeOK, RowsInv, ClaimsInv, TasksInv, Task, NoRow
  <2> QED BY <2>1, <2>2, <2>3, <2>4
<1>15. ASSUME NEW w \in Workers, Exit(w) PROVE OwnInv'
  <2>1. TypeOK'
    BY <1>15 DEF Exit, Die, TypeOK, WorkerPc, Task, TaskPc, NoRow, Row, Status, NoLock
  <2>2. RowsInv'
    BY <1>15 DEF Exit, Die, TypeOK, RowsInv, ClaimsInv, TasksInv, Task, NoRow
  <2>3. ClaimsInv'
    BY <1>15 DEF Exit, Die, TypeOK, RowsInv, ClaimsInv, TasksInv, Task, NoRow
  <2>4. TasksInv'
    BY <1>15 DEF Exit, Die, TypeOK, RowsInv, ClaimsInv, TasksInv, Task, NoRow
  <2> QED BY <2>1, <2>2, <2>3, <2>4
<1>16. ASSUME NEW w \in Workers, Restart(w) PROVE OwnInv'
  <2>1. TypeOK'
    BY <1>16, WorkerAssumption DEF Restart, TypeOK, WorkerPc
  <2>2. RowsInv'
    BY <1>16 DEF Restart, TypeOK, RowsInv, ClaimsInv, TasksInv, Task, NoRow
  <2>3. ClaimsInv'
    BY <1>16 DEF Restart, TypeOK, RowsInv, ClaimsInv, TasksInv, Task, NoRow
  <2>4. TasksInv'
    BY <1>16 DEF Restart, TypeOK, RowsInv, ClaimsInv, TasksInv, Task, NoRow
  <2> QED BY <2>1, <2>2, <2>3, <2>4
<1>17. ASSUME NEW t \in tasks, DispatchOk(t) PROVE OwnInv'
  <2>1. TypeOK'
    <3>1. tasks' \in SUBSET Task
      BY <1>17 DEF DispatchOk, Returned, TypeOK, Task, TaskPc
    <3>2. wins' \in [Jobs -> Nat]
      BY <1>17 DEF DispatchOk, TypeOK, Task
    <3> QED BY <1>17, <3>1, <3>2 DEF DispatchOk, TypeOK
  <2>2. RowsInv'
    BY <1>17 DEF DispatchOk, Returned, TypeOK, RowsInv, ClaimsInv, TasksInv, Task, NoRow
  <2>3. ClaimsInv'
    BY <1>17 DEF DispatchOk, Returned, TypeOK, RowsInv, ClaimsInv, TasksInv, Task, NoRow
  <2>4. TasksInv'
    <3> DEFINE new == [t EXCEPT !.pc = "complete"]
    <3>1. new.job = t.job /\ new.id = t.id /\ new.pc = "complete"
      BY DEF TypeOK, Task
    <3>2. tasks' = (tasks \ {t}) \cup {new}
      BY <1>17 DEF DispatchOk, Returned
    <3> HIDE DEF new
    <3> QED BY <1>17, <3>1, <3>2 DEF DispatchOk, TasksInv
  <2> QED BY <2>1, <2>2, <2>3, <2>4
<1>18. ASSUME NEW t \in tasks, DispatchErr(t) PROVE OwnInv'
  <2>1. TypeOK'
    BY <1>18 DEF DispatchErr, Returned, TypeOK, WorkerPc, Task, TaskPc, NoRow, Row, Status, NoLock
  <2>2. RowsInv'
    BY <1>18 DEF DispatchErr, Returned, TypeOK, RowsInv, ClaimsInv, TasksInv, Task, NoRow
  <2>3. ClaimsInv'
    BY <1>18 DEF DispatchErr, Returned, TypeOK, RowsInv, ClaimsInv, TasksInv, Task, NoRow
  <2>4. TasksInv'
    <3> DEFINE new == [t EXCEPT !.pc = "failSelect"]
    <3>1. new.job = t.job /\ new.id = t.id /\ new.pc = "failSelect"
      BY DEF TypeOK, Task
    <3>2. tasks' = (tasks \ {t}) \cup {new}
      BY <1>18 DEF DispatchErr, Returned
    <3> HIDE DEF new
    <3> QED BY <1>18, <3>1, <3>2 DEF DispatchErr, TasksInv
  <2> QED BY <2>1, <2>2, <2>3, <2>4
<1>19. ASSUME NEW t \in tasks, DispatchPanic(t) PROVE OwnInv'
  <2>1. TypeOK'
    BY <1>19 DEF DispatchPanic, Finish, TypeOK, WorkerPc, Task, TaskPc, NoRow, Row, Status, NoLock
  <2>2. RowsInv'
    BY <1>19 DEF DispatchPanic, Finish, TypeOK, RowsInv, ClaimsInv, TasksInv, Task, NoRow
  <2>3. ClaimsInv'
    BY <1>19 DEF DispatchPanic, Finish, TypeOK, RowsInv, ClaimsInv, TasksInv, Task, NoRow
  <2>4. TasksInv'
    BY <1>19 DEF DispatchPanic, Finish, TypeOK, RowsInv, ClaimsInv, TasksInv, Task, NoRow
  <2> QED BY <2>1, <2>2, <2>3, <2>4
<1>20. ASSUME NEW t \in tasks, Complete(t) PROVE OwnInv'
  <2>1. TypeOK'
    BY <1>20, CompletedRow DEF Complete, Finish, TypeOK, WorkerPc, Task, TaskPc, NoRow, Row, Status, NoLock
  <2>2. RowsInv'
    BY <1>20, CompletedRow DEF Complete, Finish, TypeOK, RowsInv, ClaimsInv, TasksInv, Task, NoRow
  <2>3. ClaimsInv'
    BY <1>20, CompletedRow DEF Complete, Finish, TypeOK, RowsInv, ClaimsInv, TasksInv, Task, NoRow
  <2>4. TasksInv'
    BY <1>20, CompletedRow DEF Complete, Finish, TypeOK, RowsInv, ClaimsInv, TasksInv, Task, NoRow
  <2> QED BY <2>1, <2>2, <2>3, <2>4
<1>21. ASSUME NEW t \in tasks, FailSelect(t) PROVE OwnInv'
  <2> DEFINE new == [t EXCEPT !.pc = "failUpdate", !.attempts = rows[t.job].attempts,
                             !.lock = rows[t.job].lockedBy]
  <2>a. /\ new \in Task /\ new.job = t.job /\ new.id = t.id /\ new.pc = "failUpdate"
        /\ new.attempts = rows[t.job].attempts /\ new.lock = rows[t.job].lockedBy
    BY DEF TypeOK, Task, TaskPc, Row
  <2>b. rows[t.job].status = "running" /\ rows[t.job].lockedBy = t.id
    BY DEF TasksInv
  <2>c. tasks' = (tasks \ {t}) \cup {new} /\ UNCHANGED permits
    BY <1>21, <2>b DEF FailSelect
  <2> HIDE DEF new
  <2>1. TypeOK'
    BY <1>21, <2>a, <2>c DEF FailSelect, TypeOK
  <2>2. RowsInv'
    BY <1>21 DEF FailSelect, Finish, TypeOK, RowsInv, ClaimsInv, TasksInv, Task, NoRow
  <2>3. ClaimsInv'
    BY <1>21 DEF FailSelect, Finish, TypeOK, RowsInv, ClaimsInv, TasksInv, Task, NoRow
  <2>4. TasksInv'
    BY <1>21, <2>a, <2>b, <2>c DEF FailSelect, TasksInv
  <2> QED BY <2>1, <2>2, <2>3, <2>4
<1>22. ASSUME NEW t \in tasks, FailUpdate(t) PROVE OwnInv'
  <2> PICK row \in Row : FailedTo(t, row)
    BY <1>22, FailEffect
  <2>a. /\ t.job \in Jobs /\ rows[t.job].status = "running" /\ t.worker \in Workers
    BY DEF TypeOK, Task, TasksInv
  <2>b. row.lockedBy = NoLock /\ row.status \in {"pending", "failed"}
    BY DEF FailedTo
  <2>c. rows' = [rows EXCEPT ![t.job] = row]
    BY DEF FailedTo
  <2>1. TypeOK'
    BY <1>22, <2>a, <2>b, <2>c DEF FailUpdate, Finish, TypeOK
  <2>2. RowsInv'
    BY <1>22, <2>a, <2>b, <2>c DEF FailUpdate, RowsInv, TypeOK, NoRow
  <2>3. ClaimsInv'
    BY <1>22, <2>a, <2>c DEF FailUpdate, ClaimsInv, TasksInv, TypeOK
  <2>4. TasksInv'
    BY <1>22, <2>a, <2>c DEF FailUpdate, Finish, TasksInv, TypeOK, Task
  <2> QED BY <2>1, <2>2, <2>3, <2>4
<1>23. ASSUME NEW t \in tasks, StoreError(t) PROVE OwnInv'
  <2>1. TypeOK'
    BY <1>23 DEF StoreError, Finish, TypeOK, WorkerPc, Task, TaskPc, NoRow, Row, Status, NoLock
  <2>2. RowsInv'
    BY <1>23 DEF StoreError, Finish, TypeOK, RowsInv, ClaimsInv, TasksInv, Task, NoRow
  <2>3. ClaimsInv'
    BY <1>23 DEF StoreError, Finish, TypeOK, RowsInv, ClaimsInv, TasksInv, Task, NoRow
  <2>4. TasksInv'
    BY <1>23 DEF StoreError, Finish, TypeOK, RowsInv, ClaimsInv, TasksInv, Task, NoRow
  <2> QED BY <2>1, <2>2, <2>3, <2>4
<1>24. CASE UNCHANGED vars
  BY <1>24 DEF vars, TypeOK, RowsInv, ClaimsInv, TasksInv
<1> QED
  BY <1>1, <1>2, <1>3, <1>4, <1>5, <1>6, <1>7, <1>8, <1>9, <1>10, <1>11, <1>12, <1>13, <1>14, <1>15, <1>16, <1>17, <1>18, <1>19, <1>20, <1>21, <1>22, <1>23, <1>24
     DEF Next, Producer, RunLoop, RunTask, Process

\* Type correctness of every behaviour.
THEOREM TypeCorrect == Spec => []TypeOK
<1>1. Spec => []LockInv
  BY LockInit, LockNext, PTL DEF Spec
<1>2. LockInv => TypeOK
  BY DEF LockInv, OwnInv
<1> QED BY <1>1, <1>2, PTL

\* No job is ever executed by two tasks at once, and a task's row stays locked under
\* the claim that spawned it.
THEOREM Exclusive == Spec => []ExclusiveExecution
<1>1. Spec => []LockInv
  BY LockInit, LockNext, PTL DEF Spec
<1>2. LockInv => ExclusiveExecution
  BY DEF LockInv, OwnInv, TasksInv, ExclusiveExecution
<1> QED BY <1>1, <1>2, PTL
-----------------------------------------------------------------------------
\* The counting invariant holds initially.
LEMMA CountInit == Init => CountInv
BY DEF Init, CountInv, JobCount, HandOut, TaskCount, Waiting, Revivals, NoRow, NoLock

\* Every step keeps the counting invariant.
LEMMA CountNext == LockInv /\ CountInv /\ [Next]_vars => CountInv'
<1> SUFFICES ASSUME LockInv, CountInv, [Next]_vars PROVE CountInv'
  OBVIOUS
<1> USE DEF LockInv, OwnInv, store, loop, proc, names, hist
<1>a. /\ \A j \in Jobs : /\ rows[j].attempts \in Nat /\ rows[j].maxRetries \in Nat
                         /\ runs[j] \in Nat /\ wins[j] \in Nat
      /\ \A t \in tasks : t.job \in Jobs
      /\ Revivals \in Nat
  BY DEF TypeOK, Row, Task, Revivals
<1>b. restarts' = restarts => Revivals' = Revivals
  BY DEF Revivals
<1>1. ASSUME UNCHANGED <<runs, wins, restarts>>,
             \A j \in Jobs : /\ rows'[j].status = rows[j].status
                             /\ rows'[j].attempts = rows[j].attempts
                             /\ rows'[j].maxRetries = rows[j].maxRetries,
             \A w \in Workers, j \in Jobs : HandOut(w, j)' => HandOut(w, j),
             \A u \in tasks' : \E t \in tasks :
                 u.job = t.job /\ (u.pc = "complete" <=> t.pc = "complete")
      PROVE  CountInv'
  <2>1. \A j \in Jobs : JobCount(j)'
    BY <1>1, <1>b DEF CountInv, JobCount, Waiting
  <2>2. \A w \in Workers, j \in Jobs : HandOut(w, j)' => runs'[j] <= rows'[j].attempts + Revivals'
    BY <1>1, <1>b DEF CountInv
  <2>3. ASSUME NEW u \in tasks' PROVE TaskCount(u)'
    <3> PICK t \in tasks : u.job = t.job /\ (u.pc = "complete" <=> t.pc = "complete")
      BY <1>1
    <3>1. t.job \in Jobs /\ TaskCount(t)
      BY <1>a DEF CountInv
    <3> QED BY <1>1, <3>1 DEF TaskCount
  <2> QED BY <2>1, <2>2, <2>3 DEF CountInv
<1>2. ASSUME NEW j \in Jobs, NEW row \in Row, rows[j] = NoRow,
             rows' = [rows EXCEPT ![j] = row], row.status \in {"pending", "scheduled"},
             row.attempts = 0, row.lockedBy = NoLock,
             UNCHANGED <<wpc, wid, batch, past, restarts, tasks, runs, wins>>
      PROVE  CountInv'
  <2>1. \A k \in Jobs : rows'[k] = IF k = j THEN row ELSE rows[k]
    BY <1>2 DEF TypeOK
  <2>2. runs[j] = 0 /\ wins[j] = 0
    <3>1. runs[j] = 0 /\ wins[j] + rows[j].attempts <= runs[j]
      BY <1>2 DEF CountInv, JobCount, NoRow
    <3> QED BY <1>a, <3>1
  <2>3. \A t \in tasks : t.job # j
    BY <1>2 DEF TasksInv, NoRow
  <2>4. \A k \in Jobs : JobCount(k)'
    <3>1. row.maxRetries \in Nat
      BY DEF Row
    <3>2. JobCount(j)'
      BY <1>2, <1>a, <1>b, <2>1, <2>2, <3>1 DEF JobCount, Waiting
    <3>3. ASSUME NEW k \in Jobs, k # j PROVE JobCount(k)'
      BY <1>2, <1>b, <2>1, <3>3 DEF CountInv, JobCount, Waiting
    <3> QED BY <3>2, <3>3
  <2>5. \A w \in Workers, k \in Jobs : HandOut(w, k)' => HandOut(w, k)
    BY <1>2, <2>1 DEF HandOut, NoRow
  <2>6. \A w \in Workers, k \in Jobs : HandOut(w, k)' => runs'[k] <= rows'[k].attempts + Revivals'
    BY <1>2, <1>a, <1>b, <2>1, <2>2, <2>5 DEF CountInv
  <2>7. \A t \in tasks' : TaskCount(t)'
    BY <1>2, <1>a, <2>1, <2>3 DEF CountInv, TaskCount
  <2> QED BY <2>4, <2>6, <2>7 DEF CountInv
<1>3. ASSUME NEW j \in Jobs, Producer(j) PROVE CountInv'
  <2>1. CASE Push(j)
    <3> PICK m \in Retries, d \in Delays : rows' = [rows EXCEPT ![j] = PushRow(m, d)]
      BY <2>1 DEF Push
    <3>1. /\ PushRow(m, d) \in Row /\ PushRow(m, d).status \in {"pending", "scheduled"}
          /\ PushRow(m, d).attempts = 0 /\ PushRow(m, d).lockedBy = NoLock
      BY NewRows, WorkerAssumption
    <3> QED BY <1>2, <2>1, <3>1 DEF Push, Fresh
  <2>2. CASE OutboxCommit(j)
    BY <1>2, <2>2 DEF OutboxCommit, RowsInv, TypeOK
  <2>3. CASE OutboxInsert(j) \/ OutboxRollback(j)
    BY <1>1, <2>3 DEF OutboxInsert, OutboxRollback, HandOut
  <2> QED BY <1>3, <2>1, <2>2, <2>3 DEF Producer
<1>4. ASSUME Tick \/ UNCHANGED vars PROVE CountInv'
  <2>1. /\ UNCHANGED <<wpc, wid, batch, past, restarts, tasks, runs, wins>>
        /\ \A j \in Jobs : /\ rows'[j].status = rows[j].status
                           /\ rows'[j].attempts = rows[j].attempts
                           /\ rows'[j].maxRetries = rows[j].maxRetries
                           /\ rows'[j].lockedBy = rows[j].lockedBy
    BY <1>4, AgedRows DEF Tick, vars, TypeOK
  <2> QED BY <1>1, <2>1 DEF HandOut
<1>5. ASSUME NEW w \in Workers, ClaimUpdate(w) PROVE CountInv'
  <2> PICK id \in Ids, S \in SUBSET Jobs : ClaimedBy(w, id, S)
    BY <1>5, ClaimEffect
  <2>1. /\ wpc[w] = "claim" /\ wpc' = [wpc EXCEPT ![w] = "reply"]
        /\ UNCHANGED <<tasks, runs, wins, restarts>>
    BY <1>5 DEF ClaimUpdate, Issue
  <2>2. ASSUME NEW j \in Jobs
        PROVE  /\ rows'[j].attempts = rows[j].attempts /\ rows'[j].maxRetries = rows[j].maxRetries
               /\ j \in S => /\ Waiting(j)
                             /\ rows'[j].status = "running" /\ rows'[j].lockedBy = id
               /\ j \notin S => rows'[j] = rows[j]
    BY DEF ClaimedBy, Waiting
  <2>3. \A j \in Jobs : JobCount(j)'
    BY <1>a, <1>b, <2>1, <2>2 DEF CountInv, JobCount, Waiting
  <2>4. ASSUME NEW v \in Workers, NEW j \in Jobs, HandOut(v, j)', j \notin S
        PROVE  HandOut(v, j)
    <3>1. rows'[j] = rows[j]
      BY <2>2, <2>4
    <3>2. /\ wid'[v] = IF v = w THEN id ELSE wid[v]
          /\ batch'[v] = IF v = w THEN IF Sqlite THEN {} ELSE S ELSE batch[v]
          /\ wpc'[v] = IF v = w THEN "reply" ELSE wpc[v]
          /\ past'[v] \subseteq past[v]
      BY <2>1 DEF ClaimedBy, TypeOK
    <3>3. rows[j].lockedBy = id => Recurring /\ id \in past[w]
      BY DEF ClaimedBy
    <3> QED BY <2>1, <2>4, <3>1, <3>2, <3>3 DEF HandOut
  <2>5. \A v \in Workers, j \in Jobs : HandOut(v, j)' => runs'[j] <= rows'[j].attempts + Revivals'
    BY <1>b, <2>1, <2>2, <2>4 DEF CountInv, JobCount
  <2>6. \A t \in tasks' : TaskCount(t)'
    BY <1>a, <2>1, <2>2 DEF CountInv, TaskCount
  <2> QED BY <2>3, <2>5, <2>6 DEF CountInv
<1>6. ASSUME NEW w \in Workers,
             ClaimReply(w) \/ ClaimError(w) \/ SpawnDone(w) \/ Wake(w) \/ Stop(w) \/ Signal(w)
      PROVE  CountInv'
  <2>1. UNCHANGED <<rows, past, restarts, tasks, runs, wins>>
    BY <1>6 DEF ClaimReply, ClaimError, SpawnDone, Wake, Stop, Signal
  <2>2. ASSUME NEW v \in Workers, NEW j \in Jobs, HandOut(v, j)' PROVE HandOut(v, j)
    BY <1>6, <2>1, <2>2 DEF ClaimReply, LockedRows, ClaimError, SpawnDone, Wake, Stop, Signal,
                            HandOut, TypeOK
  <2> QED BY <1>1, <2>1, <2>2
<1>7. ASSUME NEW w \in Workers, Spawn(w) PROVE CountInv'
  <2> PICK j \in batch[w] :
        /\ batch' = [batch EXCEPT ![w] = @ \ {j}]
        /\ tasks' = tasks \cup {[worker |-> w, job |-> j, id |-> wid[w],
                                 pc |-> "run", attempts |-> 0, lock |-> NoLock]}
        /\ runs' = [runs EXCEPT ![j] = @ + 1]
    BY <1>7 DEF Spawn
  <2>1. /\ UNCHANGED <<rows, wpc, wid, past, restarts, wins>>
        /\ wpc[w] = "spawn" /\ j \in Jobs
        /\ \A k \in Jobs : runs'[k] = IF k = j THEN runs[j] + 1 ELSE runs[k]
    BY <1>7 DEF Spawn, TypeOK
  <2>2. runs[j] <= rows[j].attempts + Revivals /\ HandOut(w, j)
    BY <2>1 DEF CountInv, HandOut
  <2>3. rows[j].status = "running" /\ rows[j].lockedBy = wid[w] /\ wid[w] # NoLock
        /\ wid[w] \in issued[w]
    BY <2>1 DEF ClaimsInv, NamesInv
  <2>4. \A k \in Jobs : JobCount(k)'
    BY <1>a, <1>b, <2>1, <2>2, <2>3 DEF CountInv, JobCount, Waiting
  <2>5. ASSUME NEW v \in Workers, NEW k \in Jobs, HandOut(v, k)' PROVE HandOut(v, k) /\ k # j
    <3>1. HandOut(v, k)
      BY <2>1, <2>5 DEF HandOut, TypeOK
    <3>2. ASSUME k = j PROVE FALSE
      <4>1. j \notin batch'[v]
        BY <2>3 DEF ClaimsInv, TypeOK
      <4>2. wpc[v] = "reply" => wid[v] # rows[j].lockedBy
        BY <2>1, <2>3 DEF ClaimsInv
      <4>3. rows[j].lockedBy \notin past[v]
        BY <2>3 DEF NamesInv
      <4> QED BY <2>1, <2>5, <3>2, <4>1, <4>2, <4>3 DEF HandOut
    <3> QED BY <3>1, <3>2
  <2>6. \A v \in Workers, k \in Jobs : HandOut(v, k)' => runs'[k] <= rows'[k].attempts + Revivals'
    BY <1>b, <2>1, <2>5 DEF CountInv
  <2>7. ASSUME NEW u \in tasks' PROVE TaskCount(u)'
    <3>1. CASE u \in tasks
      <4>1. u.job \in Jobs /\ TaskCount(u)
        BY <1>a, <3>1 DEF CountInv
      <4> QED BY <1>a, <2>1, <4>1 DEF TaskCount
    <3>2. CASE u.job = j /\ u.pc = "run"
      <4>1. wins[j] + rows[j].attempts <= runs[j]
        BY <2>1 DEF CountInv, JobCount
      <4> QED BY <1>a, <2>1, <3>2, <4>1 DEF TaskCount
    <3> QED BY <3>1, <3>2
  <2> QED BY <2>4, <2>6, <2>7 DEF CountInv
<1>8. ASSUME NEW w \in Workers, Crash(w) \/ Exit(w) PROVE CountInv'
  <2>1. /\ wpc' = [wpc EXCEPT ![w] = "dead"] /\ wid' = [wid EXCEPT ![w] = NoLock]
        /\ batch' = [batch EXCEPT ![w] = {}] /\ tasks' = {t \in tasks : t.worker # w}
        /\ past' = [past EXCEPT ![w] = (@ \cup issued[w]) \cap {rows[j].lockedBy : j \in Jobs}]
        /\ UNCHANGED <<rows, restarts, runs, wins>>
    BY <1>8 DEF Crash, Exit, Die
  <2>2. ASSUME NEW v \in Workers, NEW j \in Jobs, HandOut(v, j)' PROVE HandOut(v, j)
    BY <2>1, <2>2 DEF HandOut, TypeOK
  <2> QED BY <1>1, <2>1, <2>2
<1>9. ASSUME NEW w \in Workers, Restart(w) PROVE CountInv'
  <2>1. /\ wpc[w] = "dead" /\ wpc' = [wpc EXCEPT ![w] = "claim"]
        /\ restarts' = restarts + 1 /\ restarts \in Nat
        /\ UNCHANGED <<rows, wid, batch, past, tasks, runs, wins>>
    BY <1>9 DEF Restart, TypeOK
  <2>2. /\ Revivals' >= Revivals /\ Revivals' \in Nat
        /\ Sqlite /\ Recurring => Revivals' = Revivals + 1
    BY <2>1 DEF Revivals
  <2>3. \A j \in Jobs : JobCount(j)'
    BY <1>a, <2>1, <2>2 DEF CountInv, JobCount, Waiting
  <2>4. ASSUME NEW v \in Workers, NEW j \in Jobs, HandOut(v, j)'
        PROVE  runs[j] <= rows[j].attempts + Revivals'
    <3>1. CASE HandOut(v, j)
      <4>1. runs[j] <= rows[j].attempts + Revivals
        BY <3>1 DEF CountInv
      <4> QED BY <1>a, <2>2, <4>1
    <3>2. CASE ~HandOut(v, j)
      <4>1. Sqlite /\ Recurring /\ rows[j].lockedBy \in past[v] /\ v = w
        BY <2>1, <2>4, <3>2 DEF HandOut, TypeOK
      <4>2. rows[j].lockedBy # NoLock
        BY <4>1, WorkerAssumption DEF TypeOK
      <4>3. rows[j].status = "running"
        BY <4>2 DEF RowsInv
      <4>4. runs[j] <= rows[j].attempts + 1 + Revivals
        BY <4>3 DEF CountInv, JobCount
      <4> QED BY <1>a, <2>2, <4>1, <4>4
    <3> QED BY <3>1, <3>2
  <2>5. \A t \in tasks' : TaskCount(t)'
    BY <2>1 DEF CountInv, TaskCount
  <2> QED BY <2>1, <2>3, <2>4, <2>5 DEF CountInv
<1>10. ASSUME NEW t \in tasks, DispatchOk(t) PROVE CountInv'
  <2> DEFINE new == [t EXCEPT !.pc = "complete"]
  <2>1. new.job = t.job /\ new.pc = "complete" /\ t.job \in Jobs /\ t.pc = "run"
        /\ rows[t.job].status = "running"
    BY <1>10 DEF DispatchOk, TypeOK, Task, TasksInv
  <2>2. /\ tasks' = (tasks \ {t}) \cup {new}
        /\ UNCHANGED <<rows, wpc, wid, batch, past, restarts, runs>>
        /\ \A j \in Jobs : wins'[j] = IF j = t.job THEN wins[j] + 1 ELSE wins[j]
    BY <1>10 DEF DispatchOk, Returned, TypeOK
  <2> HIDE DEF new
  <2>3. wins[t.job] + rows[t.job].attempts < runs[t.job]
    BY <2>1 DEF CountInv, TaskCount
  <2>4. \A j \in Jobs : JobCount(j)'
    BY <1>a, <1>b, <2>1, <2>2, <2>3 DEF CountInv, JobCount, Waiting
  <2>5. \A w \in Workers, j \in Jobs : HandOut(w, j)' => runs'[j] <= rows'[j].attempts + Revivals'
    BY <1>b, <2>2 DEF CountInv, HandOut
  <2>6. ASSUME NEW u \in tasks' PROVE TaskCount(u)'
    <3>1. CASE u = new
      BY <1>a, <2>1, <2>2, <3>1 DEF TaskCount
    <3>2. CASE u \in tasks \ {t}
      <4>1. u.job # t.job /\ u.job \in Jobs
        BY <1>a, <3>2 DEF TasksInv
      <4> QED BY <2>2, <3>2, <4>1 DEF CountInv, TaskCount
    <3> QED BY <2>2, <3>1, <3>2
  <2> QED BY <2>4, <2>5, <2>6 DEF CountInv
<1>11. ASSUME NEW t \in tasks, DispatchErr(t) \/ DispatchPanic(t) \/ FailSelect(t) \/ StoreError(t)
       PROVE  CountInv'
  <2>1. UNCHANGED <<rows, wpc, wid, batch, past, restarts, runs, wins>>
    BY <1>11 DEF DispatchErr, DispatchPanic, FailSelect, StoreError, Finish
  <2>2. ASSUME NEW u \in tasks'
        PROVE  \E v \in tasks : u.job = v.job /\ (u.pc = "complete" <=> v.pc = "complete")
    <3>1. CASE u \in tasks
      BY <3>1
    <3>2. CASE u \notin tasks
      <4>1. \/ t.pc = "run" /\ u = [t EXCEPT !.pc = "failSelect"]
            \/ /\ t.pc = "failSelect"
               /\ u = [t EXCEPT !.pc = "failUpdate", !.attempts = rows[t.job].attempts,
                                !.lock = rows[t.job].lockedBy]
        BY <1>11, <2>2, <3>2 DEF DispatchErr, DispatchPanic, FailSelect, StoreError, Returned, Finish
      <4>2. t \in Task
        BY DEF TypeOK
      <4>3. u.job = t.job /\ u.pc # "complete" /\ t.pc # "complete"
        BY <4>1, <4>2 DEF Task
      <4> QED BY <4>3
    <3> QED BY <3>1, <3>2
  <2> QED BY <1>1, <2>1, <2>2 DEF HandOut
<1>12. ASSUME NEW t \in tasks, Complete(t) PROVE CountInv'
  <2>1. /\ t.job \in Jobs /\ rows[t.job] \in Row /\ rows[t.job].status = "running"
        /\ rows[t.job].lockedBy = t.id /\ t.pc = "complete" /\ wins[t.job] >= 1
    BY <1>12 DEF Complete, TypeOK, Task, TasksInv, CountInv, TaskCount
  <2>2. /\ tasks' = tasks \ {t} /\ UNCHANGED <<wpc, wid, batch, past, restarts, runs, wins>>
        /\ \A j \in Jobs : rows'[j] = IF j = t.job THEN CompleteRow(rows[j]) ELSE rows[j]
    BY <1>12 DEF Complete, Finish, TypeOK
  <2>3. /\ CompleteRow(rows[t.job]).status = "completed"
        /\ CompleteRow(rows[t.job]).lockedBy = NoLock
        /\ CompleteRow(rows[t.job]).attempts = rows[t.job].attempts
        /\ CompleteRow(rows[t.job]).maxRetries = rows[t.job].maxRetries
    BY <2>1, CompletedRow
  <2>4. \A j \in Jobs : JobCount(j)'
    BY <1>a, <1>b, <2>1, <2>2, <2>3 DEF CountInv, JobCount, Waiting
  <2>5. \A w \in Workers : NoLock \notin past[w] /\ (wpc[w] = "reply" => wid[w] # NoLock)
    BY WorkerAssumption DEF ClaimsInv, TypeOK
  <2>6. \A w \in Workers, j \in Jobs : HandOut(w, j)' => runs'[j] <= rows'[j].attempts + Revivals'
    BY <1>a, <1>b, <2>2, <2>3, <2>5 DEF CountInv, HandOut
  <2>7. \A u \in tasks' : u.job # t.job /\ u.job \in Jobs
    BY <1>a, <2>2 DEF TasksInv
  <2>8. \A u \in tasks' : TaskCount(u)'
    BY <2>2, <2>7 DEF CountInv, TaskCount
  <2> QED BY <2>4, <2>6, <2>8 DEF CountInv
<1>13. ASSUME NEW t \in tasks, FailUpdate(t) PROVE CountInv'
  <2> PICK row \in Row : FailedTo(t, row)
    BY <1>13, FailEffect
  <2>1. /\ t.job \in Jobs /\ rows[t.job] \in Row /\ rows[t.job].status = "running"
        /\ t.pc # "complete"
    BY <1>13 DEF FailUpdate, TypeOK, Task, TasksInv
  <2>2. /\ tasks' = tasks \ {t} /\ UNCHANGED <<wpc, wid, batch, past, restarts, runs, wins>>
    BY <1>13 DEF FailUpdate, Finish
  <2>3. \A k \in Jobs : rows'[k] = IF k = t.job THEN row ELSE rows[k]
    BY <2>1 DEF FailedTo, TypeOK
  <2>4. /\ wins[t.job] + rows[t.job].attempts < runs[t.job]
        /\ runs[t.job] <= rows[t.job].attempts + 1 + Revivals
        /\ rows[t.job].attempts <= rows[t.job].maxRetries
    BY <2>1 DEF CountInv, JobCount, TaskCount
  <2>5. /\ row.lockedBy = NoLock /\ row.attempts = rows[t.job].attempts + 1
        /\ row.maxRetries = rows[t.job].maxRetries
        /\ row.status = IF row.attempts <= row.maxRetries THEN "pending" ELSE "failed"
    BY DEF FailedTo
  <2>6. \A j \in Jobs : JobCount(j)'
    <3>1. JobCount(t.job)'
      BY <1>a, <1>b, <2>1, <2>2, <2>3, <2>4, <2>5 DEF JobCount, Waiting
    <3>2. ASSUME NEW j \in Jobs, j # t.job PROVE JobCount(j)'
      BY <1>b, <2>2, <2>3, <3>2 DEF CountInv, JobCount, Waiting
    <3> QED BY <3>1, <3>2
  <2>7. \A w \in Workers : /\ NoLock \notin past[w] /\ (wpc[w] = "reply" => wid[w] # NoLock)
                           /\ t.job \notin batch[w]
    BY WorkerAssumption DEF ClaimsInv, TasksInv, TypeOK
  <2>8. \A w \in Workers, j \in Jobs : HandOut(w, j)' => runs'[j] <= rows'[j].attempts + Revivals'
    BY <1>a, <1>b, <2>2, <2>3, <2>5, <2>7 DEF CountInv, HandOut
  <2>9. \A u \in tasks' : u.job # t.job /\ u.job \in Jobs
    BY <1>a, <2>2 DEF TasksInv
  <2>10. \A u \in tasks' : TaskCount(u)'
    BY <2>2, <2>3, <2>9 DEF CountInv, TaskCount
  <2> QED BY <2>6, <2>8, <2>10 DEF CountInv
<1> QED
  BY <1>3, <1>4, <1>5, <1>6, <1>7, <1>8, <1>9, <1>10, <1>11, <1>12, <1>13
     DEF Next, RunLoop, RunTask, Process

\* The whole inductive invariant holds in every reachable state.
LEMMA Inductive == Spec => []IInv
<1>1. Init => IInv
  BY LockInit, CountInit DEF IInv
<1>2. IInv /\ [Next]_vars => IInv'
  BY LockNext, CountNext DEF IInv
<1> QED BY <1>1, <1>2, PTL DEF Spec

\* A job is handed out at most max_retries + 1 times and given up only after all of
\* them; only on SQLite where ids recur can each restart add one run.
THEOREM Budget == Spec => []RetryBudget
<1>1. IInv => RetryBudget
  <2> SUFFICES ASSUME IInv, NEW j \in Jobs
               PROVE  /\ rows[j].status = "absent" => runs[j] = 0
                      /\ rows[j].status # "absent" =>
                            /\ rows[j].attempts <= runs[j]
                            /\ runs[j] <= rows[j].maxRetries + 1 + Revivals
                      /\ rows[j].status = "failed" => rows[j].attempts = rows[j].maxRetries + 1
    BY DEF RetryBudget
  <2>1. /\ rows[j].status \in Status /\ rows[j].attempts \in Nat
        /\ rows[j].maxRetries \in Nat /\ runs[j] \in Nat /\ wins[j] \in Nat
        /\ Revivals \in Nat
    BY DEF IInv, LockInv, OwnInv, TypeOK, Row, Revivals
  <2> QED BY <2>1 DEF IInv, CountInv, JobCount, Waiting, Status
<1> QED BY <1>1, Inductive, PTL

\* A success is not repeated and the retry path never overtakes one, except for the
\* revivals; no attempt counts as both.
THEOREM OneSuccess == Spec => []SuccessAtMostOnce
<1>1. IInv => SuccessAtMostOnce
  <2> SUFFICES ASSUME IInv, NEW j \in Jobs
               PROVE  /\ wins[j] <= 1 + Revivals
                      /\ wins[j] + rows[j].attempts <= runs[j]
                      /\ rows[j].status = "completed" => wins[j] >= 1
                      /\ rows[j].status \in {"absent", "pending", "scheduled", "failed"} =>
                            wins[j] <= Revivals
    BY DEF SuccessAtMostOnce
  <2>1. /\ rows[j].status \in Status /\ rows[j].attempts \in Nat /\ runs[j] \in Nat
        /\ wins[j] \in Nat /\ Revivals \in Nat
    BY DEF IInv, LockInv, OwnInv, TypeOK, Row, Revivals
  <2> QED BY <2>1 DEF IInv, CountInv, JobCount, Waiting, Status
<1> QED BY <1>1, Inductive, PTL
-----------------------------------------------------------------------------
\* The refinement.

\* Every step is a step of JobLifecycle, or changes nothing a producer sees.
LEMMA LifecycleNext ==
    IInv /\ [Next]_vars => [Lifecycle!Next]_(Lifecycle!vars)
<1> SUFFICES ASSUME IInv, [Next]_vars
             PROVE  Lifecycle!Next \/ UNCHANGED Lifecycle!vars
  BY DEF Lifecycle!vars
<1> USE DEF IInv, LockInv, OwnInv, store, loop, proc, names, hist
<1>1. ASSUME NEW j \in Jobs, Push(j) \/ OutboxCommit(j) PROVE Lifecycle!Next
  <2>1. /\ rows[j] = NoRow
        /\ \E row \in Row : /\ rows' = [rows EXCEPT ![j] = row]
                            /\ row.status \in {"pending", "scheduled"}
                            /\ row.attempts = 0 /\ row.maxRetries \in Retries
    <3>1. CASE Push(j)
      <4> PICK m \in Retries, d \in Delays : rows' = [rows EXCEPT ![j] = PushRow(m, d)]
        BY <3>1 DEF Push
      <4>1. /\ PushRow(m, d) \in Row /\ PushRow(m, d).status \in {"pending", "scheduled"}
            /\ PushRow(m, d).attempts = 0 /\ PushRow(m, d).maxRetries = m
        BY NewRows, WorkerAssumption
      <4> QED BY <3>1, <4>1 DEF Push, Fresh
    <3>2. CASE OutboxCommit(j)
      BY <3>2 DEF OutboxCommit, RowsInv, TypeOK
    <3> QED BY <1>1, <3>1, <3>2
  <2> PICK row \in Row : /\ rows' = [rows EXCEPT ![j] = row]
                         /\ row.status \in {"pending", "scheduled"}
                         /\ row.attempts = 0 /\ row.maxRetries \in Retries
    BY <2>1
  <2>2. Phases[j] = "none" /\ Attempts[j] = 0
    BY <2>1 DEF Phases, PhaseOf, Attempts, NoRow
  <2>3. Phases' = [Phases EXCEPT ![j] = "queued"]
    BY DEF Phases, PhaseOf, TypeOK
  <2>4. Budgets' = [Budgets EXCEPT ![j] = row.maxRetries]
    BY DEF Budgets, TypeOK
  <2>5. UNCHANGED Attempts
    BY <2>1 DEF Attempts, NoRow, TypeOK
  <2> QED BY <2>2, <2>3, <2>4, <2>5 DEF Lifecycle!Next, Lifecycle!Enqueue
<1>2. ASSUME NEW w \in Workers, ClaimUpdate(w) PROVE Lifecycle!Next
  <2> PICK id \in Ids, S \in SUBSET Jobs : ClaimedBy(w, id, S)
    BY <1>2, ClaimEffect
  <2>1. \A j \in S : Phases[j] = "queued"
    BY DEF ClaimedBy, Phases, PhaseOf
  <2>2. Phases' = [j \in Jobs |-> IF j \in S THEN "running" ELSE Phases[j]]
    BY DEF ClaimedBy, Phases, PhaseOf
  <2>3. UNCHANGED <<Attempts, Budgets>>
    BY DEF ClaimedBy, Attempts, Budgets
  <2> QED BY <2>1, <2>2, <2>3 DEF Lifecycle!Next, Lifecycle!Start
<1>3. ASSUME NEW t \in tasks, Complete(t) PROVE Lifecycle!Next
  <2>1. t.job \in Jobs /\ rows[t.job] \in Row /\ rows[t.job].status = "running"
    BY DEF TypeOK, Task, TasksInv
  <2>2. rows' = [rows EXCEPT ![t.job] = CompleteRow(rows[t.job])]
    BY <1>3 DEF Complete
  <2>3. Phases[t.job] = "running" /\ Phases' = [Phases EXCEPT ![t.job] = "completed"]
    BY <2>1, <2>2, CompletedRow DEF Phases, PhaseOf, TypeOK
  <2>4. UNCHANGED <<Attempts, Budgets>>
    BY <2>1, <2>2, CompletedRow DEF Attempts, Budgets, TypeOK
  <2> QED BY <2>1, <2>3, <2>4 DEF Lifecycle!Next, Lifecycle!Succeed
<1>4. ASSUME NEW t \in tasks, FailUpdate(t) PROVE Lifecycle!Next
  <2> PICK row \in Row : FailedTo(t, row)
    BY <1>4, FailEffect
  <2>1. /\ t.job \in Jobs /\ rows[t.job] \in Row /\ rows[t.job].status = "running"
        /\ rows[t.job].attempts \in Nat /\ rows[t.job].maxRetries \in Nat
        /\ rows[t.job].attempts <= rows[t.job].maxRetries
    BY DEF TypeOK, Task, TasksInv, Row, CountInv, JobCount
  <2>2. /\ Phases[t.job] = "running"
        /\ Attempts[t.job] = rows[t.job].attempts
        /\ Budgets[t.job] = rows[t.job].maxRetries
    BY <2>1 DEF Phases, PhaseOf, Attempts, Budgets
  <2>3. Phases' = [Phases EXCEPT ![t.job] =
                        IF row.attempts <= row.maxRetries THEN "queued" ELSE "failed"]
    BY <2>1 DEF FailedTo, Phases, PhaseOf, TypeOK
  <2>4. Attempts' = [Attempts EXCEPT ![t.job] = @ + 1]
    BY <2>1, <2>2 DEF FailedTo, Attempts, TypeOK
  <2>5. UNCHANGED Budgets
    BY <2>1 DEF FailedTo, Budgets, TypeOK
  <2>6. CASE row.attempts <= row.maxRetries
    <3>1. Attempts[t.job] < Budgets[t.job]
      BY <2>1, <2>2, <2>6 DEF FailedTo
    <3> QED
      BY <2>1, <2>2, <2>3, <2>4, <2>5, <2>6, <3>1 DEF Lifecycle!Next, Lifecycle!Retry
  <2>7. CASE ~(row.attempts <= row.maxRetries)
    <3>1. Attempts[t.job] = Budgets[t.job]
      BY <2>1, <2>2, <2>7 DEF FailedTo
    <3> QED
      BY <2>1, <2>2, <2>3, <2>4, <2>5, <2>7, <3>1 DEF Lifecycle!Next, Lifecycle!GiveUp
  <2> QED BY <2>6, <2>7
<1>5. ASSUME Tick PROVE UNCHANGED Lifecycle!vars
  BY <1>5, AgedRows DEF Tick, TypeOK, Lifecycle!vars, Phases, Attempts, Budgets
<1>6. ASSUME UNCHANGED rows PROVE UNCHANGED Lifecycle!vars
  BY <1>6 DEF Lifecycle!vars, Phases, Attempts, Budgets
<1>7. ASSUME NEW j \in Jobs, OutboxInsert(j) \/ OutboxRollback(j) PROVE UNCHANGED rows
  BY <1>7 DEF OutboxInsert, OutboxRollback
<1>8. ASSUME NEW w \in Workers,
             \/ ClaimReply(w) \/ ClaimError(w) \/ Spawn(w) \/ SpawnDone(w) \/ Wake(w)
             \/ Stop(w) \/ Process(w)
      PROVE  UNCHANGED rows
  BY <1>8 DEF ClaimReply, ClaimError, Spawn, SpawnDone, Wake, Stop, Process, Signal,
              Crash, Exit, Die, Restart
<1>9. ASSUME NEW t \in tasks,
             \/ DispatchOk(t) \/ DispatchErr(t) \/ DispatchPanic(t) \/ FailSelect(t)
             \/ StoreError(t)
      PROVE  UNCHANGED rows
  BY <1>9 DEF DispatchOk, DispatchErr, DispatchPanic, FailSelect, StoreError
<1>10. ASSUME UNCHANGED vars PROVE UNCHANGED rows
  BY <1>10 DEF vars
<1> QED
  BY <1>1, <1>2, <1>3, <1>4, <1>5, <1>6, <1>7, <1>8, <1>9, <1>10
     DEF Next, Producer, RunLoop, RunTask

\* The workers, claims, retries and faults of JobWorker implement JobLifecycle.
THEOREM Refinement == Spec => ImplementsLifecycle
<1>1. Init => Lifecycle!Init
  BY DEF Init, Lifecycle!Init, Phases, PhaseOf, Attempts, Budgets, NoRow
<1> QED
  BY <1>1, LifecycleNext, Inductive, PTL DEF Spec, ImplementsLifecycle, Lifecycle!Spec
-----------------------------------------------------------------------------
\* The permits.

Own(T, w) == {t \in T : t.worker = w}

\* Every task holds one permit of its worker; a dead process has neither.
PermitsInv ==
    \A w \in Workers :
        /\ IsFiniteSet(Own(tasks, w))
        /\ wpc[w] = "dead" => Own(tasks, w) = {}
        /\ wpc[w] # "dead" => permits[w] + Cardinality(Own(tasks, w)) = Concurrency

\* A permit is taken for one new task.
LEMMA SpawnTakes ==
    ASSUME LockInv, PermitsInv, NEW w \in Workers, Spawn(w) PROVE PermitsInv'
<1>1. PICK j \in batch[w] :
           tasks' = tasks \cup {[worker |-> w, job |-> j, id |-> wid[w],
                                 pc |-> "run", attempts |-> 0, lock |-> NoLock]}
      BY DEF Spawn
<1>2. PICK u : /\ u.worker = w /\ u.job = j /\ tasks' = tasks \cup {u}
      BY <1>1
<1>3. u \notin tasks
      BY <1>2 DEF LockInv, OwnInv, TasksInv
<1>4. /\ wpc' = wpc /\ wpc[w] # "dead" /\ permits \in [Workers -> Nat] /\ permits[w] > 0
      /\ permits' = [permits EXCEPT ![w] = @ - 1]
      BY DEF Spawn, LockInv, OwnInv, TypeOK
<1> SUFFICES ASSUME NEW v \in Workers
             PROVE  /\ IsFiniteSet(Own(tasks', v))
                    /\ wpc[v] = "dead" => Own(tasks', v) = {}
                    /\ wpc[v] # "dead" => permits'[v] + Cardinality(Own(tasks', v)) = Concurrency
    BY <1>4 DEF PermitsInv
<1>5. CASE v = w
  <2>1. Own(tasks', v) = Own(tasks, v) \cup {u} /\ u \notin Own(tasks, v)
        BY <1>2, <1>3, <1>5 DEF Own
  <2>2. IsFiniteSet(Own(tasks, v)) /\ permits[v] + Cardinality(Own(tasks, v)) = Concurrency
        BY <1>4, <1>5 DEF PermitsInv
  <2>3. Cardinality(Own(tasks, v)) \in Nat
        BY <2>2, FS_CardinalityType
  <2>4. /\ IsFiniteSet(Own(tasks, v) \cup {u})
        /\ Cardinality(Own(tasks, v) \cup {u}) = Cardinality(Own(tasks, v)) + 1
        BY <2>1, <2>2, FS_AddElement
  <2>5. permits'[v] = permits[v] - 1 /\ permits[v] \in Nat
        BY <1>4, <1>5
  <2>6. QED BY <2>1, <2>2, <2>3, <2>4, <2>5, <1>4, <1>5
<1>6. CASE v # w
  <2>1. Own(tasks', v) = Own(tasks, v) /\ permits'[v] = permits[v]
        BY <1>2, <1>4, <1>6 DEF Own
  <2>2. QED BY <2>1 DEF PermitsInv
<1>7. QED BY <1>5, <1>6

\* A task that goes on keeps its permit.
LEMMA TaskKeepsPermit ==
    ASSUME LockInv, PermitsInv, NEW t \in tasks, NEW u, u.worker = t.worker, u.job = t.job,
           u # t, tasks' = (tasks \ {t}) \cup {u}, permits' = permits, wpc' = wpc
    PROVE  PermitsInv'
<1>1. u \notin tasks
      BY DEF LockInv, OwnInv, TasksInv
<1> SUFFICES ASSUME NEW v \in Workers
             PROVE  /\ IsFiniteSet(Own(tasks', v))
                    /\ Cardinality(Own(tasks', v)) = Cardinality(Own(tasks, v))
                    /\ Own(tasks, v) = {} => Own(tasks', v) = {}
    BY DEF PermitsInv
<1> DEFINE R == Own(tasks, v) \ {t}
<1>2. IsFiniteSet(Own(tasks, v))
      BY DEF PermitsInv
<1>3. CASE t.worker = v
  <2>1. t \in Own(tasks, v) /\ Own(tasks', v) = R \cup {u} /\ u \notin R
        BY <1>1, <1>3 DEF Own
  <2>2. IsFiniteSet(R) /\ Cardinality(R) = Cardinality(Own(tasks, v)) - 1
        BY <1>2, <2>1, FS_RemoveElement
  <2>3. Cardinality(Own(tasks, v)) \in Nat
        BY <1>2, FS_CardinalityType
  <2> HIDE DEF R
  <2>4. IsFiniteSet(R \cup {u}) /\ Cardinality(R \cup {u}) = Cardinality(R) + 1
        BY <2>1, <2>2, FS_AddElement
  <2>5. Cardinality(R \cup {u}) = Cardinality(Own(tasks, v))
        BY <2>2, <2>3, <2>4
  <2>6. Own(tasks', v) = R \cup {u} /\ Own(tasks, v) # {}
        BY <2>1
  <2>7. QED BY <2>4, <2>5, <2>6
<1>4. CASE t.worker # v
  <2>1. Own(tasks', v) = Own(tasks, v)
        BY <1>4 DEF Own
  <2>2. QED BY <2>1, <1>2
<1>5. QED BY <1>3, <1>4

\* A task that ends returns it.
LEMMA FinishReturns ==
    ASSUME LockInv, PermitsInv, NEW t \in tasks, Finish(t), wpc' = wpc PROVE PermitsInv'
<1>1. /\ tasks' = tasks \ {t} /\ permits' = [permits EXCEPT ![t.worker] = @ + 1]
      /\ permits \in [Workers -> Nat] /\ t.worker \in Workers
      BY DEF Finish, LockInv, OwnInv, TypeOK, Task
<1> SUFFICES ASSUME NEW v \in Workers
             PROVE  /\ IsFiniteSet(Own(tasks', v))
                    /\ wpc[v] = "dead" => Own(tasks', v) = {}
                    /\ wpc[v] # "dead" => permits'[v] + Cardinality(Own(tasks', v)) = Concurrency
    BY DEF PermitsInv
<1>2. CASE v = t.worker
  <2>1. t \in Own(tasks, v) /\ Own(tasks', v) = Own(tasks, v) \ {t}
        BY <1>1, <1>2 DEF Own
  <2>2. /\ IsFiniteSet(Own(tasks, v)) /\ wpc[v] # "dead"
        /\ permits[v] + Cardinality(Own(tasks, v)) = Concurrency
        BY <2>1 DEF PermitsInv
  <2>3. Cardinality(Own(tasks, v)) \in Nat
        BY <2>2, FS_CardinalityType
  <2>4. /\ IsFiniteSet(Own(tasks, v) \ {t})
        /\ Cardinality(Own(tasks, v) \ {t}) = Cardinality(Own(tasks, v)) - 1
        BY <2>1, <2>2, FS_RemoveElement
  <2>5. permits'[v] = permits[v] + 1 /\ permits[v] \in Nat
        BY <1>1, <1>2
  <2>6. QED BY <2>1, <2>2, <2>3, <2>4, <2>5
<1>3. CASE v # t.worker
  <2>1. Own(tasks', v) = Own(tasks, v) /\ permits'[v] = permits[v]
        BY <1>1, <1>3 DEF Own
  <2>2. QED BY <2>1 DEF PermitsInv
<1>4. QED BY <1>2, <1>3

\* Every step keeps the balance.
LEMMA PermitsNext == LockInv /\ PermitsInv /\ [Next]_vars => PermitsInv'
<1> SUFFICES ASSUME LockInv, PermitsInv, [Next]_vars PROVE PermitsInv'
    OBVIOUS
<1> USE DEF store, loop, proc, names, hist
<1>1. ASSUME permits' = permits, tasks' = tasks,
             \A w \in Workers : wpc'[w] = "dead" <=> wpc[w] = "dead"
      PROVE  PermitsInv'
      BY <1>1 DEF PermitsInv, Own
<1>2. ASSUME NEW j \in Jobs, Producer(j) PROVE PermitsInv'
      BY <1>1, <1>2 DEF Producer, Push, OutboxInsert, OutboxCommit, OutboxRollback
<1>3. ASSUME Tick \/ UNCHANGED vars PROVE PermitsInv'
      BY <1>1, <1>3 DEF Tick, vars
<1>4. ASSUME NEW w \in Workers,
             \/ ClaimUpdate(w) \/ ClaimReply(w) \/ ClaimError(w) \/ SpawnDone(w)
             \/ Wake(w) \/ Stop(w) \/ Signal(w)
      PROVE  PermitsInv'
  <2>1. permits' = permits /\ tasks' = tasks
        BY <1>4 DEF ClaimUpdate, ClaimReply, ClaimError, SpawnDone, Wake, Stop, Signal
  <2>2. \/ wpc' = wpc
        \/ \E at \in WorkerPc \ {"dead"} : wpc[w] # "dead" /\ wpc' = [wpc EXCEPT ![w] = at]
        BY <1>4 DEF ClaimUpdate, ClaimReply, ClaimError, SpawnDone, Wake, Stop, Signal, WorkerPc
  <2>3. \A v \in Workers : wpc'[v] = "dead" <=> wpc[v] = "dead"
        BY <2>2 DEF LockInv, OwnInv, TypeOK
  <2>4. QED BY <1>1, <2>1, <2>3
<1>5. ASSUME NEW w \in Workers, Crash(w) \/ Exit(w) PROVE PermitsInv'
  <2>1. /\ wpc' = [wpc EXCEPT ![w] = "dead"] /\ permits' = permits
        /\ tasks' = {t \in tasks : t.worker # w}
        BY <1>5 DEF Crash, Exit, Die
  <2> SUFFICES ASSUME NEW v \in Workers
               PROVE  /\ IsFiniteSet(Own(tasks', v))
                      /\ wpc'[v] = "dead" => Own(tasks', v) = {}
                      /\ wpc'[v] # "dead" => permits[v] + Cardinality(Own(tasks', v)) = Concurrency
      BY <2>1 DEF PermitsInv
  <2>2. CASE v = w
    <3>1. Own(tasks', v) = {}
          BY <2>1, <2>2 DEF Own
    <3>2. wpc'[v] = "dead"
          BY <2>1, <2>2 DEF LockInv, OwnInv, TypeOK
    <3>3. QED BY <3>1, <3>2, FS_EmptySet
  <2>3. CASE v # w
    <3>1. Own(tasks', v) = Own(tasks, v) /\ wpc'[v] = wpc[v]
          BY <2>1, <2>3 DEF Own, LockInv, OwnInv, TypeOK
    <3>2. QED BY <3>1 DEF PermitsInv
  <2>4. QED BY <2>2, <2>3
<1>6. ASSUME NEW w \in Workers, Restart(w) PROVE PermitsInv'
  <2>1. /\ wpc[w] = "dead" /\ wpc' = [wpc EXCEPT ![w] = "claim"] /\ tasks' = tasks
        /\ permits' = [permits EXCEPT ![w] = Concurrency]
        /\ wpc \in [Workers -> WorkerPc] /\ permits \in [Workers -> Nat]
        BY <1>6 DEF Restart, LockInv, OwnInv, TypeOK
  <2> SUFFICES ASSUME NEW v \in Workers
               PROVE  /\ IsFiniteSet(Own(tasks, v))
                      /\ wpc'[v] = "dead" => Own(tasks, v) = {}
                      /\ wpc'[v] # "dead" => permits'[v] + Cardinality(Own(tasks, v)) = Concurrency
      BY <2>1 DEF PermitsInv, Own
  <2>2. CASE v = w
    <3>1. Own(tasks, v) = {} /\ permits'[v] = Concurrency
          BY <2>1, <2>2 DEF PermitsInv
    <3>2. Cardinality({}) = 0 /\ IsFiniteSet({}) /\ Concurrency \in Nat
          BY FS_EmptySet, WorkerAssumption
    <3>3. QED BY <3>1, <3>2
  <2>3. CASE v # w
        BY <2>1, <2>3 DEF PermitsInv
  <2>4. QED BY <2>2, <2>3
<1>7. ASSUME NEW w \in Workers, Spawn(w) PROVE PermitsInv'
      BY <1>7, SpawnTakes
<1>8. ASSUME NEW t \in tasks, NEW at, Returned(t, at), at # t.pc,
             permits' = permits, wpc' = wpc
      PROVE  PermitsInv'
  <2>1. PICK u : u = [t EXCEPT !.pc = at]
        OBVIOUS
  <2>2. t \in Task /\ tasks' = (tasks \ {t}) \cup {u}
        BY <1>8, <2>1 DEF Returned, LockInv, OwnInv, TypeOK
  <2>3. u.worker = t.worker /\ u.job = t.job /\ u.pc = at
        BY <2>1, <2>2 DEF Task
  <2>4. QED BY <1>8, <2>2, <2>3, TaskKeepsPermit
<1>9. ASSUME NEW t \in tasks, DispatchOk(t) \/ DispatchErr(t) PROVE PermitsInv'
      BY <1>8, <1>9 DEF DispatchOk, DispatchErr
<1>10. ASSUME NEW t \in tasks,
              DispatchPanic(t) \/ Complete(t) \/ FailUpdate(t) \/ StoreError(t)
       PROVE  PermitsInv'
  <2>1. Finish(t) /\ wpc' = wpc
        BY <1>10 DEF DispatchPanic, Complete, FailUpdate, StoreError
  <2>2. QED BY <2>1, FinishReturns
<1>11. ASSUME NEW t \in tasks, FailSelect(t) PROVE PermitsInv'
  <2>1. CASE rows[t.job].status = "running"
    <3>1. PICK u : u = [t EXCEPT !.pc = "failUpdate", !.attempts = rows[t.job].attempts,
                                 !.lock = rows[t.job].lockedBy]
          OBVIOUS
    <3>2. /\ t \in Task /\ t.pc = "failSelect" /\ tasks' = (tasks \ {t}) \cup {u}
          /\ permits' = permits /\ wpc' = wpc
          BY <1>11, <2>1, <3>1 DEF FailSelect, LockInv, OwnInv, TypeOK
    <3>3. u.worker = t.worker /\ u.job = t.job /\ u.pc = "failUpdate"
          BY <3>1, <3>2 DEF Task
    <3>4. QED BY <3>2, <3>3, TaskKeepsPermit
  <2>2. CASE rows[t.job].status # "running"
        BY <1>11, <2>2, FinishReturns DEF FailSelect
  <2>3. QED BY <2>1, <2>2
<1>12. QED
       BY <1>2, <1>3, <1>4, <1>5, <1>6, <1>7, <1>9, <1>10, <1>11
          DEF Next, Producer, RunLoop, RunTask, Process

\* A live worker's free permits and its tasks add up to its concurrency.
THEOREM Permits == Spec => []PermitsBalance
<1>1. Init => PermitsInv
  <2> SUFFICES ASSUME Init, NEW w \in Workers
               PROVE  /\ IsFiniteSet(Own(tasks, w)) /\ Own(tasks, w) = {}
                      /\ permits[w] + Cardinality(Own(tasks, w)) = Concurrency
      BY DEF PermitsInv
  <2>1. Own(tasks, w) = {} /\ permits[w] = Concurrency /\ Concurrency \in Nat
        BY WorkerAssumption DEF Init, Own
  <2>2. QED BY <2>1, FS_EmptySet
<1>2. PermitsInv => PermitsBalance
      BY DEF PermitsInv, PermitsBalance, Own
<1>3. IInv => LockInv
      BY DEF IInv
<1>4. QED BY <1>1, <1>2, <1>3, PermitsNext, Inductive, PTL DEF Spec

\* ------------------------------------------------------------- the wake-up

\* What each turn of run() relies on.
ReceiverInv ==
    /\ NotifyTypeOK
    /\ stored = 0
    /\ pc = "select" => rx = 0
    /\ noticed # {} => version > 0

\* The receiver's invariant holds at the start of run().
LEMMA ReceiverInit == NotifyInit => ReceiverInv
  BY DEF NotifyInit, ReceiverInv, NotifyTypeOK

\* Inserts, the listener and every step of run() keep the receiver's invariant.
LEMMA ReceiverNext == ReceiverInv /\ [NotifyNext]_notifyVars => ReceiverInv'
  <1> SUFFICES ASSUME ReceiverInv, [NotifyNext]_notifyVars PROVE ReceiverInv'
    OBVIOUS
  <1> USE DEF ReceiverInv, NotifyTypeOK, chan, queue
  <1>1. ASSUME NEW S \in SUBSET Pushed, Insert(S) PROVE ReceiverInv'
    BY <1>1 DEF Insert
  <1>2. CASE ListenerRecv
    BY <1>2 DEF ListenerRecv
  <1>3. CASE ListenerLost
    BY <1>3 DEF ListenerLost
  <1>4. CASE Claim
    BY <1>4 DEF Claim
  <1>5. CASE Subscribe
    BY <1>5 DEF Subscribe
  <1>6. CASE SelectNotify
    BY <1>6 DEF SelectNotify
  <1>7. CASE SelectPoll
    BY <1>7 DEF SelectPoll
  <1>8. CASE SelectShutdown
    BY <1>8 DEF SelectShutdown
  <1>9. CASE UNCHANGED notifyVars
    BY <1>9 DEF notifyVars
  <1> QED
    BY <1>1, <1>2, <1>3, <1>4, <1>5, <1>6, <1>7, <1>8, <1>9 DEF NotifyNext

\* Whenever run() waits while a noticed row is claimable, the clone returned by
\* subscribe() still has a change to report.
THEOREM WakeupKept == NotifySpec => []NoWakeupLost
  <1>1. ReceiverInv => NoWakeupLost
    BY DEF ReceiverInv, NotifyTypeOK, NoWakeupLost
  <1> QED
    BY ReceiverInit, ReceiverNext, <1>1, PTL DEF NotifySpec
=============================================================================
