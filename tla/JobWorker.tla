------------------------------ MODULE JobWorker ------------------------------
(***************************************************************************)
(* Worker::run of ladoo-jobs: several worker processes share one job table.*)
(* Each one loops claim -> spawn the batch under a semaphore -> wait, and  *)
(* every spawned task dispatches its job and then calls complete() or      *)
(* fail() on the store.  Producers push jobs, directly or through an       *)
(* outbox transaction.  Handlers may panic, statements may fail, and a     *)
(* process may die or simply exit after run() returned.                    *)
(***************************************************************************)
EXTENDS JobTable

CONSTANTS
    Workers,      \* worker processes
    Ids,          \* worker_id() values; ids in no use any more are recycled
    Recurring,    \* TRUE: a restarted process may have its predecessor's process id
    Signalled,    \* workers whose owner may send true on the shutdown channel
    MaxRestarts,  \* bound: restarts of processes
    BatchSize,    \* Worker::batch_size
    Concurrency,  \* Worker::concurrency, the semaphore's permits
    Sqlite,       \* TRUE: SqliteStore, FALSE: PostgresStore
    Retries,      \* values of max_retries a producer uses
    Delays,       \* values of run_at - now a producer uses
    Unhandled,    \* jobs whose name has no handler in the registry
    Faults        \* the faults that may happen

ASSUME WorkerAssumption ==
    /\ Ids \subseteq Nat \ {NoLock}
    /\ BatchSize \in Nat /\ Concurrency \in Nat
    /\ Sqlite \in BOOLEAN /\ Recurring \in BOOLEAN /\ MaxRestarts \in Nat
    /\ Retries \subseteq Nat /\ Delays \subseteq Int
    /\ Unhandled \subseteq Jobs /\ Signalled \subseteq Workers
    /\ Faults \subseteq {"panic", "db", "crash", "exit"}

VARIABLES
    rows,      \* the table: Jobs -> Row
    outbox,    \* rows inserted by an open outbox transaction
    wpc,       \* where each worker's run() is
    wid,       \* worker_id() of the claim in progress
    batch,     \* claimed jobs not spawned yet
    permits,   \* free permits of each worker's semaphore
    sig,       \* shutdown channel holds true
    tasks,     \* spawned tasks still alive
    issued,    \* ids each process has issued that are in use
    past,      \* ids its predecessors issued that are in use, and it has not yet
    restarts,  \* history: how often a process was started again
    runs,      \* history: how often each job was handed to a handler
    wins       \* history: how often a handler of the job returned Ok

store == <<rows, outbox>>
loop  == <<wpc, wid, batch>>
names == <<issued, past, restarts>>
proc  == <<sig, names>>
hist  == <<runs, wins>>
vars  == <<rows, outbox, wpc, wid, batch, permits, tasks, proc, hist>>

TaskPc == {"run", "complete", "failSelect", "failUpdate"}
Task   == [worker : Workers, job : Jobs, id : Ids, pc : TaskPc,
           attempts : Nat, lock : Nat]
WorkerPc == {"claim", "reply", "spawn", "wait", "stopped", "dead"}

\* Type invariant: the table, the workers' loop state and the tasks keep the shape
\* of the code's types through every interleaving.
TypeOK ==
    /\ rows \in [Jobs -> Row]
    /\ outbox \in [Jobs -> Row]
    /\ wpc \in [Workers -> WorkerPc]
    /\ wid \in [Workers -> Ids \cup {NoLock}]
    /\ batch \in [Workers -> SUBSET Jobs]
    /\ permits \in [Workers -> Nat]
    /\ sig \in [Workers -> BOOLEAN]
    /\ tasks \in SUBSET Task
    /\ issued \in [Workers -> SUBSET Ids] /\ past \in [Workers -> SUBSET Ids]
    /\ restarts \in Nat
    /\ runs \in [Jobs -> Nat] /\ wins \in [Jobs -> Nat]

Init ==
    /\ rows = [j \in Jobs |-> NoRow]
    /\ outbox = [j \in Jobs |-> NoRow]
    /\ wpc = [w \in Workers |-> "claim"]
    /\ wid = [w \in Workers |-> NoLock]
    /\ batch = [w \in Workers |-> {}]
    /\ permits = [w \in Workers |-> Concurrency]
    /\ sig = [w \in Workers |-> FALSE]
    /\ tasks = {}
    /\ issued = [w \in Workers |-> {}] /\ past = [w \in Workers |-> {}] /\ restarts = 0
    /\ runs = [j \in Jobs |-> 0] /\ wins = [j \in Jobs |-> 0]
-----------------------------------------------------------------------------
\* Producers.

Fresh(j) == rows[j] = NoRow /\ outbox[j] = NoRow

\* JobStoreExt::enqueue / enqueue_delayed / enqueue_at, then push().
Push(j) ==
    /\ Fresh(j)
    /\ \E m \in Retries, d \in Delays : rows' = [rows EXCEPT ![j] = PushRow(m, d)]
    /\ UNCHANGED <<outbox, loop, permits, proc, tasks, hist>>

\* Mutant of OutboxInsert: the INSERT runs on the pool, outside the transaction.
OutboxInsertOnPool(j) ==
    /\ Fresh(j)
    /\ \E m \in Retries : /\ outbox' = [outbox EXCEPT ![j] = OutboxRow(m)]
                          /\ rows' = [rows EXCEPT ![j] = OutboxRow(m)]
    /\ UNCHANGED <<loop, permits, proc, tasks, hist>>

\* enqueue_outbox_pg / enqueue_outbox_sqlite inside the caller's transaction.
OutboxInsert(j) ==
    /\ Fresh(j)
    /\ \E m \in Retries : outbox' = [outbox EXCEPT ![j] = OutboxRow(m)]
    /\ UNCHANGED <<rows, loop, permits, proc, tasks, hist>>

OutboxCommit(j) ==
    /\ outbox[j] # NoRow
    /\ rows' = [rows EXCEPT ![j] = outbox[j]]
    /\ outbox' = [outbox EXCEPT ![j] = NoRow]
    /\ UNCHANGED <<loop, permits, proc, tasks, hist>>

OutboxRollback(j) ==
    /\ outbox[j] # NoRow
    /\ outbox' = [outbox EXCEPT ![j] = NoRow]
    /\ UNCHANGED <<rows, loop, permits, proc, tasks, hist>>

Tick ==
    /\ rows' = AgeRows(rows)
    /\ outbox' = AgeRows(outbox)
    /\ UNCHANGED <<loop, permits, proc, tasks, hist>>
-----------------------------------------------------------------------------
\* The worker loop.

\* Worker ids something still refers to.
UsedIds ==
    {rows[j].lockedBy : j \in Jobs} \cup {wid[w] : w \in Workers}
        \cup {t.id : t \in tasks} \cup {t.lock : t \in tasks}

\* worker_id(): process id and a counter that starts at 0 in each process.  No two live
\* processes have the same process id, so it is an id nobody uses, for which the least
\* unused one stands, or one that a predecessor of the process has left in the table.
WorkerId(w, id) ==
    \/ id \notin UsedIds /\ \A k \in Ids : k < id => k \in UsedIds
    \/ Recurring /\ id \in past[w] \cap UsedIds

\* It counts up: an id is not issued twice by one process.
Issue(w, id) ==
    /\ issued' = [v \in Workers |-> ((issued[v] \cap UsedIds) \ {id}) \cup (IF v = w THEN {id} ELSE {})]
    /\ past' = [v \in Workers |-> (past[v] \cap UsedIds) \ {id}]
    /\ UNCHANGED restarts

\* The UPDATE of claim() runs in the database.  Postgres collects the rows with
\* RETURNING; SQLite reads them back with a second statement.
ClaimUpdate(w) ==
    /\ wpc[w] = "claim"
    /\ \E id \in Ids, S \in ClaimSets(rows, BatchSize) :
          /\ WorkerId(w, id) /\ Issue(w, id)
          /\ rows' = ClaimRows(rows, S, id)
          /\ wid' = [wid EXCEPT ![w] = id]
          /\ batch' = [batch EXCEPT ![w] = IF Sqlite THEN {} ELSE S]
    /\ wpc' = [wpc EXCEPT ![w] = "reply"]
    /\ UNCHANGED <<outbox, permits, sig, tasks, hist>>

\* claim() returns the claimed jobs to run().
ClaimReply(w) ==
    /\ wpc[w] = "reply"
    /\ batch' = [batch EXCEPT ![w] = IF Sqlite THEN LockedRows(rows, wid[w]) ELSE @]
    /\ wpc' = [wpc EXCEPT ![w] = "spawn"]
    /\ UNCHANGED <<store, wid, permits, proc, tasks, hist>>

\* claim() fails, before or after its UPDATE took effect: run() returns the error.
ClaimError(w) ==
    /\ "db" \in Faults
    /\ wpc[w] \in {"claim", "reply"}
    /\ wpc' = [wpc EXCEPT ![w] = "stopped"]
    /\ wid' = [wid EXCEPT ![w] = NoLock]
    /\ batch' = [batch EXCEPT ![w] = {}]
    /\ UNCHANGED <<store, permits, proc, tasks, hist>>

\* `for job in jobs`: SQLite returns them ORDER BY run_at, Postgres in any order.
NextInBatch(w, j) ==
    /\ j \in batch[w]
    /\ Sqlite => \A k \in batch[w] : rows[j].due <= rows[k].due

\* A permit is acquired and the job spawned onto its own task.
Spawn(w) ==
    /\ wpc[w] = "spawn"
    /\ permits[w] > 0
    /\ permits' = [permits EXCEPT ![w] = @ - 1]
    /\ \E j \in batch[w] :
          /\ NextInBatch(w, j)
          /\ batch' = [batch EXCEPT ![w] = @ \ {j}]
          /\ tasks' = tasks \cup {[worker |-> w, job |-> j, id |-> wid[w],
                                   pc |-> "run", attempts |-> 0, lock |-> NoLock]}
          /\ runs' = [runs EXCEPT ![j] = @ + 1]
    /\ UNCHANGED <<store, wpc, wid, proc, wins>>

\* The batch is spawned: wait for a poll tick, a notification or shutdown.
SpawnDone(w) ==
    /\ wpc[w] = "spawn"
    /\ batch[w] = {}
    /\ wpc' = [wpc EXCEPT ![w] = "wait"]
    /\ wid' = [wid EXCEPT ![w] = NoLock]
    /\ UNCHANGED <<store, batch, permits, proc, tasks, hist>>

\* The poll tick, or a notification, wakes the worker.
Wake(w) ==
    /\ wpc[w] = "wait"
    /\ wpc' = [wpc EXCEPT ![w] = "claim"]
    /\ UNCHANGED <<store, wid, batch, permits, proc, tasks, hist>>

\* shutdown.changed() with true: run() returns Ok.  Spawned tasks are not awaited.
Stop(w) ==
    /\ wpc[w] = "wait"
    /\ sig[w]
    /\ wpc' = [wpc EXCEPT ![w] = "stopped"]
    /\ UNCHANGED <<store, wid, batch, permits, proc, tasks, hist>>

\* The owner of the worker sends true on the shutdown channel.
Signal(w) ==
    /\ w \in Signalled /\ ~sig[w] /\ wpc[w] # "dead"
    /\ sig' = [sig EXCEPT ![w] = TRUE]
    /\ UNCHANGED <<store, loop, permits, tasks, names, hist>>
-----------------------------------------------------------------------------
\* The spawned tasks.

\* registry.dispatch() comes back: the task goes on to complete() or fail().
Returned(t, pc) == tasks' = (tasks \ {t}) \cup {[t EXCEPT !.pc = pc]}

\* Mutant of Finish: the permit is forgotten.
FinishLeaksPermit(t) == tasks' = tasks \ {t} /\ UNCHANGED permits

\* The task ends and drops its permit.
Finish(t) ==
    /\ tasks' = tasks \ {t}
    /\ permits' = [permits EXCEPT ![t.worker] = @ + 1]

DispatchOk(t) ==
    /\ t.pc = "run" /\ t.job \notin Unhandled
    /\ Returned(t, "complete")
    /\ wins' = [wins EXCEPT ![t.job] = @ + 1]
    /\ UNCHANGED <<store, loop, permits, proc, runs>>

\* No handler under that name, a payload that does not deserialize, or the
\* handler's own error.
DispatchErr(t) ==
    /\ t.pc = "run"
    /\ Returned(t, "failSelect")
    /\ UNCHANGED <<store, loop, permits, proc, hist>>

\* The handler panics: the task unwinds, nothing is written.
DispatchPanic(t) ==
    /\ "panic" \in Faults
    /\ t.pc = "run" /\ t.job \notin Unhandled
    /\ Finish(t)
    /\ UNCHANGED <<store, loop, proc, hist>>

Complete(t) ==
    /\ t.pc = "complete"
    /\ rows' = [rows EXCEPT ![t.job] = CompleteRow(@)]
    /\ Finish(t)
    /\ UNCHANGED <<outbox, loop, proc, hist>>

\* SELECT attempts, max_retries, locked_by ... WHERE id = ? AND status = 'running';
\* no row: NotFound, logged.
FailSelect(t) ==
    /\ t.pc = "failSelect"
    /\ IF rows[t.job].status = "running"
       THEN /\ tasks' = (tasks \ {t}) \cup
                  {[t EXCEPT !.pc = "failUpdate", !.attempts = rows[t.job].attempts,
                             !.lock = rows[t.job].lockedBy]}
            /\ UNCHANGED permits
       ELSE Finish(t)
    /\ UNCHANGED <<store, loop, proc, hist>>

\* UPDATE ... WHERE id = ? AND locked_by = ?; no row: "lock was stolen", logged.
FailUpdate(t) ==
    /\ t.pc = "failUpdate"
    /\ rows' = IF LockMatches(rows[t.job], t.lock)
               THEN [rows EXCEPT ![t.job] = FailRow(@, t.attempts)]
               ELSE rows
    /\ Finish(t)
    /\ UNCHANGED <<outbox, loop, proc, hist>>

\* Mutant of StoreError: a failed complete() is handled as a failed job.
StoreErrorFailsJob(t) ==
    /\ "db" \in Faults
    /\ t.pc # "run"
    /\ IF t.pc = "complete" THEN Returned(t, "failSelect") /\ UNCHANGED permits
                            ELSE Finish(t)
    /\ UNCHANGED <<store, loop, proc, hist>>

\* complete() or fail() returns an error: it is logged and the task ends.
StoreError(t) ==
    /\ "db" \in Faults
    /\ t.pc # "run"
    /\ Finish(t)
    /\ UNCHANGED <<store, loop, proc, hist>>
-----------------------------------------------------------------------------
\* The process.

\* The process ends: run()'s state and every task are gone, the table stays.
Die(w) ==
    /\ wpc' = [wpc EXCEPT ![w] = "dead"]
    /\ wid' = [wid EXCEPT ![w] = NoLock]
    /\ batch' = [batch EXCEPT ![w] = {}]
    /\ tasks' = {t \in tasks : t.worker # w}
    /\ issued' = [issued EXCEPT ![w] = {}]
    /\ past' = [past EXCEPT ![w] = (@ \cup issued[w]) \cap {rows[j].lockedBy : j \in Jobs}]
    /\ UNCHANGED <<store, permits, sig, restarts, hist>>

\* Killed at any point.
Crash(w) == "crash" \in Faults /\ wpc[w] # "dead" /\ Die(w)

\* main() returns after run() did: the runtime drops the tasks still alive.
Exit(w) == "exit" \in Faults /\ wpc[w] = "stopped" /\ Die(w)

Restart(w) ==
    /\ wpc[w] = "dead" /\ restarts < MaxRestarts
    /\ wpc' = [wpc EXCEPT ![w] = "claim"]
    /\ permits' = [permits EXCEPT ![w] = Concurrency]
    /\ sig' = [sig EXCEPT ![w] = FALSE]
    /\ restarts' = restarts + 1
    /\ UNCHANGED <<store, wid, batch, tasks, issued, past, hist>>
-----------------------------------------------------------------------------
Producer(j) == Push(j) \/ OutboxInsert(j) \/ OutboxCommit(j) \/ OutboxRollback(j)

RunLoop(w) ==
    \/ ClaimUpdate(w) \/ ClaimReply(w) \/ ClaimError(w)
    \/ Spawn(w) \/ SpawnDone(w) \/ Wake(w) \/ Stop(w)

RunTask(t) ==
    \/ DispatchOk(t) \/ DispatchErr(t) \/ DispatchPanic(t)
    \/ Complete(t) \/ FailSelect(t) \/ FailUpdate(t) \/ StoreError(t)

Process(w) == Signal(w) \/ Crash(w) \/ Exit(w) \/ Restart(w)

Next ==
    \/ \E j \in Jobs : Producer(j)
    \/ Tick
    \/ \E w \in Workers : RunLoop(w) \/ Process(w)
    \/ \E t \in tasks : RunTask(t)

Spec == Init /\ [][Next]_vars

\* The runtime polls every ready task, handlers return, time passes, poll intervals
\* elapse and callers end their transactions.  Stop is strongly fair: select! picks
\* at random among ready branches, so a pending shutdown is taken in the end.
Fairness ==
    /\ WF_vars(Tick)
    /\ \A w \in Workers :
          /\ WF_vars(ClaimUpdate(w) \/ ClaimReply(w) \/ Spawn(w) \/ SpawnDone(w))
          /\ WF_vars(Wake(w))
          /\ SF_vars(Stop(w))
          /\ \A j \in Jobs :
                WF_vars(\E t \in tasks : t.worker = w /\ t.job = j /\ RunTask(t))
    /\ \A j \in Jobs : WF_vars(OutboxCommit(j) \/ OutboxRollback(j))

FairSpec == Spec /\ Fairness
-----------------------------------------------------------------------------
\* Properties.

\* No two tasks ever execute the same job at once, whatever workers crash, restart
\* and claim in between, and a task's job is still 'running' under the id of the
\* claim that spawned it (the promise of SKIP LOCKED / single-writer claims).
ExclusiveExecution ==
    /\ \A t, u \in tasks : t.job = u.job => t = u
    /\ \A t \in tasks : rows[t.job].status = "running" /\ rows[t.job].lockedBy = t.id

\* How often a row left running can have been handed out once more: SQLite's SELECT by
\* locked_by returns it to a restarted process that issues its predecessor's id again.
Revivals == IF Sqlite /\ Recurring THEN restarts ELSE 0

\* Attempts stay in their budget.  A job is handed to a handler at most
\* max_retries + 1 times, and given up as 'failed' only after all of them (fail():
\* `attempts <= max_retries`).  Only on SQLite where process ids recur can it be handed
\* out beyond that, at most once more for each restart.
RetryBudget ==
    \A j \in Jobs :
        /\ rows[j].status = "absent" => runs[j] = 0
        /\ rows[j].status # "absent" =>
              rows[j].attempts <= runs[j] /\ runs[j] <= rows[j].maxRetries + 1 + Revivals
        /\ rows[j].status = "failed" => rows[j].attempts = rows[j].maxRetries + 1

\* A handler's success is never lost to the retry path: even when complete() fails or
\* the process dies right after it, the job is not queued again and not run again,
\* except where a restarted process finds the row left running (Revivals).  An attempt
\* counts as a success or as a failed one, never as both.
SuccessAtMostOnce ==
    \A j \in Jobs :
        /\ wins[j] <= 1 + Revivals
        /\ wins[j] + rows[j].attempts <= runs[j]
        /\ rows[j].status = "completed" => wins[j] >= 1
        /\ rows[j].status \in {"absent", "pending", "scheduled", "failed"} => wins[j] <= Revivals

\* Permits are neither leaked nor forged: a live worker's free permits and its tasks
\* add up to `concurrency`, also after panics and store errors (drop(permit)).
PermitsBalance ==
    \A w \in Workers : wpc[w] # "dead" =>
        permits[w] + Cardinality({t \in tasks : t.worker = w}) = Concurrency

\* What a producer sees of a row, as JobLifecycle tells it.
PhaseOf(status) ==
    CASE status = "absent" -> "none"
      [] status \in {"pending", "scheduled"} -> "queued"
      [] OTHER -> status

Phases   == [j \in Jobs |-> PhaseOf(rows[j].status)]
Attempts == [j \in Jobs |-> rows[j].attempts]
Budgets  == [j \in Jobs |-> rows[j].maxRetries]

Lifecycle == INSTANCE JobLifecycle
                WITH Budgets <- Retries, phase <- Phases, attempts <- Attempts,
                     budget <- Budgets

\* Workers, claims in two statements, retries, outbox transactions and faults
\* together implement JobLifecycle: no interleaving starts a job that is not
\* queued, re-queues or completes one that is not running, or skips an attempt.
ImplementsLifecycle == Lifecycle!Spec

\* Without faults and with some worker never told to stop, every visible job ends
\* completed or failed.
EveryJobSettles ==
    (\E w \in Workers : []~sig[w]) =>
        \A j \in Jobs : rows[j].status = "pending" \/ rows[j].status = "scheduled"
                           ~> rows[j].status \in {"completed", "failed"}

\* A worker told to shut down stops, even with a batch still waiting for permits.
ShutdownStops == \A w \in Workers : sig[w] ~> wpc[w] \in {"stopped", "dead"}

\* What JobStatus::Running documents: "Currently being executed."  A running row
\* belongs to a live task or to a claim a live worker is still spawning.
RunningIsExecuting ==
    \A j \in Jobs : rows[j].status = "running" =>
        \/ \E t \in tasks : t.job = j
        \/ \E w \in Workers : wid[w] = rows[j].lockedBy /\ wpc[w] \in {"reply", "spawn"}
=============================================================================
