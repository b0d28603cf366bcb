---------------------------- MODULE MigrationEngine ----------------------------
(***************************************************************************)
(* MigrationEngine of ladoo-migrate: migrate, rollback, repair and         *)
(* baseline, each a process that takes the advisory lock, reads the        *)
(* tracking table, works statement by statement and releases the lock.     *)
(* Developers add and edit migration files meanwhile; a statement may fail *)
(* and a process may be killed between any two statements.                 *)
(*                                                                         *)
(* The schema is abstracted to what of each migration is in effect.        *)
(***************************************************************************)
EXTENDS MigrationPlan

CONSTANTS
    Procs,        \* processes that run commands
    Conns,        \* connections of a process's pool (max_connections)
    Driver,       \* "sqlite", "postgres" or "mysql"
    MaxContent,   \* how often a file may be edited
    Commands,     \* the commands operators give
    Legacy,       \* version a database adopted by baseline is at; 0: a new database
    Faults        \* subset of {"sql", "crash"}

\* A command with its options or its strategy, and a version or a number of steps.
Command ==
    [op : {"migrate"}, how : {"sequential", "atomic", "dry"}, n : Nat]
        \cup [op : {"rollback"}, how : {"last", "steps", "to"}, n : Nat]
        \cup [op : {"repair"}, how : {"retry", "rollback", "skip", "checksum"}, n : Nat]
        \cup [op : {"baseline"}, how : {"all"}, n : Nat]

NoCommand == [op |-> "none", how |-> "none", n |-> 0]

ASSUME EngineAssumption ==
    /\ Driver \in {"sqlite", "postgres", "mysql"}
    /\ MaxContent \in Nat \ {0} /\ Legacy \in Nat
    /\ Commands \subseteq Command
    /\ Faults \subseteq {"sql", "crash"}

\* supports_transactional_ddl; on MySQL every DDL statement commits by itself.
TransactionalDdl == Driver # "mysql"

VARIABLES
    files,    \* content of each migration file
    table,    \* the _migrations table
    schema,   \* what of each migration is in effect, and of which content
    holder,   \* the <<process, connection>> that holds the advisory lock
    proc,     \* what each process is doing
    skipped   \* history: recorded by `repair --skip`, whatever the schema says

vars == <<files, table, schema, holder, proc, skipped>>
db   == <<table, schema, skipped>>

Nobody == <<>>

Effect == [eff : {"no", "half", "yes"}, content : Nat]

Pc == {"idle", "lock", "read", "order", "tx", "partial", "half", "exec", "insert",
       "mark", "checksum", "repeatables", "undo", "delete", "unlock", "error", "done"}

\* A migration a process has to work on: its file as loaded, its row as read.
Item == [m : Migrations, load : Nat, seen : Row]

Proc == [pc : Pc,
         cmd : Command \cup {NoCommand},  \* command it runs
         todo : SUBSET Item,              \* migrations still to work on
         order : Nat]                     \* next applied_order

At(pc) == [pc |-> pc, cmd |-> NoCommand, todo |-> {}, order |-> 0]

\* Type invariant: the table, the schema and the processes keep the shape of the
\* engine's types.
TypeOK ==
    /\ files \in [Migrations -> 0 .. MaxContent]
    /\ table \in [Migrations -> Row]
    /\ schema \in [Migrations -> Effect]
    /\ holder \in (Procs \X Conns) \cup {Nobody}
    /\ proc \in [Procs -> Proc]
    /\ skipped \in SUBSET Migrations

Init ==
    /\ files = [m \in Migrations |-> IF m <= Legacy THEN 1 ELSE 0]
    /\ table = [m \in Migrations |-> NoRow]
    /\ schema = [m \in Migrations |->
                    IF m \in Versioned /\ m <= Legacy THEN [eff |-> "yes", content |-> 1]
                                                      ELSE [eff |-> "no", content |-> 0]]
    /\ holder = Nobody
    /\ proc = [p \in Procs |-> At("idle")]
    /\ skipped = {}
-----------------------------------------------------------------------------
\* Developers.

\* A file is added, or edited to a content it never had.
EditFile(m) ==
    /\ files[m] < MaxContent
    /\ files' = [files EXCEPT ![m] = @ + 1]
    /\ UNCHANGED <<db, holder, proc>>
-----------------------------------------------------------------------------
\* Commands and the advisory lock.

Goto(p, pc) == proc' = [proc EXCEPT ![p].pc = pc]

\* The command returns: Ok to "unlock", Err to "error"; what it had read is gone.
Return(p, pc) == proc' = [proc EXCEPT ![p] = At(pc)]

\* Part of the schema is older than the migrations table.
Unadopted == \E m \in Versioned \ Recorded(table) : m <= Legacy /\ schema[m].eff = "yes"

\* An operator starts a command.  A database that was not created by migrations is
\* adopted with baseline, at the version it is at, before anything else.
Start(p) ==
    /\ proc[p].pc = "idle"
    /\ \E c \in Commands :
          /\ c.op = "baseline" => Unadopted /\ c.n = Legacy
          /\ c.op # "baseline" => ~Unadopted \/ Recorded(table) # {}
          /\ proc' = [proc EXCEPT ![p].pc = "lock", ![p].cmd = c]
    /\ UNCHANGED <<files, db, holder>>

\* Mutant of Lock: the lock is shared.
LockShared(p) ==
    /\ proc[p].pc = "lock"
    /\ Goto(p, "read")
    /\ UNCHANGED <<files, db, holder>>

\* LockManager::acquire, on any connection of the pool; a no-op on SQLite.
Lock(p) ==
    /\ proc[p].pc = "lock"
    /\ IF Driver = "sqlite" THEN UNCHANGED holder
       ELSE /\ holder = Nobody
            /\ \E c \in Conns : holder' = <<p, c>>
    /\ Goto(p, "read")
    /\ UNCHANGED <<files, db>>

\* MySQL's GET_LOCK gives up after 30 seconds: the command fails.
LockTimeout(p) ==
    /\ proc[p].pc = "lock"
    /\ Driver = "mysql" /\ holder # Nobody
    /\ Return(p, "done")
    /\ UNCHANGED <<files, db, holder>>

\* LockManager::release, after success and after errors, again on any connection of
\* the pool: a session that does not hold the lock releases nothing.
Unlock(p) ==
    /\ proc[p].pc \in {"unlock", "error"}
    /\ IF Driver = "sqlite" THEN UNCHANGED holder
       ELSE \E c \in Conns : holder' = IF holder = <<p, c>> THEN Nobody ELSE holder
    /\ Goto(p, "done")
    /\ UNCHANGED <<files, db>>

\* The process ends and its connections close; the server frees their locks.
Close(p) ==
    /\ Return(p, "idle")
    /\ holder' = IF \E c \in Conns : holder = <<p, c>> THEN Nobody ELSE holder
    /\ UNCHANGED <<files, db>>

Exit(p)  == proc[p].pc = "done" /\ Close(p)
Crash(p) == "crash" \in Faults /\ proc[p].pc # "idle" /\ Close(p)

\* A statement fails: `?` leaves the command, through the release of the lock once
\* it was acquired.
SqlError(p) ==
    /\ "sql" \in Faults
    /\ proc[p].pc \notin {"idle", "done"}
    /\ Return(p, IF proc[p].pc \in {"lock", "unlock", "error"} THEN "done" ELSE "error")
    /\ UNCHANGED <<files, db, holder>>
-----------------------------------------------------------------------------
\* Migrations one by one.

Load(S) == {[m |-> m, load |-> files[m], seen |-> table[m]] : m \in S}

\* The migration a process works on: ascending versions, but rollback takes the
\* row applied last.
Current(p, i) ==
    /\ i \in proc[p].todo
    /\ IF proc[p].cmd.op = "rollback"
       THEN \A k \in proc[p].todo : i.seen.order >= k.seen.order
       ELSE \A k \in proc[p].todo : i.m <= k.m

\* Mutant of FirstPc: a @no-transaction migration runs before it is recorded.
FirstPcUnrecorded(m) == IF m \notin NoTransaction /\ TransactionalDdl THEN "tx" ELSE "half"

\* The first statement that applies migration m of execute_sequential.
FirstPc(m) ==
    CASE m \in NoTransaction -> "partial"
      [] m \notin NoTransaction /\ TransactionalDdl -> "tx"
      [] OTHER -> "half"

\* Where a loop goes with `todo` left to do: on with the next migration, or on to
\* what follows.
LoopPc(op, todo) ==
    CASE op = "migrate" /\ todo = {}       -> "repeatables"
      [] op = "migrate" /\ todo # {}       -> FirstPc(Min({i.m : i \in todo}))
      [] op = "baseline" /\ todo # {}      -> "insert"
      [] op = "rollback" /\ todo # {}      -> "undo"
      [] op = "repeatables" /\ todo # {}   -> "half"
      [] OTHER                             -> "unlock"

\* apply_repeatables is the second loop of migrate.
LoopOp(p, i) == IF i.m \in Repeatable /\ proc[p].cmd.op = "migrate" THEN "repeatables"
                                                                    ELSE proc[p].cmd.op

\* A process goes on with `todo`, or returns Ok.
Continue(p, op, todo, order) ==
    LET pc == LoopPc(op, todo)
    IN  IF pc = "unlock" THEN Return(p, pc)
        ELSE proc' = [proc EXCEPT ![p] = [@ EXCEPT !.pc = pc, !.todo = todo, !.order = order]]

\* The row insert_sql and TableManager::insert_row write.
NewRow(i, status, order) ==
    [status |-> status, order |-> order, sum |-> i.load, sql |-> i.load]

\* i is finished: on to the next one, `step` rows further in applied_order.
Advance(p, i, step) ==
    Continue(p, LoopOp(p, i), proc[p].todo \ {i}, proc[p].order + step)

\* run_and_record in a transaction of its own, or of all pending migrations in atomic
\* mode: the schema change and the row appear together or not at all.
RunAndRecord(p) ==
    /\ proc[p].pc = "tx"
    /\ LET batch == IF proc[p].cmd.how = "atomic" THEN proc[p].todo
                    ELSE {i \in proc[p].todo : Current(p, i)}
           rank(i) == Cardinality({k \in batch : k.m < i.m})
           of(m)   == CHOOSE i \in batch : i.m = m
           new     == {i.m : i \in batch}
       IN  IF new \cap Recorded(table) # {}   \* PRIMARY KEY (version)
           THEN Return(p, "error") /\ UNCHANGED db
           ELSE /\ table' = [m \in Migrations |->
                      IF m \in new THEN NewRow(of(m), "applied", proc[p].order + rank(of(m)))
                                   ELSE table[m]]
                /\ schema' = [m \in Migrations |->
                      IF m \in new THEN [eff |-> "yes", content |-> of(m).load] ELSE schema[m]]
                /\ Continue(p, "migrate", proc[p].todo \ batch,
                            proc[p].order + Cardinality(batch))
                /\ UNCHANGED skipped
    /\ UNCHANGED <<files, holder>>

\* record_partial: the first statement of run_no_transaction.
RecordPartial(p) ==
    /\ proc[p].pc = "partial"
    /\ \E i \in proc[p].todo : Current(p, i) /\
         IF i.m \in Recorded(table)
         THEN Return(p, "error") /\ UNCHANGED table
         ELSE /\ table' = [table EXCEPT ![i.m] = NewRow(i, "partial", proc[p].order)]
              /\ Goto(p, "half")
    /\ UNCHANGED <<files, schema, skipped, holder>>

\* @up outside a transaction is under way: some of its statements took effect.
ExecuteHalf(p) ==
    /\ proc[p].pc = "half"
    /\ \E i \in proc[p].todo : Current(p, i) /\
          schema' = [schema EXCEPT ![i.m].eff = "half"]
    /\ Goto(p, "exec")
    /\ UNCHANGED <<files, table, skipped, holder>>

\* The statement that records an execution: by status, by checksum or by a new row.
RecordPc(p, i) ==
    CASE proc[p].cmd.op = "repair" \/ i.m \in NoTransaction -> "mark"
      [] proc[p].cmd.op # "repair" /\ i.m \in Repeatable /\ i.seen # NoRow -> "checksum"
      [] OTHER -> "insert"

\* @up has run to its end: the file's as loaded, or the stored one in a repair.
Execute(p) ==
    /\ proc[p].pc = "exec"
    /\ \E i \in proc[p].todo : Current(p, i) /\
         LET sql == IF proc[p].cmd.op = "repair" THEN i.seen.sql ELSE i.load
         IN  /\ schema' = [schema EXCEPT ![i.m] = [eff |-> "yes", content |-> sql]]
             /\ Goto(p, RecordPc(p, i))
    /\ UNCHANGED <<files, table, skipped, holder>>

\* update_status(Applied): after run_no_transaction, repair --retry or --skip.
MarkApplied(p) ==
    /\ proc[p].pc = "mark"
    /\ \E i \in proc[p].todo : Current(p, i) /\
         /\ table' = [table EXCEPT ![i.m].status = IF @ = "none" THEN @ ELSE "applied"]
         /\ skipped' = IF proc[p].cmd.how = "skip" THEN skipped \cup {i.m} ELSE skipped
         /\ Advance(p, i, 1)
    /\ UNCHANGED <<files, schema, holder>>

\* record_migration: of a baseline, of a new repeatable, or the INSERT of a
\* transaction whose DDL MySQL has committed already.
RecordMigration(p) ==
    /\ proc[p].pc = "insert"
    /\ \E i \in proc[p].todo : Current(p, i) /\
         IF i.m \in Recorded(table)
         THEN Return(p, "error") /\ UNCHANGED table
         ELSE /\ table' = [table EXCEPT ![i.m] = NewRow(i, "applied", proc[p].order)]
              /\ Advance(p, i, 1)
    /\ UNCHANGED <<files, schema, skipped, holder>>

\* update_checksum of a repeatable; its order is kept, and so is the stored SQL.
UpdateChecksum(p) ==
    /\ proc[p].pc = "checksum"
    /\ \E i \in proc[p].todo : Current(p, i) /\
         /\ table' = [table EXCEPT ![i.m].sum = IF table[i.m].status = "none" THEN @
                                                ELSE i.load]
         /\ Advance(p, i, 0)
    /\ UNCHANGED <<files, schema, skipped, holder>>
-----------------------------------------------------------------------------
\* The four commands.

\* migrate_inner: the table and the files are read and the plan is built.
MigrateRead(p) ==
    /\ proc[p].pc = "read" /\ proc[p].cmd.op = "migrate"
    /\ LET c == proc[p].cmd
       IN  IF PlanRefused(table, files, c.n, c.how = "atomic") THEN Return(p, "error")
           ELSE IF c.how = "dry" THEN Return(p, "unlock")
           ELSE proc' = [proc EXCEPT ![p].todo = Load(ToApply(table, files, c.n)),
                                     ![p].pc = "order"]
    /\ UNCHANGED <<files, db, holder>>

\* next_order reads the table once more.
MigrateOrder(p) ==
    /\ proc[p].pc = "order"
    /\ Continue(p, "migrate", proc[p].todo, NextOrder(table))
    /\ UNCHANGED <<files, db, holder>>

\* Mutant of LoadRepeatables: the new checksum is stored without a run.
LoadRepeatablesUnrun(p) ==
    /\ proc[p].pc = "repeatables"
    /\ LET todo == ToRepeat(table, files)
       IN  IF todo # {} /\ todo \subseteq Recorded(table)
           THEN proc' = [proc EXCEPT ![p].todo = Load(todo), ![p].pc = "checksum"]
           ELSE Continue(p, "repeatables", Load(todo), proc[p].order)
    /\ UNCHANGED <<files, db, holder>>

\* apply_repeatables reads files and table again.
LoadRepeatables(p) ==
    /\ proc[p].pc = "repeatables"
    /\ Continue(p, "repeatables", Load(ToRepeat(table, files)), proc[p].order)
    /\ UNCHANGED <<files, db, holder>>

\* rollback_inner: read, refuse while a row is PARTIAL, select.
RollbackRead(p) ==
    /\ proc[p].pc = "read" /\ proc[p].cmd.op = "rollback"
    /\ IF Partial(table) # {} THEN Return(p, "error")
       ELSE \E todo \in ToRollback(table, proc[p].cmd.how, proc[p].cmd.n) :
               Continue(p, "rollback", Load(todo), 0)
    /\ UNCHANGED <<files, db, holder>>

Undone == [eff |-> "no", content |-> 0]

\* The stored @down runs, with the DELETE in one transaction where DDL is
\* transactional; a migration without @down stops the rollback.
Undo(p) ==
    /\ proc[p].pc = "undo"
    /\ \E i \in proc[p].todo : Current(p, i) /\
         IF i.m \in NoDown
         THEN Return(p, "error") /\ UNCHANGED db
         ELSE /\ schema' = [schema EXCEPT ![i.m] = Undone]
              /\ IF TransactionalDdl /\ proc[p].cmd.op = "rollback"
                 THEN /\ table' = [table EXCEPT ![i.m] = NoRow]
                      /\ skipped' = skipped \ {i.m}
                      /\ Advance(p, i, 0)
                 ELSE Goto(p, "delete") /\ UNCHANGED <<table, skipped>>
    /\ UNCHANGED <<files, holder>>

\* Outside a transaction @down may stop half-way, by an error or with its process.
UndoFails(p) ==
    /\ proc[p].pc = "undo" /\ Faults # {}
    /\ ~(TransactionalDdl /\ proc[p].cmd.op = "rollback")
    /\ \E i \in proc[p].todo : Current(p, i) /\ i.m \notin NoDown /\
          schema' = [schema EXCEPT ![i.m].eff = "half"]
    /\ Return(p, "error")
    /\ UNCHANGED <<files, table, skipped, holder>>

\* DELETE FROM _migrations: repair --rollback, and rollback on MySQL.
DeleteMigration(p) ==
    /\ proc[p].pc = "delete"
    /\ \E i \in proc[p].todo : Current(p, i) /\
         /\ table' = [table EXCEPT ![i.m] = NoRow]
         /\ skipped' = skipped \ {i.m}
         /\ Advance(p, i, 0)
    /\ UNCHANGED <<files, schema, holder>>

\* repair_inner, --retry, --rollback and --skip: of the first PARTIAL row.
RepairRead(p) ==
    /\ proc[p].pc = "read" /\ proc[p].cmd.op = "repair" /\ proc[p].cmd.how # "checksum"
    /\ LET first == {m \in Partial(table) :
                        \A k \in Partial(table) : table[m].order <= table[k].order}
       IN  IF first = {} THEN Return(p, "error")
           ELSE \E m \in first :
                  proc' = [proc EXCEPT ![p].todo = Load({m}), ![p].pc =
                              CASE proc[p].cmd.how = "retry" -> "half"
                                [] proc[p].cmd.how = "rollback" -> "undo"
                                [] proc[p].cmd.how = "skip" -> "mark"]
    /\ UNCHANGED <<files, db, holder>>

\* repair_inner, --update-checksum: takes the file's checksum; no row, no change.
RepairChecksum(p) ==
    /\ proc[p].pc = "read" /\ proc[p].cmd.op = "repair" /\ proc[p].cmd.how = "checksum"
    /\ LET m == proc[p].cmd.n
       IN  IF m \in Versioned /\ files[m] # 0
           THEN /\ table' = [table EXCEPT ![m].sum = IF m \in Recorded(table) THEN files[m]
                                                     ELSE @]
                /\ Return(p, "unlock")
           ELSE Return(p, "error") /\ UNCHANGED table
    /\ UNCHANGED <<files, schema, skipped, holder>>

\* baseline_inner: refused on a table with rows, else every file up to the version.
BaselineRead(p) ==
    /\ proc[p].pc = "read" /\ proc[p].cmd.op = "baseline"
    /\ IF Recorded(table) # {} THEN Return(p, "error")
       ELSE Continue(p, "baseline", Load(ToApply(table, files, proc[p].cmd.n)), 1)
    /\ UNCHANGED <<files, db, holder>>
-----------------------------------------------------------------------------
Engine(p) ==
    \/ Lock(p) \/ Unlock(p) \/ LockTimeout(p)
    \/ MigrateRead(p) \/ MigrateOrder(p) \/ RunAndRecord(p) \/ RecordPartial(p)
    \/ ExecuteHalf(p) \/ Execute(p) \/ MarkApplied(p) \/ RecordMigration(p)
    \/ UpdateChecksum(p) \/ LoadRepeatables(p)
    \/ RollbackRead(p) \/ Undo(p) \/ UndoFails(p) \/ DeleteMigration(p)
    \/ RepairRead(p) \/ RepairChecksum(p) \/ BaselineRead(p)

Next ==
    \/ \E m \in Migrations : EditFile(m)
    \/ \E p \in Procs : Start(p) \/ Engine(p) \/ Exit(p) \/ Crash(p) \/ SqlError(p)

Spec == Init /\ [][Next]_vars
-----------------------------------------------------------------------------
\* Properties.

\* The table tells the truth about the schema in every state, also those a crash
\* or a failing statement leaves behind: an unrecorded migration left no trace, an
\* applied one is complete (unless an operator skipped it), and anything in between
\* is PARTIAL.  A database that was not created by migrations is the one exception
\* until baseline has recorded what it has, and baseline records nothing else.
TableTruthful ==
    /\ TypeOK
    /\ \A m \in Versioned :
         /\ table[m].status = "none" =>
               schema[m].eff = "no" \/ (m <= Legacy /\ schema[m].eff = "yes")
         /\ table[m].status = "applied" => schema[m].eff = "yes" \/ m \in skipped

\* While a migration is PARTIAL nothing else is applied, rolled back or re-recorded
\* ("A partial migration blocks all commands except `db status` and `db repair`").
PartialBlocks ==
    [][\A m, k \in Migrations :
          /\ m # k
          /\ table[m].status = "partial" /\ table'[m].status = "partial"
          => table'[k].status = table[k].status /\ schema'[k] = schema[k]]_vars

\* Whatever was applied, rolled back, retried and abandoned, a recorded migration's
\* @requires are recorded too, and were applied before it.
RequiresClosed ==
    \A m \in Versioned \cap Recorded(table) : m > Legacy =>
        \A d \in Requires[m] : d \in Recorded(table) /\ table[d].order < table[m].order

\* applied_order numbers the rows 1, 2, 3, ... without gaps or ties: each rollback
\* and repair removes the newest rows, and next_order continues where they stopped.
OrdersContiguous ==
    {table[m].order : m \in Recorded(table)} = 1 .. Cardinality(Recorded(table))

\* The checksum recorded for a repeatable belongs to a content that has run: a crash
\* between the execution and its record makes it run again, never too seldom.
RepeatableTruthful ==
    \A r \in Repeatable \cap Recorded(table) :
        schema[r].eff = "yes" => table[r].sum <= schema[r].content

\* A stored @down only runs for a migration that is recorded at that moment: no
\* second process has rolled it back since the table was read.
UndoneIsRecorded ==
    [][\A p \in Procs : \A i \in proc[p].todo :
          proc[p].pc = "undo" /\ Current(p, i) /\ i.m \notin NoDown
              /\ proc'[p].pc \in {"undo", "delete", "unlock"} /\ proc'[p] # proc[p]
          => i.m \in Recorded(table)]_vars

=============================================================================
