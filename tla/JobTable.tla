------------------------------ MODULE JobTable ------------------------------
(***************************************************************************)
(* The `_ladoo_jobs` table and the SQL statements the two job stores issue *)
(* against it (crates/ladoo-jobs/src/{sqlite,postgres}/mod.rs).  A row is  *)
(* a record; one statement is one operator, and a store method that needs  *)
(* two statements (claim on SQLite, fail on both) is two steps of the      *)
(* modules that use this one.                                              *)
(*                                                                         *)
(* Time is kept relative: row.due is run_at minus the current time, in     *)
(* seconds.  A tick lowers it, down to -MaxAge: two rows overdue by more   *)
(* than MaxAge are tied in ORDER BY run_at.                                *)
(***************************************************************************)
EXTENDS Integers, FiniteSets

CONSTANTS Jobs,      \* job ids
          MaxDelay,  \* cap of the retry delay in seconds; 60 in the code
          MaxAge     \* how long an overdue row keeps its place in run_at order

ASSUME DelayAssumption == MaxDelay \in Nat \ {0} /\ MaxAge \in Nat

\* locked_by is NULL: equal to no lock token, not even to itself in SQL.
NoLock == 0

\* JobStatus, plus "absent" for an id that has no (visible) row yet.
Status == {"absent", "pending", "scheduled", "running", "completed", "failed"}

Row == [status : Status, attempts : Nat, maxRetries : Nat,
        due : Int, lockedBy : Nat]

NoRow == [status |-> "absent", attempts |-> 0, maxRetries |-> 0,
          due |-> 0, lockedBy |-> NoLock]

\* INSERT of push(): 'scheduled' when run_at lies ahead, else 'pending'.
PushRow(maxRetries, due) ==
    [status |-> IF due > 0 THEN "scheduled" ELSE "pending",
     attempts |-> 0, maxRetries |-> maxRetries, due |-> due,
     lockedBy |-> NoLock]

\* INSERT of enqueue_outbox_*: always 'pending', run_at is the time of the call.
OutboxRow(maxRetries) ==
    [status |-> "pending", attempts |-> 0, maxRetries |-> maxRetries,
     due |-> 0, lockedBy |-> NoLock]

\* Mutants of Due: running rows are claimed again; scheduled rows are forgotten.
DueReclaimsRunning(rows) ==
    {j \in Jobs : rows[j].status \in {"pending", "scheduled", "running"} /\ rows[j].due <= 0}
DueForgetsScheduled(rows) ==
    {j \in Jobs : rows[j].status = "pending" /\ rows[j].due <= 0}

\* WHERE status IN ('pending', 'scheduled') AND run_at <= now
Due(rows) ==
    {j \in Jobs : rows[j].status \in {"pending", "scheduled"} /\ rows[j].due <= 0}

\* The sets ORDER BY run_at ASC LIMIT limit may select: the earliest rows, ties
\* broken either way.
ClaimSets(rows, limit) ==
    {S \in SUBSET Due(rows) :
        /\ Cardinality(S) =
             IF Cardinality(Due(rows)) <= limit THEN Cardinality(Due(rows)) ELSE limit
        /\ \A j \in S, k \in Due(rows) \ S : rows[j].due <= rows[k].due}

\* UPDATE of claim(): the selected rows become 'running' under the claim's worker id.
ClaimRows(rows, S, workerId) ==
    [j \in Jobs |-> IF j \in S
                    THEN [rows[j] EXCEPT !.status = "running", !.lockedBy = workerId]
                    ELSE rows[j]]

\* SELECT of the SQLite claim(): WHERE locked_by = ? AND status = 'running'.
LockedRows(rows, workerId) ==
    {j \in Jobs : rows[j].lockedBy = workerId /\ rows[j].status = "running"}

\* UPDATE of complete(): by id alone, whatever status and lock the row has.
CompleteRow(row) == [row EXCEPT !.status = "completed", !.lockedBy = NoLock]

\* min(2u64.saturating_pow(attempts - 1), MaxDelay); attempts >= 1 here.
RetryDelay(attempts) ==
    IF 2^(attempts - 1) \in 1 .. MaxDelay THEN 2^(attempts - 1) ELSE MaxDelay

\* Mutant of FailRow: one retry too many.
FailRowOffByOne(row, seenAttempts) ==
    LET attempts == seenAttempts + 1
    IN  IF attempts <= row.maxRetries + 1
        THEN [row EXCEPT !.status = "pending", !.attempts = attempts,
                         !.due = RetryDelay(attempts), !.lockedBy = NoLock]
        ELSE [row EXCEPT !.status = "failed", !.attempts = attempts,
                         !.lockedBy = NoLock]

\* UPDATE of fail(), after its SELECT saw `seenAttempts`: one attempt more, then
\* back to 'pending' after the delay while retries remain, else 'failed'.
FailRow(row, seenAttempts) ==
    LET attempts == seenAttempts + 1
    IN  IF attempts <= row.maxRetries
        THEN [row EXCEPT !.status = "pending", !.attempts = attempts,
                         !.due = RetryDelay(attempts), !.lockedBy = NoLock]
        ELSE [row EXCEPT !.status = "failed", !.attempts = attempts,
                         !.lockedBy = NoLock]

\* WHERE id = ? AND locked_by = ?: NULL matches nothing.
LockMatches(row, seenLock) == row.lockedBy # NoLock /\ row.lockedBy = seenLock

\* One second passes.  run_at of a row that is not waiting is not compared with
\* the clock any more, so only waiting rows age.
AgeRows(rows) ==
    [j \in Jobs |->
        IF rows[j].status \in {"pending", "scheduled"} /\ rows[j].due > -MaxAge
        THEN [rows[j] EXCEPT !.due = @ - 1]
        ELSE rows[j]]
=============================================================================
