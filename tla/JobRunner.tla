------------------------------- MODULE JobRunner -------------------------------
(***************************************************************************)
(* The in-process job runner of the ladoo crate: enqueue() spawns a task   *)
(* that runs the job until it succeeds, fails for good or has used its     *)
(* attempts, each attempt under a timeout, with a backoff between them.    *)
(*                                                                         *)
(* A handler's answer is chosen freely, except that a handler which needs  *)
(* application state gets MissingState when the runner was not wired into  *)
(* an App at the time of the enqueue.  Durations are small numbers; U32Max *)
(* and DurationMax stand for the widths of the two integer types.          *)
(***************************************************************************)
EXTENDS Naturals

CONSTANTS Jobs,         \* jobs that may be enqueued
          Config,       \* Job::config() of each
          NeedsState,   \* jobs whose handler calls ctx.state::<T>()
          Apps,         \* App values the runner may be provided to
          U32Max,       \* u32::MAX
          DurationMax   \* Duration::MAX, where saturating_mul stops

JobConfig == [max_retries : 0 .. U32Max,
              base : 0 .. DurationMax, max : 0 .. DurationMax, fixed : BOOLEAN]

ASSUME RunnerAssumption ==
    /\ U32Max \in Nat \ {0} /\ DurationMax \in Nat \ {0}
    /\ Config \in [Jobs -> JobConfig]
    /\ NeedsState \subseteq Jobs
    /\ "empty" \notin Apps

\* The prover has no theory of ^: the powers that Delay computes are numbers, and grow.
ASSUME PowerAssumption == \A n \in 0 .. U32Max : 2 ^ n \in Nat /\ 2 ^ n <= 2 ^ (n + 1)

VARIABLES
    state,    \* JobRunner::state, a OnceLock: the App it was injected by
    task,     \* the spawned task of each job
    handle,   \* its JobHandle
    waited    \* what wait() returned

vars == <<state, task, handle, waited>>

Errors == {"failed", "permanent", "missing", "timeout"}
Outcomes == Errors \cup {"ok", "panic"}
Idle == [pc |-> "none", attempt |-> 0, ctx |-> "empty", last |-> "none",
         delay |-> 0, result |-> "none"]

\* Where a task is in run_job(), its counter, the state it was given, how its last attempt
\* ended, its pause and what it returned.
Task == [pc : {"none", "begin", "running", "sleeping", "returned", "panicked"},
         attempt : 0 .. U32Max,
         ctx : Apps \cup {"empty"},
         last : Outcomes \cup {"none"},
         delay : 0 .. DurationMax,
         result : Errors \cup {"none", "ok"}]

\* Type invariant of the runner.
TypeOK ==
    /\ state \in Apps \cup {"empty"}
    /\ task \in [Jobs -> Task]
    /\ handle \in [Jobs -> {"none", "held", "dropped", "waiting", "consumed"}]
    /\ waited \in [Jobs -> Errors \cup {"none", "ok", "joinerror"}]

Init ==
    /\ state = "empty"
    /\ task = [j \in Jobs |-> Idle]
    /\ handle = [j \in Jobs |-> "none"]
    /\ waited = [j \in Jobs |-> "none"]

-----------------------------------------------------------------------------

Least(a, b) == IF a <= b THEN a ELSE b

\* BackoffStrategy::delay(): the power saturates at u32::MAX, the product at
\* Duration::MAX, and the result is capped.
Delay(c, retry) ==
    IF c.fixed THEN c.base
    ELSE Least(Least(c.base * Least(2 ^ retry, U32Max), DurationMax), c.max)

\* JobError::is_permanent().
IsPermanent(err) == err \in {"permanent", "missing"}

\* Mutant of TotalAttempts: one attempt too many.
TotalAttemptsOneMore(j) ==
    IF Config[j].max_retries = U32Max THEN 0 ELSE Config[j].max_retries + 2

\* `max_retries + 1` in a u32: 0 when it wraps, and a panic in a debug build.
TotalAttempts(j) == (Config[j].max_retries + 1) % (U32Max + 1)

-----------------------------------------------------------------------------

\* App start-up injects its state; OnceLock keeps the first.
Initialize(a) ==
    /\ state' = IF state = "empty" THEN a ELSE state
    /\ UNCHANGED <<task, handle, waited>>

Spawn(j) ==
    /\ task[j].pc = "none"
    /\ task' = [task EXCEPT ![j] = [Idle EXCEPT !.pc = "begin", !.ctx = state]]

\* enqueue(): get_state(), spawn, hand out the handle.
Enqueue(j) ==
    /\ Spawn(j)
    /\ handle' = [handle EXCEPT ![j] = "held"]
    /\ UNCHANGED <<state, waited>>

\* enqueue_forget(): the same task without a handle.
EnqueueForget(j) ==
    /\ Spawn(j)
    /\ handle' = [handle EXCEPT ![j] = "dropped"]
    /\ UNCHANGED <<state, waited>>

\* The caller drops its handle: tokio detaches the task.
DropHandle(j) ==
    /\ handle[j] = "held"
    /\ handle' = [handle EXCEPT ![j] = "dropped"]
    /\ UNCHANGED <<state, task, waited>>

\* The head of the loop in run_job: another attempt, or no attempt at all when
\* total_attempts wrapped to 0 and unreachable!() is reached (the debug build
\* panics at the addition).
BeginAttempt(j) ==
    /\ task[j].pc = "begin"
    /\ IF task[j].attempt < TotalAttempts(j)
       THEN task' = [task EXCEPT ![j].pc = "running", ![j].attempt = @ + 1]
       ELSE task' = [task EXCEPT ![j].pc = "panicked"]
    /\ UNCHANGED <<state, handle, waited>>

Return(j, res) ==
    task' = [task EXCEPT ![j].pc = "returned", ![j].result = res, ![j].last = res]

\* A retryable failure: returned by the last attempt, slept over by the others.
Retry(j, err) ==
    IF task[j].attempt = TotalAttempts(j) THEN Return(j, err)
    ELSE task' = [task EXCEPT ![j].pc = "sleeping", ![j].last = err,
                              ![j].delay = Delay(Config[j], task[j].attempt - 1)]

\* What the handler may answer in time.
Answers(j) ==
    IF j \in NeedsState /\ task[j].ctx = "empty" THEN {"missing"} ELSE {"ok", "failed", "permanent"}

\* Mutant of Answer: every error is retried.
AnswerRetriesAll(j) ==
    /\ task[j].pc = "running"
    /\ \E res \in Answers(j) : IF res = "ok" THEN Return(j, res) ELSE Retry(j, res)
    /\ UNCHANGED <<state, handle, waited>>

\* handle() answers before its timeout.
Answer(j) ==
    /\ task[j].pc = "running"
    /\ \E res \in Answers(j) :
          IF res = "ok" \/ IsPermanent(res) THEN Return(j, res) ELSE Retry(j, res)
    /\ UNCHANGED <<state, handle, waited>>

\* Mutant of Elapsed: a timed-out attempt is not counted.
ElapsedUncounted(j) ==
    /\ task[j].pc = "running"
    /\ task' = [task EXCEPT ![j].pc = "begin", ![j].attempt = @ - 1, ![j].last = "timeout"]
    /\ UNCHANGED <<state, handle, waited>>

\* tokio::time::timeout() drops the attempt at its await point.
Elapsed(j) ==
    /\ task[j].pc = "running"
    /\ Retry(j, "timeout")
    /\ UNCHANGED <<state, handle, waited>>

\* The handler panics: the task ends.
Panic(j) ==
    /\ task[j].pc = "running"
    /\ task' = [task EXCEPT ![j].pc = "panicked", ![j].last = "panic"]
    /\ UNCHANGED <<state, handle, waited>>

\* sleep_before_retry() is over.
Wake(j) ==
    /\ task[j].pc = "sleeping"
    /\ task' = [task EXCEPT ![j].pc = "begin"]
    /\ UNCHANGED <<state, handle, waited>>

Wait(j) ==
    /\ handle[j] = "held"
    /\ handle' = [handle EXCEPT ![j] = "waiting"]
    /\ UNCHANGED <<state, task, waited>>

\* Mutant of Waited: a panic is taken for a success.
WaitedHidesPanic(j) ==
    /\ handle[j] = "waiting" /\ task[j].pc \in {"returned", "panicked"}
    /\ handle' = [handle EXCEPT ![j] = "consumed"]
    /\ waited' = [waited EXCEPT ![j] = IF task[j].pc = "returned" THEN task[j].result ELSE "ok"]
    /\ UNCHANGED <<state, task>>

\* JobHandle::wait(): the result, or Failed around the join error.
Waited(j) ==
    /\ handle[j] = "waiting" /\ task[j].pc \in {"returned", "panicked"}
    /\ handle' = [handle EXCEPT ![j] = "consumed"]
    /\ waited' = [waited EXCEPT ![j] = IF task[j].pc = "returned" THEN task[j].result
                                       ELSE "joinerror"]
    /\ UNCHANGED <<state, task>>

\* What the runtime does by itself.
Runtime(j) ==
    BeginAttempt(j) \/ Answer(j) \/ Elapsed(j) \/ Panic(j) \/ Wake(j) \/ Waited(j)

Next ==
    \/ \E a \in Apps : Initialize(a)
    \/ \E j \in Jobs : \/ Enqueue(j) \/ EnqueueForget(j) \/ DropHandle(j) \/ Wait(j)
                       \/ Runtime(j)

Spec == Init /\ [][Next]_vars

\* The runtime polls every task and its timers fire; a handler that never answers
\* is ended by its timeout.
FairSpec == Spec /\ \A j \in Jobs : WF_vars(Runtime(j))

-----------------------------------------------------------------------------

\* No job is run more than max_retries + 1 times, in a counter that never overflows,
\* and only a job at the u32 limit ends without having run at all.
AttemptBudget ==
    /\ TypeOK
    /\ \A j \in Jobs :
         /\ task[j].attempt <= Config[j].max_retries + 1
         /\ task[j].pc = "panicked" /\ task[j].attempt = 0 => Config[j].max_retries = U32Max

\* What wait() returns is what happened: success only if the last attempt succeeded,
\* a retryable error only once every attempt is used, a permanent one at once, and a
\* join error exactly for a panic.
WaitTruthful ==
    \A j \in Jobs :
        /\ waited[j] = "ok" => task[j].last = "ok"
        /\ waited[j] \in {"failed", "timeout"} => task[j].attempt = Config[j].max_retries + 1
        /\ waited[j] \in Errors => task[j].last = waited[j]
        /\ waited[j] = "joinerror" => task[j].pc = "panicked"
        /\ handle[j] = "consumed" => waited[j] # "none"

\* No attempt starts after one that succeeded, failed for good or panicked; all
\* attempts of a job see the state of the moment it was enqueued, whatever is
\* injected meanwhile; and the pause before a retry is never above the cap and never
\* shorter than the one before it.
RetriesInOrder ==
    [][\A j \in Jobs :
          /\ task'[j].attempt > task[j].attempt => task[j].last \in {"none", "failed", "timeout"}
          /\ task[j].pc # "none" => task'[j].ctx = task[j].ctx
          /\ task[j].pc \in {"returned", "panicked"} => task'[j] = task[j]
          /\ task[j].pc = "running" /\ task'[j].pc = "sleeping" =>
                /\ task'[j].delay >= task[j].delay
                /\ Config[j].fixed \/ task'[j].delay <= Config[j].max]_vars

\* A spawned job ends, with its handle held, waited on or dropped; and a wait()
\* returns.
EveryJobEnds ==
    \A j \in Jobs :
        /\ task[j].pc = "begin" ~> task[j].pc \in {"returned", "panicked"}
        /\ handle[j] = "waiting" ~> handle[j] = "consumed"
=============================================================================
