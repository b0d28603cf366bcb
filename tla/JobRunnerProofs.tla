--------------------------- MODULE JobRunnerProofs ---------------------------
(***************************************************************************)
(* Proofs about JobRunner, for any jobs and configurations, any answers of *)
(* the handlers and any width of the two integer types: the attempt budget,*)
(* the truthfulness of wait() and the order of the retries.                *)
(***************************************************************************)
EXTENDS JobRunner, TLAPS

\* What the u32 sum `max_retries + 1` comes to (TotalIs).
Allowed(j) == IF Config[j].max_retries = U32Max THEN 0 ELSE Config[j].max_retries + 1

\* An attempt is counted when it begins: one is left, or the sum has wrapped, whenever
\* a task is at the head of its loop or sleeps before it.
BudgetInv ==
    \A j \in Jobs :
        /\ task[j].attempt <= Allowed(j)
        /\ task[j].pc = "none" => task[j].attempt = 0
        /\ task[j].pc = "begin" => task[j].attempt < Allowed(j) \/ Allowed(j) = 0
        /\ task[j].pc \in {"running", "sleeping", "returned"} => task[j].attempt > 0
        /\ task[j].pc = "sleeping" => task[j].attempt < Allowed(j)
        /\ task[j].pc = "panicked" /\ task[j].attempt = 0 => Allowed(j) = 0

\* A task that returned keeps the answer of its last attempt, and gave up only with all
\* attempts used; whoever waited has what the ended task left.
WaitInv ==
    \A j \in Jobs :
        /\ task[j].pc = "returned" =>
              /\ task[j].result # "none" /\ task[j].last = task[j].result
              /\ task[j].result \in {"failed", "timeout"} => task[j].attempt = Allowed(j)
        /\ waited[j] # "none" =>
              \/ task[j].pc = "returned" /\ waited[j] = task[j].result
              \/ task[j].pc = "panicked" /\ waited[j] = "joinerror"
        /\ handle[j] = "consumed" => waited[j] # "none"

IInv == TypeOK /\ BudgetInv /\ WaitInv

\* The sum modulo 2^32 is 0 for u32::MAX and exact for all others.
LEMMA TotalIs ==
    ASSUME NEW j \in Jobs
    PROVE  /\ TotalAttempts(j) = Allowed(j) /\ Allowed(j) \in Nat /\ Allowed(j) <= U32Max
           /\ Config[j].max_retries \in Nat
<1>1. /\ U32Max \in Nat /\ Config[j].max_retries \in 0 .. U32Max
      BY RunnerAssumption DEF JobConfig
<1>2. CASE Config[j].max_retries = U32Max
      BY <1>1, <1>2 DEF TotalAttempts, Allowed
<1>3. CASE Config[j].max_retries # U32Max
      BY <1>1, <1>3 DEF TotalAttempts, Allowed
<1>4. QED BY <1>1, <1>2, <1>3

\* A pause is a Duration.
LEMMA DelayType ==
    ASSUME NEW j \in Jobs, NEW n \in 0 .. U32Max
    PROVE  Delay(Config[j], n) \in 0 .. DurationMax
<1>1. /\ U32Max \in Nat /\ DurationMax \in Nat
      /\ Config[j].base \in 0 .. DurationMax /\ Config[j].max \in 0 .. DurationMax
      BY RunnerAssumption DEF JobConfig
<1>2. Least(2 ^ n, U32Max) \in Nat
      BY <1>1, PowerAssumption DEF Least
<1>3. Config[j].base * Least(2 ^ n, U32Max) \in Nat
      BY <1>1, <1>2
<1>4. QED BY <1>1, <1>3 DEF Delay, Least

\* The initial state.
LEMMA InitHolds == Init => IInv
<1> SUFFICES ASSUME Init PROVE IInv
    OBVIOUS
<1>1. TypeOK
  <2>1. Idle \in Task
        BY RunnerAssumption DEF Idle, Task
  <2>2. QED BY <2>1 DEF Init, TypeOK
<1>2. BudgetInv
  <2> SUFFICES ASSUME NEW j \in Jobs
               PROVE  task[j].pc = "none" /\ task[j].attempt = 0 /\ 0 <= Allowed(j)
      BY DEF BudgetInv
  <2> QED BY TotalIs DEF Init, Idle
<1>3. WaitInv
      BY DEF Init, WaitInv, Idle
<1>4. QED BY <1>1, <1>2, <1>3 DEF IInv

\* A step that gives one task another record of its type keeps the types.
LEMMA TypeKept ==
    ASSUME TypeOK, NEW j \in Jobs, NEW t \in Task,
           task' = [task EXCEPT ![j] = t], UNCHANGED <<state, handle, waited>>
    PROVE  TypeOK'
BY DEF TypeOK

\* A running attempt that ends the task keeps the invariant, provided that a retryable
\* error is only returned by the last one.
LEMMA ReturnKeeps ==
    ASSUME IInv, NEW j \in Jobs, NEW res \in Errors \cup {"ok"},
           task[j].pc = "running", Return(j, res), UNCHANGED <<state, handle, waited>>,
           res \in {"failed", "timeout"} => task[j].attempt = Allowed(j)
    PROVE  IInv'
<1> DEFINE t == [task[j] EXCEPT !.pc = "returned", !.result = res, !.last = res]
<1>1. TypeOK'
  <2>1. task' = [task EXCEPT ![j] = t] /\ task[j] \in Task
        BY DEF IInv, TypeOK, Return
  <2>2. res \in Outcomes \cup {"none"} /\ res \in Errors \cup {"none", "ok"}
        BY DEF Outcomes
  <2>3. t \in Task
        BY <2>1, <2>2 DEF Task
  <2> HIDE DEF t
  <2>4. QED BY <2>1, <2>3, TypeKept DEF IInv
<1>2. BudgetInv'
      BY TotalIs DEF IInv, TypeOK, Task, BudgetInv, Return, Allowed
<1>3. WaitInv'
      BY TotalIs DEF IInv, TypeOK, Task, WaitInv, Return, Errors, Allowed
<1>4. QED BY <1>1, <1>2, <1>3 DEF IInv

\* A retryable failure keeps it, whether it is the last one or slept over.
LEMMA RetryKeeps ==
    ASSUME IInv, NEW j \in Jobs, NEW err \in Errors,
           task[j].pc = "running", Retry(j, err), UNCHANGED <<state, handle, waited>>
    PROVE  IInv'
<1>1. CASE task[j].attempt = Allowed(j)
      BY <1>1, ReturnKeeps, TotalIs DEF Retry
<1>2. CASE task[j].attempt # Allowed(j)
  <2>1. /\ task[j].attempt - 1 \in 0 .. U32Max
        /\ task[j].attempt < Allowed(j)
        BY <1>2, TotalIs, RunnerAssumption DEF IInv, TypeOK, Task, BudgetInv
  <2>2. Delay(Config[j], task[j].attempt - 1) \in 0 .. DurationMax
        BY <2>1, DelayType
  <2> DEFINE d == Delay(Config[j], task[j].attempt - 1)
  <2>3. task' = [task EXCEPT ![j].pc = "sleeping", ![j].last = err, ![j].delay = d]
        BY <1>2, TotalIs DEF Retry
  <2> HIDE DEF d
  <2>4. d \in 0 .. DurationMax
        BY <2>2 DEF d
  <2>5. TypeOK'
    <3> DEFINE t == [task[j] EXCEPT !.pc = "sleeping", !.last = err, !.delay = d]
    <3>1. task' = [task EXCEPT ![j] = t] /\ task[j] \in Task
          BY <2>3 DEF IInv, TypeOK
    <3>2. err \in Outcomes \cup {"none"}
          BY DEF Outcomes
    <3>3. t \in Task
          BY <2>4, <3>1, <3>2 DEF Task
    <3> HIDE DEF t
    <3>4. QED BY <3>1, <3>3, TypeKept DEF IInv
  <2>6. BudgetInv'
        BY <2>1, <2>3, TotalIs DEF IInv, TypeOK, Task, BudgetInv, Allowed
  <2>7. WaitInv'
        BY <2>3, TotalIs DEF IInv, TypeOK, Task, WaitInv, Allowed
  <2>8. QED BY <2>5, <2>6, <2>7 DEF IInv
<1>3. QED BY <1>1, <1>2

\* Every step keeps the invariant.
LEMMA NextKeeps == IInv /\ [Next]_vars => IInv'
<1> SUFFICES ASSUME IInv, [Next]_vars PROVE IInv'
    OBVIOUS
<1>1. CASE UNCHANGED vars
      BY <1>1 DEF vars, IInv, TypeOK, BudgetInv, WaitInv, Allowed
<1>2. ASSUME NEW a \in Apps, Initialize(a) PROVE IInv'
      BY <1>2 DEF Initialize, IInv, TypeOK, BudgetInv, WaitInv, Allowed
<1>3. ASSUME NEW j \in Jobs, Enqueue(j) \/ EnqueueForget(j) PROVE IInv'
  <2> DEFINE t == [Idle EXCEPT !.pc = "begin", !.ctx = state]
  <2>1. /\ task[j].pc = "none" /\ task' = [task EXCEPT ![j] = t]
        /\ UNCHANGED <<state, waited>>
        /\ \E h \in {"held", "dropped"} : handle' = [handle EXCEPT ![j] = h]
        BY <1>3 DEF Enqueue, EnqueueForget, Spawn
  <2>2. t.pc = "begin" /\ t.attempt = 0 /\ t \in Task
    <3>1. Idle \in Task
          BY RunnerAssumption DEF Idle, Task
    <3>2. state \in Apps \cup {"empty"}
          BY DEF IInv, TypeOK
    <3>3. t \in Task
          BY <3>1, <3>2 DEF Task
    <3>4. t.pc = "begin"
          BY <3>1 DEF Task
    <3>5. t.attempt = 0
          BY DEF Idle
    <3>6. QED BY <3>3, <3>4, <3>5
  <2> HIDE DEF t
  <2>3. TypeOK'
        BY <2>1, <2>2 DEF IInv, TypeOK
  <2>4. BudgetInv'
        BY <2>1, <2>2, TotalIs, RunnerAssumption DEF IInv, TypeOK, Task, BudgetInv, Allowed
  <2>5. WaitInv'
        BY <2>1, <2>2, TotalIs, RunnerAssumption DEF IInv, TypeOK, Task, WaitInv, Allowed
  <2>6. QED BY <2>3, <2>4, <2>5 DEF IInv
<1>4. ASSUME NEW j \in Jobs, DropHandle(j) \/ Wait(j) PROVE IInv'
      BY <1>4 DEF DropHandle, Wait, IInv, TypeOK, BudgetInv, WaitInv, Allowed
<1>5. ASSUME NEW j \in Jobs, BeginAttempt(j) PROVE IInv'
  <2>1. TypeOK'
    <3> DEFINE t == IF task[j].attempt < Allowed(j)
                    THEN [task[j] EXCEPT !.pc = "running", !.attempt = @ + 1]
                    ELSE [task[j] EXCEPT !.pc = "panicked"]
    <3>1. task' = [task EXCEPT ![j] = t] /\ task[j] \in Task
          BY <1>5, TotalIs DEF BeginAttempt, IInv, TypeOK
    <3>2. task[j].attempt < Allowed(j) => task[j].attempt + 1 \in 0 .. U32Max
          BY <3>1, TotalIs, RunnerAssumption DEF Task
    <3>3. t \in Task
          BY <3>1, <3>2 DEF Task
    <3> HIDE DEF t
    <3>4. QED BY <1>5, <3>1, <3>3, TypeKept DEF IInv, BeginAttempt
  <2>2. BudgetInv'
        BY <1>5, TotalIs DEF IInv, TypeOK, Task, BudgetInv, BeginAttempt, Allowed
  <2>3. WaitInv'
    <3>1. /\ task[j].pc = "begin" /\ task'[j].pc \in {"running", "panicked"}
          /\ \A k \in Jobs \ {j} : task'[k] = task[k]
          BY <1>5 DEF IInv, TypeOK, Task, BeginAttempt
    <3>2. QED BY <1>5, <3>1 DEF IInv, WaitInv, BeginAttempt, Allowed
  <2>4. QED BY <2>1, <2>2, <2>3 DEF IInv
<1>6. ASSUME NEW j \in Jobs, Answer(j) PROVE IInv'
  <2>1. PICK res \in Answers(j) :
              IF res = "ok" \/ IsPermanent(res) THEN Return(j, res) ELSE Retry(j, res)
        BY <1>6 DEF Answer
  <2>2. res \in {"ok", "failed", "permanent", "missing"}
        BY DEF Answers
  <2>3. task[j].pc = "running" /\ UNCHANGED <<state, handle, waited>>
        BY <1>6 DEF Answer
  <2>4. CASE res = "ok" \/ IsPermanent(res)
        BY <2>1, <2>2, <2>3, <2>4, ReturnKeeps DEF IsPermanent, Errors
  <2>5. CASE ~(res = "ok" \/ IsPermanent(res))
        BY <2>1, <2>2, <2>3, <2>5, RetryKeeps DEF Errors
  <2>6. QED BY <2>4, <2>5
<1>7. ASSUME NEW j \in Jobs, Elapsed(j) PROVE IInv'
      BY <1>7, RetryKeeps DEF Elapsed, Errors
<1>8. ASSUME NEW j \in Jobs, Panic(j) \/ Wake(j) PROVE IInv'
  <2>1. TypeOK'
    <3>1. /\ task[j] \in Task /\ "panic" \in Outcomes
          /\ UNCHANGED <<state, handle, waited>>
          BY <1>8 DEF IInv, TypeOK, Outcomes, Panic, Wake
    <3>2. CASE Panic(j)
      <4> DEFINE t == [task[j] EXCEPT !.pc = "panicked", !.last = "panic"]
      <4>1. task' = [task EXCEPT ![j] = t]
            BY <3>2 DEF Panic, IInv, TypeOK
      <4>2. t \in Task
            BY <3>1 DEF Task
      <4> HIDE DEF t
      <4>3. QED BY <3>1, <4>1, <4>2, TypeKept DEF IInv
    <3>3. CASE Wake(j)
      <4> DEFINE t == [task[j] EXCEPT !.pc = "begin"]
      <4>1. task' = [task EXCEPT ![j] = t]
            BY <3>3 DEF Wake, IInv, TypeOK
      <4>2. t \in Task
            BY <3>1 DEF Task
      <4> HIDE DEF t
      <4>3. QED BY <3>1, <4>1, <4>2, TypeKept DEF IInv
    <3>4. QED BY <1>8, <3>2, <3>3
  <2>2. BudgetInv'
        BY <1>8, TotalIs DEF IInv, TypeOK, Task, BudgetInv, Panic, Wake, Allowed
  <2>3. WaitInv'
    <3>1. /\ task[j].pc \in {"running", "sleeping"} /\ task'[j].pc \in {"panicked", "begin"}
          /\ \A k \in Jobs \ {j} : task'[k] = task[k]
          /\ UNCHANGED <<handle, waited>>
          BY <1>8 DEF IInv, TypeOK, Task, Panic, Wake
    <3>2. QED BY <3>1 DEF IInv, WaitInv, Allowed
  <2>4. QED BY <2>1, <2>2, <2>3 DEF IInv
<1>9. ASSUME NEW j \in Jobs, Waited(j) PROVE IInv'
  <2>1. TypeOK'
        BY <1>9 DEF IInv, TypeOK, Task, Waited
  <2>2. BudgetInv'
        BY <1>9 DEF IInv, BudgetInv, Waited, Allowed
  <2>3. WaitInv'
        BY <1>9 DEF IInv, TypeOK, Task, WaitInv, Waited, Allowed
  <2>4. QED BY <2>1, <2>2, <2>3 DEF IInv
<1>10. QED
       BY <1>1, <1>2, <1>3, <1>4, <1>5, <1>6, <1>7, <1>8, <1>9 DEF Next, Runtime

\* IInv is an invariant of run_job() and its handles.
LEMMA Inductive == Spec => []IInv
BY InitHolds, NextKeeps, PTL DEF Spec

\* No job of run_job() is attempted more than max_retries + 1 times, whatever the width
\* of the counter, and only one at the u32 limit ends without an attempt.
THEOREM Budget == Spec => []AttemptBudget
<1>1. IInv => AttemptBudget
  <2> SUFFICES ASSUME IInv, NEW j \in Jobs
               PROVE  /\ task[j].attempt <= Config[j].max_retries + 1
                      /\ task[j].pc = "panicked" /\ task[j].attempt = 0 =>
                            Config[j].max_retries = U32Max
      BY DEF IInv, AttemptBudget
  <2>1. /\ task[j].attempt \in Nat /\ task[j].attempt <= Allowed(j)
        /\ task[j].pc = "panicked" /\ task[j].attempt = 0 => Allowed(j) = 0
        BY RunnerAssumption DEF IInv, TypeOK, Task, BudgetInv
  <2>2. QED BY <2>1, TotalIs DEF Allowed
<1>2. QED BY <1>1, Inductive, PTL

\* What JobHandle::wait() returns is what happened to the job.
THEOREM WaitTells == Spec => []WaitTruthful
<1>1. IInv => WaitTruthful
  <2> SUFFICES ASSUME IInv, NEW j \in Jobs
               PROVE  /\ waited[j] = "ok" => task[j].last = "ok"
                      /\ waited[j] \in {"failed", "timeout"} =>
                            task[j].attempt = Config[j].max_retries + 1
                      /\ waited[j] \in Errors => task[j].last = waited[j]
                      /\ waited[j] = "joinerror" => task[j].pc = "panicked"
                      /\ handle[j] = "consumed" => waited[j] # "none"
      BY DEF WaitTruthful
  <2>1. waited[j] # "none" =>
           \/ task[j].pc = "returned" /\ waited[j] = task[j].result /\ task[j].last = task[j].result
           \/ task[j].pc = "panicked" /\ waited[j] = "joinerror"
        BY DEF IInv, WaitInv
  <2>2. waited[j] \in {"failed", "timeout"} => task[j].attempt = Config[j].max_retries + 1
    <3> SUFFICES ASSUME waited[j] \in {"failed", "timeout"}
                 PROVE  task[j].attempt = Config[j].max_retries + 1
        OBVIOUS
    <3>1. task[j].attempt = Allowed(j) /\ task[j].attempt > 0
          BY <2>1 DEF IInv, BudgetInv, WaitInv
    <3>2. QED BY <3>1, TotalIs DEF Allowed
  <2>3. waited[j] = "joinerror" => task[j].pc = "panicked"
        BY <2>1 DEF IInv, TypeOK, Task, Errors
  <2>4. QED BY <2>1, <2>2, <2>3 DEF IInv, WaitInv, Errors
<1>2. QED BY <1>1, Inductive, PTL

-----------------------------------------------------------------------------
\* A task that may begin an attempt has not ended otherwise, and has not paused longer
\* than it will pause after that attempt.
OrderInv ==
    \A j \in Jobs :
        /\ task[j].pc = "none" => task[j].last = "none" /\ task[j].delay = 0
        /\ task[j].pc \in {"begin", "sleeping"} =>
              /\ task[j].last \in {"none", "failed", "timeout"}
              /\ task[j].delay <= Delay(Config[j], task[j].attempt)
        /\ task[j].pc = "running" => task[j].delay <= Delay(Config[j], task[j].attempt - 1)

\* A longer series of failures never makes the pause shorter, nor longer than the cap.
LEMMA DelayGrows ==
    ASSUME NEW j \in Jobs, NEW n \in 0 .. U32Max, n + 1 \in 0 .. U32Max
    PROVE  /\ Delay(Config[j], n) <= Delay(Config[j], n + 1)
           /\ Config[j].fixed \/ Delay(Config[j], n) <= Config[j].max
<1>1. /\ U32Max \in Nat /\ DurationMax \in Nat
      /\ Config[j].base \in Nat /\ Config[j].max \in Nat
      BY RunnerAssumption DEF JobConfig
<1>2. /\ 2 ^ n \in Nat /\ 2 ^ (n + 1) \in Nat /\ 2 ^ n <= 2 ^ (n + 1)
      BY PowerAssumption
<1>3. PICK a : a = Least(2 ^ n, U32Max)
      OBVIOUS
<1>4. PICK b : b = Least(2 ^ (n + 1), U32Max)
      OBVIOUS
<1>5. a \in Nat /\ b \in Nat /\ a <= b
      BY <1>1, <1>2, <1>3, <1>4 DEF Least
<1>6. ASSUME NEW c \in Nat PROVE c * a \in Nat /\ c * b \in Nat /\ c * a <= c * b
  <2>1. PICK d \in Nat : b = a + d
        BY <1>5
  <2>2. c * b = c * a + c * d /\ c * d \in Nat /\ c * a \in Nat
        BY <1>5, <2>1
  <2>3. QED BY <2>2
<1>7. PICK x : x = Config[j].base * a
      OBVIOUS
<1>8. PICK y : y = Config[j].base * b
      OBVIOUS
<1>9. x \in Nat /\ y \in Nat /\ x <= y
      BY <1>1, <1>6, <1>7, <1>8
<1>10. /\ Delay(Config[j], n) = IF Config[j].fixed THEN Config[j].base
                                ELSE Least(Least(x, DurationMax), Config[j].max)
       /\ Delay(Config[j], n + 1) = IF Config[j].fixed THEN Config[j].base
                                    ELSE Least(Least(y, DurationMax), Config[j].max)
       BY <1>3, <1>4, <1>7, <1>8 DEF Delay
<1>11. QED BY <1>1, <1>9, <1>10 DEF Least

\* What a step does to the task of one job, as far as its order is concerned.
LEMMA TaskSteps ==
    ASSUME IInv, [Next]_vars, NEW j \in Jobs
    PROVE  \/ task'[j] = task[j]
           \/ /\ task[j].pc = "none"
              /\ task'[j].pc = "begin" /\ task'[j].attempt = 0
              /\ task'[j].last = "none" /\ task'[j].delay = 0
           \/ /\ task[j].pc = "begin" /\ task'[j].pc = "running"
              /\ task'[j].attempt = task[j].attempt + 1 /\ task'[j].delay = task[j].delay
              /\ task'[j].ctx = task[j].ctx
           \/ /\ task[j].pc = "running" /\ task'[j].pc = "sleeping"
              /\ task'[j].attempt = task[j].attempt /\ task'[j].ctx = task[j].ctx
              /\ task'[j].last \in {"failed", "timeout"}
              /\ task'[j].delay = Delay(Config[j], task[j].attempt - 1)
              /\ task[j].attempt < Allowed(j)
           \/ /\ task[j].pc \in {"begin", "running"}
              /\ task'[j].pc \in {"returned", "panicked"}
              /\ task'[j].attempt = task[j].attempt /\ task'[j].ctx = task[j].ctx
           \/ /\ task[j].pc = "sleeping" /\ task'[j] = [task[j] EXCEPT !.pc = "begin"]
<1> USE DEF TypeOK
<1>1. task \in [Jobs -> Task]
      BY DEF IInv
<1>2. ASSUME NEW k \in Jobs, Enqueue(k) \/ EnqueueForget(k)
      PROVE  /\ task[k].pc = "none" /\ \A i \in Jobs \ {k} : task'[i] = task[i]
             /\ task'[k].pc = "begin" /\ task'[k].attempt = 0
             /\ task'[k].last = "none" /\ task'[k].delay = 0
  <2>1. task[k].pc = "none" /\ task' = [task EXCEPT ![k] = [Idle EXCEPT !.pc = "begin", !.ctx = state]]
        BY <1>2 DEF Enqueue, EnqueueForget, Spawn
  <2>2. QED BY <2>1, <1>1 DEF Idle
<1>3. ASSUME NEW k \in Jobs, BeginAttempt(k)
      PROVE  /\ task[k].pc = "begin" /\ \A i \in Jobs \ {k} : task'[i] = task[i]
             /\ task'[k].ctx = task[k].ctx
             /\ \/ /\ task'[k].pc = "running" /\ task'[k].attempt = task[k].attempt + 1
                   /\ task'[k].delay = task[k].delay
                \/ task'[k].pc = "panicked" /\ task'[k].attempt = task[k].attempt
      BY <1>1, <1>3 DEF BeginAttempt, Task
<1>4. ASSUME NEW k \in Jobs, NEW res, Return(k, res)
      PROVE  /\ task'[k].pc = "returned" /\ \A i \in Jobs \ {k} : task'[i] = task[i]
             /\ task'[k].attempt = task[k].attempt /\ task'[k].ctx = task[k].ctx
      BY <1>1, <1>4 DEF Return, Task
<1>5. ASSUME NEW k \in Jobs, NEW err \in {"failed", "timeout"}, task[k].pc = "running", Retry(k, err)
      PROVE  /\ \A i \in Jobs \ {k} : task'[i] = task[i]
             /\ task'[k].attempt = task[k].attempt /\ task'[k].ctx = task[k].ctx
             /\ \/ task'[k].pc = "returned"
                \/ /\ task'[k].pc = "sleeping" /\ task'[k].last \in {"failed", "timeout"}
                   /\ task'[k].delay = Delay(Config[k], task[k].attempt - 1)
                   /\ task[k].attempt < Allowed(k)
  <2>1. CASE task[k].attempt = TotalAttempts(k)
        BY <1>5, <2>1, <1>4 DEF Retry
  <2>2. CASE task[k].attempt # TotalAttempts(k)
    <3>1. PICK d : d = Delay(Config[k], task[k].attempt - 1)
          OBVIOUS
    <3>2. task' = [task EXCEPT ![k].pc = "sleeping", ![k].last = err, ![k].delay = d]
          BY <1>5, <2>2, <3>1 DEF Retry
    <3>3. /\ \A i \in Jobs \ {k} : task'[i] = task[i]
          /\ task'[k].attempt = task[k].attempt /\ task'[k].ctx = task[k].ctx
          /\ task'[k].pc = "sleeping" /\ task'[k].last = err /\ task'[k].delay = d
          BY <3>2, <1>1 DEF Task
    <3>4. task[k].attempt \in Nat /\ task[k].attempt <= Allowed(k) /\ task[k].attempt # Allowed(k)
          BY <2>2, <1>1, TotalIs, RunnerAssumption DEF IInv, BudgetInv, Task
    <3>5. task[k].attempt < Allowed(k)
          BY <3>4, TotalIs
    <3>6. QED BY <3>1, <3>3, <3>5
  <2>3. QED BY <2>1, <2>2
<1>6. ASSUME NEW k \in Jobs, Answer(k) \/ Elapsed(k)
      PROVE  /\ task[k].pc = "running" /\ \A i \in Jobs \ {k} : task'[i] = task[i]
             /\ task'[k].attempt = task[k].attempt /\ task'[k].ctx = task[k].ctx
             /\ \/ task'[k].pc = "returned"
                \/ /\ task'[k].pc = "sleeping" /\ task'[k].last \in {"failed", "timeout"}
                   /\ task'[k].delay = Delay(Config[k], task[k].attempt - 1)
                   /\ task[k].attempt < Allowed(k)
  <2>1. CASE Elapsed(k)
        BY <2>1, <1>5 DEF Elapsed
  <2>2. CASE Answer(k)
    <3>1. PICK res \in Answers(k) :
              IF res = "ok" \/ IsPermanent(res) THEN Return(k, res) ELSE Retry(k, res)
          BY <2>2 DEF Answer
    <3>2. res \in {"ok", "failed", "permanent", "missing"} /\ task[k].pc = "running"
          BY <2>2 DEF Answers, Answer
    <3>3. CASE res = "ok" \/ IsPermanent(res)
          BY <3>1, <3>2, <3>3, <1>4
    <3>4. CASE ~(res = "ok" \/ IsPermanent(res))
      <4>1. res = "failed" /\ Retry(k, res)
            BY <3>1, <3>2, <3>4 DEF IsPermanent
      <4>2. QED BY <4>1, <3>2, <1>5
    <3>5. QED BY <3>3, <3>4
  <2>3. QED BY <1>6, <2>1, <2>2
<1>7. ASSUME NEW k \in Jobs, Panic(k)
      PROVE  /\ task[k].pc = "running" /\ \A i \in Jobs \ {k} : task'[i] = task[i]
             /\ task'[k].pc = "panicked"
             /\ task'[k].attempt = task[k].attempt /\ task'[k].ctx = task[k].ctx
      BY <1>1, <1>7 DEF Panic, Task
<1>8. ASSUME NEW k \in Jobs, Wake(k)
      PROVE  /\ task[k].pc = "sleeping" /\ \A i \in Jobs \ {k} : task'[i] = task[i]
             /\ task'[k] = [task[k] EXCEPT !.pc = "begin"]
      BY <1>1, <1>8 DEF Wake, Task
<1>9. CASE \/ UNCHANGED vars \/ \E a \in Apps : Initialize(a)
           \/ \E k \in Jobs : DropHandle(k) \/ Wait(k) \/ Waited(k)
      BY <1>9 DEF vars, Initialize, DropHandle, Wait, Waited
<1>10. CASE \E k \in Jobs : Enqueue(k) \/ EnqueueForget(k)
       BY <1>10, <1>2
<1>11. CASE \E k \in Jobs : BeginAttempt(k)
       BY <1>11, <1>3
<1>12. CASE \E k \in Jobs : Answer(k) \/ Elapsed(k)
       BY <1>12, <1>6
<1>13. CASE \E k \in Jobs : Panic(k) \/ Wake(k)
       BY <1>13, <1>7, <1>8
<1>14. QED BY <1>9, <1>10, <1>11, <1>12, <1>13 DEF Next, Runtime

\* The order is kept.
LEMMA OrderKept == IInv /\ OrderInv /\ [Next]_vars => OrderInv'
<1> DEFINE Ordered(t, c) ==
        /\ t.pc = "none" => t.last = "none" /\ t.delay = 0
        /\ t.pc \in {"begin", "sleeping"} =>
              t.last \in {"none", "failed", "timeout"} /\ t.delay <= Delay(c, t.attempt)
        /\ t.pc = "running" => t.delay <= Delay(c, t.attempt - 1)
<1> SUFFICES ASSUME IInv, OrderInv, [Next]_vars, NEW j \in Jobs
             PROVE  Ordered(task'[j], Config[j])
    BY DEF OrderInv
<1> DEFINE t == task[j]
           u == task'[j]
           c == Config[j]
<1>1. Ordered(t, c) /\ t \in Task
      BY DEF OrderInv, IInv, TypeOK
<1>2. /\ t.attempt \in 0 .. U32Max /\ t.delay \in 0 .. DurationMax
      /\ U32Max \in Nat /\ DurationMax \in Nat
      BY <1>1, RunnerAssumption DEF Task
<1>3. CASE u = t
      BY <1>1, <1>3
<1>4. CASE u.pc = "begin" /\ u.attempt = 0 /\ u.last = "none" /\ u.delay = 0
  <2>1. Delay(c, 0) \in 0 .. DurationMax
        BY <1>2, DelayType
  <2>2. QED BY <1>4, <2>1, <1>2
<1>5. CASE /\ t.pc = "begin" /\ u.pc = "running"
           /\ u.attempt = t.attempt + 1 /\ u.delay = t.delay
  <2>1. u.attempt - 1 = t.attempt
        BY <1>5, <1>2
  <2>2. QED BY <1>5, <2>1, <1>1
<1>6. CASE /\ t.pc = "running" /\ u.pc = "sleeping" /\ u.attempt = t.attempt
           /\ u.last \in {"failed", "timeout"} /\ u.delay = Delay(c, t.attempt - 1)
  <2>1. t.attempt > 0
        BY <1>6 DEF IInv, BudgetInv
  <2>2. PICK n \in 0 .. U32Max : n = t.attempt - 1 /\ n + 1 = t.attempt
        BY <2>1, <1>2
  <2>3. Delay(c, n) <= Delay(c, n + 1)
        BY <2>2, <1>2, DelayGrows
  <2>4. QED BY <1>6, <2>2, <2>3
<1>7. CASE u.pc \in {"returned", "panicked"}
      BY <1>7
<1>8. CASE t.pc = "sleeping" /\ u = [t EXCEPT !.pc = "begin"]
  <2>1. u.pc = "begin" /\ u.last = t.last /\ u.delay = t.delay /\ u.attempt = t.attempt
        BY <1>8, <1>1 DEF Task
  <2>2. QED BY <1>8, <2>1, <1>1
<1> HIDE DEF Ordered
<1>9. QED BY <1>3, <1>4, <1>5, <1>6, <1>7, <1>8, TaskSteps

\* Retries go on only after failures that may pass, with the state of the enqueue, and
\* with pauses that grow up to the cap; an ended task stays as it is.
THEOREM Retries == Spec => RetriesInOrder
<1> DEFINE A ==
        \A j \in Jobs :
          /\ task'[j].attempt > task[j].attempt => task[j].last \in {"none", "failed", "timeout"}
          /\ task[j].pc # "none" => task'[j].ctx = task[j].ctx
          /\ task[j].pc \in {"returned", "panicked"} => task'[j] = task[j]
          /\ task[j].pc = "running" /\ task'[j].pc = "sleeping" =>
                /\ task'[j].delay >= task[j].delay
                /\ Config[j].fixed \/ task'[j].delay <= Config[j].max
<1>1. Init => OrderInv
  <2> SUFFICES ASSUME Init PROVE OrderInv
      OBVIOUS
  <2>1. \A j \in Jobs : task[j] = Idle
        BY DEF Init
  <2>2. Idle.pc = "none" /\ Idle.last = "none" /\ Idle.delay = 0
        BY DEF Idle
  <2>3. QED BY <2>1, <2>2 DEF OrderInv
<1>2. IInv /\ OrderInv /\ [Next]_vars => [A]_vars
  <2> SUFFICES ASSUME IInv, OrderInv, [Next]_vars PROVE A
      OBVIOUS
  <2> SUFFICES ASSUME NEW j \in Jobs
      PROVE  /\ task'[j].attempt > task[j].attempt =>
                    task[j].last \in {"none", "failed", "timeout"}
             /\ task[j].pc # "none" => task'[j].ctx = task[j].ctx
             /\ task[j].pc \in {"returned", "panicked"} => task'[j] = task[j]
             /\ task[j].pc = "running" /\ task'[j].pc = "sleeping" =>
                   /\ task'[j].delay >= task[j].delay
                   /\ Config[j].fixed \/ task'[j].delay <= Config[j].max
      OBVIOUS
  <2>1. /\ task[j] \in Task /\ task[j].attempt \in 0 .. U32Max
        /\ task[j].delay \in 0 .. DurationMax /\ U32Max \in Nat /\ DurationMax \in Nat
        BY RunnerAssumption DEF IInv, TypeOK, Task
  <2>2. task'[j].attempt > task[j].attempt => task[j].last \in {"none", "failed", "timeout"}
    <3>1. CASE task[j].pc = "none"
          BY <3>1 DEF OrderInv
    <3>2. CASE task[j].pc = "begin"
          BY <3>2 DEF OrderInv
    <3>3. CASE task[j].pc \notin {"none", "begin"}
      <4>1. task'[j].attempt = task[j].attempt
            BY <3>3, <2>1, TaskSteps DEF Task
      <4>2. QED BY <4>1, <2>1
    <3>4. QED BY <3>1, <3>2, <3>3
  <2>3. task[j].pc # "none" => task'[j].ctx = task[j].ctx
        BY <2>1, TaskSteps DEF Task
  <2>4. task[j].pc \in {"returned", "panicked"} => task'[j] = task[j]
        BY TaskSteps
  <2>5. ASSUME task[j].pc = "running", task'[j].pc = "sleeping"
        PROVE  /\ task'[j].delay >= task[j].delay
               /\ Config[j].fixed \/ task'[j].delay <= Config[j].max
    <3>1. task'[j].delay = Delay(Config[j], task[j].attempt - 1)
          BY <2>5, TaskSteps
    <3>2. task[j].attempt > 0 /\ task[j].delay <= Delay(Config[j], task[j].attempt - 1)
          BY <2>5 DEF IInv, BudgetInv, OrderInv
    <3>3. PICK n \in 0 .. U32Max : n = task[j].attempt - 1 /\ n + 1 \in 0 .. U32Max
          BY <3>2, <2>1
    <3>4. Config[j].fixed \/ Delay(Config[j], n) <= Config[j].max
          BY <3>3, DelayGrows
    <3>5. Delay(Config[j], n) \in 0 .. DurationMax
          BY DelayType
    <3>6. QED BY <2>1, <3>1, <3>2, <3>3, <3>4, <3>5
  <2>6. QED BY <2>2, <2>3, <2>4, <2>5
<1>3. RetriesInOrder <=> [][A]_vars
      BY DEF RetriesInOrder
<1>4. QED BY <1>1, <1>2, <1>3, InitHolds, NextKeeps, OrderKept, PTL DEF Spec
=============================================================================
