----------------------------- MODULE JobLifecycle -----------------------------
(***************************************************************************)
(* What a job queue promises to whoever enqueues a job, with no workers,   *)
(* locks, claims or clocks: a job is queued once, is started only while it *)
(* is queued, comes back to the queue only by a failed attempt it can      *)
(* still afford, and ends completed or failed for good.                    *)
(***************************************************************************)
EXTENDS Naturals

CONSTANTS Jobs,    \* job ids
          Budgets  \* values of max_retries

VARIABLES phase,    \* where each job is
          attempts, \* failed attempts so far
          budget    \* max_retries

vars == <<phase, attempts, budget>>

Phase == {"none", "queued", "running", "completed", "failed"}

Init ==
    /\ phase = [j \in Jobs |-> "none"]
    /\ attempts = [j \in Jobs |-> 0]
    /\ budget = [j \in Jobs |-> 0]

Enqueue(j) ==
    /\ phase[j] = "none"
    /\ phase' = [phase EXCEPT ![j] = "queued"]
    /\ \E b \in Budgets : budget' = [budget EXCEPT ![j] = b]
    /\ UNCHANGED attempts

\* A batch of queued jobs is started at once.
Start(S) ==
    /\ \A j \in S : phase[j] = "queued"
    /\ phase' = [j \in Jobs |-> IF j \in S THEN "running" ELSE phase[j]]
    /\ UNCHANGED <<attempts, budget>>

Succeed(j) ==
    /\ phase[j] = "running"
    /\ phase' = [phase EXCEPT ![j] = "completed"]
    /\ UNCHANGED <<attempts, budget>>

\* A failed attempt: back to the queue while the budget lasts, else given up.
Retry(j) ==
    /\ phase[j] = "running"
    /\ attempts[j] < budget[j]
    /\ phase' = [phase EXCEPT ![j] = "queued"]
    /\ attempts' = [attempts EXCEPT ![j] = @ + 1]
    /\ UNCHANGED budget

GiveUp(j) ==
    /\ phase[j] = "running"
    /\ attempts[j] = budget[j]
    /\ phase' = [phase EXCEPT ![j] = "failed"]
    /\ attempts' = [attempts EXCEPT ![j] = @ + 1]
    /\ UNCHANGED budget

Next ==
    \/ \E j \in Jobs : Enqueue(j) \/ Succeed(j) \/ Retry(j) \/ GiveUp(j)
    \/ \E S \in SUBSET Jobs : Start(S)

Spec == Init /\ [][Next]_vars
=============================================================================
