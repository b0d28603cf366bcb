----------------------------- MODULE MCJobRunner -----------------------------
(* TLC instances of JobRunner: configurations as #[derive(Job)] builds them. *)
EXTENDS JobRunner, JobDerive

\* Job 1 has a hand-written config() that reaches its cap and needs application
\* state, job 2 is derived and asks for the largest number of retries.
MCConfig ==
    [j \in Jobs |->
        IF j = 1 THEN [max_retries |-> 2, base |-> 2, max |-> 3, fixed |-> FALSE]
        ELSE ToRunner(DeriveConfig(<<Field("retries", U32Max), Field("backoff", "fixed")>>))]
=============================================================================
