--------------------------- MODULE MCCronScheduler ---------------------------
(* TLC instances of CronScheduler. *)
EXTENDS CronScheduler

\* The second entry fires in the middle of the first one's period.
MCOffset == [e \in 1 .. Entries |-> IF e = 1 THEN 0 ELSE Period \div 2]
=============================================================================
