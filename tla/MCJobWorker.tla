---------------------------- MODULE MCJobWorker ----------------------------
(* TLC instances of JobWorker. *)
EXTENDS JobWorker, TLC

\* Sound for the safety runs only: jobs and workers are interchangeable there.
Symmetry == Permutations(Jobs) \cup Permutations(Workers)
=============================================================================
