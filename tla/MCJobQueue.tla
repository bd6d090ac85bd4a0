---------------------------- MODULE MCJobQueue ----------------------------
(* JobQueue on small sets of workers and jobs. *)
EXTENDS JobQueue, TLC

Symmetry == Permutations(Worker) \cup Permutations(Job)
=============================================================================
