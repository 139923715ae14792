---------------------------- MODULE MCJobManager ----------------------------
(* TLC instances of JobManager: one model for every run, sized in the cfg. *)
EXTENDS JobManagerInvariant, TLC

\* The slots for jobs are interchangeable.
Symmetry == Permutations(Jobs)
=============================================================================
