---------------------------- MODULE MCJobManager ----------------------------
(* Instances of JobManager for TLC. *)
EXTENDS JobManager, TLC

WorkerSymmetry == Permutations(Workers)
=============================================================================
