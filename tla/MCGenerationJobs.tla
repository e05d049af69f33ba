-------------------------- MODULE MCGenerationJobs --------------------------
(***************************************************************************)
(* Constants for checking GenerationJobs with TLC.  Jobs, workers and keys *)
(* are only compared for equality, so permuting them maps behaviours to    *)
(* behaviours; the liveness runs do not use the symmetry.                  *)
(***************************************************************************)
EXTENDS JobsBackup, TLC

JobSymmetry == Permutations(Job) \cup Permutations(Worker) \cup Permutations(Key)
=============================================================================
