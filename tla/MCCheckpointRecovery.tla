------------------------ MODULE MCCheckpointRecovery ------------------------
(* Finite instances of CheckpointRecovery. *)
EXTENDS CheckpointRecovery

MCSymmetry == Permutations(Page)
============================================================================
