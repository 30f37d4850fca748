-------------------------- MODULE MCCheckpointStore --------------------------
(* Model values and symmetry for CheckpointStore. *)
EXTENDS CheckpointStore, TLC

Symmetry == Permutations(Owners) \cup Permutations(Contents)
=============================================================================
