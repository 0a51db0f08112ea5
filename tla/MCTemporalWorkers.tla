------------------------ MODULE MCTemporalWorkers --------------------------
(***************************************************************************)
(* A small instance of TemporalWorkers for TLC.                            *)
(***************************************************************************)
EXTENDS TemporalWorkers, TLC

Symmetry == Permutations(Queue)
=============================================================================
