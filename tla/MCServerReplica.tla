-------------------------- MODULE MCServerReplica ---------------------------
(***************************************************************************)
(* Small instances of ServerReplica for TLC.                               *)
(***************************************************************************)
EXTENDS ServerReplica, TLC

Symmetry == Permutations(GrpcCall) \cup Permutations(Topic)
=============================================================================
