------------------------------ MODULE MCCluster ------------------------------
(***************************************************************************)
(* Cluster for TLC.  The configurations choose how many instances there    *)
(* are, whether executors come back and whether processes end.             *)
(***************************************************************************)
EXTENDS Cluster, TLC

Symmetric == Permutations(Timers) \cup Permutations(Conns)
=============================================================================
