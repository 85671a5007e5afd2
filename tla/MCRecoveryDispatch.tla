------------------------- MODULE MCRecoveryDispatch -------------------------
(***************************************************************************)
(* Two calls at once for one dead executor, with two peers that may run    *)
(* its version or another one.                                             *)
(***************************************************************************)
EXTENDS RecoveryDispatch, TLC

Symmetric == Permutations(Peers)
=============================================================================
