------------------------- MODULE MCLivenessManager -------------------------
(***************************************************************************)
(* The manager of one instance and one executor under callers that may     *)
(* call in any order, with a second instance that writes the table.  Two   *)
(* timers allow a stale watcher beside a current one.                      *)
(***************************************************************************)
EXTENDS LivenessManager, TLC

Symmetric == Permutations(Timers)
=============================================================================
