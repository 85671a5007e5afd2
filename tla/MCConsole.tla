----------------------------- MODULE MCConsole ------------------------------
(***************************************************************************)
(* Two organisations that share an application name, two applications in   *)
(* the first of them, and a workflow in each of those.                     *)
(***************************************************************************)
EXTENDS Console, TLC

CONSTANTS o1, o2, a1, a2, w1

MCRegistered == (o1 :> {a1, a2}) @@ (o2 :> {a1})
MCOwner == [w \in Workflows |-> [org |-> o1, app |-> IF w = w1 THEN a1 ELSE a2]]
=============================================================================
