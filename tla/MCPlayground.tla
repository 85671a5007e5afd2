---------------------------- MODULE MCPlayground ----------------------------
(***************************************************************************)
(* The directory of relay-bridge.js with one built-in and one custom role, *)
(* two members, of whom one cannot be changed for her name, a queue that   *)
(* may drive autoscaling and one that may not.                             *)
(***************************************************************************)
EXTENDS Playground

MCDraws == <<1, 2, 2>>
MCSeedMembers == [u \in {"bob", "forky"} |-> "viewer"]
=============================================================================
