--------------------------- MODULE MCWorkflowDAG ----------------------------
(***************************************************************************)
(* Workflows of up to four steps, enough for a root card that is wider     *)
(* than the least canvas, with up to two children under short and long     *)
(* titles.                                                                 *)
(***************************************************************************)
EXTENDS WorkflowDAG
=============================================================================
