--------------------------- MODULE LivenessMachine ---------------------------
(***************************************************************************)
(* The pure executor state machine (internal/liveness/machine.go).         *)
(* Transition returns a state, an action and an error; the three results   *)
(* are three operators.  The empty string is the state of an entry that    *)
(* has just been created.                                                  *)
(***************************************************************************)
States == {"", "connected", "disconnected", "dead", "deleted"}

TransitionState(current, event) ==
  CASE event = "connect" /\ current # "deleted" -> "connected"
    [] event = "disconnect" /\ current \in {"", "connected"} -> "disconnected"
    [] event = "grace_period_expired" /\ current = "disconnected" -> "dead"
    [] event = "recovery_acked" /\ current = "dead" -> "deleted"
    [] event = "delete" -> "deleted"
    [] OTHER -> current

TransitionAction(current, event) ==
  CASE event = "connect" /\ current = "disconnected" -> "cancel_grace_timer"
    [] event = "disconnect" /\ current \in {"", "connected"} -> "start_grace_timer"
    [] event = "grace_period_expired" /\ current = "disconnected" -> "trigger_recovery"
    [] event = "recovery_failed" /\ current = "dead" -> "retry_recovery"
    [] event = "recovery_acked" /\ current = "dead" -> "delete_record"
    [] event = "delete" /\ current # "deleted" -> "delete_record"
    [] OTHER -> "none"

TransitionFails(current, event) ==
  \/ current = "deleted"
  \/ /\ current \in {"", "connected"}
     /\ event \in {"grace_period_expired", "recovery_acked", "recovery_failed"}
  \/ /\ current = "disconnected"
     /\ event \in {"recovery_acked", "recovery_failed"}
=============================================================================
