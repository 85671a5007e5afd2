---------------------------- MODULE RequestReply ----------------------------
(***************************************************************************)
(* What the multiplexer promises its callers, without request IDs, maps,   *)
(* channels or locks: a call that was let in gets at most one reply, and   *)
(* returns exactly once, with that reply, with the news that the           *)
(* connection ended, or with a failure of its own.                         *)
(***************************************************************************)
CONSTANT Calls

VARIABLES status,   \* what the caller knows
          replied,  \* the calls a reply was accepted for
          ended     \* the connection is gone

vars == <<status, replied, ended>>

Init ==
  /\ status = [c \in Calls |-> "idle"]
  /\ replied = {}
  /\ ended = FALSE

\* Nobody is let in once the connection has ended.
Begin(c) ==
  /\ status[c] = "idle" /\ ~ended
  /\ status' = [status EXCEPT ![c] = "open"]
  /\ UNCHANGED <<replied, ended>>

Refuse(c) ==
  /\ status[c] = "idle"
  /\ status' = [status EXCEPT ![c] = "failed"]
  /\ UNCHANGED <<replied, ended>>

\* A reply may still be accepted for a call that has just given up, but not
\* for one that never began, has returned its reply, or lost its connection.
Reply(c) ==
  /\ status[c] \in {"open", "failed"} /\ ~ended
  /\ c \notin replied
  /\ replied' = replied \cup {c}
  /\ UNCHANGED <<status, ended>>

\* The call returns the reply that was accepted for it.
Answer(c) ==
  /\ status[c] = "open" /\ c \in replied
  /\ status' = [status EXCEPT ![c] = "answered"]
  /\ UNCHANGED <<replied, ended>>

\* "connection closed" is only ever said of a connection that has ended.
Cancel(c) ==
  /\ status[c] = "open" /\ ended
  /\ status' = [status EXCEPT ![c] = "cancelled"]
  /\ UNCHANGED <<replied, ended>>

\* The write failed or the deadline passed.
GiveUp(c) ==
  /\ status[c] = "open"
  /\ status' = [status EXCEPT ![c] = "failed"]
  /\ UNCHANGED <<replied, ended>>

End ==
  /\ ~ended
  /\ ended' = TRUE
  /\ UNCHANGED <<status, replied>>

Next ==
  \/ \E c \in Calls : Begin(c) \/ Refuse(c) \/ Reply(c) \/ Answer(c) \/ Cancel(c) \/ GiveUp(c)
  \/ End

Spec == Init /\ [][Next]_vars
=============================================================================
