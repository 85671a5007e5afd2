---------------------------- MODULE Multiplexer ----------------------------
(***************************************************************************)
(* Request/response correlation on one executor connection                 *)
(* (internal/hub/multiplex.go, the callers in internal/hub/hub.go and the  *)
(* read loop of internal/hub/conn.go).                                     *)
(*                                                                         *)
(* Three kinds of goroutine share the pending map: the callers             *)
(* (dispatchToConn, SendRecovery) register, wait and unregister; the read  *)
(* pump routes responses; whoever closes the connection cancels everything.*)
(* Each section under Multiplexer.mu is one action.  RouteResponse sends   *)
(* and closes after it released the lock, so those are actions of their    *)
(* own and everything else can run between them.                           *)
(*                                                                         *)
(* A channel is named by the call that created it.  The executor is not    *)
(* part of the repository: it may answer any request ID at any time, also  *)
(* late, twice, or one that was never asked.                               *)
(***************************************************************************)
EXTENDS Naturals

CONSTANTS Calls,        \* invocations of dispatchToConn or SendRecovery
          RequestIDs,   \* envelope request IDs
          None          \* neither a call nor a request ID

ASSUME NoneAssumption == None \notin Calls /\ None \notin RequestIDs

VARIABLES pending,  \* Multiplexer.pending: the channel registered for each ID
          closed,   \* Multiplexer.closed
          pc,       \* where each call is in dispatchToConn
          req,      \* the request ID each call registered
          outcome,  \* what each call returned
          full,     \* per channel: its one-slot buffer holds a response
          closes,   \* per channel: how often it was closed
          rpc, rto  \* the read pump in RouteResponse and the channel it holds

callVars == <<pc, req, outcome>>
chanVars == <<full, closes>>
readVars == <<rpc, rto>>
vars == <<pending, closed, callVars, chanVars, readVars>>

Outcomes == {"none", "refused", "duplicate", "writeError",
             "answered", "cancelled", "timeout"}

Init ==
  /\ pending = [r \in RequestIDs |-> None]
  /\ closed = FALSE
  /\ pc = [c \in Calls |-> "idle"]
  /\ req = [c \in Calls |-> None]
  /\ outcome = [c \in Calls |-> "none"]
  /\ full = [c \in Calls |-> FALSE]
  /\ closes = [c \in Calls |-> 0]
  /\ rpc = "idle"
  /\ rto = None

(***************************************************************************)
(* The conditions and the map update the sections under the lock are built *)
(* from.                                                                   *)
(***************************************************************************)
\* Seeded faults for the runs that break the properties below.
AcceptingAlways == TRUE
FoundAny(c) == pending[req[c]] # None
FoundNever(c) == FALSE
RemovedLate(r) == pending

Accepting == ~closed

\* unregister: `c, ok := m.pending[requestID]; ok && c == ch`.
Found(c) == pending[req[c]] = c

\* delete(m.pending, requestID)
Removed(r) == [pending EXCEPT ![r] = None]

\* A closed multiplexer and an ID that is already pending are refused; the
\* caller then returns at once and has nothing to unregister.
Register(c, r) ==
  /\ pc[c] = "idle"
  /\ req' = [req EXCEPT ![c] = r]
  /\ \/ /\ ~Accepting
        /\ pc' = [pc EXCEPT ![c] = "done"]
        /\ outcome' = [outcome EXCEPT ![c] = "refused"]
        /\ UNCHANGED pending
     \/ /\ Accepting
        /\ pending[r] # None
        /\ pc' = [pc EXCEPT ![c] = "done"]
        /\ outcome' = [outcome EXCEPT ![c] = "duplicate"]
        /\ UNCHANGED pending
     \/ /\ Accepting
        /\ pending[r] = None
        /\ pc' = [pc EXCEPT ![c] = "writing"]
        /\ pending' = [pending EXCEPT ![r] = c]
        /\ UNCHANGED outcome
  /\ UNCHANGED <<closed, chanVars, readVars>>

(***************************************************************************)
(* The caller between Register and its deferred unregister.                *)
(***************************************************************************)
Leave(c, result) ==
  /\ pc' = [pc EXCEPT ![c] = "leaving"]
  /\ outcome' = [outcome EXCEPT ![c] = result]
  /\ UNCHANGED req

WriteMessage(c) ==
  /\ pc[c] = "writing"
  /\ \/ /\ pc' = [pc EXCEPT ![c] = "waiting"]
        /\ UNCHANGED <<req, outcome>>
     \/ Leave(c, "writeError")
  /\ UNCHANGED <<pending, closed, chanVars, readVars>>

\* A buffered response is received before the close of its channel is seen.
Await(c) ==
  /\ pc[c] = "waiting"
  /\ \/ /\ full[c]
        /\ full' = [full EXCEPT ![c] = FALSE]
        /\ Leave(c, "answered")
     \/ /\ ~full[c]
        /\ closes[c] > 0
        /\ Leave(c, "cancelled")
        /\ UNCHANGED full
  /\ UNCHANGED <<pending, closed, closes, readVars>>

\* A caller that never reaches its deadline.
TimeoutNever(c) == FALSE /\ UNCHANGED vars

\* The deadline may win the select although a response is already there.
Timeout(c) ==
  /\ pc[c] = "waiting"
  /\ Leave(c, "timeout")
  /\ UNCHANGED <<pending, closed, chanVars, readVars>>

Unregister(c) ==
  /\ pc[c] = "leaving"
  /\ pc' = [pc EXCEPT ![c] = "done"]
  /\ \/ /\ Found(c)
        /\ pending' = Removed(req[c])
        /\ closes' = [closes EXCEPT ![pending[req[c]]] = @ + 1]
     \/ /\ ~Found(c)
        /\ UNCHANGED <<pending, closes>>
  /\ UNCHANGED <<closed, req, outcome, full, readVars>>

(***************************************************************************)
(* RouteResponse, called by the read pump for each message with an ID: the *)
(* entry is removed under the lock, the send and the close follow outside. *)
(* A message nobody waits for goes to the hub's callback, which only logs. *)
(***************************************************************************)
\* A read pump that trusts the executor to answer only what was asked.
RouteUnasked(r) ==
  /\ rpc = "idle"
  /\ rpc' = "send"
  /\ rto' = pending[r]
  /\ pending' = Removed(r)
  /\ UNCHANGED <<closed, callVars, chanVars>>

RouteResponse(r) ==
  /\ rpc = "idle"
  /\ pending[r] # None
  /\ rpc' = "send"
  /\ rto' = pending[r]
  /\ pending' = Removed(r)
  /\ UNCHANGED <<closed, callVars, chanVars>>

RouteSend ==
  /\ rpc = "send"
  /\ ~full[rto]   \* the buffer has one slot: a full one blocks the send
  /\ full' = [full EXCEPT ![rto] = TRUE]
  /\ rpc' = "close"
  /\ UNCHANGED <<pending, closed, callVars, closes, rto>>

RouteClose ==
  /\ rpc = "close"
  /\ closes' = [closes EXCEPT ![rto] = @ + 1]
  /\ rpc' = "idle"
  /\ rto' = None
  /\ UNCHANGED <<pending, closed, callVars, full>>

\* ExecutorConn.Close calls CancelAll exactly once.
CancelAll ==
  /\ ~closed
  /\ closed' = TRUE
  /\ closes' = [c \in Calls |->
                  IF \E r \in RequestIDs : pending[r] = c THEN closes[c] + 1 ELSE closes[c]]
  /\ pending' = [r \in RequestIDs |-> None]
  /\ UNCHANGED <<callVars, full, readVars>>

CallNext(c) ==
  \/ \E r \in RequestIDs : Register(c, r)
  \/ WriteMessage(c)
  \/ Await(c)
  \/ Timeout(c)
  \/ Unregister(c)

Next ==
  \/ \E c \in Calls : CallNext(c)
  \/ \E r \in RequestIDs : RouteResponse(r)
  \/ RouteSend
  \/ RouteClose
  \/ CancelAll

Spec == Init /\ [][Next]_vars

(***************************************************************************)
(* Every goroutine that can run is scheduled, and every wait has a         *)
(* deadline (context.WithTimeout).  Nothing makes the executor answer, and *)
(* nothing makes the connection close.                                     *)
(***************************************************************************)
Fairness ==
  /\ \A c \in Calls : WF_vars(WriteMessage(c) \/ Await(c) \/ Timeout(c) \/ Unregister(c))
  /\ WF_vars(RouteSend \/ RouteClose)

FairSpec == Spec /\ Fairness
-----------------------------------------------------------------------------
CallPCs == {"idle", "writing", "waiting", "leaving", "done"}

\* The type of each variable; the read pump holds a channel unless it is idle.
TypeOK ==
  /\ pending \in [RequestIDs -> Calls \cup {None}]
  /\ closed \in BOOLEAN
  /\ pc \in [Calls -> CallPCs]
  /\ req \in [Calls -> RequestIDs \cup {None}]
  /\ outcome \in [Calls -> Outcomes]
  /\ full \in [Calls -> BOOLEAN]
  /\ closes \in [Calls -> Nat]
  /\ rpc \in {"idle", "send", "close"}
  /\ rto \in Calls \cup {None}
  /\ rto = None <=> rpc = "idle"

\* RouteResponse, unregister and CancelAll all close channels, and
\* RouteResponse does so outside the lock.  No channel is ever closed twice
\* and none is sent on after it was closed (either panics the process), and
\* the send never finds the one-slot buffer full (it would stop the read pump).
NoChannelPanic ==
  /\ \A c \in Calls : closes[c] <= 1
  /\ rpc = "send" => closes[rto] = 0 /\ ~full[rto]
  /\ rpc = "close" => closes[rto] = 0

\* Once CancelAll has run, a caller that still waits has a closed channel or
\* a response on its way: nobody sits out the whole deadline on a connection
\* that is gone, however Register, RouteResponse and CancelAll interleave.
NoStrandedWaiter ==
  closed => \A c \in Calls :
              pc[c] \in {"writing", "waiting"} => closes[c] = 1 \/ rto = c

\* Two calls never share a pending entry and a finished call leaves none
\* behind: an entry belongs to a call that is still between Register and
\* its deferred unregister, under the request ID that call registered.
PendingOwned ==
  \A r \in RequestIDs : pending[r] # None =>
    /\ req[pending[r]] = r
    /\ pc[pending[r]] \in {"writing", "waiting", "leaving"}

\* A call that reported "cancelled" was cancelled by the connection: as long
\* as CancelAll has not run, no caller is told its connection closed, and in
\* particular another call's cleanup under the same ID never closes the
\* channel of the call that registered the ID after it.
CancelledOnlyByClose ==
  \A c \in Calls : outcome[c] = "cancelled" => closed

\* Every call that enters Register returns, whatever the executor does.
CallsTerminate ==
  \A c \in Calls : pc[c] # "idle" ~> pc[c] = "done"

(***************************************************************************)
(* Refinement: where a caller stands, and whose reply was taken, read off  *)
(* the program counters, the channels and the read pump.                   *)
(***************************************************************************)
Status(c) ==
  IF outcome[c] = "none" THEN IF pc[c] = "idle" THEN "idle" ELSE "open"
  ELSE IF outcome[c] \in {"answered", "cancelled"} THEN outcome[c] ELSE "failed"

\* From the moment RouteResponse has taken the entry out of the map.
Replied == {c \in Calls : full[c] \/ rto = c \/ outcome[c] = "answered"}

Promise == INSTANCE RequestReply WITH
             status <- [c \in Calls |-> Status(c)], replied <- Replied, ended <- closed

\* The multiplexer keeps what RequestReply promises: one reply per call at
\* most, also when the executor answers twice or late, none accepted after
\* CancelAll, and every outcome final.
KeepsPromise == Promise!Spec
=============================================================================
