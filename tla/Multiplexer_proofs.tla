------------------------- MODULE Multiplexer_proofs -------------------------
(***************************************************************************)
(* Proofs about the multiplexer, for any number of callers and IDs.        *)
(***************************************************************************)
EXTENDS Multiplexer, TLAPS

(***************************************************************************)
(* The inductive invariant.  What makes the close outside the lock safe is *)
(* that a channel is reachable in exactly one way at a time: through the   *)
(* pending map, or through the read pump that took it out of the map, or   *)
(* through neither.                                                        *)
(***************************************************************************)
Engaged(c) == pc[c] \in {"writing", "waiting"}

\* A channel in the map is open and empty, and the read pump does not hold it.
PendingFresh ==
  \A r \in RequestIDs : pending[r] # None =>
    /\ closes[pending[r]] = 0
    /\ ~full[pending[r]]
    /\ rto # pending[r]

\* A call that has not registered yet has touched nothing.
IdleFresh ==
  \A c \in Calls :
    /\ pc[c] = "idle" => closes[c] = 0 /\ ~full[c] /\ rto # c
    /\ pc[c] # "idle" => req[c] \in RequestIDs

\* A caller that still waits can still be reached, or was already served.
Reachable ==
  \A c \in Calls : Engaged(c) =>
    pending[req[c]] = c \/ closes[c] = 1 \/ rto = c

\* What the read pump is about to close, or has closed, holds its message.
ServedFirst ==
  \A c \in Calls : Engaged(c) =>
    /\ rpc = "close" /\ rto = c => full[c]
    /\ ~closed /\ closes[c] = 1 => full[c]

ClosedIsEmpty == closed => \A r \in RequestIDs : pending[r] = None

IndInv ==
  /\ TypeOK
  /\ NoChannelPanic
  /\ PendingOwned
  /\ PendingFresh
  /\ IdleFresh
  /\ Reachable
  /\ ServedFirst
  /\ ClosedIsEmpty
  /\ CancelledOnlyByClose

\* Nothing is registered, sent or closed at the start.
LEMMA MuxInit == Init => IndInv
<1> SUFFICES ASSUME Init PROVE IndInv
  OBVIOUS
<1> USE NoneAssumption DEF Init
<1>1. TypeOK
  BY DEF TypeOK, CallPCs, Outcomes
<1>2. NoChannelPanic /\ PendingOwned /\ PendingFresh /\ IdleFresh
  BY DEF NoChannelPanic, PendingOwned, PendingFresh, IdleFresh
<1>3. Reachable /\ ServedFirst /\ ClosedIsEmpty /\ CancelledOnlyByClose
  BY DEF Reachable, ServedFirst, ClosedIsEmpty, CancelledOnlyByClose, Engaged
<1> QED
  BY <1>1, <1>2, <1>3 DEF IndInv

\* Each section of the multiplexer, and each step of its callers and of the
\* read pump, preserves the invariant.
LEMMA MuxStep == IndInv /\ [Next]_vars => IndInv'
<1> SUFFICES ASSUME IndInv, [Next]_vars PROVE IndInv'
  OBVIOUS
<1> USE NoneAssumption DEF IndInv, TypeOK, CallPCs, Outcomes, callVars, chanVars, readVars, Leave
<1>1. ASSUME NEW c \in Calls, NEW r \in RequestIDs, Register(c, r) PROVE IndInv'
  <2> USE <1>1 DEF Register, Accepting
  <2>1. TypeOK'
    OBVIOUS
  <2>2. NoChannelPanic' /\ ClosedIsEmpty' /\ CancelledOnlyByClose'
    BY DEF NoChannelPanic, ClosedIsEmpty, CancelledOnlyByClose
  <2>3. PendingOwned' /\ PendingFresh'
    BY DEF PendingOwned, PendingFresh, IdleFresh
  <2>4. IdleFresh' /\ Reachable' /\ ServedFirst'
    BY DEF IdleFresh, Reachable, ServedFirst, Engaged, PendingOwned
  <2> QED
    BY <2>1, <2>2, <2>3, <2>4
<1>2. ASSUME NEW c \in Calls, WriteMessage(c) \/ Timeout(c) PROVE IndInv'
  BY <1>2
  DEF WriteMessage, Timeout, NoChannelPanic, PendingOwned, PendingFresh, IdleFresh,
      Reachable, ServedFirst, ClosedIsEmpty, CancelledOnlyByClose, Engaged
<1>3. ASSUME NEW c \in Calls, Await(c) PROVE IndInv'
  <2> USE <1>3 DEF Await
  <2>1. TypeOK'
    OBVIOUS
  <2>2. NoChannelPanic' /\ ClosedIsEmpty'
    BY DEF NoChannelPanic, ClosedIsEmpty
  <2>3. PendingOwned' /\ PendingFresh' /\ IdleFresh'
    BY DEF PendingOwned, PendingFresh, IdleFresh
  <2>4. Reachable' /\ ServedFirst' /\ CancelledOnlyByClose'
    BY DEF Reachable, ServedFirst, CancelledOnlyByClose, Engaged, NoChannelPanic
  <2> QED
    BY <2>1, <2>2, <2>3, <2>4
<1>4. ASSUME NEW c \in Calls, Unregister(c) PROVE IndInv'
  <2> USE <1>4 DEF Unregister, Found, Removed
  <2>1. TypeOK'
    OBVIOUS
  <2>2. NoChannelPanic' /\ ClosedIsEmpty' /\ CancelledOnlyByClose'
    BY DEF NoChannelPanic, ClosedIsEmpty, CancelledOnlyByClose, PendingFresh, IdleFresh
  <2>3. PendingOwned' /\ PendingFresh' /\ IdleFresh'
    BY DEF PendingOwned, PendingFresh, IdleFresh
  <2>4. Reachable' /\ ServedFirst'
    BY DEF Reachable, ServedFirst, Engaged, PendingOwned, IdleFresh
  <2> QED
    BY <2>1, <2>2, <2>3, <2>4
<1>5. ASSUME NEW r \in RequestIDs, RouteResponse(r) PROVE IndInv'
  <2> USE <1>5 DEF RouteResponse, Removed
  <2>1. TypeOK'
    OBVIOUS
  <2>2. NoChannelPanic' /\ ClosedIsEmpty' /\ CancelledOnlyByClose'
    BY DEF NoChannelPanic, ClosedIsEmpty, CancelledOnlyByClose, PendingFresh
  <2>3. PendingOwned' /\ PendingFresh' /\ IdleFresh'
    BY DEF PendingOwned, PendingFresh, IdleFresh
  <2>4. Reachable' /\ ServedFirst'
    BY DEF Reachable, ServedFirst, Engaged, PendingOwned, PendingFresh
  <2> QED
    BY <2>1, <2>2, <2>3, <2>4
<1>6. ASSUME RouteSend PROVE IndInv'
  <2> USE <1>6 DEF RouteSend
  <2>1. TypeOK'
    OBVIOUS
  <2>2. NoChannelPanic' /\ ClosedIsEmpty' /\ CancelledOnlyByClose'
    BY DEF NoChannelPanic, ClosedIsEmpty, CancelledOnlyByClose
  <2>3. PendingOwned' /\ PendingFresh' /\ IdleFresh'
    BY DEF PendingOwned, PendingFresh, IdleFresh
  <2>4. Reachable' /\ ServedFirst'
    BY DEF Reachable, ServedFirst, Engaged, NoChannelPanic
  <2> QED
    BY <2>1, <2>2, <2>3, <2>4
<1>7. ASSUME RouteClose PROVE IndInv'
  <2> USE <1>7 DEF RouteClose
  <2>1. TypeOK'
    OBVIOUS
  <2>2. NoChannelPanic' /\ ClosedIsEmpty' /\ CancelledOnlyByClose'
    BY DEF NoChannelPanic, ClosedIsEmpty, CancelledOnlyByClose
  <2>3. PendingOwned' /\ PendingFresh' /\ IdleFresh'
    BY DEF PendingOwned, PendingFresh, IdleFresh
  <2>4. Reachable' /\ ServedFirst'
    BY DEF Reachable, ServedFirst, Engaged, NoChannelPanic
  <2> QED
    BY <2>1, <2>2, <2>3, <2>4
<1>8. ASSUME CancelAll PROVE IndInv'
  <2> USE <1>8 DEF CancelAll
  <2>1. TypeOK'
    OBVIOUS
  <2>2. NoChannelPanic' /\ ClosedIsEmpty' /\ CancelledOnlyByClose'
    BY DEF NoChannelPanic, ClosedIsEmpty, CancelledOnlyByClose, PendingFresh
  <2>3. PendingOwned' /\ PendingFresh' /\ IdleFresh'
    BY DEF PendingOwned, PendingFresh, IdleFresh
  <2>4. Reachable' /\ ServedFirst'
    BY DEF Reachable, ServedFirst, Engaged, PendingFresh, IdleFresh
  <2> QED
    BY <2>1, <2>2, <2>3, <2>4
<1>9. CASE UNCHANGED vars
  BY <1>9
  DEF vars, callVars, chanVars, readVars, NoChannelPanic, PendingOwned, PendingFresh, IdleFresh,
      Reachable, ServedFirst, ClosedIsEmpty, CancelledOnlyByClose, Engaged
<1> QED
  BY <1>1, <1>2, <1>3, <1>4, <1>5, <1>6, <1>7, <1>8, <1>9 DEF Next, CallNext

\* The multiplexer keeps its types, whatever callers, executor and close do.
THEOREM MuxTypeCorrect == Spec => []TypeOK
<1>1. IndInv => TypeOK
  BY DEF IndInv
<1> QED
  BY <1>1, MuxInit, MuxStep, PTL DEF Spec

\* RouteResponse, unregister and CancelAll never close a channel twice, send
\* on a closed one, or block on a full one.
THEOREM MuxNeverPanics == Spec => []NoChannelPanic
<1>1. IndInv => NoChannelPanic
  BY DEF IndInv
<1> QED
  BY <1>1, MuxInit, MuxStep, PTL DEF Spec

\* After CancelAll no caller waits for a response that cannot come.
THEOREM MuxStrandsNobody == Spec => []NoStrandedWaiter
<1>1. IndInv => NoStrandedWaiter
  BY NoneAssumption
  DEF IndInv, NoStrandedWaiter, Reachable, ClosedIsEmpty, Engaged, IdleFresh, TypeOK
<1> QED
  BY <1>1, MuxInit, MuxStep, PTL DEF Spec

\* Callers hear "connection closed" only from a closed connection.
THEOREM MuxCancelsOnlyOnClose == Spec => []CancelledOnlyByClose
<1>1. IndInv => CancelledOnlyByClose
  BY DEF IndInv
<1> QED
  BY <1>1, MuxInit, MuxStep, PTL DEF Spec

\* An entry of the map always belongs to a call that will unregister it.
THEOREM MuxPendingOwned == Spec => []PendingOwned
<1>1. IndInv => PendingOwned
  BY DEF IndInv
<1> QED
  BY <1>1, MuxInit, MuxStep, PTL DEF Spec

(***************************************************************************)
(* Refinement.  What the invariant lacks is that the entry of a call whose *)
(* outcome is an answer is gone, and that a call knows its outcome when it *)
(* leaves and not before.                                                  *)
(***************************************************************************)
OutcomeSettled ==
  \A c \in Calls :
    /\ pc[c] \in {"idle", "writing", "waiting"} <=> outcome[c] = "none"
    /\ outcome[c] = "answered" => \A r \in RequestIDs : pending[r] # c

\* What the read pump has sent is in the channel until its caller returns it.
TakenHolds == rpc = "close" => full[rto] \/ outcome[rto] = "answered"

\* Init establishes both and every step keeps them, given IndInv.
LEMMA OutcomeInit == Init => OutcomeSettled /\ TakenHolds
  BY NoneAssumption DEF Init, OutcomeSettled, TakenHolds

LEMMA OutcomeStep == IndInv /\ OutcomeSettled /\ TakenHolds /\ [Next]_vars
                      => OutcomeSettled' /\ TakenHolds'
<1> SUFFICES ASSUME IndInv, OutcomeSettled, TakenHolds, [Next]_vars
             PROVE OutcomeSettled' /\ TakenHolds'
  OBVIOUS
<1> USE NoneAssumption DEF OutcomeSettled, TakenHolds, IndInv, TypeOK, CallPCs, Outcomes,
        callVars, chanVars, readVars, Leave
<1>1. ASSUME NEW c \in Calls, NEW r \in RequestIDs, Register(c, r) PROVE OutcomeSettled' /\ TakenHolds'
  BY <1>1 DEF Register
<1>2. ASSUME NEW c \in Calls, WriteMessage(c) \/ Timeout(c) PROVE OutcomeSettled' /\ TakenHolds'
  BY <1>2 DEF WriteMessage, Timeout
<1>3. ASSUME NEW c \in Calls, Await(c) PROVE OutcomeSettled' /\ TakenHolds'
  BY <1>3 DEF Await, PendingFresh
<1>4. ASSUME NEW c \in Calls, Unregister(c) PROVE OutcomeSettled' /\ TakenHolds'
  BY <1>4 DEF Unregister, Removed
<1>5. ASSUME NEW r \in RequestIDs, RouteResponse(r) PROVE OutcomeSettled' /\ TakenHolds'
  BY <1>5 DEF RouteResponse, Removed
<1>6. CASE RouteSend \/ RouteClose \/ CancelAll
  BY <1>6 DEF RouteSend, RouteClose, CancelAll
<1>7. CASE UNCHANGED vars
  BY <1>7 DEF vars
<1> QED
  BY <1>1, <1>2, <1>3, <1>4, <1>5, <1>6, <1>7 DEF Next, CallNext

\* Every step of the multiplexer is a step of RequestReply, or none at all.
LEMMA PromiseStep ==
  IndInv /\ OutcomeSettled /\ TakenHolds /\ OutcomeSettled' /\ [Next]_vars
    => [Promise!Next]_Promise!vars
<1> SUFFICES ASSUME IndInv, OutcomeSettled, TakenHolds, OutcomeSettled', [Next]_vars
             PROVE [Promise!Next]_Promise!vars
  OBVIOUS
<1> USE NoneAssumption DEF IndInv, TypeOK, CallPCs, Outcomes, callVars, chanVars, readVars, Leave
<1> DEFINE Same == \A d \in Calls : Status(d)' = Status(d)
           Becomes(c, v) == \A d \in Calls : Status(d)' = IF d = c THEN v ELSE Status(d)
<1>1. ASSUME NEW c \in Calls, NEW r \in RequestIDs, Register(c, r)
      PROVE Promise!Begin(c) \/ Promise!Refuse(c)
  <2> USE <1>1 DEF Register, Accepting
  <2>1. Status(c) = "idle"
    BY DEF Status, OutcomeSettled
  <2>2. (~closed /\ Becomes(c, "open")) \/ Becomes(c, "failed")
    BY DEF Status, OutcomeSettled
  <2>3. Replied' = Replied /\ closed' = closed
    BY DEF Replied, OutcomeSettled
  <2> QED
    BY <2>1, <2>2, <2>3 DEF Promise!Begin, Promise!Refuse
<1>2. ASSUME NEW c \in Calls, WriteMessage(c) \/ Timeout(c)
      PROVE Promise!GiveUp(c) \/ UNCHANGED Promise!vars
  <2> USE <1>2 DEF WriteMessage, Timeout
  <2>1. Status(c) = "open" /\ (Same \/ Becomes(c, "failed"))
    BY DEF Status, OutcomeSettled
  <2>2. Replied' = Replied /\ closed' = closed
    BY DEF Replied, OutcomeSettled
  <2> QED
    BY <2>1, <2>2 DEF Promise!GiveUp, Promise!vars
<1>3. ASSUME NEW c \in Calls, Await(c)
      PROVE Promise!Answer(c) \/ Promise!Cancel(c)
  <2> USE <1>3 DEF Await
  <2>1. Status(c) = "open"
    BY DEF Status, OutcomeSettled
  <2>2. \/ c \in Replied /\ Becomes(c, "answered")
        \/ closed /\ Becomes(c, "cancelled")
    BY DEF Status, OutcomeSettled, Replied, ServedFirst, NoChannelPanic, Engaged
  <2>3. Replied' = Replied /\ closed' = closed
    BY DEF Replied, OutcomeSettled
  <2> QED
    BY <2>1, <2>2, <2>3 DEF Promise!Answer, Promise!Cancel
<1>4. ASSUME NEW c \in Calls, Unregister(c) PROVE UNCHANGED Promise!vars
  <2>1. Same
    BY <1>4 DEF Unregister, Status, OutcomeSettled
  <2>2. Replied' = Replied /\ closed' = closed
    BY <1>4 DEF Unregister, Replied
  <2> QED
    BY <2>1, <2>2 DEF Promise!vars
<1>5. ASSUME NEW r \in RequestIDs, RouteResponse(r) PROVE \E c \in Calls : Promise!Reply(c)
  <2> USE <1>5 DEF RouteResponse
  <2> DEFINE c == pending[r]
  <2>1. c \in Calls /\ Status(c) \in {"open", "failed"} /\ c \notin Replied
    BY DEF Status, OutcomeSettled, PendingOwned, PendingFresh, Replied, CancelledOnlyByClose, ClosedIsEmpty
  <2>2. Same /\ ~closed /\ closed' = closed
    BY DEF Status, ClosedIsEmpty
  <2>3. Replied' = Replied \cup {c}
    BY <2>1 DEF Replied
  <2> QED
    BY <2>1, <2>2, <2>3 DEF Promise!Reply
<1>6. CASE RouteSend \/ RouteClose
  <2>1. Same
    BY <1>6 DEF RouteSend, RouteClose, Status
  <2>2. Replied' = Replied /\ closed' = closed
    BY <1>6 DEF RouteSend, RouteClose, Replied, TakenHolds
  <2> QED
    BY <2>1, <2>2 DEF Promise!vars
<1>7. CASE CancelAll
  <2>1. Same /\ Replied' = Replied
    BY <1>7 DEF CancelAll, Status, Replied
  <2> QED
    BY <1>7, <2>1 DEF CancelAll, Promise!Next, Promise!End
<1>8. CASE UNCHANGED vars
  <2>1. Same /\ Replied' = Replied /\ closed' = closed
    BY <1>8 DEF vars, Status, Replied
  <2> QED
    BY <2>1 DEF Promise!vars
<1> QED
  BY <1>1, <1>2, <1>3, <1>4, <1>5, <1>6, <1>7, <1>8 DEF Next, CallNext, Promise!Next

\* The multiplexer implements RequestReply: callers may reason about replies,
\* failures and the end of the connection without maps, channels or locks.
THEOREM MuxKeepsPromise == Spec => KeepsPromise
<1>1. Init => Promise!Init
  BY NoneAssumption DEF Init, Promise!Init, Status, Replied
<1> QED
  BY <1>1, MuxInit, MuxStep, OutcomeInit, OutcomeStep, PromiseStep, PTL
  DEF Spec, KeepsPromise, Promise!Spec
=============================================================================
