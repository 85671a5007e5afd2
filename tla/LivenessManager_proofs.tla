----------------------- MODULE LivenessManager_proofs -----------------------
(***************************************************************************)
(* Proofs about the liveness manager, for any instances, executors, pools, *)
(* grace periods and callers.                                              *)
(***************************************************************************)
EXTENDS LivenessManager, TLAPS

Tracked == {"absent", "connected", "disconnected", "dead"}

\* No two entries share a timer.
TimersDistinct ==
  \A k, l \in Keys : timer[k] # None /\ timer[k] = timer[l] => k = l

\* A goroutine that is running, and a recovery call that is under way, is for
\* some key.
WorkersKeyed ==
  /\ \A t \in Timers : wpc[t] # "free" => wkey[t] \in Keys
  /\ \A w \in Workers : call[w] # "none" => wkey[w] \in Keys

\* A watcher leaves its select by the timer only when no time is left.
FiredIsOver == \A t \in Timers : wpc[t] = "fired" => left[t] = 0

IndInv == ManagerTypeOK /\ TimersDistinct /\ WorkersKeyed /\ FiredIsOver
            /\ TimerGuardsDisconnect

-----------------------------------------------------------------------------
\* Every query leaves a row a row.
LEMMA RowOps ==
  ASSUME NEW r \in Rows
  PROVE  /\ NoRow \in Rows
         /\ \A i \in Owners : UpsertExecutor(r, i) \in Rows
         /\ \A i \in Owners : AdoptExpiredExecutors(r, i) \in Rows
         /\ TouchExecutorLastSeen(r) \in Rows
         /\ DisconnectExecutor(r) \in Rows
         /\ ReapExpiredExecutors(r) \in Rows
         /\ SetExecutorDead(r) \in Rows
         /\ Aged(r) \in Rows
<1> USE StoreAssumption
<1>1. LeaseDuration \in 0 .. LeaseDuration /\ 0 \in 0 .. LeaseDuration
  OBVIOUS
<1>2. NoRow \in Rows /\ \A i \in Owners : UpsertExecutor(r, i) \in Rows
  BY <1>1 DEF NoRow, Rows, UpsertExecutor
<1>3. TouchExecutorLastSeen(r) \in Rows
  BY <1>1 DEF Rows, TouchExecutorLastSeen, Present
<1>4. DisconnectExecutor(r) \in Rows
  BY <1>1 DEF Rows, DisconnectExecutor, Present
<1>5. ReapExpiredExecutors(r) \in Rows
  BY DEF Rows, ReapExpiredExecutors
<1>6. SetExecutorDead(r) \in Rows
  BY <1>1 DEF Rows, SetExecutorDead
<1>7. \A i \in Owners : AdoptExpiredExecutors(r, i) \in Rows
  BY <1>1 DEF Rows, AdoptExpiredExecutors
<1>8. Aged(r) \in Rows
  <2> DEFINE less(n) == IF n = 0 THEN 0 ELSE n - 1
  <2>1. r.lease \in 0 .. LeaseDuration /\ r.reap \in 0 .. LeaseDuration
    BY DEF Rows
  <2>2. less(r.lease) \in 0 .. LeaseDuration /\ less(r.reap) \in 0 .. LeaseDuration
    BY <2>1
  <2>3. \A m, n \in 0 .. LeaseDuration : [r EXCEPT !.lease = m, !.reap = n] \in Rows
    BY DEF Rows
  <2>4. QED
    BY <2>2, <2>3 DEF Aged
<1>9. QED
  BY <1>2, <1>3, <1>4, <1>5, <1>6, <1>7, <1>8

\* What Transition does to the states an entry can be in.
LEMMA Transitions ==
  /\ \A s \in Tracked \cup {""} : s # "absent" => TransitionState(s, "connect") = "connected"
  /\ \A s \in Tracked \cup {""} : TransitionAction(s, "connect") = "cancel_grace_timer"
                                     <=> s = "disconnected"
  /\ \A s \in Tracked : s # "absent" =>
       /\ TransitionState(s, "disconnect") = IF s = "connected" THEN "disconnected" ELSE s
       /\ TransitionAction(s, "disconnect") = "start_grace_timer" <=> s = "connected"
  /\ TransitionState("disconnected", "grace_period_expired") = "dead"
  /\ \A s \in Tracked : TransitionState(s, "recovery_failed") = s
BY DEF Tracked, TransitionState, TransitionAction

LEMMA ManagerInitInv == ManagerInit => IndInv
<1> SUFFICES ASSUME ManagerInit PROVE IndInv
  OBVIOUS
<1> USE ManagerAssumption, StoreAssumption
<1>1. NoRow \in Rows
  BY DEF NoRow, Rows
<1>2. ManagerTypeOK
  BY <1>1 DEF ManagerInit, ManagerInitExceptRow, ManagerTypeOK, Sources, WatcherPCs, CallPCs
<1>3. TimersDistinct /\ WorkersKeyed /\ FiredIsOver /\ TimerGuardsDisconnect
  BY DEF ManagerInit, ManagerInitExceptRow, TimersDistinct, WorkersKeyed, FiredIsOver,
         TimerGuardsDisconnect
<1>4. QED
  BY <1>2, <1>3 DEF IndInv

-----------------------------------------------------------------------------
(***************************************************************************)
(* One lemma per operation.                                                *)
(***************************************************************************)
LEMMA OnConnectInv ==
  ASSUME IndInv, NEW k \in Keys, NEW src \in Sources, OnConnect(k, src)
  PROVE  IndInv'
<1> USE DEF IndInv
<1> DEFINE s == Entry(k, "")
<1>1. s \in {"", "connected", "disconnected", "dead"}
  BY DEF Entry, ManagerTypeOK
<1>2. /\ state' = [state EXCEPT ![k] = "connected"]
      /\ IF s = "disconnected"
         THEN /\ cancelled' = Cancelling(k)
              /\ timer' = [timer EXCEPT ![k] = None]
         ELSE UNCHANGED <<timer, cancelled>>
  BY <1>1, Transitions DEF OnConnect, Reconnected, Tracked
<1>3. cancelled' \in [Timers -> BOOLEAN] /\ timer' \in [Keys -> Timers \cup {None}]
  BY <1>2 DEF ManagerTypeOK, Cancelling
<1>4. source' \in [Keys -> Sources]
  BY DEF OnConnect, ManagerTypeOK, Sources
<1>5. ManagerTypeOK'
  <2>1. state' \in [Keys -> {"absent", "connected", "disconnected", "dead"}]
    BY <1>2 DEF ManagerTypeOK
  <2>2. sweepDue' \in [Instances -> BOOLEAN]
    BY DEF OnConnect, ManagerTypeOK
  <2>3. QED
    BY <1>3, <1>4, <2>1, <2>2 DEF OnConnect, ManagerTypeOK, callVars
<1>6. TimersDistinct'
  BY <1>2 DEF TimersDistinct, ManagerTypeOK
<1>7. WorkersKeyed' /\ FiredIsOver'
  BY DEF WorkersKeyed, FiredIsOver, OnConnect, callVars
<1>8. TimerGuardsDisconnect'
  <2> SUFFICES ASSUME NEW l \in Keys, ~stopped[Inst(l)]
               PROVE  /\ state'[l] = "disconnected" <=> timer'[l] # None
                      /\ timer'[l] # None => /\ wkey[timer'[l]] = l
                                             /\ wpc[timer'[l]] \in {"waiting", "fired"}
                                             /\ ~cancelled'[timer'[l]]
    BY DEF TimerGuardsDisconnect, OnConnect, callVars
  <2>1. CASE l = k
    BY <1>2, <2>1 DEF TimerGuardsDisconnect, ManagerTypeOK, Entry
  <2>2. CASE l # k
    <3>1. timer'[l] = timer[l] /\ state'[l] = state[l]
      BY <1>2, <2>2 DEF ManagerTypeOK
    <3>2. timer[l] # None => timer[k] # timer[l]
      BY <2>2 DEF TimersDistinct
    <3>3. timer[l] # None => cancelled'[timer[l]] = cancelled[timer[l]]
      BY <1>2, <3>2 DEF ManagerTypeOK, Cancelling
    <3>4. QED
      BY <3>1, <3>3 DEF TimerGuardsDisconnect
  <2>3. QED
    BY <2>1, <2>2
<1>9. QED
  BY <1>5, <1>6, <1>7, <1>8

\* Arming a timer for k, with the channels in done, when k has none or has
\* just cancelled its own.
LEMMA ArmInv ==
  ASSUME IndInv, NEW k \in Keys, NEW t \in Timers, NEW g \in Graces, NEW done,
         \/ done = cancelled
         \/ done = Cancelling(k),
         Arm(k, t, g, done),
         state' = [state EXCEPT ![k] = "disconnected"],
         source' \in [Keys -> Sources],
         UNCHANGED <<call, sweepVars, stopped, row>>
  PROVE  IndInv'
<1> USE DEF IndInv
<1>1. done \in [Timers -> BOOLEAN]
  BY DEF ManagerTypeOK, Cancelling
<1>2. ManagerTypeOK'
  <2>1. left' \in [Timers -> Nat] /\ attempt' \in [Timers -> 0 .. MaxRetries]
    BY ManagerAssumption DEF Arm, ManagerTypeOK
  <2>2. /\ timer' \in [Keys -> Timers \cup {None}]
        /\ cancelled' \in [Timers -> BOOLEAN]
        /\ wpc' \in [Timers -> WatcherPCs]
        /\ wkey' \in [Workers -> Keys \cup {None}]
        /\ state' \in [Keys -> {"absent", "connected", "disconnected", "dead"}]
    BY <1>1 DEF Arm, ManagerTypeOK, WatcherPCs
  <2>3. QED
    BY <2>1, <2>2 DEF ManagerTypeOK, sweepVars
<1>3. TimersDistinct'
  BY DEF TimersDistinct, ManagerTypeOK, Arm
<1>4. WorkersKeyed' /\ FiredIsOver'
  BY DEF WorkersKeyed, FiredIsOver, Arm, ManagerTypeOK, Workers
<1>5. TimerGuardsDisconnect'
  <2> SUFFICES ASSUME NEW l \in Keys, ~stopped[Inst(l)]
               PROVE  /\ state'[l] = "disconnected" <=> timer'[l] # None
                      /\ timer'[l] # None => /\ wkey'[timer'[l]] = l
                                             /\ wpc'[timer'[l]] \in {"waiting", "fired"}
                                             /\ ~cancelled'[timer'[l]]
    BY DEF TimerGuardsDisconnect
  <2>1. CASE l = k
    BY <2>1, <1>1, ManagerAssumption DEF Arm, ManagerTypeOK, Workers
  <2>2. CASE l # k
    <3>1. timer'[l] = timer[l] /\ state'[l] = state[l] /\ timer[l] # t
      BY <2>2 DEF Arm, ManagerTypeOK
    <3>2. timer[l] # None => ~done[timer[l]]
      BY <2>2 DEF TimerGuardsDisconnect, TimersDistinct, ManagerTypeOK, Cancelling
    <3>3. QED
      BY <1>1, <3>1, <3>2 DEF TimerGuardsDisconnect, Arm, ManagerTypeOK, Workers
  <2>3. QED
    BY <2>1, <2>2
<1>6. QED
  BY <1>2, <1>3, <1>4, <1>5

LEMMA OnDisconnectInv ==
  ASSUME IndInv, NEW k \in Keys, NEW src \in Sources, OnDisconnect(k, src)
  PROVE  IndInv'
<1> DEFINE s == Entry(k, "connected")
<1>1. s \in {"connected", "disconnected", "dead"}
  BY DEF Entry, IndInv, ManagerTypeOK
<1>2. source' \in [Keys -> Sources]
  BY DEF OnDisconnect, IndInv, ManagerTypeOK
<1>3. CASE s = "connected"
  <2>1. /\ state' = [state EXCEPT ![k] = "disconnected"]
        /\ \E t \in Timers, g \in Graces : Arm(k, t, g, cancelled)
        /\ UNCHANGED <<call, sweepVars, stopped, row>>
    BY <1>3, Transitions DEF OnDisconnect, Tracked
  <2>2. QED
    BY <1>2, <2>1, ArmInv
<1>4. CASE s # "connected"
  <2>1. /\ state' = [state EXCEPT ![k] = s]
        /\ UNCHANGED <<timer, wpc, left, cancelled, attempt, wkey, call, sweepVars, stopped, row>>
    BY <1>1, <1>4, Transitions DEF OnDisconnect, Tracked
  <2>2. s = state[k]
    BY <1>4 DEF Entry
  <2>3. state' = state
    BY <2>1, <2>2 DEF IndInv, ManagerTypeOK
  <2>4. ManagerTypeOK'
    BY <1>2, <2>1, <2>3 DEF IndInv, ManagerTypeOK, sweepVars
  <2>5. QED
    BY <2>1, <2>3, <2>4 DEF IndInv, TimersDistinct, WorkersKeyed, FiredIsOver,
                            TimerGuardsDisconnect
<1>5. QED
  BY <1>3, <1>4

LEMMA AdoptDisconnectedInv ==
  ASSUME IndInv, NEW k \in Keys, AdoptDisconnected(k)
  PROVE  IndInv'
<1>1. source' \in [Keys -> Sources]
  BY DEF AdoptDisconnected, IndInv, ManagerTypeOK, Sources
<1>2. QED
  BY <1>1, ArmInv DEF AdoptDisconnected
-----------------------------------------------------------------------------
\* No running entry refers to a timer whose watcher has left the two states in
\* which it waits for its timer or for mu, or was cancelled.
LEMMA Unreferenced ==
  ASSUME IndInv, NEW t \in Timers,
         wpc[t] \notin {"waiting", "fired"} \/ cancelled[t] \/ stopped[Inst(wkey[t])]
  PROVE  \A k \in Keys : ~stopped[Inst(k)] => timer[k] # t
BY ManagerAssumption DEF IndInv, TimerGuardsDisconnect

\* A watcher that returns disturbs no running entry that does not refer to its
\* timer, whatever happened to the entry of its key.
LEMMA ReturnInv ==
  ASSUME IndInv, NEW t \in Timers, Return(t),
         \A k \in Keys : ~stopped[Inst(k)] => timer[k] # t,
         UNCHANGED <<sweepVars, stopped>>,
         row' \in [Executors -> Rows],
         UNCHANGED trackVars \/ \E k \in Keys : Remove(k)
  PROVE  IndInv'
<1> USE DEF IndInv
<1>1. /\ state' \in [Keys -> {"absent", "connected", "disconnected", "dead"}]
      /\ source' \in [Keys -> Sources]
      /\ timer' \in [Keys -> Timers \cup {None}]
  BY DEF ManagerTypeOK, trackVars, Remove, Sources
<1>2. \A l \in Keys : \/ timer'[l] = timer[l] /\ state'[l] = state[l]
                      \/ timer'[l] = None /\ state'[l] = "absent"
  BY DEF ManagerTypeOK, trackVars, Remove
<1>3. ManagerTypeOK'
  <2>1. left' \in [Timers -> Nat] /\ attempt' \in [Timers -> 0 .. MaxRetries]
    BY ManagerAssumption DEF Return, ManagerTypeOK
  <2>2. /\ cancelled' \in [Timers -> BOOLEAN]
        /\ wpc' \in [Timers -> WatcherPCs]
        /\ wkey' \in [Workers -> Keys \cup {None}]
        /\ call' \in [Workers -> CallPCs]
    BY DEF Return, ManagerTypeOK, WatcherPCs, CallPCs
  <2>3. QED
    BY <1>1, <2>1, <2>2 DEF ManagerTypeOK, sweepVars
<1>4. TimersDistinct'
  BY <1>2 DEF TimersDistinct
<1>5. WorkersKeyed' /\ FiredIsOver'
  BY DEF WorkersKeyed, FiredIsOver, Return, ManagerTypeOK, Workers
<1>6. TimerGuardsDisconnect'
  <2> SUFFICES ASSUME NEW l \in Keys, ~stopped[Inst(l)]
               PROVE  /\ state'[l] = "disconnected" <=> timer'[l] # None
                      /\ timer'[l] # None => /\ wkey'[timer'[l]] = l
                                             /\ wpc'[timer'[l]] \in {"waiting", "fired"}
                                             /\ ~cancelled'[timer'[l]]
    BY DEF TimerGuardsDisconnect
  <2>1. timer'[l] # t
    BY <1>2, ManagerAssumption
  <2>2. timer'[l] # None => /\ wkey'[timer'[l]] = wkey[timer'[l]]
                            /\ wpc'[timer'[l]] = wpc[timer'[l]]
                            /\ cancelled'[timer'[l]] = cancelled[timer'[l]]
    BY <1>1, <2>1 DEF Return, ManagerTypeOK, Workers
  <2>3. QED
    BY <1>2, <2>2 DEF TimerGuardsDisconnect
<1>7. QED
  BY <1>3, <1>4, <1>5, <1>6

\* A watcher that moves on without touching any entry.
LEMMA GotoInv ==
  ASSUME IndInv, NEW t \in Timers, NEW to \in WatcherPCs \ {"free"}, Goto(t, to),
         wpc[t] # "free",
         to = "fired" => left[t] = 0,
         to \in {"waiting", "fired"} \/ wpc[t] \notin {"waiting", "fired"},
         UNCHANGED <<trackVars, sweepVars, stopped, row>>
  PROVE  IndInv'
<1> USE DEF IndInv
<1>1. ManagerTypeOK'
  BY DEF ManagerTypeOK, Goto, trackVars, sweepVars
<1>2. TimersDistinct'
  BY DEF TimersDistinct, trackVars
<1>3. WorkersKeyed' /\ FiredIsOver'
  BY DEF WorkersKeyed, FiredIsOver, Goto, ManagerTypeOK
<1>4. TimerGuardsDisconnect'
  BY DEF TimerGuardsDisconnect, Goto, ManagerTypeOK, trackVars
<1>5. QED
  BY <1>1, <1>2, <1>3, <1>4

LEMMA WatcherWakesInv ==
  ASSUME IndInv, NEW t \in Timers, WatcherWakes(t)
  PROVE  IndInv'
<1>1. row' \in [Executors -> Rows]
  BY DEF WatcherWakes, IndInv, ManagerTypeOK
<1>2. CASE left[t] = 0 /\ Goto(t, "fired")
  BY <1>2, GotoInv DEF WatcherWakes, WatcherPCs
<1>3. CASE (cancelled[t] \/ stopped[Inst(wkey[t])]) /\ Return(t)
  BY <1>1, <1>3, Unreferenced, ReturnInv DEF WatcherWakes
<1>4. QED
  BY <1>2, <1>3 DEF WatcherWakes

\* A stale watcher finds that the entry has another timer, or none, and returns;
\* the current one makes its entry dead and takes the timer out of it.
LEMMA GracePeriodExpiredInv ==
  ASSUME IndInv, NEW t \in Timers, GracePeriodExpired(t)
  PROVE  IndInv'
<1> DEFINE k == wkey[t]
<1>1. k \in Keys
  BY DEF IndInv, WorkersKeyed, GracePeriodExpired
<1>2. CASE Holds(t)
  <2> USE DEF IndInv
  <2>1. /\ state' = [state EXCEPT ![k] = "dead"]
        /\ timer' = [timer EXCEPT ![k] = None]
        /\ Goto(t, "checking")
        /\ UNCHANGED <<source, sweepVars, stopped, row>>
    BY <1>2, Transitions DEF GracePeriodExpired, Holds
  <2>2. ManagerTypeOK'
    BY <1>1, <2>1 DEF ManagerTypeOK, Goto, sweepVars, WatcherPCs
  <2>3. TimersDistinct'
    BY <1>1, <2>1 DEF TimersDistinct, ManagerTypeOK
  <2>4. WorkersKeyed' /\ FiredIsOver'
    BY <1>1, <2>1 DEF WorkersKeyed, FiredIsOver, Goto, ManagerTypeOK
  <2>5. TimerGuardsDisconnect'
    <3> SUFFICES ASSUME NEW l \in Keys, ~stopped[Inst(l)]
                 PROVE  /\ state'[l] = "disconnected" <=> timer'[l] # None
                        /\ timer'[l] # None => /\ wkey[timer'[l]] = l
                                               /\ wpc'[timer'[l]] \in {"waiting", "fired"}
                                               /\ ~cancelled[timer'[l]]
      BY <2>1 DEF TimerGuardsDisconnect, Goto
    <3>1. CASE l = k
      BY <1>1, <2>1, <3>1 DEF ManagerTypeOK
    <3>2. CASE l # k
      <4>1. timer'[l] = timer[l] /\ state'[l] = state[l]
        BY <1>1, <2>1, <3>2 DEF ManagerTypeOK
      <4>2. timer[l] # None => timer[l] # t
        BY <1>1, <1>2, <3>2 DEF TimersDistinct, Holds
      <4>3. QED
        BY <2>1, <4>1, <4>2 DEF TimerGuardsDisconnect, Goto, ManagerTypeOK
    <3>3. QED
      BY <3>1, <3>2
  <2>6. QED
    BY <2>2, <2>3, <2>4, <2>5
<1>3. CASE ~Holds(t)
  <2>1. \A l \in Keys : ~stopped[Inst(l)] => timer[l] # t
    BY <1>3, ManagerAssumption DEF Holds, IndInv, TimerGuardsDisconnect
  <2>2. Return(t) /\ UNCHANGED <<trackVars, sweepVars, stopped, row>>
    BY <1>3 DEF GracePeriodExpired, trackVars
  <2>3. row' \in [Executors -> Rows]
    BY <2>2 DEF IndInv, ManagerTypeOK
  <2>4. QED
    BY <2>1, <2>2, <2>3, ReturnInv
<1>4. QED
  BY <1>2, <1>3

LEMMA CheckOwnerInv ==
  ASSUME IndInv, NEW t \in Timers, CheckOwner(t) \/ LeaveToOwner(t)
  PROVE  IndInv'
<1>1. CASE CheckOwner(t)
  BY <1>1, GotoInv DEF CheckOwner, WatcherPCs
<1>2. CASE LeaveToOwner(t)
  <2>1. wkey[t] \in Keys /\ row' \in [Executors -> Rows]
    BY <1>2 DEF IndInv, WorkersKeyed, ManagerTypeOK, LeaveToOwner
  <2>2. QED
    BY <1>2, <2>1, Unreferenced, ReturnInv DEF LeaveToOwner
<1>3. QED
  BY <1>1, <1>2

\* Steps of workers that leave the entries and the waiting watchers alone: only
\* attempts, calls, the sweeps, their keys, the row and the clock may change.
LEMMA QuietInv ==
  ASSUME IndInv, ManagerTypeOK', WorkersKeyed', FiredIsOver',
         UNCHANGED <<state, timer, cancelled, stopped>>,
         \A t \in Timers : wpc[t] \in {"waiting", "fired"} =>
                             wpc'[t] = wpc[t] /\ wkey'[t] = wkey[t]
  PROVE  IndInv'
<1>1. TimersDistinct'
  BY DEF IndInv, TimersDistinct
<1>2. TimerGuardsDisconnect'
  BY DEF IndInv, TimerGuardsDisconnect, ManagerTypeOK
<1>3. QED
  BY <1>1, <1>2 DEF IndInv

LEMMA MarkDeadInv ==
  ASSUME IndInv, NEW t \in Timers, MarkDead(t)
  PROVE  IndInv'
<1> DEFINE e == Exec(wkey[t])
<1>1. wkey[t] \in Keys /\ e \in Executors
  BY DEF IndInv, WorkersKeyed, MarkDead, Keys, Exec
<1>2. row' \in [Executors -> Rows]
  <2>1. row[e] \in Rows
    BY <1>1 DEF IndInv, ManagerTypeOK
  <2>2. SetExecutorDead(row[e]) \in Rows
    BY <2>1, RowOps
  <2>3. \/ row' = row
        \/ row' = [row EXCEPT ![e] = SetExecutorDead(row[e])]
    BY DEF MarkDead
  <2>4. QED
    BY <2>2, <2>3 DEF IndInv, ManagerTypeOK
<1>3. CASE Return(t)
  BY <1>2, <1>3, Unreferenced, ReturnInv DEF MarkDead
<1>4. CASE /\ wpc' = [wpc EXCEPT ![t] = "recovering"]
           /\ call' = [call EXCEPT ![t] = "dispatch"]
           /\ attempt' = [attempt EXCEPT ![t] = 1]
           /\ UNCHANGED <<left, cancelled, wkey>>
  <2>1. attempt' \in [Timers -> 0 .. MaxRetries]
    BY <1>4, ManagerAssumption DEF IndInv, ManagerTypeOK
  <2>2. wpc' \in [Timers -> WatcherPCs] /\ call' \in [Workers -> CallPCs]
    BY <1>4 DEF IndInv, ManagerTypeOK, WatcherPCs, CallPCs
  <2>3. ManagerTypeOK'
    BY <1>2, <1>4, <2>1, <2>2 DEF IndInv, ManagerTypeOK, MarkDead, trackVars, sweepVars
  <2>4. WorkersKeyed' /\ FiredIsOver'
    BY <1>1, <1>4 DEF IndInv, ManagerTypeOK, WorkersKeyed, FiredIsOver, Workers
  <2>5. QED
    BY <1>4, <2>3, <2>4, QuietInv DEF MarkDead, trackVars, IndInv, ManagerTypeOK
<1>5. QED
  BY <1>3, <1>4 DEF MarkDead

LEMMA NextAttemptInv ==
  ASSUME IndInv, NEW t \in Timers, NextAttempt(t)
  PROVE  IndInv'
<1>1. wkey[t] \in Keys
  BY DEF IndInv, WorkersKeyed, NextAttempt
<1>2. state' = state
  <2>1. state[wkey[t]] \in Tracked
    BY <1>1 DEF IndInv, ManagerTypeOK, Tracked
  <2>2. TransitionState(state[wkey[t]], "recovery_failed") = state[wkey[t]]
    BY <2>1, Transitions
  <2>3. state' = [state EXCEPT ![wkey[t]] = state[wkey[t]]]
    BY <2>2 DEF NextAttempt
  <2>4. QED
    BY <1>1, <2>3 DEF IndInv, ManagerTypeOK
<1>3. UNCHANGED <<trackVars, sweepVars, stopped, row>> /\ row' \in [Executors -> Rows]
  BY <1>2 DEF NextAttempt, trackVars, IndInv, ManagerTypeOK
<1>4. CASE Return(t)
  BY <1>3, <1>4, Unreferenced, ReturnInv DEF NextAttempt
<1>5. CASE /\ attempt[t] # MaxRetries
           /\ call' = [call EXCEPT ![t] = "dispatch"]
           /\ attempt' = [attempt EXCEPT ![t] = @ + 1]
           /\ UNCHANGED <<wpc, left, cancelled, wkey>>
  <2>1. attempt' \in [Timers -> 0 .. MaxRetries]
    BY <1>5, ManagerAssumption DEF IndInv, ManagerTypeOK
  <2>2. call' \in [Workers -> CallPCs]
    BY <1>5 DEF IndInv, ManagerTypeOK, CallPCs
  <2>3. ManagerTypeOK'
    BY <1>3, <1>5, <2>1, <2>2 DEF IndInv, ManagerTypeOK, trackVars, sweepVars
  <2>4. WorkersKeyed' /\ FiredIsOver'
    BY <1>1, <1>5 DEF IndInv, ManagerTypeOK, WorkersKeyed, FiredIsOver, Workers
  <2>5. QED
    BY <1>3, <1>5, <2>3, <2>4, QuietInv DEF trackVars
<1>6. QED
  BY <1>4, <1>5 DEF NextAttempt
-----------------------------------------------------------------------------
LEMMA RecoveryInv ==
  ASSUME IndInv, NEW w \in Workers, RecoverDeadExecutor(w)
  PROVE  IndInv'
<1>1. wkey[w] \in Keys /\ Exec(wkey[w]) \in Executors
  BY DEF IndInv, WorkersKeyed, RecoverDeadExecutor, RecoveryAnswered, DeleteTracked,
         DeleteRow, Keys, Exec
<1>2. UNCHANGED <<watchVars, wkey, sweepVars, stopped>>
  BY DEF RecoverDeadExecutor, RecoveryAnswered, DeleteTracked, DeleteRow
<1>3. PICK c \in CallPCs : call' = [call EXCEPT ![w] = c]
  BY DEF RecoverDeadExecutor, RecoveryAnswered, DeleteTracked, DeleteRow, CallPCs
<1>4. WorkersKeyed' /\ FiredIsOver' /\ call' \in [Workers -> CallPCs]
  BY <1>1, <1>2, <1>3 DEF IndInv, WorkersKeyed, FiredIsOver, ManagerTypeOK, watchVars
<1>5. row' \in [Executors -> Rows]
  BY <1>1, StoreAssumption
     DEF RecoverDeadExecutor, RecoveryAnswered, DeleteTracked, DeleteRow, NoRow, Rows,
         IndInv, ManagerTypeOK
<1>6. CASE UNCHANGED trackVars
  <2>1. ManagerTypeOK'
    BY <1>2, <1>4, <1>5, <1>6 DEF IndInv, ManagerTypeOK, trackVars, watchVars, sweepVars
  <2>2. QED
    BY <1>2, <1>4, <1>6, <2>1, QuietInv DEF trackVars, watchVars
<1>7. CASE Remove(wkey[w])
  <2> USE DEF IndInv
  <2>1. /\ state' = [state EXCEPT ![wkey[w]] = "absent"]
        /\ source' = [source EXCEPT ![wkey[w]] = "socket"]
        /\ timer' = [timer EXCEPT ![wkey[w]] = None]
    BY <1>7 DEF Remove
  <2>2. ManagerTypeOK'
    BY <1>1, <1>2, <1>4, <1>5, <2>1 DEF ManagerTypeOK, watchVars, sweepVars, Sources
  <2>3. TimersDistinct'
    BY <1>1, <2>1 DEF TimersDistinct, ManagerTypeOK
  <2>4. TimerGuardsDisconnect'
    BY <1>1, <1>2, <2>1 DEF TimerGuardsDisconnect, ManagerTypeOK, watchVars
  <2>5. QED
    BY <1>4, <2>2, <2>3, <2>4
<1>8. QED
  BY <1>6, <1>7 DEF RecoverDeadExecutor, RecoveryAnswered, DeleteTracked, DeleteRow

LEMMA SweeperInv ==
  ASSUME IndInv, NEW s \in Sweepers, SweeperNext(s)
  PROVE  IndInv'
<1>1. UNCHANGED <<trackVars, watchVars, stopped, row>>
  BY DEF SweeperNext, StartSweep, SweepNext
<1>2. s \notin Timers /\ s \in Workers
  BY ManagerAssumption DEF Workers
<1>3. /\ sinst' \in [Sweepers -> Instances \cup {None}]
      /\ todo' \in [Sweepers -> SUBSET Executors]
      /\ sweepDue' \in [Instances -> BOOLEAN]
  BY DEF SweeperNext, StartSweep, SweepNext, IndInv, ManagerTypeOK
<1>4. \/ UNCHANGED callVars
      \/ /\ call' = [call EXCEPT ![s] = "none"]
         /\ wkey' = [wkey EXCEPT ![s] = None]
      \/ \E k \in Keys : /\ call' = [call EXCEPT ![s] = "dispatch"]
                          /\ wkey' = [wkey EXCEPT ![s] = k]
  BY DEF SweeperNext, StartSweep, SweepNext, IndInv, ManagerTypeOK, Keys
<1>5. /\ call' \in [Workers -> CallPCs] /\ wkey' \in [Workers -> Keys \cup {None}]
      /\ \A t \in Timers : wkey'[t] = wkey[t]
  BY <1>2, <1>4 DEF IndInv, ManagerTypeOK, CallPCs, callVars, Workers
<1>6. ManagerTypeOK'
  BY <1>1, <1>3, <1>5 DEF IndInv, ManagerTypeOK, trackVars, watchVars
<1>7. WorkersKeyed' /\ FiredIsOver'
  BY <1>1, <1>2, <1>4, <1>5
     DEF IndInv, ManagerTypeOK, WorkersKeyed, FiredIsOver, watchVars, callVars, Workers
<1>8. QED
  BY <1>1, <1>5, <1>6, <1>7, QuietInv DEF trackVars, watchVars

LEMMA ClockAndTableInv ==
  ASSUME IndInv, Tick \/ RowWritten
  PROVE  IndInv'
<1>1. row' \in [Executors -> Rows]
  <2>1. row \in [Executors -> Rows]
    BY DEF IndInv, ManagerTypeOK
  <2>2. CASE Tick
    BY <2>1, <2>2, RowOps DEF Tick
  <2>3. CASE RowWritten
    <3>0. \A r \in Rows : [r EXCEPT !.owner = None] \in Rows
      BY DEF Rows
    <3>1. \A r \in Rows : RowWrites(r) \subseteq Rows
      BY <3>0, RowOps DEF RowWrites
    <3>2. \A e \in Executors : row'[e] \in Rows
      BY <2>1, <2>3, <3>1 DEF RowWritten
    <3>3. row' = [e \in Executors |-> row'[e]]
      BY <2>3 DEF RowWritten
    <3>4. QED
      BY <3>2, <3>3
  <2>4. QED
    BY <2>2, <2>3
<1>2. left' \in [Timers -> Nat] /\ FiredIsOver'
  BY DEF IndInv, ManagerTypeOK, FiredIsOver, Tick, RowWritten, watchVars
<1>3. UNCHANGED <<trackVars, wpc, cancelled, attempt, callVars, sweepVars, stopped>>
  BY DEF Tick, RowWritten, watchVars
<1>4. ManagerTypeOK' /\ WorkersKeyed'
  BY <1>1, <1>2, <1>3 DEF IndInv, ManagerTypeOK, WorkersKeyed, trackVars, callVars, sweepVars
<1>5. QED
  BY <1>2, <1>3, <1>4, QuietInv DEF trackVars, callVars

LEMMA StopInv ==
  ASSUME IndInv, NEW i \in Instances, Stop(i)
  PROVE  IndInv'
<1> USE DEF IndInv
<1>1. ManagerTypeOK'
  BY DEF ManagerTypeOK, Stop, callVars, sweepVars
<1>2. TimersDistinct'
  BY DEF TimersDistinct, ManagerTypeOK, Stop
<1>3. WorkersKeyed' /\ FiredIsOver'
  BY DEF WorkersKeyed, FiredIsOver, Stop, callVars
<1>4. TimerGuardsDisconnect'
  <2> SUFFICES ASSUME NEW l \in Keys, ~stopped'[Inst(l)]
               PROVE  /\ state[l] = "disconnected" <=> timer'[l] # None
                      /\ timer'[l] # None => /\ wkey[timer'[l]] = l
                                             /\ wpc[timer'[l]] \in {"waiting", "fired"}
                                             /\ ~cancelled'[timer'[l]]
    BY DEF TimerGuardsDisconnect, Stop, callVars
  <2>1. Inst(l) # i /\ ~stopped[Inst(l)]
    BY DEF Stop, ManagerTypeOK, Keys, Inst
  <2>2. timer'[l] = timer[l]
    BY <2>1 DEF Stop
  <2>3. \A e \in Executors : <<i, e>> \in Keys /\ <<i, e>> # l
    BY <2>1 DEF Keys, Inst
  <2>4. timer[l] # None => cancelled'[timer[l]] = cancelled[timer[l]]
    BY <2>3 DEF Stop, TimersDistinct, ManagerTypeOK
  <2>5. QED
    BY <2>1, <2>2, <2>4 DEF TimerGuardsDisconnect
<1>5. QED
  BY <1>1, <1>2, <1>3, <1>4

LEMMA ManagerCrashInv ==
  ASSUME IndInv, NEW i \in Instances, ManagerCrash(i)
  PROVE  IndInv'
<1> USE DEF IndInv
<1> DEFINE gone(w) == wkey[w] # None /\ Inst(wkey[w]) = i
<1>1. ManagerTypeOK'
  <2>1. attempt' \in [Timers -> 0 .. MaxRetries] /\ left' \in [Timers -> Nat]
    BY ManagerAssumption DEF ManagerTypeOK, ManagerCrash
  <2>2. /\ state' \in [Keys -> {"absent", "connected", "disconnected", "dead"}]
        /\ source' \in [Keys -> Sources]
        /\ timer' \in [Keys -> Timers \cup {None}]
    BY DEF ManagerTypeOK, ManagerCrash, Sources
  <2>3. /\ wpc' \in [Timers -> WatcherPCs]
        /\ cancelled' \in [Timers -> BOOLEAN]
        /\ call' \in [Workers -> CallPCs]
        /\ wkey' \in [Workers -> Keys \cup {None}]
    BY DEF ManagerTypeOK, ManagerCrash, WatcherPCs, CallPCs
  <2>4. /\ sinst' \in [Sweepers -> Instances \cup {None}]
        /\ todo' \in [Sweepers -> SUBSET Executors]
        /\ sweepDue' \in [Instances -> BOOLEAN]
        /\ stopped' \in [Instances -> BOOLEAN]
    BY DEF ManagerTypeOK, ManagerCrash
  <2>5. QED
    BY <2>1, <2>2, <2>3, <2>4 DEF ManagerTypeOK, ManagerCrash
<1>2. TimersDistinct'
  BY DEF TimersDistinct, ManagerTypeOK, ManagerCrash
<1>3. WorkersKeyed' /\ FiredIsOver'
  BY DEF WorkersKeyed, FiredIsOver, ManagerCrash, Workers
<1>4. TimerGuardsDisconnect'
  <2> SUFFICES ASSUME NEW l \in Keys, ~stopped'[Inst(l)]
               PROVE  /\ state'[l] = "disconnected" <=> timer'[l] # None
                      /\ timer'[l] # None => /\ wkey'[timer'[l]] = l
                                             /\ wpc'[timer'[l]] \in {"waiting", "fired"}
                                             /\ ~cancelled'[timer'[l]]
    BY DEF TimerGuardsDisconnect
  <2>1. Inst(l) # i /\ ~stopped[Inst(l)]
    BY DEF ManagerCrash, ManagerTypeOK, Keys, Inst
  <2>2. timer'[l] = timer[l] /\ state'[l] = state[l]
    BY <2>1 DEF ManagerCrash
  <2>3. timer[l] # None => /\ timer[l] \in Timers /\ timer[l] \in Workers
                           /\ wkey[timer[l]] = l /\ ~gone(timer[l])
    BY <2>1 DEF TimerGuardsDisconnect, ManagerTypeOK, Workers
  <2>4. timer[l] # None => /\ wkey'[timer[l]] = wkey[timer[l]]
                           /\ wpc'[timer[l]] = wpc[timer[l]]
                           /\ cancelled'[timer[l]] <=> cancelled[timer[l]]
    BY <2>3 DEF ManagerCrash
  <2>5. QED
    BY <2>1, <2>2, <2>4 DEF TimerGuardsDisconnect
<1>5. QED
  BY <1>1, <1>2, <1>3, <1>4

LEMMA PeerConnectedInv ==
  ASSUME IndInv, NEW i \in Instances, PeerConnected(i)
  PROVE  IndInv'
<1>1. ManagerTypeOK' /\ WorkersKeyed' /\ FiredIsOver'
  BY DEF IndInv, ManagerTypeOK, WorkersKeyed, FiredIsOver, PeerConnected,
         trackVars, watchVars, callVars
<1>2. QED
  BY <1>1, QuietInv DEF PeerConnected, trackVars, watchVars, callVars
-----------------------------------------------------------------------------
LEMMA ManagerStepInv == IndInv /\ [ManagerNext]_managerVars => IndInv'
<1> SUFFICES ASSUME IndInv, [ManagerNext]_managerVars PROVE IndInv'
  OBVIOUS
<1>1. CASE UNCHANGED managerVars
  BY <1>1 DEF IndInv, ManagerTypeOK, TimersDistinct, WorkersKeyed, FiredIsOver,
              TimerGuardsDisconnect, managerVars, trackVars, watchVars, callVars, sweepVars
<1>2. CASE \E k \in Keys, src \in Sources : OnConnect(k, src) \/ OnDisconnect(k, src)
  BY <1>2, OnConnectInv, OnDisconnectInv
<1>3. CASE \E k \in Keys : AdoptDisconnected(k)
  BY <1>3, AdoptDisconnectedInv
<1>4. CASE \E i \in Instances : PeerConnected(i) \/ Stop(i) \/ ManagerCrash(i)
  BY <1>4, PeerConnectedInv, StopInv, ManagerCrashInv
<1>5. CASE \E t \in Timers : WatcherNext(t)
  BY <1>5, WatcherWakesInv, GracePeriodExpiredInv, CheckOwnerInv, MarkDeadInv, NextAttemptInv
     DEF WatcherNext
<1>6. CASE \E w \in Workers : RecoverDeadExecutor(w)
  BY <1>6, RecoveryInv
<1>7. CASE \E s \in Sweepers : SweeperNext(s)
  BY <1>7, SweeperInv
<1>8. CASE Tick \/ RowWritten
  BY <1>8, ClockAndTableInv
<1>9. QED
  BY <1>1, <1>2, <1>3, <1>4, <1>5, <1>6, <1>7, <1>8 DEF ManagerNext, ManagerInternal

\* The manager's variables keep their types whatever its callers do, in whatever
\* order; in particular no entry is left in the state "deleted", from which
\* machine.go allows no transition.
THEOREM ManagerTypeCorrect == ManagerSpec => []ManagerTypeOK
<1>1. IndInv => ManagerTypeOK
  BY DEF IndInv
<1>2. QED
  BY ManagerInitInv, ManagerStepInv, <1>1, PTL DEF ManagerSpec

\* Every disconnected entry of a running manager has exactly one live grace
\* timer, its own, and no other entry has one.
THEOREM ManagerTimerGuards == ManagerSpec => []TimerGuardsDisconnect
<1>1. IndInv => TimerGuardsDisconnect
  BY DEF IndInv
<1>2. QED
  BY ManagerInitInv, ManagerStepInv, <1>1, PTL DEF ManagerSpec

\* The only step that makes a disconnected entry dead is the one of the watcher
\* of its own timer, after that timer ran out.
LEMMA ExpiryStep ==
  ASSUME IndInv, ManagerNext, NEW k \in Keys,
         state[k] = "disconnected", state'[k] = "dead"
  PROVE  timer[k] # None /\ left[timer[k]] = 0
<1> USE DEF IndInv
<1>1. CASE \E l \in Keys, src \in Sources : OnConnect(l, src) \/ OnDisconnect(l, src)
  <2>1. PICK l \in Keys, src \in Sources : OnConnect(l, src) \/ OnDisconnect(l, src)
    BY <1>1
  <2>2. CASE OnConnect(l, src)
    <3>1. Entry(l, "") \in {"", "connected", "disconnected", "dead"}
      BY DEF Entry, ManagerTypeOK
    <3>2. TransitionState(Entry(l, ""), "connect") = "connected"
      BY <3>1, Transitions DEF Tracked
    <3>3. state' = [state EXCEPT ![l] = "connected"]
      BY <2>2, <3>2 DEF OnConnect
    <3>4. QED
      BY <3>3 DEF ManagerTypeOK
  <2>3. CASE OnDisconnect(l, src)
    <3>1. Entry(l, "connected") \in {"connected", "disconnected", "dead"}
      BY DEF Entry, ManagerTypeOK
    <3>2. state' = [state EXCEPT ![l] = IF Entry(l, "connected") = "connected"
                                        THEN "disconnected" ELSE Entry(l, "connected")]
      BY <2>3, <3>1, Transitions DEF OnDisconnect, Tracked
    <3>3. QED
      BY <3>2 DEF ManagerTypeOK, Entry
  <2>4. QED
    BY <2>1, <2>2, <2>3
<1>2. CASE \E l \in Keys : AdoptDisconnected(l)
  BY <1>2 DEF AdoptDisconnected, ManagerTypeOK
<1>3. CASE \E i \in Instances : PeerConnected(i) \/ Stop(i) \/ ManagerCrash(i)
  BY <1>3 DEF PeerConnected, Stop, ManagerCrash, trackVars
<1>4. CASE \E t \in Timers : WatcherNext(t)
  <2>1. PICK t \in Timers : WatcherNext(t)
    BY <1>4
  <2>2. CASE WatcherWakes(t) \/ CheckOwner(t) \/ MarkDead(t)
    BY <2>2 DEF WatcherWakes, CheckOwner, MarkDead, trackVars
  <2>3. CASE LeaveToOwner(t)
    <3>1. wkey[t] \in Keys
      BY <2>3 DEF LeaveToOwner, WorkersKeyed
    <3>2. QED
      BY <2>3, <3>1 DEF LeaveToOwner, Remove, ManagerTypeOK
  <2>4. CASE NextAttempt(t)
    <3>1. wkey[t] \in Keys
      BY <2>4 DEF NextAttempt, WorkersKeyed
    <3>2. TransitionState(state[wkey[t]], "recovery_failed") = state[wkey[t]]
      BY <3>1, Transitions DEF Tracked, ManagerTypeOK
    <3>3. state' = [state EXCEPT ![wkey[t]] = state[wkey[t]]]
      BY <2>4, <3>2 DEF NextAttempt
    <3>4. QED
      BY <3>1, <3>3 DEF ManagerTypeOK
  <2>5. CASE GracePeriodExpired(t)
    <3>1. wkey[t] \in Keys /\ left[t] = 0
      BY <2>5 DEF GracePeriodExpired, WorkersKeyed, FiredIsOver
    <3>2. Holds(t) /\ k = wkey[t]
      BY <2>5, <3>1 DEF GracePeriodExpired, ManagerTypeOK
    <3>3. QED
      BY <3>1, <3>2, ManagerAssumption DEF Holds
  <2>6. QED
    BY <2>1, <2>2, <2>3, <2>4, <2>5 DEF WatcherNext
<1>5. CASE \E w \in Workers : RecoverDeadExecutor(w)
  <2>1. PICK w \in Workers : RecoverDeadExecutor(w)
    BY <1>5
  <2>2. CASE DeleteTracked(w)
    <3>1. wkey[w] \in Keys
      BY <2>2 DEF DeleteTracked, WorkersKeyed
    <3>2. QED
      BY <2>2, <3>1 DEF DeleteTracked, Remove, ManagerTypeOK
  <2>3. QED
    BY <2>1, <2>2 DEF RecoverDeadExecutor, RecoveryAnswered, DeleteRow, trackVars
<1>6. CASE \E s \in Sweepers : SweeperNext(s)
  BY <1>6 DEF SweeperNext, StartSweep, SweepNext, trackVars
<1>7. CASE Tick \/ RowWritten
  BY <1>7 DEF Tick, RowWritten, trackVars
<1>8. QED
  BY <1>1, <1>2, <1>3, <1>4, <1>5, <1>6, <1>7 DEF ManagerNext, ManagerInternal

\* An entry is declared dead only at the end of the grace period it is in: a
\* watcher left over from an earlier disconnect cannot end a later one early.
THEOREM ManagerFullGracePeriod == ManagerSpec => FullGracePeriod
<1> DEFINE Full == \A k \in Keys : state[k] = "disconnected" /\ state'[k] = "dead" =>
                     timer[k] # None /\ left[timer[k]] = 0
<1>1. IndInv /\ [ManagerNext]_managerVars => [Full]_managerVars
  BY ExpiryStep
<1>2. QED
  BY ManagerInitInv, ManagerStepInv, <1>1, PTL DEF ManagerSpec, FullGracePeriod
=============================================================================
