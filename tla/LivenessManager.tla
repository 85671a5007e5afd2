--------------------------- MODULE LivenessManager ---------------------------
(***************************************************************************)
(* The liveness manager of every Relay instance (internal/liveness/        *)
(* manager.go), for the executors of one application.                      *)
(*                                                                         *)
(* Manager.mu guards the tracked entries.  Each section under it is one    *)
(* action, and so is each database call, because they happen with the lock *)
(* released: a watcher goroutine takes its decision in one section and     *)
(* carries it out in later ones.                                           *)
(*                                                                         *)
(* A key is a pair of an instance and an executor; the entry of key k is   *)
(* state[k], source[k] and timer[k], with state "absent" for none.  A      *)
(* grace timer, the goroutine that watches it and the recovery goroutine   *)
(* that the watcher turns into are one member of Timers; a run of          *)
(* SweepDeadExecutors is one member of Sweepers.  Both are pools whose     *)
(* members are used again.  RecoverDeadExecutor is reduced to what the     *)
(* manager sees of it: dispatched, then acknowledged and the record        *)
(* deleted, or one of two kinds of failure.                                *)
(***************************************************************************)
EXTENDS ExecutorStore, LivenessMachine

CONSTANTS Executors,
          Instances,    \* the Relay processes whose managers are modelled
          Timers,       \* bound: grace timers and their goroutines at a time
          Sweepers,     \* bound: sweeps at a time
          Graces,       \* grace periods, in ticks, that resolveTimeout may return
          MaxRetries,   \* attempts of the recovery goroutine
          StoreFaults   \* whether a database call of a watcher may fail

ASSUME ManagerAssumption ==
  /\ Instances \subseteq Owners
  /\ Graces \subseteq Nat
  /\ MaxRetries \in Nat \ {0}
  /\ StoreFaults \in BOOLEAN
  /\ Timers \cap Sweepers = {}
  /\ None \notin Timers \cup (Instances \X Executors)

VARIABLES state, source, timer,              \* per key
          wpc, left, cancelled, attempt,     \* per timer
          call, wkey,                        \* per worker: its recovery call and key
          sinst, todo,                       \* per sweeper
          sweepDue, stopped,                 \* per instance
          row                                \* per executor: the executors table

Keys == Instances \X Executors
Inst(k) == k[1]
Exec(k) == k[2]
Workers == Timers \cup Sweepers

trackVars == <<state, source, timer>>
watchVars == <<wpc, left, cancelled, attempt>>
callVars == <<call, wkey>>
sweepVars == <<sinst, todo, sweepDue>>
managerVars == <<trackVars, watchVars, callVars, sweepVars, stopped, row>>

Sources == {"socket", "probe"}

ManagerInitExceptRow ==
  /\ state = [k \in Keys |-> "absent"]
  /\ source = [k \in Keys |-> "socket"]
  /\ timer = [k \in Keys |-> None]
  /\ wpc = [t \in Timers |-> "free"]
  /\ left = [t \in Timers |-> 0]
  /\ cancelled = [t \in Timers |-> FALSE]
  /\ attempt = [t \in Timers |-> 0]
  /\ call = [w \in Workers |-> "none"]
  /\ wkey = [w \in Workers |-> None]
  /\ sinst = [s \in Sweepers |-> None]
  /\ todo = [s \in Sweepers |-> {}]
  /\ sweepDue = [i \in Instances |-> FALSE]
  /\ stopped = [i \in Instances |-> FALSE]

ManagerInit == ManagerInitExceptRow /\ row = [e \in Executors |-> NoRow]

\* exec.state of the entry, or of the one that is created when there is none.
Entry(k, created) == IF state[k] = "absent" THEN created ELSE state[k]

\* Seeded fault: the entry stays in the map in the state the delete event gave it.
RemoveKeepsEntry(k) ==
  /\ state' = [state EXCEPT ![k] = TransitionState(@, "delete")]
  /\ timer' = [timer EXCEPT ![k] = None]
  /\ UNCHANGED source

Remove(k) ==
  /\ state' = [state EXCEPT ![k] = "absent"]
  /\ source' = [source EXCEPT ![k] = "socket"]
  /\ timer' = [timer EXCEPT ![k] = None]

(***************************************************************************)
(* Grace timers.  Arming takes a member of the pool that no goroutine uses *)
(* and no entry refers to; cancelling stops the timer and closes the       *)
(* channel its watcher selects on (done is the state of those channels).   *)
(***************************************************************************)
Cancelling(k) == IF timer[k] = None THEN cancelled
                                    ELSE [cancelled EXCEPT ![timer[k]] = TRUE]

Arm(k, t, g, done) ==
  /\ wpc[t] = "free"
  /\ \A l \in Keys : timer[l] # t
  /\ timer' = [timer EXCEPT ![k] = t]
  /\ wpc' = [wpc EXCEPT ![t] = "waiting"]
  /\ wkey' = [wkey EXCEPT ![t] = k]
  /\ left' = [left EXCEPT ![t] = g]
  /\ attempt' = [attempt EXCEPT ![t] = 0]
  /\ cancelled' = [done EXCEPT ![t] = FALSE]

\* Seeded fault: reconnecting leaves the grace timer running.
ReconnectKeepsTimer(k, a) == UNCHANGED <<timer, cancelled>>

Reconnected(k, a) ==
  IF a = "cancel_grace_timer"
  THEN /\ cancelled' = Cancelling(k)
       /\ timer' = [timer EXCEPT ![k] = None]
  ELSE UNCHANGED <<timer, cancelled>>

OnConnect(k, src) ==
  LET s == Entry(k, "") IN
  /\ ~TransitionFails(s, "connect")
  /\ state' = [state EXCEPT ![k] = TransitionState(s, "connect")]
  /\ source' = [source EXCEPT ![k] =
                  IF s = "" THEN src ELSE IF src = "socket" THEN "socket" ELSE @]
  /\ Reconnected(k, TransitionAction(s, "connect"))
  /\ sweepDue' = [sweepDue EXCEPT ![Inst(k)] = TRUE]
  /\ UNCHANGED <<wpc, left, attempt, callVars, sinst, todo, stopped, row>>

\* OnConnect of an executor that is not in Executors: all it does to the others
\* is to start a sweep.
PeerConnected(i) ==
  /\ sweepDue' = [sweepDue EXCEPT ![i] = TRUE]
  /\ UNCHANGED <<trackVars, watchVars, callVars, sinst, todo, stopped, row>>

\* A probe cannot disconnect an executor that a socket registered.
ProbeRefused(k, src) == src = "probe" /\ state[k] # "absent" /\ source[k] # "probe"

OnDisconnect(k, src) ==
  LET s == Entry(k, "connected") IN
  /\ ~ProbeRefused(k, src)
  /\ ~TransitionFails(s, "disconnect")
  /\ state' = [state EXCEPT ![k] = TransitionState(s, "disconnect")]
  /\ source' = [source EXCEPT ![k] = IF state[k] = "absent" THEN src ELSE @]
  /\ IF TransitionAction(s, "disconnect") = "start_grace_timer"
     THEN \E t \in Timers, g \in Graces : Arm(k, t, g, cancelled)
     ELSE UNCHANGED <<timer, wpc, left, cancelled, attempt, wkey>>
  /\ UNCHANGED <<call, sweepVars, stopped, row>>

\* An adopted executor is tracked as disconnected, whatever it was before.
AdoptDisconnected(k) ==
  /\ state' = [state EXCEPT ![k] = "disconnected"]
  /\ source' = [source EXCEPT ![k] = "socket"]
  /\ \E t \in Timers, g \in Graces : Arm(k, t, g, Cancelling(k))
  /\ UNCHANGED <<call, sweepVars, stopped, row>>
-----------------------------------------------------------------------------
(***************************************************************************)
(* watchGracePeriod, one goroutine per armed timer.                        *)
(***************************************************************************)
Goto(t, to) ==
  /\ wpc' = [wpc EXCEPT ![t] = to]
  /\ UNCHANGED <<left, cancelled, attempt, call, wkey>>

Return(t) ==
  /\ wpc' = [wpc EXCEPT ![t] = "free"]
  /\ left' = [left EXCEPT ![t] = 0]
  /\ cancelled' = [cancelled EXCEPT ![t] = FALSE]
  /\ attempt' = [attempt EXCEPT ![t] = 0]
  /\ call' = [call EXCEPT ![t] = "none"]
  /\ wkey' = [wkey EXCEPT ![t] = None]

\* The select: the timer fired, or the wait is over because the entry
\* cancelled it or the manager stopped.  A stopped timer no longer fires.
WatcherWakes(t) ==
  /\ wpc[t] = "waiting"
  /\ \/ /\ left[t] = 0
        /\ ~cancelled[t]
        /\ Goto(t, "fired")
     \/ /\ cancelled[t] \/ stopped[Inst(wkey[t])]
        /\ Return(t)
  /\ UNCHANGED <<trackVars, sweepVars, stopped, row>>

\* Seeded fault: the watcher does not compare exec.timer with its own timer.
HoldsAny(t) == state[wkey[t]] = "disconnected"

Holds(t) == timer[wkey[t]] = t /\ state[wkey[t]] = "disconnected"

GracePeriodExpired(t) ==
  LET k == wkey[t] IN
  /\ wpc[t] = "fired"
  /\ IF Holds(t)
     THEN /\ state' = [state EXCEPT ![k] = TransitionState(@, "grace_period_expired")]
          /\ timer' = [timer EXCEPT ![k] = None]
          /\ Goto(t, "checking")
     ELSE /\ Return(t)
          /\ UNCHANGED <<state, timer>>
  /\ UNCHANGED <<source, sweepVars, stopped, row>>

\* GetExecutorByID and its conditions.  If the lookup fails the watcher goes on.
OwnedElsewhere(k) ==
  LET r == row[Exec(k)] IN
  /\ r.status = "connected"
  /\ r.owner \notin {None, Inst(k)}
  /\ r.lease > 0

CheckOwner(t) ==
  LET k == wkey[t] IN
  /\ wpc[t] = "checking"
  /\ \/ OwnedElsewhere(k) /\ Goto(t, "leaving")
     \/ /\ ~OwnedElsewhere(k) \/ StoreFaults \/ stopped[Inst(k)]
        /\ Goto(t, "marking")
  /\ UNCHANGED <<trackVars, sweepVars, stopped, row>>

\* The entry is deleted in a section of its own, whatever it has become since.
LeaveToOwner(t) ==
  /\ wpc[t] = "leaving"
  /\ Remove(wkey[t])
  /\ Return(t)
  /\ UNCHANGED <<sweepVars, stopped, row>>

\* SetExecutorDead; without a row that changed, recovery is left to the sweeps.
MarkDead(t) ==
  LET e == Exec(wkey[t]) IN
  /\ wpc[t] = "marking"
  /\ \/ /\ SetsExecutorDead(row[e])
        /\ ~stopped[Inst(wkey[t])]
        /\ row' = [row EXCEPT ![e] = SetExecutorDead(@)]
        /\ wpc' = [wpc EXCEPT ![t] = "recovering"]
        /\ call' = [call EXCEPT ![t] = "dispatch"]
        /\ attempt' = [attempt EXCEPT ![t] = 1]
        /\ UNCHANGED <<left, cancelled, wkey>>
     \/ /\ ~SetsExecutorDead(row[e]) \/ StoreFaults \/ stopped[Inst(wkey[t])]
        /\ Return(t)
        /\ UNCHANGED row
  /\ UNCHANGED <<trackVars, sweepVars, stopped>>

\* The recovery goroutine after a call returned.  EventRecoveryFailed, raised
\* when the attempts are used up, leaves a dead entry dead and any other alone.
NextAttempt(t) ==
  /\ wpc[t] = "recovering"
  /\ call[t] \in {"ok", "noPeers", "failed"}
  /\ IF call[t] = "ok" \/ attempt[t] = MaxRetries \/ stopped[Inst(wkey[t])]
     THEN Return(t)
     ELSE /\ call' = [call EXCEPT ![t] = "dispatch"]
          /\ attempt' = [attempt EXCEPT ![t] = @ + 1]
          /\ UNCHANGED <<wpc, left, cancelled, wkey>>
  /\ state' = [state EXCEPT ![wkey[t]] =
                 IF call[t] = "failed" /\ attempt[t] = MaxRetries
                    /\ @ # "absent" /\ ~TransitionFails(@, "recovery_failed")
                 THEN TransitionState(@, "recovery_failed") ELSE @]
  /\ UNCHANGED <<source, timer, sweepVars, stopped, row>>
-----------------------------------------------------------------------------
(***************************************************************************)
(* RecoverDeadExecutor as a call made by worker w for the executor of      *)
(* wkey[w].  An acknowledgement is followed by Manager.DeleteExecutor:     *)
(* the entry goes under the lock, the row in a database call after it.     *)
(***************************************************************************)
RecoveryAnswered(w, result) ==
  /\ call[w] = "dispatch"
  /\ call' = [call EXCEPT ![w] = result]
  /\ UNCHANGED <<trackVars, watchVars, wkey, sweepVars, stopped, row>>

DeleteTracked(w) ==
  /\ call[w] = "acked"
  /\ call' = [call EXCEPT ![w] = "deleting"]
  /\ Remove(wkey[w])
  /\ UNCHANGED <<watchVars, wkey, sweepVars, stopped, row>>

DeleteRow(w) ==
  /\ call[w] = "deleting"
  /\ \/ /\ call' = [call EXCEPT ![w] = "ok"]
        /\ row' = [row EXCEPT ![Exec(wkey[w])] = NoRow]
     \/ /\ StoreFaults \/ stopped[Inst(wkey[w])]
        /\ call' = [call EXCEPT ![w] = "failed"]
        /\ UNCHANGED row
  /\ UNCHANGED <<trackVars, watchVars, wkey, sweepVars, stopped>>

(***************************************************************************)
(* SweepDeadExecutors, started by every OnConnect and, every sweepInterval,*)
(* by sweepAll as long as an entry of the instance is dead.                *)
(***************************************************************************)
\* Seeded fault: sweepAll finds no application to sweep.
NoPeriodicSweep(i) == FALSE

PeriodicSweepDue(i) == \E e \in Executors : state[<<i, e>>] = "dead"

StartSweep(s, i) ==
  /\ sinst[s] = None
  /\ ~stopped[i]
  /\ sweepDue[i] \/ PeriodicSweepDue(i)
  /\ sinst' = [sinst EXCEPT ![s] = i]
  /\ \/ todo' = [todo EXCEPT ![s] = {e \in Executors : row[e].status = "dead"}]
     \/ StoreFaults /\ todo' = [todo EXCEPT ![s] = {}]
  /\ sweepDue' = [sweepDue EXCEPT ![i] = FALSE]
  /\ UNCHANGED <<trackVars, watchVars, callVars, stopped, row>>

SweepNext(s) ==
  /\ sinst[s] # None
  /\ call[s] \in {"none", "ok", "noPeers", "failed"}
  /\ \/ /\ todo[s] = {}
        /\ sinst' = [sinst EXCEPT ![s] = None]
        /\ call' = [call EXCEPT ![s] = "none"]
        /\ wkey' = [wkey EXCEPT ![s] = None]
        /\ UNCHANGED todo
     \/ \E e \in todo[s] :
        /\ todo' = [todo EXCEPT ![s] = @ \ {e}]
        /\ wkey' = [wkey EXCEPT ![s] = <<sinst[s], e>>]
        /\ call' = [call EXCEPT ![s] = "dispatch"]
        /\ UNCHANGED sinst
  /\ UNCHANGED <<trackVars, watchVars, sweepDue, stopped, row>>
-----------------------------------------------------------------------------
\* Stop cancels the context and every timer; the goroutines notice by themselves.
Stop(i) ==
  /\ ~stopped[i]
  /\ stopped' = [stopped EXCEPT ![i] = TRUE]
  /\ cancelled' = [t \in Timers |->
                     cancelled[t] \/ \E e \in Executors : timer[<<i, e>>] = t]
  /\ timer' = [k \in Keys |-> IF Inst(k) = i THEN None ELSE timer[k]]
  /\ UNCHANGED <<state, source, wpc, left, attempt, callVars, sweepVars, row>>

\* The process of instance i dies: its entries and its goroutines are gone.
ManagerCrash(i) ==
  LET gone(w) == (wkey[w] # None /\ Inst(wkey[w]) = i) IN
  /\ state' = [k \in Keys |-> IF Inst(k) = i THEN "absent" ELSE state[k]]
  /\ source' = [k \in Keys |-> IF Inst(k) = i THEN "socket" ELSE source[k]]
  /\ timer' = [k \in Keys |-> IF Inst(k) = i THEN None ELSE timer[k]]
  /\ wpc' = [t \in Timers |-> IF gone(t) THEN "free" ELSE wpc[t]]
  /\ left' = [t \in Timers |-> IF gone(t) THEN 0 ELSE left[t]]
  /\ cancelled' = [t \in Timers |-> ~gone(t) /\ cancelled[t]]
  /\ attempt' = [t \in Timers |-> IF gone(t) THEN 0 ELSE attempt[t]]
  /\ call' = [w \in Workers |-> IF gone(w) THEN "none" ELSE call[w]]
  /\ wkey' = [w \in Workers |-> IF gone(w) THEN None ELSE wkey[w]]
  /\ sinst' = [s \in Sweepers |-> IF sinst[s] = i THEN None ELSE sinst[s]]
  /\ todo' = [s \in Sweepers |-> IF sinst[s] = i THEN {} ELSE todo[s]]
  /\ sweepDue' = [sweepDue EXCEPT ![i] = FALSE]
  /\ stopped' = [stopped EXCEPT ![i] = TRUE]
  /\ UNCHANGED row

\* The wall clock: armed timers and the deadlines in the table come closer.
Tick ==
  /\ left' = [t \in Timers |-> IF wpc[t] = "waiting" /\ left[t] > 0 THEN left[t] - 1
                                                                    ELSE left[t]]
  /\ row' = [e \in Executors |-> Aged(row[e])]
  /\ UNCHANGED <<trackVars, wpc, cancelled, attempt, callVars, sweepVars, stopped>>

\* The hub, the instance managers and other processes write the table too.
RowWrites(r) ==
  {r, TouchExecutorLastSeen(r), DisconnectExecutor(r), ReapExpiredExecutors(r)}
    \cup {UpsertExecutor(r, i) : i \in Owners}
    \cup {[r EXCEPT !.owner = None]}
    \cup {AdoptExpiredExecutors(r, i) : i \in {j \in Owners : Adoptable(r, j)}}

RowWritten ==
  /\ row' \in [Executors -> UNION {RowWrites(row[e]) : e \in Executors}]
  /\ \A e \in Executors : row'[e] \in RowWrites(row[e])
  /\ UNCHANGED <<trackVars, watchVars, callVars, sweepVars, stopped>>

WatcherNext(t) ==
  \/ WatcherWakes(t) \/ GracePeriodExpired(t) \/ CheckOwner(t) \/ LeaveToOwner(t)
  \/ MarkDead(t) \/ NextAttempt(t)

RecoverDeadExecutor(w) ==
  \/ \E result \in {"acked", "noPeers", "failed"} : RecoveryAnswered(w, result)
  \/ DeleteTracked(w) \/ DeleteRow(w)

SweeperNext(s) == (\E i \in Instances : StartSweep(s, i)) \/ SweepNext(s)

ManagerInternal ==
  \/ \E t \in Timers : WatcherNext(t)
  \/ \E w \in Workers : RecoverDeadExecutor(w)
  \/ \E s \in Sweepers : SweeperNext(s)

\* The manager with callers and a table that may do anything they could do.
ManagerNext ==
  \/ \E k \in Keys, src \in Sources : OnConnect(k, src) \/ OnDisconnect(k, src)
  \/ \E k \in Keys : AdoptDisconnected(k)
  \/ \E i \in Instances : PeerConnected(i) \/ Stop(i) \/ ManagerCrash(i)
  \/ ManagerInternal
  \/ Tick
  \/ RowWritten

ManagerSpec == ManagerInit /\ [][ManagerNext]_managerVars
-----------------------------------------------------------------------------
WatcherPCs == {"free", "waiting", "fired", "checking", "leaving", "marking", "recovering"}
CallPCs == {"none", "dispatch", "acked", "deleting", "ok", "noPeers", "failed"}

\* The type of each variable; "" and "deleted" never stay in an entry.
ManagerTypeOK ==
  /\ state \in [Keys -> {"absent", "connected", "disconnected", "dead"}]
  /\ source \in [Keys -> Sources]
  /\ timer \in [Keys -> Timers \cup {None}]
  /\ wpc \in [Timers -> WatcherPCs]
  /\ left \in [Timers -> Nat]
  /\ cancelled \in [Timers -> BOOLEAN]
  /\ attempt \in [Timers -> 0 .. MaxRetries]
  /\ call \in [Workers -> CallPCs]
  /\ wkey \in [Workers -> Keys \cup {None}]
  /\ sinst \in [Sweepers -> Instances \cup {None}]
  /\ todo \in [Sweepers -> SUBSET Executors]
  /\ sweepDue \in [Instances -> BOOLEAN]
  /\ stopped \in [Instances -> BOOLEAN]
  /\ row \in [Executors -> Rows]

\* An entry refers to a timer exactly while its executor is disconnected, and
\* that timer is running for it: onConnect, onDisconnect, AdoptDisconnected,
\* DeleteExecutor and the watcher all set the pair of state and timer under
\* mu, from different states.  A disconnected entry without a running timer
\* would never be declared dead; a timer left on any other entry would declare
\* a connected executor dead.  Stop discards the timers of its instance.
TimerGuardsDisconnect ==
  \A k \in Keys : ~stopped[Inst(k)] =>
    /\ state[k] = "disconnected" <=> timer[k] # None
    /\ timer[k] # None => /\ wkey[timer[k]] = k
                          /\ wpc[timer[k]] \in {"waiting", "fired"}
                          /\ ~cancelled[timer[k]]

\* An entry becomes dead only when the timer of the disconnect it is in now
\* has run out.  A watcher that fired for an earlier disconnect, and waited
\* for mu while the executor came back and left again, must not end the new
\* grace period early.
FullGracePeriod ==
  [][\A k \in Keys : state[k] = "disconnected" /\ state'[k] = "dead" =>
       timer[k] # None /\ left[timer[k]] = 0]_managerVars
=============================================================================
