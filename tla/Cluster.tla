------------------------------- MODULE Cluster -------------------------------
(***************************************************************************)
(* Relay instances that share one database: the hub of each instance       *)
(* (internal/hub), its instance manager (internal/ha) and its liveness     *)
(* manager (module LivenessManager), wired as internal/cli/serve.go does.  *)
(*                                                                         *)
(* A connection goes through ServeHTTP (the row, then the registry, then   *)
(* OnConnect) and through ExecutorConn.Close (the registry, then the row,  *)
(* then OnDisconnect).  The steps of one connection are not atomic, and    *)
(* those of two connections of one executor interleave.  Authentication    *)
(* and the handshake come before the first write and change nothing, so a  *)
(* connection that fails there is left out.                                *)
(***************************************************************************)
EXTENDS LivenessManager

CONSTANTS Conns,          \* bound: connections at a time
          MayReconnect,   \* executors come back under the same executor ID
          PeersJoin,      \* executors outside Executors connect
          MayCrash,       \* instances may crash or shut down
          LeftStatuses,   \* statuses of rows left by earlier processes
          Standalone,     \* embedded database: no adoption loop
          TimelyRenewal   \* lease renewals of live connections land in time

ASSUME ClusterAssumption ==
  /\ None \notin Conns
  /\ LeftStatuses \subseteq {"connected", "disconnected"}
  /\ {MayReconnect, PeersJoin, MayCrash, Standalone, TimelyRenewal} \subseteq BOOLEAN

VARIABLES cpc,       \* per connection: its ServeHTTP
          xpc,       \* per connection: its Close
          ckey,      \* per connection: the instance and the executor it joins
          sock,      \* per connection: the executor still holds its end
          touching,  \* per connection: ExecutorConn.touchRunning
          lapse,     \* per connection: ticks until lastRenewedAt is a lease ago
          registry,  \* per key: Registry.byApp
          phase,     \* per instance: the process
          hpc,       \* per instance: the adoption loop
          adopted,   \* per instance: rows it adopted and has yet to track
          enrolled,  \* the instances table
          seen       \* executors that have been connected before

connVars == <<cpc, xpc, ckey, sock, touching, lapse, registry>>
haVars == <<phase, hpc, adopted, enrolled>>
vars == <<managerVars, connVars, haVars, seen>>

\* A row that processes which are gone may have left behind; it has no owner
\* when the record of its instance has been deleted.
LeftBehind ==
  LET connected == {UpsertExecutor(NoRow, o) : o \in {None} \cup (Owners \ Instances)}
  IN  {NoRow} \cup {r \in connected \cup {DisconnectExecutor(r) : r \in connected} :
                     r.status \in LeftStatuses}

Init ==
  /\ ManagerInitExceptRow
  /\ row \in [Executors -> LeftBehind]
  /\ cpc = [c \in Conns |-> "free"]
  /\ xpc = [c \in Conns |-> "open"]
  /\ ckey = [c \in Conns |-> None]
  /\ sock = [c \in Conns |-> FALSE]
  /\ touching = [c \in Conns |-> FALSE]
  /\ lapse = [c \in Conns |-> 0]
  /\ registry = [k \in Keys |-> None]
  /\ phase = [i \in Instances |-> "new"]
  /\ hpc = [i \in Instances |-> "idle"]
  /\ adopted = [i \in Instances |-> {}]
  /\ enrolled = Owners \ Instances
  /\ seen = {}

\* The executor of connection c is connected and the hub serves it.
Live(c) == cpc[c] = "serving" /\ xpc[c] = "open" /\ sock[c]

HasSocket(e) == \E c \in Conns : sock[c] /\ Exec(ckey[c]) = e
IsLive(e) == \E c \in Conns : Live(c) /\ Exec(ckey[c]) = e
-----------------------------------------------------------------------------
(***************************************************************************)
(* Hub.ServeHTTP.                                                          *)
(***************************************************************************)
\* The executor opens a socket, which it does only when it holds none, and
\* passes the handshake; the hub writes the row, whose owner is a foreign key.
ServeUpsert(c, k) ==
  /\ cpc[c] = "free"
  /\ phase[Inst(k)] = "up"
  /\ Inst(k) \in enrolled
  /\ ~HasSocket(Exec(k))
  /\ MayReconnect \/ Exec(k) \notin seen
  /\ seen' = seen \cup {Exec(k)}
  /\ cpc' = [cpc EXCEPT ![c] = "upserted"]
  /\ ckey' = [ckey EXCEPT ![c] = k]
  /\ sock' = [sock EXCEPT ![c] = TRUE]
  /\ lapse' = [lapse EXCEPT ![c] = LeaseDuration]
  /\ row' = [row EXCEPT ![Exec(k)] = UpsertExecutor(@, Inst(k))]
  /\ UNCHANGED <<trackVars, watchVars, callVars, sweepVars, stopped,
                 xpc, touching, registry, haVars>>

\* Registry.Register: the connection it replaces is closed by a goroutine.
Register(c) ==
  LET k == ckey[c] IN
  /\ cpc[c] = "upserted"
  /\ cpc' = [cpc EXCEPT ![c] = "registered"]
  /\ xpc' = [d \in Conns |-> IF registry[k] = d /\ xpc[d] = "open" THEN "closing" ELSE xpc[d]]
  /\ registry' = [registry EXCEPT ![k] = c]
  /\ UNCHANGED <<managerVars, ckey, sock, touching, lapse, haVars, seen>>

\* Liveness is told, and the two pumps start.
ServeOnConnect(c) ==
  /\ cpc[c] = "registered"
  /\ cpc' = [cpc EXCEPT ![c] = "serving"]
  /\ OnConnect(ckey[c], "socket")
  /\ UNCHANGED <<xpc, ckey, sock, touching, lapse, registry, haVars, seen>>

\* The executor dies, drops the socket, or the network does.
SocketLost(c) ==
  /\ sock[c]
  /\ sock' = [sock EXCEPT ![c] = FALSE]
  /\ UNCHANGED <<managerVars, cpc, xpc, ckey, touching, lapse, registry, haVars, seen>>

(***************************************************************************)
(* ExecutorConn.Close, which runs once: the read fails, no pong comes in   *)
(* time, or the hub shuts down.                                            *)
(***************************************************************************)
CloseBegins(c) ==
  /\ \/ cpc[c] = "serving"
     \/ /\ cpc[c] = "registered"
        /\ phase[Inst(ckey[c])] = "stopping"
        /\ stopped[Inst(ckey[c])]
  /\ xpc[c] = "open"
  /\ xpc' = [xpc EXCEPT ![c] = "closing"]
  /\ UNCHANGED <<managerVars, cpc, ckey, sock, touching, lapse, registry, haVars, seen>>

\* Seeded fault: Unregister does not compare the registered connection.
IsRegisteredAny(c) == registry[ckey[c]] # None

IsRegistered(c) == registry[ckey[c]] = c

\* Registry.Unregister under the lock; a replaced connection stops here.
Unregister(c) ==
  /\ xpc[c] = "closing"
  /\ \/ /\ IsRegistered(c)
        /\ registry' = [registry EXCEPT ![ckey[c]] = None]
        /\ xpc' = [xpc EXCEPT ![c] = "removed"]
     \/ /\ ~IsRegistered(c)
        /\ xpc' = [xpc EXCEPT ![c] = "closed"]
        /\ UNCHANGED registry
  /\ UNCHANGED <<managerVars, cpc, ckey, sock, touching, lapse, haVars, seen>>

\* Registry.Unregister after the lock; a failed write is logged.
UnregisterRow(c) ==
  LET e == Exec(ckey[c]) IN
  /\ xpc[c] = "removed"
  /\ xpc' = [xpc EXCEPT ![c] = "rowDone"]
  /\ row' \in {[row EXCEPT ![e] = DisconnectExecutor(@)]} \cup IF StoreFaults THEN {row} ELSE {}
  /\ UNCHANGED <<trackVars, watchVars, callVars, sweepVars, stopped,
                 cpc, ckey, sock, touching, lapse, registry, haVars, seen>>

UnregisterOnDisconnect(c) ==
  /\ xpc[c] = "rowDone"
  /\ xpc' = [xpc EXCEPT ![c] = "closed"]
  /\ OnDisconnect(ckey[c], "socket")
  /\ UNCHANGED <<cpc, ckey, sock, touching, lapse, registry, haVars, seen>>

\* Close returns.  It does not wait for the goroutine of triggerLeaseTouch; the
\* member of Conns is given back once that has returned too, so that its late
\* write still has a connection to belong to.
ConnDone(c) ==
  /\ cpc[c] = "serving"
  /\ xpc[c] = "closed"
  /\ ~touching[c]
  /\ cpc' = [cpc EXCEPT ![c] = "free"]
  /\ xpc' = [xpc EXCEPT ![c] = "open"]
  /\ ckey' = [ckey EXCEPT ![c] = None]
  /\ sock' = [sock EXCEPT ![c] = FALSE]
  /\ lapse' = [lapse EXCEPT ![c] = 0]
  /\ UNCHANGED <<managerVars, touching, registry, haVars, seen>>

(***************************************************************************)
(* HeartbeatPump after a pong: triggerLeaseTouch, one renewal at a time.   *)
(***************************************************************************)
TriggerLeaseTouch(c) ==
  /\ Live(c)
  /\ ~touching[c]
  /\ touching' = [touching EXCEPT ![c] = TRUE]
  /\ UNCHANGED <<managerVars, cpc, xpc, ckey, sock, lapse, registry, haVars, seen>>

TouchReturns(c) ==
  /\ touching[c]
  /\ touching' = [touching EXCEPT ![c] = FALSE]
  /\ \/ /\ row' = [row EXCEPT ![Exec(ckey[c])] = TouchExecutorLastSeen(@)]
        /\ lapse' = [lapse EXCEPT ![c] = LeaseDuration]
        /\ UNCHANGED xpc
     \/ /\ StoreFaults \/ phase[Inst(ckey[c])] = "stopping"
        /\ xpc' = [xpc EXCEPT ![c] = IF @ = "open" /\ lapse[c] = 0 THEN "closing" ELSE @]
        /\ UNCHANGED <<row, lapse>>
  /\ UNCHANGED <<trackVars, watchVars, callVars, sweepVars, stopped,
                 cpc, ckey, sock, registry, haVars, seen>>
-----------------------------------------------------------------------------
(***************************************************************************)
(* The instance manager.  Start enrols the instance, adopts every row whose *)
(* lease is over, with one statement, and hands each to the liveness       *)
(* manager; so does every turn of the adoption loop, which then deletes    *)
(* the instances that have not sent a heartbeat for long, and reaps old    *)
(* disconnected rows.  Without its record an instance can own no row: the  *)
(* database refuses the statement.                                         *)
(***************************************************************************)
\* UpsertInstance; when it fails the process ends.
Enrol(i) ==
  /\ phase[i] = "new"
  /\ phase' = [phase EXCEPT ![i] = "starting"]
  /\ enrolled' = enrolled \cup {i}
  /\ UNCHANGED <<managerVars, connVars, hpc, adopted, seen>>

AdoptQuery(i) ==
  /\ hpc[i] = "idle"
  /\ phase[i] = "starting" \/ (phase[i] = "up" /\ ~Standalone)
  /\ hpc' = [hpc EXCEPT ![i] = "adopting"]
  /\ \/ /\ i \in enrolled
        /\ adopted' = [adopted EXCEPT ![i] = {e \in Executors : Adoptable(row[e], i)}]
        /\ row' = [e \in Executors |->
                     IF Adoptable(row[e], i) THEN AdoptExpiredExecutors(row[e], i) ELSE row[e]]
     \/ /\ StoreFaults \/ i \notin enrolled
        /\ UNCHANGED <<adopted, row>>
  /\ UNCHANGED <<trackVars, watchVars, callVars, sweepVars, stopped, connVars,
                 phase, enrolled, seen>>

Adopt(i) ==
  /\ hpc[i] = "adopting"
  /\ \E e \in adopted[i] :
       /\ adopted' = [adopted EXCEPT ![i] = @ \ {e}]
       /\ AdoptDisconnected(<<i, e>>)
  /\ UNCHANGED <<connVars, phase, hpc, enrolled, seen>>

\* Seeded fault: the server listens before every adopted row is tracked.
StartedEarly(i) ==
  /\ phase[i] = "starting"
  /\ hpc[i] = "adopting"
  /\ phase' = [phase EXCEPT ![i] = "up"]
  /\ hpc' = [hpc EXCEPT ![i] = "idle"]
  /\ UNCHANGED <<managerVars, connVars, adopted, enrolled, seen>>

\* Start returns, and the server begins to listen.
Started(i) ==
  /\ phase[i] = "starting"
  /\ hpc[i] = "adopting"
  /\ adopted[i] = {}
  /\ phase' = [phase EXCEPT ![i] = "up"]
  /\ hpc' = [hpc EXCEPT ![i] = "idle"]
  /\ UNCHANGED <<managerVars, connVars, adopted, enrolled, seen>>

\* The heartbeats of a process that ended have stopped; those of one that runs
\* are missing only if its writes failed all the while.  A heartbeat is an
\* UPDATE: it refreshes a record that is there and never puts one back.
Stale == {o \in enrolled : \/ o \notin Instances
                           \/ phase[o] \in {"stopping", "down"}
                           \/ StoreFaults}

DeleteStaleInstances(i) ==
  /\ phase[i] = "up"
  /\ hpc[i] = "adopting"
  /\ adopted[i] = {}
  /\ hpc' = [hpc EXCEPT ![i] = "reaping"]
  /\ \E gone \in SUBSET Stale :
       /\ enrolled' = enrolled \ gone
       /\ row' = [e \in Executors |-> OwnersDeleted(row[e], gone)]
  /\ UNCHANGED <<trackVars, watchVars, callVars, sweepVars, stopped, connVars,
                 phase, adopted, seen>>

Reap(i) ==
  /\ hpc[i] = "reaping"
  /\ hpc' = [hpc EXCEPT ![i] = "idle"]
  /\ row' \in {[e \in Executors |-> ReapExpiredExecutors(row[e])]}
               \cup IF StoreFaults THEN {row} ELSE {}
  /\ UNCHANGED <<trackVars, watchVars, callVars, sweepVars, stopped, connVars,
                 phase, adopted, enrolled, seen>>

(***************************************************************************)
(* Processes.  serve stops the instance manager, then the liveness         *)
(* manager, and closes the hub last.  A process that ends, killed or not,  *)
(* takes its connections and its memory with it: Crash is both.            *)
(***************************************************************************)
Shutdown(i) ==
  /\ MayCrash
  /\ phase[i] = "up"
  /\ hpc[i] = "idle"
  /\ phase' = [phase EXCEPT ![i] = "stopping"]
  /\ \/ /\ enrolled' = enrolled \ {i}
        /\ row' = [e \in Executors |-> OwnersDeleted(row[e], {i})]
     \/ /\ StoreFaults
        /\ UNCHANGED <<enrolled, row>>
  /\ UNCHANGED <<trackVars, watchVars, callVars, sweepVars, stopped, connVars,
                 hpc, adopted, seen>>

ManagerStops(i) ==
  /\ phase[i] = "stopping"
  /\ Stop(i)
  /\ UNCHANGED <<connVars, haVars, seen>>

Crash(i) ==
  LET mine(c) == (ckey[c] # None /\ Inst(ckey[c]) = i) IN
  /\ MayCrash
  /\ phase[i] # "down"
  /\ phase' = [phase EXCEPT ![i] = "down"]
  /\ hpc' = [hpc EXCEPT ![i] = "idle"]
  /\ adopted' = [adopted EXCEPT ![i] = {}]
  /\ ManagerCrash(i)
  /\ registry' = [k \in Keys |-> IF Inst(k) = i THEN None ELSE registry[k]]
  /\ cpc' = [c \in Conns |-> IF mine(c) THEN "free" ELSE cpc[c]]
  /\ xpc' = [c \in Conns |-> IF mine(c) THEN "open" ELSE xpc[c]]
  /\ ckey' = [c \in Conns |-> IF mine(c) THEN None ELSE ckey[c]]
  /\ sock' = [c \in Conns |-> ~mine(c) /\ sock[c]]
  /\ touching' = [c \in Conns |-> ~mine(c) /\ touching[c]]
  /\ lapse' = [c \in Conns |-> IF mine(c) THEN 0 ELSE lapse[c]]
  /\ UNCHANGED <<enrolled, seen>>

\* An executor outside Executors joins instance i, which starts a sweep.
PeerJoins(i) ==
  /\ PeersJoin
  /\ phase[i] = "up"
  /\ PeerConnected(i)
  /\ UNCHANGED <<connVars, haVars, seen>>

ClusterTick ==
  /\ TimelyRenewal => \A c \in Conns : cpc[c] # "free" /\ xpc[c] = "open" /\ sock[c] => lapse[c] > 1
  /\ Tick
  /\ lapse' = [c \in Conns |-> IF lapse[c] > 0 THEN lapse[c] - 1 ELSE 0]
  /\ UNCHANGED <<cpc, xpc, ckey, sock, touching, registry, haVars, seen>>

ConnSteps(c) ==
  \/ Register(c) \/ ServeOnConnect(c) \/ Unregister(c) \/ UnregisterRow(c)
  \/ UnregisterOnDisconnect(c) \/ ConnDone(c) \/ TouchReturns(c)

InstanceSteps(i) ==
  Enrol(i) \/ AdoptQuery(i) \/ Adopt(i) \/ Started(i) \/ DeleteStaleInstances(i) \/ Reap(i)

ManagerSteps == ManagerInternal /\ UNCHANGED <<connVars, haVars, seen>>

Next ==
  \/ \E c \in Conns, k \in Keys : ServeUpsert(c, k)
  \/ \E c \in Conns : ConnSteps(c) \/ SocketLost(c) \/ CloseBegins(c) \/ TriggerLeaseTouch(c)
  \/ \E i \in Instances : InstanceSteps(i)
  \/ \E i \in Instances : Shutdown(i) \/ ManagerStops(i) \/ Crash(i) \/ PeerJoins(i)
  \/ ManagerSteps
  \/ ClusterTick

Spec == Init /\ [][Next]_vars

(***************************************************************************)
(* Fairness.  Goroutines run, loops turn, time passes, a read on a dead    *)
(* socket or a ping without a pong ends, and peers that are asked often    *)
(* enough recover an executor.  Executors need not connect, no peer need   *)
(* join, and no process need stop.                                         *)
(***************************************************************************)
Rest == <<connVars, haVars, seen>>

Fairness ==
  /\ \A c \in Conns : WF_vars(ConnSteps(c)) /\ WF_vars(CloseBegins(c) /\ ~sock[c])
  /\ \A i \in Instances : WF_vars(InstanceSteps(i))
  /\ \A t \in Timers : WF_vars(WatcherNext(t) /\ UNCHANGED Rest)
  /\ \A w \in Workers : /\ WF_vars(RecoverDeadExecutor(w) /\ UNCHANGED Rest)
                        /\ SF_vars(RecoveryAnswered(w, "acked") /\ UNCHANGED Rest)
  /\ \A s \in Sweepers : /\ WF_vars(SweepNext(s) /\ UNCHANGED Rest)
                         /\ \A i \in Instances : SF_vars(StartSweep(s, i) /\ UNCHANGED Rest)
  /\ WF_vars(ClusterTick)

FairSpec == Spec /\ Fairness
-----------------------------------------------------------------------------
\* The type of each variable.  A connection in use has a key.  A row that was
\* adopted is handed to the liveness manager before Start returns or the loop
\* goes on: nothing else would start its grace period.
ClusterTypeOK ==
  /\ cpc \in [Conns -> {"free", "upserted", "registered", "serving"}]
  /\ xpc \in [Conns -> {"open", "closing", "removed", "rowDone", "closed"}]
  /\ ckey \in [Conns -> Keys \cup {None}]
  /\ sock \in [Conns -> BOOLEAN]
  /\ touching \in [Conns -> BOOLEAN]
  /\ lapse \in [Conns -> 0 .. LeaseDuration]
  /\ registry \in [Keys -> Conns \cup {None}]
  /\ phase \in [Instances -> {"new", "starting", "up", "stopping", "down"}]
  /\ hpc \in [Instances -> {"idle", "adopting", "reaping"}]
  /\ adopted \in [Instances -> SUBSET Executors]
  /\ enrolled \subseteq Owners
  /\ seen \subseteq Executors
  /\ \A c \in Conns : cpc[c] = "free" => ckey[c] = None /\ ~sock[c] /\ ~touching[c]
  /\ \A c \in Conns : cpc[c] # "free" => ckey[c] # None
  /\ \A i \in Instances : hpc[i] # "adopting" => adopted[i] = {}

\* A connection in the registry is one whose Close has not got past Unregister,
\* and a registered connection that nobody is closing is the one in the
\* registry: the late Close of an old connection never evicts the connection
\* that replaced it, and dispatch never selects a connection that has gone.
RegistryCurrent ==
  /\ \A k \in Keys : registry[k] # None =>
       /\ ckey[registry[k]] = k
       /\ cpc[registry[k]] \in {"registered", "serving"}
       /\ xpc[registry[k]] \in {"open", "closing"}
  /\ \A c \in Conns : cpc[c] \in {"registered", "serving"} /\ xpc[c] = "open" =>
       registry[ckey[c]] = c

\* A live executor that renews its lease in time is not taken for dead: no
\* reaper, adopter or grace timer of any instance marks its row.
LiveNeverDead ==
  [][\A e \in Executors : IsLive(e) /\ row[e].status # "dead" => row'[e].status # "dead"]_vars

\* The record of a live executor is not pruned.
LiveRecordKept ==
  [][\A e \in Executors : IsLive(e) /\ Present(row[e]) => Present(row'[e])]_vars

\* No row is marked dead, by a reaper or by an instance whose timer ran out,
\* while a grace timer of its executor still has time left.
GraceRespected ==
  [][\A k \in Keys : /\ row[Exec(k)].status # "dead"
                     /\ row'[Exec(k)].status = "dead"
                     /\ timer[k] # None
                     => left[timer[k]] = 0]_vars

\* An instance whose grace timer ran out does not mark the row dead while the
\* timer that another instance started for a later disconnect is still running.
LastDisconnectCounts ==
  [][\A t \in Timers : wpc[t] = "marking" /\ wpc'[t] = "recovering" =>
       \A i \in Instances \ {Inst(wkey[t])} :
         LET k == <<i, Exec(wkey[t])>> IN timer[k] # None => left[timer[k]] = 0]_vars

\* An entry is "connected" only while some connection of the executor to the
\* instance exists.
NoZombie ==
  \A k \in Keys : state[k] = "connected" => \E c \in Conns : ckey[c] = k

\* An instance that is up has its record in the instances table, or gets it
\* back: its heartbeats keep it registered.
StaysEnrolled ==
  \A i \in Instances : (phase[i] = "up" ~> i \in enrolled \/ phase[i] # "up")

\* An executor that is gone for good is recovered and its record pruned, as
\* long as some instance keeps running.
GoneIsRecovered ==
  \A e \in Executors :
    (<>[]~HasSocket(e)) /\ (\E i \in Instances : <>[](phase[i] = "up")) => <>[]~Present(row[e])
=============================================================================
