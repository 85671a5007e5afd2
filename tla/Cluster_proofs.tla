--------------------------- MODULE Cluster_proofs ---------------------------
(***************************************************************************)
(* Proofs about the connection registry of the hubs, for any instances,    *)
(* executors and number of connections, with reconnects, failed database   *)
(* writes, shutdowns and crashes.                                          *)
(***************************************************************************)
EXTENDS Cluster, LivenessManager_proofs

\* Only a connection that has been registered is ever closed, and only one
\* that is being served renews its lease.
ConnPhases ==
  /\ \A c \in Conns : cpc[c] \in {"free", "upserted"} => xpc[c] = "open"
  /\ \A c \in Conns : touching[c] => cpc[c] = "serving"

ConnInv == ClusterTypeOK /\ ConnPhases /\ RegistryCurrent

LEMMA ConnInit == Init => ConnInv
<1> SUFFICES ASSUME Init PROVE ConnInv
  OBVIOUS
<1>1. ClusterTypeOK
  BY StoreAssumption DEF Init, ClusterTypeOK
<1>2. ConnPhases /\ RegistryCurrent
  BY DEF Init, ConnPhases, RegistryCurrent
<1>3. QED
  BY <1>1, <1>2 DEF ConnInv

\* Steps that leave the connections alone.
LEMMA ConnQuiet ==
  ASSUME ConnInv, UNCHANGED <<cpc, xpc, ckey, sock, touching, registry>>, ClusterTypeOK'
  PROVE  ConnInv'
BY DEF ConnInv, ConnPhases, RegistryCurrent

LEMMA ServeUpsertInv ==
  ASSUME ConnInv, NEW c \in Conns, NEW k \in Keys, ServeUpsert(c, k)
  PROVE  ConnInv'
<1> USE DEF ConnInv
<1>1. LeaseDuration \in 0 .. LeaseDuration /\ Exec(k) \in Executors
  BY StoreAssumption DEF Keys, Exec
<1>2. k # None
  BY ManagerAssumption DEF Keys
<1>3. ClusterTypeOK'
  BY <1>1, <1>2 DEF ClusterTypeOK, ServeUpsert, haVars
<1>4. ConnPhases'
  BY DEF ClusterTypeOK, ConnPhases, ServeUpsert
<1>5. RegistryCurrent'
  BY DEF ClusterTypeOK, RegistryCurrent, ServeUpsert
<1>6. QED
  BY <1>3, <1>4, <1>5

\* Register closes the connection it replaces: the only open one of its key.
LEMMA RegisterInv ==
  ASSUME ConnInv, NEW c \in Conns, Register(c)
  PROVE  ConnInv'
<1> USE DEF ConnInv
<1>1. ckey[c] \in Keys /\ ckey[c] # None
  BY DEF ClusterTypeOK, Register
<1>2. \A d \in Conns :
        xpc'[d] = IF registry[ckey[c]] = d /\ xpc[d] = "open" THEN "closing" ELSE xpc[d]
  BY DEF Register
<1>3. ClusterTypeOK'
  BY <1>1 DEF ClusterTypeOK, Register, haVars
<1>4. registry[ckey[c]] # c
  BY <1>1, ClusterAssumption DEF RegistryCurrent, Register
<1>5. ConnPhases'
  <2>1. ASSUME NEW d \in Conns, cpc'[d] \in {"free", "upserted"} PROVE xpc'[d] = "open"
    <3>1. cpc[d] \in {"free", "upserted"} /\ xpc[d] = "open"
      BY <2>1 DEF ClusterTypeOK, ConnPhases, Register
    <3>2. registry[ckey[c]] # d
      BY <1>1, <3>1, ClusterAssumption DEF RegistryCurrent
    <3>3. QED
      BY <1>2, <3>1, <3>2
  <2>2. QED
    BY <2>1 DEF ClusterTypeOK, ConnPhases, Register
<1>6. RegistryCurrent'
  <2>1. xpc'[c] = "open"
    BY <1>2, <1>4 DEF ConnPhases, Register
  <2>2. ASSUME NEW l \in Keys, registry'[l] # None
        PROVE  /\ ckey'[registry'[l]] = l
               /\ cpc'[registry'[l]] \in {"registered", "serving"}
               /\ xpc'[registry'[l]] \in {"open", "closing"}
    <3>1. CASE l = ckey[c]
      BY <1>1, <2>1, <3>1 DEF Register, ClusterTypeOK
    <3>2. CASE l # ckey[c]
      <4>1. registry'[l] = registry[l] /\ registry[l] \in Conns
        BY <2>2, <3>2 DEF Register, ClusterTypeOK
      <4>2. QED
        BY <1>2, <2>2, <3>2, <4>1 DEF Register, ClusterTypeOK, RegistryCurrent
    <3>3. QED
      BY <3>1, <3>2
  <2>3. ASSUME NEW d \in Conns, cpc'[d] \in {"registered", "serving"}, xpc'[d] = "open"
        PROVE  registry'[ckey'[d]] = d
    <3>1. CASE d = c
      BY <1>1, <3>1 DEF Register, ClusterTypeOK
    <3>2. CASE d # c
      <4>1. cpc[d] = cpc'[d] /\ xpc[d] = "open" /\ registry[ckey[c]] # d
        BY <1>2, <2>3, <3>2 DEF Register, ClusterTypeOK
      <4>2. registry[ckey[d]] = d /\ ckey[d] \in Keys
        BY <2>3, <4>1 DEF RegistryCurrent, ClusterTypeOK
      <4>3. QED
        BY <4>1, <4>2 DEF Register, ClusterTypeOK
    <3>3. QED
      BY <3>1, <3>2
  <2>4. QED
    BY <2>2, <2>3 DEF RegistryCurrent
<1>7. QED
  BY <1>3, <1>5, <1>6

\* A replaced connection that closes late leaves the registry alone.
LEMMA UnregisterInv ==
  ASSUME ConnInv, NEW c \in Conns, Unregister(c)
  PROVE  ConnInv'
<1> USE DEF ConnInv
<1>1. cpc[c] \in {"registered", "serving"} /\ ckey[c] \in Keys
  BY DEF ConnPhases, Unregister, ClusterTypeOK
<1>2. ClusterTypeOK'
  BY <1>1 DEF ClusterTypeOK, Unregister, haVars
<1>3. ConnPhases'
  BY <1>1 DEF ClusterTypeOK, ConnPhases, Unregister
<1>4. RegistryCurrent'
  BY <1>1, ClusterAssumption DEF ClusterTypeOK, RegistryCurrent, Unregister, IsRegistered
<1>5. QED
  BY <1>2, <1>3, <1>4

LEMMA CloseBeginsInv ==
  ASSUME ConnInv, NEW c \in Conns, CloseBegins(c)
  PROVE  ConnInv'
<1> USE DEF ConnInv
<1>1. ClusterTypeOK'
  BY DEF ClusterTypeOK, CloseBegins, haVars
<1>2. ConnPhases' /\ RegistryCurrent'
  BY DEF ClusterTypeOK, ConnPhases, RegistryCurrent, CloseBegins
<1>3. QED
  BY <1>1, <1>2

LEMMA OtherConnSteps ==
  ASSUME ConnInv, NEW c \in Conns,
         \/ ServeOnConnect(c) \/ UnregisterRow(c) \/ UnregisterOnDisconnect(c)
         \/ ConnDone(c) \/ TouchReturns(c) \/ SocketLost(c) \/ TriggerLeaseTouch(c)
  PROVE  ConnInv'
<1> USE DEF ConnInv
<1>1. CASE ServeOnConnect(c)
  <2>1. ClusterTypeOK'
    BY <1>1 DEF ClusterTypeOK, ServeOnConnect, haVars
  <2>2. ConnPhases' /\ RegistryCurrent'
    BY <1>1 DEF ClusterTypeOK, ConnPhases, RegistryCurrent, ServeOnConnect
  <2>3. QED
    BY <2>1, <2>2
<1>2. CASE UnregisterRow(c)
  <2>1. ClusterTypeOK'
    BY <1>2 DEF ClusterTypeOK, UnregisterRow, haVars
  <2>2. ConnPhases' /\ RegistryCurrent'
    BY <1>2 DEF ClusterTypeOK, ConnPhases, RegistryCurrent, UnregisterRow
  <2>3. QED
    BY <2>1, <2>2
<1>3. CASE UnregisterOnDisconnect(c)
  <2>1. ClusterTypeOK'
    BY <1>3 DEF ClusterTypeOK, UnregisterOnDisconnect, haVars
  <2>2. ConnPhases' /\ RegistryCurrent'
    BY <1>3 DEF ClusterTypeOK, ConnPhases, RegistryCurrent, UnregisterOnDisconnect
  <2>3. QED
    BY <2>1, <2>2
<1>4. CASE ConnDone(c)
  <2>1. 0 \in 0 .. LeaseDuration
    BY StoreAssumption
  <2>2. ClusterTypeOK'
    BY <1>4, <2>1 DEF ClusterTypeOK, ConnDone, haVars
  <2>3. ConnPhases' /\ RegistryCurrent'
    BY <1>4 DEF ClusterTypeOK, ConnPhases, RegistryCurrent, ConnDone
  <2>4. QED
    BY <2>2, <2>3
<1>5. CASE TouchReturns(c)
  <2>1. LeaseDuration \in 0 .. LeaseDuration
    BY StoreAssumption
  <2>2. xpc' = xpc \/ xpc' = [xpc EXCEPT ![c] = IF @ = "open" THEN "closing" ELSE @]
    BY <1>5 DEF TouchReturns, ClusterTypeOK
  <2>3. /\ cpc[c] = "serving"
        /\ touching' = [touching EXCEPT ![c] = FALSE]
        /\ UNCHANGED <<cpc, ckey, sock, registry, haVars, seen>>
    BY <1>5 DEF TouchReturns, ConnPhases
  <2>4. lapse' \in [Conns -> 0 .. LeaseDuration]
    BY <1>5, <2>1 DEF TouchReturns, ClusterTypeOK
  <2>5. ClusterTypeOK'
    BY <2>2, <2>3, <2>4 DEF ClusterTypeOK, haVars
  <2>6. ConnPhases' /\ RegistryCurrent'
    BY <2>2, <2>3 DEF ClusterTypeOK, ConnPhases, RegistryCurrent
  <2>7. QED
    BY <2>5, <2>6
<1>6. CASE SocketLost(c)
  <2>1. ClusterTypeOK'
    BY <1>6 DEF ClusterTypeOK, SocketLost, haVars
  <2>2. ConnPhases' /\ RegistryCurrent'
    BY <1>6 DEF ClusterTypeOK, ConnPhases, RegistryCurrent, SocketLost
  <2>3. QED
    BY <2>1, <2>2
<1>7. CASE TriggerLeaseTouch(c)
  <2>1. ClusterTypeOK'
    BY <1>7 DEF ClusterTypeOK, TriggerLeaseTouch, Live, haVars
  <2>2. ConnPhases' /\ RegistryCurrent'
    BY <1>7 DEF ClusterTypeOK, ConnPhases, RegistryCurrent, TriggerLeaseTouch, Live
  <2>3. QED
    BY <2>1, <2>2
<1>8. QED
  BY <1>1, <1>2, <1>3, <1>4, <1>5, <1>6, <1>7

LEMMA CrashInv ==
  ASSUME ConnInv, NEW i \in Instances, Crash(i)
  PROVE  ConnInv'
<1> USE DEF ConnInv
<1> DEFINE mine(c) == ckey[c] # None /\ Inst(ckey[c]) = i
<1>1. 0 \in 0 .. LeaseDuration
  BY StoreAssumption
<1>2. ClusterTypeOK'
  <2>1. /\ cpc' \in [Conns -> {"free", "upserted", "registered", "serving"}]
        /\ xpc' \in [Conns -> {"open", "closing", "removed", "rowDone", "closed"}]
        /\ ckey' \in [Conns -> Keys \cup {None}]
    BY DEF Crash, ClusterTypeOK
  <2>2. /\ sock' \in [Conns -> BOOLEAN]
        /\ touching' \in [Conns -> BOOLEAN]
        /\ lapse' \in [Conns -> 0 .. LeaseDuration]
        /\ registry' \in [Keys -> Conns \cup {None}]
    BY <1>1 DEF Crash, ClusterTypeOK
  <2>3. /\ phase' \in [Instances -> {"new", "starting", "up", "stopping", "down"}]
        /\ hpc' \in [Instances -> {"idle", "adopting", "reaping"}]
        /\ adopted' \in [Instances -> SUBSET Executors]
        /\ enrolled' \subseteq Owners
        /\ seen' \subseteq Executors
    BY DEF Crash, ClusterTypeOK
  <2>4. \A c \in Conns : cpc'[c] = "free" => ckey'[c] = None /\ ~sock'[c] /\ ~touching'[c]
    BY DEF Crash, ClusterTypeOK
  <2>5. \A c \in Conns : cpc'[c] # "free" => ckey'[c] # None
    BY DEF Crash, ClusterTypeOK
  <2>6. \A j \in Instances : hpc'[j] # "adopting" => adopted'[j] = {}
    BY DEF Crash, ClusterTypeOK
  <2>7. QED
    BY <2>1, <2>2, <2>3, <2>4, <2>5, <2>6 DEF ClusterTypeOK
<1>3. ConnPhases'
  BY DEF Crash, ClusterTypeOK, ConnPhases
<1>4. RegistryCurrent'
  <2>1. ASSUME NEW l \in Keys, registry'[l] # None
        PROVE  /\ ckey'[registry'[l]] = l
               /\ cpc'[registry'[l]] \in {"registered", "serving"}
               /\ xpc'[registry'[l]] \in {"open", "closing"}
    <3>1. Inst(l) # i /\ registry'[l] = registry[l] /\ registry[l] \in Conns
      BY <2>1 DEF Crash, ClusterTypeOK
    <3>2. ~mine(registry[l])
      BY <2>1, <3>1 DEF RegistryCurrent
    <3>3. QED
      BY <2>1, <3>1, <3>2 DEF RegistryCurrent, Crash
  <2>2. ASSUME NEW c \in Conns, cpc'[c] \in {"registered", "serving"}, xpc'[c] = "open"
        PROVE  registry'[ckey'[c]] = c
    <3>1. ~mine(c) /\ cpc'[c] = cpc[c] /\ xpc'[c] = xpc[c] /\ ckey'[c] = ckey[c]
      BY <2>2 DEF Crash
    <3>2. ckey[c] \in Keys /\ Inst(ckey[c]) # i
      BY <2>2, <3>1 DEF ClusterTypeOK
    <3>3. registry'[ckey[c]] = registry[ckey[c]]
      BY <3>2 DEF Crash
    <3>4. QED
      BY <2>2, <3>1, <3>3 DEF RegistryCurrent
  <2>3. QED
    BY <2>1, <2>2 DEF RegistryCurrent
<1>5. QED
  BY <1>2, <1>3, <1>4

LEMMA ProcessInv ==
  ASSUME ConnInv, NEW i \in Instances,
         InstanceSteps(i) \/ Shutdown(i) \/ ManagerStops(i) \/ PeerJoins(i)
  PROVE  ConnInv'
<1> USE DEF InstanceSteps, Enrol, AdoptQuery, Adopt, Started, DeleteStaleInstances, Reap,
            Shutdown, ManagerStops, PeerJoins
<1>1. UNCHANGED connVars
  OBVIOUS
<1>2. phase' \in [Instances -> {"new", "starting", "up", "stopping", "down"}]
  BY DEF ConnInv, ClusterTypeOK, haVars
<1>3. hpc' \in [Instances -> {"idle", "adopting", "reaping"}]
  BY DEF ConnInv, ClusterTypeOK, haVars
<1>4. adopted' \in [Instances -> SUBSET Executors]
  <2> DEFINE expired == {e \in Executors : Adoptable(row[e], i)}
  <2>1. adopted \in [Instances -> SUBSET Executors]
    BY DEF ConnInv, ClusterTypeOK
  <2>2. \/ adopted' = adopted
        \/ adopted' = [adopted EXCEPT ![i] = expired]
        \/ \E e \in Executors : adopted' = [adopted EXCEPT ![i] = adopted[i] \ {e}]
    BY <2>1 DEF haVars
  <2>3. expired \in SUBSET Executors /\ \A e : adopted[i] \ {e} \in SUBSET Executors
    BY <2>1
  <2> HIDE DEF expired
  <2>4. QED
    BY <2>1, <2>2, <2>3
<1>5. enrolled' \subseteq Owners
  BY ManagerAssumption DEF ConnInv, ClusterTypeOK, haVars
<1>6. seen' = seen
  OBVIOUS
<1>7. \A j \in Instances : hpc'[j] # "adopting" => adopted'[j] = {}
  <2>1. /\ hpc \in [Instances -> {"idle", "adopting", "reaping"}]
        /\ adopted \in [Instances -> SUBSET Executors]
        /\ \A j \in Instances : hpc[j] # "adopting" => adopted[j] = {}
    BY DEF ConnInv, ClusterTypeOK
  <2>2. \/ hpc' = [hpc EXCEPT ![i] = "adopting"]
           /\ \A j \in Instances : j # i => adopted'[j] = adopted[j]
        \/ hpc[i] = "adopting" /\ hpc' = hpc
           /\ \A j \in Instances : j # i => adopted'[j] = adopted[j]
        \/ UNCHANGED adopted /\ (hpc' = hpc \/ adopted[i] = {})
           /\ \A j \in Instances : j # i => hpc'[j] = hpc[j]
    BY <2>1 DEF haVars
  <2>3. QED
    BY <2>1, <2>2
<1>8. ClusterTypeOK'
  BY <1>1, <1>2, <1>3, <1>4, <1>5, <1>6, <1>7 DEF ConnInv, ClusterTypeOK, connVars
<1>9. QED
  BY <1>1, <1>8, ConnQuiet DEF connVars

LEMMA ClusterTickInv ==
  ASSUME ConnInv, ClusterTick
  PROVE  ConnInv'
<1>1. lapse' \in [Conns -> 0 .. LeaseDuration]
  BY StoreAssumption DEF ConnInv, ClusterTypeOK, ClusterTick
<1>2. ClusterTypeOK'
  BY <1>1 DEF ConnInv, ClusterTypeOK, ClusterTick, haVars
<1>3. QED
  BY <1>2, ConnQuiet DEF ClusterTick

LEMMA ConnStep == ConnInv /\ [Next]_vars => ConnInv'
<1> SUFFICES ASSUME ConnInv, [Next]_vars PROVE ConnInv'
  OBVIOUS
<1>1. CASE UNCHANGED vars \/ ManagerSteps
  <2>1. UNCHANGED <<connVars, haVars, seen>>
    BY <1>1 DEF vars, ManagerSteps
  <2>2. ClusterTypeOK'
    BY <2>1 DEF ConnInv, ClusterTypeOK, connVars, haVars
  <2>3. QED
    BY <2>1, <2>2, ConnQuiet DEF connVars
<1>2. CASE \E c \in Conns, k \in Keys : ServeUpsert(c, k)
  BY <1>2, ServeUpsertInv
<1>3. CASE \E c \in Conns : ConnSteps(c) \/ SocketLost(c) \/ CloseBegins(c) \/ TriggerLeaseTouch(c)
  BY <1>3, RegisterInv, UnregisterInv, CloseBeginsInv, OtherConnSteps DEF ConnSteps
<1>4. CASE \E i \in Instances : InstanceSteps(i) \/ Shutdown(i) \/ ManagerStops(i) \/ PeerJoins(i)
  BY <1>4, ProcessInv
<1>5. CASE \E i \in Instances : Crash(i)
  BY <1>5, CrashInv
<1>6. CASE ClusterTick
  BY <1>6, ClusterTickInv
<1>7. QED
  BY <1>1, <1>2, <1>3, <1>4, <1>5, <1>6 DEF Next

\* The registry never names a connection that has gone past Unregister, and a
\* connection nobody is closing is the registered one, however the steps of
\* ServeHTTP and Close of any number of connections interleave.
THEOREM RegistryIsCurrent == Spec => []RegistryCurrent
<1>1. ConnInv => RegistryCurrent
  BY DEF ConnInv
<1>2. QED
  BY ConnInit, ConnStep, <1>1, PTL DEF Spec

\* The variables of the hubs and of the instance managers keep their types.
THEOREM ClusterTypeCorrect == Spec => []ClusterTypeOK
<1>1. ConnInv => ClusterTypeOK
  BY DEF ConnInv
<1>2. QED
  BY ConnInit, ConnStep, <1>1, PTL DEF Spec
-----------------------------------------------------------------------------
(***************************************************************************)
(* The hubs and the instance managers use the liveness managers and the    *)
(* table only in ways that module LivenessManager allows, so what is       *)
(* proved of the managers under arbitrary callers holds in the cluster.    *)
(***************************************************************************)
LEMMA LeftBehindRows == LeftBehind \subseteq Rows
<1>1. NoRow \in Rows
  BY StoreAssumption DEF NoRow, Rows
<1>2. \A o \in {None} \cup Owners : UpsertExecutor(NoRow, o) \in Rows
  BY StoreAssumption DEF UpsertExecutor, Rows
<1>3. \A o \in {None} \cup Owners : DisconnectExecutor(UpsertExecutor(NoRow, o)) \in Rows
  BY <1>2, RowOps
<1>4. QED
  BY <1>1, <1>2, <1>3 DEF LeftBehind

LEMMA ClusterInitInv == Init => IndInv
<1> SUFFICES ASSUME Init PROVE IndInv
  OBVIOUS
<1> USE ManagerAssumption, StoreAssumption DEF Init
<1>1. row \in [Executors -> Rows]
  BY LeftBehindRows
<1>2. ManagerTypeOK
  BY <1>1 DEF ManagerInitExceptRow, ManagerTypeOK, Sources, WatcherPCs, CallPCs
<1>3. TimersDistinct /\ WorkersKeyed /\ FiredIsOver /\ TimerGuardsDisconnect
  BY DEF ManagerInitExceptRow, TimersDistinct, WorkersKeyed, FiredIsOver,
         TimerGuardsDisconnect
<1>4. QED
  BY <1>2, <1>3 DEF IndInv

\* A step that only writes rows, each in a way the queries allow.
LEMMA RowStep ==
  ASSUME NEW f, row' = [e \in Executors |-> f[e]],
         \A e \in Executors : f[e] \in RowWrites(row[e]),
         UNCHANGED <<trackVars, watchVars, callVars, sweepVars, stopped>>
  PROVE  ManagerNext
<1>1. row' \in [Executors -> UNION {RowWrites(row[e]) : e \in Executors}]
  OBVIOUS
<1>2. QED
  BY <1>1 DEF ManagerNext, RowWritten

\* A step that writes one row.
LEMMA OneRowStep ==
  ASSUME NEW e \in Executors, NEW r \in RowWrites(row[e]),
         row \in [Executors -> Rows],
         row' = [row EXCEPT ![e] = r],
         UNCHANGED <<trackVars, watchVars, callVars, sweepVars, stopped>>
  PROVE  ManagerNext
<1> DEFINE f == [row EXCEPT ![e] = r]
<1>1. row' = [d \in Executors |-> f[d]]
  OBVIOUS
<1>2. \A d \in Executors : f[d] \in RowWrites(row[d])
  BY DEF RowWrites
<1>3. QED
  BY <1>1, <1>2, RowStep

LEMMA ClusterStep ==
  ASSUME ConnInv, IndInv, [Next]_vars
  PROVE  [ManagerNext]_managerVars
<1> USE DEF ConnInv
<1>0. row \in [Executors -> Rows]
  BY DEF IndInv, ManagerTypeOK
<1>1. CASE UNCHANGED managerVars
  BY <1>1
<1>2. CASE \E c \in Conns, k \in Keys : ServeUpsert(c, k)
  <2>1. PICK c \in Conns, k \in Keys : ServeUpsert(c, k)
    BY <1>2
  <2>2. Exec(k) \in Executors /\ Inst(k) \in Owners
    BY ManagerAssumption DEF Keys, Exec, Inst
  <2>3. UpsertExecutor(row[Exec(k)], Inst(k)) \in RowWrites(row[Exec(k)])
    BY <2>2 DEF RowWrites
  <2>4. QED
    BY <1>0, <2>1, <2>2, <2>3, OneRowStep DEF ServeUpsert
<1>3. ASSUME NEW c \in Conns, UnregisterRow(c) \/ TouchReturns(c)
      PROVE  [ManagerNext]_managerVars
  <2>1. ckey[c] \in Keys
    BY <1>3 DEF UnregisterRow, TouchReturns, ConnPhases, ClusterTypeOK
  <2>2. Exec(ckey[c]) \in Executors
    BY <2>1 DEF Keys, Exec
  <2>3. PICK r \in RowWrites(row[Exec(ckey[c])]) : row' = [row EXCEPT ![Exec(ckey[c])] = r]
    BY <1>0, <1>3, <2>2 DEF UnregisterRow, TouchReturns, RowWrites
  <2>4. UNCHANGED <<trackVars, watchVars, callVars, sweepVars, stopped>>
    BY <1>3 DEF UnregisterRow, TouchReturns
  <2>5. QED
    BY <1>0, <2>2, <2>3, <2>4, OneRowStep
<1>4. ASSUME NEW c \in Conns, ServeOnConnect(c) \/ UnregisterOnDisconnect(c)
      PROVE  ManagerNext
  <2>1. ckey[c] \in Keys
    BY <1>4 DEF ServeOnConnect, UnregisterOnDisconnect, ConnPhases, ClusterTypeOK
  <2>2. QED
    BY <1>4, <2>1 DEF ServeOnConnect, UnregisterOnDisconnect, ManagerNext, Sources
<1>5. ASSUME NEW c \in Conns,
             Register(c) \/ Unregister(c) \/ ConnDone(c) \/ SocketLost(c)
               \/ CloseBegins(c) \/ TriggerLeaseTouch(c)
      PROVE  UNCHANGED managerVars
  BY <1>5 DEF Register, Unregister, ConnDone, SocketLost, CloseBegins, TriggerLeaseTouch
<1>6. ASSUME NEW i \in Instances, AdoptQuery(i)
      PROVE  ManagerNext \/ UNCHANGED managerVars
  <2> DEFINE f == [e \in Executors |-> IF Adoptable(row[e], i)
                                       THEN AdoptExpiredExecutors(row[e], i) ELSE row[e]]
  <2>1. i \in Owners
    BY ManagerAssumption
  <2>2. \A e \in Executors : f[e] \in RowWrites(row[e])
    BY <2>1 DEF RowWrites
  <2>3. row' = [e \in Executors |-> f[e]] \/ row' = row
    BY <1>6 DEF AdoptQuery
  <2>4. QED
    BY <1>6, <2>2, <2>3, RowStep DEF AdoptQuery, managerVars
<1>7. ASSUME NEW i \in Instances, Reap(i)
      PROVE  ManagerNext \/ UNCHANGED managerVars
  <2> DEFINE f == [e \in Executors |-> ReapExpiredExecutors(row[e])]
  <2>1. \A e \in Executors : f[e] \in RowWrites(row[e])
    BY DEF RowWrites
  <2>2. row' = [e \in Executors |-> f[e]] \/ row' = row
    BY <1>7 DEF Reap
  <2>3. QED
    BY <1>7, <2>1, <2>2, RowStep DEF Reap, managerVars
<1>8. ASSUME NEW i \in Instances, Adopt(i)
      PROVE  ManagerNext
  <2>1. PICK e \in adopted[i] : AdoptDisconnected(<<i, e>>)
    BY <1>8 DEF Adopt
  <2>2. <<i, e>> \in Keys
    BY DEF ClusterTypeOK, Keys
  <2>3. QED
    BY <2>1, <2>2 DEF ManagerNext
<1>9. ASSUME NEW i \in Instances,
             Enrol(i) \/ Started(i) \/ ManagerStops(i) \/ Crash(i) \/ PeerJoins(i)
      PROVE  [ManagerNext]_managerVars
  BY <1>9 DEF Enrol, Started, ManagerStops, Crash, PeerJoins, ManagerNext
<1>10. CASE ManagerSteps \/ ClusterTick
  BY <1>10 DEF ManagerSteps, ClusterTick, ManagerNext
<1>11. CASE UNCHANGED vars
  BY <1>11 DEF vars
<1>12. ASSUME NEW i \in Instances, DeleteStaleInstances(i) \/ Shutdown(i)
       PROVE  ManagerNext \/ UNCHANGED managerVars
  <2>1. /\ \/ row' = row
           \/ \E gone : row' = [e \in Executors |-> OwnersDeleted(row[e], gone)]
        /\ UNCHANGED <<trackVars, watchVars, callVars, sweepVars, stopped>>
    BY <1>12 DEF DeleteStaleInstances, Shutdown
  <2>2. ASSUME NEW gone, row' = [e \in Executors |-> OwnersDeleted(row[e], gone)]
        PROVE  ManagerNext
    <3> DEFINE f == [e \in Executors |-> OwnersDeleted(row[e], gone)]
    <3>1. \A e \in Executors : f[e] \in RowWrites(row[e])
      BY DEF RowWrites, OwnersDeleted
    <3>2. QED
      BY <2>1, <2>2, <3>1, RowStep
  <2>3. QED
    BY <2>1, <2>2 DEF managerVars
<1>13. QED
  BY <1>2, <1>3, <1>4, <1>5, <1>6, <1>7, <1>8, <1>9, <1>10, <1>11, <1>12
     DEF Next, ConnSteps, InstanceSteps

\* In the cluster, too, every disconnected entry of a running manager has its
\* own live grace timer: no hub or instance manager strands an executor in the
\* middle of its grace period.
THEOREM ClusterTimerGuards == Spec => []TimerGuardsDisconnect
<1>1. IndInv => TimerGuardsDisconnect
  BY DEF IndInv
<1>2. ConnInv /\ IndInv /\ [Next]_vars => IndInv'
  BY ClusterStep, ManagerStepInv
<1>3. QED
  BY ConnInit, ConnStep, ClusterInitInv, <1>1, <1>2, PTL DEF Spec

\* In the cluster, too, an entry is declared dead only at the end of the grace
\* period it is in.
THEOREM ClusterFullGracePeriod == Spec => FullGracePeriod
<1> DEFINE Full == \A k \in Keys : state[k] = "disconnected" /\ state'[k] = "dead" =>
                     timer[k] # None /\ left[timer[k]] = 0
<1>1. ConnInv /\ IndInv /\ [Next]_vars => [Full]_managerVars
  BY ClusterStep, ExpiryStep
<1>2. ConnInv /\ IndInv /\ [Next]_vars => IndInv'
  BY ClusterStep, ManagerStepInv
<1>3. QED
  BY ConnInit, ConnStep, ClusterInitInv, <1>1, <1>2, PTL DEF Spec, FullGracePeriod
-----------------------------------------------------------------------------
(***************************************************************************)
(* A live executor is not taken for dead.  That holds while executors do   *)
(* not come back under the same ID and no row was left by an earlier       *)
(* process (otherwise a watcher that has already decided may still be      *)
(* running), and while renewals land in time.                              *)
(***************************************************************************)
Undisturbed == ~MayReconnect /\ TimelyRenewal /\ LeftStatuses = {}

\* The executor holds its end of connection c and nobody is closing it: its
\* row has been written and it may be served.
Serves(c) == cpc[c] # "free" /\ xpc[c] = "open" /\ sock[c]

\* No goroutine of any instance has anything to do with executor e.
Untouched(e) ==
  /\ \A w \in Workers : wkey[w] # None => Exec(wkey[w]) # e
  /\ \A i \in Instances : e \notin adopted[i]
  /\ \A s \in Sweepers : e \notin todo[s]

\* An executor has one connection in its life.
OneConnection ==
  /\ \A c \in Conns : ckey[c] # None => Exec(ckey[c]) \in seen
  /\ \A c, d \in Conns :
       ckey[c] # None /\ ckey[d] # None /\ Exec(ckey[c]) = Exec(ckey[d]) => c = d

UnseenUntouched == \A e \in Executors \ seen : Untouched(e) /\ row[e].status = "absent"

\* The lease in the row outlasts the time the connection gives itself.
LeaseHeld ==
  \A c \in Conns : Serves(c) =>
    /\ Untouched(Exec(ckey[c]))
    /\ row[Exec(ckey[c])].status = "connected"
    /\ lapse[c] > 0
    /\ row[Exec(ckey[c])].lease >= lapse[c]

LeaseInv == OneConnection /\ UnseenUntouched /\ LeaseHeld

\* Executors that have not come yet and executors that are served.
Held(e) == e \notin seen \/ \E c \in Conns : Serves(c) /\ Exec(ckey[c]) = e

\* Nothing that the others do reaches executor e.
Kept(e) == Untouched(e)' /\ row'[e].status = row[e].status /\ row'[e].lease = row[e].lease

\* What keeps the row of a held executor out of every query's reach.
Safe(e) ==
  /\ Untouched(e)
  /\ row[e].status = "absent" \/ (row[e].status = "connected" /\ row[e].lease > 0)

LEMMA HeldIsSafe ==
  ASSUME ConnInv, IndInv, LeaseInv, NEW e \in Executors, Held(e)
  PROVE  Safe(e)
<1>1. CASE e \notin seen
  BY <1>1 DEF LeaseInv, UnseenUntouched, Safe
<1>2. ASSUME NEW c \in Conns, Serves(c), Exec(ckey[c]) = e
      PROVE  Safe(e)
  <2>1. lapse[c] \in Nat /\ row[e].lease \in Nat
    BY StoreAssumption DEF ConnInv, ClusterTypeOK, IndInv, ManagerTypeOK, Rows
  <2> QED
    BY <1>2, <2>1 DEF LeaseInv, LeaseHeld, Safe
<1> QED
  BY <1>1, <1>2 DEF Held

\* A connection that is in use and not served holds nobody.
LEMMA ClosingHoldsNobody ==
  ASSUME ConnInv, LeaseInv, NEW c \in Conns, ckey[c] # None, ~Serves(c)
  PROVE  ~Held(Exec(ckey[c]))
<1>1. Exec(ckey[c]) \in seen
  BY DEF LeaseInv, OneConnection
<1>2. ASSUME NEW d \in Conns, Serves(d), Exec(ckey[d]) = Exec(ckey[c])
      PROVE  FALSE
  <2>1. ckey[d] # None
    BY <1>2 DEF Serves, ConnInv, ClusterTypeOK
  <2> QED
    BY <1>2, <2>1 DEF LeaseInv, OneConnection
<1> QED
  BY <1>1, <1>2 DEF Held

\* The connections that are served after the step were served before it, and
\* the step leaves what they hold alone.
LEMMA KeptKeepsLease ==
  ASSUME ConnInv, LeaseInv, seen' = seen,
         \A c \in Conns : ckey'[c] = ckey[c] \/ ckey'[c] = None,
         \A c \in Conns : Serves(c)' => Serves(c) /\ ckey'[c] = ckey[c] /\ lapse'[c] = lapse[c],
         \A e \in Executors : Held(e) => Kept(e)
  PROVE  LeaseInv' /\ \A c \in Conns : Serves(c) => row'[Exec(ckey[c])].status = "connected"
<1>1. OneConnection'
  BY DEF LeaseInv, OneConnection
<1>2. UnseenUntouched'
  BY DEF LeaseInv, UnseenUntouched, Held, Kept
<1>3. ASSUME NEW c \in Conns, Serves(c)
      PROVE  /\ Kept(Exec(ckey[c]))
             /\ row'[Exec(ckey[c])].status = "connected"
  <2>1. ckey[c] \in Keys
    BY <1>3 DEF Serves, ConnInv, ClusterTypeOK
  <2>2. Exec(ckey[c]) \in Executors
    BY <2>1 DEF Keys, Exec
  <2>3. Kept(Exec(ckey[c]))
    BY <1>3, <2>2 DEF Held
  <2> QED
    BY <1>3, <2>3 DEF Kept, LeaseInv, LeaseHeld
<1>4. LeaseHeld'
  <2> SUFFICES ASSUME NEW c \in Conns, Serves(c)'
               PROVE  (/\ Untouched(Exec(ckey[c]))
                       /\ row[Exec(ckey[c])].status = "connected"
                       /\ lapse[c] > 0
                       /\ row[Exec(ckey[c])].lease >= lapse[c])'
    BY DEF LeaseHeld
  <2>1. Serves(c) /\ ckey'[c] = ckey[c] /\ lapse'[c] = lapse[c]
    OBVIOUS
  <2>2. Kept(Exec(ckey[c])) /\ row'[Exec(ckey[c])].status = "connected"
    BY <1>3, <2>1
  <2> QED
    BY <2>1, <2>2 DEF Kept, LeaseInv, LeaseHeld
<1> QED
  BY <1>1, <1>2, <1>3, <1>4 DEF LeaseInv

-----------------------------------------------------------------------------
\* Goroutines of the liveness manager reach no executor they have no key for.
LEMMA ManagerKeeps ==
  ASSUME ConnInv, IndInv, ManagerSteps, NEW e \in Executors, Safe(e)
  PROVE  Kept(e)
<1>1. wkey \in [Workers -> Keys \cup {None}] /\ row \in [Executors -> Rows]
  BY DEF IndInv, ManagerTypeOK
<1>2. adopted' = adopted
  BY DEF ManagerSteps, haVars
<1>3. ASSUME NEW t \in Timers, WatcherNext(t)
      PROVE  Kept(e)
  <2>1. t \in Workers /\ UNCHANGED sweepVars
    BY <1>3 DEF WatcherNext, WatcherWakes, GracePeriodExpired, CheckOwner, LeaveToOwner, MarkDead,
                NextAttempt, Workers
  <2>2. wkey' = wkey \/ wkey' = [wkey EXCEPT ![t] = None]
    BY <1>3 DEF WatcherNext, WatcherWakes, GracePeriodExpired, CheckOwner, LeaveToOwner, MarkDead,
                NextAttempt, Goto, Return
  <2>3. Untouched(e)'
    BY <1>1, <1>2, <2>1, <2>2 DEF Safe, Untouched, sweepVars
  <2>4. row' = row \/ (wpc[t] = "marking" /\ row' = [row EXCEPT ![Exec(wkey[t])] = SetExecutorDead(@)])
    BY <1>3 DEF WatcherNext, WatcherWakes, GracePeriodExpired, CheckOwner, LeaveToOwner, MarkDead,
                NextAttempt
  <2>5. wpc[t] = "marking" => wkey[t] # None
    BY ManagerAssumption DEF IndInv, WorkersKeyed, Keys
  <2>6. row'[e] = row[e]
    BY <1>1, <2>1, <2>4, <2>5 DEF Safe, Untouched
  <2> QED
    BY <2>3, <2>6 DEF Kept
<1>4. ASSUME NEW w \in Workers, RecoverDeadExecutor(w)
      PROVE  Kept(e)
  <2>1. UNCHANGED <<wkey, sweepVars>>
    BY <1>4 DEF RecoverDeadExecutor, RecoveryAnswered, DeleteTracked, DeleteRow
  <2>2. Untouched(e)'
    BY <1>2, <2>1 DEF Safe, Untouched, sweepVars
  <2>3. row' = row \/ (call[w] = "deleting" /\ row' = [row EXCEPT ![Exec(wkey[w])] = NoRow])
    BY <1>4 DEF RecoverDeadExecutor, RecoveryAnswered, DeleteTracked, DeleteRow
  <2>4. call[w] = "deleting" => wkey[w] # None
    BY ManagerAssumption DEF IndInv, WorkersKeyed, Keys
  <2>5. row'[e] = row[e]
    BY <1>1, <2>3, <2>4 DEF Safe, Untouched
  <2> QED
    BY <2>2, <2>5 DEF Kept
<1>5. ASSUME NEW s \in Sweepers, SweeperNext(s)
      PROVE  Kept(e)
  <2>1. row' = row
    BY <1>5 DEF SweeperNext, StartSweep, SweepNext
  <2>2. todo \in [Sweepers -> SUBSET Executors] /\ s \in Workers
    BY DEF IndInv, ManagerTypeOK, Workers
  <2>3. CASE \E i \in Instances : StartSweep(s, i)
    <3>1. e \notin {d \in Executors : row[d].status = "dead"}
      BY DEF Safe
    <3>2. todo' = [todo EXCEPT ![s] = {d \in Executors : row[d].status = "dead"}]
            \/ todo' = [todo EXCEPT ![s] = {}]
      BY <2>3 DEF StartSweep
    <3>4. \A r \in Sweepers : e \notin todo'[r]
      BY <2>2, <3>1, <3>2 DEF Safe, Untouched
    <3>3. wkey' = wkey
      BY <2>3 DEF StartSweep, callVars
    <3> QED
      BY <1>2, <2>1, <3>3, <3>4 DEF Safe, Untouched, Kept
  <2>4. CASE SweepNext(s)
    <3>1. \A r \in Sweepers : e \notin todo'[r]
      BY <2>2, <2>4 DEF SweepNext, Safe, Untouched
    <3>2. wkey' = [wkey EXCEPT ![s] = None] \/ \E d \in todo[s] : wkey' = [wkey EXCEPT ![s] = <<sinst[s], d>>]
      BY <2>4 DEF SweepNext
    <3>3. \A d \in todo[s] : Exec(<<sinst[s], d>>) = d /\ d # e
      BY DEF Exec, Safe, Untouched
    <3>4. \A w \in Workers : wkey'[w] # None => Exec(wkey'[w]) # e
      BY <1>1, <2>2, <3>2, <3>3 DEF Safe, Untouched
    <3> QED
      BY <1>2, <2>1, <3>1, <3>4 DEF Safe, Untouched, Kept
  <2> QED
    BY <1>5, <2>3, <2>4 DEF SweeperNext
<1> QED
  BY <1>3, <1>4, <1>5 DEF ManagerSteps, ManagerInternal

\* Neither do the instance managers: a row whose lease runs is not adopted, one
\* that is connected is not reaped, and the end of its owner leaves it connected.
LEMMA InstanceKeeps ==
  ASSUME ConnInv, IndInv, NEW i \in Instances, InstanceSteps(i) \/ Shutdown(i), NEW e \in Executors, Safe(e)
  PROVE  Kept(e)
<1>1. /\ wkey \in [Workers -> Keys \cup {None}] /\ row \in [Executors -> Rows]
      /\ adopted \in [Instances -> SUBSET Executors]
  BY DEF IndInv, ManagerTypeOK, ConnInv, ClusterTypeOK
<1>2. CASE AdoptQuery(i)
  <2>1. UNCHANGED <<callVars, sweepVars>>
    BY <1>2 DEF AdoptQuery
  <2>2. ~Adoptable(row[e], i)
    BY <1>1 DEF Safe, Adoptable, Rows
  <2>3. \A j \in Instances : e \notin adopted'[j]
    BY <1>1, <1>2, <2>2 DEF AdoptQuery, Safe, Untouched
  <2>4. row'[e] = row[e]
    BY <1>2, <2>2 DEF AdoptQuery
  <2> QED
    BY <2>1, <2>3, <2>4 DEF Safe, Untouched, Kept, callVars, sweepVars
<1>3. CASE Adopt(i)
  <2>1. PICK d \in adopted[i] : /\ adopted' = [adopted EXCEPT ![i] = @ \ {d}]
                                /\ AdoptDisconnected(<<i, d>>)
    BY <1>3 DEF Adopt
  <2>2. d # e /\ Exec(<<i, d>>) = d
    BY DEF Safe, Untouched, Exec
  <2>3. PICK t \in Timers : wkey' = [wkey EXCEPT ![t] = <<i, d>>]
    BY <2>1 DEF AdoptDisconnected, Arm
  <2>4. UNCHANGED <<row, sweepVars>> /\ t \in Workers
    BY <2>1 DEF AdoptDisconnected, Workers
  <2>5. \A w \in Workers : wkey'[w] # None => Exec(wkey'[w]) # e
    BY <1>1, <2>2, <2>3, <2>4 DEF Safe, Untouched
  <2>6. \A j \in Instances : e \notin adopted'[j]
    BY <1>1, <2>1 DEF Safe, Untouched
  <2> QED
    BY <2>4, <2>5, <2>6 DEF Safe, Untouched, Kept, sweepVars
<1>4. CASE Enrol(i) \/ Started(i)
  BY <1>4 DEF Enrol, Started, managerVars, callVars, sweepVars, Safe, Untouched, Kept
<1>5. CASE Reap(i)
  <2>1. UNCHANGED <<callVars, sweepVars, adopted>>
    BY <1>5 DEF Reap
  <2>2. ReapExpiredExecutors(row[e]) = row[e]
    BY DEF ReapExpiredExecutors, Safe
  <2>3. row'[e] = row[e]
    BY <1>5, <2>2 DEF Reap
  <2> QED
    BY <2>1, <2>3 DEF Safe, Untouched, Kept, callVars, sweepVars
<1>6. CASE DeleteStaleInstances(i) \/ Shutdown(i)
  <2>1. UNCHANGED <<callVars, sweepVars, adopted>>
    BY <1>6 DEF DeleteStaleInstances, Shutdown
  <2>2. row'[e] = row[e] \/ \E gone : row'[e] = OwnersDeleted(row[e], gone)
    BY <1>6 DEF DeleteStaleInstances, Shutdown
  <2>3. row'[e].status = row[e].status /\ row'[e].lease = row[e].lease
    BY <1>1, <2>2 DEF OwnersDeleted, Rows
  <2> QED
    BY <2>1, <2>3 DEF Safe, Untouched, Kept, callVars, sweepVars
<1> QED
  BY <1>2, <1>3, <1>4, <1>5, <1>6 DEF InstanceSteps

LEMMA ProcessKeeps ==
  ASSUME ConnInv, IndInv, NEW i \in Instances, ManagerStops(i) \/ PeerJoins(i) \/ Crash(i),
         NEW e \in Executors, Safe(e)
  PROVE  Kept(e)
<1>1. CASE ManagerStops(i) \/ PeerJoins(i)
  BY <1>1 DEF ManagerStops, PeerJoins, Stop, PeerConnected, haVars, callVars, sweepVars, Safe, Untouched,
              Kept
<1>2. CASE Crash(i)
  <2>1. row' = row
    BY <1>2 DEF Crash, ManagerCrash
  <2>2. \A w \in Workers : wkey'[w] = wkey[w] \/ wkey'[w] = None
    BY <1>2 DEF Crash, ManagerCrash
  <2>3. \A s \in Sweepers : todo'[s] = todo[s] \/ todo'[s] = {}
    BY <1>2 DEF Crash, ManagerCrash
  <2>4. \A j \in Instances : e \notin adopted'[j]
    BY <1>2 DEF Crash, ConnInv, ClusterTypeOK, Safe, Untouched
  <2> QED
    BY <2>1, <2>2, <2>3, <2>4 DEF Safe, Untouched, Kept
<1> QED
  BY <1>1, <1>2

-----------------------------------------------------------------------------
LEMMA LeaseInit ==
  ASSUME Undisturbed, Init
  PROVE  LeaseInv
<1>1. LeftBehind = {NoRow}
  BY DEF LeftBehind, Undisturbed
<1>2. \A e \in Executors : row[e].status = "absent"
  BY <1>1 DEF Init, NoRow
<1>3. \A e : Untouched(e)
  BY DEF Init, ManagerInitExceptRow, Untouched
<1>4. \A c \in Conns : ckey[c] = None /\ ~Serves(c)
  BY DEF Init, Serves
<1> QED
  BY <1>2, <1>3, <1>4 DEF LeaseInv, OneConnection, UnseenUntouched, LeaseHeld

\* What a step has to keep; the row of a served executor stays connected.
Keeps == LeaseInv' /\ \A c \in Conns : Serves(c) => row'[Exec(ckey[c])].status = "connected"

\* The executor's only connection: its row is written with a full lease.
LEMMA ServeUpsertKeeps ==
  ASSUME Undisturbed, ConnInv, IndInv, LeaseInv, NEW c \in Conns, NEW k \in Keys, ServeUpsert(c, k)
  PROVE  Keeps
<1> DEFINE e == Exec(k)
<1>1. e \in Executors /\ e \notin seen /\ seen' = seen \cup {e} /\ k # None
  BY ManagerAssumption DEF Keys, Exec, ServeUpsert, Undisturbed
<1>2. /\ ckey' = [ckey EXCEPT ![c] = k] /\ lapse' = [lapse EXCEPT ![c] = LeaseDuration]
      /\ cpc' = [cpc EXCEPT ![c] = "upserted"] /\ sock' = [sock EXCEPT ![c] = TRUE] /\ xpc' = xpc
      /\ row' = [row EXCEPT ![e] = UpsertExecutor(@, Inst(k))]
      /\ UNCHANGED <<wkey, todo, adopted>>
  BY DEF ServeUpsert, callVars, sweepVars, haVars
<1>3. /\ row \in [Executors -> Rows] /\ ckey \in [Conns -> Keys \cup {None}]
      /\ lapse \in [Conns -> 0 .. LeaseDuration] /\ cpc[c] = "free"
      /\ cpc \in [Conns -> {"free", "upserted", "registered", "serving"}] /\ sock \in [Conns -> BOOLEAN]
  BY DEF IndInv, ManagerTypeOK, ConnInv, ClusterTypeOK, ServeUpsert
<1>4. \A d : Untouched(d)' = Untouched(d)
  BY <1>2 DEF Untouched
<1>5. \A d \in Conns \ {c} : ckey'[d] = ckey[d] /\ lapse'[d] = lapse[d] /\ Serves(d)' = Serves(d)
  BY <1>2, <1>3 DEF Serves
<1>6. \A d \in Conns : ckey[d] # None => Exec(ckey[d]) # e
  BY <1>1 DEF LeaseInv, OneConnection
<1>7. /\ row'[e].status = "connected" /\ row'[e].lease = LeaseDuration
      /\ \A d \in Executors \ {e} : row'[d] = row[d]
  BY <1>1, <1>2, <1>3 DEF UpsertExecutor
<1>8. OneConnection'
  BY <1>1, <1>2, <1>3, <1>5, <1>6 DEF LeaseInv, OneConnection
<1>9. UnseenUntouched'
  BY <1>1, <1>4, <1>7 DEF LeaseInv, UnseenUntouched
<1>10. ASSUME NEW d \in Conns \ {c}, Serves(d)
       PROVE  row'[Exec(ckey[d])] = row[Exec(ckey[d])]
  <2>1. ckey[d] \in Keys /\ ckey[d] # None
    BY <1>10 DEF Serves, ConnInv, ClusterTypeOK
  <2>2. Exec(ckey[d]) \in Executors \ {e}
    BY <1>6, <2>1 DEF Keys, Exec
  <2> QED
    BY <1>7, <2>2
<1>11. LeaseHeld'
  <2> SUFFICES ASSUME NEW d \in Conns, Serves(d)'
               PROVE  (/\ Untouched(Exec(ckey[d]))
                       /\ row[Exec(ckey[d])].status = "connected"
                       /\ lapse[d] > 0
                       /\ row[Exec(ckey[d])].lease >= lapse[d])'
    BY DEF LeaseHeld
  <2>1. CASE d = c
    <3>1. ckey'[d] = k /\ lapse'[d] = LeaseDuration
      BY <1>2, <1>3, <2>1
    <3>2. Untouched(e)
      BY <1>1 DEF LeaseInv, UnseenUntouched
    <3> QED
      BY <1>4, <1>7, <3>1, <3>2, StoreAssumption
  <2>2. CASE d # c
    <3>1. ckey'[d] = ckey[d] /\ lapse'[d] = lapse[d] /\ Serves(d)
      BY <1>5, <2>2
    <3> QED
      BY <1>4, <1>10, <2>2, <3>1 DEF LeaseInv, LeaseHeld
  <2> QED
    BY <2>1, <2>2
<1>12. \A d \in Conns : Serves(d) => row'[Exec(ckey[d])].status = "connected"
  <2>1. ~Serves(c)
    BY <1>3 DEF Serves
  <2> QED
    BY <1>10, <2>1 DEF LeaseInv, LeaseHeld
<1> QED
  BY <1>8, <1>9, <1>11, <1>12 DEF Keeps, LeaseInv

\* Steps of a connection that leave the row and the manager's keys alone.
LEMMA QuietConnKeeps ==
  ASSUME ConnInv, IndInv, LeaseInv, NEW c \in Conns,
         \/ Register(c) \/ ServeOnConnect(c) \/ Unregister(c) \/ ConnDone(c) \/ SocketLost(c)
         \/ CloseBegins(c) \/ TriggerLeaseTouch(c)
  PROVE  Keeps
<1>1. UNCHANGED <<wkey, todo, adopted, row, seen>>
  BY DEF Register, ServeOnConnect, OnConnect, Unregister, ConnDone, SocketLost, CloseBegins,
         TriggerLeaseTouch, managerVars, callVars, sweepVars, haVars
<1>2. \A e \in Executors : Held(e) => Kept(e)
  BY <1>1, HeldIsSafe DEF Safe, Untouched, Kept
<1>3. \A d \in Conns : ckey'[d] = ckey[d] \/ ckey'[d] = None
  BY DEF Register, ServeOnConnect, Unregister, ConnDone, SocketLost, CloseBegins, TriggerLeaseTouch,
         ConnInv, ClusterTypeOK
<1>4. ASSUME NEW d \in Conns, Serves(d)'
      PROVE  Serves(d) /\ ckey'[d] = ckey[d] /\ lapse'[d] = lapse[d]
  <2> USE <1>4 DEF ConnInv, ClusterTypeOK, Serves
  <2>1. CASE Register(c)
    BY <2>1 DEF Register
  <2>2. CASE ServeOnConnect(c)
    BY <2>2 DEF ServeOnConnect
  <2>3. CASE Unregister(c)
    BY <2>3 DEF Unregister
  <2>4. CASE ConnDone(c)
    BY <2>4 DEF ConnDone
  <2>5. CASE SocketLost(c)
    BY <2>5 DEF SocketLost
  <2>6. CASE CloseBegins(c)
    BY <2>6 DEF CloseBegins
  <2>7. CASE TriggerLeaseTouch(c)
    BY <2>7 DEF TriggerLeaseTouch
  <2> QED
    BY <2>1, <2>2, <2>3, <2>4, <2>5, <2>6, <2>7
<1> QED
  BY <1>1, <1>2, <1>3, <1>4, KeptKeepsLease DEF Keeps

\* A connection that closes writes the row, and starts the grace timer, of an
\* executor that nobody serves.
LEMMA CloseKeeps ==
  ASSUME ConnInv, IndInv, LeaseInv, NEW c \in Conns, UnregisterRow(c) \/ UnregisterOnDisconnect(c)
  PROVE  Keeps
<1>1. xpc[c] \in {"removed", "rowDone"}
  BY DEF UnregisterRow, UnregisterOnDisconnect
<1>2. ckey[c] # None /\ ~Serves(c)
  BY <1>1 DEF ConnInv, ConnPhases, ClusterTypeOK, Serves
<1>3. ~Held(Exec(ckey[c]))
  BY <1>2, ClosingHoldsNobody
<1>4. UNCHANGED <<cpc, ckey, sock, lapse, todo, adopted, seen>>
  BY DEF UnregisterRow, UnregisterOnDisconnect, OnDisconnect, sweepVars, haVars
<1>5. \A d \in Conns : Serves(d)' => Serves(d)
  BY <1>1, <1>4 DEF UnregisterRow, UnregisterOnDisconnect, ConnInv, ClusterTypeOK, Serves
<1>6. ASSUME NEW e \in Executors, Held(e)
      PROVE  Kept(e)
  <2>1. Safe(e) /\ e # Exec(ckey[c])
    BY <1>3, <1>6, HeldIsSafe
  <2>2. row \in [Executors -> Rows] /\ wkey \in [Workers -> Keys \cup {None}]
    BY DEF IndInv, ManagerTypeOK
  <2>3. row'[e] = row[e]
    BY <2>1, <2>2 DEF UnregisterRow, UnregisterOnDisconnect, OnDisconnect
  <2>4. wkey' = wkey \/ \E t \in Workers : wkey' = [wkey EXCEPT ![t] = ckey[c]]
    BY DEF UnregisterRow, UnregisterOnDisconnect, OnDisconnect, Arm, callVars, Workers
  <2>5. \A w \in Workers : wkey'[w] # None => Exec(wkey'[w]) # e
    BY <2>1, <2>2, <2>4 DEF Safe, Untouched
  <2> QED
    BY <1>4, <2>1, <2>3, <2>5 DEF Safe, Untouched, Kept
<1> QED
  BY <1>4, <1>5, <1>6, KeptKeepsLease DEF Keeps

\* A renewal that lands writes a full lease for both; one that fails closes the
\* connection or changes nothing.
LEMMA TouchKeeps ==
  ASSUME ConnInv, IndInv, LeaseInv, NEW c \in Conns, TouchReturns(c)
  PROVE  Keeps
<1> DEFINE e == Exec(ckey[c])
<1>1. UNCHANGED <<cpc, ckey, sock, wkey, todo, adopted, seen>>
  BY DEF TouchReturns, callVars, sweepVars, haVars
<1>2. ckey[c] \in Keys /\ e \in Executors
  BY DEF TouchReturns, ConnInv, ConnPhases, ClusterTypeOK, Keys, Exec
<1>3. \A d : Untouched(d)' = Untouched(d)
  BY <1>1 DEF Untouched
<1>4. row \in [Executors -> Rows] /\ lapse \in [Conns -> 0 .. LeaseDuration]
  BY DEF IndInv, ManagerTypeOK, ConnInv, ClusterTypeOK
<1>5. CASE row' = row /\ lapse' = lapse
  <2>1. \A d \in Executors : Held(d) => Kept(d)
    BY <1>3, <1>5, HeldIsSafe DEF Safe, Kept
  <2>2. \A d \in Conns : Serves(d)' => Serves(d)
    BY <1>1 DEF TouchReturns, ConnInv, ClusterTypeOK, Serves
  <2> QED
    BY <1>1, <1>5, <2>1, <2>2, KeptKeepsLease DEF Keeps
<1>6. CASE /\ row' = [row EXCEPT ![e] = TouchExecutorLastSeen(@)]
           /\ lapse' = [lapse EXCEPT ![c] = LeaseDuration]
           /\ UNCHANGED xpc
  <2>1. \A d \in Conns : Serves(d)' = Serves(d)
    BY <1>1, <1>6 DEF Serves
  <2>2. \A d \in Executors : /\ row'[d].status = row[d].status
                             /\ d # e => row'[d] = row[d]
    BY <1>2, <1>4, <1>6 DEF TouchExecutorLastSeen, Rows
  <2>3. row[e].status = "connected" => row'[e].lease = LeaseDuration
    BY <1>2, <1>4, <1>6 DEF TouchExecutorLastSeen, Present, Rows
  <2>4. OneConnection' /\ UnseenUntouched'
    BY <1>1, <1>3, <2>2 DEF LeaseInv, OneConnection, UnseenUntouched
  <2>5. ASSUME NEW d \in Conns, Serves(d)
        PROVE  /\ Untouched(Exec(ckey[d]))'
               /\ row'[Exec(ckey[d])].status = "connected"
               /\ lapse'[d] > 0
               /\ row'[Exec(ckey[d])].lease >= lapse'[d]
    <3>1. ckey[d] \in Keys /\ ckey[d] # None /\ ckey[c] # None
      BY <1>2, <2>5, ManagerAssumption DEF Serves, ConnInv, ClusterTypeOK, Keys
    <3>2. Exec(ckey[d]) \in Executors
      BY <3>1 DEF Keys, Exec
    <3>3. /\ Untouched(Exec(ckey[d])) /\ row[Exec(ckey[d])].status = "connected"
          /\ lapse[d] > 0 /\ row[Exec(ckey[d])].lease >= lapse[d]
      BY <2>5 DEF LeaseInv, LeaseHeld
    <3>4. CASE d = c
      <4>1. lapse'[d] = LeaseDuration /\ row'[Exec(ckey[d])].lease = LeaseDuration
        BY <1>4, <1>6, <2>3, <3>3, <3>4
      <4> QED
        BY <1>1, <1>3, <2>2, <3>2, <3>3, <4>1, StoreAssumption
    <3>5. CASE d # c
      <4>1. Exec(ckey[d]) # e
        BY <3>1, <3>5 DEF LeaseInv, OneConnection
      <4>2. lapse'[d] = lapse[d] /\ row'[Exec(ckey[d])] = row[Exec(ckey[d])]
        BY <1>4, <1>6, <2>2, <3>2, <3>5, <4>1
      <4> QED
        BY <1>1, <1>3, <3>3, <4>2
    <3> QED
      BY <3>4, <3>5
  <2>6. LeaseHeld'
    BY <1>1, <2>1, <2>5 DEF LeaseHeld
  <2> QED
    BY <2>4, <2>5, <2>6 DEF Keeps, LeaseInv
<1> QED
  BY <1>5, <1>6 DEF TouchReturns

\* Time passes for the row and for the connection alike, and stops short of the
\* end of the lease.
LEMMA TickKeeps ==
  ASSUME Undisturbed, ConnInv, IndInv, LeaseInv, ClusterTick
  PROVE  Keeps
<1>1. UNCHANGED <<cpc, xpc, ckey, sock, wkey, todo, adopted, seen>>
  BY DEF ClusterTick, Tick, callVars, sweepVars, haVars
<1>2. \A d : Untouched(d)' = Untouched(d)
  BY <1>1 DEF Untouched
<1>3. \A d \in Conns : Serves(d)' = Serves(d)
  BY <1>1 DEF Serves
<1>4. row \in [Executors -> Rows] /\ lapse \in [Conns -> 0 .. LeaseDuration]
  BY DEF IndInv, ManagerTypeOK, ConnInv, ClusterTypeOK
<1>5. \A d \in Executors : /\ row'[d].status = row[d].status
                           /\ row'[d].lease = IF row[d].lease = 0 THEN 0 ELSE row[d].lease - 1
  BY <1>4 DEF ClusterTick, Tick, Aged, Rows
<1>6. OneConnection' /\ UnseenUntouched'
  BY <1>1, <1>2, <1>5 DEF LeaseInv, OneConnection, UnseenUntouched
<1>7. ASSUME NEW d \in Conns, Serves(d)
      PROVE  /\ Untouched(Exec(ckey[d]))'
             /\ row'[Exec(ckey[d])].status = "connected"
             /\ lapse'[d] > 0
             /\ row'[Exec(ckey[d])].lease >= lapse'[d]
  <2> DEFINE e == Exec(ckey[d])
  <2>1. ckey[d] \in Keys
    BY <1>7 DEF Serves, ConnInv, ClusterTypeOK
  <2>2. e \in Executors
    BY <2>1 DEF Keys, Exec
  <2>3. Untouched(e) /\ row[e].status = "connected" /\ row[e].lease >= lapse[d]
    BY <1>7 DEF LeaseInv, LeaseHeld
  <2>4. lapse[d] > 1
    BY <1>7 DEF ClusterTick, Undisturbed, Serves
  <2>5. lapse[d] \in Nat /\ row[e].lease \in Nat
    BY <1>4, <2>2, StoreAssumption DEF Rows
  <2>6. lapse'[d] = lapse[d] - 1
    BY <2>4, <2>5 DEF ClusterTick
  <2> QED
    BY <1>1, <1>2, <1>5, <2>2, <2>3, <2>4, <2>5, <2>6
<1>8. LeaseHeld'
  BY <1>1, <1>3, <1>7 DEF LeaseHeld
<1> QED
  BY <1>6, <1>7, <1>8 DEF Keeps, LeaseInv

LEMMA LeaseStep ==
  ASSUME Undisturbed, ConnInv, IndInv, LeaseInv, [Next]_vars
  PROVE  Keeps
<1>1. ASSUME NEW c \in Conns, NEW k \in Keys, ServeUpsert(c, k)
      PROVE  Keeps
  BY <1>1, ServeUpsertKeeps
<1>2. ASSUME NEW c \in Conns,
             ConnSteps(c) \/ SocketLost(c) \/ CloseBegins(c) \/ TriggerLeaseTouch(c)
      PROVE  Keeps
  BY <1>2, QuietConnKeeps, CloseKeeps, TouchKeeps DEF ConnSteps
<1>3. ASSUME UNCHANGED <<connVars, seen>>, \A e \in Executors : Safe(e) => Kept(e)
      PROVE  Keeps
  <2>1. \A d \in Conns : Serves(d)' = Serves(d) /\ ckey'[d] = ckey[d] /\ lapse'[d] = lapse[d]
    BY <1>3 DEF connVars, Serves
  <2>2. \A e \in Executors : Held(e) => Kept(e)
    BY <1>3, HeldIsSafe
  <2> QED
    BY <1>3, <2>1, <2>2, KeptKeepsLease DEF Keeps
<1>4. ASSUME NEW i \in Instances, InstanceSteps(i) \/ Shutdown(i)
      PROVE  Keeps
  <2>1. UNCHANGED <<connVars, seen>>
    BY <1>4 DEF InstanceSteps, Enrol, AdoptQuery, Adopt, Started, DeleteStaleInstances, Reap, Shutdown
  <2> QED
    BY <1>3, <1>4, <2>1, InstanceKeeps
<1>5. ASSUME NEW i \in Instances, ManagerStops(i) \/ PeerJoins(i)
      PROVE  Keeps
  <2>1. UNCHANGED <<connVars, seen>>
    BY <1>5 DEF ManagerStops, PeerJoins
  <2> QED
    BY <1>3, <1>5, <2>1, ProcessKeeps
<1>6. ASSUME NEW i \in Instances, Crash(i)
      PROVE  Keeps
  <2>1. \A d \in Conns : ckey'[d] = ckey[d] \/ ckey'[d] = None
    BY <1>6 DEF Crash
  <2>2. \A d \in Conns : Serves(d)' => Serves(d) /\ ckey'[d] = ckey[d] /\ lapse'[d] = lapse[d]
    BY <1>6 DEF Crash, Serves
  <2>3. \A e \in Executors : Held(e) => Kept(e)
    BY <1>6, HeldIsSafe, ProcessKeeps
  <2>4. seen' = seen
    BY <1>6 DEF Crash
  <2> QED
    BY <2>1, <2>2, <2>3, <2>4, KeptKeepsLease DEF Keeps
<1>7. CASE ManagerSteps
  <2>1. UNCHANGED <<connVars, seen>>
    BY <1>7 DEF ManagerSteps
  <2> QED
    BY <1>3, <1>7, <2>1, ManagerKeeps
<1>8. CASE UNCHANGED vars
  <2>1. UNCHANGED <<connVars, seen, wkey, todo, adopted, row>>
    BY <1>8 DEF vars, managerVars, callVars, sweepVars, haVars
  <2>2. \A e \in Executors : Safe(e) => Kept(e)
    BY <2>1 DEF Safe, Untouched, Kept
  <2> QED
    BY <1>3, <2>1, <2>2
<1> QED
  BY <1>1, <1>2, <1>4, <1>5, <1>6, <1>7, <1>8, TickKeeps DEF Next

LEMMA LeaseInvariant ==
  ASSUME Undisturbed
  PROVE  Spec => [](ConnInv /\ IndInv /\ LeaseInv)
<1>1. Init => LeaseInv
  BY LeaseInit
<1>2. ConnInv /\ IndInv /\ [Next]_vars => IndInv'
  BY ClusterStep, ManagerStepInv
<1>3. ConnInv /\ IndInv /\ LeaseInv /\ [Next]_vars => LeaseInv'
  BY LeaseStep DEF Keeps
<1> QED
  BY ConnInit, ConnStep, ClusterInitInv, <1>1, <1>2, <1>3, PTL DEF Spec

LEMMA LiveServes ==
  ASSUME ConnInv, IndInv, LeaseInv, NEW c \in Conns, Live(c)
  PROVE  /\ Serves(c)
         /\ row[Exec(ckey[c])].status = "connected" /\ row[Exec(ckey[c])].lease > 0
<1>1. Serves(c)
  BY DEF Live, Serves
<1>2. ckey[c] \in Keys
  BY <1>1 DEF Serves, ConnInv, ClusterTypeOK
<1>3. Exec(ckey[c]) \in Executors
  BY <1>2 DEF Keys, Exec
<1>4. lapse[c] \in Nat /\ row[Exec(ckey[c])].lease \in Nat
  BY <1>3, StoreAssumption DEF ConnInv, ClusterTypeOK, IndInv, ManagerTypeOK, Rows
<1> QED
  BY <1>1, <1>4 DEF LeaseInv, LeaseHeld

\* While an executor is served, its row says so and its lease runs: whatever
\* instances crash, stop or take another's record for stale, none may adopt it.
THEOREM LiveHoldsLease ==
  ASSUME Undisturbed
  PROVE  Spec => [](\A c \in Conns : Live(c) => /\ row[Exec(ckey[c])].status = "connected"
                                                /\ row[Exec(ckey[c])].lease > 0)
<1> DEFINE Leased == \A c \in Conns : Live(c) => /\ row[Exec(ckey[c])].status = "connected"
                                                 /\ row[Exec(ckey[c])].lease > 0
<1>1. ConnInv /\ IndInv /\ LeaseInv => Leased
  BY LiveServes
<1> QED
  BY <1>1, LeaseInvariant, PTL

\* No watcher, sweep, adopter or reaper of any instance marks the row of an
\* executor dead that is connected and renews its lease in time.
THEOREM LiveIsNeverDead ==
  ASSUME Undisturbed
  PROVE  Spec => LiveNeverDead
<1> DEFINE Spared == \A e \in Executors : IsLive(e) /\ row[e].status # "dead" => row'[e].status # "dead"
<1>1. ConnInv /\ IndInv /\ LeaseInv /\ [Next]_vars => [Spared]_vars
  <2> SUFFICES ASSUME ConnInv, IndInv, LeaseInv, [Next]_vars, NEW e \in Executors, IsLive(e)
               PROVE  row'[e].status # "dead"
    OBVIOUS
  <2>1. PICK c \in Conns : Live(c) /\ Exec(ckey[c]) = e
    BY DEF IsLive
  <2>2. row'[e].status = "connected"
    BY <2>1, LiveServes, LeaseStep DEF Keeps
  <2> QED
    BY <2>2
<1> QED
  BY <1>1, LeaseInvariant, PTL DEF Spec, LiveNeverDead

\* No recovery, of this executor or of another, deletes the record of an
\* executor that is connected and renews its lease in time.
THEOREM LiveRecordIsKept ==
  ASSUME Undisturbed
  PROVE  Spec => LiveRecordKept
<1> DEFINE Stays == \A e \in Executors : IsLive(e) /\ Present(row[e]) => Present(row'[e])
<1>1. ConnInv /\ IndInv /\ LeaseInv /\ [Next]_vars => [Stays]_vars
  <2> SUFFICES ASSUME ConnInv, IndInv, LeaseInv, [Next]_vars, NEW e \in Executors, IsLive(e)
               PROVE  Present(row'[e])
    OBVIOUS
  <2>1. PICK c \in Conns : Live(c) /\ Exec(ckey[c]) = e
    BY DEF IsLive
  <2>2. row'[e].status = "connected"
    BY <2>1, LiveServes, LeaseStep DEF Keeps
  <2> QED
    BY <2>2 DEF Present
<1> QED
  BY <1>1, LeaseInvariant, PTL DEF Spec, LiveRecordKept
=============================================================================
