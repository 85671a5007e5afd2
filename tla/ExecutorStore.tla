---------------------------- MODULE ExecutorStore ----------------------------
(***************************************************************************)
(* The executors table: what each query does to the row of one executor    *)
(* (internal/store/queries/executors.sql and its twin in                   *)
(* internal/store/sqlite_queries.go).                                      *)
(*                                                                         *)
(* Timestamps are kept as the time that is left: lease is the number of    *)
(* ticks until lease_expires_at, reap the number of ticks until            *)
(* disconnected_at is older than the reaper's cutoff.  A NULL lease and an *)
(* expired one satisfy the same conditions in every query, so both are 0.  *)
(***************************************************************************)
EXTENDS Naturals

CONSTANTS Owners,         \* Relay processes; a restarted process is a new one
          None,           \* SQL NULL, nil
          LeaseDuration   \* ticks; ha and hub both use 60 seconds

ASSUME StoreAssumption == LeaseDuration \in Nat \ {0} /\ None \notin Owners

Rows == [status : {"absent", "connected", "disconnected", "dead"},
         owner : Owners \cup {None},
         lease : 0 .. LeaseDuration,
         reap : 0 .. LeaseDuration]

NoRow == [status |-> "absent", owner |-> None, lease |-> 0, reap |-> 0]

Present(row) == row.status # "absent"

UpsertExecutor(row, i) ==
  [status |-> "connected", owner |-> i, lease |-> LeaseDuration, reap |-> 0]

\* Seeded fault: last_seen_at is written, lease_expires_at is not.
TouchLastSeenOnly(row) == row

\* Renews the lease of whatever row is there, whoever owns it.
TouchExecutorLastSeen(row) ==
  IF Present(row) THEN [row EXCEPT !.lease = LeaseDuration] ELSE row

\* Not restricted to the owner either.
DisconnectExecutor(row) ==
  IF Present(row)
  THEN [status |-> "disconnected", owner |-> None, lease |-> 0, reap |-> LeaseDuration]
  ELSE row

ReapExpiredExecutors(row) ==
  IF row.status = "disconnected" /\ row.reap = 0
  THEN [row EXCEPT !.status = "dead"] ELSE row

\* The query returns a row, and so succeeds, only if it changed one.
SetsExecutorDead(row) == Present(row) /\ row.status # "dead"
SetExecutorDead(row) == [row EXCEPT !.status = "dead", !.owner = None, !.lease = 0]

\* Seeded fault: a lease that has not expired does not protect its owner.
AdoptableUnexpired(row, i) == row.status = "connected" /\ row.owner # i

Adoptable(row, i) == row.status = "connected" /\ row.owner # i /\ row.lease = 0
AdoptExpiredExecutors(row, i) == [row EXCEPT !.owner = i, !.lease = LeaseDuration]

\* owner_instance_id is a foreign key with ON DELETE SET NULL.
OwnersDeleted(row, gone) == IF row.owner \in gone THEN [row EXCEPT !.owner = None] ELSE row

\* One tick of the wall clock.
Aged(row) == [row EXCEPT !.lease = IF @ = 0 THEN 0 ELSE @ - 1,
                         !.reap = IF @ = 0 THEN 0 ELSE @ - 1]
=============================================================================
