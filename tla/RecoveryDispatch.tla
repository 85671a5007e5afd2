--------------------------- MODULE RecoveryDispatch ---------------------------
(***************************************************************************)
(* RecoverDeadExecutor (internal/liveness/dispatch.go) for one executor    *)
(* that is marked dead, called by several goroutines at once: the recovery *)
(* goroutine of a grace period, the sweeps, and other instances.           *)
(*                                                                         *)
(* The work of the dead executor is the set of application versions at     *)
(* which it still owns PENDING workflows.  A peer that acknowledges has    *)
(* taken over the workflows of its own version and possibly others, as the *)
(* version-scoped recovery of the system database does.  A peer may do so  *)
(* and its answer be lost.  Peers come, go, and come back under the same   *)
(* executor ID with another version while a call is going through its      *)
(* candidates.                                                             *)
(***************************************************************************)
EXTENDS Naturals, FiniteSets

CONSTANTS Calls,                 \* bound: calls at a time
          Peers,                 \* executor IDs of the application, without the dead one
          Versions, DeadVersion,
          None,
          AllowVersionMismatch,  \* calls of a dispatcher with that option
          HasDirectRecovery,     \* calls that find the application in Direct mode
          LeftPending,           \* the versions of the dead executor's work
          RedeployMidCall        \* peers change their version after they were listed

ASSUME DispatchAssumption ==
  /\ DeadVersion \in Versions /\ LeftPending \subseteq Versions
  /\ None \notin Peers \X Versions
  /\ AllowVersionMismatch \cup HasDirectRecovery \subseteq Calls
  /\ RedeployMidCall \in BOOLEAN

VARIABLES pc,          \* per call
          listed,      \* per call: the candidates SelectCandidates returned
          candidates,  \* per call: those not yet asked, with the version listed
          asked,       \* per call: the candidate that was asked last
          online,      \* per peer: it is connected to this instance
          version,     \* per peer: the version it is deployed with
          pending,     \* versions with PENDING workflows of the dead executor
          record       \* the row of the dead executor exists

peerVars == <<online, version>>
vars == <<pc, listed, candidates, asked, peerVars, pending, record>>

Candidates == Peers \X Versions

Init ==
  /\ pc = [w \in Calls |-> "start"]
  /\ listed = [w \in Calls |-> {}]
  /\ candidates = [w \in Calls |-> {}]
  /\ asked = [w \in Calls |-> None]
  /\ online \in [Peers -> BOOLEAN]
  /\ version \in [Peers -> Versions]
  /\ pending = LeftPending
  /\ record = TRUE

Goto(w, to) ==
  /\ pc' = [pc EXCEPT ![w] = to]
  /\ UNCHANGED <<listed, candidates, asked>>

(***************************************************************************)
(* Direct mode: the system database re-enqueues the work of the dead       *)
(* executor's version and is then asked whether any work, of any version,  *)
(* is left.  Only if the re-enqueue itself fails are the peers tried.      *)
(***************************************************************************)
DirectRecover(w) ==
  /\ w \in HasDirectRecovery
  /\ pc[w] = "start"
  /\ \/ Goto(w, "verify") /\ pending' = pending \ {DeadVersion}
     \/ Goto(w, "peers") /\ pending' \in {pending, pending \ {DeadVersion}}
  /\ UNCHANGED <<peerVars, record>>

\* Seeded fault: the check is scoped to the version of the dead executor.
DirectVerifyVersion(w) ==
  /\ pc[w] \in {"verify", "verifyAll"}
  /\ \/ DeadVersion \notin pending /\ Goto(w, "delete")
     \/ DeadVersion \in pending /\ Goto(w, "failed")
  /\ UNCHANGED <<peerVars, pending, record>>

DirectVerify(w) ==
  /\ pc[w] \in {"verify", "verifyAll"}
  /\ \/ pending = {} /\ Goto(w, "delete")
     \/ pending # {} /\ Goto(w, IF w \in AllowVersionMismatch /\ pc[w] = "verify"
                                THEN "recoverAll" ELSE "failed")
  /\ UNCHANGED <<peerVars, pending, record>>

DirectVerifyFails(w) ==
  /\ pc[w] \in {"verify", "verifyAll"}
  /\ Goto(w, "failed")
  /\ UNCHANGED <<peerVars, pending, record>>

\* The second re-enqueue, for all versions.  When it fails the outcome of the
\* check that led here stands.
DirectRecoverAll(w) ==
  /\ pc[w] = "recoverAll"
  /\ Goto(w, "verifyAll")
  /\ pending' = {}
  /\ UNCHANGED <<peerVars, record>>

DirectRecoverAllFails(w) ==
  /\ pc[w] = "recoverAll"
  /\ Goto(w, "failed")
  /\ pending' \in {pending, {}}
  /\ UNCHANGED <<peerVars, record>>

(***************************************************************************)
(* Peers.  FindHealthyPeers lists the connections of this instance; the    *)
(* order of a Go map is not specified, so the candidates are a set of      *)
(* which SelectCandidates puts the exact matches first.  The hub lists its *)
(* own connections of the application, from memory, so that neither the    *)
(* error of the listing nor that of a foreign peer can come about.         *)
(***************************************************************************)
Exact(S) == {c \in S : c[2] = DeadVersion}

SelectCandidates(w, S) == IF w \in AllowVersionMismatch THEN S ELSE Exact(S)

ListPeers(w) ==
  LET connected == {c \in Candidates : online[c[1]] /\ version[c[1]] = c[2]}
      selected == SelectCandidates(w, connected)
  IN
  /\ pc[w] = "peers" \/ (pc[w] = "start" /\ w \notin HasDirectRecovery)
  /\ listed' = [listed EXCEPT ![w] = selected]
  /\ candidates' = [candidates EXCEPT ![w] = selected]
  /\ pc' = [pc EXCEPT ![w] = IF selected # {} THEN "ask"
                             ELSE IF connected # {} THEN "versionMismatch" ELSE "noPeers"]
  /\ UNCHANGED <<asked, peerVars, pending, record>>

NextCandidate(w, c) ==
  /\ c \in candidates[w]
  /\ Exact(candidates[w]) # {} => c \in Exact(candidates[w])

\* Seeded fault: the loop does not move on from the candidate it asked.
SendsAgain(w) ==
  /\ pc[w] = "ask"
  /\ \E c \in Candidates :
       /\ NextCandidate(w, c)
       /\ asked' = [asked EXCEPT ![w] = c]
  /\ pc' = [pc EXCEPT ![w] = "sent"]
  /\ UNCHANGED <<listed, candidates, peerVars, pending, record>>

\* The candidate's connection is looked up again, by its executor ID; without
\* one the request fails at once.
SendRecovery(w) ==
  /\ pc[w] = "ask"
  /\ \E c \in Candidates :
       /\ NextCandidate(w, c)
       /\ asked' = [asked EXCEPT ![w] = c]
       /\ candidates' = [candidates EXCEPT ![w] = @ \ {c}]
       /\ pc' = [pc EXCEPT ![w] = IF online[c[1]] THEN "sent" ELSE "ask"]
  /\ UNCHANGED <<listed, peerVars, pending, record>>

\* External: the peer may be running another version than the one that was
\* listed.  It either refuses or takes work over, all of its own version at
\* least.
Recovers(p) == {pending \ S : S \in {T \in SUBSET Versions : version[p] \in T}}

\* An acknowledgement from a candidate of another version is checked against
\* the work of the dead version, by asking the same peer.
Acknowledged(w) ==
  /\ pc[w] = "sent"
  /\ pending' \in Recovers(asked[w][1])
  /\ Goto(w, IF asked[w][2] = DeadVersion THEN "delete" ELSE "probe")
  /\ UNCHANGED <<peerVars, record>>

\* The peer refuses, or does not answer in time and may have done the work.
NotAcknowledged(w) ==
  /\ pc[w] = "sent"
  /\ pending' \in {pending} \cup Recovers(asked[w][1])
  /\ Goto(w, "ask")
  /\ UNCHANGED <<peerVars, record>>

\* Seeded fault: an acknowledgement is taken at its word.
ProbeTrusts(w) ==
  /\ pc[w] = "probe"
  /\ Goto(w, "delete")
  /\ UNCHANGED <<peerVars, pending, record>>

CheckPendingWorkflows(w) ==
  /\ pc[w] = "probe"
  /\ \/ Goto(w, "ask")        \* the probe fails, or finds work
     \/ online[asked[w][1]] /\ DeadVersion \notin pending /\ Goto(w, "delete")
  /\ UNCHANGED <<peerVars, pending, record>>


AllTried(w) ==
  /\ pc[w] = "ask"
  /\ candidates[w] = {}
  /\ Goto(w, "failed")
  /\ UNCHANGED <<peerVars, pending, record>>

\* Deleting a row that is no longer there succeeds.
DeleteExecutor(w) ==
  /\ pc[w] = "delete"
  /\ \/ Goto(w, "ok") /\ record' = FALSE
     \/ Goto(w, "failedDelete") /\ UNCHANGED record
  /\ UNCHANGED <<peerVars, pending>>

\* A goroutine that finds the row still there calls again.
CallAgain(w) ==
  /\ pc[w] \in {"failed", "failedDelete", "noPeers", "versionMismatch"}
  /\ record
  /\ pc' = [pc EXCEPT ![w] = "start"]
  /\ listed' = [listed EXCEPT ![w] = {}]
  /\ candidates' = [candidates EXCEPT ![w] = {}]
  /\ asked' = [asked EXCEPT ![w] = None]
  /\ UNCHANGED <<peerVars, pending, record>>

PeerJoins(p) ==
  /\ ~online[p]
  /\ online' = [online EXCEPT ![p] = TRUE]
  /\ UNCHANGED <<pc, listed, candidates, asked, version, pending, record>>

\* A connection that closes cancels the requests that wait on it; the peer may
\* have done the work.
PeerLeaves(p) ==
  LET waiting == {w \in Calls : pc[w] = "sent" /\ asked[w][1] = p} IN
  /\ online[p]
  /\ online' = [online EXCEPT ![p] = FALSE]
  /\ pc' = [w \in Calls |-> IF w \in waiting THEN "ask" ELSE pc[w]]
  /\ pending' \in {pending} \cup IF waiting # {} THEN Recovers(p) ELSE {}
  /\ UNCHANGED <<listed, candidates, asked, version, record>>

\* External: an executor that is away is deployed again with another version.
PeerRedeploys(p) ==
  /\ ~online[p]
  /\ RedeployMidCall \/ \A w \in Calls : \A c \in listed[w] : c[1] # p
  /\ \E v \in Versions \ {version[p]} : version' = [version EXCEPT ![p] = v]
  /\ UNCHANGED <<pc, listed, candidates, asked, online, pending, record>>

CallStep(w) ==
  \/ DirectRecover(w) \/ DirectVerify(w) \/ DirectVerifyFails(w)
  \/ DirectRecoverAll(w) \/ DirectRecoverAllFails(w)
  \/ ListPeers(w) \/ SendRecovery(w) \/ Acknowledged(w) \/ NotAcknowledged(w)
  \/ CheckPendingWorkflows(w) \/ AllTried(w) \/ DeleteExecutor(w)

Next ==
  \/ \E w \in Calls : CallStep(w) \/ CallAgain(w)
  \/ \E p \in Peers : PeerJoins(p) \/ PeerLeaves(p) \/ PeerRedeploys(p)

Spec == Init /\ [][Next]_vars

\* A call runs to its end, and the sweep calls again.  The delete may fail any
\* number of times, but not for ever.  Of the peers and of the recovery through
\* the system database nothing is assumed.
Fairness ==
  \A w \in Calls :
    /\ WF_vars(CallStep(w))
    /\ WF_vars(CallAgain(w))
    /\ SF_vars(DeleteExecutor(w) /\ ~record')

FairSpec == Spec /\ Fairness
-----------------------------------------------------------------------------
PCs == {"start", "verify", "recoverAll", "verifyAll", "peers", "ask", "sent", "probe",
        "delete", "ok", "failed", "failedDelete", "noPeers", "versionMismatch"}

\* The type of each variable; a call that waits for an answer asked one of the
\* peers it listed, which is still connected, and does not ask it again.
TypeOK ==
  /\ pc \in [Calls -> PCs]
  /\ listed \in [Calls -> SUBSET Candidates]
  /\ candidates \in [Calls -> SUBSET Candidates]
  /\ asked \in [Calls -> Candidates \cup {None}]
  /\ online \in [Peers -> BOOLEAN]
  /\ version \in [Peers -> Versions]
  /\ pending \subseteq Versions
  /\ record \in BOOLEAN
  /\ \A w \in Calls : candidates[w] \subseteq listed[w]
  /\ \A w \in Calls : pc[w] = "sent" => online[asked[w][1]]
  /\ \A w \in Calls : pc[w] \in {"sent", "probe"} =>
       asked[w] \in listed[w] \ candidates[w]

\* The record of the dead executor, which is what keeps its recovery from being
\* forgotten, is deleted only when none of its work is left behind, whichever
\* of the concurrent calls gets there and whatever answers were lost.
NoWorkLeftBehind == ~record => pending = {}

\* The same for the work of the version the dead executor ran last, which is
\* what a peer recovers and what the check after a cross-version recovery asks
\* about.
DeadVersionRecovered == ~record => DeadVersion \notin pending

\* A call that deletes the record because the system database says so has seen
\* that no work of any version is left: a rollout can leave work of an older
\* version under the same executor ID, which the re-enqueue does not touch.
\* asked[w] is None as long as the call has turned to no peer.
DirectLeavesNoWork ==
  \A w \in Calls : pc[w] \in {"delete", "ok"} /\ asked[w] = None => pending = {}

\* Peer p, asked again and again, acknowledges at some point.
Answering(p) ==
  \A w \in Calls : SF_vars(pc[w] = "sent" /\ asked[w][1] = p /\ Acknowledged(w))

=============================================================================
