----------------------- MODULE RecoveryDispatch_proofs -----------------------
(***************************************************************************)
(* Proofs about RecoveryDispatch, for any number of concurrent calls,      *)
(* peers and versions.                                                     *)
(*                                                                         *)
(* The record is deleted only by a call at "delete".  Such a call was told *)
(* that the work of the dead version is gone, either by the check that     *)
(* follows a recovery or by a peer of that version.  The second is a fact  *)
(* about the peer's version now, and the call knows the version that was   *)
(* listed: the two agree as long as no listed peer is redeployed.  That is *)
(* a premise of the theorems, and a run without it finds the record        *)
(* deleted too early.                                                      *)
(***************************************************************************)
EXTENDS RecoveryDispatch, TLAPS

\* The peers that a call listed run the version they were listed with.
ListedCurrent ==
  \A w \in Calls :
    \A c \in listed[w] : version[c[1]] = c[2]

\* A call that is about to delete the record, and one that has deleted it,
\* knows that no work of the dead version is left.
DeletesRecovered ==
  \A w \in Calls : pc[w] \in {"delete", "ok"} => DeadVersion \notin pending

Inv ==
  /\ TypeOK
  /\ ListedCurrent
  /\ DeletesRecovered
  /\ DeadVersionRecovered

LEMMA TypeStep ==
  ASSUME TypeOK, [Next]_vars
  PROVE  TypeOK'
<1> USE DEF TypeOK, PCs
<1>1. ASSUME NEW w \in Calls,
             DirectRecover(w) \/ DirectVerify(w) \/ DirectVerifyFails(w)
               \/ DirectRecoverAll(w) \/ DirectRecoverAllFails(w)
      PROVE  TypeOK'
  <2>1. pending' \subseteq pending
    BY <1>1 DEF DirectRecover, DirectVerify, DirectVerifyFails, DirectRecoverAll,
                DirectRecoverAllFails
  <2>2. QED
    BY <1>1, <2>1 DEF DirectRecover, DirectVerify, DirectVerifyFails, DirectRecoverAll,
                      DirectRecoverAllFails, Goto, peerVars
<1>2. ASSUME NEW w \in Calls, ListPeers(w)
      PROVE  TypeOK'
  BY <1>2 DEF ListPeers, SelectCandidates, Exact, Candidates, peerVars
<1>3. ASSUME NEW w \in Calls, SendRecovery(w)
      PROVE  TypeOK'
  <2>1. PICK c \in Candidates :
          /\ NextCandidate(w, c)
          /\ asked' = [asked EXCEPT ![w] = c]
          /\ candidates' = [candidates EXCEPT ![w] = @ \ {c}]
          /\ pc' = [pc EXCEPT ![w] = IF online[c[1]] THEN "sent" ELSE "ask"]
    BY <1>3 DEF SendRecovery
  <2>2. c \in candidates[w]
    BY <2>1 DEF NextCandidate
  <2>3. UNCHANGED <<listed, online, version, pending, record>>
    BY <1>3 DEF SendRecovery, peerVars
  <2>4. candidates[w] \subseteq listed[w]
    BY <1>3 DEF SendRecovery
  <2>5. QED
    BY <2>1, <2>2, <2>3, <2>4
<1>4. ASSUME NEW w \in Calls, Acknowledged(w) \/ NotAcknowledged(w)
      PROVE  TypeOK'
  <2>1. pending' \subseteq pending
    BY <1>4 DEF Acknowledged, NotAcknowledged, Recovers
  <2>2. CASE Acknowledged(w)
    BY <2>1, <2>2 DEF Acknowledged, Goto, peerVars
  <2>3. CASE NotAcknowledged(w)
    BY <2>1, <2>3 DEF NotAcknowledged, Goto, peerVars
  <2>4. QED
    BY <1>4, <2>2, <2>3
<1>5. ASSUME NEW w \in Calls,
             CheckPendingWorkflows(w) \/ AllTried(w) \/ DeleteExecutor(w)
      PROVE  TypeOK'
  <2>1. CASE CheckPendingWorkflows(w)
    BY <2>1 DEF CheckPendingWorkflows, Goto, peerVars
  <2>2. CASE AllTried(w)
    BY <2>2 DEF AllTried, Goto, peerVars
  <2>3. CASE DeleteExecutor(w)
    BY <2>3 DEF DeleteExecutor, Goto, peerVars
  <2>4. QED
    BY <1>5, <2>1, <2>2, <2>3
<1>6. ASSUME NEW w \in Calls, CallAgain(w)
      PROVE  TypeOK'
  BY <1>6 DEF CallAgain, peerVars
<1>7. ASSUME NEW p \in Peers, PeerJoins(p) \/ PeerLeaves(p) \/ PeerRedeploys(p)
      PROVE  TypeOK'
  <2>1. \A w \in Calls : pc[w] = "sent" => asked[w][1] \in Peers
    BY DEF Candidates
  <2>2. CASE PeerJoins(p)
    BY <2>1, <2>2 DEF PeerJoins
  <2>3. CASE PeerLeaves(p)
    BY <2>1, <2>3 DEF PeerLeaves, Recovers
  <2>4. CASE PeerRedeploys(p)
    BY <2>4 DEF PeerRedeploys
  <2>5. QED
    BY <1>7, <2>2, <2>3, <2>4
<1>8. CASE UNCHANGED vars
  BY <1>8 DEF vars, peerVars
<1>9. QED
  BY <1>1, <1>2, <1>3, <1>4, <1>5, <1>6, <1>7, <1>8 DEF Next, CallStep

\* The type invariant of RecoverDeadExecutor's calls holds whatever the peers do;
\* in particular no call asks a candidate twice, and none waits for the answer of
\* a peer whose connection has gone.
THEOREM DispatchTypeCorrect == Spec => []TypeOK
<1>1. Init => TypeOK
  BY DispatchAssumption DEF Init, TypeOK, PCs
<1>2. QED
  BY <1>1, TypeStep, PTL DEF Spec

\* A step of a call or of a peer keeps Inv when no listed peer is redeployed.
LEMMA InvStep ==
  ASSUME ~RedeployMidCall, Inv, [Next]_vars
  PROVE  Inv'
<1>0. TypeOK'
  BY TypeStep DEF Inv
<1> USE DEF Inv, ListedCurrent, DeletesRecovered, DeadVersionRecovered
<1>1. ASSUME NEW w \in Calls,
             DirectRecover(w) \/ DirectVerify(w) \/ DirectVerifyFails(w)
               \/ DirectRecoverAll(w) \/ DirectRecoverAllFails(w)
      PROVE  Inv'
  BY <1>0, <1>1 DEF DirectRecover, DirectVerify, DirectVerifyFails, DirectRecoverAll,
                    DirectRecoverAllFails, Goto, peerVars, TypeOK
<1>2. ASSUME NEW w \in Calls, ListPeers(w)
      PROVE  Inv'
  BY <1>0, <1>2 DEF ListPeers, SelectCandidates, Exact, Candidates, peerVars, TypeOK
<1>3. ASSUME NEW w \in Calls, SendRecovery(w)
      PROVE  Inv'
  BY <1>0, <1>3 DEF SendRecovery, peerVars, TypeOK
<1>4. ASSUME NEW w \in Calls, Acknowledged(w) \/ NotAcknowledged(w)
      PROVE  Inv'
  <2>1. pc[w] = "sent" /\ version[asked[w][1]] = asked[w][2]
    BY <1>4 DEF Acknowledged, NotAcknowledged, TypeOK
  <2>2. pending' \subseteq pending
    BY <1>4 DEF Acknowledged, NotAcknowledged, Recovers
  <2>3. Acknowledged(w) => asked[w][2] \notin pending'
    BY <2>1 DEF Acknowledged, Recovers
  <2>4. QED
    BY <1>0, <1>4, <2>1, <2>2, <2>3 DEF Acknowledged, NotAcknowledged, Goto, peerVars, TypeOK
<1>5. ASSUME NEW w \in Calls,
             CheckPendingWorkflows(w) \/ AllTried(w) \/ DeleteExecutor(w) \/ CallAgain(w)
      PROVE  Inv'
  BY <1>0, <1>5 DEF CheckPendingWorkflows, AllTried, DeleteExecutor, CallAgain, Goto,
                    peerVars, TypeOK
<1>6. ASSUME NEW p \in Peers, PeerJoins(p) \/ PeerLeaves(p)
      PROVE  Inv'
  BY <1>0, <1>6 DEF PeerJoins, PeerLeaves, Recovers, TypeOK
<1>7. ASSUME NEW p \in Peers, PeerRedeploys(p)
      PROVE  Inv'
  BY <1>0, <1>7 DEF PeerRedeploys, TypeOK
<1>8. CASE UNCHANGED vars
  BY <1>0, <1>8 DEF vars, peerVars
<1>9. QED
  BY <1>1, <1>2, <1>3, <1>4, <1>5, <1>6, <1>7, <1>8 DEF Next, CallStep

LEMMA DispatchInductive ==
  ASSUME ~RedeployMidCall
  PROVE  Spec => []Inv
<1>1. Init => Inv
  BY DispatchAssumption DEF Init, Inv, TypeOK, PCs, ListedCurrent, DeletesRecovered,
                            DeadVersionRecovered
<1>2. Inv /\ [Next]_vars => Inv'
  BY InvStep
<1>3. QED
  BY <1>1, <1>2, PTL DEF Spec

\* If no peer changes its version between being listed and being asked,
\* RecoverDeadExecutor deletes the record only when no work of the dead version
\* is left, whatever answers are lost, for any number of concurrent calls, with
\* and without Direct mode and cross-version recovery.
THEOREM DispatchRecoversVersion ==
  ASSUME ~RedeployMidCall
  PROVE  Spec => []DeadVersionRecovered
<1>1. Inv => DeadVersionRecovered
  BY DEF Inv
<1>2. QED
  BY <1>1, DispatchInductive, PTL

\* A call that deletes the record after a recovery through the system database
\* leaves no work of any version behind, whatever versions a rollout left under
\* the executor's ID, whatever other calls do and however peers are redeployed.
THEOREM DispatchDirectLeavesNoWork == Spec => []DirectLeavesNoWork
<1>1. Init => DirectLeavesNoWork
  BY DEF Init, DirectLeavesNoWork
<1>2. TypeOK /\ DirectLeavesNoWork /\ [Next]_vars => DirectLeavesNoWork'
  <2> SUFFICES ASSUME TypeOK, DirectLeavesNoWork, [Next]_vars PROVE DirectLeavesNoWork'
    OBVIOUS
  <2>1. pending' \subseteq pending
    BY DEF Next, CallStep, DirectRecover, DirectVerify, DirectVerifyFails, DirectRecoverAll,
           DirectRecoverAllFails, ListPeers, SendRecovery, Acknowledged, NotAcknowledged,
           Recovers, CheckPendingWorkflows, AllTried, DeleteExecutor, CallAgain, PeerJoins,
           PeerLeaves, PeerRedeploys, vars
  <2> USE <2>1 DEF DirectLeavesNoWork, TypeOK
  <2>2. ASSUME NEW w \in Calls,
               DirectRecover(w) \/ DirectVerify(w) \/ DirectVerifyFails(w)
                 \/ DirectRecoverAll(w) \/ DirectRecoverAllFails(w)
        PROVE  DirectLeavesNoWork'
    BY <2>2 DEF DirectRecover, DirectVerify, DirectVerifyFails, DirectRecoverAll,
                DirectRecoverAllFails, Goto
  <2>3. ASSUME NEW w \in Calls,
               ListPeers(w) \/ SendRecovery(w) \/ NotAcknowledged(w) \/ AllTried(w)
                 \/ DeleteExecutor(w) \/ CallAgain(w)
        PROVE  DirectLeavesNoWork'
    BY <2>3 DEF ListPeers, SendRecovery, NotAcknowledged, AllTried, DeleteExecutor,
                CallAgain, Goto
  <2>4. ASSUME NEW w \in Calls, Acknowledged(w) \/ CheckPendingWorkflows(w)
        PROVE  DirectLeavesNoWork'
    <3>1. asked[w] \in Candidates /\ asked[w] # None
      BY <2>4, DispatchAssumption DEF Acknowledged, CheckPendingWorkflows, Candidates
    <3>2. QED
      BY <2>4, <3>1 DEF Acknowledged, CheckPendingWorkflows, Goto
  <2>5. ASSUME NEW p \in Peers, PeerJoins(p) \/ PeerLeaves(p) \/ PeerRedeploys(p)
        PROVE  DirectLeavesNoWork'
    BY <2>5 DEF PeerJoins, PeerLeaves, PeerRedeploys
  <2>6. CASE UNCHANGED vars
    BY <2>6 DEF vars
  <2>7. QED
    BY <2>2, <2>3, <2>4, <2>5, <2>6 DEF Next, CallStep
<1>3. QED
  BY <1>1, <1>2, DispatchTypeCorrect, PTL DEF Spec
=============================================================================
