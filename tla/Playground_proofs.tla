------------------------- MODULE Playground_proofs -------------------------
(***************************************************************************)
(* Proofs about RelayBridge and Playground: the audit log accounts for the *)
(* directory, the tables tell one story of every workflow, the console is  *)
(* not left at a deleted workflow and shows what the database holds, and   *)
(* the demo workflow is always answered, for any set of numbers, tokens,   *)
(* roles and users and any number of clicks and requests.                  *)
(***************************************************************************)
EXTENDS Playground, TLAPS, FiniteSetTheorems, SequenceTheorems

-----------------------------------------------------------------------------
(***************************************************************************)
(* The directory of the bridge.                                            *)
(***************************************************************************)
Entries == [operation : Operations, target : Targets]

\* A request pushes one entry in front of the log.
Pushed(operation, target) ==
  /\ auditLog' \in Seq(Entries)
  /\ Len(auditLog') = Len(auditLog) + 1
  /\ auditLog'[1] = Entry(operation, target)
  /\ \A k \in 1..Len(auditLog) : auditLog'[k + 1] = auditLog[k]

LEMMA PushAudit ==
  ASSUME auditLog \in Seq(Entries),
         NEW operation \in Operations, NEW target \in Targets, pushAudit(operation, target)
  PROVE  Pushed(operation, target)
<1> DEFINE e == Entry(operation, target)
<1>1. e \in Entries
  BY DEF Entry, Entries
<1>2. <<e>> \in Seq(Entries) /\ Len(<<e>>) = 1 /\ <<e>>[1] = e
  BY <1>1
<1>3. auditLog' = <<e>> \o auditLog
  BY DEF pushAudit
<1> HIDE DEF e
<1>4. /\ auditLog' \in Seq(Entries)
      /\ Len(auditLog') = Len(auditLog) + 1
      /\ auditLog'[1] = e
      /\ \A k \in 1..Len(auditLog) : auditLog'[k + 1] = auditLog[k]
  BY <1>2, <1>3
<1> QED
  BY <1>4 DEF Pushed, e

\* An entry on another thing leaves what is recorded of this one.
LEMMA RecordedKept ==
  ASSUME auditLog \in Seq(Entries), NEW operation, NEW other, Pushed(operation, other),
         NEW made, NEW gone, NEW target,
         operation \notin {made, gone} \/ other # target
  PROVE  /\ LastMade(made, gone, target)' <=> LastMade(made, gone, target)
         /\ Silent({made, gone}, target)' <=> Silent({made, gone}, target)
<1>0. Len(auditLog) \in Nat /\ DOMAIN auditLog = 1..Len(auditLog)
      /\ DOMAIN auditLog' = 1..(Len(auditLog) + 1)
  BY DEF Pushed
<1>1. \A S \in {{made, gone}, {made}} : ~Says(1, S, target)'
  BY DEF Says, Pushed, Entry
<1>2. \A S : \A k \in 1..Len(auditLog) : Says(k + 1, S, target)' <=> Says(k, S, target)
  BY <1>0 DEF Says, Pushed
<1>3. Silent({made, gone}, target)' <=> Silent({made, gone}, target)
  <2>1. ASSUME Silent({made, gone}, target), NEW k \in DOMAIN auditLog', Says(k, {made, gone}, target)'
        PROVE FALSE
    <3>1. k # 1 BY <1>1, <2>1
    <3>2. k - 1 \in 1..Len(auditLog) /\ (k - 1) + 1 = k BY <3>1, <1>0
    <3>3. Says(k - 1, {made, gone}, target) BY <3>2, <1>2, <2>1
    <3> QED BY <3>2, <3>3, <2>1, <1>0 DEF Silent
  <2>2. ASSUME Silent({made, gone}, target)', NEW k \in DOMAIN auditLog, Says(k, {made, gone}, target)
        PROVE FALSE
    <3>1. Says(k + 1, {made, gone}, target)' BY <1>0, <1>2, <2>2
    <3>2. k + 1 \in DOMAIN auditLog' BY <1>0
    <3> QED BY <3>1, <3>2, <2>2 DEF Silent
  <2> QED BY <2>1, <2>2 DEF Silent
<1>4. LastMade(made, gone, target)' <=> LastMade(made, gone, target)
  <2>1. ASSUME NEW k \in DOMAIN auditLog', Says(k, {made}, target)',
               \A l \in 1..(k - 1) : ~Says(l, {made, gone}, target)'
        PROVE LastMade(made, gone, target)
    <3>1. k # 1 BY <1>1, <2>1
    <3>2. k - 1 \in 1..Len(auditLog) /\ (k - 1) + 1 = k BY <3>1, <1>0
    <3>3. Says(k - 1, {made}, target) BY <3>2, <1>2, <2>1
    <3>4. ASSUME NEW l \in 1..((k - 1) - 1) PROVE ~Says(l, {made, gone}, target)
      <4>1. l \in 1..Len(auditLog) /\ l + 1 \in 1..(k - 1) BY <3>2, <1>0
      <4> QED BY <4>1, <2>1, <1>2
    <3> QED BY <3>2, <3>3, <3>4, <1>0 DEF LastMade
  <2>2. ASSUME NEW k \in DOMAIN auditLog, Says(k, {made}, target),
               \A l \in 1..(k - 1) : ~Says(l, {made, gone}, target)
        PROVE LastMade(made, gone, target)'
    <3>1. k + 1 \in DOMAIN auditLog' /\ Says(k + 1, {made}, target)' BY <1>0, <1>2, <2>2
    <3>2. ASSUME NEW l \in 1..((k + 1) - 1) PROVE ~Says(l, {made, gone}, target)'
      <4>1. CASE l = 1 BY <4>1, <1>1
      <4>2. CASE l # 1
        <5>1. l - 1 \in 1..(k - 1) /\ l - 1 \in 1..Len(auditLog) /\ (l - 1) + 1 = l BY <4>2, <1>0
        <5> QED BY <5>1, <2>2, <1>2
      <4> QED BY <4>1, <4>2
    <3> QED BY <3>1, <3>2 DEF LastMade
  <2> QED BY <2>1, <2>2 DEF LastMade
<1> QED
  BY <1>3, <1>4

\* What was recorded last is so.
LEMMA RecordedLast ==
  ASSUME auditLog \in Seq(Entries), NEW operation, NEW target, Pushed(operation, target),
         NEW made, NEW gone, made # gone,
         operation \in {made, gone}
  PROVE  /\ LastMade(made, gone, target)' <=> operation = made
         /\ ~Silent({made, gone}, target)'
<1>0. 1 \in DOMAIN auditLog' /\ Says(1, {made, gone}, target)' /\ DOMAIN auditLog' = 1..Len(auditLog')
      /\ Len(auditLog') \in Nat
  BY DEF Pushed, Says, Entry
<1>1. ~Silent({made, gone}, target)'
  BY <1>0 DEF Silent
<1>2. CASE operation = made
  <2>1. Says(1, {made}, target)' BY <1>2 DEF Pushed, Says, Entry
  <2> QED BY <2>1, <1>0, <1>1, <1>2 DEF LastMade
<1>3. CASE operation = gone
  <2>1. ~Says(1, {made}, target)' BY <1>3 DEF Pushed, Says, Entry
  <2>2. \A k \in DOMAIN auditLog' : k # 1 => 1 \in 1..(k - 1) BY <1>0
  <2> QED BY <2>1, <2>2, <1>0, <1>1, <1>3 DEF LastMade
<1> QED
  BY <1>1, <1>2, <1>3

\* What every request does to the record of a thing.
LEMMA RecordedStep ==
  ASSUME auditLog \in Seq(Entries), NEW operation, NEW other, Pushed(operation, other),
         NEW made, NEW gone, made # gone, NEW target
  PROVE  LET about == operation \in {made, gone} /\ other = target
         IN /\ LastMade(made, gone, target)' <=>
                 IF about THEN operation = made ELSE LastMade(made, gone, target)
            /\ Silent({made, gone}, target)' <=> ~about /\ Silent({made, gone}, target)
<1>1. CASE operation \in {made, gone} /\ other = target
  BY <1>1, RecordedLast
<1>2. CASE operation \notin {made, gone} \/ other # target
  BY <1>2, RecordedKept
<1> QED
  BY <1>1, <1>2

\* The parts of AuditReplays.
TokensReplay ==
  \A name \in TokenNames :
    name \in TokensNamed <=> Recorded("token.create", "token.revoke", name, FALSE)
RolesReplay ==
  \A name \in RoleNames :
    name \in roles <=> Recorded("role.create", "role.delete", name, name \in SeedRoles)
MembersReplay ==
  \A user \in DOMAIN SeedMembers : user \in DOMAIN members <=> Silent({"user.remove"}, user)
PolicyReplays ==
  policy # "none" <=>
    Recorded("autoscaling_policy.set", "autoscaling_policy.delete", "app", FALSE)
SettingReplays == privateMode => ~Silent({"application.update"}, "app")

LEMMA AuditParts ==
  /\ AuditReplays <=> TokensReplay /\ RolesReplay /\ MembersReplay /\ PolicyReplays /\ SettingReplays
  /\ AuditReplays' <=> TokensReplay' /\ RolesReplay' /\ MembersReplay' /\ PolicyReplays' /\ SettingReplays'
BY DEF AuditReplays, TokensReplay, RolesReplay, MembersReplay, PolicyReplays, SettingReplays

\* A single operation: the pair with itself.
LEMMA SilentKept ==
  ASSUME auditLog \in Seq(Entries), NEW operation, NEW other, Pushed(operation, other),
         NEW op, NEW target
  PROVE  operation # op \/ other # target => (Silent({op}, target)' <=> Silent({op}, target))
<1> HAVE operation # op \/ other # target
<1>1. {op, op} = {op}
  OBVIOUS
<1>2. Silent({op, op}, target)' <=> Silent({op, op}, target)
  BY RecordedKept
<1> QED
  BY <1>1, <1>2

LEMMA SilentEnds ==
  ASSUME auditLog \in Seq(Entries), NEW operation, NEW target, Pushed(operation, target)
  PROVE  ~Silent({operation}, target)'
BY DEF Pushed, Silent, Says, Entry

\* A request that gives or takes a token is accounted for.
LEMMA TokensAfter ==
  ASSUME auditLog \in Seq(Entries), TokensReplay,
         NEW operation \in {"token.create", "token.revoke"}, NEW name, Pushed(operation, name),
         \A n \in TokenNames : n \in TokensNamed' <=> IF n = name THEN operation = "token.create" ELSE n \in TokensNamed
  PROVE  TokensReplay'
<1> SUFFICES ASSUME NEW n \in TokenNames
             PROVE  n \in TokensNamed' <=> Recorded("token.create", "token.revoke", n, FALSE)'
  BY DEF TokensReplay
<1>1. "token.create" # "token.revoke"
  OBVIOUS
<1>2. LET about == operation \in {"token.create", "token.revoke"} /\ name = n
      IN /\ LastMade("token.create", "token.revoke", n)' <=>
              IF about THEN operation = "token.create" ELSE LastMade("token.create", "token.revoke", n)
         /\ Silent({"token.create", "token.revoke"}, n)' <=> ~about /\ Silent({"token.create", "token.revoke"}, n)
  BY <1>1, RecordedStep
<1> QED
  BY <1>2 DEF TokensReplay, Recorded

\* So is one that makes or deletes a role.
LEMMA RolesAfter ==
  ASSUME auditLog \in Seq(Entries), RolesReplay,
         NEW operation \in {"role.create", "role.delete"}, NEW name, Pushed(operation, name),
         \A n \in RoleNames : n \in roles' <=> IF n = name THEN operation = "role.create" ELSE n \in roles
  PROVE  RolesReplay'
<1> SUFFICES ASSUME NEW n \in RoleNames
             PROVE  n \in roles' <=> Recorded("role.create", "role.delete", n, n \in SeedRoles)'
  BY DEF RolesReplay
<1>1. "role.create" # "role.delete"
  OBVIOUS
<1>2. LET about == operation \in {"role.create", "role.delete"} /\ name = n
      IN /\ LastMade("role.create", "role.delete", n)' <=>
              IF about THEN operation = "role.create" ELSE LastMade("role.create", "role.delete", n)
         /\ Silent({"role.create", "role.delete"}, n)' <=> ~about /\ Silent({"role.create", "role.delete"}, n)
  BY <1>1, RecordedStep
<1> QED
  BY <1>2 DEF RolesReplay, Recorded

\* So is one that removes a member.
LEMMA MembersAfter ==
  ASSUME auditLog \in Seq(Entries), MembersReplay, NEW user, Pushed("user.remove", user),
         DOMAIN members' = DOMAIN members \ {user}
  PROVE  MembersReplay'
<1>1. ASSUME NEW u, u # user PROVE Silent({"user.remove"}, u)' <=> Silent({"user.remove"}, u)
  <2>1. "user.remove" # "user.remove" \/ user # u
    BY <1>1
  <2> QED
    BY <2>1, SilentKept
<1>2. ~Silent({"user.remove"}, user)'
  BY SilentEnds
<1> QED
  BY <1>1, <1>2 DEF MembersReplay

\* A part is kept by a request that records something else.
LEMMA PartsKept ==
  ASSUME auditLog \in Seq(Entries), AuditReplays, NEW operation, NEW target, Pushed(operation, target)
  PROVE  /\ operation \notin {"token.create", "token.revoke"} /\ keys' = keys => TokensReplay'
         /\ operation \notin {"role.create", "role.delete"} /\ roles' = roles => RolesReplay'
         /\ operation # "user.remove" /\ DOMAIN members' = DOMAIN members => MembersReplay'
         /\ operation \notin {"autoscaling_policy.set", "autoscaling_policy.delete"} /\ policy' = policy
              => PolicyReplays'
         /\ operation # "application.update" /\ privateMode' = privateMode => SettingReplays'
<1> USE AuditParts
<1>1. ASSUME operation \notin {"token.create", "token.revoke"}, keys' = keys PROVE TokensReplay'
  <2>1. TokensNamed' = TokensNamed BY <1>1 DEF TokensNamed
  <2> SUFFICES ASSUME NEW name \in TokenNames
        PROVE name \in TokensNamed <=> Recorded("token.create", "token.revoke", name, FALSE)'
    BY <2>1 DEF TokensReplay
  <2>2. Recorded("token.create", "token.revoke", name, FALSE)'
          <=> Recorded("token.create", "token.revoke", name, FALSE)
    BY <1>1, RecordedKept DEF Recorded
  <2> QED BY <2>2 DEF TokensReplay
<1>2. ASSUME operation \notin {"role.create", "role.delete"}, roles' = roles PROVE RolesReplay'
  <2> SUFFICES ASSUME NEW name \in RoleNames
        PROVE name \in roles <=> Recorded("role.create", "role.delete", name, name \in SeedRoles)'
    BY <1>2 DEF RolesReplay
  <2>2. Recorded("role.create", "role.delete", name, name \in SeedRoles)'
          <=> Recorded("role.create", "role.delete", name, name \in SeedRoles)
    BY <1>2, RecordedKept DEF Recorded
  <2> QED BY <2>2 DEF RolesReplay
<1>3. ASSUME operation # "user.remove", DOMAIN members' = DOMAIN members PROVE MembersReplay'
  <2> SUFFICES ASSUME NEW user \in DOMAIN SeedMembers
        PROVE user \in DOMAIN members <=> Silent({"user.remove"}, user)'
    BY <1>3 DEF MembersReplay
  <2>2. Silent({"user.remove"}, user)' <=> Silent({"user.remove"}, user) BY <1>3, SilentKept
  <2> QED BY <2>2 DEF MembersReplay
<1>4. ASSUME operation \notin {"autoscaling_policy.set", "autoscaling_policy.delete"}, policy' = policy
      PROVE PolicyReplays'
  <2>1. Recorded("autoscaling_policy.set", "autoscaling_policy.delete", "app", FALSE)'
          <=> Recorded("autoscaling_policy.set", "autoscaling_policy.delete", "app", FALSE)
    BY <1>4, RecordedKept DEF Recorded
  <2> QED BY <2>1, <1>4 DEF PolicyReplays
<1>5. ASSUME operation # "application.update", privateMode' = privateMode PROVE SettingReplays'
  <2>1. Silent({"application.update"}, "app")' <=> Silent({"application.update"}, "app")
    BY <1>5, SilentKept
  <2> QED BY <2>1, <1>5 DEF SettingReplays
<1> QED
  BY <1>1, <1>2, <1>3, <1>4, <1>5

\* The log begins with the token that is there; of the rest of the directory it
\* says nothing.
LEMMA SeedEntries ==
  /\ SeedLog \in Seq(Entries) /\ Len(SeedLog) = 2
  /\ SeedLog[1] = Entry("workflow.cancel", "workflow")
  /\ SeedLog[2] = Entry("token.create", SeedToken)
<1>1. "workflow.cancel" \in Operations /\ "token.create" \in Operations
  BY DEF Operations
<1>2. "workflow" \in Targets /\ SeedToken \in Targets
  BY BridgeAssumption DEF Targets
<1>3. Entry("workflow.cancel", "workflow") \in Entries /\ Entry("token.create", SeedToken) \in Entries
  BY <1>1, <1>2 DEF Entry, Entries
<1> QED
  BY <1>3 DEF SeedLog

LEMMA BridgeInitial == BridgeInit => BridgeTypeOK /\ AuditReplays
<1> SUFFICES ASSUME BridgeInit PROVE BridgeTypeOK /\ AuditReplays
  OBVIOUS
<1>1. /\ keys = {[id |-> 0, name |-> SeedToken]} /\ roles = SeedRoles /\ members = SeedMembers
      /\ policy = "none" /\ privateMode = FALSE /\ auditLog = SeedLog
  BY DEF BridgeInit
<1>2. BridgeTypeOK
  <2>1. policy \in EligibleQueues \cup {"none"} /\ privateMode \in BOOLEAN BY <1>1
  <2>2. GlobalRoles \subseteq roles /\ roles \subseteq RoleNames BY <1>1, BridgeAssumption
  <2>3. DOMAIN members \subseteq DOMAIN SeedMembers /\ \A u \in DOMAIN members : members[u] \in RoleNames
    BY <1>1, BridgeAssumption
  <2>4. keys \subseteq [id : Nat, name : TokenNames] BY <1>1, BridgeAssumption
  <2>5. auditLog \in Seq([operation : Operations, target : Targets]) BY <1>1, SeedEntries DEF Entries
  <2>6. Len(auditLog) <= Len(SeedLog) + MaxRequests BY <1>1, SeedEntries, BridgeAssumption
  <2> QED BY <2>1, <2>2, <2>3, <2>4, <2>5, <2>6 DEF BridgeTypeOK
<1>3. DOMAIN auditLog = {1, 2}
  BY <1>1, SeedEntries
<1>4. /\ auditLog[1].operation = "workflow.cancel"
      /\ auditLog[2].operation = "token.create" /\ auditLog[2].target = SeedToken
  BY <1>1, SeedEntries DEF Entry
<1>5. ASSUME NEW S, NEW target, "workflow.cancel" \notin S, "token.create" \notin S
      PROVE  Silent(S, target)
  BY <1>3, <1>4, <1>5 DEF Silent, Says
<1>6. ASSUME NEW made, NEW gone, NEW target, made \notin {"workflow.cancel", "token.create"}
      PROVE  ~LastMade(made, gone, target)
  BY <1>3, <1>4, <1>6 DEF LastMade, Says
<1>7. TokensReplay
  <2> SUFFICES ASSUME NEW name \in TokenNames
               PROVE  name \in TokensNamed <=> LastMade("token.create", "token.revoke", name)
    BY DEF TokensReplay, Recorded
  <2>1. name \in TokensNamed <=> name = SeedToken
    <3>1. [id |-> 0, name |-> SeedToken].name = SeedToken OBVIOUS
    <3> QED BY <1>1, <3>1 DEF TokensNamed
  <2>2. LastMade("token.create", "token.revoke", name) => name = SeedToken
    BY <1>3, <1>4 DEF LastMade, Says
  <2>3. ASSUME name = SeedToken PROVE LastMade("token.create", "token.revoke", name)
    <3>1. 2 \in DOMAIN auditLog /\ Says(2, {"token.create"}, name) BY <1>3, <1>4, <2>3 DEF Says
    <3>2. \A l \in 1..(2 - 1) : ~Says(l, {"token.create", "token.revoke"}, name) BY <1>4 DEF Says
    <3> QED BY <3>1, <3>2 DEF LastMade
  <2> QED BY <2>1, <2>2, <2>3
<1>8. RolesReplay
  BY <1>1, <1>5, <1>6 DEF RolesReplay, Recorded
<1>9. MembersReplay
  BY <1>1, <1>5 DEF MembersReplay
<1>10. PolicyReplays
  BY <1>1, <1>6 DEF PolicyReplays, Recorded
<1>11. SettingReplays
  BY <1>1 DEF SettingReplays
<1> QED
  BY <1>2, <1>7, <1>8, <1>9, <1>10, <1>11, AuditParts

\* What a request leaves typed: the log, with one more entry.
LEMMA LogGrows ==
  ASSUME BridgeTypeOK, Room, NEW operation \in Operations, NEW target \in Targets,
         pushAudit(operation, target)
  PROVE  /\ Pushed(operation, target)
         /\ auditLog' \in Seq([operation : Operations, target : Targets])
         /\ Len(auditLog') <= Len(SeedLog) + MaxRequests
<1>1. auditLog \in Seq(Entries) /\ Len(auditLog) < Len(SeedLog) + MaxRequests /\ Len(auditLog) \in Nat
  BY DEF BridgeTypeOK, Entries, Room
<1>2. Pushed(operation, target)
  BY <1>1, PushAudit
<1> QED
  BY <1>1, <1>2, SeedEntries, BridgeAssumption DEF Pushed, Entries

\* Every request keeps the types and what the log accounts for.
LEMMA BridgeStep ==
  ASSUME BridgeTypeOK, AuditReplays, BridgeNext
  PROVE  BridgeTypeOK' /\ AuditReplays'
<1>0. auditLog \in Seq(Entries)
  BY DEF BridgeTypeOK, Entries
<1>1. ASSUME NEW name \in TokenNames, CreateToken(name) PROVE BridgeTypeOK' /\ AuditReplays'
  <2>1. "token.create" \in Operations /\ name \in Targets BY DEF Operations, Targets
  <2>2. Room /\ pushAudit("token.create", name) BY <1>1 DEF CreateToken
  <2>3. Pushed("token.create", name) BY <2>1, <2>2, LogGrows
  <2>4. keys' \subseteq [id : Nat, name : TokenNames]
    <3>1. Len(auditLog) + 1 \in Nat BY <1>0
    <3> QED BY <3>1, <1>1 DEF CreateToken, BridgeTypeOK
  <2>5. BridgeTypeOK' BY <1>1, <2>1, <2>2, <2>4, LogGrows DEF CreateToken, BridgeTypeOK
  <2>6. ASSUME NEW n \in TokenNames PROVE n \in TokensNamed' <=> IF n = name THEN TRUE ELSE n \in TokensNamed
    <3> DEFINE k == [id |-> Len(auditLog) + 1, name |-> name]
    <3>1. keys' = keys \cup {k} /\ k.name = name BY <1>1 DEF CreateToken
    <3> HIDE DEF k
    <3> QED BY <3>1 DEF TokensNamed
  <2>7. TokensReplay' BY <1>0, <2>3, <2>6, AuditParts, TokensAfter
  <2> QED BY <1>0, <1>1, <2>3, <2>5, <2>7, PartsKept, AuditParts DEF CreateToken
<1>2. ASSUME NEW name \in TokenNames, RevokeToken(name) PROVE BridgeTypeOK' /\ AuditReplays'
  <2>1. "token.revoke" \in Operations /\ name \in Targets BY DEF Operations, Targets
  <2>2. Room /\ pushAudit("token.revoke", name) BY <1>2 DEF RevokeToken
  <2>3. Pushed("token.revoke", name) BY <2>1, <2>2, LogGrows
  <2>5. BridgeTypeOK' BY <1>2, <2>1, <2>2, LogGrows DEF RevokeToken, BridgeTypeOK
  <2>6. ASSUME NEW n \in TokenNames PROVE n \in TokensNamed' <=> IF n = name THEN FALSE ELSE n \in TokensNamed
    BY <1>2 DEF RevokeToken, TokensNamed
  <2>7. TokensReplay' BY <1>0, <2>3, <2>6, AuditParts, TokensAfter
  <2> QED BY <1>0, <1>2, <2>3, <2>5, <2>7, PartsKept, AuditParts DEF RevokeToken
<1>3. ASSUME NEW name \in RoleNames, CreateRole(name) PROVE BridgeTypeOK' /\ AuditReplays'
  <2>1. "role.create" \in Operations /\ name \in Targets BY DEF Operations, Targets
  <2>2. Room /\ pushAudit("role.create", name) BY <1>3 DEF CreateRole
  <2>3. Pushed("role.create", name) BY <2>1, <2>2, LogGrows
  <2>5. BridgeTypeOK' BY <1>3, <2>1, <2>2, LogGrows DEF CreateRole, BridgeTypeOK
  <2>6. ASSUME NEW n \in RoleNames PROVE n \in roles' <=> IF n = name THEN TRUE ELSE n \in roles
    BY <1>3 DEF CreateRole
  <2>7. RolesReplay' BY <1>0, <2>3, <2>6, AuditParts, RolesAfter
  <2> QED BY <1>0, <1>3, <2>3, <2>5, <2>7, PartsKept, AuditParts DEF CreateRole
<1>4. ASSUME NEW name \in RoleNames, DeleteRole(name) PROVE BridgeTypeOK' /\ AuditReplays'
  <2>1. "role.delete" \in Operations /\ name \in Targets BY DEF Operations, Targets
  <2>2. Room /\ pushAudit("role.delete", name) BY <1>4 DEF DeleteRole
  <2>3. Pushed("role.delete", name) BY <2>1, <2>2, LogGrows
  <2>5. BridgeTypeOK' BY <1>4, <2>1, <2>2, LogGrows DEF DeleteRole, BridgeTypeOK
  <2>6. ASSUME NEW n \in RoleNames PROVE n \in roles' <=> IF n = name THEN FALSE ELSE n \in roles
    BY <1>4 DEF DeleteRole
  <2>7. RolesReplay' BY <1>0, <2>3, <2>6, AuditParts, RolesAfter
  <2> QED BY <1>0, <1>4, <2>3, <2>5, <2>7, PartsKept, AuditParts DEF DeleteRole
<1>5. ASSUME NEW user \in Users, NEW name \in RoleNames, GrantRole(user, name)
      PROVE BridgeTypeOK' /\ AuditReplays'
  <2>1. "role.grant" \in Operations /\ user \in Targets BY DEF Operations, Targets
  <2>2. Room /\ pushAudit("role.grant", user) BY <1>5 DEF GrantRole
  <2>3. Pushed("role.grant", user) BY <2>1, <2>2, LogGrows
  <2>4. BridgeTypeOK' BY <1>5, <2>1, <2>2, LogGrows DEF GrantRole, BridgeTypeOK
  <2>5. DOMAIN members' = DOMAIN members BY <1>5 DEF GrantRole
  <2> QED BY <1>0, <1>5, <2>3, <2>4, <2>5, PartsKept, AuditParts DEF GrantRole
<1>6. ASSUME NEW user \in Users, RemoveMember(user) PROVE BridgeTypeOK' /\ AuditReplays'
  <2>1. "user.remove" \in Operations /\ user \in Targets BY DEF Operations, Targets
  <2>2. Room /\ pushAudit("user.remove", user) BY <1>6 DEF RemoveMember
  <2>3. Pushed("user.remove", user) BY <2>1, <2>2, LogGrows
  <2>4. BridgeTypeOK' BY <1>6, <2>1, <2>2, LogGrows DEF RemoveMember, BridgeTypeOK
  <2>5. DOMAIN members' = DOMAIN members \ {user} BY <1>6 DEF RemoveMember
  <2>6. MembersReplay' BY <1>0, <2>3, <2>5, AuditParts, MembersAfter
  <2> QED BY <1>0, <1>6, <2>3, <2>4, <2>6, PartsKept, AuditParts DEF RemoveMember
<1>7. ASSUME NEW private \in BOOLEAN, UpdateApplication(private) PROVE BridgeTypeOK' /\ AuditReplays'
  <2>1. "application.update" \in Operations /\ "app" \in Targets BY DEF Operations, Targets
  <2>2. Room /\ pushAudit("application.update", "app") BY <1>7 DEF UpdateApplication
  <2>3. Pushed("application.update", "app") BY <2>1, <2>2, LogGrows
  <2>4. BridgeTypeOK' BY <1>7, <2>1, <2>2, LogGrows DEF UpdateApplication, BridgeTypeOK
  <2>5. SettingReplays' BY <2>3, <1>0, SilentEnds DEF SettingReplays
  <2> QED BY <1>0, <1>7, <2>3, <2>4, <2>5, PartsKept, AuditParts DEF UpdateApplication
<1>8. ASSUME NEW queue \in Queues, SetPolicy(queue) PROVE BridgeTypeOK' /\ AuditReplays'
  <2>1. "autoscaling_policy.set" \in Operations /\ "app" \in Targets BY DEF Operations, Targets
  <2>2. Room /\ pushAudit("autoscaling_policy.set", "app") BY <1>8 DEF SetPolicy
  <2>3. Pushed("autoscaling_policy.set", "app") BY <2>1, <2>2, LogGrows
  <2>4. BridgeTypeOK' BY <1>8, <2>1, <2>2, LogGrows DEF SetPolicy, BridgeTypeOK
  <2>5. policy' # "none" BY <1>8, BridgeAssumption DEF SetPolicy
  <2>6. LastMade("autoscaling_policy.set", "autoscaling_policy.delete", "app")'
    BY <2>3, <1>0, RecordedLast
  <2>7. PolicyReplays' BY <2>5, <2>6 DEF PolicyReplays, Recorded
  <2> QED BY <1>0, <1>8, <2>3, <2>4, <2>7, PartsKept, AuditParts DEF SetPolicy
<1>9. ASSUME DeletePolicy PROVE BridgeTypeOK' /\ AuditReplays'
  <2>1. "autoscaling_policy.delete" \in Operations /\ "app" \in Targets BY DEF Operations, Targets
  <2>2. Room /\ pushAudit("autoscaling_policy.delete", "app") BY <1>9 DEF DeletePolicy
  <2>3. Pushed("autoscaling_policy.delete", "app") BY <2>1, <2>2, LogGrows
  <2>4. BridgeTypeOK' BY <1>9, <2>1, <2>2, LogGrows DEF DeletePolicy, BridgeTypeOK
  <2>0. "autoscaling_policy.set" # "autoscaling_policy.delete" OBVIOUS
  <2>5. /\ ~LastMade("autoscaling_policy.set", "autoscaling_policy.delete", "app")'
        /\ ~Silent({"autoscaling_policy.set", "autoscaling_policy.delete"}, "app")'
    BY <2>0, <2>3, <1>0, RecordedStep
  <2>6. PolicyReplays' BY <1>9, <2>5 DEF PolicyReplays, Recorded, DeletePolicy
  <2> QED BY <1>0, <1>9, <2>3, <2>4, <2>6, PartsKept, AuditParts DEF DeletePolicy
<1>10. ASSUME NEW op \in {"workflow.cancel", "workflow.resume", "workflow.fork"}, WorkflowOperation(op)
       PROVE BridgeTypeOK' /\ AuditReplays'
  <2>1. op \in Operations /\ "workflow" \in Targets BY DEF Operations, Targets
  <2>2. Room /\ pushAudit(op, "workflow") BY <1>10 DEF WorkflowOperation
  <2>3. Pushed(op, "workflow") BY <2>1, <2>2, LogGrows
  <2>4. BridgeTypeOK' BY <1>10, <2>1, <2>2, LogGrows DEF WorkflowOperation, BridgeTypeOK
  <2> QED BY <1>0, <1>10, <2>3, <2>4, PartsKept, AuditParts DEF WorkflowOperation
<1> QED
  BY <1>1, <1>2, <1>3, <1>4, <1>5, <1>6, <1>7, <1>8, <1>9, <1>10 DEF BridgeNext

\* A step of the page that leaves the directory alone.
LEMMA BridgeSame ==
  ASSUME BridgeTypeOK, AuditReplays, UNCHANGED directory
  PROVE  BridgeTypeOK' /\ AuditReplays'
BY DEF directory, BridgeTypeOK, AuditReplays, TokensNamed, Recorded, LastMade, Silent, Says

-----------------------------------------------------------------------------
(***************************************************************************)
(* The invariant of the page.                                              *)
(***************************************************************************)
\* What initDatabase() has done: there is a database before it has tables, and
\* tables before they have data; the emulator keeps nothing.
Opened ==
  /\ loading = "import" => engine = "none" /\ ~tables
  /\ loading = "schema" => engine = "pglite" /\ ~tables
  /\ loading = "seed" => engine = "pglite" /\ tables
  /\ loading = "done" => Answers
  /\ (engine = "fallback" \/ ~tables) => rows = NoRows /\ ops = {}

\* Nothing has been written of workflow n.
Fresh(n) ==
  /\ ord(n) \notin DOMAIN rows /\ pay(n) \notin DOMAIN rows
  /\ StepsRecorded(ord(n)) = {} /\ StepsRecorded(pay(n)) = {}

\* Numbers are drawn once, and never the demo's.
Drawing ==
  /\ Demo \in drawn /\ suffix \in drawn
  /\ at # "idle" => suffix # Demo
  /\ loading # "done" => drawn \subseteq early \cup {Demo}
  /\ at \notin {"idle", "insert"} => Answers
  /\ \A n \in Numbers \ drawn : Fresh(n)
  /\ at = "insert" => Fresh(suffix)

\* The steps of ord(n) that succeeded, whether its child has a row, and the
\* steps of the child.
Story(n, done, paid, kids) ==
  /\ StepsRecorded(ord(n)) = Succeeded(done)
  /\ pay(n) \in DOMAIN rows <=> paid
  /\ StepsRecorded(pay(n)) = Succeeded(kids)

\* The story of a workflow that failed.
Failed(n) ==
  /\ StepsRecorded(ord(n)) = Succeeded({0}) \cup {[fid |-> 1, status |-> "ERROR"]}
  /\ pay(n) \notin DOMAIN rows

\* While runWorkflow() is at it, and no reset has deleted its row, the story is
\* that of the statements already executed.
Running ==
  at \notin {"idle", "insert"} /\ ord(suffix) \in DOMAIN rows =>
    /\ rows[ord(suffix)] = "PENDING"
    /\ at = "validateCart" => Story(suffix, {}, FALSE, {})
    /\ at = "reserveInventory" => Story(suffix, {0}, FALSE, {})
    /\ at = "failed" => Failed(suffix)
    /\ at = "authorizePayment" => Story(suffix, {0, 1}, FALSE, {})
    /\ at = "linkChild" => Story(suffix, {0, 1}, TRUE, {})
    /\ at = "childSteps" => Story(suffix, {0, 1, 2}, TRUE, {})
    /\ at = "scheduleShipping" => Story(suffix, {0, 1, 2}, TRUE, {0, 1})
    /\ at = "sendReceiptNotification" => Story(suffix, {0, 1, 2, 3}, TRUE, {0, 1})
    /\ at = "complete" => Story(suffix, 0..4, TRUE, {0, 1})

\* The row of a workflow that has ended, or whose run an error has ended.
Ended(n) ==
  \/ rows[ord(n)] = "SUCCESS" /\ Story(n, 0..4, TRUE, {0, 1})
  \/ rows[ord(n)] = "ERROR" /\ Failed(n)
  \/ rows[ord(n)] = "PENDING" /\ n \in broken

\* A workflow that runWorkflow() is no longer at has ended.
Past ==
  \A n \in Numbers \ {Demo} :
    ord(n) \in DOMAIN rows /\ (at = "idle" \/ n # suffix) => Ended(n)

\* The rows and steps of the demo are all there or none of them.
DemoWhole ==
  /\ ord(Demo) \in DOMAIN rows => rows[ord(Demo)] = "SUCCESS"
  /\ {o \in ops : o.wf = ord(Demo)} \in {{}, {o \in DemoOps : o.wf = ord(Demo)}}

\* The frame is at the fleet or at a workflow that was run.
Viewing ==
  /\ hash = Fleet \/ \E n \in drawn \ {Demo} : hash = ord(n)
  /\ renders = 0 => shown = View(hash)

PageInv ==
  /\ PlaygroundTypeOK /\ resets + clicks <= MaxClicks /\ AuditReplays
  /\ Opened /\ Drawing /\ Running /\ Past /\ DemoWhole /\ Viewing /\ NoDanglingView
-----------------------------------------------------------------------------
(***************************************************************************)
(* Workflows, rows and steps.                                              *)
(***************************************************************************)
LEMMA Ids ==
  /\ \A n, m : ord(n) # pay(m) /\ ord(n) # auth /\ ord(n) # ship /\ ord(n) # Fleet
             /\ pay(n) # auth /\ pay(n) # ship /\ pay(n) # Fleet
  /\ \A n, m : (ord(n) = ord(m) => n = m) /\ (pay(n) = pay(m) => n = m)
  /\ auth # ship /\ auth # Fleet /\ ship # Fleet
  /\ \A n \in Numbers : ord(n) \in Workflows /\ pay(n) \in Workflows
  /\ auth \in Workflows /\ ship \in Workflows
BY DEF ord, pay, auth, ship, Fleet, Workflows

OpRecords == [wf : Workflows, fid : 0..5, status : {"SUCCESS", "ERROR"}, child : Workflows \cup {Fleet}]

LEMMA OpTypes ==
  ASSUME NEW w \in Workflows, NEW f \in 0..5
  PROVE  /\ \A s \in {"SUCCESS", "ERROR"} : Op(w, f, s) \in OpRecords
         /\ \A c \in Workflows : ChildOp(w, f, c) \in OpRecords
BY DEF Op, ChildOp, OpRecords

LEMMA DemoTypes ==
  /\ DOMAIN DemoRows = {ord(Demo), auth, ship}
  /\ DOMAIN DemoRows \subseteq Workflows
  /\ \A w \in DOMAIN DemoRows : DemoRows[w] = "SUCCESS"
  /\ DemoOps \subseteq OpRecords
<1>1. ord(Demo) \in Workflows /\ auth \in Workflows /\ ship \in Workflows
  BY Ids, PlaygroundAssumption
<1>2. DOMAIN DemoRows = {ord(Demo), auth, ship} /\ \A w \in DOMAIN DemoRows : DemoRows[w] = "SUCCESS"
  BY DEF DemoRows
<1>3. \A f \in {1, 2, 5} : Op(ord(Demo), f, "SUCCESS") \in OpRecords
  BY <1>1, OpTypes
<1>4. ChildOp(ord(Demo), 3, auth) \in OpRecords /\ ChildOp(ord(Demo), 4, ship) \in OpRecords
  BY <1>1, OpTypes
<1>5. \A w \in {auth, ship}, f \in {1, 2} : Op(w, f, "SUCCESS") \in OpRecords
  BY <1>1, OpTypes
<1>6. DemoOps \subseteq OpRecords
  BY <1>3, <1>4, <1>5 DEF DemoOps
<1> QED
  BY <1>1, <1>2, <1>6

\* The types of the tables, apart from those of the other variables.
TablesTyped ==
  /\ DOMAIN rows \subseteq Workflows
  /\ \A w \in DOMAIN rows : rows[w] \in {"PENDING", "SUCCESS", "ERROR"}
  /\ ops \subseteq OpRecords

LEMMA NoRowsTyped == DOMAIN NoRows = {}
BY DEF NoRows

LEMMA SeededTyped ==
  ASSUME TablesTyped, Seeded PROVE TablesTyped'
BY DemoTypes DEF TablesTyped, Seeded

LEMMA InsertedTyped ==
  ASSUME TablesTyped, NEW w \in Workflows, NEW s \in {"PENDING", "SUCCESS", "ERROR"}, Inserted(w, s)
  PROVE  /\ DOMAIN rows' \subseteq Workflows
         /\ \A v \in DOMAIN rows' : rows'[v] \in {"PENDING", "SUCCESS", "ERROR"}
BY DEF TablesTyped, Inserted

LEMMA UpdatedTyped ==
  ASSUME TablesTyped, NEW w \in Workflows, NEW s \in {"PENDING", "SUCCESS", "ERROR"}, Updated(w, s)
  PROVE  /\ DOMAIN rows' \subseteq Workflows
         /\ \A v \in DOMAIN rows' : rows'[v] \in {"PENDING", "SUCCESS", "ERROR"}
BY DEF TablesTyped, Updated

LEMMA RecordingTyped ==
  ASSUME TablesTyped, NEW S \in SUBSET OpRecords, Recording(S)
  PROVE  ops' \subseteq OpRecords
BY DEF TablesTyped, Recording

LEMMA ViewTyped ==
  ASSUME TablesTyped, hash \in Workflows \cup {Fleet}
  PROVE  View(hash) \in [of : Workflows \cup {Fleet},
                         status : {"none", "404", "PENDING", "SUCCESS", "ERROR"}]
<1>1. Workflow(hash) \in {"404", "PENDING", "SUCCESS", "ERROR"}
  BY DEF TablesTyped, Workflow
<1> QED
  BY <1>1 DEF View

-----------------------------------------------------------------------------
(***************************************************************************)
(* Types.                                                                  *)
(***************************************************************************)
\* The types of what a run, a reset and a click change, without the directory
\* and the tables.
ControlTyped ==
  /\ engine \in {"none", "pglite", "fallback"}
  /\ loading \in {"import", "schema", "seed", "done"}
  /\ tables \in BOOLEAN
  /\ at \in Places
  /\ suffix \in Numbers /\ drawn \subseteq Numbers /\ early \subseteq drawn
  /\ broken \subseteq Numbers
  /\ injectFailure \in BOOLEAN
  /\ resets \in Nat /\ clicks \in Nat /\ resets + clicks <= MaxClicks
  /\ renders \in Nat
  /\ hash \in Workflows \cup {Fleet}
  /\ shown \in [of : Workflows \cup {Fleet}, status : {"none", "404", "PENDING", "SUCCESS", "ERROR"}]

LEMMA TypeParts ==
  /\ PlaygroundTypeOK /\ resets + clicks <= MaxClicks <=> BridgeTypeOK /\ ControlTyped /\ TablesTyped
  /\ (PlaygroundTypeOK /\ resets + clicks <= MaxClicks)' <=> BridgeTypeOK' /\ ControlTyped' /\ TablesTyped'
BY PlaygroundAssumption DEF PlaygroundTypeOK, ControlTyped, TablesTyped, OpRecords

LEMMA LocatedTyped ==
  ASSUME renders \in Nat, NEW h, Located(h) PROVE renders' \in Nat /\ hash' = h
BY DEF Located

\* A step of runWorkflow() keeps the types.
LEMMA RunTyped ==
  ASSUME ControlTyped, TablesTyped, RunStep, UNCHANGED <<resets, clicks>>
  PROVE  ControlTyped' /\ TablesTyped'
<1>0. ord(suffix) \in Workflows /\ pay(suffix) \in Workflows
  BY Ids DEF ControlTyped
<1>1. CASE InsertWorkflow
  <2>1. TablesTyped' BY <1>0, <1>1, InsertedTyped DEF InsertWorkflow, TablesTyped
  <2>2. ControlTyped' BY <1>0, <1>1 DEF InsertWorkflow, ControlTyped, Goto, Places
  <2> QED BY <2>1, <2>2
<1>2. ASSUME NEW pc, NEW f \in 0..4, NEW next \in Places, StepDone(pc, f, next)
      PROVE ControlTyped' /\ TablesTyped'
  <2>1. {Op(ord(suffix), f, "SUCCESS")} \in SUBSET OpRecords BY <1>0, OpTypes
  <2>2. TablesTyped' BY <2>1, <1>2, RecordingTyped DEF StepDone, TablesTyped
  <2>3. ControlTyped' BY <1>2 DEF StepDone, ControlTyped, Goto, console
  <2> QED BY <2>2, <2>3
<1>3. CASE StepFailed
  <2>1. {Op(ord(suffix), 1, "ERROR")} \in SUBSET OpRecords BY <1>0, OpTypes
  <2>2. TablesTyped' BY <2>1, <1>3, RecordingTyped DEF StepFailed, TablesTyped
  <2>3. ControlTyped' BY <1>3 DEF StepFailed, ControlTyped, Goto, console, Places
  <2> QED BY <2>2, <2>3
<1>4. ASSUME NEW pc, NEW status \in {"SUCCESS", "ERROR"}, Finished(pc, status)
      PROVE ControlTyped' /\ TablesTyped'
  <2>1. TablesTyped' BY <1>0, <1>4, UpdatedTyped DEF Finished, TablesTyped
  <2>2. ControlTyped' BY <1>4 DEF Finished, ControlTyped, Goto, Places
  <2> QED BY <2>1, <2>2
<1>5. CASE InsertChild
  <2>1. TablesTyped' BY <1>0, <1>5, InsertedTyped DEF InsertChild, TablesTyped
  <2>2. ControlTyped' BY <1>5 DEF InsertChild, ControlTyped, Goto, console, Places
  <2> QED BY <2>1, <2>2
<1>6. CASE LinkChild
  <2>1. {ChildOp(ord(suffix), 2, pay(suffix))} \in SUBSET OpRecords BY <1>0, OpTypes
  <2>2. TablesTyped' BY <2>1, <1>6, RecordingTyped DEF LinkChild, TablesTyped
  <2>3. ControlTyped' BY <1>6 DEF LinkChild, ControlTyped, Goto, console, Places
  <2> QED BY <2>2, <2>3
<1>7. CASE ChildSteps
  <2>1. \A f \in {0, 1} : Op(pay(suffix), f, "SUCCESS") \in OpRecords BY <1>0, OpTypes
  <2>2. {Op(pay(suffix), f, "SUCCESS") : f \in {0, 1}} \in SUBSET OpRecords BY <2>1
  <2>3. TablesTyped' BY <2>2, <1>7, RecordingTyped DEF ChildSteps, TablesTyped
  <2>4. ControlTyped' BY <1>7 DEF ChildSteps, ControlTyped, Goto, console, Places
  <2> QED BY <2>3, <2>4
<1>8. CASE RunThrows
  BY <1>8 DEF RunThrows, ControlTyped, TablesTyped, console, Places
<1>9. {"reserveInventory", "authorizePayment", "sendReceiptNotification", "complete"} \subseteq Places
  BY DEF Places
<1> QED
  BY <1>1, <1>2, <1>3, <1>4, <1>5, <1>6, <1>7, <1>8, <1>9 DEF RunStep

\* Every step keeps the types.
LEMMA TypeStep ==
  ASSUME BridgeTypeOK, AuditReplays, ControlTyped, TablesTyped, [Next]_vars
  PROVE  BridgeTypeOK' /\ AuditReplays' /\ ControlTyped' /\ TablesTyped'
<1>0. ASSUME UNCHANGED directory PROVE BridgeTypeOK' /\ AuditReplays'
  BY <1>0, BridgeSame
<1>a. ASSUME UNCHANGED database PROVE TablesTyped'
  BY <1>a DEF TablesTyped, database
<1>b. ASSUME Click, UNCHANGED resets PROVE clicks' \in Nat /\ resets' \in Nat /\ resets' + clicks' <= MaxClicks
  BY <1>b, PlaygroundAssumption DEF Click, ControlTyped
<1>1. CASE initFallbackEngine
  BY <1>0, <1>1, NoRowsTyped DEF initFallbackEngine, ControlTyped, TablesTyped, run
<1>2. CASE ImportPGlite
  BY <1>0, <1>2 DEF ImportPGlite, ControlTyped, TablesTyped, run, console
<1>3. CASE createSchema
  BY <1>0, <1>3 DEF createSchema, ControlTyped, TablesTyped, run, console
<1>4. CASE seedInitialData
  BY <1>0, <1>4, SeededTyped DEF seedInitialData, ControlTyped, run
<1>5. CASE resetDatabase
  BY <1>0, <1>5, SeededTyped DEF resetDatabase, ControlTyped, run, Click
<1>6. CASE ResetDone
  <2>1. renders' \in Nat /\ hash' = Fleet BY <1>6, LocatedTyped DEF ResetDone, ControlTyped
  <2>2. resets' \in Nat /\ clicks' = clicks /\ resets' + clicks' <= MaxClicks
    BY <1>6, PlaygroundAssumption DEF ResetDone, ControlTyped
  <2>3. UNCHANGED <<directory, database, run, shown>> BY <1>6 DEF ResetDone
  <2> QED BY <1>0, <1>a, <2>1, <2>2, <2>3 DEF ControlTyped, database, run
<1>7. CASE toggleFailure
  <2>1. clicks' \in Nat /\ resets' \in Nat /\ resets' + clicks' <= MaxClicks
    BY <1>7, <1>b DEF toggleFailure
  <2>2. UNCHANGED <<directory, database, at, suffix, drawn, early, broken, console>> /\ injectFailure' \in BOOLEAN
    BY <1>7 DEF toggleFailure, ControlTyped
  <2> QED BY <1>0, <1>a, <2>1, <2>2 DEF ControlTyped, database, console
<1>8. ASSUME NEW n \in Numbers, runWorkflow(n) PROVE BridgeTypeOK' /\ AuditReplays' /\ ControlTyped' /\ TablesTyped'
  <2>1. clicks' \in Nat /\ resets' \in Nat /\ resets' + clicks' <= MaxClicks
    BY <1>8, <1>b DEF runWorkflow
  <2>2. at' \in Places /\ suffix' \in Numbers /\ drawn' \subseteq Numbers /\ early' \subseteq drawn'
    BY <1>8 DEF runWorkflow, ControlTyped, Places
  <2>3. UNCHANGED <<directory, database, broken, injectFailure, console>> BY <1>8 DEF runWorkflow
  <2> QED BY <1>0, <1>a, <2>1, <2>2, <2>3 DEF ControlTyped, database, console
<1>9. CASE RunStep /\ UNCHANGED <<directory, resets, clicks>>
  BY <1>0, <1>9, RunTyped
<1>10. CASE Render
  BY <1>0, <1>10, ViewTyped DEF Render, ControlTyped, TablesTyped, database, run
<1>11. CASE Click /\ BridgeNext /\ UNCHANGED <<database, run, resets, console>>
  <2>1. clicks' \in Nat /\ resets' \in Nat /\ resets' + clicks' <= MaxClicks BY <1>11, <1>b
  <2> QED BY <1>a, <1>11, <2>1, BridgeStep DEF ControlTyped, database, run, console
<1>12. CASE UNCHANGED vars
  BY <1>0, <1>12 DEF vars, ControlTyped, TablesTyped, database, run, console
<1> QED
  BY <1>1, <1>2, <1>3, <1>4, <1>5, <1>6, <1>7, <1>8, <1>9, <1>10, <1>11, <1>12 DEF Next

-----------------------------------------------------------------------------
(***************************************************************************)
(* What the tables say of a workflow.                                      *)
(***************************************************************************)
\* A step leaves what the tables say of w.
SameOf(w) ==
  /\ w \in DOMAIN rows' <=> w \in DOMAIN rows
  /\ w \in DOMAIN rows => rows'[w] = rows[w]
  /\ {o \in ops' : o.wf = w} = {o \in ops : o.wf = w}

LEMMA SameSteps ==
  ASSUME NEW w, SameOf(w) PROVE StepsRecorded(w)' = StepsRecorded(w)
BY DEF SameOf, StepsRecorded

LEMMA SameStory ==
  ASSUME NEW n, SameOf(ord(n)), SameOf(pay(n))
  PROVE  /\ Fresh(n)' <=> Fresh(n)
         /\ ord(n) \in DOMAIN rows' <=> ord(n) \in DOMAIN rows
         /\ ord(n) \in DOMAIN rows => rows'[ord(n)] = rows[ord(n)]
         /\ \A done, kids : \A paid \in BOOLEAN : Story(n, done, paid, kids)' <=> Story(n, done, paid, kids)
         /\ Failed(n)' <=> Failed(n)
<1>1. StepsRecorded(ord(n))' = StepsRecorded(ord(n)) /\ StepsRecorded(pay(n))' = StepsRecorded(pay(n))
  BY SameSteps
<1>2. /\ ord(n) \in DOMAIN rows' <=> ord(n) \in DOMAIN rows
      /\ pay(n) \in DOMAIN rows' <=> pay(n) \in DOMAIN rows
      /\ ord(n) \in DOMAIN rows => rows'[ord(n)] = rows[ord(n)]
  BY DEF SameOf
<1> QED
  BY <1>1, <1>2 DEF Fresh, Story, Failed

\* A step that is added to those that succeeded.
LEMMA SucceededAdded ==
  ASSUME NEW F, NEW f PROVE Succeeded(F) \cup {[fid |-> f, status |-> "SUCCESS"]} = Succeeded(F \cup {f})
BY DEF Succeeded

LEMMA SucceededNone == Succeeded({}) = {}
BY DEF Succeeded

\* Everything but the workflow that is run and its child is left alone.
OthersSame == \A w : w # ord(suffix) /\ w # pay(suffix) => SameOf(w)

LEMMA InsertedOthers ==
  ASSUME NEW w, w \in {ord(suffix), pay(suffix)}, NEW st, Inserted(w, st), UNCHANGED ops
  PROVE  OthersSame
BY DEF Inserted, OthersSame, SameOf

LEMMA UpdatedOthers ==
  ASSUME NEW w, w \in {ord(suffix), pay(suffix)}, NEW st, Updated(w, st), UNCHANGED ops
  PROVE  OthersSame
BY DEF Updated, OthersSame, SameOf

LEMMA RecordingOthers ==
  ASSUME NEW S, \A o \in S : o.wf \in {ord(suffix), pay(suffix)}, Recording(S), UNCHANGED rows
  PROVE  OthersSame
BY DEF Recording, OthersSame, SameOf

\* What is kept by a step that touches only the workflow that is run.
LEMMA OthersKept ==
  ASSUME suffix # Demo, suffix \in drawn, Drawing, Past, DemoWhole, OthersSame, broken \subseteq broken'
  PROVE  /\ \A n \in Numbers \ drawn : Fresh(n)'
         /\ \A n \in Numbers \ {Demo} : ord(n) \in DOMAIN rows' /\ n # suffix => Ended(n)'
         /\ DemoWhole'
<1>1. ASSUME NEW n, n # suffix PROVE SameOf(ord(n)) /\ SameOf(pay(n))
  BY <1>1, Ids DEF OthersSame
<1>2. ASSUME NEW n \in Numbers \ drawn PROVE Fresh(n)'
  <2>1. n # suffix /\ Fresh(n) BY DEF Drawing
  <2> QED BY <2>1, <1>1, SameStory
<1>3. ASSUME NEW n \in Numbers \ {Demo}, ord(n) \in DOMAIN rows', n # suffix
      PROVE  Ended(n)'
  <2>1. SameOf(ord(n)) /\ SameOf(pay(n)) BY <1>1, <1>3
  <2>2. ord(n) \in DOMAIN rows /\ rows'[ord(n)] = rows[ord(n)] BY <2>1, <1>3 DEF SameOf
  <2>3. Ended(n) BY <2>2, <1>3 DEF Past
  <2>4. Story(n, 0..4, TRUE, {0, 1})' <=> Story(n, 0..4, TRUE, {0, 1}) BY <2>1, SameStory
  <2>5. Failed(n)' <=> Failed(n) BY <2>1, SameStory
  <2> QED BY <2>2, <2>3, <2>4, <2>5 DEF Ended
<1>4. DemoWhole'
  <2>1. SameOf(ord(Demo)) BY <1>1
  <2> QED BY <2>1 DEF SameOf, DemoWhole
<1> QED
  BY <1>2, <1>3, <1>4

\* One more step of the workflow that is run.
LEMMA StoryStep ==
  ASSUME engine = "pglite", NEW o, o.wf = ord(suffix), o.status = "SUCCESS", NEW f, o.fid = f,
         Recording({o}), UNCHANGED <<rows, suffix>>,
         NEW done, NEW kids, NEW paid \in BOOLEAN, Story(suffix, done, paid, kids)
  PROVE  Story(suffix, done \cup {f}, paid, kids)'
<1>1. ops' = ops \cup {o}
  BY DEF Recording
<1>2. StepsRecorded(ord(suffix))' = StepsRecorded(ord(suffix)) \cup {[fid |-> f, status |-> "SUCCESS"]}
  <2>1. StepsRecorded(ord(suffix))' = {[fid |-> p.fid, status |-> p.status] : p \in {q \in ops' : q.wf = ord(suffix)}}
    BY DEF StepsRecorded
  <2> QED BY <1>1, <2>1 DEF StepsRecorded
<1>3. {p \in ops' : p.wf = pay(suffix)} = {p \in ops : p.wf = pay(suffix)}
  BY <1>1, Ids
<1>4. StepsRecorded(pay(suffix))' = StepsRecorded(pay(suffix))
  BY <1>3 DEF StepsRecorded
<1> QED
  BY <1>2, <1>4, SucceededAdded DEF Story

\* A step of runWorkflow() moves the story of its workflow on, and leaves all
\* the others.
LEMMA RunTables ==
  ASSUME ControlTyped, TablesTyped, Opened, Drawing, Running, Past, DemoWhole, RunStep
  PROVE  Opened' /\ Drawing' /\ Running' /\ Past' /\ DemoWhole'
<1>0. at # "idle" /\ suffix # Demo /\ suffix \in drawn /\ suffix \in Numbers
  BY DEF RunStep, InsertWorkflow, StepDone, StepFailed, Finished, InsertChild, LinkChild, ChildSteps,
         RunThrows, Drawing, ControlTyped
<1>1. UNCHANGED <<engine, loading, tables, suffix, drawn, early, injectFailure>> /\ broken \subseteq broken'
  BY DEF RunStep, InsertWorkflow, StepDone, StepFailed, Finished, InsertChild, LinkChild, ChildSteps,
         RunThrows, Goto
<1>2. Answers' <=> Answers
  BY <1>1 DEF Answers
<1>3. Answers \/ RunThrows
  BY DEF RunStep, InsertWorkflow, StepDone, StepFailed, Finished, InsertChild, LinkChild, ChildSteps
<1>4. OthersSame
  <2>1. CASE InsertWorkflow BY <2>1, InsertedOthers DEF InsertWorkflow
  <2>2. ASSUME NEW pc, NEW f, NEW next, StepDone(pc, f, next) PROVE OthersSame
    <3>1. \A o \in {Op(ord(suffix), f, "SUCCESS")} : o.wf \in {ord(suffix), pay(suffix)} BY DEF Op
    <3> QED BY <3>1, <2>2, RecordingOthers DEF StepDone
  <2>3. CASE StepFailed
    <3>1. \A o \in {Op(ord(suffix), 1, "ERROR")} : o.wf \in {ord(suffix), pay(suffix)} BY DEF Op
    <3> QED BY <3>1, <2>3, RecordingOthers DEF StepFailed
  <2>4. ASSUME NEW pc, NEW status, Finished(pc, status) PROVE OthersSame
    BY <2>4, UpdatedOthers DEF Finished
  <2>5. CASE InsertChild BY <2>5, InsertedOthers DEF InsertChild
  <2>6. CASE LinkChild
    <3>1. \A o \in {ChildOp(ord(suffix), 2, pay(suffix))} : o.wf \in {ord(suffix), pay(suffix)} BY DEF ChildOp
    <3> QED BY <3>1, <2>6, RecordingOthers DEF LinkChild
  <2>7. CASE ChildSteps
    <3>1. \A o \in {Op(pay(suffix), f, "SUCCESS") : f \in {0, 1}} : o.wf \in {ord(suffix), pay(suffix)} BY DEF Op
    <3> QED BY <3>1, <2>7, RecordingOthers DEF ChildSteps
  <2>8. CASE RunThrows BY <2>8 DEF RunThrows, OthersSame, SameOf
  <2> QED BY <2>1, <2>2, <2>3, <2>4, <2>5, <2>6, <2>7, <2>8 DEF RunStep
<1>5. /\ \A n \in Numbers \ drawn : Fresh(n)'
      /\ \A n \in Numbers \ {Demo} : ord(n) \in DOMAIN rows' /\ n # suffix => Ended(n)'
      /\ DemoWhole'
  BY <1>0, <1>1, <1>4, OthersKept
<1>6. ASSUME engine = "fallback" \/ ~tables PROVE rows' = rows /\ ops' = ops
  <2>1. rows = NoRows /\ DOMAIN rows = {} /\ ops = {} BY <1>6, NoRowsTyped DEF Opened
  <2>2. CASE RunThrows BY <2>2 DEF RunThrows
  <2>3. CASE Answers
    <3>1. engine = "fallback" BY <2>3, <1>6 DEF Answers
    <3> QED BY <2>1, <3>1 DEF RunStep, InsertWorkflow, StepDone, StepFailed, Finished, InsertChild, LinkChild,
              ChildSteps, RunThrows, Inserted, Updated, Recording
  <2> QED BY <1>3, <2>2, <2>3
<1>7. Opened'
  BY <1>1, <1>2, <1>6 DEF Opened
<1>8. at' # "insert" /\ (at' = "idle" \/ Answers)
  BY <1>3 DEF RunStep, InsertWorkflow, StepDone, StepFailed, Finished, InsertChild, LinkChild, ChildSteps,
         RunThrows, Goto
<1>9. Drawing'
  BY <1>0, <1>1, <1>2, <1>5, <1>8 DEF Drawing
<1>10. Running'
  <2> SUFFICES ASSUME at' # "idle", ord(suffix) \in DOMAIN rows' PROVE Running'
    BY <1>1, <1>8 DEF Running
  <2>0. Answers /\ suffix' = suffix BY <1>1, <1>8
  <2>1. engine = "pglite"
    <3>1. CASE engine = "fallback" \/ ~tables BY <3>1, <1>6, NoRowsTyped DEF Opened
    <3> QED BY <3>1, <2>0 DEF Answers
  <2>2. CASE InsertWorkflow
    <3>1. rows' = [v \in DOMAIN rows \cup {ord(suffix)} |-> IF v = ord(suffix) THEN "PENDING" ELSE rows[v]]
          /\ ops' = ops /\ at = "insert" /\ at' = "validateCart"
      BY <2>1, <2>2 DEF InsertWorkflow, Inserted, Goto
    <3>2. Fresh(suffix) BY <3>1 DEF Drawing
    <3>3. rows'[ord(suffix)] = "PENDING" /\ pay(suffix) \notin DOMAIN rows'
      BY <3>1, <3>2, Ids DEF Fresh
    <3>4. StepsRecorded(ord(suffix))' = {} /\ StepsRecorded(pay(suffix))' = {}
      BY <2>0, <3>1, <3>2 DEF Fresh, StepsRecorded
    <3>5. Story(suffix, {}, FALSE, {})' BY <2>0, <3>3, <3>4, SucceededNone DEF Story
    <3> QED BY <2>0, <3>1, <3>3, <3>5 DEF Running
  <2>3. CASE StepDone("validateCart", 0, "reserveInventory")
    <3> DEFINE o == Op(ord(suffix), 0, "SUCCESS")
    <3>1. at = "validateCart" /\ at' = "reserveInventory" /\ rows' = rows /\ Recording({o})
      BY <2>3 DEF StepDone, Goto
    <3>2. o.wf = ord(suffix) /\ o.status = "SUCCESS" /\ o.fid = 0 BY DEF Op
    <3> HIDE DEF o
    <3>3. rows[ord(suffix)] = "PENDING" /\ Story(suffix, {}, FALSE, {}) BY <3>1 DEF Running
    <3>4. Story(suffix, {} \cup {0}, FALSE, {})' BY <2>0, <2>1, <3>1, <3>2, <3>3, StoryStep
    <3>5. {} \cup {0} = {0} OBVIOUS
    <3>6. Story(suffix, {0}, FALSE, {})' BY <3>4, <3>5
    <3> QED BY <2>0, <3>1, <3>3, <3>6 DEF Running
  <2>4. CASE StepDone("reserveInventory", 1, "authorizePayment")
    <3> DEFINE o == Op(ord(suffix), 1, "SUCCESS")
    <3>1. at = "reserveInventory" /\ at' = "authorizePayment" /\ rows' = rows /\ Recording({o})
      BY <2>4 DEF StepDone, Goto
    <3>2. o.wf = ord(suffix) /\ o.status = "SUCCESS" /\ o.fid = 1 BY DEF Op
    <3> HIDE DEF o
    <3>3. rows[ord(suffix)] = "PENDING" /\ Story(suffix, {0}, FALSE, {}) BY <3>1 DEF Running
    <3>4. Story(suffix, {0} \cup {1}, FALSE, {})' BY <2>0, <2>1, <3>1, <3>2, <3>3, StoryStep
    <3>5. {0} \cup {1} = {0, 1} OBVIOUS
    <3>6. Story(suffix, {0, 1}, FALSE, {})' BY <3>4, <3>5
    <3> QED BY <2>0, <3>1, <3>3, <3>6 DEF Running
  <2>5. CASE StepDone("scheduleShipping", 3, "sendReceiptNotification")
    <3> DEFINE o == Op(ord(suffix), 3, "SUCCESS")
    <3>1. at = "scheduleShipping" /\ at' = "sendReceiptNotification" /\ rows' = rows /\ Recording({o})
      BY <2>5 DEF StepDone, Goto
    <3>2. o.wf = ord(suffix) /\ o.status = "SUCCESS" /\ o.fid = 3 BY DEF Op
    <3> HIDE DEF o
    <3>3. rows[ord(suffix)] = "PENDING" /\ Story(suffix, {0, 1, 2}, TRUE, {0, 1}) BY <3>1 DEF Running
    <3>4. Story(suffix, {0, 1, 2} \cup {3}, TRUE, {0, 1})' BY <2>0, <2>1, <3>1, <3>2, <3>3, StoryStep
    <3>5. {0, 1, 2} \cup {3} = {0, 1, 2, 3} OBVIOUS
    <3>6. Story(suffix, {0, 1, 2, 3}, TRUE, {0, 1})' BY <3>4, <3>5
    <3> QED BY <2>0, <3>1, <3>3, <3>6 DEF Running
  <2>6. CASE StepDone("sendReceiptNotification", 4, "complete")
    <3> DEFINE o == Op(ord(suffix), 4, "SUCCESS")
    <3>1. at = "sendReceiptNotification" /\ at' = "complete" /\ rows' = rows /\ Recording({o})
      BY <2>6 DEF StepDone, Goto
    <3>2. o.wf = ord(suffix) /\ o.status = "SUCCESS" /\ o.fid = 4 BY DEF Op
    <3> HIDE DEF o
    <3>3. rows[ord(suffix)] = "PENDING" /\ Story(suffix, {0, 1, 2, 3}, TRUE, {0, 1}) BY <3>1 DEF Running
    <3>4. Story(suffix, {0, 1, 2, 3} \cup {4}, TRUE, {0, 1})' BY <2>0, <2>1, <3>1, <3>2, <3>3, StoryStep
    <3>5. {0, 1, 2, 3} \cup {4} = 0..4 OBVIOUS
    <3>6. Story(suffix, 0..4, TRUE, {0, 1})' BY <3>4, <3>5
    <3> QED BY <2>0, <3>1, <3>3, <3>6 DEF Running
  <2>7. CASE StepFailed
    <3> DEFINE o == Op(ord(suffix), 1, "ERROR")
    <3>1. at = "reserveInventory" /\ at' = "failed" /\ rows' = rows /\ ops' = ops \cup {o}
      BY <2>1, <2>7 DEF StepFailed, Goto, Recording
    <3>2. o.wf = ord(suffix) /\ o.status = "ERROR" /\ o.fid = 1 BY DEF Op
    <3> HIDE DEF o
    <3>3. rows[ord(suffix)] = "PENDING" /\ Story(suffix, {0}, FALSE, {}) BY <3>1 DEF Running
    <3>4. StepsRecorded(ord(suffix))' = StepsRecorded(ord(suffix)) \cup {[fid |-> 1, status |-> "ERROR"]}
      BY <2>0, <3>1, <3>2 DEF StepsRecorded
    <3>5. Failed(suffix)' BY <2>0, <3>1, <3>3, <3>4 DEF Failed, Story
    <3> QED BY <2>0, <3>1, <3>3, <3>5 DEF Running
  <2>8. CASE InsertChild
    <3>1. rows' = [v \in DOMAIN rows \cup {pay(suffix)} |-> IF v = pay(suffix) THEN "SUCCESS" ELSE rows[v]]
          /\ ops' = ops /\ at = "authorizePayment" /\ at' = "linkChild"
      BY <2>1, <2>8 DEF InsertChild, Inserted, Goto
    <3>2. ord(suffix) \in DOMAIN rows /\ rows'[ord(suffix)] = rows[ord(suffix)] /\ pay(suffix) \in DOMAIN rows'
      BY <3>1, Ids
    <3>3. rows[ord(suffix)] = "PENDING" /\ Story(suffix, {0, 1}, FALSE, {}) BY <3>1, <3>2 DEF Running
    <3>4. StepsRecorded(ord(suffix))' = StepsRecorded(ord(suffix)) /\ StepsRecorded(pay(suffix))' = StepsRecorded(pay(suffix))
      BY <2>0, <3>1 DEF StepsRecorded
    <3>5. Story(suffix, {0, 1}, TRUE, {})' BY <2>0, <3>2, <3>3, <3>4 DEF Story
    <3> QED BY <2>0, <3>1, <3>2, <3>3, <3>5 DEF Running
  <2>9. CASE LinkChild
    <3> DEFINE o == ChildOp(ord(suffix), 2, pay(suffix))
    <3>1. at = "linkChild" /\ at' = "childSteps" /\ rows' = rows /\ Recording({o})
      BY <2>9 DEF LinkChild, Goto
    <3>2. o.wf = ord(suffix) /\ o.status = "SUCCESS" /\ o.fid = 2 BY DEF ChildOp
    <3> HIDE DEF o
    <3>3. rows[ord(suffix)] = "PENDING" /\ Story(suffix, {0, 1}, TRUE, {}) BY <3>1 DEF Running
    <3>4. Story(suffix, {0, 1} \cup {2}, TRUE, {})' BY <2>0, <2>1, <3>1, <3>2, <3>3, StoryStep
    <3>5. {0, 1} \cup {2} = {0, 1, 2} OBVIOUS
    <3>6. Story(suffix, {0, 1, 2}, TRUE, {})' BY <3>4, <3>5
    <3> QED BY <2>0, <3>1, <3>3, <3>6 DEF Running
  <2>10. CASE ChildSteps
    <3> DEFINE S == {Op(pay(suffix), f, "SUCCESS") : f \in {0, 1}}
    <3>1. at = "childSteps" /\ at' = "scheduleShipping" /\ rows' = rows /\ ops' = ops \cup S
      BY <2>1, <2>10 DEF ChildSteps, Goto, Recording
    <3>2. \A o \in S : o.wf = pay(suffix) BY DEF Op
    <3>3. {[fid |-> o.fid, status |-> o.status] : o \in S} = Succeeded({0, 1})
      <4>1. \A f \in {0, 1} : Op(pay(suffix), f, "SUCCESS").fid = f /\ Op(pay(suffix), f, "SUCCESS").status = "SUCCESS"
        BY DEF Op
      <4>2. \A o \in S : o.fid \in {0, 1} /\ o.status = "SUCCESS" BY <4>1
      <4>3. \A f \in {0, 1} : \E o \in S : o.fid = f /\ o.status = "SUCCESS" BY <4>1
      <4> HIDE DEF S
      <4> QED BY <4>2, <4>3 DEF Succeeded
    <3> HIDE DEF S
    <3>4. rows[ord(suffix)] = "PENDING" /\ Story(suffix, {0, 1, 2}, TRUE, {}) BY <3>1 DEF Running
    <3>5. {p \in ops' : p.wf = ord(suffix)} = {p \in ops : p.wf = ord(suffix)} BY <3>1, <3>2, Ids
    <3>6. StepsRecorded(ord(suffix))' = StepsRecorded(ord(suffix)) BY <2>0, <3>5 DEF StepsRecorded
    <3>7. StepsRecorded(pay(suffix))' = StepsRecorded(pay(suffix)) \cup {[fid |-> o.fid, status |-> o.status] : o \in S}
      BY <2>0, <3>1, <3>2 DEF StepsRecorded
    <3>8. StepsRecorded(pay(suffix))' = Succeeded({0, 1})
      BY <3>3, <3>4, <3>7, SucceededNone DEF Story
    <3>9. Story(suffix, {0, 1, 2}, TRUE, {0, 1})' BY <2>0, <3>1, <3>4, <3>6, <3>8 DEF Story
    <3> QED BY <2>0, <3>1, <3>4, <3>9 DEF Running
  <2> QED
    BY <2>2, <2>3, <2>4, <2>5, <2>6, <2>7, <2>8, <2>9, <2>10 DEF RunStep, Finished, RunThrows, Goto
<1>11. Past'
  <2>1. ASSUME at' = "idle", ord(suffix) \in DOMAIN rows'
        PROVE  Ended(suffix)'
    <3>1. CASE RunThrows
      <4>1. rows' = rows /\ at # "insert" BY <2>1, <3>1 DEF RunThrows, Drawing, Fresh
      <4>2. Answers /\ suffix \in broken' BY <1>0, <3>1, <4>1 DEF RunThrows, Drawing
      <4>3. rows[ord(suffix)] = "PENDING" BY <1>0, <2>1, <4>1 DEF Running
      <4> QED BY <1>1, <4>1, <4>2, <4>3 DEF Ended
    <3>2. ASSUME NEW pc, NEW status, Finished(pc, status)
          PROVE /\ ord(suffix) \in DOMAIN rows /\ rows'[ord(suffix)] = status /\ SameOf(pay(suffix))
                /\ StepsRecorded(ord(suffix))' = StepsRecorded(ord(suffix)) /\ ops' = ops
      BY <1>1, <2>1, <3>2, Ids DEF Finished, Updated, SameOf, StepsRecorded
    <3>3. CASE Finished("complete", "SUCCESS")
      <4>1. at = "complete" BY <3>3 DEF Finished
      <4>2. Story(suffix, 0..4, TRUE, {0, 1}) BY <3>2, <3>3, <4>1 DEF Running
      <4>3. Story(suffix, 0..4, TRUE, {0, 1})' BY <1>1, <3>2, <3>3, <4>2 DEF Story, SameOf, StepsRecorded
      <4> QED BY <1>1, <3>2, <3>3, <4>3 DEF Ended
    <3>4. CASE Finished("failed", "ERROR")
      <4>1. at = "failed" BY <3>4 DEF Finished
      <4>2. Failed(suffix) BY <3>2, <3>4, <4>1 DEF Running
      <4>3. Failed(suffix)' BY <1>1, <3>2, <3>4, <4>2 DEF Failed, SameOf
      <4> QED BY <1>1, <3>2, <3>4, <4>3 DEF Ended
    <3> QED BY <2>1, <3>1, <3>3, <3>4 DEF RunStep, InsertWorkflow, StepDone, StepFailed, InsertChild, LinkChild,
              ChildSteps, Goto
  <2> QED BY <1>1, <1>5, <2>1 DEF Past
<1> QED
  BY <1>5, <1>7, <1>9, <1>10, <1>11

\* When the tables are written anew, every run is forgotten.
LEMMA Wiped ==
  ASSUME ControlTyped, Drawing, UNCHANGED <<at, suffix, drawn, early>>,
         loading' \in {loading, "done"}, Answers => Answers',
         \A n \in Numbers \ {Demo} : Fresh(n)'
  PROVE  Drawing' /\ Running' /\ Past'
<1>1. \A n \in Numbers \ {Demo} : ord(n) \notin DOMAIN rows'
  BY DEF Fresh
<1>2. Past'
  BY <1>1 DEF Past
<1>3. Running'
  <2>1. at' \notin {"idle", "insert"} => suffix' \in Numbers \ {Demo} BY DEF Drawing, ControlTyped
  <2> QED BY <1>1, <2>1 DEF Running
<1>4. Drawing'
  <2>1. at' = "insert" => Fresh(suffix)' BY DEF Drawing, ControlTyped
  <2>2. \A n \in Numbers \ drawn' : Fresh(n)' BY DEF Drawing
  <2> QED BY <2>1, <2>2 DEF Drawing
<1> QED
  BY <1>2, <1>3, <1>4

LEMMA DemoFresh ==
  ASSUME rows' = DemoRows, ops' = DemoOps
  PROVE  (\A n \in Numbers \ {Demo} : Fresh(n)') /\ DemoWhole'
<1>1. \A o \in DemoOps : o.wf \in {ord(Demo), auth, ship}
  BY DEF DemoOps, Op, ChildOp
<1>2. ASSUME NEW n \in Numbers \ {Demo} PROVE Fresh(n)'
  <2>1. ord(n) \notin {ord(Demo), auth, ship} /\ pay(n) \notin {ord(Demo), auth, ship} BY Ids
  <2>2. {o \in ops' : o.wf = ord(n)} = {} /\ {o \in ops' : o.wf = pay(n)} = {} BY <1>1, <2>1
  <2>3. StepsRecorded(ord(n))' = {} /\ StepsRecorded(pay(n))' = {} BY <2>2 DEF StepsRecorded
  <2> QED BY <2>1, <2>3, DemoTypes DEF Fresh
<1>3. DemoWhole'
  BY DemoTypes DEF DemoWhole
<1> QED
  BY <1>2, <1>3

LEMMA EmptyFresh ==
  ASSUME rows' = NoRows, ops' = {}
  PROVE  (\A n \in Numbers \ {Demo} : Fresh(n)') /\ DemoWhole'
BY NoRowsTyped DEF Fresh, StepsRecorded, DemoWhole

\* A step that leaves the tables and the run.
LEMMA TablesSame ==
  ASSUME Opened, Drawing, Running, Past, DemoWhole, UNCHANGED <<database, at, suffix, drawn, early, broken>>
  PROVE  Opened' /\ Drawing' /\ Running' /\ Past' /\ DemoWhole'
<1>1. UNCHANGED <<engine, loading, tables, rows, ops>>
  BY DEF database
<1>2. \A w : SameOf(w)
  BY <1>1 DEF SameOf
<1>3. \A n : Fresh(n)' <=> Fresh(n)
  BY <1>2, SameStory
<1>4. Answers' <=> Answers
  BY <1>1 DEF Answers
<1>5. Opened' /\ Drawing' /\ DemoWhole'
  BY <1>1, <1>3, <1>4 DEF Opened, Drawing, DemoWhole
<1>6. \A w : StepsRecorded(w)' = StepsRecorded(w)
  BY <1>1 DEF StepsRecorded
<1>7. Running'
  BY <1>1, <1>6 DEF Running, Story, Failed
<1>8. Past'
  BY <1>1, <1>6 DEF Past, Ended, Story, Failed
<1> QED
  BY <1>5, <1>7, <1>8

\* Every step keeps what the tables say.
LEMMA TablesStep ==
  ASSUME ControlTyped, TablesTyped, Opened, Drawing, Running, Past, DemoWhole, [Next]_vars
  PROVE  Opened' /\ Drawing' /\ Running' /\ Past' /\ DemoWhole'
<1>1. CASE initFallbackEngine
  <2>1. rows' = NoRows /\ ops' = {} /\ engine' = "fallback" /\ loading' = "done" /\ Answers'
        /\ UNCHANGED <<at, suffix, drawn, early>>
    BY <1>1 DEF initFallbackEngine, Answers, run
  <2>2. (\A n \in Numbers \ {Demo} : Fresh(n)') /\ DemoWhole' BY <2>1, EmptyFresh
  <2>3. Opened' BY <2>1 DEF Opened
  <2> QED BY <2>1, <2>2, <2>3, Wiped
<1>2. CASE ImportPGlite
  <2>1. rows = NoRows /\ ops = {} /\ ~tables BY <1>2 DEF ImportPGlite, Opened
  <2>2. ~Answers BY <2>1, <1>2 DEF Answers, ImportPGlite, Opened
  <2>3. UNCHANGED <<rows, ops, tables, at, suffix, drawn, early>> /\ engine' = "pglite" /\ loading' = "schema"
        /\ loading = "import"
    BY <1>2 DEF ImportPGlite, run
  <2>4. Opened' BY <2>1, <2>3 DEF Opened
  <2>5. (\A n \in Numbers \ {Demo} : Fresh(n)') /\ DemoWhole' BY <2>1, <2>3, EmptyFresh
  <2>6. Past' /\ Running'
    <3>1. DOMAIN rows' = {} BY <2>1, <2>3, NoRowsTyped
    <3> QED BY <3>1 DEF Past, Running
  <2>7. Drawing'
    <3>1. at' = "insert" => Fresh(suffix)' BY <2>3, <2>5 DEF Drawing, ControlTyped
    <3>2. \A n \in Numbers \ drawn' : Fresh(n)' BY <2>3, <2>5 DEF Drawing
    <3> QED BY <2>2, <2>3, <3>1, <3>2 DEF Drawing
  <2> QED BY <2>4, <2>5, <2>6, <2>7
<1>3. CASE createSchema
  <2>1. rows = NoRows /\ ops = {} /\ engine = "pglite" /\ UNCHANGED <<engine, rows, ops, at, suffix, drawn, early>>
        /\ tables' = TRUE /\ loading = "schema" /\ loading' = "seed"
    <3>1. ~tables BY <1>3 DEF createSchema, Opened
    <3> QED BY <3>1, <1>3 DEF createSchema, Opened, run
  <2>2. Answers' BY <2>1 DEF Answers
  <2>3. Opened' BY <2>1 DEF Opened
  <2>5. (\A n \in Numbers \ {Demo} : Fresh(n)') /\ DemoWhole' BY <2>1, EmptyFresh
  <2>6. Past' /\ Running'
    <3>1. DOMAIN rows' = {} BY <2>1, NoRowsTyped
    <3> QED BY <3>1 DEF Past, Running
  <2>7. Drawing'
    <3>1. at' = "insert" => Fresh(suffix)' BY <2>1, <2>5 DEF Drawing, ControlTyped
    <3>2. \A n \in Numbers \ drawn' : Fresh(n)' BY <2>1, <2>5 DEF Drawing
    <3> QED BY <2>2, <2>1, <3>1, <3>2 DEF Drawing
  <2> QED BY <2>3, <2>5, <2>6, <2>7
<1>4. CASE seedInitialData
  <2>1. engine = "pglite" /\ tables /\ rows' = DemoRows /\ ops' = DemoOps /\ loading' = "done"
        /\ UNCHANGED <<engine, tables, at, suffix, drawn, early>>
    BY <1>4 DEF seedInitialData, Seeded, Opened, run
  <2>2. Answers' BY <2>1 DEF Answers
  <2>3. Opened' BY <2>1, <2>2 DEF Opened
  <2>4. (\A n \in Numbers \ {Demo} : Fresh(n)') /\ DemoWhole' BY <2>1, DemoFresh
  <2> QED BY <2>1, <2>2, <2>3, <2>4, Wiped
<1>5. CASE resetDatabase
  <2>1. Answers /\ UNCHANGED <<engine, loading, tables, at, suffix, drawn, early, broken>> /\ Seeded
    BY <1>5 DEF resetDatabase, run
  <2>2. CASE engine = "pglite"
    <3>1. tables /\ rows' = DemoRows /\ ops' = DemoOps BY <2>1, <2>2 DEF Seeded, Answers
    <3>2. Answers' BY <2>1 DEF Answers
    <3>3. Opened' BY <2>1, <2>2, <3>1, <3>2 DEF Opened
    <3>4. (\A n \in Numbers \ {Demo} : Fresh(n)') /\ DemoWhole' BY <3>1, DemoFresh
    <3> QED BY <2>1, <3>2, <3>3, <3>4, Wiped
  <2>3. CASE engine # "pglite" BY <2>1, <2>3, TablesSame DEF Seeded, database
  <2> QED BY <2>2, <2>3
<1>6. CASE ResetDone
  BY <1>6, TablesSame DEF ResetDone, run
<1>7. CASE toggleFailure
  BY <1>7, TablesSame DEF toggleFailure
<1>8. ASSUME NEW n \in Numbers, runWorkflow(n) PROVE Opened' /\ Drawing' /\ Running' /\ Past' /\ DemoWhole'
  <2>1. UNCHANGED <<engine, loading, tables, rows, ops>> /\ at = "idle" /\ at' = "insert" /\ suffix' = n
        /\ n \notin drawn /\ drawn' = drawn \cup {n}
        /\ early' = early \cup (IF loading = "done" THEN {} ELSE {n}) /\ broken' = broken
    BY <1>8 DEF runWorkflow, database
  <2>2. \A m : SameOf(m) BY <2>1 DEF SameOf
  <2>3. \A m : (Fresh(m)' <=> Fresh(m)) /\ (Failed(m)' <=> Failed(m))
        /\ (Story(m, 0..4, TRUE, {0, 1})' <=> Story(m, 0..4, TRUE, {0, 1})) BY <2>2, SameStory
  <2>4. Answers' <=> Answers BY <2>1 DEF Answers
  <2>5. Opened' /\ DemoWhole' BY <2>1, <2>4 DEF Opened, DemoWhole
  <2>6. Drawing'
    <3>1. Fresh(suffix)' BY <2>1, <2>3 DEF Drawing
    <3>2. suffix' # Demo BY <2>1 DEF Drawing
    <3>3. loading' # "done" => drawn' \subseteq early' \cup {Demo} BY <2>1 DEF Drawing
    <3> QED BY <2>1, <2>3, <3>1, <3>2, <3>3 DEF Drawing
  <2>7. Running' BY <2>1 DEF Running
  <2>8. Past' BY <2>1, <2>3 DEF Past, Ended
  <2> QED BY <2>5, <2>6, <2>7, <2>8
<1>9. CASE RunStep /\ UNCHANGED <<directory, resets, clicks>>
  BY <1>9, RunTables
<1>10. CASE Render
  BY <1>10, TablesSame DEF Render, run
<1>11. CASE Click /\ BridgeNext /\ UNCHANGED <<database, run, resets, console>>
  BY <1>11, TablesSame DEF run
<1>12. CASE UNCHANGED vars
  BY <1>12, TablesSame DEF vars, run
<1> QED
  BY <1>1, <1>2, <1>3, <1>4, <1>5, <1>6, <1>7, <1>8, <1>9, <1>10, <1>11, <1>12 DEF Next

-----------------------------------------------------------------------------
(***************************************************************************)
(* What the console shows.                                                 *)
(***************************************************************************)
LEMMA ViewSame ==
  ASSUME hash' = hash,
         hash # Fleet => /\ hash \in DOMAIN rows' <=> hash \in DOMAIN rows
                         /\ hash \in DOMAIN rows => rows'[hash] = rows[hash]
  PROVE  View(hash)' = View(hash)
BY DEF View, Workflow

\* A step that leaves the rows and the console.
LEMMA ViewingSame ==
  ASSUME Viewing, NoDanglingView, UNCHANGED <<rows, hash, renders, shown, engine>>,
         resets' = resets, drawn \subseteq drawn', early \subseteq early'
  PROVE  Viewing' /\ NoDanglingView'
<1>1. View(hash)' = View(hash)
  BY ViewSame
<1> QED
  BY <1>1 DEF Viewing, NoDanglingView

\* A step of runWorkflow().
LEMMA RunViewing ==
  ASSUME ControlTyped, Opened, Drawing, Viewing, NoDanglingView, RunStep, UNCHANGED <<resets, clicks>>
  PROVE  Viewing' /\ NoDanglingView'
<1>0. at # "idle" /\ suffix # Demo /\ suffix \in drawn /\ renders \in Nat
  BY DEF RunStep, InsertWorkflow, StepDone, StepFailed, Finished, InsertChild, LinkChild, ChildSteps,
         RunThrows, Drawing, ControlTyped
<1>1. UNCHANGED <<engine, loading, tables, suffix, drawn, early>>
  BY DEF RunStep, InsertWorkflow, StepDone, StepFailed, Finished, InsertChild, LinkChild, ChildSteps,
         RunThrows, Goto
<1>2. CASE InsertWorkflow
  <2>1. hash' = ord(suffix) /\ renders' # 0 BY <1>0, <1>2 DEF InsertWorkflow
  <2>2. engine = "pglite" => ord(suffix) \in DOMAIN rows' BY <1>2 DEF InsertWorkflow, Inserted
  <2> QED BY <1>0, <1>1, <2>1, <2>2 DEF Viewing, NoDanglingView
<1>3. ASSUME NEW pc, NEW status, Finished(pc, status) PROVE Viewing' /\ NoDanglingView'
  <2>1. hash' = hash /\ renders' # 0 /\ DOMAIN rows' = DOMAIN rows BY <1>0, <1>3 DEF Finished, Updated
  <2> QED BY <1>1, <2>1 DEF Viewing, NoDanglingView
<1>4. CASE InsertChild
  <2>1. UNCHANGED <<hash, renders, shown>> BY <1>4 DEF InsertChild, console
  <2>2. hash # pay(suffix) BY Ids DEF Viewing
  <2>3. /\ hash \in DOMAIN rows' <=> hash \in DOMAIN rows
        /\ hash \in DOMAIN rows => rows'[hash] = rows[hash]
    BY <1>4, <2>2 DEF InsertChild, Inserted
  <2>4. View(hash)' = View(hash) BY <2>1, <2>3, ViewSame
  <2> QED BY <1>1, <2>1, <2>3, <2>4 DEF Viewing, NoDanglingView
<1>5. CASE UNCHANGED <<rows, console>>
  BY <1>1, <1>5, ViewingSame DEF console
<1> QED
  BY <1>2, <1>3, <1>4, <1>5 DEF RunStep, StepDone, StepFailed, LinkChild, ChildSteps, RunThrows

\* Every step keeps the console where it can see something, or tells it.
LEMMA ViewingStep ==
  ASSUME ControlTyped, Opened, Drawing, Viewing, NoDanglingView, [Next]_vars
  PROVE  Viewing' /\ NoDanglingView'
<1>0. renders \in Nat /\ renders + 1 # 0 /\ resets \in Nat /\ resets + 1 > 0
  BY DEF ControlTyped
<1>1. loading # "done" => hash = Fleet \/ \E n \in early : hash = ord(n)
  BY DEF Drawing, Viewing
<1>2. CASE initFallbackEngine
  BY <1>0, <1>2 DEF initFallbackEngine, Viewing, NoDanglingView, run
<1>3. CASE ImportPGlite
  <2>1. UNCHANGED <<rows, hash, renders, shown, drawn, early>> /\ loading = "import"
    BY <1>3 DEF ImportPGlite, run, console
  <2>2. View(hash)' = View(hash) BY <2>1, ViewSame
  <2> QED BY <1>1, <2>1, <2>2 DEF Viewing, NoDanglingView
<1>4. CASE createSchema
  BY <1>4, ViewingSame DEF createSchema, run, console
<1>5. CASE seedInitialData
  BY <1>0, <1>1, <1>5 DEF seedInitialData, Viewing, NoDanglingView, run
<1>6. CASE resetDatabase
  BY <1>0, <1>6 DEF resetDatabase, Viewing, NoDanglingView, run
<1>7. CASE ResetDone
  <2>1. hash' = Fleet /\ UNCHANGED <<rows, shown, drawn>> BY <1>7 DEF ResetDone, Located, database, run
  <2>2. CASE hash = Fleet
    <3>1. renders' = renders BY <1>0, <1>7, <2>2 DEF ResetDone, Located
    <3>2. View(hash)' = View(hash) BY <2>1, <2>2, ViewSame
    <3> QED BY <2>1, <2>2, <3>1, <3>2 DEF Viewing, NoDanglingView
  <2>3. CASE hash # Fleet
    <3>1. renders' # 0 BY <1>0, <1>7, <2>3 DEF ResetDone, Located
    <3> QED BY <2>1, <3>1 DEF Viewing, NoDanglingView
  <2> QED BY <2>2, <2>3
<1>8. CASE toggleFailure
  BY <1>8, ViewingSame DEF toggleFailure, database, console
<1>9. ASSUME NEW n \in Numbers, runWorkflow(n) PROVE Viewing' /\ NoDanglingView'
  BY <1>9, ViewingSame DEF runWorkflow, database, console
<1>10. CASE RunStep /\ UNCHANGED <<directory, resets, clicks>>
  BY <1>10, RunViewing
<1>11. CASE Render
  <2>1. shown' = View(hash) /\ UNCHANGED <<rows, hash, drawn, early, engine, resets>>
    BY <1>11 DEF Render, database, run
  <2>2. View(hash)' = View(hash) BY <2>1, ViewSame
  <2> QED BY <2>1, <2>2 DEF Viewing, NoDanglingView
<1>12. CASE Click /\ BridgeNext /\ UNCHANGED <<database, run, resets, console>>
  BY <1>12, ViewingSame DEF database, run, console
<1>13. CASE UNCHANGED vars
  BY <1>13, ViewingSame DEF vars, database, run, console
<1> QED
  BY <1>2, <1>3, <1>4, <1>5, <1>6, <1>7, <1>8, <1>9, <1>10, <1>11, <1>12, <1>13 DEF Next

-----------------------------------------------------------------------------
(***************************************************************************)
(* The invariant and the theorems.                                         *)
(***************************************************************************)
LEMMA InitPage == Init => PageInv
<1> SUFFICES ASSUME Init PROVE PageInv
  OBVIOUS
<1>1. BridgeTypeOK /\ AuditReplays
  BY BridgeInitial DEF Init
<1>2. ControlTyped
  <2>1. resets \in Nat /\ clicks \in Nat /\ resets + clicks <= MaxClicks /\ renders \in Nat
    BY PlaygroundAssumption DEF Init
  <2>2. shown \in [of : Workflows \cup {Fleet}, status : {"none", "404", "PENDING", "SUCCESS", "ERROR"}]
    BY DEF Init
  <2>3. suffix \in Numbers /\ drawn \subseteq Numbers /\ early \subseteq drawn /\ broken \subseteq Numbers
    BY PlaygroundAssumption DEF Init
  <2> QED BY <2>1, <2>2, <2>3 DEF Init, ControlTyped, Places
<1>3. TablesTyped
  BY NoRowsTyped DEF Init, TablesTyped
<1>4. Opened
  BY DEF Init, Opened
<1>5. Drawing
  BY NoRowsTyped DEF Init, Drawing, Fresh, StepsRecorded
<1>6. Running /\ Past /\ DemoWhole
  BY NoRowsTyped DEF Init, Running, Past, DemoWhole
<1>7. Viewing /\ NoDanglingView
  BY DEF Init, Viewing, View, NoDanglingView
<1> QED
  BY <1>1, <1>2, <1>3, <1>4, <1>5, <1>6, <1>7, TypeParts DEF PageInv

LEMMA NextPage == PageInv /\ [Next]_vars => PageInv'
<1> SUFFICES ASSUME PageInv, [Next]_vars PROVE PageInv'
  OBVIOUS
<1>1. BridgeTypeOK /\ AuditReplays /\ ControlTyped /\ TablesTyped
  BY TypeParts DEF PageInv
<1>2. BridgeTypeOK' /\ AuditReplays' /\ ControlTyped' /\ TablesTyped'
  BY <1>1, TypeStep
<1>3. Opened' /\ Drawing' /\ Running' /\ Past' /\ DemoWhole'
  BY <1>1, TablesStep DEF PageInv
<1>4. Viewing' /\ NoDanglingView'
  BY <1>1, ViewingStep DEF PageInv
<1>5. (PlaygroundTypeOK /\ resets + clicks <= MaxClicks)'
  BY <1>2, TypeParts
<1> QED
  BY <1>2, <1>3, <1>4, <1>5 DEF PageInv

LEMMA PageInvariant == Spec => []PageInv
BY InitPage, NextPage, PTL DEF Spec

\* Every variable of the page and of the bridge's directory keeps its values; the
\* built-in roles are never deleted, and the resets that wait never exceed the
\* clicks made.
THEOREM PlaygroundTypes == Spec => []PlaygroundTypeOK
<1>1. PageInv => PlaygroundTypeOK
  BY DEF PageInv
<1> QED
  BY <1>1, PageInvariant, PTL

\* The audit log accounts for the directory (relay-bridge.js): which tokens, roles,
\* members and policy exist can be told from the log, for any sequence of requests,
\* also when a name is given to several tokens or revoked and given again.
THEOREM LogAccountsForDirectory == Spec => []AuditReplays
<1>1. PageInv => AuditReplays
  BY DEF PageInv
<1> QED
  BY <1>1, PageInvariant, PTL

\* Whenever the tables are read, what they say of a workflow is one story:
\* runWorkflow() of playground.js, whatever resets, failures of the database and
\* armed failures fall between its statements.
THEOREM RunsAreWhole == Spec => []RunsWhole
<1>1. ASSUME PageInv PROVE RunsWhole
  <2> SUFFICES ASSUME NEW n \in Numbers \ {Demo}, ord(n) \in DOMAIN rows
        PROVE  CASE rows[ord(n)] = "SUCCESS" ->
                      /\ StepsRecorded(ord(n)) = Succeeded(0..4)
                      /\ pay(n) \in DOMAIN rows /\ StepsRecorded(pay(n)) = Succeeded({0, 1})
                 [] rows[ord(n)] = "ERROR" ->
                      /\ StepsRecorded(ord(n)) = Succeeded({0}) \cup {[fid |-> 1, status |-> "ERROR"]}
                      /\ pay(n) \notin DOMAIN rows
                 [] OTHER -> n \in broken \/ (at # "idle" /\ suffix = n)
    BY DEF RunsWhole
  <2>1. CASE at = "idle" \/ n # suffix
    <3>1. Ended(n) BY <1>1, <2>1 DEF PageInv, Past
    <3> QED BY <3>1 DEF Ended, Story, Failed
  <2>2. CASE at # "idle" /\ n = suffix
    <3>1. at # "insert" BY <1>1, <2>2 DEF PageInv, Drawing, Fresh
    <3>2. rows[ord(n)] = "PENDING" BY <1>1, <2>2, <3>1 DEF PageInv, Running
    <3> QED BY <2>2, <3>2
  <2> QED BY <2>1, <2>2
<1> QED
  BY <1>1, PageInvariant, PTL

\* The console is not left at a workflow that resetDatabase() has deleted.
THEOREM ViewNotDangling == Spec => []NoDanglingView
<1>1. PageInv => NoDanglingView
  BY DEF PageInv
<1> QED
  BY <1>1, PageInvariant, PTL

\* Once its messages are handled the console shows what the database holds: every
\* statement that changes what is on its screen is followed by a message.
THEOREM ConsoleFollows == Spec => []ConsoleCatchesUp
<1>1. PageInv => ConsoleCatchesUp
  BY DEF PageInv, Viewing, ConsoleCatchesUp
<1> QED
  BY <1>1, PageInvariant, PTL

\* The five steps of the demo workflow.
LEMMA FiveSteps ==
  LET D == {o \in DemoOps : o.wf = ord(Demo)} IN D # {} /\ Cardinality(D) = 5
<1> DEFINE D == {o \in DemoOps : o.wf = ord(Demo)}
           a == Op(ord(Demo), 1, "SUCCESS")
           b == Op(ord(Demo), 2, "SUCCESS")
           c == Op(ord(Demo), 5, "SUCCESS")
           d == ChildOp(ord(Demo), 3, auth)
           e == ChildOp(ord(Demo), 4, ship)
<1>1. \A w \in {auth, ship} : \A f \in {1, 2} : Op(w, f, "SUCCESS").wf # ord(Demo)
  BY Ids DEF Op
<1>2. a.wf = ord(Demo) /\ b.wf = ord(Demo) /\ c.wf = ord(Demo) /\ d.wf = ord(Demo) /\ e.wf = ord(Demo)
  BY DEF Op, ChildOp
<1>3. a.fid = 1 /\ b.fid = 2 /\ c.fid = 5 /\ d.fid = 3 /\ e.fid = 4
  BY DEF Op, ChildOp
<1>4. DemoOps = {a, b, c} \cup {d, e} \cup {Op(w, f, "SUCCESS") : w \in {auth, ship}, f \in {1, 2}}
  BY DEF DemoOps
<1> HIDE DEF a, b, c, d, e
<1>5. D = {a, b, c, d, e}
  BY <1>1, <1>2, <1>4
<1>6. IsFiniteSet({}) /\ Cardinality({}) = 0
  BY FS_EmptySet
<1>7. IsFiniteSet({a}) /\ Cardinality({a}) = 1
  BY FS_Singleton
<1>8. IsFiniteSet({a, b}) /\ Cardinality({a, b}) = 2
  <2>1. b \notin {a} /\ {a, b} = {a} \cup {b} BY <1>3
  <2> QED BY <1>7, <2>1, FS_AddElement
<1>9. IsFiniteSet({a, b, c}) /\ Cardinality({a, b, c}) = 3
  <2>1. c \notin {a, b} /\ {a, b, c} = {a, b} \cup {c} BY <1>3
  <2> QED BY <1>8, <2>1, FS_AddElement
<1>10. IsFiniteSet({a, b, c, d}) /\ Cardinality({a, b, c, d}) = 4
  <2>1. d \notin {a, b, c} /\ {a, b, c, d} = {a, b, c} \cup {d} BY <1>3
  <2> QED BY <1>9, <2>1, FS_AddElement
<1>11. Cardinality({a, b, c, d, e}) = 5
  <2>1. e \notin {a, b, c, d} /\ {a, b, c, d, e} = {a, b, c, d} \cup {e} BY <1>3
  <2> QED BY <1>10, <2>1, FS_AddElement
<1> QED
  BY <1>5, <1>11

\* The demo workflow is answered at any time, with its five steps: from the tables,
\* or, when they have nothing, from what the bridge has of its own.
THEOREM DemoIsAnswered == Spec => []DemoAnswered
<1>1. ASSUME PageInv PROVE DemoAnswered
  <2>1. Workflow(ord(Demo)) = "SUCCESS" BY <1>1 DEF PageInv, DemoWhole, Workflow
  <2>2. {o \in ops : o.wf = ord(Demo)} \in {{}, {o \in DemoOps : o.wf = ord(Demo)}}
    BY <1>1 DEF PageInv, DemoWhole
  <2>3. StepsOf(ord(Demo)) = 5 BY <2>2, FiveSteps DEF StepsOf
  <2> QED BY <2>1, <2>3 DEF DemoAnswered
<1> QED
  BY <1>1, PageInvariant, PTL

=============================================================================
