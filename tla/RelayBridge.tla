----------------------------- MODULE RelayBridge -----------------------------
(***************************************************************************)
(* The directory that the playground serves to the console inside it       *)
(* (site/playground/relay-bridge.js): tokens, roles, members, application  *)
(* settings, the autoscaling policy, and the audit log of what changed.    *)
(*                                                                         *)
(* window.fetch is replaced by a function that answers a request from the  *)
(* object `state`.  A handler of this module never waits, so it is one     *)
(* step.  There is one application, ecommerce-checkout.                    *)
(***************************************************************************)
EXTENDS Naturals, Sequences

CONSTANTS TokenNames,    \* names a token may be given
          RoleNames,     \* names a role may be given
          Users,         \* names in a request for a member
          Queues,        \* queues a policy may name
          ValidRoleNames, \* of RoleNames, those of 3 to 30 characters
          Shadowed,      \* names that begin with cancel, resume or fork
          MaxRequests    \* bound on the requests that change something

\* What `state` starts with.
CONSTANTS SeedToken, GlobalRoles, SeedRoles, SeedMembers, EligibleQueues

ASSUME BridgeAssumption ==
  /\ SeedToken \in TokenNames
  /\ GlobalRoles \subseteq SeedRoles /\ SeedRoles \subseteq RoleNames
  /\ DOMAIN SeedMembers \subseteq Users
  /\ \A u \in DOMAIN SeedMembers : SeedMembers[u] \in SeedRoles
  /\ EligibleQueues \subseteq Queues /\ "none" \notin Queues
  /\ MaxRequests \in Nat

VARIABLES keys,        \* the tokens: their ids and names
          roles,       \* names of the roles
          members,     \* the role of every member
          policy,      \* the queue of the autoscaling policy, or "none"
          privateMode, \* the setting of the application
          auditLog     \* what the requests recorded, newest first

directory == <<keys, roles, members, policy, privateMode, auditLog>>

Entry(operation, target) == [operation |-> operation, target |-> target]

\* A cancelled workflow, and the token that is there from the beginning.
SeedLog == <<Entry("workflow.cancel", "workflow"), Entry("token.create", SeedToken)>>

BridgeInit ==
  /\ keys = {[id |-> 0, name |-> SeedToken]}
  /\ roles = SeedRoles
  /\ members = SeedMembers
  /\ policy = "none"
  /\ privateMode = FALSE
  /\ auditLog = SeedLog

pushAudit(operation, target) == auditLog' = <<Entry(operation, target)>> \o auditLog

\* A request is answered; only those that record something are counted.
Room == Len(auditLog) < Len(SeedLog) + MaxRequests

(***************************************************************************)
(* Tokens                                                                  *)
(***************************************************************************)
\* A name may be given to several tokens; the id is that of the request.
CreateToken(name) ==
  /\ Room
  /\ keys' = keys \cup {[id |-> Len(auditLog) + 1, name |-> name]}
  /\ pushAudit("token.create", name)
  /\ UNCHANGED <<roles, members, policy, privateMode>>

\* Seeded fault: one token of that name is revoked.
RevokeOneToken(name) ==
  /\ Room /\ \E k \in keys : k.name = name
  /\ keys' = keys \ {CHOOSE k \in keys : k.name = name}
  /\ pushAudit("token.revoke", name)
  /\ UNCHANGED <<roles, members, policy, privateMode>>

\* Every token of that name is revoked, and a name that no token has is
\* recorded too.
RevokeToken(name) ==
  /\ Room
  /\ keys' = {k \in keys : k.name # name}
  /\ pushAudit("token.revoke", name)
  /\ UNCHANGED <<roles, members, policy, privateMode>>

(***************************************************************************)
(* Roles and members                                                       *)
(***************************************************************************)
\* 400 if the name is too short, too long or taken.
CreateRole(name) ==
  /\ Room /\ name \in ValidRoleNames \ roles
  /\ roles' = roles \cup {name}
  /\ pushAudit("role.create", name)
  /\ UNCHANGED <<keys, members, policy, privateMode>>

\* Seeded fault: a built-in role can be deleted.
DeleteAnyRole(name) ==
  /\ Room /\ name \in roles
  /\ roles' = roles \ {name}
  /\ pushAudit("role.delete", name)
  /\ UNCHANGED <<keys, members, policy, privateMode>>

\* A path with a name that is shadowed is taken for an operation on a workflow
\* and answered with 404; 500 if there is no such role, 403 if it is built in.
\* Members keep a role that is deleted.
DeleteRole(name) ==
  /\ Room /\ name \in roles \ (GlobalRoles \cup Shadowed)
  /\ roles' = roles \ {name}
  /\ pushAudit("role.delete", name)
  /\ UNCHANGED <<keys, members, policy, privateMode>>

\* 404 if the user is no member, 500 if there is no such role.
GrantRole(user, name) ==
  /\ Room /\ {user, name} \cap Shadowed = {}
  /\ user \in DOMAIN members /\ name \in roles
  /\ members' = [members EXCEPT ![user] = name]
  /\ pushAudit("role.grant", user)
  /\ UNCHANGED <<keys, roles, policy, privateMode>>

\* 404 if the user is no member.
RemoveMember(user) ==
  /\ Room /\ user \in DOMAIN members \ Shadowed
  /\ members' = [u \in DOMAIN members \ {user} |-> members[u]]
  /\ pushAudit("user.remove", user)
  /\ UNCHANGED <<keys, roles, policy, privateMode>>

(***************************************************************************)
(* The application                                                         *)
(***************************************************************************)
\* PATCH; recorded because the body holds a setting, even the one in force.
UpdateApplication(private) ==
  /\ Room
  /\ privateMode' = private
  /\ pushAudit("application.update", "app")
  /\ UNCHANGED <<keys, roles, members, policy>>

\* PUT; 400 if the queue is unknown, partitioned or without worker concurrency.
SetPolicy(queue) ==
  /\ Room /\ queue \in EligibleQueues
  /\ policy' = queue
  /\ pushAudit("autoscaling_policy.set", "app")
  /\ UNCHANGED <<keys, roles, members, privateMode>>

\* Seeded fault: the deletion of a policy is not recorded.
DeletePolicyQuietly ==
  /\ policy # "none"
  /\ policy' = "none"
  /\ UNCHANGED <<keys, roles, members, privateMode, auditLog>>

\* DELETE; recorded only if there was a policy.
DeletePolicy ==
  /\ Room /\ policy # "none"
  /\ policy' = "none"
  /\ pushAudit("autoscaling_policy.delete", "app")
  /\ UNCHANGED <<keys, roles, members, privateMode>>

\* Cancelling, resuming or forking a workflow is recorded as a success, and
\* nothing else happens.
WorkflowOperation(op) ==
  /\ Room
  /\ pushAudit(op, "workflow")
  /\ UNCHANGED <<keys, roles, members, policy, privateMode>>

BridgeNext ==
  \/ \E name \in TokenNames : CreateToken(name) \/ RevokeToken(name)
  \/ \E name \in RoleNames : CreateRole(name) \/ DeleteRole(name)
  \/ \E user \in Users : RemoveMember(user) \/ \E name \in RoleNames : GrantRole(user, name)
  \/ \E private \in BOOLEAN : UpdateApplication(private)
  \/ \E queue \in Queues : SetPolicy(queue)
  \/ DeletePolicy
  \/ \E op \in {"workflow.cancel", "workflow.resume", "workflow.fork"} : WorkflowOperation(op)
-----------------------------------------------------------------------------
Operations ==
  {"token.create", "token.revoke", "role.create", "role.delete", "role.grant", "user.remove",
   "application.update", "autoscaling_policy.set", "autoscaling_policy.delete",
   "workflow.cancel", "workflow.resume", "workflow.fork"}
Targets == TokenNames \cup RoleNames \cup Users \cup {"app", "workflow"}

\* The values of the directory.
BridgeTypeOK ==
  /\ keys \subseteq [id : Nat, name : TokenNames]
  /\ GlobalRoles \subseteq roles /\ roles \subseteq RoleNames
  /\ DOMAIN members \subseteq DOMAIN SeedMembers
  /\ \A u \in DOMAIN members : members[u] \in RoleNames
  /\ policy \in EligibleQueues \cup {"none"}
  /\ privateMode \in BOOLEAN
  /\ auditLog \in Seq([operation : Operations, target : Targets])
  /\ Len(auditLog) <= Len(SeedLog) + MaxRequests

\* The names of the tokens.
TokensNamed == {k.name : k \in keys}

\* The k-th entry is one of `operations` on `target`.
Says(k, operations, target) ==
  auditLog[k].operation \in operations /\ auditLog[k].target = target

Silent(operations, target) == \A k \in DOMAIN auditLog : ~Says(k, operations, target)

\* The newest of the entries on `target` that say that it was made or is gone
\* says that it was made.
LastMade(made, gone, target) ==
  \E k \in DOMAIN auditLog :
    Says(k, {made}, target) /\ \A l \in 1..(k - 1) : ~Says(l, {made, gone}, target)

\* A thing exists if the log says last that it was made, or says nothing and
\* it was there from the beginning.
Recorded(made, gone, target, seeded) ==
  LastMade(made, gone, target) \/ (Silent({made, gone}, target) /\ seeded)

\* The audit log accounts for the directory: which tokens, custom roles, members
\* and policy exist can be told from the log alone, however often a name was
\* given, taken away and given again.
AuditReplays ==
  /\ \A name \in TokenNames :
       name \in TokensNamed <=>
         Recorded("token.create", "token.revoke", name, FALSE)
  /\ \A name \in RoleNames :
       name \in roles <=> Recorded("role.create", "role.delete", name, name \in SeedRoles)
  /\ \A user \in DOMAIN SeedMembers :
       user \in DOMAIN members <=> Silent({"user.remove"}, user)
  /\ policy # "none" <=>
       Recorded("autoscaling_policy.set", "autoscaling_policy.delete", "app", FALSE)
  /\ privateMode => ~Silent({"application.update"}, "app")
=============================================================================
