------------------------------ MODULE Directory ------------------------------
(***************************************************************************)
(* Members, roles and invitations of one tenant                            *)
(* (apps/api/app/directory/service.py, directory/router.py, the accept     *)
(* route of auth/router.py and the invitation command of cli.py).          *)
(*                                                                         *)
(* Each HTTP request or CLI command is a process that runs once.  It works *)
(* on two PostgreSQL transactions at READ COMMITTED: the control session   *)
(* (memberships, invitations, users) and the tenant session (audit log),   *)
(* committed one after the other.  One action is what a handler does       *)
(* between two awaits whose order against other requests matters: it       *)
(* resolves the actor, loads the target row, checks the rules, flushes,    *)
(* commits the audit event, commits the change.  A request may die at any  *)
(* of these points; its open transactions are then rolled back.            *)
(***************************************************************************)
EXTENDS Naturals, FiniteSets

CONSTANTS Users,        \* people, identified by their email address
          Invitations,  \* identifiers of invitation rows
          Requests,     \* the requests and commands that run, each once
          Asks,         \* Asks[r]: what request r may ask for
          InitialRoles, \* the roles when the story starts
          NoRole,       \* "no membership row"
          NoUser,       \* "no person": a field the request does not use
          NoInv         \* "no invitation"

Roles == {"owner", "admin", "member"}

Kinds == {"change_role", "remove", "invite", "cli_invite", "revoke", "accept"}

\* What a request asks: the route or command, who calls it, and its parameters.
Ask == [kind: {"change_role"}, actor: Users, target: Users, role: Roles, inv: {NoInv}]
  \cup [kind: {"remove"}, actor: Users, target: Users, role: {NoRole}, inv: {NoInv}]
  \cup [kind: {"invite"}, actor: Users, target: Users, role: Roles, inv: {NoInv}]
  \cup [kind: {"cli_invite"}, actor: {NoUser}, target: Users, role: Roles, inv: {NoInv}]
  \cup [kind: {"revoke"}, actor: Users, target: {NoUser}, role: {NoRole}, inv: Invitations]
  \cup [kind: {"accept"}, actor: {NoUser}, target: {NoUser}, role: {NoRole}, inv: Invitations]

\* The tenant starts with an owner, and the sentinels are no real values.
ASSUME InitialRolesAssumption ==
    /\ InitialRoles \in [Users -> Roles \cup {NoRole}]
    /\ \E u \in Users : InitialRoles[u] = "owner"
ASSUME SentinelAssumption ==
    /\ NoRole \notin Roles \cup {"cli"}
    /\ NoUser \notin Users
    /\ NoInv \notin Invitations
ASSUME AsksAssumption == Asks \in [Requests -> SUBSET Ask]

VARIABLES
    members,   \* members[u]: the role of u's membership row, or NoRole
    rowid,     \* rowid[u]: which membership row of u this is (a new row, a new id)
    accounts,  \* the users rows, by email: global, so an outsider may have one
    invs,      \* the invitations table; a deleted row keeps its content here
    audit,     \* the requests whose audit event is committed
    tenantLive,\* FALSE once the tenant is soft-deleted
    req        \* the requests: where they are and what they have read

vars == <<members, rowid, accounts, invs, audit, tenantLive, req>>

----------------------------------------------------------------------------
(* State                                                                   *)

InvRecord == [st: {"none", "pending", "accepted", "gone"}, email: Users \cup {NoUser},
              role: Roles \cup {NoRole}, by: Roles \cup {"cli", NoRole}, expired: BOOLEAN]

\* Where a request is: between two of its awaits, or at an end.
Ends == {"done", "refused", "crashed"}
Places == {"new", "resolved", "loaded", "checked", "flushed", "audited", "applied"} \cup Ends

ReqRecord == [pc: Places, kind: Kinds \cup {"none"}, actor: Users \cup {NoUser},
              actorRole: Roles \cup {"cli", NoRole}, target: Users \cup {NoUser},
              role: Roles \cup {NoRole}, loaded: Roles \cup {NoRole}, row: Nat,
              seen: SUBSET Users, inv: Invitations \cup {NoInv}, creates: BOOLEAN,
              applied: BOOLEAN]

NewReq == [pc |-> "new", kind |-> "none", actor |-> NoUser, actorRole |-> NoRole,
           target |-> NoUser, role |-> NoRole, loaded |-> NoRole, row |-> 0,
           seen |-> {}, inv |-> NoInv, creates |-> FALSE, applied |-> FALSE]

Owners == {u \in Users : members[u] = "owner"}

Pending(i) == invs[i].st = "pending"

\* The membership row the request loaded is still in the table.
RowThere(r) ==
    LET t == req[r].target
    IN t \in Users /\ members[t] # NoRole /\ rowid[t] = req[r].row

\* The ORM writes a column only when its value differs from the one it loaded.
Writes(r) == req[r].kind = "change_role" /\ req[r].role # req[r].loaded

\* Faulty variant: the row stays locked when the transaction is over.
HoldsRowForever(r, u) ==
    req[r].target = u /\ Writes(r) /\ req[r].actor # u /\ req[r].pc \in {"flushed", "audited", "done"}

\* A flushed UPDATE holds the row until its transaction ends.
HoldsRow(r, u) ==
    /\ req[r].target = u
    /\ Writes(r) /\ req[r].actor # u
    /\ req[r].pc \in {"flushed", "audited"}

RowFree(r) == \A q \in Requests \ {r} : ~HoldsRow(q, req[r].target)

At(r, place, kinds) == req[r].pc = place /\ req[r].kind \in kinds

Goto(r, place) == req' = [req EXCEPT ![r].pc = place]

Init ==
    /\ members = InitialRoles
    /\ rowid = [u \in Users |-> 0]
    /\ accounts \in {a \in SUBSET Users : {u \in Users : InitialRoles[u] # NoRole} \subseteq a}
    /\ invs = [i \in Invitations |-> [st |-> "none", email |-> NoUser, role |-> NoRole,
                                      by |-> NoRole, expired |-> FALSE]]
    /\ audit = {}
    /\ tenantLive = TRUE
    /\ req = [r \in Requests |-> NewReq]

----------------------------------------------------------------------------
(* Arrival: resolve_tenant and require_permission("core.members.manage")   *)

MayManage(role) == role \in {"owner", "admin"}

\* A manager's request: the tenant is live, the caller a member whose role
\* carries the permission.  That role is read once, here.  When the request is on
\* the caller's own membership, the row read here is the one the ORM session
\* keeps returning.
Resolve(r, ask) ==
    /\ req[r].pc = "new"
    /\ ask \in Asks[r]
    /\ ask.kind \in {"change_role", "remove", "invite", "revoke"}
    /\ tenantLive
    /\ MayManage(members[ask.actor])
    /\ LET own == ask.actor = ask.target
           role == members[ask.actor]
       IN req' = [req EXCEPT ![r] =
             [NewReq EXCEPT !.pc = "resolved", !.kind = ask.kind, !.actor = ask.actor,
                            !.actorRole = role, !.target = ask.target, !.role = ask.role,
                            !.inv = ask.inv, !.loaded = IF own THEN role ELSE NoRole,
                            !.row = IF own THEN rowid[ask.actor] ELSE 0]]
    /\ UNCHANGED <<members, rowid, accounts, invs, audit, tenantLive>>

\* cli.py `_invite`: no actor, no permission, no look at the tenant's state.
StartCliInvite(r, ask) ==
    /\ req[r].pc = "new"
    /\ ask \in Asks[r]
    /\ ask.kind = "cli_invite"
    /\ req' = [req EXCEPT ![r] =
          [NewReq EXCEPT !.pc = "resolved", !.kind = "cli_invite", !.actorRole = "cli",
                         !.target = ask.target, !.role = ask.role]]
    /\ UNCHANGED <<members, rowid, accounts, invs, audit, tenantLive>>

\* accept_invitation, up to the commit: the token's row must be unused and not
\* expired, and its address not a member yet.  No user row means one is created.
AcceptRead(r, ask) ==
    /\ req[r].pc = "new"
    /\ ask \in Asks[r]
    /\ ask.kind = "accept"
    /\ LET inv == invs[ask.inv]
       IN /\ inv.st = "pending" /\ ~inv.expired
          /\ members[inv.email] = NoRole
          /\ req' = [req EXCEPT ![r] =
                [NewReq EXCEPT !.pc = "checked", !.kind = "accept", !.inv = ask.inv,
                               !.target = inv.email, !.role = inv.role,
                               !.creates = inv.email \notin accounts]]
    /\ UNCHANGED <<members, rowid, accounts, invs, audit, tenantLive>>

----------------------------------------------------------------------------
(* Reads and checks                                                        *)

\* get_membership.  The ORM keeps the attributes of a row it already holds.
LoadMember(r) ==
    /\ At(r, "resolved", {"change_role", "remove"})
    /\ LET t == req[r].target
           held == t = req[r].actor /\ rowid[t] = req[r].row
       IN  IF members[t] = NoRole
           THEN Goto(r, "refused")
           ELSE req' = [req EXCEPT ![r].pc = "loaded", ![r].row = rowid[t],
                                   ![r].loaded = IF held THEN @ ELSE members[t]]
    /\ UNCHANGED <<members, rowid, accounts, invs, audit, tenantLive>>

\* Faulty variants: no rule on who touches an owner; a count off by one.
NoOwnerRule(r) == TRUE
LastOwnerRuleOffByOne(r) ==
    req[r].loaded = "owner" /\ req[r].role # "owner" => Cardinality(Owners) > 0

\* The rules of change_member_role and remove_member: only an owner promotes,
\* demotes or removes an owner, and never the last one.
OwnerRule(r) ==
    "owner" \in {req[r].role, req[r].loaded} => req[r].actorRole = "owner"

LastOwnerRule(r) ==
    req[r].loaded = "owner" /\ req[r].role # "owner" => Cardinality(Owners) > 1

CheckMember(r) ==
    /\ At(r, "loaded", {"change_role", "remove"})
    /\ IF OwnerRule(r) /\ LastOwnerRule(r)
       THEN req' = [req EXCEPT ![r].pc = "checked", ![r].seen = Owners]
       ELSE Goto(r, "refused")
    /\ UNCHANGED <<members, rowid, accounts, invs, audit, tenantLive>>

\* Faulty variant: whoever may invite may invite an owner.
AnyoneInvitesOwner(r) == TRUE

\* Only an owner invites an owner; the command line is not bound by roles.
InviteRule(r) == req[r].role = "owner" => req[r].actorRole \in {"owner", "cli"}

\* create_invitation, first query: the address must not be a member.
CheckNotMember(r) ==
    /\ At(r, "resolved", {"invite", "cli_invite"})
    /\ IF InviteRule(r) /\ members[req[r].target] = NoRole
       THEN Goto(r, "loaded")
       ELSE Goto(r, "refused")
    /\ UNCHANGED <<members, rowid, accounts, invs, audit, tenantLive>>

\* create_invitation, second query: no live invitation for the address.
CheckNotInvited(r) ==
    /\ At(r, "loaded", {"invite", "cli_invite"})
    /\ IF \E i \in Invitations : Pending(i) /\ ~invs[i].expired /\ invs[i].email = req[r].target
       THEN Goto(r, "refused")
       ELSE Goto(r, "checked")
    /\ UNCHANGED <<members, rowid, accounts, invs, audit, tenantLive>>

\* revoke_invitation: the row must exist and not be accepted.
CheckRevocable(r) ==
    /\ At(r, "resolved", {"revoke"})
    /\ Goto(r, IF Pending(req[r].inv) THEN "checked" ELSE "refused")
    /\ UNCHANGED <<members, rowid, accounts, invs, audit, tenantLive>>

----------------------------------------------------------------------------
(* Writes                                                                  *)

\* member_change_role looks the target's user up: unless that is the actor,
\* already in the session, the query flushes the UPDATE.  An UPDATE that finds
\* its row gone raises.
NeedsFlush(r) == Writes(r) /\ req[r].actor # req[r].target

FlushRole(r) ==
    /\ At(r, "checked", {"change_role"})
    /\ NeedsFlush(r)
    /\ RowFree(r)
    /\ Goto(r, IF RowThere(r) THEN "flushed" ELSE "refused")
    /\ UNCHANGED <<members, rowid, accounts, invs, audit, tenantLive>>

\* The audit event is committed on the tenant session, before the change.
CommitAudit(r) ==
    /\ \/ At(r, "flushed", {"change_role"})
       \/ At(r, "checked", {"change_role", "remove", "invite", "revoke"}) /\ ~NeedsFlush(r)
    /\ audit' = audit \cup {r}
    /\ Goto(r, "audited")
    /\ UNCHANGED <<members, rowid, accounts, invs, tenantLive>>

Apply(r, place) == req' = [req EXCEPT ![r] = [@ EXCEPT !.pc = place, !.applied = TRUE]]

\* session.commit() of member_change_role; on the actor's own row the UPDATE is
\* only sent now.
CommitRole(r) ==
    /\ At(r, "audited", {"change_role"})
    /\ RowFree(r)
    /\ IF Writes(r) /\ ~RowThere(r)
       THEN Goto(r, "refused") /\ UNCHANGED members
       ELSE /\ Apply(r, "done")
            /\ members' = IF Writes(r) THEN [members EXCEPT ![req[r].target] = req[r].role]
                                       ELSE members
    /\ UNCHANGED <<rowid, accounts, invs, audit, tenantLive>>

\* Faulty variants: the removal is committed before its audit event; the row is
\* marked instead of deleted.
CommitRemoveFirst(r) ==
    /\ At(r, "checked", {"remove"})
    /\ Apply(r, "done")
    /\ members' = IF RowThere(r) THEN [members EXCEPT ![req[r].target] = NoRole] ELSE members
    /\ UNCHANGED <<rowid, accounts, invs, audit, tenantLive>>
CommitRemoveMarks(r) ==
    /\ At(r, "audited", {"remove"})
    /\ Apply(r, "done")
    /\ members' = [members EXCEPT ![req[r].target] = "removed"]
    /\ UNCHANGED <<rowid, accounts, invs, audit, tenantLive>>

\* The DELETE is sent at commit; one that finds nothing is not an error.
CommitRemove(r) ==
    /\ At(r, "audited", {"remove"})
    /\ RowFree(r)
    /\ Apply(r, "done")
    /\ members' = IF RowThere(r) THEN [members EXCEPT ![req[r].target] = NoRole] ELSE members
    /\ UNCHANGED <<rowid, accounts, invs, audit, tenantLive>>

\* The new invitation becomes visible; the CLI commits with no audit event.
CommitInvite(r, i) ==
    /\ At(r, "audited", {"invite"}) \/ At(r, "checked", {"cli_invite"})
    /\ invs[i].st = "none"
    /\ invs' = [invs EXCEPT ![i] = [st |-> "pending", email |-> req[r].target,
                                    role |-> req[r].role, by |-> req[r].actorRole,
                                    expired |-> FALSE]]
    /\ Apply(r, "done")
    /\ UNCHANGED <<members, rowid, accounts, audit, tenantLive>>

\* The DELETE goes by the row's id: it also removes a row accepted meanwhile.
CommitRevoke(r) ==
    /\ At(r, "audited", {"revoke"})
    /\ invs' = [invs EXCEPT ![req[r].inv].st = "gone"]
    /\ Apply(r, "done")
    /\ UNCHANGED <<members, rowid, accounts, audit, tenantLive>>

\* Faulty variants: no unique membership; an UPDATE that ignores a missing row.
AcceptConflictNoUnique(r) ==
    \/ req[r].creates /\ req[r].target \in accounts
    \/ invs[req[r].inv].st = "gone"
AcceptConflictBlindUpdate(r) ==
    \/ req[r].creates /\ req[r].target \in accounts
    \/ members[req[r].target] # NoRole

\* What makes the commit of an acceptance fail: a second users row for the
\* address, a second membership (unique indexes), or an UPDATE of an invitation
\* that is no longer there.
AcceptConflict(r) ==
    \/ req[r].creates /\ req[r].target \in accounts
    \/ members[req[r].target] # NoRole
    \/ invs[req[r].inv].st = "gone"

CommitAccept(r) ==
    /\ At(r, "checked", {"accept"})
    /\ IF AcceptConflict(r)
       THEN Goto(r, "refused") /\ UNCHANGED <<members, rowid, accounts, invs>>
       ELSE /\ members' = [members EXCEPT ![req[r].target] = req[r].role]
            /\ rowid' = [rowid EXCEPT ![req[r].target] = @ + 1]
            /\ accounts' = accounts \cup {req[r].target}
            /\ invs' = [invs EXCEPT ![req[r].inv].st = "accepted"]
            /\ Apply(r, "applied")
    /\ UNCHANGED <<audit, tenantLive>>

\* Only then is the acceptance audited, in a session of its own.
AuditAccept(r) ==
    /\ At(r, "applied", {"accept"})
    /\ audit' = audit \cup {r}
    /\ Goto(r, "done")
    /\ UNCHANGED <<members, rowid, accounts, invs, tenantLive>>

----------------------------------------------------------------------------
(* The environment                                                         *)

\* The process dies, or the database refuses: what is not committed is lost.
Crash(r) ==
    /\ req[r].pc \notin {"new"} \cup Ends
    /\ Goto(r, "crashed")
    /\ UNCHANGED <<members, rowid, accounts, invs, audit, tenantLive>>

\* The invitation's lifetime runs out.
Expire(i) ==
    /\ Pending(i) /\ ~invs[i].expired
    /\ invs' = [invs EXCEPT ![i].expired = TRUE]
    /\ UNCHANGED <<members, rowid, accounts, audit, tenantLive, req>>

\* cli.py `_soft_delete`.
SoftDelete ==
    /\ tenantLive
    /\ tenantLive' = FALSE
    /\ UNCHANGED <<members, rowid, accounts, invs, audit, req>>

Step(r) ==
    \/ LoadMember(r) \/ CheckMember(r) \/ CheckNotMember(r) \/ CheckNotInvited(r)
    \/ CheckRevocable(r) \/ FlushRole(r) \/ CommitAudit(r)
    \/ CommitRole(r) \/ CommitRemove(r) \/ CommitRevoke(r)
    \/ \E i \in Invitations : CommitInvite(r, i)
    \/ CommitAccept(r) \/ AuditAccept(r)

Arrive(r, ask) == Resolve(r, ask) \/ StartCliInvite(r, ask) \/ AcceptRead(r, ask)

Next ==
    \/ \E r \in Requests : (\E ask \in Asks[r] : Arrive(r, ask)) \/ Step(r) \/ Crash(r)
    \/ \E i \in Invitations : Expire(i)
    \/ SoftDelete

Spec == Init /\ [][Next]_vars

\* A handler that has started runs to its end: the event loop and PostgreSQL
\* serve every request.  Nobody is obliged to send one.
FairSpec == Spec /\ \A r \in Requests : WF_vars(Step(r))

----------------------------------------------------------------------------
(* Properties                                                              *)

\* Type invariant: the tables and the requests' local state keep their shape.
TypeOK ==
    /\ members \in [Users -> Roles \cup {NoRole}]
    /\ rowid \in [Users -> Nat]
    /\ accounts \subseteq Users
    /\ invs \in [Invitations -> InvRecord]
    /\ audit \subseteq Requests
    /\ tenantLive \in BOOLEAN
    /\ req \in [Requests -> ReqRecord]

\* "Le dernier owner d'un tenant est intouchable" (directory/service.py): the
\* tenant always keeps an owner.
LastOwnerKept == Owners # {}

\* What the count-then-write of change_member_role and remove_member does
\* guarantee: the last owner goes only by a commit that acts on stale reads, the
\* owners it counted or the role it loaded having changed since.
LastOwnerLostOnlyOnStaleReads ==
    [][Owners # {} /\ Owners' = {} =>
         \E r \in Requests : /\ req[r].pc = "audited" /\ req'[r].pc = "done"
                             /\ \/ req[r].seen # Owners
                                \/ req[r].loaded # members[req[r].target]]_vars

\* Only an owner demotes or removes an owner; the one way round the rule is a
\* request that had loaded the row before it became an owner's.
OwnerDemotedByOwner ==
    [][\A u \in Owners : u \notin Owners' =>
         \E r \in Requests : /\ req[r].target = u /\ req[r].pc = "audited"
                             /\ req'[r].pc = "done"
                             /\ req[r].actorRole = "owner" \/ req[r].loaded # "owner"]_vars

\* r's audit event (or the CLI's invitation) grants role to u, and the actor was
\* entitled to grant it when the request was resolved.
Grants(r, u, role) ==
    /\ req[r].target = u /\ req[r].role = role
    /\ req[r].kind \in {"change_role", "invite", "cli_invite"}
    /\ role = "owner" => req[r].actorRole \in {"owner", "cli"}
    /\ IF req[r].kind = "cli_invite" THEN req[r].applied ELSE r \in audit

\* Every role held was granted: it is an initial one, or an audited request of an
\* entitled actor granted exactly that role to exactly that person, whatever
\* chain of invitation, acceptance, promotion and revocation led to it.
RolesAreGranted ==
    \A u \in Users : members[u] # NoRole =>
        \/ members[u] = InitialRoles[u]
        \/ \E r \in Requests : Grants(r, u, members[u])

\* A member's role changes in place by role changes alone: an acceptance never
\* overwrites a membership, even when two invitations of an address are accepted
\* at once.
RoleChangedOnlyByRoleChange ==
    [][\A u \in Users : members[u] # NoRole /\ members'[u] \notin {NoRole, members[u]} =>
         \E r \in Requests : /\ req[r].kind = "change_role" /\ req[r].target = u
                             /\ r \in audit /\ ~req[r].applied /\ req'[r].applied]_vars

\* An acceptance that started before a revocation grants nothing once the
\* revocation is committed.
RevokedInvitationGrantsNothing ==
    [][\A r \in Requests : req[r].kind = "accept" /\ ~req[r].applied /\ req'[r].applied =>
         invs[req[r].inv].st # "gone"]_vars

\* Decision D1, "au pire un evenement orphelin, jamais une action sans trace"
\* (directory/router.py): whatever the point at which a request dies, a change
\* made through the members and invitations routes has its audit event.
ManagedChangesTraced ==
    \A r \in Requests :
        req[r].applied /\ req[r].kind \notin {"accept", "cli_invite"} => r \in audit

\* The same of every HTTP request that is over, acceptance included.
EveryChangeTraced ==
    \A r \in Requests :
        req[r].applied /\ req[r].pc \in Ends /\ req[r].kind # "cli_invite" => r \in audit

\* Row locks never leave two requests waiting on each other: a request that has
\* arrived comes to an end.
RequestsFinish ==
    \A r \in Requests : (req[r].pc # "new") ~> (req[r].pc \in Ends)

=============================================================================
