----------------------------- MODULE MCDirectory -----------------------------
(***************************************************************************)
(* Instances of Directory for TLC: two owners, an admin and an outsider.   *)
(***************************************************************************)
EXTENDS Directory, TLC

CONSTANTS ann, bob, dan, cyd,  \* owner, owner, admin, outsider
          r1, r2, r3, r4, i1

MCInitialRoles ==
    (ann :> "owner") @@ (bob :> "owner") @@ (dan :> "admin") @@ (cyd :> NoRole)

Change(a, t, role) ==
    [kind |-> "change_role", actor |-> a, target |-> t, role |-> role, inv |-> NoInv]
Remove(a, t) ==
    [kind |-> "remove", actor |-> a, target |-> t, role |-> NoRole, inv |-> NoInv]
Invite(a, e, role) ==
    [kind |-> "invite", actor |-> a, target |-> e, role |-> role, inv |-> NoInv]
CliInvite(e, role) ==
    [kind |-> "cli_invite", actor |-> NoUser, target |-> e, role |-> role, inv |-> NoInv]
Revoke(a, i) ==
    [kind |-> "revoke", actor |-> a, target |-> NoUser, role |-> NoRole, inv |-> i]
Accept(i) ==
    [kind |-> "accept", actor |-> NoUser, target |-> NoUser, role |-> NoRole, inv |-> i]

\* r1 and r2 race on members (on others, on oneself, on the same row, promotions
\* and an admin's attempts included), r3 invites, r4 accepts or revokes.
MCAsks ==
    (r1 :> {Change(ann, dan, "owner"), Change(ann, cyd, "admin"), Change(ann, ann, "admin"),
            Remove(ann, bob)})
    @@ (r2 :> {Change(bob, ann, "member"), Remove(dan, bob), Accept(i1)})
    @@ (r3 :> {Invite(dan, cyd, "owner"), Invite(ann, cyd, "owner"), CliInvite(cyd, "member")})
    @@ (r4 :> {Accept(i1), Revoke(bob, i1)})

=============================================================================
