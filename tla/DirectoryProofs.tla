--------------------------- MODULE DirectoryProofs ---------------------------
(***************************************************************************)
(* Proofs about Directory, for every set of users, invitations and         *)
(* requests, whatever the requests ask: types, audited changes, owners,    *)
(* granted roles, revoked invitations, and that no request waits for ever  *)
(* on a row or turns round.                                                *)
(***************************************************************************)
EXTENDS Directory, FiniteSetTheorems, TLAPS

----------------------------------------------------------------------------
(* Shape of the requests and invitations                                   *)

\* The parameters a request carries are those its kind needs, and a written
\* invitation names a person and a role.
Shape ==
    /\ \A r \in Requests :
          LET q == req[r]
          IN /\ q.kind \in {"change_role", "remove", "invite", "cli_invite", "accept"}
                  => q.target \in Users
             /\ q.kind \in {"change_role", "invite", "cli_invite", "accept"} => q.role \in Roles
             /\ q.kind = "remove" => q.role = NoRole
             /\ q.kind \in {"revoke", "accept"} => q.inv \in Invitations
             /\ q.kind = "accept" => invs[q.inv].st # "none"
             /\ q.kind = "revoke" /\ q.pc \in {"checked", "audited"} => invs[q.inv].st # "none"
    /\ \A i \in Invitations :
          invs[i].st # "none" => invs[i].email \in Users /\ invs[i].role \in Roles

TypeInv == TypeOK /\ Shape

\* The tables and the requests start with their types and shape.
LEMMA InitTypeInv == Init => TypeInv
  <1> SUFFICES ASSUME Init PROVE TypeInv
    OBVIOUS
  <1> USE InitialRolesAssumption
  <1>1. TypeOK
    BY DEF Init, TypeOK, InvRecord, ReqRecord, NewReq, Places, Ends
  <1>2. Shape
    BY DEF Init, Shape, NewReq
  <1> QED
    BY <1>1, <1>2 DEF TypeInv

\* An arriving request has the shape its ask has.
LEMMA ArriveTypeInv ==
  ASSUME TypeInv, NEW r \in Requests, NEW ask \in Asks[r], Arrive(r, ask)
  PROVE  TypeInv'
  <1>0. ask \in Ask
    BY AsksAssumption
  <1>1. CASE Resolve(r, ask)
    <2>0. /\ ask.actor \in Users /\ ask.target \in Users \cup {NoUser} /\ ask.kind \in Kinds
          /\ ask.role \in Roles \cup {NoRole} /\ ask.inv \in Invitations \cup {NoInv}
      BY <1>0, <1>1 DEF Resolve, Ask, Kinds
    <2>1. TypeOK'
      <3>0. members[ask.actor] \in Roles \cup {NoRole} /\ rowid[ask.actor] \in Nat
        BY <2>0 DEF TypeInv, TypeOK
      <3>1. req'[r] \in ReqRecord
        <4>1. CASE ask.actor = ask.target
          BY <1>1, <2>0, <3>0, <4>1 DEF Resolve, TypeInv, TypeOK, ReqRecord, NewReq, Places
        <4>2. CASE ask.actor # ask.target
          BY <1>1, <2>0, <3>0, <4>2 DEF Resolve, TypeInv, TypeOK, ReqRecord, NewReq, Places
        <4> QED
          BY <4>1, <4>2
      <3> QED
        BY <1>1, <3>1 DEF Resolve, TypeInv, TypeOK
    <2>2. Shape'
      BY <1>0, <1>1 DEF Resolve, TypeInv, TypeOK, Shape, ReqRecord, NewReq, Ask
    <2> QED
      BY <2>1, <2>2 DEF TypeInv
  <1>2. CASE StartCliInvite(r, ask)
    <2>1. TypeOK'
      BY <1>0, <1>2 DEF StartCliInvite, TypeInv, TypeOK, ReqRecord, NewReq, Places, Kinds, Ask
    <2>2. Shape'
      BY <1>0, <1>2 DEF StartCliInvite, TypeInv, TypeOK, Shape, ReqRecord, NewReq, Ask
    <2> QED
      BY <2>1, <2>2 DEF TypeInv
  <1>3. CASE AcceptRead(r, ask)
    <2>1. ask.inv \in Invitations
      BY <1>0, <1>3 DEF AcceptRead, Ask
    <2>2. TypeOK'
      <3>0. invs[ask.inv].email \in Users /\ invs[ask.inv].role \in Roles
        BY <1>3, <2>1 DEF AcceptRead, TypeInv, Shape
      <3>1. req'[r] \in ReqRecord
        BY <1>3, <2>1, <3>0 DEF AcceptRead, TypeInv, TypeOK, ReqRecord, NewReq, Places, Kinds
      <3> QED
        BY <1>3, <3>1 DEF AcceptRead, TypeInv, TypeOK
    <2>3. Shape'
      BY <1>3, <2>1 DEF AcceptRead, TypeInv, TypeOK, Shape, ReqRecord, NewReq, InvRecord
    <2> QED
      BY <2>2, <2>3 DEF TypeInv
  <1> QED
    BY <1>1, <1>2, <1>3 DEF Arrive

\* A step that only moves a request from one place to the next keeps the types.
LEMMA GotoTypeInv ==
  ASSUME TypeInv, NEW r \in Requests, NEW place \in Places, Goto(r, place),
         UNCHANGED <<members, rowid, accounts, invs, tenantLive>>,
         audit' \in {audit, audit \cup {r}},
         req[r].kind = "revoke" /\ place \in {"checked", "audited"}
            => invs[req[r].inv].st # "none"
  PROVE  TypeInv'
  <1>1. TypeOK'
    BY DEF Goto, TypeInv, TypeOK, ReqRecord
  <1>2. Shape'
    BY DEF Goto, TypeInv, TypeOK, Shape, ReqRecord
  <1> QED
    BY <1>1, <1>2 DEF TypeInv

\* Applying a change keeps the request a request, and its parameters.
LEMMA ApplyType ==
  ASSUME req \in [Requests -> ReqRecord], NEW r \in Requests, NEW place \in Places,
         Apply(r, place)
  PROVE  req' \in [Requests -> ReqRecord]
  <1> DEFINE moved == [req[r] EXCEPT !.pc = place]
             done == [moved EXCEPT !.applied = TRUE]
  <1>1. moved \in ReqRecord
    BY DEF ReqRecord
  <1> HIDE DEF moved
  <1>2. done \in ReqRecord
    BY <1>1 DEF ReqRecord
  <1>3. [req[r] EXCEPT !.pc = place, !.applied = TRUE] = done
    BY DEF moved, ReqRecord
  <1> HIDE DEF done
  <1> QED
    BY <1>2, <1>3 DEF Apply

\* Applying a change moves one request and marks it applied.
LEMMA ApplyFields ==
  ASSUME TypeOK, NEW r \in Requests, NEW place, Apply(r, place)
  PROVE  /\ \A q \in Requests :
              /\ req'[q].kind = req[q].kind /\ req'[q].actor = req[q].actor
              /\ req'[q].actorRole = req[q].actorRole /\ req'[q].target = req[q].target
              /\ req'[q].role = req[q].role /\ req'[q].loaded = req[q].loaded
              /\ req'[q].inv = req[q].inv /\ req'[q].seen = req[q].seen
         /\ req'[r].pc = place /\ req'[r].applied
         /\ \A q \in Requests \ {r} : req'[q] = req[q]
  BY DEF Apply, TypeOK, ReqRecord

\* Every step of a handler keeps the types and the shape.
LEMMA StepTypeInv ==
  ASSUME TypeInv, NEW r \in Requests, Step(r)
  PROVE  TypeInv'
  <1> USE DEF At
  <1> DEFINE Moves == \E place \in Places :
                        /\ Goto(r, place)
                        /\ UNCHANGED <<members, rowid, accounts, invs, tenantLive>>
                        /\ audit' \in {audit, audit \cup {r}}
                        /\ req[r].kind = "revoke" /\ place \in {"checked", "audited"}
                             => invs[req[r].inv].st # "none"
  <1>0. Moves => TypeInv'
    BY GotoTypeInv
  <1>1. CASE LoadMember(r)
    <2>1. req[r].target \in Users
      BY <1>1 DEF LoadMember, TypeInv, Shape
    <2>2. CASE members[req[r].target] = NoRole
      <3>1. Moves
        BY <1>1, <2>2 DEF LoadMember, Places, Ends
      <3> QED
        BY <1>0, <3>1
    <2>3. CASE members[req[r].target] # NoRole
      <3>1. TypeOK'
        BY <1>1, <2>1, <2>3 DEF LoadMember, TypeInv, TypeOK, ReqRecord, Places
      <3>2. Shape'
        BY <1>1, <2>1, <2>3 DEF LoadMember, TypeInv, TypeOK, Shape, ReqRecord
      <3> QED
        BY <3>1, <3>2 DEF TypeInv
    <2> QED
      BY <2>2, <2>3
  <1>2. CASE CheckMember(r)
    <2>1. CASE OwnerRule(r) /\ LastOwnerRule(r)
      <3>1. TypeOK'
        BY <1>2, <2>1 DEF CheckMember, TypeInv, TypeOK, ReqRecord, Places, Owners
      <3>2. Shape'
        BY <1>2, <2>1 DEF CheckMember, TypeInv, TypeOK, Shape, ReqRecord
      <3> QED
        BY <3>1, <3>2 DEF TypeInv
    <2>2. CASE ~(OwnerRule(r) /\ LastOwnerRule(r))
      <3>1. Moves
        BY <1>2, <2>2 DEF CheckMember, Places, Ends
      <3> QED
        BY <1>0, <3>1
    <2> QED
      BY <2>1, <2>2
  <1>3. CASE CheckNotMember(r) \/ CheckNotInvited(r) \/ CheckRevocable(r) \/ FlushRole(r)
    <2>1. Moves
      BY <1>3 DEF CheckNotMember, CheckNotInvited, CheckRevocable, FlushRole, Places, Ends, Pending
    <2> QED
      BY <1>0, <2>1
  <1>4. CASE CommitAudit(r) \/ AuditAccept(r)
    <2>1. req[r].kind = "revoke" /\ CommitAudit(r) => invs[req[r].inv].st # "none"
      BY DEF CommitAudit, TypeInv, Shape
    <2>2. Moves
      BY <1>4, <2>1 DEF CommitAudit, AuditAccept, Places, Ends
    <2> QED
      BY <1>0, <2>2
  <1>5. CASE CommitRole(r)
    <2>1. CASE Writes(r) /\ ~RowThere(r)
      <3>1. Moves
        BY <1>5, <2>1 DEF CommitRole, Places, Ends
      <3> QED
        BY <1>0, <3>1
    <2>2. CASE ~(Writes(r) /\ ~RowThere(r))
      <3>0. req[r].role \in Roles
        BY <1>5 DEF CommitRole, TypeInv, Shape
      <3>1. TypeOK'
        <4>1. req' \in [Requests -> ReqRecord]
          BY <1>5, <2>2, ApplyType DEF CommitRole, TypeInv, TypeOK, Places, Ends
        <4> QED
          BY <1>5, <2>2, <3>0, <4>1 DEF CommitRole, TypeInv, TypeOK
      <3>2. Shape'
        BY <1>5, <2>2, ApplyFields DEF CommitRole, TypeInv, Shape
      <3> QED
        BY <3>1, <3>2 DEF TypeInv
    <2> QED
      BY <2>1, <2>2
  <1>6. CASE CommitRemove(r)
    <2>1. TypeOK'
      <3>1. req' \in [Requests -> ReqRecord]
        BY <1>6, ApplyType DEF CommitRemove, TypeInv, TypeOK, Places, Ends
      <3> QED
        BY <1>6, <3>1 DEF CommitRemove, TypeInv, TypeOK
    <2>2. Shape'
      BY <1>6, ApplyFields DEF CommitRemove, TypeInv, Shape
    <2> QED
      BY <2>1, <2>2 DEF TypeInv
  <1>7. CASE CommitRevoke(r)
    <2>0. req[r].inv \in Invitations
      BY <1>7 DEF CommitRevoke, TypeInv, Shape
    <2>1. TypeOK'
      <3>1. req' \in [Requests -> ReqRecord]
        BY <1>7, ApplyType DEF CommitRevoke, TypeInv, TypeOK, Places, Ends
      <3>2. invs' \in [Invitations -> InvRecord]
        BY <1>7, <2>0 DEF CommitRevoke, TypeInv, TypeOK, InvRecord
      <3> QED
        BY <1>7, <3>1, <3>2 DEF CommitRevoke, TypeInv, TypeOK
    <2>2. Shape'
      <3>1. \A i \in Invitations : /\ invs'[i].email = invs[i].email /\ invs'[i].role = invs[i].role
                                   /\ invs'[i].st # "none" => invs[i].st # "none" \/ i = req[r].inv
                                   /\ invs[i].st # "none" => invs'[i].st # "none"
        BY <1>7, <2>0 DEF CommitRevoke, TypeInv, TypeOK, InvRecord
      <3> QED
        BY <1>7, <2>0, <3>1, ApplyFields DEF CommitRevoke, TypeInv, Shape
    <2> QED
      BY <2>1, <2>2 DEF TypeInv
  <1>8. ASSUME NEW i \in Invitations, CommitInvite(r, i)
        PROVE  TypeInv'
    <2>0. req[r].target \in Users /\ req[r].role \in Roles
      BY <1>8 DEF CommitInvite, TypeInv, Shape
    <2>1. TypeOK'
      <3>1. req' \in [Requests -> ReqRecord]
        BY <1>8, ApplyType DEF CommitInvite, TypeInv, TypeOK, Places, Ends
      <3>2. req[r].actorRole \in Roles \cup {"cli", NoRole}
        BY DEF TypeInv, TypeOK, ReqRecord
      <3>3. invs' \in [Invitations -> InvRecord]
        BY <1>8, <2>0, <3>2 DEF CommitInvite, TypeInv, TypeOK, InvRecord
      <3> QED
        BY <1>8, <3>1, <3>3 DEF CommitInvite, TypeInv, TypeOK
    <2>2. Shape'
      BY <1>8, <2>0, ApplyFields DEF CommitInvite, TypeInv, TypeOK, Shape
    <2> QED
      BY <2>1, <2>2 DEF TypeInv
  <1>9. CASE CommitAccept(r)
    <2>0. req[r].target \in Users /\ req[r].role \in Roles /\ req[r].inv \in Invitations
      BY <1>9 DEF CommitAccept, TypeInv, Shape
    <2>1. CASE AcceptConflict(r)
      <3>1. Moves
        BY <1>9, <2>1 DEF CommitAccept, Places, Ends
      <3> QED
        BY <1>0, <3>1
    <2>2. CASE ~AcceptConflict(r)
      <3>1. TypeOK'
        <4>1. req' \in [Requests -> ReqRecord]
          BY <1>9, <2>2, ApplyType DEF CommitAccept, TypeInv, TypeOK, Places
        <4>2. invs' \in [Invitations -> InvRecord]
          BY <1>9, <2>0, <2>2 DEF CommitAccept, TypeInv, TypeOK, InvRecord
        <4>3. members' \in [Users -> Roles \cup {NoRole}] /\ rowid' \in [Users -> Nat]
          BY <1>9, <2>0, <2>2 DEF CommitAccept, TypeInv, TypeOK
        <4> QED
          BY <1>9, <2>0, <2>2, <4>1, <4>2, <4>3 DEF CommitAccept, TypeInv, TypeOK
      <3>2. Shape'
        <4>1. \A i \in Invitations : /\ invs'[i].email = invs[i].email /\ invs'[i].role = invs[i].role
                                     /\ invs[i].st # "none" <=> invs'[i].st # "none"
          BY <1>9, <2>0, <2>2 DEF CommitAccept, TypeInv, TypeOK, Shape, InvRecord
        <4> QED
          BY <1>9, <2>2, <4>1, ApplyFields DEF CommitAccept, TypeInv, Shape
      <3> QED
        BY <3>1, <3>2 DEF TypeInv
    <2> QED
      BY <2>1, <2>2
  <1> QED
    BY <1>1, <1>2, <1>3, <1>4, <1>5, <1>6, <1>7, <1>8, <1>9 DEF Step

\* TypeInv is inductive.
LEMMA NextTypeInv == TypeInv /\ [Next]_vars => TypeInv'
  <1> SUFFICES ASSUME TypeInv, [Next]_vars PROVE TypeInv'
    OBVIOUS
  <1>1. ASSUME NEW r \in Requests, NEW ask \in Asks[r], Arrive(r, ask)
        PROVE  TypeInv'
    BY <1>1, ArriveTypeInv
  <1>2. ASSUME NEW r \in Requests, Step(r)
        PROVE  TypeInv'
    BY <1>2, StepTypeInv
  <1>3. ASSUME NEW r \in Requests, Crash(r)
        PROVE  TypeInv'
    BY <1>3, GotoTypeInv DEF Crash, Places, Ends
  <1>4. ASSUME NEW i \in Invitations, Expire(i)
        PROVE  TypeInv'
    <2>1. TypeOK'
      BY <1>4 DEF Expire, TypeInv, TypeOK, InvRecord
    <2>2. Shape'
      BY <1>4 DEF Expire, TypeInv, TypeOK, Shape, InvRecord
    <2> QED
      BY <2>1, <2>2 DEF TypeInv
  <1>5. CASE SoftDelete
    BY <1>5 DEF SoftDelete, TypeInv, TypeOK, Shape
  <1>6. CASE UNCHANGED vars
    BY <1>6 DEF vars, TypeInv, TypeOK, Shape
  <1> QED
    BY <1>1, <1>2, <1>3, <1>4, <1>5, <1>6 DEF Next

\* Type correctness, for every instance: the tables and the local state of every
\* request keep their shape.
THEOREM TypeCorrect == Spec => []TypeOK
  <1>1. TypeInv => TypeOK
    BY DEF TypeInv
  <1> QED
    BY <1>1, InitTypeInv, NextTypeInv, PTL DEF Spec

----------------------------------------------------------------------------
(* What a step may change                                                  *)

\* A request that has arrived keeps its identity and parameters; the audit log
\* only grows, and an applied change stays applied.
Persists(r) ==
    /\ req'[r].kind = req[r].kind /\ req'[r].actorRole = req[r].actorRole
    /\ req'[r].target = req[r].target /\ req'[r].role = req[r].role
    /\ req'[r].inv = req[r].inv /\ req'[r].pc # "new"
    /\ req[r].applied => req'[r].applied

\* What a request asked for does not change once it has arrived.
LEMMA RequestsPersist ==
  ASSUME TypeInv, [Next]_vars
  PROVE  /\ audit \subseteq audit'
         /\ \A r \in Requests : req[r].pc # "new" => Persists(r)
  <1> USE DEF At, Persists, TypeInv, TypeOK, ReqRecord
  <1>1. ASSUME NEW r \in Requests, NEW ask \in Asks[r], Arrive(r, ask)
        PROVE  /\ audit \subseteq audit'
               /\ \A q \in Requests : req[q].pc # "new" => Persists(q)
    BY <1>1 DEF Arrive, Resolve, StartCliInvite, AcceptRead
  <1>2. ASSUME NEW r \in Requests, LoadMember(r)
        PROVE  /\ audit \subseteq audit'
               /\ \A q \in Requests : req[q].pc # "new" => Persists(q)
    BY <1>2 DEF LoadMember, Goto
  <1>3. ASSUME NEW r \in Requests, CheckMember(r)
        PROVE  /\ audit \subseteq audit'
               /\ \A q \in Requests : req[q].pc # "new" => Persists(q)
    BY <1>3 DEF CheckMember, Goto
  <1>4. ASSUME NEW r \in Requests,
               \/ CheckNotMember(r) \/ CheckNotInvited(r) \/ CheckRevocable(r) \/ FlushRole(r)
               \/ CommitAudit(r) \/ AuditAccept(r) \/ Crash(r)
        PROVE  /\ audit \subseteq audit'
               /\ \A q \in Requests : req[q].pc # "new" => Persists(q)
    BY <1>4 DEF CheckNotMember, CheckNotInvited, CheckRevocable, FlushRole, CommitAudit,
                AuditAccept, Crash, Goto
  <1>5. ASSUME NEW r \in Requests,
               \/ CommitRole(r) \/ CommitRemove(r) \/ CommitRevoke(r) \/ CommitAccept(r)
               \/ \E i \in Invitations : CommitInvite(r, i)
        PROVE  /\ audit \subseteq audit'
               /\ \A q \in Requests : req[q].pc # "new" => Persists(q)
    <2>1. ASSUME NEW place \in {"done", "applied"}, Apply(r, place)
          PROVE  \A q \in Requests : req[q].pc # "new" => Persists(q)
      BY <2>1, ApplyFields
    <2>2. ASSUME Goto(r, "refused")
          PROVE  \A q \in Requests : req[q].pc # "new" => Persists(q)
      BY <2>2 DEF Goto
    <2>3. audit' = audit
      BY <1>5 DEF CommitRole, CommitRemove, CommitRevoke, CommitAccept, CommitInvite
    <2>4. Apply(r, "done") \/ Apply(r, "applied") \/ Goto(r, "refused")
      BY <1>5 DEF CommitRole, CommitRemove, CommitRevoke, CommitAccept, CommitInvite
    <2> QED
      BY <2>1, <2>2, <2>3, <2>4
  <1>6. ASSUME NEW i \in Invitations, Expire(i)
        PROVE  /\ audit \subseteq audit'
               /\ \A q \in Requests : req[q].pc # "new" => Persists(q)
    BY <1>6 DEF Expire
  <1>7. CASE SoftDelete \/ UNCHANGED vars
    BY <1>7 DEF SoftDelete, vars
  <1> QED
    BY <1>1, <1>2, <1>3, <1>4, <1>5, <1>6, <1>7 DEF Next, Step

\* The memberships change by the commits of the three handlers that write them.
LEMMA MembersStep ==
  ASSUME [Next]_vars, members' # members
  PROVE  \E r \in Requests : CommitRole(r) \/ CommitRemove(r) \/ CommitAccept(r)
  BY DEF Next, Arrive, Resolve, StartCliInvite, AcceptRead, Step, LoadMember, CheckMember,
         CheckNotMember, CheckNotInvited, CheckRevocable, FlushRole, CommitAudit, CommitInvite,
         CommitRevoke, AuditAccept, Crash, Expire, SoftDelete, vars

----------------------------------------------------------------------------
(* What a request has established when it writes                           *)

\* Between its check and its commit, a request carries the facts its check
\* established about what it read, and past the audit commit its event is there.
DecidedBy(r) ==
    LET q == req[r]
    IN /\ q.pc = "new" => q.kind = "none" /\ ~q.applied /\ r \notin audit
       /\ q.kind \in {"change_role", "remove"} /\ q.pc \in {"checked", "flushed", "audited"} =>
             /\ "owner" \in {q.role, q.loaded} => q.actorRole = "owner"
             /\ q.loaded = "owner" /\ q.role # "owner" => Cardinality(q.seen) > 1
       /\ q.kind \in {"invite", "cli_invite"} /\ q.pc \in {"loaded", "checked", "audited"} =>
             (q.role = "owner" => q.actorRole \in {"owner", "cli"})
       /\ q.pc = "audited" => r \in audit
       /\ q.applied => q.pc \in {"applied"} \cup Ends
       /\ q.applied /\ q.kind \notin {"accept", "cli_invite"} => r \in audit
       /\ /\ q.kind \in {"change_role", "invite", "cli_invite"}
          /\ r \in audit \/ q.applied
          => (q.role = "owner" => q.actorRole \in {"owner", "cli"})

Decided == \A r \in Requests : DecidedBy(r)

\* A step of one request leaves the others as they are.
LEMMA OthersUntouched ==
  ASSUME TypeOK, NEW r \in Requests,
         Step(r) \/ Crash(r) \/ \E ask \in Asks[r] : Arrive(r, ask)
  PROVE  /\ \A q \in Requests \ {r} : req'[q] = req[q]
         /\ \A q \in Requests \ {r} : q \in audit' <=> q \in audit
  <1> USE DEF TypeOK
  <1>1. CASE Crash(r)
    BY <1>1 DEF Crash, Goto
  <1>2. CASE \E ask \in Asks[r] : Arrive(r, ask)
    BY <1>2 DEF Arrive, Resolve, StartCliInvite, AcceptRead
  <1>3. CASE LoadMember(r) \/ CheckMember(r) \/ CheckNotMember(r) \/ CheckNotInvited(r)
             \/ CheckRevocable(r) \/ FlushRole(r) \/ CommitAudit(r) \/ AuditAccept(r)
    BY <1>3 DEF LoadMember, CheckMember, CheckNotMember, CheckNotInvited, CheckRevocable,
                FlushRole, CommitAudit, AuditAccept, Goto
  <1>4. CASE CommitRole(r) \/ CommitRemove(r) \/ CommitRevoke(r) \/ CommitAccept(r)
             \/ \E i \in Invitations : CommitInvite(r, i)
    BY <1>4 DEF CommitRole, CommitRemove, CommitRevoke, CommitAccept, CommitInvite, Apply, Goto
  <1> QED
    BY <1>1, <1>2, <1>3, <1>4 DEF Step

\* A step of a handler keeps what its checks established.
LEMMA StepDecided ==
  ASSUME TypeInv, Decided, NEW r \in Requests,
         Step(r) \/ Crash(r) \/ \E ask \in Asks[r] : Arrive(r, ask)
  PROVE  DecidedBy(r)'
  <1> USE DEF At, TypeInv, TypeOK, ReqRecord, Decided, DecidedBy, Ends
  <1>1. CASE Crash(r)
    BY <1>1 DEF Crash, Goto
  <1>2. CASE \E ask \in Asks[r] : Arrive(r, ask)
    <2>1. PICK ask \in Asks[r] : Arrive(r, ask)
      BY <1>2
    <2>2. ask \in Ask
      BY AsksAssumption
    <2>3. CASE Resolve(r, ask)
      BY <2>2, <2>3 DEF Resolve, NewReq, Ask
    <2>4. CASE StartCliInvite(r, ask)
      BY <2>2, <2>4 DEF StartCliInvite, NewReq, Ask
    <2>5. CASE AcceptRead(r, ask)
      BY <2>2, <2>5 DEF AcceptRead, NewReq, Ask
    <2> QED
      BY <2>1, <2>3, <2>4, <2>5 DEF Arrive
  <1>3. CASE LoadMember(r)
    BY <1>3 DEF LoadMember, Goto
  <1>4. CASE CheckMember(r)
    BY <1>4 DEF CheckMember, Goto, OwnerRule, LastOwnerRule
  <1>5. CASE CheckNotMember(r)
    BY <1>5 DEF CheckNotMember, InviteRule, Goto
  <1>6. CASE CheckNotInvited(r) \/ CheckRevocable(r) \/ FlushRole(r)
    BY <1>6 DEF CheckNotInvited, CheckRevocable, FlushRole, Goto
  <1>7. CASE CommitAudit(r)
    BY <1>7 DEF CommitAudit, Goto
  <1>8. CASE AuditAccept(r)
    BY <1>8 DEF AuditAccept, Goto
  <1>9. CASE CommitRole(r) \/ CommitRemove(r) \/ CommitRevoke(r) \/ CommitAccept(r)
             \/ \E i \in Invitations : CommitInvite(r, i)
    <2>1. CASE Goto(r, "refused")
      BY <1>9, <2>1 DEF CommitRole, CommitRemove, CommitRevoke, CommitAccept, CommitInvite, Goto
    <2>2. CASE Apply(r, "done") \/ Apply(r, "applied")
      <3>1. audit' = audit
        BY <1>9 DEF CommitRole, CommitRemove, CommitRevoke, CommitAccept, CommitInvite
      <3>2. \/ req[r].pc = "audited"
            \/ req[r].pc = "checked" /\ req[r].kind \in {"accept", "cli_invite"}
        BY <1>9 DEF CommitRole, CommitRemove, CommitRevoke, CommitAccept, CommitInvite
      <3> QED
        BY <2>2, <3>1, <3>2, ApplyFields
    <2> QED
      BY <1>9, <2>1, <2>2 DEF CommitRole, CommitRemove, CommitRevoke, CommitAccept, CommitInvite
  <1> QED
    BY <1>1, <1>2, <1>3, <1>4, <1>5, <1>6, <1>7, <1>8, <1>9 DEF Step

\* Decided is inductive, with TypeInv.
LEMMA NextDecided == TypeInv /\ Decided /\ [Next]_vars => Decided'
  <1> SUFFICES ASSUME TypeInv, Decided, [Next]_vars PROVE Decided'
    OBVIOUS
  <1>1. ASSUME NEW r \in Requests, Step(r) \/ Crash(r) \/ \E ask \in Asks[r] : Arrive(r, ask)
        PROVE  Decided'
    <2>1. DecidedBy(r)'
      BY <1>1, StepDecided
    <2>2. ASSUME NEW q \in Requests \ {r} PROVE DecidedBy(q)'
      <3>1. req'[q] = req[q] /\ (q \in audit' <=> q \in audit)
        BY <1>1, OthersUntouched DEF TypeInv
      <3> QED
        BY <3>1 DEF Decided, DecidedBy
    <2> QED
      BY <2>1, <2>2 DEF Decided
  <1>2. CASE \/ \E i \in Invitations : Expire(i)
             \/ SoftDelete
             \/ UNCHANGED vars
    <2>1. req' = req /\ audit' = audit
      BY <1>2 DEF Expire, SoftDelete, vars
    <2> QED
      BY <2>1 DEF Decided, DecidedBy
  <1> QED
    BY <1>1, <1>2 DEF Next

\* Every reachable state is typed and every request past its checks passed them.
LEMMA DecidedAlways == Spec => [](TypeInv /\ Decided)
  <1>1. Init => Decided
    BY DEF Init, Decided, DecidedBy, NewReq
  <1> QED
    BY <1>1, InitTypeInv, NextTypeInv, NextDecided, PTL DEF Spec

\* Decision D1 of the members and invitations routes, for every instance and
\* every point at which a request may die: no change without its audit event.
THEOREM ChangesTraced == Spec => []ManagedChangesTraced
  <1>1. Decided => ManagedChangesTraced
    BY DEF Decided, DecidedBy, ManagedChangesTraced
  <1> QED
    BY <1>1, DecidedAlways, PTL

----------------------------------------------------------------------------
(* Owners                                                                  *)

\* The commits that write memberships: which row, which value, from which place.
LEMMA MemberCommit ==
  ASSUME TypeInv, NEW r \in Requests, members' # members,
         CommitRole(r) \/ CommitRemove(r) \/ CommitAccept(r)
  PROVE  /\ req[r].target \in Users
         /\ members' = [members EXCEPT ![req[r].target] = req[r].role]
         /\ ~req[r].applied \/ req[r].pc \notin Ends
         /\ req'[r].applied
         /\ IF req[r].kind = "accept"
            THEN members[req[r].target] = NoRole /\ req[r].pc = "checked"
            ELSE /\ req[r].kind \in {"change_role", "remove"}
                 /\ req[r].pc = "audited" /\ req'[r].pc = "done"
  <1> USE DEF At, TypeInv
  <1>1. CASE CommitRole(r)
    <2>1. Apply(r, "done") /\ members' = [members EXCEPT ![req[r].target] = req[r].role]
      BY <1>1 DEF CommitRole
    <2> QED
      BY <1>1, <2>1, ApplyFields DEF CommitRole, Shape, Ends
  <1>2. CASE CommitRemove(r)
    <2>1. Apply(r, "done") /\ members' = [members EXCEPT ![req[r].target] = NoRole]
      BY <1>2 DEF CommitRemove
    <2> QED
      BY <1>2, <2>1, ApplyFields DEF CommitRemove, Shape, Ends
  <1>3. CASE CommitAccept(r)
    <2>1. ~AcceptConflict(r)
      BY <1>3 DEF CommitAccept
    <2>2. /\ Apply(r, "applied") /\ members' = [members EXCEPT ![req[r].target] = req[r].role]
          /\ members[req[r].target] = NoRole
      BY <1>3, <2>1 DEF CommitAccept, AcceptConflict
    <2> QED
      BY <1>3, <2>2, ApplyFields DEF CommitAccept, Shape, Ends
  <1> QED
    BY <1>1, <1>2, <1>3

\* The owner check, for every instance: the last owner is lost only by a commit
\* that acts on stale reads.
THEOREM LastOwnerNeedsRace == Spec => LastOwnerLostOnlyOnStaleReads
  <1>1. ASSUME TypeInv, Decided, [Next]_vars, Owners # {}, Owners' = {}
        PROVE  \E r \in Requests : /\ req[r].pc = "audited" /\ req'[r].pc = "done"
                                   /\ \/ req[r].seen # Owners
                                      \/ req[r].loaded # members[req[r].target]
    <2>1. members' # members
      BY <1>1 DEF Owners
    <2>2. PICK r \in Requests : CommitRole(r) \/ CommitRemove(r) \/ CommitAccept(r)
      BY <1>1, <2>1, MembersStep
    <2>3. /\ req[r].target \in Users
          /\ members' = [members EXCEPT ![req[r].target] = req[r].role]
          /\ req[r].kind # "accept" => /\ req[r].kind \in {"change_role", "remove"}
                                       /\ req[r].pc = "audited" /\ req'[r].pc = "done"
          /\ req[r].kind = "accept" => members[req[r].target] = NoRole
      BY <1>1, <2>1, <2>2, MemberCommit
    <2>4. members \in [Users -> Roles \cup {NoRole}]
      BY <1>1 DEF TypeInv, TypeOK
    <2>5. Owners = {req[r].target} /\ req[r].role # "owner"
      BY <1>1, <2>3, <2>4 DEF Owners
    <2>6. req[r].kind # "accept"
      BY <2>3, <2>5, SentinelAssumption DEF Owners, Roles
    <2>7. Cardinality({req[r].target}) = 1
      BY FS_Singleton
    <2>8. ASSUME req[r].seen = Owners, req[r].loaded = members[req[r].target] PROVE FALSE
      <3>1. req[r].loaded = "owner"
        BY <2>5, <2>8 DEF Owners
      <3>2. Cardinality(req[r].seen) > 1
        BY <1>1, <2>3, <2>5, <2>6, <3>1 DEF Decided, DecidedBy
      <3> QED
        BY <2>5, <2>7, <2>8, <3>2
    <2> QED
      BY <2>3, <2>6, <2>8
  <1> QED
    BY <1>1, DecidedAlways, PTL DEF Spec, LastOwnerLostOnlyOnStaleReads

\* Only owners demote owners, for every instance, stale loads aside.
THEOREM OwnersDemoteOwners == Spec => OwnerDemotedByOwner
  <1>1. ASSUME TypeInv, Decided, [Next]_vars, NEW u \in Owners, u \notin Owners'
        PROVE  \E r \in Requests : /\ req[r].target = u /\ req[r].pc = "audited"
                                   /\ req'[r].pc = "done"
                                   /\ req[r].actorRole = "owner" \/ req[r].loaded # "owner"
    <2>1. members' # members /\ u \in Users
      BY <1>1 DEF Owners
    <2>2. PICK r \in Requests : CommitRole(r) \/ CommitRemove(r) \/ CommitAccept(r)
      BY <1>1, <2>1, MembersStep
    <2>3. /\ req[r].target \in Users
          /\ members' = [members EXCEPT ![req[r].target] = req[r].role]
          /\ req[r].kind # "accept" => /\ req[r].kind \in {"change_role", "remove"}
                                       /\ req[r].pc = "audited" /\ req'[r].pc = "done"
          /\ req[r].kind = "accept" => members[req[r].target] = NoRole
      BY <1>1, <2>1, <2>2, MemberCommit
    <2>4. req[r].target = u
      BY <1>1, <2>1, <2>3 DEF Owners, TypeInv, TypeOK
    <2>5. req[r].kind # "accept"
      BY <1>1, <2>3, <2>4, SentinelAssumption DEF Owners, Roles
    <2>6. req[r].actorRole = "owner" \/ req[r].loaded # "owner"
      BY <1>1, <2>3, <2>5 DEF Decided, DecidedBy
    <2> QED
      BY <2>3, <2>4, <2>5, <2>6
  <1>2. TypeInv /\ Decided /\ [Next]_vars =>
           \A u \in Owners : u \notin Owners' =>
              \E r \in Requests : /\ req[r].target = u /\ req[r].pc = "audited"
                                  /\ req'[r].pc = "done"
                                  /\ req[r].actorRole = "owner" \/ req[r].loaded # "owner"
    BY <1>1
  <1> QED
    BY <1>2, DecidedAlways, PTL DEF Spec, OwnerDemotedByOwner

----------------------------------------------------------------------------
(* Where roles come from                                                   *)

\* Every invitation written was granted, and a request that accepts one asks for
\* the role and the person it names.
InvitationsGranted ==
    /\ \A i \in Invitations : invs[i].st # "none" =>
          \E q \in Requests : Grants(q, invs[i].email, invs[i].role)
    /\ \A r \in Requests : req[r].kind = "accept" =>
          req[r].target = invs[req[r].inv].email /\ req[r].role = invs[req[r].inv].role

GrantInv == TypeInv /\ Decided /\ InvitationsGranted /\ RolesAreGranted

\* A request of some kind has arrived, so it persists: a grant is never lost.
LEMMA ArrivedPersist ==
  ASSUME TypeInv, Decided, [Next]_vars, NEW q \in Requests, req[q].kind # "none"
  PROVE  Persists(q) /\ audit \subseteq audit'
  <1>1. req[q].pc # "new"
    BY DEF Decided, DecidedBy
  <1> QED
    BY <1>1, RequestsPersist

\* The invitations table changes by creations, and otherwise only in state and age.
LEMMA InvitationStep ==
  ASSUME TypeInv, [Next]_vars, NEW i \in Invitations, invs'[i].st # "none"
  PROVE  \/ /\ invs[i].st # "none"
            /\ invs'[i].email = invs[i].email /\ invs'[i].role = invs[i].role
         \/ \E r \in Requests : /\ CommitInvite(r, i)
                                /\ invs'[i].email = req[r].target /\ invs'[i].role = req[r].role
  <1> USE DEF At, TypeInv, TypeOK, Shape, InvRecord
  <1>1. CASE invs' = invs
    BY <1>1
  <1>2. ASSUME NEW r \in Requests, CommitRevoke(r)
        PROVE  /\ invs[i].st # "none"
               /\ invs'[i].email = invs[i].email /\ invs'[i].role = invs[i].role
    BY <1>2 DEF CommitRevoke
  <1>3. ASSUME NEW r \in Requests, CommitAccept(r), invs' # invs
        PROVE  /\ invs[i].st # "none"
               /\ invs'[i].email = invs[i].email /\ invs'[i].role = invs[i].role
    BY <1>3 DEF CommitAccept
  <1>4. ASSUME NEW j \in Invitations, Expire(j)
        PROVE  /\ invs[i].st # "none"
               /\ invs'[i].email = invs[i].email /\ invs'[i].role = invs[i].role
    BY <1>4 DEF Expire, Pending
  <1>5. ASSUME NEW r \in Requests, NEW j \in Invitations, CommitInvite(r, j)
        PROVE  \/ /\ invs[i].st # "none"
                  /\ invs'[i].email = invs[i].email /\ invs'[i].role = invs[i].role
               \/ /\ CommitInvite(r, i)
                  /\ invs'[i].email = req[r].target /\ invs'[i].role = req[r].role
    BY <1>5 DEF CommitInvite
  <1>6. \/ invs' = invs
        \/ \E r \in Requests : CommitRevoke(r) \/ CommitAccept(r)
        \/ \E r \in Requests, j \in Invitations : CommitInvite(r, j)
        \/ \E j \in Invitations : Expire(j)
    BY DEF Next, Arrive, Resolve, StartCliInvite, AcceptRead, Step, LoadMember, CheckMember,
           CheckNotMember, CheckNotInvited, CheckRevocable, FlushRole, CommitAudit,
           CommitRole, CommitRemove, AuditAccept, Crash, SoftDelete, vars
  <1> QED
    BY <1>1, <1>2, <1>3, <1>4, <1>5, <1>6

\* Every invitation goes on being one that an entitled actor granted.
LEMMA NextInvitationsGranted == GrantInv /\ [Next]_vars => InvitationsGranted'
  <1> SUFFICES ASSUME GrantInv, [Next]_vars PROVE InvitationsGranted'
    OBVIOUS
  <1>0. TypeInv /\ Decided /\ InvitationsGranted
    BY DEF GrantInv
  <1>1. ASSUME NEW i \in Invitations, invs'[i].st # "none"
        PROVE  \E q \in Requests : Grants(q, invs[i].email, invs[i].role)'
    <2>1. CASE invs[i].st # "none" /\ invs'[i].email = invs[i].email /\ invs'[i].role = invs[i].role
      <3>1. PICK q \in Requests : Grants(q, invs[i].email, invs[i].role)
        BY <1>0, <2>1 DEF InvitationsGranted
      <3>2. Persists(q) /\ audit \subseteq audit'
        BY <1>0, <3>1, ArrivedPersist DEF Grants
      <3> QED
        BY <2>1, <3>1, <3>2 DEF Persists, Grants
    <2>2. ASSUME NEW r \in Requests, CommitInvite(r, i),
                 invs'[i].email = req[r].target, invs'[i].role = req[r].role
          PROVE  Grants(r, invs[i].email, invs[i].role)'
      <3>1. /\ req[r].kind \in {"invite", "cli_invite"}
            /\ req[r].kind = "invite" => req[r].pc = "audited"
            /\ req[r].pc \in {"checked", "audited"}
            /\ Apply(r, "done") /\ audit' = audit
        BY <2>2 DEF CommitInvite, At
      <3>2. req[r].role = "owner" => req[r].actorRole \in {"owner", "cli"}
        BY <1>0, <3>1 DEF Decided, DecidedBy
      <3>3. req[r].kind = "invite" => r \in audit
        BY <1>0, <3>1 DEF Decided, DecidedBy
      <3>4. /\ req'[r].kind = req[r].kind /\ req'[r].target = req[r].target
            /\ req'[r].role = req[r].role /\ req'[r].actorRole = req[r].actorRole
            /\ req'[r].applied
        BY <1>0, <3>1, ApplyFields DEF TypeInv
      <3> QED
        BY <2>2, <3>1, <3>2, <3>3, <3>4 DEF Grants
    <2> QED
      BY <1>0, <1>1, <2>1, <2>2, InvitationStep
  <1>2. ASSUME NEW r \in Requests, req'[r].kind = "accept"
        PROVE  /\ req'[r].target = invs'[req'[r].inv].email
               /\ req'[r].role = invs'[req'[r].inv].role
    <2>1. CASE req[r].pc # "new"
      <3>1. Persists(r)
        BY <1>0, <2>1, RequestsPersist
      <3>2. req[r].inv \in Invitations /\ invs[req[r].inv].st # "none"
        BY <1>0, <1>2, <3>1 DEF Persists, TypeInv, Shape
      <3>3. TypeInv'
        BY <1>0, NextTypeInv
      <3>4. invs'[req[r].inv].st # "none"
        BY <1>2, <3>1, <3>3 DEF Persists, TypeInv, Shape
      <3>5. /\ invs'[req[r].inv].email = invs[req[r].inv].email
            /\ invs'[req[r].inv].role = invs[req[r].inv].role
        BY <1>0, <3>2, <3>4, InvitationStep DEF CommitInvite
      <3> QED
        BY <1>0, <1>2, <3>1, <3>5 DEF Persists, InvitationsGranted
    <2>2. CASE req[r].pc = "new"
      <3>1. req[r].kind = "none"
        BY <1>0, <2>2 DEF Decided, DecidedBy
      <3>2. req'[r] # req[r]
        BY <1>2, <3>1
      <3>3. PICK p \in Requests : Step(p) \/ Crash(p) \/ \E ask \in Asks[p] : Arrive(p, ask)
        BY <3>2 DEF Next, Expire, SoftDelete, vars
      <3>4. p = r
        BY <1>0, <3>2, <3>3, OthersUntouched DEF TypeInv
      <3>5. ~Crash(r)
        BY <2>2 DEF Crash
      <3>6. ~Step(r)
        BY <2>2 DEF Step, At, LoadMember, CheckMember, CheckNotMember, CheckNotInvited,
                    CheckRevocable, FlushRole, CommitAudit, CommitRole, CommitRemove,
                    CommitRevoke, CommitInvite, CommitAccept, AuditAccept
      <3>7. PICK ask \in Asks[r] : Arrive(r, ask)
        BY <3>3, <3>4, <3>5, <3>6
      <3>8. req \in [Requests -> ReqRecord]
        BY <1>0 DEF TypeInv, TypeOK
      <3>9. ~StartCliInvite(r, ask)
        BY <1>2, <3>8 DEF StartCliInvite, NewReq
      <3>10. Resolve(r, ask) => req'[r].kind = ask.kind /\ ask.kind # "accept"
        BY <3>8 DEF Resolve, NewReq
      <3>11. AcceptRead(r, ask)
        BY <1>2, <3>7, <3>9, <3>10 DEF Arrive
      <3>12. /\ req'[r].inv = ask.inv /\ req'[r].target = invs[ask.inv].email
             /\ req'[r].role = invs[ask.inv].role /\ invs' = invs
        BY <3>8, <3>11 DEF AcceptRead, NewReq
      <3> QED
        BY <3>12
    <2> QED
      BY <2>1, <2>2
  <1> QED
    BY <1>1, <1>2 DEF InvitationsGranted, Grants

\* Every role held goes on being one that an entitled actor granted.
LEMMA NextRolesGranted == GrantInv /\ [Next]_vars => RolesAreGranted'
  <1> SUFFICES ASSUME GrantInv, [Next]_vars, NEW u \in Users, members'[u] # NoRole,
                      members'[u] # InitialRoles[u]
               PROVE  \E q \in Requests : Grants(q, u, members[u])'
    BY DEF RolesAreGranted, Grants
  <1>0. TypeInv /\ Decided /\ InvitationsGranted /\ RolesAreGranted
    BY DEF GrantInv
  <1>1. CASE members'[u] = members[u]
    <2>1. PICK q \in Requests : Grants(q, u, members[u])
      BY <1>0, <1>1 DEF RolesAreGranted
    <2>2. Persists(q) /\ audit \subseteq audit'
      BY <1>0, <2>1, ArrivedPersist DEF Grants
    <2> QED
      BY <1>1, <2>1, <2>2 DEF Persists, Grants
  <1>2. CASE members'[u] # members[u]
    <2>1. PICK r \in Requests : CommitRole(r) \/ CommitRemove(r) \/ CommitAccept(r)
      BY <1>2, MembersStep
    <2>2. /\ req[r].target \in Users
          /\ members' = [members EXCEPT ![req[r].target] = req[r].role]
          /\ req[r].kind # "accept" => /\ req[r].kind \in {"change_role", "remove"}
                                       /\ req[r].pc = "audited" /\ req'[r].pc = "done"
      BY <1>0, <1>2, <2>1, MemberCommit
    <2>3. req[r].target = u /\ members'[u] = req[r].role
      BY <1>0, <1>2, <2>2 DEF TypeInv, TypeOK
    <2>4. req[r].kind # "remove"
      BY <1>0, <2>3 DEF TypeInv, Shape
    <2>5. CASE req[r].kind = "accept"
      <3>1. req[r].inv \in Invitations /\ invs[req[r].inv].st # "none"
        BY <1>0, <2>5 DEF TypeInv, Shape
      <3>2. PICK q \in Requests : Grants(q, u, req[r].role)
        BY <1>0, <2>3, <2>5, <3>1 DEF InvitationsGranted
      <3>3. Persists(q) /\ audit \subseteq audit'
        BY <1>0, <3>2, ArrivedPersist DEF Grants
      <3> QED
        BY <2>3, <3>2, <3>3 DEF Persists, Grants
    <2>6. CASE req[r].kind = "change_role"
      <3>1. /\ r \in audit
            /\ req[r].role = "owner" => req[r].actorRole \in {"owner", "cli"}
        BY <1>0, <2>2, <2>6 DEF Decided, DecidedBy
      <3>2. Persists(r) /\ audit \subseteq audit'
        BY <1>0, <2>6, ArrivedPersist
      <3> QED
        BY <2>3, <2>6, <3>1, <3>2 DEF Persists, Grants
    <2> QED
      BY <2>2, <2>4, <2>5, <2>6
  <1> QED
    BY <1>1, <1>2

\* Nobody holds a role that no entitled actor granted, for every instance and
\* every interleaving of invitations, acceptances, role changes and revocations.
THEOREM RolesGranted == Spec => []RolesAreGranted
  <1>1. Init => InvitationsGranted /\ RolesAreGranted /\ Decided
    BY DEF Init, InvitationsGranted, RolesAreGranted, Decided, DecidedBy, NewReq
  <1>2. Init => GrantInv
    BY <1>1, InitTypeInv DEF GrantInv
  <1>3. GrantInv /\ [Next]_vars => GrantInv'
    BY NextTypeInv, NextDecided, NextInvitationsGranted, NextRolesGranted DEF GrantInv
  <1>4. GrantInv => RolesAreGranted
    BY DEF GrantInv
  <1> QED
    BY <1>2, <1>3, <1>4, PTL DEF Spec

----------------------------------------------------------------------------
(* Acceptances                                                             *)

\* Memberships are never overwritten by acceptances, for every instance.
THEOREM RolesChangeInPlaceByRoleChanges == Spec => RoleChangedOnlyByRoleChange
  <1>1. ASSUME TypeInv, Decided, [Next]_vars, NEW u \in Users, members[u] # NoRole,
               members'[u] \notin {NoRole, members[u]}
        PROVE  \E r \in Requests : /\ req[r].kind = "change_role" /\ req[r].target = u
                                   /\ r \in audit /\ ~req[r].applied /\ req'[r].applied
    <2>1. members' # members
      BY <1>1
    <2>2. PICK r \in Requests : CommitRole(r) \/ CommitRemove(r) \/ CommitAccept(r)
      BY <1>1, <2>1, MembersStep
    <2>3. /\ req[r].target \in Users
          /\ members' = [members EXCEPT ![req[r].target] = req[r].role]
          /\ req'[r].applied
          /\ req[r].kind # "accept" => /\ req[r].kind \in {"change_role", "remove"}
                                       /\ req[r].pc = "audited" /\ req'[r].pc = "done"
          /\ req[r].kind = "accept" => members[req[r].target] = NoRole
      BY <1>1, <2>1, <2>2, MemberCommit
    <2>4. req[r].target = u /\ req[r].role # NoRole
      BY <1>1, <2>3 DEF TypeInv, TypeOK
    <2>5. req[r].kind = "change_role" /\ req[r].pc = "audited"
      BY <1>1, <2>3, <2>4 DEF TypeInv, Shape
    <2>6. r \in audit /\ ~req[r].applied
      BY <1>1, <2>5 DEF Decided, DecidedBy, Ends
    <2> QED
      BY <2>3, <2>4, <2>5, <2>6
  <1>2. TypeInv /\ Decided /\ [Next]_vars =>
          \A u \in Users : members[u] # NoRole /\ members'[u] \notin {NoRole, members[u]} =>
             \E r \in Requests : /\ req[r].kind = "change_role" /\ req[r].target = u
                                 /\ r \in audit /\ ~req[r].applied /\ req'[r].applied
    BY <1>1
  <1> QED
    BY <1>2, DecidedAlways, PTL DEF Spec, RoleChangedOnlyByRoleChange

\* A committed revocation is final, for every instance: no acceptance in flight
\* grants its role afterwards.
THEOREM RevocationIsFinal == Spec => RevokedInvitationGrantsNothing
  <1>1. ASSUME TypeInv, Decided, [Next]_vars, NEW r \in Requests,
               req[r].kind = "accept", ~req[r].applied, req'[r].applied
        PROVE  invs[req[r].inv].st # "gone"
    <2>0. req[r].pc # "new"
      BY <1>1 DEF Decided, DecidedBy
    <2>1. req'[r] # req[r]
      BY <1>1
    <2>2. PICK p \in Requests : Step(p) \/ Crash(p) \/ \E ask \in Asks[p] : Arrive(p, ask)
      BY <1>1, <2>1 DEF Next, Expire, SoftDelete, vars
    <2>3. p = r
      BY <1>1, <2>1, <2>2, OthersUntouched DEF TypeInv
    <2>4. \A ask \in Asks[r] : ~Arrive(r, ask)
      BY <2>0 DEF Arrive, Resolve, StartCliInvite, AcceptRead
    <2>5. ~Crash(r) /\ ~AuditAccept(r)
      BY <1>1 DEF Crash, AuditAccept, Goto, TypeInv, TypeOK, ReqRecord
    <2>6. Step(r) => CommitAccept(r) \/ AuditAccept(r)
      BY <1>1 DEF Step, At, LoadMember, CheckMember, CheckNotMember, CheckNotInvited,
                  CheckRevocable, FlushRole, CommitAudit, CommitRole, CommitRemove,
                  CommitRevoke, CommitInvite
    <2>7. CommitAccept(r)
      BY <2>2, <2>3, <2>4, <2>5, <2>6
    <2>8. ~AcceptConflict(r)
      BY <1>1, <2>7 DEF CommitAccept, Goto, TypeInv, TypeOK, ReqRecord
    <2> QED
      BY <2>8 DEF AcceptConflict
  <1>2. TypeInv /\ Decided /\ [Next]_vars =>
          \A r \in Requests : req[r].kind = "accept" /\ ~req[r].applied /\ req'[r].applied =>
             invs[req[r].inv].st # "gone"
    BY <1>1
  <1> QED
    BY <1>2, DecidedAlways, PTL DEF Spec, RevokedInvitationGrantsNothing

----------------------------------------------------------------------------
(* Why requests finish: nobody waits for ever on a row, nobody turns round *)

\* The row locks: one UPDATE at a time holds a membership row.
RowsExclusive ==
    \A p, q \in Requests, u \in Users : HoldsRow(p, u) /\ HoldsRow(q, u) => p = q

\* Who holds a row finds it free for its own commit: a waiting request waits for
\* one that does not wait.
HoldersRun == \A q \in Requests, u \in Users : HoldsRow(q, u) => RowFree(q)

\* How far a request has come.
Rank(place) ==
    CASE place = "new" -> 0 [] place = "resolved" -> 1 [] place = "loaded" -> 2
      [] place = "checked" -> 3 [] place = "flushed" -> 4 [] place = "audited" -> 5
      [] place = "applied" -> 6 [] place \in Ends -> 7

\* Every step of a request brings it nearer to its end, and none sets another back.
StepsAdvance ==
    [][\A r \in Requests : req'[r] # req[r] => Rank(req'[r].pc) > Rank(req[r].pc)]_vars

\* The ranks, place by place.
LEMMA Ranks ==
  /\ Rank("new") = 0 /\ Rank("resolved") = 1 /\ Rank("loaded") = 2 /\ Rank("checked") = 3
  /\ Rank("flushed") = 4 /\ Rank("audited") = 5 /\ Rank("applied") = 6
  /\ Rank("done") = 7 /\ Rank("refused") = 7 /\ Rank("crashed") = 7
  BY DEF Rank, Ends

\* An arriving request was new and holds nothing.
LEMMA ArrivedPlace ==
  ASSUME TypeInv, NEW r \in Requests, NEW ask \in Asks[r], Arrive(r, ask)
  PROVE  req[r].pc = "new" /\ req'[r].pc \in {"resolved", "checked"}
  <1> USE DEF TypeInv, TypeOK
  <1>1. CASE Resolve(r, ask)
    BY <1>1 DEF Resolve, NewReq
  <1>2. CASE StartCliInvite(r, ask)
    BY <1>2 DEF StartCliInvite, NewReq
  <1>3. CASE AcceptRead(r, ask)
    BY <1>3 DEF AcceptRead, NewReq
  <1> QED
    BY <1>1, <1>2, <1>3 DEF Arrive

\* A request gets hold of a row when it flushes its UPDATE, which waits until the
\* row is free; what it holds afterwards it held before.
LEMMA HoldsSince ==
  ASSUME TypeInv, NEW r \in Requests, NEW u \in Users, HoldsRow(r, u)',
         Step(r) \/ Crash(r) \/ \E ask \in Asks[r] : Arrive(r, ask)
  PROVE  HoldsRow(r, u) \/ (RowFree(r) /\ req[r].target = u)
  <1> USE DEF TypeInv, TypeOK, ReqRecord, At, HoldsRow, Writes
  <1>1. CASE Crash(r) \/ AuditAccept(r)
    BY <1>1 DEF Crash, AuditAccept, Goto
  <1>2. CASE \E ask \in Asks[r] : Arrive(r, ask)
    BY <1>2, ArrivedPlace
  <1>3. CASE LoadMember(r) \/ CheckMember(r)
    BY <1>3 DEF LoadMember, CheckMember, Goto
  <1>4. CASE CheckNotMember(r) \/ CheckNotInvited(r) \/ CheckRevocable(r)
    BY <1>4 DEF CheckNotMember, CheckNotInvited, CheckRevocable, Goto
  <1>5. CASE FlushRole(r)
    BY <1>5 DEF FlushRole, Goto
  <1>6. CASE CommitAudit(r)
    BY <1>6 DEF CommitAudit, NeedsFlush, Goto
  <1>7. CASE CommitRole(r) \/ CommitRemove(r) \/ CommitRevoke(r) \/ CommitAccept(r)
             \/ \E i \in Invitations : CommitInvite(r, i)
    <2>1. Apply(r, "done") \/ Apply(r, "applied") \/ Goto(r, "refused")
      BY <1>7 DEF CommitRole, CommitRemove, CommitRevoke, CommitAccept, CommitInvite
    <2>2. req'[r].pc \notin {"flushed", "audited"}
      BY <2>1, ApplyFields DEF Goto
    <2> QED
      BY <2>2
  <1> QED
    BY <1>1, <1>2, <1>3, <1>4, <1>5, <1>6, <1>7 DEF Step

\* No step makes two requests hold the same row.
LEMMA NextRowsExclusive == TypeInv /\ RowsExclusive /\ [Next]_vars => RowsExclusive'
  <1> SUFFICES ASSUME TypeInv, RowsExclusive, [Next]_vars,
                      NEW p \in Requests, NEW q \in Requests, NEW u \in Users,
                      HoldsRow(p, u)', HoldsRow(q, u)', p # q
               PROVE  FALSE
    BY DEF RowsExclusive
  <1>1. ASSUME NEW r \in Requests, Step(r) \/ Crash(r) \/ \E ask \in Asks[r] : Arrive(r, ask)
        PROVE  FALSE
    <2>1. \A o \in Requests \ {r} : HoldsRow(o, u)' => HoldsRow(o, u)
      BY <1>1, OthersUntouched DEF TypeInv, HoldsRow, Writes
    <2>2. HoldsRow(r, u)' => HoldsRow(r, u) \/ \A o \in Requests \ {r} : ~HoldsRow(o, u)
      BY <1>1, HoldsSince DEF RowFree
    <2> QED
      BY <2>1, <2>2 DEF RowsExclusive
  <1>2. CASE (\E i \in Invitations : Expire(i)) \/ SoftDelete \/ UNCHANGED vars
    <2>1. req' = req
      BY <1>2 DEF Expire, SoftDelete, vars
    <2> QED
      BY <2>1 DEF HoldsRow, Writes, RowsExclusive
  <1> QED
    BY <1>1, <1>2 DEF Next

\* For any number of requests there is no circular wait on membership rows: the
\* holder of a row never waits for one, so each waiting request waits for one that
\* can go on.
THEOREM NoCircularWait == Spec => []HoldersRun
  <1>1. Init => RowsExclusive
    BY DEF Init, NewReq, RowsExclusive, HoldsRow
  <1>2. RowsExclusive => HoldersRun
    BY DEF RowsExclusive, HoldersRun, RowFree, HoldsRow
  <1> QED
    BY <1>1, <1>2, InitTypeInv, NextTypeInv, NextRowsExclusive, PTL DEF Spec

\* For any number of requests, each takes at most seven steps: whatever moves it
\* moves it towards its end.
THEOREM RequestsAdvance == Spec => StepsAdvance
  <1>1. ASSUME TypeInv, NEW r \in Requests,
               Step(r) \/ Crash(r) \/ \E ask \in Asks[r] : Arrive(r, ask)
        PROVE  Rank(req'[r].pc) > Rank(req[r].pc)
    <2> USE <1>1, Ranks DEF TypeInv, TypeOK, ReqRecord, At
    <2>1. CASE Crash(r)
      BY <2>1 DEF Crash, Goto, Places, Ends
    <2>2. CASE \E ask \in Asks[r] : Arrive(r, ask)
      BY <2>2, ArrivedPlace
    <2>3. CASE LoadMember(r) \/ CheckMember(r)
      BY <2>3 DEF LoadMember, CheckMember, Goto
    <2>4. CASE CheckNotMember(r) \/ CheckNotInvited(r) \/ CheckRevocable(r)
      BY <2>4 DEF CheckNotMember, CheckNotInvited, CheckRevocable, Goto
    <2>5. CASE FlushRole(r) \/ CommitAudit(r) \/ AuditAccept(r)
      BY <2>5 DEF FlushRole, CommitAudit, AuditAccept, Goto
    <2>6. CASE CommitRole(r) \/ CommitRemove(r) \/ CommitRevoke(r) \/ CommitAccept(r)
               \/ \E i \in Invitations : CommitInvite(r, i)
      <3>1. /\ req[r].pc \in {"checked", "audited"}
            /\ Apply(r, "done") \/ Apply(r, "applied") \/ Goto(r, "refused")
        BY <2>6 DEF CommitRole, CommitRemove, CommitRevoke, CommitAccept, CommitInvite
      <3>2. req'[r].pc \in {"done", "applied", "refused"}
        BY <3>1, ApplyFields DEF Goto
      <3> QED
        BY <3>1, <3>2
    <2> QED
      BY <1>1, <2>1, <2>2, <2>3, <2>4, <2>5, <2>6 DEF Step
  <1>2. ASSUME TypeInv, [Next]_vars, NEW q \in Requests, req'[q] # req[q]
        PROVE  Rank(req'[q].pc) > Rank(req[q].pc)
    <2>1. PICK r \in Requests : Step(r) \/ Crash(r) \/ \E ask \in Asks[r] : Arrive(r, ask)
      BY <1>2 DEF Next, Expire, SoftDelete, vars
    <2>2. r = q
      BY <1>2, <2>1, OthersUntouched DEF TypeInv
    <2> QED
      BY <1>1, <1>2, <2>1, <2>2
  <1>3. TypeInv /\ [Next]_vars =>
          \A r \in Requests : req'[r] # req[r] => Rank(req'[r].pc) > Rank(req[r].pc)
    BY <1>2
  <1> QED
    BY <1>3, InitTypeInv, NextTypeInv, PTL DEF Spec, StepsAdvance

=============================================================================
