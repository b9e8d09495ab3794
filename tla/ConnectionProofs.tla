-------------------------- MODULE ConnectionProofs --------------------------
(***************************************************************************)
(* Proofs about Connection, for every set of workers, every assignment of  *)
(* jobs to them, every number of tokens and both providers: types, mutual  *)
(* exclusion of refreshes, refresh tokens kept by concurrent refreshes,    *)
(* clean revocations, what can revive a revoked connection, the only place *)
(* where workers wait in a circle, and that no operation turns round.      *)
(***************************************************************************)
EXTENDS Connection, TLAPS

----------------------------------------------------------------------------
(* Types                                                                   *)

\* A worker that has loaded nothing yet is a worker.
LEMMA BlankType ==
    ASSUME NEW k \in Kinds \cup {"none"}, NEW p \in Places
    PROVE  Blank(k, p) \in Work
  BY MaxTokensAssumption DEF Blank, Work, Statuses, Tokens, Outcomes

\* So is an idle one.
LEMMA IdleType == Idle \in Work
  BY BlankType DEF Idle, Places

\* The moves of Goto, Finish, Hold, Begin, Forget and Raise keep the workers typed.
LEMMA GotoType ==
    ASSUME TypeOK, NEW w \in Workers, NEW p \in Places, Goto(w, p)
    PROVE  work' \in [Workers -> Work]
  BY DEF TypeOK, Goto, Work

\* Ending an operation keeps the type of the workers.
LEMMA FinishType ==
    ASSUME TypeOK, NEW w \in Workers, Finish(w)
    PROVE  work' \in [Workers -> Work]
  BY IdleType DEF TypeOK, Finish

\* Going on with a typed record keeps the type of the workers.
LEMMA HoldType ==
    ASSUME TypeOK, NEW w \in Workers, NEW rec \in Work, Hold(w, rec)
    PROVE  work' \in [Workers -> Work]
  BY DEF TypeOK, Hold

\* Taking up an operation with a typed record does too.
LEMMA BeginType ==
    ASSUME TypeOK, NEW w \in Workers, NEW k, NEW rec \in Work, Begin(w, k, rec)
    PROVE  work' \in [Workers -> Work]
  BY HoldType DEF Begin

\* So does going on with everything forgotten but the kind of operation.
LEMMA ForgetType ==
    ASSUME TypeOK, NEW w \in Workers, NEW p \in Places, Forget(w, p)
    PROVE  work' \in [Workers -> Work]
<1>1. work[w].kind \in Kinds \cup {"none"}
  BY DEF TypeOK, Work
<1>2. Blank(work[w].kind, p) \in Work
  BY <1>1, BlankType
<1> QED BY <1>2, HoldType DEF Forget

\* One field of a worker's record changes.
LEMMA FieldType ==
    ASSUME NEW r \in Work
    PROVE  /\ \A x \in Statuses : [r EXCEPT !.status = x] \in Work
           /\ \A x \in Tokens : [r EXCEPT !.refresh = x] \in Work
           /\ \A x \in BOOLEAN : [r EXCEPT !.access = x] \in Work
           /\ \A x \in Tokens : [r EXCEPT !.got = x] \in Work
           /\ \A x \in Outcomes : [r EXCEPT !.out = x] \in Work
<1>1. \A x \in Statuses : [r EXCEPT !.status = x] \in Work
  BY DEF Work
<1>2. \A x \in Tokens : [r EXCEPT !.refresh = x] \in Work
  BY DEF Work
<1>3. \A x \in BOOLEAN : [r EXCEPT !.access = x] \in Work
  BY DEF Work
<1>4. \A x \in Tokens : [r EXCEPT !.got = x] \in Work
  BY DEF Work
<1>5. \A x \in Outcomes : [r EXCEPT !.out = x] \in Work
  BY DEF Work
<1> QED BY <1>1, <1>2, <1>3, <1>4, <1>5

\* The records the operations build from a blank one, field after field.
LEMMA RecordType ==
    ASSUME NEW k \in Kinds \cup {"none"}, NEW p \in Places, NEW s \in Statuses,
           NEW t \in Tokens, NEW a \in BOOLEAN, NEW g \in Tokens, NEW o \in Outcomes
    PROVE  /\ [Blank(k, p) EXCEPT !.refresh = t] \in Work
           /\ [Blank(k, p) EXCEPT !.refresh = t, !.access = a] \in Work
           /\ [Blank(k, p) EXCEPT !.status = s, !.refresh = t] \in Work
           /\ [Blank(k, p) EXCEPT !.status = s, !.got = g] \in Work
           /\ [Blank(k, p) EXCEPT !.status = s, !.out = o, !.got = g] \in Work
           /\ [Blank(k, p) EXCEPT !.out = o] \in Work
           /\ [Blank(k, p) EXCEPT !.got = g] \in Work
<1> DEFINE b == Blank(k, p)
<1>1. b \in Work
  BY BlankType
<1> HIDE DEF b
<1>2. [b EXCEPT !.refresh = t, !.access = a] = [[b EXCEPT !.refresh = t] EXCEPT !.access = a]
  BY <1>1 DEF Work
<1>3. [b EXCEPT !.status = s, !.refresh = t] = [[b EXCEPT !.status = s] EXCEPT !.refresh = t]
  BY <1>1 DEF Work
<1>4. [b EXCEPT !.status = s, !.got = g] = [[b EXCEPT !.status = s] EXCEPT !.got = g]
  BY <1>1 DEF Work
<1>5. [b EXCEPT !.status = s, !.out = o, !.got = g]
        = [[[b EXCEPT !.status = s] EXCEPT !.out = o] EXCEPT !.got = g]
  BY <1>1 DEF Work
<1>6. /\ [b EXCEPT !.refresh = t] \in Work
      /\ [b EXCEPT !.status = s] \in Work
      /\ [b EXCEPT !.out = o] \in Work
      /\ [b EXCEPT !.got = g] \in Work
  BY <1>1, FieldType
<1>7. [[b EXCEPT !.refresh = t] EXCEPT !.access = a] \in Work
  BY <1>6, FieldType
<1>8. /\ [[b EXCEPT !.status = s] EXCEPT !.refresh = t] \in Work
      /\ [[b EXCEPT !.status = s] EXCEPT !.got = g] \in Work
      /\ [[b EXCEPT !.status = s] EXCEPT !.out = o] \in Work
  BY <1>6, FieldType
<1>9. [[[b EXCEPT !.status = s] EXCEPT !.out = o] EXCEPT !.got = g] \in Work
  BY <1>8, FieldType
<1> QED BY <1>2, <1>3, <1>4, <1>5, <1>6, <1>7, <1>8, <1>9 DEF b

\* Going on with a status, an outcome and a token keeps the type of the workers.
LEMMA KeepType ==
    ASSUME TypeOK, NEW w \in Workers, NEW p \in Places, NEW s \in Statuses, NEW o \in Outcomes,
           NEW g \in Tokens, Keep(w, p, s, o, g)
    PROVE  work' \in [Workers -> Work]
<1>1. work[w].kind \in Kinds \cup {"none"}
  BY DEF TypeOK, Work
<1>2. [Blank(work[w].kind, p) EXCEPT !.status = s, !.out = o, !.got = g] \in Work
  BY <1>1, RecordType DEF Tokens
<1> QED BY <1>2, HoldType DEF Keep

\* And so does a refresh that raises in its caller.
LEMMA RaiseType ==
    ASSUME TypeOK, NEW w \in Workers, Raise(w)
    PROVE  work' \in [Workers -> Work]
<1>1. work[w].status \in Statuses /\ work[w].out \in Outcomes /\ 0 \in Tokens
  BY MaxTokensAssumption DEF TypeOK, Work, Tokens
<1>2. CASE work[w].kind = "renew"
  BY <1>1, <1>2, KeepType DEF Raise, Places
<1>3. CASE work[w].kind # "renew"
  BY <1>3, FinishType DEF Raise
<1> QED BY <1>2, <1>3

\* The columns of a typed row.
LEMMA RowType ==
    ASSUME row \in Row
    PROVE  /\ \A x \in Statuses : [row EXCEPT !.status = x] \in Row
           /\ \A x \in Expiries : [row EXCEPT !.expiry = x] \in Row
           /\ row.status \in Statuses /\ row.refresh \in Tokens
           /\ row.access \in BOOLEAN /\ row.expiry \in Expiries
  BY DEF Row

\* apply_token_bundle writes a row.
LEMMA ApplyBundleType ==
    ASSUME TypeOK, NEW w \in Workers
    PROVE  ApplyBundle(w) \in Row
<1>1. row.status \in Statuses /\ row.refresh \in Tokens
  BY RowType DEF TypeOK
<1>2. work[w].got \in Tokens
  BY DEF TypeOK, Work
<1>3. Column(work[w].status, "active", row.status) \in Statuses
  BY <1>1 DEF Column, Statuses
<1> QED BY <1>1, <1>2, <1>3 DEF ApplyBundle, Row, Expiries

\* Every operation starts with the types kept.
LEMMA TypeStart ==
    ASSUME TypeOK, NEW w \in Workers, Start(w)
    PROVE  TypeOK'
<1> USE DEF rowVars, lockVars, providerVars
<1>1. row.status \in Statuses /\ row.refresh \in Tokens /\ row.access \in BOOLEAN
  BY RowType DEF TypeOK
<1>2. TokenPlace \in Places /\ {"acquire", "wait", "consent", "remote"} \subseteq Places
  BY DEF TokenPlace, Places
<1>3. CASE BeatSelect(w)
  <2>1. [Blank("beat", "acquire") EXCEPT !.refresh = row.refresh] \in Work
    BY <1>1, <1>2, RecordType DEF Kinds, Outcomes
  <2> QED BY <1>3, <2>1, BeginType DEF BeatSelect, TypeOK
<1>4. CASE UseStart(w)
  <2>1. Blank("use", "wait") \in Work
    BY <1>2, BlankType DEF Kinds
  <2> QED BY <1>4, <2>1, BeginType DEF UseStart, TypeOK
<1>5. CASE SyncStart(w)
  <2>1. Blank("sync", TokenPlace) \in Work
    BY <1>2, BlankType DEF Kinds
  <2> QED BY <1>5, <2>1, BeginType DEF SyncStart, TypeOK
<1>6. CASE RenewStart(w)
  <2>1. Blank("renew", TokenPlace) \in Work
    BY <1>2, BlankType DEF Kinds
  <2> QED BY <1>6, <2>1, BeginType DEF RenewStart, TypeOK
<1>7. CASE ReconsentStart(w)
  <2>1. Blank("reconsent", "consent") \in Work
    BY <1>2, BlankType DEF Kinds
  <2> QED BY <1>7, <2>1, BeginType DEF ReconsentStart, TypeOK
<1>8. CASE ConnectStart(w)
  <2>1. Blank("connect", "consent") \in Work
    BY <1>2, BlankType DEF Kinds
  <2> QED BY <1>8, <2>1, BeginType DEF ConnectStart, TypeOK
<1>9. CASE RevokeStart(w)
  <2>1. [Blank("revoke", "remote") EXCEPT !.refresh = row.refresh, !.access = row.access] \in Work
    BY <1>1, <1>2, RecordType DEF Kinds, Outcomes
  <2> QED BY <1>9, <2>1, BeginType DEF RevokeStart, TypeOK
<1> QED BY <1>3, <1>4, <1>5, <1>6, <1>7, <1>8, <1>9 DEF Start

\* Every step of an operation keeps the types.
LEMMA TypeStep ==
    ASSUME TypeOK, NEW w \in Workers, Step(w)
    PROVE  TypeOK'
<1> USE DEF rowVars, lockVars, providerVars
<1>0. /\ row.status \in Statuses /\ row.refresh \in Tokens /\ row.access \in BOOLEAN
      /\ work[w].kind \in Kinds \cup {"none"} /\ work[w].status \in Statuses
      /\ work[w].refresh \in Tokens /\ work[w].access \in BOOLEAN /\ work[w].got \in Tokens
      /\ 0 \in Tokens /\ issued \in Tokens
      /\ issued < MaxTokens => issued + 1 \in Tokens
  <2>1. issued \in Tokens /\ issued \in Nat
    BY MaxTokensAssumption DEF TypeOK, Tokens
  <2>2. issued < MaxTokens => issued + 1 \in Tokens
    BY <2>1, MaxTokensAssumption DEF Tokens
  <2> QED BY <2>1, <2>2, RowType, MaxTokensAssumption DEF TypeOK, Work, Tokens
<1>1. CASE BeatAcquire(w)
  BY <1>1, GotoType, FinishType DEF BeatAcquire, Take, TypeOK, Owner, Places
<1>2. CASE WaitAcquire(w)
  BY <1>2, GotoType DEF WaitAcquire, Take, TypeOK, Owner, Places
<1>3. CASE GiveUp(w)
  BY <1>3, RaiseType DEF GiveUp, TypeOK
<1>4. CASE Reread(w)
  <2>1. [Blank(work[w].kind, "grant") EXCEPT !.status = row.status, !.refresh = row.refresh] \in Work
    BY <1>0, RecordType DEF Places, Outcomes
  <2>2. work' \in [Workers -> Work]
    BY <1>0, <1>4, <2>1, HoldType, KeepType DEF Reread, Places, Outcomes
  <2> QED BY <1>4, <2>2 DEF Reread, TypeOK
<1>5. CASE GrantOk(w)
  <2>1. CASE provider = "microsoft"
    <3>1. issued' \in Tokens
      BY <1>0, <1>5, <2>1 DEF GrantOk
    <3>2. work' \in [Workers -> Work]
      BY <1>0, <1>5, <2>1, <3>1, KeepType DEF GrantOk, Granted, Places, Outcomes
    <3> QED BY <1>5, <2>1, <3>1, <3>2 DEF GrantOk, TypeOK
  <2>2. CASE provider # "microsoft"
    <3>1. work' \in [Workers -> Work]
      BY <1>0, <1>5, <2>2, KeepType DEF GrantOk, Granted, Places, Outcomes
    <3> QED BY <1>5, <2>2, <3>1 DEF GrantOk, TypeOK
  <2> QED BY <2>1, <2>2
<1>6. CASE GrantFails(w)
  <2>1. work' \in [Workers -> Work]
    BY <1>0, <1>6, KeepType DEF GrantFails, Granted, Places, Outcomes
  <2> QED BY <1>6, <2>1 DEF GrantFails, TypeOK
<1>7. CASE FlushFailure(w)
  BY <1>7, GotoType DEF FlushFailure, TypeOK, Places
<1>8. CASE ReleaseGet(w)
  <2>1. work' \in [Workers -> Work]
    BY <1>8, GotoType DEF ReleaseGet, Places
  <2> QED BY <1>8, <2>1 DEF ReleaseGet, TypeOK
<1>9. CASE ReleaseDelete(w)
  BY <1>9, GotoType DEF ReleaseDelete, TypeOK, Owner, Places
<1>10. CASE CommitRefresh(w)
  <2>1. row' \in Row
    <3>1. Column(work[w].status, "needs_reconsent", row.status) \in Statuses
      BY <1>0 DEF Column, Statuses
    <3>2. [row EXCEPT !.status = Column(work[w].status, "needs_reconsent", row.status)] \in Row
      BY <3>1, RowType DEF TypeOK
    <3> QED BY <1>10, <3>2, ApplyBundleType DEF CommitRefresh, TypeOK
  <2>2. KnownStatus(w) \in Statuses
    BY <1>0 DEF KnownStatus, Statuses
  <2>3. \/ Raise(w) \/ Forget(w, "call") \/ Finish(w)
        \/ Keep(w, "call", KnownStatus(w), "none", 0)
    BY <1>10 DEF CommitRefresh
  <2>4. work' \in [Workers -> Work]
    BY <1>0, <2>2, <2>3, RaiseType, ForgetType, FinishType, KeepType DEF Places, Outcomes
  <2> QED BY <1>10, <2>1, <2>4 DEF CommitRefresh, TypeOK
<1>11. CASE CallProvider(w)
  <2>1. subs' \in BOOLEAN
    BY <1>11 DEF CallProvider, TypeOK
  <2>2. work' \in [Workers -> Work]
    BY <1>11, FinishType, ForgetType DEF CallProvider, Places
  <2> QED BY <1>11, <2>1, <2>2 DEF CallProvider, TypeOK
<1>22. CASE CommitRenewal(w)
  <2>1. subs' \in BOOLEAN
    BY <1>22 DEF CommitRenewal
  <2>2. work' \in [Workers -> Work]
    BY <1>22, FinishType DEF CommitRenewal
  <2> QED BY <1>22, <2>1, <2>2 DEF CommitRenewal, TypeOK
<1>23. CASE FlushRevoke(w)
  BY <1>23, GotoType DEF FlushRevoke, TypeOK, Places
<1>24. CASE GrantLost(w)
  <2>1. issued' \in Tokens
    BY <1>0, <1>24 DEF GrantLost
  <2>2. work' \in [Workers -> Work]
    BY <1>0, <1>24, KeepType DEF GrantLost, Granted, Places, Outcomes, TypeOK
  <2> QED BY <1>24, <2>1, <2>2 DEF GrantLost, TypeOK
<1>12. CASE CallFails(w)
  BY <1>12, RaiseType DEF CallFails, TypeOK
<1>13. CASE RenewFails(w)
  <2>1. Column(work[w].status, "error", row.status) \in Statuses
    BY <1>0 DEF Column, Statuses
  <2>2. row' \in Row
    BY <1>13, <2>1, RowType DEF RenewFails, TypeOK
  <2> QED BY <1>13, <2>2, FinishType DEF RenewFails, TypeOK
<1>14. CASE Consent(w)
  <2>1. CASE issued' = issued + 1 /\ valid' = valid \cup {issued'}
             /\ Hold(w, [Blank(work[w].kind, "load") EXCEPT !.got = issued'])
    <3>1. issued' \in Tokens
      BY <1>0, <1>14, <2>1 DEF Consent
    <3>2. [Blank(work[w].kind, "load") EXCEPT !.got = issued'] \in Work
      BY <1>0, <3>1, RecordType DEF Places, Outcomes
    <3> QED BY <1>14, <2>1, <3>1, <3>2, HoldType DEF Consent, TypeOK
  <2>2. CASE Goto(w, "load") /\ UNCHANGED providerVars
    BY <1>14, <2>2, GotoType DEF Consent, TypeOK, Places
  <2> QED BY <1>14, <2>1, <2>2 DEF Consent
<1>15. CASE ConsentDenied(w)
  BY <1>15, FinishType DEF ConsentDenied, TypeOK
<1>16. CASE LoadForUpsert(w)
  <2>2. work' \in [Workers -> Work]
    BY <1>0, <1>16, FinishType, KeepType DEF LoadForUpsert, Places, Outcomes
  <2> QED BY <1>16, <2>2 DEF LoadForUpsert, TypeOK
<1>17. CASE CommitUpsert(w)
  BY <1>17, ApplyBundleType, ForgetType DEF CommitUpsert, TypeOK, Places
<1>18. CASE EnsureRoute(w)
  BY <1>18, FinishType DEF EnsureRoute, TypeOK
<1>19. CASE RevokeRemote(w)
  BY <1>19, GotoType DEF RevokeRemote, TypeOK, Places
<1>20. CASE CommitRevoke(w)
  <2>1. row' \in Row
    <3>1. /\ Column(work[w].refresh, 0, row.refresh) \in Tokens
          /\ Column(work[w].access, FALSE, row.access) \in BOOLEAN
      BY <1>0 DEF Column
    <3> DEFINE a == Column(work[w].refresh, 0, row.refresh)
               b == Column(work[w].access, FALSE, row.access)
    <3>2. a \in Tokens /\ b \in BOOLEAN
      BY <3>1
    <3>3. row' = [row EXCEPT !.status = "revoked", !.refresh = a, !.access = b]
      BY <1>20 DEF CommitRevoke
    <3> HIDE DEF a, b
    <3>4. row' = [status |-> "revoked", refresh |-> a, access |-> b, expiry |-> row.expiry]
      BY <3>3 DEF TypeOK, Row
    <3> QED BY <3>2, <3>4, RowType DEF TypeOK, Row, Statuses
  <2>2. raced' \in BOOLEAN
    BY <1>20 DEF CommitRevoke
  <2>3. work' \in [Workers -> Work]
    BY <1>20, ForgetType DEF CommitRevoke, Places
  <2> QED BY <1>20, <2>1, <2>2, <2>3 DEF CommitRevoke, TypeOK
<1>21. CASE DropRoute(w)
  BY <1>21, FinishType DEF DropRoute, TypeOK
<1> QED BY <1>1, <1>2, <1>3, <1>4, <1>5, <1>6, <1>7, <1>8, <1>9, <1>10, <1>11, <1>12, <1>13,
           <1>14, <1>15, <1>16, <1>17, <1>18, <1>19, <1>20, <1>21, <1>22, <1>23, <1>24 DEF Step

\* The type invariant is inductive.
LEMMA TypeNext ==
    ASSUME TypeOK, [Next]_vars
    PROVE  TypeOK'
<1> USE DEF rowVars, lockVars, providerVars
<1>1. CASE \E w \in Workers : Start(w)
  BY <1>1, TypeStart
<1>2. CASE \E w \in Workers : Step(w)
  BY <1>2, TypeStep
<1>3. ASSUME NEW w \in Workers, Crash(w) PROVE TypeOK'
  <2>1. intact' \in BOOLEAN
    BY <1>3 DEF Crash, TypeOK
  <2>2. lock' \in Owner
    BY <1>3 DEF Crash, TypeOK, Owner
  <2> QED BY <1>3, <2>1, <2>2, FinishType DEF Crash, TypeOK
<1>4. CASE Age
  <2>1. row' \in Row
    BY <1>4, RowType DEF Age, TypeOK, Expiries
  <2> QED BY <1>4, <2>1 DEF Age, TypeOK
<1>5. CASE Withdraw
  BY <1>5 DEF Withdraw, TypeOK
<1>6. CASE LockExpires
  <2>1. overrun' \in BOOLEAN
    BY <1>6 DEF LockExpires
  <2> QED BY <1>6, <2>1 DEF LockExpires, TypeOK, Owner
<1>7. CASE UNCHANGED vars
  BY <1>7 DEF vars, TypeOK
<1>8. ASSUME NEW v \in Workers, NEW w \in Workers, BreakDeadlock(v, w) PROVE TypeOK'
  BY <1>8, FinishType DEF BreakDeadlock, TypeOK
<1> QED BY <1>1, <1>2, <1>3, <1>4, <1>5, <1>6, <1>7, <1>8 DEF Next

\* The shapes of the row, the locks and the workers are kept by every operation.
THEOREM TypeCorrect == Spec => []TypeOK
<1>1. Init => TypeOK
  <2> SUFFICES ASSUME Init PROVE TypeOK
    OBVIOUS
  <2>1. row \in Row /\ valid \subseteq Tokens /\ issued \in Tokens
    BY MaxTokensAssumption DEF Init, Row, Statuses, Tokens, Expiries
  <2> QED BY <2>1, IdleType, ProvidersAssumption DEF Init, TypeOK, Owner
<1>2. TypeOK /\ [Next]_vars => TypeOK'
  BY TypeNext
<1> QED BY <1>1, <1>2, PTL DEF Spec

----------------------------------------------------------------------------
(* What a worker's move does to the workers                                *)

\* Hold changes one worker, to the record given.
LEMMA HoldFields ==
    ASSUME TypeOK, NEW w \in Workers, NEW rec, Hold(w, rec)
    PROVE  work'[w] = rec /\ \A v \in Workers \ {w} : work'[v] = work[v]
  BY DEF TypeOK, Hold

\* Finish leaves one worker idle, with nothing in hand.
LEMMA FinishFields ==
    ASSUME TypeOK, NEW w \in Workers, Finish(w)
    PROVE  /\ work'[w] = Idle
           /\ work'[w].pc = "idle" /\ work'[w].got = 0
           /\ \A v \in Workers \ {w} : work'[v] = work[v]
<1>1. work'[w] = Idle /\ \A v \in Workers \ {w} : work'[v] = work[v]
  BY DEF TypeOK, Finish
<1> QED BY <1>1 DEF Idle, Blank

\* Forget moves one worker, with nothing in hand.
LEMMA ForgetFields ==
    ASSUME TypeOK, NEW w \in Workers, NEW p, Forget(w, p)
    PROVE  /\ work'[w].pc = p /\ work'[w].got = 0 /\ work'[w].kind = work[w].kind
           /\ work'[w].out = "none"
           /\ \A v \in Workers \ {w} : work'[v] = work[v]
<1>1. work'[w] = Blank(work[w].kind, p) /\ \A v \in Workers \ {w} : work'[v] = work[v]
  BY HoldFields DEF Forget
<1> QED BY <1>1 DEF Blank

\* Goto moves one worker, with everything it had.
LEMMA GotoFields ==
    ASSUME TypeOK, NEW w \in Workers, NEW p, Goto(w, p)
    PROVE  /\ work'[w].pc = p /\ work'[w].got = work[w].got /\ work'[w].kind = work[w].kind
           /\ work'[w].out = work[w].out /\ work'[w].refresh = work[w].refresh
           /\ work'[w].access = work[w].access /\ work'[w].status = work[w].status
           /\ \A v \in Workers \ {w} : work'[v] = work[v]
  BY DEF TypeOK, Goto, Work

\* What the worker knows when it goes on with a status, an outcome and a token.
LEMMA KeepFields ==
    ASSUME TypeOK, NEW w \in Workers, NEW p, NEW s, NEW o, NEW g, Keep(w, p, s, o, g)
    PROVE  /\ work'[w].pc = p /\ work'[w].out = o /\ work'[w].got = g
           /\ work'[w].kind = work[w].kind /\ work'[w].refresh = 0
           /\ \A v \in Workers \ {w} : work'[v] = work[v]
<1>1. /\ work'[w] = [Blank(work[w].kind, p) EXCEPT !.status = s, !.out = o, !.got = g]
      /\ \A v \in Workers \ {w} : work'[v] = work[v]
  BY HoldFields DEF Keep
<1> QED BY <1>1 DEF Blank

\* Raise leaves one worker idle or about to record the failure.
LEMMA RaiseFields ==
    ASSUME TypeOK, NEW w \in Workers, Raise(w)
    PROVE  /\ work'[w].pc \in {"idle", "fail"} /\ work'[w].got = 0 /\ work'[w].refresh = 0
           /\ \A v \in Workers \ {w} : work'[v] = work[v]
<1>1. CASE work[w].kind = "renew"
  BY <1>1, KeepFields DEF Raise
<1>2. CASE work[w].kind # "renew"
  <2>1. work'[w] = Idle /\ \A v \in Workers \ {w} : work'[v] = work[v]
    BY <1>2 DEF Raise, Finish, TypeOK
  <2> QED BY <2>1 DEF Idle, Blank
<1> QED BY <1>1, <1>2

\* A new operation begins outside the critical section and without new tokens.
LEMMA StartFields ==
    ASSUME TypeOK, NEW w \in Workers, Start(w)
    PROVE  /\ \A v \in Workers \ {w} : work'[v] = work[v]
           /\ work[w].pc = "idle"
           /\ work'[w].pc \in {"idle", "acquire", "wait", "call", "consent", "remote"}
           /\ work'[w].pc \in {"wait", "call"} => work'[w].out = "none"
           /\ \/ work'[w] = work[w]
              \/ work'[w].got = 0 /\ work'[w].refresh \in {0, row.refresh}
           /\ row.status = "revoked" => \/ work'[w] = work[w]
                                        \/ work'[w].pc = "consent" /\ work'[w].kind = "connect"
           /\ row' = row /\ valid' = valid /\ issued' = issued /\ lock' = lock
           /\ overrun' = overrun /\ intact' = intact /\ raced' = raced
<1> USE DEF rowVars, lockVars, providerVars
<1>0. ASSUME NEW k, NEW rec, Begin(w, k, rec)
      PROVE  work[w].pc = "idle" /\ work'[w] = rec /\ \A v \in Workers \ {w} : work'[v] = work[v]
  BY <1>0, HoldFields DEF Begin, At
<1>1. CASE BeatSelect(w)
  BY <1>1, <1>0 DEF BeatSelect, Blank
<1>2. CASE UseStart(w)
  BY <1>2, <1>0 DEF UseStart, Blank
<1>3. CASE SyncStart(w)
  <2>1. CASE Begin(w, "sync", Blank("sync", TokenPlace)) /\ row.status = "active"
    BY <1>3, <2>1, <1>0 DEF SyncStart, TokenPlace, Blank
  <2>2. CASE At(w, "idle") /\ UNCHANGED work
    BY <1>3, <2>2 DEF SyncStart, At
  <2> QED BY <1>3, <2>1, <2>2 DEF SyncStart
<1>4. CASE RenewStart(w)
  BY <1>4, <1>0 DEF RenewStart, TokenPlace, Blank
<1>5. CASE ReconsentStart(w)
  BY <1>5, <1>0 DEF ReconsentStart, Blank
<1>6. CASE ConnectStart(w)
  BY <1>6, <1>0 DEF ConnectStart, Blank
<1>7. CASE RevokeStart(w)
  <2> DEFINE rec == [Blank("revoke", "remote") EXCEPT !.refresh = row.refresh,
                                                      !.access = row.access]
  <2>1. rec.pc = "remote" /\ rec.got = 0 /\ rec.refresh = row.refresh
    BY DEF Blank
  <2>2. Begin(w, "revoke", rec)
    BY <1>7 DEF RevokeStart
  <2> HIDE DEF rec
  <2>3. work[w].pc = "idle" /\ work'[w] = rec /\ \A v \in Workers \ {w} : work'[v] = work[v]
    BY <2>2, <1>0
  <2> QED BY <1>7, <2>1, <2>3 DEF RevokeStart
<1> QED BY <1>1, <1>2, <1>3, <1>4, <1>5, <1>6, <1>7 DEF Start

\* What the worker knows when it is about to write a consent.
LEMMA UpsertFields ==
    ASSUME TypeOK, NEW w \in Workers, LoadForUpsert(w)
    PROVE  /\ \A v \in Workers \ {w} : work'[v] = work[v]
           /\ \/ /\ work'[w].pc = "idle" /\ work'[w].got = 0 /\ work'[w].refresh = 0
                 /\ \/ work[w].kind = "connect" /\ row.status = "revoked"
                    \/ work[w].got = 0
              \/ /\ work'[w].pc = "upsert" /\ work'[w].got = work[w].got
                 /\ work'[w].refresh = 0
                 /\ ~(work[w].kind = "connect" /\ row.status = "revoked")
<1>1. CASE /\ Finish(w)
           /\ \/ work[w].kind = "connect" /\ row.status = "revoked"
              \/ work[w].got = 0 /\ row.refresh = 0
  BY <1>1, FinishFields DEF Idle, Blank
<1>2. CASE /\ Keep(w, "upsert", row.status, "none", work[w].got)
           /\ ~(work[w].kind = "connect" /\ row.status = "revoked")
  BY <1>2, KeepFields
<1> QED BY <1>1, <1>2 DEF LoadForUpsert

----------------------------------------------------------------------------
(* The refresh lock                                                        *)

\* Until a lock expires under its holder, a worker in the critical section is
\* the one the key names.
HolderNamed == ~overrun => \A w \in Workers : Refreshing(w) => lock = w

\* A step of an operation keeps the key naming the worker in the critical section.
LEMMA HolderNamedStep ==
    ASSUME TypeOK, HolderNamed, NEW w \in Workers, Step(w)
    PROVE  HolderNamed'
<1> USE WorkersAssumption DEF rowVars, lockVars, providerVars, HolderNamed, Refreshing, At
<1>1. CASE BeatAcquire(w)
  BY <1>1, GotoFields, FinishFields DEF BeatAcquire, Take
<1>2. CASE WaitAcquire(w)
  BY <1>2, GotoFields DEF WaitAcquire, Take
<1>3. CASE GiveUp(w)
  BY <1>3, RaiseFields DEF GiveUp
<1>4. CASE Reread(w)
  <2>1. CASE Keep(w, "release", row.status, "spared", 0)
    BY <1>4, <2>1, KeepFields DEF Reread
  <2>2. CASE row.expiry = "due"
    BY <1>4, <2>2, HoldFields DEF Reread, Blank
  <2> QED BY <1>4, <2>1, <2>2 DEF Reread
<1>5. CASE GrantOk(w)
  BY <1>5, KeepFields DEF GrantOk, Granted
<1>6. CASE GrantFails(w)
  BY <1>6, KeepFields DEF GrantFails, Granted
<1>7. CASE FlushFailure(w)
  BY <1>7, GotoFields DEF FlushFailure
<1>8. CASE ReleaseGet(w)
  BY <1>8, GotoFields DEF ReleaseGet
<1>9. CASE ReleaseDelete(w)
  BY <1>9, GotoFields DEF ReleaseDelete
<1>10. CASE CommitRefresh(w)
  <2>1. \/ Raise(w) \/ Forget(w, "call") \/ Finish(w)
        \/ Keep(w, "call", KnownStatus(w), "none", 0)
    BY <1>10 DEF CommitRefresh
  <2>2. /\ work'[w].pc \in {"idle", "fail", "call"}
        /\ \A v \in Workers \ {w} : work'[v] = work[v]
    BY <2>1, RaiseFields, ForgetFields, FinishFields, KeepFields
  <2> QED BY <1>10, <2>2 DEF CommitRefresh
<1>11. CASE CallProvider(w)
  BY <1>11, FinishFields, ForgetFields DEF CallProvider
<1>22. CASE CommitRenewal(w)
  BY <1>22, FinishFields DEF CommitRenewal
<1>23. CASE FlushRevoke(w)
  BY <1>23, GotoFields DEF FlushRevoke
<1>24. CASE GrantLost(w)
  BY <1>24, KeepFields DEF GrantLost, Granted
<1>12. CASE CallFails(w)
  BY <1>12, RaiseFields DEF CallFails
<1>13. CASE RenewFails(w)
  BY <1>13, FinishFields DEF RenewFails
<1>14. CASE Consent(w)
  BY <1>14, HoldFields, GotoFields DEF Consent, Blank
<1>15. CASE ConsentDenied(w)
  BY <1>15, FinishFields DEF ConsentDenied
<1>16. CASE LoadForUpsert(w)
  BY <1>16, UpsertFields DEF LoadForUpsert
<1>17. CASE CommitUpsert(w)
  BY <1>17, ForgetFields DEF CommitUpsert
<1>18. CASE EnsureRoute(w)
  BY <1>18, FinishFields DEF EnsureRoute
<1>19. CASE RevokeRemote(w)
  BY <1>19, GotoFields DEF RevokeRemote
<1>20. CASE CommitRevoke(w)
  BY <1>20, ForgetFields DEF CommitRevoke
<1>21. CASE DropRoute(w)
  BY <1>21, FinishFields DEF DropRoute
<1> QED BY <1>1, <1>2, <1>3, <1>4, <1>5, <1>6, <1>7, <1>8, <1>9, <1>10, <1>11, <1>12, <1>13, <1>14, <1>15, <1>16, <1>17, <1>18, <1>19, <1>20, <1>21, <1>22, <1>23, <1>24 DEF Step

\* HolderNamed is inductive, with the types.
LEMMA HolderNamedNext ==
    ASSUME TypeOK, HolderNamed, [Next]_vars
    PROVE  HolderNamed'
<1> USE DEF rowVars, lockVars, providerVars
<1>1. ASSUME NEW w \in Workers, Start(w) PROVE HolderNamed'
  BY <1>1, StartFields DEF HolderNamed, Refreshing
<1>2. CASE \E w \in Workers : Step(w)
  BY <1>2, HolderNamedStep
<1>3. ASSUME NEW w \in Workers, Crash(w) PROVE HolderNamed'
  BY <1>3, FinishFields DEF Crash, HolderNamed, Refreshing
<1>4. CASE Age
  BY <1>4 DEF Age, HolderNamed, Refreshing
<1>5. CASE Withdraw
  BY <1>5 DEF Withdraw, HolderNamed, Refreshing
<1>6. CASE LockExpires
  <2>1. CASE lock = "orphan"
    BY <1>6, <2>1, WorkersAssumption DEF LockExpires, HolderNamed, Refreshing
  <2>2. CASE lock # "orphan"
    BY <1>6, <2>2 DEF LockExpires, HolderNamed
  <2> QED BY <2>1, <2>2
<1>7. CASE UNCHANGED vars
  BY <1>7 DEF vars, HolderNamed, Refreshing
<1>8. ASSUME NEW v \in Workers, NEW w \in Workers, BreakDeadlock(v, w) PROVE HolderNamed'
  BY <1>8, FinishFields DEF BreakDeadlock, HolderNamed, Refreshing
<1> QED BY <1>1, <1>2, <1>3, <1>4, <1>5, <1>6, <1>7, <1>8 DEF Next

\* The refresh lock excludes: two workers are in refresh_connection's critical
\* section at once only after a lock expired under its holder.
THEOREM RefreshIsExclusive == Spec => []RefreshExclusive
<1>1. Init => HolderNamed
  BY DEF Init, HolderNamed, Refreshing, Idle, Blank
<1>2. TypeOK /\ HolderNamed /\ [Next]_vars => HolderNamed'
  BY HolderNamedNext
<1>3. HolderNamed => RefreshExclusive
  BY DEF HolderNamed, RefreshExclusive
<1> QED BY <1>1, <1>2, <1>3, TypeCorrect, PTL DEF Spec

----------------------------------------------------------------------------
(* The refresh tokens                                                      *)

\* Every token about was issued.
Counted ==
    /\ \A t \in valid : 0 < t /\ t <= issued
    /\ row.refresh <= issued
    /\ \A w \in Workers : work[w].refresh <= issued /\ work[w].got <= issued

\* A worker holds new tokens only between the provider's answer and its commit.
GotPlaced ==
    \A w \in Workers : work[w].got # 0 =>
        \/ work[w].pc \in {"release", "delete", "commit"} /\ work[w].out = "bundle"
        \/ work[w].pc \in {"load", "upsert"}

\* A token not committed yet is known to nobody else, so nobody can rotate it.
GotUnshared ==
    \A w \in Workers : work[w].got # 0 =>
        /\ work[w].got # row.refresh
        /\ \A v \in Workers : /\ work[v].refresh # work[w].got
                              /\ v # w => work[v].got # work[w].got

\* A revocation has been recorded as a loss of the consent before it commits.
LossRecorded ==
    /\ row.status = "revoked" => ~intact
    /\ \A w \in Workers : work[w].pc \in {"clear", "unsub"} => ~intact

\* Tokens in hand are tokens the provider honours, consent permitting.
GotHonoured == intact => \A w \in Workers : work[w].got # 0 => work[w].got \in valid

TokenInv ==
    Counted /\ GotPlaced /\ GotUnshared /\ LossRecorded /\ GotHonoured /\ TokenKept

\* A move of w that leaves the provider and the stored token alone, and neither
\* obtains nor drops a token.
LEMMA QuietMove ==
    ASSUME TypeOK, TypeOK', TokenInv, NEW w \in Workers,
           \A v \in Workers \ {w} : work'[v] = work[v],
           valid' = valid, issued' = issued, intact' = intact,
           row'.refresh = row.refresh,
           row'.status = "revoked" => row.status = "revoked",
           work'[w].got = work[w].got,
           work'[w].refresh \in {0, row.refresh, work[w].refresh},
           work'[w].pc \notin {"clear", "unsub"},
           work'[w].got # 0 =>
               \/ work'[w].pc \in {"release", "delete", "commit"} /\ work'[w].out = "bundle"
               \/ work'[w].pc \in {"load", "upsert"}
    PROVE  TokenInv'
<1>0. /\ issued \in Nat /\ row.refresh \in Nat
      /\ \A v \in Workers : work[v].got \in Nat /\ work[v].refresh \in Nat
  BY MaxTokensAssumption DEF TypeOK, Work, Row, Tokens
<1>1. Counted'
  BY <1>0 DEF TokenInv, Counted
<1>2. GotPlaced'
  BY DEF TokenInv, GotPlaced
<1>3. GotUnshared'
  BY DEF TokenInv, GotUnshared, Counted
<1>4. LossRecorded'
  BY DEF TokenInv, LossRecorded
<1>5. GotHonoured'
  BY DEF TokenInv, GotHonoured
<1>6. TokenKept'
  BY DEF TokenInv, TokenKept
<1> QED BY <1>1, <1>2, <1>3, <1>4, <1>5, <1>6 DEF TokenInv

\* A commit of w that stores the token it had obtained, if any.
LEMMA StoringMove ==
    ASSUME TypeOK, TokenInv, NEW w \in Workers,
           \A v \in Workers \ {w} : work'[v] = work[v],
           valid' = valid, issued' = issued, intact' = intact,
           row'.refresh = IF work[w].got = 0 THEN row.refresh ELSE work[w].got,
           row'.status = "revoked" => row.status = "revoked",
           work'[w].got = 0, work'[w].refresh = 0,
           work'[w].pc \notin {"clear", "unsub"}
    PROVE  TokenInv'
<1>0. /\ issued \in Nat /\ row.refresh \in Nat
      /\ \A v \in Workers : work[v].got \in Nat /\ work[v].refresh \in Nat
  BY MaxTokensAssumption DEF TypeOK, Work, Row, Tokens
<1>1. Counted'
  BY <1>0 DEF TokenInv, Counted
<1>2. GotPlaced'
  BY DEF TokenInv, GotPlaced
<1>3. GotUnshared'
  BY DEF TokenInv, GotUnshared
<1>4. LossRecorded'
  BY DEF TokenInv, LossRecorded
<1>5. GotHonoured'
  BY DEF TokenInv, GotHonoured
<1>6. TokenKept'
  BY <1>0 DEF TokenInv, TokenKept, GotHonoured, Counted
<1> QED BY <1>1, <1>2, <1>3, <1>4, <1>5, <1>6 DEF TokenInv

\* A move of w that obtains the next token, in exchange for one or for none.
LEMMA ObtainingMove ==
    ASSUME TypeOK, TokenInv, NEW w \in Workers,
           \A v \in Workers \ {w} : work'[v] = work[v],
           NEW given, given = {} \/ given = {work[w].refresh},
           issued' = issued + 1, valid' = (valid \ given) \cup {issued'},
           intact' = intact, row' = row,
           work[w].got = 0, work'[w].got = issued', work'[w].refresh = 0,
           \/ work'[w].pc = "release" /\ work'[w].out = "bundle"
           \/ work'[w].pc = "load"
    PROVE  TokenInv'
<1>0. /\ issued \in Nat /\ row.refresh \in Nat /\ valid \subseteq Nat
      /\ \A v \in Workers : work[v].got \in Nat /\ work[v].refresh \in Nat
  BY MaxTokensAssumption DEF TypeOK, Work, Row, Tokens
<1>1. Counted'
  BY <1>0 DEF TokenInv, Counted
<1>2. GotPlaced'
  BY DEF TokenInv, GotPlaced
<1>3. GotUnshared'
  BY <1>0 DEF TokenInv, GotUnshared, Counted
<1>4. LossRecorded'
  BY DEF TokenInv, LossRecorded
<1>5. GotHonoured'
  BY DEF TokenInv, GotHonoured, GotUnshared
<1>6. TokenKept'
  BY DEF TokenKept
<1> QED BY <1>1, <1>2, <1>3, <1>4, <1>5, <1>6 DEF TokenInv

\* A step of an operation keeps the invariant on refresh tokens.
LEMMA TokenInvStep ==
    ASSUME TypeOK, TypeOK', TokenInv, NEW w \in Workers, Step(w)
    PROVE  TokenInv'
<1> USE DEF rowVars, lockVars, providerVars, At
<1>0. work[w].got # 0 =>
          \/ work[w].pc \in {"release", "delete", "commit"} /\ work[w].out = "bundle"
          \/ work[w].pc \in {"load", "upsert"}
  BY DEF TokenInv, GotPlaced
<1>i. Idle.refresh = 0 /\ Idle.got = 0 /\ Idle.pc = "idle"
  BY DEF Idle, Blank
<1>f. ASSUME NEW p, Forget(w, p) PROVE work'[w].refresh = 0
  <2>1. work'[w] = Blank(work[w].kind, p)
    BY <1>f, HoldFields DEF Forget
  <2> QED BY <2>1 DEF Blank
<1>n. ASSUME Finish(w) PROVE work'[w].refresh = 0
  BY <1>n, <1>i, FinishFields
<1>r. ASSUME Raise(w) PROVE work'[w].refresh = 0
  BY <1>r, RaiseFields
<1>1. CASE BeatAcquire(w)
  <2>1. CASE Goto(w, "grant")
    BY <1>0, <1>1, <2>1, GotoFields, QuietMove DEF BeatAcquire
  <2>2. CASE Finish(w)
    BY <1>0, <1>1, <1>n, <2>2, FinishFields, QuietMove DEF BeatAcquire
  <2> QED BY <1>1, <2>1, <2>2 DEF BeatAcquire
<1>2. CASE WaitAcquire(w)
  BY <1>0, <1>2, GotoFields, QuietMove DEF WaitAcquire
<1>3. CASE GiveUp(w)
  BY <1>0, <1>3, <1>r, RaiseFields, QuietMove DEF GiveUp
<1>4. CASE Reread(w)
  <2> DEFINE rec1 == [Blank(work[w].kind, "grant") EXCEPT !.status = row.status,
                                                          !.refresh = row.refresh]
             rec2 == [Blank(work[w].kind, "release") EXCEPT !.status = row.status,
                                                            !.out = "spared", !.got = 0]
  <2>1. /\ rec1.pc = "grant" /\ rec1.got = 0 /\ rec1.refresh = row.refresh
        /\ rec2.pc = "release" /\ rec2.got = 0 /\ rec2.refresh = 0
    BY DEF Blank
  <2>2. Hold(w, rec1) \/ Hold(w, rec2)
    BY <1>4 DEF Reread, Keep
  <2> HIDE DEF rec1, rec2
  <2>3. work'[w] \in {rec1, rec2} /\ \A v \in Workers \ {w} : work'[v] = work[v]
    BY <2>2, HoldFields
  <2> QED BY <1>0, <1>4, <2>1, <2>3, QuietMove DEF Reread
<1>5. CASE GrantOk(w)
  <2>1. CASE provider = "microsoft"
    <3>1. Granted(w, "release", "bundle", issued')
      BY <1>5, <2>1 DEF GrantOk
    <3>2. /\ work'[w].pc = "release" /\ work'[w].out = "bundle" /\ work'[w].got = issued'
          /\ work'[w].refresh = 0 /\ \A v \in Workers \ {w} : work'[v] = work[v]
      BY <3>1, KeepFields DEF Granted
    <3>3. /\ issued' = issued + 1 /\ valid' = (valid \ {work[w].refresh}) \cup {issued'}
          /\ intact' = intact /\ row' = row /\ work[w].got = 0
      BY <1>0, <1>5, <2>1 DEF GrantOk
    <3> QED BY <3>2, <3>3, ObtainingMove
  <2>2. CASE provider # "microsoft"
    <3>1. Granted(w, "release", "bundle", 0)
      BY <1>5, <2>2 DEF GrantOk
    <3> QED BY <1>0, <1>5, <2>2, <3>1, KeepFields, QuietMove DEF GrantOk, Granted
  <2> QED BY <2>1, <2>2
<1>6. CASE GrantFails(w)
  <2>1. CASE Granted(w, "flush", "refused", 0)
    BY <1>0, <1>6, <2>1, KeepFields, QuietMove DEF GrantFails, Granted
  <2>2. CASE Granted(w, "flush", "failed", 0)
    BY <1>0, <1>6, <2>2, KeepFields, QuietMove DEF GrantFails, Granted
  <2>3. CASE Granted(w, "release", "raised", 0)
    BY <1>0, <1>6, <2>3, KeepFields, QuietMove DEF GrantFails, Granted
  <2> QED BY <1>6, <2>1, <2>2, <2>3 DEF GrantFails
<1>7. CASE FlushFailure(w)
  BY <1>0, <1>7, GotoFields, QuietMove DEF FlushFailure
<1>8. CASE ReleaseGet(w)
  <2>1. CASE lock = w
    BY <1>0, <1>8, <2>1, GotoFields, QuietMove DEF ReleaseGet
  <2>2. CASE lock # w
    BY <1>0, <1>8, <2>2, GotoFields, QuietMove DEF ReleaseGet
  <2> QED BY <2>1, <2>2
<1>9. CASE ReleaseDelete(w)
  BY <1>0, <1>9, GotoFields, QuietMove DEF ReleaseDelete
<1>10. CASE CommitRefresh(w)
  <2>1. /\ work'[w].got = 0 /\ work'[w].refresh = 0 /\ work'[w].pc \notin {"clear", "unsub"}
        /\ \A v \in Workers \ {w} : work'[v] = work[v]
    <3>1. \/ Raise(w) \/ Forget(w, "call") \/ Finish(w)
          \/ Keep(w, "call", KnownStatus(w), "none", 0)
      BY <1>10 DEF CommitRefresh
    <3> QED BY <3>1, <1>r, <1>f, <1>n, RaiseFields, ForgetFields, FinishFields, KeepFields
  <2>2. valid' = valid /\ issued' = issued /\ intact' = intact
    BY <1>10 DEF CommitRefresh
  <2>3. row.status \in Statuses /\ row = [row EXCEPT !.status = row.status]
    BY RowType DEF TypeOK, Row
  <2>4. CASE work[w].out = "bundle"
    <3>1. row' = ApplyBundle(w)
      BY <1>10, <2>4 DEF CommitRefresh
    <3>2. row'.refresh = IF work[w].got = 0 THEN row.refresh ELSE work[w].got
      BY <3>1 DEF ApplyBundle
    <3>3. row'.status = "revoked" => row.status = "revoked"
      BY <3>1 DEF ApplyBundle, Column
    <3> QED BY <2>1, <2>2, <3>2, <3>3, StoringMove
  <2>5. CASE work[w].out # "bundle"
    <3>1. work[w].got = 0
      BY <1>0, <1>10, <2>5 DEF CommitRefresh
    <3>2. CASE work[w].out = "refused"
      <4>1. row' = [row EXCEPT !.status = Column(work[w].status, "needs_reconsent", row.status)]
        BY <1>10, <3>2 DEF CommitRefresh
      <4>2. /\ row'.refresh = row.refresh
            /\ row'.status = Column(work[w].status, "needs_reconsent", row.status)
        BY <4>1 DEF TypeOK, Row
      <4>3. row'.status = "revoked" => row.status = "revoked"
        BY <4>2 DEF Column
      <4> QED BY <2>1, <2>2, <3>1, <4>2, <4>3, StoringMove
    <3>3. CASE work[w].out # "refused"
      <4>1. row' = row
        BY <1>10, <2>5, <3>3 DEF CommitRefresh
      <4> QED BY <2>1, <2>2, <3>1, <4>1, StoringMove
    <3> QED BY <3>2, <3>3
  <2> QED BY <2>4, <2>5
<1>11. CASE CallProvider(w)
  <2>1. CASE Finish(w)
    BY <1>0, <1>11, <1>n, <2>1, FinishFields, QuietMove DEF CallProvider
  <2>2. CASE Forget(w, "health")
    BY <1>0, <1>11, <1>f, <2>2, ForgetFields, QuietMove DEF CallProvider
  <2> QED BY <1>11, <2>1, <2>2 DEF CallProvider
<1>22. CASE CommitRenewal(w)
  BY <1>0, <1>22, <1>n, FinishFields, QuietMove DEF CommitRenewal
<1>23. CASE FlushRevoke(w)
  <2>1. ~intact /\ ~intact' /\ row' = row /\ issued' = issued /\ valid' = valid
    BY <1>23 DEF FlushRevoke, TokenInv, LossRecorded
  <2>2. /\ work'[w].pc = "unsub" /\ work'[w].got = work[w].got
        /\ work'[w].refresh = work[w].refresh
        /\ \A v \in Workers \ {w} : work'[v] = work[v]
    BY <1>23, GotoFields DEF FlushRevoke
  <2>3. work[w].got = 0
    BY <1>0, <1>23 DEF FlushRevoke
  <2> QED BY <2>1, <2>2, <2>3 DEF TokenInv, Counted, GotPlaced, GotUnshared, LossRecorded,
             GotHonoured, TokenKept
<1>24. CASE GrantLost(w)
  <2>1. /\ ~intact' /\ row' = row /\ issued' = issued + 1
        /\ valid' = (valid \ {work[w].refresh}) \cup {issued'}
    BY <1>24 DEF GrantLost
  <2>2. /\ work'[w].got = 0 /\ work'[w].refresh \in {0, work[w].refresh}
        /\ work'[w].pc \in {"grant", "flush", "release"}
        /\ \A v \in Workers \ {w} : work'[v] = work[v]
    <3>1. CASE work' = work
      BY <1>0, <1>24, <3>1 DEF GrantLost
    <3>2. CASE Granted(w, "flush", "failed", 0) \/ Granted(w, "release", "raised", 0)
      BY <3>2, KeepFields DEF Granted
    <3> QED BY <1>24, <3>1, <3>2 DEF GrantLost
  <2>3. /\ issued \in Nat /\ row.refresh \in Nat /\ valid \subseteq Nat
        /\ \A v \in Workers : work[v].got \in Nat /\ work[v].refresh \in Nat
    BY MaxTokensAssumption DEF TypeOK, Work, Row, Tokens
  <2>4. Counted'
    BY <2>1, <2>2, <2>3 DEF TokenInv, Counted
  <2>5. GotPlaced' /\ GotUnshared'
    BY <2>1, <2>2 DEF TokenInv, GotPlaced, GotUnshared
  <2>6. LossRecorded' /\ GotHonoured' /\ TokenKept'
    BY <2>1, <2>2 DEF TokenInv, LossRecorded, GotHonoured, TokenKept
  <2> QED BY <2>4, <2>5, <2>6 DEF TokenInv
<1>12. CASE CallFails(w)
  BY <1>0, <1>12, <1>r, RaiseFields, QuietMove DEF CallFails
<1>13. CASE RenewFails(w)
  <2>1. /\ row'.refresh = row.refresh
        /\ row'.status = Column(work[w].status, "error", row.status)
    BY <1>13 DEF RenewFails, TypeOK, Row
  <2>2. row'.status = "revoked" => row.status = "revoked"
    BY <2>1 DEF Column
  <2> QED BY <1>0, <1>13, <1>n, <2>1, <2>2, FinishFields, QuietMove DEF RenewFails
<1>14. CASE Consent(w)
  <2>1. CASE issued' = issued + 1 /\ valid' = valid \cup {issued'}
             /\ Hold(w, [Blank(work[w].kind, "load") EXCEPT !.got = issued'])
    <3> DEFINE rec == [Blank(work[w].kind, "load") EXCEPT !.got = issued']
    <3>1. rec.pc = "load" /\ rec.got = issued' /\ rec.refresh = 0
      BY DEF Blank
    <3>2. Hold(w, rec)
      BY <2>1
    <3> HIDE DEF rec
    <3>3. work'[w] = rec /\ \A v \in Workers \ {w} : work'[v] = work[v]
      BY <3>2, HoldFields
    <3>4. /\ issued' = issued + 1 /\ valid' = (valid \ {}) \cup {issued'}
          /\ intact' = intact /\ row' = row /\ work[w].got = 0
      BY <1>0, <1>14, <2>1 DEF Consent
    <3> QED BY <3>1, <3>3, <3>4, ObtainingMove
  <2>2. CASE Goto(w, "load") /\ UNCHANGED providerVars
    BY <1>0, <1>14, <2>2, GotoFields, QuietMove DEF Consent
  <2> QED BY <1>14, <2>1, <2>2 DEF Consent
<1>15. CASE ConsentDenied(w)
  BY <1>0, <1>15, <1>n, FinishFields, QuietMove DEF ConsentDenied
<1>16. CASE LoadForUpsert(w)
  <2>1. CASE work'[w].pc = "upsert"
    BY <1>0, <1>16, <2>1, UpsertFields, QuietMove DEF LoadForUpsert
  <2>2. CASE work'[w].pc = "idle" /\ work[w].got = 0
    BY <1>0, <1>16, <2>2, UpsertFields, QuietMove DEF LoadForUpsert
  <2>3. CASE work'[w].pc = "idle" /\ work[w].got # 0
    <3>1. ~intact /\ ~intact'
      BY <1>16, <2>3, UpsertFields DEF LoadForUpsert, TokenInv, LossRecorded
    <3>2. /\ row' = row /\ valid' = valid /\ issued' = issued
          /\ work'[w].got = 0 /\ work'[w].refresh = 0
          /\ \A v \in Workers \ {w} : work'[v] = work[v]
      BY <1>16, <2>3, UpsertFields DEF LoadForUpsert
    <3>3. issued \in Nat
      BY MaxTokensAssumption DEF TypeOK, Tokens
    <3> QED BY <3>1, <3>2, <3>3, <2>3 DEF TokenInv, Counted, GotPlaced, GotUnshared, LossRecorded,
                 GotHonoured, TokenKept
  <2> QED BY <1>16, <2>1, <2>2, <2>3, UpsertFields
<1>17. CASE CommitUpsert(w)
  <2>1. row' = ApplyBundle(w) /\ Forget(w, "route")
    BY <1>17 DEF CommitUpsert
  <2>2. row'.refresh = IF work[w].got = 0 THEN row.refresh ELSE work[w].got
    BY <2>1 DEF ApplyBundle
  <2>3. row'.status = "revoked" => row.status = "revoked"
    BY <2>1 DEF ApplyBundle, Column
  <2> QED BY <1>17, <1>f, <2>1, <2>2, <2>3, ForgetFields, StoringMove DEF CommitUpsert
<1>18. CASE EnsureRoute(w)
  BY <1>0, <1>18, <1>n, FinishFields, QuietMove DEF EnsureRoute
<1>19. CASE RevokeRemote(w)
  <2>1. ~intact' /\ row' = row /\ issued' = issued /\ valid' \subseteq valid
    BY <1>19 DEF RevokeRemote
  <2>2. /\ work'[w].pc = "clear" /\ work'[w].got = work[w].got
        /\ work'[w].refresh = work[w].refresh
        /\ \A v \in Workers \ {w} : work'[v] = work[v]
    BY <1>19, GotoFields DEF RevokeRemote
  <2>3. work[w].got = 0
    BY <1>0, <1>19 DEF RevokeRemote
  <2> QED BY <2>1, <2>2, <2>3 DEF TokenInv, Counted, GotPlaced, GotUnshared, LossRecorded,
             GotHonoured, TokenKept
<1>20. CASE CommitRevoke(w)
  <2>1. ~intact /\ ~intact' /\ issued' = issued /\ valid' = valid
    BY <1>20 DEF CommitRevoke, TokenInv, LossRecorded
  <2>2. row'.refresh \in {0, row.refresh}
    BY <1>20 DEF CommitRevoke, Column, TypeOK, Row
  <2>3. /\ work'[w].pc = "unroute" /\ work'[w].got = 0 /\ work'[w].refresh = 0
        /\ \A v \in Workers \ {w} : work'[v] = work[v]
    BY <1>20, <1>f, ForgetFields DEF CommitRevoke
  <2>4. issued \in Nat
    BY MaxTokensAssumption DEF TypeOK, Tokens
  <2> QED BY <2>1, <2>2, <2>3, <2>4 DEF TokenInv, Counted, GotPlaced, GotUnshared, LossRecorded,
             GotHonoured, TokenKept
<1>21. CASE DropRoute(w)
  BY <1>0, <1>21, <1>n, FinishFields, QuietMove DEF DropRoute
<1> QED BY <1>1, <1>2, <1>3, <1>4, <1>5, <1>6, <1>7, <1>8, <1>9, <1>10, <1>11, <1>12, <1>13,
           <1>14, <1>15, <1>16, <1>17, <1>18, <1>19, <1>20, <1>21, <1>22, <1>23, <1>24 DEF Step

\* TokenInv is inductive, with the types.
LEMMA TokenInvNext ==
    ASSUME TypeOK, TypeOK', TokenInv, [Next]_vars
    PROVE  TokenInv'
<1> USE DEF rowVars, lockVars, providerVars
<1>0. \A v \in Workers : work[v].got # 0 =>
          \/ work[v].pc \in {"release", "delete", "commit"} /\ work[v].out = "bundle"
          \/ work[v].pc \in {"load", "upsert"}
  BY DEF TokenInv, GotPlaced
<1>1. ASSUME NEW w \in Workers, Start(w) PROVE TokenInv'
  <2>1. work[w].got = 0 /\ work[w].pc = "idle"
    BY <1>0, <1>1, StartFields
  <2> QED BY <1>1, <2>1, StartFields, QuietMove
<1>2. CASE \E w \in Workers : Step(w)
  BY <1>2, TokenInvStep
<1>3. ASSUME NEW w \in Workers, Crash(w) PROVE TokenInv'
  <2>1. /\ work'[w].got = 0 /\ work'[w].refresh = 0 /\ work'[w].pc = "idle"
        /\ \A v \in Workers \ {w} : work'[v] = work[v]
    <3>1. work'[w] = Idle /\ \A v \in Workers \ {w} : work'[v] = work[v]
      BY <1>3, FinishFields DEF Crash
    <3> QED BY <3>1 DEF Idle, Blank
  <2>2. CASE work[w].got = 0
    BY <1>3, <2>1, <2>2, QuietMove DEF Crash, TypeOK
  <2>3. CASE work[w].got # 0
    <3>1. ~intact' /\ row' = row /\ valid' = valid /\ issued' = issued /\ issued \in Nat
      <4>1. intact' = (intact /\ work[w].got = 0)
        BY <1>3 DEF Crash
      <4>2. ~intact'
        BY <2>3, <4>1
      <4> QED BY <1>3, <4>2, MaxTokensAssumption DEF Crash, TypeOK, Tokens
    <3> QED BY <2>1, <3>1 DEF TokenInv, Counted, GotPlaced, GotUnshared, LossRecorded,
                 GotHonoured, TokenKept
  <2> QED BY <2>2, <2>3
<1>4. CASE Age
  <2>1. row'.refresh = row.refresh /\ row'.status = row.status
    BY <1>4 DEF Age, TypeOK, Row
  <2> QED BY <1>4, <2>1 DEF Age, TokenInv, Counted, GotPlaced, GotUnshared, LossRecorded,
             GotHonoured, TokenKept
<1>5. CASE Withdraw
  BY <1>5 DEF Withdraw, TokenInv, Counted, GotPlaced, GotUnshared, LossRecorded, GotHonoured,
     TokenKept
<1>6. CASE LockExpires
  BY <1>6 DEF LockExpires, TokenInv, Counted, GotPlaced, GotUnshared, LossRecorded, GotHonoured,
     TokenKept
<1>7. CASE UNCHANGED vars
  BY <1>7 DEF vars, TokenInv, Counted, GotPlaced, GotUnshared, LossRecorded, GotHonoured,
     TokenKept
<1>8. ASSUME NEW v \in Workers, NEW w \in Workers, BreakDeadlock(v, w) PROVE TokenInv'
  <2>1. ASSUME NEW u \in Workers, Finish(u), work[u].pc \in {"health", "unsub"} PROVE TokenInv'
    <3>1. /\ work'[u].got = 0 /\ work'[u].refresh = 0 /\ work'[u].pc = "idle"
          /\ \A x \in Workers \ {u} : work'[x] = work[x]
      <4>1. work'[u] = Idle /\ \A x \in Workers \ {u} : work'[x] = work[x]
        BY <2>1, FinishFields
      <4> QED BY <4>1 DEF Idle, Blank
    <3>2. work[u].got = 0
      BY <1>0, <2>1
    <3> QED BY <1>8, <3>1, <3>2, QuietMove DEF BreakDeadlock
  <2> QED BY <1>8, <2>1 DEF BreakDeadlock, At
<1> QED BY <1>1, <1>2, <1>3, <1>4, <1>5, <1>6, <1>7, <1>8 DEF Next

\* No interleaving of refreshes, consents, renewals and expired locks loses the
\* connection's refresh token: only a withdrawal, a revocation, the death of a
\* worker that holds new tokens, or the loss of the answer that carries one does.
THEOREM TokensAreKept == Spec => []TokenKept
<1>1. Init => TokenInv
  BY DEF Init, TokenInv, Counted, GotPlaced, GotUnshared, LossRecorded, GotHonoured, TokenKept,
     Idle, Blank
<1>2. TypeOK /\ TypeOK' /\ TokenInv /\ [Next]_vars => TokenInv'
  BY TokenInvNext
<1>3. TokenInv => TokenKept
  BY DEF TokenInv
<1> QED BY <1>1, <1>2, <1>3, TypeCorrect, PTL DEF Spec

----------------------------------------------------------------------------
(* Revocation                                                              *)

\* After a revocation that overlapped nothing, the workers are where they can
\* only leave the row alone: a consent that started since will insert another
\* row.
Quiescent ==
    row.status = "revoked" /\ ~raced =>
        \A w \in Workers :
            \/ work[w].pc \in {"idle", "unroute"}
            \/ work[w].pc \in {"consent", "load"} /\ work[w].kind = "connect"

CleanInv == Quiescent /\ RevokedCleanUnlessRaced

\* A move of w that leaves the row alone.
LEMMA RowlessMove ==
    ASSUME TypeOK, CleanInv, NEW w \in Workers,
           \A v \in Workers \ {w} : work'[v] = work[v],
           row' = row, raced' = raced,
           \/ work'[w].pc \in {"idle", "unroute"}
           \/ work'[w].pc \in {"consent", "load"} /\ work'[w].kind = "connect"
           \/ /\ work[w].pc \notin {"idle", "unroute"}
              /\ ~(work[w].pc \in {"consent", "load"} /\ work[w].kind = "connect")
           \/ row.status # "revoked"
    PROVE  CleanInv'
  BY DEF CleanInv, Quiescent, RevokedCleanUnlessRaced, RevokedHoldsNoTokens

\* A move of w that writes the row from a place no worker is at after a quiet
\* revocation, and does not revoke.
LEMMA WritingMove ==
    ASSUME TypeOK, CleanInv, NEW w \in Workers,
           raced' = raced, work[w].pc \notin {"idle", "unroute", "consent", "load"},
           row'.status = "revoked" => row.status = "revoked"
    PROVE  CleanInv'
  BY DEF CleanInv, Quiescent, RevokedCleanUnlessRaced, RevokedHoldsNoTokens

\* A step of an operation keeps the invariant on revocations.
LEMMA CleanInvStep ==
    ASSUME TypeOK, CleanInv, NEW w \in Workers, Step(w)
    PROVE  CleanInv'
<1> USE DEF rowVars, lockVars, providerVars, At
<1>1. CASE BeatAcquire(w)
  BY <1>1, GotoFields, FinishFields, RowlessMove DEF BeatAcquire
<1>2. CASE WaitAcquire(w)
  BY <1>2, GotoFields, RowlessMove DEF WaitAcquire
<1>3. CASE GiveUp(w)
  BY <1>3, RaiseFields, RowlessMove DEF GiveUp
<1>4. CASE Reread(w)
  BY <1>4, WritingMove DEF Reread
<1>5. CASE GrantOk(w)
  BY <1>5, WritingMove DEF GrantOk
<1>6. CASE GrantFails(w)
  BY <1>6, WritingMove DEF GrantFails
<1>7. CASE FlushFailure(w)
  BY <1>7, WritingMove DEF FlushFailure
<1>8. CASE ReleaseGet(w)
  BY <1>8, WritingMove DEF ReleaseGet
<1>9. CASE ReleaseDelete(w)
  BY <1>9, WritingMove DEF ReleaseDelete
<1>10. CASE CommitRefresh(w)
  <2>1. row'.status = "revoked" => row.status = "revoked"
    <3>1. CASE work[w].out = "bundle"
      BY <1>10, <3>1 DEF CommitRefresh, ApplyBundle, Column
    <3>2. CASE work[w].out = "refused"
      <4>1. row'.status = Column(work[w].status, "needs_reconsent", row.status)
        BY <1>10, <3>2 DEF CommitRefresh, TypeOK, Row
      <4> QED BY <4>1 DEF Column
    <3>3. CASE work[w].out \notin {"bundle", "refused"}
      BY <1>10, <3>3 DEF CommitRefresh
    <3> QED BY <3>1, <3>2, <3>3
  <2> QED BY <1>10, <2>1, WritingMove DEF CommitRefresh
<1>11. CASE CallProvider(w)
  BY <1>11, WritingMove DEF CallProvider
<1>22. CASE CommitRenewal(w)
  BY <1>22, WritingMove DEF CommitRenewal
<1>23. CASE FlushRevoke(w)
  BY <1>23, WritingMove DEF FlushRevoke
<1>24. CASE GrantLost(w)
  BY <1>24, WritingMove DEF GrantLost
<1>12. CASE CallFails(w)
  BY <1>12, WritingMove DEF CallFails
<1>13. CASE RenewFails(w)
  <2>1. row'.status = Column(work[w].status, "error", row.status)
    BY <1>13 DEF RenewFails, TypeOK, Row
  <2>2. row'.status = "revoked" => row.status = "revoked"
    BY <2>1 DEF Column
  <2> QED BY <1>13, <2>2, WritingMove DEF RenewFails
<1>14. CASE Consent(w)
  <2>1. /\ work'[w].pc = "load" /\ work'[w].kind = work[w].kind
        /\ \A v \in Workers \ {w} : work'[v] = work[v]
    <3> DEFINE rec == [Blank(work[w].kind, "load") EXCEPT !.got = issued']
    <3>1. rec.pc = "load" /\ rec.kind = work[w].kind
      BY DEF Blank
    <3>2. Hold(w, rec) \/ Goto(w, "load")
      BY <1>14 DEF Consent
    <3> HIDE DEF rec
    <3> QED BY <3>1, <3>2, HoldFields, GotoFields
  <2> QED BY <1>14, <2>1, RowlessMove DEF Consent
<1>15. CASE ConsentDenied(w)
  BY <1>15, FinishFields, RowlessMove DEF ConsentDenied
<1>16. CASE LoadForUpsert(w)
  BY <1>16, UpsertFields, RowlessMove DEF LoadForUpsert
<1>17. CASE CommitUpsert(w)
  <2>1. row'.status = "revoked" => row.status = "revoked"
    BY <1>17 DEF CommitUpsert, ApplyBundle, Column
  <2> QED BY <1>17, <2>1, WritingMove DEF CommitUpsert
<1>18. CASE EnsureRoute(w)
  BY <1>18, WritingMove DEF EnsureRoute
<1>19. CASE RevokeRemote(w)
  BY <1>19, WritingMove DEF RevokeRemote
<1>20. CASE CommitRevoke(w)
  <2>1. /\ row'.refresh = Column(work[w].refresh, 0, row.refresh)
        /\ row'.access = Column(work[w].access, FALSE, row.access)
    BY <1>20 DEF CommitRevoke, TypeOK, Row
  <2>2. /\ work'[w].pc = "unroute"
        /\ \A v \in Workers \ {w} : work'[v] = work[v]
    BY <1>20, ForgetFields DEF CommitRevoke
  <2>3. ASSUME ~raced' PROVE row'.refresh = 0 /\ ~row'.access
    <3>1. work[w].refresh = row.refresh /\ work[w].access = row.access
      BY <1>20, <2>3 DEF CommitRevoke
    <3>2. row'.refresh = 0
      BY <2>1, <3>1 DEF Column
    <3>3. row.access \in BOOLEAN
      BY RowType DEF TypeOK
    <3>4. ~row'.access
      BY <2>1, <3>1, <3>3 DEF Column
    <3> QED BY <3>2, <3>4
  <2>4. ASSUME ~raced' PROVE \A v \in Workers : work'[v].pc \in {"idle", "unroute"}
    BY <1>20, <2>2, <2>4 DEF CommitRevoke
  <2> QED BY <2>3, <2>4 DEF CleanInv, Quiescent, RevokedCleanUnlessRaced, RevokedHoldsNoTokens
<1>21. CASE DropRoute(w)
  BY <1>21, FinishFields, RowlessMove DEF DropRoute
<1> QED BY <1>1, <1>2, <1>3, <1>4, <1>5, <1>6, <1>7, <1>8, <1>9, <1>10, <1>11, <1>12, <1>13,
           <1>14, <1>15, <1>16, <1>17, <1>18, <1>19, <1>20, <1>21, <1>22, <1>23, <1>24 DEF Step

\* CleanInv is inductive, with the types.
LEMMA CleanInvNext ==
    ASSUME TypeOK, CleanInv, [Next]_vars
    PROVE  CleanInv'
<1> USE DEF rowVars, lockVars, providerVars
<1>1. ASSUME NEW w \in Workers, Start(w) PROVE CleanInv'
  BY <1>1, StartFields, RowlessMove
<1>2. CASE \E w \in Workers : Step(w)
  BY <1>2, CleanInvStep
<1>3. ASSUME NEW w \in Workers, Crash(w) PROVE CleanInv'
  BY <1>3, FinishFields, RowlessMove DEF Crash
<1>4. CASE Age
  <2>1. row'.refresh = row.refresh /\ row'.status = row.status /\ row'.access = row.access
    BY <1>4 DEF Age, TypeOK, Row
  <2> QED BY <1>4, <2>1 DEF Age, CleanInv, Quiescent, RevokedCleanUnlessRaced,
             RevokedHoldsNoTokens
<1>5. CASE Withdraw
  BY <1>5 DEF Withdraw, CleanInv, Quiescent, RevokedCleanUnlessRaced, RevokedHoldsNoTokens
<1>6. CASE LockExpires
  BY <1>6 DEF LockExpires, CleanInv, Quiescent, RevokedCleanUnlessRaced, RevokedHoldsNoTokens
<1>7. CASE UNCHANGED vars
  BY <1>7 DEF vars, CleanInv, Quiescent, RevokedCleanUnlessRaced, RevokedHoldsNoTokens
<1>8. ASSUME NEW v \in Workers, NEW w \in Workers, BreakDeadlock(v, w) PROVE CleanInv'
  BY <1>8, FinishFields, RowlessMove DEF BreakDeadlock
<1> QED BY <1>1, <1>2, <1>3, <1>4, <1>5, <1>6, <1>7, <1>8 DEF Next

\* A revocation that overlapped no other operation leaves a row without tokens,
\* and it stays so as long as it is revoked.
THEOREM QuietRevocationIsClean == Spec => []RevokedCleanUnlessRaced
<1>1. Init => CleanInv
  BY DEF Init, CleanInv, Quiescent, RevokedCleanUnlessRaced, RevokedHoldsNoTokens
<1>2. TypeOK /\ CleanInv /\ [Next]_vars => CleanInv'
  BY CleanInvNext
<1>3. CleanInv => RevokedCleanUnlessRaced
  BY DEF CleanInv
<1> QED BY <1>1, <1>2, <1>3, TypeCorrect, PTL DEF Spec

\* A refresh that had read the connection as active never revives it.
THEOREM RevivalNeedsConsent == Spec => RevivedByConsent
<1> DEFINE A == row.status = "revoked" /\ row'.status = "active" =>
                  \E w \in Workers : \/ At(w, "upsert")
                                     \/ At(w, "commit") /\ work[w].status # "active"
<1>1. TypeOK /\ [Next]_vars => A
  <2> SUFFICES ASSUME TypeOK, [Next]_vars, row.status = "revoked", row'.status = "active"
               PROVE  \E w \in Workers : \/ At(w, "upsert")
                                         \/ At(w, "commit") /\ work[w].status # "active"
    OBVIOUS
  <2> USE DEF rowVars, lockVars, providerVars
  <2>1. row' # row
    OBVIOUS
  <2>2. ASSUME NEW w \in Workers, Start(w) PROVE FALSE
    BY <2>1, <2>2, StartFields
  <2>3. ASSUME NEW w \in Workers, Step(w)
        PROVE  \/ At(w, "upsert")
               \/ At(w, "commit") /\ work[w].status # "active"
    <3>1. CASE CommitUpsert(w)
      BY <3>1 DEF CommitUpsert
    <3>2. CASE CommitRefresh(w)
      <4>1. CASE work[w].out = "bundle"
        BY <3>2, <4>1 DEF CommitRefresh, ApplyBundle, Column
      <4>2. CASE work[w].out = "refused"
        <5>1. row'.status = Column(work[w].status, "needs_reconsent", row.status)
          BY <3>2, <4>2 DEF CommitRefresh, TypeOK, Row
        <5> QED BY <5>1 DEF Column
      <4>3. CASE work[w].out \notin {"bundle", "refused"}
        BY <2>1, <3>2, <4>3 DEF CommitRefresh
      <4> QED BY <4>1, <4>2, <4>3
    <3>3. CASE RenewFails(w)
      <4>1. row'.status = Column(work[w].status, "error", row.status)
        BY <3>3 DEF RenewFails, TypeOK, Row
      <4> QED BY <4>1 DEF Column
    <3>4. CASE CommitRevoke(w)
      <4>1. row'.status = "revoked"
        BY <3>4 DEF CommitRevoke, TypeOK, Row
      <4> QED BY <4>1
    <3> QED BY <2>1, <2>3, <3>1, <3>2, <3>3, <3>4 DEF Step, BeatAcquire, WaitAcquire, GiveUp,
               Reread, GrantOk, GrantFails, GrantLost, FlushFailure, ReleaseGet, ReleaseDelete,
               CallProvider, CommitRenewal, CallFails, FlushRevoke, Consent, ConsentDenied, LoadForUpsert, EnsureRoute,
               RevokeRemote, DropRoute
  <2>4. ASSUME NEW w \in Workers, Crash(w) PROVE FALSE
    BY <2>1, <2>4 DEF Crash
  <2>5. ~Age
    BY DEF Age, TypeOK, Row
  <2>6. ~Withdraw /\ ~LockExpires /\ ~UNCHANGED vars
    BY <2>1 DEF Withdraw, LockExpires, vars
  <2>7. ASSUME NEW v \in Workers, NEW w \in Workers, BreakDeadlock(v, w) PROVE FALSE
    BY <2>1, <2>7 DEF BreakDeadlock
  <2> QED BY <2>2, <2>3, <2>4, <2>5, <2>6, <2>7 DEF Next
<1>2. TypeOK /\ [Next]_vars => [A]_vars
  BY <1>1
<1> QED BY <1>2, TypeCorrect, PTL DEF Spec, RevivedByConsent

----------------------------------------------------------------------------
(* Why operations finish: one circular wait and no other, no turning round *)

\* How far an operation has come; every operation takes its own way up.
Rank(place) ==
    CASE place \in {"acquire", "wait", "consent", "remote"} -> 1
      [] place \in {"reread", "load", "clear"} -> 2
      [] place \in {"grant", "upsert", "unsub"} -> 3
      [] place \in {"flush", "route", "unroute"} -> 4
      [] place = "release" -> 5 [] place = "delete" -> 6 [] place = "commit" -> 7
      [] place = "call" -> 8 [] place \in {"fail", "health"} -> 9 [] place = "idle" -> 0

\* Every step of a started operation brings it further, or ends it; nothing sets
\* another operation back.
StepsAdvance ==
    [][\A w \in Workers : work'[w] # work[w] =>
          At(w, "idle") \/ work'[w] = Idle \/ Rank(work'[w].pc) > Rank(work[w].pc)]_vars

\* Worker v waits for w: for the connection's row that w has flushed, for the
\* subscription's, or for the refresh lock.
WantsRow(v) ==
    \/ work[v].pc \in {"flush", "fail", "upsert", "clear", "health"}
    \/ work[v].pc = "commit" /\ work[v].out = "bundle"

WaitsFor(v, w) ==
    /\ v # w
    /\ \/ WantsRow(v) /\ HoldsRow(w)
       \/ work[v].pc \in {"call", "unsub"} /\ HoldsSub(w)
       \/ work[v].pc = "wait" /\ lock = w

\* Workers that all wait for one another are stuck for good; among them are a
\* renewal that wants the connection's row and a revocation that wants the
\* subscription's, the pair that BreakDeadlock separates.
OneCircularWait ==
    \A C \in SUBSET Workers :
        C # {} /\ (\A v \in C : \E w \in C : WaitsFor(v, w))
            => \E v, w \in C : At(v, "health") /\ At(w, "unsub")

\* The row lock: one flushed UPDATE at a time.
RowExclusive == \A v, w \in Workers : HoldsRow(v) /\ HoldsRow(w) => v = w

\* No refusal or failure is in hand before the grant nor after the refresh.
NothingYet == \A w \in Workers : work[w].pc \in {"wait", "call"} => work[w].out = "none"

\* The key names nobody who is out of the critical section.
KeyNamesRefresher == \A w \in Workers : lock = w => Refreshing(w)

\* What a step of worker w does to the workers, to their advance and to the locks.
Moves(w) ==
    /\ \A v \in Workers \ {w} : work'[v] = work[v]
    /\ work'[w] = Idle \/ work'[w] = work[w] \/ Rank(work'[w].pc) > Rank(work[w].pc)
    /\ HoldsRow(w)' => HoldsRow(w) \/ RowFree(w)
    /\ work'[w].pc \in {"wait", "call"} => work'[w].out = "none"

\* The ranks, place by place.
LEMMA Ranks ==
    /\ Rank("idle") = 0 /\ Rank("acquire") = 1 /\ Rank("wait") = 1 /\ Rank("consent") = 1
    /\ Rank("remote") = 1 /\ Rank("reread") = 2 /\ Rank("load") = 2 /\ Rank("clear") = 2
    /\ Rank("grant") = 3 /\ Rank("upsert") = 3 /\ Rank("unsub") = 3 /\ Rank("flush") = 4
    /\ Rank("route") = 4 /\ Rank("unroute") = 4 /\ Rank("release") = 5 /\ Rank("delete") = 6
    /\ Rank("commit") = 7 /\ Rank("call") = 8 /\ Rank("fail") = 9 /\ Rank("health") = 9
  BY DEF Rank

\* An operation that is over holds nothing.
LEMMA FinishMoves ==
    ASSUME TypeOK, NEW w \in Workers, Finish(w)
    PROVE  Moves(w)
<1>1. work'[w] = Idle /\ \A v \in Workers \ {w} : work'[v] = work[v]
  BY FinishFields
<1> QED BY <1>1 DEF Moves, HoldsRow, Idle, Blank

\* A caller whose refresh raises keeps the row it had, and takes none.
LEMMA RaiseMoves ==
    ASSUME TypeOK, NEW w \in Workers, Raise(w), work[w].pc \in {"wait", "call", "commit"},
           work[w].pc # "commit" => work[w].out = "none"
    PROVE  Moves(w)
<1>1. CASE work[w].kind # "renew"
  BY <1>1, FinishMoves DEF Raise
<1>2. CASE work[w].kind = "renew"
  <2>1. /\ work'[w].pc = "fail" /\ work'[w].out = work[w].out
        /\ \A v \in Workers \ {w} : work'[v] = work[v]
    BY <1>2, KeepFields DEF Raise
  <2> QED BY <2>1, Ranks DEF Moves, HoldsRow
<1> QED BY <1>1, <1>2

\* Every step of an operation is such a move.
LEMMA StepMoves ==
    ASSUME TypeOK, NothingYet, NEW w \in Workers, Step(w)
    PROVE  Moves(w)
<1> USE Ranks DEF At, HoldsRow
<1>1. CASE BeatAcquire(w)
  <2>1. CASE Goto(w, "grant")
    BY <1>1, <2>1, GotoFields DEF BeatAcquire, Moves
  <2> QED BY <1>1, <2>1, FinishMoves DEF BeatAcquire
<1>2. CASE WaitAcquire(w)
  BY <1>2, GotoFields DEF WaitAcquire, Moves
<1>3. CASE GiveUp(w)
  BY <1>3, RaiseMoves DEF GiveUp, NothingYet
<1>4. CASE Reread(w)
  <2>1. CASE Keep(w, "release", row.status, "spared", 0)
    BY <1>4, <2>1, KeepFields DEF Reread, Moves
  <2>2. CASE row.expiry = "due"
    <3> DEFINE rec == [Blank(work[w].kind, "grant") EXCEPT !.status = row.status,
                                                           !.refresh = row.refresh]
    <3>1. rec.pc = "grant"
      BY DEF Blank
    <3>2. Hold(w, rec)
      BY <1>4, <2>2 DEF Reread
    <3> HIDE DEF rec
    <3>3. work'[w].pc = "grant" /\ \A v \in Workers \ {w} : work'[v] = work[v]
      BY <3>1, <3>2, HoldFields
    <3> QED BY <1>4, <3>3 DEF Reread, Moves
  <2> QED BY <1>4, <2>1, <2>2 DEF Reread
<1>5. CASE GrantOk(w)
  BY <1>5, KeepFields DEF GrantOk, Granted, Moves
<1>6. CASE GrantFails(w)
  BY <1>6, KeepFields DEF GrantFails, Granted, Moves
<1>16. CASE GrantLost(w)
  <2>1. CASE work' = work
    BY <1>16, <2>1 DEF GrantLost, Moves
  <2>2. CASE Granted(w, "flush", "failed", 0) \/ Granted(w, "release", "raised", 0)
    BY <1>16, <2>2, KeepFields DEF GrantLost, Granted, Moves
  <2> QED BY <1>16, <2>1, <2>2 DEF GrantLost
<1>7. CASE FlushFailure(w)
  BY <1>7, GotoFields DEF FlushFailure, Moves
<1>8. CASE ReleaseGet(w) \/ ReleaseDelete(w)
  BY <1>8, GotoFields DEF ReleaseGet, ReleaseDelete, Moves
<1>9. CASE CommitRefresh(w)
  <2>1. \/ Raise(w) \/ Forget(w, "call") \/ Finish(w)
        \/ Keep(w, "call", KnownStatus(w), "none", 0)
    BY <1>9 DEF CommitRefresh
  <2>2. CASE Raise(w)
    BY <1>9, <2>2, RaiseMoves DEF CommitRefresh
  <2>3. CASE Forget(w, "call")
    BY <1>9, <2>3, ForgetFields DEF CommitRefresh, Moves
  <2>4. CASE Keep(w, "call", KnownStatus(w), "none", 0)
    BY <1>9, <2>4, KeepFields DEF CommitRefresh, Moves
  <2> QED BY <2>1, <2>2, <2>3, <2>4, FinishMoves
<1>10. CASE \/ CommitRenewal(w) \/ RenewFails(w) \/ ConsentDenied(w) \/ EnsureRoute(w)
            \/ DropRoute(w)
  BY <1>10, FinishMoves DEF CommitRenewal, RenewFails, ConsentDenied, EnsureRoute, DropRoute
<1>17. CASE CallProvider(w)
  <2>1. CASE Forget(w, "health")
    BY <1>17, <2>1, ForgetFields DEF CallProvider, Moves
  <2> QED BY <1>17, <2>1, FinishMoves DEF CallProvider
<1>11. CASE CallFails(w)
  BY <1>11, RaiseMoves DEF CallFails, NothingYet
<1>12. CASE Consent(w)
  BY <1>12, HoldFields, GotoFields DEF Consent, Blank, Moves
<1>13. CASE LoadForUpsert(w)
  <2>1. CASE Keep(w, "upsert", row.status, "none", work[w].got)
    BY <1>13, <2>1, KeepFields DEF LoadForUpsert, Moves
  <2> QED BY <1>13, <2>1, FinishMoves DEF LoadForUpsert
<1>14. CASE CommitUpsert(w) \/ CommitRevoke(w)
  BY <1>14, ForgetFields DEF CommitUpsert, CommitRevoke, Moves
<1>15. CASE RevokeRemote(w) \/ FlushRevoke(w)
  BY <1>15, GotoFields DEF RevokeRemote, FlushRevoke, Moves
<1> QED BY <1>1, <1>2, <1>3, <1>4, <1>5, <1>6, <1>7, <1>8, <1>9, <1>10, <1>11, <1>12, <1>13,
           <1>14, <1>15, <1>16, <1>17 DEF Step

\* What moves a worker: the start of an operation, one of its steps, its death, or
\* PostgreSQL that aborts it.
LEMMA WorkMoves ==
    ASSUME TypeOK, NothingYet, [Next]_vars
    PROVE  \/ work' = work
           \/ \E w \in Workers :
                 \/ Moves(w)
                 \/ /\ \A v \in Workers \ {w} : work'[v] = work[v]
                    /\ At(w, "idle") /\ ~HoldsRow(w)'
                    /\ work'[w].pc \in {"wait", "call"} => work'[w].out = "none"
<1>1. ASSUME NEW w \in Workers, Start(w)
      PROVE  /\ \A v \in Workers \ {w} : work'[v] = work[v]
             /\ At(w, "idle") /\ ~HoldsRow(w)'
             /\ work'[w].pc \in {"wait", "call"} => work'[w].out = "none"
  BY <1>1, StartFields DEF At, HoldsRow
<1>2. ASSUME NEW w \in Workers, Step(w) PROVE Moves(w)
  BY <1>2, StepMoves
<1>3. ASSUME NEW w \in Workers, Crash(w) PROVE Moves(w)
  BY <1>3, FinishMoves DEF Crash
<1>4. CASE Age \/ Withdraw \/ LockExpires \/ UNCHANGED vars
  BY <1>4 DEF Age, Withdraw, LockExpires, vars
<1>5. ASSUME NEW v \in Workers, NEW w \in Workers, BreakDeadlock(v, w)
      PROVE  Moves(v) \/ Moves(w)
  BY <1>5, FinishMoves DEF BreakDeadlock
<1> QED BY <1>1, <1>2, <1>3, <1>4, <1>5 DEF Next

\* A step leaves the key with a worker in the critical section, or free.
LEMMA KeyStep ==
    ASSUME TypeOK, KeyNamesRefresher, NEW w \in Workers, Step(w)
    PROVE  KeyNamesRefresher'
<1> USE WorkersAssumption DEF rowVars, lockVars, providerVars, KeyNamesRefresher, Refreshing, At
<1>1. CASE BeatAcquire(w)
  BY <1>1, GotoFields, FinishFields DEF BeatAcquire, Take
<1>2. CASE WaitAcquire(w)
  BY <1>2, GotoFields DEF WaitAcquire, Take
<1>3. CASE GiveUp(w)
  BY <1>3, RaiseFields DEF GiveUp
<1>4. CASE Reread(w)
  <2>1. CASE Keep(w, "release", row.status, "spared", 0)
    BY <1>4, <2>1, KeepFields DEF Reread
  <2>2. CASE row.expiry = "due"
    <3> DEFINE rec == [Blank(work[w].kind, "grant") EXCEPT !.status = row.status,
                                                           !.refresh = row.refresh]
    <3>1. rec.pc = "grant"
      BY DEF Blank
    <3>2. Hold(w, rec)
      BY <1>4, <2>2 DEF Reread
    <3> HIDE DEF rec
    <3>3. work'[w].pc = "grant" /\ \A v \in Workers \ {w} : work'[v] = work[v]
      BY <3>1, <3>2, HoldFields
    <3> QED BY <1>4, <3>3 DEF Reread
  <2> QED BY <1>4, <2>1, <2>2 DEF Reread
<1>5. CASE GrantOk(w) \/ GrantFails(w) \/ GrantLost(w)
  BY <1>5, KeepFields DEF GrantOk, GrantFails, GrantLost, Granted
<1>6. CASE FlushFailure(w) \/ ReleaseGet(w) \/ ReleaseDelete(w)
  BY <1>6, GotoFields DEF FlushFailure, ReleaseGet, ReleaseDelete
<1>7. ASSUME work[w].pc \notin {"acquire", "wait", "reread", "grant", "flush", "release",
                                "delete"},
             lock' = lock, \A v \in Workers \ {w} : work'[v] = work[v]
      PROVE  KeyNamesRefresher'
  BY <1>7
<1>8. CASE CommitRefresh(w)
  BY <1>7, <1>8, StepMoves, RaiseFields, ForgetFields, FinishFields, KeepFields DEF CommitRefresh
<1>9. CASE CallProvider(w) \/ CommitRenewal(w) \/ CallFails(w) \/ RenewFails(w)
  BY <1>7, <1>9, RaiseFields, ForgetFields, FinishFields
     DEF CallProvider, CommitRenewal, CallFails, RenewFails
<1>10. CASE Consent(w) \/ ConsentDenied(w) \/ LoadForUpsert(w) \/ CommitUpsert(w) \/ EnsureRoute(w)
  BY <1>7, <1>10, HoldFields, GotoFields, FinishFields, KeepFields, ForgetFields
     DEF Consent, ConsentDenied, LoadForUpsert, CommitUpsert, EnsureRoute
<1>11. CASE RevokeRemote(w) \/ FlushRevoke(w) \/ CommitRevoke(w) \/ DropRoute(w)
  BY <1>7, <1>11, GotoFields, ForgetFields, FinishFields
     DEF RevokeRemote, FlushRevoke, CommitRevoke, DropRoute
<1> QED BY <1>1, <1>2, <1>3, <1>4, <1>5, <1>6, <1>8, <1>9, <1>10, <1>11 DEF Step

\* So does everything else.
LEMMA KeyNext == TypeOK /\ KeyNamesRefresher /\ [Next]_vars => KeyNamesRefresher'
<1> SUFFICES ASSUME TypeOK, KeyNamesRefresher, [Next]_vars PROVE KeyNamesRefresher'
  OBVIOUS
<1> USE WorkersAssumption DEF KeyNamesRefresher, Refreshing, rowVars, lockVars, providerVars
<1>1. ASSUME NEW w \in Workers, Start(w) PROVE KeyNamesRefresher'
  BY <1>1, StartFields
<1>2. CASE \E w \in Workers : Step(w)
  BY <1>2, KeyStep
<1>3. ASSUME NEW w \in Workers, Crash(w) PROVE KeyNamesRefresher'
  BY <1>3, FinishFields DEF Crash
<1>4. ASSUME NEW v \in Workers, NEW w \in Workers, BreakDeadlock(v, w) PROVE KeyNamesRefresher'
  BY <1>4, FinishFields DEF BreakDeadlock, At
<1>5. CASE Age \/ Withdraw \/ UNCHANGED vars
  BY <1>5 DEF Age, Withdraw, vars
<1>6. CASE LockExpires
  BY <1>6 DEF LockExpires
<1> QED BY <1>1, <1>2, <1>3, <1>4, <1>5, <1>6 DEF Next

\* The row lock is exclusive, inductively.
RowInv == NothingYet /\ RowExclusive

\* No step hands the row to a second worker.
LEMMA RowInvNext == TypeOK /\ RowInv /\ [Next]_vars => RowInv'
<1> SUFFICES ASSUME TypeOK, RowInv, [Next]_vars PROVE RowInv'
  OBVIOUS
<1>1. CASE work' = work
  BY <1>1 DEF RowInv, NothingYet, RowExclusive, HoldsRow
<1>2. CASE work' # work
  <2>1. PICK w \in Workers :
           \/ Moves(w)
           \/ /\ \A v \in Workers \ {w} : work'[v] = work[v]
              /\ At(w, "idle") /\ ~HoldsRow(w)'
              /\ work'[w].pc \in {"wait", "call"} => work'[w].out = "none"
    BY <1>2, WorkMoves DEF RowInv
  <2>2. /\ \A v \in Workers \ {w} : work'[v] = work[v]
        /\ HoldsRow(w)' => HoldsRow(w) \/ RowFree(w)
        /\ work'[w].pc \in {"wait", "call"} => work'[w].out = "none"
    BY <2>1 DEF Moves
  <2>3. NothingYet'
    BY <2>2 DEF RowInv, NothingYet
  <2>4. \A v \in Workers \ {w} : HoldsRow(v)' => HoldsRow(v)
    BY <2>2 DEF HoldsRow
  <2>5. RowExclusive'
    BY <2>2, <2>4 DEF RowInv, RowExclusive, RowFree
  <2> QED BY <2>3, <2>5 DEF RowInv
<1> QED BY <1>1, <1>2

\* Every reachable state has the types, an exclusive row lock and a key that names
\* a refresher.
LEMMA RowInvAlways == Spec => [](TypeOK /\ RowInv /\ KeyNamesRefresher)
<1>1. Init => RowInv /\ KeyNamesRefresher
  BY WorkersAssumption DEF Init, RowInv, NothingYet, RowExclusive, HoldsRow, Idle, Blank,
     KeyNamesRefresher
<1> QED BY <1>1, RowInvNext, KeyNext, TypeCorrect, PTL DEF Spec

\* For any number of workers: whatever workers wait for one another over the rows
\* of the connection and of its subscriptions in PostgreSQL and the refresh lock in
\* Valkey, the circle is that of a renewal and a revocation.  The refresh lock is in
\* none: who holds it waits at most for the row.
THEOREM OnlyCircularWait == Spec => []OneCircularWait
<1>1. ASSUME RowInv, KeyNamesRefresher, NEW C \in SUBSET Workers, NEW a \in C,
             \A v \in C : \E w \in C : WaitsFor(v, w)
      PROVE  \E v, w \in C : At(v, "health") /\ At(w, "unsub")
  <2> USE DEF At
  <2>1. ASSUME NEW x \in C, HoldsRow(x) PROVE \E v, w \in C : At(v, "health") /\ At(w, "unsub")
    <3>1. PICK y \in C : WaitsFor(x, y)
      BY <1>1
    <3>2. ~HoldsRow(y)
      BY <1>1, <2>1, <3>1 DEF WaitsFor, RowInv, RowExclusive
    <3>3. work[x].pc = "unsub" /\ HoldsSub(y)
      BY <2>1, <3>1, <3>2 DEF WaitsFor, HoldsRow, WantsRow
    <3> QED BY <3>3 DEF HoldsSub
  <2>2. ASSUME NEW x \in C, WantsRow(x) PROVE \E y \in C : HoldsRow(y)
    BY <1>1, <2>2 DEF WaitsFor, WantsRow
  <2>3. PICK b \in C : WaitsFor(a, b)
    BY <1>1
  <2>4. CASE HoldsRow(b)
    BY <2>1, <2>4
  <2>5. CASE HoldsSub(b)
    BY <2>1, <2>2, <2>5 DEF HoldsSub, WantsRow
  <2>6. CASE lock = b
    <3>1. Refreshing(b)
      BY <1>1, <2>6 DEF KeyNamesRefresher
    <3>2. PICK c \in C : WaitsFor(b, c)
      BY <1>1
    <3>3. HoldsRow(c)
      BY <3>1, <3>2 DEF Refreshing, WaitsFor, WantsRow
    <3> QED BY <2>1, <3>3
  <2> QED BY <2>3, <2>4, <2>5, <2>6 DEF WaitsFor
<1>2. RowInv /\ KeyNamesRefresher => OneCircularWait
  BY <1>1 DEF OneCircularWait
<1> QED BY <1>2, RowInvAlways, PTL

\* For any number of workers, whatever order they run in, an operation that has
\* started takes at most nine steps to its end, besides the retries of a grant:
\* nothing makes it begin again.
THEOREM OperationsAdvance == Spec => StepsAdvance
<1>1. ASSUME TypeOK, RowInv, [Next]_vars, NEW v \in Workers, work'[v] # work[v]
      PROVE  At(v, "idle") \/ work'[v] = Idle \/ Rank(work'[v].pc) > Rank(work[v].pc)
  <2>1. PICK w \in Workers :
           \/ Moves(w)
           \/ (\A u \in Workers \ {w} : work'[u] = work[u]) /\ At(w, "idle")
    BY <1>1, WorkMoves DEF RowInv
  <2> QED BY <1>1, <2>1 DEF Moves
<1>2. TypeOK /\ RowInv /\ [Next]_vars =>
        \A w \in Workers : work'[w] # work[w] =>
           At(w, "idle") \/ work'[w] = Idle \/ Rank(work'[w].pc) > Rank(work[w].pc)
  BY <1>1
<1> QED BY <1>2, RowInvAlways, PTL DEF Spec, StepsAdvance

=============================================================================
