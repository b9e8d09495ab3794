----------------------------- MODULE Connection -----------------------------
(***************************************************************************)
(* The life of one connector connection                                    *)
(* (apps/api/app/connectors: service.py, tasks.py, client_base.py,         *)
(* oauth.py, router.py, throttle.py, subscriptions.py).                    *)
(*                                                                         *)
(* Web requests and Celery tasks are workers that share the row of the     *)
(* connection in PostgreSQL, a Valkey lock per connection, and the         *)
(* provider's OAuth server.  Each works on the copy of the row that its    *)
(* ORM session loaded, writes only the columns it changed, and can die     *)
(* between any two awaits.                                                 *)
(***************************************************************************)
EXTENDS Naturals, FiniteSets

CONSTANTS Workers,    \* web and Celery workers, one operation at a time each
          Jobs,       \* Jobs[w]: the kinds of operation that worker w runs
          MaxTokens,  \* bound: refresh tokens the provider ever issues
          Providers   \* the providers considered, of "google" and "microsoft"

\* The operations: the periodic refresh, a call to the provider's API, the two
\* subscription tasks, the two ways to a consent, the revocation.
Kinds == {"beat", "use", "sync", "renew", "reconsent", "connect", "revoke"}

ASSUME WorkersAssumption == \A w \in Workers : w \notin {"free", "orphan"}
ASSUME JobsAssumption == Jobs \in [Workers -> SUBSET Kinds]
ASSUME MaxTokensAssumption == MaxTokens \in Nat \ {0}
ASSUME ProvidersAssumption == Providers \subseteq {"google", "microsoft"}

VARIABLES
    provider, \* the connection's provider
    row,      \* the connector_connections row, as committed
    valid,    \* the refresh tokens the provider honours
    issued,   \* how many refresh tokens the provider has issued
    lock,     \* who holds "refresh:<id>" in Valkey
    route,    \* the webhook route exists (control-plane transaction)
    subs,     \* the connection has webhook subscriptions
    queued,   \* a sync_subscriptions task is queued
    work,     \* the workers: their operation and what they have loaded
    overrun,  \* history: the refresh lock expired under a live holder
    intact,   \* history: no consent withdrawn, no new token lost on its way to the row
    raced     \* history: the last revocation overlapped another operation

rowVars == <<row, route, subs, queued>>
lockVars == <<lock, overrun>>
providerVars == <<valid, issued>>
vars == <<provider, row, valid, issued, lock, route, subs, queued,
          work, overrun, intact, raced>>

----------------------------------------------------------------------------
(* State                                                                   *)

Statuses == {"active", "needs_reconsent", "revoked", "error"}

\* Refresh tokens are numbered as they are issued; 0 is the empty column.
Tokens == 0..MaxTokens

\* How the access token's expiry stands: far off, within the lead of the
\* periodic refresh, within the skew of the on-the-fly refresh.
Expiries == {"fresh", "lead", "due"}

Row == [status: Statuses, refresh: Tokens, access: BOOLEAN, expiry: Expiries]

Places == {"idle", "acquire", "wait", "reread", "grant", "flush", "release", "delete",
           "commit", "call", "fail", "consent", "load", "upsert", "route",
           "health", "remote", "clear", "unsub", "unroute"}

\* How a refresh ended: new tokens, invalid_grant, an error of the provider, any
\* other exception, or nothing left to do.
Outcomes == {"none", "bundle", "refused", "failed", "raised", "spared"}

\* A worker keeps, of the row it loaded, what it still needs.
Work == [pc: Places, kind: Kinds \cup {"none"}, status: Statuses, refresh: Tokens, access: BOOLEAN,
         got: Tokens, out: Outcomes]

Blank(kind, place) ==
    [pc |-> place, kind |-> kind, status |-> "active", refresh |-> 0, access |-> FALSE,
     got |-> 0, out |-> "none"]

Idle == Blank("none", "idle")

\* Who can hold the refresh lock: a dead worker's lock is an orphan until its TTL.
Owner == Workers \cup {"free", "orphan"}

At(w, place) == work[w].pc = place

Goto(w, place) == work' = [work EXCEPT ![w].pc = place]

Finish(w) == work' = [work EXCEPT ![w] = Idle]

\* A worker takes up an operation, goes on with what it read or obtained, or with
\* all of it forgotten.
Hold(w, record) == work' = [work EXCEPT ![w] = record]

Begin(w, kind, record) ==
    /\ At(w, "idle") /\ kind \in Jobs[w]
    /\ Hold(w, record)

Forget(w, place) == Hold(w, Blank(work[w].kind, place))

Keep(w, place, status, out, got) ==
    Hold(w, [Blank(work[w].kind, place) EXCEPT !.status = status, !.out = out, !.got = got])

\* The ORM writes a column only when its new value differs from the loaded one.
Column(loaded, new, current) == IF loaded = new THEN current ELSE new

\* A flushed UPDATE locks the row until its transaction ends: the end of a refused
\* or failed refresh is flushed before the Valkey lock is released, and committed
\* after; a revocation flushes the connection before it deletes the subscriptions.
HoldsRow(w) ==
    \/ /\ work[w].out \in {"refused", "failed"}
       /\ work[w].pc \in {"release", "delete", "commit", "fail"}
    \/ work[w].pc = "unsub"

RowFree(w) == \A v \in Workers \ {w} : ~HoldsRow(v)

\* A renewal flushes the subscription before it commits the connection.
HoldsSub(w) == work[w].pc = "health"

SubFree(w) == \A v \in Workers \ {w} : ~HoldsSub(v)

\* Between the acquisition of the refresh lock and its release.
Refreshing(w) == work[w].pc \in {"reread", "grant", "flush", "release", "delete"}

Init ==
    /\ provider \in Providers
    /\ row = [status |-> "active", refresh |-> 1, access |-> TRUE, expiry |-> "fresh"]
    /\ valid = {1} /\ issued = 1
    /\ lock = "free"
    /\ route = TRUE /\ subs = TRUE /\ queued = FALSE
    /\ work = [w \in Workers |-> Idle]
    /\ overrun = FALSE /\ intact = TRUE /\ raced = FALSE

----------------------------------------------------------------------------
(* Operations that refresh: the periodic beat, and on the fly before any   *)
(* call to the provider (fresh_access_token)                               *)

\* refresh_expiring_tokens selects the active connections about to expire.
BeatSelect(w) ==
    /\ row.status = "active" /\ row.expiry # "fresh"
    /\ Begin(w, "beat", [Blank("beat", "acquire") EXCEPT !.refresh = row.refresh])
    /\ UNCHANGED <<provider, rowVars, providerVars, lockVars, intact, raced>>

\* fresh_access_token: a connection that is not active is refused, a token that
\* is not due is used as it is.
TokenPlace == IF row.expiry = "due" THEN "wait" ELSE "call"

UseStart(w) ==
    /\ row.status = "active" /\ row.expiry = "due"
    /\ Begin(w, "use", Blank("use", "wait"))
    /\ UNCHANGED <<provider, rowVars, providerVars, lockVars, intact, raced>>

\* sync_connection_subscriptions: needs the route, an active connection, and a
\* capability without subscription.
SyncStart(w) ==
    /\ queued
    /\ queued' = FALSE
    /\ IF route /\ row.status = "active" /\ ~subs
       THEN Begin(w, "sync", Blank("sync", TokenPlace))
       ELSE At(w, "idle") /\ "sync" \in Jobs[w] /\ UNCHANGED work
    /\ UNCHANGED <<provider, row, route, subs, providerVars, lockVars, intact, raced>>

\* renew_expiring_subscriptions.  Its own Valkey lock only spares a second
\* renewal of the same subscription; renewals may overlap here.
RenewStart(w) ==
    /\ subs /\ row.status = "active" /\ route
    /\ Begin(w, "renew", Blank("renew", TokenPlace))
    /\ UNCHANGED <<provider, rowVars, providerVars, lockVars, intact, raced>>

\* Faulty variant: the lock is set whether or not it was there (no NX).
TakeAnyway(w) == lock' = w

\* acquire_lock: SET NX with a TTL.
Take(w) == lock = "free" /\ lock' = w

\* The beat abstains when the lock is taken, and refreshes the row as selected.
BeatAcquire(w) ==
    /\ At(w, "acquire")
    /\ \/ Take(w) /\ Goto(w, "grant")
       \/ lock # "free" /\ Finish(w) /\ UNCHANGED lock
    /\ UNCHANGED <<provider, rowVars, providerVars, overrun, intact, raced>>

\* What an operation does when its refresh raises: the plain caller gives up, the
\* sync task notes the error, the renewal degrades the connection in the same
\* transaction.
Raise(w) ==
    IF work[w].kind = "renew"
    THEN Keep(w, "fail", work[w].status, work[w].out, 0)
    ELSE Finish(w)

\* wait_for_lock.
WaitAcquire(w) ==
    /\ At(w, "wait")
    /\ Take(w) /\ Goto(w, "reread")
    /\ UNCHANGED <<provider, rowVars, providerVars, overrun, intact, raced>>

\* Faulty variant: wait_for_lock never gives up.
NeverGiveUp(w) == FALSE /\ UNCHANGED vars

\* wait_for_lock gives up after its last attempt: ProviderUnavailable.
GiveUp(w) ==
    /\ At(w, "wait")
    /\ lock # "free"
    /\ Raise(w)
    /\ UNCHANGED <<provider, rowVars, providerVars, lockVars, intact, raced>>

\* With the lock, session.refresh reads the row again; another refresh may have
\* done the work.  The status is not looked at again.
Reread(w) ==
    /\ At(w, "reread")
    /\ IF row.expiry = "due"
       THEN Hold(w, [Blank(work[w].kind, "grant") EXCEPT !.status = row.status,
                                                         !.refresh = row.refresh])
       ELSE Keep(w, "release", row.status, "spared", 0)
    /\ UNCHANGED <<provider, rowVars, providerVars, lockVars, intact, raced>>

----------------------------------------------------------------------------
(* The refresh-token grant                                                 *)

\* The grant is over: its outcome, and the refresh token it brought.
Granted(w, place, out, got) == Keep(w, place, work[w].status, out, got)

\* The provider honours the token.  Microsoft replaces it, Google does not.
GrantOk(w) ==
    /\ At(w, "grant") /\ work[w].refresh \in valid
    /\ IF provider = "microsoft"
       THEN /\ issued < MaxTokens
            /\ issued' = issued + 1
            /\ valid' = (valid \ {work[w].refresh}) \cup {issued'}
            /\ Granted(w, "release", "bundle", issued')
       ELSE Granted(w, "release", "bundle", 0) /\ UNCHANGED providerVars
    /\ UNCHANGED <<provider, rowVars, lockVars, intact, raced>>

\* It refuses it (invalid_grant), or it fails beyond the retries; both are noted
\* on the row.  A response that makes no sense, or no token to decrypt, is not.
GrantFails(w) ==
    /\ At(w, "grant")
    /\ \/ work[w].refresh \notin valid \cup {0} /\ Granted(w, "flush", "refused", 0)
       \/ work[w].refresh # 0 /\ Granted(w, "flush", "failed", 0)
       \/ Granted(w, "release", "raised", 0)
    /\ UNCHANGED <<provider, rowVars, providerVars, lockVars, intact, raced>>

\* Microsoft replaces the token and its answer is lost: the new token is nobody's.
\* A time-out ends the grant and an unreadable answer raises; run_with_backoff asks
\* again after a 5xx, with the token that is no longer honoured.
GrantLost(w) ==
    /\ At(w, "grant") /\ work[w].refresh \in valid
    /\ provider = "microsoft" /\ issued < MaxTokens
    /\ issued' = issued + 1
    /\ valid' = (valid \ {work[w].refresh}) \cup {issued'}
    /\ intact' = FALSE
    /\ \/ Granted(w, "flush", "failed", 0)
       \/ Granted(w, "release", "raised", 0)
       \/ UNCHANGED work
    /\ UNCHANGED <<provider, rowVars, lockVars, raced>>

\* The refusal or failure is flushed before `finally` releases the lock; nothing
\* of it is visible to others yet.
FlushFailure(w) ==
    /\ At(w, "flush") /\ RowFree(w)
    /\ Goto(w, "release")
    /\ UNCHANGED <<provider, rowVars, providerVars, lockVars, intact, raced>>

\* release_lock is a GET, then a DELETE of whatever is there by then.
ReleaseGet(w) ==
    /\ At(w, "release")
    /\ Goto(w, IF lock = w THEN "delete" ELSE "commit")
    /\ UNCHANGED <<provider, rowVars, providerVars, lockVars, intact, raced>>

ReleaseDelete(w) ==
    /\ At(w, "delete")
    /\ lock' = "free"
    /\ Goto(w, "commit")
    /\ UNCHANGED <<provider, rowVars, providerVars, overrun, intact, raced>>

\* Faulty variants: the new refresh token is not kept; every column is written.
ApplyBundleKeepsOld(w) ==
    [status |-> Column(work[w].status, "active", row.status),
     refresh |-> row.refresh, access |-> TRUE, expiry |-> "fresh"]
ApplyBundleAllColumns(w) ==
    [status |-> "active",
     refresh |-> IF work[w].got = 0 THEN row.refresh ELSE work[w].got,
     access |-> TRUE, expiry |-> "fresh"]

\* apply_token_bundle, flushed and committed: a fresh access token, the refresh
\* token if the provider gave one, status active.
ApplyBundle(w) ==
    [status |-> Column(work[w].status, "active", row.status),
     refresh |-> IF work[w].got = 0 THEN row.refresh ELSE work[w].got,
     access |-> TRUE, expiry |-> "fresh"]

\* The status the session knows once the refresh is over.
KnownStatus(w) ==
    CASE work[w].out = "bundle" -> "active"
      [] work[w].out = "refused" -> "needs_reconsent"
      [] OTHER -> work[w].status

\* After a refresh: the beat is over, the others go on to call the provider with
\* the token they have, refused or not.
CommitRefresh(w) ==
    /\ At(w, "commit")
    /\ CASE work[w].out = "bundle" -> RowFree(w) /\ row' = ApplyBundle(w)
         [] work[w].out = "refused" ->
               row' = [row EXCEPT !.status = Column(work[w].status, "needs_reconsent", @)]
         [] OTHER -> UNCHANGED row
    /\ CASE work[w].out \in {"failed", "raised"} -> Raise(w)
         [] work[w].out \notin {"failed", "raised"} /\ work[w].kind = "sync" -> Forget(w, "call")
         [] work[w].out \notin {"failed", "raised"} /\ work[w].kind = "renew" ->
               Keep(w, "call", KnownStatus(w), "none", 0)
         [] OTHER -> Finish(w)
    /\ UNCHANGED <<provider, route, subs, queued, providerVars, lockVars, intact, raced>>

----------------------------------------------------------------------------
(* Subscriptions: the rest of sync and renew                               *)

\* The provider accepts the request.  A sync inserts the subscription and commits.
\* A renewal flushes it, updated at Microsoft and replaced at Google; when a
\* revocation deleted the row meanwhile, the UPDATE fails and the task with it,
\* while the replacement is inserted all the same.
CallProvider(w) ==
    /\ At(w, "call")
    /\ \/ work[w].kind = "sync" /\ subs' = TRUE /\ Finish(w)
       \/ work[w].kind = "renew" /\ subs /\ SubFree(w) /\ Forget(w, "health") /\ UNCHANGED subs
       \/ /\ work[w].kind = "renew" /\ ~subs
          /\ provider = "google" => RowFree(w)
          /\ subs' = (provider = "google")
          /\ Finish(w)
    /\ UNCHANGED <<provider, row, route, queued, providerVars, lockVars, intact, raced>>

\* The commit of the renewal writes the connection too (health_checked_at).
CommitRenewal(w) ==
    /\ At(w, "health") /\ RowFree(w)
    /\ subs' = (subs \/ provider = "google")
    /\ Finish(w)
    /\ UNCHANGED <<provider, row, route, queued, providerVars, lockVars, intact, raced>>

\* Or it does not.
CallFails(w) ==
    /\ At(w, "call")
    /\ Raise(w)
    /\ UNCHANGED <<provider, rowVars, providerVars, lockVars, intact, raced>>

\* Any exception of a renewal leaves the connection in error.
RenewFails(w) ==
    /\ At(w, "fail") /\ RowFree(w)
    /\ row' = [row EXCEPT !.status = Column(work[w].status, "error", @)]
    /\ Finish(w)
    /\ UNCHANGED <<provider, route, subs, queued, providerVars, lockVars, intact, raced>>

----------------------------------------------------------------------------
(* Consent: connector_reconsent or a new connection, then the callback     *)

ReconsentStart(w) ==
    /\ row.status = "needs_reconsent"
    /\ Begin(w, "reconsent", Blank("reconsent", "consent"))
    /\ UNCHANGED <<provider, rowVars, providerVars, lockVars, intact, raced>>

ConnectStart(w) ==
    /\ Begin(w, "connect", Blank("connect", "consent"))
    /\ UNCHANGED <<provider, rowVars, providerVars, lockVars, intact, raced>>

\* The user consents and exchange_code gets tokens, Google sometimes without a
\* refresh token; or the user refuses or lets the signed state expire.
Consent(w) ==
    /\ At(w, "consent") /\ issued < MaxTokens
    /\ \/ /\ issued' = issued + 1
          /\ valid' = valid \cup {issued'}
          /\ Hold(w, [Blank(work[w].kind, "load") EXCEPT !.got = issued'])
       \/ /\ provider = "google"
          /\ Goto(w, "load")
          /\ UNCHANGED providerVars
    /\ UNCHANGED <<provider, rowVars, lockVars, intact, raced>>

ConsentDenied(w) ==
    /\ At(w, "consent")
    /\ Finish(w)
    /\ UNCHANGED <<provider, rowVars, providerVars, lockVars, intact, raced>>

\* _upsert_connection: a re-consent takes the row whatever its status, a new
\* consent the row of the same account unless it is revoked (it then inserts
\* another row).  Without any refresh token: MissingRefreshTokenError.
LoadForUpsert(w) ==
    /\ At(w, "load")
    /\ IF \/ work[w].kind = "connect" /\ row.status = "revoked"
          \/ work[w].got = 0 /\ row.refresh = 0
       THEN Finish(w)
       ELSE Keep(w, "upsert", row.status, "none", work[w].got)
    /\ UNCHANGED <<provider, rowVars, providerVars, lockVars, intact, raced>>

CommitUpsert(w) ==
    /\ At(w, "upsert") /\ RowFree(w)
    /\ row' = ApplyBundle(w)
    /\ Forget(w, "route")
    /\ UNCHANGED <<provider, route, subs, queued, providerVars, lockVars, intact, raced>>

\* _ensure_webhook_route in the control plane, then the sync task is queued.
EnsureRoute(w) ==
    /\ At(w, "route")
    /\ route' = TRUE /\ queued' = TRUE
    /\ Finish(w)
    /\ UNCHANGED <<provider, row, subs, providerVars, lockVars, intact, raced>>

----------------------------------------------------------------------------
(* Revocation: connector_revoke and revoke_connection                      *)

RevokeStart(w) ==
    /\ row.status # "revoked"
    /\ Begin(w, "revoke", [Blank("revoke", "remote") EXCEPT !.refresh = row.refresh,
                                                            !.access = row.access])
    /\ UNCHANGED <<provider, rowVars, providerVars, lockVars, intact, raced>>

\* The provider is told when it has an endpoint for it; failures are ignored.
RevokeRemote(w) ==
    /\ At(w, "remote")
    /\ \/ provider = "google" /\ work[w].refresh # 0 /\ valid' = {}
       \/ UNCHANGED valid
    /\ intact' = FALSE
    /\ Goto(w, "clear")
    /\ UNCHANGED <<provider, rowVars, issued, lockVars, raced>>

\* revoke_connection flushes the cleared row.
FlushRevoke(w) ==
    /\ At(w, "clear") /\ RowFree(w)
    /\ Goto(w, "unsub")
    /\ UNCHANGED <<provider, rowVars, providerVars, lockVars, intact, raced>>

\* Faulty variants: the refresh token stays; a status outside the enumeration.
CommitRevokeKeepsToken(w) ==
    /\ At(w, "unsub") /\ SubFree(w)
    /\ row' = [row EXCEPT !.status = "revoked", !.access = Column(work[w].access, FALSE, @)]
    /\ raced' = ((\E v \in Workers \ {w} : ~At(v, "idle"))
                 \/ work[w].refresh # row.refresh \/ work[w].access # row.access)
    /\ subs' = FALSE
    /\ Forget(w, "unroute")
    /\ UNCHANGED <<provider, route, queued, providerVars, lockVars, intact>>
CommitRevokeDeletes(w) ==
    /\ At(w, "unsub") /\ SubFree(w)
    /\ row' = [row EXCEPT !.status = "deleted"]
    /\ Forget(w, "unroute")
    /\ UNCHANGED <<provider, route, subs, queued, providerVars, lockVars, intact, raced>>

\* The subscriptions are deleted and the tenant transaction committed: tokens
\* erased, status revoked.
CommitRevoke(w) ==
    /\ At(w, "unsub") /\ SubFree(w)
    /\ row' = [row EXCEPT !.status = "revoked",
                          !.refresh = Column(work[w].refresh, 0, @),
                          !.access = Column(work[w].access, FALSE, @)]
    /\ raced' = ((\E v \in Workers \ {w} : ~At(v, "idle"))
                 \/ work[w].refresh # row.refresh \/ work[w].access # row.access)
    /\ subs' = FALSE
    /\ Forget(w, "unroute")
    /\ UNCHANGED <<provider, route, queued, providerVars, lockVars, intact>>

\* A renewal with the subscription and a revocation with the connection, each
\* waiting for the other's row: PostgreSQL aborts one of them, and nothing catches
\* it (the renewal is past its `except`, the request answers 500).
BreakDeadlock(v, w) ==
    /\ At(v, "health") /\ At(w, "unsub")
    /\ Finish(v) \/ Finish(w)
    /\ UNCHANGED <<provider, rowVars, providerVars, lockVars, intact, raced>>

\* The control-plane transaction that follows.
DropRoute(w) ==
    /\ At(w, "unroute")
    /\ route' = FALSE
    /\ Finish(w)
    /\ UNCHANGED <<provider, row, subs, queued, providerVars, lockVars, intact, raced>>

----------------------------------------------------------------------------
(* The environment                                                         *)

Age ==
    /\ row.expiry # "due"
    /\ row' = [row EXCEPT !.expiry = IF @ = "fresh" THEN "lead" ELSE "due"]
    /\ UNCHANGED <<provider, route, subs, queued, providerVars, lockVars, work, intact, raced>>

\* The account's owner withdraws the consent at the provider.
Withdraw ==
    /\ valid # {}
    /\ valid' = {}
    /\ intact' = FALSE
    /\ UNCHANGED <<provider, rowVars, issued, lockVars, work, raced>>

\* The TTL of the lock runs out, held or orphaned.
LockExpires ==
    /\ lock # "free"
    /\ overrun' = (overrun \/ lock # "orphan")
    /\ lock' = "free"
    /\ UNCHANGED <<provider, rowVars, providerVars, work, intact, raced>>

\* The worker dies: its transaction is rolled back, its lock waits for its TTL,
\* the tokens it had obtained are lost.
Crash(w) ==
    /\ ~At(w, "idle")
    /\ Finish(w)
    /\ lock' = IF lock = w THEN "orphan" ELSE lock
    /\ intact' = (intact /\ work[w].got = 0)
    /\ UNCHANGED <<provider, rowVars, providerVars, overrun, raced>>

Start(w) ==
    \/ BeatSelect(w) \/ UseStart(w) \/ SyncStart(w) \/ RenewStart(w)
    \/ ReconsentStart(w) \/ ConnectStart(w) \/ RevokeStart(w)

Step(w) ==
    \/ BeatAcquire(w) \/ WaitAcquire(w) \/ GiveUp(w) \/ Reread(w)
    \/ GrantOk(w) \/ GrantFails(w) \/ GrantLost(w) \/ FlushFailure(w)
    \/ ReleaseGet(w) \/ ReleaseDelete(w) \/ CommitRefresh(w)
    \/ CallProvider(w) \/ CommitRenewal(w) \/ CallFails(w) \/ RenewFails(w)
    \/ Consent(w) \/ ConsentDenied(w) \/ LoadForUpsert(w) \/ CommitUpsert(w) \/ EnsureRoute(w)
    \/ RevokeRemote(w) \/ FlushRevoke(w) \/ CommitRevoke(w) \/ DropRoute(w)

Next ==
    \/ \E w \in Workers : Start(w) \/ Step(w) \/ Crash(w)
    \/ \E v, w \in Workers : BreakDeadlock(v, w)
    \/ Age \/ Withdraw \/ LockExpires

Spec == Init /\ [][Next]_vars

\* The steps that may have to wait for a row.
RowStep(w) ==
    \/ FlushFailure(w) \/ CommitRefresh(w) \/ CommitRenewal(w) \/ RenewFails(w)
    \/ CommitUpsert(w) \/ FlushRevoke(w) \/ CommitRevoke(w)

\* A started operation goes on: every await in it returns, PostgreSQL serves those
\* who wait for a row in turn, and its deadlock detector breaks a circle.  Nothing
\* obliges an operation to start, a lock to outlive its holder, or a provider to
\* agree.
FairSpec ==
    /\ Spec
    /\ \A w \in Workers : WF_vars(Step(w)) /\ SF_vars(RowStep(w))
    /\ WF_vars(\E v, w \in Workers : BreakDeadlock(v, w))

----------------------------------------------------------------------------
(* Properties                                                              *)

\* Type invariant.
TypeOK ==
    /\ provider \in {"google", "microsoft"}
    /\ row \in Row
    /\ valid \subseteq Tokens /\ issued \in Tokens
    /\ lock \in Owner
    /\ route \in BOOLEAN /\ subs \in BOOLEAN /\ queued \in BOOLEAN
    /\ overrun \in BOOLEAN /\ intact \in BOOLEAN /\ raced \in BOOLEAN
    /\ work \in [Workers -> Work]

\* "Les verrous serialisent le refresh periodique et le refresh a la volee"
\* (throttle.py): as long as no lock outlived its TTL, one worker at a time is
\* between acquire_lock and release_lock, whatever the order of GET and DELETE
\* in the releases and whoever crashes holding it.
RefreshExclusive ==
    \A v, w \in Workers : Refreshing(v) /\ Refreshing(w) /\ v # w => overrun

\* A refresh token is not lost to concurrency: as long as nobody withdrew or
\* revoked the consent, no worker died holding new tokens, and no answer of
\* Microsoft that carried a new token was lost (refresh_connection cannot know of
\* it, and the next grant asks for a new consent), the row or a worker about to
\* commit has a refresh token the provider honours; two refreshes, a refresh and a
\* consent, or a lock that expired too early do not change that.
TokenKept ==
    intact => \/ row.refresh \in valid
              \/ \E w \in Workers : work[w].got \in valid

\* A revoked connection becomes active again by a consent, or by a refresh that
\* had read it as not active; a refresh that had read it active only writes
\* tokens.
RevivedByConsent ==
    [][row.status = "revoked" /\ row'.status = "active" =>
         \E w \in Workers : \/ At(w, "upsert")
                            \/ At(w, "commit") /\ work[w].status # "active"]_vars

\* "La suppression locale des tokens protege quoi qu'il arrive"
\* (service.py, revoke_connection): a revoked row has no tokens.
RevokedHoldsNoTokens ==
    row.status = "revoked" => row.refresh = 0 /\ ~row.access

\* What the unlocked revocation does guarantee: no tokens unless another
\* operation was under way when it committed, or had changed the row since the
\* revocation read it.
RevokedCleanUnlessRaced == raced \/ RevokedHoldsNoTokens

\* "invalid_grant bascule la connexion en needs_reconsent (le re-consentement
\* guide)" (service.py, refresh_connection): it waits there for a consent, or is
\* revoked, or another refresh finds a token that works.
ReconsentAwaited ==
    [][row.status = "needs_reconsent" => row'.status # "error"]_vars

\* Every operation that starts ends, whoever else holds or orphans the lock, and
\* although a renewal and a revocation take their two rows in opposite orders.
OperationsFinish == \A w \in Workers : ~At(w, "idle") ~> At(w, "idle")

=============================================================================
