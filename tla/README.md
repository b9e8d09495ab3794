# Verification of the multi-tenant back office API

This directory holds TLA+ specifications of the API in `src/apps/api/app` (FastAPI, SQLAlchemy on
PostgreSQL, Valkey, Celery), the TLC configurations that check them on small instances, and proofs
that TLAPS checks for every instance.

## 1. Inventory

| Component | State | Operations | Hard behaviour |
|---|---|---|---|
| Directory (`directory/`, `auth/permissions.py`, `tenancy/deps.py`) | memberships, invitations, users (control plane), audit log (tenant schema) | change a role, remove, invite, revoke, accept, CLI invite, soft delete | rules checked on reads that are stale at commit; two databases committed in turn; crash between them |
| Connections (`connectors/service.py`, `oauth.py`, `router.py`, `tasks.py`, `client_base.py`, `throttle.py`, `subscriptions.py`) | one row of tokens and status per account, a Valkey lock, the webhook route, the subscriptions, the provider's own token state | periodic refresh, on-the-fly refresh, connect, re-consent, revoke, synchronise and renew subscriptions | lock with a TTL, released before the commit, non-atomic release; token rotation; revocation outside the lock; two rows locked in opposite orders |
| Second factor and sessions (`auth/service.py`, `auth/router.py`, `auth/oauth.py`, `auth/tasks.py`) | credentials, TOTP counter, recovery codes, login challenges, sessions | login, second step, enrol, activate, disable, OAuth login, logout, purge | read-then-write of single-use rows, lost updates of columns |
| Rate limiting (`auth/rate_limit.py`) and provider budget (`connectors/throttle.py`) | Valkey counters | increment, expire, wait | INCR and EXPIRE are two commands |
| Webhooks (`connectors/webhooks.py`, `subscriptions.py`, `tasks.py`) | channels at the provider, subscription rows (tenant), routes and their keys (control plane), renewal locks, queued events | synchronise, renew, validate, process | three stores changed one after the other; renewal lock released before the commit; a commit in the middle of a renewal; channels that keep the key of a deleted route |
| Module runtime (`automation/`, `modules/sample_digest`) | activation row, one cache per process, unit locks in Valkey | enable, disable, gate a request, fan out, run a unit | stale cache fill, deactivation between dispatch and run, lock shorter than the unit or orphaned |
| AI gateway (`ai/`) | policy, monthly counters that expire, alerts, raw events, daily aggregates | call with fallback, meter, reconcile, roll up, purge | SET against INCR, alert key before alert, late events, a rollup that fails half-way, the turn of day and month |
| Tenancy (`tenancy/`) | context variable, catalogue | push/pop context, scope queries, provision, suspend, soft delete | a query outside or across contexts |
| Audit (`audit/`) | append-only events | record, list | read-only apart from the insert |
| Core, provider clients, web application, infrastructure | - | - | stateless or pure I/O; not modelled |

Interactions: every authenticated route resolves session, tenant and membership on the control
session; handlers then write the control session and the tenant session, two connections committed
one after the other. Celery tasks run in other processes against the same rows and Valkey keys. The
OAuth callback of a connector ends by queueing the subscription task. Revoking a connection deletes
its subscriptions (tenant) and its route (control plane).

## 2. Modules

| Module | Models | Extends |
|---|---|---|
| `Directory` | members, roles and invitations of one tenant | - |
| `MCDirectory` | two owners, an admin, an outsider, four requests | `Directory` |
| `DirectoryProofs` | theorems about `Directory` | `Directory` |
| `Connection` | the life of one connection | - |
| `MCConnection` | a Celery worker and a web worker | `Connection` |
| `ConnectionProofs` | theorems about `Connection` | `Connection` |
| `SecondFactor` | logins, second factor and sessions of one user | - |
| `MCSecondFactor` | three requests over a second factor that is off, or on with a login under way | `SecondFactor` |
| `SecondFactorProofs` | theorems about `SecondFactor` | `SecondFactor` |
| `ModuleGate` | what the activation gate promises: the abstract specification | - |
| `ModuleRuntime` | one module of one tenant: gate, activation, scheduler | instantiates `ModuleGate` |
| `MCModuleRuntime` | three crews of three workers | `ModuleRuntime` |
| `ModuleRuntimeProofs` | theorems about `ModuleRuntime`, the refinement included | `ModuleRuntime` |
| `AiUsage` | the AI gateway of one tenant | - |
| `MCAiUsage` | two calls over three months of a day, three policies | `AiUsage` |
| `SumTheorems` | lemmas about sums over finite sets | - |
| `AiUsageProofs` | theorems about `AiUsage` | `AiUsage`, `SumTheorems` |
| `Webhooks` | the notification channels of one connection | - |
| `MCWebhooks` | a web worker and two Celery workers | `Webhooks` |
| `WebhooksProofs` | theorems about `Webhooks` | `Webhooks` |

### Directory

A request is a process that runs once; `req[r].pc` is the await it has reached. `Resolve` is
`resolve_tenant` with `require_permission`; `LoadMember`, `CheckMember`, `CheckNotMember`,
`CheckNotInvited`, `CheckRevocable` and `AcceptRead` are the reads and rules of `directory/service.py`;
`FlushRole` is the autoflush of `member_change_role` when it looks the target's user up (from there it
holds the row lock); `CommitAudit` is the commit of the tenant session; `CommitRole`, `CommitRemove`,
`CommitInvite`, `CommitRevoke` are the commits of the control session. An acceptance commits first
(`CommitAccept`) and is audited after (`AuditAccept`). The ORM's rules are kept: a row already in the
session keeps the attributes it was loaded with, an UPDATE is sent only for columns that changed, an
UPDATE of a row that is gone raises and a DELETE of one does not. `Crash` may happen at every await.
Kept as data: who, which role, which invitation. Left out: names, passwords, mail, tokens' text.

### Connection

A worker performs one operation at a time on one connection. `work[w]` is its place and what its
session has loaded. `Take`, `ReleaseGet`, `ReleaseDelete` are the Valkey lock (SET NX; GET then
DELETE); `LockExpires` its TTL, `Crash` leaves the lock an orphan until then. `Column` is the ORM rule
that a column is written when its value differs from the one loaded. Two rows are locked in PostgreSQL.
A refused (`invalid_grant`) or failed grant is flushed before the Valkey lock is released and committed
after, so it holds the connection (`HoldsRow`) in between. A renewal flushes the subscription
(`CallProvider`, `HoldsSub`) and writes the connection's `health_checked_at` when it commits
(`CommitRenewal`); a revocation flushes the connection (`FlushRevoke`) and then deletes the subscriptions
(`CommitRevoke`). They take the two rows in opposite orders and can wait for each other: `BreakDeadlock`
is PostgreSQL, which aborts one of the two.

Providers are external actions: Microsoft replaces the refresh token at each grant and drops the old
one, Google keeps it and has a revocation endpoint. `GrantLost` is a grant that Microsoft honoured and
whose answer never came: the new token is nobody's; a time-out ends the refresh in failure, an answer
that cannot be read raises, a 5xx is asked again with the dead token. History variables: `overrun` (a
lock expired under a live holder), `intact` (no withdrawal, no revocation, no crash with new tokens in
hand, no rotated token lost on its way), `raced` (the last revocation overlapped another operation).
Abstracted: error texts and health dates; expiry is far, within the beat's lead, or due; subscriptions
are present or not; the renewal lock per subscription is left out, so renewals may overlap more than in
the code; a new consent for a revoked account inserts another row, which is another instance of this
module.

### SecondFactor

A request runs once. What it creates (session, challenge, TOTP secret, recovery codes) is named after
it, so a code is the pair of the secret it belongs to and its time step, or step 0 for a recovery code.
`LoginRead` and `LoginCommit` are `authenticate` and `login`; `OAuthRead` and `OAuthCommit` are
`complete_login` and `oauth_callback`, with the unique index on the identity. The second step is
`ChallengeRead`, `Verify`, `RecoveryRead`, then `CommitFailure` or `CommitSession`: the SELECT of the
credentials autoflushes the UPDATE of the challenge, so from `Verify` on the request holds the row of
the challenge. An authenticated request resolves its session (`ResolveRead`, `ResolveCommit`) and then
loads and commits; disabling flushes the credentials when it reads the recovery codes and holds their
row from there. `Column` is again the ORM's rule about changed columns. `Tick`, `ExpireSession`,
`ExpireChallenge` and `Crash` are the clock and the environment, `Purge` the Celery task. History
variables: `spent` (accepted codes), `verified` (secrets of which a code was verified), `backed` (a
counter went back: two logins committed in the other order of their steps), `raced` (an enrolment step
committed on credentials changed since they were loaded). Abstracted: one recovery code stands for the
ten of an activation; the password is right; the row of credentials exists. `revoke_all_sessions` has no
caller and is left out.

### ModuleRuntime and ModuleGate

A worker of a crew does web requests, activations, fan-outs or units, in one process. `RequestHit`,
`RequestMiss`, `Select` and `Fill` are `is_module_enabled` (the clock is read before the SELECT, the
entry is written after it, whatever happened to the cache meanwhile), `Refuse` the 403 of
`require_module_enabled`, `ListDigests` and `RunNow` the module's routes. `EnableStart`, `DisableStart`,
`LoadRow`, `Audit`, `CommitRow` and `Invalidate` are `enable_module` and `disable_module`: the event is
committed first, in its own session; the ORM inserts a row or writes the column if its value differs from
the one loaded; only the cache of the same process is invalidated. In the application these two functions
are called by tests and tools only, in any process. `FanoutRead` and `Publish` are `run_periodic_fanout`;
`UnitTake`, `UnitAcquire`, `UnitSkip`, `UnitDone`, `UnitFails`, `ReleaseGet` and `ReleaseDelete` are
`run_periodic_unit`, whose release is a GET and a DELETE. `Tick` is the monotonic clock, in which entries
of the cache have a time left. History: `overrun`, and `age` and `may`, which say how long ago the module
had each state and what a pending request may be told; they are the variables of the same name in
`ModuleGate`, where there are no caches, processes or rows: a request asks and is told a state that the
module had since `Ttl` before it asked. `GateKept` is the refinement, with the row's value for the state
and the worker's place for the stage of its request.

### AiUsage

A call is made once. `StartChat` and `StartOnce` are the policy (`ResolvedPolicy.select`) and the key
lookup; `Answered`, `Fails`, `Streams` and `Embeds` are the provider's outcomes, with the INSERT of the
event; `CommitEvent` or `EventFails` its commit; `Count` the INCRBY, the EXPIRE after the first write of
the month, and the comparison with the quota;
`AlertKey` the SET NX of the day, `AlertAudit` the event of the alert; `Finish` answers or goes on to the
fallback; `Stops` is a crash, a cancellation, or an exception of Valkey or of the audit. The rollup is
`RollStart`, `AggregateDay`, `SumMonth`, `Reconcile`, `PurgeEvents`, and `RollFails` at each. A day has
one number of tokens, for all providers and models. History: `metered` (all events ever stored), `rolled`,
`late` (days with an event stored after their aggregation), `drift` (for each month, the tokens by which
its counter may be off), `lost` (days whose alert was interrupted).

`counter[m]` and `expiry[m]` are the key of a month and its TTL, `CounterExpires` the end of it: after 62
days (`CounterTtl`, at least two months) the key is gone, so nothing is said of older months. `drift` is a
number and not a mark: an event that is not stored, a call that dies before its count, and an event counted
in another month add one call each; a reconciliation starts afresh with the calls between event and count
since its SELECT (`roll.overlap`), which it may count twice or not at all. Only a reconciliation whose SET
falls in the month after its SELECT leaves a counter that nothing bounds (`Residue`). The INCRBY and the
EXPIRE are one step: a death between them leaves a key that never expires, of which no property speaks.

The policy is read by a call at each attempt and decides whether there is a second one. It is kept because it
is the control of `chat`: a refusal is final, a missing key is a failure like another, and the second attempt
meters, counts and may raise the alert a second time within one call.

### Webhooks

One capability that both providers notify. `alive` is the time that channels have left at the provider,
`subs` and `due` the rows and their expiration, `route` the control plane's route. `Connect`, `EnsureRoute`
and `Enqueue` are the end of the OAuth callback, `Revoke` and `DropRoute` the two transactions of
`connector_revoke`. `SyncStart` is `sync_connection_subscriptions` up to the provider's call, `RenewStart`,
`RenewLock` and `RenewSkip` the beat of `renew_expiring_subscriptions`; Google channels are recreated
(`CreateGoogleChannel`, `StopChannel`), Microsoft subscriptions extended (`PatchSubscription`); a channel
may be made whose answer is lost (`CreateLost`). `Notify` and `ProcessEvent` are `receive_webhook` and
`process_connector_event`. `error` stands for `needs_reconsent` too.

A route has a key, a new one each time it is made, and a channel has the key that its task had read. What
matters of keys is whether they are the route's: `stale` has the channels, and the tasks about to make one,
whose key is that of an earlier route. A new route makes everything `Keyed` stale; `Validated` asks for the
route, the row and the right key. The renewal lock is `locks`, by subscription (`LockFree`, `Release`,
`LockExpires`); it is released before the commit.

A Google renewal flushes the new row, then asks for a token to stop the old channel. If the token is near its
end by then, `fresh_access_token` refreshes it and commits (`StopRefresh`): both rows are committed until the
task's own commit deletes the old one (`Between`), and for good if the task dies in between (`split`). History
beside `split`: `crossed`, a task went to insert a row where another did or had done, in the ways that the lock
does not prevent (`Crosses`, a synchronisation next to a task, a lock that expired under its holder). `Settle`
forgets both once no task inserts and one row is left at most, so that `OneSubscription` speaks of the time
after a crossing too.

A task that waits in the broker is the next one of the worker that will run it (places `sync` and `event`): no
queue of its own, and while every worker is busy nothing is published. With one web worker, two routes of the
same connection do not arise.

## 3. Runs

| Run | Shows |
|---|---|
| `directory` | With four concurrent requests and crashes: every role was granted and audited, the last owner goes only on stale reads, owners are demoted by owners, memberships are never overwritten by acceptances, a committed revocation is final, decision D1 holds for the managed routes, every request ends. |
| `last_owner` (violation) | Two owners who demote each other leave the tenant without owner: `directory/service.py:3-5` claims the contrary. |
| `every_change_traced` (violation) | An acceptance whose process dies after `auth/router.py:243` is not audited, against decision D1. |
| `connection` | Refreshes exclude each other until a lock expires too early; no interleaving loses the refresh token (a withdrawal, a revocation, a death with new tokens in hand and a rotated token whose answer was lost do); a revocation alone leaves no token; only a consent, or a refresh that had read it as not active, revives a revoked row; operations end, although a renewal and a revocation can deadlock. |
| `revoked_no_tokens` (violation) | A refresh under way writes tokens on the row just revoked, against `connectors/service.py:268-269`. |
| `reconsent_awaited` (violation) | A renewal replaces `needs_reconsent` by `error`, against `connectors/service.py:201-203`. |
| `second_factor` | A code accepted before a request arrives does not serve it; the same challenge and code submitted twice open one session; recovery codes exist only while the second factor is enabled; secrets are verified unless enrolment steps overlap; a logout is final; requests end. |
| `enabled_secret_verified` (violation) | A second enrolment committed while the activation of the first is under way leaves the second factor enabled on a secret nobody verified, against `auth/service.py:172`. |
| `module_runtime` | Three workers, caches in one or two processes, crashes: the cached gate implements `ModuleGate`; units exclude each other unless a lock expired under one; the row's state is audited; while the module stays enabled, digests go on. |
| `disabled_unit_skipped` (violation) | A unit published before the deactivation runs after it, against the docstring of `run_periodic_unit` (`automation/scheduler.py:86-87`). |
| `ai_usage` | Two calls, a rollup, midnight, expiring counters and crashes: the counter is off the events by at most the calls that were disturbed since the last reconciliation, aggregates are exact whatever the rollup repeats or purges, the alert of the day is raised once. |
| `webhooks` | A connection that is synchronised, renewed, revoked and connected again, with a crash or a refused refresh: one task at a time makes a channel and one subscription is left unless tasks cross or die between the two commits, silence after the end, delivery while it is active. The exception of `DeliveryHeals` is behaviour of the code: a Microsoft subscription made under a deleted route is extended for ever, keeps the synchronisation from making another, and nothing it sends is accepted. |

Bounds. `MCDirectory`: two owners are what it takes to lose the last one; the outsider has one
invitation row, which two requests can accept or revoke at once; each request has a small menu that
covers every handler, acting on others, on oneself and on the same row. `MCConnection`: two workers
are enough for every race of the lock (a holder and a contender, or an orphaned lock and a waiter);
two refresh tokens allow one rotation or one new consent, which is one loss; both providers are in
one run. A third token multiplies the states without a new kind of step. `MCSecondFactor`: two requests
make every race of the code, the third prepares it (the login before a second step, the enrolment before
an activation); three time steps give a code that is past, one that is current and one that is early;
`Aging` limits expiry and purge to the session and the challenge there at the start, which every other
request uses. `MCModuleRuntime`: the gate needs two
requesters, in one process (a fill races an invalidation) and in two (caches that are never invalidated),
the scheduler a unit, a contender and a deactivation; `Ttl` = 2 ticks is the least in which an entry can be
partly old; `MaxQueue` = 1 unit and `MaxCrashes` = 1 leave a lock orphaned once, and again by expiry.
`MCAiUsage`: two calls make every race of counter and alert; three months of one day (`MaxDay` = 2,
`MonthLen` = 1) are what it takes for a counter to expire (`CounterTtl` = 2) while those of this month and the
one before are checked; `Retention` = 2, the least the assumption allows, purges the first day. Longer months
are left to the proofs. `MCWebhooks`: two tasks make every crossing, two channels are the old and the new one (an
identifier comes back once nothing refers to it), one fault (`MaxFaults`) is a crash or a refused refresh;
one crash leaves a route without connection, an orphaned lock, or two rows (`split` = 1).
`Tick` waits for the tasks that are changing subscriptions: spans of the model are days, tasks last
seconds. Deadlock is checked in `connection`, `module_runtime`, `ai_usage` and `webhooks`; in the
other instances requests are finite in number and the system may stop.

Fairness. `FairSpec` of `Directory`: weak fairness of each request's own steps, since the event loop
runs a started handler and PostgreSQL answers; the same in `SecondFactor`; nothing forces a request to arrive. `FairSpec` of
`Connection`: weak fairness of the steps of a started operation, and strong fairness of those that
wait for a row, because PostgreSQL queues the waiters of a row lock, and weak fairness of its deadlock detector. No fairness is assumed of the
lock's TTL, of the provider's agreement or of crashes. `FairSpec` of `ModuleRuntime`: weak fairness of a
Celery task's own steps and of the lock's TTL; strong fairness of the fan-out and of taking a unit, since
beat publishes again and again and Celery works its queue off; strong fairness of a unit's success, which
says that the mail and AI providers are not down for good. `DigestsGoOn` assumes in the formula that a
Celery worker is there and that the module stays enabled. `FairSpec` of `Webhooks`: time passes (strong,
because tasks come in between), Valkey's TTL, a started or queued task goes on, and beat comes
back to every subscription that is due. The provider's agreement is not assumed: a renewal that keeps
failing puts the connection in error, which is why `DeliveryHeals` is about one that stays active.

## 4. Proofs

All theorems hold for every value of the constants under the named assumptions (sentinels are not
real values, requests ask well-formed things, the tenant starts with an owner; `MaxTokens > 0`, `MaxStep > 0`;
usage events are kept for at least two days and at least a month, where `core/config.py` keeps them
90 days by default; counters live at least two months, where `ai/quota.py` gives them 62 days).

`DirectoryProofs`. `TypeInv` (types, and which parameters a request of each kind carries) is
inductive. `Decided` says what a request past its checks has established (its owner rule and owner
count held for the values it read, and an applied managed change is audited); with it follow
`ChangesTraced`, `LastOwnerNeedsRace` and `OwnersDemoteOwners`. `InvitationsGranted` (each invitation
row was granted by an entitled actor) is what makes `RolesAreGranted` inductive, since a role can
arrive through an acceptance long after the grant. `RolesChangeInPlaceByRoleChanges` and
`RevocationIsFinal` are action properties proved from the same invariants.

`ConnectionProofs`. `TypeCorrect` is inductive by itself. `RefreshIsExclusive` rests on `HolderNamed`:
until an overrun, a worker in the critical section is the one the key names, which is why the
GET-then-DELETE release is harmless. `TokensAreKept` rests on `TokenInv`: tokens are numbered as
issued, a token in hand is held only between the provider's answer and its commit, is shared with
nobody and honoured, and a grant whose answer is lost ends what is claimed. `QuietRevocationIsClean` rests on `Quiescent`: after a quiet revocation no worker
is in a place from which it would write the row. `RevivalNeedsConsent` is an action property from
types.

`SecondFactorProofs`. `TypeInv` adds to the types what a request of each kind presents. `SecretsAreVerified`
needs that an enrolment past its check had loaded a disabled row; `CodesGoWithTheFactor` that a recovery
code that matched was in the table; `LogoutIsFinal` that a session is created once, by the request it is
named after. `SpentCodesAreRefused` and `DoubleSubmissionsOpenOne` rest on two invariants. `Ledger`: the
counter of the secret in use has reached every accepted code of that secret, an accepted recovery code is
used or gone, and secrets and codes have the names of requests that are done (which is why a new enrolment
cannot bring an old code back). `Submissions`: a challenge has one holder, and nobody is about to open a
session with a code that was spent when it arrived, or with the challenge and code of another session.

`ModuleRuntimeProofs`. `TypeInv` adds to the types that at most one worker is about to publish, with room for
it (the queue's bound), and that only activations are at the places of one. `UnitsAreExclusive` rests on
`HoldersLock`: until an overrun, who is between the acquisition and the release is the one the key names.
`ActivationsAreLogged` rests on `LoggedInv`: who is about to commit has logged what it does. `GateImplements`
proves the refinement for any number of processes and any `Ttl`, from `GateInv`: the age of the value that a
cache or a pending fill holds and the time it has left never add up to more than `Ttl`; what a request has
read is among what it may be told. Each action then maps to one action of `ModuleGate` or to none.

`AiUsageProofs`. `AlertsAreOnce` rests on `AlertInv`: a day without key has no alert and nobody about to
write one, and the owner of the key is alone. `AggregatesAreExact` rests on `StoreInv`: events and
aggregates never exceed what was metered, and the events of a day that no purge has reached, or that the
rollup is about to aggregate, are all there; this is where a retention of at least two days is needed.
`TypeCorrect` adds `Kept`, the types of the counter, the marks and the rollup. `QuotaStaysWithinDrift` rests on
`QuotaInv`: a call between its event and its count has one token; counter and calls are off the month by the
drift at most; the sum in the hands of the rollup is at most what was metered, and short of it by the overlapped
calls at most (`SumIsClose`), which is why a reconciliation leaves no more drift than its overlap; and a counter
lives to the end of the month after its own (`ExpiryIsLate`), so that no expiry touches a month the property
speaks of. That the sum misses no event follows from `StoreInv` and `MonthIsKept`: the retention covers the
month, so no purge has reached a day of it. `MonthIsKept`, `MonthBegins` and `MonthsPass` are arithmetic on the
calendar; what adding an event does to a sum is `TotalAdds`.

`SumTheorems` has what these proofs need of `MapThenSumSet`: it is a number, zeros add up to zero, adding to
one element adds to the sum, equal tables have equal sums. The induction theorems of the library take an
operator as a parameter, which the provers cannot instantiate; here the induction is stated about a set (the
set of the subsets of which the claim holds), from the least element of a set of numbers.

`WebhooksProofs`. `TypeCorrect` needs that a renewing task has a subscription to renew (`RenewKnown`).
`SubscriptionsAreSingle` rests on `Single`: which places a task of each provider can be at (`Flow`), and
`OneInv`: until tasks cross, the one that inserts is alone, holds the lock of the row it replaces until it has
the new channel, and besides that row there are only those of tasks that died between two commits. The lock is
what keeps a second renewal of the same row away; `RowsCount` has what a row more or less does to their number,
and `QuietOne`, `EnterOne`, `LeaveOne` and `AsideOne` are the four ways in which a step touches the inserting
tasks.

Why the requests finish. TLAPS does not reach fairness, so `RequestsFinish` and `OperationsFinish` stay with
TLC; but the two facts they rest on are proved for any number of actors. First, who waits for whom.
In `Directory` and `SecondFactor` there is no circular wait (`NoCircularWait`). In `Directory` a membership
row has one holder (`RowsExclusive`), who finds it free for its own commit. In `SecondFactor` a challenge has one
holder (`Submissions`), the credentials have one (`OneDisabling`), and the credentials are always the last lock taken. `Connection` has one
(`OnlyCircularWait`): whatever workers wait for one another over the two rows and the refresh lock, among them
are a renewal that has the subscription and a revocation that has the connection, the pair that `BreakDeadlock`
separates. This needs that the connection's row has one holder (`RowExclusive`), that nobody waits for the
refresh lock with the row in hand (`NothingYet`: no refusal or failure is in hand before a grant or at a call),
and that the key names a worker in the critical section, who waits at most for the row (`KeyNamesRefresher`).
Second, nobody turns round: each change of a request or operation raises its `Rank` or ends it
(`RequestsAdvance`, `OperationsAdvance`), except a grant that is asked again after a lost answer, so that each
takes a bounded number of steps beside those retries, which `run_with_backoff` limits to five.

Only model-checked: the liveness properties (`RequestsFinish`, `OperationsFinish`, `DigestsGoOn`,
`FallsSilent`, `DeliveryHeals`), which TLAPS does not reach, and of course the violations. Every safety
property that a passing run checks is also a theorem.

## 5. Plan

1. Done: `Directory`, `Connection`, `SecondFactor`, `ModuleRuntime` with `ModuleGate`, `AiUsage` and `Webhooks`,
   their runs and proofs.
2. Next, where a question about the code calls for it: teams and the purge of expired invitations in
   `Directory`; the composition of `Webhooks` with the token refresh of `Connection`; a refinement of an atomic
   directory (one step per request) for the executions without stale reads.

## 6. Not modelled

The web application, the generated API client, migrations, deployment files, logging, configuration,
mail and encryption: no state of their own that the properties speak of. Provider HTTP clients are
external: their answers are nondeterministic actions. Read-only routes change nothing.

The fixed-window counters (`auth/rate_limit.py`, `_budget_delay` in `connectors/throttle.py`): an INCR, an
EXPIRE on the first, a comparison. A crash between the two commands leaves a counter without expiry, which
nothing repairs; the budget only delays attempts. The tenancy guards (`tenancy/tenant_base.py`): each
statement is rewritten or refused by itself, by what SQLAlchemy finds in it. Teams. A day on which the rollup
did not run is never aggregated by any code; the model has such days and states nothing of them.
