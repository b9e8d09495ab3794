------------------------------ MODULE Webhooks ------------------------------
(***************************************************************************)
(* The notification channels of one connection of one active tenant        *)
(* (apps/api/app/connectors: subscriptions.py, tasks.py, webhooks.py, and  *)
(* the callback and the revocation in oauth.py and router.py), for one     *)
(* capability that both providers notify.                                  *)
(*                                                                         *)
(* A channel lives at the provider; what the platform knows of it is a     *)
(* subscription row in the tenant's database and a route in the control    *)
(* plane.  Synchronisation, renewal, revocation and reconnection change    *)
(* the three one after the other, next to each other, and die half-way.    *)
(*                                                                         *)
(* A task that waits in the broker is the next one of the worker that will *)
(* run it.                                                                 *)
(***************************************************************************)
EXTENDS Naturals, FiniteSets

CONSTANTS Requests,  \* web workers: callbacks and revocations
          Tasks,     \* Celery workers
          Channels,  \* bound: the provider's channels, an identifier may come back
          MaxFaults  \* bound: workers that die and refreshes that are refused

Workers == Requests \cup Tasks

\* Channels live two spans of time; in the second, RENEWAL_LEAD before the end, they
\* are due for renewal.
Life == 2

ASSUME FaultsAssumption == MaxFaults \in Nat
ASSUME ChannelsAssumption == "none" \notin Channels

VARIABLES
    provider, \* "google" or "microsoft"
    status,   \* ConnectorConnection.status
    route,    \* the WebhookRoute of the connection exists
    stale,    \* the channels and the tasks with the route_key of an earlier route
    subs,     \* its ConnectorSubscription rows, by channel
    due,      \* expires_at of the rows, as the time left
    alive,    \* the time that the channels still live at the provider
    locks,    \* the subscriptions whose "renew:" lock is taken
    work,     \* the workers
    faults,   \* workers that died and refreshes that were refused
    crossed,  \* history: a task went to insert a row where another did too
    split     \* history: tasks that died between the commit of a new row and the old one's

connVars == <<status, route, stale>>
subVars == <<subs, due>>
history == <<crossed, split>>
taskVars == <<locks, faults, history>>
vars == <<provider, status, route, stale, subs, due, alive, locks, work, faults,
          crossed, split>>

----------------------------------------------------------------------------
(* State                                                                   *)

\* "error" stands for needs_reconsent too: neither is active nor revoked.
Statuses == {"none", "active", "error", "revoked"}

Places == {"idle", "route", "enqueue", "unroute", "sync", "event", "lock", "create",
           "patch", "stop", "halt", "drop", "fail", "commit"}

\* old is the subscription to renew, "none" in a synchronisation; new the channel made.
Work == [pc: Places, old: Channels \cup {"none"}, new: Channels \cup {"none"}]

Idle == [pc |-> "idle", old |-> "none", new |-> "none"]

At(w, place) == work[w].pc = place

Goto(w, place) == work' = [work EXCEPT ![w].pc = place]

Finish(w) == work' = [work EXCEPT ![w] = Idle]

\* The tasks that have read the rows and will write them.
Changing == {t \in Tasks : work[t].pc \notin {"idle", "sync", "event"}}

\* Those that have read the key of the route and make a channel with it.
Creating == {t \in Tasks : work[t].pc = "create"}

\* What has a route_key: those tasks, and the channels that the platform knows.
Keyed == subs \cup Creating \cup ({work[t].new : t \in Changing} \ {"none"})

\* Those whose new row is committed while the old one is still there.
Between == {t \in Tasks : work[t].pc \in {"halt", "drop"}}

\* Those that will insert a row, or have.
Inserting ==
    {t \in Tasks : \/ work[t].pc \in {"create", "stop"} \/ t \in Between
                   \/ work[t].pc = "commit" /\ work[t].new # "none"}

\* What went wrong is over once no task inserts and one row is left at most.
Settle(rows) ==
    IF Inserting = {} /\ Cardinality(rows) <= 1
    THEN crossed' = FALSE /\ split' = 0
    ELSE UNCHANGED history

\* Identifiers the provider can give to a new channel.
Fresh == {c \in Channels : /\ c \notin subs /\ c \notin locks /\ alive[c] = 0
                           /\ \A w \in Workers : c # work[w].old /\ c # work[w].new}

Init ==
    /\ provider \in {"google", "microsoft"}
    /\ status = "none" /\ route = FALSE /\ stale = {}
    /\ subs = {} /\ due = [c \in Channels |-> 0]
    /\ alive = [c \in Channels |-> 0]
    /\ locks = {}
    /\ work = [w \in Workers |-> Idle]
    /\ faults = 0 /\ crossed = FALSE /\ split = 0

----------------------------------------------------------------------------
(* The callback and the revocation                                         *)

\* The callback commits the connection; one that was started before can revive a
\* revoked connection.
Connect(r) ==
    /\ At(r, "idle")
    /\ status' = "active"
    /\ Goto(r, "route")
    /\ UNCHANGED <<provider, route, stale, subVars, alive, taskVars>>

\* Then the route: the one there is, or one with a new key, which no channel has;
EnsureRoute(r) ==
    /\ At(r, "route")
    /\ route' = TRUE
    /\ stale' = IF route THEN stale ELSE Keyed
    /\ Goto(r, "enqueue")
    /\ UNCHANGED <<provider, status, subVars, alive, taskVars>>

\* then enqueue_subscription_sync.
Enqueue(r) ==
    /\ At(r, "enqueue")
    /\ \E t \in Tasks : At(t, "idle") /\ work' = [work EXCEPT ![r] = Idle, ![t].pc = "sync"]
    /\ UNCHANGED <<provider, connVars, subVars, alive, taskVars>>

\* connector_revoke, the tenant's transaction: the status and the rows.
Revoke(r) ==
    /\ At(r, "idle") /\ status \in {"active", "error"}
    /\ status' = "revoked"
    /\ subs' = {} /\ due' = [c \in Channels |-> 0]
    /\ Settle({})
    /\ stale' = stale \ subs
    /\ Goto(r, "unroute")
    /\ UNCHANGED <<provider, route, alive, locks, faults>>

\* And the control plane's: its key is gone for good.
DropRoute(r) ==
    /\ At(r, "unroute")
    /\ route' = FALSE /\ stale' = {}
    /\ Finish(r)
    /\ UNCHANGED <<provider, status, subVars, alive, taskVars>>

\* A refresh that the provider refuses: needs_reconsent.
RefreshRefused ==
    /\ status = "active" /\ faults < MaxFaults
    /\ status' = "error"
    /\ faults' = faults + 1
    /\ UNCHANGED <<provider, route, stale, subVars, alive, work, locks, history>>

----------------------------------------------------------------------------
(* Synchronisation: sync_connection_subscriptions, ensure_subscriptions    *)

\* Without route, for a connection that is not active or has its subscription, there
\* is nothing to do.
SyncStart(t) ==
    /\ At(t, "sync")
    /\ IF route /\ status = "active" /\ subs = {}
       THEN /\ Goto(t, "create")
            /\ crossed' = (crossed \/ Inserting # {})
       ELSE Finish(t) /\ UNCHANGED crossed
    /\ UNCHANGED <<provider, connVars, subVars, alive, locks, faults, split>>

----------------------------------------------------------------------------
(* Renewal: renew_expiring_subscriptions, renew_subscription               *)

\* Faulty variant: a subscription that has expired is left alone.
DueSoon(c) == due[c] = 1

\* expires_at <= horizon, those that have expired included.
Due(c) == due[c] < Life

\* Faulty variant: the status is not looked at.
RenewableAlways == TRUE

\* The status as loaded, which fresh_access_token reads again.
Renewable == status = "active"

\* A beat has selected the subscription and read the connection.
RenewStart(t, c) ==
    /\ At(t, "idle")
    /\ c \in subs /\ Due(c) /\ Renewable
    /\ work' = [work EXCEPT ![t] = [pc |-> "lock", old |-> c, new |-> "none"]]
    /\ UNCHANGED <<provider, connVars, subVars, alive, taskVars>>

\* Faulty variant: SET without NX.
LockTaken(t) == TRUE

\* acquire_lock
LockFree(t) == work[t].old \notin locks

\* What the lock does not prevent: the subscription was replaced before, or the task that
\* replaces it has released the lock and not committed, or works on another one.
Crosses(t) ==
    \/ work[t].old \notin subs /\ subs # {}
    \/ \E u \in Inserting : work[u].old # work[t].old \/ work[u].pc \in {"commit", "drop"}

\* The lock, then the route, without which the lock is released again.
RenewLock(t) ==
    /\ At(t, "lock") /\ LockFree(t)
    /\ IF ~route
       THEN Finish(t) /\ UNCHANGED <<locks, crossed>>
       ELSE /\ locks' = locks \cup {work[t].old}
            /\ IF provider = "google"
               THEN /\ Goto(t, "create")
                    /\ crossed' = (crossed \/ Crosses(t))
               ELSE Goto(t, "patch") /\ UNCHANGED crossed
    /\ UNCHANGED <<provider, connVars, subVars, alive, faults, split>>

RenewSkip(t) ==
    /\ At(t, "lock") /\ ~LockFree(t)
    /\ Finish(t)
    /\ UNCHANGED <<provider, connVars, subVars, alive, taskVars>>

\* release_lock, before the commit; its GET and its DELETE are two steps, so that it
\* can delete the lock of the next holder.
Release(t) == locks' = locks \ {work[t].old}

\* The channel's URL has the key that the task has read.
KeyOf(t, c) == IF t \in stale THEN {c} ELSE {}

\* The provider makes a channel, known by its answer.
Created(t, c, place) ==
    /\ At(t, "create") /\ c \in Fresh
    /\ alive' = [alive EXCEPT ![c] = Life]
    /\ stale' = (stale \ {t, c}) \cup KeyOf(t, c)
    /\ work' = [work EXCEPT ![t].pc = place, ![t].new = c]
    /\ UNCHANGED <<provider, status, route, subVars, taskVars>>

\* A synchronisation then commits, a renewal goes on to stop the old channel.
CreateGoogleChannel(t, c) ==
    /\ provider = "google"
    /\ Created(t, c, IF work[t].old = "none" THEN "commit" ELSE "stop")

\* Only a synchronisation creates a subscription at Microsoft.
CreateGraphSubscription(t, c) == provider = "microsoft" /\ Created(t, c, "commit")

CreateChannel(t, c) == CreateGoogleChannel(t, c) \/ CreateGraphSubscription(t, c)

\* It makes one and answers 5xx: run_with_backoff tries again.
CreateLost(t, c) ==
    /\ At(t, "create") /\ c \in Fresh
    /\ alive' = [alive EXCEPT ![c] = Life]
    /\ UNCHANGED <<provider, connVars, subVars, work, taskVars>>

\* The row is flushed when _stop_google_channel asks for a token; if the token has come
\* near its end, fresh_access_token refreshes it and commits, the new row included.
StopRefresh(t) ==
    /\ At(t, "stop")
    /\ subs' = subs \cup {work[t].new}
    /\ due' = [due EXCEPT ![work[t].new] = alive[work[t].new]]
    /\ Goto(t, "halt")
    /\ UNCHANGED <<provider, connVars, alive, taskVars>>

\* Best effort; then the DELETE of the old row, uncommitted.
StopChannel(t) ==
    /\ At(t, "stop") \/ At(t, "halt")
    /\ alive' \in {alive, [alive EXCEPT ![work[t].old] = 0]}
    /\ Release(t)
    /\ Goto(t, IF At(t, "stop") THEN "commit" ELSE "drop")
    /\ UNCHANGED <<provider, connVars, subVars, faults, history>>

\* Microsoft's PATCH of a subscription that still lives.  The UPDATE of a row that is
\* gone raises and spoils the session: the task dies of it.
PatchSubscription(t) ==
    /\ At(t, "patch") /\ alive[work[t].old] > 0
    /\ alive' = [alive EXCEPT ![work[t].old] = Life]
    /\ Release(t)
    /\ IF work[t].old \in subs THEN Goto(t, "commit") ELSE Finish(t)
    /\ UNCHANGED <<provider, connVars, subVars, faults, history>>

\* The provider refuses, is unavailable after MAX_ATTEMPTS, or the connection breaks:
\* a synchronisation notes it in last_error, a renewal puts the connection in error.
CallFails(t) ==
    /\ At(t, "create") \/ At(t, "patch")
    /\ Release(t)
    /\ stale' = stale \ {t}
    /\ IF work[t].old = "none" THEN Finish(t) ELSE Goto(t, "fail")
    /\ UNCHANGED <<provider, status, route, subVars, alive, faults, history>>

\* Whatever the status has become.
FailCommit(t) ==
    /\ At(t, "fail")
    /\ status' = "error"
    /\ Finish(t)
    /\ UNCHANGED <<provider, route, stale, subVars, alive, taskVars>>

\* Faulty variant: a PATCH is taken for a replacement.
RowsReplaced(t) == (subs \ {work[t].old}) \cup {work[t].new}

\* The rows after the transaction of a task.
Rows(t) ==
    CASE At(t, "drop") -> subs \ {work[t].old}
      [] At(t, "commit") /\ work[t].new = "none" -> subs
      [] OTHER -> (subs \ {work[t].old}) \cup {work[t].new}

\* The expiration is the one the provider gave; a PATCH writes the row that it
\* extended, unless a revocation deleted it meanwhile.
Commit(t) ==
    /\ At(t, "commit") \/ At(t, "drop")
    /\ subs' = Rows(t)
    /\ due' = [c \in Channels |->
                  CASE c \notin subs' -> 0
                    [] c \in {work[t].old, work[t].new} -> alive[c]
                    [] OTHER -> due[c]]
    /\ Finish(t)
    /\ UNCHANGED <<provider, connVars, alive, taskVars>>

----------------------------------------------------------------------------
(* Notifications: receive_webhook, process_connector_event                 *)

\* The key of its URL finds the route, and the row of the channel holds the secret that
\* the notification carries; anything else is answered the same and dropped.
Validated(c) == route /\ c \in subs /\ c \notin stale

\* The provider notifies as often as it likes while the channel lives.
Notify(t, c) ==
    /\ At(t, "idle")
    /\ alive[c] > 0 /\ Validated(c)
    /\ Goto(t, "event")
    /\ UNCHANGED <<provider, connVars, subVars, alive, taskVars>>

\* process_connector_event audits it and calls the handlers, whatever the status.
ProcessEvent(t) ==
    /\ At(t, "event")
    /\ Finish(t)
    /\ UNCHANGED <<provider, connVars, subVars, alive, taskVars>>

----------------------------------------------------------------------------
(* Environment                                                             *)

Aged(n) == IF n > 0 THEN n - 1 ELSE 0

\* Time passes: channels come due, then expire.  Spans are days, and the tasks that
\* change subscriptions take seconds: none goes on from one span to the next.
Tick ==
    /\ Changing = {} /\ locks = {}
    /\ alive' = [c \in Channels |-> Aged(alive[c])]
    /\ due' = [c \in Channels |-> Aged(due[c])]
    /\ stale' = stale \cap subs
    /\ Settle(subs)
    /\ UNCHANGED <<provider, status, route, subs, work, locks, faults>>

\* The lock of a renewal lives LOCK_TTL_SECONDS, whether its holder is done or not.
LockExpires ==
    /\ \E c \in locks :
          /\ locks' = locks \ {c}
          /\ crossed' = (crossed \/ \E t \in Inserting : work[t].old = c)
    /\ UNCHANGED <<provider, connVars, subVars, alive, work, faults, split>>

\* A worker dies, and its task with it.
Crash(w) ==
    /\ ~At(w, "idle") /\ faults < MaxFaults
    /\ faults' = faults + 1
    /\ stale' = stale \ {w}
    /\ split' = IF w \in Between THEN split + 1 ELSE split
    /\ Finish(w)
    /\ UNCHANGED <<provider, status, route, subVars, alive, locks, crossed>>

----------------------------------------------------------------------------
(* Specification                                                           *)

Request(r) == Connect(r) \/ EnsureRoute(r) \/ Enqueue(r) \/ Revoke(r) \/ DropRoute(r)

\* What a task that has started does next.
Continue(t) ==
    \/ SyncStart(t) \/ RenewLock(t) \/ RenewSkip(t) \/ \E c \in Channels : CreateChannel(t, c)
    \/ StopRefresh(t) \/ StopChannel(t) \/ PatchSubscription(t) \/ CallFails(t) \/ FailCommit(t)
    \/ Commit(t) \/ ProcessEvent(t)

Renewal(c) == \E t \in Tasks : RenewStart(t, c)

Next ==
    \/ \E r \in Requests : Request(r)
    \/ \E t \in Tasks : Continue(t) \/ \E c \in Channels : CreateLost(t, c) \/ Notify(t, c)
    \/ \E c \in Channels : Renewal(c)
    \/ RefreshRefused \/ Tick \/ LockExpires
    \/ \E w \in Workers : Crash(w)

Spec == Init /\ [][Next]_vars

\* Time passes, Valkey honours its TTLs, Celery works its queue off and carries its
\* tasks on, and beat comes back to every subscription that is due.
Fairness ==
    /\ SF_vars(Tick) /\ WF_vars(LockExpires)
    /\ \A t \in Tasks : WF_vars(Continue(t))
    /\ \A c \in Channels : SF_vars(Renewal(c))

FairSpec == Spec /\ Fairness

----------------------------------------------------------------------------
(* Properties                                                              *)

TypeOK ==
    /\ provider \in {"google", "microsoft"}
    /\ status \in Statuses /\ route \in BOOLEAN /\ stale \subseteq Channels \cup Workers
    /\ subs \subseteq Channels /\ locks \subseteq Channels
    /\ due \in [Channels -> 0..Life] /\ alive \in [Channels -> 0..Life]
    /\ work \in [Workers -> Work]
    /\ faults \in 0..MaxFaults /\ crossed \in BOOLEAN /\ split \in Nat

\* A connection has one subscription for a capability, and one more for each task that
\* is, or died, between the commit that a refresh makes of the new row and its own; and
\* one task at a time makes a channel: whatever else was renewed, revoked, reconnected or
\* interrupted, and although beats renew the same subscription at the same time.  Only
\* where a lock ends before its holder has committed, a selection is out of date or a
\* synchronisation has no lock can it have more, until the rows are down to one again
\* (subscriptions.py: ensure_subscriptions creates "les subscriptions manquantes",
\* renew_subscription replaces; tasks.py: "verrou par connexion").
OneSubscription ==
    ~crossed => /\ Cardinality(subs) <= 1 + split + Cardinality(Between)
                /\ \A t, u \in Inserting : t = u

\* A connection that is no longer active for good falls silent: although a task can
\* insert a row after the revocation deleted them and a crash can keep the route, what
\* is left at the provider is renewed no more, and no handler runs for it in the end
\* (router.py: connector_revoke; tasks.py: renew_expiring_subscriptions,
\* process_connector_event).
FallsSilent ==
    <>[](status # "active") => <>[](\A t \in Tasks : ~At(t, "event"))

\* While the connection stays active with its route and keeps a subscription, it is
\* notified again and again: a crash between the channels and the rows, an outage
\* longer than a channel's life, a lock left behind or a channel with the key of a
\* route that was deleted ends no delivery for good (tasks.py:
\* renew_expiring_subscriptions renews "les subscriptions expirant sous RENEWAL_LEAD",
\* and those that have expired).  At Microsoft this takes a subscription with the key
\* of the route: one that was created under a deleted route is extended for ever and
\* keeps the synchronisation from creating another, and nothing it sends is accepted.
DeliveryHeals ==
    <>[](/\ status = "active" /\ route /\ subs # {}
         /\ provider = "microsoft" => ~(subs \subseteq stale))
        => []<>(\E c \in Channels : alive[c] > 0 /\ Validated(c))

=============================================================================
