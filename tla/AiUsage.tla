------------------------------ MODULE AiUsage ------------------------------
(***************************************************************************)
(* The AI gateway of one tenant: policy, calls, metering, the monthly      *)
(* quota and the daily rollup (apps/api/app/ai: gateway.py, policy.py,     *)
(* metering.py, quota.py, tasks.py).                                       *)
(*                                                                         *)
(* A call goes to a provider that the policy allows, leaves a usage event  *)
(* in PostgreSQL, then counts its tokens in Valkey and may raise the alert *)
(* of the day.  The rollup aggregates the day before, sets the counter of  *)
(* the month to what the events say, and purges old events.  Midnight, the *)
(* other calls and crashes come between any two of these steps.            *)
(***************************************************************************)
EXTENDS Naturals, FiniteSets, FiniteSetsExt

CONSTANTS Calls,        \* the calls made, each once
          Providers,
          ZdrProviders, \* ZERO_RETENTION_PROVIDERS
          PlatformKeys, \* providers with a platform key in the settings
          Policies,     \* the policies of the tenant considered
          Retention,    \* ai_usage_raw_retention_days
          MonthLen,     \* days in a month
          CounterTtl,   \* MONTH_TTL_SECONDS, in days
          MaxDay        \* bound: the last day considered

Days == 0..MaxDay
Month(d) == d \div MonthLen
Months == {Month(d) : d \in Days}

Policy == [allowed: SUBSET Providers, zero: BOOLEAN, fallback: Providers \cup {"none"},
           byok: SUBSET Providers, quota: Nat]

ASSUME PoliciesAssumption == Policies \subseteq Policy /\ "none" \notin Providers
ASSUME CalendarAssumption ==
    /\ MonthLen \in Nat \ {0} /\ MaxDay \in Nat
    /\ Retention \in Nat /\ Retention >= MonthLen /\ Retention >= 2
    /\ CounterTtl \in Nat /\ CounterTtl >= 2 * MonthLen

VARIABLES
    policy,  \* tenant_ai_policies, resolved; nothing writes it
    day,     \* today
    call,    \* the calls
    raw,     \* raw[d]: tokens of the stored events of day d
    noted,   \* the days that have stored events
    daily,   \* daily[d]: tokens of the aggregates of day d
    counter, \* counter[m]: the quota counter of month m in Valkey, 0 without key
    expiry,  \* expiry[m]: the day its key expires, 0 without TTL
    alarm,   \* the days whose once-only alert key is set in Valkey
    alerts,  \* alerts[d]: audit events of the alert of day d
    roll,    \* the rollup task
    metered, \* history: metered[d]: tokens of all events ever stored for day d
    rolled,  \* history: the past days that were aggregated
    late,    \* history: days of which an event was stored after its aggregation
    drift,   \* history: drift[m]: tokens by which that counter may be off
    lost     \* history: days whose alert was interrupted

storeVars == <<raw, noted, metered, late>>
rollVars == <<daily, roll, rolled>>
alertVars == <<alarm, alerts, lost>>
countVars == <<counter, expiry, drift>>
vars == <<policy, day, call, raw, noted, daily, counter, expiry, alarm, alerts, roll,
          metered, rolled, late, drift, lost>>

----------------------------------------------------------------------------
(* State                                                                   *)

Places == {"idle", "call", "commit", "count", "alert", "audit", "end", "done"}

Kinds == {"chat", "stream", "embed"}

\* What _usage_from reads in an answer: the usage, or none.
Tokens == 0..1

\* spare says that a failure leads to the fallback, and stamp is the day that `now`
\* gave to the event, then to the alert.
Call == [pc: Places, kind: Kinds \cup {"none"}, spare: BOOLEAN, tokens: Tokens, stamp: Days]

NewCall == [pc |-> "idle", kind |-> "none", spare |-> FALSE, tokens |-> 0, stamp |-> 0]

At(c, place) == call[c].pc = place

Goto(c, place) ==
    call' = [call EXCEPT ![c] = IF place = "end" THEN [@ EXCEPT !.pc = "end", !.tokens = 0, !.stamp = 0]
                                ELSE [@ EXCEPT !.pc = place]]

\* The caller has its answer or its error.
Done(c) == call' = [call EXCEPT ![c] = [NewCall EXCEPT !.pc = "done"]]

\* The rollup keeps the day it aggregates and the month it reads, the sum it read,
\* and, as history, the tokens of the calls between event and count meanwhile.
Roll == [pc: {"idle", "aggregate", "sum", "set", "purge"}, target: Days, month: Months,
         sum: Nat, overlap: Nat]

NoRoll == [pc |-> "idle", target |-> 0, month |-> 0, sum |-> 0, overlap |-> 0]

\* Tokens of a month in a table of days.
Total(table, m) == MapThenSumSet(LAMBDA d : table[d], {d \in Days : Month(d) = m})

Counting(m) == {c \in Calls : At(c, "count") /\ Month(call[c].stamp) = m}

Init ==
    /\ policy \in Policies
    /\ day = 0
    /\ call = [c \in Calls |-> NewCall]
    /\ raw = [d \in Days |-> 0] /\ noted = {} /\ daily = [d \in Days |-> 0]
    /\ counter = [m \in Months |-> 0] /\ expiry = [m \in Months |-> 0]
    /\ alarm = {} /\ alerts = [d \in Days |-> 0]
    /\ roll = NoRoll
    /\ metered = [d \in Days |-> 0]
    /\ rolled = {} /\ late = {} /\ lost = {}
    /\ drift = [m \in Months |-> 0]

----------------------------------------------------------------------------
(* Policy                                                                  *)

\* ResolvedPolicy.select, which raises PolicyError otherwise.
Accepts(p) ==
    /\ policy.allowed # {} => p \in policy.allowed
    /\ policy.zero => p \in ZdrProviders

\* _api_key, which raises ProviderUnavailable otherwise.
HasKey(p) == p \in policy.byok \cup PlatformKeys

Send(c, kind, spare) ==
    call' = [call EXCEPT ![c] = [NewCall EXCEPT !.pc = "call", !.kind = kind, !.spare = spare]]

\* chat tries the fallback after a GatewayError, once, if there is one.
Fallback == policy.fallback # "none"

\* The second attempt: the same selection, the same keys.
Retry(c) ==
    IF Accepts(policy.fallback) /\ HasKey(policy.fallback)
    THEN Send(c, "chat", FALSE)
    ELSE Done(c)

\* chat, with the provider asked for or the default one of the policy.  A refusal is
\* final, a missing key is a failure like another.
StartChat(c, p) ==
    /\ At(c, "idle")
    /\ CASE Accepts(p) /\ HasKey(p) -> Send(c, "chat", Fallback)
         [] Accepts(p) /\ ~HasKey(p) /\ Fallback -> Retry(c)
         [] OTHER -> Done(c)
    /\ UNCHANGED <<policy, day, storeVars, rollVars, alertVars, countVars>>

\* chat_stream and embed, which have no second attempt.
StartOnce(c, kind, p) ==
    /\ At(c, "idle")
    /\ IF Accepts(p) /\ HasKey(p) THEN Send(c, kind, FALSE) ELSE Done(c)
    /\ UNCHANGED <<policy, day, storeVars, rollVars, alertVars, countVars>>

----------------------------------------------------------------------------
(* A call: _chat_once, chat_stream, embed, then _meter_wrap                *)

\* The provider answered or failed; then the INSERT of record_usage, whose occurred_at
\* is the start of that transaction.
Outcome(c, failed, tokens) ==
    /\ call' = [call EXCEPT ![c] = [pc |-> "commit", kind |-> "none", tokens |-> tokens,
                                    stamp |-> day, spare |-> failed /\ @.spare]]
    /\ UNCHANGED <<policy, day, storeVars, rollVars, alertVars, countVars>>

Waiting(c, kind) == At(c, "call") /\ call[c].kind = kind

Answered(c) == Waiting(c, "chat") /\ \E tokens \in Tokens : Outcome(c, FALSE, tokens)

\* A chat that fails or times out counts no tokens.
Fails(c) == Waiting(c, "chat") /\ Outcome(c, TRUE, 0)

\* A stream that fails, or that its consumer leaves, counts those it knows of by then.
Streams(c) ==
    Waiting(c, "stream") /\ \E failed \in BOOLEAN, tokens \in Tokens : Outcome(c, failed, tokens)

Embeds(c) ==
    /\ Waiting(c, "embed")
    /\ \E failed \in BOOLEAN, tokens \in Tokens :
          (failed => tokens = 0) /\ Outcome(c, failed, tokens)

\* Only the tokens of a call are counted against the quota.
AfterEvent(c) == IF call[c].tokens > 0 THEN "count" ELSE "end"

Overlap(c) ==
    roll' = [roll EXCEPT !.overlap = IF roll.pc = "set" THEN @ + call[c].tokens ELSE @]

Drifts(m, tokens) == [drift EXCEPT ![m] = @ + tokens]

CommitEvent(c) ==
    /\ At(c, "commit")
    /\ raw' = [raw EXCEPT ![call[c].stamp] = @ + call[c].tokens]
    /\ metered' = [metered EXCEPT ![call[c].stamp] = @ + call[c].tokens]
    /\ noted' = noted \cup {call[c].stamp}
    /\ late' = IF call[c].stamp \in rolled THEN late \cup {call[c].stamp} ELSE late
    /\ Goto(c, AfterEvent(c))
    /\ Overlap(c)
    /\ UNCHANGED <<policy, day, daily, rolled, alertVars, countVars>>

\* Best effort: a failed insert is logged and forgotten.
EventFails(c) ==
    /\ At(c, "commit")
    /\ Goto(c, AfterEvent(c))
    /\ drift' = Drifts(Month(call[c].stamp), call[c].tokens)
    /\ Overlap(c)
    /\ UNCHANGED <<policy, day, storeVars, daily, rolled, alertVars, counter, expiry>>

\* add_usage: INCRBY.
NewTotal(c, m) == counter[m] + call[c].tokens

\* EXPIRE, after the first write of the month only.
Expiry(c, m) == IF NewTotal(c, m) = call[c].tokens THEN day + CounterTtl ELSE expiry[m]

\* record_and_alert: add_usage, then whether the quota is exceeded.
Count(c) ==
    /\ At(c, "count")
    /\ LET m == Month(day)
           total == NewTotal(c, m)
       IN  /\ counter' = [counter EXCEPT ![m] = total]
           /\ expiry' = [expiry EXCEPT ![m] = Expiry(c, m)]
           /\ drift' = [n \in Months |->
                          IF m # Month(call[c].stamp) /\ n \in {m, Month(call[c].stamp)}
                          THEN drift[n] + call[c].tokens ELSE drift[n]]
           /\ Goto(c, IF total > policy.quota THEN "alert" ELSE "end")
    /\ UNCHANGED <<policy, day, storeVars, rollVars, alertVars>>

\* Faulty variant: SET without NX.
AlertAgain(c) ==
    /\ At(c, "alert")
    /\ alarm' = alarm \cup {day}
    /\ call' = [call EXCEPT ![c].pc = "audit", ![c].stamp = day]
    /\ UNCHANGED <<policy, day, storeVars, rollVars, alerts, lost, countVars>>

\* _emit_alert_once: the key of the day first, by SET NX.
AlertKey(c) ==
    /\ At(c, "alert")
    /\ IF day \in alarm
       THEN Goto(c, "end") /\ UNCHANGED alarm
       ELSE /\ alarm' = alarm \cup {day}
            /\ call' = [call EXCEPT ![c].pc = "audit", ![c].stamp = day]
    /\ UNCHANGED <<policy, day, storeVars, rollVars, alerts, lost, countVars>>

\* Then the audit event.
AlertAudit(c) ==
    /\ At(c, "audit")
    /\ alerts' = [alerts EXCEPT ![call[c].stamp] = @ + 1]
    /\ Goto(c, "end")
    /\ UNCHANGED <<policy, day, storeVars, rollVars, alarm, lost, countVars>>

\* The answer, the error, or the second attempt.
Finish(c) ==
    /\ At(c, "end")
    /\ IF call[c].spare THEN Retry(c) ELSE Done(c)
    /\ UNCHANGED <<policy, day, storeVars, rollVars, alertVars, countVars>>

\* The process dies or the request is cancelled; from the count on also: Valkey or the
\* audit raises, and the caller gets that exception instead of the answer.
Stops(c) ==
    /\ call[c].pc \notin {"idle", "done"}
    /\ drift' = IF At(c, "count") THEN Drifts(Month(call[c].stamp), call[c].tokens) ELSE drift
    /\ lost' = IF At(c, "audit") THEN lost \cup {call[c].stamp} ELSE lost
    /\ Done(c)
    /\ UNCHANGED <<policy, day, storeVars, rollVars, alarm, alerts, counter, expiry>>

----------------------------------------------------------------------------
(* The daily rollup                                                        *)

\* Faulty variant: one day too far back.
TwoDaysAgo == day - 2

Yesterday == day - 1

\* _run_daily_rollup; it may be run again the same day.
RollStart ==
    /\ roll.pc = "idle" /\ day > 0
    /\ roll' = [NoRoll EXCEPT !.pc = "aggregate", !.target = Yesterday]
    /\ UNCHANGED <<policy, day, call, storeVars, daily, rolled, alertVars, countVars>>

\* Faulty variant: the aggregate is an increment.
AggregateAdds == daily[roll.target] + raw[roll.target]

\* The sums are computed again, not added: the upsert sets them; without events
\* there is nothing to upsert.
Aggregate == IF roll.target \in noted THEN raw[roll.target] ELSE daily[roll.target]

\* aggregate_day
AggregateDay ==
    /\ roll.pc = "aggregate"
    /\ daily' = [daily EXCEPT ![roll.target] = Aggregate]
    /\ rolled' = rolled \cup {roll.target}
    /\ late' = late \ {roll.target}
    /\ roll' = [NoRoll EXCEPT !.pc = "sum"]
    /\ UNCHANGED <<policy, day, call, raw, noted, metered, alertVars, countVars>>

\* The SELECT of reconcile_month_quotas; a tenant without events is not in it.
SumMonth ==
    /\ roll.pc = "sum"
    /\ LET m == Month(day)
       IN  roll' = IF \E d \in noted : Month(d) = m
                   THEN [pc |-> "set", target |-> 0, month |-> m, sum |-> Total(raw, m),
                         overlap |-> Cardinality(Counting(m))]
                   ELSE [NoRoll EXCEPT !.pc = "purge"]
    /\ UNCHANGED <<policy, day, call, storeVars, daily, rolled, alertVars, countVars>>

\* Faulty variant: the counter is incremented.
ReconciledAdds == counter[Month(day)] + roll.sum

Reconciled == roll.sum

\* What a reconciliation leaves behind: the calls it overlapped; or, when the month
\* turned before the SET, all that was set and all that should have been.
Residue(m) ==
    IF roll.month = m THEN roll.overlap
    ELSE roll.sum + Total(metered, m) + Cardinality(Counting(m))

\* quota.reconcile sets the counter of the month it is by then, and its TTL.
Reconcile ==
    /\ roll.pc = "set"
    /\ counter' = [counter EXCEPT ![Month(day)] = Reconciled]
    /\ expiry' = [expiry EXCEPT ![Month(day)] = day + CounterTtl]
    /\ drift' = [drift EXCEPT ![Month(day)] = Residue(Month(day))]
    /\ roll' = [NoRoll EXCEPT !.pc = "purge"]
    /\ UNCHANGED <<policy, day, call, storeVars, daily, rolled, alertVars>>

\* purge_raw_events: what is older than the retention goes; of the day that the
\* cutoff falls in, a part.
PurgeEvents ==
    /\ roll.pc = "purge"
    /\ \E kept \in IF day >= Retention THEN 0..raw[day - Retention] ELSE {0} :
          raw' = [d \in Days |-> CASE d + Retention < day -> 0
                                  [] d + Retention = day -> kept
                                  [] OTHER -> raw[d]]
    /\ noted' = {d \in noted : d + Retention >= day}
    /\ roll' = NoRoll
    /\ UNCHANGED <<policy, day, call, metered, late, daily, rolled, alertVars, countVars>>

\* The task dies, or one of its steps raises: the rest of it is not done.
RollFails ==
    /\ roll.pc # "idle"
    /\ roll' = NoRoll
    /\ UNCHANGED <<policy, day, call, storeVars, daily, rolled, alertVars, countVars>>

\* Valkey drops a key whose TTL ran out.
CounterExpires(m) ==
    /\ expiry[m] # 0 /\ day >= expiry[m]
    /\ counter' = [counter EXCEPT ![m] = 0]
    /\ expiry' = [expiry EXCEPT ![m] = 0]
    /\ UNCHANGED <<policy, day, call, storeVars, rollVars, alertVars, drift>>

\* Midnight.
NextDay ==
    /\ day < MaxDay
    /\ day' = day + 1
    /\ UNCHANGED <<policy, call, storeVars, rollVars, alertVars, countVars>>

----------------------------------------------------------------------------
(* Specification                                                           *)

CallNext(c) ==
    \/ \E p \in Providers : StartChat(c, p)
    \/ \E p \in Providers : StartOnce(c, "stream", p) \/ StartOnce(c, "embed", p)
    \/ Answered(c) \/ Fails(c) \/ Streams(c) \/ Embeds(c)
    \/ CommitEvent(c) \/ EventFails(c)
    \/ Count(c) \/ AlertKey(c) \/ AlertAudit(c) \/ Finish(c) \/ Stops(c)

Next ==
    \/ \E c \in Calls : CallNext(c)
    \/ RollStart \/ AggregateDay \/ SumMonth \/ Reconcile \/ PurgeEvents \/ RollFails
    \/ NextDay \/ \E m \in Months : CounterExpires(m)

Spec == Init /\ [][Next]_vars

----------------------------------------------------------------------------
(* Properties                                                              *)

TypeOK ==
    /\ policy \in Policies /\ day \in Days
    /\ call \in [Calls -> Call]
    /\ \A table \in {raw, daily, metered, alerts} :
          DOMAIN table = Days /\ \A d \in Days : table[d] \in Nat
    /\ \A table \in {counter, expiry, drift} :
          DOMAIN table = Months /\ \A m \in Months : table[m] \in Nat
    /\ noted \subseteq Days /\ alarm \subseteq Days /\ rolled \subseteq Days
    /\ late \subseteq Days /\ lost \subseteq Days
    /\ roll.pc \in {"idle", "aggregate", "sum", "set", "purge"}
    /\ roll.target \in Days /\ roll.month \in Months
    /\ roll.sum \in Nat /\ roll.overlap \in Nat

\* "Derive bornee a la journee" (quota.py): the counter of this month and of the
\* month before, the calls between event and count added, differs from the events in
\* PostgreSQL by no more than what went wrong since the last reconciliation: one call
\* for each event that was not stored, each death before the count, each event
\* counted in another month, and each call that stored its event or was about to count
\* between the SELECT and the SET of that reconciliation (counted twice or not at all,
\* never more).  Only a reconciliation that the turn of the month cut in two leaves a
\* counter of which nothing can be said.  Older counters have expired.
QuotaWithinDrift ==
    \A m \in Months : Month(day) <= m + 1 =>
        LET seen == counter[m] + Cardinality(Counting(m))
        IN  /\ seen <= Total(metered, m) + drift[m]
            /\ Total(metered, m) <= seen + drift[m]

\* The aggregate of a day keeps what the events of that day said, whenever the rollup
\* was repeated, failed half-way or purged those events, unless an event was stored
\* after it (tasks.py: aggregate_day, "upsert idempotent, rejouable", purge_raw_events).
AggregatesExact == \A d \in rolled \ late : daily[d] = metered[d]

\* Calls that exceed the quota together raise the alert of the day once, and not
\* without audit event unless the one that raised it was interrupted (quota.py:
\* _emit_alert_once, "au plus une fois par jour").
AlertOnce ==
    \A d \in Days :
        /\ alerts[d] <= 1
        /\ d \in alarm \ lost =>
              alerts[d] = 1 \/ \E c \in Calls : At(c, "audit") /\ call[c].stamp = d

=============================================================================
