--------------------------- MODULE ModuleRuntime ---------------------------
(***************************************************************************)
(* A module of the automation runtime, for one tenant                      *)
(* (apps/api/app/automation: service.py, scheduler.py, mounting.py, and    *)
(* the module apps/api/app/modules/sample_digest).                         *)
(*                                                                         *)
(* The row of tenant_modules says whether the module is enabled.  Requests *)
(* to the module's routes read it through a cache that each process keeps  *)
(* for Ttl; the periodic fan-out reads it directly and publishes a unit,   *)
(* which a Celery worker runs under a Valkey lock.  Every await is a step: *)
(* the other workers go on in between, and a process can die there.        *)
(***************************************************************************)
EXTENDS Naturals, FiniteSets

CONSTANTS Workers,    \* web requests, administrations and Celery tasks in progress
          Processes,
          Crews,      \* the crews considered: what each worker does, in which process
          Ttl,        \* _STATE_TTL_SECONDS, in ticks of the monotonic clock
          MaxQueue,   \* bound: units waiting in the broker
          MaxCrashes  \* bound: processes that die

Kinds == {"request", "enable", "disable", "fanout", "unit"}

ASSUME WorkersAssumption == \A w \in Workers : w \notin {"free", "orphan"}
ASSUME CrewsAssumption == Crews \subseteq [Workers -> [jobs: SUBSET Kinds, home: Processes]]
ASSUME BoundsAssumption == Ttl \in Nat \ {0} /\ MaxQueue \in Nat /\ MaxCrashes \in Nat

VARIABLES
    crew,    \* what each worker does, and the process it runs in
    row,     \* the tenant_modules row: absent, enabled or not
    active,  \* the tenant is active and not deleted
    logged,  \* the kinds of activation that have a committed audit event
    cache,   \* _state_cache of each process
    queue,   \* periodic_unit tasks in the broker
    lock,    \* who holds "module:<module>:<task>:<tenant>" in Valkey
    work,    \* the workers
    crashes, \* processes that died
    overrun, \* history: the unit lock expired under a live unit
    age,     \* history: ticks since the module was last enabled and last not
    may      \* history: the states a pending request may be answered with

gateVars == <<age, may>>
unitVars == <<queue, lock, overrun>>
fixedVars == <<crew, active, crashes>>
vars == <<crew, row, active, logged, cache, queue, lock, work, crashes, overrun, age, may>>

----------------------------------------------------------------------------
(* State                                                                   *)

Rows == {"none", "off", "on"}

\* row is not None and row.enabled
Enabled(r) == IF r = "on" THEN "on" ELSE "off"

\* An entry of the cache, by the time it still has to live: none, or one that
\* has expired, has left = 0.
Entry == [val: {"on", "off"}, left: 0..Ttl]

NoEntry == [val |-> "off", left |-> 0]

Places == {"idle", "select", "fill", "on", "off", "load", "audit", "commit",
           "invalidate", "publish", "acquire", "run", "release", "delete"}

\* A worker keeps the row it read, and of `now`, the time that a cache entry
\* stamped with it would still have to live.
Work == [pc: Places, kind: Kinds \cup {"none"}, saw: Rows, left: 0..Ttl]

Idle == [pc |-> "idle", kind |-> "none", saw |-> "none", left |-> 0]

Home(w) == crew[w].home

At(w, place) == work[w].pc = place

Goto(w, place) == work' = [work EXCEPT ![w].pc = place]

Finish(w) == work' = [work EXCEPT ![w] = Idle]

Begin(w, kind, place) ==
    /\ At(w, "idle") /\ kind \in crew[w].jobs
    /\ work' = [work EXCEPT ![w] = [pc |-> place, kind |-> kind, saw |-> "none", left |-> 0]]

Asking(w) == work[w].pc \in {"select", "fill"}

\* Between the acquisition of the unit lock and its release.
Holding(w) == work[w].pc \in {"run", "release", "delete"}

\* Bound: nothing more is published while the broker holds MaxQueue units, the
\* one about to be published included.
Room == queue < MaxQueue /\ \A w \in Workers : ~At(w, "publish")

Init ==
    /\ crew \in Crews
    /\ row = "none" /\ active = TRUE /\ logged = {}
    /\ cache = [p \in Processes |-> NoEntry]
    /\ queue = 0 /\ lock = "free"
    /\ work = [w \in Workers |-> Idle]
    /\ crashes = 0 /\ overrun = FALSE
    /\ age = [v \in {"on", "off"} |-> IF v = "off" THEN 0 ELSE Ttl]
    /\ may = [w \in Workers |-> {}]

----------------------------------------------------------------------------
(* The gate: require_module_enabled and is_module_enabled                  *)

\* A cached state that still lives answers at once.
RequestHit(w) ==
    /\ active
    /\ cache[Home(w)].left > 0
    /\ Begin(w, "request", cache[Home(w)].val)
    /\ UNCHANGED <<fixedVars, row, logged, cache, unitVars, gateVars>>

\* Faulty variant: cached[1] >= now, an entry still lives at its end.
LifetimeInclusive == Ttl + 1

\* now + _STATE_TTL_SECONDS, against cached[1] > now.
Lifetime == Ttl

\* Otherwise the row is selected; `now` was read before.
RequestMiss(w) ==
    /\ active
    /\ cache[Home(w)].left = 0
    /\ At(w, "idle") /\ "request" \in crew[w].jobs
    /\ work' = [work EXCEPT ![w] = [pc |-> "select", kind |-> "request", saw |-> "none",
                                    left |-> Lifetime]]
    /\ may' = [may EXCEPT ![w] = {v \in {"on", "off"} : age[v] < Ttl}]
    /\ UNCHANGED <<fixedVars, row, logged, cache, unitVars, age>>

Select(w) ==
    /\ At(w, "select")
    /\ work' = [work EXCEPT ![w].pc = "fill", ![w].saw = row]
    /\ UNCHANGED <<fixedVars, row, logged, cache, unitVars, gateVars>>

\* Faulty variant: the entry lives from the end of the SELECT.
FillLate(w) ==
    /\ At(w, "fill")
    /\ cache' = [cache EXCEPT ![Home(w)] = [val |-> Enabled(work[w].saw), left |-> Ttl]]
    /\ Goto(w, Enabled(work[w].saw))
    /\ may' = [may EXCEPT ![w] = {}]
    /\ UNCHANGED <<fixedVars, row, logged, unitVars, age>>

\* The entry is written whatever happened to the cache during the SELECT, and
\* lives from before it.
Fill(w) ==
    /\ At(w, "fill")
    /\ cache' = [cache EXCEPT ![Home(w)] = [val |-> Enabled(work[w].saw), left |-> work[w].left]]
    /\ Goto(w, Enabled(work[w].saw))
    /\ may' = [may EXCEPT ![w] = {}]
    /\ UNCHANGED <<fixedVars, row, logged, unitVars, age>>

\* 403 if the module is not enabled.
Refuse(w) ==
    /\ At(w, "off")
    /\ Finish(w)
    /\ UNCHANGED <<fixedVars, row, logged, cache, unitVars, gateVars>>

\* list_digests only reads, like an admitted request that lacks the permission.
ListDigests(w) ==
    /\ At(w, "on")
    /\ Finish(w)
    /\ UNCHANGED <<fixedVars, row, logged, cache, unitVars, gateVars>>

\* run_now publishes the same unit as the scheduler.
RunNow(w) ==
    /\ At(w, "on") /\ Room
    /\ queue' = queue + 1
    /\ Finish(w)
    /\ UNCHANGED <<fixedVars, row, logged, cache, lock, overrun, gateVars>>

----------------------------------------------------------------------------
(* Activation: enable_module and disable_module                            *)

\* The tenant's connections give the capabilities the module requires; without
\* them ModuleError changes nothing.
EnableStart(w) ==
    /\ Begin(w, "enable", "load")
    /\ UNCHANGED <<fixedVars, row, logged, cache, unitVars, gateVars>>

DisableStart(w) ==
    /\ Begin(w, "disable", "load")
    /\ UNCHANGED <<fixedVars, row, logged, cache, unitVars, gateVars>>

\* Disabling what is not enabled ends here.
LoadRow(w) ==
    /\ At(w, "load")
    /\ IF work[w].kind = "disable" /\ row # "on"
       THEN Finish(w)
       ELSE work' = [work EXCEPT ![w].pc = "audit", ![w].saw = row]
    /\ UNCHANGED <<fixedVars, row, logged, cache, unitVars, gateVars>>

\* Faulty variant: the event is left for after the commit of the action.
AuditSkipped(w) ==
    /\ At(w, "audit")
    /\ Goto(w, "commit")
    /\ UNCHANGED <<fixedVars, row, logged, cache, unitVars, gateVars>>

\* record_audit_event_for_tenant commits in a session of its own, before.
Audit(w) ==
    /\ At(w, "audit")
    /\ logged' = logged \cup {work[w].kind}
    /\ Goto(w, "commit")
    /\ UNCHANGED <<fixedVars, row, cache, unitVars, gateVars>>

\* What the ORM writes: a new row, unless the pair (tenant, module) exists by then
\* (IntegrityError); the column when its value differs from the one loaded.
Conflict(w) == work[w].saw = "none" /\ row # "none"

Written(w) ==
    CASE work[w].kind = "disable" -> "off"
      [] work[w].kind = "enable" /\ work[w].saw # "on" -> "on"
      [] OTHER -> row

\* The history of the row's value, and of what pending requests may be told.
Record(new) ==
    IF Enabled(new) = Enabled(row)
    THEN UNCHANGED gateVars
    ELSE /\ age' = [age EXCEPT ![Enabled(new)] = 0]
         /\ may' = [w \in Workers |->
                       IF Asking(w) THEN may[w] \cup {Enabled(new)} ELSE may[w]]

CommitRow(w) ==
    /\ At(w, "commit") /\ ~Conflict(w)
    /\ row' = Written(w)
    /\ Record(Written(w))
    /\ Goto(w, "invalidate")
    /\ UNCHANGED <<fixedVars, logged, cache, unitVars>>

\* The cache of this process only.
Invalidate(w) ==
    /\ At(w, "invalidate")
    /\ cache' = [cache EXCEPT ![Home(w)] = NoEntry]
    /\ Finish(w)
    /\ UNCHANGED <<fixedVars, row, logged, unitVars, gateVars>>

\* A query or a commit raises: the operation is given up, nothing is written.
Fail(w) ==
    /\ work[w].pc \in {"select", "load", "audit", "commit"}
    /\ Finish(w)
    /\ may' = [may EXCEPT ![w] = {}]
    /\ UNCHANGED <<fixedVars, row, logged, cache, unitVars, age>>

----------------------------------------------------------------------------
(* The scheduler: run_periodic_fanout and run_periodic_unit                *)

\* enabled_tenant_ids: the tenants with the module enabled, deleted or not.
FanoutRead(w) ==
    /\ row = "on" /\ Room
    /\ Begin(w, "fanout", "publish")
    /\ UNCHANGED <<fixedVars, row, logged, cache, unitVars, gateVars>>

Publish(w) ==
    /\ At(w, "publish")
    /\ queue' = queue + 1
    /\ Finish(w)
    /\ UNCHANGED <<fixedVars, row, logged, cache, lock, overrun, gateVars>>

\* _active_tenant
TenantOk == active

\* A worker takes a unit from the broker, which forgets it, and reads the tenant.
UnitTake(w) ==
    /\ queue > 0
    /\ queue' = queue - 1
    /\ IF TenantOk
       THEN Begin(w, "unit", "acquire")
       ELSE At(w, "idle") /\ "unit" \in crew[w].jobs /\ UNCHANGED work
    /\ UNCHANGED <<fixedVars, row, logged, cache, lock, overrun, gateVars>>

\* Faulty variant: the lock is not looked at.
TakeAnyway(w) == lock' = w

\* acquire_lock: SET NX with a TTL.
Take(w) == lock = "free" /\ lock' = w

UnitAcquire(w) ==
    /\ At(w, "acquire")
    /\ Take(w)
    /\ Goto(w, "run")
    /\ UNCHANGED <<fixedVars, row, logged, cache, queue, overrun, gateVars>>

\* A previous unit still runs: skipped.
UnitSkip(w) ==
    /\ At(w, "acquire") /\ lock # "free"
    /\ Finish(w)
    /\ UNCHANGED <<fixedVars, row, logged, cache, unitVars, gateVars>>

\* The module's function succeeds: generate_digest_task has stored a digest and its
\* audit event in one transaction.
UnitDone(w) ==
    /\ At(w, "run")
    /\ Goto(w, "release")
    /\ UNCHANGED <<fixedVars, row, logged, cache, unitVars, gateVars>>

\* No mail connection, or the provider or the AI gateway fails: captured, nothing
\* is stored.
UnitFails(w) ==
    /\ At(w, "run")
    /\ Goto(w, "release")
    /\ UNCHANGED <<fixedVars, row, logged, cache, unitVars, gateVars>>

\* release_lock is a GET, then a DELETE of whatever is there by then.
ReleaseGet(w) ==
    /\ At(w, "release")
    /\ IF lock = w THEN Goto(w, "delete") ELSE Finish(w)
    /\ UNCHANGED <<fixedVars, row, logged, cache, unitVars, gateVars>>

ReleaseDelete(w) ==
    /\ At(w, "delete")
    /\ lock' = "free"
    /\ Finish(w)
    /\ UNCHANGED <<fixedVars, row, logged, cache, queue, overrun, gateVars>>

----------------------------------------------------------------------------
(* Environment                                                             *)

\* The time left until a deadline, one tick later.
Aged(n) == IF n > 0 THEN n - 1 ELSE 0

\* Time passes for every clock.
Tick ==
    /\ cache' = [p \in Processes |-> [cache[p] EXCEPT !.left = Aged(@)]]
    /\ work' = [w \in Workers |-> [work[w] EXCEPT !.left = Aged(@)]]
    /\ age' = [v \in {"on", "off"} |->
                  IF v # Enabled(row) /\ age[v] < Ttl THEN age[v] + 1 ELSE age[v]]
    /\ UNCHANGED <<fixedVars, row, logged, unitVars, may>>

\* Faulty variant: a lock without TTL.
LockExpiresNever == FALSE /\ UNCHANGED vars

\* The TTL of the lock, LOCK_TTL_SECONDS, may be shorter than a unit.
LockExpires ==
    /\ lock # "free"
    /\ lock' = "free"
    /\ overrun' = (overrun \/ lock \in Workers)
    /\ UNCHANGED <<fixedVars, row, logged, cache, queue, work, gateVars>>

\* A process dies: its cache and its workers' operations are gone, the lock stays.
Crash(p) ==
    LET dead == {w \in Workers : Home(w) = p}
    IN  /\ crashes < MaxCrashes
        /\ crashes' = crashes + 1
        /\ cache' = [cache EXCEPT ![p] = NoEntry]
        /\ work' = [w \in Workers |-> IF w \in dead THEN Idle ELSE work[w]]
        /\ may' = [w \in Workers |-> IF w \in dead THEN {} ELSE may[w]]
        /\ lock' = IF lock \in dead THEN "orphan" ELSE lock
        /\ UNCHANGED <<crew, active, row, logged, queue, overrun, age>>

\* _soft_delete of the tenant.
DeleteTenant ==
    /\ active
    /\ active' = FALSE
    /\ UNCHANGED <<crew, crashes, row, logged, cache, unitVars, work, gateVars>>

----------------------------------------------------------------------------
(* Specification                                                           *)

Gate(w) ==
    \/ RequestHit(w) \/ RequestMiss(w) \/ Select(w) \/ Fill(w)
    \/ Refuse(w) \/ ListDigests(w) \/ RunNow(w)

Activation(w) ==
    \/ EnableStart(w) \/ DisableStart(w) \/ LoadRow(w) \/ Audit(w)
    \/ CommitRow(w) \/ Invalidate(w) \/ Fail(w)

Schedule(w) ==
    \/ FanoutRead(w) \/ Publish(w) \/ UnitTake(w) \/ UnitAcquire(w) \/ UnitSkip(w)
    \/ UnitDone(w) \/ UnitFails(w) \/ ReleaseGet(w) \/ ReleaseDelete(w)

Next ==
    \/ \E w \in Workers : Gate(w) \/ Activation(w) \/ Schedule(w)
    \/ \E p \in Processes : Crash(p)
    \/ Tick \/ LockExpires \/ DeleteTenant

Spec == Init /\ [][Next]_vars

\* A Celery worker carries its task on to the end.
Continue(w) ==
    \/ Publish(w) \/ UnitAcquire(w) \/ UnitSkip(w) \/ UnitDone(w) \/ UnitFails(w)
    \/ ReleaseGet(w) \/ ReleaseDelete(w)

\* Besides, beat publishes the fan-out again and again, Celery works its queue off,
\* Valkey honours its TTLs, and a module function that is run again and again succeeds
\* again and again: its mail provider and its AI provider are not down for good.
Fairness ==
    /\ WF_vars(LockExpires)
    /\ \A w \in Workers : WF_vars(Continue(w))
    /\ SF_vars(\E w \in Workers : FanoutRead(w))
    /\ SF_vars(\E w \in Workers : UnitTake(w))
    /\ SF_vars(\E w \in Workers : UnitDone(w))

FairSpec == Spec /\ Fairness

----------------------------------------------------------------------------
(* Properties                                                              *)

TypeOK ==
    /\ crew \in [Workers -> [jobs: SUBSET Kinds, home: Processes]]
    /\ row \in Rows /\ active \in BOOLEAN
    /\ logged \subseteq {"enable", "disable"}
    /\ cache \in [Processes -> Entry]
    /\ queue \in 0..MaxQueue
    /\ lock \in Workers \cup {"free", "orphan"}
    /\ work \in [Workers -> Work]
    /\ crashes \in 0..MaxCrashes /\ overrun \in BOOLEAN
    /\ age \in [{"on", "off"} -> 0..Ttl]
    /\ may \in [Workers -> SUBSET {"on", "off"}]

\* Two units of the same module, task and tenant run at the same time only if the
\* lock of one expired while it was running (scheduler.py: run_periodic_unit takes
\* the lock "contre les chevauchements", with a fixed TTL and no renewal).
UnitsExclusive ==
    \A v, w \in Workers : v # w /\ Holding(v) /\ Holding(w) => overrun

\* A module that is or was enabled has the audit event of it, whatever operation
\* failed, died or lost a race on the way (service.py: the event is committed before
\* the action, "jamais une action sans trace").
ActivationLogged ==
    /\ row = "on" => "enable" \in logged
    /\ row = "off" => "disable" \in logged

\* The gate with its caches implements the gate without: whatever the processes'
\* caches, their fills and their invalidations do to each other, a request is
\* answered with a state the module had during the request or less than Ttl before
\* (service.py: is_module_enabled, "cross-process borné par TTL").
Stage(place) ==
    CASE place \in {"select", "fill"} -> "asked"
      [] place \in {"on", "off"} -> place
      [] OTHER -> "idle"

Promise == INSTANCE ModuleGate WITH
    Requests <- Workers,
    state <- Enabled(row),
    stage <- [w \in Workers |-> Stage(work[w].pc)]

GateKept == Promise!GateSpec

\* While a Celery worker is there, the module stays enabled and the tenant active,
\* digests are produced again and again: no crash, skipped unit or expired lock stops
\* the periodic task for good (scheduler.py: run_periodic_fanout, run_periodic_unit).
CeleryRuns == \E w \in Workers : {"fanout", "unit"} \subseteq crew[w].jobs

DigestsGoOn ==
    CeleryRuns /\ <>[](row = "on" /\ active)
        => []<><<\E w \in Workers : UnitDone(w)>>_vars

\* A unit that is taken up while the module is disabled is skipped, as a unit of an
\* inactive tenant is (scheduler.py: the docstring of run_periodic_unit returns False
\* for "module désactivé entre-temps").
DisabledUnitSkipped ==
    [][\A w \in Workers : UnitTake(w) /\ row # "on" => work'[w].pc = "idle"]_vars

=============================================================================
