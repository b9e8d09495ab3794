--------------------------- MODULE WebhooksProofs ---------------------------
(***************************************************************************)
(* Proofs about Webhooks, for every set of workers and channels and every  *)
(* bound: types, and the one subscription of a connection.                 *)
(***************************************************************************)
EXTENDS Webhooks, FiniteSetTheorems, TLAPS

----------------------------------------------------------------------------
(* Types                                                                   *)

\* An idle worker is a worker.
LEMMA IdleType == Idle \in Work
  BY DEF Idle, Work, Places

\* Goto and Finish move one worker.
LEMMA WorkMoves ==
    ASSUME TypeOK, NEW w \in Workers
    PROVE  /\ \A p \in Places : Goto(w, p) =>
                /\ work' \in [Workers -> Work] /\ work'[w].pc = p
                /\ work'[w].old = work[w].old /\ work'[w].new = work[w].new
                /\ \A v \in Workers \ {w} : work'[v] = work[v]
           /\ Finish(w) =>
                /\ work' \in [Workers -> Work] /\ work'[w] = Idle
                /\ \A v \in Workers \ {w} : work'[v] = work[v]
<1>1. work[w] \in Work
  BY DEF TypeOK
<1>2. ASSUME NEW p \in Places, Goto(w, p)
      PROVE  /\ work' \in [Workers -> Work] /\ work'[w].pc = p
             /\ work'[w].old = work[w].old /\ work'[w].new = work[w].new
             /\ \A v \in Workers \ {w} : work'[v] = work[v]
  BY <1>1, <1>2 DEF Goto, TypeOK, Work
<1>3. ASSUME Finish(w)
      PROVE  /\ work' \in [Workers -> Work] /\ work'[w] = Idle
             /\ \A v \in Workers \ {w} : work'[v] = work[v]
  BY <1>3, IdleType DEF Finish, TypeOK
<1> QED BY <1>2, <1>3

\* A task that renews has a subscription to renew, one that stops it a channel to put in
\* its place.
RenewKnown ==
    \A w \in Workers :
        /\ work[w].pc \in {"lock", "patch", "stop", "halt", "drop"} => work[w].old \in Channels
        /\ work[w].pc \in {"stop", "halt", "drop"} => work[w].new \in Channels

\* The inductive invariant of type correctness: the type of the locks rests on RenewKnown.
TypeInv == TypeOK /\ RenewKnown

\* One worker moves, and has its subscription if it renews.
LEMMA MoveKeeps ==
    ASSUME RenewKnown, NEW w \in Workers,
           \A v \in Workers \ {w} : work'[v] = work[v],
           work'[w].pc \in {"lock", "patch", "stop", "halt", "drop"} => work'[w].old \in Channels,
           work'[w].pc \in {"stop", "halt", "drop"} => work'[w].new \in Channels
    PROVE  RenewKnown'
  BY DEF RenewKnown

\* The histories are kept or begin again.
LEMMA SettleCases ==
    ASSUME NEW rows, Settle(rows)
    PROVE  \/ /\ Inserting = {} /\ Cardinality(rows) <= 1
              /\ crossed' = FALSE /\ split' = 0
           \/ crossed' = crossed /\ split' = split
<1>1. CASE Inserting = {} /\ Cardinality(rows) <= 1
  BY <1>1 DEF Settle
<1>2. CASE ~(Inserting = {} /\ Cardinality(rows) <= 1)
  BY <1>2 DEF Settle, history
<1> QED BY <1>1, <1>2

\* So they keep their types.
LEMMA SettleTypes ==
    ASSUME TypeOK, NEW rows, Settle(rows)
    PROVE  crossed' \in BOOLEAN /\ split' \in Nat
<1>1. crossed \in BOOLEAN /\ split \in Nat
  BY DEF TypeOK
<1>2. CASE crossed' = FALSE /\ split' = 0
  BY <1>2
<1>3. CASE crossed' = crossed /\ split' = split
  BY <1>1, <1>3
<1> QED BY <1>2, <1>3, SettleCases

\* The callback and the revocation keep the types.
LEMMA RequestTypes ==
    ASSUME TypeInv, NEW r \in Requests, Request(r)
    PROVE  TypeInv'
<1> USE DEF connVars, subVars, taskVars, history
<1>0. /\ TypeOK /\ RenewKnown /\ r \in Workers /\ {"route", "enqueue", "unroute", "sync"} \subseteq Places
      /\ Tasks \subseteq Workers
  BY DEF TypeInv, Workers, Places
<1>1. CASE Enqueue(r)
  <2>1. PICK t \in Tasks : At(t, "idle") /\ work' = [work EXCEPT ![r] = Idle, ![t].pc = "sync"]
    BY <1>1 DEF Enqueue
  <2>2. /\ work' \in [Workers -> Work] /\ work'[t].pc \in {"idle", "sync"}
        /\ work'[r].pc \in {"idle", "sync"}
        /\ \A v \in Workers \ {r, t} : work'[v] = work[v]
    BY <1>0, <2>1, IdleType DEF TypeOK, Work, Idle
  <2>3. RenewKnown'
    BY <1>0, <2>2 DEF RenewKnown
  <2> QED BY <1>0, <1>1, <2>2, <2>3 DEF Enqueue, TypeOK, TypeInv
<1>2. CASE ~Enqueue(r)
  <2>1. /\ work' \in [Workers -> Work] /\ \A v \in Workers \ {r} : work'[v] = work[v]
        /\ work'[r].pc \in {"idle", "route", "enqueue", "unroute"}
    BY <1>0, <1>2, WorkMoves DEF Request, Connect, EnsureRoute, Revoke, DropRoute, Idle
  <2>2. RenewKnown'
    BY <1>0, <2>1, MoveKeeps
  <2>3. CASE Connect(r) \/ DropRoute(r)
    BY <1>0, <2>1, <2>2, <2>3 DEF Connect, DropRoute, TypeOK, TypeInv, Statuses
  <2>4. CASE EnsureRoute(r)
    <3>1. Keyed \subseteq Channels \cup Workers
      BY <1>0 DEF Keyed, Creating, Changing, TypeOK, Work
    <3> QED BY <1>0, <2>1, <2>2, <2>4, <3>1 DEF EnsureRoute, TypeOK, TypeInv
  <2>5. CASE Revoke(r)
    <3>1. crossed' \in BOOLEAN /\ split' \in Nat
      BY <1>0, <2>5, SettleTypes DEF Revoke
    <3>2. status' \in Statuses /\ due' \in [Channels -> 0..Life] /\ subs' \subseteq Channels
      BY <2>5 DEF Revoke, Statuses, Life
    <3> QED BY <1>0, <2>1, <2>2, <2>5, <3>1, <3>2 DEF Revoke, TypeOK, TypeInv
  <2> QED BY <1>2, <2>3, <2>4, <2>5 DEF Request
<1> QED BY <1>1, <1>2

\* What a worker begins keeps them: a renewal that a beat selects, an event.
LEMMA StartTypes ==
    ASSUME TypeInv, NEW t \in Tasks, NEW c \in Channels, RenewStart(t, c) \/ Notify(t, c)
    PROVE  TypeInv'
<1> USE DEF connVars, subVars, taskVars, history
<1>0. TypeOK /\ RenewKnown /\ t \in Workers /\ "event" \in Places
  BY DEF TypeInv, Workers, Places
<1>1. CASE Notify(t, c)
  <2>1. /\ work' \in [Workers -> Work] /\ \A v \in Workers \ {t} : work'[v] = work[v]
        /\ work'[t].pc = "event"
    BY <1>0, <1>1, WorkMoves DEF Notify
  <2>2. RenewKnown'
    BY <1>0, <2>1, MoveKeeps
  <2> QED BY <1>0, <1>1, <2>1, <2>2 DEF Notify, TypeOK, TypeInv
<1>2. CASE RenewStart(t, c)
  <2> DEFINE new == [pc |-> "lock", old |-> c, new |-> "none"]
  <2>1. new \in Work /\ new.old = c /\ new.pc = "lock"
    BY DEF Work, Places
  <2>2. work' = [work EXCEPT ![t] = new]
    BY <1>2 DEF RenewStart
  <2> HIDE DEF new
  <2>3. /\ work' \in [Workers -> Work] /\ \A v \in Workers \ {t} : work'[v] = work[v]
        /\ work'[t].old = c /\ work'[t].pc = "lock"
    BY <1>0, <2>1, <2>2 DEF TypeOK
  <2>4. RenewKnown'
    BY <1>0, <2>3, MoveKeeps
  <2> QED BY <1>0, <1>2, <2>3, <2>4 DEF RenewStart, TypeOK, TypeInv
<1> QED BY <1>1, <1>2

\* The steps of a task keep them.
LEMMA TaskTypes ==
    ASSUME TypeInv, NEW t \in Tasks, Continue(t) \/ \E c \in Channels : CreateLost(t, c)
    PROVE  TypeInv'
<1> USE DEF connVars, subVars, taskVars, history
<1>0. /\ TypeOK /\ RenewKnown /\ t \in Workers /\ work[t] \in Work
      /\ {"create", "patch", "commit", "fail", "stop", "halt", "drop"} \subseteq Places
  BY DEF TypeInv, Workers, Places, TypeOK
<1>1. CASE RenewLock(t)
  <2>1. work[t].old \in Channels
    BY <1>0, <1>1 DEF RenewLock, RenewKnown, At
  <2>2. /\ work' \in [Workers -> Work] /\ \A v \in Workers \ {t} : work'[v] = work[v]
        /\ \/ work'[t].pc = "idle"
           \/ work'[t].old = work[t].old /\ work'[t].pc \in {"create", "patch"}
    BY <1>0, <1>1, WorkMoves DEF RenewLock, Idle
  <2>3. RenewKnown'
    BY <1>0, <2>1, <2>2, MoveKeeps
  <2>4. locks' \subseteq Channels
    BY <1>0, <1>1, <2>1 DEF RenewLock, TypeOK
  <2>5. crossed' \in BOOLEAN
    BY <1>0, <1>1 DEF RenewLock, TypeOK
  <2> QED BY <1>0, <1>1, <2>2, <2>3, <2>4, <2>5 DEF RenewLock, TypeOK, TypeInv
<1>2. ASSUME NEW c \in Channels, CreateChannel(t, c) PROVE TypeInv'
  <2>1. PICK p \in {"commit", "stop"} :
           Created(t, c, p) /\ (p = "stop" => work[t].old # "none")
    BY <1>2 DEF CreateChannel, CreateGoogleChannel, CreateGraphSubscription
  <2>2. /\ work' \in [Workers -> Work] /\ \A v \in Workers \ {t} : work'[v] = work[v]
        /\ work'[t].pc = p /\ work'[t].old = work[t].old /\ work'[t].new = c
    BY <1>0, <2>1 DEF Created, TypeOK, Work
  <2>3. RenewKnown'
    BY <1>0, <2>1, <2>2, MoveKeeps DEF Work
  <2>4. alive' \in [Channels -> 0..Life]
    BY <1>0, <2>1 DEF Created, TypeOK, Life
  <2>5. stale' \subseteq Channels \cup Workers
    BY <1>0, <2>1 DEF Created, KeyOf, TypeOK
  <2> QED BY <1>0, <2>1, <2>2, <2>3, <2>4, <2>5 DEF Created, TypeOK, TypeInv
<1>3. ASSUME NEW c \in Channels, CreateLost(t, c) PROVE TypeInv'
  BY <1>0, <1>3 DEF CreateLost, TypeOK, TypeInv, RenewKnown, Life
<1>4. CASE SyncStart(t)
  <2>1. /\ work' \in [Workers -> Work] /\ \A v \in Workers \ {t} : work'[v] = work[v]
        /\ work'[t].pc \in {"idle", "create"}
    BY <1>0, <1>4, WorkMoves DEF SyncStart, Idle
  <2>2. RenewKnown'
    BY <1>0, <2>1, MoveKeeps
  <2>3. crossed' \in BOOLEAN
    BY <1>0, <1>4 DEF SyncStart, TypeOK
  <2> QED BY <1>0, <1>4, <2>1, <2>2, <2>3 DEF SyncStart, TypeOK, TypeInv
<1>5. CASE StopRefresh(t)
  <2>1. work[t].old \in Channels /\ work[t].new \in Channels
    BY <1>0, <1>5 DEF StopRefresh, RenewKnown, At
  <2>2. /\ work' \in [Workers -> Work] /\ \A v \in Workers \ {t} : work'[v] = work[v]
        /\ work'[t].old = work[t].old /\ work'[t].new = work[t].new
    BY <1>0, <1>5, WorkMoves DEF StopRefresh
  <2>3. RenewKnown'
    BY <1>0, <2>1, <2>2, MoveKeeps
  <2>4. subs' \subseteq Channels /\ due' \in [Channels -> 0..Life]
    BY <1>0, <1>5, <2>1 DEF StopRefresh, TypeOK
  <2> QED BY <1>0, <1>5, <2>2, <2>3, <2>4 DEF StopRefresh, TypeOK, TypeInv
<1>6. CASE StopChannel(t)
  <2>1. work[t].old \in Channels /\ work[t].new \in Channels
    BY <1>0, <1>6 DEF StopChannel, RenewKnown, At
  <2>2. /\ work' \in [Workers -> Work] /\ \A v \in Workers \ {t} : work'[v] = work[v]
        /\ work'[t].old = work[t].old /\ work'[t].new = work[t].new
    BY <1>0, <1>6, WorkMoves DEF StopChannel
  <2>3. RenewKnown'
    BY <1>0, <2>1, <2>2, MoveKeeps
  <2>4. alive' \in [Channels -> 0..Life]
    BY <1>0, <1>6 DEF StopChannel, TypeOK, Life
  <2> QED BY <1>0, <1>6, <2>2, <2>3, <2>4 DEF StopChannel, Release, TypeOK, TypeInv
<1>7. CASE RenewSkip(t) \/ PatchSubscription(t) \/ CallFails(t) \/ FailCommit(t)
           \/ Commit(t) \/ ProcessEvent(t)
  <2>1. /\ work' \in [Workers -> Work] /\ \A v \in Workers \ {t} : work'[v] = work[v]
        /\ work'[t].pc \in {"idle", "commit", "fail"}
    <3>1. Finish(t) \/ Goto(t, "commit") \/ Goto(t, "fail")
      BY <1>7 DEF RenewSkip, PatchSubscription, CallFails, FailCommit, Commit, ProcessEvent
    <3> QED BY <1>0, <3>1, WorkMoves DEF Idle
  <2>2. RenewKnown'
    BY <1>0, <2>1, MoveKeeps
  <2>3. CASE RenewSkip(t) \/ FailCommit(t) \/ ProcessEvent(t)
    BY <1>0, <2>1, <2>2, <2>3 DEF RenewSkip, FailCommit, ProcessEvent, TypeOK, TypeInv, Statuses
  <2>5. CASE PatchSubscription(t)
    <3>1. work[t].old \in Channels
      BY <1>0, <2>5 DEF PatchSubscription, RenewKnown, At
    <3>2. alive' \in [Channels -> 0..Life]
      BY <1>0, <2>5, <3>1 DEF PatchSubscription, TypeOK, Life
    <3> QED BY <1>0, <2>1, <2>2, <2>5, <3>2 DEF PatchSubscription, Release, TypeOK, TypeInv
  <2>6. CASE CallFails(t)
    BY <1>0, <2>1, <2>2, <2>6 DEF CallFails, Release, TypeOK, TypeInv
  <2>7. CASE Commit(t)
    <3>1. subs' \subseteq Channels
      BY <1>0, <2>7 DEF Commit, Rows, At, TypeOK, Work
    <3>2. due' \in [Channels -> 0..Life]
      BY <1>0, <2>7 DEF Commit, TypeOK, Life
    <3> QED BY <1>0, <2>1, <2>2, <2>7, <3>1, <3>2 DEF Commit, TypeOK, TypeInv
  <2> QED BY <1>7, <2>3, <2>5, <2>6, <2>7
<1> QED BY <1>1, <1>2, <1>3, <1>4, <1>5, <1>6, <1>7 DEF Continue

\* So does the environment.
LEMMA EnvironmentTypes ==
    ASSUME TypeInv,
           \/ RefreshRefused \/ Tick \/ LockExpires
           \/ \E w \in Workers : Crash(w)
    PROVE  TypeInv'
<1> USE DEF connVars, subVars, taskVars, history
<1>0. TypeOK /\ RenewKnown
  BY DEF TypeInv
<1>1. CASE RefreshRefused
  BY <1>0, <1>1, FaultsAssumption DEF RefreshRefused, TypeOK, TypeInv, RenewKnown, Statuses
<1>2. CASE Tick
  <2>1. \A n \in 0..Life : Aged(n) \in 0..Life
    BY DEF Aged, Life
  <2>2. alive' \in [Channels -> 0..Life] /\ due' \in [Channels -> 0..Life]
    BY <1>0, <1>2, <2>1 DEF Tick, TypeOK
  <2>3. crossed' \in BOOLEAN /\ split' \in Nat
    BY <1>0, <1>2, SettleTypes DEF Tick
  <2> QED BY <1>0, <1>2, <2>2, <2>3 DEF Tick, TypeOK, TypeInv, RenewKnown
<1>3. CASE LockExpires
  BY <1>0, <1>3 DEF LockExpires, TypeOK, TypeInv, RenewKnown
<1>5. ASSUME NEW w \in Workers, Crash(w) PROVE TypeInv'
  <2>1. /\ work' \in [Workers -> Work] /\ \A v \in Workers \ {w} : work'[v] = work[v]
        /\ work'[w].pc = "idle"
    BY <1>0, <1>5, WorkMoves DEF Crash, Idle
  <2>2. RenewKnown'
    BY <1>0, <2>1, MoveKeeps
  <2> QED BY <1>0, <1>5, <2>1, <2>2, FaultsAssumption DEF Crash, TypeOK, TypeInv
<1> QED BY <1>1, <1>2, <1>3, <1>5

\* The inductive invariant holds.
LEMMA TypeInvariant == Spec => []TypeInv
<1>1. Init => TypeInv
  <2> SUFFICES ASSUME Init PROVE TypeInv
    OBVIOUS
  <2>1. work \in [Workers -> Work] /\ RenewKnown
    BY IdleType DEF Init, RenewKnown, Idle
  <2>2. due \in [Channels -> 0..Life] /\ alive \in [Channels -> 0..Life]
    BY DEF Init, Life
  <2>3. faults \in 0..MaxFaults /\ split \in Nat /\ stale = {}
    BY FaultsAssumption DEF Init
  <2>4. route \in BOOLEAN /\ crossed \in BOOLEAN
    BY DEF Init
  <2>5. /\ provider \in {"google", "microsoft"} /\ status \in Statuses
        /\ subs \subseteq Channels /\ locks \subseteq Channels
    BY DEF Init, Statuses
  <2> QED BY <2>1, <2>2, <2>3, <2>4, <2>5 DEF TypeOK, TypeInv
<1>2. TypeInv /\ [Next]_vars => TypeInv'
  <2> SUFFICES ASSUME TypeInv, [Next]_vars PROVE TypeInv'
    OBVIOUS
  <2>1. CASE UNCHANGED vars
    BY <2>1 DEF vars, TypeOK, TypeInv, RenewKnown
  <2> QED BY <2>1, RequestTypes, StartTypes, TaskTypes, EnvironmentTypes DEF Next, Renewal
<1> QED BY <1>1, <1>2, PTL DEF Spec

\* Every state of the channels, rows, routes and tasks has the types of TypeOK.
THEOREM TypeCorrect == Spec => []TypeOK
<1>1. TypeInv => TypeOK
  BY DEF TypeInv
<1> QED BY <1>1, TypeInvariant, PTL

----------------------------------------------------------------------------
(* One subscription                                                        *)

\* What is known of a task from where it is: only a renewal has something to renew and
\* only Google's replaces it.
Flow ==
    \A t \in Tasks :
        /\ work[t].pc \in {"idle", "sync", "event"} => work[t].old = "none"
        /\ work[t].pc \in {"idle", "sync", "event", "lock", "patch"} => work[t].new = "none"
        /\ work[t].pc = "patch" => provider = "microsoft"
        /\ work[t].pc = "create" /\ work[t].old # "none" => provider = "google"
        /\ work[t].pc \in {"stop", "halt", "drop"} => provider = "google"

\* As long as no two tasks went to insert a row, the one that does replaces the row there
\* is, holds its lock until it has the new channel, and what is left besides are the rows
\* of those that died between two commits.
OneInv ==
    ~crossed =>
        /\ \A t, u \in Inserting : t = u
        /\ \A t \in Inserting : Cardinality(subs \ {work[t].old}) <= split + 1
        /\ \A t \in Inserting \ Between : Cardinality(subs \ {work[t].old}) <= split
        /\ Inserting = {} => Cardinality(subs) <= split + 1
        /\ \A t \in Tasks :
              work[t].pc \in {"create", "stop", "halt"} /\ work[t].old # "none"
                  => work[t].old \in locks

\* The inductive invariant of OneSubscription.
Single == TypeInv /\ Flow /\ IsFiniteSet(subs) /\ OneInv

\* What a row more or less changes in the number of rows.
LEMMA RowMoreOrLess ==
    ASSUME NEW S, IsFiniteSet(S), NEW x, NEW y
    PROVE  /\ Cardinality(S) \in Nat /\ Cardinality(S \ {x}) \in Nat
           /\ IsFiniteSet(S \ {x}) /\ IsFiniteSet(S \cup {y})
           /\ Cardinality(S) <= Cardinality(S \ {x}) + 1
           /\ Cardinality(S \ {x}) <= Cardinality(S)
           /\ x \in S => Cardinality(S \ {x}) = Cardinality(S) - 1
           /\ Cardinality(S \cup {y}) <= Cardinality(S) + 1
           /\ Cardinality((S \cup {y}) \ {x}) \in Nat
           /\ Cardinality((S \cup {y}) \ {x}) <= Cardinality(S \ {x}) + 1
<1>1. Cardinality(S) \in Nat
  BY FS_CardinalityType
<1>2. IsFiniteSet(S \ {x}) /\ Cardinality(S \ {x}) = IF x \in S THEN Cardinality(S) - 1 ELSE Cardinality(S)
  BY FS_RemoveElement
<1>3. IsFiniteSet(S \cup {y}) /\ Cardinality(S \cup {y}) = IF y \in S THEN Cardinality(S) ELSE Cardinality(S) + 1
  BY FS_AddElement
<1>4. Cardinality(S \ {x}) \in Nat
  BY <1>2, FS_CardinalityType
<1>5. Cardinality((S \cup {y}) \ {x}) <= Cardinality(S \ {x}) + 1
  <2>1. CASE y = x
    <3>1. (S \cup {y}) \ {x} = S \ {x}
      BY <2>1
    <3> QED BY <1>4, <3>1
  <2>2. CASE y # x
    <3>1. (S \cup {y}) \ {x} = (S \ {x}) \cup {y}
      BY <2>2
    <3>2. Cardinality((S \ {x}) \cup {y}) =
            IF y \in S \ {x} THEN Cardinality(S \ {x}) ELSE Cardinality(S \ {x}) + 1
      BY <1>2, FS_AddElement
    <3> QED BY <1>4, <3>1, <3>2
  <2> QED BY <2>1, <2>2
<1>6. Cardinality(S \cup {y}) <= Cardinality(S) + 1
  BY <1>1, <1>3
<1>7. Cardinality((S \cup {y}) \ {x}) \in Nat
  BY <1>3, FS_RemoveElement, FS_CardinalityType
<1> QED BY <1>1, <1>2, <1>3, <1>4, <1>5, <1>6, <1>7

\* The same against a bound.
LEMMA RowsCount ==
    ASSUME NEW S, IsFiniteSet(S), NEW x, NEW y, NEW n \in Nat
    PROVE  /\ Cardinality(S \ {x}) \in Nat
           /\ IsFiniteSet(S \ {x}) /\ IsFiniteSet(S \cup {y}) /\ IsFiniteSet((S \ {x}) \cup {y})
           /\ x \in S /\ Cardinality(S) <= n + 1 => Cardinality(S \ {x}) <= n
           /\ Cardinality(S \ {x}) <= n => /\ Cardinality(S) <= n + 1
                                          /\ Cardinality((S \cup {y}) \ {x}) <= n + 1
                                          /\ Cardinality((S \ {x}) \cup {y}) <= n + 1
           /\ Cardinality(S \ {x}) <= n + 1 => Cardinality(S) <= (n + 1) + 1
<1>1. /\ Cardinality(S) \in Nat /\ Cardinality(S \ {x}) \in Nat
      /\ IsFiniteSet(S \ {x}) /\ IsFiniteSet(S \cup {y})
  BY RowMoreOrLess
<1>2. Cardinality((S \cup {y}) \ {x}) \in Nat /\ Cardinality((S \cup {y}) \ {x}) <= Cardinality(S \ {x}) + 1
  BY RowMoreOrLess
<1>3. Cardinality(S) <= Cardinality(S \ {x}) + 1
  BY RowMoreOrLess
<1>4. x \in S => Cardinality(S \ {x}) = Cardinality(S) - 1
  BY RowMoreOrLess
<1>5. /\ IsFiniteSet((S \ {x}) \cup {y}) /\ Cardinality((S \ {x}) \cup {y}) \in Nat
      /\ Cardinality((S \ {x}) \cup {y}) <= Cardinality(S \ {x}) + 1
  <2>1. IsFiniteSet((S \ {x}) \cup {y}) /\ Cardinality((S \ {x}) \cup {y}) <= Cardinality(S \ {x}) + 1
    BY <1>1, RowMoreOrLess
  <2> QED BY <2>1, FS_CardinalityType
<1>6. x \in S /\ Cardinality(S) <= n + 1 => Cardinality(S \ {x}) <= n
  BY <1>1, <1>4
<1>7. Cardinality(S \ {x}) <= n => Cardinality(S) <= n + 1
  BY <1>1, <1>3
<1>8. Cardinality(S \ {x}) <= n => Cardinality((S \cup {y}) \ {x}) <= n + 1
  BY <1>1, <1>2
<1>9. Cardinality(S \ {x}) <= n => Cardinality((S \ {x}) \cup {y}) <= n + 1
  BY <1>1, <1>5
<1>10. Cardinality(S \ {x}) <= n + 1 => Cardinality(S) <= (n + 1) + 1
  BY <1>1, <1>3
<1> QED BY <1>1, <1>5, <1>6, <1>7, <1>8, <1>9, <1>10

\* Bounds of no rows.
LEMMA NoRowsBound == \A n \in Nat : n + 1 \in Nat /\ 0 <= n /\ 0 <= n + 1
  OBVIOUS

\* A step that changes neither the rows nor who inserts one.
LEMMA QuietOne ==
    ASSUME OneInv, UNCHANGED <<subs, split>>, crossed => crossed',
           NEW w, \A v \in Tasks \ {w} : work'[v] = work[v],
           w \in Inserting' <=> w \in Inserting, w \in Between' <=> w \in Between,
           w \in Inserting => work'[w].old = work[w].old,
           ~crossed' => \A t \in Tasks :
               work'[t].pc \in {"create", "stop", "halt"} /\ work'[t].old # "none"
                   => work'[t].old \in locks'
    PROVE  OneInv'
<1>1. Inserting' = Inserting /\ Between' = Between
  BY DEF Inserting, Between
<1>2. \A t \in Inserting : work'[t].old = work[t].old
  BY DEF Inserting
<1> SUFFICES ASSUME ~crossed'
             PROVE  /\ \A t, u \in Inserting' : t = u
                    /\ \A t \in Inserting' : Cardinality(subs' \ {work'[t].old}) <= split' + 1
                    /\ \A t \in Inserting' \ Between' : Cardinality(subs' \ {work'[t].old}) <= split'
                    /\ Inserting' = {} => Cardinality(subs') <= split' + 1
  BY DEF OneInv
<1> QED BY <1>1, <1>2 DEF OneInv

\* A step of a task that is done with its insertion, one way or another.
LEMMA LeaveOne ==
    ASSUME OneInv, crossed' = crossed, NEW w, w \in Inserting, w \notin Inserting',
           \A v \in Tasks \ {w} : work'[v] = work[v],
           ~crossed => Cardinality(subs') <= split' + 1
    PROVE  OneInv'
<1> SUFFICES ASSUME ~crossed
             PROVE  /\ Inserting' = {}
                    /\ \A t \in Tasks : work'[t].pc \notin {"create", "stop", "halt"}
  BY DEF OneInv
<1>1. \A u \in Inserting : u = w
  BY DEF OneInv
<1>2. Inserting' = {}
  BY <1>1 DEF Inserting, Between
<1> QED BY <1>2 DEF Inserting, Between

\* A step of a task that goes to insert while no other does.
LEMMA EnterOne ==
    ASSUME NEW w \in Tasks, \A v \in Tasks \ {w} : work'[v] = work[v],
           Inserting = {}, work'[w].pc = "create",
           work'[w].old # "none" => work'[w].old \in locks',
           Cardinality(subs' \ {work'[w].old}) \in Nat, split' \in Nat,
           Cardinality(subs' \ {work'[w].old}) <= split'
    PROVE  OneInv'
<1>1. \A v \in Tasks \ {w} : v \notin Inserting' /\ work'[v].pc \notin {"create", "stop", "halt"}
  BY DEF Inserting, Between
<1>2. Inserting' = {w}
  BY <1>1 DEF Inserting
<1>3. Cardinality(subs' \ {work'[w].old}) <= split' + 1
  OBVIOUS
<1>4. \A t \in Tasks : work'[t].pc \in {"create", "stop", "halt"} /\ work'[t].old # "none"
                          => work'[t].old \in locks'
  BY <1>1
<1>5. /\ \A t, u \in Inserting' : t = u
      /\ \A t \in Inserting' : Cardinality(subs' \ {work'[t].old}) <= split' + 1
      /\ \A t \in Inserting' \ Between' : Cardinality(subs' \ {work'[t].old}) <= split'
      /\ Inserting' = {} => Cardinality(subs') <= split' + 1
  BY <1>2, <1>3
<1> QED BY <1>4, <1>5 DEF OneInv

\* A step that brings no task to a place of OneInv or out of one, and takes no lock back.
LEMMA AsideOne ==
    ASSUME OneInv, UNCHANGED <<subs, split, crossed>>, locks \subseteq locks',
           NEW w, \A v \in Tasks \ {w} : work'[v] = work[v],
           w \in Tasks => /\ w \notin Inserting /\ w \notin Inserting'
    PROVE  OneInv'
<1>1. w \notin Inserting /\ w \notin Inserting' /\ w \notin Between /\ w \notin Between'
  BY DEF Inserting, Between
<1>2. ~crossed' => \A t \in Tasks :
         work'[t].pc \in {"create", "stop", "halt"} /\ work'[t].old # "none"
             => work'[t].old \in locks'
  <2> SUFFICES ASSUME ~crossed, NEW t \in Tasks, work'[t].pc \in {"create", "stop", "halt"},
                      work'[t].old # "none"
               PROVE  work'[t].old \in locks'
    OBVIOUS
  <2>1. t # w
    BY <1>1 DEF Inserting, Between
  <2> QED BY <2>1 DEF OneInv
<1> QED BY <1>1, <1>2, QuietOne

\* The callback and the revocation are no tasks that insert.
LEMMA RequestOne ==
    ASSUME Single, NEW r \in Requests, Request(r)
    PROVE  Flow' /\ IsFiniteSet(subs)' /\ OneInv'
<1> USE DEF connVars, subVars, taskVars, history
<1>0. /\ TypeOK /\ Flow /\ IsFiniteSet(subs) /\ OneInv
      /\ r \in Workers /\ Tasks \subseteq Workers
      /\ {"route", "enqueue", "unroute", "sync"} \subseteq Places
  BY DEF Single, TypeInv, Workers, Places
<1>1. provider' = provider
  BY DEF Request, Connect, EnsureRoute, Enqueue, Revoke, DropRoute
<1>2. CASE Enqueue(r)
  <2>1. PICK t \in Tasks : At(t, "idle") /\ work' = [work EXCEPT ![r] = Idle, ![t].pc = "sync"]
    BY <1>2 DEF Enqueue
  <2>2. At(r, "enqueue") /\ UNCHANGED <<subs, split, crossed, locks>>
    BY <1>2 DEF Enqueue
  <2>3. /\ r # t /\ work'[t].pc = "sync" /\ work'[r] = Idle
        /\ work'[t].old = work[t].old /\ work'[t].new = work[t].new
        /\ \A v \in Workers \ {r, t} : work'[v] = work[v]
    BY <1>0, <2>1, <2>2 DEF TypeOK, Work, At
  <2>4. \A v \in Tasks : \/ work'[v] = work[v]
                        \/ /\ work'[v].pc \in {"idle", "sync"} /\ work[v].pc \in {"idle", "enqueue"}
                           /\ work'[v].old = "none" /\ work'[v].new = "none"
    <3>1. work[t].old = "none" /\ work[t].new = "none" /\ work[t].pc = "idle"
      BY <1>0, <2>1 DEF Flow, At
    <3>2. work[r].pc = "enqueue" /\ work'[r].pc = "idle" /\ work'[r].old = "none" /\ work'[r].new = "none"
      BY <2>2, <2>3 DEF At, Idle
    <3> QED BY <1>0, <2>3, <3>1, <3>2
  <2>5. /\ \A v \in Tasks : v \in Inserting' <=> v \in Inserting
        /\ \A v \in Tasks : v \in Between' <=> v \in Between
        /\ \A v \in Tasks : work'[v].pc \in {"create", "stop", "halt"} => work'[v] = work[v]
        /\ \A v \in Inserting : work'[v] = work[v]
    BY <2>4 DEF Inserting, Between
  <2>6. Inserting' = Inserting /\ Between' = Between
    BY <2>5 DEF Inserting, Between
  <2>7. OneInv'
    BY <1>0, <2>2, <2>5, <2>6 DEF OneInv
  <2>8. Flow'
    BY <1>0, <1>1, <2>4 DEF Flow
  <2> QED BY <1>0, <2>2, <2>7, <2>8
<1>3. CASE ~Enqueue(r)
  <2>1. /\ \A v \in Workers \ {r} : work'[v] = work[v]
        /\ work[r].pc \in {"idle", "route", "unroute"}
        /\ work'[r] = Idle \/ work'[r].pc \in {"route", "enqueue", "unroute"}
    BY <1>0, <1>3, WorkMoves DEF Request, Connect, EnsureRoute, Revoke, DropRoute, At
  <2>2. Flow'
    BY <1>0, <1>1, <2>1 DEF Flow, Idle
  <2>3. r \notin Inserting /\ r \notin Inserting'
    BY <2>1 DEF Inserting, Between, Idle
  <2>4. CASE Connect(r) \/ EnsureRoute(r) \/ DropRoute(r)
    <3>1. UNCHANGED <<subs, split, crossed, locks>>
      BY <2>4 DEF Connect, EnsureRoute, DropRoute
    <3> QED BY <1>0, <2>1, <2>2, <2>3, <3>1, AsideOne
  <2>5. CASE Revoke(r)
    <3>1. subs' = {} /\ locks' = locks /\ Settle({})
      BY <2>5 DEF Revoke
    <3>2. /\ Inserting' = Inserting
          /\ \A v \in Inserting : work'[v] = work[v]
          /\ \A v \in Tasks : work'[v].pc \in {"create", "stop", "halt"} => work'[v] = work[v]
      BY <1>0, <2>1, <2>3 DEF Inserting, Between, Idle
    <3>3. /\ IsFiniteSet(subs') /\ Cardinality(subs') = 0
          /\ \A x : Cardinality(subs' \ {x}) = 0
      <4>1. \A x : subs' \ {x} = {}
        BY <3>1
      <4> QED BY <3>1, <4>1, FS_EmptySet
    <3>5. /\ \A v \in Inserting' : Cardinality(subs' \ {work'[v].old}) <= split' + 1
          /\ \A v \in Inserting' \ Between' : Cardinality(subs' \ {work'[v].old}) <= split'
          /\ Cardinality(subs') <= split' + 1
      <4>1. split' \in Nat
        BY <3>1, <1>0, SettleTypes
      <4>2. 0 <= split' /\ 0 <= split' + 1
        BY <4>1, NoRowsBound
      <4> QED BY <3>3, <4>2, Zenon
    <3>6. CASE Inserting = {} /\ crossed' = FALSE
      <4>1. \A v \in Tasks : work'[v].pc \notin {"create", "stop", "halt"}
        BY <3>2, <3>6 DEF Inserting, Between
      <4> QED BY <2>2, <3>2, <3>3, <3>5, <3>6, <4>1 DEF OneInv
    <3>7. CASE crossed' = crossed
      <4>1. ~crossed => /\ \A v, u \in Inserting' : v = u
                        /\ \A v \in Tasks :
                              work'[v].pc \in {"create", "stop", "halt"} /\ work'[v].old # "none"
                                  => work'[v].old \in locks'
        BY <1>0, <3>1, <3>2 DEF OneInv
      <4> QED BY <2>2, <3>3, <3>5, <3>7, <4>1 DEF OneInv
    <3> QED BY <3>1, <3>6, <3>7, SettleCases
  <2> QED BY <1>3, <2>4, <2>5 DEF Request
<1> QED BY <1>2, <1>3

\* Neither is a worker that takes a renewal or an event.
LEMMA StartOne ==
    ASSUME Single, NEW t \in Tasks, NEW c \in Channels, RenewStart(t, c) \/ Notify(t, c)
    PROVE  Flow' /\ IsFiniteSet(subs)' /\ OneInv'
<1> USE DEF connVars, subVars, taskVars, history
<1>0. /\ TypeOK /\ Flow /\ IsFiniteSet(subs) /\ OneInv /\ t \in Workers /\ Tasks \subseteq Workers
      /\ "event" \in Places
  BY DEF Single, TypeInv, Workers, Places
<1>1. UNCHANGED <<provider, subs, split, crossed, locks>> /\ At(t, "idle")
  BY DEF RenewStart, Notify
<1>2. /\ \A v \in Workers \ {t} : work'[v] = work[v]
      /\ \/ work'[t].pc = "event" /\ work'[t].old = work[t].old /\ work'[t].new = work[t].new
         \/ work'[t].pc = "lock" /\ work'[t].new = "none"
  <2>1. CASE Notify(t, c)
    BY <1>0, <2>1, WorkMoves DEF Notify
  <2>2. CASE RenewStart(t, c)
    BY <1>0, <2>2 DEF RenewStart, TypeOK
  <2> QED BY <2>1, <2>2
<1>3. Flow'
  BY <1>0, <1>1, <1>2 DEF Flow, At
<1>4. t \notin Inserting /\ t \notin Inserting'
  BY <1>1, <1>2 DEF Inserting, Between, At
<1> QED BY <1>0, <1>1, <1>2, <1>3, <1>4, AsideOne

\* A step of a task that stays one that inserts, or one that does not, and changes no row.
LEMMA StayOne ==
    ASSUME OneInv, UNCHANGED <<subs, split, crossed, locks>>, NEW t \in Tasks,
           \A v \in Tasks \ {t} : work'[v] = work[v], work'[t].old = work[t].old,
           t \in Inserting' <=> t \in Inserting, t \notin Between, t \notin Between',
           work'[t].pc \in {"create", "stop"} => work[t].pc \in {"create", "stop"}
    PROVE  OneInv'
<1>1. ~crossed' => \A u \in Tasks :
         work'[u].pc \in {"create", "stop", "halt"} /\ work'[u].old # "none"
             => work'[u].old \in locks'
  BY DEF OneInv, Between
<1> QED BY <1>1, QuietOne

\* A synchronisation, which has no lock, and a renewal, which has one, go to insert alone
\* or cross another.
LEMMA EnterSteps ==
    ASSUME Single, NEW t \in Tasks, SyncStart(t) \/ RenewLock(t)
    PROVE  Flow' /\ IsFiniteSet(subs)' /\ OneInv'
<1> USE DEF connVars, subVars, taskVars, history
<1>0. /\ TypeOK /\ RenewKnown /\ Flow /\ IsFiniteSet(subs) /\ OneInv /\ t \in Workers
      /\ Tasks \subseteq Workers /\ {"create", "patch"} \subseteq Places /\ split \in Nat
  BY DEF Single, TypeInv, TypeOK, Workers, Places
<1>1. UNCHANGED <<provider, subs, split>> /\ IsFiniteSet(subs')
  BY <1>0 DEF SyncStart, RenewLock
<1>2. CASE SyncStart(t)
  <2>1. At(t, "sync") /\ UNCHANGED locks /\ work[t].old = "none" /\ work[t].new = "none"
    BY <1>0, <1>2 DEF SyncStart, Flow, At
  <2>2. CASE Finish(t) /\ UNCHANGED crossed
    <3>1. work'[t] = Idle /\ \A v \in Workers \ {t} : work'[v] = work[v]
      BY <1>0, <2>2, WorkMoves
    <3>2. t \notin Inserting /\ t \notin Inserting'
      BY <2>1, <3>1 DEF Inserting, Between, Idle, At
    <3>3. Flow'
      BY <1>0, <1>1, <3>1 DEF Flow, Idle
    <3> QED BY <1>0, <1>1, <2>1, <2>2, <3>1, <3>2, <3>3, AsideOne
  <2>3. CASE Goto(t, "create") /\ subs = {} /\ crossed' = (crossed \/ Inserting # {})
    <3>1. /\ work'[t].pc = "create" /\ work'[t].old = "none"
          /\ \A v \in Workers \ {t} : work'[v] = work[v]
      BY <1>0, <2>1, <2>3, WorkMoves
    <3>2. Flow'
      BY <1>0, <1>1, <3>1 DEF Flow
    <3>3. CASE crossed'
      BY <1>1, <3>2, <3>3 DEF OneInv
    <3>4. CASE ~crossed'
      <4>1. Inserting = {}
        BY <2>3, <3>4
      <4>2. subs' \ {work'[t].old} = {}
        BY <1>1, <2>3
      <4>3. Cardinality(subs' \ {work'[t].old}) = 0
        BY <4>2, FS_EmptySet
      <4> QED BY <1>0, <1>1, <3>1, <3>2, <4>1, <4>3, EnterOne
    <3> QED BY <3>3, <3>4
  <2> QED BY <1>2, <2>2, <2>3 DEF SyncStart
<1>3. CASE RenewLock(t)
  <2>1. At(t, "lock") /\ LockFree(t) /\ work[t].old \in Channels /\ work[t].new = "none"
    BY <1>0, <1>3 DEF RenewLock, RenewKnown, Flow, At
  <2>2. CASE Finish(t) /\ UNCHANGED <<locks, crossed>>
    <3>1. work'[t] = Idle /\ \A v \in Workers \ {t} : work'[v] = work[v]
      BY <1>0, <2>2, WorkMoves
    <3>2. t \notin Inserting /\ t \notin Inserting'
      BY <2>1, <3>1 DEF Inserting, Between, Idle, At
    <3>3. Flow'
      BY <1>0, <1>1, <3>1 DEF Flow, Idle
    <3> QED BY <1>0, <1>1, <2>2, <3>1, <3>2, <3>3, AsideOne
  <2>3. CASE Goto(t, "patch") /\ provider # "google" /\ UNCHANGED crossed
             /\ locks' = locks \cup {work[t].old}
    <3>1. /\ work'[t].pc = "patch" /\ work'[t].old = work[t].old /\ work'[t].new = "none"
          /\ \A v \in Workers \ {t} : work'[v] = work[v]
      BY <1>0, <2>1, <2>3, WorkMoves
    <3>2. t \notin Inserting /\ t \notin Inserting'
      BY <2>1, <3>1 DEF Inserting, Between, At
    <3>3. provider = "microsoft"
      BY <1>0, <2>3 DEF TypeOK
    <3>4. Flow'
      BY <1>0, <1>1, <3>1, <3>3 DEF Flow
    <3> QED BY <1>0, <1>1, <2>3, <3>1, <3>2, <3>4, AsideOne
  <2>4. CASE Goto(t, "create") /\ provider = "google" /\ crossed' = (crossed \/ Crosses(t))
             /\ locks' = locks \cup {work[t].old}
    <3>1. /\ work'[t].pc = "create" /\ work'[t].old = work[t].old /\ work'[t].new = "none"
          /\ \A v \in Workers \ {t} : work'[v] = work[v]
      BY <1>0, <2>1, <2>4, WorkMoves
    <3>2. Flow'
      BY <1>0, <1>1, <2>4, <3>1 DEF Flow
    <3>3. CASE crossed'
      BY <1>1, <3>2, <3>3 DEF OneInv
    <3>4. CASE ~crossed'
      <4>1. ~crossed /\ ~Crosses(t)
        BY <2>4, <3>4
      <4>2. Inserting = {}
        <5> SUFFICES ASSUME NEW u \in Inserting PROVE FALSE
          OBVIOUS
        <5>1. work[u].old = work[t].old /\ work[u].pc \notin {"commit", "drop"}
          BY <4>1 DEF Crosses
        <5>2. u \in Tasks /\ work[u].pc \in {"create", "stop", "halt"}
          BY <5>1 DEF Inserting, Between
        <5>3. work[u].old \in locks
          BY <1>0, <2>1, <4>1, <5>1, <5>2, ChannelsAssumption DEF OneInv
        <5> QED BY <2>1, <5>1, <5>3 DEF LockFree
      <4>3. work[t].old \in subs \/ subs = {}
        BY <4>1 DEF Crosses
      <4>4. Cardinality(subs) <= split + 1
        BY <1>0, <4>1, <4>2 DEF OneInv
      <4>5. Cardinality(subs \ {work[t].old}) \in Nat /\ Cardinality(subs \ {work[t].old}) <= split
        <5>1. CASE work[t].old \in subs
          BY <1>0, <4>4, <5>1, RowsCount, Zenon
        <5>2. CASE subs = {}
          <6>1. Cardinality(subs \ {work[t].old}) = 0
            BY <5>2, FS_EmptySet
          <6> QED BY <1>0, <6>1
        <5> QED BY <4>3, <5>1, <5>2
      <4> QED BY <1>0, <1>1, <2>4, <3>1, <3>2, <4>2, <4>5, EnterOne
    <3> QED BY <3>3, <3>4
  <2> QED BY <1>3, <2>2, <2>3, <2>4 DEF RenewLock
<1> QED BY <1>2, <1>3

\* The provider's answers: the task goes on with its insertion, or gives up.
LEMMA CallSteps ==
    ASSUME Single, NEW t \in Tasks,
           \/ CallFails(t) \/ PatchSubscription(t)
           \/ \E c \in Channels : CreateChannel(t, c) \/ CreateLost(t, c)
    PROVE  Flow' /\ IsFiniteSet(subs)' /\ OneInv'
<1> USE DEF connVars, subVars, taskVars, history
<1>0. /\ TypeOK /\ RenewKnown /\ Flow /\ IsFiniteSet(subs) /\ OneInv /\ t \in Workers
      /\ Tasks \subseteq Workers /\ {"commit", "fail", "stop"} \subseteq Places /\ split \in Nat
      /\ work[t] \in Work
  BY DEF Single, TypeInv, TypeOK, Workers, Places
<1>1. UNCHANGED <<provider, subs, split, crossed>> /\ IsFiniteSet(subs')
  BY <1>0 DEF CallFails, PatchSubscription, CreateChannel, CreateGoogleChannel,
              CreateGraphSubscription, Created, CreateLost
<1>2. ASSUME NEW c \in Channels, CreateLost(t, c) PROVE Flow' /\ OneInv'
  <2>1. UNCHANGED <<work, locks>>
    BY <1>2 DEF CreateLost
  <2>2. Flow'
    BY <1>0, <1>1, <2>1 DEF Flow
  <2>3. Inserting' = Inserting /\ Between' = Between
    BY <2>1 DEF Inserting, Between
  <2> QED BY <1>0, <1>1, <2>1, <2>2, <2>3 DEF OneInv
<1>3. ASSUME NEW c \in Channels, CreateChannel(t, c) PROVE Flow' /\ OneInv'
  <2>1. PICK p \in {"commit", "stop"} :
           Created(t, c, p) /\ (p = "stop" => provider = "google")
    BY <1>3 DEF CreateChannel, CreateGoogleChannel, CreateGraphSubscription
  <2>2. /\ \A v \in Workers \ {t} : work'[v] = work[v]
        /\ work'[t].pc = p /\ work'[t].old = work[t].old /\ work'[t].new = c
    BY <1>0, <2>1 DEF Created, TypeOK, Work
  <2>3. Flow'
    BY <1>0, <1>1, <2>1, <2>2 DEF Flow
  <2>4. /\ t \in Inserting /\ t \in Inserting' /\ t \notin Between /\ t \notin Between'
        /\ work[t].pc = "create" /\ UNCHANGED locks
    BY <2>1, <2>2, ChannelsAssumption DEF Created, At, Inserting, Between
  <2> QED BY <1>0, <1>1, <2>2, <2>3, <2>4, StayOne
<1>4. CASE PatchSubscription(t)
  <2>1. work[t].pc = "patch" /\ work[t].new = "none" /\ provider = "microsoft"
    BY <1>0, <1>4 DEF PatchSubscription, At, Flow
  <2>2. /\ \A v \in Workers \ {t} : work'[v] = work[v]
        /\ work'[t] = Idle \/ (work'[t].pc = "commit" /\ work'[t].new = "none")
    <3>1. Finish(t) \/ Goto(t, "commit")
      BY <1>4 DEF PatchSubscription
    <3>2. CASE Finish(t)
      BY <1>0, <3>2, WorkMoves
    <3>3. CASE Goto(t, "commit")
      <4>1. "commit" \in Places
        BY <1>0
      <4> QED BY <1>0, <2>1, <3>3, <4>1, WorkMoves
    <3> QED BY <3>1, <3>2, <3>3
  <2>3. Flow'
    BY <1>0, <1>1, <2>2 DEF Flow, Idle
  <2>4. t \notin Inserting /\ t \notin Inserting' /\ t \notin Between /\ t \notin Between'
    BY <2>1, <2>2 DEF Inserting, Between, Idle
  <2>5. ~crossed' => \A u \in Tasks :
           work'[u].pc \in {"create", "stop", "halt"} /\ work'[u].old # "none"
               => work'[u].old \in locks'
    <3>1. \A u \in Tasks : ~(work'[u].pc \in {"create", "stop", "halt"} /\ work'[u].old # "none")
      BY <1>0, <2>1, <2>2 DEF Flow, Idle
    <3> QED BY <3>1
  <2> QED BY <1>0, <1>1, <2>2, <2>3, <2>4, <2>5, QuietOne
<1>5. CASE CallFails(t)
  <2>1. /\ \A v \in Workers \ {t} : work'[v] = work[v]
        /\ work'[t] = Idle \/ work'[t].pc = "fail"
    BY <1>0, <1>5, WorkMoves DEF CallFails
  <2>2. Flow'
    BY <1>0, <1>1, <2>1 DEF Flow, Idle
  <2>3. t \notin Inserting' /\ t \notin Between'
    BY <2>1 DEF Inserting, Between, Idle
  <2>4. CASE work[t].pc = "create"
    <3>1. t \in Inserting \ Between
      BY <2>4 DEF Inserting, Between
    <3>2. ~crossed => Cardinality(subs') <= split' + 1
      <4>1. ~crossed => Cardinality(subs \ {work[t].old}) <= split
        BY <1>0, <3>1 DEF OneInv
      <4>2. ~crossed => Cardinality(subs) <= split + 1
        BY <1>0, <4>1, RowsCount, Zenon
      <4> QED BY <1>1, <4>2
    <3> QED BY <1>0, <1>1, <2>1, <2>2, <2>3, <3>1, <3>2, LeaveOne
  <2>5. CASE work[t].pc = "patch"
    <3>1. t \notin Inserting /\ t \notin Between
      BY <2>5 DEF Inserting, Between
    <3>2. \A u \in Tasks : ~(work'[u].pc \in {"create", "stop", "halt"} /\ work'[u].old # "none")
      BY <1>0, <2>1, <2>5 DEF Flow, Idle
    <3> QED BY <1>0, <1>1, <2>1, <2>2, <2>3, <3>1, <3>2, QuietOne
  <2> QED BY <1>5, <2>4, <2>5 DEF CallFails, At
<1> QED BY <1>1, <1>2, <1>3, <1>4, <1>5

\* The old channel is stopped: the new row may be committed before, and the lock is
\* released.
LEMMA StopSteps ==
    ASSUME Single, NEW t \in Tasks, StopRefresh(t) \/ StopChannel(t)
    PROVE  Flow' /\ IsFiniteSet(subs)' /\ OneInv'
<1> USE DEF connVars, subVars, taskVars, history
<1>0. /\ TypeOK /\ RenewKnown /\ Flow /\ IsFiniteSet(subs) /\ OneInv /\ t \in Workers
      /\ Tasks \subseteq Workers /\ {"commit", "halt", "drop"} \subseteq Places /\ split \in Nat
      /\ work[t].pc \in {"stop", "halt"} /\ provider' = provider
  BY DEF Single, TypeInv, TypeOK, Workers, Places, StopRefresh, StopChannel, At
<1>1. /\ work[t].new # "none" /\ provider = "google" /\ t \in Inserting
  BY <1>0, ChannelsAssumption DEF RenewKnown, Flow, Inserting, Between
<1>2. CASE StopRefresh(t)
  <2>1. /\ work[t].pc = "stop" /\ subs' = subs \cup {work[t].new}
        /\ UNCHANGED <<crossed, split, locks>>
    BY <1>2 DEF StopRefresh, At
  <2>2. /\ work'[t].pc = "halt" /\ work'[t].old = work[t].old
        /\ \A v \in Workers \ {t} : work'[v] = work[v]
    BY <1>0, <1>2, WorkMoves DEF StopRefresh
  <2>3. Flow'
    BY <1>0, <1>1, <2>2 DEF Flow
  <2>4. IsFiniteSet(subs')
    BY <1>0, <2>1, RowsCount, Zenon
  <2>5. Inserting' = Inserting /\ t \in Between' /\ t \notin Between
    BY <1>0, <1>1, <2>1, <2>2 DEF Inserting, Between
  <2>6. ASSUME ~crossed
        PROVE  /\ \A v \in Inserting' : v = t
               /\ Cardinality(subs' \ {work'[t].old}) <= split' + 1
               /\ \A u \in Tasks : work'[u].pc \in {"create", "stop", "halt"} /\ work'[u].old # "none"
                                      => work'[u].old \in locks'
    <3>1. Cardinality(subs \ {work[t].old}) <= split
      BY <1>0, <1>1, <2>5, <2>6 DEF OneInv
    <3>2. Cardinality((subs \cup {work[t].new}) \ {work[t].old}) <= split + 1
      <4>1. IsFiniteSet(subs) /\ split \in Nat
        BY <1>0
      <4> QED BY <3>1, <4>1, RowsCount
    <3>3. \A v \in Inserting' : v = t
      BY <1>0, <1>1, <2>5, <2>6 DEF OneInv
    <3>4. \A u \in Tasks : work'[u].pc \in {"create", "stop", "halt"} /\ work'[u].old # "none"
                              => work'[u].old \in locks'
      BY <1>0, <2>1, <2>2, <2>6 DEF OneInv
    <3> QED BY <2>1, <2>2, <3>2, <3>3, <3>4
  <2>7. t \in Inserting'
    BY <1>1, <2>5
  <2>8. OneInv'
    <3> SUFFICES ASSUME ~crossed'
                 PROVE  /\ \A v, u \in Inserting' : v = u
                        /\ \A v \in Inserting' : Cardinality(subs' \ {work'[v].old}) <= split' + 1
                        /\ Inserting' \ Between' = {} /\ Inserting' # {}
                        /\ \A u \in Tasks :
                              work'[u].pc \in {"create", "stop", "halt"} /\ work'[u].old # "none"
                                  => work'[u].old \in locks'
      BY DEF OneInv
    <3> QED BY <2>1, <2>5, <2>6, <2>7
  <2> QED BY <2>3, <2>4, <2>8
<1>3. CASE StopChannel(t)
  <2>1. UNCHANGED <<subs, crossed, split>>
    BY <1>3 DEF StopChannel
  <2>2. /\ work'[t].pc = IF work[t].pc = "stop" THEN "commit" ELSE "drop"
        /\ work'[t].old = work[t].old /\ work'[t].new = work[t].new
        /\ \A v \in Workers \ {t} : work'[v] = work[v]
    <3>1. CASE work[t].pc = "stop"
      <4>1. Goto(t, "commit") /\ "commit" \in Places
        BY <1>0, <1>3, <3>1 DEF StopChannel, At
      <4> QED BY <1>0, <3>1, <4>1, WorkMoves
    <3>2. CASE work[t].pc = "halt"
      <4>1. Goto(t, "drop") /\ "drop" \in Places
        BY <1>0, <1>3, <3>2 DEF StopChannel, At
      <4> QED BY <1>0, <3>2, <4>1, WorkMoves
    <3> QED BY <1>0, <3>1, <3>2
  <2>3. Flow'
    BY <1>0, <1>1, <2>2 DEF Flow
  <2>4. t \in Inserting' /\ (t \in Between' <=> t \in Between)
    BY <1>0, <1>1, <2>2 DEF Inserting, Between
  <2>5. ~crossed' => \A u \in Tasks :
           work'[u].pc \in {"create", "stop", "halt"} /\ work'[u].old # "none"
               => work'[u].old \in locks'
    <3> SUFFICES ASSUME ~crossed, NEW u \in Tasks, work'[u].pc \in {"create", "stop", "halt"}
                 PROVE  FALSE
      BY <2>1
    <3>1. u # t
      BY <1>0, <2>2
    <3>2. u \in Inserting
      BY <1>0, <2>2, <3>1 DEF Inserting, Between
    <3> QED BY <1>0, <1>1, <3>1, <3>2 DEF OneInv
  <2> QED BY <1>0, <1>1, <2>1, <2>2, <2>3, <2>4, <2>5, QuietOne
<1> QED BY <1>2, <1>3

\* The commit, and the ends without one: what was inserted takes the place of what was
\* deleted, or the task wrote no row.
LEMMA EndSteps ==
    ASSUME Single, NEW t \in Tasks,
           Commit(t) \/ RenewSkip(t) \/ FailCommit(t) \/ ProcessEvent(t)
    PROVE  Flow' /\ IsFiniteSet(subs)' /\ OneInv'
<1> USE DEF connVars, subVars, taskVars, history
<1>0. /\ TypeOK /\ Flow /\ IsFiniteSet(subs) /\ OneInv /\ t \in Workers
      /\ Tasks \subseteq Workers /\ split \in Nat
      /\ UNCHANGED <<provider, crossed, split, locks>> /\ Finish(t)
  BY DEF Single, TypeInv, TypeOK, Workers, Commit, RenewSkip, FailCommit, ProcessEvent
<1>1. work'[t] = Idle /\ \A v \in Workers \ {t} : work'[v] = work[v]
  BY <1>0, WorkMoves
<1>2. Flow' /\ t \notin Inserting'
  BY <1>0, <1>1 DEF Flow, Idle, Inserting, Between
<1>3. CASE RenewSkip(t) \/ FailCommit(t) \/ ProcessEvent(t) \/ (At(t, "commit") /\ work[t].new = "none" /\ Commit(t))
  <2>1. UNCHANGED subs
    BY <1>3 DEF RenewSkip, FailCommit, ProcessEvent, Commit, Rows, At
  <2>2. t \notin Inserting
    BY <1>3 DEF RenewSkip, FailCommit, ProcessEvent, At, Inserting, Between
  <2> QED BY <1>0, <1>1, <1>2, <2>1, <2>2, AsideOne
<1>4. CASE At(t, "drop") /\ Commit(t)
  <2>1. subs' = subs \ {work[t].old} /\ t \in Inserting
    BY <1>4 DEF Commit, Rows, At, Inserting, Between
  <2>2. ~crossed => Cardinality(subs') <= split' + 1
    BY <1>0, <2>1 DEF OneInv
  <2>3. IsFiniteSet(subs')
    BY <1>0, <2>1, RowsCount, Zenon
  <2> QED BY <1>0, <1>1, <1>2, <2>1, <2>2, <2>3, LeaveOne
<1>5. CASE At(t, "commit") /\ work[t].new # "none" /\ Commit(t)
  <2>1. /\ subs' = (subs \ {work[t].old}) \cup {work[t].new}
        /\ t \in Inserting \ Between
    BY <1>5 DEF Commit, Rows, At, Inserting, Between
  <2>2. ~crossed => Cardinality(subs') <= split' + 1
    <3>1. ~crossed => Cardinality(subs \ {work[t].old}) <= split
      BY <1>0, <2>1 DEF OneInv
    <3>2. ~crossed => Cardinality((subs \ {work[t].old}) \cup {work[t].new}) <= split + 1
      <4>1. IsFiniteSet(subs) /\ split \in Nat
        BY <1>0
      <4> QED BY <3>1, <4>1, RowsCount
    <3> QED BY <1>0, <2>1, <3>2
  <2>3. IsFiniteSet(subs')
    BY <1>0, <2>1, RowsCount, Zenon
  <2> QED BY <1>0, <1>1, <1>2, <2>1, <2>2, <2>3, LeaveOne
<1> QED BY <1>3, <1>4, <1>5 DEF Commit

\* Time, the locks' expiry, a refusal and a crash.
LEMMA EnvironmentOne ==
    ASSUME Single, RefreshRefused \/ Tick \/ LockExpires \/ \E w \in Workers : Crash(w)
    PROVE  Flow' /\ IsFiniteSet(subs)' /\ OneInv'
<1> USE DEF connVars, subVars, taskVars, history
<1>0. /\ TypeOK /\ Flow /\ IsFiniteSet(subs) /\ OneInv /\ Tasks \subseteq Workers /\ split \in Nat
      /\ UNCHANGED <<provider, subs>> /\ IsFiniteSet(subs')
  BY DEF Single, TypeInv, TypeOK, Workers, RefreshRefused, Tick, LockExpires, Crash
<1>1. CASE RefreshRefused \/ Tick \/ LockExpires
  <2>1. UNCHANGED work
    BY <1>1 DEF RefreshRefused, Tick, LockExpires
  <2>2. Flow' /\ Inserting' = Inserting /\ Between' = Between
    BY <1>0, <2>1 DEF Flow, Inserting, Between
  <2>3. CASE RefreshRefused
    <3>1. UNCHANGED <<crossed, split, locks>>
      BY <2>3 DEF RefreshRefused
    <3> QED BY <1>0, <2>1, <2>2, <3>1 DEF OneInv
  <2>4. CASE LockExpires
    <3>1. PICK c \in locks : /\ locks' = locks \ {c} /\ split' = split
                             /\ crossed' = (crossed \/ \E t \in Inserting : work[t].old = c)
      BY <2>4 DEF LockExpires
    <3>2. ASSUME ~crossed', NEW t \in Tasks, work[t].pc \in {"create", "stop", "halt"},
                 work[t].old # "none"
          PROVE  work[t].old \in locks'
      <4>1. t \in Inserting /\ ~crossed
        BY <3>1, <3>2 DEF Inserting, Between
      <4>2. work[t].old # c
        BY <3>1, <3>2, <4>1
      <4> QED BY <1>0, <3>1, <3>2, <4>1, <4>2 DEF OneInv
    <3>3. crossed => crossed'
      BY <3>1
    <3> QED BY <1>0, <2>1, <2>2, <3>1, <3>2, <3>3 DEF OneInv
  <2>5. CASE Tick
    <3>1. Settle(subs) /\ UNCHANGED locks
      BY <2>5 DEF Tick
    <3>2. CASE crossed' = crossed /\ split' = split
      BY <1>0, <2>1, <2>2, <3>1, <3>2 DEF OneInv
    <3>3. CASE Inserting = {} /\ Cardinality(subs) <= 1 /\ crossed' = FALSE /\ split' = 0
      <4>1. \A t \in Tasks : work[t].pc \notin {"create", "stop", "halt"}
        BY <3>3 DEF Inserting, Between
      <4>2. Cardinality(subs') <= split' + 1
        BY <1>0, <3>3
      <4> QED BY <1>0, <2>1, <2>2, <3>3, <4>1, <4>2 DEF OneInv
    <3> QED BY <3>1, <3>2, <3>3, SettleCases
  <2> QED BY <1>1, <2>3, <2>4, <2>5
<1>2. ASSUME NEW w \in Workers, Crash(w) PROVE Flow' /\ OneInv'
  <2>1. work'[w] = Idle /\ \A v \in Workers \ {w} : work'[v] = work[v]
    BY <1>0, <1>2, WorkMoves DEF Crash
  <2>2. Flow' /\ w \notin Inserting' /\ UNCHANGED <<crossed, locks>>
    BY <1>0, <1>2, <2>1 DEF Flow, Idle, Inserting, Between, Crash
  <2>3. CASE w \notin Inserting
    <3>1. w \notin Between
      BY <2>3 DEF Inserting, Between
    <3>2. UNCHANGED split
      BY <1>2, <3>1 DEF Crash
    <3> QED BY <1>0, <2>1, <2>2, <2>3, <3>2, AsideOne
  <2>4. CASE w \in Between
    <3>1. split' = split + 1 /\ w \in Inserting
      <4>1. w \in Inserting
        BY <2>4 DEF Inserting, Between
      <4>2. split' = split + 1
        BY <1>2, <2>4 DEF Crash
      <4> QED BY <4>1, <4>2
    <3>2. ~crossed => Cardinality(subs \ {work[w].old}) <= split + 1
      BY <1>0, <3>1 DEF OneInv
    <3>3. ~crossed => Cardinality(subs) <= (split + 1) + 1
      BY <1>0, <3>2, RowsCount, Zenon
    <3>4. ~crossed => Cardinality(subs') <= split' + 1
      BY <1>0, <3>1, <3>3
    <3> QED BY <1>0, <2>1, <2>2, <3>1, <3>4, LeaveOne
  <2>5. CASE w \in Inserting \ Between
    <3>1. split' = split
      BY <1>2, <2>5 DEF Crash
    <3>2. ~crossed => Cardinality(subs \ {work[w].old}) <= split
      BY <1>0, <2>5 DEF OneInv
    <3>3. ~crossed => Cardinality(subs) <= split + 1
      BY <1>0, <3>2, RowsCount, Zenon
    <3>4. ~crossed => Cardinality(subs') <= split' + 1
      BY <1>0, <3>1, <3>3
    <3> QED BY <1>0, <2>1, <2>2, <2>5, <3>4, LeaveOne
  <2> QED BY <2>3, <2>4, <2>5
<1> QED BY <1>0, <1>1, <1>2

\* The inductive invariant bounds the rows.
LEMMA SingleBounds == Single => OneSubscription
<1> SUFFICES ASSUME Single, ~crossed
             PROVE  /\ Cardinality(subs) <= 1 + split + Cardinality(Between)
                    /\ \A t, u \in Inserting : t = u
  BY DEF OneSubscription
<1>0. TypeOK /\ IsFiniteSet(subs) /\ OneInv /\ split \in Nat
  BY DEF Single, TypeInv, TypeOK
<1>1. \A t, u \in Inserting : t = u
  BY <1>0 DEF OneInv
<1>2. Cardinality(subs) \in Nat
  BY <1>0, FS_CardinalityType
<1>3. CASE Between = {}
  <2>1. Cardinality(Between) = 0
    BY <1>3, FS_EmptySet
  <2>2. Cardinality(subs) <= split + 1
    <3>1. CASE Inserting = {}
      BY <1>0, <3>1 DEF OneInv
    <3>2. ASSUME NEW t \in Inserting PROVE Cardinality(subs) <= split + 1
      <4>1. Cardinality(subs \ {work[t].old}) <= split
        BY <1>0, <1>3, <3>2 DEF OneInv
      <4> QED BY <1>0, <4>1, RowsCount, Zenon
    <3> QED BY <3>1, <3>2
  <2> QED BY <1>0, <1>1, <1>2, <2>1, <2>2
<1>4. ASSUME NEW t \in Between
      PROVE  Cardinality(subs) <= 1 + split + Cardinality(Between)
  <2>1. t \in Inserting /\ Between \subseteq Inserting
    BY DEF Between, Inserting
  <2>2. Between = {t}
    BY <1>1, <2>1
  <2>3. Cardinality(Between) = 1
    BY <2>2, FS_Singleton
  <2>4. Cardinality(subs \ {work[t].old}) <= split + 1
    BY <1>0, <2>1 DEF OneInv
  <2>5. Cardinality(subs) <= (split + 1) + 1
    BY <1>0, <2>4, RowsCount, Zenon
  <2> QED BY <1>0, <1>2, <2>3, <2>5
<1> QED BY <1>1, <1>3, <1>4

\* However synchronisations, renewals, revocations and reconnections follow each other
\* and whoever dies: but for tasks that cross (an unlocked synchronisation, a selection
\* out of date, a lock that ends before its holder's commit), one task at a time makes a
\* channel, and beyond one row there is only one for each task that is, or died, between
\* the early commit of fresh_access_token and its own (ensure_subscriptions,
\* renew_subscription, _stop_google_channel).
THEOREM SubscriptionsAreSingle == Spec => []OneSubscription
<1>1. Init => Flow /\ IsFiniteSet(subs) /\ OneInv
  <2> SUFFICES ASSUME Init PROVE Flow /\ IsFiniteSet(subs) /\ OneInv
    OBVIOUS
  <2>1. \A t \in Tasks : work[t] = Idle
    BY DEF Init, Workers
  <2>2. Flow /\ Inserting = {}
    BY <2>1 DEF Flow, Inserting, Between, Idle
  <2>3. IsFiniteSet(subs) /\ Cardinality(subs) = 0 /\ split = 0
    BY FS_EmptySet DEF Init
  <2>4. Cardinality(subs) <= split + 1
    BY <2>3
  <2> QED BY <2>1, <2>2, <2>3, <2>4 DEF OneInv, Idle
<1>2. Single /\ [Next]_vars => Flow' /\ IsFiniteSet(subs)' /\ OneInv'
  <2> SUFFICES ASSUME Single, [Next]_vars PROVE Flow' /\ IsFiniteSet(subs)' /\ OneInv'
    OBVIOUS
  <2>1. CASE UNCHANGED vars
    <3>1. Flow /\ IsFiniteSet(subs) /\ OneInv
      BY DEF Single
    <3>2. UNCHANGED <<provider, subs, locks, work, crossed, split>>
      BY <2>1 DEF vars
    <3>3. Inserting' = Inserting /\ Between' = Between
      BY <3>2 DEF Inserting, Between
    <3> QED BY <3>1, <3>2, <3>3 DEF Flow, OneInv
  <2>2. ASSUME NEW t \in Tasks, Continue(t) PROVE Flow' /\ IsFiniteSet(subs)' /\ OneInv'
    BY <2>2, EnterSteps, CallSteps, StopSteps, EndSteps DEF Continue
  <2> QED BY <2>1, <2>2, RequestOne, StartOne, CallSteps, EnvironmentOne DEF Next, Renewal
<1>3. TypeInv /\ Flow /\ IsFiniteSet(subs) /\ OneInv <=> Single
  BY DEF Single
<1> QED BY <1>1, <1>2, <1>3, SingleBounds, TypeInvariant, PTL DEF Spec

=============================================================================
