------------------------ MODULE ModuleRuntimeProofs ------------------------
(***************************************************************************)
(* Proofs about ModuleRuntime, for every set of workers and processes,     *)
(* every crew, every time to live and every bound: types, mutual exclusion *)
(* of units, the audit of activations, and that the gate with its caches   *)
(* implements ModuleGate.                                                  *)
(***************************************************************************)
EXTENDS ModuleRuntime, TLAPS

----------------------------------------------------------------------------
(* How the workers move                                                    *)

\* An idle worker is a worker.
LEMMA IdleType == Idle \in Work
  BY BoundsAssumption DEF Idle, Work, Places, Rows

\* Goto changes the place of one worker.
LEMMA GotoMoves ==
    ASSUME TypeOK, NEW w \in Workers, NEW p \in Places, Goto(w, p)
    PROVE  /\ work' \in [Workers -> Work]
           /\ work'[w].pc = p /\ work'[w].kind = work[w].kind
           /\ \A v \in Workers \ {w} : work'[v] = work[v]
  BY DEF TypeOK, Goto, Work

\* Finish makes one worker idle.
LEMMA FinishMoves ==
    ASSUME TypeOK, NEW w \in Workers, Finish(w)
    PROVE  /\ work' \in [Workers -> Work]
           /\ work'[w] = Idle
           /\ \A v \in Workers \ {w} : work'[v] = work[v]
  BY IdleType DEF TypeOK, Finish

\* Begin gives an idle worker an operation.
LEMMA BeginMoves ==
    ASSUME TypeOK, NEW w \in Workers, NEW k \in Kinds, NEW p \in Places, Begin(w, k, p)
    PROVE  /\ work' \in [Workers -> Work]
           /\ work[w].pc = "idle" /\ work'[w].pc = p /\ work'[w].kind = k
           /\ \A v \in Workers \ {w} : work'[v] = work[v]
<1> DEFINE new == [pc |-> p, kind |-> k, saw |-> "none", left |-> 0]
<1>1. new \in Work
  BY BoundsAssumption DEF Work, Rows
<1>2. new.pc = p /\ new.kind = k
  OBVIOUS
<1>3. work' = [work EXCEPT ![w] = new] /\ work[w].pc = "idle"
  BY DEF Begin, At
<1> HIDE DEF new
<1> QED BY <1>1, <1>2, <1>3 DEF TypeOK

\* The value of a cache entry or of a row is a place of the gate.
LEMMA ValuePlace ==
    /\ \A r \in Rows : Enabled(r) \in {"on", "off"}
    /\ {"on", "off"} \subseteq Places
  BY DEF Enabled, Rows, Places

----------------------------------------------------------------------------
(* Types                                                                   *)

\* At most one worker is about to publish, and the broker has room for it.
OnePublishes ==
    \A w \in Workers : At(w, "publish") =>
        queue < MaxQueue /\ \A v \in Workers : At(v, "publish") => v = w

\* Only activations and deactivations are at the places of the two.
KindsKnown ==
    \A w \in Workers :
        work[w].pc \in {"load", "audit", "commit"} => work[w].kind \in {"enable", "disable"}

\* The inductive invariant of type correctness: the bound of the queue rests on
\* OnePublishes, the type of the audit on KindsKnown.
TypeInv == TypeOK /\ OnePublishes /\ KindsKnown

\* A worker that moves, but not to publish, while the queue gets no longer.
LEMMA MoveKeeps ==
    ASSUME TypeInv, NEW w \in Workers, work' \in [Workers -> Work],
           \A v \in Workers \ {w} : work'[v] = work[v],
           work'[w].pc \in {"load", "audit", "commit"} => work'[w].kind \in {"enable", "disable"},
           work'[w].pc # "publish",
           queue' \in 0..MaxQueue, queue' <= queue \/ \A v \in Workers \ {w} : ~At(v, "publish")
    PROVE  OnePublishes' /\ KindsKnown'
<1>1. KindsKnown'
  BY DEF TypeInv, KindsKnown
<1>2. ASSUME NEW v \in Workers, At(v, "publish")' PROVE v # w /\ At(v, "publish")
  BY <1>2 DEF At
<1>3. OnePublishes'
  <2> SUFFICES ASSUME NEW v \in Workers, At(v, "publish")'
               PROVE  queue' < MaxQueue /\ \A u \in Workers : At(u, "publish")' => u = v
    BY DEF OnePublishes
  <2>1. v # w /\ At(v, "publish")
    BY <1>2
  <2>2. queue < MaxQueue /\ \A u \in Workers : At(u, "publish") => u = v
    BY <2>1 DEF TypeInv, OnePublishes
  <2>3. queue' <= queue
    BY <2>1
  <2>4. queue' < MaxQueue
    BY <2>2, <2>3, BoundsAssumption DEF TypeInv, TypeOK
  <2> QED BY <1>2, <2>2, <2>4
<1> QED BY <1>1, <1>3

\* The gate keeps the types.
LEMMA GateTypes ==
    ASSUME TypeInv, NEW w \in Workers, Gate(w)
    PROVE  TypeInv'
<1> USE DEF fixedVars, unitVars, gateVars
<1>0. TypeOK /\ queue \in 0..MaxQueue /\ Home(w) \in Processes /\ work[w] \in Work
  BY DEF TypeInv, TypeOK, Home
<1>1. CASE RequestHit(w)
  <2>1. cache[Home(w)].val \in {"on", "off"} /\ cache[Home(w)].val \in Places
    BY <1>0, ValuePlace DEF TypeOK, Entry
  <2>2. /\ work' \in [Workers -> Work]
        /\ work'[w].pc = cache[Home(w)].val
        /\ \A v \in Workers \ {w} : work'[v] = work[v]
    BY <1>0, <1>1, <2>1, BeginMoves DEF RequestHit, Kinds
  <2>3. OnePublishes' /\ KindsKnown'
    BY <1>0, <1>1, <2>1, <2>2, MoveKeeps DEF RequestHit
  <2>4. TypeOK'
    BY <1>0, <1>1, <2>2 DEF RequestHit, TypeOK
  <2> QED BY <2>3, <2>4 DEF TypeInv
<1>2. CASE RequestMiss(w)
  <2> DEFINE new == [pc |-> "select", kind |-> "request", saw |-> "none", left |-> Ttl]
  <2>1. new \in Work /\ new.pc = "select"
    BY BoundsAssumption DEF Work, Places, Kinds, Rows
  <2>2. work' = [work EXCEPT ![w] = new]
    BY <1>2 DEF RequestMiss, Lifetime
  <2> HIDE DEF new
  <2>3. /\ work' \in [Workers -> Work]
        /\ work'[w].pc = "select"
        /\ \A v \in Workers \ {w} : work'[v] = work[v]
    BY <1>0, <2>1, <2>2 DEF TypeOK
  <2>4. OnePublishes' /\ KindsKnown'
    BY <1>0, <1>2, <2>3, MoveKeeps DEF RequestMiss, Lifetime
  <2>5. may' \in [Workers -> SUBSET {"on", "off"}]
    BY <1>0, <1>2 DEF RequestMiss, Lifetime, TypeOK
  <2>6. TypeOK'
    BY <1>0, <1>2, <2>3, <2>5 DEF RequestMiss, Lifetime, TypeOK
  <2> QED BY <2>4, <2>6 DEF TypeInv
<1>3. CASE Select(w)
  <2>1. /\ work' \in [Workers -> Work]
        /\ work'[w].pc = "fill"
        /\ \A v \in Workers \ {w} : work'[v] = work[v]
    BY <1>0, <1>3 DEF Select, TypeOK, Work, Places
  <2>2. OnePublishes' /\ KindsKnown'
    BY <1>0, <1>3, <2>1, MoveKeeps DEF Select
  <2>3. TypeOK'
    BY <1>0, <1>3, <2>1 DEF Select, TypeOK
  <2> QED BY <2>2, <2>3 DEF TypeInv
<1>4. CASE Fill(w)
  <2>1. Enabled(work[w].saw) \in {"on", "off"} /\ Enabled(work[w].saw) \in Places
    BY <1>0, ValuePlace DEF Work
  <2>2. /\ work' \in [Workers -> Work]
        /\ work'[w].pc = Enabled(work[w].saw)
        /\ \A v \in Workers \ {w} : work'[v] = work[v]
    BY <1>0, <1>4, <2>1, GotoMoves DEF Fill
  <2>3. OnePublishes' /\ KindsKnown'
    BY <1>0, <1>4, <2>1, <2>2, MoveKeeps DEF Fill
  <2>4. [val |-> Enabled(work[w].saw), left |-> work[w].left] \in Entry
    BY <1>0, <2>1 DEF Entry, Work
  <2>5. cache' \in [Processes -> Entry]
    BY <1>0, <1>4, <2>4 DEF Fill, TypeOK
  <2>6. TypeOK'
    BY <1>0, <1>4, <2>2, <2>5 DEF Fill, TypeOK
  <2> QED BY <2>3, <2>6 DEF TypeInv
<1>5. CASE Refuse(w) \/ ListDigests(w)
  <2>1. Finish(w) /\ UNCHANGED <<fixedVars, row, logged, cache, unitVars, gateVars>>
    BY <1>5 DEF Refuse, ListDigests
  <2>2. /\ work' \in [Workers -> Work]
        /\ work'[w].pc = "idle"
        /\ \A v \in Workers \ {w} : work'[v] = work[v]
    BY <1>0, <2>1, FinishMoves DEF Idle
  <2>3. OnePublishes' /\ KindsKnown'
    BY <1>0, <2>1, <2>2, MoveKeeps
  <2>4. TypeOK'
    BY <1>0, <2>1, <2>2 DEF TypeOK
  <2> QED BY <2>3, <2>4 DEF TypeInv
<1>6. CASE RunNow(w)
  <2>1. /\ work' \in [Workers -> Work]
        /\ work'[w].pc = "idle"
        /\ \A v \in Workers \ {w} : work'[v] = work[v]
    BY <1>0, <1>6, FinishMoves DEF RunNow, Idle
  <2>2. queue' \in 0..MaxQueue /\ \A v \in Workers : ~At(v, "publish")
    BY <1>0, <1>6, BoundsAssumption DEF RunNow, Room
  <2>3. OnePublishes' /\ KindsKnown'
    BY <2>1, <2>2, MoveKeeps
  <2>4. TypeOK'
    BY <1>0, <1>6, <2>1, <2>2 DEF RunNow, TypeOK
  <2> QED BY <2>3, <2>4 DEF TypeInv
<1> QED BY <1>1, <1>2, <1>3, <1>4, <1>5, <1>6 DEF Gate

\* Activations keep the types.
LEMMA ActivationTypes ==
    ASSUME TypeInv, NEW w \in Workers, Activation(w)
    PROVE  TypeInv'
<1> USE DEF fixedVars, unitVars, gateVars
<1>0. TypeOK /\ queue \in 0..MaxQueue /\ Home(w) \in Processes /\ work[w] \in Work
  BY DEF TypeInv, TypeOK, Home
<1>1. CASE EnableStart(w) \/ DisableStart(w)
  <2>1. PICK k \in {"enable", "disable"} : Begin(w, k, "load")
    BY <1>1 DEF EnableStart, DisableStart
  <2>2. UNCHANGED <<fixedVars, row, logged, cache, unitVars, gateVars>>
    BY <1>1 DEF EnableStart, DisableStart
  <2>3. /\ work' \in [Workers -> Work]
        /\ work'[w].pc = "load" /\ work'[w].kind = k
        /\ \A v \in Workers \ {w} : work'[v] = work[v]
    BY <1>0, <2>1, BeginMoves DEF Kinds, Places
  <2>4. OnePublishes' /\ KindsKnown'
    BY <1>0, <2>2, <2>3, MoveKeeps
  <2>5. TypeOK'
    BY <1>0, <2>2, <2>3 DEF TypeOK
  <2> QED BY <2>4, <2>5 DEF TypeInv
<1>2. CASE LoadRow(w)
  <2>1. /\ work' \in [Workers -> Work]
        /\ work'[w].pc = "idle" \/ (work'[w].pc = "audit" /\ work'[w].kind = work[w].kind)
        /\ \A v \in Workers \ {w} : work'[v] = work[v]
    <3>1. CASE Finish(w)
      BY <1>0, <3>1, FinishMoves DEF Idle
    <3>2. CASE work' = [work EXCEPT ![w].pc = "audit", ![w].saw = row]
      BY <1>0, <3>2 DEF TypeOK, Work, Places
    <3> QED BY <1>2, <3>1, <3>2 DEF LoadRow
  <2>2. work[w].kind \in {"enable", "disable"}
    BY <1>2 DEF LoadRow, At, TypeInv, KindsKnown
  <2>3. OnePublishes' /\ KindsKnown'
    BY <1>0, <1>2, <2>1, <2>2, MoveKeeps DEF LoadRow
  <2>4. TypeOK'
    BY <1>0, <1>2, <2>1 DEF LoadRow, TypeOK
  <2> QED BY <2>3, <2>4 DEF TypeInv
<1>3. CASE Audit(w)
  <2>1. /\ work' \in [Workers -> Work]
        /\ work'[w].kind = work[w].kind /\ work'[w].pc = "commit"
        /\ \A v \in Workers \ {w} : work'[v] = work[v]
    BY <1>0, <1>3, GotoMoves DEF Audit, Places
  <2>2. work[w].kind \in {"enable", "disable"}
    BY <1>3 DEF Audit, At, TypeInv, KindsKnown
  <2>3. OnePublishes' /\ KindsKnown'
    BY <1>0, <1>3, <2>1, <2>2, MoveKeeps DEF Audit
  <2>4. TypeOK'
    BY <1>0, <1>3, <2>1, <2>2 DEF Audit, TypeOK
  <2> QED BY <2>3, <2>4 DEF TypeInv
<1>4. CASE CommitRow(w)
  <2>1. /\ work' \in [Workers -> Work]
        /\ work'[w].pc = "invalidate"
        /\ \A v \in Workers \ {w} : work'[v] = work[v]
    BY <1>0, <1>4, GotoMoves DEF CommitRow, Places
  <2>2. OnePublishes' /\ KindsKnown'
    BY <1>0, <1>4, <2>1, MoveKeeps DEF CommitRow
  <2>3. Written(w) \in Rows
    BY <1>0 DEF Written, Rows, TypeOK
  <2>4. age' \in [{"on", "off"} -> 0..Ttl] /\ may' \in [Workers -> SUBSET {"on", "off"}]
    <3>1. Enabled(Written(w)) \in {"on", "off"}
      BY <2>3, ValuePlace
    <3>2. CASE Enabled(Written(w)) = Enabled(row)
      BY <1>0, <1>4, <3>2 DEF CommitRow, Record, TypeOK
    <3>3. CASE Enabled(Written(w)) # Enabled(row)
      <4>1. /\ age' = [age EXCEPT ![Enabled(Written(w))] = 0]
            /\ may' = [v \in Workers |->
                          IF Asking(v) THEN may[v] \cup {Enabled(Written(w))} ELSE may[v]]
        BY <1>4, <3>3 DEF CommitRow, Record
      <4> QED BY <1>0, <3>1, <4>1, BoundsAssumption DEF TypeOK
    <3> QED BY <3>2, <3>3
  <2>5. TypeOK'
    BY <1>0, <1>4, <2>1, <2>3, <2>4 DEF CommitRow, TypeOK
  <2> QED BY <2>2, <2>5 DEF TypeInv
<1>5. CASE Invalidate(w)
  <2>1. /\ work' \in [Workers -> Work]
        /\ work'[w].pc = "idle"
        /\ \A v \in Workers \ {w} : work'[v] = work[v]
    BY <1>0, <1>5, FinishMoves DEF Invalidate, Idle
  <2>2. OnePublishes' /\ KindsKnown'
    BY <1>0, <1>5, <2>1, MoveKeeps DEF Invalidate
  <2>3. NoEntry \in Entry
    BY BoundsAssumption DEF NoEntry, Entry
  <2>4. TypeOK'
    BY <1>0, <1>5, <2>1, <2>3 DEF Invalidate, TypeOK
  <2> QED BY <2>2, <2>4 DEF TypeInv
<1>6. CASE Fail(w)
  <2>1. /\ work' \in [Workers -> Work]
        /\ work'[w].pc = "idle"
        /\ \A v \in Workers \ {w} : work'[v] = work[v]
    BY <1>0, <1>6, FinishMoves DEF Fail, Idle
  <2>2. OnePublishes' /\ KindsKnown'
    BY <1>0, <1>6, <2>1, MoveKeeps DEF Fail
  <2>3. TypeOK'
    BY <1>0, <1>6, <2>1 DEF Fail, TypeOK
  <2> QED BY <2>2, <2>3 DEF TypeInv
<1> QED BY <1>1, <1>2, <1>3, <1>4, <1>5, <1>6 DEF Activation

\* The scheduler keeps the types.
LEMMA ScheduleTypes ==
    ASSUME TypeInv, NEW w \in Workers, Schedule(w)
    PROVE  TypeInv'
<1> USE DEF fixedVars, unitVars, gateVars
<1>0. TypeOK /\ queue \in 0..MaxQueue /\ work[w] \in Work
  BY DEF TypeInv, TypeOK
<1>1. CASE FanoutRead(w)
  <2>1. /\ work' \in [Workers -> Work]
        /\ work'[w].pc = "publish" /\ work'[w].kind = "fanout"
        /\ \A v \in Workers \ {w} : work'[v] = work[v]
    BY <1>0, <1>1, BeginMoves DEF FanoutRead, Kinds, Places
  <2>2. KindsKnown'
    BY <2>1 DEF TypeInv, KindsKnown
  <2>3. queue' < MaxQueue /\ \A v \in Workers : ~At(v, "publish")
    BY <1>1 DEF FanoutRead, Room
  <2>4. OnePublishes'
    BY <2>1, <2>3 DEF OnePublishes, At
  <2>5. TypeOK'
    BY <1>0, <1>1, <2>1 DEF FanoutRead, TypeOK
  <2> QED BY <2>2, <2>4, <2>5 DEF TypeInv
<1>2. CASE Publish(w)
  <2>1. /\ work' \in [Workers -> Work]
        /\ work'[w].pc = "idle"
        /\ \A v \in Workers \ {w} : work'[v] = work[v]
    BY <1>0, <1>2, FinishMoves DEF Publish, Idle
  <2>2. queue < MaxQueue /\ \A v \in Workers \ {w} : ~At(v, "publish")
    BY <1>2 DEF Publish, TypeInv, OnePublishes
  <2>3. queue' \in 0..MaxQueue
    BY <1>0, <1>2, <2>2, BoundsAssumption DEF Publish
  <2>4. OnePublishes' /\ KindsKnown'
    BY <2>1, <2>2, <2>3, MoveKeeps
  <2>5. TypeOK'
    BY <1>0, <1>2, <2>1, <2>3 DEF Publish, TypeOK
  <2> QED BY <2>4, <2>5 DEF TypeInv
<1>3. CASE UnitTake(w)
  <2>1. queue' \in 0..MaxQueue /\ queue' <= queue
    BY <1>0, <1>3, BoundsAssumption DEF UnitTake
  <2>2. CASE TenantOk
    <3>1. /\ work' \in [Workers -> Work]
          /\ work'[w].pc = "acquire"
          /\ \A v \in Workers \ {w} : work'[v] = work[v]
      BY <1>0, <1>3, <2>2, BeginMoves DEF UnitTake, Kinds, Places
    <3>2. OnePublishes' /\ KindsKnown'
      BY <2>1, <3>1, MoveKeeps
    <3>3. TypeOK'
      BY <1>0, <1>3, <2>1, <3>1 DEF UnitTake, TypeOK
    <3> QED BY <3>2, <3>3 DEF TypeInv
  <2>3. CASE ~TenantOk
    <3>1. At(w, "idle") /\ UNCHANGED work
      BY <1>3, <2>3 DEF UnitTake
    <3>2. OnePublishes' /\ KindsKnown'
      BY <1>0, <2>1, <3>1, MoveKeeps DEF TypeOK, At
    <3>3. TypeOK'
      BY <1>0, <1>3, <2>1, <3>1 DEF UnitTake, TypeOK
    <3> QED BY <3>2, <3>3 DEF TypeInv
  <2> QED BY <2>2, <2>3
<1>4. CASE UnitAcquire(w) \/ UnitDone(w) \/ UnitFails(w)
  <2>1. PICK p \in {"run", "release"} : Goto(w, p)
    BY <1>4 DEF UnitAcquire, UnitDone, UnitFails
  <2>2. /\ work' \in [Workers -> Work]
        /\ work'[w].pc = p
        /\ \A v \in Workers \ {w} : work'[v] = work[v]
    BY <1>0, <2>1, GotoMoves DEF Places
  <2>3. UNCHANGED <<fixedVars, row, logged, cache, queue, overrun, gateVars>>
    BY <1>4 DEF UnitAcquire, UnitDone, UnitFails
  <2>4. OnePublishes' /\ KindsKnown'
    BY <1>0, <2>2, <2>3, MoveKeeps
  <2>5. lock' = lock \/ lock' = w
    BY <1>4 DEF UnitAcquire, UnitDone, UnitFails, Take
  <2>6. TypeOK'
    BY <1>0, <2>2, <2>3, <2>5 DEF TypeOK
  <2> QED BY <2>4, <2>6 DEF TypeInv
<1>5. CASE UnitSkip(w) \/ ReleaseGet(w) \/ ReleaseDelete(w)
  <2>1. /\ work' \in [Workers -> Work]
        /\ work'[w].pc \in {"idle", "delete"}
        /\ \A v \in Workers \ {w} : work'[v] = work[v]
    <3>1. CASE Finish(w)
      BY <1>0, <3>1, FinishMoves DEF Idle
    <3>2. CASE Goto(w, "delete")
      BY <1>0, <3>2, GotoMoves DEF Places
    <3> QED BY <1>5, <3>1, <3>2 DEF UnitSkip, ReleaseGet, ReleaseDelete
  <2>2. UNCHANGED <<fixedVars, row, logged, cache, queue, overrun, gateVars>>
    BY <1>5 DEF UnitSkip, ReleaseGet, ReleaseDelete
  <2>3. OnePublishes' /\ KindsKnown'
    BY <1>0, <2>1, <2>2, MoveKeeps
  <2>4. lock' = lock \/ lock' = "free"
    BY <1>5 DEF UnitSkip, ReleaseGet, ReleaseDelete
  <2>5. TypeOK'
    BY <1>0, <2>1, <2>2, <2>4 DEF TypeOK
  <2> QED BY <2>3, <2>5 DEF TypeInv
<1> QED BY <1>1, <1>2, <1>3, <1>4, <1>5 DEF Schedule

\* Time, locks, crashes and the tenant's deletion keep the types.
LEMMA EnvironmentTypes ==
    ASSUME TypeInv, Tick \/ LockExpires \/ DeleteTenant \/ \E p \in Processes : Crash(p)
    PROVE  TypeInv'
<1> USE DEF fixedVars, unitVars, gateVars
<1>0. TypeOK /\ queue \in 0..MaxQueue
  BY DEF TypeInv, TypeOK
<1>1. CASE Tick
  <2>1. \A n \in 0..Ttl : Aged(n) \in 0..Ttl
    BY BoundsAssumption DEF Aged
  <2>2. \A r \in Work : [r EXCEPT !.left = Aged(@)] \in Work
    BY <2>1 DEF Work
  <2>3. \A e \in Entry : [e EXCEPT !.left = Aged(@)] \in Entry
    BY <2>1 DEF Entry
  <2>4. /\ work' \in [Workers -> Work]
        /\ \A v \in Workers : work'[v].pc = work[v].pc /\ work'[v].kind = work[v].kind
    <3>1. work' = [v \in Workers |-> [work[v] EXCEPT !.left = Aged(@)]]
      BY <1>1 DEF Tick
    <3> QED BY <1>0, <2>2, <3>1 DEF TypeOK, Work
  <2>5. cache' \in [Processes -> Entry]
    BY <1>0, <1>1, <2>3 DEF Tick, TypeOK
  <2>6. age' \in [{"on", "off"} -> 0..Ttl]
    <3>1. age' = [v \in {"on", "off"} |->
                     IF v # Enabled(row) /\ age[v] < Ttl THEN age[v] + 1 ELSE age[v]]
      BY <1>1 DEF Tick
    <3> QED BY <1>0, <3>1, BoundsAssumption DEF TypeOK
  <2>7. TypeOK'
    BY <1>0, <1>1, <2>4, <2>5, <2>6 DEF Tick, TypeOK
  <2>8. queue' = queue
    BY <1>1 DEF Tick
  <2>9. OnePublishes' /\ KindsKnown'
    BY <2>4, <2>8 DEF TypeInv, OnePublishes, KindsKnown, At
  <2> QED BY <2>7, <2>9 DEF TypeInv
<1>2. CASE LockExpires \/ DeleteTenant
  <2>1. TypeOK'
    BY <1>0, <1>2 DEF LockExpires, DeleteTenant, TypeOK
  <2>2. work' = work /\ queue' = queue
    BY <1>2 DEF LockExpires, DeleteTenant
  <2>3. OnePublishes' /\ KindsKnown'
    BY <2>2 DEF TypeInv, OnePublishes, KindsKnown, At
  <2> QED BY <2>1, <2>3 DEF TypeInv
<1>3. ASSUME NEW p \in Processes, Crash(p) PROVE TypeInv'
  <2> DEFINE dead == {w \in Workers : Home(w) = p}
  <2>1. /\ work' = [w \in Workers |-> IF w \in dead THEN Idle ELSE work[w]]
        /\ may' = [w \in Workers |-> IF w \in dead THEN {} ELSE may[w]]
        /\ cache' = [cache EXCEPT ![p] = NoEntry]
        /\ lock' = IF lock \in dead THEN "orphan" ELSE lock
        /\ crashes < MaxCrashes /\ crashes' = crashes + 1
        /\ UNCHANGED <<crew, active, row, logged, queue, overrun, age>>
    BY <1>3 DEF Crash
  <2> HIDE DEF dead
  <2>2. work' \in [Workers -> Work] /\ \A v \in Workers : work'[v] \in {Idle, work[v]}
    BY <1>0, <2>1, IdleType DEF TypeOK
  <2>3. NoEntry \in Entry
    BY BoundsAssumption DEF NoEntry, Entry
  <2>4. cache' \in [Processes -> Entry] /\ may' \in [Workers -> SUBSET {"on", "off"}]
    BY <1>0, <2>1, <2>3 DEF TypeOK
  <2>5. crashes' \in 0..MaxCrashes
    BY <1>0, <2>1, BoundsAssumption DEF TypeOK
  <2>6. TypeOK'
    BY <1>0, <2>1, <2>2, <2>4, <2>5 DEF TypeOK
  <2>7. Idle.pc = "idle"
    BY DEF Idle
  <2>8. OnePublishes' /\ KindsKnown'
    BY <2>1, <2>2, <2>7 DEF TypeInv, OnePublishes, KindsKnown, At
  <2> QED BY <2>6, <2>8 DEF TypeInv
<1> QED BY <1>1, <1>2, <1>3

\* The inductive invariant holds.
LEMMA TypeInvariant == Spec => []TypeInv
<1>1. Init => TypeInv
  <2> SUFFICES ASSUME Init PROVE TypeInv
    OBVIOUS
  <2>1. NoEntry \in Entry
    BY BoundsAssumption DEF NoEntry, Entry
  <2>2. work = [w \in Workers |-> Idle] /\ work \in [Workers -> Work]
    BY IdleType DEF Init
  <2>3. age \in [{"on", "off"} -> 0..Ttl]
    BY BoundsAssumption DEF Init
  <2>4. cache \in [Processes -> Entry] /\ may \in [Workers -> SUBSET {"on", "off"}]
    BY <2>1 DEF Init
  <2>5. crew \in [Workers -> [jobs: SUBSET Kinds, home: Processes]]
    BY CrewsAssumption DEF Init
  <2>6. /\ row \in Rows /\ logged \subseteq {"enable", "disable"}
        /\ queue \in 0..MaxQueue /\ crashes \in 0..MaxCrashes
        /\ lock \in Workers \cup {"free", "orphan"}
    BY BoundsAssumption DEF Init, Rows
  <2>7. active \in BOOLEAN /\ overrun \in BOOLEAN
    BY DEF Init
  <2>8. TypeOK
    BY <2>2, <2>3, <2>4, <2>5, <2>6, <2>7 DEF TypeOK
  <2>9. OnePublishes /\ KindsKnown
    BY <2>2 DEF OnePublishes, KindsKnown, At, Idle
  <2> QED BY <2>8, <2>9 DEF TypeInv
<1>2. TypeInv /\ [Next]_vars => TypeInv'
  <2> SUFFICES ASSUME TypeInv, [Next]_vars PROVE TypeInv'
    OBVIOUS
  <2>1. CASE UNCHANGED vars
    BY <2>1 DEF vars, TypeInv, TypeOK, OnePublishes, KindsKnown, At
  <2> QED BY <2>1, GateTypes, ActivationTypes, ScheduleTypes, EnvironmentTypes DEF Next
<1> QED BY <1>1, <1>2, PTL DEF Spec

\* Every state of the module runtime has the types of TypeOK: the broker's bound
\* holds although the fan-out reads and publishes in two steps.
THEOREM TypeCorrect == Spec => []TypeOK
<1>1. TypeInv => TypeOK
  BY DEF TypeInv
<1> QED BY <1>1, TypeInvariant, PTL

----------------------------------------------------------------------------
(* Mutual exclusion of units                                               *)

\* As long as no lock expired under a live unit, who is between the acquisition and
\* the release holds the lock.
HoldersLock == \A w \in Workers : Holding(w) /\ ~overrun => lock = w

\* A worker that moves without becoming a holder, the lock left alone.
LEMMA MoveHolds ==
    ASSUME HoldersLock, NEW w \in Workers,
           \A v \in Workers \ {w} : work'[v] = work[v],
           Holding(w)' => Holding(w),
           UNCHANGED <<lock, overrun>>
    PROVE  HoldersLock'
  BY DEF HoldersLock, Holding

\* Requests move between places of theirs.
LEMMA GateMoves ==
    ASSUME TypeOK, NEW w \in Workers, Gate(w)
    PROVE  /\ \A v \in Workers \ {w} : work'[v] = work[v]
           /\ work'[w].pc \in {"idle", "select", "fill", "on", "off"}
           /\ UNCHANGED <<row, logged, lock, overrun, age>>
<1> USE DEF fixedVars, unitVars, gateVars
<1>0. work[w] \in Work
  BY DEF TypeOK
<1>1. CASE RequestHit(w)
  <2>1. cache[Home(w)].val \in {"on", "off"} /\ cache[Home(w)].val \in Places
    BY ValuePlace DEF TypeOK, Entry, Home
  <2> QED BY <1>1, <2>1, BeginMoves DEF RequestHit, Kinds
<1>2. CASE RequestMiss(w)
  BY <1>2 DEF RequestMiss, Lifetime, TypeOK
<1>3. CASE Select(w)
  BY <1>0, <1>3 DEF Select, TypeOK, Work
<1>4. CASE Fill(w)
  <2>1. Enabled(work[w].saw) \in {"on", "off"} /\ Enabled(work[w].saw) \in Places
    BY <1>0, ValuePlace DEF Work
  <2> QED BY <1>4, <2>1, GotoMoves DEF Fill
<1>5. CASE Refuse(w) \/ ListDigests(w) \/ RunNow(w)
  BY <1>5, FinishMoves DEF Refuse, ListDigests, RunNow, Idle
<1> QED BY <1>1, <1>2, <1>3, <1>4, <1>5 DEF Gate

\* Activations too.
LEMMA ActivationMoves ==
    ASSUME TypeOK, NEW w \in Workers, Activation(w)
    PROVE  /\ \A v \in Workers \ {w} : work'[v] = work[v]
           /\ work'[w].pc \in {"idle", "load", "audit", "commit", "invalidate"}
           /\ UNCHANGED <<lock, overrun>>
<1> USE DEF fixedVars, unitVars, gateVars
<1>0. work[w] \in Work
  BY DEF TypeOK
<1>1. CASE EnableStart(w) \/ DisableStart(w)
  BY <1>1, BeginMoves DEF EnableStart, DisableStart, Kinds, Places
<1>2. CASE LoadRow(w)
  <2>1. CASE Finish(w)
    BY <1>2, <2>1, FinishMoves DEF LoadRow, Idle
  <2>2. CASE work' = [work EXCEPT ![w].pc = "audit", ![w].saw = row]
    BY <1>0, <1>2, <2>2 DEF LoadRow, TypeOK, Work
  <2> QED BY <1>2, <2>1, <2>2 DEF LoadRow
<1>3. CASE Audit(w) \/ CommitRow(w)
  BY <1>3, GotoMoves DEF Audit, CommitRow, Places
<1>4. CASE Invalidate(w) \/ Fail(w)
  BY <1>4, FinishMoves DEF Invalidate, Fail, Idle
<1> QED BY <1>1, <1>2, <1>3, <1>4 DEF Activation

\* And so do the fan-out and the units, which leave rows and caches alone.
LEMMA ScheduleMoves ==
    ASSUME TypeOK, NEW w \in Workers, Schedule(w)
    PROVE  /\ \A v \in Workers \ {w} : work'[v] = work[v]
           /\ work[w].pc \in {"idle", "publish", "acquire", "run", "release", "delete"}
           /\ work'[w].pc \in {"idle", "publish", "acquire", "run", "release", "delete"}
           /\ UNCHANGED <<row, logged, cache, age, may>>
<1> USE DEF fixedVars, unitVars, gateVars
<1>1. CASE FanoutRead(w)
  BY <1>1, BeginMoves DEF FanoutRead, Kinds, Places
<1>2. CASE Publish(w) \/ UnitSkip(w) \/ ReleaseDelete(w)
  BY <1>2, FinishMoves DEF Publish, UnitSkip, ReleaseDelete, Idle, At
<1>3. CASE UnitTake(w)
  <2>1. CASE TenantOk
    BY <1>3, <2>1, BeginMoves DEF UnitTake, Kinds, Places
  <2>2. CASE ~TenantOk
    BY <1>3, <2>2 DEF UnitTake, At
  <2> QED BY <2>1, <2>2
<1>4. CASE UnitAcquire(w) \/ UnitDone(w) \/ UnitFails(w)
  BY <1>4, GotoMoves DEF UnitAcquire, UnitDone, UnitFails, Places, At
<1>5. CASE ReleaseGet(w)
  <2>1. CASE Goto(w, "delete")
    BY <1>5, <2>1, GotoMoves DEF ReleaseGet, Places, At
  <2>2. CASE Finish(w)
    BY <1>5, <2>2, FinishMoves DEF ReleaseGet, Idle, At
  <2> QED BY <1>5, <2>1, <2>2 DEF ReleaseGet
<1> QED BY <1>1, <1>2, <1>3, <1>4, <1>5 DEF Schedule

\* Requests and activations are not units.
LEMMA OthersHold ==
    ASSUME TypeOK, HoldersLock, NEW w \in Workers, Gate(w) \/ Activation(w)
    PROVE  HoldersLock'
<1>1. ~Holding(w)'
  BY GateMoves, ActivationMoves DEF Holding
<1> QED BY <1>1, GateMoves, ActivationMoves, MoveHolds

\* The scheduler: who acquires the lock found it free, who releases it held it.
LEMMA ScheduleHolds ==
    ASSUME TypeOK, HoldersLock, NEW w \in Workers, Schedule(w)
    PROVE  HoldersLock'
<1> USE DEF fixedVars, unitVars, gateVars
<1>1. CASE FanoutRead(w)
  <2>1. work'[w].pc = "publish" /\ \A v \in Workers \ {w} : work'[v] = work[v]
    BY <1>1, BeginMoves DEF FanoutRead, Kinds, Places
  <2>2. UNCHANGED <<lock, overrun>>
    BY <1>1 DEF FanoutRead
  <2> QED BY <2>1, <2>2, MoveHolds DEF Holding
<1>2. CASE Publish(w) \/ UnitSkip(w)
  <2>1. work'[w].pc = "idle" /\ \A v \in Workers \ {w} : work'[v] = work[v]
    BY <1>2, FinishMoves DEF Publish, UnitSkip, Idle
  <2>2. UNCHANGED <<lock, overrun>>
    BY <1>2 DEF Publish, UnitSkip
  <2> QED BY <2>1, <2>2, MoveHolds DEF Holding
<1>3. CASE UnitTake(w)
  <2>1. UNCHANGED <<lock, overrun>>
    BY <1>3 DEF UnitTake
  <2>2. CASE TenantOk
    <3>1. work'[w].pc = "acquire" /\ \A v \in Workers \ {w} : work'[v] = work[v]
      BY <1>3, <2>2, BeginMoves DEF UnitTake, Kinds, Places
    <3> QED BY <2>1, <3>1, MoveHolds DEF Holding
  <2>3. CASE ~TenantOk
    <3>1. UNCHANGED work
      BY <1>3, <2>3 DEF UnitTake
    <3> QED BY <2>1, <3>1 DEF HoldersLock, Holding
  <2> QED BY <2>2, <2>3
<1>4. CASE UnitAcquire(w)
  <2>1. work'[w].pc = "run" /\ \A v \in Workers \ {w} : work'[v] = work[v]
    BY <1>4, GotoMoves DEF UnitAcquire, Places
  <2>2. lock = "free" /\ lock' = w /\ overrun' = overrun
    BY <1>4 DEF UnitAcquire, Take
  <2>3. \A v \in Workers : v # "free"
    BY WorkersAssumption
  <2> QED BY <2>1, <2>2, <2>3 DEF HoldersLock, Holding
<1>5. CASE UnitDone(w) \/ UnitFails(w)
  <2>1. work'[w].pc = "release" /\ \A v \in Workers \ {w} : work'[v] = work[v]
    BY <1>5, GotoMoves DEF UnitDone, UnitFails, Places
  <2>2. Holding(w) /\ UNCHANGED <<lock, overrun>>
    BY <1>5 DEF UnitDone, UnitFails, Holding, At
  <2> QED BY <2>1, <2>2, MoveHolds
<1>6. CASE ReleaseGet(w)
  <2>1. \A v \in Workers \ {w} : work'[v] = work[v]
    BY <1>6, GotoMoves, FinishMoves DEF ReleaseGet, Places
  <2>2. Holding(w) /\ UNCHANGED <<lock, overrun>>
    BY <1>6 DEF ReleaseGet, Holding, At
  <2> QED BY <2>1, <2>2, MoveHolds
<1>7. CASE ReleaseDelete(w)
  <2>1. work'[w].pc = "idle" /\ \A v \in Workers \ {w} : work'[v] = work[v]
    BY <1>7, FinishMoves DEF ReleaseDelete, Idle
  <2>2. Holding(w) /\ overrun' = overrun
    BY <1>7 DEF ReleaseDelete, Holding, At
  <2>3. \A v \in Workers \ {w} : ~(Holding(v) /\ ~overrun)
    BY <2>2 DEF HoldersLock
  <2> QED BY <2>1, <2>2, <2>3 DEF HoldersLock, Holding
<1> QED BY <1>1, <1>2, <1>3, <1>4, <1>5, <1>6, <1>7 DEF Schedule

\* The environment: a lock that expires under a holder is an overrun, a process that
\* dies takes its holders with it.
LEMMA EnvironmentHolds ==
    ASSUME TypeOK, HoldersLock, Tick \/ LockExpires \/ DeleteTenant \/ \E p \in Processes : Crash(p)
    PROVE  HoldersLock'
<1> USE DEF fixedVars, unitVars, gateVars
<1>1. CASE Tick
  <2>1. \A v \in Workers : work'[v].pc = work[v].pc
    BY <1>1 DEF Tick, TypeOK, Work
  <2>2. UNCHANGED <<lock, overrun>>
    BY <1>1 DEF Tick
  <2> QED BY <2>1, <2>2 DEF HoldersLock, Holding
<1>2. CASE LockExpires
  <2>1. work' = work /\ overrun' = (overrun \/ lock \in Workers)
    BY <1>2 DEF LockExpires
  <2>2. ASSUME NEW w \in Workers, Holding(w), ~overrun PROVE lock \in Workers
    BY <2>2 DEF HoldersLock
  <2> QED BY <2>1, <2>2 DEF HoldersLock, Holding
<1>3. CASE DeleteTenant
  BY <1>3 DEF DeleteTenant, HoldersLock, Holding
<1>4. ASSUME NEW p \in Processes, Crash(p) PROVE HoldersLock'
  <2> DEFINE dead == {w \in Workers : Home(w) = p}
  <2>1. /\ work' = [w \in Workers |-> IF w \in dead THEN Idle ELSE work[w]]
        /\ lock' = IF lock \in dead THEN "orphan" ELSE lock
        /\ overrun' = overrun
    BY <1>4 DEF Crash
  <2> HIDE DEF dead
  <2>2. ASSUME NEW v \in Workers, Holding(v)' PROVE v \notin dead /\ Holding(v)
    BY <2>1, <2>2 DEF Holding, Idle
  <2> QED BY <2>1, <2>2 DEF HoldersLock
<1> QED BY <1>1, <1>2, <1>3, <1>4

\* The scheduler's lock: whatever the number of Celery workers, of crashes and of
\* releases by a GET and a DELETE, two units overlap only after a lock expired under
\* a live unit (run_periodic_unit, acquire_lock, release_lock).
THEOREM UnitsAreExclusive == Spec => []UnitsExclusive
<1>1. Init => HoldersLock
  BY DEF Init, HoldersLock, Holding, Idle
<1>2. TypeOK /\ HoldersLock /\ [Next]_vars => HoldersLock'
  <2> SUFFICES ASSUME TypeOK, HoldersLock, [Next]_vars PROVE HoldersLock'
    OBVIOUS
  <2>1. CASE UNCHANGED vars
    BY <2>1 DEF vars, HoldersLock, Holding
  <2> QED BY <2>1, OthersHold, ScheduleHolds, EnvironmentHolds DEF Next
<1>3. HoldersLock => UnitsExclusive
  BY DEF HoldersLock, UnitsExclusive
<1> QED BY <1>1, <1>2, <1>3, TypeCorrect, PTL DEF Spec

----------------------------------------------------------------------------
(* The audit of activations                                                *)

\* Who is about to commit has logged what it does, besides what the row shows.
LoggedInv ==
    /\ ActivationLogged
    /\ \A w \in Workers : At(w, "commit") => work[w].kind \in logged

\* Steps that leave the row and the log alone, and bring nobody to the commit.
LEMMA QuietLogged ==
    ASSUME LoggedInv, UNCHANGED <<row, logged>>,
           \A w \in Workers : At(w, "commit")' => At(w, "commit") /\ work'[w].kind = work[w].kind
    PROVE  LoggedInv'
  BY DEF LoggedInv, ActivationLogged

\* An activation: what the row comes to show was logged before.
LEMMA ActivationKeepsLog ==
    ASSUME TypeInv, LoggedInv, NEW w \in Workers, Activation(w)
    PROVE  LoggedInv'
<1> USE DEF fixedVars, unitVars, gateVars
<1>0. TypeOK /\ \A v \in Workers \ {w} : work'[v] = work[v]
  BY ActivationMoves DEF TypeInv
<1>1. CASE Audit(w)
  <2>1. work'[w].kind = work[w].kind
    BY <1>0, <1>1, GotoMoves DEF Audit, Places
  <2>2. logged' = logged \cup {work[w].kind} /\ row' = row
    BY <1>1 DEF Audit
  <2>3. \A v \in Workers : At(v, "commit")' => work'[v].kind \in logged'
    BY <1>0, <2>1, <2>2 DEF LoggedInv, At
  <2> QED BY <2>2, <2>3 DEF LoggedInv, ActivationLogged
<1>2. CASE CommitRow(w)
  <2>1. work'[w].pc = "invalidate"
    BY <1>0, <1>2, GotoMoves DEF CommitRow, Places
  <2>2. row' = Written(w) /\ logged' = logged
    BY <1>2 DEF CommitRow
  <2>3. work[w].kind \in {"enable", "disable"} /\ work[w].kind \in logged
    BY <1>2 DEF CommitRow, At, TypeInv, KindsKnown, LoggedInv
  <2>4. ActivationLogged'
    BY <2>2, <2>3 DEF Written, LoggedInv, ActivationLogged
  <2>5. \A v \in Workers : At(v, "commit")' => work'[v].kind \in logged'
    BY <1>0, <2>1, <2>2 DEF LoggedInv, At
  <2> QED BY <2>4, <2>5 DEF LoggedInv
<1>3. CASE EnableStart(w) \/ DisableStart(w)
  <2>1. work'[w].pc = "load" /\ UNCHANGED <<row, logged>>
    BY <1>0, <1>3, BeginMoves DEF EnableStart, DisableStart, Kinds, Places
  <2> QED BY <1>0, <2>1, QuietLogged DEF At
<1>4. CASE LoadRow(w)
  <2>1. UNCHANGED <<row, logged>>
    BY <1>4 DEF LoadRow
  <2>2. work'[w].pc \in {"idle", "audit"}
    <3>1. CASE Finish(w)
      BY <1>0, <3>1, FinishMoves DEF Idle
    <3>2. CASE work' = [work EXCEPT ![w].pc = "audit", ![w].saw = row]
      BY <1>0, <3>2 DEF TypeOK, Work
    <3> QED BY <1>4, <3>1, <3>2 DEF LoadRow
  <2> QED BY <1>0, <2>1, <2>2, QuietLogged DEF At
<1>5. CASE Invalidate(w) \/ Fail(w)
  <2>1. work'[w].pc = "idle" /\ UNCHANGED <<row, logged>>
    BY <1>0, <1>5, FinishMoves DEF Invalidate, Fail, Idle
  <2> QED BY <1>0, <2>1, QuietLogged DEF At
<1> QED BY <1>1, <1>2, <1>3, <1>4, <1>5 DEF Activation

\* Whatever activations and deactivations race, fail or die, and whatever a stale read
\* makes the ORM write, the state that the row shows has its audit event (enable_module
\* and disable_module commit the event before the action).
THEOREM ActivationsAreLogged == Spec => []ActivationLogged
<1> USE DEF fixedVars, unitVars, gateVars
<1>1. Init => LoggedInv
  BY DEF Init, LoggedInv, ActivationLogged, At, Idle
<1>2. TypeInv /\ LoggedInv /\ [Next]_vars => LoggedInv'
  <2> SUFFICES ASSUME TypeInv, LoggedInv, [Next]_vars PROVE LoggedInv'
    OBVIOUS
  <2>0. TypeOK
    BY DEF TypeInv
  <2>1. ASSUME NEW w \in Workers, Gate(w) PROVE LoggedInv'
    BY <2>0, <2>1, GateMoves, QuietLogged DEF At
  <2>2. ASSUME NEW w \in Workers, Schedule(w) PROVE LoggedInv'
    BY <2>0, <2>2, ScheduleMoves, QuietLogged DEF At
  <2>3. CASE Tick
    <3>1. \A v \in Workers : work'[v].pc = work[v].pc /\ work'[v].kind = work[v].kind
      BY <2>0, <2>3 DEF Tick, TypeOK, Work
    <3>2. UNCHANGED <<row, logged>>
      BY <2>3 DEF Tick
    <3> QED BY <3>1, <3>2, QuietLogged DEF At
  <2>4. CASE LockExpires \/ DeleteTenant \/ UNCHANGED vars
    <3>1. UNCHANGED <<row, logged, work>>
      BY <2>4 DEF LockExpires, DeleteTenant, vars
    <3> QED BY <3>1, QuietLogged DEF At
  <2>5. ASSUME NEW p \in Processes, Crash(p) PROVE LoggedInv'
    <3>1. UNCHANGED <<row, logged>> /\ \A v \in Workers : work'[v] \in {Idle, work[v]}
      BY <2>5 DEF Crash
    <3> QED BY <3>1, QuietLogged DEF At, Idle
  <2> QED BY <2>1, <2>2, <2>3, <2>4, <2>5, ActivationKeepsLog DEF Next
<1>3. LoggedInv => ActivationLogged
  BY DEF LoggedInv
<1> QED BY <1>1, <1>2, <1>3, TypeInvariant, PTL DEF Spec

----------------------------------------------------------------------------
(* The gate implements its promise                                         *)

\* An answer that may still be given for this long is no older than Ttl until then.
Fresh(v, left) == left > 0 => age[v] + left <= Ttl

RowIsNow == age[Enabled(row)] = 0

CachesFresh == \A p \in Processes : Fresh(cache[p].val, cache[p].left)

\* What a request has read may be answered, and cached for the time it has left.
FillsFresh ==
    \A w \in Workers : At(w, "fill") =>
        Enabled(work[w].saw) \in may[w] /\ Fresh(Enabled(work[w].saw), work[w].left)

PendingMay == \A w \in Workers : IF Asking(w) THEN Enabled(row) \in may[w] ELSE may[w] = {}

\* The invariant under which every step of the runtime is a step of ModuleGate or none:
\* the age of what a cache holds and the time it has left never add up to more than Ttl.
GateInv == RowIsNow /\ CachesFresh /\ FillsFresh /\ PendingMay

InGate(w) == work[w].pc \in {"select", "fill", "on", "off"}

Where == [w \in Workers |-> Stage(work[w].pc)]

Maps == Promise!GateNext \/ UNCHANGED Promise!gateVars

\* One worker moves: its stage does.
LEMMA WhereMoves ==
    ASSUME NEW w \in Workers, \A v \in Workers \ {w} : work'[v] = work[v]
    PROVE  Where' = [Where EXCEPT ![w] = Stage(work'[w].pc)]
  BY DEF Where

\* Steps outside the gate, which at most empty caches.
LEMMA OutsideGate ==
    ASSUME TypeOK, GateInv, UNCHANGED <<row, age, may>>,
           \A p \in Processes : cache'[p] = cache[p] \/ cache'[p] = NoEntry,
           \A v \in Workers : work'[v] = work[v] \/ (~InGate(v) /\ ~InGate(v)')
    PROVE  GateInv' /\ Maps
<1>1. RowIsNow'
  BY DEF GateInv, RowIsNow
<1>2. CachesFresh'
  BY DEF GateInv, CachesFresh, Fresh, NoEntry
<1>3. FillsFresh'
  BY DEF GateInv, FillsFresh, Fresh, At, InGate
<1>4. PendingMay'
  BY DEF GateInv, PendingMay, Asking, InGate
<1>5. \A v \in Workers : Stage(work[v].pc)' = Stage(work[v].pc)
  BY DEF Stage, InGate
<1>6. UNCHANGED Promise!gateVars
  BY <1>5 DEF Promise!gateVars
<1> QED BY <1>1, <1>2, <1>3, <1>4, <1>6 DEF GateInv, Maps

\* The requests.
LEMMA GatePromise ==
    ASSUME TypeOK, GateInv, NEW w \in Workers, Gate(w)
    PROVE  GateInv' /\ Maps
<1> USE DEF fixedVars, unitVars, gateVars
<1>0. /\ \A v \in Workers \ {w} : work'[v] = work[v]
      /\ row' = row /\ age' = age /\ work[w] \in Work /\ Home(w) \in Processes
      /\ row \in Rows /\ age \in [{"on", "off"} -> 0..Ttl] /\ Ttl \in Nat \ {0}
  BY GateMoves, BoundsAssumption DEF TypeOK, Home
<1>1. RowIsNow'
  BY <1>0 DEF GateInv, RowIsNow
<1>2. Where' = [Where EXCEPT ![w] = Stage(work'[w].pc)]
  BY <1>0, WhereMoves
<1>3. CASE RequestHit(w)
  <2> DEFINE v == cache[Home(w)].val
  <2>1. v \in {"on", "off"} /\ cache[Home(w)].left \in 1..Ttl /\ UNCHANGED <<cache, may>>
    BY <1>0, <1>3 DEF RequestHit, TypeOK, Entry
  <2>2. At(w, "idle") /\ work'[w].pc = v
    BY <1>3, <2>1, BeginMoves, ValuePlace DEF RequestHit, Kinds, At
  <2>3. v \in Promise!Recent
    BY <1>0, <2>1 DEF GateInv, CachesFresh, Fresh, Promise!Recent, Promise!Values
  <2>4. CachesFresh' /\ FillsFresh' /\ PendingMay'
    BY <1>0, <2>1, <2>2 DEF GateInv, CachesFresh, FillsFresh, PendingMay, Fresh, At, Asking
  <2>5. Promise!AnswerAtOnce(w, v)
    BY <1>0, <1>2, <2>1, <2>2, <2>3 DEF Promise!AnswerAtOnce, Where, Stage, At
  <2>6. Promise!GateNext
    BY <2>1, <2>5 DEF Promise!GateNext, Promise!Values
  <2> QED BY <1>1, <2>4, <2>6 DEF GateInv, Maps
<1>4. CASE RequestMiss(w)
  <2>1. /\ At(w, "idle") /\ work'[w].pc = "select" /\ cache' = cache
        /\ may' = [may EXCEPT ![w] = {v \in {"on", "off"} : age[v] < Ttl}]
        /\ may \in [Workers -> SUBSET {"on", "off"}]
    BY <1>4 DEF RequestMiss, Lifetime, TypeOK
  <2>2. Enabled(row) \in may'[w]
    BY <1>0, <2>1, ValuePlace DEF GateInv, RowIsNow
  <2>3. CachesFresh' /\ FillsFresh' /\ PendingMay'
    BY <1>0, <2>1, <2>2 DEF GateInv, CachesFresh, FillsFresh, PendingMay, Fresh, At, Asking
  <2>4. Promise!Ask(w)
    BY <1>0, <1>2, <2>1 DEF Promise!Ask, Promise!Recent, Promise!Values, Where, Stage, At
  <2> QED BY <1>1, <2>3, <2>4 DEF GateInv, Maps, Promise!GateNext
<1>5. CASE Select(w)
  <2>1. /\ At(w, "select") /\ work'[w].pc = "fill" /\ work'[w].saw = row
        /\ work'[w].left = work[w].left /\ work[w].left \in 0..Ttl
        /\ UNCHANGED <<cache, may>>
    BY <1>0, <1>5 DEF Select, TypeOK, Work
  <2>2. Enabled(row) \in may[w]
    BY <2>1 DEF GateInv, PendingMay, At, Asking
  <2>3. CachesFresh' /\ PendingMay'
    BY <1>0, <2>1, <2>2 DEF GateInv, CachesFresh, PendingMay, Fresh, At, Asking
  <2>4. FillsFresh'
    BY <1>0, <2>1, <2>2 DEF GateInv, RowIsNow, FillsFresh, Fresh, At
  <2>5. Where' = Where
    BY <1>0, <1>2, <2>1 DEF Where, Stage, At
  <2>6. UNCHANGED Promise!gateVars
    BY <1>0, <2>1, <2>5 DEF Promise!gateVars, Where
  <2> QED BY <1>1, <2>3, <2>4, <2>6 DEF GateInv, Maps
<1>6. CASE Fill(w)
  <2> DEFINE v == Enabled(work[w].saw)
  <2>1. v \in {"on", "off"} /\ work[w].left \in 0..Ttl
    BY <1>0, ValuePlace DEF Work
  <2>2. At(w, "fill") /\ work'[w].pc = v
    BY <1>6, <2>1, GotoMoves, ValuePlace DEF Fill
  <2>3. /\ cache' = [cache EXCEPT ![Home(w)] = [val |-> v, left |-> work[w].left]]
        /\ may' = [may EXCEPT ![w] = {}]
        /\ cache \in [Processes -> Entry] /\ may \in [Workers -> SUBSET {"on", "off"}]
    BY <1>6 DEF Fill, TypeOK
  <2>4. v \in may[w] /\ Fresh(v, work[w].left)
    BY <2>2 DEF GateInv, FillsFresh
  <2> HIDE DEF v
  <2>5. CachesFresh'
    BY <1>0, <2>1, <2>3, <2>4 DEF GateInv, CachesFresh, Fresh
  <2>6. FillsFresh' /\ PendingMay'
    BY <1>0, <2>1, <2>2, <2>3 DEF GateInv, FillsFresh, PendingMay, Fresh, At, Asking
  <2>7. Promise!Answer(w, v)
    BY <1>0, <1>2, <2>1, <2>2, <2>3, <2>4 DEF Promise!Answer, Where, Stage, At
  <2>8. Promise!GateNext
    BY <2>1, <2>7 DEF Promise!GateNext, Promise!Values
  <2> QED BY <1>1, <2>5, <2>6, <2>8 DEF GateInv, Maps
<1>7. CASE Refuse(w) \/ ListDigests(w) \/ RunNow(w)
  <2>1. /\ At(w, "off") \/ At(w, "on")
        /\ work'[w].pc = "idle" /\ UNCHANGED <<cache, may>>
    BY <1>7, FinishMoves DEF Refuse, ListDigests, RunNow, Idle
  <2>2. CachesFresh' /\ FillsFresh' /\ PendingMay'
    BY <1>0, <2>1 DEF GateInv, CachesFresh, FillsFresh, PendingMay, Fresh, At, Asking
  <2>3. may[w] = {}
    BY <2>1 DEF GateInv, PendingMay, At, Asking
  <2>4. Promise!Leave({w})
    BY <1>0, <1>2, <2>1, <2>3 DEF Promise!Leave, Where, Stage, TypeOK
  <2> QED BY <1>1, <2>2, <2>4 DEF GateInv, Maps, Promise!GateNext
<1> QED BY <1>3, <1>4, <1>5, <1>6, <1>7 DEF Gate

\* Activations: a commit that changes the value is a switch, the rest is outside or
\* a request that fails.
LEMMA ActivationPromise ==
    ASSUME TypeInv, GateInv, NEW w \in Workers, Activation(w)
    PROVE  GateInv' /\ Maps
<1> USE DEF fixedVars, unitVars, gateVars
<1>0. /\ TypeOK /\ \A v \in Workers \ {w} : work'[v] = work[v]
      /\ work'[w].pc \in {"idle", "load", "audit", "commit", "invalidate"}
      /\ row \in Rows /\ age \in [{"on", "off"} -> 0..Ttl] /\ Ttl \in Nat \ {0}
      /\ cache \in [Processes -> Entry] /\ may \in [Workers -> SUBSET {"on", "off"}]
  BY ActivationMoves, BoundsAssumption DEF TypeInv, TypeOK
<1>1. Where' = [Where EXCEPT ![w] = "idle"]
  BY <1>0, WhereMoves DEF Stage
<1>2. CASE EnableStart(w) \/ DisableStart(w) \/ LoadRow(w) \/ Audit(w) \/ Invalidate(w)
  <2>1. UNCHANGED <<row, age, may>>
    BY <1>2 DEF EnableStart, DisableStart, LoadRow, Audit, Invalidate
  <2>2. work[w].pc \in {"idle", "load", "audit", "invalidate"}
    BY <1>2 DEF EnableStart, DisableStart, LoadRow, Audit, Invalidate, Begin, At
  <2>3. \A p \in Processes : cache'[p] = cache[p] \/ cache'[p] = NoEntry
    BY <1>0, <1>2 DEF EnableStart, DisableStart, LoadRow, Audit, Invalidate
  <2> QED BY <1>0, <2>1, <2>2, <2>3, OutsideGate DEF InGate
<1>3. CASE CommitRow(w)
  <2>1. /\ At(w, "commit") /\ row' = Written(w) /\ Record(Written(w)) /\ cache' = cache
        /\ work'[w].pc = "invalidate"
    BY <1>0, <1>3, GotoMoves DEF CommitRow, Places
  <2>2. Enabled(row) \in {"on", "off"} /\ Enabled(row)' \in {"on", "off"}
    BY <1>0, <2>1, ValuePlace DEF Written, Rows
  <2>3. Where' = Where
    BY <1>0, <1>1, <2>1 DEF Where, Stage, At
  <2>4. CASE Enabled(row)' = Enabled(row)
    <3>1. UNCHANGED <<age, may>>
      BY <2>1, <2>4 DEF Record, Enabled
    <3>2. RowIsNow' /\ CachesFresh' /\ FillsFresh' /\ PendingMay'
      BY <1>0, <2>1, <2>4, <3>1
         DEF GateInv, RowIsNow, CachesFresh, FillsFresh, PendingMay, Fresh, At, Asking
    <3>3. UNCHANGED Promise!gateVars
      BY <2>3, <2>4, <3>1 DEF Promise!gateVars, Where
    <3> QED BY <3>2, <3>3 DEF GateInv, Maps
  <2>5. CASE Enabled(row)' # Enabled(row)
    <3> DEFINE new == Enabled(row)'
    <3>1. /\ age' = [age EXCEPT ![new] = 0]
          /\ may' = [v \in Workers |-> IF Asking(v) THEN may[v] \cup {new} ELSE may[v]]
      BY <2>1, <2>5 DEF Record, Enabled
    <3>2. \A v \in {"on", "off"} : age'[v] \in 0..Ttl /\ age'[v] <= age[v]
      BY <1>0, <2>2, <3>1
    <3>3. RowIsNow'
      BY <1>0, <2>2, <3>1 DEF RowIsNow
    <3>4. CachesFresh'
      BY <1>0, <2>1, <3>2 DEF GateInv, CachesFresh, Fresh, Entry
    <3>5. FillsFresh'
      <4> SUFFICES ASSUME NEW v \in Workers, At(v, "fill")'
                   PROVE  /\ Enabled(work'[v].saw) \in may'[v]
                          /\ Fresh(Enabled(work[v].saw), work[v].left)'
        BY DEF FillsFresh, Enabled
      <4>1. v # w /\ work'[v] = work[v] /\ work[v] \in Work
        BY <1>0, <2>1 DEF At, TypeOK
      <4>2. /\ Enabled(work[v].saw) \in may[v] /\ Fresh(Enabled(work[v].saw), work[v].left)
            /\ Enabled(work[v].saw) \in {"on", "off"} /\ work[v].left \in 0..Ttl
        BY <4>1, ValuePlace DEF GateInv, FillsFresh, At, Work
      <4>3. Fresh(Enabled(work[v].saw), work[v].left)'
        BY <1>0, <3>2, <4>1, <4>2 DEF Fresh, Enabled
      <4> QED BY <3>1, <4>1, <4>2, <4>3
    <3>6. PendingMay'
      BY <1>0, <2>1, <3>1 DEF GateInv, PendingMay, At, Asking
    <3>7. \A v \in Workers : Asking(v) <=> Where[v] = "asked"
      BY DEF Where, Stage, Asking
    <3>8. Promise!Switch(new)
      BY <2>3, <2>5, <3>1, <3>7 DEF Promise!Switch, Where
    <3>9. Promise!GateNext
      BY <2>2, <3>8 DEF Promise!GateNext, Promise!Values
    <3> QED BY <3>3, <3>4, <3>5, <3>6, <3>9 DEF GateInv, Maps
  <2> QED BY <2>4, <2>5
<1>4. CASE Fail(w)
  <2>1. /\ UNCHANGED <<row, age, cache>> /\ may' = [may EXCEPT ![w] = {}]
        /\ work'[w].pc = "idle"
    BY <1>0, <1>4, FinishMoves DEF Fail, Idle
  <2>2. RowIsNow' /\ CachesFresh' /\ FillsFresh' /\ PendingMay'
    BY <1>0, <2>1 DEF GateInv, RowIsNow, CachesFresh, FillsFresh, PendingMay, Fresh, At, Asking
  <2>3. Promise!Leave({w})
    BY <1>0, <1>1, <2>1 DEF Promise!Leave, Where
  <2> QED BY <2>2, <2>3 DEF GateInv, Maps, Promise!GateNext
<1> QED BY <1>2, <1>3, <1>4 DEF Activation

\* Time: what a cache gains in age it loses in time left.
LEMMA TickPromise ==
    ASSUME TypeInv, GateInv, Tick
    PROVE  GateInv' /\ Maps
<1> USE DEF fixedVars, unitVars, gateVars
<1>0. /\ row \in Rows /\ age \in [{"on", "off"} -> 0..Ttl] /\ Ttl \in Nat \ {0}
      /\ cache \in [Processes -> Entry] /\ work \in [Workers -> Work]
      /\ Enabled(row) \in {"on", "off"}
  BY BoundsAssumption, ValuePlace DEF TypeInv, TypeOK
<1>1. /\ row' = row /\ may' = may
      /\ age' = [v \in {"on", "off"} |->
                    IF v # Enabled(row) /\ age[v] < Ttl THEN age[v] + 1 ELSE age[v]]
  BY DEF Tick
<1>2. \A w \in Workers : /\ work'[w].pc = work[w].pc /\ work'[w].saw = work[w].saw
                         /\ work'[w].left = Aged(work[w].left)
  BY <1>0 DEF Tick, Work
<1>3. \A p \in Processes : cache'[p].val = cache[p].val /\ cache'[p].left = Aged(cache[p].left)
  BY <1>0 DEF Tick, Entry
<1>4. ASSUME NEW v \in {"on", "off"}, NEW n \in 0..Ttl, Fresh(v, n)
      PROVE  Aged(n) > 0 => age'[v] + Aged(n) <= Ttl
  <2>1. age[v] \in 0..Ttl /\ age'[v] \in 0..Ttl /\ age'[v] <= age[v] + 1
    BY <1>0, <1>1
  <2> QED BY <1>0, <1>4, <2>1 DEF Fresh, Aged
<1>5. RowIsNow'
  BY <1>0, <1>1 DEF GateInv, RowIsNow
<1>6. CachesFresh'
  <2> SUFFICES ASSUME NEW p \in Processes PROVE Fresh(cache[p].val, cache[p].left)'
    BY DEF CachesFresh
  <2>1. cache[p].val \in {"on", "off"} /\ cache[p].left \in 0..Ttl
    BY <1>0 DEF Entry
  <2>2. Fresh(cache[p].val, cache[p].left)
    BY DEF GateInv, CachesFresh
  <2>3. Aged(cache[p].left) > 0 => age'[cache[p].val] + Aged(cache[p].left) <= Ttl
    BY <1>4, <2>1, <2>2
  <2> QED BY <1>3, <2>3 DEF Fresh
<1>7. FillsFresh'
  <2> SUFFICES ASSUME NEW w \in Workers, At(w, "fill")'
               PROVE  /\ Enabled(work'[w].saw) \in may'[w]
                      /\ Fresh(Enabled(work[w].saw), work[w].left)'
    BY DEF FillsFresh, Enabled
  <2>1. At(w, "fill") /\ Enabled(work[w].saw) \in {"on", "off"} /\ work[w].left \in 0..Ttl
    BY <1>0, <1>2, ValuePlace DEF At, Work
  <2>2. Enabled(work[w].saw) \in may[w] /\ Fresh(Enabled(work[w].saw), work[w].left)
    BY <2>1 DEF GateInv, FillsFresh
  <2>3. Aged(work[w].left) > 0 => age'[Enabled(work[w].saw)] + Aged(work[w].left) <= Ttl
    BY <1>4, <2>1, <2>2
  <2> QED BY <1>1, <1>2, <2>2, <2>3 DEF Fresh, Enabled
<1>8. PendingMay'
  BY <1>1, <1>2 DEF GateInv, PendingMay, Asking
<1>9. Where' = Where
  BY <1>2 DEF Where, Stage
<1>10. Promise!Other(Enabled(row)) \in {"on", "off"} \ {Enabled(row)}
  BY <1>0 DEF Promise!Other
<1>11. Promise!Pass
  BY <1>0, <1>1, <1>9, <1>10 DEF Promise!Pass, Promise!Other, Where
<1> QED BY <1>5, <1>6, <1>7, <1>8, <1>11 DEF GateInv, Maps, Promise!GateNext

\* A process that dies takes its cache and its requests with it.
LEMMA CrashPromise ==
    ASSUME TypeInv, GateInv, NEW p \in Processes, Crash(p)
    PROVE  GateInv' /\ Maps
<1> DEFINE dead == {w \in Workers : Home(w) = p}
<1>1. /\ UNCHANGED <<row, age>> /\ cache' = [cache EXCEPT ![p] = NoEntry]
      /\ work' = [w \in Workers |-> IF w \in dead THEN Idle ELSE work[w]]
      /\ may' = [w \in Workers |-> IF w \in dead THEN {} ELSE may[w]]
      /\ cache \in [Processes -> Entry] /\ dead \in SUBSET Workers
  BY DEF Crash, TypeInv, TypeOK
<1> HIDE DEF dead
<1>2. RowIsNow' /\ CachesFresh'
  BY <1>1 DEF GateInv, RowIsNow, CachesFresh, Fresh, NoEntry
<1>3. FillsFresh' /\ PendingMay'
  BY <1>1 DEF GateInv, FillsFresh, PendingMay, Fresh, At, Asking, Idle
<1>4. Where' = [w \in Workers |-> IF w \in dead THEN "idle" ELSE Where[w]]
  BY <1>1 DEF Where, Stage, Idle
<1>5. Promise!Leave(dead)
  BY <1>1, <1>4 DEF Promise!Leave, Where
<1> QED BY <1>1, <1>2, <1>3, <1>5 DEF GateInv, Maps, Promise!GateNext

\* The gate of require_module_enabled implements ModuleGate: whatever the processes,
\* their caches, the fills that race invalidations and the crashes, a request is
\* answered with a state that the module had while it asked or less than Ttl before.
THEOREM GateImplements == Spec => GateKept
<1> USE DEF fixedVars, unitVars, gateVars
<1>1. Init => GateInv /\ Promise!GateInit
  <2> SUFFICES ASSUME Init PROVE GateInv /\ Promise!GateInit
    OBVIOUS
  <2>1. /\ row = "none" /\ may = [w \in Workers |-> {}] /\ work = [w \in Workers |-> Idle]
        /\ cache = [p \in Processes |-> NoEntry]
        /\ age = [v \in {"on", "off"} |-> IF v = "off" THEN 0 ELSE Ttl]
    BY DEF Init
  <2>2. Enabled(row) = "off" /\ Where = [w \in Workers |-> "idle"]
    BY <2>1 DEF Enabled, Where, Stage, Idle
  <2>3. RowIsNow /\ CachesFresh /\ FillsFresh /\ PendingMay
    BY <2>1, <2>2 DEF RowIsNow, CachesFresh, FillsFresh, PendingMay, Fresh, At, Asking,
                      Idle, NoEntry
  <2>4. Promise!GateInit
    BY <2>1, <2>2 DEF Promise!GateInit, Promise!Values, Where
  <2> QED BY <2>3, <2>4 DEF GateInv
<1>2. TypeInv /\ GateInv /\ [Next]_vars => GateInv' /\ [Promise!GateNext]_(Promise!gateVars)
  <2> SUFFICES ASSUME TypeInv, GateInv, [Next]_vars PROVE GateInv' /\ Maps
    BY DEF Maps
  <2>0. TypeOK
    BY DEF TypeInv
  <2>1. ASSUME NEW w \in Workers, Schedule(w) PROVE GateInv' /\ Maps
    BY <2>0, <2>1, ScheduleMoves, OutsideGate DEF InGate
  <2>2. CASE LockExpires \/ DeleteTenant \/ UNCHANGED vars
    <3>1. UNCHANGED <<row, age, may, cache, work>>
      BY <2>2 DEF LockExpires, DeleteTenant, vars
    <3> QED BY <2>0, <3>1, OutsideGate
  <2> QED BY <2>0, <2>1, <2>2, GatePromise, ActivationPromise, TickPromise, CrashPromise
             DEF Next
<1> QED BY <1>1, <1>2, TypeInvariant, PTL DEF Spec, GateKept, Promise!GateSpec

=============================================================================
