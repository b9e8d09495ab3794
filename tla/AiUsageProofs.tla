--------------------------- MODULE AiUsageProofs ---------------------------
(***************************************************************************)
(* Proofs about AiUsage, for every set of calls, policies and providers,   *)
(* every calendar and every retention that the assumptions allow: the      *)
(* alert of the day, the daily aggregates, the quota counter of a month    *)
(* and the types.  The sums over the days of a month are in SumTheorems.   *)
(***************************************************************************)
EXTENDS AiUsage, SumTheorems, TLAPS

----------------------------------------------------------------------------
(* Shape                                                                   *)

RollPlaces == {"idle", "aggregate", "sum", "set", "purge"}

RollShape ==
    /\ roll = [pc |-> roll.pc, target |-> roll.target, month |-> roll.month,
               sum |-> roll.sum, overlap |-> roll.overlap]
    /\ roll.pc \in RollPlaces /\ roll.target \in Days

\* The types, those of the sums and of the counters aside.
Shape ==
    /\ day \in Days
    /\ call \in [Calls -> Call]
    /\ raw \in [Days -> Nat] /\ metered \in [Days -> Nat]
    /\ daily \in [Days -> Nat] /\ alerts \in [Days -> Nat]
    /\ rolled \subseteq Days
    /\ RollShape

\* Days are numbers, and the first is a day.
LEMMA DaysAreNumbers == Days \subseteq Nat /\ 0 \in Days /\ \A d \in Days : d <= MaxDay
  BY CalendarAssumption DEF Days

\* What may replace a call.
LEMMA CallTypes ==
    ASSUME Shape, NEW c \in Calls
    PROVE  /\ \A p \in Places : Goto(c, p) =>
                /\ call' \in [Calls -> Call] /\ call'[c].pc = p
                /\ \A b \in Calls \ {c} : call'[b] = call[b]
           /\ Done(c) =>
                /\ call' \in [Calls -> Call] /\ call'[c].pc = "done"
                /\ \A b \in Calls \ {c} : call'[b] = call[b]
           /\ \A k \in Kinds, s \in BOOLEAN : Send(c, k, s) =>
                /\ call' \in [Calls -> Call] /\ call'[c].pc = "call"
                /\ \A b \in Calls \ {c} : call'[b] = call[b]
<1>0. call[c] \in Call /\ call \in [Calls -> Call]
  BY DEF Shape
<1> HIDE DEF Days, Tokens, Places, Kinds
<1>a. 0 \in Days /\ 0 \in Tokens /\ {"idle", "end", "done", "call"} \subseteq Places
  BY DaysAreNumbers DEF Tokens, Places
<1>1. ASSUME NEW p \in Places, Goto(c, p)
      PROVE  /\ call' \in [Calls -> Call] /\ call'[c].pc = p
             /\ \A b \in Calls \ {c} : call'[b] = call[b]
  <2>1. CASE p = "end"
    <3> DEFINE new == [call[c] EXCEPT !.pc = "end", !.tokens = 0, !.stamp = 0]
    <3>1. new \in Call /\ new.pc = "end"
      BY <1>0, <1>a DEF Call
    <3>2. call' = [call EXCEPT ![c] = new]
      BY <1>1, <2>1 DEF Goto
    <3> HIDE DEF new
    <3> QED BY <1>0, <2>1, <3>1, <3>2
  <2>2. CASE p # "end"
    <3> DEFINE new == [call[c] EXCEPT !.pc = p]
    <3>1. new \in Call /\ new.pc = p
      BY <1>0 DEF Call
    <3>2. call' = [call EXCEPT ![c] = new]
      BY <1>1, <2>2 DEF Goto
    <3> HIDE DEF new
    <3> QED BY <1>0, <3>1, <3>2
  <2> QED BY <2>1, <2>2
<1>2. ASSUME Done(c)
      PROVE  /\ call' \in [Calls -> Call] /\ call'[c].pc = "done"
             /\ \A b \in Calls \ {c} : call'[b] = call[b]
  <2> DEFINE new == [NewCall EXCEPT !.pc = "done"]
  <2>1. new \in Call /\ new.pc = "done"
    BY <1>a DEF NewCall, Call
  <2>2. call' = [call EXCEPT ![c] = new]
    BY <1>2 DEF Done
  <2> HIDE DEF new
  <2> QED BY <1>0, <2>1, <2>2
<1>3. ASSUME NEW k \in Kinds, NEW s \in BOOLEAN, Send(c, k, s)
      PROVE  /\ call' \in [Calls -> Call] /\ call'[c].pc = "call"
             /\ \A b \in Calls \ {c} : call'[b] = call[b]
  <2> DEFINE new == [NewCall EXCEPT !.pc = "call", !.kind = k, !.spare = s]
  <2>1. new \in Call /\ new.pc = "call"
    BY <1>a DEF NewCall, Call
  <2>2. call' = [call EXCEPT ![c] = new]
    BY <1>3 DEF Send
  <2> HIDE DEF new
  <2> QED BY <1>0, <2>1, <2>2
<1> QED BY <1>1, <1>2, <1>3

\* Steps of a call that has no alert under way: they leave the alerts alone.
Plain(c) ==
    \/ \E p \in Providers : StartChat(c, p)
    \/ \E p \in Providers : StartOnce(c, "stream", p) \/ StartOnce(c, "embed", p)
    \/ Answered(c) \/ Fails(c) \/ Streams(c) \/ Embeds(c)
    \/ CommitEvent(c) \/ EventFails(c) \/ Count(c) \/ Finish(c)

\* Each moves its own call only, which comes to its count by its event and leaves it
\* by counting.
LEMMA PlainMoves ==
    ASSUME Shape, NEW c \in Calls, Plain(c)
    PROVE  /\ call' \in [Calls -> Call] /\ \A b \in Calls \ {c} : call'[b] = call[b]
           /\ call[c].pc # "audit" /\ call'[c].pc # "audit"
           /\ call[c].pc = "count" => Count(c)
           /\ call'[c].pc = "count" => CommitEvent(c) \/ EventFails(c)
           /\ UNCHANGED <<alarm, alerts, lost, day, daily, rolled, policy>>
<1> DEFINE Counts == {"audit", "count"}
<1> USE DEF storeVars, rollVars, alertVars, countVars
<1>0. {"chat", "stream", "embed"} = Kinds /\ {"alert", "count", "end"} \subseteq Places
  BY DEF Kinds, Places
<1>1. Retry(c) => /\ call' \in [Calls -> Call] /\ call'[c].pc \in {"call", "done"}
                  /\ \A b \in Calls \ {c} : call'[b] = call[b]
  BY <1>0, CallTypes DEF Retry
<1>2. ASSUME NEW p \in Providers, StartChat(c, p)
      PROVE  /\ call' \in [Calls -> Call] /\ call'[c].pc \notin Counts /\ call[c].pc \notin Counts
             /\ \A b \in Calls \ {c} : call'[b] = call[b]
  <2>1. Fallback \in BOOLEAN
    BY DEF Fallback
  <2>2. Send(c, "chat", Fallback) \/ Retry(c) \/ Done(c)
    BY <1>2 DEF StartChat
  <2>3. call[c].pc = "idle"
    BY <1>2 DEF StartChat, At
  <2>4. CASE Send(c, "chat", Fallback)
    BY <1>0, <2>1, <2>3, <2>4, CallTypes
  <2>5. CASE Retry(c) \/ Done(c)
    BY <1>1, <2>3, <2>5, CallTypes
  <2> QED BY <2>2, <2>4, <2>5
<1>3. ASSUME NEW p \in Providers, StartOnce(c, "stream", p) \/ StartOnce(c, "embed", p)
      PROVE  /\ call' \in [Calls -> Call] /\ call'[c].pc \notin Counts /\ call[c].pc \notin Counts
             /\ \A b \in Calls \ {c} : call'[b] = call[b]
  <2>1. Done(c) \/ Send(c, "stream", FALSE) \/ Send(c, "embed", FALSE)
    BY <1>3 DEF StartOnce
  <2>2. call[c].pc = "idle"
    BY <1>3 DEF StartOnce, At
  <2> QED BY <1>0, <2>1, <2>2, CallTypes
<1>4. ASSUME Answered(c) \/ Fails(c) \/ Streams(c) \/ Embeds(c)
      PROVE  /\ call' \in [Calls -> Call] /\ call'[c].pc \notin Counts /\ call[c].pc \notin Counts
             /\ \A b \in Calls \ {c} : call'[b] = call[b]
             /\ UNCHANGED <<alarm, alerts, lost, day, daily, rolled, policy>>
  <2>0. 0 \in Tokens
    BY DEF Tokens
  <2>1. At(c, "call") /\ \E failed \in BOOLEAN, tokens \in Tokens : Outcome(c, failed, tokens)
    <3>1. CASE Answered(c)
      BY <3>1, Zenon DEF Answered, Waiting
    <3>2. CASE Fails(c)
      BY <2>0, <3>2, Zenon DEF Fails, Waiting
    <3>3. CASE Streams(c) \/ Embeds(c)
      BY <3>3, Zenon DEF Streams, Embeds, Waiting
    <3> QED BY <1>4, <3>1, <3>2, <3>3
  <2>2. PICK failed \in BOOLEAN, tokens \in Tokens : Outcome(c, failed, tokens)
    BY <2>1
  <2> DEFINE new == [pc |-> "commit", kind |-> "none", tokens |-> tokens,
                     stamp |-> day, spare |-> failed /\ call[c].spare]
  <2>3. call' = [call EXCEPT ![c] = new]
    BY <2>2 DEF Outcome
  <2>4. new.spare \in BOOLEAN
    BY <2>2 DEF Shape, Call
  <2>5. new \in Call /\ new.pc = "commit"
    BY <2>2, <2>4 DEF Shape, Call, Places
  <2> HIDE DEF new
  <2> QED BY <2>1, <2>2, <2>3, <2>5 DEF Outcome, Shape, At
<1>5. ASSUME CommitEvent(c) \/ EventFails(c) \/ Count(c)
      PROVE  /\ call' \in [Calls -> Call] /\ call'[c].pc # "audit" /\ call[c].pc # "audit"
             /\ call[c].pc = "count" => Count(c)
             /\ call'[c].pc = "count" => CommitEvent(c) \/ EventFails(c)
             /\ \A b \in Calls \ {c} : call'[b] = call[b]
  <2>1. PICK p \in {"count", "end", "alert"} : Goto(c, p)
    BY <1>5 DEF CommitEvent, EventFails, Count, AfterEvent
  <2>2. call[c].pc # "audit"
    BY <1>5 DEF CommitEvent, EventFails, Count, At
  <2>3. call[c].pc = "count" => Count(c)
    BY <1>5 DEF CommitEvent, EventFails, At
  <2>4. CASE Count(c)
    <3>1. PICK next \in {"alert", "end"} : Goto(c, next)
      BY <2>4 DEF Count
    <3> QED BY <1>0, <2>2, <2>3, <3>1, CallTypes
  <2>5. CASE ~Count(c)
    BY <1>0, <1>5, <2>1, <2>2, <2>3, <2>5, CallTypes
  <2> QED BY <2>4, <2>5
<1>6. ASSUME Finish(c)
      PROVE  /\ call' \in [Calls -> Call] /\ call'[c].pc \notin Counts /\ call[c].pc \notin Counts
             /\ \A b \in Calls \ {c} : call'[b] = call[b]
  BY <1>1, <1>6, CallTypes DEF Finish, At
<1>7. Plain(c) => UNCHANGED <<alarm, alerts, lost, day, daily, rolled, policy>>
  BY <1>4 DEF Plain, StartChat, StartOnce, CommitEvent, EventFails, Count, Finish
<1> QED BY <1>2, <1>3, <1>4, <1>5, <1>6, <1>7 DEF Plain

\* The steps of an alert, and a call that stops.
LEMMA AlertMoves ==
    ASSUME Shape, NEW c \in Calls, AlertKey(c) \/ AlertAudit(c) \/ Stops(c)
    PROVE  /\ call' \in [Calls -> Call] /\ \A b \in Calls \ {c} : call'[b] = call[b]
           /\ call[c].pc = "count" => Stops(c)
           /\ call'[c].pc # "count"
           /\ UNCHANGED <<day, raw, noted, metered, late, daily, roll, rolled, policy>>
           /\ UNCHANGED <<counter, expiry>>
<1> USE DEF storeVars, rollVars, alertVars, countVars
<1>0. "end" \in Places /\ "audit" \in Places
  BY DEF Places
<1>1. ASSUME call' = [call EXCEPT ![c].pc = "audit", ![c].stamp = day]
      PROVE  /\ call' \in [Calls -> Call] /\ call'[c].pc = "audit"
             /\ \A b \in Calls \ {c} : call'[b] = call[b]
  BY <1>0, <1>1 DEF Shape, Call
<1>2. Goto(c, "end") \/ Done(c) \/ call' = [call EXCEPT ![c].pc = "audit", ![c].stamp = day]
  BY DEF AlertKey, AlertAudit, Stops
<1>3. /\ call' \in [Calls -> Call] /\ call'[c].pc # "count"
      /\ \A b \in Calls \ {c} : call'[b] = call[b]
  BY <1>0, <1>1, <1>2, CallTypes
<1>4. call[c].pc = "count" => Stops(c)
  BY DEF AlertKey, AlertAudit, At
<1> QED BY <1>3, <1>4 DEF AlertKey, AlertAudit, Stops

\* Among the steps of a call, only the commit of its event changes the events; the
\* rollup notes at most that a call was under way.
LEMMA PlainStores ==
    ASSUME Shape, NEW c \in Calls, Plain(c)
    PROVE  /\ CommitEvent(c) \/ UNCHANGED <<raw, noted, metered, late>>
           /\ RollShape' /\ roll'.pc = roll.pc /\ roll'.target = roll.target
<1> USE DEF storeVars, rollVars, alertVars, countVars
<1>0. CommitEvent(c) \/ UNCHANGED <<raw, noted, metered, late>>
  BY DEF Plain, StartChat, StartOnce, Answered, Fails, Streams, Embeds, Outcome, EventFails,
         Count, Finish
<1>1. roll' = roll \/ Overlap(c)
  BY DEF Plain, StartChat, StartOnce, Answered, Fails, Streams, Embeds, Outcome, CommitEvent,
         EventFails, Count, Finish
<1>2. CASE Overlap(c)
  <2>1. PICK x : roll' = [roll EXCEPT !.overlap = x]
    BY <1>2 DEF Overlap
  <2> QED BY <1>0, <2>1 DEF Shape, RollShape
<1>3. CASE roll' = roll
  BY <1>0, <1>3 DEF Shape, RollShape
<1> QED BY <1>1, <1>2, <1>3

\* Calls keep the shape.
LEMMA CallKeepsShape ==
    ASSUME Shape, NEW c \in Calls, CallNext(c)
    PROVE  Shape'
<1> USE DEF storeVars, rollVars, alertVars, countVars
<1>0. call[c] \in Call /\ call[c].stamp \in Days /\ call[c].tokens \in Nat
  BY DEF Shape, Call, Tokens
<1>1. CASE AlertKey(c) \/ Stops(c)
  <2>1. alerts' = alerts
    BY <1>1 DEF AlertKey, Stops
  <2> QED BY <1>1, <2>1, AlertMoves DEF Shape, RollShape
<1>2. CASE AlertAudit(c)
  <2>1. alerts' \in [Days -> Nat]
    BY <1>0, <1>2 DEF AlertAudit, Shape
  <2> QED BY <1>2, <2>1, AlertMoves DEF Shape, RollShape
<1>3. CASE Plain(c)
  <2>1. raw' \in [Days -> Nat] /\ metered' \in [Days -> Nat]
    <3>1. CASE CommitEvent(c)
      BY <1>0, <3>1 DEF CommitEvent, Shape
    <3> QED BY <1>3, <3>1, PlainStores DEF Shape
  <2> QED BY <1>3, <2>1, PlainMoves, PlainStores DEF Shape
<1> QED BY <1>1, <1>2, <1>3 DEF CallNext, Plain

\* The rollup and midnight keep it.
RollNext == RollStart \/ AggregateDay \/ SumMonth \/ Reconcile \/ PurgeEvents \/ RollFails

\* They move no call and no alert.
LEMMA RollKeepsShape ==
    ASSUME Shape, RollNext \/ NextDay
    PROVE  Shape' /\ UNCHANGED <<call, alarm, alerts, lost>>
<1> USE DEF storeVars, rollVars, alertVars, countVars
<1>0. Days \subseteq Nat /\ 0 \in Days /\ NoRoll.target = 0 /\ day \in Days
  BY DaysAreNumbers DEF NoRoll, Shape
<1>1. CASE RollStart
  <2>1. Yesterday \in Days
    BY <1>1, CalendarAssumption DEF RollStart, Yesterday, Days, Shape
  <2>2. RollShape'
    BY <1>1, <2>1 DEF RollStart, NoRoll, RollShape, RollPlaces
  <2> QED BY <1>1, <2>2 DEF RollStart, Shape
<1>2. CASE AggregateDay
  <2>1. RollShape' /\ roll.target \in Days
    BY <1>0, <1>2 DEF AggregateDay, NoRoll, RollShape, RollPlaces, Shape
  <2>2. Aggregate \in Nat
    BY <2>1 DEF Aggregate, Shape
  <2>3. daily' \in [Days -> Nat] /\ rolled' \subseteq Days
    BY <1>2, <2>1, <2>2 DEF AggregateDay, Shape
  <2> QED BY <1>2, <2>1, <2>3 DEF AggregateDay, Shape
<1>3. CASE SumMonth
  <2>1. PICK m, x, y :
           \/ roll' = [pc |-> "set", target |-> 0, month |-> m, sum |-> x, overlap |-> y]
           \/ roll' = [NoRoll EXCEPT !.pc = "purge"]
    BY <1>3 DEF SumMonth
  <2>2. RollShape'
    BY <1>0, <2>1 DEF NoRoll, RollShape, RollPlaces
  <2> QED BY <1>3, <2>2 DEF SumMonth, Shape
<1>4. CASE Reconcile \/ RollFails
  <2>1. RollShape'
    BY <1>0, <1>4 DEF Reconcile, RollFails, NoRoll, RollShape, RollPlaces
  <2> QED BY <1>4, <2>1 DEF Reconcile, RollFails, Shape
<1>5. CASE PurgeEvents
  <2>1. RollShape'
    BY <1>0, <1>5 DEF PurgeEvents, NoRoll, RollShape, RollPlaces
  <2>2. PICK kept \in IF day >= Retention THEN 0..raw[day - Retention] ELSE {0} :
           raw' = [d \in Days |-> CASE d + Retention < day -> 0
                                   [] d + Retention = day -> kept
                                   [] OTHER -> raw[d]]
    BY <1>5 DEF PurgeEvents
  <2>3. kept \in Nat
    BY <2>2 DEF Shape
  <2>4. raw' \in [Days -> Nat]
    BY <2>2, <2>3 DEF Shape
  <2> QED BY <1>5, <2>1, <2>4 DEF PurgeEvents, Shape
<1>6. CASE NextDay
  <2>1. day' \in Days
    BY <1>0, <1>6, CalendarAssumption DEF NextDay, Days
  <2>2. UNCHANGED <<call, raw, metered, daily, alerts, rolled, roll, alarm, lost>>
    BY <1>6 DEF NextDay
  <2> QED BY <2>1, <2>2 DEF Shape, RollShape
<1> QED BY <1>1, <1>2, <1>3, <1>4, <1>5, <1>6 DEF RollNext

\* A counter that expires changes nothing else.
LEMMA ExpiryMoves ==
    ASSUME NEW m \in Months, CounterExpires(m)
    PROVE  /\ UNCHANGED <<policy, day, call, raw, noted, metered, late, daily, roll, rolled>>
           /\ UNCHANGED <<alarm, alerts, lost, drift>>
  BY DEF CounterExpires, storeVars, rollVars, alertVars

\* The shape holds.
LEMMA ShapeInvariant == Spec => []Shape
<1>1. Init => Shape
  <2> SUFFICES ASSUME Init PROVE Shape
    OBVIOUS
  <2>1. NewCall \in Call
    BY DaysAreNumbers DEF NewCall, Call, Places, Tokens
  <2>2. RollShape
    BY DaysAreNumbers DEF Init, NoRoll, RollShape, RollPlaces
  <2>3. day \in Days /\ call \in [Calls -> Call]
    BY <2>1, DaysAreNumbers DEF Init
  <2> QED BY <2>2, <2>3 DEF Init, Shape
<1>2. Shape /\ [Next]_vars => Shape'
  <2> SUFFICES ASSUME Shape, [Next]_vars PROVE Shape'
    OBVIOUS
  <2>1. CASE UNCHANGED vars
    BY <2>1 DEF vars, Shape, RollShape
  <2>2. ASSUME NEW m \in Months, CounterExpires(m) PROVE Shape'
    BY <2>2, ExpiryMoves DEF Shape, RollShape
  <2> QED BY <2>1, <2>2, CallKeepsShape, RollKeepsShape DEF Next, RollNext
<1> QED BY <1>1, <1>2, PTL DEF Spec

----------------------------------------------------------------------------
(* The alert of the day                                                    *)

Auditing(c, d) == At(c, "audit") /\ call[c].stamp = d

\* The key of the day comes first, its owner alone writes the event.
DayAlert(d) ==
    /\ alerts[d] <= 1
    /\ d \notin alarm => alerts[d] = 0 /\ \A c \in Calls : ~Auditing(c, d)
    /\ \A c \in Calls : Auditing(c, d) =>
          alerts[d] = 0 /\ \A b \in Calls : Auditing(b, d) => b = c
    /\ d \in alarm \ lost => alerts[d] = 1 \/ \E c \in Calls : Auditing(c, d)

AlertInv == \A d \in Days : DayAlert(d)

\* Steps that leave the alerts and who is about to write one alone.
LEMMA QuietAlert ==
    ASSUME AlertInv, UNCHANGED <<alarm, alerts, lost>>,
           \A c \in Calls : call'[c] = call[c] \/ (~At(c, "audit") /\ ~At(c, "audit")')
    PROVE  AlertInv'
<1>1. \A c \in Calls, d \in Days : Auditing(c, d)' <=> Auditing(c, d)
  BY DEF Auditing, At
<1> QED BY <1>1 DEF AlertInv, DayAlert

\* SET NX gives the key of the day to one call.
LEMMA KeyAlert ==
    ASSUME Shape, AlertInv, NEW c \in Calls, AlertKey(c)
    PROVE  AlertInv'
<1> USE DEF storeVars, rollVars, alertVars, countVars
<1>0. /\ \A b \in Calls \ {c} : call'[b] = call[b]
      /\ At(c, "alert") /\ UNCHANGED <<alerts, lost>> /\ day \in Days
      /\ alerts \in [Days -> Nat]
  BY AlertMoves DEF AlertKey, Shape
<1>1. CASE day \in alarm
  <2>1. Goto(c, "end") /\ alarm' = alarm
    BY <1>1 DEF AlertKey
  <2>2. call'[c].pc = "end"
    BY <2>1, CallTypes DEF Places
  <2> QED BY <1>0, <2>1, <2>2, QuietAlert DEF At
<1>2. CASE day \notin alarm
  <2>1. /\ alarm' = alarm \cup {day}
        /\ call' = [call EXCEPT ![c].pc = "audit", ![c].stamp = day]
    BY <1>2 DEF AlertKey
  <2>2. call'[c].pc = "audit" /\ call'[c].stamp = day
    BY <2>1 DEF Shape, Call
  <2> SUFFICES ASSUME NEW d \in Days PROVE DayAlert(d)'
    BY DEF AlertInv
  <2>3. DayAlert(d)
    BY DEF AlertInv
  <2>4. \A b \in Calls \ {c} : Auditing(b, d)' <=> Auditing(b, d)
    BY <1>0 DEF Auditing, At
  <2>5. ~Auditing(c, d) /\ (Auditing(c, d)' <=> d = day)
    BY <1>0, <2>2 DEF Auditing, At
  <2>6. CASE d = day
    BY <1>0, <1>2, <2>1, <2>3, <2>4, <2>5, <2>6 DEF DayAlert
  <2>7. CASE d # day
    BY <1>0, <2>1, <2>3, <2>4, <2>5, <2>7 DEF DayAlert
  <2> QED BY <2>6, <2>7
<1> QED BY <1>1, <1>2

\* The owner of the key writes the event of its day.
LEMMA AuditAlert ==
    ASSUME Shape, AlertInv, NEW c \in Calls, AlertAudit(c)
    PROVE  AlertInv'
<1> USE DEF storeVars, rollVars, alertVars, countVars
<1>0. /\ \A b \in Calls \ {c} : call'[b] = call[b]
      /\ At(c, "audit") /\ UNCHANGED <<alarm, lost>>
      /\ alerts \in [Days -> Nat] /\ call[c].stamp \in Days
  BY AlertMoves DEF AlertAudit, Shape, Call
<1>1. call'[c].pc = "end" /\ alerts' = [alerts EXCEPT ![call[c].stamp] = @ + 1]
  BY CallTypes DEF AlertAudit, Places
<1> SUFFICES ASSUME NEW d \in Days PROVE DayAlert(d)'
  BY DEF AlertInv
<1>2. DayAlert(d) /\ alerts[d] \in Nat
  BY <1>0 DEF AlertInv
<1>3. \A b \in Calls \ {c} : Auditing(b, d)' <=> Auditing(b, d)
  BY <1>0 DEF Auditing, At
<1>4. ~Auditing(c, d)' /\ (Auditing(c, d) <=> d = call[c].stamp)
  BY <1>0, <1>1 DEF Auditing, At
<1>5. CASE d = call[c].stamp
  <2>1. Auditing(c, d) /\ alerts[d] = 0 /\ \A b \in Calls : Auditing(b, d) => b = c
    BY <1>2, <1>4, <1>5 DEF DayAlert
  <2>2. alerts'[d] = 1 /\ d \in alarm /\ \A b \in Calls : ~Auditing(b, d)'
    BY <1>0, <1>1, <1>2, <1>3, <1>4, <1>5, <2>1 DEF DayAlert
  <2> QED BY <1>0, <2>2 DEF DayAlert
<1>6. CASE d # call[c].stamp
  <2>1. alerts'[d] = alerts[d]
    BY <1>0, <1>1, <1>6
  <2>2. \A b \in Calls : Auditing(b, d)' <=> Auditing(b, d)
    BY <1>3, <1>4, <1>6
  <2> QED BY <1>0, <1>2, <2>1, <2>2 DEF DayAlert
<1> QED BY <1>5, <1>6

\* A call that stops before it wrote the event loses the alert of its day.
LEMMA StopAlert ==
    ASSUME Shape, AlertInv, NEW c \in Calls, Stops(c)
    PROVE  AlertInv'
<1> USE DEF storeVars, rollVars, alertVars, countVars
<1>0. /\ \A b \in Calls \ {c} : call'[b] = call[b]
      /\ call'[c].pc = "done" /\ UNCHANGED <<alarm, alerts>>
      /\ lost' = IF At(c, "audit") THEN lost \cup {call[c].stamp} ELSE lost
  BY AlertMoves, CallTypes DEF Stops
<1> SUFFICES ASSUME NEW d \in Days PROVE DayAlert(d)'
  BY DEF AlertInv
<1>1. DayAlert(d)
  BY DEF AlertInv
<1>2. \A b \in Calls \ {c} : Auditing(b, d)' <=> Auditing(b, d)
  BY <1>0 DEF Auditing, At
<1>3. ~Auditing(c, d)' /\ (Auditing(c, d) => d \in lost') /\ lost \subseteq lost'
  BY <1>0 DEF Auditing, At
<1> QED BY <1>0, <1>1, <1>2, <1>3 DEF DayAlert

\* Whatever calls exceed the quota together, at midnight too, and wherever they stop: the
\* alert of a day is written at most once, and written unless the one call that had its
\* key was interrupted (_emit_alert_once).
THEOREM AlertsAreOnce == Spec => []AlertOnce
<1>1. Init => AlertInv
  BY DEF Init, AlertInv, DayAlert, Auditing, At, NewCall
<1>2. Shape /\ AlertInv /\ [Next]_vars => AlertInv'
  <2> SUFFICES ASSUME Shape, AlertInv, [Next]_vars PROVE AlertInv'
    OBVIOUS
  <2>1. CASE UNCHANGED vars
    BY <2>1, QuietAlert DEF vars
  <2>2. CASE RollNext \/ NextDay
    BY <2>2, RollKeepsShape, QuietAlert
  <2>3. ASSUME NEW c \in Calls, Plain(c) PROVE AlertInv'
    BY <2>3, PlainMoves, QuietAlert DEF At
  <2>4. ASSUME NEW m \in Months, CounterExpires(m) PROVE AlertInv'
    BY <2>4, ExpiryMoves, QuietAlert
  <2> QED BY <2>1, <2>2, <2>3, <2>4, KeyAlert, AuditAlert, StopAlert
             DEF Next, CallNext, Plain, RollNext
<1>3. AlertInv => AlertOnce
  BY DEF AlertInv, DayAlert, AlertOnce, Auditing
<1> QED BY <1>1, <1>2, <1>3, ShapeInvariant, PTL DEF Spec

----------------------------------------------------------------------------
(* The daily aggregates                                                    *)

\* No purge has reached the events of the day.
Whole(d) == d + Retention > day \/ (roll.pc = "aggregate" /\ roll.target = d)

\* Events and aggregates never say more than what was metered, and the events of a
\* whole day say it all.
DayStore(d) ==
    /\ raw[d] <= metered[d] /\ daily[d] <= metered[d]
    /\ Whole(d) => raw[d] = metered[d] /\ (d \notin noted => metered[d] = 0)
    /\ d \in rolled \ late => daily[d] = metered[d]

StoreInv == \A d \in Days : DayStore(d)

\* Steps that leave events and aggregates alone and make no day whole.
LEMMA QuietStore ==
    ASSUME StoreInv, UNCHANGED <<raw, noted, metered, daily, rolled, late>>,
           \A d \in Days : Whole(d)' => Whole(d)
    PROVE  StoreInv'
  BY DEF StoreInv, DayStore

\* The event of a call: its day was not aggregated yet, or is late.
LEMMA CommitStores ==
    ASSUME Shape, StoreInv, NEW c \in Calls, CommitEvent(c)
    PROVE  StoreInv'
<1>0. /\ call[c].stamp \in Days /\ call[c].tokens \in Nat
      /\ raw \in [Days -> Nat] /\ metered \in [Days -> Nat] /\ daily \in [Days -> Nat]
  BY DEF Shape, Call, Tokens
<1>1. /\ raw' = [raw EXCEPT ![call[c].stamp] = @ + call[c].tokens]
      /\ metered' = [metered EXCEPT ![call[c].stamp] = @ + call[c].tokens]
      /\ noted' = noted \cup {call[c].stamp}
      /\ late' = IF call[c].stamp \in rolled THEN late \cup {call[c].stamp} ELSE late
      /\ UNCHANGED <<day, daily, rolled>>
  BY DEF CommitEvent
<1>2. roll'.pc = roll.pc /\ roll'.target = roll.target
  BY PlainStores DEF Plain
<1> SUFFICES ASSUME NEW d \in Days PROVE DayStore(d)'
  BY DEF StoreInv
<1>3. DayStore(d) /\ (Whole(d)' <=> Whole(d))
  BY <1>1, <1>2 DEF StoreInv, Whole
<1>4. CASE d = call[c].stamp
  <2>1. raw'[d] = raw[d] + call[c].tokens /\ metered'[d] = metered[d] + call[c].tokens
    BY <1>0, <1>1, <1>4
  <2>2. d \in noted' /\ d \notin rolled' \ late'
    BY <1>1, <1>4
  <2>3. raw[d] \in Nat /\ metered[d] \in Nat /\ daily[d] \in Nat /\ daily'[d] = daily[d]
    BY <1>0, <1>1
  <2>4. raw'[d] <= metered'[d] /\ daily'[d] <= metered'[d]
    BY <1>0, <1>3, <2>1, <2>3 DEF DayStore
  <2>5. Whole(d)' => raw'[d] = metered'[d]
    BY <1>3, <2>1 DEF DayStore
  <2> QED BY <2>2, <2>4, <2>5 DEF DayStore
<1>5. CASE d # call[c].stamp
  <2>1. raw'[d] = raw[d] /\ metered'[d] = metered[d] /\ daily'[d] = daily[d]
    BY <1>0, <1>1, <1>5
  <2>2. (d \in noted' <=> d \in noted) /\ (d \in rolled' \ late' <=> d \in rolled \ late)
    BY <1>1, <1>5
  <2> QED BY <1>3, <2>1, <2>2 DEF DayStore
<1> QED BY <1>4, <1>5

\* The rollup: yesterday is whole, and stays so until it is aggregated.
LEMMA RollStores ==
    ASSUME Shape, StoreInv, RollNext
    PROVE  StoreInv'
<1> USE DEF storeVars, rollVars, alertVars, countVars
<1>0. /\ day \in Nat /\ Retention \in Nat /\ Retention >= 2 /\ Days \subseteq Nat
      /\ raw \in [Days -> Nat] /\ metered \in [Days -> Nat] /\ daily \in [Days -> Nat]
      /\ roll.target \in Days
  BY DaysAreNumbers, CalendarAssumption DEF Shape, RollShape
<1>1. CASE RollStart
  <2>1. roll'.target = day - 1 /\ UNCHANGED <<day, raw, noted, metered, daily, rolled, late>>
    BY <1>1 DEF RollStart, NoRoll, Yesterday
  <2>2. \A d \in Days : Whole(d)' => Whole(d)
    BY <1>0, <2>1 DEF Whole
  <2> QED BY <2>1, <2>2, QuietStore
<1>2. CASE AggregateDay
  <2>1. /\ daily' = [daily EXCEPT ![roll.target] = Aggregate]
        /\ rolled' = rolled \cup {roll.target} /\ late' = late \ {roll.target}
        /\ roll'.pc = "sum" /\ roll.pc = "aggregate" /\ UNCHANGED <<day, raw, noted, metered>>
    BY <1>2 DEF AggregateDay, NoRoll
  <2> SUFFICES ASSUME NEW d \in Days PROVE DayStore(d)'
    BY DEF StoreInv
  <2>2. DayStore(d) /\ (Whole(d)' => Whole(d))
    BY <2>1 DEF StoreInv, Whole
  <2>3. raw[d] \in Nat /\ metered[d] \in Nat /\ daily[d] \in Nat
    BY <1>0
  <2>4. CASE d = roll.target
    <3>1. Whole(d)
      BY <2>1, <2>4 DEF Whole
    <3>2. raw[d] = metered[d] /\ (d \notin noted => metered[d] = 0) /\ daily[d] <= metered[d]
      BY <2>2, <3>1 DEF DayStore
    <3>3. Aggregate = metered[d]
      BY <2>3, <2>4, <3>2 DEF Aggregate
    <3>4. daily'[d] = metered'[d]
      BY <1>0, <2>1, <2>4, <3>3
    <3> QED BY <2>1, <2>2, <2>3, <3>4 DEF DayStore
  <2>5. CASE d # roll.target
    <3>1. daily'[d] = daily[d] /\ (d \in rolled' \ late' <=> d \in rolled \ late)
      BY <1>0, <2>1, <2>5
    <3> QED BY <2>1, <2>2, <3>1 DEF DayStore
  <2> QED BY <2>4, <2>5
<1>3. CASE SumMonth \/ Reconcile \/ RollFails
  <2>1. roll'.pc # "aggregate"
    BY <1>3 DEF SumMonth, Reconcile, RollFails, NoRoll
  <2>2. UNCHANGED <<day, raw, noted, metered, daily, rolled, late>>
    BY <1>3 DEF SumMonth, Reconcile, RollFails
  <2>3. \A d \in Days : Whole(d)' => Whole(d)
    BY <2>1, <2>2 DEF Whole
  <2> QED BY <2>2, <2>3, QuietStore
<1>4. CASE PurgeEvents
  <2>1. /\ noted' = {d \in noted : d + Retention >= day} /\ roll'.pc # "aggregate"
        /\ roll.pc # "aggregate" /\ UNCHANGED <<day, metered, daily, rolled, late>>
    BY <1>4 DEF PurgeEvents, NoRoll
  <2>2. PICK kept \in IF day >= Retention THEN 0..raw[day - Retention] ELSE {0} :
           raw' = [d \in Days |-> CASE d + Retention < day -> 0
                                   [] d + Retention = day -> kept
                                   [] OTHER -> raw[d]]
    BY <1>4 DEF PurgeEvents
  <2> SUFFICES ASSUME NEW d \in Days PROVE DayStore(d)'
    BY DEF StoreInv
  <2>3. DayStore(d) /\ d \in Nat /\ raw[d] \in Nat /\ metered[d] \in Nat
    BY <1>0 DEF StoreInv
  <2>4. raw'[d] <= raw[d] /\ raw'[d] \in Nat
    <3>1. CASE d + Retention = day
      <4>1. d = day - Retention /\ day >= Retention
        BY <1>0, <2>3, <3>1
      <4>2. kept \in 0..raw[d]
        BY <2>2, <4>1
      <4>3. raw'[d] = kept
        BY <1>0, <2>2, <2>3, <3>1
      <4> QED BY <2>3, <4>2, <4>3
    <3>2. CASE d + Retention < day
      BY <1>0, <2>2, <2>3, <3>2
    <3>3. CASE d + Retention > day
      BY <1>0, <2>2, <2>3, <3>3
    <3> QED BY <1>0, <2>3, <3>1, <3>2, <3>3
  <2>5. Whole(d)' => d + Retention > day
    BY <2>1 DEF Whole
  <2>6. d + Retention > day => raw'[d] = raw[d] /\ (d \in noted => d \in noted')
    BY <1>0, <2>1, <2>2, <2>3
  <2> QED BY <2>1, <2>3, <2>4, <2>5, <2>6 DEF DayStore, Whole
<1> QED BY <1>1, <1>2, <1>3, <1>4 DEF RollNext

\* What the store holds of a day.
LEMMA StoreInvariant == Spec => []StoreInv
<1> USE DEF storeVars, rollVars, alertVars, countVars
<1>1. Init => StoreInv
  BY DEF Init, StoreInv, DayStore, Whole
<1>2. Shape /\ StoreInv /\ [Next]_vars => StoreInv'
  <2> SUFFICES ASSUME Shape, StoreInv, [Next]_vars PROVE StoreInv'
    OBVIOUS
  <2>1. CASE UNCHANGED vars
    BY <2>1, QuietStore DEF vars, Whole
  <2>2. CASE NextDay
    <3>1. day' = day + 1 /\ UNCHANGED <<raw, noted, metered, daily, rolled, late, roll>>
      BY <2>2 DEF NextDay
    <3>2. day \in Nat /\ Retention \in Nat /\ Days \subseteq Nat
      BY DaysAreNumbers, CalendarAssumption DEF Shape
    <3>3. \A d \in Days : Whole(d)' => Whole(d)
      BY <3>1, <3>2 DEF Whole
    <3> QED BY <3>1, <3>3, QuietStore
  <2>3. ASSUME NEW c \in Calls, AlertKey(c) \/ AlertAudit(c) \/ Stops(c) PROVE StoreInv'
    BY <2>3, AlertMoves, QuietStore DEF Whole
  <2>4. ASSUME NEW c \in Calls, Plain(c) PROVE StoreInv'
    <3>1. CASE CommitEvent(c)
      BY <3>1, CommitStores
    <3>2. CASE ~CommitEvent(c)
      BY <2>4, <3>2, PlainMoves, PlainStores, QuietStore DEF Whole
    <3> QED BY <3>1, <3>2
  <2>5. ASSUME NEW m \in Months, CounterExpires(m) PROVE StoreInv'
    BY <2>5, ExpiryMoves, QuietStore DEF Whole
  <2> QED BY <2>1, <2>2, <2>3, <2>4, <2>5, RollStores DEF Next, CallNext, Plain, RollNext
<1> QED BY <1>1, <1>2, ShapeInvariant, PTL DEF Spec

\* However often the rollup is repeated, wherever it fails and whatever it purges, the
\* aggregate of a day is the sum of the events of that day, unless one was stored after
\* (aggregate_day, purge_raw_events): the retention is longer than the day it aggregates.
THEOREM AggregatesAreExact == Spec => []AggregatesExact
<1>1. Shape /\ StoreInv => AggregatesExact
  BY DEF Shape, StoreInv, DayStore, AggregatesExact
<1> QED BY <1>1, ShapeInvariant, StoreInvariant, PTL

----------------------------------------------------------------------------
(* The sums of a month                                                     *)

\* The days of a month.
DaysOf(m) == {d \in Days : Month(d) = m}

\* There are finitely many of them.
LEMMA DaysOfMonth == \A m : IsFiniteSet(DaysOf(m)) /\ DaysOf(m) \subseteq Days
<1>1. IsFiniteSet(Days)
  BY CalendarAssumption, FS_Interval DEF Days
<1> QED BY <1>1, FS_Subset DEF DaysOf

\* What reconcile_month_quotas computes is the sum over them.
LEMMA TotalIsSum == \A table, m : Total(table, m) = SumOver(table, DaysOf(m))
  BY DEF Total, SumOver, DaysOf

\* It is a number of tokens.
LEMMA TotalIsNumber == ASSUME NEW table \in [Days -> Nat], NEW m PROVE Total(table, m) \in Nat
<1>1. \A d \in DaysOf(m) : table[d] \in Nat
  BY DaysOfMonth
<1> QED BY <1>1, DaysOfMonth, TotalIsSum, SumIsNumber

\* An event of n tokens adds n to its month.
LEMMA TotalAdds ==
    ASSUME NEW table \in [Days -> Nat], NEW d \in Days, NEW n \in Nat, NEW m,
           NEW new, \A x \in Days : new[x] = IF x = d THEN table[x] + n ELSE table[x]
    PROVE  Total(new, m) = IF Month(d) = m THEN Total(table, m) + n ELSE Total(table, m)
<1>1. \A x \in DaysOf(m) : table[x] \in Nat /\ new[x] = IF x = d THEN table[x] + n ELSE table[x]
  BY DaysOfMonth
<1>2. d \in DaysOf(m) <=> Month(d) = m
  BY DEF DaysOf
<1>3. SumOver(new, DaysOf(m))
        = IF d \in DaysOf(m) THEN SumOver(table, DaysOf(m)) + n ELSE SumOver(table, DaysOf(m))
  BY <1>1, DaysOfMonth, SumAdds
<1> QED BY <1>2, <1>3, TotalIsSum

\* Tables that agree on the days of a month have the same total.
LEMMA TotalAgrees ==
    ASSUME NEW old \in [Days -> Nat], NEW new \in [Days -> Nat], NEW m,
           \A d \in DaysOf(m) : new[d] = old[d]
    PROVE  Total(new, m) = Total(old, m)
<1>1. \A d \in DaysOf(m) : old[d] \in Nat
  BY DaysOfMonth
<1> QED BY <1>1, DaysOfMonth, TotalIsSum, SumAgrees

\* Facts about products of numbers.
LEMMA Times ==
    /\ \A i, j \in Nat : i * j \in Nat
    /\ \A i, j, k \in Nat : i * (j + k) = i * j + i * k
    /\ \A i, k \in Nat : k >= 1 => i * k >= i
<1>1. \A i, j \in Nat : i * j \in Nat
  OBVIOUS
<1>2. \A i, j, k \in Nat : i * (j + k) = i * j + i * k
  OBVIOUS
<1>3. \A i, k \in Nat : k >= 1 => i * k >= i
  <2> TAKE i, k \in Nat
  <2> HAVE k >= 1
  <2>1. k - 1 \in Nat /\ k = 1 + (k - 1) /\ i * (k - 1) \in Nat
    BY <1>1
  <2>2. i * k = i * 1 + i * (k - 1)
    BY <1>2, <2>1
  <2> QED BY <2>1, <2>2
<1> QED BY <1>1, <1>2, <1>3

\* A month begins with a multiple of its length.
LEMMA MonthBegins ==
    ASSUME NEW t \in Nat
    PROVE  /\ Month(t) \in Nat /\ MonthLen * Month(t) \in Nat
           /\ MonthLen * Month(t) <= t /\ t < MonthLen * Month(t) + MonthLen
<1>0. MonthLen \in Nat \ {0}
  BY CalendarAssumption
<1>1. /\ (t \div MonthLen) \in Nat /\ (t % MonthLen) \in 0..(MonthLen - 1)
      /\ t = MonthLen * (t \div MonthLen) + (t % MonthLen)
  BY <1>0
<1> DEFINE x == MonthLen * Month(t)
<1>2. x \in Nat /\ t = x + (t % MonthLen)
  BY <1>0, <1>1, Times DEF Month
<1> HIDE DEF x
<1>3. x <= t /\ t < x + MonthLen
  BY <1>0, <1>1, <1>2
<1> QED BY <1>1, <1>2, <1>3 DEF x, Month

\* A later day is of a later month or of the same, and two lengths later of one at least two
\* months on: the counter of a month outlives the next.
LEMMA MonthsPass ==
    ASSUME NEW a \in Nat, NEW b \in Nat
    PROVE  /\ a <= b => Month(a) <= Month(b)
           /\ b >= a + 2 * MonthLen => Month(a) + 2 <= Month(b)
<1>0. MonthLen \in Nat \ {0}
  BY CalendarAssumption
<1> DEFINE i == Month(a)
           j == Month(b)
<1>1. /\ i \in Nat /\ MonthLen * i \in Nat /\ MonthLen * i <= a /\ a < MonthLen * i + MonthLen
      /\ j \in Nat /\ MonthLen * j \in Nat /\ MonthLen * j <= b /\ b < MonthLen * j + MonthLen
  BY MonthBegins
<1> HIDE DEF i, j
<1>2. ASSUME j < i PROVE ~(a <= b)
  <2>1. i - j \in Nat /\ i - j >= 1 /\ i = j + (i - j)
    BY <1>1, <1>2
  <2>2. MonthLen * i = MonthLen * j + MonthLen * (i - j) /\ MonthLen * (i - j) >= MonthLen
    BY <1>0, <1>1, <2>1, Times
  <2>3. MonthLen * (i - j) \in Nat
    BY <1>0, <2>1, Times
  <2> QED BY <1>0, <1>1, <2>2, <2>3
<1>3. ASSUME j < i + 2 PROVE ~(b >= a + 2 * MonthLen)
  <2>1. i + 1 - j \in Nat /\ i + 1 = j + (i + 1 - j)
    BY <1>1, <1>3
  <2>2. MonthLen * (i + 1) = MonthLen * j + MonthLen * (i + 1 - j)
    BY <1>0, <1>1, <2>1, Times
  <2>3. MonthLen * (i + 1 - j) \in Nat /\ MonthLen * (i + 1) = MonthLen * i + MonthLen
    BY <1>0, <1>1, <2>1, Times
  <2> QED BY <1>0, <1>1, <2>2, <2>3
<1> QED BY <1>1, <1>2, <1>3 DEF i, j

\* The retention covers the month: no purge has reached a day of the month it is.
LEMMA MonthIsKept ==
    ASSUME NEW t \in Nat, NEW d \in Nat, Month(d) = Month(t)
    PROVE  d + Retention > t
<1>0. MonthLen \in Nat \ {0} /\ Retention \in Nat /\ Retention >= MonthLen
  BY CalendarAssumption
<1> DEFINE x == MonthLen * Month(t)
<1>1. x \in Nat /\ x <= d /\ t < x + MonthLen
  BY MonthBegins
<1> HIDE DEF x
<1> QED BY <1>0, <1>1

----------------------------------------------------------------------------
(* The calls between their event and their count                           *)

\* How the set of the calls that are to count changes when one call moves.
LEMMA CountingMoves ==
    ASSUME NEW c \in Calls, \A b \in Calls \ {c} : call'[b] = call[b], NEW m
    PROVE  Counting(m)' = IF At(c, "count")' /\ Month(call'[c].stamp) = m
                          THEN Counting(m) \cup {c} ELSE Counting(m) \ {c}
<1>1. \A b \in Calls \ {c} : b \in Counting(m)' <=> b \in Counting(m)
  BY DEF Counting, At, Month
<1>2. c \in Counting(m)' <=> At(c, "count")' /\ Month(call'[c].stamp) = m
  BY DEF Counting, At, Month
<1>3. Counting(m)' \subseteq Calls /\ Counting(m) \subseteq Calls
  BY DEF Counting
<1> QED BY <1>1, <1>2, <1>3

\* However many calls there are, finitely many are about to count.
FewCounting == \A m \in Months : IsFiniteSet(Counting(m))

\* Each step adds one at most.
LEMMA FewInvariant == Spec => []FewCounting
<1>1. Init => FewCounting
  <2> SUFFICES ASSUME Init PROVE FewCounting
    OBVIOUS
  <2>1. \A m : Counting(m) = {}
    BY DEF Init, Counting, At, NewCall
  <2> QED BY <2>1, FS_EmptySet DEF FewCounting
<1>2. Shape /\ FewCounting /\ [Next]_vars => FewCounting'
  <2> SUFFICES ASSUME Shape, FewCounting, [Next]_vars PROVE FewCounting'
    OBVIOUS
  <2>1. CASE call' = call
    <3>1. \A m : Counting(m)' = Counting(m)
      BY <2>1 DEF Counting, At
    <3> QED BY <3>1 DEF FewCounting, Months
  <2>2. ASSUME NEW c \in Calls, CallNext(c) PROVE FewCounting'
    <3>1. \A b \in Calls \ {c} : call'[b] = call[b]
      BY <2>2, PlainMoves, AlertMoves DEF CallNext, Plain
    <3>2. ASSUME NEW m \in Months PROVE IsFiniteSet(Counting(m)')
      <4>1. Counting(m)' = Counting(m) \cup {c} \/ Counting(m)' = Counting(m) \ {c}
        BY <3>1, CountingMoves
      <4> QED BY <4>1, FS_AddElement, FS_RemoveElement DEF FewCounting
    <3> QED BY <3>2 DEF FewCounting, Months
  <2>3. UNCHANGED vars => call' = call
    BY DEF vars
  <2> QED BY <2>1, <2>2, <2>3, RollKeepsShape, ExpiryMoves DEF Next, RollNext
<1> QED BY <1>1, <1>2, ShapeInvariant, PTL DEF Spec

\* So their number is a number.
LEMMA CountingIsNumber ==
    ASSUME FewCounting, NEW m \in Months
    PROVE  IsFiniteSet(Counting(m)) /\ Cardinality(Counting(m)) \in Nat
  BY FS_CardinalityType DEF FewCounting

----------------------------------------------------------------------------
(* Types                                                                   *)

\* What Shape leaves out.
Kept ==
    /\ policy \in Policies
    /\ noted \subseteq Days /\ late \subseteq Days /\ alarm \subseteq Days /\ lost \subseteq Days
    /\ counter \in [Months -> Nat] /\ expiry \in [Months -> Nat] /\ drift \in [Months -> Nat]
    /\ roll.month \in Months /\ roll.sum \in Nat /\ roll.overlap \in Nat

\* Every day belongs to a month of the model.
LEMMA MonthsOfDays ==
    (\A d \in Days : Month(d) \in Months) /\ NoRoll.month \in Months /\ Months \subseteq Nat
<1>1. \A d \in Days : Month(d) \in Months
  BY DEF Months
<1>2. Month(0) = 0
  BY CalendarAssumption DEF Month
<1>3. Months \subseteq Nat
  BY MonthBegins, DaysAreNumbers DEF Months
<1> QED BY <1>1, <1>2, <1>3, DaysAreNumbers DEF NoRoll

\* A call leaves the rollup with its month and its sum.
LEMMA OverlapKeeps ==
    ASSUME Shape, Kept, NEW c \in Calls, Overlap(c) \/ roll' = roll
    PROVE  /\ roll'.pc = roll.pc /\ roll'.month = roll.month /\ roll'.sum = roll.sum
           /\ roll'.overlap \in Nat
           /\ Overlap(c) /\ roll.pc = "set" => roll'.overlap = roll.overlap + call[c].tokens
<1>0. call[c].tokens \in Nat
  BY DEF Shape, Call, Tokens
<1> QED BY <1>0 DEF Shape, Kept, RollShape, Overlap

\* Steps of a call that has no alert under way keep it.
LEMMA PlainKeeps ==
    ASSUME Shape, Kept, NEW c \in Calls, Plain(c)
    PROVE  Kept'
<1> USE DEF storeVars, rollVars, alertVars, countVars
<1>0. /\ call[c].stamp \in Days /\ call[c].tokens \in Nat /\ day \in Days
      /\ Month(call[c].stamp) \in Months /\ Month(day) \in Months
  BY MonthsOfDays DEF Shape, Call, Tokens
<1>a. CounterTtl \in Nat /\ day \in Nat
  BY <1>0, CalendarAssumption, DaysAreNumbers
<1>1. Overlap(c) \/ roll' = roll
  BY DEF Plain, StartChat, StartOnce, Answered, Fails, Streams, Embeds, Outcome, CommitEvent,
         EventFails, Count, Finish
<1>2. roll'.month \in Months /\ roll'.sum \in Nat /\ roll'.overlap \in Nat
  BY <1>1, OverlapKeeps DEF Kept
<1>3. UNCHANGED <<policy, alarm, lost>>
  BY PlainMoves
<1>4. CASE CommitEvent(c)
  <2>1. noted' \subseteq Days /\ late' \subseteq Days /\ UNCHANGED <<drift, counter, expiry>>
    BY <1>0, <1>4 DEF CommitEvent, Kept
  <2> QED BY <1>2, <1>3, <2>1 DEF Kept
<1>5. CASE EventFails(c)
  <2>1. drift' \in [Months -> Nat] /\ UNCHANGED <<noted, late, counter, expiry>>
    BY <1>0, <1>5 DEF EventFails, Drifts, Kept
  <2> QED BY <1>2, <1>3, <2>1 DEF Kept
<1>6. CASE Count(c)
  <2>1. NewTotal(c, Month(day)) \in Nat /\ Expiry(c, Month(day)) \in Nat
    BY <1>0, <1>a DEF NewTotal, Expiry, Kept
  <2>2. /\ counter' = [counter EXCEPT ![Month(day)] = NewTotal(c, Month(day))]
        /\ expiry' = [expiry EXCEPT ![Month(day)] = Expiry(c, Month(day))]
    BY <1>6 DEF Count
  <2>3. drift' \in [Months -> Nat] /\ UNCHANGED <<noted, late>>
    BY <1>0, <1>6 DEF Count, Kept
  <2> QED BY <1>0, <1>2, <1>3, <2>1, <2>2, <2>3 DEF Kept
<1>7. CASE ~CommitEvent(c) /\ ~EventFails(c) /\ ~Count(c)
  <2>1. UNCHANGED <<noted, late, drift, counter, expiry>>
    BY <1>7 DEF Plain, StartChat, StartOnce, Answered, Fails, Streams, Embeds, Outcome, Finish
  <2> QED BY <1>2, <1>3, <2>1 DEF Kept
<1> QED BY <1>4, <1>5, <1>6, <1>7

\* So does every step of a call.
LEMMA CallKeeps ==
    ASSUME Shape, Kept, NEW c \in Calls, CallNext(c)
    PROVE  Kept'
<1> USE DEF storeVars, rollVars, alertVars, countVars
<1>0. /\ call[c].stamp \in Days /\ day \in Days /\ Month(call[c].stamp) \in Months
      /\ call[c].tokens \in Nat
  BY MonthsOfDays DEF Shape, Call, Tokens
<1>1. CASE AlertKey(c) \/ AlertAudit(c) \/ Stops(c)
  <2>1. UNCHANGED <<noted, late, roll, policy, counter, expiry>>
    BY <1>1, AlertMoves
  <2>2. alarm' \subseteq Days /\ lost' \subseteq Days /\ drift' \in [Months -> Nat]
    BY <1>0, <1>1 DEF AlertKey, AlertAudit, Stops, Drifts, Kept
  <2> QED BY <2>1, <2>2 DEF Kept
<1> QED BY <1>1, PlainKeeps DEF CallNext, Plain

\* So do the rollup and midnight.
LEMMA RollKeeps ==
    ASSUME Shape, Kept, FewCounting, RollNext \/ NextDay
    PROVE  Kept'
<1> USE DEF storeVars, rollVars, alertVars, countVars
<1> DEFINE now == Month(day)
           many == Cardinality(Counting(now))
<1>0. /\ NoRoll.month \in Months /\ NoRoll.sum \in Nat /\ NoRoll.overlap \in Nat
      /\ now \in Months /\ Total(raw, now) \in Nat /\ Total(metered, now) \in Nat
      /\ day \in Nat /\ CounterTtl \in Nat
  BY MonthsOfDays, DaysAreNumbers, TotalIsNumber, CalendarAssumption DEF NoRoll, Shape
<1>a. many \in Nat
  BY <1>0, CountingIsNumber
<1>1. policy' = policy /\ UNCHANGED <<alarm, lost>>
  BY RollKeepsShape DEF RollNext, RollStart, AggregateDay, SumMonth, Reconcile, PurgeEvents,
     RollFails, NextDay
<1>2. noted' \subseteq Days /\ late' \subseteq Days
  BY DEF RollNext, RollStart, AggregateDay, SumMonth, Reconcile, PurgeEvents, RollFails, NextDay,
     Kept
<1>3. CASE SumMonth
  <2>1. CASE \E d \in noted : Month(d) = Month(day)
    <3>1. roll' = [pc |-> "set", target |-> 0, month |-> Month(day),
                   sum |-> Total(raw, Month(day)), overlap |-> Cardinality(Counting(Month(day)))]
      BY <1>3, <2>1 DEF SumMonth
    <3>2. roll'.month \in Months /\ roll'.sum \in Nat /\ roll'.overlap \in Nat
      BY <1>0, <1>a, <3>1
    <3> QED BY <1>1, <1>2, <1>3, <3>2 DEF SumMonth, Kept
  <2>2. CASE ~\E d \in noted : Month(d) = Month(day)
    <3>1. roll' = [NoRoll EXCEPT !.pc = "purge"]
      BY <1>3, <2>2 DEF SumMonth
    <3>2. roll'.month \in Months /\ roll'.sum \in Nat /\ roll'.overlap \in Nat
      BY <1>0, <3>1 DEF NoRoll
    <3> QED BY <1>1, <1>2, <1>3, <3>2 DEF SumMonth, Kept
  <2> QED BY <2>1, <2>2
<1>4. CASE Reconcile
  <2>1. roll'.month \in Months /\ roll'.sum \in Nat /\ roll'.overlap \in Nat
    BY <1>0, <1>4 DEF Reconcile, NoRoll
  <2>2. Residue(now) \in Nat
    BY <1>0, <1>a DEF Residue, Kept
  <2>3. counter' \in [Months -> Nat] /\ expiry' \in [Months -> Nat] /\ drift' \in [Months -> Nat]
    BY <1>0, <1>4, <2>2 DEF Reconcile, Reconciled, Kept
  <2> QED BY <1>1, <1>2, <2>1, <2>3 DEF Kept
<1>5. CASE RollStart \/ AggregateDay \/ PurgeEvents \/ RollFails
  <2>1. roll'.month \in Months /\ roll'.sum \in Nat /\ roll'.overlap \in Nat
    BY <1>0, <1>5 DEF RollStart, AggregateDay, PurgeEvents, RollFails, NoRoll
  <2>2. UNCHANGED <<counter, expiry, drift>>
    BY <1>5 DEF RollStart, AggregateDay, PurgeEvents, RollFails
  <2> QED BY <1>1, <1>2, <2>1, <2>2 DEF Kept
<1>6. CASE NextDay
  BY <1>1, <1>2, <1>6 DEF NextDay, Kept
<1> QED BY <1>3, <1>4, <1>5, <1>6 DEF RollNext

\* It holds in every reachable state.
LEMMA KeptInvariant == Spec => []Kept
<1>1. Init => Kept
  <2> SUFFICES ASSUME Init PROVE Kept
    OBVIOUS
  <2>1. roll.month \in Months /\ roll.sum \in Nat /\ roll.overlap \in Nat
    BY MonthsOfDays DEF Init, NoRoll
  <2> QED BY <2>1 DEF Init, Kept
<1>2. Shape /\ Kept /\ FewCounting /\ [Next]_vars => Kept'
  <2> SUFFICES ASSUME Shape, Kept, FewCounting, [Next]_vars PROVE Kept'
    OBVIOUS
  <2>1. CASE UNCHANGED vars
    BY <2>1 DEF vars, Kept
  <2>2. ASSUME NEW m \in Months, CounterExpires(m) PROVE Kept'
    <3>1. counter' \in [Months -> Nat] /\ expiry' \in [Months -> Nat]
      BY <2>2 DEF CounterExpires, Kept
    <3> QED BY <2>2, <3>1, ExpiryMoves DEF Kept
  <2> QED BY <2>1, <2>2, CallKeeps, RollKeeps DEF Next, RollNext
<1> QED BY <1>1, <1>2, ShapeInvariant, FewInvariant, PTL DEF Spec

\* Every variable keeps its type: among others the counters and the sums that the rollup
\* sets them to are numbers, and the day, the month and the stamps are within the calendar.
THEOREM TypeCorrect == Spec => []TypeOK
<1>1. Shape /\ Kept => TypeOK
  BY DEF Shape, RollShape, RollPlaces, Kept, TypeOK
<1> QED BY <1>1, ShapeInvariant, KeptInvariant, PTL

----------------------------------------------------------------------------
(* The quota counter                                                       *)

Calling(m) == Cardinality(Counting(m))

\* Counter and events of a month differ by its drift at most.
Within(m) ==
    /\ counter[m] + Calling(m) <= Total(metered, m) + drift[m]
    /\ Total(metered, m) <= counter[m] + Calling(m) + drift[m]

\* The calls between their event and their count have one token each.
OneToken == \A c \in Calls : At(c, "count") => call[c].tokens = 1

\* What the rollup is about to set misses the calls that it overlapped, no more.
SumIsClose ==
    roll.pc = "set" =>
        /\ roll.sum <= Total(metered, roll.month)
        /\ Total(metered, roll.month) <= roll.sum + roll.overlap
        /\ Calling(roll.month) <= roll.overlap

\* A counter lives to the end of the month after its own.
ExpiryIsLate == \A m \in Months : expiry[m] # 0 => m + 2 <= Month(expiry[m])

QuotaInv ==
    /\ OneToken
    /\ \A m \in Months : Month(day) <= m + 1 => Within(m)
    /\ SumIsClose
    /\ ExpiryIsLate

\* Steps that leave the events, the counter and the calls that are to count alone.
LEMMA QuietQuota ==
    ASSUME QuotaInv, UNCHANGED <<counter, expiry, metered, drift>>,
           \A m \in Months : Month(day') <= m + 1 => Month(day) <= m + 1,
           roll' = roll \/ roll'.pc # "set",
           \A c \in Calls : call'[c] = call[c] \/ (~At(c, "count") /\ ~At(c, "count")')
    PROVE  QuotaInv'
<1>1. \A c \in Calls : (At(c, "count")' <=> At(c, "count")) /\ (At(c, "count") => call'[c] = call[c])
  BY DEF At
<1>2. \A m : Counting(m)' = Counting(m)
  BY <1>1 DEF Counting
<1>3. \A m : Total(metered, m)' = Total(metered, m) /\ Calling(m)' = Calling(m)
  BY <1>2 DEF Calling
<1>4. OneToken' /\ ExpiryIsLate'
  BY <1>1 DEF QuotaInv, OneToken, ExpiryIsLate, Months, Month
<1>5. SumIsClose'
  BY <1>3 DEF QuotaInv, SumIsClose
<1>6. \A m \in Months : Within(m)' <=> Within(m)
  BY <1>3 DEF Within
<1>7. Months' = Months /\ Month(day)' = Month(day')
  BY DEF Months, Month
<1>8. \A m \in Months' : Month(day)' <= m + 1 => Within(m)'
  BY <1>6, <1>7 DEF QuotaInv
<1> QED BY <1>4, <1>5, <1>8 DEF QuotaInv

\* A call goes on to count with the tokens and the stamp of its event.
LEMMA GoesToCount ==
    ASSUME Shape, NEW c \in Calls, Goto(c, AfterEvent(c))
    PROVE  /\ call[c].tokens > 0 => /\ call'[c].pc = "count" /\ call'[c].tokens = 1
                                    /\ call'[c].stamp = call[c].stamp
           /\ ~(call[c].tokens > 0) => call'[c].pc = "end" /\ call[c].tokens = 0
<1>0. call \in [Calls -> Call] /\ call[c] \in Call /\ call[c].tokens \in {0, 1}
  BY DEF Shape, Call, Tokens
<1>1. CASE call[c].tokens > 0
  <2> DEFINE new == [call[c] EXCEPT !.pc = "count"]
  <2>1. call' = [call EXCEPT ![c] = new]
    BY <1>1 DEF Goto, AfterEvent
  <2>2. new.pc = "count" /\ new.tokens = call[c].tokens /\ new.stamp = call[c].stamp
    BY <1>0 DEF Call
  <2> HIDE DEF new
  <2> QED BY <1>0, <1>1, <2>1, <2>2
<1>2. CASE ~(call[c].tokens > 0)
  BY <1>0, <1>2, CallTypes DEF AfterEvent, Places
<1> QED BY <1>1, <1>2

\* An event that is stored, or not: the call is to count by then, and overlaps a rollup that
\* is about to set the counter.
LEMMA EventQuota ==
    ASSUME Shape, Kept, FewCounting, QuotaInv, NEW c \in Calls, CommitEvent(c) \/ EventFails(c)
    PROVE  QuotaInv'
<1> USE DEF storeVars, rollVars, alertVars, countVars
<1> DEFINE s == call[c].stamp
           n == call[c].tokens
<1>0. /\ s \in Days /\ n \in {0, 1} /\ metered \in [Days -> Nat] /\ Month(s) \in Months
      /\ counter \in [Months -> Nat] /\ drift \in [Months -> Nat] /\ roll.month \in Months
      /\ roll.sum \in Nat /\ roll.overlap \in Nat
  BY MonthsOfDays DEF Shape, Kept, Call, Tokens
<1>1. /\ At(c, "commit") /\ Goto(c, AfterEvent(c)) /\ Overlap(c)
      /\ UNCHANGED <<counter, expiry, day>>
      /\ \A b \in Calls \ {c} : call'[b] = call[b]
  BY PlainMoves DEF Plain, CommitEvent, EventFails
<1>2. /\ roll'.pc = roll.pc /\ roll'.month = roll.month /\ roll'.sum = roll.sum
      /\ roll.pc = "set" => roll'.overlap = roll.overlap + n
  BY <1>1, OverlapKeeps
<1>3. \A m : c \notin Counting(m)
  BY <1>1 DEF Counting, At
<1>4. \A m \in Months : Calling(m) \in Nat /\ IsFiniteSet(Counting(m)) /\ Total(metered, m) \in Nat
  BY <1>0, CountingIsNumber, TotalIsNumber DEF Calling
<1>5. \A m \in Months : Calling(m)' = IF Month(s) = m THEN Calling(m) + n ELSE Calling(m)
  <2>1. CASE n = 0
    <3>1. call'[c].pc = "end"
      BY <1>0, <1>1, <2>1, GoesToCount
    <3>2. \A m : Counting(m)' = Counting(m)
      BY <1>1, <1>3, <3>1, CountingMoves DEF At
    <3> QED BY <1>4, <2>1, <3>2 DEF Calling
  <2>2. CASE n = 1
    <3>1. call'[c].pc = "count" /\ call'[c].stamp = s
      BY <1>0, <1>1, <2>2, GoesToCount
    <3>2. \A m : Counting(m)' = IF Month(s) = m THEN Counting(m) \cup {c} ELSE Counting(m)
      BY <1>1, <1>3, <3>1, CountingMoves DEF At
    <3> QED BY <1>3, <1>4, <2>2, <3>2, FS_AddElement DEF Calling
  <2> QED BY <1>0, <2>1, <2>2
<1>6. OneToken'
  <2>1. ~At(c, "count")' \/ call'[c].tokens = 1
    BY <1>0, <1>1, GoesToCount DEF At
  <2> QED BY <1>1, <2>1 DEF QuotaInv, OneToken, At
<1>7. ExpiryIsLate' /\ Months' = Months /\ Month(day)' = Month(day)
  BY <1>1 DEF QuotaInv, ExpiryIsLate, Months, Month
<1> HIDE DEF s, n
<1>8. CASE CommitEvent(c)
  <2>1. drift' = drift /\ metered' = [metered EXCEPT ![s] = @ + n]
    BY <1>8 DEF CommitEvent, s, n
  <2>2. \A x \in Days : metered'[x] = IF x = s THEN metered[x] + n ELSE metered[x]
    BY <1>0, <2>1
  <2>3. \A m : Total(metered', m) = IF Month(s) = m THEN Total(metered, m) + n ELSE Total(metered, m)
    <3> SUFFICES ASSUME NEW m
                 PROVE  Total(metered', m) = IF Month(s) = m THEN Total(metered, m) + n
                                             ELSE Total(metered, m)
      OBVIOUS
    <3>1. n \in Nat
      BY <1>0
    <3> QED BY <1>0, <2>2, <3>1, TotalAdds
  <2>4. ASSUME NEW m \in Months, Within(m) PROVE Within(m)'
    <3>1. counter[m] \in Nat /\ drift[m] \in Nat /\ counter'[m] = counter[m] /\ drift'[m] = drift[m]
      BY <1>0, <1>1, <2>1
    <3>2. CASE Month(s) = m
      BY <1>0, <1>4, <1>5, <2>3, <2>4, <3>1, <3>2 DEF Within
    <3>3. CASE Month(s) # m
      BY <1>4, <1>5, <2>3, <2>4, <3>1, <3>3 DEF Within
    <3> QED BY <3>2, <3>3
  <2>5. SumIsClose'
    <3>0. PICK m \in Months : m = roll.month
      BY <1>0
    <3>1. CASE roll.pc = "set"
      <4>1. /\ roll.sum <= Total(metered, m) /\ Total(metered, m) <= roll.sum + roll.overlap
            /\ Calling(m) <= roll.overlap
        BY <3>0, <3>1 DEF QuotaInv, SumIsClose
      <4>2. CASE Month(s) = m
        <5>1. Total(metered', m) = Total(metered, m) + n /\ Calling(m)' = Calling(m) + n
          BY <1>5, <2>3, <4>1, <4>2
        <5>2. /\ roll.sum <= Total(metered', m) /\ Total(metered', m) <= roll.sum + roll'.overlap
              /\ Calling(m)' <= roll'.overlap
          BY <1>0, <1>2, <1>4, <3>1, <4>1, <5>1
        <5> QED BY <1>2, <3>0, <5>2 DEF SumIsClose, Calling, Counting, At
      <4>3. CASE Month(s) # m
        <5>1. Total(metered', m) = Total(metered, m) /\ Calling(m)' = Calling(m)
          BY <1>5, <2>3, <4>1, <4>3
        <5>2. /\ roll.sum <= Total(metered', m) /\ Total(metered', m) <= roll.sum + roll'.overlap
              /\ Calling(m)' <= roll'.overlap
          BY <1>0, <1>2, <1>4, <3>1, <4>1, <5>1
        <5> QED BY <1>2, <3>0, <5>2 DEF SumIsClose, Calling, Counting, At
      <4> QED BY <4>2, <4>3
    <3>2. CASE roll.pc # "set"
      BY <1>2, <3>2 DEF SumIsClose
    <3> QED BY <3>1, <3>2
  <2> QED BY <1>6, <1>7, <2>4, <2>5 DEF QuotaInv
<1>9. CASE EventFails(c)
  <2>1. metered' = metered /\ drift' = [drift EXCEPT ![Month(s)] = @ + n]
    BY <1>9 DEF EventFails, Drifts, s, n
  <2>2. \A m : Total(metered', m) = Total(metered, m)
    BY <2>1
  <2>3. ASSUME NEW m \in Months, Within(m) PROVE Within(m)'
    <3>1. /\ counter[m] \in Nat /\ drift[m] \in Nat /\ counter'[m] = counter[m]
          /\ drift'[m] = IF Month(s) = m THEN drift[m] + n ELSE drift[m]
      BY <1>0, <1>1, <2>1
    <3>2. CASE Month(s) = m
      BY <1>0, <1>4, <1>5, <2>2, <2>3, <3>1, <3>2 DEF Within
    <3>3. CASE Month(s) # m
      BY <1>4, <1>5, <2>2, <2>3, <3>1, <3>3 DEF Within
    <3> QED BY <3>2, <3>3
  <2>4. SumIsClose'
    <3>0. PICK m \in Months : m = roll.month
      BY <1>0
    <3>1. CASE roll.pc = "set"
      <4>1. /\ roll.sum <= Total(metered, m) /\ Total(metered, m) <= roll.sum + roll.overlap
            /\ Calling(m) <= roll.overlap
        BY <3>0, <3>1 DEF QuotaInv, SumIsClose
      <4>2. Calling(m)' <= Calling(m) + n /\ Calling(m)' \in Nat
        BY <1>0, <1>4, <1>5, <4>1
      <4>3. /\ roll.sum <= Total(metered', m) /\ Total(metered', m) <= roll.sum + roll'.overlap
            /\ Calling(m)' <= roll'.overlap
        BY <1>0, <1>2, <1>4, <2>2, <3>1, <4>1, <4>2
      <4> QED BY <1>2, <3>0, <4>3 DEF SumIsClose, Calling, Counting, At
    <3>2. CASE roll.pc # "set"
      BY <1>2, <3>2 DEF SumIsClose
    <3> QED BY <3>1, <3>2
  <2> QED BY <1>6, <1>7, <2>3, <2>4 DEF QuotaInv
<1> QED BY <1>8, <1>9

\* A count, or a call that dies before it.
LEMMA CountQuota ==
    ASSUME Shape, Kept, FewCounting, QuotaInv, NEW c \in Calls, At(c, "count"), Count(c) \/ Stops(c)
    PROVE  QuotaInv'
<1> USE DEF storeVars, rollVars, alertVars, countVars
<1> DEFINE s == call[c].stamp
           now == Month(day)
<1>0. /\ s \in Days /\ Month(s) \in Months /\ now \in Months /\ day \in Nat
      /\ counter \in [Months -> Nat] /\ drift \in [Months -> Nat] /\ expiry \in [Months -> Nat]
      /\ metered \in [Days -> Nat] /\ roll.month \in Months /\ roll.overlap \in Nat
  BY MonthsOfDays, DaysAreNumbers DEF Shape, Kept, Call
<1>1. /\ \A b \in Calls \ {c} : call'[b] = call[b]
      /\ call'[c].pc # "count" /\ UNCHANGED <<roll, metered, day>>
  <2>1. CASE Count(c)
    <3>1. PICK p \in {"alert", "end"} : Goto(c, p)
      BY <2>1 DEF Count
    <3>2. call'[c].pc # "count"
      BY <3>1, CallTypes DEF Places
    <3> QED BY <2>1, <3>2, PlainMoves DEF Plain, Count
  <2>2. CASE Stops(c)
    BY <2>2, AlertMoves
  <2> QED BY <2>1, <2>2
<1>2. \A m : Counting(m)' = Counting(m) \ {c}
  BY <1>1, CountingMoves DEF At
<1>3. \A m : c \in Counting(m) <=> Month(s) = m
  BY DEF Counting
<1>4. \A m \in Months : Calling(m) \in Nat /\ IsFiniteSet(Counting(m)) /\ Total(metered, m) \in Nat
  BY <1>0, CountingIsNumber, TotalIsNumber DEF Calling
<1>5. \A m \in Months : /\ Calling(m)' = IF Month(s) = m THEN Calling(m) - 1 ELSE Calling(m)
                        /\ Month(s) = m => Calling(m) >= 1
  <2> SUFFICES ASSUME NEW m \in Months
               PROVE  /\ Calling(m)' = IF Month(s) = m THEN Calling(m) - 1 ELSE Calling(m)
                      /\ Month(s) = m => Calling(m) >= 1
    OBVIOUS
  <2>1. Cardinality(Counting(m) \ {c}) = IF Month(s) = m THEN Calling(m) - 1 ELSE Calling(m)
    BY <1>3, <1>4, FS_RemoveElement DEF Calling
  <2>2. Cardinality(Counting(m) \ {c}) \in Nat
    BY <1>4, FS_RemoveElement, FS_CardinalityType
  <2>3. Calling(m)' = Cardinality(Counting(m) \ {c})
    BY <1>2 DEF Calling
  <2> HIDE DEF s
  <2> QED BY <1>4, <2>1, <2>2, <2>3
<1>6. OneToken' /\ Months' = Months /\ Month(day)' = Month(day)
  BY <1>1 DEF QuotaInv, OneToken, At, Months, Month
<1>7. SumIsClose'
  <2>0. PICK m \in Months : m = roll.month
    BY <1>0
  <2>1. CASE roll.pc = "set"
    <3>1. /\ roll.sum <= Total(metered, m) /\ Total(metered, m) <= roll.sum + roll.overlap
          /\ Calling(m) <= roll.overlap
      BY <2>0, <2>1 DEF QuotaInv, SumIsClose
    <3>2. Calling(m)' <= Calling(m) /\ Calling(m)' \in Nat
      BY <1>4, <1>5, <3>1
    <3>3. Calling(m)' <= roll.overlap
      BY <1>0, <1>4, <3>1, <3>2
    <3> QED BY <1>1, <2>0, <3>1, <3>3 DEF SumIsClose, Calling, Counting, At
  <2>2. CASE roll.pc # "set"
    BY <1>1, <2>2 DEF SumIsClose
  <2> QED BY <2>1, <2>2
<1> HIDE DEF s, now
<1>8. CASE Stops(c)
  <2>1. UNCHANGED <<counter, expiry>> /\ drift' = [drift EXCEPT ![Month(s)] = @ + 1]
    BY <1>8 DEF Stops, Drifts, QuotaInv, OneToken, s
  <2>2. ExpiryIsLate'
    BY <2>1 DEF QuotaInv, ExpiryIsLate, Months, Month
  <2>3. ASSUME NEW m \in Months, Within(m) PROVE Within(m)'
    <3>1. /\ counter[m] \in Nat /\ drift[m] \in Nat /\ counter'[m] = counter[m]
          /\ drift'[m] = IF Month(s) = m THEN drift[m] + 1 ELSE drift[m]
      BY <1>0, <2>1
    <3>2. Total(metered', m) = Total(metered, m)
      BY <1>1
    <3> QED BY <1>4, <1>5, <2>3, <3>1, <3>2 DEF Within
  <2> QED BY <1>6, <1>7, <2>2, <2>3 DEF QuotaInv
<1>9. CASE Count(c)
  <2>1. /\ counter' = [counter EXCEPT ![now] = @ + 1]
        /\ expiry' = [expiry EXCEPT ![now] = Expiry(c, now)]
        /\ drift' = [m \in Months |-> IF now # Month(s) /\ m \in {now, Month(s)}
                                      THEN drift[m] + 1 ELSE drift[m]]
    BY <1>9 DEF Count, NewTotal, QuotaInv, OneToken, s, now
  <2>2. ExpiryIsLate'
    <3>1. day + CounterTtl \in Nat /\ Month(day) + 2 <= Month(day + CounterTtl)
      <4>1. CounterTtl \in Nat /\ MonthLen \in Nat /\ CounterTtl >= 2 * MonthLen
        BY CalendarAssumption
      <4>2. day + CounterTtl >= day + 2 * MonthLen
        BY <1>0, <4>1
      <4> QED BY <1>0, <4>1, <4>2, MonthsPass
    <3>2. ASSUME NEW m \in Months, expiry'[m] # 0 PROVE m + 2 <= Month(expiry'[m])
      <4>1. CASE m = now
        <5>1. expiry'[m] = day + CounterTtl \/ expiry'[m] = expiry[m]
          BY <1>0, <2>1, <4>1 DEF Expiry
        <5> QED BY <3>1, <3>2, <4>1, <5>1 DEF QuotaInv, ExpiryIsLate, now
      <4>2. CASE m # now
        BY <1>0, <2>1, <3>2, <4>2 DEF QuotaInv, ExpiryIsLate
      <4> QED BY <4>1, <4>2
    <3> QED BY <1>6, <3>2 DEF ExpiryIsLate, Month
  <2>3. ASSUME NEW m \in Months, Within(m) PROVE Within(m)'
    <3>1. Total(metered', m) = Total(metered, m) /\ counter[m] \in Nat /\ drift[m] \in Nat
      BY <1>0, <1>1
    <3>2. /\ counter'[m] = IF m = now THEN counter[m] + 1 ELSE counter[m]
          /\ drift'[m] = IF now # Month(s) /\ m \in {now, Month(s)} THEN drift[m] + 1 ELSE drift[m]
      BY <1>0, <2>1
    <3> QED BY <1>4, <1>5, <2>3, <3>1, <3>2 DEF Within
  <2> QED BY <1>6, <1>7, <2>2, <2>3 DEF QuotaInv
<1> QED BY <1>8, <1>9

\* Any step of a call.
LEMMA CallQuota ==
    ASSUME Shape, Kept, FewCounting, QuotaInv, NEW c \in Calls, CallNext(c)
    PROVE  QuotaInv'
<1> USE DEF storeVars, rollVars, alertVars, countVars
<1>1. CASE CommitEvent(c) \/ EventFails(c)
  BY <1>1, EventQuota
<1>2. CASE Count(c) \/ (At(c, "count") /\ Stops(c))
  <2>1. At(c, "count")
    BY <1>2 DEF Count
  <2> QED BY <1>2, <2>1, CountQuota
<1>3. CASE AlertKey(c) \/ AlertAudit(c) \/ (~At(c, "count") /\ Stops(c))
  <2>1. ~At(c, "count") /\ drift' = drift
    BY <1>3 DEF AlertKey, AlertAudit, Stops, At
  <2>2. /\ \A b \in Calls \ {c} : call'[b] = call[b]
        /\ ~At(c, "count")' /\ UNCHANGED <<counter, expiry, metered, roll, day>>
    BY <1>3, AlertMoves DEF At
  <2> QED BY <2>1, <2>2, QuietQuota
<1>4. CASE Plain(c) /\ ~CommitEvent(c) /\ ~EventFails(c) /\ ~Count(c)
  <2>1. ~At(c, "count") /\ ~At(c, "count")' /\ day' = day /\ \A b \in Calls \ {c} : call'[b] = call[b]
    BY <1>4, PlainMoves DEF At
  <2>2. UNCHANGED <<counter, expiry, metered, drift, roll>>
    BY <1>4 DEF Plain, StartChat, StartOnce, Answered, Fails, Streams, Embeds, Outcome, Finish
  <2> QED BY <2>1, <2>2, QuietQuota
<1> QED BY <1>1, <1>2, <1>3, <1>4 DEF CallNext, Plain

\* The rollup reads the sum of the month, all of whose events are there, and sets the counter.
LEMMA RollQuota ==
    ASSUME Shape, Kept, FewCounting, StoreInv, QuotaInv, RollNext \/ NextDay
    PROVE  QuotaInv'
<1> USE DEF storeVars, rollVars, alertVars, countVars
<1> DEFINE now == Month(day)
<1>0. /\ day \in Days /\ day \in Nat /\ now \in Months /\ Days \subseteq Nat
      /\ counter \in [Months -> Nat] /\ raw \in [Days -> Nat] /\ metered \in [Days -> Nat]
      /\ drift \in [Months -> Nat] /\ expiry \in [Months -> Nat]
      /\ roll.sum \in Nat /\ roll.overlap \in Nat /\ Months \subseteq Nat
  BY MonthsOfDays, DaysAreNumbers DEF Shape, Kept
<1>1. /\ call' = call /\ (OneToken' <=> OneToken) /\ Months' = Months
      /\ \A m : Counting(m)' = Counting(m)
  BY RollKeepsShape DEF Counting, At, Months, OneToken
<1>2. /\ metered' = metered
      /\ \A m : Total(metered, m)' = Total(metered, m) /\ Calling(m)' = Calling(m)
  BY <1>1 DEF RollNext, RollStart, AggregateDay, SumMonth, Reconcile, PurgeEvents, RollFails,
              NextDay, Calling
<1>a. \A m \in Months : Calling(m) \in Nat /\ Total(metered, m) \in Nat
  BY <1>0, CountingIsNumber, TotalIsNumber DEF Calling
<1>3. CASE SumMonth
  <2>1. UNCHANGED <<counter, expiry, drift, day>>
    BY <1>3 DEF SumMonth
  <2>2. Total(raw, now) = Total(metered, now)
    <3>1. ASSUME NEW d \in DaysOf(now) PROVE raw[d] = metered[d]
      <4>1. d \in Days /\ d \in Nat /\ d + Retention > day
        BY <1>0, <3>1, MonthIsKept DEF DaysOf
      <4> QED BY <4>1 DEF StoreInv, DayStore, Whole
    <3> QED BY <1>0, <3>1, TotalAgrees
  <2>3. SumIsClose'
    <3>1. CASE \E d \in noted : Month(d) = now
      <4>1. roll' = [pc |-> "set", target |-> 0, month |-> now,
                     sum |-> Total(raw, now), overlap |-> Calling(now)]
        BY <1>3, <3>1 DEF SumMonth, Calling
      <4>2. PICK m \in Months : m = now
        BY <1>0
      <4>3. roll'.month = m /\ roll'.sum = Total(metered, m) /\ roll'.overlap = Calling(m)
        BY <2>2, <4>1, <4>2
      <4>4. /\ roll'.sum <= Total(metered', m) /\ Total(metered', m) <= roll'.sum + roll'.overlap
            /\ Calling(m)' <= roll'.overlap
        BY <1>2, <1>a, <4>3
      <4> QED BY <4>3, <4>4 DEF SumIsClose, Calling, Counting, At
    <3>2. CASE ~\E d \in noted : Month(d) = now
      BY <1>3, <3>2 DEF SumMonth, SumIsClose, NoRoll
    <3> QED BY <3>1, <3>2
  <2>4. \A m \in Months' : Month(day)' <= m + 1 => Within(m)'
    BY <1>1, <1>2, <2>1 DEF QuotaInv, Within, Month
  <2>5. ExpiryIsLate'
    BY <1>1, <2>1 DEF QuotaInv, ExpiryIsLate, Month
  <2> QED BY <1>1, <2>3, <2>4, <2>5 DEF QuotaInv
<1>4. CASE Reconcile
  <2>1. /\ counter' = [counter EXCEPT ![now] = roll.sum]
        /\ expiry' = [expiry EXCEPT ![now] = day + CounterTtl]
        /\ drift' = [drift EXCEPT ![now] = Residue(now)]
        /\ roll.pc = "set" /\ roll'.pc = "purge" /\ day' = day
    BY <1>4 DEF Reconcile, Reconciled, NoRoll
  <2>2. ASSUME NEW m \in Months, now <= m + 1 PROVE Within(m)'
    <3>0. Within(m) /\ Total(metered', m) = Total(metered, m)
      BY <1>2, <2>2 DEF QuotaInv
    <3>1. CASE m = now
      <4>1. counter'[m] = roll.sum /\ drift'[m] = Residue(m)
        BY <1>0, <2>1, <3>1
      <4>2. CASE roll.month = m
        <5>1. /\ roll.sum <= Total(metered, m) /\ Total(metered, m) <= roll.sum + roll.overlap
              /\ Calling(m) <= roll.overlap
          BY <2>1, <4>2 DEF QuotaInv, SumIsClose
        <5>2. Residue(m) = roll.overlap
          BY <4>2 DEF Residue
        <5> QED BY <1>0, <1>2, <1>a, <3>0, <4>1, <5>1, <5>2 DEF Within
      <4>3. CASE roll.month # m
        <5>1. Residue(m) = roll.sum + Total(metered, m) + Calling(m)
          BY <4>3 DEF Residue, Calling
        <5> QED BY <1>0, <1>2, <1>a, <3>0, <4>1, <5>1 DEF Within
      <4> QED BY <4>2, <4>3
    <3>2. CASE m # now
      <4>1. counter'[m] = counter[m] /\ drift'[m] = drift[m]
        BY <1>0, <2>1, <3>2
      <4> QED BY <1>2, <3>0, <4>1 DEF Within
    <3> QED BY <3>1, <3>2
  <2>3. ExpiryIsLate'
    <3>1. now + 2 <= Month(day + CounterTtl)
      <4>1. CounterTtl \in Nat /\ MonthLen \in Nat /\ CounterTtl >= 2 * MonthLen
        BY CalendarAssumption
      <4>2. day + CounterTtl >= day + 2 * MonthLen /\ day + CounterTtl \in Nat
        BY <1>0, <4>1
      <4> QED BY <1>0, <4>2, MonthsPass
    <3>2. ASSUME NEW m \in Months, expiry'[m] # 0 PROVE m + 2 <= Month(expiry'[m])
      <4>1. CASE m = now
        <5>1. expiry'[m] = day + CounterTtl
          BY <1>0, <2>1, <4>1
        <5> QED BY <3>1, <4>1, <5>1
      <4>2. CASE m # now
        BY <1>0, <2>1, <3>2, <4>2 DEF QuotaInv, ExpiryIsLate
      <4> QED BY <4>1, <4>2
    <3> QED BY <1>1, <3>2 DEF ExpiryIsLate, Month
  <2>4. SumIsClose'
    BY <2>1 DEF SumIsClose
  <2>5. Month(day)' = now
    BY <2>1 DEF Month
  <2> QED BY <1>1, <2>2, <2>3, <2>4, <2>5 DEF QuotaInv
<1>5. CASE RollStart \/ AggregateDay \/ PurgeEvents \/ RollFails \/ NextDay
  <2>1. UNCHANGED <<counter, expiry, drift>>
    BY <1>5 DEF RollStart, AggregateDay, PurgeEvents, RollFails, NextDay
  <2>2. roll' = roll \/ roll'.pc # "set"
    <3>1. CASE RollStart \/ AggregateDay
      BY <3>1 DEF RollStart, AggregateDay, NoRoll
    <3>2. CASE PurgeEvents \/ RollFails
      BY <3>2 DEF PurgeEvents, RollFails, NoRoll
    <3>3. CASE NextDay
      BY <3>3 DEF NextDay
    <3> QED BY <1>5, <3>1, <3>2, <3>3
  <2>3. day' \in Nat /\ day <= day'
    BY <1>0, <1>5 DEF RollStart, AggregateDay, PurgeEvents, RollFails, NextDay
  <2>4. Month(day) <= Month(day') /\ Month(day) \in Nat /\ Month(day') \in Nat
    BY <1>0, <2>3, MonthsPass, MonthBegins
  <2>5. \A m \in Months : Month(day') <= m + 1 => Month(day) <= m + 1
    BY <1>0, <2>4
  <2> QED BY <1>1, <1>2, <2>1, <2>2, <2>5, QuietQuota
<1> QED BY <1>3, <1>4, <1>5 DEF RollNext

\* A counter expires when the month after its own is over.
LEMMA ExpiryQuota ==
    ASSUME Shape, Kept, QuotaInv, NEW e \in Months, CounterExpires(e)
    PROVE  QuotaInv'
<1>0. /\ day \in Nat /\ expiry[e] \in Nat /\ Months \subseteq Nat
      /\ counter \in [Months -> Nat] /\ expiry \in [Months -> Nat]
  BY MonthsOfDays, DaysAreNumbers DEF Shape, Kept
<1>1. /\ expiry[e] # 0 /\ expiry[e] <= day
      /\ counter' = [counter EXCEPT ![e] = 0] /\ expiry' = [expiry EXCEPT ![e] = 0]
      /\ UNCHANGED <<day, call, metered, drift, roll>>
  BY <1>0, ExpiryMoves DEF CounterExpires
<1>2. /\ Months' = Months /\ Month(day)' = Month(day) /\ (OneToken' <=> OneToken)
      /\ \A m : Total(metered, m)' = Total(metered, m) /\ Calling(m)' = Calling(m)
  BY <1>1 DEF Months, Month, OneToken, At, Calling, Counting
<1>3. e + 2 <= Month(day)
  <2>1. e + 2 <= Month(expiry[e])
    BY <1>1 DEF QuotaInv, ExpiryIsLate
  <2>2. Month(expiry[e]) <= Month(day) /\ Month(expiry[e]) \in Nat /\ Month(day) \in Nat
    BY <1>0, <1>1, MonthsPass, MonthBegins
  <2> QED BY <1>0, <2>1, <2>2
<1>4. ASSUME NEW m \in Months, Month(day) <= m + 1 PROVE Within(m)'
  <2>1. m # e
    BY <1>0, <1>3, <1>4, MonthBegins
  <2>2. counter'[m] = counter[m] /\ Within(m)
    BY <1>0, <1>1, <1>4, <2>1 DEF QuotaInv
  <2> QED BY <1>1, <1>2, <2>2 DEF Within
<1>5. SumIsClose'
  BY <1>1, <1>2 DEF QuotaInv, SumIsClose
<1>6. ExpiryIsLate'
  BY <1>0, <1>1, <1>2 DEF QuotaInv, ExpiryIsLate, Month
<1> QED BY <1>2, <1>4, <1>5, <1>6 DEF QuotaInv

\* Whatever calls and rollups interleave, at midnight and at the turn of the month too: the
\* counter of this month and that of the month before, with the calls between their event and
\* their count, are off the tokens of the stored events by no more than the disturbances since
\* the last reconciliation, those of the calls which that one overlapped included (add_usage,
\* reconcile).  The retention covers the month, so the sum that reconcile sets misses no
\* event; the TTL covers two, so that neither counter has expired.
THEOREM QuotaStaysWithinDrift == Spec => []QuotaWithinDrift
<1>1. Init => QuotaInv
  <2> SUFFICES ASSUME Init PROVE QuotaInv
    OBVIOUS
  <2>1. \A m : Calling(m) = 0
    <3>1. \A m : Counting(m) = {}
      BY DEF Init, Counting, At, NewCall
    <3> QED BY <3>1, FS_EmptySet DEF Calling
  <2>2. \A m : Total(metered, m) = 0
    <3>1. \A m : \A d \in DaysOf(m) : metered[d] = 0
      BY DaysOfMonth DEF Init
    <3> QED BY <3>1, DaysOfMonth, TotalIsSum, SumOfZeros
  <2>3. \A m \in Months : Within(m)
    BY <2>1, <2>2 DEF Init, Within
  <2>4. OneToken /\ SumIsClose /\ ExpiryIsLate
    BY DEF Init, OneToken, SumIsClose, ExpiryIsLate, At, NewCall, NoRoll
  <2> QED BY <2>3, <2>4 DEF QuotaInv
<1>2. Shape /\ Kept /\ FewCounting /\ StoreInv /\ QuotaInv /\ [Next]_vars => QuotaInv'
  <2> SUFFICES ASSUME Shape, Kept, FewCounting, StoreInv, QuotaInv, [Next]_vars PROVE QuotaInv'
    OBVIOUS
  <2>1. CASE UNCHANGED vars
    BY <2>1, QuietQuota DEF vars
  <2> QED BY <2>1, CallQuota, RollQuota, ExpiryQuota DEF Next, RollNext
<1>3. QuotaInv => QuotaWithinDrift
  BY DEF QuotaInv, Within, Calling, QuotaWithinDrift
<1> QED BY <1>1, <1>2, <1>3, ShapeInvariant, KeptInvariant, FewInvariant, StoreInvariant, PTL
        DEF Spec

=============================================================================
