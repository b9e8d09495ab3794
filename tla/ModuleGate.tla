----------------------------- MODULE ModuleGate -----------------------------
(***************************************************************************)
(* What the activation gate of a module promises to its routes             *)
(* (require_module_enabled, apps/api/app/automation/service.py): a request *)
(* is admitted or refused on a state that the module had while the request *)
(* was asking, or less than Ttl before it asked.                           *)
(*                                                                         *)
(* No cache, no process and no database here: only the state of the module,*)
(* how long ago it had each value, and what each pending request may be    *)
(* told.                                                                   *)
(***************************************************************************)
EXTENDS Naturals

CONSTANTS Requests, \* who may ask
          Ttl       \* how old an answer may be, in ticks

VARIABLES state, \* the module is "on" or "off"
          age,   \* age[v]: ticks since the module was last v, up to Ttl
          may,   \* may[r]: what the pending request r may be told
          stage  \* stage[r]: where request r is

gateVars == <<state, age, may, stage>>

Values == {"on", "off"}

Stages == {"idle", "asked", "on", "off"}

Other(v) == IF v = "on" THEN "off" ELSE "on"

Recent == {v \in Values : age[v] < Ttl}

GateInit ==
    /\ state = "off"
    /\ age = [v \in Values |-> IF v = "off" THEN 0 ELSE Ttl]
    /\ may = [r \in Requests |-> {}]
    /\ stage = [r \in Requests |-> "idle"]

\* An administrator turns the module on or off: a pending request may be told.
Switch(v) ==
    /\ v # state
    /\ state' = v
    /\ age' = [age EXCEPT ![v] = 0]
    /\ may' = [r \in Requests |-> IF stage[r] = "asked" THEN may[r] \cup {v} ELSE may[r]]
    /\ UNCHANGED stage

Pass ==
    /\ age' = [age EXCEPT ![Other(state)] = IF @ < Ttl THEN @ + 1 ELSE @]
    /\ UNCHANGED <<state, may, stage>>

Ask(r) ==
    /\ stage[r] = "idle"
    /\ stage' = [stage EXCEPT ![r] = "asked"]
    /\ may' = [may EXCEPT ![r] = Recent]
    /\ UNCHANGED <<state, age>>

\* The stage of an answered request is the answer.
Answer(r, v) ==
    /\ stage[r] = "asked" /\ v \in may[r]
    /\ stage' = [stage EXCEPT ![r] = v]
    /\ may' = [may EXCEPT ![r] = {}]
    /\ UNCHANGED <<state, age>>

AnswerAtOnce(r, v) ==
    /\ stage[r] = "idle" /\ v \in Recent
    /\ stage' = [stage EXCEPT ![r] = v]
    /\ UNCHANGED <<state, age, may>>

\* Requests end, answered or not: their process may die under them.
Leave(R) ==
    /\ stage' = [r \in Requests |-> IF r \in R THEN "idle" ELSE stage[r]]
    /\ may' = [r \in Requests |-> IF r \in R THEN {} ELSE may[r]]
    /\ UNCHANGED <<state, age>>

GateNext ==
    \/ \E v \in Values : Switch(v)
    \/ Pass
    \/ \E r \in Requests : Ask(r)
    \/ \E r \in Requests, v \in Values : Answer(r, v) \/ AnswerAtOnce(r, v)
    \/ \E R \in SUBSET Requests : Leave(R)

GateSpec == GateInit /\ [][GateNext]_gateVars

=============================================================================
