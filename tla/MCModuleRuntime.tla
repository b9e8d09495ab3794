-------------------------- MODULE MCModuleRuntime --------------------------
(***************************************************************************)
(* Instances of ModuleRuntime for TLC: crews of three workers.  In the     *)
(* first, two web workers, in one process or in two, share the gate, and   *)
(* one of them turns the module on and off; in the second, two Celery      *)
(* workers publish and run units while a third turns the module on and off.*)
(***************************************************************************)
EXTENDS ModuleRuntime, TLC

CONSTANTS w1, w2, w3

Worker(jobs, home) == [jobs |-> jobs, home |-> home]

Celery(process) == Worker({"fanout", "unit"}, process)

MCCrews ==
    {(w1 :> Worker({"request"}, "a")) @@ (w2 :> Worker({"request", "enable", "disable"}, p))
        @@ (w3 :> Worker({}, "c")) : p \in {"a", "b"}}
    \cup
    {(w1 :> Celery("a")) @@ (w2 :> Worker({"enable", "disable"}, "b")) @@ (w3 :> Worker({"unit"}, "c"))}

=============================================================================
