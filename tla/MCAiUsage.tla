----------------------------- MODULE MCAiUsage -----------------------------
(***************************************************************************)
(* An instance of AiUsage for TLC: two calls over three months of one day, *)
(* so that a counter expires, with a provider that retains nothing and one *)
(* that does, and policies in which the fallback is refused, or takes over *)
(* from a provider that fails or has no key.                               *)
(***************************************************************************)
EXTENDS AiUsage, TLC

CONSTANTS c1, c2

MCPolicies ==
    { [allowed |-> {}, zero |-> TRUE, fallback |-> "openai", byok |-> {"mistral"}, quota |-> 0],
      [allowed |-> {}, zero |-> TRUE, fallback |-> "openai", byok |-> {}, quota |-> 0],
      [allowed |-> {"mistral", "openai"}, zero |-> FALSE, fallback |-> "openai", byok |-> {},
       quota |-> 1] }

Symmetry == Permutations(Calls)

=============================================================================
