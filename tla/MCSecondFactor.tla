--------------------------- MODULE MCSecondFactor ---------------------------
(***************************************************************************)
(* Instances of SecondFactor for TLC: three requests of a user who has one *)
(* session, and whose second factor is off, or on with a login under way.  *)
(***************************************************************************)
EXTENDS SecondFactor, TLC

CONSTANTS r1, r2, r3, old

FirstStep(kind) == [kind |-> kind, session |-> None, challenge |-> None, code |-> None]

SecondStep(c, of, step) ==
    [kind |-> "totp", session |-> None, challenge |-> c, code |-> [of |-> of, step |-> step]]

WithSession(kind) == [kind |-> kind, session |-> old, challenge |-> None, code |-> None]

Activation(of, step) == [WithSession("activate") EXCEPT !.code = [of |-> of, step |-> step]]

\* Codes of the old secret, its recovery code, and the first codes of the secret
\* r1 sets up, each possibly presented by several requests.
MCAsks ==
    (r1 :> {FirstStep("login"), FirstStep("oauth"), WithSession("setup"),
            SecondStep(old, old, 2), SecondStep(old, old, 0)})
    @@ (r2 :> {FirstStep("oauth"), WithSession("disable"), Activation(r1, 1),
               SecondStep(old, old, 2), SecondStep(old, old, 3), SecondStep(old, old, 0)})
    @@ (r3 :> {FirstStep("login"), WithSession("setup"), WithSession("disable"),
               WithSession("logout"), Activation(r1, 2),
               SecondStep(old, old, 2), SecondStep(r1, old, 1), SecondStep(r1, old, 0)})

=============================================================================
