----------------------------- MODULE MCWebhooks -----------------------------
(***************************************************************************)
(* An instance of Webhooks for TLC: a web worker that connects and revokes *)
(* while two Celery workers synchronise, renew and process events.         *)
(***************************************************************************)
EXTENDS Webhooks, TLC

CONSTANTS r1, t1, t2, k1, k2

=============================================================================
