---------------------------- MODULE MCConnection ----------------------------
(***************************************************************************)
(* Instances of Connection for TLC: a Celery worker and a web worker.      *)
(***************************************************************************)
EXTENDS Connection, TLC

CONSTANTS celery, web

MCJobs ==
    (celery :> {"beat", "sync", "renew"})
    @@ (web :> {"use", "reconsent", "connect", "revoke"})

=============================================================================
