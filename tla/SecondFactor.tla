---------------------------- MODULE SecondFactor ----------------------------
(***************************************************************************)
(* Logins, second factor and sessions of one user                          *)
(* (apps/api/app/auth: service.py, router.py, deps.py, oauth.py, tasks.py).*)
(*                                                                         *)
(* Each HTTP request is a process that runs once, on one READ COMMITTED    *)
(* transaction.  It works on the rows as its ORM session loaded them and   *)
(* writes back the columns it changed.  A pending change is flushed by the *)
(* next query, and its row stays locked from then until the commit.        *)
(*                                                                         *)
(* What a request creates (session, challenge, TOTP secret, recovery       *)
(* codes) is named after the request; the old names stand for what there   *)
(* was before.  One recovery code stands for those of an activation.       *)
(***************************************************************************)
EXTENDS Naturals

CONSTANTS Requests,  \* the requests that run, each once
          Olds,      \* names for what exists when the story starts
          Asks,      \* Asks[r]: what request r may ask for
          Aging,     \* bound: the sessions and challenges that may expire meanwhile
          MaxStep,   \* bound: the last TOTP time step
          None       \* "no name": a column that is NULL, a field not used

Sources == Requests \cup Olds

Steps == 1..MaxStep

\* A code as the user types it: the TOTP code of a secret at a time step, or,
\* with step 0, a recovery code.
Code == [of: Sources, step: 0..MaxStep]

Authenticated == {"setup", "activate", "disable", "logout"}

Kinds == {"login", "totp", "oauth"} \cup Authenticated

\* What a request presents: a session cookie, a challenge, a code.
Ask == [kind: {"login", "oauth"}, session: {None}, challenge: {None}, code: {None}]
  \cup [kind: {"totp"}, session: {None}, challenge: Sources, code: Code]
  \cup [kind: {"setup", "disable", "logout"}, session: Sources, challenge: {None}, code: {None}]
  \cup [kind: {"activate"}, session: Sources, challenge: {None}, code: Code]

ASSUME NamesAssumption == Requests \cap Olds = {} /\ None \notin Sources \cup Code
                          /\ Aging \subseteq Sources
ASSUME MaxStepAssumption == MaxStep \in Nat \ {0}
ASSUME AsksAssumption == Asks \in [Requests -> SUBSET Ask]

VARIABLES
    cred,      \* the user_credentials row: secret, totp_enabled, totp_last_counter
    sessions,  \* the sessions table
    chals,     \* the login_challenges table
    recovery,  \* the auth_recovery_codes table
    linked,    \* the oauth_identities row exists
    now,       \* the current TOTP time step
    req,       \* the requests: where they are and what they have loaded
    verified,  \* history: the secrets of which a first code was verified
    spent,     \* history: the codes that were accepted
    backed,    \* history: the counter of a secret went back
    raced      \* history: an enrolment step was committed on credentials changed meanwhile

tables == <<sessions, chals, recovery, linked>>
history == <<verified, spent, backed, raced>>
vars == <<cred, sessions, chals, recovery, linked, now, req, verified, spent, backed, raced>>

----------------------------------------------------------------------------
(* State                                                                   *)

Cred == [secret: Sources \cup {None}, enabled: BOOLEAN, last: 0..MaxStep]

Off == [secret |-> None, enabled |-> FALSE, last |-> 0]

SessionStates == {"none", "live", "revoked", "expired", "gone"}
ChallengeStates == {"none", "open", "used", "expired", "gone"}
RecoveryStates == {"none", "unused", "used", "gone"}

Ends == {"done", "failed"}
Places == {"new", "resolving", "ready", "consuming", "recovering", "matched", "failing",
           "loaded", "flushed"} \cup Ends

ReqRecord == [pc: Places, kind: Kinds \cup {"none"}, session: Sources \cup {None},
              challenge: Sources \cup {None}, code: Code \cup {None}, cred: Cred, late: BOOLEAN]

NewReq == [pc |-> "new", kind |-> "none", session |-> None, challenge |-> None, code |-> None,
           cred |-> Off, late |-> FALSE]

At(r, place, kinds) == req[r].pc = place /\ req[r].kind \in kinds

Goto(r, place) == req' = [req EXCEPT ![r].pc = place]

\* The request goes on with the credentials row as it is now.
Load(r, place) == req' = [req EXCEPT ![r].pc = place, ![r].cred = cred]

\* The handler returns or raises, and its ORM session is closed.
End(r, place) == req' = [req EXCEPT ![r].pc = place, ![r].cred = Off]

\* Load when the check passes, else the handler raises.
LoadIf(r, check, place) == IF check THEN Load(r, place) ELSE End(r, "failed")

\* The ORM writes a column only when its new value differs from the loaded one.
Column(loaded, new, current) == IF loaded = new THEN current ELSE new

\* Faulty variant: a failed second step leaves its transaction open.
HoldsChallengeForever(r) == req[r].kind = "totp" /\ req[r].pc \in {"recovering", "matched", "failing", "failed"}

\* Row locks: of a challenge from its flush to the end of the second step, of the
\* credentials from the flush to the commit of a disabling.
HoldsChallenge(r) == req[r].kind = "totp" /\ req[r].pc \in {"recovering", "matched", "failing"}

ChallengeFree(r) ==
    \A q \in Requests \ {r} : ~(HoldsChallenge(q) /\ req[q].challenge = req[r].challenge)

CredFree(r) == \A q \in Requests \ {r} : ~At(q, "flushed", {"disable"})

\* The credentials are no longer those the request loaded.
Changed(r) == req[r].cred.secret # cred.secret \/ req[r].cred.enabled # cred.enabled

Init ==
    /\ cred \in {Off} \cup [secret: Olds, enabled: {TRUE}, last: {1}]
    /\ sessions = [s \in Sources |-> IF s \in Olds THEN "live" ELSE "none"]
    /\ chals = [c \in Sources |-> IF c \in Olds /\ cred.enabled THEN "open" ELSE "none"]
    /\ recovery = [k \in Sources |-> IF k = cred.secret THEN "unused" ELSE "none"]
    /\ linked = FALSE
    /\ now = 1
    /\ req = [r \in Requests |-> NewReq]
    /\ verified = {cred.secret} \ {None}
    /\ spent = IF cred.enabled THEN {[of |-> cred.secret, step |-> 1]} ELSE {}
    /\ backed = FALSE /\ raced = FALSE

\* A request arrives with what it presents.
Arrive(r, ask, place) ==
    /\ req[r].pc = "new"
    /\ ask \in Asks[r]
    /\ req' = [req EXCEPT ![r] =
          [pc |-> place, kind |-> ask.kind, session |-> ask.session, challenge |-> ask.challenge,
           code |-> ask.code, cred |-> IF ask.kind = "login" THEN cred ELSE Off,
           late |-> ask.code \in spent]]
    /\ UNCHANGED <<cred, tables, now, history>>

----------------------------------------------------------------------------
(* First step: password or OAuth                                           *)

CreateSession(r) == [sessions EXCEPT ![r] = "live"]

CreateChallenge(r) == [chals EXCEPT ![r] = "open"]

\* authenticate, with the right password.
LoginRead(r, ask) == ask.kind = "login" /\ Arrive(r, ask, "loaded")

\* login: a challenge when the second factor was enabled, a session otherwise.
LoginCommit(r) ==
    /\ At(r, "loaded", {"login"})
    /\ IF req[r].cred.enabled
       THEN chals' = CreateChallenge(r) /\ UNCHANGED sessions
       ELSE sessions' = CreateSession(r) /\ UNCHANGED chals
    /\ End(r, "done")
    /\ UNCHANGED <<cred, recovery, linked, now, history>>

\* complete_login: the identity is known, or is about to be linked.
OAuthRead(r, ask) == ask.kind = "oauth" /\ Arrive(r, ask, IF linked THEN "ready" ELSE "loaded")

\* oauth_callback: a second link of the same identity breaks a unique index.
OAuthCommit(r) ==
    /\ At(r, "ready", {"oauth"}) \/ At(r, "loaded", {"oauth"})
    /\ IF req[r].pc = "loaded" /\ linked
       THEN End(r, "failed") /\ UNCHANGED <<sessions, linked>>
       ELSE /\ End(r, "done")
            /\ sessions' = CreateSession(r)
            /\ linked' = TRUE
    /\ UNCHANGED <<cred, chals, recovery, now, history>>

----------------------------------------------------------------------------
(* Second step: login_totp                                                 *)

\* consume_login_challenge: the challenge must be open when it is read.
ChallengeRead(r, ask) ==
    /\ ask.kind = "totp"
    /\ Arrive(r, ask, IF chals[ask.challenge] = "open" THEN "consuming" ELSE "failed")

\* Faulty variant: a code of the last accepted step passes again.
MatchesOffByOne(c, code) ==
    /\ code.step # 0 /\ code.of = c.secret
    /\ code.step \in {now - 1, now, now + 1}
    /\ c.last = 0 \/ code.step >= c.last

\* _verify_totp_code: the previous, current or next step, later than the last one.
Matches(c, code) ==
    /\ code.step # 0 /\ code.of = c.secret
    /\ code.step \in {now - 1, now, now + 1}
    /\ c.last = 0 \/ code.step > c.last

\* Faulty variant: the counter is one step ahead of the code.
AcceptAhead(c, code) == [c EXCEPT !.last = code.step + 1]

\* _verify_totp_code: the step of an accepted code is the new counter.
Accept(c, code) == [c EXCEPT !.last = code.step]

\* Faulty variant: the challenge's UPDATE is not flushed before the credentials
\* are read, and locks nothing.
VerifyUnlocked(r) ==
    /\ At(r, "consuming", {"totp"})
    /\ Goto(r, IF cred.enabled /\ Matches(cred, req[r].code) THEN "matched" ELSE "failing")
    /\ UNCHANGED <<cred, tables, now, history>>

\* verify_second_factor: reading the credentials flushes the consumption of the
\* challenge, which waits for its row, and raises if the row is gone.  An enabled
\* second factor without a secret raises too.
Verify(r) ==
    /\ At(r, "consuming", {"totp"}) /\ ChallengeFree(r)
    /\ Goto(r, IF chals[req[r].challenge] = "gone" THEN "failed"
               ELSE IF ~cred.enabled THEN "failing"
               ELSE IF cred.secret = None THEN "failed"
               ELSE IF Matches(cred, req[r].code) THEN "matched" ELSE "recovering")
    /\ UNCHANGED <<cred, tables, now, history>>

\* Not a TOTP code: an unused recovery code, or a refusal.
RecoveryRead(r) ==
    /\ At(r, "recovering", {"totp"})
    /\ LET code == req[r].code
       IN Goto(r, IF code.step = 0 /\ recovery[code.of] = "unused" THEN "matched" ELSE "failing")
    /\ UNCHANGED <<cred, tables, now, history>>

Consume(r) == [chals EXCEPT ![req[r].challenge] = IF @ = "open" THEN "used" ELSE @]

\* The refusal is committed: the challenge stays consumed.
CommitFailure(r) ==
    /\ At(r, "failing", {"totp"})
    /\ chals' = Consume(r)
    /\ End(r, "failed")
    /\ UNCHANGED <<cred, sessions, recovery, linked, now, history>>

\* The session is created, with the counter or the recovery code written.  A
\* recovery code deleted meanwhile makes its UPDATE raise: all is rolled back.
CommitSession(r) ==
    /\ At(r, "matched", {"totp"})
    /\ LET code == req[r].code
       IN IF code.step = 0 /\ recovery[code.of] = "gone"
          THEN End(r, "failed") /\ UNCHANGED <<cred, sessions, chals, recovery, spent, backed>>
          ELSE /\ End(r, "done")
               /\ chals' = Consume(r)
               /\ sessions' = CreateSession(r)
               /\ spent' = spent \cup {code}
               /\ IF code.step = 0
                  THEN /\ recovery' = [recovery EXCEPT ![code.of] = "used"]
                       /\ UNCHANGED <<cred, backed>>
                  ELSE /\ CredFree(r)
                       /\ cred' = Accept(cred, code)
                       /\ backed' = (backed \/ code.step < cred.last)
                       /\ UNCHANGED recovery
    /\ UNCHANGED <<linked, now, verified, raced>>

----------------------------------------------------------------------------
(* Authenticated requests                                                  *)

\* resolve_session: the cookie's session is neither revoked nor expired.
ResolveRead(r, ask) ==
    /\ ask.kind \in Authenticated
    /\ sessions[ask.session] = "live"
    /\ Arrive(r, ask, "resolving")

\* Faulty variant: the whole row is written back.
ResolveCommitAllColumns(r) ==
    /\ At(r, "resolving", Authenticated)
    /\ sessions' = [sessions EXCEPT ![req[r].session] = "live"]
    /\ Goto(r, "ready")
    /\ UNCHANGED <<cred, chals, recovery, linked, now, history>>

\* current_auth commits last_seen_at alone; the row may have been purged.
ResolveCommit(r) ==
    /\ At(r, "resolving", Authenticated)
    /\ Goto(r, IF sessions[req[r].session] = "gone" THEN "failed" ELSE "ready")
    /\ UNCHANGED <<cred, tables, now, history>>

\* revoke_session: an expired session stays expired.
Revoke(s) == [sessions EXCEPT ![s] = IF @ = "live" THEN "revoked" ELSE @]

\* logout.
LogoutCommit(r) ==
    /\ At(r, "ready", {"logout"})
    /\ LET s == req[r].session
       IN IF sessions[s] = "gone"
          THEN End(r, "failed") /\ UNCHANGED sessions
          ELSE /\ End(r, "done")
               /\ sessions' = Revoke(s)
    /\ UNCHANGED <<cred, chals, recovery, linked, now, history>>

\* Faulty variant: an enrolment starts over an enabled second factor.
SetupLoadAlways(r) ==
    /\ At(r, "ready", {"setup"})
    /\ Load(r, "loaded")
    /\ UNCHANGED <<cred, tables, now, history>>

\* setup_totp: refused when enabled, otherwise a new secret and no counter.
SetupLoad(r) ==
    /\ At(r, "ready", {"setup"})
    /\ LoadIf(r, ~cred.enabled, "loaded")
    /\ UNCHANGED <<cred, tables, now, history>>

Enrolled(r) == [cred EXCEPT !.secret = r, !.last = Column(req[r].cred.last, 0, @)]

SetupCommit(r) ==
    /\ At(r, "loaded", {"setup"}) /\ CredFree(r)
    /\ cred' = Enrolled(r)
    /\ raced' = (raced \/ Changed(r))
    /\ End(r, "done")
    /\ UNCHANGED <<tables, now, verified, spent, backed>>

\* activate_totp: an enrolment under way, and a code of its secret.
ActivateLoad(r) ==
    /\ At(r, "ready", {"activate"})
    /\ LoadIf(r, cred.secret # None /\ ~cred.enabled /\ Matches(cred, req[r].code), "loaded")
    /\ UNCHANGED <<cred, tables, now, history>>

Activated(r) == [Accept(cred, req[r].code) EXCEPT !.enabled = TRUE]

ActivateCommit(r) ==
    /\ At(r, "loaded", {"activate"}) /\ CredFree(r)
    /\ cred' = Activated(r)
    /\ recovery' = [recovery EXCEPT ![r] = "unused"]
    /\ verified' = verified \cup {req[r].cred.secret}
    /\ spent' = spent \cup {req[r].code}
    /\ backed' = (backed \/ req[r].code.step < cred.last)
    /\ raced' = (raced \/ Changed(r))
    /\ End(r, "done")
    /\ UNCHANGED <<sessions, chals, linked, now>>

\* disable_totp, with the right password.  Reading the recovery codes flushes the
\* credentials.
DisableLoad(r) ==
    /\ At(r, "ready", {"disable"})
    /\ LoadIf(r, cred.enabled, "loaded")
    /\ UNCHANGED <<cred, tables, now, history>>

DisableFlush(r) ==
    /\ At(r, "loaded", {"disable"}) /\ CredFree(r)
    /\ Goto(r, "flushed")
    /\ UNCHANGED <<cred, tables, now, history>>

\* Faulty variant: the recovery codes stay.
DisableCommitKeepsCodes(r) ==
    /\ At(r, "flushed", {"disable"})
    /\ cred' = Off
    /\ End(r, "done")
    /\ UNCHANGED <<tables, now, history>>

Disabled(loaded) ==
    [secret |-> Column(loaded.secret, None, cred.secret), enabled |-> FALSE,
     last |-> Column(loaded.last, 0, cred.last)]

DisableCommit(r) ==
    /\ At(r, "flushed", {"disable"})
    /\ cred' = Disabled(req[r].cred)
    /\ recovery' = [k \in Sources |-> IF recovery[k] = "none" THEN "none" ELSE "gone"]
    /\ backed' = (backed \/ (cred'.secret = cred.secret /\ cred'.last < cred.last))
    /\ raced' = (raced \/ Changed(r))
    /\ End(r, "done")
    /\ UNCHANGED <<sessions, chals, linked, now, verified, spent>>

----------------------------------------------------------------------------
(* The environment                                                         *)

Tick == now < MaxStep /\ now' = now + 1 /\ UNCHANGED <<cred, tables, req, history>>

ExpireSession(s) ==
    /\ sessions[s] = "live"
    /\ sessions' = [sessions EXCEPT ![s] = "expired"]
    /\ UNCHANGED <<cred, chals, recovery, linked, now, req, history>>

ExpireChallenge(c) ==
    /\ chals[c] \in {"open", "used"}
    /\ chals' = [chals EXCEPT ![c] = "expired"]
    /\ UNCHANGED <<cred, sessions, recovery, linked, now, req, history>>

\* purge_expired_auth_rows: its DELETE waits for the rows that are locked.
Purge ==
    /\ \E s \in Sources : sessions[s] \in {"revoked", "expired"} \/ chals[s] = "expired"
    /\ \A r \in Requests : ~(HoldsChallenge(r) /\ chals[req[r].challenge] = "expired")
    /\ sessions' = [s \in Sources |-> IF sessions[s] \in {"revoked", "expired"} THEN "gone"
                                                                               ELSE sessions[s]]
    /\ chals' = [c \in Sources |-> IF chals[c] = "expired" THEN "gone" ELSE chals[c]]
    /\ UNCHANGED <<cred, recovery, linked, now, req, history>>

\* The process dies, or the client goes away: the transaction is rolled back.
Crash(r) ==
    /\ req[r].pc \notin {"new"} \cup Ends
    /\ End(r, "failed")
    /\ UNCHANGED <<cred, tables, now, history>>

Start(r, ask) == LoginRead(r, ask) \/ OAuthRead(r, ask) \/ ChallengeRead(r, ask) \/ ResolveRead(r, ask)

Step(r) ==
    \/ LoginCommit(r) \/ OAuthCommit(r)
    \/ Verify(r) \/ RecoveryRead(r) \/ CommitFailure(r) \/ CommitSession(r)
    \/ ResolveCommit(r) \/ LogoutCommit(r) \/ SetupLoad(r) \/ SetupCommit(r)
    \/ ActivateLoad(r) \/ ActivateCommit(r) \/ DisableLoad(r) \/ DisableFlush(r) \/ DisableCommit(r)

Next ==
    \/ \E r \in Requests : (\E ask \in Asks[r] : Start(r, ask)) \/ Step(r) \/ Crash(r)
    \/ \E s \in Aging : ExpireSession(s) \/ ExpireChallenge(s)
    \/ Tick \/ Purge

Spec == Init /\ [][Next]_vars

\* A handler that has started runs to its end: the event loop and PostgreSQL serve
\* every request.
FairSpec == Spec /\ \A r \in Requests : WF_vars(Step(r))

----------------------------------------------------------------------------
(* Properties                                                              *)

\* Type invariant.
TypeOK ==
    /\ cred \in Cred
    /\ sessions \in [Sources -> SessionStates]
    /\ chals \in [Sources -> ChallengeStates]
    /\ recovery \in [Sources -> RecoveryStates]
    /\ linked \in BOOLEAN /\ now \in Steps
    /\ req \in [Requests -> ReqRecord]
    /\ verified \subseteq Sources /\ spent \subseteq Code
    /\ backed \in BOOLEAN /\ raced \in BOOLEAN

\* r opened its session with a second factor.
Opened(r) == req[r].kind = "totp" /\ req[r].pc = "done"

\* "Usage unique", "anti-rejeu par compteur" (auth/service.py): a code that had
\* been accepted, at a login or at the activation, before a request arrives opens
\* no session for it.  The one exception is a counter that went back, when two
\* logins with the codes of two steps were committed in the other order.
SpentCodeRefused == \A r \in Requests : req[r].late /\ Opened(r) => backed

\* The same challenge and the same code submitted twice, even at the same time,
\* open one session: the second waits for the row of the challenge, and then sees
\* the counter or the recovery code as the first one left it.
DoubleSubmitOpensOne ==
    \A q, r \in Requests :
        Opened(q) /\ Opened(r) /\ q # r /\ req[q].challenge = req[r].challenge
            => req[q].code # req[r].code \/ backed

\* "Le TOTP n'est actif qu'apres activate_totp (verification d'un premier code)"
\* (auth/service.py, setup_totp): an enabled second factor has a secret of which
\* a code was verified.
EnabledSecretVerified == cred.enabled => cred.secret \in verified

\* What holds of it: unless an enrolment step was committed on credentials that
\* another one had changed meanwhile.
VerifiedUnlessRaced == raced \/ EnabledSecretVerified

\* Disabling leaves no recovery code behind, whatever runs at the same time: there
\* are codes only while the second factor is enabled.
CodesOnlyWhileEnabled ==
    \A k \in Sources : recovery[k] \in {"unused", "used"} => cred.enabled

\* A revoked session stays revoked, although requests that resolved it before go
\* on to write its last_seen_at.
RevokedStaysRevoked ==
    [][\A s \in Sources : sessions[s] = "revoked" => sessions'[s] \in {"revoked", "gone"}]_vars

\* The row locks leave no two requests waiting on each other.
RequestsFinish == \A r \in Requests : (req[r].pc # "new") ~> (req[r].pc \in Ends)

=============================================================================
