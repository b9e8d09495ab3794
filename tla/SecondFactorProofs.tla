------------------------- MODULE SecondFactorProofs -------------------------
(***************************************************************************)
(* Proofs about SecondFactor, for every set of requests, whatever they ask *)
(* for, and every number of time steps: types, codes accepted once, double *)
(* submissions, verified secrets, recovery codes, logouts, and the order   *)
(* of the row locks.                                                       *)
(***************************************************************************)
EXTENDS SecondFactor, TLAPS

----------------------------------------------------------------------------
(* What a move of a request does to the requests                           *)

\* r moves to p, and keeps what it presented; the others do not move.
Moved(r, p) ==
    /\ req' \in [Requests -> ReqRecord]
    /\ \A q \in Requests \ {r} : req'[q] = req[q]
    /\ req'[r].pc = p /\ req'[r].kind = req[r].kind /\ req'[r].session = req[r].session
    /\ req'[r].challenge = req[r].challenge /\ req'[r].code = req[r].code
    /\ req'[r].late = req[r].late

\* Credentials that are off are credentials.
LEMMA OffType == Off \in Cred
  BY MaxStepAssumption DEF Off, Cred

\* A request that has not arrived is a request.
LEMMA NewReqType == NewReq \in ReqRecord
  BY OffType DEF NewReq, ReqRecord, Places, Kinds

\* Goto moves one request, and keeps the credentials it loaded.
LEMMA GotoMoves ==
    ASSUME TypeOK, NEW r \in Requests, NEW p \in Places, Goto(r, p)
    PROVE  Moved(r, p) /\ req'[r].cred = req[r].cred
  BY DEF TypeOK, Goto, Moved, ReqRecord

\* A request at another place, with other credentials loaded.
MovedRecord(w, p, c) == [w EXCEPT !.pc = p, !.cred = c]

\* Its fields, one after the other.
LEMMA PlaceAndCred ==
    ASSUME NEW w \in ReqRecord, NEW p \in Places, NEW c \in Cred
    PROVE  /\ MovedRecord(w, p, c) \in ReqRecord
           /\ MovedRecord(w, p, c).pc = p /\ MovedRecord(w, p, c).cred = c
           /\ MovedRecord(w, p, c).kind = w.kind /\ MovedRecord(w, p, c).session = w.session
           /\ MovedRecord(w, p, c).challenge = w.challenge
           /\ MovedRecord(w, p, c).code = w.code /\ MovedRecord(w, p, c).late = w.late
<1> DEFINE v == [w EXCEPT !.pc = p]
           n == MovedRecord(w, p, c)
<1>1. v \in ReqRecord
  BY DEF ReqRecord
<1>2. /\ v.pc = p /\ v.kind = w.kind /\ v.session = w.session
      /\ v.challenge = w.challenge /\ v.code = w.code /\ v.late = w.late
  BY DEF ReqRecord
<1>3. n = [v EXCEPT !.cred = c]
  BY DEF ReqRecord, MovedRecord
<1> HIDE DEF v, n
<1>4. n \in ReqRecord
  BY <1>1, <1>3 DEF ReqRecord
<1>5. /\ n.pc = v.pc /\ n.cred = c /\ n.kind = v.kind /\ n.session = v.session
      /\ n.challenge = v.challenge /\ n.code = v.code /\ n.late = v.late
  BY <1>1, <1>3 DEF ReqRecord
<1> QED BY <1>2, <1>4, <1>5 DEF n

\* So does a move that replaces the credentials of the request.
LEMMA CredMoves ==
    ASSUME TypeOK, NEW r \in Requests, NEW p \in Places, NEW c \in Cred,
           req' = [req EXCEPT ![r].pc = p, ![r].cred = c]
    PROVE  Moved(r, p) /\ req'[r].cred = c
<1> DEFINE n == MovedRecord(req[r], p, c)
<1>1. req[r] \in ReqRecord
  BY DEF TypeOK
<1>2. /\ n \in ReqRecord
      /\ n.pc = p /\ n.cred = c /\ n.kind = req[r].kind /\ n.session = req[r].session
      /\ n.challenge = req[r].challenge /\ n.code = req[r].code /\ n.late = req[r].late
  BY <1>1, PlaceAndCred
<1> HIDE DEF n
<1>3. req' = [req EXCEPT ![r] = n]
  BY DEF TypeOK, n, MovedRecord
<1>4. req' \in [Requests -> ReqRecord] /\ (\A q \in Requests \ {r} : req'[q] = req[q]) /\ req'[r] = n
  BY <1>2, <1>3 DEF TypeOK
<1> QED BY <1>2, <1>4 DEF Moved

\* Load, End and LoadIf are such moves.
LEMMA LoadMoves ==
    ASSUME TypeOK, NEW r \in Requests, NEW p \in Places, Load(r, p)
    PROVE  Moved(r, p) /\ req'[r].cred = cred
  BY CredMoves DEF Load, TypeOK

\* The end of a request forgets what it loaded.
LEMMA EndMoves ==
    ASSUME TypeOK, NEW r \in Requests, NEW p \in Places, End(r, p)
    PROVE  Moved(r, p) /\ req'[r].cred = Off
  BY CredMoves, OffType DEF End

\* A checked load ends the request when the check fails.
LEMMA LoadIfMoves ==
    ASSUME TypeOK, NEW r \in Requests, NEW check \in BOOLEAN, LoadIf(r, check, "loaded")
    PROVE  \/ check /\ Moved(r, "loaded") /\ req'[r].cred = cred
           \/ ~check /\ Moved(r, "failed") /\ req'[r].cred = Off
<1>0. "loaded" \in Places /\ "failed" \in Places
  BY DEF Places, Ends
<1>1. CASE check
  BY <1>0, <1>1, LoadMoves DEF LoadIf
<1>2. CASE ~check
  BY <1>0, <1>2, EndMoves DEF LoadIf
<1> QED BY <1>1, <1>2

\* An arrival starts one request, with what it presents.
LEMMA ArriveMoves ==
    ASSUME TypeOK, NEW r \in Requests, NEW ask \in Asks[r], NEW p \in Places, Arrive(r, ask, p)
    PROVE  /\ ask \in Ask
           /\ req' \in [Requests -> ReqRecord]
           /\ \A q \in Requests \ {r} : req'[q] = req[q]
           /\ req'[r].pc = p /\ req'[r].kind = ask.kind /\ req'[r].session = ask.session
           /\ req'[r].challenge = ask.challenge /\ req'[r].code = ask.code
           /\ req'[r].late = (ask.code \in spent)
<1> DEFINE c == IF ask.kind = "login" THEN cred ELSE Off
           l == ask.code \in spent
           n == [pc |-> p, kind |-> ask.kind, session |-> ask.session, challenge |-> ask.challenge,
                 code |-> ask.code, cred |-> c, late |-> l]
<1>1. ask \in Ask
  BY AsksAssumption
<1>2. /\ ask.kind \in Kinds /\ ask.session \in Sources \cup {None}
      /\ ask.challenge \in Sources \cup {None} /\ ask.code \in Code \cup {None}
  BY <1>1 DEF Ask, Kinds, Authenticated
<1>3. c \in Cred
  BY OffType DEF TypeOK
<1>4. l \in BOOLEAN
  OBVIOUS
<1>5. req' = [req EXCEPT ![r] = n]
  BY DEF Arrive
<1> HIDE DEF c, l
<1>6. n \in ReqRecord
  BY <1>2, <1>3, <1>4 DEF ReqRecord
<1>7. n.pc = p /\ n.kind = ask.kind /\ n.session = ask.session /\ n.challenge = ask.challenge
      /\ n.code = ask.code /\ n.late = l
  OBVIOUS
<1> HIDE DEF n
<1> QED BY <1>1, <1>5, <1>6, <1>7 DEF TypeOK, l

----------------------------------------------------------------------------
(* Types                                                                   *)

\* A request has what its kind presents, and an activation goes on with a TOTP
\* code of the secret it loaded.
Presents ==
    \A r \in Requests :
        /\ req[r].kind = "totp" => req[r].challenge \in Sources /\ req[r].code \in Code
        /\ req[r].kind = "activate" => req[r].code \in Code
        /\ req[r].kind \in Authenticated => req[r].session \in Sources
        /\ At(r, "loaded", {"activate"}) =>
              /\ req[r].cred.secret # None /\ req[r].code.of = req[r].cred.secret
              /\ req[r].code.step # 0

TypeInv == TypeOK /\ Presents

\* Arrivals keep it.
LEMMA TypeStart ==
    ASSUME TypeInv, NEW r \in Requests, NEW ask \in Asks[r], Start(r, ask)
    PROVE  TypeInv'
<1> USE DEF TypeInv
<1>1. ASSUME NEW p \in Places, Arrive(r, ask, p), p = "loaded" => ask.kind \in {"login", "oauth"}
      PROVE  TypeInv'
  <2>1. /\ ask \in Ask
        /\ req' \in [Requests -> ReqRecord]
        /\ \A q \in Requests \ {r} : req'[q] = req[q]
        /\ req'[r].pc = p /\ req'[r].kind = ask.kind /\ req'[r].session = ask.session
        /\ req'[r].challenge = ask.challenge /\ req'[r].code = ask.code
    BY <1>1, ArriveMoves
  <2>2. UNCHANGED <<cred, sessions, chals, recovery, linked, now, verified, spent, backed, raced>>
    BY <1>1 DEF Arrive, tables, history
  <2>3. TypeOK'
    BY <2>1, <2>2 DEF TypeOK
  <2>4. /\ ask.kind = "totp" => ask.challenge \in Sources /\ ask.code \in Code
        /\ ask.kind = "activate" => ask.code \in Code
        /\ ask.kind \in Authenticated => ask.session \in Sources
    BY <2>1 DEF Ask, Authenticated
  <2>5. Presents'
    BY <1>1, <2>1, <2>4 DEF Presents, At
  <2> QED BY <2>3, <2>5
<1>2. CASE LoginRead(r, ask)
  BY <1>1, <1>2 DEF LoginRead, Places
<1>3. CASE OAuthRead(r, ask)
  BY <1>1, <1>3 DEF OAuthRead, Places
<1>4. CASE ChallengeRead(r, ask)
  BY <1>1, <1>4 DEF ChallengeRead, Places, Ends
<1>5. CASE ResolveRead(r, ask)
  BY <1>1, <1>5 DEF ResolveRead, Places
<1> QED BY <1>2, <1>3, <1>4, <1>5 DEF Start

\* A move to a place other than "loaded" keeps what the requests present.
LEMMA PresentsMove ==
    ASSUME Presents, NEW r \in Requests, NEW p, p # "loaded", Moved(r, p)
    PROVE  Presents'
  BY DEF Presents, Moved, At

\* A step that writes nothing keeps it.
LEMMA TypeReading ==
    ASSUME TypeInv, NEW r \in Requests, NEW p, p # "loaded", Moved(r, p),
           UNCHANGED <<cred, tables, now, history>>
    PROVE  TypeInv'
<1>1. TypeOK'
  BY DEF TypeInv, TypeOK, Moved, tables, history
<1> QED BY <1>1, PresentsMove DEF TypeInv

\* So does one that loads the credentials, for an activation after its checks.
LEMMA TypeLoading ==
    ASSUME TypeInv, NEW r \in Requests, Moved(r, "loaded"), req'[r].cred = cred,
           req[r].kind = "activate" =>
               cred.secret # None /\ req[r].code.of = cred.secret /\ req[r].code.step # 0,
           UNCHANGED <<cred, tables, now, history>>
    PROVE  TypeInv'
<1>1. TypeOK'
  BY DEF TypeInv, TypeOK, Moved, tables, history
<1>2. Presents'
  BY DEF TypeInv, Presents, Moved, At
<1> QED BY <1>1, <1>2 DEF TypeInv

\* Enrolling replaces the secret, and clears the counter if one was loaded.
LEMMA EnrolledFields ==
    ASSUME TypeOK, NEW r \in Requests, req[r].cred \in Cred
    PROVE  Enrolled(r) \in Cred /\ Enrolled(r).secret = r /\ Enrolled(r).enabled = cred.enabled
<1> DEFINE l == Column(req[r].cred.last, 0, cred.last)
           v == [cred EXCEPT !.secret = r]
<1>1. l \in 0..MaxStep
  BY MaxStepAssumption DEF Column, TypeOK, Cred
<1>2. Enrolled(r) = [v EXCEPT !.last = l]
  BY DEF Enrolled, TypeOK, Cred
<1> HIDE DEF l
<1>3. v \in Cred /\ v.secret = r /\ v.enabled = cred.enabled
  BY DEF TypeOK, Cred, Sources
<1> HIDE DEF v
<1> QED BY <1>1, <1>2, <1>3 DEF Cred

\* The steps of a request keep it.
LEMMA TypeStep ==
    ASSUME TypeInv, NEW r \in Requests, Step(r)
    PROVE  TypeInv'
<1>0. TypeOK /\ Presents /\ req[r] \in ReqRecord /\ req[r].cred \in Cred
  BY DEF TypeInv, TypeOK, ReqRecord
<1>p. /\ "done" \in Places /\ "failed" \in Places /\ "failing" \in Places /\ "matched" \in Places
      /\ "recovering" \in Places /\ "ready" \in Places /\ "flushed" \in Places
  BY DEF Places, Ends
<1>1. CASE LoginCommit(r)
  <2>1. Moved(r, "done")
    BY <1>0, <1>1, <1>p, EndMoves DEF LoginCommit
  <2>2. TypeOK'
    BY <1>0, <1>1, <2>1 DEF LoginCommit, CreateSession, CreateChallenge, TypeOK, Moved, history,
       SessionStates, ChallengeStates
  <2> QED BY <1>0, <2>1, <2>2, PresentsMove DEF TypeInv
<1>2. CASE OAuthCommit(r)
  <2>1. Moved(r, "done") \/ Moved(r, "failed")
    BY <1>0, <1>2, <1>p, EndMoves DEF OAuthCommit
  <2>2. TypeOK'
    BY <1>0, <1>2, <2>1 DEF OAuthCommit, CreateSession, TypeOK, Moved, history, SessionStates
  <2> QED BY <1>0, <2>1, <2>2, PresentsMove DEF TypeInv
<1>3. CASE Verify(r)
  <2>1. Moved(r, "failed") \/ Moved(r, "failing") \/ Moved(r, "matched") \/ Moved(r, "recovering")
    BY <1>0, <1>3, <1>p, GotoMoves DEF Verify
  <2> QED BY <1>3, <2>1, TypeReading DEF Verify
<1>4. CASE RecoveryRead(r)
  <2>1. Moved(r, "failing") \/ Moved(r, "matched")
    BY <1>0, <1>4, <1>p, GotoMoves DEF RecoveryRead
  <2> QED BY <1>4, <2>1, TypeReading DEF RecoveryRead
<1>5. CASE CommitFailure(r)
  <2>1. Moved(r, "failed")
    BY <1>0, <1>5, <1>p, EndMoves DEF CommitFailure
  <2>2. chals' \in [Sources -> ChallengeStates]
    BY <1>0, <1>5 DEF CommitFailure, Consume, TypeOK, ChallengeStates
  <2>3. TypeOK'
    BY <1>0, <1>5, <2>1, <2>2 DEF CommitFailure, TypeOK, Moved, history
  <2> QED BY <1>0, <2>1, <2>3, PresentsMove DEF TypeInv
<1>6. CASE CommitSession(r)
  <2> DEFINE code == req[r].code
  <2>1. Moved(r, "done") \/ Moved(r, "failed")
    BY <1>0, <1>6, <1>p, EndMoves DEF CommitSession
  <2>2. code \in Code /\ code.step \in 0..MaxStep
    BY <1>0, <1>6 DEF CommitSession, Presents, At, Code
  <2>3. sessions' \in [Sources -> SessionStates]
    BY <1>0, <1>6 DEF CommitSession, CreateSession, TypeOK, SessionStates
  <2>4. chals' \in [Sources -> ChallengeStates]
    BY <1>0, <1>6 DEF CommitSession, Consume, TypeOK, ChallengeStates
  <2>5. recovery' \in [Sources -> RecoveryStates]
    BY <1>0, <1>6 DEF CommitSession, TypeOK, RecoveryStates
  <2>6. cred' \in Cred
    BY <1>0, <1>6, <2>2 DEF CommitSession, Accept, TypeOK, Cred
  <2>7. backed' \in BOOLEAN
    BY <1>0, <1>6 DEF CommitSession, TypeOK
  <2>8. spent' \subseteq Code
    BY <1>0, <1>6, <2>2 DEF CommitSession, TypeOK
  <2>9. TypeOK'
    BY <1>0, <1>6, <2>1, <2>3, <2>4, <2>5, <2>6, <2>7, <2>8 DEF CommitSession, TypeOK, Moved
  <2> QED BY <1>0, <2>1, <2>9, PresentsMove DEF TypeInv
<1>7. CASE ResolveCommit(r)
  <2>1. Moved(r, "failed") \/ Moved(r, "ready")
    BY <1>0, <1>7, <1>p, GotoMoves DEF ResolveCommit
  <2> QED BY <1>7, <2>1, TypeReading DEF ResolveCommit
<1>8. CASE LogoutCommit(r)
  <2>1. Moved(r, "failed") \/ Moved(r, "done")
    BY <1>0, <1>8, <1>p, EndMoves DEF LogoutCommit
  <2>2. sessions' \in [Sources -> SessionStates]
    BY <1>0, <1>8 DEF LogoutCommit, Revoke, TypeOK, SessionStates
  <2>3. TypeOK'
    BY <1>0, <1>8, <2>1, <2>2 DEF LogoutCommit, TypeOK, Moved, history
  <2> QED BY <1>0, <2>1, <2>3, PresentsMove DEF TypeInv
<1>9. CASE SetupLoad(r)
  <2>1. \/ Moved(r, "loaded") /\ req'[r].cred = cred
        \/ Moved(r, "failed")
    BY <1>0, <1>9, LoadIfMoves DEF SetupLoad
  <2> QED BY <1>9, <2>1, TypeReading, TypeLoading DEF SetupLoad, At
<1>10. CASE SetupCommit(r)
  <2>1. Moved(r, "done")
    BY <1>0, <1>10, <1>p, EndMoves DEF SetupCommit
  <2>2. cred' \in Cred
    BY <1>0, <1>10, EnrolledFields DEF SetupCommit
  <2>3. raced' \in BOOLEAN
    BY <1>0, <1>10 DEF SetupCommit, TypeOK
  <2>4. TypeOK'
    BY <1>0, <1>10, <2>1, <2>2, <2>3 DEF SetupCommit, TypeOK, Moved, tables
  <2> QED BY <1>0, <2>1, <2>4, PresentsMove DEF TypeInv
<1>11. CASE ActivateLoad(r)
  <2> DEFINE check == cred.secret # None /\ ~cred.enabled /\ Matches(cred, req[r].code)
  <2>1. check \in BOOLEAN
    OBVIOUS
  <2>2. LoadIf(r, check, "loaded")
    BY <1>11 DEF ActivateLoad
  <2>3. check => cred.secret # None /\ req[r].code.of = cred.secret /\ req[r].code.step # 0
    BY DEF Matches
  <2> HIDE DEF check
  <2>4. \/ check /\ Moved(r, "loaded") /\ req'[r].cred = cred
        \/ ~check /\ Moved(r, "failed")
    BY <1>0, <2>1, <2>2, LoadIfMoves
  <2> QED BY <1>11, <2>3, <2>4, TypeReading, TypeLoading DEF ActivateLoad
<1>12. CASE ActivateCommit(r)
  <2>1. Moved(r, "done")
    BY <1>0, <1>12, <1>p, EndMoves DEF ActivateCommit
  <2>2. req[r].code \in Code /\ req[r].code.step \in 0..MaxStep /\ req[r].cred.secret \in Sources
    BY <1>0, <1>12 DEF ActivateCommit, Presents, At, Code, Cred
  <2>3. cred' \in Cred
    <3>1. Accept(cred, req[r].code) \in Cred
      BY <1>0, <2>2 DEF Accept, TypeOK, Cred
    <3> QED BY <1>12, <3>1 DEF ActivateCommit, Activated, Cred
  <2>4. recovery' \in [Sources -> RecoveryStates]
    BY <1>0, <1>12 DEF ActivateCommit, TypeOK, RecoveryStates
  <2>5. raced' \in BOOLEAN /\ backed' \in BOOLEAN
    BY <1>0, <1>12 DEF ActivateCommit, TypeOK
  <2>6. verified' \subseteq Sources /\ spent' \subseteq Code
    BY <1>0, <1>12, <2>2 DEF ActivateCommit, TypeOK
  <2>7. TypeOK'
    BY <1>0, <1>12, <2>1, <2>3, <2>4, <2>5, <2>6 DEF ActivateCommit, TypeOK, Moved
  <2> QED BY <1>0, <2>1, <2>7, PresentsMove DEF TypeInv
<1>13. CASE DisableLoad(r)
  <2>1. cred.enabled \in BOOLEAN
    BY <1>0 DEF TypeOK, Cred
  <2>2. \/ Moved(r, "loaded") /\ req'[r].cred = cred
        \/ Moved(r, "failed")
    BY <1>0, <1>13, <2>1, LoadIfMoves DEF DisableLoad
  <2> QED BY <1>13, <2>2, TypeReading, TypeLoading DEF DisableLoad, At
<1>14. CASE DisableFlush(r)
  <2>1. Moved(r, "flushed")
    BY <1>0, <1>14, <1>p, GotoMoves DEF DisableFlush
  <2> QED BY <1>14, <2>1, TypeReading DEF DisableFlush
<1>15. CASE DisableCommit(r)
  <2>1. Moved(r, "done")
    BY <1>0, <1>15, <1>p, EndMoves DEF DisableCommit
  <2>2. cred' \in Cred
    BY <1>0, <1>15, MaxStepAssumption DEF DisableCommit, Disabled, Column, TypeOK, Cred
  <2>3. recovery' \in [Sources -> RecoveryStates]
    BY <1>15 DEF DisableCommit, RecoveryStates
  <2>4. raced' \in BOOLEAN /\ backed' \in BOOLEAN
    BY <1>0, <1>15 DEF DisableCommit, TypeOK
  <2>5. TypeOK'
    BY <1>0, <1>15, <2>1, <2>2, <2>3, <2>4 DEF DisableCommit, TypeOK, Moved
  <2> QED BY <1>0, <2>1, <2>5, PresentsMove DEF TypeInv
<1> QED BY <1>1, <1>2, <1>3, <1>4, <1>5, <1>6, <1>7, <1>8, <1>9, <1>10, <1>11, <1>12, <1>13,
           <1>14, <1>15 DEF Step

\* Every step of the system keeps it.
LEMMA TypeNext == TypeInv /\ [Next]_vars => TypeInv'
<1> SUFFICES ASSUME TypeInv, [Next]_vars PROVE TypeInv'
  OBVIOUS
<1>1. ASSUME NEW r \in Requests, NEW ask \in Asks[r], Start(r, ask) PROVE TypeInv'
  BY <1>1, TypeStart
<1>2. ASSUME NEW r \in Requests, Step(r) PROVE TypeInv'
  BY <1>2, TypeStep
<1>3. ASSUME NEW r \in Requests, Crash(r) PROVE TypeInv'
  <2>1. Moved(r, "failed")
    BY <1>3, EndMoves DEF Crash, TypeInv, Places, Ends
  <2> QED BY <1>3, <2>1, TypeReading DEF Crash
<1>4. ASSUME NEW s \in Aging, ExpireSession(s) PROVE TypeInv'
  BY <1>4 DEF ExpireSession, TypeInv, TypeOK, Presents, At, SessionStates, history
<1>5. ASSUME NEW s \in Aging, ExpireChallenge(s) PROVE TypeInv'
  BY <1>5 DEF ExpireChallenge, TypeInv, TypeOK, Presents, At, ChallengeStates, history
<1>6. CASE Tick
  <2>1. now' \in Steps
    BY <1>6, MaxStepAssumption DEF Tick, TypeInv, TypeOK, Steps
  <2> QED BY <1>6, <2>1 DEF Tick, TypeInv, TypeOK, Presents, At, tables, history
<1>7. CASE Purge
  <2>1. sessions' \in [Sources -> SessionStates] /\ chals' \in [Sources -> ChallengeStates]
    BY <1>7 DEF Purge, TypeInv, TypeOK, SessionStates, ChallengeStates
  <2> QED BY <1>7, <2>1 DEF Purge, TypeInv, TypeOK, Presents, At, history
<1>8. CASE UNCHANGED vars
  BY <1>8 DEF vars, TypeInv, TypeOK, Presents, At
<1> QED BY <1>1, <1>2, <1>3, <1>4, <1>5, <1>6, <1>7, <1>8 DEF Next

\* At first the second factor is off, or enabled with an old secret.
LEMMA InitCred ==
    ASSUME Init
    PROVE  /\ cred.secret = None \/ cred.secret \in Olds
           /\ cred.enabled <=> cred.secret \in Olds
           /\ cred.enabled => cred.last = 1
<1>1. None \notin Olds
  BY NamesAssumption DEF Sources
<1>2. CASE cred = Off
  BY <1>1, <1>2 DEF Off
<1>3. CASE cred \in [secret: Olds, enabled: {TRUE}, last: {1}]
  BY <1>3
<1> QED BY <1>2, <1>3 DEF Init

\* It holds at first.
LEMMA TypeInit == Init => TypeInv
<1> SUFFICES ASSUME Init PROVE TypeInv
  OBVIOUS
<1>1. cred \in Cred /\ (cred.enabled => cred.secret \in Olds)
  <2>1. CASE cred = Off
    BY <2>1, OffType DEF Off
  <2>2. CASE cred \in [secret: Olds, enabled: {TRUE}, last: {1}]
    <3>1. cred \in [secret: Sources \cup {None}, enabled: BOOLEAN, last: {1}]
      BY <2>2 DEF Sources
    <3>2. 1 \in 0..MaxStep
      BY MaxStepAssumption
    <3> QED BY <2>2, <3>1, <3>2 DEF Cred
  <2> QED BY <2>1, <2>2 DEF Init
<1>2. req \in [Requests -> ReqRecord] /\ \A r \in Requests : req[r].kind = "none"
  BY NewReqType DEF Init, NewReq
<1>3. spent \subseteq Code
  BY <1>1, MaxStepAssumption DEF Init, Code, Sources
<1>4. verified \subseteq Sources /\ now \in Steps
  BY <1>1, MaxStepAssumption DEF Init, Cred, Steps
<1>5. /\ sessions \in [Sources -> SessionStates] /\ chals \in [Sources -> ChallengeStates]
      /\ recovery \in [Sources -> RecoveryStates]
  BY DEF Init, SessionStates, ChallengeStates, RecoveryStates
<1>6. TypeOK
  BY <1>1, <1>2, <1>3, <1>4, <1>5 DEF Init, TypeOK
<1>7. Presents
  BY <1>2 DEF Presents, At, Authenticated
<1> QED BY <1>6, <1>7 DEF TypeInv

\* Type correctness: the columns, the requests and the history keep their types.
THEOREM TypeCorrect == Spec => []TypeOK
<1>1. TypeInv => TypeOK
  BY DEF TypeInv
<1> QED BY <1>1, TypeInit, TypeNext, PTL DEF Spec

----------------------------------------------------------------------------
(* Where the steps lead                                                    *)

\* r has just arrived, and is not yet past any check of the second factor.
Started(r) ==
    /\ req' \in [Requests -> ReqRecord]
    /\ \A q \in Requests \ {r} : req'[q] = req[q]
    /\ req[r].pc = "new"
    /\ req'[r].pc \in {"resolving", "ready", "consuming", "failed", "loaded"}
    /\ req'[r].pc = "loaded" => req'[r].kind \in {"login", "oauth"}
    /\ req'[r].late = (req'[r].code \in spent)
    /\ UNCHANGED <<cred, sessions, chals, recovery, linked, now, verified, spent, backed, raced>>

\* An arrival is one.
LEMMA StartMoves ==
    ASSUME TypeOK, NEW r \in Requests, NEW ask \in Asks[r], Start(r, ask)
    PROVE  Started(r)
<1>1. ASSUME NEW p \in Places, Arrive(r, ask, p),
             p \in {"resolving", "ready", "consuming", "failed", "loaded"},
             p = "loaded" => ask.kind \in {"login", "oauth"}
      PROVE  Started(r)
  <2>1. UNCHANGED <<cred, sessions, chals, recovery, linked, now, verified, spent, backed, raced>>
    BY <1>1 DEF Arrive, tables, history
  <2>2. req[r].pc = "new"
    BY <1>1 DEF Arrive
  <2> QED BY <1>1, <2>1, <2>2, ArriveMoves DEF Started
<1>2. CASE LoginRead(r, ask)
  BY <1>1, <1>2 DEF LoginRead, Places
<1>3. CASE OAuthRead(r, ask)
  BY <1>1, <1>3 DEF OAuthRead, Places
<1>4. CASE ChallengeRead(r, ask)
  BY <1>1, <1>4 DEF ChallengeRead, Places, Ends
<1>5. CASE ResolveRead(r, ask)
  BY <1>1, <1>5 DEF ResolveRead, Places
<1> QED BY <1>2, <1>3, <1>4, <1>5 DEF Start

\* A step that leaves the second factor alone: it ends a request of another kind,
\* or moves one on to a place where nothing of the second factor was checked.
Aside(r) ==
    /\ UNCHANGED <<cred, recovery, verified, spent, backed, raced>>
    /\ \/ Moved(r, "done") /\ req[r].kind \in {"login", "oauth", "logout"}
       \/ Moved(r, "failed")
       \/ Moved(r, "ready") /\ req[r].kind \in Authenticated
       \/ Moved(r, "flushed") /\ req[r].kind = "disable" /\ req'[r].cred = req[r].cred
    /\ req[r].pc \notin {"new"} \cup Ends

\* The steps that do.
LEMMA AsideSteps ==
    ASSUME TypeOK, NEW r \in Requests,
           \/ LoginCommit(r) \/ OAuthCommit(r) \/ CommitFailure(r) \/ ResolveCommit(r)
           \/ LogoutCommit(r) \/ DisableFlush(r) \/ Crash(r)
    PROVE  Aside(r)
<1>p. "done" \in Places /\ "failed" \in Places /\ "ready" \in Places /\ "flushed" \in Places
  BY DEF Places, Ends
<1>1. CASE LoginCommit(r)
  BY <1>1, <1>p, EndMoves DEF LoginCommit, Aside, At, Ends, history
<1>2. CASE OAuthCommit(r)
  BY <1>2, <1>p, EndMoves DEF OAuthCommit, Aside, At, Ends, history
<1>3. CASE CommitFailure(r)
  BY <1>3, <1>p, EndMoves DEF CommitFailure, Aside, At, Ends, history
<1>4. CASE ResolveCommit(r)
  BY <1>4, <1>p, GotoMoves DEF ResolveCommit, Aside, At, Ends, history, tables
<1>5. CASE LogoutCommit(r)
  BY <1>5, <1>p, EndMoves DEF LogoutCommit, Aside, At, Ends, history
<1>6. CASE DisableFlush(r)
  BY <1>6, <1>p, GotoMoves DEF DisableFlush, Aside, At, Ends, history, tables
<1>7. CASE Crash(r)
  BY <1>7, <1>p, EndMoves DEF Crash, Aside, Ends, history, tables
<1> QED BY <1>1, <1>2, <1>3, <1>4, <1>5, <1>6, <1>7

\* The clock, expiry and the purge leave the second factor and the requests alone.
LEMMA EnvironmentAside ==
    ASSUME \/ \E s \in Aging : ExpireSession(s) \/ ExpireChallenge(s)
           \/ Tick \/ Purge \/ UNCHANGED vars
    PROVE  UNCHANGED <<cred, recovery, verified, spent, backed, raced, req>>
  BY DEF ExpireSession, ExpireChallenge, Tick, Purge, vars, tables, history

\* An enrolment that goes on has loaded credentials that are not enabled.
LEMMA SetupLoadMoves ==
    ASSUME TypeOK, NEW r \in Requests, SetupLoad(r)
    PROVE  /\ UNCHANGED <<cred, recovery, verified, spent, backed, raced>>
           /\ At(r, "ready", {"setup"})
           /\ \/ ~cred.enabled /\ Moved(r, "loaded") /\ req'[r].cred = cred
              \/ Moved(r, "failed")
<1>1. cred.enabled \in BOOLEAN
  BY DEF TypeOK, Cred
<1> QED BY <1>1, LoadIfMoves DEF SetupLoad, tables, history

\* An activation that goes on has matched a code of the secret it loaded.
LEMMA ActivateLoadMoves ==
    ASSUME TypeOK, NEW r \in Requests, ActivateLoad(r)
    PROVE  /\ UNCHANGED <<cred, recovery, verified, spent, backed, raced>>
           /\ At(r, "ready", {"activate"})
           /\ \/ req[r].code.of = cred.secret /\ Moved(r, "loaded") /\ req'[r].cred = cred
              \/ Moved(r, "failed")
<1> DEFINE check == cred.secret # None /\ ~cred.enabled /\ Matches(cred, req[r].code)
<1>1. check \in BOOLEAN
  OBVIOUS
<1>2. LoadIf(r, check, "loaded")
  BY DEF ActivateLoad
<1>3. check => req[r].code.of = cred.secret
  BY DEF Matches
<1> HIDE DEF check
<1>4. \/ check /\ Moved(r, "loaded") /\ req'[r].cred = cred
      \/ ~check /\ Moved(r, "failed")
  BY <1>1, <1>2, LoadIfMoves
<1> QED BY <1>3, <1>4 DEF ActivateLoad, tables, history

\* A disabling that goes on has loaded credentials that are enabled.
LEMMA DisableLoadMoves ==
    ASSUME TypeOK, NEW r \in Requests, DisableLoad(r)
    PROVE  /\ UNCHANGED <<cred, recovery, verified, spent, backed, raced>>
           /\ At(r, "ready", {"disable"})
           /\ \/ Moved(r, "loaded") /\ req'[r].cred = cred
              \/ Moved(r, "failed")
<1>1. cred.enabled \in BOOLEAN
  BY DEF TypeOK, Cred
<1> QED BY <1>1, LoadIfMoves DEF DisableLoad, tables, history

\* The commits of the enrolment steps end their request.
LEMMA CommitMoves ==
    ASSUME TypeOK, NEW r \in Requests, SetupCommit(r) \/ ActivateCommit(r) \/ DisableCommit(r)
    PROVE  Moved(r, "done")
<1>1. "done" \in Places
  BY DEF Places, Ends
<1> QED BY <1>1, EndMoves DEF SetupCommit, ActivateCommit, DisableCommit

\* The reads of the second step go on to a match, a lookup or a refusal.
LEMMA VerifyMoves ==
    ASSUME TypeOK, NEW r \in Requests, Verify(r)
    PROVE  /\ UNCHANGED <<cred, recovery, verified, spent, backed, raced>>
           /\ At(r, "consuming", {"totp"}) /\ ChallengeFree(r)
           /\ \/ Matches(cred, req[r].code) /\ Moved(r, "matched")
              \/ Moved(r, "recovering") \/ Moved(r, "failing") \/ Moved(r, "failed")
<1>1. "matched" \in Places /\ "recovering" \in Places /\ "failing" \in Places /\ "failed" \in Places
  BY DEF Places, Ends
<1> QED BY <1>1, GotoMoves DEF Verify, tables, history

\* The lookup goes on with an unused recovery code, or refuses.
LEMMA RecoveryReadMoves ==
    ASSUME TypeOK, NEW r \in Requests, RecoveryRead(r)
    PROVE  /\ UNCHANGED <<cred, recovery, verified, spent, backed, raced>>
           /\ At(r, "recovering", {"totp"})
           /\ \/ req[r].code.step = 0 /\ recovery[req[r].code.of] = "unused" /\ Moved(r, "matched")
              \/ Moved(r, "failing")
<1>1. "matched" \in Places /\ "failing" \in Places
  BY DEF Places
<1> QED BY <1>1, GotoMoves DEF RecoveryRead, tables, history

\* The commit of a second step spends a recovery code or a TOTP code, or fails.
LEMMA CommitSessionMoves ==
    ASSUME TypeInv, NEW r \in Requests, CommitSession(r)
    PROVE  /\ At(r, "matched", {"totp"}) /\ req[r].code \in Code
           /\ UNCHANGED <<verified, raced>>
           /\ \/ Moved(r, "failed") /\ UNCHANGED <<cred, recovery, spent, backed>>
              \/ /\ Moved(r, "done") /\ spent' = spent \cup {req[r].code}
                 /\ \/ /\ req[r].code.step = 0 /\ recovery[req[r].code.of] # "gone"
                       /\ recovery' = [recovery EXCEPT ![req[r].code.of] = "used"]
                       /\ UNCHANGED <<cred, backed>>
                    \/ /\ req[r].code.step # 0
                       /\ cred' = Accept(cred, req[r].code)
                       /\ backed' = (backed \/ req[r].code.step < cred.last)
                       /\ UNCHANGED recovery
<1>1. "done" \in Places /\ "failed" \in Places
  BY DEF Places, Ends
<1>2. TypeOK
  BY DEF TypeInv
<1>3. End(r, "done") => Moved(r, "done")
  BY <1>1, <1>2, EndMoves
<1>4. End(r, "failed") => Moved(r, "failed")
  BY <1>1, <1>2, EndMoves
<1>5. At(r, "matched", {"totp"}) /\ req[r].code \in Code
  BY DEF CommitSession, At, TypeInv, Presents
<1> QED BY <1>3, <1>4, <1>5 DEF CommitSession

----------------------------------------------------------------------------
(* Verified secrets                                                        *)

\* An enrolment between its check and its commit loaded credentials not enabled.
SetupLoadedOff == \A r \in Requests : At(r, "loaded", {"setup"}) => ~req[r].cred.enabled

VerifiedInv == SetupLoadedOff /\ VerifiedUnlessRaced

\* Steps that change neither the secret nor the flag, and load nothing, keep it.
LEMMA VerifiedAside ==
    ASSUME VerifiedInv, NEW r \in Requests, NEW p, Moved(r, p), p # "loaded",
           cred'.secret = cred.secret, cred'.enabled = cred.enabled, UNCHANGED <<verified, raced>>
    PROVE  VerifiedInv'
  BY DEF VerifiedInv, SetupLoadedOff, VerifiedUnlessRaced, EnabledSecretVerified, At, Moved

\* Every step keeps it.
LEMMA VerifiedStep ==
    ASSUME TypeInv, VerifiedInv, NEW r \in Requests, Step(r) \/ Crash(r)
    PROVE  VerifiedInv'
<1>0. TypeOK
  BY DEF TypeInv
<1>1. CASE \/ LoginCommit(r) \/ OAuthCommit(r) \/ CommitFailure(r) \/ ResolveCommit(r)
           \/ LogoutCommit(r) \/ DisableFlush(r) \/ Crash(r)
  <2>1. Aside(r)
    BY <1>0, <1>1, AsideSteps
  <2>2. \E p : Moved(r, p) /\ p # "loaded"
    BY <2>1 DEF Aside
  <2> QED BY <2>1, <2>2, VerifiedAside DEF Aside
<1>2. CASE Verify(r)
  <2>1. \E p : Moved(r, p) /\ p # "loaded"
    BY <1>0, <1>2, VerifyMoves
  <2> QED BY <1>0, <1>2, <2>1, VerifyMoves, VerifiedAside
<1>3. CASE RecoveryRead(r)
  <2>1. \E p : Moved(r, p) /\ p # "loaded"
    BY <1>0, <1>3, RecoveryReadMoves
  <2> QED BY <1>0, <1>3, <2>1, RecoveryReadMoves, VerifiedAside
<1>4. CASE CommitSession(r)
  <2>1. \E p : Moved(r, p) /\ p # "loaded"
    BY <1>4, CommitSessionMoves
  <2>2. cred'.secret = cred.secret /\ cred'.enabled = cred.enabled
    BY <1>0, <1>4, CommitSessionMoves DEF Accept, TypeOK, Cred
  <2> QED BY <1>4, <2>1, <2>2, CommitSessionMoves, VerifiedAside
<1>5. CASE SetupLoad(r)
  BY <1>0, <1>5, SetupLoadMoves
     DEF VerifiedInv, SetupLoadedOff, VerifiedUnlessRaced, EnabledSecretVerified, At, Moved
<1>6. CASE SetupCommit(r)
  <2>1. Moved(r, "done") /\ cred'.enabled = cred.enabled
    BY <1>0, <1>6, CommitMoves, EnrolledFields DEF SetupCommit, TypeOK, ReqRecord
  <2>2. SetupLoadedOff'
    BY <2>1 DEF VerifiedInv, SetupLoadedOff, Moved, At
  <2>3. ~raced' => ~cred'.enabled
    BY <1>6, <2>1 DEF SetupCommit, Changed, VerifiedInv, SetupLoadedOff
  <2> QED BY <2>2, <2>3 DEF VerifiedInv, VerifiedUnlessRaced, EnabledSecretVerified
<1>7. CASE ActivateLoad(r)
  BY <1>0, <1>7, ActivateLoadMoves
     DEF VerifiedInv, SetupLoadedOff, VerifiedUnlessRaced, EnabledSecretVerified, At, Moved
<1>8. CASE ActivateCommit(r)
  <2>1. Moved(r, "done")
    BY <1>0, <1>8, CommitMoves
  <2>2. SetupLoadedOff'
    BY <2>1 DEF VerifiedInv, SetupLoadedOff, Moved, At
  <2>3. cred'.secret = cred.secret
    BY <1>0, <1>8 DEF ActivateCommit, Activated, Accept, TypeOK, Cred
  <2>4. ~raced' => cred'.secret \in verified'
    BY <1>8, <2>3 DEF ActivateCommit, Changed
  <2> QED BY <2>2, <2>4 DEF VerifiedInv, VerifiedUnlessRaced, EnabledSecretVerified
<1>9. CASE DisableLoad(r)
  BY <1>0, <1>9, DisableLoadMoves
     DEF VerifiedInv, SetupLoadedOff, VerifiedUnlessRaced, EnabledSecretVerified, At, Moved
<1>10. CASE DisableCommit(r)
  <2>1. Moved(r, "done")
    BY <1>0, <1>10, CommitMoves
  <2>2. SetupLoadedOff'
    BY <2>1 DEF VerifiedInv, SetupLoadedOff, Moved, At
  <2>3. ~cred'.enabled
    BY <1>10 DEF DisableCommit, Disabled
  <2> QED BY <2>2, <2>3 DEF VerifiedInv, VerifiedUnlessRaced, EnabledSecretVerified
<1> QED BY <1>1, <1>2, <1>3, <1>4, <1>5, <1>6, <1>7, <1>8, <1>9, <1>10 DEF Step

\* Arrivals and the environment too.
LEMMA VerifiedNext == TypeInv /\ VerifiedInv /\ [Next]_vars => VerifiedInv'
<1> SUFFICES ASSUME TypeInv, VerifiedInv, [Next]_vars PROVE VerifiedInv'
  OBVIOUS
<1>1. ASSUME NEW r \in Requests, NEW ask \in Asks[r], Start(r, ask) PROVE VerifiedInv'
  <2>1. Started(r)
    BY <1>1, StartMoves DEF TypeInv
  <2> QED BY <2>1 DEF Started, VerifiedInv, SetupLoadedOff, VerifiedUnlessRaced,
          EnabledSecretVerified, At
<1>2. ASSUME NEW r \in Requests, Step(r) \/ Crash(r) PROVE VerifiedInv'
  BY <1>2, VerifiedStep
<1>3. CASE \/ \E s \in Aging : ExpireSession(s) \/ ExpireChallenge(s)
           \/ Tick \/ Purge \/ UNCHANGED vars
  BY <1>3, EnvironmentAside
     DEF VerifiedInv, SetupLoadedOff, VerifiedUnlessRaced, EnabledSecretVerified, At
<1> QED BY <1>1, <1>2, <1>3 DEF Next

\* An enabled second factor has a secret of which a code was verified, unless an
\* enrolment step was committed on credentials changed since it loaded them: the
\* overlap is the only way to lose what setup_totp promises.
THEOREM SecretsAreVerified == Spec => []VerifiedUnlessRaced
<1>1. Init => VerifiedInv
  <2> SUFFICES ASSUME Init PROVE VerifiedInv
    OBVIOUS
  <2>1. SetupLoadedOff
    BY DEF Init, NewReq, SetupLoadedOff, At
  <2>2. cred.enabled => cred.secret \in verified
    BY InitCred, NamesAssumption DEF Init, Sources
  <2> QED BY <2>1, <2>2 DEF VerifiedInv, VerifiedUnlessRaced, EnabledSecretVerified
<1>2. VerifiedInv => VerifiedUnlessRaced
  BY DEF VerifiedInv
<1> QED BY <1>1, <1>2, TypeInit, TypeNext, VerifiedNext, PTL DEF Spec

----------------------------------------------------------------------------
(* Recovery codes                                                          *)

\* A recovery code that matched exists, or did.
MatchedKnown ==
    \A r \in Requests :
        At(r, "matched", {"totp"}) /\ req[r].code.step = 0 => recovery[req[r].code.of] # "none"

CodesInv == MatchedKnown /\ CodesOnlyWhileEnabled

\* Steps that leave the recovery codes and the flag alone, and match nothing, keep it.
LEMMA CodesAside ==
    ASSUME CodesInv, NEW r \in Requests, NEW p, Moved(r, p), p # "matched",
           cred'.enabled = cred.enabled, UNCHANGED recovery
    PROVE  CodesInv'
  BY DEF CodesInv, MatchedKnown, CodesOnlyWhileEnabled, At, Moved

\* Every step keeps it.
LEMMA CodesStep ==
    ASSUME TypeInv, CodesInv, NEW r \in Requests, Step(r) \/ Crash(r)
    PROVE  CodesInv'
<1>0. TypeOK
  BY DEF TypeInv
<1>1. CASE \/ LoginCommit(r) \/ OAuthCommit(r) \/ CommitFailure(r) \/ ResolveCommit(r)
           \/ LogoutCommit(r) \/ DisableFlush(r) \/ Crash(r)
  <2>1. Aside(r)
    BY <1>0, <1>1, AsideSteps
  <2>2. \E p : Moved(r, p) /\ p # "matched"
    BY <2>1 DEF Aside
  <2> QED BY <2>1, <2>2, CodesAside DEF Aside
<1>2. CASE Verify(r)
  BY <1>0, <1>2, VerifyMoves DEF CodesInv, MatchedKnown, CodesOnlyWhileEnabled, At, Moved, Matches
<1>3. CASE RecoveryRead(r)
  BY <1>0, <1>3, RecoveryReadMoves DEF CodesInv, MatchedKnown, CodesOnlyWhileEnabled, At, Moved
<1>4. CASE CommitSession(r)
  <2>1. \E p : Moved(r, p) /\ p # "matched"
    BY <1>4, CommitSessionMoves
  <2>2. cred'.enabled = cred.enabled
    BY <1>0, <1>4, CommitSessionMoves DEF Accept, TypeOK, Cred
  <2>3. CASE UNCHANGED recovery
    BY <2>1, <2>2, <2>3, CodesAside
  <2>4. CASE recovery' # recovery
    <3>1. /\ At(r, "matched", {"totp"}) /\ req[r].code \in Code /\ Moved(r, "done")
          /\ req[r].code.step = 0 /\ recovery[req[r].code.of] # "gone"
          /\ recovery' = [recovery EXCEPT ![req[r].code.of] = "used"]
      BY <1>4, <2>4, CommitSessionMoves
    <3>2. req[r].code.of \in Sources
      BY <3>1 DEF Code
    <3>3. recovery[req[r].code.of] \in {"unused", "used"}
      BY <1>0, <3>1, <3>2 DEF TypeOK, RecoveryStates, CodesInv, MatchedKnown
    <3>4. cred'.enabled
      BY <2>2, <3>2, <3>3 DEF CodesInv, CodesOnlyWhileEnabled
    <3>5. \A k \in Sources : recovery[k] # "none" => recovery'[k] # "none"
      BY <1>0, <3>1 DEF TypeOK
    <3>6. MatchedKnown'
      <4> SUFFICES ASSUME NEW q \in Requests, At(q, "matched", {"totp"})', req'[q].code.step = 0
                   PROVE  recovery'[req'[q].code.of] # "none"
        BY DEF MatchedKnown
      <4>1. q # r /\ req'[q] = req[q] /\ At(q, "matched", {"totp"})
        BY <3>1 DEF Moved, At
      <4>2. req[q].code.of \in Sources /\ recovery[req[q].code.of] # "none"
        BY <4>1 DEF TypeInv, Presents, At, Code, CodesInv, MatchedKnown
      <4> QED BY <3>5, <4>1, <4>2
    <3> QED BY <3>4, <3>6 DEF CodesInv, CodesOnlyWhileEnabled
  <2> QED BY <2>3, <2>4
<1>5. CASE SetupLoad(r)
  BY <1>0, <1>5, SetupLoadMoves, CodesAside
<1>6. CASE SetupCommit(r)
  <2>1. Moved(r, "done") /\ cred'.enabled = cred.enabled /\ UNCHANGED recovery
    BY <1>0, <1>6, CommitMoves, EnrolledFields DEF SetupCommit, TypeOK, ReqRecord, tables
  <2> QED BY <2>1, CodesAside
<1>7. CASE ActivateLoad(r)
  BY <1>0, <1>7, ActivateLoadMoves, CodesAside
<1>8. CASE ActivateCommit(r)
  <2>1. Moved(r, "done")
    BY <1>0, <1>8, CommitMoves
  <2>2. cred'.enabled
    BY <1>0, <1>8 DEF ActivateCommit, Activated, Accept, TypeOK, Cred
  <2>3. \A k \in Sources : recovery[k] # "none" => recovery'[k] # "none"
    BY <1>0, <1>8 DEF ActivateCommit, TypeOK
  <2>4. MatchedKnown'
    <3> SUFFICES ASSUME NEW q \in Requests, At(q, "matched", {"totp"})', req'[q].code.step = 0
                 PROVE  recovery'[req'[q].code.of] # "none"
      BY DEF MatchedKnown
    <3>1. q # r /\ req'[q] = req[q] /\ At(q, "matched", {"totp"})
      BY <2>1 DEF Moved, At
    <3>2. req[q].code.of \in Sources /\ recovery[req[q].code.of] # "none"
      BY <3>1 DEF TypeInv, Presents, At, Code, CodesInv, MatchedKnown
    <3> QED BY <2>3, <3>1, <3>2
  <2> QED BY <2>2, <2>4 DEF CodesInv, CodesOnlyWhileEnabled
<1>9. CASE DisableLoad(r)
  BY <1>0, <1>9, DisableLoadMoves, CodesAside
<1>10. CASE DisableCommit(r)
  <2>1. Moved(r, "done")
    BY <1>0, <1>10, CommitMoves
  <2>2. \A k \in Sources : recovery'[k] = IF recovery[k] = "none" THEN "none" ELSE "gone"
    BY <1>10 DEF DisableCommit
  <2>3. MatchedKnown'
    <3> SUFFICES ASSUME NEW q \in Requests, At(q, "matched", {"totp"})', req'[q].code.step = 0
                 PROVE  recovery'[req'[q].code.of] # "none"
      BY DEF MatchedKnown
    <3>1. q # r /\ req'[q] = req[q] /\ At(q, "matched", {"totp"})
      BY <2>1 DEF Moved, At
    <3>2. req[q].code.of \in Sources /\ recovery[req[q].code.of] # "none"
      BY <3>1 DEF TypeInv, Presents, At, Code, CodesInv, MatchedKnown
    <3> QED BY <2>2, <3>1, <3>2
  <2> QED BY <2>2, <2>3 DEF CodesInv, CodesOnlyWhileEnabled
<1> QED BY <1>1, <1>2, <1>3, <1>4, <1>5, <1>6, <1>7, <1>8, <1>9, <1>10 DEF Step

\* Arrivals and the environment too.
LEMMA CodesNext == TypeInv /\ CodesInv /\ [Next]_vars => CodesInv'
<1> SUFFICES ASSUME TypeInv, CodesInv, [Next]_vars PROVE CodesInv'
  OBVIOUS
<1>1. ASSUME NEW r \in Requests, NEW ask \in Asks[r], Start(r, ask) PROVE CodesInv'
  <2>1. Started(r)
    BY <1>1, StartMoves DEF TypeInv
  <2> QED BY <2>1 DEF Started, CodesInv, MatchedKnown, CodesOnlyWhileEnabled, At
<1>2. ASSUME NEW r \in Requests, Step(r) \/ Crash(r) PROVE CodesInv'
  BY <1>2, CodesStep
<1>3. CASE \/ \E s \in Aging : ExpireSession(s) \/ ExpireChallenge(s)
           \/ Tick \/ Purge \/ UNCHANGED vars
  BY <1>3, EnvironmentAside DEF CodesInv, MatchedKnown, CodesOnlyWhileEnabled, At
<1> QED BY <1>1, <1>2, <1>3 DEF Next

\* It holds at first.
LEMMA CodesInit == Init => CodesInv
<1> SUFFICES ASSUME Init PROVE CodesInv
  OBVIOUS
<1>1. MatchedKnown
  BY DEF Init, NewReq, MatchedKnown, At
<1>2. \A k \in Sources : recovery[k] \in {"unused", "used"} => cred.enabled
  BY InitCred, NamesAssumption DEF Init
<1> QED BY <1>1, <1>2 DEF CodesInv, CodesOnlyWhileEnabled

\* No recovery code outlives the second factor it belongs to: disabling deletes
\* them all, also those of an activation that ran at the same time.
THEOREM CodesGoWithTheFactor == Spec => []CodesOnlyWhileEnabled
<1>1. CodesInv => CodesOnlyWhileEnabled
  BY DEF CodesInv
<1> QED BY <1>1, CodesInit, TypeInit, TypeNext, CodesNext, PTL DEF Spec

----------------------------------------------------------------------------
(* Logouts                                                                 *)

\* Only a request that is done has its session.
SessionNamed == \A s \in Requests : sessions[s] # "none" => req[s].pc = "done"

\* What a step may do to the sessions: create that of a request that ends, revoke,
\* expire or delete one.
SessionsStep ==
    \/ UNCHANGED sessions
    \/ \E r \in Requests : sessions' = CreateSession(r) /\ req[r].pc # "done" /\ req'[r].pc = "done"
    \/ \E s \in Sources : sessions' = Revoke(s)
    \/ \E s \in Sources : sessions[s] = "live" /\ sessions' = [sessions EXCEPT ![s] = "expired"]
    \/ sessions' = [s \in Sources |-> IF sessions[s] \in {"revoked", "expired"} THEN "gone"
                                                                             ELSE sessions[s]]

\* Every step does one of these, and no request that is done moves.
LEMMA SessionsNext ==
    ASSUME TypeInv, [Next]_vars
    PROVE  SessionsStep /\ \A q \in Requests : req[q].pc = "done" => req'[q].pc = "done"
<1>0. TypeOK
  BY DEF TypeInv
<1>1. ASSUME NEW r \in Requests, NEW ask \in Asks[r], Start(r, ask)
      PROVE  SessionsStep /\ \A q \in Requests : req[q].pc = "done" => req'[q].pc = "done"
  <2>1. Started(r)
    BY <1>0, <1>1, StartMoves
  <2> QED BY <2>1 DEF Started, SessionsStep
<1>2. ASSUME NEW r \in Requests,
             \/ CommitFailure(r) \/ ResolveCommit(r) \/ DisableFlush(r) \/ Crash(r)
      PROVE  SessionsStep /\ \A q \in Requests : req[q].pc = "done" => req'[q].pc = "done"
  <2>1. Aside(r)
    BY <1>0, <1>2, AsideSteps
  <2>2. UNCHANGED sessions
    BY <1>2 DEF CommitFailure, ResolveCommit, DisableFlush, Crash, tables
  <2> QED BY <2>1, <2>2 DEF Aside, Moved, Ends, SessionsStep
<1>3. ASSUME NEW r \in Requests, LoginCommit(r) \/ OAuthCommit(r)
      PROVE  SessionsStep /\ \A q \in Requests : req[q].pc = "done" => req'[q].pc = "done"
  <2>1. Aside(r) /\ req[r].pc # "done"
    BY <1>0, <1>3, AsideSteps DEF Aside, Ends
  <2>2. \A q \in Requests : req[q].pc = "done" => req'[q].pc = "done"
    BY <2>1 DEF Aside, Moved
  <2>3. End(r, "done") => req'[r].pc = "done"
    BY <1>0, EndMoves DEF Moved, Places, Ends
  <2>4. SessionsStep
    BY <1>3, <2>1, <2>3 DEF LoginCommit, OAuthCommit, SessionsStep
  <2> QED BY <2>2, <2>4
<1>4. ASSUME NEW r \in Requests, LogoutCommit(r)
      PROVE  SessionsStep /\ \A q \in Requests : req[q].pc = "done" => req'[q].pc = "done"
  <2>1. Aside(r)
    BY <1>0, <1>4, AsideSteps
  <2>2. req[r].session \in Sources
    BY <1>4 DEF LogoutCommit, At, TypeInv, Presents, Authenticated
  <2>3. SessionsStep
    BY <1>4, <2>2 DEF LogoutCommit, SessionsStep
  <2> QED BY <2>1, <2>3 DEF Aside, Moved, Ends
<1>5. ASSUME NEW r \in Requests, CommitSession(r)
      PROVE  SessionsStep /\ \A q \in Requests : req[q].pc = "done" => req'[q].pc = "done"
  <2>1. At(r, "matched", {"totp"}) /\ (Moved(r, "done") \/ Moved(r, "failed"))
    BY <1>5, CommitSessionMoves
  <2>2. \A q \in Requests : req[q].pc = "done" => req'[q].pc = "done"
    BY <2>1 DEF Moved, At
  <2>3. End(r, "done") => req'[r].pc = "done"
    BY <1>0, EndMoves DEF Moved, Places, Ends
  <2>4. SessionsStep
    BY <1>5, <2>1, <2>3 DEF CommitSession, SessionsStep, At
  <2> QED BY <2>2, <2>4
<1>6. ASSUME NEW r \in Requests,
             \/ Verify(r) \/ RecoveryRead(r) \/ SetupLoad(r) \/ SetupCommit(r) \/ ActivateLoad(r)
             \/ ActivateCommit(r) \/ DisableLoad(r) \/ DisableCommit(r)
      PROVE  SessionsStep /\ \A q \in Requests : req[q].pc = "done" => req'[q].pc = "done"
  <2>1. UNCHANGED sessions
    BY <1>6 DEF Verify, RecoveryRead, SetupLoad, SetupCommit, ActivateLoad, ActivateCommit,
       DisableLoad, DisableCommit, tables
  <2>2. req[r].pc # "done"
    BY <1>6 DEF Verify, RecoveryRead, SetupLoad, SetupCommit, ActivateLoad, ActivateCommit,
       DisableLoad, DisableCommit, At
  <2>3. \E p : Moved(r, p)
    BY <1>0, <1>6, VerifyMoves, RecoveryReadMoves, SetupLoadMoves, ActivateLoadMoves,
       DisableLoadMoves, CommitMoves
  <2> QED BY <2>1, <2>2, <2>3 DEF Moved, SessionsStep
<1>7. CASE \/ \E s \in Aging : ExpireSession(s) \/ ExpireChallenge(s)
           \/ Tick \/ Purge \/ UNCHANGED vars
  <2>1. UNCHANGED req
    BY <1>7, EnvironmentAside
  <2>2. SessionsStep
    BY <1>7, NamesAssumption DEF ExpireSession, ExpireChallenge, Tick, Purge, vars, tables, SessionsStep
  <2> QED BY <2>1, <2>2
<1> QED BY <1>1, <1>2, <1>3, <1>4, <1>5, <1>6, <1>7 DEF Next, Step

\* Sessions keep their names.
LEMMA SessionNamedNext == TypeInv /\ SessionNamed /\ [Next]_vars => SessionNamed'
<1> SUFFICES ASSUME TypeInv, SessionNamed, [Next]_vars, NEW q \in Requests, sessions'[q] # "none"
             PROVE  req'[q].pc = "done"
  BY DEF SessionNamed
<1>1. SessionsStep /\ (req[q].pc = "done" => req'[q].pc = "done") /\ q \in Sources
  BY SessionsNext DEF Sources
<1>2. sessions \in [Sources -> SessionStates]
  BY DEF TypeInv, TypeOK
<1>3. sessions[q] # "none" \/ req'[q].pc = "done"
  BY <1>1, <1>2 DEF SessionsStep, CreateSession, Revoke, Sources
<1> QED BY <1>1, <1>3 DEF SessionNamed

\* A logout is final: the requests that resolved the session before it write back
\* only what they changed, and no new session takes an old one's place.
THEOREM LogoutIsFinal == Spec => RevokedStaysRevoked
<1>1. Init => SessionNamed
  BY NamesAssumption DEF Init, SessionNamed, Sources
<1>2. TypeInv /\ SessionNamed /\ [Next]_vars =>
        [\A s \in Sources : sessions[s] = "revoked" => sessions'[s] \in {"revoked", "gone"}]_vars
  <2> SUFFICES ASSUME TypeInv, SessionNamed, [Next]_vars, NEW s \in Sources,
                      sessions[s] = "revoked"
               PROVE  sessions'[s] \in {"revoked", "gone"}
    OBVIOUS
  <2>1. SessionsStep
    BY SessionsNext
  <2>2. sessions \in [Sources -> SessionStates]
    BY DEF TypeInv, TypeOK
  <2> QED BY <2>1, <2>2 DEF SessionsStep, CreateSession, Revoke, SessionNamed, Sources
<1> QED BY <1>1, <1>2, TypeInit, TypeNext, SessionNamedNext, PTL DEF Spec, RevokedStaysRevoked

----------------------------------------------------------------------------
(* The ledger of accepted codes                                            *)

\* A secret named after a request was committed by it.
Settled(s) == s \in Requests => At(s, "done", {"setup"})

\* The secrets in use, and those of the codes accepted or about to be, are settled;
\* recovery codes named after a request were committed by it.
Named ==
    /\ Settled(cred.secret)
    /\ \A c \in spent : c.step # 0 => Settled(c.of)
    /\ \A r \in Requests :
          At(r, "matched", {"totp"}) /\ req[r].code.step # 0 => Settled(req[r].code.of)
    /\ \A r \in Requests : At(r, "loaded", {"activate"}) => Settled(req[r].code.of)
    /\ \A k \in Requests : recovery[k] # "none" => At(k, "done", {"activate"})

\* An accepted recovery code is used or deleted; the counter of the secret in use
\* has reached every accepted code of that secret, unless it went back.
Booked ==
    \A c \in spent :
        /\ c.step = 0 => recovery[c.of] \in {"used", "gone"}
        /\ c.step # 0 /\ c.of = cred.secret => c.step <= cred.last \/ backed

Ledger == Named /\ Booked

\* The same of the next state.
SettledNext(s) == s \in Requests => req'[s].pc = "done" /\ req'[s].kind = "setup"

\* A request that moves on and was not done leaves the settled secrets settled.
LEMMA SettledStays ==
    ASSUME NEW r \in Requests, req[r].pc # "done",
           \A q \in Requests \ {r} : req'[q] = req[q], NEW s, Settled(s)
    PROVE  SettledNext(s)
  BY DEF Settled, SettledNext, At

\* A move that accepts nothing keeps the ledger, when what it matched is settled.
LEMMA LedgerAside ==
    ASSUME Ledger, NEW r \in Requests, NEW p, Moved(r, p), req[r].pc # "done",
           UNCHANGED <<cred, recovery, spent, backed>>,
           p = "matched" /\ req[r].code.step # 0 => Settled(req[r].code.of),
           p = "loaded" /\ req[r].kind = "activate" => Settled(req[r].code.of)
    PROVE  Ledger'
<1>1. \A s : Settled(s) => SettledNext(s)
  BY SettledStays DEF Moved
<1>2. \A k \in Requests : At(k, "done", {"activate"}) => At(k, "done", {"activate"})'
  BY DEF Moved, At
<1>3. \A q \in Requests : At(q, "matched", {"totp"})' /\ req'[q].code.step # 0
                             => SettledNext(req'[q].code.of)
  BY <1>1 DEF Ledger, Named, Moved, At
<1>4. \A q \in Requests : At(q, "loaded", {"activate"})' => SettledNext(req'[q].code.of)
  BY <1>1 DEF Ledger, Named, Moved, At
<1>5. Named'
  BY <1>1, <1>2, <1>3, <1>4 DEF Ledger, Named, Settled, SettledNext, At
<1>6. Booked'
  BY DEF Ledger, Booked
<1> QED BY <1>5, <1>6 DEF Ledger

\* A commit that ends its request keeps the names, when the new secret, the code
\* it accepts and the recovery codes are accounted for.
LEMMA NamedCommit ==
    ASSUME Named, NEW r \in Requests, Moved(r, "done"), req[r].pc # "done",
           SettledNext(cred'.secret),
           \A c \in spent' \ spent : c.step # 0 => Settled(c.of),
           \A k \in Requests \ {r} : recovery'[k] # "none" => recovery[k] # "none",
           recovery'[r] # "none" => recovery[r] # "none" \/ req[r].kind = "activate"
    PROVE  Named'
<1>1. \A s : Settled(s) => SettledNext(s)
  BY SettledStays DEF Moved
<1>2. \A c \in spent' : c.step # 0 => SettledNext(c.of)
  BY <1>1 DEF Named
<1>3. \A q \in Requests : At(q, "matched", {"totp"})' /\ req'[q].code.step # 0
                             => SettledNext(req'[q].code.of)
  BY <1>1 DEF Named, Moved, At
<1>4. \A q \in Requests : At(q, "loaded", {"activate"})' => SettledNext(req'[q].code.of)
  BY <1>1 DEF Named, Moved, At
<1>5. \A k \in Requests : recovery'[k] # "none" => At(k, "done", {"activate"})'
  BY DEF Named, Moved, At
<1> QED BY <1>2, <1>3, <1>4, <1>5 DEF Named, Settled, SettledNext, At

\* Accepting a code changes the counter alone.
LEMMA AcceptFields ==
    ASSUME TypeOK, NEW code \in Code
    PROVE  /\ Accept(cred, code).secret = cred.secret /\ Accept(cred, code).enabled = cred.enabled
           /\ Accept(cred, code).last = code.step
           /\ code.step \in Nat /\ code.of \in Sources /\ cred.last \in Nat
  BY MaxStepAssumption DEF Accept, TypeOK, Cred, Code

\* Accepting a TOTP code keeps the accounts, when no used recovery code comes back.
LEMMA BookedAccept ==
    ASSUME TypeOK, Booked, NEW code \in Code, code.step # 0,
           cred'.secret = cred.secret, cred'.last = code.step,
           spent' = spent \cup {code}, backed' = (backed \/ code.step < cred.last),
           \A c \in spent : c.step = 0 => recovery'[c.of] = recovery[c.of]
    PROVE  Booked'
<1>1. cred.last \in Nat /\ \A c \in Code : c.step \in Nat
  BY MaxStepAssumption DEF TypeOK, Cred, Code
<1>2. ~backed' => ~backed /\ ~(code.step < cred.last)
  OBVIOUS
<1>3. spent \subseteq Code
  BY DEF TypeOK
<1> SUFFICES ASSUME NEW c \in spent'
             PROVE  /\ c.step = 0 => recovery'[c.of] \in {"used", "gone"}
                    /\ c.step # 0 /\ c.of = cred'.secret /\ ~backed' => c.step <= cred'.last
  BY DEF Booked
<1>4. CASE c = code
  BY <1>1, <1>4
<1>5. CASE c \in spent
  <2>1. c.step = 0 => recovery'[c.of] \in {"used", "gone"}
    BY <1>5 DEF Booked
  <2>2. c.step # 0 /\ c.of = cred.secret /\ ~backed => c.step <= cred.last
    BY <1>5 DEF Booked
  <2>3. c.step \in Nat /\ code.step \in Nat /\ cred.last \in Nat
    BY <1>1, <1>3, <1>5
  <2> QED BY <1>2, <2>1, <2>2, <2>3
<1> QED BY <1>4, <1>5

\* Every step of a request keeps the ledger.
LEMMA LedgerStep ==
    ASSUME TypeInv, CodesInv, Ledger, NEW r \in Requests, Step(r) \/ Crash(r)
    PROVE  Ledger'
<1>0. TypeOK /\ Presents /\ Named /\ Booked
  BY DEF TypeInv, Ledger
<1>n. r \in Sources /\ spent \subseteq Code /\ recovery \in [Sources -> RecoveryStates]
      /\ \A c \in Code : c.of \in Sources /\ c.step \in Nat
  BY <1>0, MaxStepAssumption DEF TypeOK, Sources, Code
<1>1. CASE \/ LoginCommit(r) \/ OAuthCommit(r) \/ CommitFailure(r) \/ ResolveCommit(r)
           \/ LogoutCommit(r) \/ DisableFlush(r) \/ Crash(r)
  <2>1. Aside(r)
    BY <1>0, <1>1, AsideSteps
  <2>2. \E p : Moved(r, p) /\ p \notin {"matched", "loaded"}
    BY <2>1 DEF Aside
  <2> QED BY <2>1, <2>2, LedgerAside DEF Aside, Ends
<1>2. CASE Verify(r)
  <2>1. Matches(cred, req[r].code) => Settled(req[r].code.of)
    BY <1>0 DEF Matches, Named
  <2>2. \E p : /\ Moved(r, p) /\ p # "loaded"
               /\ p = "matched" => Settled(req[r].code.of)
    BY <1>0, <1>2, <2>1, VerifyMoves
  <2> QED BY <1>0, <1>2, <2>2, VerifyMoves, LedgerAside DEF At
<1>3. CASE RecoveryRead(r)
  <2>1. \E p : /\ Moved(r, p) /\ p # "loaded"
               /\ p = "matched" => req[r].code.step = 0
    BY <1>0, <1>3, RecoveryReadMoves
  <2> QED BY <1>0, <1>3, <2>1, RecoveryReadMoves, LedgerAside DEF At
<1>4. CASE CommitSession(r)
  <2> DEFINE code == req[r].code
  <2>1. At(r, "matched", {"totp"}) /\ code \in Code /\ req[r].pc # "done" /\ code.of \in Sources
    BY <1>4, <1>n, CommitSessionMoves DEF At
  <2>2. CASE Moved(r, "failed") /\ UNCHANGED <<cred, recovery, spent, backed>>
    BY <2>1, <2>2, LedgerAside
  <2>3. CASE /\ Moved(r, "done") /\ spent' = spent \cup {code} /\ code.step = 0
             /\ recovery' = [recovery EXCEPT ![code.of] = "used"] /\ UNCHANGED <<cred, backed>>
    <3>1. recovery[code.of] # "none"
      BY <2>1, <2>3 DEF CodesInv, MatchedKnown
    <3>2. \A k \in Sources : recovery'[k] = IF k = code.of THEN "used" ELSE recovery[k]
      BY <1>n, <2>1, <2>3
    <3>3. SettledNext(cred'.secret)
      BY <1>0, <2>1, <2>3, SettledStays DEF Named, Moved
    <3>4. Named'
      BY <1>0, <2>1, <2>3, <3>1, <3>2, <3>3, NamedCommit DEF Sources
    <3>5. Booked'
      BY <1>0, <1>n, <2>1, <2>3, <3>2 DEF Booked
    <3> QED BY <3>4, <3>5 DEF Ledger
  <2>4. CASE /\ Moved(r, "done") /\ spent' = spent \cup {code} /\ code.step # 0
             /\ cred' = Accept(cred, code)
             /\ backed' = (backed \/ code.step < cred.last) /\ UNCHANGED recovery
    <3>1. cred'.secret = cred.secret /\ cred'.last = code.step /\ code.step \in Nat /\ cred.last \in Nat
      BY <1>0, <2>1, <2>4, AcceptFields
    <3>2. SettledNext(cred'.secret)
      BY <1>0, <2>1, <2>4, <3>1, SettledStays DEF Named, Moved
    <3>3. Settled(code.of)
      BY <1>0, <2>1, <2>4 DEF Named
    <3>4. Named'
      BY <1>0, <2>1, <2>4, <3>2, <3>3, NamedCommit
    <3>5. Booked'
      BY <1>0, <2>1, <2>4, <3>1, BookedAccept
    <3> QED BY <3>4, <3>5 DEF Ledger
  <2> QED BY <1>4, <2>2, <2>3, <2>4, CommitSessionMoves
<1>5. CASE SetupLoad(r)
  <2>1. \E p : Moved(r, p) /\ p # "matched"
    BY <1>0, <1>5, SetupLoadMoves
  <2> QED BY <1>0, <1>5, <2>1, SetupLoadMoves, LedgerAside DEF At
<1>6. CASE SetupCommit(r)
  <2>1. /\ Moved(r, "done") /\ At(r, "loaded", {"setup"}) /\ req[r].pc # "done"
        /\ cred'.secret = r /\ UNCHANGED <<recovery, spent, backed>>
    BY <1>0, <1>6, CommitMoves, EnrolledFields DEF SetupCommit, TypeOK, ReqRecord, tables, At
  <2>2. SettledNext(cred'.secret)
    BY <2>1 DEF SettledNext, At, Moved
  <2>3. Named'
    BY <1>0, <2>1, <2>2, NamedCommit
  <2>4. \A c \in spent : c.step # 0 => c.of # r
    BY <1>0, <2>1 DEF Named, Settled, At
  <2>5. Booked'
    BY <1>0, <2>1, <2>4 DEF Booked
  <2> QED BY <2>3, <2>5 DEF Ledger
<1>7. CASE ActivateLoad(r)
  <2>1. Settled(cred.secret)
    BY <1>0 DEF Named
  <2>2. \E p : /\ Moved(r, p) /\ p # "matched"
               /\ p = "loaded" => Settled(req[r].code.of)
    BY <1>0, <1>7, <2>1, ActivateLoadMoves
  <2> QED BY <1>0, <1>7, <2>2, ActivateLoadMoves, LedgerAside DEF At
<1>8. CASE ActivateCommit(r)
  <2> DEFINE code == req[r].code
  <2>1. /\ Moved(r, "done") /\ At(r, "loaded", {"activate"}) /\ req[r].pc # "done"
        /\ req[r].kind = "activate" /\ code \in Code /\ code.step # 0 /\ Settled(code.of)
    BY <1>0, <1>8, CommitMoves DEF ActivateCommit, Presents, Named, At
  <2>2. cred'.secret = cred.secret /\ cred'.last = code.step /\ code.step \in Nat /\ cred.last \in Nat
    <3>1. Accept(cred, code) \in Cred
      BY <1>0, <2>1 DEF Accept, TypeOK, Cred, Code
    <3>2. Activated(r).secret = Accept(cred, code).secret /\ Activated(r).last = Accept(cred, code).last
      BY <3>1 DEF Activated, Cred
    <3> QED BY <1>0, <1>8, <2>1, <3>2, AcceptFields DEF ActivateCommit
  <2>3. /\ spent' = spent \cup {code} /\ backed' = (backed \/ code.step < cred.last)
        /\ \A k \in Sources : recovery'[k] = IF k = r THEN "unused" ELSE recovery[k]
    BY <1>8, <1>n DEF ActivateCommit
  <2>4. SettledNext(cred'.secret)
    BY <1>0, <2>1, <2>2, SettledStays DEF Named, Moved
  <2>5. Named'
    BY <1>0, <2>1, <2>3, <2>4, NamedCommit DEF Sources
  <2>6. \A c \in spent : c.step = 0 => c.of # r
    BY <1>0, <2>1 DEF Booked, Named, At
  <2>7. Booked'
    BY <1>0, <1>n, <2>1, <2>2, <2>3, <2>6, BookedAccept
  <2> QED BY <2>5, <2>7 DEF Ledger
<1>9. CASE DisableLoad(r)
  <2>1. \E p : Moved(r, p) /\ p # "matched"
    BY <1>0, <1>9, DisableLoadMoves
  <2> QED BY <1>0, <1>9, <2>1, DisableLoadMoves, LedgerAside DEF At
<1>10. CASE DisableCommit(r)
  <2>1. Moved(r, "done") /\ req[r].pc # "done"
    BY <1>0, <1>10, CommitMoves DEF DisableCommit, At
  <2>2. \A k \in Sources : recovery'[k] = IF recovery[k] = "none" THEN "none" ELSE "gone"
    BY <1>10 DEF DisableCommit
  <2>3. (cred'.secret = cred.secret \/ cred'.secret = None) /\ cred' \in Cred /\ UNCHANGED spent
    <3>1. TypeInv'
      BY <1>10, TypeStep DEF Step
    <3> QED BY <1>10, <3>1 DEF DisableCommit, Disabled, Column, TypeInv, TypeOK
  <2>4. SettledNext(cred'.secret)
    <3>1. None \notin Requests
      BY NamesAssumption DEF Sources
    <3>2. SettledNext(cred.secret)
      BY <1>0, <2>1, SettledStays DEF Named, Moved
    <3> QED BY <2>3, <3>1, <3>2 DEF SettledNext
  <2>5. Named'
    BY <1>0, <2>1, <2>2, <2>3, <2>4, NamedCommit DEF Sources
  <2>6. \A c \in spent : c.step # 0 /\ c.of = cred'.secret => c.step <= cred'.last \/ backed'
    <3> SUFFICES ASSUME NEW c \in spent, c.step # 0, c.of = cred'.secret, ~backed'
                 PROVE  c.step <= cred'.last
      OBVIOUS
    <3>1. cred'.secret = cred.secret
      BY <1>n, <2>3, NamesAssumption
    <3>2. ~backed /\ ~(cred'.last < cred.last)
      BY <1>10, <3>1 DEF DisableCommit
    <3>3. c.step <= cred.last
      BY <1>0, <3>1, <3>2 DEF Booked
    <3>4. c.step \in Nat /\ cred.last \in Nat /\ cred'.last \in Nat
      BY <1>0, <1>n, <2>3, MaxStepAssumption DEF TypeOK, Cred
    <3> QED BY <3>2, <3>3, <3>4
  <2>7. Booked'
    BY <1>0, <1>n, <2>2, <2>3, <2>6 DEF Booked
  <2> QED BY <2>5, <2>7 DEF Ledger
<1> QED BY <1>1, <1>2, <1>3, <1>4, <1>5, <1>6, <1>7, <1>8, <1>9, <1>10 DEF Step

\* So do arrivals and the environment.
LEMMA LedgerNext == TypeInv /\ CodesInv /\ Ledger /\ [Next]_vars => Ledger'
<1> SUFFICES ASSUME TypeInv, CodesInv, Ledger, [Next]_vars PROVE Ledger'
  OBVIOUS
<1>1. ASSUME NEW r \in Requests, NEW ask \in Asks[r], Start(r, ask) PROVE Ledger'
  <2>1. Started(r)
    BY <1>1, StartMoves DEF TypeInv
  <2>2. \A s : Settled(s) => SettledNext(s)
    BY <2>1, SettledStays DEF Started
  <2>3. \A k \in Requests : At(k, "done", {"activate"}) => At(k, "done", {"activate"})'
    BY <2>1 DEF Started, At
  <2>4. \A q \in Requests : At(q, "matched", {"totp"})' /\ req'[q].code.step # 0
                               => SettledNext(req'[q].code.of)
    BY <2>1, <2>2 DEF Started, Ledger, Named, At
  <2>5. \A q \in Requests : At(q, "loaded", {"activate"})' => SettledNext(req'[q].code.of)
    BY <2>1, <2>2 DEF Started, Ledger, Named, At
  <2>6. Named'
    BY <2>1, <2>2, <2>3, <2>4, <2>5 DEF Started, Ledger, Named, Settled, SettledNext, At
  <2>7. Booked'
    BY <2>1 DEF Started, Ledger, Booked
  <2> QED BY <2>6, <2>7 DEF Ledger
<1>2. ASSUME NEW r \in Requests, Step(r) \/ Crash(r) PROVE Ledger'
  BY <1>2, LedgerStep
<1>3. CASE \/ \E s \in Aging : ExpireSession(s) \/ ExpireChallenge(s)
           \/ Tick \/ Purge \/ UNCHANGED vars
  BY <1>3, EnvironmentAside DEF Ledger, Named, Booked, Settled, At
<1> QED BY <1>1, <1>2, <1>3 DEF Next

\* It holds at first.
LEMMA LedgerInit == Init => Ledger
<1> SUFFICES ASSUME Init PROVE Ledger
  OBVIOUS
<1>1. /\ \A s \in Olds : s \notin Requests
      /\ None \notin Requests /\ \A r \in Requests : req[r].pc = "new"
  BY NamesAssumption DEF Init, NewReq, Sources
<1>2. \A k \in Requests : recovery[k] = "none"
  BY <1>1, InitCred DEF Init, Sources
<1>3. \A c \in spent : c.of = cred.secret /\ c.step = 1 /\ cred.last = 1 /\ cred.secret \in Olds
  <2>1. CASE cred.enabled
    <3>1. spent = {[of |-> cred.secret, step |-> 1]}
      BY <2>1 DEF Init
    <3> QED BY <2>1, <3>1, InitCred
  <2>2. CASE ~cred.enabled
    BY <2>2 DEF Init
  <2> QED BY <2>1, <2>2
<1>4. Named
  <2>1. Settled(cred.secret)
    BY <1>1, InitCred DEF Settled
  <2>2. \A c \in spent : Settled(c.of)
    BY <1>1, <1>3 DEF Settled
  <2> QED BY <1>1, <1>2, <2>1, <2>2 DEF Named, At
<1>5. Booked
  BY <1>3 DEF Booked
<1> QED BY <1>4, <1>5 DEF Ledger

----------------------------------------------------------------------------
(* Codes accepted once                                                     *)

\* A challenge row is locked by one request at a time.
OneHolder ==
    \A q, r \in Requests :
        q # r /\ HoldsChallenge(q) /\ HoldsChallenge(r) => req[q].challenge # req[r].challenge

\* A session was opened with a code that is spent; a code spent when its request
\* arrived is still spent, and matched only if a counter went back.
LateRefused ==
    \A r \in Requests :
        /\ req[r].late => req[r].code \in spent
        /\ Opened(r) => req[r].code \in spent
        /\ req[r].late /\ (At(r, "matched", {"totp"}) \/ Opened(r)) => backed

\* r opened a session, or is about to.
Opening(r) == At(r, "matched", {"totp"}) \/ Opened(r)

\* Nobody is about to open a second session with the challenge and the code of a
\* first one.
NoSecond ==
    \A q, r \in Requests :
        /\ q # r /\ Opened(q) /\ Opening(r)
        /\ req[q].challenge = req[r].challenge /\ req[q].code = req[r].code
        => backed

Submissions == OneHolder /\ LateRefused /\ NoSecond

\* A move that neither takes a challenge nor matches nor opens keeps it.
LEMMA SubmissionsAside ==
    ASSUME Submissions, NEW r \in Requests, NEW p, Moved(r, p), req[r].pc \notin Ends,
           p \in {"recovering", "failing"} => HoldsChallenge(r),
           p # "matched", p = "done" => req[r].kind # "totp",
           spent \subseteq spent', backed => backed'
    PROVE  Submissions'
<1>1. OneHolder'
  BY DEF Submissions, OneHolder, HoldsChallenge, Moved
<1>2. LateRefused'
  BY DEF Submissions, LateRefused, Opened, At, Moved
<1>3. NoSecond'
  BY DEF Submissions, NoSecond, Opening, Opened, At, Moved
<1> QED BY <1>1, <1>2, <1>3 DEF Submissions

\* A spent code matches only if a counter went back.
LEMMA SpentNoMatch ==
    ASSUME TypeOK, Ledger, NEW code \in spent, Matches(cred, code)
    PROVE  backed
<1>1. code.step \in Nat /\ cred.last \in Nat
  BY MaxStepAssumption DEF TypeOK, Code, Cred
<1>2. code.step # 0 /\ code.of = cred.secret /\ (cred.last = 0 \/ code.step > cred.last)
  BY DEF Matches
<1>3. code.step <= cred.last \/ backed
  BY <1>2 DEF Ledger, Booked
<1> QED BY <1>1, <1>2, <1>3

\* A match keeps it, when a spent code matches only if a counter went back.
LEMMA SubmissionsMatch ==
    ASSUME Submissions, NEW r \in Requests, Moved(r, "matched"), req[r].pc \notin Ends,
           HoldsChallenge(r) \/ ChallengeFree(r),
           req[r].code \in spent => backed, UNCHANGED <<spent, backed>>
    PROVE  Submissions'
<1>1. OneHolder'
  BY DEF Submissions, OneHolder, HoldsChallenge, ChallengeFree, Moved
<1>2. LateRefused'
  BY DEF Submissions, LateRefused, Opened, At, Moved
<1>3. NoSecond'
  BY DEF Submissions, NoSecond, LateRefused, Opening, Opened, At, Moved, Ends
<1> QED BY <1>1, <1>2, <1>3 DEF Submissions

\* Opening a session keeps it: no other request holds the challenge.
LEMMA SubmissionsOpen ==
    ASSUME Submissions, NEW r \in Requests, At(r, "matched", {"totp"}), Moved(r, "done"),
           spent' = spent \cup {req[r].code}, backed => backed'
    PROVE  Submissions'
<1>1. OneHolder'
  BY DEF Submissions, OneHolder, HoldsChallenge, Moved
<1>2. LateRefused'
  BY DEF Submissions, LateRefused, Opened, At, Moved
<1>3. NoSecond'
  <2> SUFFICES ASSUME NEW q \in Requests, NEW t \in Requests, q # t, Opened(q)', Opening(t)',
                      req'[q].challenge = req'[t].challenge, req'[q].code = req'[t].code
               PROVE  backed'
    BY DEF NoSecond
  <2>1. CASE q = r
    <3>1. req'[t] = req[t] /\ req[r].challenge = req[t].challenge /\ req[r].code = req[t].code
      BY <2>1 DEF Moved
    <3>2. CASE At(t, "matched", {"totp"})
      BY <2>1, <3>1, <3>2 DEF Submissions, OneHolder, HoldsChallenge, At
    <3>3. CASE Opened(t)
      BY <2>1, <3>1, <3>3 DEF Submissions, NoSecond, Opening
    <3> QED BY <3>1, <3>2, <3>3 DEF Opening, Opened, At
  <2>2. CASE t = r
    <3>1. req'[q] = req[q] /\ req[r].challenge = req[q].challenge /\ req[r].code = req[q].code
      BY <2>2 DEF Moved
    <3> QED BY <2>2, <3>1 DEF Submissions, NoSecond, Opening, Opened
  <2>3. CASE q # r /\ t # r
    <3>1. req'[q] = req[q] /\ req'[t] = req[t]
      BY <2>3 DEF Moved
    <3> QED BY <3>1 DEF Submissions, NoSecond, Opening, Opened, At
  <2> QED BY <2>1, <2>2, <2>3
<1> QED BY <1>1, <1>2, <1>3 DEF Submissions

\* Every step of a request keeps it.
LEMMA SubmissionsStep ==
    ASSUME TypeInv, Ledger, Submissions, NEW r \in Requests, Step(r) \/ Crash(r)
    PROVE  Submissions'
<1>0. TypeOK /\ Presents
  BY DEF TypeInv
<1>1. CASE \/ LoginCommit(r) \/ OAuthCommit(r) \/ CommitFailure(r) \/ ResolveCommit(r)
           \/ LogoutCommit(r) \/ DisableFlush(r) \/ Crash(r)
  <2>1. Aside(r)
    BY <1>0, <1>1, AsideSteps
  <2>2. \E p : /\ Moved(r, p) /\ p \notin {"recovering", "failing", "matched"}
               /\ p = "done" => req[r].kind # "totp"
    BY <2>1 DEF Aside
  <2> QED BY <2>1, <2>2, SubmissionsAside DEF Aside
<1>2. CASE Verify(r)
  <2>1. /\ At(r, "consuming", {"totp"}) /\ ChallengeFree(r) /\ req[r].pc \notin Ends
        /\ UNCHANGED <<spent, backed>>
    BY <1>0, <1>2, VerifyMoves DEF At, Ends
  <2>2. CASE Matches(cred, req[r].code) /\ Moved(r, "matched")
    BY <1>0, <2>1, <2>2, SpentNoMatch, SubmissionsMatch
  <2>3. CASE Moved(r, "failed")
    BY <2>1, <2>3, SubmissionsAside
  <2>4. ASSUME NEW p \in {"recovering", "failing"}, Moved(r, p) PROVE Submissions'
    <3>1. OneHolder'
      BY <2>1, <2>4 DEF Submissions, OneHolder, HoldsChallenge, ChallengeFree, Moved
    <3>2. LateRefused'
      BY <2>1, <2>4 DEF Submissions, LateRefused, Opened, At, Moved
    <3>3. NoSecond'
      BY <2>1, <2>4 DEF Submissions, NoSecond, Opening, Opened, At, Moved
    <3> QED BY <3>1, <3>2, <3>3 DEF Submissions
  <2> QED BY <1>0, <1>2, <2>2, <2>3, <2>4, VerifyMoves
<1>3. CASE RecoveryRead(r)
  <2>1. /\ At(r, "recovering", {"totp"}) /\ HoldsChallenge(r) /\ req[r].pc \notin Ends
        /\ UNCHANGED <<spent, backed>>
    BY <1>0, <1>3, RecoveryReadMoves DEF At, Ends, HoldsChallenge
  <2>2. CASE req[r].code.step = 0 /\ recovery[req[r].code.of] = "unused" /\ Moved(r, "matched")
    <3>1. req[r].code \notin spent
      BY <2>2 DEF Ledger, Booked
    <3> QED BY <2>1, <2>2, <3>1, SubmissionsMatch
  <2>3. CASE Moved(r, "failing")
    BY <2>1, <2>3, SubmissionsAside
  <2> QED BY <1>0, <1>3, <2>2, <2>3, RecoveryReadMoves
<1>4. CASE CommitSession(r)
  <2>1. At(r, "matched", {"totp"}) /\ req[r].pc \notin Ends
    BY <1>4, CommitSessionMoves DEF At, Ends
  <2>2. CASE Moved(r, "failed") /\ UNCHANGED <<cred, recovery, spent, backed>>
    BY <2>1, <2>2, SubmissionsAside
  <2>3. CASE Moved(r, "done") /\ spent' = spent \cup {req[r].code} /\ (backed => backed')
    BY <2>1, <2>3, SubmissionsOpen
  <2> QED BY <1>4, <2>2, <2>3, CommitSessionMoves
<1>5. CASE SetupLoad(r) \/ ActivateLoad(r) \/ DisableLoad(r)
  <2>1. req[r].pc \notin Ends
    BY <1>5 DEF SetupLoad, ActivateLoad, DisableLoad, At, Ends
  <2>2. UNCHANGED <<spent, backed>> /\ (Moved(r, "loaded") \/ Moved(r, "failed"))
    BY <1>0, <1>5, SetupLoadMoves, ActivateLoadMoves, DisableLoadMoves
  <2> QED BY <2>1, <2>2, SubmissionsAside
<1>6. CASE SetupCommit(r) \/ ActivateCommit(r) \/ DisableCommit(r)
  <2>1. Moved(r, "done") /\ req[r].pc \notin Ends /\ req[r].kind # "totp"
    BY <1>0, <1>6, CommitMoves DEF SetupCommit, ActivateCommit, DisableCommit, At, Ends
  <2>2. spent \subseteq spent'
    BY <1>6 DEF SetupCommit, ActivateCommit, DisableCommit
  <2>3. backed => backed'
    <3>1. CASE SetupCommit(r)
      BY <3>1 DEF SetupCommit
    <3>2. CASE ActivateCommit(r)
      BY <3>2, Zenon DEF ActivateCommit
    <3>3. CASE DisableCommit(r)
      BY <3>3, Zenon DEF DisableCommit
    <3> QED BY <1>6, <3>1, <3>2, <3>3
  <2> QED BY <2>1, <2>2, <2>3, SubmissionsAside
<1> QED BY <1>1, <1>2, <1>3, <1>4, <1>5, <1>6 DEF Step

\* So do arrivals and the environment.
LEMMA SubmissionsNext == TypeInv /\ Ledger /\ Submissions /\ [Next]_vars => Submissions'
<1> SUFFICES ASSUME TypeInv, Ledger, Submissions, [Next]_vars PROVE Submissions'
  OBVIOUS
<1>1. ASSUME NEW r \in Requests, NEW ask \in Asks[r], Start(r, ask) PROVE Submissions'
  <2>1. Started(r)
    BY <1>1, StartMoves DEF TypeInv
  <2>2. OneHolder'
    BY <2>1 DEF Started, Submissions, OneHolder, HoldsChallenge
  <2>3. LateRefused'
    BY <2>1 DEF Started, Submissions, LateRefused, Opened, At
  <2>4. NoSecond'
    BY <2>1 DEF Started, Submissions, NoSecond, Opening, Opened, At
  <2> QED BY <2>2, <2>3, <2>4 DEF Submissions
<1>2. ASSUME NEW r \in Requests, Step(r) \/ Crash(r) PROVE Submissions'
  BY <1>2, SubmissionsStep
<1>3. CASE \/ \E s \in Aging : ExpireSession(s) \/ ExpireChallenge(s)
           \/ Tick \/ Purge \/ UNCHANGED vars
  BY <1>3, EnvironmentAside
     DEF Submissions, OneHolder, LateRefused, NoSecond, HoldsChallenge, Opening, Opened, At
<1> QED BY <1>1, <1>2, <1>3 DEF Next

\* The invariants hold together.
LEMMA SubmissionsHold == Spec => []Submissions
<1>1. Init => Submissions
  BY DEF Init, NewReq, Submissions, OneHolder, LateRefused, NoSecond, HoldsChallenge, Opening,
     Opened, At
<1> QED BY <1>1, TypeInit, CodesInit, LedgerInit, TypeNext, CodesNext, LedgerNext, SubmissionsNext, PTL
        DEF Spec

\* A code accepted before a request arrives opens no session for it, whatever runs
\* in between, unless two logins were committed in the other order of their steps.
THEOREM SpentCodesAreRefused == Spec => []SpentCodeRefused
<1>1. Submissions => SpentCodeRefused
  BY DEF Submissions, LateRefused, SpentCodeRefused
<1> QED BY <1>1, SubmissionsHold, PTL

\* Requests that submit the same challenge and the same code open one session
\* between them, thanks to the lock the challenge's UPDATE takes.
THEOREM DoubleSubmissionsOpenOne == Spec => []DoubleSubmitOpensOne
<1>1. Submissions => DoubleSubmitOpensOne
  BY DEF Submissions, NoSecond, Opening, DoubleSubmitOpensOne
<1> QED BY <1>1, SubmissionsHold, PTL

----------------------------------------------------------------------------
(* Why requests finish: the row locks are ordered, nobody turns round      *)

\* How far a request has come.
Rank(place) ==
    CASE place = "new" -> 0
      [] place \in {"resolving", "consuming"} -> 1
      [] place \in {"ready", "recovering"} -> 2
      [] place \in {"loaded", "matched", "failing"} -> 3
      [] place = "flushed" -> 4
      [] place \in Ends -> 5

\* Every step of a request brings it nearer to its end, and none sets another back.
StepsAdvance ==
    [][\A r \in Requests : req'[r] # req[r] => Rank(req'[r].pc) > Rank(req[r].pc)]_vars

\* The credentials row is locked by one disabling at a time.
OneDisabling ==
    \A q, r \in Requests : At(q, "flushed", {"disable"}) /\ At(r, "flushed", {"disable"}) => q = r

\* Who holds the credentials waits for nothing; who holds a challenge may wait for
\* the credentials only, never for a challenge.
LocksOrdered ==
    \A r \in Requests :
        /\ At(r, "flushed", {"disable"}) => CredFree(r) /\ ~HoldsChallenge(r)
        /\ HoldsChallenge(r) => ChallengeFree(r)

\* The ranks, place by place.
LEMMA Ranks ==
    /\ Rank("new") = 0 /\ Rank("resolving") = 1 /\ Rank("consuming") = 1 /\ Rank("ready") = 2
    /\ Rank("recovering") = 2 /\ Rank("loaded") = 3 /\ Rank("matched") = 3 /\ Rank("failing") = 3
    /\ Rank("flushed") = 4 /\ Rank("done") = 5 /\ Rank("failed") = 5
  BY DEF Rank, Ends

\* r moves towards its end, and to the lock of the credentials only when it is free.
Advances(r) ==
    \E p : /\ Moved(r, p) /\ Rank(p) > Rank(req[r].pc)
           /\ p = "flushed" => CredFree(r)

\* So does every step of a request, and its death.
LEMMA StepAdvances ==
    ASSUME TypeInv, NEW r \in Requests, Step(r) \/ Crash(r)
    PROVE  Advances(r)
<1>0. TypeOK
  BY DEF TypeInv
<1>e. ASSUME NEW p \in Ends, Moved(r, p), req[r].pc \notin {"new"} \cup Ends PROVE Advances(r)
  <2>1. req[r].pc \in Places
    BY <1>0 DEF TypeOK, ReqRecord
  <2>2. Rank(req[r].pc) \in 0..4
    BY <1>e, <2>1, Ranks DEF Places, Ends
  <2>3. Rank(p) = 5 /\ p # "flushed"
    BY <1>e, Ranks DEF Ends
  <2>4. Rank(p) > Rank(req[r].pc)
    BY <2>2, <2>3
  <2> QED BY <1>e, <2>3, <2>4 DEF Advances
<1>p. "done" \in Ends /\ "failed" \in Ends /\ "ready" \in Places /\ "flushed" \in Places
      /\ "failed" \in Places
  BY DEF Places, Ends
<1>1. CASE \/ LoginCommit(r) \/ OAuthCommit(r) \/ CommitFailure(r) \/ LogoutCommit(r) \/ Crash(r)
  <2>1. /\ Moved(r, "done") \/ Moved(r, "failed")
        /\ req[r].pc \notin {"new"} \cup Ends
    <3>1. Aside(r) /\ "done" \in Places
      BY <1>0, <1>1, AsideSteps DEF Places, Ends
    <3>2. End(r, "done") \/ End(r, "failed")
      BY <1>1 DEF LoginCommit, OAuthCommit, CommitFailure, LogoutCommit, Crash
    <3> QED BY <1>0, <1>p, <3>1, <3>2, EndMoves DEF Aside
  <2> QED BY <1>e, <1>p, <2>1
<1>2. CASE ResolveCommit(r)
  <2>1. req[r].pc = "resolving" /\ (Moved(r, "ready") \/ Moved(r, "failed"))
    BY <1>0, <1>p, <1>2, GotoMoves DEF ResolveCommit, At
  <2> QED BY <2>1, Ranks DEF Advances
<1>3. CASE DisableFlush(r)
  <2>1. req[r].pc = "loaded" /\ Moved(r, "flushed") /\ CredFree(r)
    BY <1>0, <1>p, <1>3, GotoMoves DEF DisableFlush, At
  <2> QED BY <2>1, Ranks DEF Advances
<1>4. CASE Verify(r)
  <2>1. /\ req[r].pc = "consuming"
        /\ Moved(r, "matched") \/ Moved(r, "recovering") \/ Moved(r, "failing") \/ Moved(r, "failed")
    BY <1>0, <1>4, VerifyMoves DEF At
  <2> QED BY <2>1, Ranks DEF Advances
<1>5. CASE RecoveryRead(r)
  <2>1. req[r].pc = "recovering" /\ (Moved(r, "matched") \/ Moved(r, "failing"))
    BY <1>0, <1>5, RecoveryReadMoves DEF At
  <2> QED BY <2>1, Ranks DEF Advances
<1>6. CASE CommitSession(r)
  <2>1. req[r].pc = "matched" /\ (Moved(r, "done") \/ Moved(r, "failed"))
    BY <1>6, CommitSessionMoves DEF At
  <2> QED BY <2>1, Ranks DEF Advances
<1>7. CASE SetupLoad(r) \/ ActivateLoad(r) \/ DisableLoad(r)
  <2>1. req[r].pc = "ready" /\ (Moved(r, "loaded") \/ Moved(r, "failed"))
    BY <1>0, <1>7, SetupLoadMoves, ActivateLoadMoves, DisableLoadMoves DEF At
  <2> QED BY <2>1, Ranks DEF Advances
<1>8. CASE SetupCommit(r) \/ ActivateCommit(r) \/ DisableCommit(r)
  <2>1. req[r].pc \in {"loaded", "flushed"} /\ Moved(r, "done")
    BY <1>0, <1>8, CommitMoves DEF SetupCommit, ActivateCommit, DisableCommit, At
  <2> QED BY <2>1, Ranks DEF Advances
<1> QED BY <1>1, <1>2, <1>3, <1>4, <1>5, <1>6, <1>7, <1>8 DEF Step

\* What moves the requests: one arrives, advances, or none moves.
LEMMA RequestsMove ==
    ASSUME TypeInv, [Next]_vars
    PROVE  req' = req \/ \E r \in Requests : Started(r) \/ Advances(r)
<1>1. ASSUME NEW r \in Requests, NEW ask \in Asks[r], Start(r, ask) PROVE Started(r)
  BY <1>1, StartMoves DEF TypeInv
<1>2. ASSUME NEW r \in Requests, Step(r) \/ Crash(r) PROVE Advances(r)
  BY <1>2, StepAdvances
<1>3. CASE \/ \E s \in Aging : ExpireSession(s) \/ ExpireChallenge(s)
           \/ Tick \/ Purge \/ UNCHANGED vars
  BY <1>3, EnvironmentAside
<1> QED BY <1>1, <1>2, <1>3 DEF Next

\* No second request gets hold of the credentials.
LEMMA OneDisablingNext == TypeInv /\ OneDisabling /\ [Next]_vars => OneDisabling'
<1> SUFFICES ASSUME TypeInv, OneDisabling, [Next]_vars PROVE OneDisabling'
  OBVIOUS
<1>1. CASE req' = req
  BY <1>1 DEF OneDisabling, At
<1>2. ASSUME NEW r \in Requests, Started(r) PROVE OneDisabling'
  BY <1>2 DEF Started, OneDisabling, At
<1>3. ASSUME NEW r \in Requests, Advances(r) PROVE OneDisabling'
  <2>1. PICK p : Moved(r, p) /\ (p = "flushed" => CredFree(r))
    BY <1>3 DEF Advances
  <2> QED BY <2>1 DEF Moved, OneDisabling, CredFree, At
<1> QED BY <1>1, <1>2, <1>3, RequestsMove

\* For any number of requests there is no circular wait on the rows of challenges
\* and credentials: the second step takes them in that order, and a disabling takes
\* the credentials alone.
THEOREM NoCircularWait == Spec => []LocksOrdered
<1>1. Init => OneDisabling
  BY DEF Init, NewReq, OneDisabling, At
<1>2. OneDisabling /\ Submissions => LocksOrdered
  BY DEF OneDisabling, Submissions, OneHolder, LocksOrdered, CredFree, ChallengeFree,
         HoldsChallenge, At
<1> QED BY <1>1, <1>2, OneDisablingNext, TypeInit, TypeNext, SubmissionsHold, PTL DEF Spec

\* For any number of requests, each takes at most five steps: whatever moves it moves
\* it towards its end.
THEOREM RequestsAdvance == Spec => StepsAdvance
<1>1. ASSUME TypeInv, [Next]_vars, NEW q \in Requests, req'[q] # req[q]
      PROVE  Rank(req'[q].pc) > Rank(req[q].pc)
  <2>1. PICK r \in Requests : Started(r) \/ Advances(r)
    BY <1>1, RequestsMove
  <2>2. CASE Started(r)
    BY <1>1, <2>2, Ranks DEF Started
  <2>3. CASE Advances(r)
    BY <1>1, <2>3 DEF Advances, Moved
  <2> QED BY <2>1, <2>2, <2>3
<1>2. TypeInv /\ [Next]_vars =>
        \A r \in Requests : req'[r] # req[r] => Rank(req'[r].pc) > Rank(req[r].pc)
  BY <1>1
<1> QED BY <1>2, TypeInit, TypeNext, PTL DEF Spec, StepsAdvance

=============================================================================
