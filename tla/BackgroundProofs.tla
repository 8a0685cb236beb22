--------------------------- MODULE BackgroundProofs ---------------------------
(***************************************************************************)
(* Theorems of Sessions.tla, Presence.tla, SecurityMetrics.tla and         *)
(* Ranking.tla, for any sessions, requests, collectors, processes,          *)
(* accounts, durations and retentions.                                      *)
(***************************************************************************)
EXTENDS Sessions, Presence, SecurityMetrics, Ranking, FiniteSetTheorems, WellFoundedInduction, TLAPS

-----------------------------------------------------------------------------
(* Induction, from the least element of a set.                             *)

\* Every set of natural numbers that is not empty has a least element.
LEMMA LeastNatural ==
  ASSUME NEW T \in SUBSET Nat, T # {}
  PROVE  \E n \in T : \A m \in T : n <= m
<1>1. PICK n \in T : \A m \in T : ~(<<m, n>> \in OpToRel(<, Nat))
  BY NatLessThanWellFounded, WFMin, Zenon
<1>2. \A m \in T : ~(m < n)
  BY <1>1 DEF OpToRel
<1> QED BY <1>2

\* Every set of subsets of a finite set, not empty, has one that is minimal.
LEMMA MinimalSubset ==
  ASSUME NEW S, IsFiniteSet(S), NEW F \in SUBSET (SUBSET S), F # {}
  PROVE  \E T \in F : \A U \in F : U \subseteq T => U = T
<1>1. IsWellFoundedOn(StrictSubsetOrdering(S), SUBSET S)
  BY FS_StrictSubsetOrderingWellFounded, FS_FiniteSubsetsOfFinite
<1>2. PICK T \in F : \A U \in F : ~(<<U, T>> \in StrictSubsetOrdering(S))
  BY <1>1, WFMin
<1> QED BY <1>2 DEF StrictSubsetOrdering

-----------------------------------------------------------------------------
(* Sessions.                                                               *)

\* What a request counts on: its time has passed, the participant exists, and
\* while an administrator's holds the row, the temporary password that it has
\* seen is the one there is.
RequestHolds(r) ==
  /\ local[r].at <= sessionNow
  /\ sessionPc[r] # "idle" => user # Absent
  /\ sessionPc[r] \in {"resetPassword", "updateStatus"} => lock = r
  /\ sessionPc[r] = "resetPassword" /\ PendingReset(local[r].at) => local[r].replace

SessionInv ==
  /\ SessionTypeOK
  /\ InactiveHaveNoSession
  /\ user = Absent => \A s \in Ids : session[s] = Absent
  /\ \A r \in Requests : RequestHolds(r)

\* What any step may do to the rows there are: end them, see or delete them.
OnlyAge ==
  \A s \in SessionRows :
    /\ Live(s, sessionNow)' => Live(s, sessionNow)
    /\ session[s].endedAt # Nobody => session'[s] \in {session[s], Deleted}

\* A step takes nothing from the requests other than r.
OthersWait(r) ==
  \A q \in Requests \ {r} : sessionPc'[q] = sessionPc[q] /\ local'[q] = local[q]

\* A row is a session, and a session is no marker.
LEMMA SessionRowType ==
  ASSUME SessionTypeOK, NEW s \in Ids
  PROVE  /\ s \in SessionRows <=> session[s] \in Session
         /\ s \notin SessionRows <=> session[s] \in {Absent, Deleted}
BY NullsAssumption DEF SessionTypeOK, SessionRows

\* A participant that exists has a row of the declared fields.
LEMMA UserType ==
  ASSUME SessionTypeOK, user # Absent
  PROVE  /\ user \in User
         /\ user.isActive \in BOOLEAN /\ user.passwordHash \in Hashes
         /\ user.passwordResetRequired \in BOOLEAN
         /\ user.passwordResetRequired => user.passwordResetExpiresAt \in 0..(MaxSessionTime + Validity)
BY DEF SessionTypeOK, User

\* Ending sessions, of any set and as of any time that has passed, ends rows
\* that were live and touches no other; as of a time, all that would be live now.
LEMMA RevokedRows ==
  ASSUME SessionTypeOK, NEW S \in SUBSET Ids, NEW t \in SessionTime, t <= sessionNow,
         session' = Revoked(S, t), sessionNow' = sessionNow
  PROVE  /\ session' \in [Ids -> Session \union {Absent, Deleted}]
         /\ OnlyAge
         /\ \A s \in Ids : Live(s, sessionNow)' => s \in SessionRows
         /\ S = Ids => \A s \in Ids : ~Live(s, sessionNow)'
<1> DEFINE ended(s) == [session[s] EXCEPT !.endedAt = t]
<1>0. sessionNow \in 0..MaxSessionTime /\ t \in 0..MaxSessionTime /\ MaxSessionTime \in Nat /\ Life \in Nat
  BY TimesAssumption DEF SessionTypeOK, SessionTime
<1>1. ASSUME NEW s \in Ids
      PROVE  \/ s \in S /\ Live(s, t) /\ session'[s] = ended(s)
             \/ ~(s \in S /\ Live(s, t)) /\ session'[s] = session[s]
  BY DEF Revoked
<1>2. ASSUME NEW s \in Ids, session[s] \in Session
      PROVE  /\ ended(s) \in Session /\ ended(s).endedAt = t /\ ended(s).endedAt # Nobody
             /\ session[s].expiresAt \in Int
  BY <1>0, <1>2, NullsAssumption DEF Session, SessionTime
<1>3. session' \in [Ids -> Session \union {Absent, Deleted}]
  <2>1. ASSUME NEW s \in Ids PROVE session'[s] \in Session \union {Absent, Deleted}
    BY <1>1, <1>2, SessionRowType DEF Live, Open, SessionTypeOK
  <2> QED BY <2>1 DEF Revoked
<1>4. ASSUME NEW s \in Ids, Live(s, sessionNow)'
      PROVE  s \in SessionRows /\ Live(s, sessionNow) /\ ~(s \in S /\ Live(s, t))
  <2>1. session'[s] = session[s] /\ ~(s \in S /\ Live(s, t))
    <3>1. CASE s \in S /\ Live(s, t) /\ session'[s] = ended(s)
      BY <3>1, <1>2, <1>4, SessionRowType DEF Live, Open
    <3> QED BY <3>1, <1>1
  <2> QED BY <2>1, <1>4 DEF Live, Open, SessionRows
<1>5. OnlyAge
  <2> SUFFICES ASSUME NEW s \in SessionRows
               PROVE  /\ Live(s, sessionNow)' => Live(s, sessionNow)
                      /\ session[s].endedAt # Nobody => session'[s] \in {session[s], Deleted}
    BY DEF OnlyAge
  <2>1. s \in Ids BY DEF SessionRows
  <2> QED BY <2>1, <1>1, <1>4 DEF Live, Open
<1>6. ASSUME S = Ids, NEW s \in Ids, Live(s, sessionNow)' PROVE FALSE
  <2>1. s \in SessionRows /\ Live(s, sessionNow) /\ ~Live(s, t)
    BY <1>4, <1>6
  <2>2. session[s].expiresAt \in Int BY <2>1, <1>2, SessionRowType
  <2> QED BY <2>1, <2>2, <1>0 DEF Live
<1> QED BY <1>3, <1>4, <1>5, <1>6

\* A session that begins takes a row that no session has had.
LEMMA StartedRows ==
  ASSUME SessionTypeOK, NEW s \in Ids, session[s] = Absent,
         NEW t \in SessionTime, NEW hash \in Hashes, sessionNow' = sessionNow,
         session' = [session EXCEPT ![s] = NewSession(t, hash)]
  PROVE  /\ session' \in [Ids -> Session \union {Absent, Deleted}]
         /\ OnlyAge
<1>1. NewSession(t, hash) \in Session
  BY TimesAssumption DEF NewSession, Session, SessionTime
<1>2. session' \in [Ids -> Session \union {Absent, Deleted}]
  BY <1>1 DEF SessionTypeOK
<1>3. ASSUME NEW q \in SessionRows PROVE session'[q] = session[q]
  BY DEF SessionRows, SessionTypeOK
<1>4. OnlyAge
  BY <1>3 DEF OnlyAge, Live, Open, SessionRows
<1> QED BY <1>2, <1>4

\* The rows stay as they are while time may pass.
LEMMA KeptRows ==
  ASSUME SessionTypeOK, session' = session, sessionNow' \in Int, sessionNow' >= sessionNow
  PROVE  OnlyAge
<1> SUFFICES ASSUME NEW s \in SessionRows, Live(s, sessionNow)' PROVE Live(s, sessionNow)
  BY DEF OnlyAge
<1>1. s \in Ids /\ session[s] \in Session
  BY SessionRowType DEF SessionRows
<1>2. session[s].expiresAt \in Int /\ sessionNow \in Int
  BY <1>1, TimesAssumption DEF Session, SessionTypeOK, SessionTime
<1> QED BY <1>2 DEF Live, Open, SessionRows

\* What a request counts on is undisturbed by a step that keeps its row locked.
LEMMA RequestUndisturbed ==
  ASSUME SessionInv, NEW q \in Requests,
         sessionPc'[q] = sessionPc[q], local'[q] = local[q],
         sessionNow' \in Int, sessionNow' >= sessionNow,
         user # Absent => user' # Absent,
         lock = q => lock' = q /\ user' = user
  PROVE  RequestHolds(q)'
<1>1. RequestHolds(q) /\ local[q].at \in Int /\ sessionNow \in Int
  BY DEF SessionInv, SessionTypeOK, Local, SessionTime
<1>2. local'[q].at <= sessionNow'
  BY <1>1 DEF RequestHolds
<1>3. sessionPc'[q] # "idle" => user' # Absent
  BY <1>1 DEF RequestHolds
<1>4. sessionPc'[q] \in {"resetPassword", "updateStatus"} => lock' = q
  BY <1>1 DEF RequestHolds
<1>5. sessionPc'[q] = "resetPassword" /\ PendingReset(local[q].at)' => local'[q].replace
  BY <1>1 DEF RequestHolds, PendingReset
<1> QED BY <1>2, <1>3, <1>4, <1>5 DEF RequestHolds

\* A request that has ended counts on nothing but the clock.
LEMMA EndedHolds ==
  ASSUME SessionTypeOK, NEW r \in Requests, Finish(r), sessionNow' = sessionNow
  PROVE  /\ RequestHolds(r)'
         /\ sessionPc' \in [Requests -> {"idle", "startSession", "findPasswordReset",
                              "completeChange", "endSession", "resetPassword", "updateStatus"}]
         /\ local' \in [Requests -> Local]
         /\ OthersWait(r)
<1>1. BlankSession \in Local /\ BlankSession.at = 0
  BY TimesAssumption DEF BlankSession, Local, SessionTime, Hashes
<1>2. sessionPc'[r] = "idle" /\ local'[r] = BlankSession /\ 0 <= sessionNow
  BY DEF Finish, Goto, SessionTypeOK, SessionTime
<1>3. RequestHolds(r)'
  BY <1>1, <1>2 DEF RequestHolds
<1> QED BY <1>1, <1>3 DEF Finish, Goto, SessionTypeOK, OthersWait

\* How a step may change who is admitted: not at all, with no session left that
\* an old one could be, or with the first session there is.
Access ==
  \/ user' = user /\ \A s \in Ids : Live(s, sessionNow)' => s \in SessionRows \/ user.isActive
  \/ \A s \in Ids : ~Live(s, sessionNow)'
  \/ SessionRows = {} /\ user'.isActive

RefusedStay ==
  \A s \in SessionRows :
    /\ ~Valid(s, sessionNow) => ~Valid(s, sessionNow)'
    /\ session[s].endedAt # Nobody => session'[s] \in {session[s], Deleted}

\* A participant there is has sessions of its own; before that there are none.
AbsentHasNone == user = Absent => \A s \in Ids : session[s] = Absent

\* A step that keeps the types, ages the rows and changes who is admitted in one
\* of those ways leaves nobody inactive with a session, nor an old session valid.
LEMMA StepEnough ==
  ASSUME SessionInv, SessionTypeOK', OnlyAge, Access, sessionNow' >= sessionNow, AbsentHasNone',
         \A r \in Requests : RequestHolds(r)'
  PROVE  SessionInv' /\ RefusedStay
<1>0. sessionNow \in Int /\ sessionNow' \in Int
  BY DEF SessionInv, SessionTypeOK, SessionTime
<1>1. InactiveHaveNoSession'
  <2> SUFFICES ASSUME user' # Absent, ~user'.isActive, NEW s \in Ids, Live(s, sessionNow)'
               PROVE  FALSE
    BY DEF InactiveHaveNoSession
  <2>1. user' = user /\ s \in SessionRows
    BY DEF Access
  <2>2. Live(s, sessionNow)
    BY <2>1 DEF OnlyAge
  <2> QED BY <2>1, <2>2 DEF SessionInv, InactiveHaveNoSession
<1>2. RefusedStay
  <2> SUFFICES ASSUME NEW s \in SessionRows, Valid(s, sessionNow)' PROVE Valid(s, sessionNow)
    BY DEF RefusedStay, OnlyAge
  <2>1. s \in Ids /\ Live(s, sessionNow)' /\ Live(s, sessionNow)
    BY DEF SessionRows, OnlyAge, Valid
  <2>2. user' = user
    BY <2>1 DEF Access
  <2>3. user # Absent
    BY <2>1, SessionRowType, NullsAssumption DEF SessionInv, SessionRows
  <2>4. user.passwordResetRequired => user.passwordResetExpiresAt \in Int
    <3>1. user.passwordResetRequired => user.passwordResetExpiresAt \in 0..(MaxSessionTime + Validity)
      BY <2>3, UserType DEF SessionInv
    <3> QED BY <3>1, TimesAssumption
  <2> QED BY <2>1, <2>2, <2>4, <1>0 DEF Valid, HasValidPasswordReset
<1> QED BY <1>1, <1>2 DEF SessionInv, AbsentHasNone

\* A step of one request that leaves the row unlocked or to whom held it.
LEMMA OthersUndisturbed ==
  ASSUME SessionInv, NEW r \in Requests, OthersWait(r), sessionNow' = sessionNow,
         user # Absent => user' # Absent,
         lock \in {NoOne, r} \/ (lock' = lock /\ user' = user),
         RequestHolds(r)'
  PROVE  \A q \in Requests : RequestHolds(q)'
<1> SUFFICES ASSUME NEW q \in Requests, q # r PROVE RequestHolds(q)'
  OBVIOUS
<1>1. sessionPc'[q] = sessionPc[q] /\ local'[q] = local[q]
  BY DEF OthersWait
<1>2. lock = q => lock' = q /\ user' = user
  BY NullsAssumption
<1>3. sessionNow' \in Int /\ sessionNow' >= sessionNow
  BY DEF SessionInv, SessionTypeOK, SessionTime
<1> QED BY <1>1, <1>2, <1>3, RequestUndisturbed

\* A step that no request takes, on an unchanged participant.
LEMMA AllUndisturbed ==
  ASSUME SessionInv, UNCHANGED <<lock, sessionPc, local>>,
         sessionNow' \in Int, sessionNow' >= sessionNow,
         user # Absent => user' = user
  PROVE  \A q \in Requests : RequestHolds(q)'
<1> SUFFICES ASSUME NEW q \in Requests PROVE RequestHolds(q)'
  OBVIOUS
<1>1. CASE user # Absent
  BY <1>1, RequestUndisturbed
<1>2. CASE user = Absent
  <2>1. RequestHolds(q) /\ sessionPc[q] = "idle" /\ local[q].at \in Int /\ sessionNow \in Int
    BY <1>2 DEF SessionInv, RequestHolds, SessionTypeOK, Local, SessionTime
  <2> QED BY <2>1 DEF RequestHolds
<1> QED BY <1>1, <1>2

-----------------------------------------------------------------------------
(* The steps that no request takes.                                        *)

LEMMA SessionTickStep ==
  ASSUME SessionInv, SessionTick PROVE SessionInv' /\ RefusedStay
<1>1. SessionTypeOK'
  BY TimesAssumption DEF SessionInv, SessionTypeOK, SessionTick, SessionTime
<1>2. sessionNow' \in Int /\ sessionNow \in Int /\ sessionNow' >= sessionNow
  BY DEF SessionInv, SessionTypeOK, SessionTick, SessionTime
<1>3. OnlyAge
  BY <1>2, KeptRows DEF SessionTick, SessionInv
<1>4. Access
  BY DEF Access, Live, Open, SessionRows, SessionTick
<1>5. \A r \in Requests : RequestHolds(r)'
  BY <1>2, AllUndisturbed DEF SessionTick
<1> QED BY <1>1, <1>2, <1>3, <1>4, <1>5, StepEnough DEF SessionTick, AbsentHasNone, SessionInv

\* Whatever ages the rows of a participant there is, and nothing else.
LEMMA RowsStep ==
  ASSUME SessionInv, UNCHANGED <<sessionNow, user, lock, sessionPc, local>>,
         session' \in [Ids -> Session \union {Absent, Deleted}], OnlyAge,
         \A s \in Ids : s \notin SessionRows => session'[s] = session[s]
  PROVE  SessionInv' /\ RefusedStay
<1>1. SessionTypeOK'
  BY DEF SessionInv, SessionTypeOK
<1>2. sessionNow' \in Int /\ sessionNow' >= sessionNow
  BY DEF SessionInv, SessionTypeOK, SessionTime
<1>3. Access
  BY DEF Access, Live, Open, SessionRows
<1>4. AbsentHasNone'
  <2> SUFFICES ASSUME user = Absent, NEW s \in Ids PROVE session'[s] = Absent
    BY DEF AbsentHasNone
  <2>1. session[s] = Absent BY DEF SessionInv
  <2> QED BY <2>1 DEF SessionRows
<1>5. \A r \in Requests : RequestHolds(r)'
  BY <1>2, AllUndisturbed
<1> QED BY <1>1, <1>2, <1>3, <1>4, <1>5, StepEnough

LEMMA RegisterStep ==
  ASSUME SessionInv, NEW s \in Ids, Register(s) PROVE SessionInv' /\ RefusedStay
<1>1. PICK t \in Recent : session' = [session EXCEPT ![s] = NewSession(t, 0)]
  BY DEF Register
<1>2. 0 \in Hashes /\ t \in SessionTime /\ session[s] = Absent
  BY TimesAssumption DEF Hashes, Recent, SessionInv, Register
<1>3. session' \in [Ids -> Session \union {Absent, Deleted}] /\ OnlyAge
  BY <1>1, <1>2, StartedRows DEF SessionInv, Register
<1>4. user' \in User /\ user'.isActive
  BY <1>2, NullsAssumption DEF Register, User
<1>5. user' # Absent
  BY <1>4, NullsAssumption
<1>6. SessionTypeOK'
  BY <1>3, <1>4 DEF SessionInv, SessionTypeOK, Register
<1>7. sessionNow' \in Int /\ sessionNow' >= sessionNow
  BY DEF SessionInv, SessionTypeOK, SessionTime, Register
<1>8. SessionRows = {}
  BY DEF SessionRows, SessionInv, Register
<1>9. \A r \in Requests : RequestHolds(r)'
  BY <1>7, AllUndisturbed DEF Register
<1> QED BY <1>3, <1>4, <1>5, <1>6, <1>7, <1>8, <1>9, StepEnough DEF Access, AbsentHasNone

LEMMA HeartbeatStep ==
  ASSUME SessionInv, NEW s \in Ids, Heartbeat(s) PROVE SessionInv' /\ RefusedStay
<1>1. PICK t \in Recent : Seen(s, t) /\ session' = [session EXCEPT ![s].lastSeenAt = t]
  BY DEF Heartbeat
<1>2. session[s] \in Session /\ t \in SessionTime /\ session[s].endedAt = Nobody
  BY <1>1, SessionRowType DEF Seen, Live, Open, Recent, SessionInv
<1>3. session' = [session EXCEPT ![s] = [session[s] EXCEPT !.lastSeenAt = t]]
  BY <1>1
<1>4. [session[s] EXCEPT !.lastSeenAt = t] \in Session
  BY <1>2 DEF Session
<1>5. session' \in [Ids -> Session \union {Absent, Deleted}]
  BY <1>3, <1>4 DEF SessionInv, SessionTypeOK
<1>6. \A q \in Ids : q # s => session'[q] = session[q]
  BY <1>3 DEF SessionInv, SessionTypeOK
<1>7. session'[s].endedAt = session[s].endedAt /\ session'[s].expiresAt = session[s].expiresAt
  BY <1>2, <1>3 DEF SessionInv, SessionTypeOK, Session
<1>8. s \in SessionRows /\ sessionNow' = sessionNow
  BY <1>1 DEF Seen, Live, Open, Heartbeat
<1>9. OnlyAge
  BY <1>2, <1>6, <1>7, <1>8 DEF OnlyAge, Live, Open, SessionRows
<1> QED BY <1>5, <1>6, <1>8, <1>9, RowsStep DEF Heartbeat

LEMMA LogoutStep ==
  ASSUME SessionInv, NEW s \in Ids, Logout(s) PROVE SessionInv' /\ RefusedStay
<1>1. PICK t \in Recent : session' = Revoked({s}, t)
  BY DEF Logout
<1>2. t \in SessionTime /\ t <= sessionNow /\ sessionNow' = sessionNow /\ SessionTypeOK
  BY DEF Recent, Logout, SessionInv
<1>3. session' \in [Ids -> Session \union {Absent, Deleted}] /\ OnlyAge
  BY <1>1, <1>2, RevokedRows
<1>4. \A q \in Ids : q \notin SessionRows => session'[q] = session[q]
  BY <1>1 DEF Revoked, Live, Open
<1> QED BY <1>3, <1>4, RowsStep DEF Logout

LEMMA ExpireStep ==
  ASSUME SessionInv, ExpireSessions PROVE SessionInv' /\ RefusedStay
<1> DEFINE ended(s) == [session[s] EXCEPT !.endedAt = session[s].expiresAt]
<1>1. PICK t \in Recent :
        session' = [s \in Ids |-> IF Open(s) /\ session[s].expiresAt <= t THEN ended(s)
                                  ELSE session[s]]
  BY DEF ExpireSessions
<1>2. ASSUME NEW s \in SessionRows
      PROVE  /\ s \in Ids /\ ended(s) \in Session /\ ended(s).endedAt # Nobody
  BY NullsAssumption, TimesAssumption, SessionRowType DEF SessionRows, Session, SessionInv
<1>3. session' \in [Ids -> Session \union {Absent, Deleted}]
  <2>1. ASSUME NEW s \in Ids PROVE session'[s] \in Session \union {Absent, Deleted}
    BY <1>1, <1>2 DEF Open, SessionInv, SessionTypeOK
  <2> QED BY <1>1, <2>1
<1>4. sessionNow' = sessionNow BY DEF ExpireSessions
<1>5. OnlyAge
  BY <1>1, <1>2, <1>4 DEF OnlyAge, Live, Open, SessionRows
<1>6. \A q \in Ids : q \notin SessionRows => session'[q] = session[q]
  BY <1>1 DEF Open
<1> QED BY <1>3, <1>5, <1>6, RowsStep DEF ExpireSessions

LEMMA DeleteRetainedStep ==
  ASSUME SessionInv, DeleteRetainedSessions PROVE SessionInv' /\ RefusedStay
<1>1. \A s \in Ids : session'[s] = session[s] \/ (s \in SessionRows /\ session'[s] = Deleted)
  BY DEF DeleteRetainedSessions
<1>2. session' \in [Ids -> Session \union {Absent, Deleted}]
  BY <1>1 DEF DeleteRetainedSessions, SessionInv, SessionTypeOK
<1>3. sessionNow' = sessionNow BY DEF DeleteRetainedSessions
<1>4. OnlyAge
  BY <1>1, <1>3 DEF OnlyAge, Live, Open, SessionRows
<1>5. \A q \in Ids : q \notin SessionRows => session'[q] = session[q]
  BY <1>1
<1> QED BY <1>2, <1>4, <1>5, RowsStep DEF DeleteRetainedSessions

-----------------------------------------------------------------------------
(* The steps of requests.                                                  *)

\* Steps that read, and leave the row and the sessions as they are.
LEMMA ReadingStep ==
  ASSUME SessionInv, NEW r \in Requests, UNCHANGED <<sessionNow, user, session>>,
         OthersWait(r), RequestHolds(r)',
         lock' \in Requests \union {NoOne}, lock = lock' \/ lock = NoOne \/ lock = r,
         sessionPc' \in [Requests -> {"idle", "startSession", "findPasswordReset",
                           "completeChange", "endSession", "resetPassword", "updateStatus"}],
         local' \in [Requests -> Local]
  PROVE  SessionInv' /\ RefusedStay
<1>1. SessionTypeOK' BY DEF SessionInv, SessionTypeOK
<1>2. sessionNow' \in Int /\ sessionNow' >= sessionNow
  BY DEF SessionInv, SessionTypeOK, SessionTime
<1>3. OnlyAge BY <1>2, KeptRows DEF SessionInv
<1>4. Access BY DEF Access, Live, Open, SessionRows
<1>5. \A q \in Requests : RequestHolds(q)' BY OthersUndisturbed
<1> QED BY <1>1, <1>2, <1>3, <1>4, <1>5, StepEnough DEF AbsentHasNone, SessionInv

\* The next step of a request and what it has read, of the declared types.
LEMMA RequestGoes ==
  ASSUME SessionTypeOK, NEW r \in Requests,
         NEW step \in {"idle", "startSession", "findPasswordReset", "completeChange",
                       "endSession", "resetPassword", "updateStatus"},
         NEW l \in Local, Goto(r, step), local' = [local EXCEPT ![r] = l]
  PROVE  /\ sessionPc' \in [Requests -> {"idle", "startSession", "findPasswordReset",
                              "completeChange", "endSession", "resetPassword", "updateStatus"}]
         /\ local' \in [Requests -> Local]
         /\ sessionPc'[r] = step /\ local'[r] = l
         /\ OthersWait(r)
BY DEF SessionTypeOK, Goto, OthersWait

LEMMA VerifyLoginStep ==
  ASSUME SessionInv, NEW r \in Requests, VerifyLogin(r) PROVE SessionInv' /\ RefusedStay
<1> DEFINE l == [BlankSession EXCEPT !.hash = user.passwordHash, !.at = sessionNow]
<1>1. l \in Local /\ l.at = sessionNow
  BY UserType DEF VerifyLogin, BlankSession, Local, SessionInv, SessionTypeOK
<1>2. local' = [local EXCEPT ![r] = l] /\ Goto(r, "startSession") /\ lock' = lock
      /\ UNCHANGED <<sessionNow, user, session>> /\ user # Absent /\ SessionTypeOK
  BY DEF VerifyLogin, SessionInv
<1> HIDE DEF l
<1>3. /\ sessionPc' \in [Requests -> {"idle", "startSession", "findPasswordReset",
                           "completeChange", "endSession", "resetPassword", "updateStatus"}]
      /\ local' \in [Requests -> Local]
      /\ sessionPc'[r] = "startSession" /\ local'[r] = l
      /\ OthersWait(r)
  BY <1>1, <1>2, RequestGoes
<1>4. RequestHolds(r)'
  BY <1>1, <1>2, <1>3 DEF RequestHolds, SessionTypeOK, SessionTime
<1> QED BY <1>2, <1>3, <1>4, ReadingStep DEF SessionTypeOK

LEMMA BeginChangeStep ==
  ASSUME SessionInv, NEW r \in Requests, NEW s \in Ids, BeginChange(r, s)
  PROVE  SessionInv' /\ RefusedStay
<1> DEFINE l == [BlankSession EXCEPT !.jti = s, !.at = sessionNow]
<1>0. BlankSession \in Local /\ sessionNow \in SessionTime
  BY TimesAssumption DEF BlankSession, Local, SessionInv, SessionTypeOK, Hashes, SessionTime
<1>1. l \in Local /\ l.at = sessionNow
  BY <1>0 DEF Local
<1>2. local' = [local EXCEPT ![r] = l] /\ Goto(r, "findPasswordReset") /\ lock' = lock
      /\ UNCHANGED <<sessionNow, user, session>> /\ user # Absent /\ SessionTypeOK
  BY DEF BeginChange, SessionInv
<1> HIDE DEF l
<1>3. /\ sessionPc' \in [Requests -> {"idle", "startSession", "findPasswordReset",
                           "completeChange", "endSession", "resetPassword", "updateStatus"}]
      /\ local' \in [Requests -> Local]
      /\ sessionPc'[r] = "findPasswordReset" /\ local'[r] = l
      /\ OthersWait(r)
  BY <1>1, <1>2, RequestGoes
<1>4. RequestHolds(r)'
  BY <1>1, <1>2, <1>3 DEF RequestHolds, SessionTypeOK, SessionTime
<1> QED BY <1>2, <1>3, <1>4, ReadingStep DEF SessionTypeOK

LEMMA FindPasswordResetStep ==
  ASSUME SessionInv, NEW r \in Requests, FindPasswordReset(r) PROVE SessionInv' /\ RefusedStay
<1>0. /\ UNCHANGED <<sessionNow, user, session, lock>> /\ user # Absent /\ SessionTypeOK
      /\ lock \in Requests \union {NoOne} /\ sessionNow \in SessionTime
      /\ local[r] \in Local /\ local[r].at <= sessionNow
  BY DEF FindPasswordReset, SessionInv, RequestHolds, SessionTypeOK
<1>1. CASE Finish(r)
  BY <1>0, <1>1, EndedHolds, ReadingStep
<1>2. ASSUME NEW checkedAt \in local[r].at..sessionNow,
             local' = [local EXCEPT ![r].hash = user.passwordHash, ![r].at = sessionNow],
             Goto(r, "completeChange")
      PROVE  SessionInv' /\ RefusedStay
  <2> DEFINE l == [local[r] EXCEPT !.hash = user.passwordHash, !.at = sessionNow]
  <2>1. l \in Local /\ l.at = sessionNow
    BY <1>0, UserType DEF Local
  <2>2. local' = [local EXCEPT ![r] = l]
    BY <1>2 DEF SessionTypeOK
  <2> HIDE DEF l
  <2>3. /\ sessionPc' \in [Requests -> {"idle", "startSession", "findPasswordReset",
                             "completeChange", "endSession", "resetPassword", "updateStatus"}]
        /\ local' \in [Requests -> Local]
        /\ sessionPc'[r] = "completeChange" /\ local'[r] = l
        /\ OthersWait(r)
    BY <1>0, <1>2, <2>1, <2>2, RequestGoes
  <2>4. RequestHolds(r)'
    BY <1>0, <2>1, <2>3 DEF RequestHolds, SessionTime
  <2> QED BY <1>0, <2>3, <2>4, ReadingStep
<1>3. ASSUME NEW checkedAt \in local[r].at..sessionNow,
             local' = [local EXCEPT ![r].at = checkedAt], Goto(r, "endSession")
      PROVE  SessionInv' /\ RefusedStay
  <2> DEFINE l == [local[r] EXCEPT !.at = checkedAt]
  <2>1. l \in Local /\ l.at = checkedAt /\ checkedAt <= sessionNow
    BY <1>0, TimesAssumption DEF Local, SessionTime
  <2>2. local' = [local EXCEPT ![r] = l]
    BY <1>3 DEF SessionTypeOK
  <2> HIDE DEF l
  <2>3. /\ sessionPc' \in [Requests -> {"idle", "startSession", "findPasswordReset",
                             "completeChange", "endSession", "resetPassword", "updateStatus"}]
        /\ local' \in [Requests -> Local]
        /\ sessionPc'[r] = "endSession" /\ local'[r] = l
        /\ OthersWait(r)
    BY <1>0, <1>3, <2>1, <2>2, RequestGoes
  <2>4. RequestHolds(r)'
    BY <1>0, <2>1, <2>3 DEF RequestHolds, SessionTime
  <2> QED BY <1>0, <2>3, <2>4, ReadingStep
<1> QED BY <1>1, <1>2, <1>3 DEF FindPasswordReset

LEMMA LockForResetStep ==
  ASSUME SessionInv, NEW r \in Requests, NEW replacePending \in BOOLEAN,
         LockForReset(r, replacePending)
  PROVE  SessionInv' /\ RefusedStay
<1> DEFINE l == [BlankSession EXCEPT !.at = sessionNow, !.replace = replacePending]
<1>0. BlankSession \in Local /\ sessionNow \in SessionTime
  BY TimesAssumption DEF BlankSession, Local, SessionInv, SessionTypeOK, Hashes, SessionTime
<1>1. l \in Local /\ l.at = sessionNow /\ l.replace = replacePending
  BY <1>0 DEF Local
<1>2. /\ local' = [local EXCEPT ![r] = l] /\ Goto(r, "resetPassword")
      /\ lock = NoOne /\ lock' = r /\ UNCHANGED <<sessionNow, user, session>>
      /\ user # Absent /\ SessionTypeOK /\ (PendingReset(sessionNow) => replacePending)
  BY DEF LockForReset, Unlocked, SessionInv
<1> HIDE DEF l
<1>3. /\ sessionPc' \in [Requests -> {"idle", "startSession", "findPasswordReset",
                           "completeChange", "endSession", "resetPassword", "updateStatus"}]
      /\ local' \in [Requests -> Local]
      /\ sessionPc'[r] = "resetPassword" /\ local'[r] = l
      /\ OthersWait(r)
  BY <1>1, <1>2, RequestGoes
<1>4. RequestHolds(r)'
  BY <1>1, <1>2, <1>3 DEF RequestHolds, PendingReset, SessionTypeOK, SessionTime
<1> QED BY <1>2, <1>3, <1>4, ReadingStep DEF SessionTypeOK

LEMMA LockForStatusStep ==
  ASSUME SessionInv, NEW r \in Requests, LockForStatus(r) PROVE SessionInv' /\ RefusedStay
<1>2. /\ local' = [local EXCEPT ![r] = local[r]] /\ Goto(r, "updateStatus")
      /\ lock = NoOne /\ lock' = r /\ UNCHANGED <<sessionNow, user, session>>
      /\ user # Absent /\ SessionTypeOK /\ local[r] \in Local /\ local[r].at <= sessionNow
  BY DEF LockForStatus, Unlocked, SessionInv, SessionTypeOK, RequestHolds
<1>3. /\ sessionPc' \in [Requests -> {"idle", "startSession", "findPasswordReset",
                           "completeChange", "endSession", "resetPassword", "updateStatus"}]
      /\ local' \in [Requests -> Local]
      /\ sessionPc'[r] = "updateStatus" /\ local'[r] = local[r]
      /\ OthersWait(r)
  BY <1>2, RequestGoes
<1>4. RequestHolds(r)'
  BY <1>2, <1>3 DEF RequestHolds
<1> QED BY <1>2, <1>3, <1>4, ReadingStep DEF SessionTypeOK

LEMMA AbortStep ==
  ASSUME SessionInv, NEW r \in Requests, Abort(r) PROVE SessionInv' /\ RefusedStay
<1>1. UNCHANGED <<sessionNow, user, session>> /\ Finish(r) /\ lock = r /\ lock' = NoOne /\ SessionTypeOK
  BY DEF Abort, SessionInv
<1> QED BY <1>1, EndedHolds, ReadingStep

LEMMA StartSessionStep ==
  ASSUME SessionInv, NEW r \in Requests, NEW s \in Ids, StartSession(r, s)
  PROVE  SessionInv' /\ RefusedStay
<1>0. /\ UNCHANGED <<sessionNow, user, lock>> /\ Finish(r) /\ user # Absent /\ SessionTypeOK
      /\ sessionNow \in SessionTime /\ lock = NoOne /\ session[s] = Absent
      /\ local[r] \in Local /\ local[r].hash \in Hashes /\ local[r].at \in SessionTime
  BY DEF StartSession, Unlocked, Unused, SessionInv, RequestHolds, SessionTypeOK, Local
<1>1. PICK t \in local[r].at..sessionNow :
        session' = IF Confirmed(t) THEN [session EXCEPT ![s] = NewSession(t, local[r].hash)]
                   ELSE session
  BY DEF StartSession
<1>2. t \in SessionTime /\ sessionNow' \in Int /\ sessionNow' >= sessionNow
  BY <1>0, TimesAssumption DEF SessionTime
<1>3. CASE Confirmed(t)
  <2>1. session' = [session EXCEPT ![s] = NewSession(t, local[r].hash)] /\ user.isActive
    BY <1>1, <1>3 DEF Confirmed
  <2>2. session' \in [Ids -> Session \union {Absent, Deleted}] /\ OnlyAge
    BY <1>0, <1>2, <2>1, StartedRows
  <2>3. Access
    BY <1>0, <2>1 DEF Access
  <2> QED BY <1>0, <1>2, <2>2, <2>3, EndedHolds, OthersUndisturbed, StepEnough
          DEF SessionTypeOK, AbsentHasNone
<1>4. CASE ~Confirmed(t)
  <2>1. session' = session
    BY <1>1, <1>4
  <2> QED BY <1>0, <2>1, EndedHolds, ReadingStep DEF SessionTypeOK
<1> QED BY <1>3, <1>4

LEMMA EndSessionStep ==
  ASSUME SessionInv, NEW r \in Requests, EndSession(r) PROVE SessionInv' /\ RefusedStay
<1>0. /\ UNCHANGED <<sessionNow, user, lock>> /\ Finish(r) /\ user # Absent /\ SessionTypeOK
      /\ sessionNow \in SessionTime /\ local[r].at \in SessionTime /\ local[r].at <= sessionNow
      /\ session' = Revoked({local[r].jti}, local[r].at)
  BY DEF EndSession, SessionInv, RequestHolds, SessionTypeOK, Local
<1>1. Revoked({local[r].jti}, local[r].at) = Revoked({local[r].jti} \cap Ids, local[r].at)
  BY DEF Revoked
<1>2. /\ session' \in [Ids -> Session \union {Absent, Deleted}] /\ OnlyAge
      /\ \A s \in Ids : Live(s, sessionNow)' => s \in SessionRows
  BY <1>0, <1>1, RevokedRows
<1>3. Access /\ sessionNow' >= sessionNow
  BY <1>0, <1>2 DEF Access, SessionTime
<1> QED BY <1>0, <1>2, <1>3, EndedHolds, OthersUndisturbed, StepEnough
        DEF SessionTypeOK, AbsentHasNone

\* A step of a request that holds the row, or finds nobody holding it, that gives
\* the participant a new row and ends every session.
LEMMA ChangingStep ==
  ASSUME SessionInv, NEW r \in Requests, sessionNow' = sessionNow, Finish(r),
         user # Absent, user' \in User,
         lock \in {NoOne, r}, lock' \in Requests \union {NoOne},
         NEW t \in SessionTime, t <= sessionNow, session' = Revoked(Ids, t)
  PROVE  SessionInv' /\ RefusedStay
<1>1. /\ session' \in [Ids -> Session \union {Absent, Deleted}] /\ OnlyAge
      /\ \A s \in Ids : ~Live(s, sessionNow)'
  BY RevokedRows DEF SessionInv
<1>2. user' # Absent
  BY NullsAssumption
<1>3. SessionTypeOK'
  BY <1>1, EndedHolds DEF SessionInv, SessionTypeOK
<1>4. \A q \in Requests : RequestHolds(q)'
  <2>1. RequestHolds(r)' /\ OthersWait(r) BY EndedHolds DEF SessionInv
  <2> QED BY <1>2, <2>1, OthersUndisturbed
<1>5. sessionNow' >= sessionNow
  BY DEF SessionInv, SessionTypeOK, SessionTime
<1> QED BY <1>1, <1>2, <1>3, <1>4, <1>5, StepEnough DEF Access, AbsentHasNone

LEMMA CompleteChangeStep ==
  ASSUME SessionInv, NEW r \in Requests, CompleteChange(r) PROVE SessionInv' /\ RefusedStay
<1>0. /\ sessionNow' = sessionNow /\ lock' = lock /\ lock = NoOne /\ user # Absent
      /\ SessionTypeOK /\ user.passwordHash < MaxHash /\ sessionNow \in SessionTime
      /\ local[r] \in Local /\ local[r].at \in SessionTime /\ local[r].at <= sessionNow
  BY DEF CompleteChange, Unlocked, SessionInv, RequestHolds, SessionTypeOK, Local
<1>1. PICK changedAt \in local[r].at..sessionNow :
       \/ /\ StillPending(r, changedAt)
          /\ user' = [user EXCEPT !.passwordHash = Fresh,
                                  !.passwordResetRequired = FALSE,
                                  !.passwordResetExpiresAt = Nobody]
          /\ session' = Revoked(Ids, changedAt)
          /\ Finish(r)
       \/ /\ ~StillPending(r, changedAt)
          /\ local' = [local EXCEPT ![r].at = sessionNow]
          /\ Goto(r, "endSession")
          /\ UNCHANGED <<user, session>>
  BY DEF CompleteChange
<1>2. CASE /\ user' = [user EXCEPT !.passwordHash = Fresh,
                                   !.passwordResetRequired = FALSE,
                                   !.passwordResetExpiresAt = Nobody]
           /\ session' = Revoked(Ids, changedAt)
           /\ Finish(r)
  <2>1. Fresh \in Hashes
    BY <1>0, UserType, TimesAssumption DEF Fresh, Hashes
  <2>2. user' \in User
    BY <1>0, <1>2, <2>1, UserType DEF User
  <2>3. changedAt \in SessionTime /\ changedAt <= sessionNow
    BY <1>0, TimesAssumption DEF SessionTime
  <2> QED BY <1>0, <1>2, <2>2, <2>3, ChangingStep
<1>3. CASE /\ local' = [local EXCEPT ![r].at = sessionNow]
           /\ Goto(r, "endSession")
           /\ UNCHANGED <<user, session>>
  <2> DEFINE l == [local[r] EXCEPT !.at = sessionNow]
  <2>1. l \in Local /\ l.at = sessionNow
    BY <1>0 DEF Local
  <2>2. local' = [local EXCEPT ![r] = l]
    BY <1>3 DEF SessionTypeOK
  <2> HIDE DEF l
  <2>3. /\ sessionPc' \in [Requests -> {"idle", "startSession", "findPasswordReset",
                             "completeChange", "endSession", "resetPassword", "updateStatus"}]
        /\ local' \in [Requests -> Local]
        /\ sessionPc'[r] = "endSession" /\ local'[r] = l
        /\ OthersWait(r)
    BY <1>0, <1>3, <2>1, <2>2, RequestGoes
  <2>4. RequestHolds(r)'
    BY <1>0, <1>3, <2>1, <2>3 DEF RequestHolds, SessionTime
  <2> QED BY <1>0, <1>3, <2>3, <2>4, ReadingStep DEF SessionTypeOK
<1> QED BY <1>1, <1>2, <1>3

LEMMA ResetPasswordStep ==
  ASSUME SessionInv, NEW r \in Requests, ResetPassword(r) PROVE SessionInv' /\ RefusedStay
<1>0. /\ sessionNow' = sessionNow /\ lock' = NoOne /\ lock = r /\ user # Absent
      /\ SessionTypeOK /\ user.passwordHash < MaxHash
      /\ local[r].at \in SessionTime /\ local[r].at <= sessionNow
      /\ Finish(r) /\ session' = Revoked(Ids, local[r].at)
  BY DEF ResetPassword, SessionInv, RequestHolds, SessionTypeOK, Local
<1>1. Fresh \in Hashes
  BY <1>0, UserType, TimesAssumption DEF Fresh, Hashes
<1>2. local[r].at + Validity \in 0..(MaxSessionTime + Validity)
  BY <1>0, TimesAssumption DEF SessionTime
<1>3. user' \in User
  <2>1. local[r].at + Validity # Nobody
    BY <1>2, NullsAssumption, TimesAssumption
  <2>2. user' = [user EXCEPT !.passwordHash = Fresh,
                             !.passwordResetRequired = TRUE,
                             !.passwordResetExpiresAt = local[r].at + Validity]
    BY DEF ResetPassword
  <2> DEFINE end == local[r].at + Validity
  <2> HIDE DEF end
  <2> QED BY <1>0, <1>1, <1>2, <2>1, <2>2, UserType DEF User, end
<1> QED BY <1>0, <1>3, ChangingStep

LEMMA UpdateStatusStep ==
  ASSUME SessionInv, NEW r \in Requests, UpdateStatus(r) PROVE SessionInv' /\ RefusedStay
<1>0. /\ sessionNow' = sessionNow /\ lock' = NoOne /\ lock = r /\ user # Absent /\ Finish(r)
      /\ SessionTypeOK /\ sessionNow \in SessionTime /\ sessionNow <= sessionNow
  BY DEF UpdateStatus, SessionInv, RequestHolds, SessionTypeOK, SessionTime
<1>1. user' \in User
  BY <1>0, UserType DEF User, UpdateStatus
<1>2. CASE user.isActive
  BY <1>0, <1>1, <1>2, ChangingStep DEF UpdateStatus
<1>3. CASE ~user.isActive
  <2>1. session' = session /\ user' # Absent
    BY <1>1, <1>3, NullsAssumption DEF UpdateStatus
  <2>2. sessionNow' \in Int /\ sessionNow' >= sessionNow
    BY <1>0 DEF SessionTime
  <2>3. OnlyAge
    BY <1>0, <2>1, <2>2, KeptRows
  <2>4. Access
    BY <1>0, <1>3, <2>1 DEF Access, Live, Open, SessionRows, SessionInv, InactiveHaveNoSession
  <2>5. SessionTypeOK'
    BY <1>0, <1>1, <2>1, EndedHolds DEF SessionTypeOK
  <2>6. \A q \in Requests : RequestHolds(q)'
    <3>1. RequestHolds(r)' /\ OthersWait(r) BY <1>0, EndedHolds
    <3> QED BY <1>0, <2>1, <3>1, OthersUndisturbed
  <2> QED BY <2>1, <2>2, <2>3, <2>4, <2>5, <2>6, StepEnough DEF AbsentHasNone
<1> QED BY <1>2, <1>3

-----------------------------------------------------------------------------

LEMMA SessionInvInit == SessionInit => SessionInv
<1> SUFFICES ASSUME SessionInit PROVE SessionInv
  OBVIOUS
<1>1. BlankSession \in Local /\ BlankSession.at = 0 /\ 0 \in SessionTime
  BY TimesAssumption DEF BlankSession, Local, SessionTime, Hashes
<1>2. SessionTypeOK
  BY <1>1 DEF SessionInit, SessionTypeOK
<1>3. \A r \in Requests : RequestHolds(r)
  BY <1>1 DEF SessionInit, RequestHolds
<1> QED BY <1>2, <1>3 DEF SessionInit, SessionInv, InactiveHaveNoSession

LEMMA SessionInvStep == SessionInv /\ SessionNext => SessionInv' /\ RefusedStay
<1> SUFFICES ASSUME SessionInv, SessionNext PROVE SessionInv' /\ RefusedStay
  OBVIOUS
<1>1. CASE SessionTick BY <1>1, SessionTickStep
<1>2. CASE ExpireSessions BY <1>2, ExpireStep
<1>3. CASE DeleteRetainedSessions BY <1>3, DeleteRetainedStep
<1>4. ASSUME NEW s \in Ids, Register(s) \/ Heartbeat(s) \/ Logout(s)
      PROVE  SessionInv' /\ RefusedStay
  BY <1>4, RegisterStep, HeartbeatStep, LogoutStep
<1>5. ASSUME NEW r \in Requests,
             \/ VerifyLogin(r) \/ FindPasswordReset(r) \/ CompleteChange(r) \/ EndSession(r)
             \/ ResetPassword(r) \/ LockForStatus(r) \/ UpdateStatus(r) \/ Abort(r)
      PROVE  SessionInv' /\ RefusedStay
  BY <1>5, VerifyLoginStep, FindPasswordResetStep, CompleteChangeStep, EndSessionStep,
     ResetPasswordStep, LockForStatusStep, UpdateStatusStep, AbortStep
<1>6. ASSUME NEW r \in Requests, NEW replacePending \in BOOLEAN, LockForReset(r, replacePending)
      PROVE  SessionInv' /\ RefusedStay
  BY <1>6, LockForResetStep
<1>7. ASSUME NEW r \in Requests, NEW s \in Ids, StartSession(r, s) \/ BeginChange(r, s)
      PROVE  SessionInv' /\ RefusedStay
  BY <1>7, StartSessionStep, BeginChangeStep
<1> QED BY <1>1, <1>2, <1>3, <1>4, <1>5, <1>6, <1>7 DEF SessionNext

LEMMA SessionInvStutters ==
  SessionInv /\ UNCHANGED sessionVars => SessionInv' /\ RefusedStay
<1> SUFFICES ASSUME SessionInv, UNCHANGED sessionVars PROVE SessionInv' /\ RefusedStay
  OBVIOUS
<1> USE DEF sessionVars
<1>1. SessionTypeOK' BY DEF SessionInv, SessionTypeOK
<1>2. sessionNow' \in Int /\ sessionNow' >= sessionNow
  BY DEF SessionInv, SessionTypeOK, SessionTime
<1>3. OnlyAge BY <1>2, KeptRows DEF SessionInv
<1>4. Access BY DEF Access, Live, Open, SessionRows
<1>5. \A r \in Requests : RequestHolds(r)' BY <1>2, AllUndisturbed
<1> QED BY <1>1, <1>2, <1>3, <1>4, <1>5, StepEnough DEF AbsentHasNone, SessionInv

\* Only two steps give a participant another password: the participant's own
\* change, which has read the password that it replaces, and the reset of an
\* administrator who, if one was pending, asked to replace it.
PasswordStands ==
  user # Absent =>
    /\ PendingReset(sessionNow) /\ user'.passwordHash # user.passwordHash =>
         \E r \in Requests :
           \/ sessionPc[r] = "completeChange"
           \/ sessionPc[r] = "resetPassword" /\ local[r].replace
    /\ user.passwordResetRequired /\ ~user'.passwordResetRequired =>
         \E r \in Requests :
           sessionPc[r] = "completeChange" /\ local[r].hash = user.passwordHash

LEMMA PasswordStandsStep == SessionInv /\ SessionNext => PasswordStands
<1> SUFFICES ASSUME SessionInv, SessionNext, user # Absent PROVE PasswordStands
  BY DEF PasswordStands
<1>0. user \in User /\ user.isActive \in BOOLEAN
  BY UserType DEF SessionInv
<1>1. CASE user' = user
  BY <1>1 DEF PasswordStands
<1>2. ASSUME NEW r \in Requests, CompleteChange(r), user' # user PROVE PasswordStands
  <2>1. PICK t \in local[r].at..sessionNow : StillPending(r, t)
    BY <1>2 DEF CompleteChange
  <2>2. sessionPc[r] = "completeChange" /\ local[r].hash = user.passwordHash
    BY <1>2, <2>1 DEF CompleteChange, StillPending
  <2> QED BY <2>2 DEF PasswordStands
<1>3. ASSUME NEW r \in Requests, ResetPassword(r) PROVE PasswordStands
  <2>1. sessionPc[r] = "resetPassword" /\ RequestHolds(r)
        /\ sessionNow \in Int /\ local[r].at \in Int
    BY <1>3 DEF ResetPassword, SessionInv, SessionTypeOK, SessionTime, Local
  <2>2. user'.passwordResetRequired
    BY <1>0, <1>3 DEF ResetPassword, User
  <2>3. user.passwordResetRequired => user.passwordResetExpiresAt \in 0..(MaxSessionTime + Validity)
    BY UserType DEF SessionInv
  <2>4. PendingReset(sessionNow) => local[r].replace
    BY <2>1, <2>3, TimesAssumption DEF RequestHolds, PendingReset
  <2> QED BY <2>1, <2>2, <2>4 DEF PasswordStands
<1>4. ASSUME NEW r \in Requests, UpdateStatus(r) PROVE PasswordStands
  <2>1. user'.passwordHash = user.passwordHash
        /\ user'.passwordResetRequired = user.passwordResetRequired
    BY <1>0, <1>4 DEF UpdateStatus, User
  <2> QED BY <2>1 DEF PasswordStands
<1>5. \/ user' = user
      \/ \E r \in Requests : CompleteChange(r) \/ ResetPassword(r) \/ UpdateStatus(r)
  <2>1. ASSUME NEW s \in Ids, Register(s) \/ Heartbeat(s) \/ Logout(s) PROVE user' = user
    BY <2>1 DEF Register, Heartbeat, Logout
  <2>2. ASSUME NEW r \in Requests,
               \/ VerifyLogin(r) \/ FindPasswordReset(r) \/ EndSession(r) \/ LockForStatus(r)
               \/ Abort(r)
               \/ \E replacePending \in BOOLEAN : LockForReset(r, replacePending)
               \/ \E s \in Ids : StartSession(r, s) \/ BeginChange(r, s)
        PROVE  user' = user
    BY <2>2 DEF VerifyLogin, FindPasswordReset, EndSession, LockForStatus, Abort, LockForReset,
                StartSession, BeginChange
  <2>3. SessionTick \/ ExpireSessions \/ DeleteRetainedSessions => user' = user
    BY DEF SessionTick, ExpireSessions, DeleteRetainedSessions
  <2> QED BY <2>1, <2>2, <2>3 DEF SessionNext
<1> QED BY <1>1, <1>2, <1>3, <1>4, <1>5

\* The invariant holds, whatever the requests and however they interleave.
THEOREM SessionInvariance == SessionSpec => []SessionInv
<1>1. SessionInv /\ [SessionNext]_sessionVars => SessionInv'
  BY SessionInvStep, SessionInvStutters
<1> QED BY <1>1, SessionInvInit, PTL DEF SessionSpec

\* The rows of the participant and its sessions have the declared form.
THEOREM SessionTypeCorrect == SessionSpec => []SessionTypeOK
<1>1. SessionInv => SessionTypeOK BY DEF SessionInv
<1> QED BY <1>1, SessionInvariance, PTL

\* A participant who was deactivated (AdminParticipantsService.updateStatus) has
\* no live session, although logins were under way.
THEOREM InactiveStayOut == SessionSpec => []InactiveHaveNoSession
<1>1. SessionInv => InactiveHaveNoSession BY DEF SessionInv
<1> QED BY <1>1, SessionInvariance, PTL

\* A session refused once is refused for ever, and a temporary password that was
\* handed out stands (SessionsRepository, completeParticipantPasswordChange and
\* resetParticipantPassword).
THEOREM OutcomesAlwaysStand == SessionSpec => OutcomesStand
<1>1. SessionInv /\ [SessionNext]_sessionVars => RefusedStay
  BY SessionInvStep, SessionInvStutters
<1>2. SessionInv /\ [SessionNext]_sessionVars => [PasswordStands]_sessionVars
  BY PasswordStandsStep
<1>3. SessionSpec => [][RefusedStay]_sessionVars /\ [][PasswordStands]_sessionVars
  BY <1>1, <1>2, SessionInvariance, PTL DEF SessionSpec
<1>4. SessionSpec => RefusedStayRefused
  BY <1>3, PTL DEF RefusedStay, RefusedStayRefused
<1>5. SessionSpec => TemporaryPasswordStands
  BY <1>3, PTL DEF PasswordStands, TemporaryPasswordStands
<1> QED BY <1>4, <1>5 DEF OutcomesStand

-----------------------------------------------------------------------------
(* Presence.                                                               *)

\* The row of a day dates its last count by the latest of the collections that
\* were upserted, all of which it has; a day without a row has none.
LastIsLatest ==
  \A d \in Days :
    /\ summary[d] = NoReading => SeenOn(d) = {}
    /\ summary[d] # NoReading =>
         /\ \E o \in SeenOn(d) : o.at = summary[d].lastCollectedAt
         /\ \A o \in SeenOn(d) : o.at <= summary[d].lastCollectedAt

PresenceInv ==
  PresenceTypeOK /\ PeakIsOneObservation /\ RowsHoldTheirDay /\ LastIsLatest

\* An instant of the model belongs to a day of the model.
LEMMA DayOfType == \A t \in PresenceTime : DayOf(t) \in Days
<1> SUFFICES ASSUME NEW t \in PresenceTime PROVE DayOf(t) \in Days
  OBVIOUS
<1>1. \A a, b \in Nat, n \in Nat \ {0} : a <= b => a \div n \in Nat /\ b \div n \in Nat /\ a \div n <= b \div n
  OBVIOUS
<1> QED BY <1>1, PresenceAssumption DEF PresenceTime, DayOf, Days

\* The window in which the panel is LIVE, told by the row and by the collections.
LEMMA LiveByTheRow == PresenceInv => LiveMeansRecent
<1> SUFFICES ASSUME PresenceInv PROVE LiveMeansRecent
  OBVIOUS
<1> DEFINE d == DayOf(presenceNow)
<1>1. d \in Days /\ presenceNow \in Nat /\ PresenceWindow \in Nat
  BY DayOfType, PresenceAssumption DEF PresenceInv, PresenceTypeOK, PresenceTime
<1>2. \A o \in SeenOn(d) : o.at \in Nat
  BY DEF PresenceInv, PresenceTypeOK, PresenceTime, SeenOn
<1>3. PresenceStatus = "LIVE" <=>
        summary[d] # NoReading /\ presenceNow - summary[d].lastCollectedAt <= PresenceWindow
  BY DEF PresenceStatus, Today
<1>4. CASE summary[d] = NoReading
  <2>1. SeenOn(d) = {} BY <1>1, <1>4 DEF PresenceInv, LastIsLatest
  <2> QED BY <1>3, <1>4, <2>1 DEF LiveMeansRecent
<1>5. CASE summary[d] # NoReading
  <2> HIDE DEF d
  <2>1. PICK last \in SeenOn(d) : last.at = summary[d].lastCollectedAt
    BY <1>1, <1>5 DEF PresenceInv, LastIsLatest
  <2>2. \A o \in SeenOn(d) : o.at <= last.at
    BY <1>1, <1>5, <2>1 DEF PresenceInv, LastIsLatest
  <2>3. (presenceNow - last.at <= PresenceWindow) <=>
          \E o \in SeenOn(d) : presenceNow - o.at <= PresenceWindow
    BY <1>1, <1>2, <2>2
  <2> QED BY <1>3, <1>5, <2>1, <2>3 DEF LiveMeansRecent, d
<1> QED BY <1>4, <1>5

-----------------------------------------------------------------------------
(* The upsert.                                                             *)

\* What the row says of the collections: the peak is that of one of them, of
\* which none counted more, and the last is the latest.
Tells(row, d, collections) ==
  /\ row \in Summary
  /\ [row |-> d, at |-> row.peakAt, online |-> row.peakOnline,
      registered |-> row.registeredAtPeak] \in collections
  /\ \A o \in collections : o.online <= row.peakOnline
  /\ \E o \in collections : o.at = row.lastCollectedAt
  /\ \A o \in collections : o.at <= row.lastCollectedAt
  /\ DayOf(row.peakAt) = d /\ DayOf(row.lastCollectedAt) = d

Collection == [row : Days, at : PresenceTime, online : People, registered : People]

\* The row of the first collection of a day.
LEMMA InsertedTells ==
  ASSUME NEW o \in Observation, NEW d \in Days, DayOf(o.at) = d
  PROVE  Tells(Inserted(o), d,
               {[row |-> d, at |-> o.at, online |-> o.online, registered |-> o.registered]})
BY PresenceAssumption DEF Tells, Inserted, Observation, Summary, People, PresenceTime

\* The row after another collection, older or newer, with a tie or without.
LEMMA UpdatedTells ==
  ASSUME NEW o \in Observation, NEW d \in Days, DayOf(o.at) = d,
         NEW collections \in SUBSET Collection, NEW row, Tells(row, d, collections)
  PROVE  Tells(Updated(row, o), d,
               collections \union
               {[row |-> d, at |-> o.at, online |-> o.online, registered |-> o.registered]})
<1> DEFINE new == [row |-> d, at |-> o.at, online |-> o.online, registered |-> o.registered]
           peaked == PeakMoved(row, o)
           after == Updated(row, o)
<1>1. /\ o.at \in Nat /\ o.online \in Nat /\ row \in Summary
      /\ row.peakOnline \in Nat /\ row.lastCollectedAt \in Nat /\ row.peakAt \in Nat
      /\ \A c \in collections : c.at \in Nat /\ c.online \in Nat
  BY PresenceAssumption DEF Observation, Tells, Summary, People, PresenceTime, Collection
<1>2. peaked \in Summary /\ peaked.lastCollectedAt = row.lastCollectedAt
  BY <1>1 DEF PeakMoved, Observation, Summary
<1>3. \/ /\ o.online > row.peakOnline
         /\ peaked.peakOnline = o.online /\ peaked.peakAt = o.at /\ peaked.registeredAtPeak = o.registered
      \/ ~(o.online > row.peakOnline) /\ peaked = row
  BY <1>1 DEF PeakMoved, Summary
<1> HIDE DEF peaked
<1>4. Larger(row.lastCollectedAt, o.at) \in PresenceTime
  BY <1>1 DEF Larger, Summary, Observation
<1>5. /\ after \in Summary
      /\ after.peakOnline = peaked.peakOnline /\ after.peakAt = peaked.peakAt
      /\ after.registeredAtPeak = peaked.registeredAtPeak
      /\ after.lastCollectedAt = Larger(row.lastCollectedAt, o.at)
  BY <1>2, <1>4 DEF Updated, peaked, Summary, Observation
<1> HIDE DEF after
<1>6. [row |-> d, at |-> after.peakAt, online |-> after.peakOnline,
       registered |-> after.registeredAtPeak] \in collections \union {new}
  BY <1>3, <1>5 DEF Tells
<1>7. \A c \in collections \union {new} : c.online <= after.peakOnline
  BY <1>1, <1>3, <1>5 DEF Tells
<1>8. \E c \in collections \union {new} : c.at = after.lastCollectedAt
  <2>1. \E c \in collections : c.at = row.lastCollectedAt BY DEF Tells
  <2>2. after.lastCollectedAt \in {row.lastCollectedAt, o.at}
    BY <1>5 DEF Larger
  <2>3. new \in collections \union {new} /\ new.at = o.at
    OBVIOUS
  <2> HIDE DEF new
  <2> QED BY <2>1, <2>2, <2>3
<1>9. \A c \in collections \union {new} : c.at <= after.lastCollectedAt
  BY <1>1, <1>5 DEF Tells, Larger
<1>10. DayOf(after.peakAt) = d /\ DayOf(after.lastCollectedAt) = d
  BY <1>3, <1>5 DEF Tells, Larger
<1> QED BY <1>5, <1>6, <1>7, <1>8, <1>9, <1>10 DEF Tells, after

\* Each day has a row that tells what was collected, or neither.
DayTold(d) ==
  \/ summary[d] = NoReading /\ SeenOn(d) = {}
  \/ summary[d] # NoReading /\ Tells(summary[d], d, SeenOn(d))

LEMMA PresenceInvByDay ==
  PresenceInv <=> PresenceTypeOK /\ \A d \in Days : DayTold(d)
<1>1. ASSUME PresenceInv, NEW d \in Days PROVE DayTold(d)
  <2>1. CASE summary[d] = NoReading
    BY <1>1, <2>1 DEF PresenceInv, LastIsLatest, DayTold
  <2>2. CASE summary[d] # NoReading
    <3>1. summary[d] \in Summary
      BY <1>1, <2>2 DEF PresenceInv, PresenceTypeOK
    <3>2. [row |-> d, at |-> summary[d].peakAt, online |-> summary[d].peakOnline,
           registered |-> summary[d].registeredAtPeak] \in SeenOn(d)
      BY <1>1, <2>2 DEF PresenceInv, PeakIsOneObservation, SeenOn
    <3> QED BY <1>1, <2>2, <3>1, <3>2
            DEF PresenceInv, PeakIsOneObservation, RowsHoldTheirDay, LastIsLatest, Tells, DayTold
  <2> QED BY <2>1, <2>2
<1>2. ASSUME PresenceTypeOK, \A d \in Days : DayTold(d) PROVE PresenceInv
  <2>1. ASSUME NEW d \in Days, summary[d] # NoReading
        PROVE  Tells(summary[d], d, SeenOn(d))
    BY <1>2, <2>1 DEF DayTold
  <2>2. PeakIsOneObservation
    BY <2>1 DEF PeakIsOneObservation, Tells, SeenOn
  <2>3. RowsHoldTheirDay
    BY <2>1 DEF RowsHoldTheirDay, Tells
  <2>4. LastIsLatest
    BY <1>2, <2>1 DEF LastIsLatest, Tells, DayTold
  <2> QED BY <1>2, <2>2, <2>3, <2>4 DEF PresenceInv
<1>3. PresenceInv => PresenceTypeOK BY DEF PresenceInv
<1> QED BY <1>1, <1>2, <1>3

LEMMA PresenceInvByDayNext ==
  PresenceInv' <=> PresenceTypeOK' /\ (\A d \in Days : DayTold(d))'
BY PresenceInvByDay, PTL

\* The row of another day and what was seen on it are as they were.
LEMMA OtherDayTold ==
  ASSUME NEW d \in Days, DayTold(d), summary'[d] = summary[d], SeenOn(d)' = SeenOn(d)
  PROVE  DayTold(d)'
BY DEF DayTold

LEMMA UpsertStep ==
  ASSUME PresenceInv, NEW c \in Collectors, UpsertDailySummary(c) PROVE PresenceInv'
<1> DEFINE o == obs[c]
           today == RowOf(o)
           new == [row |-> today, at |-> o.at, online |-> o.online, registered |-> o.registered]
           row == IF summary[today] = NoReading THEN Inserted(o) ELSE Updated(summary[today], o)
<1>1. PresenceTypeOK /\ o \in Observation /\ \A d \in Days : DayTold(d)
  BY PresenceInvByDay DEF PresenceInv, PresenceTypeOK
<1>2. today \in Days /\ DayOf(o.at) = today /\ new \in Collection
  BY <1>1, DayOfType DEF RowOf, Observation, Collection
<1>3. summary' = [summary EXCEPT ![today] = row] /\ seen' = seen \union {new}
  BY DEF UpsertDailySummary
<1> HIDE DEF o, new
<1>4. SeenOn(today) \in SUBSET Collection
  BY <1>1 DEF PresenceTypeOK, SeenOn, Collection
<1>5. Tells(row, today, SeenOn(today) \union {new})
  <2>1. CASE summary[today] = NoReading
    <3>1. SeenOn(today) = {} BY <1>1, <1>2, <2>1 DEF DayTold
    <3>2. Tells(Inserted(o), today, {new}) BY <1>1, <1>2, InsertedTells DEF new
    <3> QED BY <2>1, <3>1, <3>2
  <2>2. CASE summary[today] # NoReading
    <3>1. Tells(summary[today], today, SeenOn(today)) BY <1>1, <1>2, <2>2 DEF DayTold
    <3>2. Tells(Updated(summary[today], o), today, SeenOn(today) \union {new})
      BY <1>1, <1>2, <1>4, <3>1, UpdatedTells DEF new
    <3> QED BY <2>2, <3>2
  <2> QED BY <2>1, <2>2
<1> HIDE DEF row
<1>6. row \in Summary /\ row # NoReading
  BY <1>5, NoReadingAssumption DEF Tells
<1>7. new.row = today BY DEF new
<1> HIDE DEF today
<1>8. ASSUME NEW d \in Days PROVE DayTold(d)'
  <2>1. CASE d = today
    <3>1. summary'[d] = row BY <1>1, <1>3, <2>1 DEF PresenceTypeOK
    <3>2. SeenOn(d)' = SeenOn(today) \union {new} BY <1>3, <1>7, <2>1 DEF SeenOn
    <3> QED BY <1>5, <1>6, <2>1, <3>1, <3>2 DEF DayTold
  <2>2. CASE d # today
    <3>1. summary'[d] = summary[d] BY <1>1, <1>3, <2>2 DEF PresenceTypeOK
    <3>2. SeenOn(d)' = SeenOn(d) BY <1>3, <1>7, <2>2 DEF SeenOn
    <3> QED BY <1>1, <3>1, <3>2, OtherDayTold
  <2> QED BY <2>1, <2>2
<1>9. PresenceTypeOK'
  <2>1. BlankObservation \in Observation
    BY PresenceAssumption DEF BlankObservation, Observation, PresenceTime, People
  <2>2. summary' \in [Days -> Summary \union {NoReading}]
    BY <1>1, <1>3, <1>6 DEF PresenceTypeOK
  <2>3. seen' \subseteq [row : Days, at : PresenceTime, online : People, registered : People]
    BY <1>1, <1>2, <1>3 DEF PresenceTypeOK, Collection
  <2> QED BY <1>1, <2>1, <2>2, <2>3 DEF PresenceTypeOK, UpsertDailySummary
<1> QED BY <1>8, <1>9, PresenceInvByDayNext

LEMMA DeleteRetainedPresenceStep ==
  ASSUME PresenceInv, DeleteRetainedPresence PROVE PresenceInv'
<1> DEFINE before(d) == d < DayOf(presenceNow) - KeptDays
<1>1. PresenceTypeOK /\ \A d \in Days : DayTold(d)
  BY PresenceInvByDay
<1>2. /\ summary' = [d \in Days |-> IF before(d) THEN NoReading ELSE summary[d]]
      /\ seen' = {o \in seen : ~before(o.row)}
      /\ UNCHANGED <<presenceNow, online, registered, presencePc, obs>>
  BY DEF DeleteRetainedPresence
<1> HIDE DEF before
<1>3. PresenceTypeOK'
  <2>1. summary' \in [Days -> Summary \union {NoReading}]
    BY <1>1, <1>2 DEF PresenceTypeOK
  <2>2. seen' \subseteq seen BY <1>2
  <2> QED BY <1>1, <1>2, <2>1, <2>2 DEF PresenceTypeOK
<1>4. ASSUME NEW d \in Days PROVE DayTold(d)'
  <2>1. CASE before(d)
    BY <1>2, <2>1 DEF DayTold, SeenOn
  <2>2. CASE ~before(d)
    <3>1. summary'[d] = summary[d] /\ SeenOn(d)' = SeenOn(d)
      BY <1>2, <2>2 DEF SeenOn
    <3> QED BY <1>1, <3>1, OtherDayTold
  <2> QED BY <2>1, <2>2
<1> QED BY <1>3, <1>4, PresenceInvByDayNext

\* Whatever leaves the rows and what was seen as they are.
LEMMA PresenceElsewhere ==
  ASSUME PresenceInv, PresenceTypeOK', UNCHANGED <<summary, seen>> PROVE PresenceInv'
BY DEF PresenceInv, PeakIsOneObservation, RowsHoldTheirDay, LastIsLatest, SeenOn

LEMMA PresenceInvInit == PresenceInit => PresenceInv
<1> SUFFICES ASSUME PresenceInit PROVE PresenceInv
  OBVIOUS
<1>1. PresenceTypeOK
  BY PresenceAssumption
  DEF PresenceInit, PresenceTypeOK, PresenceTime, People, BlankObservation, Observation
<1> QED BY <1>1
        DEF PresenceInit, PresenceInv, PeakIsOneObservation, RowsHoldTheirDay, LastIsLatest, SeenOn

LEMMA PresenceInvStep == PresenceInv /\ [PresenceNext]_presenceVars => PresenceInv'
<1> SUFFICES ASSUME PresenceInv, [PresenceNext]_presenceVars PROVE PresenceInv'
  OBVIOUS
<1>0. PresenceTypeOK BY DEF PresenceInv
<1>1. CASE PresenceTick
  <2>1. PresenceTypeOK'
    BY <1>0, <1>1, PresenceAssumption DEF PresenceTick, PresenceTypeOK, PresenceTime
  <2> QED BY <1>1, <2>1, PresenceElsewhere DEF PresenceTick
<1>2. CASE PeopleMove
  <2>1. PresenceTypeOK'
    BY <1>0, <1>2, PresenceAssumption DEF PeopleMove, PresenceTypeOK, People
  <2> QED BY <1>2, <2>1, PresenceElsewhere DEF PeopleMove
<1>3. CASE DeleteRetainedPresence
  BY <1>3, DeleteRetainedPresenceStep
<1>4. ASSUME NEW c \in Collectors, Collect(c) PROVE PresenceInv'
  <2>0. BlankObservation \in Observation
    BY PresenceAssumption DEF BlankObservation, Observation, PresenceTime, People
  <2>1. [BlankObservation EXCEPT !.at = presenceNow, !.registered = registered] \in Observation
    BY <1>0, <2>0 DEF Observation, PresenceTypeOK
  <2>2. PresenceTypeOK'
    BY <1>0, <1>4, <2>1 DEF Collect, PresenceTypeOK
  <2> QED BY <1>4, <2>2, PresenceElsewhere DEF Collect
<1>5. ASSUME NEW c \in Collectors, GetCollectionCounts(c) PROVE PresenceInv'
  <2>1. PICK n \in obs[c].registered..registered :
          obs' = [obs EXCEPT ![c] = [@ EXCEPT !.online = online, !.registered = n]]
    BY <1>5 DEF GetCollectionCounts
  <2>2. n \in People /\ online \in People
    BY <1>0, PresenceAssumption DEF PresenceTypeOK, People, Observation
  <2>3. [obs[c] EXCEPT !.online = online, !.registered = n] \in Observation
    BY <1>0, <2>2 DEF PresenceTypeOK, Observation
  <2>4. PresenceTypeOK'
    BY <1>0, <1>5, <2>1, <2>3 DEF GetCollectionCounts, PresenceTypeOK
  <2> QED BY <1>5, <2>4, PresenceElsewhere DEF GetCollectionCounts
<1>6. ASSUME NEW c \in Collectors, UpsertDailySummary(c) PROVE PresenceInv'
  BY <1>6, UpsertStep
<1>7. ASSUME NEW c \in Collectors, Fail(c) PROVE PresenceInv'
  <2>1. BlankObservation \in Observation
    BY PresenceAssumption DEF BlankObservation, Observation, PresenceTime, People
  <2>2. PresenceTypeOK'
    BY <1>0, <1>7, <2>1 DEF Fail, PresenceTypeOK
  <2> QED BY <1>7, <2>2, PresenceElsewhere DEF Fail
<1>8. CASE UNCHANGED presenceVars
  BY <1>0, <1>8, PresenceElsewhere DEF presenceVars, PresenceTypeOK
<1> QED BY <1>1, <1>2, <1>3, <1>4, <1>5, <1>6, <1>7, <1>8 DEF PresenceNext

-----------------------------------------------------------------------------
(* findOverallPeak: the fold over the days kept.                           *)

\* Of some days, the one that peaked highest and before any other that did.
Peaks(d, days) ==
  \A e \in days \ {d} :
    \/ summary[e].peakOnline < summary[d].peakOnline
    \/ summary[e].peakOnline = summary[d].peakOnline /\ summary[d].peakAt < summary[e].peakAt

\* Two days do not peak at the same instant, since each peaks in itself.
LEMMA PeaksApart ==
  ASSUME PresenceInv, NEW d \in KeptSummaries, NEW e \in KeptSummaries,
         summary[d].peakAt = summary[e].peakAt
  PROVE  d = e
BY DEF PresenceInv, RowsHoldTheirDay, KeptSummaries

LEMMA KeptSummariesFinite ==
  /\ KeptSummaries \subseteq Nat /\ IsFiniteSet(KeptSummaries)
  /\ \A d \in KeptSummaries : d <= DayOf(MaxPresenceTime)
  /\ DayOf(MaxPresenceTime) \in Nat
<1>1. DayOf(MaxPresenceTime) \in Nat
  BY PresenceAssumption DEF DayOf
<1>2. Days \subseteq Nat /\ IsFiniteSet(Days) /\ \A d \in Days : d <= DayOf(MaxPresenceTime)
  BY <1>1, FS_Interval DEF Days
<1> QED BY <1>1, <1>2, FS_Subset DEF KeptSummaries

LEMMA KeptSummaryType ==
  ASSUME PresenceInv, NEW d \in KeptSummaries
  PROVE  /\ summary[d].peakOnline \in Nat /\ summary[d].peakAt \in Nat /\ d # NoReading
<1>1. summary[d] \in Summary
  BY DEF KeptSummaries, PresenceInv, PresenceTypeOK
<1>2. d \in Nat BY KeptSummariesFinite
<1> QED BY <1>1, <1>2, PresenceAssumption, NoReadingAssumption DEF Summary, People, PresenceTime

\* Max of FiniteSetsExt takes the last of some days, of which there is one.
LEMMA LastDay ==
  ASSUME NEW days \in SUBSET KeptSummaries, days # {}
  PROVE  Max(days) \in days
<1> DEFINE N == DayOf(MaxPresenceTime)
           back == {n \in Nat : \E d \in days : n = N - d}
<1>1. N \in Nat /\ days \subseteq Nat /\ \A d \in days : d <= N
  BY KeptSummariesFinite
<1> HIDE DEF N
<1>2. back # {}
  <2>1. PICK d \in days : TRUE OBVIOUS
  <2>2. N - d \in Nat BY <1>1
  <2> QED BY <2>1, <2>2
<1>3. PICK n \in back : \A m \in back : n <= m
  BY <1>2, LeastNatural
<1>4. PICK last \in days : n = N - last
  BY <1>3
<1>5. \A e \in days : last >= e
  <2> SUFFICES ASSUME NEW e \in days PROVE last >= e
    OBVIOUS
  <2>1. N - e \in back BY <1>1
  <2>2. N - last <= N - e BY <1>3, <1>4, <2>1
  <2> QED BY <1>1, <2>2
<1> QED BY <1>5 DEF Max

\* One step of the fold: from the peak of the other days to that of all.
LEMMA HigherPeakPeaks ==
  ASSUME PresenceInv, NEW days \in SUBSET KeptSummaries, NEW d \in days, NEW current,
         \/ days \ {d} = {} /\ current = NoReading
         \/ current \in days \ {d} /\ Peaks(current, days \ {d})
  PROVE  HigherPeak(current, d) \in days /\ Peaks(HigherPeak(current, d), days)
<1>1. CASE days \ {d} = {} /\ current = NoReading
  BY <1>1 DEF HigherPeak, Peaks
<1>2. CASE current \in days \ {d} /\ Peaks(current, days \ {d})
  <2>1. \A e \in days : summary[e].peakOnline \in Nat /\ summary[e].peakAt \in Nat /\ e # NoReading
    BY KeptSummaryType
  <2>2. summary[current].peakAt # summary[d].peakAt
    BY <1>2, PeaksApart
  <2> DEFINE a == summary[current]
             b == summary[d]
  <2>3. HigherPeak(current, d) =
          IF b.peakOnline # a.peakOnline
          THEN IF b.peakOnline > a.peakOnline THEN d ELSE current
          ELSE IF b.peakAt < a.peakAt THEN d ELSE current
    BY <1>2, <2>1 DEF HigherPeak
  <2>4. CASE b.peakOnline > a.peakOnline \/ (b.peakOnline = a.peakOnline /\ b.peakAt < a.peakAt)
    <3>1. HigherPeak(current, d) = d
      BY <1>2, <2>1, <2>3, <2>4
    <3>2. Peaks(d, days)
      <4> SUFFICES ASSUME NEW e \in days \ {d}
                   PROVE  \/ summary[e].peakOnline < b.peakOnline
                          \/ summary[e].peakOnline = b.peakOnline /\ b.peakAt < summary[e].peakAt
        BY DEF Peaks
      <4>1. CASE e = current BY <1>2, <2>1, <2>4, <4>1
      <4>2. CASE e # current
        <5>1. \/ summary[e].peakOnline < a.peakOnline
              \/ summary[e].peakOnline = a.peakOnline /\ a.peakAt < summary[e].peakAt
          BY <1>2, <4>2 DEF Peaks
        <5> QED BY <1>2, <2>1, <2>4, <5>1
      <4> QED BY <4>1, <4>2
    <3> QED BY <3>1, <3>2
  <2>5. CASE ~(b.peakOnline > a.peakOnline \/ (b.peakOnline = a.peakOnline /\ b.peakAt < a.peakAt))
    <3>1. HigherPeak(current, d) = current
      BY <1>2, <2>1, <2>3, <2>5
    <3>2. b.peakOnline < a.peakOnline \/ (b.peakOnline = a.peakOnline /\ a.peakAt < b.peakAt)
      BY <1>2, <2>1, <2>2, <2>5
    <3>3. Peaks(current, days)
      BY <1>2, <3>2 DEF Peaks
    <3> QED BY <1>2, <3>1, <3>3
  <2> QED BY <2>4, <2>5
<1> QED BY <1>1, <1>2

\* Only one day can be the peak of some.
LEMMA PeakUnique ==
  ASSUME PresenceInv, NEW days \in SUBSET KeptSummaries,
         NEW d \in days, NEW e \in days, Peaks(d, days), Peaks(e, days)
  PROVE  d = e
<1>1. \A f \in days : summary[f].peakOnline \in Nat /\ summary[f].peakAt \in Nat
  BY KeptSummaryType
<1> QED BY <1>1 DEF Peaks

\* Some days, if any, have a peak.
LEMMA PeakExists ==
  ASSUME PresenceInv, NEW days \in SUBSET KeptSummaries, days # {}
  PROVE  \E d \in days : Peaks(d, days)
<1> DEFINE without == {T \in SUBSET KeptSummaries : T # {} /\ ~\E d \in T : Peaks(d, T)}
<1> SUFFICES ASSUME without # {} PROVE FALSE
  OBVIOUS
<1>1. PICK T \in without : \A U \in without : U \subseteq T => U = T
  <2>1. without \in SUBSET (SUBSET KeptSummaries) /\ IsFiniteSet(KeptSummaries)
    BY KeptSummariesFinite
  <2> HIDE DEF without
  <2> QED BY <2>1, MinimalSubset
<1>2. PICK x \in T : TRUE
  OBVIOUS
<1>3. T \ {x} \notin without
  BY <1>1, <1>2
<1>4. CASE T \ {x} = {}
  BY <1>2, <1>4, HigherPeakPeaks
<1>5. CASE T \ {x} # {}
  <2>1. PICK b \in T \ {x} : Peaks(b, T \ {x})
    BY <1>3, <1>5
  <2> QED BY <1>2, <2>1, HigherPeakPeaks
<1> QED BY <1>4, <1>5

\* The fold takes the days from the first to the last.
PeakFold(h) ==
  [days \in SUBSET KeptSummaries |->
     IF days = {} THEN NoReading ELSE HigherPeak(h[days \ {Max(days)}], Max(days))]

LEMMA PeakFoldExists == ASSUME PresenceInv PROVE \E h : h = PeakFold(h)
<1> DEFINE h == [days \in SUBSET KeptSummaries |->
                   IF days = {} THEN NoReading ELSE CHOOSE d \in days : Peaks(d, days)]
<1>1. ASSUME NEW days \in SUBSET KeptSummaries, days # {}
      PROVE  h[days] \in days /\ Peaks(h[days], days)
  <2>1. h[days] = CHOOSE d \in days : Peaks(d, days)
    BY <1>1
  <2> QED BY <1>1, <2>1, PeakExists
<1>2. h[{}] = NoReading OBVIOUS
<1>3. h = [days \in SUBSET KeptSummaries |-> h[days]] OBVIOUS
<1> HIDE DEF h
<1>4. ASSUME NEW days \in SUBSET KeptSummaries, days # {}
      PROVE  h[days] = HigherPeak(h[days \ {Max(days)}], Max(days))
  <2> DEFINE last == Max(days)
             current == h[days \ {last}]
  <2>1. last \in days
    BY <1>4, LastDay
  <2>2. \/ days \ {last} = {} /\ current = NoReading
        \/ current \in days \ {last} /\ Peaks(current, days \ {last})
    BY <1>1, <1>2
  <2> HIDE DEF last, current
  <2>3. HigherPeak(current, last) \in days /\ Peaks(HigherPeak(current, last), days)
    BY <2>1, <2>2, HigherPeakPeaks
  <2>4. h[days] = HigherPeak(current, last)
    BY <1>1, <1>4, <2>3, PeakUnique
  <2> QED BY <2>4 DEF last, current
<1>5. h = PeakFold(h)
  BY <1>2, <1>3, <1>4 DEF PeakFold
<1> QED BY <1>5

LEMMA OverallPeakFolds ==
  ASSUME PresenceInv
  PROVE  \E h : h = PeakFold(h) /\ OverallPeak = h[KeptSummaries]
<1> DEFINE iter == CHOOSE h : h = PeakFold(h)
<1>1. OverallPeak = iter[KeptSummaries]
  BY Zenon DEF OverallPeak, MapThenFoldSet, PeakFold
<1>2. iter = PeakFold(iter)
  BY PeakFoldExists, Zenon
<1> HIDE DEF iter
<1> QED BY <1>1, <1>2

LEMMA PeakFoldPeaks ==
  ASSUME PresenceInv, NEW h, h = PeakFold(h), NEW days \in SUBSET KeptSummaries, days # {}
  PROVE  h[days] \in days /\ Peaks(h[days], days)
<1> DEFINE wrong == {T \in SUBSET KeptSummaries : T # {} /\ ~(h[T] \in T /\ Peaks(h[T], T))}
<1> SUFFICES ASSUME wrong # {} PROVE FALSE
  OBVIOUS
<1>1. PICK T \in wrong : \A U \in wrong : U \subseteq T => U = T
  <2>1. wrong \in SUBSET (SUBSET KeptSummaries) /\ IsFiniteSet(KeptSummaries)
    BY KeptSummariesFinite
  <2> HIDE DEF wrong
  <2> QED BY <2>1, MinimalSubset
<1> DEFINE last == Max(T)
           current == h[T \ {last}]
<1>2. last \in T
  BY <1>1, LastDay
<1>3. h[T] = HigherPeak(current, last) /\ h[{}] = NoReading
  BY <1>1 DEF PeakFold
<1>4. T \ {last} \notin wrong
  BY <1>1, <1>2
<1>5. \/ T \ {last} = {} /\ current = NoReading
      \/ current \in T \ {last} /\ Peaks(current, T \ {last})
  BY <1>1, <1>3, <1>4
<1> HIDE DEF last, current
<1>6. HigherPeak(current, last) \in T /\ Peaks(HigherPeak(current, last), T)
  BY <1>1, <1>2, <1>5, HigherPeakPeaks
<1> QED BY <1>1, <1>3, <1>6

LEMMA OverallPeakByFold == PresenceInv => OverallPeakIsHighest
<1> SUFFICES ASSUME PresenceInv PROVE OverallPeakIsHighest
  OBVIOUS
<1>1. PICK h : h = PeakFold(h) /\ OverallPeak = h[KeptSummaries]
  BY OverallPeakFolds
<1>2. CASE KeptSummaries = {}
  BY <1>1, <1>2 DEF PeakFold, OverallPeakIsHighest
<1>3. CASE KeptSummaries # {}
  <2>1. OverallPeak \in KeptSummaries /\ Peaks(OverallPeak, KeptSummaries)
    BY <1>1, <1>3, PeakFoldPeaks
  <2>2. \A d \in KeptSummaries : summary[d].peakOnline \in Nat /\ summary[d].peakAt \in Nat
    BY KeptSummaryType
  <2> HIDE DEF OverallPeak
  <2> QED BY <1>3, <2>1, <2>2 DEF Peaks, OverallPeakIsHighest
<1> QED BY <1>2, <1>3

\* The invariant holds, whatever the processes, the order of their collections
\* and the nights between them.
THEOREM PresenceInvariance == PresenceSpec => []PresenceInv
<1>1. PresenceInv /\ [PresenceNext]_presenceVars => PresenceInv'
  BY PresenceInvStep
<1> QED BY <1>1, PresenceInvInit, PTL DEF PresenceSpec

\* The daily summaries have the declared form.
THEOREM PresenceTypeCorrect == PresenceSpec => []PresenceTypeOK
<1>1. PresenceInv => PresenceTypeOK BY DEF PresenceInv
<1> QED BY <1>1, PresenceInvariance, PTL

\* What the panel shows was collected: the peak of each day, the window of LIVE
\* and the overall peak (upsertDailySummary, getOverview, findOverallPeak).
THEOREM PresenceStaysAsCollected == PresenceSpec => []PresenceIsAsCollected
<1>1. PresenceInv => PresenceIsAsCollected
  BY LiveByTheRow, OverallPeakByFold DEF PresenceInv, PresenceIsAsCollected
<1> QED BY <1>1, PresenceInvariance, PTL

-----------------------------------------------------------------------------
(* Security metrics: the sum over the processes.                           *)

\* The sum of a function to the naturals over a finite set, as the number of the
\* pairs of an element and one of as many numbers as its value.
Units(F, s) == {u \in s \X Nat : u[2] \in 1..F[u[1]]}

Own(F, p) == {p} \X (1..F[p])

LEMMA UnitsWithout ==
  ASSUME NEW S, NEW F \in [S -> Nat], NEW s \in SUBSET S, NEW p \in s
  PROVE  /\ Units(F, s) = Units(F, s \ {p}) \union Own(F, p)
         /\ Units(F, s \ {p}) \intersect Own(F, p) = {}
         /\ IsFiniteSet(Own(F, p)) /\ Cardinality(Own(F, p)) = F[p]
<1>0. F[p] \in Nat OBVIOUS
<1>1. Units(F, s) = Units(F, s \ {p}) \union ({p} \X (1..F[p]))
  <2>1. ASSUME NEW u \in s \X Nat, u[2] \in 1..F[u[1]]
        PROVE  u \in Units(F, s \ {p}) \union ({p} \X (1..F[p]))
    BY <2>1 DEF Units
  <2>2. ASSUME NEW u \in {p} \X (1..F[p]) PROVE u \in Units(F, s)
    BY <1>0 DEF Units
  <2>3. Units(F, s \ {p}) \subseteq Units(F, s)
    BY DEF Units
  <2> QED BY <2>1, <2>2, <2>3 DEF Units
<1>2. Units(F, s \ {p}) \intersect ({p} \X (1..F[p])) = {}
  BY DEF Units
<1>3. IsFiniteSet(1..F[p]) /\ Cardinality(1..F[p]) = F[p]
  <2>1. 1 \in Int /\ F[p] \in Int BY <1>0
  <2>2. IsFiniteSet(1..F[p]) /\ Cardinality(1..F[p]) = IF 1 > F[p] THEN 0 ELSE F[p] - 1 + 1
    BY <2>1, FS_Interval
  <2> QED BY <1>0, <2>2
<1>4. IsFiniteSet({p}) /\ Cardinality({p}) = 1
  BY FS_Singleton
<1>5. IsFiniteSet({p} \X (1..F[p])) /\ Cardinality({p} \X (1..F[p])) = 1 * F[p]
  BY <1>3, <1>4, FS_Product
<1>6. 1 * F[p] = F[p] BY <1>0
<1> QED BY <1>1, <1>2, <1>5, <1>6, Zenon DEF Own

LEMMA UnitsFinite ==
  ASSUME NEW S, IsFiniteSet(S), NEW F \in [S -> Nat], NEW s \in SUBSET S
  PROVE  IsFiniteSet(Units(F, s)) /\ Cardinality(Units(F, s)) \in Nat
<1> DEFINE wrong == {T \in SUBSET S : ~IsFiniteSet(Units(F, T))}
<1>1. wrong = {}
  <2> SUFFICES ASSUME wrong # {} PROVE FALSE
    OBVIOUS
  <2>1. PICK T \in wrong : \A U \in wrong : U \subseteq T => U = T
    <3>1. wrong \in SUBSET (SUBSET S) OBVIOUS
    <3> HIDE DEF wrong
    <3> QED BY <3>1, MinimalSubset
  <2>2. CASE T = {}
    <3>1. Units(F, T) = {} BY <2>2 DEF Units
    <3> QED BY <2>1, <3>1, FS_EmptySet
  <2>3. CASE T # {}
    <3>1. PICK p \in T : TRUE BY <2>3
    <3>2. T \ {p} \notin wrong BY <2>1, <3>1
    <3>3. IsFiniteSet(Units(F, T \ {p})) BY <2>1, <3>2
    <3>4. Units(F, T) = Units(F, T \ {p}) \union Own(F, p) /\ IsFiniteSet(Own(F, p))
      <4>1. T \in SUBSET S BY <2>1
      <4> QED BY <3>1, <4>1, UnitsWithout
    <3>5. IsFiniteSet(Units(F, T)) BY <3>3, <3>4, FS_Union
    <3> QED BY <2>1, <3>5
  <2> QED BY <2>2, <2>3
<1> QED BY <1>1, FS_CardinalityType

LEMMA UnitsOfOne ==
  ASSUME NEW S, IsFiniteSet(S), NEW F \in [S -> Nat], NEW s \in SUBSET S, NEW p \in s
  PROVE  Cardinality(Units(F, s)) = F[p] + Cardinality(Units(F, s \ {p}))
<1>0. /\ Units(F, s) = Units(F, s \ {p}) \union Own(F, p)
      /\ Units(F, s \ {p}) \intersect Own(F, p) = {}
      /\ IsFiniteSet(Own(F, p)) /\ Cardinality(Own(F, p)) = F[p]
  BY UnitsWithout
<1> DEFINE rest == Units(F, s \ {p})
           mine == Own(F, p)
<1>1. IsFiniteSet(rest) /\ Cardinality(rest) \in Nat
  <2>1. s \ {p} \in SUBSET S OBVIOUS
  <2> QED BY <2>1, UnitsFinite
<1>2. /\ Units(F, s) = rest \union mine /\ rest \intersect mine = {}
      /\ IsFiniteSet(mine) /\ Cardinality(mine) = F[p]
  BY <1>0
<1> HIDE DEF rest, mine
<1>3. Cardinality(rest \union mine) =
        Cardinality(rest) + Cardinality(mine) - Cardinality(rest \intersect mine)
  BY <1>1, <1>2, FS_Union
<1>4. Cardinality(rest \intersect mine) = 0 /\ F[p] \in Nat BY <1>2, FS_EmptySet
<1>5. Cardinality(Units(F, s)) = F[p] + Cardinality(rest)
  <2>1. Cardinality(Units(F, s)) = Cardinality(rest \union mine) BY <1>2
  <2> QED BY <1>1, <1>2, <1>3, <1>4, <2>1
<1> QED BY <1>5 DEF rest

\* One value changes: the sum changes by as much.
LEMMA UnitsChange ==
  ASSUME NEW S, IsFiniteSet(S), NEW F \in [S -> Nat], NEW G \in [S -> Nat], NEW p \in S,
         \A q \in S \ {p} : G[q] = F[q]
  PROVE  Cardinality(Units(G, S)) = Cardinality(Units(F, S)) - F[p] + G[p]
<1>1. Units(G, S \ {p}) = Units(F, S \ {p})
  BY DEF Units
<1>2. S \in SUBSET S /\ S \ {p} \in SUBSET S OBVIOUS
<1>3. /\ Cardinality(Units(F, S)) = F[p] + Cardinality(Units(F, S \ {p}))
      /\ Cardinality(Units(G, S)) = G[p] + Cardinality(Units(G, S \ {p}))
      /\ Cardinality(Units(F, S \ {p})) \in Nat
  BY <1>2, UnitsOfOne, UnitsFinite
<1> QED BY <1>1, <1>3

\* MapThenSumSet adds the elements one by one.
SumFold(S, F, h) ==
  [s \in SUBSET S |->
     IF s = {} THEN 0 ELSE F[CHOOSE x \in s : TRUE] + h[s \ {CHOOSE x \in s : TRUE}]]

LEMMA SumFoldExists ==
  ASSUME NEW S, IsFiniteSet(S), NEW F \in [S -> Nat] PROVE \E h : h = SumFold(S, F, h)
<1> DEFINE h == [s \in SUBSET S |-> Cardinality(Units(F, s))]
<1>1. h[{}] = 0
  <2>1. Units(F, {}) = {} BY DEF Units
  <2> QED BY <2>1, FS_EmptySet
<1>2. ASSUME NEW s \in SUBSET S, s # {}
      PROVE  h[s] = F[CHOOSE x \in s : TRUE] + h[s \ {CHOOSE x \in s : TRUE}]
  <2> DEFINE p == CHOOSE x \in s : TRUE
  <2>1. p \in s BY <1>2
  <2> HIDE DEF p
  <2>2. h[s] = F[p] + h[s \ {p}] BY <2>1, UnitsOfOne
  <2> QED BY <2>2 DEF p
<1> HIDE DEF h
<1>3. h = [s \in SUBSET S |-> h[s]] BY DEF h
<1>4. h = SumFold(S, F, h) BY <1>1, <1>2, <1>3 DEF SumFold
<1> QED BY <1>4

LEMMA SumFoldCounts ==
  ASSUME NEW S, IsFiniteSet(S), NEW F \in [S -> Nat], NEW h, h = SumFold(S, F, h)
  PROVE  h[S] = Cardinality(Units(F, S))
<1> DEFINE wrong == {T \in SUBSET S : h[T] # Cardinality(Units(F, T))}
<1>1. wrong = {}
  <2> SUFFICES ASSUME wrong # {} PROVE FALSE
    OBVIOUS
  <2>1. PICK T \in wrong : \A U \in wrong : U \subseteq T => U = T
    <3>1. wrong \in SUBSET (SUBSET S) OBVIOUS
    <3> HIDE DEF wrong
    <3> QED BY <3>1, MinimalSubset
  <2>2. CASE T = {}
    <3>1. Units(F, T) = {} BY <2>2 DEF Units
    <3>2. h[T] = 0 BY <2>2 DEF SumFold
    <3> QED BY <2>1, <3>1, <3>2, FS_EmptySet
  <2>3. CASE T # {}
    <3> DEFINE p == CHOOSE x \in T : TRUE
    <3>1. p \in T BY <2>3
    <3>2. h[T] = F[p] + h[T \ {p}] BY <2>1, <2>3 DEF SumFold
    <3> HIDE DEF p
    <3>3. T \ {p} \notin wrong BY <2>1, <3>1
    <3>4. h[T \ {p}] = Cardinality(Units(F, T \ {p})) BY <2>1, <3>3
    <3> QED BY <2>1, <3>1, <3>2, <3>4, UnitsOfOne
  <2> QED BY <2>2, <2>3
<1> QED BY <1>1

\* What each process holds for a minute and status, and all of them together.
Held(b) == [p \in Processes |-> HeldBy(p, b)]

HeldTypes == buffer \in [Processes -> Counts] /\ flight \in [Processes -> Counts]

LEMMA HeldByAllCounts ==
  HeldTypes => \A b \in Buckets : /\ Held(b) \in [Processes -> Nat]
                                      /\ HeldByAll(b) = Cardinality(Units(Held(b), Processes))
<1> SUFFICES ASSUME HeldTypes, NEW b \in Buckets
             PROVE  /\ Held(b) \in [Processes -> Nat]
                    /\ HeldByAll(b) = Cardinality(Units(Held(b), Processes))
  OBVIOUS
<1>1. Held(b) \in [Processes -> Nat]
  BY DEF HeldTypes, Counts, HeldBy, Held
<1>2. IsFiniteSet(Processes) BY BoundsAssumption
<1> DEFINE fold(h) == [s \in SUBSET Processes |->
             IF s = {} THEN 0
             ELSE HeldBy(CHOOSE x \in s : TRUE, b) + h[s \ {CHOOSE x \in s : TRUE}]]
           iter == CHOOSE h : h = fold(h)
<1>3. HeldByAll(b) = iter[Processes]
  BY Zenon DEF HeldByAll, MapThenSumSet, MapThenFoldSet
<1>4. ASSUME NEW h PROVE fold(h) = SumFold(Processes, Held(b), h)
  BY DEF SumFold, Held
<1> HIDE DEF fold
<1>5. \E h : h = fold(h)
  BY <1>1, <1>2, <1>4, SumFoldExists
<1>6. iter = fold(iter) BY <1>5
<1> HIDE DEF iter
<1>7. iter = SumFold(Processes, Held(b), iter) BY <1>4, <1>6
<1> QED BY <1>1, <1>2, <1>3, <1>7, SumFoldCounts

\* The same of the next state.
HeldByAllCounted ==
  \A b \in Buckets : /\ Held(b) \in [Processes -> Nat]
                     /\ HeldByAll(b) = Cardinality(Units(Held(b), Processes))

LEMMA HeldByAllCountsNext == HeldTypes' => HeldByAllCounted'
<1>1. HeldTypes => HeldByAllCounted
  BY HeldByAllCounts DEF HeldByAllCounted
<1> QED BY <1>1, PTL

\* What all hold is no less than what one does.
LEMMA OneOfAll ==
  ASSUME HeldTypes, NEW p \in Processes, NEW b \in Buckets
  PROVE  /\ HeldBy(p, b) \in Nat /\ HeldByAll(b) \in Nat /\ HeldBy(p, b) <= HeldByAll(b)
<1>1. /\ Held(b) \in [Processes -> Nat]
      /\ HeldByAll(b) = Cardinality(Units(Held(b), Processes))
  BY HeldByAllCounts
<1>2. Held(b)[p] = HeldBy(p, b) BY DEF Held
<1>3. IsFiniteSet(Processes) /\ Processes \in SUBSET Processes /\ Processes \ {p} \in SUBSET Processes
  BY BoundsAssumption
<1> DEFINE F == Held(b)
<1> HIDE DEF F
<1>4. F \in [Processes -> Nat] BY <1>1 DEF F
<1>5. /\ Cardinality(Units(F, Processes)) = F[p] + Cardinality(Units(F, Processes \ {p}))
      /\ Cardinality(Units(F, Processes \ {p})) \in Nat
  BY <1>3, <1>4, UnitsOfOne, UnitsFinite
<1>6. F[p] \in Nat BY <1>4
<1> QED BY <1>1, <1>2, <1>5, <1>6 DEF F

\* What all hold changes by as much as what one does.
LEMMA HeldChange ==
  ASSUME HeldTypes, HeldTypes', NEW p \in Processes, NEW b \in Buckets,
         \A q \in Processes \ {p} : buffer'[q] = buffer[q] /\ flight'[q] = flight[q]
  PROVE  /\ HeldByAll(b)' = HeldByAll(b) - HeldBy(p, b) + HeldBy(p, b)'
         /\ HeldBy(p, b)' \in Nat
<1>1. /\ Held(b) \in [Processes -> Nat]
      /\ HeldByAll(b) = Cardinality(Units(Held(b), Processes))
      /\ Held(b)' \in [Processes -> Nat]
      /\ HeldByAll(b)' = Cardinality(Units(Held(b)', Processes))
  BY HeldByAllCounts, HeldByAllCountsNext DEF HeldByAllCounted, Units
<1>2. Held(b)[p] = HeldBy(p, b) /\ Held(b)'[p] = HeldBy(p, b)'
  BY DEF Held
<1>3. \A q \in Processes \ {p} : Held(b)'[q] = Held(b)[q]
  BY DEF Held, HeldBy
<1> DEFINE F == Held(b)
           G == Held(b)'
<1> HIDE DEF F, G
<1>4. Cardinality(Units(G, Processes)) = Cardinality(Units(F, Processes)) - F[p] + G[p]
  <2>1. F \in [Processes -> Nat] /\ G \in [Processes -> Nat] /\ IsFiniteSet(Processes)
        /\ \A q \in Processes \ {p} : G[q] = F[q]
    BY <1>1, <1>3, BoundsAssumption DEF F, G
  <2> QED BY <2>1, UnitsChange
<1>5. G[p] \in Nat BY <1>1 DEF G
<1> QED BY <1>1, <1>2, <1>4, <1>5 DEF F, G

-----------------------------------------------------------------------------
(* The flushes.                                                            *)

\* No more was counted twice than is in the table, and a process that is not
\* flushing has handed nothing over.
MetricsInv ==
  /\ MetricsTypeOK
  /\ CountsAddUp
  /\ \A b \in Buckets : repeated[b] <= table[b]
  /\ \A p \in Processes : metricsPc[p] = "idle" => flight[p] = Nothing

LEMMA NothingType == Nothing \in Counts /\ \A b \in Buckets : Nothing[b] = 0
BY DEF Nothing, Counts

LEMMA PlusType ==
  ASSUME NEW f \in Counts, NEW g \in Counts
  PROVE  Plus(f, g) \in Counts /\ \A b \in Buckets : Plus(f, g)[b] = f[b] + g[b]
BY DEF Plus, Counts

\* What one process holds after a step that leaves the others' as it is, and the
\* other sums of the same minute and status.
Balanced(p, b) ==
  table'[b] - table[b] + HeldBy(p, b)' - HeldBy(p, b)
    = counted'[b] - counted[b] + repeated'[b] - repeated[b]

\* A step of one process that keeps the balance of each minute and status.
LEMMA BalancedStep ==
  ASSUME MetricsInv, MetricsTypeOK', NEW p \in Processes,
         \A q \in Processes \ {p} :
           buffer'[q] = buffer[q] /\ flight'[q] = flight[q] /\ metricsPc'[q] = metricsPc[q],
         \A b \in Buckets : Balanced(p, b) /\ repeated'[b] <= table'[b],
         metricsPc'[p] = "idle" => flight'[p] = Nothing
  PROVE  MetricsInv'
<1>1. HeldTypes /\ HeldTypes'
  BY DEF MetricsInv, MetricsTypeOK, HeldTypes
<1>2. ASSUME NEW b \in Buckets PROVE table'[b] + HeldByAll(b)' = counted'[b] + repeated'[b]
  <2>1. /\ HeldByAll(b)' = HeldByAll(b) - HeldBy(p, b) + HeldBy(p, b)'
        /\ HeldBy(p, b)' \in Nat
    BY <1>1, HeldChange
  <2>2. HeldBy(p, b) \in Nat /\ HeldByAll(b) \in Nat
    BY <1>1, OneOfAll
  <2>3. table[b] + HeldByAll(b) = counted[b] + repeated[b]
    BY DEF MetricsInv, CountsAddUp
  <2>4. /\ table[b] \in Nat /\ counted[b] \in Nat /\ repeated[b] \in Nat
        /\ table'[b] \in Nat /\ counted'[b] \in Nat /\ repeated'[b] \in Nat
    BY DEF MetricsInv, MetricsTypeOK, Counts
  <2>5. table'[b] - table[b] + HeldBy(p, b)' - HeldBy(p, b)
          = counted'[b] - counted[b] + repeated'[b] - repeated[b]
    BY DEF Balanced
  <2> DEFINE before == HeldBy(p, b)
             after == HeldBy(p, b)'
             all == HeldByAll(b)
             allAfter == HeldByAll(b)'
  <2>6. /\ allAfter = all - before + after
        /\ after \in Nat /\ before \in Nat /\ all \in Nat
        /\ table[b] + all = counted[b] + repeated[b]
        /\ table'[b] - table[b] + after - before = counted'[b] - counted[b] + repeated'[b] - repeated[b]
    BY <2>1, <2>2, <2>3, <2>5
  <2> HIDE DEF before, after, all, allAfter
  <2>7. table'[b] + allAfter = counted'[b] + repeated'[b]
    BY <2>4, <2>6
  <2> QED BY <2>7 DEF allAfter
<1>3. CountsAddUp' BY <1>2 DEF CountsAddUp
<1>4. \A q \in Processes : metricsPc'[q] = "idle" => flight'[q] = Nothing
  BY DEF MetricsInv
<1>5. Nothing' = Nothing BY DEF Nothing
<1> QED BY <1>3, <1>4, <1>5 DEF MetricsInv

\* A step of one process, told by what it makes of its own counts.
LEMMA OneProcess ==
  ASSUME NEW p \in Processes, NEW f \in [Processes -> Counts], NEW g \in Counts
  PROVE  /\ [f EXCEPT ![p] = g] \in [Processes -> Counts]
         /\ [f EXCEPT ![p] = g][p] = g
         /\ \A q \in Processes \ {p} : [f EXCEPT ![p] = g][q] = f[q]
OBVIOUS

LEMMA LandType ==
  ASSUME MetricsTypeOK, NEW p \in Processes, Land(p)
  PROVE  /\ flight' \in [Processes -> Counts] /\ flight'[p] = Nothing
         /\ metricsPc' \in [Processes -> {"idle", "upsertMinutes"}] /\ metricsPc'[p] = "idle"
         /\ \A q \in Processes \ {p} : flight'[q] = flight[q] /\ metricsPc'[q] = metricsPc[q]
BY NothingType DEF MetricsTypeOK, Land

LEMMA RecordStep ==
  ASSUME MetricsInv, NEW p \in Processes, NEW s \in HttpStatuses, Record(p, s)
  PROVE  MetricsInv'
<1> DEFINE here == <<metricsNow, s>>
           mine == [buffer[p] EXCEPT ![here] = buffer[p][here] + 1]
<1>0. MetricsTypeOK /\ here \in Buckets /\ buffer[p] \in Counts
  BY DEF MetricsInv, MetricsTypeOK, Buckets
<1>1. /\ buffer' = [buffer EXCEPT ![p] = mine]
      /\ counted' = [counted EXCEPT ![here] = counted[here] + 1]
      /\ UNCHANGED <<metricsNow, flight, metricsPc, table, repeated, flushed>>
  BY DEF Record
<1> HIDE DEF here
<1>2. mine \in Counts /\ counted' \in Counts
  BY <1>0, <1>1 DEF Counts, MetricsTypeOK
<1>3. /\ mine[here] = buffer[p][here] + 1 /\ counted'[here] = counted[here] + 1
      /\ \A b \in Buckets \ {here} : mine[b] = buffer[p][b] /\ counted'[b] = counted[b]
  BY <1>0, <1>1 DEF Counts, MetricsTypeOK
<1> HIDE DEF mine
<1>4. /\ buffer' \in [Processes -> Counts] /\ buffer'[p] = mine
      /\ \A q \in Processes \ {p} : buffer'[q] = buffer[q]
  BY <1>0, <1>1, <1>2, OneProcess DEF MetricsTypeOK
<1>5. MetricsTypeOK'
  BY <1>0, <1>1, <1>2, <1>4 DEF MetricsTypeOK
<1>6. ASSUME NEW b \in Buckets PROVE Balanced(p, b) /\ repeated'[b] <= table'[b]
  <2>1. /\ table[b] \in Nat /\ counted[b] \in Nat /\ repeated[b] \in Nat
        /\ buffer[p][b] \in Nat /\ flight[p][b] \in Nat
    BY <1>0 DEF MetricsTypeOK, Counts
  <2>2. table'[b] = table[b] /\ repeated'[b] = repeated[b] /\ flight'[p][b] = flight[p][b]
    BY <1>1
  <2>3. repeated[b] <= table[b] BY DEF MetricsInv
  <2>4. HeldBy(p, b) = buffer[p][b] + flight[p][b] /\ HeldBy(p, b)' = mine[b] + flight[p][b]
    BY <1>4, <2>2 DEF HeldBy
  <2>5. CASE b = here BY <1>3, <2>1, <2>2, <2>3, <2>4, <2>5 DEF Balanced
  <2>6. CASE b # here BY <1>3, <2>1, <2>2, <2>3, <2>4, <2>6 DEF Balanced
  <2> QED BY <2>5, <2>6
<1>7. metricsPc'[p] = "idle" => flight'[p] = Nothing
  BY <1>1 DEF MetricsInv
<1> QED BY <1>1, <1>4, <1>5, <1>6, <1>7, BalancedStep

LEMMA DrainStep ==
  ASSUME MetricsInv, NEW p \in Processes, Drain(p) PROVE MetricsInv'
<1>0. /\ MetricsTypeOK /\ buffer[p] \in Counts /\ flight[p] = Nothing /\ Nothing \in Counts
      /\ UNCHANGED <<metricsNow, table, counted, repeated>>
  BY NothingType DEF MetricsInv, MetricsTypeOK, Drain
<1>1. \A b \in Buckets : repeated'[b] <= table'[b]
  BY <1>0 DEF MetricsInv
<1>2. CASE /\ flushed' = [flushed EXCEPT ![p] = metricsNow]
           /\ UNCHANGED <<buffer, flight, metricsPc>>
  <2>1. MetricsTypeOK'
    BY <1>0, <1>2 DEF MetricsTypeOK
  <2>2. \A b \in Buckets : Balanced(p, b)
    BY <1>0, <1>2 DEF Balanced, HeldBy, MetricsTypeOK, Counts
  <2> QED BY <1>0, <1>1, <1>2, <2>1, <2>2, BalancedStep
<1>3. CASE /\ flight' = [flight EXCEPT ![p] = buffer[p]]
           /\ buffer' = [buffer EXCEPT ![p] = Nothing]
           /\ metricsPc' = [metricsPc EXCEPT ![p] = "upsertMinutes"]
           /\ UNCHANGED flushed
  <2>1. /\ flight' \in [Processes -> Counts] /\ flight'[p] = buffer[p]
        /\ buffer' \in [Processes -> Counts] /\ buffer'[p] = Nothing
        /\ metricsPc' \in [Processes -> {"idle", "upsertMinutes"}] /\ metricsPc'[p] = "upsertMinutes"
        /\ \A q \in Processes \ {p} :
             buffer'[q] = buffer[q] /\ flight'[q] = flight[q] /\ metricsPc'[q] = metricsPc[q]
    BY <1>0, <1>3, OneProcess DEF MetricsTypeOK
  <2>2. MetricsTypeOK'
    BY <1>0, <1>3, <2>1 DEF MetricsTypeOK
  <2>3. ASSUME NEW b \in Buckets PROVE Balanced(p, b)
    <3>1. Nothing[b] = 0 /\ buffer[p][b] \in Nat BY <1>0, NothingType DEF Counts
    <3>2. HeldBy(p, b) = buffer[p][b] + 0 /\ HeldBy(p, b)' = 0 + buffer[p][b]
      BY <1>0, <2>1, <3>1 DEF HeldBy
    <3>3. table[b] \in Nat /\ counted[b] \in Nat /\ repeated[b] \in Nat
      BY <1>0 DEF MetricsTypeOK, Counts
    <3> QED BY <1>0, <3>1, <3>2, <3>3 DEF Balanced
  <2> QED BY <1>0, <1>1, <2>1, <2>2, <2>3, BalancedStep
<1> QED BY <1>2, <1>3 DEF Drain

LEMMA UpsertMinutesStep ==
  ASSUME MetricsInv, NEW p \in Processes, UpsertMinutes(p) PROVE MetricsInv'
<1>0. /\ MetricsTypeOK /\ flight[p] \in Counts /\ table \in Counts
      /\ table' = Plus(table, flight[p]) /\ Land(p) /\ flushed' = [flushed EXCEPT ![p] = metricsNow]
      /\ UNCHANGED <<metricsNow, buffer, counted, repeated>>
  BY DEF MetricsInv, MetricsTypeOK, UpsertMinutes, Upserted
<1>1. table' \in Counts /\ \A b \in Buckets : table'[b] = table[b] + flight[p][b]
  BY <1>0, PlusType
<1>2. /\ flight' \in [Processes -> Counts] /\ flight'[p] = Nothing
      /\ metricsPc' \in [Processes -> {"idle", "upsertMinutes"}] /\ metricsPc'[p] = "idle"
      /\ \A q \in Processes \ {p} : flight'[q] = flight[q] /\ metricsPc'[q] = metricsPc[q]
  BY <1>0, LandType
<1>3. MetricsTypeOK'
  BY <1>0, <1>1, <1>2 DEF MetricsTypeOK
<1>4. ASSUME NEW b \in Buckets PROVE Balanced(p, b) /\ repeated'[b] <= table'[b]
  <2>1. /\ table[b] \in Nat /\ counted[b] \in Nat /\ repeated[b] \in Nat
        /\ buffer[p][b] \in Nat /\ flight[p][b] \in Nat /\ Nothing[b] = 0
    BY <1>0, NothingType DEF MetricsTypeOK, Counts
  <2>2. repeated[b] <= table[b] BY DEF MetricsInv
  <2>3. HeldBy(p, b) = buffer[p][b] + flight[p][b] /\ HeldBy(p, b)' = buffer[p][b] + 0
    BY <1>0, <1>2, <2>1 DEF HeldBy
  <2> QED BY <1>0, <1>1, <2>1, <2>2, <2>3 DEF Balanced
<1> QED BY <1>0, <1>2, <1>3, <1>4, BalancedStep

\* What was handed over is added back to what was counted meanwhile.
LEMMA RestoredType ==
  ASSUME MetricsTypeOK, NEW p \in Processes, buffer' = Restored(p)
  PROVE  /\ buffer' \in [Processes -> Counts]
         /\ \A b \in Buckets : buffer'[p][b] = buffer[p][b] + flight[p][b]
         /\ \A q \in Processes \ {p} : buffer'[q] = buffer[q]
<1>1. buffer[p] \in Counts /\ flight[p] \in Counts
  BY DEF MetricsTypeOK
<1>2. /\ Plus(buffer[p], flight[p]) \in Counts
      /\ \A b \in Buckets : Plus(buffer[p], flight[p])[b] = buffer[p][b] + flight[p][b]
  BY <1>1, PlusType
<1> QED BY <1>2, OneProcess DEF Restored, MetricsTypeOK

LEMMA FailToUpsertStep ==
  ASSUME MetricsInv, NEW p \in Processes, FailToUpsert(p) PROVE MetricsInv'
<1>0. /\ MetricsTypeOK /\ Land(p) /\ buffer' = Restored(p)
      /\ UNCHANGED <<metricsNow, table, counted, repeated, flushed>>
  BY DEF MetricsInv, FailToUpsert
<1>1. /\ buffer' \in [Processes -> Counts]
      /\ \A b \in Buckets : buffer'[p][b] = buffer[p][b] + flight[p][b]
      /\ \A q \in Processes \ {p} : buffer'[q] = buffer[q]
  BY <1>0, RestoredType
<1>2. /\ flight' \in [Processes -> Counts] /\ flight'[p] = Nothing
      /\ metricsPc' \in [Processes -> {"idle", "upsertMinutes"}] /\ metricsPc'[p] = "idle"
      /\ \A q \in Processes \ {p} : flight'[q] = flight[q] /\ metricsPc'[q] = metricsPc[q]
  BY <1>0, LandType
<1>3. MetricsTypeOK'
  BY <1>0, <1>1, <1>2 DEF MetricsTypeOK
<1>4. ASSUME NEW b \in Buckets PROVE Balanced(p, b) /\ repeated'[b] <= table'[b]
  <2>1. /\ table[b] \in Nat /\ counted[b] \in Nat /\ repeated[b] \in Nat
        /\ buffer[p][b] \in Nat /\ flight[p][b] \in Nat /\ Nothing[b] = 0
    BY <1>0, NothingType DEF MetricsTypeOK, Counts
  <2>2. repeated[b] <= table[b] BY DEF MetricsInv
  <2>3. HeldBy(p, b) = buffer[p][b] + flight[p][b] /\ HeldBy(p, b)' = buffer[p][b] + flight[p][b] + 0
    BY <1>1, <1>2, <2>1 DEF HeldBy
  <2> QED BY <1>0, <2>1, <2>2, <2>3 DEF Balanced
<1> QED BY <1>1, <1>2, <1>3, <1>4, BalancedStep

LEMMA LoseAnswerStep ==
  ASSUME MetricsInv, NEW p \in Processes, LoseAnswer(p) PROVE MetricsInv'
<1>0. /\ MetricsTypeOK /\ Land(p) /\ buffer' = Restored(p)
      /\ flight[p] \in Counts /\ table \in Counts /\ repeated \in Counts
      /\ table' = Plus(table, flight[p]) /\ repeated' = Plus(repeated, flight[p])
      /\ UNCHANGED <<metricsNow, counted, flushed>>
  BY DEF MetricsInv, MetricsTypeOK, LoseAnswer, Upserted
<1>1. /\ buffer' \in [Processes -> Counts]
      /\ \A b \in Buckets : buffer'[p][b] = buffer[p][b] + flight[p][b]
      /\ \A q \in Processes \ {p} : buffer'[q] = buffer[q]
  BY <1>0, RestoredType
<1>2. /\ flight' \in [Processes -> Counts] /\ flight'[p] = Nothing
      /\ metricsPc' \in [Processes -> {"idle", "upsertMinutes"}] /\ metricsPc'[p] = "idle"
      /\ \A q \in Processes \ {p} : flight'[q] = flight[q] /\ metricsPc'[q] = metricsPc[q]
  BY <1>0, LandType
<1>3. /\ table' \in Counts /\ repeated' \in Counts
      /\ \A b \in Buckets : table'[b] = table[b] + flight[p][b]
                            /\ repeated'[b] = repeated[b] + flight[p][b]
  BY <1>0, PlusType
<1>4. MetricsTypeOK'
  BY <1>0, <1>1, <1>2, <1>3 DEF MetricsTypeOK
<1>5. ASSUME NEW b \in Buckets PROVE Balanced(p, b) /\ repeated'[b] <= table'[b]
  <2>1. /\ table[b] \in Nat /\ counted[b] \in Nat /\ repeated[b] \in Nat
        /\ buffer[p][b] \in Nat /\ flight[p][b] \in Nat /\ Nothing[b] = 0
    BY <1>0, NothingType DEF MetricsTypeOK, Counts
  <2>2. repeated[b] <= table[b] BY DEF MetricsInv
  <2>3. HeldBy(p, b) = buffer[p][b] + flight[p][b] /\ HeldBy(p, b)' = buffer[p][b] + flight[p][b] + 0
    BY <1>1, <1>2, <2>1 DEF HeldBy
  <2> QED BY <1>0, <1>3, <2>1, <2>2, <2>3 DEF Balanced
<1> QED BY <1>1, <1>2, <1>4, <1>5, BalancedStep

\* A process loses no more than was counted, since what was counted twice is in
\* the table.
LEMMA CrashStep ==
  ASSUME MetricsInv, NEW p \in Processes, Crash(p) PROVE MetricsInv'
<1>0. /\ MetricsTypeOK /\ Land(p) /\ buffer' = [buffer EXCEPT ![p] = Nothing]
      /\ counted' = [b \in Buckets |-> counted[b] - (buffer[p][b] + flight[p][b])]
      /\ UNCHANGED <<metricsNow, table, repeated, flushed>> /\ Nothing \in Counts
  BY NothingType DEF MetricsInv, Crash, Less, Plus
<1>1. /\ buffer' \in [Processes -> Counts] /\ buffer'[p] = Nothing
      /\ \A q \in Processes \ {p} : buffer'[q] = buffer[q]
  BY <1>0, OneProcess DEF MetricsTypeOK
<1>2. /\ flight' \in [Processes -> Counts] /\ flight'[p] = Nothing
      /\ metricsPc' \in [Processes -> {"idle", "upsertMinutes"}] /\ metricsPc'[p] = "idle"
      /\ \A q \in Processes \ {p} : flight'[q] = flight[q] /\ metricsPc'[q] = metricsPc[q]
  BY <1>0, LandType
<1>3. ASSUME NEW b \in Buckets
      PROVE  /\ counted'[b] \in Nat /\ Balanced(p, b) /\ repeated'[b] <= table'[b]
  <2>1. /\ table[b] \in Nat /\ counted[b] \in Nat /\ repeated[b] \in Nat
        /\ buffer[p][b] \in Nat /\ flight[p][b] \in Nat /\ Nothing[b] = 0
    BY <1>0, NothingType DEF MetricsTypeOK, Counts
  <2>2. repeated[b] <= table[b] /\ table[b] + HeldByAll(b) = counted[b] + repeated[b]
    BY DEF MetricsInv, CountsAddUp
  <2>3. HeldBy(p, b) = buffer[p][b] + flight[p][b] /\ HeldBy(p, b)' = 0 + 0
    BY <1>1, <1>2, <2>1 DEF HeldBy
  <2>4. HeldByAll(b) \in Nat /\ HeldBy(p, b) <= HeldByAll(b)
    BY <1>0, OneOfAll DEF HeldTypes, MetricsTypeOK
  <2>5. counted'[b] = counted[b] - (buffer[p][b] + flight[p][b])
    BY <1>0
  <2>6. table'[b] = table[b] /\ repeated'[b] = repeated[b]
    BY <1>0
  <2> QED BY <2>1, <2>2, <2>3, <2>4, <2>5, <2>6 DEF Balanced
<1>4. counted' \in Counts
  BY <1>0, <1>3 DEF Counts
<1>5. MetricsTypeOK'
  BY <1>0, <1>1, <1>2, <1>4 DEF MetricsTypeOK
<1> QED BY <1>1, <1>2, <1>3, <1>5, BalancedStep

\* Nothing that a process holds changes.
LEMMA HeldStays ==
  ASSUME MetricsTypeOK, UNCHANGED <<buffer, flight>>, NEW b \in Buckets
  PROVE  HeldByAll(b)' = HeldByAll(b) /\ HeldByAll(b) \in Nat
<1>1. HeldTypes /\ HeldTypes' BY DEF MetricsTypeOK, HeldTypes
<1>2. /\ HeldByAll(b) = Cardinality(Units(Held(b), Processes))
      /\ Held(b) \in [Processes -> Nat]
      /\ HeldByAll(b)' = Cardinality(Units(Held(b)', Processes))
  BY <1>1, HeldByAllCounts, HeldByAllCountsNext DEF HeldByAllCounted, Units
<1>3. Held(b)' = Held(b) BY DEF Held, HeldBy
<1>4. HeldByAll(b) \in Nat
  <2>1. Processes \in SUBSET Processes /\ IsFiniteSet(Processes) BY BoundsAssumption
  <2> QED BY <1>2, <2>1, UnitsFinite
<1> QED BY <1>2, <1>3, <1>4

LEMMA RetainStep ==
  ASSUME MetricsInv, Retain PROVE MetricsInv'
<1>0. /\ MetricsTypeOK
      /\ table' = [b \in Buckets |-> IF Expired(b) THEN 0 ELSE table[b]]
      /\ counted' = [b \in Buckets |->
                       IF Expired(b) THEN counted[b] + repeated[b] - table[b] ELSE counted[b]]
      /\ repeated' = [b \in Buckets |-> IF Expired(b) THEN 0 ELSE repeated[b]]
      /\ UNCHANGED <<metricsNow, buffer, flight, metricsPc, flushed>>
  BY DEF MetricsInv, Retain
<1>1. ASSUME NEW b \in Buckets
      PROVE  /\ table'[b] \in Nat /\ counted'[b] \in Nat /\ repeated'[b] \in Nat
             /\ repeated'[b] <= table'[b]
             /\ table'[b] + HeldByAll(b)' = counted'[b] + repeated'[b]
  <2>1. table[b] \in Nat /\ counted[b] \in Nat /\ repeated[b] \in Nat
    BY <1>0 DEF MetricsTypeOK, Counts
  <2>2. HeldByAll(b)' = HeldByAll(b) /\ HeldByAll(b) \in Nat
    BY <1>0, HeldStays
  <2>3. table[b] + HeldByAll(b) = counted[b] + repeated[b] /\ repeated[b] <= table[b]
    BY DEF MetricsInv, CountsAddUp
  <2>4. CASE Expired(b)
    <3>1. table'[b] = 0 /\ repeated'[b] = 0 /\ counted'[b] = counted[b] + repeated[b] - table[b]
      BY <1>0, <2>4
    <3> QED BY <2>1, <2>2, <2>3, <3>1
  <2>5. CASE ~Expired(b)
    <3>1. table'[b] = table[b] /\ repeated'[b] = repeated[b] /\ counted'[b] = counted[b]
      BY <1>0, <2>5
    <3> QED BY <2>1, <2>2, <2>3, <3>1
  <2> QED BY <2>4, <2>5
<1>2. table' \in Counts /\ counted' \in Counts /\ repeated' \in Counts
  BY <1>0, <1>1 DEF Counts
<1>3. MetricsTypeOK'
  BY <1>0, <1>2 DEF MetricsTypeOK
<1>4. CountsAddUp' BY <1>1 DEF CountsAddUp
<1>5. \A p \in Processes : metricsPc'[p] = "idle" => flight'[p] = Nothing
  BY <1>0 DEF MetricsInv
<1>6. Nothing' = Nothing BY DEF Nothing
<1> QED BY <1>1, <1>3, <1>4, <1>5, <1>6 DEF MetricsInv

LEMMA MetricsTickStep ==
  ASSUME MetricsInv, MetricsTick \/ UNCHANGED metricsVars PROVE MetricsInv'
<1>0. /\ MetricsTypeOK /\ UNCHANGED <<buffer, flight, metricsPc, table, counted, repeated, flushed>>
  BY DEF MetricsInv, MetricsTick, metricsVars
<1>1. metricsNow' \in Minutes
  BY <1>0, BoundsAssumption DEF MetricsTick, metricsVars, MetricsTypeOK, Minutes
<1>2. MetricsTypeOK'
  BY <1>0, <1>1 DEF MetricsTypeOK
<1>3. ASSUME NEW b \in Buckets PROVE table'[b] + HeldByAll(b)' = counted'[b] + repeated'[b]
  <2>1. HeldByAll(b)' = HeldByAll(b) BY <1>0, HeldStays
  <2> QED BY <1>0, <2>1 DEF MetricsInv, CountsAddUp
<1>4. CountsAddUp' BY <1>3 DEF CountsAddUp
<1>5. Nothing' = Nothing BY DEF Nothing
<1> QED BY <1>0, <1>2, <1>4, <1>5 DEF MetricsInv

LEMMA MetricsInvInit == MetricsInit => MetricsInv
<1> SUFFICES ASSUME MetricsInit PROVE MetricsInv
  OBVIOUS
<1>1. MetricsTypeOK
  BY NothingType, BoundsAssumption DEF MetricsInit, MetricsTypeOK, Minutes
<1>2. ASSUME NEW b \in Buckets PROVE table[b] + HeldByAll(b) = counted[b] + repeated[b]
  <2>1. HeldByAll(b) = Cardinality(Units(Held(b), Processes))
    BY <1>1, HeldByAllCounts DEF MetricsTypeOK, HeldTypes
  <2>2. \A p \in Processes : Held(b)[p] = 0
    <3>1. ASSUME NEW p \in Processes PROVE HeldBy(p, b) = 0
      <4>1. buffer[p][b] = 0 /\ flight[p][b] = 0 BY NothingType DEF MetricsInit
      <4> QED BY <4>1 DEF HeldBy
    <3> QED BY <3>1 DEF Held
  <2>3. Units(Held(b), Processes) = {} BY <2>2 DEF Units
  <2>4. HeldByAll(b) = 0 BY <2>1, <2>3, FS_EmptySet
  <2>5. table[b] = 0 /\ counted[b] = 0 /\ repeated[b] = 0
    BY NothingType DEF MetricsInit
  <2> QED BY <2>4, <2>5
<1>3. CountsAddUp BY <1>2 DEF CountsAddUp
<1>4. \A b \in Buckets : repeated[b] <= table[b]
  BY NothingType DEF MetricsInit
<1> QED BY <1>1, <1>3, <1>4 DEF MetricsInit, MetricsInv

LEMMA MetricsInvStep == MetricsInv /\ [MetricsNext]_metricsVars => MetricsInv'
<1> SUFFICES ASSUME MetricsInv, [MetricsNext]_metricsVars PROVE MetricsInv'
  OBVIOUS
<1>1. CASE MetricsTick \/ UNCHANGED metricsVars BY <1>1, MetricsTickStep
<1>2. CASE Retain BY <1>2, RetainStep
<1>3. ASSUME NEW p \in Processes, NEW s \in HttpStatuses, Record(p, s) PROVE MetricsInv'
  BY <1>3, RecordStep
<1>4. ASSUME NEW p \in Processes,
             Drain(p) \/ UpsertMinutes(p) \/ FailToUpsert(p) \/ LoseAnswer(p) \/ Crash(p)
      PROVE  MetricsInv'
  BY <1>4, DrainStep, UpsertMinutesStep, FailToUpsertStep, LoseAnswerStep, CrashStep
<1> QED BY <1>1, <1>2, <1>3, <1>4 DEF MetricsNext

\* The invariant holds, for any processes, responses and failures.
THEOREM MetricsInvariance == MetricsSpec => []MetricsInv
BY MetricsInvInit, MetricsInvStep, PTL DEF MetricsSpec

\* Buffers, batches and the table of minutes have the declared form.
THEOREM MetricsTypeCorrect == MetricsSpec => []MetricsTypeOK
<1>1. MetricsInv => MetricsTypeOK BY DEF MetricsInv
<1> QED BY <1>1, MetricsInvariance, PTL

\* No response is lost but with its process, nor counted twice but by a commit
\* whose answer was lost (SecurityHttpMetricsBuffer, the upserts of the minutes).
THEOREM CountsAlwaysAddUp == MetricsSpec => []CountsAddUp
<1>1. MetricsInv => CountsAddUp BY DEF MetricsInv
<1> QED BY <1>1, MetricsInvariance, PTL

-----------------------------------------------------------------------------
(* Ranking.  Rows in a total order, each at the place of those ahead of it. *)

UserRows == [id : Nat, xp : Nat, createdAt : Nat]

\* A finite set of rows, one for each id.
IsTable(R) == R \subseteq UserRows /\ IsFiniteSet(R) /\ \A a, b \in R : a.id = b.id => a = b

RowsAhead(R, r) == {s \in R : Comes(s, r)}
CountAhead(R, r) == Cardinality(RowsAhead(R, r))

\* Rows are compared by their experience, then by their age, then by their ids.
LEMMA ComesOrders ==
  ASSUME NEW a \in UserRows, NEW b \in UserRows, NEW c \in UserRows
  PROVE  /\ ~Comes(a, a)
         /\ Comes(a, b) /\ Comes(b, c) => Comes(a, c)
         /\ a.id # b.id => Comes(a, b) \/ Comes(b, a)
<1>1. \A r \in UserRows : r.id \in Nat /\ r.xp \in Nat /\ r.createdAt \in Nat
  BY DEF UserRows
<1> QED BY <1>1 DEF Comes

\* Who comes later has more of them ahead; nobody has all of them.
LEMMA LaterHasMoreAhead ==
  ASSUME NEW R, IsTable(R)
  PROVE  /\ \A a \in R : /\ CountAhead(R, a) \in Nat /\ Cardinality(R) \in Nat
                         /\ CountAhead(R, a) < Cardinality(R)
         /\ \A a, b \in R : Comes(a, b) => CountAhead(R, a) < CountAhead(R, b)
<1>1. IsFiniteSet(R) /\ Cardinality(R) \in Nat /\ \A r \in R : r \in UserRows
  BY FS_CardinalityType DEF IsTable
<1>2. ASSUME NEW a \in R
      PROVE  /\ IsFiniteSet(RowsAhead(R, a)) /\ RowsAhead(R, a) \subseteq R /\ a \notin RowsAhead(R, a)
             /\ CountAhead(R, a) \in Nat
             /\ IsFiniteSet(RowsAhead(R, a) \union {a})
             /\ Cardinality(RowsAhead(R, a) \union {a}) = CountAhead(R, a) + 1
  <2>1. RowsAhead(R, a) \subseteq R /\ a \notin RowsAhead(R, a)
    BY <1>1, ComesOrders DEF RowsAhead
  <2>2. IsFiniteSet(RowsAhead(R, a)) /\ CountAhead(R, a) \in Nat
    BY <1>1, <2>1, FS_Subset, FS_CardinalityType DEF CountAhead
  <2> QED BY <2>1, <2>2, FS_AddElement DEF CountAhead
<1>3. ASSUME NEW a \in R PROVE CountAhead(R, a) < Cardinality(R)
  <2>1. RowsAhead(R, a) \union {a} \subseteq R
    BY <1>2
  <2>2. Cardinality(RowsAhead(R, a) \union {a}) <= Cardinality(R)
    BY <1>1, <2>1, FS_Subset
  <2> QED BY <1>1, <1>2, <2>2
<1>4. ASSUME NEW a \in R, NEW b \in R, Comes(a, b) PROVE CountAhead(R, a) < CountAhead(R, b)
  <2>1. RowsAhead(R, a) \union {a} \subseteq RowsAhead(R, b)
    <3>1. \A s \in R : Comes(s, a) => Comes(s, b)
      BY <1>1, <1>4, ComesOrders
    <3>2. RowsAhead(R, a) \subseteq RowsAhead(R, b)
      BY <3>1 DEF RowsAhead
    <3>3. a \in RowsAhead(R, b)
      BY <1>4 DEF RowsAhead
    <3> QED BY <3>2, <3>3
  <2>2. Cardinality(RowsAhead(R, a) \union {a}) <= CountAhead(R, b)
    BY <1>2, <2>1, FS_Subset DEF CountAhead
  <2>3. /\ Cardinality(RowsAhead(R, a) \union {a}) = CountAhead(R, a) + 1
        /\ CountAhead(R, a) \in Nat /\ CountAhead(R, b) \in Nat
    BY <1>2
  <2> QED BY <2>2, <2>3
<1> QED BY <1>1, <1>2, <1>3, <1>4

\* No two rows have as many ahead.
LEMMA PlacesDiffer ==
  ASSUME NEW R, IsTable(R), NEW a \in R, NEW b \in R, CountAhead(R, a) = CountAhead(R, b)
  PROVE  a = b
<1>1. ~Comes(a, b) /\ ~Comes(b, a)
  BY LaterHasMoreAhead
<1>2. a \in UserRows /\ b \in UserRows
  BY DEF IsTable
<1>3. a.id = b.id
  BY <1>1, <1>2, ComesOrders
<1> QED BY <1>3 DEF IsTable

\* Of the rows of a table, one has each number of rows ahead.
LEMMA EveryPlaceHasARow ==
  ASSUME NEW R, IsTable(R), NEW n \in 1 .. Cardinality(R)
  PROVE  \E r \in R : CountAhead(R, r) = n - 1
<1>0. IsFiniteSet(R) /\ Cardinality(R) \in Nat
  BY FS_CardinalityType DEF IsTable
<1> DEFINE N == Cardinality(R)
           At == [r \in R |-> CountAhead(R, r) + 1]
<1>1. \A r \in R : CountAhead(R, r) \in Nat /\ CountAhead(R, r) < N
  BY LaterHasMoreAhead
<1>2. N \in Nat /\ n \in 1 .. N
  BY <1>0
<1> HIDE DEF N
<1>3. At \in [R -> 1 .. N]
  BY <1>1, <1>2
<1>4. At \in Injection(R, 1 .. N)
  <2> SUFFICES ASSUME NEW a \in R, NEW b \in R, At[a] = At[b] PROVE a = b
    BY <1>3 DEF Injection, IsInjective
  <2>1. CountAhead(R, a) = CountAhead(R, b)
    BY <1>1
  <2> QED BY <2>1, PlacesDiffer
<1>5. IsFiniteSet(1 .. N) /\ Cardinality(1 .. N) = N
  BY <1>2, FS_Interval
<1>6. At \in Surjection(R, 1 .. N)
  BY <1>0, <1>4, <1>5, FS_Injection DEF N
<1>7. PICK r \in R : At[r] = n
  BY <1>2, <1>6 DEF Surjection
<1> QED BY <1>1, <1>2, <1>7

\* A sorted table has each of its rows behind those that come before it.
LEMMA SortedTable ==
  ASSUME NEW R, IsTable(R)
  PROVE  /\ Sorted(R) \in Seq(R) /\ Len(Sorted(R)) = Cardinality(R) /\ Cardinality(R) \in Nat
         /\ \A i \in 1 .. Cardinality(R) : Sorted(R)[i] \in R /\ CountAhead(R, Sorted(R)[i]) = i - 1
         /\ \A r \in R : CountAhead(R, r) + 1 \in 1 .. Cardinality(R) /\ Sorted(R)[CountAhead(R, r) + 1] = r
<1>0. Cardinality(R) \in Nat
  BY FS_CardinalityType DEF IsTable
<1> DEFINE N == Cardinality(R)
           s == Sorted(R)
<1>1. s = [i \in 1 .. N |-> CHOOSE r \in R : CountAhead(R, r) = i - 1]
  BY DEF Sorted, CountAhead, RowsAhead
<1>2. \A i \in 1 .. N : \E r \in R : CountAhead(R, r) = i - 1
  BY EveryPlaceHasARow
<1>3. \A r \in R : CountAhead(R, r) \in Nat /\ CountAhead(R, r) < N
  BY LaterHasMoreAhead
<1>4. N \in Nat
  BY <1>0
<1> HIDE DEF N, s
<1>5. \A i \in 1 .. N : s[i] \in R /\ CountAhead(R, s[i]) = i - 1
  BY <1>1, <1>2
<1>6. s \in [1 .. N -> R]
  BY <1>1, <1>5
<1>7. s \in Seq(R) /\ Len(s) = N
  BY <1>4, <1>6
<1>8. ASSUME NEW r \in R PROVE CountAhead(R, r) + 1 \in 1 .. N /\ s[CountAhead(R, r) + 1] = r
  <2>1. CountAhead(R, r) + 1 \in 1 .. N
    BY <1>3, <1>4
  <2>2. CountAhead(R, s[CountAhead(R, r) + 1]) = CountAhead(R, r)
    BY <1>3, <1>5, <2>1
  <2> QED BY <1>5, <2>1, <2>2, PlacesDiffer
<1> QED BY <1>4, <1>5, <1>7, <1>8 DEF N, s

\* The first of a sequence are those at the first places.
LEMMA FirstOfASequence ==
  ASSUME NEW S, NEW s \in Seq(S), NEW limit \in Nat
  PROVE  /\ First(limit, s) \in Seq(S)
         /\ 1 .. Len(First(limit, s)) = {i \in 1 .. Len(s) : i <= limit}
         /\ \A i \in 1 .. Len(First(limit, s)) : First(limit, s)[i] = s[i]
<1> DEFINE m == IF limit < Len(s) THEN limit ELSE Len(s)
           f == First(limit, s)
<1>1. f = SubSeq(s, 1, m)
  BY DEF First
<1>2. m \in Nat /\ m <= Len(s) /\ Len(s) \in Nat
  OBVIOUS
<1>3. 1 .. m = {i \in 1 .. Len(s) : i <= limit}
  OBVIOUS
<1> HIDE DEF m, f
<1>4. Len(f) = m /\ f \in Seq(S)
  BY <1>1, <1>2
<1>5. \A i \in 1 .. m : f[i] = s[i]
  BY <1>1, <1>2
<1> QED BY <1>3, <1>4, <1>5 DEF f

\* The index of a user, whose row is found at one place at most.
LEMMA IndexIsThePlace ==
  ASSUME NEW rows, NEW u,
         \A i, j \in 1 .. Len(rows) : rows[i].id = rows[j].id => i = j
  PROVE  /\ \A i \in 1 .. Len(rows) : rows[i].id = u => IndexOf(rows, u) = i
         /\ (\A i \in 1 .. Len(rows) : rows[i].id # u) => IndexOf(rows, u) = 0
<1>1. ASSUME NEW i \in 1 .. Len(rows), rows[i].id = u PROVE IndexOf(rows, u) = i
  <2>1. (CHOOSE j \in 1 .. Len(rows) : rows[j].id = u) = i
    BY <1>1
  <2> QED BY <1>1, <2>1 DEF IndexOf
<1> QED BY <1>1 DEF IndexOf

\* An injective function has as many values as arguments.
LEMMA AsManyValues ==
  ASSUME NEW S, IsFiniteSet(S), NEW f, f = [x \in S |-> f[x]],
         \A x, y \in S : f[x] = f[y] => x = y
  PROVE  IsFiniteSet({f[x] : x \in S}) /\ Cardinality({f[x] : x \in S}) = Cardinality(S)
<1> DEFINE T == {f[x] : x \in S}
<1>1. f \in [S -> T]
  OBVIOUS
<1>2. f \in Bijection(S, T)
  BY <1>1 DEF Bijection, Injection, Surjection, IsInjective
<1>3. ExistsBijection(S, T)
  BY <1>2 DEF ExistsBijection
<1> QED BY <1>3, FS_Bijection

\* The rows of people whose experience is as told.
RowsOf(S, score) == {Row(u, score[u]) : u \in S}
\* One more than those of S who come before u.
PlaceIn(S, score, u) == 1 + Cardinality({v \in S : Comes(Row(v, score[v]), Row(u, score[u]))})

\* The rows of people are a table, in which each has as many ahead as people.
LEMMA PeopleAreATable ==
  ASSUME createdAt \in [Accounts -> Nat], NEW S \in SUBSET Accounts, NEW score \in [Accounts -> Nat]
  PROVE  /\ IsTable(RowsOf(S, score))
         /\ \A u \in S : /\ Row(u, score[u]) \in RowsOf(S, score)
                         /\ CountAhead(RowsOf(S, score), Row(u, score[u])) + 1 = PlaceIn(S, score, u)
<1> DEFINE R == RowsOf(S, score)
<1>1. \A u \in Accounts : Row(u, score[u]) \in UserRows /\ Row(u, score[u]).id = u
  BY RankingAssumption DEF Row, UserRows
<1>2. ASSUME NEW T \in SUBSET S
      PROVE  IsFiniteSet(RowsOf(T, score)) /\ Cardinality(RowsOf(T, score)) = Cardinality(T)
  <2> DEFINE f == [u \in T |-> Row(u, score[u])]
  <2>1. IsFiniteSet(T)
    BY RankingAssumption, FS_Subset
  <2>2. \A u, v \in T : f[u] = f[v] => u = v
    <3>1. \A u \in T : f[u].id = u
      BY <1>1
    <3> QED BY <3>1
  <2>3. f = [u \in T |-> f[u]]
    OBVIOUS
  <2>4. {f[u] : u \in T} = RowsOf(T, score)
    BY DEF RowsOf
  <2> HIDE DEF f
  <2>5. IsFiniteSet({f[u] : u \in T}) /\ Cardinality({f[u] : u \in T}) = Cardinality(T)
    BY <2>1, <2>2, <2>3, AsManyValues
  <2> QED BY <2>4, <2>5
<1>3. IsTable(R)
  <2>1. R \subseteq UserRows /\ \A a, b \in R : a.id = b.id => a = b
    BY <1>1 DEF RowsOf
  <2> QED BY <1>2, <2>1 DEF IsTable
<1>4. ASSUME NEW u \in S
      PROVE  Row(u, score[u]) \in R /\ CountAhead(R, Row(u, score[u])) + 1 = PlaceIn(S, score, u)
  <2> DEFINE r == Row(u, score[u])
             T == {v \in S : Comes(Row(v, score[v]), r)}
  <2>1. r \in R
    BY DEF RowsOf
  <2>2. RowsAhead(R, r) = RowsOf(T, score)
    BY DEF RowsAhead, RowsOf
  <2>3. Cardinality(RowsOf(T, score)) = Cardinality(T)
    BY <1>2
  <2>4. PlaceIn(S, score, u) = 1 + Cardinality(T)
    BY DEF PlaceIn
  <2>5. Cardinality(T) \in Nat
    BY RankingAssumption, FS_Subset, FS_CardinalityType
  <2> HIDE DEF T, r
  <2>6. CountAhead(R, r) = Cardinality(T)
    BY <2>2, <2>3 DEF CountAhead
  <2>7. CountAhead(R, r) + 1 = PlaceIn(S, score, u)
    BY <2>4, <2>5, <2>6
  <2> QED BY <2>1, <2>7 DEF r
<1> QED BY <1>3, <1>4

\* Sorted, everybody's row is at the place of the person, and no other is there.
LEMMA SortedPeople ==
  ASSUME createdAt \in [Accounts -> Nat], NEW S \in SUBSET Accounts, NEW score \in [Accounts -> Nat]
  PROVE  /\ Sorted(RowsOf(S, score)) \in Seq(RowsOf(S, score))
         /\ \A u \in S : /\ PlaceIn(S, score, u) \in 1 .. Len(Sorted(RowsOf(S, score)))
                         /\ Sorted(RowsOf(S, score))[PlaceIn(S, score, u)] = Row(u, score[u])
         /\ \A i \in 1 .. Len(Sorted(RowsOf(S, score))) :
              \E u \in S : /\ Sorted(RowsOf(S, score))[i] = Row(u, score[u]) /\ PlaceIn(S, score, u) = i
<1> DEFINE R == RowsOf(S, score)
<1>1. /\ IsTable(R)
      /\ \A u \in S : Row(u, score[u]) \in R /\ CountAhead(R, Row(u, score[u])) + 1 = PlaceIn(S, score, u)
  BY PeopleAreATable
<1>2. \A r \in R : \E u \in S : r = Row(u, score[u])
  BY DEF RowsOf
<1> HIDE DEF R
<1>3. /\ Sorted(R) \in Seq(R) /\ Len(Sorted(R)) = Cardinality(R) /\ Cardinality(R) \in Nat
      /\ \A i \in 1 .. Cardinality(R) : Sorted(R)[i] \in R /\ CountAhead(R, Sorted(R)[i]) = i - 1
      /\ \A r \in R : CountAhead(R, r) + 1 \in 1 .. Cardinality(R) /\ Sorted(R)[CountAhead(R, r) + 1] = r
  BY <1>1, SortedTable
<1>4. ASSUME NEW u \in S
      PROVE  PlaceIn(S, score, u) \in 1 .. Len(Sorted(R)) /\ Sorted(R)[PlaceIn(S, score, u)] = Row(u, score[u])
  BY <1>1, <1>3
<1>5. ASSUME NEW i \in 1 .. Len(Sorted(R))
      PROVE  \E u \in S : Sorted(R)[i] = Row(u, score[u]) /\ PlaceIn(S, score, u) = i
  <2>1. Sorted(R)[i] \in R /\ CountAhead(R, Sorted(R)[i]) = i - 1
    BY <1>3
  <2>2. PICK u \in S : Sorted(R)[i] = Row(u, score[u])
    BY <1>2, <2>1
  <2>3. PlaceIn(S, score, u) = i
    BY <1>1, <2>1, <2>2
  <2> QED BY <2>2, <2>3
<1> QED BY <1>3, <1>4, <1>5 DEF R

\* Of those who scored, nobody who did not comes first.
LEMMA PlaceAmongThoseWhoScored ==
  ASSUME NEW S \in SUBSET Accounts, NEW score \in [Accounts -> Nat], NEW u \in S, score[u] > 0
  PROVE  PlaceIn({v \in S : score[v] > 0}, score, u) = PlaceIn(S, score, u)
<1>1. \A v \in S : Comes(Row(v, score[v]), Row(u, score[u])) => score[v] > 0
  BY DEF Comes, Row
<1>2. {v \in {w \in S : score[w] > 0} : Comes(Row(v, score[v]), Row(u, score[u]))}
        = {v \in S : Comes(Row(v, score[v]), Row(u, score[u]))}
  BY <1>1
<1> QED BY <1>2 DEF PlaceIn

\* The list of the first places of those who scored, and where it has whom.
LEMMA TheListTellsPlaces ==
  ASSUME createdAt \in [Accounts -> Nat], NEW S \in SUBSET Accounts, NEW score \in [Accounts -> Nat],
         NEW limit \in Nat, NEW list,
         list = First(limit, Sorted(RowsOf({v \in S : score[v] > 0}, score)))
  PROVE  /\ Len(list) \in Nat
         /\ {Entries(list)[i] : i \in 1 .. Len(Entries(list))} =
              {[position |-> PlaceIn(S, score, u), id |-> u, xp |-> score[u]] :
                 u \in {v \in S : score[v] > 0 /\ PlaceIn(S, score, v) <= limit}}
         /\ \A i \in 1 .. Len(Entries(list)) : Entries(list)[i].position = i
         /\ \A u \in S : IndexOf(list, u) \in {0, PlaceIn(S, score, u)}
<1> DEFINE P == {v \in S : score[v] > 0}
           s == Sorted(RowsOf(P, score))
           At(u) == PlaceIn(S, score, u)
<1>1. /\ s \in Seq(RowsOf(P, score))
      /\ \A u \in P : At(u) \in 1 .. Len(s) /\ s[At(u)] = Row(u, score[u])
      /\ \A i \in 1 .. Len(s) : \E u \in P : s[i] = Row(u, score[u]) /\ At(u) = i
  <2>1. \A u \in P : PlaceIn(P, score, u) = At(u)
    BY PlaceAmongThoseWhoScored
  <2>2. P \in SUBSET Accounts
    OBVIOUS
  <2> HIDE DEF P
  <2>3. /\ s \in Seq(RowsOf(P, score))
        /\ \A u \in P : PlaceIn(P, score, u) \in 1 .. Len(s) /\ s[PlaceIn(P, score, u)] = Row(u, score[u])
        /\ \A i \in 1 .. Len(s) : \E u \in P : s[i] = Row(u, score[u]) /\ PlaceIn(P, score, u) = i
    BY <2>2, SortedPeople
  <2> HIDE DEF s, At
  <2>4. \A u \in P : At(u) \in 1 .. Len(s) /\ s[At(u)] = Row(u, score[u])
    BY <2>1, <2>3
  <2>5. ASSUME NEW i \in 1 .. Len(s) PROVE \E u \in P : s[i] = Row(u, score[u]) /\ At(u) = i
    BY <2>1, <2>3
  <2> QED BY <2>3, <2>4, <2>5
<1>2. list = First(limit, s)
  OBVIOUS
<1>3. \A u : u \in P <=> u \in S /\ score[u] > 0
  OBVIOUS
<1> HIDE DEF P, s, At
<1>4. /\ list \in Seq(RowsOf(P, score)) /\ 1 .. Len(list) = {i \in 1 .. Len(s) : i <= limit}
      /\ \A i \in 1 .. Len(list) : list[i] = s[i]
  <2>1. s \in Seq(RowsOf(P, score))
    BY <1>1
  <2>2. /\ First(limit, s) \in Seq(RowsOf(P, score))
        /\ 1 .. Len(First(limit, s)) = {i \in 1 .. Len(s) : i <= limit}
        /\ \A i \in 1 .. Len(First(limit, s)) : First(limit, s)[i] = s[i]
    BY <2>1, FirstOfASequence
  <2> QED BY <1>2, <2>2
<1>5. Len(list) \in Nat
  BY <1>4
<1>6. \A i \in 1 .. Len(list) :
        \E u \in P : list[i] = Row(u, score[u]) /\ At(u) = i /\ At(u) <= limit
  BY <1>1, <1>4
<1>7. \A u \in P : At(u) <= limit => At(u) \in 1 .. Len(list) /\ list[At(u)] = Row(u, score[u])
  BY <1>1, <1>4
<1>8. Len(Entries(list)) = Len(list)
      /\ \A i \in 1 .. Len(list) : Entries(list)[i] = toRankingEntry(list[i], i)
  BY <1>5 DEF Entries
<1>9. \A u : /\ Row(u, score[u]).id = u
             /\ \A i : toRankingEntry(Row(u, score[u]), i) = [position |-> i, id |-> u, xp |-> score[u]]
  BY DEF Row, toRankingEntry
<1>10. \A i \in 1 .. Len(list) :
         \E u \in P : /\ At(u) <= limit /\ At(u) = i /\ list[i].id = u
                      /\ Entries(list)[i] = [position |-> At(u), id |-> u, xp |-> score[u]]
  <2> SUFFICES ASSUME NEW i \in 1 .. Len(list)
               PROVE  \E u \in P : /\ At(u) <= limit /\ At(u) = i /\ list[i].id = u
                                   /\ Entries(list)[i] = [position |-> At(u), id |-> u, xp |-> score[u]]
    OBVIOUS
  <2>1. PICK u \in P : list[i] = Row(u, score[u]) /\ At(u) = i /\ At(u) <= limit
    BY <1>6
  <2>2. Entries(list)[i] = toRankingEntry(Row(u, score[u]), i)
    BY <1>8, <2>1
  <2>3. Entries(list)[i] = [position |-> i, id |-> u, xp |-> score[u]]
    BY <1>9, <2>2
  <2>4. list[i].id = u
    BY <1>9, <2>1
  <2> QED BY <2>1, <2>3, <2>4
<1>11. \A u \in P : At(u) <= limit =>
         /\ At(u) \in 1 .. Len(list)
         /\ Entries(list)[At(u)] = [position |-> At(u), id |-> u, xp |-> score[u]]
  BY <1>7, <1>8, <1>9
<1>12. {Entries(list)[i] : i \in 1 .. Len(Entries(list))} =
         {[position |-> At(u), id |-> u, xp |-> score[u]] : u \in {v \in P : At(v) <= limit}}
  <2> DEFINE EntryOf(u) == [position |-> At(u), id |-> u, xp |-> score[u]]
  <2>1. \A i \in 1 .. Len(list) : \E u \in {v \in P : At(v) <= limit} : Entries(list)[i] = EntryOf(u)
    BY <1>10
  <2>2. \A u \in {v \in P : At(v) <= limit} : At(u) \in 1 .. Len(list) /\ Entries(list)[At(u)] = EntryOf(u)
    BY <1>11
  <2> HIDE DEF EntryOf
  <2>3. {Entries(list)[i] : i \in 1 .. Len(list)} = {EntryOf(u) : u \in {v \in P : At(v) <= limit}}
    BY <2>1, <2>2
  <2> QED BY <1>8, <2>3 DEF EntryOf
<1>13. \A i \in 1 .. Len(Entries(list)) : Entries(list)[i].position = i
  <2> SUFFICES ASSUME NEW i \in 1 .. Len(list) PROVE Entries(list)[i].position = i
    BY <1>8
  <2>1. PICK u \in P : /\ At(u) = i
                       /\ Entries(list)[i] = [position |-> At(u), id |-> u, xp |-> score[u]]
    BY <1>10
  <2> QED BY <2>1
<1>14. \A i, j \in 1 .. Len(list) : list[i].id = list[j].id => i = j
  BY <1>10
<1>15. ASSUME NEW u \in S PROVE IndexOf(list, u) \in {0, At(u)}
  <2>1. CASE \E i \in 1 .. Len(list) : list[i].id = u
    <3>1. PICK i \in 1 .. Len(list) : list[i].id = u
      BY <2>1
    <3>2. At(u) = i
      BY <1>10, <3>1
    <3>3. IndexOf(list, u) = i
      BY <1>14, <3>1, IndexIsThePlace
    <3> QED BY <3>2, <3>3
  <2>2. CASE \A i \in 1 .. Len(list) : list[i].id # u
    BY <1>14, <2>2, IndexIsThePlace
  <2> QED BY <2>1, <2>2
<1>16. {v \in P : At(v) <= limit} = {v \in S : score[v] > 0 /\ At(v) <= limit}
  BY <1>3
<1> QED BY <1>5, <1>12, <1>13, <1>15, <1>16 DEF At

\* Among all, everybody is found at the place, and who is not among them is not.
LEMMA AmongAllEverybodyIsFound ==
  ASSUME createdAt \in [Accounts -> Nat], NEW S \in SUBSET Accounts, NEW score \in [Accounts -> Nat],
         NEW rows, rows = Sorted(RowsOf(S, score))
  PROVE  /\ \A u \in S : /\ IndexOf(rows, u) = PlaceIn(S, score, u) /\ PlaceIn(S, score, u) > 0
                         /\ rows[PlaceIn(S, score, u)] = Row(u, score[u])
         /\ \A u : u \notin S => IndexOf(rows, u) = 0
<1>1. /\ \A u \in S : PlaceIn(S, score, u) \in 1 .. Len(rows) /\ rows[PlaceIn(S, score, u)] = Row(u, score[u])
      /\ \A i \in 1 .. Len(rows) : \E u \in S : rows[i] = Row(u, score[u]) /\ PlaceIn(S, score, u) = i
  BY SortedPeople
<1>2. \A u : Row(u, score[u]).id = u
  BY DEF Row
<1>3. \A i \in 1 .. Len(rows) : rows[i].id \in S /\ PlaceIn(S, score, rows[i].id) = i
  BY <1>1, <1>2
<1>4. \A i, j \in 1 .. Len(rows) : rows[i].id = rows[j].id => i = j
  BY <1>3
<1>5. \A u \in S : IndexOf(rows, u) = PlaceIn(S, score, u) /\ PlaceIn(S, score, u) > 0
  <2> SUFFICES ASSUME NEW u \in S
               PROVE  IndexOf(rows, u) = PlaceIn(S, score, u) /\ PlaceIn(S, score, u) > 0
    OBVIOUS
  <2>1. PlaceIn(S, score, u) \in 1 .. Len(rows) /\ rows[PlaceIn(S, score, u)].id = u
    BY <1>1, <1>2
  <2>2. IndexOf(rows, u) = PlaceIn(S, score, u)
    BY <1>4, <2>1, IndexIsThePlace
  <2> QED BY <2>1, <2>2
<1>6. ASSUME NEW u, u \notin S PROVE IndexOf(rows, u) = 0
  BY <1>3, <1>4, <1>6, IndexIsThePlace
<1> QED BY <1>1, <1>5, <1>6

-----------------------------------------------------------------------------
(* The request for the ranking.                                            *)

\* Until a row changes, what the request has read is what the rows say.
ReadsAreOfNow ==
  ask # NoAsk /\ ~moved =>
    /\ ask.first \in {NoUser, IF ask.period = "all" THEN findTopGeneralRanking(ask.limit) ELSE findEligibleUsers}
    /\ ask.second \in {NoUser, IF ask.period = "all" THEN findEligibleUser(ask.user)
                               ELSE findActionCreditTotals(ask.window)}

RankingInv == RankingTypeOK /\ ReadsAreOfNow /\ PlacesAreOfOneOrder

\* The experience that decides the place.
ScoresNow == IF ask.period = "all" THEN xp ELSE [u \in Accounts |-> earned[u][ask.window]]
EntryIn(S, score, u) == [position |-> PlaceIn(S, score, u), id |-> u, xp |-> score[u]]

\* What the type says of the rows that the statements read.
LEMMA RankingRows ==
  ASSUME RankingTypeOK
  PROVE  /\ createdAt \in [Accounts -> Nat] /\ eligible \in SUBSET Accounts /\ xp \in [Accounts -> Nat]
         /\ ask # NoAsk => /\ ScoresNow \in [Accounts -> Nat] /\ ask.limit \in Nat /\ ask.user \in Accounts
                           /\ ask.period \in Periods
                           /\ ask.period # "all" => ScoresNow = [u \in Accounts |-> earned[u][ask.window]]
<1>1. createdAt \in [Accounts -> Nat] /\ eligible \in SUBSET Accounts /\ xp \in [Accounts -> Nat]
  BY RankingAssumption DEF RankingTypeOK
<1>2. ASSUME ask # NoAsk
      PROVE  ScoresNow \in [Accounts -> Nat] /\ ask.limit \in Nat /\ ask.user \in Accounts /\ ask.period \in Periods
  <2>1. ask.limit \in Limits /\ ask.user \in Accounts /\ ask.window \in 1 .. day /\ day \in 1 .. MaxDay
        /\ ask.period \in Periods
    BY <1>2 DEF RankingTypeOK
  <2>2. ask.window \in 1 .. MaxDay
    BY <2>1, RankingAssumption
  <2>3. \A u \in Accounts : earned[u][ask.window] \in Nat
    BY <2>2 DEF RankingTypeOK
  <2>4. ScoresNow \in [Accounts -> Nat]
    BY <1>1, <2>3 DEF ScoresNow
  <2>5. ask.limit \in Nat
    <3>1. Limits \subseteq Nat
      BY RankingAssumption
    <3> QED BY <2>1, <3>1
  <2> QED BY <2>1, <2>4, <2>5
<1> QED BY <1>1, <1>2 DEF ScoresNow

\* An answer made of the places of now is right: nothing else moves with it.
LEMMA AnswerOfPlacesOfNow ==
  ASSUME RankingTypeOK, ask.pc = "reads", ask # NoAsk, NEW list, NEW me,
         AnswerWith([ranking |-> Entries(list), me |-> me]),
         list = First(ask.limit, Sorted(RowsOf({v \in eligible : ScoresNow[v] > 0}, ScoresNow))),
         me = IF ask.user \in eligible THEN EntryIn(eligible, ScoresNow, ask.user) ELSE NoUser
  PROVE  PlacesAreOfOneOrder'
<1> DEFINE score == ScoresNow
<1>1. /\ createdAt \in [Accounts -> Nat] /\ eligible \in SUBSET Accounts /\ score \in [Accounts -> Nat]
      /\ ask.limit \in Nat /\ ask.user \in Accounts
  BY RankingRows
<1>2. /\ ask'.user = ask.user /\ ask'.period = ask.period /\ ask'.window = ask.window /\ ask'.limit = ask.limit
      /\ ask'.answer = [ranking |-> Entries(list), me |-> me]
      /\ eligible' = eligible /\ createdAt' = createdAt /\ xp' = xp /\ earned' = earned
  BY DEF AnswerWith, RankingTypeOK
<1>3. \A u \in Accounts : Score(u)' = score[u]
  BY <1>2 DEF Score, ScoresNow
<1>4. \A u \in Accounts : Place(u)' = PlaceIn(eligible, score, u)
  <2> SUFFICES ASSUME NEW u \in Accounts PROVE Place(u)' = PlaceIn(eligible, score, u)
    OBVIOUS
  <2>1. \A v \in Accounts : Row(v, Score(v))' = Row(v, score[v])
    BY <1>2, <1>3 DEF Row
  <2>2. {v \in eligible : Comes(Row(v, Score(v)), Row(u, Score(u)))}'
          = {v \in eligible : Comes(Row(v, score[v]), Row(u, score[u]))}
    BY <1>1, <1>2, <2>1
  <2> QED BY <2>2 DEF Place, PlaceIn
<1>5. \A u \in Accounts : Entry(u)' = EntryIn(eligible, score, u)
  BY <1>3, <1>4 DEF Entry, EntryIn
<1>6. list = First(ask.limit, Sorted(RowsOf({v \in eligible : score[v] > 0}, score)))
  OBVIOUS
<1>7. me = IF ask.user \in eligible THEN EntryIn(eligible, score, ask.user) ELSE NoUser
  OBVIOUS
<1> HIDE DEF score
<1>8. /\ {Entries(list)[i] : i \in 1 .. Len(Entries(list))} =
           {[position |-> PlaceIn(eligible, score, u), id |-> u, xp |-> score[u]] :
              u \in {v \in eligible : score[v] > 0 /\ PlaceIn(eligible, score, v) <= ask.limit}}
      /\ \A i \in 1 .. Len(Entries(list)) : Entries(list)[i].position = i
  <2> DEFINE S == eligible
  <2>1. S \in SUBSET Accounts /\ score \in [Accounts -> Nat] /\ ask.limit \in Nat
        /\ createdAt \in [Accounts -> Nat]
        /\ list = First(ask.limit, Sorted(RowsOf({v \in S : score[v] > 0}, score)))
    BY <1>1, <1>6
  <2> HIDE DEF S
  <2>2. /\ {Entries(list)[i] : i \in 1 .. Len(Entries(list))} =
             {[position |-> PlaceIn(S, score, u), id |-> u, xp |-> score[u]] :
                u \in {v \in S : score[v] > 0 /\ PlaceIn(S, score, v) <= ask.limit}}
        /\ \A i \in 1 .. Len(Entries(list)) : Entries(list)[i].position = i
    BY <2>1, TheListTellsPlaces
  <2> QED BY <2>2 DEF S
<1>9. {Entries(list)[i] : i \in 1 .. Len(Entries(list))} =
        {Entry(u) : u \in {v \in eligible : Score(v) > 0 /\ Place(v) <= ask.limit}}'
  <2> DEFINE T == {v \in eligible : score[v] > 0 /\ PlaceIn(eligible, score, v) <= ask.limit}
             TheseNow == {v \in eligible : Score(v) > 0 /\ Place(v) <= ask.limit}
  <2>1. TheseNow' = T
    BY <1>1, <1>2, <1>3, <1>4
  <2>2. {Entries(list)[i] : i \in 1 .. Len(Entries(list))} = {EntryIn(eligible, score, u) : u \in T}
    BY <1>8 DEF EntryIn
  <2>3. \A u \in T : u \in Accounts
    BY <1>1
  <2> HIDE DEF T
  <2>4. {Entry(u) : u \in TheseNow}' = {EntryIn(eligible, score, u) : u \in T}
    BY <1>5, <2>1, <2>3
  <2> QED BY <2>2, <2>4
<1>10. me = (IF ask.user \in eligible THEN Entry(ask.user) ELSE NoUser)'
  BY <1>1, <1>2, <1>5, <1>7
<1>11. ask'.answer.me = me /\ ask'.answer.ranking = Entries(list)
  BY <1>2
<1>12. (ask.answer.me = IF ask.user \in eligible THEN Entry(ask.user) ELSE NoUser)'
  BY <1>10, <1>11
<1>13. ({ask.answer.ranking[i] : i \in 1 .. Len(ask.answer.ranking)} =
          {Entry(u) : u \in {v \in eligible : Score(v) > 0 /\ Place(v) <= ask.limit}})'
  <2>1. {ask.answer.ranking[i] : i \in 1 .. Len(ask.answer.ranking)}' =
          {Entries(list)[i] : i \in 1 .. Len(Entries(list))}
    BY <1>11
  <2> QED BY <1>9, <2>1
<1>14. (\A i \in 1 .. Len(ask.answer.ranking) : ask.answer.ranking[i].position = i)'
  BY <1>8, <1>11
<1> QED BY <1>12, <1>13, <1>14 DEF PlacesAreOfOneOrder

\* Of all time: an index in the list, or a count of those ahead.
LEMMA GeneralAnswerIsOfOneOrder ==
  ASSUME RankingTypeOK, ReadsAreOfNow, ~moved, AnswerGeneral
  PROVE  PlacesAreOfOneOrder'
<1>1. /\ ask.pc = "reads" /\ ask # NoAsk /\ ask.period = "all"
      /\ ask.first = findTopGeneralRanking(ask.limit) /\ ask.second = findEligibleUser(ask.user)
  BY DEF AnswerGeneral, BothRead, NoAsk, ReadsAreOfNow
<1>2. /\ createdAt \in [Accounts -> Nat] /\ eligible \in SUBSET Accounts /\ xp \in [Accounts -> Nat]
      /\ ScoresNow = xp /\ ask.limit \in Nat /\ ask.user \in Accounts
  BY <1>1, RankingRows DEF ScoresNow
<1> DEFINE list == ask.first
           At(u) == PlaceIn(eligible, xp, u)
<1>3. list = First(ask.limit, Sorted(RowsOf({v \in eligible : xp[v] > 0}, xp)))
  BY <1>1 DEF findTopGeneralRanking, RowsOf
<1>4. ASSUME NEW me, AnswerWith([ranking |-> Entries(list), me |-> me]),
             me = IF ask.user \in eligible THEN EntryIn(eligible, xp, ask.user) ELSE NoUser
      PROVE  PlacesAreOfOneOrder'
  BY <1>1, <1>2, <1>3, <1>4, AnswerOfPlacesOfNow
<1>5. CASE ask.second = {} /\ AnswerWith([ranking |-> Entries(list), me |-> NoUser])
  <2>1. ask.user \notin eligible
    BY <1>1, <1>5 DEF findEligibleUser
  <2> QED BY <1>4, <1>5, <2>1
<1>6. CASE \E asker \in ask.second :
             AnswerWith([ranking |-> Entries(list),
                         me |-> toRankingEntry(asker, IF IndexOf(list, ask.user) > 0 THEN IndexOf(list, ask.user)
                                                     ELSE countUsersAhead(asker) + 1)])
  <2>1. PICK asker \in ask.second :
             AnswerWith([ranking |-> Entries(list),
                         me |-> toRankingEntry(asker, IF IndexOf(list, ask.user) > 0 THEN IndexOf(list, ask.user)
                                                     ELSE countUsersAhead(asker) + 1)])
    BY <1>6
  <2>2. ask.user \in eligible /\ asker = Row(ask.user, xp[ask.user])
    BY <1>1 DEF findEligibleUser
  <2>3. countUsersAhead(asker) + 1 = At(ask.user)
    <3> DEFINE Ahead == {v \in eligible : Comes(Row(v, xp[v]), asker)}
    <3>1. Cardinality(Ahead) \in Nat
      BY <1>2, RankingAssumption, FS_Subset, FS_CardinalityType
    <3>2. countUsersAhead(asker) = Cardinality(Ahead) /\ At(ask.user) = 1 + Cardinality(Ahead)
      BY <2>2 DEF countUsersAhead, PlaceIn
    <3> HIDE DEF Ahead, At
    <3> QED BY <3>1, <3>2
  <2>4. IndexOf(list, ask.user) \in {0, At(ask.user)}
    BY <1>2, <1>3, <2>2, TheListTellsPlaces
  <2> HIDE DEF list, At
  <2>5. (IF IndexOf(list, ask.user) > 0 THEN IndexOf(list, ask.user) ELSE countUsersAhead(asker) + 1)
           = At(ask.user)
    BY <2>3, <2>4
  <2>6. toRankingEntry(asker, At(ask.user)) = EntryIn(eligible, xp, ask.user)
    BY <2>2 DEF toRankingEntry, EntryIn, Row, At
  <2>7. AnswerWith([ranking |-> Entries(list), me |-> EntryIn(eligible, xp, ask.user)])
    BY <2>1, <2>5, <2>6
  <2> QED BY <1>4, <2>2, <2>7
<1> QED BY <1>5, <1>6 DEF AnswerGeneral

\* Of a day: an index among all the eligible, sorted by the experience of the day.
LEMMA PeriodAnswerIsOfOneOrder ==
  ASSUME RankingTypeOK, ReadsAreOfNow, ~moved, AnswerPeriod
  PROVE  PlacesAreOfOneOrder'
<1> DEFINE score == ScoresNow
<1>1. /\ ask.pc = "reads" /\ ask # NoAsk /\ ask.period = "daily"
      /\ ask.first = findEligibleUsers /\ ask.second = findActionCreditTotals(ask.window)
  BY DEF AnswerPeriod, AnswerFrom, BothRead, NoAsk, ReadsAreOfNow
<1>2. /\ createdAt \in [Accounts -> Nat] /\ eligible \in SUBSET Accounts /\ score \in [Accounts -> Nat]
      /\ ask.limit \in Nat /\ ask.user \in Accounts
  BY <1>1, RankingRows
<1>3. ask.second = score
  BY <1>1 DEF findActionCreditTotals, ScoresNow
<1> HIDE DEF score
<1>4. Ranked = RowsOf(eligible, score)
  <2>1. \A u : Row(u, xp[u]).id = u /\ [Row(u, xp[u]) EXCEPT !.xp = score[u]] = Row(u, score[u])
    BY DEF Row
  <2> DEFINE OfTheDay(r) == [r EXCEPT !.xp = score[r.id]]
  <2>2. Ranked = {OfTheDay(r) : r \in {Row(u, xp[u]) : u \in eligible}}
    BY <1>1, <1>3 DEF Ranked, findEligibleUsers
  <2>3. \A u : OfTheDay(Row(u, xp[u])) = Row(u, score[u])
    BY <2>1
  <2> HIDE DEF OfTheDay
  <2> QED BY <2>2, <2>3 DEF RowsOf
<1>5. Listed = RowsOf({v \in eligible : score[v] > 0}, score)
  <2>1. \A u : Row(u, score[u]).xp = score[u]
    BY DEF Row
  <2> QED BY <1>4, <2>1 DEF Listed, RowsOf
<1> DEFINE list == First(ask.limit, Sorted(Listed))
           mine == IndexOf(Sorted(Ranked), ask.user)
           me == IF mine > 0 THEN toRankingEntry(Sorted(Ranked)[mine], mine) ELSE NoUser
<1>6. AnswerWith([ranking |-> Entries(list), me |-> me])
  BY DEF AnswerPeriod, AnswerFrom
<1>7. me = IF ask.user \in eligible THEN EntryIn(eligible, score, ask.user) ELSE NoUser
  <2>1. /\ ask.user \in eligible =>
             /\ mine = PlaceIn(eligible, score, ask.user) /\ mine > 0
             /\ Sorted(Ranked)[mine] = Row(ask.user, score[ask.user])
        /\ ask.user \notin eligible => mine = 0
    <3> DEFINE S == eligible
               rows == Sorted(Ranked)
    <3>1. S \in SUBSET Accounts /\ rows = Sorted(RowsOf(S, score))
      BY <1>2, <1>4
    <3> HIDE DEF S, rows
    <3>2. /\ \A u \in S : /\ IndexOf(rows, u) = PlaceIn(S, score, u) /\ PlaceIn(S, score, u) > 0
                          /\ rows[PlaceIn(S, score, u)] = Row(u, score[u])
          /\ \A u : u \notin S => IndexOf(rows, u) = 0
      BY <1>2, <3>1, AmongAllEverybodyIsFound
    <3> QED BY <3>2 DEF S, rows
  <2> HIDE DEF mine
  <2>2. CASE ask.user \in eligible
    BY <2>1, <2>2 DEF toRankingEntry, EntryIn, Row
  <2>3. CASE ask.user \notin eligible
    BY <2>1, <2>3
  <2> QED BY <2>2, <2>3
<1>8. list = First(ask.limit, Sorted(RowsOf({v \in eligible : score[v] > 0}, score)))
  BY <1>5
<1> HIDE DEF list, me
<1> QED BY <1>1, <1>6, <1>7, <1>8, AnswerOfPlacesOfNow DEF score

\* While neither the rows nor the request change, what was read and told stands.
LEMMA WhatTheRowsSayStands ==
  ASSUME ReadsAreOfNow, PlacesAreOfOneOrder, UNCHANGED <<eligible, createdAt, xp, earned, ask, moved>>
  PROVE  ReadsAreOfNow' /\ PlacesAreOfOneOrder'
<1>1. \A u : Score(u)' = Score(u)
  BY DEF Score
<1>2. \A u : Row(u, Score(u))' = Row(u, Score(u))
  BY <1>1 DEF Row
<1>3. \A u : Entry(u)' = Entry(u) /\ Place(u)' = Place(u)
  <2> SUFFICES ASSUME NEW u PROVE Entry(u)' = Entry(u) /\ Place(u)' = Place(u)
    OBVIOUS
  <2>1. {v \in eligible : Comes(Row(v, Score(v)), Row(u, Score(u)))}'
          = {v \in eligible : Comes(Row(v, Score(v)), Row(u, Score(u)))}
    BY <1>2
  <2>2. Place(u)' = Place(u)
    BY <2>1 DEF Place
  <2> QED BY <1>1, <2>2 DEF Entry
<1>4. {Entry(u) : u \in {v \in eligible : Score(v) > 0 /\ Place(v) <= ask.limit}}'
        = {Entry(u) : u \in {v \in eligible : Score(v) > 0 /\ Place(v) <= ask.limit}}
  BY <1>1, <1>3
<1>5. PlacesAreOfOneOrder'
  BY <1>3, <1>4 DEF PlacesAreOfOneOrder
<1>6. ReadsAreOfNow'
  BY DEF ReadsAreOfNow, findTopGeneralRanking, findEligibleUsers, findEligibleUser, findActionCreditTotals, Row
<1> QED BY <1>5, <1>6

\* An answer leaves what was read, and the rows.
LEMMA AnsweredAsItRead ==
  ASSUME RankingTypeOK, ReadsAreOfNow, ask.pc = "reads", NEW answer, AnswerWith(answer)
  PROVE  RankingTypeOK' /\ ReadsAreOfNow'
<1>1. ask # NoAsk
  BY DEF NoAsk
<1>2. RankingTypeOK'
  BY <1>1 DEF RankingTypeOK, AnswerWith
<1>3. ReadsAreOfNow'
  BY <1>1 DEF ReadsAreOfNow, RankingTypeOK, AnswerWith, findTopGeneralRanking, findEligibleUsers,
              findEligibleUser, findActionCreditTotals, Row
<1> QED BY <1>2, <1>3

(* Whatever the accounts, what they earned and when they were registered,   *)
(* the inductive invariant: type, reads of now until a row changes, order.  *)
THEOREM RankingInvariance == RankingSpec => []RankingInv
<1>1. RankingInit => RankingInv
  <2> SUFFICES ASSUME RankingInit PROVE RankingInv
    OBVIOUS
  <2>1. RankingTypeOK
    <3>1. 1 \in 1 .. MaxDay /\ xp \in [Accounts -> Nat]
      BY RankingAssumption DEF RankingInit
    <3>2. earned \in [Accounts -> [1 .. MaxDay -> Nat]]
      BY DEF RankingInit
    <3> QED BY <3>1, <3>2 DEF RankingInit, RankingTypeOK
  <2> QED BY <2>1 DEF RankingInit, RankingInv, ReadsAreOfNow, PlacesAreOfOneOrder, NoAsk
<1>2. RankingInv /\ [RankingNext]_rankingVars => RankingInv'
  <2> SUFFICES ASSUME RankingInv, [RankingNext]_rankingVars PROVE RankingInv'
    OBVIOUS
  <2>0. RankingTypeOK /\ ReadsAreOfNow /\ PlacesAreOfOneOrder
    BY DEF RankingInv
  <2>1. ASSUME NEW u \in Accounts, NEW period \in Periods, NEW limit \in Limits, Ask(u, period, limit)
        PROVE  RankingInv'
    <3>1. RankingTypeOK'
      <4>1. day \in 1 .. day
        BY <2>0, RankingAssumption DEF RankingTypeOK
      <4>2. /\ ask' = [pc |-> ask'.pc, user |-> ask'.user, period |-> ask'.period, limit |-> ask'.limit,
                       window |-> ask'.window, first |-> ask'.first, second |-> ask'.second, answer |-> ask'.answer]
            /\ ask'.pc = "reads" /\ ask'.user = u /\ ask'.period = period /\ ask'.limit = limit /\ ask'.window = day
        BY <2>1 DEF Ask
      <4>3. UNCHANGED <<eligible, createdAt, xp, earned, day>> /\ moved' = FALSE
        BY <2>1 DEF Ask
      <4> QED BY <2>0, <4>1, <4>2, <4>3 DEF RankingTypeOK
    <3>2. ReadsAreOfNow' /\ PlacesAreOfOneOrder'
      BY <2>1 DEF ReadsAreOfNow, PlacesAreOfOneOrder, Ask
    <3> QED BY <3>1, <3>2 DEF RankingInv
  <2>2. CASE ReadFirst
    <3>1. RankingTypeOK'
      BY <2>0, <2>2 DEF RankingTypeOK, ReadFirst, NoAsk
    <3>2. PlacesAreOfOneOrder'
      BY <2>0, <2>2 DEF PlacesAreOfOneOrder, ReadFirst, RankingTypeOK, NoAsk
    <3>3. ReadsAreOfNow'
      BY <2>0, <2>2 DEF ReadsAreOfNow, ReadFirst, RankingTypeOK, NoAsk, findTopGeneralRanking, findEligibleUsers,
                        findEligibleUser, findActionCreditTotals, Row
    <3> QED BY <3>1, <3>2, <3>3 DEF RankingInv
  <2>3. CASE ReadSecond
    <3>1. RankingTypeOK'
      BY <2>0, <2>3 DEF RankingTypeOK, ReadSecond, NoAsk
    <3>2. PlacesAreOfOneOrder'
      BY <2>0, <2>3 DEF PlacesAreOfOneOrder, ReadSecond, RankingTypeOK, NoAsk
    <3>3. ReadsAreOfNow'
      BY <2>0, <2>3 DEF ReadsAreOfNow, ReadSecond, RankingTypeOK, NoAsk, findTopGeneralRanking, findEligibleUsers,
                        findEligibleUser, findActionCreditTotals, Row
    <3> QED BY <3>1, <3>2, <3>3 DEF RankingInv
  <2>4. CASE AnswerGeneral
    <3>1. PICK answer : AnswerWith(answer) /\ ask.pc = "reads"
      BY <2>4 DEF AnswerGeneral, BothRead
    <3>2. RankingTypeOK' /\ ReadsAreOfNow'
      BY <2>0, <3>1, AnsweredAsItRead
    <3>3. PlacesAreOfOneOrder'
      <4>1. CASE moved
        BY <3>1, <4>1 DEF AnswerWith, PlacesAreOfOneOrder
      <4>2. CASE ~moved
        BY <2>0, <2>4, <4>2, GeneralAnswerIsOfOneOrder
      <4> QED BY <4>1, <4>2
    <3> QED BY <3>2, <3>3 DEF RankingInv
  <2>5. CASE AnswerPeriod
    <3>1. PICK answer : AnswerWith(answer) /\ ask.pc = "reads"
      BY <2>5 DEF AnswerPeriod, AnswerFrom, BothRead
    <3>2. RankingTypeOK' /\ ReadsAreOfNow'
      BY <2>0, <3>1, AnsweredAsItRead
    <3>3. PlacesAreOfOneOrder'
      <4>1. CASE moved
        BY <3>1, <4>1 DEF AnswerWith, PlacesAreOfOneOrder
      <4>2. CASE ~moved
        BY <2>0, <2>5, <4>2, PeriodAnswerIsOfOneOrder
      <4> QED BY <4>1, <4>2
    <3> QED BY <3>2, <3>3 DEF RankingInv
  <2>6. CASE Done
    <3>1. RankingTypeOK'
      BY <2>0, <2>6 DEF RankingTypeOK, Done
    <3> QED BY <3>1, <2>6 DEF RankingInv, ReadsAreOfNow, PlacesAreOfOneOrder, Done, NoAsk
  <2>7. ASSUME NEW u \in Accounts, Credit(u) \/ ToggleAccount(u) PROVE RankingInv'
    <3>1. RankingTypeOK'
      <4>1. CASE Credit(u)
        <5>1. day \in 1 .. MaxDay /\ earned[u][day] \in Nat /\ xp[u] \in Nat
          BY <2>0 DEF RankingTypeOK
        <5>2. xp' \in [Accounts -> Nat]
          <6>1. xp' = [xp EXCEPT ![u] = xp[u] + 1]
            BY <4>1, Zenon DEF Credit
          <6>2. xp \in [Accounts -> Nat] /\ xp[u] + 1 \in Nat
            BY <2>0, <5>1 DEF RankingTypeOK
          <6> QED BY <6>1, <6>2
        <5>3. [earned[u] EXCEPT ![day] = @ + 1] \in [1 .. MaxDay -> Nat]
          BY <2>0, <5>1 DEF RankingTypeOK
        <5>4. earned' \in [Accounts -> [1 .. MaxDay -> Nat]]
          BY <2>0, <4>1, <5>3 DEF RankingTypeOK, Credit
        <5> QED BY <2>0, <4>1, <5>2, <5>4 DEF RankingTypeOK, Credit
      <4>2. CASE ToggleAccount(u)
        BY <2>0, <4>2 DEF RankingTypeOK, ToggleAccount
      <4> QED BY <2>7, <4>1, <4>2
    <3> QED BY <3>1, <2>7 DEF RankingInv, ReadsAreOfNow, PlacesAreOfOneOrder, Credit, ToggleAccount
  <2>8. CASE NextDay
    <3>1. RankingTypeOK'
      BY <2>0, <2>8, RankingAssumption DEF RankingTypeOK, NextDay
    <3> QED BY <2>0, <2>8, <3>1, WhatTheRowsSayStands DEF NextDay, RankingInv
  <2>9. CASE UNCHANGED rankingVars
    <3>1. RankingTypeOK'
      BY <2>0, <2>9 DEF RankingTypeOK, rankingVars
    <3> QED BY <2>0, <2>9, <3>1, WhatTheRowsSayStands DEF rankingVars, RankingInv
  <2> QED BY <2>1, <2>2, <2>3, <2>4, <2>5, <2>6, <2>7, <2>8, <2>9 DEF RankingNext
<1> QED BY <1>1, <1>2, PTL DEF RankingSpec

(* The request for the ranking and the rows it reads have their types.      *)
THEOREM RankingTypeCorrect == RankingSpec => []RankingTypeOK
<1>1. RankingInv => RankingTypeOK
  BY DEF RankingInv
<1> QED BY <1>1, RankingInvariance, PTL

(* An answer to which nobody's rows moved tells places of one total order,  *)
(* however they were computed, with any number of accounts and of ties.     *)
THEOREM PlacesStayOfOneOrder == RankingSpec => []PlacesAreOfOneOrder
<1>1. RankingInv => PlacesAreOfOneOrder
  BY DEF RankingInv
<1> QED BY <1>1, RankingInvariance, PTL
=============================================================================
