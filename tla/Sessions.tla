------------------------------- MODULE Sessions -------------------------------
(***************************************************************************)
(* Sessions of one participant: auth/auth.service.ts, presence/sessions.*, *)
(* and the two operations of admin/admin-participants.service.ts that end  *)
(* sessions.  Participants do not share rows, so one stands for all.       *)
(*                                                                         *)
(* A request is a sequence of steps, one for each await that others can    *)
(* come between.  A time that the code takes with new Date() before it     *)
(* waits for a row is kept with the request and is old when it is used.    *)
(***************************************************************************)
EXTENDS Integers, FiniteSets

CONSTANTS
  Ids,        \* identifiers of sessions (jti)
  Requests,   \* logins, password changes, resets and changes of status under way
  MaxSessionTime,    \* bound on the clock
  MaxHash,    \* bound on the passwords ever set
  Life,       \* duration of a session (SESSION_DURATION_MS)
  Validity,   \* of a temporary password (PARTICIPANT_TEMPORARY_PASSWORD_TTL_MS)
  Keep,       \* how long ended sessions are kept (SESSION_RETENTION_DAYS)
  Nobody, Absent, Deleted, NoOne

ASSUME TimesAssumption ==
  /\ MaxSessionTime \in Nat /\ MaxHash \in Nat
  /\ Life \in Nat \ {0} /\ Validity \in Nat \ {0} /\ Keep \in Nat

SessionTime == 0..MaxSessionTime
Hashes == 0..MaxHash

User ==
  {u \in [isActive : BOOLEAN, passwordHash : Hashes, passwordResetRequired : BOOLEAN,
          passwordResetExpiresAt : 0..(MaxSessionTime + Validity) \union {Nobody}] :
     u.passwordResetRequired <=> u.passwordResetExpiresAt # Nobody}

\* openedWith is history: the password the participant gave.
Session == [startedAt : SessionTime, lastSeenAt : SessionTime, expiresAt : 0..(MaxSessionTime + Life),
            endedAt : 0..(MaxSessionTime + Life) \union {Nobody}, openedWith : Hashes]

ASSUME NullsAssumption ==
  /\ Nobody \notin Int
  /\ NoOne \notin Requests
  /\ Absent \notin User /\ Absent \notin Session /\ Deleted \notin Session /\ Absent # Deleted

VARIABLES
  sessionNow,
  user,     \* the participant's row, Absent before registration
  session,  \* the UserSession rows
  lock,     \* the request that holds the row lock on user across two steps
  sessionPc,       \* the next step of each request
  local     \* what each request has read, and the time it goes by

sessionVars == <<sessionNow, user, session, lock, sessionPc, local>>

Local == [hash : Hashes, at : SessionTime, jti : Ids \union {Nobody}, replace : BOOLEAN]
BlankSession == [hash |-> 0, at |-> 0, jti |-> Nobody, replace |-> FALSE]

SessionInit ==
  /\ sessionNow = 0
  /\ user = Absent
  /\ session = [s \in Ids |-> Absent]
  /\ lock = NoOne
  /\ sessionPc = [r \in Requests |-> "idle"]
  /\ local = [r \in Requests |-> BlankSession]

SessionRows == {s \in Ids : session[s] \notin {Absent, Deleted}}

\* new Date(), taken a moment before the statement it is used in.
Recent == {t \in SessionTime : sessionNow - 1 <= t /\ t <= sessionNow}

Goto(r, step) == sessionPc' = [sessionPc EXCEPT ![r] = step]
Finish(r) ==
  /\ Goto(r, "idle")
  /\ local' = [local EXCEPT ![r] = BlankSession]

\* With a bug: the row is read without FOR UPDATE.
NeverLocked == TRUE
Unlocked == lock = NoOne

\* hasValidParticipantPasswordReset: the condition on the row that login,
\* startSession and findValidSessionWithUser share.
HasValidPasswordReset(t) ==
  user.passwordResetRequired => user.passwordResetExpiresAt > t

Open(s) == s \in SessionRows /\ session[s].endedAt = Nobody
Live(s, t) == Open(s) /\ session[s].expiresAt > t

\* SessionsRepository.findValidSessionWithUser.
Valid(s, t) == Live(s, t) /\ user.isActive /\ HasValidPasswordReset(t)

\* endSession for one session, revokeOpenSessions for all.
\* With a bug: no session is ended.
Kept(S, t) == session
Revoked(S, t) ==
  [s \in Ids |-> IF s \in S /\ Live(s, t) THEN [session[s] EXCEPT !.endedAt = t]
                 ELSE session[s]]

NewSession(t, hash) ==
  [startedAt |-> t, lastSeenAt |-> t, expiresAt |-> t + Life,
   endedAt |-> Nobody, openedWith |-> hash]

SessionTick ==
  /\ sessionNow < MaxSessionTime
  /\ sessionNow' = sessionNow + 1
  /\ UNCHANGED <<user, session, lock, sessionPc, local>>

-----------------------------------------------------------------------------
(* AuthService.                                                            *)

\* registerParticipant writes the participant and its first session at once.
Register(s) ==
  /\ user = Absent
  /\ user' = [isActive |-> TRUE, passwordHash |-> 0,
              passwordResetRequired |-> FALSE, passwordResetExpiresAt |-> Nobody]
  /\ \E t \in Recent : session' = [session EXCEPT ![s] = NewSession(t, 0)]
  /\ UNCHANGED <<sessionNow, lock, sessionPc, local>>

Unused == {s \in Ids : session[s] = Absent}
Starting == {r \in Requests : sessionPc[r] = "startSession"}

\* findByEmailForAuthentication, and the comparison with the hash it returned.
VerifyLogin(r) ==
  /\ sessionPc[r] = "idle" /\ user # Absent
  /\ Cardinality(Unused) > Cardinality(Starting)
  /\ user.isActive /\ HasValidPasswordReset(sessionNow)
  /\ local' = [local EXCEPT ![r] = [BlankSession EXCEPT !.hash = user.passwordHash, !.at = sessionNow]]
  /\ Goto(r, "startSession")
  /\ UNCHANGED <<sessionNow, user, session, lock>>

\* With a bug: the state of the participant is not tested again.
AlwaysConfirmed(t) == TRUE
\* The WHERE clause of startSession's UPDATE, which waits for the row.
Confirmed(t) == user.isActive /\ HasValidPasswordReset(t)

StartSession(r, s) ==
  /\ sessionPc[r] = "startSession" /\ Unlocked /\ s \in Unused
  /\ \E t \in local[r].at..sessionNow :
       session' = IF Confirmed(t)
                    THEN [session EXCEPT ![s] = NewSession(t, local[r].hash)]
                    ELSE session
  /\ Finish(r)
  /\ UNCHANGED <<sessionNow, user, lock>>

\* With a bug: the session is not tested, only its identifier.
AnyRow(s, t) == s \in SessionRows
Seen(s, t) == Live(s, t)

\* heartbeatSession.  JwtStrategy found the session valid a moment before; what
\* counts is the UPDATE's own condition.
Heartbeat(s) ==
  /\ \E t \in Recent :
       /\ Seen(s, t)
       /\ session' = [session EXCEPT ![s].lastSeenAt = t]
  /\ UNCHANGED <<sessionNow, user, lock, sessionPc, local>>

Logout(s) ==
  /\ \E t \in Recent : Live(s, t) /\ session' = Revoked({s}, t)
  /\ UNCHANGED <<sessionNow, user, lock, sessionPc, local>>

\* JwtStrategy.validate, before changeRequiredPassword.
BeginChange(r, s) ==
  /\ sessionPc[r] = "idle" /\ user # Absent /\ Valid(s, sessionNow)
  /\ local' = [local EXCEPT ![r] = [BlankSession EXCEPT !.jti = s, !.at = sessionNow]]
  /\ Goto(r, "findPasswordReset")
  /\ UNCHANGED <<sessionNow, user, session, lock>>

\* findParticipantPasswordReset, then the two comparisons and the hash of the
\* new password, which may be refused.
FindPasswordReset(r) ==
  /\ sessionPc[r] = "findPasswordReset"
  /\ \/ Finish(r)                        \* 409 or 400
     \/ /\ user.passwordResetRequired
        /\ \E checkedAt \in local[r].at..sessionNow :
             IF HasValidPasswordReset(checkedAt)
             THEN /\ local' = [local EXCEPT ![r].hash = user.passwordHash, ![r].at = sessionNow]
                  /\ Goto(r, "completeChange")
             ELSE /\ local' = [local EXCEPT ![r].at = checkedAt]
                  /\ Goto(r, "endSession")
  /\ UNCHANGED <<sessionNow, user, session, lock>>

Fresh == user.passwordHash + 1

\* With a bug: whichever temporary password is pending is replaced.
PendingAt(r, t) ==
  /\ user.passwordResetRequired
  /\ user.passwordResetExpiresAt > t
\* The test of completeParticipantPasswordChange under the row lock.
StillPending(r, t) ==
  /\ user.passwordHash = local[r].hash
  /\ user.passwordResetRequired
  /\ user.passwordResetExpiresAt > t

CompleteChange(r) ==
  /\ sessionPc[r] = "completeChange" /\ Unlocked
  /\ user.passwordHash < MaxHash
  /\ \E changedAt \in local[r].at..sessionNow :
       \/ /\ StillPending(r, changedAt)
          /\ user' = [user EXCEPT !.passwordHash = Fresh,
                                  !.passwordResetRequired = FALSE,
                                  !.passwordResetExpiresAt = Nobody]
          /\ session' = Revoked(Ids, changedAt)
          /\ Finish(r)
       \/ /\ ~StillPending(r, changedAt)
          /\ local' = [local EXCEPT ![r].at = sessionNow]
          /\ Goto(r, "endSession")
          /\ UNCHANGED <<user, session>>
  /\ UNCHANGED <<sessionNow, lock>>

\* The session of a change that was refused with 401.
EndSession(r) ==
  /\ sessionPc[r] = "endSession"
  /\ session' = Revoked({local[r].jti}, local[r].at)
  /\ Finish(r)
  /\ UNCHANGED <<sessionNow, user, lock>>

-----------------------------------------------------------------------------
(* AdminParticipantsService.                                               *)

PendingReset(t) == user.passwordResetRequired /\ user.passwordResetExpiresAt > t

\* lockParticipantPasswordReset.  A refused reset (409) changes nothing.
LockForReset(r, replacePending) ==
  /\ sessionPc[r] = "idle" /\ user # Absent /\ Unlocked
  /\ user.passwordHash < MaxHash
  /\ PendingReset(sessionNow) => replacePending
  /\ lock' = r
  /\ local' = [local EXCEPT ![r] = [BlankSession EXCEPT !.at = sessionNow, !.replace = replacePending]]
  /\ Goto(r, "resetPassword")
  /\ UNCHANGED <<sessionNow, user, session>>

ResetPassword(r) ==
  /\ sessionPc[r] = "resetPassword" /\ user.passwordHash < MaxHash
  /\ user' = [user EXCEPT !.passwordHash = Fresh,
                          !.passwordResetRequired = TRUE,
                          !.passwordResetExpiresAt = local[r].at + Validity]
  /\ session' = Revoked(Ids, local[r].at)
  /\ lock' = NoOne
  /\ Finish(r)
  /\ UNCHANGED sessionNow

\* lockParticipantStatus, for the status that the participant has not got.
LockForStatus(r) ==
  /\ sessionPc[r] = "idle" /\ user # Absent /\ Unlocked
  /\ lock' = r
  /\ Goto(r, "updateStatus")
  /\ UNCHANGED <<sessionNow, user, session, local>>

UpdateStatus(r) ==
  /\ sessionPc[r] = "updateStatus"
  /\ user' = [user EXCEPT !.isActive = ~@]
  /\ session' = IF user.isActive THEN Revoked(Ids, sessionNow) ELSE session
  /\ lock' = NoOne
  /\ Finish(r)
  /\ UNCHANGED sessionNow

\* The transaction fails: its audit event, the connection, the time limit.
Abort(r) ==
  /\ lock = r
  /\ lock' = NoOne
  /\ Finish(r)
  /\ UNCHANGED <<sessionNow, user, session>>

-----------------------------------------------------------------------------
(* PresenceService, every minute and every night.                          *)

ExpireSessions ==
  /\ \E t \in Recent :
       session' = [s \in Ids |->
                     IF Open(s) /\ session[s].expiresAt <= t
                       THEN [session[s] EXCEPT !.endedAt = session[s].expiresAt]
                       ELSE session[s]]
  /\ UNCHANGED <<sessionNow, user, lock, sessionPc, local>>

DeleteRetainedSessions ==
  /\ \E t \in Recent :
       LET Before(end) == end < t - Keep
           Old(s) == Before(IF Open(s) THEN session[s].expiresAt ELSE session[s].endedAt)
       IN  session' = [s \in Ids |-> IF s \in SessionRows /\ Old(s) THEN Deleted ELSE session[s]]
  /\ UNCHANGED <<sessionNow, user, lock, sessionPc, local>>

SessionNext ==
  \/ SessionTick
  \/ ExpireSessions
  \/ DeleteRetainedSessions
  \/ \E s \in Ids : Register(s) \/ Heartbeat(s) \/ Logout(s)
  \/ \E r \in Requests :
       \/ VerifyLogin(r)
       \/ FindPasswordReset(r)
       \/ CompleteChange(r)
       \/ EndSession(r)
       \/ \E replacePending \in BOOLEAN : LockForReset(r, replacePending)
       \/ ResetPassword(r)
       \/ LockForStatus(r)
       \/ UpdateStatus(r)
       \/ Abort(r)
       \/ \E s \in Ids : StartSession(r, s) \/ BeginChange(r, s)

SessionSpec == SessionInit /\ [][SessionNext]_sessionVars

-----------------------------------------------------------------------------
(* Properties.                                                             *)

SessionTypeOK ==
  /\ sessionNow \in SessionTime
  /\ user \in User \union {Absent}
  /\ session \in [Ids -> Session \union {Absent, Deleted}]
  /\ lock \in Requests \union {NoOne}
  /\ sessionPc \in [Requests -> {"idle", "startSession", "findPasswordReset", "completeChange",
                          "endSession", "resetPassword", "updateStatus"}]
  /\ local \in [Requests -> Local]

\* A participant who has been deactivated has no session left to be counted
\* online or reactivated with, whatever logins were under way.
InactiveHaveNoSession ==
  user # Absent /\ ~user.isActive => \A s \in Ids : ~Live(s, sessionNow)

\* A session that was refused once is refused for ever: reactivation, a new
\* reset or the end of one never makes an old session valid again.  One that
\* ended is never seen, ended again or reopened: neither a late heartbeat nor a
\* second revocation touches its row, only its deletion.
RefusedStayRefused ==
  [][\A s \in SessionRows :
       /\ ~Valid(s, sessionNow) => ~Valid(s, sessionNow)'
       /\ session[s].endedAt # Nobody => session'[s] \in {session[s], Deleted}]_sessionVars

\* A temporary password that was handed out stands until it expires, unless the
\* participant changes it or an administrator asks to replace it: two resets
\* that were not asked to replace never both succeed, and a change of password
\* that had begun before a reset does not undo it.
TemporaryPasswordStands ==
  [][user # Absent =>
       /\ PendingReset(sessionNow) /\ user'.passwordHash # user.passwordHash =>
            \E r \in Requests :
              \/ sessionPc[r] = "completeChange"
              \/ sessionPc[r] = "resetPassword" /\ local[r].replace
       /\ user.passwordResetRequired /\ ~user'.passwordResetRequired =>
            \E r \in Requests :
              sessionPc[r] = "completeChange" /\ local[r].hash = user.passwordHash]_sessionVars

\* What was refused stays refused, and what was handed out stands.
OutcomesStand == RefusedStayRefused /\ TemporaryPasswordStands

\* Not kept by the code (README, "What the code does not keep").  Whoever has a
\* valid session opened it with the password that holds now: a reset ends every
\* session that the previous password opened.
OpenedWithCurrentPassword ==
  user # Absent => \A s \in Ids : Valid(s, sessionNow) => session[s].openedWith = user.passwordHash
=============================================================================
