---------------------------- MODULE ActionRedemption ----------------------------
(***************************************************************************)
(* Points for activities: direct redemption, reusable and single-use codes *)
(* and points granted for a question (actions/actions.service.ts), with    *)
(* the administrators' changes to activities and to single-use codes       *)
(* (claim-codes/claim-codes.service.ts).                                   *)
(*                                                                         *)
(* As in Shop, a slot t \in Tx runs one READ COMMITTED transaction, one    *)
(* statement a step.  The INSERT of a PointEvent is a step of its own: it  *)
(* first enters the unique indexes, waiting for an open transaction that   *)
(* has entered the same participant and activity, and only then checks its *)
(* foreign keys, which wait for whoever holds the activity or the          *)
(* participant FOR UPDATE.  What follows the last wait is joined to the    *)
(* commit.                                                                 *)
(***************************************************************************)
EXTENDS Integers, FiniteSets

CONSTANTS
  Users,    \* participants
  Actions,  \* activities
  Codes,    \* identifiers of single-use codes (the bound on batches)
  Events,   \* identifiers of PointEvents (the bound on redemptions)
  Worths,   \* values of Action.points
  Tx,       \* transactions that may be open at the same time
  Precedes, \* the order of the identifiers of single-use codes
  None,     \* no owner, no argument
  NoAction, \* an activity not yet created
  NoCode,   \* a single-use code not yet generated
  NoEvent   \* an event not yet inserted

\* create-action.dto.ts bounds the points of an activity from below nowhere, but
\* the CHECK on credits refuses an event of negative points.
ASSUME WorthsAssumption == Worths \subseteq Int
ASSUME NoneAssumption == None \notin Users \union Actions \union Codes \union Events \union Tx
ASSUME PrecedesAssumption ==
  /\ Precedes \subseteq Codes \X Codes
  /\ \A c \in Codes : <<c, c>> \notin Precedes
  /\ \A c, d \in Codes : c # d => <<c, d>> \in Precedes \/ <<d, c>> \in Precedes
  /\ \A c, d, e \in Codes :
       <<c, d>> \in Precedes /\ <<d, e>> \in Precedes => <<c, e>> \in Precedes

\* There are finitely many codes.
ASSUME LastAssumption ==
  \A codes \in (SUBSET Codes) \ {{}} :
    \E last \in codes : \A c \in codes \ {last} : <<c, last>> \in Precedes

Action == [points : Worths, isQuestion : BOOLEAN, isActive : BOOLEAN,
           hasCode : BOOLEAN, isCodeActive : BOOLEAN]
ClaimCode == [action : Actions, isUsed : BOOLEAN, isActive : BOOLEAN,
              usedBy : Users \union {None}]
PointEvent == [user : Users, action : Actions, points : Int, claimCode : Codes \union {None}]

ASSUME NullAssumption ==
  NoAction \notin Action /\ NoCode \notin ClaimCode /\ NoEvent \notin PointEvent

VARIABLES
  points,    \* User.points (User.xp grows by the same amounts)
  enrolled,  \* User.isActive
  action,    \* the Action table
  claim,     \* the ClaimCode table
  event,     \* the PointEvents of source ACTION_REDEEM
  userLock, actionLock,  \* the transaction that holds each row FOR UPDATE
  claimLock, \* the transaction that holds each single-use code
  pc,        \* the next statement of each transaction
  tx         \* its arguments and what it has read

tables == <<points, enrolled, action, claim, event>>
locks == <<userLock, actionLock, claimLock>>
vars == <<tables, locks, pc, tx>>

Redeeming == {"findAction", "findClaimCode", "consumeClaimCode", "createPointEvent",
              "incrementUserProgress"}
Granting == {"lockAction", "lockParticipant", "createGrant"}
Changing == {"findCodeById", "updateClaimCodeStatus", "lockClaimCodes",
             "updateClaimCodeStatuses"}
Statements == Redeeming \union Granting \union Changing
Methods == {"DIRECT", "REUSABLE_CODE", "CLAIM_CODE"}

\* What a transaction knows: its participant, activity, way of redeeming and
\* code; the points it has read; the codes it is to change, those it has yet to
\* lock, what to change them to, and the rows of those it has locked.
Locals == [user : Users \union {None}, action : Actions \union {None},
           method : Methods \union {None}, code : Codes \union {None}, points : Int,
           codes : SUBSET Codes, waiting : SUBSET Codes, target : BOOLEAN,
           found : [Codes -> ClaimCode \union {NoCode}]]
NoLocals == [user |-> None, action |-> None, method |-> None, code |-> None,
             points |-> 0, codes |-> {}, waiting |-> {}, target |-> FALSE,
             found |-> [c \in Codes |-> NoCode]]

Init ==
  /\ points = [u \in Users |-> 0]
  /\ enrolled = [u \in Users |-> TRUE]
  /\ action = [a \in Actions |-> NoAction]
  /\ claim = [c \in Codes |-> NoCode]
  /\ event = [e \in Events |-> NoEvent]
  /\ userLock = [u \in Users |-> None]
  /\ actionLock = [a \in Actions |-> None]
  /\ claimLock = [c \in Codes |-> None]
  /\ pc = [t \in Tx |-> "idle"]
  /\ tx = [t \in Tx |-> NoLocals]

-----------------------------------------------------------------------------
Released(lock, t) == [x \in DOMAIN lock |-> IF lock[x] = t THEN None ELSE lock[x]]

EndTransaction(t) ==
  /\ pc' = [pc EXCEPT ![t] = "idle"]
  /\ tx' = [tx EXCEPT ![t] = NoLocals]
  /\ userLock' = Released(userLock, t)
  /\ actionLock' = Released(actionLock, t)
  /\ claimLock' = Released(claimLock, t)

\* A guard of the service failed and it threw, or had nothing to change.
Rollback(t) == EndTransaction(t) /\ UNCHANGED tables

\* The connection or the server was lost.
Abort(t) == pc[t] # "idle" /\ Rollback(t)

Goto(t, statement) == pc' = [pc EXCEPT ![t] = statement]
Learn(t, facts) == tx' = [tx EXCEPT ![t] = facts]

Existing(e) == event[e] # NoEvent

\* PointEvent_user_action_redeem_key: one redemption of an activity for each
\* participant.  With a bug: the index covers only the events of a code.
RedeemedByCode(u, a) ==
  \E e \in Events : /\ Existing(e) /\ event[e].claimCode # None
                    /\ event[e].user = u /\ event[e].action = a
Redeemed(u, a) ==
  \E e \in Events : Existing(e) /\ event[e].user = u /\ event[e].action = a

\* Transactions that have entered participant u and activity a in the index
\* and not yet committed.
Redeemers(u, a) ==
  {s \in Tx : pc[s] = "incrementUserProgress" /\ tx[s].user = u /\ tx[s].action = a}

\* createActionPointEvent and incrementUserProgress, when they become visible.
Reward(e, u, a, worth, c) ==
  /\ ~Existing(e)
  /\ event' = [event EXCEPT ![e] =
                [user |-> u, action |-> a, points |-> worth, claimCode |-> c]]
  /\ points' = [points EXCEPT ![u] = @ + worth]

-----------------------------------------------------------------------------
(* redeem and redeemByCode: read the activity, insert the event, add the   *)
(* points.                                                                 *)

\* The session was validated before: whether the participant is still active
\* is not asked again.  findActionIdByCode found the activity by its code.
BeginRedeem(t, u, a, method) ==
  /\ pc[t] = "idle"
  /\ enrolled[u]
  /\ action[a] # NoAction
  /\ method = "REUSABLE_CODE" => action[a].hasCode
  /\ Learn(t, [tx[t] EXCEPT !.user = u, !.action = a, !.method = method])
  /\ Goto(t, "findAction")
  /\ UNCHANGED <<tables, locks>>

Redeemable(row, method) ==
  row.isActive /\ (method = "REUSABLE_CODE" => row.isCodeActive)

FindAction(t) ==
  /\ pc[t] = "findAction"
  /\ LET row == action[tx[t].action] IN
       \/ ~Redeemable(row, tx[t].method) /\ Rollback(t)
       \/ /\ Redeemable(row, tx[t].method)
          /\ Learn(t, [tx[t] EXCEPT !.points = row.points])
          /\ Goto(t, "createPointEvent")
          /\ UNCHANGED <<tables, locks>>

CreatePointEvent(t) ==
  /\ pc[t] = "createPointEvent"
  /\ LET u == tx[t].user
         a == tx[t].action IN
       \/ tx[t].points < 0 /\ Rollback(t)
       \/ Redeemed(u, a) /\ Rollback(t)
       \/ /\ tx[t].points >= 0
          /\ ~Redeemed(u, a)
          /\ Redeemers(u, a) = {}
          /\ Goto(t, "incrementUserProgress")
          /\ UNCHANGED <<tables, locks, tx>>

\* The foreign keys of the event, the UPDATE of the participant and the commit.
IncrementUserProgress(t, e) ==
  /\ pc[t] = "incrementUserProgress"
  /\ actionLock[tx[t].action] = None
  /\ userLock[tx[t].user] = None
  /\ Reward(e, tx[t].user, tx[t].action, tx[t].points, tx[t].code)
  /\ claim' = [c \in Codes |->
       IF c = tx[t].code
       THEN [claim[c] EXCEPT !.isUsed = TRUE, !.isActive = FALSE, !.usedBy = tx[t].user]
       ELSE claim[c]]
  /\ EndTransaction(t)
  /\ UNCHANGED <<enrolled, action>>

-----------------------------------------------------------------------------
(* redeemClaimCode: read the code and its activity, consume the code, and  *)
(* then as above; the consumption is seen by nobody until the commit.      *)

BeginRedeemClaimCode(t, u, c) ==
  /\ pc[t] = "idle"
  /\ enrolled[u]
  /\ claim[c] # NoCode
  /\ Learn(t, [tx[t] EXCEPT !.user = u, !.code = c, !.method = "CLAIM_CODE"])
  /\ Goto(t, "findClaimCode")
  /\ UNCHANGED <<tables, locks>>

Consumable(row) == ~row.isUsed /\ row.isActive

FindClaimCode(t) ==
  /\ pc[t] = "findClaimCode"
  /\ LET row == claim[tx[t].code]
         a == row.action
         ready == Consumable(row) /\ action[a].isActive IN
       \/ ~ready /\ Rollback(t)
       \/ /\ ready
          /\ Learn(t, [tx[t] EXCEPT !.action = a, !.points = action[a].points])
          /\ Goto(t, "consumeClaimCode")
          /\ UNCHANGED <<tables, locks>>

\* UPDATE "ClaimCode" ... WHERE NOT isUsed AND isActive, and the foreign key of
\* usedById.  With a bug: the UPDATE is not part of the transaction.
ConsumeClaimCodeOutside(t) ==
  /\ pc[t] = "consumeClaimCode"
  /\ LET c == tx[t].code IN
       /\ Consumable(claim[c])
       /\ claim' = [claim EXCEPT ![c].isUsed = TRUE, ![c].isActive = FALSE, ![c].usedBy = tx[t].user]
  /\ Goto(t, "createPointEvent")
  /\ UNCHANGED <<points, enrolled, action, event, locks, tx>>
ConsumeClaimCode(t) ==
  /\ pc[t] = "consumeClaimCode"
  /\ LET c == tx[t].code IN
       /\ claimLock[c] = None
       /\ \/ ~Consumable(claim[c]) /\ Rollback(t)
          \/ /\ Consumable(claim[c])
             /\ userLock[tx[t].user] = None
             /\ claimLock' = [claimLock EXCEPT ![c] = t]
             /\ Goto(t, "createPointEvent")
             /\ UNCHANGED <<tables, userLock, actionLock, tx>>

\* Transactions that have written a code used by u: they hold the participant
\* FOR KEY SHARE, so nobody gets the row FOR UPDATE.
Sharers(u) ==
  {s \in Tx : /\ pc[s] \in {"createPointEvent", "incrementUserProgress"}
              /\ tx[s].user = u /\ tx[s].method = "CLAIM_CODE"}

-----------------------------------------------------------------------------
(* grantQuestionAction, by administrators: the activity and then the       *)
(* participant are locked.                                                 *)

BeginGrant(t, u, a) ==
  /\ pc[t] = "idle"
  /\ action[a] # NoAction
  /\ Learn(t, [tx[t] EXCEPT !.user = u, !.action = a])
  /\ Goto(t, "lockAction")
  /\ UNCHANGED <<tables, locks>>

Grantable(row) == row.isQuestion /\ row.isActive

\* With a bug: the activity is read without FOR UPDATE.
ReadAction(t) ==
  /\ pc[t] = "lockAction"
  /\ Grantable(action[tx[t].action])
  /\ Learn(t, [tx[t] EXCEPT !.points = action[tx[t].action].points])
  /\ Goto(t, "lockParticipant")
  /\ UNCHANGED <<tables, locks>>
LockAction(t) ==
  /\ pc[t] = "lockAction"
  /\ LET a == tx[t].action IN
       /\ actionLock[a] = None
       /\ \/ ~Grantable(action[a]) /\ Rollback(t)
          \/ /\ Grantable(action[a])
             /\ actionLock' = [actionLock EXCEPT ![a] = t]
             /\ Learn(t, [tx[t] EXCEPT !.points = action[a].points])
             /\ Goto(t, "lockParticipant")
             /\ UNCHANGED <<tables, userLock, claimLock>>

LockParticipant(t) ==
  /\ pc[t] = "lockParticipant"
  /\ LET u == tx[t].user IN
       /\ userLock[u] = None
       /\ Sharers(u) = {}
       /\ \/ ~enrolled[u] /\ Rollback(t)
          \/ /\ enrolled[u]
             /\ userLock' = [userLock EXCEPT ![u] = t]
             /\ Goto(t, "createGrant")
             /\ UNCHANGED <<tables, actionLock, claimLock, tx>>

CreateGrant(t, e) ==
  /\ pc[t] = "createGrant"
  /\ LET u == tx[t].user
         a == tx[t].action IN
       \/ tx[t].points < 0 /\ Rollback(t)
       \/ Redeemed(u, a) /\ Rollback(t)
       \/ /\ tx[t].points >= 0
          /\ ~Redeemed(u, a)
          /\ Redeemers(u, a) = {}
          /\ Reward(e, u, a, tx[t].points, None)
          /\ EndTransaction(t)
          /\ UNCHANGED <<enrolled, action, claim>>

-----------------------------------------------------------------------------
(* updateStatus and bulkUpdateStatus of single-use codes.                  *)

BeginUpdateStatus(t, c, target) ==
  /\ pc[t] = "idle"
  /\ claim[c] # NoCode
  /\ Learn(t, [tx[t] EXCEPT !.codes = {c}, !.target = target])
  /\ Goto(t, "findCodeById")
  /\ UNCHANGED <<tables, locks>>

FindCodeById(t) ==
  /\ pc[t] = "findCodeById"
  /\ \E c \in tx[t].codes :
       LET changes == ~claim[c].isUsed /\ claim[c].isActive # tx[t].target IN
         \/ ~changes /\ Rollback(t)
         \/ /\ changes
            /\ Goto(t, "updateClaimCodeStatus")
            /\ UNCHANGED <<tables, locks, tx>>

\* UPDATE "ClaimCode" ... WHERE NOT isUsed AND isActive = what was read.
\* With a bug: whatever has become of the code.
AnyCode(row, target) == TRUE
Changeable(row, target) == ~row.isUsed /\ row.isActive # target

UpdateClaimCodeStatus(t) ==
  /\ pc[t] = "updateClaimCodeStatus"
  /\ \E c \in tx[t].codes :
       /\ claimLock[c] = None
       /\ \/ ~Changeable(claim[c], tx[t].target) /\ Rollback(t)
          \/ /\ Changeable(claim[c], tx[t].target)
             /\ claim' = [claim EXCEPT ![c].isActive = tx[t].target]
             /\ EndTransaction(t)
             /\ UNCHANGED <<points, enrolled, action, event>>

BeginBulk(t, codes, target) ==
  /\ pc[t] = "idle"
  /\ Learn(t, [tx[t] EXCEPT !.codes = codes, !.target = target,
                           !.waiting = {c \in codes : claim[c] # NoCode}])
  /\ Goto(t, "lockClaimCodes")
  /\ UNCHANGED <<tables, locks>>

\* The SELECT locks the codes in the order of their identifiers.
\* With a bug: it has no ORDER BY.
AnyOf(codes) == codes
FirstOf(codes) == {c \in codes : \A d \in codes \ {c} : <<c, d>> \in Precedes}

\* With a bug: the codes are read without FOR UPDATE.
ReadClaimCodes(t) ==
  /\ pc[t] = "lockClaimCodes"
  /\ \E c \in FirstOf(tx[t].waiting) :
       Learn(t, [tx[t] EXCEPT !.found[c] = claim[c], !.waiting = @ \ {c}])
  /\ Goto(t, IF tx'[t].waiting = {} THEN "updateClaimCodeStatuses" ELSE "lockClaimCodes")
  /\ UNCHANGED <<tables, locks>>
LockClaimCodes(t) ==
  /\ pc[t] = "lockClaimCodes"
  /\ \/ /\ tx[t].waiting = {}
        /\ Goto(t, "updateClaimCodeStatuses")
        /\ UNCHANGED <<claimLock, tx>>
     \/ \E c \in FirstOf(tx[t].waiting) :
          /\ claimLock[c] = None
          /\ claimLock' = [claimLock EXCEPT ![c] = t]
          /\ Learn(t, [tx[t] EXCEPT !.found[c] = claim[c], !.waiting = @ \ {c}])
          /\ UNCHANGED pc
  /\ UNCHANGED <<tables, userLock, actionLock>>

\* What the operation records of each code it was asked to change.
Outcome(t, c) ==
  LET row == tx[t].found[c] IN
    CASE row = NoCode -> "NOT_FOUND"
      [] row # NoCode /\ row.isUsed -> "ALREADY_USED"
      [] row # NoCode /\ ~row.isUsed /\ row.isActive = tx[t].target -> "ALREADY_IN_STATE"
      [] OTHER -> "CHANGED"

Changed(t) == {c \in tx[t].codes : Outcome(t, c) = "CHANGED"}

\* updateMany(...).count = changedIds.length
AllChangeable(t) == \A c \in Changed(t) : Changeable(claim[c], tx[t].target)

UpdateClaimCodeStatuses(t) ==
  /\ pc[t] = "updateClaimCodeStatuses"
  /\ \A c \in Changed(t) : claimLock[c] \in {None, t}
  /\ \/ ~AllChangeable(t) /\ Rollback(t)
     \/ /\ AllChangeable(t)
        /\ claim' = [c \in Codes |->
             IF c \in Changed(t) THEN [claim[c] EXCEPT !.isActive = tx[t].target]
             ELSE claim[c]]
        /\ EndTransaction(t)
        /\ UNCHANGED <<points, enrolled, action, event>>

-----------------------------------------------------------------------------
(* Transactions whose statements nothing can come between.                 *)

CreateAction(a) ==
  /\ action[a] = NoAction
  /\ \E row \in Action :
       /\ row.isCodeActive = row.hasCode
       /\ action' = [action EXCEPT ![a] = row]
  /\ UNCHANGED <<points, enrolled, claim, event, locks, pc, tx>>

\* buildActionUpdate: whether the reusable code is active after an update that
\* leaves out, removes or sets the code, and leaves out or sets isCodeActive.
CodeActive(row, code, active) ==
  CASE code = "null" -> FALSE
    [] code = "given" /\ active = "undefined" -> row.hasCode => row.isCodeActive
    [] code = "given" /\ active # "undefined" -> active = "true"
    [] code = "undefined" /\ active = "undefined" -> row.isCodeActive
    [] code = "undefined" /\ active # "undefined" -> row.hasCode /\ active = "true"

\* The reusable code of an activity after each such update.
Recoded(row) ==
  {[hasCode |-> code = "given" \/ (code = "undefined" /\ row.hasCode),
    isCodeActive |-> CodeActive(row, code, active)] :
      code \in {"undefined", "null", "given"}, active \in {"undefined", "true", "false"}}

UpdateAction(a) ==
  /\ action[a] # NoAction
  /\ actionLock[a] = None
  /\ \E worth \in Worths, isQuestion, isActive \in BOOLEAN, new \in Recoded(action[a]) :
       action' = [action EXCEPT ![a] =
         [points |-> worth, isQuestion |-> isQuestion, isActive |-> isActive,
          hasCode |-> new.hasCode, isCodeActive |-> new.isCodeActive]]
  /\ UNCHANGED <<points, enrolled, claim, event, locks, pc, tx>>

\* The identifiers and the codes are new; a batch is complete or is not at all.
GenerateBatch(a, codes) ==
  /\ action[a] # NoAction
  /\ actionLock[a] = None
  /\ \A c \in codes : claim[c] = NoCode
  /\ claim' = [c \in Codes |->
       IF c \in codes
       THEN [action |-> a, isUsed |-> FALSE, isActive |-> TRUE, usedBy |-> None]
       ELSE claim[c]]
  /\ UNCHANGED <<points, enrolled, action, event, locks, pc, tx>>

UpdateParticipantStatus(u) ==
  /\ userLock[u] = None
  /\ Sharers(u) = {}
  /\ enrolled' = [enrolled EXCEPT ![u] = ~@]
  /\ UNCHANGED <<points, action, claim, event, locks, pc, tx>>

-----------------------------------------------------------------------------
Statement(t) ==
  \/ FindAction(t) \/ FindClaimCode(t) \/ ConsumeClaimCode(t) \/ CreatePointEvent(t)
  \/ LockAction(t) \/ LockParticipant(t)
  \/ FindCodeById(t) \/ UpdateClaimCodeStatus(t)
  \/ LockClaimCodes(t) \/ UpdateClaimCodeStatuses(t)
  \/ \E e \in Events : IncrementUserProgress(t, e) \/ CreateGrant(t, e)

Next ==
  \/ \E t \in Tx :
       \/ \E u \in Users, a \in Actions :
            \/ BeginRedeem(t, u, a, "DIRECT") \/ BeginRedeem(t, u, a, "REUSABLE_CODE")
            \/ BeginGrant(t, u, a)
       \/ \E u \in Users, c \in Codes : BeginRedeemClaimCode(t, u, c)
       \/ \E c \in Codes, target \in BOOLEAN : BeginUpdateStatus(t, c, target)
       \/ \E codes \in SUBSET Codes \ {{}}, target \in BOOLEAN : BeginBulk(t, codes, target)
       \/ Statement(t)
       \/ Abort(t)
  \/ \E a \in Actions :
       \/ CreateAction(a) \/ UpdateAction(a)
       \/ \E codes \in SUBSET Codes \ {{}} : GenerateBatch(a, codes)
  \/ \E u \in Users : UpdateParticipantStatus(u)

Spec == Init /\ [][Next]_vars

-----------------------------------------------------------------------------
(* Properties.                                                             *)

\* Every variable has its type, and an activity without a reusable code has no
\* active one.
TypeOK ==
  /\ points \in [Users -> Int]
  /\ enrolled \in [Users -> BOOLEAN]
  /\ action \in [Actions -> Action \union {NoAction}]
  /\ \A a \in Actions : action[a] # NoAction /\ action[a].isCodeActive => action[a].hasCode
  /\ claim \in [Codes -> ClaimCode \union {NoCode}]
  /\ event \in [Events -> PointEvent \union {NoEvent}]
  /\ userLock \in [Users -> Tx \union {None}]
  /\ actionLock \in [Actions -> Tx \union {None}]
  /\ claimLock \in [Codes -> Tx \union {None}]
  /\ pc \in [Tx -> Statements \union {"idle"}]
  /\ tx \in [Tx -> Locals]

\* A participant gets the points of an activity once, by whichever of its four
\* ways, however the requests interleave.
RedeemedOnce ==
  \A e, f \in Events :
    Existing(e) /\ Existing(f) /\ event[e].user = event[f].user
      /\ event[e].action = event[f].action => e = f

\* A single-use code is used exactly when one event names it, of the participant
\* who used it and of its activity: a redemption that fails after consuming the
\* code (the activity had been redeemed already) gives it back.
CodesPayOnce ==
  \A c \in Codes :
    LET paid == {e \in Events : Existing(e) /\ event[e].claimCode = c} IN
      IF claim[c] = NoCode \/ ~claim[c].isUsed THEN paid = {}
      ELSE \E e \in paid : /\ paid = {e}
                           /\ event[e].user = claim[c].usedBy
                           /\ event[e].action = claim[c].action

\* Nobody is paid twice: not for an activity, and not for a code.
PaidOnce == RedeemedOnce /\ CodesPayOnce

\* A used code is never active and never changes again, whatever administrators
\* do at the same time, one by one or in bulk
\* (docs/superpowers/specs/2026-08-22-marco-12-scale-exports-qr-design.md:537).
UsedCodesAreFinal ==
  [][\A c \in Codes :
       claim[c] # NoCode /\ claim[c].isUsed =>
         ~claim[c].isActive /\ claim'[c] = claim[c]]_vars

\* The points granted for a question are those of an activity that is active,
\* of that type and worth them when they are granted, and go to a participant
\* who is active: the locks make what was read still true at the commit.
GrantsAreCurrent ==
  [][\A t \in Tx, e \in Events :
       CreateGrant(t, e) /\ event' # event =>
         LET row == action[event'[e].action] IN
           /\ Grantable(row)
           /\ row.points = event'[e].points
           /\ enrolled[event'[e].user]]_vars

\* What a bulk operation records of each code is what it did to it, at the
\* moment it commits: it never reports as done what another request undid.
BulkReportsAreTrue ==
  [][\A t \in Tx :
       UpdateClaimCodeStatuses(t) /\ AllChangeable(t) =>
         \A c \in tx[t].codes :
           LET outcome == Outcome(t, c) IN
             /\ outcome = "CHANGED" <=> claim'[c] # claim[c]
             /\ outcome \in {"CHANGED", "ALREADY_IN_STATE"} =>
                  ~claim'[c].isUsed /\ claim'[c].isActive = tx[t].target
             /\ outcome = "ALREADY_USED" => claim'[c].isUsed]_vars

\* Transaction t waits for what s holds.
WaitsFor(t, s) ==
  /\ s # t
  /\ \/ /\ pc[t] \in {"createPointEvent", "createGrant"}
        /\ s \in Redeemers(tx[t].user, tx[t].action)
     \/ /\ pc[t] = "incrementUserProgress"
        /\ s \in {actionLock[tx[t].action], userLock[tx[t].user]}
     \/ pc[t] = "lockAction" /\ actionLock[tx[t].action] = s
     \/ /\ pc[t] = "lockParticipant"
        /\ userLock[tx[t].user] = s \/ s \in Sharers(tx[t].user)
     \/ pc[t] = "consumeClaimCode" /\ s \in {claimLock[tx[t].code], userLock[tx[t].user]}
     \/ pc[t] = "updateClaimCodeStatus" /\ \E c \in tx[t].codes : claimLock[c] = s
     \/ /\ pc[t] = "lockClaimCodes"
        /\ \E c \in FirstOf(tx[t].waiting) : claimLock[c] = s

\* The only transactions that can wait for each other in a circle are grants and
\* redemptions: a circle has a grant that holds an activity and a redemption of
\* that activity that has entered the unique index and waits for a lock.  The two
\* may be of one participant, who is then entered and locked in opposite orders,
\* or of several, in a longer circle.  Single-use codes, which are locked in
\* order, never close one.
OnlyGrantsDeadlock ==
  \A S \in (SUBSET Tx) \ {{}} :
    (\A t \in S : \E s \in S : WaitsFor(t, s)) =>
      \E g, r \in S : /\ pc[g] \in {"lockParticipant", "createGrant"}
                      /\ pc[r] = "incrementUserProgress"
                      /\ tx[g].action = tx[r].action
=============================================================================
