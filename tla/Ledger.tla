-------------------------------- MODULE Ledger --------------------------------
(***************************************************************************)
(* The administrators' changes to the points ledger: adjustments, their    *)
(* reversals (admin/admin-adjustments.service.ts) and the reconciliation   *)
(* of a stored balance with the sum of its events                          *)
(* (admin/admin-reconciliation.service.ts).                                *)
(*                                                                         *)
(* A request carries an idempotency key chosen by the client, who repeats  *)
(* it, perhaps while the first attempt still runs, when no answer comes.   *)
(* As in Shop, a slot t \in Tx runs one READ COMMITTED transaction, one    *)
(* statement a step; the statements between the last one that can wait or  *)
(* be disturbed and the commit are one step.  The rest of the API moves    *)
(* points too: Earn, GrantQuestion and Spend.                              *)
(***************************************************************************)
EXTENDS Integers, FiniteSets, Sequences

CONSTANTS
  Users,     \* participants
  Admins,    \* administrators, each with the one reason they give
  Keys,      \* idempotency keys
  Events,    \* identifiers of PointEvents (the bound on their number)
  Deltas,    \* changes an administrator may ask for
  Gains,     \* points earned or spent elsewhere, at once
  Openings,  \* balances and sums of events left by the database's history
  Tx,        \* transactions that may be open at the same time
  None,      \* no owner, no argument
  NoEvent    \* an event not yet inserted

Totals == [points : Int, xp : Int]
Zero == [points |-> 0, xp |-> 0]
Plus(a, b) == [points |-> a.points + b.points, xp |-> a.xp + b.xp]
Minus(a, b) == [points |-> a.points - b.points, xp |-> a.xp - b.xp]
Negative(a) == a.points < 0 \/ a.xp < 0

\* create-participant-adjustment.dto.ts: points and XP never go opposite ways.
ASSUME DeltasAssumption ==
  /\ Deltas \subseteq Totals \ {Zero}
  /\ \A d \in Deltas : d.points * d.xp >= 0
ASSUME GainsAssumption == Gains \subseteq Nat
ASSUME OpeningsAssumption ==
  Openings \subseteq [stored : {a \in Totals : ~Negative(a)}, ledger : Totals]
ASSUME NoneAssumption == None \notin Users \union Admins \union Keys \union Events \union Tx

Sources == {"ACTION_REDEEM", "REWARD_REDEMPTION", "ADMIN_GRANT", "ADMIN_ADJUST"}
Operations == {"ADJUSTED", "REVERSED", "RECONCILED"}

\* A PointEvent with what its audit event says: the operation, and the totals
\* before and after it (the balance, or the sum of the events when it is
\* reconciled).  audit names the first event written with that audit event.
Event == [user : Users, delta : Totals, source : Sources,
          operation : Operations \union {"NONE"}, admin : Admins \union {None},
          key : Keys \union {None}, reverses : Events \union {None},
          audit : Events \union {None}, before : Totals, after : Totals]

ASSUME NullAssumption == NoEvent \notin Event

Requests ==
  [op : {"ADJUSTED"}, user : Users, original : {None}, delta : Deltas,
   admin : Admins, key : Keys]
  \union [op : {"REVERSED"}, user : {None}, original : Events, delta : {Zero},
          admin : Admins, key : Keys]
  \union [op : {"RECONCILED"}, user : Users, original : {None}, delta : {Zero},
          admin : Admins, key : Keys]

VARIABLES
  stored,     \* User.points and User.xp
  ledger,     \* SUM of the points and the xpDelta of each participant's events
  event,      \* the PointEvent table
  userLock, eventLock,  \* the transaction that holds each row
  pc,         \* the next statement of each transaction
  tx,         \* its request, and the balance and the sum it has read
  answers     \* the successful answers given so far

tables == <<stored, ledger, event>>
locks == <<userLock, eventLock>>
vars == <<tables, locks, pc, tx, answers>>

Ended == {"idle", "answered", "refused"}
Statements == {"lockParticipant", "findByIdempotencyKey", "createPointEvent",
               "lockPointEvent", "lockReconciliation", "sumLedger", "findWinner"}

Idle == [request |-> None, balance |-> Zero, sum |-> Zero]

Init ==
  /\ \E opening \in [Users -> Openings] :
       /\ stored = [u \in Users |-> opening[u].stored]
       /\ ledger = [u \in Users |-> opening[u].ledger]
  /\ event = [e \in Events |-> NoEvent]
  /\ userLock = [u \in Users |-> None]
  /\ eventLock = [e \in Events |-> None]
  /\ pc = [t \in Tx |-> "idle"]
  /\ tx = [t \in Tx |-> Idle]
  /\ answers = {}

-----------------------------------------------------------------------------
Released(lock, t) == [x \in DOMAIN lock |-> IF lock[x] = t THEN None ELSE lock[x]]

\* The end of the transaction, by commit or by rollback.
Unlock(t) ==
  /\ userLock' = Released(userLock, t)
  /\ eventLock' = Released(eventLock, t)

Finish(t, result) ==
  /\ pc' = [pc EXCEPT ![t] = result]
  /\ tx' = [tx EXCEPT ![t] = Idle]
  /\ Unlock(t)

\* The service threw: 400, 404 or 409.
Refuse(t) == Finish(t, "refused") /\ UNCHANGED <<tables, answers>>

\* The connection or the server was lost; the client knows nothing.
Abort(t) == pc[t] \notin Ended /\ Finish(t, "idle") /\ UNCHANGED <<tables, answers>>

Goto(t, statement) == pc' = [pc EXCEPT ![t] = statement]

Existing(e) == event[e] # NoEvent
WithKey(k) == {e \in Events : Existing(e) /\ event[e].key = k}

\* The unique indexes PointEvent_idempotencyKey_key and _reversedEventId_key.
\* With a bug: the index on the key is missing.
UniqueReversal(k, original) ==
  original = None \/ \A e \in Events : Existing(e) => event[e].reverses # original
Unique(k, original) ==
  /\ WithKey(k) = {}
  /\ original = None \/ \A e \in Events : Existing(e) => event[e].reverses # original

Answer(t, e, before, after) ==
  answers' = answers \union
    {[request |-> tx[t].request, event |-> e, before |-> before, after |-> after]}

-----------------------------------------------------------------------------
(* The answer to a key that has been used.                                 *)

\* The events of an audit event, added up.  compensationDeltas makes one or two.
Related(e) == {f \in Events : Existing(f) /\ event[f].audit = event[e].audit}
Total(e) ==
  LET others == Related(e) \ {e} IN
    IF others = {} THEN event[e].delta
    ELSE Plus(event[e].delta, event[CHOOSE f \in others : TRUE].delta)

\* replay and replayReversal accept the event only as the effect of the very
\* same request.
Identical(e, request) ==
  /\ event[e].operation = request.op
  /\ event[e].admin = request.admin
  /\ \/ /\ request.op = "ADJUSTED"
        /\ event[e].user = request.user
        /\ event[e].delta = request.delta
     \/ /\ request.op = "REVERSED"
        /\ event[e].reverses = request.original
     \/ /\ request.op = "RECONCILED"
        /\ event[e].user = request.user
        /\ event[e].source = "ADMIN_ADJUST"
        /\ Total(e) = Minus(event[e].after, event[e].before)

Replay(t, e) ==
  \/ ~Identical(e, tx[t].request) /\ Refuse(t)
  \/ /\ Identical(e, tx[t].request)
     /\ Answer(t, e, event[e].before, event[e].after)
     /\ Finish(t, "answered")
     /\ UNCHANGED tables

\* The insert met a committed row with the same key, or reversing the same
\* event: the transaction is rolled back and the winner looked up.
UniqueViolation(t) ==
  /\ Goto(t, "findWinner")
  /\ Unlock(t)
  /\ UNCHANGED <<tables, tx, answers>>

FindWinner(t) ==
  /\ pc[t] = "findWinner"
  /\ \/ \E e \in WithKey(tx[t].request.key) : Replay(t, e)
     \/ WithKey(tx[t].request.key) = {} /\ Refuse(t)

-----------------------------------------------------------------------------
(* adjust: lock the participant, look the key up, check, write.            *)

Begin(t, request) ==
  /\ pc[t] \in Ended
  /\ request.op = "REVERSED" => Existing(request.original)
  /\ tx' = [tx EXCEPT ![t] = [Idle EXCEPT !.request = request]]
  /\ Goto(t, CASE request.op = "ADJUSTED" -> "lockParticipant"
               [] request.op = "REVERSED" -> "lockPointEvent"
               [] request.op = "RECONCILED" -> "lockReconciliation")
  /\ UNCHANGED <<tables, locks, answers>>

\* With a bug: the participant is read without FOR UPDATE.
ReadParticipant(t) ==
  /\ pc[t] = "lockParticipant"
  /\ tx' = [tx EXCEPT ![t].balance = stored[tx[t].request.user]]
  /\ Goto(t, "findByIdempotencyKey")
  /\ UNCHANGED <<tables, locks, answers>>
LockParticipant(t) ==
  /\ pc[t] = "lockParticipant"
  /\ LET u == tx[t].request.user IN
       /\ userLock[u] = None
       /\ userLock' = [userLock EXCEPT ![u] = t]
       /\ tx' = [tx EXCEPT ![t].balance = stored[u]]
  /\ Goto(t, "findByIdempotencyKey")
  /\ UNCHANGED <<tables, eventLock, answers>>

Overdrawn(balance) == Negative(balance)

FindForAdjustment(t) ==
  /\ pc[t] = "findByIdempotencyKey" /\ tx[t].request.op = "ADJUSTED"
  /\ LET request == tx[t].request IN
       \/ \E e \in WithKey(request.key) : Replay(t, e)
       \/ /\ WithKey(request.key) = {}
          /\ \/ Overdrawn(Plus(tx[t].balance, request.delta)) /\ Refuse(t)
             \/ /\ ~Overdrawn(Plus(tx[t].balance, request.delta))
                /\ Goto(t, "createPointEvent")
                /\ UNCHANGED <<tables, locks, tx, answers>>

\* The events of this transaction, and what it does to the balance and the sum.
Insert(rows) ==
  event' = [e \in Events |-> IF e \in DOMAIN rows THEN rows[e] ELSE event[e]]
Move(u, delta) ==
  /\ stored' = [stored EXCEPT ![u] = Plus(@, delta)]
  /\ ledger' = [ledger EXCEPT ![u] = Plus(@, delta)]

CreateAdjustment(t, e) ==
  /\ pc[t] = "createPointEvent" /\ tx[t].request.op = "ADJUSTED"
  /\ ~Existing(e)
  /\ LET request == tx[t].request
         u == request.user
         after == Plus(tx[t].balance, request.delta) IN
       \/ ~Unique(request.key, None) /\ UniqueViolation(t)
       \/ /\ Unique(request.key, None)
          /\ Insert([x \in {e} |->
               [user |-> u, delta |-> request.delta,
                source |-> IF Negative(request.delta) THEN "ADMIN_ADJUST" ELSE "ADMIN_GRANT",
                operation |-> "ADJUSTED", admin |-> request.admin, key |-> request.key,
                reverses |-> None, audit |-> e, before |-> tx[t].balance, after |-> after]])
          /\ Move(u, request.delta)
          /\ Answer(t, e, tx[t].balance, after)
          /\ Finish(t, "answered")

-----------------------------------------------------------------------------
(* reverse: lock the event, check that it is an adjustment, look the key   *)
(* up, then lock the participant, check and write.                         *)

\* Points granted for a question are also audited as an adjustment: only their
\* source tells them apart.  With a bug: the source is not looked at.
AnyAudited(e) ==
  /\ event[e].reverses = None
  /\ event[e].admin # None
  /\ event[e].operation = "ADJUSTED"
IsEligibleOriginal(e) ==
  /\ event[e].reverses = None
  /\ event[e].admin # None
  /\ event[e].source \in {"ADMIN_GRANT", "ADMIN_ADJUST"}
  /\ event[e].operation = "ADJUSTED"

LockPointEvent(t) ==
  /\ pc[t] = "lockPointEvent"
  /\ LET original == tx[t].request.original IN
       /\ eventLock[original] = None
       /\ \/ ~IsEligibleOriginal(original) /\ Refuse(t)
          \/ /\ IsEligibleOriginal(original)
             /\ eventLock' = [eventLock EXCEPT ![original] = t]
             /\ Goto(t, "findByIdempotencyKey")
             /\ UNCHANGED <<tables, userLock, tx, answers>>

Reversed(original) == \E e \in Events : Existing(e) /\ event[e].reverses = original

\* With a bug: whether the event was reversed is asked before the key.
FindForReversalLate(t) ==
  /\ pc[t] = "findByIdempotencyKey" /\ tx[t].request.op = "REVERSED"
  /\ LET request == tx[t].request IN
       \/ Reversed(request.original) /\ Refuse(t)
       \/ /\ ~Reversed(request.original)
          /\ \/ \E e \in WithKey(request.key) : Replay(t, e)
             \/ /\ WithKey(request.key) = {}
                /\ Goto(t, "createPointEvent")
                /\ UNCHANGED <<tables, locks, tx, answers>>
FindForReversal(t) ==
  /\ pc[t] = "findByIdempotencyKey" /\ tx[t].request.op = "REVERSED"
  /\ LET request == tx[t].request IN
       \/ \E e \in WithKey(request.key) : Replay(t, e)
       \/ /\ WithKey(request.key) = {}
          /\ \/ Reversed(request.original) /\ Refuse(t)
             \/ /\ ~Reversed(request.original)
                /\ Goto(t, "createPointEvent")
                /\ UNCHANGED <<tables, locks, tx, answers>>

\* lockParticipant, the checks and the writes.
CreateReversal(t, e) ==
  /\ pc[t] = "createPointEvent" /\ tx[t].request.op = "REVERSED"
  /\ ~Existing(e)
  /\ LET request == tx[t].request
         u == event[request.original].user
         delta == Minus(Zero, event[request.original].delta)
         after == Plus(stored[u], delta) IN
       /\ userLock[u] = None
       /\ \/ Overdrawn(after) /\ Refuse(t)
          \/ /\ ~Overdrawn(after)
             /\ ~Unique(request.key, request.original)
             /\ UniqueViolation(t)
          \/ /\ ~Overdrawn(after)
             /\ Unique(request.key, request.original)
             /\ Insert([x \in {e} |->
                  [user |-> u, delta |-> delta, source |-> "ADMIN_ADJUST",
                   operation |-> "REVERSED", admin |-> request.admin, key |-> request.key,
                   reverses |-> request.original, audit |-> e, before |-> stored[u],
                   after |-> after]])
             /\ Move(u, delta)
             /\ Answer(t, e, stored[u], after)
             /\ Finish(t, "answered")

-----------------------------------------------------------------------------
(* confirm: lock the participant, and only then, in a statement of its     *)
(* own, add up the events; look the key up; write what is missing from the *)
(* events, leaving the balance as it is.                                   *)

\* With a bug: the participant is read without FOR UPDATE.
ReadReconciliation(t) ==
  /\ pc[t] = "lockReconciliation"
  /\ tx' = [tx EXCEPT ![t].balance = stored[tx[t].request.user]]
  /\ Goto(t, "sumLedger")
  /\ UNCHANGED <<tables, locks, answers>>
LockReconciliation(t) ==
  /\ pc[t] = "lockReconciliation"
  /\ LET u == tx[t].request.user IN
       /\ userLock[u] = None
       /\ userLock' = [userLock EXCEPT ![u] = t]
       /\ tx' = [tx EXCEPT ![t].balance = stored[u]]
  /\ Goto(t, "sumLedger")
  /\ UNCHANGED <<tables, eventLock, answers>>

SumLedger(t) ==
  /\ pc[t] = "sumLedger"
  /\ LET request == tx[t].request
         sum == ledger[request.user] IN
       \/ \E e \in WithKey(request.key) : Replay(t, e)
       \/ /\ WithKey(request.key) = {}
          /\ \/ tx[t].balance = sum /\ Refuse(t)
             \/ /\ tx[t].balance # sum
                /\ tx' = [tx EXCEPT ![t].sum = sum]
                /\ Goto(t, "createPointEvent")
                /\ UNCHANGED <<tables, locks, answers>>

\* An event never credits points and debits XP, or the other way round: the
\* difference is then split in two, and the first carries the key.
\* With a bug: it is never split.
OneDelta(difference) == <<difference>>
CompensationDeltas(difference) ==
  IF difference.points * difference.xp < 0
  THEN <<[difference EXCEPT !.xp = 0], [difference EXCEPT !.points = 0]>>
  ELSE <<difference>>

CreateCompensation(t, e, f) ==
  /\ pc[t] = "createPointEvent" /\ tx[t].request.op = "RECONCILED"
  /\ ~Existing(e) /\ ~Existing(f)
  /\ LET request == tx[t].request
         u == request.user
         difference == Minus(tx[t].balance, tx[t].sum)
         deltas == CompensationDeltas(difference)
         first == [user |-> u, delta |-> deltas[1], source |-> "ADMIN_ADJUST",
                   operation |-> "RECONCILED", admin |-> request.admin,
                   key |-> request.key, reverses |-> None, audit |-> e,
                   before |-> tx[t].sum, after |-> Plus(tx[t].sum, difference)] IN
       \/ ~Unique(request.key, None) /\ UniqueViolation(t)
       \/ /\ Unique(request.key, None)
          /\ e = f <=> Len(deltas) = 1
          /\ Insert([x \in {e, f} |-> IF x = e THEN first
                       ELSE [first EXCEPT !.delta = deltas[2], !.key = None]])
          /\ ledger' = [ledger EXCEPT ![u] = Plus(@, difference)]
          /\ Answer(t, e, tx[t].sum, Plus(tx[t].sum, difference))
          /\ Finish(t, "answered")
          /\ UNCHANGED stored

-----------------------------------------------------------------------------
(* The rest of the API moves points and writes the event in one            *)
(* transaction, whose event or UPDATE waits for the participant's row.     *)

Elsewhere(u, e, delta, source, operation, admin) ==
  /\ userLock[u] = None
  /\ ~Existing(e)
  /\ Insert([x \in {e} |->
       [user |-> u, delta |-> delta, source |-> source, operation |-> operation,
        admin |-> admin, key |-> None, reverses |-> None,
        audit |-> IF operation = "NONE" THEN None ELSE e,
        before |-> stored[u], after |-> Plus(stored[u], delta)]])
  /\ Move(u, delta)
  /\ UNCHANGED <<locks, pc, tx, answers>>

Gain(n) == [points |-> n, xp |-> n]

Earn(u, e, n) == Elsewhere(u, e, Gain(n), "ACTION_REDEEM", "NONE", None)

GrantQuestion(u, e, n, a) == Elsewhere(u, e, Gain(n), "ACTION_REDEEM", "ADJUSTED", a)

Spend(u, e, n) ==
  /\ stored[u].points >= n
  /\ Elsewhere(u, e, [points |-> -n, xp |-> 0], "REWARD_REDEMPTION", "NONE", None)

-----------------------------------------------------------------------------
Next ==
  \/ \E t \in Tx :
       \/ \E request \in Requests : Begin(t, request)
       \/ LockParticipant(t) \/ FindForAdjustment(t)
       \/ LockPointEvent(t) \/ FindForReversal(t)
       \/ LockReconciliation(t) \/ SumLedger(t)
       \/ \E e \in Events : CreateAdjustment(t, e) \/ CreateReversal(t, e)
       \/ \E e, f \in Events : CreateCompensation(t, e, f)
       \/ FindWinner(t)
       \/ Abort(t)
  \/ \E u \in Users, e \in Events, n \in Gains :
       \/ Earn(u, e, n) \/ Spend(u, e, n)
       \/ \E a \in Admins : GrantQuestion(u, e, n, a)

Spec == Init /\ [][Next]_vars

-----------------------------------------------------------------------------
(* Properties.                                                             *)

Answers == [request : Requests, event : Events, before : Totals, after : Totals]

\* Every variable has its type; a transaction that runs has a request.
TypeOK ==
  /\ stored \in [Users -> Totals]
  /\ ledger \in [Users -> Totals]
  /\ event \in [Events -> Event \union {NoEvent}]
  /\ userLock \in [Users -> Tx \union {None}]
  /\ eventLock \in [Events -> Tx \union {None}]
  /\ pc \in [Tx -> Ended \union Statements]
  /\ tx \in [Tx -> [request : Requests \union {None}, balance : Totals, sum : Totals]]
  /\ \A t \in Tx : pc[t] \notin Ended => tx[t].request \in Requests
  /\ answers \subseteq Answers

\* No adjustment and no reversal leaves points or XP below zero, although they
\* are checked on a balance read statements before it is changed.
NeverNegative == \A u \in Users : ~Negative(stored[u])

\* Two successful answers to one key are the same answer to the same request:
\* a retry never applies the change again, and a key reused with another
\* content never gets the answer of the first.
AnswersAgree ==
  \A a, b \in answers : a.request.key = b.request.key => a = b

\* A request that took effect is never refused when it is repeated, whatever
\* happened to the participant and to the event in between
\* (admin-adjustments.service.ts looks the key up before the other checks).
RetriesSucceed ==
  [][\A t \in Tx :
       pc[t] # "refused" /\ pc'[t] = "refused" =>
         ~ \E a \in answers : a.request = tx[t].request]_vars

\* A reversal undoes exactly one adjustment made by hand, once: never points
\* earned, granted for a question, spent, compensated or given back before.
ReversalsUndoAdjustments ==
  \A e \in Events :
    Existing(e) /\ event[e].reverses # None =>
      LET original == event[event[e].reverses] IN
        /\ event[event[e].reverses] # NoEvent
        /\ original.operation = "ADJUSTED"
        /\ original.source \in {"ADMIN_GRANT", "ADMIN_ADJUST"}
        /\ original.reverses = None
        /\ event[e].user = original.user
        /\ Plus(event[e].delta, original.delta) = Zero
        /\ \A f \in Events : Existing(f) /\ event[f].reverses = event[e].reverses => f = e

\* Every event goes one way, and those of one reconciliation add up to the
\* difference its answer reports: the replay recomputes that sum.
CompensationsAddUp ==
  \A e \in Events :
    Existing(e) =>
      /\ event[e].delta.points * event[e].delta.xp >= 0
      /\ event[e].operation = "RECONCILED" =>
           Total(e) = Minus(event[e].after, event[e].before)

\* Adjustments, reversals and reconciliations correct exactly what they say, and
\* overdraw nobody.
CorrectionsAreExact == NeverNegative /\ ReversalsUndoAdjustments /\ CompensationsAddUp

Difference(u) == Minus(stored[u], ledger[u])

\* What separates a balance from its events changes only by a reconciliation,
\* which brings it to zero and leaves the balance alone, whatever moved the
\* points while the difference was being worked out.
ReconciliationIsExact ==
  [][\A u \in Users :
       Difference(u)' # Difference(u) =>
         Difference(u)' = Zero /\ stored'[u] = stored[u]]_vars

\* Every request that is answered takes effect at one step, on the committed
\* balance and sum of that step, whatever was read before it and however often
\* it is repeated: repetitions, lookups and refusals change nothing.
Atomic == INSTANCE AtomicLedger WITH
            stored <- stored, ledger <- ledger, answers <- answers
ImplementsAtomicLedger == Atomic!Spec
=============================================================================
