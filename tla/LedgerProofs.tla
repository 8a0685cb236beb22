----------------------------- MODULE LedgerProofs -----------------------------
(***************************************************************************)
(* Theorems of Ledger.tla, for any participants, administrators, keys,     *)
(* changes, histories and concurrent requests.                             *)
(*                                                                         *)
(* The invariant says what each part counts on: a request that has locked  *)
(* a participant or an event still finds it as it was read, an event is    *)
(* never changed, and an answer given is the effect of its request, told   *)
(* by an event that carries its key.                                       *)
(*                                                                         *)
(* The last part shows that the ledger of statements, locks and repeated   *)
(* requests implements the one of AtomicLedger, whose changes are single   *)
(* steps.                                                                  *)
(***************************************************************************)
EXTENDS Ledger, TLAPS

\* What an event says of itself.
RowHolds(e) ==
  /\ event[e].audit # None => Existing(event[e].audit)
  /\ event[e].operation = "RECONCILED" => event[e].audit # None
  /\ event[e].operation = "ADJUSTED" => event[e].admin # None
  /\ event[e].delta.points * event[e].delta.xp >= 0

\* A reconciliation wrote one event or two, which add up to what it reports.
Compensated(e) ==
  LET difference == Minus(event[e].after, event[e].before) IN
    \/ Related(e) = {e} /\ event[e].delta = difference
    \/ \E f \in Events : /\ f # e /\ Existing(f) /\ Related(e) = {e, f}
                         /\ Plus(event[e].delta, event[f].delta) = difference

KeysUnique ==
  \A e, f \in Events :
    Existing(e) /\ Existing(f) /\ event[e].key = event[f].key /\ event[e].key # None => e = f

EventInv ==
  /\ \A e \in Events : Existing(e) => RowHolds(e)
  /\ \A e \in Events : Existing(e) /\ event[e].operation = "RECONCILED" => Compensated(e)
  /\ KeysUnique
  /\ ReversalsUndoAdjustments

\* The event that an answer reports is the effect of its request.
Effect(e, request) ==
  /\ Existing(e)
  /\ event[e].key = request.key
  /\ event[e].operation = request.op
  /\ event[e].admin = request.admin
  /\ request.op = "ADJUSTED" => event[e].user = request.user /\ event[e].delta = request.delta
  /\ request.op = "REVERSED" => event[e].reverses = request.original
  /\ request.op = "RECONCILED" => event[e].user = request.user /\ event[e].source = "ADMIN_ADJUST"

AnswersRecorded ==
  \A a \in answers : /\ Effect(a.event, a.request)
                     /\ a.before = event[a.event].before /\ a.after = event[a.event].after

\* What a transaction has locked is as it has read it.
Op(t) == tx[t].request.op
Holds(t) ==
  \/ Op(t) = "ADJUSTED" /\ pc[t] \in {"findByIdempotencyKey", "createPointEvent"}
  \/ Op(t) = "RECONCILED" /\ pc[t] \in {"sumLedger", "createPointEvent"}

RequestKnown(t) ==
  /\ pc[t] \notin Ended => tx[t].request \in Requests
  /\ pc[t] \notin Ended /\ Op(t) = "REVERSED" => Existing(tx[t].request.original)
  /\ pc[t] = "lockParticipant" => Op(t) = "ADJUSTED"
  /\ pc[t] = "lockPointEvent" => Op(t) = "REVERSED"
  /\ pc[t] \in {"lockReconciliation", "sumLedger"} => Op(t) = "RECONCILED"
  /\ pc[t] = "findByIdempotencyKey" => Op(t) # "RECONCILED"

BalanceHeld(t) ==
  /\ pc[t] \notin Ended /\ Holds(t) =>
       /\ userLock[tx[t].request.user] = t
       /\ tx[t].balance = stored[tx[t].request.user]
  /\ pc[t] = "createPointEvent" /\ Op(t) = "ADJUSTED" =>
       ~Overdrawn(Plus(tx[t].balance, tx[t].request.delta))
  /\ pc[t] = "createPointEvent" /\ Op(t) = "RECONCILED" =>
       tx[t].sum = ledger[tx[t].request.user]

OriginalHeld(t) ==
  LET original == tx[t].request.original IN
    pc[t] \in {"findByIdempotencyKey", "createPointEvent"} /\ Op(t) = "REVERSED" =>
      /\ eventLock[original] = t
      /\ IsEligibleOriginal(original)
      /\ pc[t] = "createPointEvent" => ~Reversed(original)

TxInv(t) == RequestKnown(t) /\ BalanceHeld(t) /\ OriginalHeld(t)

IInv ==
  /\ TypeOK
  /\ NeverNegative
  /\ EventInv
  /\ AnswersRecorded
  /\ \A t \in Tx : TxInv(t)

\* The rows and the answers, apart from what transactions know of them.
TablesInv ==
  /\ stored \in [Users -> Totals] /\ ledger \in [Users -> Totals]
  /\ event \in [Events -> Event \union {NoEvent}]
  /\ answers \subseteq Answers
  /\ NeverNegative
  /\ EventInv
  /\ AnswersRecorded

ProtocolTypeOK ==
  /\ userLock \in [Users -> Tx \union {None}]
  /\ eventLock \in [Events -> Tx \union {None}]
  /\ pc \in [Tx -> Ended \union Statements]
  /\ tx \in [Tx -> [request : Requests \union {None}, balance : Totals, sum : Totals]]

LEMMA Parts == IInv <=> TablesInv /\ ProtocolTypeOK /\ \A t \in Tx : TxInv(t)
BY DEF IInv, TypeOK, TablesInv, ProtocolTypeOK, TxInv, RequestKnown

-----------------------------------------------------------------------------
(* Totals and requests.                                                    *)

LEMMA TotalsClosed ==
  /\ Zero \in Totals
  /\ \A a, b \in Totals : Plus(a, b) \in Totals /\ Minus(a, b) \in Totals
BY DEF Totals, Zero, Plus, Minus

LEMMA MovedTogether ==
  ASSUME NEW a \in Totals, NEW b \in Totals, NEW d \in Totals
  PROVE  Minus(Plus(a, d), Plus(b, d)) = Minus(a, b)
BY DEF Totals, Plus, Minus

LEMMA Reconciled ==
  ASSUME NEW a \in Totals, NEW b \in Totals
  PROVE  Minus(a, Plus(b, Minus(a, b))) = Zero
BY DEF Totals, Plus, Minus, Zero

LEMMA ReportedDifference ==
  ASSUME NEW a \in Totals, NEW d \in Totals
  PROVE  Minus(Plus(a, d), a) = d
BY DEF Totals, Plus, Minus

LEMMA Undone ==
  ASSUME NEW d \in Totals
  PROVE  /\ Plus(Minus(Zero, d), d) = Zero
         /\ d.points * d.xp >= 0 => Minus(Zero, d).points * Minus(Zero, d).xp >= 0
<1>1. Plus(Minus(Zero, d), d) = Zero
  BY DEF Totals, Plus, Minus, Zero
<1>2. Minus(Zero, d).points = -d.points /\ Minus(Zero, d).xp = -d.xp
  BY DEF Totals, Minus, Zero
<1>3. (-d.points) * (-d.xp) = d.points * d.xp
  BY DEF Totals
<1> QED BY <1>1, <1>2, <1>3

\* A difference is written as one event, or as two that each go one way.
LEMMA Split ==
  ASSUME NEW d \in Totals
  PROVE  LET deltas == CompensationDeltas(d) IN
           \/ Len(deltas) = 1 /\ deltas[1] = d /\ d.points * d.xp >= 0
           \/ /\ Len(deltas) = 2
              /\ deltas[1] \in Totals /\ deltas[2] \in Totals
              /\ deltas[1].points * deltas[1].xp >= 0 /\ deltas[2].points * deltas[2].xp >= 0
              /\ Plus(deltas[1], deltas[2]) = d /\ Plus(deltas[2], deltas[1]) = d
<1>1. d.points \in Int /\ d.xp \in Int /\ d.points * d.xp \in Int
  BY DEF Totals
<1>2. CASE d.points * d.xp < 0
  <2> DEFINE one == [d EXCEPT !.xp = 0]
             two == [d EXCEPT !.points = 0]
  <2>1. CompensationDeltas(d) = <<one, two>>
    BY <1>2 DEF CompensationDeltas
  <2>2. /\ one \in Totals /\ one.points = d.points /\ one.xp = 0
        /\ two \in Totals /\ two.points = 0 /\ two.xp = d.xp
    BY <1>1 DEF Totals
  <2>3. Plus(one, two) = d /\ Plus(two, one) = d
    BY <1>1, <2>2 DEF Totals, Plus
  <2>4. one.points * one.xp >= 0 /\ two.points * two.xp >= 0
    BY <1>1, <2>2
  <2> HIDE DEF one, two
  <2> QED BY <2>1, <2>2, <2>3, <2>4
<1>3. CASE ~(d.points * d.xp < 0)
  BY <1>1, <1>3 DEF CompensationDeltas
<1> QED BY <1>2, <1>3

LEMMA RequestFields ==
  ASSUME NEW r \in Requests
  PROVE  /\ r.op \in Operations /\ r.admin \in Admins /\ r.key \in Keys
         /\ r.op = "ADJUSTED" =>
              r.user \in Users /\ r.delta \in Deltas /\ r.delta \in Totals /\ r.original = None
         /\ r.op = "REVERSED" => r.user = None /\ r.delta = Zero /\ r.original \in Events
         /\ r.op = "RECONCILED" => r.user \in Users /\ r.delta = Zero /\ r.original = None
BY DeltasAssumption DEF Requests, Operations

LEMMA SameRequest ==
  ASSUME NEW r \in Requests, NEW q \in Requests,
         r.op = q.op, r.user = q.user, r.original = q.original, r.delta = q.delta,
         r.admin = q.admin, r.key = q.key
  PROVE  r = q
BY DEF Requests

-----------------------------------------------------------------------------
(* Events are only added.                                                  *)

EventsKept == \A f \in Events : Existing(f) => event'[f] = event[f]

Recorded(a) ==
  /\ Effect(a.event, a.request)
  /\ a.before = event[a.event].before /\ a.after = event[a.event].after

LEMMA RecordedKept ==
  ASSUME NEW a \in Answers, Recorded(a), EventsKept
  PROVE  Recorded(a)'
<1>1. a.event \in Events /\ Existing(a.event)
  BY DEF Answers, Recorded, Effect
<1>2. event'[a.event] = event[a.event]
  BY <1>1 DEF EventsKept
<1> QED BY <1>1, <1>2 DEF Recorded, Effect, Existing

Added(e, row) ==
  /\ ~Existing(e) /\ row \in Event /\ row # NoEvent
  /\ event' \in [Events -> Event \union {NoEvent}]
  /\ event'[e] = row
  /\ \A f \in Events \ {e} : event'[f] = event[f]

LEMMA InsertOne ==
  ASSUME event \in [Events -> Event \union {NoEvent}], NEW e \in Events, ~Existing(e),
         NEW row \in Event, Insert([x \in {e} |-> row])
  PROVE  Added(e, row)
<1>1. row # NoEvent
  BY NullAssumption
<1>2. \A f \in Events : event'[f] = IF f = e THEN row ELSE event[f]
  BY DEF Insert
<1>3. event' \in [Events -> Event \union {NoEvent}]
  BY DEF Insert
<1> QED BY <1>1, <1>2, <1>3 DEF Added

\* What an event has to be when it is inserted alone.
Fits(e, row) ==
  /\ row.audit \in {None, e}
  /\ row.operation # "RECONCILED"
  /\ row.operation = "ADJUSTED" => row.admin # None
  /\ row.delta.points * row.delta.xp >= 0
  /\ row.key = None \/ WithKey(row.key) = {}
  /\ row.reverses = None \/
       /\ row.reverses \in Events /\ Existing(row.reverses)
       /\ IsEligibleOriginal(row.reverses) /\ ~Reversed(row.reverses)
       /\ row.user = event[row.reverses].user
       /\ Plus(row.delta, event[row.reverses].delta) = Zero

LEMMA RowAdded ==
  ASSUME EventInv, event \in [Events -> Event \union {NoEvent}],
         NEW e \in Events, NEW row, Added(e, row), Fits(e, row)
  PROVE  EventInv' /\ EventsKept
<1>1. /\ ~Existing(e) /\ row # NoEvent /\ row \in Event /\ event'[e] = row
      /\ \A f \in Events : Existing(f)' <=> Existing(f) \/ f = e
      /\ \A f \in Events \ {e} : event'[f] = event[f]
  BY DEF Added, Existing
<1>2. EventsKept
  BY <1>1 DEF EventsKept
<1>3. \A f \in Events : Existing(f) =>
        /\ event[f].audit \in Events \union {None} /\ event[f].reverses \in Events \union {None}
  BY DEF Existing, Event
<1>4. ASSUME NEW f \in Events, Existing(f)' PROVE RowHolds(f)'
  <2>1. CASE f = e
    BY <1>1, <2>1, NoneAssumption DEF Fits, RowHolds
  <2>2. CASE f # e
    <3>1. Existing(f) /\ RowHolds(f) /\ event'[f] = event[f]
      BY <1>1, <1>4, <2>2 DEF EventInv
    <3> QED BY <1>1, <1>3, <3>1 DEF RowHolds
  <2> QED BY <2>1, <2>2
<1>5. ASSUME NEW f \in Events, Existing(f)', event'[f].operation = "RECONCILED"
      PROVE  Compensated(f)'
  <2>1. f # e /\ Existing(f) /\ event'[f] = event[f]
    BY <1>1, <1>5 DEF Fits
  <2>2. Compensated(f) /\ RowHolds(f)
    BY <1>5, <2>1 DEF EventInv
  <2>3. event[f].audit \in Events /\ Existing(event[f].audit)
    BY <1>3, <1>5, <2>1, <2>2 DEF RowHolds
  <2>4. event[f].audit # row.audit
    BY <1>1, <2>3, NoneAssumption DEF Fits
  <2>5. Related(f)' = Related(f)
    BY <1>1, <2>1, <2>4 DEF Related
  <2>6. CASE Related(f) = {f} /\ event[f].delta = Minus(event[f].after, event[f].before)
    BY <2>1, <2>5, <2>6 DEF Compensated
  <2>7. CASE \E g \in Events : /\ g # f /\ Existing(g) /\ Related(f) = {f, g}
                               /\ Plus(event[f].delta, event[g].delta)
                                    = Minus(event[f].after, event[f].before)
    <3>1. PICK g \in Events : /\ g # f /\ Existing(g) /\ Related(f) = {f, g}
                             /\ Plus(event[f].delta, event[g].delta)
                                  = Minus(event[f].after, event[f].before)
      BY <2>7
    <3>2. Existing(g)' /\ event'[g] = event[g]
      BY <1>1, <3>1
    <3> QED BY <2>1, <2>5, <3>1, <3>2 DEF Compensated
  <2> QED BY <2>2, <2>6, <2>7 DEF Compensated
<1>6. KeysUnique'
  <2> SUFFICES ASSUME NEW f \in Events, NEW g \in Events, Existing(f)', Existing(g)',
                      event'[f].key = event'[g].key, event'[f].key # None
               PROVE  f = g
    BY DEF KeysUnique
  <2>1. \A h \in Events : Existing(h) => event[h].key # row.key \/ row.key = None
    BY DEF Fits, WithKey
  <2> QED BY <1>1, <2>1 DEF EventInv, KeysUnique
<1>7. ReversalsUndoAdjustments'
  <2> SUFFICES ASSUME NEW f \in Events, Existing(f)', event'[f].reverses # None
               PROVE  LET original == event'[event'[f].reverses] IN
                        /\ event'[event'[f].reverses] # NoEvent
                        /\ original.operation = "ADJUSTED"
                        /\ original.source \in {"ADMIN_GRANT", "ADMIN_ADJUST"}
                        /\ original.reverses = None
                        /\ event'[f].user = original.user
                        /\ Plus(event'[f].delta, original.delta) = Zero
                        /\ \A g \in Events :
                             Existing(g)' /\ event'[g].reverses = event'[f].reverses => g = f
    BY DEF ReversalsUndoAdjustments
  <2>1. CASE f = e
    <3> DEFINE o == row.reverses
    <3>1. /\ o \in Events /\ Existing(o) /\ IsEligibleOriginal(o) /\ ~Reversed(o)
          /\ row.user = event[o].user /\ Plus(row.delta, event[o].delta) = Zero
      BY <1>1, <2>1 DEF Fits
    <3>2. event'[o] = event[o] /\ event[o] # NoEvent
      BY <1>1, <3>1 DEF Existing
    <3>3. \A g \in Events : Existing(g)' /\ event'[g].reverses = o => g = e
      BY <1>1, <3>1 DEF Reversed
    <3> HIDE DEF o
    <3>4. event'[f].reverses = o /\ event'[f] = row
      BY <1>1, <2>1 DEF o
    <3> QED BY <2>1, <3>1, <3>2, <3>3, <3>4 DEF IsEligibleOriginal
  <2>2. CASE f # e
    <3> DEFINE o == event[f].reverses
    <3>1. Existing(f) /\ event'[f] = event[f] /\ o # None
      BY <1>1, <2>2
    <3>2. /\ o \in Events /\ event[o] # NoEvent /\ event[o].operation = "ADJUSTED"
          /\ event[o].source \in {"ADMIN_GRANT", "ADMIN_ADJUST"} /\ event[o].reverses = None
          /\ event[f].user = event[o].user /\ Plus(event[f].delta, event[o].delta) = Zero
          /\ \A g \in Events : Existing(g) /\ event[g].reverses = o => g = f
      BY <1>3, <3>1 DEF EventInv, ReversalsUndoAdjustments
    <3>3. event'[o] = event[o]
      BY <1>2, <3>2 DEF EventsKept, Existing
    <3>4. row.reverses # o
      BY <3>1 DEF Fits, Reversed
    <3>5. \A g \in Events : Existing(g)' /\ event'[g].reverses = o => g = f
      BY <1>1, <3>2, <3>4
    <3> HIDE DEF o
    <3>6. event'[f].reverses = o
      BY <3>1 DEF o
    <3> QED BY <3>1, <3>2, <3>3, <3>5, <3>6
  <2> QED BY <2>1, <2>2
<1> QED BY <1>2, <1>4, <1>5, <1>6, <1>7 DEF EventInv

\* The one event of a reconciliation, or its two.
Compensation(e, f, first, second) ==
  LET difference == Minus(first.after, first.before) IN
    /\ ~Existing(e) /\ ~Existing(f)
    /\ first \in Event /\ first # NoEvent /\ second \in Event /\ second # NoEvent
    /\ event' \in [Events -> Event \union {NoEvent}]
    /\ event'[e] = first
    /\ f # e => event'[f] = second
    /\ \A g \in Events \ {e, f} : event'[g] = event[g]
    /\ first.operation = "RECONCILED" /\ first.audit = e /\ first.reverses = None
    /\ first.delta.points * first.delta.xp >= 0
    /\ WithKey(first.key) = {}
    /\ f = e => first.delta = difference
    /\ f # e =>
         /\ second.operation = "RECONCILED" /\ second.audit = e /\ second.reverses = None
         /\ second.delta.points * second.delta.xp >= 0
         /\ second.key = None
         /\ second.before = first.before /\ second.after = first.after
         /\ Plus(first.delta, second.delta) = difference
         /\ Plus(second.delta, first.delta) = difference

LEMMA CompensationAdded ==
  ASSUME EventInv, event \in [Events -> Event \union {NoEvent}],
         NEW e \in Events, NEW f \in Events, NEW first, NEW second,
         Compensation(e, f, first, second)
  PROVE  EventInv' /\ EventsKept
<1>1. /\ ~Existing(e) /\ ~Existing(f) /\ event'[e] = first
      /\ first \in Event /\ first # NoEvent
      /\ f # e => event'[f] = second /\ second # NoEvent /\ second \in Event
      /\ \A g \in Events : Existing(g)' <=> Existing(g) \/ g \in {e, f}
      /\ \A g \in Events \ {e, f} : event'[g] = event[g]
  BY DEF Compensation, Existing
<1>2. EventsKept
  BY <1>1 DEF EventsKept
<1>3. \A g \in Events : Existing(g) =>
        /\ event[g].audit \in Events \union {None} /\ event[g].reverses \in Events \union {None}
  BY DEF Existing, Event
<1>4. \A g \in {e, f} :
        /\ event'[g].operation = "RECONCILED" /\ event'[g].audit = e /\ event'[g].reverses = None
        /\ event'[g].delta.points * event'[g].delta.xp >= 0
        /\ event'[g].before = first.before /\ event'[g].after = first.after
  BY <1>1 DEF Compensation
<1>5. ASSUME NEW g \in Events, Existing(g)' PROVE RowHolds(g)'
  <2>1. CASE g \in {e, f}
    BY <1>1, <1>4, <2>1, NoneAssumption DEF RowHolds
  <2>2. CASE g \notin {e, f}
    <3>1. Existing(g) /\ RowHolds(g) /\ event'[g] = event[g]
      BY <1>1, <1>5, <2>2 DEF EventInv
    <3> QED BY <1>1, <1>3, <3>1 DEF RowHolds
  <2> QED BY <2>1, <2>2
<1>6. \A g \in Events : Existing(g) => event[g].audit # e
  <2> SUFFICES ASSUME NEW g \in Events, Existing(g) PROVE event[g].audit # e
    OBVIOUS
  <2>1. RowHolds(g)
    BY DEF EventInv
  <2> QED BY <1>1, <2>1, NoneAssumption DEF RowHolds
<1>7. ASSUME NEW g \in Events, Existing(g)', event'[g].operation = "RECONCILED"
      PROVE  Compensated(g)'
  <2>1. CASE g \in {e, f}
    <3>1. Related(g)' = {e, f}
      BY <1>1, <1>4, <1>6, <2>1 DEF Related
    <3>2. CASE e = f
      BY <1>1, <2>1, <3>1, <3>2 DEF Compensated, Compensation
    <3>3. CASE e # f /\ g = e
      BY <1>1, <1>4, <3>1, <3>3 DEF Compensated, Compensation
    <3>4. CASE e # f /\ g = f
      BY <1>1, <1>4, <3>1, <3>4 DEF Compensated, Compensation
    <3> QED BY <2>1, <3>2, <3>3, <3>4
  <2>2. CASE g \notin {e, f}
    <3>1. Existing(g) /\ event'[g] = event[g] /\ Compensated(g)
      BY <1>1, <1>7, <2>2 DEF EventInv
    <3>2. Related(g)' = Related(g)
      BY <1>1, <1>4, <1>6, <3>1 DEF Related
    <3>3. CASE Related(g) = {g} /\ event[g].delta = Minus(event[g].after, event[g].before)
      BY <3>1, <3>2, <3>3 DEF Compensated
    <3>4. CASE \E h \in Events : /\ h # g /\ Existing(h) /\ Related(g) = {g, h}
                                 /\ Plus(event[g].delta, event[h].delta)
                                      = Minus(event[g].after, event[g].before)
      <4>1. PICK h \in Events : /\ h # g /\ Existing(h) /\ Related(g) = {g, h}
                               /\ Plus(event[g].delta, event[h].delta)
                                    = Minus(event[g].after, event[g].before)
        BY <3>4
      <4>2. Existing(h)' /\ event'[h] = event[h]
        BY <1>1, <4>1
      <4> QED BY <3>1, <3>2, <4>1, <4>2 DEF Compensated
    <3> QED BY <3>1, <3>3, <3>4 DEF Compensated
  <2> QED BY <2>1, <2>2
<1>8. KeysUnique'
  <2> SUFFICES ASSUME NEW g \in Events, NEW h \in Events, Existing(g)', Existing(h)',
                      event'[g].key = event'[h].key, event'[g].key # None
               PROVE  g = h
    BY DEF KeysUnique
  <2>1. \A i \in Events : Existing(i) => event[i].key # first.key
    BY DEF Compensation, WithKey
  <2>2. f # e => event'[f].key = None
    BY <1>1 DEF Compensation
  <2> QED BY <1>1, <2>1, <2>2 DEF EventInv, KeysUnique
<1>9. ReversalsUndoAdjustments'
  <2> SUFFICES ASSUME NEW g \in Events, Existing(g)', event'[g].reverses # None
               PROVE  LET original == event'[event'[g].reverses] IN
                        /\ event'[event'[g].reverses] # NoEvent
                        /\ original.operation = "ADJUSTED"
                        /\ original.source \in {"ADMIN_GRANT", "ADMIN_ADJUST"}
                        /\ original.reverses = None
                        /\ event'[g].user = original.user
                        /\ Plus(event'[g].delta, original.delta) = Zero
                        /\ \A h \in Events :
                             Existing(h)' /\ event'[h].reverses = event'[g].reverses => h = g
    BY DEF ReversalsUndoAdjustments
  <2> DEFINE o == event[g].reverses
  <2>1. g \notin {e, f} /\ Existing(g) /\ event'[g] = event[g] /\ o # None
    BY <1>1, <1>4
  <2>2. /\ o \in Events /\ event[o] # NoEvent /\ event[o].operation = "ADJUSTED"
        /\ event[o].source \in {"ADMIN_GRANT", "ADMIN_ADJUST"} /\ event[o].reverses = None
        /\ event[g].user = event[o].user /\ Plus(event[g].delta, event[o].delta) = Zero
        /\ \A h \in Events : Existing(h) /\ event[h].reverses = o => h = g
    BY <1>3, <2>1 DEF EventInv, ReversalsUndoAdjustments
  <2>3. event'[o] = event[o]
    BY <1>2, <2>2 DEF EventsKept, Existing
  <2>4. \A h \in Events : Existing(h)' /\ event'[h].reverses = o => h = g
    BY <1>1, <1>4, <2>1, <2>2
  <2> HIDE DEF o
  <2>5. event'[g].reverses = o
    BY <2>1 DEF o
  <2> QED BY <2>1, <2>2, <2>3, <2>4, <2>5
<1> QED BY <1>2, <1>5, <1>7, <1>8, <1>9 DEF EventInv

-----------------------------------------------------------------------------
(* Frames: what a step leaves to a transaction that does not take it.       *)

SameTx(s) ==
  /\ pc'[s] = pc[s]
  /\ tx'[s] = tx[s]
  /\ \A u \in Users : userLock'[u] = s <=> userLock[u] = s
  /\ \A e \in Events : eventLock'[e] = s <=> eventLock[e] = s

\* Whose row s has locked keeps the balance and the events, and an event it has
\* locked is not reversed.
RowsFor(s) ==
  /\ EventsKept
  /\ \A u \in Users :
       userLock[u] = s => stored'[u] = stored[u] /\ ledger'[u] = ledger[u]
  /\ \A e \in Events : eventLock[e] = s /\ ~Reversed(e) => ~Reversed(e)'

LEMMA OthersKept ==
  ASSUME IInv, NEW s \in Tx, SameTx(s), RowsFor(s)
  PROVE  TxInv(s)'
<1>1. TxInv(s) /\ pc'[s] = pc[s] /\ tx'[s] = tx[s]
  BY DEF IInv, SameTx
<1>2. pc[s] \notin Ended /\ Op(s) = "REVERSED" =>
        /\ tx[s].request.original \in Events
        /\ event'[tx[s].request.original] = event[tx[s].request.original]
        /\ Existing(tx[s].request.original)
  BY <1>1, RequestFields DEF TxInv, RequestKnown, Op, RowsFor, EventsKept
<1>3. RequestKnown(s)'
  BY <1>1, <1>2 DEF TxInv, RequestKnown, Op, Existing
<1>4. pc[s] \notin Ended /\ Holds(s) => tx[s].request.user \in Users
  BY <1>1, RequestFields DEF TxInv, RequestKnown, Holds, Op
<1>5. BalanceHeld(s)'
  <2>1. pc[s] = "createPointEvent" /\ Op(s) = "RECONCILED" => pc[s] \notin Ended /\ Holds(s)
    BY DEF Holds, Ended
  <2> QED BY <1>1, <1>4, <2>1 DEF TxInv, BalanceHeld, SameTx, RowsFor, Holds, Op
<1>6. OriginalHeld(s)'
  <2>1. pc[s] \in {"findByIdempotencyKey", "createPointEvent"} => pc[s] \notin Ended
    BY DEF Ended
  <2> QED
    BY <1>1, <1>2, <2>1 DEF TxInv, OriginalHeld, SameTx, RowsFor, Op, IsEligibleOriginal
<1> QED BY <1>3, <1>5, <1>6 DEF TxInv

\* Every step: what remains to be shown.
LEMMA StepInv ==
  ASSUME IInv, TablesInv', ProtocolTypeOK',
         \A s \in Tx : (SameTx(s) /\ RowsFor(s)) \/ TxInv(s)'
  PROVE  IInv'
<1>1. \A s \in Tx : TxInv(s)'
  BY OthersKept
<1> QED BY <1>1, Parts DEF IInv, TypeOK, TablesInv, ProtocolTypeOK, TxInv, RequestKnown

LEMMA TablesKept ==
  ASSUME IInv, UNCHANGED tables, answers' = answers
  PROVE  TablesInv' /\ \A s \in Tx : RowsFor(s)
<1>1. TablesInv
  BY Parts
<1>2. TablesInv'
  BY <1>1
  DEF TablesInv, tables, NeverNegative, EventInv, RowHolds, Compensated, Related, KeysUnique,
      ReversalsUndoAdjustments, AnswersRecorded, Effect, Existing
<1> QED BY <1>2 DEF tables, RowsFor, EventsKept, Reversed, Existing

\* A transaction that ends leaves the others alone.
LEMMA FinishFrame ==
  ASSUME IInv, NEW t \in Tx, NEW result \in Ended, Finish(t, result)
  PROVE  ProtocolTypeOK' /\ TxInv(t)' /\ \A s \in Tx \ {t} : SameTx(s)
<1>1. Idle \in [request : Requests \union {None}, balance : Totals, sum : Totals]
  BY TotalsClosed DEF Idle
<1>2. pc' \in [Tx -> Ended \union Statements]
  BY DEF Finish, IInv, TypeOK
<1>3. tx' \in [Tx -> [request : Requests \union {None}, balance : Totals, sum : Totals]]
  BY <1>1 DEF Finish, IInv, TypeOK
<1>4. userLock' \in [Users -> Tx \union {None}] /\ eventLock' \in [Events -> Tx \union {None}]
  BY DEF Finish, Unlock, Released, IInv, TypeOK
<1>5. pc'[t] \in Ended
  BY DEF Finish, IInv, TypeOK
<1>6. TxInv(t)'
  BY <1>5 DEF TxInv, RequestKnown, BalanceHeld, OriginalHeld, Ended
<1>7. \A s \in Tx \ {t} : SameTx(s)
  BY NoneAssumption DEF Finish, Unlock, Released, IInv, TypeOK, SameTx
<1> QED BY <1>2, <1>3, <1>4, <1>6, <1>7 DEF ProtocolTypeOK

LEMMA RefuseInv ==
  ASSUME IInv, NEW t \in Tx, Refuse(t) \/ Abort(t)
  PROVE  IInv'
<1>1. PICK result \in Ended : Finish(t, result) /\ UNCHANGED tables /\ answers' = answers
  BY DEF Refuse, Abort, Ended
<1> QED BY <1>1, TablesKept, FinishFrame, StepInv

\* An answer tells what an event recorded.
LEMMA AnswerRecorded ==
  ASSUME IInv, NEW t \in Tx, NEW e \in Events,
         NEW request \in Requests, request = tx[t].request,
         NEW before \in Totals, NEW after \in Totals,
         Answer(t, e, before, after), EventsKept,
         Effect(e, request)', event'[e].before = before, event'[e].after = after
  PROVE  answers' \subseteq Answers /\ AnswersRecorded'
<1> DEFINE new == [request |-> request, event |-> e, before |-> before, after |-> after]
<1>1. answers \subseteq Answers /\ \A a \in answers : Recorded(a)
  BY DEF IInv, TypeOK, AnswersRecorded, Recorded
<1>2. answers' = answers \union {new} /\ new \in Answers
  BY DEF Answer, Answers
<1>3. Recorded(new)'
  BY DEF Recorded
<1>4. \A a \in answers : Recorded(a)'
  BY <1>1, RecordedKept
<1> HIDE DEF new
<1>5. \A a \in answers' : Recorded(a)'
  BY <1>2, <1>3, <1>4
<1>6. AnswersRecorded'
  BY <1>5 DEF AnswersRecorded, Recorded
<1> QED BY <1>1, <1>2, <1>6

LEMMA AnswersStay ==
  ASSUME IInv, answers' = answers, EventsKept
  PROVE  answers' \subseteq Answers /\ AnswersRecorded'
<1>1. answers \subseteq Answers /\ \A a \in answers : Recorded(a)
  BY DEF IInv, TypeOK, AnswersRecorded, Recorded
<1>2. \A a \in answers' : Recorded(a)'
  BY <1>1, RecordedKept
<1> QED BY <1>1, <1>2 DEF AnswersRecorded, Recorded

\* A single row leaves to s what it has locked.
LEMMA AddedRowsFor ==
  ASSUME IInv, NEW s \in Tx, NEW e \in Events, NEW row, Added(e, row), EventsKept,
         \A u \in Users : userLock[u] = s => stored'[u] = stored[u] /\ ledger'[u] = ledger[u],
         \A original \in Events : row.reverses = original => eventLock[original] # s
  PROVE  RowsFor(s)
BY DEF RowsFor, Reversed, Added, Existing

LEMMA Moved ==
  ASSUME IInv, NEW u \in Users, NEW delta \in Totals, Move(u, delta)
  PROVE  /\ stored' \in [Users -> Totals] /\ ledger' \in [Users -> Totals]
         /\ stored'[u] = Plus(stored[u], delta) /\ ledger'[u] = Plus(ledger[u], delta)
         /\ \A v \in Users \ {u} : stored'[v] = stored[v] /\ ledger'[v] = ledger[v]
         /\ ~Negative(Plus(stored[u], delta)) => NeverNegative'
<1>1. /\ stored \in [Users -> Totals] /\ ledger \in [Users -> Totals]
      /\ Plus(stored[u], delta) \in Totals /\ Plus(ledger[u], delta) \in Totals
  BY TotalsClosed DEF IInv, TypeOK
<1>2. /\ stored' \in [Users -> Totals] /\ ledger' \in [Users -> Totals]
      /\ stored'[u] = Plus(stored[u], delta) /\ ledger'[u] = Plus(ledger[u], delta)
      /\ \A v \in Users \ {u} : stored'[v] = stored[v] /\ ledger'[v] = ledger[v]
  BY <1>1 DEF Move
<1>3. ~Negative(Plus(stored[u], delta)) => NeverNegative'
  BY <1>2 DEF IInv, NeverNegative
<1> QED BY <1>2, <1>3

-----------------------------------------------------------------------------
(* Requests.                                                               *)

LEMMA ReplayInv ==
  ASSUME IInv, NEW t \in Tx, pc[t] \notin Ended,
         NEW e \in WithKey(tx[t].request.key), Replay(t, e)
  PROVE  IInv'
<1>1. CASE Refuse(t)
  BY <1>1, RefuseInv
<1>2. CASE /\ Identical(e, tx[t].request)
           /\ Answer(t, e, event[e].before, event[e].after)
           /\ Finish(t, "answered")
           /\ UNCHANGED tables
  <2>1. PICK request \in Requests : request = tx[t].request
    BY DEF IInv, TypeOK
  <2>2. /\ e \in Events /\ Existing(e) /\ event[e].key = request.key /\ event' = event
        /\ event[e] \in Event
    BY <1>2, <2>1 DEF WithKey, tables, IInv, TypeOK, Existing
  <2>3. EventsKept /\ event[e].before \in Totals /\ event[e].after \in Totals
    BY <2>2 DEF EventsKept, Event
  <2>4. Effect(e, request)'
    BY <1>2, <2>1, <2>2 DEF Identical, Effect, Existing
  <2>5. answers' \subseteq Answers /\ AnswersRecorded'
    BY <1>2, <2>1, <2>2, <2>3, <2>4, AnswerRecorded
  <2>6. TablesInv'
    BY <1>2, <2>5, Parts
    DEF TablesInv, tables, NeverNegative, EventInv, RowHolds, Compensated, Related,
        KeysUnique, ReversalsUndoAdjustments, Existing
  <2>7. \A s \in Tx : RowsFor(s)
    BY <1>2 DEF tables, RowsFor, EventsKept, Reversed, Existing
  <2> QED BY <1>2, <2>6, <2>7, FinishFrame, StepInv DEF Ended
<1> QED BY <1>1, <1>2 DEF Replay

\* A step that writes no row and gives no answer.
LEMMA QuietInv ==
  ASSUME IInv, NEW t \in Tx, UNCHANGED <<tables, answers>>, ProtocolTypeOK',
         \A s \in Tx \ {t} : SameTx(s), TxInv(t)'
  PROVE  IInv'
BY TablesKept, StepInv

LEMMA UniqueViolationInv ==
  ASSUME IInv, NEW t \in Tx, pc[t] = "createPointEvent", UniqueViolation(t)
  PROVE  IInv'
<1>1. TxInv(t) /\ pc'[t] = "findWinner" /\ tx' = tx /\ UNCHANGED <<tables, answers>>
  BY DEF UniqueViolation, Goto, IInv, TypeOK
<1>2. ProtocolTypeOK'
  BY DEF UniqueViolation, Goto, Unlock, Released, IInv, TypeOK, ProtocolTypeOK, Statements
<1>3. \A s \in Tx \ {t} : SameTx(s)
  BY NoneAssumption DEF UniqueViolation, Goto, Unlock, Released, IInv, TypeOK, SameTx
<1>4. TxInv(t)'
  BY <1>1
  DEF TxInv, RequestKnown, BalanceHeld, OriginalHeld, Holds, Op, Ended, tables, Existing
<1> QED BY <1>1, <1>2, <1>3, <1>4, QuietInv

LEMMA FindWinnerInv ==
  ASSUME IInv, NEW t \in Tx, FindWinner(t)
  PROVE  IInv'
BY ReplayInv, RefuseInv DEF FindWinner, Ended

LEMMA BeginInv ==
  ASSUME IInv, NEW t \in Tx, NEW request \in Requests, Begin(t, request)
  PROVE  IInv'
<1> DEFINE facts == [Idle EXCEPT !.request = request]
<1>1. facts \in [request : Requests \union {None}, balance : Totals, sum : Totals]
      /\ facts.request = request
  BY TotalsClosed DEF Idle
<1>2. /\ request.op \in Operations
      /\ request.op = "REVERSED" => request.original \in Events /\ Existing(request.original)
  BY RequestFields DEF Begin
<1> HIDE DEF facts
<1>3. tx'[t] = facts /\ UNCHANGED <<tables, locks, answers>> /\ tx' = [tx EXCEPT ![t] = facts]
  BY DEF Begin, IInv, TypeOK, facts
<1>4. PICK statement \in Statements :
        /\ pc' = [pc EXCEPT ![t] = statement]
        /\ request.op = "ADJUSTED" => statement = "lockParticipant"
        /\ request.op = "REVERSED" => statement = "lockPointEvent"
        /\ request.op = "RECONCILED" => statement = "lockReconciliation"
  <2>1. CASE request.op = "ADJUSTED"
    BY <2>1 DEF Begin, Goto, Statements
  <2>2. CASE request.op = "REVERSED"
    BY <2>2 DEF Begin, Goto, Statements
  <2>3. CASE request.op = "RECONCILED"
    BY <2>3 DEF Begin, Goto, Statements
  <2> QED BY <1>2, <2>1, <2>2, <2>3 DEF Operations
<1>5. ProtocolTypeOK' /\ pc'[t] = statement /\ \A s \in Tx \ {t} : SameTx(s)
  BY <1>1, <1>3, <1>4 DEF IInv, TypeOK, ProtocolTypeOK, SameTx, locks
<1>6. TxInv(t)'
  BY <1>1, <1>2, <1>3, <1>4, <1>5
  DEF TxInv, RequestKnown, BalanceHeld, OriginalHeld, Holds, Op, Operations, tables, Existing
<1> QED BY <1>3, <1>5, <1>6, QuietInv

\* Transaction t goes to a statement with facts that keep its request, and locks
\* at most participant u.
LEMMA HoldParticipantInv ==
  ASSUME IInv, NEW t \in Tx, pc[t] \notin Ended, UNCHANGED <<tables, eventLock, answers>>,
         NEW u \in Users, userLock[u] = None, userLock' = [userLock EXCEPT ![u] = t],
         NEW facts \in [request : Requests \union {None}, balance : Totals, sum : Totals],
         tx' = [tx EXCEPT ![t] = facts], facts.request = tx[t].request,
         NEW statement \in Statements, pc' = [pc EXCEPT ![t] = statement], TxInv(t)'
  PROVE  IInv'
<1>1. tx'[t] = facts /\ pc'[t] = statement /\ userLock'[u] = t
  BY DEF IInv, TypeOK
<1>2. ProtocolTypeOK' /\ \A s \in Tx \ {t} : SameTx(s)
  BY <1>1, NoneAssumption DEF IInv, TypeOK, ProtocolTypeOK, SameTx
<1> QED BY <1>2, QuietInv

LEMMA LockParticipantInv ==
  ASSUME IInv, NEW t \in Tx, LockParticipant(t)
  PROVE  IInv'
<1> DEFINE u == tx[t].request.user
           facts == [tx[t] EXCEPT !.balance = stored[u]]
<1>1. TxInv(t) /\ pc[t] = "lockParticipant" /\ pc[t] \notin Ended /\ tx[t].request \in Requests
      /\ tx[t] \in [request : Requests \union {None}, balance : Totals, sum : Totals]
  BY DEF LockParticipant, IInv, TypeOK, Ended
<1>2. Op(t) = "ADJUSTED" /\ u \in Users /\ stored[u] \in Totals
  BY <1>1, RequestFields DEF TxInv, RequestKnown, Op, IInv, TypeOK
<1>3. /\ facts \in [request : Requests \union {None}, balance : Totals, sum : Totals]
      /\ facts.request = tx[t].request /\ facts.balance = stored[u]
  BY <1>1, <1>2
<1>4. /\ userLock[u] = None /\ userLock' = [userLock EXCEPT ![u] = t]
      /\ tx' = [tx EXCEPT ![t] = facts] /\ UNCHANGED <<tables, eventLock, answers>>
      /\ pc' = [pc EXCEPT ![t] = "findByIdempotencyKey"]
      /\ "findByIdempotencyKey" \in Statements
  BY DEF LockParticipant, Goto, Statements
<1> HIDE DEF facts
<1>5. tx'[t] = facts /\ pc'[t] = "findByIdempotencyKey" /\ userLock'[u] = t
  BY <1>2, <1>4 DEF IInv, TypeOK
<1>6. TxInv(t)'
  BY <1>1, <1>2, <1>3, <1>4, <1>5
  DEF TxInv, RequestKnown, BalanceHeld, OriginalHeld, Holds, Op, tables
<1> QED BY <1>1, <1>2, <1>3, <1>4, <1>6, HoldParticipantInv

LEMMA LockReconciliationInv ==
  ASSUME IInv, NEW t \in Tx, LockReconciliation(t)
  PROVE  IInv'
<1> DEFINE u == tx[t].request.user
           facts == [tx[t] EXCEPT !.balance = stored[u]]
<1>1. TxInv(t) /\ pc[t] = "lockReconciliation" /\ pc[t] \notin Ended /\ tx[t].request \in Requests
      /\ tx[t] \in [request : Requests \union {None}, balance : Totals, sum : Totals]
  BY DEF LockReconciliation, IInv, TypeOK, Ended
<1>2. Op(t) = "RECONCILED" /\ u \in Users /\ stored[u] \in Totals
  BY <1>1, RequestFields DEF TxInv, RequestKnown, Op, IInv, TypeOK
<1>3. /\ facts \in [request : Requests \union {None}, balance : Totals, sum : Totals]
      /\ facts.request = tx[t].request /\ facts.balance = stored[u]
  BY <1>1, <1>2
<1>4. /\ userLock[u] = None /\ userLock' = [userLock EXCEPT ![u] = t]
      /\ tx' = [tx EXCEPT ![t] = facts] /\ UNCHANGED <<tables, eventLock, answers>>
      /\ pc' = [pc EXCEPT ![t] = "sumLedger"]
      /\ "sumLedger" \in Statements
  BY DEF LockReconciliation, Goto, Statements
<1> HIDE DEF facts
<1>5. tx'[t] = facts /\ pc'[t] = "sumLedger" /\ userLock'[u] = t
  BY <1>2, <1>4 DEF IInv, TypeOK
<1>6. TxInv(t)'
  BY <1>1, <1>2, <1>3, <1>4, <1>5
  DEF TxInv, RequestKnown, BalanceHeld, OriginalHeld, Holds, Op, tables
<1> QED BY <1>1, <1>2, <1>3, <1>4, <1>6, HoldParticipantInv

LEMMA FindForAdjustmentInv ==
  ASSUME IInv, NEW t \in Tx, FindForAdjustment(t)
  PROVE  IInv'
<1>1. /\ TxInv(t) /\ pc[t] = "findByIdempotencyKey" /\ pc[t] \notin Ended /\ Op(t) = "ADJUSTED"
  BY DEF FindForAdjustment, IInv, Ended, Op
<1>2. CASE \E e \in WithKey(tx[t].request.key) : Replay(t, e)
  BY <1>1, <1>2, ReplayInv
<1>3. CASE Refuse(t)
  BY <1>3, RefuseInv
<1>4. CASE /\ ~Overdrawn(Plus(tx[t].balance, tx[t].request.delta))
           /\ Goto(t, "createPointEvent")
           /\ UNCHANGED <<tables, locks, tx, answers>>
  <2>1. pc'[t] = "createPointEvent" /\ ProtocolTypeOK' /\ \A s \in Tx \ {t} : SameTx(s)
    BY <1>4 DEF Goto, IInv, TypeOK, ProtocolTypeOK, SameTx, locks, Statements
  <2>2. TxInv(t)'
    BY <1>1, <1>4, <2>1
    DEF TxInv, RequestKnown, BalanceHeld, OriginalHeld, Holds, Op, tables, locks
  <2> QED BY <1>4, <2>1, <2>2, QuietInv
<1> QED BY <1>2, <1>3, <1>4 DEF FindForAdjustment

LEMMA LockPointEventInv ==
  ASSUME IInv, NEW t \in Tx, LockPointEvent(t)
  PROVE  IInv'
<1> DEFINE original == tx[t].request.original
<1>1. /\ TxInv(t) /\ pc[t] = "lockPointEvent" /\ pc[t] \notin Ended /\ Op(t) = "REVERSED"
      /\ original \in Events /\ Existing(original)
  BY RequestFields DEF LockPointEvent, IInv, TypeOK, TxInv, RequestKnown, Op, Ended
<1>2. CASE Refuse(t)
  BY <1>2, RefuseInv
<1>3. CASE /\ eventLock[original] = None
           /\ IsEligibleOriginal(original)
           /\ eventLock' = [eventLock EXCEPT ![original] = t]
           /\ Goto(t, "findByIdempotencyKey")
           /\ UNCHANGED <<tables, userLock, tx, answers>>
  <2>1. pc'[t] = "findByIdempotencyKey" /\ eventLock'[original] = t
    BY <1>1, <1>3 DEF Goto, IInv, TypeOK
  <2>2. ProtocolTypeOK' /\ \A s \in Tx \ {t} : SameTx(s)
    BY <1>1, <1>3, NoneAssumption
    DEF Goto, IInv, TypeOK, ProtocolTypeOK, SameTx, Statements
  <2>3. TxInv(t)'
    BY <1>1, <1>3, <2>1
    DEF TxInv, RequestKnown, BalanceHeld, OriginalHeld, Holds, Op, tables, Existing,
        IsEligibleOriginal
  <2> QED BY <1>3, <2>2, <2>3, QuietInv
<1> QED BY <1>2, <1>3 DEF LockPointEvent

LEMMA FindForReversalInv ==
  ASSUME IInv, NEW t \in Tx, FindForReversal(t)
  PROVE  IInv'
<1>1. /\ TxInv(t) /\ pc[t] = "findByIdempotencyKey" /\ pc[t] \notin Ended /\ Op(t) = "REVERSED"
  BY DEF FindForReversal, IInv, Ended, Op
<1>2. CASE \E e \in WithKey(tx[t].request.key) : Replay(t, e)
  BY <1>1, <1>2, ReplayInv
<1>3. CASE Refuse(t)
  BY <1>3, RefuseInv
<1>4. CASE /\ ~Reversed(tx[t].request.original)
           /\ Goto(t, "createPointEvent")
           /\ UNCHANGED <<tables, locks, tx, answers>>
  <2>1. pc'[t] = "createPointEvent" /\ ProtocolTypeOK' /\ \A s \in Tx \ {t} : SameTx(s)
    BY <1>4 DEF Goto, IInv, TypeOK, ProtocolTypeOK, SameTx, locks, Statements
  <2>2. TxInv(t)'
    BY <1>1, <1>4, <2>1
    DEF TxInv, RequestKnown, BalanceHeld, OriginalHeld, Holds, Op, tables, locks, Existing,
        IsEligibleOriginal, Reversed
  <2> QED BY <1>4, <2>1, <2>2, QuietInv
<1> QED BY <1>2, <1>3, <1>4 DEF FindForReversal

LEMMA SumLedgerInv ==
  ASSUME IInv, NEW t \in Tx, SumLedger(t)
  PROVE  IInv'
<1> DEFINE u == tx[t].request.user
           facts == [tx[t] EXCEPT !.sum = ledger[u]]
<1>1. /\ TxInv(t) /\ pc[t] = "sumLedger" /\ pc[t] \notin Ended /\ Op(t) = "RECONCILED"
      /\ u \in Users /\ ledger[u] \in Totals
      /\ tx[t] \in [request : Requests \union {None}, balance : Totals, sum : Totals]
  BY RequestFields DEF SumLedger, IInv, TypeOK, TxInv, RequestKnown, Op, Ended
<1>2. CASE \E e \in WithKey(tx[t].request.key) : Replay(t, e)
  BY <1>1, <1>2, ReplayInv
<1>3. CASE Refuse(t)
  BY <1>3, RefuseInv
<1>4. CASE /\ tx' = [tx EXCEPT ![t] = facts]
           /\ Goto(t, "createPointEvent")
           /\ UNCHANGED <<tables, locks, answers>>
  <2>1. /\ facts \in [request : Requests \union {None}, balance : Totals, sum : Totals]
        /\ facts.request = tx[t].request /\ facts.balance = tx[t].balance
        /\ facts.sum = ledger[u]
    BY <1>1
  <2> HIDE DEF facts
  <2>2. /\ pc'[t] = "createPointEvent" /\ tx'[t] = facts
        /\ ProtocolTypeOK' /\ \A s \in Tx \ {t} : SameTx(s)
    BY <1>4, <2>1 DEF Goto, IInv, TypeOK, ProtocolTypeOK, SameTx, locks, Statements
  <2>3. TxInv(t)'
    BY <1>1, <1>4, <2>1, <2>2
    DEF TxInv, RequestKnown, BalanceHeld, OriginalHeld, Holds, Op, tables, locks
  <2> QED BY <1>4, <2>2, <2>3, QuietInv
<1> QED BY <1>2, <1>3, <1>4 DEF SumLedger

-----------------------------------------------------------------------------
(* Steps that write events.                                                *)

LEMMA CreateAdjustmentInv ==
  ASSUME IInv, NEW t \in Tx, NEW e \in Events, CreateAdjustment(t, e)
  PROVE  IInv'
<1>1. PICK request \in Requests : request = tx[t].request
  BY DEF CreateAdjustment, IInv, TypeOK, Ended
<1>2. PICK before \in Totals : before = tx[t].balance
  BY DEF IInv, TypeOK
<1> DEFINE u == request.user
           after == Plus(before, request.delta)
           row == [user |-> u, delta |-> request.delta,
                   source |-> IF Negative(request.delta) THEN "ADMIN_ADJUST" ELSE "ADMIN_GRANT",
                   operation |-> "ADJUSTED", admin |-> request.admin, key |-> request.key,
                   reverses |-> None, audit |-> e, before |-> before, after |-> after]
<1>3. /\ TxInv(t) /\ pc[t] = "createPointEvent" /\ pc[t] \notin Ended
      /\ Op(t) = "ADJUSTED" /\ request.op = "ADJUSTED" /\ ~Existing(e)
  BY <1>1 DEF CreateAdjustment, IInv, Ended, Op
<1>4. /\ u \in Users /\ request.delta \in Deltas /\ request.delta \in Totals
      /\ request.admin \in Admins /\ request.key \in Keys
  BY <1>3, RequestFields
<1>5. /\ before = stored[u] /\ userLock[u] = t /\ ~Negative(after) /\ after \in Totals
  BY <1>1, <1>2, <1>3, <1>4, TotalsClosed DEF TxInv, BalanceHeld, Holds, Overdrawn
<1>6. CASE UniqueViolation(t)
  BY <1>3, <1>6, UniqueViolationInv
<1>7. CASE /\ Unique(request.key, None)
           /\ Insert([x \in {e} |-> row])
           /\ Move(u, request.delta)
           /\ Answer(t, e, before, after)
           /\ Finish(t, "answered")
  <2>1. row \in Event
    BY <1>4, <1>5 DEF Event, Sources, Operations
  <2>2. /\ row.audit = e /\ row.operation = "ADJUSTED" /\ row.admin = request.admin
        /\ row.delta = request.delta /\ row.key = request.key /\ row.reverses = None
        /\ row.user = u /\ row.before = before /\ row.after = after
    OBVIOUS
  <2>3. Insert([x \in {e} |-> row])
    BY <1>7
  <2> HIDE DEF row, after
  <2>4. Added(e, row)
    BY <1>3, <2>1, <2>3, InsertOne DEF IInv, TypeOK
  <2>5. Fits(e, row)
    BY <1>4, <1>7, <2>2, DeltasAssumption, NoneAssumption DEF Fits, Unique
  <2>6. EventInv' /\ EventsKept
    BY <2>4, <2>5, RowAdded DEF IInv, TypeOK
  <2>7. Effect(e, request)' /\ event'[e].before = before /\ event'[e].after = after
    BY <1>3, <2>2, <2>4 DEF Added, Effect, Existing
  <2>8. answers' \subseteq Answers /\ AnswersRecorded'
    BY <1>1, <1>5, <1>7, <2>6, <2>7, AnswerRecorded
  <2>9. /\ stored' \in [Users -> Totals] /\ ledger' \in [Users -> Totals]
        /\ \A v \in Users \ {u} : stored'[v] = stored[v] /\ ledger'[v] = ledger[v]
        /\ NeverNegative'
    BY <1>4, <1>5, <1>7, Moved DEF after
  <2>10. ASSUME NEW s \in Tx \ {t} PROVE RowsFor(s)
    BY <1>5, <2>2, <2>4, <2>6, <2>9, NoneAssumption, AddedRowsFor
  <2>11. TablesInv'
    BY <2>4, <2>6, <2>8, <2>9 DEF TablesInv, Added
  <2> QED BY <1>7, <2>10, <2>11, FinishFrame, StepInv DEF Ended
<1> QED BY <1>1, <1>2, <1>6, <1>7 DEF CreateAdjustment

LEMMA CreateReversalInv ==
  ASSUME IInv, NEW t \in Tx, NEW e \in Events, CreateReversal(t, e)
  PROVE  IInv'
<1>1. PICK request \in Requests : request = tx[t].request
  BY DEF CreateReversal, IInv, TypeOK, Ended
<1>2. /\ TxInv(t) /\ pc[t] = "createPointEvent" /\ pc[t] \notin Ended
      /\ Op(t) = "REVERSED" /\ request.op = "REVERSED" /\ ~Existing(e)
  BY <1>1 DEF CreateReversal, IInv, Ended, Op
<1> DEFINE original == request.original
<1>3. /\ original \in Events /\ request.admin \in Admins /\ request.key \in Keys
      /\ Existing(original) /\ event[original] \in Event
      /\ eventLock[original] = t /\ IsEligibleOriginal(original) /\ ~Reversed(original)
  BY <1>1, <1>2, RequestFields
  DEF TxInv, RequestKnown, OriginalHeld, Op, IInv, TypeOK, Existing
<1>4. PICK u \in Users : u = event[original].user
  BY <1>3 DEF Event
<1>5. PICK delta \in Totals : delta = Minus(Zero, event[original].delta)
  BY <1>3, TotalsClosed DEF Event
<1>6. /\ Plus(delta, event[original].delta) = Zero /\ delta.points * delta.xp >= 0
  <2>1. RowHolds(original) /\ event[original].delta \in Totals
    BY <1>3 DEF IInv, EventInv, Event
  <2> QED BY <1>5, <2>1, Undone DEF RowHolds
<1>7. PICK before \in Totals : before = stored[u]
  BY DEF IInv, TypeOK
<1> DEFINE after == Plus(before, delta)
           row == [user |-> u, delta |-> delta, source |-> "ADMIN_ADJUST",
                   operation |-> "REVERSED", admin |-> request.admin, key |-> request.key,
                   reverses |-> original, audit |-> e, before |-> before, after |-> after]
<1>8. after \in Totals
  BY TotalsClosed
<1>9. CASE Refuse(t)
  BY <1>9, RefuseInv
<1>10. CASE UniqueViolation(t)
  BY <1>2, <1>10, UniqueViolationInv
<1>11. CASE /\ userLock[u] = None
            /\ ~Overdrawn(after)
            /\ Unique(request.key, original)
            /\ Insert([x \in {e} |-> row])
            /\ Move(u, delta)
            /\ Answer(t, e, before, after)
            /\ Finish(t, "answered")
  <2>1. row \in Event
    BY <1>3, <1>8 DEF Event, Sources, Operations
  <2>2. /\ row.audit = e /\ row.operation = "REVERSED" /\ row.admin = request.admin
        /\ row.delta = delta /\ row.key = request.key /\ row.reverses = original
        /\ row.user = u /\ row.before = before /\ row.after = after
    OBVIOUS
  <2>3. Insert([x \in {e} |-> row])
    BY <1>11
  <2> HIDE DEF row, after, original
  <2>4. Added(e, row)
    BY <1>2, <2>1, <2>3, InsertOne DEF IInv, TypeOK
  <2>5. Fits(e, row)
    BY <1>3, <1>4, <1>6, <1>11, <2>2 DEF Fits, Unique
  <2>6. EventInv' /\ EventsKept
    BY <2>4, <2>5, RowAdded DEF IInv, TypeOK
  <2>7. Effect(e, request)' /\ event'[e].before = before /\ event'[e].after = after
    BY <1>2, <2>2, <2>4 DEF Added, Effect, Existing, original
  <2>8. answers' \subseteq Answers /\ AnswersRecorded'
    BY <1>1, <1>8, <1>11, <2>6, <2>7, AnswerRecorded
  <2>9. /\ stored' \in [Users -> Totals] /\ ledger' \in [Users -> Totals]
        /\ \A v \in Users \ {u} : stored'[v] = stored[v] /\ ledger'[v] = ledger[v]
        /\ NeverNegative'
    BY <1>7, <1>11, Moved DEF after, Overdrawn
  <2>10. ASSUME NEW s \in Tx \ {t} PROVE RowsFor(s)
    BY <1>3, <1>11, <2>2, <2>4, <2>6, <2>9, NoneAssumption, AddedRowsFor
  <2>11. TablesInv'
    BY <2>4, <2>6, <2>8, <2>9 DEF TablesInv, Added
  <2> QED BY <1>11, <2>10, <2>11, FinishFrame, StepInv DEF Ended
<1> QED BY <1>1, <1>4, <1>5, <1>7, <1>9, <1>10, <1>11 DEF CreateReversal

LEMMA CreateCompensationInv ==
  ASSUME IInv, NEW t \in Tx, NEW e \in Events, NEW f \in Events, CreateCompensation(t, e, f)
  PROVE  IInv'
<1>1. PICK request \in Requests : request = tx[t].request
  BY DEF CreateCompensation, IInv, TypeOK, Ended
<1>2. PICK balance \in Totals, sum \in Totals : balance = tx[t].balance /\ sum = tx[t].sum
  BY DEF IInv, TypeOK
<1>3. PICK difference \in Totals : difference = Minus(balance, sum)
  BY TotalsClosed
<1> DEFINE u == request.user
           deltas == CompensationDeltas(difference)
           after == Plus(sum, difference)
           first == [user |-> u, delta |-> deltas[1], source |-> "ADMIN_ADJUST",
                     operation |-> "RECONCILED", admin |-> request.admin,
                     key |-> request.key, reverses |-> None, audit |-> e,
                     before |-> sum, after |-> after]
           second == [first EXCEPT !.delta = deltas[2], !.key = None]
<1>4. /\ TxInv(t) /\ pc[t] = "createPointEvent" /\ pc[t] \notin Ended
      /\ Op(t) = "RECONCILED" /\ request.op = "RECONCILED" /\ ~Existing(e) /\ ~Existing(f)
  BY <1>1 DEF CreateCompensation, IInv, Ended, Op
<1>5. u \in Users /\ request.admin \in Admins /\ request.key \in Keys
  BY <1>4, RequestFields
<1>6. /\ userLock[u] = t /\ after \in Totals /\ Minus(after, sum) = difference
  BY <1>1, <1>4, TotalsClosed, ReportedDifference DEF TxInv, BalanceHeld, Holds
<1>7. \/ Len(deltas) = 1 /\ deltas[1] = difference /\ difference.points * difference.xp >= 0
      \/ /\ Len(deltas) = 2
         /\ deltas[1] \in Totals /\ deltas[2] \in Totals
         /\ deltas[1].points * deltas[1].xp >= 0 /\ deltas[2].points * deltas[2].xp >= 0
         /\ Plus(deltas[1], deltas[2]) = difference /\ Plus(deltas[2], deltas[1]) = difference
  BY Split
<1>8. CASE UniqueViolation(t)
  BY <1>4, <1>8, UniqueViolationInv
<1>9. CASE /\ Unique(request.key, None)
           /\ e = f <=> Len(deltas) = 1
           /\ Insert([x \in {e, f} |-> IF x = e THEN first ELSE second])
           /\ ledger' = [ledger EXCEPT ![u] = Plus(@, difference)]
           /\ Answer(t, e, sum, after)
           /\ Finish(t, "answered")
           /\ UNCHANGED stored
  <2> HIDE DEF deltas, after
  <2>1. first \in Event /\ (e # f => second \in Event)
    BY <1>5, <1>6, <1>7, <1>9 DEF Event, Sources, Operations
  <2>2. /\ first.audit = e /\ first.operation = "RECONCILED" /\ first.admin = request.admin
        /\ first.delta = deltas[1] /\ first.key = request.key /\ first.reverses = None
        /\ first.user = u /\ first.before = sum /\ first.after = after
        /\ first.source = "ADMIN_ADJUST"
        /\ second.audit = e /\ second.operation = "RECONCILED"
        /\ second.delta = deltas[2] /\ second.key = None /\ second.reverses = None
        /\ second.before = sum /\ second.after = after
    OBVIOUS
  <2>3. Insert([x \in {e, f} |-> IF x = e THEN first ELSE second])
    BY <1>9
  <2> DEFINE other == IF e = f THEN first ELSE second
  <2> HIDE DEF first, second
  <2>4. other \in Event /\ first # NoEvent /\ other # NoEvent
    BY <2>1, NullAssumption DEF other
  <2>5. /\ event' \in [Events -> Event \union {NoEvent}] /\ event'[e] = first
        /\ f # e => event'[f] = other
        /\ \A g \in Events \ {e, f} : event'[g] = event[g]
    BY <2>1, <2>3 DEF Insert, IInv, TypeOK, other
  <2>6. Compensation(e, f, first, other)
    BY <1>4, <1>6, <1>7, <1>9, <2>1, <2>2, <2>4, <2>5 DEF Compensation, Unique, other
  <2> HIDE DEF other
  <2>7. EventInv' /\ EventsKept
    BY <2>6, CompensationAdded DEF IInv, TypeOK
  <2>8. Effect(e, request)' /\ event'[e].before = sum /\ event'[e].after = after
    BY <1>4, <2>2, <2>4, <2>5 DEF Effect, Existing
  <2>9. answers' \subseteq Answers /\ AnswersRecorded'
    BY <1>1, <1>6, <1>9, <2>7, <2>8, AnswerRecorded
  <2>10. /\ stored' \in [Users -> Totals] /\ ledger' \in [Users -> Totals]
         /\ \A v \in Users \ {u} : ledger'[v] = ledger[v]
         /\ NeverNegative'
    BY <1>5, <1>9, TotalsClosed DEF IInv, TypeOK, NeverNegative
  <2>11. ASSUME NEW s \in Tx \ {t} PROVE RowsFor(s)
    <3>1. \A o \in Events : ~Reversed(o) => ~Reversed(o)'
      BY <2>2, <2>5, <2>6, NoneAssumption DEF Reversed, Existing, Compensation
    <3> QED BY <1>6, <1>9, <2>7, <2>10, <3>1 DEF RowsFor
  <2>12. TablesInv'
    BY <2>5, <2>7, <2>9, <2>10 DEF TablesInv
  <2> QED BY <1>9, <2>11, <2>12, FinishFrame, StepInv DEF Ended
<1> QED BY <1>1, <1>2, <1>3, <1>8, <1>9 DEF CreateCompensation

\* What the rest of the API does to a balance nobody has locked.
LEMMA ElsewhereInv ==
  ASSUME IInv, NEW u \in Users, NEW e \in Events, NEW delta \in Totals,
         delta.points * delta.xp >= 0, ~Negative(Plus(stored[u], delta)),
         NEW source \in Sources, NEW operation \in {"NONE", "ADJUSTED"},
         NEW admin \in Admins \union {None}, operation = "ADJUSTED" => admin \in Admins,
         Elsewhere(u, e, delta, source, operation, admin)
  PROVE  IInv'
<1> DEFINE row == [user |-> u, delta |-> delta, source |-> source, operation |-> operation,
                   admin |-> admin, key |-> None, reverses |-> None,
                   audit |-> IF operation = "NONE" THEN None ELSE e,
                   before |-> stored[u], after |-> Plus(stored[u], delta)]
<1>1. /\ userLock[u] = None /\ ~Existing(e) /\ Insert([x \in {e} |-> row]) /\ Move(u, delta)
      /\ UNCHANGED <<locks, pc, tx, answers>>
  BY DEF Elsewhere
<1>2. stored[u] \in Totals /\ Plus(stored[u], delta) \in Totals
  BY TotalsClosed DEF IInv, TypeOK
<1>3. row \in Event
  BY <1>2 DEF Event, Operations
<1>4. /\ row.audit \in {None, e} /\ row.operation = operation /\ row.admin = admin
      /\ row.delta = delta /\ row.key = None /\ row.reverses = None
  OBVIOUS
<1> HIDE DEF row
<1>5. Added(e, row)
  BY <1>1, <1>3, InsertOne DEF IInv, TypeOK
<1>6. Fits(e, row)
  BY <1>4, NoneAssumption DEF Fits
<1>7. EventInv' /\ EventsKept
  BY <1>5, <1>6, RowAdded DEF IInv, TypeOK
<1>8. answers' \subseteq Answers /\ AnswersRecorded'
  BY <1>1, <1>7, AnswersStay
<1>9. /\ stored' \in [Users -> Totals] /\ ledger' \in [Users -> Totals]
      /\ \A v \in Users \ {u} : stored'[v] = stored[v] /\ ledger'[v] = ledger[v]
      /\ NeverNegative'
  BY <1>1, Moved
<1>10. ASSUME NEW s \in Tx PROVE RowsFor(s) /\ SameTx(s)
  <2>1. SameTx(s)
    BY <1>1 DEF SameTx, locks
  <2> QED BY <1>1, <1>4, <1>5, <1>7, <1>9, <2>1, NoneAssumption, AddedRowsFor
<1>11. TablesInv'
  BY <1>5, <1>7, <1>8, <1>9 DEF TablesInv, Added
<1>12. ProtocolTypeOK'
  BY <1>1 DEF IInv, TypeOK, ProtocolTypeOK, locks
<1> QED BY <1>10, <1>11, <1>12, StepInv

LEMMA GainInv ==
  ASSUME IInv, NEW u \in Users, NEW e \in Events, NEW n \in Gains,
         NEW operation \in {"NONE", "ADJUSTED"}, NEW admin \in Admins \union {None},
         operation = "ADJUSTED" => admin \in Admins,
         Elsewhere(u, e, Gain(n), "ACTION_REDEEM", operation, admin)
  PROVE  IInv'
<1>1. n \in Nat /\ Gain(n) \in Totals /\ Gain(n).points = n /\ Gain(n).xp = n
  BY GainsAssumption DEF Gain, Totals
<1>2. Gain(n).points * Gain(n).xp >= 0
  <2>1. n * n >= 0
    BY <1>1
  <2> QED BY <1>1, <2>1
<1>3. stored[u] \in Totals /\ stored[u].points >= 0 /\ stored[u].xp >= 0
  BY DEF IInv, TypeOK, NeverNegative, Negative, Totals
<1>4. ~Negative(Plus(stored[u], Gain(n)))
  BY <1>1, <1>3 DEF Negative, Plus, Totals
<1> QED BY <1>1, <1>2, <1>4, ElsewhereInv DEF Sources

LEMMA SpendInv ==
  ASSUME IInv, NEW u \in Users, NEW e \in Events, NEW n \in Gains, Spend(u, e, n)
  PROVE  IInv'
<1> DEFINE delta == [points |-> -n, xp |-> 0]
<1>1. n \in Nat /\ delta \in Totals /\ delta.points = -n /\ delta.xp = 0
  BY GainsAssumption DEF Totals
<1>2. delta.points * delta.xp >= 0
  BY <1>1
<1>3. stored[u] \in Totals /\ stored[u].points >= n /\ stored[u].xp >= 0
  BY DEF Spend, IInv, TypeOK, NeverNegative, Negative, Totals
<1>4. ~Negative(Plus(stored[u], delta))
  BY <1>1, <1>3 DEF Negative, Plus, Totals
<1>5. Elsewhere(u, e, delta, "REWARD_REDEMPTION", "NONE", None)
  BY DEF Spend
<1> HIDE DEF delta
<1> QED BY <1>1, <1>2, <1>4, <1>5, ElsewhereInv DEF Sources

-----------------------------------------------------------------------------
(* The theorems.                                                           *)

LEMMA InitInv == Init => IInv
<1> SUFFICES ASSUME Init PROVE IInv
  OBVIOUS
<1>1. PICK opening \in [Users -> Openings] :
        /\ stored = [u \in Users |-> opening[u].stored]
        /\ ledger = [u \in Users |-> opening[u].ledger]
  BY DEF Init
<1>2. \A u \in Users : /\ opening[u].stored \in Totals /\ ~Negative(opening[u].stored)
                       /\ opening[u].ledger \in Totals
  BY OpeningsAssumption
<1>3. /\ stored \in [Users -> Totals] /\ ledger \in [Users -> Totals] /\ NeverNegative
  BY <1>1, <1>2 DEF NeverNegative
<1>4. \A e \in Events : ~Existing(e)
  BY DEF Init, Existing
<1>5. EventInv /\ AnswersRecorded
  BY <1>4 DEF Init, EventInv, KeysUnique, ReversalsUndoAdjustments, AnswersRecorded
<1>6. TypeOK
  BY <1>3, TotalsClosed DEF Init, TypeOK, Idle, Ended
<1>7. ASSUME NEW t \in Tx PROVE TxInv(t)
  BY DEF Init, TxInv, RequestKnown, BalanceHeld, OriginalHeld, Ended
<1> QED BY <1>3, <1>5, <1>6, <1>7 DEF IInv

LEMMA NextInv == IInv /\ [Next]_vars => IInv'
<1> SUFFICES ASSUME IInv, [Next]_vars PROVE IInv'
  OBVIOUS
<1>1. CASE UNCHANGED vars
  <2>1. UNCHANGED tables /\ answers' = answers /\ \A s \in Tx : SameTx(s)
    BY <1>1 DEF vars, locks, SameTx
  <2>2. ProtocolTypeOK'
    BY <1>1 DEF vars, locks, IInv, TypeOK, ProtocolTypeOK
  <2> QED BY <2>1, <2>2, TablesKept, StepInv
<1>2. ASSUME NEW t \in Tx, NEW request \in Requests, Begin(t, request) PROVE IInv'
  BY <1>2, BeginInv
<1>3. ASSUME NEW t \in Tx,
             \/ LockParticipant(t) \/ FindForAdjustment(t)
             \/ LockPointEvent(t) \/ FindForReversal(t)
             \/ LockReconciliation(t) \/ SumLedger(t)
             \/ FindWinner(t) \/ Abort(t)
      PROVE  IInv'
  BY <1>3, LockParticipantInv, FindForAdjustmentInv, LockPointEventInv, FindForReversalInv,
     LockReconciliationInv, SumLedgerInv, FindWinnerInv, RefuseInv
<1>4. ASSUME NEW t \in Tx, NEW e \in Events, CreateAdjustment(t, e) \/ CreateReversal(t, e)
      PROVE  IInv'
  BY <1>4, CreateAdjustmentInv, CreateReversalInv
<1>5. ASSUME NEW t \in Tx, NEW e \in Events, NEW f \in Events, CreateCompensation(t, e, f)
      PROVE  IInv'
  BY <1>5, CreateCompensationInv
<1>6. ASSUME NEW u \in Users, NEW e \in Events, NEW n \in Gains, Earn(u, e, n) \/ Spend(u, e, n)
      PROVE  IInv'
  BY <1>6, GainInv, SpendInv DEF Earn
<1>7. ASSUME NEW u \in Users, NEW e \in Events, NEW n \in Gains, NEW a \in Admins,
             GrantQuestion(u, e, n, a)
      PROVE  IInv'
  BY <1>7, GainInv DEF GrantQuestion
<1> QED BY <1>1, <1>2, <1>3, <1>4, <1>5, <1>6, <1>7 DEF Next

\* The inductive invariant holds in every state the API can be in.
THEOREM Invariance == Spec => []IInv
BY InitInv, NextInv, PTL DEF Spec

\* Every variable keeps its type, and a transaction that runs has a request.
THEOREM TypeCorrect == Spec => []TypeOK
<1>1. IInv => TypeOK
  BY DEF IInv
<1> QED BY <1>1, Invariance, PTL

LEMMA EventsAddUp == IInv => CompensationsAddUp
<1> SUFFICES ASSUME IInv, NEW e \in Events, Existing(e)
             PROVE  /\ event[e].delta.points * event[e].delta.xp >= 0
                    /\ event[e].operation = "RECONCILED" =>
                         Total(e) = Minus(event[e].after, event[e].before)
  BY DEF CompensationsAddUp
<1>1. RowHolds(e) /\ (event[e].operation = "RECONCILED" => Compensated(e))
  BY DEF IInv, EventInv
<1>2. ASSUME Related(e) = {e} PROVE Total(e) = event[e].delta
  BY <1>2 DEF Total
<1>3. ASSUME NEW f \in Events, f # e, Related(e) = {e, f}
      PROVE  Total(e) = Plus(event[e].delta, event[f].delta)
  <2>1. Related(e) \ {e} = {f}
    BY <1>3
  <2>2. (CHOOSE g \in {f} : TRUE) = f
    OBVIOUS
  <2> QED BY <2>1, <2>2 DEF Total
<1> QED BY <1>1, <1>2, <1>3 DEF RowHolds, Compensated

\* No correction overdraws anybody, every reversal undoes one adjustment made by
\* hand, once, and the events of a reconciliation add up to what it reports,
\* however requests and the rest of the API interleave.
THEOREM CorrectionsStayExact == Spec => []CorrectionsAreExact
<1>1. IInv => CorrectionsAreExact
  BY EventsAddUp DEF IInv, EventInv, CorrectionsAreExact
<1> QED BY <1>1, Invariance, PTL

LEMMA AnswerEffect ==
  ASSUME IInv, NEW a \in answers
  PROVE  /\ a \in Answers /\ a.request \in Requests
         /\ a.event \in WithKey(a.request.key) /\ Effect(a.event, a.request)
         /\ Identical(a.event, a.request)
<1>1. a \in Answers /\ a.request \in Requests /\ a.event \in Events /\ Effect(a.event, a.request)
  BY DEF IInv, TypeOK, AnswersRecorded, Answers
<1>2. a.request.op \in Operations
  BY <1>1, RequestFields
<1>3. a.event \in WithKey(a.request.key)
  BY <1>1 DEF Effect, WithKey
<1>4. a.request.op = "RECONCILED" =>
        Total(a.event) = Minus(event[a.event].after, event[a.event].before)
  BY <1>1, EventsAddUp DEF Effect, CompensationsAddUp
<1> QED BY <1>1, <1>2, <1>3, <1>4 DEF Effect, Identical, Operations

LEMMA OneEventPerKey ==
  ASSUME IInv, NEW k \in Keys, NEW e \in WithKey(k), NEW f \in WithKey(k)
  PROVE  e = f
BY NoneAssumption DEF IInv, EventInv, KeysUnique, WithKey

LEMMA AnswersAgreeHolds == IInv => AnswersAgree
<1> SUFFICES ASSUME IInv, NEW a \in answers, NEW b \in answers, a.request.key = b.request.key
             PROVE  a = b
  BY DEF AnswersAgree
<1> DEFINE r == a.request
           q == b.request
<1>1. /\ a \in Answers /\ b \in Answers /\ r \in Requests /\ q \in Requests
      /\ Effect(a.event, r) /\ Effect(b.event, q)
      /\ a.event \in WithKey(r.key) /\ b.event \in WithKey(q.key)
  BY AnswerEffect
<1>2. r.key \in Keys
  BY <1>1, RequestFields
<1>3. a.event = b.event
  BY <1>1, <1>2, OneEventPerKey
<1>4. r.op = q.op /\ r.admin = q.admin /\ r.op \in Operations
  BY <1>1, <1>3, RequestFields DEF Effect
<1>5. r.user = q.user /\ r.original = q.original /\ r.delta = q.delta
  <2>1. CASE r.op = "ADJUSTED"
    BY <1>1, <1>3, <1>4, <2>1, RequestFields DEF Effect
  <2>2. CASE r.op = "REVERSED"
    BY <1>1, <1>3, <1>4, <2>2, RequestFields DEF Effect
  <2>3. CASE r.op = "RECONCILED"
    BY <1>1, <1>3, <1>4, <2>3, RequestFields DEF Effect
  <2> QED BY <1>4, <2>1, <2>2, <2>3 DEF Operations
<1>6. r = q
  BY <1>1, <1>4, <1>5, SameRequest
<1>7. a.before = b.before /\ a.after = b.after
  BY <1>3 DEF IInv, AnswersRecorded
<1> QED BY <1>1, <1>3, <1>6, <1>7 DEF Answers

\* Two successful answers to one idempotency key are the same answer to the same
\* request, for any number of retries, even while the first attempt runs.
THEOREM AnswersStayTheSame == Spec => []AnswersAgree
BY AnswersAgreeHolds, Invariance, PTL

-----------------------------------------------------------------------------
(* Retries.                                                                *)

Unanswered(t) == \A a \in answers : a.request # tx[t].request

LEMMA NoEventNoAnswer ==
  ASSUME IInv, NEW t \in Tx, WithKey(tx[t].request.key) = {}
  PROVE  Unanswered(t)
BY AnswerEffect DEF Unanswered

LEMMA ReplayRefused ==
  ASSUME IInv, NEW t \in Tx, tx[t].request \in Requests,
         NEW e \in WithKey(tx[t].request.key), ~Identical(e, tx[t].request)
  PROVE  Unanswered(t)
<1> SUFFICES ASSUME NEW a \in answers, a.request = tx[t].request PROVE FALSE
  BY DEF Unanswered
<1>1. a.event \in WithKey(a.request.key) /\ Identical(a.event, a.request)
  BY AnswerEffect
<1>2. a.event = e
  BY <1>1, RequestFields, OneEventPerKey
<1> QED BY <1>1, <1>2

LEMMA ReversalAnswered ==
  ASSUME IInv, NEW t \in Tx, tx[t].request.op = "REVERSED", ~Unanswered(t)
  PROVE  Reversed(tx[t].request.original) /\ IsEligibleOriginal(tx[t].request.original)
<1>1. PICK a \in answers : a.request = tx[t].request
  BY DEF Unanswered
<1> DEFINE e == a.event
           original == tx[t].request.original
<1>2. /\ e \in Events /\ Existing(e) /\ event[e].reverses = original /\ original \in Events
  BY <1>1, AnswerEffect, RequestFields DEF Effect, WithKey
<1>3. /\ event[original] # NoEvent /\ event[original].operation = "ADJUSTED"
      /\ event[original].source \in {"ADMIN_GRANT", "ADMIN_ADJUST"}
      /\ event[original].reverses = None
  BY <1>2, NoneAssumption DEF IInv, EventInv, ReversalsUndoAdjustments
<1>4. event[original].admin # None
  BY <1>2, <1>3 DEF IInv, EventInv, RowHolds, Existing
<1> QED BY <1>2, <1>3, <1>4 DEF Reversed, IsEligibleOriginal

\* The statement that refuses a request finds that it has never been answered.
LEMMA RefusedIsUnanswered ==
  ASSUME IInv, Next, NEW t \in Tx, pc[t] # "refused", pc'[t] = "refused"
  PROVE  Unanswered(t)
<1>0. pc \in [Tx -> Ended \union Statements]
  BY DEF IInv, TypeOK
<1>1. ASSUME NEW s \in Tx, NEW request \in Requests, Begin(s, request) PROVE Unanswered(t)
  <2>1. request.op \in Operations
    BY RequestFields
  <2> QED BY <1>0, <1>1, <2>1 DEF Begin, Goto, Operations
<1>2. ASSUME NEW s \in Tx, Goto(s, "findByIdempotencyKey") \/ Goto(s, "createPointEvent")
                           \/ Goto(s, "sumLedger") \/ Goto(s, "findWinner")
                           \/ Finish(s, "answered") \/ Finish(s, "idle")
      PROVE  FALSE
  BY <1>0, <1>2 DEF Goto, Finish
<1>3. ASSUME NEW s \in Tx, s # t, Refuse(s) PROVE FALSE
  BY <1>0, <1>3 DEF Refuse, Finish
<1>4. ASSUME NEW s \in Tx, pc[s] \notin Ended,
             NEW e \in WithKey(tx[s].request.key), Replay(s, e)
      PROVE  Unanswered(t)
  <2>1. s = t /\ ~Identical(e, tx[s].request)
    BY <1>2, <1>3, <1>4 DEF Replay
  <2>2. tx[s].request \in Requests
    BY <1>4 DEF IInv, TypeOK
  <2> QED BY <1>4, <2>1, <2>2, ReplayRefused
<1>5. ASSUME NEW s \in Tx, LockParticipant(s) \/ LockReconciliation(s) \/ Abort(s)
      PROVE  Unanswered(t)
  BY <1>2, <1>5 DEF LockParticipant, LockReconciliation, Abort
<1>6. ASSUME NEW s \in Tx, FindForAdjustment(s) PROVE Unanswered(t)
  BY <1>2, <1>3, <1>4, <1>6, NoEventNoAnswer DEF FindForAdjustment, Ended
<1>7. ASSUME NEW s \in Tx, FindForReversal(s) PROVE Unanswered(t)
  BY <1>2, <1>3, <1>4, <1>7, NoEventNoAnswer DEF FindForReversal, Ended
<1>8. ASSUME NEW s \in Tx, SumLedger(s) PROVE Unanswered(t)
  BY <1>2, <1>3, <1>4, <1>8, NoEventNoAnswer DEF SumLedger, Ended
<1>9. ASSUME NEW s \in Tx, FindWinner(s) PROVE Unanswered(t)
  BY <1>3, <1>4, <1>9, NoEventNoAnswer DEF FindWinner, Ended
<1>10. ASSUME NEW s \in Tx, LockPointEvent(s) PROVE Unanswered(t)
  <2>1. s = t /\ ~IsEligibleOriginal(tx[s].request.original)
    BY <1>2, <1>3, <1>10 DEF LockPointEvent
  <2>2. tx[s].request.op = "REVERSED"
    BY <1>10 DEF LockPointEvent, IInv, TxInv, RequestKnown, Op
  <2> QED BY <2>1, <2>2, ReversalAnswered
<1>11. ASSUME NEW s \in Tx, NEW e \in Events, CreateAdjustment(s, e) PROVE Unanswered(t)
  BY <1>2, <1>11 DEF CreateAdjustment, UniqueViolation
<1>12. ASSUME NEW s \in Tx, NEW e \in Events, CreateReversal(s, e) PROVE Unanswered(t)
  <2>1. s = t
    BY <1>2, <1>3, <1>12 DEF CreateReversal, UniqueViolation
  <2>2. tx[s].request.op = "REVERSED" /\ ~Reversed(tx[s].request.original)
    BY <1>12 DEF CreateReversal, IInv, TxInv, OriginalHeld, Op
  <2> QED BY <2>1, <2>2, ReversalAnswered
<1>13. ASSUME NEW s \in Tx, NEW e \in Events, NEW f \in Events, CreateCompensation(s, e, f)
       PROVE  Unanswered(t)
  BY <1>2, <1>13 DEF CreateCompensation, UniqueViolation
<1>14. ASSUME NEW u \in Users, NEW e \in Events, NEW n \in Gains,
              \/ Earn(u, e, n) \/ Spend(u, e, n) \/ \E a \in Admins : GrantQuestion(u, e, n, a)
       PROVE  Unanswered(t)
  BY <1>14 DEF Earn, Spend, GrantQuestion, Elsewhere
<1> QED
  BY <1>1, <1>5, <1>6, <1>7, <1>8, <1>9, <1>10, <1>11, <1>12, <1>13, <1>14 DEF Next

\* A request that took effect is never refused when it is repeated, whatever has
\* happened to the participant and to the event since.
THEOREM RetriesNeverRefused == Spec => RetriesSucceed
<1>1. IInv /\ [Next]_vars =>
        [\A t \in Tx : pc[t] # "refused" /\ pc'[t] = "refused" =>
           ~ \E a \in answers : a.request = tx[t].request]_vars
  BY RefusedIsUnanswered DEF Unanswered
<1> QED BY <1>1, Invariance, PTL DEF Spec, RetriesSucceed

-----------------------------------------------------------------------------
(* Reconciliation.                                                         *)

LEMMA DifferenceKept ==
  ASSUME IInv, NEW u \in Users, NEW v \in Users, NEW delta \in Totals, Move(v, delta)
  PROVE  Difference(u)' = Difference(u)
<1>1. stored[u] \in Totals /\ ledger[u] \in Totals
  BY DEF IInv, TypeOK
<1>2. CASE u = v
  BY <1>1, <1>2, Moved, MovedTogether DEF Difference
<1>3. CASE u # v
  BY <1>3, Moved DEF Difference
<1> QED BY <1>2, <1>3

LEMMA DifferenceSettled ==
  ASSUME IInv, Next, NEW u \in Users, Difference(u)' # Difference(u)
  PROVE  Difference(u)' = Zero /\ stored'[u] = stored[u]
<1>1. ~UNCHANGED tables
  BY DEF tables, Difference
<1>2. \A t \in Tx : ~Refuse(t) /\ ~UniqueViolation(t)
  BY <1>1 DEF Refuse, UniqueViolation
<1>3. \A t \in Tx, e \in Events : ~Replay(t, e)
  BY <1>1, <1>2 DEF Replay
<1>5. ASSUME NEW v \in Users, NEW delta \in Totals, Move(v, delta) PROVE FALSE
  BY <1>5, DifferenceKept
<1>6. ASSUME NEW t \in Tx, \E e \in WithKey(tx[t].request.key) : Replay(t, e) PROVE FALSE
  BY <1>3, <1>6 DEF WithKey
<1>7. ASSUME NEW t \in Tx,
             \/ LockParticipant(t) \/ FindForAdjustment(t)
             \/ LockPointEvent(t) \/ FindForReversal(t)
             \/ LockReconciliation(t) \/ SumLedger(t)
             \/ FindWinner(t) \/ Abort(t)
      PROVE  FALSE
  BY <1>1, <1>2, <1>6, <1>7
  DEF LockParticipant, FindForAdjustment, LockPointEvent, FindForReversal,
      LockReconciliation, SumLedger, FindWinner, Abort
<1>8. ASSUME NEW t \in Tx, NEW request \in Requests, Begin(t, request) PROVE FALSE
  BY <1>1, <1>8 DEF Begin
<1>9. ASSUME NEW t \in Tx, NEW e \in Events, CreateAdjustment(t, e) PROVE FALSE
  <2>1. Move(tx[t].request.user, tx[t].request.delta)
    BY <1>2, <1>9 DEF CreateAdjustment
  <2>2. tx[t].request \in Requests /\ tx[t].request.op = "ADJUSTED"
    BY <1>9 DEF CreateAdjustment, IInv, TypeOK, Ended
  <2> QED BY <1>5, <2>1, <2>2, RequestFields
<1>10. ASSUME NEW t \in Tx, NEW e \in Events, CreateReversal(t, e) PROVE FALSE
  <2> DEFINE original == tx[t].request.original
  <2>1. Move(event[original].user, Minus(Zero, event[original].delta))
    BY <1>2, <1>10 DEF CreateReversal
  <2>2. /\ tx[t].request \in Requests /\ tx[t].request.op = "REVERSED" /\ original \in Events
        /\ Existing(original)
    BY <1>10, RequestFields DEF CreateReversal, IInv, TypeOK, TxInv, RequestKnown, Op, Ended
  <2>3. event[original] \in Event
    BY <2>2 DEF IInv, TypeOK, Existing
  <2>4. event[original].user \in Users /\ Minus(Zero, event[original].delta) \in Totals
    BY <2>3, TotalsClosed DEF Event
  <2> QED BY <1>5, <2>1, <2>4
<1>11. ASSUME NEW t \in Tx, NEW e \in Events, NEW f \in Events, CreateCompensation(t, e, f)
       PROVE  Difference(u)' = Zero /\ stored'[u] = stored[u]
  <2> DEFINE v == tx[t].request.user
  <2>1. /\ stored' = stored
        /\ ledger' = [ledger EXCEPT ![v] = Plus(@, Minus(tx[t].balance, tx[t].sum))]
    BY <1>2, <1>11 DEF CreateCompensation
  <2>2. v \in Users /\ tx[t].balance = stored[v] /\ tx[t].sum = ledger[v]
    BY <1>11, RequestFields
    DEF CreateCompensation, IInv, TypeOK, TxInv, BalanceHeld, Holds, Op, Ended
  <2>3. v = u
    BY <2>1, <2>2 DEF Difference, IInv, TypeOK
  <2>4. stored[u] \in Totals /\ ledger[u] \in Totals
    BY DEF IInv, TypeOK
  <2>5. ledger'[u] = Plus(ledger[u], Minus(stored[u], ledger[u]))
    BY <2>1, <2>2, <2>3 DEF IInv, TypeOK
  <2> QED BY <2>1, <2>4, <2>5, Reconciled DEF Difference
<1>12. ASSUME NEW v \in Users, NEW e \in Events, NEW n \in Gains,
              \/ Earn(v, e, n) \/ Spend(v, e, n) \/ \E a \in Admins : GrantQuestion(v, e, n, a)
       PROVE  FALSE
  <2>1. n \in Nat /\ Gain(n) \in Totals /\ [points |-> -n, xp |-> 0] \in Totals
    BY GainsAssumption DEF Gain, Totals
  <2>2. Move(v, Gain(n)) \/ Move(v, [points |-> -n, xp |-> 0])
    BY <1>12 DEF Earn, Spend, GrantQuestion, Elsewhere
  <2> QED BY <1>5, <2>1, <2>2
<1> QED BY <1>7, <1>8, <1>9, <1>10, <1>11, <1>12 DEF Next

\* What separates a balance from its events changes only by a reconciliation, which
\* brings it to zero and leaves the balance alone, whatever moves points meanwhile.
THEOREM ReconciliationsSettle == Spec => ReconciliationIsExact
<1>1. IInv /\ [Next]_vars =>
        [\A u \in Users : Difference(u)' # Difference(u) =>
           Difference(u)' = Zero /\ stored'[u] = stored[u]]_vars
  BY DifferenceSettled
<1> QED BY <1>1, Invariance, PTL DEF Spec, ReconciliationIsExact

-----------------------------------------------------------------------------
(* Ledger implements AtomicLedger: every step is a step of it, or changes   *)
(* none of its variables.                                                   *)

\* Every event with a key has been answered; an adjustment by hand has a key.
KeyedAnswered ==
  \A e \in Events : Existing(e) /\ event[e].key # None => \E a \in answers : a.event = e

ByHand(row) == row.operation = "ADJUSTED" /\ row.source \in {"ADMIN_GRANT", "ADMIN_ADJUST"}
ByHandKeyed == \A e \in Events : Existing(e) /\ ByHand(event[e]) => event[e].key # None

\* A reconciliation goes on only with something to reconcile.
DifferenceRead(t) ==
  pc[t] = "createPointEvent" /\ Op(t) = "RECONCILED" => tx[t].balance # tx[t].sum
DifferencesRead == \A t \in Tx : DifferenceRead(t)

EffectsInv == IInv /\ KeyedAnswered /\ ByHandKeyed /\ DifferencesRead

\* A step of one transaction that does not go to write after reading a difference.
OneMoves(t) ==
  /\ pc' = [pc EXCEPT ![t] = pc'[t]] /\ tx' = [tx EXCEPT ![t] = tx'[t]]
  /\ pc'[t] # "createPointEvent" \/ tx'[t].request.op # "RECONCILED"

LEMMA OthersRead ==
  ASSUME IInv, DifferencesRead, NEW t \in Tx, OneMoves(t)
  PROVE  DifferencesRead'
<1> SUFFICES ASSUME NEW s \in Tx PROVE DifferenceRead(s)'
  BY DEF DifferencesRead
<1>1. CASE s = t
  BY <1>1 DEF OneMoves, DifferenceRead, Op
<1>2. CASE s # t
  <2>1. pc'[s] = pc[s] /\ tx'[s] = tx[s]
    BY <1>2 DEF OneMoves, IInv, TypeOK
  <2> QED BY <2>1 DEF DifferencesRead, DifferenceRead, Op
<1> QED BY <1>1, <1>2

LEMMA FinishMoves ==
  ASSUME IInv, NEW t \in Tx, NEW result \in Ended, Finish(t, result)
  PROVE  OneMoves(t)
<1>1. pc'[t] = result /\ tx'[t] = Idle
  BY DEF Finish, IInv, TypeOK
<1> QED BY <1>1 DEF Finish, OneMoves, Ended

LEMMA GotoMoves ==
  ASSUME IInv, NEW t \in Tx, NEW statement \in Statements, Goto(t, statement),
         tx' = tx \/ \E x : tx' = [tx EXCEPT ![t] = x],
         statement # "createPointEvent" \/ (tx' = tx /\ tx[t].request.op # "RECONCILED")
  PROVE  OneMoves(t)
<1>1. pc'[t] = statement /\ pc' = [pc EXCEPT ![t] = pc'[t]]
  BY DEF Goto, IInv, TypeOK
<1>2. tx' = [tx EXCEPT ![t] = tx'[t]]
  BY DEF IInv, TypeOK
<1> QED BY <1>1, <1>2 DEF OneMoves

\* Events stay and answers are added: what was answered and keyed still is.
LEMMA KeysStay ==
  ASSUME KeyedAnswered, ByHandKeyed, event' = event, answers \subseteq answers'
  PROVE  KeyedAnswered' /\ ByHandKeyed'
<1>1. KeyedAnswered'
  BY DEF KeyedAnswered, Existing
<1>2. ByHandKeyed'
  BY DEF ByHandKeyed, Existing
<1> QED BY <1>1, <1>2

\* New events, each answered if it has a key, which one by hand has.
LEMMA KeysAdded ==
  ASSUME KeyedAnswered, ByHandKeyed, answers \subseteq answers', NEW new \in SUBSET Events,
         \A e \in Events \ new : event'[e] = event[e],
         \A e \in new : /\ event'[e].key # None => \E a \in answers' : a.event = e
                        /\ ByHand(event'[e]) => event'[e].key # None
  PROVE  KeyedAnswered' /\ ByHandKeyed'
<1>1. KeyedAnswered'
  <2> SUFFICES ASSUME NEW e \in Events, Existing(e)', (event[e].key # None)'
               PROVE  \E a \in answers' : a.event = e
    BY DEF KeyedAnswered
  <2>1. CASE e \in new
    BY <2>1
  <2>2. CASE e \notin new
    <3>1. event'[e] = event[e] /\ Existing(e) /\ event[e].key # None
      BY <2>2 DEF Existing
    <3>2. PICK a \in answers : a.event = e
      BY <3>1 DEF KeyedAnswered
    <3> QED BY <3>2
  <2> QED BY <2>1, <2>2
<1>2. ByHandKeyed'
  <2> SUFFICES ASSUME NEW e \in Events, Existing(e)', ByHand(event'[e])
               PROVE  event'[e].key # None
    BY DEF ByHandKeyed
  <2>1. CASE e \in new
    BY <2>1
  <2>2. CASE e \notin new
    BY <2>2 DEF ByHandKeyed, Existing
  <2> QED BY <2>1, <2>2
<1> QED BY <1>1, <1>2

\* A replay gives an answer that has been given.
LEMMA ReplayRepeats ==
  ASSUME EffectsInv, NEW t \in Tx, tx[t].request \in Requests,
         NEW e \in WithKey(tx[t].request.key), Identical(e, tx[t].request)
  PROVE  [request |-> tx[t].request, event |-> e, before |-> event[e].before, after |-> event[e].after]
           \in answers
<1> DEFINE r == tx[t].request
<1>1. r.key \in Keys /\ r.key # None /\ e \in Events /\ Existing(e) /\ event[e].key = r.key
  BY RequestFields, NoneAssumption DEF WithKey
<1>2. PICK a \in answers : a.event = e
  BY <1>1 DEF EffectsInv, KeyedAnswered
<1>3. IInv
  BY DEF EffectsInv
<1>4. /\ a \in Answers /\ a.request \in Requests /\ Effect(e, a.request)
      /\ a.before = event[e].before /\ a.after = event[e].after
  BY <1>2, <1>3, AnswerEffect DEF IInv, AnswersRecorded
<1> DEFINE q == a.request
<1>5. q.op = r.op /\ q.admin = r.admin /\ q.key = r.key /\ q.op \in Operations
  BY <1>1, <1>4, RequestFields DEF Effect, Identical
<1>6. q.user = r.user /\ q.original = r.original /\ q.delta = r.delta
  <2>1. CASE q.op = "ADJUSTED"
    BY <1>4, <1>5, <2>1, RequestFields DEF Effect, Identical
  <2>2. CASE q.op = "REVERSED"
    BY <1>4, <1>5, <2>2, RequestFields DEF Effect, Identical
  <2>3. CASE q.op = "RECONCILED"
    BY <1>4, <1>5, <2>3, RequestFields DEF Effect, Identical
  <2> QED BY <1>5, <2>1, <2>2, <2>3 DEF Operations
<1>7. q = r
  BY <1>4, <1>5, <1>6, SameRequest
<1>8. a = [request |-> a.request, event |-> a.event, before |-> a.before, after |-> a.after]
  BY <1>4 DEF Answers
<1> QED BY <1>2, <1>4, <1>7, <1>8

\* What a step that no balance, sum or answer shows must keep.
Quiet == UNCHANGED Atomic!vars /\ KeyedAnswered' /\ ByHandKeyed' /\ DifferencesRead'

LEMMA QuietEnd ==
  ASSUME EffectsInv, NEW t \in Tx, Refuse(t) \/ Abort(t) \/ UniqueViolation(t)
  PROVE  Quiet
<1>1. UNCHANGED <<tables, answers>> /\ IInv
  BY DEF Refuse, Abort, UniqueViolation, EffectsInv
<1>2. KeyedAnswered' /\ ByHandKeyed'
  BY <1>1, KeysStay DEF EffectsInv, tables
<1>3. OneMoves(t)
  <2>1. CASE Refuse(t) \/ Abort(t)
    BY <1>1, <2>1, FinishMoves DEF Refuse, Abort, Ended
  <2>2. CASE UniqueViolation(t)
    BY <1>1, <2>2, GotoMoves DEF UniqueViolation, Statements
  <2> QED BY <2>1, <2>2
<1> QED BY <1>1, <1>2, <1>3, OthersRead DEF Quiet, EffectsInv, tables, Atomic!vars

LEMMA QuietReplay ==
  ASSUME EffectsInv, NEW t \in Tx, pc[t] \notin Ended, NEW e \in WithKey(tx[t].request.key), Replay(t, e)
  PROVE  Quiet
<1>1. CASE Refuse(t)
  BY <1>1, QuietEnd
<1>2. CASE /\ Identical(e, tx[t].request)
           /\ Answer(t, e, event[e].before, event[e].after)
           /\ Finish(t, "answered")
           /\ UNCHANGED tables
  <2>1. IInv /\ tx[t].request \in Requests
    BY DEF EffectsInv, IInv, TypeOK
  <2>2. answers' = answers
    BY <1>2, <2>1, ReplayRepeats DEF Answer
  <2>3. KeyedAnswered' /\ ByHandKeyed'
    BY <1>2, <2>2, KeysStay DEF EffectsInv, tables
  <2>4. OneMoves(t)
    BY <1>2, <2>1, FinishMoves DEF Ended
  <2> QED BY <1>2, <2>1, <2>2, <2>3, <2>4, OthersRead DEF Quiet, EffectsInv, tables, Atomic!vars
<1> QED BY <1>1, <1>2 DEF Replay

LEMMA QuietStatement ==
  ASSUME EffectsInv, NEW t \in Tx,
         \/ \E request \in Requests : Begin(t, request)
         \/ LockParticipant(t) \/ LockPointEvent(t) \/ LockReconciliation(t)
         \/ FindForAdjustment(t) \/ FindForReversal(t) \/ SumLedger(t)
         \/ FindWinner(t) \/ Abort(t)
  PROVE  Quiet
<1>0. IInv /\ KeyedAnswered /\ ByHandKeyed /\ DifferencesRead
  BY DEF EffectsInv
<1>1. ASSUME UNCHANGED <<tables, answers>>, OneMoves(t) PROVE Quiet
  BY <1>0, <1>1, KeysStay, OthersRead DEF Quiet, tables, Atomic!vars
<1>2. ASSUME NEW request \in Requests, Begin(t, request) PROVE Quiet
  <2>1. request.op \in Operations
    BY RequestFields
  <2>2. PICK statement \in {"lockParticipant", "lockPointEvent", "lockReconciliation"} : Goto(t, statement)
    BY <1>2, <2>1 DEF Begin, Operations
  <2>3. OneMoves(t)
    BY <1>0, <1>2, <2>2, GotoMoves DEF Begin, Statements
  <2> QED BY <1>1, <1>2, <2>3 DEF Begin
<1>3. CASE LockParticipant(t)
  <2>1. OneMoves(t)
    BY <1>0, <1>3, GotoMoves DEF LockParticipant, Statements
  <2> QED BY <1>1, <1>3, <2>1 DEF LockParticipant
<1>4. CASE LockReconciliation(t)
  <2>1. OneMoves(t)
    BY <1>0, <1>4, GotoMoves DEF LockReconciliation, Statements
  <2> QED BY <1>1, <1>4, <2>1 DEF LockReconciliation
<1>5. CASE LockPointEvent(t)
  <2>1. CASE Refuse(t)
    BY <2>1, QuietEnd
  <2>2. CASE Goto(t, "findByIdempotencyKey") /\ UNCHANGED <<tables, userLock, tx, answers>>
    <3>1. OneMoves(t)
      BY <1>0, <2>2, GotoMoves DEF Statements
    <3> QED BY <1>1, <2>2, <3>1
  <2> QED BY <1>5, <2>1, <2>2 DEF LockPointEvent
<1>6. CASE FindForAdjustment(t) \/ FindForReversal(t)
  <2>1. pc[t] \notin Ended /\ tx[t].request.op # "RECONCILED"
    BY <1>6 DEF FindForAdjustment, FindForReversal, Ended
  <2>2. CASE Refuse(t)
    BY <2>2, QuietEnd
  <2>3. CASE \E e \in WithKey(tx[t].request.key) : Replay(t, e)
    BY <2>1, <2>3, QuietReplay
  <2>4. CASE Goto(t, "createPointEvent") /\ UNCHANGED <<tables, locks, tx, answers>>
    <3>1. OneMoves(t)
      BY <1>0, <2>1, <2>4, GotoMoves DEF Statements
    <3> QED BY <1>1, <2>4, <3>1
  <2> QED BY <1>6, <2>2, <2>3, <2>4 DEF FindForAdjustment, FindForReversal
<1>7. CASE SumLedger(t)
  <2>1. CASE Refuse(t)
    BY <2>1, QuietEnd
  <2>2. CASE \E e \in WithKey(tx[t].request.key) : Replay(t, e)
    BY <1>7, <2>2, QuietReplay DEF SumLedger, Ended
  <2>3. CASE /\ tx[t].balance # ledger[tx[t].request.user]
             /\ tx' = [tx EXCEPT ![t].sum = ledger[tx[t].request.user]]
             /\ Goto(t, "createPointEvent")
             /\ UNCHANGED <<tables, locks, answers>>
    <3>1. tx'[t].balance = tx[t].balance /\ tx'[t].sum = ledger[tx[t].request.user]
      BY <1>0, <2>3 DEF IInv, TypeOK
    <3>2. \A s \in Tx \ {t} : pc'[s] = pc[s] /\ tx'[s] = tx[s]
      BY <1>0, <2>3 DEF IInv, TypeOK, Goto
    <3>3. DifferencesRead'
      BY <1>0, <2>3, <3>1, <3>2 DEF DifferencesRead, DifferenceRead, Op
    <3> QED BY <1>0, <2>3, <3>3, KeysStay DEF Quiet, tables, Atomic!vars
  <2> QED BY <1>7, <2>1, <2>2, <2>3 DEF SumLedger
<1>8. CASE FindWinner(t)
  <2>1. pc[t] \notin Ended
    BY <1>8 DEF FindWinner, Ended
  <2> QED BY <1>8, <2>1, QuietReplay, QuietEnd DEF FindWinner
<1> QED BY <1>2, <1>3, <1>4, <1>5, <1>6, <1>7, <1>8, QuietEnd

\* An answer keeps the others, and is of its event.
LEMMA AnswerAdds ==
  ASSUME NEW t, NEW e, NEW before, NEW after, Answer(t, e, before, after)
  PROVE  answers \subseteq answers' /\ \E a \in answers' : a.event = e
<1> DEFINE a == [request |-> tx[t].request, event |-> e, before |-> before, after |-> after]
<1>1. answers' = answers \union {a}
  BY DEF Answer
<1>2. a.event = e
  OBVIOUS
<1> HIDE DEF a
<1>3. a \in answers' /\ answers \subseteq answers'
  BY <1>1
<1> QED BY <1>2, <1>3

\* An answer of a change not known before, in one step of the abstract ledger.
LEMMA AnsweredOnce ==
  ASSUME IInv, NEW request \in Requests, NEW e \in Events, ~Existing(e), WithKey(request.key) = {}
  PROVE  Atomic!Unused(request.key, e)
<1> SUFFICES ASSUME NEW a \in answers PROVE a.request.key # request.key /\ a.event # e
  BY DEF Atomic!Unused
<1>1. a.event \in WithKey(a.request.key) /\ Existing(a.event)
  BY AnswerEffect DEF Effect
<1> QED BY <1>1

LEMMA PostIsMove ==
  ASSUME IInv, NEW u \in Users, NEW delta \in Totals, Move(u, delta)
  PROVE  Atomic!Post(u, delta) /\ Atomic!Add(stored[u], delta) = Plus(stored[u], delta)
BY DEF Move, Plus, Atomic!Post, Atomic!Add

LEMMA CorrectIsMove ==
  ASSUME IInv, NEW t \in Tx, NEW request, request = tx[t].request, NEW e,
         NEW u \in Users, NEW delta \in Totals, NEW after, after = Plus(stored[u], delta),
         ~Negative(after), Move(u, delta), Answer(t, e, stored[u], after)
  PROVE  Atomic!Correct(request, e, u, delta)
<1>1. after \in Totals /\ Atomic!Add(stored[u], delta) = after /\ Atomic!Post(u, delta)
  BY PostIsMove, TotalsClosed DEF IInv, TypeOK
<1>2. after.points >= 0 /\ after.xp >= 0
  BY <1>1 DEF Negative, Totals
<1>3. Atomic!Answer(request, e, stored[u], after)
  BY DEF Answer, Atomic!Answer
<1> QED BY <1>1, <1>2, <1>3 DEF Atomic!Correct

\* The new event is answered, and keyed.
LEMMA AdjustmentImplements ==
  ASSUME EffectsInv, NEW t \in Tx, NEW e \in Events, CreateAdjustment(t, e)
  PROVE  Quiet \/ (Atomic!Next /\ KeyedAnswered' /\ ByHandKeyed' /\ DifferencesRead')
<1>0. IInv /\ KeyedAnswered /\ ByHandKeyed /\ DifferencesRead
  BY DEF EffectsInv
<1>1. PICK request \in Requests : request = tx[t].request
  BY <1>0 DEF CreateAdjustment, IInv, TypeOK, Ended
<1> DEFINE u == request.user
           after == Plus(tx[t].balance, request.delta)
           row == [user |-> u, delta |-> request.delta,
                   source |-> IF Negative(request.delta) THEN "ADMIN_ADJUST" ELSE "ADMIN_GRANT",
                   operation |-> "ADJUSTED", admin |-> request.admin, key |-> request.key,
                   reverses |-> None, audit |-> e, before |-> tx[t].balance, after |-> after]
<1>2. CASE UniqueViolation(t)
  BY <1>2, QuietEnd
<1>3. CASE /\ Unique(request.key, None)
           /\ Insert([x \in {e} |-> row])
           /\ Move(u, request.delta)
           /\ Answer(t, e, tx[t].balance, after)
           /\ Finish(t, "answered")
  <2>1. request.op = "ADJUSTED" /\ ~Existing(e) /\ WithKey(request.key) = {}
    BY <1>1, <1>3 DEF CreateAdjustment, Unique
  <2>2. u \in Users /\ request.delta \in Totals /\ request.key # None
    BY <2>1, RequestFields, NoneAssumption
  <2>3. tx[t].balance = stored[u] /\ ~Negative(after)
    BY <1>0, <1>1, <2>1 DEF CreateAdjustment, IInv, TxInv, BalanceHeld, Holds, Op, Ended, Overdrawn
  <2>4. event'[e] = row /\ \A g \in Events \ {e} : event'[g] = event[g]
    BY <1>0, <1>3 DEF Insert, IInv, TypeOK
  <2> HIDE DEF after
  <2>5. Atomic!Correct(request, e, u, request.delta)
    BY <1>0, <1>1, <1>3, <2>2, <2>3, CorrectIsMove DEF after
  <2>6. Atomic!Next
    BY <1>0, <2>1, <2>5, AnsweredOnce DEF Atomic!Next, Atomic!Adjust
  <2>7. answers \subseteq answers' /\ \E a \in answers' : a.event = e
    BY <1>3, AnswerAdds
  <2>8. row.key = request.key
    OBVIOUS
  <2> HIDE DEF row
  <2>9. KeyedAnswered' /\ ByHandKeyed'
    <3> DEFINE new == {e}
    <3>1. \A g \in new : event'[g].key # None /\ \E a \in answers' : a.event = g
      BY <2>2, <2>4, <2>7, <2>8
    <3>2. new \in SUBSET Events /\ \A g \in Events \ new : event'[g] = event[g]
      BY <2>4
    <3> HIDE DEF new
    <3> QED BY <1>0, <2>7, <3>1, <3>2, KeysAdded
  <2>10. DifferencesRead'
    BY <1>0, <1>3, FinishMoves, OthersRead DEF Ended
  <2> QED BY <2>6, <2>9, <2>10
<1> QED BY <1>1, <1>2, <1>3 DEF CreateAdjustment

LEMMA ReversalImplements ==
  ASSUME EffectsInv, NEW t \in Tx, NEW e \in Events, CreateReversal(t, e)
  PROVE  Quiet \/ (Atomic!Next /\ KeyedAnswered' /\ ByHandKeyed' /\ DifferencesRead')
<1>0. IInv /\ KeyedAnswered /\ ByHandKeyed /\ DifferencesRead
  BY DEF EffectsInv
<1>1. PICK request \in Requests : request = tx[t].request
  BY <1>0 DEF CreateReversal, IInv, TypeOK, Ended
<1> DEFINE original == request.original
           u == event[original].user
           delta == Minus(Zero, event[original].delta)
           after == Plus(stored[u], delta)
           row == [user |-> u, delta |-> delta, source |-> "ADMIN_ADJUST",
                   operation |-> "REVERSED", admin |-> request.admin, key |-> request.key,
                   reverses |-> original, audit |-> e, before |-> stored[u], after |-> after]
<1>2. CASE Refuse(t) \/ UniqueViolation(t)
  BY <1>2, QuietEnd
<1>3. CASE /\ ~Overdrawn(after)
           /\ Unique(request.key, original)
           /\ Insert([x \in {e} |-> row])
           /\ Move(u, delta)
           /\ Answer(t, e, stored[u], after)
           /\ Finish(t, "answered")
  <2>1. /\ request.op = "REVERSED" /\ ~Existing(e) /\ WithKey(request.key) = {}
        /\ original \in Events /\ request.key # None
    BY <1>1, <1>3, RequestFields, NoneAssumption DEF CreateReversal, Unique
  <2>2. IsEligibleOriginal(original) /\ ~Reversed(original) /\ Existing(original)
    BY <1>0, <1>1, <2>1
    DEF CreateReversal, IInv, TxInv, RequestKnown, OriginalHeld, Op, Ended
  <2>3. PICK a \in answers : a.event = original
    BY <1>0, <2>1, <2>2 DEF KeyedAnswered, ByHandKeyed, ByHand, IsEligibleOriginal
  <2>4. a.request \in Requests /\ Effect(original, a.request)
    BY <1>0, <2>3, AnswerEffect
  <2>5. a.request.op = "ADJUSTED" /\ u = a.request.user /\ event[original].delta = a.request.delta
    BY <2>2, <2>4 DEF Effect, IsEligibleOriginal
  <2>6. u \in Users /\ a.request.delta \in Totals
    BY <2>4, <2>5, RequestFields
  <2>7. /\ delta \in Totals
        /\ delta = [points |-> -a.request.delta.points, xp |-> -a.request.delta.xp]
    BY <2>5, <2>6 DEF Minus, Zero, Totals
  <2>8. event'[e] = row /\ \A g \in Events \ {e} : event'[g] = event[g]
    BY <1>0, <1>3 DEF Insert, IInv, TypeOK
  <2>9. row.key = request.key
    OBVIOUS
  <2>10. \A b \in answers : b.request.op = "REVERSED" => b.request.original # original
    BY <1>0, <2>2, AnswerEffect DEF Effect, Reversed, WithKey
  <2> HIDE DEF row, after, delta, u
  <2>11. Atomic!Correct(request, e, u, delta)
    BY <1>0, <1>1, <1>3, <2>6, <2>7, CorrectIsMove DEF after, Overdrawn
  <2>12. Atomic!Reverse(request, e)
    BY <2>1, <2>3, <2>5, <2>7, <2>10, <2>11 DEF Atomic!Reverse
  <2>13. Atomic!Next
    BY <1>0, <2>1, <2>12, AnsweredOnce DEF Atomic!Next
  <2>14. answers \subseteq answers' /\ \E b \in answers' : b.event = e
    BY <1>3, AnswerAdds
  <2>15. KeyedAnswered' /\ ByHandKeyed'
    BY <1>0, <2>1, <2>8, <2>9, <2>14, KeysAdded
  <2>16. DifferencesRead'
    BY <1>0, <1>3, FinishMoves, OthersRead DEF Ended
  <2> QED BY <2>13, <2>15, <2>16
<1> QED BY <1>1, <1>2, <1>3 DEF CreateReversal

LEMMA CompensationImplements ==
  ASSUME EffectsInv, NEW t \in Tx, NEW e \in Events, NEW f \in Events, CreateCompensation(t, e, f)
  PROVE  Quiet \/ (Atomic!Next /\ KeyedAnswered' /\ ByHandKeyed' /\ DifferencesRead')
<1>0. IInv /\ KeyedAnswered /\ ByHandKeyed /\ DifferencesRead
  BY DEF EffectsInv
<1>1. PICK request \in Requests : request = tx[t].request
  BY <1>0 DEF CreateCompensation, IInv, TypeOK, Ended
<1> DEFINE u == request.user
           difference == Minus(tx[t].balance, tx[t].sum)
           deltas == CompensationDeltas(difference)
           after == Plus(tx[t].sum, difference)
           first == [user |-> u, delta |-> deltas[1], source |-> "ADMIN_ADJUST",
                     operation |-> "RECONCILED", admin |-> request.admin,
                     key |-> request.key, reverses |-> None, audit |-> e,
                     before |-> tx[t].sum, after |-> after]
           second == [first EXCEPT !.delta = deltas[2], !.key = None]
<1>2. CASE UniqueViolation(t)
  BY <1>2, QuietEnd
<1>3. CASE /\ Unique(request.key, None)
           /\ Insert([x \in {e, f} |-> IF x = e THEN first ELSE second])
           /\ ledger' = [ledger EXCEPT ![u] = Plus(@, difference)]
           /\ Answer(t, e, tx[t].sum, after)
           /\ Finish(t, "answered")
           /\ UNCHANGED stored
  <2>1. /\ request.op = "RECONCILED" /\ ~Existing(e) /\ WithKey(request.key) = {}
        /\ pc[t] = "createPointEvent" /\ pc[t] \notin Ended
    BY <1>1, <1>3 DEF CreateCompensation, Unique, Ended
  <2>2. u \in Users
    BY <2>1, RequestFields
  <2>3. tx[t].balance = stored[u] /\ tx[t].sum = ledger[u] /\ stored[u] # ledger[u]
    BY <1>0, <1>1, <2>1 DEF IInv, TxInv, BalanceHeld, Holds, Op, DifferencesRead, DifferenceRead
  <2>4. stored[u] \in Totals /\ ledger[u] \in Totals
    BY <1>0, <2>2 DEF IInv, TypeOK
  <2>5. after = stored[u]
    BY <2>3, <2>4 DEF Plus, Minus, Totals
  <2>6. Plus(ledger[u], difference) = stored[u]
    BY <2>3, <2>5
  <2>7. /\ first.key = request.key /\ first.operation = "RECONCILED"
        /\ second.operation = "RECONCILED" /\ second.key = None
    OBVIOUS
  <2> HIDE DEF first, second, after, difference
  <2>8. ledger' = [ledger EXCEPT ![u] = stored[u]]
    BY <1>0, <1>3, <2>2, <2>6 DEF IInv, TypeOK
  <2>9. Atomic!Answer(request, e, ledger[u], stored[u])
    BY <1>1, <1>3, <2>3, <2>5 DEF Answer, Atomic!Answer
  <2>10. Atomic!Reconcile(request, e)
    BY <1>3, <2>1, <2>3, <2>8, <2>9 DEF Atomic!Reconcile
  <2>11. Atomic!Next
    BY <1>0, <2>1, <2>10, AnsweredOnce DEF Atomic!Next
  <2>12. answers \subseteq answers' /\ \E b \in answers' : b.event = e
    BY <1>3, AnswerAdds
  <2>13. event'[e] = first /\ (f # e => event'[f] = second) /\ \A g \in Events \ {e, f} : event'[g] = event[g]
    BY <1>0, <1>3 DEF Insert, IInv, TypeOK
  <2>14. \A g \in {e, f} : /\ event'[g].key # None => \E b \in answers' : b.event = g
                           /\ ~ByHand(event'[g])
    BY <2>7, <2>12, <2>13 DEF ByHand
  <2>15. KeyedAnswered' /\ ByHandKeyed'
    <3> DEFINE new == {e, f}
    <3>1. new \in SUBSET Events /\ \A g \in Events \ new : event'[g] = event[g]
      BY <2>13
    <3>2. \A g \in new : /\ event'[g].key # None => \E b \in answers' : b.event = g
                        /\ ~ByHand(event'[g])
      BY <2>14
    <3> HIDE DEF new
    <3> QED BY <1>0, <2>12, <3>1, <3>2, KeysAdded
  <2>16. DifferencesRead'
    BY <1>0, <1>3, FinishMoves, OthersRead DEF Ended
  <2> QED BY <2>11, <2>15, <2>16
<1> QED BY <1>1, <1>2, <1>3 DEF CreateCompensation

LEMMA ElsewhereImplements ==
  ASSUME EffectsInv, NEW u \in Users, NEW e \in Events, NEW n \in Gains,
         Earn(u, e, n) \/ Spend(u, e, n) \/ \E a \in Admins : GrantQuestion(u, e, n, a)
  PROVE  Atomic!Next /\ KeyedAnswered' /\ ByHandKeyed' /\ DifferencesRead'
<1>0. IInv /\ KeyedAnswered /\ ByHandKeyed /\ DifferencesRead
  BY DEF EffectsInv
<1>1. n \in Nat /\ Gain(n) \in Totals /\ [points |-> -n, xp |-> 0] \in Totals
  BY GainsAssumption DEF Gain, Totals
<1>2. Atomic!Next
  <2>1. CASE Earn(u, e, n) \/ \E a \in Admins : GrantQuestion(u, e, n, a)
    <3>1. Move(u, Gain(n)) /\ answers' = answers
      BY <2>1 DEF Earn, GrantQuestion, Elsewhere
    <3>2. Atomic!Earn(u, n)
      BY <1>0, <1>1, <3>1, PostIsMove DEF Gain, Atomic!Earn
    <3> QED BY <3>2 DEF Atomic!Next
  <2>2. CASE Spend(u, e, n)
    <3>1. Move(u, [points |-> -n, xp |-> 0]) /\ answers' = answers /\ stored[u].points >= n
      BY <2>2 DEF Spend, Elsewhere
    <3>2. Atomic!Spend(u, n)
      BY <1>0, <1>1, <3>1, PostIsMove DEF Atomic!Spend
    <3> QED BY <3>2 DEF Atomic!Next
  <2> QED BY <2>1, <2>2
<1>3. PICK row : /\ Insert([x \in {e} |-> row]) /\ row.key = None /\ ~ByHand(row)
                 /\ answers' = answers /\ pc' = pc /\ tx' = tx
  <2>1. PICK delta, source, operation, admin :
          /\ Elsewhere(u, e, delta, source, operation, admin)
          /\ ~(operation = "ADJUSTED" /\ source \in {"ADMIN_GRANT", "ADMIN_ADJUST"})
    <3>1. CASE Earn(u, e, n)
      BY <3>1 DEF Earn
    <3>2. CASE Spend(u, e, n)
      BY <3>2 DEF Spend
    <3>3. CASE \E a \in Admins : GrantQuestion(u, e, n, a)
      BY <3>3 DEF GrantQuestion
    <3> QED BY <3>1, <3>2, <3>3
  <2> DEFINE row == [user |-> u, delta |-> delta, source |-> source, operation |-> operation,
                     admin |-> admin, key |-> None, reverses |-> None,
                     audit |-> IF operation = "NONE" THEN None ELSE e,
                     before |-> stored[u], after |-> Plus(stored[u], delta)]
  <2>2. Insert([x \in {e} |-> row]) /\ answers' = answers /\ pc' = pc /\ tx' = tx
    BY <2>1 DEF Elsewhere
  <2>3. row.key = None /\ ~ByHand(row)
    BY <2>1 DEF ByHand
  <2> HIDE DEF row
  <2> QED BY <2>2, <2>3
<1>4. event'[e] = row /\ \A g \in Events \ {e} : event'[g] = event[g]
  BY <1>0, <1>3 DEF Insert, IInv, TypeOK
<1>5. KeyedAnswered' /\ ByHandKeyed'
  <2> DEFINE new == {e}
  <2>1. /\ new \in SUBSET Events /\ \A g \in Events \ new : event'[g] = event[g]
        /\ \A g \in new : event'[g].key = None /\ ~ByHand(event'[g])
    BY <1>3, <1>4
  <2> HIDE DEF new
  <2> QED BY <1>0, <1>3, <2>1, KeysAdded
<1>6. DifferencesRead'
  BY <1>0, <1>3 DEF DifferencesRead, DifferenceRead, Op
<1> QED BY <1>2, <1>5, <1>6

LEMMA NextEffects == EffectsInv /\ [Next]_vars => EffectsInv' /\ [Atomic!Next]_(Atomic!vars)
<1> SUFFICES ASSUME EffectsInv, [Next]_vars PROVE EffectsInv' /\ [Atomic!Next]_(Atomic!vars)
  OBVIOUS
<1>1. IInv'
  BY NextInv DEF EffectsInv
<1>2. CASE UNCHANGED vars
  <2>1. KeyedAnswered' /\ ByHandKeyed'
    BY <1>2, KeysStay DEF EffectsInv, vars, tables
  <2>2. DifferencesRead'
    BY <1>2 DEF EffectsInv, vars, DifferencesRead, DifferenceRead, Op
  <2> QED BY <1>1, <1>2, <2>1, <2>2 DEF EffectsInv, vars, tables, Atomic!vars
<1>3. ASSUME Quiet PROVE EffectsInv' /\ [Atomic!Next]_(Atomic!vars)
  BY <1>1, <1>3 DEF Quiet, EffectsInv
<1>4. ASSUME Atomic!Next /\ KeyedAnswered' /\ ByHandKeyed' /\ DifferencesRead'
      PROVE  EffectsInv' /\ [Atomic!Next]_(Atomic!vars)
  BY <1>1, <1>4 DEF EffectsInv
<1>5. CASE Next
  <2>1. ASSUME NEW t \in Tx,
               \/ \E request \in Requests : Begin(t, request)
               \/ LockParticipant(t) \/ LockPointEvent(t) \/ LockReconciliation(t)
               \/ FindForAdjustment(t) \/ FindForReversal(t) \/ SumLedger(t)
               \/ FindWinner(t) \/ Abort(t)
        PROVE  Quiet
    BY <2>1, QuietStatement
  <2>2. ASSUME NEW t \in Tx, NEW e \in Events, NEW f \in Events,
               CreateAdjustment(t, e) \/ CreateReversal(t, e) \/ CreateCompensation(t, e, f)
        PROVE  Quiet \/ (Atomic!Next /\ KeyedAnswered' /\ ByHandKeyed' /\ DifferencesRead')
    BY <2>2, AdjustmentImplements, ReversalImplements, CompensationImplements
  <2> QED BY <1>3, <1>4, <1>5, <2>1, <2>2, ElsewhereImplements DEF Next
<1> QED BY <1>2, <1>5

(* Whatever requests run, wait, fail and are repeated together, every        *)
(* adjustment, reversal and reconciliation takes effect at one step, on the *)
(* balance and the sum committed then, and once for its key.                *)
THEOREM Implementation == Spec => ImplementsAtomicLedger
<1>1. Init => Atomic!Init
  BY DEF Init, Atomic!Init
<1>2. Init => EffectsInv
  <2> SUFFICES ASSUME Init PROVE EffectsInv
    OBVIOUS
  <2> QED BY InitInv DEF Init, EffectsInv, KeyedAnswered, ByHandKeyed, Existing, DifferencesRead, DifferenceRead
<1> QED BY <1>1, <1>2, NextEffects, PTL DEF Spec, Atomic!Spec, ImplementsAtomicLedger
=============================================================================
