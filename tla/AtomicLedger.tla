----------------------------- MODULE AtomicLedger -----------------------------
(***************************************************************************)
(* What the administrators' changes to the points ledger promise: every    *)
(* request that is answered with success has taken effect in one           *)
(* indivisible step, on the balance and the sum of events of that moment,  *)
(* once for its key, and its answer tells that step.  There are no events, *)
(* transactions, locks, lookups or replays here; Ledger.tla, which has     *)
(* them, is shown to implement this.                                       *)
(***************************************************************************)
EXTENDS Integers

CONSTANTS Users,     \* participants
          Events,    \* what a change is known by once it is made
          Requests,  \* what administrators ask for
          Gains,     \* points earned or spent elsewhere, at once
          Openings   \* balances and sums of events left by the database's history

VARIABLES stored, ledger, answers

vars == <<stored, ledger, answers>>

Init ==
  /\ \E opening \in [Users -> Openings] :
       /\ stored = [u \in Users |-> opening[u].stored]
       /\ ledger = [u \in Users |-> opening[u].ledger]
  /\ answers = {}

Add(total, delta) == [points |-> total.points + delta.points, xp |-> total.xp + delta.xp]

\* The balance and the sum of the events move together.
Post(u, delta) ==
  /\ stored' = [stored EXCEPT ![u] = Add(@, delta)]
  /\ ledger' = [ledger EXCEPT ![u] = Add(@, delta)]

\* No answer has used the key, or is of this change.
Unused(key, e) == \A a \in answers : a.request.key # key /\ a.event # e

Answer(request, e, before, after) ==
  answers' = answers \union {[request |-> request, event |-> e, before |-> before, after |-> after]}

\* A change by an administrator overdraws nobody.
Correct(request, e, u, delta) ==
  LET after == Add(stored[u], delta) IN
    /\ after.points >= 0 /\ after.xp >= 0
    /\ Answer(request, e, stored[u], after)
    /\ Post(u, delta)

Adjust(request, e) ==
  /\ request.op = "ADJUSTED"
  /\ Correct(request, e, request.user, request.delta)

\* A reversal takes back an answered adjustment that no other has taken back.
Reverse(request, e) ==
  /\ request.op = "REVERSED"
  /\ \A a \in answers : a.request.op = "REVERSED" => a.request.original # request.original
  /\ \E a \in answers :
       /\ a.request.op = "ADJUSTED" /\ a.event = request.original
       /\ Correct(request, e, a.request.user,
                  [points |-> -a.request.delta.points, xp |-> -a.request.delta.xp])

\* A reconciliation answers with the difference there is, and closes it.
Reconcile(request, e) ==
  LET u == request.user IN
    /\ request.op = "RECONCILED"
    /\ stored[u] # ledger[u]
    /\ Answer(request, e, ledger[u], stored[u])
    /\ ledger' = [ledger EXCEPT ![u] = stored[u]]
    /\ UNCHANGED stored

Earn(u, n) == UNCHANGED answers /\ Post(u, [points |-> n, xp |-> n])

Spend(u, n) ==
  /\ stored[u].points >= n
  /\ UNCHANGED answers
  /\ Post(u, [points |-> -n, xp |-> 0])

\* A repetition is answered as before, and a refusal changes nothing.
RepeatOrRefuse == UNCHANGED vars

Next ==
  \/ RepeatOrRefuse
  \/ \E request \in Requests, e \in Events :
       /\ Unused(request.key, e)
       /\ Adjust(request, e) \/ Reverse(request, e) \/ Reconcile(request, e)
  \/ \E u \in Users, n \in Gains : Earn(u, n) \/ Spend(u, n)

Spec == Init /\ [][Next]_vars
=============================================================================
