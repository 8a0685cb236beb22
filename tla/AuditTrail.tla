----------------------------- MODULE AuditTrail ------------------------------
(* The audit trail of the rows that administrators change: each change is    *)
(* recorded in its own transaction with what the row was and what it became,  *)
(* while other administrators change the same row and participants change    *)
(* parts of it that are not audited.  Each initial state explores one kind of *)
(* row; the fields of a snapshot are those that AuditContract keeps.          *)
EXTENDS AuditContract, Naturals, Sequences

CONSTANTS
  Administrators,  \* each has at most one request under way
  MaxTrail,        \* bound on the events recorded
  MaxStock,        \* bound on the stock of a reward
  Price            \* points of the redemption that may be cancelled

ASSUME TrailAssumption == MaxTrail \in Nat /\ MaxStock \in Nat /\ Price \in Nat

\* The rows, as they are first: an active one of each kind.  "image" stands
\* for what no snapshot shows; a reward comes with a pending redemption of it,
\* and a code may be redeemed.
FirstRows ==
  [participant |-> [isActive |-> TRUE],
   action |-> [name |-> 1, isActive |-> TRUE],
   operator |-> [name |-> 1, adminProfile |-> 1, isActive |-> TRUE],
   reward |-> [name |-> 1, stock |-> 1, image |-> 1, isActive |-> TRUE, status |-> "PENDING", points |-> 0],
   claimCode |-> [isActive |-> TRUE, isUsed |-> FALSE]]

VARIABLES
  kind,     \* the kind of row this behaviour is about
  row,      \* its committed fields
  holder,   \* the administrator whose transaction has it locked, if any
  request,  \* of each administrator: the request under way, and the row read
  trail     \* the events, in the order they were recorded

trailVars == <<kind, row, holder, request, trail>>

Free == [pc |-> "free"]
Nobody == [pc |-> "nobody"]

TrailInit ==
  /\ kind \in DOMAIN FirstRows
  /\ row = FirstRows[kind]
  /\ holder = Nobody
  /\ request = [a \in Administrators |-> Free]
  /\ trail = <<>>

\* What an edit may ask for: any values of some of the fields a form sends.
Forms ==
  [participant |-> [isActive : BOOLEAN], action |-> [name : 1..2, isActive : BOOLEAN],
   operator |-> [name : 1..2, adminProfile : 1..2, isActive : BOOLEAN],
   reward |-> [name : 1..2, stock : 0..MaxStock, image : 1..2, isActive : BOOLEAN],
   claimCode |-> {}]
\* The status of an operator is sent alone.
Sendable ==
  {sent \in UNION {SUBSET DOMAIN form : form \in Forms[kind]} :
     kind = "operator" /\ "isActive" \in sent => sent = {"isActive"}}

Changed(wish, from) == {f \in DOMAIN wish : wish[f] # from[f]}

Edited(from, wish) == [f \in DOMAIN from |-> IF f \in DOMAIN wish THEN wish[f] ELSE from[f]]

\* The operation an edit is recorded under: a change of the status alone has
\* one of its own for activities and rewards.
EditOperation(changed) ==
  CASE kind = "participant" -> "PARTICIPANT_STATUS_CHANGED"
    [] kind = "operator" -> IF changed = {"isActive"} THEN "ADMIN_OPERATOR_STATUS_CHANGED"
                            ELSE "ADMIN_OPERATOR_UPDATED"
    [] kind = "action" -> IF changed = {"isActive"} THEN "ACTION_STATUS_CHANGED" ELSE "ACTION_UPDATED"
    [] kind = "reward" -> IF changed = {"isActive"} THEN "REWARD_STATUS_CHANGED" ELSE "REWARD_UPDATED"

\* The event of an operation, with the fields its call passes and the row keeps.
Event(operation, before, after) ==
  LET call == Recorded(CHOOSE c \in Calls : c.operation = operation)
      Shown(object, r) == Restrict(r, DOMAIN object \intersect DOMAIN r)
  IN  [operation |-> operation, before |-> Shown(call.before, before), after |-> Shown(call.after, after)]

Commit(a, operation, to) ==
  /\ row' = to
  /\ trail' = Append(trail, Event(operation, request[a].seen, to))
  /\ request' = [request EXCEPT ![a] = Free]
  /\ holder' = Nobody

Open(a, r) ==
  /\ Len(trail) < MaxTrail
  /\ request[a] = Free
  /\ request' = [request EXCEPT ![a] = r]

\* With a bug: the row is read without FOR UPDATE.
ReadToEdit(a) ==
  \E form \in Forms[kind], sent \in Sendable :
    LET changed == Changed(Restrict(form, sent), row) IN
    /\ changed # {}
    /\ Open(a, [pc |-> "edit", wish |-> Restrict(form, changed), seen |-> row])
    /\ UNCHANGED <<kind, row, holder, trail>>

\* An edit locks the row (FOR UPDATE), keeps of what it was sent what differs
\* from the row, and ends at once if that is nothing.
LockEdit(a) ==
  \E form \in Forms[kind], sent \in Sendable :
    LET changed == Changed(Restrict(form, sent), row) IN
    /\ holder = Nobody
    /\ changed # {}
    /\ Open(a, [pc |-> "edit", wish |-> Restrict(form, changed), seen |-> row])
    /\ holder' = [pc |-> "locked", by |-> a]
    /\ UNCHANGED <<kind, row, trail>>

CommitEdit(a) ==
  /\ request[a].pc = "edit"
  /\ Commit(a, EditOperation(DOMAIN request[a].wish), Edited(row, request[a].wish))
  /\ UNCHANGED kind

\* A delivery or a cancellation locks a pending redemption; a cancellation
\* locks the points of its participant and the reward as well.
LockTransition(a) ==
  \E to \in {"DELIVERED", "CANCELLED"} :
    /\ kind = "reward" /\ row.status = "PENDING"
    /\ holder = Nobody
    /\ Open(a, [pc |-> "transition", to |-> to, seen |-> row])
    /\ holder' = [pc |-> "locked", by |-> a]
    /\ UNCHANGED <<kind, row, trail>>

CommitTransition(a) ==
  /\ request[a].pc = "transition"
  /\ IF request[a].to = "DELIVERED"
     THEN Commit(a, "REWARD_REDEMPTION_DELIVERED", [row EXCEPT !.status = "DELIVERED"])
     ELSE Commit(a, "REWARD_REDEMPTION_CANCELLED",
                 [row EXCEPT !.status = "CANCELLED", !.stock = @ + 1, !.points = @ + Price])
  /\ UNCHANGED kind

\* The status of one code is read without a lock, and refused if it is used.
ReadCode(a) ==
  /\ kind = "claimCode" /\ ~row.isUsed
  /\ Open(a, [pc |-> "code", wish |-> [isActive |-> ~row.isActive], seen |-> row])
  /\ UNCHANGED <<kind, row, holder, trail>>

\* With a bug: the UPDATE asks for an unused code only.
CommitUnusedCode(a) ==
  /\ request[a].pc = "code"
  /\ holder = Nobody
  /\ IF ~row.isUsed
     THEN Commit(a, "CLAIM_CODE_STATUS_CHANGED", Edited(row, request[a].wish))
     ELSE request' = [request EXCEPT ![a] = Free] /\ UNCHANGED <<row, holder, trail>>
  /\ UNCHANGED kind

\* The UPDATE asks for the status that was read and for an unused code; if it
\* changes no row, nothing is recorded, whatever the answer.
CommitCode(a) ==
  /\ request[a].pc = "code"
  /\ holder = Nobody
  /\ IF ~row.isUsed /\ row.isActive = request[a].seen.isActive
     THEN Commit(a, "CLAIM_CODE_STATUS_CHANGED", Edited(row, request[a].wish))
     ELSE request' = [request EXCEPT ![a] = Free] /\ UNCHANGED <<row, holder, trail>>
  /\ UNCHANGED kind

\* A bulk operation locks the codes and keeps the outcome of each: an item
\* CHANGED is the trace of what the code was and became.
BulkStatus(a) ==
  /\ kind = "claimCode" /\ ~row.isUsed
  /\ holder = Nobody
  /\ Len(trail) < MaxTrail
  /\ row' = [row EXCEPT !.isActive = ~@]
  /\ trail' = Append(trail, [operation |-> "CLAIM_CODE_BULK_STATUS_CHANGED",
                             before |-> [isActive |-> row.isActive], after |-> [isActive |-> row'.isActive]])
  /\ UNCHANGED <<kind, holder, request>>

\* What participants do is not audited: they redeem a code, or buy the reward.
RedeemCode ==
  /\ kind = "claimCode" /\ holder = Nobody
  /\ row.isActive /\ ~row.isUsed
  /\ row' = [row EXCEPT !.isUsed = TRUE]
  /\ UNCHANGED <<kind, holder, request, trail>>

BuyReward ==
  /\ kind = "reward" /\ holder = Nobody
  /\ row.isActive /\ row.stock > 0
  /\ row' = [row EXCEPT !.stock = @ - 1]
  /\ UNCHANGED <<kind, holder, request, trail>>

\* A transaction that fails leaves neither its change nor its event.
FailRequest(a) ==
  /\ request[a] # Free
  /\ request' = [request EXCEPT ![a] = Free]
  /\ holder' = IF holder = [pc |-> "locked", by |-> a] THEN Nobody ELSE holder
  /\ UNCHANGED <<kind, row, trail>>

TrailNext ==
  \/ \E a \in Administrators :
       \/ LockEdit(a) \/ CommitEdit(a) \/ LockTransition(a) \/ CommitTransition(a)
       \/ ReadCode(a) \/ CommitCode(a) \/ BulkStatus(a) \/ FailRequest(a)
  \/ RedeemCode \/ BuyReward

TrailSpec == TrailInit /\ [][TrailNext]_trailVars

-----------------------------------------------------------------------------
\* The fields whose every change is audited; the others are changed by
\* participants too, or are shown by no snapshot.
AuditedFields ==
  [participant |-> {"isActive"}, action |-> {"name", "isActive"}, operator |-> {"name", "adminProfile", "isActive"},
   reward |-> {"name", "isActive", "status"}, claimCode |-> {"isActive"}]

\* The events that show a field, between the row as it was first, at 0, and
\* as it is now; what each place left in the field, and what it found there.
Places(f) == {i \in 1 .. Len(trail) : f \in DOMAIN trail[i].before} \union {0, Len(trail) + 1}
LeftBy(i, f) == IF i = 0 THEN FirstRows[kind][f] ELSE trail[i].after[f]
FoundBy(i, f) == IF i = Len(trail) + 1 THEN row[f] ELSE trail[i].before[f]
Follows(i, j, f) == i < j /\ \A k \in Places(f) : k <= i \/ j <= k

(* Whoever reads the trail of a row can follow it: each event finds an        *)
(* audited field as the event before it left it, the last one left it as the  *)
(* row has it, whatever else was changing the row, and a cancellation shows   *)
(* the refund it made and nothing else (the locks of every update against the *)
(* snapshots it records; updateClaimCodeStatus, which takes none).            *)
AuditIsContinuous ==
  /\ \A f \in AuditedFields[kind] : \A i, j \in Places(f) : Follows(i, j, f) => LeftBy(i, f) = FoundBy(j, f)
  /\ \A i \in 1 .. Len(trail) :
       trail[i].operation = "REWARD_REDEMPTION_CANCELLED" =>
         /\ trail[i].after.stock = trail[i].before.stock + 1
         /\ trail[i].after.points = trail[i].before.points + Price
=============================================================================
