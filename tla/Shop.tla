-------------------------------- MODULE Shop --------------------------------
(***************************************************************************)
(* The reward shop of the API: rewards/rewards.service.ts over             *)
(* rewards/rewards.repository.ts.                                          *)
(*                                                                         *)
(* Every mutation runs in a PostgreSQL transaction at READ COMMITTED.  Its *)
(* statements are the steps of a slot t \in Tx: a plain read sees the      *)
(* committed rows; SELECT ... FOR UPDATE and UPDATE wait for the row lock, *)
(* re-read the row and keep the lock; the row versions a transaction has   *)
(* written stay in tx[t] until the commit publishes them.  Statements that *)
(* touch only rows the transaction has locked are joined to its commit.    *)
(***************************************************************************)
EXTENDS Integers, FiniteSets

CONSTANTS
  Users,        \* participants
  Rewards,      \* identifiers of rewards
  Redemptions,  \* identifiers of redemptions (the bound on purchases)
  Prices,       \* values of Reward.costInPoints
  Stocks,       \* values an administrator gives Reward.stock
  Gains,        \* points a participant may earn at once
  MaxPoints,    \* bound on a balance: no more is earned beyond it
  Tx,           \* transactions that may be open at the same time
  None,         \* no owner, no argument
  NoReward,     \* a reward not yet created
  NoRedemption  \* a redemption not yet created

ASSUME RedemptionsAssumption == IsFiniteSet(Redemptions)
\* create-reward.dto.ts: costInPoints is at least 1, stock at least 0.
ASSUME PricesAssumption == Prices \subseteq Nat \ {0}
ASSUME StocksAssumption == Stocks \subseteq Nat
ASSUME GainsAssumption == Gains \subseteq Nat /\ MaxPoints \in Nat
ASSUME NoneAssumption == None \notin Tx \union Users \union Rewards \union Redemptions

Row == [costInPoints : Prices, stock : Int, isActive : BOOLEAN]
Statuses == {"PENDING", "DELIVERED", "CANCELLED"}
Redemption == [user : Users, reward : Rewards, pointsSpent : Prices, status : Statuses]

ASSUME NullAssumption == NoReward \notin Row /\ NoRedemption \notin Redemption

VARIABLES
  points,      \* User.points
  ledger,      \* sum of the PointEvents of each participant
  reward,      \* the Reward table
  redemption,  \* the RewardRedemption table
  net,         \* sum of the PointEvents that name each redemption
  userLock, rewardLock, redemptionLock,  \* the transaction that holds each row
  pc,          \* the next statement of each transaction
  tx           \* its arguments and the row versions it has written

tables == <<points, ledger, reward, redemption, net>>
locks == <<userLock, rewardLock, redemptionLock>>
vars == <<tables, locks, pc, tx>>

\* The statements of redeem, cancelRedemption and deliverRedemption.
Redeeming == {"findRewardById", "debitUserPoints", "decrementRewardStock", "create"}
Cancelling == {"lockToCancel", "lockUser", "lockReward", "cancel"}
Delivering == {"lockToDeliver", "deliver"}
Statements == Redeeming \union Cancelling \union Delivering

\* What a transaction knows: the rows it works on, the price it has read and
\* the versions of the balance and of the reward it has written.
Locals == [user : Users \union {None}, reward : Rewards \union {None},
           redemption : Redemptions \union {None}, price : Prices \union {0},
           balance : Int, shelf : Row \union {NoReward}]
NoLocals == [user |-> None, reward |-> None, redemption |-> None, price |-> 0,
             balance |-> 0, shelf |-> NoReward]

Init ==
  /\ points = [u \in Users |-> 0]
  /\ ledger = [u \in Users |-> 0]
  /\ reward = [r \in Rewards |-> NoReward]
  /\ redemption = [d \in Redemptions |-> NoRedemption]
  /\ net = [d \in Redemptions |-> 0]
  /\ userLock = [u \in Users |-> None]
  /\ rewardLock = [r \in Rewards |-> None]
  /\ redemptionLock = [d \in Redemptions |-> None]
  /\ pc = [t \in Tx |-> "idle"]
  /\ tx = [t \in Tx |-> NoLocals]

-----------------------------------------------------------------------------
(* The end of a transaction, by commit or by rollback, frees its rows.     *)

Released(lock, t) == [x \in DOMAIN lock |-> IF lock[x] = t THEN None ELSE lock[x]]

EndTransaction(t) ==
  /\ pc' = [pc EXCEPT ![t] = "idle"]
  /\ tx' = [tx EXCEPT ![t] = NoLocals]
  /\ userLock' = Released(userLock, t)
  /\ rewardLock' = Released(rewardLock, t)
  /\ redemptionLock' = Released(redemptionLock, t)

\* A guard of the service failed and it threw: nothing was written.
Rollback(t) == EndTransaction(t) /\ UNCHANGED tables

\* The connection was lost, or Prisma's limit on the length of an interactive
\* transaction passed: PostgreSQL rolls back whatever had been done.
Abort(t) == pc[t] # "idle" /\ Rollback(t)

Goto(t, statement) == pc' = [pc EXCEPT ![t] = statement]
Learn(t, facts) == tx' = [tx EXCEPT ![t] = facts]

Locked(lock, x, t) == [lock EXCEPT ![x] = t]

\* Points enter or leave the ledger as events that name redemption d.
PostEvent(u, d, amount) ==
  /\ ledger' = [ledger EXCEPT ![u] = @ + amount]
  /\ net' = [net EXCEPT ![d] = @ + amount]

-----------------------------------------------------------------------------
(* redeem: read the reward without a lock, debit, take one from the stock, *)
(* insert the redemption and its event.                                    *)

\* The identifier is drawn by the client library, so no other request has it.
BeginRedeem(t, u, r, d) ==
  /\ pc[t] = "idle"
  /\ reward[r] # NoReward
  /\ redemption[d] = NoRedemption
  /\ \A s \in Tx : tx[s].redemption # d
  /\ Learn(t, [tx[t] EXCEPT !.user = u, !.reward = r, !.redemption = d])
  /\ Goto(t, "findRewardById")
  /\ UNCHANGED <<tables, locks>>

Available(row) == row.isActive /\ row.stock > 0

FindReward(t) ==
  /\ pc[t] = "findRewardById"
  /\ LET row == reward[tx[t].reward] IN
       \/ ~Available(row) /\ Rollback(t)
       \/ /\ Available(row)
          /\ Learn(t, [tx[t] EXCEPT !.price = row.costInPoints])
          /\ Goto(t, "debitUserPoints")
          /\ UNCHANGED <<tables, locks>>

\* UPDATE "User" ... WHERE points >= price: no row matches, or the row is
\* locked and its new version written.
\* With a bug: any participant with points may buy.
HasPoints(u, price) == points[u] > 0
CanAfford(u, price) == points[u] >= price

\* With a bug: the balance is read, and later overwritten, without a lock.
DebitUserPointsRead(t) ==
  /\ pc[t] = "debitUserPoints"
  /\ CanAfford(tx[t].user, tx[t].price)
  /\ Learn(t, [tx[t] EXCEPT !.balance = points[tx[t].user] - tx[t].price])
  /\ Goto(t, "decrementRewardStock")
  /\ UNCHANGED <<tables, locks>>

DebitUserPoints(t) ==
  /\ pc[t] = "debitUserPoints"
  /\ LET u == tx[t].user
         price == tx[t].price IN
       \/ ~CanAfford(u, price) /\ Rollback(t)
       \/ /\ CanAfford(u, price)
          /\ userLock[u] = None
          /\ userLock' = Locked(userLock, u, t)
          /\ Learn(t, [tx[t] EXCEPT !.balance = points[u] - price])
          /\ Goto(t, "decrementRewardStock")
          /\ UNCHANGED <<tables, rewardLock, redemptionLock>>

\* UPDATE "Reward" ... WHERE isActive AND stock > 0, tested on the row as it is
\* when the lock is got.  With a bug: only the stock is tested again.
InStock(row) == row.stock > 0
StillAvailable(row) == row.isActive /\ row.stock > 0

OneTaken(row) == [row EXCEPT !.stock = @ - 1]

\* With a bug: the row is read, and later overwritten, without a lock.
DecrementRewardStockRead(t) ==
  /\ pc[t] = "decrementRewardStock"
  /\ StillAvailable(reward[tx[t].reward])
  /\ Learn(t, [tx[t] EXCEPT !.shelf = OneTaken(reward[tx[t].reward])])
  /\ Goto(t, "create")
  /\ UNCHANGED <<tables, locks>>

DecrementRewardStock(t) ==
  /\ pc[t] = "decrementRewardStock"
  /\ LET r == tx[t].reward IN
       \/ ~StillAvailable(reward[r]) /\ Rollback(t)
       \/ /\ StillAvailable(reward[r])
          /\ rewardLock[r] = None
          /\ rewardLock' = Locked(rewardLock, r, t)
          /\ Learn(t, [tx[t] EXCEPT !.shelf = OneTaken(reward[r])])
          /\ Goto(t, "create")
          /\ UNCHANGED <<tables, userLock, redemptionLock>>

NewRedemption(t) ==
  [user |-> tx[t].user, reward |-> tx[t].reward, pointsSpent |-> tx[t].price,
   status |-> "PENDING"]

CommitRedeem(t) ==
  /\ pc[t] = "create"
  /\ LET u == tx[t].user
         d == tx[t].redemption IN
       /\ points' = [points EXCEPT ![u] = tx[t].balance]
       /\ reward' = [reward EXCEPT ![tx[t].reward] = tx[t].shelf]
       /\ redemption' = [redemption EXCEPT ![d] = NewRedemption(t)]
       /\ PostEvent(u, d, -tx[t].price)
  /\ EndTransaction(t)

-----------------------------------------------------------------------------
(* cancelRedemption and deliverRedemption, by administrators.              *)

Begin(t, d, statement) ==
  /\ pc[t] = "idle"
  /\ redemption[d] # NoRedemption
  /\ Learn(t, [tx[t] EXCEPT !.redemption = d])
  /\ Goto(t, statement)
  /\ UNCHANGED <<tables, locks>>

BeginCancel(t, d) == Begin(t, d, "lockToCancel")
BeginDeliver(t, d) == Begin(t, d, "lockToDeliver")

\* With a bug: whatever was not delivered may be cancelled.
NotDelivered(d) == redemption[d].status # "DELIVERED"
Pending(d) == redemption[d].status = "PENDING"

\* lockCancellationState locks the redemption, the participant and the reward,
\* the last two in the order in which redeem does.
\* With a bug: the reward before the participant.
RewardFirst ==
  [lockToCancel |-> "lockReward", lockReward |-> "lockUser", lockUser |-> "cancel"]
CancellationOrder ==
  [lockToCancel |-> "lockUser", lockUser |-> "lockReward", lockReward |-> "cancel"]

\* A delivery tests the status under this lock; a cancellation only after it has
\* locked the participant and the reward too, whatever the status was.
LockRedemptionState(t) ==
  /\ pc[t] \in {"lockToCancel", "lockToDeliver"}
  /\ LET d == tx[t].redemption IN
       /\ redemptionLock[d] = None
       /\ \/ pc[t] = "lockToDeliver" /\ ~Pending(d) /\ Rollback(t)
          \/ /\ pc[t] = "lockToDeliver" => Pending(d)
             /\ redemptionLock' = Locked(redemptionLock, d, t)
             /\ Goto(t, IF pc[t] = "lockToCancel" THEN CancellationOrder[pc[t]] ELSE "deliver")
             /\ Learn(t, [tx[t] EXCEPT !.user = redemption[d].user,
                                      !.reward = redemption[d].reward])
             /\ UNCHANGED <<tables, userLock, rewardLock>>

LockUser(t) ==
  /\ pc[t] = "lockUser"
  /\ userLock[tx[t].user] = None
  /\ userLock' = Locked(userLock, tx[t].user, t)
  /\ Goto(t, CancellationOrder["lockUser"])
  /\ UNCHANGED <<tables, rewardLock, redemptionLock, tx>>

LockReward(t) ==
  /\ pc[t] = "lockReward"
  /\ rewardLock[tx[t].reward] = None
  /\ rewardLock' = Locked(rewardLock, tx[t].reward, t)
  /\ Goto(t, CancellationOrder["lockReward"])
  /\ UNCHANGED <<tables, userLock, redemptionLock, tx>>

\* What is given back.  With a bug: what the reward costs now.
CurrentCost(d) == reward[redemption[d].reward].costInPoints
Refund(d) == redemption[d].pointsSpent

\* assertPending tests the status with the three rows locked.  It cannot change
\* any more, so the guard of transitionRedemption never fails after it.
RefuseCancel(t) ==
  /\ pc[t] = "cancel"
  /\ ~Pending(tx[t].redemption)
  /\ Rollback(t)

CommitCancel(t) ==
  /\ pc[t] = "cancel"
  /\ LET d == tx[t].redemption
         u == tx[t].user
         spent == Refund(d) IN
       /\ Pending(d)
       /\ redemption' = [redemption EXCEPT ![d].status = "CANCELLED"]
       /\ points' = [points EXCEPT ![u] = @ + spent]
       /\ reward' = [reward EXCEPT ![tx[t].reward].stock = @ + 1]
       /\ PostEvent(u, d, spent)
  /\ EndTransaction(t)

\* The audit row references the participant, which takes a KEY SHARE lock: it
\* waits for a SELECT ... FOR UPDATE of that row, not for an UPDATE of it.
LockedForUpdate(u) ==
  userLock[u] # None /\ pc[userLock[u]] \in {"lockReward", "cancel"}

CommitDeliver(t) ==
  /\ pc[t] = "deliver"
  /\ ~LockedForUpdate(tx[t].user)
  /\ redemption' = [redemption EXCEPT ![tx[t].redemption].status = "DELIVERED"]
  /\ EndTransaction(t)
  /\ UNCHANGED <<points, ledger, reward, net>>

-----------------------------------------------------------------------------
(* Transactions that lock one row, do all their work and commit: nothing   *)
(* can come between their statements, so each is one step.                 *)

CreateReward(r) ==
  /\ reward[r] = NoReward
  /\ \E row \in [costInPoints : Prices, stock : Stocks, isActive : BOOLEAN] :
       reward' = [reward EXCEPT ![r] = row]
  /\ UNCHANGED <<points, ledger, redemption, net, locks, pc, tx>>

\* A field the form leaves out keeps the value of the locked row, as does one
\* the form repeats.
UpdateReward(r) ==
  /\ reward[r] # NoReward
  /\ rewardLock[r] = None
  /\ \E price \in Prices, stock \in Stocks \union {reward[r].stock}, active \in BOOLEAN :
       reward' = [reward EXCEPT ![r] =
          [costInPoints |-> price, stock |-> stock, isActive |-> active]]
  /\ UNCHANGED <<points, ledger, redemption, net, locks, pc, tx>>

\* Points granted by an action: the event and the increment, in one transaction.
EarnPoints(u, n) ==
  /\ userLock[u] = None
  /\ points[u] + n <= MaxPoints
  /\ points' = [points EXCEPT ![u] = @ + n]
  /\ ledger' = [ledger EXCEPT ![u] = @ + n]
  /\ UNCHANGED <<reward, redemption, net, locks, pc, tx>>

-----------------------------------------------------------------------------
Statement(t) ==
  \/ FindReward(t) \/ DebitUserPoints(t) \/ DecrementRewardStock(t) \/ CommitRedeem(t)
  \/ LockRedemptionState(t) \/ LockUser(t) \/ LockReward(t)
  \/ RefuseCancel(t) \/ CommitCancel(t) \/ CommitDeliver(t)

Next ==
  \/ \E t \in Tx :
       \/ \E u \in Users, r \in Rewards, d \in Redemptions : BeginRedeem(t, u, r, d)
       \/ \E d \in Redemptions : BeginCancel(t, d) \/ BeginDeliver(t, d)
       \/ Statement(t)
       \/ Abort(t)
  \/ \E r \in Rewards : CreateReward(r) \/ UpdateReward(r)
  \/ \E u \in Users, n \in Gains : EarnPoints(u, n)

Spec == Init /\ [][Next]_vars

\* PostgreSQL queues the waiters of a row, so a statement that can run again
\* and again does run.
LiveSpec == Spec /\ \A t \in Tx : SF_vars(Statement(t))
-----------------------------------------------------------------------------
(* Properties.                                                             *)

\* Every variable has its type; a transaction knows the rows its statements use.
TypeOK ==
  /\ points \in [Users -> Int]
  /\ ledger \in [Users -> Int]
  /\ reward \in [Rewards -> Row \union {NoReward}]
  /\ redemption \in [Redemptions -> Redemption \union {NoRedemption}]
  /\ net \in [Redemptions -> Int]
  /\ userLock \in [Users -> Tx \union {None}]
  /\ rewardLock \in [Rewards -> Tx \union {None}]
  /\ redemptionLock \in [Redemptions -> Tx \union {None}]
  /\ pc \in [Tx -> Statements \union {"idle"}]
  /\ tx \in [Tx -> Locals]

\* No balance and no stock is ever negative, although the database checks
\* neither: the guards of the two UPDATEs of redeem are all there is, however
\* purchases, cancellations, edits and credits interleave.
NeverNegative ==
  /\ \A u \in Users : points[u] >= 0
  /\ \A r \in Rewards : reward[r] # NoReward => reward[r].stock >= 0

\* The events of a redemption add up to what it cost, or to nothing once it is
\* cancelled: it is never refunded twice, refunded after it was delivered, or
\* refunded at a price changed since the purchase.
RedemptionsSettled ==
  \A d \in Redemptions :
    net[d] = IF redemption[d] = NoRedemption \/ redemption[d].status = "CANCELLED"
             THEN 0 ELSE -redemption[d].pointsSpent

\* A balance is the sum of the participant's events: what the reconciliation
\* screen calls divergence never comes from the shop.
BalanceIsLedger == \A u \in Users : points[u] = ledger[u]

\* A delivered or cancelled redemption never changes again, and a redemption
\* keeps its participant, reward and price (assertPending and the row lock,
\* whatever two administrators do at once).
RedemptionsAreFinal ==
  [][\A d \in Redemptions :
       redemption[d] # NoRedemption /\ redemption'[d] # redemption[d] =>
         /\ redemption[d].status = "PENDING"
         /\ \E status \in {"DELIVERED", "CANCELLED"} :
              redemption'[d] = [redemption[d] EXCEPT !.status = status]]_vars

\* Redemptions of r that were not cancelled, and with them its units in stock.
Kept(r) == {d \in Redemptions : /\ redemption[d] # NoRedemption
                                /\ redemption[d].reward = r
                                /\ redemption[d].status # "CANCELLED"}
Units(r) == reward[r].stock + Cardinality(Kept(r))

\* Only an administrator's edit makes or unmakes units of a reward: no
\* interleaving of purchases and cancellations loses a decrement or an increment.
UnitsConserved ==
  [][\A r \in Rewards :
       reward[r] # NoReward /\ ~UpdateReward(r) => Units(r)' = Units(r)]_vars

\* A purchase or a cancellation never overwrites a price or a status edited by
\* an administrator with the version it had read before.
EditsAreNotLost ==
  [][\A r \in Rewards :
       /\ reward[r] # NoReward
       /\ \/ reward'[r].costInPoints # reward[r].costInPoints
          \/ reward'[r].isActive # reward[r].isActive
       => UpdateReward(r)]_vars

\* Transaction t waits for a row that s holds.
WaitsFor(t, s) ==
  \/ pc[t] \in {"debitUserPoints", "lockUser"} /\ userLock[tx[t].user] = s
  \/ pc[t] \in {"decrementRewardStock", "lockReward"} /\ rewardLock[tx[t].reward] = s
  \/ pc[t] \in {"lockToCancel", "lockToDeliver"} /\ redemptionLock[tx[t].redemption] = s
  \/ pc[t] = "deliver" /\ userLock[tx[t].user] = s /\ LockedForUpdate(tx[t].user)

\* No transactions wait for each other in a circle (the comment at
\* rewards.repository.ts:362: rows are always locked User -> Reward).
NoDeadlock ==
  \A S \in (SUBSET Tx) \ {{}} : \E t \in S : \A s \in S : ~WaitsFor(t, s)

\* Every request is answered: a transaction that has begun ends.
EveryTransactionEnds == \A t \in Tx : pc[t] # "idle" ~> pc[t] = "idle"
\* Every transaction takes effect at one step, on the committed rows of that
\* step, whatever was read and written before it (PostgreSQL's row locks, and
\* the guards repeated in the UPDATEs against the unlocked read of redeem).
Atomic == INSTANCE AtomicShop WITH
            points <- points, ledger <- ledger, reward <- reward,
            redemption <- redemption, net <- net
ImplementsAtomicShop == Atomic!Spec
=============================================================================
