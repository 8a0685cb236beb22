----------------------------- MODULE AtomicShop -----------------------------
(***************************************************************************)
(* What the reward shop promises: every purchase, cancellation, delivery,  *)
(* catalogue edit and credit takes effect in one indivisible step, on the  *)
(* committed state of that moment.  There are no transactions, locks or    *)
(* stale reads here; Shop.tla, which has them, is shown to implement this. *)
(*                                                                         *)
(* The one liberty left to an implementation is the price: a purchase may  *)
(* charge any price of the catalogue, since the program charges the price  *)
(* it read before it took its locks.                                       *)
(***************************************************************************)
EXTENDS Integers

CONSTANTS Users,        \* participants
          Rewards,      \* identifiers of rewards
          Redemptions,  \* identifiers of redemptions
          Prices,       \* values of Reward.costInPoints
          Stocks,       \* values an administrator gives Reward.stock
          Gains,        \* points a participant may earn at once
          NoReward,     \* a reward not yet created
          NoRedemption  \* a redemption not yet created

VARIABLES points, ledger, reward, redemption, net

vars == <<points, ledger, reward, redemption, net>>

Created == {r \in Rewards : reward[r] # NoReward}

Init ==
  /\ points = [u \in Users |-> 0]
  /\ ledger = [u \in Users |-> 0]
  /\ reward = [r \in Rewards |-> NoReward]
  /\ redemption = [d \in Redemptions |-> NoRedemption]
  /\ net = [d \in Redemptions |-> 0]

\* The balance, the ledger of point events and the events of d move together.
Post(u, d, amount) ==
  /\ points' = [points EXCEPT ![u] = @ + amount]
  /\ ledger' = [ledger EXCEPT ![u] = @ + amount]
  /\ net' = [net EXCEPT ![d] = @ + amount]

Purchase(u, r, d, price) ==
  /\ redemption[d] = NoRedemption
  /\ reward[r] # NoReward
  /\ reward[r].isActive
  /\ reward[r].stock > 0
  /\ points[u] >= price
  /\ reward' = [reward EXCEPT ![r].stock = @ - 1]
  /\ redemption' = [redemption EXCEPT ![d] =
        [user |-> u, reward |-> r, pointsSpent |-> price, status |-> "PENDING"]]
  /\ Post(u, d, -price)

Cancel(d) ==
  /\ redemption[d] # NoRedemption
  /\ redemption[d].status = "PENDING"
  /\ reward' = [reward EXCEPT ![redemption[d].reward].stock = @ + 1]
  /\ redemption' = [redemption EXCEPT ![d].status = "CANCELLED"]
  /\ Post(redemption[d].user, d, redemption[d].pointsSpent)

Deliver(d) ==
  /\ redemption[d] # NoRedemption
  /\ redemption[d].status = "PENDING"
  /\ redemption' = [redemption EXCEPT ![d].status = "DELIVERED"]
  /\ UNCHANGED <<points, ledger, reward, net>>

\* Creating a reward, or an edit by an administrator, who replaces the stock by
\* a value the form allows or leaves it as it is.
Catalogue(r) ==
  /\ \E price \in Prices, active \in BOOLEAN,
        stock \in Stocks \union {reward[r].stock : s \in {r} \cap Created} :
       reward' = [reward EXCEPT ![r] =
          [costInPoints |-> price, stock |-> stock, isActive |-> active]]
  /\ UNCHANGED <<points, ledger, redemption, net>>

Earn(u, n) ==
  /\ points' = [points EXCEPT ![u] = @ + n]
  /\ ledger' = [ledger EXCEPT ![u] = @ + n]
  /\ UNCHANGED <<reward, redemption, net>>

Next ==
  \/ \E u \in Users, r \in Rewards, d \in Redemptions, price \in Prices :
       Purchase(u, r, d, price)
  \/ \E d \in Redemptions : Cancel(d) \/ Deliver(d)
  \/ \E r \in Rewards : Catalogue(r)
  \/ \E u \in Users, n \in Gains : Earn(u, n)

Spec == Init /\ [][Next]_vars
=============================================================================
