----------------------------- MODULE ShopProofs -----------------------------
(***************************************************************************)
(* Theorems of Shop.tla, for any sets of participants, rewards and         *)
(* redemptions and any number of concurrent transactions.                  *)
(*                                                                         *)
(* No property of Shop is inductive by itself: a balance stays             *)
(* non-negative because the transaction about to commit still holds the    *)
(* row it tested.  IInv says what each statement may count on: which locks *)
(* its transaction holds, and how its private row versions relate to the   *)
(* committed rows.                                                         *)
(***************************************************************************)
EXTENDS Shop, FiniteSetTheorems, TLAPS

\* The arguments of a transaction are rows that exist (or, for the redemption
\* of a purchase, that do not exist yet).
ArgumentsKnown(t) ==
  /\ pc[t] = "idle" => tx[t] = NoLocals
  /\ pc[t] \in Redeeming =>
       /\ tx[t].user \in Users
       /\ tx[t].reward \in Rewards
       /\ reward[tx[t].reward] # NoReward
       /\ tx[t].redemption \in Redemptions
       /\ redemption[tx[t].redemption] = NoRedemption
  /\ pc[t] \in Redeeming \ {"findRewardById"} => tx[t].price \in Prices
  /\ pc[t] \in Cancelling \union Delivering =>
       /\ tx[t].redemption \in Redemptions
       /\ redemption[tx[t].redemption] # NoRedemption

\* A purchase that has debited holds the participant's row; one that has taken
\* a unit holds the reward's row; what it will write is what it tested.
PurchaseReserved(t) ==
  /\ pc[t] \in {"decrementRewardStock", "create"} =>
       /\ userLock[tx[t].user] = t
       /\ tx[t].price <= points[tx[t].user]
       /\ tx[t].balance = points[tx[t].user] - tx[t].price
  /\ pc[t] = "create" =>
       /\ rewardLock[tx[t].reward] = t
       /\ reward[tx[t].reward].isActive
       /\ reward[tx[t].reward].stock > 0
       /\ tx[t].shelf = OneTaken(reward[tx[t].reward])

\* A cancellation and a delivery hold the redemption they have locked, and know
\* whose it is; a delivery has found it pending, and the lock keeps it so.
TransitionReserved(t) ==
  /\ pc[t] \in {"lockUser", "lockReward", "cancel", "deliver"} =>
       /\ redemptionLock[tx[t].redemption] = t
       /\ tx[t].user = redemption[tx[t].redemption].user
       /\ tx[t].reward = redemption[tx[t].redemption].reward
  /\ pc[t] = "deliver" => redemption[tx[t].redemption].status = "PENDING"
  /\ pc[t] \in {"lockReward", "cancel"} => userLock[tx[t].user] = t
  /\ pc[t] = "cancel" => rewardLock[tx[t].reward] = t

\* No two purchases were given the same identifier.
IdentifiersDiffer ==
  \A s, t \in Tx : /\ pc[s] \in Redeeming
                   /\ pc[t] \in Redeeming
                   /\ tx[s].redemption = tx[t].redemption
                   => s = t

\* A redemption points at a reward that exists (the foreign key).
RewardsExist ==
  \A d \in Redemptions :
    redemption[d] # NoRedemption => reward[redemption[d].reward] # NoReward

Control ==
  /\ \A t \in Tx : ArgumentsKnown(t) /\ PurchaseReserved(t) /\ TransitionReserved(t)
  /\ IdentifiersDiffer
  /\ RewardsExist

IInv == TypeOK /\ Control /\ NeverNegative /\ RedemptionsSettled /\ BalanceIsLedger
USE DEF Redeeming, Cancelling, Delivering

-----------------------------------------------------------------------------
(* Frames: what a step of transaction t leaves alone.                       *)

\* Transaction s keeps its place, its knowledge and its locks.
SameTx(s) ==
  /\ pc'[s] = pc[s]
  /\ tx'[s] = tx[s]
  /\ \A u \in Users : userLock[u] = s => userLock'[u] = s
  /\ \A r \in Rewards : rewardLock[r] = s => rewardLock'[r] = s
  /\ \A d \in Redemptions : redemptionLock[d] = s => redemptionLock'[d] = s

ProtocolTypeOK ==
  /\ userLock \in [Users -> Tx \union {None}]
  /\ rewardLock \in [Rewards -> Tx \union {None}]
  /\ redemptionLock \in [Redemptions -> Tx \union {None}]
  /\ pc \in [Tx -> Statements \union {"idle"}]
  /\ tx \in [Tx -> Locals]

\* Ending a transaction keeps the types and leaves the other transactions alone.
LEMMA EndFrame ==
  ASSUME TypeOK, NEW t \in Tx, EndTransaction(t)
  PROVE  /\ ProtocolTypeOK'
         /\ pc'[t] = "idle" /\ tx'[t] = NoLocals
         /\ \A s \in Tx \ {t} : SameTx(s)
<1>1. NoLocals \in Locals
  BY DEF NoLocals, Locals
<1>2. pc' \in [Tx -> Statements \union {"idle"}] /\ tx' \in [Tx -> Locals]
  BY <1>1 DEF EndTransaction, TypeOK, Statements
<1>3. /\ userLock' \in [Users -> Tx \union {None}]
      /\ rewardLock' \in [Rewards -> Tx \union {None}]
      /\ redemptionLock' \in [Redemptions -> Tx \union {None}]
  BY DEF EndTransaction, TypeOK, Released
<1>4. ASSUME NEW s \in Tx \ {t} PROVE SameTx(s)
  BY DEF EndTransaction, TypeOK, Released, SameTx
<1>5. pc'[t] = "idle" /\ tx'[t] = NoLocals
  BY DEF EndTransaction, TypeOK
<1> QED
  BY <1>2, <1>3, <1>4, <1>5 DEF ProtocolTypeOK

\* A rollback keeps the invariant.
LEMMA RollbackInv ==
  ASSUME IInv, NEW t \in Tx, Rollback(t)
  PROVE  IInv'
<1>1. /\ ProtocolTypeOK'
      /\ pc'[t] = "idle" /\ tx'[t] = NoLocals
      /\ \A s \in Tx \ {t} : SameTx(s)
  BY EndFrame DEF Rollback, IInv
<1>2. UNCHANGED tables
  BY DEF Rollback
<1>3. TypeOK'
  BY <1>1, <1>2 DEF IInv, TypeOK, ProtocolTypeOK, tables
<1>4. ASSUME NEW s \in Tx
      PROVE  (ArgumentsKnown(s) /\ PurchaseReserved(s) /\ TransitionReserved(s))'
  <2>1. CASE s = t
    BY <1>1, <2>1 DEF ArgumentsKnown, PurchaseReserved, TransitionReserved
  <2>2. CASE s # t
    BY <1>1, <1>2, <2>2
    DEF IInv, TypeOK, Control, tables, SameTx, ArgumentsKnown, PurchaseReserved, TransitionReserved, Locals, Redemption
  <2> QED BY <2>1, <2>2
<1>5. IdentifiersDiffer' /\ RewardsExist'
  BY <1>1, <1>2 DEF IInv, Control, SameTx, IdentifiersDiffer, RewardsExist, tables
<1>6. NeverNegative' /\ RedemptionsSettled' /\ BalanceIsLedger'
  BY <1>2 DEF IInv, tables, NeverNegative, RedemptionsSettled, BalanceIsLedger
<1> QED
  BY <1>3, <1>4, <1>5, <1>6 DEF IInv, Control
-----------------------------------------------------------------------------
(* Steps that write no table.                                               *)

\* What the committed tables say is kept by a step that leaves them alone.
LEMMA TablesKept ==
  ASSUME IInv, UNCHANGED tables
  PROVE  RewardsExist' /\ NeverNegative' /\ RedemptionsSettled' /\ BalanceIsLedger'
BY DEF IInv, Control, tables, RewardsExist, NeverNegative, RedemptionsSettled, BalanceIsLedger

\* What a transaction knows of the tables is kept by a step of another one that
\* leaves them alone.
LEMMA OthersKept ==
  ASSUME IInv, UNCHANGED tables, NEW s \in Tx, SameTx(s)
  PROVE  (ArgumentsKnown(s) /\ PurchaseReserved(s) /\ TransitionReserved(s))'
BY DEF IInv, TypeOK, Control, tables, SameTx, ArgumentsKnown, PurchaseReserved,
       TransitionReserved, Locals, Redemption

\* A step of t that writes no table and only changes what t knows and holds.
LEMMA StepInv ==
  ASSUME IInv, NEW t \in Tx, UNCHANGED tables, NEW facts \in Locals,
         NEW statement \in Statements,
         Goto(t, statement), Learn(t, facts),
         userLock' \in [Users -> Tx \union {None}],
         rewardLock' \in [Rewards -> Tx \union {None}],
         redemptionLock' \in [Redemptions -> Tx \union {None}],
         \A s \in Tx \ {t} :
           /\ \A u \in Users : userLock[u] = s => userLock'[u] = s
           /\ \A r \in Rewards : rewardLock[r] = s => rewardLock'[r] = s
           /\ \A d \in Redemptions : redemptionLock[d] = s => redemptionLock'[d] = s,
         (ArgumentsKnown(t) /\ PurchaseReserved(t) /\ TransitionReserved(t))',
         \A s \in Tx \ {t} : statement \in Redeeming /\ pc[s] \in Redeeming
                              => tx[s].redemption # facts.redemption
  PROVE  IInv'
<1>1. pc' = [pc EXCEPT ![t] = statement] /\ tx' = [tx EXCEPT ![t] = facts]
  BY DEF Goto, Learn
<1>2. TypeOK'
  BY <1>1 DEF IInv, TypeOK, tables
<1>3. \A s \in Tx \ {t} : SameTx(s)
  BY <1>1 DEF IInv, TypeOK, SameTx
<1>4. pc'[t] = statement /\ tx'[t] = facts
  BY <1>1 DEF IInv, TypeOK
<1>5. IdentifiersDiffer'
  <2> SUFFICES ASSUME NEW r \in Tx, NEW s \in Tx,
                      pc'[r] \in Redeeming, pc'[s] \in Redeeming,
                      tx'[r].redemption = tx'[s].redemption
               PROVE  r = s
    BY DEF IdentifiersDiffer
  <2>1. CASE r # t /\ s # t
    BY <1>3, <2>1 DEF IInv, Control, IdentifiersDiffer, SameTx
  <2>2. CASE r = t \/ s = t
    BY <1>3, <1>4, <2>2 DEF SameTx
  <2> QED BY <2>1, <2>2
<1> QED
  BY <1>2, <1>3, <1>5, TablesKept, OthersKept DEF IInv, Control

LEMMA BeginRedeemInv ==
  ASSUME IInv, NEW t \in Tx, NEW u \in Users, NEW r \in Rewards, NEW d \in Redemptions,
         BeginRedeem(t, u, r, d)
  PROVE  IInv'
<1> DEFINE facts == [tx[t] EXCEPT !.user = u, !.reward = r, !.redemption = d]
<1>1. UNCHANGED tables /\ UNCHANGED locks /\ Goto(t, "findRewardById") /\ Learn(t, facts)
  BY DEF BeginRedeem
<1>2. /\ facts \in Locals
      /\ facts.user = u /\ facts.reward = r /\ facts.redemption = d
  BY DEF IInv, TypeOK, Locals
<1> HIDE DEF facts
<1>3. pc'[t] = "findRewardById" /\ tx'[t] = facts
  BY <1>1 DEF IInv, TypeOK, Goto, Learn
<1>4. (ArgumentsKnown(t) /\ PurchaseReserved(t) /\ TransitionReserved(t))'
  BY <1>1, <1>2, <1>3 DEF BeginRedeem, tables, ArgumentsKnown, PurchaseReserved, TransitionReserved
<1>5. \A s \in Tx : tx[s].redemption # facts.redemption
  BY <1>2 DEF BeginRedeem
<1> QED
  BY <1>1, <1>2, <1>4, <1>5, StepInv DEF locks, IInv, TypeOK, Statements

LEMMA BeginInv ==
  ASSUME IInv, NEW t \in Tx, NEW d \in Redemptions,
         NEW statement \in {"lockToCancel", "lockToDeliver"}, Begin(t, d, statement)
  PROVE  IInv'
<1> DEFINE facts == [tx[t] EXCEPT !.redemption = d]
<1>1. UNCHANGED tables /\ UNCHANGED locks /\ Goto(t, statement) /\ Learn(t, facts)
  BY DEF Begin
<1>2. facts \in Locals /\ facts.redemption = d
  BY DEF IInv, TypeOK, Locals
<1> HIDE DEF facts
<1>3. pc'[t] = statement /\ tx'[t] = facts
  BY <1>1 DEF IInv, TypeOK, Goto, Learn
<1>4. (ArgumentsKnown(t) /\ PurchaseReserved(t) /\ TransitionReserved(t))'
  BY <1>1, <1>2, <1>3 DEF Begin, tables, ArgumentsKnown, PurchaseReserved, TransitionReserved
<1> QED
  BY <1>1, <1>2, <1>4, StepInv DEF locks, IInv, TypeOK, Statements

LEMMA FindRewardInv ==
  ASSUME IInv, NEW t \in Tx, FindReward(t)
  PROVE  IInv'
<1> DEFINE facts == [tx[t] EXCEPT !.price = reward[tx[t].reward].costInPoints]
<1>1. CASE Rollback(t)
  BY <1>1, RollbackInv
<1>2. CASE /\ pc[t] = "findRewardById"
           /\ Learn(t, facts)
           /\ Goto(t, "debitUserPoints")
           /\ UNCHANGED <<tables, locks>>
  <2>1. reward[tx[t].reward] \in Row
    BY <1>2 DEF IInv, TypeOK, Control, ArgumentsKnown
  <2>2. reward[tx[t].reward].costInPoints \in Prices
    BY <2>1 DEF Row
  <2>3. /\ facts \in Locals
        /\ facts.user = tx[t].user /\ facts.reward = tx[t].reward
        /\ facts.redemption = tx[t].redemption /\ facts.price \in Prices
    BY <2>2 DEF IInv, TypeOK, Locals
  <2> HIDE DEF facts
  <2>4. pc'[t] = "debitUserPoints" /\ tx'[t] = facts
    BY <1>2 DEF IInv, TypeOK, Goto, Learn
  <2>5. (ArgumentsKnown(t) /\ PurchaseReserved(t) /\ TransitionReserved(t))'
    BY <1>2, <2>3, <2>4
    DEF IInv, Control, tables, ArgumentsKnown, PurchaseReserved, TransitionReserved
  <2>6. \A s \in Tx \ {t} : pc[s] \in Redeeming => tx[s].redemption # facts.redemption
    BY <1>2, <2>3 DEF IInv, Control, IdentifiersDiffer
  <2> QED
    BY <1>2, <2>3, <2>5, <2>6, StepInv DEF locks, IInv, TypeOK, Statements
<1> QED
  BY <1>1, <1>2 DEF FindReward
LEMMA DebitUserPointsInv ==
  ASSUME IInv, NEW t \in Tx, DebitUserPoints(t)
  PROVE  IInv'
<1> DEFINE u == tx[t].user
           facts == [tx[t] EXCEPT !.balance = points[u] - tx[t].price]
<1>1. CASE Rollback(t)
  BY <1>1, RollbackInv
<1>2. CASE /\ pc[t] = "debitUserPoints"
           /\ CanAfford(u, tx[t].price)
           /\ userLock[u] = None
           /\ userLock' = Locked(userLock, u, t)
           /\ Learn(t, facts)
           /\ Goto(t, "decrementRewardStock")
           /\ UNCHANGED <<tables, rewardLock, redemptionLock>>
  <2>1. u \in Users /\ points[u] \in Int /\ tx[t].price \in Int
    BY <1>2, PricesAssumption DEF IInv, TypeOK, Control, ArgumentsKnown
  <2>2. /\ facts \in Locals
        /\ facts.user = u /\ facts.reward = tx[t].reward
        /\ facts.redemption = tx[t].redemption /\ facts.price = tx[t].price
        /\ facts.balance = points[u] - tx[t].price
    BY <2>1 DEF IInv, TypeOK, Locals
  <2> HIDE DEF facts
  <2>3. pc'[t] = "decrementRewardStock" /\ tx'[t] = facts
    BY <1>2 DEF IInv, TypeOK, Goto, Learn
  <2>4. /\ userLock' \in [Users -> Tx \union {None}]
        /\ userLock'[u] = t
        /\ \A s \in Tx \ {t}, v \in Users : userLock[v] = s => userLock'[v] = s
    BY <1>2, <2>1, NoneAssumption DEF IInv, TypeOK, Locked
  <2>5. (ArgumentsKnown(t) /\ PurchaseReserved(t) /\ TransitionReserved(t))'
    BY <1>2, <2>1, <2>2, <2>3, <2>4
    DEF IInv, Control, tables, CanAfford, ArgumentsKnown, PurchaseReserved, TransitionReserved
  <2>6. \A s \in Tx \ {t} : pc[s] \in Redeeming => tx[s].redemption # facts.redemption
    BY <1>2, <2>2 DEF IInv, Control, IdentifiersDiffer
  <2> QED
    BY <1>2, <2>2, <2>4, <2>5, <2>6, StepInv DEF IInv, TypeOK, Statements
<1> QED
  BY <1>1, <1>2 DEF DebitUserPoints

LEMMA DecrementRewardStockInv ==
  ASSUME IInv, NEW t \in Tx, DecrementRewardStock(t)
  PROVE  IInv'
<1> DEFINE r == tx[t].reward
           facts == [tx[t] EXCEPT !.shelf = OneTaken(reward[r])]
<1>1. CASE Rollback(t)
  BY <1>1, RollbackInv
<1>2. CASE /\ pc[t] = "decrementRewardStock"
           /\ StillAvailable(reward[r])
           /\ rewardLock[r] = None
           /\ rewardLock' = Locked(rewardLock, r, t)
           /\ Learn(t, facts)
           /\ Goto(t, "create")
           /\ UNCHANGED <<tables, userLock, redemptionLock>>
  <2>1. r \in Rewards /\ reward[r] \in Row
    BY <1>2 DEF IInv, TypeOK, Control, ArgumentsKnown
  <2>2. OneTaken(reward[r]) \in Row
    BY <2>1 DEF OneTaken, Row
  <2>3. /\ facts \in Locals
        /\ facts.user = tx[t].user /\ facts.reward = r
        /\ facts.redemption = tx[t].redemption /\ facts.price = tx[t].price
        /\ facts.balance = tx[t].balance /\ facts.shelf = OneTaken(reward[r])
    BY <2>2 DEF IInv, TypeOK, Locals
  <2> HIDE DEF facts
  <2>4. pc'[t] = "create" /\ tx'[t] = facts
    BY <1>2 DEF IInv, TypeOK, Goto, Learn
  <2>5. /\ rewardLock' \in [Rewards -> Tx \union {None}]
        /\ rewardLock'[r] = t
        /\ \A s \in Tx \ {t}, v \in Rewards : rewardLock[v] = s => rewardLock'[v] = s
    BY <1>2, <2>1, NoneAssumption DEF IInv, TypeOK, Locked
  <2>6. (ArgumentsKnown(t) /\ PurchaseReserved(t) /\ TransitionReserved(t))'
    BY <1>2, <2>1, <2>3, <2>4, <2>5
    DEF IInv, Control, tables, StillAvailable, ArgumentsKnown, PurchaseReserved, TransitionReserved
  <2>7. \A s \in Tx \ {t} : pc[s] \in Redeeming => tx[s].redemption # facts.redemption
    BY <1>2, <2>3 DEF IInv, Control, IdentifiersDiffer
  <2> QED
    BY <1>2, <2>3, <2>5, <2>6, <2>7, StepInv DEF IInv, TypeOK, Statements
<1> QED
  BY <1>1, <1>2 DEF DecrementRewardStock

LEMMA LockRedemptionStateInv ==
  ASSUME IInv, NEW t \in Tx, LockRedemptionState(t)
  PROVE  IInv'
<1> DEFINE d == tx[t].redemption
           facts == [tx[t] EXCEPT !.user = redemption[d].user, !.reward = redemption[d].reward]
<1>1. CASE Rollback(t)
  BY <1>1, RollbackInv
<1>2. ASSUME NEW next \in {"lockUser", "deliver"},
             /\ pc[t] \in {"lockToCancel", "lockToDeliver"}
             /\ next = "deliver" => Pending(d)
             /\ redemptionLock[d] = None
             /\ redemptionLock' = Locked(redemptionLock, d, t)
             /\ Learn(t, facts)
             /\ Goto(t, next)
             /\ UNCHANGED <<tables, userLock, rewardLock>>
      PROVE  IInv'
  <2>1. d \in Redemptions /\ redemption[d] # NoRedemption /\ redemption[d] \in Redemption
    BY <1>2 DEF IInv, TypeOK, Control, ArgumentsKnown
  <2>2. redemption[d].user \in Users /\ redemption[d].reward \in Rewards
    BY <2>1 DEF Redemption
  <2>3. /\ facts \in Locals
        /\ facts.user = redemption[d].user /\ facts.reward = redemption[d].reward
        /\ facts.redemption = d
    BY <2>2 DEF IInv, TypeOK, Locals
  <2> HIDE DEF facts
  <2>4. pc'[t] = next /\ tx'[t] = facts
    BY <1>2 DEF IInv, TypeOK, Goto, Learn
  <2>5. /\ redemptionLock' \in [Redemptions -> Tx \union {None}]
        /\ redemptionLock'[d] = t
        /\ \A s \in Tx \ {t}, v \in Redemptions :
             redemptionLock[v] = s => redemptionLock'[v] = s
    BY <1>2, <2>1, NoneAssumption DEF IInv, TypeOK, Locked
  <2>6. (ArgumentsKnown(t) /\ PurchaseReserved(t) /\ TransitionReserved(t))'
    BY <1>2, <2>1, <2>3, <2>4, <2>5
    DEF tables, Pending, ArgumentsKnown, PurchaseReserved, TransitionReserved
  <2> QED
    BY <1>2, <2>3, <2>5, <2>6, StepInv DEF IInv, TypeOK, Statements
<1> QED
  BY <1>1, <1>2 DEF LockRedemptionState, CancellationOrder

LEMMA LockUserInv ==
  ASSUME IInv, NEW t \in Tx, LockUser(t)
  PROVE  IInv'
<1> DEFINE u == tx[t].user
<1>1. /\ pc[t] = "lockUser"
      /\ userLock[u] = None
      /\ userLock' = Locked(userLock, u, t)
      /\ Goto(t, "lockReward") /\ Learn(t, tx[t])
      /\ UNCHANGED <<tables, rewardLock, redemptionLock, tx>>
  BY DEF LockUser, CancellationOrder, Learn, IInv, TypeOK
<1>2. tx[t] \in Locals /\ u \in Users
  BY <1>1 DEF IInv, TypeOK, Control, ArgumentsKnown, TransitionReserved, Redemption
<1>3. pc'[t] = "lockReward" /\ tx'[t] = tx[t]
  BY <1>1 DEF IInv, TypeOK, Goto
<1>4. /\ userLock' \in [Users -> Tx \union {None}]
      /\ userLock'[u] = t
      /\ \A s \in Tx \ {t}, v \in Users : userLock[v] = s => userLock'[v] = s
  BY <1>1, <1>2, NoneAssumption DEF IInv, TypeOK, Locked
<1>5. (ArgumentsKnown(t) /\ PurchaseReserved(t) /\ TransitionReserved(t))'
  BY <1>1, <1>2, <1>3, <1>4
  DEF IInv, Control, tables, ArgumentsKnown, PurchaseReserved, TransitionReserved
<1> QED
  BY <1>1, <1>2, <1>4, <1>5, StepInv DEF IInv, TypeOK, Statements

LEMMA LockRewardInv ==
  ASSUME IInv, NEW t \in Tx, LockReward(t)
  PROVE  IInv'
<1> DEFINE r == tx[t].reward
<1>1. /\ pc[t] = "lockReward"
      /\ rewardLock[r] = None
      /\ rewardLock' = Locked(rewardLock, r, t)
      /\ Goto(t, "cancel") /\ Learn(t, tx[t])
      /\ UNCHANGED <<tables, userLock, redemptionLock, tx>>
  BY DEF LockReward, CancellationOrder, Learn, IInv, TypeOK
<1>2. tx[t] \in Locals /\ r \in Rewards
  BY <1>1 DEF IInv, TypeOK, Control, ArgumentsKnown, TransitionReserved, Redemption
<1>3. pc'[t] = "cancel" /\ tx'[t] = tx[t]
  BY <1>1 DEF IInv, TypeOK, Goto
<1>4. /\ rewardLock' \in [Rewards -> Tx \union {None}]
      /\ rewardLock'[r] = t
      /\ \A s \in Tx \ {t}, v \in Rewards : rewardLock[v] = s => rewardLock'[v] = s
  BY <1>1, <1>2, NoneAssumption DEF IInv, TypeOK, Locked
<1>5. (ArgumentsKnown(t) /\ PurchaseReserved(t) /\ TransitionReserved(t))'
  BY <1>1, <1>2, <1>3, <1>4
  DEF IInv, Control, tables, ArgumentsKnown, PurchaseReserved, TransitionReserved
<1> QED
  BY <1>1, <1>2, <1>4, <1>5, StepInv DEF IInv, TypeOK, Statements
-----------------------------------------------------------------------------
(* Steps that write tables.                                                 *)

\* What s knows of the tables is kept by a step that changes no row s has
\* locked, undoes no creation, and does not create the redemption s is to create.
LEMMA OthersReserved ==
  ASSUME IInv, NEW s \in Tx, SameTx(s),
         \A u \in Users : userLock[u] = s => points'[u] = points[u],
         \A r \in Rewards : reward[r] # NoReward => reward'[r] # NoReward,
         \A r \in Rewards : rewardLock[r] = s => reward'[r] = reward[r],
         \A d \in Redemptions : redemption[d] # NoRedemption => redemption'[d] # NoRedemption,
         \A d \in Redemptions : redemptionLock[d] = s /\ redemption[d] # NoRedemption
            => redemption'[d] = redemption[d],
         pc[s] \in Redeeming => redemption'[tx[s].redemption] = NoRedemption
  PROVE  (ArgumentsKnown(s) /\ PurchaseReserved(s) /\ TransitionReserved(s))'
<1>1. ArgumentsKnown(s)'
  BY DEF IInv, Control, SameTx, ArgumentsKnown
<1>2. PurchaseReserved(s)'
  BY DEF IInv, Control, SameTx, ArgumentsKnown, PurchaseReserved
<1>3. TransitionReserved(s)'
  <2>1. pc[s] \in {"lockUser", "lockReward", "cancel", "deliver"} =>
          /\ tx[s].redemption \in Redemptions
          /\ redemptionLock[tx[s].redemption] = s
          /\ redemption[tx[s].redemption] # NoRedemption
          /\ redemption[tx[s].redemption] \in Redemption
    BY DEF IInv, TypeOK, Control, ArgumentsKnown, TransitionReserved
  <2>2. pc[s] \in {"lockUser", "lockReward", "cancel"} => tx[s].user \in Users /\ tx[s].reward \in Rewards
    BY <2>1 DEF IInv, Control, TransitionReserved, Redemption
  <2> QED
    BY <2>1, <2>2 DEF IInv, Control, SameTx, TransitionReserved
<1> QED
  BY <1>1, <1>2, <1>3

\* The same at the end of t: what remains to be shown is about the tables.
LEMMA EndInv ==
  ASSUME IInv, NEW t \in Tx, EndTransaction(t),
         points' \in [Users -> Int], ledger' \in [Users -> Int],
         reward' \in [Rewards -> Row \union {NoReward}],
         redemption' \in [Redemptions -> Redemption \union {NoRedemption}],
         net' \in [Redemptions -> Int],
         \A u \in Users : userLock[u] # t => points'[u] = points[u],
         \A r \in Rewards : reward[r] # NoReward => reward'[r] # NoReward,
         \A r \in Rewards : rewardLock[r] # t => reward'[r] = reward[r],
         \A d \in Redemptions : redemption[d] # NoRedemption => redemption'[d] # NoRedemption,
         \A d \in Redemptions : redemption'[d] # redemption[d]
            => \/ pc[t] \in Redeeming /\ d = tx[t].redemption
               \/ redemptionLock[d] = t /\ redemption[d] # NoRedemption,
         RewardsExist', NeverNegative', RedemptionsSettled', BalanceIsLedger'
  PROVE  IInv'
<1>1. /\ ProtocolTypeOK'
      /\ pc'[t] = "idle" /\ tx'[t] = NoLocals
      /\ \A s \in Tx \ {t} : SameTx(s)
  BY EndFrame DEF IInv
<1>2. TypeOK'
  BY <1>1 DEF TypeOK, ProtocolTypeOK
<1>3. (ArgumentsKnown(t) /\ PurchaseReserved(t) /\ TransitionReserved(t))'
  BY <1>1 DEF ArgumentsKnown, PurchaseReserved, TransitionReserved
<1>4. ASSUME NEW s \in Tx \ {t}
      PROVE  (ArgumentsKnown(s) /\ PurchaseReserved(s) /\ TransitionReserved(s))'
  <2>1. ASSUME NEW d \in Redemptions, redemptionLock[d] = s, redemption[d] # NoRedemption
        PROVE  redemption'[d] = redemption[d]
    BY <2>1 DEF IInv, Control, ArgumentsKnown
  <2>2. pc[s] \in Redeeming => redemption'[tx[s].redemption] = NoRedemption
    BY DEF IInv, Control, ArgumentsKnown, IdentifiersDiffer
  <2> QED
    BY <1>1, <2>1, <2>2, OthersReserved
<1>5. IdentifiersDiffer'
  BY <1>1 DEF IInv, Control, SameTx, IdentifiersDiffer
<1> QED
  BY <1>2, <1>3, <1>4, <1>5 DEF IInv, Control
LEMMA CommitDeliverInv ==
  ASSUME IInv, NEW t \in Tx, CommitDeliver(t)
  PROVE  IInv'
<1> DEFINE d == tx[t].redemption
<1>1. /\ pc[t] = "deliver" /\ EndTransaction(t)
      /\ redemption' = [redemption EXCEPT ![d].status = "DELIVERED"]
      /\ UNCHANGED <<points, ledger, reward, net>>
  BY DEF CommitDeliver
<1>2. /\ d \in Redemptions /\ redemption[d] \in Redemption /\ redemptionLock[d] = t
      /\ redemption[d].status = "PENDING" /\ redemption[d] # NoRedemption
  BY <1>1 DEF IInv, TypeOK, Control, ArgumentsKnown, TransitionReserved
<1> DEFINE new == [redemption[d] EXCEPT !.status = "DELIVERED"]
<1>3. /\ new \in Redemption /\ new.status = "DELIVERED"
      /\ new.user = redemption[d].user /\ new.reward = redemption[d].reward
      /\ new.pointsSpent = redemption[d].pointsSpent
  BY <1>2 DEF Redemption, Statuses
<1>4. new # NoRedemption
  BY <1>3, NullAssumption
<1>5. redemption' = [redemption EXCEPT ![d] = new]
  BY <1>1
<1> HIDE DEF new
<1>6. /\ redemption' \in [Redemptions -> Redemption \union {NoRedemption}]
      /\ redemption'[d] = new
      /\ \A e \in Redemptions \ {d} : redemption'[e] = redemption[e]
  BY <1>2, <1>3, <1>5 DEF IInv, TypeOK
<1>7. RewardsExist' /\ RedemptionsSettled'
  BY <1>1, <1>2, <1>3, <1>4, <1>6 DEF IInv, TypeOK, Control, RewardsExist, RedemptionsSettled
<1>8. NeverNegative' /\ BalanceIsLedger'
  BY <1>1 DEF IInv, NeverNegative, BalanceIsLedger
<1> QED
  BY <1>1, <1>2, <1>4, <1>6, <1>7, <1>8, EndInv DEF IInv, TypeOK

LEMMA CommitCancelInv ==
  ASSUME IInv, NEW t \in Tx, CommitCancel(t)
  PROVE  IInv'
<1> DEFINE d == tx[t].redemption
           u == tx[t].user
           r == tx[t].reward
           spent == redemption[d].pointsSpent
<1>1. /\ pc[t] = "cancel" /\ EndTransaction(t) /\ redemption[d].status = "PENDING"
      /\ redemption' = [redemption EXCEPT ![d].status = "CANCELLED"]
      /\ points' = [points EXCEPT ![u] = @ + spent]
      /\ ledger' = [ledger EXCEPT ![u] = @ + spent]
      /\ net' = [net EXCEPT ![d] = @ + spent]
      /\ reward' = [reward EXCEPT ![r].stock = @ + 1]
  BY DEF CommitCancel, Pending, PostEvent, Refund
<1>2. /\ d \in Redemptions /\ redemption[d] \in Redemption /\ redemptionLock[d] = t
      /\ redemption[d].status = "PENDING" /\ redemption[d] # NoRedemption
      /\ u = redemption[d].user /\ r = redemption[d].reward
      /\ userLock[u] = t /\ rewardLock[r] = t
  BY <1>1 DEF IInv, TypeOK, Control, ArgumentsKnown, TransitionReserved
<1>3. u \in Users /\ r \in Rewards /\ spent \in Nat
  BY <1>2, PricesAssumption DEF Redemption
<1>4. reward[r] # NoReward /\ reward[r] \in Row
  BY <1>2, <1>3 DEF IInv, TypeOK, Control, RewardsExist
<1> DEFINE new == [redemption[d] EXCEPT !.status = "CANCELLED"]
           row == [reward[r] EXCEPT !.stock = @ + 1]
<1>5. /\ new \in Redemption /\ new.status = "CANCELLED"
      /\ new.user = redemption[d].user /\ new.reward = redemption[d].reward
  BY <1>2 DEF Redemption, Statuses
<1>6. row \in Row /\ row.stock = reward[r].stock + 1
  BY <1>4 DEF Row
<1>7. new # NoRedemption /\ row # NoReward
  BY <1>5, <1>6, NullAssumption
<1>8. redemption' = [redemption EXCEPT ![d] = new] /\ reward' = [reward EXCEPT ![r] = row]
  BY <1>1
<1> HIDE DEF new, row
<1>9. /\ redemption' \in [Redemptions -> Redemption \union {NoRedemption}]
      /\ redemption'[d] = new
      /\ \A e \in Redemptions \ {d} : redemption'[e] = redemption[e]
  BY <1>2, <1>5, <1>8 DEF IInv, TypeOK
<1>10. /\ reward' \in [Rewards -> Row \union {NoReward}]
       /\ reward'[r] = row
       /\ \A q \in Rewards \ {r} : reward'[q] = reward[q]
  BY <1>3, <1>6, <1>8 DEF IInv, TypeOK
<1>11. /\ points' \in [Users -> Int] /\ ledger' \in [Users -> Int]
       /\ points'[u] = points[u] + spent /\ ledger'[u] = ledger[u] + spent
       /\ \A v \in Users \ {u} : points'[v] = points[v] /\ ledger'[v] = ledger[v]
  BY <1>1, <1>3 DEF IInv, TypeOK
<1>12. /\ net' \in [Redemptions -> Int]
       /\ net'[d] = net[d] + spent
       /\ \A e \in Redemptions \ {d} : net'[e] = net[e]
  BY <1>1, <1>2, <1>3 DEF IInv, TypeOK
<1>13. RewardsExist'
  BY <1>2, <1>4, <1>5, <1>7, <1>9, <1>10 DEF IInv, TypeOK, Control, RewardsExist, Redemption
<1>14. NeverNegative'
  <2>1. \A v \in Users : points'[v] >= 0
    BY <1>3, <1>11 DEF IInv, TypeOK, NeverNegative
  <2>2. \A q \in Rewards : reward'[q] # NoReward => reward'[q].stock >= 0
    BY <1>3, <1>4, <1>6, <1>10 DEF IInv, NeverNegative, Row
  <2> QED BY <2>1, <2>2 DEF NeverNegative
<1>15. RedemptionsSettled'
  <2>1. net[d] = -spent
    BY <1>2 DEF IInv, RedemptionsSettled
  <2> QED BY <1>2, <1>3, <1>5, <1>9, <1>12, <2>1 DEF IInv, RedemptionsSettled
<1>16. BalanceIsLedger'
  BY <1>11 DEF IInv, BalanceIsLedger
<1> QED
  BY <1>1, <1>2, <1>7, <1>9, <1>10, <1>11, <1>12, <1>13, <1>14, <1>15, <1>16, EndInv

LEMMA CommitRedeemInv ==
  ASSUME IInv, NEW t \in Tx, CommitRedeem(t)
  PROVE  IInv'
<1> DEFINE d == tx[t].redemption
           u == tx[t].user
           r == tx[t].reward
           price == tx[t].price
           new == NewRedemption(t)
           row == OneTaken(reward[r])
<1>1. /\ pc[t] = "create" /\ EndTransaction(t)
      /\ redemption' = [redemption EXCEPT ![d] = new]
      /\ points' = [points EXCEPT ![u] = tx[t].balance]
      /\ ledger' = [ledger EXCEPT ![u] = @ + (-price)]
      /\ net' = [net EXCEPT ![d] = @ + (-price)]
      /\ reward' = [reward EXCEPT ![r] = tx[t].shelf]
  BY DEF CommitRedeem, PostEvent
<1>2. /\ d \in Redemptions /\ redemption[d] = NoRedemption
      /\ u \in Users /\ r \in Rewards /\ price \in Prices /\ price \in Nat
      /\ reward[r] # NoReward /\ reward[r] \in Row
  BY <1>1, PricesAssumption DEF IInv, TypeOK, Control, ArgumentsKnown
<1>3. /\ userLock[u] = t /\ price <= points[u] /\ tx[t].balance = points[u] - price
      /\ rewardLock[r] = t /\ reward[r].stock > 0 /\ tx[t].shelf = row
  BY <1>1 DEF IInv, Control, PurchaseReserved
<1>4. /\ new \in Redemption /\ new.status = "PENDING" /\ new.reward = r
      /\ new.pointsSpent = price
  BY <1>2 DEF NewRedemption, Redemption, Statuses
<1>5. row \in Row /\ row.stock = reward[r].stock - 1
  BY <1>2 DEF Row, OneTaken
<1>6. new # NoRedemption /\ row # NoReward
  BY <1>4, <1>5, NullAssumption
<1> HIDE DEF new, row
<1>7. /\ redemption' \in [Redemptions -> Redemption \union {NoRedemption}]
      /\ redemption'[d] = new
      /\ \A e \in Redemptions \ {d} : redemption'[e] = redemption[e]
  BY <1>1, <1>2, <1>4 DEF IInv, TypeOK
<1>8. /\ reward' \in [Rewards -> Row \union {NoReward}]
      /\ reward'[r] = row
      /\ \A q \in Rewards \ {r} : reward'[q] = reward[q]
  BY <1>1, <1>2, <1>3, <1>5 DEF IInv, TypeOK
<1>9. /\ points' \in [Users -> Int] /\ ledger' \in [Users -> Int]
      /\ points'[u] = points[u] - price /\ ledger'[u] = ledger[u] - price
      /\ \A v \in Users \ {u} : points'[v] = points[v] /\ ledger'[v] = ledger[v]
  BY <1>1, <1>2, <1>3 DEF IInv, TypeOK
<1>10. /\ net' \in [Redemptions -> Int]
       /\ net'[d] = net[d] - price
       /\ \A e \in Redemptions \ {d} : net'[e] = net[e]
  BY <1>1, <1>2 DEF IInv, TypeOK
<1>11. RewardsExist'
  BY <1>2, <1>4, <1>6, <1>7, <1>8 DEF IInv, TypeOK, Control, RewardsExist, Redemption
<1>12. NeverNegative'
  <2>1. \A v \in Users : points'[v] >= 0
    BY <1>2, <1>3, <1>9 DEF IInv, TypeOK, NeverNegative
  <2>2. \A q \in Rewards : reward'[q] # NoReward => reward'[q].stock >= 0
    BY <1>2, <1>3, <1>5, <1>8 DEF IInv, NeverNegative, Row
  <2> QED BY <2>1, <2>2 DEF NeverNegative
<1>13. RedemptionsSettled'
  <2>1. net[d] = 0
    BY <1>2 DEF IInv, RedemptionsSettled
  <2> QED BY <1>2, <1>4, <1>6, <1>7, <1>10, <2>1 DEF IInv, RedemptionsSettled
<1>14. BalanceIsLedger'
  BY <1>9 DEF IInv, BalanceIsLedger
<1> QED
  BY <1>1, <1>2, <1>3, <1>6, <1>7, <1>8, <1>9, <1>10, <1>11, <1>12, <1>13, <1>14, EndInv
\* A step outside the transactions of Shop that writes one unlocked reward.
LEMMA CatalogueInv ==
  ASSUME IInv, NEW r \in Rewards,
         NEW row \in Row, row.stock >= 0,
         rewardLock[r] = None,
         reward' = [reward EXCEPT ![r] = row],
         UNCHANGED <<points, ledger, redemption, net, locks, pc, tx>>
  PROVE  IInv'
<1>1. row # NoReward
  BY NullAssumption
<1>2. /\ reward' \in [Rewards -> Row \union {NoReward}]
      /\ reward'[r] = row
      /\ \A q \in Rewards \ {r} : reward'[q] = reward[q]
  BY DEF IInv, TypeOK
<1>3. TypeOK'
  BY <1>2 DEF IInv, TypeOK, locks
<1>4. ASSUME NEW s \in Tx
      PROVE  (ArgumentsKnown(s) /\ PurchaseReserved(s) /\ TransitionReserved(s))'
  <2>1. SameTx(s)
    BY DEF SameTx, locks
  <2>2. pc[s] \in Redeeming => redemption'[tx[s].redemption] = NoRedemption
    BY DEF IInv, Control, ArgumentsKnown
  <2> QED
    BY <1>1, <1>2, <2>1, <2>2, OthersReserved, NoneAssumption
<1>5. IdentifiersDiffer'
  BY DEF IInv, Control, IdentifiersDiffer
<1>6. RewardsExist'
  BY <1>1, <1>2 DEF IInv, TypeOK, Control, RewardsExist, Redemption
<1>7. NeverNegative'
  BY <1>2 DEF IInv, NeverNegative
<1>8. RedemptionsSettled' /\ BalanceIsLedger'
  BY DEF IInv, RedemptionsSettled, BalanceIsLedger
<1> QED
  BY <1>3, <1>4, <1>5, <1>6, <1>7, <1>8 DEF IInv, Control

LEMMA CreateRewardInv ==
  ASSUME IInv, NEW r \in Rewards, CreateReward(r)
  PROVE  IInv'
<1>1. PICK row \in [costInPoints : Prices, stock : Stocks, isActive : BOOLEAN] :
        reward' = [reward EXCEPT ![r] = row]
  BY DEF CreateReward
<1>2. row \in Row /\ row.stock >= 0 /\ row # NoReward
  <2>1. row.costInPoints \in Prices /\ row.stock \in Stocks /\ row.isActive \in BOOLEAN
    OBVIOUS
  <2>2. row.stock \in Nat
    BY <2>1, StocksAssumption
  <2>3. row = [costInPoints |-> row.costInPoints, stock |-> row.stock, isActive |-> row.isActive]
    OBVIOUS
  <2>4. row \in Row
    BY <2>1, <2>2, <2>3 DEF Row
  <2> QED BY <2>2, <2>4, NullAssumption
<1>3. /\ reward' \in [Rewards -> Row \union {NoReward}]
      /\ reward'[r] = row
      /\ \A q \in Rewards \ {r} : reward'[q] = reward[q]
  BY <1>1, <1>2 DEF IInv, TypeOK
<1>4. reward[r] = NoReward /\ UNCHANGED <<points, ledger, redemption, net, locks, pc, tx>>
  BY DEF CreateReward
<1>5. TypeOK'
  BY <1>3, <1>4 DEF IInv, TypeOK, locks
<1>6. ASSUME NEW s \in Tx
      PROVE  (ArgumentsKnown(s) /\ PurchaseReserved(s) /\ TransitionReserved(s))'
  <2>1. ArgumentsKnown(s)'
    BY <1>2, <1>3, <1>4 DEF IInv, Control, ArgumentsKnown
  <2>2. PurchaseReserved(s)'
    BY <1>3, <1>4 DEF IInv, Control, locks, ArgumentsKnown, PurchaseReserved
  <2>3. TransitionReserved(s)'
    BY <1>4 DEF IInv, Control, locks, TransitionReserved
  <2> QED BY <2>1, <2>2, <2>3
<1>7. IdentifiersDiffer'
  BY <1>4 DEF IInv, Control, IdentifiersDiffer
<1>8. RewardsExist'
  BY <1>2, <1>3, <1>4 DEF IInv, TypeOK, Control, RewardsExist, Redemption
<1>9. NeverNegative'
  BY <1>2, <1>3, <1>4 DEF IInv, NeverNegative
<1>10. RedemptionsSettled' /\ BalanceIsLedger'
  BY <1>4 DEF IInv, RedemptionsSettled, BalanceIsLedger
<1> QED
  BY <1>5, <1>6, <1>7, <1>8, <1>9, <1>10 DEF IInv, Control

LEMMA UpdateRewardInv ==
  ASSUME IInv, NEW r \in Rewards, UpdateReward(r)
  PROVE  IInv'
<1>1. PICK price \in Prices, stock \in Stocks \union {reward[r].stock}, active \in BOOLEAN :
        reward' = [reward EXCEPT ![r] =
           [costInPoints |-> price, stock |-> stock, isActive |-> active]]
  BY DEF UpdateReward
<1>2. reward[r] \in Row /\ reward[r].stock >= 0
  BY DEF UpdateReward, IInv, TypeOK, NeverNegative
<1>3. stock \in Int /\ stock >= 0
  BY <1>2, StocksAssumption DEF Row
<1> DEFINE row == [costInPoints |-> price, stock |-> stock, isActive |-> active]
<1>4. row \in Row /\ row.stock >= 0
  BY <1>3 DEF Row
<1>5. reward' = [reward EXCEPT ![r] = row]
  BY <1>1
<1> HIDE DEF row
<1> QED
  BY <1>4, <1>5, CatalogueInv DEF UpdateReward

LEMMA EarnPointsInv ==
  ASSUME IInv, NEW u \in Users, NEW n \in Gains, EarnPoints(u, n)
  PROVE  IInv'
<1>1. n \in Nat
  BY GainsAssumption
<1>2. /\ points' \in [Users -> Int] /\ ledger' \in [Users -> Int]
      /\ points'[u] = points[u] + n /\ ledger'[u] = ledger[u] + n
      /\ \A v \in Users \ {u} : points'[v] = points[v] /\ ledger'[v] = ledger[v]
  BY <1>1 DEF EarnPoints, IInv, TypeOK
<1>3. userLock[u] = None /\ UNCHANGED <<reward, redemption, net, locks, pc, tx>>
  BY DEF EarnPoints
<1>4. TypeOK'
  BY <1>2, <1>3 DEF IInv, TypeOK, locks
<1>5. ASSUME NEW s \in Tx
      PROVE  (ArgumentsKnown(s) /\ PurchaseReserved(s) /\ TransitionReserved(s))'
  <2>1. SameTx(s)
    BY <1>3 DEF SameTx, locks
  <2>2. pc[s] \in Redeeming => redemption'[tx[s].redemption] = NoRedemption
    BY <1>3 DEF IInv, Control, ArgumentsKnown
  <2> QED
    BY <1>2, <1>3, <2>1, <2>2, OthersReserved, NoneAssumption
<1>6. IdentifiersDiffer' /\ RewardsExist'
  BY <1>3 DEF IInv, Control, IdentifiersDiffer, RewardsExist
<1>7. NeverNegative'
  BY <1>1, <1>2, <1>3 DEF IInv, TypeOK, NeverNegative
<1>8. RedemptionsSettled' /\ BalanceIsLedger'
  BY <1>2, <1>3 DEF IInv, RedemptionsSettled, BalanceIsLedger
<1> QED
  BY <1>4, <1>5, <1>6, <1>7, <1>8 DEF IInv, Control

-----------------------------------------------------------------------------
(* The invariant, and what follows from it.                                 *)

LEMMA InitInv == Init => IInv
<1> SUFFICES ASSUME Init PROVE IInv
  OBVIOUS
<1>1. NoLocals \in Locals
  BY DEF NoLocals, Locals
<1>2. TypeOK
  BY <1>1 DEF Init, TypeOK
<1>3. Control
  BY DEF Init, Control, ArgumentsKnown, PurchaseReserved, TransitionReserved,
         IdentifiersDiffer, RewardsExist
<1>4. NeverNegative /\ RedemptionsSettled /\ BalanceIsLedger
  BY DEF Init, NeverNegative, RedemptionsSettled, BalanceIsLedger
<1> QED
  BY <1>2, <1>3, <1>4 DEF IInv

LEMMA NextInv == IInv /\ [Next]_vars => IInv'
<1> SUFFICES ASSUME IInv, [Next]_vars PROVE IInv'
  OBVIOUS
<1>1. ASSUME NEW t \in Tx, NEW u \in Users, NEW r \in Rewards, NEW d \in Redemptions,
             BeginRedeem(t, u, r, d)
      PROVE  IInv'
  BY <1>1, BeginRedeemInv
<1>2. ASSUME NEW t \in Tx, NEW d \in Redemptions, BeginCancel(t, d) \/ BeginDeliver(t, d)
      PROVE  IInv'
  BY <1>2, BeginInv DEF BeginCancel, BeginDeliver
<1>3. ASSUME NEW t \in Tx, Statement(t)
      PROVE  IInv'
  BY <1>3, FindRewardInv, DebitUserPointsInv, DecrementRewardStockInv, CommitRedeemInv,
     LockRedemptionStateInv, LockUserInv, LockRewardInv, CommitCancelInv, CommitDeliverInv,
     RollbackInv
  DEF Statement, RefuseCancel
<1>4. ASSUME NEW t \in Tx, Abort(t)
      PROVE  IInv'
  BY <1>4, RollbackInv DEF Abort
<1>5. ASSUME NEW r \in Rewards, CreateReward(r) \/ UpdateReward(r)
      PROVE  IInv'
  BY <1>5, CreateRewardInv, UpdateRewardInv
<1>6. ASSUME NEW u \in Users, NEW n \in Gains, EarnPoints(u, n)
      PROVE  IInv'
  BY <1>6, EarnPointsInv
<1>7. CASE UNCHANGED vars
  <2>1. UNCHANGED tables /\ \A s \in Tx : SameTx(s)
    BY <1>7 DEF vars, locks, SameTx
  <2>2. TypeOK' /\ IdentifiersDiffer'
    BY <1>7 DEF vars, tables, locks, IInv, TypeOK, Control, IdentifiersDiffer
  <2> QED
    BY <2>1, <2>2, TablesKept, OthersKept DEF IInv, Control
<1> QED
  BY <1>1, <1>2, <1>3, <1>4, <1>5, <1>6, <1>7 DEF Next

\* The inductive invariant holds in every reachable state.
THEOREM Invariance == Spec => []IInv
  BY InitInv, NextInv, PTL DEF Spec

\* Every variable keeps its type.
THEOREM TypeCorrect == Spec => []TypeOK
<1>1. IInv => TypeOK
  BY DEF IInv
<1> QED
  BY <1>1, Invariance, PTL

\* No interleaving of purchases, cancellations, deliveries, edits and credits
\* overdraws a balance or sells a unit that is not there (the guards of the two
\* conditional UPDATEs in rewards.repository.ts).
THEOREM NothingOverdrawn == Spec => []NeverNegative
<1>1. IInv => NeverNegative
  BY DEF IInv
<1> QED
  BY <1>1, Invariance, PTL

\* A redemption has cost what it records, and nothing once cancelled.
THEOREM RefundsExact == Spec => []RedemptionsSettled
<1>1. IInv => RedemptionsSettled
  BY DEF IInv
<1> QED
  BY <1>1, Invariance, PTL

\* The shop never makes a balance diverge from the ledger of events.
THEOREM LedgerExact == Spec => []BalanceIsLedger
<1>1. IInv => BalanceIsLedger
  BY DEF IInv
<1> QED
  BY <1>1, Invariance, PTL
-----------------------------------------------------------------------------
(* Properties of steps.                                                     *)

\* A redemption only ever leaves PENDING, and keeps the rest of its row.
THEOREM FinalRedemptions == Spec => RedemptionsAreFinal
<1>1. ASSUME IInv, Next, NEW d \in Redemptions,
             redemption[d] # NoRedemption, redemption'[d] # redemption[d]
      PROVE  /\ redemption[d].status = "PENDING"
             /\ \E status \in {"DELIVERED", "CANCELLED"} :
                  redemption'[d] = [redemption[d] EXCEPT !.status = status]
  <2>1. PICK t \in Tx : CommitRedeem(t) \/ CommitCancel(t) \/ CommitDeliver(t)
    BY <1>1
    DEF Next, Statement, BeginRedeem, BeginCancel, BeginDeliver, Begin, FindReward,
        DebitUserPoints, DecrementRewardStock, LockRedemptionState, LockUser, LockReward,
        RefuseCancel, Abort, Rollback, CreateReward, UpdateReward, EarnPoints, tables
  <2>2. CASE CommitRedeem(t)
    BY <1>1, <2>2 DEF CommitRedeem, IInv, TypeOK, Control, ArgumentsKnown
  <2>3. CASE CommitCancel(t)
    <3>1. tx[t].redemption = d
      BY <1>1, <2>3 DEF CommitCancel, IInv, TypeOK
    <3> QED BY <1>1, <2>3, <3>1 DEF CommitCancel, Pending
  <2>4. CASE CommitDeliver(t)
    <3>1. tx[t].redemption = d
      BY <1>1, <2>4 DEF CommitDeliver, IInv, TypeOK
    <3> QED BY <1>1, <2>4, <3>1 DEF CommitDeliver, IInv, TypeOK, Control, TransitionReserved
  <2> QED BY <2>1, <2>2, <2>3, <2>4
<1>2. IInv /\ [Next]_vars =>
        [\A d \in Redemptions :
           redemption[d] # NoRedemption /\ redemption'[d] # redemption[d] =>
             /\ redemption[d].status = "PENDING"
             /\ \E status \in {"DELIVERED", "CANCELLED"} :
                  redemption'[d] = [redemption[d] EXCEPT !.status = status]]_vars
  BY <1>1
<1> QED
  BY <1>2, Invariance, PTL DEF Spec, RedemptionsAreFinal

\* A purchase or a cancellation writes back the row it has locked, so it never
\* undoes an administrator's edit of the price or of the status.
THEOREM EditsKept == Spec => EditsAreNotLost
<1> DEFINE Edited(r) == \/ reward'[r].costInPoints # reward[r].costInPoints
                        \/ reward'[r].isActive # reward[r].isActive
<1>1. ASSUME IInv, Next, NEW r \in Rewards, reward[r] # NoReward, Edited(r)
      PROVE  UpdateReward(r)
  <2>1. \/ \E t \in Tx : CommitRedeem(t) \/ CommitCancel(t)
        \/ \E s \in Rewards : CreateReward(s) \/ UpdateReward(s)
    BY <1>1
    DEF Next, Statement, BeginRedeem, BeginCancel, BeginDeliver, Begin, FindReward,
        DebitUserPoints, DecrementRewardStock, LockRedemptionState, LockUser, LockReward,
        RefuseCancel, CommitDeliver, Abort, Rollback, EarnPoints, tables
  <2>2. ASSUME NEW t \in Tx, CommitRedeem(t)
        PROVE  FALSE
    <3>1. /\ reward' = [reward EXCEPT ![tx[t].reward] = tx[t].shelf]
          /\ tx[t].shelf = OneTaken(reward[tx[t].reward])
      BY <1>1, <2>2 DEF CommitRedeem, IInv, Control, PurchaseReserved
    <3> QED BY <1>1, <3>1 DEF OneTaken, IInv, TypeOK, Row
  <2>3. ASSUME NEW t \in Tx, CommitCancel(t)
        PROVE  FALSE
    BY <1>1, <2>3 DEF CommitCancel, IInv, TypeOK, Row
  <2>4. ASSUME NEW s \in Rewards, CreateReward(s) \/ UpdateReward(s)
        PROVE  UpdateReward(r)
    <3>1. s = r
      BY <1>1, <2>4 DEF CreateReward, UpdateReward, IInv, TypeOK
    <3> QED BY <1>1, <2>4, <3>1 DEF CreateReward
  <2> QED BY <2>1, <2>2, <2>3, <2>4
<1>2. IInv /\ [Next]_vars =>
        [\A r \in Rewards :
           /\ reward[r] # NoReward
           /\ \/ reward'[r].costInPoints # reward[r].costInPoints
              \/ reward'[r].isActive # reward[r].isActive
           => UpdateReward(r)]_vars
  BY <1>1
<1> QED
  BY <1>2, Invariance, PTL DEF Spec, EditsAreNotLost

LEMMA CommitRedeemKeepsUnits ==
  ASSUME IInv, NEW t \in Tx, CommitRedeem(t), NEW r \in Rewards, reward[r] # NoReward
  PROVE  Units(r)' = Units(r)
<1> DEFINE d == tx[t].redemption
<1>1. /\ pc[t] = "create"
      /\ redemption' = [redemption EXCEPT ![d] = NewRedemption(t)]
      /\ reward' = [reward EXCEPT ![tx[t].reward] = tx[t].shelf]
  BY DEF CommitRedeem
<1>2. /\ d \in Redemptions /\ redemption[d] = NoRedemption
      /\ tx[t].reward \in Rewards /\ reward[tx[t].reward] # NoReward
      /\ tx[t].shelf = OneTaken(reward[tx[t].reward])
  BY <1>1 DEF IInv, Control, ArgumentsKnown, PurchaseReserved
<1>3. /\ d \notin Kept(r)
      /\ Kept(r)' = IF tx[t].reward = r THEN Kept(r) \union {d} ELSE Kept(r)
  <2>1. /\ redemption'[d] = NewRedemption(t)
        /\ \A c \in Redemptions \ {d} : redemption'[c] = redemption[c]
    BY <1>1, <1>2 DEF IInv, TypeOK
  <2>2. /\ NewRedemption(t) # NoRedemption
        /\ NewRedemption(t).reward = tx[t].reward
        /\ NewRedemption(t).status = "PENDING"
    <3>1. NewRedemption(t) \in Redemption
      BY <1>1 DEF NewRedemption, Redemption, Statuses, IInv, Control, ArgumentsKnown
    <3> QED BY <3>1, NullAssumption DEF NewRedemption
  <2> QED BY <1>2, <2>1, <2>2 DEF Kept
<1>4. IsFiniteSet(Kept(r)) /\ Cardinality(Kept(r)) \in Nat
  BY RedemptionsAssumption, FS_Subset, FS_CardinalityType DEF Kept
<1>5. CASE tx[t].reward = r
  <2>1. reward'[r].stock = reward[r].stock - 1 /\ reward[r].stock \in Int
    BY <1>1, <1>2, <1>5 DEF OneTaken, IInv, TypeOK, Row
  <2>2. Cardinality(Kept(r)') = Cardinality(Kept(r)) + 1
    BY <1>3, <1>4, <1>5, FS_AddElement
  <2> QED BY <1>4, <2>1, <2>2 DEF Units
<1>6. CASE tx[t].reward # r
  BY <1>1, <1>3, <1>6 DEF Units, IInv, TypeOK
<1> QED BY <1>5, <1>6

LEMMA CommitCancelKeepsUnits ==
  ASSUME IInv, NEW t \in Tx, CommitCancel(t), NEW r \in Rewards, reward[r] # NoReward
  PROVE  Units(r)' = Units(r)
<1> DEFINE d == tx[t].redemption
<1>1. /\ redemption' = [redemption EXCEPT ![d].status = "CANCELLED"]
      /\ reward' = [reward EXCEPT ![tx[t].reward].stock = @ + 1]
  BY DEF CommitCancel
<1>2. /\ d \in Redemptions /\ redemption[d] \in Redemption
      /\ redemption[d] # NoRedemption /\ redemption[d].status = "PENDING"
      /\ tx[t].reward = redemption[d].reward /\ reward[tx[t].reward] # NoReward
  BY DEF CommitCancel, Pending, IInv, TypeOK, Control, ArgumentsKnown, TransitionReserved,
         RewardsExist
<1>3. Kept(r)' = Kept(r) \ {d} /\ (d \in Kept(r) <=> tx[t].reward = r)
  <2>1. /\ redemption'[d] = [redemption[d] EXCEPT !.status = "CANCELLED"]
        /\ \A c \in Redemptions \ {d} : redemption'[c] = redemption[c]
    BY <1>1, <1>2 DEF IInv, TypeOK
  <2>2. redemption'[d].status = "CANCELLED"
    BY <1>2, <2>1 DEF Redemption
  <2> QED BY <1>2, <2>1, <2>2 DEF Kept
<1>4. IsFiniteSet(Kept(r)) /\ Cardinality(Kept(r)) \in Nat
  BY RedemptionsAssumption, FS_Subset, FS_CardinalityType DEF Kept
<1>5. CASE tx[t].reward = r
  <2>1. reward'[r].stock = reward[r].stock + 1 /\ reward[r].stock \in Int
    BY <1>1, <1>2, <1>5 DEF IInv, TypeOK, Row
  <2>2. Cardinality(Kept(r)') = Cardinality(Kept(r)) - 1
    <3>1. d \in Kept(r) /\ Kept(r)' = Kept(r) \ {d}
      BY <1>3, <1>5
    <3>2. Cardinality(Kept(r) \ {d}) = Cardinality(Kept(r)) - 1
      <4> HIDE DEF d
      <4> QED BY <1>4, <3>1, FS_RemoveElement
    <3> QED BY <3>1, <3>2
  <2> QED BY <1>4, <2>1, <2>2 DEF Units
<1>6. CASE tx[t].reward # r
  <2>1. Kept(r)' = Kept(r)
    BY <1>3, <1>6
  <2> QED BY <1>1, <1>6, <2>1 DEF Units, IInv, TypeOK
<1> QED BY <1>5, <1>6

LEMMA CommitDeliverKeepsUnits ==
  ASSUME IInv, NEW t \in Tx, CommitDeliver(t), NEW r \in Rewards
  PROVE  Units(r)' = Units(r)
<1> DEFINE d == tx[t].redemption
<1>1. redemption' = [redemption EXCEPT ![d].status = "DELIVERED"] /\ reward' = reward
  BY DEF CommitDeliver
<1>2. /\ d \in Redemptions /\ redemption[d] \in Redemption
      /\ redemption[d] # NoRedemption /\ redemption[d].status = "PENDING"
  BY DEF CommitDeliver, IInv, TypeOK, Control, ArgumentsKnown, TransitionReserved
<1>3. /\ redemption'[d] = [redemption[d] EXCEPT !.status = "DELIVERED"]
      /\ \A c \in Redemptions \ {d} : redemption'[c] = redemption[c]
  BY <1>1, <1>2 DEF IInv, TypeOK
<1>4. redemption'[d] # NoRedemption /\ redemption'[d].status = "DELIVERED"
      /\ redemption'[d].reward = redemption[d].reward
  <2>1. redemption'[d] \in Redemption
    BY <1>2, <1>3 DEF Redemption, Statuses
  <2> QED BY <1>2, <1>3, <2>1, NullAssumption DEF Redemption
<1>5. Kept(r)' = Kept(r)
  BY <1>2, <1>3, <1>4 DEF Kept
<1> QED BY <1>1, <1>5 DEF Units

\* Purchases and cancellations move units between the stock and the redemptions:
\* whatever the interleaving, only an edit makes or unmakes one.
THEOREM UnitsKept == Spec => UnitsConserved
<1>1. ASSUME IInv, Next, NEW r \in Rewards, reward[r] # NoReward, ~UpdateReward(r)
      PROVE  Units(r)' = Units(r)
  <2>1. \/ UNCHANGED <<reward, redemption>>
        \/ \E t \in Tx : CommitRedeem(t) \/ CommitCancel(t) \/ CommitDeliver(t)
        \/ \E s \in Rewards : CreateReward(s) \/ UpdateReward(s)
    BY <1>1
    DEF Next, Statement, BeginRedeem, BeginCancel, BeginDeliver, Begin, FindReward,
        DebitUserPoints, DecrementRewardStock, LockRedemptionState, LockUser, LockReward,
        RefuseCancel, Abort, Rollback, EarnPoints, tables
  <2>2. CASE UNCHANGED <<reward, redemption>>
    BY <2>2 DEF Units, Kept
  <2>3. ASSUME NEW s \in Rewards, CreateReward(s) \/ UpdateReward(s)
        PROVE  Units(r)' = Units(r)
    <3>1. reward'[r] = reward[r] /\ redemption' = redemption
      BY <1>1, <2>3 DEF CreateReward, UpdateReward, IInv, TypeOK
    <3> QED BY <3>1 DEF Units, Kept
  <2> QED BY <1>1, <2>1, <2>2, <2>3, CommitRedeemKeepsUnits, CommitCancelKeepsUnits,
             CommitDeliverKeepsUnits
<1>2. IInv /\ [Next]_vars =>
        [\A r \in Rewards :
           reward[r] # NoReward /\ ~UpdateReward(r) => Units(r)' = Units(r)]_vars
  BY <1>1
<1> QED
  BY <1>2, Invariance, PTL DEF Spec, UnitsConserved

-----------------------------------------------------------------------------
(* Rows are locked in one order, so no transactions wait in a circle.       *)

UserHolders == {"decrementRewardStock", "create", "lockReward", "cancel"}
RewardHolders == {"create", "cancel"}
RedemptionHolders == {"lockUser", "lockReward", "cancel", "deliver"}

\* The converse of Control: who holds a row is past the statement that locks it.
HoldersAdvanced ==
  /\ \A u \in Users : userLock[u] # None => pc[userLock[u]] \in UserHolders
  /\ \A r \in Rewards : rewardLock[r] # None => pc[rewardLock[r]] \in RewardHolders
  /\ \A d \in Redemptions :
       redemptionLock[d] # None => pc[redemptionLock[d]] \in RedemptionHolders

USE DEF UserHolders, RewardHolders, RedemptionHolders

LEMMA EndHoldersAdvanced ==
  ASSUME TypeOK, HoldersAdvanced, NEW t \in Tx, EndTransaction(t)
  PROVE  HoldersAdvanced'
<1>1. /\ \A s \in Tx : s # t => pc'[s] = pc[s]
      /\ \A u \in Users : userLock'[u] # None => userLock'[u] = userLock[u] /\ userLock[u] # t
      /\ \A r \in Rewards :
           rewardLock'[r] # None => rewardLock'[r] = rewardLock[r] /\ rewardLock[r] # t
      /\ \A d \in Redemptions :
           redemptionLock'[d] # None =>
             redemptionLock'[d] = redemptionLock[d] /\ redemptionLock[d] # t
  BY DEF EndTransaction, Released, TypeOK
<1>2. /\ \A u \in Users : userLock[u] \in Tx \union {None}
      /\ \A r \in Rewards : rewardLock[r] \in Tx \union {None}
      /\ \A d \in Redemptions : redemptionLock[d] \in Tx \union {None}
  BY DEF TypeOK
<1> QED BY <1>1, <1>2 DEF HoldersAdvanced

LEMMA StatementHoldersAdvanced ==
  ASSUME TypeOK, HoldersAdvanced, NEW t \in Tx, Statement(t)
  PROVE  HoldersAdvanced'
<1>1. CASE EndTransaction(t)
  BY <1>1, EndHoldersAdvanced
<1>2. CASE FindReward(t) /\ ~EndTransaction(t)
  BY <1>2, NoneAssumption DEF FindReward, Rollback, Goto, locks, HoldersAdvanced, TypeOK
<1>3. CASE DebitUserPoints(t) /\ ~EndTransaction(t)
  BY <1>3, NoneAssumption DEF DebitUserPoints, Rollback, Goto, Locked, HoldersAdvanced, TypeOK
<1>4. CASE DecrementRewardStock(t) /\ ~EndTransaction(t)
  BY <1>4, NoneAssumption
  DEF DecrementRewardStock, Rollback, Goto, Locked, HoldersAdvanced, TypeOK
<1>5. CASE LockRedemptionState(t) /\ ~EndTransaction(t)
  BY <1>5, NoneAssumption
  DEF LockRedemptionState, Rollback, Goto, Locked, CancellationOrder, HoldersAdvanced, TypeOK
<1>6. CASE LockUser(t)
  BY <1>6, NoneAssumption
  DEF LockUser, Goto, Locked, CancellationOrder, HoldersAdvanced, TypeOK
<1>7. CASE LockReward(t)
  BY <1>7, NoneAssumption
  DEF LockReward, Goto, Locked, CancellationOrder, HoldersAdvanced, TypeOK
<1> QED
  BY <1>1, <1>2, <1>3, <1>4, <1>5, <1>6, <1>7
  DEF Statement, CommitRedeem, RefuseCancel, Rollback, CommitCancel, CommitDeliver

LEMMA NextHoldersAdvanced == TypeOK /\ HoldersAdvanced /\ [Next]_vars => HoldersAdvanced'
<1> SUFFICES ASSUME TypeOK, HoldersAdvanced, [Next]_vars PROVE HoldersAdvanced'
  OBVIOUS
<1>1. ASSUME NEW t \in Tx, Statement(t)
      PROVE  HoldersAdvanced'
  BY <1>1, StatementHoldersAdvanced
<1>2. ASSUME NEW t \in Tx, Abort(t)
      PROVE  HoldersAdvanced'
  BY <1>2, EndHoldersAdvanced DEF Abort, Rollback
<1>3. ASSUME NEW t \in Tx, pc[t] = "idle", NEW statement, pc' = [pc EXCEPT ![t] = statement],
             UNCHANGED locks
      PROVE  HoldersAdvanced'
  BY <1>3 DEF locks, HoldersAdvanced, TypeOK
<1>4. CASE UNCHANGED <<locks, pc>>
  BY <1>4 DEF locks, HoldersAdvanced
<1> QED
  BY <1>1, <1>2, <1>3, <1>4
  DEF Next, BeginRedeem, BeginCancel, BeginDeliver, Begin, Goto, CreateReward, UpdateReward,
      EarnPoints, vars

\* A statement that waits, waits for a transaction further along: purchases and
\* cancellations lock the participant before the reward, and both after the
\* redemption.
THEOREM DeadlockFree == Spec => []NoDeadlock
<1> DEFINE Last == {"create", "cancel"}
           Third == {"decrementRewardStock", "lockReward"}
           Second == {"debitUserPoints", "lockUser", "deliver"}
           First == {"lockToCancel", "lockToDeliver"}
<1>1. TypeOK /\ HoldersAdvanced /\ Control => NoDeadlock
  <2> SUFFICES ASSUME TypeOK, HoldersAdvanced, Control, NEW S \in SUBSET Tx, S # {},
                      \A t \in S : \E s \in S : WaitsFor(t, s)
               PROVE  FALSE
    BY DEF NoDeadlock
  <2>1. ASSUME NEW t \in S, NEW s \in S, WaitsFor(t, s)
        PROVE  /\ pc[t] \in Third => pc[s] \in Last
               /\ pc[t] \in Second => pc[s] \in Last \union Third
               /\ pc[t] \in First => pc[s] \in Last \union Third \union Second
               /\ pc[t] \in Third \union Second \union First
    <3>1. s # None
      BY NoneAssumption
    <3>2. pc[t] = "deliver" =>
            tx[t].user \in Users
      BY DEF TypeOK, Control, ArgumentsKnown, TransitionReserved, Redemption
    <3> QED
      BY <2>1, <3>1, <3>2
      DEF WaitsFor, HoldersAdvanced, LockedForUpdate, TypeOK, Control, ArgumentsKnown,
          TransitionReserved, Redemption
  <2> HIDE DEF Last, Third, Second, First
  <2>2. \A t \in S : pc[t] \notin Last
    BY <2>1 DEF Last, Third, Second, First
  <2>3. \A t \in S : pc[t] \notin Third
    BY <2>1, <2>2
  <2>4. \A t \in S : pc[t] \notin Second
    BY <2>1, <2>2, <2>3
  <2>5. \A t \in S : pc[t] \notin First
    BY <2>1, <2>2, <2>3, <2>4
  <2> QED BY <2>1, <2>3, <2>4, <2>5
<1>2. Init => HoldersAdvanced
  BY DEF Init, HoldersAdvanced
<1>3. IInv => TypeOK /\ Control
  BY DEF IInv
<1>4. Spec => []HoldersAdvanced
  BY <1>2, <1>3, NextHoldersAdvanced, Invariance, PTL DEF Spec
<1> QED
  BY <1>1, <1>3, <1>4, Invariance, PTL

-----------------------------------------------------------------------------
(* Shop implements AtomicShop: every step is a step of it, or changes none  *)
(* of its variables.                                                        *)

LEMMA CommitRedeemImplements ==
  ASSUME IInv, NEW t \in Tx, CommitRedeem(t)
  PROVE  Atomic!Purchase(tx[t].user, tx[t].reward, tx[t].redemption, tx[t].price)
<1> DEFINE u == tx[t].user
           r == tx[t].reward
           d == tx[t].redemption
           price == tx[t].price
<1>1. /\ pc[t] = "create"
      /\ redemption' = [redemption EXCEPT ![d] = NewRedemption(t)]
      /\ points' = [points EXCEPT ![u] = tx[t].balance]
      /\ ledger' = [ledger EXCEPT ![u] = @ + (-price)]
      /\ net' = [net EXCEPT ![d] = @ + (-price)]
      /\ reward' = [reward EXCEPT ![r] = tx[t].shelf]
  BY DEF CommitRedeem, PostEvent
<1>2. /\ redemption[d] = NoRedemption /\ reward[r] # NoReward
      /\ u \in Users /\ price \in Prices /\ price \in Nat
  BY <1>1, PricesAssumption DEF IInv, TypeOK, Control, ArgumentsKnown
<1>3. /\ price <= points[u] /\ tx[t].balance = points[u] - price
      /\ reward[r].stock > 0 /\ reward[r].isActive
      /\ tx[t].shelf = [reward[r] EXCEPT !.stock = @ - 1]
  BY <1>1 DEF IInv, Control, PurchaseReserved, OneTaken
<1>4. points' = [points EXCEPT ![u] = @ + (-price)]
  BY <1>1, <1>2, <1>3 DEF IInv, TypeOK
<1>5. points[u] >= price
  BY <1>2, <1>3 DEF IInv, TypeOK
<1>6. reward' = [reward EXCEPT ![r].stock = @ - 1]
  BY <1>1, <1>3
<1> QED
  BY <1>1, <1>2, <1>3, <1>4, <1>5, <1>6 DEF Atomic!Purchase, Atomic!Post, NewRedemption

LEMMA CommitCancelImplements ==
  ASSUME IInv, NEW t \in Tx, CommitCancel(t)
  PROVE  Atomic!Cancel(tx[t].redemption)
<1> DEFINE d == tx[t].redemption
<1>1. /\ redemption[d] # NoRedemption /\ redemption[d].status = "PENDING"
      /\ tx[t].user = redemption[d].user /\ tx[t].reward = redemption[d].reward
  BY DEF CommitCancel, Pending, IInv, Control, ArgumentsKnown, TransitionReserved
<1>2. /\ redemption' = [redemption EXCEPT ![d].status = "CANCELLED"]
      /\ points' = [points EXCEPT ![redemption[d].user] = @ + redemption[d].pointsSpent]
      /\ ledger' = [ledger EXCEPT ![redemption[d].user] = @ + redemption[d].pointsSpent]
      /\ net' = [net EXCEPT ![d] = @ + redemption[d].pointsSpent]
      /\ reward' = [reward EXCEPT ![redemption[d].reward].stock = @ + 1]
  BY <1>1 DEF CommitCancel, PostEvent, Refund
<1> QED
  BY <1>1, <1>2 DEF Atomic!Cancel, Atomic!Post

LEMMA CommitDeliverImplements ==
  ASSUME IInv, NEW t \in Tx, CommitDeliver(t)
  PROVE  Atomic!Deliver(tx[t].redemption)
BY DEF IInv, Control, ArgumentsKnown, TransitionReserved, CommitDeliver, Atomic!Deliver

LEMMA CatalogueImplements ==
  ASSUME IInv, NEW r \in Rewards, CreateReward(r) \/ UpdateReward(r)
  PROVE  Atomic!Catalogue(r)
<1>1. CASE CreateReward(r)
  <2>1. PICK row \in [costInPoints : Prices, stock : Stocks, isActive : BOOLEAN] :
          reward' = [reward EXCEPT ![r] = row]
    BY <1>1 DEF CreateReward
  <2>2. /\ row.costInPoints \in Prices /\ row.stock \in Stocks /\ row.isActive \in BOOLEAN
        /\ row = [costInPoints |-> row.costInPoints, stock |-> row.stock,
                  isActive |-> row.isActive]
    OBVIOUS
  <2> QED BY <1>1, <2>1, <2>2 DEF CreateReward, Atomic!Catalogue
<1>2. CASE UpdateReward(r)
  <2>1. r \in {r} \cap Atomic!Created
    BY <1>2 DEF UpdateReward, Atomic!Created
  <2>2. reward[r].stock \in {reward[r].stock : s \in {r} \cap Atomic!Created}
    BY <2>1
  <2> QED BY <1>2, <2>2 DEF UpdateReward, Atomic!Catalogue
<1> QED BY <1>1, <1>2

LEMMA StepImplements == IInv /\ [Next]_vars => [Atomic!Next]_(Atomic!vars)
<1> SUFFICES ASSUME IInv, [Next]_vars PROVE [Atomic!Next]_(Atomic!vars)
  OBVIOUS
<1>1. ASSUME NEW t \in Tx, CommitRedeem(t)
      PROVE  Atomic!Next
  <2>1. /\ tx[t].user \in Users /\ tx[t].reward \in Rewards
        /\ tx[t].redemption \in Redemptions /\ tx[t].price \in Prices
    BY <1>1 DEF CommitRedeem, IInv, Control, ArgumentsKnown
  <2> QED BY <1>1, <2>1, CommitRedeemImplements DEF Atomic!Next
<1>2. ASSUME NEW t \in Tx, CommitCancel(t) \/ CommitDeliver(t)
      PROVE  Atomic!Next
  <2>1. tx[t].redemption \in Redemptions
    BY <1>2 DEF CommitCancel, CommitDeliver, IInv, Control, ArgumentsKnown
  <2> QED BY <1>2, <2>1, CommitCancelImplements, CommitDeliverImplements DEF Atomic!Next
<1>3. ASSUME NEW r \in Rewards, CreateReward(r) \/ UpdateReward(r)
      PROVE  Atomic!Next
  BY <1>3, CatalogueImplements DEF Atomic!Next
<1>4. ASSUME NEW u \in Users, NEW n \in Gains, EarnPoints(u, n)
      PROVE  Atomic!Next
  BY <1>4 DEF EarnPoints, Atomic!Earn, Atomic!Next
<1>5. CASE UNCHANGED tables
  BY <1>5 DEF tables, Atomic!vars
<1>6. \/ UNCHANGED tables
      \/ \E t \in Tx : CommitRedeem(t) \/ CommitCancel(t) \/ CommitDeliver(t)
      \/ \E r \in Rewards : CreateReward(r) \/ UpdateReward(r)
      \/ \E u \in Users, n \in Gains : EarnPoints(u, n)
  BY DEF Next, Statement, BeginRedeem, BeginCancel, BeginDeliver, Begin, FindReward,
         DebitUserPoints, DecrementRewardStock, LockRedemptionState, LockUser, LockReward,
         RefuseCancel, Abort, Rollback, vars
<1> QED
  BY <1>1, <1>2, <1>3, <1>4, <1>5, <1>6

\* Every purchase, cancellation and delivery takes effect in one step on the
\* committed rows: the statement-level shop implements the one-step shop.
THEOREM Implementation == Spec => ImplementsAtomicShop
<1>1. Init => Atomic!Init
  BY DEF Init, Atomic!Init
<1> QED
  BY <1>1, StepImplements, Invariance, PTL DEF Spec, Atomic!Spec, ImplementsAtomicShop
=============================================================================
