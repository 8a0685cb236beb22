------------------------- MODULE ActionRedemptionProofs -------------------------
(***************************************************************************)
(* Theorems of ActionRedemption.tla, for any participants, activities,     *)
(* single-use codes and concurrent transactions.                           *)
(*                                                                         *)
(* PaidOnce is not inductive: between two statements a redemption counts   *)
(* on its entry in the unique index, on the code it has locked, and on     *)
(* nobody else having entered the same participant and activity.           *)
(***************************************************************************)
EXTENDS ActionRedemption, TLAPS

Entered(t) == pc[t] \in {"createPointEvent", "incrementUserProgress"}
ByCode(t) == tx[t].method = "CLAIM_CODE"
Bulk(t) == pc[t] \in {"lockClaimCodes", "updateClaimCodeStatuses"}
Granted(t) == pc[t] \in {"lockParticipant", "createGrant"}

\* The arguments of a transaction are rows that exist.
ArgumentsKnown(t) ==
  /\ pc[t] = "idle" => tx[t] = NoLocals
  /\ pc[t] \in Redeeming \union Granting => tx[t].user \in Users
  /\ pc[t] \in {"findAction", "consumeClaimCode"} \union Granting \/ Entered(t) =>
       tx[t].action \in Actions /\ action[tx[t].action] # NoAction
  /\ pc[t] = "findAction" => ~ByCode(t) /\ tx[t].code = None
  /\ pc[t] \in {"findClaimCode", "consumeClaimCode"} \/ (Entered(t) /\ ByCode(t)) =>
       ByCode(t) /\ tx[t].code \in Codes /\ claim[tx[t].code] # NoCode
  /\ pc[t] = "consumeClaimCode" \/ (Entered(t) /\ ByCode(t)) =>
       tx[t].action = claim[tx[t].code].action
  /\ Entered(t) /\ ~ByCode(t) => tx[t].code = None
  /\ pc[t] = "incrementUserProgress" => tx[t].points >= 0
  /\ pc[t] \in {"findCodeById", "updateClaimCodeStatus"} =>
       \A c \in tx[t].codes : claim[c] # NoCode
  /\ \A c \in tx[t].waiting : claim[c] # NoCode

\* A redemption that consumed a code holds it, and it is still to be used.
CodeHeld(t) ==
  Entered(t) /\ ByCode(t) =>
    claimLock[tx[t].code] = t /\ Consumable(claim[tx[t].code])

\* A grant holds the activity, and then the participant, as it has read them.
GrantHeld(t) ==
  /\ Granted(t) =>
       /\ actionLock[tx[t].action] = t
       /\ Grantable(action[tx[t].action])
       /\ tx[t].points = action[tx[t].action].points
  /\ pc[t] = "createGrant" => userLock[tx[t].user] = t /\ enrolled[tx[t].user]

\* A bulk operation holds the codes it has found, which precede those to come.
BulkHeld(t) ==
  \A c \in Codes :
    tx[t].found[c] # NoCode =>
      /\ Bulk(t)
      /\ claimLock[c] = t
      /\ tx[t].found[c] = claim[c]
      /\ \A d \in tx[t].waiting : <<c, d>> \in Precedes

\* It has the locks that it needs, and no other.
LocksOwned(t) ==
  /\ \A a \in Actions : actionLock[a] = t => Granted(t) /\ tx[t].action = a
  /\ \A u \in Users : userLock[u] = t => pc[t] = "createGrant" /\ tx[t].user = u
  /\ \A c \in Codes : claimLock[c] = t =>
       \/ Entered(t) /\ ByCode(t) /\ tx[t].code = c
       \/ Bulk(t) /\ tx[t].found[c] # NoCode

\* Whoever has entered the unique index is alone in it.
IndexHeld(t) ==
  pc[t] = "incrementUserProgress" =>
    /\ ~Redeemed(tx[t].user, tx[t].action)
    /\ Redeemers(tx[t].user, tx[t].action) = {t}

UsedInactive ==
  \A c \in Codes : claim[c] # NoCode /\ claim[c].isUsed => ~claim[c].isActive

\* A code points at an activity that exists (the foreign key).
ActivitiesExist == \A c \in Codes : claim[c] # NoCode => action[claim[c].action] # NoAction

TxInv(t) ==
  /\ ArgumentsKnown(t) /\ CodeHeld(t) /\ GrantHeld(t) /\ BulkHeld(t)
  /\ LocksOwned(t) /\ IndexHeld(t)

IInv ==
  /\ TypeOK
  /\ \A t \in Tx : TxInv(t)
  /\ UsedInactive
  /\ ActivitiesExist
  /\ RedeemedOnce
  /\ CodesPayOnce
USE DEF Redeeming, Granting

-----------------------------------------------------------------------------
(* Frames: what a step leaves to a transaction that does not take it.       *)

\* Transaction s keeps its place, what it knows and exactly its locks.
SameTx(s) ==
  /\ pc'[s] = pc[s]
  /\ tx'[s] = tx[s]
  /\ \A a \in Actions : actionLock'[a] = s <=> actionLock[a] = s
  /\ \A u \in Users : userLock'[u] = s <=> userLock[u] = s
  /\ \A c \in Codes : claimLock'[c] = s <=> claimLock[c] = s

\* The rows that s has locked are as they were, those it points at still exist,
\* and nobody else has redeemed what it has entered in the index.
RowsFor(s) ==
  /\ \A a \in Actions :
       /\ action[a] # NoAction => action'[a] # NoAction
       /\ actionLock[a] = s => action'[a] = action[a]
  /\ \A u \in Users : userLock[u] = s => enrolled'[u] = enrolled[u]
  /\ \A c \in Codes :
       /\ claim[c] # NoCode => claim'[c] # NoCode /\ claim'[c].action = claim[c].action
       /\ claimLock[c] = s => claim'[c] = claim[c]
  /\ pc[s] = "incrementUserProgress" =>
       \A u \in Users, a \in Actions :
         tx[s].user = u /\ tx[s].action = a => ~Redeemed(u, a)'

\* Nobody enters what s has entered.
AloneStill(s) ==
  pc[s] = "incrementUserProgress" => Redeemers(tx[s].user, tx[s].action)' = {s}

ProtocolTypeOK ==
  /\ userLock \in [Users -> Tx \union {None}]
  /\ actionLock \in [Actions -> Tx \union {None}]
  /\ claimLock \in [Codes -> Tx \union {None}]
  /\ pc \in [Tx -> Statements \union {"idle"}]
  /\ tx \in [Tx -> Locals]

TablesTypeOK ==
  /\ points \in [Users -> Int]
  /\ enrolled \in [Users -> BOOLEAN]
  /\ action \in [Actions -> Action \union {NoAction}]
  /\ \A a \in Actions : action[a] # NoAction /\ action[a].isCodeActive => action[a].hasCode
  /\ claim \in [Codes -> ClaimCode \union {NoCode}]
  /\ event \in [Events -> PointEvent \union {NoEvent}]

\* What the committed rows say.
RowsInv == UsedInactive /\ ActivitiesExist /\ RedeemedOnce /\ CodesPayOnce

LEMMA TypesSplit == TypeOK <=> ProtocolTypeOK /\ TablesTypeOK
BY DEF TypeOK, ProtocolTypeOK, TablesTypeOK

LEMMA OthersKept ==
  ASSUME IInv, NEW s \in Tx, SameTx(s), RowsFor(s), AloneStill(s)
  PROVE  TxInv(s)'
<1>1. TxInv(s) /\ tx[s] \in Locals
  BY DEF IInv, TypeOK
<1>2. tx[s].waiting \subseteq Codes /\ tx[s].codes \subseteq Codes
  BY <1>1 DEF Locals
<1>3. pc'[s] = pc[s] /\ tx'[s] = tx[s]
  BY DEF SameTx
<1>4. ArgumentsKnown(s)'
  BY <1>1, <1>2, <1>3 DEF TxInv, RowsFor, ArgumentsKnown, Entered, ByCode
<1>5. CodeHeld(s)'
  BY <1>1, <1>3 DEF TxInv, SameTx, RowsFor, ArgumentsKnown, CodeHeld, Entered, ByCode
<1>6. GrantHeld(s)'
  BY <1>1, <1>3 DEF TxInv, SameTx, RowsFor, ArgumentsKnown, GrantHeld, Granted
<1>7. BulkHeld(s)'
  BY <1>1, <1>3 DEF TxInv, SameTx, RowsFor, BulkHeld, Bulk
<1>8. LocksOwned(s)'
  BY <1>1, <1>3 DEF TxInv, SameTx, LocksOwned, Entered, ByCode, Bulk, Granted
<1>9. IndexHeld(s)'
  BY <1>1, <1>3 DEF TxInv, ArgumentsKnown, RowsFor, AloneStill, IndexHeld, Entered
<1> QED
  BY <1>4, <1>5, <1>6, <1>7, <1>8, <1>9 DEF TxInv

LEMMA IdleInv ==
  ASSUME NEW t \in Tx, pc'[t] = "idle", tx'[t] = NoLocals,
         \A a \in Actions : actionLock'[a] # t,
         \A u \in Users : userLock'[u] # t,
         \A c \in Codes : claimLock'[c] # t
  PROVE  TxInv(t)'
BY DEF TxInv, ArgumentsKnown, CodeHeld, GrantHeld, BulkHeld, LocksOwned, IndexHeld,
       Entered, ByCode, Bulk, Granted, NoLocals

\* Ending a transaction keeps the types and leaves the other transactions alone.
LEMMA EndFrame ==
  ASSUME TypeOK, NEW t \in Tx, EndTransaction(t)
  PROVE  /\ ProtocolTypeOK'
         /\ pc'[t] = "idle" /\ tx'[t] = NoLocals
         /\ TxInv(t)'
         /\ \A s \in Tx \ {t} : SameTx(s)
<1>1. NoLocals \in Locals
  BY DEF NoLocals, Locals
<1>2. pc' \in [Tx -> Statements \union {"idle"}] /\ tx' \in [Tx -> Locals]
  BY <1>1 DEF EndTransaction, TypeOK
<1>3. /\ userLock' \in [Users -> Tx \union {None}]
      /\ actionLock' \in [Actions -> Tx \union {None}]
      /\ claimLock' \in [Codes -> Tx \union {None}]
  BY DEF EndTransaction, Released, TypeOK
<1>4. pc'[t] = "idle" /\ tx'[t] = NoLocals
  BY DEF EndTransaction, TypeOK
<1>5. TxInv(t)'
  BY <1>4, NoneAssumption, IdleInv DEF EndTransaction, Released, TypeOK
<1>6. \A s \in Tx \ {t} : SameTx(s)
  BY NoneAssumption DEF EndTransaction, Released, TypeOK, SameTx
<1> QED
  BY <1>2, <1>3, <1>4, <1>5, <1>6 DEF ProtocolTypeOK

\* Rows that stay as they are keep what they say, to everybody.
LEMMA RowsKept ==
  ASSUME IInv, UNCHANGED tables
  PROVE  /\ TablesTypeOK' /\ RowsInv'
         /\ \A s \in Tx : RowsFor(s)
<1>1. TablesTypeOK' /\ RowsInv'
  BY TypesSplit
  DEF IInv, tables, TablesTypeOK, RowsInv, UsedInactive, ActivitiesExist, RedeemedOnce,
      CodesPayOnce, Existing
<1>2. ASSUME NEW s \in Tx PROVE RowsFor(s)
  <2>1. IndexHeld(s)
    BY DEF IInv, TxInv
  <2> QED BY <2>1 DEF tables, RowsFor, IndexHeld, Redeemed, Existing
<1> QED BY <1>1, <1>2

\* A step of t that writes no row: what remains to be shown.
LEMMA StepInv ==
  ASSUME IInv, NEW t \in Tx, UNCHANGED tables, ProtocolTypeOK',
         \A s \in Tx \ {t} : SameTx(s),
         pc'[t] = "incrementUserProgress" => Redeemers(tx'[t].user, tx'[t].action) = {},
         TxInv(t)'
  PROVE  IInv'
<1>1. ASSUME NEW s \in Tx \ {t} PROVE AloneStill(s)
  <2>1. IndexHeld(s) /\ \A r \in Tx \ {t} : pc'[r] = pc[r] /\ tx'[r] = tx[r]
    BY DEF IInv, TxInv, SameTx
  <2> QED BY <2>1 DEF AloneStill, IndexHeld, Redeemers
<1>2. \A s \in Tx : TxInv(s)'
  BY <1>1, RowsKept, OthersKept
<1> QED
  BY <1>2, RowsKept, TypesSplit DEF IInv, RowsInv, TypeOK, ProtocolTypeOK, TablesTypeOK

\* A step that writes rows and ends transaction t: what remains to be shown.
LEMMA EndInv ==
  ASSUME IInv, NEW t \in Tx, EndTransaction(t), TablesTypeOK', RowsInv',
         \A s \in Tx \ {t} : RowsFor(s)
  PROVE  IInv'
<1>1. ProtocolTypeOK' /\ pc'[t] = "idle" /\ TxInv(t)' /\ \A s \in Tx \ {t} : SameTx(s)
  BY EndFrame DEF IInv
<1>2. ASSUME NEW s \in Tx \ {t} PROVE AloneStill(s)
  <2>1. IndexHeld(s) /\ \A r \in Tx \ {t} : pc'[r] = pc[r] /\ tx'[r] = tx[r]
    BY <1>1 DEF IInv, TxInv, SameTx
  <2> QED BY <1>1, <2>1 DEF AloneStill, IndexHeld, Redeemers
<1>3. \A s \in Tx : TxInv(s)'
  BY <1>1, <1>2, OthersKept
<1> QED
  BY <1>1, <1>3 DEF IInv, RowsInv, TypeOK, ProtocolTypeOK, TablesTypeOK

\* A step of no transaction.
LEMMA OutsideInv ==
  ASSUME IInv, UNCHANGED <<locks, pc, tx>>, TablesTypeOK', RowsInv',
         \A s \in Tx : RowsFor(s)
  PROVE  IInv'
<1>1. ASSUME NEW s \in Tx PROVE SameTx(s) /\ AloneStill(s)
  <2>1. IndexHeld(s)
    BY DEF IInv, TxInv
  <2> QED BY <2>1 DEF locks, SameTx, AloneStill, IndexHeld, Redeemers
<1>2. \A s \in Tx : TxInv(s)'
  BY <1>1, OthersKept
<1> QED
  BY <1>2 DEF IInv, RowsInv, TypeOK, TablesTypeOK, locks

LEMMA RollbackInv ==
  ASSUME IInv, NEW t \in Tx, Rollback(t)
  PROVE  IInv'
BY RowsKept, EndInv DEF Rollback
-----------------------------------------------------------------------------
(* Steps that write no row.                                                 *)

LEMMA BlankLocals ==
  /\ NoLocals \in Locals
  /\ NoLocals.waiting = {} /\ NoLocals.code = None /\ NoLocals.method = None
  /\ \A c \in Codes : NoLocals.found[c] = NoCode
BY DEF NoLocals, Locals

\* A request that begins has read and locked nothing.
LEMMA BeginInv ==
  ASSUME IInv, NEW t \in Tx, pc[t] = "idle", UNCHANGED <<tables, locks>>,
         NEW facts \in Locals, NEW statement \in Statements,
         Learn(t, facts), Goto(t, statement),
         statement \in {"findAction", "findClaimCode", "lockAction", "findCodeById", "lockClaimCodes"},
         facts.found = NoLocals.found, ArgumentsKnown(t)'
  PROVE  IInv'
<1>1. /\ tx[t] = NoLocals /\ TxInv(t)
      /\ tx \in [Tx -> Locals] /\ pc \in [Tx -> Statements \union {"idle"}]
  BY DEF IInv, TypeOK, TxInv, ArgumentsKnown
<1>2. pc'[t] = statement /\ tx'[t] = facts
  BY <1>1 DEF Learn, Goto
<1>3. ProtocolTypeOK' /\ \A s \in Tx \ {t} : SameTx(s)
  BY <1>1 DEF Learn, Goto, IInv, TypeOK, ProtocolTypeOK, SameTx, locks
<1>4. \A c \in Codes : facts.found[c] = NoCode
  BY BlankLocals
<1>5. LocksOwned(t)'
  BY <1>1 DEF TxInv, LocksOwned, Granted, Entered, Bulk, locks
<1>6. TxInv(t)'
  BY <1>2, <1>4, <1>5
  DEF TxInv, CodeHeld, GrantHeld, BulkHeld, IndexHeld, Entered, Granted
<1> QED
  BY <1>2, <1>3, <1>6, StepInv

LEMMA BeginRedeemInv ==
  ASSUME IInv, NEW t \in Tx, NEW u \in Users, NEW a \in Actions,
         NEW method \in {"DIRECT", "REUSABLE_CODE"}, BeginRedeem(t, u, a, method)
  PROVE  IInv'
<1> DEFINE facts == [NoLocals EXCEPT !.user = u, !.action = a, !.method = method]
<1>1. /\ tx[t] = NoLocals /\ tx \in [Tx -> Locals] /\ pc \in [Tx -> Statements \union {"idle"}]
      /\ action[a] # NoAction
  BY DEF BeginRedeem, IInv, TypeOK, TxInv, ArgumentsKnown
<1>2. Learn(t, facts) /\ Goto(t, "findAction") /\ pc[t] = "idle" /\ UNCHANGED <<tables, locks>>
  BY <1>1 DEF BeginRedeem
<1>3. /\ facts \in Locals /\ facts.found = NoLocals.found /\ "findAction" \in Statements
      /\ facts.user = u /\ facts.action = a /\ facts.method # "CLAIM_CODE" /\ facts.code = None
      /\ facts.waiting = {}
  BY BlankLocals DEF Locals, Methods, Statements
<1>4. ArgumentsKnown(t)'
  BY <1>1, <1>2, <1>3 DEF Learn, Goto, ArgumentsKnown, Entered, ByCode, tables
<1> HIDE DEF facts
<1> QED BY <1>2, <1>3, <1>4, BeginInv

LEMMA BeginRedeemClaimCodeInv ==
  ASSUME IInv, NEW t \in Tx, NEW u \in Users, NEW c \in Codes, BeginRedeemClaimCode(t, u, c)
  PROVE  IInv'
<1> DEFINE facts == [NoLocals EXCEPT !.user = u, !.code = c, !.method = "CLAIM_CODE"]
<1>1. /\ tx[t] = NoLocals /\ tx \in [Tx -> Locals] /\ pc \in [Tx -> Statements \union {"idle"}]
      /\ claim[c] # NoCode
  BY DEF BeginRedeemClaimCode, IInv, TypeOK, TxInv, ArgumentsKnown
<1>2. Learn(t, facts) /\ Goto(t, "findClaimCode") /\ pc[t] = "idle" /\ UNCHANGED <<tables, locks>>
  BY <1>1 DEF BeginRedeemClaimCode
<1>3. /\ facts \in Locals /\ facts.found = NoLocals.found /\ "findClaimCode" \in Statements
      /\ facts.user = u /\ facts.code = c /\ facts.method = "CLAIM_CODE" /\ facts.waiting = {}
  BY BlankLocals DEF Locals, Methods, Statements
<1>4. ArgumentsKnown(t)'
  BY <1>1, <1>2, <1>3 DEF Learn, Goto, ArgumentsKnown, Entered, ByCode, tables
<1> HIDE DEF facts
<1> QED BY <1>2, <1>3, <1>4, BeginInv

LEMMA BeginGrantInv ==
  ASSUME IInv, NEW t \in Tx, NEW u \in Users, NEW a \in Actions, BeginGrant(t, u, a)
  PROVE  IInv'
<1> DEFINE facts == [NoLocals EXCEPT !.user = u, !.action = a]
<1>1. /\ tx[t] = NoLocals /\ tx \in [Tx -> Locals] /\ pc \in [Tx -> Statements \union {"idle"}]
      /\ action[a] # NoAction
  BY DEF BeginGrant, IInv, TypeOK, TxInv, ArgumentsKnown
<1>2. Learn(t, facts) /\ Goto(t, "lockAction") /\ pc[t] = "idle" /\ UNCHANGED <<tables, locks>>
  BY <1>1 DEF BeginGrant
<1>3. /\ facts \in Locals /\ facts.found = NoLocals.found /\ "lockAction" \in Statements
      /\ facts.user = u /\ facts.action = a /\ facts.waiting = {}
  BY BlankLocals DEF Locals, Statements
<1>4. ArgumentsKnown(t)'
  BY <1>1, <1>2, <1>3 DEF Learn, Goto, ArgumentsKnown, Entered, ByCode, tables
<1> HIDE DEF facts
<1> QED BY <1>2, <1>3, <1>4, BeginInv

LEMMA BeginUpdateStatusInv ==
  ASSUME IInv, NEW t \in Tx, NEW c \in Codes, NEW target \in BOOLEAN,
         BeginUpdateStatus(t, c, target)
  PROVE  IInv'
<1> DEFINE facts == [NoLocals EXCEPT !.codes = {c}, !.target = target]
<1>1. /\ tx[t] = NoLocals /\ tx \in [Tx -> Locals] /\ pc \in [Tx -> Statements \union {"idle"}]
      /\ claim[c] # NoCode
  BY DEF BeginUpdateStatus, IInv, TypeOK, TxInv, ArgumentsKnown
<1>2. Learn(t, facts) /\ Goto(t, "findCodeById") /\ pc[t] = "idle" /\ UNCHANGED <<tables, locks>>
  BY <1>1 DEF BeginUpdateStatus
<1>3. /\ facts \in Locals /\ facts.found = NoLocals.found /\ "findCodeById" \in Statements
      /\ facts.codes = {c} /\ facts.waiting = {}
  BY BlankLocals DEF Locals, Statements, Changing
<1>4. ArgumentsKnown(t)'
  BY <1>1, <1>2, <1>3 DEF Learn, Goto, ArgumentsKnown, Entered, ByCode, tables
<1> HIDE DEF facts
<1> QED BY <1>2, <1>3, <1>4, BeginInv

LEMMA BeginBulkInv ==
  ASSUME IInv, NEW t \in Tx, NEW codes \in SUBSET Codes, NEW target \in BOOLEAN,
         BeginBulk(t, codes, target)
  PROVE  IInv'
<1> DEFINE waiting == {c \in codes : claim[c] # NoCode}
           facts == [NoLocals EXCEPT !.codes = codes, !.target = target, !.waiting = waiting]
<1>1. tx[t] = NoLocals /\ tx \in [Tx -> Locals] /\ pc \in [Tx -> Statements \union {"idle"}]
  BY DEF BeginBulk, IInv, TypeOK, TxInv, ArgumentsKnown
<1>2. Learn(t, facts) /\ Goto(t, "lockClaimCodes") /\ pc[t] = "idle" /\ UNCHANGED <<tables, locks>>
  BY <1>1 DEF BeginBulk
<1>3. /\ facts \in Locals /\ facts.found = NoLocals.found /\ "lockClaimCodes" \in Statements
      /\ facts.waiting = waiting
  BY BlankLocals DEF Locals, Statements, Changing
<1>4. ArgumentsKnown(t)'
  BY <1>1, <1>2, <1>3 DEF Learn, Goto, ArgumentsKnown, Entered, ByCode, tables
<1> HIDE DEF facts
<1> QED BY <1>2, <1>3, <1>4, BeginInv

LEMMA FindActionInv ==
  ASSUME IInv, NEW t \in Tx, FindAction(t)
  PROVE  IInv'
<1> DEFINE row == action[tx[t].action]
           facts == [tx[t] EXCEPT !.points = row.points]
<1>1. CASE Rollback(t)
  BY <1>1, RollbackInv
<1>2. CASE /\ Learn(t, facts) /\ Goto(t, "createPointEvent") /\ UNCHANGED <<tables, locks>>
  <2>1. /\ pc[t] = "findAction" /\ TxInv(t) /\ tx[t] \in Locals
        /\ tx \in [Tx -> Locals] /\ pc \in [Tx -> Statements \union {"idle"}]
    BY DEF FindAction, IInv, TypeOK
  <2>2. row \in Action
    BY <2>1 DEF IInv, TypeOK, TxInv, ArgumentsKnown
  <2>3. row.points \in Int
    BY <2>2, WorthsAssumption DEF Action
  <2>4. facts \in Locals
    BY <2>1, <2>3 DEF Locals
  <2>5. pc'[t] = "createPointEvent" /\ tx'[t] = facts
    BY <1>2, <2>1 DEF Learn, Goto
  <2>6. ProtocolTypeOK' /\ \A s \in Tx \ {t} : SameTx(s)
    BY <1>2, <2>1, <2>4 DEF Learn, Goto, IInv, TypeOK, ProtocolTypeOK, SameTx, locks, Statements
  <2>7. /\ tx'[t].user = tx[t].user /\ tx'[t].action = tx[t].action /\ tx'[t].method = tx[t].method
        /\ tx'[t].code = tx[t].code /\ tx'[t].waiting = tx[t].waiting /\ tx'[t].found = tx[t].found
    BY <2>1, <2>5 DEF Locals
  <2>8. TxInv(t)'
    BY <1>2, <2>1, <2>5, <2>7
    DEF TxInv, ArgumentsKnown, CodeHeld, GrantHeld, BulkHeld, LocksOwned, IndexHeld,
        Entered, ByCode, Bulk, Granted, tables, locks
  <2> QED BY <1>2, <2>5, <2>6, <2>8, StepInv
<1> QED BY <1>1, <1>2 DEF FindAction

LEMMA FindClaimCodeInv ==
  ASSUME IInv, NEW t \in Tx, FindClaimCode(t)
  PROVE  IInv'
<1> DEFINE row == claim[tx[t].code]
           a == row.action
           facts == [tx[t] EXCEPT !.action = a, !.points = action[a].points]
<1>1. CASE Rollback(t)
  BY <1>1, RollbackInv
<1>2. CASE /\ Learn(t, facts) /\ Goto(t, "consumeClaimCode") /\ UNCHANGED <<tables, locks>>
  <2>1. /\ pc[t] = "findClaimCode" /\ TxInv(t) /\ tx[t] \in Locals
        /\ tx \in [Tx -> Locals] /\ pc \in [Tx -> Statements \union {"idle"}]
    BY DEF FindClaimCode, IInv, TypeOK
  <2>2. row \in ClaimCode /\ row # NoCode
    BY <2>1 DEF IInv, TypeOK, TxInv, ArgumentsKnown
  <2>3. a \in Actions /\ action[a] # NoAction
    BY <2>1, <2>2 DEF ClaimCode, IInv, ActivitiesExist, TxInv, ArgumentsKnown
  <2>4. action[a] \in Action
    BY <2>3 DEF IInv, TypeOK
  <2>5. action[a].points \in Int
    BY <2>4, WorthsAssumption DEF Action
  <2>6. facts \in Locals
    BY <2>1, <2>3, <2>5 DEF Locals
  <2>7. pc'[t] = "consumeClaimCode" /\ tx'[t] = facts
    BY <1>2, <2>1 DEF Learn, Goto
  <2>8. ProtocolTypeOK' /\ \A s \in Tx \ {t} : SameTx(s)
    BY <1>2, <2>1, <2>6 DEF Learn, Goto, IInv, TypeOK, ProtocolTypeOK, SameTx, locks, Statements
  <2>9. /\ tx'[t].user = tx[t].user /\ tx'[t].action = a /\ tx'[t].method = tx[t].method
        /\ tx'[t].code = tx[t].code /\ tx'[t].waiting = tx[t].waiting /\ tx'[t].found = tx[t].found
    BY <2>1, <2>7 DEF Locals
  <2>10. TxInv(t)'
    BY <1>2, <2>1, <2>3, <2>7, <2>9
    DEF TxInv, ArgumentsKnown, CodeHeld, GrantHeld, BulkHeld, LocksOwned, IndexHeld,
        Entered, ByCode, Bulk, Granted, tables, locks
  <2> QED BY <1>2, <2>7, <2>8, <2>10, StepInv
<1> QED BY <1>1, <1>2 DEF FindClaimCode

LEMMA ConsumeClaimCodeInv ==
  ASSUME IInv, NEW t \in Tx, ConsumeClaimCode(t)
  PROVE  IInv'
<1> DEFINE c == tx[t].code
<1>1. CASE Rollback(t)
  BY <1>1, RollbackInv
<1>2. CASE /\ Consumable(claim[c])
           /\ claimLock' = [claimLock EXCEPT ![c] = t]
           /\ Goto(t, "createPointEvent")
           /\ UNCHANGED <<tables, userLock, actionLock, tx>>
  <2>1. /\ pc[t] = "consumeClaimCode" /\ TxInv(t) /\ tx[t] \in Locals /\ claimLock[c] = None
        /\ claimLock \in [Codes -> Tx \union {None}]
        /\ tx \in [Tx -> Locals] /\ pc \in [Tx -> Statements \union {"idle"}]
    BY DEF ConsumeClaimCode, IInv, TypeOK
  <2>2. c \in Codes /\ ByCode(t) /\ claim[c] # NoCode /\ tx[t].action = claim[c].action
    BY <2>1 DEF TxInv, ArgumentsKnown
  <2>3. /\ pc'[t] = "createPointEvent" /\ tx'[t] = tx[t]
        /\ claimLock'[c] = t /\ \A d \in Codes \ {c} : claimLock'[d] = claimLock[d]
    BY <1>2, <2>1, <2>2 DEF Goto
  <2>4. ProtocolTypeOK'
    BY <1>2, <2>1 DEF Goto, IInv, TypeOK, ProtocolTypeOK, Statements
  <2>5. \A s \in Tx \ {t} : SameTx(s)
    BY <1>2, <2>1, <2>2, <2>3, NoneAssumption DEF Goto, SameTx
  <2>6. ArgumentsKnown(t)'
    BY <1>2, <2>1, <2>2, <2>3 DEF TxInv, ArgumentsKnown, Entered, ByCode, tables
  <2>7. (CodeHeld(t) /\ GrantHeld(t) /\ BulkHeld(t) /\ IndexHeld(t))'
    BY <1>2, <2>1, <2>2, <2>3
    DEF TxInv, CodeHeld, GrantHeld, BulkHeld, IndexHeld, Entered, ByCode, Bulk, Granted, tables
  <2>8. LocksOwned(t)'
    BY <1>2, <2>1, <2>2, <2>3 DEF TxInv, LocksOwned, Entered, ByCode, Bulk, Granted
  <2> QED BY <1>2, <2>3, <2>4, <2>5, <2>6, <2>7, <2>8, StepInv DEF TxInv
<1> QED BY <1>1, <1>2 DEF ConsumeClaimCode

LEMMA CreatePointEventInv ==
  ASSUME IInv, NEW t \in Tx, CreatePointEvent(t)
  PROVE  IInv'
<1>1. CASE Rollback(t)
  BY <1>1, RollbackInv
<1>2. CASE /\ tx[t].points >= 0
           /\ ~Redeemed(tx[t].user, tx[t].action)
           /\ Redeemers(tx[t].user, tx[t].action) = {}
           /\ Goto(t, "incrementUserProgress")
           /\ UNCHANGED <<tables, locks, tx>>
  <2>1. /\ pc[t] = "createPointEvent" /\ TxInv(t) /\ tx[t] \in Locals
        /\ tx \in [Tx -> Locals] /\ pc \in [Tx -> Statements \union {"idle"}]
    BY DEF CreatePointEvent, IInv, TypeOK
  <2>2. /\ pc'[t] = "incrementUserProgress" /\ tx'[t] = tx[t]
        /\ \A s \in Tx \ {t} : pc'[s] = pc[s] /\ tx'[s] = tx[s]
    BY <1>2, <2>1 DEF Goto
  <2>3. ProtocolTypeOK' /\ \A s \in Tx \ {t} : SameTx(s)
    BY <1>2, <2>1, <2>2 DEF Goto, IInv, TypeOK, ProtocolTypeOK, SameTx, locks, Statements
  <2>4. (ArgumentsKnown(t) /\ CodeHeld(t) /\ GrantHeld(t) /\ BulkHeld(t) /\ LocksOwned(t))'
    BY <1>2, <2>1, <2>2
    DEF TxInv, ArgumentsKnown, CodeHeld, GrantHeld, BulkHeld, LocksOwned,
        Entered, ByCode, Bulk, Granted, tables, locks
  <2>5. IndexHeld(t)'
    <3>1. ~Redeemed(tx[t].user, tx[t].action)'
      BY <1>2, <2>2 DEF Redeemed, Existing, tables
    <3>2. Redeemers(tx[t].user, tx[t].action)' = {t}
      BY <1>2, <2>2 DEF Redeemers
    <3> QED BY <3>1, <3>2 DEF IndexHeld
  <2> QED BY <1>2, <2>2, <2>3, <2>4, <2>5, StepInv DEF TxInv
<1> QED BY <1>1, <1>2 DEF CreatePointEvent
LEMMA LockActionInv ==
  ASSUME IInv, NEW t \in Tx, LockAction(t)
  PROVE  IInv'
<1> DEFINE a == tx[t].action
           facts == [tx[t] EXCEPT !.points = action[a].points]
<1>1. CASE Rollback(t)
  BY <1>1, RollbackInv
<1>2. CASE /\ Grantable(action[a])
           /\ actionLock' = [actionLock EXCEPT ![a] = t]
           /\ Learn(t, facts) /\ Goto(t, "lockParticipant")
           /\ UNCHANGED <<tables, userLock, claimLock>>
  <2>1. /\ pc[t] = "lockAction" /\ TxInv(t) /\ tx[t] \in Locals /\ actionLock[a] = None
        /\ actionLock \in [Actions -> Tx \union {None}]
        /\ tx \in [Tx -> Locals] /\ pc \in [Tx -> Statements \union {"idle"}]
    BY DEF LockAction, IInv, TypeOK
  <2>2. a \in Actions /\ action[a] # NoAction /\ action[a] \in Action
    BY <2>1 DEF TxInv, ArgumentsKnown, IInv, TypeOK
  <2>3. action[a].points \in Int
    BY <2>2, WorthsAssumption DEF Action
  <2>4. facts \in Locals
    BY <2>1, <2>3 DEF Locals
  <2>5. /\ pc'[t] = "lockParticipant" /\ tx'[t] = facts
        /\ actionLock'[a] = t /\ \A b \in Actions \ {a} : actionLock'[b] = actionLock[b]
    BY <1>2, <2>1, <2>2 DEF Learn, Goto
  <2>6. ProtocolTypeOK'
    BY <1>2, <2>1, <2>4 DEF Learn, Goto, IInv, TypeOK, ProtocolTypeOK, Statements
  <2>7. \A s \in Tx \ {t} : SameTx(s)
    BY <1>2, <2>1, <2>2, <2>5, NoneAssumption DEF Learn, Goto, SameTx
  <2>8. /\ tx'[t].user = tx[t].user /\ tx'[t].action = a /\ tx'[t].points = action[a].points
        /\ tx'[t].waiting = tx[t].waiting /\ tx'[t].found = tx[t].found
    BY <2>1, <2>5 DEF Locals
  <2>9. (ArgumentsKnown(t) /\ CodeHeld(t) /\ GrantHeld(t) /\ BulkHeld(t) /\ IndexHeld(t))'
    BY <1>2, <2>1, <2>2, <2>5, <2>8
    DEF TxInv, ArgumentsKnown, CodeHeld, GrantHeld, BulkHeld, IndexHeld,
        Entered, ByCode, Bulk, Granted, tables
  <2>10. LocksOwned(t)'
    BY <1>2, <2>1, <2>2, <2>5, <2>8 DEF TxInv, LocksOwned, Entered, ByCode, Bulk, Granted
  <2> QED BY <1>2, <2>5, <2>6, <2>7, <2>9, <2>10, StepInv DEF TxInv
<1> QED BY <1>1, <1>2 DEF LockAction

LEMMA LockParticipantInv ==
  ASSUME IInv, NEW t \in Tx, LockParticipant(t)
  PROVE  IInv'
<1> DEFINE u == tx[t].user
<1>1. CASE Rollback(t)
  BY <1>1, RollbackInv
<1>2. CASE /\ enrolled[u]
           /\ userLock' = [userLock EXCEPT ![u] = t]
           /\ Goto(t, "createGrant")
           /\ UNCHANGED <<tables, actionLock, claimLock, tx>>
  <2>1. /\ pc[t] = "lockParticipant" /\ TxInv(t) /\ tx[t] \in Locals /\ userLock[u] = None
        /\ userLock \in [Users -> Tx \union {None}] /\ u \in Users
        /\ tx \in [Tx -> Locals] /\ pc \in [Tx -> Statements \union {"idle"}]
    BY DEF LockParticipant, IInv, TypeOK, TxInv, ArgumentsKnown
  <2>2. /\ pc'[t] = "createGrant" /\ tx'[t] = tx[t]
        /\ userLock'[u] = t /\ \A v \in Users \ {u} : userLock'[v] = userLock[v]
    BY <1>2, <2>1 DEF Goto
  <2>3. ProtocolTypeOK'
    BY <1>2, <2>1 DEF Goto, IInv, TypeOK, ProtocolTypeOK, Statements
  <2>4. \A s \in Tx \ {t} : SameTx(s)
    BY <1>2, <2>1, <2>2, NoneAssumption DEF Goto, SameTx
  <2>5. (ArgumentsKnown(t) /\ CodeHeld(t) /\ GrantHeld(t) /\ BulkHeld(t) /\ IndexHeld(t))'
    BY <1>2, <2>1, <2>2
    DEF TxInv, ArgumentsKnown, CodeHeld, GrantHeld, BulkHeld, IndexHeld,
        Entered, ByCode, Bulk, Granted, tables
  <2>6. LocksOwned(t)'
    BY <1>2, <2>1, <2>2 DEF TxInv, LocksOwned, Entered, ByCode, Bulk, Granted
  <2> QED BY <1>2, <2>2, <2>3, <2>4, <2>5, <2>6, StepInv DEF TxInv
<1> QED BY <1>1, <1>2 DEF LockParticipant

LEMMA FindCodeByIdInv ==
  ASSUME IInv, NEW t \in Tx, FindCodeById(t)
  PROVE  IInv'
<1>1. CASE Rollback(t)
  BY <1>1, RollbackInv
<1>2. CASE Goto(t, "updateClaimCodeStatus") /\ UNCHANGED <<tables, locks, tx>>
  <2>1. /\ pc[t] = "findCodeById" /\ TxInv(t)
        /\ tx \in [Tx -> Locals] /\ pc \in [Tx -> Statements \union {"idle"}]
    BY DEF FindCodeById, IInv, TypeOK
  <2>2. /\ pc'[t] = "updateClaimCodeStatus" /\ tx'[t] = tx[t]
        /\ \A s \in Tx \ {t} : pc'[s] = pc[s] /\ tx'[s] = tx[s]
    BY <1>2, <2>1 DEF Goto
  <2>3. ProtocolTypeOK' /\ \A s \in Tx \ {t} : SameTx(s)
    BY <1>2, <2>1, <2>2
    DEF Goto, IInv, TypeOK, ProtocolTypeOK, SameTx, locks, Statements, Changing
  <2>4. TxInv(t)'
    BY <1>2, <2>1, <2>2
    DEF TxInv, ArgumentsKnown, CodeHeld, GrantHeld, BulkHeld, LocksOwned, IndexHeld,
        Entered, ByCode, Bulk, Granted, tables, locks
  <2> QED BY <1>2, <2>2, <2>3, <2>4, StepInv
<1> QED BY <1>1, <1>2 DEF FindCodeById

LEMMA LockClaimCodesInv ==
  ASSUME IInv, NEW t \in Tx, LockClaimCodes(t)
  PROVE  IInv'
<1>1. /\ pc[t] = "lockClaimCodes" /\ TxInv(t) /\ tx[t] \in Locals
      /\ claimLock \in [Codes -> Tx \union {None}]
      /\ tx \in [Tx -> Locals] /\ pc \in [Tx -> Statements \union {"idle"}]
      /\ UNCHANGED <<tables, userLock, actionLock>>
  BY DEF LockClaimCodes, IInv, TypeOK
<1>2. CASE tx[t].waiting = {} /\ Goto(t, "updateClaimCodeStatuses") /\ UNCHANGED <<claimLock, tx>>
  <2>1. /\ pc'[t] = "updateClaimCodeStatuses" /\ tx'[t] = tx[t]
        /\ \A s \in Tx \ {t} : pc'[s] = pc[s] /\ tx'[s] = tx[s]
    BY <1>1, <1>2 DEF Goto
  <2>2. ProtocolTypeOK' /\ \A s \in Tx \ {t} : SameTx(s)
    BY <1>1, <1>2, <2>1
    DEF Goto, IInv, TypeOK, ProtocolTypeOK, SameTx, locks, Statements, Changing
  <2>3. TxInv(t)'
    BY <1>1, <1>2, <2>1
    DEF TxInv, ArgumentsKnown, CodeHeld, GrantHeld, BulkHeld, LocksOwned, IndexHeld,
        Entered, ByCode, Bulk, Granted, tables, locks
  <2> QED BY <1>1, <2>1, <2>2, <2>3, StepInv
<1>3. ASSUME NEW c \in FirstOf(tx[t].waiting),
             claimLock[c] = None,
             claimLock' = [claimLock EXCEPT ![c] = t],
             Learn(t, [tx[t] EXCEPT !.found[c] = claim[c], !.waiting = @ \ {c}]),
             UNCHANGED pc
      PROVE  IInv'
  <2> DEFINE found == [tx[t].found EXCEPT ![c] = claim[c]]
             waiting == tx[t].waiting \ {c}
             facts == [tx[t] EXCEPT !.found = found, !.waiting = waiting]
  <2>1. /\ tx[t].waiting \subseteq Codes /\ c \in tx[t].waiting /\ c \in Codes
        /\ tx[t].found \in [Codes -> ClaimCode \union {NoCode}]
        /\ \A d \in waiting : <<c, d>> \in Precedes
    BY <1>1 DEF Locals, FirstOf
  <2>2. claim[c] \in ClaimCode \union {NoCode} /\ claim[c] # NoCode
    BY <1>1, <2>1 DEF IInv, TypeOK, TxInv, ArgumentsKnown
  <2>3. /\ found \in [Codes -> ClaimCode \union {NoCode}]
        /\ found[c] = claim[c] /\ \A d \in Codes \ {c} : found[d] = tx[t].found[d]
        /\ waiting \subseteq Codes
    BY <2>1, <2>2
  <2>4. tx'[t] = facts /\ pc'[t] = "lockClaimCodes"
    BY <1>1, <1>3 DEF Learn
  <2> HIDE DEF found, waiting
  <2>5. /\ facts \in Locals /\ facts.found = found /\ facts.waiting = waiting
        /\ facts.codes = tx[t].codes
    BY <1>1, <2>3 DEF Locals
  <2>6. claimLock'[c] = t /\ \A d \in Codes \ {c} : claimLock'[d] = claimLock[d]
    BY <1>1, <1>3, <2>1
  <2>7. ProtocolTypeOK'
    BY <1>1, <1>3, <2>4, <2>5 DEF Learn, IInv, TypeOK, ProtocolTypeOK
  <2>8. \A s \in Tx \ {t} : SameTx(s)
    BY <1>1, <1>3, <2>1, <2>6, NoneAssumption DEF Learn, SameTx
  <2>9. waiting \subseteq tx[t].waiting
    BY DEF waiting
  <2>10. (ArgumentsKnown(t) /\ CodeHeld(t) /\ GrantHeld(t) /\ IndexHeld(t))'
    BY <1>1, <2>4, <2>5, <2>9
    DEF TxInv, ArgumentsKnown, CodeHeld, GrantHeld, IndexHeld, Entered, ByCode, Granted, tables
  <2>11. BulkHeld(t)'
    BY <1>1, <2>1, <2>3, <2>4, <2>5, <2>6, <2>9 DEF TxInv, BulkHeld, Bulk, tables
  <2>12. LocksOwned(t)'
    BY <1>1, <2>2, <2>3, <2>4, <2>5, <2>6 DEF TxInv, LocksOwned, Entered, ByCode, Bulk, Granted
  <2> QED BY <1>1, <2>4, <2>7, <2>8, <2>10, <2>11, <2>12, StepInv DEF TxInv
<1> QED BY <1>2, <1>3 DEF LockClaimCodes

-----------------------------------------------------------------------------
(* Steps that write rows.                                                   *)

\* The events that a single-use code has paid for.
Paid(c) == {e \in Events : Existing(e) /\ event[e].claimCode = c}

\* What a single-use code has paid for, by what its row says.
PaysOnce(c) ==
  /\ claim[c] = NoCode \/ ~claim[c].isUsed => Paid(c) = {}
  /\ claim[c] # NoCode /\ claim[c].isUsed =>
       \E e \in Paid(c) : /\ Paid(c) = {e}
                           /\ event[e].user = claim[c].usedBy
                           /\ event[e].action = claim[c].action

LEMMA PaysOncePerCode == CodesPayOnce <=> \A c \in Codes : PaysOnce(c)
BY DEF CodesPayOnce, PaysOnce, Paid

\* One more event of a participant and activity that had none.
LEMMA EventAdded ==
  ASSUME IInv, NEW e \in Events, NEW u \in Users, NEW a \in Actions, NEW worth \in Int,
         NEW c \in Codes \union {None}, Reward(e, u, a, worth, c), ~Redeemed(u, a)
  PROVE  /\ event' \in [Events -> PointEvent \union {NoEvent}] /\ points' \in [Users -> Int]
         /\ ~Existing(e)
         /\ event'[e] = [user |-> u, action |-> a, points |-> worth, claimCode |-> c]
         /\ \A f \in Events \ {e} : event'[f] = event[f]
         /\ RedeemedOnce'
         /\ \A v \in Users, b \in Actions :
              ~Redeemed(v, b) /\ <<v, b>> # <<u, a>> => ~Redeemed(v, b)'
         /\ \A d \in Codes : Paid(d)' = IF d = c THEN Paid(d) \union {e} ELSE Paid(d)
<1> DEFINE row == [user |-> u, action |-> a, points |-> worth, claimCode |-> c]
<1>1. row \in PointEvent
  BY DEF PointEvent
<1>2. row # NoEvent
  BY <1>1, NullAssumption
<1>3. /\ ~Existing(e) /\ event' = [event EXCEPT ![e] = row]
      /\ points' = [points EXCEPT ![u] = @ + worth]
      /\ event \in [Events -> PointEvent \union {NoEvent}] /\ points \in [Users -> Int]
  BY DEF Reward, IInv, TypeOK
<1>4. /\ event' \in [Events -> PointEvent \union {NoEvent}] /\ points' \in [Users -> Int]
      /\ event'[e] = row /\ \A f \in Events \ {e} : event'[f] = event[f]
  BY <1>1, <1>3
<1>5. /\ row.user = u /\ row.action = a /\ row.claimCode = c
  OBVIOUS
<1> HIDE DEF row
<1>6. RedeemedOnce'
  BY <1>2, <1>3, <1>4, <1>5 DEF IInv, RedeemedOnce, Redeemed, Existing
<1>7. \A v \in Users, b \in Actions :
        ~Redeemed(v, b) /\ <<v, b>> # <<u, a>> => ~Redeemed(v, b)'
  BY <1>2, <1>3, <1>4, <1>5 DEF Redeemed, Existing
<1>8. \A d \in Codes : Paid(d)' = IF d = c THEN Paid(d) \union {e} ELSE Paid(d)
  BY <1>2, <1>3, <1>4, <1>5 DEF Paid, Existing
<1> QED BY <1>3, <1>4, <1>6, <1>7, <1>8 DEF row
LEMMA CreateGrantInv ==
  ASSUME IInv, NEW t \in Tx, NEW e \in Events, CreateGrant(t, e)
  PROVE  IInv'
<1> DEFINE u == tx[t].user
           a == tx[t].action
           worth == tx[t].points
<1>1. CASE Rollback(t)
  BY <1>1, RollbackInv
<1>2. CASE /\ ~Redeemed(u, a) /\ Redeemers(u, a) = {}
           /\ Reward(e, u, a, worth, None)
           /\ EndTransaction(t)
           /\ UNCHANGED <<enrolled, action, claim>>
  <2>1. u \in Users /\ a \in Actions /\ worth \in Int
    BY DEF CreateGrant, IInv, TypeOK, TxInv, ArgumentsKnown, Locals
  <2>2. /\ event' \in [Events -> PointEvent \union {NoEvent}] /\ points' \in [Users -> Int]
        /\ event'[e] = [user |-> u, action |-> a, points |-> worth, claimCode |-> None]
        /\ \A f \in Events \ {e} : event'[f] = event[f]
        /\ ~Existing(e) /\ RedeemedOnce'
        /\ \A v \in Users, b \in Actions :
             ~Redeemed(v, b) /\ <<v, b>> # <<u, a>> => ~Redeemed(v, b)'
        /\ \A d \in Codes : Paid(d)' = IF d = None THEN Paid(d) \union {e} ELSE Paid(d)
    BY <1>2, <2>1, EventAdded
  <2>3. TablesTypeOK'
    BY <1>2, <2>2 DEF IInv, TypeOK, TablesTypeOK
  <2>4. ASSUME NEW d \in Codes PROVE PaysOnce(d)'
    <3>1. PaysOnce(d) /\ Paid(d)' = Paid(d) /\ e \notin Paid(d)
      BY <2>2, NoneAssumption, PaysOncePerCode DEF IInv, Paid
    <3> QED BY <1>2, <2>2, <3>1 DEF PaysOnce, Paid
  <2>5. RowsInv'
    BY <1>2, <2>2, <2>4, PaysOncePerCode DEF IInv, RowsInv, UsedInactive, ActivitiesExist, PaysOnce,
       CodesPayOnce, Paid
  <2>6. ASSUME NEW s \in Tx \ {t} PROVE RowsFor(s)
    <3>1. IndexHeld(s)
      BY DEF IInv, TxInv
    <3>2. pc[s] = "incrementUserProgress" => <<tx[s].user, tx[s].action>> # <<u, a>>
      BY <1>2, <3>1 DEF IndexHeld
    <3> QED BY <1>2, <2>1, <2>2, <3>1, <3>2 DEF RowsFor, IndexHeld
  <2> QED BY <1>2, <2>3, <2>5, <2>6, EndInv
<1> QED BY <1>1, <1>2 DEF CreateGrant

LEMMA IncrementUserProgressInv ==
  ASSUME IInv, NEW t \in Tx, NEW e \in Events, IncrementUserProgress(t, e)
  PROVE  IInv'
<1> DEFINE u == tx[t].user
           a == tx[t].action
           c == tx[t].code
           worth == tx[t].points
           used == [claim[c] EXCEPT !.isUsed = TRUE, !.isActive = FALSE, !.usedBy = u]
<1>1. /\ pc[t] = "incrementUserProgress" /\ TxInv(t)
      /\ u \in Users /\ a \in Actions /\ worth \in Int
      /\ claim \in [Codes -> ClaimCode \union {NoCode}]
  BY DEF IncrementUserProgress, IInv, TypeOK, TxInv, ArgumentsKnown, Entered, Locals
<1>2. /\ ~Redeemed(u, a)
      /\ \A s \in Tx \ {t} : pc[s] = "incrementUserProgress" => <<tx[s].user, tx[s].action>> # <<u, a>>
  BY <1>1 DEF TxInv, IndexHeld, Redeemers
<1>3. \/ ~ByCode(t) /\ c = None
      \/ /\ ByCode(t) /\ c \in Codes /\ claim[c] # NoCode /\ a = claim[c].action
         /\ claimLock[c] = t /\ ~claim[c].isUsed
  BY <1>1 DEF TxInv, ArgumentsKnown, CodeHeld, Consumable, Entered
<1>4. /\ Reward(e, u, a, worth, c) /\ EndTransaction(t) /\ UNCHANGED <<enrolled, action>>
      /\ claim' = [d \in Codes |-> IF d = c THEN used ELSE claim[d]]
  BY DEF IncrementUserProgress
<1>5. /\ event' \in [Events -> PointEvent \union {NoEvent}] /\ points' \in [Users -> Int]
      /\ ~Existing(e)
      /\ event'[e] = [user |-> u, action |-> a, points |-> worth, claimCode |-> c]
      /\ \A f \in Events \ {e} : event'[f] = event[f]
      /\ RedeemedOnce'
      /\ \A v \in Users, b \in Actions :
           ~Redeemed(v, b) /\ <<v, b>> # <<u, a>> => ~Redeemed(v, b)'
      /\ \A d \in Codes : Paid(d)' = IF d = c THEN Paid(d) \union {e} ELSE Paid(d)
  BY <1>1, <1>2, <1>3, <1>4, EventAdded
<1>6. c \in Codes =>
        /\ used \in ClaimCode /\ used.action = claim[c].action
        /\ used.isUsed /\ ~used.isActive /\ used.usedBy = u
  BY <1>1, <1>3, NoneAssumption DEF ClaimCode
<1>7. c \in Codes => used # NoCode
  BY <1>6, NullAssumption
<1> HIDE DEF used
<1>8. /\ claim' \in [Codes -> ClaimCode \union {NoCode}]
      /\ c \in Codes => claim'[c] = used
      /\ \A d \in Codes \ {c} : claim'[d] = claim[d]
  BY <1>1, <1>4, <1>6
<1>9. TablesTypeOK'
  BY <1>4, <1>5, <1>8 DEF IInv, TypeOK, TablesTypeOK
<1>10. ASSUME NEW d \in Codes PROVE PaysOnce(d)'
  <2>1. PaysOnce(d) /\ e \notin Paid(d)
    BY <1>5, PaysOncePerCode DEF IInv, Paid
  <2>2. CASE d = c
    <3>1. Paid(d)' = {e}
      BY <1>3, <1>5, <2>1, <2>2, NoneAssumption DEF PaysOnce
    <3>2. claim'[d] = used /\ event'[e].user = u /\ event'[e].action = claim[d].action
      BY <1>3, <1>5, <1>8, <2>2, NoneAssumption
    <3> QED BY <1>6, <1>7, <2>2, <3>1, <3>2 DEF PaysOnce
  <2>3. CASE d # c
    BY <1>5, <1>8, <2>1, <2>3 DEF PaysOnce, Paid
  <2> QED BY <2>2, <2>3
<1>11. CodesPayOnce'
  <2>1. \A d \in Codes : PaysOnce(d)'
    BY <1>10
  <2> QED BY <2>1 DEF CodesPayOnce, PaysOnce, Paid
<1>12. UsedInactive' /\ ActivitiesExist'
  <2>1. ASSUME NEW d \in Codes, claim'[d] # NoCode
        PROVE  /\ claim'[d].isUsed => ~claim'[d].isActive
               /\ action'[claim'[d].action] # NoAction
    <3>1. CASE d = c
      BY <1>3, <1>4, <1>6, <1>8, <3>1, NoneAssumption DEF IInv, ActivitiesExist
    <3>2. CASE d # c
      BY <1>4, <1>8, <2>1, <3>2 DEF IInv, UsedInactive, ActivitiesExist
    <3> QED BY <3>1, <3>2
  <2> QED BY <2>1 DEF UsedInactive, ActivitiesExist
<1>13. ASSUME NEW s \in Tx \ {t} PROVE RowsFor(s)
  <2>1. IndexHeld(s)
    BY DEF IInv, TxInv
  <2>2. \A d \in Codes : claim[d] # NoCode => claim'[d] # NoCode /\ claim'[d].action = claim[d].action
    BY <1>6, <1>7, <1>8
  <2>3. \A d \in Codes : claimLock[d] = s => claim'[d] = claim[d]
    BY <1>3, <1>8, NoneAssumption
  <2> QED BY <1>1, <1>2, <1>4, <1>5, <2>1, <2>2, <2>3 DEF RowsFor, IndexHeld
<1> QED BY <1>4, <1>5, <1>9, <1>11, <1>12, <1>13, EndInv DEF RowsInv

StatusesSet(codes, target) ==
  claim' = [c \in Codes |->
    IF c \in codes THEN [claim[c] EXCEPT !.isActive = target] ELSE claim[c]]

\* Codes that are not used change their status; nobody has locked them but t.
LEMMA StatusesInv ==
  ASSUME IInv, NEW t \in Tx, EndTransaction(t), UNCHANGED <<points, enrolled, action, event>>,
         NEW codes \in SUBSET Codes, NEW target \in BOOLEAN,
         \A c \in codes : claim[c] # NoCode /\ ~claim[c].isUsed /\ claimLock[c] \in {None, t},
         StatusesSet(codes, target)
  PROVE  IInv'
<1> DEFINE row(c) == [claim[c] EXCEPT !.isActive = target]
<1>1. claim \in [Codes -> ClaimCode \union {NoCode}]
  BY DEF IInv, TypeOK
<1>2. ASSUME NEW c \in codes
      PROVE  /\ row(c) \in ClaimCode /\ row(c).action = claim[c].action
             /\ ~row(c).isUsed
  BY <1>1, <1>2 DEF ClaimCode
<1>3. ASSUME NEW c \in codes PROVE row(c) # NoCode
  BY <1>2, <1>3, NullAssumption
<1>4. \A c \in Codes : claim'[c] = IF c \in codes THEN row(c) ELSE claim[c]
  BY DEF StatusesSet
<1>5. claim' \in [Codes -> ClaimCode \union {NoCode}]
  BY <1>1, <1>2 DEF StatusesSet
<1> HIDE DEF row
<1>6. TablesTypeOK'
  BY <1>5 DEF IInv, TypeOK, TablesTypeOK
<1>7. UsedInactive' /\ ActivitiesExist' /\ RedeemedOnce'
  BY <1>2, <1>3, <1>4 DEF IInv, UsedInactive, ActivitiesExist, RedeemedOnce, Existing
<1>8. CodesPayOnce'
  <2>1. ASSUME NEW c \in Codes PROVE PaysOnce(c)'
    <3>1. PaysOnce(c) /\ Paid(c)' = Paid(c)
      BY PaysOncePerCode DEF IInv, Paid, Existing
    <3> QED BY <1>2, <1>3, <1>4, <3>1 DEF PaysOnce
  <2> QED BY <2>1 DEF CodesPayOnce, PaysOnce, Paid
<1>9. ASSUME NEW s \in Tx \ {t} PROVE RowsFor(s)
  <2>1. IndexHeld(s)
    BY DEF IInv, TxInv
  <2>2. \A c \in Codes : claimLock[c] = s => c \notin codes
    BY NoneAssumption
  <2> QED BY <1>2, <1>3, <1>4, <2>1, <2>2 DEF RowsFor, IndexHeld, Redeemed, Existing
<1> QED BY <1>6, <1>7, <1>8, <1>9, EndInv DEF RowsInv

LEMMA UpdateClaimCodeStatusInv ==
  ASSUME IInv, NEW t \in Tx, UpdateClaimCodeStatus(t)
  PROVE  IInv'
<1>1. /\ TxInv(t) /\ pc[t] = "updateClaimCodeStatus" /\ tx[t] \in Locals
      /\ claim \in [Codes -> ClaimCode \union {NoCode}]
  BY DEF UpdateClaimCodeStatus, IInv, TypeOK
<1>2. PICK c \in tx[t].codes :
        /\ claimLock[c] = None
        /\ \/ Rollback(t)
           \/ /\ Changeable(claim[c], tx[t].target)
              /\ claim' = [claim EXCEPT ![c].isActive = tx[t].target]
              /\ EndTransaction(t)
              /\ UNCHANGED <<points, enrolled, action, event>>
  BY DEF UpdateClaimCodeStatus
<1>3. c \in Codes /\ claim[c] # NoCode /\ tx[t].target \in BOOLEAN
  BY <1>1 DEF TxInv, ArgumentsKnown, Locals
<1>4. CASE Rollback(t)
  BY <1>4, RollbackInv
<1>5. CASE /\ Changeable(claim[c], tx[t].target)
           /\ claim' = [claim EXCEPT ![c].isActive = tx[t].target]
           /\ EndTransaction(t)
           /\ UNCHANGED <<points, enrolled, action, event>>
  <2>1. claim' = [d \in Codes |->
          IF d \in {c} THEN [claim[d] EXCEPT !.isActive = tx[t].target] ELSE claim[d]]
    BY <1>1, <1>3, <1>5
  <2>2. /\ {c} \in SUBSET Codes
        /\ \A d \in {c} : claim[d] # NoCode /\ ~claim[d].isUsed /\ claimLock[d] \in {None, t}
    BY <1>2, <1>3, <1>5 DEF Changeable
  <2> DEFINE codes == {c}
  <2> HIDE DEF codes
  <2>3. /\ codes \in SUBSET Codes
        /\ \A d \in codes : claim[d] # NoCode /\ ~claim[d].isUsed /\ claimLock[d] \in {None, t}
        /\ StatusesSet(codes, tx[t].target)
    BY <2>1, <2>2 DEF codes, StatusesSet
  <2> QED BY <1>3, <1>5, <2>3, StatusesInv
<1> QED BY <1>2, <1>4, <1>5

\* The codes that a bulk operation changes are locked by it, as it found them.
LEMMA ChangedAreFound ==
  ASSUME IInv, NEW t \in Tx, NEW c \in Changed(t)
  PROVE  /\ c \in Codes /\ tx[t].found[c] # NoCode /\ claim[c] = tx[t].found[c]
         /\ claimLock[c] = t
         /\ ~claim[c].isUsed /\ claim[c].isActive # tx[t].target
<1>1. tx[t] \in Locals /\ BulkHeld(t)
  BY DEF IInv, TypeOK, TxInv
<1>2. c \in Codes /\ Outcome(t, c) = "CHANGED"
  BY <1>1 DEF Changed, Locals
<1>3. tx[t].found[c] # NoCode
  BY <1>2 DEF Outcome
<1> QED BY <1>1, <1>2, <1>3 DEF Outcome, BulkHeld

LEMMA UpdateClaimCodeStatusesInv ==
  ASSUME IInv, NEW t \in Tx, UpdateClaimCodeStatuses(t)
  PROVE  IInv'
<1>1. CASE Rollback(t)
  BY <1>1, RollbackInv
<1>2. CASE /\ claim' = [c \in Codes |->
                IF c \in Changed(t) THEN [claim[c] EXCEPT !.isActive = tx[t].target]
                ELSE claim[c]]
           /\ EndTransaction(t)
           /\ UNCHANGED <<points, enrolled, action, event>>
  <2>1. Changed(t) \in SUBSET Codes /\ tx[t].target \in BOOLEAN
    BY DEF IInv, TypeOK, Locals, Changed
  <2>2. \A c \in Changed(t) : claim[c] # NoCode /\ ~claim[c].isUsed /\ claimLock[c] \in {None, t}
    BY ChangedAreFound
  <2>3. StatusesSet(Changed(t), tx[t].target)
    BY <1>2 DEF StatusesSet
  <2> QED BY <1>2, <2>1, <2>2, <2>3, StatusesInv
<1> QED BY <1>1, <1>2 DEF UpdateClaimCodeStatuses

-----------------------------------------------------------------------------
(* Steps of no transaction.                                                 *)

\* Nothing that redemptions and codes count on is touched.
LEMMA CatalogueInv ==
  ASSUME IInv, UNCHANGED <<points, claim, event, locks, pc, tx>>,
         enrolled' \in [Users -> BOOLEAN],
         action' \in [Actions -> Action \union {NoAction}],
         \A a \in Actions : action'[a] # NoAction /\ action'[a].isCodeActive => action'[a].hasCode,
         \A a \in Actions :
           /\ action[a] # NoAction => action'[a] # NoAction
           /\ actionLock[a] # None => action'[a] = action[a],
         \A u \in Users : userLock[u] # None => enrolled'[u] = enrolled[u]
  PROVE  IInv'
<1>1. TablesTypeOK'
  BY DEF IInv, TypeOK, TablesTypeOK
<1>2. RowsInv'
  BY DEF IInv, TypeOK, ClaimCode, RowsInv, UsedInactive, ActivitiesExist, RedeemedOnce,
         CodesPayOnce, Existing
<1>3. ASSUME NEW s \in Tx PROVE RowsFor(s)
  <2>1. IndexHeld(s)
    BY DEF IInv, TxInv
  <2> QED BY <2>1, NoneAssumption DEF RowsFor, IndexHeld, Redeemed, Existing
<1> QED BY <1>1, <1>2, <1>3, OutsideInv

LEMMA CreateActionInv ==
  ASSUME IInv, NEW a \in Actions, CreateAction(a)
  PROVE  IInv'
<1>1. PICK row \in Action : row.isCodeActive = row.hasCode /\ action' = [action EXCEPT ![a] = row]
  BY DEF CreateAction
<1>2. row # NoAction /\ \A t \in Tx : actionLock[a] # t
  BY NullAssumption DEF CreateAction, IInv, TypeOK, TxInv, LocksOwned, ArgumentsKnown, Granted
<1>3. actionLock[a] = None
  BY <1>2 DEF IInv, TypeOK
<1>4. action \in [Actions -> Action \union {NoAction}]
  BY DEF IInv, TypeOK
<1>5. UNCHANGED <<points, enrolled, claim, event, locks, pc, tx>>
  BY DEF CreateAction
<1> QED
  BY <1>1, <1>2, <1>3, <1>4, <1>5, CatalogueInv DEF IInv, TypeOK

\* An update leaves no activity with an active code and no code.
LEMMA RecodedRow ==
  ASSUME NEW row \in Action, row.isCodeActive => row.hasCode, NEW new \in Recoded(row)
  PROVE  /\ new.hasCode \in BOOLEAN /\ new.isCodeActive \in BOOLEAN
         /\ new.isCodeActive => new.hasCode
<1>1. PICK code \in {"undefined", "null", "given"}, active \in {"undefined", "true", "false"} :
        new = [hasCode |-> code = "given" \/ (code = "undefined" /\ row.hasCode),
               isCodeActive |-> CodeActive(row, code, active)]
  BY DEF Recoded
<1>2. row.hasCode \in BOOLEAN /\ row.isCodeActive \in BOOLEAN
  BY DEF Action
<1>3. /\ new.hasCode = (code = "given" \/ (code = "undefined" /\ row.hasCode))
      /\ new.isCodeActive = CodeActive(row, code, active)
  BY <1>1
<1>4. CASE code = "null"
  <2>1. CodeActive(row, code, active) = FALSE
    BY <1>4 DEF CodeActive
  <2> QED BY <1>2, <1>3, <2>1
<1>5. CASE code = "given"
  <2>1. CodeActive(row, code, active) \in BOOLEAN
    BY <1>2, <1>5 DEF CodeActive
  <2> QED BY <1>3, <1>5, <2>1
<1>6. CASE code = "undefined"
  <2>1. /\ CodeActive(row, code, active) \in BOOLEAN
        /\ CodeActive(row, code, active) => row.hasCode
    BY <1>2, <1>6 DEF CodeActive
  <2> QED BY <1>2, <1>3, <1>6, <2>1
<1> QED BY <1>4, <1>5, <1>6

LEMMA UpdateActionInv ==
  ASSUME IInv, NEW a \in Actions, UpdateAction(a)
  PROVE  IInv'
<1>1. /\ action[a] \in Action /\ (action[a].isCodeActive => action[a].hasCode)
      /\ actionLock[a] = None /\ action \in [Actions -> Action \union {NoAction}]
      /\ UNCHANGED <<points, enrolled, claim, event, locks, pc, tx>>
  BY DEF UpdateAction, IInv, TypeOK
<1>2. PICK worth \in Worths, isQuestion \in BOOLEAN, isActive \in BOOLEAN,
           new \in Recoded(action[a]) :
        action' = [action EXCEPT ![a] =
          [points |-> worth, isQuestion |-> isQuestion, isActive |-> isActive,
           hasCode |-> new.hasCode, isCodeActive |-> new.isCodeActive]]
  BY DEF UpdateAction
<1>3. /\ new.hasCode \in BOOLEAN /\ new.isCodeActive \in BOOLEAN
      /\ new.isCodeActive => new.hasCode
  BY <1>1, RecodedRow
<1> DEFINE next == [points |-> worth, isQuestion |-> isQuestion, isActive |-> isActive,
                    hasCode |-> new.hasCode, isCodeActive |-> new.isCodeActive]
<1>4. next \in Action /\ (next.isCodeActive => next.hasCode)
  BY <1>3 DEF Action
<1>5. next # NoAction
  BY <1>4, NullAssumption
<1>6. action' = [action EXCEPT ![a] = next]
  BY <1>2
<1> HIDE DEF next
<1>7. \A b \in Actions : action'[b] # NoAction /\ action'[b].isCodeActive => action'[b].hasCode
  BY <1>1, <1>4, <1>6 DEF IInv, TypeOK
<1> QED
  BY <1>1, <1>4, <1>5, <1>6, <1>7, CatalogueInv DEF IInv, TypeOK

LEMMA UpdateParticipantStatusInv ==
  ASSUME IInv, NEW u \in Users, UpdateParticipantStatus(u)
  PROVE  IInv'
BY CatalogueInv DEF UpdateParticipantStatus, IInv, TypeOK

LEMMA GenerateBatchInv ==
  ASSUME IInv, NEW a \in Actions, NEW codes \in SUBSET Codes, GenerateBatch(a, codes)
  PROVE  IInv'
<1> DEFINE row == [action |-> a, isUsed |-> FALSE, isActive |-> TRUE, usedBy |-> None]
<1>1. /\ action[a] # NoAction /\ \A c \in codes : claim[c] = NoCode
      /\ claim' = [c \in Codes |-> IF c \in codes THEN row ELSE claim[c]]
      /\ UNCHANGED <<points, enrolled, action, event, locks, pc, tx>>
      /\ claim \in [Codes -> ClaimCode \union {NoCode}]
  BY DEF GenerateBatch, IInv, TypeOK
<1>2. row \in ClaimCode /\ ~row.isUsed /\ row.action = a
  BY DEF ClaimCode
<1>3. row # NoCode
  BY <1>2, NullAssumption
<1> HIDE DEF row
<1>4. TablesTypeOK'
  BY <1>1, <1>2 DEF IInv, TypeOK, TablesTypeOK
<1>5. UsedInactive' /\ ActivitiesExist' /\ RedeemedOnce'
  BY <1>1, <1>2, <1>3 DEF IInv, UsedInactive, ActivitiesExist, RedeemedOnce, Existing
<1>6. CodesPayOnce'
  <2>1. ASSUME NEW c \in Codes PROVE PaysOnce(c)'
    <3>1. PaysOnce(c) /\ Paid(c)' = Paid(c)
      BY <1>1, PaysOncePerCode DEF IInv, Paid, Existing
    <3> QED BY <1>1, <1>2, <3>1 DEF PaysOnce
  <2> QED BY <2>1 DEF CodesPayOnce, PaysOnce, Paid
<1>7. ASSUME NEW s \in Tx PROVE RowsFor(s)
  <2>1. TxInv(s)
    BY DEF IInv
  <2>2. \A c \in Codes : claimLock[c] = s => claim[c] # NoCode
    BY <2>1 DEF TxInv, LocksOwned, ArgumentsKnown, BulkHeld
  <2> QED BY <1>1, <1>3, <2>1, <2>2 DEF TxInv, RowsFor, IndexHeld, Redeemed, Existing
<1> QED BY <1>1, <1>4, <1>5, <1>6, <1>7, OutsideInv DEF RowsInv

-----------------------------------------------------------------------------
(* The theorems.                                                           *)

LEMMA InitInv == Init => IInv
<1> SUFFICES ASSUME Init PROVE IInv
  OBVIOUS
<1>1. TypeOK
  BY BlankLocals DEF Init, TypeOK, Action
<1>2. ASSUME NEW t \in Tx PROVE TxInv(t)
  BY BlankLocals, NoneAssumption
  DEF Init, TxInv, ArgumentsKnown, CodeHeld, GrantHeld, BulkHeld, LocksOwned, IndexHeld,
      Entered, Granted
<1>3. UsedInactive /\ ActivitiesExist /\ RedeemedOnce /\ CodesPayOnce
  BY DEF Init, UsedInactive, ActivitiesExist, RedeemedOnce, CodesPayOnce, Existing
<1> QED BY <1>1, <1>2, <1>3 DEF IInv

LEMMA StatementInv ==
  ASSUME IInv, NEW t \in Tx, Statement(t)
  PROVE  IInv'
BY FindActionInv, FindClaimCodeInv, ConsumeClaimCodeInv, CreatePointEventInv, LockActionInv,
   LockParticipantInv, FindCodeByIdInv, UpdateClaimCodeStatusInv, LockClaimCodesInv,
   UpdateClaimCodeStatusesInv, IncrementUserProgressInv, CreateGrantInv
DEF Statement

LEMMA NextInv == IInv /\ [Next]_vars => IInv'
<1> SUFFICES ASSUME IInv, [Next]_vars PROVE IInv'
  OBVIOUS
<1>1. CASE UNCHANGED vars
  <2>1. UNCHANGED tables /\ UNCHANGED <<locks, pc, tx>>
    BY <1>1 DEF vars
  <2> QED BY <2>1, RowsKept, OutsideInv
<1>2. ASSUME NEW t \in Tx, NEW u \in Users, NEW a \in Actions,
             \/ BeginRedeem(t, u, a, "DIRECT") \/ BeginRedeem(t, u, a, "REUSABLE_CODE")
             \/ BeginGrant(t, u, a)
      PROVE  IInv'
  BY <1>2, BeginRedeemInv, BeginGrantInv
<1>3. ASSUME NEW t \in Tx, NEW u \in Users, NEW c \in Codes, BeginRedeemClaimCode(t, u, c)
      PROVE  IInv'
  BY <1>3, BeginRedeemClaimCodeInv
<1>4. ASSUME NEW t \in Tx, NEW c \in Codes, NEW target \in BOOLEAN,
             BeginUpdateStatus(t, c, target)
      PROVE  IInv'
  BY <1>4, BeginUpdateStatusInv
<1>5. ASSUME NEW t \in Tx, NEW codes \in SUBSET Codes, NEW target \in BOOLEAN,
             BeginBulk(t, codes, target)
      PROVE  IInv'
  BY <1>5, BeginBulkInv
<1>6. ASSUME NEW t \in Tx, Abort(t) PROVE IInv'
  BY <1>6, RollbackInv DEF Abort
<1>7. ASSUME NEW a \in Actions, CreateAction(a) \/ UpdateAction(a) PROVE IInv'
  BY <1>7, CreateActionInv, UpdateActionInv
<1>8. ASSUME NEW a \in Actions, NEW codes \in SUBSET Codes, GenerateBatch(a, codes)
      PROVE  IInv'
  BY <1>8, GenerateBatchInv
<1>9. ASSUME NEW u \in Users, UpdateParticipantStatus(u) PROVE IInv'
  BY <1>9, UpdateParticipantStatusInv
<1> QED
  BY <1>1, <1>2, <1>3, <1>4, <1>5, <1>6, <1>7, <1>8, <1>9, StatementInv DEF Next

\* The inductive invariant holds in every state the API can be in.
THEOREM Invariance == Spec => []IInv
BY InitInv, NextInv, PTL DEF Spec

\* Every variable keeps its type, and an activity without a reusable code has no
\* active one.
THEOREM TypeCorrect == Spec => []TypeOK
<1>1. IInv => TypeOK
  BY DEF IInv
<1> QED BY <1>1, Invariance, PTL

\* However redemptions, grants and status changes interleave, no participant gets
\* the points of an activity twice and no single-use code is paid twice.
THEOREM NobodyIsPaidTwice == Spec => []PaidOnce
<1>1. IInv => PaidOnce
  BY DEF IInv, PaidOnce
<1> QED BY <1>1, Invariance, PTL

\* A step changes no code that has been used.
LEMMA UsedCodeKept ==
  ASSUME IInv, Next, NEW c \in Codes, claim[c] # NoCode, claim[c].isUsed
  PROVE  claim'[c] = claim[c]
<1>1. claim \in [Codes -> ClaimCode \union {NoCode}]
  BY DEF IInv, TypeOK
<1>2. ASSUME NEW t \in Tx, Rollback(t) \/ UNCHANGED tables PROVE claim'[c] = claim[c]
  BY <1>2 DEF Rollback, tables
<1>3. ASSUME NEW t \in Tx, Statement(t) PROVE claim'[c] = claim[c]
  <2>1. CASE \/ FindAction(t) \/ FindClaimCode(t) \/ ConsumeClaimCode(t) \/ CreatePointEvent(t)
             \/ LockAction(t) \/ LockParticipant(t) \/ FindCodeById(t) \/ LockClaimCodes(t)
    BY <1>2, <2>1
    DEF FindAction, FindClaimCode, ConsumeClaimCode, CreatePointEvent, LockAction,
        LockParticipant, FindCodeById, LockClaimCodes, tables
  <2>2. CASE UpdateClaimCodeStatus(t)
    <3>1. PICK d \in tx[t].codes :
            \/ Rollback(t)
            \/ /\ Changeable(claim[d], tx[t].target)
               /\ claim' = [claim EXCEPT ![d].isActive = tx[t].target]
      BY <2>2 DEF UpdateClaimCodeStatus
    <3>2. Changeable(claim[d], tx[t].target) => d # c
      BY DEF Changeable
    <3> QED BY <1>1, <1>2, <3>1, <3>2
  <2>3. CASE UpdateClaimCodeStatuses(t)
    <3>1. c \notin Changed(t)
      BY ChangedAreFound
    <3> QED BY <1>2, <2>3, <3>1 DEF UpdateClaimCodeStatuses
  <2>4. ASSUME NEW e \in Events, IncrementUserProgress(t, e) PROVE claim'[c] = claim[c]
    <3>1. tx[t].code # c
      <4>1. TxInv(t) /\ pc[t] = "incrementUserProgress"
        BY <2>4 DEF IInv, IncrementUserProgress
      <4> QED
        BY <4>1, NoneAssumption DEF TxInv, ArgumentsKnown, CodeHeld, Consumable, Entered
    <3> QED BY <2>4, <3>1 DEF IncrementUserProgress
  <2>5. ASSUME NEW e \in Events, CreateGrant(t, e) PROVE claim'[c] = claim[c]
    BY <1>2, <2>5 DEF CreateGrant
  <2> QED BY <1>3, <2>1, <2>2, <2>3, <2>4, <2>5 DEF Statement
<1>4. ASSUME NEW a \in Actions, CreateAction(a) \/ UpdateAction(a) PROVE claim'[c] = claim[c]
  BY <1>4 DEF CreateAction, UpdateAction
<1>5. ASSUME NEW a \in Actions, NEW codes \in SUBSET Codes, GenerateBatch(a, codes)
      PROVE  claim'[c] = claim[c]
  BY <1>5 DEF GenerateBatch
<1>6. ASSUME NEW u \in Users, UpdateParticipantStatus(u) PROVE claim'[c] = claim[c]
  BY <1>6 DEF UpdateParticipantStatus
<1> QED
  BY <1>2, <1>3, <1>4, <1>5, <1>6
  DEF Next, BeginRedeem, BeginGrant, BeginRedeemClaimCode, BeginUpdateStatus, BeginBulk, Abort

\* A used code is inactive and stays exactly as it is, whichever administrators
\* change codes, one by one or in bulk, at the same time.
THEOREM UsedCodesStayUsed == Spec => UsedCodesAreFinal
<1>1. IInv /\ [Next]_vars =>
        [\A c \in Codes : claim[c] # NoCode /\ claim[c].isUsed =>
           ~claim[c].isActive /\ claim'[c] = claim[c]]_vars
  BY UsedCodeKept DEF IInv, UsedInactive
<1> QED BY <1>1, Invariance, PTL DEF Spec, UsedCodesAreFinal

\* The locks of a grant make what it has read of the activity and the participant
\* still true when the event is committed.
THEOREM GrantsStayCurrent == Spec => GrantsAreCurrent
<1> DEFINE Current(t, e) ==
      CreateGrant(t, e) /\ event' # event =>
        LET row == action[event'[e].action] IN
          /\ Grantable(row)
          /\ row.points = event'[e].points
          /\ enrolled[event'[e].user]
<1>1. ASSUME IInv, NEW t \in Tx, NEW e \in Events PROVE Current(t, e)
  <2> SUFFICES ASSUME CreateGrant(t, e), event' # event PROVE Current(t, e)
    OBVIOUS
  <2>1. pc[t] = "createGrant" /\ GrantHeld(t) /\ event \in [Events -> PointEvent \union {NoEvent}]
    BY <1>1 DEF CreateGrant, IInv, TxInv, TypeOK
  <2>2. Reward(e, tx[t].user, tx[t].action, tx[t].points, None)
    BY DEF CreateGrant, Rollback, tables
  <2>3. /\ event'[e].user = tx[t].user /\ event'[e].action = tx[t].action
        /\ event'[e].points = tx[t].points
    BY <2>1, <2>2 DEF Reward
  <2> QED BY <2>1, <2>3 DEF GrantHeld, Granted
<1>2. IInv /\ [Next]_vars => [\A t \in Tx, e \in Events : Current(t, e)]_vars
  <2> HIDE DEF Current
  <2> QED BY <1>1
<1> QED BY <1>2, Invariance, PTL DEF Spec, GrantsAreCurrent

\* What the bulk operation has found says what it records.
LEMMA Outcomes ==
  ASSUME NEW t \in Tx, NEW c \in Codes, tx[t] \in Locals
  PROVE  LET row == tx[t].found[c] IN
           /\ Outcome(t, c) = "CHANGED" <=>
                row # NoCode /\ ~row.isUsed /\ row.isActive # tx[t].target
           /\ Outcome(t, c) = "ALREADY_IN_STATE" =>
                row # NoCode /\ ~row.isUsed /\ row.isActive = tx[t].target
           /\ Outcome(t, c) = "ALREADY_USED" => row # NoCode /\ row.isUsed
BY DEF Outcome

\* A bulk operation records of each code what it did to it.
THEOREM BulkReportsStayTrue == Spec => BulkReportsAreTrue
<1> DEFINE True(t, c) ==
      LET outcome == Outcome(t, c) IN
        /\ outcome = "CHANGED" <=> claim'[c] # claim[c]
        /\ outcome \in {"CHANGED", "ALREADY_IN_STATE"} =>
             ~claim'[c].isUsed /\ claim'[c].isActive = tx[t].target
        /\ outcome = "ALREADY_USED" => claim'[c].isUsed
<1>1. ASSUME IInv, NEW t \in Tx, UpdateClaimCodeStatuses(t), AllChangeable(t),
             NEW c \in tx[t].codes
      PROVE  True(t, c)
  <2>1. /\ tx[t] \in Locals /\ BulkHeld(t) /\ c \in Codes
        /\ claim \in [Codes -> ClaimCode \union {NoCode}]
    BY <1>1 DEF IInv, TypeOK, TxInv, Locals
  <2>2. claim'[c] = IF c \in Changed(t) THEN [claim[c] EXCEPT !.isActive = tx[t].target]
                    ELSE claim[c]
    BY <1>1, <2>1 DEF UpdateClaimCodeStatuses
  <2>3. c \in Changed(t) <=> Outcome(t, c) = "CHANGED"
    BY <1>1 DEF Changed
  <2>4. tx[t].found[c] # NoCode => tx[t].found[c] = claim[c] /\ claim[c] \in ClaimCode
    BY <2>1 DEF BulkHeld
  <2>5. CASE c \in Changed(t)
    <3>1. /\ ~claim[c].isUsed /\ claim[c].isActive # tx[t].target /\ claim[c] \in ClaimCode
      BY <2>1, <2>3, <2>4, <2>5, Outcomes
    <3>2. ~claim'[c].isUsed /\ claim'[c].isActive = tx[t].target
      BY <2>2, <2>5, <3>1 DEF ClaimCode
    <3> QED BY <2>3, <2>5, <3>1, <3>2
  <2>6. CASE c \notin Changed(t)
    BY <2>1, <2>2, <2>3, <2>4, <2>6, Outcomes
  <2> QED BY <2>5, <2>6
<1>2. IInv /\ [Next]_vars =>
        [\A t \in Tx : UpdateClaimCodeStatuses(t) /\ AllChangeable(t) =>
           \A c \in tx[t].codes : True(t, c)]_vars
  <2> HIDE DEF True
  <2> QED BY <1>1
<1> QED BY <1>2, Invariance, PTL DEF Spec, BulkReportsAreTrue

-----------------------------------------------------------------------------
(* Deadlock: the circles of transactions that wait for each other.         *)

Circle(S) == \A t \in S : \E s \in S : WaitsFor(t, s)

\* A grant and a redemption of its activity that has entered the index.
GrantAndRedemption(S) ==
  \E g, r \in S : /\ pc[g] \in {"lockParticipant", "createGrant"}
                  /\ pc[r] = "incrementUserProgress"
                  /\ tx[g].action = tx[r].action

LEMMA EnteredWaits ==
  ASSUME IInv, NEW S \in SUBSET Tx, Circle(S), NEW t \in S,
         Entered(t) \/ pc[t] = "createGrant"
  PROVE  GrantAndRedemption(S)
<1>1. ASSUME NEW r \in S, pc[r] = "incrementUserProgress" PROVE GrantAndRedemption(S)
  <2>1. PICK s \in S : s \in {actionLock[tx[r].action], userLock[tx[r].user]}
    BY <1>1 DEF Circle, WaitsFor
  <2>2. LocksOwned(s) /\ tx[r].action \in Actions /\ tx[r].user \in Users
    BY <1>1 DEF IInv, TxInv, ArgumentsKnown, Entered
  <2>3. CASE actionLock[tx[r].action] = s
    BY <1>1, <2>2, <2>3 DEF LocksOwned, Granted, GrantAndRedemption
  <2>4. CASE userLock[tx[r].user] = s
    <3>1. pc[s] = "createGrant"
      BY <2>2, <2>4 DEF LocksOwned
    <3>2. PICK q \in S : q \in Redeemers(tx[s].user, tx[s].action)
      BY <3>1 DEF Circle, WaitsFor
    <3> QED BY <3>1, <3>2 DEF Redeemers, GrantAndRedemption
  <2> QED BY <2>1, <2>3, <2>4
<1>2. CASE pc[t] \in {"createPointEvent", "createGrant"}
  <2>1. PICK s \in S : s \in Redeemers(tx[t].user, tx[t].action)
    BY <1>2 DEF Circle, WaitsFor
  <2> QED BY <1>1, <2>1 DEF Redeemers
<1> QED BY <1>1, <1>2 DEF Entered

\* Whoever is waited for because of a code is a redemption, or a bulk operation
\* that holds the code and waits for a code that comes after it.
LEMMA HolderWaits ==
  ASSUME IInv, NEW S \in SUBSET Tx, Circle(S), ~GrantAndRedemption(S),
         NEW s \in S, NEW c \in Codes, claimLock[c] = s
  PROVE  /\ pc[s] = "lockClaimCodes"
         /\ \A d \in tx[s].waiting : <<c, d>> \in Precedes
<1>1. LocksOwned(s) /\ BulkHeld(s) /\ ~Entered(s)
  BY EnteredWaits DEF IInv, TxInv
<1>2. Bulk(s) /\ \A d \in tx[s].waiting : <<c, d>> \in Precedes
  BY <1>1 DEF LocksOwned, BulkHeld
<1>3. pc[s] # "updateClaimCodeStatuses"
  BY DEF Circle, WaitsFor
<1> QED BY <1>2, <1>3 DEF Bulk

\* In a circle without such a grant some bulk operation waits.
LEMMA BulkWaits ==
  ASSUME IInv, NEW S \in (SUBSET Tx) \ {{}}, Circle(S), ~GrantAndRedemption(S)
  PROVE  \E t \in S : pc[t] = "lockClaimCodes"
<1>1. \A t \in S : ~Entered(t) /\ pc[t] # "createGrant"
  BY EnteredWaits
<1>2. \A t \in S : ~Granted(t)
  <2> SUFFICES ASSUME NEW t \in S, pc[t] = "lockParticipant" PROVE FALSE
    BY <1>1 DEF Granted
  <2>1. PICK s \in S : userLock[tx[t].user] = s \/ s \in Sharers(tx[t].user)
    BY DEF Circle, WaitsFor
  <2>2. LocksOwned(s) /\ tx[t].user \in Users
    BY DEF IInv, TxInv, ArgumentsKnown
  <2> QED BY <1>1, <2>1, <2>2 DEF LocksOwned, Sharers, Entered
<1>3. PICK t \in S : TRUE
  OBVIOUS
<1>4. PICK s \in S : WaitsFor(t, s)
  BY DEF Circle
<1>5. TxInv(t) /\ LocksOwned(s) /\ tx[t] \in Locals
  BY DEF IInv, TxInv, TypeOK
<1>6. CASE pc[t] = "consumeClaimCode"
  <2>1. tx[t].user \in Users /\ tx[t].code \in Codes
    BY <1>5, <1>6 DEF TxInv, ArgumentsKnown
  <2>2. userLock[tx[t].user] # s
    BY <1>1, <1>5, <2>1 DEF LocksOwned
  <2> QED BY <1>4, <1>6, <2>1, <2>2, HolderWaits DEF WaitsFor
<1>7. CASE pc[t] = "updateClaimCodeStatus"
  BY <1>4, <1>5, <1>7, HolderWaits DEF WaitsFor, Locals
<1>8. pc[t] # "lockAction"
  <2> SUFFICES ASSUME pc[t] = "lockAction" PROVE FALSE
    OBVIOUS
  <2>1. actionLock[tx[t].action] = s /\ tx[t].action \in Actions
    BY <1>4, <1>5 DEF WaitsFor, TxInv, ArgumentsKnown
  <2> QED BY <1>2, <1>5, <2>1 DEF LocksOwned
<1> QED BY <1>1, <1>2, <1>4, <1>6, <1>7, <1>8 DEF WaitsFor, Entered, Granted

LEMMA CirclesHaveGrants == IInv => OnlyGrantsDeadlock
<1> SUFFICES ASSUME IInv, NEW S \in (SUBSET Tx) \ {{}}, Circle(S) PROVE GrantAndRedemption(S)
  BY DEF OnlyGrantsDeadlock, Circle, GrantAndRedemption
<1> SUFFICES ASSUME ~GrantAndRedemption(S) PROVE FALSE
  OBVIOUS
<1> DEFINE Awaited(c, t) == pc[t] = "lockClaimCodes" /\ c \in tx[t].waiting /\ claimLock[c] \in S
           awaited == {c \in Codes : \E t \in S : Awaited(c, t)}
<1>1. ASSUME NEW t \in S, pc[t] = "lockClaimCodes" PROVE \E c \in Codes : Awaited(c, t)
  <2>1. tx[t].waiting \subseteq Codes
    BY DEF IInv, TypeOK, Locals
  <2>2. \E c \in FirstOf(tx[t].waiting) : claimLock[c] \in S
    BY <1>1 DEF Circle, WaitsFor
  <2> QED BY <1>1, <2>1, <2>2 DEF FirstOf
<1>2. awaited \in (SUBSET Codes) \ {{}}
  BY <1>1, BulkWaits
<1>3. PICK last \in awaited : \A c \in awaited \ {last} : <<c, last>> \in Precedes
  BY <1>2, LastAssumption
<1>4. PICK t \in S : Awaited(last, t)
  OBVIOUS
<1>5. PICK s \in S : claimLock[last] = s
  BY <1>4
<1>6. pc[s] = "lockClaimCodes" /\ \A d \in tx[s].waiting : <<last, d>> \in Precedes
  BY <1>5, HolderWaits
<1>7. PICK d \in Codes : Awaited(d, s)
  BY <1>1, <1>6
<1>8. d \in awaited /\ <<last, d>> \in Precedes
  BY <1>6, <1>7
<1> QED BY <1>3, <1>8, PrecedesAssumption

\* Whatever transactions wait for each other in a circle, one of them is a grant
\* that has locked its activity and another a redemption of that activity that has
\* entered the unique index: single-use codes alone never close a circle.
THEOREM DeadlocksAreOfGrants == Spec => []OnlyGrantsDeadlock
BY CirclesHaveGrants, Invariance, PTL
=============================================================================
