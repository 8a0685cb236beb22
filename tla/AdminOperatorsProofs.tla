------------------------- MODULE AdminOperatorsProofs -------------------------
(***************************************************************************)
(* Theorems of AdminOperators.tla, for any set of operators, of activation *)
(* codes and of concurrent transactions.                                   *)
(*                                                                         *)
(* That the listed generals stay available, and that an operator has one   *)
(* pending code, are not inductive by themselves: a transaction between    *)
(* two statements counts on the rows it has locked and on codes that       *)
(* nobody else was given.  IInv says what each of them may count on.       *)
(***************************************************************************)
EXTENDS AdminOperators, TLAPS

Changing == {"lockAvailableGenerals", "lockGeneral", "lockOperator", "updateOperator"}

\* A transaction that will create an operator, or issue a code.
Creating(t) == pc[t] = "createOperator"
Issuing(t) == Creating(t) \/ (pc[t] \in Changing /\ tx[t].change = "RESET")

\* The arguments of a transaction are rows that exist, or that do not exist yet.
ArgumentsKnown(t) ==
  /\ pc[t] = "idle" => tx[t] = NoLocals
  /\ pc[t] # "idle" => tx[t].operator \in Operators
  /\ Creating(t) => tx[t].change \in Profiles /\ user[tx[t].operator] = NoUser
  /\ pc[t] \in Changing => tx[t].change \in Changes /\ user[tx[t].operator] # NoUser
  /\ Issuing(t) => tx[t].code \in Codes /\ activation[tx[t].code] = NoActivation
  /\ pc[t] = "consumeActivation" =>
       /\ tx[t].code \in Codes
       /\ activation[tx[t].code] # NoActivation
       /\ tx[t].operator = activation[tx[t].code].operator

\* The generals it lists are locked and available; past lockOperator it holds the
\* operator, who is not the only general of the list if the change removes one.
GeneralsHeld(t) ==
  /\ \A o \in tx[t].generals : userLock[o] = t /\ IsAvailableGeneral(o)
  /\ pc[t] = "updateOperator" =>
       userLock[tx[t].operator] = t /\ ~IsLastGeneral(t, tx[t].operator)

\* No two transactions were given the same new operator or the same new code.
ArgumentsDiffer ==
  \A s, t \in Tx :
    /\ Creating(s) /\ Creating(t) /\ tx[s].operator = tx[t].operator => s = t
    /\ Issuing(s) /\ Issuing(t) /\ tx[s].code = tx[t].code => s = t

\* A code points at an operator who exists (the foreign key).
OwnersExist ==
  \A c \in Codes : activation[c] # NoActivation => user[activation[c].operator] # NoUser

IInv ==
  /\ TypeOK
  /\ \A t \in Tx : ArgumentsKnown(t) /\ GeneralsHeld(t)
  /\ ArgumentsDiffer
  /\ OwnersExist
  /\ OnePendingCode
USE DEF Changing

-----------------------------------------------------------------------------
(* Frames: what a step leaves to a transaction that does not take it.       *)

\* Transaction s keeps its place, what it knows and its locks; the rows it has
\* locked, and those that only it may create, are as they were.
Keeps(s) ==
  /\ pc'[s] = pc[s]
  /\ tx'[s] = tx[s]
  /\ \A o \in Operators :
       /\ userLock[o] = s => userLock'[o] = s
       /\ userLock[o] = s /\ user[o] # NoUser => user'[o] = user[o]
       /\ user[o] # NoUser => user'[o] # NoUser
  /\ \A c \in Codes :
       activation[c] # NoActivation =>
         activation'[c] # NoActivation /\ activation'[c].operator = activation[c].operator
  /\ Creating(s) => user'[tx[s].operator] = user[tx[s].operator]
  /\ Issuing(s) => activation'[tx[s].code] = activation[tx[s].code]

ProtocolTypeOK ==
  /\ userLock \in [Operators -> Tx \union {None}]
  /\ pc \in [Tx -> Statements \union {"idle"}]
  /\ tx \in [Tx -> Locals]

LEMMA OthersKept ==
  ASSUME IInv, NEW s \in Tx, Keeps(s)
  PROVE  (ArgumentsKnown(s) /\ GeneralsHeld(s))'
<1>1. ArgumentsKnown(s) /\ GeneralsHeld(s) /\ tx[s] \in Locals
  BY DEF IInv, TypeOK
<1>2. tx[s].generals \subseteq Operators
  BY <1>1 DEF Locals
<1>3. ArgumentsKnown(s)'
  BY <1>1 DEF Keeps, ArgumentsKnown, Creating, Issuing
<1>4. ASSUME NEW o \in tx[s].generals
      PROVE  userLock'[o] = s /\ IsAvailableGeneral(o)'
  BY <1>1, <1>2 DEF GeneralsHeld, Keeps, IsAvailableGeneral
<1>5. ASSUME pc[s] = "updateOperator"
      PROVE  userLock'[tx[s].operator] = s /\ ~IsLastGeneral(s, tx[s].operator)'
  BY <1>1, <1>5 DEF GeneralsHeld, ArgumentsKnown, Keeps, IsLastGeneral, IsAvailableGeneral
<1> QED
  BY <1>3, <1>4, <1>5 DEF GeneralsHeld, Keeps

\* Ending a transaction keeps the types and leaves the other transactions alone.
LEMMA EndFrame ==
  ASSUME TypeOK, NEW t \in Tx, EndTransaction(t)
  PROVE  /\ ProtocolTypeOK'
         /\ pc'[t] = "idle" /\ tx'[t] = NoLocals
         /\ \A s \in Tx \ {t} :
              /\ pc'[s] = pc[s] /\ tx'[s] = tx[s]
              /\ \A o \in Operators : userLock[o] = s => userLock'[o] = s
<1>1. NoLocals \in Locals
  BY DEF NoLocals, Locals
<1>2. pc' \in [Tx -> Statements \union {"idle"}] /\ tx' \in [Tx -> Locals]
  BY <1>1 DEF EndTransaction, TypeOK
<1>3. userLock' \in [Operators -> Tx \union {None}]
  BY DEF EndTransaction, TypeOK
<1> QED
  BY <1>2, <1>3, NoneAssumption DEF ProtocolTypeOK, EndTransaction, TypeOK

\* A transaction at rest counts on nothing.
LEMMA IdleInv ==
  ASSUME NEW t \in Tx, pc'[t] = "idle", tx'[t] = NoLocals
  PROVE  (ArgumentsKnown(t) /\ GeneralsHeld(t))'
BY DEF ArgumentsKnown, GeneralsHeld, Creating, Issuing, NoLocals

\* No step makes two transactions share an argument if those that are to create
\* or to issue had the same arguments before.
LEMMA StillDiffer ==
  ASSUME ArgumentsDiffer,
         \A s \in Tx :
           /\ Creating(s)' => Creating(s) /\ tx'[s].operator = tx[s].operator
           /\ Issuing(s)' => Issuing(s) /\ tx'[s].code = tx[s].code
  PROVE  ArgumentsDiffer'
BY DEF ArgumentsDiffer, Creating, Issuing

\* A step that leaves the rows alone keeps what they say.
LEMMA RowsKept ==
  ASSUME IInv, UNCHANGED <<asked, tables>>
  PROVE  /\ OwnersExist' /\ OnePendingCode'
         /\ ProtocolTypeOK' => TypeOK'
BY DEF IInv, TypeOK, ProtocolTypeOK, OwnersExist, OnePendingCode, tables

\* A step of transaction t that leaves the rows alone: what remains to be shown.
LEMMA StepInv ==
  ASSUME IInv, NEW t \in Tx, UNCHANGED <<asked, tables>>, ProtocolTypeOK',
         \A s \in Tx \ {t} :
           /\ pc'[s] = pc[s] /\ tx'[s] = tx[s]
           /\ \A o \in Operators : userLock[o] = s => userLock'[o] = s,
         (ArgumentsKnown(t) /\ GeneralsHeld(t))',
         ArgumentsDiffer'
  PROVE  IInv'
<1>1. ASSUME NEW s \in Tx \ {t}
      PROVE  Keeps(s)
  BY <1>1 DEF Keeps, tables
<1>2. \A s \in Tx : (ArgumentsKnown(s) /\ GeneralsHeld(s))'
  BY <1>1, OthersKept
<1> QED
  BY <1>2, RowsKept DEF IInv

LEMMA RollbackInv ==
  ASSUME IInv, NEW t \in Tx, Rollback(t), UNCHANGED asked
  PROVE  IInv'
<1>1. /\ ProtocolTypeOK'
      /\ pc'[t] = "idle" /\ tx'[t] = NoLocals
      /\ \A s \in Tx \ {t} :
           /\ pc'[s] = pc[s] /\ tx'[s] = tx[s]
           /\ \A o \in Operators : userLock[o] = s => userLock'[o] = s
  BY EndFrame DEF Rollback, IInv
<1>2. (ArgumentsKnown(t) /\ GeneralsHeld(t))'
  BY <1>1, IdleInv
<1>3. ArgumentsDiffer'
  BY <1>1, StillDiffer DEF IInv, Creating, Issuing
<1> QED
  BY <1>1, <1>2, <1>3, StepInv DEF Rollback
-----------------------------------------------------------------------------
(* Steps that write no row.                                                 *)

LEMMA BeginCreateInv ==
  ASSUME IInv, UNCHANGED asked, NEW t \in Tx, NEW a \in Operators, NEW o \in Operators,
         NEW profile \in Profiles, NEW c \in Codes, BeginCreate(t, a, o, profile, c)
  PROVE  IInv'
<1>1. /\ tx[t] = NoLocals /\ tx \in [Tx -> Locals] /\ pc \in [Tx -> Statements \union {"idle"}]
      /\ activation[c] = NoActivation /\ user[o] = NoUser
  BY DEF BeginCreate, Fresh, IInv, TypeOK, ArgumentsKnown
<1>2. tx'[t] = [NoLocals EXCEPT !.actor = a, !.operator = o, !.change = profile, !.code = c]
  BY <1>1 DEF BeginCreate, Learn
<1>3. /\ tx'[t] \in Locals /\ tx'[t].operator = o /\ tx'[t].change = profile
      /\ tx'[t].code = c /\ tx'[t].generals = {}
  BY <1>2 DEF NoLocals, Locals, Changes
<1>4. /\ pc'[t] = "createOperator"
      /\ \A s \in Tx \ {t} : pc'[s] = pc[s] /\ tx'[s] = tx[s]
      /\ UNCHANGED <<tables, userLock>>
  BY <1>1 DEF BeginCreate, Learn, Goto
<1>5. ProtocolTypeOK'
  BY <1>1, <1>3 DEF BeginCreate, Learn, Goto, IInv, TypeOK, ProtocolTypeOK, Statements
<1>6. (ArgumentsKnown(t) /\ GeneralsHeld(t))'
  BY <1>1, <1>3, <1>4 DEF ArgumentsKnown, GeneralsHeld, Creating, Issuing, tables
<1>7. \A s \in Tx \ {t} :
        /\ Creating(s) => tx[s].operator # o
        /\ tx[s].code # c
  BY DEF BeginCreate, Fresh, Creating
<1>8. ArgumentsDiffer'
  BY <1>3, <1>4, <1>7 DEF IInv, ArgumentsDiffer, Creating, Issuing
<1> QED
  BY <1>4, <1>5, <1>6, <1>8, StepInv

LEMMA BeginChangeInv ==
  ASSUME IInv, UNCHANGED asked, NEW t \in Tx, NEW a \in Operators, NEW o \in Operators,
         NEW change \in Changes, NEW c \in Codes \union {None}, BeginChange(t, a, o, change, c)
  PROVE  IInv'
<1>1. /\ tx[t] = NoLocals /\ tx \in [Tx -> Locals] /\ pc \in [Tx -> Statements \union {"idle"}]
      /\ user[o] # NoUser
      /\ change = "RESET" => c \in Codes /\ Fresh(c)
  BY DEF BeginChange, IInv, TypeOK, ArgumentsKnown
<1>2. tx'[t] = [NoLocals EXCEPT !.actor = a, !.operator = o, !.change = change, !.code = c]
  BY <1>1 DEF BeginChange, Learn
<1>3. /\ tx'[t] \in Locals /\ tx'[t].operator = o /\ tx'[t].change = change
      /\ tx'[t].code = c /\ tx'[t].generals = {}
  BY <1>2 DEF NoLocals, Locals
<1>4. /\ pc'[t] = "lockAvailableGenerals"
      /\ \A s \in Tx \ {t} : pc'[s] = pc[s] /\ tx'[s] = tx[s]
      /\ UNCHANGED <<tables, userLock>>
  BY <1>1 DEF BeginChange, Learn, Goto
<1>5. ProtocolTypeOK'
  BY <1>1, <1>3 DEF BeginChange, Learn, Goto, IInv, TypeOK, ProtocolTypeOK, Statements
<1>6. (ArgumentsKnown(t) /\ GeneralsHeld(t))'
  BY <1>1, <1>3, <1>4 DEF ArgumentsKnown, GeneralsHeld, Creating, Issuing, Fresh, tables
<1>7. change = "RESET" => \A s \in Tx \ {t} : tx[s].code # c
  BY <1>1 DEF Fresh
<1>8. ArgumentsDiffer'
  BY <1>3, <1>4, <1>7 DEF IInv, ArgumentsDiffer, Creating, Issuing
<1> QED
  BY <1>4, <1>5, <1>6, <1>8, StepInv

LEMMA BeginActivateInv ==
  ASSUME IInv, UNCHANGED asked, NEW t \in Tx, NEW c \in Codes, BeginActivate(t, c)
  PROVE  IInv'
<1>1. /\ tx[t] = NoLocals /\ tx \in [Tx -> Locals] /\ pc \in [Tx -> Statements \union {"idle"}]
      /\ activation[c] # NoActivation /\ activation[c] \in Activation
  BY DEF BeginActivate, IInv, TypeOK, ArgumentsKnown
<1>2. tx'[t] = [NoLocals EXCEPT !.code = c, !.read = activation[c],
                                !.operator = activation[c].operator]
  BY <1>1 DEF BeginActivate, Learn
<1>3. activation[c].operator \in Operators
  BY <1>1 DEF Activation
<1>4. /\ tx'[t] \in Locals /\ tx'[t].operator = activation[c].operator
      /\ tx'[t].code = c /\ tx'[t].generals = {}
  BY <1>1, <1>2, <1>3 DEF NoLocals, Locals
<1>5. /\ pc'[t] = "consumeActivation"
      /\ \A s \in Tx \ {t} : pc'[s] = pc[s] /\ tx'[s] = tx[s]
      /\ UNCHANGED <<tables, userLock>>
  BY <1>1 DEF BeginActivate, Learn, Goto
<1>6. ProtocolTypeOK'
  BY <1>1, <1>4 DEF BeginActivate, Learn, Goto, IInv, TypeOK, ProtocolTypeOK, Statements
<1>7. (ArgumentsKnown(t) /\ GeneralsHeld(t))'
  BY <1>1, <1>3, <1>4, <1>5 DEF ArgumentsKnown, GeneralsHeld, Creating, Issuing, tables
<1>8. ArgumentsDiffer'
  BY <1>5, StillDiffer DEF IInv, Creating, Issuing
<1> QED
  BY <1>5, <1>6, <1>7, <1>8, StepInv

LEMMA LockAvailableGeneralsInv ==
  ASSUME IInv, UNCHANGED asked, NEW t \in Tx, LockAvailableGenerals(t)
  PROVE  IInv'
<1> DEFINE next == IF AvailableGenerals = {} THEN "lockOperator" ELSE "lockGeneral"
<1>1. /\ pc[t] = "lockAvailableGenerals" /\ ArgumentsKnown(t) /\ GeneralsHeld(t)
      /\ tx[t] \in Locals /\ tx \in [Tx -> Locals] /\ pc \in [Tx -> Statements \union {"idle"}]
  BY DEF LockAvailableGenerals, IInv, TypeOK
<1>2. tx'[t] = [tx[t] EXCEPT !.waiting = AvailableGenerals] /\ pc'[t] = next
  BY <1>1 DEF LockAvailableGenerals, Learn, Goto
<1>3. /\ tx'[t] \in Locals /\ tx'[t].operator = tx[t].operator /\ tx'[t].change = tx[t].change
      /\ tx'[t].code = tx[t].code /\ tx'[t].generals = tx[t].generals
  BY <1>1, <1>2 DEF Locals, AvailableGenerals
<1>4. /\ \A s \in Tx \ {t} : pc'[s] = pc[s] /\ tx'[s] = tx[s]
      /\ UNCHANGED <<tables, userLock>>
  BY <1>1 DEF LockAvailableGenerals, Learn, Goto
<1>5. ProtocolTypeOK'
  BY <1>1, <1>3 DEF LockAvailableGenerals, Learn, Goto, IInv, TypeOK, ProtocolTypeOK, Statements
<1>6. (ArgumentsKnown(t) /\ GeneralsHeld(t))'
  BY <1>1, <1>2, <1>3, <1>4
  DEF ArgumentsKnown, GeneralsHeld, Creating, Issuing, IsAvailableGeneral, tables
<1>7. ArgumentsDiffer'
  BY <1>1, <1>2, <1>3, <1>4, StillDiffer DEF IInv, Creating, Issuing
<1> QED
  BY <1>4, <1>5, <1>6, <1>7, StepInv

LEMMA LockGeneralInv ==
  ASSUME IInv, UNCHANGED asked, NEW t \in Tx, LockGeneral(t)
  PROVE  IInv'
<1>1. /\ pc[t] = "lockGeneral" /\ ArgumentsKnown(t) /\ GeneralsHeld(t)
      /\ tx[t] \in Locals /\ tx \in [Tx -> Locals] /\ pc \in [Tx -> Statements \union {"idle"}]
      /\ userLock \in [Operators -> Tx \union {None}]
  BY DEF LockGeneral, IInv, TypeOK
<1>2. tx[t].waiting \subseteq Operators /\ tx[t].generals \subseteq Operators
  BY <1>1 DEF Locals
<1>3. PICK o \in tx[t].waiting :
        /\ Unlocked(o, t)
        /\ userLock' = [userLock EXCEPT ![o] = t]
        /\ Learn(t, [tx[t] EXCEPT
                       !.waiting = @ \ {o},
                       !.generals = IF Returned(t, o) THEN @ \union {o} ELSE @])
        /\ Goto(t, IF tx[t].waiting = {o} THEN "lockOperator" ELSE "lockGeneral")
  BY DEF LockGeneral
<1> DEFINE returned == IF Returned(t, o) THEN tx[t].generals \union {o} ELSE tx[t].generals
<1>4. /\ tx'[t] = [tx[t] EXCEPT !.waiting = @ \ {o}, !.generals = returned]
      /\ pc'[t] \in {"lockOperator", "lockGeneral"}
      /\ o \in Operators
  BY <1>1, <1>2, <1>3 DEF Learn, Goto
<1>5. returned \subseteq Operators
  BY <1>2, <1>4
<1>6. /\ tx'[t] \in Locals /\ tx'[t].operator = tx[t].operator /\ tx'[t].change = tx[t].change
      /\ tx'[t].code = tx[t].code /\ tx'[t].generals = returned
  BY <1>1, <1>4, <1>5 DEF Locals
<1>7. /\ \A s \in Tx \ {t} : pc'[s] = pc[s] /\ tx'[s] = tx[s]
      /\ UNCHANGED tables
  BY <1>1, <1>3 DEF LockGeneral, Learn, Goto
<1>8. ProtocolTypeOK'
  BY <1>1, <1>3, <1>6 DEF Learn, Goto, ProtocolTypeOK, Statements
<1>9. ASSUME NEW s \in Tx \ {t}, NEW p \in Operators, userLock[p] = s
      PROVE  userLock'[p] = s
  BY <1>1, <1>3, <1>9, NoneAssumption DEF Unlocked
<1>10. ASSUME NEW p \in returned
       PROVE  userLock'[p] = t /\ IsAvailableGeneral(p)'
  <2>1. CASE p = o /\ Returned(t, o)
    BY <1>1, <1>3, <1>4, <1>7, <2>1 DEF Returned, IsAvailableGeneral, tables
  <2>2. CASE p \in tx[t].generals
    BY <1>1, <1>2, <1>3, <1>4, <1>7, <2>2 DEF GeneralsHeld, IsAvailableGeneral, tables
  <2> QED BY <2>1, <2>2
<1>11. (ArgumentsKnown(t) /\ GeneralsHeld(t))'
  BY <1>1, <1>4, <1>6, <1>7, <1>10 DEF ArgumentsKnown, GeneralsHeld, Creating, Issuing, tables
<1>12. ArgumentsDiffer'
  BY <1>1, <1>4, <1>6, <1>7, StillDiffer DEF IInv, Creating, Issuing
<1> QED
  BY <1>7, <1>8, <1>9, <1>11, <1>12, StepInv

LEMMA LockOperatorInv ==
  ASSUME IInv, UNCHANGED asked, NEW t \in Tx, LockOperator(t)
  PROVE  IInv'
<1> DEFINE o == tx[t].operator
<1>1. /\ pc[t] = "lockOperator" /\ ArgumentsKnown(t) /\ GeneralsHeld(t) /\ o \in Operators
      /\ tx[t] \in Locals /\ tx \in [Tx -> Locals] /\ pc \in [Tx -> Statements \union {"idle"}]
      /\ userLock \in [Operators -> Tx \union {None}]
  BY DEF LockOperator, IInv, TypeOK, ArgumentsKnown
<1>2. CASE Rollback(t)
  BY <1>2, RollbackInv
<1>3. CASE /\ ~IsLastGeneral(t, o)
           /\ userLock' = [userLock EXCEPT ![o] = t]
           /\ Goto(t, "updateOperator")
           /\ UNCHANGED <<tables, tx>>
  <2>1. /\ pc'[t] = "updateOperator"
        /\ \A s \in Tx \ {t} : pc'[s] = pc[s]
        /\ \A p \in Operators : userLock[p] = t => userLock'[p] = t
        /\ userLock'[o] = t
    BY <1>1, <1>3 DEF Goto
  <2>2. ProtocolTypeOK'
    BY <1>1, <1>3 DEF Goto, ProtocolTypeOK, Statements
  <2>3. ASSUME NEW s \in Tx \ {t}, NEW p \in Operators, userLock[p] = s
        PROVE  userLock'[p] = s
    BY <1>1, <1>3, <2>3, NoneAssumption DEF LockOperator, Unlocked
  <2>4. tx[t].generals \subseteq Operators
    BY <1>1 DEF Locals
  <2>5. (ArgumentsKnown(t) /\ GeneralsHeld(t))'
    BY <1>1, <1>3, <2>1, <2>4
    DEF ArgumentsKnown, GeneralsHeld, Creating, Issuing, IsAvailableGeneral, IsLastGeneral, tables
  <2>6. ArgumentsDiffer'
    BY <1>1, <1>3, <2>1, StillDiffer DEF IInv, Creating, Issuing
  <2> QED
    BY <1>3, <2>1, <2>2, <2>3, <2>5, <2>6, StepInv
<1> QED
  BY <1>2, <1>3 DEF LockOperator
-----------------------------------------------------------------------------
(* Steps that write rows.                                                   *)

\* What a step of t that writes the operator o and the new codes C leaves alone.
Writes(t, o, C) ==
  /\ user' \in [Operators -> User \union {NoUser}] /\ user'[o] # NoUser
  /\ \A p \in Operators \ {o} : user'[p] = user[p]
  /\ \A s \in Tx \ {t} :
       /\ userLock[o] = s => user[o] = NoUser
       /\ Creating(s) => tx[s].operator # o
       /\ Issuing(s) => tx[s].code \notin C
  /\ activation' \in [Codes -> Activation \union {NoActivation}]
  /\ \A d \in Codes :
       /\ activation[d] # NoActivation =>
            activation'[d] # NoActivation /\ activation'[d].operator = activation[d].operator
       /\ activation[d] = NoActivation /\ d \notin C => activation'[d] = NoActivation
  /\ \A d \in C : user'[activation'[d].operator] # NoUser
  /\ open' \subseteq Operators /\ verified' \subseteq Operators

\* A step that writes rows and ends transaction t: what remains to be shown.
LEMMA EndInv ==
  ASSUME IInv, UNCHANGED asked, NEW t \in Tx, EndTransaction(t),
         NEW o \in Operators, NEW C \in SUBSET Codes, Writes(t, o, C), OnePendingCode'
  PROVE  IInv'
<1>1. /\ ProtocolTypeOK'
      /\ pc'[t] = "idle" /\ tx'[t] = NoLocals
      /\ \A s \in Tx \ {t} :
           /\ pc'[s] = pc[s] /\ tx'[s] = tx[s]
           /\ \A p \in Operators : userLock[p] = s => userLock'[p] = s
  BY EndFrame DEF IInv
<1>2. TypeOK'
  BY <1>1 DEF IInv, TypeOK, ProtocolTypeOK, Writes
<1>3. ASSUME NEW s \in Tx \ {t}
      PROVE  Keeps(s)
  <2>1. ArgumentsKnown(s)
    BY DEF IInv
  <2>2. Creating(s) => tx[s].operator \in Operators /\ user'[tx[s].operator] = user[tx[s].operator]
    BY <2>1 DEF ArgumentsKnown, Creating, Writes
  <2>3. Issuing(s) => activation'[tx[s].code] = activation[tx[s].code]
    BY <2>1 DEF ArgumentsKnown, Writes
  <2> QED
    BY <1>1, <2>2, <2>3 DEF Keeps, Writes
<1>4. \A s \in Tx : (ArgumentsKnown(s) /\ GeneralsHeld(s))'
  BY <1>1, <1>3, OthersKept, IdleInv
<1>5. ArgumentsDiffer'
  BY <1>1, StillDiffer DEF IInv, Creating, Issuing
<1>6. OwnersExist'
  <2> SUFFICES ASSUME NEW d \in Codes, activation'[d] # NoActivation
               PROVE  user'[activation'[d].operator] # NoUser
    BY DEF OwnersExist
  <2>1. CASE d \in C
    BY <2>1 DEF Writes
  <2>2. CASE d \notin C
    <3>1. activation[d] # NoActivation /\ activation'[d].operator = activation[d].operator
      BY <2>2 DEF Writes
    <3>2. user[activation[d].operator] # NoUser /\ activation[d].operator \in Operators
      BY <3>1 DEF IInv, TypeOK, OwnersExist, Activation
    <3> QED BY <3>1, <3>2 DEF Writes
  <2> QED BY <2>1, <2>2
<1> QED
  BY <1>2, <1>4, <1>5, <1>6 DEF IInv

LEMMA CreateOperatorInv ==
  ASSUME IInv, UNCHANGED asked, NEW t \in Tx, CreateOperator(t)
  PROVE  IInv'
<1> DEFINE o == tx[t].operator
           c == tx[t].code
           row == [profile |-> tx[t].change, isActive |-> TRUE, password |-> FALSE]
           code == [operator |-> o, status |-> "pending", expired |-> FALSE]
<1>1. /\ Creating(t) /\ Issuing(t)
      /\ o \in Operators /\ user[o] = NoUser /\ tx[t].change \in Profiles
      /\ c \in Codes /\ activation[c] = NoActivation
  BY DEF CreateOperator, IInv, ArgumentsKnown, Creating, Issuing
<1>2. /\ user' = [user EXCEPT ![o] = row]
      /\ activation' = [activation EXCEPT ![c] = code]
      /\ UNCHANGED <<open, verified>> /\ EndTransaction(t)
  BY DEF CreateOperator, Issued
<1>3a. row \in User /\ code \in Activation
  BY <1>1 DEF User, Activation
<1>3. row \in User /\ code \in Activation /\ row # NoUser /\ code # NoActivation
  BY <1>3a, NullAssumption
<1>4. /\ user' \in [Operators -> User \union {NoUser}] /\ user'[o] = row
      /\ \A p \in Operators \ {o} : user'[p] = user[p]
      /\ activation' \in [Codes -> Activation \union {NoActivation}] /\ activation'[c] = code
      /\ \A d \in Codes \ {c} : activation'[d] = activation[d]
      /\ open' \subseteq Operators /\ verified' \subseteq Operators
  BY <1>1, <1>2, <1>3 DEF IInv, TypeOK
<1>5. \A s \in Tx \ {t} : (Creating(s) => tx[s].operator # o) /\ (Issuing(s) => tx[s].code # c)
  BY <1>1 DEF IInv, ArgumentsDiffer
<1>6. \A d \in Codes : activation[d] # NoActivation => activation[d].operator # o
  BY <1>1 DEF IInv, OwnersExist
<1>7. OnePendingCode'
  BY <1>4, <1>6 DEF IInv, OnePendingCode
<1>8. {c} \in SUBSET Codes /\ code.operator = o
  BY <1>1
<1>9. Writes(t, o, {c})
  BY <1>1, <1>3, <1>4, <1>5, <1>8 DEF Writes
<1> QED
  BY <1>1, <1>2, <1>7, <1>8, <1>9, EndInv

\* A change of a row that exists leaves a row.
LEMMA ChangedRow ==
  ASSUME NEW row \in User, NEW change \in Changes
  PROVE  Changed(row, change) \in User
BY DEF Changed, Changes, Profiles, User

LEMMA UpdateOperatorInv ==
  ASSUME IInv, UNCHANGED asked, NEW t \in Tx, UpdateOperator(t)
  PROVE  IInv'
<1> DEFINE o == tx[t].operator
           c == tx[t].code
           change == tx[t].change
           code == [operator |-> o, status |-> "pending", expired |-> FALSE]
<1>1. /\ pc[t] = "updateOperator" /\ change \in Changes
      /\ o \in Operators /\ user[o] # NoUser /\ user[o] \in User /\ userLock[o] = t
      /\ change = "RESET" => Issuing(t) /\ c \in Codes /\ activation[c] = NoActivation
  BY DEF UpdateOperator, IInv, TypeOK, ArgumentsKnown, GeneralsHeld, Issuing
<1>2. /\ user' = [user EXCEPT ![o] = Changed(user[o], change)]
      /\ open' = OpenSessions(o, change) /\ UNCHANGED verified
      /\ activation' = IF change = "RESET" THEN [RevokedPending(o) EXCEPT ![c] = code]
                       ELSE activation
      /\ EndTransaction(t)
  BY DEF UpdateOperator
<1>3a. Changed(user[o], change) \in User /\ code \in Activation
  BY <1>1, ChangedRow DEF Activation
<1>3. Changed(user[o], change) # NoUser /\ code # NoActivation
  BY <1>3a, NullAssumption
<1>4. /\ user' \in [Operators -> User \union {NoUser}] /\ user'[o] # NoUser
      /\ \A p \in Operators \ {o} : user'[p] = user[p]
      /\ open' \subseteq Operators /\ verified' \subseteq Operators
  BY <1>1, <1>2, <1>3a, <1>3 DEF IInv, TypeOK, OpenSessions
<1>5. \A s \in Tx \ {t} : (userLock[o] # s) /\ (Creating(s) => tx[s].operator # o)
  BY <1>1 DEF IInv, ArgumentsKnown
<1>6. CASE change # "RESET"
  <2>1. activation' = activation
    BY <1>2, <1>6
  <2>2. OnePendingCode'
    BY <2>1 DEF IInv, OnePendingCode
  <2>3. activation \in [Codes -> Activation \union {NoActivation}]
    BY DEF IInv, TypeOK
  <2>4. {} \in SUBSET Codes
    OBVIOUS
  <2>5. Writes(t, o, {})
    BY <1>4, <1>5, <2>1, <2>3 DEF Writes
  <2> QED
    BY <1>1, <1>2, <2>2, <2>4, <2>5, EndInv
<1>7. CASE change = "RESET"
  <2>1. /\ Issuing(t) /\ c \in Codes /\ activation[c] = NoActivation
        /\ activation' = [RevokedPending(o) EXCEPT ![c] = code]
        /\ activation \in [Codes -> Activation \union {NoActivation}]
    BY <1>1, <1>2, <1>7 DEF IInv, TypeOK
  <2>2. ASSUME NEW d \in Codes
        PROVE  /\ activation[d] = NoActivation => RevokedPending(o)[d] = NoActivation
               /\ activation[d] # NoActivation =>
                    /\ RevokedPending(o)[d] \in Activation
                    /\ RevokedPending(o)[d].operator = activation[d].operator
                    /\ RevokedPending(o)[d].status = "pending" =>
                         activation[d].status = "pending" /\ activation[d].operator # o
    BY <2>1 DEF RevokedPending, Activation
  <2>3. activation' \in [Codes -> Activation \union {NoActivation}]
    BY <1>3a, <2>1, <2>2 DEF RevokedPending
  <2>4. activation'[c] = code /\ \A d \in Codes \ {c} : activation'[d] = RevokedPending(o)[d]
    BY <2>1 DEF RevokedPending
  <2>5. \A d \in Codes : activation[d] # NoActivation =>
          activation'[d] # NoActivation /\ activation'[d].operator = activation[d].operator
    BY <2>1, <2>2, <2>4, NullAssumption
  <2>6. \A d \in Codes \ {c} : activation[d] = NoActivation => activation'[d] = NoActivation
    BY <2>2, <2>4
  <2>7. OnePendingCode'
    BY <2>2, <2>4 DEF IInv, OnePendingCode
  <2>8. \A s \in Tx \ {t} : Issuing(s) => tx[s].code \notin {c}
    BY <2>1 DEF IInv, ArgumentsDiffer
  <2>9. {c} \in SUBSET Codes /\ code.operator = o
    BY <2>1
  <2>10. Writes(t, o, {c})
    BY <1>4, <1>5, <2>3, <2>4, <2>5, <2>6, <2>8, <2>9 DEF Writes
  <2> QED
    BY <1>1, <1>2, <2>7, <2>9, <2>10, EndInv
<1> QED BY <1>6, <1>7
LEMMA ConsumeActivationInv ==
  ASSUME IInv, UNCHANGED asked, NEW t \in Tx, ConsumeActivation(t)
  PROVE  IInv'
<1> DEFINE o == tx[t].operator
           c == tx[t].code
<1>1. /\ pc[t] = "consumeActivation"
      /\ o \in Operators /\ Unlocked(o, t)
      /\ c \in Codes /\ activation[c] # NoActivation /\ o = activation[c].operator
      /\ activation[c] \in Activation
      /\ user[o] # NoUser /\ user[o] \in User
  BY DEF ConsumeActivation, IInv, TypeOK, ArgumentsKnown, OwnersExist
<1>2. CASE Rollback(t)
  BY <1>2, RollbackInv
<1>3. CASE /\ user' = [user EXCEPT ![o].password = TRUE]
           /\ activation' = [activation EXCEPT ![c].status = "used"]
           /\ UNCHANGED <<open, verified>>
           /\ EndTransaction(t)
  <2> DEFINE row == [user[o] EXCEPT !.password = TRUE]
             used == [activation[c] EXCEPT !.status = "used"]
  <2>1. row \in User /\ used \in Activation /\ used.operator = o /\ used.status # "pending"
    BY <1>1 DEF User, Activation
  <2>2. row # NoUser /\ used # NoActivation
    BY <2>1, NullAssumption
  <2>3. /\ user' \in [Operators -> User \union {NoUser}] /\ user'[o] = row
        /\ \A p \in Operators \ {o} : user'[p] = user[p]
        /\ activation' \in [Codes -> Activation \union {NoActivation}] /\ activation'[c] = used
        /\ \A d \in Codes \ {c} : activation'[d] = activation[d]
        /\ open' \subseteq Operators /\ verified' \subseteq Operators
    BY <1>1, <1>3, <2>1 DEF IInv, TypeOK
  <2>4. \A s \in Tx \ {t} : (userLock[o] # s) /\ (Creating(s) => tx[s].operator # o)
    BY <1>1, NoneAssumption DEF IInv, ArgumentsKnown, Unlocked
  <2>5. OnePendingCode'
    <3>1. \A d \in Codes : activation'[d] # NoActivation /\ activation'[d].status = "pending" =>
            activation'[d] = activation[d]
      BY <2>1, <2>3
    <3> QED BY <3>1 DEF IInv, OnePendingCode
  <2>6. Writes(t, o, {})
    BY <1>1, <2>1, <2>2, <2>3, <2>4 DEF Writes
  <2>7. {} \in SUBSET Codes
    OBVIOUS
  <2> QED
    BY <1>1, <1>3, <2>5, <2>6, <2>7, EndInv
<1> QED
  BY <1>2, <1>3 DEF ConsumeActivation

\* Logins, logouts, the clock and the command line hold no transaction.
LEMMA SessionsInv ==
  ASSUME IInv, UNCHANGED asked, NEW o \in Operators,
         VerifyLogin(o) \/ StartSession(o) \/ EndSession(o)
  PROVE  IInv'
<1>1. /\ UNCHANGED <<user, activation, userLock, pc, tx>>
      /\ open' \subseteq Operators /\ verified' \subseteq Operators
  BY DEF VerifyLogin, StartSession, EndSession, IInv, TypeOK
<1>2. \A s \in Tx : Keeps(s)
  BY <1>1 DEF Keeps
<1>3. \A s \in Tx : (ArgumentsKnown(s) /\ GeneralsHeld(s))'
  BY <1>2, OthersKept
<1>4. ArgumentsDiffer'
  BY <1>1, StillDiffer DEF IInv, Creating, Issuing
<1> QED
  BY <1>1, <1>3, <1>4 DEF IInv, TypeOK, OwnersExist, OnePendingCode

LEMMA ExpireInv ==
  ASSUME IInv, UNCHANGED asked, NEW c \in Codes, Expire(c)
  PROVE  IInv'
<1> DEFINE expired == [activation[c] EXCEPT !.expired = TRUE]
<1>1. /\ UNCHANGED <<user, open, verified, userLock, pc, tx>>
      /\ activation[c] # NoActivation /\ activation[c] \in Activation
      /\ activation \in [Codes -> Activation \union {NoActivation}]
      /\ activation' = [activation EXCEPT ![c] = expired]
  BY DEF Expire, IInv, TypeOK
<1>2. /\ expired \in Activation /\ expired.operator = activation[c].operator
      /\ expired.status = activation[c].status
  BY <1>1 DEF Activation
<1>3. /\ activation' \in [Codes -> Activation \union {NoActivation}]
      /\ activation'[c] = expired /\ expired # NoActivation
      /\ \A d \in Codes \ {c} : activation'[d] = activation[d]
  BY <1>1, <1>2, NullAssumption
<1>4. ASSUME NEW s \in Tx PROVE Keeps(s)
  <2>1. ArgumentsKnown(s)
    BY DEF IInv
  <2> QED BY <1>1, <1>2, <1>3, <2>1 DEF Keeps, ArgumentsKnown
<1>5. \A s \in Tx : (ArgumentsKnown(s) /\ GeneralsHeld(s))'
  BY <1>4, OthersKept
<1>6. ArgumentsDiffer'
  BY <1>1, StillDiffer DEF IInv, Creating, Issuing
<1>7. OwnersExist' /\ OnePendingCode'
  BY <1>1, <1>2, <1>3 DEF IInv, OwnersExist, OnePendingCode
<1> QED
  BY <1>1, <1>3, <1>5, <1>6, <1>7 DEF IInv, TypeOK

LEMMA SetAdminPasswordInv ==
  ASSUME IInv, UNCHANGED asked, NEW o \in Operators, SetAdminPassword(o)
  PROVE  IInv'
<1> DEFINE row == [[user[o] EXCEPT !.password = TRUE] EXCEPT !.isActive = TRUE]
<1>1. /\ UNCHANGED <<activation, verified, userLock, pc, tx>>
      /\ user[o] # NoUser /\ user[o] \in User /\ userLock[o] = None
      /\ user \in [Operators -> User \union {NoUser}]
      /\ user' = [user EXCEPT ![o] = row] /\ open' \subseteq Operators
  BY DEF SetAdminPassword, IInv, TypeOK
<1>2. row \in User
  BY <1>1 DEF User
<1>3. /\ user' \in [Operators -> User \union {NoUser}] /\ user'[o] # NoUser
      /\ \A p \in Operators \ {o} : user'[p] = user[p]
  BY <1>1, <1>2, NullAssumption
<1>4. ASSUME NEW s \in Tx PROVE Keeps(s)
  <2>1. ArgumentsKnown(s) /\ userLock[o] # s
    BY <1>1, NoneAssumption DEF IInv
  <2> QED BY <1>1, <1>3, <2>1 DEF Keeps, ArgumentsKnown, Creating
<1>5. \A s \in Tx : (ArgumentsKnown(s) /\ GeneralsHeld(s))'
  BY <1>4, OthersKept
<1>6. ArgumentsDiffer'
  BY <1>1, StillDiffer DEF IInv, Creating, Issuing
<1>7. OwnersExist' /\ OnePendingCode'
  BY <1>1, <1>3 DEF IInv, OwnersExist, OnePendingCode, TypeOK, Activation
<1> QED
  BY <1>1, <1>3, <1>5, <1>6, <1>7 DEF IInv, TypeOK

-----------------------------------------------------------------------------

LEMMA InitInv == Init => IInv
<1> SUFFICES ASSUME Init PROVE IInv
  OBVIOUS
<1>1. PICK seeded \in SUBSET Operators \ {{}} :
        user = [o \in Operators |->
                  IF o \in seeded
                    THEN [profile |-> "GENERAL", isActive |-> TRUE, password |-> TRUE]
                    ELSE NoUser]
  BY DEF Init
<1>2. user \in [Operators -> User \union {NoUser}]
  BY <1>1 DEF User, Profiles
<1>3. NoLocals \in Locals
  BY DEF NoLocals, Locals
<1>4. TypeOK
  BY <1>2, <1>3 DEF Init, TypeOK
<1>5. \A t \in Tx : ArgumentsKnown(t) /\ GeneralsHeld(t)
  BY DEF Init, ArgumentsKnown, GeneralsHeld, Creating, Issuing, NoLocals
<1>6. ArgumentsDiffer /\ OwnersExist /\ OnePendingCode
  BY DEF Init, ArgumentsDiffer, Creating, Issuing, OwnersExist, OnePendingCode
<1> QED
  BY <1>4, <1>5, <1>6 DEF IInv

LEMMA StatementInv ==
  ASSUME IInv, UNCHANGED asked, NEW t \in Tx, Statement(t)
  PROVE  IInv'
BY CreateOperatorInv, LockAvailableGeneralsInv, LockGeneralInv, LockOperatorInv,
   UpdateOperatorInv, ConsumeActivationInv DEF Statement

LEMMA NextInv == IInv /\ [Next]_vars => IInv'
<1> SUFFICES ASSUME IInv, [Next]_vars PROVE IInv'
  OBVIOUS
<1>1. CASE UNCHANGED vars
  <2>1. \A s \in Tx : Keeps(s)
    BY <1>1 DEF vars, tables, Keeps
  <2>2. \A s \in Tx : (ArgumentsKnown(s) /\ GeneralsHeld(s))'
    BY <2>1, OthersKept
  <2>3. ArgumentsDiffer'
    BY <1>1, StillDiffer DEF IInv, Creating, Issuing, vars
  <2> QED
    BY <1>1, <2>2, <2>3 DEF IInv, TypeOK, OwnersExist, OnePendingCode, vars, tables
<1>2. CASE Next
  <2>1. UNCHANGED asked /\ asked \subseteq Changes
    BY <1>2, CampaignsAssumption DEF Next, IInv, TypeOK
  <2>2. ASSUME NEW t \in Tx, Statement(t) \/ Abort(t) \/ \E c \in Codes : BeginActivate(t, c)
        PROVE  IInv'
    BY <2>1, <2>2, StatementInv, RollbackInv, BeginActivateInv DEF Abort
  <2>3. ASSUME NEW t \in Tx,
               \/ \E a, o \in Operators, profile \in Profiles \intersect asked, c \in Codes :
                    BeginCreate(t, a, o, profile, c)
               \/ \E a, o \in Operators, change \in asked, c \in Codes \union {None} :
                    BeginChange(t, a, o, change, c)
        PROVE  IInv'
    BY <2>1, <2>3, BeginCreateInv, BeginChangeInv
  <2>4. ASSUME NEW o \in Operators,
               VerifyLogin(o) \/ StartSession(o) \/ EndSession(o) \/ SetAdminPassword(o)
        PROVE  IInv'
    BY <2>1, <2>4, SessionsInv, SetAdminPasswordInv
  <2>5. ASSUME NEW c \in Codes, Expire(c)
        PROVE  IInv'
    BY <2>1, <2>5, ExpireInv
  <2> QED
    BY <1>2, <2>2, <2>3, <2>4, <2>5 DEF Next, Request
<1> QED BY <1>1, <1>2

\* What every step may count on holds in every reachable state.
THEOREM Invariance == Spec => []IInv
BY InitInv, NextInv, PTL DEF Spec

\* Every reachable state is well typed.
THEOREM TypeCorrect == Spec => []TypeOK
<1>1. IInv => TypeOK
  BY DEF IInv
<1> QED BY <1>1, Invariance, PTL
\* While a transaction decides by a list of generals, each of them stays an
\* available general that it alone may change.
THEOREM ListsHold == Spec => []ListedStayAvailable
<1>1. IInv => ListedStayAvailable
  BY DEF IInv, GeneralsHeld, ListedStayAvailable
<1> QED BY <1>1, Invariance, PTL

\* An operator has at most one code that could still be used.
THEOREM OneCode == Spec => []OnePendingCode
<1>1. IInv => OnePendingCode
  BY DEF IInv
<1> QED BY <1>1, Invariance, PTL

-----------------------------------------------------------------------------
(* How the last general may be lost.                                        *)

\* A change that its transaction may make leaves a general of its list.
LEMMA UpdateLeavesListed ==
  ASSUME IInv, NEW t \in Tx, UpdateOperator(t), tx[t].generals # {}, AvailableGenerals # {}
  PROVE  AvailableGenerals' # {}
<1> DEFINE o == tx[t].operator
           change == tx[t].change
<1>1. /\ o \in Operators /\ change \in Changes
      /\ user[o] \in User /\ user \in [Operators -> User \union {NoUser}]
      /\ tx[t].generals \subseteq AvailableGenerals
      /\ ~IsLastGeneral(t, o)
      /\ user' = [user EXCEPT ![o] = Changed(user[o], change)]
  <2>1. pc[t] = "updateOperator" /\ ArgumentsKnown(t) /\ GeneralsHeld(t) /\ tx[t] \in Locals
    BY DEF UpdateOperator, IInv, TypeOK
  <2> QED
    BY <2>1 DEF UpdateOperator, IInv, TypeOK, ArgumentsKnown, GeneralsHeld, AvailableGenerals, Locals
<1>2. CASE \E g \in tx[t].generals : g # o
  <2>1. PICK g \in tx[t].generals : g # o
    BY <1>2
  <2>2. g \in Operators /\ user'[g] = user[g] /\ IsAvailableGeneral(g)
    BY <1>1, <2>1 DEF AvailableGenerals
  <2> QED BY <2>2 DEF AvailableGenerals, IsAvailableGeneral
<1>3. CASE tx[t].generals = {o}
  <2>1. IsAvailableGeneral(o) /\ change \notin {"deactivate", "RESET", "SHOP"}
    BY <1>1, <1>3 DEF AvailableGenerals, IsLastGeneral, RemovesAvailability
  <2>2. change \in {"GENERAL", "contact", "activate"}
    BY <1>1, <2>1 DEF Changes, Profiles
  <2>3. /\ Changed(user[o], change) \in User
        /\ Changed(user[o], change).profile = "GENERAL"
        /\ Changed(user[o], change).isActive /\ Changed(user[o], change).password
    BY <1>1, <2>1, <2>2 DEF Changed, User, Profiles, IsAvailableGeneral
  <2>4. user'[o] # NoUser
    BY <1>1, <2>3, NullAssumption
  <2> QED BY <1>1, <2>3, <2>4 DEF AvailableGenerals, IsAvailableGeneral
<1> QED BY <1>2, <1>3

\* No other step makes an available general unavailable.
LEMMA OthersLeaveGenerals ==
  ASSUME IInv, [Next]_vars, \A t \in Tx : ~UpdateOperator(t)
  PROVE  AvailableGenerals \subseteq AvailableGenerals'
<1>1. ASSUME user' = user
      PROVE  AvailableGenerals \subseteq AvailableGenerals'
  BY <1>1 DEF AvailableGenerals, IsAvailableGeneral
<1>2. ASSUME NEW o \in Operators, NEW row,
             user' = [user EXCEPT ![o] = row],
             IsAvailableGeneral(o) => row # NoUser /\ row.profile = "GENERAL" /\ row.isActive /\ row.password
      PROVE  AvailableGenerals \subseteq AvailableGenerals'
  BY <1>2 DEF IInv, TypeOK, AvailableGenerals, IsAvailableGeneral
<1>3. ASSUME NEW t \in Tx, CreateOperator(t)
      PROVE  AvailableGenerals \subseteq AvailableGenerals'
  <2>1. tx[t].operator \in Operators /\ ~IsAvailableGeneral(tx[t].operator)
    BY <1>3 DEF CreateOperator, IInv, ArgumentsKnown, Creating, IsAvailableGeneral
  <2> QED BY <1>2, <1>3, <2>1 DEF CreateOperator
<1>4. ASSUME NEW t \in Tx, ConsumeActivation(t)
      PROVE  AvailableGenerals \subseteq AvailableGenerals'
  <2>1. CASE Rollback(t)
    BY <1>1, <2>1 DEF Rollback, tables
  <2>2. CASE CanActivate(t)
    <3>1. tx[t].operator \in Operators /\ ~IsAvailableGeneral(tx[t].operator)
      BY <1>4, <2>2 DEF ConsumeActivation, IInv, ArgumentsKnown, IsAvailableGeneral, CanActivate
    <3> QED BY <1>2, <1>4, <2>2, <3>1 DEF ConsumeActivation
  <2> QED BY <1>4, <2>1, <2>2 DEF ConsumeActivation
<1>5. ASSUME NEW o \in Operators, SetAdminPassword(o)
      PROVE  AvailableGenerals \subseteq AvailableGenerals'
  <2> DEFINE row == [[user[o] EXCEPT !.password = TRUE] EXCEPT !.isActive = TRUE]
  <2>1. user[o] \in User /\ user' = [user EXCEPT ![o] = row] /\ user[o].profile = "GENERAL"
    BY <1>5 DEF SetAdminPassword, IInv, TypeOK
  <2>2. row \in User /\ row.profile = "GENERAL" /\ row.isActive /\ row.password
    BY <2>1 DEF User
  <2>3. row # NoUser
    BY <2>2, NullAssumption
  <2> HIDE DEF row
  <2> QED BY <1>2, <2>1, <2>2, <2>3
<1>6. \/ user' = user
      \/ \E t \in Tx : CreateOperator(t) \/ ConsumeActivation(t)
      \/ \E o \in Operators : SetAdminPassword(o)
  BY DEF Next, Request, Statement, LockAvailableGenerals, LockGeneral, LockOperator, Abort, Rollback,
         BeginActivate, BeginCreate, BeginChange, VerifyLogin, StartSession, EndSession, Expire,
         vars, tables
<1> QED BY <1>1, <1>3, <1>4, <1>5, <1>6

\* The last available general is lost only to a change whose transaction listed
\* none, for any number of administrators and of concurrent requests.
THEOREM LastGeneralLost == Spec => LostOnlyUnlisted
<1>1. ASSUME IInv, [Next]_vars, AvailableGenerals # {}, AvailableGenerals' = {}
      PROVE  \E t \in Tx : pc[t] = "updateOperator" /\ pc'[t] = "idle" /\ tx[t].generals = {}
  <2>1. PICK t \in Tx : UpdateOperator(t)
    BY <1>1, OthersLeaveGenerals
  <2>2. pc[t] = "updateOperator" /\ pc'[t] = "idle"
    BY <1>1, <2>1, EndFrame DEF UpdateOperator, IInv
  <2>3. tx[t].generals = {}
    BY <1>1, <2>1, UpdateLeavesListed
  <2> QED BY <2>2, <2>3
<1>2. IInv /\ [Next]_vars =>
        [AvailableGenerals # {} /\ AvailableGenerals' = {} =>
           \E t \in Tx : pc[t] = "updateOperator" /\ pc'[t] = "idle" /\ tx[t].generals = {}]_vars
  BY <1>1
<1> QED
  BY <1>2, Invariance, ListsHold, PTL DEF Spec, LostOnlyUnlisted

-----------------------------------------------------------------------------
(* What may become of a code.                                               *)

\* One code, over one step.
CodeStep(c) ==
  activation[c] # NoActivation =>
    /\ activation[c].status # "pending" => activation'[c].status = activation[c].status
    /\ activation'[c].status = "used" /\ activation[c].status = "pending" =>
         /\ ~user[activation[c].operator].password
         /\ user'[activation[c].operator].password

LEMMA ConsumedOnce ==
  ASSUME IInv, NEW t \in Tx, ConsumeActivation(t), NEW c \in Codes
  PROVE  CodeStep(c)
<1> DEFINE used == [activation[tx[t].code] EXCEPT !.status = "used"]
           o == tx[t].operator
<1>1. /\ tx[t].code \in Codes /\ activation[tx[t].code] # NoActivation
      /\ o \in Operators /\ o = activation[tx[t].code].operator
      /\ user[o] \in User
      /\ activation \in [Codes -> Activation \union {NoActivation}]
      /\ user \in [Operators -> User \union {NoUser}]
  BY DEF ConsumeActivation, IInv, TypeOK, ArgumentsKnown, OwnersExist
<1>2. CASE Rollback(t)
  BY <1>2 DEF Rollback, tables, CodeStep
<1>3. CASE /\ CanActivate(t)
           /\ user' = [user EXCEPT ![o].password = TRUE]
           /\ activation' = [activation EXCEPT ![tx[t].code] = used]
  <2>1. /\ activation[tx[t].code].status = "pending" /\ ~user[o].password
        /\ user'[o].password
    BY <1>1, <1>3 DEF CanActivate, LockedActivation, User
  <2>2. CASE c = tx[t].code
    BY <1>1, <1>3, <2>1, <2>2 DEF CodeStep
  <2>3. CASE c # tx[t].code
    BY <1>1, <1>3, <2>3 DEF CodeStep
  <2> QED BY <2>2, <2>3
<1> QED BY <1>2, <1>3 DEF ConsumeActivation

LEMMA UpdateKeepsFinal ==
  ASSUME IInv, NEW t \in Tx, UpdateOperator(t), NEW c \in Codes
  PROVE  CodeStep(c)
<1>1. CASE tx[t].change # "RESET"
  BY <1>1 DEF UpdateOperator, CodeStep
<1>2. CASE tx[t].change = "RESET"
  <2>1. /\ tx[t].code \in Codes /\ activation[tx[t].code] = NoActivation
        /\ activation[c] # NoActivation => activation[c] \in Activation
    BY <1>2 DEF UpdateOperator, IInv, TypeOK, ArgumentsKnown, Issuing
  <2>2. ASSUME activation[c] # NoActivation
        PROVE  activation'[c] = RevokedPending(tx[t].operator)[c]
    BY <1>2, <2>1, <2>2 DEF UpdateOperator, RevokedPending
  <2> QED BY <2>1, <2>2 DEF RevokedPending, CodeStep, Activation
<1> QED BY <1>1, <1>2

LEMMA CodeSteps == IInv /\ [Next]_vars => \A c \in Codes : CodeStep(c)
<1> SUFFICES ASSUME IInv, [Next]_vars, NEW c \in Codes PROVE CodeStep(c)
  OBVIOUS
<1>1. CASE activation' = activation
  BY <1>1 DEF CodeStep
<1>2. ASSUME NEW t \in Tx, CreateOperator(t) PROVE CodeStep(c)
  <2>1. activation[tx[t].code] = NoActivation /\ activation \in [Codes -> Activation \union {NoActivation}]
    BY <1>2 DEF CreateOperator, IInv, TypeOK, ArgumentsKnown, Creating, Issuing
  <2> QED BY <1>2, <2>1 DEF CreateOperator, Issued, CodeStep
<1>3. ASSUME NEW d \in Codes, Expire(d) PROVE CodeStep(c)
  BY <1>3 DEF Expire, IInv, TypeOK, Activation, CodeStep
<1>4. \/ activation' = activation
      \/ \E t \in Tx : CreateOperator(t) \/ ConsumeActivation(t) \/ UpdateOperator(t)
      \/ \E d \in Codes : Expire(d)
  BY DEF Next, Request, Statement, LockAvailableGenerals, LockGeneral, LockOperator, Abort, Rollback,
         BeginActivate, BeginCreate, BeginChange, VerifyLogin, StartSession, EndSession,
         SetAdminPassword, vars, tables
<1> QED BY <1>1, <1>2, <1>3, <1>4, ConsumedOnce, UpdateKeepsFinal

\* A code that was used or revoked never changes again, one is used only for an
\* operator without a password, and an operator never has two that could be.
THEOREM OneActivation == Spec => CodesActivateOnce
<1>1. IInv /\ [Next]_vars =>
        [\A c \in Codes :
           activation[c] # NoActivation =>
             /\ activation[c].status # "pending" => activation'[c].status = activation[c].status
             /\ activation'[c].status = "used" /\ activation[c].status = "pending" =>
                  /\ ~user[activation[c].operator].password
                  /\ user'[activation[c].operator].password]_vars
  BY CodeSteps DEF CodeStep
<1> QED
  BY <1>1, Invariance, OneCode, PTL DEF Spec, CodesActivateOnce
=============================================================================
