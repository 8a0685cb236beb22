--------------------------- MODULE AdminOperators ---------------------------
(***************************************************************************)
(* Administrative operators of the API: admin/admin-operators.service.ts   *)
(* over admin/admin-operators.repository.ts, with the sessions that their  *)
(* operations revoke and the recovery command cli/set-admin-password.ts.   *)
(*                                                                         *)
(* A mutation first locks every available general administrator, in the    *)
(* order of their identifiers, then the operator it is about.  At READ     *)
(* COMMITTED the first statement chooses its rows from one snapshot and    *)
(* then locks them one at a time; a row that changed while it waited is    *)
(* tested again, and if it no longer matches it stays locked but is not    *)
(* returned.  Rows that began to match after the snapshot are not seen.    *)
(***************************************************************************)
EXTENDS Integers, FiniteSets

CONSTANTS
  Operators,    \* identifiers of administrators, in their order
  Codes,        \* activation codes (the bound on creations and resets)
  Campaigns,    \* sets of the changes that the requests of a behaviour ask for
  Tx,           \* transactions that may be open at the same time
  None,         \* no owner, no argument
  NoUser,       \* an operator not yet created
  NoActivation  \* a code not yet issued

ASSUME OperatorsAssumption == Operators \subseteq Nat
ASSUME NoneAssumption == None \notin Tx \union Operators \union Codes

\* SHOP stands for the two specialised profiles: no guard tells them apart.
Profiles == {"GENERAL", "SHOP"}
User == [profile : Profiles, isActive : BOOLEAN, password : BOOLEAN]
Activation == [operator : Operators, status : {"pending", "used", "revoked"},
               expired : BOOLEAN]

ASSUME NullAssumption == NoUser \notin User /\ NoActivation \notin Activation

VARIABLES
  asked,       \* what requests ask for, chosen once
  user,        \* the User rows whose role is ADMIN
  activation,  \* the AdminActivation table
  open,        \* operators with an open UserSession
  verified,    \* operators whose password a login has verified
  userLock,    \* the transaction that holds each User row FOR UPDATE
  pc,          \* the next statement of each transaction
  tx           \* its arguments and what it has read

tables == <<user, activation, open, verified>>
vars == <<asked, tables, userLock, pc, tx>>

\* What a request asks of its operator: another profile, other personal data,
\* another status, or a new activation code.
Changes == Profiles \union {"contact", "activate", "deactivate", "RESET"}

ASSUME CampaignsAssumption == Campaigns \subseteq SUBSET Changes

Statements == {"createOperator", "lockAvailableGenerals", "lockGeneral", "lockOperator",
               "updateOperator", "consumeActivation"}

Locals == [actor : Operators \union {None}, operator : Operators \union {None},
           change : Changes \union {None}, code : Codes \union {None},
           waiting : SUBSET Operators, generals : SUBSET Operators,
           read : Activation \union {NoActivation}]
NoLocals == [actor |-> None, operator |-> None, change |-> None, code |-> None,
             waiting |-> {}, generals |-> {}, read |-> NoActivation]

\* Before the profiles existed every administrator became a general one.
Init ==
  /\ asked \in Campaigns
  /\ \E seeded \in SUBSET Operators \ {{}} :
       user = [o \in Operators |->
                 IF o \in seeded
                   THEN [profile |-> "GENERAL", isActive |-> TRUE, password |-> TRUE]
                   ELSE NoUser]
  /\ activation = [c \in Codes |-> NoActivation]
  /\ open = {}
  /\ verified = {}
  /\ userLock = [o \in Operators |-> None]
  /\ pc = [t \in Tx |-> "idle"]
  /\ tx = [t \in Tx |-> NoLocals]

-----------------------------------------------------------------------------

EndTransaction(t) ==
  /\ pc' = [pc EXCEPT ![t] = "idle"]
  /\ tx' = [tx EXCEPT ![t] = NoLocals]
  /\ userLock' = [o \in Operators |-> IF userLock[o] = t THEN None ELSE userLock[o]]

\* A guard of the service threw, or the e-mail or the CPF was taken.
Rollback(t) == EndTransaction(t) /\ UNCHANGED tables

\* The connection was lost, Prisma's time limit passed, or PostgreSQL broke a
\* circle of waiting transactions.
Abort(t) == pc[t] # "idle" /\ Rollback(t)

Goto(t, statement) == pc' = [pc EXCEPT ![t] = statement]
Learn(t, facts) == tx' = [tx EXCEPT ![t] = facts]

\* No other transaction holds row o.  A foreign key that points to the row
\* waits for its holder as well.
Unlocked(o, t) == userLock[o] \in {None, t}

IsAvailableGeneral(o) ==
  /\ user[o] # NoUser
  /\ user[o].profile = "GENERAL"
  /\ user[o].isActive
  /\ user[o].password
AvailableGenerals == {o \in Operators : IsAvailableGeneral(o)}

\* JwtStrategy and AdminProfilesGuard admit the request before it begins; they
\* are not asked again.
Admitted(o) ==
  /\ o \in open
  /\ user[o].isActive
  /\ user[o].profile = "GENERAL"

\* A code comes from twenty random symbols, so nobody else has it.
Fresh(c) == activation[c] = NoActivation /\ \A s \in Tx : tx[s].code # c

\* adminActivations.create, for the operator that is created or reset.
Issued(c, o) ==
  [activation EXCEPT ![c] = [operator |-> o, status |-> "pending", expired |-> FALSE]]

-----------------------------------------------------------------------------
(* Sessions of operators.                                                  *)

\* adminLogin: the credentials are compared with the row as it was read.
VerifyLogin(o) ==
  /\ user[o] # NoUser
  /\ user[o].isActive
  /\ user[o].password
  /\ verified' = verified \union {o}
  /\ UNCHANGED <<user, activation, open, userLock, pc, tx>>

\* startSession: the status is tested again, under the lock of the UPDATE.
StartSession(o) ==
  /\ o \in verified
  /\ userLock[o] = None
  /\ verified' = verified \ {o}
  /\ open' = IF user[o].isActive THEN open \union {o} ELSE open
  /\ UNCHANGED <<user, activation, userLock, pc, tx>>

\* Logout, or the end of the time a session lasts.
EndSession(o) ==
  /\ o \in open
  /\ open' = open \ {o}
  /\ UNCHANGED <<user, activation, verified, userLock, pc, tx>>

\* One hour has passed since the code was issued.
Expire(c) ==
  /\ activation[c] # NoActivation
  /\ ~activation[c].expired
  /\ activation' = [activation EXCEPT ![c].expired = TRUE]
  /\ UNCHANGED <<user, open, verified, userLock, pc, tx>>

-----------------------------------------------------------------------------
(* create: the new row and its code; the foreign keys of the code and of   *)
(* the audit event wait for whoever holds the row of the actor.            *)

BeginCreate(t, a, o, profile, c) ==
  /\ pc[t] = "idle"
  /\ Admitted(a)
  /\ Fresh(c)
  /\ user[o] = NoUser
  /\ \A s \in Tx : pc[s] = "createOperator" => tx[s].operator # o
  /\ Learn(t, [tx[t] EXCEPT !.actor = a, !.operator = o, !.change = profile, !.code = c])
  /\ Goto(t, "createOperator")
  /\ UNCHANGED <<tables, userLock>>

CreateOperator(t) ==
  /\ pc[t] = "createOperator"
  /\ Unlocked(tx[t].actor, t)
  /\ user' = [user EXCEPT ![tx[t].operator] =
                [profile |-> tx[t].change, isActive |-> TRUE, password |-> FALSE]]
  /\ activation' = Issued(tx[t].code, tx[t].operator)
  /\ UNCHANGED <<open, verified>>
  /\ EndTransaction(t)

-----------------------------------------------------------------------------
(* update, updateStatus and resetActivation.                               *)

BeginChange(t, a, o, change, c) ==
  /\ pc[t] = "idle"
  /\ Admitted(a)
  /\ user[o] # NoUser
  /\ IF change = "RESET" THEN c \in Codes /\ Fresh(c) ELSE c = None
  /\ Learn(t, [tx[t] EXCEPT !.actor = a, !.operator = o, !.change = change, !.code = c])
  /\ Goto(t, "lockAvailableGenerals")
  /\ UNCHANGED <<tables, userLock>>

\* The snapshot of lockAvailableGenerals.
LockAvailableGenerals(t) ==
  /\ pc[t] = "lockAvailableGenerals"
  /\ Learn(t, [tx[t] EXCEPT !.waiting = AvailableGenerals])
  /\ Goto(t, IF AvailableGenerals = {} THEN "lockOperator" ELSE "lockGeneral")
  /\ UNCHANGED <<tables, userLock>>

\* One row of it: locked as it is now, returned if it still matches.
\* With a bug: a row of the snapshot is returned without another look at it.
ReturnedUnseen(t, o) == TRUE
Returned(t, o) == IsAvailableGeneral(o)

LockGeneral(t) ==
  /\ pc[t] = "lockGeneral"
  /\ \E o \in tx[t].waiting :
       /\ \A p \in tx[t].waiting : o <= p
       /\ Unlocked(o, t)
       /\ userLock' = [userLock EXCEPT ![o] = t]
       /\ Learn(t, [tx[t] EXCEPT
                      !.waiting = @ \ {o},
                      !.generals = IF Returned(t, o) THEN @ \union {o} ELSE @])
       /\ Goto(t, IF tx[t].waiting = {o} THEN "lockOperator" ELSE "lockGeneral")
  /\ UNCHANGED tables

\* hasOperatorChanges; a reset always changes the operator.
IsChanged(o, change) ==
  CASE change \in Profiles    -> user[o].profile # change
    [] change = "activate"    -> ~user[o].isActive
    [] change = "deactivate"  -> user[o].isActive
    [] OTHER                  -> TRUE

\* With a bug: only the status is taken to make a general unavailable.
RemovesByStatus(change) == change \in {"deactivate", "RESET"}
RemovesAvailability(change) == change \in {"deactivate", "RESET", "SHOP"}

\* assertCanRemoveAvailableGeneral throws.
IsLastGeneral(t, o) ==
  /\ IsAvailableGeneral(o)
  /\ RemovesAvailability(tx[t].change)
  /\ tx[t].generals = {o}

LockOperator(t) ==
  LET o == tx[t].operator IN
  /\ pc[t] = "lockOperator"
  /\ Unlocked(o, t)
  /\ \/ /\ ~IsChanged(o, tx[t].change) \/ IsLastGeneral(t, o)
        /\ Rollback(t)
     \/ /\ IsChanged(o, tx[t].change)
        /\ ~IsLastGeneral(t, o)
        /\ userLock' = [userLock EXCEPT ![o] = t]
        /\ Goto(t, "updateOperator")
        /\ UNCHANGED <<tables, tx>>

Changed(row, change) ==
  CASE change \in Profiles   -> [row EXCEPT !.profile = change]
    [] change = "activate"   -> [row EXCEPT !.isActive = TRUE]
    [] change = "deactivate" -> [row EXCEPT !.isActive = FALSE]
    [] change = "RESET"      -> [row EXCEPT !.password = FALSE, !.isActive = TRUE]
    [] OTHER                 -> row

\* revokePendingActivations.
\* With a bug: the codes issued before stay.
KeptPending(o) == activation
RevokedPending(o) ==
  [c \in Codes |->
     IF activation[c] # NoActivation /\ activation[c].operator = o /\ activation[c].status = "pending"
       THEN [activation[c] EXCEPT !.status = "revoked"]
       ELSE activation[c]]

\* revokeOpenSessions: for every change but a reactivation.
OpenSessions(o, change) == IF change = "activate" THEN open ELSE open \ {o}

\* The writes, then the audit event, whose actor must exist and be free.
UpdateOperator(t) ==
  LET o == tx[t].operator
      change == tx[t].change IN
  /\ pc[t] = "updateOperator"
  /\ Unlocked(tx[t].actor, t)
  /\ user' = [user EXCEPT ![o] = Changed(user[o], change)]
  /\ open' = OpenSessions(o, change)
  /\ activation' = IF change = "RESET"
                     THEN [RevokedPending(o) EXCEPT
                             ![tx[t].code] = [operator |-> o, status |-> "pending",
                                              expired |-> FALSE]]
                     ELSE activation
  /\ UNCHANGED verified
  /\ EndTransaction(t)

-----------------------------------------------------------------------------
(* activate: the code is found without a lock, the operator is locked, and *)
(* everything is read again.  The time is the one at which it began.       *)

BeginActivate(t, c) ==
  /\ pc[t] = "idle"
  /\ activation[c] # NoActivation
  /\ Learn(t, [tx[t] EXCEPT !.code = c, !.read = activation[c],
                            !.operator = activation[c].operator])
  /\ Goto(t, "consumeActivation")
  /\ UNCHANGED <<tables, userLock>>

\* With a bug: the code is as it was when it was found.
StaleActivation(t) == tx[t].read
LockedActivation(t) == activation[tx[t].code]

CanActivate(t) ==
  /\ LockedActivation(t).status = "pending"
  /\ ~tx[t].read.expired
  /\ user[tx[t].operator].isActive
  /\ ~user[tx[t].operator].password

ConsumeActivation(t) ==
  /\ pc[t] = "consumeActivation"
  /\ Unlocked(tx[t].operator, t)
  /\ \/ ~CanActivate(t) /\ Rollback(t)
     \/ /\ CanActivate(t)
        /\ user' = [user EXCEPT ![tx[t].operator].password = TRUE]
        /\ activation' = [activation EXCEPT ![tx[t].code].status = "used"]
        /\ UNCHANGED <<open, verified>>
        /\ EndTransaction(t)

-----------------------------------------------------------------------------

\* The command line gives a general administrator a password, whatever state he
\* is in, and revokes his sessions.
SetAdminPassword(o) ==
  /\ user[o] # NoUser
  /\ user[o].profile = "GENERAL"
  /\ userLock[o] = None
  /\ user' = [user EXCEPT ![o].password = TRUE, ![o].isActive = TRUE]
  /\ open' = open \ {o}
  /\ UNCHANGED <<activation, verified, userLock, pc, tx>>

Statement(t) ==
  \/ CreateOperator(t)
  \/ LockAvailableGenerals(t)
  \/ LockGeneral(t)
  \/ LockOperator(t)
  \/ UpdateOperator(t)
  \/ ConsumeActivation(t)

Request ==
  \/ \E t \in Tx :
       \/ Statement(t)
       \/ Abort(t)
       \/ \E c \in Codes : BeginActivate(t, c)
       \/ \E a, o \in Operators, profile \in Profiles \intersect asked, c \in Codes :
            BeginCreate(t, a, o, profile, c)
       \/ \E a, o \in Operators, change \in asked, c \in Codes \union {None} :
            BeginChange(t, a, o, change, c)
  \/ \E o \in Operators : VerifyLogin(o) \/ StartSession(o) \/ EndSession(o) \/ SetAdminPassword(o)
  \/ \E c \in Codes : Expire(c)

Next == Request /\ UNCHANGED asked

Spec == Init /\ [][Next]_vars

-----------------------------------------------------------------------------
(* Properties.                                                             *)

TypeOK ==
  /\ asked \in Campaigns
  /\ user \in [Operators -> User \union {NoUser}]
  /\ activation \in [Codes -> Activation \union {NoActivation}]
  /\ open \subseteq Operators
  /\ verified \subseteq Operators
  /\ userLock \in [Operators -> Tx \union {None}]
  /\ pc \in [Tx -> Statements \union {"idle"}]
  /\ tx \in [Tx -> Locals]

\* Not kept by the code: LostOnlyUnlisted says what is.
\* While there is an available general administrator, no operation, in any
\* interleaving, leaves the system without one.
LastGeneralProtected == [][AvailableGenerals # {} => AvailableGenerals' # {}]_vars

\* The list a transaction decides by holds only generals that are available
\* and that nobody else can change.
ListedStayAvailable ==
  \A t \in Tx : \A o \in tx[t].generals : userLock[o] = t /\ IsAvailableGeneral(o)

\* The last general is lost only to a transaction that locked none: every
\* general of its snapshot was gone by then and the one it removes came later.
\* An operation that returned any general leaves one, and those it returned stay
\* available until it ends.
LostOnlyUnlisted ==
  /\ []ListedStayAvailable
  /\ [][AvailableGenerals # {} /\ AvailableGenerals' = {} =>
          \E t \in Tx : pc[t] = "updateOperator" /\ pc'[t] = "idle" /\ tx[t].generals = {}]_vars

\* An operator has at most one code that could still be used: the last issued.
OnePendingCode ==
  \A c, d \in Codes :
    /\ activation[c] # NoActivation /\ activation[c].status = "pending"
    /\ activation[d] # NoActivation /\ activation[d].status = "pending"
    /\ activation[c].operator = activation[d].operator
    => c = d

\* A code that was used or revoked never changes again, one is used only for an
\* operator without a password, and never could two of one operator be used: two
\* activations that found the same code, or an activation and a reset, are never
\* both accepted.
CodesActivateOnce ==
  /\ []OnePendingCode
  /\ [][\A c \in Codes :
          activation[c] # NoActivation =>
            /\ activation[c].status # "pending" => activation'[c].status = activation[c].status
            /\ activation'[c].status = "used" /\ activation[c].status = "pending" =>
                 /\ ~user[activation[c].operator].password
                 /\ user'[activation[c].operator].password]_vars

\* Not kept by the code: a login that verified the old password opens one.
\* An operator whose access was reset has no open session until the new code is
\* used.
PendingHaveNoSession == \A o \in open : user[o].password
=============================================================================
