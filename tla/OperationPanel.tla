--------------------------- MODULE OperationPanel ---------------------------
(***************************************************************************)
(* The web client's side of an adjustment and of a reconciliation:         *)
(* participant-reconciliation-panel.tsx, its dialogs and the life cycle of *)
(* an idempotency key (features/participants/participant-operations.ts).   *)
(* Each administrator has one panel on the same participant.  A request    *)
(* whose answer is lost may still reach the server, long after the          *)
(* administrator has submitted the form again.                             *)
(*                                                                         *)
(* The server answers as Ledger shows it does: a request takes effect at   *)
(* once, and a key already used is answered with what was done under it.    *)
(***************************************************************************)
EXTENDS Integers, FiniteSets

CONSTANTS
  Admins,     \* administrators, each with a panel on the participant
  Deltas,     \* adjustments they may fill in
  Gains,      \* what the participant earns or spends meanwhile
  Openings,   \* what history left: [stored, ledger]
  MaxKeys,    \* bound on the keys generated
  MaxWishes,  \* bound on what each administrator wants done
  MaxStored,  \* bound on the balance
  Unset

ASSUME DeltasAssumption == Deltas \subseteq Int \ {0}
ASSUME GainsAssumption == Gains \subseteq Int
ASSUME OpeningsAssumption == Openings \subseteq [stored : Nat, ledger : Int]
ASSUME BoundsAssumption == {MaxKeys, MaxWishes, MaxStored} \subseteq Nat
ASSUME UnsetAssumption == Unset \notin Nat

VARIABLES
  stored, ledger,  \* server: User.points, and the sum of the PointEvents
  done,            \* server: the requests applied
  keys,            \* the number of keys generated
  panel,           \* what each panel shows and waits for
  lifecycle,       \* the idempotency life cycles of each panel
  wish,            \* what each administrator wants: see Submitted
  stray            \* requests nobody waits for that may still arrive

ledgers == <<stored, ledger, done>>
panelVars == <<ledgers, keys, panel, lifecycle, wish, stray>>

Ops == {"adjust", "confirm"}
Key == 1..MaxKeys
Difference == stored - ledger

\* A request, with the number of the wish it is for and whether the panel prepared
\* it.  The value is what the administrator reviewed.
PanelRequest == [admin : Admins, op : Ops, key : Key, value : Int, wish : Nat, prepared : BOOLEAN]

Closed == [dialog |-> "none", value |-> 0, prepared |-> FALSE]
Fresh == [key |-> Unset, fingerprint |-> 0, renew |-> FALSE]
NoOne == [stage |-> "none"]

\* A panel that shows what there is, with no dialog and no request.
AtRest == [difference |-> Difference, form |-> Closed, request |-> NoOne]

PanelInit ==
  /\ \E o \in Openings : stored = o.stored /\ ledger = o.ledger
  /\ done = {}
  /\ keys = 0
  /\ panel = [a \in Admins |-> AtRest]
  /\ lifecycle = [a \in Admins |-> [op \in Ops |-> Fresh]]
  /\ wish = [a \in Admins |-> [op \in Ops |-> [number |-> 0, value |-> 0, settled |-> TRUE]]]
  /\ stray = {}

-----------------------------------------------------------------------------
(* createIdempotencyLifecycle.                                             *)

\* With a bug: renew is not looked at.
MustRenewForgetful(cycle, fingerprint) == cycle.key = Unset \/ cycle.fingerprint # fingerprint
MustRenew(cycle, fingerprint) ==
  cycle.key = Unset \/ cycle.renew \/ cycle.fingerprint # fingerprint

KeyFor(cycle, fingerprint) ==
  IF MustRenew(cycle, fingerprint) THEN keys + 1 ELSE cycle.key

\* failed(conflict), succeeded().  With a bug: any failure renews the key.
AlwaysRenewed(cycle, status) == [cycle EXCEPT !.renew = TRUE]
Renewed(cycle, status) ==
  [cycle EXCEPT !.renew = @ \/ status \in {"ok", "conflict"}]

-----------------------------------------------------------------------------
(* The panel.                                                              *)

Pending(a) == panel[a].request # NoOne
Form(a) == panel[a].form

\* The queries are fetched again: by focus, by the button, by invalidation.
Refetch(a) ==
  /\ panel' = [panel EXCEPT ![a].difference = Difference]
  /\ UNCHANGED <<ledgers, keys, lifecycle, wish, stray>>

\* A divergence offers an adjustment filled in and a confirmation; without one, the
\* administrator may adjust all the same.  The deltas are edited freely.
OpenForms(a) ==
  IF panel[a].difference # 0
  THEN {[dialog |-> "adjust", value |-> -panel[a].difference, prepared |-> TRUE],
        [dialog |-> "confirm", value |-> 0, prepared |-> FALSE]}
  ELSE {[dialog |-> "adjust", value |-> 0, prepared |-> FALSE]}

OpenPanel(a) ==
  /\ Form(a).dialog = "none"
  /\ \E form \in OpenForms(a) : panel' = [panel EXCEPT ![a].form = form]
  /\ UNCHANGED <<ledgers, keys, lifecycle, wish, stray>>

Edit(a, delta) ==
  /\ Form(a).dialog = "adjust" /\ ~Pending(a)
  /\ panel' = [panel EXCEPT ![a].form = [@ EXCEPT !.value = delta, !.prepared = FALSE]]
  /\ UNCHANGED <<ledgers, keys, lifecycle, wish, stray>>

\* Modal: nothing closes it while the request is pending.
ClosePanel(a) ==
  /\ Form(a).dialog # "none" /\ ~Pending(a)
  /\ panel' = [panel EXCEPT ![a].form = Closed]
  /\ UNCHANGED <<ledgers, keys, lifecycle, wish, stray>>

\* validateAdjustment.  It also checks the sum with the balance shown, which may be
\* any earlier one: the server's check is the one that counts.
Valid(a) == Form(a).value # 0

\* What the request says, and its fingerprint: the deltas, or the divergence that
\* is shown at that moment.  With a bug: the fingerprint of a confirmation is its
\* reason alone.
ReasonAlone(a) == IF Form(a).dialog = "adjust" THEN Form(a).value ELSE 0
Fingerprint(a) ==
  IF Form(a).dialog = "adjust" THEN Form(a).value ELSE panel[a].difference
Reviewed(a) == IF Form(a).dialog = "adjust" THEN Form(a).value ELSE panel[a].difference

\* The administrator submits what they had submitted before because they do not
\* know whether it was done; anything else is a new wish.
Submitted(a) ==
  LET w == wish[a][Form(a).dialog] IN
    IF w.settled \/ w.value # Reviewed(a)
    THEN [number |-> w.number + 1, value |-> Reviewed(a), settled |-> FALSE] ELSE w

\* adjust and confirm.
SubmitPanel(a) ==
  LET op == Form(a).dialog
      cycle == lifecycle[a][op]
      key == KeyFor(cycle, Fingerprint(a)) IN
    /\ op # "none" /\ ~Pending(a)
    /\ op = "adjust" => Valid(a)
    /\ key <= MaxKeys /\ Submitted(a).number <= MaxWishes
    /\ keys' = IF key > keys THEN key ELSE keys
    /\ wish' = [wish EXCEPT ![a][op] = Submitted(a)]
    /\ lifecycle' = [lifecycle EXCEPT ![a][op] =
         [key |-> key, fingerprint |-> Fingerprint(a), renew |-> FALSE]]
    /\ panel' = [panel EXCEPT ![a].request =
         [stage |-> "sent", status |-> "none",
          content |-> [admin |-> a, op |-> op, key |-> key, value |-> Reviewed(a),
                       wish |-> Submitted(a).number, prepared |-> Form(a).prepared]]]
    /\ UNCHANGED <<ledgers, stray>>

\* The answer arrives.  On success the dialog closes and the queries are refetched;
\* on failure it stays open, with its content.
Settle(a) ==
  LET request == panel[a].request.content
      status == panel[a].request.status IN
    /\ Pending(a) /\ panel[a].request.stage = "answered"
    /\ lifecycle' = [lifecycle EXCEPT ![a][request.op] = Renewed(@, status)]
    /\ wish' = [wish EXCEPT ![a][request.op].settled = status \in {"ok", "conflict"}]
    /\ panel' = [panel EXCEPT ![a] =
         IF status = "ok" THEN AtRest
         ELSE [@ EXCEPT !.request = NoOne]]
    /\ UNCHANGED <<ledgers, keys, stray>>

\* The connection fails: before the server has the request, which may be lost or
\* late, or before its answer is here.
ConnectionFails(a) ==
  LET request == panel[a].request.content IN
    /\ Pending(a)
    /\ lifecycle' = [lifecycle EXCEPT ![a][request.op] = Renewed(@, "failed")]
    /\ panel' = [panel EXCEPT ![a].request = NoOne]
    /\ \/ stray' = stray
       \/ panel[a].request.stage = "sent" /\ stray' = stray \union {request}
    /\ UNCHANGED <<ledgers, keys, wish>>

\* The administrator leaves the participant's page, or reloads it: useRef and
\* useState are gone.  Back there, they see what has been done and decide anew.
Remount(a) ==
  /\ panel' = [panel EXCEPT ![a] = AtRest]
  /\ lifecycle' = [lifecycle EXCEPT ![a] = [op \in Ops |-> Fresh]]
  /\ wish' = [wish EXCEPT ![a] = [op \in Ops |-> [@[op] EXCEPT !.settled = TRUE]]]
  /\ stray' = IF Pending(a) /\ panel[a].request.stage = "sent"
              THEN stray \union {panel[a].request.content} ELSE stray
  /\ UNCHANGED <<ledgers, keys>>

-----------------------------------------------------------------------------
(* The server, as Ledger promises.                                         *)

Used(key) == \E r \in done : r.request.key = key

\* replay: same operation, administrator and content (a reconciliation's content
\* is its reason).
Replays(request) ==
  \E r \in done :
    /\ r.request.key = request.key /\ r.request.op = request.op
    /\ r.request.admin = request.admin
    /\ request.op = "adjust" => r.request.value = request.value

Apply(request, delta) ==
  /\ stored' = IF request.op = "adjust" THEN stored + delta ELSE stored
  /\ ledger' = ledger + delta
  /\ done' = done \union {[request |-> request, delta |-> delta]}

\* With a bug: a reconciliation that finds nothing to do is accepted.
ReconciledAgain(request) == FALSE
Reconciled(request) == request.op = "confirm" /\ Difference = 0
Overdrawn(request) == request.op = "adjust" /\ stored + request.value < 0

Serve(request, status) ==
  \/ Used(request.key) /\ Replays(request) /\ status = "ok" /\ UNCHANGED ledgers
  \/ Used(request.key) /\ ~Replays(request) /\ status = "conflict" /\ UNCHANGED ledgers
  \/ /\ ~Used(request.key)
     /\ \/ Reconciled(request) /\ status = "conflict" /\ UNCHANGED ledgers
        \/ Overdrawn(request) /\ status = "refused" /\ UNCHANGED ledgers
        \/ /\ ~Reconciled(request) /\ ~Overdrawn(request) /\ status = "ok"
           /\ Apply(request, IF request.op = "adjust" THEN request.value ELSE Difference)

Receive(a) ==
  /\ Pending(a) /\ panel[a].request.stage = "sent"
  /\ \E status \in {"ok", "conflict", "refused"} :
       /\ Serve(panel[a].request.content, status)
       /\ panel' = [panel EXCEPT ![a].request.stage = "answered", ![a].request.status = status]
  /\ UNCHANGED <<keys, lifecycle, wish, stray>>

ReceiveStray(request) ==
  /\ request \in stray
  /\ stray' = stray \ {request}
  /\ \E status \in {"ok", "conflict", "refused"} : Serve(request, status)
  /\ UNCHANGED <<keys, panel, lifecycle, wish>>

\* The rest of the API moves the balance and the events together.
Move(gain) ==
  /\ stored + gain \in 0..MaxStored
  /\ stored' = stored + gain /\ ledger' = ledger + gain
  /\ UNCHANGED <<done, keys, panel, lifecycle, wish, stray>>

PanelNext ==
  \/ \E a \in Admins :
       \/ Refetch(a) \/ OpenPanel(a) \/ ClosePanel(a) \/ SubmitPanel(a) \/ Settle(a)
       \/ ConnectionFails(a) \/ Remount(a) \/ Receive(a)
       \/ \E delta \in Deltas : Edit(a, delta)
  \/ \E request \in stray : ReceiveStray(request)
  \/ \E gain \in Gains : Move(gain)

PanelSpec == PanelInit /\ [][PanelNext]_panelVars

-----------------------------------------------------------------------------
\* A dialog is open as long as its request is pending, and the key of a pending
\* request is that of its life cycle.
PanelTypeOK ==
  /\ stored \in Nat /\ ledger \in Int
  /\ done \subseteq [request : PanelRequest, delta : Int]
  /\ keys \in 0..MaxKeys
  /\ \A a \in Admins :
       /\ panel[a].difference \in Int
       /\ Form(a).dialog \in Ops \union {"none"}
       /\ Pending(a) =>
            /\ panel[a].request.content \in PanelRequest
            /\ Form(a).dialog = panel[a].request.content.op
            /\ lifecycle[a][Form(a).dialog].key = panel[a].request.content.key
  /\ stray \subseteq PanelRequest

(***************************************************************************)
(* However often the administrator submits a form because no answer came,  *)
(* and however late the earlier requests arrive, what they want is done at *)
(* most once.                                                              *)
(***************************************************************************)
OncePerWish ==
  \A r, s \in done :
    r.request.admin = s.request.admin /\ r.request.op = s.request.op
      /\ r.request.wish = s.request.wish => r = s

(***************************************************************************)
(* "Operation registered" means that it was: for a wish answered with      *)
(* success there is an application that says so.  A key kept too long       *)
(* would answer with what an earlier wish did.                             *)
(***************************************************************************)
SuccessMeansDone ==
  \A a \in Admins :
    Pending(a) /\ panel[a].request.status = "ok" =>
      LET asked == panel[a].request.content IN
        \E r \in done : r.request.admin = a /\ r.request.op = asked.op
                          /\ r.request.wish = asked.wish /\ r.request.value = asked.value

(***************************************************************************)
(* A reconciliation posts the divergence the administrator reviewed, though *)
(* the request does not carry it and the divergence shown may be old:      *)
(* nothing in the API changes a divergence but to zero.                    *)
(***************************************************************************)
PostsWhatWasReviewed ==
  \A r \in done : r.request.op = "confirm" => r.delta = r.request.value

(***************************************************************************)
(* Together: what administrators want is done once, told as done only      *)
(* then, and as they saw it, whatever answers are lost or late.            *)
(***************************************************************************)
OperationsAreAsWished == OncePerWish /\ SuccessMeansDone /\ PostsWhatWasReviewed

(***************************************************************************)
(* Not kept by the code (README, "What the code does not keep").           *)
(* The adjustment the panel fills in for a divergence removes it, when     *)
(* nothing has happened since.                                             *)
(***************************************************************************)
PreparedAdjustmentReconciles ==
  [][ \A r \in done' \ done :
        r.request.op = "adjust" /\ r.request.prepared /\ r.delta = -Difference
        => stored' = ledger' ]_panelVars
=============================================================================
