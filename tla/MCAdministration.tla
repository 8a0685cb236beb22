--------------------------- MODULE MCAdministration --------------------------
(* What those who run the event do and see: Restore, and Releases for a       *)
(* deployment and a rollback, on the host; AuditContract, and AuditTrail for  *)
(* what it records of concurrent changes; OperationPanel and Screens in the   *)
(* browser.  They share no variable; each initial state explores one of them. *)
EXTENDS Restore, Releases, AuditTrail, OperationPanel, Screens, TLC

VARIABLE part

\* A balance one below the sum of its events.
Histories == {[stored |-> 1, ledger |-> 2]}
Spent == {-1}

Init ==
  /\ part \in {"restore", "releases", "contract", "trail", "panel", "screens"}
  /\ RestoreInit /\ ReleaseInit /\ ContractInit /\ TrailInit /\ PanelInit /\ ScreensInit
  /\ part # "trail" => kind = "participant"
  /\ IF part = "screens" THEN \E u \in Users : role[u] = "PARTICIPANT"
                         ELSE role = [u \in Users |-> "GENERAL"]

hostVars == <<restoreVars, releaseVars>>
auditVars == <<contractVars, trailVars>>
browserVars == <<panelVars, screenVars>>

Next ==
  \/ part = "restore" /\ RestoreNext /\ UNCHANGED <<part, releaseVars, auditVars, browserVars>>
  \/ part = "releases" /\ ReleaseNext /\ UNCHANGED <<part, restoreVars, auditVars, browserVars>>
  \/ part = "trail" /\ TrailNext /\ UNCHANGED <<part, contractVars, hostVars, browserVars>>
  \/ part = "contract" /\ ContractNext /\ UNCHANGED <<part, trailVars, hostVars, browserVars>>
  \/ part = "panel" /\ PanelNext /\ UNCHANGED <<part, screenVars, hostVars, auditVars>>
  \/ part = "screens" /\ ScreensNext /\ UNCHANGED <<part, panelVars, hostVars, auditVars>>

Spec == Init /\ [][Next]_<<part, hostVars, auditVars, browserVars>>

\* Admins and Users are the set Administrators, no two of them used from one initial state.
Symmetry == Permutations(Administrators)
=============================================================================
