--------------------------- MODULE DeploymentProofs ---------------------------
(***************************************************************************)
(* Proofs about the scripts of the hosts: restoring a backup (Restore) and *)
(* deploying or rolling back a release (Releases).                         *)
(***************************************************************************)
EXTENDS Restore, Releases, TLAPS

-----------------------------------------------------------------------------
(* Restore.  The inductive invariant says, of every command, where the     *)
(* original database is and what the variables of the two shells tell of   *)
(* it.                                                                     *)

\* The commands before the swap is reported, in their order; after it; the trap
\* of the shell that swaps; and the rollback.
Preparing == {"download", "enterMaintenance", "createRestore"}
Swapping == {"pgRestore", "blockTarget", "terminate", "renameTarget", "renameRestore"}
Checking == {"migrate", "startApplication", "waitForHealth", "dropPrevious"}
Undoing == {"undoRename", "undoBlock", "undoCreate", "swapFailed"}
RollingBack == {"rollbackMaintenance", "rollbackBlock", "rollbackTerminate", "rollbackTarget",
                "rollbackPrevious", "rollbackAllow", "rollbackDrop"}
RollbackFailed == {"rollbackCleanup", "rollbackReopen"}

Replacement == {"restored", "partly", "migrated"}
Is(n, content, open) == db[n].content = content /\ db[n].open = open
SetAside == Is("previous", "original", FALSE)
InPlace == Is("target", "original", TRUE) /\ ~Exists("previous")

\* The two databases have been swapped.
Swapped == SetAside /\ db["target"].content \in Replacement /\ ~Exists("restore") /\ ~Exists("failed")

\* What the flags of the shell that swaps tell of the databases.
FlagsOfTheSwap ==
  /\ flags \in {{}, {"restore_created"}, {"restore_created", "target_blocked"},
                {"restore_created", "target_blocked", "target_renamed"}}
  /\ ~Exists("failed")
  /\ db["restore"].content \in {"none", "empty", "restored"}
AsFlagged ==
  IF "target_renamed" \in flags THEN SetAside /\ ~Exists("target")
  ELSE Is("target", "original", "target_blocked" \notin flags) /\ ~Exists("previous")

RestoreFrame == exit = "failed" /\ "replacement_validated" \notin sh

WhilePreparing ==
  /\ restorePc \in Preparing
  /\ RestoreFrame /\ InPlace /\ flags = {}
  /\ ~Exists("restore") /\ ~Exists("failed")
  /\ "swap_completed" \notin sh /\ "recovery_failed" \notin sh
  /\ restorePc = "createRestore" => "maintenance_started" \in sh /\ "application_running" \notin sh
  /\ restorePc # "createRestore" => running = RestoreServices
  /\ restorePc = "download" => "maintenance_started" \notin sh
WhileSwapping ==
  /\ restorePc \in Swapping
  /\ RestoreFrame /\ FlagsOfTheSwap /\ AsFlagged
  /\ flags = CASE restorePc \in {"pgRestore", "blockTarget"} -> {"restore_created"}
               [] restorePc \in {"terminate", "renameTarget"} -> {"restore_created", "target_blocked"}
               [] OTHER -> {"restore_created", "target_blocked", "target_renamed"}
  /\ Is("restore", IF restorePc = "pgRestore" THEN "empty" ELSE "restored", TRUE)
  /\ "swap_completed" \notin sh /\ "recovery_failed" \notin sh
  /\ "maintenance_started" \in sh /\ "application_running" \notin sh
WhenSwapped ==
  /\ restorePc = "swapped"
  /\ RestoreFrame /\ Swapped /\ Is("target", "restored", TRUE)
  /\ "swap_completed" \notin sh /\ "recovery_failed" \notin sh
  /\ "maintenance_started" \in sh /\ "application_running" \notin sh
WhileChecking ==
  /\ restorePc \in Checking
  /\ exit = "failed" /\ Swapped /\ db["target"].open
  /\ "swap_completed" \in sh /\ "recovery_failed" \notin sh
  /\ "maintenance_started" \in sh
  /\ "replacement_validated" \in sh <=> restorePc = "dropPrevious"
  /\ restorePc # "migrate" => db["target"].content = "migrated"
  /\ restorePc \in {"waitForHealth", "dropPrevious"} =>
       running = RestoreServices /\ "application_running" \in sh
  /\ restorePc \in {"migrate", "startApplication"} => "application_running" \notin sh
WhileUndoing ==
  /\ restorePc \in Undoing
  /\ RestoreFrame /\ FlagsOfTheSwap
  /\ "swap_completed" \notin sh
  /\ "maintenance_started" \in sh /\ "application_running" \notin sh
  /\ restorePc = "undoRename" => AsFlagged /\ "recovery_failed" \notin sh
  /\ restorePc = "undoBlock" =>
       IF "recovery_failed" \in sh
       THEN "target_blocked" \in flags /\ SetAside /\ ~Exists("target")
       ELSE Is("target", "original", "target_blocked" \notin flags) /\ ~Exists("previous")
  /\ restorePc \in {"undoCreate", "swapFailed"} =>
       \/ InPlace
       \/ /\ "recovery_failed" \in sh
          /\ \/ SetAside /\ ~Exists("target")
             \/ Is("target", "original", FALSE) /\ ~Exists("previous")
AtTheTrap ==
  /\ restorePc = "cleanup"
  /\ exit = "failed"
  /\ "swap_completed" \in sh =>
       /\ Swapped /\ db["target"].open
       /\ "recovery_failed" \notin sh /\ "maintenance_started" \in sh
       /\ "replacement_validated" \in sh =>
            /\ db["target"].content = "migrated" /\ "application_running" \in sh
            /\ running = RestoreServices
  /\ "swap_completed" \notin sh =>
       /\ "replacement_validated" \notin sh
       /\ db["target"].content = "original" \/ db["previous"].content = "original"
       /\ ~LostAnswers => Is("target", "original", TRUE) \/ "recovery_failed" \in sh
       /\ "recovery_failed" \notin sh =>
            \/ running = RestoreServices
            \/ "maintenance_started" \in sh /\ "application_running" \notin sh
WhileRollingBack ==
  /\ restorePc \in RollingBack
  /\ RestoreFrame
  /\ "swap_completed" \in sh /\ "recovery_failed" \notin sh
  /\ "maintenance_started" \in sh
  /\ restorePc # "rollbackMaintenance" => "application_running" \notin sh
  /\ ~Exists("restore")
  /\ restorePc \in {"rollbackMaintenance", "rollbackBlock"} => flags = {} /\ Swapped
  /\ restorePc \in {"rollbackTerminate", "rollbackTarget"} => flags = {"target_blocked"} /\ Swapped
  /\ restorePc = "rollbackPrevious" =>
       /\ flags = {"target_blocked", "failed_renamed"}
       /\ SetAside /\ ~Exists("target") /\ db["failed"].content \in Replacement
  /\ restorePc \in {"rollbackAllow", "rollbackDrop"} =>
       /\ flags = {"target_blocked", "failed_renamed", "previous_renamed"}
       /\ Is("target", "original", restorePc = "rollbackDrop")
       /\ ~Exists("previous") /\ db["failed"].content \in Replacement
WhenTheRollbackFailed ==
  /\ restorePc \in RollbackFailed
  /\ RestoreFrame
  /\ restorePc = "rollbackReopen" => "recovery_failed" \in sh
  /\ \/ /\ "previous_renamed" \in flags
        /\ db["target"].content = "original" /\ ~Exists("previous")
        /\ "original" # db["failed"].content
     \/ /\ "previous_renamed" \notin flags /\ SetAside
        /\ db["target"].content # "original" /\ db["failed"].content # "original"
WhenRestarting ==
  /\ restorePc = "restart"
  /\ exit = "failed"
  /\ "replacement_validated" \notin sh =>
       db["target"].content = "original" \/ db["previous"].content = "original"
  /\ "replacement_validated" \in sh => Is("target", "migrated", TRUE) /\ "application_running" \in sh
  /\ ~LostAnswers => \/ Is("target", "original", TRUE)
                     \/ "replacement_validated" \in sh
                     \/ "recovery_failed" \in sh
  /\ "recovery_failed" \notin sh =>
       \/ running = RestoreServices
       \/ "maintenance_started" \in sh /\ "application_running" \notin sh
WhenOver ==
  /\ restorePc \in {"ended", "killed"}
  /\ "replacement_validated" \notin sh =>
       db["target"].content = "original" \/ db["previous"].content = "original"
  /\ restorePc = "ended" /\ ~LostAnswers => OutcomeIsAsReported

\* A command fails only once in the course of the script itself, and a second time in
\* what undoes it; what cannot be undone has failed twice.
FaultsTell ==
  /\ restorePc \in Preparing \union Swapping \union Checking \union {"swapped"} => faults = 0
  /\ restorePc \in Undoing \union RollingBack \union {"cleanup", "restart"} => faults >= 1
  /\ restorePc \in RollbackFailed => faults >= 2

RestorePhase ==
  \/ WhilePreparing \/ WhileSwapping \/ WhenSwapped \/ WhileChecking \/ WhileUndoing
  \/ AtTheTrap \/ WhileRollingBack \/ WhenTheRollbackFailed \/ WhenRestarting \/ WhenOver

FailsTwice == "recovery_failed" \in sh => faults >= 2

RestoreInv == RestoreTypeOK /\ FaultsTell /\ FailsTwice /\ RestorePhase

-----------------------------------------------------------------------------
(* Every step keeps the invariant.                                         *)

\* The command that comes next tells the phase.
LEMMA PhaseOf ==
  ASSUME RestoreInv
  PROVE  /\ restorePc \in Preparing => WhilePreparing /\ faults = 0
         /\ restorePc \in Swapping => WhileSwapping /\ faults = 0
         /\ restorePc = "swapped" => WhenSwapped /\ faults = 0
         /\ restorePc \in Checking => WhileChecking /\ faults = 0
         /\ restorePc \in Undoing => WhileUndoing /\ faults >= 1
         /\ restorePc = "cleanup" => AtTheTrap /\ faults >= 1
         /\ restorePc \in RollingBack => WhileRollingBack /\ faults >= 1
         /\ restorePc \in RollbackFailed => WhenTheRollbackFailed /\ faults >= 2
         /\ restorePc = "restart" => WhenRestarting /\ faults >= 1
BY DEF RestoreInv, RestorePhase, FaultsTell, WhilePreparing, WhileSwapping, WhenSwapped, WhileChecking,
  WhileUndoing, AtTheTrap, WhileRollingBack, WhenTheRollbackFailed, WhenRestarting, WhenOver,
  Preparing, Swapping, Checking, Undoing, RollingBack, RollbackFailed

Database == [content : Contents, open : BOOLEAN]
Flags == {"restore_created", "target_blocked", "target_renamed", "restore_renamed",
          "failed_renamed", "previous_renamed"}
Marks == {"application_running", "maintenance_started", "swap_completed",
          "replacement_validated", "recovery_failed"}

\* The values a step may give the databases are well typed.
LEMMA DatabasesTyped ==
  ASSUME db \in [Names -> Database], NEW a \in Names, NEW b \in Names, NEW yes \in BOOLEAN,
         NEW c \in Contents
  PROVE  /\ [db EXCEPT ![b] = db[a], ![a] = NoDatabase] \in [Names -> Database]
         /\ [db EXCEPT ![a].open = yes] \in [Names -> Database]
         /\ [db EXCEPT ![a] = NoDatabase] \in [Names -> Database]
         /\ [db EXCEPT ![a].content = c] \in [Names -> Database]
         /\ [db EXCEPT ![a] = [content |-> c, open |-> TRUE]] \in [Names -> Database]
<1>1. NoDatabase \in Database /\ [content |-> c, open |-> TRUE] \in Database
  BY DEF NoDatabase, Database, Contents
<1>2. [db[a] EXCEPT !.open = yes] \in Database /\ [db[a] EXCEPT !.content = c] \in Database
  BY DEF Database
<1> QED BY <1>1, <1>2

\* No command leaves a database that is not well typed.
LEMMA DatabasesStayTyped ==
  ASSUME db \in [Names -> Database], RestoreNext
  PROVE  db' \in [Names -> Database]
<1>1. /\ "target" \in Names /\ "restore" \in Names /\ "previous" \in Names /\ "failed" \in Names
      /\ "empty" \in Contents /\ "restored" \in Contents /\ "partly" \in Contents /\ "migrated" \in Contents
  BY DEF Names, Contents
<1> DEFINE Typed(d) == d \in [Names -> Database]
<1>2. \A a, b \in Names : Typed([db EXCEPT ![b] = db[a], ![a] = NoDatabase])
  BY DatabasesTyped DEF Contents
<1>3. \A a \in Names, yes \in BOOLEAN : Typed([db EXCEPT ![a].open = yes])
  BY DatabasesTyped DEF Contents
<1>4. \A a \in Names : Typed([db EXCEPT ![a] = NoDatabase])
  BY DatabasesTyped DEF Contents
<1>5. \A a \in Names, c \in Contents : Typed([db EXCEPT ![a].content = c])
  BY DatabasesTyped
<1>6. \A a \in Names, c \in Contents : Typed([db EXCEPT ![a] = [content |-> c, open |-> TRUE]])
  BY DatabasesTyped
<1>7. Typed(db)
  OBVIOUS
<1> HIDE DEF Typed
<1>8. ASSUME CreateRestore
      PROVE  Typed(db')
  BY <1>1, <1>6, <1>7, <1>8 DEF CreateRestore, Sql
<1>9. ASSUME PgRestore
      PROVE  Typed(db')
  BY <1>1, <1>5, <1>7, <1>9 DEF PgRestore, Sql
<1>10. ASSUME BlockTarget
      PROVE  Typed(db')
  BY <1>1, <1>3, <1>7, <1>10 DEF BlockTarget, Allow, Sql
<1>11. ASSUME Terminate
      PROVE  Typed(db')
  BY <1>1, <1>7, <1>11 DEF Terminate, Sql
<1>12. ASSUME RenameTarget
      PROVE  Typed(db')
  BY <1>1, <1>2, <1>7, <1>12 DEF RenameTarget, Rename, Sql
<1>13. ASSUME RenameRestore
      PROVE  Typed(db')
  BY <1>1, <1>2, <1>7, <1>13 DEF RenameRestore, Rename, Sql
<1>14. ASSUME UndoRename
      PROVE  Typed(db')
  BY <1>1, <1>2, <1>7, <1>14 DEF UndoRename, Undo, Rename, Sql
<1>15. ASSUME UndoBlock
      PROVE  Typed(db')
  BY <1>1, <1>3, <1>7, <1>15 DEF UndoBlock, Undo, Allow, Sql
<1>16. ASSUME UndoCreate
      PROVE  Typed(db')
  BY <1>1, <1>4, <1>7, <1>16 DEF UndoCreate, Undo, Drop, Sql
<1>17. ASSUME RestoreMigrate
      PROVE  Typed(db')
  BY <1>1, <1>5, <1>7, <1>17 DEF RestoreMigrate
<1>18. ASSUME DropPreviousDatabase
      PROVE  Typed(db')
  BY <1>1, <1>4, <1>7, <1>18 DEF DropPreviousDatabase, Drop, Sql
<1>19. ASSUME RollbackBlock
      PROVE  Typed(db')
  BY <1>1, <1>3, <1>7, <1>19 DEF RollbackBlock, Allow, Sql
<1>20. ASSUME RollbackTerminate
      PROVE  Typed(db')
  BY <1>1, <1>7, <1>20 DEF RollbackTerminate, Sql
<1>21. ASSUME RollbackTarget
      PROVE  Typed(db')
  BY <1>1, <1>2, <1>7, <1>21 DEF RollbackTarget, Rename, Sql
<1>22. ASSUME RollbackPrevious
      PROVE  Typed(db')
  BY <1>1, <1>2, <1>7, <1>22 DEF RollbackPrevious, Rename, Sql
<1>23. ASSUME RollbackAllow
      PROVE  Typed(db')
  BY <1>1, <1>3, <1>7, <1>23 DEF RollbackAllow, Allow, Sql
<1>24. ASSUME RollbackDrop
      PROVE  Typed(db')
  BY <1>1, <1>4, <1>7, <1>24 DEF RollbackDrop, Drop, Sql
<1>25. ASSUME RollbackCleanup
      PROVE  Typed(db')
  BY <1>1, <1>2, <1>7, <1>25 DEF RollbackCleanup, Rename, Sql
<1>26. ASSUME RollbackReopen
      PROVE  Typed(db')
  BY <1>1, <1>3, <1>7, <1>26 DEF RollbackReopen, Undo, Allow, Sql
<1>27. ASSUME UNCHANGED db
      PROVE  Typed(db')
  BY <1>7, <1>27
<1>28. Typed(db')
  BY <1>8, <1>9, <1>10, <1>11, <1>12, <1>13, <1>14, <1>15, <1>16, <1>17, <1>18, <1>19,
    <1>20, <1>21, <1>22, <1>23, <1>24, <1>25, <1>26, <1>27
    DEF RestoreNext, Download, EnterMaintenance, SwapAnswers,
    StartApplication, RestoreWaitForHealth, Cleanup, RollbackMaintenance, RestoreRestart, Kill
<1> QED BY <1>28 DEF Typed

\* Every step keeps the types.
LEMMA RestoreStaysTyped ==
  ASSUME RestoreTypeOK, RestoreNext
  PROVE  RestoreTypeOK'
<1>1. db' \in [Names -> Database]
  BY DatabasesStayTyped DEF RestoreTypeOK, Database
<1> USE DEF RestoreTypeOK, RestoreNext,
  Download, EnterMaintenance, CreateRestore, PgRestore, BlockTarget, Terminate,
  RenameTarget, RenameRestore, UndoRename, UndoBlock, UndoCreate, Undo, SwapAnswers,
  RestoreMigrate, StartApplication, RestoreWaitForHealth, DropPreviousDatabase, Cleanup,
  RollbackMaintenance, RollbackBlock, RollbackTerminate, RollbackTarget, RollbackPrevious,
  RollbackAllow, RollbackDrop, RollbackCleanup, RollbackReopen, RestoreRestart, Kill
<1>2. running' \subseteq RestoreServices
  BY DEF StartServices, StopServices
<1>3. flags' \subseteq Flags
  BY DEF Flags, Rename, Allow, Drop, Sql
<1>4. sh' \subseteq Marks
  BY DEF Marks, StartServices, StopServices, Report
<1>5. exit' \in {"ok", "failed"}
  OBVIOUS
<1>6. faults' \in 0..MaxRestoreFaults
  <2>1. NoFault \/ Fault \/ UNCHANGED faults
    BY DEF StartServices, StopServices, Rename, Allow, Drop, Sql
  <2> QED BY <2>1, RestoreAssumption DEF NoFault, Fault
<1> QED
  BY <1>1, <1>2, <1>3, <1>4, <1>5, <1>6
    DEF Database, Flags, Marks, StartServices, StopServices, Rename, Allow, Drop, Sql, RestoreAfter,
      Trap, SwapTrap, RollbackTrap

\* The vocabulary of the phases, for what follows.
USE DEF Preparing, Swapping, Checking, Undoing, RollingBack, RollbackFailed, RestoreFrame,
  InPlace, SetAside, Is, Exists, Names, Database, NoDatabase, FlagsOfTheSwap, AsFlagged,
  Swapped, Replacement

\* The archive is there, or the script goes to its trap with nothing done.
LEMMA DownloadPhase ==
  ASSUME RestoreInv, Download
  PROVE  FaultsTell' /\ RestorePhase'
<1>1. restorePc = "download" /\ WhilePreparing /\ faults = 0
  BY PhaseOf DEF Download
<1>2. db \in [Names -> Database] /\ faults \in Nat
  BY DEF RestoreInv, RestoreTypeOK
<1>3. ASSUME restorePc' = "enterMaintenance", faults' = faults,
             UNCHANGED <<db, running, flags, sh, exit>>
      PROVE  FaultsTell' /\ RestorePhase'
  BY <1>1, <1>2, <1>3 DEF WhilePreparing, FaultsTell, RestorePhase
<1>4. ASSUME restorePc' = "cleanup", faults' = faults + 1,
             UNCHANGED <<db, running, flags, sh, exit>>
      PROVE  FaultsTell' /\ RestorePhase'
  BY <1>1, <1>2, <1>4 DEF WhilePreparing, AtTheTrap, FaultsTell, RestorePhase
<1> QED BY <1>1, <1>2, <1>3, <1>4 DEF Download, Trap, WhilePreparing, Fault, NoFault

\* The services are stopped, all or some of them, and the mark that starts them
\* again is set.
LEMMA EnterMaintenancePhase ==
  ASSUME RestoreInv, EnterMaintenance
  PROVE  FaultsTell' /\ RestorePhase'
<1>1. restorePc = "enterMaintenance" /\ WhilePreparing /\ faults = 0
  BY PhaseOf DEF EnterMaintenance
<1>2. db \in [Names -> Database] /\ faults \in Nat
  BY DEF RestoreInv, RestoreTypeOK
<1>3. ASSUME restorePc' = "createRestore", faults' = faults,
             sh' = (sh \union {"maintenance_started"}) \ {"application_running"},
             UNCHANGED <<db, flags, exit>>
      PROVE  FaultsTell' /\ RestorePhase'
  BY <1>1, <1>2, <1>3 DEF WhilePreparing, FaultsTell, RestorePhase
<1>4. ASSUME restorePc' = "cleanup", faults' = faults + 1,
             sh' = (sh \union {"maintenance_started"}) \ {"application_running"},
             UNCHANGED <<db, flags, exit>>
      PROVE  FaultsTell' /\ RestorePhase'
  BY <1>1, <1>2, <1>4 DEF WhilePreparing, AtTheTrap, FaultsTell, RestorePhase
<1> QED BY <1>1, <1>2, <1>3, <1>4 DEF EnterMaintenance, StopServices, Trap, WhilePreparing,
  Fault, NoFault

\* From here to the swap a command that fails leads to the trap of the shell, with
\* the flags telling what was done.
LEMMA CreateRestorePhase ==
  ASSUME RestoreInv, CreateRestore
  PROVE  FaultsTell' /\ RestorePhase'
<1>1. restorePc = "createRestore" /\ WhilePreparing /\ faults = 0
  BY PhaseOf DEF CreateRestore
<1>2. db \in [Names -> Database] /\ faults \in Nat
  BY DEF RestoreInv, RestoreTypeOK
<1>3. ASSUME restorePc' = "pgRestore",
             db' = [db EXCEPT !["restore"] = [content |-> "empty", open |-> TRUE]],
             flags' = {"restore_created"}, faults' = faults, UNCHANGED <<running, sh, exit>>
      PROVE  FaultsTell' /\ RestorePhase'
  BY <1>1, <1>2, <1>3 DEF WhilePreparing, WhileSwapping, FaultsTell, RestorePhase
<1>4. ASSUME restorePc' = "undoRename", db' = db, flags' = flags, faults' = faults + 1,
             UNCHANGED <<running, sh, exit>>
      PROVE  FaultsTell' /\ RestorePhase'
  BY <1>1, <1>2, <1>4 DEF WhilePreparing, WhileUndoing, FaultsTell, RestorePhase
<1> QED BY <1>1, <1>2, <1>3, <1>4 DEF CreateRestore, Sql, SwapTrap, WhilePreparing, Fault,
  NoFault

LEMMA PgRestorePhase ==
  ASSUME RestoreInv, PgRestore
  PROVE  FaultsTell' /\ RestorePhase'
<1>1. restorePc = "pgRestore" /\ WhileSwapping /\ faults = 0
  BY PhaseOf DEF PgRestore
<1>2. db \in [Names -> Database] /\ faults \in Nat
  BY DEF RestoreInv, RestoreTypeOK
<1>3. ASSUME restorePc' = "blockTarget", db' = [db EXCEPT !["restore"].content = "restored"],
             flags' = flags, faults' = faults, UNCHANGED <<running, sh, exit>>
      PROVE  FaultsTell' /\ RestorePhase'
  BY <1>1, <1>2, <1>3 DEF WhileSwapping, FaultsTell, RestorePhase
<1>4. ASSUME restorePc' = "undoRename", db' = db, flags' = flags, faults' = faults + 1,
             UNCHANGED <<running, sh, exit>>
      PROVE  FaultsTell' /\ RestorePhase'
  BY <1>1, <1>2, <1>4 DEF WhileSwapping, WhileUndoing, FaultsTell, RestorePhase
<1> QED BY <1>1, <1>2, <1>3, <1>4 DEF PgRestore, Sql, SwapTrap, WhileSwapping, Fault, NoFault

LEMMA BlockTargetPhase ==
  ASSUME RestoreInv, BlockTarget
  PROVE  FaultsTell' /\ RestorePhase'
<1>1. restorePc = "blockTarget" /\ WhileSwapping /\ faults = 0
  BY PhaseOf DEF BlockTarget
<1>2. db \in [Names -> Database] /\ faults \in Nat
  BY DEF RestoreInv, RestoreTypeOK
<1>3. ASSUME restorePc' = "terminate", db' = [db EXCEPT !["target"].open = FALSE],
             flags' = flags \union {"target_blocked"}, faults' = faults,
             UNCHANGED <<running, sh, exit>>
      PROVE  FaultsTell' /\ RestorePhase'
  BY <1>1, <1>2, <1>3 DEF WhileSwapping, FaultsTell, RestorePhase
<1>4. ASSUME restorePc' = "undoRename", db' = db, flags' = flags, faults' = faults + 1,
             UNCHANGED <<running, sh, exit>>
      PROVE  FaultsTell' /\ RestorePhase'
  BY <1>1, <1>2, <1>4 DEF WhileSwapping, WhileUndoing, FaultsTell, RestorePhase
<1> QED BY <1>1, <1>2, <1>3, <1>4 DEF BlockTarget, Allow, Sql, SwapTrap, WhileSwapping, Fault,
  NoFault

LEMMA TerminatePhase ==
  ASSUME RestoreInv, Terminate
  PROVE  FaultsTell' /\ RestorePhase'
<1>1. restorePc = "terminate" /\ WhileSwapping /\ faults = 0
  BY PhaseOf DEF Terminate
<1>2. db \in [Names -> Database] /\ faults \in Nat
  BY DEF RestoreInv, RestoreTypeOK
<1>3. ASSUME restorePc' = "renameTarget", db' = db, flags' = flags, faults' = faults,
             UNCHANGED <<running, sh, exit>>
      PROVE  FaultsTell' /\ RestorePhase'
  BY <1>1, <1>2, <1>3 DEF WhileSwapping, FaultsTell, RestorePhase
<1>4. ASSUME restorePc' = "undoRename", db' = db, flags' = flags, faults' = faults + 1,
             UNCHANGED <<running, sh, exit>>
      PROVE  FaultsTell' /\ RestorePhase'
  BY <1>1, <1>2, <1>4 DEF WhileSwapping, WhileUndoing, FaultsTell, RestorePhase
<1> QED BY <1>1, <1>2, <1>3, <1>4 DEF Terminate, Sql, SwapTrap, WhileSwapping, Fault, NoFault

LEMMA RenameTargetPhase ==
  ASSUME RestoreInv, RenameTarget
  PROVE  FaultsTell' /\ RestorePhase'
<1>1. restorePc = "renameTarget" /\ WhileSwapping /\ faults = 0
  BY PhaseOf DEF RenameTarget
<1>2. db \in [Names -> Database] /\ faults \in Nat
  BY DEF RestoreInv, RestoreTypeOK
<1>3. ASSUME restorePc' = "renameRestore", db' = [db EXCEPT !["previous"] = db["target"],
             !["target"] = NoDatabase], flags' = flags \union {"target_renamed"},
             faults' = faults, UNCHANGED <<running, sh, exit>>
      PROVE  FaultsTell' /\ RestorePhase'
  BY <1>1, <1>2, <1>3 DEF WhileSwapping, FaultsTell, RestorePhase
<1>4. ASSUME restorePc' = "undoRename", db' = db, flags' = flags, faults' = faults + 1,
             UNCHANGED <<running, sh, exit>>
      PROVE  FaultsTell' /\ RestorePhase'
  BY <1>1, <1>2, <1>4 DEF WhileSwapping, WhileUndoing, FaultsTell, RestorePhase
<1> QED BY <1>1, <1>2, <1>3, <1>4 DEF RenameTarget, Rename, Sql, SwapTrap, WhileSwapping, Fault,
  NoFault

\* The archive takes the name of the target: the swap is done.
LEMMA RenameRestorePhase ==
  ASSUME RestoreInv, RenameRestore
  PROVE  FaultsTell' /\ RestorePhase'
<1>1. restorePc = "renameRestore" /\ WhileSwapping /\ faults = 0
  BY PhaseOf DEF RenameRestore
<1>2. db \in [Names -> Database] /\ faults \in Nat
  BY DEF RestoreInv, RestoreTypeOK
<1>3. ASSUME restorePc' = "swapped", db' = [db EXCEPT !["target"] = db["restore"],
             !["restore"] = NoDatabase], flags' = flags \union {"restore_renamed"},
             faults' = faults, UNCHANGED <<running, sh, exit>>
      PROVE  FaultsTell' /\ RestorePhase'
  BY <1>1, <1>2, <1>3 DEF WhileSwapping, WhenSwapped, FaultsTell, RestorePhase
<1>4. ASSUME restorePc' = "undoRename", db' = db, flags' = flags, faults' = faults + 1,
             UNCHANGED <<running, sh, exit>>
      PROVE  FaultsTell' /\ RestorePhase'
  BY <1>1, <1>2, <1>4 DEF WhileSwapping, WhileUndoing, FaultsTell, RestorePhase
<1> QED BY <1>1, <1>2, <1>3, <1>4 DEF RenameRestore, Rename, Sql, SwapTrap, WhileSwapping,
  Fault, NoFault

-----------------------------------------------------------------------------
(* The trap of the swap.                                                   *)

\* The target gets its name back, or the failure is told.
LEMMA UndoRenamePhase ==
  ASSUME RestoreInv, UndoRename
  PROVE  FaultsTell' /\ RestorePhase'
<1>1. restorePc = "undoRename" /\ WhileUndoing /\ faults >= 1
  BY PhaseOf DEF UndoRename
<1>2. db \in [Names -> Database] /\ faults \in Nat
  BY DEF RestoreInv, RestoreTypeOK
<1>3. ASSUME MustUnrename, restorePc' = "undoBlock",
             db' = [db EXCEPT !["target"] = db["previous"], !["previous"] = NoDatabase],
             flags' = flags, sh' = sh, faults' = faults, UNCHANGED <<running, exit>>
      PROVE  FaultsTell' /\ RestorePhase'
  BY <1>1, <1>2, <1>3 DEF MustUnrename, WhileUndoing, FaultsTell, RestorePhase
<1>4. ASSUME MustUnrename, restorePc' = "undoBlock", db' = db, flags' = flags,
             sh' = sh \union {"recovery_failed"}, faults' = faults + 1,
             UNCHANGED <<running, exit>>
      PROVE  FaultsTell' /\ RestorePhase'
  BY <1>1, <1>2, <1>4 DEF MustUnrename, WhileUndoing, FaultsTell, RestorePhase
<1>5. ASSUME ~MustUnrename, restorePc' = "undoBlock", faults' = faults,
             UNCHANGED <<db, flags, sh, running, exit>>
      PROVE  FaultsTell' /\ RestorePhase'
  BY <1>1, <1>2, <1>5 DEF MustUnrename, WhileUndoing, FaultsTell, RestorePhase
<1>6. MustUnrename =>
        /\ Exists("previous") /\ ~Exists("target")
        /\ [db EXCEPT !["target"] = db["previous"], !["previous"] = NoDatabase] # db
  BY <1>1, <1>2 DEF MustUnrename, WhileUndoing
<1> QED BY <1>1, <1>2, <1>3, <1>4, <1>5, <1>6 DEF UndoRename, MustUnrename, Undo, Report,
  Rename, Sql, WhileUndoing, Fault, NoFault

\* The target is opened again, or the failure is told.
LEMMA UndoBlockPhase ==
  ASSUME RestoreInv, UndoBlock
  PROVE  FaultsTell' /\ RestorePhase'
<1>1. restorePc = "undoBlock" /\ WhileUndoing /\ faults >= 1
  BY PhaseOf DEF UndoBlock
<1>2. db \in [Names -> Database] /\ faults \in Nat
  BY DEF RestoreInv, RestoreTypeOK
<1>3. ASSUME MustUnblock, "recovery_failed" \notin sh, restorePc' = "undoCreate",
             db' = [db EXCEPT !["target"].open = TRUE], flags' = flags, sh' = sh,
             faults' = faults, UNCHANGED <<running, exit>>
      PROVE  FaultsTell' /\ RestorePhase'
  BY <1>1, <1>2, <1>3 DEF MustUnblock, WhileUndoing, FaultsTell, RestorePhase
<1>4. ASSUME MustUnblock, restorePc' = "undoCreate", db' = db, flags' = flags,
             sh' = sh \union {"recovery_failed"}, faults' >= faults, faults' \in Nat,
             UNCHANGED <<running, exit>>
      PROVE  FaultsTell' /\ RestorePhase'
  BY <1>1, <1>2, <1>4 DEF MustUnblock, WhileUndoing, FaultsTell, RestorePhase
<1>5. ASSUME ~MustUnblock, restorePc' = "undoCreate", faults' = faults,
             UNCHANGED <<db, flags, sh, running, exit>>
      PROVE  FaultsTell' /\ RestorePhase'
  BY <1>1, <1>2, <1>5 DEF MustUnblock, WhileUndoing, FaultsTell, RestorePhase
<1> QED BY <1>1, <1>2, <1>3, <1>4, <1>5 DEF UndoBlock, MustUnblock, Undo, Report, Allow, Sql,
  WhileUndoing, Fault, NoFault

\* The database of the archive goes; the target does not depend on it.
LEMMA UndoCreatePhase ==
  ASSUME RestoreInv, UndoCreate
  PROVE  FaultsTell' /\ RestorePhase'
<1>1. restorePc = "undoCreate" /\ WhileUndoing /\ faults >= 1
  BY PhaseOf DEF UndoCreate
<1>2. db \in [Names -> Database] /\ faults \in Nat
  BY DEF RestoreInv, RestoreTypeOK
<1>3. ASSUME restorePc' = "swapFailed", db' = [db EXCEPT !["restore"] = NoDatabase],
             flags' = flags, sh' = sh, faults' = faults, UNCHANGED <<running, exit>>
      PROVE  FaultsTell' /\ RestorePhase'
  BY <1>1, <1>2, <1>3 DEF WhileUndoing, FaultsTell, RestorePhase
<1>4. ASSUME restorePc' = "swapFailed", db' = db, flags' = flags, sh' = sh, faults' >= faults,
             faults' \in Nat, UNCHANGED <<running, exit>>
      PROVE  FaultsTell' /\ RestorePhase'
  BY <1>1, <1>2, <1>4 DEF WhileUndoing, FaultsTell, RestorePhase
<1> QED BY <1>1, <1>2, <1>3, <1>4 DEF UndoCreate, Undo, Drop, Sql, WhileUndoing, Fault, NoFault

-----------------------------------------------------------------------------
(* After the swap.                                                         *)

\* The script learns that the swap is done, that it is undone, or nothing.
LEMMA SwapAnswersPhase ==
  ASSUME RestoreInv, SwapAnswers
  PROVE  FaultsTell' /\ RestorePhase'
<1>1. /\ restorePc = "swapped" => WhenSwapped /\ faults = 0
      /\ restorePc = "swapFailed" => WhileUndoing /\ faults >= 1
      /\ UNCHANGED <<db, running, flags, exit>>
  BY PhaseOf DEF SwapAnswers
<1>2. db \in [Names -> Database] /\ faults \in Nat
  BY DEF RestoreInv, RestoreTypeOK
<1>3. ASSUME restorePc = "swapped", restorePc' = "migrate",
             sh' = sh \union {"swap_completed"}, faults' = faults
      PROVE  FaultsTell' /\ RestorePhase'
  BY <1>1, <1>2, <1>3 DEF WhenSwapped, WhileChecking, FaultsTell, RestorePhase
<1>4. ASSUME restorePc = "swapFailed", restorePc' = "cleanup", sh' = sh, faults' = faults
      PROVE  FaultsTell' /\ RestorePhase'
  BY <1>1, <1>2, <1>4 DEF WhileUndoing, AtTheTrap, FaultsTell, RestorePhase
<1>5. ASSUME restorePc \in {"swapped", "swapFailed"}, LostAnswers,
             restorePc' = "cleanup", sh' = sh \ {"recovery_failed"}, faults' = faults + 1
      PROVE  FaultsTell' /\ RestorePhase'
  BY <1>1, <1>2, <1>5 DEF WhileUndoing, WhenSwapped, AtTheTrap, FaultsTell, RestorePhase
<1> QED BY <1>1, <1>3, <1>4, <1>5 DEF SwapAnswers, Fault, NoFault, RestoreAfter, Trap

\* Migrating, whole or in part, leaves the original set aside.
LEMMA RestoreMigratePhase ==
  ASSUME RestoreInv, RestoreMigrate
  PROVE  FaultsTell' /\ RestorePhase'
<1>1. restorePc = "migrate" /\ WhileChecking /\ faults = 0
  BY PhaseOf DEF RestoreMigrate
<1>2. db \in [Names -> Database] /\ faults \in Nat
  BY DEF RestoreInv, RestoreTypeOK
<1>3. ASSUME restorePc' = "startApplication",
             db' = [db EXCEPT !["target"].content = "migrated"], faults' = faults,
             UNCHANGED <<running, flags, sh, exit>>
      PROVE  FaultsTell' /\ RestorePhase'
  BY <1>1, <1>2, <1>3 DEF WhileChecking, FaultsTell, RestorePhase
<1>4. ASSUME restorePc' = "cleanup", NEW c \in {"restored", "partly"},
             db' = [db EXCEPT !["target"].content = c], faults' = faults + 1,
             UNCHANGED <<running, flags, sh, exit>>
      PROVE  FaultsTell' /\ RestorePhase'
  BY <1>1, <1>2, <1>4 DEF WhileChecking, AtTheTrap, FaultsTell, RestorePhase
<1> QED BY <1>1, <1>2, <1>3, <1>4 DEF RestoreMigrate, RestoreAfter, Trap, WhileChecking, Fault,
  NoFault

\* A start that fails in part leads to the trap with the mark of a running
\* application.
LEMMA StartApplicationPhase ==
  ASSUME RestoreInv, StartApplication
  PROVE  FaultsTell' /\ RestorePhase'
<1>1. restorePc = "startApplication" /\ WhileChecking /\ faults = 0
  BY PhaseOf DEF StartApplication
<1>2. db \in [Names -> Database] /\ faults \in Nat
  BY DEF RestoreInv, RestoreTypeOK
<1>3. ASSUME restorePc' = "waitForHealth", running' = RestoreServices,
             sh' = sh \union {"application_running"}, faults' = faults,
             UNCHANGED <<db, flags, exit>>
      PROVE  FaultsTell' /\ RestorePhase'
  BY <1>1, <1>2, <1>3 DEF WhileChecking, FaultsTell, RestorePhase
<1>4. ASSUME restorePc' = "cleanup", sh' = sh \union {"application_running"},
             faults' = faults + 1, UNCHANGED <<db, flags, exit>>
      PROVE  FaultsTell' /\ RestorePhase'
  BY <1>1, <1>2, <1>4 DEF WhileChecking, AtTheTrap, FaultsTell, RestorePhase
<1> QED BY <1>1, <1>2, <1>3, <1>4 DEF StartApplication, StartServices, RestoreAfter, Trap,
  WhileChecking, Fault, NoFault

\* Only a replacement that serves is validated.
LEMMA RestoreWaitForHealthPhase ==
  ASSUME RestoreInv, RestoreWaitForHealth
  PROVE  FaultsTell' /\ RestorePhase'
<1>1. restorePc = "waitForHealth" /\ WhileChecking /\ faults = 0
  BY PhaseOf DEF RestoreWaitForHealth
<1>2. db \in [Names -> Database] /\ faults \in Nat
  BY DEF RestoreInv, RestoreTypeOK
<1>3. ASSUME restorePc' = "dropPrevious", sh' = sh \union {"replacement_validated"},
             faults' = faults, UNCHANGED <<db, running, flags, exit>>
      PROVE  FaultsTell' /\ RestorePhase'
  BY <1>1, <1>2, <1>3 DEF WhileChecking, FaultsTell, RestorePhase
<1>4. ASSUME restorePc' = "cleanup", faults' = faults + 1,
             UNCHANGED <<db, running, flags, sh, exit>>
      PROVE  FaultsTell' /\ RestorePhase'
  BY <1>1, <1>2, <1>4 DEF WhileChecking, AtTheTrap, FaultsTell, RestorePhase
<1> QED BY <1>1, <1>2, <1>3, <1>4 DEF RestoreWaitForHealth, Serving, RestoreAfter, Trap,
  WhileChecking, Fault, NoFault

\* The original goes when its replacement has been validated, and the script has
\* succeeded.
LEMMA DropPreviousDatabasePhase ==
  ASSUME RestoreInv, DropPreviousDatabase
  PROVE  FaultsTell' /\ RestorePhase'
<1>1. restorePc = "dropPrevious" /\ WhileChecking /\ faults = 0
  BY PhaseOf DEF DropPreviousDatabase
<1>2. db \in [Names -> Database] /\ faults \in Nat
  BY DEF RestoreInv, RestoreTypeOK
<1>3. ASSUME restorePc' = "ended", db' = [db EXCEPT !["previous"] = NoDatabase],
             sh' = sh \ {"swap_completed", "maintenance_started"}, exit' = "ok",
             faults' = faults, UNCHANGED <<running, flags>>
      PROVE  FaultsTell' /\ RestorePhase'
  BY <1>1, <1>2, <1>3 DEF OutcomeIsAsReported, OneFaultIsSurvived, Serving, WhileChecking,
    WhenOver, FaultsTell, RestorePhase
<1>4. ASSUME restorePc' = "cleanup", faults' = faults + 1,
             UNCHANGED <<db, running, flags, sh, exit>>
      PROVE  FaultsTell' /\ RestorePhase'
  BY <1>1, <1>2, <1>4 DEF OutcomeIsAsReported, OneFaultIsSurvived, Serving, WhileChecking,
    AtTheTrap, FaultsTell, RestorePhase
<1> QED BY <1>1, <1>2, <1>3, <1>4 DEF DropPreviousDatabase, Drop, Sql, RestoreAfter, Trap,
  WhileChecking, Fault, NoFault

-----------------------------------------------------------------------------
(* The trap of the script, and the rollback.                               *)

\* The trap rolls back a swap that was not validated.
LEMMA CleanupPhase ==
  ASSUME RestoreInv, Cleanup
  PROVE  FaultsTell' /\ RestorePhase'
<1>1. restorePc = "cleanup" /\ AtTheTrap /\ faults >= 1
  BY PhaseOf DEF Cleanup
<1>2. db \in [Names -> Database] /\ faults \in Nat
  BY DEF RestoreInv, RestoreTypeOK
<1>3. ASSUME ~MustRollBack, restorePc' = "restart", flags' = {},
             UNCHANGED <<db, running, sh, exit, faults>>
      PROVE  FaultsTell' /\ RestorePhase'
  BY <1>1, <1>2, <1>3 DEF MustRollBack, AtTheTrap, WhenRestarting, FaultsTell, RestorePhase
<1>4. ASSUME MustRollBack, "application_running" \in sh, restorePc' = "rollbackMaintenance",
             flags' = {}, UNCHANGED <<db, running, sh, exit, faults>>
      PROVE  FaultsTell' /\ RestorePhase'
  BY <1>1, <1>2, <1>4 DEF MustRollBack, AtTheTrap, WhileRollingBack, FaultsTell, RestorePhase
<1>5. ASSUME MustRollBack, "application_running" \notin sh, restorePc' = "rollbackBlock",
             flags' = {}, UNCHANGED <<db, running, sh, exit, faults>>
      PROVE  FaultsTell' /\ RestorePhase'
  BY <1>1, <1>2, <1>5 DEF MustRollBack, AtTheTrap, WhileRollingBack, FaultsTell, RestorePhase
<1> QED BY <1>1, <1>2, <1>3, <1>4, <1>5 DEF Cleanup, AtTheTrap, Fault, NoFault

\* A service that does not stop is only reported.
LEMMA RollbackMaintenancePhase ==
  ASSUME RestoreInv, RollbackMaintenance
  PROVE  FaultsTell' /\ RestorePhase'
<1>1. restorePc = "rollbackMaintenance" /\ WhileRollingBack /\ faults >= 1
  BY PhaseOf DEF RollbackMaintenance
<1>2. db \in [Names -> Database] /\ faults \in Nat
  BY DEF RestoreInv, RestoreTypeOK
<1>3. ASSUME restorePc' = "rollbackBlock",
             sh' = (sh \union {"maintenance_started"}) \ {"application_running"},
             faults' >= faults, faults' \in Nat, UNCHANGED <<db, flags, exit>>
      PROVE  FaultsTell' /\ RestorePhase'
  BY <1>1, <1>2, <1>3 DEF WhileRollingBack, FaultsTell, RestorePhase
<1> QED BY <1>1, <1>2, <1>3 DEF RollbackMaintenance, StopServices, WhileRollingBack, Fault,
  NoFault

\* Each command of the rollback leads to the next, or to the trap of its shell
\* with the flags telling what was done.
LEMMA RollbackBlockPhase ==
  ASSUME RestoreInv, RollbackBlock
  PROVE  FaultsTell' /\ RestorePhase'
<1>1. restorePc = "rollbackBlock" /\ WhileRollingBack /\ faults >= 1
  BY PhaseOf DEF RollbackBlock
<1>2. db \in [Names -> Database] /\ faults \in Nat
  BY DEF RestoreInv, RestoreTypeOK
<1>3. ASSUME restorePc' = "rollbackTerminate", db' = [db EXCEPT !["target"].open = FALSE],
             flags' = flags \union {"target_blocked"}, faults' = faults,
             UNCHANGED <<running, sh, exit>>
      PROVE  FaultsTell' /\ RestorePhase'
  BY <1>1, <1>2, <1>3 DEF WhileRollingBack, FaultsTell, RestorePhase
<1>4. ASSUME restorePc' = "rollbackCleanup", db' = db, flags' = flags, faults' = faults + 1,
             UNCHANGED <<running, sh, exit>>
      PROVE  FaultsTell' /\ RestorePhase'
  BY <1>1, <1>2, <1>4 DEF WhileRollingBack, WhenTheRollbackFailed, FaultsTell, RestorePhase
<1> QED BY <1>1, <1>2, <1>3, <1>4 DEF RollbackBlock, Allow, Sql, RollbackTrap, WhileRollingBack,
  Fault, NoFault

LEMMA RollbackTerminatePhase ==
  ASSUME RestoreInv, RollbackTerminate
  PROVE  FaultsTell' /\ RestorePhase'
<1>1. restorePc = "rollbackTerminate" /\ WhileRollingBack /\ faults >= 1
  BY PhaseOf DEF RollbackTerminate
<1>2. db \in [Names -> Database] /\ faults \in Nat
  BY DEF RestoreInv, RestoreTypeOK
<1>3. ASSUME restorePc' = "rollbackTarget", db' = db, flags' = flags, faults' = faults,
             UNCHANGED <<running, sh, exit>>
      PROVE  FaultsTell' /\ RestorePhase'
  BY <1>1, <1>2, <1>3 DEF WhileRollingBack, FaultsTell, RestorePhase
<1>4. ASSUME restorePc' = "rollbackCleanup", db' = db, flags' = flags, faults' = faults + 1,
             UNCHANGED <<running, sh, exit>>
      PROVE  FaultsTell' /\ RestorePhase'
  BY <1>1, <1>2, <1>4 DEF WhileRollingBack, WhenTheRollbackFailed, FaultsTell, RestorePhase
<1> QED BY <1>1, <1>2, <1>3, <1>4 DEF RollbackTerminate, Sql, RollbackTrap, WhileRollingBack,
  Fault, NoFault

LEMMA RollbackTargetPhase ==
  ASSUME RestoreInv, RollbackTarget
  PROVE  FaultsTell' /\ RestorePhase'
<1>1. restorePc = "rollbackTarget" /\ WhileRollingBack /\ faults >= 1
  BY PhaseOf DEF RollbackTarget
<1>2. db \in [Names -> Database] /\ faults \in Nat
  BY DEF RestoreInv, RestoreTypeOK
<1>3. ASSUME restorePc' = "rollbackPrevious", db' = [db EXCEPT !["failed"] = db["target"],
             !["target"] = NoDatabase], flags' = flags \union {"failed_renamed"},
             faults' = faults, UNCHANGED <<running, sh, exit>>
      PROVE  FaultsTell' /\ RestorePhase'
  BY <1>1, <1>2, <1>3 DEF WhileRollingBack, FaultsTell, RestorePhase
<1>4. ASSUME restorePc' = "rollbackCleanup", db' = db, flags' = flags, faults' = faults + 1,
             UNCHANGED <<running, sh, exit>>
      PROVE  FaultsTell' /\ RestorePhase'
  BY <1>1, <1>2, <1>4 DEF WhileRollingBack, WhenTheRollbackFailed, FaultsTell, RestorePhase
<1> QED BY <1>1, <1>2, <1>3, <1>4 DEF RollbackTarget, Rename, Sql, RollbackTrap,
  WhileRollingBack, Fault, NoFault

LEMMA RollbackPreviousPhase ==
  ASSUME RestoreInv, RollbackPrevious
  PROVE  FaultsTell' /\ RestorePhase'
<1>1. restorePc = "rollbackPrevious" /\ WhileRollingBack /\ faults >= 1
  BY PhaseOf DEF RollbackPrevious
<1>2. db \in [Names -> Database] /\ faults \in Nat
  BY DEF RestoreInv, RestoreTypeOK
<1>3. ASSUME restorePc' = "rollbackAllow", db' = [db EXCEPT !["target"] = db["previous"],
             !["previous"] = NoDatabase], flags' = flags \union {"previous_renamed"},
             faults' = faults, UNCHANGED <<running, sh, exit>>
      PROVE  FaultsTell' /\ RestorePhase'
  BY <1>1, <1>2, <1>3 DEF WhileRollingBack, FaultsTell, RestorePhase
<1>4. ASSUME restorePc' = "rollbackCleanup", db' = db, flags' = flags, faults' = faults + 1,
             UNCHANGED <<running, sh, exit>>
      PROVE  FaultsTell' /\ RestorePhase'
  BY <1>1, <1>2, <1>4 DEF WhileRollingBack, WhenTheRollbackFailed, FaultsTell, RestorePhase
<1> QED BY <1>1, <1>2, <1>3, <1>4 DEF RollbackPrevious, Rename, Sql, RollbackTrap,
  WhileRollingBack, Fault, NoFault

LEMMA RollbackAllowPhase ==
  ASSUME RestoreInv, RollbackAllow
  PROVE  FaultsTell' /\ RestorePhase'
<1>1. restorePc = "rollbackAllow" /\ WhileRollingBack /\ faults >= 1
  BY PhaseOf DEF RollbackAllow
<1>2. db \in [Names -> Database] /\ faults \in Nat
  BY DEF RestoreInv, RestoreTypeOK
<1>3. ASSUME restorePc' = "rollbackDrop", db' = [db EXCEPT !["target"].open = TRUE],
             flags' = flags, faults' = faults, UNCHANGED <<running, sh, exit>>
      PROVE  FaultsTell' /\ RestorePhase'
  BY <1>1, <1>2, <1>3 DEF WhileRollingBack, FaultsTell, RestorePhase
<1>4. ASSUME restorePc' = "rollbackCleanup", db' = db, flags' = flags, faults' = faults + 1,
             UNCHANGED <<running, sh, exit>>
      PROVE  FaultsTell' /\ RestorePhase'
  BY <1>1, <1>2, <1>4 DEF WhileRollingBack, WhenTheRollbackFailed, FaultsTell, RestorePhase
<1> QED BY <1>1, <1>2, <1>3, <1>4 DEF RollbackAllow, Allow, Sql, RollbackTrap, WhileRollingBack,
  Fault, NoFault

\* The original is in use again before the replacement is dropped.
LEMMA RollbackDropPhase ==
  ASSUME RestoreInv, RollbackDrop
  PROVE  FaultsTell' /\ RestorePhase'
<1>1. restorePc = "rollbackDrop" /\ WhileRollingBack /\ faults >= 1
  BY PhaseOf DEF RollbackDrop
<1>2. db \in [Names -> Database] /\ faults \in Nat
  BY DEF RestoreInv, RestoreTypeOK
<1>3. ASSUME restorePc' = "restart", db' = [db EXCEPT !["failed"] = NoDatabase],
             sh' = sh \ {"swap_completed"}, faults' = faults,
             UNCHANGED <<running, flags, exit>>
      PROVE  FaultsTell' /\ RestorePhase'
  BY <1>1, <1>2, <1>3 DEF WhileRollingBack, WhenRestarting, FaultsTell, RestorePhase
<1>4. ASSUME restorePc' = "rollbackCleanup", faults' = faults + 1,
             UNCHANGED <<db, running, flags, sh, exit>>
      PROVE  FaultsTell' /\ RestorePhase'
  BY <1>1, <1>2, <1>4 DEF WhileRollingBack, WhenTheRollbackFailed, FaultsTell, RestorePhase
<1> QED BY <1>1, <1>2, <1>3, <1>4 DEF RollbackDrop, Drop, Sql, RollbackTrap, WhileRollingBack,
  Fault, NoFault

\* The replacement gets the name of the target back only if the original did not
\* take it.
LEMMA RollbackCleanupPhase ==
  ASSUME RestoreInv, RollbackCleanup
  PROVE  FaultsTell' /\ RestorePhase'
<1>1. restorePc = "rollbackCleanup" /\ WhenTheRollbackFailed /\ faults >= 2
  BY PhaseOf DEF RollbackCleanup
<1>2. db \in [Names -> Database] /\ faults \in Nat
  BY DEF RestoreInv, RestoreTypeOK
<1>3. ASSUME "previous_renamed" \notin flags, restorePc' = "rollbackReopen",
             sh' = sh \union {"recovery_failed"}, db' = [db EXCEPT !["target"] = db["failed"],
             !["failed"] = NoDatabase], faults' = faults, UNCHANGED <<running, flags, exit>>
      PROVE  FaultsTell' /\ RestorePhase'
  BY <1>1, <1>2, <1>3 DEF WhenTheRollbackFailed, FaultsTell, RestorePhase
<1>4. ASSUME restorePc' = "rollbackReopen", sh' = sh \union {"recovery_failed"},
             faults' >= faults, faults' \in Nat, UNCHANGED <<db, running, flags, exit>>
      PROVE  FaultsTell' /\ RestorePhase'
  BY <1>1, <1>2, <1>4 DEF WhenTheRollbackFailed, FaultsTell, RestorePhase
<1> QED BY <1>1, <1>2, <1>3, <1>4 DEF RollbackCleanup, Rename, Sql, WhenTheRollbackFailed,
  Fault, NoFault

\* And what has the name is opened.
LEMMA RollbackReopenPhase ==
  ASSUME RestoreInv, RollbackReopen
  PROVE  FaultsTell' /\ RestorePhase'
<1>1. restorePc = "rollbackReopen" /\ WhenTheRollbackFailed /\ faults >= 2
  BY PhaseOf DEF RollbackReopen
<1>2. db \in [Names -> Database] /\ faults \in Nat
  BY DEF RestoreInv, RestoreTypeOK
<1>3. ASSUME restorePc' = "restart", db' = [db EXCEPT !["target"].open = TRUE],
             faults' = faults, UNCHANGED <<running, flags, sh, exit>>
      PROVE  FaultsTell' /\ RestorePhase'
  BY <1>1, <1>2, <1>3 DEF WhenTheRollbackFailed, WhenRestarting, FaultsTell, RestorePhase
<1>4. ASSUME restorePc' = "restart", faults' >= faults, faults' \in Nat,
             UNCHANGED <<db, running, flags, sh, exit>>
      PROVE  FaultsTell' /\ RestorePhase'
  BY <1>1, <1>2, <1>4 DEF WhenTheRollbackFailed, WhenRestarting, FaultsTell, RestorePhase
<1> QED BY <1>1, <1>2, <1>3, <1>4 DEF RollbackReopen, Undo, Allow, Sql, WhenTheRollbackFailed,
  Fault, NoFault

\* The services start again unless the recovery failed.
LEMMA RestoreRestartPhase ==
  ASSUME RestoreInv, RestoreRestart
  PROVE  FaultsTell' /\ RestorePhase'
<1>1. restorePc = "restart" /\ WhenRestarting /\ faults >= 1
  BY PhaseOf DEF RestoreRestart
<1>2. db \in [Names -> Database] /\ faults \in Nat /\ FailsTwice
  BY DEF RestoreInv, RestoreTypeOK
<1>3. ASSUME RestoreMustRestart, restorePc' = "ended", running' = RestoreServices,
             sh' = sh \union {"application_running"}, faults' = faults,
             UNCHANGED <<db, flags, exit>>
      PROVE  FaultsTell' /\ RestorePhase'
  BY <1>1, <1>2, <1>3 DEF RestoreMustRestart, FailsTwice, OutcomeIsAsReported,
    OneFaultIsSurvived, Serving, WhenRestarting, WhenOver, FaultsTell, RestorePhase
<1>4. ASSUME RestoreMustRestart, restorePc' = "ended",
             sh' = sh \union {"application_running"}, faults' = faults + 1,
             UNCHANGED <<db, flags, exit>>
      PROVE  FaultsTell' /\ RestorePhase'
  BY <1>1, <1>2, <1>4 DEF RestoreMustRestart, FailsTwice, OutcomeIsAsReported,
    OneFaultIsSurvived, Serving, WhenRestarting, WhenOver, FaultsTell, RestorePhase
<1>5. ASSUME ~RestoreMustRestart, restorePc' = "ended", faults' = faults,
             UNCHANGED <<db, running, flags, sh, exit>>
      PROVE  FaultsTell' /\ RestorePhase'
  BY <1>1, <1>2, <1>5 DEF RestoreMustRestart, FailsTwice, OutcomeIsAsReported,
    OneFaultIsSurvived, Serving, WhenRestarting, WhenOver, FaultsTell, RestorePhase
<1> QED BY <1>1, <1>2, <1>3, <1>4, <1>5 DEF RestoreRestart, StartServices, WhenRestarting,
  Fault, NoFault

HIDE DEF Preparing, Swapping, Checking, Undoing, RollingBack, RollbackFailed, RestoreFrame,
  InPlace, SetAside, Is, Exists, Names, Database, NoDatabase, FlagsOfTheSwap, AsFlagged,
  Swapped, Replacement

\* What a command that could not be undone reports takes two failures.
LEMMA FailsTwiceStep ==
  ASSUME RestoreInv, RestoreNext
  PROVE  FailsTwice'
<1>1. FailsTwice /\ faults \in Nat
  BY DEF RestoreInv, RestoreTypeOK
<1>2. CASE "recovery_failed" \in sh
  <2>1. faults' >= faults
    BY <1>1 DEF RestoreNext, Download, EnterMaintenance, CreateRestore, PgRestore, BlockTarget,
      Terminate, RenameTarget, RenameRestore, UndoRename, UndoBlock, UndoCreate, Undo, RestoreMigrate,
      DropPreviousDatabase, RollbackBlock, RollbackTerminate, RollbackTarget, RollbackPrevious,
      RollbackAllow, RollbackDrop, RollbackCleanup, RollbackReopen, SwapAnswers, StartApplication,
      RestoreWaitForHealth, Cleanup, RollbackMaintenance, RestoreRestart, Kill, StartServices,
      StopServices, Rename, Allow, Drop, Sql, Fault, NoFault
  <2>2. faults' \in Nat
    BY RestoreStaysTyped DEF RestoreInv, RestoreTypeOK
  <2> QED BY <1>1, <1>2, <2>1, <2>2 DEF FailsTwice
<1>3. CASE UndoRename /\ "recovery_failed" \notin sh
  <2>1. WhileUndoing /\ faults >= 1 /\ restorePc = "undoRename"
    BY <1>3, PhaseOf DEF UndoRename, Undoing
  <2>2. MustUnrename =>
        /\ Exists("previous") /\ ~Exists("target")
        /\ [db EXCEPT !["target"] = db["previous"], !["previous"] = NoDatabase] # db
    BY <2>1 DEF MustUnrename, WhileUndoing, AsFlagged, SetAside, Is, Exists, Names, NoDatabase,
      RestoreInv, RestoreTypeOK
  <2> QED BY <1>1, <1>3, <2>1, <2>2 DEF FailsTwice, UndoRename, Undo, Report, Rename, Sql, Fault, NoFault
<1>4. CASE UndoBlock /\ "recovery_failed" \notin sh
  <2>1. WhileUndoing /\ faults >= 1 /\ restorePc = "undoBlock"
    BY <1>4, PhaseOf DEF UndoBlock, Undoing
  <2>2. MustUnblock => /\ Exists("target")
                       /\ [db EXCEPT !["target"].open = TRUE] # db
    BY <1>4, <2>1 DEF MustUnblock, WhileUndoing, Is, Exists, Names, RestoreInv, RestoreTypeOK
  <2> QED BY <1>1, <1>4, <2>1, <2>2 DEF FailsTwice, UndoBlock, Undo, Report, Allow, Sql, Fault, NoFault
<1>5. CASE RollbackCleanup
  <2>1. faults >= 2 /\ faults' \in Nat
    BY <1>5, PhaseOf, RestoreStaysTyped DEF RollbackCleanup, RollbackFailed, RestoreInv, RestoreTypeOK
  <2> QED BY <1>1, <1>5, <2>1 DEF FailsTwice, RollbackCleanup, Rename, Sql, Fault, NoFault
<1>6. CASE "recovery_failed" \notin sh /\ ~UndoRename /\ ~UndoBlock /\ ~RollbackCleanup
  <2>1. ASSUME Download \/ EnterMaintenance
        PROVE  "recovery_failed" \notin sh'
    BY <1>6, <2>1 DEF Download, EnterMaintenance, StopServices
  <2>2. ASSUME CreateRestore \/ PgRestore \/ BlockTarget \/ Terminate \/ RenameTarget \/
               RenameRestore
        PROVE  "recovery_failed" \notin sh'
    BY <1>6, <2>2 DEF CreateRestore, PgRestore, BlockTarget, Terminate, RenameTarget,
      RenameRestore
  <2>3. ASSUME UndoCreate
        PROVE  "recovery_failed" \notin sh'
    BY <1>6, <2>3 DEF UndoCreate
  <2>4. ASSUME SwapAnswers
        PROVE  "recovery_failed" \notin sh'
    BY <1>6, <2>4 DEF SwapAnswers
  <2>5. ASSUME RestoreMigrate \/ StartApplication \/ RestoreWaitForHealth
        PROVE  "recovery_failed" \notin sh'
    BY <1>6, <2>5 DEF RestoreMigrate, StartApplication, StartServices, RestoreWaitForHealth
  <2>6. ASSUME DropPreviousDatabase
        PROVE  "recovery_failed" \notin sh'
    BY <1>6, <2>6 DEF DropPreviousDatabase
  <2>7. ASSUME Cleanup \/ RollbackMaintenance
        PROVE  "recovery_failed" \notin sh'
    BY <1>6, <2>7 DEF Cleanup, RollbackMaintenance, StopServices
  <2>8. ASSUME RollbackBlock \/ RollbackTerminate \/ RollbackTarget \/ RollbackPrevious \/
               RollbackAllow
        PROVE  "recovery_failed" \notin sh'
    BY <1>6, <2>8 DEF RollbackBlock, RollbackTerminate, RollbackTarget, RollbackPrevious,
      RollbackAllow
  <2>9. ASSUME RollbackDrop
        PROVE  "recovery_failed" \notin sh'
    BY <1>6, <2>9 DEF RollbackDrop
  <2>10. ASSUME RollbackReopen
        PROVE  "recovery_failed" \notin sh'
    BY <1>6, <2>10 DEF RollbackReopen
  <2>11. ASSUME RestoreRestart
        PROVE  "recovery_failed" \notin sh'
    BY <1>6, <2>11 DEF RestoreRestart, StartServices
  <2>12. ASSUME Kill
        PROVE  "recovery_failed" \notin sh'
    BY <1>6, <2>12 DEF Kill
  <2> QED
    BY <1>6, <2>1, <2>2, <2>3, <2>4, <2>5, <2>6, <2>7, <2>8, <2>9, <2>10, <2>11, <2>12 DEF RestoreNext, FailsTwice
<1> QED BY <1>2, <1>3, <1>4, <1>5, <1>6

\* Wherever the script is killed, the original is where the phase says.
LEMMA KillPhase ==
  ASSUME RestoreInv, Kill
  PROVE  FaultsTell' /\ RestorePhase'
<1>1. "replacement_validated" \notin sh =>
        db["target"].content = "original" \/ db["previous"].content = "original"
  BY DEF RestoreInv, RestorePhase, WhilePreparing, WhileSwapping, WhenSwapped, WhileChecking,
    WhileUndoing, AtTheTrap, WhileRollingBack, WhenTheRollbackFailed, WhenRestarting, WhenOver,
    InPlace, SetAside, Swapped, AsFlagged, RollbackFailed, RollingBack, Undoing, Is
<1>2. WhenOver'
  BY <1>1 DEF Kill, WhenOver
<1> QED BY <1>2 DEF FaultsTell, RestorePhase, WhenOver, Kill, Preparing, Swapping, Checking, Undoing,
  RollingBack, RollbackFailed

\* The script finds the original in use.
LEMMA RestoreInvInit == RestoreInit => RestoreInv
<1> SUFFICES ASSUME RestoreInit PROVE RestoreInv
  OBVIOUS
<1>1. RestoreTypeOK
  BY RestoreAssumption DEF RestoreInit, RestoreTypeOK, Names, Contents, RestoreServices, NoDatabase
<1>2. WhilePreparing
  BY DEF RestoreInit, WhilePreparing, Preparing, RestoreFrame, InPlace, Is, Exists, Names, NoDatabase
<1> QED
  BY <1>1, <1>2 DEF RestoreInv, RestorePhase, FaultsTell, FailsTwice, RestoreInit, Preparing, Undoing,
    RollingBack, RollbackFailed

\* Every step keeps the invariant.
LEMMA RestoreInvStep == RestoreInv /\ [RestoreNext]_restoreVars => RestoreInv'
<1>1. ASSUME RestoreInv, RestoreNext
      PROVE  RestoreInv'
  <2>1. RestoreTypeOK' /\ FailsTwice'
    BY <1>1, RestoreStaysTyped, FailsTwiceStep DEF RestoreInv
  <2>2. FaultsTell' /\ RestorePhase'
    BY <1>1, DownloadPhase, EnterMaintenancePhase, CreateRestorePhase, PgRestorePhase,
      BlockTargetPhase, TerminatePhase, RenameTargetPhase, RenameRestorePhase, UndoRenamePhase,
      UndoBlockPhase, UndoCreatePhase, SwapAnswersPhase, RestoreMigratePhase,
      StartApplicationPhase, RestoreWaitForHealthPhase, DropPreviousDatabasePhase, CleanupPhase,
      RollbackMaintenancePhase, RollbackBlockPhase, RollbackTerminatePhase, RollbackTargetPhase,
      RollbackPreviousPhase, RollbackAllowPhase, RollbackDropPhase, RollbackCleanupPhase,
      RollbackReopenPhase, RestoreRestartPhase, KillPhase
      DEF RestoreNext
  <2> QED BY <2>1, <2>2 DEF RestoreInv
<1>2. ASSUME RestoreInv, UNCHANGED restoreVars
      PROVE  RestoreInv'
  <2>1. RestoreTypeOK' /\ FaultsTell' /\ FailsTwice'
    BY <1>2 DEF RestoreInv, RestoreTypeOK, FaultsTell, FailsTwice, restoreVars
  <2>2. RestorePhase'
    BY <1>2 DEF RestoreInv, RestorePhase, WhilePreparing, WhileSwapping, WhenSwapped, WhileChecking,
      WhileUndoing, AtTheTrap, WhileRollingBack, WhenTheRollbackFailed, WhenRestarting, WhenOver,
      RestoreFrame, FlagsOfTheSwap, InPlace, SetAside, Swapped, AsFlagged, Is, Exists, restoreVars,
      OutcomeIsAsReported, OneFaultIsSurvived, Serving
  <2> QED BY <2>1, <2>2 DEF RestoreInv
<1> QED BY <1>1, <1>2

-----------------------------------------------------------------------------

\* What every command may count on holds in every reachable state.
THEOREM RestoreInvariance == RestoreSpec => []RestoreInv
BY RestoreInvInit, RestoreInvStep, PTL DEF RestoreSpec

\* Every reachable state of a restore is well typed.
THEOREM RestoreTypeCorrect == RestoreSpec => []RestoreTypeOK
<1>1. RestoreInv => RestoreTypeOK BY DEF RestoreInv
<1> QED BY <1>1, RestoreInvariance, PTL

\* However many commands of restore-postgres.sh fail, wherever it is killed and
\* whether or not the answer of the swap is lost, the original data are in some
\* database until the replacement has answered the health check.
THEOREM OriginalAlwaysSurvives == RestoreSpec => []OriginalSurvives
<1>1. RestoreInv => OriginalSurvives
  BY DEF RestoreInv, RestorePhase, WhilePreparing, WhileSwapping, WhenSwapped, WhileChecking,
    WhileUndoing, AtTheTrap, WhileRollingBack, WhenTheRollbackFailed, WhenRestarting, WhenOver,
    InPlace, SetAside, Swapped, AsFlagged, RollbackFailed, RollingBack, Undoing, Is,
    OriginalSurvives, Names
<1> QED BY <1>1, RestoreInvariance, PTL

\* When no answer of the swap is lost, a restore that ends leaves what its status
\* says, however many of its commands failed.
THEOREM OutcomeStaysAsReported == ~LostAnswers => (RestoreSpec => []OutcomeIsAsReported)
<1> SUFFICES ASSUME ~LostAnswers
             PROVE  RestoreSpec => []OutcomeIsAsReported
  OBVIOUS
<1>1. RestoreInv => OutcomeIsAsReported
  BY DEF RestoreInv, RestorePhase, WhilePreparing, WhileSwapping, WhenSwapped, WhileChecking,
    WhileUndoing, AtTheTrap, WhileRollingBack, WhenTheRollbackFailed, WhenRestarting, WhenOver,
    RollbackFailed, RollingBack, Undoing, Checking, Preparing, Swapping, OutcomeIsAsReported
<1> QED BY <1>1, RestoreInvariance, PTL

-----------------------------------------------------------------------------
(* What is started.                                                        *)

\* Only two commands start a service.
LEMMA StartedBy ==
  ASSUME RestoreNext, ~StartApplication, ~(RestoreRestart /\ RestoreMustRestart)
  PROVE  running' \subseteq running
<1>1. ASSUME \/ Download \/ EnterMaintenance \/ CreateRestore \/ PgRestore \/ BlockTarget \/ Terminate
             \/ RenameTarget \/ RenameRestore \/ UndoRename \/ UndoBlock \/ UndoCreate \/ SwapAnswers
             \/ RestoreMigrate \/ RestoreWaitForHealth \/ DropPreviousDatabase
      PROVE  running' \subseteq running
  BY <1>1 DEF Download, EnterMaintenance, CreateRestore, PgRestore, BlockTarget, Terminate,
    RenameTarget, RenameRestore, UndoRename, UndoBlock, UndoCreate, Undo, SwapAnswers,
    RestoreMigrate, RestoreWaitForHealth, DropPreviousDatabase, StopServices
<1>2. ASSUME \/ Cleanup \/ RollbackMaintenance \/ RollbackBlock \/ RollbackTerminate \/ RollbackTarget
             \/ RollbackPrevious \/ RollbackAllow \/ RollbackDrop \/ RollbackCleanup \/ RollbackReopen
             \/ Kill
      PROVE  running' \subseteq running
  BY <1>2 DEF Cleanup, RollbackMaintenance, RollbackBlock, RollbackTerminate, RollbackTarget,
    RollbackPrevious, RollbackAllow, RollbackDrop, RollbackCleanup, RollbackReopen, Undo, Kill,
    StopServices
<1>3. ASSUME RestoreRestart, ~RestoreMustRestart
      PROVE  running' \subseteq running
  BY <1>3 DEF RestoreRestart
<1> QED BY <1>1, <1>2, <1>3 DEF RestoreNext

\* When no answer of the swap is lost, nothing is started once the databases could
\* not be put back, nor the API on anything but the original or a migrated
\* database, and a validated replacement is never undone.
THEOREM WholeIsStarted == ~LostAnswers => (RestoreSpec => StartsOnlyWhatIsWhole)
<1> SUFFICES ASSUME ~LostAnswers
             PROVE  RestoreSpec => StartsOnlyWhatIsWhole
  OBVIOUS
<1>1. ASSUME RestoreInv, RestoreNext, ~(running' \subseteq running)
      PROVE  /\ "recovery_failed" \notin sh'
             /\ db["target"].content \in {"original", "migrated"}
  <2>1. CASE StartApplication
    <3>1. WhileChecking /\ restorePc = "startApplication"
      BY <1>1, <2>1, PhaseOf DEF StartApplication, Checking
    <3> QED BY <2>1, <3>1 DEF StartApplication, StartServices, WhileChecking
  <2>2. CASE RestoreRestart /\ RestoreMustRestart
    <3>1. WhenRestarting
      BY <1>1, <2>2, PhaseOf DEF RestoreRestart
    <3> QED BY <2>2, <3>1 DEF RestoreRestart, StartServices, RestoreMustRestart, WhenRestarting, Is
  <2> QED BY <1>1, <2>1, <2>2, StartedBy
<1>2. ASSUME RestoreInv, RestoreNext, "replacement_validated" \in sh
      PROVE  "replacement_validated" \in sh' /\ db'["target"] = db["target"]
  <2>1. restorePc \in {"dropPrevious", "cleanup", "restart", "ended", "killed"}
    BY <1>2 DEF RestoreInv, RestorePhase, WhilePreparing, WhileSwapping, WhenSwapped, WhileChecking,
      WhileUndoing, AtTheTrap, WhileRollingBack, WhenTheRollbackFailed, WhenRestarting, WhenOver,
      RestoreFrame
  <2>2. DropPreviousDatabase \/ Cleanup \/ RestoreRestart \/ Kill
    BY <1>2, <2>1 DEF RestoreNext, Download, EnterMaintenance, CreateRestore, PgRestore, BlockTarget,
      Terminate, RenameTarget, RenameRestore, UndoRename, UndoBlock, UndoCreate, RestoreMigrate,
      StartApplication, RollbackBlock, RollbackTerminate, RollbackTarget, RollbackPrevious,
      RollbackAllow, RollbackDrop, RollbackCleanup, RollbackReopen, SwapAnswers,
      RestoreWaitForHealth, RollbackMaintenance
  <2> QED
    BY <1>2, <2>2 DEF DropPreviousDatabase, Cleanup, RestoreRestart, Kill, Drop, Sql, StartServices,
      RestoreInv, RestoreTypeOK, Names
<1>3. RestoreInv /\ [RestoreNext]_restoreVars =>
        [ /\ "recovery_failed" \in sh' => running' \subseteq running
          /\ "api" \in running' \ running => db["target"].content \in {"original", "migrated"}
          /\ "replacement_validated" \in sh =>
               "replacement_validated" \in sh' /\ db'["target"] = db["target"] ]_restoreVars
  BY <1>1, <1>2
<1> QED BY <1>3, RestoreInvariance, PTL DEF RestoreSpec, StartsOnlyWhatIsWhole


-----------------------------------------------------------------------------
(* Releases.  The inductive invariant says which release each of the four  *)
(* things is of at each command, and that whatever may be started again    *)
(* has its migrations applied.                                             *)

Started == {"seed", "health", "timers", "saveEnv", "moveEnv", "link"}

\* What the script that runs has set out to do.
ScriptRuns ==
  releasePc # "idle" =>
    /\ run.target \in Release /\ run.script \in {"deploy", "rollback"}
    /\ run.exit = "failed"
    /\ run.script = "rollback" => run.previous # None
    /\ run.previous # None =>
         /\ releasePc = "migrate" => run.dump = schema
         /\ releasePc = "up" /\ run.script = "rollback" => run.dump = schema
    /\ run.script = "rollback" => releasePc \notin {"migrate", "seed", "timers"}

\* Nothing that runs, or that a script could start, is ahead of the schema.
AppliedFirst ==
  /\ SchemaCoversWhatRuns
  /\ env \in Release => env <= schema
  /\ run.saved \in Release => run.saved <= schema
  /\ releasePc \in Started => run.target <= schema
  /\ releasePc = "up" /\ run.script = "deploy" => run.target <= schema

\* Until the link moves it is where the script found it.
LinkStays ==
  /\ run.exit = "failed" => current = run.previous
  /\ releasePc \in Started => \A s \in ReleaseServices : up[s] = run.target
  /\ releasePc = "link" => env = run.target
  /\ releasePc = "idle" /\ run.exit = "ok" /\ run.script # "none" => AllOf(run.target)

\* The environment file is there, or a copy of it is.
FileKept ==
  /\ current # None => env # None
  /\ ~CopyFails => env # Blank /\ run.saved # Blank
  /\ run.whole => run.previous # None
  /\ run.whole /\ releasePc \in {"prepare", "backup", "migrate", "up", "seed", "health", "timers", "saveEnv"} =>
       env = run.previous /\ run.saved = None
  /\ run.whole /\ releasePc = "moveEnv" => env = run.previous /\ run.saved = run.previous
  /\ run.whole /\ releasePc = "link" => run.saved = run.previous
  /\ run.whole /\ releasePc = "cleanup" =>
       \/ env = run.previous /\ run.saved = None
       \/ run.saved = run.previous
       \/ CopyFails
  /\ run.whole /\ releasePc = "restart" => env = run.previous \/ CopyFails
  /\ releasePc = "idle" /\ run.script = "deploy" /\ ~CopyFails => FailedKeepsRelease

ReleaseInv == ReleaseTypeOK /\ ScriptRuns /\ AppliedFirst /\ LinkStays /\ FileKept

\* What compose brings up is typed.
LEMMA UpTyped ==
  ASSUME ReleaseTypeOK, NEW r \in Release
  PROVE  /\ Migrated(r) \in 0..MaxRelease
         /\ \A S \in SUBSET ReleaseServices :
              [s \in ReleaseServices |-> IF s \in S THEN r ELSE up[s]]
                \in [ReleaseServices -> Release \union {None}]
         /\ [s \in ReleaseServices |-> r] \in [ReleaseServices -> Release \union {None}]
BY ReleasesAssumption DEF ReleaseTypeOK, Migrated, Release

\* A command that fails is counted within the bound.
LEMMA FaultCounted ==
  ASSUME ReleaseTypeOK, run.faults < MaxReleaseFaults
  PROVE  run.faults + 1 \in 0..MaxReleaseFaults
BY ReleasesAssumption DEF ReleaseTypeOK

\* Each command keeps it, whether it does what it says or fails.
LEMMA PrepareInv ==
  ASSUME ReleaseInv, Prepare
  PROVE  ReleaseInv'
<1> USE ReleasesAssumption DEF Prepare, Command, Does, Fails, host, ReleaseAfter, Order,
  Release, ReleaseInv, ReleaseTypeOK, ScriptRuns, AppliedFirst, LinkStays, FileKept
<1>1. ReleaseTypeOK'
  BY DEF File
<1>2. ScriptRuns'
  BY DEF Started
<1>3. AppliedFirst'
  BY DEF SchemaCoversWhatRuns, Started, File
<1>4. LinkStays'
  BY DEF Started, AllOf
<1>5. FileKept'
  BY DEF FailedKeepsRelease, AllOf, File
<1> QED BY <1>1, <1>2, <1>3, <1>4, <1>5 DEF ReleaseInv

\* The dump has the schema of the moment.
LEMMA BackupInv ==
  ASSUME ReleaseInv, Backup
  PROVE  ReleaseInv'
<1> USE ReleasesAssumption DEF Backup, Fails, host, ReleaseAfter, Order, Release, ReleaseInv,
  ReleaseTypeOK, ScriptRuns, AppliedFirst, LinkStays, FileKept
<1>1. ReleaseTypeOK'
  BY DEF File
<1>2. ScriptRuns'
  BY DEF Started
<1>3. AppliedFirst'
  BY DEF SchemaCoversWhatRuns, Started, File
<1>4. LinkStays'
  BY DEF Started, AllOf
<1>5. FileKept'
  BY DEF FailedKeepsRelease, AllOf, File
<1> QED BY <1>1, <1>2, <1>3, <1>4, <1>5 DEF ReleaseInv

\* The schema moves to the target after a dump, or before there is a release.
LEMMA ReleaseMigrateInv ==
  ASSUME ReleaseInv, ReleaseMigrate
  PROVE  ReleaseInv'
<1> USE ReleasesAssumption DEF ReleaseMigrate, Fails, Does, ReleaseAfter, Order, Migrated,
  Release, ReleaseInv, ReleaseTypeOK, ScriptRuns, AppliedFirst, LinkStays, FileKept
<1>1. ReleaseTypeOK'
  BY DEF File
<1>2. ScriptRuns'
  BY DEF Started
<1>3. AppliedFirst'
  BY DEF SchemaCoversWhatRuns, Started, File
<1>4. LinkStays'
  BY DEF Started, AllOf
<1>5. FileKept'
  BY DEF FailedKeepsRelease, AllOf, File
<1> QED BY <1>1, <1>2, <1>3, <1>4, <1>5 DEF ReleaseInv

\* What comes up has its migrations applied.
LEMMA UpTargetInv ==
  ASSUME ReleaseInv, UpTarget
  PROVE  ReleaseInv'
<1> USE ReleasesAssumption DEF Migrated, Release, ReleaseInv, ReleaseTypeOK, ScriptRuns,
  AppliedFirst, LinkStays, FileKept
<1>1. ASSUME releasePc = "up",
             Up(run.target),
             run' = [run EXCEPT !.started = TRUE],
             releasePc' = IF run.script = "deploy" /\ run.previous = None THEN "seed" ELSE "health",
             UNCHANGED <<current, env, edge>>
      PROVE  ReleaseInv'
  <2>1. ReleaseTypeOK'
    <3>1. run.target \in Release
      BY <1>1 DEF ReleaseInv, ScriptRuns
    <3>2. schema' \in 0..MaxRelease /\ up' \in [ReleaseServices -> Release \union {None}]
      BY <1>1, <3>1, UpTyped DEF ReleaseInv, Up
    <3> QED BY <1>1, <3>2 DEF ReleaseInv, ReleaseTypeOK, Up
  <2>2. ScriptRuns'
    BY <1>1 DEF Up, Started
  <2>3. AppliedFirst'
    BY <1>1 DEF Up, SchemaCoversWhatRuns, Started, File
  <2>4. LinkStays'
    BY <1>1 DEF Up, Started, AllOf
  <2>5. FileKept'
    BY <1>1 DEF Up, FailedKeepsRelease, AllOf, File
  <2> QED BY <2>1, <2>2, <2>3, <2>4, <2>5 DEF ReleaseInv
<1>2. ASSUME releasePc = "up",
             PartlyUp(run.target),
             Fails,
             UNCHANGED <<current, env, edge>>
      PROVE  ReleaseInv'
  <2>1. ReleaseTypeOK'
    BY <1>2 DEF PartlyUp, Fails, File
  <2>2. ScriptRuns'
    BY <1>2 DEF PartlyUp, Fails, Started
  <2>3. AppliedFirst'
    BY <1>2 DEF PartlyUp, Fails, SchemaCoversWhatRuns, Started, File
  <2>4. LinkStays'
    BY <1>2 DEF PartlyUp, Fails, Started, AllOf
  <2>5. FileKept'
    BY <1>2 DEF PartlyUp, Fails, FailedKeepsRelease, AllOf, File
  <2> QED BY <2>1, <2>2, <2>3, <2>4, <2>5 DEF ReleaseInv
<1> QED BY <1>1, <1>2 DEF UpTarget, Fails, ReleaseAfter, Order

LEMMA SeedInv ==
  ASSUME ReleaseInv, Seed
  PROVE  ReleaseInv'
<1> USE ReleasesAssumption DEF Seed, Fails, host, Command, Does, ReleaseAfter, Order, Release,
  ReleaseInv, ReleaseTypeOK, ScriptRuns, AppliedFirst, LinkStays, FileKept
<1>1. ReleaseTypeOK'
  BY DEF File
<1>2. ScriptRuns'
  BY DEF Started
<1>3. AppliedFirst'
  BY DEF SchemaCoversWhatRuns, Started, File
<1>4. LinkStays'
  BY DEF Started, AllOf
<1>5. FileKept'
  BY DEF FailedKeepsRelease, AllOf, File
<1> QED BY <1>1, <1>2, <1>3, <1>4, <1>5 DEF ReleaseInv

\* The health check changes nothing on the host.
LEMMA ReleaseWaitForHealthInv ==
  ASSUME ReleaseInv, ReleaseWaitForHealth
  PROVE  ReleaseInv'
<1> USE ReleasesAssumption DEF ReleaseWaitForHealth, Fails, host, ReleaseAfter, Order, Release,
  ReleaseInv, ReleaseTypeOK, ScriptRuns, AppliedFirst, LinkStays, FileKept
<1>1. ReleaseTypeOK'
  BY DEF File
<1>2. ScriptRuns'
  BY DEF Started
<1>3. AppliedFirst'
  BY DEF SchemaCoversWhatRuns, Started, File
<1>4. LinkStays'
  BY DEF Started, AllOf
<1>5. FileKept'
  BY DEF FailedKeepsRelease, AllOf, File
<1> QED BY <1>1, <1>2, <1>3, <1>4, <1>5 DEF ReleaseInv

LEMMA TimersInv ==
  ASSUME ReleaseInv, Timers
  PROVE  ReleaseInv'
<1> USE ReleasesAssumption DEF Timers, Fails, host, Command, Does, ReleaseAfter, Order, Release,
  ReleaseInv, ReleaseTypeOK, ScriptRuns, AppliedFirst, LinkStays, FileKept
<1>1. ReleaseTypeOK'
  BY DEF File
<1>2. ScriptRuns'
  BY DEF Started
<1>3. AppliedFirst'
  BY DEF SchemaCoversWhatRuns, Started, File
<1>4. LinkStays'
  BY DEF Started, AllOf
<1>5. FileKept'
  BY DEF FailedKeepsRelease, AllOf, File
<1> QED BY <1>1, <1>2, <1>3, <1>4, <1>5 DEF ReleaseInv

\* The copy is of the file of the release that was there, or a blank one.
LEMMA SaveEnvInv ==
  ASSUME ReleaseInv, SaveEnv
  PROVE  ReleaseInv'
<1> USE ReleasesAssumption DEF Release, ReleaseInv, ReleaseTypeOK, ScriptRuns, AppliedFirst,
  LinkStays, FileKept
<1>1. ASSUME releasePc = "saveEnv",
             releasePc' = "moveEnv",
             run' = [run EXCEPT !.saved = env],
             UNCHANGED <<current, env, up, schema, edge, answering>>
      PROVE  ReleaseInv'
  <2>1. ReleaseTypeOK'
    BY <1>1 DEF File
  <2>2. ScriptRuns'
    BY <1>1 DEF Started
  <2>3. AppliedFirst'
    BY <1>1 DEF SchemaCoversWhatRuns, Started, File
  <2>4. LinkStays'
    BY <1>1 DEF Started, AllOf
  <2>5. FileKept'
    BY <1>1 DEF FailedKeepsRelease, AllOf, File
  <2> QED BY <2>1, <2>2, <2>3, <2>4, <2>5 DEF ReleaseInv
<1>2. ASSUME releasePc = "saveEnv",
             Fails,
             UNCHANGED <<current, env, up, schema, edge, answering>>
      PROVE  ReleaseInv'
  <2>1. ReleaseTypeOK'
    BY <1>2 DEF Fails, File
  <2>2. ScriptRuns'
    BY <1>2 DEF Fails, Started
  <2>3. AppliedFirst'
    BY <1>2 DEF Fails, SchemaCoversWhatRuns, Started, File
  <2>4. LinkStays'
    BY <1>2 DEF Fails, Started, AllOf
  <2>5. FileKept'
    BY <1>2 DEF Fails, FailedKeepsRelease, AllOf, File
  <2> QED BY <2>1, <2>2, <2>3, <2>4, <2>5 DEF ReleaseInv
<1>3. ASSUME releasePc = "saveEnv",
             CopyFails,
             run.faults < MaxReleaseFaults,
             releasePc' = "cleanup",
             run' = [run EXCEPT !.saved = Blank, !.faults = @ + 1],
             UNCHANGED <<current, env, up, schema, edge, answering>>
      PROVE  ReleaseInv'
  <2>1. ReleaseTypeOK'
    <3>1. run.faults + 1 \in 0..MaxReleaseFaults /\ Blank \in File
      BY <1>3, FaultCounted DEF ReleaseInv, File
    <3>2. run' \in [script : {"none", "deploy", "rollback"}, target : Release \union {None},
              previous : Release \union {None}, candidate : BOOLEAN, saved : File,
              dump : (0..MaxRelease) \union {None}, whole : BOOLEAN,
              started : BOOLEAN, checked : BOOLEAN, exit : {"ok", "failed", "killed"},
              reported : BOOLEAN, runs : 0..MaxRuns, faults : 0..MaxReleaseFaults]
      BY <1>3, <3>1 DEF ReleaseInv, ReleaseTypeOK
    <3> QED BY <1>3, <3>2 DEF ReleaseInv, ReleaseTypeOK
  <2>2. ScriptRuns'
    BY <1>3 DEF Started
  <2>3. AppliedFirst'
    BY <1>3 DEF SchemaCoversWhatRuns, Started, File
  <2>4. LinkStays'
    BY <1>3 DEF Started, AllOf
  <2>5. FileKept'
    BY <1>3 DEF FailedKeepsRelease, AllOf, File
  <2> QED BY <2>1, <2>2, <2>3, <2>4, <2>5 DEF ReleaseInv
<1> QED BY <1>1, <1>2, <1>3 DEF SaveEnv, Fails, host, ReleaseAfter, Order

\* The file becomes that of the target once it has been copied.
LEMMA MoveEnvInv ==
  ASSUME ReleaseInv, MoveEnv
  PROVE  ReleaseInv'
<1> USE ReleasesAssumption DEF Release, ReleaseInv, ReleaseTypeOK, ScriptRuns, AppliedFirst,
  LinkStays, FileKept
<1>1. ASSUME releasePc = "moveEnv",
             env' = run.target,
             releasePc' = "link",
             run' = [run EXCEPT !.candidate = FALSE],
             UNCHANGED <<current, up, schema, edge, answering>>
      PROVE  ReleaseInv'
  <2>1. ReleaseTypeOK'
    BY <1>1 DEF File
  <2>2. ScriptRuns'
    BY <1>1 DEF Started
  <2>3. AppliedFirst'
    BY <1>1 DEF SchemaCoversWhatRuns, Started, File
  <2>4. LinkStays'
    BY <1>1 DEF Started, AllOf
  <2>5. FileKept'
    BY <1>1 DEF FailedKeepsRelease, AllOf, File
  <2> QED BY <2>1, <2>2, <2>3, <2>4, <2>5 DEF ReleaseInv
<1>2. ASSUME releasePc = "moveEnv",
             Fails,
             UNCHANGED <<current, env, up, schema, edge, answering>>
      PROVE  ReleaseInv'
  <2>1. ReleaseTypeOK'
    BY <1>2 DEF Fails, File
  <2>2. ScriptRuns'
    BY <1>2 DEF Fails, Started
  <2>3. AppliedFirst'
    BY <1>2 DEF Fails, SchemaCoversWhatRuns, Started, File
  <2>4. LinkStays'
    BY <1>2 DEF Fails, Started, AllOf
  <2>5. FileKept'
    BY <1>2 DEF Fails, FailedKeepsRelease, AllOf, File
  <2> QED BY <2>1, <2>2, <2>3, <2>4, <2>5 DEF ReleaseInv
<1> QED BY <1>1, <1>2 DEF MoveEnv, ReleaseAfter, Order

\* When the link moves everything else is of the target already.
LEMMA SwitchLinkInv ==
  ASSUME ReleaseInv, SwitchLink
  PROVE  ReleaseInv'
<1> USE ReleasesAssumption DEF Release, ReleaseInv, ReleaseTypeOK, ScriptRuns, AppliedFirst,
  LinkStays, FileKept
<1>1. ASSUME releasePc = "link",
             current' = run.target,
             releasePc' = "idle",
             run' = [run EXCEPT !.exit = "ok", !.saved = None],
             UNCHANGED <<env, up, schema, edge, answering>>
      PROVE  ReleaseInv'
  <2>1. ReleaseTypeOK'
    BY <1>1 DEF File
  <2>2. ScriptRuns'
    BY <1>1 DEF Started
  <2>3. AppliedFirst'
    BY <1>1 DEF SchemaCoversWhatRuns, Started, File
  <2>4. LinkStays'
    BY <1>1 DEF Started, AllOf
  <2>5. FileKept'
    BY <1>1 DEF FailedKeepsRelease, AllOf, File
  <2> QED BY <2>1, <2>2, <2>3, <2>4, <2>5 DEF ReleaseInv
<1>2. ASSUME releasePc = "link",
             Fails,
             UNCHANGED <<current, env, up, schema, edge, answering>>
      PROVE  ReleaseInv'
  <2>1. ReleaseTypeOK'
    BY <1>2 DEF Fails, File
  <2>2. ScriptRuns'
    BY <1>2 DEF Fails, Started
  <2>3. AppliedFirst'
    BY <1>2 DEF Fails, SchemaCoversWhatRuns, Started, File
  <2>4. LinkStays'
    BY <1>2 DEF Fails, Started, AllOf
  <2>5. FileKept'
    BY <1>2 DEF Fails, FailedKeepsRelease, AllOf, File
  <2> QED BY <2>1, <2>2, <2>3, <2>4, <2>5 DEF ReleaseInv
<1> QED BY <1>1, <1>2 DEF SwitchLink, ReleaseAfter, Order

\* The copy is put back.
LEMMA CleanupEnvInv ==
  ASSUME ReleaseInv, CleanupEnv
  PROVE  ReleaseInv'
<1> USE ReleasesAssumption DEF CleanupEnv, RestoredEnv, Release, ReleaseInv, ReleaseTypeOK,
  ScriptRuns, AppliedFirst, LinkStays, FileKept
<1>1. ReleaseTypeOK'
  BY DEF File
<1>2. ScriptRuns'
  BY DEF Started
<1>3. AppliedFirst'
  BY DEF SchemaCoversWhatRuns, Started, File
<1>4. LinkStays'
  BY DEF Started, AllOf
<1>5. FileKept'
  BY DEF FailedKeepsRelease, AllOf, File
<1> QED BY <1>1, <1>2, <1>3, <1>4, <1>5 DEF ReleaseInv

\* What is started again is what the file says, and it is not ahead of the schema.
LEMMA ReleaseRestartInv ==
  ASSUME ReleaseInv, ReleaseRestart
  PROVE  ReleaseInv'
<1> USE ReleasesAssumption DEF Release, ReleaseInv, ReleaseTypeOK, ScriptRuns, AppliedFirst,
  LinkStays, FileKept
<1>1. ASSUME releasePc = "restart",
             ReleaseMustRestart,
             env # Blank,
             Up(env),
             releasePc' = "idle",
             UNCHANGED <<current, env, edge, run>>
      PROVE  ReleaseInv'
  <2>1. ReleaseTypeOK'
    BY <1>1 DEF ReleaseMustRestart, Up, Migrated, File
  <2>2. ScriptRuns'
    BY <1>1 DEF ReleaseMustRestart, Up, Migrated, Started
  <2>3. AppliedFirst'
    BY <1>1 DEF ReleaseMustRestart, Up, Migrated, SchemaCoversWhatRuns, Started, File
  <2>4. LinkStays'
    BY <1>1 DEF ReleaseMustRestart, Up, Migrated, Started, AllOf
  <2>5. FileKept'
    BY <1>1 DEF ReleaseMustRestart, Up, Migrated, FailedKeepsRelease, AllOf, File
  <2> QED BY <2>1, <2>2, <2>3, <2>4, <2>5 DEF ReleaseInv
<1>2. ASSUME releasePc = "restart",
             ReleaseMustRestart,
             env = Blank,
             releasePc' = "idle",
             run' = [run EXCEPT !.reported = TRUE],
             UNCHANGED <<current, env, edge, schema, up, answering>>
      PROVE  ReleaseInv'
  <2>1. ReleaseTypeOK'
    BY <1>2 DEF File
  <2>2. ScriptRuns'
    BY <1>2 DEF Started
  <2>3. AppliedFirst'
    BY <1>2 DEF SchemaCoversWhatRuns, Started, File
  <2>4. LinkStays'
    BY <1>2 DEF Started, AllOf
  <2>5. FileKept'
    BY <1>2 DEF FailedKeepsRelease, AllOf, File
  <2> QED BY <2>1, <2>2, <2>3, <2>4, <2>5 DEF ReleaseInv
<1>3. ASSUME releasePc = "restart",
             ReleaseMustRestart,
             env # Blank,
             run.faults < MaxReleaseFaults,
             PartlyUp(env),
             releasePc' = "idle",
             run' = [run EXCEPT !.reported = TRUE, !.faults = run.faults + 1],
             UNCHANGED <<current, env, edge>>
      PROVE  ReleaseInv'
  <2>1. ReleaseTypeOK'
    <3>1. env \in Release /\ run.faults + 1 \in 0..MaxReleaseFaults
      BY <1>3, FaultCounted DEF ReleaseInv, ReleaseTypeOK, ReleaseMustRestart, File
    <3>2. schema' \in 0..MaxRelease /\ up' \in [ReleaseServices -> Release \union {None}]
          /\ answering' \in BOOLEAN
      BY <1>3, <3>1, UpTyped DEF ReleaseInv, ReleaseTypeOK, PartlyUp
    <3> QED BY <1>3, <3>1, <3>2 DEF ReleaseInv, ReleaseTypeOK
  <2>2. ScriptRuns'
    BY <1>3 DEF ReleaseMustRestart, PartlyUp, Migrated, Started
  <2>3. AppliedFirst'
    BY <1>3 DEF ReleaseMustRestart, PartlyUp, Migrated, SchemaCoversWhatRuns, Started, File
  <2>4. LinkStays'
    BY <1>3 DEF ReleaseMustRestart, PartlyUp, Migrated, Started, AllOf
  <2>5. FileKept'
    BY <1>3 DEF ReleaseMustRestart, PartlyUp, Migrated, FailedKeepsRelease, AllOf, File
  <2> QED BY <2>1, <2>2, <2>3, <2>4, <2>5 DEF ReleaseInv
<1> HIDE DEF Release, ReleaseInv, ReleaseTypeOK, ScriptRuns, AppliedFirst, LinkStays, FileKept
<1> QED BY <1>1, <1>2, <1>3 DEF ReleaseRestart, Ended

\* Only a first release is stopped, or nothing.
LEMMA DownInv ==
  ASSUME ReleaseInv, Down
  PROVE  ReleaseInv'
<1> USE ReleasesAssumption DEF Down, ReleaseMustRestart, Ended, Release, ReleaseInv,
  ReleaseTypeOK, ScriptRuns, AppliedFirst, LinkStays, FileKept
<1>1. ReleaseTypeOK'
  BY DEF File
<1>2. ScriptRuns'
  BY DEF Started
<1>3. AppliedFirst'
  BY DEF SchemaCoversWhatRuns, Started, File
<1>4. LinkStays'
  BY DEF Started, AllOf
<1>5. FileKept'
  BY DEF FailedKeepsRelease, AllOf, File
<1> QED BY <1>1, <1>2, <1>3, <1>4, <1>5 DEF ReleaseInv

\* The API, the edge and a host that stops change no release.
LEMMA ApiFlipsInv ==
  ASSUME ReleaseInv, ApiFlips
  PROVE  ReleaseInv'
<1> USE ReleasesAssumption DEF ApiFlips, host, Release, ReleaseInv, ReleaseTypeOK, ScriptRuns,
  AppliedFirst, LinkStays, FileKept
<1>1. ReleaseTypeOK'
  BY DEF File
<1>2. ScriptRuns'
  BY DEF Started
<1>3. AppliedFirst'
  BY DEF SchemaCoversWhatRuns, Started, File
<1>4. LinkStays'
  BY DEF Started, AllOf
<1>5. FileKept'
  BY DEF FailedKeepsRelease, AllOf, File
<1> QED BY <1>1, <1>2, <1>3, <1>4, <1>5 DEF ReleaseInv

LEMMA SetEdgeInv ==
  ASSUME ReleaseInv, SetEdge
  PROVE  ReleaseInv'
<1> USE ReleasesAssumption DEF SetEdge, host, Release, ReleaseInv, ReleaseTypeOK, ScriptRuns,
  AppliedFirst, LinkStays, FileKept
<1>1. ReleaseTypeOK'
  BY DEF File
<1>2. ScriptRuns'
  BY DEF Started
<1>3. AppliedFirst'
  BY DEF SchemaCoversWhatRuns, Started, File
<1>4. LinkStays'
  BY DEF Started, AllOf
<1>5. FileKept'
  BY DEF FailedKeepsRelease, AllOf, File
<1> QED BY <1>1, <1>2, <1>3, <1>4, <1>5 DEF ReleaseInv

LEMMA HostStopsInv ==
  ASSUME ReleaseInv, HostStops
  PROVE  ReleaseInv'
<1> USE ReleasesAssumption DEF HostStops, host, Release, ReleaseInv, ReleaseTypeOK, ScriptRuns,
  AppliedFirst, LinkStays, FileKept
<1>1. ReleaseTypeOK'
  BY DEF File
<1>2. ScriptRuns'
  BY DEF Started
<1>3. AppliedFirst'
  BY DEF SchemaCoversWhatRuns, Started, File
<1>4. LinkStays'
  BY DEF Started, AllOf
<1>5. FileKept'
  BY DEF FailedKeepsRelease, AllOf, File
<1> QED BY <1>1, <1>2, <1>3, <1>4, <1>5 DEF ReleaseInv


\* Both scripts begin with what they find.
LEMMA BeginInv ==
  ASSUME ReleaseInv, NEW r \in Release, BeginDeploy(r) \/ BeginRollback(r)
  PROVE  ReleaseInv'
<1>1. PICK script \in {"deploy", "rollback"}, whole \in BOOLEAN :
        /\ whole <=> current # None /\ AllOf(current)
        /\ releasePc = "idle" /\ releasePc' = "prepare" /\ run.runs < MaxRuns
        /\ script = "rollback" => current # None
        /\ run' = [run EXCEPT !.script = script, !.target = r, !.previous = current,
                              !.candidate = TRUE, !.saved = None, !.dump = None, !.started = FALSE,
                              !.checked = FALSE, !.exit = "failed", !.reported = FALSE,
                              !.whole = whole, !.runs = run.runs + 1]
        /\ UNCHANGED <<current, env, up, schema, edge, answering>>
  <2> DEFINE whole == current # None /\ AllOf(current)
  <2>1. whole \in BOOLEAN
    BY DEF AllOf
  <2>2. CASE BeginDeploy(r)
    BY <2>1, <2>2, Zenon DEF BeginDeploy, Begin, host
  <2>3. CASE BeginRollback(r)
    BY <2>1, <2>3, Zenon DEF BeginRollback, Begin, host
  <2> QED BY <2>2, <2>3
<1>2. ReleaseTypeOK'
  <2>1. run.runs + 1 \in 0..MaxRuns 
    BY <1>1, ReleasesAssumption DEF ReleaseInv, ReleaseTypeOK
  <2>2. run' \in [script : {"none", "deploy", "rollback"}, target : Release \union {None},
              previous : Release \union {None}, candidate : BOOLEAN, saved : File,
              dump : (0..MaxRelease) \union {None}, whole : BOOLEAN,
              started : BOOLEAN, checked : BOOLEAN, exit : {"ok", "failed", "killed"},
              reported : BOOLEAN, runs : 0..MaxRuns, faults : 0..MaxReleaseFaults]
    BY <1>1, <2>1 DEF ReleaseInv, ReleaseTypeOK, File
  <2> QED BY <1>1, <2>2 DEF ReleaseInv, ReleaseTypeOK
<1>3. ScriptRuns'
  BY <1>1, ReleasesAssumption DEF AllOf, Release, ReleaseInv, ReleaseTypeOK, ScriptRuns,
    AppliedFirst, LinkStays, FileKept, Started
<1>4. AppliedFirst'
  BY <1>1, ReleasesAssumption DEF AllOf, Release, ReleaseInv, ReleaseTypeOK, ScriptRuns,
    AppliedFirst, LinkStays, FileKept, SchemaCoversWhatRuns, Started, File
<1>5. LinkStays'
  BY <1>1, ReleasesAssumption DEF AllOf, Release, ReleaseInv, ReleaseTypeOK, ScriptRuns,
    AppliedFirst, LinkStays, FileKept, Started
<1>6. FileKept'
  BY <1>1, ReleasesAssumption DEF AllOf, Release, ReleaseInv, ReleaseTypeOK, ScriptRuns,
    AppliedFirst, LinkStays, FileKept, FailedKeepsRelease, File
<1> QED BY <1>2, <1>3, <1>4, <1>5, <1>6 DEF ReleaseInv


\* Nothing is installed.
LEMMA ReleaseInvInit == ReleaseInit => ReleaseInv
<1> SUFFICES ASSUME ReleaseInit PROVE ReleaseInv
  OBVIOUS
<1>1. None \notin Release /\ None # Blank /\ 0 \in 0..MaxRelease /\ 0 \in 0..MaxRuns
      /\ 0 \in 0..MaxReleaseFaults
  BY ReleasesAssumption DEF Release
<1>2. run \in [script : {"none", "deploy", "rollback"}, target : Release \union {None},
              previous : Release \union {None}, candidate : BOOLEAN, saved : File,
              dump : (0..MaxRelease) \union {None}, whole : BOOLEAN,
              started : BOOLEAN, checked : BOOLEAN, exit : {"ok", "failed", "killed"},
              reported : BOOLEAN, runs : 0..MaxRuns, faults : 0..MaxReleaseFaults]
  BY <1>1 DEF ReleaseInit, File
<1>3. ReleaseTypeOK
  BY <1>1, <1>2 DEF ReleaseInit, ReleaseTypeOK, File
<1>4. ScriptRuns /\ AppliedFirst /\ LinkStays /\ FileKept
  BY <1>1 DEF ReleaseInit, ScriptRuns, AppliedFirst, LinkStays, FileKept, FailedKeepsRelease,
    SchemaCoversWhatRuns, Started
<1> QED BY <1>3, <1>4 DEF ReleaseInv

\* Every step keeps the invariant.
LEMMA ReleaseInvStep == ReleaseInv /\ [ReleaseNext]_releaseVars => ReleaseInv'
<1>1. ASSUME ReleaseInv, ReleaseNext
      PROVE  ReleaseInv'
  BY <1>1, BeginInv, PrepareInv, BackupInv, ReleaseMigrateInv, UpTargetInv, SeedInv,
    ReleaseWaitForHealthInv, TimersInv, SaveEnvInv, MoveEnvInv, SwitchLinkInv, CleanupEnvInv,
    ReleaseRestartInv, DownInv, ApiFlipsInv, SetEdgeInv, HostStopsInv
    DEF ReleaseNext
<1>2. ASSUME ReleaseInv, UNCHANGED releaseVars
      PROVE  ReleaseInv'
  BY <1>2 DEF releaseVars, ReleaseInv, ReleaseTypeOK, ScriptRuns, AppliedFirst, LinkStays, FileKept,
    FailedKeepsRelease, SchemaCoversWhatRuns, AllOf
<1> QED BY <1>1, <1>2

-----------------------------------------------------------------------------

\* What every command may count on holds in every reachable state.
THEOREM ReleaseInvariance == ReleaseSpec => []ReleaseInv
BY ReleaseInvInit, ReleaseInvStep, PTL DEF ReleaseSpec

\* Every reachable state of the host is well typed.
THEOREM ReleaseTypeCorrect == ReleaseSpec => []ReleaseTypeOK
<1>1. ReleaseInv => ReleaseTypeOK BY DEF ReleaseInv
<1> QED BY <1>1, ReleaseInvariance, PTL

\* Over any sequence of deployments and rollbacks, whichever of their commands
\* fail and wherever the host stops, nothing runs whose migrations are not all
\* applied, and where a release is active the schema changes only after the script
\* that changes it has dumped the database with the schema it had.
THEOREM MigrationsStaySafe == ReleaseSpec => MigrationsAreSafe
<1>1. ReleaseInv => SchemaCoversWhatRuns
  BY DEF ReleaseInv, AppliedFirst
<1>2. ASSUME ReleaseInv, ReleaseNext, schema' # schema, current # None
      PROVE  run.dump = schema
  <2>1. ReleaseMigrate \/ UpTarget \/ ReleaseRestart
    BY <1>2 DEF ReleaseNext, BeginDeploy, BeginRollback, Begin, Prepare, Backup, Seed,
      ReleaseWaitForHealth, Timers, SaveEnv, MoveEnv, SwitchLink, CleanupEnv, Down, ApiFlips,
      SetEdge, HostStops, Command, host
  <2>2. CASE ReleaseMigrate
    BY <1>2, <2>2 DEF ReleaseMigrate, ReleaseInv, ScriptRuns, LinkStays
  <2>3. CASE UpTarget
    <3>1. run.script = "rollback"
      BY <1>2, <2>3 DEF UpTarget, Up, PartlyUp, Migrated, ReleaseInv, ScriptRuns, AppliedFirst
    <3> QED BY <1>2, <2>3, <3>1 DEF UpTarget, ReleaseInv, ScriptRuns, LinkStays
  <2>4. CASE ReleaseRestart
    BY <1>2, <2>4 DEF ReleaseRestart, ReleaseMustRestart, Up, PartlyUp, Migrated, ReleaseInv,
      ReleaseTypeOK, File, AppliedFirst
  <2> QED BY <2>1, <2>2, <2>3, <2>4
<1>3. ReleaseInv /\ [ReleaseNext]_releaseVars =>
        [schema' # schema /\ current # None => run.dump = schema]_releaseVars
  BY <1>2
<1> QED
  BY <1>1, <1>3, ReleaseInvariance, PTL DEF ReleaseSpec, MigrationsAreSafe, BackupBeforeMigration

\* Where a copy of the environment file does not fail half-way, a script that ends
\* well leaves everything at its target, one that fails leaves the link, and a
\* deployment that fails leaves everything else too or reports that it could not.
THEOREM DeploymentStaysAllOrNothing == ~CopyFails => (ReleaseSpec => []DeploymentIsAllOrNothing)
<1> SUFFICES ASSUME ~CopyFails
             PROVE  ReleaseSpec => []DeploymentIsAllOrNothing
  OBVIOUS
<1>1. ReleaseInv => DeploymentIsAllOrNothing
  BY DEF ReleaseInv, ReleaseTypeOK, LinkStays, FileKept, File, EnvironmentSurvives,
    DeploymentIsAllOrNothing
<1> QED BY <1>1, ReleaseInvariance, PTL
=============================================================================
