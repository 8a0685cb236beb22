------------------------------- MODULE Restore -------------------------------
(***************************************************************************)
(* Restoring a backup over the rehearsal database:                         *)
(* deploy/aws/scripts/restore-postgres.sh.  The archive is loaded beside   *)
(* the database in use, the two are swapped by renaming, the new one is    *)
(* migrated, started and checked, and only then is the old one dropped.    *)
(* Three EXIT traps undo what was done: one in each shell run inside the   *)
(* container, one in the script.                                           *)
(*                                                                         *)
(* One action per SQL statement or compose command.  Any of them may fail  *)
(* without effect, MaxFaults times in all; the script may be killed, which *)
(* runs no trap; and with LostAnswers the answer of the compose exec that  *)
(* swaps the databases may be lost after the shell inside has finished.    *)
(***************************************************************************)
EXTENDS Naturals

CONSTANTS
  MaxRestoreFaults,   \* bound on the statements that fail
  LostAnswers  \* whether the answer of the swap may be lost

ASSUME RestoreAssumption == MaxRestoreFaults \in Nat /\ LostAnswers \in BOOLEAN

\* Databases by the role of their names.  The suffix of time and process keeps
\* those of a run apart from what earlier runs left.
Names == {"target", "restore", "previous", "failed"}
RestoreServices == {"api", "web", "nginx"}
Contents == {"none", "original", "empty", "restored", "partly", "migrated"}

VARIABLES
  db,          \* content of each database, "none" if there is none, and ALLOW_CONNECTIONS
  running,     \* containers of the application that run
  restorePc,          \* the next command
  flags,       \* variables of the running container shell that are 1
  sh,          \* variables of the script that are 1
  exit,        \* how the script ends
  faults

restoreVars == <<db, running, restorePc, flags, sh, exit, faults>>

NoDatabase == [content |-> "none", open |-> FALSE]

RestoreInit ==
  /\ db = [n \in Names |-> IF n = "target" THEN [content |-> "original", open |-> TRUE]
                                           ELSE NoDatabase]
  /\ running = RestoreServices
  /\ restorePc = "download"
  /\ flags = {}
  /\ sh = {"application_running"}
  /\ exit = "failed"
  /\ faults = 0

Exists(n) == db[n].content # "none"
Serving == running = RestoreServices /\ Exists("target") /\ db["target"].open

\* A command fails without effect.
Fault == faults < MaxRestoreFaults /\ faults' = faults + 1
NoFault == faults' = faults

\* One SQL statement: done when it can be, with the flag it sets, or failed.
Sql(can, after, set, next, handler) ==
  \/ /\ can /\ NoFault
     /\ db' = after /\ flags' = flags \union set /\ restorePc' = next
  \/ /\ IF can THEN Fault ELSE NoFault
     /\ restorePc' = handler /\ UNCHANGED <<db, flags>>

Rename(a, b, set, next, handler) ==
  Sql(Exists(a) /\ ~Exists(b), [db EXCEPT ![b] = db[a], ![a] = NoDatabase], set, next, handler)
Allow(n, yes, set, next, handler) ==
  Sql(Exists(n), [db EXCEPT ![n].open = yes], set, next, handler)
Drop(n, next, handler) ==
  Sql(Exists(n), [db EXCEPT ![n] = NoDatabase], {}, next, handler)

\* Where the script goes when a command fails under set -e.
Trap == "cleanup"
\* With a bug: the shell of the swap has no trap.
NoTrap == "swapFailed"
SwapTrap == "undoRename"
RollbackTrap == "rollbackCleanup"

-----------------------------------------------------------------------------
(* The script up to the swap.                                              *)

Download ==
  /\ restorePc = "download"
  /\ \/ NoFault /\ restorePc' = "enterMaintenance"
     \/ Fault /\ restorePc' = Trap
  /\ UNCHANGED <<db, running, flags, sh, exit>>

\* compose stop of the three services; each is tried.
StopServices(next, handler) ==
  /\ sh' = (sh \union {"maintenance_started"}) \ {"application_running"}
  /\ \/ NoFault /\ running' = {} /\ restorePc' = next
     \/ Fault /\ running' \in SUBSET running /\ restorePc' = handler

\* compose start of the three services; each is tried.
StartServices(next, handler) ==
  /\ sh' = sh \union {"application_running"}
  /\ \/ NoFault /\ running' = RestoreServices /\ restorePc' = next
     \/ Fault /\ running' \in {S \in SUBSET RestoreServices : running \subseteq S} /\ restorePc' = handler

EnterMaintenance ==
  /\ restorePc = "enterMaintenance"
  /\ StopServices("createRestore", Trap)
  /\ UNCHANGED <<db, flags, exit>>

CreateRestore ==
  /\ restorePc = "createRestore"
  /\ Sql(TRUE, [db EXCEPT !["restore"] = [content |-> "empty", open |-> TRUE]],
         {"restore_created"}, "pgRestore", SwapTrap)
  /\ UNCHANGED <<running, sh, exit>>

\* --exit-on-error --single-transaction: all of the archive or nothing.
PgRestore ==
  /\ restorePc = "pgRestore"
  /\ Sql(TRUE, [db EXCEPT !["restore"].content = "restored"], {}, "blockTarget", SwapTrap)
  /\ UNCHANGED <<running, sh, exit>>

BlockTarget ==
  /\ restorePc = "blockTarget"
  /\ Allow("target", FALSE, {"target_blocked"}, "terminate", SwapTrap)
  /\ UNCHANGED <<running, sh, exit>>

\* pg_terminate_backend on what is still connected.
Terminate ==
  /\ restorePc = "terminate"
  /\ Sql(TRUE, db, {}, "renameTarget", SwapTrap)
  /\ UNCHANGED <<running, sh, exit>>

RenameTarget ==
  /\ restorePc = "renameTarget"
  /\ Rename("target", "previous", {"target_renamed"}, "renameRestore", SwapTrap)
  /\ UNCHANGED <<running, sh, exit>>

RenameRestore ==
  /\ restorePc = "renameRestore"
  /\ Rename("restore", "target", {"restore_renamed"}, "swapped", SwapTrap)
  /\ UNCHANGED <<running, sh, exit>>

-----------------------------------------------------------------------------
(* The trap of the swap: every undoing is tried, and a failure of one of   *)
(* the first two is reported with a marker.                                *)

Undo(needed, Statement, next) ==
  /\ IF needed THEN Statement ELSE restorePc' = next /\ NoFault /\ UNCHANGED <<db, flags>>
  /\ UNCHANGED <<running, exit>>

\* What a statement that should have changed the databases reports.
Report == sh' = IF db' = db THEN sh \union {"recovery_failed"} ELSE sh

MustUnrename == "target_renamed" \in flags /\ "restore_renamed" \notin flags

UndoRename ==
  /\ restorePc = "undoRename"
  /\ Undo(MustUnrename, Rename("previous", "target", {}, "undoBlock", "undoBlock"), "undoBlock")
  /\ IF MustUnrename THEN Report ELSE UNCHANGED sh

\* With a bug: a target that was blocked but not yet renamed stays blocked.
OnlyWhenRenamed == "target_renamed" \in flags /\ "restore_renamed" \notin flags
MustUnblock == "target_blocked" \in flags /\ "restore_renamed" \notin flags

UndoBlock ==
  /\ restorePc = "undoBlock"
  /\ Undo(MustUnblock, Allow("target", TRUE, {}, "undoCreate", "undoCreate"), "undoCreate")
  /\ IF MustUnblock THEN Report ELSE UNCHANGED sh

UndoCreate ==
  /\ restorePc = "undoCreate"
  /\ Undo("restore_created" \in flags /\ "restore_renamed" \notin flags,
          Drop("restore", "swapFailed", "swapFailed"), "swapFailed")
  /\ UNCHANGED sh

-----------------------------------------------------------------------------
(* The script after the swap.                                              *)

\* With a bug: the previous database goes before the new one has been checked.
DropsEarly(step) ==
  CASE step = "swapped" -> "migrate"
    [] step = "migrate" -> "dropPrevious"
    [] step = "dropPrevious" -> "startApplication"
    [] step = "startApplication" -> "waitForHealth"
    [] OTHER -> "ended"
\* With a bug: the application is started, and then its database migrated.
MigratesLate(step) ==
  CASE step = "swapped" -> "startApplication"
    [] step = "startApplication" -> "migrate"
    [] step = "migrate" -> "waitForHealth"
    [] step = "waitForHealth" -> "dropPrevious"
    [] OTHER -> "ended"
RestoreAfter(step) ==
  CASE step = "swapped" -> "migrate"
    [] step = "migrate" -> "startApplication"
    [] step = "startApplication" -> "waitForHealth"
    [] step = "waitForHealth" -> "dropPrevious"
    [] OTHER -> "ended"

\* The swap answers with the previous name, or with a status and perhaps the
\* marker; an answer that is lost is a status without a marker.
SwapAnswers ==
  /\ \/ /\ restorePc = "swapped" /\ NoFault
        /\ restorePc' = RestoreAfter("swapped") /\ sh' = sh \union {"swap_completed"}
     \/ restorePc = "swapFailed" /\ NoFault /\ restorePc' = Trap /\ UNCHANGED sh
     \/ /\ restorePc \in {"swapped", "swapFailed"} /\ LostAnswers /\ Fault
        /\ restorePc' = Trap /\ sh' = sh \ {"recovery_failed"}
  /\ UNCHANGED <<db, running, flags, exit>>

\* A migration that fails may have applied some of the migrations.
RestoreMigrate ==
  /\ restorePc = "migrate"
  /\ \/ NoFault /\ db' = [db EXCEPT !["target"].content = "migrated"] /\ restorePc' = RestoreAfter("migrate")
     \/ /\ Fault /\ restorePc' = Trap
        /\ \E c \in {"restored", "partly"} : db' = [db EXCEPT !["target"].content = c]
  /\ UNCHANGED <<running, flags, sh, exit>>

StartApplication ==
  /\ restorePc = "startApplication"
  /\ StartServices(RestoreAfter("startApplication"), Trap)
  /\ UNCHANGED <<db, flags, exit>>

RestoreWaitForHealth ==
  /\ restorePc = "waitForHealth"
  /\ \/ /\ Serving /\ NoFault
        /\ restorePc' = RestoreAfter("waitForHealth") /\ sh' = sh \union {"replacement_validated"}
     \/ /\ IF Serving THEN Fault ELSE NoFault
        /\ restorePc' = Trap /\ UNCHANGED sh
  /\ UNCHANGED <<db, running, flags, exit>>

DropPreviousDatabase ==
  /\ restorePc = "dropPrevious"
  /\ Drop("previous", RestoreAfter("dropPrevious"), Trap)
  /\ IF restorePc' = Trap THEN UNCHANGED <<sh, exit>>
     ELSE /\ sh' = sh \ {"swap_completed", "maintenance_started"}
          /\ exit' = "ok"
  /\ UNCHANGED running

-----------------------------------------------------------------------------
(* The trap of the script, with the rollback and the trap of its shell.    *)

\* With a bug: a replacement already validated is rolled back too.
RollsBackAnything == "swap_completed" \in sh
MustRollBack == "swap_completed" \in sh /\ "replacement_validated" \notin sh

Cleanup ==
  /\ restorePc = "cleanup"
  /\ restorePc' = IF ~MustRollBack THEN "restart"
           ELSE IF "application_running" \in sh THEN "rollbackMaintenance" ELSE "rollbackBlock"
  /\ flags' = {}
  /\ UNCHANGED <<db, running, sh, exit, faults>>

\* A service that does not stop is only reported.
RollbackMaintenance ==
  /\ restorePc = "rollbackMaintenance"
  /\ StopServices("rollbackBlock", "rollbackBlock")
  /\ UNCHANGED <<db, flags, exit>>

RollbackBlock ==
  /\ restorePc = "rollbackBlock"
  /\ Allow("target", FALSE, {"target_blocked"}, "rollbackTerminate", RollbackTrap)
  /\ UNCHANGED <<running, sh, exit>>

RollbackTerminate ==
  /\ restorePc = "rollbackTerminate"
  /\ Sql(TRUE, db, {}, "rollbackTarget", RollbackTrap)
  /\ UNCHANGED <<running, sh, exit>>

RollbackTarget ==
  /\ restorePc = "rollbackTarget"
  /\ Rename("target", "failed", {"failed_renamed"}, "rollbackPrevious", RollbackTrap)
  /\ UNCHANGED <<running, sh, exit>>

RollbackPrevious ==
  /\ restorePc = "rollbackPrevious"
  /\ Rename("previous", "target", {"previous_renamed"}, "rollbackAllow", RollbackTrap)
  /\ UNCHANGED <<running, sh, exit>>

RollbackAllow ==
  /\ restorePc = "rollbackAllow"
  /\ Allow("target", TRUE, {}, "rollbackDrop", RollbackTrap)
  /\ UNCHANGED <<running, sh, exit>>

RollbackDrop ==
  /\ restorePc = "rollbackDrop"
  /\ Drop("failed", "restart", RollbackTrap)
  /\ sh' = IF restorePc' = "restart" THEN sh \ {"swap_completed"} ELSE sh
  /\ UNCHANGED <<running, exit>>

\* The rollback has failed: the shell gives the target its name back, if the
\* previous one did not take it, and opens it; the services stay stopped.
RollbackCleanup ==
  /\ restorePc = "rollbackCleanup"
  /\ IF "failed_renamed" \in flags /\ "previous_renamed" \notin flags
     THEN Rename("failed", "target", {}, "rollbackReopen", "rollbackReopen")
     ELSE restorePc' = "rollbackReopen" /\ NoFault /\ UNCHANGED <<db, flags>>
  /\ sh' = sh \union {"recovery_failed"}
  /\ UNCHANGED <<running, exit>>

RollbackReopen ==
  /\ restorePc = "rollbackReopen"
  /\ Undo("target_blocked" \in flags, Allow("target", TRUE, {}, "restart", "restart"), "restart")
  /\ UNCHANGED sh

\* With a bug: the application is started on whatever the recovery left.
AlwaysRestarts == "maintenance_started" \in sh /\ "application_running" \notin sh
RestoreMustRestart == /\ "maintenance_started" \in sh /\ "application_running" \notin sh
               /\ "recovery_failed" \notin sh

RestoreRestart ==
  /\ restorePc = "restart"
  /\ IF RestoreMustRestart THEN StartServices("ended", "ended")
     ELSE restorePc' = "ended" /\ NoFault /\ UNCHANGED <<running, sh>>
  /\ UNCHANGED <<db, flags, exit>>

\* SIGKILL, or the machine: no trap runs.
Kill ==
  /\ restorePc \notin {"ended", "killed"}
  /\ restorePc' = "killed"
  /\ UNCHANGED <<db, running, flags, sh, exit, faults>>

RestoreNext ==
  \/ Download \/ EnterMaintenance
  \/ CreateRestore \/ PgRestore \/ BlockTarget \/ Terminate \/ RenameTarget \/ RenameRestore
  \/ UndoRename \/ UndoBlock \/ UndoCreate \/ SwapAnswers
  \/ RestoreMigrate \/ StartApplication \/ RestoreWaitForHealth \/ DropPreviousDatabase
  \/ Cleanup \/ RollbackMaintenance \/ RollbackBlock \/ RollbackTerminate \/ RollbackTarget
  \/ RollbackPrevious \/ RollbackAllow \/ RollbackDrop \/ RollbackCleanup \/ RollbackReopen
  \/ RestoreRestart \/ Kill

RestoreSpec == RestoreInit /\ [][RestoreNext]_restoreVars

-----------------------------------------------------------------------------
(* Properties.                                                             *)

RestoreTypeOK ==
  /\ db \in [Names -> [content : Contents, open : BOOLEAN]]
  /\ running \subseteq RestoreServices
  /\ restorePc \in {"download", "enterMaintenance", "createRestore", "pgRestore", "blockTarget",
             "terminate", "renameTarget", "renameRestore", "undoRename", "undoBlock",
             "undoCreate", "swapFailed", "swapped", "migrate", "startApplication",
             "waitForHealth", "dropPrevious", "cleanup", "rollbackMaintenance", "rollbackBlock",
             "rollbackTerminate", "rollbackTarget", "rollbackPrevious", "rollbackAllow",
             "rollbackDrop", "rollbackCleanup", "rollbackReopen", "restart", "ended", "killed"}
  /\ flags \subseteq {"restore_created", "target_blocked", "target_renamed", "restore_renamed",
                      "failed_renamed", "previous_renamed"}
  /\ sh \subseteq {"application_running", "maintenance_started", "swap_completed",
                   "replacement_validated", "recovery_failed"}
  /\ exit \in {"ok", "failed"}
  /\ faults \in 0..MaxRestoreFaults

\* Whatever fails, and wherever the script is killed, the original data are in
\* some database until the replacement has answered the health check.
OriginalSurvives ==
  "replacement_validated" \notin sh => \E n \in Names : db[n].content = "original"

\* One failure, whichever command it is of, never leaves the event without its
\* application: the script ends with every service running on an open database.
OneFaultIsSurvived == faults <= 1 => Serving

\* When the script ends by itself, success means the archive, migrated, in use and
\* alone; failure means the original, open, unless the replacement had been
\* validated or the recovery is reported as failed, which takes two failures.
OutcomeIsAsReported ==
  restorePc = "ended" =>
    /\ OneFaultIsSurvived
    /\ IF exit = "ok"
       THEN /\ Serving /\ db["target"].content = "migrated"
            /\ \A n \in Names \ {"target"} : ~Exists(n)
       ELSE \/ db["target"].content = "original" /\ db["target"].open
            \/ "replacement_validated" \in sh /\ db["target"].content = "migrated"
            \/ "recovery_failed" \in sh

\* No service is started again when the databases could not be put back, nor the
\* API on anything but the original database or a migrated one, and a replacement
\* that has been validated is never undone.  (scripts.test.sh:515: "restore
\* restarted the API after swap compensation failed"; :403: "restore started the
\* API before migrations completed".)
StartsOnlyWhatIsWhole ==
  [][ /\ "recovery_failed" \in sh' => running' \subseteq running
      /\ "api" \in running' \ running => db["target"].content \in {"original", "migrated"}
      /\ "replacement_validated" \in sh =>
           "replacement_validated" \in sh' /\ db'["target"] = db["target"] ]_restoreVars
=============================================================================
