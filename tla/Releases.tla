------------------------------ MODULE Releases -------------------------------
(***************************************************************************)
(* Releases on the production host: deploy-release.sh and                  *)
(* rollback-release.sh of deploy/aws/production/scripts.  A release is     *)
(* four things that one command after another brings in step: the schema   *)
(* of the database, the containers that run, the environment file with the *)
(* digests of their images, and the link `current`.  Migrations only go    *)
(* forward: a release is the number of the last migration it brings.       *)
(*                                                                         *)
(* One action per command.  Any may fail, MaxFaults times in all, or the   *)
(* host may stop, after which Docker starts the containers there were.     *)
(* With CopyFails the copy of the environment file may fail too, as on a   *)
(* disk that is full.                                                      *)
(***************************************************************************)
EXTENDS Integers

CONSTANTS
  MaxRelease,  \* bound on the releases
  MaxRuns,     \* bound on the scripts run
  MaxReleaseFaults,   \* bound on the commands that fail
  CopyFails,
  None,        \* no release, no file
  Blank        \* an environment file with nothing in it

ASSUME ReleasesAssumption ==
  /\ MaxRelease \in Nat /\ MaxRuns \in Nat /\ MaxReleaseFaults \in Nat
  /\ CopyFails \in BOOLEAN
  /\ None \notin Int /\ Blank \notin Int /\ None # Blank

Release == 1..MaxRelease
ReleaseServices == {"api", "web"}

VARIABLES
  current,   \* release the link points to
  env,       \* release whose digests the environment file holds
  up,        \* release of the container of each service
  schema,    \* last migration applied
  edge,      \* whether Nginx shows the maintenance page or redirects to HTTPS
  answering, \* whether the API answers /health
  releasePc,
  run        \* variables of the script that runs, or ran last

releaseVars == <<current, env, up, schema, edge, answering, releasePc, run>>
host == <<current, env, up, schema>>

ReleaseInit ==
  /\ current = None /\ env = None
  /\ up = [s \in ReleaseServices |-> None]
  /\ schema = 0
  /\ edge = "maintenance"
  /\ answering = FALSE
  /\ releasePc = "idle"
  /\ run = [script |-> "none", target |-> None, previous |-> None, candidate |-> FALSE,
            saved |-> None, dump |-> None, started |-> FALSE, checked |-> FALSE, exit |-> "ok",
            whole |-> FALSE, reported |-> FALSE, runs |-> 0, faults |-> 0]

\* Everything is of one release.
AllOf(r) == current = r /\ env = r /\ \A s \in ReleaseServices : up[s] = r

\* With a bug: the application is started and the migrations left to another day.
OnlyStarts(r) == schema
Migrated(r) == IF schema >= r THEN schema ELSE r

\* A command does what it says, or fails and the script goes to its EXIT trap.
Does(next) == releasePc' = next /\ run' = run
Fails ==
  /\ run.faults < MaxReleaseFaults
  /\ releasePc' = "cleanup"
  /\ run' = [run EXCEPT !.faults = @ + 1]

\* A command without effect on the host.
Command(here, next) ==
  /\ releasePc = here
  /\ Does(next) \/ Fails
  /\ UNCHANGED <<host, edge, answering>>

\* compose up -d with the images of r: each container of the application depends on
\* `migrate`, which compose runs first.
Up(r) ==
  /\ schema' = Migrated(r)
  /\ up' = [s \in ReleaseServices |-> r]
  /\ answering' = TRUE
PartlyUp(r) ==
  \/ UNCHANGED <<schema, up, answering>>
  \/ /\ schema' = Migrated(r)
     /\ \E S \in SUBSET ReleaseServices : up' = [s \in ReleaseServices |-> IF s \in S THEN r ELSE up[s]]
     /\ answering' \in BOOLEAN

-----------------------------------------------------------------------------
(* The two scripts.                                                        *)

Begin(script, r) ==
  /\ releasePc = "idle"
  /\ run.runs < MaxRuns
  /\ run' = [run EXCEPT !.script = script, !.target = r, !.previous = current,
                        !.candidate = TRUE, !.saved = None, !.dump = None, !.started = FALSE,
                        !.checked = FALSE, !.exit = "failed", !.reported = FALSE,
                        !.whole = current # None /\ AllOf(current),
                        !.runs = @ + 1]
  /\ UNCHANGED <<host, edge, answering>>

\* Up to the candidate environment file, and `config`.
BeginDeploy(r) == Begin("deploy", r) /\ releasePc' = "prepare"
\* The release must not be the current one; its environment file is the one there
\* is, with the digests of its manifest.
BeginRollback(r) ==
  /\ current # None /\ env \in Release /\ r # current
  /\ Begin("rollback", r) /\ releasePc' = "prepare"

\* The order of the commands.  With a bug: the dump of a deployment is made after its
\* migration; the link is moved before the environment file.
Order(here, dumpFirst, envFirst) ==
  CASE here = "prepare" ->
         IF run.previous # None /\ (dumpFirst \/ run.script = "rollback") THEN "backup" ELSE "migrate"
    [] here = "backup" -> IF dumpFirst /\ run.script = "deploy" THEN "migrate" ELSE "up"
    [] here = "migrate" -> IF dumpFirst \/ run.previous = None THEN "up" ELSE "backup"
    [] here = "up" -> IF run.script = "deploy" /\ run.previous = None THEN "seed" ELSE "health"
    [] here = "seed" -> "health"
    [] here = "health" -> IF run.script = "deploy" THEN "timers" ELSE "saveEnv"
    [] here = "timers" -> "saveEnv"
    [] here = "saveEnv" -> IF envFirst THEN "moveEnv" ELSE "link"
    [] here = "moveEnv" -> IF envFirst THEN "link" ELSE "idle"
    [] here = "link" -> IF envFirst THEN "idle" ELSE "moveEnv"
DumpsLast(here) == Order(here, FALSE, TRUE)
LinksFirst(here) == Order(here, TRUE, FALSE)
ReleaseAfter(here) == Order(here, TRUE, TRUE)

Prepare == Command("prepare", ReleaseAfter("prepare"))

\* backup-postgres.sh, to a staging key and from there to its own; a deployment
\* asks for the size of the dump.
Backup ==
  /\ releasePc = "backup"
  /\ \/ releasePc' = ReleaseAfter("backup") /\ run' = [run EXCEPT !.dump = schema]
     \/ Fails
  /\ UNCHANGED <<host, edge, answering>>

\* up -d postgres migrate.
ReleaseMigrate ==
  /\ releasePc = "migrate"
  /\ \/ Does(ReleaseAfter("migrate")) /\ schema' = Migrated(run.target)
     \/ Fails /\ schema' \in {schema, Migrated(run.target)}
  /\ UNCHANGED <<current, env, up, edge, answering>>

\* up -d api web nginx in a deployment, up -d in a rollback.
UpTarget ==
  /\ releasePc = "up"
  /\ \/ /\ Up(run.target)
        /\ releasePc' = ReleaseAfter("up")
        /\ run' = [run EXCEPT !.started = TRUE]
     \/ PartlyUp(run.target) /\ Fails
  /\ UNCHANGED <<current, env, edge>>

Seed == Command("seed", ReleaseAfter("seed"))

\* What Nginx answers on port 80: the maintenance page has a status of 503, and
\* otherwise all but /nginx-health is redirected, which curl --fail takes for success.
HealthcheckUrl == IF run.script = "deploy" THEN "/nginx-health" ELSE "/api/health"
Succeeds(url) == url = "/nginx-health" \/ edge # "maintenance"

ReleaseWaitForHealth ==
  /\ releasePc = "health"
  /\ \/ /\ Succeeds(HealthcheckUrl)
        /\ releasePc' = ReleaseAfter("health")
        /\ run' = [run EXCEPT !.checked = answering]
     \/ Succeeds(HealthcheckUrl) /\ Fails
     \/ ~Succeeds(HealthcheckUrl) /\ releasePc' = "cleanup" /\ UNCHANGED run
  /\ UNCHANGED <<host, edge, answering>>

Timers == Command("timers", ReleaseAfter("timers"))

\* mktemp, and cp: a copy that fails leaves the empty file of mktemp.
SaveEnv ==
  /\ releasePc = "saveEnv"
  /\ \/ releasePc' = ReleaseAfter("saveEnv") /\ run' = [run EXCEPT !.saved = env]
     \/ Fails
     \/ /\ CopyFails /\ env # None /\ run.faults < MaxReleaseFaults
        /\ releasePc' = "cleanup"
        /\ run' = [run EXCEPT !.saved = Blank, !.faults = @ + 1]
  /\ UNCHANGED <<host, edge, answering>>

MoveEnv ==
  /\ releasePc = "moveEnv"
  /\ \/ /\ env' = run.target /\ releasePc' = ReleaseAfter("moveEnv")
        /\ run' = [run EXCEPT !.candidate = FALSE]
     \/ Fails /\ UNCHANGED env
  /\ UNCHANGED <<current, up, schema, edge, answering>>

\* ln to a temporary name and mv over the link; switch_completed.
SwitchLink ==
  /\ releasePc = "link"
  /\ \/ /\ current' = run.target /\ releasePc' = ReleaseAfter("link")
        /\ run' = [run EXCEPT !.exit = "ok", !.saved = None]
     \/ Fails /\ UNCHANGED current
  /\ UNCHANGED <<env, up, schema, edge, answering>>

-----------------------------------------------------------------------------
(* The EXIT trap.                                                          *)

\* With a bug: the environment file of the release that failed stays.
KeepsCandidate == env
RestoredEnv == IF run.saved # None THEN run.saved ELSE env

CleanupEnv ==
  /\ releasePc = "cleanup"
  /\ env' = RestoredEnv
  /\ run' = [run EXCEPT !.saved = None]
  /\ releasePc' = "restart"
  /\ UNCHANGED <<current, up, schema, edge, answering>>

\* A deployment starts the previous release again; the first one stops what it
\* started, if it still has its environment file.  A rollback starts the current
\* release again once it has started another.
ReleaseMustRestart ==
  /\ env # None
  /\ IF run.script = "deploy" THEN run.previous # None ELSE run.started

Ended == releasePc' = "idle"

ReleaseRestart ==
  /\ releasePc = "restart"
  /\ ReleaseMustRestart
  /\ \/ /\ env # Blank
        /\ Up(env) /\ Ended /\ UNCHANGED run
     \/ /\ IF env = Blank THEN UNCHANGED <<schema, up, answering>>
           ELSE run.faults < MaxReleaseFaults /\ PartlyUp(env)
        /\ Ended
        /\ run' = [run EXCEPT !.reported = TRUE, !.faults = IF env = Blank THEN @ ELSE @ + 1]
  /\ UNCHANGED <<current, env, edge>>

Down ==
  /\ releasePc = "restart"
  /\ ~ReleaseMustRestart
  /\ \/ /\ run.script = "deploy" /\ run.candidate
        /\ up' = [s \in ReleaseServices |-> None] /\ answering' = FALSE
     \/ UNCHANGED <<up, answering>>
  /\ Ended
  /\ UNCHANGED <<current, env, schema, edge, run>>

-----------------------------------------------------------------------------
(* The host, and its operators.                                            *)

\* The API stops answering, or answers again (restart: unless-stopped).
ApiFlips ==
  /\ up["api"] # None
  /\ answering' = ~answering
  /\ UNCHANGED <<host, edge, releasePc, run>>

\* The maintenance page is put up by hand, and taken away by activate-edge.sh.
SetEdge ==
  /\ releasePc = "idle"
  /\ edge = "maintenance" => current # None /\ env # None
  /\ edge' = IF edge = "open" THEN "maintenance" ELSE "open"
  /\ UNCHANGED <<host, answering, releasePc, run>>

HostStops ==
  /\ releasePc # "idle"
  /\ releasePc' = "idle"
  /\ run' = [run EXCEPT !.exit = "killed"]
  /\ UNCHANGED <<host, edge, answering>>

ReleaseNext ==
  \/ \E r \in Release : BeginDeploy(r) \/ BeginRollback(r)
  \/ Prepare \/ Backup \/ ReleaseMigrate \/ UpTarget \/ Seed \/ ReleaseWaitForHealth \/ Timers
  \/ SaveEnv \/ MoveEnv \/ SwitchLink
  \/ CleanupEnv \/ ReleaseRestart \/ Down
  \/ ApiFlips \/ SetEdge \/ HostStops

ReleaseSpec == ReleaseInit /\ [][ReleaseNext]_releaseVars

-----------------------------------------------------------------------------
(* Properties.                                                             *)

File == Release \union {None, Blank}

ReleaseTypeOK ==
  /\ current \in Release \union {None} /\ env \in File
  /\ up \in [ReleaseServices -> Release \union {None}]
  /\ schema \in 0..MaxRelease
  /\ edge \in {"maintenance", "open"} /\ answering \in BOOLEAN
  /\ releasePc \in {"idle", "prepare", "backup", "migrate", "up", "seed", "health", "timers",
             "saveEnv", "moveEnv", "link", "cleanup", "restart"}
  /\ run \in [script : {"none", "deploy", "rollback"}, target : Release \union {None},
              previous : Release \union {None}, candidate : BOOLEAN, saved : File,
              dump : (0..MaxRelease) \union {None}, whole : BOOLEAN,
              started : BOOLEAN, checked : BOOLEAN, exit : {"ok", "failed", "killed"},
              reported : BOOLEAN, runs : 0..MaxRuns, faults : 0..MaxReleaseFaults]

\* No container runs a release whose migrations are not all applied, whatever
\* failed and however the scripts follow each other.
SchemaCoversWhatRuns == \A s \in ReleaseServices : up[s] # None => up[s] <= schema

\* And where a release is active, the schema changes only after this same script has
\* dumped the database with the schema it had.  (marco-14-runbook.md:60: "Antes de
\* qualquer migração em uma instalação que já tenha release ativo, o host cria e
\* confirma um objeto não vazio".)
BackupBeforeMigration ==
  [][ schema' # schema /\ current # None => run.dump = schema ]_releaseVars

\* Both, over any sequence of deployments and rollbacks.
MigrationsAreSafe == []SchemaCoversWhatRuns /\ BackupBeforeMigration

\* There is always an environment file to start the release with.
EnvironmentSurvives == current # None => env \in Release

\* A script that ends well leaves everything at its target.  A deployment that
\* fails leaves `current` and, unless it reports that the containers could not be
\* started again, everything else of the release that was there, whichever of its
\* commands failed, as long as one that fails has no effect: with CopyFails, which
\* lets `cp` leave half an environment file (deploy-release.sh:325), the code does
\* not keep this.  (release-scripts.test.sh:502: "health failure changed current";
\* :504: "health failure did not restart previous release".)
FailedKeepsRelease ==
  run.exit = "failed" /\ run.whole /\ ~run.reported => AllOf(run.previous)

DeploymentIsAllOrNothing ==
  /\ EnvironmentSurvives
  /\ releasePc = "idle" =>
       /\ run.exit = "ok" /\ run.script # "none" => AllOf(run.target)
       /\ run.exit = "failed" => current = run.previous
       /\ run.script = "deploy" => FailedKeepsRelease

\* The next three are not kept by the code (README, "What the code does not keep").
\* A rollback that fails leaves everything as it was too.  (rollback-release.sh:124: "rollback failed and the current
\* release could not be restarted", which is said when it could not.)
RollbackIsAllOrNothing == releasePc = "idle" /\ run.script = "rollback" => FailedKeepsRelease

\* A rollback none of whose commands fails succeeds, in maintenance too.
\* (marco-14-runbook.md:218: "Colocar manutenção, identificar o SHA anterior publicado
\* e executar rollback".)
RollbackWorksInMaintenance ==
  [][ releasePc # "idle" /\ releasePc' = "idle" /\ run.script = "rollback" /\ run.faults = 0
        => run'.exit # "failed" ]_releaseVars

\* A rollback moves `current` only when the API has answered.  (The plan of Marco 14,
\* 2026-08-23-marco-14-final-go-live.md:348: "só troca `current` após `/api/health`
\* passar".)
CurrentHasAnswered ==
  [][ current' # current /\ run.script = "rollback" => run.checked ]_releaseVars
=============================================================================
