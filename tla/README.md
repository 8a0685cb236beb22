# SEMCOMP 2026 gamification: formal models

TLA+ models of this repository, the TLC configurations that check them on small
instances, and proofs for TLAPS. Participants of a conference earn points and XP
from activities and spend the points in a shop; administrators run both.

Most of what can go wrong lies in the database: every operation is a PostgreSQL
transaction of several statements at READ COMMITTED, many run at once, and most
rules (no negative balance, one redemption of an activity, one refund) are kept
by the order of locks and by the guards repeated in each UPDATE. The rest lies in
what outlives a single request: counters in memory, streams, the caches of a
browser tab, and the scripts that replace a database or a release.

- [Inventory](#inventory): the components, what they keep, how they interact
- [How transactions are modelled](#how-transactions-are-modelled)
- [The modules](#the-modules), one section each
- [Runs](#runs): what each shows, bounds, fairness
- [Proofs](#proofs): what is proved, from which assumptions, along which argument
- [What the code does not keep](#what-the-code-does-not-keep)
- [What is not modelled](#what-is-not-modelled) and the [plan](#plan)

## Inventory

One Node process or more (NestJS) serves the web client over HTTP. The state they
share is PostgreSQL, through Prisma; each has three structures in memory: the
buffer of security metrics, the count of downloads, and the rate limiter's store.
Handlers interleave at every `await`; nothing else runs but three cron jobs
(presence every minute, metrics every minute, retention every day). Paths below
are relative to `apps/api/src`, those beginning with `web` to `apps/web/src`, and
those beginning with `deploy` to the repository.

| component | state | operations that change it | interacts through |
|---|---|---|---|
| Reward shop (`rewards`) | `Reward` (price, stock, active), `RewardRedemption` (participant, price paid, status) | create, update; redeem; deliver, cancel | debits and refunds `User.points`, writes `PointEvent`s |
| Points ledger (`admin/admin-adjustments*`, `admin/admin-reconciliation*`) | `User.points`, `User.xp`; `PointEvent` with idempotency key, reversed event, audit event | adjust, reverse, confirm a reconciliation | the same rows as everything that moves points; `AdminAuditEvent` is read back by replays |
| Activities (`actions`) | `Action` (points, type, active, reusable code and its flag) | redeem directly or by code, grant for a question, create, update | inserts `PointEvent`s under the unique index on (participant, activity); consumes `ClaimCode`s |
| Single-use codes (`claim-codes`) | `ClaimCode` (active, used, by whom), batches, bulk operations | generate a batch, change one status, change many | consumed by `actions` |
| Participants (`admin/admin-participants*`) | `User.isActive`, password and its forced change | change of status, password reset | revokes `UserSession`s |
| Operators (`admin/admin-operators*`) | administrators: profile, active, password; `AdminActivation` codes | create, update, change status, reset, activate | revokes sessions; at least one general administrator must stay available |
| Sessions (`auth`, `presence/sessions*`) | `UserSession` (last seen, end and reason), forced password change | register, log in, log out, heartbeat, expire, change password | every request is admitted by a valid session |
| Presence (`presence`) | `PresenceDailySummary` | collect every minute, delete what is old | counts sessions |
| Security metrics (`security/security-http-metrics*`) | buffer in memory, one row a minute in the database | record a response, flush, restore after a failed flush | middleware of every request |
| Downloads (`common/download-gate.ts`, `exports`, `claim-codes/claim-code-artifacts*`) | places taken, per kind | run an export or a QR artifact | reads in blocks; streams and the HTTP response |
| Ranking (`ranking`) | none of its own | one request, several statements | what `actions` and the ledger write |
| Audit trail (`audit`) | `AdminAuditEvent`: what a row was, what it became | `record`, in the transaction of every administrative change | every service above |
| Tab session (`web/lib/http`, `web/hooks`) | the CSRF token in memory, the token request under way | sign in and out, check, heartbeat, change of password | the cookie, which belongs to the browser |
| Operations panel (`web/features/participants`, `web/app/admin/participantes`) | the forms, the idempotency key of each | open, edit, submit, submit again | adjustments and reconciliations, with answers lost |
| Redeem dialog (`web/app/home`, `web/features/actions/qr-scanner.ts`) | state of the dialog, a camera for each mount | open, type, scan, stop, submit | the permission of the user and the frames of a video |
| Screens (`web/app`, `web/hooks/use-auth.ts`, `web/app/providers.tsx`) | the page shown, the answers kept by the query cache | follow a link, be redirected, refetch | the guards of the API |
| Restore (`deploy/aws/scripts/restore-postgres.sh`) | the databases by name, the services that run | load, swap, migrate, check, undo | three EXIT traps |
| Releases (`deploy/aws/production/scripts`) | schema, containers, environment file, link `current` | deploy, roll back, maintenance | Docker starts what there was |
| Rate limiting, dashboard, health, configuration, command line, DTOs | see `PROJECT.json` | | |

The hard behaviours, each at its line in `PROJECT.json` under `hazards`:

- *stale reads*: `redeem` reads the reward before it locks anything; a grant, an
  adjustment and a reconciliation decide on rows read statements earlier;
  `updateStatus` of a code reads it without a lock; a login hashes between the
  row it verified and the session it starts;
- *races decided by a constraint*: the unique indexes on (participant, activity),
  on the idempotency key and on the reversed event decide at the INSERT, when
  other rows have been written already;
- *lock order*: participant and reward; activity, index and participant; codes
  in bulk; generals and the operator that is changed;
- *retries*: a client that got no answer repeats the request, perhaps while the
  first attempt runs; one that did get it must not repeat it under another key;
- *two statements, two snapshots*: at READ COMMITTED a balance and the sum of
  its events are not read at the same moment, nor are the blocks of an export;
- *later steps failing*: stock gone after the debit, activity already redeemed
  after the code was consumed, a flush after its batch was taken, one command of
  a script, and one command of the trap that undoes it;
- *late arrivals*: a collection of the day before, a token of the session before,
  a camera granted to a dialog that has closed, an answer for who has signed out.

What makes each component correct, in a sentence:

- shop: balances and stocks never go negative, units are neither made nor lost,
  a redemption is settled once and at the price paid, and the whole behaves as if
  each operation took place at one instant;
- ledger: one effect and one answer for each key, a reversal undoes one manual
  adjustment once, a reconciliation corrects exactly the divergence there is;
- activities and codes: an activity pays a participant once and a code pays once;
  a used code never changes; a bulk operation reports what it did;
- operators: the general administrators a change was decided by stay available
  while it is made, a code activates once and never after a reset;
- sessions: what was refused or revoked stays so, and a temporary password lasts
  until its participant or an administrator replaces it;
- presence, metrics: no count lost or added twice, the peak of a day is one
  observation of that day;
- ranking: the list and every place in it are of one order;
- audit: no change is refused by what records it, and the events of a row follow
  one from another;
- downloads: as many places taken as downloads under way, whatever fails, and
  what looks complete is complete;
- tab: the token is the one of the cookie's session; a wish is carried out once,
  as it was reviewed; nobody who signed out is kept; pages ask what they may;
- scripts: the original data survive until the replacement is valid, what is
  reported is what is there, nothing runs on a schema older than itself.

## How transactions are modelled

A constant set `Tx` holds slots, each of which runs one transaction after
another; its size bounds how many are open at once. `pc[t]` is the next
statement of slot `t`, named after the repository's method, and `tx[t]` what the
transaction knows: its arguments, what it has read, what it has written and not
yet committed. The tables hold committed rows only.

- A plain SELECT reads the committed rows of that step. The next statement may
  find others: READ COMMITTED takes a snapshot for each statement.
- `SELECT ... FOR UPDATE` and UPDATE are enabled when no other transaction holds
  the row. They see the row as it is then, re-test their WHERE on it (as
  PostgreSQL does after a wait), and keep the lock to the end. A transaction that
  waits is one whose statement is not enabled.
- An INSERT under a unique index first meets the committed rows, then waits for
  an open transaction that has entered the same key. The foreign keys of the new
  row take KEY SHARE locks, which wait for FOR UPDATE but not for an UPDATE of
  other columns (`LockedForUpdate` in Shop, `Sharers` in ActionRedemption).
- The commit publishes the row versions and frees the locks in one step.
  Statements that touch only rows already locked, and the last statement that
  can wait, are joined to the commit: nobody can see or disturb what comes between.
  For the same reason operations that lock a single row and commit are one step.
- `Rollback` is a guard of the service that throws; `Abort` is a lost connection,
  a crash of the server, or Prisma's limit on an interactive transaction, before
  any statement. Both leave the tables alone.

Rows not yet created, absent owners and absent arguments are model values
(`NoReward`, `NoEvent`, `None`).

## The modules

| modules | code | proved in | checked by |
|---|---|---|---|
| `AtomicShop`, `Shop` | `rewards/rewards.service.ts`, `rewards.repository.ts` | `ShopProofs` | `MCShop`, `MCProgress` |
| `AtomicLedger`, `Ledger` | `admin/admin-adjustments.*`, `admin/admin-reconciliation.*` | `LedgerProofs` | `MCLedger` |
| `ActionRedemption` | `actions/actions.*`, `claim-codes/claim-codes.*` | `ActionRedemptionProofs` | `MCActionRedemption` |
| `AdminOperators` | `admin/admin-operators.*` | `AdminOperatorsProofs` | `MCAdminOperators` |
| `Sessions`, `Presence`, `SecurityMetrics` | `auth`, `presence`, `admin/admin-participants.*`, `security/security-http-metrics.*` | `BackgroundProofs` | `MCBackground`, `MCProgress` |
| `Ranking` | `ranking` | `BackgroundProofs` | `MCBackground` |
| `Restore`, `Releases` | `deploy/aws/scripts`, `deploy/aws/production` | `DeploymentProofs` | `MCAdministration` |
| `AuditContract`, `AuditTrail` | `audit/audit.service.ts` and its callers | `AdministrationProofs` | `MCAdministration` |
| `OperationPanel`, `Screens` | `web/app`, `web/features`, `web/hooks` | `AdministrationProofs` | `MCAdministration` |
| `DownloadGate`, `Exports`, `Artifacts` | `common/download-gate.ts`, `exports`, `claim-codes/claim-code-artifacts.service.ts` | `WebProofs` | `MCWeb`, `MCArtifacts`, `MCProgress` |
| `WebSession`, `RedeemDialog` | `web/lib/http`, `web/hooks`, `web/app/home` | `WebProofs` | `MCWeb` |

`map` in `PROJECT.json` gives the source lines of every definition. Definitions
that follow a comment *With a bug* are plausible mistakes (a lock not taken, a
guard dropped): no next-state relation uses them, and each property is shown to
fail when one takes the place of the definition it stands next to.

The variables, the initial predicate and the actions of a module that a packed
run (below) or an MC module extends beside others carry its name: `SessionInit`,
`PresenceNext`, `restoreVars`.

### Shop and AtomicShop

| action | code |
|---|---|
| `BeginRedeem`, `FindReward`, `DebitUserPoints`, `DecrementRewardStock`, `CommitRedeem` | `redeem`: an unlocked read, a guarded UPDATE of the participant, a guarded UPDATE of the reward, then the inserts |
| `BeginCancel`, `LockRedemptionState`, `LockUser`, `LockReward`, `RefuseCancel`, `CommitCancel` | `cancelRedemption` and `lockCancellationState`; the status is tested once the three rows are locked, so a refused cancellation waits for them and holds them too |
| `BeginDeliver`, `LockRedemptionState`, `CommitDeliver` | `deliverRedemption`; the audit row waits for a participant locked FOR UPDATE |
| `CreateReward`, `UpdateReward` | the catalogue; an update writes the fields given over the locked row |
| `EarnPoints` | `grantAction`, seen from the shop |

`ledger` and `net` are sums over the `PointEvent` table: by participant, and by
redemption. `AtomicShop` has the tables and no transactions; its `Purchase` may
charge any price of the catalogue, since the program charges the price it read,
but tests balance, stock and status in the very state in which the purchase takes effect.
`Implementation` (proved) and `ImplementsAtomicShop` (checked) say that
interleaving, locks and rollbacks add nothing to that.

### Ledger and AtomicLedger

A request is an operation, its subject, an administrator (who stands for the
reason given too) and a key. `LockParticipant`, `FindForAdjustment` and
`CreateAdjustment` are `adjust`; `LockPointEvent`, `FindForReversal` and
`CreateReversal` are `reverse`; `LockReconciliation`, `SumLedger` and
`CreateCompensation` are `confirm`. `Replay` is the three replay functions;
`UniqueViolation` and `FindWinner` are the `catch` blocks: the transaction is
rolled back and the key looked up outside it. `answers` is what clients have been told.
A request may be sent again at any time and in any slot, so that attempts
overlap, and `Abort` drops the answer. `Earn`, `GrantQuestion` and `Spend` are
the rest of the API, which moves points under the same lock. `Openings` lets
balances start off their events, as a migrated database may: without it nothing
could be reconciled.

`AtomicLedger` has the balances, the sums of their events and the answers, and
no events, transactions, locks or lookups. Each of its steps changes what one
request asks for, on the balance and the sum of that moment, and adds the
answer: `Adjust`; `Reverse`, of an adjustment answered earlier that no reversal
has taken back; `Reconcile`, which answers with the difference there is and
closes it. A key is used once (`Unused`), and a repetition or a refusal
(`RepeatOrRefuse`) changes nothing. `ImplementsAtomicLedger` says that reading
first and writing later, losing answers and repeating requests add nothing to
that. It says more than a difference going to zero only by a reconciliation
(`ReconciliationIsExact`, which is proved) and leaves out what only events show
(`CorrectionsAreExact`).

### ActionRedemption

`FindAction`, `CreatePointEvent`, `IncrementUserProgress` are a direct redemption
or one by a reusable code; `FindClaimCode` and `ConsumeClaimCode` come first for
a single-use code. `LockAction`, `LockParticipant`, `CreateGrant` are a grant for
a question. `FindCodeById` and `UpdateClaimCodeStatus` change one code,
`LockClaimCodes` (one code a step, in the order of the identifiers) and
`UpdateClaimCodeStatuses` change many. A transaction at `incrementUserProgress`
has entered the unique index (`Redeemers`), and its row becomes visible when it
commits. XP grows by the same amounts as the points and is left out here; the
ledger has it.

The model shows one kind of deadlock the code cannot exclude: a grant holds the
activity and inserts the event, while a redemption of that activity has inserted
its event and waits for a lock. The two may be of one participant, or of several,
in a longer circle: of four, when two grants hold two activities and each waits
for a participant who has entered the activity of the other. PostgreSQL cancels one of
them (`Abort`), and the request fails with an internal error instead of the
conflict it would be. `OnlyGrantsDeadlock` says there is no other circle; no
document of the repository promises otherwise.

### AdminOperators

`BeginCreate` and `CreateOperator` are `create`; `BeginChange`,
`LockAvailableGenerals`, `LockGeneral`, `LockOperator`, `UpdateOperator` are
`update`, `updateStatus` and `resetAccess`; `BeginActivate` and
`ConsumeActivation` are `activate`; `SetAdminPassword` is the recovery command.
`LockAvailableGenerals` chooses its rows from one snapshot, and `LockGeneral`
then locks them one at a time: a row that changed while it waited is tested
again, and if it no longer matches it stays locked but is not returned. Rows
that began to match after the snapshot are not seen, which is the finding of
`last_general`. `verified` is a login between its comparison of passwords and
`StartSession`. A `Campaign` is the set of changes requests ask for, chosen at
the start, so that an instance can explore changes of profile and resets apart.

### Sessions, Presence, SecurityMetrics, Ranking

`Sessions` has the row of one participant, its sessions and requests under way,
one step for each `await` that others can come between: `VerifyLogin` and
`StartSession`; `BeginChange`, `FindPasswordReset`, `CompleteChange` (the forced
change, which hashes between its read and its transaction), `LockForReset`,
`ResetPassword`, `LockForStatus`, `UpdateStatus`, `EndSession`. A time taken with
`new Date()` is kept with the request and is old when it is used: `Recent`. A
hash is a number, never used twice.

`Presence` has the summaries and collections of several processes: `Collect`
takes the time, `GetCollectionCounts` counts in one query, `UpsertDailySummary`
is the upsert: the peak moves only upwards, the time of the last collection only
forwards, and the last counts are those that arrived last (`PeakMoved`,
`Updated`). `Fail` may come at any time, and `DeleteRetainedPresence` removes
days. `seen` remembers every observation
upserted, which the program does not.

`SecurityMetrics` has a buffer and a batch in flight for each process, and the
table. `Record`, `Drain`, `UpsertMinutes`, `FailToUpsert` (the batch is added
back), `LoseAnswer` (the commit took place; the batch is added back all the
same), `Crash` and `Retain`. `counted` and `repeated` are what really happened:
responses given and not lost with their process, and batches committed again.

`Ranking` is one request, statement by statement, outside any transaction, while
`Credit`, `ToggleAccount` and `NextDay` go on. Sorting is stated by counting: the
i-th row is the one that i - 1 rows come before (`Sorted`). A place is computed in three ways
(in the list, by `countUsersAhead`, by an index in the period's rows), and
`PlacesAreOfOneOrder` compares all with one order. `moved` says that something
committed between two of its statements, when the places may differ (see
`MeIsAsListed` below).

### Restore and Releases

One action for each SQL statement or command; any may fail without effect, up to
a bound, and the script may be killed, which runs no trap. `Restore` has the
databases by the role of their names, with what each holds, and three traps: the
shell inside the container that swaps (`Undo...`), the one that rolls back
(`RollbackCleanup`), and the script's own (`Cleanup`). `Releases` has the schema,
the containers, the environment file and the link; a release is the number of
the last migration it brings. `BeginDeploy` and `BeginRollback` start a script,
`Prepare` to `SwitchLink` are its commands in the order of `ReleaseAfter`,
`CleanupEnv` and `ReleaseRestart` its trap, `HostStops` a reboot after which
Docker starts what there was. `LostAnswers` and `CopyFails` add a failure each
that the scripts do not survive; they are constants so that the theorems can
name them.

### AuditContract and AuditTrail

Three tables far apart decide what a change records: what the service passes,
what the rules of the operation admit, what the event keeps. `AuditContract` has
all three: `operationRules`, `SnapshotFields`, `MetadataFields`, and `Calls`, the
calls the services make, a value abstracted to what the validation tells apart.
`AuditTrail` takes one row of each kind (each initial state explores one) while
administrators change it: `LockEdit` and `CommitEdit`, `LockTransition` and
`CommitTransition` (delivery, cancellation), `ReadCode` and `CommitCode` (no
lock before the write), `BulkStatus`; `BuyReward` and `RedeemCode` are the
participants, who change parts of the row that are not audited as such. The
event keeps the fields that `AuditContract` says it keeps.

### DownloadGate, Exports, Artifacts

`DownloadGate` is `TakeSlot`, `GiveBack` and `Busy`, used by both. An export is
`AskExport`, `Count`, `ReadBlock` and `End`, with `QueryFails`, while `Write` lets
rows enter and leave its filter. A row is its identifier; the file, the sequence
of rows. An artifact goes through `Enter`, `Rendered`, `Resized`, `Finalized`,
`PromiseSettles`; `LeaveArtifact`, `OutputFails`, `SourceFails` and
`RenderingFails` are the client and the two streams. What each stream has
emitted and who listens is kept, because a stream emits `close` once: that is the
finding of `left_before_writer`. `Leaves` says where a client may leave: anywhere
in the passing runs, at one point only in the violated one, which isolates it.

`archive.finalize()` is external. As archiver documents and implements it, its
promise is settled by two events of the archive's engine: its end, once the
archive has been read to its end, and its error. `Finalized` is what the code
gets while the archive lives or when it has failed. An archive that is destroyed
settles nothing, so an artifact whose response closes there stays where it is
(`WhileFinalizing`, below). When the response failed with an
error, or closed before the writer listened, the archive is not destroyed but
nobody reads it: its engine ends only if what is left fits the buffers on the way
(`FinalizedUnread`, which may happen and need not).

### WebSession and RedeemDialog

`WebSession` has the cookie (which belongs to the browser and changes when an
answer arrives), the token in memory, the token request that callers join, and
the requests under way: `ApiFetch` sends or waits for a token, `Handle` is the
server, `Arrive` brings the answer, `Lose` loses it, `Continue` is the script
that awaited it. `Visit` shows a page, whatever the one before may be waiting
for: links, redirections after a sign-in and those of a refused heartbeat leave
a page at any time, and the requests it made go on. A sign-in and a check of the
session then install the token they were given however old it has become;
`overtaken` remembers that the token kept came like that. `RedeemDialog` has a
scanner for every mount of the camera: `Imported`, `Granted` and `FirstFrame`
are the awaits of its start, `Frame` what it reads, and the user may type, stop,
close and reopen at each of them.

### OperationPanel and Screens

`OperationPanel` is one panel for each administrator on one participant: `Edit`,
`SubmitPanel`, `Settle`, `Remount`, and requests that are lost or reach the
server long afterwards (`ReceiveStray`). The server answers as `Ledger` shows it
does: at once, and a key already used with what was done under it. `KeyFor` and
`MustRenew` are the life cycle of a key.

`Screens` is one tab: the page shown, the answers kept under `["me"]` and
`["ranking", ...]`, sign-ins, redirections, changes of profile. The query library
is external and modelled by the options it is given: what is kept is refetched
when a page that uses it is opened later than `staleTime` (`Observed`, `Fetch`,
`Age`), is shown meanwhile, stays beside the error of a refetch that fails, and is
dropped when unused for a while (`Forget`). Signing in and out are one step here;
what goes on inside them is in `WebSession`.

## Runs

| run | module | distinct states | properties |
|---|---|---|---|
| `shop` | `MCShop` | 225,859 | `RedemptionsSettled`, `NoDeadlock`; `UnitsConserved`, `EditsAreNotLost`, `ImplementsAtomicShop` |
| `ledger` | `MCLedger` | 643,497 | `AnswersAgree`, `CorrectionsAreExact`; `RetriesSucceed`, `ImplementsAtomicLedger` |
| `redemption` | `MCActionRedemption` | 477,573 | `PaidOnce`; `GrantsAreCurrent` |
| `claim_codes` | `MCActionRedemption` | 640,820 | `OnlyGrantsDeadlock`; `UsedCodesAreFinal`, `BulkReportsAreTrue` |
| `operators` | `MCAdminOperators` | 666,376 | `LostOnlyUnlisted`, `CodesActivateOnce` |
| `background` | `MCBackground` | 650,838 | `InactiveHaveNoSession`, `PresenceIsAsCollected`, `CountsAddUp`, `PlacesAreOfOneOrder`; `OutcomesStand` |
| `administration` | `MCAdministration` | 546,304 | `OriginalSurvives`, `OutcomeIsAsReported`, `DeploymentIsAllOrNothing`, `EveryCallIsKept`, `AuditIsContinuous`, `OperationsAreAsWished`, `SignedOutAreForgotten`, `OffersAreAdmitted`; `StartsOnlyWhatIsWhole`, `MigrationsAreSafe` |
| `web` | `MCWeb` | 1,158,014 | `TokenFollowsTheCookie`, `DialogIsAsShown`, `SentFilesAreFaithful`, `FinishedMeansWhole`, `SlotsAreTheExports`, `SlotsAreTheArtifacts` |
| `progress` | `MCProgress` | 46,693 | `EveryTransactionEnds`, `PastMinutesReachTheTable`, `HeardDownloadsEnd` |
| `last_general` | `MCAdminOperators` | violated | `LastGeneralProtected` |
| `left_before_writer` | `MCArtifacts` | violated | `DownloadsEnd` |
| `ranking_is_mine` | `Screens` | violated | `RankingIsMine` |

What stands before a semicolon is an invariant, what follows it a property of
steps. The last three runs show the disagreements in `findings` of
`PROJECT.json`, each with the line of the code and the sentence it contradicts.

*Packed runs.* `MCBackground`, `MCAdministration`, `MCWeb` and `MCProgress` put
several modules in one run. Their modules share no variable: `part` is chosen in
the initial state, and only its actions are taken. The states explored are the
sum of those of the modules, not the product, and every property is checked in
every part. The same sets of model values serve several modules, so that fewer
permutations need to be tried for symmetry; no two of the modules that share a
set move in one behaviour. Each module also defines its type invariant
(`TypeOK`, `PresenceTypeOK` and so on); the theorems state them.

*Bounds.* Identifiers of rows (`Redemptions`, `Events`, `Codes`, `Ids`) bound the
number of creations; everything named `Max...` is a counter's bound, and the
rest is unbounded in the modules. Two transactions are enough for a race on a
row and for a circle of two; the shop has three, since its longest path takes
three locks (the redemption, the participant, the reward). Two participants let
one be a bystander whose rows a mistaken update would touch. Three events are an
adjustment, its reversal and one movement more, or both halves of a split
reconciliation and one more. Two codes are the least over which two bulk
operations can disagree on the order. Two operators and two codes are a change
that meets another and a code replaced while it is used; one participant with
two sessions and two requests, a session that a request under way knows nothing
of. Two collectors over the end of a day can be late over midnight; two processes
of metrics can add to one row; three accounts in the ranking have two that tie.
Four failing commands let a command, its trap, the trap around that and the
script's own fail together; three releases with three scripts are a deployment,
a rollback and another deployment of something else. Three exports compete for
two slots and two artifacts for one; four rows in blocks of two, of which three
may be sent, are an export of two blocks, one that grows past its limit in rows
and one past its limit in bytes, the last row being wide. Three scanners are a
start overtaken by another that is overtaken in turn. Each theorem below says
the same for every value.

`CHECK_DEADLOCK FALSE` stands where the system may stop: in `operators` and
`last_general` nobody may do anything once no general administrator is left
(the recovery command is for general administrators only), and in
`administration` a script ends and nobody must run another. Elsewhere `Abort`
and requests not yet made keep every state able to move; circles of waiting
transactions are the subject of `NoDeadlock` and `OnlyGrantsDeadlock`.

*Fairness* (`progress`). In the shop, strong fairness of each slot's statements: a
statement waits only for row locks, and PostgreSQL queues the waiters of a row
and serves them in order, so a transaction whose row is freed again and again
does get it. Nothing is asked of the start of requests, of administrators, or
of `Abort`. In the metrics, weak fairness of `Drain`, which the cron job repeats
every minute, and strong fairness of `UpsertMinutes`: a database that answers
again and again is written to in the end, although flushes fail without limit.
In the artifacts, weak fairness of `Step` and `Finish`: a promise that can
settle does, and a stream that has been ended and can drain finishes. Nothing
is asked of the client, who may leave or stay, nor of `FinalizedUnread`. The
violated `DownloadsEnd` is checked under the same fairness; `HeardDownloadsEnd` is
what is left of it: an artifact whose client is there when its writer listens
ends, wherever the client leaves but during `archive.finalize()`.

## Proofs

Every theorem holds for all values of the constants that their named
assumptions allow, and TLC evaluates the assumptions in the runs. They say what
the code guarantees: prices are positive and stocks not negative (the DTOs),
adjustments have one sign and are not zero, identifiers are ordered, sizes and
durations are natural numbers, the null values are none of the rows. Sets are
assumed finite only where something is counted.

An invariant of these systems is seldom inductive: what a statement counts on
was established some statements earlier. Each module of proofs begins with an
inductive invariant that says what every step may count on, shows in one lemma
for each action that the action keeps it, and obtains the theorems from it.

### ShopProofs

`TypeCorrect`, `NothingOverdrawn` (`NeverNegative`), `RefundsExact`
(`RedemptionsSettled`), `LedgerExact` (`BalanceIsLedger`), `FinalRedemptions`,
`UnitsKept` (`UnitsConserved`), `EditsKept` (`EditsAreNotLost`), `DeadlockFree`
(`NoDeadlock`), `Implementation` (`ImplementsAtomicShop`).

A debit is checked in one statement and applied, from `tx[t]`, in another.
`IInv` adds `Control`, which says, for each statement a transaction may be at,
which locks it holds, which rows exist, and that the versions in `tx[t]` are
those of the locked rows less what was paid or taken. A row locked by `t` is
changed by nobody else, so the facts survive the steps of the others:
`OthersReserved` and `EndFrame` are that argument, used in the step of every
action. For `Implementation` each commit is shown to be one step of `AtomicShop`
(with `Control` giving the facts its guards need) and every other statement a
stutter. `DeadlockFree` needs the converse of `Control` as well,
`HoldersAdvanced`: whoever holds a row is past the statement that locks it.
Statements then fall into four ranks, a statement that waits waits for a
transaction of a higher rank, and a set of transactions each of which waits for
another of the set is empty.

### LedgerProofs

`TypeCorrect`, `CorrectionsStayExact` (`CorrectionsAreExact`), `AnswersStayTheSame`
(`AnswersAgree`), `RetriesNeverRefused` (`RetriesSucceed`), `ReconciliationsSettle`
(`ReconciliationIsExact`), `Implementation` (`ImplementsAtomicLedger`).

`IInv` is `TablesInv`, about the committed rows, and `TxInv(t)` for each
transaction. A request that has locked a participant or an event still finds it
as it was read. Events are never changed, so an answer given (`AnswerEffect`) is
for ever the effect of its request, told by an event that carries its key; the
unique index makes that event one (`OneEventPerKey`), and two answers to one key
are the same. Refusals are harder: a reversal is refused because its original is
reversed, which the first attempt itself brought about. `RefusedIsUnanswered`
shows, statement by statement, that whoever refuses looked the key up after the
state it refuses by. A reconciliation sums the events under the lock that every
movement of points takes, so that the difference it read is the one it settles;
`Split` and `Undone` are the arithmetic of differences of two signs.

For `Implementation` the invariant is `EffectsInv`: every event with a key has
been answered, an adjustment by hand has a key, and a reconciliation goes on to
write only with a difference. The step that inserts the events is the step of
`AtomicLedger` (`AdjustmentImplements`, `ReversalImplements`,
`CompensationImplements`): the balance read under the lock is still the
committed one, the original of a reversal has an answer to point at, and the key
and the event are unused. Every other step of a request is a stutter; the one
that needs an argument is a replay (`ReplayRepeats`): what it tells, after
comparing the event with the request field by field, is an answer already given,
so the set of answers does not grow.

### ActionRedemptionProofs

`TypeCorrect`, `NobodyIsPaidTwice` (`PaidOnce`), `UsedCodesStayUsed`
(`UsedCodesAreFinal`), `GrantsStayCurrent` (`GrantsAreCurrent`), `BulkReportsStayTrue`
(`BulkReportsAreTrue`), `DeadlocksAreOfGrants` (`OnlyGrantsDeadlock`).

Between two statements a redemption counts on its entry in the unique index,
alone for its participant and activity; on the code it has locked and still
found unused; a grant, on the activity and the participant it holds. A bulk
change counts on the codes it has locked being as it read them, and on those
that remain to be locked coming later in the order. For deadlocks, each waiting
transaction is shown to wait for one that holds more (`EnteredWaits`,
`HolderWaits`, `BulkWaits`): bulk changes wait only for later codes, so the last
code of a circle closes none, and what is left are grants and redemptions of one
activity. The proof found the circle of four described above.

### AdminOperatorsProofs

`TypeCorrect`, `ListsHold` (`ListedStayAvailable`), `OneCode` (`OnePendingCode`),
`LastGeneralLost` (`LostOnlyUnlisted`), `OneActivation` (`CodesActivateOnce`).

The generals that a transaction has listed are locked by it, available, and as it
read them, since nobody else may change a locked row. Whoever removes one keeps
another of its list, or had none in it: the last general is lost only to a list
that came back empty. Nothing stronger holds (`last_general`). An operator has
one pending code because a new one is given only by who has locked the operator
and revokes the others in the same commit; a code given to a transaction is
known to nobody else.

### BackgroundProofs

*Sessions*: `SessionTypeCorrect`, `InactiveStayOut` (`InactiveHaveNoSession`),
`OutcomesAlwaysStand` (`OutcomesStand`). `RequestHolds` says what each request
counts on of the row it has read or locked; sessions only age and end, and the
condition that admits one is monotone in time but for the temporary password,
whose expiry `startSession` tests again in its UPDATE.

*Presence*: `PresenceTypeCorrect`, `PresenceStaysAsCollected`
(`PresenceIsAsCollected`). For every day, the row tells of observations upserted
of that day, the peak being one of them and the time of the last collection the
latest that has arrived. The panel's state follows from the latest row alone
(`LastDay`). The peak of all days is a fold; its value is obtained without
induction over sets of days, from a smallest set on which the claim would fail
(`MinimalSubset`).

*Metrics*: `MetricsTypeCorrect`, `CountsAlwaysAddUp` (`CountsAddUp`). Each process
is `Balanced`: what it holds, in its buffer and in flight, was counted and is not
in the table; an idle one has nothing in flight; what was committed twice is in
the table. The sum over processes is the cardinality of a set of units
(`UnitsFinite`, `UnitsChange`), again to avoid induction over a set.

*Ranking*: `RankingTypeCorrect`, `PlacesStayOfOneOrder` (`PlacesAreOfOneOrder`).
`Comes` is a strict total order of the rows of different users (`ComesOrders`),
so no two rows have as many before them (`PlacesDiffer`), and there are as many
rows as places: an injection between finite sets of one size takes every place
(`EveryPlaceHasARow`). `SortedTable` follows: `Sorted` is a sequence of all rows, each once,
at the place that counting gives it. `RankingInv` adds `ReadsAreOfNow`: until a
row changes, what the request has read is what the tables hold. The three ways
to a place are then compared (`GeneralAnswerIsOfOneOrder`,
`PeriodAnswerIsOfOneOrder`). In the ranking of the day one's own place is looked
for among all, those without points included, who come before nobody that has
some (`PlaceAmongThoseWhoScored`).

### DeploymentProofs

*Restore*: `RestoreTypeCorrect`, `OriginalAlwaysSurvives` (`OriginalSurvives`),
`OutcomeStaysAsReported` (`OutcomeIsAsReported`), `WholeIsStarted`
(`StartsOnlyWhatIsWhole`). The script and its traps go through phases; for each
command the invariant says which databases exist under which names, what they
hold, whether connections are allowed, how many commands have failed so far, and
which services run. The last two theorems assume `~LostAnswers`: when the answer
of the swap is lost they fail (below). `OriginalAlwaysSurvives` needs no such
hypothesis.

*Releases*: `ReleaseTypeCorrect`, `MigrationsStaySafe` (`MigrationsAreSafe`),
`DeploymentStaysAllOrNothing` (`DeploymentIsAllOrNothing`). Nothing that may be
started, now or by a trap, is ahead of the schema; the link is unchanged until
the last command; the environment file, or a complete copy of it, is there from
the moment it is moved until the script ends. The last theorem assumes
`~CopyFails`.

### WebProofs

*Dialog*: `DialogTypeCorrect`, `DialogStaysAsShown` (`DialogIsAsShown`). A camera
is lit only for a scanner that plays or is mounted, at most one is mounted, and
only in an open dialog.

*Artifacts*: `ArtifactTypeCorrect`, `ArtifactSlotsAreHeld`
(`SlotsAreTheArtifacts`), `ArtifactsFinishWhole` (`FinishedMeansWhole`). A record
is `Truthful` (what the output has emitted is what was done to it) and `Sound`
(what looks finished has every card).

*Exports*: `ExportTypeCorrect`, `ExportSlotsAreHeld` (`SlotsAreTheExports`),
`SentFilesStayFaithful` (`SentFilesAreFaithful`). What has been read so far is
increasing, holds every row up to the last identifier that was selected
throughout, and only rows that were selected when their block was read.
`BlockIsNext` shows, by counting the rows below each, that a block of the first
`BatchSize` rows after an identifier skips none.

The two kinds of slots are counted by lemmas on taking and giving back one
(`SlotTaken`, `SlotGivenBack`): the counter is the cardinality of the holders.

*Tab*: `TabTypeCorrect`, `TokenStaysWithTheCookie` (`TokenFollowsTheCookie`).
Either an answer has arrived that will set or clear the token and outdate the
token requests (`Renewing`: a sign-in, a sign-out, a change of password), or the
token kept is the cookie's or was overtaken, and so will be the answer of every
token request that is still current (`TokensFollow`). The cookie changes only
when such an answer arrives, and its continuation finds nothing it does not put
right. No page is assumed to wait for its requests.

### AdministrationProofs

*Screens*: `ScreensTypeCorrect`, `SignedOutStayForgotten`
(`SignedOutAreForgotten`), `OffersStayAdmitted` (`OffersAreAdmitted`). The kind of
user that an answer told is the kind of now while its session is live, because
whoever changes a profile ends its sessions in the same transaction; then the
tables of the two programs are compared, page by page, in
`PagesAskWhatIsAdmitted`.

*Panel*: `PanelTypeCorrect`, `OperationsStayAsWished` (`OperationsAreAsWished`). A
key must be renewed exactly when its wish has been settled or is another: so one
key stands for one wish and one wish has one key, over all requests wherever
they are, lost ones included. A divergence changes only to zero, by a
reconciliation, which makes what is posted what was reviewed.

*Trail*: `TrailStaysContinuous` (`AuditIsContinuous`). Whoever holds a row's lock
has read it as it is; a code read without a lock is written only while its status
is the one that was seen. `EventShows` proves over the calls and
snapshots of `AuditContract` that the event of each operation shows every audited
field it changes, so that an event appended finds each field as the last event
left it.

*Contract*: `CallsStayKept` (`EveryCallIsKept`). Every call a service makes is
admitted by the rules of its operation and recorded whole. Calls are products of
snapshots and metadata, so the lemmas are about those: which snapshots pass each
rule, by the fields the rule and the event know, and then, for each call, that
its operation has that rule (`OperatorCallsAreKept` to `BalanceCallsAreKept`).
The one assumption is that `Absent`, what stands for a rule or a snapshot that is
not given, is none of those that are.

### What is only model-checked

- `EveryTransactionEnds`, `PastMinutesReachTheTable`, `HeardDownloadsEnd`: liveness under
  fairness, which the prover does not reach.
- The specifications of the packed runs: the theorems are about each module's own.

## What the code does not keep

Properties one would expect and the code does not keep. The first three
contradict a sentence of the repository and have runs of their own, recorded in
`findings`. The others have none: another run shows the same consequence (a lost
slot), or no sentence promises them, or what promises them is general, or the
consequence is small. To see one, put the named property into a configuration of
its module (with the constants given here).

| property | module | what happens |
|---|---|---|
| `LastGeneralProtected` (run `last_general`) | `AdminOperators` | a general activated while a change waits for the locks of the others is not in its list; when those others are demoted meanwhile the list comes back empty and the last general is removed |
| `DownloadsEnd` with `Leaves <- BeforeTheWriter` (run `left_before_writer`) | `Artifacts` | a client that leaves while the cards are read is never noticed, and its slot is lost |
| `RankingIsMine` (run `ranking_is_mine`) | `Screens` | the ranking is cached without its user and survives a sign-out |
| `DownloadsEnd` with `Leaves <- DuringThePng` | `Artifacts` | the same for a PNG whose client leaves before `endWithBuffer` |
| `DownloadsEnd` with `Leaves <- WhileFinalizing` | `Artifacts` | a client that leaves while the archive is being finalized has it destroyed; `archive.finalize()` settles no more, and the slot is lost (two downloads show it, as in `left_before_writer`) |
| `PendingHaveNoSession` | `AdminOperators` | a login that verified the old password before a reset opens a session after it |
| `OpenedWithCurrentPassword` | `Sessions` | the same for a participant: `startSession` tests activity and the temporary password, not the hash that was verified |
| `LastCountsAreThoseOfTheirTime` | `Presence` | a collection that arrives late may leave its counts beside another time |
| `DegradedMeansNoRecentFlush` | `SecurityMetrics` | two quiet minutes are shown as DEGRADED: staleness is read from the latest row, and an empty buffer leaves none |
| `MeIsAsListed` | `Ranking` | the statements of a request see different instants, and one's own place may contradict the list beside it |
| `OutcomeIsAsReported`, `StartsOnlyWhatIsWhole` with `LostAnswers = TRUE` | `Restore` | when the connection to the container is lost after the swap, the script does not know that it took place |
| `RollbackIsAllOrNothing` | `Releases` | the trap starts the current release again only when `up -d` of the old one had succeeded; one that fails half-way leaves containers of both |
| `RollbackWorksInMaintenance` | `Releases` | a rollback asks `/api/health` through the edge, which answers 503 in maintenance, where the runbook has it run |
| `CurrentHasAnswered` | `Releases` | outside maintenance port 80 answers `/api/health` with a redirection, which `curl --fail` takes for success, so the link moves whatever the API does |
| `DeploymentIsAllOrNothing` with `CopyFails = TRUE` | `Releases` | a copy of the environment file cut short by a full disk is what the trap restores |
| `LoginTokenIsKept`, with two sessions and two requests | `WebSession` | `fetchSessionSecurity` installs the token it was given whatever happened since: a check that was left, by the user or by the redirection of a sign-in, a late heartbeat or a sign-out, brings back the token of the session before. `client.spec.ts:82` promises it of `ensureCsrfToken`, which keeps it |
| `TokenFollowsTheCookie` without `~overtaken` | `WebSession` | the same, and two sign-ins under way at once, of which the one that brought the older cookie goes on last |
| `RedirectsOnlyTheSignedOut` | `WebSession` | a heartbeat sent before a new sign-in, refused after it, takes the user back to the sign-in |
| `StoppedScannersDetectNothing` | `RedeemDialog` | a detection under way when the camera is stopped is still handed over |
| `PreparedAdjustmentReconciles` | `OperationPanel` | an adjustment moves the balance and its events together, so the one the panel prepares for a divergence cannot remove it |
| `UserIsTheSignedIn` with `MaxSignIns = 3` | `Screens` | a session ended from outside leaves `["me"]` in the cache beside its error; the next sign-in is bounced back by that error while its own fetch is under way, and another user may sign in over it |
| `SignInStands` | `Screens` | the same error sends back somebody who has just signed in |
| `EveryOfferIsAdmitted` | `Screens` | `redemption-history.tsx:263` offers an export to SHOP and `code-redemption-history.tsx:118` to ACTIVITIES, which `admin-exports.controller.ts:28` admits for GENERAL only |

Seen while reading and not stated as properties: an export whose client leaves
goes on reading to the end, although the design of Marco 12 (line 395) has it
cancelled; an edit that changes only the image of a reward, or only the document
or the e-mail of an operator, records an event whose before and after are equal,
since the snapshots have no such field; the lists of the administrators are
refreshed only by who changed them.

## What is not modelled

- Hashing, JWT, cookies beyond their session, formatting, paging and layout; the
  listings, which change nothing.
- The text of codes and reasons: identifiers and administrators stand for them.
  Two identifiers drawn at random are taken to differ, and the rounds in which a
  batch of codes is filled are one step.
- 32-bit columns: `points`, `xp` and `stock` are `INTEGER`, and PostgreSQL refuses
  an overflow, which is a rollback like any other.
- Names and addresses shown with an audit event, and its listing.
- Rate limiting: the counting is the library's, and the choice of policy and key
  keeps no state. Dashboard, health, configuration: counters read at once and
  wiring. DTOs: stateless conversions, whose limits are assumptions on constants.
- The description of the infrastructure, the backup script and the load
  generator.
- The rest of the web client: forms and what only renders. Its pages share the
  cache modelled in `Screens`, whose two keys are those that name a user.

## Plan

Done: every component above that keeps state across steps is modelled, and every
property that the passing runs check, liveness apart, is a theorem. Next:

1. An abstract counter of responses that `SecurityMetrics` implements while no
   answer of a commit is lost.
2. An abstract redemption of activities (one step for each, with the code it
   uses) that `ActionRedemption` implements, as `AtomicShop` is for the shop.
