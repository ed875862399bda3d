# A TLA+ model of JAP Classic

JAP Classic (Job Application Pipeline) is a Windows desktop product over a local
Python service and a PostgreSQL database: it collects vacancies, follows them,
ranks them and tracks applications, and it updates itself. This directory holds
its specification: modules checked with TLC and proved about with TLAPS. Paths
below are relative to `src/`; `D/` stands for
`windows/JAP.ControlCenter.Desktop/`.

| File | Role |
|---|---|
| `ProductUpdate.tla` | the self-update of the installed product: four kinds of processes over shared files |
| `AtomicUpdate.tla` | what an update promises its operator, without files and processes |
| `ProductUpdateRefinement.tla` | the mapping under which `ProductUpdate` implements it |
| `MCProductUpdate.tla` | symmetry set for the runs; `Update*.cfg` are its instances |
| `ProductUpdateProofs.tla` | inductive invariant and theorems about `ProductUpdate` |
| `HandoffProofs.tla` | `TornOnlyUnderHandoff`, `FrozenTarget` and `NoOfferWhileCooling` as theorems, on top of `ProductUpdateProofs` |
| `RecoverabilityProofs.tla` | `GenerationRecoverable` as a theorem, on top of `ProductUpdateProofs` |
| `RefinementProofs.tla` | `ProductUpdate` implements `AtomicUpdate`, as a theorem, on top of `ProductUpdateProofs` and `RecoverabilityProofs` |
| `SchemaMigrations.tla` | the migration scripts over the tracking table, run by several operators |
| `MCSchemaMigrations.tla` | its constants for the runs; `Migrations*.cfg` are its instances |
| `SchemaMigrationsProofs.tla` | inductive invariant and theorems about `SchemaMigrations` |
| `RuntimeHost.tla` | the window, the launchers of its runtime, their servers and the stop scripts; `Runtime.cfg` |
| `RuntimeHostProofs.tla` | inductive invariant and theorems about `RuntimeHost` |
| `JobEvidence.tla` | the tables and the employer's site that lifecycle evidence is about |
| `IngestionRun.tla` | the commands that write that evidence: ingestion, reconciliation, probes |
| `MCIngestionRun.tla` | its jobs and sites for the run; `Ingestion.cfg` |
| `IngestionRunProofs.tla` | inductive invariant and theorems about `IngestionRun` |
| `ApplicationTracking.tla` | operators' requests against serializable mailbox syncs |
| `MCApplicationTracking.tla` | its mail and forms for the runs; `Tracking.cfg`, `TrackingReplay.cfg` |
| `ApplicationTrackingProofs.tla` | inductive invariant and theorems about `ApplicationTracking` |
| `PROJECT.json` | components, runs, mutants, the map from definitions to lines, findings, hazards, theorems |

## 1. Inventory

| Component | State | Operations | Interaction |
|---|---|---|---|
| Update coordinator (`D/UpdateCoordinator.cs`, `D/ProductUpdateOperation.cs`) | `state/{pending,accepted}-update.json`, `update-snooze.json`, `update-result.json`, `update-handoff.json`; `_applyingUpdate`, `_promptOpen` | poll, prompt, decline, consent, begin handoff, start helper, show previous failure | spawns agent and helper; files only |
| Staging agent (`D/ProductUpdateAgent.cs`) | `updates/<sha>/` trees, `pending-update.json` | pick newest release, download, unpack, build helper, publish | operation mutex, GitHub |
| Cutover helper (`D/ProductUpdateApplier.cs`) | live trees, rollback trees, `current.json` | check token, lock, verify stage, move four trees, write metadata, restart, prove, report; catch block with rollback | operation mutex; starts and kills hosts |
| Desktop host (`D/Program.cs`, `D/DesktopLifecycleGuard.cs`, `D/UpdateAwareApplicationContext.cs`) | single-instance mutex, window, health counters | start gate, session hand-over, start runtime, recover it, close | owns coordinator and runtime |
| Managed runtime (`D/ManagedRuntimeController.cs`, `scripts/run_jap_windows_control_center.sh`) | WSL process, pid file, `app-info.json` of the bundle, product port | ensure started, stop, health probe, recovery | host on Windows, launcher, server and stop script in WSL |
| Schema migrations (`scripts/apply_db_migrations.py`, `scripts/prepare_product_v1_runtime_migration.py`, `db/migrations/`) | `schema_migrations` rows | status, bootstrap, apply pending, apply exact, apply 077 and 078 together | PostgreSQL, one transaction per file, or one for both |
| Ingestion (`src/ingestion/runner.py`, `repository.py`) | `ingestion_runs`, `raw_jobs`, `job_observations` | start, fetch, save, observe, finish, fail | one transaction per call |
| Job lifecycle health (`src/job_lifecycle_health.py`, `src/ingestion/*lifecycle*.py`, `scripts/reconcile_reviewed_personio_detail_health.py`) | `job_health_observations` | exact-detail probe, complete-inventory absence batch, recurring and reviewed passes, revalidation | part of an ingestion, or a script of its own |
| Daily pipeline (`scripts/run_daily_pipeline.sh`) | lock directory | ingest, reconcile, Silver, reports | one pipeline at a time |
| Connector Factory (`src/connectors/connector_factory.py`, `aggressive_factory.py`, `factory_aggressive_policy.py`) | none (pure) | compile recipe, qualify, materialize, group gaps | catalogue and census in, records out |
| Candidate gate and activation (`src/search_intelligence/{approval_gated_connector_build,controlled_activation,connector_autonomy}.py`, gate scripts) | gate rows, reviews, approvals | advance, stop, review, activate | database, operator tokens |
| Application tracking (`scripts/product_v1_f5_*.py`, `product_v1_runtime_mailbox_sync.py`) | applications, submissions, event candidates | record, correct, remove, ingest mailbox | HTTP service and scheduler thread on one database |
| StepStone cycles, control-center action runs | attempts, cooldowns, run rows | admit, record, reap | scheduler, HTTP |
| Connectors, Silver, ranking, nightly planner, React UI, packaging | none of interest between calls | parse, transform, score, render, build | - |

What is hard, and what makes each part correct:

* **Self-update.** Hosts, agents and helpers run at the same time, outlive each
  other and die anywhere; they share six files, the live, staged and rollback
  trees and two mutexes. Correct means: one operation at a time; a reported success or a
  completed rollback is one whole generation (`docs/guides/jap_control_center_windows_app.md:141`
  "failure restores desktop, runtime and `current.json` together"); what the
  operator agreed to is what is installed (same guide, line 129); a failed
  release is not pressed on the operator again; nobody keeps the mutex; JAP
  comes back.
* **Runtime host.** Timer callbacks, awaits and closing interleave on one thread,
  and the processes it starts outlive it; correct means that a server stays findable,
  goes with the window and answers for what it runs, and that a lost one comes back.
* **Migrations.** Two runs from one stale snapshot; correct means each file
  takes effect once, and the table tells which did.
* **Ingestion and lifecycle.** A crash between two commits, two writers of one
  source, transactions that began earlier and commit later; correct means no job is
  closed on the evidence of a partial answer, and a vacancy that is gone is noticed.
* **Candidate gate.** Long sequences of legal calls; correct means no activation
  without the approval and evidence the policy asks for.
* **Application tracking.** Operators' requests race mailbox syncs that plan first and
  write later; correct means one application per identity, no lost evidence, and
  answers that are true of what the database holds.
* **Connector Factory.** Pure: every compiled recipe should qualify, and the
  binding chosen should not depend on the order of the catalogue.

`PROJECT.json` "hazards" lists the places, line by line.

## 2. Plan

1. `ProductUpdate` with runs, mutants and proofs. *(done)*
2. `AtomicUpdate`: an update as the operator sees it, implemented by
   `ProductUpdate` under a refinement mapping. `GenerationRecoverable` and
   the refinement as theorems. *(done)*
3. `RuntimeHost`: `Program.OnRuntimeHealthTick`, `OnFormClosing`,
   `ManagedRuntimeController`, the launcher and the stop script. *(done, with proofs)*
4. `SchemaMigrations`: two processes over `schema_migrations`. *(done, with proofs; the
   predecessor recovery script may become one more command, and files 018 and 020,
   which commit by themselves, one more kind of file.)*
5. `JobEvidence` and `IngestionRun`: what kills, partial answers and overlapping
   commands leave, and what the readers conclude from it. *(done, with proofs)*
6. `ApplicationTracking`: operators against mailbox syncs. *(done, with proofs)*
7. `ConnectorFactory`: compile and qualify as operators against a declarative
   definition, over bounded catalogues and URLs.
8. `CandidateGate`; StepStone cycles and action runs.

Each module takes its sets of processes and its bounds as CONSTANTS with named
assumptions, has one action per operation and no RECURSIVE operator, so that it
can be proved about as well as checked. Theorems worth proving next: "no activation
without approval", the selection lemma of the factory (the binding is minimal in
priority order).

## 3. `ProductUpdate`: model and code

A **product generation** is a number. It stands for a release's version and source
SHA, which the agent binds one to one; 0 is what was installed first. A tree holds
a generation, nothing (`None`), or a delete that stopped half-way (`Damaged`).

| Variable | In the program |
|---|---|
| `current` | `current.json` |
| `live`, `backup` | `desktop-host/`, `runtime/`; `rollback/product-*/` of each helper |
| `stage` | `updates/<sha>/{desktop-staged,runtime-staged,apply-helper}`: absent, partial, whole |
| `pending`, `accepted`, `snooze`, `result`, `handoff` | the files of those names under `state/`; an expired snooze is no snooze |
| `published`, `served` | the newest release on GitHub; the source revision the product port answers with |
| `opMutex` | `ProductUpdateOperation.CreateOperationMutex` |
| `agentPc`, `hostPc`, `applPc` | where each process is in its code |
| `hostToken`, `hostOffer` | restart token in the environment; release in the open dialog |
| `job` | locals of `RunFromCommandLine` and the processes the helper can name |
| `cooling` | history: targets whose failure cooldown has not elapsed |

| Process | Actions, in the order of the code |
|---|---|
| staging agent | `AgentSpawned`, `AgentFindsNothing` or `AgentAcquires`, `AgentExtractsDesktop`, `AgentExtractsRuntime`, `AgentRebuildsHelper` or `AgentHitsLockedHelper`, `AgentPublishesPending`, `AgentReturns`; `AgentAborts` anywhere |
| starting host (`Program.Main`) | `UserLaunches`, `PassesGate` or `RefusedAtGate`, `TakesSession`, `YieldsToSession`, `WaitsForSession`, `WaitTimesOut` |
| admitted host | `ShowsPreviousResult`, `ServesRuntime`, `StartupFails`, `ReconcilesPending`, `OpensPrompt`, `Declines`, `Consents`, `ConsentFails`, `BeginsHandoff`, `StartsHelper`, `HelperStartFails`, `Closes`, `Exits`, `HostCrashes` |
| helper | `ChecksToken`, `TakesLock` or `LockTimesOut`, `ReadsAccepted`, `TakesSnapshot`, `MovesOut`/`MovesIn` for each tree, `WritesCurrent`, `RestartsTarget`, `ProvesRestart` or `RestartUnproved`, `ReportsSuccess`, `CleansUp`, `ClearsHandoff`, `Housekeeps` |
| helper, catch block | `FileOperationFails` and the failing alternatives above lead to `StopsPeers`, `Restores`/`RestoreFails`/`NothingToRestore` for each tree, `RestoresMetadata` or `LeavesMetadata`, `ReportsFailure`, then `DiscardsConsent`, `ClearsHandoff`, `RestartsPrevious`, or `RetainsHandoff`; `RollbackThrows`, `ApplierCrashes` |

`Faults` selects what the environment may do: `"io"` fails a directory move or
restore, `"state"` a state file or a process start, `"helper"` the start of the
helper, `"crash"` kills hosts and helpers anywhere. The agent may always abort.

### What it implements

`AtomicUpdate` knows one installed generation (or `Broken`), the helpers that were
asked, the one that is busy, whether its work is decided, and the report. Its steps
are ask, begin, then `Commit` (the new generation shows in the very step that
reports it) or `Undo`, then `End`; a helper that has not decided yet may `Fall` and
leave anything behind, one that has decided may not, even if it is killed. A fall
needs a fault (`MayFail`), another helper that is running, or an installation that
was broken before.

`ProductUpdateRefinement` maps the files to it. While a helper works, `Installed` is
what it *found*: each tree is looked up in the rollback root if it was moved out, in
the live directory otherwise, and `current.json` in the snapshot. Once the helper
reported success or verified the rollback, and whenever no helper works, it is what
the live trees and `current.json` say. A helper is busy while it holds the
operation mutex, so a lock that ends early shows as a fall.

### Abstractions

* Downloads, checksums and archives are the difference between a partial and a
  whole tree; the digest of a tree matches exactly when it is whole. A `Damaged`
  live tree verifies against nothing.
* The receipt of the last stage result, the event logs and the log files are left
  out. A log line that throws can turn a reported success into a rollback
  (`D/ProductUpdateApplier.cs:208`) or hide a move from the rollback (524); both
  are hazards no property covers.
* Merged steps: `WriteResult` and `WriteFailureSnooze` (`ReportsFailure`; a failure
  of either is `RollbackThrows`, with and without the result written); the
  start-up checks after the single-instance mutex was found taken; an agent that
  takes the mutex and finds no newer release (`AgentFindsNothing`).
* The dialog that shows a previous failure is modal, and the result file goes after
  it was closed; the model deletes it in one step. A prompt that opens while the
  window is already closing is not modelled.
* `TryDelete` of accepted, pending and snooze succeeds; a handoff that cannot be
  deleted is modelled (`ClearsHandoff`), for that is the file the gate reads.
* The agent's child processes die with it (`AgentAborts`). It releases its mutex on
  another thread than the one that took it when an await moved it; the mutex is
  then abandoned at its exit, which frees it all the same.
* The runtime is one step here (`ServesRuntime`); how it is started, recovered and
  stopped is `RuntimeHost`, where the cutover is one step in turn.

### Bounds

`MaxRelease` bounds the releases, `Appliers` the consents (one helper and one
token each, never reused), `Hosts` the desktop processes alive at a time.
`SlotReserved` keeps a host slot free while a helper lives, so that the helper's
own restart is never blocked by the bound. Two hosts are enough for a host and the
one that replaces it, slips past the gate beside it or waits for it; two
helpers for one that waits for the mutex of the other; two releases for a stage
that moves on under an open dialog.

## 4. `SchemaMigrations`: model and code

A file is its place in the order of `discover_migration_files`. `effect` counts how
often its SQL is in the database (0, 1, 2 for more), whatever the tracking table
says; `row` is the table's `execution_status`. A run keeps the command (`mode`), the
files it still has to execute (`todo`), those its open transaction executed (`done`),
and the file whose exception it handles (`failing`). It reads the rows in `Start` and
nothing locks them afterwards.

| Command | Actions |
|---|---|
| `--apply` | `Start`, then for each file `Executes`, `Commits`; a failure goes to `RecordsFailure` and ends the run |
| `--apply-exact` (`"sole"`: with `--require-sole-pending`) | `Start`, `RechecksExact`, `Executes`, `Commits`; a failure ends it |
| `prepare_product_v1_runtime_migration --apply` (`"bundle"`) | `Start`, `Executes` for each target, one `Commits` |
| `--bootstrap-existing` | `Start`, `ReadsForBootstrap`, `Bootstraps` |
| any | `ExecuteFails`, `CommitUnanswered`, `Crashes` |

Two variables are history: `overlapped` is set when a run starts while another is
active, `doubted` when the answer to a COMMIT is lost. They say under which condition
`OnceWhenAlone` promises anything; no action reads them.

Abstractions: a file's SQL takes effect as a whole and is one statement; it fails
where it took effect before, unless it is `Rerunnable`, and 078 needs 077 and the
bundle's reset of the managed views (`CanTakeEffect`; the column types of those views
change, `tests/test_historical_migration_immutability.py:20`). An open
transaction that executed a file makes others wait (`Locked`): its DDL, or at the
latest its tracking row, is locked. Files do not change, so checksums always match;
the tracking table exists. Commands that find nothing to do, `--status` and the
preflight change nothing and are left out. Files 018 and 020 contain a COMMIT of their
own; they, and file 105, without which a CHECK on `execution_mode` refuses
`script_apply_exact`, are taken for bootstrapped.

`Migrations.cfg` has two runs and three files, of which the last two are the bundle
and the first and last can be run twice. Two runs suffice for any overlap of a stale
plan with a commit, and each run may start again; three files leave one
before the bundle, whose row the bundle demands.

## 5. `RuntimeHost`: model and code

One window at a time (the session mutex of `ProductUpdate`), the launchers its host
detached in WSL, the server each of them starts, and the stop scripts.

| Variable | In the program |
|---|---|
| `pinned`, `info` | the generation of `current.json` and the bundle; what `app-info.json` in the bundle names |
| `pidFile` | `runtime.pid`, by the launcher whose server it names |
| `script`, `gen`, `server` | where a launcher is, the generation it was launched for, its server |
| `window`, `task`, `closing` | the window; what `OnShown` or `OnRuntimeHealthTick` awaits; `_stopInProgress` |
| `stop` | where the stop script of the closing window, of a start that found a stale server, and of an operator is |
| `alone` | history: no other launcher and no stop script was at work while this launcher had not written the pid file |

| Part | Actions |
|---|---|
| launcher (`run_jap_windows_control_center.sh` start) | `Checks`, `Clears`, `PreparationFails` or `Starts`, `Traps` |
| server (`run_product_v1_demo_control_center.py`) | `AssertsSource`, `Publishes` or `PublishFails`, `Binds`; `ServerDies`, `ServerHangs` |
| stop script | `StopLooks`, `StopRemoves`, `StopBreaks`; `OperatorStops` starts one by hand |
| `EnsureStartedAsync` | `Ensures`, `StaleStopped` or `StaleStopFails`, `Launch`, `BecomesReady`, `TimesOut`, `StartFails` |
| window (`Program.cs`) | `Opens`, `FindsUnhealthy`, `Recovers`, `Closes`, `FailsClosed`, `Closed`, `HostDies`, `StopUnheard`; `CutsOver` is the update |

A stop script kills the server the pid file names and waits for it. A server that outlives
ten seconds ends it in `managed_runtime_did_not_stop`, with the pid file in place
(`run_jap_windows_control_center.sh:71-80`); it may also break off anywhere. `OnFormClosing`
closes the window after every outcome, also when its 20 seconds are over and the script
still runs (`Closed`); a start that waits for a stop fails then (`StaleStopFails`).

Abstractions: a server that SIGTERM ends is gone at once; the identity and the pid check of
the launcher are one step (a cutover between them is caught by `AssertsSource`). The
counters and the cooldown of the health tick, WebView2 and a `FailClosed` during a close
already in progress are left out. A cutover needs a window that is gone, for a directory in
which the host's program runs cannot be moved (the helper tries for 45 s). A new window
waits until the stop scripts of the former ended; a stop that comes late is the operator's.

Bounds: two launchers for a start that meets the trap or the server of another, one
each of the three stop scripts, one update, and two failures, kills, hangs, timeouts or stops
by hand: enough for a lost server whose recovery fails, or whose stop does.

## 6. `JobEvidence` and `IngestionRun`: model and code

`JobEvidence` has the tables and the employer's site: what the feed lists (`feed`), what
each detail page shows (`page`), `raw`, `silver`, and `latest[j]`, the newest
authoritative evidence of a job. One value per job is enough, because
`gold_job_lifecycle_health` compares the newest rows of `job_observations` and
`job_health_observations` by `observed_at`, which is the start of the writing
transaction. That is also why a batch that began earlier and commits later shows
nothing for jobs that got evidence meanwhile: `newer` keeps those jobs. `kind` is that of
the source: a reviewed feed that can be a complete inventory (`inventory`, or `legacy` if
its Bronze rows are older than their source type, which only one of the two loaders
accepts), or one whose jobs are checked by their detail pages (`detail`).

What a page says decides whether a vacancy that is gone can be noticed at all.
`ExactDetail` follows `classify_exact_detail`: a live page confirms, 410 or the closure
marker closes (`closed`), and a bare 404, a redirect or another title is unverifiable,
however often it is asked (`moved`). The reconciliation of reviewed Personio sources
also takes Personio's own text on a 404 (`notfound`) for a closure.

| Command | Actions |
|---|---|
| `src.ingest_jobs` | `BeginIngest`, `FetchFails` or `Fetch`, then `SaveRawJob` and `SaveJobObservation` for each matching record, `LoadTargets`, then either `BatchBegin`, `BatchRow` for each target, `BatchCommit`, or `Probe` and `AppendHealthObservation` for each; `Finish` or `FailIngestionRun` |
| `reconcile_reviewed_personio_detail_health` | `BeginReconcile`, `LoadReviewed`, probes, `Finish` |
| the operator's probe, the revalidation before an application | `BeginProbe`, `Probe`, `AppendHealthObservation`, `Finish` |
| any | `BatchDeadlock`, `StatementFails`, `CommitUnanswered`, `Kill` |
| around them | `SiteChanges`, `SilverWritten`, `SilverRewritten` |

The daily pipeline alternates ingestion and reconciliation; operators run the commands
they like beside it. Each repository method is one transaction, hence one step. The
batch of absences is the exception: it locks the Silver rows of its targets one by one
(`lock`), reads each again, and rolls everything back if one has drifted.

`cause` remembers why an ingest ended. A statement may fail anywhere, in a process that
lives on: in the health step a handler marks the run as failed (`InHealthStep`), but
nothing does so for the statements between the fetch and the health step
(`src/ingestion/runner.py:456-537`) and for the one that finishes the run (593). If the
answer to the last COMMIT of the health step is lost, the handler marks a run as failed whose
evidence is there (`CommitUnanswered`).

Abstractions: a page is one of the four kinds above, and a request may go unanswered;
the classifiers' texts, manifests, counters and the paged search of other
sources are left out. A reviewed feed arrives whole or not at all, but may fail its
validation; of other sources some records may be lost.

Bounds: three vacancies, two of which match the filter; three sites (everything listed;
the matching ones withdrawn, one of them moved and one whose page lives on; an empty feed
with one page closed and one gone); page sizes that cut the list or not; caps of two absences and one probe, so that both are exceeded; one change
of the site, one fault, one operator beside the daily pipeline.

## 7. `ApplicationTracking`: model and code

| Variable | In the program |
|---|---|
| `arrived`, `scanning`, `class`, `title` | the normalized scan, whether the private runtime and its token work, what the installed classifier makes of a message, the title of the recorded vacancy in `silver_jobs` |
| `apps`, `submissions`, `active` | `applications`, `application_submissions`, the active rows of `application_event_candidates` |
| `sync`, `rows`, `todo`, `before`, `view` | the transaction of a sync: its rows, those to ingest, the tables it read, and as it sees them with its own writes |
| `moved`, `settled` | what others changed since it began; history: nothing changed since a sync of all rows passed |
| `opc`, `request` | where an operator's request is, and what it asks for |

| Part | Actions |
|---|---|
| mailbox sync (`product_v1_runtime_mailbox_sync.py`; `run_product_v1_f5_mailbox_persistence_apply.py`) | `SyncBegin` or `SyncRefused`, `Ingest` for each row, `SyncPasses` or `SyncFails`; `SyncKilled` |
| operator (`product_v1_f5_application_actions.py`) | `AskRecord`, `RecordInsert`, `RecordFinish`; `AskRemove`, `Remove`; `Correct` |
| around them | `Arrive`, `ScanBreaks`, `Reclassify` (another release), `Rename` (Silver) |

A sync is one SERIALIZABLE transaction: it reads a snapshot, plans each row
(`PlanStep`, `PlanInserts`), goes no further if a row is invalid or a message is there
twice (`PlanIsSafe`), ingests row by row into its own view, compares the counts
(`Agrees`) and commits unless PostgreSQL refuses it (`Conflicts`). Requests run in READ
COMMITTED and lock the application's row; what follows the lock up to the commit
is one step. Planner and ingest resolve a message with the same rules
(`Match`, `Resolve`) but not from the same data: `Blind` is what the ingest lacks.

Abstractions: the classes of messages are grouped by what the code does with them; an
attribute is a value or missing, and titles match when they are equal or of one family; a
row is valid, invalid, or there twice (`Rows`), whatever is wrong with it. The scan's limit
of 1000 messages, audit rows, the status file and views are left out. So are what the
command line compares besides: the digest of file and plan, which only narrow when it
begins, and `processed_rows`, `class_counts` and the deltas of the tables, which follow from
the counts compared, the same classifier and the same snapshot. The unique indexes and
foreign keys are left out on purpose: `ConstraintsNeverFire` says that they are never what
decides.

Bounds: five messages, of which one or two arrive: two of one thread, of which the second
names the vacancy that the operator may have recorded under a shorter title, and one that
knows only the vacancy's address; a fourth whose row is there twice, which matters only once
a release classifies it as more than other mail, and a fifth whose row is invalid; one form
with two variants of its details, two operators, and the two syncers there are. `MCBudgets`
splits the bounds in four: requests that overlap around one message; requests with a
renaming; mail with a new release; two overlapping syncs. With the third message plan and
ingest disagree in each of the three cases `PlanIsKept` names: dropping any of them, the run
finds a counterexample.

## 8. Runs

All instances of `ProductUpdate` have two hosts, and deadlock checking is off in each:
a rollback that failed may leave no desktop to start, and the product then stops, as
the code intends. `MigrationsOverlap` does not check deadlock either, because nothing
is left to run once every file is complete and none of its commands bootstraps. All
other runs check it.

| Run (`.cfg`) | Instance | Checks | States, time |
|---|---|---|---|
| `UpdateSafety` | 2 helpers, 1 release, io + crash | `TypeOK`, `OneOperation`, `SuccessIsWhole`, `RollbackIsWhole`, `GenerationRecoverable`, `InstallUnderMutex`, `AtomicSpec` | 826,162, 90 s |
| `UpdateConsent` | 1 helper, 2 releases, all faults, `DialogsApart` | `FrozenTarget`, `TornOnlyUnderHandoff`, `NoOfferWhileCooling`; fires every action | 2,315,788, 165 s |
| `UpdateLiveness` | 1 helper, 1 release, io + helper | `ConsentAnswered`, `OperationEnds` | 69,873, 50 s |
| `UpdateHostExit` | 1 helper, 1 release, none | `HostGoneBeforeCutover`: violated | seconds |
| `UpdateRestart` | 1 helper, 1 release, none | `HandoffEndsInRestart`: violated | seconds |
| `UpdateDrift` | 2 helpers, 2 releases, none | `FrozenTarget`: violated | seconds |
| `Runtime` | section 5 | `TypeOK`, `ManagedWhenAlone`, `AnswersForItself`, `ClosingStops`, `RuntimeComesBack` | 600,307, 90 s |
| `Migrations` | 2 runs, all commands and faults | `TypeOK`, `SuccessInEffect`, `UntrackedUntouched`, `OnceWhenAlone` | 24,761, 5 s |
| `MigrationsOverlap` | 2 runs, apply and bundle, none | `TargetsConsistent`: violated | seconds |
| `Ingestion` | section 6 | `TypeOK`, `AbsenceIsTrue`, `AbsencesAreOneBatch`, `OnlyOperatorsRecordDoubt`, `RunStatusIsTrue`, `GoneIsNoticed`, `ListedIsActive` | 736,351, 140 s |
| `Tracking` | section 7 | `TypeOK`, `ConstraintsNeverFire`, `PlanIsKept`, `NeverRematched`, `AnswersAreTrue`, `EvidenceArrives` | 136, 135 s |
| `TrackingReplay` | section 7, mail and nothing else | `SyncIsIdempotent`: violated | seconds |

What the passing runs show, of the update:

* `OneOperation`: two helpers never cut over at the same time and no agent
  rebuilds a stage under one, also when a holder of the mutex dies.
* `SuccessIsWhole`, `RollbackIsWhole`: from the success report to the release of
  the mutex both trees and `current.json` are the accepted target; when the helper
  drops handoff and consent after a failure they are what it found. Both are checked
  with two helpers, failing moves and crashes; the theorems have any number of helpers
  and all faults.
* `GenerationRecoverable`: whatever dies in the middle, one complete generation is
  on disk, in the live trees or in rollback roots. Nothing in the code repairs
  such an installation; a person can.
* `AtomicSpec`: `ProductUpdate` implements `AtomicUpdate`. Without failing file
  operations and crashes no update leaves the installation broken, except in one
  case: a helper that gives up, say on the mutex, kills every desktop host and with
  it the helper such a host started (`D/ProductUpdateApplier.cs:397`), in the middle
  of its moves. Without the `asked # {}` of `Fall` a run with two helpers finds that
  behaviour; it needs a host that lives on while its helper cuts over, see
  `UpdateHostExit`.
* `InstallUnderMutex`: the catch block, which is also entered without the mutex,
  never changes the installation then.
* `FrozenTarget`, `TornOnlyUnderHandoff` and `NoOfferWhileCooling` hold as long as no
  dialog is open while a handoff is on disk (`DialogsApart`), which `UpdateConsent` has
  as its `CONSTRAINT` and the theorems of section 9 as their hypothesis: a helper
  installs the release of the dialog; a start that no handoff refuses finds trees and
  metadata of one generation; a failed target stays away until its cooldown ends. The
  gate is there to keep dialogs and handoffs apart, but it looks at the handoff once,
  before the session is free, and does not look at a session that starts with the token
  of the helper. Beside a dialog each of the three fails: a second consent overwrites the first
  (`UpdateDrift`); a dialog whose snooze cannot be written, or whose helper does not
  start, clears the handoff of the helper at work (`D/UpdateCoordinator.cs:268`); and a helper that
  then rolls back has its failure snooze overwritten by another one's.
* `ConsentAnswered`, `OperationEnds`: each helper ends and leaves a result; the
  mutex is always given back.

Of the runtime, with "alone" as the condition all three safety properties need (each
fails without it; section 8.2 says how):

* `ManagedWhenAlone`: the pid file, which is all a stop script has, names a server as
  long as it lives, whatever traps, launchers and stop scripts come later.
* `ClosingStops`: once the stop script of a closing window reported success, no such server
  is left, also when a recovery goes on while it closes. A window closes over a server
  that still runs only after a stop that failed or did not end in time, of which
  `OnFormClosing` tells the user; the pid file then still names that server.
* `AnswersForItself`: `app-info.json` is a file of the bundle and not of the server, so a
  server that outlived an update could answer as the new generation; such a one does not.
* `RuntimeComesBack`: a ready window whose runtime is lost gets a listener on the port
  again or goes, however often a recovery fails. The target is a listener and not a healthy one:
  see 8.2.

Of the migrations:

* `SuccessInEffect`: a success row stands for SQL that took effect, whatever runs
  overlap, fail, die or lose a COMMIT. The converse fails by design of the except
  block: a row may say failed although its file took effect.
* `UntrackedUntouched`: a file without a row has not taken effect, so what
  `pending_migrations` selects at the moment it reads is never applied already.
* `OnceWhenAlone`: without overlapping runs and lost answers, no file takes effect
  twice and a failed one left nothing. Both conditions are needed, and the scripts
  ensure neither.

Of ingestion and lifecycle:

* `AbsenceIsTrue`: only a fetch of a feed that listed other vacancies and not this one
  records it as absent; the keyword filter, the page size, a partial or an empty answer
  never do.
* `AbsencesAreOneBatch`: the absences of an inventory show together or not at all and
  replace nothing newer, also when rows are rewritten, locks wait and batches deadlock.
* `OnlyOperatorsRecordDoubt`: an answer that proves nothing replaces evidence only where
  an operator asked for that job.
* `RunStatusIsTrue`: the status of a run agrees with its evidence. One that ends as failed
  has recorded no absence, whatever drift, deadlock, cap or failed statement ended it,
  unless it never learned that its COMMIT took effect; an
  exception of the fetch or of the health step always ends it as failed. Only a kill, or
  a statement outside any handler, leaves a run in status running, and nothing ends it
  later.
* `GoneIsNoticed`: once the site is still, a vacancy that is not listed and *provably*
  closed ends up not active, whatever went wrong before. `Provable` says when that is: its
  page says so, or a complete inventory omits it, or a reviewed source answers with
  Personio's 404. Any other 404, a redirect or another title proves nothing, and such a
  vacancy of a detail source stays active for ever, as
  `src/ingestion/recurring_lifecycle_health.py:7-13` intends. A backlog beyond the
  caps is excused (`TooManyMissing`): every run then refuses to conclude anything.
* `ListedIsActive`: once the site is still, a listed and reachable vacancy ends up active,
  although a stale ingest may have said otherwise for a while.

Of application tracking:

* `ConstraintsNeverFire`: overlapping transactions keep one application per key, one
  submission per application and one active interpretation per message, and leave no
  dangling reference, without help of the database's constraints.
* `PlanIsKept`: the plan and the ingest, written twice, give different counts only where
  the identities they compare differ (`OnlyPlanned`), where a row finds an application that
  the batch creates for another row (`FoundInBatch`), or where a match status differs that
  the plan does not look at (`StatusChanged`).
* `NeverRematched`: evidence stays with its application when a later release
  classifies the message differently.
* `AnswersAreTrue`: "recorded" means the submission is in the table, and a removal takes
  only the submission that was shown.
* `EvidenceArrives`: every message that arrived gets the interpretation of the installed
  classifier, unless one of three things keeps all of them waiting: the scan does not work;
  one row of it is invalid or there twice, which fails every sync while the scan has it
  (`scripts/run_product_v1_f5_mailbox_persistence_apply.py:264-268`, intended to fail
  closed); or the sync ends in a mismatch again and again (8.2). Conflicts, kills,
  operators and new releases are not among them.

`UpdateConsent` has one helper: with two, two releases and all faults there are too many
states for a run. Two helpers and two releases were checked with one kind of fault at a
time, and the theorems have any number. Every property of a passing
run has a mutant of the code's definition that breaks it (`PROJECT.json`); mutants
stand before the definition they change.

### 8.1 Fairness

* `ProductUpdate`: `AgentStep`, `HostStep(h)` and `ApplierStep(a)` are weakly fair: a
  started helper or agent runs its code, the message loop of a host dispatches its
  timers, and every wait has a deadline (60 s for the mutex, 45 s for a move, 105 s for
  the proof of the restart, 25 s for the session).
* `RuntimeHost`: each launcher with its server, each stop script and the host are weakly
  fair: processes run, and an open window has its timer and its awaits, each with a
  timeout.
* `IngestionRun`: each process is, and the daily pipeline is started again and again.
* `ApplicationTracking`: the sync of the service is, which a scheduler starts every 30
  minutes and which begins its transaction if the scan works and its plan is safe; the
  command line's is not.

Operators, users, releases, the clock, the employer's site, Silver, crashes and other
faults owe nothing.

### 8.2 Disagreements found

1. `UpdateHostExit`. `--host-pid` is resolved as if it were a path
   (`D/ProductUpdateApplier.cs:25`, 720-730), so `WaitForHostExit` (559-574) never
   waits, against its own message "Running JAP host did not exit before update cutover."
2. `UpdateRestart`. A helper that fails before it has read `current.json`, for
   instance at the 60 s of the mutex, changes nothing, restarts nothing and keeps
   the handoff: every later start is told that JAP is being updated and will
   restart (`D/Program.cs:38`).
3. `UpdateDrift`. A host that passes the gate (`D/Program.cs:31`) just before another one
   writes its handoff gets the session when that one exits. It offers the newer release
   staged meanwhile, and its Yes overwrites `accepted-update.json`
   (`D/UpdateCoordinator.cs:463-469`) before the first helper, which may wait 60 s for the
   mutex, has read it. The guide says the frozen accepted target cannot drift
   (`docs/guides/jap_control_center_windows_app.md:129`).
4. `MigrationsOverlap`. `--apply` reads the rows; the bundle commits 077 and 078;
   `--apply` executes 077 again, which fails over the views of 078, and its except
   block overwrites the success of 077 with failed. That is the state
   `scripts/prepare_product_v1_runtime_migration.py:94-97` calls inconsistent and
   refuses to work on.
5. `TrackingReplay`. The planner compares a message with applications by thread and
   domain too; `_existing_application_identities` reads both columns and does not
   pass them on (`scripts/product_v1_f5_mailbox_ingest.py:340-364`). After two messages
   of one thread of which only the second names the vacancy, each sync plans a
   supersession, ingests a noop, and rolls everything back with
   `candidate_noop_delta_mismatch`, whatever mail came since.

Not refuted by a run, but worth knowing:

* A failed row counts as tracked, so `--apply` never retries the file and goes on behind
  it, and `--apply-exact` answers `already_applied` for it
  (`scripts/apply_db_migrations.py:147`, 162).
* A window that closes while its start or recovery is still under way can leave a server
  behind that no pid file names: the launcher removed the old file, the stop script
  finds none, the launcher then writes its own and the stop script removes it. The same
  happens when the exit trap of a losing launcher removes the winner's file
  (`scripts/run_jap_windows_control_center.sh:246`). Such a server can live through an
  update and pass for the new generation as soon as another one publishes its
  `app-info.json` there.
* A server of its own that hangs (port open, no answer), or an old one after an update took
  `app-info.json` away, is taken for a foreign service and never replaced
  ("Port 8780 ist bereits durch einen anderen Dienst belegt").

## 9. Proofs

### The update

`ProductUpdateProofs` proves, for every set of hosts and helpers, every number of
releases and every choice of faults, `TypeOK`, `OneOperation`, `SuccessIsWhole`,
`RollbackIsWhole` (as `Spec => []Inv`) and `InstallUnderMutex` (as an action
property). The assumptions are those the module names: at least one release,
`Faults` within the four kinds, and the model values distinct from the processes.

None of these is inductive. The invariant `IInv` adds:

* `TargetKnown`: a helper past the accepted manifest has a release as its target
  (else `current` could be anything);
* `MutexHeld`: the agent works only as holder of the mutex, and so does a helper
  that is in its locked steps, has read the installation (`previous`) or has moved a
  tree out. This is what carries mutual exclusion through the catch block, whose
  program counters say nothing about the mutex;
* `Whole`: in the steps that prove, report and clean up, the trees and
  `current` are the target; in the steps after a restored rollback, the snapshot.
  It survives the steps of others because those steps would need the mutex.

There is one lemma per process for the types with `TargetKnown` and one for the
other two conjuncts, with a step for each action, and lemmas for what the end of a
process leaves of the helpers' locals. `StepInv` combines them and PTL the rest.

`HandoffProofs` proves, for the same constants, `Spec /\ []DialogsApart => []P` for
`TornOnlyUnderHandoff` and `FrozenTarget` and the same for the action property
`NoOfferWhileCooling`. The hypothesis is needed (`UpdateDrift`), and many behaviours
meet it: all that `UpdateConsent` visits. Its invariant `HInv` has four parts:

* `OneSession`, proved without the hypothesis (`SingleSession`): a dialog that opens is
  the only one;
* `Ordered`: the agent stages ever newer releases, so everything anybody remembers (an
  offer, a consent, a result, a cooldown, the image of a helper) is `Behind` what is
  pending or being staged;
* `HandoffInv`: a helper between its start and `ClearHandoff` still owns the handoff
  (`HandoffHeld`); therefore no dialog is open, no other helper is at work, nobody
  overwrites its consent (`ConsentKept`), and what it finds is whole (`WholeBefore`);
* `CoolingInv`: at a dialog and at the start of a helper the release is newer than all
  that cool down (`OfferNew`, `ImageNew`). A release that fails is snoozed (`Snoozed`); when the
  snooze is overwritten later, by a No or by the next failure, it is for a newer release, and
  the older one is `Past`: by `Ordered` it is never staged again (`CoolingBlocked`). One
  snooze file is enough for any number of failures, which is not obvious from the code.

`QuietStep` covers the steps that only move processes on, `HolderStep` those of a helper
that owns the handoff; the others have a lemma each.

`RecoverabilityProofs` adds `GenerationRecoverable`, for the same constants. That one
generation is complete *now* is not inductive: a tree that counts may be about to be
replaced. The invariant says which trees may be: one is at risk (`AtRisk`) while a helper
that moved it out has not dealt with it in its catch block. `Safe` asks for a generation
each of whose trees is live and at risk from nobody, or in a rollback root. A move out is
harmless because the root is empty before it (`Fresh`), a move in because it replaces
nothing (`Gap`), a restore because the tree it deletes was at risk, so that the witness
lay in a root, and the clean-up because both trees are the target (`Whole`) and nobody
else has moved one out (`OnlyOne`, from `MutexHeld`). `QuietStep` covers every step that
leaves trees and roots alone.

`RefinementProofs` proves `Implementation`, `Spec => AtomicSpec`: the refinement that
`UpdateSafety` checks on a small instance holds for all of them, also without faults. The
mapping shows what a working helper *found*, so the proof must know that it can
still be told: `Kept` says which trees a helper has moved and placed at each step, that
a rollback root holds what was moved there until it is dealt with, that a rollback with
no error has emptied them, and that the holder of the mutex is at work. `Unseen` then
hides the moves; `LockShows` is `Begin`, `SuccessShows` is `Commit`, `RollbackShows` is
`Undo`; `EndShows` is `End` or `Fall`, and `GivesUpBroken` shows that without faults a
helper gives up only over an installation that was broken when it came, or is as it
found it; in `StopShows` a helper that gives up takes the holder down, which is the one
fall that needs neither a fault nor an installation broken before.

### The migrations

`SchemaMigrationsProofs` proves `TypeOK`, `SuccessInEffect`, `UntrackedUntouched` and
`OnceWhenAlone` for any number of runs and files and any bundle, commands and faults,
from `FileAssumption`, `BundleAssumption` and `CommandAssumption` alone. The second and
third are inductive with the types: rows and effects are committed together, and what
is written without an effect is never a success and never removes a row.
`OnceWhenAlone` needs three conjuncts more: a run's transaction and the file it failed
at are within its plan, and an idle run has none (`Scoped`); runs that never overlapped
are never active together (`Alone`); and nothing in the plan of a lone run has taken
effect (`Ahead`), which holds at `Start` by `UntrackedUntouched` and by the part of
`OnceWhenAlone` about failed rows, hence the conjunction. `QuietStep`, `CommitStep`
and `RewriteStep` carry the invariant over the three kinds of steps: those that leave
the database alone, that commit, and that only write rows.

### The runtime

`RuntimeHostProofs` proves `TypeOK`, `ManagedWhenAlone`, `AnswersForItself` and
`ClosingStops` for any launchers, stop scripts, generations and faults, from
`RuntimeAssumption`. The invariant says who may be at work beside a launcher that is alone:
nobody before it wrote the pid file (`EarlyAlone`); afterwards only launchers that have not
begun and stop scripts that have yet to look, so that whoever could take the file meets the
server first and kills it (`NamedAlone`, of which `ManagedWhenAlone` is a part).
`NoneAtClose` carries this through the close from the moment the stop script has looked, a
stop that failed leaving both file and server; and `AnswerTruth` adds that as long as a
launcher of another generation is busy, `app-info.json` does not name the installed one. One
lemma per conjunct has a step for each action; `LaunchInv` treats the launch, which two
actions contain, once.

### Ingestion

`IngestionRunProofs` proves `TypeOK`, `AbsenceIsTrue`, `AbsencesAreOneBatch`,
`OnlyOperatorsRecordDoubt` and `RunStatusIsTrue` for any jobs, operators, sites,
caps and bounds, from `JobsAssumption` and `IngestionAssumption`. The properties are
about single steps, and what a step writes was decided several steps earlier; the
invariant carries it: a batch is planned from a non-empty feed that lists none of its jobs
(`BatchPlanned`), an answer that waits is one a probe gives, and inconclusive only
in an operator's probe (`AnswerKnown`, `ProbedByHand`), a process about to write
has a job in hand (`InHand`), a batch of absences is the last thing a run writes
(`RecordedLast`), and a run is open while its command goes on (`RunOpen`).
`EvidenceWriters` says which three actions change evidence, `WhatIsWritten` what they
write, and `HowRunsEnd` which six end a run.

### Application tracking

`ApplicationTrackingProofs` proves `TypeOK`, `ConstraintsNeverFire`, `PlanIsKept`,
`NeverRematched` and `AnswersAreTrue` for any messages, forms, operators, syncers and bounds, from
`TrackingAssumption`. A sync decides on the tables it read, and the theorems are about those
others have changed since. The invariant connects the two: what it read of a message or
a key is still so unless `moved` names it (`SameEvidence`, `SameKeys`), and its view
differs from what it read only by its own rows, which are consistent in themselves (the rest of
`Sound`). `CommitFinds` turns "no conflict" into "what it relied on is still there", and
`CommitConsistent` the rest. Lemmas about the operators come first: what `Decide`,
`Match`, `NewCandidate` and `Ingested` can return.

`PlanIsKept` compares counts of what the plan says of the tables read first with counts of
what a sequence of ingests, in any order, has done. No induction over the batch is needed,
for the ingest of a row is a step: `Interpreted` says of a sync at any moment that what it
read of a row still to come stands, and that a row it has ingested was interpreted as it
would have been alone (`NewCandidate(m, before[p])`) unless it finds in the batch what
another row created. The second half survives the rows after it because a batch only
creates, and what matches nothing in more applications matches nothing in fewer
(`MatchShrinks`); `SameInterpretation` is the ingest of a row, also of one that finds its own
application because another message of the same key came first. At the end the
applications created are one for each key planned, which gives a bijection
(`CountsAgree`), and each row did what was planned.

### What is only checked

Every safety property that a passing run checks is also a theorem, three of the update's
under the hypothesis of their run, `DialogsApart`. Only checked are:

* The liveness properties, which are beyond the prover: `ConsentAnswered`,
  `OperationEnds`, `RuntimeComesBack`, `GoneIsNoticed`, `ListedIsActive`,
  `EvidenceArrives`.

## 10. Not modelled

* Of the modelled parts: see "Abstractions" in each section. Of the migrations also the
  predecessor recovery of 066, 069 and 076, files that commit by themselves (018, 020),
  and changed checksums.
* The Connector Factory and the candidate gate (planned). Both are large and hold most of
  their rules in data: catalogues, policies, and the gate's evidence rows.
* StepStone cycles and action runs: the admission of a cycle or run is one statement
  under one lock, with far less to interleave than what is modelled.
* Parsers of third-party pages, Silver, scoring and ranking, the nightly planner, the
  React UI, packaging and CI keep no state between calls in which an order of events
  could matter; tests reach them. They are most of the repository's lines.
