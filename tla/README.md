# A model of the ingest dispatcher, its jobs and the pipelines behind them

The analytics platform in this repository pulls data from Microsoft 365 tenants
into a lake. A *dispatcher* (C#, Azure Functions) decides what is ingested and
when; *jobs* (PowerShell in containers, run as Azure Container Apps executions)
read the tenants and land files; three Databricks *pipelines* (Python) turn the
files into bronze, silver and gold tables, from which a migration is planned.

Three things are hard to get right. The dispatcher keeps no state between two
calls: everything it knows about a run is in blobs, each written by several
functions, some under ETag conditions and some not, while timers, operators and
containers go on. And the pipelines join data that different jobs land at
different times, in no order, sometimes twice; each table is computed by itself
and yet they refer to each other. Between the two, a job lands files, manifests,
ids, marks and a status while any call may throw, and they must tell the same
story. This directory models all three in TLA+, checks the models with TLC and
proves most safety properties of the first two with TLAPS, those of the control
plane all.

Paths of C# files below are relative to
`src/src/analytics/ingest/dispatcher/src/IngestDispatcher.Functions/`, those of
the jobs to `src/src/analytics/ingest/jobs/`, those of the pipelines (`pl_*.py`)
to `src/src/analytics/databricks/dlt/`.

## The system

| component | state | operations | talks to |
|---|---|---|---|
| `RunExecutor`, `ClaimWriter` | claim blob per (job, tenant, run type) | dispatch a request: claim each tenant's slot, start one execution per container type, persist their names with a second conditional write; delete a claim | ACA, claims |
| `ClaimReader` | none | list the claims, find a run's claim | claims |
| `RunTracker` | none | per active claim: resolve each task from the run-state blob, ACA, the cancel intent and the clock; write the history; delete claim and intent | all blobs, ACA |
| `RunCanceller`, `CancelIntentStore` | intent blob per run | request a cancel; reconcile: detect deadlines, resubmit stops, advance, stall, drop | intents, claims, ACA |
| `ForceReleaseRunFunction`, `CancelRunFunction` | none | operator endpoints | the above |
| `IngestTimerFunction`, `CronStateStore` | cron state blob: last evaluation of each job | every minute: reconcile, track, sweep, evaluate cron | everything |
| `ManualRunFunction`, `PreviewFunction`, `RunsFunction` | none | manual dispatch, preview, listing | executor, readers |
| `RunHistoryWriter` | run record and task records, write-once | write | history |
| `RunHistoryReader`, `RunStateReader`, `HeartbeatCache`, `TaskStateDeriver` | a cache | views for the UI | history, run state, ACA |
| `ConfigLoader`, `EntityResolver`, `TenantResolver` | configuration, read at start | resolve selectors | |
| jobs: `Invoke-Ingestion`, `ProgressHeartbeat` | run-state blob per task | run entities; flush progress; a terminal flush before the exit | run state |
| jobs: `StageExecutor`, `WorkerPool`, `RetryHelper`, `HighWaterMark` | queues, tokens, per-entity marks | the entity loop | remote APIs, lake |
| jobs: entity modules | none | read one kind of object; name the folder its files land in | remote APIs, lake |
| `pl_bronze.py` | a streaming table per entity, with a checkpoint | ingest the files of one landing path | lake |
| `pl_silver.py` | 81 streaming tables; candidates of the mapping | stage a bronze table, merge by key and sequence, or append | bronze |
| `pl_gold.py` | tables recomputed as a whole | user mapping, persons, shared data sets, sites, organizations, reports | silver |
| `pl_audit.py` | views of the logs | not deployed (`databricks.yml:223-228` is commented out) | silver |
| `trigger_dlt_pipeline.py` | none | start an update of one pipeline and poll it | pipeline service |

A run's life: a request (`claiming`) puts a claim into the slot if it is empty
(or over another one, with force); it starts executions and writes their names
into the claim (`dispatched`). Containers flush heartbeats into run-state blobs
and exit. The timer's tracker finalises the run once every task is settled:
run record, task records, claim gone, intent gone. A cancel leaves an intent
(`cancel_requested` -> `cancel_submitted` -> `cancel_stalled`) that the
reconciler pushes on until the run is finalised.

What is hard here, and what makes each component right:

* **Claims.** Two conditional writes with an interval between them in which
  executions start; a crash in it; an answer that is lost although the write
  landed; deletion by path with no condition. Right means: without force one
  run per slot, and no run disappears (`OneRunPerSlot`, `NoLostRun`,
  `ClaimsAreLocks`, `ClaimChangesHands`).
* **Finalisation.** Blob, intent, clock and ACA are read one after the other
  while all of them change, then four writes follow, any of which may fail.
  Right means: nothing is recorded while it works, a status has its cause, the two
  records of a run agree, a half-written history is completed (`RecordedMeansEnded`,
  `StatusHasCause`, `RecordsAgree`, `HistoryCompletes`).
* **Cancelling.** Inline call, reconciler, tracker and force-release race over
  one intent. Right means: it never goes back, it outlives the claim, and it
  goes away in the end (`IntentNeverRegresses`, `IntentOutlivesClaim`,
  `IntentResolved`).
* **Deadlines.** Right means: a claim past its deadline is released, even if
  its containers never finish (`ClaimReleased`).
* **Cron.** Late ticks, poisoned jobs, lost state. Right means: no occurrence
  is dropped between ticks, none gets two runs while nothing fails, one job cannot
  starve another (`NoneSkipped`, `OnceWithoutFaults`, `DueIsDispatched`).

* **Landing and bronze.** A root folder is listed with its sub folders; one
  filter on the depth of a path keeps the children out. Right means: a file is
  read by at most one table (`ReadOnce`), and in the end by silver
  (`LandedIsApplied`).
* **Silver.** Files come late, in any order and twice; a full refresh reads them
  all again. Right means: a table shows the newest, or all, of what was applied to
  it, and one row per object (`SilverIsAView`, `OneRowPerObject`, `LastModifiedWins`).
* **Refreshing.** A script waits for an update that goes on without it, beside
  updates that others start. Right means: a pass that returns has carried what
  had landed into gold (`PassIsFresh`), and it returns or raises, unless one of its
  requests is never answered (`PassEnds`).
* **User mapping.** Two tables choose from the same candidates in different
  ways, from users that change meanwhile. Right means: one person per user and
  target, agreement, nobody forgotten, counts that add up (`PersonOnce`,
  `MapAndPeopleAgree`, `NobodyLost`, `UnmatchedIsACount`).
* **Shared data sets.** Four tables derive each other's ids from sites, groups,
  teams and owners that land apart. Right means: references resolve, both ways,
  and counts agree (`SettledReferences`, `PrimarySiteRefersBack`,
  `DerivedCountsAgree`, `OneRowPerDataSet`, `OrganizationsAddUp`).

* **Marks.** A fetch moves the mark, the stage lands the records afterwards, and
  records appear late. Right means: none falls between two windows, the mark
  does not go back, and what landed explains it (`NothingSkipped`,
  `MarkNeverReturns`, `MarkIsFounded`).
* **Pool stages.** Chunks run apart, retry and break off, files outlive results.
  Right means: an input lands whole, once or not at all, and where lines can be
  repeated (auto-flush, an attempt that throws while it writes) the attempts bound
  the copies (`LandedOnce`); counts, ids handed on and status say what landed
  (`ResultIsTrue`), and the stage ends (`StageEnds`).
* **A container's modules.** Chunks, manifests and rollups are written while
  stages run, and anything may throw between them. Right means: manifests count
  what is there, nobody succeeds below a stage that gave nothing, every entity gets
  its manifest and the run the worst status (`TaskIsTold`); manifests stand
  (`ManifestsStand`); a task that looks clean is complete (`CleanTaskIsComplete`).

`PROJECT.json` lists the hazards line by line.

## Modules

```
RunStatus <- ControlStore <-+- RunExecutor  --+
                            +- RunCanceller --+- ControlPlane <- ControlProperties <- MCControlPlane
                            +- RunTracker   --+                     |        ^
                                                  SlotLock (INSTANCE)        +- ControlProofs
CronScheduler   <- MCCron, TriggerProofs

RunStatus, StageOutcomes <- ModuleRun <- MCModuleRun, ModuleRunProofs
StagePool     <- MCStagePool, PoolProofs -- StageResult (INSTANCE) -> StageOutcomes
HighWaterMark <- MCHighWaterMark, HighWaterMarkProofs

LandingFiles <- BronzeStreams <-+- Medallion <- MCMedallion, MedallionProofs
                SilverTables  <-+      |
                                   SilverView (INSTANCE)
PipelineTrigger <- TriggerProofs
UserMapping     <- MCMapping, MappingProofs
SharedData      <- MCSites, SitesProofs
```

The groups meet at tables and blobs, not at calls. A container of `ControlStore`
is opened up in three steps: `ModuleRun` is its loop over modules and stages,
`StagePool` one pool stage of that loop, `HighWaterMark` one inline stage over
many runs. `StageOutcomes` is what a stage hands to the loop: `ModuleRun` takes any
of them, and `StagePool` is proved to give nothing else (`PoolIsAStage`).
`ModuleRun!TaskStatus` is what `RunStatus!MapRunStateBlob`, the operator the
tracker of `ControlPlane` uses, makes of its rollup. The container lands the files
that `Medallion` starts from; `PipelineTrigger` moves whole layers, of which
`Medallion` is one table in detail; `UserMapping` and `SharedData` start from silver
tables that change at any time, as `Medallion` lets them.

| module | code | what a step is |
|---|---|---|
| `RunStatus` | `Services/Constants.cs`, the pure functions of `RunTracker.cs` | (operators) |
| `ControlStore` | the blobs and ACA as their callers see them | the container beats, flushes, exits or dies; a stop lands; an execution is forgotten |
| `RunExecutor` | `RunExecutor.ExecuteAsync` from its claim phase on, `ClaimWriter` | one storage or ARM call of one run; the join over a batch (`Task.WhenAll`) |
| `RunCanceller` | `RequestCancelAsync`, `ReconcileIntentAsync` | one storage call, or one fan-out of stops |
| `RunTracker` | `CheckClaimAsync` | one read or one write |
| `ControlPlane` | `IngestTimerFunction`, `ForceReleaseRunFunction`, `CancelRunFunction` | phases of the tick, endpoint calls; composes the above |
| `SlotLock` | abstract | a slot is taken when free, and freed when the run's history is complete |
| `ControlProperties` | | every property of the control plane |
| `CronScheduler` | cron scan of `IngestTimerFunction`, `CronStateStore` | load, the evaluation of one job, save; with its properties |
| `ModuleRun` | the module loop, sinks and catch of `Invoke-Ingestion.ps1`, the stage loop of `StageExecutor.psm1` | a stage ends; its chunks are uploaded; its manifest is written; one synthetic manifest |
| `StagePool` | `WorkerPool.psm1`, the verdict of `StageExecutor.psm1` | one record of a fetch; one line is written; an attempt ends in one of its ways; a chunk is collected |
| `StageOutcomes` | the results of `StageExecutor.psm1` | (operators) |
| `StageResult` | abstract | a stage ends, once, with one of its outcomes |
| `HighWaterMark` | `EntraSignInLogs.psm1`, `HighWaterMark.psm1`, the inline path of `StageExecutor.psm1` | the window is resolved; a page is read; the mark is written; the file is uploaded |
| `LandingFiles` | the `WritesTo` and folders of every entity module, `StageExecutor` | (operators) which entity lands where |
| `BronzeStreams` | every `create_bronze_stream` of `pl_bronze.py`, the load path and the depth filter | (operators) which table reads which file |
| `SilverTables` | every streaming table of `pl_silver.py` | (operators) source, key, expectations, sequence of each |
| `Medallion` | `StageExecutor`'s output, Auto Loader, `apply_changes` | a file lands; a micro-batch of bronze or of silver; a full refresh |
| `SilverView` | abstract | rows are applied; all are taken away |
| `PipelineTrigger` | `trigger_dlt_pipeline.py` and the updates it starts | one request of the script; an update ends; somebody else starts one |
| `UserMapping` | `user_mapping_candidates` (silver), `user_map`, `dim_people`, `mapping_issues`, `dim_user`, `fact_user_mapping_analysis`, the user rows of `fact_migration_readiness` (gold) | one upsert of silver; the computation of one table |
| `SharedData` | `shared_data_sets`, `dim_sites`, `shared_data_set_organizations` with the staging view of sites | one upsert of silver; details of a site land; the computation of one table |
| `MC*` | | instances for TLC |
| `*Proofs` | | theorems |

How state corresponds to code: `claim[s]` is the blob at the path of slot s;
`claim[s].task[t]` is an expected task whose execution name is `"null"`
(first write), `"named"` or replaced by an `"error"` (second write).
`intent[r]`, `runRec[r]`, `taskRec[r]`, `blob[r][t]` are the blobs of a run;
`exec[r][t]` is ACA's view of an execution; `late[r]` says that
`startedAt + resolvedTimeoutSeconds` has passed. `pc`, `seen`, `ref` are the
locals of a dispatch, `req`, `rec`, `trk`, `tick`, `release` those of the other
calls. In `CronScheduler`, `stored` is the cron blob and `state` the
dictionary a tick works on; `since`, `answered`, `runsFor`, `blind` are history
variables that only the properties read.

In `HighWaterMark`, `mark` is the sentinel blob, `landed` the container,
`run[r].written` the local file of a run; `occurred` and `listed` are the source.
`tooOld`, `dropped` and `abreast` are history variables: records that were older
than a day, and not landed, when a window was resolved; records a run had read
when it set the mark and did not upload; whether two runs have been under way at
once. In `StagePool`, `chunk[s]` are the locals of the dispatch
block of slice s (`held` is what its writer has not flushed; in `"flush"` and `"dump"`
lines are being written), `file[i]` counts
the lines of input i in the file of its chunk, the history variable `torn[i]` the attempts
that threw while they wrote lines of i, `total` is what the collector has
added up, counts kept by input where the code has their sum; `flushAt` is
the stage's `AutoFlushThreshold`. In `ModuleRun`, `groups` is `$manifestGroups`, `rollup`
`$summaryEntities`, `manifests` and `landed` are the container; the history variable `unwritten` has
the manifests whose write threw.

In `Medallion`, `table` is the silver table the behaviour is about, chosen at the
start; `landed` the files (one record each, with the object's tenant and ids, its
modification and whether the record bears that time), `bronze` the rows of the
bronze table with their `_dlt_ingested_at`, `done` the checkpoint of silver, `rows`
the silver table. In `PipelineTrigger`, `data[k]` counts the landings every table
of layer k reflects, `updates[p]` are the updates of a pipeline, `pc`, `stage`,
`update_id`, `elapsed` the locals of the script. In `UserMapping` and
`SharedData` there is a variable per table; `current` holds the gold tables that
were computed since silver last changed. `shape`, `teamed`, `renames` are the
tenant itself: what its sites are, which groups have become teams, how often a
site got a new address.

Operators headed `\* Mutant` are faulty variants of the definition they stand
next to. Nothing in the specifications uses them; they are there to show that a
property notices the fault - one for each part of a property that is a
conjunction (`ResultIsTrue`, `TaskIsTold`, `DerivedCountsAgree`).

### Abstractions

* **ETags.** An ETag is the content of the blob. That is sound because no
  content comes back: a claim is written at most twice with different contents,
  and an intent carries the number of its creation (`gen`).
* **Faults.** One budget, `MaxFaults`, pays for failed calls, calls that succeed
  and whose answer is lost, unreadable blobs, lost uploads, dead hosts, dead
  containers and forgotten executions. Any step may spend it.
* **Atomicity.** A step is one call to storage or ARM. Two exceptions: the stops
  of one cancel go out in parallel and are one step that picks which are
  accepted; a listing is one step, but what it found is used for as long as the
  tick runs. A check or a pass takes listed items in any order.
* **ACA.** Executions end by themselves, by a stop that lands later than it was
  accepted, or not at all. The exit code is 1 only if the script itself threw
  (`Invoke-Ingestion.ps1`): an execution whose entities failed *succeeds*, and
  only the run-state blob knows.
* **Clock.** `late` becomes true at any time after the request - but with
  `SlowDispatch = FALSE` not while the run is being dispatched, nor while a tick
  still holds the claim as it was before the second write. That is, a timeout is
  longer than a dispatch and a tick. The default is 7 days. With a timeout of
  seconds (the API allows it) a run can be finalised as timed out and its
  executions start afterwards; `OneRunPerSlot` and `RecordedMeansEnded` are not
  claimed for it. Runs of properties that do not need the assumption set it TRUE.
* **Cron in the control plane** is a request at any time; `CronScheduler` sees a
  dispatch from outside, as one that starts a run unless one is active, throws,
  or throws after claiming.
* **Sign-ins.** An instant is a step of the look-back (15 minutes) and has at most
  one event; a page has one record, in the order of time (`$orderby`). A record is
  listed at most `MaxLag` after its event, and `MaxLag <= Lookback + 1` is
  assumed: that is what a look-back of 15 minutes stands for, and the code cannot
  check it. Without the assumption `NothingSkipped` fails, as it must. `MgmtApiCommon.psm1` walks its windows differently and moves its
  mark in the same place.
* **A pool stage** materialises its records and each bears its id, so that the
  guard against records without ids is not met. Delays, reconnections and
  progress counters are left out. An attempt may throw anything at any record it
  fetches and between any two lines it writes. A line is in the file once `WriteLine`
  has returned: what the `StreamWriter` still buffers then, and a failing disk may lose
  although it was counted, is below the model. A chunk file that was opened for a line
  that threw is empty and counts as none. The pool is
  the one of runspaces; the one of child processes that `exo-ingest` uses instead
  (`WORKER_POOL_MODE=outofprocess`) is not modelled.
* **Results of a stage** in `ModuleRun` are any that an inline or a pool stage can
  have; a stage that writes to several requested entities at once does not occur
  in the modules. Uploads of a stage's chunks are one step: they land all, or the
  first throws.
* **Files and records.** A file holds one record; a file of several is several
  files that land together, which every order of micro-batches includes. Tenant,
  date and file name are in every path and decide nothing. A column of a key
  has a value, another one or `NULL`; columns that are neither key, expectation nor sequence are left out.
* **Tables.** The 81 silver tables share no state, so a behaviour is about one
  table and the run has a behaviour for each. Those of `SilverTables` are the keys
  and expectations as the code computes them: `concat_ws` skips NULLs, so that
  `x_id IS NOT NULL` over a joined key drops nothing and is not in `needs`.
* **Sequences.** `apply_changes` keeps the record of highest sequence; among equal
  ones any. All rows of a micro-batch of bronze have one `_dlt_ingested_at`.
* **Gold** reads each source as it is when the table is computed. That the tables
  of one update may have read different silver is why most properties speak of
  tables that are `current`. `row_number` over equal keys is any choice.
* **Sites.** The composite site id of Graph and the `HubSiteId` GUID are taken to
  be the same id, as `pl_gold.py` does by comparing them. A tenant obeys what
  SharePoint guarantees (`IsTenant`): one primary site per group, channel sites
  are no hubs, hubs exist.
* **Left out of modelled functions**: how a request resolves tenants, entities
  and templates, the tenants that are skipped because nothing is left for them,
  texts and status codes of answers, error texts, logging, times in records.

## Runs

Every run passes. Distinct states in brackets. Type correctness is proved for every
module with theorems (see Proofs), so that no run repeats it but those of the job
runtime, whose types are a part of `MarkIsFounded`, `ResultIsTrue` and `TaskIsTold`.

| run | instance | properties | shows |
|---|---|---|---|
| `Overlap` (501k) | 2 runs, 1 slot, 1 fault | `OneRunPerSlot`, `NoLostRun`, `ClaimsAreLocks` | overlap protection: the claim excludes the second run however the first ends |
| `Cancel` (3.1M) | 1 run of 2 tasks (symmetric), 1 operator, force-release, 1 fault, 2 intents | `StatusHasCause`, `RecordsAgree`, `RecordedMeansEnded`, `IntentNeverRegresses`, `IntentOutlivesClaim` | every order of inline cancel, reconciler, tracker and release over one intent, one task ending before the other, stops of which some are refused; nothing is recorded while it works, and what is recorded has its cause |
| `Force` (1.4M) | 2 runs with or without force, 1 slot, `SlowDispatch` | `ClaimChangesHands` | a forced overwrite takes exactly the claim it saw |
| `Live` (405k) | 1 run, 1 operator, 1 fault, 2 intents, stall after 1, `SlowDispatch` | `ClaimReleased`, `IntentResolved`, `HistoryCompletes` | progress under `FairSpec` |
| `Cron` (89k) | 2 jobs, one poisoned, 7 instants, 2 faults | `NoneSkipped`, `OnceWithoutFaults`, `DueIsDispatched` | no occurrence is dropped, starved, or run twice without a fault |
| `Windows` (2.4M) | 2 runs, after each other or at once, ordinary or backfill, 6 instants, a day of 3, 1 retry | `NothingSkipped`, `MarkIsFounded`, `MarkNeverReturns` | windows, late records, failing fetches and uploads, stops anywhere, overwritten marks |
| `Pool` (2.7M) | 2 chunks, 3 inputs of up to 2 records, 2 attempts, without auto-flush and with threshold 2 | `LandedOnce`, `ResultIsTrue`, `StageEnds` | what lands, what is counted, handed on and reported agree, wherever a fetch or a write throws |
| `Task` (54k) | two tasks: modules of `exo-ingest` with an entity of two folders beside a prerequisite, and the stages of `TeamsTeams` in a chain; modules, uploads and manifests that throw, a cancellation | `TaskIsTold`, `CleanTaskIsComplete`, `ManifestsStand` | manifests, rollup and run status agree wherever the module breaks off; failures travel down a chain |
| `Medallion` (994k) | each of the 81 silver tables, 2 tenants, 2 files (3 for `users`), 1 full refresh | `OneRowPerObject`, `LastModifiedWins`, `ReadOnce`, `SilverIsAView`, `LandedIsApplied` | every cut of every order of files into micro-batches, through the real paths, keys and expectations |
| `Refresh` (2.6M) | 3 pipelines, 1 poll, 2 passes, 2 updates of each, 1 landing | `PassIsFresh`, `PassEnds` | the script beside updates it did not start, or left behind |
| `Mapping` (578k) | 2 source and 2 target users, 1 mail user, 4 changes | `PersonOnce`, `MapAndPeopleAgree`, `NobodyLost`, `UnmatchedIsACount` | the mapping tables while users change |
| `Sites` (2.7M) | 2 sites, 1 group, 2 owners, 2 organizations, 1 rename, 6 changes | `SettledReferences`, `PrimarySiteRefersBack`, `DerivedCountsAgree`, `OneRowPerDataSet`, `OrganizationsAddUp` | four tables that refer to each other, landing apart |

### Where the code and its comments disagree, and other observations

Seen while modelling. Where a property would be false because of it, the property
names the exception, and only that.

In the control plane:

* The tracker deletes a claim by the path of its slot (`RunTracker.cs:447`), also
  when a `force=true` dispatch has put its own claim there: the new run loses its
  claim and no tick finalises it, against `ClaimRecord.cs:10-12`, "Immutable
  thereafter until finalization deletes it." `NoLostRun` and `ClaimsAreLocks` are
  therefore stated and proved for histories without force.
* The run-state blob is read before the ACA status. When the container flushes and
  exits in between, the status decides (`RunTracker.cs:303-305`), and a container
  whose entities failed exits 0: the task is recorded succeeded while its blob says
  failed. `RunTracker.cs:281` says "Run-state blob is authoritative when present
  and terminal." No property promises it.
* A finalisation that is repeated (its task records failed to be written)
  resolves the tasks anew, beside the run record of the first attempt: the two
  records can disagree (`RunTracker.cs:434-435`), for example a run that is
  `completed_with_errors` and has no task that landed anything, because a flush came
  after the first attempt had read its blob. A release that overtakes the finalisation
  (`ForceReleaseRunFunction`) may write one of the two as well. `RecordsAgree` excepts both.
* A cancel that comes before the executions' names are persisted finds nothing to
  stop, counts as submitted, and is not resubmitted before the reconciler's
  interval is over (`RunCanceller.cs:184`, `389-392`).
* When one tenant's claim throws, `Task.WhenAll` throws and nothing is started:
  the claims of its siblings block their slots until the deadline
  (`RunExecutor.cs:292-295`).
* A tick cut off before its save dispatches the same occurrence again, once the
  first run has ended (`IngestTimerFunction.cs:129-130`, `150`): that is why
  `OnceWithoutFaults` has its condition.
* An unreadable claim blob makes the reconciler and the force-release endpoint
  drop the intent of an active run (`RunCanceller.cs:305-308`); that is why
  `IntentOutlivesClaim` speaks of histories without a failed call.
* `ClaimWriter.cs:36-38` says that only two force=true requests can collide; one
  is enough, against any dispatch between its two writes.
* `RunExecutor.cs:317-318` returns the rejected tenants only and drops the
  filter-skipped ones when no claim succeeded, so `ManualRunFunction` answers
  409 "for every requested tenant" although some were filtered out.
* A failed load of the cron state (`CronStateStore.cs:52-61`) drops occurrences
  older than 60 s, and the first dispatch of a job that has no saved time is not
  retried when it throws, against `IngestTimerFunction.cs:127-129`.

In the jobs:

* `Set-HighWaterMark` is called inside the fetch (`EntraSignInLogs.psm1:129`), before
  the stage uploads the file (`StageExecutor.psm1:895`, `554-566`). If the upload
  throws, or the execution is stopped in between, the mark is ahead of the
  container, and what is older than the look-back is never fetched again.
  `HighWaterMark.psm1:3-4` says "timestamps marking the last successfully-landed
  record's source-time", and `MgmtApiCommon.psm1:269-270`, which does the same, "only
  advances on successful end-to-end run." These records are `dropped`, which
  `NothingSkipped` and `MarkIsFounded` except.
* With an `AutoFlushThreshold` (`PowerPlatEnvironments.psm1` declares 1000 for several
  stages) part of an attempt is in the chunk file when it throws, and the retry
  writes it again (`WorkerPool.psm1:342`). The inline loop is guarded against that:
  "Retry is only safe when the fetch wrote zero records" (`StageExecutor.psm1:737-739`);
  the pool is not. `LandedOnce` bounds the duplicates by the number of attempts.
* Without auto-flush the same happens when the dump of the records throws (a full
  disk, a record that does not serialise): the loop is inside the `try` of the attempt
  (`WorkerPool.psm1:375-378`), so that the lines before it stay in the file and in
  `record_count`, and a retry writes the input from its start. `LandedOnce` calls such
  attempts `torn` and bounds the copies by them.
* The sink enters a result into `$manifestGroups` before it writes the manifest
  (`Invoke-Ingestion.ps1:412`). If the write throws, the catch takes it for emitted
  (line 556): the entity has no manifest, against line 526, "Synthetic failed results
  so every requested entity gets a manifest." These keys are `unwritten`. If it is
  the second folder of `exo_group_members`, the rollup stays at the first folder's
  `success`, and the dispatcher reports the task as succeeded.
* Two runs of a tenant at the same time can take the mark back (`Set-HighWaterMark`
  is unconditional); the next run reads more than it needs to. A run that looks
  more than a day after the mark drops what lies between (`EntraSignInLogs.psm1:76-78`);
  the code intends it, and `NothingSkipped` excepts it.
* The file of a chunk that threw is uploaded though its result is lost: the
  container then holds lines that no manifest counts. `CountIsLanded` leaves
  them out.

In the pipelines:

* All pool children of the Power BI workspaces declare `WritesTo = 'root'`
  (`PowerBiWorkspaces.psm1:170`), so that datasets, reports, dashboards and users land in
  the folder of the workspaces. `powerbi_workspaces_root` loads it as a whole
  (`pl_bronze.py:1590`), and silver upserts every record as a workspace, against
  `pl_bronze.py:1570` "Each record is a workspace with nested reports, datasets,
  dashboards, dataflows, and users" and `pl_silver.py:5901` "One row per workspace per
  tenant." The properties of `Medallion` are about rows by key, whatever lands.

* The append-only logs keep what a retried chunk lands twice; only upserted
  tables deduplicate (`SilverView` says what is promised, `pl_silver.py:5207`).
* Within one micro-batch of bronze all rows have one ingest time; which of two
  versions of an object wins is then arbitrary. `coalesce(modified, ingested)`
  lets one record without its own time beat every later one that bears it:
  `LastModifiedWins` has its condition for that reason.
* Expectations such as `valid_id: x_id IS NOT NULL` over a `concat_ws` key can
  never fail; two objects that lack a key column can share a row, so that
  `OneRowPerObject` speaks of objects that have theirs. Keys of Dataverse tables do
  not contain the environment.
* Silver deletes nothing: revoked memberships, owners and users stay.
* Some references do not use the key of the table they name: the user key in
  `sign_in_logs` (`pl_silver.py:4719`) and in delegated grants (`4650`).
* No bronze table reads `powerplat_environments` (the root),
  `powerbi_gateway_cluster_data_sources` or the ledger of `powerbi_workspaces_root`.
* When its time is up the trigger raises while the update goes on; the next call
  is refused until it ends. Its HTTP requests have no timeout of their own
  (`trigger_dlt_pipeline.py:28`, `:48`), and `elapsed_seconds` counts turns of the loop:
  a request that gets neither an answer nor an error keeps the call for ever, beyond its
  two hours. `PassEnds` excepts it (`"blocked"`).
* A best primary score below 70 cannot occur, so `low_confidence` is never an
  issue; a user whose only candidate is pending (many to one, or employee id
  only) gets no issue at all. `user_map` also holds candidates that are not
  approved, although `pl_gold.py:509` says so of it. `group_map` approves by
  score alone.
* `migration_path` can never be `parallel` (a consequence of `PersonOnce`).
* A site without its details counts as standalone in `dim_sites` and has no row
  in `shared_data_sets` (`pl_gold.py:1768`); late details are joined only when
  the site lands again, and a renamed site leaves its former row behind under the
  same id (against the key stated in `pl_gold.py:978`). The properties of
  `SharedData` are about settled tables for this reason.
* Rounded confidences can exceed 1 by a rounding step (`pl_gold.py:1603`).

### Why the bounds are enough

* **One or two runs, one slot.** Slots share nothing but the timer, which takes
  their claims one by one. Exclusion and takeover need two runs of one slot; a
  cancel concerns one run.
* **One or two tasks.** Tasks meet in the conjunction over all of them, the set
  of their statuses and the subset of accepted stops: two show both sides.
* **One fault** (two for cron) may come at any step. Faults after each other are
  where retried writes meet a second failure; the theorems cover any number.
  `Force` has none: its subject is the interleaving of the two requests.
* **Two intents of a run** (`MaxGen`): one dropped, one created anew, so a stale
  ETag meets its successor.
* **Stall after 2 (1 in `Live`) passes** instead of 5: the threshold is a count
  compared with `>=`; 2 shows a pass that does not reach it.
* **Outcomes** `success` and `failed`, or only `failed`, from which both exit
  codes follow; `partial` and `skipped` differ in the roll-up only.
* **Cron**: window 2, occurrences at 3 and 5, clock from 2 to 6: ticks can be
  late, several occurrences can be missed, both jobs can be due at once.
* **Windows**: a day of three steps and six instants let the cap of a day and the
  look-back both decide where a window starts; the second run finds a mark that
  the first has moved, skipped or lost, or overwrites it. One retry shows a fetch
  that is repeated; more repeat it.
* **Pool**: a chunk with two inputs shows one that fails before or after a good one, the
  other chunk breaks off meanwhile; two records show a fetch that fails halfway, a
  dump and a flush (threshold 2) that throw between two lines, and a single one a
  record that is left for the flush at the end. `SomeSources` gives up to two records
  to one input, and to the other of its chunk and the one of the other chunk at most
  one between them: enough for the neighbour to be empty or not.
* **Task**: the two shapes of module that matter, an entity over two roots with a
  root that is only a prerequisite, and a chain of three stages.
* **Medallion**: two files show a merge of old and new, three also one between
  them; since the key columns decide what is merged and all tables share the
  merge, three files are tried on one table, two on each of the others. Two
  tenants share every id. Every column of a key takes in turn another value and
  `NULL`.
* **Refresh**: one poll shows an update that ends in time and one that does not;
  two updates and two passes show one left running into the next pass.
* **Mapping**: two users on either side show one-to-many and many-to-one; the
  readings of a user differ from an ordinary row in one column at a time. The
  `VIEW` drops what a table holds that is not current: the next computation does
  not read it, and no property looks at it after the step that computed it.
* **Sites**: two sites show a hub and its member, a primary site and a channel, a
  site under two addresses. `CONSTRAINT SitesOrOwners` explores sites and owners
  apart: every column is a function of one of the two groups of tables, and a
  property about organizations reads no site. The `VIEW` is as for the mapping.
* **Symmetry** (`Cancel`, `Mapping`, `Sites`, `Windows`) permutes model values that the
  specification treats alike; no run with symmetry checks liveness.
* `CHECK_DEADLOCK FALSE` wherever the system may stop: every run is recorded,
  every file read, every table current, and the bounds are used up. `Cron` checks
  for deadlock.

### Fairness

`FairSpec` assumes weak fairness of the executor, of each cancel call, of the
tracker, the reconciler, the timer and the release calls: functions that have
been started go on, and the Functions host calls the timer every minute
(`TimerTrigger`, `UseMonitor`). `TickReconciles` is strongly fair because the
pass is throttled by time: it is skipped on most ticks and taken when its
interval is over. `StopLands` is weakly fair: ACA carries out a stop it has
accepted. Nothing makes a container finish, a deadline pass or an operator act.
`FairCronSpec`: ticks start, jobs of a tick are evaluated, a tick saves.
`StagePool!FairSpec`: some step of the stage is taken as long as there is one: runspaces are
threads that go on, the collector polls every 500 ms, and a call of a fetch
returns or throws within the timeout of its client. The number of attempts is
what makes the stage end.
`Medallion!FairSpec`: the bronze and the silver pipeline are triggered again and
again, which is what the schedule that calls the script is for; nothing is said
of when. `PipelineTrigger!FairSpec`: a running script goes on: a request of it is
answered, fails, or blocks, and one that blocks does so for ever. Nothing makes an
update end.

## Proofs

All statements hold for every value of the constants that satisfies the `ASSUME`s.

* `ControlProofs!PlaneTypes`: `Spec => []TypeOK`. `TypeOK` is not inductive: that
  the tracker writes only `TaskStatuses` needs that no `None` or `"unresolved"`
  is left when it writes (`SettledOK`); that a dispatch, a check or a release
  indexes an existing run needs `ActingOK`, and that listed claims are of runs
  needs `ClaimOK`. `TypeInv` is their conjunction. One lemma per action.
* `ControlProofs!RunsAreNotLost`: without force and force-release,
  `Spec => []NoLostRun`, whatever fails. `LockInv` adds: nobody forces
  (`Unforced`); a run that has not claimed yet has no claim and no history
  (`FreshOK`); what the tick has listed and not checked is still claimed
  (`ListedOK`), because only the tick deletes claims; the run being checked keeps
  its claim, and its history is complete before the claim goes (`CheckedOK`).
  The hypotheses are needed: with force the finalisation of the run that was
  forced out deletes the claim of the other.
* `ControlProofs!ClaimsImplementLocks`: under the same hypotheses the control plane
  implements `SlotLock` (`holder` is the run in the claim, `closed` the runs with
  both records). Each action maps to `Acquire`, `Close`, `Release` or a stutter.
* `ControlProofs!PeacefulSlotsKeepRuns`, `PeacefulSlotsAreLocks` and
  `PeacefulSlotsDoNotOverlap` say the same of a single slot with force and
  force-release allowed, of the behaviours in which the slot is `Peaceful`: no
  request is about to overwrite a claim of it, and no release of one of its runs has
  come as far as its writes. Requests with `force=true` that find the slot free, releases that
  find no claim or die before they write, and whatever happens at other slots, do
  no harm. Both exceptions are needed: an overwrite takes the slot while its run
  works, and a release that is slow deletes by path the claim of the run that has the
  slot by then. The invariant is `LockInv(s)`, `LockInv` above for one slot; that the
  steps of other slots leave it alone is `SlotFrame`. The hypothesis speaks of
  states, and a state that is peaceful so far can go on stuttering, so that the
  theorems hold of any behaviour up to its first step that is not. `RunsAreNotLost` and
  `ClaimsImplementLocks` follow, because without force and force-release every
  slot is peaceful.
* The other safety properties of the control plane, also in `ControlProofs`:
  * `IntentsNeverRegress`, unconditionally: whoever writes an intent back saw it in
    `cancel_requested` (`WritersOK`), so that the content compared by the update
    says what the write may do (`IntentMoves`).
  * `StatusesHaveCauses`, unconditionally. `CauseInv` follows a deadline and a
    cancel from where they are seen to the run record: a timeout in an intent, a
    request, a listing of Pass A or a settled task has a deadline behind it, and a
    cancel an intent that was created; neither is ever undone. `TasksInv` follows what
    a check settles for a task to its record: the start, the flush or the execution it
    read stays what it was, though the claim the check holds is old
    (`EvidenceMoves`, `TaskCauseStays`); a claim tells of a failed start only if the
    start has failed (`ClaimsTruthful`).
  * `RecordsAgreeHolds`, unconditionally. `SummaryOK`: before a call fails a run has
    neither record, or one a release wrote, or both and they agree, or the check that
    wrote the first of them is about to write the second from the same statuses.
  * `RecordedRunsHaveEnded`, if no timeout passes while the run is still being
    dispatched (`~SlowDispatch`); force and force-release are allowed. A task that
    is `Over` stays so; a claim, stored or listed, is empty or tells what the starts
    came to (`ClaimsTruthful`); a dispatched run has replaced its empty claim, and no
    listing holds that one past the deadline (`NamesKept`). A check therefore settles
    a task without a name only if its dispatch has failed (`CheckOver`).
  * `RunsDoNotOverlap`, under the hypotheses of `RunsAreNotLost` and of
    `RecordedRunsHaveEnded`, from the two: of two dispatched runs of a slot one holds
    no claim, so it has been recorded, so it has ended. The hypothesis on timeouts
    is one about the configuration: the code does not enforce it.
  * `ClaimsChangeHandsByForce`: only requests with force reach an overwrite.
  * `IntentsOutliveClaims`: intents, requests, listings and checks are about runs
    that have had a claim (`PastOK`), such a run never gets one again
    (`ClaimedOnce`), and who is about to delete an intent saw it gone (`GoneOK`).
* `TriggerProofs!NothingIsSkipped`: `CronSpec => []NoneSkipped`. Strengthened by what
  a tick holds in memory: a job still to be evaluated has the stored time, an
  evaluated one a time up to which nothing is missing (`MemoryOK`).
* `TriggerProofs!NoOccurrenceTwice`: `CronSpec => []OnceWithoutFaults`. `OnceInv`
  says of the histories without a fault that an occurrence with a run lies
  before the time that counts for its job: the one in memory if the job has been
  evaluated in this tick, else the stored one.
* `HighWaterMarkProofs`: `NothingSkippedHolds`, `MarkIsFoundedHolds` and
  `MarkNeverReturnsHolds`, for any runs, lengths of the windows and of the day, and any
  lag the look-back allows for (`WindowAssumption`: `MaxLag <= Lookback + 1`).
  `NothingSkipped` speaks of the mark only. `Inv` adds what a run knows of its window
  before it sets the mark: whatever lies before its cursor is read, accounted for by
  others, or so young that the look-back of the next window finds it (`WindowOK`).
  For `MarkNeverReturns` it adds that a run which is alone (`AloneOK`) reads the record
  at the mark again, or later ones only (`AheadOK`). A backfill
  that is about to upload accounts for nothing, because nobody notes what it had read.
* `PoolProofs`: `LandedOnceHolds` and `ResultIsTrueHolds`, for any chunks, inputs,
  records, attempts and thresholds. In `PoolInv` an input waits, is being fetched, or
  is done with as landed, skipped or failed, and each case fixes what its file holds
  and what the result of its chunk says of it. An attempt in progress has written what
  it does not hold back; each earlier attempt, without auto-flush only a torn one, has
  left at most the records of the input (`FetchedOK`), and a throw anywhere keeps
  that (`ThrowLands`). What is left of the input a chunk threw at is bounded the same
  way (`Landed`), though no result speaks of it. A collected chunk
  has passed its result on as it is, and one that threw only its error.
* `PoolProofs!PoolIsAStage`: a pool stage implements `StageResult`, the step
  `ModuleRun` makes of it (`outcome` is the status and whether a chunk file has
  lines, once the stage has ended). A `partial` stage has left chunks because
  something was read by a chunk that returned; the files stand afterwards because
  every chunk is collected, and a collected one has come to its end. What is
  proved of `ModuleRun` for any outcomes thus holds of the stages of that pool.
* `ModuleRunProofs`: `TaskIsToldHolds`, `CleanTaskIsCompleteHolds` and
  `ManifestsStandHolds`, for any task, tree of stages, requested entities and
  outcomes. `PlanAssumption` is what discovery and `$executionOrder` see to: a
  stage runs once, after its parent and in the same module; an entity belongs to
  one module, and two of its stages land in different folders. Without the last two
  one manifest would overwrite another. `TaskInv` ties the position of the loop to
  the books: the groups are those of the stages the loop is done with, an ancestor
  is entered before its descendants (`LoopOK`, `GroupsOK`); each key of an earlier
  module has its manifest or is `unwritten` (`TriedOK`); rollup and flags are the
  worst of what was entered.
* `MedallionProofs`: `NewestKeptHolds`, `LogIsCompleteHolds`, `LastModifiedWinsHolds`
  and `MedallionTypeOK`, for every set of tables, tenants and files and every number of
  files and refreshes. `MedallionInv` adds to the first two that files and batches are
  numbered (`Clocks`). The lemma behind it is `MergeLatest`: the newest of each
  key among the kept rows and a batch is the newest among all that was ever
  applied, so that cutting the stream into micro-batches does not matter.
* `MedallionProofs!SilverIsAViewHolds`: a silver table implements `SilverView` (`applied`
  is what silver has read and staged). Landing files and bronze micro-batches are
  stutters, for bronze gives them ingest times silver has not read; a micro-batch of
  silver applies exactly its own rows, and what it keeps comes from the table or
  from itself. That the rows are right afterwards is `MedallionInv`.
* `MedallionProofs!ReadOnceHolds`: no landing file has two readers, for the tables of
  `pl_bronze.py` as they are and for whatever lands. A file a table reads lies in the
  sub folder the table declares, the root for a root table (`Reads`); a root table is
  told by its folder, every other one by any of its folders with its sub folder
  (`Told`, group by group of the notebook).
* `MedallionProofs!OneRowPerObjectHolds`, for every table of `SilverTables`. Rows of
  different keys are one per key by `NewestKept`; what is left is that objects with
  the same key columns have the same key, and that a tenant keeps them apart. For
  joined keys that is a statement about `concat_ws`, which skips `NULL`s: the
  columns of an object that has them all are the columns joined (`JoinedValues`).
  That this recursive function exists is proved too (`JoinExists`).
* `TriggerProofs`: `PassIsFreshHolds` and `RefreshTypeOK`, for any number of pipelines,
  polls and updates. `RefreshInv` adds that every layer below the one a pass has
  come to reflects what it was asked for (`Called`), and that the update it polls
  began from there and, if completed, has brought its layer there (`OwnUpdate`).
* `MappingProofs`: `PersonOnceHolds`, `MapAndPeopleAgreeHolds`, `NobodyLostHolds` and
  `UnmatchedIsACountHolds`, for all users, ids and addresses; `MappingAssumption`
  wants finitely many source users, for they are counted, and an organization.
  `MappingInv`: an approved candidate is the only one of its source and of its
  target in its context, also in candidates that are older than the users
  (`CandidatesOK`), and names a source user that silver knows, since no row is ever
  deleted (`SourcesKnown`); a gold table that is current is what its query makes of the
  tables it reads (`GoldOfSilver`). The approved candidate is then rank 1, whatever the
  ties. That unmatched users are the difference of two counts is then a fact about the
  cardinality of the sources of the approved candidates.
* `SitesProofs`: `SettledReferencesHolds`, `PrimarySiteRefersBackHolds`,
  `OneRowPerDataSetHolds`, `DerivedCountsAgreeHolds` and `OrganizationsAddUpHolds`, for
  every tenant with finitely many groups, owners and organizations (they are counted) and every
  shape of its sites. `SitesInv`: an address has one row of silver, which has the
  details of its site or none (`RowsOK`); each of the three gold tables, while
  current, is its query over silver. The rest is about the queries: a site that is
  not personal is the channel of a team, the site of a group or standalone once its
  details are known, and `shared_data_sets` has a row for each of the three; the
  shares of organizations add up because the counts of a row are over disjoint sets of
  the owners it has in scope. That families agree on their counts (`FamiliesAgree`, a part of
  `DerivedCountsAgree`) does not need settled tables.

Every safety property and every action property that a run checks is stated by a
theorem. Only model-checked:

* Liveness (`ClaimReleased`, `IntentResolved`, `HistoryCompletes`, `DueIsDispatched`,
  `LandedIsApplied`, `StageEnds`, `PassEnds`): fairness and ENABLED are out of
  TLAPS' reach. These properties rest on the instances and on the fairness stated above.
* What recursive functions compute is proved only where a theorem needs it (`ConcatWs`,
  the ancestors of a stage, the sum over organizations), by a least counterexample or
  from the least set that solves their equation, as no induction schema is usable.

Conversely `PoolIsAStage`, the theorems about peaceful slots, and `NewestKeptHolds` and
`LogIsCompleteHolds`, which `SilverIsAView` contains, are proved and belong to no run.

## Not modelled

* Readers and UI views: they read only and keep no state. Manual run, preview and
  listing endpoints: validation and wording around what is modelled.
* Selectors and configuration: resolution of names, without state.
* The job runtime beyond its module loop, its pool stages and the mark: discovery
  of modules, the resolution of required stages, sibling stages that share one
  pool, throttling delays, progress counters and the loop that flushes them, the
  scope filter, the storage protocol. The audit entities' walk over 24-hour windows (`MgmtApiCommon.psm1`).
* The pool of child processes (`Invoke-StagePoolOutOfProcess` and
  `Invoke-StagePoolBatchOutOfProcess`, `WorkerPool.psm1:1230-1969`), with its parameter
  and result files and the reaping of children. `exo-ingest` runs its pool stages there;
  what is checked and proved of `StagePool` is not claimed for them.
* Connectors and entity modules beyond their landing paths: remote calls and the
  shaping of records.
* Silver: the candidates of groups, contacts and mailboxes follow the scheme of
  the users, with other columns; `organizations` is a projection.
* Gold: the remaining dimensions and facts are projections of one silver table or
  counts of one; they refer to nothing that another table derives by itself.
* The audit pipeline, which is not deployed.
* Credentials, logging, infrastructure, CI.

The reasons are also in `PROJECT.json`, by component.

## What could follow

1. The audit entities' windows, and a mark that is set after the upload, for which
   `NothingSkipped` should hold without `dropped`.
2. `RecordsAgree` across failed calls: which records of a run can disagree once a
   write was repeated, and how far.
