# Verification of the universal race calendar

This directory holds TLA+ models of the race calendar's backend, the TLC
configurations that check them on small instances, and TLAPS proofs that hold
for every value of the constants.

## 1. Inventory of the system

The system collects race events and results from three sources (TicketSports,
CorridasBR, OpenResults), reconciles them into one catalogue in PostgreSQL and
serves them through an API and a static site. Everything that runs for long is
a row of `CollectionTask`; the API, two kinds of executors and several
coordinators meet only in the database.

| Component | State it keeps | Operations | Hard behaviour | What makes it correct |
|---|---|---|---|---|
| Task queue (`tasks.ts`, SQL functions `claim_selected_task`, `heartbeat_task`, `finish_task`, `defer_*`) | `CollectionTask`, `SourceSlot` | enqueue, claim with recovery, heartbeat, finish, defer, hold, cancel | executors race, die and come back late; leases expire while statements are on their way | one running task per source and group; only the lease's owner ends it; no row is stranded |
| Fenced writes (`lease.ts`, `worker.py: fenced`) | row lock of the task inside a transaction | begin, lock, commit, publish | a stale executor still writes | nothing commits for an acquisition that was taken over |
| Source gate (`source-requests.ts`, `reserve_source_request`) | `SourceRequestControl` | reserve, block, resume, configure | shared by API and executors, clocks, windows, cooldown | budget and spacing are never exceeded; a closed gate opens only by hand |
| Queue order (`task_queue_priority`) | `createdAt`, `kind` | order of acquisition | starvation of national sweeps by interactive requests | every task is eventually first |
| Catalogue cycle (`catalog-continuation.ts`, `catalog.ts`, `national-catalog.ts`, `corridas-catalog.ts`, `catalog_sync.py`) | `CatalogSync` | start, step, continue, coordinate, pause, resume | coordinator, API and executor act on one checkpoint; retries; crash between transactions | candidates are neither lost nor counted twice; one step at a time; the cycle ends |
| Result checkpoints (`result-checkpoints.ts`, `result_checkpoints.py`) | `ResultCheckpoint`, parts | open, store page, publish, invalidate, retry, clean up | resume by another task, expiry, invalidation | only the root's active task writes; the published set is complete |
| Capacity (`capacity.ts`, `check_catalog_capacity`) | `CatalogCapacity`, `CapacityReservation` | configure, measure, reserve, resume | reservations of concurrent writers, expiry | storage budget respected |
| Catalogue reconciliation (`catalog-reconciliation.ts`) | `CatalogReconciliation` | scan pages, pause, resume, cancel | cursor over a changing table | scans never overlap; one that is over is confirmed by its task |
| Edition store (`packages/database/src/index.ts`) | `Event` and its children, `EventSourceReference`, `Source`, `RawSourceExtraction` | save an edition, merge a page of another source, write its reference, record the hash of a check | reads outside the transactions that write; leases that end between them | a page has one edition; what administrators decided and what is known stands |
| Event reconciliation (`event-reconciliation.ts`) | `Event`, references, aliases | preview, unify, on request or by the scan | chains of unifications, imports in flight | no reference is lost, aliases end at a live event |
| Weekly catalogue (`catalog-weekly.ts`, `catalog-weekly-clock.ts`) | `CatalogWeeklySchedule`, occurrences | schedule, start, advance, cancel | several coordinators, clock zones | one active occurrence; success claims only what was done |
| National campaign (`catalog-campaign.ts`) | `CatalogCampaign` | start, advance, pause, resume, cancel | pause racing inserts | a paused campaign starts nothing; a cancelled one stays quiet |
| Exports (`worker.py: export`, `selection_export.py`, storage) | `ExportArtifact` | request, write, expire, clean up | storage and database are two systems | no artefact outlives its object |
| Worker presence (`presence.ts`) | `WorkerPresence` | announce | stale rows | - |
| Batch limits (`batch.ts`, `batch.py`) | process-local counters | limits of a batch run | - | - |
| Publication policy (`publication-policy.ts`), edition evidence | - (pure) | decide | - | nothing outside Brazil is published |
| Collectors (`packages/scraper`, `packages/sources`, Python parsers) | - | HTTP, parsing | SSRF rules, retries | - |
| Curation and imports (`packages/curation`, `packages/ai`) | `ImportRun` and candidates, extraction jobs, hashes of sources | import a calendar, run an import over candidates, check a source, curate again | bodies that outlive their lease, checks cut off between statements, two tasks at one page | a run ends whole; a recorded hash stands for saved content |
| API (`apps/api`), contracts, auth | - | routes | - | authorisation |
| Stand-alone results service (`apps/openresults-worker/app`) | SQLite jobs | jobs, exports, recovery | restart, queue limit | no page is passed over; a completed event is whole |
| Site, deployment scripts, schemas, utilities | - | - | - | - |

Interactions: API and coordinators insert task rows; executors poll the claim
function; every executor write goes through a fenced transaction on its task
row; the coordinators read the last task of a cycle and the gate to decide on a
successor. The advisory lock `race-task-acquisition` orders acquisition, holds,
source and capacity administration and the coordinators; row locks order the
rest.

## 2. Plan

| Step | Modules | State |
|---|---|---|
| 1 | `TaskQueue` (core), its abstract specification `TaskOwnership`, proofs | modelled, checked, proved |
| 2 | `CatalogSync`: the cycle of steps over one checkpoint; abstract walk `CatalogWalk`; proofs | modelled, checked, proved |
| 3 | `SourceGate`: budget, spacing, cooldown and the clock; proofs | modelled, checked, proved |
| 4 | `ResultCheckpoint`: resumable extraction, atomic publication, retries, retention | modelled, checked, proved |
| 5 | `StandaloneExtraction`: a results job of the stand-alone service, page by page, restarted and resumed; proofs | modelled, checked, proved |
| 6 | `NationalCycle`: campaigns and weekly occurrences with their syncs, enrichments and scans; proofs | modelled, checked, proved |
| 7 | `Editions`: import, review, registration and unification of editions, on request and by the scan; proofs | modelled, checked, proved |
| 8 | `SourceImport`: imports, candidates, checks and curation over many statements; proofs | modelled, checked, proved |
| 9 | `EditionRegistry`: what `Editions` promises of names and pages; refinement | modelled, checked, proved |
| 10 | the schedule of the weekly occurrences, exports with the reservations of capacity, order of the queue | open |

The modules are composed by their interfaces: steps 2, 4, 6, 7 and 8 take from
`TaskQueue` what it proves (tasks of one source run one at a time, a fenced
transaction commits only for the owner of a running task) and model the rows
of their own in detail. The abstract specifications are `TaskOwnership` for the
queue, `CatalogWalk` for the cycle and `EditionRegistry` for the names of
editions; what a checkpoint promises outwards is the action property
`OnlyCompleteSets`. `NationalCycle` takes a discovery step from
`CatalogSync` as one that ends in some way, and `SourceImport` leaves to
`Editions` which edition a page belongs to.

## 3. Modules

In every module an action is one database transaction (or one statement sent
outside a transaction), named after the function or route it stands for; the
map in `PROJECT.json` gives the lines. Definitions whose name ends in `Mutant`
are the definition below them with a plausible bug. They are used by nothing in
the models; a property is trusted only because TLC refutes it when such a
definition takes the place of the original.

### TaskQueue, TaskOwnership

State: the columns of `CollectionTask` that control flow reads (`status`,
`attempt`, `maxAttempts`, `leaseToken`, lease live or expired, due or not, hold
and its reason); for each executor the place of its main flow (`pc`, `job`,
`token`, `verdict`); heartbeat statements on their way (`beats`); fenced
transactions in progress (`txns`, begun or holding the row lock); the hold
request between its read and its write (`admin`); the closed gates (`blocked`).

| Actions | Code |
|---|---|
| `Enqueue`, `Cancel`, `HoldRead`, `HoldWrite` | `enqueueTask`, the routes `/cancel` and `/hold` |
| `Reclaim`, `Claim` | `claim_selected_task`: recovery of expired rows and acquisition in one transaction |
| `HeartbeatSend`, `HeartbeatRenews`, `HeartbeatFails` | the timer of `runQueue`, the heartbeat coroutine of `worker.py` |
| `FenceBegin`, `FenceLock`, `FenceRefused`, `FenceCommit`, `FencePublish` | `assertTaskLease`, `fenced`, and publication that finishes the task inside |
| `BodyEnds`, `CheckRefused`, `Denied`, `NotRetryable`, `BlockSource`, `GiveUp`, `Finish`, `Defer` | the ways a job ends: `finish_task`, `defer_source_task`, `defer_capacity_task`, `defer_local_resource_task`, `block_source_requests` |
| `ResumeSource`, `ResumeCapacity` | the administrator's resumptions |
| `LeaseExpires`, `BecomesDue`, `Crash`, `Restart` | time and processes |

Abstractions. `leaseUntil` and `availableAt` are only ever compared with
`now()`, so a lease is live or expired and a row due or not. A lease token is a
UUID: any value nothing refers to any more. Which claimable row is preferred is
left open, and `SKIP LOCKED` is a subset of the wanted source slots. An executor
has at most one fenced transaction per token (its jobs are sequential). The two
calls that close a gate for one refusal are one. A hold with a free reason is
`"admin"`. Selection lists of pilot runs and the campaign guard of the
acquisition are left out here; the guard is in `NationalCycle`.

`TaskOwnership` forgets leases, clocks and executors: tasks wait, are owned or
are done, owners change only while nobody writes, and only the owner writes.

### CatalogSync, CatalogWalk

State: the row of `CatalogSync` (`status`, `pauseRequested`, `autoContinue`,
`coverage` as far as it says "not advancing", `checkpoint`), the candidates
already stored (`known`), the `catalog-sync` tasks of the cycle (`steps`,
`latest`), the gate (`blocked`) and what each executor's body has read (`body`).

| Actions | Code |
|---|---|
| `ContinueSync`, `RetryStep`, `PauseSync`, `ResumeSync`, `CancelCycle`, `CancelStep`, `HoldStep`, `ReleaseStep` | routes of `operations.ts` and `backend.ts` |
| `CoordinatePause`, `CoordinateFailure`, `CoordinateStall`, `CoordinateSuccessor` | the branches of `coordinateCatalogSyncs` |
| `ReadSync`, `Discover`, `ProcessCandidate`, `ConcludeBatch`, `FinishStep`, `FailStep` | `catalogSync` (`apps/worker/src/catalog.ts`) and the end of a task in `runQueue` |
| `Claim`, `Recover`, `Crash`, `BlockSource`, `ResumeSource` | the queue and the gate, as far as the cycle sees them |

The body keeps the copy of the row it read (`seen`) through all its
transactions, as the code does; that is the hazard of this component.
Abstractions: `checkpointHash` is the checkpoint itself; a replay of a request
under its key is a stutter; holds of capacity and of campaigns, receipts and the
national variants' way to extend a listing are left out; which attempt is a
step's last is open.

`CatalogWalk` is what the cycle promises about candidates: each listing in
order, each candidate once, complete only at the end.

### SourceGate

State: the row of `SourceRequestControl`, one clock in ticks with `hourStart` as
`date_trunc('hour', now)`, what each client is doing, and three history
variables that no guard reads: every attempt allowed so far with the limits then in force
(`grants`), the deadline of the refusal that closed the gate (`closedUntil`) and
the latest one announced since (`announcedUntil`). `Reserve` is
`reserve_source_request`, `Observe` and `Fail` the two reports of a refusal
through `block_source_requests`, `Resume` and `Configure` the two sides of
`mutateSourceControl`. A null deadline is 0. Skew between machines is not
modelled.

### ResultCheckpoint

State, by root task: the row of `ResultCheckpoint` (`root`, `active`, `expired`,
`manifest`), its groups (`next`, `total`, `done`) and rows (`rows`); the tasks of
the edition (`status`, `owner`, `rootOf`); the published set; what the source
lists and whether that changed since the checkpoint was opened (`moved`, a
history variable no guard reads); whether the edition's reference, date and
place still fit (`associated`); and each executor's body.

| Actions | Code |
|---|---|
| `Enqueue`, `Resume`, `Cancel` | requests and the retry route with mode restart or resume (`reserveResultCheckpoint`) |
| `Ready`, `Start`, `OpenGroup`, `SavePage`, `Finish`, `Publish`, `Invalidate` | the methods of `ResultCheckpoints`, each one transaction |
| `Discover`, `Fetch`, `Refuse`, `FailForGood`, `BodyFails` | `scrape`, `parse_result_page` and the exception handlers of `execute` |
| `Claim`, `LeaseLapses`, `Recover`, `Crash` | the queue |
| `Expire`, `CleanUp`, `ListingMoves`, `AssociationChanges` | retention, the source, administrators |

Abstractions: one edition; a group lists records, a page is a segment of them;
a total is a set with at most one number; `"failed"` stands for partial too.
`save_page` looks for a receipt of the page before anything else: a body that
still owns its task never meets one (`BodySeesItsCursor`), so receipts are not
modelled. Left out: the page limit, the total of the whole edition, the DOM
fallback, deletion of task history and the order of row locks.

### StandaloneExtraction

State: the rows of SQLite (`job`, `event`, `group`, `rows`), the record in
memory (`memory`), and the local state of every coroutine: a run of the job
(`run`) and its concurrent fetches of groups (`fetch`).

| Actions | Code |
|---|---|
| `ReadJob`, `Resume` | `resume_job`: the row is read before an await, checked and overwritten after it |
| `Begin`, `Select`, `StartEvent`, `SkipEvent`, `EventFails`, `JudgeEvent`, `MarkEvent`, `Report`, `Finish`, `Fail` | `_run_results_job`, `_finish_persistent`, `_fail_persistent` |
| `Scrape`, `ScrapePage`, `Gather`, `MarkPartial`, `ReportGroup` | `scrape_to_storage` |
| `ReadGroup`, `OpenGroup`, `InsertPage`, `ConfirmPage`, `EmptyPage`, `FetchFails` | `_fetch_group_persistent` |
| `Restart` | the end of the process and `storage.start` |

A step runs from one `await` to the next: the connection executes the calls in
their order. A page stands for its athletes. `extracted` and its `noise` follow
the count by `total_changes`, which a write of another coroutine falsifies. A
group one run marks partial after another has completed it is resumed behind its
last page, where the source has no athletes left (`EmptyPage`).

### NationalCycle

State: campaigns and occurrences (`cycle`), their syncs (`sync`), their scan
(`scan`), the last task of each kind with its hold (`task`), an enrichment a
step has inserted and not committed (`inflight`), a scan of nobody's cycle
(`other`).

| Actions | Code |
|---|---|
| `StartCampaign`, `StartOccurrence` | `startCatalogCampaign`, `coordinateWeeklyCatalog` |
| `ObserveDiscovery`, `ObserveEnrichment`, `StartScan`, `ScanRefused`, `ObserveScan`, `Conclude` | `observeCatalogCycle` and what its two callers do with the answer |
| `PauseCampaign`, `ResumeCampaign`, `CancelCampaign`, `CancelOccurrence` | `controlCatalogCampaign`, `cancelWeeklyOccurrence` |
| `PauseSync`, `ResumeSync`, `PauseScan`, `ResumeScan`, `CancelOneScan`, `CancelTask`, `HoldTask`, `ReleaseTask`, `RetryTask` | the controls of one sync, scan or task |
| `CoordinateSync`, `CoordinateScan` | the coordinators of syncs and of scans |
| `Claim`, `InsertEnrichment`, `CommitEnrichment`, `EndDiscovery`, `AdvanceScan`, `EndTask`, `Lapse` | executors, with the campaign's guards of insertion and acquisition |

One latest step and one latest enrichment stand for the tasks of a source. When
an occurrence is due is left open.

### Editions, EditionRegistry

State: editions with identity, publication, one observed field and what
administrators decided (`event`), the aliases of deleted ones (`alias`),
references of pages (`reference`), what each importer has read (`proc`) and
whose task is running (`lease`).

| Actions | Code |
|---|---|
| `Begin`, `Lookup`, `Match`, `ReadExisting`, `MergePage`, `UpdateEdition`, `CreateEdition`, `WriteReference`, `FailImport` | `saveCanonicalEvent` and what it calls, one action per transaction or read |
| `LoseLease` | the recovery of the task under a process that goes on |
| `ReviewEvent`, `SetPublication`, `Register` | the administrator's routes |
| `UnifyRequest`, `ScanUnify` | `applyReconciliation` on request and through `reconcileCatalogGroup` |

The scan reads a group in the transaction that unifies it, so it is one action;
it may meet any pair of editions at any time. Whether two pages show one edition
is the relation `Links` with agreement of the other evidence left open.

`EditionRegistry` is what the tables promise outwards: identifiers are created
once, each leads to an edition for ever after, editions are only united, with all
the names and pages of both, and a page is attached once. The mapping reads an
identifier as the code does, the edition it is or else the alias of it (`Leads`),
and a page through its reference. Importers, leases and decisions are invisible
there.

### SourceImport

State: the version every page shows (`page`), `Source` rows (`source`), the
latest extraction (`raw`), the version an edition was saved from and all it was
ever saved from (`edition`, `saved`), import runs with their candidates
(`run`), tasks (`task`) and the local state of every body (`body`), which may
outlive its lease.

| Actions | Code |
|---|---|
| `Request`, `Claim`, `Lapse`, `Die`, `Finish`, `Defer`, `Refused` | routes and `runQueue` for five kinds of task |
| `CreateRun`, `TellRun`, `OpenBatch`, `MarkProcessing`, `Simulate`, `SettleCandidate`, `CountPending`, `CountEnded`, `CloseBatch`, `ReadRun` | `createCatalogImportRun`, `processCatalogImportRun` |
| `ListPages`, `EndBatch` | `importTicketSportsEvents`, `importCorridasBREvents` |
| `FindSource`, `RegisterSource`, `RegisterFails`, `ReadSource`, `Fetch`, `CheckFails`, `Unchanged`, `SaveRaw`, `SaveRefused`, `SkipAbroad`, `SaveEdition`, `MarkSource` | `upsertSourceByAdapterExternalId`, `runSourceCheck` |
| `Recall` | `runAICurationBatch` over the latest extraction |
| `ChangePage` | the source |

One action is one statement or fenced transaction. A version of a page stands
for its content, its hash and what curation makes of it. Which statements are
fenced is taken from the code: sources, extractions and editions are, candidates,
runs and the hash are not.

## 4. Runs

| Run | Instance | What it shows |
|---|---|---|
| `calendar_queue` | 2 tasks of two sources of the shared group, 2 TypeScript executors, 2 tokens, 2 attempts | exclusion, fencing, administrators' holds and lease ends under all interleavings |
| `results_queue` | 1 task, a Python executor and a TypeScript one, 2 tokens, fair | threads that outlive their job: the queue implements `TaskOwnership`; acquisitions end, queued tasks move |
| `catalog_cycle` | 1 page, 2 candidates, batches of 1, 2 executors, 2 steps by request | one active step, a completed batch can be followed, standing still; the cycle implements `CatalogWalk` |
| `catalog_liveness` | 2 pages, 1 executor, fair | an automatic cycle never rests, but for the case of section 6; a pause takes effect |
| `source_budget` | 2 clients, hours of 3 ticks over 3 windows, two limits and two delays | budget, spacing, first deadline |
| `checkpoint_retries` | 3 tasks, 1 executor, 2 pages, announced totals | one user per checkpoint, rows equal to cursors, confirmed pages stay |
| `checkpoint_handover` | 1 task, 2 executors, 2 groups, 2 listings, with and without announced totals, fair | complete sets, expired rows go |
| `standalone_extraction` | 1 event of two groups of 2 pages and 1, its first run and 3 resumptions of which 2 may overlap, 1 restart | no page is passed over, a completed event is whole |
| `national_cycle` | 1 campaign, 1 occurrence, 1 source, 2 requests | success is whole, cancelled cycles stay quiet, one of each |
| `editions` | pages of three sources, two of them linked, 2 editions, 2 importers, 1 lapse, 1 request | decisions and known values stand, a page has one edition; the tables implement `EditionRegistry` |
| `imports` | 2 bodies, an import run over 2 pages and a task of any other kind, batches of 1, a page that changes and one of another country, 1 lapse | runs end whole, recorded hashes were saved |
| `resume_leaves_hold` | as `national_cycle` | a divergence of section 6 |

Why the bounds are enough. Every exclusion property relates two actors or two
tasks, so two of each reach it; competing resumptions of one checkpoint need
three tasks (one that failed, two that want it). Tokens: one per acquisition
that something may still refer to, the current one and a stale one. Two attempts
distinguish "has one left" from "was the last". `MaxBeats` bounds heartbeats
under way at once; late ones change nothing but a lease. `MaxSteps` stops
requests, not the coordinator; the coordinator's steps are bounded by
themselves because each needs a checkpoint no automatic step had. Two requests do
not reach the one way in which a cycle can be stranded (section 6): it takes four, which
is too many for a run with liveness. `NeverRests` therefore names it as its
exception, and the theorems `BatchFollowed` and `StrandedByRepeat` say for any
number of steps that there is no other. Three windows
let a window be skipped. In `standalone_extraction` two resumptions overlap, one
completes a group the other then marks partial, and a third, asked for when both
have ended (`MaxOverlapping`), resumes it behind its last page; each may find
what a restart left. In `national_cycle` two requests fit any request between a
first one and its effect; the sources of a cycle do not interact except through
the conditions over all of them. Two editions are
what a unification needs, and a unification leaves an identifier behind that
every later step may still use; a chain of two would need a third edition, and
the refinement of `EditionRegistry` with it is proved. In `imports` two bodies are an
attempt and the one before it, or two tasks of different queues at one page;
batches of one page make every page a boundary.

`CHECK_DEADLOCK` is off in `standalone_extraction`, `national_cycle` and
`imports`, whose jobs, cycles and tasks are finite in number and come to their
ends; it is on in the other passing runs.

### Fairness

- `TaskQueue`: a body ends because of its 1800 second deadline and statements
  already sent are executed (strong fairness of the main flow: other steps may
  interrupt it, the deadline does not go away). Executors poll, so a claim or a recovery that is
  possible again and again happens; the advisory lock is granted in order. A
  supervisor restarts executors. Crashes end, for an executor that dies in every
  acquisition for ever finishes nothing. Nothing is assumed of requests,
  administrators or heartbeats.
- `CatalogSync`: bodies go on; the coordinator runs between the tasks of every
  calendar executor, at least every few seconds; queued steps are claimed;
  orphans are recovered. The last two are what `results_queue` checks.
- `ResultCheckpoint`: bodies go on; leases nobody renews lapse; clean-up is
  strongly fair because an executor cleans up between its own tasks, at times
  when none of its tasks runs.
- The others: none; they have no liveness property.

## 5. Proofs

`tlapm` proves, for every value of the constants (under the `ASSUME`s of the
modules, which the runs evaluate):

- `TaskQueueProofs`: type correctness, `ExclusionPerSource`, `FencedByOwner`,
  `ExclusiveWrites`, `RunningNeverHeld`, `QueuedHasAttempts`, the action
  properties, and others listed under "theorems". The invariant adds to them
  what their steps rest on: an executor has a task and a token exactly while it
  works (`FlowOK`), a row has a token exactly while it runs (`RowOK`), a row has
  one lock (`OneRowLock`), the hold request found its row queued and keeps the
  acquisition lock (`HoldRequestOK`). Without the last, a hold could land on a
  row that was claimed in between. From the same invariant, every step of the
  queue is a step of `TaskOwnership` or a stutter under the mapping of `Ownership`.
- `CatalogSyncProofs`: `OneActiveStep`, `BodySeesItsRow`, `CursorCoversKnown`,
  `StandsStill`, `EndIsFinal` and the refinement of `CatalogWalk`. The core is
  that the copy of the row a body works on is the row while its executor owns
  the step; it needs one active step per cycle and that nobody leaves "ready"
  under a running step. A second invariant (`JInv`) is about checkpoints: the row's
  lies behind none of the steps' (`HashesReached`), the last step is the newest row
  and no other is active (`NewestLast`), and a batch moves the checkpoint beyond that
  of every step (`BatchAdvanced`). With it a completed batch can always be
  followed (`BatchFollowed`), although the coordinator's test compares hashes
  and its keys are never released, and a completed step nobody can follow
  is a retry that met a pause (`StrandedByRepeat`).
- `SourceGateProofs`: budget, spacing, usage and cooldown. The counter of the
  row is tied to what it counts (`CountTrue`: it is the number of attempts of the
  hour `windowStart` names) and the clock to its hour.
- `ResultCheckpointProofs`: `OneUserPerCheckpoint`, `BodySeesItsCursor`,
  `RowsFollowCursor`, `ConfirmedPagesStay` and `OnlyCompleteSets`, for any
  tasks, executors, groups, listings and page size. The invariant adds that a
  checkpoint is created by the task it is named after (`RootsOfTasks`), that what
  a body knows about its checkpoint is true while its executor owns the task
  (`BodyTrue`: nobody else changes a checkpoint that a running task uses) and
  that, unless the listing changed, a group holds the beginning of the source's
  list (`RowsListed`); the published set is then the list itself.

- `SourceImportProofs`: `EndedRunIsWhole` and `HashWasSaved` with type
  correctness, for any bodies, tasks, runs and pages. The invariant says for
  each place of a body what of its local state still holds although others wrote
  since: a hash it is about to record was saved from (`KnowsPage`; `saved` only
  grows), candidates it counted as ended are ended (`Counted`; none becomes
  pending again), and what a calendar counts stays within its list
  (`InCalendar`). A step moves one body; `Grows` is what the others need.
  With it, what a run says it has processed is never more than was taken to an end
  (`NeverOverclaims`), although late bodies write counts they took earlier, and a candidate
  is taken to an end once (`TakenOnce`).

- `NationalCycleProofs`: `SuccessIsWhole`, `CancelledStaysQuiet` and `OneOfEach`
  with type correctness, for any campaigns, occurrences and sources. Every step
  but the end of a foreign scan touches the rows of one cycle, so it is
  proved once that what is over stays as it is (`OverIsUntouched`): an enrichment not yet
  committed belongs to a running discovery (`InflightRuns`), a cancelled cycle's
  syncs are ended and closed to requests (`CancelledIsClosed`), and a cycle that succeeded
  has no task that could be claimed, retried or released. Hence also that a cycle
  which succeeded or was cancelled never changes again (`OverForGood`) and that
  only resuming a partial campaign reopens an ended one (`ReopenedByResume`).

- `EditionsProofs`: `NamesResolve`, `DecisionsStand`, `OneEditionPerPage` and
  `KnownStays` with type correctness, the refinement of `EditionRegistry`, and
  that two names which lead to one edition are never led apart (`NamesNeverPart`), for
  any pages, importers and editions. What
  an importer reads in one transaction it uses in a later one; the invariant says
  that what it found out about its page is still so while its task is its own
  (`LeaseSecure`), because a unification is refused while a running task works on
  a page of either edition and registration takes only pages that are not
  imported. Nothing needs to hold of the reads of an importer whose lease is over:
  its writes are refused. The refinement needs in addition that an importer about to
  write a reference finds none there or its own edition's: else it would move a page.

- `StandaloneExtractionProofs`: `RowsCoverCursor` and `CompletedEventWhole` with
  type correctness, for any runs, events, groups, pages and restarts. Rows are
  only added, so what a coroutine saw stored stays stored; the invariant says so of
  every cursor a coroutine holds or will write back from an earlier read
  (`FetchTrue`), and that a group its run has been through has a row or came whole
  with the page of the event (`Touched`), without which an absent group, which
  counts as done, could hide a missing one.

Only model-checked: liveness (`QueuedTaskMoves`, `EveryLeaseEnds`,
`NeverRests`, `PauseTakesEffect`, `ExpiredRowsGo`), which TLAPS does not do under
fairness. Every other property of a passing run is a theorem.

## 6. Known divergences

One is kept as a run that must find a counterexample. `resume_leaves_hold`:
resuming a campaign inserts the successors of its syncs and of its scan before
it clears the pause (`catalog-campaign.ts:262`, `:303`), so the trigger on the
insert holds them, and they stay held when the campaign runs again.

The following are steps of the models which no property forbids.

Queue and gate:

- A heartbeat executed after the finish of its own task looks like a lost lease
  and ends an executor with nothing stale (`apps/worker/src/queue.ts:142`).
- A gate closed without a deadline drops every `Retry-After` that arrives
  afterwards (`20261001000200_source_request_controls/migration.sql:53`).
- `Defer` writes the hold `source_access_blocked` from what the executor had read
  (`defer_source_task`), so a task can stay held for a source an administrator
  has reopened in between; `docs/LOVABLE-INTEGRATION.md:233` reads the hold as a
  block by the source. The next resumption releases it.
- `HoldWrite` updates by id after a check made earlier
  (`apps/api/src/operations.ts:93`), and the cancel route takes no lock: a hold
  may land on a cancelled task, where it has no effect.

Catalogue:

- An automatic cycle can be left ready with nobody to continue it, although "um
  reinício recupera a continuação após um passo já concluído"
  (`docs/NATIONAL-CATALOG.md:47`). A step fails; another moves the checkpoint; the
  coordinator's step at the new checkpoint is cancelled; the failed step is retried
  with the hash it had, meets a pause and completes without advancing, and the cycle is
  resumed before it ends. The last step is then completed with a hash that is not the
  row's, so the coordinator enqueues a successor under the key of the cancelled one
  and gets that row back (`catalog-continuation.ts:73`). If the options of the row
  changed in between, `enqueueTask` finds another request under the key and throws
  (`tasks.ts:45`), out of `coordinateCatalogSyncs` and the loop of the executor
  (`apps/worker/src/queue.ts:117`). `StrandedByRepeat` says that
  it takes such a retry.
- Cancelling a held step leaves the cycle ready with nothing to do
  (`catalog-continuation.ts:49`).
- A resume that meets a step which found the cycle paused makes the coordinator
  end the cycle as not advancing (`catalog-continuation.ts:61`).
- A change of the weekly schedule while an occurrence is overdue sets the next
  date from now, and the overdue week never runs (`catalog-weekly.ts:153`; not
  in a model).

Editions:

- A suspected duplicate is imported a second time: it is found by its own
  reference and compared with nothing, the suspicion is reset and the edition
  published (`database/src/index.ts:269`), although
  `docs/CURATION_PIPELINE.md:82` leaves it to review.
- Unifying a published edition with one whose decided modality is unknown
  publishes the result (`event-reconciliation.ts:292`), which
  `docs/NATIONAL-CATALOG.md` says both publication paths refuse.
- Which collections of an edition a merge fills is decided from a read before
  its transaction (`database/src/index.ts:608`): two merges fill one twice.

Imports:

- Two tasks of different queues check one page at once: the older content may be
  saved last and the newer hash recorded last, and every later check finds the
  page unchanged (`curation/src/index.ts:213`). `HashWasSaved` is what remains
  true.
- A body whose lease is over goes on to mark candidates of the run as failed,
  because its saves are refused and the marks are not fenced
  (`curation/src/index.ts:831`).
- Such a body also closes its batch with counts it took before another attempt ended the
  run: the run goes back from "success" to "ready", with a smaller count, and no
  task continues it (`curation/src/index.ts:838`).
- A deferred or blocked batch leaves its run "processing", and what the batch had
  counted as published or in review is not added (`curation/src/index.ts:828`).
- A lease that ends between the creation of a run and the heartbeat that reports
  it leaves a run no task continues (`apps/worker/src/queue.ts:182`).

Stand-alone service:

- A job that was accepted and had not yet reported progress stays "queued" after
  a restart and cannot be resumed (`app/storage.py:183`).
- The number of athletes of a group is counted as a difference of
  `total_changes` (`app/storage.py:735`), which writes of concurrent groups
  falsify; it only leads to a warning.

## 7. Not modelled

`PROJECT.json` lists each component with the reason. Parsing and the rules of
curation appear as what they decide; their text has no state. Authorisation,
reading routes, the site and the deployment scripts change no state of the
models. Presence rows and batch counters decide nothing in the database. The
order of the queue is left open in `TaskQueue`, so that its safety holds for
every order; capacity appears as deferrals that may come at any time. The dates
of the weekly schedule, the cursor of the scan over the catalogue and the exports
are open (section 2).
