# Veridical in TLA+

Veridical checks student manuscripts against a required format: an instructor
uploads a manuscript, requests a *check run*, and worker tasks drive the run
through its stages (ingestion, structural rules, semantic grading by a language
model, integrity checks, aggregation) to a readiness report on which the
instructor decides. The backend (`src/backend/app`) is an asyncio program over
PostgreSQL. Several processes may run the same workers, two of them whenever a
deployment overlaps; the database rows are all they share. This directory
holds TLA+ modules of the parts whose correctness depends on the order in which
those processes, requests, crashes and time-outs take effect, with
configurations for TLC and proofs for TLAPS.

## Inventory

| Component | State it keeps | Operations | What is hard | What makes it correct |
|---|---|---|---|---|
| Execution slot (`pipeline/coordination.py`, `lease.py`, `guards.py`, `worker.py`) | `check_run.claimed_at`, one advisory lock; in memory the lease of a driver and a wake-up event | `admit_next`, `fair_candidates`, `release_claim`, `_withdraw_unconfirmed_claim`, `ClaimLease._renew`, `checkpoint`, `worker_loop` | outcomes of timed-out commits are unknown; claims expire; wake-ups are lost; processes die | one driver at a time believes it may work, its row carries its claim, and instructors take turns |
| Check runs (`pipeline/machine.py`, `service.py`) | `check_run`, `check_result`, `readiness_report`, routing plan | `create_check_run`, `cancel_check_run`, the stages, the exceptional exits | cancellation races every step; a stage is resumed half-way; several commits per step | order of stages, final states, no result twice, no report after cancellation |
| Report and decisions (`report/assessment.py`, `service.py`, `judgments.py`, `scoring.py`, `flags/service.py`, `checks/escalation.py`) | revision of the report, judgments, flags, decision, audit log | judge, revise, dismiss, confirm, clear a source, decide, reopen, score | concurrent pages, reads of several statements, lost acknowledgments | no change over an assessment its author did not see; the verdict is that of the rows; scoring is fair |
| Exports (`report/export_jobs.py`, `router.py`) | one in-memory job, its file, leases of downloads | prepare, watch, download, expire, shut down, restart | a job outlived by another; content read in several transactions | a document says one state of its report, and its file is there as long as it is needed |
| LLM queue (`llm/queue.py`, `__init__.py`, `resolution.py`, `rate_governor.py`) | daily budget rows, in-memory locks, caches, windows | `complete`, reserve, send, retry, close a key | budgets across processes, midnight, cancellation in any await | identical calls are paid once, no budget is exceeded, a call ends for a reason |
| Ingestion (`ingest/direct_upload.py`, `upload_worker.py`, `service.py`, `admission.py`) | upload attempts with leases, manuscripts, memory slots | begin, transfer, complete, claim, prepare, retire, clean up | leases that run out under a live worker; cancelled owners of running threads | an attempt is answered once and truly; a slot is taken exactly while its work lasts |
| Library and archive (`library/service.py`, `archive/service.py`, `maintenance/library_duplicates.py`) | entries, comparison rows, files | submit, add, remove, purge, clean up, withdraw | rows and files shared by requests in several transactions each | the comparison rows are those of the active entries; one live copy; what a check or an entry relies on stays |
| Required formats (`rubric/service.py`, `annotate.py`) | versions, criteria, issues, the active flag, pins of checks | upload, save, confirm, activate, delete, set program | locks taken row by row; decisions before the write | what a check uses is not edited, one version is active |
| Share links (`share/service.py`) | links with revocation and expiry | create, revoke, read | statement snapshots, updates that wait | one active link, and a link that is off shows nothing |
| Limits (`ratelimit.py`, `auth/`) | windows, sessions | - | - | access control, not modelled |
| Checks, parsing, external clients, audit, dashboard, frontend | rows of one owner, or none | data transformations and I/O | little interleaving | outside these models |

The components interact through rows. A request creates a run; workers find it
by admission; the run reads the manuscript and the version of the format it is
pinned to and, through the LLM queue, the quota; its archive rows are shared
with other runs of the same manuscript and with the Library; reports,
decisions, links and exports start where the run ends with `done`.

The hazards the code is exposed to, each with its line and the properties
that watch it, are listed in `PROJECT.json`.

## Modules

| Module | Models | Proofs |
|---|---|---|
| `ExclusiveSlot` | abstract: what the claim protocol promises | |
| `PipelineClaims` | the claim protocol; implements `ExclusiveSlot` | `PipelineClaims_proofs` |
| `CheckQueue` | whose run is next, the loop of a process and its wake-ups | `PipelineClaims_proofs` |
| `RunTurns` | instances side by side: `CheckQueue`, and `CheckRunPipeline` with claims that may expire under live drivers | `PipelineClaims_proofs` |
| `CheckRunLifecycle` | abstract: what the pipeline promises of a run's status | |
| `CheckRunPipeline` | the stages of a run, over the slot of `ExclusiveSlot`; implements `CheckRunLifecycle` | `CheckRunPipeline_proofs` |
| `AssessmentRevisions` | changes of a finished assessment from several pages | `AssessmentRevisions_proofs` |
| `ReadinessScoring` | the score and status of an assessment, and how each change moves them | `ReportOutputs_proofs` |
| `ShareLinks` | public links of a report | `ReportOutputs_proofs` |
| `ExportJobs` | prepared documents of a report | `ReportOutputs_proofs` |
| `ReportOutputs` | the score, links and documents, side by side, and what they promise | `ReportOutputs_proofs` |
| `UploadAttempts` | direct uploads and their workers | `UploadAttempts_proofs` |
| `PreparationAdmission` | the memory slots of document preparation | `PreparationAdmission_proofs` |
| `LlmQuota` | the queue of model calls and the budgets of the day | `LlmQuota_proofs` |
| `RateGovernor` | the waits before a request is sent | `LlmQuota_proofs` |
| `ModelCalls` | both, side by side, and what the waits promise | `LlmQuota_proofs` |
| `LibraryArchive` | the Library, the comparison rows and the purge | `StoredRecords_proofs` |
| `RubricVersions` | the versions of a required format | `StoredRecords_proofs` |
| `StoredRecords` | both and `UploadAttempts`, side by side, and what they promise | `StoredRecords_proofs` |
| `MC...` | small instances for TLC | |

### PipelineClaims

A claim is a timestamp in a row; a driver owns it while the row holds a
timestamp the driver wrote that is younger than `Stale`. All writers of a claim
hold the global advisory lock until their transaction ends, so at most one such
transaction is in flight: `tx`. The hard part is that a call may time out after
its commit was sent. `ClaimReply` and `RenewalReply` are commits whose answer
arrives; after `ClaimTimeout`, `ClaimError`, `RenewalDeferred` or a `Crash` the
transaction is orphaned and lands (`Land`) or aborts (`Abort`) whenever it
likes, while it still holds lock and guard. `lease` is the `ClaimLease` object:
token, pending renewal, local expiry, lost flag.

Time is one discrete clock. The program reads two, `clock_timestamp()` of the
database and the loop's monotonic clock, and compares only differences; the
model assumes they run at the same rate. The database clock strictly increases
between writes, so writing a token advances `clock`. `release_claim` takes no
guard but waits for the row, and clears only its own tokens, so that it may
land late without harm and is one step. `FencedCommit` is one step
because guard and row lock are held from its test to its commit.

`Believes(d)` is the condition under which `current_token` hands out a token and
the driver goes on.

### CheckQueue

What `PipelineClaims` leaves open: which candidate a scheduler tries.
`fair_candidates` takes the oldest run of each instructor, and orders those
*heads* by when the instructor last had a turn; runs behind a head are the rest
of the list. `Before` is that order, `Sooner` that of the whole list. `started_at`
is set once, so a resumed run keeps its place. `Look`, `Skip` and `Claim` are
separate steps: the list is read under no lock. A parked run is skipped by its own block, a run whose row a
cancellation has locked is passed over, and a candidate found locked makes the
scheduler come back (`busy`). `Wake` is the return of the wait on `wake_event`:
only a polling loop wakes without it. The requests that wake the loop do so
after their commit (`unsent`). Whether a claim is stale is left to
`PipelineClaims`, and what happens in a turn to `CheckRunPipeline`; here a turn
ends with the run over, parked, waiting again or with the death of its
scheduler. `admit_next` with a requested run, which only tests and a probe
call, is not modelled.

### CheckRunPipeline

The slot is the variable of `ExclusiveSlot`; `Owned(d)` is the test of
`_assert_claim_owner`. Every commit the stage walk makes is a step:
`_transition_after_boundary` alone is three (`Flush`, `Recheck`, `Advance`),
with other sessions between them. What the stages commit on their own
(`Work`, `Degrade`, `Publish`, `Aggregate`) tests no ownership in the code and
none here. The rows of the outage path are added without a commit
(`turn[d].unsaved`) and published by the stage's own commit. `run[r].note`,
`block` and `plan` are the keys of `stage_status` and the routing decisions
that other steps depend on. `stage_status` is written as a whole from the
session's copy, so `Flush` also erases what another session stored there
meanwhile.

A *unit* is what one `check_result` row answers. `QuotaExhausted`,
`AIUnavailable` and `Raise` may happen at any unit. `LoseClaim` and `YieldTurn`
are `ClaimLost` and `ClaimYield`. `Expire` is the end of a claim nobody renews;
`ExpireLive`, only where `LiveExpiry` holds, is the end of a claim whose
driver is alive but suspended longer than `pipeline_claim_stale_seconds`.

`Admit` takes any eligible run: a superset of the order of
`CheckQueue`. The block that `_run_ingesting_stage` raises is left out
because `create_check_run` refuses a manuscript whose ingestion is not done and
no later step reverts it. A stored block without a `resume_at`, which only older
versions wrote, is not modelled.

### AssessmentRevisions

An editor is an open page. A page is read statement by statement under a shared
lock on the `readiness_report` row (`StartRead` reads the report, `FinishRead`
results and flags); a change takes the row lock exclusively (`Begin`), compares the
revision its page showed, applies itself to the rows, rescores and writes its
audit entry, all in one commit (`Commit`) or not at all (`Abort`). A page whose
acknowledgment is lost may submit the same change again. `Redeploy` changes the scoring policy and
drops the requests under way. A verdict is represented by what it is a function
of: outcomes, findings that count, policy.

`content` is the `check_result` and `flag` rows, `trail` the audit entries.
Rows of the time before revisions existed (`judgment_revision` 0 and the details
by which `_recordable` knows them) are abstracted to "never judged". Private
annotations, the pages of the judgment history and the comparison with an
earlier run are not modelled.

### ReadinessScoring

`report/scoring.py` as functions over the loaded rows: what counts, what is one
finding (`Identity`), its deduction, the composite of the criteria, the status.
`Raise` and `Finish` are what the checks leave; `Dismiss`, `Confirm` and `Resolve`
are the instructor's steps that move a score. Fractions are
exact; the rounding of the stored number is not modelled. `Worst` is the loop over
the rows, as a function of how many have been read.

### ShareLinks

Requests are transactions in READ COMMITTED: each statement sees what is
committed when it starts, and an UPDATE that waited for a row looks again at
that row, not at rows made meanwhile. `create_share_link` locks the run first
(`LockRun`), `revoke_share_link` does not. The unique index on active links is
the collision `CreateNeverCollides` excludes. A public read looks at the link
again after it has put the report together. The projection on public fields, the
comparison with `created_at` and `get_active_share_link` are not modelled.

### ExportJobs

One slot in memory. A job is bound to report revision and source as its request
saw them; its task reads that binding again, then the contents in two snapshots,
in transactions of their own. `Age` and `Fire` are the time to live and its
timer. A download holds a lock on the source's row, which a purge waits for, and
a lease on the file. `Stop` and `Start` are the lifespan of the application in
one process. The report document and the annotated manuscript go the same way
and are one. A place for evidence images that is refused is one of the ways in
which a build `Break`s. One owner is modelled; `export.pdf` built within its own
request, the idle-transaction limit and the layout of documents are not.

### UploadAttempts

`status`, `link`, `staged`, `owner`, `leased` are the columns of
`upload_attempt`, `record` and `started` what became of it. A worker claims an
attempt once, so the lease id is the worker's name. `Lapse` is a lease that ran
out because its worker died or, within `MaxStalls`, was suspended; the heartbeat
of a live worker otherwise keeps it. From `Claim` on each transaction of the
worker is a step: linking the record, marking it processing, making it ready
under `still_owned`, starting the check, answering, and the error paths,
including an answer to a commit that is lost (`outcome` "unknown"). Any worker
may retire an attempt whose lease has run out.

Storage is counted in files: a staging object, and the original of an attempt
that will need one. Clean-up happens a day after expiry; no transfer is then
under way. The oldest-first order of claims is abstracted to any queued attempt.
An attempt that failed without a record keeps its staging object, as in the
code. The older single-request upload, multipart part lists, image reading and
the confirmation of a group are not modelled.

### PreparationAdmission

Controllers are the `PreparationAdmission` objects one process makes, at most
`MaxMade`; `Lookup` is `_get_locked`. An owner in its scope hands work to a
thread; cancelled, it leaves, and the place stays with the thread. The lifespan
of the application opens and closes the registry. Borrowed leases and a changed
number of slots, which is refused, are not modelled. Nothing live is stated: a
native thread may never end.

### LlmQuota

A queue is an `LLMQueue` object: one to a process and a key. A call has a route,
the own key's queue first. `Register` to `Unregister` are the coalescing lock and
the count of its users in `_inflight`; `LockBudget` takes the budget row of the
day, owner and model and reads it, `Reserve` charges it and commits. Earlier
debits, and debits under an old name of a model, are the constants `Before` and
`Alias`. The provider's answer is one step with the sending; midnight may pass
at any step; the day charged is the day of the reservation. `Cancel` is the
cancellation of a coroutine in any await, and also stands for other errors of
the provider and for the death of a process. The day is read in the step that
takes the row, though the code reads it just before it waits
(`queue.py:693-694`). Prompts, audit rows, the status
report and calls that ask to bypass the cache are not modelled.

### RateGovernor

The token window of a model and, after it, the request window of a model or an
external service, with spacing and cool-down. Times are ages, so that the clock
has no end; a tick makes everything older. Both asyncio locks are first-come
lines whose head sleeps with the lock held; the least sleep of 0.01 s is one
tick. Every attempt of a call waits on its own, so a retry or a redirect is a
call of its own. A behaviour is about one model or service, the constant it
starts with: they share no window and no lock. `Popped` is the loop that takes
old entries off a window from the left, `Total` the sum of the tokens left.
`drawn` and `sends` are history: what was in fact let through and sent within
the last window, whatever the code's two lists hold at the time. Ages from
`Old` on, which is beyond any window and interval, are not told apart. The database work between admission and sending is not
modelled.

### LibraryArchive

Requests, cancelled runs and operator commands are processes; `holder` is the
advisory lock of a manuscript. A submission passes through its places
(`copy` to `finalize`) in transactions of their own, and late work checks the
entry again under the lock. `withdraw_manuscript_if_orphaned` deletes under the
lock and commits after other work of its caller. A purge and a removal delete
files before they commit. That two submissions of one file do not both find no
earlier copy rests on the single preparation slot of a single process (`Admit`).
A submission that fails after its raw store is written ends like one whose
extraction failed, and a durable copy that was made although storage reported a
failure, which the code leaves behind, has no place in `stored`.
`native_compute_active_until`, cancelled requests, edits of an entry's details,
reading, excerpts and the similarity search, whose outcome is a choice, are not
modelled.

### RubricVersions

Locks are taken row by row in the order of the statements (`ToLock`, `NextRow`),
and a decision and its write are separate steps. Criteria are a counter of their
writes, open issues a set. An upload commits its draft before it parses the file
and adds the criteria without a lock (`Finish`), which here also discards a note
made meanwhile, where the code keeps it if the parse has none. A request is sent once. One
family and one program at a time; groups, members, files, the reuse of a run that
exists, eligibility by program and clients that send no revision are not
modelled.

## What the runs check

A component whose instance is small shares a run with others. Such a run's
module extends one component and instantiates the rest; its variable `side`
says which of them a behaviour is about, and the others stand still. The
behaviours are those of the components one by one, no interaction is claimed
that the code does not have, and a property of one side is guarded by it.

| Run | Instance | Shows |
|---|---|---|
| `claims` | 2 drivers, 2 runs, lifetime 2, clock to 6 | `SoleBeliever`, `ReleaseFreesSlot`, `ImplementsExclusiveSlot` |
| `pipeline_safety` | kept: 2 drivers, 2 runs of one manuscript, 5 units, quota degrades; late: 1 run, claims expire under live drivers, quota parks; queue: 3 runs of 2 instructors | `SettledOnce`, `CancelledHasNoReport`, `CancelledSaysWhere`, `DoneIsComplete`, `EndedRunUntouched`, `FinishedKeepsArchive`, `ImplementsLifecycle` (kept), `LateDriverHarmless` (late), `TurnsRotate` (queue) |
| `answers` | 2 uploads, 2 workers, a crash and a stall; 2 drivers, 2 requests for one subject, quota parks | `DoneIsTrue`, `RetiredIsLeftAlone`, `UploadAnswered`; `CancelTakesEffect`, `EveryRunEnds` |
| `report_desk` | 2 pages, a criterion that awaits review, 2 findings, 2 policies, 3 revisions; a score of 2 criteria and 2 rows; 2 requests on links; 2 clients and 2 jobs on documents | `PageIsOneRevision`, `VerdictOfTheRows`, `TrailIsComplete`, `ChangesWhatWasSeen`, `DecidedIsFrozen`; `ScoreIsFair`; `LinksAreKept`, `LinksGoOn`; `DocumentsAreTrue` |
| `model_calls` | 3 calls with up to 2 attempts, 3 queues, 2 keys, 2 models, 2 days; 2 callers before a model and before a service | `OneBuys`, `EndsForAReason`, `BudgetRespected`, `CallSettles`; `SendingPaced` |
| `admission` | 3 owners of 1 slot, 3 controllers; 2 runs and a loop that polls, a crash and a time-out, or that does not | `PlaceFollowsWork`; `AcceptedRunStarts`, `EveryRunEnds` |
| `records` | 2 submissions and a checked manuscript of the same bytes, 2 requests, a crash; 3 requests on up to 4 versions, a death; 3 uploads, 2 of one file, room for 5 files, a crash | `CorpusIsActive`, `OneCopy`, `FilesFollow`; `VersionsKept`; `ReservedInBudget`; `RequestsGoOn` |
| `pipeline_lost_note` | 1 run, quota parks | `CancelledSaysWhere` is violated |
| `pipeline_stale_report` | 1 run, live expiry | `CancelledHasNoReport` is violated |
| `uploads_busy` | 1 upload, 2 workers, a stall and a crash | `RecordSettles` is violated |
| `quota_midnight` | the calls of `model_calls` with one input | `HeldOnlyIfRefused` is violated |
| `rubric_unparsed` | a version and an upload of the next, 3 requests | `PinnedUnchanged` is violated |

The properties are of four kinds. *Exclusion and exactness across processes*:
`SoleBeliever`, `SettledOnce`, `OneCopy`, `BudgetRespected`, `PlaceFollowsWork`,
`OneBuys`. *What somebody saw is what is changed or shown*: `PageIsOneRevision`,
`ChangesWhatWasSeen`, `DocumentsAreTrue`, `LinksAreKept`,
`VersionsKept`. *What one part stored stays true for another*:
`FinishedKeepsArchive`, `CorpusIsActive`, `FilesFollow`, `DoneIsComplete`,
`VerdictOfTheRows`, `TrailIsComplete`. *What was accepted ends, and the answer is
true*: `UploadAnswered`, `DoneIsTrue`, `CancelTakesEffect`, `EveryRunEnds`,
`CallSettles`, `EndsForAReason`, `AcceptedRunStarts`, `RequestsGoOn`. Properties
that belong to one question are one conjunction (`DocumentsAreTrue`,
`LinksAreKept`, `ScoreIsFair`, `FilesFollow`, `VersionsKept`, `SendingPaced`);
the parts are named in the component's module.

### What they found

The violated runs are the findings of `PROJECT.json`; each contradicts a
comment, a docstring or a test.

*A report after cancellation* (`pipeline_stale_report`). `aggregate_and_score`
commits without the ownership test. A driver suspended past its claim's life
just before that commit stores a report for a run that another driver has
meanwhile resumed and cancelled. The docstring of `run_check_run` concedes that
committed analytical work lies outside the fence, but the tests say a cancelled
run never has a report. `get_report` asks for status `done`, so the row is
stored but not served.

*A lost note* (`pipeline_lost_note`). With `pipeline_degrade_on_quota` off a run
is parked with `stage_status["blocked"]`, and the key stays there while a driver
resumes it. `cancel_check_run` takes such a run for one without a driver and
finalises it; the driver's next stage record overwrites
`stage_status["cancellation"]`.

*A record that looks busy for good* (`uploads_busy`). A stalled worker is retired
before its record exists, links one to the failed attempt and dies. The clean-up
of such a record, `_record_handed_off`, runs only in that worker.

*A refusal of yesterday* (`quota_midnight`). `_close_island` closes the budget of
the day it runs on. A request refused just before midnight and handled just after
it closes the new day.

*A draft used before it is parsed* (`rubric_unparsed`). The upload's first commit
makes the draft visible. It has no open issue yet, so it can be activated and a
check pinned to it; the parsed criteria are then added.

Smaller disagreements of code and comment, met while modelling and not run:

- `flags/service.py:641-642` says a bulk dismissal leaves a finding alone that
  its citation source cleared; one that was confirmed before is dismissed again
  (583 asks that it is not confirmed, 541-543 leaves it so), and the recorded
  verification is replaced.
- `ingest/upload_worker.py:293-294`: a retired attempt can end with a ready
  manuscript, when the worker dies between making it ready and the answer.
- `ingest/direct_upload.py:366-367`: a transfer begun before its link expired
  ends after another was admitted in its place (430-433, 644), over the ceiling.
- `rubric/service.py:418-420`: a save by an editor that loaded the draft before
  its parse ended deletes all parsed criteria, since the parse does not raise
  `revision`, which `models/rubric.py:57-58` offers against just that.
- `share/service.py:43-44`: only creates take the lock that serialises creates
  and revokes; a revoke (230) can be refused while a link is active.
- `report/scoring.py:147-149`: recency notes alone can decide Not Ready, from a
  composite of 62.5 with the default settings.
- `llm/queue.py:848`: tokens are debited before the wait for the request window
  and may have left the token window when the call is sent.

### Conditions

Which properties hold where matters. `SettledOnce`, `CancelledHasNoReport` and
`EndedRunUntouched` need claims that do not expire under live drivers; the
docstring of `run_check_run` says as much of results. `EndedRunUntouched` and
`CancelledSaysWhere` also need `DegradeOnQuota = TRUE`, the default. The
lifecycle, and what `LateDriverHarmless` says, need neither. `ReservedInBudget`
needs leases that do not run out under a live worker. `FilesFollow` is said of
processes that live: one that dies between the deletion of the files and the
commit of `purged_at` leaves a manuscript on which a check may be started.
`OneCopy` rests on one preparation slot in one process. `EveryRunEnds` of the
queue needs the polling loop: a loop that is only woken is not told when a parked
run may go on, and a crash takes its wake-ups along; `AcceptedRunStarts` holds
for both.

`ScoreIsFair` needs `Low <= Med <= High` (`ScoringAssumption`), as in the
defaults; the settings do not enforce it, and with a medium finding cheaper than
a low one a dismissal could lower the score.

### Bounds

The proofs remove the bounds where a theorem states the property. Elsewhere:

- `claims`: `MaxClock` lets a claim be written, go stale and be replaced, with a
  renewal of the second claim, while a transaction of the first is in flight:
  claim, renewal and take-over need two writes and an expiry of `Stale + 1`.
- Runs: two drivers are the actors of every property stated over pairs.
  `MaxFaults` counts crashes, yields, quota waits and live expiries: two or three
  suffice for a resumption that is itself interrupted. Two semantic criteria let
  the stage be left half-way. `InLibrary` is empty, the case in which archive rows
  may be withdrawn at all. Three runs of two instructors are the least for one to
  be overtaken by a second run of another.
- Assessment: two pages, and revisions enough for a change to land between the
  reading and the change of the other, and once more after a lost acknowledgment.
- Links: two requests, since every race is between two of them, beside a link
  that was there before; the proofs are for any number. Documents: two jobs are a
  job and its successor; a third changes nothing for the first.
- The score: two rows of eight kinds and two criteria are enough for a finding
  with two rows, a cap that is reached and an average that moves.
- Uploads: a stall and a crash make a successor and its failure. Three uploads
  with two of one file are the least in which a replaced attempt and another
  compete for the storage.
- Calls: two that coalesce and one of another process; two models and one key to
  fall back on; one midnight. `MaxRetries` is 2: every attempt but the last may
  fail and be made again, so one retry is the least in which an attempt follows
  another and is charged beside it, on the same day (the own key has two requests
  left) or after midnight (one), or finds the budget spent (the shared key has
  none left before midnight and one after it, which two processes compete for).
  More attempts repeat the step; the theorems hold for any number. Windows of two
  ticks and three tokens, so that both windows are full at the same time and a call
  is larger than the budget.
- Places: two restarts, so that a controller may be replaced while native work of
  the one before the last still runs.
- Records: two requests are enough for every order of two operations, and a third
  only waits; three on a format, since an upload, an activation and a check
  meet.

Deadlock is checked by TLC for the claim protocol up to its bounds. Elsewhere it is
off, because the system may come to rest; where locks could be waited for in a
circle, `NobodyIsStuck` says that of the requests at work one does not wait
(`RequestsGoOn`, `LinksGoOn`). `Waits(q)` is written out from the guards instead of
with `ENABLED`, so that it can be proved about: it says that somebody else has a
lock the next statement of `q` needs.

Symmetry is used for drivers, calls, pages, requests, clients and policies in
runs that check no liveness.

### Fairness

Liveness is stated in `answers`, `model_calls` and `admission` (and
`uploads_busy`).

- Check runs: weak fairness of what each driver does (`Step(d)`), of `Expire` and
  of `QuotaReset`. `worker_loop` polls for ever and survives exceptions of a
  step; every database call it awaits has a time-out and a run has a deadline; an
  unrenewed claim goes stale; a quota resets at midnight. Fairness is on the whole
  of `Step(d)`: no choice inside a stage is promised, and `Raise` may end a run as
  failed.
- The queue: weak fairness of the steps of the loop, of wake-ups, of the end of a
  cancellation's transaction, of the end of a block and of expiry. Strong fairness
  of `Look`, `Begin` and of the end of a run within its turns: another process or a
  cancellation may hold the guard or the row again and again, for a moment each,
  and a loop that comes back finds it free at last;
  `pipeline_run_deadline_seconds` bounds the time a run can spend in turns.
- Uploads: weak fairness of each worker's steps, of the claim of each queued
  attempt by somebody, of the end of a lease that nobody keeps and of retirement.
  The loop polls for ever and every call of a preparation has a time-out.
- Model calls: weak fairness of each call's steps. Coroutines are scheduled,
  row locks are held for one short transaction, every request has a time-out.

No fairness is assumed of requests, faults, midnight or the provider. Faults are
bounded, so the properties say what happens once crashes and stalls stop.

## What is proved

All theorems hold for every value of the constants that satisfies the `ASSUME`s
of the module: sets of drivers, runs, editors, attempts, calls, owners or
requests of any size and any bound.

### The claim protocol

`PipelineClaims_proofs` proves `TypeCorrect`, `BelieverHolds`
(`BelieverHoldsClaim`), `SlotExclusive` (`SoleBeliever`), `ReleaseFrees`
(`ReleaseFreesSlot`), `Inductive` (`IInv`), from which the others follow, and
`SlotImplemented`, that the protocol implements `ExclusiveSlot`. It assumes that `Stale` is a positive natural number, `MaxClock` a natural number,
and `Nobody` neither driver nor run.

`SoleBeliever` is not inductive: that a driver's belief is exclusive depends on
what other rows hold and on transactions in flight. `IInv` adds

- `ClaimsApart`: of two claims in different rows, the earlier was stale when the
  later was written;
- `SentOverStale`: the transaction in flight was sent when all other claims,
  and the tokens of all other drivers, were stale, and staleness is permanent;
- `TokensDiffer`: no two leases share a token;
- `LeaseInOrder`, `AwaitsReply`, `SenderKnows`: the local expiry never outlasts
  the last settled token plus `Stale`, and whoever waits for a transaction knows
  its token.

A believer's row carries one of its tokens, and that token is fresh because the
local expiry lies ahead; two believers would have two fresh claims, in one row
with one token or in two rows too close together. The proof has one lemma
for each action that writes a claim or a lease and one (`LocalStep`)
for those that only change a driver's own state. `Landing` is shared by the
three ways a transaction can land.

`SlotImplemented` is `ImplementsExclusiveSlot`, step by step. The slot of the
abstract specification is taken by the run whose row has a live claim, with the
driver that believes in it, or nobody if the claim's driver has given up. A
claim that lands takes a free slot, since it was sent over stale claims; time
that passes frees it; a driver that stops believing leaves it taken; and
everything else, timeouts and renewals included, is a stutter. The
invariant is needed for the choice of the driver (`Holders` is one) and for
commits fenced by a claim, which only the holder can make.

### The check runs

The theorems about `CheckRunPipeline` hold for any assignment of units to
stages and any number of faults, and unless a condition is named, with
claims that expire under live drivers.

`CheckRunPipeline_proofs` proves `TypeCorrect` and `LifecycleKept`,
that the specification implements `CheckRunLifecycle`. The refinement needs an
invariant because `Fail` stores `failed` over whatever status the row has
when it is active, and `FinishCancel` stores `cancelled` over any status: that
neither overwrites a final one depends on who else may have moved the row.
`IInv` says who: `DrivesLiveRun`, a driver that owns its claim in mid-turn
drives an active or cancelled run, since only the owner of the claim can
finish it and it has not; `CancelMeansStop`, a cancellation is never
pending for a run that is done or failed; and `TurnInOrder`, the stages a driver
may have read at each point. `DriverStep` is the common argument: a step that
changes the status of no run but the one the driver owns disturbs nobody else.

It proves `DoneComplete`, `StageSettled` and `PlanFound`, the properties `DoneIsComplete`, `StageLeftSettled` and `ResumeFindsPlan`. What
the stages commit tests no ownership, so the argument cannot be that one
driver is at work. It is monotony: results and plans are never taken back, a
report only by a cancellation (`RowGrows`, which every step satisfies). Hence
what a driver has seen settled stays settled whatever the others do
(`TurnKept`), and `ProgressInv` need only say what each point of a turn
presumes: the stages behind it are settled, the units not settled are among
those still to do (`todo`) or in the open transaction (`unsaved`), and the plan,
which brings the rows of the routing with it, precedes all results.

`ArchiveKept` (`FinishedKeepsArchive`) has no condition either: the withdrawal of
archive rows and the finish of another check of the manuscript are ordered by
the row lock, so a step that withdraws sees every finished check. Checks no longer
write archive rows themselves (`archive/service.py:274-276`); what is withdrawn
was stored before.

`LateTheorem` (`LateDriverHarmless`, in `PipelineClaims_proofs`) states the first
three of an instance of its own, in which claims always expire under live drivers.
Its steps are those of the module, action by action (`LateIsProgress`).

### Whose run is next

`TurnsTheorem` (`TurnsRotate`, in `PipelineClaims_proofs`) holds for any runs,
instructors and schedulers, with or without polling, and any number of crashes
and timeouts. `ahead[o]` is the history it is stated with: who has started a new
run since the oldest run of `o` began to wait, claimable at every reading of the
list. `TurnsInv` follows it from step to step. Who is ahead of `o` was served after
`o` (`AheadInv`, from `RanksInv`: a start gets the highest rank so far), so that his
runs come after the oldest one of `o` whenever a list is read (`AheadIsLater`, with
`LastStartedIs` for the maximum in the query). While the list is tried, every run
of his has one of `o` before it, and passing over that one ends the wait of `o`
(`ListInv`); the first one left is therefore of nobody who is ahead, and so is a new
run that has got the turn (`NewRunInv`). That nobody starts a run between the
reading of a list and its end is `GuardInv`: the guard's lock belongs to who
tries a list, which he reads only when no claim is fresh.

The rest of what the runs check of single drivers is false when a claim expires
under a driver that lives, as `pipeline_stale_report` shows, and is proved
under `~LiveExpiry`: `OnceSettled` (`SettledOnce`), `NoCancelledReport`
(`CancelledHasNoReport`), and with `DegradeOnQuota`, as the program is shipped
(`pipeline_lost_note` is what happens without it), `CancelledNoted`
(`CancelledSaysWhere`) and `EndedUntouched` (`EndedRunUntouched`). `SoleInv` makes
the argument that monotony cannot: without live expiry a run has one driver
(`SoleDriver`), so what a turn has loaded and holds in its session is exactly
what the row lacks (`TurnExact`, `RowExact`), and a unit still to do has no
result. `UnparkedInv` adds that no run is parked (`NeverParked`), so that only
a queued run is cancelled behind its driver's back.

### The assessment

`AssessmentRevisions_proofs` proves the state properties `PageIsOneRevision`,
`DecidedVerdictShown`, `VerdictOfTheRows`, `ClearedStaysCleared`,
`TrailIsComplete` and the step properties `ChangesWhatWasSeen` and
`DecidedIsFrozen`. A page that shows one revision depends on everything
since it was read: `IInv` says what a page read half-way has of the row while
its shared lock is held (`ReadInv`), what a complete page stands for as long as
the row has its revision (`PageInv`), what a change under way was submitted for
(`WriteInv`) and that the locks exclude each other (`LockInv`). `TrailIsComplete`
is an induction of its own over the entries a change adds.

### Uploads

`UploadAttempts_proofs` proves `DoneIsTrue`, `AnswerStays` and
`RetiredIsLeftAlone`, with any number of crashes and stalls. `WorkerInv` says for
each place of a worker what it may take for granted: everything while it still
holds the lease, and of what it left behind only what nobody else can touch.
`RowInv` says the same of the rows. Frame lemmas carry both over the steps of
other workers.

`ReservedInBudget` holds for any capacity as long as no worker has been late with
its lease: `WithinBudget` says so of the module, `StorageTheorem` of
`StoredRecords_proofs` of the instance the run checks, whose steps are those of
the module. `BudgetInv` adds that a worker at work holds its attempt under a lease
that has not run out (`StillHolds`), so what it links a record to is still an
active attempt, whose room is counted. Then only an admission adds a file, and it
has looked for the room (`BeginBudget`); no other step adds a staged copy or an
original (`HoldsOn`, `OthersAddNothing`, `BudgetKept`). After a stall a worker may
link an original to an attempt that was retired meanwhile, whose room is then
counted nowhere: that is the reason for the condition.

### Model calls

`LlmQuota_proofs` proves `BudgetRespected` and `DebitsNeverFall` for any calls,
routes, pool, days and debits on record. `LockInv`: a call that holds a budget row
has read it as it is, and has it alone; `PlaceInv`: a call is at a queue of its
route and asks a model of the pool; `RecordCovers`: `call_count` is at least
what was there plus what was charged.

`OneBuysTheorem` (`OneBuys`) and `EndsTheorem` (`EndsForAReason`) follow from
`CallInv`. The counter of a lock is the number of calls at it, so it is removed
by the last of them and never under one that waits; hence one call with a key
is inside the lock (`OneInside`), and who comes after it finds what it paid for
(`PaidIsFound`). For the reasons calls give, `CallOK` says of the models a call has
passed without finding them missing that each was spent on some day, also when
midnight came in between.

The waits (`CallsArePaced`, about `SendingPaced`): in any window a model lets
through its tokens and a service its requests and no more, and no two requests
closer than the interval in force. The difficulty is that the code asks its
window only when a call looks at it, while what is promised is about every
window of time. The inductive invariant `Paced` joins the two (`WindowsInv`):
the ages in each list fall from left to right, no request of the last window is
younger than `last`, and what was let through within the last window is exactly
what is left of the code's list once the loop has been over it (`Remembers`). Then a
call that passes finds all that counts against it (`WindowsAre`). A tick
preserves this because making everything older and taking off what is too old
may be done in either order (`RemembersTick`). A sum over a window is a
recursive function; what is needed of it (`TotalAppend`, `TotalRest`,
`TotalOlder`) is proved by the least counterexample: a set of numbers that has 0
and with each number the next has all (`UpTo`, from `WFMin`), which stands in for
the induction theorems with an operator parameter.

### Preparation

`PreparationAdmission_proofs` proves `NativeBounded`, `PlaceFollowsWork` and
`ShutdownAdmitsNothing` for any owners and slots and any number of controllers.
`IInv` says that all leases belong to the current controller and are at most its
slots (`LeasesInv`), that a managed controller is the current one
(`ManagedIsCurrent`), that only a managed one closes and that one not yet made
has not stopped (`RegistryInv`).

### The Library

`StoredRecords_proofs` proves `CorpusIsActive` and `RemovedStaysOut` for any
files, requests and deaths, and `OneCopy`. For the first, `RequestsInv` says what
a request may rely on from place to place: the advisory lock it has and the state
in which its entry must be there (`Ready`), and what it has read again and nobody
can change meanwhile (`Unchanged`); `SoleSubmission`, that one submission is
prepared at a time. `OneCopy` needs `CopyInv` besides: no copy comes up once a
submission has looked for one (`Alone`), and what is given up as stalled was
processing (`StalledIsProcessing`).

`FilesTheorem` (`FilesFollow`) is about processes that live (`crashes = 0`):
one that dies between the deletion of files and its commit leaves a row
without its source, and nothing in the code repairs that. `FilesInv` says who accounts for a
difference between rows and files (`Source`): an entry without its file is about
to store it or to commit its removal, and a file of a purged manuscript is that
of late work which will discard it; `Erasing` says what a request that deletes
has ruled out, which the lock on the row keeps ruled out until it commits.

### The versions of a format

`StoredRecords_proofs` also proves `VersionsTheorem` (`VersionsKept`) for any
requests, programs, deaths and number of versions. The statement that locks a
family takes its rows by id, and only those it found; what decides is which row is
the latest by number. `VersionsInv` joins the two. Ids and numbers rise together
(`VersionsRise`). A request of the whole family has claimed, by a lock or by
being about to take it, every row up to the last it claims (`ClaimsAllBefore`), so
two of them cannot both stand at their write: each would hold the lowest row
the other claims. A row added meanwhile is newer than all that either claims. Its
target stays claimed (`ClaimsTarget`), and so what was decided under the locks is
still true when it is written (`StillMay`). Each step is shown to be `Guarded`:
rows go, cease to be active or get pinned only under a lock that excludes whoever
relies on them; that is all the other requests need (`OthersClaims`,
`OthersMay`). That a family with a row has a latest one is well-foundedness of
the natural numbers (`LargestId`).

### Locks that are waited for

`RequestsTheorem` (`RequestsGoOn`) and `LinksGoOnTheorem` (`LinksGoOn`) say, for any
number of requests, that those at work never all wait for each other. The
Library takes an advisory lock before a row, and nobody who has one waits for
another (`HeldInv`: a lock is held by a request that is past its wait). The rows of a
format are taken in the order of their ids (`OrderInv`: what a request has is
below what it still wants); hence whoever has the largest of the locked rows finds
the next one free and, since requests of the whole family leave none out, has all
it needs. Requests for links take the run, then the link, then the report
(`OrderlyInv`: at which places each lock is held); whoever has the last of those
taken waits for nobody. The order of the rows matters: a faulty variant that locks the
target first is caught by the run, and so is a reader of a link that leaves its
transaction open.

`RequestsGoOn` is said of the Library and of a format, each by itself. One request
locks rows of both: `create_check_run` takes the manuscript's row
(`pipeline/service.py:53`) and then the format's (86). Nothing under `rubric/` locks a
manuscript, so nobody takes the two the other way round and no circle leads through
it. Uploads are not covered: the worker that makes a record ready holds its row
when it takes the attempt's (`upload_worker.py:81`), and the sweep that retires the
attempt, possible once the lease has run out, updates them in the opposite order
(167-190). If they meet, the database ends the circle by failing one of them; in
`UploadAttempts` each is one step, and either outcome is a behaviour of it.

### Links and documents

`ReportOutputs_proofs` proves `LinksTheorem` (`LinksAreKept`) and
`DocumentsTheorem` (`DocumentsAreTrue`) for any requests, links, reports, clients
and jobs; the clients are a finite set, since leases count them.

Links: a revoke takes no lock on the run, so it may miss a link made while it
waits for a row. `SharedInv` shows that this does no harm to who was answered:
every link that was active when a request came is among the rows it has still
to reach or has changed (`Changing`), a row being changed stays active until
its transaction ends, whoever dies (`RowsInv`), and only a create, which has the
run's lock, adds a link. `Reading` says that who has read the report keeps its
row from being changed, so the flags read later are of the same assessment.
`TurnedOffIsNotServed`, a conjunct of `LinksAreKept`, is about the step that serves.

Documents: `JobsInv` has three parts. `Kept`: the leases of a job are the number
of downloads of it, a job that is being prepared is the slot's, and a file
belongs to the slot or to a lease. `Told`: what a job has read agrees with its
binding as far as it has been compared, and a source once purged stays so;
the second comparison then makes document and binding equal. `Serving`: a
download knows whether its source is purged, since a purge waits for it.
`DocumentsAreTrue` is their consequence. That no lease is counted twice over
replacement, expiry, shutdown and restart is the cardinality of `Holders`, kept
by every step.

### The score

`ReportOutputs_proofs` proves `ScoresAreFair` (`ScoreIsFair`) for any finite set
of criteria, any positive weights, any rows in any order and number, and any
deductions that grow with the severity. `ScoreIsFair` compares two assessments
whose rows were read and whose grades were added up in different orders, so the
proof first says what the loop and the sums come to without an order:

- `SumFunctionOnSet` takes the elements of a set in an order nobody knows.
  `SumSteps` shows that any element may be taken first; `SumMost`, `SumSame` and
  `SumPercent` then compare two sums. `SetsUpTo` is the induction behind them:
  if every subset belongs to a collection as soon as the subsets with one
  element less do, all belong to it, since among those that do not there would
  be a smallest (`WFMin`, `FS_StrictSubsetOrderingWellFounded`). It is stated of a
  collection instead of an operator, so that these provers can instantiate it. `SumsExist` builds the function that
  the definition of the sum chooses.
- `WorstOf(w, C, id, severity)` says of a function that it is what the loop
  leaves of the rows `C`: each finding with one of its severities, at least as
  high as the others. `WorstIs` proves it of `Worst`, with `NumbersUpTo` for the rows;
  `WorstOnly` that it determines the function, `WorstMore` and `WorstFewer` what one
  more and fewer rows do. `DeductionOfFindings`, `PlacesCountOnce` and
  `LeadsNeverDecide` follow from these.
- `LessIsFairer`, `FullMark` and `Failure` are the arithmetic of the capped average:
  a smaller deduction, a full mark and a failure, whatever else is counted.
  Dismissals have the first (`DismissNeverHurts`), grades the others
  (`PendingIsNeutral`, with `GradeGiven` and `GradeExcluded` for the sums).

`ScoreTypes` is the invariant; `ScoreFacts` collects what holds of score and
findings before and after each step.

### Only model-checked

Every safety and action property of the passing runs is proved. All liveness
(`UploadAnswered`, `CancelTakesEffect`, `EveryRunEnds`, `CallSettles`,
`AcceptedRunStarts`) stays with TLC: with `ENABLED` it is beyond this prover.

## Not modelled

- *Access control*: sessions, passwords, invitations and the limits of requests.
  What they promise is about who may call.
- *Parsing* (`ingest/pdf.py`, `docx.py`, `references.py`, `reading_order.py`) and
  *what a check decides* (`checks/`): heuristics over text and prompts for an
  external model, over unbounded data and without a protocol. The same holds of
  the layout of documents (`report/export.py`) and of the accuracy tools
  (`src/tools`). They are most of the lines of the implementation, and the models
  stand for none of them.
- *External clients and caches*, beyond their pacing.
- *Groups, programs, settings, dashboard, audit views*: rows of one owner, written
  in one transaction and read as they are.
- *The frontend*. It keeps drafts of judgments whose save is uncertain and a tray
  of uploads that outlives a reload. What it sends again, with the revision it
  loaded, is an input that `AssessmentRevisions` and `UploadAttempts` admit. (One
  thing seen on the way: `discard` in `useJudgmentRevisions.ts` leaves `loading`
  set, so that the button at `RecordedJudgmentTools.tsx:98` stays disabled.)
- Within the modelled components, what their sections above name.

## Running the checks

`tlc -config <run>.cfg <module>` for a run; `PROJECT.json` says which module
belongs to which configuration. `tlapm <component>_proofs.tla` checks the proofs.
The longest run takes some minutes with two workers.
