# Cinegraph: TLA+ models, model checking and proofs

Cinegraph is a Python service that answers questions about television episodes
without spoiling what a viewer has not seen. An HTTP API takes questions as
*agent jobs* and runs them on threads, an ingestion pipeline turns subtitles and
scripts into an index through *ingestion jobs* and paid *speaker reviews*, and
*media actions* change a viewer's Jellyfin server after the viewer approved them.

This directory holds the formal model of that program: modules translated from
`src/src/cinegraph` and `src/scripts`, the TLC runs that check them, and TLAPS proofs about them.
`PROJECT.json` maps every definition to its lines.

## 1. Inventory

Paths are relative to `src/src/cinegraph` in the repository.

| Component | State it keeps | Operations | What is hard about it | What makes it correct | Model |
|---|---|---|---|---|---|
| Agent jobs (`application/service/agent_job_service.py`, `ports/agent_jobs/dispatcher.py`, the SQLAlchemy repository and lease) | job rows and events in PostgreSQL; scheduled and interrupted ids, semaphore, executor queue in each process; one advisory lock | submit, schedule, execute, recover at startup and periodically, close, readiness | HTTP threads, executor threads and a recovery thread share sets under a lock that is released between steps; outages before and after a commit; crashes, restarts, replicas, a lost lock | one callback and one execution per job, no permit lost, no job orphaned, a log that agrees with the row, every stored job ends | `AgentJobs`, `AgentJobLifecycle` |
| Ingestion jobs (`application/service/ingestion_job_service.py`, `domain/models/ingestion_job.py`, the repository) | job rows with attempts, lease and retry instants; event rows | enqueue, claim, heartbeat, succeed, fail or retry, cancel, reclaim | each call reads, computes a whole row and writes it later; leases run out while calls are under way | writes are fenced, leases respected, attempts counted, the queue never blocked, ended jobs stay ended | `IngestionJobs` |
| Media actions (`application/service/media_action_service.py`, approval repository, Jellyfin and mock adapters, `media_action_graph.py`) | approvals, audit events, the provider's record of keys, the server | start, resume, propose, decide, execute, verify | several callers on one key; a request may fail after the server acted; the connection changes | only what was approved is carried out, once; decisions are final; the audit is complete | `MediaActions` |
| Agent job event stream (`adapters/api/agent_jobs.py`, `static/app.js`) | cursor, counters and deadline of a stream; the browser's EventSource, polling chain and final reads | connect, replay, stop, reconnect, poll, finish, give up | connections break with frames under way, limits fall before the terminal event, cursors are refused | every event once and in order, the end reaches the user and is the one stored | `AgentJobStream` |
| Identity sessions (`application/service/identity_session_service.py`, its repositories) | accounts and sessions in the database, a cookie per browser | register, login, guest, logout of one and all, change of the password | passwords are verified before the row lock; session rows are never locked | a cap, no live session of an old password, what ends all ends all | `IdentitySessions` |
| Speaker review workflow (`ingestion/speaker_review/`) | run directory: state, intents, completions, outputs, queues, resolution | prepare, submit, poll, process, adjudicate, final review, retry, human resolution, reprice | each step is followed by a paid call or a write-once file; the state has no lock; a crash may fall between any two | no part is paid twice, replay converges, the state never says more than the files | `SubmissionJournal`, `ReviewLedger`, `SpeakerReview` |
| Speaker review host scripts (`src/scripts/*private_speaker_review*`) | claim, intent and receipt of seventeen steps, a container | one script per step, run again until it left its receipt | scripts die and leave containers; records are staged, linked and unlinked; scripts differ in what they repair | nothing is bought twice or early, receipts form a chain, the run ends or stops only in known windows | `SpeakerReviewHost` |
| Private corpus processing (`src/scripts/receive_private_corpus.py`, `run_private_corpus_processing.py`, `ingest_private_corpus_workspace.py`, `process_private_corpus_client.py`) and the transcript index (`qdrant_transcript_index_writer.py`) | objects, workspaces, receipts, points by source version | receive, materialize, ingest, replace an episode, record, answer | a time limit kills the request and not its container; power is lost between rename and sync; upsert and delete are two calls | what could be found can always be found, a receipt tells the index, a repeated request is answered | `CorpusProcessing` |
| Usage budget (`application/models/model_usage.py`) | ledger and attempts of one agent run | start, record, finish | parallel calls may pass a limit together | attempts bounded, every usage recorded once | not modelled: how many calls run at once is the agent framework's decision |
| API guardrails (`adapters/api/guardrails.py`) | token buckets by client | check, evict | eviction forgets a client | no more is granted than capacity and refill allow | not modelled: a check runs on the event loop without an await, so no two interleave; the rest is arithmetic |
| Graph claims, Netflix import, marking of watched episodes | records and claims in stores | replace, import, mark | - | - | not modelled: no composition root, route or script builds them, tests only, so there is no schedule of calls to model |
| Spoiler policy, retrieval scope, review decisions (`domain/`) | none | decide, compile | - | nothing behind the boundary is visible | not modelled: pure functions, a reference definition would restate them |
| Conversations | thread bindings, in memory | bind or validate | - | a thread keeps its profile and scope | not modelled: written once, compared afterwards |
| Series agent, graph RAG, grounded answers, recommendation, visible search | none between requests | answer a query | the model's output | citations only to what is visible | not modelled: stateless pipelines around an external model |
| Summaries and series metadata | versioned documents for one process | ingest, review | - | same as the index | not modelled: scripts run them once, their repositories begin empty |
| Subtitle processing, catalogue loaders, corpus bundle, embedding | none, files in and records out | parse, align, hash, encode | text and numerics | round trips | not modelled: data, no control |
| HTTP application, user interface, other operator scripts, deployment, migrations | wiring | - | - | - | not modelled: I/O, shell and schema |

How they interact: the HTTP application calls `submit` of the agent-job service,
whose threads call the conversation service (series agent, retrieval, model); SSE
readers follow the event rows that the job transitions append; startup, the
readiness endpoint and the recovery thread share the lease. Operators and
workers call the ingestion-job service; the pipeline it governs writes the
transcript index, summaries and graph claims that retrieval reads through the
scope compiled from the watch state. The media-action graph stops at an interrupt
until the user decides and resumes on any thread. A season's subtitles go to the
speaker review, whose workflow either an operator drives directly or the host
scripts drive one step at a time; what it publishes becomes a bundle that private
corpus processing brings into the index.

`PROJECT.json` lists the hazards of these components, with the line where each
bites, the properties that cover it, or the reason why none does.

## 2. Plan

| Step | Modules | Abstract specification | Theorems |
|---|---|---|---|
| 1 (done) | `AgentJobLifecycle`, `AgentJobs` | the job life cycle, implemented by the runtime | types, one callback, single execution, permits, live work, how a job may be orphaned, log |
| 2 (done) | `IngestionJobs` | - | types, fencing, leases, finality, log |
| 3 (done) | `MediaActions` | - | types, approval before writing, finality, once, audit trail, verification |
| 4 (done) | `AgentJobStream` over the log of `AgentJobLifecycle` | - | types, events once and in order, what is shown is stored |
| 5 (done) | `SubmissionJournal`, `SpeakerReview`, `SpeakerReviewHost` | `ReviewLedger`, implemented by both | types, paid once, state and receipts, refinement (twice), where a run may stop for good |
| 6 (done) | `IdentitySessions` | - | types, cap, passwords, ending all |
| 7 (done) | `CorpusProcessing` | - | types, receipts, what is found stays found |
| 8 (next) | the retries and circuit of the Jellyfin client beside `MediaActions` | - | bound on the requests of one action |

The order follows what would hurt most if it were wrong: work that runs twice or
never, then work that is overwritten, then effects outside the system. Every
module takes its sets and limits as constants, has one action per step of the
code, states invariants as conjunctions of named parts, and avoids `RECURSIVE`.

## 3. Modules

### `AgentJobLifecycle`, the abstract specification

Only the row's status and the kinds of its events. `Create`, `Claim`, `Finish`,
`Reject` and `Recover` are the transactions of
`SqlAlchemyAgentJobRepository`, each of which changes a row and appends an event
together. `LogCoherent` says what a reader of the events may rely on. `AgentJobs`
and `AgentJobStream` change rows and events by these transitions only, so that they
implement it holds by construction and is no result of its own; it lets
`LogCoherent` be proved here once and carried over.

### `AgentJobs`, the runtime

A step is one transaction or one critical section. Correspondence:

| Code | Model |
|---|---|
| rows of `agent_jobs` and `agent_job_events` | `status`, `events` |
| `pg_try_advisory_lock` session | `lock` |
| process: not started, `start_recovery_supervisor`, serving, `close` | `phase` = down, starting, up, closing / draining / released |
| `_supervisor_failed`, `_scheduled_job_ids`, `_interrupted_job_ids` | `failed`, `scheduled`, `interrupted` |
| semaphore and queue of the executor | `free`, `queue` |
| executor thread in `_run` / `_execute_scheduled` / `execute` | `wpc`, `wjob`; `WTake`, `WGet`, `WClaim`, `WFinish`, `WMark`, `WUnsched`, `WRelease` |
| startup recovery, `_recovery_loop`, `_recover_local_interruptions_once`, `_dispatch_queued_once` | `lpc`, `todo`, `cur`; `Boot`, `LoopList`, `LoopCheck`, `LoopAdmit`, `LoopPassDone`, `LoopWake`, `LoopStop`, `LoopRequeue`, `LoopDiscard`, `LoopRequeued` |
| HTTP thread in `submit` | `spc`, `sproc`; `SCreate`, `SCheck`, `SAdmit`, `SReject` |
| crash, shutdown, session loss, readiness | `Crash`, `Close`, `CloseDispatcher`, `ReleaseLease`, `Exit`, `LoseLease`, `Readiness` |

`Fault` is a call that raises `AgentJobUnavailableError`, with its transaction
committed or not; both are alternatives of the action that makes the call.

Abstracted: payloads, answers and fingerprints; an idempotent resubmission only
reads, so it is left out; adding to the scheduled set, dispatching and taking
the id out again on refusal happen under one lock and are one step; closing the
dispatcher and cancelling its waiting callbacks are one step; telemetry.

### `IngestionJobs`

A call of the service is `Begin` (it takes `now`), `Read` (it reads the row into
`copy` and lets the model accept or refuse the call) and `Write` (an UPDATE of the
whole row, computed by `Updated` from the copy, with its event), so other calls may
come in between. `Claim` is `claim_next`: one `SELECT ... FOR UPDATE SKIP LOCKED`
with its update. `Look` and `Add` are `enqueue`. `Matches` is the WHERE clause of
`save_owned`, `save_pending` and `save_reclaimed`, which is evaluated on the row at
the time of the write, as PostgreSQL does under READ COMMITTED. `Abandon` is a call
whose process or connection died before the commit.

Abstracted: a job is its rank in (priority desc, scheduled_at, created_at,
job_id); `since` is the later of created_at and started_at; error codes and
payloads. The repository ships no worker loop (ADR 0004), so the callers are
arbitrary and no liveness is claimed.

### `MediaActions`

A caller is a thread inside `start` or `resume`. Its label `at` follows the
nodes of the graph, then `MediaActionService`, then the adapter with its lock.
`RequireConnectionRevision` is the request that `propose`, `decide` and
`execute_approved` make first; `Lookup`, `Add`, `Read`, `Check`, `Save`, `Emit`
are the accesses to the approval repository and the audit sink; `Acquire`,
`Recheck`, `Replay`, `Perform`, `PerformFails`, `Verify` are the adapter. The
constant `Adapter` selects Jellyfin or the mock, which differ in how they verify
a replayed result (`Recognized`) and in retries. `shown` is the effects that the
server shows: a command adds its own and takes those away that it undoes (`Undoes`:
watched and unwatched, like and unlike), and other users may take any away
(`ServerChanges`, with `OtherHands`). So `Verify` finds another state than the one
carried out without any request that fails. `lost` counts the answers that were lost
after the server acted and `disturbed` the commands whose verification was spoilt,
by a failed request or by a lost effect; both are history for the properties.

Abstracted: a command stands for its digest, so two commands differ when any
parameter does; the mock's `fail_verification` is a server that shows nothing; the
authorization policy is a pure check and the principal is one
it accepts; an open circuit is one more request that fails; a graph thread can
be resumed whenever its approval exists, which allows more than the checkpointer
does. The events of one approval may interleave (executed may be recorded before
approved when two threads work on it), so `AuditTellsStatus` claims the set.

### `AgentJobStream`

Composes the log of `AgentJobLifecycle` (instance `Life`) with the server's
iterator (`stream`; `Connect`, `Refused`, `Yield`, `Stop`, `TimesOut` are
`agent_job_events` and `AgentJobEventStream.__anext__`), the frames under way
(`wire`) and the browser of `static/app.js` (`client`), which polls from the start
if it has no EventSource (`Submit`): `Deliver`, `Disconnect`
and `Break` are its EventSource, `PollAsk` to `PollFails` the polling chain that
`onerror` starts, `FinishRead`, `Show` and `ShowFails` are `finishAgentJob`,
`Deadline` is its timer. A read and its answer are two steps, so the row may
change in between. Abstracted: heartbeats, texts, the evidence.

### `IdentitySessions`

A request looks (`LookRegister`, `LookLogin`, `LookGuest`, `LookLogout`,
`Resolve`), locks the account's row if its operation does (`LockLogin`,
`LockAccount`), reads what to revoke under READ COMMITTED (`ReadLogin`, `ReadOne`,
`ReadAll`), commits and answers with a cookie. `lock` is `SELECT ... FOR UPDATE`
on the account; session rows are read without one. `Disable` and `Expire` are
the operator and the clock. Abstracted: tokens, hashes, the display name.

### `SubmissionJournal`, `ReviewLedger`, `SpeakerReview`

`SubmissionJournal` is `_submit_part`: an exclusive intent, the provider's call,
the completed record, any of which a crash may cut. `ReviewLedger` is what a
review promises to whoever pays: each part once, in order, nothing after the end.

`SpeakerReview` extends the journal with `run` (the state file, replaced whole and
without a lock), `files` and `cut` (write-once artifacts, complete or cut short by a
crash) and processes (`worker`) that act on the copy they loaded. `LoadState` is
`advance` and `submit`; `Poll`, `Download`, `PrimaryResults`, `AdjudicationResults`,
`FinalReviewResults` follow a batch; `ReadJournal` to `SaveState` buy the next part;
`Finalize` and `FailBatch` end the run; `Reprice` is `reconcile-costs`.
`LoadForResolution` to `PromoteOutputs` are `apply_resolution` of the human review.
A round is a stage or a retry of the final review; what the models answer is
fixed in `verdicts`, which both processes read from the same files. A batch of
results and the requests written with them are one artifact.

Abstracted or left out: texts, costs (the budget is one refusal), the workbench
page, and two commands that read a run that needs a human and change nothing as
long as the configuration is the same: `retry_incomplete_final_review` (its
retries are used up) and `submit_final_review` (its batches exist). The state is
replaced atomically (`replace_private_file`); the temporary file that a crash in the
middle of it leaves hinders nobody here, because the commands of an operator take
no inventory of the directory. `SpeakerReviewHost`, whose workers do, has it.

### `SpeakerReviewHost`

One run of two primary parts through the seventeen root scripts. `file` has the
claim, intent and receipt of each step with the state of the names on disk (staged,
linked, both), `host` the one script that holds the deployment's locks, `worker` its
container, which may outlive it. `WriteRecord`, `LinkRecord`, `UnlinkRecord`,
`Launch`, `Collect` are the scripts; the worker's steps are the workspace scripts
over `SubmissionJournal`. `Task` says what a step's script does next from the
evidence it reads; `Legible`, `Attested`, `Relinks`, `Replaced` say how the scripts
differ in what they accept and repair, which is where they are delicate.

An observer refuses output that is stored before the state says so
(`CheckpointHolds`): the host passes it the bindings of the run its script has seen,
and `_validate_expected_checkpoint`, or the inventory of the later observers, allows
no output of the part that is being observed. `Killed` is a worker that is ended:
it may leave half a completed record, or, in the middle of its save, a temporary file
or half an artifact (`spoiled`), which every inventory refuses from then on.

Left out: changed authorizations and runtime bindings, runs of three primary
parts, cost ceilings. Where a run stops for good, `StopsOnlyInWindows` names:
a submission between its paid call and the completed record (`PaidWindow`); any
worker while it stores outputs and state, or a script whose replacement may end a
worker there (`SaveWindow`); receipts that the third and fourth observation and
their neighbours do not rebuild (`ReceiptWindow`); an intent that the final
reviews take for a call (`IntentWindow`); and a record on its way to its name, such as
one that has two names after a crash between link and unlink, which several
scripts refuse to read for ever (`RecordWindow`).

### `CorpusProcessing`

`object`, `workspace`, `receipt` are names on disk, linked or synced; `index` is the
set of source versions of each episode that have points. `host` is the request
that holds the locks, `worker` the container of it and a stray. `Receive`,
`Publish`, `SyncObject` are the transfer; `Ingest`, `Materialize`, `Replay`,
`RunWorker`, `Recorded`, `Answer` the processing; `Upsert` and `Delete` the two
calls of `replace_source_version`.

Left out: `validate`, other catalogues and releases (the deployment lock excludes
them), staging residue. A revised episode without chunks, for which the code
deletes nothing, does not occur.

## 4. Runs

Each run finishes within five minutes with two workers.

| Run | Instance | Shows |
|---|---|---|
| `agent_jobs_recovery` | 1 process, 1 thread, 1 permit, 2 jobs, 1 outage, 1 restart, fair | `TypeOK`, `NoOrphan`, and `StoredJobsEnd`: every stored job ends |
| `agent_jobs_replicas` | 2 processes of 2 threads, 1 job, 2 permits, 3 outages, 1 restart, clock steps | `OneCallbackPerJob`, `PermitsAccounted`, `SingleExecution`, `LiveWorkKept`, `OrphansExplained` under all interleavings of HTTP, executor and recovery threads |
| `agent_jobs_lease_loss` | 2 processes, lost lock, clock steps, 1 outage | `EventLogCoherent` |
| `ingestion_jobs_fence` | 2 workers, operator, planner, 2 attempts, 1 heartbeat | `TypeOK`, `OwnedWritesFenced`, `PendingClaimable`, `LogTellsRow`, `EndsOnce`, `LeaseRespected` |
| `ingestion_jobs_enqueue_race` | 2 planners | the disagreement of section 5 |
| `media_actions_jellyfin` | Jellyfin, 2 callers, 2 commands on one key, 3 faults, lost answers, other users, 1 revision | `TypeOK`, `ApprovedWritesOnly`, `WrittenOnce`, `DecidedOnce` |
| `media_actions_mock` | mock, 3 callers, 2 opposite commands with a key each, 1 fault | `ExecutedIsVerified`, `AuditTellsStatus` |
| `agent_job_stream` | 3 events per stream, 2 read at once, 2 recoveries, 4 faults | `EventsOnceInOrder`, `ShowsWhatIsStored`, `EndReachesUser` |
| `identity_sessions` | 2 requests of one browser, cap 2, 2 passwords, 4 sessions | `TypeOK`, `ActiveCap`, `SessionsMatchPassword`, `EndsAll` |
| `speaker_review` | 2 processes, 4 rounds of 2, 1, 1 and 1 parts, 2 resolutions, 1 crash, 1 reprice | `TypeOK`, `PaidOnce`, `StateTellsRecords`, `ImplementsLedger`, `EndsOrStops` |
| `speaker_review_host` | 17 steps, 2 faults in neighbouring steps | `ReceiptTellsRun`, `StopsOnlyInWindows`, `ImplementsLedger`, `EndsOrStops` |
| `corpus_processing` | 2 objects, 2 episodes of which one is revised, 3 faults | `AlwaysFound`, `ReceiptTellsIndex`, `RetriesApply` |

### Bounds and why they are enough

* Two jobs are needed for a full semaphore, a second batch and a listed job that
  another thread admits first; two threads or two processes for every race the
  code guards against. No rule of the code counts beyond two of them, and the
  theorems of section 6 hold for any number. `agent_jobs_replicas` has one job,
  because each of its properties is about one job or one pool; in exchange it has
  the outages that their hazards need. Its job can have two permits at once, one
  of a thread that is about to give it back.
* `MaxOutages`, `MaxRestarts`: one outage may hit any call before or after its
  commit, and one restart may come between any two steps. Three outages interrupt a
  job, share its mark and fall into the recovery of it. `agent_jobs_recovery` is
  run with the one outage for which `NoOrphan` and `StoredJobsEnd` hold: with two,
  the shared mark breaks them (section 5). What holds then is `OrphansExplained`,
  and both its ways of losing a job do occur in `agent_jobs_replicas`.
* Deadlock is checked in all runs in which the system goes on for ever. It is not
  in `agent_jobs_lease_loss`, where a process that lost its lock stays up and idle
  until an operator restarts it, nor in `agent_job_stream`, `speaker_review` and
  `speaker_review_host`, which end: with an outcome shown, or a run that ended or
  waits for an operator. Their liveness properties tell the good ends from others.
* Ingestion: the passing run has one planner, because a second one racing to
  insert breaks the log (section 5); two attempts give a first and a last
  one, four instants let a lease run out and a retry come due, one heartbeat makes
  two leases end together.
* Media: two callers on one key meet at every guard, a third undoes what they
  did, and with three faults a command's answer is lost, its repetition fails and so
  does its verification. The clock has an instant before and after the expiry; one
  revision makes a command stale. Expiry and revision are in the Jellyfin run only,
  the opposite commands in the mock's, whose `verify` the property is about.
* Stream: three events to a stream are fewer than the log has after two
  recoveries, so streams end before the terminal event and a cursor beyond the
  limit is refused; a batch of two leaves events over.
* Identity: two requests are enough for every pair of operations on one account,
  and with four sessions a cap of two is passed unless the code revokes the oldest.
* Speaker review: two parts in the first round and one in each other round give
  each transition of `advance` (to a part, a round, a retry, an end); a batch id
  counts to two, so that a part could be paid twice. Two faults in neighbouring
  steps (`FaultSpan`) reach every pair of a script and its successor, which is as
  far as any script reads.
* Corpus: the second object shares one episode with the first and revises the
  other; three faults leave a stray, a torn workspace and a lost answer together.
* `TypeOK` of `AgentJobStream`, `SpeakerReviewHost` and `CorpusProcessing` is part
  of what is proved; no run lists it.
* Symmetry is used for interchangeable threads, processes, workers and callers,
  and never in a run with a liveness property.

### Fairness

* `AgentJobs`, `FairSpec` for `StoredJobsEnd`: weak fairness for the threads of a live process
  (operating system scheduling), for a conversation in progress to return (it
  runs under `RuntimeDeadline` and model timeouts), for a request that is past
  `create`, and for a stopped process to be started again (the restart policy of
  `deploy/compose.yaml`). Requests, crashes, shutdowns, faults and the loss of a
  lock are never forced.
* `AgentJobStream`: server and browser keep running, a refused cursor is answered;
  nothing makes the job end, and nothing makes a request fail.
* `SpeakerReview`: a command is repeated (`--wait`, or the operator) and the
  provider ends a batch within its window; no human has to resolve anything.
* `SpeakerReviewHost`: strong fairness for starting a script that would help,
  because scripts and containers alternate and each start is enabled again and
  again, not always; weak for a script and a container under way and for the provider.
* `CorpusProcessing`: the operator repeats the request, a request and its own
  worker keep running. A stray may hang.

## 5. Where the code disagrees with what it says, and known limits

`ingestion_jobs_enqueue_race`: the loser of an insertion race has the winner's
job id, is not recognised, and appends a second enqueued event. `PROJECT.json`
quotes the lines.

The following limits are in the models and decide the bounds and assumptions
above and below; where a constant or condition shows one, it is named.

Agent jobs
* The copy of the interrupted ids is used after the lock was released
  (`agent_job_service.py`); by then the job may be claimed again, and live work is requeued.
  `LiveWorkKept` allows it where an outage left a mark, and nowhere else.
* Requeueing a job and discarding its mark are two critical sections
  (`agent_job_service.py:452`): a second interruption in between loses its mark.
  `agent_jobs_recovery` with `MaxOutages = 2` violates `NoOrphan`; `OrphansExplained`
  names it `SharedMark`.
* A wall clock behind `started_at` makes the final row invalid and the job stays
  running. `agent_jobs_recovery` with `ClockSteps = TRUE` violates `NoOrphan`;
  `OrphansExplained` names it `RefusedOutcome`.
* Callbacks continue after the advisory lock was lost, and the process that takes
  over executes their jobs too: `SingleExecution` needs `~LeaseLoss`.
* A cursor beyond `sse_max_events` is refused with 422 although the document
  promises that a reader may reconnect (`docs/agent-jobs-api.md`); the browser's
  polling saves it, another client's does not.

Ingestion and media
* A cancellation compares the status only (`save_pending`), so it may overwrite a
  job that was claimed and retried since; a reclaim compares the end of a lease only
  (`sqlalchemy_ingestion_job_repository.py:341`), and a heartbeat can give a later
  lease the same end.
* The Jellyfin adapter does not recognise a replayed result, so an approval may
  stay executed and unverified; the mock verifies it, unless its request fails or the
  effect was taken back in between, by an opposite command for example. Nothing
  verifies such an approval later.
* A create or play request whose answer is lost is not recorded under its key
  (`jellyfin_media_provider.py:191`); starting the approved command again repeats
  it. `WrittenOnce` allows one more execution for each lost answer and no other. The
  documents promise no more than that the provider does not retry by itself.

Identity
* `issue_guest` answers an account's session with the token it was sent; a late
  answer may put a rotated token back into the cookie, and the next request
  starts as a guest.

Speaker review
* A crash between the first human queue and the state makes the replay write the
  second name of the queue too. A workbench that was prepared from the first is
  then refused a second time; the resolution is not, it is bound to the content.
* A stale process may save an older state over a newer one. The journals and
  write-once files make the replay converge, which is what `EndsOrStops` checks.
* A file cut short by a crash is never repaired by the workflow.
* An observation that dies between storing the output of its part and saving the
  state cannot be run again by its script: the worker refuses the output it finds
  (`observe_private_speaker_review_workspace.py:302`). The test
  `test_partial_output_after_crash_is_reused_by_the_observer` says that it is reused,
  with a worker that is stubbed.
* A worker that is ended while it replaces the state leaves a temporary file that
  every later inventory refuses.

Private corpus
* The locks end with the request and the container does not hold them. Two
  objects ingested at once (`overlapped`) can leave an episode without points while
  both receipts say applied, and no retry repairs it; the properties exclude it.
  The worker's own limit of 1740 s is not reached while its output is read, so the
  shell's 1800 s end the request and leave the container.
* An older object that was applied before answers `already_applied` although a
  newer one is in the index by now.
* `already_present` may be answered for an object whose name was not synced yet.
* A receipt is renamed without a sync of its directory; its loss only leads to
  another ingestion. A torn workspace stops its object until an operator removes it.

## 6. Proofs

Checked by `tlapm` for every value of the constants that satisfies the named
assumptions: bounds on faults are numbers, limits are positive where the code
makes them so, callers and processes are distinct, `NoProc`, `NoWorker` and the
like are not members, `Workers` is finite, each round of a review has a part.
Each of the eight modules proves one inductive invariant, `IndInvHolds`; the
theorems below follow from it, some with a second invariant for one property.
Where a theorem needs a hypothesis, it is in its statement and section 5 tells
what happens without it.

**`AgentJobsProofs`.** `IndInv` is `TypeOK`, where threads and jobs are when
(`ThreadsPlaced`), and for every process the exact relation between `scheduled`,
`queue` and the threads (`OneCallback`), what is empty in a process that is down
or draining (`Quiet`), and that a process with threads at work holds the lock
unless `LeaseLoss` (`UnderLock`). `OneCallbackPerJob` alone is not inductive: it
needs to know that a busy thread has a job and that a drained process has no
queue. The permits have an inductive invariant of their own, `PermitInv`, which
counts the busy threads. One lemma per action, grouped by thread.

* `TypeCorrect`, `CallbacksUnique`, `PermitsConserved`.
* `ExecutionsApart`: `SingleExecution` if the lock-bearing session survives
  (`~LeaseLoss`).
* `LiveWorkStays`: `LiveWorkKept` with `~LeaseLoss`, for any number of outages. A
  startup pass is alone in its process (`BootAlone`) and, by the lock, among the
  processes, so it cannot take live work; and the copy that the recovery thread
  works off holds marked jobs only (`CopyMarked`), although marks come and go.
* `OrphansAccounted`: `OrphansExplained` with `~LeaseLoss`, for any number of
  outages, restarts and clock steps: one lemma for the threads, the recovery thread
  and the processes each. It is why `NoOrphan` holds until one of the two
  named steps happens: a process has no orphan when its startup recovery ends, and no
  other step makes one.
* `LogCorrect`: the log is coherent, proved on the abstract specification and
  carried over.

**`IngestionJobsProofs`.** `IndInv` adds to `TypeOK` that rows are ones the model
class accepts, that pending rows have an attempt left, that calls hold what they
read, and `CopyCurrent`: while the WHERE clause of an owner's write would match,
the row is still the one it read. That is what fencing means and what
`OwnedWritesFenced` follows from. `RowChanges` lists the only ways a row changes;
`EndsOnce` and `LeaseRespected` follow from it.

* `TypeCorrect`, `QueueNeverBlocked`, `OwnerFenced`, `EndedForGood`,
  `LeasesRespected`.
* `LogTold`: `LogTellsRow` with one planner (`OnePlanner`), by `LogTrue`, which
  also says what a planner that looked and found nothing may rely on.
  `AloneEnqueuesOnce`: the double event of section 5 takes two planners.

**`MediaActionsProofs`.** `IndInv` says that an approval and its command appear
together (`KeyOK`) and what each caller has learnt and may rely on (`CallOK`): from
`Check` on, its approval is its own and approved or later. Approvals only go
forward, so other callers' steps keep it.

* `TypeCorrect`, `ApprovedWrites`, `DecidedForGood`.
* `CarriedOutOnce`: `WrittenOnce`, for either adapter and with lost answers. An
  execution is recorded under its key before the lock is released, so those that were
  not recorded are those whose answer was lost (`Recorded`).
* `AuditComplete`: `AuditTellsStatus`. Between a save and its event the trail
  lags behind; `AuditFollows` says by what: each stage reached is in the trail or
  in the hands of exactly one caller that will emit it.
* `ExecutedGetsVerified`: `ExecutedIsVerified` for the mock adapter; what was carried
  out is shown or was disturbed (`CarriedOut`), and whoever saved an execution goes
  on to verify it (`ExecutedInHand`).

**`AgentJobStreamProofs`.** What the iterator has read follows its cursor, what is
under way ends at the cursor as long as the browser listens, and all of it is in
the log (`StreamFollows`); what the browser was told of the end is the row's
(`EndKnown`), because a terminal row does not change.

* `TypeCorrect`, `EventsInOrder`, `ShownIsStored`.

**`IdentitySessionsProofs`.** The invariant says what a transaction that holds the
account's row relies on until it commits (`Knows`): sessions it read are not
locked, but without the row others can only end sessions. `NewestFew` is the
lemma about finite sets behind the cap: a set has at most `k` members with fewer
than `k` above them.

* `TypeCorrect` (with one holder of the row), `CapRespected`, `PasswordsMatch`,
  `AllEnded`.

**`SpeakerReviewProofs`.** Any old copy of the state may be saved over the file at
any time, so the invariant speaks of copies, not of the file: what a copy is
worth however old it is (`StateOK`), what a process at a step has learnt since
(`KnowsOK`), that whoever created an intent is alone with its part (`HoldersApart`), and
how journal, batches and files agree (`JournalOK`, `FilesOK`). It holds because
all that a copy relies on only grows.

* `TypeCorrect`, `PaidAtMostOnce`, `StateTells`.
* `LedgerImplemented`: the review implements `ReviewLedger`, initial states and
  steps, for any number of processes, rounds, parts and crashes.

**`SpeakerReviewHostProofs`.** Each side has its half. A worker in the middle of
its step is on the step after the saved one, of a run that has not ended, and
knows how far its part is paid for (`WorkerOK`); a script has all earlier receipts,
writes no record that is there, and reaches its receipt only when the state has
taken the step (`HostOK`, `RecordsOK`, `FilesOK`). A worker that outlives its script
is covered because both halves speak of the run directory only.

* `TypeCorrect`, `ReceiptsTell`.
* `LedgerImplemented`: the seventeen scripts implement `ReviewLedger` too. The run
  has two faults in neighbouring steps, the theorem any number anywhere.
* `StopsOnlyThere`: `StopsOnlyInWindows`, also for any number of faults anywhere.
  It needs an invariant of its own, `Held`, which is inductive relative to
  `IndInv` as long as no fault has hit a window (`Clear`): what each script must
  find in the run directory is there, or somebody is at the step that is about to
  put it there. `Held` has one conjunct for each thing that a fault in the wrong
  place would lose: a part paid for and not recorded (`PaymentsHeld`), a record
  on its way to its name (`RecordsHeld`), a receipt nobody rebuilds
  (`LastReceipts`), output nobody takes over (`OutputsHeld`), an intent that is
  taken for a call (`FinalReviewHeld`, `NextFinalReviewHeld`). Each fault outside
  the windows keeps it (one lemma for each action), and where it holds and nobody
  runs, an unfinished run has a script that helps: that of the saved step if its
  receipt is missing (`SavedHelps`), else that of the next step (`NextHelps`), or
  the first observation, which has to give its own receipt back its one name before
  the next script accepts it (`StandsStillFinished`). `Stuck` is stated with the guards of
  the scripts and not with `ENABLED`, which is what brings it in reach.

**`CorpusProcessingProofs`.** Unless two objects were ingested at once
(`overlapped`), every worker is on the object of the request and of the last
receipt (`OneObject`), and what it has done so far is in the index although
another worker of the same object may be ahead or behind (`Progress`).

* `TypeCorrect`, `ReceiptIsTrue`, `EpisodesStay` (`AlwaysFound`).

Only model-checked are the liveness properties `StoredJobsEnd`, `EndReachesUser`,
both `EndsOrStops` and `RetriesApply`: liveness under fairness is beyond the
prover, as `ENABLED` is. Every safety property of a passing run has a theorem. Of `EndsOrStops` of the host scripts,
`StopsOnlyThere` proves the half that is a safety property: where it may stop.

No module declares a `RECURSIVE` operator, and nothing here needs induction over
data.

## 7. Running

In this directory:

    tlc -workers 2 -config agent_jobs_replicas.cfg MCAgentJobs.tla
    tlapm AgentJobsProofs.tla

A run named `x` uses `x.cfg`; its module is in `PROJECT.json`. Operators marked
*Slip* in the modules are plausible mistakes: replacing the definition that
follows by its slip must break the property named in `PROJECT.json` "mutants".
