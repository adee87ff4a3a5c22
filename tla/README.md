# A TLA+ verification of remem's background work

remem records what happens in coding sessions and turns it into long-term
memory in the background. Short-lived hook processes append events; worker
processes pass them to extractors (calls to language models that take minutes
and fail in every way); dreams merge what has accumulated; commands and a
console let an operator review, repair and retract. All of these are separate
processes that share nothing but one SQLite database in WAL mode, a few lock
files, and append-only files for hooks that cannot open the database.

This directory holds models of that work, the TLC configurations that check
them, and TLAPS proofs of their main properties for every number of processes,
events, rows and attempts. Paths below are relative to the repository's root; in
`PROJECT.json` they carry the prefix `src/`, the place of the checkout.

## 1. Inventory

`PROJECT.json` lists every component with its files. In brief:

| Component | State | Operations | What is hard | Correct when | Model |
|---|---|---|---|---|---|
| Capture ledger (`src/db/capture*`) | `captured_events`, blobs, identities | record an event, coalesce its task, in one savepoint | runs while a worker holds the task; repeated events | every event has a live task that reaches it | `ExtractionQueue` |
| Extraction tasks (`src/db/extraction/*`) | `extraction_tasks` | claim, done, defer, wait, fail, exhaust, release, follow-up | decisions from a snapshot minutes old; lease expiry; the cursor jumps on failure | no event is dropped, none is owed twice | `ExtractionQueue`, `FollowupPipeline` |
| Replay ranges (`src/db/extraction_replay.rs`) | `extraction_replay_ranges` | record, retry, exact retry, quarantine, close, archive | several writers per range, autocommit sequences | a range closes only when all of it is processed; quarantine holds | the same |
| Extraction worker (`src/extraction_worker.rs`) | the claimed task, in memory | run next, run exact | timeout, crash, lost lease | each outcome settles its task once | `ExtractionQueue` |
| Extractors (`src/observation_extract.rs`, `src/memory_candidate*`, `src/graph_candidate`) | their output tables | read a range, write, hand on, complete | stages commit one by one and look at no lease | what a stage hands on is taken up by the next | `FollowupPipeline` |
| Failure lifecycle (`src/db/failure_lifecycle*`) | failure columns of four tables | auto retry, recover, archive, purge | retry budgets, races with live work | transient failures recover, permanent ones stay visible | `ExtractionQueue`, `JobQueue` |
| Job queue (`src/db/job/*`) | `jobs` | request, claim, settle, release, recover, coalesce, clean up | one active row per identity, late answers | a request is served by a run that began after it | `JobQueue` |
| Worker lock and launch (`src/worker/lock.rs`, `worker_launch.rs`) | lock files, heartbeat rows | acquire, bypass, probe, launch, beat | dead processes' heartbeats, reused pids | captured work finds a worker, exact replays stay alone | `WorkerLaunch` |
| Spill queue (`src/spill_queue.rs`) | two JSONL files, of observe and of Stop hooks, with their claims | append, claim, replay, supersede, finish, restore orphans | a crash between append and remove, torn lines, Stop payloads of one session | every spilled event reaches the database or is superseded by a recorded Stop | `SpillQueue` |
| Memory store (`src/memory/*`) | `memories`, `memory_state_keys`, console ledger | save, promote, govern, archive, restore, sweep | a pointer beside the rows decides what is shown | the newest text of a key is the shown one | `MemoryStore` |
| Dreams (`src/dream/*`) | clusters in memory, quarantined merges | read, ask, merge, quarantine, review | minutes between reading and applying | a merge replaces only what it has read | `MemoryStore` |
| User context, context injection, retrieval, workstreams, ingest, migration, installer, logs, front ends, evaluation | various | see `PROJECT.json` | mostly sequential, textual or I/O | see `PROJECT.json` | none |

Hooks call the capture ledger, which writes the task row, or the spill queue
when the database is out of reach. The worker loop releases leases, runs failure
maintenance, and claims from the job queue and the extraction queue. Extractors
write candidates and enqueue follow-up tasks in the same queue; approved
candidates and dreams write the memory store. Operators act on ranges, jobs,
candidates and memories. Nothing notifies anybody: every interaction is a row, a
file or a lock that another process looks at later.

## 2. Plan

The order followed the cost of a mistake: first what could lose an event, then
what could lose a request, then what could show the wrong memory.

1. **Done.** The extraction queue of one stage: `ExtractionRows`,
   `ExtractionQueue`, the abstract `EventLedger`, and the proofs of both.
2. **Done.** The jobs table, `JobQueue`, with the abstract `CoalescedRequest` and
   proofs; `WorkerLaunch`, the processes around both queues, with proofs.
3. **Done.** `SpillQueue`, the files in front of the capture ledger, with proofs.
4. **Done.** `FollowupPipeline`, three stages of extraction over the rows of
   `ExtractionRows`, with proofs.
5. **Done.** `MemoryStore`, the rows the pipeline and the dreams end in, with
   proofs.
6. **Open.** Late git evidence and the purge of ranges as extensions of
   `ExtractionQueue`. Every invariant and every action property of a passing run
   has its theorem; liveness stays with TLC.

## 3. Modules

| Module | Content | Proofs |
|---|---|---|
| `ExtractionRows` | the rows of the two extraction tables and what each SQL statement does to one row; no variables | |
| `ExtractionQueue` | capture, workers, maintenance, operator and exact replay over one session's tasks of one kind | `ExtractionQueueTypes`, `ExtractionQueueInvariant`, `ExtractionQueueSafety` |
| `EventLedger` | the abstract promise: events are captured, processed while they are owed, and settled once | in `ExtractionQueueSafety` |
| `FollowupPipeline` | observation, memory and graph extraction as a chain of tasks, with the ranges and follow-ups of each | `FollowupPipelineProofs` |
| `JobQueue` | the jobs table: requests, cleanup scheduling, claims, outcomes, release, recovery, archive, purge | `JobQueueProofs` |
| `CoalescedRequest` | the abstract promise of coalesced requests | in `JobQueueProofs` |
| `WorkerLaunch` | worker processes, their lock, their heartbeats, and the hooks that start them | `WorkerLaunchProofs` |
| `SpillQueue` | one of the two spill files, its claims and dead letters, under the hooks of its kind | `SpillQueueProofs` |
| `MemoryStore` | memory rows, state keys, the console's ledger and the dreams | `MemoryStoreProofs` |
| `MC...` | the sets TLC uses for each | |

### ExtractionQueue: state and actions

| Variable | In the code |
|---|---|
| `head` | the number of `captured_events` rows of the session |
| `task[Main]` | the session's row in `extraction_tasks` for one kind |
| `task[r]` | the replay task of range `r`, whose idempotency key ends in `replay-range:<id>` |
| `range[r]` | the row of `extraction_replay_ranges` with the bounds `r.from`, `r.to` |
| `worker[w]` | the `ExtractionTask` a process got from its claim, and how far it is in settling it |
| `processed` | history: events covered by an accepted completion |

| Action | Code |
|---|---|
| `CaptureEvent` | `record_captured_event_inner` with `coalesce_extraction_task`, one savepoint |
| `ClaimNext` | `claim_next_extraction_task`, one transaction |
| `MarkDone`, `MarkReplayed`, `ClearLinked`, `ClearSource` | the four autocommit statements of `mark_extraction_task_done` and the functions it calls; a crash or another process may come between any two |
| `Defer`, `Fail`, `Wait` | `defer_claimed_extraction_task`, `mark_claimed_extraction_task_failed_or_retry`, `wait_extraction_task` |
| `Exhaust` (within `Defer` and `Fail`) | `exhaust_extraction_task`, one immediate transaction |
| `LoseLease` | the error every settling statement returns when it matches no row |
| `Crash` | the end of a process at any point after its claim |
| `ReleaseExpired` | `release_expired_extraction_task_leases`, one transaction over any set of held tasks |
| `AutoRetry` | `retry_due_extraction_replay_ranges`, for one range; it may end between its two statements |
| `RetryRange`, `QuarantineRange` | the operator's commands, one transaction each |
| `ArchiveRanges` | `archive_eligible_failures` on ranges |
| `ExactClaim`, `ArchiveExact` | `retry_and_claim_extraction_replay_range`, and every outcome of `run_claimed_exact` but full completion |

- **Time is left out.** A lease may run out, a retry fall due and a failure
  grow old in any state. This allows more behaviours than the clock does, among
  them a lease that expires under a live worker (a suspended machine).
- **Events of the session have dense ids** `1 .. head`. In the database the ids
  of a session are increasing with gaps; no statement depends on density. A
  NULL cursor is 0, as every statement reads it (`COALESCE`, `unwrap_or(0)`).
- **A repeated event** (`extraction_task_for_replayed_event`) without late git
  evidence returns its task and changes nothing, so it is a stutter.
- **One session, one kind.** A kind without follow-ups (`CapturedGitLink`,
  `GraphCandidate`, `UserContextCandidate`) has one task per range; the others
  are `FollowupPipeline`.
- **Batches** (`retry_extraction_replay_ranges`, its quarantine counterpart) are
  compositions of the single operations in one transaction; the ranges are
  independent. Automatic retry handles up to 25 ranges in autocommit, so one at
  a time.
- **Automatic retry** keeps its query open while it writes. In WAL mode a write
  of another process after the query began makes the next write fail with a
  stale snapshot, so no foreign write comes between its two statements; the
  process can still die there (`interrupted`).
- **A process that loses its lease** gets an error and ends; its successor has a
  new owner string. The model reuses the name `w` after it has forgotten its
  claim, which no statement can tell apart.
- **Several workers at once are real** (`WorkerLaunch`), so the queues have any
  number of ordinary processes and do not assume the singleton.
- **Error texts** are their failure class, `archived_at_epoch` of tasks is left out
  (it only affects statistics and the purge), and `requeue_due_extraction_tasks`
  is not an action because it is never enabled: `ExhaustedTaskIsNotRequeued`
  states that and is proved.

`MaxEvent` and `MaxRangeAttempts` are bounds of the model: events captured, and how
often an operator or an exact replay retries one range. `MaxAttempts` (5) and
`AutoRetries` (3) are constants of the code, smaller in the runs.

### FollowupPipeline

The same rows for three stages. A run is `running`, `loaded` (its input is read),
`written` (its output is committed), `handed` (the follow-up is upserted), and then
marks its task done; none of these statements but the last looks at the lease, so a
process whose lease was taken away writes and enqueues beside its successor.
`Followup` is `enqueue_followup_extraction_task`: it revives a task that is done or
failed, keeps the cursor of one that is live, and links the follow-up of a replay
to the range. `Blocked` is what the graph stage asks before it reads
(`graph_candidate_blocked_by_memory_candidates`). Observations are the interval of
events they cite; memory candidates that wait for a reviewer are the events they
cite. What `ExtractionQueue` has in full is coarser here: `MarkReplayed` is one
step, and exact replays, interrupted retries and archived rows are left out. So
are the rollup's follow-ups and the bounded follow-up of a git link.
`lapsed` is history: the ranges of which a follow-up was exhausted. `MaxMishaps`
bounds failed runs, crashes and leases lost by a live holder together.

### JobQueue

An action is one write transaction; a kind stands for one identity. The unique
indexes of `jobs` are in no guard: that no statement runs into them is
`IdentityIsExclusive`. A claim is in memory until the process reports
(`running`, then `reporting` for cleanups, whose failure is recorded in a second
transaction). `cooling` is the dream's debounce and the cleanup's window;
`compileDue` and `cleanups` are history. `MaxJob` bounds the rows.

### WorkerLaunch

A process is its pid, and pids are used again. `lock` is `worker.lock`, `launch` is
`worker-launch.lock`; the system drops both when their holder dies. `beats` are the
heartbeat rows young enough to count as healthy (the query reads the ten newest, the
model has no limit); `Age` makes one too old, at any
time for a process that may be silent that long. The steps of a hook and of a
worker's admission are the queries and lock calls in their order. Roles: `once`,
`daemon` (of this version), `old` (a daemon of another version), `exact`.

### SpillQueue

There are two files, `capture-spill.jsonl` (`src/observe/spill.rs`) and
`summary-hook-spill.jsonl` (`src/summarize/summary_job/spill.rs`), each with a lock,
claims and dead letters of its own, and each replayed only by the hooks of its kind.
Nothing connects them, so a behaviour of the module is about one of them, and `kind`,
chosen at the start, says which. The observe hook replays what others left before it
records its event, the Stop hook afterwards.

A file is the set of events with a whole line, the set whose line was glued to a
torn one, and whether it ends in the middle of a line; equal lines are one.
Actions are the single file operations and database transactions, so that a process
can die between any two; those under the file lock keep others out.

A Stop hook knows the session it stops (`session`, a `(host, project, session)`
identity). When it replays, it drops the spilled payloads of this session without
recording them (`Supersedes`, `Discards`;
`src/summarize/summary_job/hook.rs:109-119`); `superseded` is the history of these
events, `stopped` that of the events of whose session a Stop hook has recorded its own
payload. The git evidence such a payload may leave is not an event of its own and is
left out. `Captures` is what `Records` and a successful replay do to the database;
`FollowUpFails` is a failure after the event is in the database: an observe hook
spills it all the same, a Stop hook gives up. `Faults` selects which operations may
fail, `MaxMishaps` bounds deaths and torn writes.

### MemoryStore

| Variable | In the code |
|---|---|
| `rows` | `memories` of one project, owner and type, in the order of their ids |
| `current` | `memory_state_keys.current_memory_id` |
| `ledger` | `api_mutation_requests` |
| `dreams` | clusters a dream process has read and not decided on |
| `proposals` | quarantined merges that wait for a reviewer |
| `now`, `writes` | the clock in seconds; the number of writing transactions, which serves as `web_version` |

`by` and `stamp` of a row are history: the operation that last set its text or its
status, and the write that last set its text. `SaveText` and `SaveNoop` are
`save_memory`: a save that repeats text, files and branch of the matching active row
is a noop, one with other files writes the row again; `Approve` is
`promote_candidate_to_memory` and `DreamApprove` its use for a quarantined merge;
`Govern` is `govern_memories` for a deletion or a mark of staleness and `Acknowledge`
the same function for an instruction pattern, which moves the version of a row of any
status and leaves status and archive marker alone; `WebArchive` and `WebRestore` the
console's; `ArchiveStale` is the cleanup sweep; `DreamRead` is `load_clusters`, and
the other `Dream` actions the ways a cluster or a proposal ends. The model's answer is
any topic, any text and any part of the cluster. Triggers of the schema (`Marked`, the
version) are part of every update. Preferences and lessons (which match rows by more
than the topic), which texts read like an instruction, expiry, suppression, edges,
entities, embeddings, and the record of dream decisions with its cool-down are left
out. `rejected` is not a status of its own: it differs from `deleted` in wording only.

## 4. What is checked

Definitions named `Wrong...` in the modules are plausible slips of the statement
they stand next to. Each property of a passing run has one that TLC finds it to
reject.

| Run | Instance | States | Shows |
|---|---|---|---|
| `ExtractionQueue` | two ordinary workers, 2 events, `MaxAttempts` 2, `AutoRetries` 1, `MaxRangeAttempts` 2 | 534,512 | the five invariants, `QuarantineIsSticky`, and that the queue implements the ledger |
| `ExtractionExact` | one ordinary and one exact process, 2 events, `MaxAttempts` 3, `AutoRetries` 2, `MaxRangeAttempts` 3 | 198,645 | `ExactStaysContained`, the same refinement with exact claims and archived quarantine, and `EveryEventSettles` under `FairSpec` |
| `JobQueue` | two workers, one identity of each of the four kinds, one profile, 2 rows, `MaxAttempts` 2, `AutoRetries` 1, with `mark_job_exhausted` | 322,674 | exclusivity, debts, windows and leases of jobs; every job settles; compilations implement `CoalescedRequest` |
| `WorkerLaunch` | three pids; a daemon of another version and exact replays besides the hooks' workers | 444,280 | `BarredWorkersStayOut` |
| `WorkerLiveness` | three pids; a daemon of another version besides the hooks' workers | 176,944 | `WorkIsServed` under `FairSpec` |
| `SpillQueue` | two processes, the file of either kind of hook, two sessions, one event of the first, every operation may fail, one death or torn write | 368,845 | no spilled event is lost but for superseded Stops, and no line stays in a file under `FairSpec` |
| `FollowupPipeline` | two workers, 2 events, three stages, `MaxAttempts` 2, `AutoRetries` 1, `MaxRangeAttempts` 2, two mishaps | 985,374 | `HandedOnIsTaken`, `WaitsOnTheLiving` |
| `MemoryStore` | four topics (two with keys from the text, two sharing a stable key), two texts, two console operations, 3 rows, 5 writes, 2 seconds, 2 dreams | 488,371 | the five properties of the store |
| `ExtractionBudgetFinding`, `ExtractionCloseFinding`, `ExtractionRequeueFinding` | as `ExtractionQueue` | | findings 1 to 3 |
| `SpillLostFinding` | as `SpillQueue`, without deaths and torn writes | | finding 4 |

**Why the bounds are enough.**

- *Events.* With two events a claim can hold the first while the second arrives,
  which is what exhaustion, partial completion and the watermark rule
  distinguish; two ranges can lie side by side or one can span both.
- *Attempts.* Two are the least that separate "try again" from "give up", and
  `AutoRetries` stays below `MaxAttempts` as in the code.
- *Processes.* Two suffice for every race on a row, since each statement checks one
  owner. `WorkerLaunch` has three: a hook, the holder of the lock, and the one that
  has bypassed it.
- *Jobs.* Two rows are a failed row beside active work of its identity, or a running
  compilation beside a pending one; the four kinds differ in identity only.
- *Spill.* One event is enough because lines are independent but for glueing, and
  the line it is glued to is the torn half of the same event. Two processes are
  one that dies with a claim and one that finds it. Two sessions are that of the event
  and another; a Stop hook without an event is a later Stop of either, so one event is
  also the older, or the newer, of two Stops of its session.
- *Rows of the store.* Three are what a merge of two members and a third row beside
  them need; five writes are two saves, an archive, a revival and a restore.
- *Mishaps.* Two in the pipeline are a stale worker and the failure of its
  successor, with the operator's retries and quarantines beside them at any time.

Where a theorem of section 5 states a property, it holds without any of these
bounds; they matter for what is only model-checked.

**Deadlock** is not checked in any run: each system may come to rest, when all work is
done or given up and the bounds on new work are reached.

**Symmetry** is used for pids (`WorkerLaunch`) and for topics, texts with their keys,
and operations (`MemoryStore`), in runs without liveness properties only.

### The properties

*Extraction queue*

- `NoEventLost`: a captured event is processed, or ahead of the cursor of a live
  primary task, or in a range that is not replayed. Exhaustion moves the cursor
  over events nobody processed, from a snapshot, while hooks extend the row.
- `SnapshotIsCurrent`: a lease holder's remembered cursor, attempts and
  watermark are still those of the row, up to appended events. This is why the
  code may compute updates from the claim rather than read the row again.
- `RangesAreDisjoint`: no event is in two ranges, or in a range and ahead of the
  primary cursor.
- `ExhaustedTaskIsNotRequeued`: requeueing an exhausted task would run it on
  nothing and erase its failure; it never qualifies.
- `QuarantineIsSticky`: only a requeue, with the replay task live in the same
  step, takes a range out of quarantine.
- `ExactStaysContained`: a task held by an exact replay ends done, or failed with
  its range in archived quarantine, whoever ends it.
- `ImplementsLedger`: seen from the events, each step is a capture, an accepted
  completion, the closing of a fully processed range, or nothing. In particular
  no event is owed again after it was settled.
- `EveryEventSettles`: once disturbances stop, every captured event is processed
  or lies in a range maintenance will not touch again.

*Job queue*

- `IdentityIsExclusive`: no two rows of one identity are active, and for
  compilations one may wait behind the one that runs. The schema has unique
  indexes for this; a statement that ran into one would end the worker loop.
- `CompileRequestIsOwed`: a compilation requested while another runs stays pending
  until a later run is claimed, whatever retries, released leases and recovery
  merge in the meantime. `CompileRequestsCoalesce` is the refinement behind it.
- `CleanupOncePerWindow`: crashes, expired leases and retries of failed runs never
  add up to two automatic cleanups in one window.
- `CoalescedSourceRests`: a row that failed for good, or whose work was taken over,
  is never run again.
- `LeaseEndsByHolder`: a lease that has not run out ends only by the answer of its
  holder; answers of earlier holders change nothing.
- `EveryJobSettles`: once processes stop dying, every pending job ends done or failed.

*Worker processes*

- `BarredWorkersStayOut`: a once worker that found the lock taken and an exact
  replay running never runs beside that replay. The probes for the replay and for
  an old daemon are two queries with processes coming and going between them.
- `WorkIsServed`: captured work is done in the end, although a hook may leave it to a
  worker that has just found the queue empty. A later hook makes it good.

*Spill queue*

- `SpilledIsKept`: an event in the spill file stays in one of the places some hook
  looks at, whichever operation fails and whoever dies between two steps. A Stop payload
  may also be dropped, but only once a Stop of its session is in the database: the hook
  that drops it has recorded its own payload, in a transaction of its own, before it
  looked at the file.
- `StopEventLands`: a Stop hook has recorded or spilled its event before it touches
  the spilled events of others, so their failure cannot cost it its own.
- `SpilledIsDelivered`: once failures stop, later hooks of its kind bring every spilled
  event to the database or the dead letters, also from claims of the dead, or drop it as
  the Stop of a session that has stopped again. No line stays in a file for ever.

*Pipeline*

- `HandedOnIsTaken`: an event that an accepted run handed on is covered by the next
  stage, or a live task or an open range still owes it. The follow-up is upserted
  by a process that may have lost its lease, onto a task in any state. The one
  exception is a range whose follow-up was exhausted (`Lapsed`); the divergences
  below say how such a range can close without it.
- `WaitsOnTheLiving`: a graph task waits, without spending attempts, for memory tasks
  in its way; all of them are live. It is the safety form of "waiting ends":
  with it, the fairness of `ExtractionQueue` for the memory stage ends every wait.

*Memory store*

- `PointerOwnsKey`: a state key points at a row that carries the key, also after the
  row was rewritten under another key, or none.
- `NewestTextIsShown`: an active row is hidden only behind a later text of its key.
- `MergeSawWhatItReplaces`: a dream's answer, or its later approval by a reviewer,
  replaces only rows that are still, version and text, what the model was shown.
- `RestoreReturnsTheArchived`: the console's restore brings back a row only when the last
  operation that set its status or text was the console's own archive. Acknowledging a
  pattern in between sets neither: it moves the version, the console reads the new one,
  and the restore succeeds.
- `ReviewLeavesOne`: a promotion leaves its row the only active one of its key,
  although saves and restores may have left several side by side.

### Fairness

Every liveness property has the form "if disturbances stop, then": crashes and
expiring leases of live processes may occur without end, and no code can make
progress under them. All fairness is weak except where named.

- **`ExtractionQueue!FairSpec`**: a worker process exists and drains: each pending
  task is claimed eventually, a process settles what it runs (a timeout bounds
  every extractor), expired leases without a holder are released, and due ranges
  are retried. The code gives this by the daemon's loop, and hooks start a worker
  when none is alive. None is assumed for captures, exact replays, archiving or
  the operator. The premise excludes infinitely many crashes, waits, operator
  commands and leases that expire under a live holder. Each exclusion is needed: a
  crash or a wait spends no attempt, and claims take the oldest task first, so an
  operator who retries one hopeless range for ever starves the others.
- **`JobQueue!FairSpec`**: a process answers for what it holds, the lease of a dead one
  runs out and is released by the next worker loop, and (strongly) a pending row
  is claimed: a running compilation disables the claim of a pending one again and
  again, but each run is bounded and claims take the oldest due row.
- **`WorkerLaunch!FairSpec`**: live processes take their steps and beat, hooks keep
  coming, rows of dead processes age. Strong fairness is for finding a free pid for
  the worker to start, which others take and free. The premise excludes crashes,
  processes started by hand, and a running daemon that is silent for the eight
  minutes of the health window.
- **`SpillQueue!FairSpec`**: hooks of the kind the file belongs to keep coming, of
  whatever session (lines of the Stop hooks' file wait for a Stop hook); processes
  take their next step, strongly because they wait for a file lock that the system
  hands on; the claim of an ended process becomes old enough to be restored. The
  premise excludes infinitely many failures.

### Findings

1. **A new range inherits spent attempts** (`NewRangeHasFreshBudget`). When events
   arrive while a claim is being processed, `mark_extraction_task_done` sets the
   task back to pending with the attempts of the range it finished
   (`src/db/extraction/lifecycle.rs:201-218`). The coalesce statement's comment
   (`src/db/capture/extraction_task.rs:51-54`) gives the reason this is wrong, and
   exhaustion resets the counter in the same situation.
2. **A crash strands a replayed range** (`ReplayDoneClosesRange`). The task is
   marked done and the range closed in separate statements
   (`src/db/extraction/lifecycle.rs:200-222`). A process that ends in between leaves
   the range `requeued` without a live task, where neither retry, quarantine nor
   archiving selects it, and the source task stays failed.
3. **The requeue of no-range tasks never applies**
   (`TransientTaskFailureIsRequeuable`). It requires fewer than 3 attempts, a
   transient failure is only reached at 5, so the recovery path that
   `docs/specs/failure-lifecycle/TECH.md:147-150` describes is dead code. The test
   for it writes a row by hand that the program does not produce.
4. **The observe hook drops its event when the replay of older ones fails**
   (`AcceptedEventLands`). `src/observe/hook.rs:82` returns with `?` before the live
   event is recorded, spilled or counted as dropped, where
   `docs/specs/SPEC-memory-system-v2-no-compat-2026-05-08.md:1000` promises that every
   accepted event lands in the ledger or an explicit drop record.

### Further divergences met while modelling

These follow the code in the models; no run of its own checks them.

*Jobs, processes and spill*

- Recovery of failed jobs has the same limits as finding 3: a transient failure is
  reached at 6 attempts (`src/db/job/enqueue.rs:180`), recovery requires fewer than 3.
  Only `mark_job_exhausted` leaves such a row, and nothing outside tests calls it;
  the run enables it (`Exhausts`), so that recovery is exercised.
- A process that finds the singleton taken asks for a running exact replay and then
  for an old daemon (`src/worker/lock.rs:48-62`). An exact replay that begins after
  the first question is not seen, so a once worker can run beside it.
  `BarredWorkersStayOut` is the weaker statement that does hold.
- Two current once workers can overlap beside an old daemon: each may bypass the lock
  while the launch heartbeat of the other is not yet, or no longer, in its view.
  `docs/specs/legacy-observation-retirement/TECH.md:344-346` says the heartbeat
  prevents that.
- The drop row is written after the spilled event is visible to other hooks
  (`src/observe/hook.rs:101`). A hook that replays the event in between finds no row,
  and the count of dropped events stays one too high.
- A Stop hook that replays drops every spilled payload of its own session
  (`src/summarize/summary_job/hook.rs:109-119`) and records no more than the git evidence
  it carries (`src/summarize/summary_job/hook.rs:588-634`). For an older state of the
  session this is what the test `current_stop_payload_wins_over_same_session_spill_replay`
  (`src/summarize/summary_job/spill/tests.rs:62`) asks for. The comparison is of the
  identity alone, so a newer Stop that spilled after the replaying hook had recorded is
  dropped too. In neither case is there a drop record, which
  `docs/specs/SPEC-memory-system-v2-no-compat-2026-05-08.md:1000` promises for an
  accepted event that does not land.

*Pipeline*

- A stale observation worker may enqueue a follow-up linked to a range that was
  quarantined meanwhile. Its exhaustion sets the range to failed without looking
  at the quarantine (`src/db/extraction/exhaust.rs`), and automatic retry then takes
  it up, where `docs/specs/failure-lifecycle/PRODUCT.md:112-115` requires an explicit
  acknowledgement.
- When the follow-up of a range has failed and the range is retried, an observation
  run that now finds nothing enqueues no follow-up: the old one stays failed and the
  range stays requeued with no live task.
- A range can close over what its follow-up owes. A replayed observation run hands on
  its events, and the follow-up linked to the range fails for good, which fails the
  range (`src/db/extraction/exhaust.rs:101-117`). Quarantining the range clears the
  failed tasks linked to it (`src/db/extraction_replay.rs:260-273`); retried after that,
  the observation run may find nothing (`src/observation_extract.rs:160-164`), hand on
  nothing and close the range as replayed. The observations of the first run are never
  read by the memory stage. `HandedOnIsTaken` exempts these ranges; without the exemption
  TLC finds this history with three mishaps.
- A process that dies after it has committed observations, and whose successor finds
  none, leaves the observations without a follow-up. A successor that repeats the run
  after the follow-up was consumed commits observations behind the memory
  stage's cursor. In both cases the *events* were handed on by no accepted run, or
  were covered; `HandedOnIsTaken` speaks of those.
- `link_matching_replay_range_for_bounded_retry` fails when the bounded task is being
  processed or done while its range is pending, failed or requeued.
- A memory task that an exact replay has archived is failed with its cursor
  unchanged, which the blocking query counts as in the way: graph tasks behind it
  wait for ever. The pipeline has no exact replays, so `WaitsOnTheLiving` does not
  contradict this.
- A memory run whose input reaches beyond its watermark enqueues a graph task with a
  later watermark, for which the blocking query does not see that memory task.

*Memory store*

- Saving or approving a text that an active but hidden row already has answers
  `Noop` and leaves the row hidden (`src/memory/operation.rs:142`), where
  `docs/specs/SPEC-audit-remediation-2026-05-29.md:85` calls a write to a topic a
  reassertion of currency.
- A save that revives a row with an outgoing `supersedes` edge leaves the edge: lists
  show the row, the summary's filters hide it (the same document, line 134).
- A direct dream merge whose result has a state key takes the pointer from a row
  outside the cluster. The approval path refuses the same thing.
- Deleting the row a key points at, or marking it stale, leaves older active rows of
  the key hidden behind it. `NewestTextIsShown` allows that: the later text exists.

## 5. What is proved

Every theorem holds for any number of processes, events, rows, texts and keys, and any
attempts. The assumptions are `RowsAssumption`, `QueueAssumption`,
`PipelineAssumption`, `JobQueueAssumption`, `LaunchAssumption`, `SpillAssumption`,
`KeyAssumption` and `BoundAssumption`: values that stand for "none" are not among the
real ones, counters are natural numbers, `AutoRetries <= MaxAttempts`, the events that
are ever spilled are finitely many and each has a session, topics with a stable key
have one. TLC evaluates them in every run of their module.

| Module | Theorem | Statement |
|---|---|---|
| `ExtractionQueueTypes` | `TypeCorrect` | `Spec => []TypeOK` |
| `ExtractionQueueInvariant` | `InvariantHolds` | `Spec => []IInv` |
| `ExtractionQueueSafety` | `EventsAreKept` | `Spec => []NoEventLost` |
| | `SnapshotsAreCurrent` | `Spec => []SnapshotIsCurrent` |
| | `RangesStayDisjoint` | `Spec => []RangesAreDisjoint` |
| | `ExhaustionIsFinal` | `Spec => []ExhaustedTaskIsNotRequeued` |
| | `QuarantineHolds` | `Spec => QuarantineIsSticky` |
| | `ExactIsContained` | `Spec => ExactStaysContained` |
| | `QueueImplementsLedger` | `Spec => ImplementsLedger` |
| `FollowupPipelineProofs` | `PipelineTypes` | `Spec => []TypeOK` |
| | `CoverHolds` | `Spec => []Cover` |
| | `GraphWaitsOnTheLiving` | `Spec => []WaitsOnTheLiving` |
| | `NothingIsLostBetweenStages` | `Spec => []HandedOnIsTaken` |
| `JobQueueProofs` | `JobInvariant`, `JobTypeCorrect` | `Spec => []IInv`, `Spec => []TypeOK` |
| | `IdentitiesAreExclusive` | `Spec => []IdentityIsExclusive` |
| | `CompileRequestsAreOwed` | `Spec => []CompileRequestIsOwed` |
| | `CleanupsAreRare` | `Spec => []CleanupOncePerWindow` |
| | `LeasesEndByHolder` | `Spec => LeaseEndsByHolder` |
| | `CoalescedSourcesRest` | `Spec => CoalescedSourceRests` |
| | `CompilationsCoalesce` | `Spec => CompileRequestsCoalesce` |
| `WorkerLaunchProofs` | `LaunchInvariant`, `LaunchTypeCorrect` | `Spec => []LInv`, `Spec => []TypeOK` |
| | `BarredStayOut` | `Spec => []BarredWorkersStayOut` |
| `SpillQueueProofs` | `SpillSafety` | `Spec => []SpilledIsKept` |
| | `StopEventsLand` | `Spec => StopEventLands` |
| | `SpillTypes` | `Spec => []TypeOK` |
| `MemoryStoreProofs` | `TypesKept` | `Spec => []TypeOK` |
| | `PointerOwned` | `Spec => []PointerOwnsKey` |
| | `NewestShown` | `Spec => []NewestTextIsShown` |
| | `MergeSaw` | `Spec => MergeSawWhatItReplaces` |
| | `RestoreExact` | `Spec => RestoreReturnsTheArchived` |
| | `ReviewAlone` | `Spec => ReviewLeavesOne` |

### Extraction queue

`NoEventLost` is not inductive: nothing in it says that a range marked replayed was
processed, or that exhaustion records what the cursor skips. `IInv` adds, besides
`TypeOK`:

- `PrimaryInv`: the primary task's watermark is the last event, and it is
  terminal only with its cursor there;
- `ClaimInv`: `SnapshotIsCurrent`, and exact processes hold replay tasks only;
- `ReplayInv`: a replay task stays within its range; while it lives, what its
  cursor has passed is processed and its range is neither replayed nor
  quarantined; a range is replayed only when all of it is processed;
- `ClearingInv`: a process that clears up after a replay has closed its range;
- `CoverInv`: every event behind the primary cursor is processed or in a recorded
  range, and the ranges are disjoint.

The invariant's parts lean on each other. Exhaustion keeps `CoverInv` because
the snapshot is current (`ClaimInv`), so that the skipped range starts where the
processed events end. Completion of a replay keeps `ReplayInv` because its
snapshot ends at the range's last event. The retry query's condition that no
linked task is live keeps the snapshot of a running replay current. Each part
has a frame lemma for the steps that leave it alone, and each action a lemma
for the parts it disturbs.

For the refinement, an event is owed exactly when it is ahead of the primary
cursor or in an open range (`OwedForm`), so all but four kinds of step are
stutters; exhaustion is one of these because the range it records takes over
just the events the cursor skips.

### Pipeline

Three invariants, each inductive on top of the one before, so that the long case
splits of one layer need not carry the formulas of the next.

- `TypeInv` (`TypesHold`): the types, and nothing speaks of events to come. Every
  observation, recorded range and task of a range ends at or before `head`
  (`Rooted`), and so does what a process claimed or read (`AllSound`). Only with
  this is a follow-up's watermark, the maximum of what a run has read, an event.
- `Shape` (`ShapeHolds`): the replay task of a range and its memory follow-up end
  where the range ends and never start before it; a failed row has its cursor at
  its watermark (`RowsFit`). What a process has read is an interval that meets its
  claim, and as long as it owns the row, the row starts where it was claimed
  (`ClaimsFit`). `WaitsOnTheLiving` follows from this layer: a failed memory task has
  nothing ahead of its cursor and cannot be in a graph task's way.
- `Cover` (`CoverHolds`): `HandedOnIsTaken` alone is not inductive, because it does not
  say why a revived or completed row may pass over what is behind its cursor.
  `MainPassed` and `Passed` say it: what a cursor has passed was taken by that stage
  and, for the task of a range, by the one after it as well. `ClaimPassed` and
  `Handing` say the same of a claim and of a run whose follow-up is enqueued but
  whose completion is not, which is what a process that has lost its lease still
  holds. `ReplayCovers` says that a finished replay has covered its range, so that
  closing the range gives nothing up.

A step changes one row and perhaps a range. `Taken` only grows under most of
them, so each action has a lemma for the parts it disturbs, over lemmas on what
the row operators do to cursor and watermark. The hard cases are `Followup`,
where the new watermark may exceed the row's while the cursor stays, and
`MarkReplayed`, where the range stops owing: its linked tasks are done, and
`ReplayCovers` says that its replay has covered it unless a follow-up lapsed. The
proof needs the exemption of `Lapsed` there.

### Job queue

`IInv` joins the type invariant, `IdentityIsExclusive` and `CompileRequestIsOwed` with
three facts. `BudgetLeft`: an active row has an attempt left, so a counted failure
never leaves the type. `CleanupSpent`: a cleanup that failed for a passing reason
has no retry left, so recovery cannot add one to a window. `CleanupRests`: after a
counted cleanup the window is closed and no cleanup is active, so none is claimed
before it opens. Exclusivity is kept because each statement that makes a row
active has just seen that no other is (`Canonical`), or merges into the one that
is; for compilations a retry or a released lease may meet the pending successor,
and then the successor's existence is what keeps the debt. The refinement of
`CoalescedRequest` reads the two sets of pending and processing rows as its two
variables.

### Worker processes

`BarredWorkersStayOut` looks at one moment; `LInv` says what leads to it. A remembered
pair is a once worker past its lock attempt and a replay that runs or is about to
end (`BarredInv`); neither step is undone without the process ending, and its pid
takes the pair along. While the replay runs, the once worker is still at its first
probe: the replay's heartbeat is young (`ReplaysBeat`: it beats as it begins, and a
running replay's row does not age) and its pid is alive, so the probe ends the worker.

### Spill queue

`SpilledIsKept` says nothing about claims that are about to be removed. `SInv` does:
`Kept` is what is in the database or the dead letters, or was superseded by a recorded
Stop, and only grows; `KeptApart` counts, besides it and the active file, only claims
that stand, `AllAccounted` says for each step of a process what the claim holds
already elsewhere (after the append, everything is in the active file; during the
replay, in what is left to replay, failed or kept), and `OneHolder` says that one
process at a time is in the steps under the file lock, so that what was appended is
still there when the claim is removed. An orphan's owner has ended, so nobody else
removes its claim.

That a dropped Stop counts as kept rests on `Recorded`: in a Stop hook that is past
recording and replays, the events of its session are in `stopped`. A hook that spilled
its own payload, or failed to, does not replay.

`StopEventLands` rests on `StopInv`: a Stop hook past the steps that record or spill has
its event in the database or spilled. Both sets only grow, and each step that
leaves those first steps adds the event, or is a mishap.

In `SpillTypes` the type of the count of unrecovered drop rows is what needs an
argument: it stays within the number of events. `Counted` bounds it by the events
that were spilled for a failed capture and whose hook is past the step that
writes the row (`Rowed`). An event joins that set once, when its hook leaves that
step, because no two hooks hold one event (`Apart`) and how far a hook is shows in
why its event was spilled (`Owned`).

### Memory store

What makes the newest text the shown one is that the writer of a text takes the key
and lets go of any other (`Taken`): a row loses the pointer only to a row written
after it. All other actions leave keys, pointers and stamps alone (`Keeps`). The
invariant says this for rows of any status (`NewestWins`), since a hidden row may
be archived and restored; `StampsSoFar` makes the next write later than all before;
`MarkerMeansArchive` is the trigger's work: the console's marker stands until the next
change of status or text, which is why a restore that finds it may proceed. An
acknowledgement leaves both, and the marker with them (`TouchedRow`).
`MergeSaw` and `ReviewAlone` are facts about single actions under this invariant.

### Only model-checked

- All liveness: `EveryEventSettles`, `EveryJobSettles`, `WorkIsServed`,
  `SpilledIsDelivered`. Liveness under fairness is out of the prover's reach.
- The four findings, which are counterexamples.

## 6. What is not modelled

The components marked `not_modelled` or `partly` in `PROJECT.json`, each with its reason.
Most of the source by volume is in the former: evaluation and benchmarks, retrieval
and its scoring, the rendering of context, formats and front ends, the installer and
the migrations. They compute a result from a snapshot, or change rows of their own in
one transaction; there is no interleaving whose outcome a model would tell.

Hazards without a property:

- **A task that kills its worker** (`src/db/extraction/lifecycle.rs:109`): an expired
  lease spends no attempt, so such a task is claimed without end. The code intends
  it; `EveryEventSettles` has the premise that crashes stop.
- **Starvation by older tasks** (`src/db/extraction/lifecycle.rs:22`): claims follow
  creation times, which the model leaves out.
- **Late git evidence** (`src/db/capture/extraction_task.rs:129`): it may give a session a
  second task of its kind. The models have one primary task per session and kind.
- **The purge of ranges** (`src/db/failure_lifecycle.rs:328`): an explicit command that
  gives archived events up.
- **The drop row of a spilled event** (`src/observe/hook.rs:101`): only a count in a
  report is at stake.
- **A replay that begins between the two probes** (`src/worker/lock.rs:48-62`): a once
  worker may run beside it. `BarredWorkersStayOut` covers the heartbeats the first probe
  judges by, not this.
- **The noop of a hidden text** (`src/memory/operation.rs:142`): described above; no
  invariant of the code forbids it.

Within the modelled components:

- *Extraction queue*: claim order and priorities, statistics, late git evidence, the
  purge. Extractors are an arbitrary outcome; an event counts as processed when
  the completion that covers it is accepted.
- *Pipeline*: exact replays, interrupted retries, archived rows, follow-ups of the
  rollup, the bounded follow-up of a git link, the graph's own tables.
- *Jobs*: what a job does; priorities and due times, which only order the claims; the
  forced retry of `mark_job_failed`, which only tests call.
- *Worker processes*: idle work that writes no queue; the budget of a once worker (four
  items, 180 seconds), which ends it with work left; the limit of ten rows when a
  heartbeat is looked for.
- *Spill queue*: the encoding of a line, which is whole or glued; the git evidence of a
  superseded Stop.
- *Memory store*: preferences and lessons, which texts match an instruction pattern
  (any may be acknowledged or quarantined), expiry, suppression, edges, entities and
  embeddings, the record of dream decisions with its cool-down, restoring what a
  migration archived.
