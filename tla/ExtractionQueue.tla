-------------------------- MODULE ExtractionQueue --------------------------
(***************************************************************************)
(* The durable extraction queue of remem for one session and one extractor *)
(* whose work spawns no follow-up task.  Hooks append events and coalesce  *)
(* them into the session's primary task; worker processes claim, process   *)
(* and settle tasks under a lease; a task that gives up leaves its events  *)
(* behind as a replay range, which maintenance, an operator, or an exact   *)
(* replay process feeds back through a dedicated replay task.              *)
(*                                                                         *)
(* The processes share nothing but the database.  A variable per table,    *)
(* one for what each process remembers of its claim between statements,    *)
(* and one history variable, processed, for the events an extractor has    *)
(* covered in a claim that was accepted as done.                           *)
(***************************************************************************)
EXTENDS ExtractionRows

CONSTANTS Exact,            \* processes of `worker --replay-range-id`
          Main,             \* the session's primary task
          AutoRetries,      \* MAX_FAILURE_AUTO_RETRIES
          MaxRangeAttempts  \* bound on how often one range is retried

(* Event ids stand for the session's own rows, numbered densely. *)
Ranges == {r \in [from : Events, to : Events] : r.from <= r.to}
TaskIds == Ranges \union {Main}    \* replay task r belongs to range r

ASSUME QueueAssumption ==
    /\ Exact \subseteq Workers
    /\ Main \notin Ranges
    /\ AutoRetries \in Nat
    /\ AutoRetries <= MaxAttempts
    /\ MaxRangeAttempts \in Nat

VARIABLES head,       \* number of captured events
          task,       \* extraction_tasks
          range,      \* extraction_replay_ranges, keyed by its UNIQUE bounds
          worker,     \* each process's claim: the snapshot it works from
          processed   \* history: events covered by an accepted completion

vars == <<head, task, range, worker, processed>>

(* Where a process is between two statements of its own. *)
Idle == [pc |-> "idle", task |-> Main, cursor |-> 0, hw |-> 0, attempts |-> 0]

WorkerState == [ pc : {"idle", "running", "marking", "clearing", "closing"},
                 task : TaskIds, cursor : Cursors, hw : Cursors,
                 attempts : Nat ]

TypeOK ==
    /\ head \in Cursors
    /\ task \in [TaskIds -> TaskRow]
    /\ range \in [Ranges -> RangeRow]
    /\ worker \in [Workers -> WorkerState]
    /\ processed \in SUBSET Events

Init ==
    /\ head = 0
    /\ task = [t \in TaskIds |-> NoTask]
    /\ range = [r \in Ranges |-> NoRange]
    /\ worker = [w \in Workers |-> Idle]
    /\ processed = {}

Covers(r) == r.from .. r.to

(* WHERE id = .. AND lease_owner = .. AND status = 'processing'. *)
Owns(w) == LET t == task[worker[w].task]
           IN t.status = "processing" /\ t.owner = w

Running(w) == worker[w].pc = "running"

Snapshot(t, row) == [pc |-> "running", task |-> t, cursor |-> row.cursor,
                     hw |-> row.hw, attempts |-> row.attempts]

(* What is left of the claim in the statements after the first of          *)
(* mark_extraction_task_done: the task's id.                               *)
Settling(pc, t) == [Idle EXCEPT !.pc = pc, !.task = t]

-----------------------------------------------------------------------------
(* Capture *)

(* A hook records an event and coalesces it in one savepoint.  A repeated  *)
(* event id finds its task in place and changes nothing.                   *)
CaptureEvent ==
    /\ head < MaxEvent
    /\ head' = head + 1
    /\ task' = [task EXCEPT ![Main] = Coalesced(task[Main], head + 1)]
    /\ UNCHANGED <<range, worker, processed>>

-----------------------------------------------------------------------------
(* Ordinary workers *)

(* A retry that is not yet due hides a row for a while, so any pending row *)
(* can be the first one that is due.                                       *)
ClaimNext(w, t) ==
    /\ w \notin Exact
    /\ worker[w].pc = "idle"
    /\ task[t].status = "pending"
    /\ task' = [task EXCEPT ![t] = Claimed(task[t], w)]
    /\ worker' = [worker EXCEPT ![w] = Snapshot(t, task[t])]
    /\ UNCHANGED <<head, range, processed>>

(* The first statement of mark_extraction_task_done, on its own connection *)
(* in autocommit.  upto is the last event the extractor covered: all it    *)
(* claimed, or less when it stops early.                                   *)
MarkDone(w, upto) ==
    LET s == worker[w] IN
    /\ Running(w)
    /\ Owns(w)
    /\ upto = s.hw \/ (w \notin Exact /\ upto \in s.cursor + 1 .. s.hw)
    /\ task' = [task EXCEPT ![s.task] = Completed(task[s.task], upto)]
    /\ processed' = processed \union (s.cursor + 1 .. upto)
    /\ worker' = [worker EXCEPT ![w] = Settling("marking", s.task)]
    /\ UNCHANGED <<head, range>>

(* mark_replay_range_replayed_if_done.  The range's replay task is the one *)
(* task linked to it, so "every linked task is done" is about that row.    *)
MarkReplayed(w) ==
    LET t == worker[w].task
        settled == /\ t \in Ranges
                   /\ task[t].status = "done"
                   /\ range[t].status # "quarantined"
    IN /\ worker[w].pc = "marking"
       /\ range' = IF settled
                   THEN [range EXCEPT ![t] = ReplayedRange(range[t])]
                   ELSE range
       /\ worker' = [worker EXCEPT ![w] =
                       IF settled THEN Settling("clearing", t) ELSE Idle]
       /\ UNCHANGED <<head, task, processed>>

(* clear_terminal_failures_for_quiesced_range: first the failed tasks      *)
(* linked to the range, then its source task once all its ranges are       *)
(* quiet.                                                                  *)
Quiet(rs, r) == rs[r].status \in {"absent", "replayed", "quarantined"}

SourceCleared(ts, rs) ==
    IF \A r \in Ranges : Quiet(rs, r)
    THEN [ts EXCEPT ![Main] = Cleared(ts[Main])]
    ELSE ts

ClearLinked(w) ==
    LET t == worker[w].task IN
    /\ worker[w].pc = "clearing"
    /\ task' = [task EXCEPT ![t] = Cleared(task[t])]
    /\ worker' = [worker EXCEPT ![w] = Settling("closing", t)]
    /\ UNCHANGED <<head, range, processed>>

ClearSource(w) ==
    /\ worker[w].pc = "closing"
    /\ task' = SourceCleared(task, range)
    /\ worker' = [worker EXCEPT ![w] = Idle]
    /\ UNCHANGED <<head, range, processed>>

(* exhaust_extraction_task, one immediate transaction: the bounds come     *)
(* from the claim's snapshot, the later events from the row.               *)
SkippedRange(s) == [from |-> s.cursor + 1, to |-> s.hw]

Exhaust(w, class) ==
    LET s == worker[w]
        attempts == s.attempts + 1
    IN /\ task' = [task EXCEPT ![s.task] =
                     ExhaustedTask(task[s.task], s.hw, attempts, class)]
       /\ \/ /\ s.task \in Ranges
             /\ range' = [range EXCEPT ![s.task] =
                            FailedRange(range[s.task], attempts, class)]
          \/ /\ s.task = Main
             /\ LET r == SkippedRange(s)
                IN range' = IF s.hw > s.cursor
                            THEN [range EXCEPT ![r] =
                                    RecordedRange(range[r], class)]
                            ELSE range

RetryLater(w) ==
    LET s == worker[w] IN
    /\ task' = [task EXCEPT ![s.task] =
                  Retrying(task[s.task], s.attempts + 1)]
    /\ range' = range

(* The extractor asks for another attempt: defer_claimed_extraction_task.  *)
Defer(w) ==
    /\ Running(w)
    /\ w \notin Exact
    /\ Owns(w)
    /\ \/ /\ worker[w].attempts + 1 >= MaxAttempts
          /\ \E class \in FailureClasses : Exhaust(w, class)
       \/ /\ worker[w].attempts + 1 < MaxAttempts
          /\ RetryLater(w)
    /\ worker' = [worker EXCEPT ![w] = Idle]
    /\ UNCHANGED <<head, processed>>

(* An error or a timeout: mark_claimed_extraction_task_failed_or_retry.    *)
Fail(w, class) ==
    /\ Running(w)
    /\ w \notin Exact
    /\ Owns(w)
    /\ \/ /\ class = "permanent" \/ worker[w].attempts + 1 >= MaxAttempts
          /\ Exhaust(w, class)
       \/ /\ class = "transient" /\ worker[w].attempts + 1 < MaxAttempts
          /\ RetryLater(w)
    /\ worker' = [worker EXCEPT ![w] = Idle]
    /\ UNCHANGED <<head, processed>>

(* The extractor waits for another task's output: wait_extraction_task.    *)
Wait(w) ==
    /\ Running(w)
    /\ w \notin Exact
    /\ Owns(w)
    /\ task' = [task EXCEPT ![worker[w].task] = Released(@)]
    /\ worker' = [worker EXCEPT ![w] = Idle]
    /\ UNCHANGED <<head, range, processed>>

(* Every settling statement matches no row once the lease is lost; the     *)
(* error ends the process, whose successor starts with nothing.            *)
LoseLease(w) ==
    /\ Running(w)
    /\ ~Owns(w)
    /\ worker' = [worker EXCEPT ![w] = Idle]
    /\ UNCHANGED <<head, task, range, processed>>

Crash(w) ==
    /\ worker[w].pc # "idle"
    /\ worker' = [worker EXCEPT ![w] = Idle]
    /\ UNCHANGED <<head, task, range, processed>>

WrongReleaseForgetsExact(S) ==
    /\ S # {}
    /\ \A t \in S : task[t].status = "processing"
    /\ task' = [t \in TaskIds |-> IF t \in S THEN Released(task[t])
                                 ELSE task[t]]
    /\ UNCHANGED <<head, range, worker, processed>>

(* release_expired_extraction_task_leases over the rows S whose lease has  *)
(* run out: a lease outlives a task's timeout, but not a suspended         *)
(* machine.  A row an exact replay held is put away with its range.        *)
ReleaseExpired(S) ==
    /\ S # {}
    /\ \A t \in S : task[t].status = "processing"
    /\ task' = [t \in TaskIds |->
                  IF t \notin S THEN task[t]
                  ELSE IF task[t].owner \in Exact
                       THEN ArchivedTask(task[t], "transient")
                       ELSE Released(task[t])]
    /\ range' = [r \in Ranges |->
                   IF r \in S /\ task[r].owner \in Exact
                   THEN ArchivedRange(range[r], "transient")
                   ELSE range[r]]
    /\ UNCHANGED <<head, worker, processed>>

-----------------------------------------------------------------------------
(* Replay *)

WrongRetryableWhileLive(r, acknowledge, includeArchived) ==
    /\ \/ range[r].status \in {"pending", "failed"}
       \/ acknowledge /\ range[r].status = "quarantined"
    /\ includeArchived \/ ~range[r].archived

(* query_retryable_replay_range_ids. *)
Retryable(r, acknowledge, includeArchived) ==
    /\ \/ range[r].status \in {"pending", "failed"}
       \/ acknowledge /\ range[r].status = "quarantined"
    /\ includeArchived \/ ~range[r].archived
    /\ ~Live(task[r])

EnqueuedReplay(r) == ReplayTask(task[r], r.from, r.to)

(* retry_due_extraction_replay_ranges holds its query open while it        *)
(* writes, so another process's write in between makes the next statement  *)
(* fail: the range's half is either immediate or lost with the process.    *)
AutoRetry(r, interrupted) ==
    /\ Retryable(r, FALSE, FALSE)
    /\ range[r].class # "permanent"
    /\ range[r].attempts < AutoRetries
    /\ task' = [task EXCEPT ![r] = EnqueuedReplay(r)]
    /\ range' = IF interrupted THEN range
                ELSE [range EXCEPT ![r] = RequeuedRange(range[r])]
    /\ UNCHANGED <<head, worker, processed>>

(* `pending retry-extraction-ranges`, one transaction. *)
RetryRange(r, acknowledge) ==
    /\ Retryable(r, acknowledge, FALSE)
    /\ range[r].attempts < MaxRangeAttempts
    /\ task' = [task EXCEPT ![r] = EnqueuedReplay(r)]
    /\ range' = [range EXCEPT ![r] = RequeuedRange(range[r])]
    /\ UNCHANGED <<head, worker, processed>>

(* `pending quarantine-extraction-ranges`, one transaction. *)
QuarantineRange(r) ==
    /\ Retryable(r, FALSE, FALSE)
    /\ range' = [range EXCEPT ![r].status = "quarantined"]
    /\ task' = SourceCleared([task EXCEPT ![r] = Cleared(task[r])], range')
    /\ UNCHANGED <<head, worker, processed>>

(* archive_eligible_failures: rows old enough that can no longer recover.  *)
ArchiveRanges(S) ==
    /\ S # {}
    /\ \A r \in S : /\ range[r].status \in {"pending", "failed", "quarantined"}
                    /\ ~range[r].archived
                    /\ \/ range[r].class = "permanent"
                       \/ range[r].attempts >= AutoRetries
    /\ range' = [r \in Ranges |->
                   IF r \in S THEN [range[r] EXCEPT !.archived = TRUE]
                   ELSE range[r]]
    /\ UNCHANGED <<head, task, worker, processed>>

(* An exact replay process requeues its range and claims the task in one   *)
(* transaction, and puts both away on any outcome but full completion.     *)
ExactClaim(w, r, acknowledge, includeArchived) ==
    /\ w \in Exact
    /\ worker[w].pc = "idle"
    /\ Retryable(r, acknowledge, includeArchived)
    /\ range[r].attempts < MaxRangeAttempts
    /\ task' = [task EXCEPT ![r] = Claimed(EnqueuedReplay(r), w)]
    /\ range' = [range EXCEPT ![r] = RequeuedRange(range[r])]
    /\ worker' = [worker EXCEPT ![w] = Snapshot(r, EnqueuedReplay(r))]
    /\ UNCHANGED <<head, processed>>

ArchiveExact(w, class) ==
    LET t == worker[w].task IN
    /\ w \in Exact
    /\ Running(w)
    /\ Owns(w)
    /\ task' = [task EXCEPT ![t] = ArchivedTask(task[t], class)]
    /\ range' = [range EXCEPT ![t] = ArchivedRange(range[t], class)]
    /\ worker' = [worker EXCEPT ![w] = Idle]
    /\ UNCHANGED <<head, processed>>

-----------------------------------------------------------------------------
Processing == {t \in TaskIds : task[t].status = "processing"}

Settle(w) ==
    \/ \E upto \in Cursors : MarkDone(w, upto)
    \/ MarkReplayed(w)
    \/ ClearLinked(w)
    \/ ClearSource(w)
    \/ Defer(w)
    \/ \E class \in FailureClasses : Fail(w, class)
    \/ Wait(w)
    \/ LoseLease(w)
    \/ \E class \in FailureClasses : ArchiveExact(w, class)

Claim(w) ==
    \/ \E t \in TaskIds : ClaimNext(w, t)
    \/ \E r \in Ranges, acknowledge, includeArchived \in BOOLEAN :
         ExactClaim(w, r, acknowledge, includeArchived)

Maintain ==
    \/ \E S \in SUBSET Processing : ReleaseExpired(S)
    \/ \E r \in Ranges, interrupted \in BOOLEAN : AutoRetry(r, interrupted)
    \/ \E S \in SUBSET Ranges : ArchiveRanges(S)

Operate ==
    \/ \E r \in Ranges, acknowledge \in BOOLEAN : RetryRange(r, acknowledge)
    \/ \E r \in Ranges : QuarantineRange(r)

Next ==
    \/ CaptureEvent
    \/ \E w \in Workers : Claim(w) \/ Settle(w) \/ Crash(w)
    \/ Maintain
    \/ Operate

Spec == Init /\ [][Next]_vars

(* A lease whose holder is gone. *)
Orphaned ==
    {t \in Processing : \A w \in Workers : ~(/\ Running(w)
                                            /\ worker[w].task = t
                                            /\ Owns(w))}

(* A worker process runs (hooks and the operator start one whenever none   *)
(* does) and drains: it claims what is due, a timeout ends whatever it     *)
(* runs, and between tasks it frees expired leases and retries due ranges. *)
Fairness ==
    /\ \A t \in TaskIds : WF_vars(\E w \in Workers : ClaimNext(w, t))
    /\ \A w \in Workers : WF_vars(Settle(w))
    /\ WF_vars(ReleaseExpired(Orphaned))
    /\ \A r \in Ranges : WF_vars(AutoRetry(r, FALSE))

FairSpec == Spec /\ Fairness

-----------------------------------------------------------------------------
(* What the queue promises *)

InReplay(e) == \E r \in Ranges : /\ Recorded(range[r])
                                 /\ range[r].status # "replayed"
                                 /\ e \in Covers(r)

Owed(e) == \/ Live(task[Main]) /\ e \in Pending(task[Main])
           \/ InReplay(e)

(* No captured event is ever dropped: an extractor has covered it, or the  *)
(* live primary task still owes it, or a range that is not replayed holds  *)
(* it for maintenance or an operator.  Exhaustion, which moves the cursor  *)
(* over events nobody processed, is where this could break.                *)
NoEventLost == \A e \in 1 .. head : e \in processed \/ Owed(e)

(* A process settles its task from the snapshot its claim returned, after  *)
(* minutes spent in a model call.  As long as it holds the lease, nothing  *)
(* it relies on has changed under it: only later events were appended.     *)
SnapshotIsCurrent ==
    \A w \in Workers :
      Running(w) /\ Owns(w) =>
        LET s == worker[w]
            t == task[s.task]
        IN /\ s.cursor = t.cursor
           /\ s.attempts = t.attempts
           /\ s.hw <= t.hw
           /\ s.task \in Ranges => s.hw = t.hw

(* Ranges given up on never overlap and never reach into what the primary  *)
(* task has still to do, so no event is in the care of two tasks.          *)
RangesAreDisjoint ==
    \A r \in Ranges : Recorded(range[r]) =>
      /\ r.to <= task[Main].cursor
      /\ \A q \in Ranges \ {r} :
           Recorded(range[q]) => Covers(q) \intersect Covers(r) = {}

(* requeue_due_extraction_tasks sends a failed task without a range back   *)
(* with its cursor where it is.  For a task that exhausted, that would be  *)
(* an empty run that erases the failure; such a task never qualifies,      *)
(* because it has spent its automatic retries or failed for good.          *)
ExhaustedTaskIsNotRequeued ==
    task[Main].status = "failed" =>
      task[Main].class = "permanent" \/ task[Main].attempts >= AutoRetries

(* Quarantine is sticky: a range leaves it only by being requeued, with    *)
(* its replay task live in the same step; no late failure or completion of *)
(* an earlier replay reopens or closes it.                                 *)
QuarantineIsSticky ==
    [][\A r \in Ranges :
         range[r].status = "quarantined" /\ range'[r].status # "quarantined" =>
           range'[r].status = "requeued" /\ Live(task'[r])]_vars

(* Work an exact replay holds never becomes claimable by a daemon, which   *)
(* would run it with another AI profile: whatever ends the exact attempt,  *)
(* the task is then done, or failed with its range in archived quarantine. *)
ExactStaysContained ==
    [][\A t \in TaskIds :
         task[t].status = "processing" /\ task[t].owner \in Exact
           /\ task'[t] # task[t] =>
             \/ task'[t].status = "done"
             \/ /\ task'[t].status = "failed"
                /\ range'[t].status = "quarantined"
                /\ range'[t].archived]_vars

(* The budget a range is tried with is its own.  A comment in the coalesce *)
(* statement (capture/extraction_task.rs:51-54) asks that "the new range   *)
(* must start with fresh attempts": whenever the cursor moves on and work  *)
(* remains, no attempt has been spent on it yet.                           *)
NewRangeHasFreshBudget ==
    [][task'[Main].cursor # task[Main].cursor /\ Live(task'[Main]) =>
         task'[Main].attempts = 0]_vars

(* Once a replay task is done and no process is left in the middle of      *)
(* settling it, its range is closed: "replayed ranges should leave the     *)
(* operational queue" (extraction/tests.rs:718).                           *)
ReplayDoneClosesRange ==
    \A r \in Ranges :
      task[r].status = "done" =>
        \/ range[r].status \in {"replayed", "quarantined"}
        \/ \E w \in Workers : worker[w].pc = "marking" /\ worker[w].task = r

(* A primary task that failed for a passing reason can be requeued by      *)
(* maintenance, so it "has an explicit recovery path instead of staying    *)
(* actionable forever" (failure-lifecycle/TECH.md:147-150).                *)
TransientTaskFailureIsRequeuable ==
    task[Main].status = "failed" /\ task[Main].class = "transient" =>
      task[Main].attempts < AutoRetries

-----------------------------------------------------------------------------
(* A range maintenance will not touch again; it is the operator's now. *)
GivenUp(r) ==
    /\ range[r].status \in {"pending", "failed", "quarantined"}
    /\ \/ range[r].status = "quarantined"
       \/ range[r].archived
       \/ range[r].class = "permanent"
       \/ range[r].attempts >= AutoRetries

(* What must stop for the queue to come to rest: crashes, extractors that  *)
(* wait for another task, leases that run out under a live holder, and     *)
(* operator commands (claims go to the oldest task first, so an operator   *)
(* who retried one hopeless range for ever would starve the others).       *)
Disturbance ==
    \/ \E w \in Workers : Crash(w) \/ Wait(w)
    \/ Operate
    \/ \E S \in SUBSET Processing : S \ Orphaned # {} /\ ReleaseExpired(S)

(* Every captured event is processed in the end or is left in a range that *)
(* only an operator can move.  In particular a crash strands nothing: the  *)
(* lease runs out, the task is claimed again, the events behind it follow. *)
EveryEventSettles ==
    <>[][~Disturbance]_vars =>
      \A e \in Events :
        e <= head ~> \/ e \in processed
                     \/ \E r \in Ranges : e \in Covers(r) /\ GivenUp(r)

-----------------------------------------------------------------------------
(* The queue implements the ledger of events. *)
OwedEvents == {e \in 1 .. head : Owed(e)}

Ledger == INSTANCE EventLedger WITH captured <- 1 .. head,
                                    owed <- OwedEvents

(* Seen from its events, every step of the queue is a capture, an accepted *)
(* completion of owed events, the closing of a range whose events are all  *)
(* processed, or nothing: no failure, retry, crash or operator command     *)
(* drops an event or revives one that was settled.                         *)
ImplementsLedger == Ledger!Spec

=============================================================================
