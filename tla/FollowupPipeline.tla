-------------------------- MODULE FollowupPipeline --------------------------
(***************************************************************************)
(* The chain of extractors of one session: observation extraction reads    *)
(* captured events, memory candidate extraction reads the observations,    *)
(* graph candidate extraction reads them again once the memory stage and   *)
(* the reviewers are through with them.  A stage hands its events to the   *)
(* next by enqueueing a follow-up task, in statements of their own after   *)
(* its output is committed and before its own task is marked done.         *)
(*                                                                         *)
(* Every stage has a primary task; a range that a primary task gave up on  *)
(* has a replay task, and the follow-ups of that replay are linked to the  *)
(* same range.  ExtractionQueue has the rest of the queue: exact replays,  *)
(* interrupted retries, archived rows, permanent failures.                 *)
(***************************************************************************)
EXTENDS ExtractionRows, FiniteSetsExt

CONSTANTS Main,             \* a task that belongs to no range
          AutoRetries,      \* MAX_FAILURE_AUTO_RETRIES
          MaxRangeAttempts, \* bound on how often one range is retried
          MaxMishaps        \* bound on failed runs, crashes and leases lost
                            \* by a live holder

Observing == 1
Remembering == 2
Graphing == 3
Kinds == {Observing, Remembering, Graphing}

Ranges == {r \in [kind : Kinds, from : Events, to : Events] : r.from <= r.to}
TaskIds == {t \in [kind : Kinds, of : Ranges \union {Main}] :
              t.of = Main \/ t.of.kind <= t.kind}
Primary(k) == [kind |-> k, of |-> Main]
Replay(r) == [kind |-> r.kind, of |-> r]
NextStage(t) == [t EXCEPT !.kind = @ + 1]
Linked(r) == {t \in TaskIds : t.of = r}

ASSUME PipelineAssumption ==
    /\ Main \notin Ranges
    /\ AutoRetries \in Nat
    /\ MaxRangeAttempts \in Nat
    /\ MaxMishaps \in Nat

VARIABLES head,       \* number of captured events
          task,       \* extraction_tasks
          range,      \* extraction_replay_ranges, of all kinds
          worker,     \* each process's claim
          observed,   \* observations, each by the events it cites
          review,     \* events that pending memory candidates cite
          handed,     \* history: per stage, the events of the runs that
                      \* enqueued a follow-up and were accepted as done
          covered,    \* history: per stage, the events of accepted runs
          lapsed,     \* history: ranges of which a follow-up has given up
          mishaps     \* how many there have been

vars == <<head, task, range, worker, observed, review, handed, covered,
          lapsed, mishaps>>

Claims == {i \in [from : Events, to : Events] : i.from <= i.to}

Idle == [pc |-> "idle", task |-> Primary(Observing), cursor |-> 0, hw |-> 0,
         attempts |-> 0, input |-> {}, upto |-> 0]

(* running: before the model is asked; loaded: its input is read; written: *)
(* its output is committed; handed: the follow-up is enqueued; marking:    *)
(* the task is done and its range not yet looked at.  input: the events of *)
(* the prompt; upto: how far the run completes its task.                   *)
WorkerState == [ pc : {"idle", "running", "loaded", "written", "handed",
                       "marking"},
                 task : TaskIds, cursor : Cursors, hw : Cursors,
                 attempts : Nat, input : SUBSET Events, upto : Cursors ]

TypeOK ==
    /\ head \in Cursors
    /\ task \in [TaskIds -> TaskRow]
    /\ range \in [Ranges -> RangeRow]
    /\ worker \in [Workers -> WorkerState]
    /\ observed \subseteq Claims
    /\ review \subseteq Events
    /\ handed \in [Kinds -> SUBSET Events]
    /\ covered \in [Kinds -> SUBSET Events]
    /\ lapsed \subseteq Ranges
    /\ mishaps \in 0 .. MaxMishaps
    /\ \A t \in TaskIds : task[t].hw <= head

Init ==
    /\ head = 0
    /\ task = [t \in TaskIds |-> NoTask]
    /\ range = [r \in Ranges |-> NoRange]
    /\ worker = [w \in Workers |-> Idle]
    /\ observed = {}
    /\ review = {}
    /\ handed = [k \in Kinds |-> {}]
    /\ covered = [k \in Kinds |-> {}]
    /\ lapsed = {}
    /\ mishaps = 0

Mishap == mishaps < MaxMishaps /\ mishaps' = mishaps + 1

output == <<observed, review>>
history == <<handed, covered, lapsed>>

Owns(w) == LET t == task[worker[w].task]
           IN t.status = "processing" /\ t.owner = w

Kind(w) == worker[w].task.kind
Span(w) == worker[w].cursor + 1 .. worker[w].hw
At(w, pc) == worker[w].pc = pc
Goes(w, pc) == worker' = [worker EXCEPT ![w].pc = pc]
Leaves(w) == worker' = [worker EXCEPT ![w] = Idle]

-----------------------------------------------------------------------------
CaptureEvent ==
    /\ head < MaxEvent
    /\ head' = head + 1
    /\ task' = [task EXCEPT ![Primary(Observing)] = Coalesced(@, head + 1)]
    /\ UNCHANGED <<range, worker, output, history, mishaps>>

ClaimNext(w, t) ==
    /\ At(w, "idle")
    /\ task[t].status = "pending"
    /\ task' = [task EXCEPT ![t] = Claimed(@, w)]
    /\ worker' = [worker EXCEPT ![w] =
                    [pc |-> "running", task |-> t, cursor |-> task[t].cursor,
                     hw |-> task[t].hw, attempts |-> task[t].attempts,
                     input |-> {}, upto |-> task[t].hw]]
    /\ UNCHANGED <<head, range, output, history, mishaps>>

-----------------------------------------------------------------------------
(* The stages.  None of their statements looks at the lease. *)

(* The events cited by the observations that cite one of the claim. *)
Cited(w) == UNION {S \in {i.from .. i.to : i \in observed} :
                     S \intersect Span(w) # {}}

Input(w) == IF Kind(w) = Observing THEN Span(w) ELSE Cited(w)

(* Mutant: a task that has given up on its events still counts. *)
WrongBlocking(t, hw) ==
    /\ task[t].status \notin {"absent", "done"}
    /\ task[t].cursor <= hw /\ hw <= task[t].hw

(* graph_candidate_blocked_by_memory_candidates: a memory task that still  *)
(* has to reach hw, or candidates of these events that wait for a reviewer.*)
Blocking(t, hw) ==
    /\ task[t].status \notin {"absent", "done"}
    /\ task[t].cursor < hw /\ hw <= task[t].hw

Blocked(w) ==
    \/ \E t \in TaskIds : t.kind = Remembering /\ Blocking(t, worker[w].hw)
    \/ review \intersect Cited(w) # {}

(* The input is read; the model has not answered yet. *)
Load(w) ==
    /\ At(w, "running")
    /\ Input(w) # {}
    /\ Kind(w) = Graphing => ~Blocked(w)
    /\ worker' = [worker EXCEPT ![w].pc = "loaded", ![w].input = Input(w)]
    /\ UNCHANGED <<head, task, range, output, history, mishaps>>

(* Observations cite all events of the claim; near duplicates are skipped. *)
WriteObservations(w) ==
    /\ At(w, "loaded")
    /\ Kind(w) = Observing
    /\ observed' \in
         {observed, observed \union {[from |-> worker[w].cursor + 1, to |-> worker[w].hw]}}
    /\ Goes(w, "written")
    /\ UNCHANGED <<head, task, range, review, history, mishaps>>

(* Candidates cite the whole input; those below the bar wait for review.   *)
(* A run that wrote any ends with the last event of the input.             *)
WriteCandidates(w) ==
    /\ At(w, "loaded")
    /\ Kind(w) = Remembering
    /\ review' \in {review, review \union worker[w].input}
    /\ worker' = [worker EXCEPT ![w].pc = "written", ![w].upto = Max(worker[w].input)]
    /\ UNCHANGED <<head, task, range, observed, history, mishaps>>

NoCandidates(w) ==
    /\ At(w, "loaded")
    /\ Kind(w) = Remembering
    /\ Goes(w, "written")
    /\ UNCHANGED <<head, task, range, output, history, mishaps>>

(* Mutant: a task that is done or failed is not revived. *)
WrongFollowupTask(t, s) ==
    [t EXCEPT !.status = IF @ = "absent" THEN "pending" ELSE @,
              !.hw = Larger(@, Max(s.input)),
              !.cursor = IF s.task.of # Main /\ ~Live(t) THEN s.cursor ELSE @]

(* enqueue_followup_extraction_task, upserting row t for the run s. *)
FollowupTask(t, s) ==
    [Coalesced(t, Max(s.input)) EXCEPT
       !.cursor = IF s.task.of # Main /\ ~Live(t) THEN s.cursor ELSE @]

Followup(w) ==
    /\ At(w, "written")
    /\ task' = [task EXCEPT ![NextStage(worker[w].task)] = FollowupTask(@, worker[w])]
    /\ Goes(w, "handed")
    /\ UNCHANGED <<head, range, output, history, mishaps>>

-----------------------------------------------------------------------------
(* mark_extraction_task_done, first statement. *)
Done(w) ==
    /\ Owns(w)
    /\ task' = [task EXCEPT ![worker[w].task] = Completed(@, worker[w].upto)]
    /\ covered' = [covered EXCEPT ![Kind(w)] =
                     @ \union (Span(w) \intersect 1 .. worker[w].upto) \union worker[w].input]
    /\ IF worker[w].task.of = Main THEN Leaves(w) ELSE Goes(w, "marking")
    /\ UNCHANGED <<head, range, output, lapsed, mishaps>>

EmptyRange(w) ==
    /\ At(w, "running")
    /\ Input(w) = {}
    /\ Done(w)
    /\ UNCHANGED handed

(* An observer that found nothing hands nothing on; the graph stage is the *)
(* last one, whatever it found.                                            *)
NothingToHandOn(w) ==
    /\ At(w, "loaded")
    /\ Kind(w) # Remembering
    /\ Done(w)
    /\ UNCHANGED handed

HandedOn(w) ==
    /\ At(w, "handed")
    /\ Done(w)
    /\ handed' = [handed EXCEPT ![Kind(w)] = @ \union (Span(w) \intersect worker[w].input)]

(* clear_terminal_failures_for_quiesced_range: the failed tasks linked to  *)
(* r, and its source task when no range of that task is left to replay.    *)
QuietSource(r, ranges) ==
    [t \in TaskIds |->
       IF \/ t.of = r
          \/ /\ t = Primary(r.kind)
             /\ \A q \in Ranges : q.kind = r.kind =>
                  ranges[q].status \in {"absent", "replayed", "quarantined"}
       THEN Cleared(task[t]) ELSE task[t]]

(* mark_replay_range_replayed_if_done and the clearing of failed tasks, in *)
(* one step: ExtractionQueue has what can come between.                    *)
MarkReplayed(w) ==
    LET r == worker[w].task.of
        closes == /\ task[worker[w].task].status = "done"
                  /\ range[r].status # "quarantined"
                  /\ \A t \in Linked(r) : task[t].status \in {"absent", "done"}
    IN /\ At(w, "marking")
       /\ range' = IF closes THEN [range EXCEPT ![r] = ReplayedRange(@)] ELSE range
       /\ task' = IF closes THEN QuietSource(r, range') ELSE task
       /\ Leaves(w)
       /\ UNCHANGED <<head, output, history, mishaps>>

-----------------------------------------------------------------------------
(* A run that ends without an answer: an error, a deferral or a timeout.   *)
Failing(w) == worker[w].pc \in {"running", "loaded", "written"}

RetryLater(w) ==
    /\ Failing(w)
    /\ Owns(w)
    /\ worker[w].attempts + 1 < MaxAttempts
    /\ task' = [task EXCEPT ![worker[w].task] = Retrying(@, worker[w].attempts + 1)]
    /\ Leaves(w)
    /\ Mishap
    /\ UNCHANGED <<head, range, output, history>>

(* exhaust_extraction_task_locked, from the snapshot of the claim. *)
Exhaust(w, class) ==
    LET s == worker[w]
        lost == [kind |-> s.task.kind, from |-> s.cursor + 1, to |-> s.hw]
    IN /\ Failing(w)
       /\ Owns(w)
       /\ class = "permanent" \/ s.attempts + 1 >= MaxAttempts
       /\ range' = IF s.task.of # Main
                   THEN [range EXCEPT ![s.task.of] = FailedRange(@, s.attempts + 1, class)]
                   ELSE IF s.cursor < s.hw
                   THEN [range EXCEPT ![lost] = RecordedRange(@, class)]
                   ELSE range
       /\ task' = [task EXCEPT ![s.task] = ExhaustedTask(@, s.hw, s.attempts + 1, class)]
       /\ lapsed' = IF s.task.of # Main /\ s.task # Replay(s.task.of)
                    THEN lapsed \union {s.task.of} ELSE lapsed
       /\ Leaves(w)
       /\ Mishap
       /\ UNCHANGED <<head, output, handed, covered>>

(* wait_extraction_task: no attempt is spent. *)
Wait(w) ==
    /\ At(w, "running")
    /\ Kind(w) = Graphing
    /\ Input(w) # {}
    /\ Blocked(w)
    /\ Owns(w)
    /\ task' = [task EXCEPT ![worker[w].task] = Released(@)]
    /\ Leaves(w)
    /\ UNCHANGED <<head, range, output, history, mishaps>>

(* ensure_task_updated: the lease was lost, nothing is written. *)
NotLeased(w) ==
    /\ worker[w].pc \in {"running", "loaded", "written", "handed"}
    /\ ~Owns(w)
    /\ Leaves(w)
    /\ UNCHANGED <<head, task, range, output, history, mishaps>>

Crash(w) ==
    /\ ~At(w, "idle")
    /\ Leaves(w)
    /\ UNCHANGED <<head, task, range, output, history>>
    /\ Mishap

Held(t) == \E w \in Workers : worker[w].task = t /\ Owns(w) /\ ~At(w, "idle")

ReleaseExpired(t) ==
    /\ task[t].status = "processing"
    /\ task' = [task EXCEPT ![t] = Released(@)]
    /\ UNCHANGED <<head, range, worker, output, history>>
    /\ IF Held(t) THEN Mishap ELSE UNCHANGED mishaps

-----------------------------------------------------------------------------
(* Maintenance, the operator and the reviewer *)

Retryable(r, acknowledged) ==
    /\ \/ range[r].status \in {"pending", "failed"}
       \/ acknowledged /\ range[r].status = "quarantined"
    /\ \A t \in Linked(r) : ~Live(task[t])

Requeue(r) ==
    /\ task' = [task EXCEPT ![Replay(r)] = ReplayTask(@, r.from, r.to)]
    /\ range' = [range EXCEPT ![r] = RequeuedRange(@)]
    /\ UNCHANGED <<head, worker, output, history, mishaps>>

AutoRetry(r) ==
    /\ Retryable(r, FALSE)
    /\ range[r].class # "permanent"
    /\ range[r].attempts < AutoRetries
    /\ Requeue(r)

RetryRange(r) ==
    /\ Retryable(r, TRUE)
    /\ range[r].attempts < MaxRangeAttempts
    /\ Requeue(r)

QuarantineRange(r) ==
    /\ Retryable(r, FALSE)
    /\ range' = [range EXCEPT ![r].status = "quarantined"]
    /\ task' = QuietSource(r, range')
    /\ UNCHANGED <<head, worker, output, history, mishaps>>

(* Approved, edited, rejected or expired: the candidates stop waiting. *)
Review ==
    /\ \E S \in SUBSET review : S # {} /\ review' = review \ S
    /\ UNCHANGED <<head, task, range, worker, observed, history, mishaps>>

-----------------------------------------------------------------------------
Works(w) ==
    \/ Load(w)
    \/ WriteObservations(w) \/ WriteCandidates(w) \/ NoCandidates(w)
    \/ Followup(w)
    \/ EmptyRange(w) \/ NothingToHandOn(w) \/ HandedOn(w)
    \/ MarkReplayed(w)
    \/ RetryLater(w) \/ \E class \in FailureClasses : Exhaust(w, class)
    \/ Wait(w)
    \/ NotLeased(w)

Next ==
    \/ CaptureEvent
    \/ \E w \in Workers : \/ \E t \in TaskIds : ClaimNext(w, t)
                          \/ Works(w)
                          \/ Crash(w)
    \/ \E t \in TaskIds : ReleaseExpired(t)
    \/ \E r \in Ranges : AutoRetry(r) \/ RetryRange(r) \/ QuarantineRange(r)
    \/ Review

Spec == Init /\ [][Next]_vars

-----------------------------------------------------------------------------
(* Properties *)

(* The events a task may be about: its range's, or all of the session.    *)
Scope(t) == IF t.of = Main THEN Events ELSE t.of.from .. t.of.to

(* An event that stage k still has to look at: a live task of the stage    *)
(* has it ahead of its cursor, or a range of the stage holds it that is    *)
(* not replayed.                                                           *)
OwedTo(k, e) ==
    \/ \E t \in TaskIds : /\ t.kind = k
                          /\ Live(task[t])
                          /\ e \in Scope(t) \intersect Pending(task[t])
    \/ \E r \in Ranges : /\ r.kind = k
                         /\ range[r].status \notin {"absent", "replayed"}
                         /\ e \in r.from .. r.to

(* A range whose follow-up has given up.  The events the follow-up owed    *)
(* are nobody's: the range is retried from its first stage, and is closed  *)
(* by that run also when it hands on less than the earlier one did.        *)
Lapsed(k, e) == \E r \in lapsed : r.kind <= k /\ e \in r.from .. r.to

Taken(k, e) == e \in covered[k] \/ OwedTo(k, e) \/ Lapsed(k, e)

(* What a stage handed on is looked at by the next stage.  The follow-up   *)
(* is upserted by a process that may have lost its lease, onto a task that *)
(* another process has claimed, finished or given up on; whichever way     *)
(* they meet, no event of an accepted run falls between the two stages.    *)
(* The exception is a range whose follow-up failed.                        *)
HandedOnIsTaken ==
    \A k \in {Observing, Remembering} : \A e \in handed[k] : Taken(k + 1, e)

(* A graph task that waits spends no attempt, so only the stage it waits   *)
(* for can end the waiting.  Every memory task in its way is one a worker  *)
(* will claim: none has failed, for nothing but an operator would move it. *)
WaitsOnTheLiving ==
    \A g \in TaskIds : g.kind = Graphing /\ Live(task[g]) =>
      \A t \in TaskIds :
        t.kind = Remembering /\ Blocking(t, task[g].hw) => Live(task[t])

=============================================================================
