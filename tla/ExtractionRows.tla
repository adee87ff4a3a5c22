--------------------------- MODULE ExtractionRows ---------------------------
(***************************************************************************)
(* The rows of the two tables behind remem's background extraction, and    *)
(* what every SQL statement of src/src/db/extraction*, capture and         *)
(* extraction_replay does to one row.                                      *)
(*                                                                         *)
(*   extraction_tasks          a task owes the events (cursor, hw] of one  *)
(*                             session to one extractor                    *)
(*   extraction_replay_ranges  events a task gave up on, kept for replay   *)
(*                                                                         *)
(* Timestamps are left out: whatever depends on one (a lease running out,  *)
(* a retry falling due, a failure growing old) may happen in any state.    *)
(* Error texts are reduced to their failure class.  A NULL cursor reads as *)
(* 0 in every statement, so it is 0 here.                                  *)
(***************************************************************************)
EXTENDS Naturals

CONSTANTS Workers,      \* lease owners: processes that can claim a task
          NoOwner,      \* lease_owner IS NULL
          MaxAttempts,  \* EXTRACTION_TASK_MAX_ATTEMPTS
          MaxEvent      \* bound on the number of captured events

ASSUME RowsAssumption ==
    /\ NoOwner \notin Workers
    /\ MaxAttempts \in Nat \ {0}
    /\ MaxEvent \in Nat

Events == 1 .. MaxEvent
Cursors == 0 .. MaxEvent

FailureClasses == {"transient", "permanent"}

-----------------------------------------------------------------------------
(* extraction_tasks *)

TaskStatus == {"absent", "pending", "processing", "done", "failed"}

TaskRow == [ status   : TaskStatus,
             cursor   : Cursors,          \* cursor_event_id
             hw       : Cursors,          \* high_watermark_event_id
             attempts : Nat,
             owner    : Workers \union {NoOwner},
             class    : FailureClasses \union {"none"} ]

NoTask == [ status |-> "absent", cursor |-> 0, hw |-> 0, attempts |-> 0,
            owner |-> NoOwner, class |-> "none" ]

Live(t) == t.status \in {"pending", "processing"}
Pending(t) == t.cursor + 1 .. t.hw        \* the events the row still owes

Larger(a, b) == IF a >= b THEN a ELSE b

(* ON CONFLICT ... CASE WHEN status IN ('done', 'failed') THEN <fresh>. *)
Revived(t) ==
    IF Live(t) THEN t
    ELSE [t EXCEPT !.status = "pending", !.attempts = 0, !.class = "none"]

(* Variants marked "Wrong" are slips the statement below them could have   *)
(* had; each is there to show that a property notices it.                  *)
WrongCoalescedResetsBudget(t, event) ==
    [Revived(t) EXCEPT !.hw = Larger(t.hw, event), !.attempts = 0]

Coalesced(t, event) ==
    [Revived(t) EXCEPT !.hw = Larger(t.hw, event)]

Claimed(t, w) == [t EXCEPT !.status = "processing", !.owner = w]

WrongReleasedKeepsStatus(t) == [t EXCEPT !.owner = NoOwner]

Released(t) == [t EXCEPT !.status = "pending", !.owner = NoOwner]

(* mark_extraction_task_done: attempts is the one column not reset. *)
Completed(t, upto) ==
    [t EXCEPT !.status = IF t.hw > upto THEN "pending" ELSE "done",
              !.cursor = upto,
              !.owner = NoOwner,
              !.class = "none"]

Retrying(t, attempts) ==
    [t EXCEPT !.status = "pending", !.attempts = attempts,
              !.owner = NoOwner, !.class = "none"]

WrongExhaustedSkipsToRowEnd(t, skipped, attempts, class) ==
    [t EXCEPT !.status = "failed", !.attempts = attempts, !.cursor = t.hw,
              !.owner = NoOwner, !.class = class]

WrongExhaustedKeepsCursor(t, skipped, attempts, class) ==
    [t EXCEPT !.status = IF t.hw > skipped THEN "pending" ELSE "failed",
              !.attempts = IF t.hw > skipped THEN 0 ELSE attempts,
              !.owner = NoOwner, !.class = class]

WrongExhaustedAlwaysFreshBudget(t, skipped, attempts, class) ==
    [t EXCEPT !.status = IF t.hw > skipped THEN "pending" ELSE "failed",
              !.attempts = 0, !.cursor = skipped,
              !.owner = NoOwner, !.class = class]

(* The cursor jumps over the claimed range; events that arrived after the  *)
(* claim keep the task alive with a fresh budget.                          *)
ExhaustedTask(t, skipped, attempts, class) ==
    IF t.hw > skipped
    THEN [t EXCEPT !.status = "pending", !.attempts = 0, !.cursor = skipped,
                   !.owner = NoOwner, !.class = "none"]
    ELSE [t EXCEPT !.status = "failed", !.attempts = attempts,
                   !.cursor = skipped, !.owner = NoOwner, !.class = class]

(* archive_claimed_exact_replay_task_in_transaction, the task's half. *)
ArchivedTask(t, class) ==
    [t EXCEPT !.status = "failed", !.attempts = t.attempts + 1,
              !.owner = NoOwner, !.class = class]

WrongReplayTaskSkipsFirst(t, from, to) ==
    [Revived(t) EXCEPT !.cursor = from, !.hw = to]

WrongReplayTaskOneEarly(t, from, to) ==
    [Revived(t) EXCEPT !.cursor = from - 2, !.hw = to]

(* The row enqueue_replay_extraction_task inserts for events from..to. *)
ReplayTask(t, from, to) ==
    [Revived(t) EXCEPT !.cursor = from - 1, !.hw = to]

(* clear_terminal_failures_for_quiesced_range, on one matching row. *)
Cleared(t) ==
    IF t.status = "failed"
    THEN [t EXCEPT !.status = "done", !.attempts = 0,
                   !.owner = NoOwner, !.class = "none"]
    ELSE t

-----------------------------------------------------------------------------
(* extraction_replay_ranges *)

RangeStatus ==
    {"absent", "pending", "failed", "requeued", "replayed", "quarantined"}

RangeRow == [ status   : RangeStatus,
              attempts : Nat,
              class    : FailureClasses \union {"none"},
              archived : BOOLEAN ]        \* archived_at_epoch IS NOT NULL

NoRange == [ status |-> "absent", attempts |-> 0, class |-> "none",
             archived |-> FALSE ]

Recorded(r) == r.status # "absent"

(* record_exhausted_replay_range: quarantine survives the upsert. *)
RecordedRange(r, class) ==
    [r EXCEPT !.status = IF r.status = "quarantined" THEN "quarantined"
                         ELSE "pending",
              !.class = class,
              !.archived = FALSE]

(* The range of an exhausted replay task, in exhaust_extraction_task_locked. *)
FailedRange(r, attempts, class) ==
    [r EXCEPT !.status = "failed", !.attempts = attempts,
              !.class = class, !.archived = FALSE]

RequeuedRange(r) ==
    [r EXCEPT !.status = "requeued", !.attempts = r.attempts + 1,
              !.class = "none", !.archived = FALSE]

ReplayedRange(r) ==
    [r EXCEPT !.status = "replayed", !.class = "none", !.archived = FALSE]

(* archive_exact_replay_range_after_task_failure. *)
ArchivedRange(r, class) ==
    [r EXCEPT !.status = "quarantined", !.class = class, !.archived = TRUE]

=============================================================================
