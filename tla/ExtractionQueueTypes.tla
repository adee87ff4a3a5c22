------------------------- MODULE ExtractionQueueTypes -------------------------
(***************************************************************************)
(* Type correctness of ExtractionQueue, for any number of workers, events  *)
(* and attempts.                                                           *)
(***************************************************************************)
EXTENDS ExtractionQueue, TLAPS

-----------------------------------------------------------------------------
(* What the statements do to one row is again a row. *)

LEMMA TaskRowTypes ==
    ASSUME NEW t \in TaskRow, NEW w \in Workers, NEW n \in Nat,
           NEW e \in Cursors, NEW class \in FailureClasses
    PROVE  /\ Revived(t) \in TaskRow
           /\ Coalesced(t, e) \in TaskRow
           /\ Claimed(t, w) \in TaskRow
           /\ Released(t) \in TaskRow
           /\ Completed(t, e) \in TaskRow
           /\ Retrying(t, n) \in TaskRow
           /\ ExhaustedTask(t, e, n, class) \in TaskRow
           /\ ArchivedTask(t, class) \in TaskRow
<1>1. Revived(t) \in TaskRow
  BY DEF Revived, TaskRow, TaskStatus, FailureClasses, Live
<1>2. Coalesced(t, e) \in TaskRow
  BY <1>1 DEF Coalesced, Larger, TaskRow, Cursors
<1>3. Claimed(t, w) \in TaskRow /\ Released(t) \in TaskRow
  BY DEF Claimed, Released, TaskRow, TaskStatus
<1>4. Completed(t, e) \in TaskRow /\ Retrying(t, n) \in TaskRow
  BY DEF Completed, Retrying, TaskRow, TaskStatus, FailureClasses
<1>5. ExhaustedTask(t, e, n, class) \in TaskRow
  BY DEF ExhaustedTask, TaskRow, TaskStatus, FailureClasses
<1>6. ArchivedTask(t, class) \in TaskRow
  <2>1. t.attempts + 1 \in Nat
    BY DEF TaskRow
  <2>2. QED
    BY <2>1 DEF ArchivedTask, TaskRow, TaskStatus, FailureClasses
<1>7. QED
  BY <1>1, <1>2, <1>3, <1>4, <1>5, <1>6

LEMMA ClearedType == \A t \in TaskRow : Cleared(t) \in TaskRow
BY DEF Cleared, TaskRow, TaskStatus, FailureClasses

LEMMA EnqueuedReplayType ==
    ASSUME TypeOK, NEW r \in Ranges
    PROVE  EnqueuedReplay(r) \in TaskRow
<1>1. task[r] \in TaskRow
  BY DEF TypeOK, TaskIds
<1>2. Revived(task[r]) \in TaskRow
  BY <1>1 DEF Revived, TaskRow, TaskStatus, FailureClasses, Live
<1>3. r.from - 1 \in Cursors /\ r.to \in Cursors
  BY RowsAssumption DEF Ranges, Events, Cursors
<1>4. QED
  BY <1>2, <1>3 DEF EnqueuedReplay, ReplayTask, TaskRow

LEMMA RangeRowTypes ==
    ASSUME NEW r \in RangeRow, NEW n \in Nat, NEW class \in FailureClasses
    PROVE  /\ RecordedRange(r, class) \in RangeRow
           /\ FailedRange(r, n, class) \in RangeRow
           /\ RequeuedRange(r) \in RangeRow
           /\ ReplayedRange(r) \in RangeRow
           /\ ArchivedRange(r, class) \in RangeRow
<1>1. /\ RecordedRange(r, class) \in RangeRow
      /\ FailedRange(r, n, class) \in RangeRow
  BY DEF RecordedRange, FailedRange, RangeRow, RangeStatus, FailureClasses
<1>2. RequeuedRange(r) \in RangeRow
  <2>1. r.attempts + 1 \in Nat
    BY DEF RangeRow
  <2>2. QED
    BY <2>1 DEF RequeuedRange, RangeRow, RangeStatus
<1>3. /\ ReplayedRange(r) \in RangeRow
      /\ ArchivedRange(r, class) \in RangeRow
  BY DEF ReplayedRange, ArchivedRange, RangeRow, RangeStatus, FailureClasses
<1>4. QED
  BY <1>1, <1>2, <1>3

LEMMA WorkerStateTypes ==
    ASSUME TypeOK, NEW w \in Workers
    PROVE  /\ worker[w] \in WorkerState
           /\ worker[w].task \in TaskIds
           /\ worker[w].cursor \in Cursors
           /\ worker[w].hw \in Cursors
           /\ worker[w].attempts \in Nat
           /\ task[worker[w].task] \in TaskRow
BY DEF TypeOK, WorkerState

LEMMA IdleTypes ==
    /\ Idle \in WorkerState
    /\ \A t \in TaskIds : /\ Settling("marking", t) \in WorkerState
                          /\ Settling("clearing", t) \in WorkerState
                          /\ Settling("closing", t) \in WorkerState
    /\ \A t \in TaskIds, row \in TaskRow : Snapshot(t, row) \in WorkerState
<1>1. 0 \in Cursors /\ 0 \in Nat /\ Main \in TaskIds
  BY RowsAssumption DEF Cursors, TaskIds
<1>2. Idle \in WorkerState
  BY <1>1 DEF Idle, WorkerState
<1>3. \A t \in TaskIds : /\ Settling("marking", t) \in WorkerState
                         /\ Settling("clearing", t) \in WorkerState
                         /\ Settling("closing", t) \in WorkerState
  BY <1>1 DEF Settling, Idle, WorkerState
<1>4. \A t \in TaskIds, row \in TaskRow : Snapshot(t, row) \in WorkerState
  BY DEF Snapshot, WorkerState, TaskRow
<1>5. QED
  BY <1>2, <1>3, <1>4

-----------------------------------------------------------------------------
(* Type correctness *)

LEMMA ExhaustTypes ==
    ASSUME TypeOK, NEW w \in Workers, NEW class \in FailureClasses,
           Exhaust(w, class)
    PROVE  /\ task' \in [TaskIds -> TaskRow]
           /\ range' \in [Ranges -> RangeRow]
<1> DEFINE s == worker[w]
<1>1. /\ s.task \in TaskIds
      /\ s.cursor \in Cursors
      /\ s.hw \in Cursors
      /\ s.attempts + 1 \in Nat
  BY WorkerStateTypes
<1>2. task' \in [TaskIds -> TaskRow]
  <2>1. ExhaustedTask(task[s.task], s.hw, s.attempts + 1, class) \in TaskRow
    BY <1>1, TaskRowTypes DEF TypeOK
  <2>2. QED
    BY <2>1 DEF Exhaust, TypeOK
<1>3. CASE s.task \in Ranges
  <2>1. FailedRange(range[s.task], s.attempts + 1, class) \in RangeRow
    BY <1>1, <1>3, RangeRowTypes DEF TypeOK
  <2>2. range' = [range EXCEPT ![s.task] =
                    FailedRange(range[s.task], s.attempts + 1, class)]
    BY <1>3, QueueAssumption DEF Exhaust
  <2>3. QED
    BY <1>2, <2>1, <2>2 DEF TypeOK
<1>4. CASE s.task = Main
  <2> DEFINE r == SkippedRange(s)
  <2>1. CASE s.hw > s.cursor
    <3>1. r \in Ranges
      BY <1>1, <2>1, RowsAssumption DEF SkippedRange, Ranges, Events, Cursors
    <3>2. RecordedRange(range[r], class) \in RangeRow
      BY <3>1, RangeRowTypes DEF TypeOK
    <3>3. range' = [range EXCEPT ![r] = RecordedRange(range[r], class)]
      BY <1>4, <2>1, QueueAssumption DEF Exhaust
    <3>4. QED
      BY <1>2, <3>1, <3>2, <3>3 DEF TypeOK
  <2>2. CASE ~(s.hw > s.cursor)
    BY <1>2, <1>4, <2>2, QueueAssumption DEF Exhaust, TypeOK
  <2>3. QED
    BY <2>1, <2>2
<1>5. QED
  BY <1>1, <1>3, <1>4 DEF TaskIds

LEMMA SourceClearedType ==
    ASSUME NEW ts \in [TaskIds -> TaskRow], NEW rs
    PROVE  SourceCleared(ts, rs) \in [TaskIds -> TaskRow]
<1>1. Main \in TaskIds
  BY DEF TaskIds
<1>2. Cleared(ts[Main]) \in TaskRow
  BY <1>1, ClearedType
<1>3. QED
  BY <1>1, <1>2 DEF SourceCleared

LEMMA TypeStep == TypeOK /\ [Next]_vars => TypeOK'
<1> SUFFICES ASSUME TypeOK, [Next]_vars PROVE TypeOK'
  OBVIOUS
<1> USE DEF TypeOK
<1>1. CASE CaptureEvent
  <2>1. head + 1 \in Cursors /\ Main \in TaskIds
    BY <1>1, RowsAssumption DEF CaptureEvent, Cursors, TaskIds
  <2>2. Coalesced(task[Main], head + 1) \in TaskRow
    <3>1. Revived(task[Main]) \in TaskRow
      BY <2>1 DEF Revived, TaskRow, TaskStatus, FailureClasses, Live
    <3>2. QED
      BY <2>1, <3>1 DEF Coalesced, Larger, TaskRow, Cursors
  <2>3. QED
    BY <1>1, <2>1, <2>2 DEF CaptureEvent
<1>2. ASSUME NEW w \in Workers, NEW t \in TaskIds, ClaimNext(w, t)
      PROVE  TypeOK'
  <2>1. Claimed(task[t], w) \in TaskRow
    BY DEF Claimed, TaskRow, TaskStatus
  <2>2. Snapshot(t, task[t]) \in WorkerState
    BY IdleTypes
  <2>3. QED
    BY <1>2, <2>1, <2>2 DEF ClaimNext
<1>3. ASSUME NEW w \in Workers, NEW upto \in Cursors, MarkDone(w, upto)
      PROVE  TypeOK'
  <2>1. worker[w].task \in TaskIds
    BY WorkerStateTypes
  <2>2. Completed(task[worker[w].task], upto) \in TaskRow
    BY <2>1 DEF Completed, TaskRow, TaskStatus
  <2>3. Settling("marking", worker[w].task) \in WorkerState
    BY <2>1, IdleTypes
  <2>4. processed \union (worker[w].cursor + 1 .. upto) \in SUBSET Events
    <3>1. worker[w].cursor \in Nat /\ upto \in Nat /\ upto <= MaxEvent
      BY WorkerStateTypes, RowsAssumption DEF Cursors
    <3>2. worker[w].cursor + 1 .. upto \subseteq Events
      BY <3>1, RowsAssumption DEF Events
    <3>3. QED
      BY <3>2
  <2>5. QED
    BY <1>3, <2>1, <2>2, <2>3, <2>4 DEF MarkDone
<1>4. ASSUME NEW w \in Workers, MarkReplayed(w)
      PROVE  TypeOK'
  <2> DEFINE t == worker[w].task
  <2>1. t \in TaskIds
    BY WorkerStateTypes
  <2>2. worker' \in [Workers -> WorkerState]
    BY <1>4, <2>1, IdleTypes DEF MarkReplayed
  <2>3. range' \in [Ranges -> RangeRow]
    <3>1. CASE t \in Ranges
      <4>1. ReplayedRange(range[t]) \in RangeRow
        BY <3>1 DEF ReplayedRange, RangeRow, RangeStatus
      <4>2. QED
        BY <1>4, <3>1, <4>1 DEF MarkReplayed
    <3>2. CASE t \notin Ranges
      BY <1>4, <3>2 DEF MarkReplayed
    <3>3. QED
      BY <3>1, <3>2
  <2>4. QED
    BY <1>4, <2>2, <2>3 DEF MarkReplayed
<1>5. ASSUME NEW w \in Workers, ClearLinked(w)
      PROVE  TypeOK'
  <2>1. worker[w].task \in TaskIds
    BY WorkerStateTypes
  <2>2. Cleared(task[worker[w].task]) \in TaskRow
    BY <2>1, ClearedType
  <2>3. Settling("closing", worker[w].task) \in WorkerState
    BY <2>1, IdleTypes
  <2>4. QED
    BY <1>5, <2>1, <2>2, <2>3 DEF ClearLinked
<1>6. ASSUME NEW w \in Workers, ClearSource(w)
      PROVE  TypeOK'
  BY <1>6, SourceClearedType, IdleTypes DEF ClearSource
<1>7. ASSUME NEW w \in Workers, NEW class \in FailureClasses,
             Exhaust(w, class) \/ RetryLater(w),
             worker' = [worker EXCEPT ![w] = Idle],
             UNCHANGED <<head, processed>>
      PROVE  TypeOK'
  <2>1. CASE Exhaust(w, class)
    BY <1>7, <2>1, ExhaustTypes, IdleTypes
  <2>2. CASE RetryLater(w)
    <3>1. worker[w].task \in TaskIds /\ worker[w].attempts + 1 \in Nat
      BY WorkerStateTypes
    <3>2. Retrying(task[worker[w].task], worker[w].attempts + 1) \in TaskRow
      BY <3>1 DEF Retrying, TaskRow, TaskStatus
    <3>3. QED
      BY <1>7, <2>2, <3>1, <3>2, IdleTypes DEF RetryLater
  <2>3. QED
    BY <1>7, <2>1, <2>2
<1>8. ASSUME NEW w \in Workers, Defer(w)
      PROVE  TypeOK'
  <2>1. "transient" \in FailureClasses
    BY DEF FailureClasses
  <2>2. QED
    BY <1>7, <1>8, <2>1 DEF Defer
<1>9. ASSUME NEW w \in Workers, NEW class \in FailureClasses, Fail(w, class)
      PROVE  TypeOK'
  BY <1>7, <1>9 DEF Fail
<1>10. ASSUME NEW w \in Workers, Wait(w)
       PROVE  TypeOK'
  <2>1. worker[w].task \in TaskIds
    BY WorkerStateTypes
  <2>2. Released(task[worker[w].task]) \in TaskRow
    BY <2>1 DEF Released, TaskRow, TaskStatus
  <2>3. QED
    BY <1>10, <2>1, <2>2, IdleTypes DEF Wait
<1>11. ASSUME NEW w \in Workers, LoseLease(w) \/ Crash(w)
       PROVE  TypeOK'
  BY <1>11, IdleTypes DEF LoseLease, Crash
<1>12. ASSUME NEW S \in SUBSET Processing, ReleaseExpired(S)
       PROVE  TypeOK'
  <2>1. "transient" \in FailureClasses
    BY DEF FailureClasses
  <2>2. \A t \in TaskIds : /\ Released(task[t]) \in TaskRow
                          /\ ArchivedTask(task[t], "transient") \in TaskRow
    <3> SUFFICES ASSUME NEW t \in TaskIds
                 PROVE  /\ Released(task[t]) \in TaskRow
                        /\ ArchivedTask(task[t], "transient") \in TaskRow
      OBVIOUS
    <3>1. task[t].attempts + 1 \in Nat
      BY DEF TaskRow
    <3>2. QED
      BY <2>1, <3>1 DEF Released, ArchivedTask, TaskRow, TaskStatus
  <2>3. \A r \in Ranges : ArchivedRange(range[r], "transient") \in RangeRow
    BY <2>1 DEF ArchivedRange, RangeRow, RangeStatus
  <2>4. QED
    BY <1>12, <2>2, <2>3 DEF ReleaseExpired
<1>13. ASSUME NEW r \in Ranges, NEW b \in BOOLEAN,
              AutoRetry(r, b) \/ RetryRange(r, b)
       PROVE  TypeOK'
  <2>1. RequeuedRange(range[r]) \in RangeRow
    <3>1. range[r].attempts + 1 \in Nat
      BY DEF RangeRow
    <3>2. QED
      BY <3>1 DEF RequeuedRange, RangeRow, RangeStatus
  <2>2. QED
    BY <1>13, <2>1, EnqueuedReplayType DEF AutoRetry, RetryRange
<1>14. ASSUME NEW r \in Ranges, QuarantineRange(r)
       PROVE  TypeOK'
  <2>1. r \in TaskIds /\ Cleared(task[r]) \in TaskRow
    BY ClearedType DEF TaskIds
  <2>2. range' \in [Ranges -> RangeRow]
    BY <1>14 DEF QuarantineRange, RangeRow, RangeStatus
  <2>3. QED
    BY <1>14, <2>1, <2>2, SourceClearedType DEF QuarantineRange
<1>15. ASSUME NEW S \in SUBSET Ranges, ArchiveRanges(S)
       PROVE  TypeOK'
  <2>1. range' \in [Ranges -> RangeRow]
    BY <1>15 DEF ArchiveRanges, RangeRow
  <2>2. QED
    BY <1>15, <2>1 DEF ArchiveRanges
<1>16. ASSUME NEW w \in Workers, NEW r \in Ranges,
              NEW acknowledge \in BOOLEAN, NEW includeArchived \in BOOLEAN,
              ExactClaim(w, r, acknowledge, includeArchived)
       PROVE  TypeOK'
  <2>1. EnqueuedReplay(r) \in TaskRow
    BY EnqueuedReplayType
  <2>2. Claimed(EnqueuedReplay(r), w) \in TaskRow
    BY <2>1, TaskRowTypes, RowsAssumption DEF Claimed, TaskRow, TaskStatus
  <2>3. RequeuedRange(range[r]) \in RangeRow
    <3>1. range[r].attempts + 1 \in Nat
      BY DEF RangeRow
    <3>2. QED
      BY <3>1 DEF RequeuedRange, RangeRow, RangeStatus
  <2>4. Snapshot(r, EnqueuedReplay(r)) \in WorkerState
    BY <2>1, IdleTypes DEF TaskIds
  <2>5. QED
    BY <1>16, <2>2, <2>3, <2>4 DEF ExactClaim
<1>17. ASSUME NEW w \in Workers, NEW class \in FailureClasses,
              ArchiveExact(w, class)
       PROVE  TypeOK'
  <2> DEFINE t == worker[w].task
  <2>1. t \in TaskIds /\ task[t] \in TaskRow
    BY WorkerStateTypes
  <2>2. ArchivedTask(task[t], class) \in TaskRow
    <3>1. task[t].attempts + 1 \in Nat
      BY <2>1 DEF TaskRow
    <3>2. QED
      BY <2>1, <3>1 DEF ArchivedTask, TaskRow, TaskStatus
  <2>3. t \in Ranges => ArchivedRange(range[t], class) \in RangeRow
    BY DEF ArchivedRange, RangeRow, RangeStatus
  <2>4. range' \in [Ranges -> RangeRow]
    BY <1>17, <2>3 DEF ArchiveExact
  <2>5. QED
    BY <1>17, <2>1, <2>2, <2>4, IdleTypes DEF ArchiveExact
<1>18. CASE UNCHANGED vars
  BY <1>18 DEF vars
<1>19. QED
  BY <1>1, <1>2, <1>3, <1>4, <1>5, <1>6, <1>8, <1>9, <1>10, <1>11, <1>12,
     <1>13, <1>14, <1>15, <1>16, <1>17, <1>18
  DEF Next, Claim, Settle, Maintain, Operate

LEMMA InitTypes == Init => TypeOK
<1>1. NoTask \in TaskRow /\ NoRange \in RangeRow
  BY RowsAssumption DEF NoTask, TaskRow, TaskStatus, Cursors, NoRange,
                        RangeRow, RangeStatus, FailureClasses
<1>2. QED
  BY <1>1, IdleTypes, RowsAssumption DEF Init, TypeOK, Cursors

(* Every table and every process's memory stays well formed. *)
THEOREM TypeCorrect == Spec => []TypeOK
BY InitTypes, TypeStep, PTL DEF Spec

=============================================================================
