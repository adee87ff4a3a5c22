------------------------ MODULE ExtractionQueueSafety ------------------------
(***************************************************************************)
(* The safety properties of ExtractionQueue, for any number of workers,    *)
(* events and attempts: the invariants follow from the inductive invariant *)
(* state by state, the action properties from one step taken under it, and *)
(* so does the refinement of the ledger of events.                         *)
(***************************************************************************)
EXTENDS ExtractionQueueInvariant

-----------------------------------------------------------------------------
(* Invariants *)

LEMMA NothingDropped == IInv => NoEventLost
<1> SUFFICES ASSUME IInv, NEW e \in 1 .. head
             PROVE  e \in processed \/ Owed(e)
  BY DEF NoEventLost
<1> DEFINE m == task[Main]
<1>1. /\ m.hw = head
      /\ ~Live(m) => m.cursor = head
      /\ head \in Nat /\ m.cursor \in Nat
  BY MainRow DEF IInv, PrimaryInv
<1>2. CASE e > m.cursor
  <2>1. Live(m) /\ e \in Pending(m)
    BY <1>1, <1>2 DEF Pending
  <2>2. QED
    BY <2>1 DEF Owed
<1>3. CASE ~(e > m.cursor)
  <2>1. e \in 1 .. m.cursor
    BY <1>1, <1>3
  <2>2. CASE e \notin processed
    <3>1. PICK r \in Ranges : Recorded(range[r]) /\ e \in Covers(r)
      BY <2>1, <2>2 DEF IInv, CoverInv
    <3>2. range[r].status # "replayed"
      BY <2>2, <3>1 DEF IInv, ReplayInv, ReplayRow
    <3>3. QED
      BY <3>1, <3>2 DEF Owed, InReplay
  <2>3. QED
    BY <2>2
<1>4. QED
  BY <1>2, <1>3

(* No captured event is ever dropped: processed, still to be done by the   *)
(* live primary task, or kept in a range that is not replayed.             *)
THEOREM EventsAreKept == Spec => []NoEventLost
<1>1. IInv => NoEventLost
  BY NothingDropped
<1>2. QED
  BY <1>1, InvariantHolds, PTL

(* A process that holds its lease works from a current snapshot.           *)
THEOREM SnapshotsAreCurrent == Spec => []SnapshotIsCurrent
<1>1. IInv => SnapshotIsCurrent
  BY DEF IInv, ClaimInv
<1>2. QED
  BY <1>1, InvariantHolds, PTL

(* No event is in the care of two ranges, or of a range and the primary    *)
(* task's future.                                                          *)
THEOREM RangesStayDisjoint == Spec => []RangesAreDisjoint
<1>1. IInv => RangesAreDisjoint
  BY DEF IInv, CoverInv
<1>2. QED
  BY <1>1, InvariantHolds, PTL

(* requeue_due_extraction_tasks never finds an exhausted primary task.     *)
THEOREM ExhaustionIsFinal == Spec => []ExhaustedTaskIsNotRequeued
<1>1. IInv => ExhaustedTaskIsNotRequeued
  BY DEF IInv, PrimaryInv
<1>2. QED
  BY <1>1, InvariantHolds, PTL

-----------------------------------------------------------------------------
(* Quarantine *)

LEMMA RequeueEffect ==
    ASSUME TypeOK, NEW r \in Ranges, NEW q \in Ranges, NEW row \in TaskRow,
           Live(row),
           task' = [task EXCEPT ![q] = row],
           range' = range \/ range' = [range EXCEPT ![q] = RequeuedRange(range[q])],
           range'[r].status # range[r].status
    PROVE  range'[r].status = "requeued" /\ Live(task'[r])
<1>1. r = q /\ range'[r] = RequeuedRange(range[q])
  BY DEF TypeOK
<1>2. range[q] \in RangeRow
  BY DEF TypeOK
<1>3. RequeuedRange(range[q]).status = "requeued"
  BY <1>2 DEF RequeuedRange, RangeRow
<1>4. task'[r] = row
  BY <1>1, Ids DEF TypeOK
<1>5. QED
  BY <1>1, <1>3, <1>4

LEMMA QuarantineKept ==
    ASSUME IInv, [Next]_vars, NEW r \in Ranges,
           range[r].status = "quarantined", range'[r].status # "quarantined"
    PROVE  range'[r].status = "requeued" /\ Live(task'[r])
<1>0. /\ TypeOK /\ range[r] \in RangeRow
      /\ range' # range
      /\ ~Live(task[r])
  BY DEF IInv, TypeOK, ReplayInv, ReplayRow
<1>1. ASSUME NEW w \in Workers, MarkReplayed(w) PROVE FALSE
  BY <1>0, <1>1 DEF MarkReplayed, TypeOK
<1>2. ASSUME NEW w \in Workers, NEW class \in FailureClasses,
             Running(w), Owns(w), Exhaust(w, class)
      PROVE  FALSE
  <2> DEFINE s == worker[w]
  <2>1. Live(task[s.task])
    BY <1>2 DEF Owns, Live
  <2>2. CASE range' = [range EXCEPT ![s.task] =
                         FailedRange(range[s.task], s.attempts + 1, class)]
    BY <1>0, <2>1, <2>2 DEF TypeOK
  <2>3. CASE range' = [range EXCEPT ![SkippedRange(s)] =
                         RecordedRange(range[SkippedRange(s)], class)]
    <3>1. range'[r] = range[r] \/ range'[r] = RecordedRange(range[r], class)
      BY <1>0, <2>3 DEF TypeOK
    <3>2. QED
      BY <1>0, <3>1, RecordedStatus
  <2>4. QED
    BY <1>0, <1>2, <2>2, <2>3 DEF Exhaust
<1>3. ASSUME NEW w \in Workers, Defer(w) PROVE FALSE
  BY <1>0, <1>2, <1>3 DEF Defer, RetryLater
<1>4. ASSUME NEW w \in Workers, NEW class \in FailureClasses, Fail(w, class)
      PROVE  FALSE
  BY <1>0, <1>2, <1>4 DEF Fail, RetryLater
<1>5. ASSUME NEW w \in Workers, NEW class \in FailureClasses,
             ArchiveExact(w, class)
      PROVE  FALSE
  <2>1. Live(task[worker[w].task])
    BY <1>5 DEF ArchiveExact, Owns, Live
  <2>2. QED
    BY <1>0, <1>5, <2>1 DEF ArchiveExact, TypeOK
<1>6. ASSUME NEW w \in Workers, Settle(w) PROVE FALSE
  BY <1>0, <1>1, <1>3, <1>4, <1>5, <1>6
  DEF Settle, MarkDone, ClearLinked, ClearSource, Wait, LoseLease
<1>7. ASSUME NEW w \in Workers, Claim(w)
      PROVE  range'[r].status = "requeued" /\ Live(task'[r])
  <2>1. ASSUME NEW q \in Ranges, NEW acknowledge \in BOOLEAN,
               NEW includeArchived \in BOOLEAN,
               ExactClaim(w, q, acknowledge, includeArchived)
        PROVE  range'[r].status = "requeued" /\ Live(task'[r])
    <3>1. ~Live(task[q]) /\ EnqueuedReplay(q) \in TaskRow
      BY <1>0, <2>1, EnqueuedFields DEF ExactClaim, Retryable
    <3>2. /\ Claimed(EnqueuedReplay(q), w) \in TaskRow
          /\ Live(Claimed(EnqueuedReplay(q), w))
      <4>1. 0 \in Cursors /\ 0 \in Nat /\ "transient" \in FailureClasses
        BY RowsAssumption DEF Cursors, FailureClasses
      <4>2. QED
        BY <3>1, <4>1, TaskRowTypes, ClaimedFields DEF Live
    <3>3. QED
      BY <1>0, <2>1, <3>2, RequeueEffect DEF ExactClaim
  <2>2. QED
    BY <1>0, <1>7, <2>1 DEF Claim, ClaimNext
<1>8. ASSUME NEW q \in Ranges, NEW b \in BOOLEAN, AutoRetry(q, b) \/ RetryRange(q, b)
      PROVE  range'[r].status = "requeued" /\ Live(task'[r])
  <2>1. /\ ~Live(task[q])
        /\ task' = [task EXCEPT ![q] = EnqueuedReplay(q)]
        /\ \/ range' = range
           \/ range' = [range EXCEPT ![q] = RequeuedRange(range[q])]
    BY <1>8 DEF AutoRetry, RetryRange, Retryable
  <2>2. EnqueuedReplay(q) \in TaskRow /\ Live(EnqueuedReplay(q))
    BY <1>0, <2>1, EnqueuedFields DEF Live
  <2>3. QED
    BY <1>0, <2>1, <2>2, RequeueEffect
<1>9. ASSUME NEW S \in SUBSET Ranges, ArchiveRanges(S) PROVE FALSE
  BY <1>0, <1>9 DEF ArchiveRanges, RangeRow
<1>10. ASSUME NEW S \in SUBSET Processing, ReleaseExpired(S) PROVE FALSE
  <2>1. range'[r] = range[r] \/ range'[r] = ArchivedRange(range[r], "transient")
    BY <1>10 DEF ReleaseExpired
  <2>2. QED
    BY <1>0, <2>1 DEF ArchivedRange, RangeRow
<1>11. ASSUME NEW q \in Ranges, QuarantineRange(q) PROVE FALSE
  <2>1. range' = [range EXCEPT ![q].status = "quarantined"]
    BY <1>11 DEF QuarantineRange
  <2>2. QED
    BY <1>0, <2>1 DEF TypeOK, RangeRow
<1>12. QED
  BY <1>0, <1>6, <1>7, <1>8, <1>9, <1>10, <1>11
  DEF Next, Maintain, Operate, CaptureEvent, Crash, vars

(* A quarantined range is left only by being requeued with a live task.    *)
THEOREM QuarantineHolds == Spec => QuarantineIsSticky
<1>1. IInv /\ [Next]_vars =>
        \A r \in Ranges :
          range[r].status = "quarantined" /\ range'[r].status # "quarantined" =>
            range'[r].status = "requeued" /\ Live(task'[r])
  BY QuarantineKept
<1>2. QED
  BY <1>1, InvariantHolds, PTL DEF Spec, QuarantineIsSticky

-----------------------------------------------------------------------------
(* Exact replay *)

LEMMA ExactKept ==
    ASSUME IInv, [Next]_vars, NEW t \in TaskIds,
           task[t].status = "processing", task[t].owner \in Exact,
           task'[t] # task[t]
    PROVE  \/ task'[t].status = "done"
           \/ /\ task'[t].status = "failed"
              /\ range'[t].status = "quarantined"
              /\ range'[t].archived
<1> DEFINE Goal == \/ task'[t].status = "done"
                   \/ /\ task'[t].status = "failed"
                      /\ range'[t].status = "quarantined"
                      /\ range'[t].archived
<1>0. /\ TypeOK
      /\ t \in Ranges /\ t # Main
      /\ Live(task[t])
      /\ task[t] \in TaskRow /\ range[t] \in RangeRow
  BY Ids DEF IInv, ClaimInv, TypeOK, Live
<1>1. CASE CaptureEvent
  BY <1>0, <1>1 DEF CaptureEvent, TypeOK
<1>2. ASSUME NEW w \in Workers, NEW upto \in Cursors, MarkDone(w, upto)
      PROVE  Goal
  <2> DEFINE s == worker[w]
  <2>1. s.task = t /\ task[t].owner = w /\ task'[t] = Completed(task[t], upto)
    BY <1>0, <1>2 DEF MarkDone, Owns, TypeOK
  <2>2. upto = s.hw /\ s.hw = task[t].hw
    BY <1>0, <1>2, <2>1 DEF MarkDone, IInv, ClaimInv, SnapshotIsCurrent
  <2>3. ~(task[t].hw > upto)
    BY <1>0, <2>2, RowsAssumption DEF TaskRow, Cursors
  <2>4. QED
    BY <1>0, <2>1, <2>3, CompletedFields
<1>3. ASSUME NEW w \in Workers, w \notin Exact, Owns(w), worker[w].task = t
      PROVE  FALSE
  BY <1>3 DEF Owns
<1>4. ASSUME NEW w \in Workers, Defer(w) \/ Wait(w)
                                \/ \E class \in FailureClasses : Fail(w, class)
      PROVE  FALSE
  <2>1. \A u \in TaskIds : u # worker[w].task => task'[u] = task[u]
    BY <1>0, <1>4
    DEF Defer, Wait, Fail, Exhaust, RetryLater, TypeOK
  <2>2. w \notin Exact /\ Owns(w)
    BY <1>4 DEF Defer, Wait, Fail
  <2>3. QED
    BY <1>3, <2>1, <2>2
<1>5. ASSUME NEW w \in Workers, ClearLinked(w) \/ ClearSource(w)
      PROVE  FALSE
  BY <1>0, <1>5 DEF ClearLinked, ClearSource, SourceCleared, Cleared, TypeOK
<1>6. ASSUME NEW w \in Workers, NEW class \in FailureClasses,
             ArchiveExact(w, class)
      PROVE  Goal
  <2>1. worker[w].task = t
    BY <1>0, <1>6 DEF ArchiveExact, TypeOK
  <2>2. /\ task'[t] = ArchivedTask(task[t], class)
        /\ range'[t] = ArchivedRange(range[t], class)
    BY <1>0, <1>6, <2>1 DEF ArchiveExact, TypeOK
  <2>3. range'[t].status = "quarantined" /\ range'[t].archived
    BY <1>0, <2>2 DEF ArchivedRange, RangeRow
  <2>4. QED
    BY <1>0, <2>2, <2>3, ArchivedFields
<1>7. ASSUME NEW w \in Workers, Settle(w) PROVE Goal
  BY <1>2, <1>4, <1>5, <1>6, <1>7 DEF Settle, MarkReplayed, LoseLease
<1>8. ASSUME NEW u \in TaskIds, ~Live(task[u]) \/ task[u].status = "pending",
             \A v \in TaskIds \ {u} : task'[v] = task[v]
      PROVE  FALSE
  BY <1>0, <1>8
<1>9. ASSUME NEW w \in Workers, Claim(w) PROVE FALSE
  <2>1. ASSUME NEW u \in TaskIds, ClaimNext(w, u) PROVE FALSE
    BY <1>8, <2>1 DEF ClaimNext, IInv, TypeOK
  <2>2. ASSUME NEW q \in Ranges, NEW a \in BOOLEAN, NEW i \in BOOLEAN,
               ExactClaim(w, q, a, i)
        PROVE  FALSE
    BY <1>8, <2>2, Ids DEF ExactClaim, Retryable, IInv, TypeOK
  <2>3. QED
    BY <1>9, <2>1, <2>2 DEF Claim
<1>10. ASSUME NEW q \in Ranges, NEW b \in BOOLEAN,
              AutoRetry(q, b) \/ RetryRange(q, b)
       PROVE  FALSE
  BY <1>8, <1>10, Ids DEF AutoRetry, RetryRange, Retryable, IInv, TypeOK
<1>11. ASSUME NEW q \in Ranges, QuarantineRange(q) PROVE FALSE
  <2>1. ~Live(task[q])
    BY <1>11 DEF QuarantineRange, Retryable
  <2>2. \A u \in TaskIds \ {q, Main} : task'[u] = task[u]
    BY <1>0, <1>11 DEF QuarantineRange, SourceCleared, TypeOK
  <2>3. QED
    BY <1>0, <2>1, <2>2
<1>12. ASSUME NEW S \in SUBSET Processing, ReleaseExpired(S) PROVE Goal
  <2>1. t \in S
    BY <1>12 DEF ReleaseExpired
  <2>2. /\ task'[t] = ArchivedTask(task[t], "transient")
        /\ range'[t] = ArchivedRange(range[t], "transient")
    BY <1>0, <1>12, <2>1 DEF ReleaseExpired
  <2>3. range'[t].status = "quarantined" /\ range'[t].archived
    BY <1>0, <2>2 DEF ArchivedRange, RangeRow
  <2>4. QED
    BY <1>0, <2>2, <2>3, ArchivedFields DEF FailureClasses
<1>13. QED
  BY <1>1, <1>7, <1>9, <1>10, <1>11, <1>12
  DEF Next, Maintain, Operate, ArchiveRanges, Crash, vars

(* Work an exact replay holds ends done, or failed with its range in       *)
(* archived quarantine; it never becomes claimable.                        *)
THEOREM ExactIsContained == Spec => ExactStaysContained
<1>1. IInv /\ [Next]_vars =>
        \A t \in TaskIds :
          task[t].status = "processing" /\ task[t].owner \in Exact
            /\ task'[t] # task[t] =>
              \/ task'[t].status = "done"
              \/ /\ task'[t].status = "failed"
                 /\ range'[t].status = "quarantined"
                 /\ range'[t].archived
  BY ExactKept
<1>2. QED
  BY <1>1, InvariantHolds, PTL DEF Spec, ExactStaysContained

-----------------------------------------------------------------------------
(* Refinement of EventLedger.  Under the inductive invariant an event is   *)
(* owed if it lies ahead of the primary cursor or in an open range, so a   *)
(* step that moves neither is a stutter of the ledger; four are left.      *)

Open(r) == Recorded(range[r]) /\ range[r].status # "replayed"

(* The events owed, as the cursor and the ranges show them. *)
Debt == {e \in 1 .. head : \/ e > task[Main].cursor
                           \/ \E r \in Ranges : Open(r) /\ e \in Covers(r)}

LEMMA OwedForm == IInv => OwedEvents = Debt
<1> SUFFICES ASSUME IInv PROVE OwedEvents = Debt
  OBVIOUS
<1>1. /\ task[Main].hw = head
      /\ ~Live(task[Main]) => task[Main].cursor = head
      /\ head \in Nat /\ task[Main].cursor \in Nat
  BY MainRow DEF IInv, PrimaryInv
<1>2. \A e \in 1 .. head :
        (Live(task[Main]) /\ e \in Pending(task[Main])) <=> e > task[Main].cursor
  BY <1>1 DEF Pending
<1>3. QED
  BY <1>2 DEF OwedEvents, Owed, InReplay, Debt, Open

LEMMA OwedFormNext == (IInv => OwedEvents = Debt)'
BY OwedForm, PTL

(* A step that leaves the cursor and every range's openness alone is a     *)
(* stutter of the ledger.                                                  *)
LEMMA SameDebt ==
    ASSUME IInv, IInv',
           head' = head,
           processed' = processed,
           task'[Main].cursor = task[Main].cursor,
           \A r \in Ranges : Open(r)' <=> Open(r)
    PROVE  UNCHANGED Ledger!vars
<1>1. Debt' = Debt
  BY DEF Debt
<1>2. QED
  BY <1>1, OwedForm, OwedFormNext DEF Ledger!vars

-----------------------------------------------------------------------------
(* The steps that change what is owed, or to whom. *)

LEMMA CaptureRefines ==
    ASSUME IInv, IInv', CaptureEvent
    PROVE  Ledger!Next
<1>1. /\ head \in Nat /\ task[Main].cursor \in Nat
      /\ task[Main].cursor <= head
      /\ head < MaxEvent /\ head' = head + 1
      /\ range' = range /\ processed' = processed
  BY MainRow DEF IInv, PrimaryInv, CaptureEvent
<1>2. task'[Main].cursor = task[Main].cursor
  <2>1. task'[Main] = Coalesced(task[Main], head + 1)
    BY Ids DEF CaptureEvent, IInv, TypeOK
  <2>2. task[Main] \in TaskRow
    BY MainRow DEF IInv
  <2>3. QED
    BY <2>1, <2>2 DEF Coalesced, Revived, Live, TaskRow
<1>3. Debt' = Debt \union {head + 1}
  <2>1. Debt' = {e \in 1 .. head + 1 :
                   \/ e > task[Main].cursor
                   \/ \E r \in Ranges : Open(r) /\ e \in Covers(r)}
    BY <1>1, <1>2 DEF Debt, Open
  <2>2. 1 .. head + 1 = (1 .. head) \union {head + 1}
    BY <1>1
  <2>3. head + 1 > task[Main].cursor
    BY <1>1
  <2>4. QED
    BY <2>1, <2>2, <2>3 DEF Debt
<1>4. /\ head + 1 \in Events \ (1 .. head)
      /\ 1 .. head' = (1 .. head) \union {head + 1}
  BY <1>1, RowsAssumption DEF Events
<1>5. Ledger!Capture(head + 1)
  BY <1>1, <1>3, <1>4, OwedForm, OwedFormNext DEF Ledger!Capture
<1>6. QED
  BY <1>4, <1>5 DEF Ledger!Next

(* A completion processes events it owed: a primary task settles them, a   *)
(* replay leaves them owed until its range is closed.                      *)
LEMMA MarkDoneRefines ==
    ASSUME IInv, IInv', NEW w \in Workers, NEW upto \in Cursors,
           MarkDone(w, upto)
    PROVE  Ledger!Next
<1> DEFINE s == worker[w]
           t == s.task
           S == s.cursor + 1 .. upto
<1>1. /\ Running(w) /\ Owns(w)
      /\ task' = [task EXCEPT ![t] = Completed(task[t], upto)]
      /\ processed' = processed \union S
      /\ UNCHANGED <<head, range>>
  BY DEF MarkDone
<1>2. /\ t \in TaskIds
      /\ task[t] \in TaskRow
      /\ Live(task[t])
      /\ s.cursor = task[t].cursor
      /\ s.cursor <= s.hw
      /\ t \in Ranges => /\ s.hw = t.to
                         /\ t.from - 1 <= s.cursor
      /\ s.cursor \in Nat /\ s.hw \in Nat
      /\ s.hw <= head
  BY <1>1, HolderFacts
<1>3. upto \in Nat /\ s.cursor <= upto /\ upto <= s.hw
  <2>1. upto = s.hw \/ upto \in s.cursor + 1 .. s.hw
    BY DEF MarkDone
  <2>2. QED
    BY <1>2, <2>1
<1>4. head \in Nat /\ S \subseteq 1 .. head
  BY <1>2, <1>3, MainRow DEF IInv
<1>5. \A r \in Ranges : Open(r)' <=> Open(r)
  BY <1>1 DEF Open, Recorded
<1>6. ASSUME t = Main PROVE S \subseteq Debt /\ Debt' = Debt \ S
  <2>1. task[Main].cursor = s.cursor /\ task'[Main].cursor = upto
    BY <1>1, <1>2, <1>6, CompletedFields DEF IInv, TypeOK
  <2>2. S \subseteq Debt
    BY <1>2, <1>4, <2>1 DEF Debt
  <2>3. \A r \in Ranges : Open(r) => \A e \in S : e \notin Covers(r)
    <3>1. \A r \in Ranges : Open(r) => r.to <= s.cursor
      BY <2>1 DEF Open, IInv, CoverInv, RangesAreDisjoint
    <3>2. QED
      BY <1>2, <1>3, <3>1, RangeBounds DEF Covers
  <2>4. \A e \in 1 .. head : e > upto <=> e > s.cursor /\ e \notin S
    BY <1>2, <1>3, <1>4
  <2>5. Debt' = {e \in 1 .. head : \/ e > upto
                                   \/ \E r \in Ranges : Open(r) /\ e \in Covers(r)}
    BY <1>1, <1>5, <2>1 DEF Debt
  <2>6. QED
    BY <2>1, <2>2, <2>3, <2>4, <2>5 DEF Debt
<1>7. ASSUME t \in Ranges PROVE S \subseteq Debt /\ Debt' = Debt
  <2>1. Open(t)
    BY <1>2, <1>7 DEF IInv, ReplayInv, ReplayRow, Open, Live
  <2>2. S \subseteq Covers(t)
    BY <1>2, <1>3, <1>7, RangeBounds DEF Covers
  <2>3. S \subseteq Debt
    BY <1>4, <1>7, <2>1, <2>2 DEF Debt
  <2>4. task'[Main] = task[Main]
    BY <1>1, <1>7, Ids DEF IInv, TypeOK
  <2>5. QED
    BY <1>1, <1>5, <2>3, <2>4 DEF Debt
<1>8. PICK settled \in SUBSET S : S \subseteq Debt /\ Debt' = Debt \ settled
  BY <1>2, <1>6, <1>7 DEF TaskIds
<1>9. Ledger!Process(S, settled) /\ S \in SUBSET OwedEvents
  BY <1>1, <1>8, OwedForm, OwedFormNext DEF Ledger!Process
<1>10. QED
  BY <1>9 DEF Ledger!Next

(* Closing a range discharges its events: all of them are processed.       *)
LEMMA MarkReplayedRefines ==
    ASSUME IInv, IInv', NEW w \in Workers, MarkReplayed(w)
    PROVE  Ledger!Next
<1> DEFINE t == worker[w].task
           S == Debt \ Debt'
<1>1. UNCHANGED <<head, task, processed>>
  BY DEF MarkReplayed
<1>2. \A r \in Ranges : range'[r] = range[r] \/ range'[r].status = "replayed"
  <2>1. \A r \in Ranges : \/ range'[r] = range[r]
                          \/ range'[r] = ReplayedRange(range[r])
    BY DEF MarkReplayed, IInv, TypeOK
  <2>2. \A r \in Ranges : ReplayedRange(range[r]).status = "replayed"
    BY DEF ReplayedRange, IInv, TypeOK, RangeRow
  <2>3. QED
    BY <2>1, <2>2
<1>3. \A r \in Ranges : Open(r)' => Open(r)
  BY <1>2 DEF Open, Recorded
<1>4. \A r \in Ranges : Open(r) /\ ~Open(r)' => Covers(r) \subseteq processed
  <2>1. \A r \in Ranges : range'[r].status = "replayed" =>
                             Covers(r) \subseteq processed'
    BY DEF IInv, ReplayInv, ReplayRow, Covers
  <2>2. QED
    BY <1>1, <1>2, <2>1 DEF Open, Recorded
<1>5. Debt' \subseteq Debt
  BY <1>1, <1>3 DEF Debt
<1>6. S \subseteq processed
  BY <1>1, <1>4 DEF Debt
<1>7. Ledger!Discharge(S) /\ S \in SUBSET OwedEvents
  BY <1>1, <1>5, <1>6, OwedForm, OwedFormNext DEF Ledger!Discharge
<1>8. QED
  BY <1>7 DEF Ledger!Next

(* Exhaustion moves the cursor over events nobody processed, and the range *)
(* it records takes over exactly these.                                    *)
LEMMA ExhaustRefines ==
    ASSUME IInv, IInv', NEW w \in Workers, NEW class \in FailureClasses,
           Running(w), Owns(w), Exhaust(w, class),
           UNCHANGED <<head, processed>>
    PROVE  UNCHANGED Ledger!vars
<1> DEFINE s == worker[w]
           t == s.task
           r == SkippedRange(s)
<1>1. /\ t \in TaskIds
      /\ task[t] \in TaskRow
      /\ Live(task[t])
      /\ s.cursor = task[t].cursor
      /\ s.cursor <= s.hw
      /\ s.cursor \in Nat /\ s.hw \in Nat
      /\ s.hw <= head
      /\ s.hw \in Cursors
      /\ s.attempts + 1 \in Nat
  BY HolderFacts, WorkerStateTypes DEF IInv
<1>2. CASE t \in Ranges
  <2>1. task'[Main] = task[Main]
    BY <1>2, Ids DEF Exhaust, IInv, TypeOK
  <2>2. range' = [range EXCEPT ![t] = FailedRange(range[t], s.attempts + 1, class)]
    BY <1>2, QueueAssumption DEF Exhaust
  <2>3. Open(t) /\ range'[t].status = "failed"
    <3>1. range[t] \in RangeRow
      BY <1>2 DEF IInv, TypeOK
    <3>2. range'[t] = FailedRange(range[t], s.attempts + 1, class)
      BY <1>2, <2>2 DEF IInv, TypeOK
    <3>3. range'[t].status = "failed"
      BY <3>1, <3>2 DEF FailedRange, RangeRow
    <3>4. QED
      BY <1>1, <1>2, <3>3 DEF IInv, ReplayInv, ReplayRow, Open, Live
  <2>4. \A q \in Ranges : Open(q)' <=> Open(q)
    BY <2>2, <2>3 DEF Open, Recorded, IInv, TypeOK
  <2>5. QED
    BY <2>1, <2>4, SameDebt
<1>3. CASE t = Main
  <2>1. task[Main].cursor = s.cursor /\ task'[Main].cursor = s.hw
    <3>1. task'[Main] = ExhaustedTask(task[Main], s.hw, s.attempts + 1, class)
      BY <1>3, Ids DEF Exhaust, IInv, TypeOK
    <3>2. QED
      BY <1>1, <1>3, <3>1, ExhaustedFields
  <2>2. CASE s.hw > s.cursor
    <3>1. /\ r \in Ranges
          /\ r.from = s.cursor + 1 /\ r.to = s.hw
          /\ range' = [range EXCEPT ![r] = RecordedRange(range[r], class)]
      <4>1. r \in Ranges /\ r.from = s.cursor + 1 /\ r.to = s.hw
        BY <1>1, <2>2, RowsAssumption DEF SkippedRange, Ranges, Events, Cursors
      <4>2. QED
        BY <1>3, <2>2, <4>1, QueueAssumption DEF Exhaust
    <3>2. range'[r].status \in {"pending", "quarantined"}
      <4>1. range[r] \in RangeRow /\ range'[r] = RecordedRange(range[r], class)
        BY <3>1 DEF IInv, TypeOK
      <4>2. QED
        BY <4>1, RecordedStatus
    <3>3. \A q \in Ranges : Open(q)' <=> Open(q) \/ q = r
      BY <3>1, <3>2 DEF Open, Recorded, IInv, TypeOK
    <3>4. \A e \in 1 .. head : e > s.cursor <=> e > s.hw \/ e \in Covers(r)
      BY <1>1, <2>2, <3>1, MainRow DEF Covers, IInv
    <3>5. Debt' = {e \in 1 .. head : \/ e > s.hw
                                     \/ \E q \in Ranges : (Open(q) \/ q = r)
                                                          /\ e \in Covers(q)}
      BY <2>1, <3>3 DEF Debt
    <3>6. Debt' = Debt
      BY <2>1, <3>1, <3>4, <3>5 DEF Debt
    <3>7. QED
      BY <3>6, OwedForm, OwedFormNext DEF Ledger!vars
  <2>3. CASE ~(s.hw > s.cursor)
    <3>1. range' = range
      BY <1>3, <2>3, QueueAssumption DEF Exhaust
    <3>2. s.hw = s.cursor
      BY <1>1, <2>3
    <3>3. QED
      BY <2>1, <3>1, <3>2, SameDebt DEF Open, Recorded
  <2>4. QED
    BY <2>2, <2>3
<1>4. QED
  BY <1>1, <1>2, <1>3 DEF TaskIds

-----------------------------------------------------------------------------
(* Every other step is a stutter of the ledger. *)

LEMMA GiveBackRefines ==
    ASSUME IInv, IInv', NEW w \in Workers, Owns(w), RetryLater(w) \/ Wait(w),
           UNCHANGED <<head, range, processed>>
    PROVE  UNCHANGED Ledger!vars
<1>1. task'[Main] \in {task[Main], Released(task[Main]),
                       Retrying(task[Main], worker[w].attempts + 1)}
  BY Ids DEF RetryLater, Wait, IInv, TypeOK
<1>2. task'[Main].cursor = task[Main].cursor
  <2>1. task[Main] \in TaskRow
    BY MainRow DEF IInv
  <2>2. QED
    BY <1>1, <2>1 DEF Retrying, Released, TaskRow
<1>3. QED
  BY <1>2, SameDebt DEF Open, Recorded

LEMMA ClearRefines ==
    ASSUME IInv, IInv', NEW w \in Workers, ClearLinked(w) \/ ClearSource(w)
    PROVE  UNCHANGED Ledger!vars
<1>1. /\ UNCHANGED <<head, range, processed>>
      /\ task'[Main] = task[Main] \/ task'[Main] = Cleared(task[Main])
  BY Ids DEF ClearLinked, ClearSource, SourceCleared, IInv, TypeOK
<1>2. task'[Main].cursor = task[Main].cursor
  BY <1>1, MainRow, ClearedFields DEF IInv
<1>3. QED
  BY <1>1, <1>2, SameDebt DEF Open, Recorded

(* An exact attempt that is put away leaves its range open, in quarantine. *)
LEMMA PutAway ==
    ASSUME IInv, NEW r \in Ranges, Live(task[r]), NEW class \in FailureClasses,
           range'[r] = ArchivedRange(range[r], class)
    PROVE  Open(r)' /\ Open(r)
<1>1. range[r] \in RangeRow
  BY DEF IInv, TypeOK
<1>2. range'[r].status = "quarantined"
  BY <1>1 DEF ArchivedRange, RangeRow
<1>3. QED
  BY <1>2 DEF IInv, ReplayInv, ReplayRow, Open, Recorded, Live

LEMMA ArchiveExactRefines ==
    ASSUME IInv, IInv', NEW w \in Workers, NEW class \in FailureClasses,
           ArchiveExact(w, class)
    PROVE  UNCHANGED Ledger!vars
<1> DEFINE t == worker[w].task
<1>1. Live(task[t]) /\ t \in TaskIds
  BY WorkerStateTypes DEF ArchiveExact, Owns, Live, IInv
<1>2. t \in Ranges
  BY <1>1 DEF ArchiveExact, Owns, IInv, ClaimInv
<1>3. task'[Main] = task[Main]
  BY <1>2, Ids DEF ArchiveExact, IInv, TypeOK
<1>4. /\ range'[t] = ArchivedRange(range[t], class)
      /\ \A q \in Ranges \ {t} : range'[q] = range[q]
  BY <1>2 DEF ArchiveExact, IInv, TypeOK
<1>5. \A q \in Ranges : Open(q)' <=> Open(q)
  BY <1>1, <1>2, <1>4, PutAway DEF Open, Recorded
<1>6. QED
  BY <1>3, <1>5, SameDebt DEF ArchiveExact

LEMMA ReleaseExpiredRefines ==
    ASSUME IInv, IInv', NEW S \in SUBSET Processing, ReleaseExpired(S)
    PROVE  UNCHANGED Ledger!vars
<1>1. task'[Main].cursor = task[Main].cursor
  <2>1. task'[Main] \in {task[Main], ArchivedTask(task[Main], "transient"),
                         Released(task[Main])}
    BY Ids DEF ReleaseExpired
  <2>2. QED
    BY <2>1, MainRow DEF ArchivedTask, Released, IInv, TaskRow
<1>2. ASSUME NEW q \in Ranges PROVE Open(q)' <=> Open(q)
  <2>1. CASE q \in S /\ task[q].owner \in Exact
    <3>1. Live(task[q]) /\ range'[q] = ArchivedRange(range[q], "transient")
      BY <2>1 DEF ReleaseExpired, Live
    <3>2. QED
      BY <3>1, PutAway DEF FailureClasses
  <2>2. CASE ~(q \in S /\ task[q].owner \in Exact)
    BY <2>2 DEF ReleaseExpired, Open, Recorded
  <2>3. QED
    BY <2>1, <2>2
<1>3. QED
  BY <1>1, <1>2, SameDebt DEF ReleaseExpired

LEMMA RequeueRefines ==
    ASSUME IInv, IInv', NEW q \in Ranges,
           range[q].status \in {"pending", "failed", "quarantined"},
           \A u \in TaskIds \ {q} : task'[u] = task[u],
           range' = range \/ range' = [range EXCEPT ![q] = RequeuedRange(range[q])],
           UNCHANGED <<head, processed>>
    PROVE  UNCHANGED Ledger!vars
<1>1. RequeuedRange(range[q]).status = "requeued"
  BY DEF RequeuedRange, IInv, TypeOK, RangeRow
<1>2. \A r \in Ranges : Open(r)' <=> Open(r)
  BY <1>1 DEF Open, Recorded, IInv, TypeOK
<1>3. QED
  BY <1>2, SameDebt, Ids

LEMMA QuarantineRefines ==
    ASSUME IInv, IInv', NEW q \in Ranges, QuarantineRange(q)
    PROVE  UNCHANGED Ledger!vars
<1>1. task'[Main] = task[Main] \/ task'[Main] = Cleared(task[Main])
  BY Ids DEF QuarantineRange, SourceCleared, IInv, TypeOK
<1>2. task'[Main].cursor = task[Main].cursor
  BY <1>1, MainRow, ClearedFields DEF IInv
<1>3. \A r \in Ranges : Open(r)' <=> Open(r)
  BY DEF QuarantineRange, Retryable, Open, Recorded, IInv, TypeOK, RangeRow
<1>4. QED
  BY <1>2, <1>3, SameDebt DEF QuarantineRange

LEMMA ArchiveRangesRefines ==
    ASSUME IInv, IInv', NEW S \in SUBSET Ranges, ArchiveRanges(S)
    PROVE  UNCHANGED Ledger!vars
<1>1. \A r \in Ranges : range'[r].status = range[r].status
  BY DEF ArchiveRanges, IInv, TypeOK, RangeRow
<1>2. QED
  BY <1>1, SameDebt DEF ArchiveRanges, Open, Recorded

-----------------------------------------------------------------------------
LEMMA InitRefines == Init => Ledger!Init
<1> SUFFICES ASSUME Init PROVE Ledger!Init
  OBVIOUS
<1>1. 1 .. head = {} /\ processed = {}
  BY DEF Init
<1>2. OwedEvents = {}
  BY <1>1 DEF OwedEvents
<1>3. QED
  BY <1>1, <1>2 DEF Ledger!Init

LEMMA StepRefines ==
    ASSUME IInv, IInv', [Next]_vars
    PROVE  [Ledger!Next]_(Ledger!vars)
<1>1. CASE UNCHANGED vars
  BY <1>1, SameDebt DEF vars, Open, Recorded
<1>2. ASSUME NEW w \in Workers, LoseLease(w) \/ Crash(w)
      PROVE  UNCHANGED Ledger!vars
  BY <1>2, SameDebt DEF LoseLease, Crash, Open, Recorded
<1>3. ASSUME NEW w \in Workers, \/ Defer(w)
                                \/ \E class \in FailureClasses : Fail(w, class)
      PROVE  UNCHANGED Ledger!vars
  BY <1>3, ExhaustRefines, GiveBackRefines DEF Defer, Fail, RetryLater
<1>4. ASSUME NEW w \in Workers, Wait(w) PROVE UNCHANGED Ledger!vars
  BY <1>4, GiveBackRefines DEF Wait
<1>5. ASSUME NEW w \in Workers, Settle(w) PROVE [Ledger!Next]_(Ledger!vars)
  BY <1>2, <1>3, <1>4, <1>5, MarkDoneRefines, MarkReplayedRefines,
     ClearRefines, ArchiveExactRefines
  DEF Settle
<1>6. ASSUME NEW w \in Workers, NEW t \in TaskIds, ClaimNext(w, t)
      PROVE  UNCHANGED Ledger!vars
  <2>1. task'[Main].cursor = task[Main].cursor
    BY <1>6, MainRow, ClaimedFields, Ids DEF ClaimNext, IInv, TypeOK
  <2>2. QED
    BY <1>6, <2>1, SameDebt DEF ClaimNext, Open, Recorded
<1>7. ASSUME NEW w \in Workers, NEW r \in Ranges,
             NEW acknowledge \in BOOLEAN, NEW includeArchived \in BOOLEAN,
             ExactClaim(w, r, acknowledge, includeArchived)
      PROVE  UNCHANGED Ledger!vars
  BY <1>7, RequeueRefines DEF ExactClaim, Retryable, IInv, TypeOK
<1>8. ASSUME NEW r \in Ranges, NEW b \in BOOLEAN, AutoRetry(r, b) \/ RetryRange(r, b)
      PROVE  UNCHANGED Ledger!vars
  BY <1>8, RequeueRefines DEF AutoRetry, RetryRange, Retryable, IInv, TypeOK
<1>9. QED
  BY <1>1, <1>2, <1>5, <1>6, <1>7, <1>8, CaptureRefines, ReleaseExpiredRefines,
     ArchiveRangesRefines, QuarantineRefines
  DEF Next, Claim, Maintain, Operate

(* Every step of the queue is a step of the ledger of events or changes    *)
(* nothing in it: no failure, retry, crash or operator command drops an    *)
(* event or owes a settled one again.                                      *)
THEOREM QueueImplementsLedger == Spec => ImplementsLedger
<1>1. IInv /\ [Next]_vars => IInv'
  BY InvariantStep
<1>2. IInv /\ IInv' /\ [Next]_vars => [Ledger!Next]_(Ledger!vars)
  BY StepRefines
<1>3. QED
  BY <1>1, <1>2, InitRefines, InvariantHolds, PTL
  DEF Spec, ImplementsLedger, Ledger!Spec

=============================================================================
