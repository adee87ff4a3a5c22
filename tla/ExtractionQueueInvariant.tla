----------------------- MODULE ExtractionQueueInvariant -----------------------
(***************************************************************************)
(* The inductive invariant of ExtractionQueue, and the safety properties   *)
(* that follow from it, for any number of workers, events and attempts.    *)
(*                                                                         *)
(* Each part of the invariant has a frame lemma: the part survives a step  *)
(* that leaves what it speaks of alone.  The lemma about an action then    *)
(* treats the parts the action really disturbs.                            *)
(***************************************************************************)
EXTENDS ExtractionQueueTypes

-----------------------------------------------------------------------------
(* The inductive invariant *)

(* The primary task: what it has still to do is exactly what lies between  *)
(* its cursor and the last captured event, and once it is terminal nothing *)
(* does.                                                                   *)
PrimaryInv ==
    /\ task[Main].hw = head
    /\ task[Main].cursor <= head
    /\ ~Live(task[Main]) => task[Main].cursor = head
    /\ ExhaustedTaskIsNotRequeued

(* Claims: a lease holder's snapshot is current, and exact processes hold  *)
(* replay tasks only.                                                      *)
ClaimInv ==
    /\ SnapshotIsCurrent
    /\ \A w \in Workers :
         Running(w) /\ Owns(w) => worker[w].cursor <= worker[w].hw
    /\ \A t \in TaskIds :
         task[t].status = "processing" /\ task[t].owner \in Exact =>
           t \in Ranges

(* A range and its replay task: the task stays within the range, has       *)
(* processed what its cursor has passed while it lives, and is done, or    *)
(* its range closed, only when all of it is processed.                     *)
ReplayRow(r) ==
    /\ task[r].status # "absent" => /\ Recorded(range[r])
                                    /\ task[r].hw = r.to
                                    /\ r.from - 1 <= task[r].cursor
                                    /\ task[r].cursor <= r.to
    /\ Live(task[r]) => /\ range[r].status \notin {"replayed", "quarantined"}
                        /\ r.from .. task[r].cursor \subseteq processed
    /\ task[r].status = "done" =>
         range[r].status = "quarantined" \/ Covers(r) \subseteq processed
    /\ range[r].status = "replayed" => Covers(r) \subseteq processed

ReplayInv == \A r \in Ranges : ReplayRow(r)

(* A process that is clearing up after a replay has closed its range. *)
ClearingInv ==
    \A w \in Workers :
      worker[w].pc = "clearing" =>
        worker[w].task \in Ranges /\ range[worker[w].task].status = "replayed"

(* Behind the cursor every event is processed or recorded in a range. *)
CoverInv ==
    /\ RangesAreDisjoint
    /\ processed \subseteq 1 .. head
    /\ \A e \in 1 .. task[Main].cursor :
         e \in processed \/ \E r \in Ranges : Recorded(range[r]) /\ e \in Covers(r)

IInv == TypeOK /\ PrimaryInv /\ ClaimInv /\ ReplayInv /\ ClearingInv /\ CoverInv

-----------------------------------------------------------------------------
(* Frame lemmas *)

LEMMA PrimaryFrame ==
    ASSUME TypeOK, PrimaryInv,
           head' = head,
           task'[Main].hw = task[Main].hw,
           task'[Main].cursor = task[Main].cursor,
           Live(task[Main]) => Live(task'[Main]),
           task'[Main].status = "failed" => task'[Main] = task[Main]
    PROVE  PrimaryInv'
BY DEF PrimaryInv, ExhaustedTaskIsNotRequeued, Live

LEMMA ClaimFrame ==
    ASSUME TypeOK, TypeOK', ClaimInv,
           \A w \in Workers : \/ worker'[w] = worker[w]
                              \/ worker'[w].pc # "running",
           \A t \in TaskIds : \/ task'[t] = task[t]
                              \/ task'[t].status # "processing"
    PROVE  ClaimInv'
<1>1. \A w \in Workers : Running(w)' /\ Owns(w)' =>
         /\ Running(w) /\ Owns(w)
         /\ worker'[w] = worker[w]
         /\ task'[worker[w].task] = task[worker[w].task]
  <2> SUFFICES ASSUME NEW w \in Workers, Running(w)', Owns(w)'
               PROVE  /\ Running(w) /\ Owns(w)
                      /\ worker'[w] = worker[w]
                      /\ task'[worker[w].task] = task[worker[w].task]
    OBVIOUS
  <2>1. worker'[w] = worker[w]
    BY DEF Running
  <2>2. worker[w].task \in TaskIds
    BY WorkerStateTypes
  <2>3. task'[worker[w].task] = task[worker[w].task]
    BY <2>1, <2>2 DEF Owns
  <2>4. QED
    BY <2>1, <2>3 DEF Running, Owns
<1>2. SnapshotIsCurrent'
  BY <1>1 DEF ClaimInv, SnapshotIsCurrent
<1>3. \A w \in Workers :
         Running(w)' /\ Owns(w)' => worker'[w].cursor <= worker'[w].hw
  BY <1>1 DEF ClaimInv
<1>4. \A t \in TaskIds :
         task'[t].status = "processing" /\ task'[t].owner \in Exact =>
           t \in Ranges
  BY DEF ClaimInv
<1>5. QED
  BY <1>2, <1>3, <1>4 DEF ClaimInv

LEMMA ReplayFrame ==
    ASSUME NEW r \in Ranges, ReplayRow(r),
           processed \subseteq processed',
           task'[r] = task[r],
           range'[r].status = range[r].status
    PROVE  ReplayRow(r)'
BY DEF ReplayRow, Recorded, Live, Covers

LEMMA ClearingFrame ==
    ASSUME TypeOK, ClearingInv,
           \A w \in Workers : \/ worker'[w] = worker[w]
                              \/ worker'[w].pc # "clearing",
           \A r \in Ranges : range[r].status = "replayed" =>
                                range'[r].status = "replayed"
    PROVE  ClearingInv'
BY DEF ClearingInv

LEMMA CoverFrame ==
    ASSUME CoverInv,
           processed \subseteq processed',
           processed' \subseteq 1 .. head',
           task'[Main].cursor = task[Main].cursor,
           \A r \in Ranges : Recorded(range'[r]) <=> Recorded(range[r])
    PROVE  CoverInv'
<1>1. RangesAreDisjoint'
  BY DEF CoverInv, RangesAreDisjoint
<1>2. \A e \in 1 .. task'[Main].cursor :
        \/ e \in processed'
        \/ \E r \in Ranges : Recorded(range'[r]) /\ e \in Covers(r)
  BY DEF CoverInv
<1>3. QED
  BY <1>1, <1>2 DEF CoverInv

-----------------------------------------------------------------------------
(* One lemma per action: it preserves the invariant. *)

LEMMA Ids == /\ Main \in TaskIds
             /\ \A r \in Ranges : r \in TaskIds /\ r # Main
BY QueueAssumption DEF TaskIds

LEMMA MainRow == ASSUME TypeOK
                 PROVE  /\ task[Main] \in TaskRow
                        /\ task[Main].cursor \in Nat
                        /\ task[Main].hw \in Nat
                        /\ head \in Nat
BY Ids, RowsAssumption DEF TypeOK, TaskRow, Cursors

LEMMA CaptureStep ==
    ASSUME IInv, TypeOK', CaptureEvent
    PROVE  IInv'
<1> DEFINE m == task[Main]
<1>1. task' = [task EXCEPT ![Main] = Coalesced(m, head + 1)]
  BY DEF CaptureEvent
<1>2. /\ task'[Main] = Coalesced(m, head + 1)
      /\ \A t \in TaskIds \ {Main} : task'[t] = task[t]
  BY <1>1, Ids DEF IInv, TypeOK
<1>3. /\ m \in TaskRow /\ m.hw = head /\ m.cursor <= head
      /\ head \in Nat /\ m.cursor \in Nat
  BY MainRow DEF IInv, PrimaryInv
<1>4. Larger(m.hw, head + 1) = head + 1
  BY <1>3 DEF Larger
<1>5. /\ task'[Main].hw = head + 1
      /\ task'[Main].cursor = m.cursor
      /\ Live(task'[Main])
      /\ task'[Main].owner = m.owner
      /\ Live(m) => /\ task'[Main].status = m.status
                    /\ task'[Main].attempts = m.attempts
      /\ ~Live(m) => task'[Main].status = "pending"
  BY <1>2, <1>3, <1>4 DEF Coalesced, Revived, Live, TaskRow
<1>6. PrimaryInv'
  BY <1>3, <1>5 DEF PrimaryInv, ExhaustedTaskIsNotRequeued, Live, CaptureEvent
<1>7. ClaimInv'
  <2>1. \A w \in Workers : Running(w)' /\ Owns(w)' =>
          /\ Running(w) /\ Owns(w)
          /\ worker'[w] = worker[w]
          /\ worker[w].task # Main => task'[worker[w].task] = task[worker[w].task]
    BY <1>2, <1>5, WorkerStateTypes
    DEF IInv, CaptureEvent, Running, Owns, Live
  <2>2. SnapshotIsCurrent'
    <3> SUFFICES ASSUME NEW w \in Workers, Running(w)', Owns(w)'
                 PROVE  LET s == worker[w]
                            t == task'[s.task]
                        IN /\ s.cursor = t.cursor
                           /\ s.attempts = t.attempts
                           /\ s.hw <= t.hw
                           /\ s.task \in Ranges => s.hw = t.hw
      BY <2>1 DEF SnapshotIsCurrent
    <3> DEFINE s == worker[w]
    <3>1. /\ s.cursor = task[s.task].cursor
          /\ s.attempts = task[s.task].attempts
          /\ s.hw <= task[s.task].hw
          /\ s.task \in Ranges => s.hw = task[s.task].hw
          /\ Running(w) /\ Owns(w)
      BY <2>1 DEF IInv, ClaimInv, SnapshotIsCurrent
    <3>2. CASE s.task = Main
      <4>1. Live(m) /\ s.hw \in Nat
        BY <3>1, <3>2, WorkerStateTypes, RowsAssumption
        DEF Owns, Live, IInv, Cursors
      <4>2. QED
        BY <1>3, <1>5, <3>1, <3>2, <4>1, Ids
    <3>3. CASE s.task # Main
      BY <2>1, <3>1, <3>3
    <3>4. QED
      BY <3>2, <3>3
  <2>3. QED
    BY <2>1, <2>2, <1>2, <1>5, Ids DEF IInv, ClaimInv, Live
<1>8. ReplayInv'
  BY <1>2, Ids, ReplayFrame DEF IInv, ReplayInv, CaptureEvent
<1>9. ClearingInv'
  BY ClearingFrame DEF IInv, CaptureEvent
<1>10. CoverInv'
  <2>1. processed' \subseteq 1 .. head'
    BY <1>3 DEF IInv, CoverInv, CaptureEvent
  <2>2. QED
    BY <1>5, <2>1, CoverFrame DEF IInv, CaptureEvent
<1>11. QED
  BY <1>6, <1>7, <1>8, <1>9, <1>10 DEF IInv

LEMMA ForgetStep ==
    ASSUME IInv, TypeOK', NEW w \in Workers, LoseLease(w) \/ Crash(w)
    PROVE  IInv'
<1>1. /\ UNCHANGED <<head, task, range, processed>>
      /\ worker' = [worker EXCEPT ![w] = Idle]
  BY DEF LoseLease, Crash
<1>2. \A v \in Workers : \/ worker'[v] = worker[v]
                         \/ worker'[v].pc = "idle"
  BY <1>1 DEF IInv, TypeOK, Idle
<1>3. PrimaryInv'
  BY <1>1 DEF IInv, PrimaryInv, ExhaustedTaskIsNotRequeued
<1>4. ClaimInv'
  BY <1>1, <1>2, ClaimFrame DEF IInv
<1>5. ReplayInv'
  BY <1>1, ReplayFrame DEF IInv, ReplayInv
<1>6. ClearingInv'
  BY <1>1, <1>2, ClearingFrame DEF IInv
<1>7. CoverInv'
  BY <1>1, CoverFrame DEF IInv, CoverInv
<1>8. QED
  BY <1>3, <1>4, <1>5, <1>6, <1>7 DEF IInv

LEMMA ArchiveRangesStep ==
    ASSUME IInv, TypeOK', NEW S \in SUBSET Ranges, ArchiveRanges(S)
    PROVE  IInv'
<1>1. UNCHANGED <<head, task, worker, processed>>
  BY DEF ArchiveRanges
<1>2. \A r \in Ranges : range'[r].status = range[r].status
  BY DEF ArchiveRanges, IInv, TypeOK, RangeRow
<1>3. PrimaryInv'
  BY <1>1 DEF IInv, PrimaryInv, ExhaustedTaskIsNotRequeued
<1>4. ClaimInv'
  BY <1>1, ClaimFrame DEF IInv
<1>5. ReplayInv'
  BY <1>1, <1>2, ReplayFrame DEF IInv, ReplayInv
<1>6. ClearingInv'
  BY <1>1, <1>2, ClearingFrame DEF IInv
<1>7. CoverInv'
  BY <1>1, <1>2, CoverFrame DEF IInv, CoverInv, Recorded
<1>8. QED
  BY <1>3, <1>4, <1>5, <1>6, <1>7 DEF IInv

LEMMA ClaimedFields ==
    \A row \in TaskRow, w \in Workers :
      /\ Claimed(row, w).status = "processing"
      /\ Claimed(row, w).owner = w
      /\ Claimed(row, w).cursor = row.cursor
      /\ Claimed(row, w).hw = row.hw
      /\ Claimed(row, w).attempts = row.attempts
BY DEF Claimed, TaskRow

(* What a claim leaves in the claimer's memory. *)
LEMMA ClaimBy ==
    ASSUME IInv, TypeOK', NEW w \in Workers, NEW t \in TaskIds, NEW row \in TaskRow,
           worker[w].pc = "idle",
           worker' = [worker EXCEPT ![w] = Snapshot(t, row)],
           task' = [task EXCEPT ![t] = Claimed(row, w)],
           row.cursor <= row.hw,
           t \in Ranges \/ w \notin Exact
    PROVE  ClaimInv'
<1>1. /\ worker'[w] = Snapshot(t, row)
      /\ \A v \in Workers \ {w} : worker'[v] = worker[v]
      /\ task'[t] = Claimed(row, w)
      /\ \A u \in TaskIds \ {t} : task'[u] = task[u]
  BY DEF IInv, TypeOK
<1>2. /\ task'[t].owner = w
      /\ task'[t].cursor = row.cursor
      /\ task'[t].hw = row.hw
      /\ task'[t].attempts = row.attempts
  BY <1>1, ClaimedFields
<1>3. /\ worker'[w].task = t
      /\ worker'[w].cursor = row.cursor
      /\ worker'[w].hw = row.hw
      /\ worker'[w].attempts = row.attempts
  BY <1>1 DEF Snapshot
<1>4. \A v \in Workers \ {w} : Running(v)' /\ Owns(v)' =>
        /\ Running(v) /\ Owns(v)
        /\ task'[worker[v].task] = task[worker[v].task]
  BY <1>1, <1>2, WorkerStateTypes DEF Running, Owns, IInv
<1>5. row.hw <= row.hw
  BY RowsAssumption DEF TaskRow, Cursors
<1>6. SnapshotIsCurrent'
  <2> SUFFICES ASSUME NEW v \in Workers, Running(v)', Owns(v)'
               PROVE  LET s == worker'[v]
                          u == task'[s.task]
                      IN /\ s.cursor = u.cursor
                         /\ s.attempts = u.attempts
                         /\ s.hw <= u.hw
                         /\ s.task \in Ranges => s.hw = u.hw
    BY DEF SnapshotIsCurrent
  <2>1. CASE v = w
    BY <1>2, <1>3, <1>5, <2>1
  <2>2. CASE v # w
    BY <1>1, <1>4, <2>2 DEF IInv, ClaimInv, SnapshotIsCurrent
  <2>3. QED
    BY <2>1, <2>2
<1>7. \A v \in Workers :
        Running(v)' /\ Owns(v)' => worker'[v].cursor <= worker'[v].hw
  <2> SUFFICES ASSUME NEW v \in Workers, Running(v)', Owns(v)'
               PROVE  worker'[v].cursor <= worker'[v].hw
    OBVIOUS
  <2>1. CASE v = w
    BY <1>3, <2>1
  <2>2. CASE v # w
    BY <1>1, <1>4, <2>2 DEF IInv, ClaimInv
  <2>3. QED
    BY <2>1, <2>2
<1>8. \A u \in TaskIds :
        task'[u].status = "processing" /\ task'[u].owner \in Exact =>
          u \in Ranges
  BY <1>1, <1>2 DEF IInv, ClaimInv
<1>9. QED
  BY <1>6, <1>7, <1>8 DEF ClaimInv

LEMMA ClaimNextStep ==
    ASSUME IInv, TypeOK', NEW w \in Workers, NEW t \in TaskIds, ClaimNext(w, t)
    PROVE  IInv'
<1>1. /\ w \notin Exact
      /\ worker[w].pc = "idle"
      /\ task[t].status = "pending"
      /\ task' = [task EXCEPT ![t] = Claimed(task[t], w)]
      /\ worker' = [worker EXCEPT ![w] = Snapshot(t, task[t])]
      /\ UNCHANGED <<head, range, processed>>
  BY DEF ClaimNext
<1>2. task[t] \in TaskRow
  BY DEF IInv, TypeOK
<1>3. /\ task'[t].status = "processing"
      /\ task'[t].cursor = task[t].cursor
      /\ task'[t].hw = task[t].hw
      /\ \A u \in TaskIds \ {t} : task'[u] = task[u]
  BY <1>1, <1>2 DEF Claimed, TaskRow, IInv, TypeOK
<1>4. task[t].cursor <= task[t].hw
  <2>1. CASE t = Main
    BY <2>1 DEF IInv, PrimaryInv
  <2>2. CASE t \in Ranges
    BY <1>1, <2>2 DEF IInv, ReplayInv, ReplayRow
  <2>3. QED
    BY <2>1, <2>2 DEF TaskIds
<1>5. PrimaryInv'
  BY <1>1, <1>3, Ids, PrimaryFrame DEF IInv, Live
<1>6. ClaimInv'
  BY <1>1, <1>2, <1>4, ClaimBy
<1>7. ReplayInv'
  <2> SUFFICES ASSUME NEW r \in Ranges PROVE ReplayRow(r)'
    BY DEF ReplayInv
  <2>1. CASE r = t
    BY <1>1, <1>3, <2>1 DEF IInv, ReplayInv, ReplayRow, Live, Recorded, Covers
  <2>2. CASE r # t
    BY <1>1, <1>3, <2>2, Ids, ReplayFrame DEF IInv, ReplayInv
  <2>3. QED
    BY <2>1, <2>2
<1>8. ClearingInv'
  <2>1. \A v \in Workers : \/ worker'[v] = worker[v]
                           \/ worker'[v].pc = "running"
    BY <1>1 DEF IInv, TypeOK, Snapshot
  <2>2. QED
    BY <1>1, <2>1, ClearingFrame DEF IInv
<1>9. CoverInv'
  BY <1>1, <1>3, Ids, CoverFrame DEF IInv, CoverInv
<1>10. QED
  BY <1>5, <1>6, <1>7, <1>8, <1>9 DEF IInv

(* A holder gives its row back, pending as it was or with one more         *)
(* attempt.                                                                *)
LEMMA GiveBackStep ==
    ASSUME IInv, TypeOK', NEW w \in Workers, Owns(w), RetryLater(w) \/ Wait(w),
           worker' = [worker EXCEPT ![w] = Idle],
           UNCHANGED <<head, range, processed>>
    PROVE  IInv'
<1> DEFINE t == worker[w].task
<1>1. t \in TaskIds /\ task[t] \in TaskRow /\ task[t].status = "processing"
  BY WorkerStateTypes DEF IInv, Owns
<1>2. /\ task'[t].status = "pending"
      /\ task'[t].cursor = task[t].cursor
      /\ task'[t].hw = task[t].hw
      /\ \A u \in TaskIds \ {t} : task'[u] = task[u]
  <2>1. CASE RetryLater(w)
    BY <1>1, <2>1 DEF RetryLater, Retrying, TaskRow, IInv, TypeOK
  <2>2. CASE Wait(w)
    BY <1>1, <2>2 DEF Wait, Released, TaskRow, IInv, TypeOK
  <2>3. QED
    BY <2>1, <2>2
<1>3. \A v \in Workers : worker'[v] = worker[v] \/ worker'[v].pc = "idle"
  BY DEF IInv, TypeOK, Idle
<1>4. PrimaryInv'
  BY <1>1, <1>2, Ids, PrimaryFrame DEF IInv, Live
<1>5. ClaimInv'
  BY <1>2, <1>3, ClaimFrame DEF IInv
<1>6. ReplayInv'
  <2> SUFFICES ASSUME NEW r \in Ranges PROVE ReplayRow(r)'
    BY DEF ReplayInv
  <2>1. CASE r = t
    BY <1>1, <1>2, <2>1 DEF IInv, ReplayInv, ReplayRow, Live, Recorded, Covers
  <2>2. CASE r # t
    BY <1>2, <2>2, Ids, ReplayFrame DEF IInv, ReplayInv
  <2>3. QED
    BY <2>1, <2>2
<1>7. ClearingInv'
  BY <1>3, ClearingFrame DEF IInv
<1>8. CoverInv'
  BY <1>2, Ids, CoverFrame DEF IInv, CoverInv
<1>9. QED
  BY <1>4, <1>5, <1>6, <1>7, <1>8 DEF IInv

LEMMA ClearSourceStep ==
    ASSUME IInv, TypeOK', NEW w \in Workers, ClearSource(w)
    PROVE  IInv'
<1>1. /\ UNCHANGED <<head, range, processed>>
      /\ \A t \in TaskIds \ {Main} : task'[t] = task[t]
      /\ task'[Main] = task[Main] \/ task'[Main] = Cleared(task[Main])
  BY Ids DEF ClearSource, SourceCleared, IInv, TypeOK
<1>2. /\ task'[Main].hw = task[Main].hw
      /\ task'[Main].cursor = task[Main].cursor
      /\ Live(task[Main]) => Live(task'[Main])
      /\ task'[Main] = task[Main] \/ task'[Main].status = "done"
  BY <1>1, MainRow DEF Cleared, Live, TaskRow, IInv
<1>3. \A v \in Workers : worker'[v] = worker[v] \/ worker'[v].pc = "idle"
  BY DEF ClearSource, IInv, TypeOK, Idle
<1>4. PrimaryInv'
  BY <1>1, <1>2, PrimaryFrame DEF IInv
<1>5. ClaimInv'
  BY <1>1, <1>2, <1>3, ClaimFrame DEF IInv
<1>6. ReplayInv'
  BY <1>1, Ids, ReplayFrame DEF IInv, ReplayInv
<1>7. ClearingInv'
  BY <1>1, <1>3, ClearingFrame DEF IInv
<1>8. CoverInv'
  BY <1>1, <1>2, CoverFrame DEF IInv, CoverInv
<1>9. QED
  BY <1>4, <1>5, <1>6, <1>7, <1>8 DEF IInv

LEMMA ClearLinkedStep ==
    ASSUME IInv, TypeOK', NEW w \in Workers, ClearLinked(w)
    PROVE  IInv'
<1> DEFINE t == worker[w].task
<1>1. /\ UNCHANGED <<head, range, processed>>
      /\ t \in Ranges
      /\ range[t].status = "replayed"
      /\ task' = [task EXCEPT ![t] = Cleared(task[t])]
      /\ worker' = [worker EXCEPT ![w] = Settling("closing", t)]
  BY DEF ClearLinked, IInv, ClearingInv
<1>2. /\ \A u \in TaskIds \ {t} : task'[u] = task[u]
      /\ task'[t] = Cleared(task[t])
  BY <1>1, Ids DEF IInv, TypeOK
<1>3. \A v \in Workers : worker'[v] = worker[v] \/ worker'[v].pc = "closing"
  BY <1>1 DEF IInv, TypeOK, Idle, Settling
<1>4. task'[Main] = task[Main]
  BY <1>1, <1>2, Ids
<1>5. PrimaryInv'
  BY <1>1, <1>4 DEF IInv, PrimaryInv, ExhaustedTaskIsNotRequeued
<1>6. task'[t] = task[t] \/ task'[t].status = "done"
  BY <1>1, <1>2, Ids DEF Cleared, IInv, TypeOK, TaskRow
<1>7. ClaimInv'
  BY <1>2, <1>3, <1>6, ClaimFrame DEF IInv
<1>8. ReplayInv'
  <2> SUFFICES ASSUME NEW r \in Ranges PROVE ReplayRow(r)'
    BY DEF ReplayInv
  <2>1. CASE r = t
    <3>1. task[t] \in TaskRow
      BY <1>1, Ids DEF IInv, TypeOK
    <3>2. /\ task'[t].cursor = task[t].cursor
          /\ task'[t].hw = task[t].hw
          /\ task'[t].status = "absent" <=> task[t].status = "absent"
          /\ Live(task'[t]) => Live(task[t])
      BY <1>2, <3>1 DEF Cleared, TaskRow, Live
    <3>3. QED
      BY <1>1, <3>2, <2>1
      DEF IInv, ReplayInv, ReplayRow, Recorded, Covers
  <2>2. CASE r # t
    BY <1>1, <1>2, <2>2, Ids, ReplayFrame DEF IInv, ReplayInv
  <2>3. QED
    BY <2>1, <2>2
<1>9. ClearingInv'
  BY <1>1, <1>3, ClearingFrame DEF IInv
<1>10. CoverInv'
  BY <1>1, <1>4, CoverFrame DEF IInv, CoverInv
<1>11. QED
  BY <1>5, <1>7, <1>8, <1>9, <1>10 DEF IInv

LEMMA RangeBounds ==
    \A r \in Ranges : /\ r.from \in Nat /\ r.to \in Nat
                      /\ 1 <= r.from /\ r.from <= r.to /\ r.to <= MaxEvent
BY RowsAssumption DEF Ranges, Events

LEMMA EnqueuedFields ==
    ASSUME TypeOK, NEW r \in Ranges, ~Live(task[r])
    PROVE  /\ EnqueuedReplay(r) \in TaskRow
           /\ EnqueuedReplay(r).status = "pending"
           /\ EnqueuedReplay(r).cursor = r.from - 1
           /\ EnqueuedReplay(r).hw = r.to
           /\ EnqueuedReplay(r).attempts = 0
<1>1. task[r] \in TaskRow
  BY Ids DEF TypeOK
<1>2. QED
  BY <1>1, EnqueuedReplayType DEF EnqueuedReplay, ReplayTask, Revived, TaskRow

LEMMA RequeuedRow ==
    ASSUME NEW r \in Ranges,
           task'[r].status \in {"pending", "processing"},
           task'[r].cursor = r.from - 1,
           task'[r].hw = r.to,
           range'[r].status \in {"pending", "failed", "requeued"}
    PROVE  ReplayRow(r)'
<1>1. /\ r.from - 1 <= task'[r].cursor
      /\ task'[r].cursor <= r.to
      /\ r.from .. task'[r].cursor = {}
  BY RangeBounds
<1>2. QED
  BY <1>1 DEF ReplayRow, Recorded

LEMMA RequeueStep ==
    ASSUME IInv, TypeOK', NEW r \in Ranges, NEW b \in BOOLEAN,
           AutoRetry(r, b) \/ RetryRange(r, b)
    PROVE  IInv'
<1>1. /\ ~Live(task[r])
      /\ Recorded(range[r])
      /\ range[r].status \in {"pending", "failed", "quarantined"}
      /\ task' = [task EXCEPT ![r] = EnqueuedReplay(r)]
      /\ UNCHANGED <<head, worker, processed>>
  BY DEF AutoRetry, RetryRange, Retryable, Recorded
<1>2. /\ \A t \in TaskIds \ {r} : task'[t] = task[t]
      /\ task'[r] = EnqueuedReplay(r)
  BY <1>1, Ids DEF IInv, TypeOK
<1>3. /\ task'[r].status = "pending"
      /\ task'[r].cursor = r.from - 1
      /\ task'[r].hw = r.to
  BY <1>1, <1>2, EnqueuedFields DEF IInv
<1>4. /\ \A q \in Ranges \ {r} : range'[q] = range[q]
      /\ range'[r].status \in {"pending", "failed", "requeued"}
  <2>1. CASE AutoRetry(r, b)
    BY <2>1 DEF AutoRetry, Retryable, RequeuedRange, IInv, TypeOK, RangeRow
  <2>2. CASE RetryRange(r, b)
    BY <2>2 DEF RetryRange, RequeuedRange, IInv, TypeOK, RangeRow
  <2>3. QED
    BY <2>1, <2>2
<1>5. task'[Main] = task[Main]
  BY <1>2, Ids
<1>6. PrimaryInv'
  BY <1>1, <1>5 DEF IInv, PrimaryInv, ExhaustedTaskIsNotRequeued
<1>7. ClaimInv'
  BY <1>1, <1>2, <1>3, ClaimFrame DEF IInv
<1>8. ReplayInv'
  <2> SUFFICES ASSUME NEW q \in Ranges PROVE ReplayRow(q)'
    BY DEF ReplayInv
  <2>1. CASE q = r
    BY <1>3, <1>4, <2>1, RequeuedRow
  <2>2. CASE q # r
    BY <1>1, <1>2, <1>4, <2>2, Ids, ReplayFrame DEF IInv, ReplayInv
  <2>3. QED
    BY <2>1, <2>2
<1>9. ClearingInv'
  BY <1>1, <1>4, ClearingFrame DEF IInv
<1>10. CoverInv'
  BY <1>1, <1>4, <1>5, CoverFrame DEF IInv, CoverInv, Recorded
<1>11. QED
  BY <1>6, <1>7, <1>8, <1>9, <1>10 DEF IInv

LEMMA ExactClaimStep ==
    ASSUME IInv, TypeOK', NEW w \in Workers, NEW r \in Ranges,
           NEW acknowledge \in BOOLEAN, NEW includeArchived \in BOOLEAN,
           ExactClaim(w, r, acknowledge, includeArchived)
    PROVE  IInv'
<1> DEFINE row == EnqueuedReplay(r)
<1>1. /\ ~Live(task[r])
      /\ range[r].status \in {"pending", "failed", "quarantined"}
      /\ worker[w].pc = "idle"
      /\ task' = [task EXCEPT ![r] = Claimed(row, w)]
      /\ range' = [range EXCEPT ![r] = RequeuedRange(range[r])]
      /\ worker' = [worker EXCEPT ![w] = Snapshot(r, row)]
      /\ UNCHANGED <<head, processed>>
  BY DEF ExactClaim, Retryable
<1>2. /\ row \in TaskRow
      /\ row.cursor = r.from - 1
      /\ row.hw = r.to
      /\ row.cursor <= row.hw
  BY <1>1, EnqueuedFields, RangeBounds DEF IInv
<1>3. /\ \A t \in TaskIds \ {r} : task'[t] = task[t]
      /\ task'[r] = Claimed(row, w)
  BY <1>1, Ids DEF IInv, TypeOK
<1>4. /\ task'[r].status = "processing"
      /\ task'[r].cursor = r.from - 1
      /\ task'[r].hw = r.to
  BY <1>2, <1>3, ClaimedFields
<1>5. /\ \A q \in Ranges \ {r} : range'[q] = range[q]
      /\ range'[r].status = "requeued"
  BY <1>1 DEF RequeuedRange, IInv, TypeOK, RangeRow
<1>6. task'[Main] = task[Main]
  BY <1>3, Ids
<1>7. PrimaryInv'
  BY <1>1, <1>6 DEF IInv, PrimaryInv, ExhaustedTaskIsNotRequeued
<1>8. ClaimInv'
  BY <1>1, <1>2, Ids, ClaimBy
<1>9. ReplayInv'
  <2> SUFFICES ASSUME NEW q \in Ranges PROVE ReplayRow(q)'
    BY DEF ReplayInv
  <2>1. CASE q = r
    BY <1>4, <1>5, <2>1, RequeuedRow
  <2>2. CASE q # r
    BY <1>1, <1>3, <1>5, <2>2, Ids, ReplayFrame DEF IInv, ReplayInv
  <2>3. QED
    BY <2>1, <2>2
<1>10. ClearingInv'
  <2>1. \A v \in Workers : worker'[v] = worker[v] \/ worker'[v].pc = "running"
    BY <1>1 DEF IInv, TypeOK, Snapshot
  <2>2. \A q \in Ranges : range[q].status = "replayed" =>
                            range'[q].status = "replayed"
    BY <1>1, <1>5
  <2>3. QED
    BY <2>1, <2>2, ClearingFrame DEF IInv
<1>11. CoverInv'
  <2>1. \A q \in Ranges : Recorded(range'[q]) <=> Recorded(range[q])
    BY <1>1, <1>5 DEF Recorded
  <2>2. QED
    BY <1>1, <1>6, <2>1, CoverFrame DEF IInv, CoverInv
<1>12. QED
  BY <1>7, <1>8, <1>9, <1>10, <1>11 DEF IInv

LEMMA ClearedFields ==
    \A row \in TaskRow :
      /\ Cleared(row).cursor = row.cursor
      /\ Cleared(row).hw = row.hw
      /\ Live(Cleared(row)) <=> Live(row)
      /\ Cleared(row).status = "absent" <=> row.status = "absent"
BY DEF Cleared, TaskRow, Live

LEMMA QuarantineStep ==
    ASSUME IInv, TypeOK', NEW r \in Ranges, QuarantineRange(r)
    PROVE  IInv'
<1> DEFINE ts == [task EXCEPT ![r] = Cleared(task[r])]
<1>1. /\ ~Live(task[r])
      /\ range[r].status \in {"pending", "failed"}
      /\ range' = [range EXCEPT ![r].status = "quarantined"]
      /\ task' = SourceCleared(ts, range')
      /\ UNCHANGED <<head, worker, processed>>
  BY DEF QuarantineRange, Retryable
<1>2. /\ \A q \in Ranges \ {r} : range'[q] = range[q]
      /\ range'[r].status = "quarantined"
  BY <1>1 DEF IInv, TypeOK, RangeRow
<1>3. /\ \A t \in TaskIds \ {r, Main} : task'[t] = task[t]
      /\ task'[r] = Cleared(task[r])
      /\ task'[Main] = task[Main] \/ task'[Main] = Cleared(task[Main])
  BY <1>1, Ids DEF SourceCleared, IInv, TypeOK
<1>4. /\ task'[Main].hw = task[Main].hw
      /\ task'[Main].cursor = task[Main].cursor
      /\ Live(task[Main]) => Live(task'[Main])
      /\ task'[Main] = task[Main] \/ task'[Main].status = "done"
  BY <1>3, MainRow DEF Cleared, Live, TaskRow, IInv
<1>5. /\ task'[r].cursor = task[r].cursor
      /\ task'[r].hw = task[r].hw
      /\ ~Live(task'[r])
      /\ task'[r].status = "absent" <=> task[r].status = "absent"
  <2>1. task[r] \in TaskRow
    BY Ids DEF IInv, TypeOK
  <2>2. QED
    BY <1>1, <1>3, <2>1, ClearedFields
<1>6. PrimaryInv'
  BY <1>1, <1>4, PrimaryFrame DEF IInv
<1>7. ClaimInv'
  <2>1. \A t \in TaskIds : task'[t] = task[t] \/ task'[t].status # "processing"
    BY <1>3, <1>4, <1>5 DEF Live
  <2>2. QED
    BY <1>1, <2>1, ClaimFrame DEF IInv
<1>8. ReplayInv'
  <2> SUFFICES ASSUME NEW q \in Ranges PROVE ReplayRow(q)'
    BY DEF ReplayInv
  <2>1. CASE q = r
    BY <1>1, <1>2, <1>5, <2>1 DEF IInv, ReplayInv, ReplayRow, Recorded
  <2>2. CASE q # r
    BY <1>1, <1>2, <1>3, <2>2, Ids, ReplayFrame DEF IInv, ReplayInv
  <2>3. QED
    BY <2>1, <2>2
<1>9. ClearingInv'
  BY <1>1, <1>2, ClearingFrame DEF IInv
<1>10. CoverInv'
  BY <1>1, <1>2, <1>4, CoverFrame DEF IInv, CoverInv, Recorded
<1>11. QED
  BY <1>6, <1>7, <1>8, <1>9, <1>10 DEF IInv

LEMMA ArchivedFields ==
    \A row \in TaskRow, class \in FailureClasses :
      /\ ArchivedTask(row, class).status = "failed"
      /\ ArchivedTask(row, class).cursor = row.cursor
      /\ ArchivedTask(row, class).hw = row.hw
BY DEF ArchivedTask, TaskRow

(* A replay row that leaves processing without an answer, its range put    *)
(* away or untouched.                                                      *)
LEMMA AbandonedRow ==
    ASSUME NEW r \in Ranges, ReplayRow(r), task[r].status = "processing",
           task'[r].cursor = task[r].cursor,
           task'[r].hw = task[r].hw,
           \/ /\ task'[r].status = "pending"
              /\ range'[r] = range[r]
           \/ /\ task'[r].status = "failed"
              /\ range'[r].status = "quarantined",
           processed' = processed
    PROVE  ReplayRow(r)'
BY DEF ReplayRow, Recorded, Live

LEMMA ReleaseExpiredStep ==
    ASSUME IInv, TypeOK', NEW S \in SUBSET Processing, ReleaseExpired(S)
    PROVE  IInv'
<1>1. /\ UNCHANGED <<head, worker, processed>>
      /\ \A t \in S : t \in TaskIds /\ task[t].status = "processing"
  BY DEF ReleaseExpired, Processing
<1>2. \A t \in TaskIds :
        /\ task[t] \in TaskRow
        /\ t \notin S => task'[t] = task[t]
        /\ t \in S /\ task[t].owner \in Exact =>
             task'[t] = ArchivedTask(task[t], "transient")
        /\ t \in S /\ task[t].owner \notin Exact => task'[t] = Released(task[t])
  BY DEF ReleaseExpired, IInv, TypeOK
<1>3. \A r \in Ranges :
        /\ range[r] \in RangeRow
        /\ ~(r \in S /\ task[r].owner \in Exact) => range'[r] = range[r]
        /\ r \in S /\ task[r].owner \in Exact =>
             range'[r].status = "quarantined"
  BY DEF ReleaseExpired, ArchivedRange, IInv, TypeOK, RangeRow
<1>4. \A t \in S :
        /\ task'[t].cursor = task[t].cursor
        /\ task'[t].hw = task[t].hw
        /\ task[t].owner \in Exact => task'[t].status = "failed"
        /\ task[t].owner \notin Exact => task'[t].status = "pending"
  <2> SUFFICES ASSUME NEW t \in S
               PROVE  /\ task'[t].cursor = task[t].cursor
                      /\ task'[t].hw = task[t].hw
                      /\ task[t].owner \in Exact => task'[t].status = "failed"
                      /\ task[t].owner \notin Exact => task'[t].status = "pending"
    OBVIOUS
  <2>1. t \in TaskIds /\ task[t] \in TaskRow
    BY <1>1, <1>2
  <2>2. CASE task[t].owner \in Exact
    BY <1>2, <2>1, <2>2, ArchivedFields DEF FailureClasses
  <2>3. CASE task[t].owner \notin Exact
    BY <1>2, <2>1, <2>3 DEF Released, TaskRow
  <2>4. QED
    BY <2>2, <2>3
<1>5. Main \in S => task[Main].owner \notin Exact
  BY <1>1, Ids DEF IInv, ClaimInv
<1>6. PrimaryInv'
  <2>1. CASE Main \in S
    BY <1>1, <1>4, <1>5, <2>1, PrimaryFrame DEF IInv, Live
  <2>2. CASE Main \notin S
    BY <1>1, <1>2, <2>2, Ids, PrimaryFrame DEF IInv
  <2>3. QED
    BY <2>1, <2>2
<1>7. ClaimInv'
  <2>1. \A t \in TaskIds : task'[t] = task[t] \/ task'[t].status # "processing"
    BY <1>2, <1>4
  <2>2. QED
    BY <1>1, <2>1, ClaimFrame DEF IInv
<1>8. ReplayInv'
  <2> SUFFICES ASSUME NEW r \in Ranges PROVE ReplayRow(r)'
    BY DEF ReplayInv
  <2>1. CASE r \in S
    <3>1. ReplayRow(r) /\ task[r].status = "processing"
      BY <1>1, <2>1 DEF IInv, ReplayInv
    <3>2. QED
      BY <1>1, <1>3, <1>4, <2>1, <3>1, AbandonedRow
  <2>2. CASE r \notin S
    BY <1>1, <1>2, <1>3, <2>2, Ids, ReplayFrame DEF IInv, ReplayInv
  <2>3. QED
    BY <2>1, <2>2
<1>9. \A r \in Ranges : /\ range[r].status = "replayed" =>
                             range'[r].status = "replayed"
                        /\ Recorded(range'[r]) <=> Recorded(range[r])
  BY <1>1, <1>3 DEF IInv, ReplayInv, ReplayRow, Live, Recorded
<1>10. ClearingInv'
  BY <1>1, <1>9, ClearingFrame DEF IInv
<1>11. CoverInv'
  <2>1. task'[Main].cursor = task[Main].cursor
    BY <1>2, <1>4, Ids
  <2>2. QED
    BY <1>1, <1>9, <2>1, CoverFrame DEF IInv, CoverInv
<1>12. QED
  BY <1>6, <1>7, <1>8, <1>10, <1>11 DEF IInv

LEMMA ArchiveExactStep ==
    ASSUME IInv, TypeOK', NEW w \in Workers, NEW class \in FailureClasses,
           ArchiveExact(w, class)
    PROVE  IInv'
<1> DEFINE t == worker[w].task
<1>1. /\ task[t].status = "processing"
      /\ task[t].owner = w
      /\ w \in Exact
      /\ task' = [task EXCEPT ![t] = ArchivedTask(task[t], class)]
      /\ range' = [range EXCEPT ![t] = ArchivedRange(range[t], class)]
      /\ worker' = [worker EXCEPT ![w] = Idle]
      /\ UNCHANGED <<head, processed>>
  BY DEF ArchiveExact, Owns
<1>2. t \in Ranges /\ t \in TaskIds /\ task[t] \in TaskRow
  BY <1>1, WorkerStateTypes DEF IInv, ClaimInv
<1>3. /\ \A u \in TaskIds \ {t} : task'[u] = task[u]
      /\ task'[t].status = "failed"
      /\ task'[t].cursor = task[t].cursor
      /\ task'[t].hw = task[t].hw
  <2>1. /\ \A u \in TaskIds \ {t} : task'[u] = task[u]
        /\ task'[t] = ArchivedTask(task[t], class)
    BY <1>1, <1>2 DEF IInv, TypeOK
  <2>2. QED
    BY <1>2, <2>1, ArchivedFields
<1>4. /\ \A r \in Ranges \ {t} : range'[r] = range[r]
      /\ range'[t].status = "quarantined"
  BY <1>1, <1>2 DEF ArchivedRange, IInv, TypeOK, RangeRow
<1>5. task'[Main] = task[Main]
  BY <1>2, <1>3, Ids
<1>6. \A v \in Workers : worker'[v] = worker[v] \/ worker'[v].pc = "idle"
  BY <1>1 DEF IInv, TypeOK, Idle
<1>7. ReplayRow(t) /\ Live(task[t])
  BY <1>1, <1>2 DEF IInv, ReplayInv, Live
<1>8. PrimaryInv'
  BY <1>1, <1>5 DEF IInv, PrimaryInv, ExhaustedTaskIsNotRequeued
<1>9. ClaimInv'
  BY <1>3, <1>6, ClaimFrame DEF IInv
<1>10. ReplayInv'
  <2> SUFFICES ASSUME NEW r \in Ranges PROVE ReplayRow(r)'
    BY DEF ReplayInv
  <2>1. CASE r = t
    BY <1>1, <1>2, <1>3, <1>4, <1>7, <2>1, AbandonedRow
  <2>2. CASE r # t
    BY <1>1, <1>3, <1>4, <2>2, Ids, ReplayFrame DEF IInv, ReplayInv
  <2>3. QED
    BY <2>1, <2>2
<1>11. \A r \in Ranges : /\ range[r].status = "replayed" =>
                              range'[r].status = "replayed"
                         /\ Recorded(range'[r]) <=> Recorded(range[r])
  BY <1>4, <1>7 DEF ReplayRow, Live, Recorded
<1>12. ClearingInv'
  BY <1>6, <1>11, ClearingFrame DEF IInv
<1>13. CoverInv'
  BY <1>1, <1>5, <1>11, CoverFrame DEF IInv, CoverInv
<1>14. QED
  BY <1>8, <1>9, <1>10, <1>12, <1>13 DEF IInv

LEMMA MarkReplayedStep ==
    ASSUME IInv, TypeOK', NEW w \in Workers, MarkReplayed(w)
    PROVE  IInv'
<1> DEFINE t == worker[w].task
           settled == /\ t \in Ranges
                      /\ task[t].status = "done"
                      /\ range[t].status # "quarantined"
<1>1. /\ range' = IF settled
                  THEN [range EXCEPT ![t] = ReplayedRange(range[t])]
                  ELSE range
      /\ worker' = [worker EXCEPT ![w] =
                      IF settled THEN Settling("clearing", t) ELSE Idle]
      /\ UNCHANGED <<head, task, processed>>
  BY DEF MarkReplayed
<1>2. settled => /\ range'[t].status = "replayed"
                 /\ \A r \in Ranges \ {t} : range'[r] = range[r]
  BY <1>1 DEF ReplayedRange, IInv, TypeOK, RangeRow
<1>3. settled => Covers(t) \subseteq processed
  BY DEF IInv, ReplayInv, ReplayRow
<1>4. \A v \in Workers \ {w} : worker'[v] = worker[v]
  BY <1>1 DEF IInv, TypeOK
<1>5. /\ worker'[w].pc # "running"
      /\ worker'[w].pc = "clearing" => settled /\ worker'[w].task = t
  BY <1>1 DEF IInv, TypeOK, Settling, Idle
<1>6. PrimaryInv'
  BY <1>1 DEF IInv, PrimaryInv, ExhaustedTaskIsNotRequeued
<1>7. ClaimInv'
  BY <1>1, <1>4, <1>5, ClaimFrame DEF IInv
<1>8. ReplayInv'
  <2> SUFFICES ASSUME NEW r \in Ranges PROVE ReplayRow(r)'
    BY DEF ReplayInv
  <2>1. CASE settled /\ r = t
    BY <1>1, <1>2, <1>3, <2>1
    DEF IInv, ReplayInv, ReplayRow, Live, Recorded, Covers
  <2>2. CASE ~settled \/ r # t
    <3>1. range'[r] = range[r]
      BY <1>1, <1>2, <2>2
    <3>2. QED
      BY <1>1, <3>1, ReplayFrame DEF IInv, ReplayInv
  <2>3. QED
    BY <2>1, <2>2
<1>9. ClearingInv'
  <2> SUFFICES ASSUME NEW v \in Workers, worker'[v].pc = "clearing"
               PROVE  /\ worker'[v].task \in Ranges
                      /\ range'[worker'[v].task].status = "replayed"
    BY DEF ClearingInv
  <2>1. CASE v = w
    BY <1>2, <1>5, <2>1
  <2>2. CASE v # w
    BY <1>1, <1>2, <1>4, <2>2 DEF IInv, ClearingInv
  <2>3. QED
    BY <2>1, <2>2
<1>10. CoverInv'
  <2>1. \A r \in Ranges : Recorded(range'[r]) <=> Recorded(range[r])
    <3>1. settled => Recorded(range[t])
      BY DEF IInv, ReplayInv, ReplayRow
    <3>2. QED
      BY <1>1, <1>2, <3>1 DEF Recorded
  <2>2. QED
    BY <1>1, <2>1, CoverFrame DEF IInv, CoverInv
<1>11. QED
  BY <1>6, <1>7, <1>8, <1>9, <1>10 DEF IInv

(* What a process that still owns its task knows about it. *)
LEMMA HolderFacts ==
    ASSUME IInv, NEW w \in Workers, Running(w), Owns(w)
    PROVE  LET s == worker[w]
               t == task[s.task]
           IN /\ s.task \in TaskIds
              /\ t \in TaskRow
              /\ Live(t)
              /\ s.cursor = t.cursor
              /\ s.attempts = t.attempts
              /\ s.cursor <= s.hw
              /\ s.hw <= t.hw
              /\ s.task \in Ranges => /\ s.hw = s.task.to
                                      /\ t.hw = s.task.to
                                      /\ s.task.from - 1 <= s.cursor
                                      /\ Recorded(range[s.task])
              /\ s.cursor \in Nat /\ s.hw \in Nat /\ t.hw \in Nat
              /\ s.hw <= head
<1> DEFINE s == worker[w]
           t == task[s.task]
<1>1. /\ s.task \in TaskIds /\ t \in TaskRow
      /\ s.cursor \in Nat /\ s.hw \in Nat /\ t.hw \in Nat
  BY WorkerStateTypes, RowsAssumption DEF IInv, Cursors, TaskRow
<1>2. Live(t) /\ t.status # "absent"
  BY DEF Owns, Live
<1>3. /\ s.cursor = t.cursor
      /\ s.attempts = t.attempts
      /\ s.cursor <= s.hw
      /\ s.hw <= t.hw
      /\ s.task \in Ranges => s.hw = t.hw
  BY DEF IInv, ClaimInv, SnapshotIsCurrent
<1>4. s.task \in Ranges => /\ t.hw = s.task.to
                           /\ s.task.from - 1 <= s.cursor
                           /\ Recorded(range[s.task])
  BY <1>2, <1>3 DEF IInv, ReplayInv, ReplayRow
<1>5. s.hw <= head
  <2>1. CASE s.task = Main
    BY <1>3, <2>1 DEF IInv, PrimaryInv
  <2>2. CASE s.task \in Ranges
    <3>1. s.task.to <= task[Main].cursor /\ task[Main].cursor <= head
      BY <1>4, <2>2 DEF IInv, CoverInv, RangesAreDisjoint, PrimaryInv
    <3>2. QED
      BY <1>1, <1>3, <1>4, <2>2, <3>1, MainRow, RangeBounds DEF IInv
  <2>3. QED
    BY <1>1, <2>1, <2>2 DEF TaskIds
<1>6. QED
  BY <1>1, <1>2, <1>3, <1>4, <1>5

LEMMA CompletedFields ==
    ASSUME NEW row \in TaskRow, NEW upto \in Cursors
    PROVE  /\ Completed(row, upto).cursor = upto
           /\ Completed(row, upto).hw = row.hw
           /\ row.hw > upto => Completed(row, upto).status = "pending"
           /\ ~(row.hw > upto) => Completed(row, upto).status = "done"
BY DEF Completed, TaskRow

LEMMA MarkDoneStep ==
    ASSUME IInv, TypeOK', NEW w \in Workers, NEW upto \in Cursors,
           MarkDone(w, upto)
    PROVE  IInv'
<1> DEFINE s == worker[w]
           t == s.task
<1>1. /\ Running(w) /\ Owns(w)
      /\ task' = [task EXCEPT ![t] = Completed(task[t], upto)]
      /\ processed' = processed \union (s.cursor + 1 .. upto)
      /\ worker' = [worker EXCEPT ![w] = Settling("marking", t)]
      /\ UNCHANGED <<head, range>>
  BY DEF MarkDone
<1>2. /\ t \in TaskIds
      /\ task[t] \in TaskRow
      /\ Live(task[t])
      /\ s.cursor = task[t].cursor
      /\ s.cursor <= s.hw
      /\ s.hw <= task[t].hw
      /\ t \in Ranges => /\ s.hw = t.to
                         /\ task[t].hw = t.to
                         /\ t.from - 1 <= s.cursor
                         /\ Recorded(range[t])
      /\ s.cursor \in Nat /\ s.hw \in Nat /\ task[t].hw \in Nat
      /\ s.hw <= head
  BY <1>1, HolderFacts
<1>3. upto \in Nat /\ s.cursor <= upto /\ upto <= s.hw
  <2>1. upto = s.hw \/ upto \in s.cursor + 1 .. s.hw
    BY DEF MarkDone
  <2>2. QED
    BY <1>2, <2>1
<1>4. /\ \A u \in TaskIds \ {t} : task'[u] = task[u]
      /\ task'[t].cursor = upto
      /\ task'[t].hw = task[t].hw
      /\ task[t].hw > upto => task'[t].status = "pending"
      /\ ~(task[t].hw > upto) => task'[t].status = "done"
  <2>1. /\ \A u \in TaskIds \ {t} : task'[u] = task[u]
        /\ task'[t] = Completed(task[t], upto)
    BY <1>1, <1>2 DEF IInv, TypeOK
  <2>2. QED
    BY <1>2, <2>1, CompletedFields
<1>5. \A v \in Workers : worker'[v] = worker[v] \/ worker'[v].pc = "marking"
  BY <1>1 DEF IInv, TypeOK, Settling, Idle
<1>6. processed' \subseteq 1 .. head'
  <2>1. s.cursor + 1 .. upto \subseteq 1 .. head
    BY <1>2, <1>3, MainRow DEF IInv
  <2>2. processed \subseteq 1 .. head
    BY DEF IInv, CoverInv
  <2>3. QED
    BY <1>1, <2>1, <2>2
<1>7. ClaimInv'
  BY <1>4, <1>5, ClaimFrame DEF IInv
<1>8. ClearingInv'
  BY <1>1, <1>5, ClearingFrame DEF IInv
<1>9. CASE t = Main
  <2>1. PrimaryInv'
    <3>1. task[Main].hw = head
      BY DEF IInv, PrimaryInv
    <3>2. QED
      BY <1>1, <1>2, <1>3, <1>4, <1>9, <3>1, MainRow
      DEF PrimaryInv, ExhaustedTaskIsNotRequeued, Live, IInv
  <2>2. ReplayInv'
    BY <1>1, <1>4, <1>9, Ids, ReplayFrame DEF IInv, ReplayInv
  <2>3. CoverInv'
    <3>1. RangesAreDisjoint'
      <4>1. \A r \in Ranges : Recorded(range[r]) => r.to <= upto
        <5> SUFFICES ASSUME NEW r \in Ranges, Recorded(range[r])
                     PROVE  r.to <= upto
          OBVIOUS
        <5>1. r.to <= task[Main].cursor
          BY DEF IInv, CoverInv, RangesAreDisjoint
        <5>2. QED
          BY <1>2, <1>3, <1>9, <5>1, RangeBounds
      <4>2. QED
        BY <1>1, <1>4, <1>9, <4>1 DEF IInv, CoverInv, RangesAreDisjoint
    <3>2. \A e \in 1 .. task'[Main].cursor :
            \/ e \in processed'
            \/ \E r \in Ranges : Recorded(range'[r]) /\ e \in Covers(r)
      <4> SUFFICES ASSUME NEW e \in 1 .. upto
                   PROVE  \/ e \in processed'
                          \/ \E r \in Ranges : Recorded(range[r]) /\ e \in Covers(r)
        BY <1>1, <1>4, <1>9
      <4>1. CASE e <= s.cursor
        <5>1. e \in 1 .. task[Main].cursor
          BY <1>2, <1>3, <1>9, <4>1
        <5>2. QED
          BY <1>1, <5>1 DEF IInv, CoverInv
      <4>2. CASE ~(e <= s.cursor)
        BY <1>1, <1>2, <1>3, <4>2
      <4>3. QED
        BY <4>1, <4>2
    <3>3. QED
      BY <1>6, <3>1, <3>2 DEF CoverInv
  <2>4. QED
    BY <1>7, <1>8, <2>1, <2>2, <2>3 DEF IInv
<1>10. CASE t \in Ranges
  <2>1. task'[Main] = task[Main]
    BY <1>4, <1>10, Ids
  <2>2. PrimaryInv'
    BY <1>1, <2>1 DEF IInv, PrimaryInv, ExhaustedTaskIsNotRequeued
  <2>3. ReplayInv'
    <3> SUFFICES ASSUME NEW r \in Ranges PROVE ReplayRow(r)'
      BY DEF ReplayInv
    <3>1. CASE r = t
      <4>1. ReplayRow(t)
        BY <1>10 DEF IInv, ReplayInv
      <4>2. t.from .. upto \subseteq processed'
        <5>1. t.from .. s.cursor \subseteq processed
          BY <1>2, <4>1 DEF ReplayRow
        <5>2. t.from .. upto \subseteq (t.from .. s.cursor) \union (s.cursor + 1 .. upto)
          BY <1>2, <1>3, <1>10, RangeBounds
        <5>3. QED
          BY <1>1, <5>1, <5>2
      <4>3. task'[t].status = "done" => upto = t.to
        BY <1>2, <1>3, <1>4, <1>10
      <4>4. range[t].status \notin {"replayed", "quarantined"}
        BY <1>2, <4>1 DEF ReplayRow
      <4>5. /\ t.from - 1 <= upto
            /\ upto <= t.to
        BY <1>2, <1>3, <1>10, RangeBounds
      <4>6. QED
        BY <1>1, <1>2, <1>4, <1>10, <3>1, <4>2, <4>3, <4>4, <4>5
        DEF ReplayRow, Covers, Recorded
    <3>2. CASE r # t
      BY <1>1, <1>4, <3>2, Ids, ReplayFrame DEF IInv, ReplayInv
    <3>3. QED
      BY <3>1, <3>2
  <2>4. CoverInv'
    BY <1>1, <1>6, <2>1, CoverFrame DEF IInv
  <2>5. QED
    BY <1>7, <1>8, <2>2, <2>3, <2>4 DEF IInv
<1>11. QED
  BY <1>2, <1>9, <1>10 DEF TaskIds

LEMMA ExhaustedFields ==
    ASSUME NEW row \in TaskRow, NEW skipped \in Cursors, NEW n \in Nat,
           NEW class \in FailureClasses
    PROVE  LET new == ExhaustedTask(row, skipped, n, class)
           IN /\ new.cursor = skipped
              /\ new.hw = row.hw
              /\ row.hw > skipped => new.status = "pending"
              /\ ~(row.hw > skipped) => /\ new.status = "failed"
                                        /\ new.class = class
                                        /\ new.attempts = n
BY DEF ExhaustedTask, TaskRow

LEMMA RecordedStatus ==
    ASSUME NEW row \in RangeRow, NEW class \in FailureClasses
    PROVE  /\ RecordedRange(row, class).status \in {"pending", "quarantined"}
           /\ row.status = "quarantined" =>
                RecordedRange(row, class).status = "quarantined"
BY DEF RecordedRange, RangeRow

LEMMA ExhaustStep ==
    ASSUME IInv, TypeOK', NEW w \in Workers, NEW class \in FailureClasses,
           Running(w), Owns(w), Exhaust(w, class),
           class = "permanent" \/ worker[w].attempts + 1 >= MaxAttempts,
           worker' = [worker EXCEPT ![w] = Idle],
           UNCHANGED <<head, processed>>
    PROVE  IInv'
<1> DEFINE s == worker[w]
           t == s.task
           n == s.attempts + 1
<1>1. /\ t \in TaskIds
      /\ task[t] \in TaskRow
      /\ Live(task[t])
      /\ s.cursor = task[t].cursor
      /\ s.cursor <= s.hw
      /\ s.hw <= task[t].hw
      /\ t \in Ranges => /\ s.hw = t.to
                         /\ task[t].hw = t.to
                         /\ Recorded(range[t])
      /\ s.cursor \in Nat /\ s.hw \in Nat /\ task[t].hw \in Nat
      /\ s.hw <= head
  BY HolderFacts
<1>2. s.hw \in Cursors /\ s.cursor \in Cursors /\ n \in Nat
  BY WorkerStateTypes DEF IInv
<1>3. /\ \A u \in TaskIds \ {t} : task'[u] = task[u]
      /\ task'[t].cursor = s.hw
      /\ task'[t].hw = task[t].hw
      /\ task[t].hw > s.hw => task'[t].status = "pending"
      /\ ~(task[t].hw > s.hw) => /\ task'[t].status = "failed"
                                 /\ task'[t].class = class
                                 /\ task'[t].attempts = n
  <2>1. /\ \A u \in TaskIds \ {t} : task'[u] = task[u]
        /\ task'[t] = ExhaustedTask(task[t], s.hw, n, class)
    BY <1>1 DEF Exhaust, IInv, TypeOK
  <2>2. QED
    BY <1>1, <1>2, <2>1, ExhaustedFields
<1>4. \A v \in Workers : worker'[v] = worker[v] \/ worker'[v].pc = "idle"
  BY DEF IInv, TypeOK, Idle
<1>5. ClaimInv'
  <2>1. \A u \in TaskIds : task'[u] = task[u] \/ task'[u].status # "processing"
    BY <1>3
  <2>2. QED
    BY <1>4, <2>1, ClaimFrame DEF IInv
<1>6. CASE t = Main
  <2> DEFINE r == SkippedRange(s)
  <2>1. /\ r.from = s.cursor + 1
        /\ r.to = s.hw
        /\ s.hw > s.cursor =>
             /\ r \in Ranges
             /\ range' = [range EXCEPT ![r] = RecordedRange(range[r], class)]
        /\ ~(s.hw > s.cursor) => range' = range
    <3>1. s.hw > s.cursor => r \in Ranges
      BY <1>1, <1>2, RowsAssumption DEF SkippedRange, Ranges, Events, Cursors
    <3>2. QED
      BY <1>6, <3>1, QueueAssumption DEF Exhaust, SkippedRange
  <2>2. s.hw > s.cursor =>
          /\ range'[r].status \in {"pending", "quarantined"}
          /\ \A q \in Ranges \ {r} : range'[q] = range[q]
          /\ ~Recorded(range[r])
    <3> SUFFICES ASSUME s.hw > s.cursor
                 PROVE  /\ range'[r].status \in {"pending", "quarantined"}
                        /\ \A q \in Ranges \ {r} : range'[q] = range[q]
                        /\ ~Recorded(range[r])
      OBVIOUS
    <3>1. ~Recorded(range[r])
      <4>1. Recorded(range[r]) => r.to <= task[Main].cursor
        BY <2>1 DEF IInv, CoverInv, RangesAreDisjoint
      <4>2. QED
        BY <1>1, <1>6, <2>1, <4>1
    <3>2. range[r] \in RangeRow
      BY <2>1 DEF IInv, TypeOK
    <3>3. range'[r] = RecordedRange(range[r], class)
      BY <2>1 DEF IInv, TypeOK
    <3>4. range'[r].status \in {"pending", "quarantined"}
      BY <3>2, <3>3, RecordedStatus
    <3>5. \A q \in Ranges \ {r} : range'[q] = range[q]
      BY <2>1 DEF IInv, TypeOK
    <3>6. QED
      BY <3>1, <3>4, <3>5
  <2>3. PrimaryInv'
    <3>1. task[Main].hw = head
      BY DEF IInv, PrimaryInv
    <3>2. ~Live(task'[Main]) => task'[Main].cursor = head
      BY <1>1, <1>3, <1>6, <3>1 DEF Live
    <3>3. task'[Main].status = "failed" =>
            task'[Main].class = "permanent" \/ task'[Main].attempts >= AutoRetries
      <4>1. n >= MaxAttempts => n >= AutoRetries
        BY <1>2, RowsAssumption, QueueAssumption
      <4>2. QED
        BY <1>3, <1>6, <4>1
    <3>4. QED
      BY <1>1, <1>3, <1>6, <3>1, <3>2, <3>3
      DEF PrimaryInv, ExhaustedTaskIsNotRequeued
  <2>4. ReplayInv'
    <3> SUFFICES ASSUME NEW q \in Ranges PROVE ReplayRow(q)'
      BY DEF ReplayInv
    <3>1. task'[q] = task[q] /\ ReplayRow(q)
      BY <1>3, <1>6, Ids DEF IInv, ReplayInv
    <3>2. CASE s.hw > s.cursor /\ q = r
      <4>1. task[q].status = "absent"
        BY <2>2, <3>1, <3>2 DEF ReplayRow
      <4>2. QED
        BY <2>2, <3>1, <3>2, <4>1 DEF ReplayRow, Live
    <3>3. CASE ~(s.hw > s.cursor /\ q = r)
      <4>1. range'[q] = range[q]
        BY <2>1, <2>2, <3>3
      <4>2. QED
        BY <3>1, <4>1, ReplayFrame
    <3>4. QED
      BY <3>2, <3>3
  <2>5. ClearingInv'
    <3>1. \A q \in Ranges : range[q].status = "replayed" =>
                              range'[q].status = "replayed"
      BY <2>1, <2>2 DEF Recorded
    <3>2. QED
      BY <1>4, <3>1, ClearingFrame DEF IInv
  <2>6. CoverInv'
    <3>1. CASE s.hw > s.cursor
      <4>1. \A q \in Ranges : Recorded(range'[q]) <=> Recorded(range[q]) \/ q = r
        BY <2>1, <2>2, <3>1 DEF Recorded
      <4>2. \A q \in Ranges : Recorded(range[q]) =>
               q.to <= s.cursor /\ q.to \in Nat /\ q.from \in Nat
        BY <1>1, <1>6, RangeBounds DEF IInv, CoverInv, RangesAreDisjoint
      <4>3. RangesAreDisjoint'
        <5> SUFFICES ASSUME NEW q \in Ranges, Recorded(range'[q])
                     PROVE  /\ q.to <= task'[Main].cursor
                            /\ \A p \in Ranges \ {q} :
                                 Recorded(range'[p]) =>
                                   Covers(p) \intersect Covers(q) = {}
          BY DEF RangesAreDisjoint
        <5>1. q.to <= task'[Main].cursor
          BY <1>1, <1>3, <1>6, <2>1, <3>1, <4>1, <4>2
        <5>2. ASSUME NEW p \in Ranges \ {q}, Recorded(range'[p])
              PROVE  Covers(p) \intersect Covers(q) = {}
          <6>1. CASE p # r /\ q # r
            BY <4>1, <5>2, <6>1 DEF IInv, CoverInv, RangesAreDisjoint
          <6>2. CASE p = r
            BY <1>1, <2>1, <4>1, <4>2, <5>2, <6>2 DEF Covers
          <6>3. CASE q = r
            BY <1>1, <2>1, <4>1, <4>2, <5>2, <6>3 DEF Covers
          <6>4. QED
            BY <6>1, <6>2, <6>3
        <5>3. QED
          BY <5>1, <5>2
      <4>4. \A e \in 1 .. task'[Main].cursor :
              \/ e \in processed'
              \/ \E q \in Ranges : Recorded(range'[q]) /\ e \in Covers(q)
        <5> SUFFICES ASSUME NEW e \in 1 .. s.hw
                     PROVE  \/ e \in processed'
                            \/ \E q \in Ranges : /\ Recorded(range'[q])
                                                 /\ e \in Covers(q)
          BY <1>3, <1>6
        <5>1. CASE e <= s.cursor
          <6>1. e \in 1 .. task[Main].cursor
            BY <1>1, <1>6, <5>1
          <6>2. QED
            BY <4>1, <6>1 DEF IInv, CoverInv
        <5>2. CASE ~(e <= s.cursor)
          <6>1. e \in Covers(r)
            BY <1>1, <2>1, <5>2 DEF Covers
          <6>2. QED
            BY <2>1, <3>1, <4>1, <6>1
        <5>3. QED
          BY <5>1, <5>2
      <4>5. QED
        BY <4>3, <4>4 DEF IInv, CoverInv
    <3>2. CASE ~(s.hw > s.cursor)
      <4>1. task'[Main].cursor = task[Main].cursor
        BY <1>1, <1>3, <1>6, <3>2
      <4>2. QED
        BY <2>1, <3>2, <4>1, CoverFrame DEF IInv, CoverInv
    <3>3. QED
      BY <3>1, <3>2
  <2>7. QED
    BY <1>5, <2>3, <2>4, <2>5, <2>6 DEF IInv
<1>7. CASE t \in Ranges
  <2>1. task'[Main] = task[Main]
    BY <1>3, <1>7, Ids
  <2>2. /\ \A q \in Ranges \ {t} : range'[q] = range[q]
        /\ range'[t].status = "failed"
    <3>1. range' = [range EXCEPT ![t] = FailedRange(range[t], n, class)]
      BY <1>7, QueueAssumption DEF Exhaust
    <3>2. QED
      BY <1>7, <3>1 DEF FailedRange, IInv, TypeOK, RangeRow
  <2>3. ReplayRow(t)
    BY <1>7 DEF IInv, ReplayInv
  <2>4. PrimaryInv'
    BY <2>1 DEF IInv, PrimaryInv, ExhaustedTaskIsNotRequeued
  <2>5. ReplayInv'
    <3> SUFFICES ASSUME NEW q \in Ranges PROVE ReplayRow(q)'
      BY DEF ReplayInv
    <3>1. CASE q = t
      <4>1. /\ task'[t].status = "failed"
            /\ task'[t].cursor = t.to
            /\ task'[t].hw = t.to
            /\ t.from - 1 <= t.to /\ t.to <= t.to
        BY <1>1, <1>3, <1>7, RangeBounds
      <4>2. QED
        BY <2>2, <3>1, <4>1 DEF ReplayRow, Live, Recorded
    <3>2. CASE q # t
      BY <1>3, <2>2, <3>2, Ids, ReplayFrame DEF IInv, ReplayInv
    <3>3. QED
      BY <3>1, <3>2
  <2>6. \A q \in Ranges : /\ range[q].status = "replayed" =>
                               range'[q].status = "replayed"
                          /\ Recorded(range'[q]) <=> Recorded(range[q])
    BY <1>1, <1>7, <2>2, <2>3 DEF ReplayRow, Recorded
  <2>7. ClearingInv'
    BY <1>4, <2>6, ClearingFrame DEF IInv
  <2>8. CoverInv'
    BY <2>1, <2>6, CoverFrame DEF IInv, CoverInv
  <2>9. QED
    BY <1>5, <2>4, <2>5, <2>7, <2>8 DEF IInv
<1>8. QED
  BY <1>1, <1>6, <1>7 DEF TaskIds

-----------------------------------------------------------------------------
(* The invariant holds throughout. *)

LEMMA StutterStep == ASSUME IInv, UNCHANGED vars
                     PROVE  IInv'
BY DEF vars, IInv, TypeOK, PrimaryInv, ExhaustedTaskIsNotRequeued, ClaimInv,
       SnapshotIsCurrent, Running, Owns, ReplayInv, ReplayRow, Covers, Recorded,
       Live, ClearingInv, CoverInv, RangesAreDisjoint

LEMMA InvariantInit == Init => IInv
<1> SUFFICES ASSUME Init PROVE IInv
  OBVIOUS
<1>1. TypeOK
  BY InitTypes
<1>2. /\ head = 0 /\ processed = {}
      /\ \A t \in TaskIds : task[t] = NoTask
      /\ \A r \in Ranges : range[r] = NoRange
      /\ \A w \in Workers : worker[w] = Idle
  BY DEF Init
<1>3. PrimaryInv
  BY <1>2, Ids DEF PrimaryInv, ExhaustedTaskIsNotRequeued, NoTask
<1>4. ClaimInv
  BY <1>2 DEF ClaimInv, SnapshotIsCurrent, Running, Idle, NoTask
<1>5. ReplayInv
  BY <1>2, Ids DEF ReplayInv, ReplayRow, NoTask, NoRange, Live
<1>6. ClearingInv
  BY <1>2 DEF ClearingInv, Idle
<1>7. CoverInv
  BY <1>2, Ids DEF CoverInv, RangesAreDisjoint, NoTask, NoRange, Recorded
<1>8. QED
  BY <1>1, <1>3, <1>4, <1>5, <1>6, <1>7 DEF IInv

LEMMA InvariantStep == IInv /\ [Next]_vars => IInv'
<1> SUFFICES ASSUME IInv, [Next]_vars PROVE IInv'
  OBVIOUS
<1>1. TypeOK'
  BY TypeStep DEF IInv
<1>2. ASSUME NEW w \in Workers, Defer(w) PROVE IInv'
  <2>1. CASE RetryLater(w)
    BY <1>1, <1>2, <2>1, GiveBackStep DEF Defer, RetryLater
  <2>2. ASSUME NEW class \in FailureClasses, Exhaust(w, class),
               worker[w].attempts + 1 >= MaxAttempts
        PROVE  IInv'
    BY <1>1, <1>2, <2>2, ExhaustStep DEF Defer
  <2>3. QED
    BY <1>2, <2>1, <2>2 DEF Defer
<1>3. ASSUME NEW w \in Workers, NEW class \in FailureClasses, Fail(w, class)
      PROVE  IInv'
  <2>1. CASE RetryLater(w)
    BY <1>1, <1>3, <2>1, GiveBackStep DEF Fail, RetryLater
  <2>2. CASE Exhaust(w, class) /\ (class = "permanent"
                                   \/ worker[w].attempts + 1 >= MaxAttempts)
    BY <1>1, <1>3, <2>2, ExhaustStep DEF Fail
  <2>3. QED
    BY <1>3, <2>1, <2>2 DEF Fail
<1>4. ASSUME NEW w \in Workers, Wait(w) PROVE IInv'
  BY <1>1, <1>4, GiveBackStep DEF Wait
<1>5. ASSUME NEW w \in Workers, Settle(w) PROVE IInv'
  BY <1>1, <1>2, <1>3, <1>4, <1>5, MarkDoneStep, MarkReplayedStep,
     ClearLinkedStep, ClearSourceStep, ForgetStep, ArchiveExactStep
  DEF Settle
<1>6. ASSUME NEW w \in Workers, Claim(w) PROVE IInv'
  BY <1>1, <1>6, ClaimNextStep, ExactClaimStep DEF Claim
<1>7. ASSUME Maintain PROVE IInv'
  BY <1>1, <1>7, ReleaseExpiredStep, RequeueStep, ArchiveRangesStep
  DEF Maintain
<1>8. ASSUME Operate PROVE IInv'
  BY <1>1, <1>8, RequeueStep, QuarantineStep DEF Operate
<1>9. QED
  BY <1>1, <1>5, <1>6, <1>7, <1>8, CaptureStep, ForgetStep, StutterStep
  DEF Next

(* The inductive invariant holds in every reachable state. *)
THEOREM InvariantHolds == Spec => []IInv
BY InvariantInit, InvariantStep, PTL DEF Spec

=============================================================================
