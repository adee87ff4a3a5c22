----------------------- MODULE FollowupPipelineProofs -----------------------
(***************************************************************************)
(* Proofs about FollowupPipeline, for any number of processes, events,     *)
(* retries and mishaps: its tables stay well formed, what a stage handed   *)
(* on is taken by the next one, and a graph task waits for living tasks.   *)
(*                                                                         *)
(* Three layers, each inductive on top of the one below: TypeInv (types,   *)
(* and every row and claim refers to captured events), Shape (where rows   *)
(* and claims of a range start and end, and what a claim read), Cover      *)
(* (what a cursor has passed is taken by the stages that follow it).       *)
(***************************************************************************)
EXTENDS FollowupPipeline, FiniteSetTheorems, TLAPS

-----------------------------------------------------------------------------
(* The vocabulary *)

(* The largest of finitely many numbers is the value of Max. *)
LEMMA MaxFacts ==
    ASSUME NEW S, S \subseteq Events, S # {}
    PROVE  Max(S) \in S /\ \A x \in S : x <= Max(S)
<1> DEFINE B == {n \in Nat : \A x \in S : x <= n}
           T == {1 .. n : n \in B}
<1>0. \A x \in S : x \in Nat /\ 1 <= x /\ x <= MaxEvent
  BY RowsAssumption DEF Events
<1>1. B \subseteq Nat /\ MaxEvent \in B
  BY <1>0, RowsAssumption
<1>2. \A n \in Nat : 1 .. n \in FiniteSubsetsOf(Nat)
  BY FS_Interval DEF FiniteSubsetsOf
<1>3. T \subseteq FiniteSubsetsOf(Nat) /\ T # {}
  BY <1>1, <1>2
<1> HIDE DEF T
<1>4. PICK U \in T : \A V \in T : ~(<<V, U>> \in StrictSubsetOrdering(Nat))
  BY <1>3, FS_StrictSubsetOrderingWellFounded, WFMin
<1> USE DEF T
<1>5. PICK m \in B : U = 1 .. m
  OBVIOUS
<1>6. m \in S
  <2> SUFFICES ASSUME m \notin S PROVE FALSE
    OBVIOUS
  <2>1. PICK x \in S : TRUE
    OBVIOUS
  <2>2. m - 1 \in Nat /\ m \in 1 .. m /\ m \notin 1 .. m - 1
    BY <1>0, <2>1
  <2>3. m - 1 \in B
    BY <1>0, <2>2
  <2>4. 1 .. m - 1 \in T
    BY <2>3
  <2>5. <<1 .. m - 1, 1 .. m>> \in StrictSubsetOrdering(Nat)
    BY <2>2 DEF StrictSubsetOrdering
  <2> QED
    BY <1>4, <1>5, <2>4, <2>5
<1>7. Max(S) \in S /\ \A x \in S : Max(S) >= x
  BY <1>6 DEF Max
<1> QED
  BY <1>0, <1>7

(* The names of tasks and ranges. *)
LEMMA IdFacts ==
    /\ \A k \in Kinds : /\ Primary(k) \in TaskIds
                        /\ Primary(k).kind = k /\ Primary(k).of = Main
    /\ \A r \in Ranges : /\ r.kind \in Kinds
                         /\ r.from \in Events /\ r.to \in Events
                         /\ r.from <= r.to
                         /\ r # Main
                         /\ Replay(r) \in TaskIds
                         /\ Replay(r).kind = r.kind /\ Replay(r).of = r
    /\ \A t \in TaskIds : /\ t.kind \in Kinds
                          /\ t.of # Main => /\ t.of \in Ranges
                                            /\ t.of.kind <= t.kind
                          /\ t.of = Main => t = Primary(t.kind)
    /\ \A t \in TaskIds : t.kind # Graphing =>
         /\ NextStage(t) \in TaskIds
         /\ NextStage(t).kind = t.kind + 1
         /\ NextStage(t).of = t.of
    /\ \A t \in TaskIds, r \in Ranges :
         t.of = r /\ t.kind = r.kind => t = Replay(r)
<1>1. \A k \in Kinds : /\ Primary(k) \in TaskIds
                       /\ Primary(k).kind = k /\ Primary(k).of = Main
  BY DEF Primary, TaskIds
<1>2. \A r \in Ranges : /\ r.kind \in Kinds
                        /\ r.from \in Events /\ r.to \in Events
                        /\ r.from <= r.to
                        /\ r # Main
                        /\ Replay(r) \in TaskIds
                        /\ Replay(r).kind = r.kind /\ Replay(r).of = r
  <2> SUFFICES ASSUME NEW r \in Ranges
               PROVE  /\ r.kind \in Kinds
                      /\ r.from \in Events /\ r.to \in Events
                      /\ r.from <= r.to
                      /\ r # Main
                      /\ Replay(r) \in TaskIds
                      /\ Replay(r).kind = r.kind /\ Replay(r).of = r
    OBVIOUS
  <2>1. /\ r.kind \in Kinds /\ r.from \in Events /\ r.to \in Events
        /\ r.from <= r.to
    BY DEF Ranges
  <2>2. r # Main
    BY PipelineAssumption
  <2>3. r.kind <= r.kind
    BY <2>1 DEF Kinds, Observing, Remembering, Graphing
  <2> QED
    BY <2>1, <2>2, <2>3 DEF Replay, TaskIds
<1>3. \A t \in TaskIds : /\ t.kind \in Kinds
                         /\ t.of # Main => /\ t.of \in Ranges
                                           /\ t.of.kind <= t.kind
                         /\ t.of = Main => t = Primary(t.kind)
  BY DEF TaskIds, Primary
<1>4. \A t \in TaskIds : t.kind # Graphing =>
        /\ NextStage(t) \in TaskIds
        /\ NextStage(t).kind = t.kind + 1
        /\ NextStage(t).of = t.of
  <2> SUFFICES ASSUME NEW t \in TaskIds, t.kind # Graphing
               PROVE  /\ NextStage(t) \in TaskIds
                      /\ NextStage(t).kind = t.kind + 1
                      /\ NextStage(t).of = t.of
    OBVIOUS
  <2>1. t.kind + 1 \in Kinds
    BY <1>3 DEF Kinds, Observing, Remembering, Graphing
  <2>2. /\ NextStage(t) = [kind |-> t.kind + 1, of |-> t.of]
        /\ t.of \in Ranges \union {Main}
    BY DEF NextStage, TaskIds
  <2>3. t.of # Main => t.of.kind <= t.kind + 1
    BY <1>2, <1>3 DEF Kinds, Observing, Remembering, Graphing
  <2> QED
    BY <2>1, <2>2, <2>3 DEF TaskIds
<1>5. \A t \in TaskIds, r \in Ranges :
        t.of = r /\ t.kind = r.kind => t = Replay(r)
  BY DEF TaskIds, Replay
<1> QED
  BY <1>1, <1>2, <1>3, <1>4, <1>5

LEMMA KindFacts ==
    /\ Kinds = {1, 2, 3}
    /\ Observing = 1 /\ Remembering = 2 /\ Graphing = 3
BY DEF Kinds, Observing, Remembering, Graphing

LEMMA EventFacts ==
    /\ MaxEvent \in Nat
    /\ \A e : e \in Events <=> e \in Nat /\ 1 <= e /\ e <= MaxEvent
    /\ \A e : e \in Cursors <=> e \in Nat /\ e <= MaxEvent
    /\ Events \subseteq Cursors
BY RowsAssumption DEF Events, Cursors

-----------------------------------------------------------------------------
(* Rows *)

(* What the statements do to the row of a task. *)
LEMMA CoalescedFacts ==
    ASSUME NEW t \in TaskRow, NEW e \in Cursors
    PROVE  /\ Coalesced(t, e) \in TaskRow
           /\ Coalesced(t, e).cursor = t.cursor
           /\ Coalesced(t, e).hw = Larger(t.hw, e)
           /\ Coalesced(t, e).owner = t.owner
           /\ Live(Coalesced(t, e))
           /\ Live(t) => Coalesced(t, e).status = t.status
           /\ ~Live(t) => Coalesced(t, e).status = "pending"
<1>1. Larger(t.hw, e) \in Cursors
  BY DEF Larger, TaskRow
<1>2. /\ Revived(t) \in TaskRow
      /\ Revived(t).cursor = t.cursor
      /\ Revived(t).owner = t.owner
      /\ Live(Revived(t))
      /\ Live(t) => Revived(t).status = t.status
      /\ ~Live(t) => Revived(t).status = "pending"
  BY DEF Revived, TaskRow, TaskStatus, FailureClasses, Live
<1>3. /\ Coalesced(t, e) \in TaskRow
      /\ Coalesced(t, e).cursor = t.cursor
      /\ Coalesced(t, e).hw = Larger(t.hw, e)
      /\ Coalesced(t, e).owner = t.owner
      /\ Coalesced(t, e).status = Revived(t).status
  BY <1>1, <1>2 DEF Coalesced, TaskRow
<1> QED
  BY <1>2, <1>3 DEF Live

LEMMA ReleasedFacts ==
    ASSUME NEW t \in TaskRow
    PROVE  /\ Released(t) \in TaskRow
           /\ Released(t).cursor = t.cursor
           /\ Released(t).hw = t.hw
           /\ Released(t).status = "pending"
           /\ Released(t).owner = NoOwner
BY DEF Released, TaskRow, TaskStatus

LEMMA RetryingFacts ==
    ASSUME NEW t \in TaskRow, NEW n \in Nat
    PROVE  /\ Retrying(t, n) \in TaskRow
           /\ Retrying(t, n).cursor = t.cursor
           /\ Retrying(t, n).hw = t.hw
           /\ Retrying(t, n).status = "pending"
           /\ Retrying(t, n).owner = NoOwner
BY DEF Retrying, TaskRow, TaskStatus

LEMMA CompletedFacts ==
    ASSUME NEW t \in TaskRow, NEW e \in Cursors
    PROVE  /\ Completed(t, e) \in TaskRow
           /\ Completed(t, e).cursor = e
           /\ Completed(t, e).hw = t.hw
           /\ Completed(t, e).status = IF t.hw > e THEN "pending" ELSE "done"
BY DEF Completed, TaskRow, TaskStatus

LEMMA ExhaustedFacts ==
    ASSUME NEW t \in TaskRow, NEW n \in Nat, NEW e \in Cursors,
           NEW class \in FailureClasses
    PROVE  /\ ExhaustedTask(t, e, n, class) \in TaskRow
           /\ ExhaustedTask(t, e, n, class).cursor = e
           /\ ExhaustedTask(t, e, n, class).hw = t.hw
           /\ ExhaustedTask(t, e, n, class).status =
                IF t.hw > e THEN "pending" ELSE "failed"
BY DEF ExhaustedTask, TaskRow, TaskStatus, FailureClasses

LEMMA ClearedFacts ==
    ASSUME NEW t \in TaskRow
    PROVE  /\ Cleared(t) \in TaskRow
           /\ Cleared(t).cursor = t.cursor
           /\ Cleared(t).hw = t.hw
           /\ t.status = "failed" => Cleared(t).status = "done"
           /\ t.status # "failed" => Cleared(t) = t
BY DEF Cleared, TaskRow, TaskStatus, FailureClasses

LEMMA ClaimedFacts ==
    ASSUME NEW t \in TaskRow, NEW w \in Workers
    PROVE  /\ Claimed(t, w) \in TaskRow
           /\ Claimed(t, w).cursor = t.cursor
           /\ Claimed(t, w).hw = t.hw
           /\ Claimed(t, w).status = "processing"
           /\ Claimed(t, w).owner = w
BY DEF Claimed, TaskRow, TaskStatus

LEMMA ReplayTaskFacts ==
    ASSUME NEW t \in TaskRow, NEW r \in Ranges
    PROVE  /\ ReplayTask(t, r.from, r.to) \in TaskRow
           /\ ReplayTask(t, r.from, r.to).cursor = r.from - 1
           /\ ReplayTask(t, r.from, r.to).hw = r.to
           /\ ~Live(t) => ReplayTask(t, r.from, r.to).status = "pending"
<1>1. r.from - 1 \in Cursors /\ r.to \in Cursors
  BY IdFacts, EventFacts
<1>2. /\ Revived(t) \in TaskRow
      /\ ~Live(t) => Revived(t).status = "pending"
  BY DEF Revived, TaskRow, TaskStatus, FailureClasses, Live
<1> QED
  BY <1>1, <1>2 DEF ReplayTask, TaskRow

(* A follow-up keeps the cursor of a live task, and of a primary one. *)
LEMMA FollowupTaskFacts ==
    ASSUME NEW t \in TaskRow, NEW s \in WorkerState, s.input # {}
    PROVE  /\ FollowupTask(t, s) \in TaskRow
           /\ FollowupTask(t, s).hw = Larger(t.hw, Max(s.input))
           /\ FollowupTask(t, s).owner = t.owner
           /\ Live(FollowupTask(t, s))
           /\ Live(t) => FollowupTask(t, s).status = t.status
           /\ ~Live(t) => FollowupTask(t, s).status = "pending"
           /\ Live(t) \/ s.task.of = Main =>
                FollowupTask(t, s).cursor = t.cursor
           /\ ~Live(t) /\ s.task.of # Main =>
                FollowupTask(t, s).cursor = s.cursor
<1>1. s.input \subseteq Events /\ s.cursor \in Cursors
  BY DEF WorkerState
<1>2. Max(s.input) \in Cursors
  BY <1>1, MaxFacts, EventFacts
<1> DEFINE c == Coalesced(t, Max(s.input))
<1>3. /\ c \in TaskRow /\ c.cursor = t.cursor
      /\ c.hw = Larger(t.hw, Max(s.input))
      /\ c.owner = t.owner
      /\ Live(c)
      /\ Live(t) => c.status = t.status
      /\ ~Live(t) => c.status = "pending"
  BY <1>2, CoalescedFacts DEF c
<1> HIDE DEF c
<1>4. FollowupTask(t, s) =
        [c EXCEPT !.cursor = IF s.task.of # Main /\ ~Live(t) THEN s.cursor
                             ELSE c.cursor]
  BY DEF FollowupTask, c
<1>5. /\ FollowupTask(t, s) \in TaskRow
      /\ FollowupTask(t, s).hw = c.hw
      /\ FollowupTask(t, s).owner = c.owner
      /\ FollowupTask(t, s).status = c.status
      /\ FollowupTask(t, s).cursor = IF s.task.of # Main /\ ~Live(t)
                                     THEN s.cursor ELSE c.cursor
  BY <1>1, <1>3, <1>4 DEF TaskRow
<1> QED
  BY <1>3, <1>5 DEF Live

(* What the statements do to the row of a range. *)
LEMMA FailingRangeFacts ==
    ASSUME NEW r \in RangeRow, NEW n \in Nat, NEW class \in FailureClasses
    PROVE  /\ RecordedRange(r, class) \in RangeRow
           /\ RecordedRange(r, class).status =
                IF r.status = "quarantined" THEN "quarantined" ELSE "pending"
           /\ FailedRange(r, n, class) \in RangeRow
           /\ FailedRange(r, n, class).status = "failed"
BY DEF RecordedRange, FailedRange, RangeRow, RangeStatus, FailureClasses

LEMMA RequeuedRangeFacts ==
    ASSUME NEW r \in RangeRow
    PROVE  RequeuedRange(r) \in RangeRow /\ RequeuedRange(r).status = "requeued"
<1>1. r.attempts + 1 \in Nat
  BY DEF RangeRow
<1> QED
  BY <1>1 DEF RequeuedRange, RangeRow, RangeStatus

LEMMA ClosedRangeFacts ==
    ASSUME NEW r \in RangeRow
    PROVE  /\ ReplayedRange(r) \in RangeRow
           /\ ReplayedRange(r).status = "replayed"
           /\ [r EXCEPT !.status = "quarantined"] \in RangeRow
           /\ [r EXCEPT !.status = "quarantined"].status = "quarantined"
BY DEF ReplayedRange, RangeRow, RangeStatus

-----------------------------------------------------------------------------
(* Processes *)

Busy(w) == ~At(w, "idle")

Places == {"idle", "running", "loaded", "written", "handed", "marking"}

LEMMA WorkerFacts ==
    ASSUME TypeOK, NEW w \in Workers
    PROVE  /\ worker[w] \in WorkerState
           /\ worker[w].pc \in Places
           /\ worker[w].task \in TaskIds
           /\ worker[w].cursor \in Cursors
           /\ worker[w].hw \in Cursors
           /\ worker[w].attempts \in Nat
           /\ worker[w].input \subseteq Events
           /\ worker[w].upto \in Cursors
           /\ task[worker[w].task] \in TaskRow
BY DEF TypeOK, WorkerState, Places

LEMMA IdleType == Idle \in WorkerState /\ Idle.pc = "idle"
<1>1. Primary(Observing) \in TaskIds
  BY IdFacts, KindFacts
<1> QED
  BY <1>1, EventFacts DEF Idle, WorkerState

LEMMA LeavesFacts ==
    ASSUME TypeOK, NEW w \in Workers, Leaves(w)
    PROVE  /\ worker' \in [Workers -> WorkerState]
           /\ ~Busy(w)'
           /\ worker'[w].pc = "idle"
           /\ \A v \in Workers \ {w} : worker'[v] = worker[v]
BY IdleType DEF TypeOK, Leaves, Busy, At

LEMMA GoesFacts ==
    ASSUME TypeOK, NEW w \in Workers, NEW pc \in Places, Goes(w, pc)
    PROVE  /\ worker' \in [Workers -> WorkerState]
           /\ worker'[w] = [worker[w] EXCEPT !.pc = pc]
           /\ worker'[w].pc = pc
           /\ worker'[w].task = worker[w].task
           /\ worker'[w].cursor = worker[w].cursor
           /\ worker'[w].hw = worker[w].hw
           /\ worker'[w].input = worker[w].input
           /\ worker'[w].upto = worker[w].upto
           /\ \A v \in Workers \ {w} : worker'[v] = worker[v]
<1>1. worker[w] \in WorkerState
  BY DEF TypeOK
<1>2. [worker[w] EXCEPT !.pc = pc] \in WorkerState
  BY <1>1 DEF WorkerState, Places
<1>3. worker' = [worker EXCEPT ![w] = [worker[w] EXCEPT !.pc = pc]]
  BY DEF Goes
<1> QED
  BY <1>1, <1>2, <1>3 DEF TypeOK, WorkerState

-----------------------------------------------------------------------------
(* The tables and the claims refer to what is there. *)

(* Nothing is observed, recorded or replayed that was not captured, and    *)
(* the follow-ups of a range have a replay task behind them.               *)
Rooted ==
    /\ \A i \in observed : i.to <= head
    /\ \A r \in Ranges : Recorded(range[r]) => r.to <= head
    /\ \A t \in TaskIds : t.of # Main /\ task[t].status # "absent" =>
         /\ t.of.to <= head
         /\ task[Replay(t.of)].status # "absent"

ClaimSound(w) ==
    /\ task[worker[w].task].status # "absent"
    /\ worker[w].hw <= head
    /\ worker[w].input \subseteq 1 .. head
    /\ worker[w].pc \in {"loaded", "written", "handed"} =>
         /\ worker[w].input # {}
         /\ worker[w].task.kind = Observing => worker[w].input = Span(w)
    /\ worker[w].pc \in {"written", "handed"} => worker[w].task.kind # Graphing
    /\ worker[w].pc = "marking" => worker[w].task.of # Main

AllSound == \A w \in Workers : Busy(w) => ClaimSound(w)

TypeInv == TypeOK /\ Rooted /\ AllSound

(* No row of a task is deleted. *)
RowsStay ==
    \A t \in TaskIds : task[t].status # "absent" => task'[t].status # "absent"

LEMMA AllSoundStep ==
    ASSUME TypeOK, AllSound, RowsStay, head' \in Nat, head <= head',
           NEW w \in Workers,
           \A v \in Workers \ {w} : worker'[v] = worker[v],
           Busy(w)' => ClaimSound(w)'
    PROVE  AllSound'
<1> SUFFICES ASSUME NEW v \in Workers, Busy(v)'
             PROVE  ClaimSound(v)'
  BY DEF AllSound
<1>1. CASE v # w
  <2>1. worker'[v] = worker[v]
    BY <1>1
  <2>2. ClaimSound(v)
    BY <2>1 DEF AllSound, Busy, At
  <2>3. /\ worker[v].task \in TaskIds /\ worker[v].hw \in Nat
        /\ head \in Nat
    BY WorkerFacts, EventFacts DEF TypeOK
  <2>4. /\ task'[worker[v].task].status # "absent"
        /\ worker[v].hw <= head'
        /\ worker[v].input \subseteq 1 .. head'
    BY <2>2, <2>3 DEF RowsStay, ClaimSound
  <2> QED
    BY <2>1, <2>2, <2>4 DEF ClaimSound, Span
<1> QED
  BY <1>1

LEMMA AllSoundKept ==
    ASSUME TypeOK, AllSound, RowsStay, head' \in Nat, head <= head',
           worker' = worker
    PROVE  AllSound'
<1> SUFFICES ASSUME NEW v \in Workers, Busy(v)'
             PROVE  ClaimSound(v)'
  BY DEF AllSound
<1>1. ClaimSound(v)
  BY DEF AllSound, Busy, At
<1>2. /\ worker[v].task \in TaskIds /\ worker[v].hw \in Nat
      /\ head \in Nat
  BY WorkerFacts, EventFacts DEF TypeOK
<1>3. /\ task'[worker[v].task].status # "absent"
      /\ worker[v].hw <= head'
      /\ worker[v].input \subseteq 1 .. head'
  BY <1>1, <1>2 DEF RowsStay, ClaimSound
<1> QED
  BY <1>1, <1>3 DEF ClaimSound, Span

(* What Types and Rooted say of the rows of tasks. *)
TasksSound ==
    /\ head \in Cursors
    /\ task \in [TaskIds -> TaskRow]
    /\ \A t \in TaskIds : task[t].hw <= head
    /\ \A t \in TaskIds : t.of # Main /\ task[t].status # "absent" =>
         /\ t.of.to <= head
         /\ task[Replay(t.of)].status # "absent"

LEMMA TasksAreSound == TypeInv => TasksSound
BY DEF TypeInv, TypeOK, Rooted, TasksSound

LEMMA TasksKept ==
    ASSUME TasksSound, task' = task, head' = head
    PROVE  TasksSound' /\ RowsStay
BY DEF TasksSound, RowsStay

(* One row is written: that of a primary task, of a task that is there, or *)
(* of one whose range has a replay task.                                   *)
LEMMA RowWritten ==
    ASSUME TasksSound, NEW t \in TaskIds, NEW row \in TaskRow,
           task' = [task EXCEPT ![t] = row],
           head' \in Cursors, head <= head',
           row.status # "absent", row.hw <= head',
           t.of # Main => /\ t.of.to <= head
                          /\ t = Replay(t.of) \/ task[Replay(t.of)].status # "absent"
    PROVE  /\ TasksSound' /\ RowsStay
           /\ task'[t] = row
           /\ \A q \in TaskIds \ {t} : task'[q] = task[q]
<1>1. /\ task' \in [TaskIds -> TaskRow]
      /\ task'[t] = row
      /\ \A q \in TaskIds \ {t} : task'[q] = task[q]
  BY DEF TasksSound
<1>2. RowsStay
  BY <1>1 DEF RowsStay
<1>3. \A q \in TaskIds : task[q].hw \in Nat /\ task[q].hw <= head
  BY EventFacts DEF TasksSound, TaskRow
<1>4. head \in Nat /\ head' \in Nat
  BY EventFacts DEF TasksSound
<1>5. \A q \in TaskIds : task'[q].hw <= head'
  BY <1>1, <1>3, <1>4
<1>6. ASSUME NEW q \in TaskIds, q.of # Main, task'[q].status # "absent"
      PROVE  q.of.to <= head' /\ task'[Replay(q.of)].status # "absent"
  <2>1. /\ q.of \in Ranges /\ Replay(q.of) \in TaskIds
        /\ q.of.to \in Nat
    BY <1>6, IdFacts, EventFacts
  <2>2. CASE q = t
    <3>1. q.of.to <= head'
      BY <1>4, <1>6, <2>1, <2>2
    <3>2. task'[Replay(q.of)].status # "absent"
      BY <1>1, <1>6, <2>1, <2>2
    <3> QED
      BY <3>1, <3>2
  <2>3. CASE q # t
    <3>1. task[q].status # "absent"
      BY <1>1, <1>6, <2>3
    <3>2. q.of.to <= head /\ task[Replay(q.of)].status # "absent"
      BY <1>6, <3>1 DEF TasksSound
    <3> QED
      BY <1>2, <1>4, <2>1, <3>2 DEF RowsStay
  <2> QED
    BY <2>2, <2>3
<1> QED
  BY <1>1, <1>2, <1>5, <1>6 DEF TasksSound

(* Failed rows are cleared. *)
LEMMA RowsCleared ==
    ASSUME TasksSound, head' = head, NEW C \in SUBSET TaskIds,
           task' = [t \in TaskIds |-> IF t \in C THEN Cleared(task[t])
                                      ELSE task[t]]
    PROVE  /\ TasksSound' /\ RowsStay
           /\ \A t \in TaskIds :
                /\ task'[t].cursor = task[t].cursor
                /\ task'[t].hw = task[t].hw
                /\ Live(task'[t]) <=> Live(task[t])
                /\ Live(task[t]) => task'[t] = task[t]
                /\ t \notin C => task'[t] = task[t]
                /\ task[t].status # "failed" => task'[t] = task[t]
                /\ task'[t].status = "failed" => task'[t] = task[t]
<1>1. ASSUME NEW t \in TaskIds
      PROVE  /\ task'[t] \in TaskRow
             /\ task'[t].cursor = task[t].cursor
             /\ task'[t].hw = task[t].hw
             /\ Live(task'[t]) <=> Live(task[t])
             /\ Live(task[t]) => task'[t] = task[t]
             /\ t \notin C => task'[t] = task[t]
             /\ task[t].status # "failed" => task'[t] = task[t]
             /\ task'[t].status = "failed" => task'[t] = task[t]
             /\ (task'[t].status # "absent") <=> (task[t].status # "absent")
  <2>1. task[t] \in TaskRow
    BY DEF TasksSound
  <2>2. task'[t] = IF t \in C THEN Cleared(task[t]) ELSE task[t]
    OBVIOUS
  <2> DEFINE c == Cleared(task[t])
  <2>3. /\ c \in TaskRow
        /\ c.cursor = task[t].cursor /\ c.hw = task[t].hw
        /\ task[t].status = "failed" => c.status = "done"
        /\ task[t].status # "failed" => c = task[t]
    BY <2>1, ClearedFacts
  <2> QED
    BY <2>1, <2>2, <2>3 DEF Live
<1>2. task' \in [TaskIds -> TaskRow]
  BY <1>1
<1>3. ASSUME NEW t \in TaskIds, t.of # Main, task'[t].status # "absent"
      PROVE  t.of.to <= head' /\ task'[Replay(t.of)].status # "absent"
  <2>1. Replay(t.of) \in TaskIds
    BY <1>3, IdFacts
  <2> QED
    BY <1>1, <1>3, <2>1 DEF TasksSound
<1>4. \A t \in TaskIds : task'[t].hw <= head'
  BY <1>1 DEF TasksSound
<1>5. TasksSound'
  BY <1>2, <1>3, <1>4 DEF TasksSound
<1>6. RowsStay
  BY <1>1 DEF RowsStay
<1> QED
  BY <1>1, <1>5, <1>6

(* The rows that QuietSource clears. *)
Quieted(r, ranges) ==
    {t \in TaskIds :
       \/ t.of = r
       \/ /\ t = Primary(r.kind)
          /\ \A q \in Ranges : q.kind = r.kind =>
               ranges[q].status \in {"absent", "replayed", "quarantined"}}

LEMMA QuietSourceForm ==
    ASSUME NEW r, NEW ranges
    PROVE  /\ Quieted(r, ranges) \in SUBSET TaskIds
           /\ QuietSource(r, ranges) =
                [t \in TaskIds |-> IF t \in Quieted(r, ranges)
                                   THEN Cleared(task[t]) ELSE task[t]]
BY DEF Quieted, QuietSource

-----------------------------------------------------------------------------
(* Type correctness, action by action *)

LEMMA MishapType ==
    ASSUME TypeOK, Mishap \/ UNCHANGED mishaps
    PROVE  mishaps' \in 0 .. MaxMishaps
BY PipelineAssumption DEF TypeOK, Mishap

LEMMA CaptureTypes ==
    ASSUME TypeInv, CaptureEvent
    PROVE  TypeInv'
<1> DEFINE p == Primary(Observing)
<1>1. p \in TaskIds /\ p.of = Main
  BY IdFacts, KindFacts
<1>2. /\ head \in Nat /\ head' = head + 1
      /\ head' \in Cursors /\ head <= head'
  BY EventFacts DEF CaptureEvent, TypeInv, TypeOK
<1>3. task[p] \in TaskRow /\ task[p].hw <= head /\ task[p].hw \in Nat
  BY <1>1, EventFacts DEF TypeInv, TypeOK, TaskRow
<1>4. /\ Coalesced(task[p], head + 1) \in TaskRow
      /\ Live(Coalesced(task[p], head + 1))
      /\ Coalesced(task[p], head + 1).hw <= head'
  <2>1. Coalesced(task[p], head + 1).hw = Larger(task[p].hw, head + 1)
    BY <1>2, <1>3, CoalescedFacts
  <2> QED
    BY <1>2, <1>3, <2>1, CoalescedFacts DEF Larger
<1>5. TasksSound' /\ RowsStay
  <2>1. task' = [task EXCEPT ![p] = Coalesced(task[p], head + 1)]
    BY DEF CaptureEvent
  <2>2. Coalesced(task[p], head + 1).status # "absent"
    BY <1>4 DEF Live
  <2> HIDE DEF p
  <2> QED
    BY <1>1, <1>2, <1>4, <2>1, <2>2, RowWritten, TasksAreSound
<1>6. AllSound'
  BY <1>2, <1>5, AllSoundKept, EventFacts DEF CaptureEvent, TypeInv
<1>7. TypeOK'
  BY <1>5 DEF TypeInv, TypeOK, TasksSound, CaptureEvent, output, history
<1>8. Rooted'
  <2>1. \A i \in observed' : i.to <= head'
    <3> SUFFICES ASSUME NEW i \in observed PROVE i.to <= head + 1
      BY <1>2 DEF CaptureEvent, output
    <3>1. i.to <= head /\ i.to \in Nat
      BY EventFacts DEF TypeInv, TypeOK, Rooted, Claims
    <3> QED
      BY <1>2, <3>1
  <2>2. \A r \in Ranges : Recorded(range'[r]) => r.to <= head'
    <3> SUFFICES ASSUME NEW r \in Ranges, Recorded(range[r])
                 PROVE  r.to <= head + 1
      BY <1>2 DEF CaptureEvent
    <3>1. r.to <= head /\ r.to \in Nat
      BY IdFacts, EventFacts DEF TypeInv, Rooted
    <3> QED
      BY <1>2, <3>1
  <2> QED
    BY <1>5, <2>1, <2>2 DEF Rooted, TasksSound
<1> QED
  BY <1>6, <1>7, <1>8 DEF TypeInv

LEMMA ClaimTypes ==
    ASSUME TypeInv, NEW w \in Workers, NEW t \in TaskIds, ClaimNext(w, t)
    PROVE  TypeInv'
<1>1. /\ task[t] \in TaskRow /\ task[t].status = "pending"
      /\ task[t].hw <= head /\ head \in Cursors /\ head \in Nat
      /\ t.of # Main => /\ t.of.to <= head
                        /\ task[Replay(t.of)].status # "absent"
  BY EventFacts DEF TypeInv, TypeOK, Rooted, ClaimNext
<1>2. /\ Claimed(task[t], w) \in TaskRow
      /\ Claimed(task[t], w).hw = task[t].hw
      /\ Claimed(task[t], w).status = "processing"
  BY <1>1, ClaimedFacts
<1>3. TasksSound' /\ RowsStay /\ task'[t] = Claimed(task[t], w)
  <2>1. task' = [task EXCEPT ![t] = Claimed(task[t], w)]
    BY DEF ClaimNext
  <2>2. head' = head /\ head <= head'
    BY <1>1 DEF ClaimNext
  <2>3. Claimed(task[t], w).hw <= head'
    BY <1>1, <1>2, <2>2
  <2> QED
    BY <1>1, <1>2, <2>1, <2>2, <2>3, RowWritten, TasksAreSound
<1> DEFINE s == [pc |-> "running", task |-> t, cursor |-> task[t].cursor,
                 hw |-> task[t].hw, attempts |-> task[t].attempts,
                 input |-> {}, upto |-> task[t].hw]
<1>4. s \in WorkerState
  BY <1>1 DEF WorkerState, TaskRow
<1>5. /\ worker' = [worker EXCEPT ![w] = s]
      /\ worker \in [Workers -> WorkerState]
  BY DEF ClaimNext, TypeInv, TypeOK
<1>6. /\ worker' \in [Workers -> WorkerState]
      /\ worker'[w] = s
      /\ \A v \in Workers \ {w} : worker'[v] = worker[v]
  BY <1>4, <1>5
<1>7. ClaimSound(w)'
  BY <1>1, <1>2, <1>3, <1>6 DEF ClaimSound, ClaimNext
<1>8. AllSound'
  BY <1>1, <1>3, <1>6, <1>7, AllSoundStep DEF ClaimNext, TypeInv
<1>9. TypeOK'
  BY <1>3, <1>6 DEF TypeInv, TypeOK, TasksSound, ClaimNext, output, history
<1>10. Rooted'
  BY <1>3 DEF TypeInv, Rooted, TasksSound, ClaimNext, output
<1> QED
  BY <1>8, <1>9, <1>10 DEF TypeInv

(* The steps of a run that write no row: its input and its output. *)
LEMMA SpanFacts ==
    ASSUME TypeInv, NEW w \in Workers, Busy(w)
    PROVE  /\ Span(w) \subseteq Events
           /\ Span(w) \subseteq 1 .. head
           /\ \A e : e \in Span(w) <=>
                e \in Nat /\ worker[w].cursor < e /\ e <= worker[w].hw
<1>1. /\ worker[w].cursor \in Nat /\ worker[w].hw \in Nat
      /\ worker[w].hw <= MaxEvent /\ head \in Nat /\ worker[w].hw <= head
  BY WorkerFacts, EventFacts DEF TypeInv, TypeOK, AllSound, ClaimSound
<1> QED
  BY <1>1, EventFacts DEF Span

LEMMA InputFacts ==
    ASSUME TypeInv, NEW w \in Workers, Busy(w)
    PROVE  Input(w) \subseteq 1 .. head /\ Input(w) \subseteq Events
<1>1. \A i \in observed : i.from .. i.to \subseteq 1 .. head
  <2> SUFFICES ASSUME NEW i \in observed
               PROVE  i.from .. i.to \subseteq 1 .. head
    OBVIOUS
  <2>1. /\ i.from \in Nat /\ i.to \in Nat /\ 1 <= i.from /\ i.to <= head
        /\ head \in Nat
    BY EventFacts DEF TypeInv, TypeOK, Rooted, Claims
  <2> QED
    BY <2>1
<1>2. Cited(w) \subseteq 1 .. head
  BY <1>1 DEF Cited
<1>3. head \in Nat /\ head <= MaxEvent
  BY EventFacts DEF TypeInv, TypeOK
<1> QED
  BY <1>2, <1>3, SpanFacts, EventFacts DEF Input

LEMMA LoadTypes ==
    ASSUME TypeInv, NEW w \in Workers, Load(w)
    PROVE  TypeInv'
<1>1. Busy(w) /\ worker[w] \in WorkerState
  BY WorkerFacts DEF Load, Busy, At, TypeInv
<1> DEFINE s == [worker[w] EXCEPT !.pc = "loaded", !.input = Input(w)]
<1>2. s \in WorkerState
  BY <1>1, InputFacts DEF WorkerState
<1>3. /\ worker' \in [Workers -> WorkerState]
      /\ worker'[w] = s
      /\ \A v \in Workers \ {w} : worker'[v] = worker[v]
  <2>1. worker' = [worker EXCEPT ![w] = s]
    BY DEF Load
  <2>2. worker \in [Workers -> WorkerState]
    BY DEF TypeInv, TypeOK
  <2> QED
    BY <1>2, <2>1, <2>2
<1>4. TasksSound' /\ RowsStay
  BY TasksAreSound, TasksKept DEF Load
<1>5. head \in Nat /\ head' = head
  BY EventFacts DEF TypeInv, TypeOK, Load
<1>6. ClaimSound(w)'
  <2>1. ClaimSound(w)
    BY <1>1 DEF TypeInv, AllSound
  <2>2. /\ worker'[w].pc = "loaded" /\ worker'[w].task = worker[w].task
        /\ worker'[w].hw = worker[w].hw /\ worker'[w].input = Input(w)
    BY <1>1, <1>3 DEF WorkerState
  <2>3. Input(w) \subseteq 1 .. head /\ Input(w) # {}
    BY <1>1, InputFacts DEF Load
  <2>4. task' = task /\ worker'[w].cursor = worker[w].cursor
    BY <1>1, <1>3 DEF Load, WorkerState
  <2>5. worker[w].task.kind = Observing => Input(w) = Span(w)
    BY DEF Input, Kind
  <2> QED
    BY <1>5, <2>1, <2>2, <2>3, <2>4, <2>5, KindFacts DEF ClaimSound, Span
<1>7. AllSound'
  BY <1>3, <1>4, <1>5, <1>6, AllSoundStep DEF TypeInv
<1> QED
  BY <1>3, <1>4, <1>7 DEF TypeInv, TypeOK, Rooted, TasksSound, Load, output,
                          history

LEMMA GoesSound ==
    ASSUME TypeInv, NEW w \in Workers, Busy(w), RowsStay, head' = head,
           NEW pc \in Places, Goes(w, pc),
           pc \in {"loaded", "written", "handed"} =>
             worker[w].pc \in {"loaded", "written", "handed"},
           pc \in {"written", "handed"} => worker[w].task.kind # Graphing,
           pc = "marking" => worker[w].task.of # Main
    PROVE  AllSound'
<1>1. TypeOK /\ AllSound /\ ClaimSound(w)
  BY DEF TypeInv, AllSound
<1>2. /\ worker'[w].pc = pc
      /\ worker'[w].task = worker[w].task
      /\ worker'[w].cursor = worker[w].cursor
      /\ worker'[w].hw = worker[w].hw
      /\ worker'[w].input = worker[w].input
      /\ \A v \in Workers \ {w} : worker'[v] = worker[v]
  BY <1>1, GoesFacts
<1>3. task'[worker[w].task].status # "absent"
  BY <1>1, WorkerFacts DEF RowsStay, ClaimSound
<1>4. ClaimSound(w)'
  BY <1>1, <1>2, <1>3 DEF ClaimSound, Span
<1>5. head \in Nat /\ head' \in Nat /\ head <= head'
  BY <1>1, EventFacts DEF TypeOK
<1> QED
  BY <1>1, <1>2, <1>4, <1>5, AllSoundStep

LEMMA LeavesSound ==
    ASSUME TypeInv, NEW w \in Workers, RowsStay, head' = head, Leaves(w)
    PROVE  AllSound'
<1>1. head \in Nat /\ head' \in Nat /\ head <= head'
  BY EventFacts DEF TypeInv, TypeOK
<1> QED
  BY <1>1, LeavesFacts, AllSoundStep DEF TypeInv

LEMMA WriteTypes ==
    ASSUME TypeInv, NEW w \in Workers,
           WriteObservations(w) \/ WriteCandidates(w) \/ NoCandidates(w)
    PROVE  TypeInv'
<1>1. /\ Busy(w) /\ worker[w] \in WorkerState /\ worker[w].pc = "loaded"
      /\ worker[w].task.kind # Graphing
  BY WorkerFacts, KindFacts
     DEF WriteObservations, WriteCandidates, NoCandidates, Busy, At, TypeInv,
         Kind
<1>2. ClaimSound(w) /\ worker[w].input # {} /\ worker[w].input \subseteq Events
  BY <1>1, WorkerFacts DEF TypeInv, AllSound, ClaimSound
<1>3. TasksSound' /\ RowsStay /\ head' = head
  BY TasksAreSound, TasksKept
     DEF WriteObservations, WriteCandidates, NoCandidates
<1>4. /\ head \in Nat /\ "written" \in Places
  BY EventFacts DEF TypeInv, TypeOK, Places
<1>5. worker' \in [Workers -> WorkerState] /\ AllSound'
  <2>1. CASE Goes(w, "written")
    <3>1. AllSound'
      BY <1>1, <1>3, <1>4, <2>1, GoesSound, KindFacts
    <3> QED
      BY <1>4, <2>1, <3>1, GoesFacts DEF TypeInv
  <2>2. CASE WriteCandidates(w)
    <3> DEFINE s == [worker[w] EXCEPT !.pc = "written",
                                      !.upto = Max(worker[w].input)]
    <3>1. Max(worker[w].input) \in Cursors
      BY <1>2, MaxFacts, EventFacts
    <3>2. s \in WorkerState
      BY <1>1, <3>1 DEF WorkerState
    <3>3. worker' = [worker EXCEPT ![w] = s]
      BY <2>2 DEF WriteCandidates
    <3>4. worker \in [Workers -> WorkerState]
      BY DEF TypeInv, TypeOK
    <3>5. /\ worker' \in [Workers -> WorkerState]
          /\ worker'[w] = s
          /\ \A v \in Workers \ {w} : worker'[v] = worker[v]
      BY <3>2, <3>3, <3>4
    <3>6. ClaimSound(w)'
      <4>1. /\ worker'[w].pc = "written" /\ worker'[w].task = worker[w].task
            /\ worker'[w].hw = worker[w].hw
            /\ worker'[w].cursor = worker[w].cursor
            /\ worker'[w].input = worker[w].input
        BY <1>1, <3>5 DEF WorkerState
      <4>2. task' = task
        BY <2>2 DEF WriteCandidates
      <4> QED
        BY <1>1, <1>2, <1>3, <4>1, <4>2 DEF ClaimSound, Span
    <3>7. AllSound'
      BY <1>3, <1>4, <3>5, <3>6, AllSoundStep DEF TypeInv
    <3> QED
      BY <3>5, <3>7
  <2> QED
    BY <2>1, <2>2 DEF WriteObservations, WriteCandidates, NoCandidates
<1>6. observed' \subseteq Claims /\ \A i \in observed' : i.to <= head
  <2> DEFINE o == [from |-> worker[w].cursor + 1, to |-> worker[w].hw]
  <2>1. observed \subseteq Claims /\ \A i \in observed : i.to <= head
    BY DEF TypeInv, TypeOK, Rooted
  <2>2. CASE WriteObservations(w) /\ observed' = observed \union {o}
    <3>1. worker[w].input = Span(w)
      BY <1>1, <1>2, <2>2 DEF WriteObservations, ClaimSound, Kind
    <3>2. PICK e \in Span(w) : TRUE
      BY <1>2, <3>1
    <3>3. /\ worker[w].cursor \in Nat /\ worker[w].hw \in Nat
          /\ worker[w].hw <= MaxEvent /\ worker[w].hw <= head
      BY <1>2, WorkerFacts, EventFacts DEF TypeInv, ClaimSound
    <3>4. worker[w].cursor < worker[w].hw
      BY <1>1, <3>2, <3>3, SpanFacts
    <3>5. /\ worker[w].cursor + 1 \in Events /\ worker[w].hw \in Events
          /\ worker[w].cursor + 1 <= worker[w].hw
      BY <3>3, <3>4, EventFacts
    <3>6. o \in Claims /\ o.to <= head
      BY <3>3, <3>5 DEF Claims
    <3> QED
      BY <2>1, <2>2, <3>6
  <2>3. CASE observed' = observed
    BY <2>1, <2>3
  <2> QED
    BY <2>2, <2>3 DEF WriteObservations, WriteCandidates, NoCandidates, output
<1>7. review' \subseteq Events
  BY <1>2 DEF WriteObservations, WriteCandidates, NoCandidates, TypeInv,
              TypeOK, output
<1> QED
  BY <1>3, <1>5, <1>6, <1>7
     DEF TypeInv, TypeOK, Rooted, TasksSound, WriteObservations,
         WriteCandidates, NoCandidates, history

LEMMA FollowupTypes ==
    ASSUME TypeInv, NEW w \in Workers, Followup(w)
    PROVE  /\ TypeInv'
           /\ NextStage(worker[w].task) \in TaskIds
           /\ worker[w].input # {}
<1> DEFINE t == NextStage(worker[w].task)
           row == FollowupTask(task[t], worker[w])
<1>1. /\ Busy(w) /\ worker[w].pc = "written" /\ ClaimSound(w)
      /\ worker[w] \in WorkerState /\ worker[w].task \in TaskIds
      /\ worker[w].input \subseteq Events
  BY WorkerFacts DEF Followup, Busy, At, TypeInv, AllSound
<1>2. worker[w].input # {} /\ worker[w].task.kind # Graphing
  BY <1>1 DEF ClaimSound
<1>3. t \in TaskIds /\ t.of = worker[w].task.of
  BY <1>1, <1>2, IdFacts
<1>4. task[t] \in TaskRow /\ task[t].hw <= head /\ head \in Cursors
  BY <1>3 DEF TypeInv, TypeOK
<1>5. row \in TaskRow /\ Live(row) /\ row.hw = Larger(task[t].hw, Max(worker[w].input))
  BY <1>1, <1>2, <1>4, FollowupTaskFacts
<1>6. row.hw <= head /\ row.status # "absent"
  <2>1. Max(worker[w].input) \in 1 .. head
    BY <1>1, <1>2, MaxFacts DEF ClaimSound
  <2>2. head \in Nat /\ task[t].hw \in Nat
    BY <1>4, EventFacts DEF TaskRow
  <2> QED
    BY <1>4, <1>5, <2>1, <2>2 DEF Larger, Live
<1>7. t.of # Main => /\ t.of.to <= head
                     /\ task[Replay(t.of)].status # "absent"
  BY <1>1, <1>3 DEF TypeInv, Rooted, ClaimSound
<1>8. task' = [task EXCEPT ![t] = row] /\ head' = head
  BY DEF Followup
<1>9. head' \in Cursors /\ head <= head'
  BY <1>4, <1>8, EventFacts
<1> HIDE DEF t, row
<1>10. TasksSound' /\ RowsStay
  BY <1>3, <1>5, <1>6, <1>7, <1>8, <1>9, RowWritten, TasksAreSound
<1>11. worker' \in [Workers -> WorkerState] /\ AllSound'
  <2>1. "handed" \in Places /\ Goes(w, "handed")
    BY DEF Places, Followup
  <2> QED
    BY <1>1, <1>2, <1>8, <1>10, <2>1, GoesFacts, GoesSound DEF TypeInv
<1> QED
  BY <1>2, <1>3, <1>10, <1>11
     DEF TypeInv, TypeOK, Rooted, TasksSound, Followup, output, history, t

(* What the three ways to complete a task have in common. *)
LEMMA DoneTypes ==
    ASSUME TypeInv, NEW w \in Workers, Busy(w), Done(w),
           handed' \in [Kinds -> SUBSET Events]
    PROVE  TypeInv'
<1> DEFINE t == worker[w].task
           row == Completed(task[t], worker[w].upto)
<1>1. /\ ClaimSound(w) /\ worker[w] \in WorkerState /\ t \in TaskIds
      /\ worker[w].upto \in Cursors
  BY WorkerFacts DEF TypeInv, AllSound
<1>2. /\ task[t] \in TaskRow /\ task[t].hw <= head /\ head \in Cursors
      /\ task[t].status # "absent"
  BY <1>1 DEF TypeInv, TypeOK, ClaimSound
<1>3. row \in TaskRow /\ row.hw = task[t].hw /\ row.status # "absent"
  BY <1>1, <1>2, CompletedFacts
<1>4. /\ task' = [task EXCEPT ![t] = row] /\ head' = head
      /\ head' \in Cursors /\ head <= head'
  BY <1>2, EventFacts DEF Done
<1>5. t.of # Main => /\ t.of.to <= head
                     /\ task[Replay(t.of)].status # "absent"
  BY <1>1, <1>2 DEF TypeInv, Rooted
<1>6. TasksSound' /\ RowsStay
  <2> HIDE DEF row
  <2> QED
    BY <1>1, <1>2, <1>3, <1>4, <1>5, RowWritten, TasksAreSound
<1>7. worker' \in [Workers -> WorkerState] /\ AllSound'
  <2>1. CASE t.of = Main
    <3>1. Leaves(w)
      BY <2>1 DEF Done
    <3> QED
      BY <1>4, <1>6, <3>1, LeavesFacts, LeavesSound DEF TypeInv
  <2>2. CASE t.of # Main
    <3>1. Goes(w, "marking") /\ "marking" \in Places
      BY <2>2 DEF Done, Places
    <3> QED
      BY <1>4, <1>6, <2>2, <3>1, GoesFacts, GoesSound DEF TypeInv
  <2> QED
    BY <2>1, <2>2
<1>8. covered' \in [Kinds -> SUBSET Events]
  <2>1. /\ Span(w) \intersect 1 .. worker[w].upto \subseteq Events
        /\ worker[w].input \subseteq Events
        /\ Kind(w) \in Kinds
    BY <1>1, SpanFacts, WorkerFacts, IdFacts DEF TypeInv, Kind
  <2> QED
    BY <2>1 DEF Done, TypeInv, TypeOK
<1> QED
  BY <1>6, <1>7, <1>8
     DEF TypeInv, TypeOK, Rooted, TasksSound, Done, output

LEMMA CompletionTypes ==
    ASSUME TypeInv, NEW w \in Workers,
           EmptyRange(w) \/ NothingToHandOn(w) \/ HandedOn(w)
    PROVE  TypeInv' /\ Busy(w) /\ Done(w)
<1>1. Busy(w) /\ Done(w)
  BY DEF EmptyRange, NothingToHandOn, HandedOn, At, Busy
<1>2. handed' \in [Kinds -> SUBSET Events]
  <2>1. CASE handed' = handed
    BY <2>1 DEF TypeInv, TypeOK
  <2>2. CASE HandedOn(w)
    <3>1. /\ Kind(w) \in Kinds
          /\ Span(w) \intersect worker[w].input \subseteq Events
      BY WorkerFacts, IdFacts DEF TypeInv, Kind
    <3> QED
      BY <2>2, <3>1 DEF HandedOn, TypeInv, TypeOK
  <2> QED
    BY <2>1, <2>2 DEF EmptyRange, NothingToHandOn
<1> QED
  BY <1>1, <1>2, DoneTypes

LEMMA MarkReplayedTypes ==
    ASSUME TypeInv, NEW w \in Workers, MarkReplayed(w)
    PROVE  TypeInv' /\ worker[w].task.of \in Ranges
<1> DEFINE r == worker[w].task.of
<1>1. Busy(w) /\ ClaimSound(w) /\ worker[w].task \in TaskIds
  BY WorkerFacts DEF MarkReplayed, Busy, At, TypeInv, AllSound
<1>2. r \in Ranges
  BY <1>1, IdFacts DEF ClaimSound, MarkReplayed, At
<1>3. head' = head /\ Leaves(w)
  BY DEF MarkReplayed
<1>4. TasksSound' /\ RowsStay
  <2>1. CASE task' = task
    BY <1>3, <2>1, TasksKept, TasksAreSound
  <2>2. CASE task' = QuietSource(r, range')
    BY <1>3, <2>2, QuietSourceForm, RowsCleared, TasksAreSound
  <2> QED
    BY <2>1, <2>2 DEF MarkReplayed
<1>5. /\ range' \in [Ranges -> RangeRow]
      /\ \A q \in Ranges : Recorded(range'[q]) => q.to <= head'
  <2>1. CASE range' = range
    BY <1>3, <2>1 DEF TypeInv, TypeOK, Rooted
  <2>2. CASE range' = [range EXCEPT ![r] = ReplayedRange(range[r])]
    <3>1. ReplayedRange(range[r]) \in RangeRow
      <4>1. range[r] \in RangeRow
        BY <1>2 DEF TypeInv, TypeOK
      <4> QED
        BY <4>1, ClosedRangeFacts
    <3>2. r.to <= head
      BY <1>1, <1>2, IdFacts DEF TypeInv, Rooted, ClaimSound
    <3>3. range \in [Ranges -> RangeRow]
      BY DEF TypeInv, TypeOK
    <3>4. /\ range' \in [Ranges -> RangeRow]
          /\ \A q \in Ranges \ {r} : range'[q] = range[q]
      BY <2>2, <3>1, <3>3
    <3> QED
      BY <1>3, <3>2, <3>4 DEF TypeInv, Rooted
  <2> QED
    BY <2>1, <2>2 DEF MarkReplayed
<1>6. worker' \in [Workers -> WorkerState] /\ AllSound'
  BY <1>3, <1>4, LeavesFacts, LeavesSound DEF TypeInv
<1> QED
  BY <1>2, <1>4, <1>5, <1>6
     DEF TypeInv, TypeOK, Rooted, TasksSound, MarkReplayed, output, history

(* A row of a task that was claimed, or is to be released. *)
LEMMA SameRangeWritten ==
    ASSUME TypeInv, NEW t \in TaskIds, NEW row \in TaskRow,
           task[t].status # "absent",
           task' = [task EXCEPT ![t] = row], head' = head,
           row.status # "absent", row.hw = task[t].hw
    PROVE  /\ TasksSound' /\ RowsStay
           /\ task'[t] = row
           /\ \A q \in TaskIds \ {t} : task'[q] = task[q]
<1>1. /\ head' \in Cursors /\ head <= head' /\ row.hw <= head'
      /\ t.of # Main => /\ t.of.to <= head
                        /\ task[Replay(t.of)].status # "absent"
  BY EventFacts DEF TypeInv, TypeOK, Rooted
<1> QED
  BY <1>1, RowWritten, TasksAreSound

LEMMA RetryLaterTypes ==
    ASSUME TypeInv, NEW w \in Workers, RetryLater(w)
    PROVE  TypeInv'
<1> DEFINE t == worker[w].task
           row == Retrying(task[t], worker[w].attempts + 1)
<1>1. /\ Busy(w) /\ ClaimSound(w) /\ t \in TaskIds /\ task[t] \in TaskRow
      /\ worker[w].attempts + 1 \in Nat
  BY WorkerFacts DEF RetryLater, Failing, Busy, At, TypeInv, AllSound
<1>2. /\ row \in TaskRow /\ row.hw = task[t].hw /\ row.status # "absent"
      /\ task[t].status # "absent"
  BY <1>1, RetryingFacts DEF ClaimSound
<1>3. task' = [task EXCEPT ![t] = row] /\ head' = head /\ Leaves(w)
  BY DEF RetryLater
<1> HIDE DEF t, row
<1>4. TasksSound' /\ RowsStay
  BY <1>1, <1>2, <1>3, SameRangeWritten
<1>5. worker' \in [Workers -> WorkerState] /\ AllSound'
  BY <1>3, <1>4, LeavesFacts, LeavesSound DEF TypeInv
<1>6. mishaps' \in 0 .. MaxMishaps
  BY MishapType DEF RetryLater, TypeInv
<1> QED
  BY <1>4, <1>5, <1>6
     DEF TypeInv, TypeOK, Rooted, TasksSound, RetryLater, output, history

LEMMA WaitTypes ==
    ASSUME TypeInv, NEW w \in Workers, Wait(w)
    PROVE  TypeInv'
<1> DEFINE t == worker[w].task
           row == Released(task[t])
<1>1. Busy(w) /\ ClaimSound(w) /\ t \in TaskIds /\ task[t] \in TaskRow
  BY WorkerFacts DEF Wait, Busy, At, TypeInv, AllSound
<1>2. /\ row \in TaskRow /\ row.hw = task[t].hw /\ row.status # "absent"
      /\ task[t].status # "absent"
  BY <1>1, ReleasedFacts DEF ClaimSound
<1>3. task' = [task EXCEPT ![t] = row] /\ head' = head /\ Leaves(w)
  BY DEF Wait
<1> HIDE DEF t, row
<1>4. TasksSound' /\ RowsStay
  BY <1>1, <1>2, <1>3, SameRangeWritten
<1>5. worker' \in [Workers -> WorkerState] /\ AllSound'
  BY <1>3, <1>4, LeavesFacts, LeavesSound DEF TypeInv
<1> QED
  BY <1>4, <1>5
     DEF TypeInv, TypeOK, Rooted, TasksSound, Wait, output, history

(* The range that an exhausted task leaves behind was captured. *)
LEMMA LostRange ==
    ASSUME TypeInv, NEW w \in Workers, Busy(w), worker[w].cursor < worker[w].hw,
           NEW lost, lost = [kind |-> Kind(w), from |-> worker[w].cursor + 1,
                             to |-> worker[w].hw]
    PROVE  lost \in Ranges /\ lost.kind = Kind(w) /\ lost.to <= head
           /\ lost.from .. lost.to = Span(w)
<1>1. /\ worker[w].cursor \in Nat /\ worker[w].hw \in Nat
      /\ worker[w].hw <= MaxEvent /\ worker[w].hw <= head
      /\ Kind(w) \in Kinds
  BY WorkerFacts, EventFacts, IdFacts
     DEF TypeInv, AllSound, ClaimSound, Kind
<1>2. /\ worker[w].cursor + 1 \in Events /\ worker[w].hw \in Events
      /\ worker[w].cursor + 1 <= worker[w].hw
  BY <1>1, EventFacts
<1> QED
  BY <1>1, <1>2 DEF Ranges, Span

LEMMA ExhaustTypes ==
    ASSUME TypeInv, NEW w \in Workers, NEW class \in FailureClasses,
           Exhaust(w, class)
    PROVE  TypeInv'
<1> DEFINE s == worker[w]
           t == worker[w].task
           row == ExhaustedTask(task[t], s.hw, s.attempts + 1, class)
           lost == [kind |-> s.task.kind, from |-> s.cursor + 1, to |-> s.hw]
<1>1. /\ Busy(w) /\ ClaimSound(w) /\ t \in TaskIds /\ task[t] \in TaskRow
      /\ s.attempts + 1 \in Nat /\ s.hw \in Cursors
  BY WorkerFacts DEF Exhaust, Failing, Busy, At, TypeInv, AllSound
<1>2. /\ row \in TaskRow /\ row.hw = task[t].hw /\ row.status # "absent"
      /\ task[t].status # "absent"
  BY <1>1, ExhaustedFacts DEF ClaimSound
<1>3. task' = [task EXCEPT ![t] = row] /\ head' = head /\ Leaves(w)
  BY DEF Exhaust
<1>4. TasksSound' /\ RowsStay
  <2> HIDE DEF t, row
  <2> QED
    BY <1>1, <1>2, <1>3, SameRangeWritten
<1>5. worker' \in [Workers -> WorkerState] /\ AllSound'
  BY <1>3, <1>4, LeavesFacts, LeavesSound DEF TypeInv
<1>6. mishaps' \in 0 .. MaxMishaps
  BY MishapType DEF Exhaust, TypeInv
<1>7. /\ range' \in [Ranges -> RangeRow]
      /\ \A q \in Ranges : Recorded(range'[q]) => q.to <= head'
      /\ lapsed' \subseteq Ranges
  <2>1. range \in [Ranges -> RangeRow] /\ lapsed \subseteq Ranges
    BY DEF TypeInv, TypeOK
  <2>2. CASE t.of # Main
    <3>1. t.of \in Ranges /\ t.of.to <= head
      BY <1>1, <2>2, IdFacts DEF TypeInv, Rooted, ClaimSound
    <3>2. FailedRange(range[t.of], s.attempts + 1, class) \in RangeRow
      BY <1>1, <2>1, <3>1, FailingRangeFacts
    <3>3. range' = [range EXCEPT ![t.of] =
                      FailedRange(range[t.of], s.attempts + 1, class)]
      BY <2>2 DEF Exhaust
    <3>4. /\ range' \in [Ranges -> RangeRow]
          /\ \A q \in Ranges \ {t.of} : range'[q] = range[q]
      BY <2>1, <3>2, <3>3
    <3>5. lapsed' \subseteq Ranges
      BY <2>1, <3>1 DEF Exhaust
    <3> QED
      BY <1>3, <3>1, <3>4, <3>5 DEF TypeInv, Rooted
  <2>3. CASE t.of = Main /\ s.cursor < s.hw
    <3>1. lost \in Ranges /\ lost.to <= head
      BY <1>1, <2>3, LostRange DEF Kind
    <3>2. RecordedRange(range[lost], class) \in RangeRow
      <4> HIDE DEF lost
      <4> QED
        BY <2>1, <3>1, FailingRangeFacts
    <3>3. range' = [range EXCEPT ![lost] = RecordedRange(range[lost], class)]
      BY <2>3 DEF Exhaust
    <3> HIDE DEF lost
    <3>4. /\ range' \in [Ranges -> RangeRow]
          /\ \A q \in Ranges \ {lost} : range'[q] = range[q]
      BY <2>1, <3>2, <3>3
    <3>5. lapsed' = lapsed
      BY <2>3 DEF Exhaust
    <3> QED
      BY <1>3, <2>1, <3>1, <3>4, <3>5 DEF TypeInv, Rooted
  <2>4. CASE t.of = Main /\ ~(s.cursor < s.hw)
    <3>1. range' = range /\ lapsed' = lapsed
      BY <2>4 DEF Exhaust
    <3> QED
      BY <1>3, <2>1, <3>1 DEF TypeInv, Rooted
  <2> QED
    BY <2>2, <2>3, <2>4
<1> QED
  BY <1>4, <1>5, <1>6, <1>7
     DEF TypeInv, TypeOK, Rooted, TasksSound, Exhaust, output

LEMMA LeavingTypes ==
    ASSUME TypeInv, NEW w \in Workers, NotLeased(w) \/ Crash(w)
    PROVE  TypeInv'
<1>1. head' = head /\ task' = task /\ Leaves(w)
  BY DEF NotLeased, Crash
<1>2. TasksSound' /\ RowsStay
  BY <1>1, TasksKept, TasksAreSound
<1>3. worker' \in [Workers -> WorkerState] /\ AllSound'
  BY <1>1, <1>2, LeavesFacts, LeavesSound DEF TypeInv
<1>4. mishaps' \in 0 .. MaxMishaps
  BY MishapType DEF NotLeased, Crash, TypeInv
<1> QED
  BY <1>2, <1>3, <1>4
     DEF TypeInv, TypeOK, Rooted, TasksSound, NotLeased, Crash, output, history

LEMMA ReleaseTypes ==
    ASSUME TypeInv, NEW t \in TaskIds, ReleaseExpired(t)
    PROVE  TypeInv'
<1>1. task[t] \in TaskRow /\ task[t].status # "absent"
  BY DEF ReleaseExpired, TypeInv, TypeOK
<1>2. /\ Released(task[t]) \in TaskRow
      /\ Released(task[t]).hw = task[t].hw
      /\ Released(task[t]).status # "absent"
  BY <1>1, ReleasedFacts
<1>3. /\ task' = [task EXCEPT ![t] = Released(task[t])] /\ head' = head
      /\ worker' = worker
  BY DEF ReleaseExpired
<1>4. TasksSound' /\ RowsStay
  BY <1>1, <1>2, <1>3, SameRangeWritten
<1>5. AllSound'
  BY <1>3, <1>4, AllSoundKept, EventFacts DEF TypeInv, TypeOK
<1>6. mishaps' \in 0 .. MaxMishaps
  BY MishapType DEF ReleaseExpired, TypeInv
<1> QED
  BY <1>4, <1>5, <1>6
     DEF TypeInv, TypeOK, Rooted, TasksSound, ReleaseExpired, output, history

LEMMA RequeueTypes ==
    ASSUME TypeInv, NEW r \in Ranges, AutoRetry(r) \/ RetryRange(r)
    PROVE  /\ TypeInv' /\ Requeue(r)
           /\ ~Live(task[Replay(r)])
           /\ \A t \in Linked(r) : ~Live(task[t])
<1>1. /\ Requeue(r) /\ Recorded(range[r])
      /\ \A t \in Linked(r) : ~Live(task[t])
  BY DEF AutoRetry, RetryRange, Retryable, Recorded
<1> DEFINE t == Replay(r)
           row == ReplayTask(task[t], r.from, r.to)
<1>2. /\ t \in TaskIds /\ t.of = r /\ r.to \in Nat
      /\ task[t] \in TaskRow
      /\ range[r] \in RangeRow /\ range \in [Ranges -> RangeRow]
      /\ r.to <= head
  BY <1>1, IdFacts, EventFacts DEF TypeInv, TypeOK, Rooted
<1>3. ~Live(task[t])
  BY <1>1, <1>2 DEF Linked
<1>4. row \in TaskRow /\ row.hw = r.to /\ row.status # "absent"
  BY <1>2, <1>3, ReplayTaskFacts
<1>5. /\ task' = [task EXCEPT ![t] = row] /\ head' = head
      /\ range' = [range EXCEPT ![r] = RequeuedRange(range[r])]
      /\ worker' = worker
  BY <1>1 DEF Requeue
<1>6. head' \in Cursors /\ head <= head'
  BY <1>5, EventFacts DEF TypeInv, TypeOK
<1>7. TasksSound' /\ RowsStay
  <2> HIDE DEF row
  <2> QED
    BY <1>2, <1>4, <1>5, <1>6, RowWritten, TasksAreSound
<1>8. AllSound'
  BY <1>5, <1>6, <1>7, AllSoundKept, EventFacts DEF TypeInv
<1>9. /\ range' \in [Ranges -> RangeRow]
      /\ \A q \in Ranges \ {r} : range'[q] = range[q]
  BY <1>2, <1>5, RequeuedRangeFacts
<1>10. \A q \in Ranges : Recorded(range'[q]) => q.to <= head'
  BY <1>2, <1>5, <1>9 DEF TypeInv, Rooted
<1> QED
  BY <1>1, <1>3, <1>7, <1>8, <1>9, <1>10
     DEF TypeInv, TypeOK, Rooted, TasksSound, Requeue, output, history

LEMMA QuarantineTypes ==
    ASSUME TypeInv, NEW r \in Ranges, QuarantineRange(r)
    PROVE  TypeInv'
<1> DEFINE row == [range[r] EXCEPT !.status = "quarantined"]
<1>1. /\ range \in [Ranges -> RangeRow] /\ range[r] \in RangeRow
      /\ Recorded(range[r])
      /\ range' = [range EXCEPT ![r] = row]
      /\ task' = QuietSource(r, range')
      /\ head' = head /\ worker' = worker
  BY DEF QuarantineRange, Retryable, Recorded, TypeInv, TypeOK
<1>2. row \in RangeRow
  BY <1>1, ClosedRangeFacts
<1>3. TasksSound' /\ RowsStay
  BY <1>1, QuietSourceForm, RowsCleared, TasksAreSound
<1>4. /\ range' \in [Ranges -> RangeRow]
      /\ \A q \in Ranges \ {r} : range'[q] = range[q]
  <2> HIDE DEF row
  <2> QED
    BY <1>1, <1>2
<1>5. \A q \in Ranges : Recorded(range'[q]) => q.to <= head'
  BY <1>1, <1>4 DEF TypeInv, Rooted
<1>6. AllSound'
  BY <1>1, <1>3, AllSoundKept, EventFacts DEF TypeInv, TypeOK
<1> QED
  BY <1>3, <1>4, <1>5, <1>6
     DEF TypeInv, TypeOK, Rooted, TasksSound, QuarantineRange, output, history

LEMMA ReviewTypes ==
    ASSUME TypeInv, Review
    PROVE  TypeInv'
<1>1. TasksSound' /\ RowsStay /\ head' = head /\ worker' = worker
  BY TasksAreSound, TasksKept DEF Review
<1>2. AllSound'
  BY <1>1, AllSoundKept, EventFacts DEF TypeInv, TypeOK
<1>3. review' \subseteq Events
  BY DEF Review, TypeInv, TypeOK
<1> QED
  BY <1>1, <1>2, <1>3
     DEF TypeInv, TypeOK, Rooted, TasksSound, Review, history

LEMMA StutterTypes ==
    ASSUME TypeInv, UNCHANGED vars
    PROVE  TypeInv'
BY DEF TypeInv, TypeOK, Rooted, AllSound, ClaimSound, Span, Busy, At, vars

LEMMA InitTypes ==
    ASSUME Init
    PROVE  TypeInv
<1>1. NoTask \in TaskRow /\ NoRange \in RangeRow
  BY EventFacts DEF NoTask, TaskRow, TaskStatus, NoRange, RangeRow, RangeStatus
<1>2. head \in Cursors /\ mishaps \in 0 .. MaxMishaps
  BY EventFacts, PipelineAssumption DEF Init
<1>3. \A t \in TaskIds : task[t].hw <= head /\ task[t].status = "absent"
  BY DEF Init, NoTask
<1>4. \A r \in Ranges : ~Recorded(range[r])
  BY DEF Init, NoRange, Recorded
<1>5. \A w \in Workers : ~Busy(w)
  BY IdleType DEF Init, Busy, At
<1>6. TypeOK
  BY <1>1, <1>2, <1>3, IdleType DEF Init, TypeOK
<1> QED
  BY <1>3, <1>4, <1>5, <1>6 DEF TypeInv, Rooted, AllSound, Init

LEMMA TypeStep ==
    ASSUME TypeInv, [Next]_vars
    PROVE  TypeInv'
<1>1. ASSUME NEW w \in Workers, Works(w) PROVE TypeInv'
  BY <1>1, LoadTypes, WriteTypes, FollowupTypes, CompletionTypes,
     MarkReplayedTypes, RetryLaterTypes, ExhaustTypes, WaitTypes, LeavingTypes
     DEF Works
<1> QED
  BY <1>1, CaptureTypes, ClaimTypes, LeavingTypes, ReleaseTypes, RequeueTypes,
     QuarantineTypes, ReviewTypes, StutterTypes
     DEF Next

(* First layer: types, and every row, claim and history entry speaks of    *)
(* events that were captured.                                              *)
THEOREM TypesHold == Spec => []TypeInv
BY InitTypes, TypeStep, PTL DEF Spec

(* Every table, claim and history variable keeps its type, whatever the    *)
(* processes, the operator and the reviewer do; no row claims an event     *)
(* that was not captured.                                                  *)
THEOREM PipelineTypes == Spec => []TypeOK
BY TypesHold, PTL DEF TypeInv

-----------------------------------------------------------------------------
(* The rows and claims of a range *)

(* The tasks of a range that end where it ends: its replay task, and the   *)
(* memory task of an observation range.  What the graph task of a range    *)
(* reads may reach beyond it.                                              *)
Tied(t) == t.of # Main /\ (t.kind # Graphing \/ t = Replay(t.of))

RowFits(t, row) ==
    /\ Tied(t) => /\ row.hw <= t.of.to
                  /\ row.status # "absent" => /\ row.hw = t.of.to
                                              /\ t.of.from <= row.cursor + 1
                  /\ t.kind = Observing /\ Live(row) =>
                       row.cursor + 1 = t.of.from
    /\ row.status = "failed" => row.hw <= row.cursor

(* The input of a claim has an event of the claim, and beyond the claim it *)
(* has no gaps; the run ends with the claim or with its input.             *)
ClaimFits(s) ==
    /\ Tied(s.task) => /\ s.hw = s.task.of.to
                       /\ s.task.of.from <= s.cursor + 1
                       /\ s.task.kind = Observing =>
                            s.cursor + 1 = s.task.of.from
    /\ s.pc \in {"loaded", "written", "handed"} =>
         /\ \E x \in s.input : s.cursor < x /\ x <= s.hw
         /\ \A x \in s.input : \A e \in Events :
              s.hw < e /\ e <= x => e \in s.input
    /\ s.pc \in {"running", "loaded"} \/ s.task.kind = Observing =>
         s.upto = s.hw
    /\ \/ s.upto = s.hw
       \/ s.upto \in s.input /\ \A x \in s.input : x <= s.upto

(* The row a process holds still starts where the process claimed it. *)
Current(w, s, row) ==
    row.status = "processing" /\ row.owner = w =>
      /\ s.pc # "marking"
      /\ row.cursor = s.cursor
      /\ s.hw <= row.hw

RowsFit == \A t \in TaskIds : RowFits(t, task[t])

ClaimsFit ==
    \A w \in Workers : Busy(w) => /\ ClaimFits(worker[w])
                                  /\ Current(w, worker[w], task[worker[w].task])

Shape == TypeInv /\ RowsFit /\ ClaimsFit

(* A step that is no claim gives a row to no process. *)
Holds(old, new) ==
    new.status = "processing" => /\ old.status = "processing"
                                 /\ new.owner = old.owner
                                 /\ new.cursor = old.cursor
                                 /\ old.hw <= new.hw

RowsHold == \A t \in TaskIds : Holds(task[t], task'[t])

LEMMA HoldsSame ==
    ASSUME NEW row \in TaskRow
    PROVE  Holds(row, row)
BY EventFacts DEF Holds, TaskRow

LEMMA OneRowFits ==
    ASSUME TypeInv, RowsFit, NEW t \in TaskIds, NEW row \in TaskRow,
           task' = [task EXCEPT ![t] = row],
           RowFits(t, row), Holds(task[t], row)
    PROVE  RowsFit' /\ RowsHold
<1>1. task \in [TaskIds -> TaskRow]
  BY DEF TypeInv, TypeOK
<1>2. task'[t] = row /\ \A q \in TaskIds \ {t} : task'[q] = task[q]
  BY <1>1
<1>3. \A q \in TaskIds : Holds(task[q], task[q])
  BY <1>1, HoldsSame
<1> QED
  BY <1>2, <1>3 DEF RowsFit, RowsHold

LEMMA SameRowsFit ==
    ASSUME TypeInv, RowsFit, task' = task
    PROVE  RowsFit' /\ RowsHold
<1>1. \A q \in TaskIds : Holds(task[q], task[q])
  BY HoldsSame DEF TypeInv, TypeOK
<1> QED
  BY <1>1 DEF RowsFit, RowsHold

LEMMA ClearedRowsFit ==
    ASSUME TypeInv, RowsFit, head' = head, NEW r, task' = QuietSource(r, range')
    PROVE  RowsFit' /\ RowsHold
<1> DEFINE C == Quieted(r, range')
<1>1. \A t \in TaskIds :
        /\ task'[t].cursor = task[t].cursor
        /\ task'[t].hw = task[t].hw
        /\ Live(task'[t]) <=> Live(task[t])
        /\ Live(task[t]) => task'[t] = task[t]
        /\ task[t].status # "failed" => task'[t] = task[t]
        /\ task'[t].status = "failed" => task'[t] = task[t]
  BY QuietSourceForm, RowsCleared, TasksAreSound
<1> SUFFICES ASSUME NEW t \in TaskIds
             PROVE  RowFits(t, task'[t]) /\ Holds(task[t], task'[t])
  BY DEF RowsFit, RowsHold
<1>2. RowFits(t, task[t]) /\ Holds(task[t], task[t])
  BY HoldsSame DEF RowsFit, TypeInv, TypeOK
<1>3. CASE task'[t] = task[t]
  BY <1>2, <1>3
<1>4. CASE task'[t] # task[t]
  <2>1. /\ task[t].status = "failed" /\ task'[t].status # "failed"
        /\ task'[t].cursor = task[t].cursor
        /\ task'[t].hw = task[t].hw
        /\ Live(task'[t]) <=> Live(task[t])
    BY <1>1, <1>4
  <2> QED
    BY <1>2, <2>1 DEF RowFits, Holds, Live
<1> QED
  BY <1>3, <1>4

(* A claim stays current while nobody writes its row. *)
LEMMA CurrentStays ==
    ASSUME TypeInv, ClaimsFit, RowsHold, TypeInv', NEW w \in Workers, Busy(w),
           worker'[w].task = worker[w].task,
           worker'[w].cursor = worker[w].cursor,
           worker'[w].hw = worker[w].hw, worker'[w].pc # "marking"
    PROVE  Current(w, worker'[w], task'[worker'[w].task])
<1> DEFINE t == worker[w].task
<1>1. Current(w, worker[w], task[t])
  BY DEF ClaimsFit
<1>2. /\ t \in TaskIds
      /\ worker[w].hw \in Nat /\ task[t].hw \in Nat /\ task'[t].hw \in Nat
  BY WorkerFacts, EventFacts DEF TypeInv, TypeOK, TaskRow
<1>3. Holds(task[t], task'[t])
  BY <1>2 DEF RowsHold
<1> QED
  BY <1>1, <1>2, <1>3 DEF Current, Holds

LEMMA OtherClaimFits ==
    ASSUME TypeInv, ClaimsFit, RowsHold, TypeInv', NEW v \in Workers,
           worker'[v] = worker[v], Busy(v)'
    PROVE  /\ ClaimFits(worker'[v])
           /\ Current(v, worker'[v], task'[worker'[v].task])
<1> DEFINE t == worker[v].task
<1>1. Current(v, worker[v], task[t]) /\ ClaimFits(worker[v])
  BY DEF ClaimsFit, Busy, At
<1>2. /\ t \in TaskIds
      /\ worker[v].hw \in Nat /\ task[t].hw \in Nat /\ task'[t].hw \in Nat
  BY WorkerFacts, EventFacts DEF TypeInv, TypeOK, TaskRow
<1>3. Holds(task[t], task'[t])
  BY <1>2 DEF RowsHold
<1>4. Current(v, worker[v], task'[t])
  BY <1>1, <1>2, <1>3 DEF Current, Holds
<1> QED
  BY <1>1, <1>4

LEMMA ClaimsFitStep ==
    ASSUME TypeInv, ClaimsFit, RowsHold, TypeInv', NEW w \in Workers,
           \A v \in Workers \ {w} : worker'[v] = worker[v],
           Busy(w)' => /\ ClaimFits(worker'[w])
                       /\ Current(w, worker'[w], task'[worker'[w].task])
    PROVE  ClaimsFit'
<1> SUFFICES ASSUME NEW v \in Workers, Busy(v)'
             PROVE  /\ ClaimFits(worker'[v])
                    /\ Current(v, worker'[v], task'[worker'[v].task])
  BY DEF ClaimsFit
<1>1. CASE v # w
  BY <1>1, OtherClaimFits
<1> QED
  BY <1>1

LEMMA ClaimsFitKept ==
    ASSUME TypeInv, ClaimsFit, RowsHold, TypeInv', worker' = worker
    PROVE  ClaimsFit'
BY OtherClaimFits DEF ClaimsFit

LEMMA LeavesFit ==
    ASSUME Shape, TypeInv', RowsHold, NEW w \in Workers, Leaves(w)
    PROVE  ClaimsFit'
<1>1. /\ \A v \in Workers \ {w} : worker'[v] = worker[v]
      /\ ~Busy(w)'
  BY LeavesFacts DEF Shape, TypeInv
<1> QED
  BY <1>1, ClaimsFitStep DEF Shape

LEMMA GoesFit ==
    ASSUME Shape, TypeInv', RowsHold, NEW w \in Workers, Busy(w),
           NEW pc \in {"written", "handed", "marking"}, Goes(w, pc),
           pc # "marking" => worker[w].pc \in {"loaded", "written", "handed"},
           pc = "marking" => task'[worker[w].task].status # "processing"
    PROVE  ClaimsFit'
<1>1. /\ worker'[w].pc = pc
      /\ worker'[w].task = worker[w].task
      /\ worker'[w].cursor = worker[w].cursor
      /\ worker'[w].hw = worker[w].hw
      /\ worker'[w].input = worker[w].input
      /\ worker'[w].upto = worker[w].upto
      /\ \A v \in Workers \ {w} : worker'[v] = worker[v]
  BY GoesFacts DEF Shape, TypeInv, Places
<1>2. ClaimFits(worker[w])
  BY DEF Shape, ClaimsFit
<1>3. ClaimFits(worker'[w])
  BY <1>1, <1>2 DEF ClaimFits
<1>4. Current(w, worker'[w], task'[worker'[w].task])
  <2>1. CASE pc = "marking"
    BY <1>1, <2>1 DEF Current
  <2>2. CASE pc # "marking"
    BY <1>1, <2>2, CurrentStays DEF Shape
  <2> QED
    BY <2>1, <2>2
<1> QED
  BY <1>1, <1>3, <1>4, ClaimsFitStep DEF Shape

LEMMA CaptureShape ==
    ASSUME Shape, CaptureEvent
    PROVE  Shape' /\ RowsHold
<1> DEFINE p == Primary(Observing)
           row == Coalesced(task[p], head + 1)
<1>1. p \in TaskIds /\ ~Tied(p)
  BY IdFacts, KindFacts DEF Tied
<1>2. task[p] \in TaskRow /\ head + 1 \in Cursors /\ task[p].hw \in Nat
  BY <1>1, EventFacts DEF Shape, TypeInv, TypeOK, CaptureEvent, TaskRow
<1>3. /\ row \in TaskRow
      /\ row.cursor = task[p].cursor
      /\ row.hw = Larger(task[p].hw, head + 1)
      /\ row.owner = task[p].owner
      /\ Live(row)
      /\ Live(task[p]) => row.status = task[p].status
      /\ ~Live(task[p]) => row.status = "pending"
  BY <1>2, CoalescedFacts
<1>4. task' = [task EXCEPT ![p] = row]
  BY DEF CaptureEvent
<1> HIDE DEF p, row
<1>5. RowFits(p, row)
  BY <1>1, <1>3 DEF RowFits, Live
<1>6. Holds(task[p], row)
  <2>1. task[p].hw <= row.hw
    BY <1>2, <1>3, EventFacts DEF Larger
  <2> QED
    BY <1>3, <2>1 DEF Holds, Live
<1>7. RowsFit' /\ RowsHold
  BY <1>1, <1>3, <1>4, <1>5, <1>6, OneRowFits DEF Shape
<1>8. TypeInv' /\ worker' = worker
  BY CaptureTypes DEF Shape, CaptureEvent
<1> QED
  BY <1>7, <1>8, ClaimsFitKept DEF Shape

LEMMA ClaimShape ==
    ASSUME Shape, NEW w \in Workers, NEW t \in TaskIds, ClaimNext(w, t)
    PROVE  Shape'
<1> DEFINE s == [pc |-> "running", task |-> t, cursor |-> task[t].cursor,
                 hw |-> task[t].hw, attempts |-> task[t].attempts,
                 input |-> {}, upto |-> task[t].hw]
<1>1. /\ task[t] \in TaskRow /\ task[t].status = "pending" /\ Live(task[t])
      /\ RowFits(t, task[t]) /\ task[t].hw \in Nat
      /\ task \in [TaskIds -> TaskRow]
      /\ task' = [task EXCEPT ![t] = Claimed(task[t], w)]
      /\ worker' = [worker EXCEPT ![w] = s]
      /\ worker \in [Workers -> WorkerState]
  BY EventFacts DEF Shape, TypeInv, TypeOK, RowsFit, ClaimNext, Live, TaskRow
<1> DEFINE row == Claimed(task[t], w)
<1>2. /\ row \in TaskRow /\ row.cursor = task[t].cursor /\ row.hw = task[t].hw
      /\ row.status = "processing" /\ row.owner = w /\ Live(row)
  BY <1>1, ClaimedFacts DEF Live
<1> HIDE DEF row
<1>3. /\ task'[t] = row /\ \A q \in TaskIds \ {t} : task'[q] = task[q]
      /\ worker'[w] = s /\ \A v \in Workers \ {w} : worker'[v] = worker[v]
  BY <1>1 DEF row
<1>4. RowsFit'
  <2>1. RowFits(t, row)
    BY <1>1, <1>2 DEF RowFits
  <2> QED
    BY <1>3, <2>1 DEF RowsFit, Shape
<1>5. TypeInv'
  BY ClaimTypes DEF Shape
<1>6. ASSUME NEW v \in Workers, Busy(v)'
      PROVE  ClaimFits(worker'[v]) /\ Current(v, worker'[v], task'[worker'[v].task])
  <2>1. CASE v = w
    <3>1. ClaimFits(s)
      BY <1>1 DEF ClaimFits, RowFits
    <3>2. Current(w, s, row)
      BY <1>1, <1>2 DEF Current
    <3> QED
      BY <1>3, <2>1, <3>1, <3>2
  <2>2. CASE v # w
    <3>1. worker'[v] = worker[v] /\ Busy(v)
      BY <1>3, <1>6, <2>2 DEF Busy, At
    <3>2. ClaimFits(worker[v]) /\ Current(v, worker[v], task[worker[v].task])
      BY <3>1 DEF Shape, ClaimsFit
    <3>3. Current(v, worker[v], task'[worker[v].task])
      <4>1. worker[v].task \in TaskIds
        BY WorkerFacts DEF Shape, TypeInv
      <4> QED
        BY <1>2, <1>3, <2>2, <3>2, <4>1 DEF Current
    <3> QED
      BY <3>1, <3>2, <3>3
  <2> QED
    BY <2>1, <2>2
<1> QED
  BY <1>4, <1>5, <1>6 DEF Shape, ClaimsFit

(* What a later stage reads reaches from the claim on without a gap: an    *)
(* observation cites a run of events, and it cites one of the claim.       *)
LEMMA InputReach ==
    ASSUME TypeInv, NEW w \in Workers, Busy(w), Input(w) # {}
    PROVE  /\ \E x \in Input(w) : worker[w].cursor < x /\ x <= worker[w].hw
           /\ \A x \in Input(w) : \A e \in Events :
                worker[w].hw < e /\ e <= x => e \in Input(w)
<1>1. /\ \A e : e \in Span(w) <=>
           e \in Nat /\ worker[w].cursor < e /\ e <= worker[w].hw
      /\ worker[w].hw \in Nat
  BY SpanFacts, WorkerFacts, EventFacts DEF TypeInv
<1>2. CASE Kind(w) = Observing
  <2>1. Input(w) = Span(w)
    BY <1>2 DEF Input
  <2>2. \A x \in Span(w), e \in Events : ~(worker[w].hw < e /\ e <= x)
    BY <1>1, EventFacts
  <2> QED
    BY <1>1, <2>1, <2>2
<1>3. CASE Kind(w) # Observing
  <2>1. Input(w) = Cited(w)
    BY <1>3 DEF Input
  <2>2. PICK i \in observed : (i.from .. i.to) \intersect Span(w) # {}
    BY <2>1 DEF Cited
  <2>3. PICK x \in i.from .. i.to : x \in Span(w)
    BY <2>2
  <2>4. x \in Cited(w)
    BY <2>2, <2>3 DEF Cited
  <2>5. ASSUME NEW y \in Cited(w), NEW e \in Events,
               worker[w].hw < e, e <= y
        PROVE  e \in Cited(w)
    <3>1. PICK j \in observed : /\ y \in j.from .. j.to
                                /\ (j.from .. j.to) \intersect Span(w) # {}
      BY DEF Cited
    <3>2. PICK z \in j.from .. j.to : z \in Span(w)
      BY <3>1
    <3>3. j.from \in Nat /\ j.to \in Nat
      BY EventFacts DEF TypeInv, TypeOK, Claims
    <3>4. e \in j.from .. j.to
      BY <1>1, <2>5, <3>1, <3>2, <3>3, EventFacts
    <3> QED
      BY <3>1, <3>4 DEF Cited
  <2> QED
    BY <1>1, <2>1, <2>3, <2>4, <2>5
<1> QED
  BY <1>2, <1>3

LEMMA LoadShape ==
    ASSUME Shape, NEW w \in Workers, Load(w)
    PROVE  Shape' /\ RowsHold
<1>1. /\ Busy(w) /\ worker[w] \in WorkerState /\ worker[w].pc = "running"
      /\ task' = task /\ TypeInv' /\ TypeInv
  BY WorkerFacts, LoadTypes DEF Load, Busy, At, Shape, TypeInv
<1>2. RowsFit' /\ RowsHold
  BY <1>1, SameRowsFit DEF Shape
<1> DEFINE s == [worker[w] EXCEPT !.pc = "loaded", !.input = Input(w)]
<1>3. /\ worker' = [worker EXCEPT ![w] = s]
      /\ worker \in [Workers -> WorkerState]
  BY DEF Load, Shape, TypeInv, TypeOK
<1>4. worker'[w] = s /\ \A v \in Workers \ {w} : worker'[v] = worker[v]
  BY <1>3
<1>5. /\ s.pc = "loaded" /\ s.task = worker[w].task
      /\ s.cursor = worker[w].cursor /\ s.hw = worker[w].hw
      /\ s.upto = worker[w].upto /\ s.input = Input(w)
  BY <1>1 DEF WorkerState
<1>6. ClaimFits(worker[w])
  BY <1>1 DEF Shape, ClaimsFit
<1>7. ClaimFits(s)
  BY <1>1, <1>5, <1>6, InputReach DEF ClaimFits, Load
<1>8. Current(w, worker'[w], task'[worker'[w].task])
  BY <1>1, <1>2, <1>4, <1>5, CurrentStays DEF Shape
<1> QED
  BY <1>1, <1>2, <1>4, <1>7, <1>8, ClaimsFitStep DEF Shape

LEMMA WriteShape ==
    ASSUME Shape, NEW w \in Workers,
           WriteObservations(w) \/ WriteCandidates(w) \/ NoCandidates(w)
    PROVE  Shape' /\ RowsHold
<1>1. /\ Busy(w) /\ worker[w] \in WorkerState /\ worker[w].pc = "loaded"
      /\ task' = task /\ TypeInv' /\ TypeInv
  BY WorkerFacts, WriteTypes
     DEF WriteObservations, WriteCandidates, NoCandidates, Busy, At, Shape,
         TypeInv
<1>2. RowsFit' /\ RowsHold
  BY <1>1, SameRowsFit DEF Shape
<1>3. ClaimsFit'
  <2>1. CASE Goes(w, "written")
    BY <1>1, <1>2, <2>1, GoesFit
  <2>2. CASE WriteCandidates(w)
    <3> DEFINE s == [worker[w] EXCEPT !.pc = "written",
                                      !.upto = Max(worker[w].input)]
    <3>1. /\ worker' = [worker EXCEPT ![w] = s]
          /\ worker \in [Workers -> WorkerState]
      BY <2>2 DEF WriteCandidates, Shape, TypeInv, TypeOK
    <3>2. worker'[w] = s /\ \A v \in Workers \ {w} : worker'[v] = worker[v]
      BY <3>1
    <3>3. /\ s.pc = "written" /\ s.task = worker[w].task
          /\ s.cursor = worker[w].cursor /\ s.hw = worker[w].hw
          /\ s.upto = Max(worker[w].input) /\ s.input = worker[w].input
      BY <1>1 DEF WorkerState
    <3>4. ClaimFits(worker[w])
      BY <1>1 DEF Shape, ClaimsFit
    <3>5. worker[w].input \subseteq Events /\ worker[w].input # {}
      BY <1>1, WorkerFacts DEF TypeInv, AllSound, ClaimSound
    <3>6. /\ Max(worker[w].input) \in worker[w].input
          /\ \A x \in worker[w].input : x <= Max(worker[w].input)
      BY <3>5, MaxFacts
    <3>7. s.task.kind # Observing
      BY <2>2, <3>3, KindFacts DEF WriteCandidates, Kind
    <3>8. ClaimFits(s)
      BY <1>1, <3>3, <3>4, <3>6, <3>7 DEF ClaimFits
    <3>9. Current(w, worker'[w], task'[worker'[w].task])
      BY <1>1, <1>2, <3>2, <3>3, CurrentStays DEF Shape
    <3> QED
      BY <1>1, <1>2, <3>2, <3>8, <3>9, ClaimsFitStep DEF Shape
  <2> QED
    BY <2>1, <2>2 DEF WriteObservations, NoCandidates
<1> QED
  BY <1>1, <1>2, <1>3 DEF Shape

LEMMA FollowupShape ==
    ASSUME Shape, NEW w \in Workers, Followup(w)
    PROVE  Shape' /\ RowsHold
<1> DEFINE s == worker[w]
           t == NextStage(worker[w].task)
           row == FollowupTask(task[t], worker[w])
           m == Max(worker[w].input)
<1>1. /\ Busy(w) /\ s.pc = "written" /\ ClaimSound(w) /\ ClaimFits(s)
      /\ s \in WorkerState /\ s.task \in TaskIds
      /\ s.input # {} /\ s.input \subseteq Events /\ s.task.kind # Graphing
      /\ TypeInv /\ TypeInv' /\ t \in TaskIds
  BY WorkerFacts, FollowupTypes
     DEF Followup, Busy, At, Shape, TypeInv, AllSound, ClaimSound, ClaimsFit
<1>2. t.of = s.task.of /\ t.kind = s.task.kind + 1
  BY <1>1, IdFacts
<1>3. /\ task[t] \in TaskRow /\ task[t].hw \in Nat /\ RowFits(t, task[t])
      /\ m \in Nat /\ m \in s.input /\ \A x \in s.input : x <= m
      /\ s.cursor \in Nat /\ s.hw \in Nat
  BY <1>1, MaxFacts, WorkerFacts, EventFacts
     DEF Shape, RowsFit, TypeInv, TypeOK, TaskRow
<1>4. /\ row \in TaskRow
      /\ row.hw = Larger(task[t].hw, m)
      /\ row.owner = task[t].owner
      /\ Live(row)
      /\ Live(task[t]) => row.status = task[t].status
      /\ ~Live(task[t]) => row.status = "pending"
      /\ Live(task[t]) \/ s.task.of = Main => row.cursor = task[t].cursor
      /\ ~Live(task[t]) /\ s.task.of # Main => row.cursor = s.cursor
  BY <1>1, <1>3, FollowupTaskFacts
<1>5. task' = [task EXCEPT ![t] = row] /\ Goes(w, "handed")
  BY DEF Followup
<1> HIDE DEF t, row, m
<1>6. RowFits(t, row)
  <2>1. CASE Tied(t)
    <3>1. s.task.of # Main /\ t.kind # Graphing
      <4>1. t.of # Main /\ (t.kind # Graphing \/ t = Replay(t.of))
        BY <2>1 DEF Tied
      <4>2. t.of \in Ranges /\ t.of.kind <= s.task.kind /\ Replay(t.of).kind = t.of.kind
        BY <1>1, <1>2, <4>1, IdFacts
      <4>3. s.task.kind \in Nat /\ t.of.kind \in Nat
        BY <1>1, <4>2, IdFacts, KindFacts
      <4>4. t # Replay(t.of)
        BY <1>2, <4>2, <4>3
      <4> QED
        BY <1>2, <4>1, <4>4
    <3>2. s.task.kind = Observing
      BY <1>1, <1>2, <3>1, IdFacts, KindFacts
    <3>3. Tied(s.task)
      BY <1>1, <3>1 DEF Tied
    <3>4. s.hw = t.of.to /\ s.cursor + 1 = t.of.from
      BY <1>1, <1>2, <3>2, <3>3 DEF ClaimFits
    <3>5. s.input = Span(w)
      BY <1>1, <3>2 DEF ClaimSound
    <3>6. m = t.of.to
      <4>1. s.cursor < m /\ m <= s.hw
        BY <1>1, <1>3, <3>5, SpanFacts
      <4>2. s.hw \in s.input
        BY <1>1, <1>3, <3>5, <4>1, SpanFacts
      <4>3. s.hw <= m
        BY <1>3, <4>2
      <4> QED
        BY <1>3, <3>4, <4>1, <4>3
    <3>7. task[t].hw <= t.of.to
      BY <1>3, <2>1 DEF RowFits
    <3>8. row.hw = t.of.to
      BY <1>3, <1>4, <3>6, <3>7 DEF Larger
    <3>9. t.of.from <= row.cursor + 1
      <4>1. t.of.from \in Nat
        BY <1>3, <3>4
      <4>2. CASE Live(task[t])
        <5>1. task[t].status # "absent"
          BY <4>2 DEF Live
        <5> QED
          BY <1>3, <1>4, <2>1, <4>2, <5>1 DEF RowFits
      <4>3. CASE ~Live(task[t])
        BY <1>4, <3>1, <3>4, <4>1, <4>3
      <4> QED
        BY <4>2, <4>3
    <3>10. t.kind # Observing
      BY <1>2, <3>2, KindFacts
    <3>11. row.hw <= t.of.to
      BY <1>3, <3>6, <3>8
    <3> QED
      BY <1>4, <3>8, <3>9, <3>10, <3>11 DEF RowFits, Live
  <2> QED
    BY <1>4, <2>1 DEF RowFits, Live
<1>7. Holds(task[t], row)
  <2>1. task[t].hw <= row.hw
    BY <1>3, <1>4 DEF Larger
  <2> QED
    BY <1>4, <2>1 DEF Holds, Live
<1>8. RowsFit' /\ RowsHold
  BY <1>1, <1>4, <1>5, <1>6, <1>7, OneRowFits DEF Shape
<1>9. ClaimsFit'
  BY <1>1, <1>5, <1>8, GoesFit
<1> QED
  BY <1>1, <1>8, <1>9 DEF Shape

LEMMA DoneShape ==
    ASSUME Shape, NEW w \in Workers,
           EmptyRange(w) \/ NothingToHandOn(w) \/ HandedOn(w)
    PROVE  Shape' /\ RowsHold
<1> DEFINE s == worker[w]
           t == worker[w].task
           row == Completed(task[t], s.upto)
<1>1. /\ Busy(w) /\ s.pc \in {"running", "loaded", "handed"}
      /\ ClaimSound(w) /\ ClaimFits(s) /\ t \in TaskIds
      /\ s.upto \in Cursors /\ s.cursor \in Nat /\ s.hw \in Nat
      /\ s.input \subseteq Events
      /\ TypeInv /\ TypeInv' /\ Done(w)
  BY WorkerFacts, CompletionTypes, EventFacts
     DEF EmptyRange, NothingToHandOn, HandedOn, Busy, At, Shape, TypeInv,
         AllSound, ClaimsFit
<1>2. /\ task[t] \in TaskRow /\ task[t].status # "absent"
      /\ RowFits(t, task[t]) /\ task[t].hw \in Nat /\ s.upto \in Nat
  BY <1>1, EventFacts
     DEF Shape, RowsFit, TypeInv, TypeOK, ClaimSound, TaskRow
<1>3. /\ row \in TaskRow /\ row.cursor = s.upto /\ row.hw = task[t].hw
      /\ row.status = IF task[t].hw > s.upto THEN "pending" ELSE "done"
  BY <1>1, <1>2, CompletedFacts
<1>4. task' = [task EXCEPT ![t] = row]
  BY <1>1 DEF Done
<1> HIDE DEF row
<1>5. RowFits(t, row)
  <2>1. CASE Tied(t)
    <3>1. /\ row.hw = t.of.to /\ s.hw = t.of.to /\ t.of.from <= s.cursor + 1
          /\ t.kind = Observing => s.upto = s.hw
      BY <1>1, <1>2, <1>3, <2>1 DEF RowFits, ClaimFits
    <3>2. /\ t.of.from \in Nat /\ t.of.to \in Nat /\ t.of.from <= t.of.to
      BY <1>1, <2>1, IdFacts, EventFacts DEF Tied
    <3>3. t.of.from <= s.upto + 1
      <4>1. CASE s.upto = s.hw
        BY <3>1, <3>2, <4>1
      <4>2. CASE s.upto # s.hw
        <5>1. s.pc \in {"loaded", "written", "handed"}
          BY <1>1, <4>2 DEF ClaimFits
        <5>2. PICK x \in s.input : s.cursor < x /\ x <= s.hw
          BY <1>1, <5>1 DEF ClaimFits
        <5>3. x <= s.upto /\ x \in Nat
          BY <1>1, <4>2, <5>2, EventFacts DEF ClaimFits
        <5> QED
          BY <1>1, <1>2, <3>1, <3>2, <5>2, <5>3
      <4> QED
        BY <4>1, <4>2
    <3>4. t.kind = Observing => ~Live(row)
      BY <1>2, <1>3, <3>1, <3>2 DEF Live
    <3>5. row.hw <= t.of.to
      BY <3>1, <3>2
    <3> QED
      BY <1>3, <3>1, <3>3, <3>4, <3>5 DEF RowFits
  <2> QED
    BY <1>3, <2>1 DEF RowFits
<1>6. Holds(task[t], row)
  BY <1>3 DEF Holds
<1>7. RowsFit' /\ RowsHold
  BY <1>1, <1>3, <1>4, <1>5, <1>6, OneRowFits DEF Shape
<1>8. ClaimsFit'
  <2>1. CASE t.of = Main
    <3>1. Leaves(w)
      BY <1>1, <2>1 DEF Done
    <3> QED
      BY <1>1, <1>7, <3>1, LeavesFit
  <2>2. CASE t.of # Main
    <3>1. Goes(w, "marking")
      BY <1>1, <2>2 DEF Done
    <3>2. task'[t].status # "processing"
      BY <1>1, <1>3, <1>4 DEF TypeInv, TypeOK
    <3> QED
      BY <1>1, <1>7, <3>1, <3>2, GoesFit
  <2> QED
    BY <2>1, <2>2
<1> QED
  BY <1>1, <1>7, <1>8 DEF Shape

LEMMA MarkShape ==
    ASSUME Shape, NEW w \in Workers, MarkReplayed(w)
    PROVE  Shape' /\ RowsHold
<1>1. TypeInv' /\ Leaves(w) /\ TypeInv /\ head' = head
  BY MarkReplayedTypes DEF Shape, MarkReplayed
<1>2. RowsFit' /\ RowsHold
  BY <1>1, SameRowsFit, ClearedRowsFit DEF Shape, MarkReplayed
<1> QED
  BY <1>1, <1>2, LeavesFit DEF Shape

(* A run that gives its row back keeps cursor and watermark. *)
LEMMA GivenBack ==
    ASSUME Shape, TypeInv', NEW t \in TaskIds, NEW row \in TaskRow,
           Live(task[t]), task' = [task EXCEPT ![t] = row],
           row.status = "pending", row.cursor = task[t].cursor,
           row.hw = task[t].hw
    PROVE  RowsFit' /\ RowsHold
<1>1. RowFits(t, task[t]) /\ task[t].status # "absent"
  BY DEF Shape, RowsFit, Live
<1>2. Live(row)
  BY DEF Live
<1>3. RowFits(t, row)
  BY <1>1, <1>2 DEF RowFits
<1>4. Holds(task[t], row)
  BY DEF Holds
<1> QED
  BY <1>3, <1>4, OneRowFits DEF Shape

LEMMA RetryShape ==
    ASSUME Shape, NEW w \in Workers, RetryLater(w)
    PROVE  Shape' /\ RowsHold
<1> DEFINE t == worker[w].task
           row == Retrying(task[t], worker[w].attempts + 1)
<1>1. /\ t \in TaskIds /\ task[t] \in TaskRow /\ Live(task[t])
      /\ worker[w].attempts + 1 \in Nat
      /\ TypeInv' /\ Leaves(w) /\ task' = [task EXCEPT ![t] = row]
  <2>1. /\ t \in TaskIds /\ task[t] \in TaskRow
        /\ worker[w].attempts \in Nat
    BY WorkerFacts DEF Shape, TypeInv
  <2>2. Live(task[t])
    BY DEF RetryLater, Owns, Live
  <2>3. TypeInv'
    BY RetryLaterTypes DEF Shape
  <2> QED
    BY <2>1, <2>2, <2>3 DEF RetryLater
<1>2. /\ row \in TaskRow /\ row.status = "pending"
      /\ row.cursor = task[t].cursor /\ row.hw = task[t].hw
  BY <1>1, RetryingFacts
<1> HIDE DEF row
<1>3. RowsFit' /\ RowsHold
  BY <1>1, <1>2, GivenBack
<1> QED
  BY <1>1, <1>3, LeavesFit DEF Shape

LEMMA WaitShape ==
    ASSUME Shape, NEW w \in Workers, Wait(w)
    PROVE  Shape' /\ RowsHold
<1> DEFINE t == worker[w].task
           row == Released(task[t])
<1>1. /\ t \in TaskIds /\ task[t] \in TaskRow /\ Live(task[t])
      /\ TypeInv' /\ Leaves(w) /\ task' = [task EXCEPT ![t] = row]
  BY WorkerFacts, WaitTypes DEF Wait, Shape, TypeInv, Owns, Live
<1>2. /\ row \in TaskRow /\ row.status = "pending"
      /\ row.cursor = task[t].cursor /\ row.hw = task[t].hw
  BY <1>1, ReleasedFacts
<1> HIDE DEF row
<1>3. RowsFit' /\ RowsHold
  BY <1>1, <1>2, GivenBack
<1> QED
  BY <1>1, <1>3, LeavesFit DEF Shape

LEMMA ReleaseShape ==
    ASSUME Shape, NEW t \in TaskIds, ReleaseExpired(t)
    PROVE  Shape' /\ RowsHold
<1> DEFINE row == Released(task[t])
<1>1. /\ task[t] \in TaskRow /\ Live(task[t])
      /\ TypeInv' /\ worker' = worker /\ task' = [task EXCEPT ![t] = row]
  BY ReleaseTypes DEF ReleaseExpired, Shape, TypeInv, TypeOK, Live
<1>2. /\ row \in TaskRow /\ row.status = "pending"
      /\ row.cursor = task[t].cursor /\ row.hw = task[t].hw
  BY <1>1, ReleasedFacts
<1> HIDE DEF row
<1>3. RowsFit' /\ RowsHold
  BY <1>1, <1>2, GivenBack
<1> QED
  BY <1>1, <1>3, ClaimsFitKept DEF Shape

LEMMA ExhaustShape ==
    ASSUME Shape, NEW w \in Workers, NEW class \in FailureClasses,
           Exhaust(w, class)
    PROVE  Shape' /\ RowsHold
<1> DEFINE s == worker[w]
           t == worker[w].task
           row == ExhaustedTask(task[t], s.hw, s.attempts + 1, class)
<1>1. /\ Busy(w) /\ ClaimFits(s) /\ Current(w, s, task[t])
      /\ t \in TaskIds /\ task[t] \in TaskRow /\ RowFits(t, task[t])
      /\ s.hw \in Cursors /\ s.attempts + 1 \in Nat
      /\ task[t].hw \in Nat /\ s.hw \in Nat
  BY WorkerFacts, EventFacts
     DEF Exhaust, Failing, Busy, At, Shape, TypeInv, ClaimsFit, RowsFit, TaskRow
<1>2. /\ task[t].status # "absent" /\ s.hw <= task[t].hw
      /\ task' = [task EXCEPT ![t] = row] /\ Leaves(w)
  BY <1>1 DEF Exhaust, Owns, Current
<1>3. TypeInv'
  BY ExhaustTypes DEF Shape
<1>4. /\ row \in TaskRow /\ row.cursor = s.hw /\ row.hw = task[t].hw
      /\ row.status = IF task[t].hw > s.hw THEN "pending" ELSE "failed"
  BY <1>1, ExhaustedFacts
<1> HIDE DEF row
<1>5. RowFits(t, row)
  <2>1. row.status = "failed" => row.hw <= row.cursor
    BY <1>1, <1>4
  <2>2. CASE Tied(t)
    <3>1. /\ row.hw = t.of.to /\ s.hw = t.of.to
      BY <1>1, <1>2, <1>4, <2>2 DEF RowFits, ClaimFits
    <3>2. /\ t.of.from \in Nat /\ t.of.to \in Nat /\ t.of.from <= t.of.to
      BY <1>1, <2>2, IdFacts, EventFacts DEF Tied
    <3>3. ~Live(row)
      BY <1>1, <1>4, <3>1 DEF Live
    <3>4. t.of.from <= row.cursor + 1 /\ row.hw <= t.of.to
      BY <1>4, <3>1, <3>2
    <3> QED
      BY <2>1, <3>1, <3>3, <3>4 DEF RowFits
  <2> QED
    BY <2>1, <2>2 DEF RowFits
<1>6. Holds(task[t], row)
  BY <1>4 DEF Holds
<1>7. RowsFit' /\ RowsHold
  BY <1>1, <1>2, <1>4, <1>5, <1>6, OneRowFits DEF Shape
<1> QED
  BY <1>2, <1>3, <1>7, LeavesFit DEF Shape

LEMMA LeavingShape ==
    ASSUME Shape, NEW w \in Workers, NotLeased(w) \/ Crash(w)
    PROVE  Shape' /\ RowsHold
<1>1. TypeInv' /\ Leaves(w) /\ task' = task
  BY LeavingTypes DEF Shape, NotLeased, Crash
<1>2. RowsFit' /\ RowsHold
  BY <1>1, SameRowsFit DEF Shape
<1> QED
  BY <1>1, <1>2, LeavesFit DEF Shape

LEMMA RequeueShape ==
    ASSUME Shape, NEW r \in Ranges, AutoRetry(r) \/ RetryRange(r)
    PROVE  Shape' /\ RowsHold
<1> DEFINE t == Replay(r)
           row == ReplayTask(task[t], r.from, r.to)
<1>1. /\ TypeInv' /\ Requeue(r) /\ ~Live(task[t])
  BY RequeueTypes DEF Shape
<1>2. /\ t \in TaskIds /\ t.of = r
      /\ r.from \in Nat /\ r.to \in Nat /\ 1 <= r.from
      /\ task[t] \in TaskRow
  BY IdFacts, EventFacts DEF Shape, TypeInv, TypeOK
<1>3. /\ row \in TaskRow /\ row.cursor = r.from - 1 /\ row.hw = r.to
      /\ row.status = "pending"
  BY <1>1, <1>2, ReplayTaskFacts
<1>4. task' = [task EXCEPT ![t] = row] /\ worker' = worker
  BY <1>1 DEF Requeue
<1> HIDE DEF row
<1>5. row.cursor + 1 = r.from
  BY <1>2, <1>3
<1>6. r.to <= r.to /\ r.from <= r.from
  BY <1>2
<1>7. RowFits(t, row) /\ Holds(task[t], row)
  BY <1>2, <1>3, <1>5, <1>6 DEF RowFits, Holds
<1>8. RowsFit' /\ RowsHold
  BY <1>2, <1>3, <1>4, <1>7, OneRowFits DEF Shape
<1> QED
  BY <1>1, <1>4, <1>8, ClaimsFitKept DEF Shape

LEMMA QuarantineShape ==
    ASSUME Shape, NEW r \in Ranges, QuarantineRange(r)
    PROVE  Shape' /\ RowsHold
<1>1. /\ TypeInv' /\ worker' = worker /\ head' = head
      /\ task' = QuietSource(r, range')
  BY QuarantineTypes DEF Shape, QuarantineRange
<1>2. RowsFit' /\ RowsHold
  BY <1>1, ClearedRowsFit DEF Shape
<1> QED
  BY <1>1, <1>2, ClaimsFitKept DEF Shape

LEMMA ReviewShape ==
    ASSUME Shape, Review
    PROVE  Shape' /\ RowsHold
<1>1. TypeInv' /\ worker' = worker /\ task' = task
  BY ReviewTypes DEF Shape, Review
<1>2. RowsFit' /\ RowsHold
  BY <1>1, SameRowsFit DEF Shape
<1> QED
  BY <1>1, <1>2, ClaimsFitKept DEF Shape

LEMMA StutterShape ==
    ASSUME Shape, UNCHANGED vars
    PROVE  Shape' /\ RowsHold
<1>1. TypeInv' /\ worker' = worker /\ task' = task
  BY StutterTypes DEF Shape, vars
<1>2. RowsFit' /\ RowsHold
  BY <1>1, SameRowsFit DEF Shape
<1> QED
  BY <1>1, <1>2, ClaimsFitKept DEF Shape

LEMMA InitShape ==
    ASSUME Init
    PROVE  Shape
<1>1. RowsFit
  <2> SUFFICES ASSUME NEW t \in TaskIds
               PROVE  RowFits(t, task[t])
    BY DEF RowsFit
  <2>1. task[t].status = "absent" /\ task[t].hw = 0
    BY DEF Init, NoTask
  <2>2. t.of # Main => 0 <= t.of.to
    BY IdFacts, EventFacts
  <2> QED
    BY <2>1, <2>2 DEF RowFits, Tied, Live
<1>2. ClaimsFit
  BY IdleType DEF Init, ClaimsFit, Busy, At
<1> QED
  BY <1>1, <1>2, InitTypes DEF Shape

LEMMA ShapeStep ==
    ASSUME Shape, [Next]_vars
    PROVE  Shape'
<1>1. ASSUME NEW w \in Workers, Works(w) PROVE Shape'
  BY <1>1, LoadShape, WriteShape, FollowupShape, DoneShape, MarkShape,
     RetryShape, ExhaustShape, WaitShape, LeavingShape
     DEF Works
<1> QED
  BY <1>1, CaptureShape, ClaimShape, LeavingShape, ReleaseShape, RequeueShape,
     QuarantineShape, ReviewShape, StutterShape
     DEF Next

(* Second layer: what the status of a row says about its cursor and its    *)
(* watermark, and what a claim says about the row it was taken from.       *)
THEOREM ShapeHolds == Spec => []Shape
BY InitShape, ShapeStep, PTL DEF Spec

(* A graph task waits only for memory tasks that a worker will claim: one  *)
(* that has failed ends at its watermark, so it has nothing ahead of it    *)
(* that the wait could be for.                                             *)
THEOREM GraphWaitsOnTheLiving == Spec => []WaitsOnTheLiving
<1>1. Shape => WaitsOnTheLiving
  <2> SUFFICES ASSUME Shape, NEW g \in TaskIds, NEW t \in TaskIds,
                      Blocking(t, task[g].hw)
               PROVE  Live(task[t])
    BY DEF WaitsOnTheLiving
  <2>1. /\ task[t] \in TaskRow /\ RowFits(t, task[t])
        /\ task[t].cursor \in Nat /\ task[t].hw \in Nat /\ task[g].hw \in Nat
    BY EventFacts DEF Shape, RowsFit, TypeInv, TypeOK, TaskRow
  <2>2. task[t].status # "failed"
    BY <2>1 DEF RowFits, Blocking
  <2> QED
    BY <2>1, <2>2 DEF Blocking, Live, TaskRow, TaskStatus
<1> QED
  BY <1>1, ShapeHolds, PTL

-----------------------------------------------------------------------------
(* What has been passed over is taken *)

(* Taken itself says nothing of how it came about.  Cursors tell: whatever *)
(* a cursor has passed is taken by the stage of its task, and whatever the *)
(* cursor of a range's task or of a claim has passed is taken by the stage *)
(* after it as well, because a follow-up revives a row at that cursor.     *)
MainPassed(k) ==
    \A e \in Events : e <= task[Primary(k)].cursor => Taken(k, e)

Passed(t) ==
    \A e \in Scope(t) : e <= task[t].cursor =>
      /\ Taken(t.kind, e)
      /\ t.kind # Graphing => Taken(t.kind + 1, e)
      /\ t = Replay(t.of) => e \in covered[t.kind]

ClaimPassed(w, t) ==
    t = worker[w].task /\ t.of # Main /\ t.kind # Graphing =>
      \A e \in Scope(t) : e <= worker[w].cursor => Taken(t.kind + 1, e)

(* Once the follow-up is enqueued the next stage has what the claim read.  *)
Handing(w, t) ==
    t = worker[w].task /\ At(w, "handed") =>
      \A x \in worker[w].input : \A e \in Scope(t) :
        worker[w].cursor < e /\ e <= x => Taken(t.kind + 1, e)

(* A replay that is done has covered its range, unless it was quarantined. *)
Closes(r) ==
    /\ r \notin lapsed
    /\ task[Replay(r)].status = "done"
    /\ range[r].status # "quarantined"

ReplayCovers(r) == Closes(r) => r.from .. r.to \subseteq covered[r.kind]

Cover ==
    /\ \A k \in Kinds : MainPassed(k)
    /\ \A t \in TaskIds : t.of # Main /\ Live(task[t]) => Passed(t)
    /\ \A w \in Workers : Busy(w) =>
         \A t \in TaskIds : ClaimPassed(w, t) /\ Handing(w, t)
    /\ \A r \in Ranges : ReplayCovers(r)
    /\ HandedOnIsTaken

(* A step keeps each part for what it leaves alone and establishes it for  *)
(* what it changes.                                                        *)
TakenStays ==
    /\ \A k \in Kinds : \A e \in Events : Taken(k, e) => Taken(k, e)'
    /\ \A k \in Kinds : covered[k] \subseteq covered'[k]

MainMoves ==
    \A k \in Kinds :
      \/ task'[Primary(k)].cursor = task[Primary(k)].cursor
      \/ MainPassed(k)'

LinkedMoves ==
    \A t \in TaskIds : t.of # Main /\ Live(task'[t]) =>
      \/ Live(task[t]) /\ task'[t].cursor = task[t].cursor
      \/ Passed(t)'

Carried(w) ==
    /\ Busy(w)
    /\ worker'[w].task = worker[w].task
    /\ worker'[w].cursor = worker[w].cursor
    /\ worker'[w].pc = "handed" => /\ worker[w].pc = "handed"
                                   /\ worker'[w].input = worker[w].input

ClaimMoves ==
    \A w \in Workers : Busy(w)' =>
      \/ Carried(w)
      \/ \A t \in TaskIds : ClaimPassed(w, t)' /\ Handing(w, t)'

ReplayMoves ==
    \A r \in Ranges : Closes(r)' => Closes(r) \/ r.from .. r.to \subseteq covered'[r.kind]

HandedMoves ==
    \A k \in {Observing, Remembering} : \A e \in handed'[k] :
      e \in handed[k] \/ Taken(k + 1, e)'

LEMMA ScopeFacts ==
    ASSUME NEW t \in TaskIds
    PROVE  /\ Scope(t) \subseteq Events
           /\ t.kind # Graphing => t.kind + 1 \in Kinds
           /\ t.of # Main => Scope(t) = t.of.from .. t.of.to
           /\ t.of = Main => Scope(t) = Events
<1>1. CASE t.of = Main
  BY <1>1, IdFacts, KindFacts DEF Scope
<1>2. CASE t.of # Main
  <2>1. t.of \in Ranges /\ t.of.from \in Nat /\ t.of.to \in Nat
        /\ 1 <= t.of.from /\ t.of.to <= MaxEvent
    BY <1>2, IdFacts, EventFacts
  <2>2. t.of.from .. t.of.to \subseteq Events
    BY <2>1, EventFacts
  <2> QED
    BY <1>2, <2>2, IdFacts, KindFacts DEF Scope
<1> QED
  BY <1>1, <1>2

LEMMA CoverStep ==
    ASSUME Shape, Shape', Cover, TakenStays, MainMoves, LinkedMoves,
           ClaimMoves, ReplayMoves, HandedMoves
    PROVE  Cover'
<1>1. ASSUME NEW k \in Kinds PROVE MainPassed(k)'
  <2>1. MainPassed(k)
    BY DEF Cover
  <2>2. CASE task'[Primary(k)].cursor = task[Primary(k)].cursor
    BY <2>1, <2>2 DEF MainPassed, TakenStays
  <2> QED
    BY <2>2 DEF MainMoves
<1>2. ASSUME NEW t \in TaskIds, t.of # Main, Live(task'[t])
      PROVE  Passed(t)'
  <2>1. CASE Live(task[t]) /\ task'[t].cursor = task[t].cursor
    <3>1. Passed(t)
      BY <1>2, <2>1 DEF Cover
    <3>2. t.kind \in Kinds
      BY IdFacts
    <3> SUFFICES ASSUME NEW e \in Scope(t), e <= task'[t].cursor
                 PROVE  /\ Taken(t.kind, e)'
                        /\ t.kind # Graphing => Taken(t.kind + 1, e)'
                        /\ t = Replay(t.of) => e \in covered'[t.kind]
      BY DEF Passed
    <3>3. /\ Taken(t.kind, e)
          /\ t.kind # Graphing => Taken(t.kind + 1, e)
          /\ t = Replay(t.of) => e \in covered[t.kind]
      BY <2>1, <3>1 DEF Passed
    <3>4. e \in Events
      BY ScopeFacts
    <3>5. Taken(t.kind, e)'
      BY <3>2, <3>3, <3>4 DEF TakenStays
    <3>6. t.kind # Graphing => Taken(t.kind + 1, e)'
      BY <3>3, <3>4, ScopeFacts DEF TakenStays
    <3>7. t = Replay(t.of) => e \in covered'[t.kind]
      BY <3>2, <3>3 DEF TakenStays
    <3> QED
      BY <3>5, <3>6, <3>7
  <2> QED
    BY <1>2, <2>1 DEF LinkedMoves
<1>3. ASSUME NEW w \in Workers, Busy(w)', NEW t \in TaskIds
      PROVE  ClaimPassed(w, t)' /\ Handing(w, t)'
  <2>1. CASE Carried(w)
    <3>1. ClaimPassed(w, t) /\ Handing(w, t)
      BY <2>1 DEF Cover, Carried
    <3>2. ASSUME NEW e \in Scope(t), t.kind # Graphing, Taken(t.kind + 1, e)
          PROVE  Taken(t.kind + 1, e)'
      BY <3>2, ScopeFacts DEF TakenStays
    <3>3. ClaimPassed(w, t)'
      <4> SUFFICES ASSUME t = worker'[w].task, t.of # Main, t.kind # Graphing,
                          NEW e \in Scope(t), e <= worker'[w].cursor
                   PROVE  Taken(t.kind + 1, e)'
        BY DEF ClaimPassed
      <4>1. Taken(t.kind + 1, e)
        BY <2>1, <3>1 DEF ClaimPassed, Carried
      <4> QED
        BY <3>2, <4>1
    <3>4. Handing(w, t)'
      <4> SUFFICES ASSUME t = worker'[w].task, worker'[w].pc = "handed",
                          NEW x \in worker'[w].input, NEW e \in Scope(t),
                          worker'[w].cursor < e, e <= x
                   PROVE  Taken(t.kind + 1, e)'
        BY DEF Handing, At
      <4>1. Taken(t.kind + 1, e)
        BY <2>1, <3>1 DEF Handing, Carried, At
      <4>2. t.kind # Graphing
        BY <1>3 DEF Shape, TypeInv, AllSound, ClaimSound
      <4> QED
        BY <3>2, <4>1, <4>2
    <3> QED
      BY <3>3, <3>4
  <2> QED
    BY <1>3, <2>1 DEF ClaimMoves
<1>4. ASSUME NEW r \in Ranges PROVE ReplayCovers(r)'
  <2>1. r.kind \in Kinds /\ covered[r.kind] \subseteq covered'[r.kind]
    BY IdFacts DEF TakenStays
  <2>2. ReplayCovers(r)
    BY DEF Cover
  <2> SUFFICES ASSUME Closes(r)'
               PROVE  r.from .. r.to \subseteq covered'[r.kind]
    BY DEF ReplayCovers
  <2> QED
    BY <2>1, <2>2 DEF ReplayMoves, ReplayCovers
<1>5. HandedOnIsTaken'
  <2> SUFFICES ASSUME NEW k \in {Observing, Remembering}, NEW e \in handed'[k]
               PROVE  Taken(k + 1, e)'
    BY DEF HandedOnIsTaken
  <2>1. k \in Kinds /\ k + 1 \in Kinds
    BY KindFacts
  <2>2. CASE e \in handed[k]
    <3>1. Taken(k + 1, e)
      BY <2>2 DEF Cover, HandedOnIsTaken
    <3>2. e \in Events
      BY <2>1, <2>2 DEF Shape, TypeInv, TypeOK
    <3> QED
      BY <2>1, <3>1, <3>2 DEF TakenStays
  <2> QED
    BY <2>2 DEF HandedMoves
<1> QED
  BY <1>1, <1>2, <1>3, <1>4, <1>5 DEF Cover

-----------------------------------------------------------------------------
(* Steps that move no live cursor *)

Open(row) == row.status \notin {"absent", "replayed"}

OwedStays ==
    \A t \in TaskIds : Live(task[t]) =>
      \A e \in Scope(t) :
        task[t].cursor < e /\ e <= task[t].hw => Taken(t.kind, e)'

OpenStays ==
    \A r \in Ranges : Open(range[r]) =>
      \A e \in r.from .. r.to : Taken(r.kind, e)'

HistoryGrows ==
    /\ \A k \in Kinds : covered[k] \subseteq covered'[k]
    /\ lapsed \subseteq lapsed'

LEMMA StillOwed ==
    ASSUME NEW t \in TaskIds, NEW e \in Scope(t), TypeInv', Live(task'[t]),
           task'[t].cursor < e, e <= task'[t].hw
    PROVE  Taken(t.kind, e)'
<1>1. /\ task'[t].cursor \in Nat /\ task'[t].hw \in Nat /\ e \in Nat
  BY ScopeFacts, EventFacts DEF TypeInv, TypeOK, TaskRow
<1>2. e \in Pending(task'[t])
  BY <1>1 DEF Pending
<1>3. OwedTo(t.kind, e)'
  BY <1>2 DEF OwedTo
<1> QED
  BY <1>3 DEF Taken

LEMMA StillOpen ==
    ASSUME NEW r \in Ranges, NEW e \in r.from .. r.to, Open(range'[r])
    PROVE  Taken(r.kind, e)'
<1>1. OwedTo(r.kind, e)'
  BY DEF OwedTo, Open
<1> QED
  BY <1>1 DEF Taken

LEMMA TakenStep ==
    ASSUME TypeInv, HistoryGrows, OwedStays, OpenStays
    PROVE  TakenStays
<1> SUFFICES ASSUME NEW k \in Kinds, NEW e \in Events, Taken(k, e)
             PROVE  Taken(k, e)'
  BY DEF TakenStays, HistoryGrows
<1>1. CASE e \in covered[k]
  BY <1>1 DEF HistoryGrows, Taken
<1>2. CASE Lapsed(k, e)
  <2>1. Lapsed(k, e)'
    BY <1>2 DEF HistoryGrows, Lapsed
  <2> QED
    BY <2>1 DEF Taken
<1>3. CASE OwedTo(k, e)
  <2>1. CASE \E t \in TaskIds : /\ t.kind = k /\ Live(task[t])
                                /\ e \in Scope(t) \intersect Pending(task[t])
    <3>1. PICK t \in TaskIds : /\ t.kind = k /\ Live(task[t])
                               /\ e \in Scope(t) /\ e \in Pending(task[t])
      BY <2>1
    <3>2. task[t].cursor \in Nat /\ task[t].hw \in Nat /\ e \in Nat
      BY EventFacts DEF TypeInv, TypeOK, TaskRow
    <3>3. task[t].cursor < e /\ e <= task[t].hw
      BY <3>1, <3>2 DEF Pending
    <3> QED
      BY <3>1, <3>3 DEF OwedStays
  <2>2. CASE \E r \in Ranges : /\ r.kind = k
                               /\ range[r].status \notin {"absent", "replayed"}
                               /\ e \in r.from .. r.to
    BY <2>2 DEF OpenStays, Open
  <2> QED
    BY <1>3, <2>1, <2>2 DEF OwedTo
<1> QED
  BY <1>1, <1>2, <1>3 DEF Taken

(* Live rows and those of primary tasks keep their cursor. *)
Grows(t, old, new) ==
    /\ Live(old) => Live(new)
    /\ Live(old) \/ t.of = Main => new.cursor = old.cursor /\ old.hw <= new.hw

(* No row of a range is revived or done. *)
Calm(t, old, new) ==
    t.of # Main => /\ Live(new) => Live(old)
                   /\ new.status = "done" => old.status = "done"

RowsGrow == \A t \in TaskIds : Grows(t, task[t], task'[t])

RowsCalm == \A t \in TaskIds : Calm(t, task[t], task'[t])

LEMMA GrowingRows ==
    ASSUME TypeInv, TypeInv', RowsGrow
    PROVE  /\ OwedStays /\ MainMoves
           /\ RowsCalm => LinkedMoves
<1>1. OwedStays
  <2> SUFFICES ASSUME NEW t \in TaskIds, Live(task[t]), NEW e \in Scope(t),
                      task[t].cursor < e, e <= task[t].hw
               PROVE  Taken(t.kind, e)'
    BY DEF OwedStays
  <2>1. /\ Live(task'[t]) /\ task'[t].cursor = task[t].cursor
        /\ task[t].hw <= task'[t].hw
    BY DEF RowsGrow, Grows
  <2>2. task[t].hw \in Nat /\ task'[t].hw \in Nat /\ e \in Nat
    BY ScopeFacts, EventFacts DEF TypeInv, TypeOK, TaskRow
  <2>3. task'[t].cursor < e /\ e <= task'[t].hw
    BY <2>1, <2>2
  <2> QED
    BY <2>1, <2>3, StillOwed
<1>2. MainMoves
  BY IdFacts DEF MainMoves, RowsGrow, Grows
<1>3. RowsCalm => LinkedMoves
  BY DEF RowsCalm, RowsGrow, Calm, Grows, LinkedMoves
<1> QED
  BY <1>1, <1>2, <1>3

LEMMA OneRowGrows ==
    ASSUME TypeInv, NEW t \in TaskIds, NEW row, task' = [task EXCEPT ![t] = row],
           Grows(t, task[t], row)
    PROVE  RowsGrow /\ (Calm(t, task[t], row) => RowsCalm)
<1>1. /\ task'[t] = row /\ \A q \in TaskIds \ {t} : task'[q] = task[q]
  BY DEF TypeInv, TypeOK
<1>2. \A q \in TaskIds : /\ Grows(q, task[q], task[q])
                         /\ Calm(q, task[q], task[q])
  <2>1. \A q \in TaskIds : task[q].hw <= task[q].hw
    BY EventFacts DEF TypeInv, TypeOK, TaskRow
  <2> QED
    BY <2>1 DEF Grows, Calm
<1> QED
  BY <1>1, <1>2 DEF RowsGrow, RowsCalm

LEMMA SameRowsGrow ==
    ASSUME TypeInv, task' = task
    PROVE  RowsGrow /\ RowsCalm
<1>1. \A q \in TaskIds : task[q].hw <= task[q].hw
  BY EventFacts DEF TypeInv, TypeOK, TaskRow
<1> QED
  BY <1>1 DEF RowsGrow, RowsCalm, Grows, Calm

(* Clearing failed rows makes those of the range r done. *)
LEMMA ClearedRowsGrow ==
    ASSUME TypeInv, head' = head, NEW r \in Ranges,
           task' = QuietSource(r, range')
    PROVE  /\ RowsGrow
           /\ \A t \in TaskIds : t.of # r \/ task[t].status # "failed" =>
                Calm(t, task[t], task'[t])
           /\ LinkedMoves
<1>1. \A t \in TaskIds :
        /\ task'[t].cursor = task[t].cursor
        /\ task'[t].hw = task[t].hw
        /\ Live(task'[t]) <=> Live(task[t])
        /\ t \notin Quieted(r, range') => task'[t] = task[t]
        /\ task[t].status # "failed" => task'[t] = task[t]
  BY QuietSourceForm, RowsCleared, TasksAreSound
<1>2. \A t \in TaskIds : task[t].hw \in Nat
  BY EventFacts DEF TypeInv, TypeOK, TaskRow
<1>3. RowsGrow
  BY <1>1, <1>2 DEF RowsGrow, Grows
<1>4. ASSUME NEW t \in TaskIds, t.of # r \/ task[t].status # "failed"
      PROVE  Calm(t, task[t], task'[t])
  <2>1. CASE t.of = Main
    BY <2>1 DEF Calm
  <2>2. CASE t.of # Main /\ t.of # r
    <3>1. t # Primary(r.kind)
      BY <2>2, IdFacts
    <3>2. t \notin Quieted(r, range')
      BY <2>2, <3>1 DEF Quieted
    <3> QED
      BY <1>1, <3>2 DEF Calm
  <2>3. CASE task[t].status # "failed"
    BY <1>1, <2>3 DEF Calm
  <2> QED
    BY <1>4, <2>1, <2>2, <2>3
<1>5. LinkedMoves
  BY <1>1 DEF LinkedMoves
<1> QED
  BY <1>3, <1>4, <1>5

LEMMA LeavesCarries ==
    ASSUME TypeInv, NEW w \in Workers, Leaves(w)
    PROVE  ClaimMoves
<1>1. /\ ~Busy(w)' /\ \A v \in Workers \ {w} : worker'[v] = worker[v]
  BY LeavesFacts DEF TypeInv
<1> QED
  BY <1>1 DEF ClaimMoves, Carried, Busy, At

LEMMA IdleCarries ==
    ASSUME worker' = worker
    PROVE  ClaimMoves
BY DEF ClaimMoves, Carried, Busy, At

(* A process that stays with its claim, and has not just handed it on. *)
LEMMA GoesCarries ==
    ASSUME NEW w \in Workers, Busy(w),
           \A v \in Workers \ {w} : worker'[v] = worker[v],
           worker'[w].task = worker[w].task,
           worker'[w].cursor = worker[w].cursor,
           worker'[w].pc # "handed"
    PROVE  ClaimMoves
BY DEF ClaimMoves, Carried, Busy, At

(* No history is written, and a range stays open and quarantined. *)
LEMMA StillRanges ==
    ASSUME Shape, UNCHANGED history,
           \A r \in Ranges :
             /\ Open(range[r]) => Open(range'[r])
             /\ range[r].status = "quarantined" => range'[r].status = "quarantined"
    PROVE  /\ HistoryGrows /\ OpenStays /\ HandedMoves
           /\ RowsCalm => ReplayMoves
<1>1. HistoryGrows /\ HandedMoves
  BY DEF HistoryGrows, HandedMoves, history
<1>2. OpenStays
  BY StillOpen DEF OpenStays
<1>3. ASSUME RowsCalm PROVE ReplayMoves
  <2> SUFFICES ASSUME NEW r \in Ranges, Closes(r)'
               PROVE  Closes(r)
    BY DEF ReplayMoves
  <2>1. Replay(r) \in TaskIds /\ Replay(r).of # Main
    BY IdFacts
  <2> QED
    BY <1>3, <2>1 DEF Closes, history, RowsCalm, Calm
<1> QED
  BY <1>1, <1>2, <1>3

(* The steps that only move processes, or give rows back. *)
LEMMA CalmCover ==
    ASSUME Shape, Shape', Cover, RowsGrow, RowsCalm, ClaimMoves,
           UNCHANGED history, UNCHANGED range
    PROVE  Cover'
<1>1. HistoryGrows /\ OpenStays /\ HandedMoves /\ ReplayMoves
  BY StillRanges
<1>2. OwedStays /\ MainMoves /\ LinkedMoves
  BY GrowingRows DEF Shape
<1>3. TakenStays
  BY <1>1, <1>2, TakenStep DEF Shape
<1> QED
  BY <1>1, <1>2, <1>3, CoverStep

LEMMA CaptureCover ==
    ASSUME Shape, Cover, CaptureEvent
    PROVE  Cover'
<1> DEFINE p == Primary(Observing)
           row == Coalesced(task[p], head + 1)
<1>1. Shape' /\ TypeInv
  BY CaptureShape DEF Shape
<1>2. p \in TaskIds /\ p.of = Main
  BY IdFacts, KindFacts
<1>3. task[p] \in TaskRow /\ head + 1 \in Cursors /\ task[p].hw \in Nat
  BY <1>1, <1>2, EventFacts DEF TypeInv, TypeOK, CaptureEvent, TaskRow
<1>4. /\ row.cursor = task[p].cursor /\ Live(row)
      /\ row.hw = Larger(task[p].hw, head + 1)
  BY <1>3, CoalescedFacts
<1>5. task[p].hw <= row.hw
  BY <1>3, <1>4, EventFacts DEF Larger
<1>6. /\ task' = [task EXCEPT ![p] = row]
      /\ worker' = worker /\ UNCHANGED history /\ UNCHANGED range
  BY DEF CaptureEvent
<1> HIDE DEF p, row
<1>7. Grows(p, task[p], row) /\ Calm(p, task[p], row)
  BY <1>2, <1>4, <1>5 DEF Grows, Calm
<1>8. RowsGrow /\ RowsCalm
  BY <1>1, <1>2, <1>6, <1>7, OneRowGrows
<1> QED
  BY <1>1, <1>6, <1>8, IdleCarries, CalmCover

LEMMA ClaimCover ==
    ASSUME Shape, Cover, NEW w \in Workers, NEW t \in TaskIds, ClaimNext(w, t)
    PROVE  Cover'
<1> DEFINE row == Claimed(task[t], w)
           s == [pc |-> "running", task |-> t, cursor |-> task[t].cursor,
                 hw |-> task[t].hw, attempts |-> task[t].attempts,
                 input |-> {}, upto |-> task[t].hw]
<1>1. /\ Shape' /\ TypeInv /\ TypeInv'
      /\ task[t] \in TaskRow /\ task[t].hw \in Nat /\ Live(task[t])
      /\ task' = [task EXCEPT ![t] = row]
      /\ worker' = [worker EXCEPT ![w] = s]
      /\ worker \in [Workers -> WorkerState]
      /\ UNCHANGED history /\ UNCHANGED range
  BY ClaimShape, EventFacts
     DEF Shape, TypeInv, TypeOK, TaskRow, ClaimNext, Live
<1>2. row.cursor = task[t].cursor /\ row.hw = task[t].hw /\ Live(row)
      /\ row.status # "done"
  BY <1>1, ClaimedFacts DEF Live
<1> HIDE DEF row
<1>3. Grows(t, task[t], row) /\ Calm(t, task[t], row)
  BY <1>1, <1>2 DEF Grows, Calm
<1>4. RowsGrow /\ RowsCalm
  BY <1>1, <1>3, OneRowGrows
<1>5. HistoryGrows /\ OpenStays /\ OwedStays
  BY <1>1, <1>4, StillRanges, GrowingRows
<1>6. TakenStays
  BY <1>1, <1>5, TakenStep
<1>7. worker'[w] = s /\ \A v \in Workers \ {w} : worker'[v] = worker[v]
  BY <1>1
<1>8. ASSUME NEW q \in TaskIds
      PROVE  ClaimPassed(w, q)' /\ Handing(w, q)'
  <2>1. Handing(w, q)'
    BY <1>7 DEF Handing, At
  <2>2. ClaimPassed(w, q)'
    <3> SUFFICES ASSUME q = t, t.of # Main, t.kind # Graphing,
                        NEW e \in Scope(q), e <= task[t].cursor
                 PROVE  Taken(q.kind + 1, e)'
      BY <1>7 DEF ClaimPassed
    <3>1. Taken(q.kind + 1, e)
      BY <1>1 DEF Cover, Passed
    <3>2. e \in Events /\ q.kind + 1 \in Kinds
      BY ScopeFacts
    <3> QED
      BY <1>6, <3>1, <3>2 DEF TakenStays
  <2> QED
    BY <2>1, <2>2
<1>9. ClaimMoves
  BY <1>7, <1>8 DEF ClaimMoves, Carried, Busy, At
<1> QED
  BY <1>1, <1>4, <1>9, CalmCover

LEMMA LoadCover ==
    ASSUME Shape, Cover, NEW w \in Workers, Load(w)
    PROVE  Cover'
<1> DEFINE s == [worker[w] EXCEPT !.pc = "loaded", !.input = Input(w)]
<1>1. /\ Shape' /\ TypeInv /\ Busy(w) /\ worker[w] \in WorkerState
      /\ worker' = [worker EXCEPT ![w] = s] /\ task' = task
      /\ UNCHANGED history /\ UNCHANGED range
  BY LoadShape, WorkerFacts DEF Load, Shape, TypeInv, Busy, At
<1>2. worker'[w] = s /\ \A v \in Workers \ {w} : worker'[v] = worker[v]
  BY <1>1 DEF TypeInv, TypeOK
<1>3. s.pc = "loaded" /\ s.task = worker[w].task /\ s.cursor = worker[w].cursor
  BY <1>1 DEF WorkerState
<1>4. ClaimMoves
  BY <1>1, <1>2, <1>3, GoesCarries
<1> QED
  BY <1>1, <1>4, SameRowsGrow, CalmCover

LEMMA WriteCover ==
    ASSUME Shape, Cover, NEW w \in Workers,
           WriteObservations(w) \/ WriteCandidates(w) \/ NoCandidates(w)
    PROVE  Cover'
<1>1. /\ Shape' /\ TypeInv /\ Busy(w) /\ worker[w] \in WorkerState
      /\ task' = task /\ UNCHANGED history /\ UNCHANGED range
  BY WriteShape, WorkerFacts
     DEF WriteObservations, WriteCandidates, NoCandidates, Shape, TypeInv,
         Busy, At
<1>2. ClaimMoves
  <2>1. CASE Goes(w, "written")
    <3>1. "written" \in Places
      BY DEF Places
    <3> QED
      BY <1>1, <2>1, <3>1, GoesFacts, GoesCarries DEF TypeInv
  <2>2. CASE WriteCandidates(w)
    <3> DEFINE s == [worker[w] EXCEPT !.pc = "written",
                                      !.upto = Max(worker[w].input)]
    <3>1. worker' = [worker EXCEPT ![w] = s]
      BY <2>2 DEF WriteCandidates
    <3>2. worker'[w] = s /\ \A v \in Workers \ {w} : worker'[v] = worker[v]
      BY <1>1, <3>1 DEF TypeInv, TypeOK
    <3>3. /\ s.pc = "written" /\ s.task = worker[w].task
          /\ s.cursor = worker[w].cursor
      BY <1>1 DEF WorkerState
    <3> QED
      BY <1>1, <3>2, <3>3, GoesCarries
  <2> QED
    BY <2>1, <2>2 DEF WriteObservations, NoCandidates
<1> QED
  BY <1>1, <1>2, SameRowsGrow, CalmCover

LEMMA GivenBackGrows ==
    ASSUME TypeInv, NEW t \in TaskIds, NEW row,
           Live(task[t]), task' = [task EXCEPT ![t] = row],
           row.status = "pending", row.cursor = task[t].cursor,
           row.hw = task[t].hw
    PROVE  RowsGrow /\ RowsCalm
<1>1. task[t].hw \in Nat
  BY EventFacts DEF TypeInv, TypeOK, TaskRow
<1>2. Grows(t, task[t], row) /\ Calm(t, task[t], row)
  BY <1>1 DEF Grows, Calm, Live
<1> QED
  BY <1>2, OneRowGrows

LEMMA RetryCover ==
    ASSUME Shape, Cover, NEW w \in Workers, RetryLater(w)
    PROVE  Cover'
<1> DEFINE t == worker[w].task
           row == Retrying(task[t], worker[w].attempts + 1)
<1>1. /\ t \in TaskIds /\ task[t] \in TaskRow
      /\ worker[w].attempts + 1 \in Nat /\ TypeInv
  BY WorkerFacts DEF Shape, TypeInv
<1>2. /\ Live(task[t]) /\ Leaves(w) /\ task' = [task EXCEPT ![t] = row]
      /\ UNCHANGED history /\ UNCHANGED range
  BY DEF RetryLater, Owns, Live
<1>3. /\ row.status = "pending" /\ row.cursor = task[t].cursor
      /\ row.hw = task[t].hw
  BY <1>1, RetryingFacts
<1> HIDE DEF row
<1>4. RowsGrow /\ RowsCalm
  BY <1>1, <1>2, <1>3, GivenBackGrows
<1> QED
  BY <1>1, <1>2, <1>4, RetryShape, LeavesCarries, CalmCover

LEMMA WaitCover ==
    ASSUME Shape, Cover, NEW w \in Workers, Wait(w)
    PROVE  Cover'
<1> DEFINE t == worker[w].task
           row == Released(task[t])
<1>1. t \in TaskIds /\ task[t] \in TaskRow /\ TypeInv
  BY WorkerFacts DEF Shape, TypeInv
<1>2. /\ Live(task[t]) /\ Leaves(w) /\ task' = [task EXCEPT ![t] = row]
      /\ UNCHANGED history /\ UNCHANGED range
  BY DEF Wait, Owns, Live
<1>3. /\ row.status = "pending" /\ row.cursor = task[t].cursor
      /\ row.hw = task[t].hw
  BY <1>1, ReleasedFacts
<1> HIDE DEF row
<1>4. RowsGrow /\ RowsCalm
  BY <1>1, <1>2, <1>3, GivenBackGrows
<1> QED
  BY <1>1, <1>2, <1>4, WaitShape, LeavesCarries, CalmCover

LEMMA ReleaseCover ==
    ASSUME Shape, Cover, NEW t \in TaskIds, ReleaseExpired(t)
    PROVE  Cover'
<1> DEFINE row == Released(task[t])
<1>1. task[t] \in TaskRow /\ TypeInv
  BY DEF Shape, TypeInv, TypeOK
<1>2. /\ Live(task[t]) /\ worker' = worker
      /\ task' = [task EXCEPT ![t] = row]
      /\ UNCHANGED history /\ UNCHANGED range
  BY DEF ReleaseExpired, Live
<1>3. /\ row.status = "pending" /\ row.cursor = task[t].cursor
      /\ row.hw = task[t].hw
  BY <1>1, ReleasedFacts
<1> HIDE DEF row
<1>4. RowsGrow /\ RowsCalm
  BY <1>1, <1>2, <1>3, GivenBackGrows
<1> QED
  BY <1>2, <1>4, ReleaseShape, IdleCarries, CalmCover

LEMMA LeavingCover ==
    ASSUME Shape, Cover, NEW w \in Workers, NotLeased(w) \/ Crash(w)
    PROVE  Cover'
<1>1. /\ TypeInv /\ Leaves(w) /\ task' = task
      /\ UNCHANGED history /\ UNCHANGED range
  BY DEF Shape, NotLeased, Crash
<1> QED
  BY <1>1, LeavingShape, SameRowsGrow, LeavesCarries, CalmCover

LEMMA ReviewCover ==
    ASSUME Shape, Cover, Review \/ UNCHANGED vars
    PROVE  Cover'
<1>1. /\ TypeInv /\ worker' = worker /\ task' = task
      /\ UNCHANGED history /\ UNCHANGED range
  BY DEF Shape, Review, vars, history
<1> QED
  BY <1>1, ReviewShape, StutterShape, SameRowsGrow, IdleCarries, CalmCover

-----------------------------------------------------------------------------
(* The follow-up, and the steps that open and close ranges *)

LEMMA ClaimPassedStays ==
    ASSUME TakenStays, NEW w \in Workers, NEW t \in TaskIds, ClaimPassed(w, t),
           worker'[w].task = worker[w].task,
           worker'[w].cursor = worker[w].cursor
    PROVE  ClaimPassed(w, t)'
<1> SUFFICES ASSUME t = worker[w].task, t.of # Main, t.kind # Graphing,
                    NEW e \in Scope(t), e <= worker[w].cursor
             PROVE  Taken(t.kind + 1, e)'
  BY DEF ClaimPassed
<1>1. Taken(t.kind + 1, e)
  BY DEF ClaimPassed
<1> QED
  BY <1>1, ScopeFacts DEF TakenStays

LEMMA FollowupOnRow ==
    ASSUME Shape, Cover, NEW w \in Workers, Followup(w),
           NEW q, q = worker[w].task, NEW t, t = NextStage(q)
    PROVE  Cover'
<1> DEFINE s == worker[w]
           row == FollowupTask(task[t], worker[w])
           m == Max(worker[w].input)
<1>1. /\ Shape' /\ TypeInv /\ TypeInv'
      /\ Busy(w) /\ s.pc = "written" /\ ClaimFits(s)
      /\ s \in WorkerState /\ q \in TaskIds
      /\ s.input # {} /\ s.input \subseteq Events /\ q.kind # Graphing
      /\ t \in TaskIds
  BY WorkerFacts, FollowupTypes, FollowupShape
     DEF Followup, Busy, At, Shape, TypeInv, AllSound, ClaimSound, ClaimsFit
<1>2. t.of = q.of /\ t.kind = q.kind + 1 /\ Scope(t) = Scope(q)
  BY <1>1, IdFacts DEF Scope
<1>3. /\ task[t] \in TaskRow /\ task[t].hw \in Nat /\ task[t].cursor \in Nat
      /\ m \in Nat /\ m \in s.input /\ \A x \in s.input : x <= m
      /\ s.cursor \in Nat /\ s.hw \in Nat
  BY <1>1, MaxFacts, WorkerFacts, EventFacts
     DEF Shape, TypeInv, TypeOK, TaskRow
<1>4. /\ row.hw = Larger(task[t].hw, m)
      /\ Live(row)
      /\ Live(task[t]) \/ q.of = Main => row.cursor = task[t].cursor
      /\ ~Live(task[t]) /\ q.of # Main => row.cursor = s.cursor
  BY <1>1, <1>3, FollowupTaskFacts
<1>5. /\ task' = [task EXCEPT ![t] = row] /\ Goes(w, "handed")
      /\ UNCHANGED history /\ UNCHANGED range
  BY DEF Followup
<1> HIDE DEF row, m
<1>6. row.hw \in Nat /\ task[t].hw <= row.hw /\ m <= row.hw
  BY <1>3, <1>4 DEF Larger
<1>7. Grows(t, task[t], row)
  BY <1>2, <1>4, <1>6 DEF Grows
<1>8. /\ RowsGrow
      /\ task'[t] = row /\ \A p \in TaskIds \ {t} : task'[p] = task[p]
  BY <1>1, <1>5, <1>7, OneRowGrows DEF TypeInv, TypeOK
<1>9. /\ HistoryGrows /\ OpenStays /\ HandedMoves
      /\ OwedStays /\ MainMoves
  BY <1>1, <1>5, <1>8, StillRanges, GrowingRows
<1>10. TakenStays
  BY <1>1, <1>9, TakenStep
<1>11. ReplayMoves
  <2> SUFFICES ASSUME NEW r \in Ranges, Closes(r)'
               PROVE  Closes(r)
    BY DEF ReplayMoves
  <2>1. Replay(r) \in TaskIds /\ Replay(r) # t
    BY <1>4, <1>8, IdFacts DEF Closes, Live
  <2> QED
    BY <1>5, <1>8, <2>1 DEF Closes, history
<1>12. ASSUME NEW e \in Scope(t), Taken(t.kind, e)
       PROVE  Taken(t.kind, e)'
  BY <1>1, <1>10, <1>12, IdFacts, ScopeFacts DEF TakenStays
<1>13. LinkedMoves
  <2>1. ASSUME t.of # Main, ~Live(task[t]) PROVE Passed(t)'
    <3> SUFFICES ASSUME NEW e \in Scope(t), e <= s.cursor
                 PROVE  /\ Taken(t.kind, e)'
                        /\ t.kind # Graphing => Taken(t.kind + 1, e)'
                        /\ t = Replay(t.of) => e \in covered'[t.kind]
      BY <1>2, <1>4, <1>8, <2>1 DEF Passed
    <3>1. Taken(t.kind, e)
      <4>1. ClaimPassed(w, q)
        BY <1>1 DEF Cover
      <4> QED
        BY <1>1, <1>2, <2>1, <4>1 DEF ClaimPassed
    <3>2. /\ q.of \in Ranges /\ q.of.kind \in Kinds /\ q.of.kind <= q.kind
          /\ q.kind \in Kinds /\ Replay(t.of).kind = q.of.kind
      BY <1>1, <1>2, <2>1, IdFacts
    <3>3. t # Replay(t.of)
      BY <1>2, <3>2, KindFacts
    <3>4. t.kind = Graphing
      <4> SUFFICES ASSUME t.kind # Graphing PROVE FALSE
        OBVIOUS
      <4>1. q.kind = Observing
        BY <1>1, <1>2, <3>2, KindFacts
      <4>2. Tied(q)
        BY <1>1, <1>2, <2>1 DEF Tied
      <4>3. s.cursor + 1 = q.of.from
        BY <1>1, <4>1, <4>2 DEF ClaimFits
      <4>4. q.of.from <= e /\ e \in Nat
        BY <1>1, <1>2, <2>1, <3>2, ScopeFacts, IdFacts, EventFacts
      <4> QED
        BY <1>3, <4>3, <4>4
    <3> QED
      BY <1>12, <3>1, <3>3, <3>4
  <2>2. ASSUME Live(task[t]) PROVE task'[t].cursor = task[t].cursor
    BY <1>4, <1>8, <2>2
  <2> QED
    BY <1>8, <2>1, <2>2 DEF LinkedMoves
<1>14. ClaimMoves
  <2>1. /\ worker'[w].pc = "handed"
        /\ worker'[w].task = q
        /\ worker'[w].cursor = s.cursor
        /\ worker'[w].input = s.input
        /\ \A v \in Workers \ {w} : worker'[v] = worker[v]
    BY <1>1, <1>5, GoesFacts DEF TypeInv, Places
  <2>2. ASSUME NEW p \in TaskIds
        PROVE  ClaimPassed(w, p)' /\ Handing(w, p)'
    <3>1. ClaimPassed(w, p)'
      BY <1>1, <1>10, <2>1, ClaimPassedStays DEF Cover
    <3>2. Handing(w, p)'
      <4> SUFFICES ASSUME p = q, NEW x \in s.input, NEW e \in Scope(q),
                          s.cursor < e, e <= x
                   PROVE  Taken(t.kind, e)'
        BY <1>2, <2>1 DEF Handing
      <4>1. /\ e \in Nat /\ x \in Nat /\ e \in Scope(t) /\ e \in Events
        BY <1>1, <1>2, ScopeFacts, EventFacts
      <4>2. e <= row.hw
        BY <1>3, <1>6, <4>1
      <4>3. CASE row.cursor < e
        BY <1>1, <1>4, <1>8, <4>1, <4>2, <4>3, StillOwed
      <4>4. CASE ~(row.cursor < e)
        <5>1. row.cursor = task[t].cursor /\ (Live(task[t]) \/ t.of = Main)
          BY <1>2, <1>4, <4>4
        <5>2. e <= task[t].cursor
          BY <1>3, <4>1, <4>4, <5>1
        <5>3. Taken(t.kind, e)
          <6>1. CASE t.of = Main
            <7>1. t = Primary(t.kind) /\ t.kind \in Kinds
              BY <1>1, <6>1, IdFacts
            <7>2. MainPassed(t.kind)
              BY <7>1 DEF Cover
            <7> QED
              BY <4>1, <5>2, <7>1, <7>2 DEF MainPassed
          <6>2. CASE t.of # Main
            <7>1. Passed(t)
              BY <1>1, <5>1, <6>2 DEF Cover
            <7> QED
              BY <4>1, <5>2, <7>1 DEF Passed
          <6> QED
            BY <6>1, <6>2
        <5> QED
          BY <1>12, <4>1, <5>3
      <4> QED
        BY <4>3, <4>4
    <3> QED
      BY <3>1, <3>2
  <2> QED
    BY <2>1, <2>2 DEF ClaimMoves, Carried, Busy, At
<1> QED
  BY <1>1, <1>9, <1>10, <1>11, <1>13, <1>14, CoverStep

LEMMA FollowupCover ==
    ASSUME Shape, Cover, NEW w \in Workers, Followup(w)
    PROVE  Cover'
BY FollowupOnRow

LEMMA RequeueCover ==
    ASSUME Shape, Cover, NEW r \in Ranges, AutoRetry(r) \/ RetryRange(r)
    PROVE  Cover'
<1> DEFINE t == Replay(r)
           row == ReplayTask(task[t], r.from, r.to)
<1>1. /\ Shape' /\ TypeInv /\ TypeInv' /\ Requeue(r) /\ ~Live(task[t])
  BY RequeueTypes, RequeueShape DEF Shape
<1>2. /\ t \in TaskIds /\ t.of = r /\ t.of # Main
      /\ r.from \in Nat /\ r.to \in Nat
      /\ task[t] \in TaskRow /\ range[r] \in RangeRow
  BY IdFacts, EventFacts DEF Shape, TypeInv, TypeOK
<1>3. /\ row.cursor = r.from - 1 /\ row.status = "pending"
  BY <1>1, <1>2, ReplayTaskFacts
<1>4. /\ task' = [task EXCEPT ![t] = row] /\ worker' = worker
      /\ range' = [range EXCEPT ![r] = RequeuedRange(range[r])]
      /\ UNCHANGED history
  BY <1>1 DEF Requeue
<1> HIDE DEF row
<1>5. Grows(t, task[t], row)
  BY <1>1, <1>2 DEF Grows
<1>6. /\ RowsGrow
      /\ task'[t] = row /\ \A p \in TaskIds \ {t} : task'[p] = task[p]
  BY <1>1, <1>2, <1>4, <1>5, OneRowGrows DEF TypeInv, TypeOK
<1>7. /\ range'[r].status = "requeued"
      /\ \A q \in Ranges \ {r} : range'[q] = range[q]
  BY <1>1, <1>2, <1>4, RequeuedRangeFacts DEF TypeInv, TypeOK
<1>8. OpenStays
  <2>1. \A q \in Ranges : Open(range[q]) => Open(range'[q])
    BY <1>7 DEF Open
  <2> QED
    BY <2>1, StillOpen DEF OpenStays
<1>9. HistoryGrows /\ HandedMoves
  BY <1>4 DEF HistoryGrows, HandedMoves, history
<1>10. OwedStays /\ MainMoves
  BY <1>1, <1>6, GrowingRows
<1>11. TakenStays
  BY <1>1, <1>8, <1>9, <1>10, TakenStep
<1>12. LinkedMoves
  <2>1. Passed(t)'
    <3>1. \A e \in Scope(t) : ~(e <= r.from - 1)
      BY <1>2, ScopeFacts, EventFacts
    <3> QED
      BY <1>3, <1>6, <3>1 DEF Passed
  <2> QED
    BY <1>6, <2>1 DEF LinkedMoves
<1>13. ReplayMoves
  <2> SUFFICES ASSUME NEW q \in Ranges, Closes(q)'
               PROVE  Closes(q)
    BY DEF ReplayMoves
  <2>1. q # r
    BY <1>3, <1>6 DEF Closes
  <2>2. Replay(q) \in TaskIds /\ Replay(q) # t
    BY <1>2, <2>1, IdFacts
  <2> QED
    BY <1>4, <1>6, <1>7, <2>1, <2>2 DEF Closes, history
<1> QED
  BY <1>1, <1>4, <1>9, <1>10, <1>11, <1>12, <1>13, IdleCarries, CoverStep

LEMMA QuarantineCover ==
    ASSUME Shape, Cover, NEW r \in Ranges, QuarantineRange(r)
    PROVE  Cover'
<1> DEFINE row == [range[r] EXCEPT !.status = "quarantined"]
<1>1. /\ Shape' /\ TypeInv /\ TypeInv' /\ head' = head /\ worker' = worker
      /\ task' = QuietSource(r, range')
      /\ range' = [range EXCEPT ![r] = row]
      /\ range \in [Ranges -> RangeRow] /\ range[r] \in RangeRow
      /\ UNCHANGED history
  BY QuarantineShape DEF QuarantineRange, Shape, TypeInv, TypeOK
<1>2. row.status = "quarantined"
  BY <1>1, ClosedRangeFacts
<1>3. /\ range'[r].status = "quarantined"
      /\ \A q \in Ranges \ {r} : range'[q] = range[q]
  <2> HIDE DEF row
  <2> QED
    BY <1>1, <1>2
<1>4. /\ RowsGrow /\ LinkedMoves
      /\ \A t \in TaskIds : t.of # r => Calm(t, task[t], task'[t])
  BY <1>1, ClearedRowsGrow
<1>5. OpenStays
  <2>1. \A q \in Ranges : Open(range[q]) => Open(range'[q])
    BY <1>3 DEF Open
  <2> QED
    BY <2>1, StillOpen DEF OpenStays
<1>6. HistoryGrows /\ HandedMoves
  BY <1>1 DEF HistoryGrows, HandedMoves, history
<1>7. OwedStays /\ MainMoves
  BY <1>1, <1>4, GrowingRows
<1>8. TakenStays
  BY <1>1, <1>5, <1>6, <1>7, TakenStep
<1>9. ReplayMoves
  <2> SUFFICES ASSUME NEW q \in Ranges, Closes(q)'
               PROVE  Closes(q)
    BY DEF ReplayMoves
  <2>1. q # r
    BY <1>3 DEF Closes
  <2>2. Replay(q) \in TaskIds /\ Replay(q).of = q /\ q # Main
    BY IdFacts
  <2>3. Calm(Replay(q), task[Replay(q)], task'[Replay(q)])
    BY <1>4, <2>1, <2>2
  <2> QED
    BY <1>1, <1>3, <2>1, <2>2, <2>3 DEF Closes, Calm, history
<1> QED
  BY <1>1, <1>4, <1>6, <1>7, <1>8, <1>9, IdleCarries, CoverStep

(* A range is closed when its replay and every follow-up is done: what it  *)
(* held is covered, or a follow-up had given up on it.                     *)
LEMMA ClosingCovers ==
    ASSUME Shape, Cover, NEW w \in Workers, MarkReplayed(w),
           NEW r, r = worker[w].task.of,
           task[worker[w].task].status = "done",
           range[r].status # "quarantined",
           \A t \in Linked(r) : task[t].status \in {"absent", "done"}
    PROVE  /\ r \in Ranges
           /\ task[Replay(r)].status = "done"
           /\ r \in lapsed \/ r.from .. r.to \subseteq covered[r.kind]
<1>1. /\ r \in Ranges /\ worker[w].task \in TaskIds
  BY MarkReplayedTypes, WorkerFacts DEF Shape, TypeInv
<1>2. r # Main /\ Replay(r) \in TaskIds /\ Replay(r).of = r
  BY <1>1, IdFacts
<1>3. task[Replay(r)].status # "absent"
  BY <1>1, <1>2 DEF Shape, TypeInv, Rooted
<1>4. task[Replay(r)].status = "done"
  BY <1>2, <1>3 DEF Linked
<1>5. ReplayCovers(r)
  BY <1>1 DEF Cover
<1> QED
  BY <1>1, <1>4, <1>5 DEF ReplayCovers, Closes

LEMMA ClosingCover ==
    ASSUME Shape, Cover, NEW w \in Workers, MarkReplayed(w),
           NEW r, r = worker[w].task.of,
           task[worker[w].task].status = "done",
           range[r].status # "quarantined",
           \A t \in Linked(r) : task[t].status \in {"absent", "done"}
    PROVE  Cover'
<1>1. /\ Shape' /\ TypeInv /\ TypeInv' /\ head' = head /\ Leaves(w)
      /\ task' = QuietSource(r, range')
      /\ range' = [range EXCEPT ![r] = ReplayedRange(range[r])]
      /\ range \in [Ranges -> RangeRow]
      /\ UNCHANGED history
  BY MarkShape DEF MarkReplayed, Shape, TypeInv, TypeOK
<1>2. /\ r \in Ranges
      /\ task[Replay(r)].status = "done"
      /\ r \in lapsed \/ r.from .. r.to \subseteq covered[r.kind]
  BY ClosingCovers
<1>3. \A q \in Ranges \ {r} : range'[q] = range[q]
  BY <1>1, <1>2
<1>4. /\ RowsGrow /\ LinkedMoves
      /\ \A t \in TaskIds : t.of # r \/ task[t].status # "failed" =>
           Calm(t, task[t], task'[t])
  BY <1>1, <1>2, ClearedRowsGrow
<1>5. RowsCalm
  <2>1. \A t \in TaskIds : t.of = r => task[t].status # "failed"
    BY DEF Linked
  <2> QED
    BY <1>4, <2>1 DEF RowsCalm
<1>6. HistoryGrows /\ HandedMoves
  BY <1>1 DEF HistoryGrows, HandedMoves, history
<1>7. OpenStays
  <2> SUFFICES ASSUME NEW q \in Ranges, Open(range[q]), NEW e \in q.from .. q.to
               PROVE  Taken(q.kind, e)'
    BY DEF OpenStays
  <2>1. CASE q # r
    BY <1>3, <2>1, StillOpen
  <2>2. CASE q = r
    <3>1. CASE r \in lapsed
      <4>1. r.kind <= r.kind
        BY <1>2, IdFacts, KindFacts
      <4>2. Lapsed(q.kind, e)'
        BY <1>1, <2>2, <3>1, <4>1 DEF Lapsed, history
      <4> QED
        BY <4>2 DEF Taken
    <3>2. CASE e \in covered[q.kind]
      BY <1>1, <3>2 DEF Taken, history
    <3> QED
      BY <1>2, <2>2, <3>1, <3>2
  <2> QED
    BY <2>1, <2>2
<1>8. OwedStays /\ MainMoves
  BY <1>1, <1>4, GrowingRows
<1>9. TakenStays
  BY <1>1, <1>6, <1>7, <1>8, TakenStep
<1>10. ReplayMoves
  <2> SUFFICES ASSUME NEW q \in Ranges, Closes(q)'
               PROVE  Closes(q)
    BY DEF ReplayMoves
  <2>1. Replay(q) \in TaskIds /\ Replay(q).of # Main
    BY IdFacts
  <2> QED
    BY <1>1, <1>3, <1>5, <2>1 DEF Closes, RowsCalm, Calm, history
<1> QED
  BY <1>1, <1>4, <1>6, <1>8, <1>9, <1>10, LeavesCarries, CoverStep

LEMMA MarkCover ==
    ASSUME Shape, Cover, NEW w \in Workers, MarkReplayed(w)
    PROVE  Cover'
<1> DEFINE closes == /\ task[worker[w].task].status = "done"
                     /\ range[worker[w].task.of].status # "quarantined"
                     /\ \A t \in Linked(worker[w].task.of) :
                          task[t].status \in {"absent", "done"}
<1>1. CASE closes
  BY <1>1, ClosingCover
<1>2. CASE ~closes
  <2>1. /\ TypeInv /\ Leaves(w) /\ task' = task
        /\ UNCHANGED history /\ UNCHANGED range
    BY <1>2 DEF Shape, MarkReplayed
  <2> QED
    BY <2>1, MarkShape, SameRowsGrow, LeavesCarries, CalmCover
<1> QED
  BY <1>1, <1>2

-----------------------------------------------------------------------------
(* The end of a run *)

(* A task that gave up leaves its claim to a range, or its range lapses.   *)
LEMMA ExhaustLeaves ==
    ASSUME Shape, NEW w \in Workers, NEW class \in FailureClasses,
           Exhaust(w, class), NEW q, q = worker[w].task
    PROVE  /\ HistoryGrows /\ OpenStays
           /\ \A r \in Ranges : range'[r].status # "quarantined" =>
                \/ range[r].status # "quarantined"
                \/ q = Replay(r)
                \/ r \in lapsed'
           /\ \A e \in Scope(q) :
                worker[w].cursor < e /\ e <= worker[w].hw => Taken(q.kind, e)'
           /\ q.of # Main => \A e \in Scope(q) : Taken(q.kind, e)'
<1> DEFINE s == worker[w]
           lost == [kind |-> s.task.kind, from |-> s.cursor + 1, to |-> s.hw]
<1>1. /\ TypeInv /\ Busy(w) /\ q \in TaskIds
      /\ s.attempts + 1 \in Nat
      /\ range \in [Ranges -> RangeRow]
      /\ s.cursor \in Nat /\ s.hw \in Nat
  <2>1. TypeInv /\ Busy(w) /\ range \in [Ranges -> RangeRow]
    BY DEF Exhaust, Failing, Busy, At, Shape, TypeInv, TypeOK
  <2> QED
    BY <2>1, WorkerFacts, EventFacts DEF TypeInv
<1>2. HistoryGrows
  BY DEF HistoryGrows, Exhaust
<1>3. CASE q.of # Main
  <2>1. /\ q.of \in Ranges /\ q.of.kind <= q.kind
        /\ Scope(q) = q.of.from .. q.of.to
    BY <1>1, <1>3, IdFacts, ScopeFacts
  <2>2. range' = [range EXCEPT ![q.of] =
                    FailedRange(range[q.of], s.attempts + 1, class)]
    BY <1>3 DEF Exhaust
  <2>3. FailedRange(range[q.of], s.attempts + 1, class).status = "failed"
    BY <1>1, <2>1, FailingRangeFacts
  <2>4. /\ range'[q.of].status = "failed"
        /\ \A r \in Ranges \ {q.of} : range'[r] = range[r]
    BY <1>1, <2>1, <2>2, <2>3
  <2>5. OpenStays
    <3>1. \A r \in Ranges : Open(range[r]) => Open(range'[r])
      BY <2>4 DEF Open
    <3> QED
      BY <3>1, StillOpen DEF OpenStays
  <2>6. ASSUME NEW e \in Scope(q) PROVE Taken(q.kind, e)'
    <3>1. CASE q = Replay(q.of)
      <4>1. q.kind = q.of.kind /\ Open(range'[q.of])
        BY <2>1, <2>4, <3>1, IdFacts DEF Open
      <4>2. Taken(q.of.kind, e)'
        BY <2>1, <4>1, StillOpen
      <4> QED
        BY <4>1, <4>2
    <3>2. CASE q # Replay(q.of)
      <4>1. q.of \in lapsed'
        BY <1>3, <3>2 DEF Exhaust
      <4>2. Lapsed(q.kind, e)'
        BY <2>1, <4>1 DEF Lapsed
      <4> QED
        BY <4>2 DEF Taken
    <3> QED
      BY <3>1, <3>2
  <2>7. \A r \in Ranges : range'[r].status # "quarantined" =>
          \/ range[r].status # "quarantined" \/ q = Replay(r) \/ r \in lapsed'
    <3> SUFFICES ASSUME NEW r \in Ranges, range'[r].status # "quarantined",
                        range[r].status = "quarantined", q # Replay(r)
                 PROVE  r \in lapsed'
      OBVIOUS
    <3>1. r = q.of
      BY <2>4
    <3> QED
      BY <1>3, <3>1 DEF Exhaust
  <2> QED
    BY <1>2, <1>3, <2>5, <2>6, <2>7
<1>4. CASE q.of = Main
  <2>1. CASE s.cursor < s.hw
    <3>1. /\ lost \in Ranges /\ lost.kind = q.kind
          /\ lost.from .. lost.to = Span(w)
      BY <1>1, <2>1, LostRange DEF Kind
    <3>2. range' = [range EXCEPT ![lost] = RecordedRange(range[lost], class)]
      BY <1>4, <2>1 DEF Exhaust
    <3> HIDE DEF lost
    <3>3. RecordedRange(range[lost], class).status =
            IF range[lost].status = "quarantined" THEN "quarantined"
            ELSE "pending"
      <4>1. range[lost] \in RangeRow /\ 0 \in Nat
        BY <1>1, <3>1
      <4> QED
        BY <4>1, FailingRangeFacts
    <3>4. /\ Open(range'[lost])
          /\ range'[lost].status # "quarantined" =>
               range[lost].status # "quarantined"
          /\ \A r \in Ranges \ {lost} : range'[r] = range[r]
      BY <1>1, <3>1, <3>2, <3>3 DEF Open
    <3>5. OpenStays
      <4>1. \A r \in Ranges : Open(range[r]) => Open(range'[r])
        BY <3>4 DEF Open
      <4> QED
        BY <4>1, StillOpen DEF OpenStays
    <3>6. ASSUME NEW e \in Scope(q), s.cursor < e, e <= s.hw
          PROVE  Taken(q.kind, e)'
      <4>1. e \in Nat
        BY <1>1, ScopeFacts, EventFacts
      <4>2. e \in lost.from .. lost.to
        BY <1>1, <3>1, <3>6, <4>1, SpanFacts
      <4> QED
        <5>1. \A r \in Ranges : r = lost => Taken(r.kind, e)'
          BY <3>4, <4>2, StillOpen
        <5> QED
          BY <3>1, <5>1
    <3>7. \A r \in Ranges : range'[r].status # "quarantined" =>
            range[r].status # "quarantined"
      BY <3>4
    <3> QED
      BY <1>2, <1>4, <3>5, <3>6, <3>7
  <2>2. CASE ~(s.cursor < s.hw)
    <3>1. range' = range
      BY <1>4, <2>2 DEF Exhaust
    <3>2. OpenStays
      BY <3>1, StillOpen DEF OpenStays
    <3>3. \A e \in Scope(q) : ~(s.cursor < e /\ e <= s.hw)
      BY <1>1, <2>2, ScopeFacts, EventFacts
    <3> QED
      BY <1>2, <1>4, <3>1, <3>2, <3>3
  <2> QED
    BY <2>1, <2>2
<1> QED
  BY <1>3, <1>4

LEMMA ExhaustOnRow ==
    ASSUME Shape, Cover, NEW w \in Workers, NEW class \in FailureClasses,
           Exhaust(w, class), NEW q, q = worker[w].task
    PROVE  Cover'
<1> DEFINE s == worker[w]
           row == ExhaustedTask(task[q], s.hw, s.attempts + 1, class)
<1>1. /\ Shape' /\ TypeInv /\ TypeInv' /\ Leaves(w)
      /\ ClaimFits(s) /\ Current(w, s, task[q])
      /\ q \in TaskIds /\ task[q] \in TaskRow /\ RowFits(q, task[q])
      /\ s.hw \in Cursors /\ s.attempts + 1 \in Nat
      /\ task[q].hw \in Nat /\ s.hw \in Nat /\ s.cursor \in Nat
      /\ \A t \in TaskIds : task[t].cursor \in Nat /\ task[t].hw \in Nat
  <2>1. TypeInv /\ Busy(w) /\ Leaves(w)
    BY DEF Exhaust, Failing, Busy, At, Shape
  <2>2. Shape' /\ TypeInv'
    BY ExhaustShape DEF Shape
  <2>3. /\ q \in TaskIds /\ s.hw \in Cursors /\ s.attempts + 1 \in Nat
        /\ s.hw \in Nat /\ s.cursor \in Nat
    BY <2>1, WorkerFacts, EventFacts DEF TypeInv
  <2>4. \A t \in TaskIds : /\ task[t] \in TaskRow
                           /\ task[t].cursor \in Nat /\ task[t].hw \in Nat
    BY <2>1, EventFacts DEF TypeInv, TypeOK, TaskRow
  <2>5. ClaimFits(s) /\ Current(w, s, task[q]) /\ RowFits(q, task[q])
    BY <2>1, <2>3 DEF Shape, ClaimsFit, RowsFit
  <2> QED
    BY <2>1, <2>2, <2>3, <2>4, <2>5
<1>2. /\ Live(task[q]) /\ task[q].status # "absent"
      /\ task[q].cursor = s.cursor /\ s.hw <= task[q].hw
      /\ task' = [task EXCEPT ![q] = row]
      /\ handed' = handed /\ covered' = covered
  BY <1>1 DEF Exhaust, Owns, Current, Live
<1>3. /\ row.cursor = s.hw /\ row.hw = task[q].hw
      /\ row.status = IF task[q].hw > s.hw THEN "pending" ELSE "failed"
  BY <1>1, ExhaustedFacts
<1> HIDE DEF row
<1>4. task'[q] = row /\ \A t \in TaskIds \ {q} : task'[t] = task[t]
  BY <1>1, <1>2 DEF TypeInv, TypeOK
<1>5. /\ HistoryGrows /\ OpenStays
      /\ \A r \in Ranges : range'[r].status # "quarantined" =>
           \/ range[r].status # "quarantined" \/ q = Replay(r) \/ r \in lapsed'
      /\ \A e \in Scope(q) : s.cursor < e /\ e <= s.hw => Taken(q.kind, e)'
      /\ q.of # Main => \A e \in Scope(q) : Taken(q.kind, e)'
  BY ExhaustLeaves
<1>6. OwedStays
  <2> SUFFICES ASSUME NEW t \in TaskIds, Live(task[t]), NEW e \in Scope(t),
                      task[t].cursor < e, e <= task[t].hw
               PROVE  Taken(t.kind, e)'
    BY DEF OwedStays
  <2>1. e \in Nat
    BY ScopeFacts, EventFacts
  <2>2. CASE t # q
    BY <1>1, <1>4, <2>2, StillOwed
  <2>3. CASE t = q /\ e <= s.hw
    BY <1>2, <1>5, <2>3
  <2>4. CASE t = q /\ ~(e <= s.hw)
    <3>1. s.hw < e /\ task[q].hw > s.hw
      BY <1>1, <2>1, <2>4
    <3>2. Live(row) /\ row.cursor < e /\ e <= row.hw
      BY <1>3, <2>4, <3>1 DEF Live
    <3> QED
      BY <1>1, <1>4, <2>4, <3>2, StillOwed
  <2> QED
    BY <2>2, <2>3, <2>4
<1>7. TakenStays
  BY <1>1, <1>5, <1>6, TakenStep
<1>8. MainMoves
  <2> SUFFICES ASSUME NEW k \in Kinds, q = Primary(k)
               PROVE  MainPassed(k)'
    BY <1>4, IdFacts DEF MainMoves
  <2>1. q.kind = k /\ q.of = Main /\ MainPassed(k)
    BY IdFacts DEF Cover
  <2> SUFFICES ASSUME NEW e \in Events, e <= s.hw
               PROVE  Taken(k, e)'
    BY <1>3, <1>4 DEF MainPassed
  <2>2. e \in Nat /\ e \in Scope(q)
    BY <1>1, <2>1, ScopeFacts, EventFacts
  <2>3. CASE e <= s.cursor
    BY <1>2, <1>7, <2>1, <2>3 DEF MainPassed, TakenStays
  <2>4. CASE s.cursor < e
    BY <1>5, <2>1, <2>2, <2>4
  <2> QED
    BY <1>1, <2>2, <2>3, <2>4
<1>9. LinkedMoves
  <2>1. ASSUME q.of # Main, Live(row) PROVE Passed(q)'
    <3>1. ~Tied(q)
      <4> SUFFICES ASSUME Tied(q) PROVE FALSE
        OBVIOUS
      <4>1. task[q].hw = s.hw
        BY <1>1, <1>2 DEF RowFits, ClaimFits
      <4> QED
        BY <1>1, <1>3, <2>1, <4>1 DEF Live
    <3> QED
      BY <1>5, <2>1, <3>1 DEF Tied, Passed
  <2> QED
    BY <1>4, <2>1 DEF LinkedMoves
<1>10. ReplayMoves
  <2> SUFFICES ASSUME NEW r \in Ranges, Closes(r)'
               PROVE  Closes(r)
    BY DEF ReplayMoves
  <2>1. Replay(r) \in TaskIds /\ Replay(r) # q
    BY <1>3, <1>4, IdFacts DEF Closes
  <2> QED
    BY <1>4, <1>5, <2>1 DEF Closes, HistoryGrows
<1>11. HandedMoves
  BY <1>2 DEF HandedMoves
<1> QED
  BY <1>1, <1>7, <1>8, <1>9, <1>10, <1>11, LeavesCarries, CoverStep

LEMMA ExhaustCover ==
    ASSUME Shape, Cover, NEW w \in Workers, NEW class \in FailureClasses,
           Exhaust(w, class)
    PROVE  Cover'
BY ExhaustOnRow

(* A run that is done has covered all that its cursor passes.              *)
LEMMA DoneCovers ==
    ASSUME Shape, NEW w \in Workers, Busy(w), Done(w),
           worker[w].pc \in {"running", "loaded", "handed"},
           NEW q, q = worker[w].task
    PROVE  /\ HistoryGrows /\ OpenStays
           /\ \A e \in Events :
                worker[w].cursor < e /\ e <= worker[w].upto =>
                  e \in covered'[q.kind]
<1> DEFINE s == worker[w]
<1>1. /\ TypeInv /\ q \in TaskIds /\ q.kind \in Kinds
      /\ s.cursor \in Nat /\ s.hw \in Nat /\ s.upto \in Nat
      /\ ClaimFits(s)
      /\ covered \in [Kinds -> SUBSET Events]
  <2>1. TypeInv /\ ClaimFits(s)
    BY DEF Shape, ClaimsFit
  <2> QED
    BY <2>1, WorkerFacts, EventFacts, IdFacts DEF TypeInv, TypeOK
<1>2. covered'[q.kind] =
        covered[q.kind] \union (Span(w) \intersect 1 .. s.upto) \union s.input
      /\ \A k \in Kinds \ {q.kind} : covered'[k] = covered[k]
  BY <1>1 DEF Done, Kind
<1>3. HistoryGrows
  BY <1>2 DEF HistoryGrows, Done
<1>4. OpenStays
  <2>1. range' = range
    BY DEF Done
  <2> QED
    BY <2>1, StillOpen DEF OpenStays
<1>5. ASSUME NEW e \in Events, s.cursor < e, e <= s.upto
      PROVE  e \in covered'[q.kind]
  <2>1. e \in Nat /\ 1 <= e
    BY EventFacts
  <2>2. CASE e <= s.hw
    <3>1. e \in Span(w) /\ e \in 1 .. s.upto
      BY <1>1, <1>5, <2>1, <2>2, SpanFacts
    <3> QED
      BY <1>2, <3>1
  <2>3. CASE s.hw < e
    <3>1. s.upto # s.hw
      BY <1>1, <1>5, <2>1, <2>3
    <3>2. s.pc = "handed" /\ s.upto \in s.input
      BY <1>1, <3>1 DEF ClaimFits
    <3>3. e \in s.input
      BY <1>1, <1>5, <2>3, <3>2 DEF ClaimFits
    <3> QED
      BY <1>2, <3>3
  <2> QED
    BY <1>1, <2>1, <2>2, <2>3
<1> QED
  BY <1>3, <1>4, <1>5

LEMMA DoneOnRow ==
    ASSUME Shape, Cover, NEW w \in Workers,
           EmptyRange(w) \/ NothingToHandOn(w) \/ HandedOn(w),
           NEW q, q = worker[w].task
    PROVE  Cover'
<1> DEFINE s == worker[w]
           row == Completed(task[q], s.upto)
<1>1. /\ TypeInv /\ Busy(w) /\ Done(w) /\ Shape' /\ TypeInv'
      /\ s.pc \in {"running", "loaded", "handed"}
  BY CompletionTypes, DoneShape
     DEF Shape, EmptyRange, NothingToHandOn, HandedOn, At
<1>2. /\ q \in TaskIds /\ q.kind \in Kinds
      /\ s.cursor \in Nat /\ s.hw \in Nat /\ s.upto \in Nat /\ s.upto \in Cursors
      /\ s.input \subseteq Events
      /\ \A t \in TaskIds : /\ task[t] \in TaskRow
                            /\ task[t].cursor \in Nat /\ task[t].hw \in Nat
  <2>1. \A t \in TaskIds : /\ task[t] \in TaskRow
                           /\ task[t].cursor \in Nat /\ task[t].hw \in Nat
    BY <1>1, EventFacts DEF TypeInv, TypeOK, TaskRow
  <2> QED
    BY <1>1, <2>1, WorkerFacts, EventFacts, IdFacts DEF TypeInv
<1>3. ClaimFits(s) /\ Current(w, s, task[q]) /\ RowFits(q, task[q])
  BY <1>1, <1>2 DEF Shape, ClaimsFit, RowsFit
<1>4. /\ Live(task[q]) /\ task[q].status # "absent"
      /\ task[q].cursor = s.cursor /\ s.hw <= task[q].hw
      /\ task' = [task EXCEPT ![q] = row] /\ range' = range /\ lapsed' = lapsed
  BY <1>1, <1>3 DEF Done, Owns, Current, Live
<1>5. /\ row.cursor = s.upto /\ row.hw = task[q].hw
      /\ row.status = IF task[q].hw > s.upto THEN "pending" ELSE "done"
  BY <1>2, CompletedFacts
<1> HIDE DEF row
<1>6. task'[q] = row /\ \A t \in TaskIds \ {q} : task'[t] = task[t]
  BY <1>1, <1>2, <1>4 DEF TypeInv, TypeOK
<1>7. /\ HistoryGrows /\ OpenStays
      /\ \A e \in Events : s.cursor < e /\ e <= s.upto => e \in covered'[q.kind]
  BY <1>1, DoneCovers
<1>8. OwedStays
  <2> SUFFICES ASSUME NEW t \in TaskIds, Live(task[t]), NEW e \in Scope(t),
                      task[t].cursor < e, e <= task[t].hw
               PROVE  Taken(t.kind, e)'
    BY DEF OwedStays
  <2>1. e \in Nat /\ e \in Events
    BY ScopeFacts, EventFacts
  <2>2. CASE t # q
    BY <1>1, <1>6, <2>2, StillOwed
  <2>3. CASE t = q /\ e <= s.upto
    BY <1>4, <1>7, <2>1, <2>3 DEF Taken
  <2>4. CASE t = q /\ ~(e <= s.upto)
    <3>1. s.upto < e /\ task[q].hw > s.upto
      BY <1>2, <2>1, <2>4
    <3>2. Live(row) /\ row.cursor < e /\ e <= row.hw
      BY <1>5, <2>4, <3>1 DEF Live
    <3> QED
      BY <1>1, <1>6, <2>4, <3>2, StillOwed
  <2> QED
    BY <2>2, <2>3, <2>4
<1>9. TakenStays
  BY <1>1, <1>7, <1>8, TakenStep
<1>10. MainMoves
  <2> SUFFICES ASSUME NEW k \in Kinds, q = Primary(k)
               PROVE  MainPassed(k)'
    BY <1>6, IdFacts DEF MainMoves
  <2>1. q.kind = k /\ MainPassed(k)
    BY IdFacts DEF Cover
  <2> SUFFICES ASSUME NEW e \in Events, e <= s.upto
               PROVE  Taken(k, e)'
    BY <1>5, <1>6 DEF MainPassed
  <2>2. e \in Nat
    BY EventFacts
  <2>3. CASE e <= s.cursor
    BY <1>4, <1>9, <2>1, <2>3 DEF MainPassed, TakenStays
  <2>4. CASE s.cursor < e
    BY <1>7, <2>1, <2>4 DEF Taken
  <2> QED
    BY <1>2, <2>2, <2>3, <2>4
<1>11. ASSUME q.of # Main, NEW e \in Scope(q), e <= s.cursor
       PROVE  /\ Taken(q.kind, e)'
              /\ q.kind # Graphing => Taken(q.kind + 1, e)'
              /\ q = Replay(q.of) => e \in covered'[q.kind]
  <2>1. Passed(q)
    BY <1>2, <1>4, <1>11 DEF Cover
  <2>2. /\ Taken(q.kind, e)
        /\ q.kind # Graphing => Taken(q.kind + 1, e)
        /\ q = Replay(q.of) => e \in covered[q.kind]
    BY <1>4, <1>11, <2>1 DEF Passed
  <2>3. e \in Events /\ (q.kind # Graphing => q.kind + 1 \in Kinds)
    BY <1>2, ScopeFacts
  <2>4. Taken(q.kind, e)'
    BY <1>2, <1>9, <2>2, <2>3 DEF TakenStays
  <2>5. q.kind # Graphing => Taken(q.kind + 1, e)'
    BY <1>9, <2>2, <2>3 DEF TakenStays
  <2>6. q = Replay(q.of) => e \in covered'[q.kind]
    BY <1>2, <1>9, <2>2 DEF TakenStays
  <2> QED
    BY <2>4, <2>5, <2>6
<1>12. ASSUME s.pc = "handed", NEW x \in s.input, NEW e \in Scope(q),
              s.cursor < e, e <= x
       PROVE  q.kind # Graphing /\ Taken(q.kind + 1, e)'
  <2>1. q.kind # Graphing
    BY <1>1, <1>12 DEF TypeInv, AllSound, ClaimSound
  <2>2. Handing(w, q)
    BY <1>1, <1>2 DEF Cover
  <2>3. Taken(q.kind + 1, e)
    BY <1>12, <2>2 DEF Handing, At
  <2> QED
    BY <1>2, <1>9, <2>1, <2>3, ScopeFacts DEF TakenStays
<1>13. LinkedMoves
  <2>1. ASSUME q.of # Main, Live(row) PROVE Passed(q)'
    <3> SUFFICES ASSUME NEW e \in Scope(q), e <= s.upto
                 PROVE  /\ Taken(q.kind, e)'
                        /\ q.kind # Graphing => Taken(q.kind + 1, e)'
                        /\ q = Replay(q.of) => e \in covered'[q.kind]
      BY <1>5, <1>6 DEF Passed
    <3>1. e \in Nat /\ e \in Events
      BY <1>2, ScopeFacts, EventFacts
    <3>2. CASE e <= s.cursor
      BY <1>11, <2>1, <3>2
    <3>3. CASE s.cursor < e
      <4>1. e \in covered'[q.kind]
        BY <1>7, <3>1, <3>3
      <4>2. q.kind # Graphing => Taken(q.kind + 1, e)'
        <5> SUFFICES ASSUME q.kind # Graphing PROVE Taken(q.kind + 1, e)'
          OBVIOUS
        <5>1. Tied(q)
          BY <2>1 DEF Tied
        <5>2. task[q].hw = s.hw
          BY <1>3, <1>4, <5>1 DEF RowFits, ClaimFits
        <5>3. task[q].hw > s.upto
          BY <1>5, <2>1 DEF Live
        <5>4. s.upto # s.hw
          BY <1>2, <5>2, <5>3
        <5>5. s.pc = "handed" /\ s.upto \in s.input
          BY <1>1, <1>3, <5>4 DEF ClaimFits
        <5> QED
          BY <1>12, <3>3, <5>5
      <4> QED
        BY <4>1, <4>2 DEF Taken
    <3> QED
      BY <1>2, <3>1, <3>2, <3>3
  <2> QED
    BY <1>6, <2>1 DEF LinkedMoves
<1>14. ReplayMoves
  <2> SUFFICES ASSUME NEW r \in Ranges, Closes(r)'
               PROVE  Closes(r) \/ r.from .. r.to \subseteq covered'[r.kind]
    BY DEF ReplayMoves
  <2>1. Replay(r) \in TaskIds /\ Replay(r).of = r /\ r # Main
        /\ Replay(r).kind = r.kind
    BY IdFacts
  <2>2. CASE Replay(r) # q
    BY <1>4, <1>6, <2>1, <2>2 DEF Closes
  <2>3. CASE Replay(r) = q
    <3>1. ~(task[q].hw > s.upto)
      BY <1>5, <1>6, <2>3 DEF Closes
    <3>2. task[q].hw = r.to
      BY <1>3, <1>4, <2>1, <2>3 DEF RowFits, Tied
    <3>3. Scope(q) = r.from .. r.to
      BY <1>2, <2>1, <2>3, ScopeFacts
    <3>4. ASSUME NEW e \in Scope(q) PROVE e \in covered'[q.kind]
      <4>1. e \in Nat /\ e \in Events /\ r.to \in Nat /\ e <= r.to
        BY <1>2, <3>3, IdFacts, ScopeFacts, EventFacts
      <4>2. e <= s.upto
        BY <1>2, <3>1, <3>2, <4>1
      <4>3. CASE e <= s.cursor
        BY <1>11, <2>1, <2>3, <4>3
      <4>4. CASE s.cursor < e
        BY <1>7, <4>1, <4>2, <4>4
      <4> QED
        BY <1>2, <4>1, <4>3, <4>4
    <3> QED
      BY <2>1, <2>3, <3>3, <3>4
  <2> QED
    BY <2>2, <2>3
<1>15. ClaimMoves
  <2>1. CASE q.of = Main
    <3>1. Leaves(w)
      BY <1>1, <2>1 DEF Done
    <3> QED
      BY <1>1, <3>1, LeavesCarries
  <2>2. CASE q.of # Main
    <3>1. Goes(w, "marking") /\ "marking" \in Places
      BY <1>1, <2>2 DEF Done, Places
    <3> QED
      BY <1>1, <3>1, GoesFacts, GoesCarries DEF TypeInv
  <2> QED
    BY <2>1, <2>2
<1>16. HandedMoves
  <2>1. CASE handed' = handed
    BY <2>1 DEF HandedMoves
  <2>2. CASE HandedOn(w)
    <3> SUFFICES ASSUME NEW k \in {Observing, Remembering}, NEW e \in handed'[k],
                        e \notin handed[k]
                 PROVE  Taken(k + 1, e)'
      BY DEF HandedMoves
    <3>1. handed \in [Kinds -> SUBSET Events]
      BY <1>1 DEF TypeInv, TypeOK
    <3>2. k = q.kind /\ e \in Span(w) /\ e \in s.input
      BY <2>2, <3>1, KindFacts DEF HandedOn, Kind
    <3>3. s.pc = "handed" /\ q.kind # Graphing
      BY <2>2, <3>2, KindFacts DEF HandedOn, At
    <3>4. e \in Events /\ e \in Nat /\ s.cursor < e /\ e <= s.hw /\ e <= e
      BY <1>1, <3>2, SpanFacts, EventFacts
    <3>5. e \in Scope(q)
      <4>1. CASE q.of = Main
        BY <1>2, <3>4, <4>1, ScopeFacts
      <4>2. CASE q.of # Main
        <5>1. s.hw = q.of.to /\ q.of.from <= s.cursor + 1
          BY <1>3, <3>3, <4>2 DEF ClaimFits, Tied
        <5>2. q.of.from \in Nat /\ q.of.to \in Nat
          BY <1>2, <4>2, IdFacts, EventFacts
        <5>3. e \in q.of.from .. q.of.to
          BY <1>2, <3>4, <5>1, <5>2
        <5> QED
          BY <1>2, <4>2, <5>3, ScopeFacts
      <4> QED
        BY <4>1, <4>2
    <3> QED
      BY <1>12, <3>2, <3>3, <3>4, <3>5
  <2> QED
    BY <2>1, <2>2 DEF EmptyRange, NothingToHandOn
<1> QED
  BY <1>1, <1>9, <1>10, <1>13, <1>14, <1>15, <1>16, CoverStep

LEMMA DoneCover ==
    ASSUME Shape, Cover, NEW w \in Workers,
           EmptyRange(w) \/ NothingToHandOn(w) \/ HandedOn(w)
    PROVE  Cover'
BY DoneOnRow

-----------------------------------------------------------------------------
LEMMA InitCover ==
    ASSUME Init
    PROVE  Cover
<1>1. \A t \in TaskIds : task[t].status = "absent" /\ task[t].cursor = 0
  BY DEF Init, NoTask
<1>2. \A k \in Kinds : MainPassed(k)
  BY <1>1, IdFacts, EventFacts DEF MainPassed
<1>3. \A t \in TaskIds : ~Live(task[t])
  BY <1>1 DEF Live
<1>4. \A w \in Workers : ~Busy(w)
  BY IdleType DEF Init, Busy, At
<1>5. \A r \in Ranges : ReplayCovers(r)
  BY <1>1, IdFacts DEF ReplayCovers, Closes
<1>6. HandedOnIsTaken
  BY KindFacts DEF Init, HandedOnIsTaken
<1> QED
  BY <1>2, <1>3, <1>4, <1>5, <1>6 DEF Cover

LEMMA CoverNext ==
    ASSUME Shape, Cover, [Next]_vars
    PROVE  Cover'
<1>1. ASSUME NEW w \in Workers, Works(w) PROVE Cover'
  BY <1>1, LoadCover, WriteCover, FollowupCover, DoneCover, MarkCover,
     RetryCover, ExhaustCover, WaitCover, LeavingCover
     DEF Works
<1> QED
  BY <1>1, CaptureCover, ClaimCover, LeavingCover, ReleaseCover, RequeueCover,
     QuarantineCover, ReviewCover
     DEF Next

(* Third layer: what lies behind a cursor was passed by its stage, and     *)
(* what a stage handed on the next one has passed or is still owed.        *)
THEOREM CoverHolds == Spec => []Cover
BY InitShape, InitCover, ShapeStep, CoverNext, PTL DEF Spec

(* However leases, failures, replays and the operator interleave with the  *)
(* unguarded upsert of the follow-up, every event a stage handed on is     *)
(* read by the next stage, or still ahead of one of its live tasks, or in  *)
(* a range that is not replayed; unless a follow-up of its range gave up.  *)
THEOREM NothingIsLostBetweenStages == Spec => []HandedOnIsTaken
BY CoverHolds, PTL DEF Cover

=============================================================================
