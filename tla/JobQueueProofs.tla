--------------------------- MODULE JobQueueProofs ---------------------------
(***************************************************************************)
(* Theorems about JobQueue, for any number of workers, rows, attempts and  *)
(* any set of identities in use.                                           *)
(***************************************************************************)
EXTENDS JobQueue, TLAPS

ActiveStates == {"pending", "processing"}

(* States of other rows of its kind that exclude a row. *)
Excludes(row) == IF row.kind = "compile_rules" THEN {row.state}
                                               ELSE ActiveStates

(* An active row still has an attempt to spend. *)
BudgetLeft ==
    \A j \in Jobs : job[j].state \in ActiveStates =>
                      job[j].attempts < MaxAttempts

(* A cleanup that failed for a passing reason has spent its whole budget,  *)
(* so recovery leaves it alone.                                            *)
CleanupSpent ==
    \A j \in Jobs :
      job[j].kind = "cleanup" /\ job[j].state = "failed"
        /\ job[j].class = "transient" => job[j].attempts >= AutoRetries

(* After a cleanup no other is active until the window opens again. *)
CleanupRests ==
    \/ cleanups = 0
    \/ cleanups = 1 /\ "cleanup" \in cooling /\ Active("cleanup") = {}

IInv == /\ TypeOK
        /\ BudgetLeft
        /\ IdentityIsExclusive
        /\ CompileRequestIsOwed
        /\ CleanupSpent
        /\ CleanupRests

-----------------------------------------------------------------------------
(* Rows *)

LEMMA FreshRow ==
    ASSUME NEW k \in AllKinds, NEW p \in Profiles \union {NoProfile}
    PROVE  /\ NoJob \in JobRow /\ Fresh(k, p) \in JobRow
           /\ Fresh(k, p).state = "pending" /\ Fresh(k, p).kind = k
           /\ Fresh(k, p).attempts = 0
<1>1. NoJob \in JobRow /\ NoJob.attempts = 0
  BY JobQueueAssumption DEF NoJob, JobRow, AllKinds, Classes
<1>2. QED
  BY <1>1 DEF Fresh, JobRow

LEMMA LeasedRow ==
    ASSUME NEW row \in JobRow, NEW w \in Workers
    PROVE  /\ Leased(row, w) \in JobRow
           /\ Leased(row, w).state = "processing"
           /\ Leased(row, w).kind = row.kind
           /\ Leased(row, w).attempts = row.attempts
BY DEF Leased, JobRow

LEMMA UnleasedRow ==
    ASSUME NEW row \in JobRow
    PROVE  /\ Unleased(row) \in JobRow
           /\ Unleased(row).kind = row.kind
           /\ Unleased(row).attempts = row.attempts
           /\ Unleased(row).class = row.class
BY DEF Unleased, JobRow

LEMMA FinishedRow ==
    ASSUME NEW row \in JobRow
    PROVE  /\ Finished(row) \in JobRow
           /\ Finished(row).state = "done" /\ Finished(row).kind = row.kind
BY UnleasedRow DEF Finished, JobRow, Classes

LEMMA FailedRow ==
    ASSUME NEW row \in JobRow, NEW n \in 0 .. MaxAttempts, NEW c \in Classes
    PROVE  /\ Failed(row, n, c) \in JobRow
           /\ Failed(row, n, c).state = "failed"
           /\ Failed(row, n, c).kind = row.kind
           /\ Failed(row, n, c).attempts = n
           /\ Failed(row, n, c).class = c
<1>1. /\ Unleased(row) \in JobRow
      /\ Unleased(row).kind = row.kind
  BY UnleasedRow
<1>2. DOMAIN Unleased(row) = {"state", "kind", "owner", "expired", "attempts",
                             "class", "archived", "profile"}
  BY <1>1 DEF JobRow
<1>3. /\ Failed(row, n, c).state = "failed"
      /\ Failed(row, n, c).kind = row.kind
      /\ Failed(row, n, c).attempts = n
      /\ Failed(row, n, c).class = c
  BY <1>1, <1>2 DEF Failed
<1>4. Failed(row, n, c) \in JobRow
  BY <1>1 DEF Failed, JobRow
<1>5. QED
  BY <1>3, <1>4

LEMMA RequeuedRow ==
    ASSUME NEW row \in JobRow, NEW n \in 0 .. MaxAttempts
    PROVE  /\ Requeued(row, n) \in JobRow
           /\ Requeued(row, n).state = "pending"
           /\ Requeued(row, n).kind = row.kind
           /\ Requeued(row, n).attempts = n
BY UnleasedRow DEF Requeued, JobRow, Classes

LEMMA ReleasedRow ==
    ASSUME NEW row \in JobRow
    PROVE  /\ Released(row) \in JobRow
           /\ Released(row).state = "pending"
           /\ Released(row).kind = row.kind
           /\ Released(row).attempts = row.attempts
BY UnleasedRow DEF Released, JobRow

LEMMA ReprofiledRow ==
    ASSUME NEW row \in JobRow, NEW p \in Profiles \union {NoProfile}
    PROVE  /\ Reprofiled(row, p) \in JobRow
           /\ Reprofiled(row, p).state = row.state
           /\ Reprofiled(row, p).kind = row.kind
           /\ Reprofiled(row, p).attempts = row.attempts
           /\ Reprofiled(row, p).class = row.class
BY DEF Reprofiled, JobRow

LEMMA TouchedRow ==
    ASSUME NEW row \in JobRow
    PROVE  /\ [row EXCEPT !.expired = TRUE] \in JobRow
           /\ [row EXCEPT !.archived = TRUE] \in JobRow
           /\ [row EXCEPT !.class = "permanent"] \in JobRow
BY DEF JobRow, Classes

-----------------------------------------------------------------------------
(* Writing one row *)

(* What a transaction that writes one row has to establish. *)
RowFine(j, row) ==
    /\ row \in JobRow
    /\ row.state \in ActiveStates =>
         /\ row.attempts < MaxAttempts
         /\ \A i \in Jobs \ {j} :
              job[i].kind = row.kind => job[i].state \notin Excludes(row)
    /\ row.kind = "cleanup" /\ row.state = "failed"
         /\ row.class = "transient" => row.attempts >= AutoRetries

LEMMA WriteRow ==
    ASSUME IInv, NEW j \in Jobs, NEW row, RowFine(j, row),
           job' = [job EXCEPT ![j] = row]
    PROVE  /\ job' \in [Jobs -> JobRow]
           /\ BudgetLeft' /\ IdentityIsExclusive' /\ CleanupSpent'
<1>1. job \in [Jobs -> JobRow]
  BY DEF IInv, TypeOK
<1>2. job' \in [Jobs -> JobRow]
  BY <1>1 DEF RowFine
<1>3. \A i \in Jobs : job'[i] = IF i = j THEN row ELSE job[i]
  BY <1>1
<1>4. BudgetLeft' /\ CleanupSpent'
  BY <1>3 DEF BudgetLeft, CleanupSpent, RowFine, IInv
<1>5. IdentityIsExclusive'
  <2> SUFFICES ASSUME NEW a \in Jobs, NEW b \in Jobs, Collide(a, b)'
               PROVE  FALSE
    BY DEF IdentityIsExclusive
  <2>1. CASE a = j
    <3>1. /\ b # j /\ job'[a] = row /\ job'[b] = job[b]
          /\ row.state \in ActiveStates /\ job[b].kind = row.kind
          /\ job[b].state \in Excludes(row)
      BY <1>3, <2>1 DEF Collide, Excludes, ActiveStates
    <3>2. QED
      BY <3>1 DEF RowFine
  <2>2. CASE b = j
    <3>1. /\ a # j /\ job'[b] = row /\ job'[a] = job[a]
          /\ row.state \in ActiveStates /\ job[a].kind = row.kind
          /\ job[a].state \in Excludes(row)
      BY <1>3, <2>2 DEF Collide, Excludes, ActiveStates
    <3>2. QED
      BY <3>1 DEF RowFine
  <2>3. CASE a # j /\ b # j
    BY <1>3, <2>3 DEF Collide, IInv, IdentityIsExclusive
  <2>4. QED
    BY <2>1, <2>2, <2>3
<1>6. QED
  BY <1>2, <1>4, <1>5

(* A write that leaves kinds, states and budgets alone. *)
LEMMA TouchRows ==
    ASSUME IInv, job' \in [Jobs -> JobRow],
           \A i \in Jobs : /\ job'[i].kind = job[i].kind
                           /\ job'[i].state = job[i].state
                           /\ job'[i].attempts = job[i].attempts
                           /\ job'[i].class \in {job[i].class, "permanent"}
    PROVE  /\ BudgetLeft' /\ IdentityIsExclusive' /\ CleanupSpent'
           /\ \A k \in AllKinds : /\ Pending(k)' = Pending(k)
                                  /\ Processing(k)' = Processing(k)
                                  /\ Active(k)' = Active(k)
<1>1. BudgetLeft' /\ CleanupSpent'
  BY DEF BudgetLeft, CleanupSpent, IInv
<1>2. IdentityIsExclusive'
  BY DEF IdentityIsExclusive, Collide, IInv
<1>3. \A k \in AllKinds : /\ Pending(k)' = Pending(k)
                          /\ Processing(k)' = Processing(k)
                          /\ Active(k)' = Active(k)
  BY DEF Pending, Processing, Active, Of
<1>4. QED
  BY <1>1, <1>2, <1>3

(* How the sets of waiting, running and active rows change with one row. *)
LEMMA RowSets ==
    ASSUME job \in [Jobs -> JobRow], NEW j \in Jobs, NEW row,
           job' = [job EXCEPT ![j] = row], NEW k
    PROVE  /\ Pending(k)' = IF row.kind = k /\ row.state = "pending"
                            THEN Pending(k) \union {j}
                            ELSE Pending(k) \ {j}
           /\ Processing(k)' = IF row.kind = k /\ row.state = "processing"
                               THEN Processing(k) \union {j}
                               ELSE Processing(k) \ {j}
           /\ Active(k)' = IF row.kind = k /\ row.state \in ActiveStates
                           THEN Active(k) \union {j}
                           ELSE Active(k) \ {j}
<1>1. \A i \in Jobs : job'[i] = IF i = j THEN row ELSE job[i]
  OBVIOUS
<1>2. QED
  BY <1>1 DEF Pending, Processing, Active, Of, ActiveStates

-----------------------------------------------------------------------------
(* The rows the actions write *)

(* A settled claim gives up a lease it holds: its row may become inactive, *)
(* or, for a compilation only when nothing waits, pending again.           *)
LEMMA SettledRow ==
    ASSUME IInv, NEW j \in Jobs, job[j].state = "processing", NEW c \in Classes
    PROVE  LET row == job[j] IN
           /\ RowFine(j, Finished(row))
           /\ row.attempts + 1 \in 1 .. MaxAttempts
           /\ row.kind = "cleanup" => RowFine(j, Failed(row, MaxAttempts, c))
           /\ row.kind # "cleanup" \/ c # "transient" =>
                \A n \in 0 .. MaxAttempts : RowFine(j, Failed(row, n, c))
           /\ row.kind = "compile_rules" /\ Pending("compile_rules") = {}
              => /\ RowFine(j, Released(row))
                 /\ \A n \in 0 .. (MaxAttempts - 1) :
                      RowFine(j, Requeued(row, n))
           /\ row.kind # "compile_rules"
              => /\ RowFine(j, Released(row))
                 /\ \A n \in 0 .. (MaxAttempts - 1) :
                      RowFine(j, Requeued(row, n))
<1> DEFINE row == job[j]
<1> USE JobQueueAssumption
<1>1. row \in JobRow /\ row.attempts \in 0 .. MaxAttempts
  BY DEF IInv, TypeOK, JobRow
<1>2. row.attempts < MaxAttempts
  BY DEF IInv, BudgetLeft, ActiveStates
<1>3. \A i \in Jobs \ {j} : job[i].kind = row.kind =>
        /\ job[i].state # "processing"
        /\ row.kind # "compile_rules" => job[i].state # "pending"
  BY DEF IInv, IdentityIsExclusive, Collide
<1>4. RowFine(j, Finished(row))
  <2>1. Finished(row) \in JobRow /\ Finished(row).state = "done"
    BY <1>1, FinishedRow
  <2>2. QED
    BY <2>1 DEF RowFine, ActiveStates
<1>5. ASSUME NEW n \in 0 .. MaxAttempts,
             row.kind # "cleanup" \/ c # "transient" \/ n = MaxAttempts
      PROVE  RowFine(j, Failed(row, n, c))
  <2>1. /\ Failed(row, n, c) \in JobRow
        /\ Failed(row, n, c).state = "failed"
        /\ Failed(row, n, c).kind = row.kind
        /\ Failed(row, n, c).attempts = n /\ Failed(row, n, c).class = c
    BY <1>1, FailedRow
  <2>2. QED
    BY <1>5, <2>1 DEF RowFine, ActiveStates
<1>6. ASSUME row.kind = "compile_rules" => Pending("compile_rules") = {}
      PROVE  /\ RowFine(j, Released(row))
             /\ \A n \in 0 .. (MaxAttempts - 1) : RowFine(j, Requeued(row, n))
  <2>1. \A i \in Jobs \ {j} :
          job[i].kind = row.kind => job[i].state # "pending"
    BY <1>3, <1>6 DEF Pending, Of
  <2>2. RowFine(j, Released(row))
    <3>1. /\ Released(row) \in JobRow /\ Released(row).state = "pending"
          /\ Released(row).kind = row.kind
          /\ Released(row).attempts = row.attempts
      BY <1>1, ReleasedRow
    <3>2. QED
      BY <1>2, <1>3, <2>1, <3>1 DEF RowFine, Excludes, ActiveStates
  <2>3. ASSUME NEW n \in 0 .. (MaxAttempts - 1)
        PROVE  RowFine(j, Requeued(row, n))
    <3>1. n \in 0 .. MaxAttempts /\ n < MaxAttempts
      OBVIOUS
    <3>2. /\ Requeued(row, n) \in JobRow
          /\ Requeued(row, n).state = "pending"
          /\ Requeued(row, n).kind = row.kind
          /\ Requeued(row, n).attempts = n
      BY <1>1, <3>1, RequeuedRow
    <3>3. QED
      BY <1>3, <2>1, <3>1, <3>2 DEF RowFine, Excludes, ActiveStates
  <2>4. QED
    BY <2>2, <2>3
<1>7. row.attempts + 1 \in 1 .. MaxAttempts
  BY <1>1, <1>2
<1>8. QED
  BY <1>4, <1>5, <1>6, <1>7

LEMMA OutcomeFine ==
    ASSUME IInv, NEW w \in Workers, claim[w].job \in Jobs,
           job[claim[w].job].state = "processing",
           NEW c \in {"transient", "permanent"}
    PROVE  LET row == FailureOutcome(w, c) IN
           /\ RowFine(claim[w].job, row)
           /\ row.kind = job[claim[w].job].kind
           /\ row.state \in {"failed", "pending"}
           /\ row.state = "failed" /\ row.class # "permanent"
              => row.attempts = MaxAttempts
<1> DEFINE j == claim[w].job
           row == job[j]
           spent == row.attempts + 1
           waits == row.kind = "compile_rules" /\ Pending("compile_rules") # {}
<1> USE JobQueueAssumption
<1>1. row \in JobRow /\ c \in Classes /\ "permanent" \in Classes
  BY DEF IInv, TypeOK, Classes
<1>2. spent \in 1 .. MaxAttempts /\ spent \in 0 .. MaxAttempts
  BY <1>1, SettledRow
<1>3. CASE c = "permanent" \/ spent >= MaxAttempts
  <2>1. FailureOutcome(w, c) = Failed(row, spent, c)
    BY <1>3 DEF FailureOutcome
  <2>2. c = "permanent" \/ spent = MaxAttempts
    BY <1>2, <1>3
  <2>3. RowFine(j, Failed(row, spent, c))
    BY <1>1, <1>2, <2>2, SettledRow
  <2>4. /\ Failed(row, spent, c).kind = row.kind
        /\ Failed(row, spent, c).state = "failed"
        /\ Failed(row, spent, c).class = c
        /\ Failed(row, spent, c).attempts = spent
    <3> HIDE DEF row, spent
    <3> QED
      BY <1>1, <1>2, FailedRow
  <2>5. QED
    BY <2>1, <2>2, <2>3, <2>4
<1>4. CASE ~(c = "permanent" \/ spent >= MaxAttempts) /\ waits
  <2>1. FailureOutcome(w, c) = Failed(row, spent, "permanent")
    BY <1>4 DEF FailureOutcome
  <2>2. RowFine(j, Failed(row, spent, "permanent"))
    BY <1>1, <1>2, SettledRow
  <2>3. /\ Failed(row, spent, "permanent").kind = row.kind
        /\ Failed(row, spent, "permanent").state = "failed"
        /\ Failed(row, spent, "permanent").class = "permanent"
    <3> HIDE DEF row, spent
    <3> QED
      BY <1>1, <1>2, FailedRow
  <2>4. QED
    BY <2>1, <2>2, <2>3
<1>5. CASE ~(c = "permanent" \/ spent >= MaxAttempts) /\ ~waits
  <2>1. FailureOutcome(w, c) = Requeued(row, spent)
    BY <1>5 DEF FailureOutcome
  <2>2. spent \in 0 .. (MaxAttempts - 1)
    BY <1>2, <1>5
  <2>3. RowFine(j, Requeued(row, spent))
    BY <1>1, <1>5, <2>2, SettledRow
  <2>4. /\ Requeued(row, spent).kind = row.kind
        /\ Requeued(row, spent).state = "pending"
    <3> HIDE DEF row, spent
    <3> QED
      BY <1>1, <1>2, RequeuedRow
  <2>5. QED
    BY <2>1, <2>3, <2>4
<1>6. QED
  BY <1>3, <1>4, <1>5

LEMMA InsertFine ==
    ASSUME IInv, NEW k \in AllKinds, NEW p \in Profiles \union {NoProfile},
           Canonical(k) = {}, NEW j \in Jobs,
           k = "compile_rules" \/ Active(k) = {}
    PROVE  RowFine(j, Fresh(k, p))
<1> USE JobQueueAssumption
<1>1. NoJob \in JobRow /\ Fresh(k, p) \in JobRow
  BY FreshRow
<1>2. /\ Fresh(k, p).state = "pending" /\ Fresh(k, p).kind = k
      /\ Fresh(k, p).attempts = 0
  BY FreshRow
<1>3. \A i \in Jobs \ {j} : job[i].kind = k =>
        job[i].state \notin Excludes(Fresh(k, p))
  <2>1. CASE k = "compile_rules"
    BY <1>2, <2>1 DEF Canonical, Pending, Of, Excludes
  <2>2. CASE k # "compile_rules"
    BY <1>2, <2>2 DEF Active, Of, Excludes, ActiveStates
  <2>3. QED
    BY <2>1, <2>2
<1>4. QED
  BY <1>1, <1>2, <1>3 DEF RowFine

-----------------------------------------------------------------------------
(* The invariant is inductive, an action at a time *)

ClaimOK == /\ claim \in [Workers -> [pc : {"idle", "running", "reporting"},
                                     job : 0 .. MaxJob]]
           /\ \A w \in Workers : claim[w].pc # "idle" => claim[w].job \in Jobs

LEMMA ClaimKept ==
    ASSUME IInv, UNCHANGED claim \/ \E w \in Workers :
             \/ claim' = [claim EXCEPT ![w] = Idle]
             \/ \E j \in Jobs :
                  claim' = [claim EXCEPT ![w] = [pc |-> "running", job |-> j]]
             \/ /\ claim[w].pc # "idle"
                /\ claim' = [claim EXCEPT ![w].pc = "reporting"]
    PROVE  ClaimOK'
<1> USE JobQueueAssumption
<1>1. ClaimOK
  BY DEF IInv, TypeOK, ClaimOK
<1>2. CASE UNCHANGED claim
  BY <1>1, <1>2 DEF ClaimOK
<1>3. ASSUME NEW w \in Workers, claim' = [claim EXCEPT ![w] = Idle]
      PROVE  ClaimOK'
  BY <1>1, <1>3 DEF ClaimOK, Idle, Jobs
<1>4. ASSUME NEW w \in Workers, NEW j \in Jobs,
             claim' = [claim EXCEPT ![w] = [pc |-> "running", job |-> j]]
      PROVE  ClaimOK'
  BY <1>1, <1>4 DEF ClaimOK, Jobs
<1>5. ASSUME NEW w \in Workers, claim[w].pc # "idle",
             claim' = [claim EXCEPT ![w].pc = "reporting"]
      PROVE  ClaimOK'
  BY <1>1, <1>5 DEF ClaimOK
<1>6. QED
  BY <1>2, <1>3, <1>4, <1>5

LEMMA Assemble ==
    ASSUME job' \in [Jobs -> JobRow], ClaimOK',
           cooling' \in SUBSET {"dream", "cleanup"}, compileDue' \in BOOLEAN,
           BudgetLeft', IdentityIsExclusive', CleanupSpent',
           CompileRequestIsOwed', CleanupRests'
    PROVE  IInv'
<1>1. cleanups' \in Nat
  BY DEF CleanupRests
<1>2. QED
  BY <1>1 DEF IInv, TypeOK, ClaimOK

LEMMA RequestKeeps ==
    ASSUME IInv, NEW k \in Kinds, Request(k)
    PROVE  IInv'
<1> USE JobQueueAssumption
<1>0. k \in AllKinds /\ k \in {"ordinary", "compile_rules"}
  BY DEF Request
<1>1. ClaimOK'
  BY ClaimKept DEF Request
<1>2. /\ job \in [Jobs -> JobRow] /\ cooling' \in SUBSET {"dream", "cleanup"}
      /\ compileDue' \in BOOLEAN /\ cleanups' = cleanups /\ cooling' = cooling
  BY DEF Request, IInv, TypeOK
<1>3. CASE Canonical(k) # {} /\ UNCHANGED job
  <2>1. BudgetLeft' /\ IdentityIsExclusive' /\ CleanupSpent' /\ CleanupRests'
    BY <1>2, <1>3 DEF BudgetLeft, IdentityIsExclusive, Collide, CleanupSpent,
                      CleanupRests, Active, Of, IInv
  <2>2. CompileRequestIsOwed'
    BY <1>3 DEF CompileRequestIsOwed, Request, Canonical, Pending, Of, IInv
  <2>3. QED
    BY <1>1, <1>2, <1>3, <2>1, <2>2, Assemble
<1>4. CASE Canonical(k) = {} /\ Insert(k, NoProfile)
  <2>1. PICK j \in Jobs : /\ job[j].state = "absent"
                          /\ job' = [job EXCEPT ![j] = Fresh(k, NoProfile)]
    BY <1>4 DEF Insert
  <2>2. k = "compile_rules" \/ Active(k) = {}
    BY <1>4 DEF Canonical
  <2>3. RowFine(j, Fresh(k, NoProfile))
    BY <1>0, <1>4, <2>2, InsertFine
  <2>4. /\ job' \in [Jobs -> JobRow]
        /\ BudgetLeft' /\ IdentityIsExclusive' /\ CleanupSpent'
    BY <2>1, <2>3, WriteRow
  <2>5. /\ Fresh(k, NoProfile).kind = k
        /\ Fresh(k, NoProfile).state = "pending"
    BY <1>0, FreshRow
  <2>6. CompileRequestIsOwed'
    <3>1. Pending("compile_rules")' =
            IF k = "compile_rules" THEN Pending("compile_rules") \union {j}
                                   ELSE Pending("compile_rules") \ {j}
      BY <1>2, <2>1, <2>5, RowSets
    <3>2. j \notin Pending("compile_rules")
      BY <2>1 DEF Pending, Of
    <3>3. QED
      BY <3>1, <3>2 DEF CompileRequestIsOwed, Request, IInv
  <2>7. CleanupRests'
    <3>1. Active("cleanup")' = Active("cleanup") \ {j}
      BY <1>0, <1>2, <2>1, <2>5, RowSets
    <3>2. QED
      BY <1>2, <3>1 DEF CleanupRests, IInv
  <2>8. QED
    BY <1>1, <1>2, <2>4, <2>6, <2>7, Assemble
<1>5. QED
  BY <1>3, <1>4 DEF Request

(* Changes that leave every kind, state and budget alone. *)
LEMMA TouchKeeps ==
    ASSUME IInv, job' \in [Jobs -> JobRow],
           \A i \in Jobs : /\ job'[i].kind = job[i].kind
                           /\ job'[i].state = job[i].state
                           /\ job'[i].attempts = job[i].attempts
                           /\ job'[i].class \in {job[i].class, "permanent"},
           UNCHANGED <<claim, cooling, compileDue, cleanups>>
    PROVE  IInv'
<1>1. /\ BudgetLeft' /\ IdentityIsExclusive' /\ CleanupSpent'
      /\ Pending("compile_rules")' = Pending("compile_rules")
      /\ Active("cleanup")' = Active("cleanup")
  BY TouchRows DEF AllKinds
<1>2. CompileRequestIsOwed' /\ CleanupRests'
  BY <1>1 DEF CompileRequestIsOwed, CleanupRests, IInv
<1>3. ClaimOK'
  BY ClaimKept
<1>4. QED
  BY <1>1, <1>2, <1>3, Assemble DEF IInv, TypeOK

LEMMA RequestDreamKeeps ==
    ASSUME IInv, NEW p \in Profiles \union {NoProfile}, RequestDream(p)
    PROVE  IInv'
<1>0. job \in [Jobs -> JobRow]
  BY DEF IInv, TypeOK
<1>1. ASSUME NEW j \in Active("dream"),
             job' = [job EXCEPT ![j] = Reprofiled(job[j], p)]
      PROVE  IInv'
  <2>1. j \in Jobs /\ job[j] \in JobRow
    BY <1>0 DEF Active, Of
  <2>2. /\ Reprofiled(job[j], p) \in JobRow
        /\ Reprofiled(job[j], p).state = job[j].state
        /\ Reprofiled(job[j], p).kind = job[j].kind
        /\ Reprofiled(job[j], p).attempts = job[j].attempts
        /\ Reprofiled(job[j], p).class = job[j].class
    BY <2>1, ReprofiledRow
  <2>3. /\ job' \in [Jobs -> JobRow]
        /\ \A i \in Jobs : job'[i] = IF i = j THEN Reprofiled(job[j], p)
                                              ELSE job[i]
    BY <1>0, <1>1, <2>1, <2>2
  <2>4. \A i \in Jobs : /\ job'[i].kind = job[i].kind
                        /\ job'[i].state = job[i].state
                        /\ job'[i].attempts = job[i].attempts
                        /\ job'[i].class = job[i].class
    BY <2>2, <2>3
  <2>5. QED
    BY <2>3, <2>4, TouchKeeps DEF RequestDream
<1>2. ASSUME Active("dream") = {}, Insert("dream", p)
      PROVE  IInv'
  <2>1. PICK j \in Jobs : /\ job[j].state = "absent"
                          /\ job' = [job EXCEPT ![j] = Fresh("dream", p)]
    BY <1>2 DEF Insert
  <2>2. RowFine(j, Fresh("dream", p))
    BY <1>2, InsertFine DEF AllKinds, Canonical
  <2>3. /\ job' \in [Jobs -> JobRow]
        /\ BudgetLeft' /\ IdentityIsExclusive' /\ CleanupSpent'
    BY <2>1, <2>2, WriteRow
  <2>4. Fresh("dream", p).kind = "dream"
    BY FreshRow DEF AllKinds
  <2>5. /\ Pending("compile_rules")' = Pending("compile_rules") \ {j}
        /\ Active("cleanup")' = Active("cleanup") \ {j}
    BY <1>0, <2>1, <2>4, RowSets
  <2>6. j \notin Pending("compile_rules")
    BY <2>1 DEF Pending, Of
  <2>7. CompileRequestIsOwed' /\ CleanupRests'
    BY <2>5, <2>6 DEF CompileRequestIsOwed, CleanupRests, IInv, RequestDream
  <2>8. ClaimOK'
    BY ClaimKept DEF RequestDream
  <2>9. QED
    BY <2>3, <2>7, <2>8, Assemble DEF IInv, TypeOK, RequestDream
<1>3. QED
  BY <1>1, <1>2 DEF RequestDream

LEMMA ScheduleCleanupKeeps ==
    ASSUME IInv, ScheduleCleanup
    PROVE  IInv'
<1> USE JobQueueAssumption
<1>0. job \in [Jobs -> JobRow]
  BY DEF IInv, TypeOK
<1>1. PICK j \in Jobs : /\ job[j].state = "absent"
                        /\ job' = [job EXCEPT ![j] = Fresh("cleanup", NoProfile)]
  BY DEF ScheduleCleanup, Insert
<1>2. RowFine(j, Fresh("cleanup", NoProfile))
  BY InsertFine DEF AllKinds, Canonical, ScheduleCleanup
<1>3. /\ job' \in [Jobs -> JobRow]
      /\ BudgetLeft' /\ IdentityIsExclusive' /\ CleanupSpent'
  BY <1>1, <1>2, WriteRow
<1>4. Fresh("cleanup", NoProfile).kind = "cleanup"
  BY FreshRow DEF AllKinds
<1>5. Pending("compile_rules")' = Pending("compile_rules") \ {j}
  BY <1>0, <1>1, <1>4, RowSets
<1>6. j \notin Pending("compile_rules")
  BY <1>1 DEF Pending, Of
<1>7. CompileRequestIsOwed'
  BY <1>5, <1>6 DEF CompileRequestIsOwed, IInv, ScheduleCleanup
<1>8. CleanupRests'
  BY DEF CleanupRests, IInv, ScheduleCleanup
<1>9. ClaimOK'
  BY ClaimKept DEF ScheduleCleanup
<1>10. QED
  BY <1>3, <1>7, <1>8, <1>9, Assemble DEF IInv, TypeOK, ScheduleCleanup

LEMMA CooldownEndsKeeps ==
    ASSUME IInv, NEW k \in Kinds, CooldownEnds(k)
    PROVE  IInv'
<1>1. ClaimOK'
  BY ClaimKept DEF CooldownEnds
<1>2. BudgetLeft' /\ IdentityIsExclusive' /\ CleanupSpent'
      /\ CompileRequestIsOwed'
  BY DEF BudgetLeft, IdentityIsExclusive, Collide, CleanupSpent,
         CompileRequestIsOwed, Pending, Of, IInv, CooldownEnds
<1>3. CleanupRests'
  <2>1. Active("cleanup")' = Active("cleanup")
    BY DEF Active, Of, CooldownEnds
  <2>2. QED
    BY <2>1 DEF CleanupRests, IInv, CooldownEnds
<1>4. QED
  BY <1>1, <1>2, <1>3, Assemble DEF IInv, TypeOK, CooldownEnds

LEMMA ClaimKeeps ==
    ASSUME IInv, NEW w \in Workers, NEW j \in Jobs, Claim(w, j)
    PROVE  IInv'
<1>0. job \in [Jobs -> JobRow] /\ job[j] \in JobRow
  BY DEF IInv, TypeOK
<1> DEFINE row == Leased(job[j], w)
<1>1. /\ row \in JobRow /\ row.state = "processing"
      /\ row.kind = job[j].kind /\ row.attempts = job[j].attempts
  BY <1>0, LeasedRow
<1>2. job[j].state = "pending" /\ job[j].attempts < MaxAttempts
  BY DEF Claim, IInv, BudgetLeft, ActiveStates
<1>3. \A i \in Jobs \ {j} :
        job[i].kind = job[j].kind => job[i].state \notin Excludes(row)
  <2>1. CASE job[j].kind = "compile_rules"
    BY <1>1, <2>1 DEF Claim, Claimable, Processing, Of, Excludes
  <2>2. CASE job[j].kind # "compile_rules"
    BY <1>1, <1>2, <2>2 DEF Excludes, ActiveStates, IInv,
                            IdentityIsExclusive, Collide
  <2>3. QED
    BY <2>1, <2>2
<1>4. RowFine(j, row)
  BY <1>1, <1>2, <1>3 DEF RowFine
<1>5. job' = [job EXCEPT ![j] = row]
  BY DEF Claim
<1>6. /\ job' \in [Jobs -> JobRow]
      /\ BudgetLeft' /\ IdentityIsExclusive' /\ CleanupSpent'
  BY <1>4, <1>5, WriteRow
<1> HIDE DEF row
<1>7. /\ Pending("compile_rules")' = Pending("compile_rules") \ {j}
      /\ Active("cleanup")' = IF job[j].kind = "cleanup"
                              THEN Active("cleanup") \union {j}
                              ELSE Active("cleanup") \ {j}
  BY <1>0, <1>1, <1>5, RowSets DEF ActiveStates
<1>8. CompileRequestIsOwed'
  <2>1. j \in Pending("compile_rules") => job[j].kind = "compile_rules"
    BY DEF Pending, Of
  <2>2. QED
    BY <1>7, <2>1 DEF CompileRequestIsOwed, IInv, Claim
<1>9. CleanupRests'
  <2>1. job[j].kind = "cleanup" => j \in Active("cleanup")
    BY <1>2 DEF Active, Of
  <2>2. QED
    BY <1>7, <2>1 DEF CleanupRests, IInv, Claim
<1>10. ClaimOK'
  BY ClaimKept DEF Claim
<1>11. QED
  BY <1>6, <1>8, <1>9, <1>10, Assemble DEF IInv, TypeOK, Claim

(* A step that settles a claim, whatever it writes. *)
LEMMA SettleKeeps ==
    ASSUME IInv, NEW w \in Workers, claim[w].pc # "idle", NEW row,
           Settles(w, row), RowFine(claim[w].job, row),
           row.kind = KindOf(w), row.state \in {"done", "failed", "pending"},
           compileDue' = compileDue,
           cooling' \in SUBSET {"dream", "cleanup"}, cooling \subseteq cooling',
           \/ cleanups' = cleanups
           \/ /\ row.kind = "cleanup" /\ row.state = "done"
              /\ cleanups' = cleanups + 1 /\ "cleanup" \in cooling'
    PROVE  IInv'
<1> DEFINE j == claim[w].job
<1>1. j \in Jobs /\ job \in [Jobs -> JobRow]
  BY DEF IInv, TypeOK
<1>2. job' = [job EXCEPT ![j] = row] /\ job[j].state = "processing"
  BY DEF Settles, Current
<1>3. /\ job' \in [Jobs -> JobRow]
      /\ BudgetLeft' /\ IdentityIsExclusive' /\ CleanupSpent'
  BY <1>1, <1>2, WriteRow
<1>4. CompileRequestIsOwed'
  <2>1. j \notin Pending("compile_rules")
    BY <1>2 DEF Pending, Of
  <2>2. Pending("compile_rules") \subseteq Pending("compile_rules")'
    <3> HIDE DEF j
    <3>1. Pending("compile_rules")' =
            IF row.kind = "compile_rules" /\ row.state = "pending"
            THEN Pending("compile_rules") \union {j}
            ELSE Pending("compile_rules") \ {j}
      BY <1>1, <1>2, RowSets
    <3>2. QED
      BY <2>1, <3>1
  <2>3. QED
    BY <2>2 DEF CompileRequestIsOwed, IInv
<1>5. CleanupRests'
  <2>1. CASE row.kind # "cleanup"
    <3>1. Active("cleanup")' = Active("cleanup") \ {j}
      <4> HIDE DEF j
      <4> QED
        BY <1>1, <1>2, <2>1, RowSets
    <3>2. QED
      BY <2>1, <3>1 DEF CleanupRests, IInv
  <2>2. CASE row.kind = "cleanup"
    <3>1. job[j].kind = "cleanup"
      BY <2>2 DEF KindOf
    <3>2. j \in Active("cleanup")
      BY <1>1, <1>2, <3>1 DEF Active, Of
    <3>3. cleanups = 0
      BY <3>2 DEF CleanupRests, IInv
    <3>4. CASE cleanups' = cleanups
      BY <3>3, <3>4 DEF CleanupRests
    <3>5. CASE /\ row.state = "done" /\ cleanups' = cleanups + 1
               /\ "cleanup" \in cooling'
      <4>1. Active("cleanup") = {j}
        BY <1>1, <1>2, <3>1, <3>2 DEF Active, Of, IInv, IdentityIsExclusive,
                                      Collide
      <4>2. Active("cleanup")' = Active("cleanup") \ {j}
        <5> HIDE DEF j
        <5> QED
          BY <1>1, <1>2, <3>5, RowSets DEF ActiveStates
      <4>3. QED
        BY <3>3, <3>5, <4>1, <4>2 DEF CleanupRests
    <3>6. QED
      BY <3>4, <3>5
  <2>3. QED
    BY <2>1, <2>2
<1>6. ClaimOK'
  BY ClaimKept DEF Settles
<1>7. compileDue' \in BOOLEAN
  BY DEF IInv, TypeOK
<1>8. QED
  BY <1>3, <1>4, <1>5, <1>6, <1>7, Assemble

LEMMA HeldRow ==
    ASSUME IInv, NEW w \in Workers, claim[w].pc # "idle", Current(w)
    PROVE  /\ claim[w].job \in Jobs /\ job[claim[w].job] \in JobRow
           /\ job[claim[w].job].state = "processing"
           /\ job[claim[w].job].attempts \in 0 .. MaxAttempts
           /\ job[claim[w].job].class \in Classes
BY DEF IInv, TypeOK, Current, JobRow

LEMMA MarkDoneKeeps ==
    ASSUME IInv, NEW w \in Workers, MarkDone(w)
    PROVE  IInv'
<1> DEFINE row == job[claim[w].job]
<1>1. claim[w].pc # "idle" /\ Current(w)
  BY DEF MarkDone, Settles
<1>2. row \in JobRow /\ row.state = "processing" /\ claim[w].job \in Jobs
  BY <1>1, HeldRow
<1>3. RowFine(claim[w].job, Finished(row))
  BY <1>2, SettledRow DEF Classes
<1>4. Finished(row).kind = KindOf(w) /\ Finished(row).state = "done"
  BY <1>2, FinishedRow DEF KindOf
<1>5. /\ cooling' \in SUBSET {"dream", "cleanup"} /\ cooling \subseteq cooling'
      /\ compileDue' = compileDue /\ cleanups' = cleanups
      /\ Settles(w, Finished(row))
  BY DEF MarkDone, IInv, TypeOK
<1>6. QED
  BY <1>1, <1>3, <1>4, <1>5, SettleKeeps

LEMMA CleanupSucceedsKeeps ==
    ASSUME IInv, NEW w \in Workers, CleanupSucceeds(w)
    PROVE  IInv'
<1> DEFINE row == job[claim[w].job]
<1>1. claim[w].pc # "idle" /\ Current(w)
  BY DEF CleanupSucceeds, Settles
<1>2. row \in JobRow /\ row.state = "processing" /\ claim[w].job \in Jobs
  BY <1>1, HeldRow
<1>3. RowFine(claim[w].job, Finished(row))
  BY <1>2, SettledRow DEF Classes
<1>4. Finished(row).kind = KindOf(w) /\ Finished(row).state = "done"
  BY <1>2, FinishedRow DEF KindOf
<1>5. /\ cooling' \in SUBSET {"dream", "cleanup"} /\ cooling \subseteq cooling'
      /\ compileDue' = compileDue /\ Settles(w, Finished(row))
      /\ KindOf(w) = "cleanup" /\ cleanups' = cleanups + 1
      /\ "cleanup" \in cooling'
  BY DEF CleanupSucceeds, IInv, TypeOK
<1>6. QED
  BY <1>1, <1>3, <1>4, <1>5, SettleKeeps

LEMMA CleanupFailsKeeps ==
    ASSUME IInv, NEW w \in Workers, NEW recorded \in BOOLEAN,
           CleanupFails(w, recorded)
    PROVE  IInv'
<1>1. ClaimOK'
  BY ClaimKept DEF CleanupFails
<1>2. /\ BudgetLeft' /\ IdentityIsExclusive' /\ CleanupSpent'
      /\ CompileRequestIsOwed'
  BY DEF BudgetLeft, IdentityIsExclusive, Collide, CleanupSpent,
         CompileRequestIsOwed, Pending, Of, IInv, CleanupFails
<1>3. CleanupRests'
  <2>1. Active("cleanup")' = Active("cleanup")
    BY DEF Active, Of, CleanupFails
  <2>2. QED
    BY <2>1 DEF CleanupRests, IInv, CleanupFails
<1>4. QED
  BY <1>1, <1>2, <1>3, Assemble DEF IInv, TypeOK, CleanupFails

LEMMA MarkFailedOrRetryKeeps ==
    ASSUME IInv, NEW w \in Workers, NEW c \in {"transient", "permanent"},
           MarkFailedOrRetry(w, c)
    PROVE  IInv'
<1> DEFINE row == FailureOutcome(w, c)
<1>1. claim[w].pc # "idle" /\ Current(w)
  BY DEF MarkFailedOrRetry, Settles
<1>2. claim[w].job \in Jobs /\ job[claim[w].job].state = "processing"
  BY <1>1, HeldRow
<1>3. /\ RowFine(claim[w].job, row) /\ row.kind = KindOf(w)
      /\ row.state \in {"failed", "pending"}
  BY <1>2, OutcomeFine DEF KindOf
<1>4. /\ Settles(w, row) /\ UNCHANGED <<cooling, compileDue, cleanups>>
  BY DEF MarkFailedOrRetry
<1> HIDE DEF row
<1>5. QED
  BY <1>1, <1>3, <1>4, SettleKeeps DEF IInv, TypeOK

LEMMA MarkExhaustedKeeps ==
    ASSUME IInv, NEW w \in Workers, MarkExhausted(w)
    PROVE  IInv'
<1> DEFINE row == job[claim[w].job]
           c == IF row.class = "none" THEN "transient" ELSE row.class
<1>1. claim[w].pc # "idle" /\ Current(w)
  BY DEF MarkExhausted, Settles
<1>2. /\ row \in JobRow /\ row.state = "processing" /\ claim[w].job \in Jobs
      /\ row.attempts \in 0 .. MaxAttempts /\ c \in Classes
  BY <1>1, HeldRow DEF Classes
<1>3. /\ row.kind # "cleanup" /\ Settles(w, Failed(row, row.attempts, c))
      /\ UNCHANGED <<cooling, compileDue, cleanups>>
  BY DEF MarkExhausted, KindOf
<1>4. RowFine(claim[w].job, Failed(row, row.attempts, c))
  <2> HIDE DEF c
  <2> QED
    BY <1>2, <1>3, SettledRow
<1>5. /\ Failed(row, row.attempts, c).kind = KindOf(w)
      /\ Failed(row, row.attempts, c).state = "failed"
  <2> HIDE DEF c
  <2> QED
    BY <1>2, FailedRow DEF KindOf
<1>6. QED
  BY <1>1, <1>3, <1>4, <1>5, SettleKeeps DEF IInv, TypeOK

LEMMA IdleKeeps ==
    ASSUME IInv, NEW w \in Workers, claim' = [claim EXCEPT ![w] = Idle],
           UNCHANGED <<job, cooling, compileDue, cleanups>>
    PROVE  IInv'
<1>1. ClaimOK'
  BY ClaimKept
<1>2. /\ BudgetLeft' /\ IdentityIsExclusive' /\ CleanupSpent'
      /\ CompileRequestIsOwed' /\ CleanupRests'
  BY DEF BudgetLeft, IdentityIsExclusive, Collide, CleanupSpent, CleanupRests,
         CompileRequestIsOwed, Pending, Active, Of, IInv
<1>3. QED
  BY <1>1, <1>2, Assemble DEF IInv, TypeOK

LEMMA LeaseExpiresKeeps ==
    ASSUME IInv, NEW j \in Jobs, LeaseExpires(j)
    PROVE  IInv'
<1>1. job \in [Jobs -> JobRow] /\ job[j] \in JobRow
  BY DEF IInv, TypeOK
<1>2. job' = [job EXCEPT ![j] = [job[j] EXCEPT !.expired = TRUE]]
  BY DEF LeaseExpires
<1>3. job' \in [Jobs -> JobRow]
  BY <1>1, <1>2, TouchedRow
<1>4. \A i \in Jobs : /\ job'[i].kind = job[i].kind
                      /\ job'[i].state = job[i].state
                      /\ job'[i].attempts = job[i].attempts
                      /\ job'[i].class = job[i].class
  BY <1>1, <1>2 DEF JobRow
<1>5. QED
  BY <1>3, <1>4, TouchKeeps DEF LeaseExpires

LEMMA ArchiveKeeps ==
    ASSUME IInv, NEW j \in Jobs, Archive(j)
    PROVE  IInv'
<1>1. job \in [Jobs -> JobRow] /\ job[j] \in JobRow
  BY DEF IInv, TypeOK
<1>2. job' = [job EXCEPT ![j] = [job[j] EXCEPT !.archived = TRUE]]
  BY DEF Archive
<1>3. job' \in [Jobs -> JobRow]
  BY <1>1, <1>2, TouchedRow
<1>4. \A i \in Jobs : /\ job'[i].kind = job[i].kind
                      /\ job'[i].state = job[i].state
                      /\ job'[i].attempts = job[i].attempts
                      /\ job'[i].class = job[i].class
  BY <1>1, <1>2 DEF JobRow
<1>5. QED
  BY <1>3, <1>4, TouchKeeps DEF Archive

(* A row that was not waiting is rewritten: no request is lost, and no     *)
(* cleanup becomes active that was not.                                    *)
LEMMA RewriteKeeps ==
    ASSUME IInv, NEW j \in Jobs, NEW row, RowFine(j, row),
           job' = [job EXCEPT ![j] = row], job[j].state # "pending",
           row.kind = "cleanup" /\ row.state \in ActiveStates
             => job[j].kind = "cleanup" /\ job[j].state = "processing",
           UNCHANGED <<claim, cooling, compileDue, cleanups>>
    PROVE  IInv'
<1>1. job \in [Jobs -> JobRow]
  BY DEF IInv, TypeOK
<1>2. /\ job' \in [Jobs -> JobRow]
      /\ BudgetLeft' /\ IdentityIsExclusive' /\ CleanupSpent'
  BY WriteRow
<1>3. CompileRequestIsOwed'
  <2>1. j \notin Pending("compile_rules")
    BY DEF Pending, Of
  <2>2. Pending("compile_rules") \subseteq Pending("compile_rules")'
    <3>1. Pending("compile_rules")' =
            IF row.kind = "compile_rules" /\ row.state = "pending"
            THEN Pending("compile_rules") \union {j}
            ELSE Pending("compile_rules") \ {j}
      BY <1>1, RowSets
    <3>2. QED
      BY <2>1, <3>1
  <2>3. QED
    BY <2>2 DEF CompileRequestIsOwed, IInv
<1>4. CleanupRests'
  <2>1. Active("cleanup")' \subseteq Active("cleanup")
    <3>1. job[j].kind = "cleanup" /\ job[j].state = "processing"
          => j \in Active("cleanup")
      BY DEF Active, Of
    <3>2. Active("cleanup")' =
            IF row.kind = "cleanup" /\ row.state \in ActiveStates
            THEN Active("cleanup") \union {j}
            ELSE Active("cleanup") \ {j}
      BY <1>1, RowSets
    <3>3. QED
      BY <3>1, <3>2
  <2>2. QED
    BY <2>1 DEF CleanupRests, IInv
<1>5. ClaimOK'
  BY ClaimKept
<1>6. QED
  BY <1>2, <1>3, <1>4, <1>5, Assemble DEF IInv, TypeOK

LEMMA ReleaseExpiredKeeps ==
    ASSUME IInv, NEW j \in Jobs, ReleaseExpired(j)
    PROVE  IInv'
<1>1. /\ job[j] \in JobRow /\ job[j].state = "processing"
      /\ job[j].attempts \in 0 .. MaxAttempts
  BY DEF ReleaseExpired, IInv, TypeOK, JobRow
<1>2. CASE job[j].kind = "compile_rules" /\ Pending("compile_rules") # {}
  <2> DEFINE row == Failed(job[j], job[j].attempts, "permanent")
  <2>1. job' = [job EXCEPT ![j] = row]
    BY <1>2 DEF ReleaseExpired
  <2>2. RowFine(j, row)
    BY <1>1, <1>2, SettledRow DEF Classes
  <2>3. row.state = "failed"
    BY <1>1, FailedRow DEF Classes
  <2> HIDE DEF row
  <2>4. QED
    BY <1>1, <2>1, <2>2, <2>3, RewriteKeeps DEF ReleaseExpired, ActiveStates
<1>3. CASE ~(job[j].kind = "compile_rules" /\ Pending("compile_rules") # {})
  <2> DEFINE row == Released(job[j])
  <2>1. job' = [job EXCEPT ![j] = row]
    BY <1>3 DEF ReleaseExpired
  <2>2. RowFine(j, row)
    BY <1>1, <1>3, SettledRow DEF Classes
  <2>3. row.kind = job[j].kind
    BY <1>1, ReleasedRow
  <2> HIDE DEF row
  <2>4. QED
    BY <1>1, <2>1, <2>2, <2>3, RewriteKeeps DEF ReleaseExpired, ActiveStates
<1>4. QED
  BY <1>2, <1>3

LEMMA RecoverFailedKeeps ==
    ASSUME IInv, NEW j \in Jobs, RecoverFailed(j)
    PROVE  IInv'
<1> USE JobQueueAssumption
<1> DEFINE row == job[j]
<1>0. /\ job \in [Jobs -> JobRow] /\ row \in JobRow /\ row.kind \in AllKinds
      /\ row.attempts \in Nat /\ row.profile \in Profiles \union {NoProfile}
  BY DEF IInv, TypeOK, JobRow
<1>1. /\ row.state = "failed" /\ row.class = "transient"
      /\ row.attempts < AutoRetries
  BY DEF RecoverFailed, Recoverable
<1>2. row.kind # "cleanup"
  BY <1>0, <1>1 DEF IInv, CleanupSpent
<1>3. row.attempts \in 0 .. MaxAttempts /\ row.attempts < MaxAttempts
  BY <1>0, <1>1
<1>4. CASE Canonical(row.kind) = {}
           /\ job' = [job EXCEPT ![j] = Requeued(row, row.attempts)]
  <2> DEFINE new == Requeued(row, row.attempts)
  <2>1. /\ new \in JobRow /\ new.state = "pending"
        /\ new.kind = row.kind /\ new.attempts = row.attempts
    BY <1>0, <1>3, RequeuedRow
  <2>2. \A i \in Jobs \ {j} :
          job[i].kind = row.kind => job[i].state \notin Excludes(new)
    <3> HIDE DEF new
    <3>1. CASE row.kind = "compile_rules"
      BY <1>4, <2>1, <3>1 DEF Canonical, Pending, Of, Excludes
    <3>2. CASE row.kind # "compile_rules"
      BY <1>4, <2>1, <3>2 DEF Canonical, Active, Of, Excludes, ActiveStates
    <3>3. QED
      BY <3>1, <3>2
  <2> HIDE DEF new
  <2>3. RowFine(j, new)
    BY <1>3, <2>1, <2>2 DEF RowFine
  <2>4. job' = [job EXCEPT ![j] = new]
    BY <1>4 DEF new
  <2>5. QED
    BY <1>1, <1>2, <2>1, <2>3, <2>4, RewriteKeeps DEF RecoverFailed
<1>5. ASSUME NEW c \in Canonical(row.kind),
             job' = [job EXCEPT ![j].class = "permanent",
                                ![c] = Reprofiled(job[c], row.profile)]
      PROVE  IInv'
  <2>1. c \in Jobs /\ job[c].state \in ActiveStates /\ c # j
    BY <1>1, <1>5 DEF Canonical, Pending, Active, Of, ActiveStates
  <2>2. job' = [[job EXCEPT ![j] = [row EXCEPT !.class = "permanent"]]
                  EXCEPT ![c] = Reprofiled(job[c], row.profile)]
    BY <1>0, <1>5
  <2>3. /\ Reprofiled(job[c], row.profile) \in JobRow
        /\ Reprofiled(job[c], row.profile).state = job[c].state
        /\ Reprofiled(job[c], row.profile).kind = job[c].kind
        /\ Reprofiled(job[c], row.profile).attempts = job[c].attempts
        /\ Reprofiled(job[c], row.profile).class = job[c].class
    BY <1>0, <2>1, ReprofiledRow
  <2>4. /\ [row EXCEPT !.class = "permanent"] \in JobRow
        /\ [row EXCEPT !.class = "permanent"].state = row.state
        /\ [row EXCEPT !.class = "permanent"].kind = row.kind
        /\ [row EXCEPT !.class = "permanent"].attempts = row.attempts
        /\ [row EXCEPT !.class = "permanent"].class = "permanent"
    BY <1>0, TouchedRow DEF JobRow
  <2>5. /\ job' \in [Jobs -> JobRow]
        /\ \A i \in Jobs :
             job'[i] = IF i = c THEN Reprofiled(job[c], row.profile)
                       ELSE IF i = j THEN [row EXCEPT !.class = "permanent"]
                       ELSE job[i]
    BY <1>0, <2>1, <2>2, <2>3, <2>4
  <2>6. \A i \in Jobs : /\ job'[i].kind = job[i].kind
                        /\ job'[i].state = job[i].state
                        /\ job'[i].attempts = job[i].attempts
                        /\ job'[i].class \in {job[i].class, "permanent"}
    BY <2>3, <2>4, <2>5
  <2>7. QED
    BY <2>5, <2>6, TouchKeeps DEF RecoverFailed
<1>6. QED
  BY <1>4, <1>5 DEF RecoverFailed

LEMMA PurgeKeeps ==
    ASSUME IInv, NEW j \in Jobs, Purge(j)
    PROVE  IInv'
<1>1. RowFine(j, NoJob)
  BY FreshRow DEF RowFine, NoJob, ActiveStates, AllKinds
<1>2. NoJob.kind = "ordinary"
  BY DEF NoJob
<1>3. QED
  BY <1>1, <1>2, RewriteKeeps DEF Purge

-----------------------------------------------------------------------------
(* Theorems *)

LEMMA InitInv == Init => IInv
<1> USE JobQueueAssumption
<1> SUFFICES ASSUME Init PROVE IInv
  OBVIOUS
<1>1. NoJob \in JobRow
  BY FreshRow DEF AllKinds
<1>2. \A j \in Jobs : job[j] = NoJob /\ job[j].state = "absent"
  BY DEF Init, NoJob
<1>3. TypeOK
  <2>1. job \in [Jobs -> JobRow]
    BY <1>1 DEF Init
  <2>2. Idle \in [pc : {"idle", "running", "reporting"}, job : 0 .. MaxJob]
        /\ Idle.pc = "idle"
    BY DEF Idle
  <2>3. \A w \in Workers : claim[w] = Idle
    BY DEF Init
  <2>4. QED
    BY <2>1, <2>2, <2>3 DEF TypeOK, Init
<1>4. BudgetLeft /\ IdentityIsExclusive
  BY <1>2 DEF BudgetLeft, IdentityIsExclusive, Collide, ActiveStates
<1>7. CleanupSpent
  BY <1>2 DEF CleanupSpent
<1>5. CompileRequestIsOwed /\ CleanupRests
  BY DEF Init, CompileRequestIsOwed, CleanupRests
<1>8. QED
  BY <1>3, <1>4, <1>5, <1>7 DEF IInv

LEMMA NextInv == IInv /\ [Next]_vars => IInv'
<1> SUFFICES ASSUME IInv, [Next]_vars PROVE IInv'
  OBVIOUS
<1>1. ASSUME NEW k \in Kinds, Request(k) PROVE IInv'
  BY <1>1, RequestKeeps
<1>2. ASSUME NEW p \in Profiles \union {NoProfile}, RequestDream(p) PROVE IInv'
  BY <1>2, RequestDreamKeeps
<1>3. CASE ScheduleCleanup
  BY <1>3, ScheduleCleanupKeeps
<1>4. ASSUME NEW k \in Kinds, CooldownEnds(k) PROVE IInv'
  BY <1>4, CooldownEndsKeeps
<1>5. ASSUME NEW w \in Workers, NEW j \in Jobs, Claim(w, j) PROVE IInv'
  BY <1>5, ClaimKeeps
<1>6. ASSUME NEW w \in Workers, MarkDone(w) PROVE IInv'
  BY <1>6, MarkDoneKeeps
<1>7. ASSUME NEW w \in Workers, CleanupSucceeds(w) PROVE IInv'
  BY <1>7, CleanupSucceedsKeeps
<1>8. ASSUME NEW w \in Workers, NEW recorded \in BOOLEAN,
             CleanupFails(w, recorded)
      PROVE  IInv'
  BY <1>8, CleanupFailsKeeps
<1>9. ASSUME NEW w \in Workers, NEW c \in {"transient", "permanent"},
             MarkFailedOrRetry(w, c)
      PROVE  IInv'
  BY <1>9, MarkFailedOrRetryKeeps
<1>10. ASSUME NEW w \in Workers, MarkExhausted(w) PROVE IInv'
  BY <1>10, MarkExhaustedKeeps
<1>11. ASSUME NEW w \in Workers, Refused(w) \/ Crash(w) PROVE IInv'
  BY <1>11, IdleKeeps DEF Refused, Crash
<1>12. ASSUME NEW j \in Jobs, LeaseExpires(j) PROVE IInv'
  BY <1>12, LeaseExpiresKeeps
<1>13. ASSUME NEW j \in Jobs, ReleaseExpired(j) PROVE IInv'
  BY <1>13, ReleaseExpiredKeeps
<1>14. ASSUME NEW j \in Jobs, RecoverFailed(j) PROVE IInv'
  BY <1>14, RecoverFailedKeeps
<1>15. ASSUME NEW j \in Jobs, Archive(j) PROVE IInv'
  BY <1>15, ArchiveKeeps
<1>16. ASSUME NEW j \in Jobs, Purge(j) PROVE IInv'
  BY <1>16, PurgeKeeps
<1>17. CASE UNCHANGED vars
  BY <1>17 DEF vars, IInv, TypeOK, BudgetLeft, IdentityIsExclusive, Collide,
               CompileRequestIsOwed, CleanupSpent, CleanupRests, Pending,
               Active, Of
<1>18. QED
  BY <1>1, <1>2, <1>3, <1>4, <1>5, <1>6, <1>7, <1>8, <1>9, <1>10, <1>11,
     <1>12, <1>13, <1>14, <1>15, <1>16, <1>17 DEF Next

(* The jobs table stays well formed, every active row has an attempt left, *)
(* and the four invariants below hold together.                            *)
THEOREM JobInvariant == Spec => []IInv
BY InitInv, NextInv, PTL DEF Spec

(* No row ever holds a value its column does not admit: in particular no   *)
(* failure spends an attempt beyond the row's maximum.                     *)
THEOREM JobTypeCorrect == Spec => []TypeOK
BY JobInvariant, PTL DEF IInv

(* The unique indexes of the jobs table are never hit by a claim, a retry, *)
(* a lease release or a recovery.                                          *)
THEOREM IdentitiesAreExclusive == Spec => []IdentityIsExclusive
BY JobInvariant, PTL DEF IInv

(* A compilation requested while another runs is still owed when it ends.  *)
THEOREM CompileRequestsAreOwed == Spec => []CompileRequestIsOwed
BY JobInvariant, PTL DEF IInv

(* No second automatic cleanup is done within its window.                  *)
THEOREM CleanupsAreRare == Spec => []CleanupOncePerWindow
<1>1. IInv => CleanupOncePerWindow
  BY DEF IInv, CleanupRests, CleanupOncePerWindow
<1>2. QED
  BY <1>1, JobInvariant, PTL

-----------------------------------------------------------------------------
(* Leases and final failures *)

LEMMA LeaseStep ==
    ASSUME TypeOK, [Next]_vars, NEW j \in Jobs,
           job[j].state = "processing", ~job[j].expired,
           job'[j].state # "processing"
    PROVE  claim[job[j].owner].job = j /\ claim'[job[j].owner].pc = "idle"
<1>0. job \in [Jobs -> JobRow] /\ job[j] \in JobRow
  BY DEF TypeOK
<1>1. ASSUME NEW w \in Workers, NEW row, Settles(w, row)
      PROVE  claim[job[j].owner].job = j /\ claim'[job[j].owner].pc = "idle"
  <2>1. claim[w].job = j
    BY <1>0, <1>1 DEF Settles
  <2>2. job[j].owner = w
    BY <1>1, <2>1 DEF Settles, Current
  <2>3. claim'[w].pc = "idle"
    BY <1>1 DEF Settles, TypeOK, Idle
  <2>4. QED
    BY <2>1, <2>2, <2>3
<1>2. ASSUME NEW i \in Jobs, NEW row, job' = [job EXCEPT ![i] = row],
             job[i].state = "processing" => job[i].expired
      PROVE  FALSE
  BY <1>0, <1>2
<1>3. ASSUME NEW i \in Jobs, NEW k, NEW p,
             job[i].state = "absent", job' = [job EXCEPT ![i] = Fresh(k, p)]
      PROVE  FALSE
  BY <1>0, <1>3
<1>4. ASSUME NEW k, NEW p, Insert(k, p)
      PROVE  FALSE
  BY <1>3, <1>4 DEF Insert
<1>5. ASSUME job' = job
      PROVE  FALSE
  BY <1>5
<1>6. ASSUME NEW k \in Kinds, Request(k) \/ CooldownEnds(k) PROVE FALSE
  BY <1>4, <1>5, <1>6 DEF Request, CooldownEnds
<1>7. ASSUME NEW p \in Profiles \union {NoProfile}, RequestDream(p) PROVE FALSE
  <2>1. ASSUME NEW i \in Active("dream"),
               job' = [job EXCEPT ![i] = Reprofiled(job[i], p)]
        PROVE  FALSE
    <3>1. i \in Jobs /\ job[i] \in JobRow
      BY <1>0 DEF Active, Of
    <3>2. Reprofiled(job[i], p).state = job[i].state
      BY <1>7, <3>1, ReprofiledRow
    <3>3. job'[i].state = job[i].state
      BY <1>0, <2>1, <3>1, <3>2
    <3>4. QED
      BY <1>0, <2>1, <3>1, <3>3
  <2>2. QED
    BY <1>4, <1>7, <2>1 DEF RequestDream
<1>8. CASE ScheduleCleanup
  BY <1>4, <1>8 DEF ScheduleCleanup
<1>9. ASSUME NEW w \in Workers, NEW i \in Jobs, Claim(w, i) PROVE FALSE
  BY <1>0, <1>2, <1>9 DEF Claim
<1>10. ASSUME NEW w \in Workers, NEW recorded \in BOOLEAN,
              Refused(w) \/ Crash(w) \/ CleanupFails(w, recorded)
       PROVE  FALSE
  BY <1>5, <1>10 DEF Refused, Crash, CleanupFails
<1>11. ASSUME NEW i \in Jobs, LeaseExpires(i) PROVE FALSE
  BY <1>0, <1>11 DEF LeaseExpires, JobRow
<1>12. ASSUME NEW i \in Jobs, ReleaseExpired(i) PROVE FALSE
  BY <1>0, <1>2, <1>12 DEF ReleaseExpired
<1>13. ASSUME NEW i \in Jobs, Archive(i) PROVE FALSE
  BY <1>0, <1>13 DEF Archive
<1>14. ASSUME NEW i \in Jobs, Purge(i) PROVE FALSE
  BY <1>0, <1>2, <1>14 DEF Purge
<1>15. ASSUME NEW i \in Jobs, RecoverFailed(i) PROVE FALSE
  <2>1. job[i].state = "failed" /\ i # j
    BY <1>15 DEF RecoverFailed, Recoverable
  <2>2. ASSUME NEW c \in Canonical(job[i].kind),
               job' = [job EXCEPT ![i].class = "permanent",
                                  ![c] = Reprofiled(job[c], job[i].profile)]
        PROVE  FALSE
    <3>1. c \in Jobs /\ c # i
      BY <2>1 DEF Canonical, Pending, Active, Of
    <3>2. job' = [[job EXCEPT ![i] = [job[i] EXCEPT !.class = "permanent"]]
                    EXCEPT ![c] = Reprofiled(job[c], job[i].profile)]
      BY <1>0, <2>2
    <3>3. j # c => job'[j] = job[j]
      BY <1>0, <2>1, <3>1, <3>2
    <3>4. job'[c] = Reprofiled(job[c], job[i].profile)
      BY <1>0, <3>1, <3>2
    <3>5. Reprofiled(job[c], job[i].profile).state = job[c].state
      BY <1>0, <3>1 DEF Reprofiled, JobRow
    <3>6. QED
      BY <3>3, <3>4, <3>5
  <2>3. ASSUME job' = [job EXCEPT ![i] = Requeued(job[i], job[i].attempts)]
        PROVE  FALSE
    BY <1>2, <2>1, <2>3
  <2>4. QED
    BY <1>15, <2>2, <2>3 DEF RecoverFailed
<1>16. CASE UNCHANGED vars
  BY <1>5, <1>16 DEF vars
<1>17. ASSUME NEW w \in Workers,
              \/ MarkDone(w) \/ CleanupSucceeds(w) \/ MarkExhausted(w)
              \/ \E c \in {"transient", "permanent"} : MarkFailedOrRetry(w, c)
       PROVE  claim[job[j].owner].job = j /\ claim'[job[j].owner].pc = "idle"
  BY <1>1, <1>17 DEF MarkDone, CleanupSucceeds, MarkExhausted,
                     MarkFailedOrRetry
<1>18. QED
  BY <1>6, <1>7, <1>8, <1>9, <1>10, <1>11, <1>12, <1>13, <1>14, <1>15, <1>16,
     <1>17 DEF Next

(* A lease that has not run out is ended by its holder's answer and by     *)
(* nothing else: late answers of other processes change nothing.           *)
THEOREM LeasesEndByHolder == Spec => LeaseEndsByHolder
<1>1. TypeOK /\ [Next]_vars =>
        [\A j \in Jobs :
           /\ job[j].state = "processing" /\ ~job[j].expired
           /\ job'[j].state # "processing"
           => /\ claim[job[j].owner].job = j
              /\ claim'[job[j].owner].pc = "idle"]_vars
  BY LeaseStep
<1>2. QED
  BY <1>1, JobTypeCorrect, PTL DEF Spec, LeaseEndsByHolder

Resting(row) == row.state = "failed" /\ row.class = "permanent"

LEMMA RestStep ==
    ASSUME TypeOK, [Next]_vars, NEW j \in Jobs, Resting(job[j])
    PROVE  \/ job'[j] = NoJob
           \/ Resting(job'[j]) /\ job'[j].attempts = job[j].attempts
<1> DEFINE Goal == \/ job'[j] = NoJob
                   \/ Resting(job'[j]) /\ job'[j].attempts = job[j].attempts
<1>0. job \in [Jobs -> JobRow] /\ job[j] \in JobRow
  BY DEF TypeOK
<1>1. ASSUME NEW i \in Jobs, NEW row, job' = [job EXCEPT ![i] = row],
             ~Resting(job[i])
      PROVE  Goal
  BY <1>0, <1>1
<1>2. ASSUME job' = job
      PROVE  Goal
  BY <1>2
<1>3. ASSUME NEW k, NEW p, Insert(k, p)
      PROVE  Goal
  BY <1>1, <1>3 DEF Insert, Resting
<1>4. ASSUME NEW w \in Workers, NEW row, Settles(w, row), claim[w].pc # "idle"
      PROVE  Goal
  BY <1>1, <1>4 DEF Settles, Current, Resting, TypeOK
<1>5. ASSUME NEW k \in Kinds, Request(k) \/ CooldownEnds(k) PROVE Goal
  BY <1>2, <1>3, <1>5 DEF Request, CooldownEnds
<1>6. ASSUME NEW p \in Profiles \union {NoProfile}, RequestDream(p) PROVE Goal
  <2>1. ASSUME NEW i \in Active("dream"),
               job' = [job EXCEPT ![i] = Reprofiled(job[i], p)]
        PROVE  Goal
    BY <1>1, <2>1 DEF Active, Of, Resting
  <2>2. QED
    BY <1>3, <1>6, <2>1 DEF RequestDream
<1>7. CASE ScheduleCleanup
  BY <1>3, <1>7 DEF ScheduleCleanup
<1>8. ASSUME NEW w \in Workers, NEW i \in Jobs, Claim(w, i) PROVE Goal
  BY <1>1, <1>8 DEF Claim, Resting
<1>9. ASSUME NEW w \in Workers,
             \/ MarkDone(w) \/ CleanupSucceeds(w) \/ MarkExhausted(w)
             \/ \E c \in {"transient", "permanent"} : MarkFailedOrRetry(w, c)
      PROVE  Goal
  BY <1>4, <1>9 DEF MarkDone, CleanupSucceeds, MarkExhausted,
                    MarkFailedOrRetry
<1>10. ASSUME NEW w \in Workers, NEW recorded \in BOOLEAN,
              Refused(w) \/ Crash(w) \/ CleanupFails(w, recorded)
       PROVE  Goal
  BY <1>2, <1>10 DEF Refused, Crash, CleanupFails
<1>11. ASSUME NEW i \in Jobs, LeaseExpires(i) PROVE Goal
  BY <1>1, <1>11 DEF LeaseExpires, Resting
<1>12. ASSUME NEW i \in Jobs, ReleaseExpired(i) PROVE Goal
  BY <1>1, <1>12 DEF ReleaseExpired, Resting
<1>13. ASSUME NEW i \in Jobs, Archive(i) PROVE Goal
  <2>1. job' = [job EXCEPT ![i].archived = TRUE]
    BY <1>13 DEF Archive
  <2>2. /\ job'[j].state = job[j].state /\ job'[j].class = job[j].class
        /\ job'[j].attempts = job[j].attempts
    BY <1>0, <2>1 DEF JobRow
  <2>3. QED
    BY <2>2 DEF Resting
<1>14. ASSUME NEW i \in Jobs, Purge(i) PROVE Goal
  BY <1>0, <1>14 DEF Purge
<1>15. ASSUME NEW i \in Jobs, RecoverFailed(i) PROVE Goal
  <2>1. job[i].state = "failed" /\ job[i].class = "transient" /\ i # j
    BY <1>15 DEF RecoverFailed, Recoverable, Resting
  <2>2. ASSUME NEW c \in Canonical(job[i].kind),
               job' = [job EXCEPT ![i].class = "permanent",
                                  ![c] = Reprofiled(job[c], job[i].profile)]
        PROVE  Goal
    <3>1. c \in Jobs /\ c # j
      BY DEF Canonical, Pending, Active, Of, Resting
    <3>2. job' = [[job EXCEPT ![i] = [job[i] EXCEPT !.class = "permanent"]]
                    EXCEPT ![c] = Reprofiled(job[c], job[i].profile)]
      BY <1>0, <2>2
    <3>3. job'[j] = job[j]
      BY <1>0, <2>1, <3>1, <3>2
    <3>4. QED
      BY <3>3
  <2>3. ASSUME job' = [job EXCEPT ![i] = Requeued(job[i], job[i].attempts)]
        PROVE  Goal
    BY <1>1, <2>1, <2>3 DEF Resting
  <2>4. QED
    BY <1>15, <2>2, <2>3 DEF RecoverFailed
<1>16. CASE UNCHANGED vars
  BY <1>2, <1>16 DEF vars
<1>17. QED
  BY <1>5, <1>6, <1>7, <1>8, <1>9, <1>10, <1>11, <1>12, <1>13, <1>14, <1>15,
     <1>16 DEF Next

(* A failure that is final stays as it is until an operator purges it: no  *)
(* recovery, retry or late answer runs it again.                           *)
THEOREM CoalescedSourcesRest == Spec => CoalescedSourceRests
<1>1. TypeOK /\ [Next]_vars =>
        [\A j \in Jobs :
           job[j].state = "failed" /\ job[j].class = "permanent" =>
             \/ job'[j] = NoJob
             \/ /\ job'[j].state = "failed"
                /\ job'[j].class = "permanent"
                /\ job'[j].attempts = job[j].attempts]_vars
  BY RestStep DEF Resting
<1>2. QED
  BY <1>1, JobTypeCorrect, PTL DEF Spec, CoalescedSourceRests

-----------------------------------------------------------------------------
(* Refinement: compile_rules rows as coalesced requests *)

Requested == Pending("compile_rules") # {}
Running == Processing("compile_rules") # {}

LEMMA AbstractStep ==
    /\ Compilation!Request <=> Requested' = TRUE /\ Running' = Running
    /\ Compilation!Begin <=> /\ Requested /\ ~Running
                             /\ Requested' = FALSE /\ Running' = TRUE
    /\ Compilation!End <=> /\ Running /\ Running' = FALSE
                           /\ Requested' = Requested
    /\ Compilation!Again <=> /\ Running /\ Running' = FALSE
                             /\ Requested' = TRUE
    /\ (UNCHANGED Compilation!vars) <=> /\ Requested' = Requested
                                        /\ Running' = Running
BY DEF Compilation!Request, Compilation!Begin, Compilation!End,
       Compilation!Again, Compilation!vars, Requested, Running

(* The two sets when one row of kind k is written. *)
LEMMA CompileSets ==
    ASSUME IInv, NEW j \in Jobs, NEW row, job' = [job EXCEPT ![j] = row]
    PROVE  /\ Pending("compile_rules")' =
                IF row.kind = "compile_rules" /\ row.state = "pending"
                THEN Pending("compile_rules") \union {j}
                ELSE Pending("compile_rules") \ {j}
           /\ Processing("compile_rules")' =
                IF row.kind = "compile_rules" /\ row.state = "processing"
                THEN Processing("compile_rules") \union {j}
                ELSE Processing("compile_rules") \ {j}
           /\ j \in Pending("compile_rules") <=>
                job[j].kind = "compile_rules" /\ job[j].state = "pending"
           /\ j \in Processing("compile_rules") <=>
                job[j].kind = "compile_rules" /\ job[j].state = "processing"
           /\ j \in Pending("compile_rules") => Pending("compile_rules") = {j}
           /\ j \in Processing("compile_rules") =>
                Processing("compile_rules") = {j}
<1>1. job \in [Jobs -> JobRow]
  BY DEF IInv, TypeOK
<1>2. /\ Pending("compile_rules")' =
           IF row.kind = "compile_rules" /\ row.state = "pending"
           THEN Pending("compile_rules") \union {j}
           ELSE Pending("compile_rules") \ {j}
      /\ Processing("compile_rules")' =
           IF row.kind = "compile_rules" /\ row.state = "processing"
           THEN Processing("compile_rules") \union {j}
           ELSE Processing("compile_rules") \ {j}
  BY <1>1, RowSets
<1>3. \A a, b \in Pending("compile_rules") : a = b
  BY DEF Pending, Of, IInv, IdentityIsExclusive, Collide
<1>4. \A a, b \in Processing("compile_rules") : a = b
  BY DEF Processing, Of, IInv, IdentityIsExclusive, Collide
<1>5. /\ j \in Pending("compile_rules") <=>
           job[j].kind = "compile_rules" /\ job[j].state = "pending"
      /\ j \in Processing("compile_rules") <=>
           job[j].kind = "compile_rules" /\ job[j].state = "processing"
  BY DEF Pending, Processing, Of
<1>6. /\ j \in Pending("compile_rules") => Pending("compile_rules") = {j}
      /\ j \in Processing("compile_rules") => Processing("compile_rules") = {j}
  BY <1>3, <1>4
<1>7. QED
  BY <1>2, <1>5, <1>6

(* A row leaves its idle state for a waiting one, or moves between idle    *)
(* ones.                                                                   *)
LEMMA IdleRowMaps ==
    ASSUME IInv, NEW j \in Jobs, NEW row, job' = [job EXCEPT ![j] = row],
           job[j].state \notin ActiveStates, row.state # "processing"
    PROVE  Compilation!Request \/ UNCHANGED Compilation!vars
<1>1. j \notin Pending("compile_rules") /\ j \notin Processing("compile_rules")
  BY CompileSets DEF ActiveStates
<1>2. Processing("compile_rules")' = Processing("compile_rules")
  BY <1>1, CompileSets
<1>3. CASE row.kind = "compile_rules" /\ row.state = "pending"
  <2>1. Pending("compile_rules")' = Pending("compile_rules") \union {j}
    BY <1>3, CompileSets
  <2>2. QED
    BY <1>2, <2>1, AbstractStep DEF Requested, Running
<1>4. CASE ~(row.kind = "compile_rules" /\ row.state = "pending")
  <2>1. Pending("compile_rules")' = Pending("compile_rules") \ {j}
    BY <1>4, CompileSets
  <2>2. QED
    BY <1>1, <1>2, <2>1, AbstractStep DEF Requested, Running
<1>5. QED
  BY <1>3, <1>4

LEMMA ProcessingRowMaps ==
    ASSUME IInv, NEW j \in Jobs, NEW row, job' = [job EXCEPT ![j] = row],
           job[j].state = "processing", row.state # "processing",
           row.kind = job[j].kind
    PROVE  Compilation!End \/ Compilation!Again \/ UNCHANGED Compilation!vars
<1>1. j \notin Pending("compile_rules")
  BY CompileSets
<1>2. CASE row.kind # "compile_rules"
  <2>1. /\ Pending("compile_rules")' = Pending("compile_rules") \ {j}
        /\ Processing("compile_rules")' = Processing("compile_rules") \ {j}
        /\ j \notin Processing("compile_rules")
    BY <1>2, CompileSets
  <2>2. QED
    BY <1>1, <2>1, AbstractStep DEF Requested, Running
<1>3. CASE row.kind = "compile_rules"
  <2>1. /\ Processing("compile_rules") = {j}
        /\ Processing("compile_rules")' = {}
    BY <1>3, CompileSets
  <2>2. CASE row.state = "pending"
    <3>1. Pending("compile_rules")' = Pending("compile_rules") \union {j}
      BY <1>3, <2>2, CompileSets
    <3>2. QED
      BY <2>1, <3>1, AbstractStep DEF Requested, Running
  <2>3. CASE row.state # "pending"
    <3>1. Pending("compile_rules")' = Pending("compile_rules") \ {j}
      BY <2>3, CompileSets
    <3>2. QED
      BY <1>1, <2>1, <3>1, AbstractStep DEF Requested, Running
  <2>4. QED
    BY <2>2, <2>3
<1>4. QED
  BY <1>2, <1>3

LEMMA ClaimMaps ==
    ASSUME IInv, NEW w \in Workers, NEW j \in Jobs, Claim(w, j)
    PROVE  Compilation!Begin \/ UNCHANGED Compilation!vars
<1> DEFINE row == Leased(job[j], w)
<1>1. job' = [job EXCEPT ![j] = row] /\ job[j].state = "pending"
  BY DEF Claim
<1>2. row.state = "processing" /\ row.kind = job[j].kind
  BY LeasedRow DEF IInv, TypeOK
<1> HIDE DEF row
<1>3. CASE job[j].kind # "compile_rules"
  <2>1. /\ Pending("compile_rules")' = Pending("compile_rules") \ {j}
        /\ Processing("compile_rules")' = Processing("compile_rules") \ {j}
    BY <1>1, <1>2, <1>3, CompileSets
  <2>3. j \notin Pending("compile_rules") /\ j \notin Processing("compile_rules")
    BY <1>3 DEF Pending, Processing, Of
  <2>4. QED
    BY <2>1, <2>3, AbstractStep DEF Requested, Running
<1>4. CASE job[j].kind = "compile_rules"
  <2>1. /\ Pending("compile_rules") = {j} /\ Pending("compile_rules")' = {}
        /\ Processing("compile_rules")' =
             Processing("compile_rules") \union {j}
    BY <1>1, <1>2, <1>4, CompileSets
  <2>2. Processing("compile_rules") = {}
    BY <1>4 DEF Claim, Claimable
  <2>3. QED
    BY <2>1, <2>2, AbstractStep DEF Requested, Running
<1>5. QED
  BY <1>3, <1>4

LEMMA TouchMaps ==
    ASSUME \A i \in Jobs : /\ job'[i].kind = job[i].kind
                           /\ job'[i].state = job[i].state
    PROVE  UNCHANGED Compilation!vars
<1>1. /\ Pending("compile_rules")' = Pending("compile_rules")
      /\ Processing("compile_rules")' = Processing("compile_rules")
  BY DEF Pending, Processing, Of
<1>2. QED
  BY <1>1, AbstractStep DEF Requested, Running

LEMMA SettleMaps ==
    ASSUME IInv, NEW w \in Workers, NEW row, Settles(w, row),
           claim[w].pc # "idle", row.state \in {"done", "failed", "pending"},
           row.kind = KindOf(w)
    PROVE  [Compilation!Next]_(Compilation!vars)
<1>1. claim[w].job \in Jobs
  BY DEF IInv, TypeOK
<1>2. /\ job' = [job EXCEPT ![claim[w].job] = row]
      /\ job[claim[w].job].state = "processing"
      /\ row.kind = job[claim[w].job].kind
  BY DEF Settles, Current, KindOf
<1>3. QED
  BY <1>1, <1>2, ProcessingRowMaps DEF Compilation!Next

LEMMA AnswerMaps ==
    ASSUME IInv, NEW w \in Workers,
           \/ MarkDone(w) \/ CleanupSucceeds(w) \/ MarkExhausted(w)
           \/ \E c \in {"transient", "permanent"} : MarkFailedOrRetry(w, c)
    PROVE  [Compilation!Next]_(Compilation!vars)
<1> DEFINE row == job[claim[w].job]
<1>1. claim[w].pc # "idle" /\ Current(w)
  BY DEF MarkDone, CleanupSucceeds, MarkExhausted, MarkFailedOrRetry, Settles
<1>2. /\ row \in JobRow /\ row.state = "processing" /\ claim[w].job \in Jobs
      /\ row.attempts \in 0 .. MaxAttempts /\ row.class \in Classes
  BY <1>1, HeldRow
<1>3. CASE MarkDone(w) \/ CleanupSucceeds(w)
  <2>1. Settles(w, Finished(row))
    BY <1>3 DEF MarkDone, CleanupSucceeds
  <2>2. Finished(row).kind = KindOf(w) /\ Finished(row).state = "done"
    BY <1>2, FinishedRow DEF KindOf
  <2>3. QED
    BY <1>1, <2>1, <2>2, SettleMaps
<1>4. CASE MarkExhausted(w)
  <2>1. PICK c \in Classes : Settles(w, Failed(row, row.attempts, c))
    BY <1>2, <1>4 DEF MarkExhausted, Classes
  <2>2. /\ Failed(row, row.attempts, c).kind = KindOf(w)
        /\ Failed(row, row.attempts, c).state = "failed"
    BY <1>2, FailedRow DEF KindOf
  <2>3. QED
    BY <1>1, <2>1, <2>2, SettleMaps
<1>5. ASSUME NEW c \in {"transient", "permanent"}, MarkFailedOrRetry(w, c)
      PROVE  [Compilation!Next]_(Compilation!vars)
  <2>1. Settles(w, FailureOutcome(w, c))
    BY <1>5 DEF MarkFailedOrRetry
  <2>2. /\ FailureOutcome(w, c).kind = KindOf(w)
        /\ FailureOutcome(w, c).state \in {"failed", "pending"}
    BY <1>2, OutcomeFine DEF KindOf
  <2>3. QED
    BY <1>1, <2>1, <2>2, SettleMaps
<1>6. QED
  BY <1>3, <1>4, <1>5

LEMMA ReleaseMaps ==
    ASSUME IInv, NEW j \in Jobs, ReleaseExpired(j)
    PROVE  [Compilation!Next]_(Compilation!vars)
<1>1. /\ job[j] \in JobRow /\ job[j].state = "processing"
      /\ job[j].attempts \in 0 .. MaxAttempts
  BY DEF ReleaseExpired, IInv, TypeOK, JobRow
<1>2. PICK row : /\ job' = [job EXCEPT ![j] = row]
                 /\ \/ row = Failed(job[j], job[j].attempts, "permanent")
                    \/ row = Released(job[j])
  BY DEF ReleaseExpired
<1>3. CASE row = Failed(job[j], job[j].attempts, "permanent")
  <2>1. row.kind = job[j].kind /\ row.state = "failed"
    BY <1>1, <1>3, FailedRow DEF Classes
  <2>2. QED
    BY <1>1, <1>2, <2>1, ProcessingRowMaps DEF Compilation!Next
<1>4. CASE row = Released(job[j])
  <2>1. row.kind = job[j].kind /\ row.state = "pending"
    BY <1>1, <1>4, ReleasedRow
  <2>2. QED
    BY <1>1, <1>2, <2>1, ProcessingRowMaps DEF Compilation!Next
<1>5. QED
  BY <1>2, <1>3, <1>4

LEMMA RecoverMaps ==
    ASSUME IInv, NEW j \in Jobs, RecoverFailed(j)
    PROVE  [Compilation!Next]_(Compilation!vars)
<1> USE JobQueueAssumption
<1>0. /\ job \in [Jobs -> JobRow] /\ job[j] \in JobRow
      /\ job[j].attempts \in 0 .. MaxAttempts
      /\ job[j].profile \in Profiles \union {NoProfile}
  BY DEF IInv, TypeOK, JobRow
<1>1. job[j].state = "failed"
  BY DEF RecoverFailed, Recoverable
<1>2. CASE job' = [job EXCEPT ![j] = Requeued(job[j], job[j].attempts)]
  <2>1. Requeued(job[j], job[j].attempts).state = "pending"
    BY <1>0, RequeuedRow
  <2>2. QED
    BY <1>1, <1>2, <2>1, IdleRowMaps DEF Compilation!Next, ActiveStates
<1>3. ASSUME NEW c \in Canonical(job[j].kind),
             job' = [job EXCEPT ![j].class = "permanent",
                                ![c] = Reprofiled(job[c], job[j].profile)]
      PROVE  [Compilation!Next]_(Compilation!vars)
  <2>1. c \in Jobs /\ c # j
    BY <1>1 DEF Canonical, Pending, Active, Of
  <2>2. job' = [[job EXCEPT ![j] = [job[j] EXCEPT !.class = "permanent"]]
                  EXCEPT ![c] = Reprofiled(job[c], job[j].profile)]
    BY <1>0, <1>3
  <2>3. /\ Reprofiled(job[c], job[j].profile).state = job[c].state
        /\ Reprofiled(job[c], job[j].profile).kind = job[c].kind
    BY <1>0, <2>1, ReprofiledRow
  <2>4. \A i \in Jobs : /\ job'[i].kind = job[i].kind
                        /\ job'[i].state = job[i].state
    BY <1>0, <2>1, <2>2, <2>3 DEF JobRow
  <2>5. QED
    BY <2>4, TouchMaps
<1>4. QED
  BY <1>2, <1>3 DEF RecoverFailed

LEMMA InsertMaps ==
    ASSUME IInv, NEW k \in AllKinds, NEW p \in Profiles \union {NoProfile},
           Insert(k, p)
    PROVE  [Compilation!Next]_(Compilation!vars)
<1>1. PICK j \in Jobs : /\ job[j].state = "absent"
                        /\ job' = [job EXCEPT ![j] = Fresh(k, p)]
  BY DEF Insert
<1>2. Fresh(k, p).state = "pending"
  BY FreshRow
<1>3. QED
  BY <1>1, <1>2, IdleRowMaps DEF Compilation!Next, ActiveStates

LEMMA StepMaps == IInv /\ [Next]_vars => [Compilation!Next]_(Compilation!vars)
<1> USE JobQueueAssumption
<1> SUFFICES ASSUME IInv, [Next]_vars
             PROVE  [Compilation!Next]_(Compilation!vars)
  OBVIOUS
<1>0. job \in [Jobs -> JobRow]
  BY DEF IInv, TypeOK
<1>1. ASSUME job' = job PROVE [Compilation!Next]_(Compilation!vars)
  BY <1>1, TouchMaps
<1>2. ASSUME NEW k \in Kinds, Request(k)
      PROVE  [Compilation!Next]_(Compilation!vars)
  <2>1. NoProfile \in Profiles \union {NoProfile} /\ k \in AllKinds
    OBVIOUS
  <2>2. QED
    BY <1>1, <1>2, <2>1, InsertMaps DEF Request
<1>3. ASSUME NEW p \in Profiles \union {NoProfile}, RequestDream(p)
      PROVE  [Compilation!Next]_(Compilation!vars)
  <2>1. ASSUME NEW j \in Active("dream"),
               job' = [job EXCEPT ![j] = Reprofiled(job[j], p)]
        PROVE  [Compilation!Next]_(Compilation!vars)
    <3>1. j \in Jobs /\ job[j] \in JobRow
      BY <1>0 DEF Active, Of
    <3>2. /\ Reprofiled(job[j], p).state = job[j].state
          /\ Reprofiled(job[j], p).kind = job[j].kind
      BY <1>3, <3>1, ReprofiledRow
    <3>3. \A i \in Jobs : /\ job'[i].kind = job[i].kind
                          /\ job'[i].state = job[i].state
      BY <1>0, <2>1, <3>1, <3>2
    <3>4. QED
      BY <3>3, TouchMaps
  <2>2. ASSUME Insert("dream", p) PROVE [Compilation!Next]_(Compilation!vars)
    BY <1>3, <2>2, InsertMaps DEF AllKinds
  <2>3. QED
    BY <1>3, <2>1, <2>2 DEF RequestDream
<1>4. CASE ScheduleCleanup
  BY <1>4, InsertMaps DEF ScheduleCleanup, AllKinds
<1>5. ASSUME NEW k \in Kinds, CooldownEnds(k)
      PROVE  [Compilation!Next]_(Compilation!vars)
  BY <1>1, <1>5 DEF CooldownEnds
<1>6. ASSUME NEW w \in Workers, NEW j \in Jobs, Claim(w, j)
      PROVE  [Compilation!Next]_(Compilation!vars)
  BY <1>6, ClaimMaps DEF Compilation!Next
<1>7. ASSUME NEW w \in Workers,
             \/ MarkDone(w) \/ CleanupSucceeds(w) \/ MarkExhausted(w)
             \/ \E c \in {"transient", "permanent"} : MarkFailedOrRetry(w, c)
      PROVE  [Compilation!Next]_(Compilation!vars)
  BY <1>7, AnswerMaps
<1>8. ASSUME NEW w \in Workers, NEW recorded \in BOOLEAN,
             Refused(w) \/ Crash(w) \/ CleanupFails(w, recorded)
      PROVE  [Compilation!Next]_(Compilation!vars)
  BY <1>1, <1>8 DEF Refused, Crash, CleanupFails
<1>9. ASSUME NEW j \in Jobs, LeaseExpires(j) \/ Archive(j)
      PROVE  [Compilation!Next]_(Compilation!vars)
  <2>1. \A i \in Jobs : /\ job'[i].kind = job[i].kind
                        /\ job'[i].state = job[i].state
    BY <1>0, <1>9 DEF LeaseExpires, Archive, JobRow
  <2>2. QED
    BY <2>1, TouchMaps
<1>10. ASSUME NEW j \in Jobs, ReleaseExpired(j)
       PROVE  [Compilation!Next]_(Compilation!vars)
  BY <1>10, ReleaseMaps
<1>11. ASSUME NEW j \in Jobs, RecoverFailed(j)
       PROVE  [Compilation!Next]_(Compilation!vars)
  BY <1>11, RecoverMaps
<1>12. ASSUME NEW j \in Jobs, Purge(j)
       PROVE  [Compilation!Next]_(Compilation!vars)
  <2>1. job' = [job EXCEPT ![j] = NoJob] /\ NoJob.state = "absent"
        /\ job[j].state = "failed"
    BY <1>12 DEF Purge, NoJob
  <2>2. QED
    BY <2>1, IdleRowMaps DEF Compilation!Next, ActiveStates
<1>13. CASE UNCHANGED vars
  BY <1>1, <1>13 DEF vars
<1>14. QED
  BY <1>2, <1>3, <1>4, <1>5, <1>6, <1>7, <1>8, <1>9, <1>10, <1>11, <1>12,
     <1>13 DEF Next

(* The compile_rules rows implement the abstract coalescing of requests:   *)
(* runs never overlap, and a request that arrives during one outlives it.  *)
THEOREM CompilationsCoalesce == Spec => CompileRequestsCoalesce
<1>1. Init => Compilation!Init
  BY DEF Init, Compilation!Init, Pending, Processing, Of, NoJob
<1>2. IInv /\ [Next]_vars => [Compilation!Next]_(Compilation!vars)
  BY StepMaps
<1>3. QED
  BY <1>1, <1>2, JobInvariant, PTL
     DEF Spec, CompileRequestsCoalesce, Compilation!Spec

=============================================================================
