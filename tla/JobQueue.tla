------------------------------ MODULE JobQueue ------------------------------
(***************************************************************************)
(* The jobs table of remem: work that is requested by identity rather than *)
(* by event.  A kind stands for one identity of that kind: one project     *)
(* (dream, compile_rules), one host, project and session (ordinary), or    *)
(* the whole store (cleanup).  Requests coalesce with active work, worker  *)
(* processes claim under a lease, maintenance recovers failed rows, and    *)
(* several processes do all of this against one database.                  *)
(*                                                                         *)
(* SQLite runs each of the statements below in one write transaction, so   *)
(* an action is a transaction.  The unique indexes of the table are NOT    *)
(* part of any guard: that the statements never collide with them is a     *)
(* property (a collision aborts the worker loop).                          *)
(***************************************************************************)
EXTENDS Naturals, FiniteSets

CONSTANTS Workers,       \* worker processes
          NoWorker,      \* lease_owner IS NULL
          Kinds,         \* identities in use
          Profiles,      \* AI profiles a dream may name
          NoProfile,     \* a payload that names none
          MaxJob,        \* bound on the rows ever inserted
          MaxAttempts,   \* jobs.max_attempts
          AutoRetries,   \* MAX_FAILURE_AUTO_RETRIES
          Exhausts       \* whether a caller uses mark_job_exhausted

AllKinds == {"ordinary", "dream", "compile_rules", "cleanup"}
Jobs == 1 .. MaxJob
Classes == {"none", "transient", "permanent"}

ASSUME JobQueueAssumption ==
    /\ NoWorker \notin Workers
    /\ Kinds \subseteq AllKinds
    /\ NoProfile \notin Profiles
    /\ MaxJob \in Nat
    /\ MaxAttempts \in Nat \ {0}
    /\ AutoRetries \in 0 .. MaxAttempts
    /\ Exhausts \in BOOLEAN

VARIABLES job,          \* the jobs table
          claim,        \* what each process holds between its transactions
          cooling,      \* kinds whose last completion is still recent
          compileDue,   \* history: a compilation was requested after the
                        \* last one was claimed
          cleanups      \* history: automatic cleanups done since the
                        \* cleanup window opened

vars == <<job, claim, cooling, compileDue, cleanups>>

JobRow == [ state : {"absent", "pending", "processing", "done", "failed"},
            kind : AllKinds,
            owner : Workers \union {NoWorker},
            expired : BOOLEAN,            \* lease_expires_epoch < now
            attempts : 0 .. MaxAttempts,
            class : Classes,
            archived : BOOLEAN,
            profile : Profiles \union {NoProfile} ]

NoJob == [ state |-> "absent", kind |-> "ordinary", owner |-> NoWorker,
           expired |-> FALSE, attempts |-> 0, class |-> "none",
           archived |-> FALSE, profile |-> NoProfile ]

Idle == [pc |-> "idle", job |-> 0]

TypeOK ==
    /\ job \in [Jobs -> JobRow]
    /\ claim \in [Workers -> [pc : {"idle", "running", "reporting"},
                              job : 0 .. MaxJob]]
    /\ \A w \in Workers : claim[w].pc # "idle" => claim[w].job \in Jobs
    /\ cooling \in SUBSET {"dream", "cleanup"}
    /\ compileDue \in BOOLEAN
    /\ cleanups \in Nat

Init ==
    /\ job = [j \in Jobs |-> NoJob]
    /\ claim = [w \in Workers |-> Idle]
    /\ cooling = {}
    /\ compileDue = FALSE
    /\ cleanups = 0

Of(k, states) == {j \in Jobs : job[j].kind = k /\ job[j].state \in states}
Pending(k) == Of(k, {"pending"})
Processing(k) == Of(k, {"processing"})
Active(k) == Of(k, {"pending", "processing"})

(* Mutant: a request joins a compilation that has already begun. *)
WrongCanonicalAnyActive(k) == Active(k)

(* find_active_canonical: the row a request or a recovered failure joins.  *)
(* A compilation that has begun cannot answer a later request, so only a   *)
(* pending one counts.                                                     *)
Canonical(k) == IF k = "compile_rules" THEN Pending(k) ELSE Active(k)

-----------------------------------------------------------------------------
(* What a transaction writes in a row *)

Unleased(row) == [row EXCEPT !.owner = NoWorker, !.expired = FALSE]

Fresh(k, p) == [NoJob EXCEPT !.state = "pending", !.kind = k, !.profile = p]

Leased(row, w) == [row EXCEPT !.state = "processing", !.owner = w,
                              !.expired = FALSE]

Finished(row) == [Unleased(row) EXCEPT !.state = "done", !.class = "none",
                                       !.archived = FALSE]

Failed(row, attempts, c) ==
    [Unleased(row) EXCEPT !.state = "failed", !.attempts = attempts,
                          !.class = c, !.archived = FALSE]

Requeued(row, attempts) ==
    [Unleased(row) EXCEPT !.state = "pending", !.attempts = attempts,
                          !.class = "none", !.archived = FALSE]

(* Mutant: the lease is cleared, the state is not. *)
WrongReleasedKeepsState(row) == Unleased(row)

(* A row whose lease ran out keeps what it knows of its failures. *)
Released(row) == [Unleased(row) EXCEPT !.state = "pending"]

-----------------------------------------------------------------------------
(* Requests *)

Insert(k, p) ==
    LET free == {j \in Jobs : job[j].state = "absent"} IN
    \E j \in free :
      /\ \A i \in free : j <= i
      /\ job' = [job EXCEPT ![j] = Fresh(k, p)]

Request(k) ==
    /\ k \in Kinds \intersect {"ordinary", "compile_rules"}
    /\ \/ Canonical(k) # {} /\ UNCHANGED job
       \/ Canonical(k) = {} /\ Insert(k, NoProfile)
    /\ compileDue' = (compileDue \/ k = "compile_rules")
    /\ UNCHANGED <<claim, cooling, cleanups>>

(* A dream that names another profile takes over the pending row; one that *)
(* is being processed is left alone.                                       *)
Reprofiled(row, p) ==
    IF row.state = "pending" /\ p # NoProfile THEN [row EXCEPT !.profile = p]
                                              ELSE row

RequestDream(p) ==
    /\ "dream" \in Kinds
    /\ \/ \E j \in Active("dream") :
            job' = [job EXCEPT ![j] = Reprofiled(job[j], p)]
       \/ /\ Active("dream") = {}
          /\ "dream" \notin cooling
          /\ Insert("dream", p)
    /\ UNCHANGED <<claim, cooling, compileDue, cleanups>>

(* Mutant: the probe forgets the ledger of earlier runs. *)
WrongScheduleCleanupAnyTime ==
    /\ "cleanup" \in Kinds
    /\ Active("cleanup") = {}
    /\ Insert("cleanup", NoProfile)
    /\ UNCHANGED <<claim, cooling, compileDue, cleanups>>

(* The worker's minute probe.  An earlier automatic run, successful or     *)
(* not, holds the next one off for a day.                                  *)
ScheduleCleanup ==
    /\ "cleanup" \in Kinds
    /\ Active("cleanup") = {}
    /\ "cleanup" \notin cooling
    /\ Insert("cleanup", NoProfile)
    /\ UNCHANGED <<claim, cooling, compileDue, cleanups>>

(* A day (cleanup) or the dream cooldown has passed. *)
CooldownEnds(k) ==
    /\ k \in cooling
    /\ cooling' = cooling \ {k}
    /\ cleanups' = IF k = "cleanup" THEN 0 ELSE cleanups
    /\ UNCHANGED <<job, claim, compileDue>>

-----------------------------------------------------------------------------
(* Claims *)

(* Mutant: a claim ignores the compilation in progress. *)
WrongClaimableAlways(k) == TRUE

Claimable(k) == k = "compile_rules" => Processing(k) = {}

(* claim_next_job and claim_ready_cleanup_job: a retry that is not yet due *)
(* hides a row for a while, so any pending row can be the first due one.   *)
Claim(w, j) ==
    /\ claim[w].pc = "idle"
    /\ job[j].state = "pending"
    /\ Claimable(job[j].kind)
    /\ job' = [job EXCEPT ![j] = Leased(job[j], w)]
    /\ claim' = [claim EXCEPT ![w] = [pc |-> "running", job |-> j]]
    /\ compileDue' = (compileDue /\ job[j].kind # "compile_rules")
    /\ UNCHANGED <<cooling, cleanups>>

(* A lease outlives the job's timeout by a minute, but a suspended process *)
(* or a slow disk can still overrun it.                                    *)
LeaseExpires(j) ==
    /\ job[j].state = "processing"
    /\ ~job[j].expired
    /\ job' = [job EXCEPT ![j].expired = TRUE]
    /\ UNCHANGED <<claim, cooling, compileDue, cleanups>>

-----------------------------------------------------------------------------
(* Settling a claim *)

(* Mutant: an answer is accepted whoever holds the lease. *)
WrongCurrentAnyOwner(w) ==
    LET row == job[claim[w].job]
    IN row.state = "processing" /\ ~row.expired

(* WHERE id = .. AND state = 'processing' AND lease_owner = ..             *)
(*   AND lease_expires_epoch >= now.                                       *)
Current(w) ==
    LET row == job[claim[w].job]
    IN row.state = "processing" /\ row.owner = w /\ ~row.expired

Settles(w, row) ==
    /\ Current(w)
    /\ job' = [job EXCEPT ![claim[w].job] = row]
    /\ claim' = [claim EXCEPT ![w] = Idle]

KindOf(w) == job[claim[w].job].kind

MarkDone(w) ==
    /\ claim[w].pc = "running"
    /\ KindOf(w) # "cleanup"
    /\ Settles(w, Finished(job[claim[w].job]))
    /\ cooling' = IF KindOf(w) = "dream" THEN cooling \union {"dream"}
                                         ELSE cooling
    /\ UNCHANGED <<compileDue, cleanups>>

(* execute_cleanup: the work, its entry in maintenance_runs and the job's  *)
(* completion commit together.                                             *)
CleanupSucceeds(w) ==
    /\ claim[w].pc = "running"
    /\ KindOf(w) = "cleanup"
    /\ Settles(w, Finished(job[claim[w].job]))
    /\ cooling' = cooling \union {"cleanup"}
    /\ cleanups' = cleanups + 1
    /\ UNCHANGED compileDue

(* A cleanup that fails, for one because its lease has run out, is rolled  *)
(* back; a second transaction records the run, unless that fails too.      *)
CleanupFails(w, recorded) ==
    /\ claim[w].pc = "running"
    /\ KindOf(w) = "cleanup"
    /\ claim' = [claim EXCEPT ![w].pc = "reporting"]
    /\ cooling' = IF recorded THEN cooling \union {"cleanup"} ELSE cooling
    /\ UNCHANGED <<job, compileDue, cleanups>>

(* Mutant: the retry limit is compared before the attempt is counted. *)
WrongFailureOutcomeOneMore(w, c) ==
    LET row == job[claim[w].job]
    IN IF c = "permanent" \/ row.attempts >= MaxAttempts
       THEN Failed(row, row.attempts + 1, c)
       ELSE Requeued(row, row.attempts + 1)

(* transition_failed_or_retry as mark_job_failed_or_retry calls it; the    *)
(* forced retry of mark_job_failed is called by tests only and left out.   *)
(* A compilation that another request is already waiting for leaves its    *)
(* retry to that one.                                                      *)
FailureOutcome(w, c) ==
    LET row == job[claim[w].job]
        spent == row.attempts + 1
    IN IF c = "permanent" \/ spent >= MaxAttempts THEN Failed(row, spent, c)
       ELSE IF row.kind = "compile_rules" /\ Pending("compile_rules") # {}
            THEN Failed(row, spent, "permanent")
            ELSE Requeued(row, spent)

MarkFailedOrRetry(w, c) ==
    /\ claim[w].pc # "idle"
    /\ KindOf(w) = "cleanup" => claim[w].pc = "reporting"
    /\ Settles(w, FailureOutcome(w, c))
    /\ UNCHANGED <<cooling, compileDue, cleanups>>

(* mark_job_exhausted gives up without spending an attempt.  It is part of *)
(* the interface; no worker of this version calls it.                      *)
MarkExhausted(w) ==
    /\ Exhausts
    /\ claim[w].pc = "running"
    /\ KindOf(w) # "cleanup"
    /\ Settles(w, LET row == job[claim[w].job]
                  IN Failed(row, row.attempts, IF row.class = "none"
                                               THEN "transient"
                                               ELSE row.class))
    /\ UNCHANGED <<cooling, compileDue, cleanups>>

(* A late answer is refused and ends the worker loop; a crash ends it at   *)
(* any time.  Either way the process that starts next holds nothing.       *)
Refused(w) ==
    /\ claim[w].pc # "idle"
    /\ KindOf(w) = "cleanup" => claim[w].pc = "reporting"
    /\ ~Current(w)
    /\ claim' = [claim EXCEPT ![w] = Idle]
    /\ UNCHANGED <<job, cooling, compileDue, cleanups>>

Crash(w) ==
    /\ claim[w].pc # "idle"
    /\ claim' = [claim EXCEPT ![w] = Idle]
    /\ UNCHANGED <<job, cooling, compileDue, cleanups>>

-----------------------------------------------------------------------------
(* Recovery *)

(* release_expired_job_leases, a transaction per row. *)
ReleaseExpired(j) ==
    /\ job[j].state = "processing"
    /\ job[j].expired
    /\ job' = [job EXCEPT ![j] =
                 IF /\ job[j].kind = "compile_rules"
                    /\ Pending("compile_rules") # {}
                 THEN Failed(job[j], job[j].attempts, "permanent")
                 ELSE Released(job[j])]
    /\ UNCHANGED <<claim, cooling, compileDue, cleanups>>

(* Mutant: recovery does not ask why a job failed. *)
WrongRecoverableAnyClass(row) ==
    /\ row.state = "failed"
    /\ ~row.archived
    /\ row.attempts < AutoRetries

Recoverable(row) ==
    /\ row.state = "failed"
    /\ ~row.archived
    /\ row.class = "transient"
    /\ row.attempts < AutoRetries

(* recover_due_job_candidate: a failed row goes back to work, or, when     *)
(* equivalent work is active, stays behind as evidence and hands its       *)
(* profile to a pending dream.                                             *)
RecoverFailed(j) ==
    LET row == job[j] IN
    /\ Recoverable(row)
    /\ \/ /\ Canonical(row.kind) = {}
          /\ job' = [job EXCEPT ![j] = Requeued(row, row.attempts)]
       \/ \E c \in Canonical(row.kind) :
            job' = [job EXCEPT ![j].class = "permanent",
                               ![c] = Reprofiled(job[c], row.profile)]
    /\ UNCHANGED <<claim, cooling, compileDue, cleanups>>

(* archive_eligible_failures, after the retention window. *)
Archive(j) ==
    /\ job[j].state = "failed"
    /\ ~job[j].archived
    /\ job[j].class = "permanent" \/ job[j].attempts >= AutoRetries
    /\ job' = [job EXCEPT ![j].archived = TRUE]
    /\ UNCHANGED <<claim, cooling, compileDue, cleanups>>

(* `remem cleanup --archived-failures`. *)
Purge(j) ==
    /\ job[j].state = "failed"
    /\ job[j].archived
    /\ job' = [job EXCEPT ![j] = NoJob]
    /\ UNCHANGED <<claim, cooling, compileDue, cleanups>>

Next ==
    \/ \E k \in Kinds : Request(k)
    \/ \E p \in Profiles \union {NoProfile} : RequestDream(p)
    \/ ScheduleCleanup
    \/ \E k \in Kinds : CooldownEnds(k)
    \/ \E w \in Workers : \E j \in Jobs : Claim(w, j)
    \/ \E w \in Workers : MarkDone(w)
    \/ \E w \in Workers : CleanupSucceeds(w)
    \/ \E w \in Workers : \E recorded \in BOOLEAN : CleanupFails(w, recorded)
    \/ \E w \in Workers : \E c \in {"transient", "permanent"} :
         MarkFailedOrRetry(w, c)
    \/ \E w \in Workers : MarkExhausted(w)
    \/ \E w \in Workers : Refused(w)
    \/ \E w \in Workers : Crash(w)
    \/ \E j \in Jobs : LeaseExpires(j)
    \/ \E j \in Jobs : ReleaseExpired(j)
    \/ \E j \in Jobs : RecoverFailed(j)
    \/ \E j \in Jobs : Archive(j)
    \/ \E j \in Jobs : Purge(j)

Spec == Init /\ [][Next]_vars

-----------------------------------------------------------------------------
(* Safety *)

Collide(i, j) ==
    /\ i # j
    /\ job[i].kind = job[j].kind
    /\ IF job[i].kind = "compile_rules"
       THEN /\ job[i].state \in {"pending", "processing"}
            /\ job[j].state = job[i].state
       ELSE /\ job[i].state \in {"pending", "processing"}
            /\ job[j].state \in {"pending", "processing"}

(* No two rows of one identity are active at a time, and for rule          *)
(* compilation one may wait behind the one that runs.  The table's unique  *)
(* indexes say the same; here they are a consequence of the statements, so *)
(* no claim, retry, lease release or recovery ever runs into one of them   *)
(* and takes the worker down.                                              *)
IdentityIsExclusive == \A i, j \in Jobs : ~Collide(i, j)

(* A request for compiled rules that arrives while a compilation runs is   *)
(* not absorbed by it: a pending row stays until a later run is claimed,   *)
(* whatever retries, lease releases and recoveries merge meanwhile.        *)
CompileRequestIsOwed == compileDue => Pending("compile_rules") # {}

(* Within the day after an automatic cleanup no second one is done, though *)
(* workers crash, leases run out and failed runs are retried.              *)
CleanupOncePerWindow == cleanups <= 1

(* A failure that is final, because it is permanent or because equivalent  *)
(* work took over, is never run again; the row keeps its attempts until    *)
(* an operator purges it.                                                  *)
CoalescedSourceRests ==
    [][\A j \in Jobs :
         job[j].state = "failed" /\ job[j].class = "permanent" =>
           \/ job'[j] = NoJob
           \/ /\ job'[j].state = "failed"
              /\ job'[j].class = "permanent"
              /\ job'[j].attempts = job[j].attempts]_vars

(* A lease that has not run out ends only by its holder's own answer: the  *)
(* late answer of a process that lost the row before cannot settle it.     *)
LeaseEndsByHolder ==
    [][\A j \in Jobs :
         /\ job[j].state = "processing" /\ ~job[j].expired
         /\ job'[j].state # "processing"
         => /\ claim[job[j].owner].job = j
            /\ claim'[job[j].owner].pc = "idle"]_vars

Compilation == INSTANCE CoalescedRequest
                 WITH requested <- Pending("compile_rules") # {},
                      running <- Processing("compile_rules") # {}

(* Seen as requests and runs, the compile_rules rows are the abstract      *)
(* coalescing of requests: runs never overlap, and every step that ends    *)
(* one leaves the debt of later requests in place.                         *)
CompileRequestsCoalesce == Compilation!Spec

-----------------------------------------------------------------------------
(* Liveness *)

Held(j) == \E w \in Workers : claim[w].pc # "idle" /\ claim[w].job = j

Answers(w) ==
    \/ MarkDone(w)
    \/ CleanupSucceeds(w)
    \/ \E recorded \in BOOLEAN : CleanupFails(w, recorded)
    \/ \E c \in {"transient", "permanent"} : MarkFailedOrRetry(w, c)
    \/ Refused(w)

(* A run ends by its timeout; leases of dead processes run out and are     *)
(* released by the next worker loop; claims take the oldest of the due     *)
(* rows, so with boundedly many rows none is passed over for ever.         *)
FairSpec ==
    /\ Spec
    /\ \A w \in Workers : WF_vars(Answers(w))
    /\ \A j \in Jobs : /\ WF_vars(LeaseExpires(j) /\ ~Held(j))
                       /\ WF_vars(ReleaseExpired(j))
                       /\ SF_vars(\E w \in Workers : Claim(w, j))

Disturbance ==
    \/ \E w \in Workers : Crash(w)
    \/ \E j \in Jobs : LeaseExpires(j) /\ Held(j)

(* Once processes stop dying and leases stop running out under a live      *)
(* holder, every job that is due is settled: a crash strands nothing.      *)
EveryJobSettles ==
    <>[][~Disturbance]_vars =>
      \A j \in Jobs :
        job[j].state = "pending" ~> job[j].state \in {"done", "failed"}

=============================================================================
