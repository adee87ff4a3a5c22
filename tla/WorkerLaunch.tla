---------------------------- MODULE WorkerLaunch ----------------------------
(***************************************************************************)
(* Which worker processes run at a time.  Workers take an exclusive file   *)
(* lock; a worker of `remem worker --once` may run beside a daemon of      *)
(* another version that holds it, and Stop hooks start such workers after  *)
(* looking at the heartbeats the workers leave in the database.            *)
(*                                                                         *)
(* A process is its pid.  Pids are used again, so the heartbeat of a dead  *)
(* worker may pass for that of the process that has its pid now.           *)
(***************************************************************************)
EXTENDS Naturals, FiniteSets

CONSTANTS Pids, NoPid,
          Started      \* roles that users and services start

Workers == {"once", "daemon", "old", "exact"}
Roles == Workers \union {"hook", "none"}

ASSUME LaunchAssumption ==
    /\ NoPid \notin Pids
    /\ Started \subseteq {"daemon", "old", "exact"}

VARIABLES proc,      \* pid -> what runs under it and how far it is
          lock,      \* holder of worker.lock
          launch,    \* holder of worker-launch.lock
          beats,     \* heartbeat rows younger than the health window
          work,      \* a session rollup waits that old versions cannot do
          barred     \* history: <<p, q>> when the once worker p found the
                     \* lock taken while the exact replay q was running

vars == <<proc, lock, launch, beats, work, barred>>

Steps == {"decide", "launch", "recheck", "spawn",          \* hooks
          "start", "exact?", "daemon?", "admitted",        \* workers
          "working", "stopping"}

Beats == [role : Workers, pid : Pids]

Gone == [role |-> "none", pc |-> "start"]

TypeOK ==
    /\ proc \in [Pids -> [role : Roles, pc : Steps]]
    /\ lock \in Pids \union {NoPid}
    /\ launch \in Pids \union {NoPid}
    /\ beats \subseteq Beats
    /\ work \in BOOLEAN
    /\ barred \subseteq Pids \X Pids
    /\ lock # NoPid => proc[lock].role \in Workers
    /\ launch # NoPid => proc[launch].role = "hook"

Init ==
    /\ proc = [p \in Pids |-> Gone]
    /\ lock = NoPid
    /\ launch = NoPid
    /\ beats = {}
    /\ work = FALSE
    /\ barred = {}

Is(p, role, pc) == proc[p] = [role |-> role, pc |-> pc]
At(p, pc) == proc[p].pc = pc /\ proc[p].role # "none"
Free(p) == proc[p].role = "none"
Running(p) == proc[p].role \in Workers /\ proc[p].pc = "working"

(* Young rows whose pid belongs to some live process.  A query looks at    *)
(* the ten newest only; the model assumes there are no more.               *)
Healthy(role) == {b \in beats : b.role = role /\ ~Free(b.pid)}

(* The filter for daemons leaves out the once workers only. *)
HealthyDaemons == UNION {Healthy(role) : role \in Workers \ {"once"}}

-----------------------------------------------------------------------------
(* Processes come and go *)

Becomes(p, role, pc) == proc' = [proc EXCEPT ![p] = [role |-> role, pc |-> pc]]
Goes(p, pc) == proc' = [proc EXCEPT ![p].pc = pc]

(* The operating system drops what a process held. *)
Dies(p) ==
    /\ proc' = [proc EXCEPT ![p] = Gone]
    /\ lock' = IF lock = p THEN NoPid ELSE lock
    /\ launch' = IF launch = p THEN NoPid ELSE launch
    /\ barred' = {r \in barred : p \notin {r[1], r[2]}}
    /\ UNCHANGED <<beats, work>>

Crash(p) == ~Free(p) /\ Dies(p)

Start(p, role) ==
    /\ Free(p)
    /\ role \in Started
    /\ Becomes(p, role, "start")
    /\ UNCHANGED <<lock, launch, beats, work, barred>>

(* Eight minutes without an update.  An exact replay and a once worker     *)
(* finish their item or update the row well before.                        *)
Age(b) ==
    /\ b \in beats
    /\ ~(Running(b.pid) /\ proc[b.pid].role = b.role
                        /\ b.role \in {"exact", "once"})
    /\ beats' = beats \ {b}
    /\ UNCHANGED <<proc, lock, launch, work, barred>>

-----------------------------------------------------------------------------
(* Stop hooks *)

(* The hook captures its event and then looks for a worker to do it. *)
StopHook(p) ==
    /\ Free(p)
    /\ Becomes(p, "hook", "decide")
    /\ work' = TRUE
    /\ UNCHANGED <<lock, launch, beats, barred>>

(* should_spawn_worker_once: the newest healthy daemon decides, and any of *)
(* several may be the newest.                                              *)
MayBeNeeded ==
    /\ Healthy("once") = {}
    /\ HealthyDaemons = {} \/ \E b \in HealthyDaemons : b.role # "daemon"

MayBeCovered ==
    \/ Healthy("once") # {}
    \/ Healthy("daemon") # {}

Decides(p, before, after) ==
    /\ Is(p, "hook", before)
    /\ \/ /\ MayBeNeeded
          /\ Goes(p, after)
          /\ UNCHANGED <<lock, launch, beats, work, barred>>
       \/ MayBeCovered /\ Dies(p)

HookDecides(p) == Decides(p, "decide", "launch")

HookTakesLaunch(p) ==
    /\ Is(p, "hook", "launch")
    /\ \/ /\ launch = NoPid
          /\ launch' = p
          /\ Goes(p, "recheck")
          /\ UNCHANGED <<lock, beats, work, barred>>
       \/ launch # NoPid /\ Dies(p)

HookRechecks(p) == Decides(p, "recheck", "spawn")

(* Mutant: the launch lock is handed to the child and never dropped. *)
WrongHookSpawnsKeepsLock(p, q) ==
    /\ Is(p, "hook", "spawn")
    /\ Free(q)
    /\ proc' = [proc EXCEPT ![p] = Gone,
                            ![q] = [role |-> "once", pc |-> "start"]]
    /\ UNCHANGED <<lock, launch, beats, work, barred>>

(* The lock is dropped as soon as the child exists. *)
HookSpawns(p, q) ==
    /\ Is(p, "hook", "spawn")
    /\ Free(q)
    /\ proc' = [proc EXCEPT ![p] = Gone,
                            ![q] = [role |-> "once", pc |-> "start"]]
    /\ launch' = NoPid
    /\ UNCHANGED <<lock, beats, work, barred>>

-----------------------------------------------------------------------------
(* Workers *)

(* acquire_worker_singleton: daemons and exact replays give up at once. *)
TakeLock(p) ==
    /\ proc[p].role \in Workers
    /\ proc[p].pc = "start"
    /\ \/ /\ lock = NoPid
          /\ lock' = p
          /\ Goes(p, "admitted")
          /\ UNCHANGED <<launch, beats, work, barred>>
       \/ /\ lock # NoPid
          /\ proc[p].role = "once"
          /\ Goes(p, "exact?")
          /\ barred' = barred \union
                         {<<p, q>> : q \in {r \in Pids : Is(r, "exact", "working")}}
          /\ UNCHANGED <<lock, launch, beats, work>>
       \/ /\ lock # NoPid
          /\ proc[p].role # "once"
          /\ Dies(p)

(* Mutant: an exact replay is taken for any other holder of the lock. *)
WrongProbeExactNever(p) ==
    /\ Is(p, "once", "exact?")
    /\ Goes(p, "daemon?")
    /\ UNCHANGED <<lock, launch, beats, work, barred>>

ProbeExact(p) ==
    /\ Is(p, "once", "exact?")
    /\ \/ Healthy("exact") # {} /\ Dies(p)
       \/ /\ Healthy("exact") = {}
          /\ Goes(p, "daemon?")
          /\ UNCHANGED <<lock, launch, beats, work, barred>>

(* Mutant: no worker is let past the lock. *)
WrongProbeDaemonNever(p) == Is(p, "once", "daemon?") /\ Dies(p)

(* A second query.  The newest healthy daemon row decides, and an exact    *)
(* replay that has written its heartbeat meanwhile counts as one.          *)
ProbeDaemon(p) ==
    /\ Is(p, "once", "daemon?")
    /\ \/ HealthyDaemons = {} /\ Dies(p)
       \/ Healthy("daemon") # {} /\ Dies(p)
       \/ /\ \E b \in HealthyDaemons : b.role # "daemon"
          /\ Goes(p, "admitted")
          /\ UNCHANGED <<lock, launch, beats, work, barred>>

Beat(p) ==
    /\ proc[p].role \in Workers
    /\ proc[p].pc \in {"admitted", "working"}
    /\ beats' = beats \union {[role |-> proc[p].role, pid |-> p]}
    /\ Goes(p, "working")
    /\ UNCHANGED <<lock, launch, work, barred>>

Serve(p) ==
    /\ Running(p)
    /\ proc[p].role \in {"once", "daemon"}
    /\ work
    /\ work' = FALSE
    /\ UNCHANGED <<proc, lock, launch, beats, barred>>

(* A once worker that finds nothing to do, an exact replay that is done,   *)
(* or a daemon that fails drops the lock and then ends.  The budget of a   *)
(* once worker (four items, 180 seconds) is left out: it never ends early. *)
Leave(p) ==
    /\ Running(p)
    /\ proc[p].role = "once" => ~work
    /\ Goes(p, "stopping")
    /\ lock' = IF lock = p THEN NoPid ELSE lock
    /\ UNCHANGED <<launch, beats, work, barred>>

Exit(p) == At(p, "stopping") /\ Dies(p)

Next ==
    \/ \E p \in Pids : \E role \in Started : Start(p, role)
    \/ \E p \in Pids : Crash(p)
    \/ \E b \in Beats : Age(b)
    \/ \E p \in Pids : StopHook(p)
    \/ \E p \in Pids : HookDecides(p)
    \/ \E p \in Pids : HookTakesLaunch(p)
    \/ \E p \in Pids : HookRechecks(p)
    \/ \E p, q \in Pids : HookSpawns(p, q)
    \/ \E p \in Pids : TakeLock(p)
    \/ \E p \in Pids : ProbeExact(p)
    \/ \E p \in Pids : ProbeDaemon(p)
    \/ \E p \in Pids : Beat(p)
    \/ \E p \in Pids : Serve(p)
    \/ \E p \in Pids : Leave(p)
    \/ \E p \in Pids : Exit(p)

Spec == Init /\ [][Next]_vars

(* Steps of hooks and of workers that do not work yet or any more; some   *)
(* end the process.                                                        *)
Decisions(p) ==
    \/ HookDecides(p) \/ HookTakesLaunch(p) \/ HookRechecks(p)
    \/ TakeLock(p) \/ ProbeExact(p) \/ ProbeDaemon(p) \/ Exit(p)

(* Live processes take their steps, a hook finds a free pid for the worker *)
(* it spawns although others come and go, hooks keep coming, and the row   *)
(* of a dead process ages.                                                 *)
FairSpec ==
    /\ Spec
    /\ \A p \in Pids :
         /\ WF_vars(Decisions(p))
         /\ SF_vars(\E q \in Pids : HookSpawns(p, q))
         /\ WF_vars(Beat(p))
         /\ WF_vars(Serve(p) \/ (proc[p].role \notin {"daemon", "old"} /\ Leave(p)))
    /\ WF_vars(\E p \in Pids : StopHook(p))
    /\ \A b \in {x \in Beats : x.role \in Started \union {"once"}} :
         WF_vars(~(Running(b.pid) /\ proc[b.pid].role = b.role) /\ Age(b))

-----------------------------------------------------------------------------
(* Safety *)

(* A once worker that found the lock taken while an exact replay was       *)
(* running never runs beside that replay, whatever heartbeats old daemons, *)
(* dying processes and reused pids have left (worker/lock.rs 48-62).       *)
BarredWorkersStayOut ==
    \A r \in barred :
      Is(r[2], "exact", "working") => proc[r[1]].pc \in {"exact?"}

(* Work that the hooks have captured is done in the end, if from some time *)
(* on nothing is started by hand, nothing crashes, and no running daemon   *)
(* is silent for eight minutes: a hook that was wrong to rely on a worker  *)
(* about to end is made good by a later one (worker_launch.rs 42-70).      *)
Disturbance ==
    \/ \E p \in Pids : \E role \in Started : Start(p, role)
    \/ \E p \in Pids : Crash(p) /\ ~Decisions(p)
    \/ \E b \in Beats : Running(b.pid) /\ proc[b.pid].role = b.role /\ Age(b)

WorkIsServed == <>[][~Disturbance]_vars => (work ~> ~work)

=============================================================================
