------------------------ MODULE WorkerLaunchProofs ------------------------
(***************************************************************************)
(* Proofs about the worker processes, for any number of pids.              *)
(*                                                                         *)
(* A once worker that is remembered as barred is past its lock attempt and *)
(* the replay it met is running or about to end; neither goes back without *)
(* giving up its pid.  While the replay runs its heartbeat is young, so    *)
(* the first probe of the once worker finds it.                            *)
(***************************************************************************)
EXTENDS WorkerLaunch, TLAPS

(* An exact replay beats when it begins, and its row does not age. *)
ReplaysBeat ==
    \A q \in Pids : Is(q, "exact", "working") =>
                      [role |-> "exact", pid |-> q] \in beats

Barred(p, q) ==
    /\ proc[p].role = "once"
    /\ proc[p].pc \in {"exact?", "daemon?", "admitted", "working", "stopping"}
    /\ proc[q].role = "exact"
    /\ proc[q].pc \in {"working", "stopping"}
    /\ proc[q].pc = "working" => proc[p].pc = "exact?"

BarredInv == \A p, q \in Pids : <<p, q>> \in barred => Barred(p, q)

LInv == TypeOK /\ ReplaysBeat /\ BarredInv

-----------------------------------------------------------------------------
(* Steps by what they do to the processes *)

LEMMA IsForm ==
    ASSUME TypeOK, NEW p \in Pids, NEW role \in Roles, NEW pc \in Steps
    PROVE  Is(p, role, pc) <=> proc[p].role = role /\ proc[p].pc = pc
BY DEF TypeOK, Is

(* A process that ends takes its locks and its part of the history along. *)
LEMMA DyingKeeps ==
    ASSUME LInv, NEW p \in Pids, Dies(p)
    PROVE  LInv'
<1> USE DEF LInv
<1>1. Gone \in [role : Roles, pc : Steps]
  BY DEF Gone, Roles, Steps
<1>2. \A q \in Pids : q # p => proc'[q] = proc[q]
  BY DEF Dies, TypeOK
<1>3. proc'[p] = Gone
  BY DEF Dies, TypeOK
<1>4. TypeOK'
  <2>1. proc' \in [Pids -> [role : Roles, pc : Steps]]
    BY <1>1 DEF Dies, TypeOK
  <2>2. /\ lock' \in Pids \union {NoPid} /\ launch' \in Pids \union {NoPid}
        /\ lock' # NoPid => lock' = lock /\ lock # p
        /\ launch' # NoPid => launch' = launch /\ launch # p
    BY DEF Dies, TypeOK
  <2>3. beats' = beats /\ work' = work /\ barred' \subseteq barred
    BY DEF Dies
  <2>4. QED
    BY <1>2, <2>1, <2>2, <2>3 DEF TypeOK
<1>5. ReplaysBeat'
  BY <1>2, <1>3 DEF ReplaysBeat, Is, Gone, Dies
<1>6. BarredInv'
  <2> SUFFICES ASSUME NEW a \in Pids, NEW b \in Pids, <<a, b>> \in barred'
               PROVE  Barred(a, b)'
    BY DEF BarredInv
  <2>1. <<a, b>> \in barred /\ a # p /\ b # p
    BY DEF Dies
  <2>2. QED
    BY <1>2, <2>1 DEF BarredInv, Barred
<1>7. QED
  BY <1>4, <1>5, <1>6

(* A free pid is in no lock and in no remembered pair, so what begins under *)
(* it disturbs nothing, unless it is a running replay.                      *)
LEMMA BirthKeeps ==
    ASSUME LInv, NEW p \in Pids, Free(p),
           NEW role \in Roles, NEW pc \in Steps \ {"working"},
           Becomes(p, role, pc), UNCHANGED <<lock, launch, beats, barred>>,
           work' \in BOOLEAN
    PROVE  LInv'
<1> USE DEF LInv
<1>1. /\ proc'[p] = [role |-> role, pc |-> pc]
      /\ \A q \in Pids : q # p => proc'[q] = proc[q]
  BY DEF Becomes, TypeOK
<1>2. TypeOK'
  <2>1. proc' \in [Pids -> [role : Roles, pc : Steps]]
    BY DEF Becomes, TypeOK
  <2>2. proc[p].role \notin Workers /\ proc[p].role # "hook"
    BY DEF Free, Workers
  <2>3. lock # p /\ launch # p
    BY <2>2, LaunchAssumption DEF TypeOK
  <2>4. QED
    BY <1>1, <2>1, <2>3 DEF TypeOK
<1>3. ReplaysBeat'
  BY <1>1 DEF ReplaysBeat, Is
<1>4. BarredInv'
  BY <1>1 DEF BarredInv, Barred, Free
<1>5. QED
  BY <1>2, <1>3, <1>4

(* A live process goes on, and may take or drop a lock on the way. *)
GoesOn(p, pc) ==
    /\ Goes(p, pc)
    /\ \/ lock' \in {lock, NoPid}
       \/ lock' = p /\ proc[p].role \in Workers
    /\ \/ launch' \in {launch, NoPid}
       \/ launch' = p /\ proc[p].role = "hook"
    /\ UNCHANGED <<beats, work, barred>>

PairsKept(p) ==
    \A q \in Pids : /\ <<p, q>> \in barred => Barred(p, q)'
                    /\ <<q, p>> \in barred => Barred(q, p)'

(* A live process that goes on to a step other than work keeps its role,   *)
(* so only the pairs it is in need a look.                                 *)
LEMMA StepKeeps ==
    ASSUME LInv, NEW p \in Pids, NEW pc \in Steps \ {"working"},
           GoesOn(p, pc), PairsKept(p)
    PROVE  LInv'
<1> USE DEF LInv
<1>1. /\ proc' \in [Pids -> [role : Roles, pc : Steps]]
      /\ proc'[p].role = proc[p].role
      /\ proc'[p].pc = pc
      /\ \A q \in Pids : proc'[q].role = proc[q].role
      /\ \A q \in Pids : q # p => proc'[q] = proc[q]
  BY DEF GoesOn, Goes, TypeOK
<1>2. TypeOK'
  <2>1. lock' \in Pids \union {NoPid} /\ launch' \in Pids \union {NoPid}
    BY DEF GoesOn, TypeOK
  <2>2. lock' # NoPid => proc'[lock'].role \in Workers
    BY <1>1, <2>1 DEF GoesOn, TypeOK
  <2>3. launch' # NoPid => proc'[launch'].role = "hook"
    BY <1>1, <2>1 DEF GoesOn, TypeOK
  <2>4. QED
    BY <1>1, <2>1, <2>2, <2>3 DEF GoesOn, TypeOK
<1>3. ReplaysBeat'
  BY <1>1 DEF GoesOn, ReplaysBeat, Is
<1>4. BarredInv'
  BY <1>1 DEF GoesOn, PairsKept, BarredInv, Barred
<1>5. QED
  BY <1>2, <1>3, <1>4

(* Hooks are in no remembered pair. *)
LEMMA HookStepKeeps ==
    ASSUME LInv, NEW p \in Pids, proc[p].role = "hook",
           NEW pc \in Steps \ {"working"}, GoesOn(p, pc)
    PROVE  LInv'
<1>1. \A q \in Pids : <<p, q>> \notin barred /\ <<q, p>> \notin barred
  BY DEF LInv, BarredInv, Barred
<1>2. PairsKept(p)
  BY <1>1 DEF PairsKept
<1>3. QED
  BY <1>2, StepKeeps

-----------------------------------------------------------------------------
(* One lemma per action *)

LEMMA InitInv == Init => LInv
<1> SUFFICES ASSUME Init PROVE LInv
  OBVIOUS
<1>1. Gone \in [role : Roles, pc : Steps] /\ Gone.role = "none"
  BY DEF Gone, Roles, Steps
<1>2. TypeOK
  BY <1>1 DEF Init, TypeOK
<1>3. ReplaysBeat
  BY <1>1 DEF Init, ReplaysBeat, Is
<1>4. BarredInv
  BY DEF Init, BarredInv
<1>5. QED
  BY <1>2, <1>3, <1>4 DEF LInv

LEMMA StartKeeps ==
    ASSUME LInv, NEW p \in Pids, NEW role \in Started, Start(p, role)
    PROVE  LInv'
<1>1. role \in Roles /\ "start" \in Steps \ {"working"}
  BY LaunchAssumption DEF Roles, Workers, Steps
<1>2. Becomes(p, role, "start") /\ UNCHANGED <<lock, launch, beats, barred>>
  BY DEF Start
<1>3. Free(p) /\ work' \in BOOLEAN
  BY DEF Start, LInv, TypeOK
<1>4. QED
  BY <1>1, <1>2, <1>3, BirthKeeps

LEMMA StopHookKeeps ==
    ASSUME LInv, NEW p \in Pids, StopHook(p)
    PROVE  LInv'
<1>1. "hook" \in Roles /\ "decide" \in Steps \ {"working"}
  BY DEF Roles, Steps
<1>2. Becomes(p, "hook", "decide") /\ UNCHANGED <<lock, launch, beats, barred>>
  BY DEF StopHook
<1>3. Free(p) /\ work' \in BOOLEAN
  BY DEF StopHook
<1>4. QED
  BY <1>1, <1>2, <1>3, BirthKeeps

LEMMA AgeKeeps ==
    ASSUME LInv, NEW b \in Beats, Age(b)
    PROVE  LInv'
<1> USE DEF LInv
<1>1. TypeOK'
  BY DEF TypeOK, Age
<1>2. ReplaysBeat'
  <2> SUFFICES ASSUME NEW q \in Pids, Is(q, "exact", "working")
               PROVE  [role |-> "exact", pid |-> q] \in beats'
    BY DEF ReplaysBeat, Age, Is
  <2>1. b # [role |-> "exact", pid |-> q]
    BY DEF Age, Is, Running, Workers
  <2>2. QED
    BY <2>1 DEF ReplaysBeat, Age
<1>3. BarredInv'
  BY DEF BarredInv, Barred, Age
<1>4. QED
  BY <1>1, <1>2, <1>3

LEMMA HookDecidesKeeps ==
    ASSUME LInv, NEW p \in Pids, HookDecides(p) \/ HookRechecks(p)
    PROVE  LInv'
<1>1. CASE Dies(p)
  BY <1>1, DyingKeeps
<1>2. CASE ~Dies(p)
  <2>1. proc[p].role = "hook" /\ (GoesOn(p, "launch") \/ GoesOn(p, "spawn"))
    BY <1>2 DEF HookDecides, HookRechecks, Decides, Is, GoesOn
  <2>2. "launch" \in Steps \ {"working"} /\ "spawn" \in Steps \ {"working"}
    BY DEF Steps
  <2>3. QED
    BY <2>1, <2>2, HookStepKeeps
<1>3. QED
  BY <1>1, <1>2

LEMMA HookTakesLaunchKeeps ==
    ASSUME LInv, NEW p \in Pids, HookTakesLaunch(p)
    PROVE  LInv'
<1>1. CASE launch # NoPid
  BY <1>1, DyingKeeps DEF HookTakesLaunch
<1>2. CASE launch = NoPid
  <2>1. proc[p].role = "hook" /\ GoesOn(p, "recheck")
    BY <1>2 DEF HookTakesLaunch, Is, GoesOn
  <2>2. "recheck" \in Steps \ {"working"}
    BY DEF Steps
  <2>3. QED
    BY <2>1, <2>2, HookStepKeeps
<1>3. QED
  BY <1>1, <1>2

(* Two processes change: the hook ends and its child begins. *)
LEMMA HookSpawnsKeeps ==
    ASSUME LInv, NEW p \in Pids, NEW q \in Pids, HookSpawns(p, q)
    PROVE  LInv'
<1> USE DEF LInv
<1>1. /\ proc[p].role = "hook" /\ proc[q].role = "none" /\ p # q
      /\ proc'[p] = Gone
      /\ proc'[q] = [role |-> "once", pc |-> "start"]
      /\ \A r \in Pids \ {p, q} : proc'[r] = proc[r]
      /\ launch' = NoPid /\ UNCHANGED <<lock, beats, work, barred>>
  BY DEF HookSpawns, Is, Free, TypeOK
<1>2. TypeOK'
  <2>1. /\ Gone \in [role : Roles, pc : Steps]
        /\ [role |-> "once", pc |-> "start"] \in [role : Roles, pc : Steps]
    BY DEF Gone, Roles, Steps, Workers
  <2>2. proc' \in [Pids -> [role : Roles, pc : Steps]]
    BY <2>1 DEF HookSpawns, TypeOK
  <2>3. lock # NoPid => lock \notin {p, q}
    BY <1>1 DEF TypeOK, Workers
  <2>4. QED
    BY <1>1, <2>2, <2>3 DEF TypeOK
<1>3. ReplaysBeat'
  BY <1>1 DEF ReplaysBeat, Is, Gone
<1>4. BarredInv'
  <2> SUFFICES ASSUME NEW a \in Pids, NEW b \in Pids, <<a, b>> \in barred
               PROVE  Barred(a, b)'
    BY <1>1 DEF BarredInv
  <2>1. Barred(a, b)
    BY DEF BarredInv
  <2>2. a \notin {p, q} /\ b \notin {p, q}
    BY <1>1, <2>1 DEF Barred
  <2>3. QED
    BY <1>1, <2>1, <2>2 DEF Barred
<1>5. QED
  BY <1>2, <1>3, <1>4

(* The replays that run when the lock is found taken are remembered; the   *)
(* once worker has its probes before it.                                   *)
LEMMA TakeLockKeeps ==
    ASSUME LInv, NEW p \in Pids, TakeLock(p)
    PROVE  LInv'
<1> USE DEF LInv
<1>1. \A q \in Pids : <<p, q>> \notin barred /\ <<q, p>> \notin barred
  BY DEF TakeLock, BarredInv, Barred
<1>2. CASE lock = NoPid
  <2>1. GoesOn(p, "admitted")
    BY <1>2 DEF TakeLock, GoesOn
  <2>2. "admitted" \in Steps \ {"working"}
    BY DEF Steps
  <2>3. PairsKept(p)
    BY <1>1 DEF PairsKept
  <2>4. QED
    BY <2>1, <2>2, <2>3, StepKeeps
<1>3. CASE lock # NoPid /\ proc[p].role = "once"
  <2>1. /\ Goes(p, "exact?") /\ UNCHANGED <<lock, launch, beats, work>>
        /\ barred' = barred \union
             {<<p, q>> : q \in {r \in Pids : Is(r, "exact", "working")}}
    BY <1>3 DEF TakeLock
  <2>2. /\ proc' \in [Pids -> [role : Roles, pc : Steps]]
        /\ proc'[p].role = "once" /\ proc'[p].pc = "exact?"
        /\ \A q \in Pids : proc'[q].role = proc[q].role
        /\ \A q \in Pids : q # p => proc'[q] = proc[q]
    BY <1>3, <2>1 DEF Goes, TypeOK, Steps
  <2>3. TypeOK'
    BY <2>1, <2>2 DEF TypeOK
  <2>4. ReplaysBeat'
    BY <2>1, <2>2 DEF ReplaysBeat, Is
  <2>5. BarredInv'
    <3> SUFFICES ASSUME NEW a \in Pids, NEW b \in Pids, <<a, b>> \in barred'
                 PROVE  Barred(a, b)'
      BY DEF BarredInv
    <3>1. CASE <<a, b>> \in barred
      <4>1. a # p /\ b # p /\ Barred(a, b)
        BY <1>1, <3>1 DEF BarredInv
      <4>2. QED
        BY <2>2, <4>1 DEF Barred
    <3>2. CASE a = p /\ Is(b, "exact", "working")
      <4>1. proc'[b].role = "exact" /\ proc'[b].pc = "working"
        BY <1>3, <2>2, <3>2 DEF Is
      <4>2. QED
        BY <2>2, <3>2, <4>1 DEF Barred
    <3>3. QED
      BY <2>1, <3>1, <3>2
  <2>6. QED
    BY <2>3, <2>4, <2>5
<1>4. CASE lock # NoPid /\ proc[p].role # "once"
  BY <1>4, DyingKeeps DEF TakeLock
<1>5. QED
  BY <1>2, <1>3, <1>4

(* A once worker gets past the first probe only when no remembered replay  *)
(* runs any more: its heartbeat would be young and its pid alive.          *)
LEMMA ProbeExactKeeps ==
    ASSUME LInv, NEW p \in Pids, ProbeExact(p)
    PROVE  LInv'
<1> USE DEF LInv
<1>1. CASE Healthy("exact") # {}
  BY <1>1, DyingKeeps DEF ProbeExact
<1>2. CASE Healthy("exact") = {}
  <2>1. GoesOn(p, "daemon?") /\ proc[p].role = "once"
    BY <1>2 DEF ProbeExact, Is, GoesOn
  <2>2. "daemon?" \in Steps \ {"working"}
    BY DEF Steps
  <2>3. \A q \in Pids : ~Is(q, "exact", "working")
    <3> SUFFICES ASSUME NEW q \in Pids, Is(q, "exact", "working") PROVE FALSE
      OBVIOUS
    <3> DEFINE b == [role |-> "exact", pid |-> q]
    <3>1. b \in beats /\ b.role = "exact" /\ b.pid = q
      BY DEF ReplaysBeat
    <3>2. ~Free(q)
      BY DEF Is, Free
    <3>3. b \in Healthy("exact")
      BY <3>1, <3>2 DEF Healthy
    <3>4. QED
      BY <1>2, <3>3
  <2>4. PairsKept(p)
    <3> SUFFICES ASSUME NEW q \in Pids
                 PROVE  /\ <<p, q>> \in barred => Barred(p, q)'
                        /\ <<q, p>> \in barred => Barred(q, p)'
      BY DEF PairsKept
    <3>1. <<q, p>> \notin barred
      BY <2>1 DEF BarredInv, Barred
    <3>2. ASSUME <<p, q>> \in barred PROVE Barred(p, q)'
      <4>1. Barred(p, q) /\ q # p
        BY <3>1, <3>2 DEF BarredInv
      <4>2. proc[q].pc # "working"
        BY <2>3, <4>1, IsForm DEF Barred, Roles, Workers, Steps
      <4>3. proc'[q] = proc[q] /\ proc'[p].role = "once" /\ proc'[p].pc = "daemon?"
        BY <2>1, <4>1 DEF GoesOn, Goes, TypeOK
      <4>4. QED
        BY <4>1, <4>2, <4>3 DEF Barred
    <3>3. QED
      BY <3>1, <3>2
  <2>5. QED
    BY <2>1, <2>2, <2>4, StepKeeps
<1>3. QED
  BY <1>1, <1>2

LEMMA ProbeDaemonKeeps ==
    ASSUME LInv, NEW p \in Pids, ProbeDaemon(p)
    PROVE  LInv'
<1> USE DEF LInv
<1>1. CASE Dies(p)
  BY <1>1, DyingKeeps
<1>2. CASE ~Dies(p)
  <2>1. /\ GoesOn(p, "admitted")
        /\ proc[p].role = "once" /\ proc[p].pc = "daemon?"
    BY <1>2 DEF ProbeDaemon, Is, GoesOn
  <2>2. "admitted" \in Steps \ {"working"}
    BY DEF Steps
  <2>3. PairsKept(p)
    <3> SUFFICES ASSUME NEW q \in Pids
                 PROVE  /\ <<p, q>> \in barred => Barred(p, q)'
                        /\ <<q, p>> \in barred => Barred(q, p)'
      BY DEF PairsKept
    <3>1. <<q, p>> \notin barred
      BY <2>1 DEF BarredInv, Barred
    <3>2. ASSUME <<p, q>> \in barred PROVE Barred(p, q)'
      <4>1. Barred(p, q) /\ q # p
        BY <3>1, <3>2 DEF BarredInv
      <4>2. proc'[q] = proc[q] /\ proc'[p].role = "once"
            /\ proc'[p].pc = "admitted"
        BY <2>1, <4>1 DEF GoesOn, Goes, TypeOK
      <4>3. QED
        BY <2>1, <4>1, <4>2 DEF Barred
    <3>3. QED
      BY <3>1, <3>2
  <2>4. QED
    BY <2>1, <2>2, <2>3, StepKeeps
<1>3. QED
  BY <1>1, <1>2

(* The beat with which a worker begins is also the first of a replay. *)
LEMMA BeatKeeps ==
    ASSUME LInv, NEW p \in Pids, Beat(p)
    PROVE  LInv'
<1> USE DEF LInv
<1>1. /\ proc' \in [Pids -> [role : Roles, pc : Steps]]
      /\ proc'[p].role = proc[p].role /\ proc'[p].pc = "working"
      /\ proc[p].role \in Workers /\ proc[p].pc \in {"admitted", "working"}
      /\ \A q \in Pids : proc'[q].role = proc[q].role
      /\ \A q \in Pids : q # p => proc'[q] = proc[q]
      /\ UNCHANGED <<lock, launch, work, barred>>
  BY DEF Beat, Goes, TypeOK, Steps
<1>2. /\ beats' = beats \union {[role |-> proc[p].role, pid |-> p]}
      /\ [role |-> proc[p].role, pid |-> p] \in Beats
  BY <1>1 DEF Beat, Beats
<1>3. TypeOK'
  BY <1>1, <1>2 DEF TypeOK
<1>4. ReplaysBeat'
  <2> SUFFICES ASSUME NEW q \in Pids, Is(q, "exact", "working")'
               PROVE  [role |-> "exact", pid |-> q] \in beats'
    BY DEF ReplaysBeat
  <2>1. CASE q = p
    BY <1>1, <1>2, <2>1 DEF Is
  <2>2. CASE q # p
    BY <1>1, <1>2, <2>2 DEF Is, ReplaysBeat
  <2>3. QED
    BY <2>1, <2>2
<1>5. BarredInv'
  <2> SUFFICES ASSUME NEW a \in Pids, NEW b \in Pids, <<a, b>> \in barred
               PROVE  Barred(a, b)'
    BY <1>1 DEF BarredInv
  <2>1. Barred(a, b)
    BY DEF BarredInv
  <2>2. QED
    BY <1>1, <2>1 DEF Barred
<1>6. QED
  BY <1>3, <1>4, <1>5

LEMMA ServeKeeps ==
    ASSUME LInv, NEW p \in Pids, Serve(p)
    PROVE  LInv'
<1> USE DEF LInv
<1>1. TypeOK'
  BY DEF TypeOK, Serve
<1>2. ReplaysBeat' /\ BarredInv'
  BY DEF ReplaysBeat, BarredInv, Barred, Is, Serve
<1>3. QED
  BY <1>1, <1>2

LEMMA LeaveKeeps ==
    ASSUME LInv, NEW p \in Pids, Leave(p)
    PROVE  LInv'
<1> USE DEF LInv
<1>1. GoesOn(p, "stopping") /\ proc[p].pc = "working"
  BY DEF Leave, Running, GoesOn
<1>2. "stopping" \in Steps \ {"working"}
  BY DEF Steps
<1>3. /\ proc'[p].role = proc[p].role /\ proc'[p].pc = "stopping"
      /\ \A q \in Pids : q # p => proc'[q] = proc[q]
  BY <1>1 DEF GoesOn, Goes, TypeOK
<1>4. PairsKept(p)
  <2> SUFFICES ASSUME NEW q \in Pids
               PROVE  /\ <<p, q>> \in barred => Barred(p, q)'
                      /\ <<q, p>> \in barred => Barred(q, p)'
    BY DEF PairsKept
  <2>1. <<p, q>> \in barred => Barred(p, q)'
    BY <1>1, <1>3 DEF BarredInv, Barred
  <2>2. <<q, p>> \in barred => Barred(q, p)'
    BY <1>1, <1>3 DEF BarredInv, Barred
  <2>3. QED
    BY <2>1, <2>2
<1>5. QED
  BY <1>1, <1>2, <1>4, StepKeeps

-----------------------------------------------------------------------------
(* The theorems *)

(* Locks are held by live processes of the right kind, a running replay    *)
(* has a young heartbeat, and a once worker that met one stays before it.  *)
THEOREM LaunchInvariant == Spec => []LInv
<1>1. Init => LInv
  BY InitInv
<1>2. LInv /\ [Next]_vars => LInv'
  <2> SUFFICES ASSUME LInv, [Next]_vars PROVE LInv'
    OBVIOUS
  <2>1. CASE \E p \in Pids : \E role \in Started : Start(p, role)
    BY <2>1, StartKeeps
  <2>2. CASE \E p \in Pids : Crash(p) \/ Exit(p)
    BY <2>2, DyingKeeps DEF Crash, Exit
  <2>3. CASE \E b \in Beats : Age(b)
    BY <2>3, AgeKeeps
  <2>4. CASE \E p \in Pids : StopHook(p)
    BY <2>4, StopHookKeeps
  <2>5. CASE \E p \in Pids : HookDecides(p) \/ HookRechecks(p)
    BY <2>5, HookDecidesKeeps
  <2>6. CASE \E p \in Pids : HookTakesLaunch(p)
    BY <2>6, HookTakesLaunchKeeps
  <2>7. CASE \E p, q \in Pids : HookSpawns(p, q)
    BY <2>7, HookSpawnsKeeps
  <2>8. CASE \E p \in Pids : TakeLock(p)
    BY <2>8, TakeLockKeeps
  <2>9. CASE \E p \in Pids : ProbeExact(p)
    BY <2>9, ProbeExactKeeps
  <2>10. CASE \E p \in Pids : ProbeDaemon(p)
    BY <2>10, ProbeDaemonKeeps
  <2>11. CASE \E p \in Pids : Beat(p)
    BY <2>11, BeatKeeps
  <2>12. CASE \E p \in Pids : Serve(p)
    BY <2>12, ServeKeeps
  <2>13. CASE \E p \in Pids : Leave(p)
    BY <2>13, LeaveKeeps
  <2>14. CASE UNCHANGED vars
    BY <2>14 DEF vars, LInv, TypeOK, ReplaysBeat, BarredInv, Barred, Is
  <2>15. QED
    BY <2>1, <2>2, <2>3, <2>4, <2>5, <2>6, <2>7, <2>8, <2>9, <2>10, <2>11,
       <2>12, <2>13, <2>14 DEF Next
<1>3. QED
  BY <1>1, <1>2, PTL DEF Spec

(* Process ids, locks and heartbeats stay well formed. *)
THEOREM LaunchTypeCorrect == Spec => []TypeOK
<1>1. LInv => TypeOK
  BY DEF LInv
<1>2. QED
  BY <1>1, LaunchInvariant, PTL

(* A once worker that found the lock taken while an exact replay was       *)
(* running never runs beside that replay, for any number of processes and  *)
(* whatever pids are used again.                                           *)
THEOREM BarredStayOut == Spec => []BarredWorkersStayOut
<1>1. LInv => BarredWorkersStayOut
  <2> SUFFICES ASSUME LInv, NEW r \in barred, Is(r[2], "exact", "working")
               PROVE  proc[r[1]].pc \in {"exact?"}
    BY DEF BarredWorkersStayOut
  <2>1. r[1] \in Pids /\ r[2] \in Pids /\ r = <<r[1], r[2]>>
    BY DEF LInv, TypeOK
  <2>2. Barred(r[1], r[2])
    BY <2>1 DEF LInv, BarredInv
  <2>3. QED
    BY <2>2 DEF Barred, Is
<1>2. QED
  BY <1>1, LaunchInvariant, PTL
=============================================================================
