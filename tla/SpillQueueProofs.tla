-------------------------- MODULE SpillQueueProofs --------------------------
(***************************************************************************)
(* Proofs that a spilled event is kept or superseded by a recorded Stop of *)
(* its session, that a Stop hook settles its own event first and that drop *)
(* rows are never more than events, for any number of processes, events    *)
(* and sessions, any choice of faults and any number of deaths.            *)
(***************************************************************************)
EXTENDS SpillQueue, FiniteSetTheorems, TLAPS

-----------------------------------------------------------------------------
(* What makes events stay: a claim that is about to be removed holds       *)
(* nothing any more that is not somewhere else, and what a process appends *)
(* before it removes its source cannot be claimed by another in between.   *)

ClaimSteps == {"read", "replay", "finish", "finishRemove", "settle",
               "restore", "restoreRemove", "ended"}

(* Steps of a process that has no claim and has not taken the lock yet, or *)
(* is done with it.                                                        *)
Early == {"ended", "open", "spill", "respill", "ledger", "record", "scan"}

OneHolder ==
    \A p, q \in Procs :
      proc[p].pc \in LockSteps /\ proc[q].pc \in LockSteps => p = q

(* Where a handled line may have gone: the database, the dead letters, or  *)
(* nowhere, when a Stop of its session is in the database.                 *)
Kept == captured \union dead \union (superseded \intersect stopped)

Safe == Kept \union In(active)

(* Claims that are not about to be removed keep what they hold. *)
Standing == UNION {In(claimed[p]) : p \in {q \in Procs : proc[q].pc # "settle"}}

KeptApart == \A e \in Events : Spilled(e) => e \in Safe \union Standing

ClaimAccounted(p) ==
    /\ proc[p].pc \notin ClaimSteps => claimed[p] = Nothing
    /\ proc[p].pc = "replay" =>
         In(claimed[p]) \subseteq In(proc[p].todo) \union In(failed[p]) \union Kept
    /\ proc[p].pc = "finish" => In(claimed[p]) \subseteq In(failed[p]) \union Kept
    /\ proc[p].pc = "finishRemove" => In(claimed[p]) \subseteq Safe
    /\ proc[p].pc = "restoreRemove" => In(claimed[p]) \subseteq In(active)
    /\ proc[p].pc = "orphanRemove" =>
         /\ In(claimed[proc[p].cur]) \subseteq In(active)
         /\ proc[proc[p].cur].pc = "ended"
         /\ claimed[proc[p].cur] # Nothing
    /\ proc[p].pc = "orphanTidy" => proc[proc[p].cur].pc \in Early
    /\ proc[p].pc \in {"spill", "respill", "ledger"} => proc[p].ev \in Events

AllAccounted == \A p \in Procs : ClaimAccounted(p)

Process == [pc : Steps, ev : Events \union {NoEvent},
            session : Sessions \union {NoSession},
            todo : File, cur : Procs]

Reasons == {"new", "live", "open", "record", "stop"}

LedgerTypes ==
    /\ kind \in Kinds
    /\ captured \subseteq Events
    /\ dead \subseteq Events
    /\ superseded \subseteq Events
    /\ stopped \subseteq Events

Types ==
    /\ LedgerTypes
    /\ proc \in [Procs -> Process]
    /\ active \in File
    /\ claimed \in [Procs -> File]
    /\ failed \in [Procs -> File]
    /\ why \in [Events -> Reasons]

SInv == Types /\ OneHolder /\ KeptApart /\ AllAccounted

(* A Stop hook that replays has recorded its own payload before.           *)
ReplaySteps == {"scan", "orphans", "orphanRemove", "orphanTidy",
                "claim", "read", "replay"}

Recorded ==
    kind = "stop" =>
      \A p \in Procs, e \in Events :
        proc[p].pc \in ReplaySteps /\ SessionOf[e] = proc[p].session => e \in stopped

-----------------------------------------------------------------------------
(* Files *)

LEMMA LineFacts ==
    ASSUME NEW e \in Events
    PROVE  Line(e) \in File /\ In(Line(e)) = {e} /\ Line(e) # Nothing
BY DEF Line, In, File, Nothing

LEMMA NothingFacts == Nothing \in File /\ In(Nothing) = {}
BY DEF Nothing, File, In

(* Appending keeps what is there and adds what is appended. *)
LEMMA AppendedFacts ==
    ASSUME NEW f \in File, NEW g \in File, NEW h \in Appended(f, g)
    PROVE  h \in File /\ In(h) = In(f) \union In(g)
<1>1. CASE h = Joined(f, g)
  BY <1>1 DEF Joined, File, In
<1>2. CASE h \in Glued(f, g)
  BY <1>2 DEF Glued, File, In
<1>3. CASE g = Nothing /\ h = f
  BY <1>3, NothingFacts
<1>4. h = Joined(f, g) \/ h \in Glued(f, g) \/ (g = Nothing /\ h = f)
  BY DEF Appended
<1> QED  BY <1>1, <1>2, <1>3, <1>4

(* A torn append keeps what is there. *)
LEMMA TornFacts ==
    ASSUME NEW f \in File, NEW g \in File, NEW h \in Torn(f, g)
    PROVE  h \in File /\ In(f) \subseteq In(h)
<1>1. PICK x \in File : h \in Appended(f, x)
  BY DEF Torn
<1> QED  BY <1>1, AppendedFacts

-----------------------------------------------------------------------------
(* Steps of one process *)

(* A step that leaves the database and the dead letters alone. *)
LEMMA LedgerStays ==
    ASSUME UNCHANGED ledger, UNCHANGED dead
    PROVE  Kept' = Kept /\ (LedgerTypes => LedgerTypes')
BY DEF ledger, Kept, LedgerTypes

LEMMA GoesFacts ==
    ASSUME Types, NEW p \in Procs, NEW s \in Steps, Goes(p, s)
    PROVE  /\ proc' \in [Procs -> Process]
           /\ proc'[p].pc = s
           /\ s # "ended" => /\ proc'[p].ev = proc[p].ev
                             /\ proc'[p].todo = proc[p].todo
                             /\ proc'[p].cur = proc[p].cur
           /\ \A q \in Procs \ {p} : proc'[q] = proc[q]
<1>1. Gone(p) \in Process /\ Gone(p).pc = "ended"
  BY NothingFacts DEF Gone, Process, Steps
<1>2. [proc[p] EXCEPT !.pc = s] \in Process
  BY DEF Types, Process
<1>3. proc[p] \in Process
  BY DEF Types
<1> QED  BY <1>1, <1>2, <1>3 DEF Goes, Types, Process

(* The lock stays with one process. *)
LEMMA HolderStep ==
    ASSUME OneHolder, NEW p \in Procs,
           \A q \in Procs \ {p} : proc'[q] = proc[q],
           proc'[p].pc \in LockSteps => ~Locked \/ proc[p].pc \in LockSteps
    PROVE  OneHolder'
BY DEF OneHolder, Locked

(* A step of p leaves the accounts of the others in order. *)
LEMMA OthersStep ==
    ASSUME Types, AllAccounted, NEW p \in Procs,
           proc[p].pc # "ended" \/ claimed[p] = Nothing,
           \A q \in Procs \ {p} : /\ proc'[q] = proc[q]
                                  /\ claimed'[q] = claimed[q]
                                  /\ failed'[q] = failed[q],
           Kept \subseteq Kept',
           In(active) \subseteq In(active') \/ ~Locked,
           proc[p].pc \in Early => proc'[p].pc \in Early \/ ~Locked,
           NEW q \in Procs \ {p}
    PROVE  ClaimAccounted(q)'
<1>1. ClaimAccounted(q)
  BY DEF AllAccounted
<1>2. proc[q].pc \in LockSteps => In(active) \subseteq In(active')
  BY DEF Locked
<1>3. proc[q].cur \in Procs
  BY DEF Types, Process
<1>4. proc[q].pc = "orphanRemove" => proc[q].cur # p
  BY <1>1 DEF ClaimAccounted
<1>5. In(claimed[q])' = In(claimed[q]) /\ In(failed[q])' = In(failed[q])
  BY DEF In
<1>6. proc[q].pc = "orphanRemove" =>
        /\ In(claimed[proc[q].cur])' = In(claimed[proc[q].cur])
        /\ proc'[proc'[q].cur].pc = "ended"
        /\ claimed'[proc'[q].cur] # Nothing
  BY <1>1, <1>3, <1>4 DEF ClaimAccounted, In
<1>7. In(active)' = In(active')
  BY DEF In
<1>8. proc[q].pc = "finishRemove" => Safe \subseteq Safe'
  BY <1>2, <1>7 DEF Safe, LockSteps
<1>9. proc[q].pc \in {"restoreRemove", "orphanRemove"} => In(active) \subseteq In(active)'
  BY <1>2, <1>7 DEF LockSteps
<1>a. In(proc[q].todo)' = In(proc[q].todo)
  BY DEF In
<1>b. proc[q].pc = "orphanTidy" => proc'[proc'[q].cur].pc \in Early
  BY <1>1, <1>3 DEF ClaimAccounted, Locked, LockSteps
<1> QED  BY <1>1, <1>3, <1>5, <1>6, <1>8, <1>9, <1>a, <1>b DEF ClaimAccounted

(* Events stay if every place but the claim of p keeps what it has, and    *)
(* what the claim of p held is somewhere.                                  *)
LEMMA KeptStep ==
    ASSUME KeptApart, NEW p \in Procs,
           \A q \in Procs \ {p} : /\ proc'[q].pc = "settle" => proc[q].pc = "settle"
                                  /\ In(claimed[q]) \subseteq In(claimed'[q]) \union Safe',
           proc[p].pc # "settle" =>
             In(claimed[p]) \subseteq Safe' \union Standing',
           Safe \subseteq Safe' \union Standing',
           \A e \in Events : Spilled(e)' => Spilled(e) \/ e \in Safe'
    PROVE  KeptApart'
<1> SUFFICES ASSUME NEW e \in Events, Spilled(e)'
             PROVE  e \in Safe' \union Standing'
  BY DEF KeptApart
<1>1. CASE e \in Safe'
  BY <1>1
<1>2. CASE e \in Safe
  BY <1>2
<1>3. CASE e \in Standing
  <2>1. PICK q \in Procs : proc[q].pc # "settle" /\ e \in In(claimed[q])
    BY <1>3 DEF Standing
  <2>2. CASE q = p
    BY <2>1, <2>2
  <2>3. CASE q # p
    <3>1. proc'[q].pc # "settle" /\ (e \in In(claimed'[q]) \/ e \in Safe')
      BY <2>1, <2>3
    <3>2. In(claimed'[q]) = In(claimed[q])'
      BY DEF In
    <3> QED  BY <3>1, <3>2 DEF Standing
  <2> QED  BY <2>2, <2>3
<1> QED  BY <1>1, <1>2, <1>3 DEF KeptApart

(* A claim that still stands is part of what stands. *)
LEMMA StandsFacts ==
    ASSUME NEW p \in Procs, proc'[p].pc # "settle"
    PROVE  In(claimed'[p]) \subseteq Standing'
BY DEF Standing, In

(* A step of p that changes no other process and no other claim. *)
LEMMA OwnStep ==
    ASSUME SInv, NEW p \in Procs,
           proc[p].pc # "ended" \/ claimed[p] = Nothing,
           proc' \in [Procs -> Process], active' \in File,
           claimed' \in [Procs -> File], failed' \in [Procs -> File],
           Kept \subseteq Kept', LedgerTypes',
           why' \in [Events -> Reasons],
           \A q \in Procs \ {p} : proc'[q] = proc[q],
           \A q \in Procs \ {p} : claimed'[q] = claimed[q],
           \A q \in Procs \ {p} : failed'[q] = failed[q],
           In(active) \subseteq In(active') \/ ~Locked,
           proc[p].pc \in Early => proc'[p].pc \in Early \/ ~Locked,
           proc'[p].pc \in LockSteps => ~Locked \/ proc[p].pc \in LockSteps,
           proc[p].pc # "settle" =>
             In(claimed[p]) \subseteq Safe' \union Standing',
           Safe \subseteq Safe' \union Standing',
           \A e \in Events : Spilled(e)' => Spilled(e) \/ e \in Safe',
           ClaimAccounted(p)'
    PROVE  SInv'
<1>1. Types'
  BY DEF Types, SInv
<1>2. OneHolder'
  BY HolderStep DEF SInv
<1>3. KeptApart'
  BY KeptStep DEF SInv
<1>4. AllAccounted'
  <2>1. \A q \in Procs \ {p} : ClaimAccounted(q)'
    BY OthersStep DEF SInv
  <2> QED  BY <2>1 DEF AllAccounted
<1> QED  BY <1>1, <1>2, <1>3, <1>4 DEF SInv

(* A step that touches no file. *)
LEMMA QuietStep ==
    ASSUME SInv, NEW p \in Procs, NEW s \in Steps, Goes(p, s),
           proc[p].pc # "ended", UNCHANGED files,
           Kept \subseteq Kept', LedgerTypes',
           why' \in [Events -> Reasons],
           \A e \in Events : Spilled(e)' => Spilled(e),
           s \in LockSteps => ~Locked \/ proc[p].pc \in LockSteps,
           s # "settle" \/ In(claimed[p]) \subseteq Kept,
           proc[p].pc \in Early => s \in Early \/ ~Locked,
           ClaimAccounted(p)'
    PROVE  SInv'
<1>1. Types
  BY DEF SInv
<1>2. /\ proc' \in [Procs -> Process]
      /\ proc'[p].pc = s
      /\ \A q \in Procs \ {p} : proc'[q] = proc[q]
  BY <1>1, GoesFacts
<1>3. Safe \subseteq Safe'
  BY DEF Safe, files, In
<1>4. In(claimed[p]) \subseteq Safe' \union Standing'
  <2>1. CASE s = "settle"
    BY <2>1, <1>3 DEF Safe
  <2>2. CASE s # "settle"
    BY <2>2, <1>2, StandsFacts DEF files
  <2> QED  BY <2>1, <2>2
<1>5. In(active) \subseteq In(active')
  BY DEF files
<1>6. /\ active' \in File
      /\ claimed' \in [Procs -> File] /\ claimed' = claimed
      /\ failed' \in [Procs -> File] /\ failed' = failed
  BY <1>1 DEF files, Types
<1> QED  BY <1>2, <1>3, <1>4, <1>5, <1>6, OwnStep

-----------------------------------------------------------------------------
(* Actions that touch no file *)

(* Steps without a claim and without an event to write. *)
Plain == {"open", "record", "scan", "orphans", "claim", "ended", "read", "restore"}

LEMMA PlainAccount ==
    ASSUME NEW p \in Procs, proc'[p].pc \in Plain,
           proc'[p].pc \in ClaimSteps \/ claimed'[p] = Nothing
    PROVE  ClaimAccounted(p)'
BY DEF ClaimAccounted, Plain, ClaimSteps

LEMMA OwnAccount ==
    ASSUME SInv, NEW p \in Procs
    PROVE  ClaimAccounted(p)
BY DEF SInv, AllAccounted

(* A step to a plain place that touches nothing but the database. *)
LEMMA PlainStep ==
    ASSUME SInv, NEW p \in Procs, NEW s \in Plain, Goes(p, s),
           proc[p].pc # "ended", UNCHANGED files, UNCHANGED why,
           Kept \subseteq Kept', LedgerTypes',
           s \in LockSteps => ~Locked \/ proc[p].pc \in LockSteps,
           s \in ClaimSteps \/ proc[p].pc \notin ClaimSteps,
           proc[p].pc \in Early => s \in Early \/ ~Locked
    PROVE  SInv'
<1>1. s \in Steps /\ s # "settle"
  BY DEF Plain, Steps
<1>2. proc'[p].pc = s
  BY <1>1, GoesFacts DEF SInv
<1>3. s \in ClaimSteps \/ claimed'[p] = Nothing
  BY OwnAccount DEF ClaimAccounted, files
<1>4. ClaimAccounted(p)'
  BY <1>2, <1>3, PlainAccount
<1>5. \A e \in Events : Spilled(e)' => Spilled(e)
  BY DEF Spilled
<1>6. why' \in [Events -> Reasons]
  BY DEF SInv, Types
<1> QED  BY <1>1, <1>4, <1>5, <1>6, QuietStep

LEMMA CapturesFacts ==
    ASSUME Types, NEW p \in Procs, Captures(p)
    PROVE  /\ Kept \subseteq Kept' /\ LedgerTypes' /\ UNCHANGED files
           /\ UNCHANGED <<kind, dead, why, recovered, unrec, superseded, mishaps>>
           /\ captured' = captured \union ({proc[p].ev} \ {NoEvent})
           /\ \A e \in Events : SessionOf[e] = proc[p].session => e \in stopped'
<1>1. proc[p].ev \in Events \union {NoEvent}
  BY DEF Types, Process
<1>2. UNCHANGED <<kind, dead, superseded>>
  BY DEF Captures
<1>3. stopped' = stopped \union {e \in Events : SessionOf[e] = proc[p].session}
  BY DEF Captures
<1>4. captured' = captured \union ({proc[p].ev} \ {NoEvent})
  BY DEF Captures
<1>5. Kept \subseteq Kept'
  BY <1>2, <1>3, <1>4 DEF Kept
<1>6. LedgerTypes'
  BY <1>1, <1>2, <1>3, <1>4 DEF LedgerTypes, Types
<1> QED  BY <1>3, <1>4, <1>5, <1>6 DEF Captures

LEMMA PlainActions ==
    ASSUME SInv, NEW p \in Procs,
           \/ Opens(p) \/ Records(p) \/ LedgerRow(p) \/ Scans(p)
           \/ ScanEnds(p) \/ ScanFails(p) \/ ReplayBreaks(p) \/ Crash(p)
    PROVE  SInv'
<1>0. LedgerTypes /\ (UNCHANGED ledger /\ UNCHANGED dead => Kept' = Kept /\ LedgerTypes')
  BY LedgerStays DEF SInv, Types
<1>1. ASSUME Opens(p) PROVE SInv'
  BY <1>0, <1>1, PlainStep DEF Opens, Plain, Early, ClaimSteps, LockSteps
<1>2. ASSUME ScanEnds(p) PROVE SInv'
  BY <1>0, <1>2, PlainStep DEF ScanEnds, Plain, Early, ClaimSteps, LockSteps
<1>3. ASSUME Scans(p) PROVE SInv'
  BY <1>0, <1>3, PlainStep DEF Scans, Plain, Early, ClaimSteps, LockSteps
<1>4. ASSUME ScanFails(p) PROVE SInv'
  BY <1>0, <1>4, PlainStep DEF ScanFails, Plain, Early, ClaimSteps, LockSteps
<1>5. ASSUME ReplayBreaks(p) PROVE SInv'
  BY <1>0, <1>5, PlainStep DEF ReplayBreaks, Plain, Early, ClaimSteps, LockSteps
<1>6. ASSUME Crash(p) PROVE SInv'
  BY <1>0, <1>6, PlainStep DEF Crash, Plain, Early, ClaimSteps, LockSteps
<1>7. ASSUME LedgerRow(p) PROVE SInv'
  <2>1. Kept' = Kept /\ LedgerTypes'
    BY <1>0, <1>7 DEF LedgerRow, Kept, LedgerTypes
  <2> QED  BY <1>7, <2>1, PlainStep DEF LedgerRow, Plain, Early, ClaimSteps, LockSteps
<1>8. ASSUME Records(p) PROVE SInv'
  <2>1. Kept \subseteq Kept' /\ LedgerTypes' /\ UNCHANGED files /\ UNCHANGED why
    BY <1>8, CapturesFacts DEF Records, SInv
  <2> QED  BY <1>8, <2>1, PlainStep DEF Records, Plain, Early, ClaimSteps, LockSteps
<1> QED  BY <1>1, <1>2, <1>3, <1>4, <1>5, <1>6, <1>7, <1>8

(* A hook that gives up on the database, before or after its capture. *)
LEMMA SpillNow ==
    ASSUME SInv, NEW p \in Procs, NEW s \in {"spill", "respill"}, Goes(p, s),
           proc[p].pc \in {"open", "record"}, proc[p].ev # NoEvent,
           UNCHANGED files, UNCHANGED why,
           Kept \subseteq Kept', LedgerTypes'
    PROVE  SInv'
<1>1. Types /\ proc[p].ev \in Events /\ s \in Steps
  BY DEF SInv, Types, Process, Steps
<1>2. proc'[p].pc = s /\ proc'[p].ev = proc[p].ev
  BY <1>1, GoesFacts
<1>3. claimed'[p] = Nothing
  BY OwnAccount DEF ClaimAccounted, ClaimSteps, files
<1>4. ClaimAccounted(p)'
  BY <1>1, <1>2, <1>3 DEF ClaimAccounted, ClaimSteps
<1>5. why' \in [Events -> Reasons] /\ \A e \in Events : Spilled(e)' => Spilled(e)
  BY <1>1 DEF Spilled, Types
<1> QED  BY <1>1, <1>4, <1>5, QuietStep DEF Early, LockSteps

LEMMA FailActions ==
    ASSUME SInv, NEW p \in Procs,
           OpenFails(p) \/ RecordFails(p) \/ FollowUpFails(p)
    PROVE  SInv'
<1>0. LedgerTypes /\ (UNCHANGED ledger /\ UNCHANGED dead => Kept' = Kept /\ LedgerTypes')
  BY LedgerStays DEF SInv, Types
<1>1. ASSUME OpenFails(p) \/ RecordFails(p) PROVE SInv'
  BY <1>0, <1>1, SpillNow DEF OpenFails, RecordFails
<1>2. ASSUME FollowUpFails(p) PROVE SInv'
  <2>1. /\ Kept \subseteq Kept' /\ LedgerTypes' /\ UNCHANGED files /\ UNCHANGED why
        /\ proc[p].pc = "record" /\ proc[p].ev # NoEvent
    BY <1>2, CapturesFacts DEF FollowUpFails, SInv
  <2>2. CASE Goes(p, "respill")
    BY <2>1, <2>2, SpillNow
  <2>3. CASE Goes(p, "ended")
    BY <2>1, <2>3, PlainStep DEF Plain, Early, ClaimSteps, LockSteps
  <2> QED  BY <1>2, <2>2, <2>3 DEF FollowUpFails
<1> QED  BY <1>1, <1>2

LEMMA FinishesStep ==
    ASSUME SInv, NEW p \in Procs, Finishes(p)
    PROVE  SInv'
<1> DEFINE s == IF failed[p] = Nothing THEN "settle" ELSE "finish"
<1>1. /\ Goes(p, s) /\ s \in Steps /\ s \in {"settle", "finish"}
      /\ proc[p].pc = "replay" /\ proc[p].todo = Nothing
      /\ UNCHANGED files /\ UNCHANGED <<dead, why>> /\ UNCHANGED ledger
  BY DEF Finishes, Steps
<1>2. s = "settle" => failed[p] = Nothing
  OBVIOUS
<1> HIDE DEF s
<1>3. Types /\ Kept' = Kept /\ LedgerTypes'
  BY <1>1, LedgerStays DEF SInv, Types
<1>4. proc'[p].pc = s
  BY <1>1, <1>3, GoesFacts
<1>5. In(claimed[p]) \subseteq In(failed[p]) \union Kept
  BY <1>1, OwnAccount, NothingFacts DEF ClaimAccounted
<1>6. s = "settle" => In(claimed[p]) \subseteq Kept
  BY <1>2, <1>5, NothingFacts
<1>7. ClaimAccounted(p)'
  BY <1>1, <1>3, <1>4, <1>5 DEF ClaimAccounted, ClaimSteps, files, In
<1>8. why' \in [Events -> Reasons] /\ \A e \in Events : Spilled(e)' => Spilled(e)
  BY <1>1, <1>3 DEF Spilled, Types
<1> QED  BY <1>1, <1>3, <1>6, <1>7, <1>8, QuietStep DEF Early, LockSteps

-----------------------------------------------------------------------------
(* Actions that write the files *)

(* A step that only adds to the active file and changes what p has of its  *)
(* own.                                                                    *)
LEMMA WriteStep ==
    ASSUME SInv, NEW p \in Procs, NEW s \in Steps, Goes(p, s),
           proc[p].pc # "ended", UNCHANGED ledger, UNCHANGED dead,
           active' \in File, In(active) \subseteq In(active'),
           claimed' \in [Procs -> File], failed' \in [Procs -> File],
           \A q \in Procs \ {p} : claimed'[q] = claimed[q],
           \A q \in Procs \ {p} : failed'[q] = failed[q],
           why' \in [Events -> Reasons],
           \A e \in Events : Spilled(e)' => Spilled(e) \/ e \in In(active'),
           s \in LockSteps => ~Locked \/ proc[p].pc \in LockSteps,
           proc[p].pc \in Early => s \in Early \/ ~Locked,
           \/ proc[p].pc = "settle"
           \/ In(claimed[p]) \subseteq In(active') \union Kept
           \/ claimed'[p] = claimed[p] /\ s # "settle",
           ClaimAccounted(p)'
    PROVE  SInv'
<1>1. Types /\ Kept' = Kept /\ LedgerTypes'
  BY LedgerStays DEF SInv, Types
<1>2. /\ proc' \in [Procs -> Process]
      /\ proc'[p].pc = s
      /\ \A q \in Procs \ {p} : proc'[q] = proc[q]
  BY <1>1, GoesFacts
<1>3. Safe' = In(active') \union Kept
  BY <1>1 DEF Safe, In
<1>4. Safe \subseteq Safe'
  BY <1>3 DEF Safe
<1>5. proc[p].pc # "settle" => In(claimed[p]) \subseteq Safe' \union Standing'
  <2>1. CASE claimed'[p] = claimed[p] /\ s # "settle"
    BY <2>1, <1>2, StandsFacts
  <2> QED  BY <2>1, <1>3
<1>6. \A e \in Events : Spilled(e)' => Spilled(e) \/ e \in Safe'
  BY <1>3
<1> QED  BY <1>1, <1>2, <1>4, <1>5, <1>6, OwnStep

LEMMA SpillsStep ==
    ASSUME SInv, NEW p \in Procs, Spills(p)
    PROVE  SInv'
<1> DEFINE s == IF Reason(p) = "record" THEN "ledger" ELSE "ended"
           ev == proc[p].ev
<1>1. /\ Goes(p, s) /\ s \in Steps /\ s \in {"ledger", "ended"}
      /\ proc[p].pc \in {"spill", "respill"} /\ ~Locked
      /\ active' \in Appended(active, Line(ev))
      /\ UNCHANGED <<claimed, failed, dead>> /\ UNCHANGED ledger
  BY DEF Spills, Steps
<1>2. why' = [why EXCEPT ![ev] = Reason(p)] /\ Reason(p) \in {"open", "record", "stop"}
  BY DEF Spills, Reason
<1> HIDE DEF s
<1>3. Types /\ claimed[p] = Nothing /\ ev \in Events
  BY <1>1, OwnAccount DEF ClaimAccounted, ClaimSteps, SInv
<1>4. active' \in File /\ In(active') = In(active) \union {ev}
  BY <1>1, <1>3, LineFacts, AppendedFacts DEF Types
<1>5. \A e \in Events : Spilled(e)' => Spilled(e) \/ e \in In(active')
  <2> SUFFICES ASSUME NEW e \in Events, Spilled(e)', e # ev
               PROVE  Spilled(e)
    BY <1>4
  <2> QED  BY <1>2, <1>3 DEF Spilled, Types
<1>6. proc'[p].pc = s /\ (s = "ledger" => proc'[p].ev = ev)
  BY <1>1, <1>3, GoesFacts
<1>7. ClaimAccounted(p)'
  BY <1>1, <1>3, <1>6 DEF ClaimAccounted, ClaimSteps
<1>8. /\ claimed' \in [Procs -> File] /\ failed' \in [Procs -> File]
  BY <1>1, <1>3 DEF Types
<1>9. why' \in [Events -> Reasons]
  BY <1>2, <1>3 DEF Types, Reasons
<1>a. proc[p].pc # "ended" /\ In(active) \subseteq In(active')
  BY <1>1, <1>4
<1> QED  BY <1>1, <1>3, <1>4, <1>5, <1>7, <1>8, <1>9, <1>a, WriteStep DEF Early, LockSteps

(* An append that breaks off, or one after which p has nothing in hand.    *)
LEMMA TearStep ==
    ASSUME SInv, NEW p \in Procs, NEW s \in Plain, Goes(p, s),
           proc[p].pc # "ended", UNCHANGED <<claimed, failed, dead, why>>, UNCHANGED ledger,
           NEW g \in File, active' \in Torn(active, g),
           s \notin LockSteps, s \in {"ended", "restore"},
           proc[p].pc \in Early => s = "ended"
    PROVE  SInv'
<1>1. Types /\ s \in Steps /\ s # "settle" /\ s \in ClaimSteps
  BY DEF SInv, Plain, Steps, ClaimSteps
<1>2. active' \in File /\ In(active) \subseteq In(active')
  BY <1>1, TornFacts DEF Types
<1>3. proc'[p].pc = s
  BY <1>1, GoesFacts
<1>4. ClaimAccounted(p)'
  BY <1>1, <1>3, PlainAccount
<1>5. why' \in [Events -> Reasons] /\ \A e \in Events : Spilled(e)' => Spilled(e)
  BY <1>1 DEF Types, Spilled
<1>6. claimed' \in [Procs -> File] /\ failed' \in [Procs -> File]
  BY <1>1 DEF Types
<1> QED  BY <1>1, <1>2, <1>4, <1>5, <1>6, WriteStep DEF Early

LEMMA TearActions ==
    ASSUME SInv, NEW p \in Procs,
           SpillFails(p) \/ AppendTears(p) \/ \E o \in Procs : OrphanTears(p, o)
    PROVE  SInv'
<1>0. Types /\ "ended" \in Plain /\ "restore" \in Plain
  BY DEF SInv, Plain
<1>1. ASSUME SpillFails(p) PROVE SInv'
  <2>1. proc[p].ev \in Events
    BY <1>1, OwnAccount DEF SpillFails, ClaimAccounted
  <2>2. Line(proc[p].ev) \in File
    BY <2>1, LineFacts
  <2> QED  BY <1>0, <1>1, <2>2, TearStep DEF SpillFails, LockSteps
<1>2. ASSUME AppendTears(p) PROVE SInv'
  <2> DEFINE g == IF proc[p].pc = "finish" THEN failed[p] ELSE claimed[p]
  <2>1. g \in File /\ active' \in Torn(active, g)
    BY <1>0, <1>2 DEF AppendTears, Types
  <2>2. PICK s \in {"ended", "restore"} : Goes(p, s)
    BY <1>2 DEF AppendTears
  <2>3. /\ proc[p].pc \in {"finish", "restore"}
        /\ UNCHANGED <<claimed, failed, dead, why>> /\ UNCHANGED ledger
    BY <1>2 DEF AppendTears
  <2> HIDE DEF g
  <2>4. s \in Plain /\ s \notin LockSteps
    BY <2>2 DEF Plain, LockSteps
  <2> QED  BY <2>1, <2>2, <2>3, <2>4, TearStep DEF Early
<1>3. ASSUME NEW o \in Procs, OrphanTears(p, o) PROVE SInv'
  <2>1. claimed[o] \in File
    BY <1>0 DEF Types
  <2> QED  BY <1>0, <1>3, <2>1, TearStep DEF OrphanTears, LockSteps
<1> QED  BY <1>1, <1>2, <1>3

LEMMA FinishAppendStep ==
    ASSUME SInv, NEW p \in Procs, FinishAppend(p)
    PROVE  SInv'
<1>1. /\ Goes(p, "finishRemove") /\ proc[p].pc = "finish" /\ ~Locked
      /\ active' \in Appended(active, failed[p])
      /\ UNCHANGED <<claimed, failed, dead, why>> /\ UNCHANGED ledger
  BY DEF FinishAppend
<1>2. Types /\ "finishRemove" \in Steps /\ Kept' = Kept
  BY <1>1, LedgerStays DEF SInv, Steps
<1>3. active' \in File /\ In(active') = In(active) \union In(failed[p])
  BY <1>1, <1>2, AppendedFacts DEF Types
<1>4. proc'[p].pc = "finishRemove"
  BY <1>1, <1>2, GoesFacts
<1>5. In(claimed[p]) \subseteq In(active') \union Kept
  BY <1>1, <1>3, OwnAccount DEF ClaimAccounted
<1>6. ClaimAccounted(p)'
  BY <1>1, <1>2, <1>4, <1>5 DEF ClaimAccounted, ClaimSteps, Safe, In
<1>7. why' \in [Events -> Reasons] /\ \A e \in Events : Spilled(e)' => Spilled(e)
  BY <1>1, <1>2 DEF Types, Spilled
<1>8. claimed' \in [Procs -> File] /\ failed' \in [Procs -> File]
  BY <1>1, <1>2 DEF Types
<1> QED  BY <1>1, <1>2, <1>3, <1>5, <1>6, <1>7, <1>8, WriteStep DEF Early

LEMMA FinishRemoveStep ==
    ASSUME SInv, NEW p \in Procs, FinishRemove(p)
    PROVE  SInv'
<1>1. /\ Goes(p, "settle") /\ proc[p].pc = "finishRemove"
      /\ failed' = [failed EXCEPT ![p] = Nothing]
      /\ UNCHANGED <<active, claimed, dead, why>> /\ UNCHANGED ledger
  BY DEF FinishRemove
<1>2. Types /\ "settle" \in Steps
  BY DEF SInv, Steps
<1>3. active' \in File /\ In(active) \subseteq In(active')
  BY <1>1, <1>2 DEF Types
<1>4. proc'[p].pc = "settle"
  BY <1>1, <1>2, GoesFacts
<1>5. In(claimed[p]) \subseteq In(active') \union Kept
  BY <1>1, OwnAccount DEF ClaimAccounted, Safe
<1>6. ClaimAccounted(p)'
  BY <1>1, <1>4 DEF ClaimAccounted, ClaimSteps
<1>7. why' \in [Events -> Reasons] /\ \A e \in Events : Spilled(e)' => Spilled(e)
  BY <1>1, <1>2 DEF Types, Spilled
<1>8. claimed' \in [Procs -> File] /\ failed' \in [Procs -> File]
      /\ \A q \in Procs \ {p} : failed'[q] = failed[q]
  BY <1>1, <1>2, NothingFacts DEF Types
<1> QED  BY <1>1, <1>2, <1>3, <1>5, <1>6, <1>7, <1>8, WriteStep DEF Early, LockSteps

LEMMA RestoreAppendStep ==
    ASSUME SInv, NEW p \in Procs, RestoreAppend(p)
    PROVE  SInv'
<1>1. /\ Goes(p, "restoreRemove") /\ proc[p].pc = "restore" /\ ~Locked
      /\ active' \in Appended(active, claimed[p])
      /\ UNCHANGED <<claimed, failed, dead, why>> /\ UNCHANGED ledger
  BY DEF RestoreAppend
<1>2. Types /\ "restoreRemove" \in Steps
  BY DEF SInv, Steps
<1>3. active' \in File /\ In(active') = In(active) \union In(claimed[p])
  BY <1>1, <1>2, AppendedFacts DEF Types
<1>4. proc'[p].pc = "restoreRemove"
  BY <1>1, <1>2, GoesFacts
<1>6. ClaimAccounted(p)'
  BY <1>1, <1>3, <1>4 DEF ClaimAccounted, ClaimSteps, In
<1>7. why' \in [Events -> Reasons] /\ \A e \in Events : Spilled(e)' => Spilled(e)
  BY <1>1, <1>2 DEF Types, Spilled
<1>8. claimed' \in [Procs -> File] /\ failed' \in [Procs -> File]
  BY <1>1, <1>2 DEF Types
<1> QED  BY <1>1, <1>2, <1>3, <1>6, <1>7, <1>8, WriteStep DEF Early

(* Settle, RestoreRemove and RestoreTidy take a file of p away that is not *)
(* needed any more.                                                        *)
LEMMA TakeAwayStep ==
    ASSUME SInv, NEW p \in Procs, Settle(p) \/ RestoreRemove(p) \/ RestoreTidy(p)
    PROVE  SInv'
<1> DEFINE s == IF Settle(p) THEN AfterReplay(p)
                ELSE IF RestoreRemove(p) THEN "restoreTidy" ELSE "ended"
<1>1. /\ Goes(p, s) /\ s \in {"record", "ended", "restoreTidy"}
      /\ proc[p].pc \in {"settle", "restoreRemove", "restoreTidy"}
      /\ UNCHANGED <<active, dead, why>> /\ UNCHANGED ledger
  BY DEF Settle, RestoreRemove, RestoreTidy, AfterReplay
<1>2. /\ claimed' = [claimed EXCEPT ![p] = Nothing] \/ claimed' = claimed
      /\ failed' = [failed EXCEPT ![p] = Nothing] \/ failed' = failed
      /\ proc[p].pc # "restoreTidy" => claimed' = [claimed EXCEPT ![p] = Nothing]
      /\ proc[p].pc = "restoreTidy" => claimed' = claimed
  BY DEF Settle, RestoreRemove, RestoreTidy
<1> HIDE DEF s
<1>3. Types /\ s \in Steps /\ s \notin LockSteps
  BY <1>1 DEF SInv, Steps, LockSteps
<1>4. proc'[p].pc = s
  BY <1>1, <1>3, GoesFacts
<1>5. proc[p].pc = "restoreTidy" => claimed[p] = Nothing
  BY OwnAccount DEF ClaimAccounted, ClaimSteps
<1>6. claimed'[p] = Nothing
  BY <1>1, <1>2, <1>3, <1>5 DEF Types
<1>7. ClaimAccounted(p)'
  BY <1>1, <1>4, <1>6 DEF ClaimAccounted
<1>8. \/ proc[p].pc = "settle"
      \/ In(claimed[p]) \subseteq In(active') \union Kept
  BY <1>1, <1>5, OwnAccount, NothingFacts DEF ClaimAccounted
<1>9. why' \in [Events -> Reasons] /\ \A e \in Events : Spilled(e)' => Spilled(e)
  BY <1>1, <1>3 DEF Types, Spilled
<1>a. claimed' \in [Procs -> File] /\ failed' \in [Procs -> File]
      /\ \A q \in Procs \ {p} : claimed'[q] = claimed[q] /\ failed'[q] = failed[q]
  BY <1>2, <1>3, NothingFacts DEF Types
<1>b. active' \in File /\ In(active) \subseteq In(active')
  BY <1>1, <1>3 DEF Types
<1> QED  BY <1>1, <1>3, <1>7, <1>8, <1>9, <1>a, <1>b, WriteStep DEF Early

-----------------------------------------------------------------------------
(* Actions that change what a process has in memory *)

LEMMA StartStep ==
    ASSUME SInv, NEW p \in Procs, NEW e \in Events \union {NoEvent},
           NEW s \in Sessions \union {NoSession}, Start(p, e, s)
    PROVE  SInv'
<1>1. /\ proc[p].pc = "ended" /\ claimed[p] = Nothing
      /\ e # NoEvent => why[e] = "new"
      /\ proc' = [proc EXCEPT ![p] = [@ EXCEPT !.pc = "open", !.ev = e, !.session = s]]
      /\ why' = [x \in Events |-> IF x = e THEN "live" ELSE why[x]]
      /\ failed' = [failed EXCEPT ![p] = Nothing]
      /\ UNCHANGED <<active, claimed, dead>> /\ UNCHANGED ledger
  BY DEF Start, ledger
<1>2. Types /\ Kept' = Kept /\ LedgerTypes'
  BY <1>1, LedgerStays DEF SInv, Types
<1>3. /\ proc' \in [Procs -> Process] /\ proc'[p].pc = "open"
      /\ \A q \in Procs \ {p} : proc'[q] = proc[q]
  <2>0. proc[p] \in Process /\ "open" \in Steps
    BY <1>2 DEF Types, Steps
  <2>1. [proc[p] EXCEPT !.pc = "open", !.ev = e, !.session = s] \in Process
    BY <2>0 DEF Process
  <2>2. proc' = [proc EXCEPT ![p] = [proc[p] EXCEPT !.pc = "open", !.ev = e, !.session = s]]
    BY <1>1
  <2> QED  BY <1>2, <2>1, <2>2 DEF Types, Process
<1>4. /\ failed' \in [Procs -> File] /\ claimed' \in [Procs -> File]
      /\ active' \in File
      /\ \A q \in Procs \ {p} : failed'[q] = failed[q]
      /\ why' \in [Events -> Reasons]
  BY <1>1, <1>2, NothingFacts DEF Types, Reasons
<1>5. \A x \in Events : Spilled(x)' => Spilled(x)
  BY <1>1, <1>2 DEF Types, Spilled
<1>6. Safe' = Safe /\ In(active') = In(active)
  BY <1>1, <1>2 DEF Safe, In
<1>7. In(claimed[p]) = {}
  BY <1>1, NothingFacts
<1>8. ClaimAccounted(p)'
  BY <1>1, <1>3, PlainAccount DEF Plain
<1> QED  BY <1>1, <1>2, <1>3, <1>4, <1>5, <1>6, <1>7, <1>8, OwnStep DEF LockSteps, Early

(* Reading and replaying: the claim stays as it is. *)
LEMMA ReplayStep ==
    ASSUME SInv, NEW p \in Procs, proc[p].pc \in {"read", "replay"},
           NEW todo \in File,
           proc' = [proc EXCEPT ![p] = [@ EXCEPT !.pc = "replay", !.todo = todo]],
           failed' \in [Procs -> File],
           \A q \in Procs \ {p} : failed'[q] = failed[q],
           UNCHANGED <<active, claimed, why>>,
           Kept \subseteq Kept', LedgerTypes',
           In(claimed[p]) \subseteq In(todo) \union In(failed'[p]) \union Kept'
    PROVE  SInv'
<1>1. Types
  BY DEF SInv
<1>2. /\ proc' \in [Procs -> Process] /\ proc'[p].pc = "replay"
      /\ proc'[p].todo = todo
      /\ \A q \in Procs \ {p} : proc'[q] = proc[q]
  <2> DEFINE r == [proc[p] EXCEPT !.pc = "replay", !.todo = todo]
  <2>0. proc \in [Procs -> Process] /\ proc[p] \in Process
    BY <1>1 DEF Types
  <2>1. r \in Process /\ r.pc = "replay" /\ r.todo = todo
    BY <2>0 DEF Process, Steps
  <2>2. proc' = [proc EXCEPT ![p] = r]
    OBVIOUS
  <2> HIDE DEF r
  <2> QED  BY <1>1, <2>1, <2>2 DEF Types
<1>3. In(failed[p])' = In(failed'[p]) /\ In(claimed[p])' = In(claimed[p])
      /\ In(proc[p].todo)' = In(todo) /\ In(active)' = In(active)
  BY <1>2 DEF In
<1>4. ClaimAccounted(p)'
  BY <1>2, <1>3 DEF ClaimAccounted, ClaimSteps
<1>5. Safe \subseteq Safe'
  BY <1>3 DEF Safe
<1>6. In(claimed[p]) \subseteq Standing'
  BY <1>2, StandsFacts
<1>7. active' \in File /\ claimed' \in [Procs -> File] /\ why' \in [Events -> Reasons]
  BY <1>1 DEF Types
<1>8. \A x \in Events : Spilled(x)' => Spilled(x)
  BY DEF Spilled
<1> QED  BY <1>2, <1>4, <1>5, <1>6, <1>7, <1>8, OwnStep DEF LockSteps, Early

LEMMA ReadStep ==
    ASSUME SInv, NEW p \in Procs, Read(p)
    PROVE  SInv'
<1> DEFINE todo == [claimed[p] EXCEPT !.torn = FALSE]
<1>1. Types /\ claimed[p] \in File
  BY DEF SInv, Types
<1>1a. Kept' = Kept /\ LedgerTypes'
  BY LedgerStays DEF SInv, Types, Read
<1>2. todo \in File /\ In(todo) = In(claimed[p])
  BY <1>1 DEF File, In
<1>3. /\ proc' = [proc EXCEPT ![p] = [@ EXCEPT !.pc = "replay", !.todo = todo]]
      /\ proc[p].pc = "read"
      /\ UNCHANGED <<active, claimed, failed, dead, why>>
  BY DEF Read, files
<1> HIDE DEF todo
<1> QED  BY <1>1, <1>1a, <1>2, <1>3, ReplayStep DEF Types

LEMMA LineStep ==
    ASSUME SInv, Recorded, NEW p \in Procs, NEW e \in Events,
           \/ Replays(p, e) \/ Discards(p, e) \/ ReplayFails(p, e)
           \/ DeadLetter(p, e)
    PROVE  SInv'
<1>1. Types /\ proc[p] \in Process /\ proc[p].todo \in File /\ failed[p] \in File
  BY DEF SInv, Types, Process
<1>2. /\ proc[p].pc = "replay" /\ UNCHANGED <<active, claimed, why>>
  BY DEF Replays, Discards, ReplayFails, DeadLetter, files, ledger
<1>3. In(claimed[p]) \subseteq In(proc[p].todo) \union In(failed[p]) \union Kept
  BY <1>2, OwnAccount DEF ClaimAccounted
<1>4. ASSUME Replays(p, e) \/ Discards(p, e) PROVE SInv'
  <2> DEFINE todo == [proc[p].todo EXCEPT !.good = @ \ {e}]
  <2>1. Handled(p, e) /\ UNCHANGED <<kind, failed, dead>>
    BY <1>4 DEF Replays, Discards, files
  <2>2. proc' = [proc EXCEPT ![p] = [@ EXCEPT !.pc = "replay", !.todo = todo]]
    BY <1>1, <1>2, <2>1 DEF Handled, Types, Process
  <2>3. todo \in File /\ In(proc[p].todo) \subseteq In(todo) \union {e}
    BY <1>1 DEF File, In
  <2>4. Kept \subseteq Kept' /\ e \in Kept' /\ LedgerTypes'
    <3>1. LedgerTypes
      BY <1>1 DEF Types
    <3>2. CASE Replays(p, e)
      BY <3>1, <3>2 DEF Replays, Kept, LedgerTypes
    <3>3. CASE Discards(p, e)
      <4>1. e \in stopped
        BY <1>2, <3>3 DEF Discards, Supersedes, Recorded, ReplaySteps
      <4> QED  BY <3>1, <3>3, <4>1 DEF Discards, Kept, LedgerTypes
    <3> QED  BY <1>4, <3>2, <3>3
  <2> HIDE DEF todo
  <2>5. In(claimed[p]) \subseteq In(todo) \union In(failed'[p]) \union Kept'
    BY <1>3, <2>1, <2>3, <2>4
  <2>6. failed' \in [Procs -> File] /\ \A q \in Procs \ {p} : failed'[q] = failed[q]
    BY <1>1, <2>1 DEF Types
  <2> QED  BY <1>2, <2>2, <2>3, <2>4, <2>5, <2>6, ReplayStep
<1>5. ASSUME ReplayFails(p, e) PROVE SInv'
  <2> DEFINE todo == [proc[p].todo EXCEPT !.good = @ \ {e}]
             f == [failed[p] EXCEPT !.good = @ \union {e}]
  <2>1. /\ Handled(p, e) /\ failed' = [failed EXCEPT ![p].good = @ \union {e}]
        /\ UNCHANGED <<kind, dead, superseded, stopped>>
        /\ captured' \in {captured, captured \union {e}}
    BY <1>5 DEF ReplayFails
  <2>2. proc' = [proc EXCEPT ![p] = [@ EXCEPT !.pc = "replay", !.todo = todo]]
    BY <1>1, <1>2, <2>1 DEF Handled, Types, Process
  <2>3. todo \in File /\ In(proc[p].todo) \subseteq In(todo) \union {e}
    BY <1>1 DEF File, In
  <2>4. f \in File /\ In(f) = In(failed[p]) \union {e}
    BY <1>1 DEF File, In
  <2>5. /\ failed' \in [Procs -> File] /\ failed'[p] = f
        /\ \A q \in Procs \ {p} : failed'[q] = failed[q]
    BY <1>1, <2>1, <2>4 DEF Types
  <2>6. Kept \subseteq Kept' /\ LedgerTypes'
    BY <1>1, <2>1 DEF Kept, LedgerTypes, Types
  <2> HIDE DEF todo, f
  <2> QED  BY <1>1, <1>2, <1>3, <2>2, <2>3, <2>4, <2>5, <2>6, ReplayStep
<1>6. ASSUME DeadLetter(p, e) PROVE SInv'
  <2> DEFINE todo == [proc[p].todo EXCEPT !.bad = @ \ {e}]
  <2>1. /\ proc' = [proc EXCEPT ![p].todo.bad = @ \ {e}]
        /\ dead' = dead \union {e} /\ UNCHANGED failed /\ UNCHANGED ledger
    BY <1>6 DEF DeadLetter, files
  <2>2. proc' = [proc EXCEPT ![p] = [@ EXCEPT !.pc = "replay", !.todo = todo]]
    BY <1>1, <1>2, <2>1 DEF Types, Process
  <2>3. todo \in File /\ In(proc[p].todo) \subseteq In(todo) \union {e}
    BY <1>1 DEF File, In
  <2>4. Kept \subseteq Kept' /\ e \in Kept' /\ LedgerTypes'
    BY <1>1, <2>1 DEF ledger, Kept, LedgerTypes, Types
  <2> HIDE DEF todo
  <2>5. In(claimed[p]) \subseteq In(todo) \union In(failed'[p]) \union Kept'
    BY <1>3, <2>1, <2>3, <2>4
  <2>6. failed' \in [Procs -> File] /\ \A q \in Procs \ {p} : failed'[q] = failed[q]
    BY <1>1, <2>1 DEF Types
  <2> QED  BY <1>2, <2>2, <2>3, <2>4, <2>5, <2>6, ReplayStep
<1> QED  BY <1>4, <1>5, <1>6

-----------------------------------------------------------------------------
(* Claims *)

LEMMA ClaimStep ==
    ASSUME SInv, NEW p \in Procs, Claim(p)
    PROVE  SInv'
<1> DEFINE s == IF active = Nothing THEN AfterReplay(p) ELSE "read"
<1>1. /\ Goes(p, s) /\ s \in {"record", "ended", "read"} /\ s \in Steps
      /\ proc[p].pc = "claim" /\ ~Locked
      /\ claimed' = [claimed EXCEPT ![p] = active] /\ active' = Nothing
      /\ UNCHANGED <<failed, dead, why>> /\ UNCHANGED ledger
      /\ s # "read" => active = Nothing
  BY DEF Claim, ledger, Steps, AfterReplay
<1> HIDE DEF s
<1>2. Types /\ Kept' = Kept /\ LedgerTypes'
  BY <1>1, LedgerStays DEF SInv, Types
<1>3. /\ proc' \in [Procs -> Process] /\ proc'[p].pc = s
      /\ \A q \in Procs \ {p} : proc'[q] = proc[q]
  BY <1>1, <1>2, GoesFacts
<1>4. /\ claimed' \in [Procs -> File] /\ claimed'[p] = active
      /\ \A q \in Procs \ {p} : claimed'[q] = claimed[q]
      /\ failed' \in [Procs -> File] /\ active' \in File
      /\ why' \in [Events -> Reasons]
  BY <1>1, <1>2, NothingFacts DEF Types
<1>5. In(active) \subseteq Standing'
  BY <1>1, <1>3, <1>4, StandsFacts
<1>6. Safe \subseteq Safe' \union Standing'
  BY <1>1, <1>2, <1>5 DEF Safe
<1>7. In(claimed[p]) = {}
  BY <1>1, OwnAccount, NothingFacts DEF ClaimAccounted, ClaimSteps
<1>8. ClaimAccounted(p)'
  BY <1>1, <1>3, <1>4, PlainAccount DEF Plain, ClaimSteps
<1>9. \A x \in Events : Spilled(x)' => Spilled(x)
  BY <1>1 DEF Spilled
<1> QED  BY <1>1, <1>2, <1>3, <1>4, <1>6, <1>7, <1>8, <1>9, OwnStep DEF LockSteps, Early

LEMMA RestoreOrphanStep ==
    ASSUME SInv, NEW p \in Procs, NEW o \in Procs, RestoreOrphan(p, o)
    PROVE  SInv'
<1>1. /\ proc[p].pc = "orphans" /\ proc[o].pc = "ended" /\ claimed[o] # Nothing
      /\ active' \in Appended(active, claimed[o])
      /\ proc' = [proc EXCEPT ![p] = [@ EXCEPT !.pc = "orphanRemove", !.cur = o]]
      /\ UNCHANGED <<claimed, failed, dead, why>> /\ UNCHANGED ledger
  BY DEF RestoreOrphan, ledger
<1>2. Types /\ Kept' = Kept /\ LedgerTypes'
  BY <1>1, LedgerStays DEF SInv, Types
<1>3. /\ proc' \in [Procs -> Process]
      /\ proc'[p].pc = "orphanRemove" /\ proc'[p].cur = o
      /\ \A q \in Procs \ {p} : proc'[q] = proc[q]
  <2>0. proc[p] \in Process /\ "orphanRemove" \in Steps
    BY <1>2 DEF Types, Steps
  <2>1. [proc[p] EXCEPT !.pc = "orphanRemove", !.cur = o] \in Process
    BY <2>0 DEF Process
  <2>2. proc' = [proc EXCEPT ![p] = [proc[p] EXCEPT !.pc = "orphanRemove", !.cur = o]]
    BY <1>1
  <2> QED  BY <1>2, <2>1, <2>2 DEF Types, Process
<1>4. active' \in File /\ In(active') = In(active) \union In(claimed[o])
  BY <1>1, <1>2, AppendedFacts DEF Types
<1>5. claimed[p] = Nothing
  BY <1>1, OwnAccount DEF ClaimAccounted, ClaimSteps
<1>6. In(claimed[p]) = {}
  BY <1>5, NothingFacts
<1>7. ClaimAccounted(p)'
  BY <1>1, <1>3, <1>4, <1>5 DEF ClaimAccounted, ClaimSteps, In
<1>8. Safe \subseteq Safe'
  BY <1>1, <1>2, <1>4 DEF Safe, In
<1>9. \A x \in Events : Spilled(x)' => Spilled(x)
  BY <1>1 DEF Spilled
<1>a. /\ claimed' \in [Procs -> File] /\ failed' \in [Procs -> File]
      /\ why' \in [Events -> Reasons]
  BY <1>1, <1>2 DEF Types
<1> QED  BY <1>1, <1>2, <1>3, <1>4, <1>6, <1>7, <1>8, <1>9, <1>a, OwnStep DEF LockSteps, Early

(* Only the holder of the lock takes the claim of another away. *)
LEMMA HolderAlone ==
    ASSUME SInv, NEW p \in Procs, proc[p].pc \in LockSteps,
           NEW q \in Procs \ {p}
    PROVE  proc[q].pc \notin LockSteps
BY DEF SInv, OneHolder

LEMMA RemoveOrphanStep ==
    ASSUME SInv, NEW p \in Procs, RemoveOrphan(p)
    PROVE  SInv'
<1> DEFINE o == proc[p].cur
<1>1. /\ Goes(p, "orphanTidy") /\ proc[p].pc = "orphanRemove"
      /\ claimed' = [claimed EXCEPT ![o] = Nothing]
      /\ UNCHANGED <<active, failed, dead, why>> /\ UNCHANGED ledger
  BY DEF RemoveOrphan, ledger
<1>2. Types /\ Kept' = Kept /\ LedgerTypes'
  BY <1>1, LedgerStays DEF SInv, Types
<1>2a. o \in Procs /\ proc[o].pc = "ended" /\ o # p
      /\ In(claimed[o]) \subseteq In(active)
  BY <1>1, <1>2, OwnAccount DEF SInv, Types, Process, ClaimAccounted
<1>3. /\ proc' \in [Procs -> Process] /\ proc'[p].pc = "orphanTidy"
      /\ proc'[p].cur = o
      /\ \A q \in Procs \ {p} : proc'[q] = proc[q]
  BY <1>1, <1>2, <1>2a, GoesFacts DEF Steps
<1> HIDE DEF o
<1>4. claimed' \in [Procs -> File] /\ claimed'[o] = Nothing
      /\ \A q \in Procs \ {o} : claimed'[q] = claimed[q]
  BY <1>1, <1>2, <1>2a, NothingFacts DEF Types
<1>5. Types'
  BY <1>1, <1>2, <1>2a, <1>3, <1>4 DEF Types
<1>6. OneHolder'
  BY <1>1, <1>3, HolderStep DEF SInv, LockSteps
<1>7. Safe' = Safe
  BY <1>1, <1>2 DEF Safe, In
<1>8. KeptApart'
  <2>1. \A q \in Procs : In(claimed[q]) \subseteq In(claimed'[q]) \union Safe'
    BY <1>2, <1>2a, <1>4, <1>7 DEF Safe
  <2>2. In(claimed[p]) \subseteq Safe' \union Standing'
    BY <1>2, <1>2a, <1>3, <1>4, StandsFacts
  <2>3. \A q \in Procs \ {p} : proc'[q].pc = "settle" => proc[q].pc = "settle"
    BY <1>3
  <2>4. \A e \in Events : Spilled(e)' => Spilled(e) \/ e \in Safe'
    BY <1>1 DEF Spilled
  <2>5. KeptApart /\ Safe \subseteq Safe' \union Standing'
    BY <1>7 DEF SInv
  <2> QED  BY <2>1, <2>2, <2>3, <2>4, <2>5, KeptStep
<1>9. ASSUME NEW q \in Procs PROVE ClaimAccounted(q)'
  <2>1. CASE q = p
    <3>1. claimed'[p] = Nothing
      BY <1>1, <1>2, <1>2a, <1>4, OwnAccount DEF ClaimAccounted, ClaimSteps
    <3> QED  BY <1>2, <1>2a, <1>3, <2>1, <3>1 DEF ClaimAccounted, Early
  <2>2. CASE q = o
    BY <1>2, <1>2a, <1>3, <1>4, <2>2 DEF ClaimAccounted
  <2>3. CASE q # p /\ q # o
    <3>1. ClaimAccounted(q) /\ proc[q].pc \notin LockSteps
      BY <1>1, <2>3, OwnAccount, HolderAlone DEF LockSteps
    <3>2. proc'[q] = proc[q] /\ claimed'[q] = claimed[q] /\ failed'[q] = failed[q]
      BY <1>1, <1>3, <1>4, <2>3
    <3>3. In(claimed[q])' = In(claimed[q]) /\ In(failed[q])' = In(failed[q])
          /\ In(proc[q].todo)' = In(proc[q].todo)
      BY <3>2 DEF In
    <3> QED  BY <1>1, <1>2, <3>1, <3>2, <3>3 DEF ClaimAccounted, LockSteps
  <2> QED  BY <2>1, <2>2, <2>3
<1> QED  BY <1>5, <1>6, <1>8, <1>9 DEF SInv, AllAccounted

LEMMA TidyOrphanStep ==
    ASSUME SInv, NEW p \in Procs, TidyOrphan(p)
    PROVE  SInv'
<1> DEFINE o == proc[p].cur
<1>1. /\ Goes(p, "orphans") /\ proc[p].pc = "orphanTidy"
      /\ failed' = [failed EXCEPT ![o] = Nothing]
      /\ UNCHANGED <<active, claimed, dead, why>> /\ UNCHANGED ledger
  BY DEF TidyOrphan, ledger
<1>2. Types /\ Kept' = Kept /\ LedgerTypes'
  BY <1>1, LedgerStays DEF SInv, Types
<1>2a. o \in Procs /\ proc[o].pc \in Early /\ o # p
  BY <1>1, <1>2, OwnAccount DEF SInv, Types, Process, ClaimAccounted, Early
<1>3. /\ proc' \in [Procs -> Process] /\ proc'[p].pc = "orphans"
      /\ \A q \in Procs \ {p} : proc'[q] = proc[q]
  BY <1>1, <1>2, <1>2a, GoesFacts DEF Steps
<1> HIDE DEF o
<1>4. failed' \in [Procs -> File]
      /\ \A q \in Procs \ {o} : failed'[q] = failed[q]
  BY <1>1, <1>2, <1>2a, NothingFacts DEF Types
<1>5. Types'
  BY <1>1, <1>2, <1>2a, <1>3, <1>4 DEF Types
<1>6. OneHolder'
  BY <1>1, <1>3, HolderStep DEF SInv, LockSteps
<1>7. Safe' = Safe
  BY <1>1, <1>2 DEF Safe, In
<1>8. KeptApart'
  <2>1. \A q \in Procs : In(claimed[q]) \subseteq In(claimed'[q]) \union Safe'
    BY <1>1
  <2>2. In(claimed[p]) \subseteq Safe' \union Standing'
    BY <1>1, <1>3, StandsFacts
  <2>3. \A q \in Procs \ {p} : proc'[q].pc = "settle" => proc[q].pc = "settle"
    BY <1>3
  <2>4. \A e \in Events : Spilled(e)' => Spilled(e) \/ e \in Safe'
    BY <1>1 DEF Spilled
  <2>5. KeptApart /\ Safe \subseteq Safe' \union Standing'
    BY <1>7 DEF SInv
  <2> QED  BY <2>1, <2>2, <2>3, <2>4, <2>5, KeptStep
<1>9. ASSUME NEW q \in Procs PROVE ClaimAccounted(q)'
  <2>0. ClaimAccounted(q) /\ claimed' = claimed /\ (q # p => proc'[q] = proc[q])
    BY <1>1, <1>3, OwnAccount
  <2>1. CASE q = p
    <3>1. claimed'[p] = Nothing
      BY <1>1, <2>0, <2>1 DEF ClaimAccounted, ClaimSteps
    <3> QED  BY <1>3, <2>1, <3>1, PlainAccount DEF Plain
  <2>2. CASE q = o
    <3>1. proc'[q].pc \in Early /\ proc'[q].pc = proc[q].pc /\ proc'[q].ev = proc[q].ev
      BY <1>2, <1>2a, <2>0, <2>2
    <3> QED  BY <2>0, <3>1 DEF ClaimAccounted, Early
  <2>3. CASE q # p /\ q # o
    <3>1. proc[q].pc \notin LockSteps
      BY <1>1, <2>3, HolderAlone DEF LockSteps
    <3>2. proc'[q] = proc[q] /\ failed'[q] = failed[q]
      BY <1>3, <1>4, <2>3
    <3>3. In(claimed[q])' = In(claimed[q]) /\ In(failed[q])' = In(failed[q])
          /\ In(proc[q].todo)' = In(proc[q].todo)
      BY <2>0, <3>2 DEF In
    <3> QED  BY <1>1, <1>2, <2>0, <3>1, <3>2, <3>3 DEF ClaimAccounted, LockSteps
  <2> QED  BY <2>1, <2>2, <2>3
<1> QED  BY <1>5, <1>6, <1>8, <1>9 DEF SInv, AllAccounted

-----------------------------------------------------------------------------
(* The specification *)

LEMMA SpillInit == Init => SInv
<1> SUFFICES ASSUME Init PROVE SInv
  OBVIOUS
<1>1. \A p \in Procs : Gone(p) \in Process /\ Gone(p).pc = "ended"
  BY NothingFacts DEF Gone, Process, Steps
<1>2. Types
  BY <1>1, NothingFacts DEF Init, Types, LedgerTypes, Reasons
<1>3. OneHolder
  BY <1>1 DEF Init, OneHolder, LockSteps
<1>4. KeptApart
  BY DEF Init, KeptApart, Spilled
<1>5. AllAccounted
  BY <1>1 DEF Init, AllAccounted, ClaimAccounted, ClaimSteps
<1> QED  BY <1>2, <1>3, <1>4, <1>5 DEF SInv

LEMMA SpillStutter ==
    ASSUME SInv, UNCHANGED vars
    PROVE  SInv'
BY DEF SInv, vars, Types, LedgerTypes, OneHolder, KeptApart, AllAccounted,
       ClaimAccounted, Safe, Kept, Standing, Spilled, In

LEMMA SpillNext ==
    ASSUME SInv, Recorded, Next
    PROVE  SInv'
<1>1. PICK p \in Procs :
        \/ \E e \in Events \union {NoEvent}, s \in Sessions \union {NoSession} : Start(p, e, s)
        \/ Works(p)
        \/ \E o \in Procs : RestoreOrphan(p, o)
        \/ Fails(p)
  BY DEF Next
<1>2. ASSUME Works(p) PROVE SInv'
  BY <1>2, PlainActions, SpillsStep, RemoveOrphanStep, TidyOrphanStep, ClaimStep,
     ReadStep, LineStep, FinishesStep, FinishAppendStep, FinishRemoveStep,
     RestoreAppendStep, TakeAwayStep
     DEF Works
<1>3. ASSUME Fails(p) PROVE SInv'
  BY <1>3, PlainActions, FailActions, TearActions, LineStep DEF Fails
<1> QED  BY <1>1, <1>2, <1>3, StartStep, RestoreOrphanStep

-----------------------------------------------------------------------------
(* A Stop hook's own event: once the hook is past the steps that record or *)
(* spill it, the event is in the database or was spilled, and stays so.    *)

Settled == captured \union {e \in Events : Spilled(e)}

(* The steps before which the event is in the hook's hands only. *)
Before == {"open", "record", "spill", "respill"}

StopInv ==
    /\ mishaps \in Nat
    /\ \A p \in Procs :
         kind = "stop" /\ proc[p].ev \in Events /\ proc[p].pc \notin Before
           => proc[p].ev \in Settled
    /\ Recorded

SettledStays ==
    /\ Settled \subseteq Settled'
    /\ stopped \subseteq stopped'
    /\ kind' = kind

(* A step of p: it may forget its event but not change it, except at its    *)
(* start, and when it puts the first steps behind it the event is settled   *)
(* or the step is a mishap and the process ends.  A Stop hook comes to the  *)
(* replay by recording its own payload.                                     *)
Advances(p) ==
    /\ \A q \in Procs \ {p} : proc'[q] = proc[q]
    /\ \/ proc'[p].pc = "open"
       \/ proc'[p].ev = NoEvent
       \/ proc'[p].ev = proc[p].ev
    /\ \/ kind # "stop" \/ proc[p].ev \notin Events
       \/ proc[p].pc \notin Before \/ proc'[p].pc \in Before
       \/ proc[p].ev \in Settled'
       \/ mishaps' # mishaps /\ proc'[p].ev = NoEvent
    /\ \/ kind # "stop" \/ proc'[p].pc \notin ReplaySteps
       \/ proc[p].pc \in ReplaySteps /\ proc'[p].session = proc[p].session
       \/ \A e \in Events : SessionOf[e] = proc'[p].session => e \in stopped'

LEMMA AdvanceLands ==
    ASSUME StopInv, NEW p \in Procs, Advances(p), SettledStays, mishaps' \in Nat
    PROVE  /\ StopInv'
           /\ kind = "stop" => \A q \in Procs : Lands(q)
<1>0. kind' = kind
  BY DEF SettledStays
<1>1. ASSUME NEW q \in Procs, kind = "stop", proc'[q].ev \in Events,
             proc'[q].pc \notin Before
      PROVE  proc'[q].ev \in Settled'
  <2>1. proc'[q].ev # NoEvent /\ proc'[q].pc # "open"
    BY <1>1, SpillAssumption DEF Before
  <2>2. proc[q].ev = proc'[q].ev
    BY <1>1, <2>1 DEF Advances
  <2>3. CASE proc[q].pc \notin Before
    BY <1>1, <2>2, <2>3 DEF StopInv, SettledStays
  <2>4. CASE proc[q].pc \in Before
    <3>1. q = p
      BY <1>1, <2>4 DEF Advances
    <3>2. proc[q].ev \in Settled'
      BY <1>1, <2>1, <2>2, <2>4, <3>1 DEF Advances
    <3>3. QED
      BY <2>2, <3>2
  <2>5. QED
    BY <2>3, <2>4
<1>2. ASSUME NEW q \in Procs, kind = "stop", NEW e \in Events,
             proc[q].ev = e, proc'[q].pc = "ended", mishaps' = mishaps
      PROVE  e \in Settled'
  <2>1. CASE proc[q].pc \notin Before
    BY <1>2, <2>1 DEF StopInv, SettledStays
  <2>2. CASE proc[q].pc \in Before
    BY <1>2, <2>2 DEF Advances, Before
  <2>3. QED
    BY <2>1, <2>2
<1>3. StopInv'
  <2>1. Recorded'
    <3> SUFFICES ASSUME kind' = "stop", NEW q \in Procs, NEW e \in Events,
                        proc'[q].pc \in ReplaySteps, SessionOf[e] = proc'[q].session
                 PROVE  e \in stopped'
      BY DEF Recorded
    <3>1. CASE proc[q].pc \in ReplaySteps /\ proc'[q].session = proc[q].session
      BY <1>0, <3>1 DEF StopInv, Recorded, SettledStays
    <3>2. CASE ~(proc[q].pc \in ReplaySteps /\ proc'[q].session = proc[q].session)
      <4>1. q = p
        BY <3>2 DEF Advances
      <4> QED  BY <1>0, <3>2, <4>1 DEF Advances
    <3> QED  BY <3>1, <3>2
  <2> QED  BY <1>0, <1>1, <2>1 DEF StopInv
<1>4. ASSUME NEW q \in Procs, kind = "stop" PROVE Lands(q)
  <2>1. \A e \in Events : e \in Settled' => (e \in captured \/ Spilled(e))'
    BY DEF Settled
  <2>2. QED
    BY <1>2, <1>4, <2>1 DEF Lands
<1>5. QED
  BY <1>3, <1>4

(* What Goes does to the event. *)
LEMMA GoesAway ==
    ASSUME Types, NEW p \in Procs, NEW s \in Steps, Goes(p, s)
    PROVE  /\ \A q \in Procs \ {p} : proc'[q] = proc[q]
           /\ proc'[p].pc = s
           /\ s = "ended" => proc'[p].ev = NoEvent
           /\ s # "ended" => /\ proc'[p].ev = proc[p].ev
                             /\ proc'[p].session = proc[p].session
BY DEF Goes, Gone, Types, Process

(* The ledger grows and no reason is forgotten. *)
LEMMA QuietStays ==
    ASSUME captured \subseteq captured', why' = why,
           stopped \subseteq stopped', kind' = kind
    PROVE  SettledStays
BY DEF SettledStays, Settled, Spilled

(* Steps that begin after the event was settled. *)
LEMMA LaterAdvances ==
    ASSUME Types, NEW p \in Procs, proc[p].pc \notin Before,
           NEW s \in Steps, Goes(p, s),
           s \in ReplaySteps => proc[p].pc \in ReplaySteps
    PROVE  Advances(p)
BY GoesAway DEF Advances, ReplaySteps

(* What AdvanceLands asks of a step. *)
Lawful(p) == Advances(p) /\ SettledStays /\ mishaps' \in Nat

LEMMA LaterLawful ==
    ASSUME Types, StopInv, NEW p \in Procs, proc[p].pc \notin Before,
           NEW s \in Steps, Goes(p, s),
           s \in ReplaySteps => proc[p].pc \in ReplaySteps,
           UNCHANGED <<captured, stopped, kind, why>>,
           mishaps' = mishaps \/ Mishap
    PROVE  Lawful(p)
<1>1. mishaps' \in Nat
  BY DEF StopInv, Mishap
<1>2. QED
  BY <1>1, LaterAdvances, QuietStays DEF Lawful

LEMMA StartLawful ==
    ASSUME Types, StopInv, NEW p \in Procs, NEW e \in Events \union {NoEvent},
           NEW s \in Sessions \union {NoSession}, Start(p, e, s)
    PROVE  Lawful(p)
<1>1. Advances(p)
  BY DEF Start, Advances, Types, Process, Before, ReplaySteps
<1>2. SettledStays
  <2>1. UNCHANGED <<captured, stopped, kind>>
    BY DEF Start, ledger
  <2>2. \A x \in Events : Spilled(x) => Spilled(x)'
    BY SpillAssumption DEF Start, Spilled, Types
  <2>3. QED
    BY <2>1, <2>2 DEF SettledStays, Settled
<1>3. mishaps' \in Nat
  BY DEF Start, StopInv
<1>4. QED
  BY <1>1, <1>2, <1>3 DEF Lawful

(* The first steps: a Stop hook leaves them only with its event settled,   *)
(* or in a mishap.                                                         *)
LEMMA OpenLawful ==
    ASSUME Types, StopInv, NEW p \in Procs,
           Opens(p) \/ OpenFails(p) \/ RecordFails(p)
    PROVE  Lawful(p)
<1>1. UNCHANGED <<captured, stopped, kind, why, mishaps>>
  BY DEF Opens, OpenFails, RecordFails, ledger
<1>2. Advances(p)
  <2>1. CASE Opens(p)
    <3>1. kind \in Kinds
      BY DEF Types, LedgerTypes
    <3>2. CASE kind = "observe"
      <4>1. Goes(p, "scan") /\ "scan" \in Steps
        BY <2>1, <3>2 DEF Opens, Steps
      <4>2. QED
        BY <3>2, <4>1, GoesAway DEF Advances
    <3>3. CASE kind = "stop"
      <4>1. Goes(p, "record") /\ "record" \in (Steps \intersect Before) \ ReplaySteps
        BY <2>1, <3>3 DEF Opens, Steps, Before, ReplaySteps
      <4>2. QED
        BY <4>1, GoesAway DEF Advances
    <3>4. QED
      BY <3>1, <3>2, <3>3 DEF Kinds
  <2>2. CASE OpenFails(p)
    <3>1. Goes(p, "spill") /\ "spill" \in (Steps \intersect Before) \ ReplaySteps
      BY <2>2 DEF OpenFails, Steps, Before, ReplaySteps
    <3>2. QED
      BY <3>1, GoesAway DEF Advances
  <2>3. CASE RecordFails(p)
    <3>1. Goes(p, "respill") /\ "respill" \in (Steps \intersect Before) \ ReplaySteps
      BY <2>3 DEF RecordFails, Steps, Before, ReplaySteps
    <3>2. QED
      BY <3>1, GoesAway DEF Advances
  <2>4. QED
    BY <2>1, <2>2, <2>3
<1>3. QED
  BY <1>1, <1>2, QuietStays DEF Lawful, StopInv

LEMMA RecordsLawful ==
    ASSUME Types, StopInv, NEW p \in Procs, Records(p) \/ FollowUpFails(p)
    PROVE  Lawful(p)
<1>1. /\ UNCHANGED <<kind, why, mishaps>> /\ stopped \subseteq stopped'
      /\ captured' = captured \union ({proc[p].ev} \ {NoEvent})
      /\ \A e \in Events : SessionOf[e] = proc[p].session => e \in stopped'
  BY CapturesFacts DEF Records, FollowUpFails, Captures
<1>2. proc[p].ev \in Events => proc[p].ev \in Settled'
  BY <1>1, SpillAssumption DEF Settled
<1>3. PICK s \in {"ended", "scan", "respill"} : Goes(p, s)
  BY DEF Records, FollowUpFails
<1>4. Advances(p)
  BY <1>1, <1>2, <1>3, GoesAway DEF Advances, Steps, ReplaySteps
<1>5. QED
  BY <1>1, <1>4, QuietStays DEF Lawful, StopInv

LEMMA SpillsLawful ==
    ASSUME SInv, StopInv, NEW p \in Procs, Spills(p)
    PROVE  Lawful(p)
<1>1. Types /\ proc[p].ev \in Events
  BY OwnAccount DEF SInv, ClaimAccounted, Spills
<1>2. /\ UNCHANGED <<captured, stopped, kind, mishaps>>
      /\ why' = [why EXCEPT ![proc[p].ev] = Reason(p)]
      /\ Reason(p) \in {"open", "record", "stop"}
  BY DEF Spills, ledger, Reason
<1>3. \A e \in Events : Spilled(e) \/ e = proc[p].ev => Spilled(e)'
  BY <1>1, <1>2 DEF Spilled, Types
<1>4. SettledStays /\ proc[p].ev \in Settled'
  BY <1>1, <1>2, <1>3 DEF SettledStays, Settled
<1>5. PICK s \in {"ended", "ledger"} : Goes(p, s)
  BY DEF Spills
<1>6. Advances(p)
  BY <1>1, <1>4, <1>5, GoesAway DEF Advances, Steps, ReplaySteps
<1>7. QED
  BY <1>2, <1>4, <1>6 DEF Lawful, StopInv

LEMMA MishapLawful ==
    ASSUME Types, StopInv, NEW p \in Procs, SpillFails(p) \/ Crash(p)
    PROVE  Lawful(p)
<1>1. /\ UNCHANGED <<captured, stopped, kind, why>> /\ Goes(p, "ended")
      /\ mishaps' = mishaps + 1
  BY DEF SpillFails, Crash, ledger, Mishap
<1>2. mishaps' \in Nat /\ mishaps' # mishaps
  BY <1>1 DEF StopInv
<1>3. Advances(p)
  BY <1>1, <1>2, GoesAway DEF Advances, Steps, ReplaySteps
<1>4. QED
  BY <1>1, <1>2, <1>3, QuietStays DEF Lawful

(* All other steps come after the event was settled. *)
LEMMA ReplayLawful ==
    ASSUME Types, StopInv, NEW p \in Procs,
           \/ Read(p)
           \/ \E e \in Events : \/ Replays(p, e) \/ Discards(p, e)
                               \/ ReplayFails(p, e) \/ DeadLetter(p, e)
           \/ \E o \in Procs : RestoreOrphan(p, o)
    PROVE  Lawful(p)
<1>1. /\ captured \subseteq captured' /\ UNCHANGED <<stopped, kind, why, mishaps>>
      /\ proc[p].pc \notin Before /\ proc[p].pc \in ReplaySteps
  BY DEF Read, Replays, Discards, ReplayFails, DeadLetter, RestoreOrphan, ledger,
         Before, ReplaySteps
<1>2. /\ \A q \in Procs \ {p} : proc'[q] = proc[q]
      /\ proc'[p].ev = proc[p].ev /\ proc'[p].session = proc[p].session
  <2>1. proc[p] \in Process
    BY DEF Types
  <2>2. \E f \in Process : /\ proc' = [proc EXCEPT ![p] = f]
                           /\ f.ev = proc[p].ev /\ f.session = proc[p].session
    <3>1. CASE Read(p)
      <4> DEFINE f == [proc[p] EXCEPT !.pc = "replay",
                                      !.todo = [claimed[p] EXCEPT !.torn = FALSE]]
      <4>1. [claimed[p] EXCEPT !.torn = FALSE] \in File
        BY DEF Types, File
      <4>2. f \in Process /\ f.ev = proc[p].ev /\ f.session = proc[p].session
        BY <2>1, <4>1 DEF Process, Steps
      <4>3. proc' = [proc EXCEPT ![p] = f]
        BY <3>1 DEF Read, Types
      <4>4. QED
        BY <4>2, <4>3
    <3>2. ASSUME NEW e \in Events,
                 \/ Replays(p, e) \/ Discards(p, e)
                 \/ ReplayFails(p, e) \/ DeadLetter(p, e)
          PROVE  \E f \in Process : /\ proc' = [proc EXCEPT ![p] = f]
                                    /\ f.ev = proc[p].ev /\ f.session = proc[p].session
      <4>1. \E t \in File : proc' = [proc EXCEPT ![p] = [@ EXCEPT !.todo = t]]
        <5>1. [proc[p].todo EXCEPT !.good = @ \ {e}] \in File
          BY <2>1 DEF Process, File
        <5>2. [proc[p].todo EXCEPT !.bad = @ \ {e}] \in File
          BY <2>1 DEF Process, File
        <5>3. QED
          BY <3>2, <5>1, <5>2 DEF Replays, Discards, ReplayFails, DeadLetter, Handled
      <4>2. QED
        BY <2>1, <4>1 DEF Process
    <3>3. ASSUME NEW o \in Procs, RestoreOrphan(p, o)
          PROVE  \E f \in Process : /\ proc' = [proc EXCEPT ![p] = f]
                                    /\ f.ev = proc[p].ev /\ f.session = proc[p].session
      <4> DEFINE f == [proc[p] EXCEPT !.pc = "orphanRemove", !.cur = o]
      <4>1. f \in Process /\ f.ev = proc[p].ev /\ f.session = proc[p].session
        BY <2>1 DEF Process, Steps
      <4>2. QED
        BY <3>3, <4>1 DEF RestoreOrphan
    <3>4. QED
      BY <3>1, <3>2, <3>3
  <2>3. QED
    BY <2>2 DEF Types
<1>3. QED
  BY <1>1, <1>2, QuietStays DEF Lawful, Advances, StopInv

LEMMA LaterWorkLawful ==
    ASSUME Types, StopInv, NEW p \in Procs,
           \/ LedgerRow(p) \/ Scans(p) \/ RemoveOrphan(p) \/ TidyOrphan(p)
           \/ ScanEnds(p) \/ Claim(p) \/ Finishes(p) \/ FinishAppend(p)
           \/ FinishRemove(p) \/ Settle(p)
           \/ RestoreAppend(p) \/ RestoreRemove(p) \/ RestoreTidy(p)
    PROVE  Lawful(p)
<1>1. UNCHANGED <<captured, stopped, kind, why, mishaps>> /\ proc[p].pc \notin Before
  BY DEF LedgerRow, Scans, RemoveOrphan, TidyOrphan, ScanEnds, Claim, Finishes,
         FinishAppend, FinishRemove, Settle, RestoreAppend, RestoreRemove,
         RestoreTidy, ledger, Before
<1>2. \E s \in Steps : /\ Goes(p, s)
                       /\ s \in ReplaySteps => proc[p].pc \in ReplaySteps
  <2>1. AfterReplay(p) \in Steps \ ReplaySteps
    BY DEF AfterReplay, Steps, ReplaySteps
  <2>2. QED
    BY <2>1 DEF LedgerRow, Scans, RemoveOrphan, TidyOrphan, ScanEnds, Claim,
         Finishes, FinishAppend, FinishRemove, Settle, RestoreAppend,
         RestoreRemove, RestoreTidy, Steps, ReplaySteps
<1>3. QED
  BY <1>1, <1>2, LaterLawful

LEMMA LaterFailLawful ==
    ASSUME Types, StopInv, NEW p \in Procs,
           \/ ScanFails(p) \/ ReplayBreaks(p) \/ AppendTears(p)
           \/ \E o \in Procs : OrphanTears(p, o)
    PROVE  Lawful(p)
<1>1. /\ UNCHANGED <<captured, stopped, kind, why>> /\ proc[p].pc \notin Before
      /\ mishaps' = mishaps \/ Mishap
  BY DEF ScanFails, ReplayBreaks, AppendTears, OrphanTears, ledger, Before
<1>2. \E s \in Steps : Goes(p, s) /\ s \notin ReplaySteps
  BY DEF ScanFails, ReplayBreaks, AppendTears, OrphanTears, Steps, ReplaySteps
<1>3. QED
  BY <1>1, <1>2, LaterLawful

LEMMA NextLands ==
    ASSUME SInv, StopInv, Next
    PROVE  /\ StopInv'
           /\ kind = "stop" => \A q \in Procs : Lands(q)
<1>1. PICK p \in Procs :
        \/ \E e \in Events \union {NoEvent}, s \in Sessions \union {NoSession} : Start(p, e, s)
        \/ Works(p)
        \/ \E o \in Procs : RestoreOrphan(p, o)
        \/ Fails(p)
  BY DEF Next
<1>2. Types
  BY DEF SInv
<1>3. ASSUME Works(p) PROVE Lawful(p)
  BY <1>2, <1>3, OpenLawful, RecordsLawful, SpillsLawful, ReplayLawful,
     LaterWorkLawful DEF Works
<1>4. ASSUME Fails(p) PROVE Lawful(p)
  BY <1>2, <1>4, OpenLawful, RecordsLawful, MishapLawful, ReplayLawful, LaterFailLawful DEF Fails
<1>5. Lawful(p)
  BY <1>1, <1>2, <1>3, <1>4, StartLawful, ReplayLawful
<1>6. QED
  BY <1>5, AdvanceLands DEF Lawful

(* The inductive invariant of the Stop hooks. *)
LEMMA StopHolds == Spec => [](SInv /\ StopInv)
<1>1. Init => SInv /\ StopInv
  <2>1. ASSUME Init PROVE StopInv
    <3>1. \A p \in Procs : proc[p].pc = "ended" /\ proc[p].ev = NoEvent
      BY <2>1 DEF Init, Gone
    <3>2. QED
      BY <2>1, <3>1, SpillAssumption DEF Init, StopInv, Recorded, ReplaySteps
  <2>2. QED
    BY <2>1, SpillInit
<1>2. SInv /\ StopInv /\ [Next]_vars => (SInv /\ StopInv)'
  <2>1. SInv /\ StopInv /\ UNCHANGED vars => StopInv'
    BY DEF StopInv, Recorded, Settled, Spilled, vars
  <2>2. StopInv => Recorded
    BY DEF StopInv
  <2>3. QED
    BY <2>1, <2>2, SpillNext, SpillStutter, NextLands
<1>3. QED
  BY <1>1, <1>2, PTL DEF Spec

(* An event that was written to the spill file stays in one of its places  *)
(* for every number of hooks, whatever fails and whoever dies, or a Stop   *)
(* of its session is in the database: the append before every removal      *)
(* (spill_queue.rs 78-132), the lock around both and the order in which a  *)
(* Stop hook records and replays (summary_job/hook.rs 92-119) are what the *)
(* invariant needs.                                                        *)
THEOREM SpillSafety == Spec => []SpilledIsKept
<1>1. SInv => SpilledIsKept
  BY DEF SInv, KeptApart, SpilledIsKept, Safe, Kept, Standing
<1>2. QED
  BY <1>1, StopHolds, PTL

(* A Stop hook that neither dies nor fails to write the spill file leaves  *)
(* its event in the database or in the spill file when it ends, whatever   *)
(* happens to the events of others that it replays (summary_job/hook.rs    *)
(* 92-161).                                                                *)
THEOREM StopEventsLand == Spec => StopEventLands
<1>1. SInv /\ StopInv /\ [Next]_vars =>
        [kind = "stop" => \A p \in Procs : Lands(p)]_vars
  BY NextLands
<1>2. QED
  BY <1>1, StopHolds, PTL DEF Spec, StopEventLands

-----------------------------------------------------------------------------
(* Types.  That the count of unrecovered drop rows stays within the number *)
(* of events is more than a matter of types: a row is written by the one   *)
(* hook that spilled the event for it, and only once.                      *)

(* The events that have had their chance of a drop row.                    *)
Rowed == {e \in Events :
            /\ why[e] = "record"
            /\ \A p \in Procs : ~(proc[p].pc = "ledger" /\ proc[p].ev = e)}

Counted ==
    /\ recovered \subseteq Events
    /\ unrec \in Nat
    /\ unrec <= Cardinality(Rowed)
    /\ mishaps \in 0..MaxMishaps

(* How far a hook is with its event shows in why it was spilled. *)
Owned ==
    \A p \in Procs :
      /\ proc[p].pc = "ended" => proc[p].ev = NoEvent
      /\ proc[p].ev \in Events =>
           why[proc[p].ev] = IF proc[p].pc = "ledger" THEN "record" ELSE "live"

(* No event is in the hands of two hooks. *)
Apart ==
    \A p, q \in Procs : proc[p].ev \in Events /\ proc[p].ev = proc[q].ev => p = q

CountInv == SInv /\ Counted /\ Owned /\ Apart

LEMMA RowedFinite ==
    /\ IsFiniteSet(Rowed)
    /\ Cardinality(Rowed) \in Nat
    /\ Cardinality(Rowed) <= Cardinality(Events)
    /\ IsFiniteSet(Events) /\ Cardinality(Events) \in Nat
<1>1. IsFiniteSet(Events) /\ Rowed \subseteq Events
  BY SpillAssumption DEF Rowed
<1> QED  BY <1>1, FS_Subset, FS_CardinalityType

LEMMA RowedFiniteNext ==
    IsFiniteSet(Rowed') /\ Cardinality(Rowed') \in Nat
<1>1. IsFiniteSet(Events) /\ Rowed' \subseteq Events
  BY SpillAssumption DEF Rowed
<1> QED  BY <1>1, FS_Subset, FS_CardinalityType

(* As long as no event loses its chance the count stays within bounds... *)
LEMMA RowedGrows ==
    ASSUME Rowed \subseteq Rowed', unrec \in Nat, unrec <= Cardinality(Rowed),
           unrec' \in Nat, unrec' <= unrec
    PROVE  unrec' <= Cardinality(Rowed')
<1>1. Cardinality(Rowed) <= Cardinality(Rowed')
  BY RowedFiniteNext, FS_Subset
<1> QED  BY <1>1, RowedFinite, RowedFiniteNext

(* ... and an event that takes its chance makes room for one more row. *)
LEMMA RowedGains ==
    ASSUME Rowed \subseteq Rowed', unrec \in Nat, unrec <= Cardinality(Rowed),
           NEW e, e \in Rowed', e \notin Rowed,
           unrec' \in Nat, unrec' <= unrec + 1
    PROVE  unrec' <= Cardinality(Rowed')
<1>1. Cardinality(Rowed \union {e}) = Cardinality(Rowed) + 1
  BY RowedFinite, FS_AddElement
<1>2. Cardinality(Rowed \union {e}) <= Cardinality(Rowed')
  BY RowedFiniteNext, FS_Subset
<1>3. Cardinality(Rowed \union {e}) \in Nat
  BY <1>1, RowedFinite
<1> QED  BY <1>1, <1>2, <1>3, RowedFinite, RowedFiniteNext

-----------------------------------------------------------------------------
(* A step that moves one hook along or ends it, away from the drop row.    *)

Moved(p) ==
    /\ \A q \in Procs \ {p} : proc'[q] = proc[q]
    /\ why' = why
    /\ \/ proc'[p].pc = "ended" /\ proc'[p].ev = NoEvent
       \/ /\ proc'[p].ev = proc[p].ev
          /\ proc[p].pc \notin {"ended", "ledger"}
          /\ proc'[p].pc \notin {"ended", "ledger"}

LEMMA MovedKeeps ==
    ASSUME Owned, Apart, NEW p \in Procs, Moved(p)
    PROVE  Owned' /\ Apart' /\ Rowed \subseteq Rowed'
<1>1. Owned'
  BY SpillAssumption DEF Owned, Moved
<1>2. Apart'
  BY SpillAssumption DEF Apart, Moved
<1>3. ASSUME NEW e \in Rowed PROVE e \in Rowed'
  BY <1>3 DEF Rowed, Moved
<1> QED  BY <1>1, <1>2, <1>3

(* What the rest of the step may do to the counts. *)
Quiet ==
    /\ recovered' \subseteq Events
    /\ unrec' \in Nat /\ unrec' <= unrec
    /\ mishaps' \in 0..MaxMishaps

LEMMA MovedCounts ==
    ASSUME Counted, Owned, Apart, NEW p \in Procs, Moved(p), Quiet
    PROVE  Counted' /\ Owned' /\ Apart'
BY MovedKeeps, RowedGrows DEF Counted, Quiet

LEMMA GoesMoves ==
    ASSUME Types, NEW p \in Procs, NEW s \in Steps, Goes(p, s), why' = why,
           s = "ended" \/ (s # "ledger" /\ proc[p].pc \notin {"ended", "ledger"})
    PROVE  Moved(p)
BY GoesAway DEF Moved

LEMMA MishapQuiet ==
    ASSUME Counted, recovered' = recovered, unrec' = unrec,
           mishaps' = mishaps \/ Mishap
    PROVE  Quiet
BY SpillAssumption DEF Counted, Quiet, Mishap

(* What MovedCounts asks of a step. *)
Modest(p) == Moved(p) /\ Quiet

LEMMA GoesModest ==
    ASSUME Types, Counted, NEW p \in Procs, NEW s \in Steps, Goes(p, s),
           UNCHANGED <<why, recovered, unrec>>, mishaps' = mishaps \/ Mishap,
           s = "ended" \/ (s # "ledger" /\ proc[p].pc \notin {"ended", "ledger"})
    PROVE  Modest(p)
BY GoesMoves, MishapQuiet DEF Modest

LEMMA HookModest ==
    ASSUME Types, Counted, NEW p \in Procs,
           \/ Opens(p) \/ OpenFails(p) \/ Records(p) \/ RecordFails(p)
           \/ FollowUpFails(p) \/ SpillFails(p) \/ Crash(p)
    PROVE  Modest(p)
<1>1. UNCHANGED <<why, recovered, unrec>> /\ (mishaps' = mishaps \/ Mishap)
  BY DEF Opens, OpenFails, Records, RecordFails, FollowUpFails, Captures,
         SpillFails, Crash, ledger
<1>2. CASE SpillFails(p) \/ Crash(p)
  <2>1. Goes(p, "ended") /\ "ended" \in Steps
    BY <1>2 DEF SpillFails, Crash, Steps
  <2> QED  BY <1>1, <2>1, GoesModest
<1>3. CASE \/ Opens(p) \/ OpenFails(p) \/ Records(p) \/ RecordFails(p)
           \/ FollowUpFails(p)
  <2>1. \E s \in {"scan", "record", "spill", "ended", "respill"} : Goes(p, s)
    BY <1>3 DEF Opens, OpenFails, Records, RecordFails, FollowUpFails
  <2>2. proc[p].pc \notin {"ended", "ledger"}
    BY <1>3 DEF Opens, OpenFails, Records, RecordFails, FollowUpFails
  <2> QED  BY <1>1, <2>1, <2>2, GoesModest DEF Steps
<1> QED  BY <1>2, <1>3

LEMMA ClaimModest ==
    ASSUME Types, Counted, NEW p \in Procs,
           \/ Scans(p) \/ RemoveOrphan(p) \/ TidyOrphan(p) \/ ScanEnds(p)
           \/ Claim(p) \/ Finishes(p) \/ FinishAppend(p) \/ FinishRemove(p)
           \/ Settle(p) \/ RestoreAppend(p) \/ RestoreRemove(p) \/ RestoreTidy(p)
           \/ ScanFails(p) \/ ReplayBreaks(p) \/ AppendTears(p)
           \/ \E o \in Procs : OrphanTears(p, o)
    PROVE  Modest(p)
<1>1. /\ UNCHANGED <<why, recovered, unrec>> /\ (mishaps' = mishaps \/ Mishap)
      /\ proc[p].pc \notin {"ended", "ledger"}
  BY DEF Scans, RemoveOrphan, TidyOrphan, ScanEnds, Claim, Finishes,
         FinishAppend, FinishRemove, Settle, RestoreAppend, RestoreRemove,
         RestoreTidy, ScanFails, ReplayBreaks, AppendTears, OrphanTears, ledger
<1>2. \E s \in Steps \ {"ledger"} : Goes(p, s)
  <2>1. AfterReplay(p) \in Steps \ {"ledger"}
    BY DEF AfterReplay, Steps
  <2>2. CASE \/ Scans(p) \/ RemoveOrphan(p) \/ TidyOrphan(p) \/ ScanEnds(p)
             \/ Claim(p) \/ Finishes(p) \/ FinishAppend(p) \/ FinishRemove(p)
             \/ Settle(p) \/ RestoreAppend(p) \/ RestoreRemove(p) \/ RestoreTidy(p)
    BY <2>1, <2>2 DEF Scans, RemoveOrphan, TidyOrphan, ScanEnds, Claim, Finishes,
         FinishAppend, FinishRemove, Settle, RestoreAppend, RestoreRemove,
         RestoreTidy, Steps
  <2>3. CASE \/ ScanFails(p) \/ ReplayBreaks(p) \/ AppendTears(p)
             \/ \E o \in Procs : OrphanTears(p, o)
    BY <2>3 DEF ScanFails, ReplayBreaks, AppendTears, OrphanTears, Steps
  <2> QED  BY <2>2, <2>3
<1> QED  BY <1>1, <1>2, GoesModest

(* A step that only changes what the hook has in memory of its claim. *)
LEMMA InMemoryMoves ==
    ASSUME Types, NEW p \in Procs, NEW f,
           proc' = [proc EXCEPT ![p] = f], why' = why,
           f.ev = proc[p].ev, f.pc \notin {"ended", "ledger"},
           proc[p].pc \notin {"ended", "ledger"}
    PROVE  Moved(p)
BY DEF Types, Moved

LEMMA LineModest ==
    ASSUME Types, Counted, NEW p \in Procs, NEW e \in Events,
           \/ Replays(p, e) \/ Discards(p, e) \/ ReplayFails(p, e)
           \/ DeadLetter(p, e)
    PROVE  Modest(p)
<1>1. proc[p] \in Process /\ proc[p].pc = "replay" /\ UNCHANGED <<why, mishaps>>
  BY DEF Types, Replays, Discards, ReplayFails, DeadLetter
<1>2. Moved(p)
  <2>1. PICK t : proc' = [proc EXCEPT ![p] = [@ EXCEPT !.todo = t]]
    BY DEF Replays, Discards, ReplayFails, DeadLetter, Handled
  <2> DEFINE f == [proc[p] EXCEPT !.todo = t]
  <2>2. f.ev = proc[p].ev /\ f.pc = "replay"
    BY <1>1 DEF Process
  <2>3. proc' = [proc EXCEPT ![p] = f]
    BY <2>1
  <2> QED  BY <1>1, <2>2, <2>3, InMemoryMoves
<1>3. Quiet
  <2>1. recovered' \subseteq Events /\ unrec' \in Nat /\ unrec' <= unrec
    BY DEF Replays, Discards, ReplayFails, DeadLetter, ledger, Counted
  <2> QED  BY <1>1, <2>1 DEF Quiet, Counted
<1> QED  BY <1>2, <1>3 DEF Modest

LEMMA MemoryModest ==
    ASSUME Types, Counted, NEW p \in Procs,
           Read(p) \/ \E o \in Procs : RestoreOrphan(p, o)
    PROVE  Modest(p)
<1>1. proc[p] \in Process /\ UNCHANGED <<why, recovered, unrec, mishaps>>
  BY DEF Types, Read, RestoreOrphan, ledger
<1>2. Quiet
  BY <1>1, MishapQuiet
<1>3. CASE Read(p)
  <2> DEFINE f == [proc[p] EXCEPT !.pc = "replay",
                                  !.todo = [claimed[p] EXCEPT !.torn = FALSE]]
  <2>1. f.ev = proc[p].ev /\ f.pc = "replay"
    BY <1>1 DEF Process
  <2>2. proc' = [proc EXCEPT ![p] = f] /\ proc[p].pc = "read"
    BY <1>3 DEF Read, Types
  <2> QED  BY <1>1, <1>2, <2>1, <2>2, InMemoryMoves DEF Modest
<1>4. ASSUME NEW o \in Procs, RestoreOrphan(p, o) PROVE Modest(p)
  <2> DEFINE f == [proc[p] EXCEPT !.pc = "orphanRemove", !.cur = o]
  <2>1. f.ev = proc[p].ev /\ f.pc = "orphanRemove"
    BY <1>1 DEF Process
  <2>2. proc' = [proc EXCEPT ![p] = f] /\ proc[p].pc = "orphans"
    BY <1>4 DEF RestoreOrphan
  <2> QED  BY <1>1, <1>2, <2>1, <2>2, InMemoryMoves DEF Modest
<1> QED  BY <1>3, <1>4

-----------------------------------------------------------------------------
(* The three steps that start a hook, spill its event and write its row.   *)

LEMMA StartCounts ==
    ASSUME Types, Counted, Owned, Apart, NEW p \in Procs,
           NEW e \in Events \union {NoEvent},
           NEW s \in Sessions \union {NoSession}, Start(p, e, s)
    PROVE  Counted' /\ Owned' /\ Apart'
<1>1. /\ \A q \in Procs \ {p} : proc'[q] = proc[q]
      /\ proc'[p].pc = "open" /\ proc'[p].ev = e
      /\ proc[p].pc = "ended"
      /\ why' = [x \in Events |-> IF x = e THEN "live" ELSE why[x]]
      /\ e \in Events => why[e] = "new"
      /\ UNCHANGED <<recovered, unrec, mishaps>>
  BY SpillAssumption DEF Start, Types, Process, ledger
<1>2. \A q \in Procs : e \in Events => proc[q].ev # e
  BY <1>1 DEF Owned
<1>3. Owned'
  <2>1. ASSUME NEW q \in Procs \ {p}, proc'[q].ev \in Events
        PROVE  why'[proc'[q].ev] = why[proc[q].ev]
    BY <1>1, <1>2, <2>1
  <2>2. ASSUME NEW q \in Procs \ {p}
        PROVE  /\ proc'[q].pc = "ended" => proc'[q].ev = NoEvent
               /\ proc'[q].ev \in Events =>
                    why'[proc'[q].ev] = IF proc'[q].pc = "ledger" THEN "record" ELSE "live"
    BY <1>1, <2>1 DEF Owned
  <2>3. e \in Events => why'[e] = "live"
    BY <1>1
  <2> QED  BY <1>1, <2>2, <2>3 DEF Owned
<1>4. Apart'
  BY <1>1, <1>2 DEF Apart
<1>5. ASSUME NEW x \in Rowed PROVE x \in Rowed'
  <2>1. x \in Events /\ why[x] = "record" /\ why'[x] = "record"
    BY <1>1, <1>5 DEF Rowed
  <2>2. \A q \in Procs : ~(proc'[q].pc = "ledger" /\ proc'[q].ev = x)
    BY <1>1, <1>5 DEF Rowed
  <2> QED  BY <2>1, <2>2 DEF Rowed
<1>6. Counted'
  BY <1>1, <1>5, RowedGrows DEF Counted
<1> QED  BY <1>3, <1>4, <1>6

LEMMA SpillsCounts ==
    ASSUME SInv, Counted, Owned, Apart, NEW p \in Procs, Spills(p)
    PROVE  Counted' /\ Owned' /\ Apart'
<1> DEFINE e == proc[p].ev
           s == IF Reason(p) = "record" THEN "ledger" ELSE "ended"
<1>1. Types /\ e \in Events /\ proc[p].pc \in {"spill", "respill"}
  BY OwnAccount DEF SInv, ClaimAccounted, Spills
<1>2. /\ why' = [why EXCEPT ![e] = Reason(p)]
      /\ Goes(p, s) /\ s \in Steps
      /\ UNCHANGED <<recovered, unrec, mishaps>>
  BY DEF Spills, ledger, Steps
<1> HIDE DEF e, s
<1>3. why[e] = "live"
  BY <1>1 DEF Owned, e
<1>4. /\ \A q \in Procs \ {p} : proc'[q] = proc[q] /\ proc[q].ev # e
      /\ s = "ended" => proc'[p].ev = NoEvent
      /\ s # "ended" => proc'[p].ev = e
      /\ proc'[p].pc = s
  <2>1. \A q \in Procs \ {p} : proc[q].ev # e
    BY <1>1 DEF Apart, e
  <2> QED  BY <1>1, <1>2, <2>1, GoesAway DEF e
<1>5. /\ \A x \in Events \ {e} : why'[x] = why[x]
      /\ why'[e] = Reason(p)
  BY <1>1, <1>2 DEF Types
<1>6. Owned'
  <2>1. \A q \in Procs \ {p} :
          /\ proc'[q].pc = "ended" => proc'[q].ev = NoEvent
          /\ proc'[q].ev \in Events =>
               why'[proc'[q].ev] = IF proc'[q].pc = "ledger" THEN "record" ELSE "live"
    BY <1>4, <1>5 DEF Owned
  <2>2. CASE Reason(p) = "record"
    BY <1>4, <1>5, <2>1, <2>2 DEF Owned, s
  <2>3. CASE Reason(p) # "record"
    BY <1>4, <2>1, <2>3, SpillAssumption DEF Owned, s
  <2> QED  BY <2>2, <2>3
<1>7. Apart'
  BY <1>4, SpillAssumption DEF Apart
<1>8. ASSUME NEW x \in Rowed PROVE x \in Rowed'
  <2>1. x \in Events /\ x # e /\ why'[x] = "record"
    BY <1>3, <1>5, <1>8 DEF Rowed
  <2>2. proc'[p].ev # x
    BY <1>4, <2>1, SpillAssumption
  <2>3. \A q \in Procs : ~(proc'[q].pc = "ledger" /\ proc'[q].ev = x)
    BY <1>4, <1>8, <2>2 DEF Rowed
  <2> QED  BY <2>1, <2>3 DEF Rowed
<1>9. Counted'
  BY <1>2, <1>8, RowedGrows DEF Counted
<1> QED  BY <1>6, <1>7, <1>9

LEMMA LedgerRowCounts ==
    ASSUME SInv, Counted, Owned, Apart, NEW p \in Procs, LedgerRow(p)
    PROVE  Counted' /\ Owned' /\ Apart'
<1> DEFINE e == proc[p].ev
<1>1. Types /\ e \in Events /\ proc[p].pc = "ledger"
  BY OwnAccount DEF SInv, ClaimAccounted, LedgerRow
<1>2. /\ Goes(p, "ended") /\ "ended" \in Steps
      /\ unrec' \in {unrec, unrec + 1}
      /\ UNCHANGED <<why, recovered, mishaps>>
  BY DEF LedgerRow, Steps
<1>3. Moved(p)
  BY <1>1, <1>2, GoesMoves
<1>4. Owned' /\ Apart' /\ Rowed \subseteq Rowed'
  BY <1>3, MovedKeeps
<1>5. e \in Rowed' /\ e \notin Rowed
  <2>1. why'[e] = "record"
    BY <1>1, <1>2 DEF Owned
  <2>2. proc'[p].ev = NoEvent
    BY <1>1, <1>2, GoesAway
  <2>3. \A q \in Procs \ {p} : proc'[q].ev # e
    BY <1>1, <1>3 DEF Apart, Moved
  <2>4. \A q \in Procs : ~(proc'[q].pc = "ledger" /\ proc'[q].ev = e)
    BY <1>1, <2>2, <2>3, SpillAssumption
  <2>5. e \in Rowed'
    BY <1>1, <2>1, <2>4 DEF Rowed
  <2>6. e \notin Rowed
    BY <1>1 DEF Rowed
  <2> QED  BY <2>5, <2>6
<1>6. unrec' \in Nat /\ unrec' <= unrec + 1
  BY <1>2 DEF Counted
<1>7. unrec' <= Cardinality(Rowed')
  BY <1>4, <1>5, <1>6, RowedGains DEF Counted
<1> QED  BY <1>2, <1>4, <1>6, <1>7 DEF Counted

LEMMA CountNext ==
    ASSUME CountInv, Recorded, Next
    PROVE  CountInv'
<1>1. PICK p \in Procs :
        \/ \E e \in Events \union {NoEvent}, s \in Sessions \union {NoSession} : Start(p, e, s)
        \/ Works(p)
        \/ \E o \in Procs : RestoreOrphan(p, o)
        \/ Fails(p)
  BY DEF Next
<1>2. SInv' /\ SInv /\ Types /\ Counted /\ Owned /\ Apart
  BY SpillNext DEF CountInv, SInv
<1>3. CASE \E e \in Events \union {NoEvent}, s \in Sessions \union {NoSession} : Start(p, e, s)
  BY <1>2, <1>3, StartCounts DEF CountInv
<1>4. CASE Spills(p)
  BY <1>2, <1>4, SpillsCounts DEF CountInv
<1>5. CASE LedgerRow(p)
  BY <1>2, <1>5, LedgerRowCounts DEF CountInv
<1>6. ASSUME Modest(p) PROVE CountInv'
  BY <1>2, <1>6, MovedCounts DEF CountInv, Modest
<1>7. CASE Works(p)
  BY <1>2, <1>4, <1>5, <1>6, <1>7, HookModest, ClaimModest, LineModest,
     MemoryModest DEF Works
<1>8. CASE Fails(p)
  BY <1>2, <1>6, <1>8, HookModest, ClaimModest, LineModest DEF Fails
<1>9. CASE \E o \in Procs : RestoreOrphan(p, o)
  BY <1>2, <1>6, <1>9, MemoryModest
<1> QED  BY <1>1, <1>3, <1>7, <1>8, <1>9

LEMMA CountInit == Init => CountInv
<1> SUFFICES ASSUME Init PROVE CountInv
  OBVIOUS
<1>1. SInv
  BY SpillInit
<1>2. \A p \in Procs : proc[p].pc = "ended" /\ proc[p].ev = NoEvent
  BY DEF Init, Gone
<1>3. Owned /\ Apart
  BY <1>2, SpillAssumption DEF Owned, Apart
<1>4. Counted
  BY RowedFinite, SpillAssumption DEF Init, Counted
<1> QED  BY <1>1, <1>3, <1>4 DEF CountInv

(* Every variable keeps its type; and there are never more unrecovered     *)
(* drop rows than events, however many hooks fail to record and whichever  *)
(* of them die: a hook writes the row of its own event once, after it      *)
(* spilled the event (observe/hook.rs 91-116), and a replay settles at     *)
(* most one (observe/spill.rs 269-306).                                    *)
THEOREM SpillTypes == Spec => []TypeOK
<1>1. CountInv => TypeOK
  <2> SUFFICES ASSUME CountInv PROVE TypeOK
    OBVIOUS
  <2>1. Types /\ Counted
    BY DEF CountInv, SInv
  <2>2. unrec \in 0..Cardinality(Events)
    BY <2>1, RowedFinite DEF Counted
  <2> QED  BY <2>1, <2>2 DEF TypeOK, Types, LedgerTypes, Process, Reasons, Counted
<1>2. CountInv /\ StopInv /\ [Next]_vars => CountInv'
  <2>1. ASSUME CountInv, UNCHANGED vars PROVE CountInv'
    <3>1. SInv'
      BY <2>1, SpillStutter DEF CountInv
    <3>2. Counted' /\ Owned' /\ Apart'
      BY <2>1 DEF CountInv, Counted, Owned, Apart, Rowed, vars
    <3> QED  BY <3>1, <3>2 DEF CountInv
  <2>2. StopInv => Recorded
    BY DEF StopInv
  <2> QED  BY <2>1, <2>2, CountNext
<1> QED  BY CountInit, StopHolds, <1>1, <1>2, PTL DEF Spec

=============================================================================
