----------------------------- MODULE SpillQueue -----------------------------
(***************************************************************************)
(* The append-only file that hooks fall back to when an event cannot be    *)
(* written to the database, and its replay by later hooks.  The file is    *)
(* claimed by renaming it; what cannot be replayed goes to a second file   *)
(* that is appended to the active one when the claim is finished; the      *)
(* claim of a process that died is appended to the active file by the next *)
(* one.  Every append runs under a file lock that the system drops when    *)
(* the process dies.                                                       *)
(*                                                                         *)
(* There are two such files, capture-spill.jsonl of the observing hooks    *)
(* and summary-hook-spill.jsonl of the Stop hooks.  Each has a lock,       *)
(* claims and dead letters of its own and is replayed by the hooks of its  *)
(* kind only, so that a behaviour here is about one of the two.            *)
(*                                                                         *)
(* A file is the set of events with a whole line in it, the set of events  *)
(* whose line was glued to the end of a torn write, and whether it ends in *)
(* the middle of a line.  Several equal lines in a file are one.           *)
(***************************************************************************)
EXTENDS Naturals, FiniteSets

CONSTANTS Procs, Events, NoEvent,
          Sessions, NoSession,
          SessionOf,   \* the (host, project, session) identity of an event
          Faults,      \* which of "open", "record", "replay", "file",
                       \* "torn" may fail
          MaxMishaps   \* bound on process deaths and torn writes of a
                       \* process's own lines

ASSUME SpillAssumption ==
    /\ NoEvent \notin Events
    /\ NoSession \notin Sessions
    /\ SessionOf \in [Events -> Sessions]
    /\ IsFiniteSet(Events)
    /\ Faults \subseteq {"open", "record", "replay", "file", "torn"}
    /\ MaxMishaps \in Nat

VARIABLES kind,      \* whose file it is: an "observe" hook replays before it
                     \* records its event, a "stop" hook afterwards
          proc,      \* process -> where it is and what it has in memory: the
                     \* event it was started for, the session of a Stop hook,
                     \* the lines of its claim that it has not handled, the
                     \* process whose claim it restores
          active,    \* the spill file
          claimed,   \* the file a process has renamed it to
          failed,    \* what it could not replay
          captured,  \* events in the database
          dead,      \* events whose line is in the dead letter file
          why,       \* history: whether a hook was started for an event, and
                     \* which failure it was spilled for once it is in the file
                     \* ("stop" for every failure of a Stop hook)
          recovered, \* events with a drop row that says they were recovered
          unrec,     \* drop rows of failed captures that are not recovered
          superseded,\* history: events whose line a Stop hook of their session
                     \* took for an older state of its own and dropped
          stopped,   \* history: events of whose session a Stop hook has
                     \* recorded its own payload
          mishaps

files == <<active, claimed, failed>>
ledger == <<kind, captured, recovered, unrec, superseded, stopped>>
vars == <<kind, proc, active, claimed, failed, captured, dead, why,
          recovered, unrec, superseded, stopped, mishaps>>

File == [good : SUBSET Events, bad : SUBSET Events, torn : BOOLEAN]
Nothing == [good |-> {}, bad |-> {}, torn |-> FALSE]
Line(e) == [Nothing EXCEPT !.good = {e}]
In(f) == f.good \union f.bad

Steps == {"ended", "open", "spill", "respill", "ledger",
          "scan", "orphans", "orphanRemove", "orphanTidy",
          "claim", "read", "replay",
          "finish", "finishRemove", "settle",
          "restore", "restoreRemove", "restoreTidy", "record"}

Kinds == {"observe", "stop"}

Gone(p) == [pc |-> "ended", ev |-> NoEvent, session |-> NoSession,
            todo |-> Nothing, cur |-> p]

TypeOK ==
    /\ kind \in Kinds
    /\ proc \in [Procs -> [pc : Steps, ev : Events \union {NoEvent},
                          session : Sessions \union {NoSession},
                          todo : File, cur : Procs]]
    /\ active \in File
    /\ claimed \in [Procs -> File]
    /\ failed \in [Procs -> File]
    /\ captured \subseteq Events
    /\ dead \subseteq Events
    /\ why \in [Events -> {"new", "live", "open", "record", "stop"}]
    /\ recovered \subseteq Events
    /\ unrec \in 0..Cardinality(Events)
    /\ superseded \subseteq Events
    /\ stopped \subseteq Events
    /\ mishaps \in 0..MaxMishaps

Init ==
    /\ kind \in Kinds
    /\ proc = [p \in Procs |-> Gone(p)]
    /\ active = Nothing
    /\ claimed = [p \in Procs |-> Nothing]
    /\ failed = [p \in Procs |-> Nothing]
    /\ captured = {}
    /\ dead = {}
    /\ why = [e \in Events |-> "new"]
    /\ recovered = {}
    /\ unrec = 0
    /\ superseded = {}
    /\ stopped = {}
    /\ mishaps = 0

-----------------------------------------------------------------------------
(* Files *)

(* Whole lines after a torn one: the first of them ends the torn line.     *)
Glued(f, g) ==
    {[good |-> f.good \union (g.good \ {e}),
      bad |-> f.bad \union g.bad \union {e},
      torn |-> g.torn] : e \in g.good}

Joined(f, g) == [good |-> f.good \union g.good,
                 bad |-> f.bad \union g.bad,
                 torn |-> g.torn]

(* What the file f may be after the contents g were appended to it.        *)
Appended(f, g) ==
    IF f.torn /\ g # Nothing
    THEN Glued(f, g) \union
         (IF g.good = {} \/ g.bad # {} THEN {Joined(f, g)} ELSE {})
    ELSE {IF g = Nothing THEN f ELSE Joined(f, g)}

(* ... and after only a part of them was written.                          *)
Torn(f, g) ==
    UNION {Appended(f, h) :
             h \in {x \in File : /\ x.torn
                                 /\ x.good \subseteq g.good
                                 /\ x.bad \subseteq g.bad
                                 /\ x # [g EXCEPT !.torn = TRUE] \/ In(g) = {}}}

(* Steps that hold the lock from the one before; the others take it and    *)
(* give it back in one step.                                               *)
LockSteps == {"orphans", "orphanRemove", "orphanTidy",
              "finishRemove", "restoreRemove"}
Locked == \E p \in Procs : proc[p].pc \in LockSteps

(* What a process has in memory goes with it. *)
Goes(p, s) == proc' = [proc EXCEPT ![p] = IF s = "ended" THEN Gone(p)
                                          ELSE [@ EXCEPT !.pc = s]]

Mishap == mishaps < MaxMishaps /\ mishaps' = mishaps + 1

-----------------------------------------------------------------------------
(* The hook *)

(* A hook whose event is NoEvent is one whose own event does not matter    *)
(* here: it replays, and a Stop hook supersedes the lines of its session.  *)
(* The session of an observing hook plays no part.  A process that ended   *)
(* may have left a claim; its pid is not used again before the claim is    *)
(* restored.                                                               *)
Start(p, e, s) ==
    /\ proc[p].pc = "ended"
    /\ claimed[p] = Nothing
    /\ e \in Events => why[e] = "new"
    /\ IF kind = "observe" THEN s = NoSession
       ELSE s \in Sessions /\ (e \in Events => s = SessionOf[e])
    /\ proc' = [proc EXCEPT ![p] = [@ EXCEPT !.pc = "open", !.ev = e, !.session = s]]
    /\ why' = [x \in Events |-> IF x = e THEN "live" ELSE why[x]]
    /\ failed' = [failed EXCEPT ![p] = Nothing]
    /\ UNCHANGED <<active, claimed, dead, mishaps, ledger>>

(* Mutant: a Stop hook, too, replays before it records its own payload. *)
WrongOpensAndReplays(p) ==
    /\ proc[p].pc = "open"
    /\ Goes(p, "scan")
    /\ UNCHANGED <<dead, why, mishaps, files, ledger>>

Opens(p) ==
    /\ proc[p].pc = "open"
    /\ Goes(p, IF kind = "observe" THEN "scan" ELSE "record")
    /\ UNCHANGED <<dead, why, mishaps, files, ledger>>

(* The database does not open, or a Stop payload cannot be prepared for    *)
(* it; either way the event is spilled before anything is recorded.        *)
OpenFails(p) ==
    /\ proc[p].pc = "open"
    /\ "open" \in Faults
    /\ proc[p].ev # NoEvent
    /\ Goes(p, "spill")
    /\ UNCHANGED <<dead, why, mishaps, files, ledger>>

(* The capture and its projection are one savepoint. *)
Captures(p) ==
    /\ captured' = captured \union ({proc[p].ev} \ {NoEvent})
    /\ stopped' = stopped \union {e \in Events : SessionOf[e] = proc[p].session}
    /\ UNCHANGED <<kind, dead, why, recovered, unrec, superseded, mishaps, files>>

Records(p) ==
    /\ proc[p].pc = "record"
    /\ Captures(p)
    /\ Goes(p, IF kind = "observe" THEN "ended" ELSE "scan")

(* What comes after the savepoint fails (the native memory of a written    *)
(* file, the side effects of a Stop): an observing hook spills the event   *)
(* that it has captured, a Stop hook gives up without a replay.            *)
FollowUpFails(p) ==
    /\ proc[p].pc = "record"
    /\ "record" \in Faults
    /\ proc[p].ev # NoEvent
    /\ Captures(p)
    /\ Goes(p, IF kind = "observe" THEN "respill" ELSE "ended")

(* Mutant: a stop hook does not spill what it could not record. *)
WrongRecordFailsSilently(p) ==
    /\ proc[p].pc = "record"
    /\ "record" \in Faults
    /\ proc[p].ev # NoEvent
    /\ Goes(p, "scan")
    /\ UNCHANGED <<dead, why, mishaps, files, ledger>>

RecordFails(p) ==
    /\ proc[p].pc = "record"
    /\ "record" \in Faults
    /\ proc[p].ev # NoEvent
    /\ Goes(p, "respill")
    /\ UNCHANGED <<dead, why, mishaps, files, ledger>>

Reason(p) == IF kind = "stop" THEN "stop"
             ELSE IF proc[p].pc = "spill" THEN "open" ELSE "record"

(* spill_capture_event, after a failure to open or to record. *)
Spills(p) ==
    /\ proc[p].pc \in {"spill", "respill"}
    /\ ~Locked
    /\ active' \in Appended(active, Line(proc[p].ev))
    /\ why' = [why EXCEPT ![proc[p].ev] = Reason(p)]
    /\ Goes(p, IF Reason(p) = "record" THEN "ledger" ELSE "ended")
    /\ UNCHANGED <<claimed, failed, dead, mishaps, ledger>>

SpillFails(p) ==
    /\ proc[p].pc \in {"spill", "respill"}
    /\ "torn" \in Faults
    /\ Mishap
    /\ ~Locked
    /\ active' \in Torn(active, Line(proc[p].ev))
    /\ Goes(p, "ended")
    /\ UNCHANGED <<claimed, failed, dead, why, ledger>>

(* Mutant: the hook tries again after its row was written. *)
WrongLedgerRowAgain(p) ==
    /\ proc[p].pc = "ledger"
    /\ unrec' = unrec + 1
    /\ UNCHANGED <<kind, proc, captured, dead, why, recovered, superseded, stopped,
                   mishaps, files>>

(* The drop row is written after the event is in the file. *)
LedgerRow(p) ==
    /\ proc[p].pc = "ledger"
    /\ unrec' \in {unrec + 1} \union (IF "record" \in Faults THEN {unrec} ELSE {})
    /\ Goes(p, "ended")
    /\ UNCHANGED <<kind, captured, dead, why, recovered, superseded, stopped,
                   mishaps, files>>

-----------------------------------------------------------------------------
(* Replay: the claims of the dead, then the claim of the active file *)

Scans(p) ==
    /\ proc[p].pc = "scan"
    /\ ~Locked
    /\ Goes(p, "orphans")
    /\ UNCHANGED <<dead, why, mishaps, files, ledger>>

(* Mutant: orphans are never found. *)
WrongRestoreOrphanNever(p, o) ==
    /\ proc[p].pc = "orphans" /\ p = o /\ proc[o].pc = "ended"
    /\ UNCHANGED vars

(* A claim younger than a minute is passed over. *)
RestoreOrphan(p, o) ==
    /\ proc[p].pc = "orphans"
    /\ proc[o].pc = "ended"
    /\ claimed[o] # Nothing
    /\ active' \in Appended(active, claimed[o])
    /\ proc' = [proc EXCEPT ![p] = [@ EXCEPT !.pc = "orphanRemove", !.cur = o]]
    /\ UNCHANGED <<claimed, failed, dead, why, mishaps, ledger>>

RemoveOrphan(p) ==
    /\ proc[p].pc = "orphanRemove"
    /\ claimed' = [claimed EXCEPT ![proc[p].cur] = Nothing]
    /\ Goes(p, "orphanTidy")
    /\ UNCHANGED <<active, failed, dead, why, mishaps, ledger>>

TidyOrphan(p) ==
    /\ proc[p].pc = "orphanTidy"
    /\ failed' = [failed EXCEPT ![proc[p].cur] = Nothing]
    /\ Goes(p, "orphans")
    /\ UNCHANGED <<active, claimed, dead, why, mishaps, ledger>>

ScanEnds(p) ==
    /\ proc[p].pc = "orphans"
    /\ Goes(p, "claim")
    /\ UNCHANGED <<dead, why, mishaps, files, ledger>>

(* After the replay an observing hook records its event; a stop hook has   *)
(* done that before.                                                       *)
AfterReplay(p) == IF kind = "observe" THEN "record" ELSE "ended"

Claim(p) ==
    /\ proc[p].pc = "claim"
    /\ ~Locked
    /\ claimed' = [claimed EXCEPT ![p] = active]
    /\ active' = Nothing
    /\ Goes(p, IF active = Nothing THEN AfterReplay(p) ELSE "read")
    /\ UNCHANGED <<failed, dead, why, mishaps, ledger>>

Read(p) ==
    /\ proc[p].pc = "read"
    /\ proc' = [proc EXCEPT ![p].pc = "replay",
                            ![p].todo = [claimed[p] EXCEPT !.torn = FALSE]]
    /\ UNCHANGED <<dead, why, mishaps, files, ledger>>

Handled(p, e) == proc' = [proc EXCEPT ![p].todo.good = @ \ {e}]

(* A Stop hook has just recorded a payload of its own session, and takes a *)
(* spilled one of the same session for an older state of it.               *)
Supersedes(p, e) == kind = "stop" /\ SessionOf[e] = proc[p].session

(* An observing hook, in one transaction: the event, and the newest        *)
(* unrecovered drop row of its session and reason, or a new row.  An event *)
(* already recovered is left alone.  A Stop hook writes no drop rows.      *)
Replays(p, e) ==
    /\ proc[p].pc = "replay"
    /\ e \in proc[p].todo.good
    /\ ~Supersedes(p, e)
    /\ Handled(p, e)
    /\ captured' = captured \union {e}
    /\ recovered' = IF kind = "observe" THEN recovered \union {e} ELSE recovered
    /\ unrec' = IF e \in recovered' \ recovered /\ why[e] = "record" /\ unrec > 0
                THEN unrec - 1 ELSE unrec
    /\ UNCHANGED <<kind, dead, why, superseded, stopped, mishaps, files>>

(* The line counts as replayed; at most the commits it names are recorded, *)
(* as an event of their own.                                               *)
Discards(p, e) ==
    /\ proc[p].pc = "replay"
    /\ e \in proc[p].todo.good
    /\ Supersedes(p, e)
    /\ Handled(p, e)
    /\ superseded' = superseded \union {e}
    /\ UNCHANGED <<kind, captured, dead, why, recovered, unrec, stopped, mishaps, files>>

(* A Stop payload is not replayed in one transaction: its side effects may *)
(* fail when it is captured already.                                       *)
ReplayFails(p, e) ==
    /\ proc[p].pc = "replay"
    /\ "replay" \in Faults
    /\ e \in proc[p].todo.good
    /\ Handled(p, e)
    /\ failed' = [failed EXCEPT ![p].good = @ \union {e}]
    /\ \/ captured' = captured
       \/ kind = "stop" /\ ~Supersedes(p, e) /\ captured' = captured \union {e}
    /\ UNCHANGED <<kind, active, claimed, dead, why, recovered, unrec, superseded,
                   stopped, mishaps>>

DeadLetter(p, e) ==
    /\ proc[p].pc = "replay"
    /\ e \in proc[p].todo.bad
    /\ proc' = [proc EXCEPT ![p].todo.bad = @ \ {e}]
    /\ dead' = dead \union {e}
    /\ UNCHANGED <<why, mishaps, files, ledger>>

(* finish: failed lines back to the active file, then the claim goes. *)
Finishes(p) ==
    /\ proc[p].pc = "replay"
    /\ proc[p].todo = Nothing
    /\ Goes(p, IF failed[p] = Nothing THEN "settle" ELSE "finish")
    /\ UNCHANGED <<dead, why, mishaps, files, ledger>>

FinishAppend(p) ==
    /\ proc[p].pc = "finish"
    /\ ~Locked
    /\ active' \in Appended(active, failed[p])
    /\ Goes(p, "finishRemove")
    /\ UNCHANGED <<claimed, failed, dead, why, mishaps, ledger>>

FinishRemove(p) ==
    /\ proc[p].pc = "finishRemove"
    /\ failed' = [failed EXCEPT ![p] = Nothing]
    /\ Goes(p, "settle")
    /\ UNCHANGED <<active, claimed, dead, why, mishaps, ledger>>

Settle(p) ==
    /\ proc[p].pc = "settle"
    /\ claimed' = [claimed EXCEPT ![p] = Nothing]
    /\ Goes(p, AfterReplay(p))
    /\ UNCHANGED <<active, failed, dead, why, mishaps, ledger>>

-----------------------------------------------------------------------------
(* Failures of the file system, and deaths *)

(* Before it owns a claim the hook just ends. *)
ScanFails(p) ==
    /\ proc[p].pc \in {"scan", "orphans", "orphanRemove", "orphanTidy", "claim"}
    /\ "file" \in Faults
    /\ Goes(p, "ended")
    /\ UNCHANGED <<dead, why, mishaps, files, ledger>>

(* The claim stays for the next hook that looks. *)
OrphanTears(p, o) ==
    /\ proc[p].pc = "orphans"
    /\ proc[o].pc = "ended"
    /\ claimed[o] # Nothing
    /\ "torn" \in Faults
    /\ active' \in Torn(active, claimed[o])
    /\ Goes(p, "ended")
    /\ UNCHANGED <<claimed, failed, dead, why, mishaps, ledger>>

(* With a claim it restores the whole of it. *)
ReplayBreaks(p) ==
    /\ proc[p].pc \in {"read", "replay", "finish", "finishRemove", "settle"}
    /\ "file" \in Faults
    /\ Goes(p, "restore")
    /\ UNCHANGED <<dead, why, mishaps, files, ledger>>

(* Mutant: the error of an append is not looked at. *)
WrongAppendTearsUnseen(p) ==
    /\ proc[p].pc \in {"finish", "restore"}
    /\ "torn" \in Faults
    /\ Mishap
    /\ ~Locked
    /\ active' \in Torn(active, IF proc[p].pc = "finish" THEN failed[p] ELSE claimed[p])
    /\ Goes(p, IF proc[p].pc = "finish" THEN "finishRemove" ELSE "restoreRemove")
    /\ UNCHANGED <<claimed, failed, dead, why, ledger>>

(* An append that fails half-way.  A restore is tried once more when the   *)
(* claim is dropped; then the claim is left behind.                        *)
AppendTears(p) ==
    /\ proc[p].pc \in {"finish", "restore"}
    /\ "torn" \in Faults
    /\ Mishap
    /\ ~Locked
    /\ active' \in Torn(active, IF proc[p].pc = "finish" THEN failed[p] ELSE claimed[p])
    /\ \/ Goes(p, "restore")
       \/ proc[p].pc = "restore" /\ Goes(p, "ended")
    /\ UNCHANGED <<claimed, failed, dead, why, ledger>>

RestoreAppend(p) ==
    /\ proc[p].pc = "restore"
    /\ ~Locked
    /\ active' \in Appended(active, claimed[p])
    /\ Goes(p, "restoreRemove")
    /\ UNCHANGED <<claimed, failed, dead, why, mishaps, ledger>>

RestoreRemove(p) ==
    /\ proc[p].pc = "restoreRemove"
    /\ claimed' = [claimed EXCEPT ![p] = Nothing]
    /\ Goes(p, "restoreTidy")
    /\ UNCHANGED <<active, failed, dead, why, mishaps, ledger>>

RestoreTidy(p) ==
    /\ proc[p].pc = "restoreTidy"
    /\ failed' = [failed EXCEPT ![p] = Nothing]
    /\ Goes(p, "ended")
    /\ UNCHANGED <<active, claimed, dead, why, mishaps, ledger>>

Crash(p) ==
    /\ proc[p].pc # "ended"
    /\ Mishap
    /\ Goes(p, "ended")
    /\ UNCHANGED <<dead, why, files, ledger>>

-----------------------------------------------------------------------------
Works(p) ==
    \/ Opens(p) \/ Records(p) \/ Spills(p) \/ LedgerRow(p)
    \/ Scans(p) \/ RemoveOrphan(p) \/ TidyOrphan(p) \/ ScanEnds(p)
    \/ Claim(p) \/ Read(p)
    \/ \E e \in Events : Replays(p, e) \/ Discards(p, e) \/ DeadLetter(p, e)
    \/ Finishes(p) \/ FinishAppend(p) \/ FinishRemove(p) \/ Settle(p)
    \/ RestoreAppend(p) \/ RestoreRemove(p) \/ RestoreTidy(p)

Fails(p) ==
    \/ OpenFails(p) \/ RecordFails(p) \/ FollowUpFails(p) \/ SpillFails(p)
    \/ \E e \in Events : ReplayFails(p, e)
    \/ ScanFails(p) \/ ReplayBreaks(p) \/ AppendTears(p) \/ Crash(p)
    \/ \E o \in Procs : OrphanTears(p, o)

Next ==
    \E p \in Procs :
      \/ \E e \in Events \union {NoEvent}, s \in Sessions \union {NoSession} : Start(p, e, s)
      \/ Works(p)
      \/ \E o \in Procs : RestoreOrphan(p, o)
      \/ Fails(p)

Spec == Init /\ [][Next]_vars

-----------------------------------------------------------------------------
(* Safety *)

Spilled(e) == why[e] \in {"open", "record", "stop"}

(* An event that was appended to its spill file is in the database, in the *)
(* dead letter file, in the active file or in a claim, whatever fails and  *)
(* whichever processes die between two steps (spill_queue.rs 78-132 and    *)
(* 208-231).  A Stop payload may be gone from all of them, but only after  *)
(* another Stop of its session is in the database: the hook that drops the *)
(* line has recorded its own payload first (summary_job/hook.rs 92-119).   *)
SpilledIsKept ==
    \A e \in Events :
      Spilled(e) =>
        \/ e \in captured \union dead \union In(active)
                \union UNION {In(claimed[p]) : p \in Procs}
        \/ e \in superseded \intersect stopped

(* "Every accepted event lands in captured_events or an explicit           *)
(* aggregate/drop record" (SPEC-memory-system-v2-no-compat): a hook that   *)
(* neither dies nor fails to write the spill file has recorded its event   *)
(* or spilled it when it ends.                                             *)
Lands(p) ==
    \A e \in Events :
      proc[p].ev = e /\ proc'[p].pc = "ended" /\ mishaps' = mishaps
        => (e \in captured \/ Spilled(e))'

AcceptedEventLands == [][\A p \in Procs : Lands(p)]_vars

(* Stop hooks keep that for the event they were started for: it is         *)
(* recorded or spilled before they touch the spilled events of others      *)
(* (summary_job/hook.rs 92-161).                                           *)
StopEventLands ==
    [][kind = "stop" => \A p \in Procs : Lands(p)]_vars

-----------------------------------------------------------------------------
(* Liveness *)

(* Processes take their next step, also when they wait for the file lock,  *)
(* which the system hands on in turn; hooks of the kind the file belongs   *)
(* to keep coming, and the claim of an ended process grows old enough to   *)
(* be restored by a hook that looks.                                       *)
FairSpec ==
    /\ Spec
    /\ \A p \in Procs : SF_vars(Works(p))
    /\ WF_vars(\E p \in Procs, s \in Sessions \union {NoSession} : Start(p, NoEvent, s))
    /\ SF_vars(\E p, o \in Procs : RestoreOrphan(p, o))

(* If in the end nothing fails any more, every spilled event reaches the   *)
(* database or the dead letter file, or, a Stop payload only, is dropped   *)
(* by a later hook of its session: none stays in a file for ever.          *)
SpilledIsDelivered ==
    <>[][~ \E p \in Procs : Fails(p)]_vars =>
      \A e \in Events :
        Spilled(e) ~> \/ e \in captured \union dead
                      \/ kind = "stop" /\ e \in superseded

=============================================================================
