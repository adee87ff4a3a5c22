----------------------------- MODULE EventLedger -----------------------------
(***************************************************************************)
(* What remem's extraction promises about captured events, without tasks,  *)
(* leases or ranges: an event is owed from the moment it is captured until *)
(* an extractor has processed it, and it is never owed a second time.      *)
(*                                                                         *)
(* Processing is at least once.  An event may be processed again while it  *)
(* is still owed (its range has not been closed yet), never afterwards.    *)
(***************************************************************************)
EXTENDS Naturals

CONSTANT Events

VARIABLES captured,   \* events a hook has recorded
          owed,       \* events the store still has to hand to an extractor
          processed   \* events an extractor has covered

vars == <<captured, owed, processed>>

TypeOK ==
    /\ captured \in SUBSET Events
    /\ owed \in SUBSET captured
    /\ processed \in SUBSET captured

Init ==
    /\ captured = {}
    /\ owed = {}
    /\ processed = {}

Capture(e) ==
    /\ e \in Events \ captured
    /\ captured' = captured \union {e}
    /\ owed' = owed \union {e}
    /\ UNCHANGED processed

(* An accepted completion covers events that are owed, and settles the     *)
(* debt for all of them (a primary task) or leaves it (a replay).          *)
Process(S, settled) ==
    /\ S \subseteq owed
    /\ settled \subseteq S
    /\ processed' = processed \union S
    /\ owed' = owed \ settled
    /\ UNCHANGED captured

(* A replay range is closed: all that it covered has been processed.       *)
Discharge(S) ==
    /\ S \subseteq owed \intersect processed
    /\ owed' = owed \ S
    /\ UNCHANGED <<captured, processed>>

Next ==
    \/ \E e \in Events : Capture(e)
    \/ \E S \in SUBSET owed : \E settled \in SUBSET S : Process(S, settled)
    \/ \E S \in SUBSET owed : Discharge(S)

Spec == Init /\ [][Next]_vars

=============================================================================
