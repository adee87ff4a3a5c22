-------------------------- MODULE CoalescedRequest --------------------------
(***************************************************************************)
(* What remem's rule compilation promises about requests: many requests    *)
(* may share one run, but a run that has already begun never counts as the *)
(* answer to a request made after it began.                                *)
(***************************************************************************)
VARIABLES requested,   \* a run is owed that has not begun
          running      \* a run is in progress

vars == <<requested, running>>

Init == requested = FALSE /\ running = FALSE

Request == requested' = TRUE /\ UNCHANGED running

Begin ==
    /\ requested /\ ~running
    /\ requested' = FALSE
    /\ running' = TRUE

(* A run that completes, is given up, or leaves its work to the run that   *)
(* is already owed.                                                        *)
End ==
    /\ running
    /\ running' = FALSE
    /\ UNCHANGED requested

(* A run that has to be made again. *)
Again ==
    /\ running
    /\ running' = FALSE
    /\ requested' = TRUE

Next == Request \/ Begin \/ End \/ Again

Spec == Init /\ [][Next]_vars

=============================================================================
