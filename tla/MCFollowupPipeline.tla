------------------------- MODULE MCFollowupPipeline -------------------------
(* Instances of FollowupPipeline for TLC. *)
EXTENDS FollowupPipeline

CONSTANTS daemon, once    \* two processes that drain the queue

BothWorkers == {daemon, once}
=============================================================================
