----------------------------- MODULE MCJobQueue -----------------------------
(* Instances of JobQueue for TLC. *)
EXTENDS JobQueue

CONSTANTS daemon, once, alpha    \* processes; an AI profile

TwoWorkers == {daemon, once}
OneProfile == {alpha}
Everything == {"compile_rules", "cleanup", "dream", "ordinary"}
=============================================================================
