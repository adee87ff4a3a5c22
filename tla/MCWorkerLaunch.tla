--------------------------- MODULE MCWorkerLaunch ---------------------------
(* Instances of WorkerLaunch for TLC. *)
EXTENDS WorkerLaunch, TLC

CONSTANTS p1, p2, p3    \* pids

Three == {p1, p2, p3}
Pids3 == Permutations(Three)
OldAndExact == {"old", "exact"}
OnlyOld == {"old"}
=============================================================================
