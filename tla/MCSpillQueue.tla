---------------------------- MODULE MCSpillQueue ----------------------------
(* Instances of SpillQueue for TLC. *)
EXTENDS SpillQueue

CONSTANTS p1, p2, e1, s1, s2    \* processes, an event and sessions

Two == {p1, p2}
One == {e1}
TwoSessions == {s1, s2}
OfTheFirst == [e \in One |-> s1]
Every == {"open", "record", "replay", "file", "torn"}
NotTorn == {"open", "record", "replay", "file"}
=============================================================================
