------------------------- MODULE MCExtractionQueue -------------------------
(* Instances of ExtractionQueue for TLC. *)
EXTENDS ExtractionQueue

CONSTANTS daemon, once, exact    \* one process of each worker mode

TwoOrdinary == {daemon, once}
OnceAndExact == {once, exact}
NoneExact == {}
OnlyExact == {exact}
=============================================================================
