--------------------------- MODULE MCMemoryStore ---------------------------
(* An instance of MemoryStore for TLC: two topics whose key comes from the    *)
(* text and two that share one stable key.                                    *)
EXTENDS MemoryStore, TLC

CONSTANTS h1, h2, s1, s2, x, y, kx, ky, ks, o1, o2

MCTopics == {h1, h2, s1, s2}
MCTexts == {x, y}
MCKeys == {kx, ky, ks}
MCStable == {s1, s2}
MCKeyOf == [t \in MCTopics |-> [w \in MCTexts |->
              IF t \in MCStable THEN ks ELSE IF w = x THEN kx ELSE ky]]
MCGroupOf == [t \in MCTopics |-> IF t \in MCStable THEN "s" ELSE "h"]
MCWebOps == {o1, o2}

\* Texts trade places together with the keys derived from them.
Swap(a, b) == (a :> b) @@ (b :> a)
Same(S) == [v \in S |-> v]
Symmetry ==
    {a @@ b @@ c @@ d :
        a \in {Same({h1, h2}), Swap(h1, h2)},
        b \in {Same({s1, s2}), Swap(s1, s2)},
        c \in {Same({x, y, kx, ky}), Swap(x, y) @@ Swap(kx, ky)},
        d \in {Same({o1, o2}), Swap(o1, o2)}}
==============================================================================
