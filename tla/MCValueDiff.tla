---------------------------- MODULE MCValueDiff -----------------------------
(* The heaps ValueDiff is checked on: two nodes of any shape, each of which *)
(* may reach the other, with maps of up to two keys; two keys look alike.   *)
EXTENDS ValueDiff

CONSTANTS nan, k1, k2

Sorted    == <<nan, k1, k2>>
KeyLabels == [k \in {nan, k1, k2} |-> IF k = nan THEN "NaN" ELSE "k"]
=============================================================================
