------------------------------ MODULE MCSnapshot ------------------------------
(***************************************************************************)
(* Two specs of one process and one of another; the numbers 1, 1.0 and 2.  *)
(***************************************************************************)
EXTENDS SnapshotStore

Specs3    == {"a1", "a2", "b1"}
Processes2 == [s \in Specs3 |-> IF s = "b1" THEN "b" ELSE "a"]
Number(w, f) == [negative |-> FALSE, whole |-> w, fraction |-> f, exponent |-> 0]
One  == Number(<<1>>, <<>>)
OneO == Number(<<1>>, <<0>>)
Two  == Number(<<2>>, <<>>)
Stored  == {One, OneO, Two}
Numbers == {OneO, Two}
ByHand  == {Absent, Garbage, [n \in {"x", "y"} |-> One]}
Modes   == {{}, {"a"}, {"a", "b"}}

\* Two literals of at most two digits before and after the point, of either sign and with an exponent
\* in range, have one canonical form exactly when they are the same number.
Figures(low) == UNION {[1..n -> {0, 1}] : n \in low..2}
Written == [negative : BOOLEAN, whole : Figures(1), fraction : Figures(0), exponent : -2..2]
ASSUME CanonicalFormsAreExact ==
  \A k, l \in Written : canonicalizeNumber(k) = canonicalizeNumber(l) <=> SameNumber(k, l)
=============================================================================
