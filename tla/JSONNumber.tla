------------------------------- MODULE JSONNumber -------------------------------
(***************************************************************************)
(* Number literals of JSON and the exact form in which two of them are     *)
(* compared (snapshots/normalize.go).  A literal is its sign, the digits   *)
(* before and after the point, and its exponent.                           *)
(***************************************************************************)
EXTENDS Integers, Sequences

CONSTANT MaxExponent   \* the largest exponent ParseInt takes (2^31 - 1)
ASSUME ExponentAssumption == MaxExponent \in Nat

Digits(l) == l.whole \o l.fraction
NonZero(d) == {i \in DOMAIN d : d[i] # 0}
FirstOf(S) == CHOOSE i \in S : \A j \in S : i <= j
LastOf(S)  == CHOOSE i \in S : \A j \in S : i >= j

\* The exponent of the digits that are left when those after the last-th are cut off as zeros.
Exponent(l, last) == l.exponent - Len(l.fraction) + (Len(Digits(l)) - last)

\* Zero has one form whatever its sign and scale; a literal with an exponent out of range is kept as it
\* is written.
canonicalizeNumber(l) ==
  LET d == Digits(l)
      S == NonZero(d)
  IN
  IF l.exponent > MaxExponent \/ l.exponent < -MaxExponent - 1 THEN [text |-> l]
  ELSE IF S = {} THEN [zero |-> TRUE]
  ELSE [negative |-> l.negative,
        digits   |-> SubSeq(d, FirstOf(S), LastOf(S)),
        exponent |-> Exponent(l, LastOf(S))]

-----------------------------------------------------------------------------
(* What it is for: the value of a literal is Mantissa * 10^Scale.          *)

Mantissa(l) == LET d == Digits(l)
                   f[i \in 0..Len(d)] == IF i = 0 THEN 0 ELSE 10 * f[i - 1] + d[i]
               IN  IF l.negative THEN -f[Len(d)] ELSE f[Len(d)]
Scale(l) == l.exponent - Len(l.fraction)
SameNumber(k, l) ==
  LET low == IF Scale(k) < Scale(l) THEN Scale(k) ELSE Scale(l)
  IN  Mantissa(k) * 10^(Scale(k) - low) = Mantissa(l) * 10^(Scale(l) - low)
=============================================================================
