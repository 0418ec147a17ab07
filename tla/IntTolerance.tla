----------------------------- MODULE IntTolerance -----------------------------
(***************************************************************************)
(* The integer comparison of ToleranceIntApprox, on two's complement       *)
(* integers of any width: -Half .. Half - 1 stands for int64.              *)
(***************************************************************************)
EXTENDS Integers

CONSTANT Half  \* 2^63 in the code

ASSUME HalfAssumption == Half \in Nat /\ Half >= 2

Ints == (-Half)..(Half - 1)

\* The value of an int64 expression whose exact value is off by at most one
\* wrap.
Wrap(x) ==
  IF x >= Half THEN x - 2 * Half
  ELSE IF x < -Half THEN x + 2 * Half
  ELSE x

\* Mutant: a difference below zero is accepted whatever its size.
SignedDifference(x, y) == Wrap(x - y)

\* d := base.Int - got.Int; if d < 0 { d = -d }
Difference(x, y) ==
  LET d == Wrap(x - y)
  IN  IF d < 0 THEN Wrap(-d) ELSE d

\* Mutant: no tolerance at all.
IntExact(x, y) == Difference(x, y) < 1

IntApprox(x, y) == Difference(x, y) <= 1
=============================================================================
