----------------------------- MODULE DummyCurve -----------------------------
(* The curve of the default build: no slippage. *)
EXTENDS Integers

\* reserve_with_slippage = reserve
DummyPsi(b, l) == b

\* Saturating subtraction of unsigned integers.
DummyInverseDiagonal(b, l, capital_b) == IF capital_b >= b THEN capital_b - b ELSE 0

\* Signed subtraction, negative results become zero.
DummyInverseHorizontal(b, l, capital_b) == IF capital_b < b THEN 0 ELSE capital_b - b
=============================================================================
