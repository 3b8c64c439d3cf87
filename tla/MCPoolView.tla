----------------------------- MODULE MCPoolView -----------------------------
(* Instances of PoolView for TLC, with the curve of the default build. *)
EXTENDS PoolView, DummyCurve, TLC

\* The pools differ only in their faucet, notes only in their serial number.
Symmetry == Permutations(Faucets) \cup Permutations(Serials)
=============================================================================
