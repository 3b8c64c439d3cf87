------------------------- MODULE MCZoroPoolAccount -------------------------
(* Instances of ZoroPoolAccount for TLC. *)
EXTENDS ZoroPoolAccount, TLC

\* Pool states the operator passes: <<liabilities, reserve, reserve with slippage>>.
S(l, r, s) == [total_liabilities |-> l, reserve |-> r, reserve_with_slippage |-> s]

\* For a field of 7 elements: an empty pool, balanced pools, a reserve above the
\* reserve with slippage, an exceeded coverage ratio, and liabilities that double
\* to a small field element.
LpPoolArgs == {S(0, 0, 0), S(2, 2, 2), S(2, 3, 2), S(1, 2, 3), S(4, 2, 2)}

SwapPoolArgs == {S(1, 1, 1), S(1, 1, 2), S(1, 2, 1), S(1, 1, 3), S(3, 2, 2)}

Symm == Permutations(Users) \cup Permutations(Serials)
=============================================================================
