------------------------------ MODULE PoolMath ------------------------------
(***************************************************************************)
(* The arithmetic of the liquidity pools (PoolState and curve.rs), over    *)
(* any bonding curve.  Balances are unsigned integers that wrap at U256;   *)
(* U64 and the signed I256 are narrower.  Decimals of the assets and the   *)
(* price scale of 10^12 are one constant, PriceScale.                      *)
(***************************************************************************)
EXTENDS Integers

CONSTANTS
  U256,                      \* number of values of a U256
  U64,                       \* number of values of a u64
  PriceScale,                \* scaling_factor of get_curve_amount_out
  FeePrecision,              \* FEE_PRECISION
  SwapFee, BackstopFee,      \* PoolSettings, in units of FeePrecision
  Psi(_, _),                 \* Curve::psi(b, l)
  InverseDiagonal(_, _, _),  \* Curve::inverse_diagonal(b, l, capital_b)
  InverseHorizontal(_, _, _) \* Curve::inverse_horizontal(b, l, capital_b)

ASSUME PoolMathAssumption ==
  /\ U64 \in Nat \ {0}
  /\ U256 \in Nat \ {0}
  /\ U64 <= U256 /\ U64 * U64 <= U256
  /\ PriceScale \in Nat \ {0}
  /\ FeePrecision \in Nat \ {0}
  /\ SwapFee \in Nat
  /\ BackstopFee \in Nat

\* The operators of U256 wrap around.
Wrap(x) == x % U256

\* U256::saturating_to::<u64>, min and max.
Least(a, b)     == IF a <= b THEN a ELSE b
Greatest(a, b)  == IF a <= b THEN b ELSE a
SaturateU64(x)  == Least(x, U64 - 1)
FitsU64(x)      == x < U64
FitsI256(x)     == x < U256 \div 2

\* PoolState: the balances and the LP supply of one liquidity pool.
PoolState ==
  [total_liabilities : 0 .. U256 - 1, reserve : 0 .. U256 - 1,
   reserve_with_slippage : 0 .. U256 - 1, lp_total_supply : 0 .. U64 - 1]

-----------------------------------------------------------------------------
\* Fault: the LP amount is rounded up.
get_deposit_lp_amount_out_rounded_up(p, deposit_amount) ==
  LET rws == Wrap(p.reserve_with_slippage + deposit_amount)
      inc == Greatest(InverseDiagonal(p.reserve, p.total_liabilities, rws), deposit_amount)
      lp  == IF p.total_liabilities > 0
               THEN (inc * p.lp_total_supply + p.total_liabilities - 1) \div p.total_liabilities
               ELSE inc
  IN [amount_out |-> lp,
      pool |-> [total_liabilities |-> Wrap(p.total_liabilities + inc),
                reserve |-> Wrap(p.reserve + inc),
                reserve_with_slippage |-> rws,
                lp_total_supply |-> SaturateU64(p.lp_total_supply + lp)]]

\* LP shares for a deposit: the curve says by how much the reserve grows, never
\* by less than what is deposited; the shares keep the ratio of supply to
\* liabilities, rounded down.
get_deposit_lp_amount_out(p, deposit_amount) ==
  LET new_reserve_with_slippage == Wrap(p.reserve_with_slippage + deposit_amount)
      reserve_increment ==
        Greatest(InverseDiagonal(p.reserve, p.total_liabilities, new_reserve_with_slippage),
                 deposit_amount)
      new_lp_amount ==
        IF p.total_liabilities > 0
          THEN Wrap(reserve_increment * p.lp_total_supply) \div p.total_liabilities
          ELSE reserve_increment
  IN [amount_out |-> new_lp_amount,
      pool |-> [total_liabilities |-> Wrap(p.total_liabilities + reserve_increment),
                reserve |-> Wrap(p.reserve + reserve_increment),
                reserve_with_slippage |-> new_reserve_with_slippage,
                lp_total_supply |-> SaturateU64(p.lp_total_supply + new_lp_amount)]]

\* Fault: the LP supply is subtracted from without saturation.
lp_supply_after_withdraw_unsaturated(supply, withdraw_amount) == supply - withdraw_amount

\* U256::saturating_sub on the LP supply.
lp_supply_after_withdraw(supply, withdraw_amount) == Greatest(supply - withdraw_amount, 0)

\* What burning withdraw_amount of LP shares pays: the share of the liabilities,
\* less the slippage of the curve.
get_withdraw_asset_amount_out(p, withdraw_amount) ==
  LET reserve_decrement ==
        IF p.lp_total_supply = 0
          THEN 0
          ELSE Wrap(withdraw_amount * p.total_liabilities) \div p.lp_total_supply
      new_reserve == Wrap(p.reserve - reserve_decrement)
      new_total_liabilities == Wrap(p.total_liabilities - reserve_decrement)
      curve_reserve == Least(Psi(new_reserve, new_total_liabilities), p.reserve_with_slippage)
      payout_amount == Least(p.reserve_with_slippage - curve_reserve, reserve_decrement)
  IN [amount_out |-> payout_amount,
      pool |-> [total_liabilities |-> new_total_liabilities,
                reserve |-> new_reserve,
                reserve_with_slippage |-> p.reserve_with_slippage - payout_amount,
                lp_total_supply |-> lp_supply_after_withdraw(p.lp_total_supply, withdraw_amount)]]

\* The result of get_curve_amount_out: Ok with the amount and both pools, Err,
\* or a panic where a balance does not fit a signed integer.
CurveOk(amount_out, base, quote) ==
  [status |-> "Ok", amount_out |-> amount_out, base |-> base, quote |-> quote]
CurveErr(status, base, quote) ==
  [status |-> status, amount_out |-> 0, base |-> base, quote |-> quote]

\* The amount of the quote asset paid for amount_in of the base asset.
get_curve_amount_out(base, quote, amount_in, price) ==
  LET effective_amount_in ==
        InverseHorizontal(base.reserve, base.total_liabilities,
                          Wrap(base.reserve_with_slippage + amount_in))
      raw_amount_out == Wrap(effective_amount_in * price) \div PriceScale
      fee_amount == Wrap(raw_amount_out * BackstopFee) \div FeePrecision
      max_lp_fee == Wrap(raw_amount_out * SwapFee) \div FeePrecision
      reduced_reserve_out == Wrap(quote.reserve - raw_amount_out + fee_amount)
      actual_lp_fee_amount ==
        Least(InverseDiagonal(reduced_reserve_out, quote.total_liabilities,
                              quote.reserve_with_slippage),
              max_lp_fee)
      actual_reduced_reserve_out == Wrap(reduced_reserve_out + actual_lp_fee_amount)
      actual_total_liabilities_out == Wrap(quote.total_liabilities + actual_lp_fee_amount)
      after_amount_out ==
        Least(Psi(actual_reduced_reserve_out, actual_total_liabilities_out),
              quote.reserve_with_slippage)
  IN IF ~ /\ FitsI256(base.reserve)
          /\ FitsI256(base.total_liabilities)
          /\ FitsI256(Wrap(base.reserve_with_slippage + amount_in))
       THEN CurveErr("Panic", base, quote)
     ELSE IF Wrap(base.reserve + effective_amount_in) > Wrap(2 * base.total_liabilities)
       THEN CurveOk(0, base, quote)
     ELSE IF after_amount_out = 0
       THEN CurveErr("Err", base, quote)
     ELSE CurveOk(quote.reserve_with_slippage - after_amount_out,
                  [base EXCEPT !.reserve = Wrap(@ + effective_amount_in),
                               !.reserve_with_slippage = Wrap(@ + amount_in)],
                  [quote EXCEPT !.reserve = actual_reduced_reserve_out,
                                !.reserve_with_slippage = after_amount_out,
                                !.total_liabilities = actual_total_liabilities_out])
=============================================================================
