--------------------------- MODULE PoolViewProofs ---------------------------
(* Theorems about ZoroPool and PoolView: the operator's books and the account they are   *)
(* sent to, for any faucets, users, notes, prices, fees and bonding curve.               *)
EXTENDS PoolView, DummyCurve, ZoroPoolAccountProofs

\* The Curve trait: psi, inverse_diagonal and inverse_horizontal take and return U256.
CurveReturnsU256 ==
  \A b, l, capital_b \in 0 .. U256 - 1 :
    /\ Psi(b, l) \in 0 .. U256 - 1
    /\ InverseDiagonal(b, l, capital_b) \in 0 .. U256 - 1
    /\ InverseHorizontal(b, l, capital_b) \in 0 .. U256 - 1

-----------------------------------------------------------------------------
(* The arithmetic of the pools *)

\* The operators of U256 yield a U256.
LEMMA WrapTyped == ASSUME NEW x \in Int PROVE Wrap(x) \in 0 .. U256 - 1 /\ Wrap(x) \in Nat
  BY PoolMathAssumption DEF Wrap

\* A number that fits is not wrapped.
LEMMA WrapExact == ASSUME NEW x \in Nat, x < U256 PROVE Wrap(x) = x
  BY PoolMathAssumption DEF Wrap

\* Dividing does not make a number larger.
LEMMA Quotient == ASSUME NEW x \in Nat, NEW y \in Nat \ {0} PROVE x \div y \in Nat /\ x \div y <= x
  OBVIOUS

\* The products that occur are naturals.
LEMMA Product == ASSUME NEW x \in Nat, NEW y \in Nat PROVE x * y \in Nat
  OBVIOUS

\* The balances of a pool are naturals.
LEMMA PoolFields ==
  ASSUME NEW p \in PoolState
  PROVE  /\ p.total_liabilities \in 0 .. U256 - 1 /\ p.total_liabilities \in Nat
         /\ p.reserve \in 0 .. U256 - 1 /\ p.reserve \in Nat
         /\ p.reserve_with_slippage \in 0 .. U256 - 1 /\ p.reserve_with_slippage \in Nat
         /\ p.lp_total_supply \in 0 .. U64 - 1 /\ p.lp_total_supply \in Nat
  BY PoolMathAssumption DEF PoolState

\* A deposit keeps the pool a pool, and adds what is deposited to the reserve with slippage.
LEMMA DepositMath ==
  ASSUME CurveReturnsU256, NEW p \in PoolState, NEW a \in Nat
  PROVE  /\ get_deposit_lp_amount_out(p, a).amount_out \in Nat
         /\ get_deposit_lp_amount_out(p, a).pool \in PoolState
         /\ get_deposit_lp_amount_out(p, a).pool.reserve_with_slippage = Wrap(p.reserve_with_slippage + a)
<1> USE PoolMathAssumption
<1> DEFINE rws == Wrap(p.reserve_with_slippage + a)
           inc == Greatest(InverseDiagonal(p.reserve, p.total_liabilities, rws), a)
           lp == IF p.total_liabilities > 0
                   THEN Wrap(inc * p.lp_total_supply) \div p.total_liabilities
                   ELSE inc
<1>1. rws \in 0 .. U256 - 1
  BY PoolFields, WrapTyped
<1> HIDE DEF rws
<1>2. inc \in Nat
  <2>1. InverseDiagonal(p.reserve, p.total_liabilities, rws) \in 0 .. U256 - 1
    BY <1>1, PoolFields DEF CurveReturnsU256
  <2>2. InverseDiagonal(p.reserve, p.total_liabilities, rws) \in Nat
    BY <2>1
  <2>3. QED
    BY <2>2 DEF Greatest
<1> HIDE DEF inc
<1>3. Wrap(inc * p.lp_total_supply) \in Nat
  BY <1>2, Product, PoolFields, WrapTyped
<1>4. lp \in Nat
  BY <1>2, <1>3, PoolFields, Quotient
<1> HIDE DEF lp
<1>5. SaturateU64(p.lp_total_supply + lp) \in 0 .. U64 - 1
  BY <1>4, PoolFields DEF SaturateU64, Least
<1>6. Wrap(p.total_liabilities + inc) \in 0 .. U256 - 1 /\ Wrap(p.reserve + inc) \in 0 .. U256 - 1
  BY <1>2, PoolFields, WrapTyped
<1>7. get_deposit_lp_amount_out(p, a) =
        [amount_out |-> lp,
         pool |-> [total_liabilities |-> Wrap(p.total_liabilities + inc), reserve |-> Wrap(p.reserve + inc),
                   reserve_with_slippage |-> rws, lp_total_supply |-> SaturateU64(p.lp_total_supply + lp)]]
  BY DEF get_deposit_lp_amount_out, lp, inc, rws
<1>8. QED
  BY <1>1, <1>4, <1>5, <1>6, <1>7 DEF PoolState, rws

\* A withdrawal pays from the reserve with slippage, and at most that.
LEMMA WithdrawMath ==
  ASSUME CurveReturnsU256, NEW p \in PoolState, NEW a \in Nat
  PROVE  /\ get_withdraw_asset_amount_out(p, a).amount_out \in 0 .. p.reserve_with_slippage
         /\ get_withdraw_asset_amount_out(p, a).pool \in PoolState
         /\ get_withdraw_asset_amount_out(p, a).pool.reserve_with_slippage <= p.reserve_with_slippage
<1> USE PoolMathAssumption
<1> DEFINE dec == IF p.lp_total_supply = 0 THEN 0
                  ELSE Wrap(a * p.total_liabilities) \div p.lp_total_supply
           res == Wrap(p.reserve - dec)
           tl == Wrap(p.total_liabilities - dec)
           curve == Least(Psi(res, tl), p.reserve_with_slippage)
           pay == Least(p.reserve_with_slippage - curve, dec)
<1>1. dec \in Nat
  <2>1. Wrap(a * p.total_liabilities) \in Nat
    BY Product, PoolFields, WrapTyped
  <2>2. QED
    BY <2>1, PoolFields, Quotient
<1> HIDE DEF dec
<1>2. res \in 0 .. U256 - 1 /\ tl \in 0 .. U256 - 1
  BY <1>1, PoolFields, WrapTyped
<1> HIDE DEF res, tl
<1>3. curve \in 0 .. p.reserve_with_slippage
  <2>1. Psi(res, tl) \in 0 .. U256 - 1
    BY <1>2 DEF CurveReturnsU256
  <2>2. QED
    BY <2>1, PoolFields DEF Least
<1> HIDE DEF curve
<1>4. pay \in 0 .. p.reserve_with_slippage
  BY <1>1, <1>3, PoolFields DEF Least
<1> HIDE DEF pay
<1>5. lp_supply_after_withdraw(p.lp_total_supply, a) \in 0 .. U64 - 1
  BY PoolFields DEF lp_supply_after_withdraw, Greatest
<1>6. p.reserve_with_slippage - pay \in 0 .. p.reserve_with_slippage /\ p.reserve_with_slippage - pay \in 0 .. U256 - 1
  BY <1>4, PoolFields
<1>7. get_withdraw_asset_amount_out(p, a) =
        [amount_out |-> pay,
         pool |-> [total_liabilities |-> tl, reserve |-> res,
                   reserve_with_slippage |-> p.reserve_with_slippage - pay,
                   lp_total_supply |-> lp_supply_after_withdraw(p.lp_total_supply, a)]]
  BY DEF get_withdraw_asset_amount_out, pay, curve, tl, res, dec
<1>8. QED
  BY <1>2, <1>4, <1>5, <1>6, <1>7 DEF PoolState

\* A swap pays from the quote pool's reserve with slippage, and at most that; what is paid in
\* is added to the base pool's, unless the base pool is full.
LEMMA CurveMath ==
  ASSUME CurveReturnsU256, NEW base \in PoolState, NEW quote \in PoolState, NEW a \in Nat, NEW price \in Nat,
         NEW c, c = get_curve_amount_out(base, quote, a, price)
  PROVE  /\ c.amount_out \in 0 .. quote.reserve_with_slippage
         /\ c.base \in PoolState /\ c.quote \in PoolState
         /\ c.base.reserve_with_slippage \in {base.reserve_with_slippage, Wrap(base.reserve_with_slippage + a)}
         /\ c.quote.reserve_with_slippage <= quote.reserve_with_slippage
<1> USE PoolMathAssumption
<1> DEFINE rws == Wrap(base.reserve_with_slippage + a)
           eff == InverseHorizontal(base.reserve, base.total_liabilities, rws)
           raw == Wrap(eff * price) \div PriceScale
           fee == Wrap(raw * BackstopFee) \div FeePrecision
           maxlp == Wrap(raw * SwapFee) \div FeePrecision
           red == Wrap(quote.reserve - raw + fee)
           lp == Least(InverseDiagonal(red, quote.total_liabilities, quote.reserve_with_slippage), maxlp)
           res == Wrap(red + lp)
           tl == Wrap(quote.total_liabilities + lp)
           after == Least(Psi(res, tl), quote.reserve_with_slippage)
           b1 == [base EXCEPT !.reserve = Wrap(@ + eff), !.reserve_with_slippage = Wrap(@ + a)]
           q1 == [quote EXCEPT !.reserve = res, !.reserve_with_slippage = after, !.total_liabilities = tl]
<1>1. rws \in 0 .. U256 - 1
  BY PoolFields, WrapTyped
<1> HIDE DEF rws
<1>2. eff \in 0 .. U256 - 1 /\ eff \in Nat
  <2>1. eff \in 0 .. U256 - 1
    BY <1>1, PoolFields DEF CurveReturnsU256
  <2>2. QED
    BY <2>1
<1> HIDE DEF eff
<1>3. raw \in Nat
  <2>1. Wrap(eff * price) \in Nat
    BY <1>2, Product, WrapTyped
  <2>2. QED
    BY <2>1, Quotient
<1> HIDE DEF raw
<1>4. fee \in Nat /\ maxlp \in Nat
  <2>1. Wrap(raw * BackstopFee) \in Nat /\ Wrap(raw * SwapFee) \in Nat
    BY <1>3, Product, WrapTyped
  <2>2. QED
    BY <2>1, Quotient
<1> HIDE DEF fee, maxlp
<1>5. red \in 0 .. U256 - 1
  BY <1>3, <1>4, PoolFields, WrapTyped
<1> HIDE DEF red
<1>6. lp \in Nat
  <2>1. InverseDiagonal(red, quote.total_liabilities, quote.reserve_with_slippage) \in 0 .. U256 - 1
    BY <1>5, PoolFields DEF CurveReturnsU256
  <2>2. InverseDiagonal(red, quote.total_liabilities, quote.reserve_with_slippage) \in Nat
    BY <2>1
  <2>3. QED
    BY <1>4, <2>2 DEF Least
<1> HIDE DEF lp
<1>7. res \in 0 .. U256 - 1 /\ tl \in 0 .. U256 - 1
  <2>1. red \in Nat
    BY <1>5
  <2>2. QED
    BY <1>6, <2>1, PoolFields, WrapTyped
<1> HIDE DEF res, tl
<1>8. after \in 0 .. quote.reserve_with_slippage
  <2>1. Psi(res, tl) \in 0 .. U256 - 1
    BY <1>7 DEF CurveReturnsU256
  <2>2. QED
    BY <2>1, PoolFields DEF Least
<1> HIDE DEF after
<1>9. /\ b1 \in PoolState /\ b1.reserve_with_slippage = Wrap(base.reserve_with_slippage + a)
      /\ q1 \in PoolState /\ q1.reserve_with_slippage = after
  <2>1. Wrap(base.reserve + eff) \in 0 .. U256 - 1 /\ Wrap(base.reserve_with_slippage + a) \in 0 .. U256 - 1
    BY <1>2, PoolFields, WrapTyped
  <2>2. after \in 0 .. U256 - 1
    BY <1>8, PoolFields
  <2>3. b1 \in PoolState /\ b1.reserve_with_slippage = Wrap(base.reserve_with_slippage + a)
    BY <2>1 DEF PoolState
  <2>4. q1 \in PoolState /\ q1.reserve_with_slippage = after
    BY <1>7, <2>2 DEF PoolState
  <2>5. QED
    BY <2>3, <2>4
<1>10. \/ c.amount_out = 0 /\ c.base = base /\ c.quote = quote
       \/ c.amount_out = quote.reserve_with_slippage - after /\ c.base = b1 /\ c.quote = q1
  BY DEF get_curve_amount_out, CurveOk, CurveErr, b1, q1, after, res, tl, lp, red, fee, maxlp, raw, eff, rws
<1> HIDE DEF b1, q1
<1>11. QED
  BY <1>8, <1>9, <1>10, PoolFields

-----------------------------------------------------------------------------
(* The books and the account *)

\* The balance that pays for withdrawals and swaps fits a field element.
BooksFit == \A f \in Faucets : pool_states[f].reserve_with_slippage < P

\* What the account stores are field elements, and no balance exceeds the maximum.
AccountBounded ==
  /\ pool_state \in [Faucets -> AnyArgs]
  /\ \A f \in Faucets : vault[f] <= MaxAssetAmount

\* While the copy is fresh it is exact: nothing was saturated or reduced on the way.
MirrorExact == mirror = "fresh" => MirrorAgrees /\ BooksFit

\* The inductive invariant of ViewSpec.
ViewInv == CurveReturnsU256 /\ TypeOK /\ Solvent /\ AccountBounded /\ PoolTypeOK /\ MirrorExact

\* Arguments are field elements, and a balance that fits is passed as it is.
LEMMA ArgsTyped ==
  ASSUME NEW p \in PoolState
  PROVE  /\ ToArgs(p) \in AnyArgs
         /\ p.reserve_with_slippage < P => ToArgs(p).reserve_with_slippage = p.reserve_with_slippage
<1>1. \A x \in Nat : ToFelt(SaturateU64(x)) \in Felt
  <2> TAKE x \in Nat
  <2>1. SaturateU64(x) \in Nat
    BY PoolMathAssumption DEF SaturateU64, Least
  <2>2. QED
    BY <2>1, AccountAssumption DEF ToFelt, Felt
<1>2. \A x \in Nat : x < P => ToFelt(SaturateU64(x)) = x
  <2> SUFFICES ASSUME NEW x \in Nat, x < P PROVE ToFelt(SaturateU64(x)) = x
    OBVIOUS
  <2>1. SaturateU64(x) = x
    BY PoolMathAssumption, ZoroPoolAssumption, AccountAssumption DEF SaturateU64, Least
  <2>2. QED
    BY <2>1, AccountAssumption DEF ToFelt
<1>3. QED
  BY <1>1, <1>2, PoolFields DEF ToArgs, AnyArgs

\* An amount is passed as a field element, as it is when it fits.
LEMMA FeltOf ==
  ASSUME NEW x \in Nat
  PROVE  /\ ToFelt(x) \in Felt /\ ToFelt(x) \in Nat
         /\ x < P => ToFelt(x) = x
  BY AccountAssumption DEF ToFelt, Felt

\* Balances read from the account are those that are passed back to it.
LEMMA ReadBack ==
  ASSUME TypeOK, AccountBounded, NEW f \in Faucets
  PROVE  FromChain(f) \in PoolState /\ ToArgs(FromChain(f)) = pool_state[f]
         /\ FromChain(f).reserve_with_slippage < P
<1> DEFINE s == pool_state[f]
<1>1. s \in AnyArgs /\ lp_total_supply[f] \in Felt
  BY DEF AccountBounded, TypeOK
<1> HIDE DEF s
<1>2. s.total_liabilities \in Felt /\ s.reserve \in Felt /\ s.reserve_with_slippage \in Felt
  BY <1>1 DEF AnyArgs
<1>3. \A x \in Felt : x \in 0 .. U256 - 1 /\ x \in 0 .. U64 - 1 /\ x < P /\ ToFelt(SaturateU64(x)) = x
  <2> SUFFICES ASSUME NEW x \in Felt
               PROVE  x \in 0 .. U256 - 1 /\ x \in 0 .. U64 - 1 /\ x < P /\ ToFelt(SaturateU64(x)) = x
    OBVIOUS
  <2>1. x \in Nat /\ x < P
    BY AccountAssumption DEF Felt
  <2>2. SaturateU64(x) = x
    BY <2>1, PoolMathAssumption, ZoroPoolAssumption, AccountAssumption DEF SaturateU64, Least
  <2>3. ToFelt(x) = x
    BY <2>1, FeltOf
  <2>4. QED
    BY <2>1, <2>2, <2>3, PoolMathAssumption, ZoroPoolAssumption, AccountAssumption
<1>4. FromChain(f) = [total_liabilities |-> s.total_liabilities, reserve |-> s.reserve,
                      reserve_with_slippage |-> s.reserve_with_slippage,
                      lp_total_supply |-> lp_total_supply[f]]
  BY DEF FromChain, s
<1>5. FromChain(f) \in PoolState /\ FromChain(f).reserve_with_slippage < P
  BY <1>1, <1>2, <1>3, <1>4 DEF PoolState
<1>6. ToArgs(FromChain(f)) = s
  <2>1. ToArgs(FromChain(f)) = [total_liabilities |-> s.total_liabilities, reserve |-> s.reserve,
                                reserve_with_slippage |-> s.reserve_with_slippage]
    BY <1>2, <1>3, <1>4 DEF ToArgs
  <2>2. QED
    BY <1>1, <2>1 DEF AnyArgs
<1>7. QED
  BY <1>5, <1>6 DEF s

\* After a submission the books are the new or the old ones, and fresh only if they were
\* and they are the new ones.
LEMMA AfterSubmission ==
  ASSUME NEW new, Submitted(new)
  PROVE  /\ pool_states' \in {new, pool_states}
         /\ mirror' \in {mirror, "stale"}
         /\ mirror' = "fresh" => mirror = "fresh" /\ pool_states' = new
  BY DEF Submitted

\* What is received fits: a reserve that is exact stays so when a vault takes what is added.
LEMMA Received ==
  ASSUME ViewInv, mirror = "fresh", NEW f \in Faucets, NEW a \in Nat, vault[f] + a <= MaxAssetAmount
  PROVE  Wrap(pool_states[f].reserve_with_slippage + a) < P
<1>1. /\ pool_states[f] \in PoolState /\ ToArgs(pool_states[f]) = pool_state[f]
      /\ pool_states[f].reserve_with_slippage < P
  BY DEF ViewInv, PoolTypeOK, MirrorExact, MirrorAgrees, BooksFit
<1>2. vault[f] \in Nat /\ pool_state[f].reserve_with_slippage <= vault[f]
  BY DEF ViewInv, TypeOK, Solvent
<1>3. /\ pool_states[f].reserve_with_slippage \in Nat
      /\ pool_states[f].reserve_with_slippage = pool_state[f].reserve_with_slippage
  BY <1>1, PoolFields, ArgsTyped
<1>4. /\ pool_states[f].reserve_with_slippage + a < P
      /\ pool_states[f].reserve_with_slippage + a < U256
  BY <1>2, <1>3, PoolMathAssumption, ZoroPoolAssumption, AccountAssumption
<1>5. Wrap(pool_states[f].reserve_with_slippage + a) = pool_states[f].reserve_with_slippage + a
  BY <1>3, <1>4, WrapExact
<1>6. QED
  BY <1>4, <1>5

\* The operator's swap leaves the books and the account alike.
LEMMA SwapBooks ==
  ASSUME ViewInv, mirror = "fresh", NEW f \in Faucets, NEW g \in Faucets, NEW a \in Nat, NEW price \in Nat,
         NEW c, c = get_curve_amount_out(pool_states[f], pool_states[g], a, price), NEW amount_out,
         SwapOnPool(f, a, ToArgs(c.base), g, amount_out, ToArgs(c.quote)), NEW h \in Faucets
  PROVE  /\ ToArgs(AfterSwap(f, g, c)[h]) = pool_state'[h]
         /\ AfterSwap(f, g, c)[h].reserve_with_slippage < P
<1>1. /\ pool_states \in [Faucets -> PoolState]
      /\ \A x \in Faucets : ToArgs(pool_states[x]) = pool_state[x] /\ pool_states[x].reserve_with_slippage < P
  BY DEF ViewInv, PoolTypeOK, MirrorExact, MirrorAgrees, BooksFit
<1>2. /\ c.base.reserve_with_slippage \in {pool_states[f].reserve_with_slippage,
                                           Wrap(pool_states[f].reserve_with_slippage + a)}
      /\ c.quote.reserve_with_slippage <= pool_states[g].reserve_with_slippage
      /\ c.base \in PoolState /\ c.quote \in PoolState
  BY <1>1, CurveMath DEF ViewInv
<1>3. /\ vault[f] + a <= MaxAssetAmount
      /\ pool_state' = [pool_state EXCEPT ![f] = ToArgs(c.base), ![g] = ToArgs(c.quote)]
  BY DEF SwapOnPool, receive_asset_ok, add_asset_ok
<1>4. pool_state \in [Faucets -> AnyArgs] /\ vault[f] \in Nat /\ pool_state[f].reserve_with_slippage <= vault[f]
  BY DEF ViewInv, AccountBounded, TypeOK, Solvent
<1>5. c.base.reserve_with_slippage < P
  BY <1>1, <1>2, <1>3, Received
<1>6. c.quote.reserve_with_slippage < P
  BY <1>1, <1>2, PoolFields, AccountAssumption
<1>7. AfterSwap(f, g, c) = [pool_states EXCEPT ![f] = c.base, ![g] = c.quote]
  BY DEF AfterSwap
<1>8. CASE h = g
  BY <1>1, <1>3, <1>4, <1>6, <1>7, <1>8
<1>9. CASE h # g /\ h = f
  BY <1>1, <1>3, <1>4, <1>5, <1>7, <1>9
<1>10. CASE h # g /\ h # f
  BY <1>1, <1>3, <1>4, <1>7, <1>10
<1>11. QED
  BY <1>8, <1>9, <1>10

\* A step that leaves the books and the account's pool states alone.
LEMMA BooksUntouched ==
  ASSUME ViewInv, UNCHANGED <<pool_states, pool_state>>, mirror' \in {mirror, "stale"}, engine' \in {engine, "down"}
  PROVE  PoolTypeOK' /\ MirrorExact'
<1>1. PoolTypeOK'
  BY DEF ViewInv, PoolTypeOK
<1>2. MirrorExact'
  <2>1. ASSUME mirror' = "fresh" PROVE mirror = "fresh"
    BY <2>1
  <2>2. ASSUME \A f \in Faucets : ToArgs(pool_states[f]) = pool_state[f]
        PROVE  \A f \in Faucets : (ToArgs(pool_states[f]) = pool_state[f])'
    BY <2>2 DEF ToArgs, ToFelt, SaturateU64, Least
  <2>3. QED
    BY <2>1, <2>2 DEF ViewInv, MirrorExact, MirrorAgrees, BooksFit
<1>3. QED
  BY <1>1, <1>2

\* A submission keeps the books and the account alike when the new books are what the
\* account stores.
LEMMA BooksSubmitted ==
  ASSUME ViewInv, NEW new \in [Faucets -> PoolState], engine' = engine,
         pool_states' \in {new, pool_states}, mirror' \in {mirror, "stale"},
         mirror' = "fresh" => mirror = "fresh" /\ pool_states' = new,
         mirror = "fresh" => \A h \in Faucets : ToArgs(new[h]) = pool_state'[h] /\ new[h].reserve_with_slippage < P
  PROVE  PoolTypeOK' /\ MirrorExact'
<1>1. PoolTypeOK'
  BY DEF ViewInv, PoolTypeOK
<1>2. MirrorExact'
  <2>1. SUFFICES ASSUME mirror' = "fresh" PROVE MirrorAgrees' /\ BooksFit'
    BY DEF MirrorExact
  <2>2. pool_states' = new /\ \A h \in Faucets : ToArgs(new[h]) = pool_state'[h] /\ new[h].reserve_with_slippage < P
    BY <2>1
  <2>3. \A h \in Faucets : ToArgs(pool_states[h])' = pool_state'[h]
    BY <2>2 DEF ToArgs, ToFelt, SaturateU64, Least
  <2>4. QED
    BY <2>2, <2>3 DEF MirrorAgrees, BooksFit
<1>3. QED
  BY <1>1, <1>2

\* What an action of the server has to keep.
Kept == PoolTypeOK' /\ MirrorExact' /\ [AnyNext]_vars

\* A panic keeps the invariant.
LEMMA PanicKeeps == ASSUME ViewInv, Panic PROVE Kept
<1>1. PoolTypeOK' /\ MirrorExact'
  BY BooksUntouched DEF Panic, chain
<1>2. UNCHANGED vars
  BY DEF Panic, chain, vars
<1>3. QED
  BY <1>1, <1>2 DEF Kept

\* The notes and pools of the invariant.
LEMMA InvTypes ==
  ASSUME ViewInv
  PROVE  /\ notes \subseteq Note /\ pool_states \in [Faucets -> PoolState]
         /\ pool_state \in [Faucets -> AnyArgs] /\ vault \in [Faucets -> Nat]
         /\ TypeOK /\ CurveReturnsU256
         /\ mirror = "fresh" =>
              \A f \in Faucets : ToArgs(pool_states[f]) = pool_state[f] /\ pool_states[f].reserve_with_slippage < P
  BY DEF ViewInv, TypeOK, PoolTypeOK, AccountBounded, MirrorExact, MirrorAgrees, BooksFit

\* A deposit keeps the invariant.
LEMMA DepositKeeps ==
  ASSUME ViewInv, NEW n \in notes, NEW f \in Faucets, NEW past_deadline \in BOOLEAN,
         ExecuteDeposit(n, f, past_deadline)
  PROVE  Kept
<1> DEFINE e == get_deposit_lp_amount_out(pool_states[f], n.assets[f])
           new == [pool_states EXCEPT ![f] = e.pool]
<1>1. CASE Panic
  BY <1>1, PanicKeeps
<1>2. CASE ~ Panic
  <2>1. /\ f \in Attached(n)
        /\ ConsumeDeposit(n, ToFelt(n.assets[f]), ToArgs(e.pool))
        /\ Submitted(new)
        /\ engine' = engine
    BY <1>2 DEF ExecuteDeposit
  <2>2. n.assets \in [Faucets -> Nat] /\ n.assets[f] \in Nat
    BY InvTypes DEF Note
  <2>3. /\ e.pool \in PoolState
        /\ e.pool.reserve_with_slippage = Wrap(pool_states[f].reserve_with_slippage + n.assets[f])
    BY <2>2, InvTypes, DepositMath
  <2>4. new \in [Faucets -> PoolState]
    BY <2>3, InvTypes
  <2>5. new[f] = e.pool /\ \A h \in Faucets \ {f} : new[h] = pool_states[h]
    BY InvTypes
  <2> HIDE DEF e, new
  <2>6. ToFelt(n.assets[f]) \in Felt /\ ToArgs(e.pool) \in AnyArgs
    BY <2>2, <2>3, FeltOf, ArgsTyped
  <2>7. [AnyNext]_vars
    BY <2>1, <2>6 DEF AnyNext
  <2>8. OneAsset(n)
    BY <2>1 DEF ConsumeDeposit
  <2>9. PICK g \in Attached(n) : /\ receive_asset_ok(g, n.assets[g], ToArgs(e.pool), vault)
                                /\ pool_state' = [pool_state EXCEPT ![g] = ToArgs(e.pool)]
    BY <2>1 DEF ConsumeDeposit
  <2>10. g = f
    <3>1. \A h \in Faucets : h # f => n.assets[h] = 0
      BY <2>1, <2>8, InvTypes, OnlyAsset
    <3>2. g \in Faucets /\ n.assets[g] > 0
      BY DEF Attached
    <3>3. QED
      BY <3>1, <3>2
  <2>11. vault[f] + n.assets[f] <= MaxAssetAmount
    BY <2>9, <2>10 DEF receive_asset_ok, add_asset_ok
  <2>12. ASSUME mirror = "fresh", NEW h \in Faucets
         PROVE  ToArgs(new[h]) = pool_state'[h] /\ new[h].reserve_with_slippage < P
    <3>1. CASE h = f
      BY <2>2, <2>3, <2>5, <2>9, <2>10, <2>11, <2>12, <3>1, InvTypes, Received
    <3>2. CASE h # f
      BY <2>5, <2>9, <2>10, <2>12, <3>2, InvTypes
    <3>3. QED
      BY <3>1, <3>2
  <2>13. PoolTypeOK' /\ MirrorExact'
    BY <2>1, <2>4, <2>12, AfterSubmission, BooksSubmitted
  <2>14. QED
    BY <2>7, <2>13 DEF Kept
<1>3. QED
  BY <1>1, <1>2

\* A withdrawal keeps the invariant.
LEMMA WithdrawKeeps ==
  ASSUME ViewInv, NEW n \in notes, ExecuteWithdraw(n)
  PROVE  Kept
<1> DEFINE f == n.expected
           e == get_withdraw_asset_amount_out(pool_states[f], n.amount_input)
           new == [pool_states EXCEPT ![f] = e.pool]
<1>1. CASE Panic
  BY <1>1, PanicKeeps
<1>2. CASE ~ Panic
  <2>1. /\ ConsumeWithdraw(n, ToFelt(e.amount_out), ToArgs(e.pool))
        /\ Submitted(new)
        /\ engine' = engine
    BY <1>2 DEF ExecuteWithdraw
  <2>2. f \in Faucets /\ n.amount_input \in Nat
    BY InvTypes DEF Note
  <2> HIDE DEF f
  <2>3. /\ pool_states[f] \in PoolState /\ e.pool \in PoolState /\ e.amount_out \in Nat
        /\ e.pool.reserve_with_slippage <= pool_states[f].reserve_with_slippage
    <3>1. pool_states[f] \in PoolState
      BY <2>2, InvTypes
    <3>2. e.amount_out \in 0 .. pool_states[f].reserve_with_slippage /\ e.pool \in PoolState
          /\ e.pool.reserve_with_slippage <= pool_states[f].reserve_with_slippage
      BY <2>2, <3>1, InvTypes, WithdrawMath
    <3>3. QED
      BY <3>1, <3>2, PoolFields
  <2>4. new \in [Faucets -> PoolState] /\ new[f] = e.pool /\ \A h \in Faucets \ {f} : new[h] = pool_states[h]
    BY <2>2, <2>3, InvTypes
  <2> HIDE DEF e, new
  <2>5. ToFelt(e.amount_out) \in Felt /\ ToArgs(e.pool) \in AnyArgs
    BY <2>3, FeltOf, ArgsTyped
  <2>6. [AnyNext]_vars
    BY <2>1, <2>5 DEF AnyNext
  <2>7. pool_state' = [pool_state EXCEPT ![f] = ToArgs(e.pool)]
    BY <2>1 DEF ConsumeWithdraw, f
  <2>8. ASSUME mirror = "fresh", NEW h \in Faucets
        PROVE  ToArgs(new[h]) = pool_state'[h] /\ new[h].reserve_with_slippage < P
    <3>1. CASE h = f
      <4>1. pool_states[f].reserve_with_slippage < P
        BY <2>2, <2>8, InvTypes
      <4>2. e.pool.reserve_with_slippage < P
        BY <2>3, <4>1, PoolFields, AccountAssumption
      <4>3. QED
        BY <2>2, <2>4, <2>7, <3>1, <4>2, InvTypes
    <3>2. CASE h # f
      BY <2>4, <2>7, <2>8, <3>2, InvTypes
    <3>3. QED
      BY <3>1, <3>2
  <2>9. PoolTypeOK' /\ MirrorExact'
    BY <2>1, <2>4, <2>8, AfterSubmission, BooksSubmitted
  <2>10. QED
    BY <2>6, <2>9 DEF Kept
<1>3. QED
  BY <1>1, <1>2

\* Amounts out of the curve, and the books after a swap.
LEMMA SwapTyped ==
  ASSUME ViewInv, NEW f \in Faucets, NEW g \in Faucets, NEW a \in Nat, NEW price \in Nat,
         NEW c, c = get_curve_amount_out(pool_states[f], pool_states[g], a, price)
  PROVE  /\ c.amount_out \in Nat /\ c.amount_out <= pool_states[g].reserve_with_slippage
         /\ pool_states[g].reserve_with_slippage \in Nat
         /\ ToFelt(c.amount_out) \in Felt
         /\ ToArgs(c.base) \in AnyArgs /\ ToArgs(c.quote) \in AnyArgs
         /\ AfterSwap(f, g, c) \in [Faucets -> PoolState]
<1>1. pool_states[f] \in PoolState /\ pool_states[g] \in PoolState /\ CurveReturnsU256
  BY InvTypes
<1>2. /\ c.amount_out \in 0 .. pool_states[g].reserve_with_slippage
      /\ c.base \in PoolState /\ c.quote \in PoolState
  BY <1>1, CurveMath
<1>3. /\ c.amount_out \in Nat /\ c.amount_out <= pool_states[g].reserve_with_slippage
      /\ pool_states[g].reserve_with_slippage \in Nat
  BY <1>1, <1>2, PoolFields
<1>4. AfterSwap(f, g, c) \in [Faucets -> PoolState]
  BY <1>2, InvTypes DEF AfterSwap
<1>5. QED
  BY <1>2, <1>3, <1>4, FeltOf, ArgsTyped

\* A swap keeps the invariant, accepted or (with a minimum of 0) refused.
LEMMA SwapKeeps ==
  ASSUME ViewInv, NEW n \in notes, NEW f \in Faucets, NEW price \in Prices, NEW past_deadline \in BOOLEAN,
         ExecuteSwap(n, f, price, past_deadline)
  PROVE  Kept
<1> DEFINE g == n.expected
           c == get_curve_amount_out(pool_states[f], pool_states[g], n.assets[f], price)
           accepted == SwapAccepted(past_deadline, c.amount_out, n.min_amount_out)
<1>1. CASE Panic
  BY <1>1, PanicKeeps
<1>2. CASE ~ Panic
  <2>1. /\ f \in Attached(n) /\ n.kind = "ZOROSWAP"
        /\ ConsumeSwap(n, ToFelt(IF accepted THEN c.amount_out ELSE 0),
                       ToArgs(IF accepted THEN c.base ELSE pool_states[f]),
                       ToArgs(IF accepted THEN c.quote ELSE pool_states[g]))
        /\ Submitted(IF accepted THEN AfterSwap(f, g, c) ELSE pool_states)
        /\ engine' = engine
    BY <1>2 DEF ExecuteSwap
  <2>2. g \in Faucets /\ n.assets \in [Faucets -> Nat] /\ n.assets[f] \in Nat /\ price \in Nat
        /\ n.min_amount_out \in Nat
    BY InvTypes, ZoroPoolAssumption DEF Note
  <2> HIDE DEF g
  <2>3. /\ c.amount_out \in Nat /\ c.amount_out <= pool_states[g].reserve_with_slippage
        /\ pool_states[g].reserve_with_slippage \in Nat
        /\ ToFelt(c.amount_out) \in Felt
        /\ ToArgs(c.base) \in AnyArgs /\ ToArgs(c.quote) \in AnyArgs
        /\ AfterSwap(f, g, c) \in [Faucets -> PoolState]
    BY <2>2, SwapTyped
  <2>4. ASSUME mirror = "fresh", SwapOnPool(f, n.assets[f], ToArgs(c.base), g, ToFelt(c.amount_out), ToArgs(c.quote)),
               NEW h \in Faucets
        PROVE  /\ ToArgs(AfterSwap(f, g, c)[h]) = pool_state'[h]
               /\ AfterSwap(f, g, c)[h].reserve_with_slippage < P
    BY <2>2, <2>4, SwapBooks
  <2>5. c = get_curve_amount_out(pool_states[f], pool_states[g], n.assets[f], price)
    OBVIOUS
  <2> HIDE DEF c
  <2>6. ToFelt(0) = 0 /\ 0 \in Felt
    BY FeltOf, AccountAssumption DEF Felt
  <2>7. ToArgs(pool_states[f]) \in AnyArgs /\ ToArgs(pool_states[g]) \in AnyArgs
    BY <2>2, InvTypes, ArgsTyped
  <2>8. OneAsset(n)
    BY <2>1 DEF ConsumeSwap
  \* The attached asset is the one of f.
  <2>9. ASSUME NEW h \in Attached(n) PROVE h = f
    <3>1. \A x \in Faucets : x # f => n.assets[x] = 0
      BY <2>1, <2>8, InvTypes, OnlyAsset
    <3>2. h \in Faucets /\ n.assets[h] > 0
      BY DEF Attached
    <3>3. QED
      BY <3>1, <3>2
  <2>10. CASE accepted
    <3>1. /\ ConsumeSwap(n, ToFelt(c.amount_out), ToArgs(c.base), ToArgs(c.quote))
          /\ Submitted(AfterSwap(f, g, c))
      BY <2>1, <2>10
    <3>2. [AnyNext]_vars
      BY <2>3, <3>1 DEF AnyNext
    <3>3. ASSUME mirror = "fresh", NEW h \in Faucets
          PROVE  /\ ToArgs(AfterSwap(f, g, c)[h]) = pool_state'[h]
                 /\ AfterSwap(f, g, c)[h].reserve_with_slippage < P
      <4>1. PICK x \in Attached(n) :
              SwapOnPool(x, n.assets[x], ToArgs(c.base), n.expected, ToFelt(c.amount_out), ToArgs(c.quote))
        BY <3>1 DEF ConsumeSwap
      <4>2. SwapOnPool(f, n.assets[f], ToArgs(c.base), g, ToFelt(c.amount_out), ToArgs(c.quote))
        BY <2>9, <4>1 DEF g
      <4>3. QED
        BY <2>4, <3>3, <4>2
    <3>4. PoolTypeOK' /\ MirrorExact'
      BY <2>1, <2>3, <3>1, <3>3, AfterSubmission, BooksSubmitted
    <3>5. QED
      BY <3>2, <3>4 DEF Kept
  <2>11. CASE ~ accepted
    <3>1. /\ ConsumeSwap(n, 0, ToArgs(pool_states[f]), ToArgs(pool_states[g]))
          /\ Submitted(pool_states)
      BY <2>1, <2>6, <2>11
    <3>2. [AnyNext]_vars
      BY <2>6, <2>7, <3>1 DEF AnyNext
    <3>3. ASSUME mirror = "fresh", NEW h \in Faucets
          PROVE  ToArgs(pool_states[h]) = pool_state'[h] /\ pool_states[h].reserve_with_slippage < P
      <4>1. PICK x \in Attached(n) :
              SwapOnPool(x, n.assets[x], ToArgs(pool_states[f]), n.expected, 0, ToArgs(pool_states[g]))
        BY <3>1 DEF ConsumeSwap
      <4>2. pool_state' = [pool_state EXCEPT ![f] = ToArgs(pool_states[f]), ![g] = ToArgs(pool_states[g])]
        BY <2>9, <4>1 DEF SwapOnPool, g
      <4>3. QED
        BY <2>2, <3>3, <4>2, InvTypes
    <3>4. PoolTypeOK' /\ MirrorExact'
      BY <2>1, <3>1, <3>3, InvTypes, AfterSubmission, BooksSubmitted
    <3>5. QED
      BY <3>2, <3>4 DEF Kept
  <2>12. QED
    BY <2>10, <2>11
<1>3. QED
  BY <1>1, <1>2

\* A trade on a position keeps the invariant.
LEMMA PositionKeeps ==
  ASSUME ViewInv, NEW n \in notes, NEW price \in Prices, NEW past_deadline \in BOOLEAN,
         NEW sell \in Faucets, NEW buy \in Faucets, NEW sold \in Amounts, NEW minimum \in Amounts,
         NEW serial \in Serials,
         ExecutePosition(n, price, past_deadline, sell, sold, buy, minimum, serial)
  PROVE  Kept
<1> DEFINE c == get_curve_amount_out(pool_states[sell], pool_states[buy], sold, price)
           accepted == SwapAccepted(past_deadline, c.amount_out, minimum)
<1>1. CASE Panic
  BY <1>1, PanicKeeps
<1>2. CASE UNCHANGED <<pool_states, engine, mirror, chain>>
  <2>1. UNCHANGED vars /\ pool_state' = pool_state
    BY <1>2 DEF chain, vars
  <2>2. QED
    BY <1>2, <2>1, BooksUntouched DEF Kept
<1>3. CASE ~ Panic /\ ~ UNCHANGED <<pool_states, engine, mirror, chain>>
  <2>1. /\ accepted
        /\ ConsumePosition(n, ToFelt(c.amount_out), ToArgs(c.base), ToArgs(c.quote),
                           sell, sold, buy, minimum, serial)
        /\ Submitted(AfterSwap(sell, buy, c))
        /\ engine' = engine
    BY <1>3 DEF ExecutePosition
  <2>2. sold \in Nat /\ minimum \in Nat /\ sold \in Felt /\ minimum \in Felt /\ price \in Nat
    BY ArgumentTypes, ZoroPoolAssumption
  <2>3. /\ c.amount_out \in Nat /\ c.amount_out <= pool_states[buy].reserve_with_slippage
        /\ pool_states[buy].reserve_with_slippage \in Nat
        /\ ToFelt(c.amount_out) \in Felt
        /\ ToArgs(c.base) \in AnyArgs /\ ToArgs(c.quote) \in AnyArgs
        /\ AfterSwap(sell, buy, c) \in [Faucets -> PoolState]
    BY <2>2, SwapTyped
  <2>4. ASSUME mirror = "fresh", NEW h \in Faucets,
               SwapOnPool(sell, sold, ToArgs(c.base), buy, ToFelt(c.amount_out), ToArgs(c.quote))
        PROVE  /\ ToArgs(AfterSwap(sell, buy, c)[h]) = pool_state'[h]
               /\ AfterSwap(sell, buy, c)[h].reserve_with_slippage < P
    BY <2>2, <2>4, SwapBooks
  <2> HIDE DEF c
  <2>5. [AnyNext]_vars
    BY <2>1, <2>2, <2>3 DEF AnyNext
  <2>6. ASSUME mirror = "fresh", NEW h \in Faucets
        PROVE  /\ ToArgs(AfterSwap(sell, buy, c)[h]) = pool_state'[h]
               /\ AfterSwap(sell, buy, c)[h].reserve_with_slippage < P
    <3>1. c.amount_out < P
      <4>1. pool_states[buy].reserve_with_slippage < P
        BY <2>6, InvTypes
      <4>2. QED
        BY <2>3, <4>1, AccountAssumption
    <3>2. ToFelt(c.amount_out) = c.amount_out
      BY <2>3, <3>1, FeltOf
    <3>3. ~ MinimumNotMet(ToFelt(c.amount_out), minimum)
      BY <2>1, <2>2, <2>3, <3>2 DEF MinimumNotMet, SwapAccepted
    <3>4. SwapOnPool(sell, sold, ToArgs(c.base), buy, ToFelt(c.amount_out), ToArgs(c.quote))
      BY <2>1, <3>3 DEF ConsumePosition
    <3>5. QED
      BY <2>4, <2>6, <3>4
  <2>7. PoolTypeOK' /\ MirrorExact'
    BY <2>1, <2>3, <2>6, AfterSubmission, BooksSubmitted
  <2>8. QED
    BY <2>5, <2>7 DEF Kept
<1>4. QED
  BY <1>1, <1>2, <1>3

\* A restart keeps the invariant: the books are read from the account.
LEMMA RestartKeeps == ASSUME ViewInv, Restart PROVE Kept
<1>1. UNCHANGED vars /\ pool_state' = pool_state
  BY DEF Restart, chain, vars
<1>2. TypeOK /\ AccountBounded
  BY DEF ViewInv
<1>3. pool_states' = [f \in Faucets |-> FromChain(f)] /\ engine' = "up" /\ mirror' = "fresh"
  BY DEF Restart
<1>4. \A f \in Faucets : /\ pool_states'[f] \in PoolState /\ pool_states'[f].reserve_with_slippage < P
                         /\ ToArgs(pool_states'[f]) = pool_state'[f]
  BY <1>1, <1>2, <1>3, ReadBack
<1>5. PoolTypeOK'
  BY <1>3, <1>4 DEF PoolTypeOK
<1>6. MirrorExact'
  <2>1. \A f \in Faucets : ToArgs(pool_states[f])' = pool_state'[f]
    BY <1>4 DEF ToArgs, ToFelt, SaturateU64, Least
  <2>2. QED
    BY <1>4, <2>1 DEF MirrorExact, MirrorAgrees, BooksFit
<1>7. QED
  BY <1>1, <1>5, <1>6 DEF Kept

\* The steps of ViewSpec, one by one.
LEMMA ViewKeeps == ASSUME ViewInv, [ViewNext]_viewVars PROVE Kept
<1>1. ASSUME UserNext PROVE Kept
  <2>1. PICK n \in NewNotes : CreateNote(n)
    BY <1>1 DEF UserNext
  <2>2. [AnyNext]_vars
    BY <2>1 DEF AnyNext
  <2>3. pool_state' = pool_state /\ UNCHANGED local
    BY <1>1, <2>1 DEF UserNext, CreateNote
  <2>4. PoolTypeOK' /\ MirrorExact'
    BY <2>3, BooksUntouched DEF local
  <2>5. QED
    BY <2>2, <2>4 DEF Kept
<1>2. ASSUME ServerNext PROVE Kept
  <2>1. ASSUME NEW n \in notes, ReclaimPosition(n), UNCHANGED local PROVE Kept
    <3>1. [AnyNext]_vars /\ pool_state' = pool_state
      BY <2>1 DEF AnyNext, ReclaimPosition
    <3>2. PoolTypeOK' /\ MirrorExact'
      BY <2>1, <3>1, BooksUntouched DEF local
    <3>3. QED
      BY <3>1, <3>2 DEF Kept
  <2>2. ASSUME NEW n \in notes, NEW past_deadline \in BOOLEAN, RefuseWithdraw(n, past_deadline) PROVE Kept
    <3>1. UNCHANGED vars /\ UNCHANGED <<pool_states, pool_state, mirror, engine>>
      BY <2>2 DEF RefuseWithdraw, chain, vars
    <3>2. PoolTypeOK' /\ MirrorExact'
      BY <3>1, BooksUntouched
    <3>3. QED
      BY <3>1, <3>2 DEF Kept
  <2>3. QED
    BY <1>2, <2>1, <2>2, DepositKeeps, WithdrawKeeps, SwapKeeps DEF ServerNext
<1>3. ASSUME UNCHANGED poolVars PROVE Kept
  <2>1. UNCHANGED vars /\ UNCHANGED <<pool_states, pool_state, mirror, engine>>
    BY <1>3 DEF poolVars, local, chain, vars
  <2>2. PoolTypeOK' /\ MirrorExact'
    BY <2>1, BooksUntouched
  <2>3. QED
    BY <2>1, <2>2 DEF Kept
<1>4. ASSUME NEW price \in Prices, NEW past_deadline \in BOOLEAN, NEW sell \in Faucets, NEW buy \in Faucets,
             NEW sold \in Amounts, NEW minimum \in Amounts, NEW serial \in Serials,
             TradePosition(price, past_deadline, sell, sold, buy, minimum, serial)
      PROVE  Kept
  BY <1>4, PositionKeeps DEF TradePosition
<1>5. QED
  BY <1>1, <1>2, <1>3, <1>4, RestartKeeps DEF ViewNext, add_position, RestartServer, viewVars

\* The account stores field elements and holds no more than the maximum.
LEMMA AccountBoundedNext == TypeOK /\ AccountBounded /\ [AnyNext]_vars => AccountBounded'
<1> SUFFICES ASSUME TypeOK, AccountBounded, [AnyNext]_vars PROVE AccountBounded'
  OBVIOUS
<1>1. ASSUME UNCHANGED <<vault, pool_state>> PROVE AccountBounded'
  BY <1>1 DEF AccountBounded
<1>2. ASSUME NEW f \in Faucets, NEW s \in AnyArgs, pool_state' = [pool_state EXCEPT ![f] = s],
             \A g \in Faucets : vault'[g] <= MaxAssetAmount
      PROVE  AccountBounded'
  BY <1>2 DEF AccountBounded
<1>3. ASSUME NEW f_in \in Faucets, NEW amount_in \in Nat, NEW s_in \in AnyArgs,
             NEW f_out \in Faucets, NEW amount_out \in Nat, NEW s_out \in AnyArgs,
             SwapOnPool(f_in, amount_in, s_in, f_out, amount_out, s_out)
      PROVE  AccountBounded'
  <2>1. vault[f_in] + amount_in <= MaxAssetAmount
        /\ pool_state' = [pool_state EXCEPT ![f_in] = s_in, ![f_out] = s_out]
    BY <1>3 DEF SwapOnPool, receive_asset_ok, add_asset_ok
  <2>2. ASSUME NEW h \in Faucets PROVE vault'[h] <= MaxAssetAmount
    <3>1. vault'[h] = vault[h] + (IF h = f_in THEN amount_in ELSE 0) - (IF h = f_out THEN amount_out ELSE 0)
      BY <1>3, SwapMoves
    <3>2. vault[h] \in Nat /\ vault[h] <= MaxAssetAmount
      BY DEF TypeOK, AccountBounded
    <3>3. QED
      BY <2>1, <3>1, <3>2, AccountAssumption
  <2>3. QED
    BY <1>3, <2>1, <2>2 DEF AccountBounded
<1>4. ASSUME NEW n \in notes, NEW lp_amount \in Felt, NEW s \in AnyArgs, ConsumeDeposit(n, lp_amount, s)
      PROVE  AccountBounded'
  <2>1. PICK f \in Attached(n) :
          /\ receive_asset_ok(f, n.assets[f], s, vault)
          /\ vault' = add_asset(f, n.assets[f], vault)
          /\ pool_state' = [pool_state EXCEPT ![f] = s]
    BY <1>4 DEF ConsumeDeposit
  <2>2. f \in Faucets /\ vault[f] + n.assets[f] <= MaxAssetAmount
    BY <2>1 DEF Attached, receive_asset_ok, add_asset_ok
  <2>3. \A g \in Faucets : vault'[g] <= MaxAssetAmount
    BY <2>1, <2>2 DEF TypeOK, AccountBounded, add_asset
  <2>4. QED
    BY <1>2, <2>1, <2>2, <2>3
<1>5. ASSUME NEW n \in notes, NEW amount_out \in Felt, NEW s \in AnyArgs, ConsumeWithdraw(n, amount_out, s)
      PROVE  AccountBounded'
  <2>1. n.expected \in Faucets /\ amount_out \in Nat
    BY FeltIsNat DEF TypeOK, Note
  <2>2. vault' = [vault EXCEPT ![n.expected] = @ - amount_out]
        /\ pool_state' = [pool_state EXCEPT ![n.expected] = s]
    BY <1>5 DEF ConsumeWithdraw, remove_asset
  <2>3. \A g \in Faucets : vault'[g] <= MaxAssetAmount
    BY <2>1, <2>2, AccountAssumption DEF TypeOK, AccountBounded
  <2>4. QED
    BY <1>2, <2>1, <2>2, <2>3
<1>6. ASSUME NEW n \in notes, NEW amount_out \in Felt, NEW s_in \in AnyArgs, NEW s_out \in AnyArgs,
             ConsumeSwap(n, amount_out, s_in, s_out)
      PROVE  AccountBounded'
  <2>1. PICK f \in Attached(n) : SwapOnPool(f, n.assets[f], s_in, n.expected, amount_out, s_out)
    BY <1>6 DEF ConsumeSwap
  <2>2. f \in Faucets /\ n.assets[f] \in Nat /\ n.expected \in Faucets /\ amount_out \in Nat
    BY FeltIsNat DEF TypeOK, Note, Attached
  <2>3. QED
    BY <1>3, <2>1, <2>2
<1>7. ASSUME NEW n \in notes, NEW amount_out \in Felt, NEW sold \in Felt, NEW minimum \in Felt,
             NEW s_in \in AnyArgs, NEW s_out \in AnyArgs, NEW sell \in Faucets, NEW buy \in Faucets,
             NEW serial \in Serials,
             ConsumePosition(n, amount_out, s_in, s_out, sell, sold, buy, minimum, serial)
      PROVE  AccountBounded'
  <2>1. amount_out \in Nat /\ sold \in Nat
    BY FeltIsNat
  <2>2. \/ UNCHANGED <<vault, pool_state>>
        \/ SwapOnPool(sell, sold, s_in, buy, amount_out, s_out)
    BY <1>7 DEF ConsumePosition
  <2>3. QED
    BY <1>1, <1>3, <2>1, <2>2
<1>8. ASSUME NEW f \in Faucets, NEW s \in AnyArgs, SetPoolState(f, s) PROVE AccountBounded'
  BY <1>2, <1>8 DEF SetPoolState, AccountBounded
<1>9. CASE (\E n \in NewNotes : CreateNote(n)) \/ (\E n \in notes : ReclaimPosition(n)) \/ UNCHANGED vars
  BY <1>1, <1>9 DEF CreateNote, ReclaimPosition, vars
<1>10. QED
  BY <1>4, <1>5, <1>6, <1>7, <1>8, <1>9 DEF AnyNext

\* The invariant holds at the start.
LEMMA ViewInvInit == CurveReturnsU256 /\ ViewInit => ViewInv
<1> SUFFICES ASSUME CurveReturnsU256, ViewInit PROVE ViewInv
  OBVIOUS
<1>1. Init /\ pool_states = [f \in Faucets |-> FromChain(f)] /\ engine = "up" /\ mirror = "fresh"
  BY DEF ViewInit, PoolInit
<1>2. TypeOK /\ Solvent
  BY <1>1, TypeInit, SolventInit
<1>3. AccountBounded
  BY <1>1, AccountAssumption DEF Init, AccountBounded, EmptyPool, AnyArgs, Felt
<1>4. \A f \in Faucets : /\ pool_states[f] \in PoolState /\ pool_states[f].reserve_with_slippage < P
                         /\ ToArgs(pool_states[f]) = pool_state[f]
  BY <1>1, <1>2, <1>3, ReadBack
<1>5. PoolTypeOK
  BY <1>1, <1>4 DEF PoolTypeOK
<1>6. QED
  BY <1>2, <1>3, <1>4, <1>5 DEF ViewInv, MirrorExact, MirrorAgrees, BooksFit

\* Every step keeps the invariant.
LEMMA ViewInvNext == ViewInv /\ [ViewNext]_viewVars => ViewInv'
<1> SUFFICES ASSUME ViewInv, [ViewNext]_viewVars PROVE ViewInv'
  OBVIOUS
<1>1. PoolTypeOK' /\ MirrorExact' /\ [AnyNext]_vars
  BY ViewKeeps DEF Kept
<1>2. TypeOK /\ Solvent /\ AccountBounded /\ CurveReturnsU256
  BY DEF ViewInv
<1>3. TypeOK'
  BY <1>1, <1>2, TypeNext
<1>4. Solvent' /\ AccountBounded'
  BY <1>1, <1>2, <1>3, SolventNext, AccountBoundedNext
<1>5. CurveReturnsU256'
  BY <1>2 DEF CurveReturnsU256
<1>6. QED
  BY <1>1, <1>3, <1>4, <1>5 DEF ViewInv

\* ViewInv is an invariant.
LEMMA ViewInvAlways == CurveReturnsU256 /\ ViewSpec => []ViewInv
<1>1. CurveReturnsU256 /\ ViewInit => ViewInv
  BY ViewInvInit
<1>2. ViewInv /\ [ViewNext]_viewVars => ViewInv'
  BY ViewInvNext
<1>3. QED
  BY <1>1, <1>2, PTL DEF ViewSpec

\* The operator's balances are U256 and its LP supplies u64, through all its arithmetic.
THEOREM OperatorTypeCorrect == CurveReturnsU256 /\ ViewSpec => []PoolTypeOK
<1>1. ViewInv => PoolTypeOK
  BY DEF ViewInv
<1>2. QED
  BY <1>1, ViewInvAlways, PTL

\* The operator's copy is what the account stores, as long as no sync failed after a
\* submission: saturating, reducing to the field and reading back lose nothing then, and a
\* refused swap that is consumed for amount 0 writes the balances that are there.
THEOREM MirrorStaysExact == CurveReturnsU256 /\ ViewSpec => []MirrorAgrees
<1>1. ViewInv => MirrorAgrees
  BY DEF ViewInv, MirrorExact, MirrorAgrees
<1>2. QED
  BY <1>1, ViewInvAlways, PTL

-----------------------------------------------------------------------------
(* The operator against the account *)

\* The operator is one of the operators that ZoroPoolAccount allows for: each of its steps is
\* a step of the account with some field elements as arguments, or changes nothing there.
THEOREM OperatorIsAnOperator == CurveReturnsU256 /\ ViewSpec => Init /\ [][AnyNext]_vars
<1>1. ViewInit => Init
  BY DEF ViewInit, PoolInit
<1>2. ViewInv /\ [ViewNext]_viewVars => [AnyNext]_vars
  BY ViewKeeps DEF Kept
<1>3. QED
  BY <1>1, <1>2, ViewInvAlways, PTL DEF ViewSpec

\* What the account enforces by itself holds of the whole system: the pools stay covered, the
\* LP supply is the sum of the shares, no asset is made or lost, and no DEPOSIT or ZOROSWAP
\* is consumed against its owner.
THEOREM OperatorKeepsAccount ==
  CurveReturnsU256 /\ ViewSpec =>
    [](TypeOK /\ Solvent /\ LpSupplyIsSumOfShares /\ AssetsConserved) /\ MinimumHonoured
<1> DEFINE Inv == TypeOK /\ Solvent /\ SharesInv /\ ConservedInv
<1>1. Init => Inv
  BY TypeInit, SolventInit, SharesInit, ConservedInit
<1>2. Inv /\ [AnyNext]_vars => Inv'
  BY TypeNext, SolventNext, SharesNext, ConservedNext
<1>3. Inv => TypeOK /\ Solvent /\ LpSupplyIsSumOfShares /\ AssetsConserved
  BY DEF SharesInv, ConservedInv
<1>4. Inv /\ [AnyNext]_vars => [MinimumKept]_vars
  BY MinimumNext
<1> HIDE DEF Inv
<1>5. QED
  BY <1>1, <1>2, <1>3, <1>4, OperatorIsAnOperator, PTL DEF MinimumHonoured

-----------------------------------------------------------------------------
(* What the operator reports *)

\* A step of ViewSpec is one of these.
LEMMA ViewSteps ==
  ASSUME [ViewNext]_viewVars
  PROVE  \/ UserNext
         \/ \E n \in notes : ReclaimPosition(n) /\ UNCHANGED local
         \/ \E n \in notes, f \in Faucets, past_deadline \in BOOLEAN : ExecuteDeposit(n, f, past_deadline)
         \/ \E n \in notes : ExecuteWithdraw(n)
         \/ \E n \in notes, past_deadline \in BOOLEAN : RefuseWithdraw(n, past_deadline)
         \/ \E n \in notes, f \in Faucets, price \in Prices, past_deadline \in BOOLEAN :
              ExecuteSwap(n, f, price, past_deadline)
         \/ \E price \in Prices, past_deadline \in BOOLEAN, sell, buy \in Faucets,
               sold, minimum \in Amounts, serial \in Serials :
              /\ position \in notes
              /\ ExecutePosition(position, price, past_deadline, sell, sold, buy, minimum, serial)
         \/ Restart
         \/ UNCHANGED poolVars
  BY DEF ViewNext, ServerNext, TradePosition, RestartServer, add_position, viewVars

\* An execution that is reported as failed or past its deadline moves no more than
\* FailedMovedNothing says.
LEMMA FailedStep == ASSUME ViewInv, [ViewNext]_viewVars PROVE FailedMovedNothing
<1> DEFINE Still == /\ UNCHANGED <<vault, pool_state, user_deposits, lp_total_supply, pool_states>>
                    /\ \A n \in notes \ notes' : n.kind # "ZOROSWAP"
           Moved == /\ UNCHANGED <<user_deposits, lp_total_supply, pool_states>>
                    /\ mirror = "fresh" => UNCHANGED pool_state
                    /\ \E n \in notes \ notes' : n.kind = "ZOROSWAP"
                    /\ \A n \in notes \ notes' : n.kind = "ZOROSWAP" => n.min_amount_out = 0
<1>1. SUFFICES ASSUME reported'.result \in {"Failed", "PastDeadline"} PROVE Still \/ Moved
  BY DEF FailedMovedNothing
<1>2. CASE UserNext
  BY <1>2 DEF UserNext, CreateNote, local
<1>3. CASE \E n \in notes : ReclaimPosition(n) /\ UNCHANGED local
  BY <1>3 DEF ReclaimPosition, local
<1>4. CASE Panic \/ UNCHANGED <<pool_states, engine, mirror, chain>> \/ UNCHANGED poolVars
  BY <1>4 DEF Panic, chain, poolVars, local
<1>5. ASSUME NEW n \in notes, NEW f \in Faucets, NEW past_deadline \in BOOLEAN,
             ExecuteDeposit(n, f, past_deadline)
      PROVE  Still
  <2>1. CASE Panic
    BY <1>4, <2>1 DEF Panic, chain
  <2>2. CASE ~ Panic
    BY <1>1, <1>5, <2>2 DEF ExecuteDeposit, Result
  <2>3. QED
    BY <2>1, <2>2
<1>6. ASSUME NEW n \in notes, ExecuteWithdraw(n) PROVE Still
  <2>1. CASE Panic
    BY <1>4, <2>1 DEF Panic, chain
  <2>2. CASE ~ Panic
    BY <1>1, <1>6, <2>2 DEF ExecuteWithdraw, Result
  <2>3. QED
    BY <2>1, <2>2
<1>7. ASSUME NEW n \in notes, NEW past_deadline \in BOOLEAN, RefuseWithdraw(n, past_deadline) PROVE Still
  BY <1>7 DEF RefuseWithdraw, chain
<1>8. ASSUME NEW n \in notes, NEW f \in Faucets, NEW price \in Prices, NEW past_deadline \in BOOLEAN,
             ExecuteSwap(n, f, price, past_deadline)
      PROVE  Still \/ Moved
  <2> DEFINE g == n.expected
             c == get_curve_amount_out(pool_states[f], pool_states[g], n.assets[f], price)
             accepted == SwapAccepted(past_deadline, c.amount_out, n.min_amount_out)
  <2>1. CASE Panic
    BY <1>4, <2>1 DEF Panic, chain
  <2>2. CASE ~ Panic
    <3>1. /\ ConsumeSwap(n, ToFelt(IF accepted THEN c.amount_out ELSE 0),
                         ToArgs(IF accepted THEN c.base ELSE pool_states[f]),
                         ToArgs(IF accepted THEN c.quote ELSE pool_states[g]))
          /\ Submitted(IF accepted THEN AfterSwap(f, g, c) ELSE pool_states)
          /\ reported'.result = SwapResult(accepted, past_deadline)
          /\ n.kind = "ZOROSWAP" /\ f \in Attached(n)
      BY <1>8, <2>2 DEF ExecuteSwap, Result
    <3>2. ~ accepted
      BY <1>1, <3>1 DEF SwapResult, SwapAccepted
    <3>3. ToFelt(0) = 0
      BY FeltOf, AccountAssumption
    <3> HIDE DEF accepted, c, g
    <3>4. ConsumeSwap(n, 0, ToArgs(pool_states[f]), ToArgs(pool_states[g])) /\ Submitted(pool_states)
      BY <3>1, <3>2, <3>3
    <3>5. PICK x \in Attached(n) :
            SwapOnPool(x, n.assets[x], ToArgs(pool_states[f]), n.expected, 0, ToArgs(pool_states[g]))
      BY <3>4 DEF ConsumeSwap
    <3>6. notes' = notes \ {n} /\ OneAsset(n) /\ ~ MinimumNotMet(0, n.min_amount_out)
      BY <3>4 DEF ConsumeSwap
    <3>7. n.assets \in [Faucets -> Nat] /\ n.min_amount_out \in Nat /\ g \in Faucets
      BY InvTypes DEF Note, g
    <3>8. x = f
      <4>1. \A h \in Faucets : h # f => n.assets[h] = 0
        BY <3>1, <3>6, InvTypes, OnlyAsset
      <4>2. x \in Faucets /\ n.assets[x] > 0
        BY DEF Attached
      <4>3. QED
        BY <4>1, <4>2
    <3>9. /\ UNCHANGED <<user_deposits, lp_total_supply>>
          /\ pool_state' = [pool_state EXCEPT ![f] = ToArgs(pool_states[f]), ![g] = ToArgs(pool_states[g])]
      BY <3>5, <3>8 DEF SwapOnPool, g
    \* The swap wrote the operator's old balances.
    <3>10. mirror = "fresh" => pool_state' = pool_state
      BY <3>7, <3>9, InvTypes
    <3>11. n.min_amount_out = 0
      BY <3>6, <3>7 DEF MinimumNotMet
    <3>12. UNCHANGED pool_states
      BY <3>4 DEF Submitted
    <3>13. QED
      BY <3>1, <3>6, <3>9, <3>10, <3>11, <3>12
  <2>3. QED
    BY <2>1, <2>2
<1>9. ASSUME position \in notes, NEW price \in Prices, NEW past_deadline \in BOOLEAN, NEW sell \in Faucets,
             NEW buy \in Faucets, NEW sold \in Amounts, NEW minimum \in Amounts, NEW serial \in Serials,
             ExecutePosition(position, price, past_deadline, sell, sold, buy, minimum, serial)
      PROVE  Still
  <2> DEFINE c == get_curve_amount_out(pool_states[sell], pool_states[buy], sold, price)
             accepted == SwapAccepted(past_deadline, c.amount_out, minimum)
  <2>1. CASE Panic \/ UNCHANGED <<pool_states, engine, mirror, chain>>
    BY <2>1 DEF Panic, chain
  <2>2. CASE ~ (Panic \/ UNCHANGED <<pool_states, engine, mirror, chain>>)
    <3>1. accepted /\ reported'.result = SwapResult(accepted, past_deadline)
      BY <1>9, <2>2 DEF ExecutePosition, Result
    <3>2. QED
      BY <1>1, <3>1 DEF SwapResult, SwapAccepted
  <2>3. QED
    BY <2>1, <2>2
<1>10. CASE Restart
  BY <1>1, <1>10 DEF Restart, Result
<1> HIDE DEF Still, Moved
<1>11. QED
  BY <1>2, <1>3, <1>4, <1>5, <1>6, <1>7, <1>8, <1>9, <1>10, ViewSteps

\* An order that is reported as failed or past its deadline left the shares and the
\* operator's books alone, and the account's balances while the books are exact; only a
\* ZOROSWAP that asks for no minimum is consumed all the same.
THEOREM FailedOrdersMoveNothing == CurveReturnsU256 /\ ViewSpec => FailedMovesNothing
<1>1. ViewInv /\ [ViewNext]_viewVars => [FailedMovedNothing]_poolVars
  BY FailedStep
<1>2. QED
  BY <1>1, ViewInvAlways, PTL DEF ViewSpec, FailedMovesNothing

\* A withdrawal that is consumed pays what was compared with its minimum.
LEMMA WithdrawStep == ASSUME ViewInv, BooksFit, [ViewNext]_viewVars PROVE WithdrawMinimumKept
<1>1. SUFFICES ASSUME NEW n \in notes \ notes', n.kind = "WITHDRAW"
               PROVE  wallet'[n.beneficiary][n.expected] - wallet[n.beneficiary][n.expected] >= n.min_amount_out
  BY DEF WithdrawMinimumKept
<1>2. n \in notes /\ n \notin notes'
  BY <1>1
\* Every other step leaves a WITHDRAW note where it is.
<1>3. ASSUME NEW m \in notes, m.kind # "WITHDRAW", (notes \ {m}) \subseteq notes' PROVE FALSE
  BY <1>1, <1>2, <1>3
<1>4. ASSUME notes \subseteq notes' PROVE FALSE
  BY <1>2, <1>4
<1>5. ASSUME NEW m \in notes, ExecuteWithdraw(m), ~ Panic
      PROVE  wallet'[n.beneficiary][n.expected] - wallet[n.beneficiary][n.expected] >= n.min_amount_out
  <2> DEFINE f == m.expected
             e == get_withdraw_asset_amount_out(pool_states[f], m.amount_input)
  <2>1. ConsumeWithdraw(m, ToFelt(e.amount_out), ToArgs(e.pool)) /\ e.amount_out >= m.min_amount_out
    BY <1>5 DEF ExecuteWithdraw, WithdrawAccepted
  <2>2. m \in Note /\ f \in Faucets /\ m.amount_input \in Nat /\ m.beneficiary \in Users /\ m.min_amount_out \in Nat
    BY InvTypes DEF Note
  <2>3. e.amount_out \in 0 .. pool_states[f].reserve_with_slippage /\ pool_states[f].reserve_with_slippage \in Nat
    BY <2>2, InvTypes, WithdrawMath, PoolFields
  <2>4. pool_states[f].reserve_with_slippage < P
    BY <2>2 DEF BooksFit
  <2> HIDE DEF e, f
  <2>5. e.amount_out \in Nat /\ e.amount_out < P
    BY <2>3, <2>4, AccountAssumption
  <2>6. ToFelt(e.amount_out) = e.amount_out
    BY <2>5, FeltOf
  <2>7. notes' = notes \ {m} /\ wallet' = [wallet EXCEPT ![m.beneficiary][f] = @ + e.amount_out]
    BY <2>1, <2>6 DEF ConsumeWithdraw, Credit, f
  <2>8. n = m
    BY <1>2, <2>7
  <2>9. wallet \in [Users -> [Faucets -> Nat]]
    BY InvTypes DEF TypeOK
  <2>10. wallet[m.beneficiary][f] \in Nat /\ wallet'[m.beneficiary][f] = wallet[m.beneficiary][f] + e.amount_out
    BY <2>2, <2>7, <2>9
  <2>11. wallet'[m.beneficiary][f] - wallet[m.beneficiary][f] >= m.min_amount_out
    BY <2>1, <2>2, <2>5, <2>10
  <2>12. QED
    BY <2>8, <2>11 DEF f
<1>6. ASSUME Panic \/ UNCHANGED chain \/ UNCHANGED poolVars PROVE FALSE
  BY <1>4, <1>6 DEF Panic, chain, poolVars
<1>7. ASSUME UserNext PROVE FALSE
  BY <1>4, <1>7 DEF UserNext, CreateNote
<1>8. ASSUME NEW m \in notes, ReclaimPosition(m) PROVE FALSE
  BY <1>3, <1>8 DEF ReclaimPosition
<1>9. ASSUME NEW m \in notes, NEW f \in Faucets, NEW past_deadline, ExecuteDeposit(m, f, past_deadline)
       PROVE  FALSE
  <2>1. m.kind = "DEPOSIT"
    BY <1>9 DEF ExecuteDeposit
  <2>2. ASSUME NEW lp, NEW s, ConsumeDeposit(m, lp, s) PROVE FALSE
    <3>1. notes' = notes \ {m}
      BY <2>2 DEF ConsumeDeposit
    <3>2. QED
      BY <1>3, <2>1, <3>1
  <2>3. QED
    BY <1>6, <1>9, <2>2 DEF ExecuteDeposit
<1>10. ASSUME NEW m \in notes, NEW f \in Faucets, NEW price, NEW past_deadline,
              ExecuteSwap(m, f, price, past_deadline)
       PROVE  FALSE
  <2>1. m.kind = "ZOROSWAP"
    BY <1>10 DEF ExecuteSwap
  <2>2. ASSUME NEW x, NEW s, NEW t, ConsumeSwap(m, x, s, t) PROVE FALSE
    <3>1. notes' = notes \ {m}
      BY <2>2 DEF ConsumeSwap
    <3>2. QED
      BY <1>3, <2>1, <3>1
  <2>3. QED
    BY <1>6, <1>10, <2>2 DEF ExecuteSwap
<1>11. ASSUME position \in notes, NEW price, NEW past_deadline, NEW sell, NEW sold, NEW buy, NEW minimum, NEW serial,
              ExecutePosition(position, price, past_deadline, sell, sold, buy, minimum, serial)
       PROVE  FALSE
  <2>1. position.kind = "POSITION"
    BY <1>11 DEF ExecutePosition
  <2>2. ASSUME NEW x, NEW s, NEW t, ConsumePosition(position, x, s, t, sell, sold, buy, minimum, serial) PROVE FALSE
    BY <1>3, <1>11, <2>1, <2>2 DEF ConsumePosition
  <2>3. QED
    BY <1>6, <1>11, <2>2 DEF ExecutePosition
<1>12. ASSUME NEW m \in notes, NEW past_deadline, RefuseWithdraw(m, past_deadline) PROVE FALSE
  BY <1>6, <1>12 DEF RefuseWithdraw
<1>13. ASSUME Restart PROVE FALSE
  BY <1>6, <1>13 DEF Restart
<1>14. QED
  BY <1>5, <1>6, <1>7, <1>8, <1>9, <1>10, <1>11, <1>12, <1>13, ViewSteps

\* A withdrawal that is consumed pays its minimum, as long as the operator's reserves fit a
\* field element, which they do while the copy is fresh: Felt::new would reduce an amount
\* that does not fit, after the comparison.
THEOREM WithdrawalsPayTheirMinimum ==
  CurveReturnsU256 /\ ViewSpec =>
    /\ [](mirror = "fresh" => BooksFit)
    /\ []BooksFit => WithdrawMinimumHonoured
<1>1. ViewInv => (mirror = "fresh" => BooksFit)
  BY DEF ViewInv, MirrorExact
<1>2. ViewInv /\ BooksFit /\ [ViewNext]_viewVars => [WithdrawMinimumKept]_poolVars
  BY WithdrawStep
<1>3. QED
  BY <1>1, <1>2, ViewInvAlways, PTL DEF ViewSpec, WithdrawMinimumHonoured

-----------------------------------------------------------------------------
(* The server's positions *)

\* A trade that replaces the server's note replaces it by the note that POSITION made.
LEMMA RespawnStep == ASSUME ViewInv, BooksFit, [ViewNext]_viewVars PROVE RespawnKept
<1>1. SUFFICES ASSUME position \in notes \ notes', position' \notin {position, NoPosition},
                      \A f \in Faucets : position.assets[f] > 0 => vault'[f] # vault[f]
               PROVE  position' \in notes'
  BY DEF RespawnKept, position_get_note
<1>2. position \in Note /\ position \in notes /\ position \notin notes'
  BY <1>1, InvTypes
<1>3. ASSUME NEW price \in Prices, NEW past_deadline \in BOOLEAN, NEW sell \in Faucets, NEW buy \in Faucets,
             NEW sold \in Amounts, NEW minimum \in Amounts, NEW serial \in Serials,
             TradePosition(price, past_deadline, sell, sold, buy, minimum, serial)
      PROVE  position' \in notes'
  <2> DEFINE c == get_curve_amount_out(pool_states[sell], pool_states[buy], sold, price)
             accepted == SwapAccepted(past_deadline, c.amount_out, minimum)
             respawned == RespawnedAssets(position.assets, sell, sold, buy, c.amount_out)
             recreated == RecreatedAssets(position.assets, sell, sold, buy, ToFelt(c.amount_out))
  <2>1. /\ position' = RecreatedNote(position, serial, respawned)
        /\ engine' = "up"
        /\ ExecutePosition(position, price, past_deadline, sell, sold, buy, minimum, serial)
    BY <1>1, <1>3 DEF TradePosition
  <2>2. ~ Panic /\ ~ UNCHANGED chain
    BY <1>2, <2>1 DEF Panic, chain
  <2>3. /\ accepted /\ (sell = buy => position.assets[sell] = 0)
        /\ ConsumePosition(position, ToFelt(c.amount_out), ToArgs(c.base), ToArgs(c.quote),
                                   sell, sold, buy, minimum, serial)
    BY <2>1, <2>2 DEF ExecutePosition
  <2>4. sold \in Nat /\ minimum \in Nat /\ price \in Nat
    BY ArgumentTypes, ZoroPoolAssumption
  <2>5. /\ c.amount_out \in Nat /\ c.amount_out <= pool_states[buy].reserve_with_slippage
        /\ pool_states[buy].reserve_with_slippage \in Nat
    BY <2>4, SwapTyped
  <2>6. ToFelt(c.amount_out) = c.amount_out
    <3>1. c.amount_out < P
      BY <2>5, AccountAssumption DEF BooksFit
    <3>2. QED
      BY <2>5, <3>1, FeltOf
  <2>7. ~ MinimumNotMet(ToFelt(c.amount_out), minimum)
    BY <2>3, <2>4, <2>5, <2>6 DEF MinimumNotMet, SwapAccepted
  <2>8. /\ sell = buy => sold = 0 /\ position.assets[sell] = 0
        /\ SwapOnPool(sell, sold, ToArgs(c.base), buy, ToFelt(c.amount_out), ToArgs(c.quote))
        /\ notes' = (notes \ {position}) \cup {RecreatedNote(position, serial, recreated)}
    BY <2>3, <2>7 DEF ConsumePosition
  \* The two traded assets are all that the position holds.
  <2>9. ASSUME NEW h \in Faucets, h \notin {sell, buy} PROVE position.assets[h] = 0
    <3>1. vault'[h] = vault[h] + (IF h = sell THEN sold ELSE 0) - (IF h = buy THEN c.amount_out ELSE 0)
      BY <2>4, <2>5, <2>6, <2>8, InvTypes, SwapMoves
    <3>2. vault'[h] = vault[h]
      BY <2>9, <3>1, InvTypes
    <3>3. position.assets[h] \in Nat
      BY <1>2 DEF Note
    <3>4. QED
      BY <1>1, <3>2, <3>3
  <2>10. recreated = respawned
    <3>1. position.assets \in [Faucets -> Nat]
      BY <1>2 DEF Note
    <3> HIDE DEF c
    <3>2. QED
      BY <2>6, <2>8, <2>9, <3>1 DEF RecreatedAssets, RespawnedAssets
  <2>11. QED
    BY <2>1, <2>8, <2>10
<1>4. ASSUME UNCHANGED position \/ position' = NoPosition \/ UNCHANGED poolVars PROVE FALSE
  BY <1>1, <1>4 DEF poolVars, chain
<1>5. QED
  BY <1>3, <1>4 DEF ViewNext, add_position, RestartServer, viewVars

\* The server carries on with the note that POSITION made, after any trade on a position of
\* at most the two traded assets, as long as the operator's reserves fit a field element.
THEOREM PositionsRespawn ==
  CurveReturnsU256 /\ ViewSpec =>
    /\ [](mirror = "fresh" => BooksFit)
    /\ []BooksFit => RespawnAgrees
<1>1. ViewInv => (mirror = "fresh" => BooksFit)
  BY DEF ViewInv, MirrorExact
<1>2. ViewInv /\ BooksFit /\ [ViewNext]_viewVars => [RespawnKept]_viewVars
  BY RespawnStep
<1>3. QED
  BY <1>1, <1>2, ViewInvAlways, PTL DEF ViewSpec, RespawnAgrees

-----------------------------------------------------------------------------
(* The price of a share *)

\* What the curve answers for a reserve that fits a u64 leaves a U256 room for the products it
\* goes into.  (The default curve answers at most the reserve.)
CurveIncrementsFit ==
  \A b, l, capital_b \in 0 .. U256 - 1 :
    capital_b < U64 => InverseDiagonal(b, l, capital_b) * U64 + U64 <= U256

\* The liabilities fit a u64.
LiabilitiesFit == \A f \in Faucets : pool_states[f].total_liabilities < U64

\* One pool's liabilities per share are not less in q than in p.
NotDiluted(p, q) == q.total_liabilities * p.lp_total_supply >= p.total_liabilities * q.lp_total_supply

\* Products keep the order.
LEMMA ProductOrder ==
  ASSUME NEW x \in Nat, NEW y \in Nat, NEW z \in Nat, x <= y
  PROVE  x * z <= y * z /\ z * x <= z * y /\ x * z \in Nat /\ y * z \in Nat /\ z * x = x * z
<1>1. PICK d \in Nat : y = x + d
  <2>1. y - x \in Nat /\ y = x + (y - x)
    OBVIOUS
  <2>2. QED
    BY <2>1
<1>2. y * z = x * z + d * z
  BY <1>1
<1>3. d * z \in Nat /\ x * z \in Nat /\ y * z \in Nat
  BY Product
<1>4. z * x = x * z /\ z * y = y * z
  OBVIOUS
<1>5. QED
  BY <1>2, <1>3, <1>4

\* A quotient is rounded down.
LEMMA RoundedDown ==
  ASSUME NEW x \in Nat, NEW y \in Nat \ {0}
  PROVE  (x \div y) \in Nat /\ (x \div y) * y <= x
<1>1. x = y * (x \div y) + (x % y) /\ (x % y) \in 0 .. y - 1 /\ (x \div y) \in Nat
  OBVIOUS
<1>2. y * (x \div y) = (x \div y) * y /\ y * (x \div y) \in Nat
  BY <1>1
<1>3. QED
  BY <1>1, <1>2

\* Shares that are rounded down do not dilute.
LEMMA SharesIssued ==
  ASSUME NEW tl \in Nat, NEW s \in Nat, NEW inc \in Nat, NEW lp \in Nat, lp * tl <= inc * s,
         NEW s1 \in Nat, s1 <= s + lp
  PROVE  (tl + inc) * s >= tl * s1
<1>1. tl * s1 <= tl * (s + lp)
  BY ProductOrder
<1>2. tl * (s + lp) = tl * s + lp * tl /\ (tl + inc) * s = tl * s + inc * s
  OBVIOUS
<1>3. tl * s \in Nat /\ lp * tl \in Nat /\ inc * s \in Nat /\ tl * s1 \in Nat
  BY Product
<1>4. QED
  BY <1>1, <1>2, <1>3

\* Nor does a payment that is rounded down.
LEMMA SharesBurnt ==
  ASSUME NEW tl \in Nat, NEW s \in Nat, NEW dec \in Nat, NEW a \in Nat, dec <= tl, a <= s, dec * s <= a * tl
  PROVE  (tl - dec) * s >= tl * (s - a)
<1>1. (tl - dec) * s = tl * s - dec * s /\ tl * (s - a) = tl * s - a * tl
  OBVIOUS
<1>2. tl * s \in Nat /\ dec * s \in Nat /\ a * tl \in Nat
  BY Product
<1>3. QED
  BY <1>1, <1>2

\* A deposit does not dilute.
LEMMA DepositNotDilutes ==
  ASSUME CurveReturnsU256, CurveIncrementsFit, NEW p \in PoolState, p.total_liabilities < U64,
         NEW a \in Nat, a < U64,
         get_deposit_lp_amount_out(p, a).pool.reserve_with_slippage < U64
  PROVE  NotDiluted(p, get_deposit_lp_amount_out(p, a).pool)
<1> USE PoolMathAssumption
<1> DEFINE tl == p.total_liabilities
           s == p.lp_total_supply
           rws == Wrap(p.reserve_with_slippage + a)
           inc == Greatest(InverseDiagonal(p.reserve, tl, rws), a)
           lp == IF tl > 0 THEN Wrap(inc * s) \div tl ELSE inc
           q == get_deposit_lp_amount_out(p, a).pool
<1>1. tl \in Nat /\ s \in Nat /\ s < U64 /\ tl < U64
  BY PoolFields
<1>2. q = [total_liabilities |-> Wrap(tl + inc), reserve |-> Wrap(p.reserve + inc),
           reserve_with_slippage |-> rws, lp_total_supply |-> SaturateU64(s + lp)]
  BY DEF get_deposit_lp_amount_out
<1>3. rws \in 0 .. U256 - 1 /\ rws < U64
  BY <1>2, PoolFields, WrapTyped
<1> HIDE DEF rws
<1>4. inc \in Nat /\ inc * U64 + U64 <= U256
  <2> DEFINE i == InverseDiagonal(p.reserve, tl, rws)
  <2>1. i \in 0 .. U256 - 1 /\ i * U64 + U64 <= U256
    BY <1>3, PoolFields DEF CurveReturnsU256, CurveIncrementsFit
  <2>2. i \in Nat
    BY <2>1
  <2> HIDE DEF i
  <2>3. a * U64 + U64 <= U256
    <3>1. (a + 1) * U64 <= U64 * U64
      BY ProductOrder
    <3>2. (a + 1) * U64 = a * U64 + U64 /\ U64 * U64 \in Nat /\ a * U64 \in Nat
      BY Product
    <3>3. QED
      BY <3>1, <3>2
  <2>4. inc = i \/ inc = a
    BY DEF Greatest, i
  <2>5. QED
    BY <2>1, <2>2, <2>3, <2>4
<1> HIDE DEF inc
<1>5. inc * s \in Nat /\ inc * s < U256
  <2>1. inc * s <= inc * U64 /\ inc * U64 \in Nat /\ inc * s \in Nat
    BY <1>1, <1>4, ProductOrder, Product
  <2>2. QED
    BY <1>4, <2>1
<1>6. tl + inc \in Nat /\ tl + inc < U256
  <2>1. inc * 1 <= inc * U64 /\ inc * U64 \in Nat
    BY <1>4, ProductOrder, Product
  <2>2. QED
    BY <1>1, <1>4, <2>1
<1>7. Wrap(inc * s) = inc * s /\ Wrap(tl + inc) = tl + inc
  BY <1>5, <1>6, WrapExact
<1> HIDE DEF tl, s
<1>8. lp \in Nat /\ lp * tl <= inc * s
  <2>1. CASE tl > 0
    <3>1. lp = (inc * s) \div tl
      BY <1>7, <2>1
    <3>2. QED
      BY <1>1, <1>5, <2>1, <3>1, RoundedDown
  <2>2. CASE tl = 0
    BY <1>1, <1>4, <1>5, <2>2
  <2>3. QED
    BY <1>1, <2>1, <2>2
<1> HIDE DEF lp
<1>9. SaturateU64(s + lp) \in Nat /\ SaturateU64(s + lp) <= s + lp
  BY <1>1, <1>8 DEF SaturateU64, Least
<1>10. (tl + inc) * s >= tl * SaturateU64(s + lp)
  BY <1>1, <1>4, <1>8, <1>9, SharesIssued
<1>11. q.total_liabilities = tl + inc /\ q.lp_total_supply = SaturateU64(s + lp)
  BY <1>2, <1>7
<1> HIDE DEF q
<1>12. QED
  BY <1>10, <1>11 DEF NotDiluted, tl, s, q

\* A withdrawal does not dilute.
LEMMA WithdrawNotDilutes ==
  ASSUME CurveReturnsU256, NEW p \in PoolState, p.total_liabilities < U64, NEW a \in Nat, a < U64
  PROVE  NotDiluted(p, get_withdraw_asset_amount_out(p, a).pool)
<1> USE PoolMathAssumption
<1> DEFINE tl == p.total_liabilities
           s == p.lp_total_supply
           dec == IF s = 0 THEN 0 ELSE Wrap(a * tl) \div s
           q == get_withdraw_asset_amount_out(p, a).pool
<1>1. tl \in Nat /\ s \in Nat /\ s < U64 /\ tl < U64 /\ tl < U256
  BY PoolFields
<1>2. q.total_liabilities = Wrap(tl - dec) /\ q.lp_total_supply = lp_supply_after_withdraw(s, a)
  BY DEF get_withdraw_asset_amount_out
<1> HIDE DEF tl, s, q
<1>3. a * tl \in Nat /\ Wrap(a * tl) = a * tl
  <2>1. a * tl <= U64 * tl /\ a * tl \in Nat /\ U64 * tl \in Nat
    BY <1>1, ProductOrder, Product
  <2>2. tl * U64 <= (U64 - 1) * U64 /\ tl * U64 = U64 * tl
    BY <1>1, ProductOrder
  <2>3. (U64 - 1) * U64 = U64 * U64 - U64 /\ U64 * U64 \in Nat
    BY Product
  <2>4. a * tl < U256
    BY <2>1, <2>2, <2>3
  <2>5. QED
    BY <2>1, <2>4, WrapExact
<1>4. Wrap(tl - dec) \in Nat
  <2>1. dec \in Int
    BY <1>1, <1>3, Quotient
  <2>2. QED
    BY <1>1, <2>1, WrapTyped
<1>5. CASE a >= s
  <2>1. lp_supply_after_withdraw(s, a) = 0
    BY <1>1, <1>5 DEF lp_supply_after_withdraw, Greatest
  <2>2. tl * 0 = 0 /\ Wrap(tl - dec) * s \in Nat
    BY <1>1, <1>4, Product
  <2>3. Wrap(tl - dec) * s >= tl * 0
    BY <2>2
  <2>4. q.total_liabilities * s >= tl * q.lp_total_supply
    BY <1>2, <2>1, <2>3
  <2>5. QED
    BY <2>4 DEF NotDiluted, tl, s, q
<1>6. CASE a < s
  <2>1. dec = (a * tl) \div s
    BY <1>1, <1>3, <1>6
  <2>2. dec \in Nat /\ dec * s <= a * tl
    BY <1>1, <1>3, <1>6, <2>1, RoundedDown
  <2> HIDE DEF dec
  <2>3. dec <= tl
    <3>1. SUFFICES ASSUME dec >= tl + 1 PROVE FALSE
      BY <1>1, <2>2
    <3>2. (tl + 1) * s <= dec * s /\ dec * s \in Nat
      BY <1>1, <2>2, <3>1, ProductOrder
    <3>3. (tl + 1) * s = s * tl + s /\ s * tl \in Nat
      BY <1>1, Product
    <3>4. a * tl <= s * tl
      BY <1>1, <1>6, ProductOrder
    <3>5. QED
      BY <1>1, <1>3, <1>6, <2>2, <3>2, <3>3, <3>4
  <2>4. Wrap(tl - dec) = tl - dec
    <3>1. tl - dec \in Nat /\ tl - dec < U256
      BY <1>1, <2>2, <2>3
    <3>2. QED
      BY <3>1, WrapExact
  <2>5. lp_supply_after_withdraw(s, a) = s - a
    BY <1>1, <1>6 DEF lp_supply_after_withdraw, Greatest
  <2>6. (tl - dec) * s >= tl * (s - a)
    BY <1>1, <1>6, <2>2, <2>3, SharesBurnt
  <2>7. q.total_liabilities * s >= tl * q.lp_total_supply
    BY <1>2, <2>4, <2>5, <2>6
  <2>8. QED
    BY <2>7 DEF NotDiluted, tl, s, q
<1>7. QED
  BY <1>1, <1>5, <1>6

\* A pool that keeps its supply and does not lose liabilities is not diluted.
LEMMA SameSupply ==
  ASSUME NEW p \in PoolState, NEW q \in PoolState, q.lp_total_supply = p.lp_total_supply,
         p.total_liabilities <= q.total_liabilities
  PROVE  NotDiluted(p, q)
  BY PoolFields, ProductOrder DEF NotDiluted

\* A swap keeps both supplies, leaves the base pool's liabilities and adds its fee to the quote pool's.
LEMMA CurveNotDilutes ==
  ASSUME CurveReturnsU256, CurveIncrementsFit, NEW base \in PoolState, NEW quote \in PoolState,
         quote.total_liabilities < U64, quote.reserve_with_slippage < U64, NEW a \in Nat, NEW price \in Nat,
         NEW c, c = get_curve_amount_out(base, quote, a, price)
  PROVE  NotDiluted(base, c.base) /\ NotDiluted(quote, c.quote)
<1> USE PoolMathAssumption
<1> DEFINE rws == Wrap(base.reserve_with_slippage + a)
           eff == InverseHorizontal(base.reserve, base.total_liabilities, rws)
           raw == Wrap(eff * price) \div PriceScale
           fee == Wrap(raw * BackstopFee) \div FeePrecision
           maxlp == Wrap(raw * SwapFee) \div FeePrecision
           red == Wrap(quote.reserve - raw + fee)
           i == InverseDiagonal(red, quote.total_liabilities, quote.reserve_with_slippage)
           lp == Least(i, maxlp)
           tl == Wrap(quote.total_liabilities + lp)
<1>1. /\ c.base.total_liabilities = base.total_liabilities /\ c.base.lp_total_supply = base.lp_total_supply
      /\ c.quote.total_liabilities \in {quote.total_liabilities, tl}
      /\ c.quote.lp_total_supply = quote.lp_total_supply
  BY DEF get_curve_amount_out, CurveOk, CurveErr, PoolState
<1>2. c.base \in PoolState /\ c.quote \in PoolState
  BY CurveMath
<1>3. rws \in 0 .. U256 - 1
  BY PoolFields, WrapTyped
<1> HIDE DEF rws
<1>4. eff \in Nat
  <2>1. eff \in 0 .. U256 - 1
    BY <1>3, PoolFields DEF CurveReturnsU256
  <2>2. QED
    BY <2>1
<1> HIDE DEF eff
<1>5. raw \in Nat
  <2>1. Wrap(eff * price) \in Nat
    BY <1>4, Product, WrapTyped
  <2>2. QED
    BY <2>1, Quotient
<1> HIDE DEF raw
<1>6. fee \in Nat /\ maxlp \in Nat
  <2>1. Wrap(raw * BackstopFee) \in Nat /\ Wrap(raw * SwapFee) \in Nat
    BY <1>5, Product, WrapTyped
  <2>2. QED
    BY <2>1, Quotient
<1> HIDE DEF fee, maxlp
<1>7. red \in 0 .. U256 - 1
  BY <1>5, <1>6, PoolFields, WrapTyped
<1> HIDE DEF red
<1>8. i \in Nat /\ i * U64 + U64 <= U256
  <2>1. i \in 0 .. U256 - 1
    BY <1>7, PoolFields DEF CurveReturnsU256
  <2>2. i * U64 + U64 <= U256
    BY <1>7, PoolFields DEF CurveIncrementsFit
  <2>3. QED
    BY <2>1, <2>2
<1> HIDE DEF i
<1>9. lp \in Nat /\ lp <= i
  BY <1>6, <1>8 DEF Least
<1> HIDE DEF lp
<1>10. i + U64 <= U256
  <2>1. i * 1 <= i * U64 /\ i * U64 \in Nat
    BY <1>8, ProductOrder, Product
  <2>2. QED
    BY <1>8, <2>1
<1>11. tl = quote.total_liabilities + lp
  <2>1. quote.total_liabilities + lp < U256 /\ quote.total_liabilities + lp \in Nat
    BY <1>8, <1>9, <1>10, PoolFields
  <2>2. QED
    BY <2>1, WrapExact
<1> HIDE DEF tl
<1>12. quote.total_liabilities <= c.quote.total_liabilities
  BY <1>1, <1>9, <1>11, PoolFields
<1>13. base.total_liabilities <= c.base.total_liabilities
  BY <1>1, PoolFields
<1>14. QED
  BY <1>1, <1>2, <1>12, <1>13, SameSupply

\* What a DEPOSIT note carries are field elements.
DepositsFit == \A n \in notes : n.kind = "DEPOSIT" => \A f \in Faucets : n.assets[f] \in Felt

\* No step writes a DEPOSIT note with other assets.
LEMMA DepositsFitNext == TypeOK /\ DepositsFit /\ [AnyNext]_vars => DepositsFit'
<1> SUFFICES ASSUME TypeOK, DepositsFit, [AnyNext]_vars PROVE DepositsFit'
  OBVIOUS
<1>1. ASSUME NEW n \in NewNotes, CreateNote(n) PROVE DepositsFit'
  <2>1. 0 \in Felt /\ Amounts \subseteq Felt
    BY AccountAssumption DEF Felt
  <2>2. \A f \in Faucets : n.assets[f] \in Felt
    BY <2>1 DEF NewNotes, Single
  <2>3. QED
    BY <1>1, <2>2 DEF CreateNote, DepositsFit
<1>2. ASSUME NEW n \in notes, NEW amount_out, NEW sold, NEW minimum, NEW s_in, NEW s_out,
             NEW sell, NEW buy, NEW serial,
             ConsumePosition(n, amount_out, s_in, s_out, sell, sold, buy, minimum, serial)
      PROVE  DepositsFit'
  <2>1. \A assets : RecreatedNote(n, serial, assets).kind = n.kind
    BY DEF RecreatedNote, TypeOK, Note
  <2>2. QED
    BY <1>2, <2>1 DEF ConsumePosition, DepositsFit
<1>3. ASSUME notes' \subseteq notes PROVE DepositsFit'
  BY <1>3 DEF DepositsFit
<1>4. QED
  BY <1>1, <1>2, <1>3
  DEF ConsumeDeposit, ConsumeSwap, AnyNext, vars, ReclaimPosition, ConsumeWithdraw, SetPoolState

\* What the steps are read with.
PriceInv == ViewInv /\ NoteInputs /\ DepositsFit /\ CurveIncrementsFit

\* PriceInv is an invariant.
LEMMA PriceInvAlways == CurveReturnsU256 /\ CurveIncrementsFit /\ ViewSpec => []PriceInv
<1>1. CurveIncrementsFit /\ ViewInit => CurveIncrementsFit /\ NoteInputs /\ DepositsFit
  BY DEF ViewInit, PoolInit, Init, NoteInputs, DepositsFit
<1>2. ViewInv /\ CurveIncrementsFit /\ NoteInputs /\ DepositsFit /\ [ViewNext]_viewVars
        => (CurveIncrementsFit /\ NoteInputs /\ DepositsFit)'
  <2> SUFFICES ASSUME ViewInv, CurveIncrementsFit, NoteInputs, DepositsFit, [ViewNext]_viewVars
               PROVE  (CurveIncrementsFit /\ NoteInputs /\ DepositsFit)'
    OBVIOUS
  <2>1. TypeOK /\ [AnyNext]_vars
    BY ViewKeeps DEF Kept, ViewInv
  <2>2. NoteInputs' /\ DepositsFit'
    BY <2>1, NoteInputsNext, DepositsFitNext
  <2>3. CurveIncrementsFit'
    BY DEF CurveIncrementsFit
  <2>4. QED
    BY <2>2, <2>3
<1>3. QED
  BY <1>1, <1>2, ViewInvAlways, PTL DEF ViewSpec, PriceInv

\* No execution lowers the liabilities per share of a pool.
LEMMA PriceStep ==
  ASSUME PriceInv, BooksFit, LiabilitiesFit, [ViewNext]_viewVars
  PROVE  SharePriceKept
<1> DEFINE Fair == \A h \in Faucets : NotDiluted(pool_states[h], pool_states'[h])
<1>1. SUFFICES ASSUME reported' # Result("None", 0) PROVE Fair
  BY DEF SharePriceKept, NotDiluted
<1>2. /\ ViewInv /\ CurveReturnsU256 /\ CurveIncrementsFit
      /\ pool_states \in [Faucets -> PoolState] /\ notes \subseteq Note
  BY InvTypes DEF PriceInv
<1>3. \A h \in Faucets : /\ pool_states[h].total_liabilities < U64
                         /\ pool_states[h].reserve_with_slippage < U64
                         /\ NotDiluted(pool_states[h], pool_states[h])
  <2> TAKE h \in Faucets
  <2>1. pool_states[h] \in PoolState /\ pool_states[h].reserve_with_slippage < P
    BY <1>2 DEF BooksFit
  <2>2. pool_states[h].reserve_with_slippage < U64
    BY <2>1, PoolFields, AccountAssumption, ZoroPoolAssumption, PoolMathAssumption
  <2>3. QED
    BY <2>1, <2>2, PoolFields, SameSupply DEF LiabilitiesFit
<1>4. ASSUME UNCHANGED pool_states PROVE Fair
  BY <1>3, <1>4
<1>5. ASSUME NEW f \in Faucets, NEW p, NotDiluted(pool_states[f], p),
             pool_states' \in {pool_states, [pool_states EXCEPT ![f] = p]}
      PROVE  Fair
  BY <1>2, <1>3, <1>5
<1>6. \A x \in Felt : x \in Nat /\ x < U64
  BY AccountAssumption, ZoroPoolAssumption, PoolMathAssumption DEF Felt
<1>7. ASSUME NEW n \in notes, NEW f \in Faucets, NEW past_deadline \in BOOLEAN,
             ExecuteDeposit(n, f, past_deadline)
      PROVE  Fair
  <2> DEFINE e == get_deposit_lp_amount_out(pool_states[f], n.assets[f])
  <2>1. CASE Panic
    BY <1>4, <2>1 DEF Panic
  <2>2. CASE ~ Panic
    <3>1. /\ n.kind = "DEPOSIT" /\ ~ ToU64Panics(e.pool)
          /\ Submitted([pool_states EXCEPT ![f] = e.pool])
      BY <1>7, <2>2 DEF ExecuteDeposit
    <3>2. n.assets[f] \in Nat /\ n.assets[f] < U64
      BY <1>6, <3>1 DEF PriceInv, DepositsFit
    <3>3. e.pool.reserve_with_slippage < U64
      BY <3>1 DEF ToU64Panics, FitsU64
    <3>4. NotDiluted(pool_states[f], e.pool)
      BY <1>2, <1>3, <3>2, <3>3, DepositNotDilutes
    <3> HIDE DEF e
    <3>5. pool_states' \in {pool_states, [pool_states EXCEPT ![f] = e.pool]}
      BY <3>1 DEF Submitted
    <3>6. QED
      BY <1>5, <3>4, <3>5
  <2>3. QED
    BY <2>1, <2>2
<1>8. ASSUME NEW n \in notes, ExecuteWithdraw(n) PROVE Fair
  <2> DEFINE f == n.expected
             e == get_withdraw_asset_amount_out(pool_states[f], n.amount_input)
  <2>1. CASE Panic
    BY <1>4, <2>1 DEF Panic
  <2>2. CASE ~ Panic
    <3>1. Submitted([pool_states EXCEPT ![f] = e.pool])
      BY <1>8, <2>2 DEF ExecuteWithdraw
    <3>2. f \in Faucets /\ n.amount_input \in Nat /\ n.amount_input < U64
      BY <1>2, <1>6 DEF PriceInv, NoteInputs, Note
    <3>3. NotDiluted(pool_states[f], e.pool)
      BY <1>2, <1>3, <3>2, WithdrawNotDilutes
    <3> HIDE DEF e, f
    <3>4. pool_states' \in {pool_states, [pool_states EXCEPT ![f] = e.pool]}
      BY <3>1 DEF Submitted
    <3>5. QED
      BY <1>5, <3>2, <3>3, <3>4
  <2>3. QED
    BY <2>1, <2>2
<1>9. ASSUME NEW f \in Faucets, NEW g \in Faucets, NEW a \in Nat, NEW price \in Nat,
             NEW c, c = get_curve_amount_out(pool_states[f], pool_states[g], a, price),
             pool_states' \in {pool_states, AfterSwap(f, g, c)}
      PROVE  Fair
  <2>1. NotDiluted(pool_states[f], c.base) /\ NotDiluted(pool_states[g], c.quote)
    BY <1>2, <1>3, <1>9, CurveNotDilutes
  <2>2. QED
    BY <1>2, <1>3, <1>9, <2>1 DEF AfterSwap
<1>10. ASSUME NEW n \in notes, NEW f \in Faucets, NEW price \in Prices, NEW past_deadline \in BOOLEAN,
              ExecuteSwap(n, f, price, past_deadline)
       PROVE  Fair
  <2> DEFINE c == get_curve_amount_out(pool_states[f], pool_states[n.expected], n.assets[f], price)
  <2>1. CASE Panic
    BY <1>4, <2>1 DEF Panic
  <2>2. CASE ~ Panic
    <3>1. pool_states' \in {pool_states, AfterSwap(f, n.expected, c)}
      <4> DEFINE accepted == SwapAccepted(past_deadline, c.amount_out, n.min_amount_out)
      <4>1. Submitted(IF accepted THEN AfterSwap(f, n.expected, c) ELSE pool_states)
        BY <1>10, <2>2 DEF ExecuteSwap
      <4> HIDE DEF c, accepted
      <4>2. QED
        BY <4>1 DEF Submitted
    <3>2. n.expected \in Faucets /\ n.assets[f] \in Nat /\ price \in Nat
      BY <1>2, ZoroPoolAssumption DEF Note
    <3>3. QED
      BY <1>9, <3>1, <3>2
  <2>3. QED
    BY <2>1, <2>2
<1>11. ASSUME NEW price \in Prices, NEW past_deadline \in BOOLEAN, NEW sell \in Faucets, NEW buy \in Faucets,
              NEW sold \in Amounts, NEW minimum \in Amounts, NEW serial \in Serials,
              ExecutePosition(position, price, past_deadline, sell, sold, buy, minimum, serial)
       PROVE  Fair
  <2> DEFINE c == get_curve_amount_out(pool_states[sell], pool_states[buy], sold, price)
  <2>1. CASE UNCHANGED pool_states
    BY <1>4, <2>1
  <2>2. CASE ~ UNCHANGED pool_states
    <3>1. Submitted(AfterSwap(sell, buy, c))
      BY <1>11, <2>2 DEF ExecutePosition, Panic
    <3>2. sold \in Nat /\ price \in Nat
      BY ArgumentTypes, ZoroPoolAssumption
    <3>3. pool_states' \in {pool_states, AfterSwap(sell, buy, c)}
      BY <3>1 DEF Submitted
    <3>4. QED
      BY <1>9, <3>2, <3>3
  <2>3. QED
    BY <2>1, <2>2
<1>12. CASE Restart
  BY <1>1, <1>12 DEF Restart
<1>13. CASE UserNext \/ (\E n \in notes : ReclaimPosition(n) /\ UNCHANGED local) \/ UNCHANGED poolVars
  BY <1>4, <1>13 DEF UserNext, local, poolVars
<1>14. ASSUME NEW n \in notes, NEW past_deadline \in BOOLEAN, RefuseWithdraw(n, past_deadline) PROVE Fair
  BY <1>4, <1>14 DEF RefuseWithdraw
<1>15. QED
  BY <1>7, <1>8, <1>10, <1>11, <1>12, <1>13, <1>14, ViewSteps

\* No execution dilutes the liquidity providers in the operator's books, whatever it rounds off
\* and whatever the curve answers, as long as the balances fit the widths they are passed in.
THEOREM SharePriceDoesNotFall ==
  CurveReturnsU256 /\ CurveIncrementsFit /\ ViewSpec /\ [](BooksFit /\ LiabilitiesFit)
    => SharePriceNeverFalls
<1>1. PriceInv /\ BooksFit /\ LiabilitiesFit /\ [ViewNext]_viewVars => [SharePriceKept]_poolVars
  BY PriceStep
<1>2. QED
  BY <1>1, PriceInvAlways, PTL DEF ViewSpec, SharePriceNeverFalls

\* The curve of the default build is a curve as the theorems suppose: it meets
\* CurveReturnsU256 and CurveIncrementsFit.
THEOREM DefaultCurveFits ==
  \A b, l, capital_b \in 0 .. U256 - 1 :
    /\ DummyPsi(b, l) \in 0 .. U256 - 1
    /\ DummyInverseDiagonal(b, l, capital_b) \in 0 .. U256 - 1
    /\ DummyInverseHorizontal(b, l, capital_b) \in 0 .. U256 - 1
    /\ capital_b < U64 => DummyInverseDiagonal(b, l, capital_b) * U64 + U64 <= U256
<1> TAKE b, l, capital_b \in 0 .. U256 - 1
<1>1. U256 \in Nat /\ U64 \in Nat /\ U64 * U64 <= U256 /\ b \in Nat /\ capital_b \in Nat
  BY PoolMathAssumption
<1> DEFINE i == DummyInverseDiagonal(b, l, capital_b)
<1>2. i \in Nat /\ i <= capital_b
  BY <1>1 DEF DummyInverseDiagonal
<1>3. DummyPsi(b, l) \in 0 .. U256 - 1 /\ DummyInverseHorizontal(b, l, capital_b) \in 0 .. U256 - 1
  BY <1>1 DEF DummyPsi, DummyInverseHorizontal
<1>4. i \in 0 .. U256 - 1
  BY <1>1, <1>2
<1> HIDE DEF i
<1>5. ASSUME capital_b < U64 PROVE i * U64 + U64 <= U256
  <2>1. i + 1 \in Nat /\ i + 1 <= U64
    BY <1>1, <1>2, <1>5
  <2>2. (i + 1) * U64 <= U64 * U64 /\ (i + 1) * U64 \in Nat
    BY <1>1, <2>1, ProductOrder
  <2>3. (i + 1) * U64 = i * U64 + U64
    BY <1>1, <1>2
  <2>4. (i + 1) * U64 <= U256
    BY <1>1, <2>2, Product
  <2>5. QED
    BY <2>3, <2>4
<1>6. QED
  BY <1>3, <1>4, <1>5 DEF i
=============================================================================
