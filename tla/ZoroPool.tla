------------------------------ MODULE ZoroPool ------------------------------
(***************************************************************************)
(* The operator's ZoroPool: its copy of the pool states, the execution of  *)
(* notes against that copy (PoolExecution::new), the transaction on the    *)
(* chain that carries the results as arguments (ZoroPoolAccount), and what *)
(* execute_notes does when the transaction or a sync fails.                *)
(*                                                                         *)
(* A batch holds one note here.  A longer batch commits or aborts as a     *)
(* whole, so it reaches the states its notes reach one after the other;    *)
(* OrderFlow models what the batch means for the orders in it.  A          *)
(* transaction that fails before submission changes nothing, so it is no   *)
(* step.                                                                   *)
(***************************************************************************)
EXTENDS ZoroPoolAccount, PoolMath

CONSTANTS
  Prices,      \* quote_with of two oracle prices, in units of PriceScale
  MaxNotes     \* bound on the number of notes users create

\* The field has fewer elements than a u64 has values; an asset's maximum is one of them.
ASSUME ZoroPoolAssumption ==
  /\ Prices \subseteq Nat /\ MaxNotes \in Nat
  /\ MaxAssetAmount < P /\ P <= U64

VARIABLES
  pool_states,  \* ZoroPool::pool_states
  engine,       \* "up", or "down" once a panic has ended the engine
  mirror,       \* "stale" once the copy and the chain were updated differently
  reported,     \* the ExecutionResult of the last executed note
  created       \* number of notes created so far, for MaxNotes

local == <<pool_states, engine, mirror, reported>>
chain == <<vault, pool_state, user_deposits, lp_total_supply, notes, wallet>>

poolVars == <<chain, local, created>>

Result(result, amount) == [result |-> result, amount |-> amount]

\* Felt::new of each balance, after to::<u64> (which panics) or saturating_to.
ToFelt(x) == x % P
ToArgs(p) ==
  [total_liabilities |-> ToFelt(SaturateU64(p.total_liabilities)),
   reserve |-> ToFelt(SaturateU64(p.reserve)),
   reserve_with_slippage |-> ToFelt(SaturateU64(p.reserve_with_slippage))]
ToU64Panics(p) ==
  ~ (FitsU64(p.total_liabilities) /\ FitsU64(p.reserve) /\ FitsU64(p.reserve_with_slippage))

\* extract_liqudity_pool_state_from_account
FromChain(f) ==
  [total_liabilities |-> pool_state[f].total_liabilities,
   reserve |-> pool_state[f].reserve,
   reserve_with_slippage |-> pool_state[f].reserve_with_slippage,
   lp_total_supply |-> lp_total_supply[f]]

\* The end of execute_notes after the transaction was submitted: the sync before
\* the assignment to pool_states may fail, and the new states are lost.
Submitted(new) ==
  \/ pool_states' = new /\ UNCHANGED mirror
  \/ pool_states' = pool_states /\ mirror' = IF new = pool_states THEN mirror ELSE "stale"

Panic == engine' = "down" /\ UNCHANGED <<pool_states, mirror, reported, chain>>

-----------------------------------------------------------------------------
\* A deposit.  Within its deadline the argument in the place of lp_amount is the asset
\* amount; min_lp_amount is not looked at, and an amount below it makes the script bounce,
\* which aborts the transaction.  Past its deadline the arguments are LP amount 0 with the
\* unchanged state and a P2ID note to the beneficiary is expected: no transaction follows,
\* for the bounce aborts it, and a script that does not bounce (minimum 0) makes no P2ID
\* note, which the client refuses.
ExecuteDeposit(n, f, past_deadline) ==
  LET e == get_deposit_lp_amount_out(pool_states[f], n.assets[f])
      new == IF past_deadline THEN pool_states[f] ELSE e.pool
      panics == ToU64Panics(new) \/ (~ past_deadline /\ ~ FitsU64(e.amount_out))
  IN /\ engine = "up"
     /\ n \in notes /\ n.kind = "DEPOSIT" /\ f \in Attached(n)
     /\ \/ panics /\ Panic
        \/ /\ ~ panics /\ ~ past_deadline
           /\ ConsumeDeposit(n, ToFelt(n.assets[f]), ToArgs(e.pool))
           /\ Submitted([pool_states EXCEPT ![f] = e.pool])
           /\ reported' = Result("DepositSuccess", e.amount_out)
           /\ UNCHANGED engine

-----------------------------------------------------------------------------
\* Fault: the minimum of a withdrawal is not compared.
WithdrawAccepted_always(e, n) == TRUE

\* The condition under which a withdrawal is executed; the script on the chain
\* does not check the minimum again.
WithdrawAccepted(e, n) == e.amount_out >= n.min_amount_out

ExecuteWithdraw(n) ==
  LET f == n.expected
      e == get_withdraw_asset_amount_out(pool_states[f], n.amount_input)
  IN /\ engine = "up"
     /\ n \in notes /\ n.kind = "WITHDRAW"
     /\ WithdrawAccepted(e, n)
     /\ \/ (~ FitsU64(e.amount_out) \/ ToU64Panics(e.pool)) /\ Panic
        \/ /\ FitsU64(e.amount_out) /\ ~ ToU64Panics(e.pool)
           /\ ConsumeWithdraw(n, ToFelt(e.amount_out), ToArgs(e.pool))
           /\ Submitted([pool_states EXCEPT ![f] = e.pool])
           /\ reported' = Result("WithdrawSuccess", e.amount_out)
           /\ UNCHANGED engine

\* Withdrawal past its deadline or below its minimum: the note is not consumed.
RefuseWithdraw(n, past_deadline) ==
  LET e == get_withdraw_asset_amount_out(pool_states[n.expected], n.amount_input) IN
  /\ engine = "up"
  /\ n \in notes /\ n.kind = "WITHDRAW"
  /\ past_deadline \/ ~ WithdrawAccepted(e, n)
  /\ reported' = Result(IF past_deadline THEN "PastDeadline" ELSE "Failed", 0)
  /\ UNCHANGED <<pool_states, engine, mirror, chain>>

-----------------------------------------------------------------------------
\* Fault: only the quote pool is written back.
AfterSwap_quote_only(f_in, f_out, c) == [pool_states EXCEPT ![f_out] = c.quote]

\* update_balances on both pools, the quote pool last.
AfterSwap(f_in, f_out, c) == [pool_states EXCEPT ![f_in] = c.base, ![f_out] = c.quote]

\* Fault: the deadline is not part of the condition.
SwapAccepted_late(past_deadline, amount_out, minimum) == amount_out >= minimum

\* The condition under which a swap or a position's trade is executed.
SwapAccepted(past_deadline, amount_out, minimum) == ~ past_deadline /\ amount_out >= minimum

SwapResult(accepted, past_deadline) ==
  IF past_deadline THEN "PastDeadline" ELSE IF accepted THEN "SwapSuccess" ELSE "Failed"

\* A swap.  An error of the curve is unwrapped before the deadline is looked at.
\* A refused swap passes amount out 0 with the old states: ZOROSWAP then bounces, which
\* aborts the transaction, unless its minimum is 0.
ExecuteSwap(n, f, price, past_deadline) ==
  LET g == n.expected
      c == get_curve_amount_out(pool_states[f], pool_states[g], n.assets[f], price)
      accepted == SwapAccepted(past_deadline, c.amount_out, n.min_amount_out)
      amount_out == IF accepted THEN c.amount_out ELSE 0
      new == IF accepted THEN AfterSwap(f, g, c) ELSE pool_states
      base == IF accepted THEN c.base ELSE pool_states[f]
      quote == IF accepted THEN c.quote ELSE pool_states[g]
  IN /\ engine = "up"
     /\ n \in notes /\ n.kind = "ZOROSWAP" /\ f \in Attached(n)
     /\ \/ (c.status # "Ok" \/ ~ FitsU64(c.amount_out)) /\ Panic
        \/ /\ c.status = "Ok" /\ FitsU64(c.amount_out)
           /\ ConsumeSwap(n, ToFelt(amount_out), ToArgs(base), ToArgs(quote))
           /\ Submitted(new)
           /\ reported' = Result(SwapResult(accepted, past_deadline), amount_out)
           /\ UNCHANGED engine

\* A trade on a POSITION note, as asked for by the position's owner.  A refused
\* trade leaves the note where it is.  respawn_position_note lists an asset that is
\* sold and bought twice if the note has it, and NoteAssets::new refuses the list.
ExecutePosition(n, price, past_deadline, sell, sold, buy, minimum, serial) ==
  LET c == get_curve_amount_out(pool_states[sell], pool_states[buy], sold, price)
      accepted == SwapAccepted(past_deadline, c.amount_out, minimum)
  IN /\ engine = "up"
     /\ n \in notes /\ n.kind = "POSITION"
     /\ \/ (c.status # "Ok" \/ ~ FitsU64(c.amount_out)) /\ Panic
        \/ /\ c.status = "Ok" /\ FitsU64(c.amount_out) /\ accepted
           /\ sell = buy => n.assets[sell] = 0
           /\ ConsumePosition(n, ToFelt(c.amount_out), ToArgs(c.base), ToArgs(c.quote),
                              sell, sold, buy, minimum, serial)
           /\ Submitted(AfterSwap(sell, buy, c))
           /\ reported' = Result(SwapResult(accepted, past_deadline), c.amount_out)
           /\ UNCHANGED engine
        \/ /\ c.status = "Ok" /\ FitsU64(c.amount_out) /\ ~ accepted
           /\ reported' = Result(SwapResult(accepted, past_deadline), 0)
           /\ UNCHANGED <<pool_states, engine, mirror, chain>>

\* update_pool_state_from_chain when the server starts.
Restart ==
  /\ pool_states' = [f \in Faucets |-> FromChain(f)]
  /\ engine' = "up"
  /\ mirror' = "fresh"
  /\ reported' = Result("None", 0)
  /\ UNCHANGED chain

-----------------------------------------------------------------------------
PoolInit ==
  /\ Init
  /\ pool_states = [f \in Faucets |-> FromChain(f)]
  /\ engine = "up"
  /\ mirror = "fresh"
  /\ reported = Result("None", 0)
  /\ created = 0

ServerNext ==
  \/ \E n \in notes : ReclaimPosition(n) /\ UNCHANGED local
  \/ \E n \in notes, f \in Faucets, past_deadline \in BOOLEAN : ExecuteDeposit(n, f, past_deadline)
  \/ \E n \in notes : ExecuteWithdraw(n)
  \/ \E n \in notes, past_deadline \in BOOLEAN : RefuseWithdraw(n, past_deadline)
  \/ \E n \in notes, f \in Faucets, price \in Prices, past_deadline \in BOOLEAN :
       ExecuteSwap(n, f, price, past_deadline)

UserNext ==
  /\ created < MaxNotes
  /\ \E n \in NewNotes : CreateNote(n)
  /\ created' = created + 1
  /\ UNCHANGED local

\* Trades on positions are a part of PoolView, where the server's positions are.
PoolNext == UserNext \/ (UNCHANGED created /\ (ServerNext \/ Restart))

PoolSpec == PoolInit /\ [][PoolNext]_poolVars

-----------------------------------------------------------------------------
(* Properties *)

\* Type correctness of the operator's side.
PoolTypeOK ==
  /\ pool_states \in [Faucets -> PoolState]
  /\ engine \in {"up", "down"}
  /\ mirror \in {"fresh", "stale"}

\* The operator's copy of the balances is what the account stores, through
\* executed, refused and aborted transactions, panics and restarts.  It is stale
\* only after a sync that failed when the transaction had been submitted.
MirrorAgrees ==
  mirror = "fresh" => \A f \in Faucets : ToArgs(pool_states[f]) = pool_state[f]

\* No execution dilutes the liquidity providers: in the operator's books the
\* liabilities per LP share never fall, whatever deposits, withdrawals and swaps
\* round off.  (A restart loads other books.)
SharePriceKept ==
  reported' # Result("None", 0) =>
    \A f \in Faucets :
      pool_states'[f].total_liabilities * pool_states[f].lp_total_supply
        >= pool_states[f].total_liabilities * pool_states'[f].lp_total_supply
SharePriceNeverFalls == [][SharePriceKept]_poolVars

\* A withdrawal that is consumed pays at least the minimum of its note.  The
\* WITHDRAW script does not look at it: the operator's check is the only one.
WithdrawMinimumKept ==
  \A n \in notes \ notes' :
    n.kind = "WITHDRAW" =>
      wallet'[n.beneficiary][n.expected] - wallet[n.beneficiary][n.expected] >= n.min_amount_out
WithdrawMinimumHonoured == [][WithdrawMinimumKept]_poolVars

\* An execution reported as failed or past its deadline changes nobody's shares and not the
\* operator's books, nor the account's states while the books are exact.  It consumes no
\* ZOROSWAP note that names a minimum, and moves the vault for no other note.  (A ZOROSWAP
\* note without a minimum is consumed all the same: its asset enters the vault, and its
\* owner gets amount 0.)
FailedMovedNothing ==
  reported'.result \in {"Failed", "PastDeadline"} =>
    LET swapped == {n \in notes \ notes' : n.kind = "ZOROSWAP"} IN
    /\ UNCHANGED <<user_deposits, lp_total_supply, pool_states>>
    /\ mirror = "fresh" => UNCHANGED pool_state
    /\ \A n \in swapped : n.min_amount_out = 0
    /\ swapped = {} => UNCHANGED <<vault, pool_state>>
FailedMovesNothing == [][FailedMovedNothing]_poolVars

\* DEPOSIT.masm documents its first argument as lp_amount: a deposit reported as
\* DepositSuccess(lp_amount) credits lp_amount on the chain.
DepositCredited ==
  \A n \in notes \ notes' :
    n.kind = "DEPOSIT" =>
      \A f \in Attached(n) :
        user_deposits'[n.beneficiary][f] - user_deposits[n.beneficiary][f] = reported'.amount
DepositCreditedAsReported == [][DepositCredited]_poolVars
=============================================================================
