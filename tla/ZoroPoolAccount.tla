-------------------------- MODULE ZoroPoolAccount --------------------------
(***************************************************************************)
(* The pool account on the Miden chain: the storage of zoropool.masm, the  *)
(* account's vault, and the note scripts DEPOSIT, WITHDRAW, ZOROSWAP and   *)
(* POSITION that are consumed against it.                                  *)
(*                                                                         *)
(* The scripts take the new pool state, the LP amount and the amount out   *)
(* as arguments of the transaction.  This module lets the arguments be     *)
(* ANY values: what it shows, the account enforces by itself, whatever the *)
(* operator's server computed.                                             *)
(*                                                                         *)
(* A step is one note consumed in a transaction of its own; an assertion   *)
(* of the masm code that fails aborts the transaction, so it is a conjunct *)
(* of the action's guard.  A P2ID output note is credited to its target's  *)
(* wallet at once.                                                         *)
(***************************************************************************)
EXTENDS Integers, FiniteSets, Functions

CONSTANTS
  Faucets,         \* faucet ids of the liquidity pools
  Users,           \* account ids of traders and liquidity providers
  Serials,         \* serial numbers of notes
  Kinds,           \* note scripts in use
  P,               \* modulus of the field of the Miden VM
  MaxAssetAmount,  \* largest amount of one fungible asset a vault can hold
  Amounts,         \* amounts that occur in notes and in arguments
  PoolArgs,        \* pool balances the operator passes to the scripts
  Endowment        \* what each user owns of each asset at the start

ASSUME AccountAssumption ==
  /\ IsFiniteSet(Faucets) /\ IsFiniteSet(Users)
  /\ P \in Nat \ {0, 1}
  /\ MaxAssetAmount \in Nat
  /\ Kinds \subseteq {"DEPOSIT", "WITHDRAW", "ZOROSWAP", "POSITION"}
  /\ Amounts \subseteq 0 .. P - 1
  /\ PoolArgs \subseteq [total_liabilities : 0 .. P - 1, reserve : 0 .. P - 1,
                          reserve_with_slippage : 0 .. P - 1]
  /\ Endowment \in Nat

VARIABLES
  vault,            \* native account: balance of each asset
  pool_state,       \* zoroswap::pool_state: the three balances of each pool
  user_deposits,    \* zoroswap::user_deposits, keys [faucet, user]
  lp_total_supply,  \* zoroswap::user_deposits, keys [faucet, 0, 0]
  notes,            \* committed notes that have not been consumed
  wallet            \* assets of the users, P2ID notes for them included

vars == <<vault, pool_state, user_deposits, lp_total_supply, notes, wallet>>

Felt == 0 .. P - 1

PoolBalances ==
  [total_liabilities : Nat, reserve : Nat, reserve_with_slippage : Nat]

\* A note: the assets it carries and its storage.  expected is the word
\* EXPECTED_ASSET, amount_input is METADATA_ITEM_2 (min_lp_amount of a DEPOSIT,
\* lp_withdraw_amount of a WITHDRAW).
Note ==
  [serial : Serials, kind : Kinds, sender : Users, beneficiary : Users,
   assets : [Faucets -> Nat], expected : Faucets, min_amount_out : Nat,
   amount_input : Nat]

\* A bundle holding amount of one asset.
Single(f, amount) == [g \in Faucets |-> IF g = f THEN amount ELSE 0]

\* The faucets a note carries assets of.
Attached(n) == {f \in Faucets : n.assets[f] > 0}

Credit(w, u, f, amount) == [w EXCEPT ![u][f] = @ + amount]

-----------------------------------------------------------------------------
(* Procedures of zoropool.masm *)

\* The assertions of set_pool_state.  The doubled liabilities are a product of
\* field elements.
set_pool_state_ok(f, s, v) ==
  /\ s.reserve <= s.reserve_with_slippage
  /\ s.reserve_with_slippage <= (2 * s.total_liabilities) % P
  /\ s.reserve_with_slippage <= v[f]

\* native_account::add_asset, refused when the balance would get too large.
add_asset_ok(f, amount, v) == v[f] + amount <= MaxAssetAmount
add_asset(f, amount, v)    == [v EXCEPT ![f] = @ + amount]

\* native_account::remove_asset, refused when the vault does not hold the amount.
remove_asset_ok(f, amount, v) == amount <= v[f]
remove_asset(f, amount, v)    == [v EXCEPT ![f] = @ - amount]

\* receive_asset: the asset enters the vault, then the pool state is validated.
receive_asset_ok(f, amount, s, v) ==
  /\ add_asset_ok(f, amount, v)
  /\ set_pool_state_ok(f, s, add_asset(f, amount, v))

\* Fault: the pool state is validated against the balance before the removal.
remove_asset_from_pool_ok_stale(f, amount, s, v) ==
  /\ remove_asset_ok(f, amount, v)
  /\ set_pool_state_ok(f, s, v)

\* remove_asset_from_pool: the asset leaves the vault, then the pool state is
\* validated against what is left.
remove_asset_from_pool_ok(f, amount, s, v) ==
  /\ remove_asset_ok(f, amount, v)
  /\ set_pool_state_ok(f, s, remove_asset(f, amount, v))

\* Fault: an addition that is not reduced to the field.
safe_add_wide(a, b) == a + b

\* math::safe_add and math::safe_sub: field arithmetic that refuses to wrap.
safe_add(a, b)    == (a + b) % P
safe_add_ok(a, b) == safe_add(a, b) >= b
safe_sub(a, b)    == (a - b) % P
safe_sub_ok(a, b) == safe_sub(a, b) <= a

\* Fault: the addition to the total supply is not checked.
deposit_ok_user_only(u, f, lp_amount) == safe_add_ok(user_deposits[u][f], lp_amount)

\* zoropool::deposit: LP shares of the user, then the total supply.
deposit_ok(u, f, lp_amount) ==
  /\ safe_add_ok(user_deposits[u][f], lp_amount)
  /\ safe_add_ok(lp_total_supply[f], lp_amount)
deposit(u, f, lp_amount) ==
  /\ user_deposits' = [user_deposits EXCEPT ![u][f] = safe_add(@, lp_amount)]
  /\ lp_total_supply' = [lp_total_supply EXCEPT ![f] = safe_add(@, lp_amount)]

\* zoropool::withdraw: the user's new LP amount must be strictly smaller.
withdraw_ok(u, f, lp_amount) ==
  /\ safe_sub(user_deposits[u][f], lp_amount) < user_deposits[u][f]
  /\ safe_sub_ok(lp_total_supply[f], lp_amount)
withdraw(u, f, lp_amount) ==
  /\ user_deposits' = [user_deposits EXCEPT ![u][f] = safe_sub(@, lp_amount)]
  /\ lp_total_supply' = [lp_total_supply EXCEPT ![f] = safe_sub(@, lp_amount)]

-----------------------------------------------------------------------------
(* Users *)

\* A user sends a note to the pool, paying its assets from the wallet.
\* NoteStorageBuilder lays out the storage; a serial number is drawn once.
CreateNote(n) ==
  /\ \A m \in notes : m.serial # n.serial
  /\ \A f \in Faucets : n.assets[f] <= wallet[n.sender][f]
  /\ notes' = notes \cup {n}
  /\ wallet' = [wallet EXCEPT ![n.sender] = [f \in Faucets |-> @[f] - n.assets[f]]]
  /\ UNCHANGED <<vault, pool_state, user_deposits, lp_total_supply>>

\* POSITION without arguments in the advice map: the beneficiary's own account
\* takes the assets back.
ReclaimPosition(n) ==
  /\ n \in notes
  /\ n.kind = "POSITION"
  /\ notes' = notes \ {n}
  /\ wallet' = [wallet EXCEPT ![n.beneficiary] = [f \in Faucets |-> @[f] + n.assets[f]]]
  /\ UNCHANGED <<vault, pool_state, user_deposits, lp_total_supply>>

-----------------------------------------------------------------------------
(* Note scripts consumed by the pool account *)

\* store_asset_to_memory asserts that exactly one asset is attached.
OneAsset(n) == Cardinality(Attached(n)) = 1

\* Fault: the operands of the comparison are swapped.
MinimumNotMet_swapped(amount_out, minimum) == minimum < amount_out

\* The comparison both DEPOSIT and ZOROSWAP make first.  When it holds, the note is meant
\* to go back to its sender, but create_p2id_bounce_to_sender aborts the transaction:
\* set_output_asset_to_input_asset stores the asset's key in the place of its value, and
\* the kernel refuses such an asset.
MinimumNotMet(amount_out, minimum) == amount_out < minimum

\* DEPOSIT, with the note argument [lp_amount, s].
ConsumeDeposit(n, lp_amount, s) ==
  /\ n \in notes
  /\ n.kind = "DEPOSIT"
  /\ OneAsset(n)
  /\ ~ MinimumNotMet(lp_amount, n.amount_input)
  /\ \E f \in Attached(n) :
       /\ receive_asset_ok(f, n.assets[f], s, vault)
       /\ deposit_ok(n.beneficiary, f, lp_amount)
       /\ vault' = add_asset(f, n.assets[f], vault)
       /\ pool_state' = [pool_state EXCEPT ![f] = s]
       /\ deposit(n.beneficiary, f, lp_amount)
  /\ notes' = notes \ {n}
  /\ UNCHANGED wallet

\* WITHDRAW, with the note argument [amount_out, s].  The script does not look
\* at MIN_ASSET_OUT's amount, and ignores assets attached to the note (they
\* would be lost to the transaction, which the kernel refuses).
ConsumeWithdraw(n, amount_out, s) ==
  LET f == n.expected IN
  /\ n \in notes
  /\ n.kind = "WITHDRAW"
  /\ Attached(n) = {}
  /\ withdraw_ok(n.beneficiary, f, n.amount_input)
  /\ withdraw(n.beneficiary, f, n.amount_input)
  /\ remove_asset_from_pool_ok(f, amount_out, s, vault)
  /\ vault' = remove_asset(f, amount_out, vault)
  /\ pool_state' = [pool_state EXCEPT ![f] = s]
  /\ wallet' = Credit(wallet, n.beneficiary, f, amount_out)
  /\ notes' = notes \ {n}

\* The two halves of a swap: f_in is received under s_in, then f_out removed
\* under s_out.  The faucets may be the same.
SwapOnPool(f_in, amount_in, s_in, f_out, amount_out, s_out) ==
  /\ receive_asset_ok(f_in, amount_in, s_in, vault)
  /\ remove_asset_from_pool_ok(f_out, amount_out, s_out, add_asset(f_in, amount_in, vault))
  /\ vault' = remove_asset(f_out, amount_out, add_asset(f_in, amount_in, vault))
  /\ pool_state' = [pool_state EXCEPT ![f_in] = s_in, ![f_out] = s_out]
  /\ UNCHANGED <<user_deposits, lp_total_supply>>

\* ZOROSWAP, with [amount_out, s_in, 0, s_out] in the advice map.
ConsumeSwap(n, amount_out, s_in, s_out) ==
  /\ n \in notes
  /\ n.kind = "ZOROSWAP"
  /\ OneAsset(n)
  /\ ~ MinimumNotMet(amount_out, n.min_amount_out)
  /\ \E f \in Attached(n) :
       SwapOnPool(f, n.assets[f], s_in, n.expected, amount_out, s_out)
  /\ wallet' = Credit(wallet, n.beneficiary, n.expected, amount_out)
  /\ notes' = notes \ {n}

\* Fault: the sold amount stays in the note.
RecreatedAssets_unsold(assets, sell, sold, buy, bought) == [assets EXCEPT ![buy] = @ + bought]

\* prepare_assets_for_recreation_of_the_note: the sold amount is taken off, the
\* bought amount added, every other asset is carried over.
RecreatedAssets(assets, sell, sold, buy, bought) ==
  [assets EXCEPT ![sell] = @ - sold, ![buy] = @ + bought]

\* recreate_note: the same script and storage under the next serial number.
RecreatedNote(n, serial, assets) == [n EXCEPT !.serial = serial, !.assets = assets]

\* POSITION, with the trade in the advice map: sell `sold` of sell for at least
\* `minimum` of buy.  The new note's serial number is unused;
\* the pool account is its sender, which the beneficiary stands for here as no
\* script reads a POSITION's sender.  A sale the note cannot cover, or of some
\* of the asset that is bought (the note's new amount then counts the purchase
\* only), leaves the transaction unbalanced: the kernel aborts it.
ConsumePosition(n, amount_out, s_in, s_out, sell, sold, buy, minimum, serial) ==
  /\ n \in notes
  /\ n.kind = "POSITION"
  /\ \A m \in notes : m.serial # serial
  /\ \/ /\ MinimumNotMet(amount_out, minimum)
        /\ notes' = (notes \ {n}) \cup {RecreatedNote(n, serial, n.assets)}
        /\ UNCHANGED <<vault, pool_state, user_deposits, lp_total_supply>>
     \/ /\ ~ MinimumNotMet(amount_out, minimum)
        /\ sell = buy => sold = 0
        /\ sold <= n.assets[sell]
        /\ SwapOnPool(sell, sold, s_in, buy, amount_out, s_out)
        /\ notes' = (notes \ {n}) \cup
                      {RecreatedNote(n, serial, RecreatedAssets(n.assets, sell, sold, buy, amount_out))}
  /\ UNCHANGED wallet

\* set_pool0_state, set_pool1_state: the operator writes a pool state directly.
SetPoolState(f, s) ==
  /\ set_pool_state_ok(f, s, vault)
  /\ pool_state' = [pool_state EXCEPT ![f] = s]
  /\ UNCHANGED <<vault, user_deposits, lp_total_supply, notes, wallet>>

-----------------------------------------------------------------------------
EmptyPool == [total_liabilities |-> 0, reserve |-> 0, reserve_with_slippage |-> 0]

\* new_deployment: empty maps, empty vault.
Init ==
  /\ vault = [f \in Faucets |-> 0]
  /\ pool_state = [f \in Faucets |-> EmptyPool]
  /\ user_deposits = [u \in Users |-> [f \in Faucets |-> 0]]
  /\ lp_total_supply = [f \in Faucets |-> 0]
  /\ notes = {}
  /\ wallet = [u \in Users |-> [f \in Faucets |-> Endowment]]

\* The notes users make: a DEPOSIT names its least LP amount, a WITHDRAW carries
\* no asset and names the LP amount to burn, a ZOROSWAP names what it expects.
NewNotes ==
  LET N(kind, u, b, assets, f, minimum, input) ==
        {[serial |-> x, kind |-> kind, sender |-> u, beneficiary |-> b, assets |-> assets,
          expected |-> f, min_amount_out |-> minimum, amount_input |-> input] : x \in Serials}
      Positive == Amounts \ {0}
      Deposits == UNION {N("DEPOSIT", u, b, Single(f, a), f, 0, lp) :
                    u, b \in Users, f \in Faucets, a \in Positive, lp \in Amounts}
      Withdrawals == UNION {N("WITHDRAW", u, b, Single(f, 0), f, m, lp) :
                       u, b \in Users, f \in Faucets, m, lp \in Amounts}
      Swaps == UNION {N("ZOROSWAP", u, b, Single(f, a), g, m, 0) :
                 u, b \in Users, f, g \in Faucets, a \in Positive, m \in Amounts}
      Positions == UNION {N("POSITION", u, b, Single(f, a), f, 0, 0) :
                     u, b \in Users, f \in Faucets, a \in Positive}
  IN {n \in Deposits \cup Withdrawals \cup Swaps \cup Positions : n.kind \in Kinds}

Next ==
  \/ \E n \in NewNotes : CreateNote(n)
  \/ \E n \in notes : ReclaimPosition(n)
  \/ \E n \in notes, lp_amount \in Amounts, s \in PoolArgs : ConsumeDeposit(n, lp_amount, s)
  \/ \E n \in notes, amount_out \in Amounts, s \in PoolArgs : ConsumeWithdraw(n, amount_out, s)
  \/ \E n \in notes, amount_out \in Amounts, s_in, s_out \in PoolArgs :
       ConsumeSwap(n, amount_out, s_in, s_out)
  \/ \E n \in notes, amount_out, sold, minimum \in Amounts, s_in, s_out \in PoolArgs,
        sell, buy \in Faucets, serial \in Serials :
       ConsumePosition(n, amount_out, s_in, s_out, sell, sold, buy, minimum, serial)
  \/ \E f \in Faucets, s \in PoolArgs : SetPoolState(f, s)

Spec == Init /\ [][Next]_vars

-----------------------------------------------------------------------------
(* Properties *)

\* Type correctness.
TypeOK ==
  /\ vault \in [Faucets -> Nat]
  /\ pool_state \in [Faucets -> PoolBalances]
  /\ user_deposits \in [Users -> [Faucets -> Felt]]
  /\ lp_total_supply \in [Faucets -> Felt]
  /\ notes \subseteq Note
  /\ wallet \in [Users -> [Faucets -> Nat]]

\* Whatever arguments the operator passes, and whichever script uses them, the
\* stored state of a pool stays covered: reserve <= reserve_with_slippage (line 78
\* of zoropool.masm), which is at most MAX_COVERAGE_RATIO times the liabilities
\* and at most what the vault really holds.  No path moves an asset out without
\* checking the state that goes with it, the same-asset swap included.
Solvent ==
  \A f \in Faucets :
    LET s == pool_state[f] IN
    /\ s.reserve <= s.reserve_with_slippage
    /\ s.reserve_with_slippage <= 2 * s.total_liabilities
    /\ s.reserve_with_slippage <= vault[f]

\* The LP total supply, kept in the same map under [faucet, 0, 0], is the sum of
\* the users' shares: add_to_map_item and the two subtractions of withdraw never
\* wrap around the field apart from each other.
LpSupplyIsSumOfShares ==
  \A f \in Faucets :
    lp_total_supply[f] = SumFunction([u \in Users |-> user_deposits[u][f]])

\* No script creates or destroys assets: vault, notes and wallets together hold
\* what the users started with, through swaps, recreated and reclaimed positions.
AssetsConserved ==
  \A f \in Faucets :
    vault[f] + SumFunction([n \in notes |-> n.assets[f]])
             + SumFunction([u \in Users |-> wallet[u][f]])
      = Endowment * Cardinality(Users)

\* The beneficiary of a consumed note got at least its minimum: of LP shares for
\* a DEPOSIT (even where field addition could wrap), of the asset for a ZOROSWAP.
GotMinimum(n) ==
  \/ /\ n.kind = "DEPOSIT"
     /\ \E f \in Attached(n) :
          user_deposits'[n.beneficiary][f] - user_deposits[n.beneficiary][f] >= n.amount_input
  \/ /\ n.kind = "ZOROSWAP"
     /\ wallet'[n.beneficiary][n.expected] - wallet[n.beneficiary][n.expected] >= n.min_amount_out

\* A DEPOSIT or ZOROSWAP note is never consumed against its owner: when it is consumed,
\* the minimum it names is met, whatever the operator passes.  (The other branch of
\* execute_DEPOSIT and execute_ZOROSWAP, the bounce, aborts.)
MinimumKept ==
  \A n \in notes \ notes' : n.kind \in {"DEPOSIT", "ZOROSWAP"} => GotMinimum(n)

\* MinimumKept of every step.
MinimumHonoured == [][MinimumKept]_vars
=============================================================================
