# Zoroswap: a TLA+ model of the AMM

Zoroswap is an oracle-priced automated market maker on Miden. Users send notes
to a pool account on the chain; a server operated by the pool's owner collects
the notes as orders, computes the outcome of each one from its own copy of the
pool balances and from oracle prices, and consumes the notes in a transaction,
with what it computed as arguments. This directory models that system in TLA+,
checks it with TLC on small instances, and proves the central properties with
TLAPS for every value of the constants.

## Inventory

| Component | Source (under `src/crates/`) | State | Operations |
|---|---|---|---|
| Pool account | `zoro_miden/masm/accounts/zoropool.masm`, `masm/lib` | vault, `pool_state`, `user_deposits` with the LP total supply | `receive_asset`, `remove_asset_from_pool`, `deposit`, `withdraw`, `set_pool0_state`, `set_pool1_state` |
| Note scripts | `zoro_miden/masm/notes` | the notes: assets, storage | DEPOSIT and ZOROSWAP with a bounce to the sender, WITHDRAW, POSITION with its recreation |
| Pool arithmetic, curve | `zoro_miden/src/{pool_state,curve,price}.rs`, `zoro_curve_base` | none (pure) | LP amount of a deposit, payout of a withdrawal, amount out of a swap |
| Pool execution | `zoro_miden/src/{pool_execution,pool}.rs` | `pool_states`, the operator's copy of the balances | `PoolExecution::new` per note, `execute_notes`, reload at start |
| AMM state | `zoroswap/src/{amm_state,order}.rs` | concurrent maps of orders, notes, note ids, positions, prices | `add_order`, `add_position_order`, `flush_open_orders`, `pluck_note`, `replace_position_note` |
| Trading engine | `zoroswap/src/trading_engine.rs` | locals of a cycle | flush, match, pluck, execute, report |
| HTTP server | `zoroswap/src/server.rs` | none of its own | submit a note, add a position, trade on a position, mint, queries |
| Notes listener | `zoroswap/src/notes_listener.rs` | `processed_notes`, `failed_notes` | polls committed notes and adds them as orders |
| Oracle feed | `zoroswap/src/oracle_sse.rs` | the event stream, `oracle_prices` in AMM state | fetch at startup, price updates, reconnects, staleness check of the engine |
| Guarded faucet | `zoroswap/src/faucet.rs` | last mint per recipient, a bounded queue | mint requests, batches, one transaction per faucet |
| WebSocket events | `zoroswap/src/websocket` | connections, subscriptions, four broadcast channels | connect, subscribe, unsubscribe, broadcast, forward, heartbeat |
| Startup, tools, client wrappers | `main.rs`, `config.rs`, `bin`, `client.rs` | none | deployment and I/O |

**How they interact.** The HTTP handlers and the listener run on the main tokio
runtime and fill the maps of `AmmState`; there is no lock over several maps. The
trading engine has a thread with a current-thread runtime of its own; it empties
`open_orders`, takes the notes out of `notes` and hands the batch to
`ZoroPool::execute_notes`, which computes against `pool_states`, submits one
transaction for the batch, and replaces `pool_states` after another sync. The
transaction runs the note scripts against the pool account, which validates the
state it is given against its vault. The listener polls the client's store and calls
`add_order`; the oracle feed writes `oracle_prices`, which the engine checks and then
copies. Statuses, pool states, prices and statistics go over broadcast channels to
forwarding tasks, which look up the subscribers and send to each connection's queue.
The mint handler and the faucet's thread share only a bounded queue. A panic ends
the process in a release build (`panic = "abort"`) and one thread in a development
build; the models let everything but the thread go on, which covers both.

**What is hard.** Two writers and one reader of several maps without a common
lock; two copies of the same balances (server and chain) that are updated by
different code and can be separated by a failing sync; arithmetic at three widths
(field element, u64, U256) of which two wrap silently; batches in which one note
decides the fate of the others; a note submitted twice; a position whose note is
replaced by each trade, computed once in Rust and once in a script; a heartbeat that
removes connections whose handlers go on; channels that overwrite and queues that fill
up; a price stream that breaks at any time; a listener that sees the same notes in every
round and forgets everything in a restart. `PROJECT.json` lists these hazards with their lines.

**What makes each component correct.** The account: its stored reserves are
covered by the vault whatever the operator says, no asset appears or disappears,
shares add up, no note is consumed below its minimum. The execution: the copy of
the balances agrees with the chain, providers are not diluted, a failed execution
moves nothing. The order flow: no acknowledged order is lost, what a client is
told is true and is not taken back, an order does not wait for ever, and the whole
implements a small specification of an order's life (`OrderLifecycle`). The position: the
server's note is the chain's. The events: a closed connection leaves nothing, a
subscriber misses nothing the forwarder receives, and the forwarder comes back after a lag.
The faucet: no account is served twice within the guard, no accepted request is lost or
refused without a reason. The prices: they never go back, and the engine does not use
one that was stale. The listener: each note is handled once, and every order note
is.

## Modules

| Module | Models | Extends |
|---|---|---|
| `ZoroPoolAccount` | pool account and note scripts, under arbitrary arguments | |
| `PoolMath` | `pool_state.rs` and `curve.rs` over any curve | |
| `DummyCurve` | the curve of the default build | |
| `ZoroPool` | execution by the operator, composed with the account | `ZoroPoolAccount`, `PoolMath` |
| `PoolView` | trades on a position, and the note the server keeps for it | `ZoroPool` |
| `OrderLifecycle` | what the server promises about an order | |
| `OrderFlow` | AMM state, handlers, listener's calls, trading engine, statuses | instance of `OrderLifecycle` |
| `NotesListener` | the listener's rounds, what it remembers, restarts | |
| `OracleFeed` | prices from the oracle to the engine | |
| `WebSocketEvents` | connections, subscriptions, heartbeat, one event stream | |
| `GuardedFaucet` | mint requests, queue, guard, transactions | |
| `FiniteSums` | lemmas on sums over finite sets and the least member of a set of naturals | |
| `ZoroPoolAccountProofs` | theorems about the account under any operator | `ZoroPoolAccount`, `FiniteSums` |
| `PoolViewProofs` | theorems about the arithmetic, the operator and the position's note | `PoolView`, `DummyCurve`, `ZoroPoolAccountProofs` |
| `OrderFlowProofs` | theorems about `OrderFlow`, its refinement of `OrderLifecycle` included | `OrderFlow` |
| `GuardedFaucetProofs` | theorems | `GuardedFaucet`, `FiniteSums` |
| `NotesListenerProofs`, `WebSocketEventsProofs`, `OracleFeedProofs` | theorems | their component |
| `MC...` | instances for TLC | their component |

Definitions whose comment starts with "Fault:" are not part of the model. Each is
a plausible mistake in the definition after it, and putting it in that definition's
place makes a run fail; `PROJECT.json` records which.

### ZoroPoolAccount

Each variable is a storage slot, the vault, the set of committed notes, or the
users' wallets. An assertion of the masm code aborts the transaction, so it is a
conjunct of a guard; the `..._ok` operators collect the assertions of a procedure.

- The scripts' arguments come from `\E` over `Amounts` and `PoolArgs`: the module
  is about what the account guarantees by itself, with a wrong or dishonest server.
- `set_pool_state_ok` keeps the field: twice the liabilities is a product modulo `P`.
  `safe_add` and `safe_sub` wrap and refuse as `math.masm` does.
- One note is consumed per step. A transaction with several notes runs their scripts
  one after the other against the same account, so it reaches a state that single
  steps reach.
- A P2ID output is credited to its target at once: nothing in this repository can
  keep the target from consuming it.
- WITHDRAW does not look at the minimum of `MIN_ASSET_OUT`; withdrawing 0 shares
  aborts, as the new share must be strictly smaller; a swap of an asset for itself
  is possible.
- A DEPOSIT or ZOROSWAP note below its minimum is meant to bounce, that is, to be returned to its
  sender. The bounce always aborts, so a minimum that is met is a guard of `ConsumeDeposit` and
  `ConsumeSwap`. Two mistakes in `common.masm` are behind that: lines 339-344 load the asset's value
  and then its key over it, `mem_storew_be` leaves its operand on the stack, and the output
  asset gets the key as its value, which the kernel refuses; lines 379-384 store the
  sender's prefix, which already pops it, and then drop the suffix, so that the output note would not
  be for the sender either. An aborted transaction changes nothing and is no step, and the
  note stays. No test of the repository lets a note bounce.
- `signature` and reclaim procedures of POSITION are stubs that return true; what
  keeps strangers from reclaiming is not in this repository, so only the
  beneficiary reclaims here.
- Moves by the operator's own account components (single-signature authentication,
  basic wallet) are outside the repository and not modelled.

### PoolMath, DummyCurve

The three computations, with every `Wrap` where `ruint`'s operators wrap, and every
saturation and minimum where the code has one. The curve is a constant operator: the
proprietary one is not in the repository, so properties of a run hold for the default
build's `DummyCurve`. Decimals and the price scale of 10^12 are one constant,
`PriceScale`, and the quotient of two oracle prices is a member of `Prices`. The
protocol fee (0 in the code's settings) is a part of `BackstopFee`.

### ZoroPool

Adds the operator's `pool_states` to the account, and one action per kind of note and
outcome: accepted, past its deadline, refused, panicked. Arguments are computed by
`PoolMath` and converted by `ToArgs` (saturate or panic at u64, then reduce to the
field).

- A transaction that is refused changes nothing and is no step.
- The sync between submission and the assignment to `pool_states` may fail
  (`Submitted`), and the copy is stale from then on. `mirror` records this; it is an
  observer and guards nothing.
- As bounces abort, what the server means to give back is not given back, and the note
  aborts the whole batch it is in: a refused swap that names a minimum, a deposit past
  its deadline, and a deposit of less than its `min_lp_amount` (which the server does not look at).
  Two cases have a minimum of 0 and so no bounce. A deposit past its deadline is
  refused by the client, which misses the P2ID note that `pool_execution.rs` told it to expect;
  a swap is consumed for an amount out of 0. `ExecuteDeposit` and `ExecuteSwap` have
  these cases: past its deadline a deposit can only panic.
- `Restart` is `update_pool_state_from_chain`.

### PoolView

Adds to `ZoroPool` the entry of `AmmState::positions` for one position. `add_position` is
`POST positions/new`, `TradePosition` a trade on the stored note, with the output note
of `respawn_position_note` on the one side and the note POSITION recreates on the other.
A trade may be refused (the note goes back), fail at the sync after submission (the
server keeps a consumed note), or panic; the owner may reclaim the note at any time; a
restart forgets the entry. Both sides build the note with `RecreatedNote`, so what a note says
besides its serial number, script, storage and assets is not compared: `note.rs:111`
and `respawn.masm` (lines 146-160) give it different metadata (tag and note type), which are
no part of its id. A trade of an asset for itself is possible when the position has none of it:
the list of assets of the new note would otherwise name it twice.

### OrderFlow

Every access to a map is a step; an iteration over a map is one step. `call[o]` is the
call of `add_order` for order `o`, with the map it fills next; `step` is the engine's
place in its cycle.

- `Prepare` is `execute_notes` up to the transaction request. What the arithmetic
  answers for a note is a choice (`Outcomes`), as `ZoroPool` is about that. Where two
  orders share a note, the code's maps keep the last answer and `get_order_id` finds
  any of the orders: `last`, `trade` and `Report`'s `o` are choices too. `trade` is the
  order whose entry in `additional_details` the note was executed with.
- An input whose script bounces aborts the transaction. Where it can be (`Prepare`, an input that is a
  DEPOSIT or ZOROSWAP note), the step after `Prepare` may be `abort`, from which
  `ExecuteTxFails` is the only way on. That is no fault: a price that moves below the minimum
  of one swap is enough. The other orders of its batch then stay Matched and
  their notes are gone.
- The preliminary task is spawned on the engine's own current-thread runtime: it
  cannot run before the engine awaits, and it has run when the next await of a
  network call returns.
- The listener's store may lag behind the chain, so it may add a note that is already
  consumed.
- `Faults` names what may fail outside: a note that makes the batch return early
  (`error`), an unwrapped curve error (`panic`), a refused transaction (`tx`), and the
  sync after submission (`sync`). A transaction with a duplicate or consumed input is
  refused without any fault.
- The statuses Failed and Expired are one. There is one position.
- `OrderLifecycle` has four variables: how far each order has come (`phase`), its note,
  the notes spent, and the status told last. `PhaseOf` computes the phase from the call's
  place and the maps, and `ImplementsLifecycle` is `OrderLifecycle`'s specification under
  that mapping. It promises no more than the code: an order may be dropped by the
  flush, and Pending may be told late.

### NotesListener

A note is a record of what the listener tells notes apart by: its script, whether it is
public, the length of its storage, whether its contents parse, and the faucets it names.
`sync_state` copies the chain into the store, or fails and leaves the store as it was;
`FilterNotes` fills `valid_notes`; each of these is then added, refused, or panics at the
slice of its storage. `FilterFails` skips the round: one record that cannot be converted, or an
error of the store, fails the whole of it. None of the three error texts that would put a note into
`processed_notes` is ever produced by `add_order`, so `AddOrderFails` only fills
`failed_notes`. `Restart` deletes the store, the maps and the sets.

### OracleFeed

Of a price only its publish time is kept. `SendFetch` and `FetchArrives` are the answer and
its arrival at startup, during which the oracle goes on; `StartTasks` starts engine and
feed, in either order, once it is stored. `Publish` sends a message on an open stream,
`Drop` closes it and loses the wire, `Connect` is the outer loop. `StorePrice` is one
insertion of `update_oracle_prices`, `BroadcastPrice` one broadcast after all of them. The
engine checks (`CheckPrices`), flushes, and copies (`CopyPrices`) with the feed in between.

### WebSocketEvents

One stream of the four; the other three have tasks and channels of their own that differ
in the type of event. A connection's handler is sequential (`handler[c]`): subscribing and
its acknowledgement are two steps, as are the halves of `remove_connection`, which
walks the subscription entries one by one. The heartbeat finds stale connections and
then removes them, one after the other, whatever they have sent since. `queue` and `lagged`
are a `tokio::sync::broadcast` channel with one receiver. `acked` and an event's `owed` are
observers: the acknowledged subscriptions on whose account the event is still to be
delivered. The queue of a connection is unbounded and its socket is outside.

### GuardedFaucet

`senders` are handlers in `Sender::send().await`: they wait in order, a place is given
to the first, and a client that hangs up cancels its own. The thread takes a batch
(`recv_many`), goes through the configured pools, and for each pool syncs (`SyncFails` ends the
process) and goes through the batch (`MintForPool`): of the instructions for the pool's faucet
(`Mine`) the first of each account whose last mark is old enough (`Free`) gets a note, later
ones of the same account are refused, and marks are made when a note is made and before the
transaction is submitted. `outcome` and `minted` are observers. The time of a mint in
`minted` is the guard's stamp (`faucet.rs:71`); the transaction is submitted after the awaits of
lines 99-102, so two submissions can be closer to each other than two stamps.

## Runs

| Run | Configuration | Shows |
|---|---|---|
| `account_lp` | one pool, two users, field of 7, amounts {0, 2, 5} | `TypeOK`, `Solvent`, `LpSupplyIsSumOfShares`, `MinimumHonoured` with sums that wrap |
| `account_swap` | two pools, one user, two serials, field of 5 | `Solvent`, `AssetsConserved`, `MinimumHonoured` through swaps, recreated and reclaimed positions |
| `pool` | two pools, one user, two serials, four notes, two prices, u64 of 32 values, field of 29 | `PoolTypeOK`, `MirrorAgrees`, `SharePriceNeverFalls`, `WithdrawMinimumHonoured`, `FailedMovesNothing`, `RespawnAgrees` |
| `order_flow` | three orders from handlers and positions, one plain and three position notes, all faults | `TypeOK`, `FlushedOrdersHaveNotes`, `ExecutedMeansConsumed`, `FinalStaysFinal`, `ExecutedOwnTrade`, `ImplementsLifecycle` |
| `order_liveness` | two orders from all three sources, no faults, fairness | `PositionNoteLive`, `OpenOrdersLeave`, `FlushedOrdersSettle` |
| `events` | two connections, one topic, a channel of one event, fairness | `TypeOK`, `ClosedLeavesNothing`, `SubscriberMissesNothing`, `ForwarderCatchesUp`, `SilentClientLeaves` |
| `faucet` | one account, two faucets, a queue of three, batches of two, four requests, all faults, fairness | `TypeOK`, `MintsSpaced`, `AcceptedOnce`, `RefusalsJustified`, `AcceptedIsDecided` |
| `oracle` | two pools, a drop, an unreadable message, four moments, fairness | `TypeOK`, `ToldNotAhead`, `FreshPricesUsed`, `PricesNeverGoBack`, `FeedGoesOn` |
| `listener` | two orders, an order for an unlisted asset, a mint note, a private order, a restart, fairness | `TypeOK`, `NoteHandledOnce`, `NoteBecomesOrder` |
| `deposit_credit` | two pools, one serial, five notes | violates `DepositCreditedAsReported` |
| `order_lost` | two orders from handlers | violates `NoOrderLost` |
| `stale_prices` | as `oracle`, with the hexadecimal ids of the example configuration | violates `FreshPricesUsed` |

**Bounds.** Every set of the constants is finite, and the names of the bounds are
`Amounts`, `PoolArgs`, `Serials`, `Endowment`, `MaxNotes`, `Prices`, `Orders`, `Notes`.

- The account runs have a field small enough that additions of shares and the doubled
  liabilities wrap, and `PoolArgs` holds a state for each assertion of `set_pool_state`
  to reject and states to accept. Two users are needed for a supply that differs from a
  share; two serials for a note that is recreated beside another.
- The pool run lets four notes of any kind follow each other, a position being recreated by
  any number of trades: deposits into both pools, swaps or trades at different prices, and
  a deposit or withdrawal that meets the unequal ratio and its rounding (the rounding fault
  of a deposit is found with four). Two serials are the least for a position that is
  recreated. U64 is above the field modulus as in the code.
- Three orders are the least for one order to be in a batch, one in the gap of the
  flush and one waiting, or for two orders with one note beside a third one. Three
  position notes allow a position to be replaced twice. The listener differs from a
  handler by its announcement, which position orders have too, and by never adding a note
  twice; it takes part in `order_liveness`.
- A channel of one event (`Capacity`) lags as soon as two are sent (`MaxEvents`), and two
  connections are the least for one to leave while the other is served.
- A queue of three (`QueueSize`), batches of two (`Limit`) and four requests (`MaxRequests`)
  make a handler wait and leave a rest in the queue. Accounts never meet: everything is
  kept per account and faucet, so the two faucets of one account are two keys. `Guard` of 2 and `MaxTime`
  of 3 let a request come after the guard. `Word` is the u64.
- Four moments (`MaxTime` 3) with `MaxAge` 1 let a price become stale twice; `MaxDrops` and
  `MaxGarbled` are 1.
- One restart (`MaxRestarts`) can fall between any two steps of a round.
- Symmetry is used only in runs without liveness formulas. Faucets are interchangeable in
  `pool`, so are serials, orders, and notes of one kind.

**Deadlock.** The account and pool runs end when the bound on notes is reached, the order
flow ends for ever after a panic, and the events, requests, messages and notes of the other
runs are bounded; those configurations do not check deadlock. `order_liveness` and
`order_lost` do.

**Fairness.** No fairness is assumed of users, clients, the oracle or the chain.

- `OrderFlow`: weak on `Engine` and `PrelimBroadcast`. The engine is a loop on an interval
  timer in a thread of its own, and the spawned task is polled whenever that thread
  awaits. The one check that skips a cycle, `prices_are_stale`, compares the names ETH and
  BTC with hexadecimal oracle ids, so it never skips any. `order_liveness` has no faults: with
  them a cycle ends without an outcome, and the notes it took are gone. A bounce is no
  fault and has the same effect, so `FlushedOrdersSettle` excepts a batch that one aborts.
- `WebSocketEvents`: weak on `Heartbeat`, a task on an interval timer, and on `Forwarder`,
  which starts with the server and loops. A handler that is between its two steps of a
  subscription need not go on.
- `GuardedFaucet`: weak on the thread, a loop in a thread of its own, and on `Enqueue`: a
  tokio channel gives a free place to the first waiting sender.
- `OracleFeed`: weak on the steps of the startup, which `main` blocks on (without an answer
  the server does not start), and on the feed's task, whose outer loop never ends.
- `NotesListener`: weak on the loop, strong on `sync_state` and on the reads of the store
  (`SyncState`, `FilterNotes`): what can succeed again and again does not fail every time. Without
  it a node that never answers starves the listener, as it does the server.

## Findings

1. `deposit_credit`: the server passes the deposited amount where DEPOSIT expects the
   LP amount, and reports the LP amount it computed. After fees the chain credits more
   shares than reported, and the two LP supplies differ.
2. `order_lost`: an order inserted between the snapshot and the clear of
   `flush_open_orders` is acknowledged and never seen again.
3. `stale_prices`: `CANARY_TOKENS` names ETH and BTC and is compared with hexadecimal oracle
   ids, so no price is ever found stale. The passing run `oracle` gives the canaries ids
   that exist, and shows that the check would then do what its comment says.

Further disagreements, which the models have and the properties leave out by a named
condition:

- A note below its minimum is not returned to its sender: the bounce writes a wrong asset and a wrong
  target, and aborts (`common.masm` lines 339-344 and 379-384, see the section on
  `ZoroPoolAccount`). `output_note_utils.masm:59` says "Returns the active note as a p2id back to the
  sender", `ZOROSWAP.masm:25` "min amount out is not met, return asset in to the sender",
  `pool_execution.rs:94` "Return the asset back to the creator of this failed deposit". No run
  shows it: the abort is a guard of the model. What follows from it, that one such note
  aborts the batch of all, is in `OrderFlow`.
- `curve.rs:45` documents an error when the amount out exceeds the reserve; the
  subtraction wraps, the call returns Ok with 0, and the operator's copy of the quote
  pool keeps the wrapped reserve cut to `reserve_with_slippage`.
- `amm_state.rs:230` says that `pluck_note` clones the note; it removes it, and an order
  of a failed cycle cannot be tried again.
- Two orders that name one note (`NoteShared`): `additional_details` and `results` are keyed by
  note, and `get_order_id` finds any order. In one batch both trades on a position run with the
  later details; when the first is executed and the second refused, the position is left with
  the consumed note; an outcome can reach the wrong order.
- `respawn_position_note` drops an asset of the position that is neither sold nor bought; the
  script keeps it. The server is then left with a note that does not exist.
- `subscribe` does not look at `connections`: a client the heartbeat has removed can subscribe
  until its socket closes.
- The conversion to `NoteInstructions` slices the storage up to its tenth item: a P2ID note
  for the pool, which has two, panics in the listener (`AddOrderPanics`); `notes_listener.rs:125`
  expects such notes to be marked as processed.
- Pool states shown by `GET /pools/balance` are set when the engine starts and not after
  executions. Two pools with one oracle id: only the first gets prices.

## Theorems

Every invariant and every action property that a passing run checks is also a theorem, but for
`FreshPricesUsed`.
Each theorem holds for every value of the constants that meets the named assumption of its
module; TLC evaluates these assumptions in the runs. A hypothesis that the code itself does
not guarantee stands in the theorem, and is discussed below.

### The account: `ZoroPoolAccountProofs`

From `AccountAssumption`: finitely many faucets and users, a modulus above 1, amounts and
pool arguments in the field. The lemmas are about `AnyNext`, the steps of the account with any
field elements as amounts and arguments, of which `Next` is a part; this lets them be used
again for the operator.

- `AccountTypeOK`: `TypeOK` is inductive by itself. Guards make each subtraction
  natural, `safe_add` and `safe_sub` stay in the field.
- `AccountSolvent`: `TypeOK /\ Solvent` is inductive. The field product is at most the
  natural one, so the assertion of `set_pool_state` implies the coverage ratio; each path
  that changes a balance writes a state validated against the changed balance. A swap
  has the case of two pools and that of one pool, whose first state is overwritten.
- `AccountHonoursMinimum`: an action property, from `TypeOK`: a note that is consumed got its
  minimum. An addition that `safe_add` accepts did not wrap, so the credited shares are what was
  passed, and a note that is below its minimum is not consumed because its bounce aborts.
- `AccountSupplyIsShares`: `SharesInv` adds that a WITHDRAW note names a field element, without
  which `safe_sub` could be given a number that it reduces. The user's entry and the supply
  change by the same amount, and the sum of the entries by the amount of the one that changed.
- `AccountConservesAssets`: `ConservedInv` adds that there are finitely many notes. Each
  action changes vault, notes and one wallet, and `Balanced` says when the total is kept.

`FiniteSums` proves what these two need of `SumFunction`: a sum has one term less without a
member of its set, does not depend on the order in which it is taken, and changes as its terms
do. The library's induction theorems cannot be used, so induction over the subsets of a finite
set is done by hand, by looking at a smallest counterexample (`LeastMember`, `SubsetsInduction`).

### The operator: `PoolViewProofs`

From `ZoroPoolAssumption` (the largest amount of an asset is a field element, and the field
has at most as many elements as a u64 has values: the modulus of the Miden VM is
2^64 - 2^32 + 1) and `PoolMathAssumption` (a product of two u64 fits a U256). The curve is any
curve with `CurveReturnsU256`, what the types of the trait `Curve` say. That and
`CurveIncrementsFit` are hypotheses of the theorems and not assumptions of the modules, as TLC
would have to go through all triples of U256; `DefaultCurveFits` proves both for the curve of the
default build, at any widths.

`DepositMath`, `WithdrawMath` and `CurveMath` say what the three computations do to a pool: all
balances stay U256, what is received is added to the reserve with slippage, and no more is
paid than it. `ViewInv` is the inductive invariant: the account is well typed, solvent and
bounded, the books are well typed, and `MirrorExact`: while the copy is fresh it is what the
account stores and each reserve with slippage fits a field element. The last part is what
makes it inductive. The amount out of an accepted swap that did not fit would be reduced by
`Felt::new`, and the vault would pay another amount than the operator books; it fits because the
reserve is what the account stores, the account's reserve is covered by its vault, and a vault holds
no more than the maximum of an asset.

- `OperatorTypeCorrect`: `PoolTypeOK`.
- `MirrorStaysExact`: `MirrorAgrees`, through every kind of execution, restarts and panics.
- `OperatorIsAnOperator`: each step of `PoolView` is a step of the account or changes nothing
  there, so that `PoolView` implements the account with any operator.
- `OperatorKeepsAccount`: therefore `TypeOK`, `Solvent`, `LpSupplyIsSumOfShares`,
  `AssetsConserved` and `MinimumHonoured` hold of the whole system.
- `FailedOrdersMoveNothing`: `FailedMovesNothing`, in every state of the books. An order that is
  reported as failed leaves vault, pool states, shares and the operator's books alone; it may still
  consume a swap's note whose minimum is 0.
- `WithdrawalsPayTheirMinimum` and `PositionsRespawn`: `WithdrawMinimumHonoured` and
  `RespawnAgrees` as long as `BooksFit` holds, that is, the reserves with slippage in the
  operator's books are below the modulus. Both theorems say first that this is so while the copy is
  fresh. For stale books, that is after a failed sync until the next restart, it is a hypothesis and
  not a consequence: transactions that the account accepts move them further, and what
  covers the account's reserves says nothing about them any more.
- `SharePriceDoesNotFall`: `SharePriceNeverFalls`, as long as `BooksFit` and `LiabilitiesFit` hold (the
  liabilities fit a u64) and the curve's increments leave a U256 room for their products
  (`CurveIncrementsFit`). `SharesIssued` and `SharesBurnt` are the two inequalities: shares rounded
  down for what is added, a payment rounded down for what is burnt. Without the hypotheses `Wrap`
  could turn a product into a smaller one. The executions check that liabilities fit a u64 in a
  deposit and a withdrawal, but not in a swap, where they are saturated.

### The order flow: `OrderFlowProofs`

From `OrderFlowAssumption` (any number of orders and notes, any subset of sources and
faults).

`FlushedOrdersHaveNotes` and `ExecutedMeansConsumed` are not inductive: the first needs to
know that a caller that is about to open its order has stored the note and that a flushed
order is not open again, the second that a success waiting to be reported belongs to an input
of a submitted transaction and that the preliminary task never says Executed. `Inv` adds
these as `CallsInv` and `ResultsInv`, and is proved in one step per action.

- `PluckNeverMisses`: `Spec => []FlushedOrdersHaveNotes`.
- `ExecutedIsTrue`: `Spec => []ExecutedMeansConsumed`.
- `OrderFlowTypeOK`: `Spec => []TypeOK`.
- `OrderFlowImplementsLifecycle`: `Spec => ImplementsLifecycle`, the refinement mapping of
  `OrderFlow`. `Inv` does not say that an order the engine has taken is not open again;
  `TakenInv` adds that open and closed orders are disjoint, that the batch was open until the
  flush is over and is closed from then on, that what the preliminary task has to announce
  was in a batch, and that a transaction has inputs. With it each action of `OrderFlow` is a
  step of `OrderLifecycle` or a stutter; a step is looked at by what it does to phases
  (`PhaseKept`), what it tells (`TellStep`), what it spends (`SpendStep`) and what it takes
  (`TakeStep`).
- `PositionStaysLive`: `PositionNoteLive` unless `sync` is among the faults (that sync comes
  before the position's note is replaced: with it the server keeps a consumed note). The
  invariant is `PositionInv`: orders of the position that name different notes have one
  that is the position's at most, and a consumed one is about to be replaced by a result.
- `FinalIsFinal`, `ExecutedIsOwnTrade`: `FinalStaysFinal` and `ExecutedOwnTrade`, action
  properties about an order that shares its note with no other one (`Sole`). `FinalInv` says
  that such an order has a final status only when it is closed, never while it is in a batch
  that is not executed yet, and that a status it has agrees with the result and the
  preliminary status that are still to be broadcast. `TradeInv` says that a result is that of
  the order's own trade. Both are needed because results, preliminary statuses and
  `additional_details` are maps by note id or order id that outlive the step that filled them.

### The other components

`NotesListenerProofs`, from `ListenerAssumption`. `ListenerHandlesOnce` needs that the notes
of a round that are still to be added are neither processed nor failed, and that what was
counted for a note is what the two sets remember (`SeenInv`). `ListenerTypeOK` is `TypeOK`.

`WebSocketEventsProofs`, from `EventsAssumption`, for any connections and topics and any capacity.

- `ClosedIsGone`: `Spec => []ClosedLeavesNothing`, from `CleanupInv`: a handler that cleans up
  has removed its connection, and itself from all channels but those it has left.
- `SubscribersServed`: `Spec => []SubscriberMissesNothing`, from `FullInv`. It relates what an event
  owes to the stages it passes: an event in the channel owes subscribers who are still in the
  maps, the one being forwarded those that were copied and not yet sent to.
- `EventsTypeCorrect`: `TypeOK`, a part of the same invariant.

`OracleFeedProofs`, from `OracleAssumption` (the pools are a sequence, so that there are
finitely many oracle ids).

- `PricesOnlyGoForward`: `Spec => PricesNeverGoBack`. `OrderInv` orders the stored prices, the
  message being stored, those on the wire and the published times; `FetchFirst` says that the
  answer to the fetch, which is not ordered with the stream, is stored before the stream
  begins. Without it the property is not inductive, and the mutant that opens the stream
  early breaks it.
- `ClientsNotAhead`: `Spec => []ToldNotAhead`: what is left to broadcast is stored already, and
  stored prices do not go back.
- `MonitoredPricesFresh`: `Spec => []MonitoredFresh`, for any canaries: each price the engine executes
  with that the canaries name was there, and fresh, when the cycle checked it. It is what the code
  guarantees of `FreshPricesUsed` without any hypothesis on the canaries. In the deployed configuration
  the canaries name no price (finding 3), and it says nothing about the others.
- `TypeCorrect`: `TypeOK`.

`GuardedFaucetProofs`, from `FaucetAssumption`.

- `FaucetTypeCorrect`: `TypeOK`, the bounds of the queue and of a batch included.
- `AcceptedServedOnce`: `AcceptedOnce`; the waiting senders, the queue and the batch hold different
  requests.
- `GuardSpacesMints`: `MintsSpaced`; a mark of an account is as recent as its last mint.
- `GuardRefusesJustly`: `RefusalsJustified` where each faucet has one pool (`Distinct`). With two
  pools of one faucet the second would refuse what the first one served.

**Only model-checked.** Liveness under fairness is out of the prover's reach:
`OpenOrdersLeave`, `FlushedOrdersSettle`, `ForwarderCatchesUp`, `SilentClientLeaves`,
`AcceptedIsDecided`, `FeedGoesOn` and `NoteBecomesOrder` stay with TLC, and so do the three
runs that show a disagreement. `FreshPricesUsed` stays with TLC too: it holds of canaries that name
the ids of the high-liquidity pools, as in the run `oracle`, and not of those in the code.

## Not modelled

- The proprietary curve, the Miden VM, kernel and client: not in the repository. Their
  effects on this code are guards and failures.
- Encoding of notes to words, hex and base64, logging, configuration, deployment tools:
  formatting and I/O.
- The pool states the server shows and broadcasts (`set_pool_states`): written once. The
  statistics stream and the read-only endpoints.
- A sequence of restarts in `OrderFlow`: nothing is persisted there, so a restart is
  `Init`, and the maps that are lost are lost. `ZoroPool`, `PoolView` and `NotesListener` have
  restarts.
- A clock that is set back in `GuardedFaucet`: the subtraction panics in a development
  build and wraps in a release build.

## Plan

Every component with concurrent state is modelled, and every safety property but one is proved. What
could be proved beyond that:

1. How far stale books can be from the account: a bound that would turn `BooksFit` from a
   hypothesis into a consequence needs a bound on what is executed between a failed sync and the
   next restart.
2. That the account keeps its properties when a transaction consumes several notes, as a theorem
   about sequences of `AnyNext` instead of the argument in the section on `ZoroPoolAccount`.
3. Safety parts of the liveness properties, such as that an order which the engine has flushed is
   told an outcome before the next flush.
