----------------------------- MODULE OracleFeed -----------------------------
(***************************************************************************)
(* Prices on their way from the oracle to the trading engine: the fetch at *)
(* startup, the event stream that may break at any time, the map of prices *)
(* in AmmState, and the engine that looks at some of them before it takes  *)
(* a copy.  Of a price only the time at which it was published is kept.    *)
(*                                                                         *)
(* The feed runs on the main runtime and the engine on a thread of its     *)
(* own; every access to the map of prices is a step, and so is a copy.     *)
(***************************************************************************)
EXTENDS Integers, Sequences, SequencesExt

CONSTANTS
  Pools,      \* the faucets of the configured pools, in order
  OracleId,   \* faucet -> oracle id in the configuration
  Canaries,   \* CANARY_TOKENS, the ids prices_are_stale asks for
  Liquid,     \* the pools of the high-liquidity tokens
  MaxAge,     \* MAX_PRICE_AGE_SECS
  NoPrice,    \* no entry in the map
  MaxTime, MaxDrops, MaxGarbled   \* bounds

Faucets   == Range(Pools)
OracleIds == {OracleId[f] : f \in Faucets}

ASSUME OracleAssumption ==
  /\ Pools \in Seq(DOMAIN OracleId) /\ Liquid \subseteq Faucets
  /\ MaxAge \in Nat /\ MaxTime \in Nat /\ MaxDrops \in Nat /\ MaxGarbled \in Nat
  /\ NoPrice \in Int /\ NoPrice < 0

VARIABLES
  now,            \* the clock
  published,      \* oracle id -> when the oracle last published its price
  fetch,          \* the fetch at startup, and the answer that is on its way
  stream,         \* the event source: "off", "closed" or "open"
  wire,           \* messages the oracle has sent on the open stream
  updates,        \* the entries of a message that are still to be stored
  events,         \* the entries of that message that are still to be broadcast
  oracle_prices,  \* AmmState::oracle_prices
  told,           \* observer: faucet -> the price clients were told of last
  drops, garbled, \* how often the stream broke, how many messages were unreadable
  engine          \* the engine's step, the time of its check, its copy

feed == <<fetch, stream, wire, updates, events, told, drops, garbled>>
vars == <<now, published, feed, oracle_prices, engine>>

Times    == 0..MaxTime
Update   == [id : OracleIds, at : Times]
PriceMap == [Faucets -> Times \cup {NoPrice}]
NoPrices == [f \in Faucets |-> NoPrice]

TypeOK ==
  /\ now \in Times /\ published \in [OracleIds -> Times]
  /\ fetch \in [state : {"new", "sent", "storing", "done"}, answer : Seq(Update)]
  /\ stream \in {"off", "closed", "open"}
  /\ wire \in Seq(Seq(Update)) /\ updates \in Seq(Update) /\ events \in Seq(Update)
  /\ oracle_prices \in PriceMap /\ told \in PriceMap
  /\ drops \in 0..MaxDrops /\ garbled \in 0..MaxGarbled
  /\ engine \in [step : {"off", "tick", "checked", "execute"}, checked : Times, prices : PriceMap]

Init ==
  /\ now = 0 /\ published = [id \in OracleIds |-> 0]
  /\ fetch = [state |-> "new", answer |-> <<>>]
  /\ stream = "off" /\ wire = <<>> /\ updates = <<>> /\ events = <<>>
  /\ oracle_prices = NoPrices /\ told = NoPrices
  /\ drops = 0 /\ garbled = 0
  /\ engine = [step |-> "off", checked |-> 0, prices |-> NoPrices]

-----------------------------------------------------------------------------
(* The oracle *)

Tick ==
  /\ now < MaxTime
  /\ now' = now + 1
  /\ UNCHANGED <<published, feed, oracle_prices, engine>>

\* The oracle publishes some prices; an open stream gets them in one message.
Publish(ids) ==
  /\ ids # {} /\ \E id \in ids : published[id] < now
  /\ published' = [id \in OracleIds |-> IF id \in ids THEN now ELSE published[id]]
  /\ wire' = IF stream = "open"
             THEN Append(wire, SetToSeq({[id |-> id, at |-> now] : id \in ids}))
             ELSE wire
  /\ UNCHANGED <<now, fetch, stream, updates, events, oracle_prices, told, drops, garbled, engine>>

-----------------------------------------------------------------------------
(* Startup *)

\* init_prices_in_state asks for the prices of all pools ...
SendFetch ==
  /\ fetch.state = "new"
  /\ fetch' = [state |-> "sent", answer |-> SetToSeq({[id |-> id, at |-> published[id]] : id \in OracleIds})]
  /\ UNCHANGED <<now, published, stream, wire, updates, events, oracle_prices, told, drops, garbled, engine>>

\* ... and stores the answer.  Without one the server does not start.
FetchArrives ==
  /\ fetch.state = "sent" /\ updates = <<>>
  /\ updates' = fetch.answer
  /\ fetch' = [state |-> "storing", answer |-> <<>>]
  /\ UNCHANGED <<now, published, stream, wire, events, oracle_prices, told, drops, garbled, engine>>

\* Fault: the stream is opened without waiting for the fetch.
Initialised_not == TRUE

\* main blocks on the initialisation before it starts the threads.
Initialised == fetch.state = "done"

\* The engine starts, and so does the feed.
StartTasks ==
  \/ /\ engine.step = "off" /\ fetch.state = "done"
     /\ engine' = [engine EXCEPT !.step = "tick"]
     /\ UNCHANGED <<now, published, feed, oracle_prices>>
  \/ /\ stream = "off" /\ Initialised
     /\ stream' = "closed"
     /\ UNCHANGED <<now, published, fetch, wire, updates, events, oracle_prices, told, drops, garbled, engine>>

-----------------------------------------------------------------------------
(* OracleSSEClient::start *)

\* Fault: no outer loop, a stream that broke is not opened again.
Connect_once ==
  /\ stream = "closed" /\ drops = 0 /\ updates = <<>> /\ events = <<>>
  /\ stream' = "open"
  /\ UNCHANGED <<now, published, fetch, wire, updates, events, oracle_prices, told, drops, garbled, engine>>

Connect ==
  /\ stream = "closed" /\ updates = <<>> /\ events = <<>>
  /\ stream' = "open"
  /\ UNCHANGED <<now, published, fetch, wire, updates, events, oracle_prices, told, drops, garbled, engine>>

\* The stream ends or reports an error: it is closed, what was on the wire is
\* lost, and after a pause the loop connects again.
Drop ==
  /\ stream = "open" /\ drops < MaxDrops
  /\ updates = <<>> /\ events = <<>>
  /\ drops' = drops + 1
  /\ stream' = "closed" /\ wire' = <<>>
  /\ UNCHANGED <<now, published, fetch, updates, events, oracle_prices, told, garbled, engine>>

\* Fault: the clients are told first.
Message_told ==
  /\ stream = "open" /\ updates = <<>> /\ events = <<>> /\ wire # <<>>
  /\ updates' = Head(wire) /\ events' = <<>>
  /\ told' = FoldLeft(LAMBDA t, u : [f \in Faucets |-> IF OracleId[f] = u.id THEN u.at ELSE t[f]], told, Head(wire))
  /\ wire' = Tail(wire)
  /\ UNCHANGED <<now, published, fetch, stream, oracle_prices, drops, garbled, engine>>

\* update_prices_in_state takes a message apart.
Message ==
  /\ stream = "open" /\ updates = <<>> /\ events = <<>> /\ wire # <<>>
  /\ updates' = Head(wire) /\ events' = Head(wire)
  /\ wire' = Tail(wire)
  /\ UNCHANGED <<now, published, fetch, stream, oracle_prices, told, drops, garbled, engine>>

\* Fault: the error is returned to the caller, which gives up.
GarbledMessage_ends ==
  /\ stream = "open" /\ updates = <<>> /\ events = <<>> /\ wire # <<>> /\ garbled < MaxGarbled
  /\ garbled' = garbled + 1
  /\ stream' = "ended" /\ wire' = <<>>
  /\ UNCHANGED <<now, published, fetch, updates, events, oracle_prices, told, drops, engine>>

\* A message that cannot be parsed is logged and dropped.
GarbledMessage ==
  /\ stream = "open" /\ updates = <<>> /\ events = <<>> /\ wire # <<>> /\ garbled < MaxGarbled
  /\ garbled' = garbled + 1
  /\ wire' = Tail(wire)
  /\ UNCHANGED <<now, published, fetch, stream, updates, events, oracle_prices, told, drops, engine>>

\* The first pool in the configuration with an oracle id, if there is one.
oracle_id_to_faucet_id(id) ==
  LET found == {i \in DOMAIN Pools : OracleId[Pools[i]] = id}
  IN  {Pools[i] : i \in {i \in found : \A j \in found : i <= j}}

\* One insertion of update_oracle_prices; the publish time is not looked at.
StorePrice ==
  /\ updates # <<>>
  /\ LET update == Head(updates)
     IN  oracle_prices' = [f \in Faucets |->
           IF f \in oracle_id_to_faucet_id(update.id) THEN update.at ELSE oracle_prices[f]]
  /\ updates' = Tail(updates)
  /\ fetch' = IF fetch.state = "storing" /\ updates' = <<>> THEN [fetch EXCEPT !.state = "done"] ELSE fetch
  /\ UNCHANGED <<now, published, stream, wire, events, told, drops, garbled, engine>>

\* One call of broadcast_oracle_price, after all insertions.
BroadcastPrice ==
  /\ updates = <<>> /\ events # <<>>
  /\ LET event == Head(events)
     IN  told' = [f \in Faucets |-> IF f \in oracle_id_to_faucet_id(event.id) THEN event.at ELSE told[f]]
  /\ events' = Tail(events)
  /\ UNCHANGED <<now, published, fetch, stream, wire, updates, oracle_prices, drops, garbled, engine>>

-----------------------------------------------------------------------------
(* The trading engine's use of the prices *)

Monitored == UNION {oracle_id_to_faucet_id(id) : id \in Canaries}

\* Fault: one fresh price is enough.
oldest_stale_price_any ==
  /\ Monitored # {}
  /\ \A f \in Monitored : oracle_prices[f] # NoPrice /\ now > oracle_prices[f] + MaxAge

\* oldest_stale_price has something to report; an age below zero counts as 0,
\* and a canary without a price is fresh.
oldest_stale_price ==
  \E f \in Monitored : oracle_prices[f] # NoPrice /\ now > oracle_prices[f] + MaxAge

\* prices_are_stale: the cycle is skipped, or goes on.
CheckPrices ==
  /\ engine.step = "tick"
  /\ ~oldest_stale_price
  /\ engine' = [engine EXCEPT !.step = "checked", !.checked = now]
  /\ UNCHANGED <<now, published, feed, oracle_prices>>

\* The copy for the execution, taken after the orders were flushed and plucked.
CopyPrices ==
  /\ engine.step = "checked"
  /\ engine' = [engine EXCEPT !.step = "execute", !.prices = oracle_prices]
  /\ UNCHANGED <<now, published, feed, oracle_prices>>

\* The end of the cycle.
EndCycle ==
  /\ engine.step = "execute"
  /\ engine' = [step |-> "tick", checked |-> 0, prices |-> NoPrices]
  /\ UNCHANGED <<now, published, feed, oracle_prices>>

-----------------------------------------------------------------------------
Feed == Connect \/ Message \/ StorePrice \/ BroadcastPrice

Next ==
  \/ Tick \/ (\E ids \in SUBSET OracleIds : Publish(ids))
  \/ SendFetch \/ FetchArrives \/ StartTasks
  \/ Feed \/ Drop \/ GarbledMessage
  \/ CheckPrices \/ CopyPrices \/ EndCycle

Spec == Init /\ [][Next]_vars

\* The fetch is answered, the tasks are started and the feed's task runs; the
\* oracle accepts a connection sooner or later.  Time, the oracle and the
\* engine need not go on.
FairSpec ==
  /\ Spec
  /\ WF_vars(SendFetch) /\ WF_vars(FetchArrives) /\ WF_vars(StartTasks) /\ WF_vars(Feed)

-----------------------------------------------------------------------------
(* Properties *)

\* A stored price is never replaced by one published earlier, although nobody
\* compares the times: the fetch is over before the stream begins, a stream
\* keeps the oracle's order, and what a broken stream held is gone.
PricesNeverGoBack ==
  [][\A f \in Faucets : oracle_prices'[f] >= oracle_prices[f]]_vars

\* Clients are not told of a price before the engine can use it.
ToldNotAhead ==
  \A f \in Faucets : told[f] <= oracle_prices[f]

\* "Check if oracle prices for high-liquidity tokens are fresh": what the engine
\* executes with was, for these tokens, fresh when it checked, although the
\* copy is taken later.
FreshPricesUsed ==
  engine.step = "execute" =>
    \A f \in Liquid : engine.prices[f] # NoPrice => engine.prices[f] + MaxAge >= engine.checked

\* A message that reaches the feed on a stream that does not break is stored,
\* and a broken stream is opened again, whatever else was on it.
FeedGoesOn ==
  (stream # "open" \/ wire # <<>> \/ updates # <<>>)
     ~> (stream = "open" /\ wire = <<>> /\ updates = <<>>)
=============================================================================
