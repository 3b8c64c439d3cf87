-------------------------- MODULE OracleFeedProofs --------------------------
(* Theorems about OracleFeed, for any pools, oracle ids and canaries, and any number of *)
(* updates, drops and unreadable messages.                                              *)
EXTENDS OracleFeed, FiniteSetTheorems, TLAPS

\* There are finitely many oracle ids, so that a message can be written down.
LEMMA FiniteOracleIds == IsFiniteSet(OracleIds)
<1> DEFINE f == [i \in 1..Len(Pools) |-> OracleId[Pools[i]]]
<1>1. Pools \in Seq(DOMAIN OracleId) /\ DOMAIN Pools = 1..Len(Pools) /\ Len(Pools) \in Nat
  BY OracleAssumption
<1>2. IsFiniteSet(1..Len(Pools))
  BY <1>1, FS_Interval
<1>3. f \in Surjection(1..Len(Pools), OracleIds)
  BY <1>1 DEF Surjection, OracleIds, Faucets, Range
<1>4. QED
  BY <1>2, <1>3, FS_Surjection

\* A finite set is written down as a sequence of its elements, all of them.
LEMMA SeqOfSet ==
  ASSUME NEW S, IsFiniteSet(S)
  PROVE  SetToSeq(S) \in Seq(S) /\ \A u \in S : \E i \in DOMAIN SetToSeq(S) : SetToSeq(S)[i] = u
<1>1. Cardinality(S) \in Nat /\ ExistsBijection(1..Cardinality(S), S)
  BY FS_CardinalityType
<1>2. \E f \in [1..Cardinality(S) -> S] : IsInjective(f)
  BY <1>1 DEF ExistsBijection, Bijection, Injection
<1>3. SetToSeq(S) \in [1..Cardinality(S) -> S] /\ IsInjective(SetToSeq(S))
  BY <1>2 DEF SetToSeq
<1>4. SetToSeq(S) \in Injection(1..Cardinality(S), S)
  BY <1>3 DEF Injection
<1>5. Cardinality(1..Cardinality(S)) = Cardinality(S)
  BY <1>1, FS_Interval
<1>6. SetToSeq(S) \in Surjection(1..Cardinality(S), S)
  BY <1>4, <1>5, FS_Injection
<1>7. QED
  BY <1>1, <1>3, <1>6 DEF Surjection

\* A message with one update per oracle id is a sequence of these updates.
LEMMA SeqOfUpdates ==
  ASSUME NEW S \in SUBSET Update, \A u, v \in S : u.id = v.id => u = v
  PROVE  /\ SetToSeq(S) \in Seq(Update) /\ \A i \in DOMAIN SetToSeq(S) : SetToSeq(S)[i] \in S
         /\ \A u \in S : \E i \in DOMAIN SetToSeq(S) : SetToSeq(S)[i] = u
<1> DEFINE f == [u \in S |-> u.id]
<1>1. f \in Injection(S, OracleIds)
  BY DEF Injection, IsInjective, Update
<1>2. IsFiniteSet(S)
  BY <1>1, FiniteOracleIds, FS_Injection
<1>3. SetToSeq(S) \in Seq(S) /\ \A u \in S : \E i \in DOMAIN SetToSeq(S) : SetToSeq(S)[i] = u
  BY <1>2, SeqOfSet
<1>4. QED
  BY <1>3

\* What is in a message.
LEMMA UpdateType ==
  ASSUME NEW m \in Seq(Update), NEW i \in DOMAIN m
  PROVE  m[i].id \in OracleIds /\ m[i].at \in Nat
<1>1. m[i] \in Update
  OBVIOUS
<1>2. QED
  BY <1>1 DEF Update, Times

-----------------------------------------------------------------------------
\* Two updates of one message agree about an id, ...
Agrees(m) == \A i, j \in DOMAIN m : m[i].id = m[j].id => m[i].at = m[j].at

\* ... no update is from the future, ...
Known(m, times) == \A i \in DOMAIN m : m[i].at <= times[m[i].id]

\* ... and storing one does not take a price back.
Newer(m, prices) ==
  \A i \in DOMAIN m : \A f \in Faucets : OracleId[f] = m[i].id => prices[f] <= m[i].at

\* One message is sent before another.
Before(m, w) == \A i \in DOMAIN m, j \in DOMAIN w : m[i].id = w[j].id => m[i].at <= w[j].at

PricesTypeOK ==
  /\ now \in Times /\ published \in [OracleIds -> Times]
  /\ fetch \in [state : {"new", "sent", "storing", "done"}, answer : Seq(Update)]
  /\ updates \in Seq(Update) /\ wire \in Seq(Seq(Update))
  /\ oracle_prices \in PriceMap

\* The fetch is over before the stream begins, and nothing is stored before it arrives.
FetchFirst ==
  /\ fetch.state # "done" => stream = "off"
  /\ stream # "open" => wire = <<>>
  /\ fetch.state \in {"new", "sent"} => updates = <<>> /\ oracle_prices = NoPrices
  /\ fetch.state = "new" => fetch.answer = <<>>

\* Prices, the message that is being stored and those on the wire are in the order the
\* oracle published them.
OrderInv ==
  /\ \A id \in OracleIds : published[id] <= now
  /\ \A f \in Faucets : oracle_prices[f] <= published[OracleId[f]]
  /\ Agrees(fetch.answer) /\ Known(fetch.answer, published)
  /\ Agrees(updates) /\ Known(updates, published) /\ Newer(updates, oracle_prices)
  /\ \A k \in DOMAIN wire :
       /\ Agrees(wire[k]) /\ Known(wire[k], published) /\ Newer(wire[k], oracle_prices)
       /\ Before(updates, wire[k])
  /\ \A k, l \in DOMAIN wire : k < l => Before(wire[k], wire[l])

Inv == PricesTypeOK /\ FetchFirst /\ OrderInv

\* Nothing was published before the start.
LEMMA FeedInit == Init => Inv
  BY OracleAssumption
  DEF Init, Inv, PricesTypeOK, FetchFirst, OrderInv, Agrees, Known, Newer, Before,
      Times, PriceMap, NoPrices, OracleIds

\* The steps of the clock, the engine and the clients' events do not touch prices.
LEMMA FeedNextElsewhere ==
  ASSUME Inv, now' \in Times, now' >= now,
         UNCHANGED <<published, updates, wire, oracle_prices>>,
         fetch' = fetch,
         stream' = stream \/ (fetch.state = "done" /\ (stream' = "open" \/ wire = <<>>))
  PROVE  Inv'
  BY DEF Inv, PricesTypeOK, FetchFirst, OrderInv, Agrees, Known, Newer, Before, Times

\* The oracle's message is newer than what it has published before.
LEMMA PublishNext ==
  ASSUME Inv, NEW ids \in SUBSET OracleIds, Publish(ids)
  PROVE  Inv'
<1> DEFINE S == {[id |-> id, at |-> now] : id \in ids}
           m == SetToSeq(S)
<1>1. m \in Seq(Update) /\ \A i \in DOMAIN m : m[i].id \in ids /\ m[i].at = now
  <2>1. now \in Times
    BY DEF Inv, PricesTypeOK
  <2>2. S \subseteq Update /\ \A u \in S : u.id \in ids /\ u.at = now
    BY <2>1 DEF Update
  <2>3. \A u, v \in S : u.id = v.id => u = v
    OBVIOUS
  <2> HIDE DEF S
  <2>4. m \in Seq(Update) /\ \A i \in DOMAIN m : m[i] \in S
    BY <2>2, <2>3, SeqOfUpdates
  <2>5. QED
    BY <2>2, <2>4
<1>2. /\ published' = [id \in OracleIds |-> IF id \in ids THEN now ELSE published[id]]
      /\ wire' = IF stream = "open" THEN Append(wire, m) ELSE wire
      /\ UNCHANGED <<now, fetch, stream, updates, oracle_prices>>
  BY DEF Publish
<1> HIDE DEF m, S
<1>3. /\ now \in Nat
      /\ \A id \in OracleIds : /\ published[id] \in Nat /\ published'[id] \in Nat
                               /\ published[id] <= published'[id] /\ published'[id] <= now
  BY <1>2 DEF Inv, PricesTypeOK, OrderInv, Times
<1>4. /\ updates \in Seq(Update) /\ fetch.answer \in Seq(Update)
      /\ wire \in Seq(Seq(Update)) /\ \A k \in DOMAIN wire : wire[k] \in Seq(Update)
  BY DEF Inv, PricesTypeOK
<1>5. PricesTypeOK'
  BY <1>1, <1>2, <1>4 DEF Inv, PricesTypeOK, Times
<1>6. FetchFirst'
  BY <1>2 DEF Inv, FetchFirst
<1>7. \A f \in Faucets : OracleId[f] \in OracleIds /\ oracle_prices[f] \in Int
  BY OracleAssumption DEF OracleIds, PriceMap, Times, Inv, PricesTypeOK
<1>8. ASSUME NEW w \in Seq(Update), Known(w, published) PROVE Known(w, published') /\ Before(w, m)
  <2>1. \A i \in DOMAIN w : w[i].id \in OracleIds /\ w[i].at \in Nat
    BY UpdateType
  <2>2. Known(w, published')
    BY <1>3, <1>8, <2>1 DEF Known
  <2>3. \A i \in DOMAIN w : w[i].at <= now
    BY <1>3, <2>1, <2>2 DEF Known
  <2>4. QED
    BY <1>1, <2>2, <2>3 DEF Before
<1>9. Agrees(m) /\ Known(m, published') /\ Newer(m, oracle_prices)
  <2>1. \A f \in Faucets : oracle_prices[f] <= now
    BY <1>3, <1>7 DEF Inv, OrderInv
  <2>2. \A i \in DOMAIN m : published'[m[i].id] = now
    BY <1>1, <1>2
  <2>3. QED
    BY <1>1, <1>3, <2>1, <2>2 DEF Agrees, Known, Newer
<1>10. \A k \in DOMAIN wire' : \/ k \in DOMAIN wire /\ wire'[k] = wire[k]
                               \/ wire'[k] = m /\ k = Len(wire) + 1
  BY <1>1, <1>2, <1>4
<1>11. \A k \in DOMAIN wire : Known(wire[k], published') /\ Before(wire[k], m)
  BY <1>4, <1>8 DEF Inv, OrderInv
<1>12. \A k \in DOMAIN wire' :
         /\ Agrees(wire'[k]) /\ Known(wire'[k], published') /\ Newer(wire'[k], oracle_prices)
         /\ Before(updates, wire'[k])
  BY <1>4, <1>8, <1>9, <1>10, <1>11 DEF Inv, OrderInv
<1>13. \A k, l \in DOMAIN wire' : k < l => Before(wire'[k], wire'[l])
  BY <1>4, <1>10, <1>11 DEF Inv, OrderInv
<1>14. Known(updates, published') /\ Known(fetch.answer, published')
  BY <1>4, <1>8 DEF Inv, OrderInv
<1>15. \A f \in Faucets : oracle_prices[f] <= published'[OracleId[f]]
  BY <1>3, <1>7 DEF Inv, OrderInv
<1>16. OrderInv'
  BY <1>2, <1>3, <1>12, <1>13, <1>14, <1>15 DEF Inv, OrderInv
<1>17. QED
  BY <1>5, <1>6, <1>16 DEF Inv

\* The answer to the fetch has the prices published when it was sent.
LEMMA FetchNext ==
  ASSUME Inv, SendFetch \/ FetchArrives
  PROVE  Inv'
<1>1. CASE SendFetch
  <2> DEFINE S == {[id |-> id, at |-> published[id]] : id \in OracleIds}
             m == SetToSeq(S)
  <2>1. m \in Seq(Update) /\ Agrees(m) /\ Known(m, published)
    <3>1. published \in [OracleIds -> Times] /\ Times \subseteq Nat
      BY DEF Inv, PricesTypeOK, Times
    <3>2. S \subseteq Update /\ \A u \in S : u.at = published[u.id]
      BY <3>1 DEF Update
    <3>3. \A u, v \in S : u.id = v.id => u = v
      OBVIOUS
    <3> HIDE DEF S
    <3>4. m \in Seq(Update) /\ \A i \in DOMAIN m : m[i] \in S
      BY <3>2, <3>3, SeqOfUpdates
    <3>5. \A i \in DOMAIN m : m[i].at = published[m[i].id] /\ m[i].at \in Nat
      BY <3>2, <3>4, UpdateType
    <3>6. QED
      BY <3>4, <3>5 DEF Agrees, Known
  <2>2. /\ fetch.state = "new" /\ fetch' = [state |-> "sent", answer |-> m]
        /\ UNCHANGED <<now, published, stream, updates, wire, oracle_prices>>
    BY <1>1 DEF SendFetch
  <2> HIDE DEF m, S
  <2>3. PricesTypeOK' /\ FetchFirst' /\ OrderInv'
    BY <2>1, <2>2 DEF Inv, PricesTypeOK, FetchFirst, OrderInv
  <2>4. QED
    BY <2>3 DEF Inv
<1>2. CASE FetchArrives
  <2>1. /\ fetch.state = "sent" /\ updates' = fetch.answer
        /\ fetch' = [state |-> "storing", answer |-> <<>>]
        /\ UNCHANGED <<now, published, stream, wire, oracle_prices>>
    BY <1>2 DEF FetchArrives
  <2>2. fetch.answer \in Seq(Update) /\ wire = <<>> /\ oracle_prices = NoPrices /\ stream = "off"
    BY <2>1 DEF Inv, PricesTypeOK, FetchFirst
  <2>3. PricesTypeOK' /\ FetchFirst'
    BY <2>1, <2>2 DEF Inv, PricesTypeOK, FetchFirst
  <2>4. Newer(updates', oracle_prices)
    <3>1. \A f \in Faucets : oracle_prices[f] = NoPrice
      BY <2>2 DEF NoPrices
    <3>2. NoPrice \in Int /\ NoPrice < 0
      BY OracleAssumption
    <3>3. \A i \in DOMAIN fetch.answer : fetch.answer[i].at \in Nat
      BY <2>2, UpdateType
    <3>4. QED
      BY <2>1, <3>1, <3>2, <3>3 DEF Newer
  <2>5. Agrees(<<>>) /\ Known(<<>>, published)
    BY DEF Agrees, Known
  <2>6. Agrees(updates') /\ Known(updates', published)
    BY <2>1 DEF Inv, OrderInv
  <2>7. OrderInv'
    BY <2>1, <2>2, <2>4, <2>5, <2>6 DEF Inv, OrderInv
  <2>8. QED
    BY <2>3, <2>7 DEF Inv
<1>3. QED
  BY <1>1, <1>2

\* The first message on the wire is taken, to be stored or thrown away, or all are lost.
LEMMA WireNext ==
  ASSUME Inv, Message \/ GarbledMessage \/ Drop
  PROVE  Inv'
<1> USE DEF Inv
<1>1. CASE Message \/ GarbledMessage
  <2>1. /\ wire # <<>> /\ wire' = Tail(wire) /\ updates = <<>>
        /\ updates' = Head(wire) \/ updates' = updates
        /\ UNCHANGED <<now, published, fetch, stream, oracle_prices>> /\ stream = "open"
    BY <1>1 DEF Message, GarbledMessage
  <2>2. /\ wire \in Seq(Seq(Update)) /\ Head(wire) = wire[1] /\ 1 \in DOMAIN wire
        /\ wire' \in Seq(Seq(Update)) /\ Head(wire) \in Seq(Update)
    BY <2>1 DEF PricesTypeOK
  <2>3. \A k \in DOMAIN wire' : k + 1 \in DOMAIN wire /\ wire'[k] = wire[k + 1] /\ 1 < k + 1 /\ k \in Nat
    BY <2>1, <2>2
  <2>4. PricesTypeOK'
    BY <2>1, <2>2 DEF PricesTypeOK
  <2>5. FetchFirst'
    BY <2>1 DEF FetchFirst
  <2>6. \A k, l \in DOMAIN wire' : k < l => Before(wire'[k], wire'[l])
    <3>1. \A k, l \in DOMAIN wire' : k < l => k + 1 < l + 1
      BY <2>3
    <3>2. QED
      BY <2>3, <3>1 DEF OrderInv
  <2>7. \A k \in DOMAIN wire' : Before(Head(wire), wire'[k]) /\ Before(updates, wire'[k])
    BY <2>2, <2>3 DEF OrderInv
  <2>8. /\ Agrees(Head(wire)) /\ Known(Head(wire), published) /\ Newer(Head(wire), oracle_prices)
    BY <2>2 DEF OrderInv
  <2>9. /\ Agrees(updates') /\ Known(updates', published) /\ Newer(updates', oracle_prices)
        /\ \A k \in DOMAIN wire' : Before(updates', wire'[k])
    BY <2>1, <2>7, <2>8 DEF OrderInv
  <2>10. \A k \in DOMAIN wire' :
           Agrees(wire'[k]) /\ Known(wire'[k], published) /\ Newer(wire'[k], oracle_prices)
    BY <2>3 DEF OrderInv
  <2>11. OrderInv'
    BY <2>1, <2>6, <2>9, <2>10 DEF OrderInv
  <2>12. QED
    BY <2>4, <2>5, <2>11
<1>2. CASE Drop
  <2>1. /\ stream = "open" /\ stream' = "closed" /\ wire' = <<>>
        /\ UNCHANGED <<now, published, fetch, updates, oracle_prices>>
    BY <1>2 DEF Drop
  <2>2. PricesTypeOK' /\ FetchFirst' /\ OrderInv'
    BY <2>1 DEF PricesTypeOK, FetchFirst, OrderInv
  <2>3. QED
    BY <2>2
<1>3. QED
  BY <1>1, <1>2

\* A price that is stored is at least as new as the one it replaces, and at most as new
\* as all that are still to come.
LEMMA StoreNext ==
  ASSUME Inv, StorePrice
  PROVE  Inv' /\ \A f \in Faucets : oracle_prices'[f] >= oracle_prices[f]
<1> DEFINE u == Head(updates)
<1>1. /\ updates # <<>> /\ updates' = Tail(updates)
      /\ oracle_prices' = [f \in Faucets |->
           IF f \in oracle_id_to_faucet_id(u.id) THEN u.at ELSE oracle_prices[f]]
      /\ fetch' = fetch \/ (fetch.state = "storing" /\ fetch' = [fetch EXCEPT !.state = "done"])
      /\ UNCHANGED <<now, published, stream, wire>>
  BY DEF StorePrice
<1>2. /\ updates \in Seq(Update) /\ u = updates[1] /\ 1 \in DOMAIN updates
      /\ updates' \in Seq(Update)
      /\ \A i \in DOMAIN updates' : i + 1 \in DOMAIN updates /\ updates'[i] = updates[i + 1]
  BY <1>1 DEF Inv, PricesTypeOK
<1> HIDE DEF u
<1>3. u.id \in OracleIds /\ u.at \in Times /\ u.at \in Nat
  <2>1. u \in Update
    BY <1>2
  <2>2. QED
    BY <2>1 DEF Update, Times
<1>4. \A f \in oracle_id_to_faucet_id(u.id) : OracleId[f] = u.id
  BY DEF oracle_id_to_faucet_id
<1>5. oracle_prices \in PriceMap /\ \A f \in Faucets : oracle_prices[f] \in Int
  BY OracleAssumption DEF Inv, PricesTypeOK, PriceMap, Times
<1>6. \A f \in Faucets : \/ oracle_prices'[f] = oracle_prices[f]
                         \/ oracle_prices'[f] = u.at /\ OracleId[f] = u.id
  BY <1>1, <1>4
<1>7. \A f \in Faucets : oracle_prices'[f] >= oracle_prices[f]
  <2>1. \A f \in Faucets : OracleId[f] = u.id => oracle_prices[f] <= u.at
    BY <1>2 DEF Inv, OrderInv, Newer
  <2>2. QED
    BY <1>3, <1>5, <1>6, <2>1
<1>8. PricesTypeOK'
  <2>1. oracle_prices' \in PriceMap
    BY <1>1, <1>3, <1>5 DEF PriceMap
  <2>2. QED
    BY <1>1, <1>2, <2>1 DEF Inv, PricesTypeOK
<1>9. FetchFirst'
  <2>1. fetch.state \notin {"new", "sent"}
    BY <1>1 DEF Inv, FetchFirst
  <2>2. fetch'.state = fetch.state \/ fetch'.state = "done"
    BY <1>1 DEF Inv, PricesTypeOK
  <2>3. QED
    BY <1>1, <2>1, <2>2 DEF Inv, FetchFirst
<1>10. Agrees(updates') /\ Known(updates', published) /\ \A k \in DOMAIN wire : Before(updates', wire[k])
  BY <1>2 DEF Inv, OrderInv, Agrees, Known, Before
<1>11. Newer(updates', oracle_prices')
  BY <1>2, <1>3, <1>6 DEF Inv, OrderInv, Newer, Agrees
<1>12. \A k \in DOMAIN wire : Newer(wire[k], oracle_prices')
  <2>1. SUFFICES ASSUME NEW k \in DOMAIN wire, NEW i \in DOMAIN wire[k], NEW f \in Faucets,
                        OracleId[f] = wire[k][i].id
                 PROVE  oracle_prices'[f] <= wire[k][i].at
    BY DEF Newer
  <2>2. oracle_prices[f] <= wire[k][i].at
    BY <2>1 DEF Inv, OrderInv, Newer
  <2>3. OracleId[f] = u.id => u.at <= wire[k][i].at
    BY <1>2, <2>1 DEF Inv, OrderInv, Before
  <2>4. QED
    BY <1>6, <2>2, <2>3
<1>13. \A f \in Faucets : oracle_prices'[f] <= published[OracleId[f]]
  BY <1>2, <1>6 DEF Inv, OrderInv, Known
<1>14. fetch'.answer = fetch.answer
  BY <1>1 DEF Inv, PricesTypeOK
<1>15. OrderInv'
  BY <1>1, <1>10, <1>11, <1>12, <1>13, <1>14 DEF Inv, OrderInv
<1>16. QED
  BY <1>7, <1>8, <1>9, <1>15 DEF Inv

\* Every step keeps the order of the prices, and only an insertion changes the map.
LEMMA FeedNext == Inv /\ [Next]_vars => Inv' /\ \A f \in Faucets : oracle_prices'[f] >= oracle_prices[f]
<1> SUFFICES ASSUME Inv, [Next]_vars
             PROVE  Inv' /\ \A f \in Faucets : oracle_prices'[f] >= oracle_prices[f]
  OBVIOUS
<1>1. \A f \in Faucets : oracle_prices[f] \in Int
  BY OracleAssumption DEF Inv, PricesTypeOK, PriceMap, Times
<1>2. now \in Times
  BY DEF Inv, PricesTypeOK
<1>3. ASSUME NEW ids \in SUBSET OracleIds, Publish(ids) PROVE Inv' /\ oracle_prices' = oracle_prices
  BY <1>3, PublishNext DEF Publish
<1>4. ASSUME SendFetch \/ FetchArrives PROVE Inv' /\ oracle_prices' = oracle_prices
  BY <1>4, FetchNext DEF SendFetch, FetchArrives
<1>5. ASSUME Message \/ GarbledMessage \/ Drop PROVE Inv' /\ oracle_prices' = oracle_prices
  BY <1>5, WireNext DEF Message, GarbledMessage, Drop
<1>6. ASSUME \/ Tick \/ StartTasks \/ Connect \/ BroadcastPrice
             \/ CheckPrices \/ CopyPrices \/ EndCycle \/ UNCHANGED vars
      PROVE  Inv' /\ oracle_prices' = oracle_prices
  <2>1. /\ now' \in Times /\ now' >= now
        /\ UNCHANGED <<published, updates, wire, oracle_prices>>
        /\ fetch' = fetch
    BY <1>2, <1>6, OracleAssumption
       DEF Tick, StartTasks, Connect, BroadcastPrice, CheckPrices, CopyPrices, EndCycle, vars, feed, Times
  <2>2. stream' = stream \/ (fetch.state = "done" /\ (stream' = "open" \/ wire = <<>>))
    BY <1>6 DEF Tick, StartTasks, Connect, BroadcastPrice, CheckPrices, CopyPrices, EndCycle,
                vars, feed, Inv, FetchFirst, Initialised
  <2>3. QED
    BY <2>1, <2>2, FeedNextElsewhere
<1>7. CASE StorePrice
  BY <1>7, StoreNext
<1>8. QED
  BY <1>1, <1>3, <1>4, <1>5, <1>6, <1>7 DEF Next, Feed

\* A stored price is never replaced by an older one, although update_oracle_prices does
\* not look at publish times.
THEOREM PricesOnlyGoForward == Spec => PricesNeverGoBack
<1>1. Inv /\ [Next]_vars => [\A f \in Faucets : oracle_prices'[f] >= oracle_prices[f]]_vars
  BY FeedNext
<1>2. Inv /\ [Next]_vars => Inv'
  BY FeedNext
<1>3. QED
  BY <1>1, <1>2, FeedInit, PTL DEF Spec, PricesNeverGoBack

-----------------------------------------------------------------------------
\* The rest of the types: the client's side, the counters and the engine.
RestTypeOK ==
  /\ stream \in {"off", "closed", "open"}
  /\ events \in Seq(Update) /\ told \in PriceMap
  /\ drops \in 0..MaxDrops /\ garbled \in 0..MaxGarbled
  /\ engine \in [step : {"off", "tick", "checked", "execute"}, checked : Times, prices : PriceMap]

\* An entry that is still to be broadcast is stored, or still to be stored before that.
ToldInv ==
  /\ fetch.state # "done" => events = <<>>
  /\ \A i \in DOMAIN events : \A f \in oracle_id_to_faucet_id(events[i].id) :
       events[i].at <= oracle_prices[f] \/ \E j \in DOMAIN updates : updates[j] = events[i]

\* The faucets a price is stored for: the first one with its oracle id.
Priced == {f \in Faucets : f \in oracle_id_to_faucet_id(OracleId[f])}

\* The answer to the fetch has a price of every oracle id, and when it is stored every
\* priced faucet has one; the engine starts after that.
FetchInv ==
  /\ fetch.state = "sent" => \A id \in OracleIds : \E i \in DOMAIN fetch.answer : fetch.answer[i].id = id
  /\ \A f \in Priced :
       \/ oracle_prices[f] # NoPrice
       \/ fetch.state \in {"new", "sent"}
       \/ fetch.state = "storing" /\ \E i \in DOMAIN updates : updates[i].id = OracleId[f]
  /\ engine.step # "off" => fetch.state = "done"

\* Of every price that prices_are_stale looks at, the engine's copy has one, and it was
\* fresh when the engine looked.
MonitoredFresh ==
  engine.step = "execute" =>
    \A f \in Monitored : engine.prices[f] # NoPrice /\ engine.prices[f] + MaxAge >= engine.checked

\* What the engine has found fresh stays fresh in the map, and in the copy.
FreshInv ==
  /\ engine.step = "checked" => \A f \in Monitored : oracle_prices[f] + MaxAge >= engine.checked
  /\ MonitoredFresh

FullInv == Inv /\ RestTypeOK /\ ToldNotAhead /\ ToldInv /\ FetchInv /\ FreshInv

\* A priced faucet has a configured oracle id, and the engine asks only for priced ones.
LEMMA PricedFacts ==
  /\ Monitored \subseteq Priced /\ Priced \subseteq Faucets
  /\ \A f \in Faucets : OracleId[f] \in OracleIds
  /\ \A id : \A f \in oracle_id_to_faucet_id(id) : f \in Priced /\ OracleId[f] = id
<1>1. \A id : \A f \in oracle_id_to_faucet_id(id) : f \in Faucets /\ OracleId[f] = id
  BY DEF oracle_id_to_faucet_id, Faucets, Range
<1>2. \A id : \A f \in oracle_id_to_faucet_id(id) : f \in Priced /\ OracleId[f] = id
  BY <1>1 DEF Priced
<1>3. QED
  BY <1>2 DEF Monitored, Priced, OracleIds

\* No price is stored and nothing is on the wire at the start.
LEMMA FullInit == Init => FullInv
<1> SUFFICES ASSUME Init PROVE FullInv
  OBVIOUS
<1>1. Inv
  BY FeedInit
<1>2. NoPrice \in Int /\ NoPrices \in PriceMap /\ 0 \in Times /\ MaxDrops \in Nat /\ MaxGarbled \in Nat
  BY OracleAssumption DEF NoPrices, PriceMap, Times
<1>3. RestTypeOK
  BY <1>2 DEF Init, RestTypeOK
<1>4. ToldNotAhead /\ ToldInv
  BY <1>2 DEF Init, ToldNotAhead, ToldInv, NoPrices
<1>5. FetchInv /\ FreshInv
  BY DEF Init, FetchInv, FreshInv, MonitoredFresh
<1>6. QED
  BY <1>1, <1>3, <1>4, <1>5 DEF FullInv

\* The clock, the oracle, the stream and the tasks' start change nothing of it.
LEMMA FullNextElsewhere ==
  ASSUME FullInv, UNCHANGED <<updates, events, oracle_prices, told, fetch>>,
         stream' \in {"off", "closed", "open"}, drops' \in 0..MaxDrops, garbled' \in 0..MaxGarbled,
         \/ engine' = engine
         \/ fetch.state = "done" /\ engine' = [engine EXCEPT !.step = "tick"]
  PROVE  RestTypeOK' /\ ToldNotAhead' /\ ToldInv' /\ FetchInv' /\ FreshInv'
<1>1. RestTypeOK'
  BY DEF FullInv, RestTypeOK
<1>2. ToldNotAhead' /\ ToldInv'
  BY DEF FullInv, ToldNotAhead, ToldInv
<1>3. FetchInv'
  BY DEF FullInv, FetchInv, RestTypeOK
<1>4. FreshInv'
  BY DEF FullInv, FreshInv, MonitoredFresh, RestTypeOK
<1>5. QED
  BY <1>1, <1>2, <1>3, <1>4

\* The fetch asks for every oracle id.
LEMMA FullFetchNext ==
  ASSUME FullInv, SendFetch \/ FetchArrives
  PROVE  RestTypeOK' /\ ToldNotAhead' /\ ToldInv' /\ FetchInv' /\ FreshInv'
<1>1. fetch \in [state : {"new", "sent", "storing", "done"}, answer : Seq(Update)]
  BY DEF FullInv, Inv, PricesTypeOK
<1>2. UNCHANGED <<stream, events, oracle_prices, told, drops, garbled, engine>>
      /\ fetch.state \in {"new", "sent"}
  BY DEF SendFetch, FetchArrives
<1>3. RestTypeOK' /\ ToldNotAhead' /\ FreshInv'
  BY <1>2 DEF FullInv, RestTypeOK, ToldNotAhead, FreshInv, MonitoredFresh
<1>4. events = <<>> /\ engine.step = "off"
  BY <1>2 DEF FullInv, ToldInv, FetchInv
<1>5. ToldInv'
  BY <1>2, <1>4 DEF ToldInv
<1>6. CASE SendFetch
  <2> DEFINE S == {[id |-> id, at |-> published[id]] : id \in OracleIds}
             m == SetToSeq(S)
  <2>1. \A id \in OracleIds : \E i \in DOMAIN m : m[i].id = id
    <3>1. S \subseteq Update
      BY DEF FullInv, Inv, PricesTypeOK, Update
    <3>2. \A u, v \in S : u.id = v.id => u = v
      OBVIOUS
    <3>3. \A id \in OracleIds : \E u \in S : u.id = id
      <4>1. \A id \in OracleIds : [id |-> id, at |-> published[id]] \in S
        OBVIOUS
      <4> HIDE DEF S
      <4>2. QED
        BY <4>1
    <3> HIDE DEF S
    <3>4. \A u \in S : \E i \in DOMAIN m : m[i] = u
      BY <3>1, <3>2, SeqOfUpdates
    <3>5. QED
      BY <3>3, <3>4
  <2>2. fetch' = [state |-> "sent", answer |-> m]
    BY <1>6 DEF SendFetch
  <2> HIDE DEF m, S
  <2>3. FetchInv'
    BY <1>2, <1>4, <2>1, <2>2 DEF FetchInv
  <2>4. QED
    BY <1>3, <1>5, <2>3
<1>7. CASE FetchArrives
  <2>1. fetch.state = "sent" /\ updates' = fetch.answer /\ fetch' = [state |-> "storing", answer |-> <<>>]
    BY <1>7 DEF FetchArrives
  <2>2. FetchInv'
    BY <1>2, <1>4, <2>1, PricedFacts DEF FullInv, FetchInv
  <2>3. QED
    BY <1>3, <1>5, <2>2
<1>8. QED
  BY <1>6, <1>7

\* An insertion makes one entry's price known to the engine, and takes no price away.
LEMMA FullStoreNext ==
  ASSUME FullInv, StorePrice
  PROVE  RestTypeOK' /\ ToldNotAhead' /\ ToldInv' /\ FetchInv' /\ FreshInv'
<1> DEFINE u == Head(updates)
<1>1. /\ updates # <<>> /\ updates' = Tail(updates)
      /\ oracle_prices' = [f \in Faucets |->
           IF f \in oracle_id_to_faucet_id(u.id) THEN u.at ELSE oracle_prices[f]]
      /\ fetch' = IF fetch.state = "storing" /\ updates' = <<>> THEN [fetch EXCEPT !.state = "done"] ELSE fetch
      /\ UNCHANGED <<stream, events, told, drops, garbled, engine>>
  BY DEF StorePrice
<1>2. /\ updates \in Seq(Update) /\ u = updates[1] /\ 1 \in DOMAIN updates
      /\ \A i \in DOMAIN updates : i = 1 \/ (i - 1 \in DOMAIN updates' /\ updates'[i - 1] = updates[i])
  BY <1>1 DEF FullInv, Inv, PricesTypeOK
<1> HIDE DEF u
<1>3. u.id \in OracleIds /\ u.at \in Nat
  BY <1>2, UpdateType
<1>4. NoPrice \in Int /\ NoPrice < 0 /\ MaxAge \in Nat
  BY OracleAssumption
<1>5. oracle_prices \in PriceMap /\ told \in PriceMap /\ \A f \in Faucets : oracle_prices[f] \in Int /\ told[f] \in Int
  BY <1>4 DEF FullInv, Inv, PricesTypeOK, RestTypeOK, PriceMap, Times
<1>6. \A f \in Faucets : oracle_prices'[f] >= oracle_prices[f] /\ oracle_prices'[f] \in Int
  <2>1. \A f \in Faucets : oracle_prices'[f] >= oracle_prices[f]
    BY StoreNext DEF FullInv
  <2>2. QED
    BY <1>1, <1>3, <1>5, <2>1
<1>7. fetch' = fetch \/ (fetch.state = "storing" /\ updates' = <<>> /\ fetch' = [fetch EXCEPT !.state = "done"])
  BY <1>1
<1>8. fetch \in [state : {"new", "sent", "storing", "done"}, answer : Seq(Update)]
  BY DEF FullInv, Inv, PricesTypeOK
<1>9. RestTypeOK'
  BY <1>1 DEF FullInv, RestTypeOK
<1>10. ToldNotAhead'
  BY <1>1, <1>5, <1>6 DEF FullInv, ToldNotAhead
<1>11. ToldInv'
  <2>1. events \in Seq(Update)
    BY DEF FullInv, RestTypeOK
  <2>2. fetch'.state # "done" => events' = <<>>
    BY <1>1, <1>7, <1>8 DEF FullInv, ToldInv
  <2>3. ASSUME NEW i \in DOMAIN events, NEW f \in oracle_id_to_faucet_id(events[i].id)
        PROVE  events[i].at <= oracle_prices'[f] \/ \E j \in DOMAIN updates' : updates'[j] = events[i]
    <3>1. f \in Faucets /\ events[i].at \in Nat
      BY <2>1, UpdateType, PricedFacts DEF Priced
    <3>2. CASE events[i].at <= oracle_prices[f]
      BY <1>5, <1>6, <3>1, <3>2
    <3>3. ASSUME NEW j \in DOMAIN updates, updates[j] = events[i]
          PROVE  events[i].at <= oracle_prices'[f] \/ \E k \in DOMAIN updates' : updates'[k] = events[i]
      <4>1. CASE j = 1
        <5>1. oracle_prices'[f] = events[i].at
          BY <1>1, <1>2, <2>3, <3>1, <3>3, <4>1
        <5>2. QED
          BY <3>1, <5>1
      <4>2. CASE j # 1
        BY <1>2, <3>3, <4>2
      <4>3. QED
        BY <4>1, <4>2
    <3>4. QED
      BY <3>2, <3>3 DEF FullInv, ToldInv
  <2>4. QED
    BY <1>1, <2>2, <2>3 DEF ToldInv
<1>12. fetch.state \notin {"new", "sent"}
  BY <1>1 DEF FullInv, Inv, FetchFirst
<1>13. FetchInv'
  <2>1. ASSUME NEW f \in Priced
        PROVE  \/ oracle_prices'[f] # NoPrice
               \/ fetch'.state = "storing" /\ \E i \in DOMAIN updates' : updates'[i].id = OracleId[f]
    <3>1. f \in Faucets /\ f \in oracle_id_to_faucet_id(OracleId[f])
      BY <2>1 DEF Priced
    <3>2. CASE oracle_prices[f] # NoPrice
      <4>1. oracle_prices'[f] = u.at \/ oracle_prices'[f] = oracle_prices[f]
        BY <1>1, <3>1
      <4>2. QED
        BY <1>3, <1>4, <3>2, <4>1
    <3>3. ASSUME fetch.state = "storing", NEW i \in DOMAIN updates, updates[i].id = OracleId[f]
          PROVE  \/ oracle_prices'[f] # NoPrice
                 \/ fetch'.state = "storing" /\ \E j \in DOMAIN updates' : updates'[j].id = OracleId[f]
      <4>1. CASE i = 1
        <5>1. oracle_prices'[f] = u.at
          BY <1>1, <1>2, <3>1, <3>3, <4>1
        <5>2. QED
          BY <1>3, <1>4, <5>1
      <4>2. CASE i # 1
        <5>1. i - 1 \in DOMAIN updates' /\ updates'[i - 1].id = OracleId[f]
          BY <1>2, <3>3, <4>2
        <5>2. fetch' = fetch
          BY <1>7, <5>1
        <5>3. QED
          BY <3>3, <5>1, <5>2
      <4>3. QED
        BY <4>1, <4>2
    <3>4. QED
      BY <1>12, <2>1, <3>2, <3>3 DEF FullInv, FetchInv
  <2>2. engine'.step # "off" => fetch'.state = "done"
    BY <1>1, <1>7, <1>8 DEF FullInv, FetchInv
  <2>3. fetch'.state # "sent"
    BY <1>7, <1>8, <1>12
  <2>4. QED
    BY <2>1, <2>2, <2>3 DEF FetchInv
<1>14. FreshInv'
  <2>1. \A f \in Monitored : f \in Faucets
    BY PricedFacts
  <2>2. engine.checked \in Int
    BY DEF FullInv, RestTypeOK, Times
  <2>3. \A f \in Monitored : oracle_prices[f] + MaxAge >= engine.checked
                              => oracle_prices'[f] + MaxAge >= engine.checked
    BY <1>4, <1>5, <1>6, <2>1, <2>2
  <2>4. QED
    BY <1>1, <2>3 DEF FullInv, FreshInv, MonitoredFresh
<1>15. QED
  BY <1>9, <1>10, <1>11, <1>13, <1>14

\* A message is broadcast after it is stored.
LEMMA FullMessageNext ==
  ASSUME FullInv, Message \/ BroadcastPrice
  PROVE  RestTypeOK' /\ ToldNotAhead' /\ ToldInv' /\ FetchInv' /\ FreshInv'
<1>1. UNCHANGED <<now, published, fetch, stream, oracle_prices, drops, garbled, engine>> /\ updates = <<>>
  BY DEF Message, BroadcastPrice
<1>2. wire \in Seq(Seq(Update)) /\ events \in Seq(Update) /\ told \in PriceMap
  BY DEF FullInv, Inv, PricesTypeOK, RestTypeOK
<1>3. fetch.state # "storing" \/ FetchInv'
  BY <1>1 DEF FullInv, FetchInv
<1>4. FreshInv'
  BY <1>1 DEF FullInv, FreshInv, MonitoredFresh
<1>5. CASE Message
  <2>1. /\ stream = "open" /\ wire # <<>> /\ updates' = Head(wire) /\ events' = Head(wire) /\ told' = told
    BY <1>5 DEF Message
  <2>2. fetch.state = "done"
    BY <2>1 DEF FullInv, Inv, FetchFirst
  <2>3. Head(wire) \in Seq(Update)
    BY <1>2, <2>1
  <2>4. RestTypeOK' /\ ToldNotAhead'
    BY <1>1, <2>1, <2>3 DEF FullInv, RestTypeOK, ToldNotAhead
  <2>5. ToldInv'
    BY <1>1, <2>1, <2>2 DEF ToldInv
  <2>6. FetchInv'
    BY <1>1, <2>2 DEF FullInv, FetchInv
  <2>7. QED
    BY <1>4, <2>4, <2>5, <2>6
<1>6. CASE BroadcastPrice
  <2> DEFINE event == Head(events)
  <2>1. /\ events # <<>> /\ events' = Tail(events) /\ updates' = updates
        /\ told' = [f \in Faucets |-> IF f \in oracle_id_to_faucet_id(event.id) THEN event.at ELSE told[f]]
    BY <1>6 DEF BroadcastPrice
  <2>2. /\ event = events[1] /\ 1 \in DOMAIN events /\ events' \in Seq(Update)
        /\ \A i \in DOMAIN events' : i + 1 \in DOMAIN events /\ events'[i] = events[i + 1]
    BY <1>2, <2>1
  <2> HIDE DEF event
  <2>3. event \in Update
    BY <1>2, <2>2
  <2>4. event.at \in Times
    BY <2>3 DEF Update
  <2>5. told' \in PriceMap
    BY <1>2, <2>1, <2>4 DEF PriceMap
  <2>6. RestTypeOK'
    BY <1>1, <2>2, <2>5 DEF FullInv, RestTypeOK
  <2>7. \A f \in oracle_id_to_faucet_id(event.id) : event.at <= oracle_prices[f]
    BY <1>1, <2>2 DEF FullInv, ToldInv
  <2>8. ToldNotAhead'
    BY <1>1, <2>1, <2>7 DEF FullInv, ToldNotAhead
  <2>9. ToldInv'
    BY <1>1, <2>1, <2>2 DEF FullInv, ToldInv
  <2>10. FetchInv'
    BY <1>1, <2>1 DEF FullInv, FetchInv
  <2>11. QED
    BY <1>4, <2>6, <2>8, <2>9, <2>10
<1>7. QED
  BY <1>5, <1>6

\* The engine checks the monitored prices, which it has all, and copies them later.
LEMMA FullEngineNext ==
  ASSUME FullInv, CheckPrices \/ CopyPrices \/ EndCycle
  PROVE  RestTypeOK' /\ ToldNotAhead' /\ ToldInv' /\ FetchInv' /\ FreshInv'
<1>1. UNCHANGED <<now, fetch, stream, updates, events, oracle_prices, told, drops, garbled>>
      /\ engine.step # "off"
  BY DEF CheckPrices, CopyPrices, EndCycle, feed
<1>2. engine \in [step : {"off", "tick", "checked", "execute"}, checked : Times, prices : PriceMap]
  BY DEF FullInv, RestTypeOK
<1>3. oracle_prices \in PriceMap /\ now \in Times /\ NoPrices \in PriceMap /\ 0 \in Times
  BY OracleAssumption DEF FullInv, Inv, PricesTypeOK, NoPrices, PriceMap, Times
<1>4. \/ CheckPrices /\ engine' = [engine EXCEPT !.step = "checked", !.checked = now]
      \/ engine.step = "checked" /\ engine' = [engine EXCEPT !.step = "execute", !.prices = oracle_prices]
      \/ engine' = [step |-> "tick", checked |-> 0, prices |-> NoPrices]
  BY DEF CheckPrices, CopyPrices, EndCycle
<1>5. RestTypeOK'
  <2>1. engine' \in [step : {"off", "tick", "checked", "execute"}, checked : Times, prices : PriceMap]
    <3>1. CASE CheckPrices /\ engine' = [engine EXCEPT !.step = "checked", !.checked = now]
      BY <1>2, <1>3, <3>1
    <3>2. CASE engine.step = "checked" /\ engine' = [engine EXCEPT !.step = "execute", !.prices = oracle_prices]
      BY <1>2, <1>3, <3>2
    <3>3. CASE engine' = [step |-> "tick", checked |-> 0, prices |-> NoPrices]
      BY <1>3, <3>3
    <3>4. QED
      BY <1>4, <3>1, <3>2, <3>3
  <2>2. QED
    BY <1>1, <2>1 DEF FullInv, RestTypeOK
<1>6. ToldNotAhead' /\ ToldInv'
  BY <1>1 DEF FullInv, ToldNotAhead, ToldInv
<1>7. FetchInv'
  BY <1>1 DEF FullInv, FetchInv
<1>8. FreshInv'
  <2>1. CASE CheckPrices /\ engine' = [engine EXCEPT !.step = "checked", !.checked = now]
    <3>1. fetch.state = "done"
      BY <1>1 DEF FullInv, FetchInv
    <3>2. \A f \in Monitored : oracle_prices[f] # NoPrice
      BY <3>1, PricedFacts DEF FullInv, FetchInv
    <3>3. \A f \in Monitored : ~(now > oracle_prices[f] + MaxAge)
      BY <2>1, <3>2 DEF CheckPrices, oldest_stale_price
    <3>4. \A f \in Monitored : oracle_prices[f] \in Int
      BY <1>3, PricedFacts, OracleAssumption DEF PriceMap, Times
    <3>5. now \in Int /\ MaxAge \in Nat
      BY <1>3, OracleAssumption DEF Times
    <3>6. \A f \in Monitored : oracle_prices[f] + MaxAge >= now
      BY <3>3, <3>4, <3>5
    <3>7. engine'.step = "checked" /\ engine'.checked = now
      BY <1>2, <2>1
    <3>8. QED
      BY <1>1, <3>6, <3>7 DEF FreshInv, MonitoredFresh
  <2>2. CASE engine.step = "checked" /\ engine' = [engine EXCEPT !.step = "execute", !.prices = oracle_prices]
    <3>1. \A f \in Monitored : oracle_prices[f] # NoPrice
      BY <1>1, PricedFacts DEF FullInv, FetchInv
    <3>2. \A f \in Monitored : oracle_prices[f] + MaxAge >= engine.checked
      BY <2>2 DEF FullInv, FreshInv
    <3>3. engine'.step = "execute" /\ engine'.checked = engine.checked /\ engine'.prices = oracle_prices
      BY <1>2, <2>2
    <3>4. QED
      BY <3>1, <3>2, <3>3 DEF FreshInv, MonitoredFresh
  <2>3. CASE engine' = [step |-> "tick", checked |-> 0, prices |-> NoPrices]
    BY <2>3 DEF FreshInv, MonitoredFresh
  <2>4. QED
    BY <1>4, <2>1, <2>2, <2>3
<1>9. QED
  BY <1>5, <1>6, <1>7, <1>8

\* Every step of the oracle, the feed and the engine keeps FullInv.
LEMMA FullNext == FullInv /\ [Next]_vars => FullInv'
<1> SUFFICES ASSUME FullInv, [Next]_vars PROVE FullInv'
  OBVIOUS
<1> DEFINE Rest == RestTypeOK' /\ ToldNotAhead' /\ ToldInv' /\ FetchInv' /\ FreshInv'
<1>1. Inv'
  BY FeedNext DEF FullInv
<1>2. stream \in {"off", "closed", "open"} /\ drops \in 0..MaxDrops /\ garbled \in 0..MaxGarbled
      /\ MaxDrops \in Nat /\ MaxGarbled \in Nat
  BY OracleAssumption DEF FullInv, RestTypeOK
<1>3. ASSUME \/ Tick \/ (\E ids \in SUBSET OracleIds : Publish(ids)) \/ StartTasks
             \/ Connect \/ Drop \/ GarbledMessage \/ UNCHANGED vars
      PROVE  Rest
  <2>1. UNCHANGED <<updates, events, oracle_prices, told, fetch>>
    BY <1>3 DEF Tick, Publish, StartTasks, Connect, Drop, GarbledMessage, vars, feed
  <2>2. stream' \in {"off", "closed", "open"} /\ drops' \in 0..MaxDrops /\ garbled' \in 0..MaxGarbled
    <3>1. stream' \in {stream, "closed", "open"}
      BY <1>3 DEF Tick, Publish, StartTasks, Connect, Drop, GarbledMessage, vars, feed
    <3>2. drops' = drops \/ (drops < MaxDrops /\ drops' = drops + 1)
      BY <1>3 DEF Tick, Publish, StartTasks, Connect, Drop, GarbledMessage, vars, feed
    <3>3. garbled' = garbled \/ (garbled < MaxGarbled /\ garbled' = garbled + 1)
      BY <1>3 DEF Tick, Publish, StartTasks, Connect, Drop, GarbledMessage, vars, feed
    <3>4. QED
      BY <1>2, <3>1, <3>2, <3>3
  <2>3. \/ engine' = engine
        \/ fetch.state = "done" /\ engine' = [engine EXCEPT !.step = "tick"]
    BY <1>3 DEF Tick, Publish, StartTasks, Connect, Drop, GarbledMessage, vars, feed
  <2>4. QED
    BY <2>1, <2>2, <2>3, FullNextElsewhere
<1>4. ASSUME SendFetch \/ FetchArrives PROVE Rest
  BY <1>4, FullFetchNext
<1>5. ASSUME StorePrice PROVE Rest
  BY <1>5, FullStoreNext
<1>6. ASSUME Message \/ BroadcastPrice PROVE Rest
  BY <1>6, FullMessageNext
<1>7. ASSUME CheckPrices \/ CopyPrices \/ EndCycle PROVE Rest
  BY <1>7, FullEngineNext
<1>8. Rest
  BY <1>3, <1>4, <1>5, <1>6, <1>7 DEF Next, Feed
<1>9. QED
  BY <1>1, <1>8 DEF FullInv

\* The engine, the feed and the fetch are always in the states the code gives them.
THEOREM TypeCorrect == Spec => []TypeOK
<1>1. FullInv => TypeOK
  BY DEF FullInv, Inv, PricesTypeOK, RestTypeOK, TypeOK
<1>2. QED
  BY <1>1, FullInit, FullNext, PTL DEF Spec

\* The clients of broadcast_oracle_price never hear of a price before it is in AmmState,
\* although the two are written in steps of their own.
THEOREM ClientsNotAhead == Spec => []ToldNotAhead
<1>1. FullInv => ToldNotAhead
  BY DEF FullInv
<1>2. QED
  BY <1>1, FullInit, FullNext, PTL DEF Spec

\* The engine never executes without a price that prices_are_stale asked for, nor with one
\* that was stale when it asked, whatever the feed stored between that check and the copy.
\* Nothing follows for a price it did not ask for: with the configured oracle ids the
\* canaries name no pool at all (run stale_prices).
THEOREM MonitoredPricesFresh == Spec => []MonitoredFresh
<1>1. FullInv => MonitoredFresh
  BY DEF FullInv, FreshInv, MonitoredFresh
<1>2. QED
  BY <1>1, FullInit, FullNext, PTL DEF Spec
=============================================================================
