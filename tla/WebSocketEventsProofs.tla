----------------------- MODULE WebSocketEventsProofs -----------------------
(* Theorems about WebSocketEvents, for any number of connections, topics and events. *)
EXTENDS WebSocketEvents, TLAPS

\* The types of the two maps and of the handlers, which the channel does not touch.
MapsTypeOK ==
  /\ handler \in [Conns -> [at : {"new", "idle", "ack", "remove", "closed"}, left : SUBSET Channels]]
  /\ connections \subseteq Conns
  /\ subscriptions \in [Channels -> SUBSET Conns]

\* A handler that is cleaning up has removed its connection, and its subscriptions but for
\* those of the channels left.
CleanupInv ==
  \A c \in Conns :
    handler[c].at = "remove" =>
      /\ c \notin connections
      /\ \A channel \in Channels \ handler[c].left : c \notin subscriptions[channel]

Inv == MapsTypeOK /\ CleanupInv /\ ClosedLeavesNothing

\* Nobody is connected when the server starts.
LEMMA EventsInit == Init => Inv
  BY DEF Init, Inv, MapsTypeOK, CleanupInv, ClosedLeavesNothing, Channels

\* Every step of every task keeps it.
LEMMA EventsNext == Inv /\ [Next]_vars => Inv'
<1> SUFFICES ASSUME Inv, [Next]_vars PROVE Inv'
  OBVIOUS
<1> USE DEF Inv, MapsTypeOK, CleanupInv, ClosedLeavesNothing, registry, heart, stream
<1>1. ASSUME NEW c \in Conns, add_connection(c) PROVE Inv'
  BY <1>1 DEF add_connection, Idle
<1>2. ASSUME NEW c \in Conns, NEW channel \in Channels, subscribe(c, channel) PROVE Inv'
  BY <1>2 DEF subscribe, Acking
<1>3. ASSUME NEW c \in Conns, NEW channel \in Channels, SendSubscribed(c, channel) PROVE Inv'
  BY <1>3 DEF SendSubscribed, Acking, Idle
<1>4. ASSUME NEW c \in Conns, NEW channel \in Channels, unsubscribe(c, channel) PROVE Inv'
  BY <1>4 DEF unsubscribe
<1>5. ASSUME NEW c \in Conns, update_last_pong(c) \/ GoQuiet(c) PROVE Inv'
  BY <1>5 DEF update_last_pong, GoQuiet
<1>6. ASSUME NEW c \in Conns, Disconnect(c) PROVE Inv'
  BY <1>6 DEF Disconnect, Unregister, Removing
<1>7. ASSUME NEW c \in Conns, NEW channel \in Channels, RemoveSubscription(c, channel) PROVE Inv'
  <2> DEFINE left == handler[c].left \ {channel}
  <2>1. /\ handler[c].at = "remove"
        /\ subscriptions' = [subscriptions EXCEPT ![channel] = @ \ {c}]
        /\ handler' = [handler EXCEPT ![c] = [at |-> IF left = {} THEN "closed" ELSE "remove", left |-> left]]
        /\ UNCHANGED connections
    BY <1>7 DEF RemoveSubscription
  <2>2. \A d \in Conns, ch \in Channels : d \in subscriptions'[ch] => d \in subscriptions[ch]
    BY <2>1
  <2>3. \A ch \in Channels \ left : c \notin subscriptions'[ch]
    BY <2>1
  <2>4. MapsTypeOK'
    BY <2>1
  <2>5. \A d \in Conns \ {c} : handler'[d] = handler[d]
    BY <2>1
  <2>6. /\ handler'[c].left = left
        /\ handler'[c].at = IF left = {} THEN "closed" ELSE "remove"
    BY <2>1
  <2>7. c \notin connections'
    BY <2>1
  <2> HIDE DEF left
  <2>8. CleanupInv'
    BY <2>1, <2>2, <2>3, <2>5, <2>6, <2>7
  <2>9. ClosedLeavesNothing'
    BY <2>1, <2>2, <2>3, <2>5, <2>6, <2>7
  <2>10. QED
    BY <2>4, <2>8, <2>9
<1>8. ASSUME check_stale_connections PROVE Inv'
  BY <1>8 DEF check_stale_connections
<1>9. ASSUME NEW c \in Conns, RemoveStale(c) PROVE Inv'
  BY <1>9 DEF RemoveStale, Unregister
<1>10. ASSUME NEW channel \in Channels, RemoveStaleSubscription(channel) PROVE Inv'
  BY <1>10 DEF RemoveStaleSubscription
<1>11. ASSUME NEW topic \in Topics, Broadcast(topic) PROVE Inv'
  BY <1>11 DEF Broadcast
<1>12. ASSUME Forwarder PROVE Inv'
  BY <1>12 DEF Forwarder, subscribe_events, Lagged, Receive, SendTo, ForwardToTopic, Forwarded
<1>13. CASE UNCHANGED vars
  BY <1>13 DEF vars
<1>14. QED
  BY <1>1, <1>2, <1>3, <1>4, <1>5, <1>6, <1>7, <1>8, <1>9, <1>10, <1>11, <1>12, <1>13
     DEF Next, Handler, Cleanup, Heartbeat

\* Removal by the handler and by the heartbeat, each map access a step of its own and in
\* any order, never leaves a subscription of a connection that is gone for good.
THEOREM ClosedIsGone == Spec => []ClosedLeavesNothing
<1>1. Inv => ClosedLeavesNothing
  BY DEF Inv
<1>2. QED
  BY <1>1, EventsInit, EventsNext, PTL DEF Spec

-----------------------------------------------------------------------------
\* Who is served: an acknowledged client is registered under its channel, and one the
\* heartbeat is removing is not connected any more, nor will it be again.
Served ==
  /\ \A channel \in Channels : acked[channel] \subseteq subscriptions[channel]
  /\ \A c \in Conns, channel \in Channels :
       handler[c] = Acking(channel) /\ c \in connections => c \in subscriptions[channel]
  /\ \A c \in Conns : handler[c].at = "new" => c \notin connections \cup stale \cup sweep.of
  /\ sweep.of \cap connections = {}

\* What an event is owed for: an acknowledged subscription whose client is still among those
\* the forwarder has to serve, on the channel without an id first and then on the topic's.
Owed ==
  /\ \A i \in DOMAIN queue : queue[i].owed \subseteq Waiting(queue[i].topic, acked)
  /\ forwarder.event.owed \subseteq Waiting(forwarder.event.topic, acked)
  /\ forwarder.stage = "all" => \A s \in forwarder.event.owed : s[2] = All => s[1] \in forwarder.to
  /\ forwarder.stage = "topic" => \A s \in forwarder.event.owed : s[1] \in forwarder.to

FullInv == Inv /\ TypeOK /\ Served /\ Owed

Forwarders == [stage : {"off", "recv", "all", "topic"}, event : Event, to : SUBSET Conns]

\* Nobody is acknowledged and no event is on its way at the start.
LEMMA FullEventsInit == Init => FullInv
<1> SUFFICES ASSUME Init PROVE FullInv
  OBVIOUS
<1>1. Inv
  BY EventsInit
<1>2. TypeOK
  <2>1. forwarder \in Forwarders
    BY DEF Init, Forwarders, Event, NoEvent
  <2>2. queue \in Seq(Event) /\ Len(queue) <= Capacity /\ sent \in 0..MaxEvents
    BY EventsAssumption DEF Init
  <2>3. QED
    BY <2>1, <2>2 DEF Init, TypeOK, Forwarders
<1>3. Served /\ Owed
  BY DEF Init, Served, Owed, Acking, NoEvent
<1>4. QED
  BY <1>1, <1>2, <1>3 DEF FullInv

\* Clients that are released are owed nothing, and nobody else is owed less or more.
LEMMA ReleaseOwed ==
  ASSUME FullInv, NEW told \in [Channels -> SUBSET Conns],
         \A channel \in Channels : told[channel] \subseteq acked[channel], Release(told)
  PROVE  /\ acked' = told /\ sent' = sent /\ lagged' = lagged
         /\ queue' \in Seq(Event) /\ Len(queue') = Len(queue) /\ forwarder' \in Forwarders
         /\ Owed'
<1> DEFINE rest(event) == [event EXCEPT !.owed = @ \cap Waiting(event.topic, told)]
<1>1. /\ acked' = told /\ sent' = sent /\ lagged' = lagged
      /\ queue' = [i \in DOMAIN queue |-> rest(queue[i])]
      /\ forwarder' = [forwarder EXCEPT !.event = rest(@)]
  BY DEF Release
<1>2. queue \in Seq(Event) /\ forwarder \in Forwarders
  BY DEF FullInv, TypeOK, Forwarders
<1>3. ASSUME NEW e \in Event
      PROVE  rest(e) \in Event /\ rest(e).topic = e.topic /\ rest(e).owed = e.owed \cap Waiting(e.topic, told)
  BY DEF Event
<1> HIDE DEF rest
<1>4. DOMAIN queue = 1..Len(queue) /\ Len(queue) \in Nat /\ \A i \in DOMAIN queue : queue[i] \in Event
  BY <1>2
<1>5. queue' \in Seq(Event) /\ Len(queue') = Len(queue) /\ DOMAIN queue' = DOMAIN queue
  <2>1. queue' \in [1..Len(queue) -> Event]
    BY <1>1, <1>3, <1>4
  <2>2. QED
    BY <1>4, <2>1
<1>6. forwarder.event \in Event
  BY <1>2 DEF Forwarders
<1>7. /\ forwarder' \in Forwarders /\ forwarder'.stage = forwarder.stage /\ forwarder'.to = forwarder.to
      /\ forwarder'.event = rest(forwarder.event)
  BY <1>1, <1>2, <1>3, <1>6 DEF Forwarders
<1>8. \A i \in DOMAIN queue' : queue'[i].owed \subseteq Waiting(queue'[i].topic, acked')
  BY <1>1, <1>3, <1>4, <1>5
<1>9. forwarder'.event.owed \subseteq Waiting(forwarder'.event.topic, acked')
  BY <1>1, <1>3, <1>6, <1>7
<1>10. forwarder'.event.owed \subseteq forwarder.event.owed
  BY <1>3, <1>6, <1>7
<1>11. QED
  BY <1>1, <1>5, <1>7, <1>8, <1>9, <1>10 DEF FullInv, Owed

\* The pairs an event waits for only grow with the acknowledgements.
LEMMA WaitingGrows ==
  ASSUME NEW topic, NEW old, NEW new, \A channel \in Channels : old[channel] \subseteq new[channel]
  PROVE  Waiting(topic, old) \subseteq Waiting(topic, new)
BY DEF Waiting

\* A connection that goes leaves the acknowledgements, the silent ones and what is owed.
LEMMA UnregisterNext ==
  ASSUME FullInv, NEW c \in Conns, Unregister(c)
  PROVE  /\ connections' = connections \ {c} /\ quiet' = quiet \ {c}
         /\ acked' \in [Channels -> SUBSET connections']
         /\ \A channel \in Channels : acked'[channel] = acked[channel] \ {c}
         /\ sent' = sent /\ lagged' = lagged
         /\ queue' \in Seq(Event) /\ Len(queue') = Len(queue) /\ forwarder' \in Forwarders
         /\ Owed'
<1> DEFINE told == [channel \in Channels |-> acked[channel] \ {c}]
<1>1. connections' = connections \ {c} /\ quiet' = quiet \ {c} /\ Release(told)
  BY DEF Unregister
<1>2. acked \in [Channels -> SUBSET connections] /\ connections \subseteq Conns
  BY DEF FullInv, TypeOK
<1>3. told \in [Channels -> SUBSET Conns] /\ \A channel \in Channels : told[channel] \subseteq acked[channel]
  BY <1>2
<1>4. told \in [Channels -> SUBSET connections'] /\ \A channel \in Channels : told[channel] = acked[channel] \ {c}
  BY <1>1, <1>2
<1> HIDE DEF told
<1>5. /\ acked' = told /\ sent' = sent /\ lagged' = lagged
      /\ queue' \in Seq(Event) /\ Len(queue') = Len(queue) /\ forwarder' \in Forwarders
      /\ Owed'
  BY <1>1, <1>3, ReleaseOwed
<1>6. QED
  BY <1>1, <1>4, <1>5

-----------------------------------------------------------------------------
\* A connection's own steps.
LEMMA HandlerNext ==
  ASSUME FullInv, NEW c \in Conns, Handler(c) \/ Cleanup(c) \/ GoQuiet(c)
  PROVE  TypeOK' /\ Served' /\ Owed'
<1> USE DEF FullInv
<1>1. CASE add_connection(c)
  <2>1. /\ handler[c].at = "new" /\ handler' = [handler EXCEPT ![c] = Idle]
        /\ connections' = connections \cup {c}
        /\ UNCHANGED <<subscriptions, quiet, stale, sweep, sent, queue, lagged, forwarder, acked>>
    BY <1>1 DEF add_connection, heart, stream
  <2>2. TypeOK'
    BY <2>1 DEF TypeOK, Idle
  <2>3. Served'
    <3>1. \A ch \in Channels : acked'[ch] \subseteq subscriptions'[ch]
      BY <2>1 DEF Served
    <3>2. \A d \in Conns, ch \in Channels :
            handler'[d] = Acking(ch) /\ d \in connections' => d \in subscriptions'[ch]
      BY <2>1 DEF TypeOK, Served, Idle, Acking
    <3>3. \A d \in Conns : handler'[d].at = "new" => d \notin connections' \cup stale' \cup sweep'.of
      BY <2>1 DEF TypeOK, Served, Idle
    <3>4. sweep'.of \cap connections' = {}
      BY <2>1 DEF Served
    <3>5. QED
      BY <3>1, <3>2, <3>3, <3>4 DEF Served
  <2>4. Owed'
    BY <2>1 DEF Owed
  <2>5. QED
    BY <2>2, <2>3, <2>4
<1>2. ASSUME NEW channel \in Channels, subscribe(c, channel) PROVE TypeOK' /\ Served' /\ Owed'
  <2>1. /\ handler[c].at = "idle" /\ handler' = [handler EXCEPT ![c] = Acking(channel)]
        /\ subscriptions' = [subscriptions EXCEPT ![channel] = @ \cup {c}]
        /\ UNCHANGED <<connections, quiet, stale, sweep, sent, queue, lagged, forwarder, acked>>
    BY <1>2 DEF subscribe, heart, stream
  <2>2. TypeOK'
    BY <2>1 DEF TypeOK, Acking
  <2>3. Served'
    <3>1. \A ch \in Channels : acked'[ch] \subseteq subscriptions'[ch]
      BY <2>1 DEF TypeOK, Served
    <3>2. \A d \in Conns, ch \in Channels :
            handler'[d] = Acking(ch) /\ d \in connections' => d \in subscriptions'[ch]
      BY <2>1 DEF TypeOK, Served, Acking
    <3>3. \A d \in Conns : handler'[d].at = "new" => d \notin connections' \cup stale' \cup sweep'.of
      BY <2>1 DEF TypeOK, Served, Acking
    <3>4. sweep'.of \cap connections' = {}
      BY <2>1 DEF Served
    <3>5. QED
      BY <3>1, <3>2, <3>3, <3>4 DEF Served
  <2>4. Owed'
    BY <2>1 DEF Owed
  <2>5. QED
    BY <2>2, <2>3, <2>4
<1>3. ASSUME NEW channel \in Channels, SendSubscribed(c, channel) PROVE TypeOK' /\ Served' /\ Owed'
  <2>1. /\ handler[c] = Acking(channel) /\ handler' = [handler EXCEPT ![c] = Idle]
        /\ acked' = [acked EXCEPT ![channel] = @ \cup ({c} \cap connections)]
        /\ UNCHANGED <<connections, subscriptions, quiet, stale, sweep, sent, queue, lagged, forwarder>>
    BY <1>3 DEF SendSubscribed, registry, heart, stream
  <2>2. TypeOK'
    BY <2>1 DEF TypeOK, Idle
  <2>3. Served'
    <3>1. \A ch \in Channels : acked'[ch] \subseteq subscriptions'[ch]
      BY <2>1 DEF TypeOK, Served, Acking
    <3>2. \A d \in Conns, ch \in Channels :
            handler'[d] = Acking(ch) /\ d \in connections' => d \in subscriptions'[ch]
      BY <2>1 DEF TypeOK, Served, Acking, Idle
    <3>3. \A d \in Conns : handler'[d].at = "new" => d \notin connections' \cup stale' \cup sweep'.of
      BY <2>1 DEF TypeOK, Served, Idle
    <3>4. sweep'.of \cap connections' = {}
      BY <2>1 DEF Served
    <3>5. QED
      BY <3>1, <3>2, <3>3, <3>4 DEF Served
  <2>4. \A ch \in Channels : acked[ch] \subseteq acked'[ch]
    BY <2>1 DEF TypeOK
  <2>5. Owed'
    <3>1. \A topic : Waiting(topic, acked) \subseteq Waiting(topic, acked')
      BY <2>4, WaitingGrows
    <3>2. \A topic : Waiting(topic, acked)' = Waiting(topic, acked')
      BY DEF Waiting
    <3>3. QED
      BY <2>1, <3>1, <3>2 DEF Owed
  <2>6. QED
    BY <2>2, <2>3, <2>5
<1>4. ASSUME NEW channel \in Channels, unsubscribe(c, channel) PROVE TypeOK' /\ Served' /\ Owed'
  <2> DEFINE told == [acked EXCEPT ![channel] = @ \ {c}]
  <2>1. /\ handler[c].at = "idle" /\ subscriptions' = [subscriptions EXCEPT ![channel] = @ \ {c}]
        /\ Release(told) /\ UNCHANGED <<handler, connections, quiet, stale, sweep>>
    BY <1>4 DEF unsubscribe, heart
  <2>2. acked \in [Channels -> SUBSET connections] /\ connections \subseteq Conns
    BY DEF TypeOK
  <2>3. /\ told \in [Channels -> SUBSET Conns] /\ told \in [Channels -> SUBSET connections]
        /\ \A ch \in Channels : told[ch] = IF ch = channel THEN acked[ch] \ {c} ELSE acked[ch]
    BY <2>2
  <2> HIDE DEF told
  <2>4. /\ acked' = told /\ sent' = sent /\ lagged' = lagged
        /\ queue' \in Seq(Event) /\ Len(queue') = Len(queue) /\ forwarder' \in Forwarders
        /\ Owed'
    BY <2>1, <2>3, ReleaseOwed
  <2>5. TypeOK'
    BY <2>1, <2>3, <2>4 DEF TypeOK, Forwarders
  <2>6. Served'
    <3>1. \A ch \in Channels : acked'[ch] \subseteq subscriptions'[ch]
      BY <2>1, <2>3, <2>4 DEF TypeOK, Served
    <3>2. \A d \in Conns, ch \in Channels :
            handler'[d] = Acking(ch) /\ d \in connections' => d \in subscriptions'[ch]
      BY <2>1 DEF TypeOK, Served, Acking
    <3>3. QED
      BY <2>1, <3>1, <3>2 DEF Served, Acking
  <2>7. QED
    BY <2>4, <2>5, <2>6
<1>5. CASE update_last_pong(c) \/ GoQuiet(c)
  <2>1. /\ quiet' = quiet \ {c} \/ (quiet' = quiet \cup {c} /\ c \in connections)
        /\ UNCHANGED <<handler, connections, subscriptions, stale, sweep, sent, queue, lagged, forwarder, acked>>
    BY <1>5 DEF update_last_pong, GoQuiet, heart, stream
  <2>2. TypeOK'
    BY <2>1 DEF TypeOK
  <2>3. Served' /\ Owed'
    BY <2>1 DEF Served, Owed
  <2>4. QED
    BY <2>2, <2>3
<1>6. CASE Disconnect(c)
  <2>1. /\ handler[c].at = "idle" /\ handler' = [handler EXCEPT ![c] = Removing]
        /\ Unregister(c) /\ UNCHANGED <<subscriptions, stale, sweep>>
    BY <1>6 DEF Disconnect, heart
  <2>2. /\ connections' = connections \ {c} /\ quiet' = quiet \ {c}
        /\ acked' \in [Channels -> SUBSET connections']
        /\ \A channel \in Channels : acked'[channel] = acked[channel] \ {c}
        /\ sent' = sent /\ lagged' = lagged
        /\ queue' \in Seq(Event) /\ Len(queue') = Len(queue) /\ forwarder' \in Forwarders
        /\ Owed'
    BY <2>1, UnregisterNext
  <2>3. TypeOK'
    BY <2>1, <2>2 DEF TypeOK, Forwarders, Removing
  <2>4. Served'
    <3>1. \A ch \in Channels : acked'[ch] \subseteq subscriptions'[ch]
      BY <2>1, <2>2 DEF Served
    <3>2. \A d \in Conns, ch \in Channels :
            handler'[d] = Acking(ch) /\ d \in connections' => d \in subscriptions'[ch]
      BY <2>1, <2>2 DEF TypeOK, Served, Removing, Acking
    <3>3. \A d \in Conns : handler'[d].at = "new" => d \notin connections' \cup stale' \cup sweep'.of
      BY <2>1, <2>2 DEF TypeOK, Served, Removing
    <3>4. sweep'.of \cap connections' = {}
      BY <2>1, <2>2 DEF Served
    <3>5. QED
      BY <3>1, <3>2, <3>3, <3>4 DEF Served
  <2>5. QED
    BY <2>2, <2>3, <2>4
<1>7. ASSUME NEW channel \in Channels, RemoveSubscription(c, channel) PROVE TypeOK' /\ Served' /\ Owed'
  <2> DEFINE left == handler[c].left \ {channel}
  <2>1. /\ handler[c].at = "remove"
        /\ subscriptions' = [subscriptions EXCEPT ![channel] = @ \ {c}]
        /\ handler' = [handler EXCEPT ![c] = [at |-> IF left = {} THEN "closed" ELSE "remove", left |-> left]]
        /\ UNCHANGED <<connections, quiet, stale, sweep, sent, queue, lagged, forwarder, acked>>
    BY <1>7 DEF RemoveSubscription, heart, stream
  <2>2. left \subseteq Channels
    BY DEF TypeOK
  <2>3. c \notin connections
    BY <2>1 DEF Inv, CleanupInv
  <2>4. \A ch \in Channels : c \notin acked[ch]
    BY <2>3 DEF TypeOK
  <2> HIDE DEF left
  <2>5. TypeOK'
    BY <2>1, <2>2 DEF TypeOK
  <2>6. handler'[c].at \in {"closed", "remove"} /\ \A d \in Conns \ {c} : handler'[d] = handler[d]
    BY <2>1 DEF TypeOK
  <2>7. Served'
    <3>1. \A ch \in Channels : acked'[ch] \subseteq subscriptions'[ch]
      BY <2>1, <2>4 DEF TypeOK, Served
    <3>2. \A d \in Conns, ch \in Channels :
            handler'[d] = Acking(ch) /\ d \in connections' => d \in subscriptions'[ch]
      BY <2>1, <2>3, <2>6 DEF TypeOK, Served
    <3>3. \A d \in Conns : handler'[d].at = "new" => d \notin connections' \cup stale' \cup sweep'.of
      BY <2>1, <2>6 DEF Served
    <3>4. QED
      BY <2>1, <3>1, <3>2, <3>3 DEF Served
  <2>8. Owed'
    BY <2>1 DEF Owed
  <2>9. QED
    BY <2>5, <2>7, <2>8
<1>8. QED
  BY <1>1, <1>2, <1>3, <1>4, <1>5, <1>6, <1>7 DEF Handler, Cleanup

\* The heartbeat's steps.
LEMMA HeartbeatNext ==
  ASSUME FullInv, Heartbeat
  PROVE  TypeOK' /\ Served' /\ Owed'
<1> USE DEF FullInv
<1>1. CASE check_stale_connections
  <2>1. /\ stale' = connections \cap quiet
        /\ UNCHANGED <<handler, connections, subscriptions, quiet, sweep, sent, queue, lagged, forwarder, acked>>
    BY <1>1 DEF check_stale_connections, StaleConnections, registry, stream
  <2>2. TypeOK' /\ Served'
    BY <2>1 DEF TypeOK, Served
  <2>3. Owed'
    BY <2>1 DEF Owed
  <2>4. QED
    BY <2>2, <2>3
<1>2. ASSUME NEW c \in Conns, RemoveStale(c) PROVE TypeOK' /\ Served' /\ Owed'
  <2>1. /\ c \in stale /\ stale' = stale \ {c} /\ sweep' = [of |-> {c}, left |-> Channels]
        /\ Unregister(c) /\ UNCHANGED <<handler, subscriptions>>
    BY <1>2 DEF RemoveStale
  <2>2. /\ connections' = connections \ {c} /\ quiet' = quiet \ {c}
        /\ acked' \in [Channels -> SUBSET connections']
        /\ \A channel \in Channels : acked'[channel] = acked[channel] \ {c}
        /\ sent' = sent /\ lagged' = lagged
        /\ queue' \in Seq(Event) /\ Len(queue') = Len(queue) /\ forwarder' \in Forwarders
        /\ Owed'
    BY <2>1, UnregisterNext
  <2>3. TypeOK'
    BY <2>1, <2>2 DEF TypeOK, Forwarders
  <2>4. Served'
    BY <2>1, <2>2 DEF Served, Acking
  <2>5. QED
    BY <2>2, <2>3, <2>4
<1>3. ASSUME NEW channel \in Channels, RemoveStaleSubscription(channel) PROVE TypeOK' /\ Served' /\ Owed'
  <2> DEFINE left == sweep.left \ {channel}
  <2>1. /\ subscriptions' = [subscriptions EXCEPT ![channel] = @ \ sweep.of]
        /\ sweep' = [of |-> IF left = {} THEN {} ELSE sweep.of, left |-> left]
        /\ UNCHANGED <<handler, connections, quiet, stale, sent, queue, lagged, forwarder, acked>>
    BY <1>3 DEF RemoveStaleSubscription, stream
  <2>2. left \subseteq Channels
    BY DEF TypeOK
  <2>3. \A ch \in Channels : acked[ch] \cap sweep.of = {}
    BY DEF TypeOK, Served
  <2> HIDE DEF left
  <2>4. TypeOK'
    BY <2>1, <2>2 DEF TypeOK
  <2>5. sweep'.of \subseteq sweep.of
    BY <2>1
  <2>6. Served'
    <3>1. \A ch \in Channels : acked'[ch] \subseteq subscriptions'[ch]
      BY <2>1, <2>3 DEF TypeOK, Served
    <3>2. \A d \in Conns, ch \in Channels :
            handler'[d] = Acking(ch) /\ d \in connections' => d \in subscriptions'[ch]
      BY <2>1 DEF TypeOK, Served
    <3>3. QED
      BY <2>1, <2>5, <3>1, <3>2 DEF Served
  <2>7. Owed'
    BY <2>1 DEF Owed
  <2>8. QED
    BY <2>4, <2>6, <2>7
<1>4. QED
  BY <1>1, <1>2, <1>3 DEF Heartbeat

\* A new event is owed to whoever is acknowledged; an event that is overwritten is gone.
LEMMA BroadcastNext ==
  ASSUME FullInv, NEW topic \in Topics, Broadcast(topic)
  PROVE  TypeOK' /\ Served' /\ Owed'
<1> USE DEF FullInv
<1> DEFINE event == [topic |-> topic, owed |-> Waiting(topic, acked)]
           kept  == IF Len(queue) = Capacity THEN Tail(queue) ELSE queue
<1>1. /\ sent < MaxEvents /\ sent' = sent + 1
      /\ UNCHANGED <<handler, connections, subscriptions, quiet, stale, sweep, forwarder, acked>>
      /\ \/ queue' = queue /\ lagged' = lagged
         \/ queue' = Append(kept, event) /\ lagged' = (lagged \/ Len(queue) = Capacity)
  BY DEF Broadcast, registry, heart
<1>2. /\ queue \in Seq(Event) /\ Len(queue) <= Capacity /\ Capacity \in Nat \ {0} /\ Len(queue) \in Nat
      /\ lagged \in BOOLEAN /\ MaxEvents \in Nat /\ sent \in 0..MaxEvents
  BY EventsAssumption DEF TypeOK
<1>3. event \in Event /\ event.owed \subseteq Waiting(event.topic, acked)
  BY DEF Event, Waiting
<1>4. /\ kept \in Seq(Event) /\ Len(kept) < Capacity
      /\ \A i \in DOMAIN kept : \E k \in DOMAIN queue : kept[i] = queue[k]
  <2>1. CASE Len(queue) = Capacity
    <3>1. queue # <<>>
      BY <1>2, <2>1
    <3>2. Tail(queue) \in Seq(Event) /\ Len(Tail(queue)) = Len(queue) - 1
      BY <1>2, <3>1
    <3>3. \A i \in DOMAIN Tail(queue) : i + 1 \in DOMAIN queue /\ Tail(queue)[i] = queue[i + 1]
      BY <1>2, <3>1
    <3>4. QED
      BY <1>2, <2>1, <3>2, <3>3
  <2>2. CASE Len(queue) # Capacity
    BY <1>2, <2>2
  <2>3. QED
    BY <2>1, <2>2
<1> HIDE DEF event, kept
<1>5. /\ queue' \in Seq(Event) /\ Len(queue') <= Capacity
      /\ \A i \in DOMAIN queue' : queue'[i] = event \/ \E k \in DOMAIN queue : queue'[i] = queue[k]
  <2>1. CASE queue' = queue
    BY <1>2, <2>1
  <2>2. CASE queue' = Append(kept, event)
    <3>1. queue' \in Seq(Event) /\ Len(queue') = Len(kept) + 1
      BY <1>3, <1>4, <2>2
    <3>2. Len(queue') <= Capacity
      BY <1>2, <1>4, <3>1
    <3>3. \A i \in DOMAIN queue' : queue'[i] = event \/ (i \in DOMAIN kept /\ queue'[i] = kept[i])
      BY <1>3, <1>4, <2>2
    <3>4. QED
      BY <1>4, <3>1, <3>2, <3>3
  <2>3. QED
    BY <1>1, <2>1, <2>2
<1>6. TypeOK'
  <2>1. sent' \in 0..MaxEvents
    BY <1>1, <1>2
  <2>2. lagged' \in BOOLEAN
    <3>1. (lagged \/ Len(queue) = Capacity) \in BOOLEAN
      BY <1>2, Zenon
    <3>2. lagged' = lagged \/ lagged' = (lagged \/ Len(queue) = Capacity)
      BY <1>1
    <3>3. QED
      BY <1>2, <3>1, <3>2
  <2>3. QED
    BY <1>1, <1>5, <2>1, <2>2 DEF TypeOK
<1>7. Served'
  BY <1>1 DEF Served
<1>8. Owed'
  <2>1. \A i \in DOMAIN queue' : queue'[i].owed \subseteq Waiting(queue'[i].topic, acked)
    BY <1>3, <1>5 DEF Owed
  <2>2. QED
    BY <1>1, <2>1 DEF Owed
<1>9. QED
  BY <1>6, <1>7, <1>8

\* The forwarder serves the clients it has copied, which are all that are owed the event.
LEMMA ForwarderNext ==
  ASSUME FullInv, Forwarder
  PROVE  TypeOK' /\ Served' /\ Owed'
<1> USE DEF FullInv
<1>1. UNCHANGED <<handler, connections, subscriptions, quiet, stale, sweep, sent, acked>>
  BY DEF Forwarder, subscribe_events, Lagged, Receive, SendTo, ForwardToTopic, Forwarded, registry, heart
<1>2. Served'
  BY <1>1 DEF Served
<1>3. forwarder \in Forwarders /\ queue \in Seq(Event) /\ Len(queue) \in Nat /\ Capacity \in Nat
  BY EventsAssumption DEF TypeOK, Forwarders
<1>4. ASSUME queue' = queue, lagged' \in BOOLEAN, forwarder' \in Forwarders PROVE TypeOK'
  BY <1>1, <1>4 DEF TypeOK, Forwarders
<1>5. ASSUME queue' = queue, forwarder'.event.owed \subseteq Waiting(forwarder'.event.topic, acked),
             forwarder'.stage = "all" => \A s \in forwarder'.event.owed : s[2] = All => s[1] \in forwarder'.to,
             forwarder'.stage = "topic" => \A s \in forwarder'.event.owed : s[1] \in forwarder'.to
      PROVE  Owed'
  BY <1>1, <1>5 DEF Owed
<1>6. CASE subscribe_events \/ Lagged
  <2>1. /\ queue' = queue /\ lagged' \in BOOLEAN
        /\ forwarder' = forwarder \/ forwarder' = [forwarder EXCEPT !.stage = "recv"]
    BY <1>6 DEF subscribe_events, Lagged, TypeOK
  <2>2. /\ forwarder' \in Forwarders /\ forwarder'.event = forwarder.event /\ forwarder'.to = forwarder.to
        /\ forwarder'.stage \in {forwarder.stage, "recv"}
    BY <1>3, <2>1 DEF Forwarders
  <2>3. TypeOK' /\ Owed'
    BY <1>4, <1>5, <2>1, <2>2 DEF Owed
  <2>4. QED
    BY <1>2, <2>3
<1>7. CASE Receive
  <2>1. /\ queue # <<>> /\ queue' = Tail(queue) /\ lagged' = lagged
        /\ forwarder' = [stage |-> "all", event |-> Head(queue), to |-> subscriptions[All]]
    BY <1>7 DEF Receive
  <2>2. /\ Head(queue) = queue[1] /\ 1 \in DOMAIN queue /\ Head(queue) \in Event
        /\ queue' \in Seq(Event) /\ Len(queue') = Len(queue) - 1
        /\ \A i \in DOMAIN queue' : i + 1 \in DOMAIN queue /\ queue'[i] = queue[i + 1]
    BY <1>3, <2>1
  <2>3. All \in Channels
    BY DEF Channels
  <2>4. forwarder' \in Forwarders
    BY <2>1, <2>2, <2>3 DEF TypeOK, Forwarders
  <2>5. TypeOK'
    BY <1>1, <1>3, <2>1, <2>2, <2>4 DEF TypeOK, Forwarders
  <2>6. Head(queue).owed \subseteq Waiting(Head(queue).topic, acked)
    BY <2>2 DEF Owed
  <2>7. \A s \in Head(queue).owed : s[2] = All => s[1] \in subscriptions[All]
    BY <2>3, <2>6 DEF Waiting, Served
  <2>8. Owed'
    BY <1>1, <2>1, <2>2, <2>6, <2>7 DEF Owed
  <2>9. QED
    BY <1>2, <2>5, <2>8
<1>8. ASSUME NEW c \in Conns, SendTo(c) PROVE TypeOK' /\ Served' /\ Owed'
  <2> DEFINE rest == forwarder.event.owed \ (({c} \cap connections) \X Channels)
  <2>1. queue' = queue /\ lagged' = lagged
        /\ forwarder' = [forwarder EXCEPT !.to = @ \ {c}, !.event.owed = @ \ (({c} \cap connections) \X Channels)]
    BY <1>8 DEF SendTo
  <2>2. /\ forwarder' \in Forwarders /\ forwarder'.stage = forwarder.stage
        /\ forwarder'.to = forwarder.to \ {c}
        /\ forwarder'.event.topic = forwarder.event.topic /\ forwarder'.event.owed = rest
    BY <1>3, <2>1 DEF Forwarders, Event
  <2>3. \A s \in forwarder.event.owed : s[1] \in connections /\ s \in Conns \X Channels
    BY DEF Owed, Waiting, TypeOK
  <2>4. \A s \in rest : s[1] # c
    BY <2>3
  <2>5. rest \subseteq forwarder.event.owed
    OBVIOUS
  <2> HIDE DEF rest
  <2>6. Owed'
    <3>1. forwarder'.event.owed \subseteq Waiting(forwarder'.event.topic, acked)
      BY <2>2, <2>5 DEF Owed
    <3>2. forwarder'.stage = "all" => \A s \in forwarder'.event.owed : s[2] = All => s[1] \in forwarder'.to
      BY <2>2, <2>4, <2>5 DEF Owed
    <3>3. forwarder'.stage = "topic" => \A s \in forwarder'.event.owed : s[1] \in forwarder'.to
      BY <2>2, <2>4, <2>5 DEF Owed
    <3>4. QED
      BY <1>5, <2>1, <3>1, <3>2, <3>3
  <2>7. TypeOK'
    BY <1>4, <2>1, <2>2 DEF TypeOK
  <2>8. QED
    BY <1>2, <2>6, <2>7
<1>9. CASE ForwardToTopic
  <2> DEFINE topic == forwarder.event.topic
  <2>1. /\ forwarder.stage = "all" /\ forwarder.to = {} /\ queue' = queue /\ lagged' = lagged
        /\ forwarder' = [forwarder EXCEPT !.stage = "topic", !.to = subscriptions[topic]]
    BY <1>9 DEF ForwardToTopic
  <2>2. topic \in Channels
    BY <1>3 DEF Forwarders, Event, Channels
  <2>3. /\ forwarder' \in Forwarders /\ forwarder'.stage = "topic"
        /\ forwarder'.to = subscriptions[topic] /\ forwarder'.event = forwarder.event
    BY <1>3, <2>1, <2>2 DEF Forwarders, TypeOK
  <2>4. \A s \in forwarder.event.owed : s[2] # All
    BY <2>1 DEF Owed
  <2>5. \A s \in forwarder.event.owed : s[2] = topic /\ s[1] \in acked[topic]
    BY <2>4 DEF Owed, Waiting, Matches
  <2>6. \A s \in forwarder'.event.owed : s[1] \in forwarder'.to
    BY <2>2, <2>3, <2>5 DEF Served
  <2>7. TypeOK' /\ Owed'
    BY <1>4, <1>5, <2>1, <2>3, <2>6 DEF TypeOK, Owed
  <2>8. QED
    BY <1>2, <2>7
<1>10. CASE Forwarded
  <2>1. /\ queue' = queue /\ lagged' = lagged
        /\ forwarder' = [stage |-> "recv", event |-> NoEvent, to |-> {}]
    BY <1>10 DEF Forwarded
  <2>2. forwarder' \in Forwarders /\ NoEvent.owed = {}
    BY <2>1 DEF Forwarders, Event, NoEvent
  <2>3. TypeOK' /\ Owed'
    BY <1>4, <1>5, <2>1, <2>2 DEF TypeOK
  <2>4. QED
    BY <1>2, <2>3
<1>11. QED
  BY <1>6, <1>7, <1>8, <1>9, <1>10 DEF Forwarder

\* Every step of the handlers, the heartbeat, the stream and the forwarder keeps FullInv.
LEMMA FullEventsNext == FullInv /\ [Next]_vars => FullInv'
<1> SUFFICES ASSUME FullInv, [Next]_vars PROVE FullInv'
  OBVIOUS
<1>1. Inv'
  BY EventsNext DEF FullInv
<1>2. CASE UNCHANGED vars
  <2>1. TypeOK' /\ Served' /\ Owed'
    BY <1>2 DEF FullInv, TypeOK, Served, Owed, vars, registry, heart, stream
  <2>2. QED
    BY <1>1, <2>1 DEF FullInv
<1>3. CASE Next
  BY <1>1, <1>3, HandlerNext, HeartbeatNext, BroadcastNext, ForwarderNext DEF FullInv, Next
<1>4. QED
  BY <1>2, <1>3

\* The maps, the channel and the tasks stay within their types; the channel never holds
\* more than its capacity, and only connections are acknowledged or silent.
THEOREM EventsTypeCorrect == Spec => []TypeOK
<1>1. FullInv => TypeOK
  BY DEF FullInv
<1>2. QED
  BY <1>1, FullEventsInit, FullEventsNext, PTL DEF Spec

\* An event that reaches the forwarder reaches every client that was acknowledged before
\* it was broadcast and still is, although the two subscriber sets are copied one after the
\* other and the connections are looked up later still.
THEOREM SubscribersServed == Spec => []SubscriberMissesNothing
<1>1. FullInv => SubscriberMissesNothing
  BY DEF FullInv, Owed, SubscriberMissesNothing
<1>2. QED
  BY <1>1, FullEventsInit, FullEventsNext, PTL DEF Spec
=============================================================================
