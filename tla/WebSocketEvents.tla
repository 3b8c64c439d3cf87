-------------------------- MODULE WebSocketEvents --------------------------
(***************************************************************************)
(* The events the server pushes to WebSocket clients: the connection       *)
(* handlers, the heartbeat task, and one stream of events with its         *)
(* forwarding task.  The streams (order updates, pool states, oracle       *)
(* prices, stats) share the connections and have tasks and channels of     *)
(* their own that are all alike, so one of them is modelled; a topic is    *)
(* the order, faucet or oracle an event is about.                          *)
(*                                                                         *)
(* All tasks run on the threads of the main runtime.  The two concurrent   *)
(* maps have no common lock: every access to a map is a step.              *)
(***************************************************************************)
EXTENDS Integers, Sequences

CONSTANTS
  Conns,      \* connection ids, one per call of websocket_handler
  Topics,     \* what events are about
  All,        \* the channel without an id, which gets every event
  Capacity,   \* the events a broadcast channel holds
  MaxEvents   \* bound on the events broadcast

ASSUME EventsAssumption ==
  /\ All \notin Topics
  /\ Capacity \in Nat \ {0} /\ MaxEvents \in Nat

VARIABLES
  handler,        \* the next step of each connection's handler, and its argument
  connections,    \* ConnectionManager::connections
  subscriptions,  \* ConnectionManager::subscriptions; no entry is the empty set
  quiet,          \* the connections whose last pong is more than 60 s ago
  stale,          \* what check_stale_connections has found and not yet removed
  sweep,          \* the connection the heartbeat removes, and the channels left
  sent,           \* how many events were broadcast
  queue,          \* the broadcast channel: events the forwarder has not received
  lagged,         \* the channel has overwritten an event since it last received
  forwarder,      \* the forwarding task: its stage, its event, the ids to serve
  acked           \* observer: the registered clients that were told Subscribed

registry == <<connections, subscriptions, quiet>>
heart    == <<stale, sweep>>
stream   == <<sent, queue, lagged, forwarder>>
vars     == <<handler, registry, heart, stream, acked>>

Channels == Topics \cup {All}

\* SubscriptionChannel::matches.
Matches(channel, topic) == channel \in {All, topic}

\* An event; owed is an observer: the acknowledged subscriptions, as pairs of a
\* client and a channel, on whose account the client has still to get it.
Event   == [topic : Topics \cup {All}, owed : SUBSET (Conns \X Channels)]
NoEvent == [topic |-> All, owed |-> {}]

Idle            == [at |-> "idle", left |-> {}]
Removing        == [at |-> "remove", left |-> Channels]
Acking(channel) == [at |-> "ack", left |-> {channel}]

TypeOK ==
  /\ handler \in [Conns -> [at : {"new", "idle", "ack", "remove", "closed"}, left : SUBSET Channels]]
  /\ connections \subseteq Conns /\ quiet \subseteq connections /\ stale \subseteq Conns
  /\ subscriptions \in [Channels -> SUBSET Conns]
  /\ sweep \in [of : SUBSET Conns, left : SUBSET Channels]
  /\ sent \in 0..MaxEvents /\ lagged \in BOOLEAN
  /\ queue \in Seq(Event) /\ Len(queue) <= Capacity
  /\ forwarder \in [stage : {"off", "recv", "all", "topic"}, event : Event, to : SUBSET Conns]
  /\ acked \in [Channels -> SUBSET connections]

Init ==
  /\ handler = [c \in Conns |-> [at |-> "new", left |-> {}]]
  /\ connections = {} /\ quiet = {} /\ stale = {}
  /\ subscriptions = [channel \in Channels |-> {}]
  /\ sweep = [of |-> {}, left |-> {}]
  /\ sent = 0 /\ queue = <<>> /\ lagged = FALSE
  /\ forwarder = [stage |-> "off", event |-> NoEvent, to |-> {}]
  /\ acked = [channel \in Channels |-> {}]

\* The subscriptions that ask for an event about a topic.
Waiting(topic, told) == {s \in Conns \X Channels : s[1] \in told[s[2]] /\ Matches(s[2], topic)}

\* Clients are no longer served on some channels: they are owed nothing there.
Release(told) ==
  LET rest(event) == [event EXCEPT !.owed = @ \cap Waiting(event.topic, told)]
  IN  /\ acked' = told
      /\ queue' = [i \in DOMAIN queue |-> rest(queue[i])]
      /\ forwarder' = [forwarder EXCEPT !.event = rest(@)]
      /\ UNCHANGED <<sent, lagged>>

Unregister(c) ==
  /\ connections' = connections \ {c}
  /\ quiet' = quiet \ {c}
  /\ Release([channel \in Channels |-> acked[channel] \ {c}])

-----------------------------------------------------------------------------
(* The handler of a connection *)

add_connection(c) ==
  /\ handler[c].at = "new"
  /\ handler' = [handler EXCEPT ![c] = Idle]
  /\ connections' = connections \cup {c}
  /\ UNCHANGED <<subscriptions, quiet, heart, stream, acked>>

\* A Subscribe message; one with several channels is handled like several, and
\* one for a channel the client has is acknowledged again and changes nothing.
\* A connection the heartbeat has removed is not turned away.
subscribe(c, channel) ==
  /\ handler[c].at = "idle" /\ c \notin subscriptions[channel]
  /\ handler' = [handler EXCEPT ![c] = Acking(channel)]
  /\ subscriptions' = [subscriptions EXCEPT ![channel] = @ \cup {c}]
  /\ UNCHANGED <<connections, quiet, heart, stream, acked>>

\* The Subscribed message; send_to_connection drops it without a connection.
SendSubscribed(c, channel) ==
  /\ handler[c] = Acking(channel)
  /\ handler' = [handler EXCEPT ![c] = Idle]
  /\ acked' = [acked EXCEPT ![channel] = @ \cup ({c} \cap connections)]
  /\ UNCHANGED <<registry, heart, stream>>

\* An Unsubscribe message and its acknowledgement.
unsubscribe(c, channel) ==
  /\ handler[c].at = "idle" /\ c \in subscriptions[channel]
  /\ subscriptions' = [subscriptions EXCEPT ![channel] = @ \ {c}]
  /\ Release([acked EXCEPT ![channel] = @ \ {c}])
  /\ UNCHANGED <<handler, connections, quiet, heart>>

\* A ping or pong frame, or a Ping message, after a silence.
update_last_pong(c) ==
  /\ handler[c].at = "idle" /\ c \in quiet
  /\ quiet' = quiet \ {c}
  /\ UNCHANGED <<handler, connections, subscriptions, heart, stream, acked>>

\* Fault: nothing to clean up when the connection is gone already.
Disconnect_early(c) ==
  /\ handler[c].at = "idle"
  /\ Unregister(c)
  /\ handler' = [handler EXCEPT ![c] = IF c \in connections THEN Removing
                                       ELSE [at |-> "closed", left |-> {}]]
  /\ UNCHANGED <<subscriptions, heart>>

\* A Close message, an error or the end of the socket ends the receiver loop;
\* remove_connection begins with the connection ...
Disconnect(c) ==
  /\ handler[c].at = "idle"
  /\ Unregister(c)
  /\ handler' = [handler EXCEPT ![c] = Removing]
  /\ UNCHANGED <<subscriptions, heart>>

\* ... and goes on with every entry of the subscriptions in turn.
RemoveSubscription(c, channel) ==
  /\ handler[c].at = "remove" /\ channel \in handler[c].left
  /\ subscriptions' = [subscriptions EXCEPT ![channel] = @ \ {c}]
  /\ LET left == handler[c].left \ {channel}
     IN  handler' = [handler EXCEPT ![c] = [at |-> IF left = {} THEN "closed" ELSE "remove", left |-> left]]
  /\ UNCHANGED <<connections, quiet, heart, stream, acked>>

-----------------------------------------------------------------------------
(* The heartbeat task *)

\* 60 s without a word from the client; the server sends no pings itself.
GoQuiet(c) ==
  /\ c \in connections \ quiet
  /\ quiet' = quiet \cup {c}
  /\ UNCHANGED <<handler, connections, subscriptions, heart, stream, acked>>

\* Fault: the comparison with the timeout the wrong way round.
StaleConnections_swapped == connections \ quiet

StaleConnections == connections \cap quiet

check_stale_connections ==
  /\ stale = {} /\ sweep.of = {}
  /\ StaleConnections # {}
  /\ stale' = StaleConnections
  /\ UNCHANGED <<handler, registry, sweep, stream, acked>>

\* remove_connection, called by the heartbeat: the connection, whatever it has
\* sent since, ...
RemoveStale(c) ==
  /\ c \in stale /\ sweep.of = {}
  /\ stale' = stale \ {c}
  /\ Unregister(c)
  /\ sweep' = [of |-> {c}, left |-> Channels]
  /\ UNCHANGED <<handler, subscriptions>>

\* ... and every entry of the subscriptions.
RemoveStaleSubscription(channel) ==
  /\ channel \in sweep.left
  /\ subscriptions' = [subscriptions EXCEPT ![channel] = @ \ sweep.of]
  /\ LET left == sweep.left \ {channel}
     IN  sweep' = [of |-> IF left = {} THEN {} ELSE sweep.of, left |-> left]
  /\ UNCHANGED <<handler, connections, quiet, stale, stream, acked>>

-----------------------------------------------------------------------------
(* The broadcast channel and its forwarding task *)

\* Fault: a channel that never overwrites.
Broadcast_growing(topic) ==
  /\ sent < MaxEvents /\ forwarder.stage # "off"
  /\ sent' = sent + 1
  /\ queue' = Append(queue, [topic |-> topic, owed |-> Waiting(topic, acked)])
  /\ UNCHANGED <<handler, registry, heart, lagged, forwarder, acked>>

\* broadcast_order_update and the like.  Without a receiver the event is lost
\* and the error is not passed on; a full channel overwrites its oldest event.
Broadcast(topic) ==
  /\ sent < MaxEvents
  /\ sent' = sent + 1
  /\ LET event == [topic |-> topic, owed |-> Waiting(topic, acked)]
         full  == Len(queue) = Capacity
     IN  IF forwarder.stage = "off"
         THEN UNCHANGED <<queue, lagged>>
         ELSE /\ queue' = Append(IF full THEN Tail(queue) ELSE queue, event)
              /\ lagged' = (lagged \/ full)
  /\ UNCHANGED <<handler, registry, heart, forwarder, acked>>

\* A receiver gets what is sent from now on.
subscribe_events ==
  /\ forwarder.stage = "off"
  /\ forwarder' = [forwarder EXCEPT !.stage = "recv"]
  /\ UNCHANGED <<handler, registry, heart, sent, queue, lagged, acked>>

\* Fault: the loop is left on any error, and nobody receives any more.
Lagged_break ==
  /\ forwarder.stage = "recv" /\ lagged
  /\ UNCHANGED vars

\* recv says how many events were overwritten; the loop goes on with the oldest
\* there is.
Lagged ==
  /\ forwarder.stage = "recv" /\ lagged
  /\ lagged' = FALSE
  /\ UNCHANGED <<handler, registry, heart, sent, queue, forwarder, acked>>

\* An event is received, and broadcast_to_channel clones the subscriber set of
\* the channel without an id ...
Receive ==
  /\ forwarder.stage = "recv" /\ ~lagged /\ queue # <<>>
  /\ forwarder' = [stage |-> "all", event |-> Head(queue), to |-> subscriptions[All]]
  /\ queue' = Tail(queue)
  /\ UNCHANGED <<handler, registry, heart, sent, lagged, acked>>

\* ... sends to those it still finds among the connections ...
SendTo(c) ==
  /\ c \in forwarder.to
  /\ forwarder' = [forwarder EXCEPT !.to = @ \ {c}, !.event.owed = @ \ (({c} \cap connections) \X Channels)]
  /\ UNCHANGED <<handler, registry, heart, sent, queue, lagged, acked>>

\* Fault: clients of the channel with the event's id are forgotten.
ForwardToTopic_not ==
  /\ forwarder.stage = "all" /\ forwarder.to = {}
  /\ forwarder' = [forwarder EXCEPT !.stage = "topic"]
  /\ UNCHANGED <<handler, registry, heart, sent, queue, lagged, acked>>

\* ... and does the same with the channel of the event's topic.
ForwardToTopic ==
  /\ forwarder.stage = "all" /\ forwarder.to = {}
  /\ forwarder' = [forwarder EXCEPT !.stage = "topic", !.to = subscriptions[forwarder.event.topic]]
  /\ UNCHANGED <<handler, registry, heart, sent, queue, lagged, acked>>

Forwarded ==
  /\ forwarder.stage = "topic" /\ forwarder.to = {}
  /\ forwarder' = [stage |-> "recv", event |-> NoEvent, to |-> {}]
  /\ UNCHANGED <<handler, registry, heart, sent, queue, lagged, acked>>

-----------------------------------------------------------------------------
Handler(c) ==
  \/ add_connection(c) \/ update_last_pong(c) \/ Disconnect(c)
  \/ \E channel \in Channels :
       subscribe(c, channel) \/ SendSubscribed(c, channel) \/ unsubscribe(c, channel)

Cleanup(c) == \E channel \in Channels : RemoveSubscription(c, channel)

Heartbeat ==
  \/ check_stale_connections
  \/ \E c \in Conns : RemoveStale(c)
  \/ \E channel \in Channels : RemoveStaleSubscription(channel)

Forwarder ==
  \/ subscribe_events \/ Lagged \/ Receive
  \/ (\E c \in Conns : SendTo(c)) \/ ForwardToTopic \/ Forwarded

Next ==
  \/ \E c \in Conns : Handler(c) \/ Cleanup(c) \/ GoQuiet(c)
  \/ \E topic \in Topics : Broadcast(topic)
  \/ Heartbeat \/ Forwarder

Spec == Init /\ [][Next]_vars

\* The runtime runs its tasks: the heartbeat's timer ticks, the forwarder
\* starts and goes on.  Clients need not do anything.
FairSpec == Spec /\ WF_vars(Heartbeat) /\ WF_vars(Forwarder)

-----------------------------------------------------------------------------
(* Properties *)

\* Whatever the heartbeat did to it before, a connection whose handler has
\* ended is in neither map: nothing of it is left behind.
ClosedLeavesNothing ==
  \A c \in Conns :
    handler[c].at = "closed" =>
      c \notin connections /\ \A channel \in Channels : c \notin subscriptions[channel]

\* A registered client that was told Subscribed gets every matching event that
\* is broadcast after that and that the forwarder receives, as long as it keeps
\* the subscription, whatever other clients and the heartbeat do meanwhile.
SubscriberMissesNothing ==
  forwarder.stage = "topic" /\ forwarder.to = {} => forwarder.event.owed = {}

\* Once events stop coming, the forwarding task empties the channel, however
\* far it had fallen behind.
ForwarderCatchesUp ==
  (queue # <<>>) ~> (queue = <<>> /\ ~lagged /\ forwarder.stage = "recv")

\* A client that has fallen silent does not stay registered: it is removed, or
\* is heard of again.  Clients are interchangeable; any of them stands for all.
SilentClientLeaves ==
  LET client == CHOOSE c \in Conns : TRUE
  IN  (client \in quiet) ~> (client \notin quiet)
=============================================================================
