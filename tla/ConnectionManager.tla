-------------------------- MODULE ConnectionManager --------------------------
(***************************************************************************)
(* The WebSocket connection manager (websocket/manager.rs) and the tasks   *)
(* that call it (websocket/handler.rs): two read-write locks, one around   *)
(* the connections with their subscriptions, one around the channels with  *)
(* their subscribers.  A connection's own task adds, subscribes,           *)
(* unsubscribes and removes it, one call after the other; publishers       *)
(* broadcast.  A call that takes one lock only is one action.              *)
(***************************************************************************)
EXTENDS Naturals, FiniteSets

CONSTANTS
  ConnectionId,  \* connections, each with its task
  Channel,       \* channels
  Publisher      \* tasks that broadcast

VARIABLES
  connections,  \* the connections there are
  subscribed,   \* Connection.subscribed_channels, of those
  channels,     \* subscribers, by channel that was ever subscribed to
  call,         \* the call a task is in and how far: NoCall, or where it waits
  received      \* broadcasts queued for a connection: the channels they were on

vars == <<connections, subscribed, channels, call, received>>

Task == ConnectionId \union Publisher
NoCall == [op |-> "none", waits |-> "nothing", channel |-> "none"]
Call(op, ch, lock) == [op |-> op, waits |-> lock, channel |-> ch]

------------------------------------------------------------------------------

\* A task in the second half of a call holds the first lock it took: a writer
\* connections, a publisher channels.
WritesConnections(c) == call[c].waits = "channels"
ReadsChannels(p) == call[p].waits = "connections" /\ p \in Publisher

ConnectionsReadable == \A c \in ConnectionId : ~WritesConnections(c)

\* Reads of connections never wait for anything while they hold it.
ConnectionsWritable == ConnectionsReadable

\* Writes of channels neither, so that a read of channels is never put off.
ChannelsWritable == \A p \in Publisher : ~ReadsChannels(p)

------------------------------------------------------------------------------

AddConnection(c) ==
  /\ c \notin connections
  /\ call[c].op = "none"
  /\ ConnectionsWritable
  /\ connections' = connections \union {c}
  /\ UNCHANGED <<subscribed, channels, call, received>>

Ask(c, op, ch) ==
  /\ c \in connections
  /\ call[c].op = "none"
  /\ call' = [call EXCEPT ![c] = Call(op, ch, "connections")]
  /\ UNCHANGED <<connections, subscribed, channels, received>>

\* The first half of subscribe, unsubscribe and remove_connection.
LockConnections(c) ==
  LET ch == call[c].channel
  IN  /\ call[c].waits = "connections"
      /\ ConnectionsWritable
      /\ call' = [call EXCEPT ![c].waits = "channels"]
      /\ \/ /\ call[c].op = "subscribe"
            /\ subscribed' = [subscribed EXCEPT ![c] = @ \union {ch}]
            /\ UNCHANGED connections
         \/ /\ call[c].op = "unsubscribe"
            /\ subscribed' = [subscribed EXCEPT ![c] = @ \ {ch}]
            /\ UNCHANGED connections
         \/ /\ call[c].op = "remove"
            /\ connections' = connections \ {c}
            /\ UNCHANGED subscribed
      /\ UNCHANGED <<channels, received>>

\* The second half; both locks are released.
LockChannels(c) ==
  LET ch == call[c].channel
      subscribers == IF ch \in DOMAIN channels THEN channels[ch] ELSE {}
  IN  /\ call[c].waits = "channels"
      /\ ChannelsWritable
      /\ call' = [call EXCEPT ![c] = NoCall]
      /\ \/ /\ call[c].op = "subscribe"
            /\ channels' = [x \in DOMAIN channels \union {ch} |->
                              IF x = ch THEN subscribers \union {c} ELSE channels[x]]
            /\ UNCHANGED subscribed
         \/ /\ call[c].op = "unsubscribe"
            /\ channels' = [x \in DOMAIN channels |->
                              IF x = ch THEN channels[x] \ {c} ELSE channels[x]]
            /\ UNCHANGED subscribed
         \/ /\ call[c].op = "remove"
            /\ channels' = [x \in DOMAIN channels |->
                              IF x \in subscribed[c] THEN channels[x] \ {c} ELSE channels[x]]
            /\ subscribed' = [subscribed EXCEPT ![c] = {}]
      /\ UNCHANGED <<connections, received>>

\* A channel nobody ever subscribed to ends the call.
Broadcast(p, ch) ==
  /\ call[p].op = "none"
  /\ ch \in DOMAIN channels
  /\ call' = [call EXCEPT ![p] = Call("broadcast", ch, "connections")]
  /\ UNCHANGED <<connections, subscribed, channels, received>>

Deliver(p) ==
  LET ch == call[p].channel
  IN  /\ call[p].op = "broadcast"
      /\ ConnectionsReadable
      /\ received' = [c \in ConnectionId |->
                        IF c \in channels[ch] \intersect connections THEN received[c] \union {ch}
                        ELSE received[c]]
      /\ call' = [call EXCEPT ![p] = NoCall]
      /\ UNCHANGED <<connections, subscribed, channels>>

Init ==
  /\ connections = {} /\ channels = <<>>
  /\ subscribed = [c \in ConnectionId |-> {}]
  /\ call = [t \in Task |-> NoCall]
  /\ received = [c \in ConnectionId |-> {}]

Next ==
  \/ \E c \in ConnectionId :
       \/ AddConnection(c) \/ LockConnections(c) \/ LockChannels(c)
       \/ Ask(c, "remove", "none")
       \/ \E ch \in Channel : Ask(c, "subscribe", ch) \/ Ask(c, "unsubscribe", ch)
  \/ \E p \in Publisher : Deliver(p) \/ \E ch \in Channel : Broadcast(p, ch)

(***************************************************************************)
(* tokio's locks are handed out in the order they were asked for: a task   *)
(* whose lock becomes free again and again gets it.                        *)
(***************************************************************************)
Fairness ==
  /\ \A c \in ConnectionId : SF_vars(LockConnections(c)) /\ SF_vars(LockChannels(c))
  /\ \A p \in Publisher : SF_vars(Deliver(p))

Spec == Init /\ [][Next]_vars /\ Fairness

(***************************************************************************)
(* A broadcast that has found its channel is delivered to the subscribers  *)
(* (broadcast), whatever calls of connections it meets.                    *)
(***************************************************************************)
BroadcastDelivers ==
  \A p \in Publisher : call[p].op = "broadcast" ~> call[p].op = "none"
=============================================================================
