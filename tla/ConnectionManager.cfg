\* One publisher and two connections that come, subscribe and go.
SPECIFICATION Spec
CONSTANTS
  ConnectionId = {c1, c2}
  Channel = {ch1}
  Publisher = {p1}
PROPERTY BroadcastDelivers
\* The publisher and a connection may come to wait for each other.
CHECK_DEADLOCK FALSE
