---------------------------- MODULE Connections -----------------------------
(***************************************************************************)
(* What the reader's GeyserService and its customers share: the caps, the  *)
(* registry, the tasks of each connection and their channel, and what the  *)
(* caps are there for.  Customer has the operations on it.                 *)
(***************************************************************************)
EXTENDS Integers, FiniteSets

CONSTANTS
  Conns,                  \* connections; a client that returns is a new one
  AuthTokens,             \* reader.auth_tokens
  Anonymous,              \* ClientId::Anonymous
  MaxConnectionsTotal,    \* reader.max_connections_total
  MaxConnectionsPerToken, \* reader.max_connections_per_token
  Capacity                \* reader.subscription_channel_capacity

\* The caps are unsigned; a channel without room would panic.
ConstantsOK ==
  /\ IsFiniteSet(Conns)
  /\ Anonymous \notin AuthTokens
  /\ MaxConnectionsTotal \in Nat
  /\ MaxConnectionsPerToken \in Nat
  /\ Capacity \in Nat \ {0}

ASSUME CustomerAssumption == ConstantsOK

VARIABLES
  client,    \* connection -> its ClientId
  call,      \* the subscribe call: "new", "first" (awaits the first request),
             \* "serving" (its stream is open), "closed"
  inbound,   \* may the client still send requests
  gone,      \* has the client dropped the response stream
  registry,  \* active_customers
  task,      \* Customer::run
  replay,    \* the replay task
  stop,      \* replay_stop
  chan,      \* updates in the channel
  shutdown,  \* the shutdown signal
  server     \* "up" until serve_with_shutdown returns, then "down"

\* A customer's task before and after it exists, and a replay task likewise.
NoTask == {"none", "gone"}

-----------------------------------------------------------------------------
\* The connections that still cost the server a task.
Live == {c \in Conns : task[c] \notin NoTask \/ replay[c] \notin NoTask}

(***************************************************************************)
(* The caps bound what they are there for ("each one costs a task, a       *)
(* cursor, and pressure on the shared decode caches"): the connections     *)
(* with a task or a replay still running, departing ones included, and not *)
(* only the entries of the registry.                                       *)
(***************************************************************************)
LiveBounded ==
  /\ Cardinality(Live) =< MaxConnectionsTotal
  /\ \A c \in Live : client[c] # Anonymous =>
       Cardinality({d \in Live : client[d] = client[c]}) =< MaxConnectionsPerToken
=============================================================================
