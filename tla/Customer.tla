------------------------------ MODULE Customer ------------------------------
(***************************************************************************)
(* The reader's connections: admission under the connection caps, the task *)
(* of each customer and the replay task it spawns, which share a bounded   *)
(* channel towards the client, and the server's drain at shutdown.         *)
(*                                                                         *)
(* What a replay sends is Follow's subject; here it sends, waits, fails or *)
(* runs out at any time.  The channel is the number of updates in it.  A   *)
(* client may stop reading for good without leaving.                       *)
(***************************************************************************)
EXTENDS Connections

vars == <<client, call, inbound, gone, registry, task, replay, stop, chan, shutdown, server>>

-----------------------------------------------------------------------------
(* GeyserService::subscribe.                                               *)

\* The token is valid; the call waits for the first request.
Subscribe(c) ==
  /\ call[c] = "new" /\ server = "up" /\ ~shutdown
  /\ call' = [call EXCEPT ![c] = "first"]
  /\ UNCHANGED <<client, inbound, gone, registry, task, replay, stop, chan, shutdown, server>>

\* No request within 5 s, a closed stream, or one that does not parse.
FirstFailed(c) ==
  /\ call[c] = "first"
  /\ call' = [call EXCEPT ![c] = "closed"]
  /\ UNCHANGED <<client, inbound, gone, registry, task, replay, stop, chan, shutdown, server>>

SameToken(c) == {d \in registry : client[d] = client[c]}

\* The caps, checked under the registry's lock.
Fits(c) ==
  /\ Cardinality(registry) < MaxConnectionsTotal
  /\ client[c] # Anonymous => Cardinality(SameToken(c)) < MaxConnectionsPerToken

\* admit: the entry is made under the same lock, and the task is spawned.
Admit(c) ==
  /\ call[c] = "first"
  /\ Fits(c)
  /\ registry' = registry \cup {c}
  /\ call' = [call EXCEPT ![c] = "serving"]
  /\ task' = [task EXCEPT ![c] = "plan"]
  /\ UNCHANGED <<client, inbound, gone, replay, stop, chan, shutdown, server>>

\* resource_exhausted.
AdmitRefused(c) ==
  /\ call[c] = "first" /\ ~Fits(c)
  /\ call' = [call EXCEPT ![c] = "closed"]
  /\ UNCHANGED <<client, inbound, gone, registry, task, replay, stop, chan, shutdown, server>>

-----------------------------------------------------------------------------
(* The channel: send waits while it is full and fails once the receiver is *)
(* dropped.                                                                *)

CanSend(c) == ~gone[c] /\ chan[c] < Capacity

\* One update enters the channel, or the send fails; either way the sender
\* goes on.
SendOrFail(c) ==
  \/ CanSend(c) /\ chan' = [chan EXCEPT ![c] = @ + 1]
  \/ gone[c] /\ UNCHANGED chan

-----------------------------------------------------------------------------
(* Customer::run.                                                          *)

\* The first plan succeeds and the replay task is spawned.
FirstPlan(c) ==
  /\ task[c] = "plan"
  /\ task' = [task EXCEPT ![c] = "select"]
  /\ replay' = [replay EXCEPT ![c] = "drive"]
  /\ UNCHANGED <<client, call, inbound, gone, registry, stop, chan, shutdown, server>>

\* It fails: reject sends a status and ends the task.
PlanRejected(c) ==
  /\ task[c] = "plan"
  /\ task' = [task EXCEPT ![c] = "reject"]
  /\ UNCHANGED <<client, call, inbound, gone, registry, replay, stop, chan, shutdown, server>>

\* remove_from_registry, the last thing a customer's task does.
Release(c) ==
  /\ registry' = registry \ {c}
  /\ task' = [task EXCEPT ![c] = "gone"]

Reject_EarlyReturn(c) ==
  /\ task[c] = "reject"
  /\ SendOrFail(c)
  /\ IF gone[c] THEN task' = [task EXCEPT ![c] = "gone"] /\ UNCHANGED registry ELSE Release(c)
  /\ UNCHANGED <<client, call, inbound, gone, replay, stop, shutdown, server>>

Reject(c) ==
  /\ task[c] = "reject"
  /\ SendOrFail(c)
  /\ Release(c)
  /\ UNCHANGED <<client, call, inbound, gone, replay, stop, shutdown, server>>

\* The loop is left: the replay is told to stop, and then awaited.
Break(c) ==
  /\ task' = [task EXCEPT ![c] = "join"]
  /\ stop' = [stop EXCEPT ![c] = TRUE]

\* The select is biased: shutdown first, then the end of the replay, then
\* the client's requests.
SeeShutdown(c) ==
  /\ task[c] = "select" /\ shutdown
  /\ Break(c)
  /\ UNCHANGED <<client, call, inbound, gone, registry, replay, chan, shutdown, server>>

SeeReplayEnd(c) ==
  /\ task[c] = "select" /\ ~shutdown
  /\ replay[c] = "gone"
  /\ Break(c)
  /\ UNCHANGED <<client, call, inbound, gone, registry, replay, chan, shutdown, server>>

\* A ping is answered inside the loop.  (Other requests are ignored.)
SeePing(c) ==
  /\ task[c] = "select" /\ ~shutdown /\ replay[c] # "gone"
  /\ inbound[c]
  /\ task' = [task EXCEPT ![c] = "pong"]
  /\ UNCHANGED <<client, call, inbound, gone, registry, replay, stop, chan, shutdown, server>>

\* The client closed its side or went away.
SeeClosed(c) ==
  /\ task[c] = "select" /\ ~shutdown /\ replay[c] # "gone"
  /\ ~inbound[c]
  /\ Break(c)
  /\ UNCHANGED <<client, call, inbound, gone, registry, replay, chan, shutdown, server>>

\* The pong is sent, without a timeout.
Pong(c) ==
  /\ task[c] = "pong"
  /\ SendOrFail(c)
  /\ IF gone[c]
     THEN Break(c)
     ELSE task' = [task EXCEPT ![c] = "select"] /\ UNCHANGED stop
  /\ UNCHANGED <<client, call, inbound, gone, registry, replay, shutdown, server>>

Join_NoWait(c) ==
  /\ task[c] = "join"
  /\ Release(c)
  /\ UNCHANGED <<client, call, inbound, gone, replay, stop, chan, shutdown, server>>

\* The replay task has ended.
Join(c) ==
  /\ task[c] = "join"
  /\ replay[c] = "gone"
  /\ Release(c)
  /\ UNCHANGED <<client, call, inbound, gone, replay, stop, chan, shutdown, server>>

-----------------------------------------------------------------------------
(* The replay task: follow_replay and drive_replay.                        *)

ReplayTo(c, where) == replay' = [replay EXCEPT ![c] = where]
SameButReplay == UNCHANGED <<client, call, inbound, gone, registry, task, stop, chan, shutdown, server>>

\* A message is due.
Due(c) == replay[c] = "drive" /\ ReplayTo(c, "send") /\ SameButReplay

\* The snapshot is drained: wait for the next poll.
Drained(c) == replay[c] = "drive" /\ ReplayTo(c, "poll") /\ SameButReplay

\* The next pass.
Poll(c) == replay[c] = "poll" /\ ReplayTo(c, "drive") /\ SameButReplay

IdleTimeout(c) == replay[c] = "poll" /\ ReplayTo(c, "gone") /\ SameButReplay

\* A chunk cannot be opened or a pass cannot be planned: a status is due.
ReplayError(c) == replay[c] = "drive" /\ ReplayTo(c, "status") /\ SameButReplay

SeeStop_PollOnly(c) ==
  /\ replay[c] = "poll" /\ stop[c]
  /\ ReplayTo(c, "gone")
  /\ SameButReplay

\* replay_stop is seen where the task sleeps, not where it sends.
SeeStop(c) ==
  /\ replay[c] \in {"drive", "poll"} /\ stop[c]
  /\ ReplayTo(c, "gone")
  /\ SameButReplay

\* The message is sent; the emission may come too late for the lag policy.
Send(c) ==
  /\ replay[c] = "send"
  /\ SendOrFail(c)
  /\ \E where \in (IF gone[c] THEN {"gone"} ELSE {"drive", "status"}) : ReplayTo(c, where)
  /\ UNCHANGED <<client, call, inbound, gone, registry, task, stop, shutdown, server>>

\* The channel stayed full for lag_drop.
SendTimeout(c) ==
  /\ replay[c] = "send" /\ ~gone[c] /\ chan[c] = Capacity
  /\ ReplayTo(c, "status")
  /\ SameButReplay

\* The status goes into the same channel, without a timeout.
SendStatus(c) ==
  /\ replay[c] = "status"
  /\ SendOrFail(c)
  /\ ReplayTo(c, "gone")
  /\ UNCHANGED <<client, call, inbound, gone, registry, task, stop, shutdown, server>>

-----------------------------------------------------------------------------
(* The client, and the server around it.                                   *)

Read(c) ==
  /\ call[c] = "serving" /\ ~gone[c] /\ chan[c] > 0
  /\ chan' = [chan EXCEPT ![c] = @ - 1]
  /\ UNCHANGED <<client, call, inbound, gone, registry, task, replay, stop, shutdown, server>>

\* The client closes its sending side and goes on reading.
HalfClose(c) ==
  /\ call[c] = "serving" /\ inbound[c]
  /\ inbound' = [inbound EXCEPT ![c] = FALSE]
  /\ UNCHANGED <<client, call, gone, registry, task, replay, stop, chan, shutdown, server>>

\* The client disconnects: the receiver is dropped.
Leave(c) ==
  /\ call[c] = "serving" /\ ~gone[c]
  /\ gone' = [gone EXCEPT ![c] = TRUE]
  /\ inbound' = [inbound EXCEPT ![c] = FALSE]
  /\ chan' = [chan EXCEPT ![c] = 0]
  /\ call' = [call EXCEPT ![c] = "closed"]
  /\ UNCHANGED <<client, registry, task, replay, stop, shutdown, server>>

\* Both senders are dropped and the client has read what they left.
StreamEnd(c) ==
  /\ call[c] = "serving" /\ chan[c] = 0
  /\ task[c] = "gone" /\ replay[c] \in NoTask
  /\ call' = [call EXCEPT ![c] = "closed"]
  /\ UNCHANGED <<client, inbound, gone, registry, task, replay, stop, chan, shutdown, server>>

Signal ==
  /\ ~shutdown
  /\ shutdown' = TRUE
  /\ UNCHANGED <<client, call, inbound, gone, registry, task, replay, stop, chan, server>>

\* serve_with_shutdown returns when the calls under way have ended.
Drain ==
  /\ shutdown /\ server = "up"
  /\ \A c \in Conns : call[c] \in {"new", "closed"}
  /\ server' = "down"
  /\ UNCHANGED <<client, call, inbound, gone, registry, task, replay, stop, chan, shutdown>>

-----------------------------------------------------------------------------
\* validate_auth tells callers apart only when tokens are configured.
Init ==
  /\ client \in [Conns -> AuthTokens] \cup {[c \in Conns |-> Anonymous]}
  /\ call = [c \in Conns |-> "new"]
  /\ inbound = [c \in Conns |-> TRUE]
  /\ gone = [c \in Conns |-> FALSE]
  /\ registry = {}
  /\ task = [c \in Conns |-> "none"]
  /\ replay = [c \in Conns |-> "none"]
  /\ stop = [c \in Conns |-> FALSE]
  /\ chan = [c \in Conns |-> 0]
  /\ shutdown = FALSE
  /\ server = "up"

CallStep(c) == FirstFailed(c) \/ Admit(c) \/ AdmitRefused(c) \/ StreamEnd(c)

TaskStep(c) ==
  \/ FirstPlan(c) \/ PlanRejected(c) \/ Reject(c)
  \/ SeeShutdown(c) \/ SeeReplayEnd(c) \/ SeePing(c) \/ SeeClosed(c) \/ Pong(c) \/ Join(c)

ReplayStep(c) ==
  \/ Due(c) \/ Drained(c) \/ Poll(c) \/ IdleTimeout(c) \/ ReplayError(c)
  \/ SeeStop(c) \/ Send(c) \/ SendTimeout(c) \/ SendStatus(c)

ClientStep(c) == Read(c) \/ HalfClose(c) \/ Leave(c)

Next ==
  \/ \E c \in Conns : Subscribe(c) \/ CallStep(c) \/ TaskStep(c) \/ ReplayStep(c) \/ ClientStep(c)
  \/ Signal
  \/ Drain

Spec == Init /\ [][Next]_vars
(***************************************************************************)
(* Fairness: the call, the two tasks and the server are scheduled; a       *)
(* waiting send gets its turn because the channel queues its senders; a    *)
(* stop that is signalled is picked in the end by a select that chooses at *)
(* random among what is ready.  Nothing is assumed of clients.             *)
(***************************************************************************)
Fairness ==
  /\ WF_vars(Drain)
  /\ \A c \in Conns :
       /\ WF_vars(CallStep(c)) /\ WF_vars(TaskStep(c)) /\ WF_vars(ReplayStep(c))
       /\ SF_vars(Pong(c)) /\ SF_vars(Send(c) \/ SendStatus(c)) /\ SF_vars(SeeStop(c))

FairSpec == Spec /\ Fairness

-----------------------------------------------------------------------------
TypeOK ==
  /\ client \in [Conns -> AuthTokens \cup {Anonymous}]
  /\ call \in [Conns -> {"new", "first", "serving", "closed"}]
  /\ inbound \in [Conns -> BOOLEAN] /\ gone \in [Conns -> BOOLEAN]
  /\ registry \subseteq Conns
  /\ task \in [Conns -> NoTask \cup {"plan", "reject", "select", "pong", "join"}]
  /\ replay \in [Conns -> NoTask \cup {"drive", "send", "status", "poll"}]
  /\ stop \in [Conns -> BOOLEAN]
  /\ chan \in [Conns -> 0..Capacity]
  /\ shutdown \in BOOLEAN /\ server \in {"up", "down"}

(***************************************************************************)
(* A client that goes away gives its place back, wherever its tasks are:   *)
(* in a rejection, a pong, a send, a status or a wait.                     *)
(***************************************************************************)
EntryReturned == \A c \in Conns : gone[c] ~> c \notin registry

(***************************************************************************)
(* A shutdown ends if each client reads on or leaves: the two tasks of a   *)
(* connection never wait for each other, and no call is admitted that the  *)
(* drain does not wait for.  Without the condition it need not end: status *)
(* and pong are sent without a timeout, where no signal is seen.           *)
(***************************************************************************)
DrainEnds ==
  (\A c \in Conns : WF_vars(Read(c) \/ Leave(c))) => (shutdown ~> server = "down")
-----------------------------------------------------------------------------
(***************************************************************************)
(* The strengthening that makes LiveBounded inductive.                     *)
(***************************************************************************)
\* No task exists before the call is admitted.
TaskAfterCall == \A c \in Conns : call[c] \in {"new", "first"} => task[c] = "none"

\* A replay runs only while its customer's task can still wait for it.
ReplayWithinTask ==
  \A c \in Conns : replay[c] \notin NoTask => task[c] \in {"select", "pong", "join"}

\* A customer's task has an entry for as long as it runs.
TaskRegistered == \A c \in Conns : task[c] \notin NoTask => c \in registry

RegistryCapped ==
  /\ Cardinality(registry) =< MaxConnectionsTotal
  /\ \A t \in AuthTokens :
       Cardinality({d \in registry : client[d] = t}) =< MaxConnectionsPerToken

IndInv == TypeOK /\ TaskAfterCall /\ ReplayWithinTask /\ TaskRegistered /\ RegistryCapped
-----------------------------------------------------------------------------
(* What EntryReturned and DrainEnds rest on, as invariants.                *)

(***************************************************************************)
(* An entry of the registry has a task that will give it back, and a task  *)
(* has an entry: remove_from_registry is never passed by, and called once. *)
(***************************************************************************)
NoEntryLeaked == registry = {c \in Conns : task[c] \notin NoTask}

(***************************************************************************)
(* The two tasks of a connection never wait for each other: a task that    *)
(* awaits its replay has told it to stop, there is a replay to await, and  *)
(* a select whose client has left sees its requests end.                   *)
(***************************************************************************)
WaitsAreTold ==
  \A c \in Conns :
    /\ task[c] \in {"select", "pong", "join"} => replay[c] # "none"
    /\ task[c] = "join" => stop[c]
    /\ gone[c] => ~inbound[c]

(***************************************************************************)
(* When serve_with_shutdown has returned, no customer is left but those    *)
(* whose clients had gone: nothing is cut off that a client still reads.   *)
(***************************************************************************)
DrainedIsQuiet == server = "down" => \A c \in Live : gone[c]

\* A call that has ended without its client leaving has no task, and the drain
\* lets no new call in.
CallsInv ==
  /\ \A c \in Conns : call[c] = "closed" /\ ~gone[c] => task[c] \in NoTask
  /\ server = "down" => \A c \in Conns : call[c] \in {"new", "closed"}

WaitInv == NoEntryLeaked /\ WaitsAreTold /\ CallsInv
=============================================================================
