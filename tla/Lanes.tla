------------------------------- MODULE Lanes --------------------------------
(***************************************************************************)
(* The writer process around its chunkers: one lane per stream, each a     *)
(* task that reads the Geyser subscription and a consumer task that owns   *)
(* the chunker, with a bounded channel between them, and main, which joins *)
(* the lanes, grants the uploader a last window and exits.                 *)
(*                                                                         *)
(* What a chunker does with a message, and the uploader with a chunk, are  *)
(* Chunker's and Writer's subjects: here a message is received, handed to  *)
(* the chunker and sealed, or discarded by it, and they are counted.       *)
(* Updates without a slot pass through the channel and are not recorded.   *)
(***************************************************************************)
EXTENDS Integers, Sequences, FiniteSets

CONSTANTS
  Streams,          \* Stream::all()
  ChannelCapacity,  \* writer.channel_capacity
  NoExit,           \* the process is running
  MaxMsgs           \* bound: updates of a subscription

ASSUME LanesAssumption ==
  /\ ChannelCapacity \in Nat \ {0}
  /\ NoExit \notin {0, 1}
  /\ MaxMsgs \in Nat

VARIABLES
  main,       \* "boot", "join", "grace", "await", "gone"
  exit,       \* the exit code
  laneStop,   \* lane_shutdown
  uplStop,    \* uploader_shutdown
  handler,    \* the signal handler: "waiting", "done", "failed"
  uploader,   \* "none", "running", "stopped"
  producer,   \* stream -> "none", "connect", "read", "push", "drain", "ok", "failed"
  consumer,   \* stream -> "none", "run", "done", "failed"
  queue,      \* stream -> the channel: does each update have a slot
  hand,       \* stream -> the update the producer is sending
  updates,    \* stream -> updates taken off the subscription
  received,   \* stream -> those with a slot
  open,       \* stream -> messages in the chunker's open chunks
  sealed,     \* stream -> messages in sealed chunks
  dropped     \* stream -> messages that chunker.ingest has discarded

mainVars == <<main, exit, laneStop, uplStop, handler, uploader>>
laneVars == <<producer, consumer, queue, hand, updates, received, open, sealed, dropped>>
vars == <<mainVars, laneVars>>

Running == exit = NoExit

Init ==
  /\ main = "boot" /\ exit = NoExit
  /\ laneStop = FALSE /\ uplStop = FALSE
  /\ handler = "waiting" /\ uploader = "none"
  /\ producer = [s \in Streams |-> "none"]
  /\ consumer = [s \in Streams |-> "none"]
  /\ queue = [s \in Streams |-> << >>]
  /\ hand = [s \in Streams |-> FALSE]
  /\ updates = [s \in Streams |-> 0]
  /\ received = [s \in Streams |-> 0]
  /\ open = [s \in Streams |-> 0]
  /\ sealed = [s \in Streams |-> 0]
  /\ dropped = [s \in Streams |-> 0]

-----------------------------------------------------------------------------
(* Lane::run, the reading task.                                            *)

ProducerTo(s, where) == producer' = [producer EXCEPT ![s] = where]

\* geyser::subscribe with the lane's filter, commitment and from_slot; then the
\* channel, the chunker and the consumer are made.
Connect(s) ==
  /\ Running /\ producer[s] = "connect"
  /\ ProducerTo(s, "read")
  /\ consumer' = [consumer EXCEPT ![s] = "run"]
  /\ UNCHANGED <<mainVars, queue, hand, updates, received, open, sealed, dropped>>

\* The endpoint refuses, or Chunker::new cannot make its directory.
ConnectFailed(s) ==
  /\ Running /\ producer[s] = "connect"
  /\ ProducerTo(s, "failed")
  /\ UNCHANGED <<mainVars, consumer, queue, hand, updates, received, open, sealed, dropped>>

\* How many messages an update counts for.
Recorded(hasSlot) == IF hasSlot THEN 1 ELSE 0

\* The subscription yields an update, stamped as it is received.
Receive(s, hasSlot) ==
  /\ Running /\ producer[s] = "read"
  /\ updates[s] < MaxMsgs
  /\ updates' = [updates EXCEPT ![s] = @ + 1]
  /\ received' = [received EXCEPT ![s] = @ + Recorded(hasSlot)]
  /\ hand' = [hand EXCEPT ![s] = hasSlot]
  /\ ProducerTo(s, "push")
  /\ UNCHANGED <<mainVars, consumer, queue, open, sealed, dropped>>

Room(s) == Len(queue[s]) < ChannelCapacity

\* tx.send waits for room, where the shutdown signal is not seen.
Push(s) ==
  /\ Running /\ producer[s] = "push" /\ consumer[s] = "run"
  /\ Room(s)
  /\ queue' = [queue EXCEPT ![s] = Append(@, hand[s])]
  /\ ProducerTo(s, "read")
  /\ UNCHANGED <<mainVars, consumer, hand, updates, received, open, sealed, dropped>>

ReceiverGone_KeptAlive(s) == FALSE

\* The consumer has returned and dropped the receiver.
ReceiverGone(s) == consumer[s] = "failed"

\* "channel closed".
PushFailed(s) ==
  /\ Running /\ producer[s] = "push"
  /\ ReceiverGone(s)
  /\ ProducerTo(s, "failed")
  /\ UNCHANGED <<mainVars, consumer, queue, hand, updates, received, open, sealed, dropped>>

\* A stream error is returned at once; the consumer is left on its own.
StreamError(s) ==
  /\ Running /\ producer[s] = "read"
  /\ ProducerTo(s, "failed")
  /\ UNCHANGED <<mainVars, consumer, queue, hand, updates, received, open, sealed, dropped>>

\* The stream ends or the lane is told to stop: tx is dropped.
StreamEnd(s) ==
  /\ Running /\ producer[s] = "read"
  /\ ProducerTo(s, "drain")
  /\ UNCHANGED <<mainVars, consumer, queue, hand, updates, received, open, sealed, dropped>>

SeeShutdown(s) ==
  /\ Running /\ producer[s] = "read" /\ laneStop
  /\ ProducerTo(s, "drain")
  /\ UNCHANGED <<mainVars, consumer, queue, hand, updates, received, open, sealed, dropped>>

\* consumer.await??: an error of the consumer is the lane's.
LaneResult(s) == IF consumer[s] = "done" THEN "ok" ELSE "failed"

AwaitConsumer(s) ==
  /\ Running /\ producer[s] = "drain" /\ consumer[s] \in {"done", "failed"}
  /\ ProducerTo(s, LaneResult(s))
  /\ UNCHANGED <<mainVars, consumer, queue, hand, updates, received, open, sealed, dropped>>

-----------------------------------------------------------------------------
(* The consumer task.                                                      *)

ConsumerTo(s, where) == consumer' = [consumer EXCEPT ![s] = where]

\* A message goes to chunker.ingest, which may seal what is open; an update
\* without a slot is skipped.
Ingest(s) ==
  /\ Running /\ consumer[s] = "run" /\ queue[s] # << >>
  /\ queue' = [queue EXCEPT ![s] = Tail(@)]
  /\ LET n == open[s] + Recorded(Head(queue[s]))
     IN  \E kept \in 0..n :
           /\ ~Head(queue[s]) => kept = n
           /\ open' = [open EXCEPT ![s] = kept]
           /\ sealed' = [sealed EXCEPT ![s] = @ + n - kept]
  /\ UNCHANGED <<mainVars, producer, consumer, hand, updates, received, dropped>>

\* ingest discards a message that is older than the tolerance, or whose range
\* is sealed on disk, and returns Ok; it may have sealed chunks for it first.
IngestDrops(s) ==
  /\ Running /\ consumer[s] = "run" /\ queue[s] # << >> /\ Head(queue[s])
  /\ queue' = [queue EXCEPT ![s] = Tail(@)]
  /\ dropped' = [dropped EXCEPT ![s] = @ + 1]
  /\ \E kept \in 0..open[s] :
       /\ open' = [open EXCEPT ![s] = kept]
       /\ sealed' = [sealed EXCEPT ![s] = @ + open[s] - kept]
  /\ UNCHANGED <<mainVars, producer, consumer, hand, updates, received>>

\* ingest or tick fails: the consumer returns, the receiver is dropped.
ConsumerFails(s) ==
  /\ Running /\ consumer[s] = "run"
  /\ ConsumerTo(s, "failed")
  /\ queue' = [queue EXCEPT ![s] = << >>]
  /\ UNCHANGED <<mainVars, producer, hand, updates, received, open, sealed, dropped>>

\* chunker.tick seals chunks that have grown stale.
TickSeal(s) ==
  /\ Running /\ consumer[s] = "run" /\ open[s] > 0
  /\ \E kept \in 0..(open[s] - 1) :
       /\ open' = [open EXCEPT ![s] = kept]
       /\ sealed' = [sealed EXCEPT ![s] = @ + open[s] - kept]
  /\ UNCHANGED <<mainVars, producer, consumer, queue, hand, updates, received, dropped>>

Drained_AtOnce(s) == producer[s] \in {"drain", "failed"}

\* recv yields None: the sender is dropped and the channel is empty.
Drained(s) == producer[s] \in {"drain", "failed"} /\ queue[s] = << >>

\* chunker.shutdown seals everything, and the consumer is done.
ConsumerEnds(s) ==
  /\ Running /\ consumer[s] = "run" /\ Drained(s)
  /\ ConsumerTo(s, "done")
  /\ sealed' = [sealed EXCEPT ![s] = @ + open[s]]
  /\ open' = [open EXCEPT ![s] = 0]
  /\ UNCHANGED <<mainVars, producer, queue, hand, updates, received, dropped>>

-----------------------------------------------------------------------------
(* main.                                                                   *)

\* Settings, [geyser] and the recovery sweep; then lanes and uploader start.
Boot ==
  /\ Running /\ main = "boot"
  /\ main' = "join"
  /\ producer' = [s \in Streams |-> "connect"]
  /\ uploader' = "running"
  /\ UNCHANGED <<exit, laneStop, uplStop, handler, consumer, queue, hand, updates, received, open, sealed, dropped>>

BootFailed ==
  /\ Running /\ main = "boot"
  /\ main' = "gone" /\ exit' = 1
  /\ UNCHANGED <<laneStop, uplStop, handler, uploader, laneVars>>

\* SIGTERM or SIGINT.
Signal ==
  /\ Running /\ handler = "waiting"
  /\ handler' = "done"
  /\ laneStop' = TRUE
  /\ UNCHANGED <<main, exit, uplStop, uploader, laneVars>>

\* The handler cannot be installed: both signals are cancelled.
HandlerFailed ==
  /\ Running /\ handler = "waiting"
  /\ handler' = "failed"
  /\ laneStop' = TRUE /\ uplStop' = TRUE
  /\ UNCHANGED <<main, exit, uploader, laneVars>>

LaneOver(s) == producer[s] \in {"ok", "failed"}

Joined_First == \E s \in Streams : LaneOver(s)

\* join_all.
Joined == \A s \in Streams : LaneOver(s)

\* A lane failed: the process exits where it is.
JoinFailed ==
  /\ Running /\ main = "join" /\ Joined
  /\ \E s \in Streams : producer[s] = "failed"
  /\ uplStop' = TRUE
  /\ main' = "gone" /\ exit' = 1
  /\ UNCHANGED <<laneStop, handler, uploader, laneVars>>

JoinOk ==
  /\ Running /\ main = "join" /\ Joined
  /\ \A s \in Streams : producer[s] # "failed"
  /\ main' = "grace"
  /\ UNCHANGED <<exit, laneStop, uplStop, handler, uploader, laneVars>>

\* scan_interval_secs + 3 seconds later.
GraceOver ==
  /\ Running /\ main = "grace"
  /\ main' = "await"
  /\ uplStop' = TRUE
  /\ UNCHANGED <<exit, laneStop, handler, uploader, laneVars>>

\* Uploader::run sees its signal.
UploaderStops ==
  /\ Running /\ uploader = "running" /\ uplStop
  /\ uploader' = "stopped"
  /\ UNCHANGED <<main, exit, laneStop, uplStop, handler, laneVars>>

Finish ==
  /\ Running /\ main = "await" /\ uploader = "stopped"
  /\ main' = "gone" /\ exit' = 0
  /\ UNCHANGED <<laneStop, uplStop, handler, uploader, laneVars>>

-----------------------------------------------------------------------------
MainStep == Boot \/ BootFailed \/ JoinFailed \/ JoinOk \/ GraceOver \/ UploaderStops \/ Finish

Dial(s) == Connect(s) \/ ConnectFailed(s)

ProducerStep(s) ==
  \/ \E hasSlot \in BOOLEAN : Receive(s, hasSlot)
  \/ Push(s) \/ PushFailed(s) \/ StreamError(s) \/ StreamEnd(s) \/ AwaitConsumer(s)

ConsumerStep(s) == Ingest(s) \/ IngestDrops(s) \/ ConsumerFails(s) \/ TickSeal(s) \/ ConsumerEnds(s)

Next ==
  \/ MainStep \/ Signal \/ HandlerFailed
  \/ \E s \in Streams : Dial(s) \/ ProducerStep(s) \/ SeeShutdown(s) \/ ConsumerStep(s)

Spec == Init /\ [][Next]_vars

(***************************************************************************)
(* The tasks are scheduled: main, the consumers, and the producers where   *)
(* they wait for this process and not for the validator.  A select picks   *)
(* among ready branches at random, so a signal is seen in the end.         *)
(***************************************************************************)
FairSpec ==
  /\ Spec /\ WF_vars(MainStep)
  /\ \A s \in Streams :
       /\ WF_vars(Push(s) \/ PushFailed(s) \/ AwaitConsumer(s))
       /\ SF_vars(SeeShutdown(s))
       /\ WF_vars(ConsumerStep(s))

-----------------------------------------------------------------------------
TypeOK ==
  /\ main \in {"boot", "join", "grace", "await", "gone"}
  /\ exit \in {NoExit, 0, 1}
  /\ laneStop \in BOOLEAN /\ uplStop \in BOOLEAN
  /\ handler \in {"waiting", "done", "failed"}
  /\ uploader \in {"none", "running", "stopped"}
  /\ producer \in [Streams -> {"none", "connect", "read", "push", "drain", "ok", "failed"}]
  /\ consumer \in [Streams -> {"none", "run", "done", "failed"}]
  /\ queue \in [Streams -> Seq(BOOLEAN)]
  /\ \A s \in Streams : Len(queue[s]) =< ChannelCapacity
  /\ hand \in [Streams -> BOOLEAN]
  /\ updates \in [Streams -> 0..MaxMsgs] /\ received \in [Streams -> Nat]
  /\ open \in [Streams -> Nat] /\ sealed \in [Streams -> Nat] /\ dropped \in [Streams -> Nat]

(***************************************************************************)
(* Exit code 0 means that nothing was left behind: every message that was  *)
(* taken off a subscription reached the chunker and is in a sealed chunk,  *)
(* or ingest itself discarded it, whatever was in the channel when the     *)
(* signal came, and no consumer had failed unnoticed.                      *)
(***************************************************************************)
CleanExitIsComplete ==
  exit = 0 => \A s \in Streams : sealed[s] + dropped[s] = received[s]

(***************************************************************************)
(* "`uploader_shutdown` is cancelled by main only AFTER the lanes have     *)
(* joined": the uploader does not stop while a lane may still seal, unless *)
(* no signal handler could be installed.                                   *)
(***************************************************************************)
UploaderOutlivesLanes ==
  (uplStop /\ handler # "failed") =>
    \A s \in Streams : LaneOver(s) /\ (producer[s] = "ok" => consumer[s] = "done")

(***************************************************************************)
(* A signal ends the process, with full channels, dead consumers and       *)
(* failed lanes, if each connection attempt comes to an end: those do not  *)
(* see the signal and have no timeout here.                                *)
(***************************************************************************)
SignalEndsProcess ==
  (\A s \in Streams : WF_vars(Dial(s))) => (laneStop ~> ~Running)
-----------------------------------------------------------------------------
(* The strengthening that makes the two invariants inductive.              *)

\* A lane that ended well has a consumer that sealed everything.
OkMeansDone == \A s \in Streams : producer[s] = "ok" => consumer[s] = "done"

\* The uploader's signal, and the window before it, come after the join.
StopAfterJoin == (uplStop /\ handler # "failed") => Joined
GraceAfterJoin == main \in {"grace", "await"} => Joined

\* No lane runs before it is started.
BootFirst == main = "boot" => \A s \in Streams : producer[s] = "none"

\* A consumer is made when the connection is.
ConnectFirst ==
  \A s \in Streams : producer[s] \in {"none", "connect"} => consumer[s] = "none"

\* The window and exit code 0 are for lanes that all ended well.
CleanMeansOk == main \in {"grace", "await"} \/ exit = 0 => \A s \in Streams : producer[s] = "ok"

\* Messages in a channel, and in the hands of a producer that waits for room.
Count(q) == Cardinality({i \in 1..Len(q) : q[i]})
InHand(s) == IF producer[s] = "push" THEN Recorded(hand[s]) ELSE 0

\* While the consumer lives, each message is in one place.
Conserved ==
  \A s \in Streams : consumer[s] # "failed" =>
    received[s] = sealed[s] + open[s] + Count(queue[s]) + InHand(s) + dropped[s]

\* A consumer that is done left nothing behind, and nothing follows.
DoneIsDry ==
  \A s \in Streams : consumer[s] = "done" =>
    queue[s] = << >> /\ open[s] = 0 /\ producer[s] \in {"drain", "ok", "failed"}

IndInv ==
  /\ TypeOK /\ OkMeansDone /\ StopAfterJoin /\ GraceAfterJoin /\ BootFirst
  /\ ConnectFirst /\ CleanMeansOk /\ Conserved /\ DoneIsDry
=============================================================================
