------------------------------- MODULE Pacing -------------------------------
(***************************************************************************)
(* The timing of one customer's stream: the pacer, the speed the client    *)
(* asks for in its x-replay-speed header, and the waits of drive_replay    *)
(* and follow_replay around it, against a client that may stop reading and *)
(* a syncer that lands the chunks of a recording one after another.        *)
(*                                                                         *)
(* Time is discrete and passes only where a task waits: nothing else is    *)
(* slow.  Speeds are in tenths.  Which messages a replay sends is Follow's *)
(* subject: here it sends them all, in the order of the recording.         *)
(***************************************************************************)
EXTENDS Integers, Sequences

CONSTANTS
  Recordings,    \* what was recorded: sequences of chunks
  Headers,       \* x-replay-speed: NoHeader, Garbage, NotANumber or tenths
  NoHeader, Garbage, NotANumber,
  None,          \* Option::None, for stamps and instants
  DefaultSpeed,  \* pacing.speed_multiplier, in tenths
  LagWarn,       \* pacing.lag_warn_ms
  LagDrop,       \* pacing.lag_drop_ms
  WarnInterval,  \* 10 s between two warnings
  PollInterval,  \* FOLLOW_POLL_INTERVAL
  IdleTimeout,   \* reader.follow_idle_timeout_secs
  MaxUpload,     \* bound: a chunk lands at most this long after its last stamp
  Starts,        \* bound: when the client connects
  MayStall       \* may the client stop reading

\* A chunk as the pacer sees it: its receive times, when it was sealed, and the
\* created_at of its messages.  The writer keeps the least and the greatest
\* receive time.
Stamps == Nat \cup {None}
Chunk == [first : Stamps, last : Stamps, sealed : Nat, created : Seq(Int \cup {None}) \ {<< >>}]

ASSUME PacingAssumption ==
  /\ None \notin Int \cup (Nat \X Nat)
  /\ \A r \in Recordings :
       /\ r \in Seq(Chunk)
       /\ \A n \in 1..Len(r) : None \notin {r[n].first, r[n].last} => r[n].first =< r[n].last
  /\ Headers \subseteq Int \cup {NoHeader, Garbage, NotANumber}
  /\ DefaultSpeed \in Nat \ {0}
  /\ LagWarn \in Nat /\ LagDrop \in Nat \ {0}
  /\ WarnInterval \in Nat /\ PollInterval \in Nat \ {0} /\ IdleTimeout \in Nat
  /\ MaxUpload \in Nat /\ Starts \subseteq Nat /\ MayStall \in BOOLEAN

VARIABLES
  enabled,   \* pacing.enabled
  speed,     \* Pacer.speed_multiplier
  anchor,    \* Pacer.anchor: <<source, real>> or None
  lastWarn,  \* Pacer.last_warn
  rec,       \* the recording
  landed,    \* chunks in the catalog
  pos,       \* the next message: <<chunk, ordinal>>
  phase,     \* "pass", "sleep", "send", "wait", "status"; at the end "dropped", "ended"
  target,    \* when the message taken is due
  until,     \* when the send gives up, or the next poll
  progress,  \* has this pass sent anything
  deadline,  \* idle_deadline
  stalled,   \* the channel is full and the client does not read
  now,       \* Instant::now()
  started,   \* history: when the client connected
  sent,      \* history: <<stamp, time>> of every message sent
  waited     \* history: time lost to the client and to the syncer

pacer == <<enabled, speed, anchor, lastWarn>>
vars == <<pacer, rec, landed, pos, phase, target, until, progress, deadline,
          stalled, now, started, sent, waited>>

-----------------------------------------------------------------------------
(* The speed of a connection.                                              *)

MinSpeed == 1       \* 0.1
MaxSpeed == 10000   \* 1000.0

\* parse_replay_speed.  NaN is a number, and smaller or larger than none.
ParseReplaySpeed(header) ==
  IF header \in {NoHeader, Garbage} THEN DefaultSpeed
  ELSE IF header = NotANumber THEN NotANumber
  ELSE IF header < MinSpeed THEN MinSpeed
  ELSE IF header > MaxSpeed THEN MaxSpeed
  ELSE header

EffectiveSpeed_AsParsed(header) == ParseReplaySpeed(header)

\* subscribe applies what differs from the default, and NaN never differs.
EffectiveSpeed(header) ==
  IF ParseReplaySpeed(header) = NotANumber THEN DefaultSpeed ELSE ParseReplaySpeed(header)

-----------------------------------------------------------------------------
(* The source time of a message.                                           *)

\* extract_recv_ns: created_at, or a place between the first and the last
\* receive time of the chunk.
Stamp(chunk, ord) ==
  LET created == chunk.created[ord]
      count == Len(chunk.created)
      last == IF chunk.last = None THEN chunk.first ELSE chunk.last
  IN  IF created # None /\ created >= 0 THEN created
      ELSE IF chunk.first = None THEN None
      ELSE IF count =< 1 \/ last = chunk.first THEN chunk.first
      ELSE chunk.first + ((ord - 1) * (last - chunk.first)) \div (count - 1)

\* u64::saturating_sub.
Since(ts, base) == IF ts > base THEN ts - base ELSE 0

Scaled_Fast(delta) == (delta * speed) \div 10

\* A stretch of source time at the replay's speed.
Scaled(delta) == (delta * 10) \div speed

\* Pacer::target.
Target(ts) ==
  IF ~enabled \/ ts = None \/ anchor = None THEN now
  ELSE anchor[2] + Scaled(Since(ts, anchor[1]))

\* The first message with a stamp sets the anchor.
Anchored(ts) == IF enabled /\ ts # None /\ anchor = None THEN <<ts, now>> ELSE anchor

WarnDue == lastWarn = None \/ now - lastWarn > WarnInterval

LagAction_Undue(t) == IF enabled /\ now >= t + LagWarn THEN "drop" ELSE "ok"

\* Pacer::observe_emit.
LagAction(t) ==
  CASE ~enabled \/ now =< t            -> "ok"
    [] enabled /\ now - t >= LagDrop   -> "drop"
    [] enabled /\ now > t /\ now - t < LagDrop
         -> IF now - t >= LagWarn /\ WarnDue THEN "warn" ELSE "ok"

-----------------------------------------------------------------------------
(* drive_replay.                                                           *)

Available == pos[1] =< landed

Following(p) == IF p[2] < Len(rec[p[1]].created) THEN <<p[1], p[2] + 1>> ELSE <<p[1] + 1, 1>>

\* The next message is taken off its cursor and its target computed.
Take ==
  /\ phase = "pass" /\ Available
  /\ LET ts == Stamp(rec[pos[1]], pos[2])
     IN  target' = Target(ts) /\ anchor' = Anchored(ts)
  /\ phase' = "sleep"
  /\ UNCHANGED <<enabled, speed, lastWarn, rec, landed, pos, until, progress, deadline,
                 stalled, now, started, sent, waited>>

\* sleep_until(target) is over and the send starts, with a timeout.
Wake ==
  /\ phase = "sleep" /\ now >= target
  /\ phase' = "send"
  /\ until' = now + LagDrop
  /\ UNCHANGED <<pacer, rec, landed, pos, target, progress, deadline, stalled, now, started, sent, waited>>

\* The message enters the channel; how late it is decides what follows.
Send ==
  /\ phase = "send" /\ ~stalled
  /\ sent' = Append(sent, <<Stamp(rec[pos[1]], pos[2]), now>>)
  /\ pos' = Following(pos)
  /\ LET action == LagAction(target)
     IN  /\ phase' = IF action = "drop" THEN "status" ELSE "pass"
         /\ progress' = (progress \/ action # "drop")
         /\ lastWarn' = IF action = "warn" THEN now ELSE lastWarn
  /\ UNCHANGED <<enabled, speed, anchor, rec, landed, target, until, deadline,
                 stalled, now, started, waited>>

GivesUp_PacedOnly == enabled /\ now >= until

\* lag_drop bounds the send whether pacing is enabled or not.
GivesUp == now >= until

SendTimeout ==
  /\ phase = "send" /\ stalled /\ GivesUp
  /\ phase' = "status"
  /\ UNCHANGED <<pacer, rec, landed, pos, target, until, progress, deadline, stalled,
                 now, started, sent, waited>>

\* A client that is given up is told so, on the same channel and without a
\* timeout; then the replay returns.
SendStatus ==
  /\ phase = "status" /\ ~stalled
  /\ phase' = "dropped"
  /\ UNCHANGED <<pacer, rec, landed, pos, target, until, progress, deadline, stalled,
                 now, started, sent, waited>>

-----------------------------------------------------------------------------
(* follow_replay.                                                          *)

\* A pass that sent something is followed by another at once.
PassAgain ==
  /\ phase = "pass" /\ ~Available /\ progress
  /\ progress' = FALSE
  /\ deadline' = now + IdleTimeout
  /\ UNCHANGED <<pacer, rec, landed, pos, phase, target, until, stalled, now, started, sent, waited>>

\* Nothing new: wait for the next poll.
CaughtUp ==
  /\ phase = "pass" /\ ~Available /\ ~progress /\ now < deadline
  /\ phase' = "wait"
  /\ until' = now + PollInterval
  /\ UNCHANGED <<pacer, rec, landed, pos, target, progress, deadline, stalled, now, started, sent, waited>>

\* The next pass is planned; idle_deadline stays where it was.
Poll ==
  /\ phase = "wait" /\ now >= until
  /\ phase' = "pass"
  /\ UNCHANGED <<pacer, rec, landed, pos, target, until, progress, deadline, stalled, now, started, sent, waited>>

\* Nothing new for idle_timeout: a normal end.
IdleEnd ==
  /\ phase = "pass" /\ ~Available /\ ~progress /\ now >= deadline
  /\ phase' = "ended"
  /\ UNCHANGED <<pacer, rec, landed, pos, target, until, progress, deadline, stalled,
                 now, started, sent, waited>>

-----------------------------------------------------------------------------
(* The client, the syncer and time.                                        *)

GivenUp == phase \in {"status", "dropped"}
Over == phase \in {"dropped", "ended"}

StallOrResume ==
  /\ MayStall /\ ~Over
  /\ stalled' = ~stalled
  /\ UNCHANGED <<pacer, rec, landed, pos, phase, target, until, progress, deadline, now, started, sent, waited>>

\* The next chunk lands, some time after it was sealed.
Land ==
  /\ landed < Len(rec) /\ ~Over
  /\ now >= rec[landed + 1].sealed
  /\ landed' = landed + 1
  /\ UNCHANGED <<pacer, rec, pos, phase, target, until, progress, deadline, stalled, now, started, sent, waited>>

Overdue == landed < Len(rec) /\ now >= rec[landed + 1].sealed + MaxUpload

\* Time passes while the replay sleeps, is blocked by the client or polls; once
\* it has given up, nothing looks at the clock any more.
Tick ==
  /\ \/ phase = "sleep" /\ now < target /\ UNCHANGED waited
     \/ phase = "send" /\ stalled /\ now < until /\ waited' = waited + 1
     \/ phase = "wait" /\ now < until /\ waited' = waited + 1
  /\ ~Overdue
  /\ now' = now + 1
  /\ UNCHANGED <<pacer, rec, landed, pos, phase, target, until, progress, deadline, stalled, started, sent>>

Init ==
  /\ enabled \in BOOLEAN
  /\ \E header \in Headers : speed = EffectiveSpeed(header)
  /\ anchor = None /\ lastWarn = None
  /\ rec \in Recordings
  /\ now \in {t \in Starts : t >= rec[1].sealed}
  /\ landed \in {n \in 1..Len(rec) : rec[n].sealed =< now}
  /\ \E c \in 1..landed : \E ord \in 1..Len(rec[c].created) : pos = <<c, ord>>
  /\ phase = "pass" /\ target = now /\ until = now
  /\ progress = FALSE
  /\ deadline = now + IdleTimeout
  /\ stalled = FALSE
  /\ started = now /\ sent = << >> /\ waited = 0

Replay == Take \/ Wake \/ Send \/ SendTimeout \/ SendStatus \/ PassAgain \/ CaughtUp \/ Poll \/ IdleEnd

Next == Replay \/ StallOrResume \/ Land \/ Tick

Spec == Init /\ [][Next]_vars

\* The task is scheduled, the syncer goes on and timers fire; a waiting send
\* gets the place a client makes, and nothing else is assumed of the client.
FairSpec ==
  /\ Spec /\ WF_vars(Replay) /\ WF_vars(Land) /\ WF_vars(Tick)
  /\ SF_vars(Send \/ SendStatus)

-----------------------------------------------------------------------------
Instants == Nat

TypeOK ==
  /\ enabled \in BOOLEAN
  /\ speed \in (MinSpeed..MaxSpeed) \cup {DefaultSpeed}
  /\ anchor = None \/ anchor \in Nat \X Nat
  /\ lastWarn = None \/ lastWarn \in Nat
  /\ rec \in Recordings /\ landed \in 1..Len(rec)
  /\ pos \in (1..(Len(rec) + 1)) \X Nat
  /\ phase \in {"pass", "sleep", "send", "wait", "status", "dropped", "ended"}
  /\ target \in Instants /\ until \in Instants /\ deadline \in Instants
  /\ now \in Instants /\ started \in 0..now
  /\ progress \in BOOLEAN /\ stalled \in BOOLEAN
  /\ sent \in Seq(Stamps \X Nat) /\ waited \in Nat

\* The messages sent whose source time is known.
Stamped == {i \in 1..Len(sent) : sent[i][1] # None}

(***************************************************************************)
(* Replay keeps the original wall clock: no message comes sooner after the *)
(* client connected than it did after the first stamped one in the         *)
(* recording, at the client's speed, whatever the client and syncer do.    *)
(***************************************************************************)
PaceKept ==
  enabled => \A i, j \in Stamped :
    (\A k \in Stamped : i =< k) =>
      (sent[j][2] - started + 1) * speed > (sent[j][1] - sent[i][1]) * 10

\* The steps back in source time among the messages sent.
StepsBack ==
  {0} \cup {sent[p[1]][1] - sent[p[2]][1] : p \in {q \in Stamped \X Stamped : q[1] < q[2]}}

(***************************************************************************)
(* A client is given up for time it or the syncer lost, or for stamps that *)
(* go back: speed, pauses in the recording, interpolated stamps and        *)
(* missing ones never add up to a drop (beyond a tick of rounding).        *)
(***************************************************************************)
DropExplained ==
  GivenUp =>
    \E d \in StepsBack : d >= 0 /\ waited + (d * 10) \div speed + 1 >= LagDrop

(***************************************************************************)
(* A replay does not hang on its own account.  One that has sent           *)
(* everything ends after the idle timeout, counted from the last message   *)
(* and not from the last poll; a client that stops reading is given up,    *)
(* and the replay returns as soon as there is room for the status.  It     *)
(* stays only for a client that keeps its connection and never reads       *)
(* again: that send has no timeout.                                        *)
(***************************************************************************)
ConnectionEnds == <>[](Over \/ (phase = "status" /\ stalled))

(***************************************************************************)
(* default_follow_idle_timeout_secs: "so a follower riding the head is not *)
(* dropped while waiting for the next chunk".  A client that always reads, *)
(* at the original speed, is not dropped.                                  *)
(***************************************************************************)
HeadFollowerKept == (enabled /\ speed = 10) => phase # "dropped"
-----------------------------------------------------------------------------
(* The strengthening that makes PaceKept and DropExplained inductive.      *)

\* The message at the cursor, once taken, its stamp, and when one with stamp ts
\* is due after the anchor.
InHand == phase \in {"sleep", "send"}
Replaying == phase \in {"pass", "sleep", "send", "wait"}
Taken == Stamp(rec[pos[1]], pos[2])
Due(ts) == anchor[2] + Scaled(Since(ts, anchor[1]))

\* The cursor is at a message, or past the last chunk.
CursorInv ==
  /\ pos[1] =< Len(rec) => pos[2] \in 1..Len(rec[pos[1]].created)
  /\ InHand => Available

\* The anchor is the first stamped message taken, and no stamped message was
\* sent before it was due.
AnchorInv ==
  enabled =>
    /\ anchor = None => Stamped = {} /\ (InHand => Taken = None)
    /\ anchor # None =>
         /\ started =< anchor[2]
         /\ \A i \in Stamped : (\A k \in Stamped : i =< k) => sent[i][1] = anchor[1]
         /\ Stamped = {} => GivenUp \/ (InHand /\ Taken = anchor[1])
         /\ \A i \in Stamped : Due(sent[i][1]) =< sent[i][2]

\* What the target of the message in hand is, and how the send is bounded.
TargetInv ==
  /\ (InHand /\ enabled /\ Taken # None) => target = Due(Taken)
  /\ (InHand /\ enabled /\ Taken = None) => target =< now /\ now =< target + waited
  /\ phase = "send" => target =< now /\ now + LagDrop =< until + waited

\* The replay sleeps only towards a target: but for the time lost, it is no
\* later than the latest one so far.
LateInv ==
  (enabled /\ anchor # None /\ Replaying) =>
    \/ now =< anchor[2] + waited
    \/ \E i \in Stamped : now =< Due(sent[i][1]) + waited
    \/ InHand /\ Taken # None /\ now =< Due(Taken) + waited

IndInv == TypeOK /\ CursorInv /\ AnchorInv /\ TargetInv /\ LateInv /\ DropExplained
=============================================================================
