------------------------------ MODULE Chunker ------------------------------
(***************************************************************************)
(* One lane of the writer: the chunker that buckets the messages of one    *)
(* stream into slot-range chunks, and the recovery that decides where the  *)
(* next run resumes.  Each handler of the chunker (ingest, tick, shutdown) *)
(* is one step, and so is each handler that is cut short inside a seal by  *)
(* a crash or a failing file operation; Writer.tla takes the handlers      *)
(* apart into file-system operations that interleave with the uploader.    *)
(*                                                                         *)
(* A message is its arrival number and its slot.  An open chunk is the set *)
(* of messages its encoder holds: ingest never leaves an open chunk        *)
(* without a message, so the empty set stands for "not open".              *)
(***************************************************************************)
EXTENDS ChunkPolicy

CONSTANTS
  MaxMsgs,   \* bound: messages received over all runs
  MaxRuns    \* bound: runs of the writer process

ASSUME BoundsAssumption == MaxMsgs \in Nat /\ MaxRuns \in Nat \ {0}

VARIABLES
  open,       \* chunk -> messages in its encoder, {} when not open
  disk,       \* chunk -> the sealed chunk, or Unsealed
  watermark,  \* highest slot of this run, NoSlot before the first message
  from,       \* the slot this run asked Geyser to resume from
  up,         \* does the consumer task take messages
  run,        \* which run of the process this is
  arrived,    \* messages received so far, over all runs
  dropped,    \* history: messages ingest discarded, and why
  lost        \* history: messages that died with the consumer

vars == <<open, disk, watermark, from, up, run, arrived, dropped, lost>>

Message == [id : 1..MaxMsgs, slot : Slots]

\* sealed_reason, the field of the .meta.json.
Reasons == {"watermark", "cap-reached", "shutdown"}

\* No final file of the chunk is on disk.
Unsealed == [msgs |-> {}, reason |-> "none", run |-> 0]

(***************************************************************************)
(* What is on disk of a chunk under final names.  A seal renames the .zst  *)
(* first and the .meta.json last; "bare" is a seal that was cut short in   *)
(* between, a .zst without the .meta.json that would give the reason.      *)
(***************************************************************************)
SealedChunk ==
  [msgs : SUBSET Message, reason : Reasons \cup {"none", "bare"}, run : 0..MaxRuns]

OpenChunks == {c \in Chunks : open[c] # {}}

\* The chunks open_chunk finds: a .zst or a .meta.json.
OnDisk == {c \in Chunks : disk[c].reason # "none"}

\* The chunks recovery finds: a .meta.json.
SealComplete == {c \in Chunks : disk[c].reason \in Reasons}

Sealed(msgs, reason) == [msgs |-> msgs, reason |-> reason, run |-> run]

\* A message that ingest discards, with the slot the run resumed from.
Drop(m, why) == [msg |-> m, why |-> why, from |-> from, run |-> run]

\* Every message received so far.
Received ==
  (UNION {open[c] : c \in Chunks}) \cup (UNION {disk[c].msgs : c \in Chunks})
    \cup {d.msg : d \in dropped} \cup lost

-----------------------------------------------------------------------------
Init ==
  /\ open = [c \in Chunks |-> {}]
  /\ disk = [c \in Chunks |-> Unsealed]
  /\ watermark = NoSlot
  /\ from = NoSlot
  /\ up = TRUE
  /\ run = 1
  /\ arrived = 0
  /\ dropped = {}
  /\ lost = {}

\* A message older than the tolerance is dropped before any chunk is touched.
IngestLate(slot) ==
  LET wm == Advance(watermark, slot)
      m == [id |-> arrived + 1, slot |-> slot]
  IN  /\ up
      /\ arrived < MaxMsgs
      /\ TooLate(slot, wm)
      /\ arrived' = arrived + 1
      /\ watermark' = wm
      /\ dropped' = dropped \cup {Drop(m, "late")}
      /\ UNCHANGED <<open, disk, from, up, run, lost>>

Refused_Never(idx) == FALSE

\* open_chunk declines a range whose final files are already on disk; the
\* message is then dropped without an error.
Refused(idx) == open[idx] = {} /\ idx \in OnDisk

\* What the cap closes before ingest opens the chunk of slot.
Capped(slot) == IF open[ChunkOf(slot)] = {} THEN CapSealed(OpenChunks) ELSE {}

\* The encoders once the cap has closed its chunks and m is appended.
Filled(slot, m) ==
  [c \in Chunks |->
     IF c \in Capped(slot) THEN {}
     ELSE IF c = ChunkOf(slot) /\ ~Refused(c) THEN open[c] \cup {m}
     ELSE open[c]]

\* The chunks the watermark closes after that.
Due(slot, m) ==
  WatermarkSealed({c \in Chunks : Filled(slot, m)[c] # {}}, Advance(watermark, slot))

\* The files once the cap has closed its chunks.
CapDisk(slot) ==
  [c \in Chunks |-> IF c \in Capped(slot) THEN Sealed(open[c], "cap-reached") ELSE disk[c]]

\* What ingest has discarded once the chunk of slot is open or refused.
Dropped(slot, m) ==
  IF Refused(ChunkOf(slot)) THEN dropped \cup {Drop(m, "conflict")} ELSE dropped

(***************************************************************************)
(* The rest of ingest: the cap closes chunks before a new one is opened,   *)
(* the message is appended if its chunk is open by then, and every chunk   *)
(* the watermark has left behind is sealed.                                *)
(***************************************************************************)
IngestKept(slot) ==
  LET m == [id |-> arrived + 1, slot |-> slot]
      due == Due(slot, m)
  IN  /\ up
      /\ arrived < MaxMsgs
      /\ ~TooLate(slot, Advance(watermark, slot))
      /\ arrived' = arrived + 1
      /\ watermark' = Advance(watermark, slot)
      /\ open' = [c \in Chunks |-> IF c \in due THEN {} ELSE Filled(slot, m)[c]]
      /\ disk' = [c \in Chunks |->
                    IF c \in due THEN Sealed(Filled(slot, m)[c], "watermark")
                    ELSE CapDisk(slot)[c]]
      /\ dropped' = Dropped(slot, m)
      /\ UNCHANGED <<from, up, run, lost>>

\* Seal every chunk of S (tick and shutdown give the same reason).
SealSet(S) ==
  /\ disk' = [c \in Chunks |-> IF c \in S THEN Sealed(open[c], "shutdown") ELSE disk[c]]
  /\ open' = [c \in Chunks |-> IF c \in S THEN {} ELSE open[c]]

(***************************************************************************)
(* The one-second tick seals the chunks idle for IDLE_SEAL_THRESHOLD.      *)
(* Arrival numbers order last activity, so the idle chunks are those whose *)
(* last message is not after some message a.                               *)
(***************************************************************************)
Stale(a) == {c \in OpenChunks : \A m \in open[c] : m.id =< a}

Tick(a) ==
  /\ up
  /\ Stale(a) # {}
  /\ SealSet(Stale(a))
  /\ UNCHANGED <<watermark, from, up, run, arrived, dropped, lost>>

\* The channel closed: the consumer seals everything and ends.
Shutdown ==
  /\ up
  /\ up' = FALSE
  /\ SealSet(OpenChunks)
  /\ UNCHANGED <<watermark, from, run, arrived, dropped, lost>>

\* The process dies: what the encoders held is gone.
Crash ==
  /\ up
  /\ up' = FALSE
  /\ open' = [c \in Chunks |-> {}]
  /\ lost' = lost \cup (UNION {open[c] : c \in Chunks})
  /\ UNCHANGED <<disk, watermark, from, run, arrived, dropped>>

(***************************************************************************)
(* A handler that ends inside a seal of the chunks S, oldest first,        *)
(* because the process dies or because a file operation fails and the      *)
(* error ends the consumer task.  The seals before that of cut are         *)
(* complete; cut itself has its .zst under the final name (named) or       *)
(* nothing; every other encoder is dropped with the messages in hand.      *)
(* Partial files stay until recovery removes them, so nothing sees them.   *)
(***************************************************************************)
CutShort(base, held, S, reason, inHand) ==
  \E cut \in S, named \in BOOLEAN :
    LET done == {c \in S : c < cut}
        bare == IF named THEN {cut} ELSE {}
    IN  /\ up' = FALSE
        /\ open' = [c \in Chunks |-> {}]
        /\ disk' = [c \in Chunks |->
                      IF c \in done THEN Sealed(held[c], reason)
                      ELSE IF c \in bare THEN Sealed(held[c], "bare")
                      ELSE base[c]]
        /\ lost' = lost \cup inHand \cup UNION {held[c] : c \in Chunks \ (done \cup bare)}

\* Ingest ends while the cap closes chunks: the message is not appended.
IngestCutByCap(slot) ==
  /\ up
  /\ arrived < MaxMsgs
  /\ ~TooLate(slot, Advance(watermark, slot))
  /\ arrived' = arrived + 1
  /\ watermark' = Advance(watermark, slot)
  /\ CutShort(disk, open, Capped(slot), "cap-reached", {[id |-> arrived + 1, slot |-> slot]})
  /\ UNCHANGED <<from, run, dropped>>

\* Ingest ends as it opens the chunk or appends to it.
IngestFails(slot) ==
  /\ up
  /\ arrived < MaxMsgs
  /\ ~TooLate(slot, Advance(watermark, slot))
  /\ ~Refused(ChunkOf(slot))
  /\ arrived' = arrived + 1
  /\ watermark' = Advance(watermark, slot)
  /\ up' = FALSE
  /\ open' = [c \in Chunks |-> {}]
  /\ disk' = CapDisk(slot)
  /\ lost' = lost \cup {[id |-> arrived + 1, slot |-> slot]}
                  \cup UNION {open[c] : c \in Chunks \ Capped(slot)}
  /\ UNCHANGED <<from, run, dropped>>

\* Ingest ends while the watermark closes chunks.
IngestCutByWatermark(slot) ==
  LET m == [id |-> arrived + 1, slot |-> slot]
  IN  /\ up
      /\ arrived < MaxMsgs
      /\ ~TooLate(slot, Advance(watermark, slot))
      /\ arrived' = arrived + 1
      /\ watermark' = Advance(watermark, slot)
      /\ CutShort(CapDisk(slot), Filled(slot, m), Due(slot, m), "watermark", {})
      /\ dropped' = Dropped(slot, m)
      /\ UNCHANGED <<from, run>>

SealSetCut(S) ==
  /\ up
  /\ CutShort(disk, open, S, "shutdown", {})
  /\ UNCHANGED <<watermark, from, run, arrived, dropped>>

\* The tick ends inside a seal.
TickCut(a) == SealSetCut(Stale(a))

\* The shutdown ends inside a seal.
ShutdownCut == SealSetCut(OpenChunks)

\* A new process: recovery finds the resume slot, a fresh chunker starts.
Restart ==
  /\ ~up
  /\ run < MaxRuns
  /\ run' = run + 1
  /\ up' = TRUE
  /\ from' = LatestSealedEnd(SealComplete)
  /\ watermark' = NoSlot
  /\ UNCHANGED <<open, disk, arrived, dropped, lost>>

Next ==
  \/ \E slot \in Slots : IngestLate(slot) \/ IngestKept(slot)
  \/ \E slot \in Slots :
       IngestCutByCap(slot) \/ IngestFails(slot) \/ IngestCutByWatermark(slot)
  \/ \E a \in 1..arrived : Tick(a) \/ TickCut(a)
  \/ Shutdown
  \/ ShutdownCut
  \/ Crash
  \/ Restart

Spec == Init /\ [][Next]_vars

-----------------------------------------------------------------------------
TypeOK ==
  /\ open \in [Chunks -> SUBSET Message]
  /\ disk \in [Chunks -> SealedChunk]
  /\ watermark \in Slots \cup {NoSlot}
  /\ from \in Int
  /\ up \in BOOLEAN
  /\ run \in 1..MaxRuns
  /\ arrived \in 0..MaxMsgs
  /\ dropped \subseteq [msg : Message, why : {"late", "conflict"}, from : Int, run : Nat]
  /\ lost \subseteq Message

(***************************************************************************)
(* Between two handlers every open chunk is the watermark's chunk or the   *)
(* one before it: the seal at the end of ingest bounds the chunker's       *)
(* memory at two encoders, whatever order slots arrive in and whatever     *)
(* max_open_chunks says.                                                   *)
(***************************************************************************)
OpenWindow ==
  \A c \in OpenChunks : c \in {ChunkOf(watermark) - 1, ChunkOf(watermark)}

(***************************************************************************)
(* Nothing vanishes and nothing is stored twice: every received message is *)
(* in the encoder or the sealed file of its own chunk, or was dropped by   *)
(* ingest, or died with a crash, and only one of these.                    *)
(***************************************************************************)
Accounted ==
  /\ {m.id : m \in Received} = 1..arrived
  /\ \A c \in Chunks :
       /\ \A m \in open[c] \cup disk[c].msgs : ChunkOf(m.slot) = c
       /\ open[c] \cap disk[c].msgs = {}
  /\ \A m \in {d.msg : d \in dropped} \cup lost :
       m \notin open[ChunkOf(m.slot)] \cup disk[ChunkOf(m.slot)].msgs
  /\ lost \cap {d.msg : d \in dropped} = {}

(***************************************************************************)
(* With the tolerance at most one chunk long and room for two open chunks  *)
(* (the defaults are 100 of 1000 slots, and 4), the only messages refused  *)
(* because their range is already on disk lie below the slot the run asked *)
(* to resume from, or in a chunk that this same run sealed for idleness,   *)
(* or in a chunk whose seal an earlier run left half done (the guard sees  *)
(* the .zst, recovery only a .meta.json, so the run resumes before a range *)
(* it refuses): neither the watermark nor the cap ever seals a chunk that  *)
(* a message within the tolerance still belongs to.                        *)
(***************************************************************************)
RefusalsExplained ==
  (Tolerance =< SlotsPerChunk /\ MaxOpenChunks >= 2) =>
    \A d \in dropped :
      d.why = "conflict" =>
        \/ d.msg.slot < d.from
        \/ /\ disk[ChunkOf(d.msg.slot)].reason = "shutdown"
           /\ disk[ChunkOf(d.msg.slot)].run = d.run
        \/ /\ disk[ChunkOf(d.msg.slot)].reason = "bare"
           /\ disk[ChunkOf(d.msg.slot)].run < d.run

(***************************************************************************)
(* max_open_chunks never binds from three up: no chunk is ever sealed for  *)
(* the reason "cap-reached".                                               *)
(***************************************************************************)
CapNeverBinds ==
  MaxOpenChunks >= 3 => \A c \in Chunks : disk[c].reason # "cap-reached"

(***************************************************************************)
(* A sealed chunk is final: no later handler and no later run replaces     *)
(* files that carry their final names, which the uploader may be reading.  *)
(***************************************************************************)
SealedImmutable == [][\A c \in OnDisk : disk'[c] = disk[c]]_vars

-----------------------------------------------------------------------------
(***************************************************************************)
(* The strengthening that makes OpenWindow, Accounted, RefusalsExplained   *)
(* and CapNeverBinds inductive.                                            *)
(***************************************************************************)
\* A chunk is open or sealed, never both: sealing it overwrites nothing.
OpenNotOnDisk == \A c \in OpenChunks : c \notin OnDisk

\* Only a running consumer has open chunks.
DownIsEmpty == ~up => OpenChunks = {}

UnsealedEmpty == \A c \in Chunks : disk[c].reason = "none" => disk[c].msgs = {}

\* What earlier runs sealed ends at or before the slot this run resumed from.
OldRunsBelowResume ==
  /\ \A c \in OnDisk : disk[c].run =< run
  /\ \A c \in SealComplete : disk[c].run < run => EndSlot(c) =< from

\* A seal that was cut short ended its run.
BareIsOld == up => \A c \in Chunks : disk[c].reason = "bare" => disk[c].run < run

\* What this run sealed for the watermark or the cap is two chunks behind.
SettledBehind ==
  (Tolerance =< SlotsPerChunk /\ MaxOpenChunks >= 2) =>
    \A c \in SealComplete :
      (disk[c].run = run /\ disk[c].reason # "shutdown") =>
        ChunkOf(watermark) >= c + SealLookahead

IndInv ==
  /\ TypeOK
  /\ OpenWindow
  /\ OpenNotOnDisk
  /\ DownIsEmpty
  /\ UnsealedEmpty
  /\ OldRunsBelowResume
  /\ BareIsOld
  /\ SettledBehind
  /\ RefusalsExplained
  /\ CapNeverBinds
  /\ Accounted
=============================================================================
