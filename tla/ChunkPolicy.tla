---------------------------- MODULE ChunkPolicy ----------------------------
(***************************************************************************)
(* The slot arithmetic of the writer's chunker: which chunk a slot belongs *)
(* to, when a message is too old, and which open chunks an arriving        *)
(* message closes.  Pure operators, shared by Chunker (handlers as atomic  *)
(* steps) and Writer (handlers as sequences of file-system steps).         *)
(***************************************************************************)
EXTENDS Integers, FiniteSets

CONSTANTS
  MaxSlot,        \* the largest slot number (a u64 in the code)
  Slots,          \* the slots messages may carry
  SlotsPerChunk,  \* writer.slots_per_chunk
  Tolerance,      \* writer.out_of_order_tolerance_slots
  MaxOpenChunks   \* writer.max_open_chunks

(***************************************************************************)
(* What the code needs and does not validate: slots_per_chunk = 0 divides  *)
(* by zero, and max_open_chunks = 0 panics on the first message.           *)
(***************************************************************************)
ASSUME PolicyAssumption ==
  /\ MaxSlot \in Nat
  /\ Slots \subseteq 0..MaxSlot
  /\ SlotsPerChunk \in Nat \ {0}
  /\ Tolerance \in Nat
  /\ MaxOpenChunks \in Nat \ {0}

\* SEAL_LOOKAHEAD_CHUNKS.
SealLookahead == 2

\* The watermark before the first message, and the resume slot of a writer
\* with nothing on disk (Option::None in both places).
NoSlot == -1

ChunkOf(slot) == slot \div SlotsPerChunk

Chunks == {ChunkOf(s) : s \in Slots}

\* end_slot_exclusive, the second number of a chunk's file name.
EndSlot(c) == (c + 1) * SlotsPerChunk

\* The watermark after a message for slot: the highest slot of this run.
Advance(watermark, slot) == IF slot > watermark THEN slot ELSE watermark

\* A message this far behind the watermark is dropped.
TooLate(slot, watermark) == slot + Tolerance < watermark

(***************************************************************************)
(* The chunks the cap closes before one more is opened: oldest first until *)
(* fewer than max_open_chunks remain, so all but the newest                *)
(* MaxOpenChunks - 1.                                                      *)
(***************************************************************************)
CapSealed(openSet) ==
  {c \in openSet : Cardinality({d \in openSet : d >= c}) >= MaxOpenChunks}

WatermarkSealed_Eager(openSet, watermark) ==
  {c \in openSet : ChunkOf(watermark) >= c + 1}

WatermarkSealed_Lazy(openSet, watermark) ==
  {c \in openSet : ChunkOf(watermark) > c + SealLookahead}

\* The chunks the watermark has left SEAL_LOOKAHEAD_CHUNKS behind.
WatermarkSealed(openSet, watermark) ==
  {c \in openSet : ChunkOf(watermark) >= c + SealLookahead}

(***************************************************************************)
(* Where a restarted lane resumes: the largest end slot among the sealed   *)
(* chunks on disk, NoSlot (the tip) when there is none.                    *)
(***************************************************************************)
LatestSealedEnd(sealedSet) ==
  IF sealedSet = {}
  THEN NoSlot
  ELSE EndSlot(CHOOSE c \in sealedSet : \A d \in sealedSet : d =< c)
=============================================================================
