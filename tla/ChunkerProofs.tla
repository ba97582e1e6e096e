--------------------------- MODULE ChunkerProofs ---------------------------
(***************************************************************************)
(* Proofs about Chunker, for every chunk length, tolerance, cap, slot set  *)
(* and bound: the inductive invariant IndInv, and from it the invariants   *)
(* and the action property that the runs check on small instances.         *)
(***************************************************************************)
EXTENDS Chunker, FiniteSetTheorems, WellFoundedInduction, TLAPS

-----------------------------------------------------------------------------
(* The slot arithmetic of ChunkPolicy.                                     *)

\* Integer division by the chunk length, as the interval a chunk covers.
LEMMA ChunkInterval ==
  ASSUME NEW s \in Int
  PROVE  /\ ChunkOf(s) \in Int
         /\ ChunkOf(s) * SlotsPerChunk =< s
         /\ s < (ChunkOf(s) + 1) * SlotsPerChunk
  BY PolicyAssumption DEF ChunkOf

\* A chunk's interval determines it.
LEMMA ChunkUnique ==
  ASSUME NEW s \in Int, NEW q \in Int, q * SlotsPerChunk =< s, s < (q + 1) * SlotsPerChunk
  PROVE  ChunkOf(s) = q
  BY PolicyAssumption DEF ChunkOf

\* Chunk numbers order the ends of their intervals.
LEMMA ChunkEnds ==
  ASSUME NEW p \in Int, NEW q \in Int, p < q
  PROVE  (p + 1) * SlotsPerChunk =< q * SlotsPerChunk
<1> DEFINE k == q - (p + 1)
<1>1. k >= 0 /\ SlotsPerChunk >= 0 /\ k \in Int /\ SlotsPerChunk \in Int
  BY PolicyAssumption
<1>2. k * SlotsPerChunk >= 0
  <2> HIDE DEF k
  <2> QED BY <1>1, SMT
<1>3. q * SlotsPerChunk = (p + 1) * SlotsPerChunk + k * SlotsPerChunk
  BY <1>1, SMT
<1> QED BY <1>1, <1>2, <1>3, SMT

\* Later slots are in the same chunk or a later one.
LEMMA ChunkMonotone ==
  ASSUME NEW s \in Int, NEW t \in Int, s =< t
  PROVE  ChunkOf(s) =< ChunkOf(t)
<1>1. ASSUME ChunkOf(t) < ChunkOf(s) PROVE FALSE
  <2>1. (ChunkOf(t) + 1) * SlotsPerChunk =< ChunkOf(s) * SlotsPerChunk
    BY <1>1, ChunkEnds, ChunkInterval
  <2> QED BY <2>1, ChunkInterval, PolicyAssumption
<1> QED BY <1>1, ChunkInterval

\* A slot at most a chunk length ahead is at most one chunk ahead.
LEMMA ChunkShift ==
  ASSUME NEW s \in Int, NEW t \in Int, t =< s + SlotsPerChunk
  PROVE  ChunkOf(t) =< ChunkOf(s) + 1
<1>1. ASSUME ChunkOf(s) + 1 < ChunkOf(t) PROVE FALSE
  <2>0. ChunkOf(s) + 1 \in Int /\ ChunkOf(t) \in Int
    BY ChunkInterval
  <2>1. (ChunkOf(s) + 1 + 1) * SlotsPerChunk =< ChunkOf(t) * SlotsPerChunk
    BY <1>1, <2>0, ChunkEnds
  <2>2. (ChunkOf(s) + 1 + 1) * SlotsPerChunk
          = (ChunkOf(s) + 1) * SlotsPerChunk + SlotsPerChunk
    BY ChunkInterval, PolicyAssumption
  <2> QED BY <2>1, <2>2, ChunkInterval, PolicyAssumption
<1> QED BY <1>1, ChunkInterval

\* Every chunk number is a natural number, and a chunk ends after its slots.
LEMMA ChunksNat ==
  /\ \A s \in Slots : ChunkOf(s) \in Chunks /\ ChunkOf(s) \in Nat /\ s < EndSlot(ChunkOf(s))
  /\ Chunks \subseteq Nat
<1>1. ASSUME NEW s \in Slots PROVE ChunkOf(s) \in Nat /\ s < EndSlot(ChunkOf(s))
  <2>1. s \in Nat
    BY PolicyAssumption
  <2>2. ChunkOf(0) = 0
    BY ChunkUnique, PolicyAssumption
  <2>3. ChunkOf(0) =< ChunkOf(s)
    BY <2>1, ChunkMonotone
  <2> QED BY <2>1, <2>2, <2>3, ChunkInterval DEF EndSlot
<1> QED BY <1>1 DEF Chunks

\* Chunk numbers are bounded, because slots are.
LEMMA ChunksBounded == \E b \in Nat : \A c \in Chunks : c =< b
<1> DEFINE n == MaxSlot
<1>1. n \in Nat /\ \A s \in Slots : s \in Nat /\ s =< n
  BY PolicyAssumption
<1> HIDE DEF n
<1>2. ChunkOf(0) = 0
  BY ChunkUnique, PolicyAssumption
<1>3. ChunkOf(n) \in Nat
  BY <1>1, <1>2, ChunkMonotone, ChunkInterval
<1>4. \A s \in Slots : ChunkOf(s) =< ChunkOf(n)
  BY <1>1, ChunkMonotone, PolicyAssumption
<1> QED BY <1>3, <1>4 DEF Chunks

(***************************************************************************)
(* A set of chunks that is not empty has a newest chunk, so the resume     *)
(* slot is at or past the end of every sealed chunk.                       *)
(***************************************************************************)
LEMMA ResumePastSealed ==
  ASSUME NEW S \in SUBSET Chunks, NEW c \in S
  PROVE  LatestSealedEnd(S) \in Int /\ EndSlot(c) =< LatestSealedEnd(S)
<1>1. PICK b \in Nat : \A d \in Chunks : d =< b
  BY ChunksBounded
<1> DEFINE T == {b - d : d \in S}
           R == OpToRel(<, Nat)
<1>2. T \subseteq Nat /\ T # {}
  BY <1>1, ChunksNat
<1>3. PICK x \in T : \A y \in T : ~(<<y, x>> \in R)
  BY <1>2, NatLessThanWellFounded, WFMin
<1>4. PICK top \in S : x = b - top
  OBVIOUS
<1>5. \A d \in S : d =< top
  <2> SUFFICES ASSUME NEW d \in S PROVE d =< top
    OBVIOUS
  <2>1. d \in Nat /\ top \in Nat /\ b - d \in T /\ b - d \in Nat /\ x \in Nat
    BY <1>1, <1>2, ChunksNat
  <2>2. ~(b - d < x)
    BY <1>3, <2>1 DEF OpToRel
  <2> QED BY <1>4, <2>1, <2>2
<1> DEFINE newest == CHOOSE e \in S : \A d \in S : d =< e
<1>6. newest \in S /\ c =< newest
  BY <1>5
<1>7. newest \in Nat /\ c \in Nat /\ LatestSealedEnd(S) = EndSlot(newest)
  BY <1>6, ChunksNat DEF LatestSealedEnd
<1> HIDE DEF newest
<1>8. EndSlot(newest) \in Int /\ EndSlot(c) \in Int
  BY <1>7, PolicyAssumption DEF EndSlot
<1>9. EndSlot(c) =< EndSlot(newest)
  <2>1. CASE c = newest
    BY <2>1, <1>8
  <2>2. CASE c < newest
    <3>1. (c + 1) * SlotsPerChunk =< newest * SlotsPerChunk
      BY <2>2, <1>7, ChunkEnds
    <3>2. (newest + 1) * SlotsPerChunk = newest * SlotsPerChunk + SlotsPerChunk
      BY <1>7, PolicyAssumption
    <3> QED BY <3>1, <3>2, <1>7, <1>8, PolicyAssumption DEF EndSlot
  <2> QED BY <2>1, <2>2, <1>6, <1>7
<1> QED BY <1>7, <1>8, <1>9

(***************************************************************************)
(* When the open chunks are w - 1 and w at most, a cap of two or more      *)
(* closes only w - 1, and only while w is open too.                        *)
(***************************************************************************)
LEMMA CapSealsOlder ==
  ASSUME NEW w \in Int, NEW O \in SUBSET {w - 1, w}, MaxOpenChunks >= 2, NEW c \in CapSealed(O)
  PROVE  c = w - 1 /\ w \in O
<1> DEFINE U == {d \in O : d >= c}
<1>1. c \in O /\ Cardinality(U) >= MaxOpenChunks
  BY DEF CapSealed
<1>2. \A d \in O : d \in Int /\ (d = w - 1 \/ d = w)
  OBVIOUS
<1>3. ASSUME U \subseteq {c} PROVE FALSE
  <2>1. IsFiniteSet({c}) /\ Cardinality({c}) = 1
    BY FS_Singleton
  <2>2. IsFiniteSet(U) /\ Cardinality(U) =< Cardinality({c})
    BY <1>3, <2>1, FS_Subset
  <2>3. Cardinality(U) \in Nat
    BY <2>2, FS_CardinalityType
  <2> HIDE DEF U
  <2> QED BY <1>1, <2>1, <2>2, <2>3, PolicyAssumption
<1>4. PICK d \in O : d >= c /\ d # c
  BY <1>3
<1> QED BY <1>1, <1>2, <1>4

\* When the open chunks are w - 1 and w at most, a cap of three closes none.
LEMMA CapSealsNothing ==
  ASSUME NEW w \in Int, NEW O \in SUBSET {w - 1, w}, MaxOpenChunks >= 3
  PROVE  CapSealed(O) = {}
<1> SUFFICES ASSUME NEW c \in CapSealed(O) PROVE FALSE
  OBVIOUS
<1> DEFINE U == {d \in O : d >= c}
<1>1. IsFiniteSet((w - 1)..w) /\ Cardinality((w - 1)..w) = 2
  BY FS_Interval
<1>2. \A d \in O : d \in (w - 1)..w
  OBVIOUS
<1>3. U \in SUBSET ((w - 1)..w)
  BY <1>2
<1>4. IsFiniteSet(U) /\ Cardinality(U) =< 2
  BY <1>1, <1>3, FS_Subset
<1>5. Cardinality(U) \in Nat
  BY <1>4, FS_CardinalityType
<1>6. Cardinality(U) >= MaxOpenChunks
  BY DEF CapSealed
<1> HIDE DEF U
<1> QED BY <1>4, <1>5, <1>6, PolicyAssumption

-----------------------------------------------------------------------------
(* The handlers.                                                           *)

\* The state before the first message satisfies the inductive invariant.
LEMMA InitInd == Init => IndInv
<1> SUFFICES ASSUME Init PROVE IndInv
  OBVIOUS
<1> USE DEF Init
<1>1. TypeOK
  BY BoundsAssumption DEF TypeOK, Unsealed, SealedChunk, NoSlot
<1>2. OpenChunks = {} /\ OnDisk = {} /\ SealComplete = {} /\ Received = {}
  BY DEF OpenChunks, OnDisk, SealComplete, Reasons, Received, Unsealed
<1>3. Accounted
  BY <1>2, ChunksNat DEF Accounted, Unsealed
<1>4. UnsealedEmpty /\ CapNeverBinds /\ BareIsOld
  BY DEF UnsealedEmpty, CapNeverBinds, BareIsOld, Unsealed
<1>5. RefusalsExplained
  BY DEF RefusalsExplained
<1> QED
  BY <1>1, <1>2, <1>3, <1>4, <1>5
  DEF IndInv, OpenWindow, OpenNotOnDisk, DownIsEmpty, OldRunsBelowResume, SettledBehind

(***************************************************************************)
(* The watermark a message leaves behind: it only grows, and it is the     *)
(* message's own slot whenever it moves.                                   *)
(***************************************************************************)
LEMMA AdvanceFacts ==
  ASSUME TypeOK, NEW slot \in Slots
  PROVE  LET wm == Advance(watermark, slot)
         IN  /\ wm \in Slots
             /\ wm \in Int /\ slot \in Int /\ watermark \in Int
             /\ watermark =< wm /\ slot =< wm
             /\ wm = watermark \/ wm = slot
             /\ ChunkOf(watermark) \in Int /\ ChunkOf(wm) \in Int
             /\ ChunkOf(watermark) =< ChunkOf(wm)
             /\ ChunkOf(slot) \in Chunks /\ ChunkOf(slot) \in Nat
             /\ ChunkOf(slot) =< ChunkOf(wm)
<1> DEFINE wm == Advance(watermark, slot)
<1>1. slot \in Int /\ watermark \in Int /\ slot >= 0 /\ watermark >= -1
  BY PolicyAssumption DEF TypeOK, NoSlot
<1>2. wm \in Slots /\ wm \in Int /\ watermark =< wm /\ slot =< wm /\ (wm = watermark \/ wm = slot)
  BY <1>1 DEF Advance, TypeOK, NoSlot
<1> HIDE DEF wm
<1>3. ChunkOf(watermark) \in Int /\ ChunkOf(wm) \in Int
  BY <1>1, <1>2, ChunkInterval
<1>4. ChunkOf(watermark) =< ChunkOf(wm) /\ ChunkOf(slot) =< ChunkOf(wm)
  BY <1>1, <1>2, ChunkMonotone
<1>5. ChunkOf(slot) \in Chunks /\ ChunkOf(slot) \in Nat
  BY ChunksNat
<1> QED BY <1>1, <1>2, <1>3, <1>4, <1>5 DEF wm

\* Every message on record has an arrival number that was already given out.
LEMMA FreshMessage ==
  ASSUME IndInv, NEW m, m.id = arrived + 1
  PROVE  m \notin Received
<1>1. arrived \in Nat /\ {x.id : x \in Received} = 1..arrived
  BY DEF IndInv, TypeOK, Accounted
<1>2. ASSUME m \in Received PROVE FALSE
  <2>1. m.id \in 1..arrived
    BY <1>1, <1>2
  <2> QED BY <1>1, <2>1
<1> QED BY <1>2

\* One more message extends the interval of arrival numbers by one.
LEMMA NextArrival ==
  ASSUME NEW R, NEW n \in Nat, {x.id : x \in R} = 1..n, NEW m, m.id = n + 1
  PROVE  {x.id : x \in R \cup {m}} = 1..(n + 1)
<1>1. 1..(n + 1) = (1..n) \cup {n + 1}
  OBVIOUS
<1>2. {x.id : x \in R \cup {m}} = {x.id : x \in R} \cup {n + 1}
  OBVIOUS
<1> QED BY <1>1, <1>2

\* A dropped late message changes the history only.
LEMMA IngestLateInd ==
  ASSUME IndInv, NEW slot \in Slots, IngestLate(slot)
  PROVE  IndInv'
<1> DEFINE wm == Advance(watermark, slot)
           m == [id |-> arrived + 1, slot |-> slot]
<1> USE DEF IngestLate
<1>1. /\ TypeOK /\ OpenWindow /\ OpenNotOnDisk /\ DownIsEmpty /\ UnsealedEmpty
      /\ OldRunsBelowResume /\ BareIsOld /\ SettledBehind /\ RefusalsExplained
      /\ CapNeverBinds /\ Accounted
  BY DEF IndInv
<1>2. /\ watermark' = wm /\ open' = open /\ disk' = disk /\ arrived' = arrived + 1
      /\ dropped' = dropped \cup {Drop(m, "late")}
      /\ UNCHANGED <<from, up, run, lost>>
  OBVIOUS
<1>3. wm = watermark
  BY <1>1, AdvanceFacts, PolicyAssumption DEF TooLate
<1>4. m \in Message /\ arrived + 1 \in 1..MaxMsgs
  BY <1>1, BoundsAssumption DEF TypeOK, Message
<1>5. TypeOK'
  <2>1. Drop(m, "late") \in [msg : Message, why : {"late", "conflict"}, from : Int, run : Nat]
    BY <1>1, <1>4, BoundsAssumption DEF Drop, TypeOK
  <2> QED BY <1>1, <1>2, <1>3, <1>4, <2>1 DEF TypeOK
<1>6. OpenChunks' = OpenChunks /\ OnDisk' = OnDisk /\ SealComplete' = SealComplete
  BY <1>2 DEF OpenChunks, OnDisk, SealComplete
<1>7. /\ OpenWindow' /\ OpenNotOnDisk' /\ DownIsEmpty' /\ UnsealedEmpty'
      /\ OldRunsBelowResume' /\ BareIsOld' /\ SettledBehind' /\ CapNeverBinds'
  BY <1>1, <1>2, <1>3, <1>6
  DEF OpenWindow, OpenNotOnDisk, DownIsEmpty, UnsealedEmpty, OldRunsBelowResume, BareIsOld,
      SettledBehind, CapNeverBinds
<1>8. RefusalsExplained'
  BY <1>1, <1>2 DEF RefusalsExplained, Drop
<1>9. Accounted'
  <2>1. {d.msg : d \in dropped'} = {d.msg : d \in dropped} \cup {m}
    <3>1. Drop(m, "late").msg = m
      BY DEF Drop
    <3> HIDE DEF m, IngestLate
    <3> QED BY <1>2, <3>1
  <2>2. Received' = Received \cup {m}
    BY <1>2, <2>1 DEF Received
  <2>3. m \notin Received
    BY FreshMessage
  <2>4. {x.id : x \in Received'} = 1..arrived'
    <3>1. m.id = arrived + 1 /\ arrived \in Nat /\ {x.id : x \in Received} = 1..arrived
      BY <1>1 DEF Accounted, TypeOK
    <3> HIDE DEF m
    <3> QED BY <1>2, <2>2, <3>1, NextArrival
  <2>5. m \notin lost /\ \A c \in Chunks : m \notin open[c] \cup disk[c].msgs
    BY <2>3 DEF Received
  <2>6. ChunkOf(m.slot) \in Chunks
    BY ChunksNat
  <2> QED BY <1>1, <1>2, <2>1, <2>4, <2>5, <2>6 DEF Accounted
<1> QED BY <1>5, <1>7, <1>8, <1>9 DEF IndInv

(***************************************************************************)
(* Under a tolerance of at most one chunk the cap closes nothing that the  *)
(* watermark of the same call has not left behind.                         *)
(***************************************************************************)
LEMMA CapSettles ==
  ASSUME IndInv, NEW slot \in Slots, ~TooLate(slot, Advance(watermark, slot)),
         Tolerance =< SlotsPerChunk, MaxOpenChunks >= 2, NEW c \in Capped(slot)
  PROVE  ChunkOf(Advance(watermark, slot)) >= c + SealLookahead
<1> DEFINE wm == Advance(watermark, slot)
           idx == ChunkOf(slot)
<1>1. TypeOK /\ OpenWindow
  BY DEF IndInv
<1>2. /\ wm \in Int /\ slot \in Int /\ watermark \in Int
      /\ (wm = watermark \/ wm = slot)
      /\ ChunkOf(watermark) \in Int /\ ChunkOf(wm) \in Int
      /\ ChunkOf(watermark) =< ChunkOf(wm)
      /\ idx \in Nat /\ idx =< ChunkOf(wm) /\ (wm = slot => ChunkOf(wm) = idx)
  BY <1>1, AdvanceFacts
<1>3. ~TooLate(slot, wm)
  OBVIOUS
<1> SUFFICES ChunkOf(wm) >= c + SealLookahead
  OBVIOUS
<1> HIDE DEF wm
<1>4. open[idx] = {} /\ c \in CapSealed(OpenChunks)
  BY DEF Capped
<1>5. OpenChunks \subseteq {ChunkOf(watermark) - 1, ChunkOf(watermark)}
  BY <1>1 DEF OpenWindow
<1>6. c = ChunkOf(watermark) - 1 /\ ChunkOf(watermark) \in OpenChunks
  BY <1>2, <1>4, <1>5, CapSealsOlder
<1>7. c \in OpenChunks
  BY <1>4 DEF CapSealed
<1>8. idx # c /\ idx # ChunkOf(watermark)
  BY <1>4, <1>6, <1>7 DEF OpenChunks
<1>9. CASE wm = slot
  BY <1>2, <1>6, <1>8, <1>9 DEF SealLookahead
<1>10. CASE wm = watermark
  <2>1. watermark =< slot + SlotsPerChunk
    BY <1>2, <1>3, <1>10, PolicyAssumption DEF TooLate
  <2>2. ChunkOf(watermark) =< idx + 1
    BY <1>2, <2>1, ChunkShift
  <2> QED BY <1>2, <1>6, <1>8, <1>10, <2>2
<1> QED BY <1>2, <1>9, <1>10

(***************************************************************************)
(* A message that open_chunk refuses is below the resume slot, or in a     *)
(* chunk this run sealed for idleness, or in one an earlier run left bare; *)
(* and as long as the files on disk stay as they are, so is every message  *)
(* that was refused before.                                                *)
(***************************************************************************)
LEMMA RefusalsStayExplained ==
  ASSUME IndInv, up, NEW slot \in Slots, ~TooLate(slot, Advance(watermark, slot)),
         \/ dropped' = dropped
         \/ dropped' = Dropped(slot, [id |-> arrived + 1, slot |-> slot]),
         \A c \in OnDisk : disk'[c] = disk[c]
  PROVE  RefusalsExplained'
<1> DEFINE wm == Advance(watermark, slot)
           idx == ChunkOf(slot)
           m == [id |-> arrived + 1, slot |-> slot]
<1>1. TypeOK /\ OldRunsBelowResume /\ BareIsOld /\ SettledBehind /\ RefusalsExplained
  BY DEF IndInv
<1>2. /\ wm \in Int /\ slot \in Int /\ watermark \in Int /\ watermark =< wm
      /\ ChunkOf(watermark) \in Int /\ idx \in Nat /\ idx \in Chunks
  BY <1>1, AdvanceFacts
<1>3. m.slot = slot /\ ~TooLate(slot, wm)
  OBVIOUS
<1> SUFFICES ASSUME Tolerance =< SlotsPerChunk, MaxOpenChunks >= 2,
                    NEW d \in dropped', d.why = "conflict"
             PROVE  \/ d.msg.slot < d.from
                    \/ /\ disk'[ChunkOf(d.msg.slot)].reason = "shutdown"
                       /\ disk'[ChunkOf(d.msg.slot)].run = d.run
                    \/ /\ disk'[ChunkOf(d.msg.slot)].reason = "bare"
                       /\ disk'[ChunkOf(d.msg.slot)].run < d.run
  BY DEF RefusalsExplained
<1>4. CASE d \in dropped
  <2>1. d.msg.slot \in Slots
    BY <1>1, <1>4 DEF TypeOK, Message
  <2>2. ChunkOf(d.msg.slot) \in Chunks
    BY <2>1, ChunksNat
  <2>3. CASE d.msg.slot < d.from
    BY <2>3
  <2>4. CASE disk[ChunkOf(d.msg.slot)].reason \in {"shutdown", "bare"}
    <3>1. disk'[ChunkOf(d.msg.slot)] = disk[ChunkOf(d.msg.slot)]
      BY <2>2, <2>4 DEF OnDisk
    <3> QED BY <1>1, <1>4, <3>1 DEF RefusalsExplained
  <2> QED BY <1>1, <1>4, <2>3, <2>4 DEF RefusalsExplained
<1>5. CASE d \notin dropped
  <2> HIDE DEF m, wm
  <2>1. Refused(idx) /\ d = Drop(m, "conflict")
    BY <1>5 DEF Dropped, m
  <2>2. d.msg.slot = slot /\ d.from = from /\ d.run = run /\ idx \in OnDisk
    BY <1>3, <2>1 DEF Drop, Refused
  <2>3. disk'[idx] = disk[idx] /\ disk[idx].run =< run /\ disk[idx].run \in Int /\ run \in Int
    BY <1>1, <1>2, <2>2 DEF OldRunsBelowResume, TypeOK, SealedChunk
  <2>4. CASE disk[idx].reason = "bare"
    BY <1>1, <1>2, <2>2, <2>3, <2>4 DEF BareIsOld
  <2>5. CASE idx \in SealComplete /\ disk[idx].run < run
    <3>1. EndSlot(idx) =< from /\ slot < EndSlot(idx) /\ from \in Int /\ EndSlot(idx) \in Int
      BY <1>1, <1>2, <2>2, <2>5, ChunksNat, PolicyAssumption
      DEF OldRunsBelowResume, TypeOK, EndSlot
    <3> QED BY <1>2, <2>2, <3>1
  <2>6. CASE idx \in SealComplete /\ disk[idx].run = run /\ disk[idx].reason # "shutdown"
    <3>1. ChunkOf(watermark) >= idx + 2
      BY <1>1, <2>6 DEF SettledBehind, SealLookahead
    <3>2. watermark =< slot + SlotsPerChunk
      BY <1>2, <1>3, PolicyAssumption DEF TooLate
    <3>3. ChunkOf(watermark) =< idx + 1
      BY <1>2, <3>2, ChunkShift
    <3> QED BY <1>2, <3>1, <3>3
  <2>7. disk[idx].reason = "bare" \/ idx \in SealComplete
    BY <1>1, <1>2, <2>2 DEF OnDisk, SealComplete, TypeOK, SealedChunk
  <2> QED BY <2>2, <2>3, <2>4, <2>5, <2>6, <2>7
<1> QED BY <1>4, <1>5

(***************************************************************************)
(* What ingest does with a message it does not drop as late.  Neither the  *)
(* chunks the cap closes nor those the watermark closes are on disk yet,   *)
(* and under a tolerance of at most one chunk the cap closes nothing that  *)
(* the watermark would not close in the same call.                         *)
(***************************************************************************)
LEMMA IngestKeptInd ==
  ASSUME IndInv, NEW slot \in Slots, IngestKept(slot)
  PROVE  IndInv'
<1> DEFINE wm == Advance(watermark, slot)
           idx == ChunkOf(slot)
           m == [id |-> arrived + 1, slot |-> slot]
           capped == IF open[idx] = {} THEN CapSealed(OpenChunks) ELSE {}
           filled == [c \in Chunks |->
                        IF c \in capped THEN {}
                        ELSE IF c = idx /\ ~Refused(idx) THEN open[c] \cup {m}
                        ELSE open[c]]
           due == WatermarkSealed({c \in Chunks : filled[c] # {}}, wm)
<1>1. /\ TypeOK /\ OpenWindow /\ OpenNotOnDisk /\ DownIsEmpty /\ UnsealedEmpty
      /\ OldRunsBelowResume /\ BareIsOld /\ SettledBehind /\ RefusalsExplained
      /\ CapNeverBinds /\ Accounted
  BY DEF IndInv
<1>2. /\ up /\ arrived < MaxMsgs /\ ~TooLate(slot, wm)
      /\ arrived' = arrived + 1 /\ watermark' = wm
      /\ open' = [c \in Chunks |-> IF c \in due THEN {} ELSE filled[c]]
      /\ disk' = [c \in Chunks |->
                    IF c \in due THEN Sealed(filled[c], "watermark")
                    ELSE IF c \in capped THEN Sealed(open[c], "cap-reached")
                    ELSE disk[c]]
      /\ dropped' = IF Refused(idx) THEN dropped \cup {Drop(m, "conflict")} ELSE dropped
      /\ UNCHANGED <<from, up, run, lost>>
  BY DEF IngestKept, Capped, Filled, Due, CapDisk, Dropped
<1>3. /\ wm \in Slots /\ wm \in Int /\ slot \in Int /\ watermark \in Int
      /\ watermark =< wm /\ slot =< wm /\ (wm = watermark \/ wm = slot)
      /\ ChunkOf(watermark) \in Int /\ ChunkOf(wm) \in Int
      /\ ChunkOf(watermark) =< ChunkOf(wm)
      /\ idx \in Chunks /\ idx \in Nat /\ idx =< ChunkOf(wm)
      /\ (wm = slot => ChunkOf(wm) = idx)
  BY <1>1, AdvanceFacts
<1>4. m \in Message /\ m.id = arrived + 1 /\ m.slot = slot /\ m \notin Received
  BY <1>1, <1>2, BoundsAssumption, FreshMessage DEF TypeOK, Message
<1>5. /\ \A c \in Chunks : m \notin open[c] \cup disk[c].msgs
      /\ m \notin lost /\ m \notin {d.msg : d \in dropped}
  BY <1>4 DEF Received
<1>6. capped \subseteq OpenChunks /\ idx \notin capped
  BY DEF CapSealed, OpenChunks
<1>7. Chunks \subseteq Nat
  BY ChunksNat
<1>8. /\ \A c \in Chunks : c \in due <=> filled[c] # {} /\ ChunkOf(wm) >= c + SealLookahead
      /\ due \subseteq Chunks
  BY DEF WatermarkSealed
<1> HIDE DEF wm, m, capped, due
<1>9. /\ \A c \in capped : c \in Chunks /\ open[c] # {} /\ c \notin OnDisk /\ c \notin due
      /\ \A c \in due : c \in Chunks /\ c \notin OnDisk
  BY <1>1, <1>6, <1>8 DEF OpenNotOnDisk, OpenChunks, Refused
<1>10. \A c \in OnDisk : disk'[c] = disk[c] /\ c \in OnDisk'
  BY <1>2, <1>9 DEF OnDisk
<1>11. OpenChunks \subseteq {ChunkOf(watermark) - 1, ChunkOf(watermark)}
  BY <1>1 DEF OpenWindow
<1>12. TypeOK'
  <2>1. filled \in [Chunks -> SUBSET Message]
    BY <1>1, <1>4 DEF TypeOK
  <2>2. open' \in [Chunks -> SUBSET Message]
    BY <1>2, <2>1
  <2>3. disk' \in [Chunks -> SealedChunk]
    <3>1. \A x \in SUBSET Message, r \in Reasons : Sealed(x, r) \in SealedChunk
      BY <1>1 DEF Sealed, SealedChunk, TypeOK
    <3>2. "watermark" \in Reasons /\ "cap-reached" \in Reasons
      BY DEF Reasons
    <3> HIDE DEF filled
    <3> QED BY <1>1, <1>2, <2>1, <3>1, <3>2 DEF TypeOK
  <2>4. Drop(m, "conflict") \in [msg : Message, why : {"late", "conflict"}, from : Int, run : Nat]
    BY <1>1, <1>4, BoundsAssumption DEF Drop, TypeOK
  <2>5. dropped' \subseteq [msg : Message, why : {"late", "conflict"}, from : Int, run : Nat]
    BY <1>1, <1>2, <2>4 DEF TypeOK
  <2>6. watermark' \in Slots /\ arrived' \in 0..MaxMsgs
    BY <1>1, <1>2, <1>3, BoundsAssumption DEF TypeOK
  <2>7. from' = from /\ up' = up /\ run' = run /\ lost' = lost
    BY <1>2
  <2> HIDE DEF filled
  <2> QED BY <1>1, <2>2, <2>3, <2>5, <2>6, <2>7 DEF TypeOK
<1>13. OpenWindow'
  <2> SUFFICES ASSUME NEW c \in OpenChunks'
               PROVE  c \in {ChunkOf(wm) - 1, ChunkOf(wm)}
    BY <1>2 DEF OpenWindow
  <2>1. c \in Chunks /\ c \in Nat /\ c \notin due /\ filled[c] # {}
    BY <1>2, <1>7 DEF OpenChunks
  <2>2. ~(ChunkOf(wm) >= c + SealLookahead)
    BY <1>8, <2>1
  <2>3. c = idx \/ c \in OpenChunks
    BY <2>1 DEF OpenChunks
  <2>4. c =< ChunkOf(wm)
    BY <1>3, <1>11, <2>3, <2>1
  <2> QED BY <1>3, <2>1, <2>2, <2>4 DEF SealLookahead
<1>14. OpenNotOnDisk'
  <2> SUFFICES ASSUME NEW c \in OpenChunks' PROVE c \notin OnDisk'
    BY DEF OpenNotOnDisk
  <2>1. c \in Chunks /\ c \notin due /\ c \notin capped /\ filled[c] # {}
    BY <1>2 DEF OpenChunks
  <2>2. c \notin OnDisk
    BY <1>1, <2>1 DEF OpenNotOnDisk, OpenChunks, Refused
  <2> QED BY <1>2, <2>1, <2>2 DEF OnDisk
<1>15. DownIsEmpty'
  BY <1>2 DEF DownIsEmpty
<1>16. UnsealedEmpty'
  BY <1>1, <1>2 DEF UnsealedEmpty, Sealed
<1>17. \A c \in OnDisk' : c \in OnDisk \/ c \in due \/ c \in capped
  BY <1>2 DEF OnDisk
<1>18. \A c \in due \cup capped : disk'[c].run = run
  BY <1>2, <1>9 DEF Sealed
<1>19. OldRunsBelowResume' /\ BareIsOld'
  <2>1. run \in Int
    BY <1>1 DEF TypeOK
  <2>2. ASSUME NEW c \in OnDisk' PROVE disk'[c].run =< run
    BY <1>1, <1>10, <1>17, <1>18, <2>1, <2>2 DEF OldRunsBelowResume
  <2>3. ASSUME NEW c \in SealComplete', disk'[c].run < run PROVE EndSlot(c) =< from
    <3>1. c \in OnDisk' /\ c \notin due \cup capped
      BY <1>18, <2>1, <2>3 DEF OnDisk, SealComplete, Reasons
    <3>2. c \in SealComplete /\ disk'[c] = disk[c]
      BY <1>10, <1>17, <2>3, <3>1 DEF SealComplete
    <3> QED BY <1>1, <2>3, <3>2 DEF OldRunsBelowResume
  <2>4. ASSUME NEW c \in Chunks, disk'[c].reason = "bare" PROVE disk'[c].run < run
    <3>1. disk'[c] = disk[c]
      BY <1>2, <2>4 DEF Sealed
    <3> QED BY <1>1, <1>2, <2>4, <3>1 DEF BareIsOld
  <2> QED BY <1>2, <2>2, <2>3, <2>4 DEF OldRunsBelowResume, BareIsOld
<1>20. SettledBehind'
  <2> SUFFICES ASSUME Tolerance =< SlotsPerChunk, MaxOpenChunks >= 2, NEW c \in SealComplete',
                      disk'[c].run = run, disk'[c].reason # "shutdown"
               PROVE  ChunkOf(wm) >= c + SealLookahead
    BY <1>2 DEF SettledBehind
  <2>0. c \in OnDisk'
    BY DEF SealComplete, OnDisk, Reasons
  <2>1. CASE c \in OnDisk
    <3>1. ChunkOf(watermark) >= c + SealLookahead /\ c \in Nat
      BY <1>1, <1>7, <1>10, <2>1 DEF SettledBehind, OnDisk, SealComplete
    <3> QED BY <1>3, <3>1 DEF SealLookahead
  <2>2. CASE c \in due
    BY <1>8, <1>9, <2>2
  <2>3. CASE c \in capped
    BY <1>2, <2>3, CapSettles DEF wm, capped, Capped
  <2> QED BY <1>17, <2>0, <2>1, <2>2, <2>3
<1>21. RefusalsExplained'
  <2>1. Refused(idx) => disk'[idx] = disk[idx]
    BY <1>10 DEF Refused
  <2>2. \A c \in OnDisk : disk'[c] = disk[c]
    BY <1>10
  <2>3. dropped' = Dropped(slot, m)
    BY <1>2 DEF Dropped
  <2> QED BY <1>2, <2>2, <2>3, RefusalsStayExplained DEF wm, m
<1>22. CapNeverBinds'
  <2> SUFFICES ASSUME MaxOpenChunks >= 3, NEW c \in Chunks PROVE disk'[c].reason # "cap-reached"
    BY DEF CapNeverBinds
  <2>1. capped = {}
    BY <1>3, <1>11, CapSealsNothing DEF capped
  <2> QED BY <1>1, <1>2, <2>1 DEF CapNeverBinds, Sealed
<1>23. Accounted'
  <2>1. Received' = Received \cup {m}
    <3>1. ASSUME NEW x \in Received' PROVE x \in Received \cup {m}
      <4>1. CASE \E c \in Chunks : x \in open'[c]
        BY <1>2, <4>1 DEF Received
      <4>2. CASE \E c \in Chunks : x \in disk'[c].msgs
        BY <1>2, <4>2 DEF Received, Sealed
      <4>3. CASE \E d \in dropped' : x = d.msg
        BY <1>2, <4>3 DEF Received, Drop
      <4>4. CASE x \in lost'
        BY <1>2, <4>4 DEF Received
      <4> QED BY <3>1, <4>1, <4>2, <4>3, <4>4 DEF Received
    <3>2. ASSUME NEW x \in Received PROVE x \in Received'
      <4>1. ASSUME NEW c \in Chunks, x \in open[c] PROVE x \in open'[c] \cup disk'[c].msgs
        BY <1>2, <1>9, <4>1 DEF Sealed
      <4>2. ASSUME NEW c \in Chunks, x \in disk[c].msgs PROVE x \in disk'[c].msgs
        BY <1>1, <1>10, <4>2 DEF UnsealedEmpty, OnDisk
      <4>3. {d.msg : d \in dropped} \cup lost \subseteq {d.msg : d \in dropped'} \cup lost'
        BY <1>2
      <4> QED BY <3>2, <4>1, <4>2, <4>3 DEF Received
    <3>3. m \in Received'
      <4>1. CASE Refused(idx)
        <5>1. Drop(m, "conflict") \in dropped' /\ Drop(m, "conflict").msg = m
          BY <1>2, <4>1 DEF Drop
        <5>2. m \in {d.msg : d \in dropped'}
          BY <5>1
        <5> QED BY <5>2 DEF Received
      <4>2. CASE ~Refused(idx)
        <5>1. m \in filled[idx]
          BY <1>3, <1>6, <4>2
        <5>2. m \in open'[idx] \cup disk'[idx].msgs
          BY <1>2, <1>3, <5>1 DEF Sealed
        <5> QED BY <1>3, <5>2 DEF Received
      <4> QED BY <4>1, <4>2
    <3> QED BY <3>1, <3>2, <3>3
  <2>2. {x.id : x \in Received'} = 1..arrived'
    <3>1. arrived \in Nat /\ {x.id : x \in Received} = 1..arrived
      BY <1>1 DEF Accounted, TypeOK
    <3> QED BY <1>2, <1>4, <2>1, <3>1, NextArrival
  <2>3. ASSUME NEW c \in Chunks
        PROVE  /\ \A x \in open'[c] \cup disk'[c].msgs :
                    x \in open[c] \cup disk[c].msgs \/ (x = m /\ c = idx /\ ~Refused(idx))
               /\ open'[c] \cap disk'[c].msgs = {}
    <3>1. /\ open[c] \cap disk[c].msgs = {}
          /\ (c \in due \/ c \in capped => c \notin OnDisk)
      BY <1>1, <1>9 DEF Accounted
    <3>2. CASE c \in due
      BY <1>2, <3>2 DEF Sealed
    <3>3. CASE c \notin due /\ c \in capped
      BY <1>2, <3>3 DEF Sealed
    <3>4. CASE c \notin due /\ c \notin capped
      <4>1. disk'[c] = disk[c] /\ open'[c] = filled[c]
        BY <1>2, <3>4
      <4>2. filled[c] \subseteq open[c] \cup {m} /\ (m \in filled[c] => c = idx /\ ~Refused(idx))
        BY <1>5, <3>4
      <4> QED BY <1>5, <3>1, <4>1, <4>2
    <3> QED BY <3>2, <3>3, <3>4
  <2>4. ASSUME NEW c \in Chunks, NEW x \in open'[c] \cup disk'[c].msgs
        PROVE  ChunkOf(x.slot) = c
    BY <1>1, <1>4, <2>3, <2>4 DEF Accounted
  <2>5. ASSUME NEW x \in {d.msg : d \in dropped'} \cup lost'
        PROVE  x \notin open'[ChunkOf(x.slot)] \cup disk'[ChunkOf(x.slot)].msgs
    <3>1. CASE x \in {d.msg : d \in dropped} \cup lost
      <4>1. x.slot \in Slots
        BY <1>1, <3>1 DEF TypeOK, Message
      <4>2. ChunkOf(x.slot) \in Chunks /\ x # m
        BY <1>5, <3>1, <4>1, ChunksNat
      <4> QED BY <1>1, <2>3, <3>1, <4>2 DEF Accounted
    <3>2. CASE x = m /\ Refused(idx)
      BY <1>3, <1>4, <1>5, <2>3, <3>2
    <3>3. x \in {d.msg : d \in dropped} \cup lost \/ (x = m /\ Refused(idx))
      BY <1>2, <2>5 DEF Drop
    <3> QED BY <3>1, <3>2, <3>3
  <2>6. lost' \cap {d.msg : d \in dropped'} = {}
    BY <1>1, <1>2, <1>5 DEF Accounted, Drop
  <2> QED BY <2>2, <2>3, <2>4, <2>5, <2>6 DEF Accounted
<1> QED
  BY <1>12, <1>13, <1>14, <1>15, <1>16, <1>19, <1>20, <1>21, <1>22, <1>23 DEF IndInv

(***************************************************************************)
(* Sealing a set of open chunks, for idleness or at shutdown.              *)
(***************************************************************************)
LEMMA SealSetInd ==
  ASSUME IndInv, NEW S \in SUBSET OpenChunks, SealSet(S),
         UNCHANGED <<watermark, from, run, arrived, dropped, lost>>,
         up, up' \in BOOLEAN, ~up' => S = OpenChunks
  PROVE  IndInv'
<1>1. /\ TypeOK /\ OpenWindow /\ OpenNotOnDisk /\ DownIsEmpty /\ UnsealedEmpty
      /\ OldRunsBelowResume /\ BareIsOld /\ SettledBehind /\ RefusalsExplained
      /\ CapNeverBinds /\ Accounted
  BY DEF IndInv
<1>2. /\ disk' = [c \in Chunks |-> IF c \in S THEN Sealed(open[c], "shutdown") ELSE disk[c]]
      /\ open' = [c \in Chunks |-> IF c \in S THEN {} ELSE open[c]]
      /\ watermark' = watermark /\ from' = from /\ run' = run
      /\ arrived' = arrived /\ dropped' = dropped /\ lost' = lost
  BY DEF SealSet
<1>3. S \subseteq Chunks /\ \A c \in S : c \notin OnDisk
  BY <1>1 DEF OpenNotOnDisk, OpenChunks
<1>4. /\ OpenChunks' = OpenChunks \ S
      /\ OnDisk' = OnDisk \cup S
      /\ \A c \in OnDisk : disk'[c] = disk[c]
      /\ \A c \in S : /\ disk'[c].msgs = open[c] /\ disk'[c].reason = "shutdown"
                      /\ disk'[c].run = run /\ open'[c] = {}
  BY <1>2, <1>3 DEF OpenChunks, OnDisk, Sealed
<1>5. TypeOK'
  <2>1. disk' \in [Chunks -> SealedChunk]
    <3>1. \A c \in S : Sealed(open[c], "shutdown") \in SealedChunk
      BY <1>1, <1>3 DEF Sealed, SealedChunk, Reasons, TypeOK
    <3> QED BY <1>1, <1>2, <3>1 DEF TypeOK
  <2>2. open' \in [Chunks -> SUBSET Message]
    BY <1>1, <1>2 DEF TypeOK
  <2> QED BY <1>1, <1>2, <2>1, <2>2 DEF TypeOK
<1>6. OpenWindow' /\ OpenNotOnDisk' /\ DownIsEmpty'
  BY <1>1, <1>2, <1>4 DEF OpenWindow, OpenNotOnDisk, DownIsEmpty
<1>7. UnsealedEmpty' /\ CapNeverBinds'
  BY <1>1, <1>2 DEF UnsealedEmpty, CapNeverBinds, Sealed
<1>8. OldRunsBelowResume' /\ BareIsOld'
  <2>1. run \in Int
    BY <1>1 DEF TypeOK
  <2>2. ASSUME NEW c \in OnDisk' PROVE disk'[c].run =< run
    BY <1>1, <1>4, <2>1, <2>2 DEF OldRunsBelowResume
  <2>3. ASSUME NEW c \in SealComplete', disk'[c].run < run PROVE EndSlot(c) =< from
    <3>1. c \in Chunks /\ c \notin S
      BY <1>4, <2>1, <2>3 DEF SealComplete
    <3>2. c \in SealComplete /\ disk'[c] = disk[c]
      BY <1>2, <2>3, <3>1 DEF SealComplete
    <3> QED BY <1>1, <2>3, <3>2 DEF OldRunsBelowResume
  <2>4. ASSUME up', NEW c \in Chunks, disk'[c].reason = "bare" PROVE disk'[c].run < run
    <3>1. disk'[c] = disk[c]
      BY <1>2, <2>4 DEF Sealed
    <3> QED BY <1>1, <2>4, <3>1 DEF BareIsOld
  <2> QED BY <1>2, <2>2, <2>3, <2>4 DEF OldRunsBelowResume, BareIsOld
<1>9. SettledBehind'
  <2> SUFFICES ASSUME Tolerance =< SlotsPerChunk, MaxOpenChunks >= 2, NEW c \in SealComplete',
                      disk'[c].run = run, disk'[c].reason # "shutdown"
               PROVE  ChunkOf(watermark) >= c + SealLookahead
    BY <1>2 DEF SettledBehind
  <2>1. c \in SealComplete /\ disk'[c] = disk[c]
    BY <1>2, <1>4 DEF SealComplete
  <2> QED BY <1>1, <2>1 DEF SettledBehind
<1>10. RefusalsExplained'
  <2>1. \A d \in dropped : ChunkOf(d.msg.slot) \in Chunks
    BY <1>1, ChunksNat DEF TypeOK, Message
  <2>2. \A c \in Chunks : disk[c].reason \in {"shutdown", "bare"} => disk'[c] = disk[c]
    BY <1>4 DEF OnDisk
  <2> QED BY <1>1, <1>2, <2>1, <2>2 DEF RefusalsExplained
<1>11. Accounted'
  <2>1. ASSUME NEW c \in Chunks
        PROVE  /\ open'[c] \cup disk'[c].msgs = open[c] \cup disk[c].msgs
               /\ open'[c] \cap disk'[c].msgs = {}
    <3>1. CASE c \in S
      <4>1. disk[c].msgs = {}
        BY <1>1, <1>3, <3>1 DEF UnsealedEmpty, OnDisk
      <4>2. open'[c] = {} /\ disk'[c].msgs = open[c]
        BY <1>4, <3>1
      <4> QED BY <4>1, <4>2
    <3>2. CASE c \notin S
      BY <1>1, <1>2, <3>2 DEF Accounted
    <3> QED BY <3>1, <3>2
  <2>2. Received' = Received
    BY <1>2, <2>1 DEF Received
  <2>3. \A x \in {d.msg : d \in dropped} \cup lost : ChunkOf(x.slot) \in Chunks
    BY <1>1, ChunksNat DEF TypeOK, Message
  <2> QED BY <1>1, <1>2, <2>1, <2>2, <2>3 DEF Accounted
<1> QED BY <1>5, <1>6, <1>7, <1>8, <1>9, <1>10, <1>11 DEF IndInv

\* A crash empties the encoders; what they held is on the list of the lost.
LEMMA CrashInd ==
  ASSUME IndInv, Crash
  PROVE  IndInv'
<1>1. /\ TypeOK /\ OpenWindow /\ OpenNotOnDisk /\ DownIsEmpty /\ UnsealedEmpty
      /\ OldRunsBelowResume /\ BareIsOld /\ SettledBehind /\ RefusalsExplained
      /\ CapNeverBinds /\ Accounted
  BY DEF IndInv
<1>2. /\ open' = [c \in Chunks |-> {}]
      /\ lost' = lost \cup (UNION {open[c] : c \in Chunks})
      /\ disk' = disk /\ watermark' = watermark /\ from' = from /\ run' = run
      /\ arrived' = arrived /\ dropped' = dropped /\ up' = FALSE
  BY DEF Crash
<1>3. OpenChunks' = {} /\ OnDisk' = OnDisk /\ SealComplete' = SealComplete
  BY <1>2 DEF OpenChunks, OnDisk, SealComplete
<1>4. TypeOK'
  BY <1>1, <1>2 DEF TypeOK
<1>5. /\ OpenWindow' /\ OpenNotOnDisk' /\ DownIsEmpty' /\ UnsealedEmpty'
      /\ OldRunsBelowResume' /\ BareIsOld' /\ SettledBehind' /\ RefusalsExplained'
      /\ CapNeverBinds'
  BY <1>1, <1>2, <1>3
  DEF OpenWindow, OpenNotOnDisk, DownIsEmpty, UnsealedEmpty, OldRunsBelowResume, BareIsOld,
      SettledBehind, RefusalsExplained, CapNeverBinds
<1>6. Accounted'
  <2>1. Received' = Received
    BY <1>2 DEF Received
  <2>2. \A x \in lost' : x \in lost \/ \E c \in Chunks : x \in open[c]
    BY <1>2
  <2>3. \A c \in Chunks : \A x \in open[c] :
          /\ ChunkOf(x.slot) = c /\ x \notin disk[c].msgs /\ x \notin {d.msg : d \in dropped}
    BY <1>1 DEF Accounted
  <2>4. \A x \in {d.msg : d \in dropped} \cup lost' :
          ChunkOf(x.slot) \in Chunks /\ x \notin disk[ChunkOf(x.slot)].msgs
    <3>1. \A x \in {d.msg : d \in dropped} \cup lost : ChunkOf(x.slot) \in Chunks
      BY <1>1, ChunksNat DEF TypeOK, Message
    <3> QED BY <1>1, <2>2, <2>3, <3>1 DEF Accounted
  <2>5. lost' \cap {d.msg : d \in dropped} = {}
    BY <1>1, <2>2, <2>3 DEF Accounted
  <2> QED BY <1>1, <1>2, <2>1, <2>4, <2>5 DEF Accounted
<1> QED BY <1>4, <1>5, <1>6 DEF IndInv

(***************************************************************************)
(* A handler that ends early.  H is what the encoders held with the        *)
(* message if it was appended, N the chunks that got a final file and why  *)
(* what it says, inHand and refused the message if it was not appended.    *)
(***************************************************************************)
CutTo(H, N, why, inHand, refused) ==
  /\ H \in [Chunks -> SUBSET Message] /\ N \in SUBSET Chunks
  /\ why \in [Chunks -> Reasons \cup {"bare"}]
  /\ inHand \in SUBSET Message /\ refused \in SUBSET Message
  /\ \A c \in Chunks : open[c] \subseteq H[c] /\ (H[c] # {} => c \notin OnDisk)
  /\ \A c \in N : H[c] # {}
  /\ up' = FALSE /\ from' = from /\ run' = run
  /\ open' = [c \in Chunks |-> {}]
  /\ disk' = [c \in Chunks |-> IF c \in N THEN Sealed(H[c], why[c]) ELSE disk[c]]
  /\ lost' = lost \cup inHand \cup UNION {H[c] : c \in Chunks \ N}
  /\ {d.msg : d \in dropped'} = {d.msg : d \in dropped} \cup refused
  /\ dropped' \subseteq [msg : Message, why : {"late", "conflict"}, from : Int, run : Nat]
  /\ RefusalsExplained'
  /\ watermark' \in Slots \cup {NoSlot} /\ arrived' \in 0..MaxMsgs
  /\ ChunkOf(watermark) \in Int /\ ChunkOf(watermark') \in Int
  /\ ChunkOf(watermark) =< ChunkOf(watermark')
  /\ (Tolerance =< SlotsPerChunk /\ MaxOpenChunks >= 2) =>
       \A c \in N : why[c] \notin {"shutdown", "bare"} => ChunkOf(watermark') >= c + SealLookahead
  /\ MaxOpenChunks >= 3 => \A c \in N : why[c] # "cap-reached"
  /\ \A c \in Chunks : \A x \in H[c] :
       /\ ChunkOf(x.slot) = c
       /\ x \notin lost \cup inHand \cup refused \cup {d.msg : d \in dropped}
  /\ \A x \in inHand \cup refused : x \notin Received
  /\ inHand \cap refused = {}
  /\ {x.id : x \in Received \cup inHand \cup refused \cup UNION {H[c] : c \in Chunks}} = 1..arrived'

\* A handler that ends early preserves the inductive invariant.
LEMMA CutInd ==
  ASSUME IndInv, NEW H, NEW N, NEW why, NEW inHand, NEW refused,
         CutTo(H, N, why, inHand, refused)
  PROVE  IndInv' /\ \A c \in OnDisk : disk'[c] = disk[c]
<1> USE DEF CutTo
<1>1. /\ TypeOK /\ OpenWindow /\ OpenNotOnDisk /\ DownIsEmpty /\ UnsealedEmpty
      /\ OldRunsBelowResume /\ BareIsOld /\ SettledBehind /\ RefusalsExplained
      /\ CapNeverBinds /\ Accounted
  BY DEF IndInv
<1>2. /\ \A c \in N : /\ disk'[c].msgs = H[c] /\ disk'[c].reason = why[c] /\ disk'[c].run = run
                      /\ c \notin OnDisk /\ why[c] # "none"
      /\ \A c \in Chunks \ N : disk'[c] = disk[c]
  BY DEF Sealed, Reasons
<1>3. OpenChunks' = {}
  BY DEF OpenChunks
<1>4. TypeOK'
  <2>1. disk' \in [Chunks -> SealedChunk]
    <3>1. \A c \in N : Sealed(H[c], why[c]) \in SealedChunk
      BY <1>1 DEF Sealed, SealedChunk, TypeOK
    <3> QED BY <1>1, <3>1 DEF TypeOK
  <2>2. lost' \subseteq Message /\ open' \in [Chunks -> SUBSET Message] /\ up' \in BOOLEAN
    <3>1. lost \subseteq Message /\ \A c \in Chunks : H[c] \subseteq Message
      BY <1>1 DEF TypeOK
    <3>2. UNION {H[c] : c \in Chunks \ N} \subseteq Message
      BY <3>1
    <3> QED BY <3>1, <3>2
  <2>3. from' \in Int /\ run' \in 1..MaxRuns
    BY <1>1 DEF TypeOK
  <2> QED BY <2>1, <2>2, <2>3 DEF TypeOK
<1>5. OpenWindow' /\ OpenNotOnDisk' /\ DownIsEmpty' /\ BareIsOld'
  BY <1>3 DEF OpenWindow, OpenNotOnDisk, DownIsEmpty, BareIsOld
<1>6. UnsealedEmpty' /\ CapNeverBinds'
  BY <1>1, <1>2 DEF UnsealedEmpty, CapNeverBinds
<1>7. OldRunsBelowResume'
  <2>1. run \in Int
    BY <1>1 DEF TypeOK
  <2>2. ASSUME NEW c \in OnDisk' PROVE disk'[c].run =< run
    <3>1. CASE c \in N
      <4>1. disk'[c].run = run
        BY <1>2, <3>1, Zenon
      <4>2. run =< run
        BY <2>1
      <4> QED BY <4>1, <4>2, Zenon
    <3>2. CASE c \notin N
      <4>1. c \in OnDisk /\ disk'[c] = disk[c]
        BY <1>2, <2>2, <3>2 DEF OnDisk
      <4> QED BY <1>1, <4>1 DEF OldRunsBelowResume
    <3> QED BY <3>1, <3>2
  <2>3. ASSUME NEW c \in SealComplete', disk'[c].run < run PROVE EndSlot(c) =< from
    <3>0. c \in Chunks /\ ~(run < run)
      BY <2>1, <2>3 DEF SealComplete
    <3>1. c \notin N
      BY <1>2, <2>3, <3>0, Zenon
    <3>2. c \in SealComplete /\ disk'[c] = disk[c]
      BY <1>2, <2>3, <3>1 DEF SealComplete
    <3> QED BY <1>1, <2>3, <3>2 DEF OldRunsBelowResume
  <2>4. from' = from /\ run' = run
    OBVIOUS
  <2> HIDE DEF CutTo
  <2> QED BY <2>2, <2>3, <2>4 DEF OldRunsBelowResume
<1>8. SettledBehind'
  <2> SUFFICES ASSUME Tolerance =< SlotsPerChunk, MaxOpenChunks >= 2, NEW c \in SealComplete',
                      disk'[c].run = run, disk'[c].reason # "shutdown"
               PROVE  ChunkOf(watermark') >= c + SealLookahead
    BY DEF SettledBehind
  <2>1. c \in Chunks /\ c \in Nat /\ disk'[c].reason # "bare"
    BY ChunksNat DEF SealComplete, Reasons
  <2>2. CASE c \in N
    BY <1>2, <2>1, <2>2
  <2>3. CASE c \notin N
    <3>1. c \in SealComplete /\ disk'[c] = disk[c]
      BY <1>2, <2>1, <2>3 DEF SealComplete
    <3>2. ChunkOf(watermark) >= c + SealLookahead
      BY <1>1, <3>1 DEF SettledBehind
    <3> QED BY <2>1, <3>2 DEF SealLookahead
  <2> QED BY <2>2, <2>3
<1>9. Accounted'
  <2>1. \A c \in Chunks : open'[c] = {}
    OBVIOUS
  <2>2. \A c \in N : disk[c].msgs = {}
    BY <1>1, <1>2 DEF UnsealedEmpty, OnDisk
  <2>3. Received' = Received \cup inHand \cup refused \cup UNION {H[c] : c \in Chunks}
    <3>1. ASSUME NEW x \in Received'
          PROVE  x \in Received \cup inHand \cup refused \cup UNION {H[c] : c \in Chunks}
      <4>1. \/ \E c \in Chunks : x \in disk'[c].msgs
            \/ x \in {d.msg : d \in dropped} \cup refused
            \/ x \in lost'
        BY <2>1, <3>1 DEF Received
      <4>2. ASSUME NEW c \in Chunks, x \in disk'[c].msgs
            PROVE  x \in Received \cup inHand \cup refused \cup UNION {H[b] : b \in Chunks}
        <5>1. CASE c \in N
          BY <1>2, <4>2, <5>1
        <5>2. CASE c \notin N
          <6>1. x \in disk[c].msgs
            BY <1>2, <4>2, <5>2
          <6> QED BY <6>1 DEF Received
        <5> QED BY <5>1, <5>2
      <4>3. CASE x \in {d.msg : d \in dropped} \cup refused
        BY <4>3 DEF Received
      <4>4. CASE x \in lost'
        BY <4>4 DEF Received
      <4> QED BY <4>1, <4>2, <4>3, <4>4
    <3>2. ASSUME NEW x \in Received \cup inHand \cup refused \cup UNION {H[c] : c \in Chunks}
          PROVE  x \in Received'
      <4>1. ASSUME NEW c \in Chunks, x \in H[c] PROVE x \in disk'[c].msgs \cup lost'
        <5>1. CASE c \in N
          BY <1>2, <4>1, <5>1
        <5>2. CASE c \notin N
          <6>1. x \in UNION {H[b] : b \in Chunks \ N}
            BY <4>1, <5>2
          <6> QED BY <6>1
        <5> QED BY <5>1, <5>2
      <4>2. ASSUME NEW c \in Chunks, x \in open[c] PROVE x \in disk'[c].msgs \cup lost'
        BY <4>1, <4>2
      <4>3. ASSUME NEW c \in Chunks, x \in disk[c].msgs PROVE x \in disk'[c].msgs
        BY <1>2, <2>2, <4>3
      <4>4. ASSUME x \in {d.msg : d \in dropped} \cup refused PROVE x \in {d.msg : d \in dropped'}
        BY <4>4
      <4>5. lost \cup inHand \subseteq lost'
        OBVIOUS
      <4> QED BY <3>2, <4>1, <4>2, <4>3, <4>4, <4>5 DEF Received
    <3> QED BY <3>1, <3>2
  <2>4. \A c \in Chunks : \A x \in disk'[c].msgs : ChunkOf(x.slot) = c
    BY <1>1, <1>2 DEF Accounted
  <2>5. \A x \in {d.msg : d \in dropped'} \cup lost' : ChunkOf(x.slot) \in Chunks
    <3>1. \A x \in {d.msg : d \in dropped'} \cup lost' : x.slot \in Slots
      BY <1>4 DEF TypeOK, Message
    <3> QED BY <3>1, ChunksNat
  <2>6. ASSUME NEW x \in {d.msg : d \in dropped'} \cup lost'
        PROVE  x \notin disk'[ChunkOf(x.slot)].msgs
    <3> DEFINE c == ChunkOf(x.slot)
    <3>1. c \in Chunks
      BY <2>5
    <3>2. CASE x \in lost \cup {d.msg : d \in dropped}
      BY <1>1, <1>2, <3>1, <3>2 DEF Accounted
    <3>3. CASE x \in inHand \cup refused
      <4>1. x \notin disk[c].msgs
        BY <3>1, <3>3 DEF Received
      <4> QED BY <1>2, <3>1, <3>3, <4>1
    <3>4. CASE \E b \in Chunks \ N : x \in H[b]
      <4>1. c \notin N /\ x \in H[c]
        BY <3>4
      <4>2. c \notin OnDisk
        BY <3>1, <4>1
      <4>3. disk'[c].msgs = {}
        BY <1>1, <1>2, <3>1, <4>1, <4>2 DEF UnsealedEmpty, OnDisk
      <4> QED BY <4>3
    <3> QED BY <2>6, <3>2, <3>3, <3>4
  <2>7. lost' \cap {d.msg : d \in dropped'} = {}
    <3>1. \A x \in lost : x \notin {d.msg : d \in dropped} \cup refused
      BY <1>1 DEF Accounted, Received
    <3>2. \A x \in inHand : x \notin {d.msg : d \in dropped} \cup refused
      BY DEF Received
    <3> QED BY <3>1, <3>2
  <2> QED BY <2>1, <2>3, <2>4, <2>5, <2>6, <2>7 DEF Accounted
<1>10. RefusalsExplained' /\ \A c \in OnDisk : disk'[c] = disk[c]
  BY <1>2 DEF OnDisk
<1> QED BY <1>4, <1>5, <1>6, <1>7, <1>8, <1>9, <1>10 DEF IndInv

\* What ingest closes for the cap: open chunks, none of them on disk.
LEMMA CappedFacts ==
  ASSUME IndInv, NEW slot \in Slots
  PROVE  /\ Capped(slot) \subseteq OpenChunks /\ Capped(slot) \subseteq Chunks
         /\ ChunkOf(slot) \notin Capped(slot)
         /\ \A c \in Capped(slot) : open[c] # {} /\ c \notin OnDisk
         /\ MaxOpenChunks >= 3 => Capped(slot) = {}
<1>1. TypeOK /\ OpenWindow /\ OpenNotOnDisk
  BY DEF IndInv
<1>2. Capped(slot) \subseteq OpenChunks /\ ChunkOf(slot) \notin Capped(slot)
  BY DEF Capped, CapSealed, OpenChunks
<1>3. \A c \in Capped(slot) : c \in Chunks /\ open[c] # {} /\ c \notin OnDisk
  BY <1>1, <1>2 DEF OpenNotOnDisk, OpenChunks
<1>4. ASSUME MaxOpenChunks >= 3 PROVE Capped(slot) = {}
  <2>1. ChunkOf(watermark) \in Int
    BY <1>1, AdvanceFacts
  <2>2. OpenChunks \subseteq {ChunkOf(watermark) - 1, ChunkOf(watermark)}
    BY <1>1 DEF OpenWindow
  <2>3. CapSealed(OpenChunks) = {}
    BY <1>4, <2>1, <2>2, CapSealsNothing
  <2> QED BY <2>3 DEF Capped
<1> QED BY <1>2, <1>3, <1>4

(***************************************************************************)
(* What the encoders hold is nowhere else, in its own chunk, and not on    *)
(* disk; so is a message that just arrived.                                *)
(***************************************************************************)
LEMMA HeldFacts ==
  ASSUME IndInv
  PROVE  /\ \A c \in Chunks : open[c] # {} => c \notin OnDisk
         /\ open \in [Chunks -> SUBSET Message]
         /\ \A c \in Chunks : \A x \in open[c] :
              ChunkOf(x.slot) = c /\ x \notin lost \cup {d.msg : d \in dropped} /\ x \in Received
         /\ {x.id : x \in Received \cup UNION {open[c] : c \in Chunks}} = 1..arrived
<1>1. /\ TypeOK /\ OpenNotOnDisk /\ Accounted
  BY DEF IndInv
<1>2. Received \cup UNION {open[c] : c \in Chunks} = Received
  BY DEF Received
<1>3. \A c \in Chunks : \A x \in open[c] : x \in Received
  BY DEF Received
<1> QED BY <1>1, <1>2, <1>3 DEF TypeOK, OpenNotOnDisk, OpenChunks, Accounted

\* What a message in hand is when ingest ends.
LEMMA IngestCutFacts ==
  ASSUME IndInv, arrived < MaxMsgs, NEW slot \in Slots
  PROVE  LET m == [id |-> arrived + 1, slot |-> slot]
             wm == Advance(watermark, slot)
         IN  /\ m \in Message /\ m.slot = slot /\ m \notin Received
             /\ arrived + 1 \in 0..MaxMsgs
             /\ {x.id : x \in Received \cup {m}} = 1..(arrived + 1)
             /\ wm \in Slots /\ ChunkOf(watermark) \in Int /\ ChunkOf(wm) \in Int
             /\ ChunkOf(watermark) =< ChunkOf(wm) /\ ChunkOf(slot) \in Chunks
<1> DEFINE m == [id |-> arrived + 1, slot |-> slot]
           wm == Advance(watermark, slot)
<1>1. TypeOK /\ Accounted
  BY DEF IndInv
<1>2. m \in Message /\ m.slot = slot /\ m.id = arrived + 1 /\ m \notin Received
  BY <1>1, BoundsAssumption, FreshMessage DEF TypeOK, Message
<1>3. arrived \in Nat /\ arrived + 1 \in 0..MaxMsgs
  BY <1>1, BoundsAssumption DEF TypeOK
<1>4. /\ wm \in Slots /\ ChunkOf(watermark) \in Int /\ ChunkOf(wm) \in Int
      /\ ChunkOf(watermark) =< ChunkOf(wm) /\ ChunkOf(slot) \in Chunks
  BY <1>1, AdvanceFacts
<1> HIDE DEF m, wm
<1>5. {x.id : x \in Received \cup {m}} = 1..(arrived + 1)
  BY <1>1, <1>2, <1>3, NextArrival DEF Accounted
<1> QED BY <1>2, <1>3, <1>4, <1>5 DEF m, wm

\* Ingest cut short by a seal for the cap, with the message in hand.
LEMMA IngestCutByCapInd ==
  ASSUME IndInv, NEW slot \in Slots, IngestCutByCap(slot)
  PROVE  IndInv' /\ \A c \in OnDisk : disk'[c] = disk[c]
<1> DEFINE m == [id |-> arrived + 1, slot |-> slot]
           wm == Advance(watermark, slot)
<1>1. /\ up /\ arrived < MaxMsgs /\ ~TooLate(slot, wm) /\ arrived' = arrived + 1
      /\ watermark' = wm /\ from' = from /\ run' = run /\ dropped' = dropped
      /\ CutShort(disk, open, Capped(slot), "cap-reached", {m})
  BY DEF IngestCutByCap
<1>2. PICK cut \in Capped(slot), named \in BOOLEAN :
        LET done == {c \in Capped(slot) : c < cut}
            bare == IF named THEN {cut} ELSE {}
        IN  /\ up' = FALSE
            /\ open' = [c \in Chunks |-> {}]
            /\ disk' = [c \in Chunks |->
                          IF c \in done THEN Sealed(open[c], "cap-reached")
                          ELSE IF c \in bare THEN Sealed(open[c], "bare")
                          ELSE disk[c]]
            /\ lost' = lost \cup {m} \cup UNION {open[c] : c \in Chunks \ (done \cup bare)}
  BY <1>1 DEF CutShort
<1> DEFINE done == {c \in Capped(slot) : c < cut}
           bare == IF named THEN {cut} ELSE {}
           N == done \cup bare
           why == [c \in Chunks |-> IF c \in done THEN "cap-reached" ELSE "bare"]
<1>3. /\ N \in SUBSET Chunks /\ N \subseteq Capped(slot)
      /\ \A c \in N : open[c] # {}
      /\ MaxOpenChunks >= 3 => N = {}
  BY CappedFacts
<1>4. why \in [Chunks -> Reasons \cup {"bare"}]
  BY DEF Reasons
<1>5. /\ disk' = [c \in Chunks |-> IF c \in N THEN Sealed(open[c], why[c]) ELSE disk[c]]
      /\ lost' = lost \cup {m} \cup UNION {open[c] : c \in Chunks \ N}
      /\ up' = FALSE /\ open' = [c \in Chunks |-> {}]
  BY <1>2
<1>6. /\ m \in Message /\ m \notin Received /\ arrived + 1 \in 0..MaxMsgs
      /\ {x.id : x \in Received \cup {m}} = 1..(arrived + 1)
      /\ wm \in Slots /\ ChunkOf(watermark) \in Int /\ ChunkOf(wm) \in Int
      /\ ChunkOf(watermark) =< ChunkOf(wm)
  BY <1>1, IngestCutFacts
<1>7. /\ \A c \in Chunks : open[c] # {} => c \notin OnDisk
      /\ open \in [Chunks -> SUBSET Message]
      /\ \A c \in Chunks : \A x \in open[c] :
           ChunkOf(x.slot) = c /\ x \notin lost \cup {d.msg : d \in dropped} /\ x \in Received
  BY HeldFacts
<1>8. (Tolerance =< SlotsPerChunk /\ MaxOpenChunks >= 2) =>
        \A c \in N : ChunkOf(wm) >= c + SealLookahead
  BY <1>1, <1>3, CapSettles
<1>9. RefusalsExplained'
  <2>1. \A c \in OnDisk : disk'[c] = disk[c]
    BY <1>3, <1>5, CappedFacts DEF OnDisk
  <2> QED BY <1>1, <2>1, RefusalsStayExplained
<1>10. dropped' \subseteq [msg : Message, why : {"late", "conflict"}, from : Int, run : Nat]
  BY <1>1 DEF IndInv, TypeOK
<1> HIDE DEF m, wm, N
<1>11. \A c \in Chunks : \A x \in open[c] :
        ChunkOf(x.slot) = c /\ x \notin lost \cup {m} \cup {} \cup {d.msg : d \in dropped}
  BY <1>6, <1>7
<1>12. Received \cup {m} \cup {} \cup UNION {open[c] : c \in Chunks} = Received \cup {m}
  BY <1>7
<1>13. MaxOpenChunks >= 3 => \A c \in N : why[c] # "cap-reached"
  BY <1>3
<1> HIDE DEF why
<1>14. CutTo(open, N, why, {m}, {})
  BY <1>1, <1>3, <1>4, <1>5, <1>6, <1>7, <1>8, <1>9, <1>10, <1>11, <1>12, <1>13 DEF CutTo
<1> QED BY <1>14, CutInd

\* Ingest that fails to open a chunk or to append to it.
LEMMA IngestFailsInd ==
  ASSUME IndInv, NEW slot \in Slots, IngestFails(slot)
  PROVE  IndInv' /\ \A c \in OnDisk : disk'[c] = disk[c]
<1> DEFINE m == [id |-> arrived + 1, slot |-> slot]
           wm == Advance(watermark, slot)
           N == Capped(slot)
           why == [c \in Chunks |-> "cap-reached"]
<1>1. /\ up /\ arrived < MaxMsgs /\ ~TooLate(slot, wm) /\ arrived' = arrived + 1
      /\ watermark' = wm /\ from' = from /\ run' = run /\ dropped' = dropped
      /\ up' = FALSE /\ open' = [c \in Chunks |-> {}]
      /\ lost' = lost \cup {m} \cup UNION {open[c] : c \in Chunks \ N}
      /\ disk' = [c \in Chunks |-> IF c \in N THEN Sealed(open[c], why[c]) ELSE disk[c]]
  BY DEF IngestFails, CapDisk
<1>2. /\ N \in SUBSET Chunks /\ \A c \in N : open[c] # {}
      /\ MaxOpenChunks >= 3 => N = {}
  BY CappedFacts
<1>3. why \in [Chunks -> Reasons \cup {"bare"}]
  BY DEF Reasons
<1>4. /\ m \in Message /\ m \notin Received /\ arrived + 1 \in 0..MaxMsgs
      /\ {x.id : x \in Received \cup {m}} = 1..(arrived + 1)
      /\ wm \in Slots /\ ChunkOf(watermark) \in Int /\ ChunkOf(wm) \in Int
      /\ ChunkOf(watermark) =< ChunkOf(wm)
  BY <1>1, IngestCutFacts
<1>5. /\ \A c \in Chunks : open[c] # {} => c \notin OnDisk
      /\ open \in [Chunks -> SUBSET Message]
      /\ \A c \in Chunks : \A x \in open[c] :
           ChunkOf(x.slot) = c /\ x \notin lost \cup {d.msg : d \in dropped} /\ x \in Received
  BY HeldFacts
<1>6. (Tolerance =< SlotsPerChunk /\ MaxOpenChunks >= 2) =>
        \A c \in N : ChunkOf(wm) >= c + SealLookahead
  BY <1>1, CapSettles
<1>7. RefusalsExplained'
  <2>1. \A c \in OnDisk : disk'[c] = disk[c]
    BY <1>1, CappedFacts DEF OnDisk
  <2> QED BY <1>1, <2>1, RefusalsStayExplained
<1>8. dropped' \subseteq [msg : Message, why : {"late", "conflict"}, from : Int, run : Nat]
  BY <1>1 DEF IndInv, TypeOK
<1> HIDE DEF m, wm, N, why
<1>9. \A c \in Chunks : \A x \in open[c] :
        ChunkOf(x.slot) = c /\ x \notin lost \cup {m} \cup {} \cup {d.msg : d \in dropped}
  BY <1>4, <1>5
<1>10. Received \cup {m} \cup {} \cup UNION {open[c] : c \in Chunks} = Received \cup {m}
  BY <1>5
<1>11. CutTo(open, N, why, {m}, {})
  BY <1>1, <1>2, <1>3, <1>4, <1>5, <1>6, <1>7, <1>8, <1>9, <1>10 DEF CutTo
<1> QED BY <1>11, CutInd

\* A tick or a shutdown that ends inside a seal.
LEMMA SealSetCutInd ==
  ASSUME IndInv, NEW S \in SUBSET OpenChunks, SealSetCut(S)
  PROVE  IndInv' /\ \A c \in OnDisk : disk'[c] = disk[c]
<1>1. /\ up /\ watermark' = watermark /\ from' = from /\ run' = run /\ arrived' = arrived
      /\ dropped' = dropped /\ CutShort(disk, open, S, "shutdown", {})
  BY DEF SealSetCut
<1>2. PICK cut \in S, named \in BOOLEAN :
        LET done == {c \in S : c < cut}
            bare == IF named THEN {cut} ELSE {}
        IN  /\ up' = FALSE
            /\ open' = [c \in Chunks |-> {}]
            /\ disk' = [c \in Chunks |->
                          IF c \in done THEN Sealed(open[c], "shutdown")
                          ELSE IF c \in bare THEN Sealed(open[c], "bare")
                          ELSE disk[c]]
            /\ lost' = lost \cup {} \cup UNION {open[c] : c \in Chunks \ (done \cup bare)}
  BY <1>1 DEF CutShort
<1> DEFINE done == {c \in S : c < cut}
           bare == IF named THEN {cut} ELSE {}
           N == done \cup bare
           why == [c \in Chunks |-> IF c \in done THEN "shutdown" ELSE "bare"]
<1>3. N \in SUBSET Chunks /\ \A c \in N : open[c] # {}
  BY DEF OpenChunks
<1>4. why \in [Chunks -> Reasons \cup {"bare"}] /\ \A c \in N : why[c] \in {"shutdown", "bare"}
  BY <1>3 DEF Reasons
<1>5. /\ disk' = [c \in Chunks |-> IF c \in N THEN Sealed(open[c], why[c]) ELSE disk[c]]
      /\ lost' = lost \cup {} \cup UNION {open[c] : c \in Chunks \ N}
      /\ up' = FALSE /\ open' = [c \in Chunks |-> {}]
  BY <1>2
<1>6. /\ TypeOK /\ RefusalsExplained
  BY DEF IndInv
<1>7. /\ \A c \in Chunks : open[c] # {} => c \notin OnDisk
      /\ open \in [Chunks -> SUBSET Message]
      /\ \A c \in Chunks : \A x \in open[c] :
           ChunkOf(x.slot) = c /\ x \notin lost \cup {d.msg : d \in dropped} /\ x \in Received
      /\ {x.id : x \in Received \cup UNION {open[c] : c \in Chunks}} = 1..arrived
  BY HeldFacts
<1>8. watermark \in Slots \cup {NoSlot} /\ ChunkOf(watermark) \in Int /\ arrived \in 0..MaxMsgs
  <2>1. watermark \in Int
    BY <1>6, PolicyAssumption DEF TypeOK, NoSlot
  <2> QED BY <1>6, <2>1, ChunkInterval DEF TypeOK
<1> HIDE DEF N, why
<1>9. RefusalsExplained'
  <2>1. \A d \in dropped : ChunkOf(d.msg.slot) \in Chunks
    BY <1>6, ChunksNat DEF TypeOK, Message
  <2>2. \A c \in Chunks : disk[c].reason \in {"shutdown", "bare"} => disk'[c] = disk[c]
    BY <1>3, <1>5, <1>7 DEF OnDisk
  <2> QED BY <1>1, <1>6, <2>1, <2>2 DEF RefusalsExplained
<1>10. dropped' \subseteq [msg : Message, why : {"late", "conflict"}, from : Int, run : Nat]
  BY <1>1, <1>6 DEF TypeOK
<1>11. Received \cup {} \cup {} \cup UNION {open[c] : c \in Chunks}
         = Received \cup UNION {open[c] : c \in Chunks}
  OBVIOUS
<1>12. CutTo(open, N, why, {}, {})
  BY <1>1, <1>3, <1>4, <1>5, <1>7, <1>8, <1>9, <1>10, <1>11 DEF CutTo
<1> QED BY <1>12, CutInd

\* Ingest cut short by a seal for the watermark, with the message appended or refused.
LEMMA IngestCutByWatermarkInd ==
  ASSUME IndInv, NEW slot \in Slots, IngestCutByWatermark(slot)
  PROVE  IndInv' /\ \A c \in OnDisk : disk'[c] = disk[c]
<1> DEFINE m == [id |-> arrived + 1, slot |-> slot]
           wm == Advance(watermark, slot)
           idx == ChunkOf(slot)
           capped == Capped(slot)
           due == Due(slot, m)
           F == Filled(slot, m)
           H == [c \in Chunks |-> IF c = idx /\ ~Refused(idx) THEN open[c] \cup {m} ELSE open[c]]
           refused == IF Refused(idx) THEN {m} ELSE {}
<1>1. /\ up /\ arrived < MaxMsgs /\ ~TooLate(slot, wm) /\ arrived' = arrived + 1
      /\ watermark' = wm /\ from' = from /\ run' = run /\ dropped' = Dropped(slot, m)
      /\ CutShort(CapDisk(slot), F, due, "watermark", {})
  BY DEF IngestCutByWatermark
<1>2. PICK cut \in due, named \in BOOLEAN :
        LET done == {c \in due : c < cut}
            bare == IF named THEN {cut} ELSE {}
        IN  /\ up' = FALSE
            /\ open' = [c \in Chunks |-> {}]
            /\ disk' = [c \in Chunks |->
                          IF c \in done THEN Sealed(F[c], "watermark")
                          ELSE IF c \in bare THEN Sealed(F[c], "bare")
                          ELSE CapDisk(slot)[c]]
            /\ lost' = lost \cup {} \cup UNION {F[c] : c \in Chunks \ (done \cup bare)}
  BY <1>1 DEF CutShort
<1> DEFINE done == {c \in due : c < cut}
           bare == IF named THEN {cut} ELSE {}
           N == capped \cup done \cup bare
           why == [c \in Chunks |-> IF c \in capped THEN "cap-reached"
                                     ELSE IF c \in done THEN "watermark" ELSE "bare"]
<1>3. /\ m \in Message /\ m.slot = slot /\ m \notin Received /\ arrived + 1 \in 0..MaxMsgs
      /\ {x.id : x \in Received \cup {m}} = 1..(arrived + 1)
      /\ wm \in Slots /\ ChunkOf(watermark) \in Int /\ ChunkOf(wm) \in Int
      /\ ChunkOf(watermark) =< ChunkOf(wm) /\ idx \in Chunks
  BY <1>1, IngestCutFacts
<1>4. /\ \A c \in Chunks : open[c] # {} => c \notin OnDisk
      /\ open \in [Chunks -> SUBSET Message]
      /\ \A c \in Chunks : \A x \in open[c] :
           ChunkOf(x.slot) = c /\ x \notin lost \cup {d.msg : d \in dropped} /\ x \in Received
  BY HeldFacts
<1>5. /\ capped \subseteq Chunks /\ idx \notin capped
      /\ \A c \in capped : open[c] # {} /\ c \notin OnDisk
      /\ MaxOpenChunks >= 3 => capped = {}
  BY CappedFacts
<1> HIDE DEF m, wm, capped, done, bare
<1>6. \A c \in Chunks : F[c] = IF c \in capped THEN {} ELSE H[c]
  BY DEF Filled, capped
<1> HIDE DEF F
<1>7. \A c \in due : c \in Chunks /\ F[c] # {} /\ ChunkOf(wm) >= c + SealLookahead
  BY DEF Due, WatermarkSealed, F, wm
<1> HIDE DEF due
<1>8. done \subseteq due /\ bare \subseteq due
  BY DEF done, bare
<1>9. \A c \in done \cup bare : c \notin capped /\ H[c] # {} /\ c \in Chunks /\ F[c] = H[c]
  BY <1>6, <1>7, <1>8
<1>10. /\ \A c \in Chunks : open[c] \subseteq H[c] /\ (H[c] # {} => c \notin OnDisk)
       /\ H \in [Chunks -> SUBSET Message]
  BY <1>3, <1>4 DEF Refused
<1>11. /\ N \in SUBSET Chunks /\ \A c \in N : H[c] # {}
  BY <1>5, <1>9
<1>12. /\ why \in [Chunks -> Reasons \cup {"bare"}]
       /\ \A c \in N : /\ why[c] = "cap-reached" => c \in capped
                       /\ why[c] = "watermark" => c \in due
  BY <1>8, <1>11 DEF Reasons
<1>13. disk' = [c \in Chunks |-> IF c \in N THEN Sealed(H[c], why[c]) ELSE disk[c]]
  <2> DEFINE goal == [c \in Chunks |-> IF c \in N THEN Sealed(H[c], why[c]) ELSE disk[c]]
  <2>1. disk' = [c \in Chunks |->
                   IF c \in done THEN Sealed(F[c], "watermark")
                   ELSE IF c \in bare THEN Sealed(F[c], "bare")
                   ELSE CapDisk(slot)[c]]
    BY <1>2 DEF done, bare
  <2>2. ASSUME NEW c \in Chunks PROVE disk'[c] = goal[c]
    <3>1. CASE c \in done
      BY <1>9, <2>1, <3>1
    <3>2. CASE c \notin done /\ c \in bare
      BY <1>9, <2>1, <3>2
    <3>3. CASE c \notin done /\ c \notin bare /\ c \in capped
      <4>1. H[c] = open[c]
        BY <1>5, <3>3
      <4> QED BY <2>1, <3>3, <4>1 DEF CapDisk, capped
    <3>4. CASE c \notin N
      BY <2>1, <3>4 DEF CapDisk, capped
    <3> QED BY <3>1, <3>2, <3>3, <3>4
  <2> HIDE DEF N, why, H
  <2> QED BY <2>1, <2>2
<1>14. lost' = lost \cup {} \cup UNION {H[c] : c \in Chunks \ N} /\ up' = FALSE
        /\ open' = [c \in Chunks |-> {}]
  <2>1. lost' = lost \cup {} \cup UNION {F[c] : c \in Chunks \ (done \cup bare)} /\ up' = FALSE
        /\ open' = [c \in Chunks |-> {}]
    BY <1>2 DEF done, bare
  <2>2. \A c \in Chunks \ N : c \notin done \cup bare /\ F[c] = H[c]
    BY <1>6
  <2>3. \A c \in Chunks \ (done \cup bare) : F[c] = {} \/ (c \notin N /\ F[c] = H[c])
    BY <1>6
  <2> HIDE DEF N, H
  <2>4. UNION {F[c] : c \in Chunks \ (done \cup bare)} \subseteq UNION {H[c] : c \in Chunks \ N}
    BY <2>3
  <2>5. UNION {H[c] : c \in Chunks \ N} \subseteq UNION {F[c] : c \in Chunks \ (done \cup bare)}
    BY <2>2
  <2> QED BY <2>1, <2>4, <2>5
<1>15. (Tolerance =< SlotsPerChunk /\ MaxOpenChunks >= 2) =>
         \A c \in N : why[c] \notin {"shutdown", "bare"} => ChunkOf(wm) >= c + SealLookahead
  <2>1. (Tolerance =< SlotsPerChunk /\ MaxOpenChunks >= 2) =>
          \A c \in capped : ChunkOf(wm) >= c + SealLookahead
    BY <1>1, CapSettles DEF wm, capped
  <2>2. \A c \in N : why[c] \in {"cap-reached", "watermark", "bare"}
    BY <1>11
  <2> HIDE DEF N, why
  <2>3. ASSUME NEW c \in N, why[c] \notin {"shutdown", "bare"} PROVE c \in capped \/ c \in due
    BY <1>12, <2>2, <2>3
  <2> QED BY <1>7, <2>1, <2>3
<1>16. MaxOpenChunks >= 3 => \A c \in N : why[c] # "cap-reached"
  <2> HIDE DEF N, why
  <2> QED BY <1>5, <1>12
<1>17. RefusalsExplained'
  <2>1. \A c \in OnDisk : c \in Chunks /\ c \notin N
    BY <1>10, <1>11 DEF OnDisk
  <2>2. \A c \in OnDisk : disk'[c] = disk[c]
    <3> HIDE DEF N, why, H
    <3> QED BY <1>13, <2>1
  <2> QED BY <1>1, <2>2, RefusalsStayExplained DEF m, wm
<1>18. /\ dropped' \subseteq [msg : Message, why : {"late", "conflict"}, from : Int, run : Nat]
       /\ {d.msg : d \in dropped'} = {d.msg : d \in dropped} \cup refused
  <2>1. /\ Drop(m, "conflict") \in [msg : Message, why : {"late", "conflict"}, from : Int, run : Nat]
        /\ Drop(m, "conflict").msg = m
        /\ dropped \subseteq [msg : Message, why : {"late", "conflict"}, from : Int, run : Nat]
    BY <1>3, BoundsAssumption DEF Drop, IndInv, TypeOK
  <2>2. dropped' = IF Refused(idx) THEN dropped \cup {Drop(m, "conflict")} ELSE dropped
    BY <1>1 DEF Dropped
  <2>3. CASE Refused(idx)
    BY <2>1, <2>2, <2>3
  <2>4. CASE ~Refused(idx)
    BY <2>1, <2>2, <2>4
  <2> QED BY <2>3, <2>4
<1>19. /\ \A c \in Chunks : \A x \in H[c] :
            /\ ChunkOf(x.slot) = c
            /\ x \notin lost \cup {} \cup refused \cup {d.msg : d \in dropped}
  <2>1. m \notin lost \cup {d.msg : d \in dropped}
    BY <1>3 DEF Received
  <2>2. ASSUME NEW c \in Chunks, NEW x \in open[c]
        PROVE  ChunkOf(x.slot) = c /\ x \notin lost \cup {} \cup refused \cup {d.msg : d \in dropped}
    BY <1>3, <1>4
  <2>3. \A c \in Chunks : \A x \in H[c] : x \in open[c] \/ (x = m /\ c = idx /\ ~Refused(idx))
    OBVIOUS
  <2> QED BY <1>3, <2>1, <2>2, <2>3
<1>20. Received \cup {} \cup refused \cup UNION {H[c] : c \in Chunks} = Received \cup {m}
  <2>1. ASSUME NEW x \in UNION {H[c] : c \in Chunks} PROVE x \in Received \cup {m}
    BY <1>4
  <2>2. m \in refused \cup UNION {H[c] : c \in Chunks}
    <3>1. CASE Refused(idx)
      BY <3>1
    <3>2. CASE ~Refused(idx)
      <4>1. m \in H[idx]
        BY <1>3, <3>2
      <4> QED BY <1>3, <4>1
    <3> QED BY <3>1, <3>2
  <2>3. refused \subseteq {m}
    OBVIOUS
  <2> HIDE DEF H, refused
  <2> QED BY <2>1, <2>2, <2>3
<1>21. refused \in SUBSET Message /\ \A x \in {} \cup refused : x \notin Received
  BY <1>3
<1> HIDE DEF H, N, why, refused
<1>22. CutTo(H, N, why, {}, refused)
  BY <1>1, <1>3, <1>10, <1>11, <1>12, <1>13, <1>14, <1>15, <1>16, <1>17, <1>18, <1>19, <1>20, <1>21
  DEF CutTo
<1> QED BY <1>22, CutInd

\* A new run resumes at or past the end of everything sealed before it.
LEMMA RestartInd ==
  ASSUME IndInv, Restart
  PROVE  IndInv'
<1>1. /\ TypeOK /\ OpenWindow /\ OpenNotOnDisk /\ DownIsEmpty /\ UnsealedEmpty
      /\ OldRunsBelowResume /\ BareIsOld /\ SettledBehind /\ RefusalsExplained
      /\ CapNeverBinds /\ Accounted
  BY DEF IndInv
<1>2. /\ ~up /\ run < MaxRuns /\ run' = run + 1 /\ up' = TRUE
      /\ from' = LatestSealedEnd(SealComplete) /\ watermark' = NoSlot
      /\ open' = open /\ disk' = disk /\ arrived' = arrived /\ dropped' = dropped /\ lost' = lost
  BY DEF Restart
<1>3. /\ OpenChunks = {} /\ OpenChunks' = {} /\ OnDisk' = OnDisk
      /\ SealComplete' = SealComplete /\ Received' = Received
  BY <1>1, <1>2 DEF DownIsEmpty, OpenChunks, OnDisk, SealComplete, Received
<1>4. /\ from' \in Int
      /\ \A c \in SealComplete : EndSlot(c) =< from'
  <2>1. SealComplete \in SUBSET Chunks
    BY DEF SealComplete
  <2>2. CASE SealComplete = {}
    BY <1>2, <2>2 DEF LatestSealedEnd, NoSlot
  <2>3. CASE SealComplete # {}
    BY <1>2, <2>1, <2>3, ResumePastSealed
  <2> QED BY <2>2, <2>3
<1>5. TypeOK'
  BY <1>1, <1>2, <1>4, BoundsAssumption DEF TypeOK
<1>6. run \in Int /\ \A c \in OnDisk : disk[c].run \in Int /\ disk[c].run =< run
  BY <1>1 DEF TypeOK, SealedChunk, OldRunsBelowResume, OnDisk
<1>7. OldRunsBelowResume' /\ BareIsOld' /\ SettledBehind'
  <2>1. \A c \in Chunks : c \in SealComplete \/ disk[c].reason = "bare" => c \in OnDisk
    BY DEF SealComplete, OnDisk, Reasons
  <2>2. SealComplete \subseteq Chunks
    BY DEF SealComplete
  <2> QED
    BY <1>2, <1>3, <1>4, <1>6, <2>1, <2>2 DEF OldRunsBelowResume, BareIsOld, SettledBehind
<1>8. /\ OpenWindow' /\ OpenNotOnDisk' /\ DownIsEmpty' /\ UnsealedEmpty'
      /\ RefusalsExplained' /\ CapNeverBinds' /\ Accounted'
  BY <1>1, <1>2, <1>3
  DEF OpenWindow, OpenNotOnDisk, DownIsEmpty, UnsealedEmpty, RefusalsExplained,
      CapNeverBinds, Accounted
<1> QED BY <1>5, <1>7, <1>8 DEF IndInv

\* Every step of the chunker preserves the inductive invariant.
LEMMA NextInd == IndInv /\ [Next]_vars => IndInv'
<1> SUFFICES ASSUME IndInv, [Next]_vars PROVE IndInv'
  OBVIOUS
<1>1. ASSUME NEW slot \in Slots, IngestLate(slot) PROVE IndInv'
  BY <1>1, IngestLateInd
<1>2. ASSUME NEW slot \in Slots, IngestKept(slot) PROVE IndInv'
  BY <1>2, IngestKeptInd
<1>3. ASSUME NEW a \in 1..arrived, Tick(a) PROVE IndInv'
  <2>1. PICK S \in SUBSET OpenChunks : SealSet(S)
    BY <1>3 DEF Tick, Stale
  <2>2. up /\ up' = TRUE /\ UNCHANGED <<watermark, from, run, arrived, dropped, lost>>
    BY <1>3 DEF Tick, IndInv, TypeOK
  <2> QED BY <2>1, <2>2, SealSetInd
<1>4. CASE Shutdown
  BY <1>4, SealSetInd DEF Shutdown
<1>5. CASE Crash
  BY <1>5, CrashInd
<1>6. CASE Restart
  BY <1>6, RestartInd
<1>7. ASSUME NEW slot \in Slots, IngestCutByCap(slot) \/ IngestFails(slot) \/ IngestCutByWatermark(slot)
      PROVE  IndInv'
  BY <1>7, IngestCutByCapInd, IngestFailsInd, IngestCutByWatermarkInd
<1>8. ASSUME NEW a \in 1..arrived, TickCut(a) PROVE IndInv'
  <2>1. Stale(a) \in SUBSET OpenChunks
    BY DEF Stale
  <2> QED BY <1>8, <2>1, SealSetCutInd DEF TickCut
<1>9. CASE ShutdownCut
  BY <1>9, SealSetCutInd DEF ShutdownCut
<1>10. CASE UNCHANGED vars
  BY <1>10
  DEF vars, IndInv, TypeOK, OpenWindow, OpenNotOnDisk, DownIsEmpty, UnsealedEmpty,
      OldRunsBelowResume, BareIsOld, SettledBehind, RefusalsExplained, CapNeverBinds, Accounted,
      OpenChunks, OnDisk, SealComplete, Received
<1> QED BY <1>1, <1>2, <1>3, <1>4, <1>5, <1>6, <1>7, <1>8, <1>9, <1>10 DEF Next

(***************************************************************************)
(* The inductive invariant holds throughout every behaviour of the         *)
(* chunker, crashes and restarts included.                                 *)
(***************************************************************************)
THEOREM ChunkerInvariant == Spec => []IndInv
  BY InitInd, NextInd, PTL DEF Spec

\* The chunker's variables keep their types.
THEOREM TypeCorrect == Spec => []TypeOK
<1>1. IndInv => TypeOK
  BY DEF IndInv
<1> QED BY <1>1, ChunkerInvariant, PTL

(***************************************************************************)
(* chunker.rs ingest: at most the watermark's chunk and the one before it  *)
(* are open between two handlers.                                          *)
(***************************************************************************)
THEOREM OpenWindowHolds == Spec => []OpenWindow
<1>1. IndInv => OpenWindow
  BY DEF IndInv
<1> QED BY <1>1, ChunkerInvariant, PTL

(***************************************************************************)
(* chunker.rs ingest, seal_chunk and the crash: every received message is  *)
(* in exactly one place.                                                   *)
(***************************************************************************)
THEOREM AccountedHolds == Spec => []Accounted
<1>1. IndInv => Accounted
  BY DEF IndInv
<1> QED BY <1>1, ChunkerInvariant, PTL

(***************************************************************************)
(* chunker.rs open_chunk: the guard against ranges already on disk refuses *)
(* only messages below the resume slot, in a chunk sealed for idleness, or *)
(* in a chunk whose seal an earlier run left half done.                    *)
(***************************************************************************)
THEOREM RefusalsExplainedHolds == Spec => []RefusalsExplained
<1>1. IndInv => RefusalsExplained
  BY DEF IndInv
<1> QED BY <1>1, ChunkerInvariant, PTL

\* chunker.rs ingest: a cap of three or more open chunks never binds.
THEOREM CapNeverBindsHolds == Spec => []CapNeverBinds
<1>1. IndInv => CapNeverBinds
  BY DEF IndInv
<1> QED BY <1>1, ChunkerInvariant, PTL

(***************************************************************************)
(* chunker.rs seal_chunk: no step replaces a chunk that is on disk.        *)
(***************************************************************************)
THEOREM SealedImmutableHolds == Spec => SealedImmutable
<1>1. ASSUME IndInv, [Next]_vars, NEW c \in OnDisk PROVE disk'[c] = disk[c]
  <2>1. c \in Chunks /\ c \notin OpenChunks
    BY <1>1 DEF OnDisk, IndInv, OpenNotOnDisk
  <2>2. ASSUME NEW S \in SUBSET OpenChunks, SealSet(S) PROVE disk'[c] = disk[c]
    BY <2>1, <2>2 DEF SealSet
  <2>3. ASSUME NEW slot \in Slots, IngestKept(slot) PROVE disk'[c] = disk[c]
    <3>1. open[c] = {}
      BY <2>1 DEF OpenChunks
    <3>2. c \notin CapSealed(OpenChunks)
      BY <2>1 DEF CapSealed
    <3> QED
      BY <1>1, <2>1, <2>3, <3>1, <3>2
      DEF IngestKept, Capped, Filled, Due, CapDisk, Refused, WatermarkSealed
  <2>4. CASE \E a \in 1..arrived : Tick(a)
    BY <2>2, <2>4 DEF Tick, Stale
  <2>5. CASE Shutdown
    BY <2>2, <2>5 DEF Shutdown
  <2>6. CASE \/ \E slot \in Slots : IngestLate(slot)
             \/ Crash \/ Restart \/ UNCHANGED vars
    BY <2>6 DEF IngestLate, Crash, Restart, vars
  <2>7. ASSUME NEW slot \in Slots, IngestCutByCap(slot) \/ IngestFails(slot) \/ IngestCutByWatermark(slot)
        PROVE  disk'[c] = disk[c]
    BY <1>1, <2>7, IngestCutByCapInd, IngestFailsInd, IngestCutByWatermarkInd
  <2>8. CASE (\E a \in 1..arrived : TickCut(a)) \/ ShutdownCut
    <3>1. ASSUME NEW S \in SUBSET OpenChunks, SealSetCut(S) PROVE disk'[c] = disk[c]
      BY <1>1, <3>1, SealSetCutInd
    <3>2. \A a : Stale(a) \in SUBSET OpenChunks
      BY DEF Stale
    <3> QED BY <2>8, <3>1, <3>2 DEF TickCut, ShutdownCut
  <2> QED BY <1>1, <2>3, <2>4, <2>5, <2>6, <2>7, <2>8 DEF Next
<1>2. IndInv /\ [Next]_vars => [\A c \in OnDisk : disk'[c] = disk[c]]_vars
  BY <1>1
<1> QED BY <1>2, ChunkerInvariant, PTL DEF Spec, SealedImmutable
=============================================================================
