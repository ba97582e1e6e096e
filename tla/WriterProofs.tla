---------------------------- MODULE WriterProofs ----------------------------
(***************************************************************************)
(* The path of a chunk from the encoder to the bucket, for any slots,      *)
(* chunk length, number of concurrent uploads and of runs: what a scan     *)
(* finds, what readers see and what the retention sweep removes.           *)
(***************************************************************************)
EXTENDS Writer, FiniteSetTheorems, WellFoundedInduction, TLAPS

-----------------------------------------------------------------------------
(* Operators.                                                              *)

\* Chunk numbers are natural numbers, and a chunk ends after its slots.
LEMMA ChunksNat ==
  /\ \A s \in Slots : ChunkOf(s) \in Chunks /\ ChunkOf(s) \in Nat /\ s < EndSlot(ChunkOf(s))
  /\ Chunks \subseteq Nat
  BY PolicyAssumption DEF ChunkOf, EndSlot, Chunks

\* A set of chunks that is not empty has an oldest chunk.
LEMMA OldestIn ==
  ASSUME NEW S, S \subseteq Chunks, S # {}
  PROVE  Oldest(S) \in S
<1> DEFINE R == OpToRel(<, Nat)
<1>1. S \subseteq Nat
  BY ChunksNat
<1>2. PICK c \in S : \A d \in S : ~(<<d, c>> \in R)
  BY <1>1, WFMin, NatLessThanWellFounded
<1>3. ASSUME NEW d \in S PROVE c =< d
  <2>1. c \in Nat /\ d \in Nat
    BY <1>1
  <2>2. ~(d < c)
    BY <1>2, <2>1 DEF OpToRel
  <2> QED BY <2>1, <2>2
<1> QED BY <1>3 DEF Oldest

\* What the directory and the bucket hold of a chunk.
FileRecords == [zst : Content, idx : Content, meta : Content, uploaded : BOOLEAN]
ObjectRecords == [zst : Content, idx : Content, meta : Content]

\* The initial state satisfies the invariant.
LEMMA InitInd == Init => IndInv
<1> SUFFICES ASSUME Init PROVE IndInv
  OBVIOUS
<1> USE DEF Init
<1>1. TypeOK
  BY WriterAssumption, PolicyAssumption DEF TypeOK, NoJob, NoFiles, NoObjects, Content, NoSlot
<1>2. ConsumerInv /\ OpenIsNew /\ HandInv /\ JobInOrder
  BY ChunksNat DEF ConsumerInv, OpenIsNew, HandInv, JobInOrder, NoJob, OpenChunks, SealSteps, NoSlot
<1>3. FilesInOrder /\ MarkedIsPublished /\ PublishedIsLocal /\ UploadInOrder /\ CycleInv
  BY DEF FilesInOrder, MarkedIsPublished, PublishedIsLocal, UploadInOrder, CycleInv,
         NoFiles, NoObjects
<1> QED BY <1>1, <1>2, <1>3 DEF IndInv

-----------------------------------------------------------------------------
(* The consumer task.                                                      *)

\* The conjuncts about files, objects and the uploader need no look at a step
\* of the consumer that leaves those alone.
LEMMA SameStore ==
  ASSUME IndInv, UNCHANGED <<fs, r2, uploaderVars, evicted, reopened>>
  PROVE  FilesInOrder' /\ MarkedIsPublished' /\ PublishedIsLocal' /\ UploadInOrder' /\ CycleInv'
  BY DEF IndInv, FilesInOrder, MarkedIsPublished, PublishedIsLocal, UploadInOrder, CycleInv, Same,
         uploaderVars

\* seal_chunk begins: the chunk was open, so none of its final files exists.
LEMMA BeginSealInd ==
  ASSUME IndInv, NEW c \in OpenChunks, NEW ret \in {"cap", "due", "stale"},
         pc = ret, BeginSeal(c, ret), stale' = stale \ {c},
         UNCHANGED <<proc, run, arrived, slotIn, watermark, fs, r2, uploaderVars, evicted, reopened>>
  PROVE  IndInv'
<1> USE DEF IndInv, BeginSeal
<1>0. c \in Chunks /\ open[c] # {} /\ open[c] \in Content
  BY DEF OpenChunks, TypeOK
<1>1. TypeOK'
  <2>1. open' \in [Chunks -> Content] /\ partials' \subseteq Chunks \X Trio /\ stale' \subseteq Chunks
    BY <1>0 DEF TypeOK, Content, Trio
  <2>2. job' \in [chunk : Chunks \cup {NoSlot}, msgs : Content, ret : {"idle", "cap", "due", "stale"}]
    BY <1>0
  <2> QED BY <2>1, <2>2 DEF TypeOK, uploaderVars, SealSteps
<1>2. job = NoJob /\ proc \notin {"stopping", "down"}
  BY DEF ConsumerInv, SealSteps
<1>3. \A d \in Chunks : open'[d] = IF d = c THEN {} ELSE open[d]
  BY <1>0 DEF TypeOK
<1>4. ConsumerInv'
  <2>1. stale' \subseteq OpenChunks'
    BY <1>3 DEF ConsumerInv, OpenChunks
  <2>2. stale # {} => ret = "stale"
    BY <1>2 DEF ConsumerInv, NoJob
  <2> QED BY <1>0, <1>2, <2>1, <2>2 DEF ConsumerInv, SealSteps
<1>5. OpenIsNew'
  BY <1>0, <1>3 DEF OpenIsNew
<1>6. HandInv'
  BY <1>2 DEF HandInv
<1>7. JobInOrder'
  BY <1>0 DEF OpenIsNew, JobInOrder
<1>8. FilesInOrder' /\ MarkedIsPublished' /\ PublishedIsLocal' /\ UploadInOrder' /\ CycleInv'
  BY SameStore
<1> QED BY <1>1, <1>4, <1>5, <1>6, <1>7, <1>8

\* ingest takes a message of any slot.
LEMMA DeliverInd ==
  ASSUME IndInv, NEW slot \in Slots, Deliver(slot)
  PROVE  IndInv'
<1> USE DEF IndInv, Deliver
<1>1. TypeOK'
  <2>1. watermark' \in Slots \cup {NoSlot} /\ slotIn' \in Slots
    BY DEF TypeOK, Advance
  <2>2. arrived' \in 0..MaxMsgs
    BY WriterAssumption DEF TypeOK
  <2>3. pc' \in {"idle", "cap"}
    OBVIOUS
  <2> QED BY <2>1, <2>2, <2>3 DEF TypeOK, uploaderVars
<1>2. job = NoJob /\ job' = job /\ pc' \in {"idle", "cap"} /\ proc = "up"
  BY DEF ConsumerInv, SealSteps
<1>3. ConsumerInv'
  BY <1>2 DEF ConsumerInv, SealSteps, OpenChunks, NoJob
<1>4. HandInv'
  BY <1>2 DEF HandInv, NoJob, TypeOK
<1>5. OpenIsNew' /\ JobInOrder'
  BY <1>2, ChunksNat DEF OpenIsNew, JobInOrder, NoJob, NoSlot
<1>6. FilesInOrder' /\ MarkedIsPublished' /\ PublishedIsLocal' /\ UploadInOrder' /\ CycleInv'
  BY SameStore
<1> QED BY <1>1, <1>3, <1>4, <1>5, <1>6

\* The cap loop of ingest.
LEMMA CapInd ==
  ASSUME IndInv, Cap
  PROVE  IndInv'
<1> USE DEF IndInv, Cap
<1>1. CASE open[ChunkOf(slotIn)] = {} /\ Cardinality(OpenChunks) >= MaxOpenChunks
  <2>1. stale = {} /\ job = NoJob
    BY DEF ConsumerInv, SealSteps, NoJob
  <2>2. OpenChunks # {}
    BY <1>1, FS_EmptySet, PolicyAssumption
  <2>3. Oldest(OpenChunks) \in OpenChunks
    BY <2>2, OldestIn DEF OpenChunks
  <2> QED BY <1>1, <2>1, <2>3, BeginSealInd
<1>2. CASE ~(open[ChunkOf(slotIn)] = {} /\ Cardinality(OpenChunks) >= MaxOpenChunks)
  <2>1. TypeOK'
    BY <1>2 DEF TypeOK, uploaderVars
  <2>2. job = NoJob /\ pc' = "append" /\ job' = job /\ open' = open
    BY <1>2 DEF ConsumerInv, SealSteps
  <2>3. ConsumerInv' /\ HandInv'
    BY <2>2 DEF ConsumerInv, HandInv, SealSteps, OpenChunks, NoJob
  <2>4. OpenIsNew' /\ JobInOrder'
    BY <2>2, ChunksNat DEF OpenIsNew, JobInOrder, NoJob, NoSlot
  <2>5. FilesInOrder' /\ MarkedIsPublished' /\ PublishedIsLocal' /\ UploadInOrder' /\ CycleInv'
    BY SameStore
  <2> QED BY <2>1, <2>3, <2>4, <2>5
<1> QED BY <1>1, <1>2

\* ingest opens a chunk only when no final file of it announces another one; an
\* evicted chunk that it opens is published.
LEMMA AppendInd ==
  ASSUME IndInv, AppendMsg
  PROVE  IndInv'
<1> DEFINE c == ChunkOf(slotIn)
<1> USE DEF IndInv, AppendMsg
<1>1. slotIn \in Slots /\ c \in Chunks /\ arrived \in Messages
  <2>1. arrived > 0 /\ slotIn \in Slots
    BY DEF HandInv
  <2>2. arrived \in Messages
    BY <2>1, WriterAssumption DEF TypeOK, Messages
  <2> QED BY <2>1, <2>2, ChunksNat
<1>2. job = NoJob /\ stale = {} /\ proc \notin {"stopping", "down"}
  BY DEF ConsumerInv, SealSteps, NoJob
<1>3. TypeOK'
  <2>1. CASE open[c] = {} /\ ConflictGuard(c)
    BY <2>1 DEF TypeOK, uploaderVars
  <2>2. CASE ~(open[c] = {} /\ ConflictGuard(c))
    <3>1. open[c] \cup {arrived} \in Content
      BY <1>1 DEF TypeOK, Content
    <3>2. reopened' \subseteq Chunks
      BY <2>2 DEF TypeOK
    <3> QED BY <2>2, <1>1, <3>1, <3>2 DEF TypeOK, uploaderVars, Content, Trio
  <2> QED BY <2>1, <2>2
<1> HIDE DEF c
<1>4. ASSUME NEW d \in Chunks
      PROVE  \/ open'[d] = open[d]
             \/ d = c /\ fs[c].zst = {} /\ fs[c].meta = {} /\ (c \in evicted => c \in reopened')
  <2>1. CASE open[c] = {} /\ ConflictGuard(c)
    BY <2>1 DEF c
  <2>2. CASE open[c] = {} /\ ~ConflictGuard(c)
    <3>1. open' = [open EXCEPT ![c] = @ \cup {arrived}] /\ reopened' = reopened \cup ({c} \cap evicted)
      BY <2>2 DEF c
    <3> QED BY <2>2, <3>1, <1>1 DEF ConflictGuard, TypeOK
  <2>3. CASE open[c] # {}
    <3>1. open' = [open EXCEPT ![c] = @ \cup {arrived}] /\ reopened' = reopened \cup ({c} \cap evicted)
      BY <2>3 DEF c
    <3> QED BY <2>3, <3>1, <1>1 DEF OpenIsNew, TypeOK
  <2> QED BY <2>1, <2>2, <2>3
<1>5. ConsumerInv' /\ HandInv'
  BY <1>2 DEF ConsumerInv, HandInv, SealSteps, OpenChunks, NoJob
<1>6. reopened \subseteq reopened' /\ reopened' \subseteq reopened \cup evicted /\ evicted' = evicted
  BY DEF c
<1>7. OpenIsNew' /\ JobInOrder'
  BY <1>1, <1>2, <1>4, <1>6, ChunksNat DEF OpenIsNew, JobInOrder, NoJob, NoSlot
<1>8. MarkedIsPublished'
  BY <1>6 DEF MarkedIsPublished, PublishedIsLocal, Same
<1>9. FilesInOrder' /\ PublishedIsLocal' /\ UploadInOrder' /\ CycleInv'
  BY <1>6 DEF FilesInOrder, PublishedIsLocal, UploadInOrder, CycleInv, Same, uploaderVars
<1> QED BY <1>3, <1>5, <1>7, <1>8, <1>9

\* The last loop of ingest.
LEMMA DueInd ==
  ASSUME IndInv, Due
  PROVE  IndInv'
<1> DEFINE due == WatermarkSealed(OpenChunks, watermark)
<1> USE DEF IndInv, Due
<1>1. stale = {} /\ job = NoJob /\ proc \notin {"stopping", "down"}
  BY DEF ConsumerInv, SealSteps, NoJob
<1>2. CASE due # {}
  <2>1. due \subseteq OpenChunks
    BY DEF WatermarkSealed
  <2>2. Oldest(due) \in due
    BY <1>2, <2>1, OldestIn DEF OpenChunks
  <2> QED BY <1>1, <1>2, <2>1, <2>2, BeginSealInd
<1>3. CASE due = {}
  <2>1. TypeOK'
    BY <1>3 DEF TypeOK, uploaderVars
  <2>2. pc' = "idle" /\ job' = job /\ open' = open
    BY <1>3
  <2>3. ConsumerInv' /\ HandInv'
    BY <1>1, <2>2 DEF ConsumerInv, HandInv, SealSteps, OpenChunks, NoJob
  <2>4. OpenIsNew' /\ JobInOrder'
    BY <1>1, <2>2, ChunksNat DEF OpenIsNew, JobInOrder, NoJob, NoSlot
  <2>5. FilesInOrder' /\ MarkedIsPublished' /\ PublishedIsLocal' /\ UploadInOrder' /\ CycleInv'
    BY SameStore
  <2> QED BY <2>1, <2>3, <2>4, <2>5
<1> QED BY <1>2, <1>3

\* tick and shutdown pick open chunks to seal.
LEMMA PickStaleInd ==
  ASSUME IndInv, (\E a \in 1..arrived : Tick(a)) \/ Shutdown
  PROVE  IndInv'
<1> USE DEF IndInv
<1>1. /\ pc = "idle" /\ pc' = "stale" /\ proc = "up" /\ proc' \in {"up", "draining"}
      /\ stale' \subseteq OpenChunks
      /\ UNCHANGED <<run, arrived, slotIn, open, watermark, job, fs, partials, r2,
                     uploaderVars, evicted, reopened>>
  BY DEF Tick, Shutdown
<1>2. TypeOK'
  BY <1>1 DEF TypeOK, uploaderVars, OpenChunks
<1>3. job = NoJob
  BY <1>1 DEF ConsumerInv, SealSteps
<1>4. ConsumerInv' /\ HandInv'
  BY <1>1, <1>3 DEF ConsumerInv, HandInv, SealSteps, OpenChunks, NoJob
<1>5. OpenIsNew' /\ JobInOrder'
  BY <1>1, <1>3, ChunksNat DEF OpenIsNew, JobInOrder, NoJob, NoSlot
<1>6. FilesInOrder' /\ MarkedIsPublished' /\ PublishedIsLocal' /\ UploadInOrder' /\ CycleInv'
  BY <1>1, SameStore
<1> QED BY <1>2, <1>4, <1>5, <1>6

\* Their sealing loop.
LEMMA SealStaleInd ==
  ASSUME IndInv, SealStale
  PROVE  IndInv'
<1> USE DEF IndInv, SealStale
<1>1. job = NoJob /\ proc \notin {"stopping", "down"} /\ stale \subseteq OpenChunks
  BY DEF ConsumerInv, SealSteps, NoJob
<1>2. CASE stale # {}
  <2>1. Oldest(stale) \in stale
    BY <1>2, OldestIn DEF TypeOK
  <2> QED BY <1>1, <1>2, <2>1, BeginSealInd
<1>3. CASE stale = {}
  <2>1. TypeOK'
    BY <1>3 DEF TypeOK, uploaderVars
  <2>2. pc' \in {"idle", "ended"} /\ job' = job /\ open' = open /\ stale' = stale
    BY <1>3
  <2>3. ConsumerInv' /\ HandInv'
    BY <1>1, <1>3, <2>2 DEF ConsumerInv, HandInv, SealSteps, OpenChunks, NoJob
  <2>4. OpenIsNew' /\ JobInOrder'
    BY <1>1, <2>2, ChunksNat DEF OpenIsNew, JobInOrder, NoJob, NoSlot
  <2>5. FilesInOrder' /\ MarkedIsPublished' /\ PublishedIsLocal' /\ UploadInOrder' /\ CycleInv'
    BY SameStore
  <2> QED BY <2>1, <2>3, <2>4, <2>5
<1> QED BY <1>2, <1>3

\* The renames of seal_chunk: the chunk is not published before the last one.
LEMMA RenameInd ==
  ASSUME IndInv, Rename
  PROVE  IndInv'
<1> DEFINE c == job.chunk
<1>1. /\ c \in Chunks /\ job.msgs # {} /\ job.msgs \in Content /\ pc \in Trio
      /\ job.ret \in {"cap", "due", "stale"} /\ proc \notin {"stopping", "down"}
      /\ open[c] = {} /\ c = job.chunk /\ (c \in evicted => c \in reopened)
      /\ fs' = [fs EXCEPT ![c][pc] = job.msgs]
  BY DEF IndInv, Rename, ConsumerInv, JobInOrder, OpenIsNew, TypeOK, SealSteps, Trio
<1> HIDE DEF c
<1>2. /\ fs' \in [Chunks -> FileRecords]
      /\ \A d \in Chunks \ {c} : fs'[d] = fs[d]
      /\ fs'[c].uploaded = fs[c].uploaded
      /\ pc = "zst" => fs'[c].zst = job.msgs
      /\ pc # "zst" => fs'[c].zst = fs[c].zst
      /\ pc = "idx" => fs'[c].idx = job.msgs
      /\ pc # "idx" => fs'[c].idx = fs[c].idx
      /\ pc = "meta" => fs'[c].meta = job.msgs
      /\ pc # "meta" => fs'[c].meta = fs[c].meta
  <2>1. fs \in [Chunks -> FileRecords]
    BY DEF IndInv, TypeOK, FileRecords
  <2>2. CASE pc = "zst"
    BY <1>1, <2>1, <2>2 DEF FileRecords
  <2>3. CASE pc = "idx"
    BY <1>1, <2>1, <2>3 DEF FileRecords
  <2>4. CASE pc = "meta"
    BY <1>1, <2>1, <2>4 DEF FileRecords
  <2> QED BY <1>1, <2>2, <2>3, <2>4 DEF Trio
<1>3. /\ pc = "zst" => pc' = "idx" /\ job' = job
      /\ pc = "idx" => pc' = "meta" /\ job' = job
      /\ pc = "meta" => pc' = job.ret /\ job' = NoJob
  BY <1>1 DEF Rename, AfterSealStep
<1>4. c \notin reopened =>
        /\ fs[c].meta = {}
        /\ fs[c].idx # {} => fs[c].zst = fs[c].idx
        /\ pc = "zst" => fs[c].zst = {}
        /\ pc \in {"idx", "meta"} => fs[c].zst = job.msgs
        /\ pc = "meta" => fs[c].idx = job.msgs
  BY <1>1 DEF IndInv, JobInOrder, FilesInOrder
<1>5. (c \notin reopened => r2[c].meta = {}) /\ (c \in reopened => c \in evicted)
  BY <1>1, <1>4 DEF IndInv, PublishedIsLocal, MarkedIsPublished
<1>6. TypeOK'
  <2>1. job' \in [chunk : Chunks \cup {NoSlot}, msgs : Content, ret : {"idle", "cap", "due", "stale"}]
    BY <1>1, <1>3 DEF IndInv, TypeOK, NoJob, Content, Trio
  <2>2. pc' \in {"idle", "cap", "append", "due", "stale", "ended", "failed"} \cup SealSteps
    BY <1>1, <1>3 DEF SealSteps, Trio
  <2>3. partials' \subseteq Chunks \X Trio
    BY DEF IndInv, Rename, TypeOK
  <2> QED BY <1>2, <2>1, <2>2, <2>3 DEF IndInv, Rename, TypeOK, FileRecords, uploaderVars
<1>7. ConsumerInv'
  <2>1. CASE pc = "meta"
    BY <2>1, <1>1, <1>3 DEF IndInv, Rename, ConsumerInv, OpenChunks, SealSteps, NoJob
  <2>2. CASE pc # "meta"
    BY <2>2, <1>1, <1>3 DEF IndInv, Rename, ConsumerInv, OpenChunks, SealSteps, Trio
  <2> QED BY <2>1, <2>2
<1>8. HandInv'
  BY <1>1, <1>3 DEF IndInv, Rename, HandInv, NoJob, Trio
<1>9. OpenIsNew'
  BY <1>1, <1>2, <1>3, ChunksNat DEF IndInv, Rename, OpenIsNew, NoJob, NoSlot, Trio
<1>10. JobInOrder'
  <2>1. CASE pc = "meta"
    BY <2>1, <1>3, ChunksNat DEF IndInv, Rename, JobInOrder, NoJob, NoSlot
  <2>2. CASE pc # "meta"
    BY <2>2, <1>1, <1>2, <1>3, <1>4 DEF IndInv, Rename, JobInOrder, Trio
  <2> QED BY <2>1, <2>2
<1>11. FilesInOrder'
  BY <1>1, <1>2, <1>4, <1>5 DEF IndInv, Rename, FilesInOrder, Same, Trio
<1>12. MarkedIsPublished' /\ PublishedIsLocal'
  BY <1>1, <1>2, <1>5 DEF IndInv, Rename, MarkedIsPublished, PublishedIsLocal, Same
<1>13. UploadInOrder' /\ CycleInv'
  BY <1>1, <1>2, <1>4 DEF IndInv, Rename, UploadInOrder, CycleInv, uploaderVars
<1> QED BY <1>6, <1>7, <1>8, <1>9, <1>10, <1>11, <1>12, <1>13 DEF IndInv

\* A failed file operation ends the consumer and drops its open chunks.
LEMMA IoErrorInd ==
  ASSUME IndInv, IoError
  PROVE  IndInv'
<1> USE DEF IndInv, IoError
<1>1. TypeOK'
  <2>1. open' \in [Chunks -> Content] /\ stale' \subseteq Chunks
        /\ job' \in [chunk : Chunks \cup {NoSlot}, msgs : Content, ret : {"idle", "cap", "due", "stale"}]
    BY DEF Content, NoJob
  <2>2. partials' \subseteq Chunks \X Trio
    BY DEF TypeOK, ConsumerInv, SealSteps, Trio
  <2> QED BY <2>1, <2>2 DEF TypeOK, uploaderVars
<1>2. ConsumerInv' /\ HandInv'
  BY DEF ConsumerInv, HandInv, SealSteps, OpenChunks, NoJob
<1>3. OpenIsNew' /\ JobInOrder'
  BY ChunksNat DEF OpenIsNew, JobInOrder, NoJob, NoSlot
<1>4. FilesInOrder' /\ MarkedIsPublished' /\ PublishedIsLocal' /\ UploadInOrder' /\ CycleInv'
  BY SameStore
<1> QED BY <1>1, <1>2, <1>3, <1>4

-----------------------------------------------------------------------------
(* The uploader.                                                           *)

\* The conjuncts about the consumer need no look at a step of the uploader
\* that leaves files and evictions alone.
LEMMA SameConsumer ==
  ASSUME IndInv, UNCHANGED <<proc, arrived, consumerVars, fs, evicted, reopened>>
  PROVE  ConsumerInv' /\ OpenIsNew' /\ HandInv' /\ JobInOrder' /\ FilesInOrder'
  BY DEF IndInv, ConsumerInv, OpenIsNew, HandInv, JobInOrder, FilesInOrder, OpenChunks, Same,
         consumerVars

\* A cycle begins: what has aged is marked, hence published and not open, and
\* what waits for its upload is not marked.
LEMMA ScanInd ==
  ASSUME IndInv, NEW aged \in SUBSET Chunks, Scan(aged)
  PROVE  IndInv'
<1> USE DEF IndInv, Scan
<1>1. \A c \in aged : c \in Chunks /\ fs[c].uploaded /\ r2[c].meta # {}
  BY DEF MarkedIsPublished
<1>2. \A c \in aged \ evicted : fs[c].meta # {} /\ c \notin reopened
  BY <1>1 DEF PublishedIsLocal, MarkedIsPublished
<1>3. TypeOK'
  BY DEF TypeOK, consumerVars, Trio
<1>4. ConsumerInv'
  BY DEF ConsumerInv, OpenChunks, consumerVars
<1>5. OpenIsNew'
  BY <1>2 DEF OpenIsNew, consumerVars
<1>6. HandInv'
  BY DEF HandInv, consumerVars
<1>7. JobInOrder'
  BY <1>2 DEF JobInOrder, consumerVars
<1>8. FilesInOrder' /\ MarkedIsPublished' /\ PublishedIsLocal'
  BY <1>1 DEF FilesInOrder, MarkedIsPublished, PublishedIsLocal, Same
<1>9. UploadInOrder' /\ CycleInv'
  BY <1>1 DEF UploadInOrder, CycleInv, ScanPending
<1> QED BY <1>3, <1>4, <1>5, <1>6, <1>7, <1>8, <1>9

\* The sweep removes files of evicted chunks only, and those are published.
LEMMA EvictInd ==
  ASSUME IndInv, NEW c \in Chunks, Evict(c)
  PROVE  IndInv'
<1>1. /\ sweeping[c] \in Trio \cup {"uploaded"} /\ phase = "sweep" /\ c \in evicted
      /\ sweeping' = [sweeping EXCEPT ![c] = AfterEvict(sweeping[c])]
      /\ UNCHANGED <<proc, run, arrived, consumerVars, partials, r2, phase, task, evicted, reopened>>
  BY DEF IndInv, Evict, CycleInv, TypeOK
<1>2. /\ fs' \in [Chunks -> FileRecords]
      /\ \A d \in Chunks \ {c} : fs'[d] = fs[d]
      /\ fs'[c].zst \in {fs[c].zst, {}}
      /\ fs'[c].idx \in {fs[c].idx, {}}
      /\ fs'[c].meta \in {fs[c].meta, {}}
  <2>1. fs \in [Chunks -> FileRecords]
    BY DEF IndInv, TypeOK, FileRecords
  <2>2. fs' = fs \/ fs' = [fs EXCEPT ![c][sweeping[c]] = NoFiles[sweeping[c]]]
    BY DEF Evict
  <2>3. CASE sweeping[c] = "zst"
    <3>1. fs' = fs \/ fs' = [fs EXCEPT ![c].zst = {}]
      BY <2>2, <2>3 DEF NoFiles
    <3> QED BY <2>1, <3>1 DEF FileRecords, Content
  <2>4. CASE sweeping[c] = "idx"
    <3>1. fs' = fs \/ fs' = [fs EXCEPT ![c].idx = {}]
      BY <2>2, <2>4 DEF NoFiles
    <3> QED BY <2>1, <3>1 DEF FileRecords, Content
  <2>5. CASE sweeping[c] = "meta"
    <3>1. fs' = fs \/ fs' = [fs EXCEPT ![c].meta = {}]
      BY <2>2, <2>5 DEF NoFiles
    <3> QED BY <2>1, <3>1 DEF FileRecords, Content
  <2>6. CASE sweeping[c] = "uploaded"
    <3>1. fs' = fs \/ fs' = [fs EXCEPT ![c].uploaded = FALSE]
      BY <2>2, <2>6 DEF NoFiles
    <3>2. CASE fs' = [fs EXCEPT ![c].uploaded = FALSE]
      <4>1. [fs[c] EXCEPT !.uploaded = FALSE] \in FileRecords
        BY <2>1 DEF FileRecords
      <4>2. fs'[c] = [fs[c] EXCEPT !.uploaded = FALSE] /\ \A d \in Chunks \ {c} : fs'[d] = fs[d]
        BY <2>1, <3>2
      <4>3. fs' \in [Chunks -> FileRecords]
        BY <2>1, <3>2, <4>1
      <4>4. fs[c] \in FileRecords
        BY <2>1
      <4>5. fs'[c].zst = fs[c].zst /\ fs'[c].idx = fs[c].idx /\ fs'[c].meta = fs[c].meta
        BY <4>2, <4>4 DEF FileRecords
      <4> QED BY <4>2, <4>3, <4>5
    <3> QED BY <2>1, <3>1, <3>2
  <2> QED BY <1>1, <2>3, <2>4, <2>5, <2>6 DEF Trio
<1>3. AfterEvict(sweeping[c]) \in Trio \cup {"uploaded", "none"}
  BY DEF AfterEvict, Trio
<1>4. TypeOK'
  <2>1. TypeOK
    BY DEF IndInv
  <2>2. fs' \in [Chunks -> FileRecords]
    BY <1>2
  <2>3. sweeping' \in [Chunks -> Trio \cup {"uploaded", "none"}]
    BY <1>1, <1>3, <2>1 DEF TypeOK
  <2> QED BY <1>1, <2>1, <2>2, <2>3 DEF TypeOK, FileRecords, consumerVars
<1>5. c \notin reopened => open[c] = {} /\ job.chunk # c
  BY <1>1 DEF IndInv, OpenIsNew, JobInOrder
<1>6. ConsumerInv' /\ HandInv'
  BY <1>1 DEF IndInv, ConsumerInv, HandInv, OpenChunks, consumerVars
<1>7. OpenIsNew' /\ JobInOrder'
  BY <1>1, <1>2, <1>5 DEF IndInv, OpenIsNew, JobInOrder, consumerVars
<1>8. FilesInOrder' /\ MarkedIsPublished'
  BY <1>1, <1>2 DEF IndInv, FilesInOrder, MarkedIsPublished, Same
<1>9. PublishedIsLocal'
  BY <1>1, <1>2 DEF IndInv, PublishedIsLocal
<1>10. c \in reopened \/ task[c] \notin {"wait", "zst", "idx", "meta", "mark"}
  BY <1>1 DEF IndInv, UploadInOrder, Trio
<1>11. UploadInOrder' /\ CycleInv'
  BY <1>1, <1>2, <1>10 DEF IndInv, UploadInOrder, CycleInv, TypeOK
<1> QED BY <1>4, <1>6, <1>7, <1>8, <1>9, <1>11 DEF IndInv

\* The loop turns from one step of the cycle to the next.
LEMMA LoopInd ==
  ASSUME IndInv, SweepDone \/ Spawn \/ Join \/ Exit
  PROVE  IndInv'
<1>1. UNCHANGED <<run, arrived, consumerVars, fs, partials, r2, sweeping, evicted, reopened>>
  BY DEF SweepDone, Spawn, Join, Exit, uploaderVars
<1>2. CASE SweepDone
  BY <1>1, <1>2, SameConsumer
  DEF IndInv, SweepDone, TypeOK, MarkedIsPublished, PublishedIsLocal, UploadInOrder, CycleInv,
      consumerVars, Same
<1>3. CASE Spawn
  <2>1. Waiting # {} /\ Waiting \subseteq Chunks
    BY <1>3 DEF Spawn, Waiting
  <2>2. Oldest(Waiting) \in Waiting
    BY <2>1, OldestIn
  <2>3. PICK c \in Chunks : task[c] = "wait" /\ task' = [task EXCEPT ![c] = "zst"]
    BY <1>3, <2>2 DEF Spawn, Waiting
  <2>4. phase = "upload" /\ phase' = phase /\ proc' = proc
    BY <1>3 DEF Spawn
  <2>5. TypeOK'
    BY <1>1, <2>3, <2>4 DEF IndInv, TypeOK, Trio, consumerVars
  <2>6. MarkedIsPublished' /\ PublishedIsLocal' /\ UploadInOrder' /\ CycleInv'
    BY <1>1, <2>3, <2>4 DEF IndInv, TypeOK, MarkedIsPublished, PublishedIsLocal, UploadInOrder,
         CycleInv, Same
  <2> QED BY <1>1, <2>4, <2>5, <2>6, SameConsumer DEF IndInv
<1>4. CASE Join
  <2>1. phase' = "sleep" /\ task' = [c \in Chunks |-> "none"] /\ proc' = proc
    BY <1>4 DEF Join
  <2>2. TypeOK'
    BY <1>1, <2>1 DEF IndInv, TypeOK, consumerVars
  <2>3. \A c \in Chunks : sweeping[c] = "none"
    BY <1>4 DEF IndInv, CycleInv, Join
  <2>4. MarkedIsPublished' /\ PublishedIsLocal' /\ UploadInOrder' /\ CycleInv'
    BY <1>1, <2>1, <2>3 DEF IndInv, MarkedIsPublished, PublishedIsLocal, UploadInOrder, CycleInv, Same
  <2> QED BY <1>1, <2>1, <2>2, <2>4, SameConsumer DEF IndInv
<1>5. CASE Exit
  <2>1. TypeOK' /\ ConsumerInv'
    BY <1>1, <1>5 DEF IndInv, TypeOK, Exit, ConsumerInv, OpenChunks, consumerVars, uploaderVars
  <2>2. OpenIsNew' /\ HandInv' /\ JobInOrder'
    BY <1>1 DEF IndInv, OpenIsNew, HandInv, JobInOrder, consumerVars
  <2>3. FilesInOrder' /\ MarkedIsPublished' /\ PublishedIsLocal' /\ UploadInOrder' /\ CycleInv'
    BY <1>1, <1>5, SameStore DEF Exit
  <2> QED BY <2>1, <2>2, <2>3 DEF IndInv
<1> QED BY <1>2, <1>3, <1>4, <1>5

\* An object is stored.  When it is the .meta.json of a chunk that was not
\* published, payload and index went before it in the same upload.
LEMMA StoredInd ==
  ASSUME IndInv, NEW c \in Chunks, NEW file \in Trio, task[c] = file, fs[c][file] # {},
         NEW next \in {AfterPut(file), "end"},
         r2' = [r2 EXCEPT ![c][file] = fs[c][file]], task' = [task EXCEPT ![c] = next],
         UNCHANGED <<proc, run, arrived, consumerVars, fs, partials, phase, sweeping, evicted, reopened>>
  PROVE  IndInv'
<1>1. /\ r2' \in [Chunks -> ObjectRecords]
      /\ \A d \in Chunks \ {c} : r2'[d] = r2[d]
      /\ file = "zst" => r2'[c].zst = fs[c].zst
      /\ file # "zst" => r2'[c].zst = r2[c].zst
      /\ file = "idx" => r2'[c].idx = fs[c].idx
      /\ file # "idx" => r2'[c].idx = r2[c].idx
      /\ file = "meta" => r2'[c].meta = fs[c].meta
      /\ file # "meta" => r2'[c].meta = r2[c].meta
      /\ file = "zst" => fs[c].zst # {}
      /\ file = "idx" => fs[c].idx # {}
      /\ file = "meta" => fs[c].meta # {}
  <2>1. r2 \in [Chunks -> ObjectRecords] /\ fs \in [Chunks -> FileRecords]
    BY DEF IndInv, TypeOK, FileRecords, ObjectRecords
  <2>2. CASE file = "zst"
    BY <2>1, <2>2 DEF ObjectRecords, FileRecords
  <2>3. CASE file = "idx"
    BY <2>1, <2>3 DEF ObjectRecords, FileRecords
  <2>4. CASE file = "meta"
    BY <2>1, <2>4 DEF ObjectRecords, FileRecords
  <2> QED BY <2>2, <2>3, <2>4 DEF Trio
<1>2. c \notin reopened =>
        /\ fs[c].meta # {} /\ sweeping[c] = "none"
        /\ file \in {"idx", "meta"} => r2[c].zst = fs[c].meta
        /\ file = "meta" => r2[c].idx = fs[c].meta
  BY DEF IndInv, UploadInOrder, Trio
<1>3. ASSUME c \notin reopened
      PROVE  /\ fs[c].zst \in {{}, fs[c].meta} /\ fs[c].idx \in {{}, fs[c].meta}
             /\ r2[c].meta # {} => Same(r2[c]) /\ r2[c].meta = fs[c].meta
  <2>1. r2[c].meta # {} => Same(r2[c]) /\ r2[c].meta = fs[c].meta
    BY <1>2, <1>3 DEF IndInv, PublishedIsLocal
  <2>2. CASE c \in evicted
    BY <2>1, <2>2, <1>2, <1>3 DEF IndInv, MarkedIsPublished, PublishedIsLocal
  <2>3. CASE c \notin evicted
    BY <2>1, <2>3, <1>2, <1>3 DEF IndInv, FilesInOrder, Same
  <2> QED BY <2>1, <2>2, <2>3
<1>4. c \notin reopened /\ r2'[c].meta # {} => Same(r2'[c]) /\ r2'[c].meta = fs[c].meta
  BY <1>1, <1>2, <1>3 DEF Same, Trio
<1>5. next \in {"end"} \cup {"idx", "meta", "mark"} /\ \A d \in Chunks : task'[d] = IF d = c THEN next ELSE task[d]
  BY DEF AfterPut, Trio, IndInv, TypeOK
<1>6. TypeOK'
  <2>1. task' \in [Chunks -> Trio \cup {"none", "wait", "mark", "end"}]
    BY <1>5 DEF IndInv, TypeOK, Trio
  <2> QED BY <1>1, <2>1 DEF IndInv, TypeOK, ObjectRecords, consumerVars
<1>7. MarkedIsPublished'
  BY <1>1 DEF IndInv, MarkedIsPublished
<1>8. PublishedIsLocal'
  <2> SUFFICES ASSUME NEW d \in Chunks \ reopened, r2'[d].meta # {}
               PROVE  /\ Same(r2'[d])
                      /\ fs[d].zst \in {{}, r2'[d].meta} /\ fs[d].idx \in {{}, r2'[d].meta}
                      /\ fs[d].meta \in {{}, r2'[d].meta}
                      /\ d \in evicted \/ fs[d].meta # {}
    BY DEF PublishedIsLocal, Same
  <2>1. CASE d = c
    BY <2>1, <1>2, <1>3, <1>4
  <2>2. CASE d # c
    BY <2>2, <1>1 DEF IndInv, PublishedIsLocal
  <2> QED BY <2>1, <2>2
<1>9. UploadInOrder'
  <2>1. CASE next = "end"
    BY <2>1, <1>1, <1>5 DEF IndInv, UploadInOrder
  <2>2. CASE next = AfterPut(file)
    BY <2>2, <1>1, <1>2, <1>3, <1>5 DEF IndInv, UploadInOrder, AfterPut, Trio
  <2> QED BY <2>1, <2>2
<1>10. CycleInv'
  BY <1>5 DEF IndInv, CycleInv, Trio
<1> QED BY <1>6, <1>7, <1>8, <1>9, <1>10, SameConsumer DEF IndInv

\* An upload that ends leaves everything else as it is.
LEMMA UploadEndsInd ==
  ASSUME IndInv, NEW c \in Chunks, task[c] # "none", task' = [task EXCEPT ![c] = "end"],
         UNCHANGED <<proc, run, arrived, consumerVars, fs, partials, r2, phase, sweeping, evicted, reopened>>
  PROVE  IndInv'
<1>1. \A d \in Chunks : task'[d] = IF d = c THEN "end" ELSE task[d]
  BY DEF IndInv, TypeOK
<1>2. TypeOK'
  <2>1. task' \in [Chunks -> Trio \cup {"none", "wait", "mark", "end"}]
    BY DEF IndInv, TypeOK
  <2> QED BY <2>1 DEF IndInv, TypeOK, consumerVars
<1>3. MarkedIsPublished' /\ PublishedIsLocal' /\ UploadInOrder' /\ CycleInv'
  BY <1>1 DEF IndInv, MarkedIsPublished, PublishedIsLocal, UploadInOrder, CycleInv, Same
<1> QED BY <1>2, <1>3, SameConsumer DEF IndInv

\* The marker is written when all three objects are stored.
LEMMA MarkInd ==
  ASSUME IndInv, NEW c \in Chunks, Mark(c)
  PROVE  IndInv'
<1>1. /\ task[c] = "mark" /\ task' = [task EXCEPT ![c] = "end"]
      /\ fs' = [fs EXCEPT ![c].uploaded = TRUE]
      /\ UNCHANGED <<proc, run, arrived, consumerVars, partials, r2, phase, sweeping, evicted, reopened>>
  BY DEF Mark
<1>2. fs \in [Chunks -> FileRecords]
  BY DEF IndInv, TypeOK, FileRecords
<1>3. /\ fs' \in [Chunks -> FileRecords]
      /\ \A d \in Chunks \ {c} : fs'[d] = fs[d]
      /\ fs'[c].zst = fs[c].zst /\ fs'[c].idx = fs[c].idx /\ fs'[c].meta = fs[c].meta
  BY <1>1, <1>2 DEF FileRecords
<1>4. \A d \in Chunks : task'[d] = IF d = c THEN "end" ELSE task[d]
  BY <1>1 DEF IndInv, TypeOK
<1>5. TypeOK'
  <2>1. task' \in [Chunks -> Trio \cup {"none", "wait", "mark", "end"}]
    BY <1>1 DEF IndInv, TypeOK
  <2> QED BY <1>1, <1>3, <2>1 DEF IndInv, TypeOK, FileRecords, consumerVars
<1>6. ConsumerInv' /\ HandInv'
  BY <1>1 DEF IndInv, ConsumerInv, HandInv, OpenChunks, consumerVars
<1>7. OpenIsNew' /\ JobInOrder'
  BY <1>1, <1>3 DEF IndInv, OpenIsNew, JobInOrder, consumerVars
<1>8. FilesInOrder'
  BY <1>1, <1>3 DEF IndInv, FilesInOrder, Same
<1>9. MarkedIsPublished'
  BY <1>1, <1>3 DEF IndInv, MarkedIsPublished, UploadInOrder
<1>10. PublishedIsLocal'
  BY <1>1, <1>3 DEF IndInv, PublishedIsLocal, Same
<1>11. UploadInOrder' /\ CycleInv'
  BY <1>1, <1>3, <1>4 DEF IndInv, UploadInOrder, CycleInv
<1> QED BY <1>5, <1>6, <1>7, <1>8, <1>9, <1>10, <1>11 DEF IndInv

\* The steps of one upload.
LEMMA UploadStepInd ==
  ASSUME IndInv, NEW c \in Chunks, UploadStep(c)
  PROVE  IndInv'
<1>1. ASSUME NEW file \in Trio, Put(c, file) PROVE IndInv'
  BY <1>1, StoredInd DEF Put
<1>2. ASSUME NEW file \in Trio \cup {"mark"}, PutFailed(c, file) PROVE IndInv'
  <2>1. CASE UNCHANGED r2
    BY <1>2, <2>1, UploadEndsInd DEF PutFailed, Trio
  <2>2. CASE file \in Trio /\ fs[c][file] # {} /\ r2' = [r2 EXCEPT ![c][file] = fs[c][file]]
    BY <1>2, <2>2, StoredInd DEF PutFailed
  <2> QED BY <1>2, <2>1, <2>2 DEF PutFailed
<1>3. CASE Mark(c)
  BY <1>3, MarkInd
<1> QED BY <1>1, <1>2, <1>3 DEF UploadStep

-----------------------------------------------------------------------------
(* The process.                                                            *)

\* Shutdown, crash and restart keep the files and the bucket.
LEMMA ProcessInd ==
  ASSUME IndInv, Process
  PROVE  IndInv'
<1>1. UNCHANGED <<arrived, fs, r2, evicted, reopened>>
  BY DEF Process, CancelUploader, Crash, Restart
<1>2. CASE CancelUploader
  <2>1. TypeOK' /\ ConsumerInv'
    BY <1>2 DEF IndInv, TypeOK, ConsumerInv, CancelUploader, OpenChunks, consumerVars, uploaderVars
  <2>2. OpenIsNew' /\ HandInv' /\ JobInOrder'
    BY <1>2 DEF IndInv, OpenIsNew, HandInv, JobInOrder, CancelUploader, consumerVars
  <2> QED BY <1>2, <2>1, <2>2, SameStore DEF IndInv, CancelUploader
<1>3. CASE Crash
  <2>1. TypeOK'
    BY <1>3 DEF IndInv, TypeOK, Crash, NoJob, Content
  <2>2. ConsumerInv' /\ OpenIsNew' /\ HandInv' /\ JobInOrder'
    BY <1>3, ChunksNat DEF ConsumerInv, OpenIsNew, HandInv, JobInOrder, Crash, OpenChunks, NoJob,
         NoSlot, SealSteps
  <2>3. FilesInOrder' /\ MarkedIsPublished' /\ PublishedIsLocal' /\ UploadInOrder' /\ CycleInv'
    BY <1>1, <1>3 DEF IndInv, FilesInOrder, MarkedIsPublished, PublishedIsLocal, UploadInOrder,
         CycleInv, Crash, Same
  <2> QED BY <2>1, <2>2, <2>3 DEF IndInv
<1>4. CASE Restart
  <2>1. TypeOK'
    BY <1>4, WriterAssumption DEF IndInv, TypeOK, Restart, SweepPartials
  <2>2. job = NoJob /\ pc = "ended"
    BY <1>4 DEF IndInv, ConsumerInv, Restart, SealSteps
  <2>3. ConsumerInv' /\ OpenIsNew' /\ HandInv' /\ JobInOrder'
    BY <1>4, <2>2, ChunksNat DEF IndInv, ConsumerInv, OpenIsNew, HandInv, JobInOrder, Restart,
         OpenChunks, NoJob, NoSlot, SealSteps
  <2> QED BY <1>4, <2>1, <2>3, SameStore DEF IndInv, Restart, uploaderVars
<1> QED BY <1>2, <1>3, <1>4 DEF Process

\* Every step preserves the invariant.
LEMMA NextInd ==
  IndInv /\ [Next]_vars => IndInv'
<1> SUFFICES ASSUME IndInv, [Next]_vars PROVE IndInv'
  OBVIOUS
<1>1. CASE Consumer
  BY <1>1, DeliverInd, PickStaleInd, CapInd, AppendInd, DueInd, SealStaleInd, RenameInd, IoErrorInd
  DEF Consumer
<1>2. CASE Uploader
  BY <1>2, ScanInd, EvictInd, LoopInd, UploadStepInd DEF Uploader, Loop
<1>3. CASE Process
  BY <1>3, ProcessInd
<1>4. CASE UNCHANGED vars
  <2>1. TypeOK'
    BY <1>4 DEF IndInv, TypeOK, vars, consumerVars, uploaderVars
  <2> QED BY <1>4, <2>1, SameStore, SameConsumer DEF IndInv, vars, uploaderVars
<1> QED BY <1>1, <1>2, <1>3, <1>4 DEF Next

-----------------------------------------------------------------------------
(* The theorems.                                                           *)

\* The strengthened invariant holds in every reachable state of the writer.
THEOREM WriterInvariant ==
  Spec => []IndInv
  BY InitInd, NextInd, PTL DEF Spec

\* Whatever the interleaving of sealing, uploads, sweep, failures and crashes,
\* a chunk that a scan takes for upload before its retention runs out has all
\* three files, written from the same messages.
THEOREM PendingIsCompleteHolds ==
  Spec => []PendingIsComplete
<1>1. IndInv => PendingIsComplete
  BY DEF IndInv, PendingIsComplete, FilesInOrder, ScanPending
<1> QED BY <1>1, WriterInvariant, PTL

\* The bucket never shows a .meta.json beside a payload or an index of another
\* upload, until the chunk is opened again after its retention.
THEOREM NeverPartlyPublishedHolds ==
  Spec => []NeverPartlyPublished
<1>1. IndInv => NeverPartlyPublished
  BY DEF IndInv, NeverPartlyPublished, PublishedIsLocal
<1> QED BY <1>1, WriterInvariant, PTL

\* Only renames, the sweep and the marker touch a final file.
LEMMA FileSteps ==
  ASSUME Next
  PROVE  Rename \/ (\E c \in Chunks : Evict(c) \/ Mark(c)) \/ UNCHANGED fs
  BY DEF Next, Consumer, Deliver, Tick, Cap, BeginSeal, AppendMsg, Due, Shutdown, SealStale, IoError,
         Uploader, Loop, Scan, SweepDone, Spawn, Join, Exit, UploadStep, Put, PutFailed,
         Process, CancelUploader, Crash, Restart

\* A step that removes a payload from NVMe is one of the sweep, and the chunk
\* it removes has been published with that payload, if it was not opened again.
LEMMA RemovedIsDurable ==
  ASSUME IndInv, Next, NEW c \in Chunks \ reopened, fs[c].zst # {}, fs'[c].zst = {}
  PROVE  Same(r2[c]) /\ r2[c].zst = fs[c].zst
<1>0. fs \in [Chunks -> FileRecords]
  BY DEF IndInv, TypeOK, FileRecords
<1>1. ASSUME Rename PROVE FALSE
  <2>1. job.msgs # {} /\ pc \in Trio /\ fs' = [fs EXCEPT ![job.chunk][pc] = job.msgs]
    BY <1>1 DEF IndInv, ConsumerInv, Rename, SealSteps, Trio
  <2>2. CASE pc = "zst"
    BY <1>0, <2>1, <2>2 DEF FileRecords
  <2>3. CASE pc = "idx"
    BY <1>0, <2>1, <2>3 DEF FileRecords
  <2>4. CASE pc = "meta"
    BY <1>0, <2>1, <2>4 DEF FileRecords
  <2> QED BY <2>1, <2>2, <2>3, <2>4 DEF Trio
<1>2. ASSUME NEW d \in Chunks, Mark(d) PROVE FALSE
  BY <1>0, <1>2 DEF Mark, FileRecords
<1>3. PICK d \in Chunks : Evict(d)
  BY <1>1, <1>2, FileSteps
<1>4. d = c
  <2>1. fs' = fs \/ fs' = [fs EXCEPT ![d][sweeping[d]] = NoFiles[sweeping[d]]]
    BY <1>3 DEF Evict
  <2> QED BY <1>0, <2>1
<1>5. c \in evicted
  BY <1>3, <1>4 DEF Evict, IndInv, CycleInv
<1> QED BY <1>5 DEF IndInv, MarkedIsPublished, PublishedIsLocal, Same

\* The retention sweep removes a payload only when the bucket holds the whole
\* chunk with that payload, also after interrupted sweeps and failed removals,
\* unless the chunk was opened again after its retention.
THEOREM EvictOnlyDurableHolds ==
  Spec => EvictOnlyDurable
<1>1. IndInv /\ [Next]_vars =>
        [\A c \in Chunks \ reopened : (fs[c].zst # {} /\ fs'[c].zst = {}) =>
           Same(r2[c]) /\ r2[c].zst = fs[c].zst]_vars
  BY RemovedIsDurable DEF vars
<1> QED BY <1>1, WriterInvariant, PTL DEF Spec, EvictOnlyDurable

-----------------------------------------------------------------------------
(* The refinement.                                                         *)

\* Only an upload that stores an object changes the bucket.
LEMMA BucketSteps ==
  ASSUME Next, r2' # r2
  PROVE  \E c \in Chunks, file \in Trio :
           /\ task[c] = file /\ fs[c][file] # {}
           /\ r2' = [r2 EXCEPT ![c][file] = fs[c][file]]
<1>1. PICK c \in Chunks : UploadStep(c)
  BY DEF Next, Consumer, Deliver, Tick, Cap, BeginSeal, AppendMsg, Due, Shutdown, SealStale, Rename,
         IoError, Uploader, Loop, Scan, Evict, SweepDone, Spawn, Join, Exit,
         Process, CancelUploader, Crash, Restart
<1>2. ~Mark(c)
  BY DEF Mark
<1> QED BY <1>1, <1>2 DEF UploadStep, Put, PutFailed

\* Only ingest opens an evicted chunk again, and it is published by then.
LEMMA ReopenSteps ==
  ASSUME IndInv, Next, reopened' # reopened
  PROVE  r2' = r2 /\ \E c \in Chunks : reopened' = reopened \cup {c} /\ Published[c] # {}
<1>1. AppendMsg
  BY DEF Next, Consumer, Deliver, Tick, Cap, Due, Shutdown, SealStale, Rename, IoError,
         Uploader, Loop, Scan, Evict, SweepDone, Spawn, Join, Exit, UploadStep, Put, PutFailed, Mark,
         Process, CancelUploader, Crash, Restart
<1>2. PICK c \in evicted : r2' = r2 /\ reopened' = reopened \cup {c} /\ c \notin reopened
  BY <1>1 DEF AppendMsg
<1>3. c \in Chunks /\ r2[c].meta # {} /\ r2[c].zst # {}
  BY <1>2 DEF IndInv, TypeOK, MarkedIsPublished, PublishedIsLocal, Same
<1> QED BY <1>2, <1>3 DEF Published

\* A step of the writer publishes one chunk, whole, opens a published chunk
\* again, replaces one that was opened again, or changes nothing of the archive.
LEMMA StepSimulates ==
  ASSUME IndInv, Next
  PROVE  A!Next \/ UNCHANGED A!vars
<1>0. CASE reopened' # reopened
  <2>1. Published' = Published
    BY <1>0, ReopenSteps DEF Published
  <2> QED BY <1>0, <2>1, ReopenSteps DEF A!Next, A!Reopen
<1>1. CASE r2' = r2 /\ reopened' = reopened
  BY <1>1 DEF Published, A!vars
<1>2. CASE r2' # r2 /\ reopened' = reopened
  <2>1. PICK c \in Chunks, file \in Trio :
           /\ task[c] = file /\ fs[c][file] # {}
           /\ r2' = [r2 EXCEPT ![c][file] = fs[c][file]]
    BY <1>2, BucketSteps
  <2>2. r2 \in [Chunks -> ObjectRecords] /\ fs \in [Chunks -> FileRecords]
    BY DEF IndInv, TypeOK, FileRecords, ObjectRecords
  <2>3. \A d \in Chunks \ {c} : r2'[d] = r2[d]
    BY <2>1, <2>2
  <2>0. CASE c \in reopened
    <3>1. r2[c].meta # {} /\ r2[c].zst # {}
      BY <2>0 DEF IndInv, MarkedIsPublished
    <3>2. r2'[c].meta # {} /\ r2'[c].zst \in A!Contents
      <4>1. CASE file = "zst"
        BY <2>1, <2>2, <3>1, <4>1 DEF ObjectRecords, FileRecords, Content, A!Contents
      <4>2. CASE file = "idx"
        BY <2>1, <2>2, <3>1, <4>2 DEF ObjectRecords, FileRecords, Content, A!Contents
      <4>3. CASE file = "meta"
        BY <2>1, <2>2, <3>1, <4>3 DEF ObjectRecords, FileRecords, Content, A!Contents
      <4> QED BY <4>1, <4>2, <4>3 DEF Trio
    <3>3. Published' = [Published EXCEPT ![c] = r2'[c].zst]
      BY <2>3, <3>2 DEF Published
    <3>4. A!Replace(c, r2'[c].zst)
      BY <1>2, <2>0, <3>3 DEF A!Replace
    <3> QED BY <3>2, <3>4 DEF A!Next
  <2>4. CASE c \notin reopened /\ r2[c].meta # {}
    <3>1. fs[c].zst # {} => fs[c].zst = r2[c].zst
      BY <2>4 DEF IndInv, PublishedIsLocal, Same
    <3>2. fs[c].meta # {} => fs[c].meta = r2[c].meta
      BY <2>4 DEF IndInv, PublishedIsLocal
    <3>3. r2'[c].meta = r2[c].meta /\ r2'[c].zst = r2[c].zst
      <4>1. CASE file = "zst"
        BY <2>1, <2>2, <3>1, <4>1 DEF ObjectRecords, FileRecords
      <4>2. CASE file = "idx"
        BY <2>1, <2>2, <4>2 DEF ObjectRecords, FileRecords
      <4>3. CASE file = "meta"
        BY <2>1, <2>2, <3>2, <4>3 DEF ObjectRecords, FileRecords
      <4> QED BY <4>1, <4>2, <4>3 DEF Trio
    <3> QED BY <1>2, <2>3, <3>3 DEF Published, A!vars
  <2>5. CASE c \notin reopened /\ r2[c].meta = {} /\ file # "meta"
    <3>1. r2'[c].meta = {}
      <4>1. CASE file = "zst"
        BY <2>1, <2>2, <2>5, <4>1 DEF ObjectRecords, FileRecords
      <4>2. CASE file = "idx"
        BY <2>1, <2>2, <2>5, <4>2 DEF ObjectRecords, FileRecords
      <4> QED BY <2>5, <4>1, <4>2 DEF Trio
    <3> QED BY <1>2, <2>3, <2>5, <3>1 DEF Published, A!vars
  <2>6. CASE c \notin reopened /\ r2[c].meta = {} /\ file = "meta"
    <3>1. r2'[c].meta = fs[c].meta /\ r2'[c].zst = r2[c].zst
      BY <2>1, <2>2, <2>6 DEF ObjectRecords, FileRecords
    <3>2. r2[c].zst = fs[c].meta /\ fs[c].meta # {} /\ fs[c].meta \in SUBSET Messages
      BY <2>1, <2>2, <2>6 DEF IndInv, UploadInOrder, FileRecords, Content
    <3>3. Published[c] = {} /\ Published' = [Published EXCEPT ![c] = r2[c].zst]
      <4>1. Published' = [d \in Chunks |-> IF d = c THEN r2[c].zst ELSE Published[d]]
        BY <2>3, <3>1, <3>2 DEF Published
      <4> QED BY <2>6, <4>1 DEF Published
    <3>4. A!Publish(c, r2[c].zst)
      BY <1>2, <3>3 DEF A!Publish
    <3>5. r2[c].zst \in A!Contents
      BY <3>2 DEF A!Contents
    <3> QED BY <3>4, <3>5 DEF A!Next
  <2> QED BY <2>0, <2>4, <2>5, <2>6
<1> QED BY <1>0, <1>1, <1>2

\* The writer implements the archive for any slots, chunk length, number of
\* uploads and of restarts: a chunk appears in the bucket whole, in one step, and
\* neither repeated uploads nor restarts change it; only a chunk that ingest has
\* opened again after its retention may be replaced.
THEOREM ImplementsArchiveHolds ==
  Spec => ImplementsArchive
<1>1. Init => A!Init
  BY DEF Init, A!Init, Published, NoObjects
<1>2. IndInv /\ [Next]_vars => [A!Next]_(A!vars)
  <2>1. UNCHANGED vars => UNCHANGED A!vars
    BY DEF vars, Published, A!vars
  <2> QED BY <2>1, StepSimulates
<1> QED BY <1>1, <1>2, WriterInvariant, PTL DEF Spec, ImplementsArchive, A!Spec

\* The variables of the writer stay within their types.
THEOREM TypeCorrect ==
  Spec => []TypeOK
<1>1. IndInv => TypeOK
  BY DEF IndInv
<1> QED BY <1>1, WriterInvariant, PTL
=============================================================================
