------------------------------- MODULE Writer -------------------------------
(***************************************************************************)
(* The writer process over one stream: the lane's consumer task, whose     *)
(* chunker handlers are taken apart into their file-system operations, the *)
(* uploader with its concurrent uploads and its retention sweep, the R2    *)
(* bucket, and crashes and recovery between any two of these steps.  The   *)
(* three streams have directories, lanes and keys of their own, so one     *)
(* stream stands for each.                                                 *)
(*                                                                         *)
(* A message is its arrival number.  A file's content is the set of        *)
(* messages it was written from and {} is a file that does not exist: a    *)
(* chunk always holds at least one message.  Which slots a restarted lane  *)
(* asks for is Chunker's subject; here any slot may arrive in any run.     *)
(***************************************************************************)
EXTENDS ChunkPolicy

CONSTANTS
  MaxMsgs,               \* bound: messages received over all runs
  MaxRuns,               \* bound: runs of the process
  MaxConcurrentUploads,  \* uploader.max_concurrent_uploads
  RemovalMayFail         \* may the removal of a local file fail

ASSUME WriterAssumption ==
  /\ MaxMsgs \in Nat
  /\ MaxRuns \in Nat \ {0}
  /\ MaxConcurrentUploads \in Nat \ {0}
  /\ RemovalMayFail \in BOOLEAN

VARIABLES
  proc,       \* "up", "draining" (lanes told to stop), "stopping" (uploader told), "down"
  run,        \* which run of the process this is
  arrived,    \* messages received so far, over all runs
  pc,         \* where the consumer task is
  slotIn,     \* the slot of the message in hand
  open,       \* chunk -> messages in its encoder, {} when not open
  watermark,  \* highest slot of this run
  stale,      \* chunks that tick or shutdown has still to seal
  job,        \* the chunk seal_chunk is working on, and where it returns to
  fs,         \* chunk -> its final files on NVMe
  partials,   \* the .partial files on NVMe
  r2,         \* chunk -> its objects in the bucket
  phase,      \* where the uploader's loop is
  task,       \* chunk -> progress of its upload in this cycle
  sweeping,   \* chunk -> the file the retention sweep removes next, or "none"
  evicted,    \* history: chunks whose retention has run out
  reopened    \* history: evicted chunks that ingest has opened again

consumerVars == <<pc, slotIn, open, watermark, stale, job>>
uploaderVars == <<phase, task, sweeping>>
vars == <<proc, run, arrived, consumerVars, fs, partials, r2, uploaderVars, evicted, reopened>>

Messages == 1..MaxMsgs
Trio == {"zst", "idx", "meta"}
NoFiles == [zst |-> {}, idx |-> {}, meta |-> {}, uploaded |-> FALSE]
NoObjects == [zst |-> {}, idx |-> {}, meta |-> {}]
NoJob == [chunk |-> NoSlot, msgs |-> {}, ret |-> "idle"]

OpenChunks == {c \in Chunks : open[c] # {}}
Oldest(S) == CHOOSE c \in S : \A d \in S : c =< d

-----------------------------------------------------------------------------
(* The consumer task: chunker.ingest, tick, shutdown and seal_chunk.       *)

\* ingest begins; a message older than the tolerance ends there.
Deliver(slot) ==
  LET wm == Advance(watermark, slot)
  IN  /\ proc = "up" /\ pc = "idle"
      /\ arrived < MaxMsgs
      /\ arrived' = arrived + 1
      /\ watermark' = wm
      /\ slotIn' = slot
      /\ pc' = IF TooLate(slot, wm) THEN "idle" ELSE "cap"
      /\ UNCHANGED <<proc, run, open, stale, job, fs, partials, r2, uploaderVars, evicted, reopened>>

\* seal_chunk(c) begins: the chunk leaves the map, its .zst.partial is
\* finished and synced, its .meta.json.partial is written and synced.
BeginSeal(c, ret) ==
  /\ job' = [chunk |-> c, msgs |-> open[c], ret |-> ret]
  /\ open' = [open EXCEPT ![c] = {}]
  /\ partials' = partials \cup {<<c, "meta">>}
  /\ pc' = "zst"

\* ingest's cap loop: seal the oldest open chunk while there are too many.
Cap ==
  /\ pc = "cap"
  /\ IF open[ChunkOf(slotIn)] = {} /\ Cardinality(OpenChunks) >= MaxOpenChunks
     THEN BeginSeal(Oldest(OpenChunks), "cap")
     ELSE pc' = "append" /\ UNCHANGED <<job, open, partials>>
  /\ UNCHANGED <<proc, run, arrived, slotIn, watermark, stale, fs, r2, uploaderVars, evicted, reopened>>

ConflictGuard_Never(c) == FALSE

\* open_chunk declines a range with a final .zst or .meta.json.
ConflictGuard(c) == fs[c].zst # {} \/ fs[c].meta # {}

(***************************************************************************)
(* ingest opens the chunk if it may, and appends if the chunk is open.     *)
(* The guard looks at local files only, so a chunk whose files retention   *)
(* has removed is opened again when another of its slots arrives: the      *)
(* cluster halts for longer than local_retention_hours and resumes inside  *)
(* a chunk that was sealed for idleness, or a restarted lane is sent old   *)
(* slots.                                                                  *)
(***************************************************************************)
AppendMsg ==
  LET c == ChunkOf(slotIn)
  IN  /\ pc = "append"
      /\ pc' = "due"
      /\ IF open[c] = {} /\ ConflictGuard(c)
         THEN UNCHANGED <<open, partials, reopened>>
         ELSE /\ open' = [open EXCEPT ![c] = @ \cup {arrived}]
              /\ partials' = partials \cup {<<c, "zst">>}
              /\ reopened' = reopened \cup ({c} \cap evicted)
      /\ UNCHANGED <<proc, run, arrived, slotIn, watermark, stale, job, fs, r2,
                     uploaderVars, evicted>>

\* ingest's last loop: seal what the watermark has left behind.
Due ==
  LET due == WatermarkSealed(OpenChunks, watermark)
  IN  /\ pc = "due"
      /\ IF due # {}
         THEN BeginSeal(Oldest(due), "due")
         ELSE pc' = "idle" /\ UNCHANGED <<job, open, partials>>
      /\ UNCHANGED <<proc, run, arrived, slotIn, watermark, stale, fs, r2,
                     uploaderVars, evicted, reopened>>

\* tick finds the chunks idle since message a or longer.
Tick(a) ==
  /\ proc = "up" /\ pc = "idle"
  /\ stale' = {c \in OpenChunks : \A m \in open[c] : m =< a}
  /\ stale' # {}
  /\ pc' = "stale"
  /\ UNCHANGED <<proc, run, arrived, slotIn, open, watermark, job, fs, partials, r2,
                 uploaderVars, evicted, reopened>>

\* The stream or the process ends: the channel drains and closes, and the
\* consumer turns to chunker.shutdown.
Shutdown ==
  /\ proc = "up" /\ pc = "idle"
  /\ proc' = "draining"
  /\ stale' = OpenChunks
  /\ pc' = "stale"
  /\ UNCHANGED <<run, arrived, slotIn, open, watermark, job, fs, partials, r2,
                 uploaderVars, evicted, reopened>>

\* The sealing loop of tick and of shutdown.
SealStale ==
  /\ pc = "stale"
  /\ IF stale # {}
     THEN /\ BeginSeal(Oldest(stale), "stale")
          /\ stale' = stale \ {Oldest(stale)}
     ELSE /\ pc' = IF proc = "up" THEN "idle" ELSE "ended"
          /\ UNCHANGED <<job, open, partials, stale>>
  /\ UNCHANGED <<proc, run, arrived, slotIn, watermark, fs, r2, uploaderVars, evicted, reopened>>

\* The steps of seal_chunk after BeginSeal, in the order of the code.
SealSteps == {"zst", "idx", "meta"}

AfterSealStep_MetaFirst(step) ==
  CASE step = "zst" -> "meta" [] step = "meta" -> "idx" [] OTHER -> job.ret

\* The .zst is renamed first and the .meta.json, which announces the chunk, last.
AfterSealStep(step) ==
  CASE step = "zst" -> "idx" [] step = "idx" -> "meta" [] OTHER -> job.ret

\* seal_chunk renames one .partial to its final name.
Rename ==
  /\ pc \in SealSteps
  /\ fs' = [fs EXCEPT ![job.chunk][pc] = job.msgs]
  /\ partials' = partials \ {<<job.chunk, pc>>}
  /\ pc' = AfterSealStep(pc)
  /\ job' = IF AfterSealStep(pc) = job.ret THEN NoJob ELSE job
  /\ UNCHANGED <<proc, run, arrived, slotIn, open, watermark, stale, r2, uploaderVars, evicted, reopened>>

\* A file operation fails: the handler returns the error, the consumer task
\* ends and drops the chunker with its open chunks.  The uploader runs on.
IoError ==
  /\ pc \in SealSteps \cup {"append"}
  /\ pc' = "failed"
  /\ open' = [c \in Chunks |-> {}]
  /\ stale' = {}
  /\ job' = NoJob
  /\ \/ UNCHANGED partials
     \/ pc = "idx" /\ partials' = partials \cup {<<job.chunk, "idx">>}
  /\ UNCHANGED <<proc, run, arrived, slotIn, watermark, fs, r2, uploaderVars, evicted, reopened>>

-----------------------------------------------------------------------------
(* The uploader: one cycle scans, sweeps, uploads and sleeps.              *)

\* scan_pending: sealed chunks without an .uploaded marker.
ScanPending == {c \in Chunks : fs[c].meta # {} /\ ~fs[c].uploaded}

\* A cycle begins.  Any set of marked chunks may have aged past retention.
Scan(aged) ==
  /\ phase = "sleep" /\ proc \in {"up", "draining"}
  /\ aged \subseteq {c \in Chunks : fs[c].uploaded}
  /\ phase' = "sweep"
  /\ task' = [c \in Chunks |-> IF c \in ScanPending THEN "wait" ELSE "none"]
  /\ sweeping' = [c \in Chunks |-> IF c \in aged THEN "zst" ELSE "none"]
  /\ evicted' = evicted \cup aged
  /\ UNCHANGED <<proc, run, arrived, consumerVars, fs, partials, r2, reopened>>

\* sweep_retention removes .zst, .idx, .meta.json and last the marker.
AfterEvict(file) ==
  CASE file = "zst" -> "idx" [] file = "idx" -> "meta" [] file = "meta" -> "uploaded"
    [] OTHER -> "none"

\* The sweep removes one file of a chunk, if it is still there; it finishes
\* a chunk before it turns to the next.  A removal that fails is logged and
\* the sweep goes on to the next file.
Evict(c) ==
  /\ phase = "sweep" /\ sweeping[c] # "none"
  /\ \A d \in Chunks \ {c} : sweeping[d] \in {"none", "zst"}
  /\ \/ fs' = [fs EXCEPT ![c][sweeping[c]] = NoFiles[sweeping[c]]]
     \/ RemovalMayFail /\ UNCHANGED fs
  /\ sweeping' = [sweeping EXCEPT ![c] = AfterEvict(sweeping[c])]
  /\ UNCHANGED <<proc, run, arrived, consumerVars, partials, r2, phase, task, evicted, reopened>>

SweepDone ==
  /\ phase = "sweep" /\ \A c \in Chunks : sweeping[c] = "none"
  /\ phase' = "upload"
  /\ UNCHANGED <<proc, run, arrived, consumerVars, fs, partials, r2, task, sweeping, evicted, reopened>>

InFlight == {c \in Chunks : task[c] \in Trio \cup {"mark"}}
Waiting == {c \in Chunks : task[c] = "wait"}

\* The loop takes a permit and spawns the oldest waiting upload.
Spawn ==
  /\ phase = "upload" /\ Waiting # {}
  /\ Cardinality(InFlight) < MaxConcurrentUploads
  /\ task' = [task EXCEPT ![Oldest(Waiting)] = "zst"]
  /\ UNCHANGED <<proc, run, arrived, consumerVars, fs, partials, r2, phase, sweeping, evicted, reopened>>

AfterPut_MetaFirst(file) == CASE file = "zst" -> "meta" [] file = "meta" -> "idx" [] OTHER -> "mark"

\* upload_chunk puts .zst, .idx and .meta.json in this order, then marks.
AfterPut(file) == CASE file = "zst" -> "idx" [] file = "idx" -> "meta" [] OTHER -> "mark"

\* One file reaches the bucket (put_with_retry, after any failed attempts).
Put(c, file) ==
  /\ task[c] = file
  /\ fs[c][file] # {}
  /\ r2' = [r2 EXCEPT ![c][file] = fs[c][file]]
  /\ task' = [task EXCEPT ![c] = AfterPut(file)]
  /\ UNCHANGED <<proc, run, arrived, consumerVars, fs, partials, phase, sweeping, evicted, reopened>>

PutFailed_Marks(c, file) ==
  /\ task[c] = file
  /\ fs' = [fs EXCEPT ![c].uploaded = TRUE]
  /\ task' = [task EXCEPT ![c] = "end"]
  /\ UNCHANGED <<proc, run, arrived, consumerVars, partials, r2, phase, sweeping, evicted, reopened>>

\* The attempts are exhausted, or the marker cannot be written, and the
\* upload is left to a later scan; the object may have been stored all the
\* same, with only the answer lost.
PutFailed(c, file) ==
  /\ task[c] = file
  /\ \/ UNCHANGED r2
     \/ file \in Trio /\ fs[c][file] # {} /\ r2' = [r2 EXCEPT ![c][file] = fs[c][file]]
  /\ task' = [task EXCEPT ![c] = "end"]
  /\ UNCHANGED <<proc, run, arrived, consumerVars, fs, partials, phase, sweeping, evicted, reopened>>

\* All three files are in the bucket: write the .uploaded marker.
Mark(c) ==
  /\ task[c] = "mark"
  /\ fs' = [fs EXCEPT ![c].uploaded = TRUE]
  /\ task' = [task EXCEPT ![c] = "end"]
  /\ UNCHANGED <<proc, run, arrived, consumerVars, partials, r2, phase, sweeping, evicted, reopened>>

\* join_all: every upload of the cycle has ended.
Join ==
  /\ phase = "upload" /\ \A c \in Chunks : task[c] \in {"none", "end"}
  /\ phase' = "sleep"
  /\ task' = [c \in Chunks |-> "none"]
  /\ UNCHANGED <<proc, run, arrived, consumerVars, fs, partials, r2, sweeping, evicted, reopened>>

-----------------------------------------------------------------------------
(* The process: two-phase shutdown, crash, and recovery at startup.        *)

\* The lanes have ended cleanly and the grace period is over.  It is measured
\* in wall-clock time, so the uploader may be anywhere in its cycle.
CancelUploader ==
  /\ proc = "draining" /\ pc = "ended"
  /\ proc' = "stopping"
  /\ UNCHANGED <<run, arrived, consumerVars, fs, partials, r2, uploaderVars, evicted, reopened>>

\* The uploader notices the cancellation between two cycles; main returns.
Exit ==
  /\ proc = "stopping" /\ phase = "sleep"
  /\ proc' = "down"
  /\ UNCHANGED <<run, arrived, consumerVars, fs, partials, r2, uploaderVars, evicted, reopened>>

\* The process is killed, or calls exit(1) after a lane failed: encoders,
\* handlers and uploads stop where they are.
Crash ==
  /\ proc # "down"
  /\ proc' = "down"
  /\ pc' = "ended"
  /\ open' = [c \in Chunks |-> {}]
  /\ stale' = {}
  /\ job' = NoJob
  /\ phase' = "sleep"
  /\ task' = [c \in Chunks |-> "none"]
  /\ sweeping' = [c \in Chunks |-> "none"]
  /\ UNCHANGED <<run, arrived, slotIn, watermark, fs, partials, r2, evicted, reopened>>

\* recovery's sweep_partials: what is left of the .partial files.
SweepPartials == {}

\* A new process: recovery sweeps, then lane and uploader start afresh.
Restart ==
  /\ proc = "down" /\ run < MaxRuns
  /\ run' = run + 1
  /\ proc' = "up"
  /\ partials' = SweepPartials
  /\ pc' = "idle"
  /\ watermark' = NoSlot
  /\ slotIn' = NoSlot
  /\ UNCHANGED <<arrived, open, stale, job, fs, r2, phase, task, sweeping, evicted, reopened>>

-----------------------------------------------------------------------------
Init ==
  /\ proc = "up" /\ run = 1 /\ arrived = 0
  /\ pc = "idle" /\ slotIn = NoSlot /\ watermark = NoSlot
  /\ open = [c \in Chunks |-> {}]
  /\ stale = {} /\ job = NoJob
  /\ fs = [c \in Chunks |-> NoFiles]
  /\ partials = {}
  /\ r2 = [c \in Chunks |-> NoObjects]
  /\ phase = "sleep" /\ task = [c \in Chunks |-> "none"]
  /\ sweeping = [c \in Chunks |-> "none"]
  /\ evicted = {} /\ reopened = {}

Consumer ==
  \/ \E slot \in Slots : Deliver(slot)
  \/ \E a \in 1..arrived : Tick(a)
  \/ Cap \/ AppendMsg \/ Due \/ Shutdown \/ SealStale \/ Rename \/ IoError

\* The uploader's loop, and the upload of one chunk.
Loop ==
  \/ \E aged \in SUBSET Chunks : Scan(aged)
  \/ \E c \in Chunks : Evict(c)
  \/ SweepDone \/ Spawn \/ Join \/ Exit

UploadStep(c) ==
  \/ \E file \in Trio : Put(c, file)
  \/ \E file \in Trio \cup {"mark"} : PutFailed(c, file)
  \/ Mark(c)

Uploader == Loop \/ \E c \in Chunks : UploadStep(c)

Process == CancelUploader \/ Crash \/ Restart

Next == Consumer \/ Uploader \/ Process

Spec == Init /\ [][Next]_vars

(***************************************************************************)
(* Fairness: the uploader's loop is a spawned task that keeps being        *)
(* scheduled, an upload gives up after a bounded number of attempts, and   *)
(* an R2 that is reachable again and again lets one of endlessly many      *)
(* uploads of a chunk complete.                                            *)
(***************************************************************************)
Fairness ==
  /\ WF_vars(Loop)
  /\ \A c \in Chunks : WF_vars(UploadStep(c))
  /\ \A c \in Chunks : []<>(c \in InFlight) => []<><<Put(c, "meta")>>_vars

FairSpec == Spec /\ Fairness

-----------------------------------------------------------------------------
Content == SUBSET Messages

TypeOK ==
  /\ proc \in {"up", "draining", "stopping", "down"}
  /\ run \in 1..MaxRuns
  /\ arrived \in 0..MaxMsgs
  /\ pc \in {"idle", "cap", "append", "due", "stale", "ended", "failed"} \cup SealSteps
  /\ slotIn \in Slots \cup {NoSlot}
  /\ open \in [Chunks -> Content]
  /\ watermark \in Slots \cup {NoSlot}
  /\ stale \subseteq Chunks
  /\ job \in [chunk : Chunks \cup {NoSlot}, msgs : Content, ret : {"idle", "cap", "due", "stale"}]
  /\ fs \in [Chunks -> [zst : Content, idx : Content, meta : Content, uploaded : BOOLEAN]]
  /\ partials \subseteq Chunks \X Trio
  /\ r2 \in [Chunks -> [zst : Content, idx : Content, meta : Content]]
  /\ phase \in {"sleep", "sweep", "upload"}
  /\ task \in [Chunks -> Trio \cup {"none", "wait", "mark", "end"}]
  /\ sweeping \in [Chunks -> Trio \cup {"uploaded", "none"}]
  /\ evicted \subseteq Chunks /\ reopened \subseteq Chunks

Same(f) == f.zst = f.meta /\ f.idx = f.meta

(***************************************************************************)
(* Whatever the moment of a crash or of a failed file operation, a chunk   *)
(* that the next scan takes for upload has all three files, written from   *)
(* the same messages: seal_chunk publishes .meta.json last, and            *)
(* sweep_retention removes the .uploaded marker last.  (A chunk that was   *)
(* evicted may lose its marker and keep its .meta.json, when that removal  *)
(* failed: it is scanned again, and NeverPartlyPublished covers it.)       *)
(***************************************************************************)
PendingIsComplete == \A c \in ScanPending \ evicted : Same(fs[c])

(***************************************************************************)
(* docs/format.md: "a partially uploaded chunk is then never picked up".   *)
(* A .meta.json in the bucket means that the payload and the index beside  *)
(* it are those it was uploaded with, through failed, repeated and         *)
(* interrupted uploads.  A chunk that is opened again after its retention  *)
(* is the exception: its second upload replaces the objects one by one.    *)
(***************************************************************************)
NeverPartlyPublished == \A c \in Chunks \ reopened : r2[c].meta # {} => Same(r2[c])

(***************************************************************************)
(* sweep_retention removes a payload from NVMe only when the bucket holds  *)
(* the complete chunk with that payload, unless the chunk was opened again *)
(* after its retention: the marker of the first upload may still be there. *)
(***************************************************************************)
EvictOnlyDurable ==
  [][\A c \in Chunks \ reopened : (fs[c].zst # {} /\ fs'[c].zst = {}) =>
       Same(r2[c]) /\ r2[c].zst = fs[c].zst]_vars

\* The bucket as readers see it: a chunk exists once its .meta.json does.
Published == [c \in Chunks |-> IF r2[c].meta # {} THEN r2[c].zst ELSE {}]

A == INSTANCE Archive WITH published <- Published

(***************************************************************************)
(* The writer implements the archive: a chunk appears in the bucket whole, *)
(* in one step, and repeated uploads never change it; only a chunk that    *)
(* the chunker has opened again after its retention may change.            *)
(***************************************************************************)
ImplementsArchive == A!Spec

(***************************************************************************)
(* Sealed chunks reach the bucket unless the process ends first: again and *)
(* again every chunk with a local .meta.json is there, since a failed      *)
(* upload is found again by a later scan, and neither the sweep nor other  *)
(* uploads starve it.                                                      *)
(***************************************************************************)
SealedIsUploaded == []<>(proc = "down" \/ \A c \in Chunks : fs[c].meta # {} => r2[c].meta # {})
-----------------------------------------------------------------------------
(* The strengthening that makes the properties above inductive.            *)

\* The consumer's bookkeeping: a job while seal_chunk runs, and chunks to seal
\* only in the loop of tick and shutdown.
ConsumerInv ==
  /\ IF pc \in SealSteps
     THEN job.chunk \in Chunks /\ job.msgs # {} /\ job.ret \in {"cap", "due", "stale"}
     ELSE job = NoJob
  /\ stale \subseteq OpenChunks
  /\ stale # {} => pc = "stale" \/ job.ret = "stale"
  /\ proc \in {"stopping", "down"} => pc = "ended"

\* An open chunk is new, or opened again: nothing of it is final.
OpenIsNew ==
  \A c \in Chunks : open[c] # {} =>
    /\ c \in evicted => c \in reopened
    /\ job.chunk # c /\ fs[c].zst = {} /\ fs[c].meta = {}

\* Until ingest has appended it, there is a message in hand.
HandInv ==
  pc \in {"cap", "append"} \/ job.ret = "cap" => arrived > 0 /\ slotIn \in Slots

\* How far seal_chunk has got with its renames.
JobInOrder ==
  \A c \in Chunks \ reopened : job.chunk = c =>
    /\ c \notin evicted /\ fs[c].meta = {}
    /\ pc = "zst" => fs[c].zst = {}
    /\ pc \in {"idx", "meta"} => fs[c].zst = job.msgs
    /\ pc = "meta" => fs[c].idx = job.msgs

\* Until its retention runs out, the files of a chunk appear in this order.
FilesInOrder ==
  \A c \in Chunks \ evicted :
    /\ fs[c].idx # {} => fs[c].zst = fs[c].idx
    /\ fs[c].meta # {} => Same(fs[c])

\* What is marked, or was, is published, and only such a chunk is opened again.
MarkedIsPublished ==
  \A c \in Chunks :
    /\ fs[c].uploaded \/ c \in evicted => r2[c].meta # {}
    /\ c \in reopened => c \in evicted /\ r2[c].zst # {}

\* What is published is whole, and the files left on NVMe are the published ones.
PublishedIsLocal ==
  \A c \in Chunks \ reopened : r2[c].meta # {} =>
    /\ Same(r2[c])
    /\ fs[c].zst \in {{}, r2[c].meta} /\ fs[c].idx \in {{}, r2[c].meta}
    /\ fs[c].meta \in {{}, r2[c].meta}
    /\ c \in evicted \/ fs[c].meta # {}

\* How far an upload has got; the sweep of its cycle leaves its chunk alone.
UploadInOrder ==
  \A c \in Chunks \ reopened : task[c] \in {"wait", "zst", "idx", "meta", "mark"} =>
    /\ fs[c].meta # {} /\ sweeping[c] = "none"
    /\ task[c] \in {"idx", "meta"} => r2[c].zst = fs[c].meta
    /\ task[c] = "meta" => r2[c].idx = fs[c].meta
    /\ task[c] = "mark" => r2[c].meta # {}

\* The sweep and the uploads of a cycle are over when the next one scans.
CycleInv ==
  \A c \in Chunks :
    /\ phase = "sleep" => task[c] = "none"
    /\ sweeping[c] # "none" => phase = "sweep" /\ c \in evicted

IndInv ==
  /\ TypeOK /\ ConsumerInv /\ OpenIsNew /\ HandInv /\ JobInOrder /\ FilesInOrder
  /\ MarkedIsPublished /\ PublishedIsLocal /\ UploadInOrder /\ CycleInv
=============================================================================
