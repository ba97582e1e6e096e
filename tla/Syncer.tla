------------------------------- MODULE Syncer -------------------------------
(***************************************************************************)
(* The reader's syncer: it lists the bucket, downloads the chunks of the   *)
(* retention window that are missing on NVMe, sweeps those that fell out   *)
(* of it and republishes the catalog the server plans replays from, with   *)
(* failures of every call and crashes between any two of these steps.      *)
(*                                                                         *)
(* The bucket is the archive that Writer implements, without chunks that   *)
(* were opened again after their retention.  It is then write-once, so a   *)
(* file is only present or absent here and a chunk in it is complete.      *)
(* Reading NVMe does not fail here: a directory or a .meta.json that cannot*)
(* be read hides its chunks from one scan in the code.                     *)
(* Slots are counted in chunks: chunk <<s, n>> of stream s ends at n + 1.  *)
(***************************************************************************)
EXTENDS Integers, FiniteSets

CONSTANTS
  Chunks,                  \* the chunks the writer may publish, <<stream, number>>
  Retention,               \* local_retention_hours, in chunks of slots
  MaxConcurrentDownloads,  \* reader.max_concurrent_downloads
  MaxRuns,                 \* bound: runs of the reader process
  RemovalMayFail           \* may the removal of a local file fail

ASSUME SyncerAssumption ==
  /\ Chunks \subseteq Nat \X Nat /\ IsFiniteSet(Chunks)
  /\ Retention \in Nat
  /\ MaxConcurrentDownloads \in Nat \ {0}
  /\ MaxRuns \in Nat \ {0}
  /\ RemovalMayFail \in BOOLEAN

VARIABLES
  bucket,     \* the chunks whose three objects are in R2
  disk,       \* chunk -> its final files on NVMe
  part,       \* chunk -> the files of which a .partial is on NVMe
  catalog,    \* the chunks of the served catalog
  pc,         \* where the syncer's loop is, "down" when there is no process
  unlisted,   \* streams whose pages list_chunks has still to fetch
  listed,     \* what list_chunks has found
  task,       \* chunk -> progress of its download in this cycle
  sweeping,   \* chunk -> the file the retention sweep removes next, or "none"
  changed,    \* did this cycle download or sweep a chunk
  run,        \* which run of the process this is
  swept       \* history: chunks the sweep has evicted

cycleVars == <<unlisted, listed, task, sweeping, changed>>
vars == <<bucket, disk, part, catalog, pc, cycleVars, run, swept>>

Streams == {c[1] : c \in Chunks}
Trio == {"zst", "idx", "meta"}
Idle == [c \in Chunks |-> "none"]

EndSlot(c) == c[2] + 1

\* The order of diff_for_sync's result: by stream, then by start slot.
Precedes(c, d) == c[1] < d[1] \/ (c[1] = d[1] /\ c[2] =< d[2])

-----------------------------------------------------------------------------
\* The largest end slot of the chunks in S, over all streams; 0 if empty.
NewestEnd(S) ==
  IF S = {} THEN 0
  ELSE CHOOSE n \in {EndSlot(c) : c \in S} : \A c \in S : EndSlot(c) =< n

\* The window that diff_for_sync and sweep_retention share, measured from
\* the newest chunk of S.  (End slots are positive: the code's saturation at
\* zero makes no difference.)
InWindow(c, S) == EndSlot(c) >= NewestEnd(S) - Retention

LocalChunks_AnyFile == {c \in Chunks : disk[c] # {}}

\* local_chunks: a chunk is present when its .meta.json is.  (A directory
\* that cannot be read counts as empty in the code; here it can be read.)
LocalChunks == {c \in Chunks : "meta" \in disk[c]}

\* diff_for_sync.
DiffForSync == {c \in listed : InWindow(c, listed)} \ LocalChunks

Victims_OffByOne == {c \in LocalChunks : EndSlot(c) =< NewestEnd(LocalChunks) - Retention}

\* What sweep_retention evicts.
Victims == {c \in LocalChunks : ~InWindow(c, LocalChunks)}

ScanCatalog_MetaOnly == LocalChunks

\* ChunkCatalog::scan: a .meta.json with both of its siblings.  (The code
\* skips one that it cannot read or parse, or of another schema version; the
\* uploader publishes none such, and reading does not fail here.)
ScanCatalog == {c \in Chunks : disk[c] = Trio}

-----------------------------------------------------------------------------
\* The writer publishes a chunk; uploads finish in any order.
Publish(c) ==
  /\ c \notin bucket
  /\ bucket' = bucket \cup {c}
  /\ UNCHANGED <<disk, part, catalog, pc, cycleVars, run, swept>>

\* A cycle begins with list_chunks.
Wake ==
  /\ pc = "sleep"
  /\ pc' = "list"
  /\ unlisted' = Streams
  /\ listed' = {}
  /\ UNCHANGED <<bucket, disk, part, catalog, task, sweeping, changed, run, swept>>

\* The pages of one stream; the bucket may grow between two of them.
ListPage(s) ==
  /\ pc = "list" /\ s \in unlisted
  /\ unlisted' = unlisted \ {s}
  /\ listed' = listed \cup {c \in bucket : c[1] = s}
  /\ UNCHANGED <<bucket, disk, part, catalog, pc, task, sweeping, changed, run, swept>>

\* list_chunks fails: the loop sleeps and tries again.
ListFailed ==
  /\ pc = "list"
  /\ pc' = "sleep"
  /\ UNCHANGED <<bucket, disk, part, catalog, cycleVars, run, swept>>

\* The listing is complete and is compared with the disk.
Diff ==
  /\ pc = "list" /\ unlisted = {}
  /\ pc' = "download"
  /\ task' = [c \in Chunks |-> IF c \in DiffForSync THEN "wait" ELSE "none"]
  /\ UNCHANGED <<bucket, disk, part, catalog, unlisted, listed, sweeping, changed,
                 run, swept>>

InFlight == {c \in Chunks : task[c] \in Trio}
Waiting == {c \in Chunks : task[c] = "wait"}

\* The loop takes a permit and spawns the next download.
Spawn ==
  /\ pc = "download" /\ Waiting # {}
  /\ Cardinality(InFlight) < MaxConcurrentDownloads
  /\ LET first == CHOOSE c \in Waiting : \A d \in Waiting : Precedes(c, d)
     IN  task' = [task EXCEPT ![first] = "zst"]
  /\ UNCHANGED <<bucket, disk, part, catalog, pc, unlisted, listed, sweeping, changed,
                 run, swept>>

AfterGet_MetaFirst(file) ==
  CASE file = "zst" -> "meta" [] file = "meta" -> "idx" [] OTHER -> "done"

\* download_chunk fetches .zst, .idx and .meta.json in this order.
AfterGet(file) == CASE file = "zst" -> "idx" [] file = "idx" -> "meta" [] OTHER -> "done"

\* One file is fetched to its .partial (after any failed attempts) and renamed.
Get(c, file) ==
  /\ task[c] = file
  /\ disk' = [disk EXCEPT ![c] = @ \cup {file}]
  /\ part' = [part EXCEPT ![c] = @ \ {file}]
  /\ task' = [task EXCEPT ![c] = AfterGet(file)]
  /\ UNCHANGED <<bucket, catalog, pc, unlisted, listed, sweeping, changed, run, swept>>

\* The attempts are exhausted: the download is left to a later cycle, and
\* with it the files it has renamed and perhaps a .partial.
GetFailed(c, file) ==
  /\ task[c] = file
  /\ \/ UNCHANGED part
     \/ part' = [part EXCEPT ![c] = @ \cup {file}]
  /\ task' = [task EXCEPT ![c] = "failed"]
  /\ UNCHANGED <<bucket, disk, catalog, pc, unlisted, listed, sweeping, changed, run, swept>>

\* Every download of the cycle has ended, and the sweep picks its victims.
Join ==
  /\ pc = "download"
  /\ \A c \in Chunks : task[c] \in {"none", "done", "failed"}
  /\ pc' = "sweep"
  /\ sweeping' = [c \in Chunks |-> IF c \in Victims THEN "zst" ELSE "none"]
  /\ swept' = swept \cup Victims
  /\ changed' = (Victims # {} \/ \E c \in Chunks : task[c] = "done")
  /\ task' = Idle
  /\ UNCHANGED <<bucket, disk, part, catalog, unlisted, listed, run>>

\* sweep_retention removes .zst, .idx and .meta.json of a victim; a removal
\* that fails is logged and the sweep goes on.
Remove(c) ==
  /\ pc = "sweep" /\ sweeping[c] # "none"
  /\ \A d \in Chunks \ {c} : sweeping[d] \in {"none", "zst"}
  /\ \/ disk' = [disk EXCEPT ![c] = @ \ {sweeping[c]}]
     \/ RemovalMayFail /\ UNCHANGED disk
  /\ sweeping' = [sweeping EXCEPT ![c] = CASE @ = "zst" -> "idx" [] @ = "idx" -> "meta"
                                           [] OTHER -> "none"]
  /\ UNCHANGED <<bucket, part, catalog, pc, unlisted, listed, task, changed, run, swept>>

SweepDone_Silent ==
  /\ pc = "sweep" /\ sweeping = Idle
  /\ pc' = "sleep"
  /\ UNCHANGED <<bucket, disk, part, catalog, cycleVars, run, swept>>

\* Only a cycle that changed the chunks on disk republishes the catalog.
SweepDone ==
  /\ pc = "sweep" /\ sweeping = Idle
  /\ pc' = IF changed THEN "publish" ELSE "sleep"
  /\ UNCHANGED <<bucket, disk, part, catalog, cycleVars, run, swept>>

\* republish_catalog.  (Its branch for a scan that panics keeps the previous
\* catalog; scan has no operation that panics.)
Republish ==
  /\ pc = "publish"
  /\ catalog' = ScanCatalog
  /\ pc' = "sleep"
  /\ UNCHANGED <<bucket, disk, part, cycleVars, run, swept>>

\* The process ends: between two cycles after the shutdown signal, anywhere
\* when it is killed.  A download that is cut off may leave its .partial.
Stop ==
  /\ pc # "down"
  /\ pc' = "down"
  /\ \E cut \in SUBSET InFlight :
       part' = [c \in Chunks |-> IF c \in cut THEN part[c] \cup {task[c]} ELSE part[c]]
  /\ catalog' = {}
  /\ unlisted' = {} /\ listed' = {} /\ task' = Idle /\ sweeping' = Idle /\ changed' = FALSE
  /\ UNCHANGED <<bucket, disk, run, swept>>

\* sweep_partials: every .partial of every stream goes.
SweepPartials == [c \in Chunks |-> {}]

\* A new process: main scans the catalog, then the syncer sweeps partials.
Restart ==
  /\ pc = "down" /\ run < MaxRuns
  /\ run' = run + 1
  /\ pc' = "sleep"
  /\ catalog' = ScanCatalog
  /\ part' = SweepPartials
  /\ UNCHANGED <<bucket, disk, cycleVars, swept>>

-----------------------------------------------------------------------------
Init ==
  /\ bucket = {} /\ catalog = {} /\ swept = {}
  /\ disk = [c \in Chunks |-> {}]
  /\ part = [c \in Chunks |-> {}]
  /\ pc = "sleep" /\ run = 1
  /\ unlisted = {} /\ listed = {} /\ task = Idle /\ sweeping = Idle /\ changed = FALSE

Cycle ==
  \/ Wake \/ Diff \/ Spawn \/ Join \/ SweepDone \/ Republish
  \/ \E s \in Streams : ListPage(s)
  \/ \E c \in Chunks : Remove(c)
  \/ \E c \in Chunks, file \in Trio : Get(c, file)

Next ==
  \/ Cycle
  \/ \E c \in Chunks : Publish(c)
  \/ ListFailed
  \/ \E c \in Chunks, file \in Trio : GetFailed(c, file)
  \/ Stop
  \/ Restart

Spec == Init /\ [][Next]_vars

(***************************************************************************)
(* Fairness: the syncer's loop keeps being scheduled, a request ends after *)
(* a bounded number of attempts, and an R2 that is reachable again and     *)
(* again lets one of endlessly many listings complete, and one of          *)
(* endlessly many downloads of a chunk.                                    *)
(***************************************************************************)
Fairness ==
  /\ WF_vars(Wake \/ Spawn \/ Join \/ (\E c \in Chunks : Remove(c)) \/ SweepDone \/ Republish)
  /\ WF_vars((\E s \in Streams : ListPage(s)) \/ ListFailed \/ Diff)
  /\ \A c \in Chunks : WF_vars(\E file \in Trio : Get(c, file) \/ GetFailed(c, file))
  /\ []<>(pc = "list") => []<><<Diff>>_vars
  /\ \A c \in Chunks : []<>(c \in InFlight) => []<><<Get(c, "meta")>>_vars

FairSpec == Spec /\ Fairness

-----------------------------------------------------------------------------
TypeOK ==
  /\ bucket \subseteq Chunks /\ catalog \subseteq Chunks
  /\ listed \subseteq Chunks /\ swept \subseteq Chunks
  /\ disk \in [Chunks -> SUBSET Trio] /\ part \in [Chunks -> SUBSET Trio]
  /\ pc \in {"sleep", "list", "download", "sweep", "publish", "down"}
  /\ unlisted \subseteq Streams
  /\ task \in [Chunks -> Trio \cup {"none", "wait", "done", "failed"}]
  /\ sweeping \in [Chunks -> Trio \cup {"none"}]
  /\ changed \in BOOLEAN
  /\ run \in 1..MaxRuns

(***************************************************************************)
(* Between two cycles the server plans from exactly the chunks that are    *)
(* complete on NVMe: a cycle that changes the set, however its downloads   *)
(* and removals fail, always republishes, and a restart never serves what  *)
(* an interrupted sweep or download left.                                  *)
(***************************************************************************)
CatalogFresh == pc = "sleep" => catalog = ScanCatalog

(***************************************************************************)
(* A chunk of the served catalog can be opened, except while the sweep of  *)
(* the running cycle removes it and until that cycle republishes.          *)
(***************************************************************************)
CatalogServable == pc \notin {"sweep", "publish"} => \A c \in catalog : disk[c] = Trio

(***************************************************************************)
(* download_chunk: "The .meta.json file is always written last so its      *)
(* presence signals a complete local chunk".  For every chunk that belongs *)
(* to the window, a local .meta.json means a complete chunk: diff_for_sync *)
(* may skip it.                                                            *)
(***************************************************************************)
HeldIsWhole == \A c \in LocalChunks : InWindow(c, LocalChunks) => disk[c] = Trio

(***************************************************************************)
(* sweep_retention: the two windows "can never disagree: a chunk the sync  *)
(* loop would re-download is never swept".  No chunk that was ever swept   *)
(* is downloaded again, although the sweep measures its window from the    *)
(* disk and the download from a listing that is older or newer.            *)
(***************************************************************************)
NoChurn == \A c \in swept : task[c] = "none"

(***************************************************************************)
(* The catalog catches up: again and again, unless the process stops, it   *)
(* has every chunk of the bucket's window, since a failed download is      *)
(* found missing again by a later cycle.  (The writer publishes finitely   *)
(* many chunks; each of them can push others out of the window.)           *)
(***************************************************************************)
WindowServed ==
  []<>(pc = "down" \/ \A c \in bucket : InWindow(c, bucket) => c \in catalog)
-----------------------------------------------------------------------------
(* The strengthening that makes the invariants above inductive.            *)

\* What is listed, or on NVMe, was published.
FromBucket ==
  /\ listed \subseteq bucket
  /\ \A c \in Chunks : disk[c] # {} => c \in bucket

\* Downloads and removals happen in their part of the cycle only.
InTurn ==
  /\ \A c \in Chunks : task[c] # "none" => pc = "download" /\ c \in bucket
  /\ \A c \in Chunks : sweeping[c] # "none" => pc = "sweep" /\ c \in swept /\ changed

\* How far a download has got: .meta.json comes last, over its two siblings.
DownloadInOrder ==
  \A c \in Chunks :
    /\ task[c] \in {"idx", "meta"} => "zst" \in disk[c]
    /\ task[c] = "meta" => "idx" \in disk[c]
    /\ task[c] \in {"wait", "zst", "idx", "meta", "failed"} => "meta" \notin disk[c]
    /\ task[c] = "done" => disk[c] = Trio

\* Only the sweep takes a sibling from a .meta.json.
PartIsSwept == \A c \in LocalChunks : disk[c] # Trio => c \in swept

\* Chunk d pushes c out of the window.
Displaces(d, c) == EndSlot(c) + Retention < EndSlot(d)

\* Every swept chunk is displaced by a chunk that the reader keeps, so one that
\* was in the bucket before the listing began: the listing finds it.
SweptIsBehind ==
  \A c \in swept : \E d \in LocalChunks \ swept :
    /\ Displaces(d, c)
    /\ pc = "list" => d[1] \in unlisted \/ d \in listed
    /\ pc = "download" => d \in listed

\* What the catalog may miss in each part of the cycle.
CatalogInv ==
  /\ pc \in {"sleep", "list"} => catalog = ScanCatalog
  /\ pc = "download" =>
       /\ catalog \subseteq ScanCatalog
       /\ \A c \in ScanCatalog \ catalog : task[c] = "done"
  /\ pc = "sweep" /\ ~changed => catalog = ScanCatalog
  /\ pc = "down" => catalog = {}

IndInv ==
  /\ TypeOK /\ FromBucket /\ InTurn /\ DownloadInOrder /\ PartIsSwept /\ SweptIsBehind
  /\ NoChurn /\ CatalogInv
=============================================================================
