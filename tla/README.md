# A TLA+ verification of sillage

sillage records Solana Geyser streams and plays them back. A **writer** process
subscribes to three streams, cuts each into chunks of a fixed number of slots on
NVMe, and uploads sealed chunks to an R2 bucket. A **reader** process keeps the
newest part of the bucket on its own NVMe and serves it over gRPC: a client
subscribes from a slot, receives the recorded messages merged by slot, and then
follows the archive as it grows. Writer and reader only meet in the bucket.

This directory holds TLA+ modules translated from the Rust sources, the TLC
configurations that check them on small instances, and TLAPS proofs, for all
instances, about the writer (chunker, uploads, shutdown) and the reader (syncer,
subscriptions, connections, caches, process). `PROJECT.json` maps every definition to the source
lines it stands for, and lists runs, hazards, findings and theorems.

## Inventory

| Component | State it keeps | Operations | What makes it correct |
|---|---|---|---|
| writer chunker (`chunker.rs`) | open chunks with their encoders, the watermark, `.partial` files | `ingest`, `tick`, `shutdown`, `open_chunk`, `seal_chunk` | each message ends in exactly one place; only two chunks stay open; a message within the tolerance is refused for known causes only; sealed files are final |
| writer lane (`lane.rs`, `geyser.rs`) | a bounded channel, a reading task, a consumer task | connect, receive, send, drain, error exits | on a clean exit everything received is sealed or was discarded by `ingest`; a dead consumer ends the lane |
| writer recovery (`recovery.rs`) | none | `sweep_partials`, `latest_sealed_end_slot` | no `.partial` survives; a run resumes at the end of what is sealed |
| writer uploader (`uploader.rs`) | permits, `.uploaded` markers | `scan_pending`, `upload_chunk`, `put_with_retry`, `sweep_retention` | the bucket never shows part of a chunk; nothing is evicted before it is durable; everything sealed is uploaded |
| writer process (`main.rs`) | two cancellation tokens | start, join, grace window, exit on failure | lanes end before the uploader; a signal ends the process |
| reader syncer (`sync.rs`, `r2.rs`) | files on NVMe, the loop's cycle | `list_chunks`, `diff_for_sync`, `download_chunk`, `sweep_retention`, `republish_catalog` | serves only complete chunks; never downloads what it just swept; serves the whole window in the end |
| reader catalog (`storage.rs`) | an immutable snapshot behind a shared pointer | `scan`, `chunks_in_range`, `newest_end_slot` | exactly the complete chunks |
| reader replay (`replay.rs`) | one cursor per stream | `plan_replay`, `peek`, `drive_replay` | sends each message of its snapshot from the start slot on, once, in slot order |
| reader follower (`customer.rs`) | `last_slot`, idle deadline | `run`, `follow_replay`, `reject` | no message twice, none skipped silently, ends when idle |
| connections (`grpc.rs`, `customer.rs`, `server.rs`) | registry, a task and a replay task per connection, a bounded channel | `subscribe`, `admit`, the select loop, drain at shutdown | the caps bound what is running; every entry is given back; a shutdown ends if clients read on or leave |
| pacing (`pacing.rs`) | anchor of source time to wall-clock time | `target`, `observe_emit`, `extract_recv_ns`, `x-replay-speed` | messages keep their distance; a client that keeps up is never dropped |
| caches (`storage.rs`, `index.rs`) | decoded chunks and indices under a byte budget | `get_or_decode`, `get_or_parse`, eviction | the byte count is that of the entries; callers share one copy; eviction ends |
| index builder, file formats, filters (`index.rs` on both sides, `chunk.rs`, `idx.rs`, `filter.rs`, `subscription.rs`) | the open chunk's index and counters | `observe`, `serialize`, `iter_frames`, `bitmap_for`, `filter_*`, request parsing | a subscriber gets exactly what its filters mean |
| configuration (`config.rs`) | none | `load`, `validate` | a process runs with what was set, else with what is documented |
| reader process (`main.rs`, `server.rs`, `metrics_server.rs`) | two cancellation tokens, three tasks | start, two-phase shutdown, exit codes | no failure looks like a clean exit; the syncer outlives the server |
| metrics counters, probe | – | – | not modelled |

**Interactions.** Lane → chunker by a bounded channel; chunker → uploader only
through files (a `.meta.json` announces a sealed chunk, an `.uploaded` marker an
uploaded one); uploader → syncer only through objects in the bucket; syncer →
replay through a catalog snapshot that is swapped whole, while the files behind an
older snapshot are being removed; replay → client by a bounded channel.

**What is hard.** Two tasks work on one directory without a lock and rely on the
order of renames, puts and removals. The process may die between any two of them.
Slots arrive out of order, and arithmetic on slots (`slot / slots_per_chunk`, a
lookahead, a tolerance, a cap) decides what is sealed. The reader measures two
retention windows from two different sets. A follower stands for three streams
with one resume slot while chunks land and are swept. Two tasks of a connection share
a channel that a client may stop reading, and each waits for the other at its end. A
cache is changed by calls that let go of its lock while they decode. What the writer
encodes by ordinal, offset and length the reader must find again. The `hazards` list in
`PROJECT.json` gives each of these its line.

## Modules

| Module | Models | State and actions |
|---|---|---|
| `ChunkPolicy` | the slot arithmetic of `ingest` and of recovery | pure operators; no `RECURSIVE` |
| `Chunker` | one lane: chunker and recovery, a handler per step, and the handlers that a crash or an I/O error cuts short | `open`, `disk`, `watermark`; `IngestLate`, `IngestKept`, `Tick`, `Shutdown`, `IngestCutByCap`, `IngestFails`, `IngestCutByWatermark`, `TickCut`, `ShutdownCut`, `Crash`, `Restart` |
| `Archive` | what the bucket promises: chunks that appear whole and never change, unless they were opened again | `published`, `reopened`; `Publish`, `Reopen`, `Replace` |
| `Writer` | the whole writer over one stream, the handlers taken apart into file-system steps, with uploader, bucket, crashes and recovery | consumer (`pc`, `open`, `job`), files (`fs`, `partials`), bucket (`r2`), uploader (`phase`, `task`, `sweeping`), `proc` |
| `Syncer` | the reader's syncer and the catalog it publishes | `bucket`, `disk`, `part`, `catalog`, and the cycle (`pc`, `listed`, `task`, `sweeping`) |
| `Follow` | one subscription: plan, merge, follow; the syncer reduced to land, sweep and republish | `catalog`, `todo`/`buf` (the cursors), `lastSlot`, `delivered` |
| `Connections` | the caps of the reader and the state its connections share, on which `Customer` works, and `LiveBounded` | |
| `Customer` | the reader's connections: `subscribe`, admission, `Customer::run`, the replay task as when it sends, waits and ends, and the drain | per connection `call`, `task`, `replay`, `stop`, `chan`, and the client's `inbound`, `gone`; `registry`, `shutdown`, `server` |
| `Lanes` | the writer process: reading task, channel and consumer of each lane under `main` | per lane `producer`, `consumer`, `queue`, `hand`; `main`, `handler`, `uploader` and the two signals |
| `ChunkFile` | one chunk from encoder to subscriber: frames, index, `.idx` file, request, filters, plan and cursor | `raw`, `dims`, `meta`, `idx`, `named`, `ords`; `AppendMsg`, `Seal`, `Subscribe`, `Plan`, `Open`, `Send` |
| `Caches` | `ChunkCache` and `IndexCache` | per cache `map`, `arc`, `stamped`, `last`, `tick`, `used`, `lock`; per task `pc`, `call`, `mine`; `Lookup`, `Decode`, `Relock`, the eviction loop a step per victim |
| `Pacing` | pacer, replay speed and the waits of a follower, in discrete time | `anchor`, `lastWarn`, `target`, `until`, `deadline`, `now`; `Take`, `Wake`, `Send`, `SendTimeout`, `SendStatus`, `Poll`, `IdleEnd`, `Tick` |
| `Settings` | the configuration: defaults, file, environment, validation | pure operators |
| `ReaderProcess` | the reader's `main` | `settings`, `main`, `server`, `metrics`, `syncer`, the two signals |
| `ChunkerProofs`, `WriterProofs`, `LanesProofs`, `SyncerProofs`, `FollowProofs`, `CachesProofs`, `ReaderProcessProofs` | the proofs, each about the module of its name | |
| `ConnectionProofs` | the proofs about `Customer` and `Pacing`, the admission and the timing of a connection | |
| `MC*` | instances for TLC | |

`Chunker` and `Writer` share `ChunkPolicy`. `Writer` implements `Archive` by the
mapping `Published` (a chunk is there once its `.meta.json` is); `Syncer` then takes
the bucket to be such an archive, without chunks that are opened again, which is why it
needs only to know whether a chunk is present, and `Follow` takes the catalog steps of `Syncer` as three actions. `Follow` and
`Customer` are two views of a subscription: `Follow` says what is sent and leaves the
channel out; `Customer` keeps the channel and the tasks and lets a replay send, wait,
fail or run out at any time, which includes every behaviour of `Follow`. `Pacing` is a
third view, with the time of each send; `ChunkFile` is what one chunk of `Follow` holds,
and `Caches` decides when opening a swept chunk still succeeds. `Lanes` puts a channel
and `main` around the consumer of `Writer`, which it reduces to counts of messages;
`ReaderProcess` does so for the server of `Customer` and the loop of `Syncer`.

What the modules abstract:

- A message is its arrival number and, where it matters, its slot. The content of
  a file is the set of messages it was written from, so "the payload and the index
  beside it belong together" is an equality.
- Time appears as order. `Tick(a)` seals what has been idle since message `a`;
  `Scan(aged)` lets any marked chunks have passed retention; poll intervals and
  back-offs may be of any length.
- `put_with_retry` and `get_with_retry` are one step that succeeds, or one that
  fails for good. A put that fails may have stored its object: the answer was lost.
- In `Writer` a step is one rename, one put, one removal; writing and syncing the
  `.partial` files before the first rename is one step, because nothing reads them.
  In `Chunker` a handler is one step; one that dies inside a seal completes some of its
  seals, leaves the next with a final `.zst` or with nothing, and loses the rest.
- In `Syncer` slots are counted in chunks (all streams use one `slots_per_chunk`,
  and both windows compare end slots only). Reading NVMe does not fail there: in the code
  a directory or a `.meta.json` that cannot be read hides its chunks from that one scan
  (`sync.rs:42-45`, `storage.rs:94-172`), and a rescan that panics leaves the catalog as it
  was (`sync.rs:339`; the scan has no operation that panics).
- In `Follow` a chunk's content is the slots of the messages that match the filter,
  in the order the writer received them; a swept chunk may or may not still be in
  a cache, so opening one may fail or succeed.
- In `Customer` the channel is the number of updates in it. A send waits while it is
  full and fails when the receiver is gone; the replay's send of a message may time
  out, the sends of a status and of a pong may not. The stop signal is seen where the
  replay sleeps and between passes, not inside a send. A client may read, stop
  reading, close its side, or vanish, at any time.
- In `Lanes` the chunker is the number of messages it has open, sealed and discarded; an
  ingest or a tick may seal any of the open ones, and an ingest may discard its message.
- In `ChunkFile` keys and signatures are small numbers and 0 stands for bytes that are
  none. Messages are encoded to bytes that tell them apart, frames carry a little-endian
  length, a bitmap is a set and is laid out as a sequence in the body. What is written
  is the real layout of offsets, and it is read back by them.
- In `Caches` an `Arc` is the number of the decoding that made it. A call holds the
  lock over its eviction loop, which takes a step per victim.
- In `Pacing` time passes only where a task waits (sleep, blocked send, poll), one tick
  at a time; speeds are in tenths and products are rounded down as the code does.
- In `Settings` a layer is a partial function from keys to values; addresses are
  strings of which one does not parse.

## Runs

| Run | Question | Result | States, time with 2 workers |
|---|---|---|---|
| `chunker_defaults` | Out-of-order slots, idle seals, shutdown, seals cut short, a restart: are messages accounted for, is the window of open chunks bounded, does the tolerance hold? | holds | 606,000, 25 s |
| `writer` | Seal steps, uploads, retention with failing removals, I/O errors and crashes interleaved: does the bucket only ever show whole chunks, and is every sealed chunk uploaded in the end? | holds, the first but for chunks opened again after their retention | 286,000, 50 s |
| `syncer` | Two streams, failing downloads and removals, a bucket that grows during a listing, crashes: is what is served complete, is anything downloaded again, is the window served in the end? | holds | 201,000, 70 s |
| `follow` | Two streams landing in any order, and one with slots out of order inside chunks: is each pass exact, in order and without repetition, is anything of a single stream skipped, does the subscription end? | holds | 380,000, 130 s |
| `follow_skip` | Two streams: is a landed message ever skipped? | it is (finding) | |
| `customer` | Admission, pings, full channels, timeouts, vanished clients and shutdown interleaved: do the caps bound the running tasks, does every entry come back, does a shutdown end? | holds, the last for clients that read on or leave | seconds |
| `chunk_file` | All chunks of up to three of eleven messages against all pairs of filters: does the subscriber get what the filters mean? | holds | 298,000, 30 s |
| `caches` | Two tasks decode outside the lock under a small budget: is the accounting exact, is one copy shared, does eviction end? | holds | 124,000, 14 s |
| `pacing` | Speeds, stamps of every kind, late chunks and a stalling client: is the pace kept, is every drop explained, does the replay end? | holds, the last but for a client that stays and never reads again | 1,135,000, 140 s |
| `pacing_head` | Is a follower at the head, who reads everything at once, kept? | it is dropped (finding) | |
| `lanes` | Full channels, failing subscriptions and consumers, signals: does exit code 0 mean that nothing is left behind, does the uploader outlive the lanes, does a signal end the process? | holds, the last if connection attempts end | 217,000, 65 s |
| `reader_process` | Files and environments of all kinds, listeners that cannot bind, signals: does the process run as configured and end in two phases with the right code? | holds, the end after a signal if the server's calls drain | 44,000, 18 s |

The properties, by hazard:

- **Chunker.** `OpenWindow`: the seal at the end of `ingest` keeps at most the
  watermark's chunk and the one before it open. `Accounted`: nothing vanishes or is
  stored twice. `RefusalsExplained`: with the tolerance at most one chunk and room
  for two, a message is refused only below the resume slot, or in a chunk this run sealed
  for idleness, or in a chunk whose seal an earlier run left half done. The last cause is
  there because `open_chunk` looks for a `.zst` or a `.meta.json`, recovery for a
  `.meta.json` only. `SealedImmutable`: no handler and no later run replaces final files.
  (`CapNeverBinds`, that from three up `max_open_chunks` has no effect, is proved.)
- **Writer.** `PendingIsComplete`: what a scan finds has its three matching files,
  after any crash. `NeverPartlyPublished` and the refinement `ImplementsArchive`:
  the bucket shows a chunk whole, once. `EvictOnlyDurable`: a payload leaves NVMe
  only when the bucket has it. All three except chunks whose retention ran out and that
  `ingest` opened again: the guard in `open_chunk` knows local files only, so such a chunk
  is sealed and uploaded a second time (`Reopen` and `Replace` of `Archive`), its objects
  change one by one, and a marker left from the first upload may let it be swept before
  the second.
  `SealedIsUploaded`: every sealed chunk is uploaded, unless the process ends.
- **Syncer.** `CatalogFresh`: between cycles the catalog is exactly the complete
  chunks. `CatalogServable`: a catalogued chunk can be opened except while it is
  being swept. `HeldIsWhole`: in the window, a `.meta.json` means a complete chunk.
  `NoChurn`: a swept chunk is never fetched again. `WindowServed`: every chunk of
  the window is served in the end.
- **Follow.** `PassExact`: a drained pass has sent exactly the messages of its
  snapshot, once each. `InOrderOnce`: over the whole connection slots do not go
  back and no message comes twice, for chunks received in slot order. `NothingSkippedOfOne`: a follower of one stream misses nothing
  silently. `FollowEnds`: it ends.
- **Customer.** `LiveBounded`: connections whose tasks still run, departing ones
  included, are within both caps; an entry given back before the replay has ended
  would break it. `EntryReturned`: a client that goes away gives its place back
  wherever its tasks are waiting. `DrainEnds`: a shutdown ends if each client reads on
  or leaves. The condition is needed: a status or a pong waits on a full channel
  without a timeout and without looking at the signal, so a client that keeps its
  connection open and does not read holds the drain for as long as it likes.
- **ChunkFile.** `DeliveredExact`: the messages sent, their order and the filter names
  they carry are those the request means, where the meaning is read off the message and
  not off the index. No ordinal of an index is without its frame.
  `SidecarsDescribe`: the program dimension, which no filter reads back, and the counters
  and slots of `.meta.json` are those of the payload.
- **Caches.** `UsedIsSum`, `WithinBudget`: the byte count is exact, and no call leaves a
  cache over its budget except by one oversized entry. `ReturnedIsCached`: a call
  returns what the cache holds. `EvictionEnds`. (`StampsAreOrder`, that the two maps
  agree so that a victim exists and is unique, is proved.)
- **Pacing.** `PaceKept`: no message comes earlier than its distance in the recording
  allows. `DropExplained`: a drop is due to time lost to the client or the syncer or to
  stamps that go back, never to speeds, pauses or missing stamps. `ConnectionEnds`: a
  replay ends, or waits for ever to tell a client that it was given up, one that stays
  connected and does not read. That status, after a timeout or a lag drop, is sent on the
  same channel without a timeout; the condition is the one of `DrainEnds`.
- **Lanes.** `CleanExitIsComplete`: exit code 0 means that every message received is
  sealed or was discarded by `ingest` (too late, or of a range on disk; what those are is
  `Chunker`'s `Accounted` and `RefusalsExplained`).
  `UploaderOutlivesLanes`: the two-phase shutdown. `SignalEndsProcess`: with full
  channels and dead consumers too.
- **ReaderProcess.** `RunsAsConfigured`: variable, else file, else `default.toml`, for
  every field of that file outside `[r2]` (`auth_tokens` and `subscription_channel_capacity`
  are not in the file). `CleanExitServed`: exit code 0 only after a listener that served,
  with TLS where it was asked for. `TwoPhases`: the order of the shutdown. `ProcessEnds`: a
  server that failed takes the process with it, and one that is told to stop does if its
  calls drain, which a client that does not read can prevent (`DrainEnds`).

`InOrderOnce` and `NothingSkippedOfOne` have conditions that the code does not
establish. Each is necessary: slot order inside chunks for the first (see Known
limits), one stream whose chunks land oldest first for the second (`follow_skip`).

`TypeOK` is proved for every module with proofs.

Deadlock is not checked: every system here may stop (a bound on messages or runs is
used up, the last process is down, the subscription has ended, the server is down).

### Bounds

- `chunker_defaults`: 8 slots in 4 chunks of 2, tolerance 2, room for 2, 4 messages,
  2 runs. Four messages are enough to open a chunk, leave it two chunks behind, come
  back to it, and do so again after a restart. Other settings of the four numbers,
  unusual ones such as a tolerance of several chunks or a cap of one included, are
  covered by the proofs.
- `writer`: chunks of one slot, two of them, two chunks apart, so that one message
  closes the other's chunk; room for one open chunk, so that the cap closes one too; 2
  messages, 3 runs of the process, two uploads at a time. Two messages of one slot are
  enough for a chunk to be uploaded, evicted, opened again and uploaded again.
  The lanes have directories and keys of their own, so one stream stands for three.
- `syncer`: three chunks of two alternating streams, a window of one chunk, 2 runs: each
  chunk can be new, held and swept, and swept by a chunk of the other stream.
- `follow`: two streams of two chunks, and one stream of three; chunks of two slots with
  no or two matching messages. Two chunks per stream are the fewest in which the cursors
  cross a chunk boundary while another waits; three let a sweep overtake the follower
  between passes. A client starts at the head, at the oldest slot, in the middle of a
  chunk, or at a slot it was told.
- `customer`: two connections, with one token between them or anonymous, one
  connection per token, two in all, a channel of one. Two connections are enough for a
  place to be refused, given back and taken again, and a channel of one is full as soon
  as anything waits in it. The total cap does not bind here; the proof covers it, and
  every other number.
- `chunk_file`: the messages and filters are chosen so that each clause of each filter
  separates two of them: keys of a wrong length, loaded keys, programs past the end of
  the list, updates without their inner message, entries that do not decode; every pair
  of filters under two names, an index of another version, and every kind of request
  that is refused. Three messages are enough for ordinals to differ from counts and for
  bitmaps with gaps.
- `caches`: two tasks, three keys of which one is larger than the budget, 4 decodings
  and 4 ticks. Both caches are the same code, so one stands for two; the proofs have
  any number of each.
- `pacing`: recordings of two chunks with regular stamps, stamps from the metadata
  alone, and stamps that are negative, go back or are missing; limits of 1 (warn) and 3
  (drop), so that waits for the client, the syncer and the polls can each exceed them.
  `pacing_head` keeps the proportions of the defaults, in ticks of ten seconds.
- `lanes`: two lanes, a channel of one, two updates each: one in the channel and one in
  the hand of the reading task when the signal comes.
- `reader_process`: no file, the default file with blank credentials, one with TLS and
  one with other values, under every pair of thirteen overrides.

### Fairness

- `Writer`: the uploader's loop and each spawned upload keep being scheduled (weak
  fairness; an upload gives up after a bounded number of attempts), and of endlessly many
  uploads of one chunk one completes: R2 is reachable again and again. Nothing is assumed
  of messages, crashes or restarts.
- `Syncer`: the loop is scheduled and requests end; of endlessly many listings one
  completes, and so does one of endlessly many downloads of a chunk.
- `Follow`: the replay task is scheduled, and the idle deadline, which only a pass
  that sent something moves, is not outrun by polls for ever. Nothing is assumed of
  the syncer or of the client.
- `Customer`: calls, tasks and the server are scheduled. A send that waits gets its turn
  if there is room again and again, because the channel queues its senders (strong
  fairness), and a stop that is signalled is picked in the end by a `select` that
  chooses at random among what is ready. Nothing is assumed of clients in
  `EntryReturned`; `DrainEnds` states what it needs of them.
- `Caches`: the holder of a lock keeps running; under the lock nothing waits.
- `Pacing`: the task is scheduled, timers fire, chunks land; a send that waits, of a message
  or of the status, gets the place a client makes again and again. Nothing is assumed of the client.
- `Lanes`: main and the consumers are scheduled, and the reading tasks where they wait
  for this process; a `select` picks a ready branch at random, so the signal is seen in
  the end although updates keep coming (strong fairness). Nothing is assumed of the
  validator; `SignalEndsProcess` states that connection attempts end, as its condition.
- `ReaderProcess`: main, the start of the server and the syncer are scheduled. Nothing is
  assumed of the server once it serves, neither that it drains nor that it fails;
  `ProcessEnds` states the drain as its condition.

## Proofs

`ChunkerProofs` proves, for every slot set, chunk length, tolerance, cap and bound,

- `ChunkerInvariant`: `Spec => []IndInv`, the inductive invariant;
- `TypeCorrect`, `OpenWindowHolds`, `AccountedHolds`, `RefusalsExplainedHolds`,
  `CapNeverBindsHolds`: its parts;
- `SealedImmutableHolds`: the action property, from the same invariant.

The assumptions are `PolicyAssumption` (slots are bounded naturals, chunk length and
cap are positive: the code divides by the first and panics on the first message
without the second) and `BoundsAssumption`.

The properties are not inductive as they stand. `IndInv` adds

- `OpenNotOnDisk`: a chunk is open or sealed, never both. Without it a seal could
  overwrite a file; it holds because `open_chunk` looks at the disk first and
  because a sealed chunk has left the map.
- `DownIsEmpty` and `UnsealedEmpty`: what a stopped lane and an absent file hold.
- `OldRunsBelowResume`: what earlier runs sealed completely ends at or before the slot
  this run resumed from. This is what lets a refusal be blamed on the resume slot; it is
  re-established at each restart from the definition of `latest_sealed_end_slot`.
- `BareIsOld`: a `.zst` without its `.meta.json` was left by an earlier run, because the
  error or the crash that left it ended the consumer.
- `SettledBehind`: what this run sealed for the watermark or the cap lies two
  chunks behind the watermark. A message that passes the tolerance check is at most
  one chunk behind, so it cannot belong to such a chunk. For the cap this needs
  `OpenWindow`: with room for two, the cap only seals the chunk before the
  watermark's when the watermark moves on.

Each action has a lemma with a step for each conjunct it can disturb. The arithmetic
is in lemmas of their own: a chunk is the interval of its slots, `ChunkOf` is
monotone, shifting a slot by a chunk length shifts its chunk by one, the resume slot
is past every sealed chunk, and what `CapSealed` selects when two chunks are open.

`ConnectionProofs` takes `Customer` by `INSTANCE`, as `C`, and proves, for any connections,
tokens, caps and channel capacity, `CustomerInvariant` (`C!Spec => []C!IndInv`) and
`LiveBoundedHolds`. `CustomerAssumption`, of `Connections`,
asks that connections are finite in number, that caps are naturals, and that the
channel has room for one update (`mpsc::channel` panics otherwise). `LiveBounded` is not
inductive, because admission compares the caps with the registry and not with what is
running. `IndInv` adds `RegistryCapped` (what `admit` checks and enters under one lock),
`TaskRegistered` (a customer's task keeps its entry for as long as it runs),
`ReplayWithinTask` (a replay runs only while its customer's task can still wait for it;
this is what the `await` of the replay before `remove_from_registry` is for) and
`TaskAfterCall` (no task before admission). Then what is live is a subset of the
registry, and cardinalities follow.

A second invariant, `WaitInv`, holds what `EntryReturned` and `DrainEnds` rest on without
fairness. `NoEntryLeakedHolds`: the registry is exactly the connections whose task runs, so
that no early return passes `remove_from_registry` by. `WaitsAreToldHolds`: a task awaits
its replay only after it has set `replay_stop`, and only where there is a replay.
`DrainedIsQuietHolds`: when `serve_with_shutdown` has returned, what still runs belongs to
clients who had left; for that `CallsInv` says that a call ends before its task only by its
client leaving, and that a drained server lets no call in.

`CachesProofs` proves, for any tasks, keys, sizes, budgets and bounds, `CachesInvariant`
(`Spec => []IndInv`), `WithinBudgetHolds`, `StampsAreOrderHolds`,
`ReturnedIsCachedHolds`, `UsedIsSumHolds`, `VictimExistsHolds` and `EvictionShrinksHolds`.
`CachesAssumption` asks that sizes are positive naturals and budgets naturals. `IndInv` adds `LockHeld` (a lock is held across steps exactly by the
task that evicts), `OwnIsNewest` (while a task evicts, the entry it has just made is
there and has the newest stamp) and `MapsFinite`. The argument: stamps are all different,
so the victim, which has the oldest one, is another entry as long as there are two; the
loop therefore never removes what the call will return, and it stops only within the
budget or with that entry alone. That the other calls cannot disturb this is what the
lock is for. `UsedIsSumHolds` needs a sum over the entries, and a sum defined by recursion
is out of the provers' reach: `UsedIsSum` therefore counts, with `Cardinality`, the bytes
of the entries told apart (`Bytes`: the pairs of a key and a number up to its size).
`BytesAdd` says what one more key adds, once; that an entry two tasks have both decoded
is counted once rests on `get_or_decode` and `get_or_parse` looking at the map again
under the lock before they add. The last two theorems are what `EvictionEnds` rests on:
a cache over its budget has one oldest entry, another than the one just made, so the
`None => break` of the loop is never taken, and each round removes exactly one entry.

`ConnectionProofs` proves about `Pacing`, for any recordings, headers, limits, intervals and
a client that stalls as it likes, `PacingInvariant`, `TypeCorrect`, `PaceKeptHolds` and
`DropExplainedHolds`. `PacingAssumption` asks that a chunk's first receive time is not after
its last (the writer keeps the least and the greatest), that it has a message, that the
configured speed is positive and that `lag_drop_ms` is not 0. Neither property is inductive:
each compares what was sent with times that are gone. `IndInv` keeps what is left of them:

- `CursorInv`: the cursor is at a message, and one that was taken is in the catalog;
- `AnchorInv`: the anchor is the first stamped message, set no earlier than the client
  connected, and no stamped message was sent before it was due from there;
- `TargetInv`: the message in hand has the target its stamp gives or, without a stamp, the
  moment it was taken, and a blocked send has until `lag_drop_ms` after it began;
- `LateInv`: the replay sleeps only towards a target, so that, but for the time lost to
  client and syncer, it is never later than the latest target so far.

`PaceKept` follows from `AnchorInv`, `DropExplained` from `LateInv`: if a message is late by
the limit, an earlier one was due later, and the difference of their targets is that of their
stamps, a step back, at the replay's speed. Both are about rounded quotients of times, on
which the SMT backend is weak; `DivFloor`, `DivMonotone` and `DivSplit` say what is needed of
them. A quotient of a sum exceeds the sum of the quotients by at most one, which is the tick
of rounding in both properties.

`LanesProofs` proves, for any streams, channel capacity and number of updates,
`LanesInvariant`, `TypeCorrect`, `UploaderOutlivesLanesHolds` and
`CleanExitIsCompleteHolds`. The first property relates a signal to lanes that went on
after it could have been sent; `IndInv` adds `GraceAfterJoin` (main is past the join only
when every lane is over), `BootFirst` (no lane is over before lanes are started) and
`OkMeansDone` (a lane that ended well awaited its consumer). A lane that is over takes no
step, so what holds at the join holds from then on. The second is a conservation law,
`Conserved`: as long as its consumer has not failed, what a lane has received is what it
has sealed, has discarded, has open, has in the channel and has in the hand of the reading
task. `DoneIsDry` empties the last three once the consumer is done, `OkMeansDone` and
`CleanMeansOk` take the law from there to exit code 0, and `ConnectFirst` (a consumer is
made only with a connection) is what the induction needs where a lane fails to connect.

`WriterProofs` proves, for any slots, chunk length, number of messages, of runs and of
concurrent uploads, `WriterInvariant`, `TypeCorrect`, `PendingIsCompleteHolds`,
`NeverPartlyPublishedHolds`, the action property `EvictOnlyDurableHolds` and the refinement
`ImplementsArchiveHolds`, with slots that arrive in any order and at any time. `IndInv`
follows a chunk along its way, as long as it is not opened again after its retention (that
is what `reopened` remembers):

- `OpenIsNew`: an open chunk has no final `.zst` or `.meta.json` and is not being sealed;
  if it was evicted before, it is `reopened`. `open_chunk` looks at the disk just before it
  creates a chunk. `HandInv`: across the cap's seals there is still a message to append.
- `JobInOrder`: after each rename of a seal the final files so far are those of the job.
- `FilesInOrder`: until retention, an `.idx` comes with its `.zst` and a `.meta.json` with
  both. It survives a crash because it is about final names only, and recovery removes
  `.partial` files.
- `UploadInOrder`: the objects put so far equal the local files, which the sweep of the
  same cycle leaves alone; `CycleInv` says that uploads and sweep do not overlap the next
  scan.
- `MarkedIsPublished`, `PublishedIsLocal`: a marker, and an eviction, mean that the bucket
  has the chunk; what the bucket has is whole and what is left on NVMe equals it. This is
  what makes a second upload of a chunk, after a lost answer or a crash before the marker,
  put the same bytes again.

The refinement is by step simulation: a put of `.meta.json` is a `Publish` of `Archive` or,
repeated, a stutter; an append that opens an evicted chunk is a `Reopen`, the puts of its
second upload are `Replace` steps, and every other step leaves `Published` as it is.

`SyncerProofs` proves, for any finite set of chunks of any streams, retention and number
of concurrent downloads, `SyncerInvariant`, `TypeCorrect`, `CatalogFreshHolds`,
`CatalogServableHolds`, `HeldIsWholeHolds` and `NoChurnHolds`. The two retention windows
are measured from different sets, the listing and the disk, so that what is swept stays
swept needs a witness both sets have. `SweptIsBehind` provides it: for each swept chunk
there is a chunk on NVMe, not swept itself, that displaces it. That chunk came from the
bucket, was there before the listing began, and so is listed before the next download is
chosen. The maximum of a finite set is swept by no one, which keeps the witness through
sweeps. `DownloadInOrder` (`.meta.json` last) and `PartIsSwept` (only a sweep takes a
sibling from a `.meta.json`) give `HeldIsWhole`; `CatalogInv` says what the catalog may
miss in each part of the cycle.

`FollowProofs` proves, for any scenario, `FollowInvariant`, `TypeCorrect`, `PassExactHolds`,
`InOrderOnceHolds` and `NothingSkippedOfOneHolds`. `FollowAssumption` asks for finitely many
streams and chunk numbers (`Stream::all` is a fixed list and chunk numbers are `u64`), so
that the least cursor and the least chunk exist. `IndInv` adds

- `CursorInv`: a cursor holds messages of one chunk in file order and opens chunks oldest
  first;
- `PassInv`: what a pass wants is what it has sent plus what is `Ahead` of its cursors from
  its start slot on, and the two do not overlap. Drained, nothing is ahead: `PassExact`;
- `OrderInv`, under the condition of `InOrderOnce`: what is ahead does not lie before what
  was sent; `ResumeInv`: a pass starts after the last slot sent.

`NothingSkippedOfOne` needs an invariant of its own, `SkipInv`: the chunks of a stream that
lands oldest first and is swept oldest first have no holes in any catalog (`NoHoles`), so a
message that is not wanted by a pass comes after all that are (`WantedWhole`), and
everything up to the slot to resume after has been sent (`SentUpTo`). With two streams
`WantedWhole` is what fails; `follow_skip` shows how.

`ReaderProcessProofs` proves, for any files and environments, `ReaderProcessInvariant`,
`TypeCorrect`, `RunsAsConfiguredHolds`, `CleanExitServedHolds` and `TwoPhasesHolds`. `IndInv`
ties `main`'s position to what has been started and stopped (`InPhase`), an exit to the
reason for it (`GoneInOrder`), and what runs to what was loaded (`LoadedOnce`,
`ServedAsAsked`). `RunsAsConfigured` rests on lemmas about loading: a section's `Default`
agrees with its fields' own defaults (`DefaultsAgree`), `default.toml` agrees with both
(`TomlAgrees`; `[r2]` has no `Default` and is left out), and of two layers the environment wins (`MergeOf`).

Two corrections of the models came out of proof attempts: `Archive` did not exclude an
empty publication (a missing pair of parentheses), and the writer process was missing the
fact now called `ConnectFirst`.

Only model-checked:

- all liveness, which is outside what the prover handles;
- `ChunkFile`: `DeliveredExact` and `SidecarsDescribe` are about what the recursion over
  frames, the folds over bitmaps and the sorted ordinals compute, which is induction over
  data.

## Findings

Each is a run that TLC refutes; `PROJECT.json` quotes the line it disagrees with.

1. `follow_skip`: a chunk of one stream that lands after the follower has passed its
   slots on another is never sent.
2. `pacing_head`: a follower at the head is dropped for lag on the first message of the
   next chunk, because the pacer's anchor stays where it was while it waited.

## Known limits

Behaviours the modules contain, or that a change of a constant shows, and that a reader
of the properties should know:

- A crash between the renames of a seal leaves a final `.zst` without `.meta.json`, which
  recovery keeps, the uploader never sees and `open_chunk` refuses to replace
  (`sillage-writer-scaffolding.md:49` calls the seal atomic). Recovery does not count it
  either: the next run asks for its slots again and discards them all, the third cause in
  `RefusalsExplained`. `PendingIsComplete` holds because the `.meta.json` comes last.
- The guard against sealing a range twice looks at NVMe. Slots of an idle-sealed chunk may
  arrive after it was uploaded and evicted (the cluster was halted for longer than the
  retention); then the chunk is uploaded over the old one (against `docs/format.md:41-42`),
  one object after the other, so that a reader may meet files of both, and one that has
  cached or downloaded the old form keeps it. `NeverPartlyPublished`, `EvictOnlyDurable`
  and `ImplementsArchive` say that this happens to no other chunk.
- The resume point is the slot of the last message sent, which inside an out-of-order
  chunk is not the highest; later slots are then sent again. Without `InSlotOrder`,
  `InOrderOnce` fails in the scenario `OneStream` (against `replay.rs:186-188`).
- Idle and shutdown seals end a chunk before its last slot, but the next run resumes at
  the chunk's nominal end: the slots in between are never asked for, and the gap report
  does not show them.
- A comment in `Customer::run` says that at shutdown the replay task returns promptly,
  which a client that does not read can prevent (see `DrainEnds`).
- `SubscribeReplayInfo` advertises the oldest slot of all streams, a plan enforces that
  of the subscribed ones: a client may be refused the slot it was told (in `Follow`, a
  connection from `Told`).
- The reader's sweep never removes the files of a download that failed half-way and then
  left the window. A reader restarted with a longer retention after a crash inside a
  sweep takes the `.meta.json` left behind for a complete chunk.
- The grace window at the writer's shutdown is wall-clock time: an uploader in a slow
  cycle ends without scanning for the chunks sealed last (the next run uploads them).
- A lane that fails is noticed when all lanes have ended; a lane without updates does not
  notice that its consumer has failed; one that is connecting does not see the signal.
- The timeout of a send is `lag_drop_ms`, with pacing disabled too.
- A bitmap that cannot be read counts as empty, also where it is subtracted. For the
  files of this writer that does not happen (`DeliveredExact`).
- `program_id` is indexed and read by no filter. Zeros in the configuration are not
  refused: some panic, and `max_concurrent_downloads = 0` waits for ever.

## Not modelled

- Metrics: counters are written and not read; the endpoint's start and end are in
  `ReaderProcess`.
- The probe: a command-line inspector. (Read all the same: its `--duration` timer is
  made anew in each turn of its loop, so it measures silence rather than duration.)
- TLS, HTTP, request signing, zstd, prost: libraries, taken to be lossless where they
  carry data and to fail where the code handles a failure.
- Log lines and the disk-pressure warning: output on which nothing depends.
- Power loss: renames are taken to survive in order, as they do when a process dies.
  The code does not sync directories, so a power loss may do more.

## Plan

Done: all components except the ones above, and proofs of the safety properties of
every module except `ChunkFile`.

Left:

1. `ChunkFile`: the parts that are not recursive, such as that the filters of a plan
   select by the dimensions the index was built with. What is delivered stays with TLC.
2. A composition of `Syncer` and `Follow`, in which the catalog that the follower sees is
   the syncer's: today `Follow` allows every catalog its scenario's landing order permits.
