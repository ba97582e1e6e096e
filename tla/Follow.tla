------------------------------- MODULE Follow -------------------------------
(***************************************************************************)
(* One subscription of the reader: it plans a replay from a snapshot of    *)
(* the catalog, merges the chunks of its streams by slot, and then follows *)
(* the catalog, planning each further pass from the slot after the last    *)
(* one sent.  Meanwhile the syncer lands chunks, sweeps the oldest and     *)
(* republishes the catalog (Syncer.tla has its steps in full).             *)
(*                                                                         *)
(* A chunk's content is the sequence of the slots, as offsets from the     *)
(* start of the chunk, of the messages that match the client's filters, in *)
(* the order the writer received them: not necessarily slot order.         *)
(***************************************************************************)
EXTENDS Integers, Sequences, FiniteSets

CONSTANTS
  SlotsPerChunk,  \* slots of a chunk
  FromSlots,      \* the slots a request may ask to start from
  Scenarios       \* what is recorded and asked for, see the assumption

NoSlot == -1

(***************************************************************************)
(* A scenario has the streams, in the order of Stream::all, and those the  *)
(* client asked for; the chunk numbers of a stream; the contents a chunk   *)
(* may have; and whether the chunks of a stream land oldest first.         *)
(***************************************************************************)
ASSUME FollowAssumption ==
  /\ SlotsPerChunk \in Nat \ {0}
  /\ FromSlots \subseteq Nat
  /\ \A s \in Scenarios :
       /\ s.streams \subseteq Nat /\ IsFiniteSet(s.streams) /\ s.subscribed \subseteq s.streams
       /\ s.indices \subseteq Nat /\ IsFiniteSet(s.indices)
       /\ s.shapes \subseteq Seq(0..(SlotsPerChunk - 1))
       /\ s.landInOrder \in BOOLEAN

VARIABLES
  scenario,   \* the scenario
  content,    \* chunk -> its content
  landed,     \* history: chunks ever downloaded
  disk,       \* chunks on NVMe
  catalog,    \* chunks of the served catalog
  pc,         \* "new", "plan", "drive", "wait", "done"
  fromSlot,   \* from_slot of the request, NoSlot when it has none
  lastSlot,   \* total.last_slot: of the last message of the last sending pass
  from,       \* plan.from_slot of this pass
  todo,       \* stream -> chunk numbers its cursor has still to open
  buf,        \* stream -> messages left of the chunk its cursor has open
  passLast,   \* last_slot of this pass
  mark,       \* history: messages delivered before this pass
  wanted,     \* history: the messages this pass ought to send
  floor,      \* history: where the connection starts, plan.from_slot of the last
              \* pass planned before anything was sent
  delivered,  \* history: messages sent to the client
  outcome     \* how the subscription ended

syncVars == <<scenario, content, landed, disk, catalog>>
passVars == <<from, todo, buf, passLast, mark, wanted, floor>>
vars == <<syncVars, pc, fromSlot, lastSlot, passVars, delivered, outcome>>

Streams == scenario.streams
Subscribed == scenario.subscribed
Indices == scenario.indices

Chunks == Streams \X Indices

Start_OneBased(c) == (c[2] + 1) * SlotsPerChunk

Start(c) == c[2] * SlotsPerChunk
End(c) == (c[2] + 1) * SlotsPerChunk

\* The messages of a chunk, in file order.
Msgs(c) == [i \in 1..Len(content[c]) |->
              [chunk |-> c, ord |-> i, slot |-> Start(c) + content[c][i]]]

MsgsOf(c) == {Msgs(c)[i] : i \in 1..Len(content[c])}

Least(S) == CHOOSE n \in S : \A m \in S : n =< m
Greatest(S) == CHOOSE n \in S : \A m \in S : m =< n

AllSlots == 0..((Greatest(Indices) + 1) * SlotsPerChunk)

-----------------------------------------------------------------------------
(* The syncer, seen from the serving side.                                 *)

Land(c) ==
  /\ c \notin landed
  /\ scenario.landInOrder => \A n \in Indices : n < c[2] => <<c[1], n>> \in landed
  /\ landed' = landed \cup {c}
  /\ disk' = disk \cup {c}
  /\ UNCHANGED <<scenario, content, catalog, pc, fromSlot, lastSlot, passVars, delivered, outcome>>

\* The window moves on: the chunks before number n are removed, the newest
\* chunk never is.
Sweep(n) ==
  /\ \E c \in disk : c[2] >= n
  /\ disk' = {c \in disk : c[2] >= n}
  /\ disk' # disk
  /\ UNCHANGED <<scenario, content, landed, catalog, pc, fromSlot, lastSlot, passVars, delivered, outcome>>

\* SharedCatalog::store.
Republish ==
  /\ catalog # disk
  /\ catalog' = disk
  /\ UNCHANGED <<scenario, content, landed, disk, pc, fromSlot, lastSlot, passVars, delivered, outcome>>

-----------------------------------------------------------------------------
(* Planning.                                                               *)

\* The oldest slot of the catalog for the streams asked for, NoSlot if none.
Floor ==
  LET starts == {Start(c) : c \in {d \in catalog : d[1] \in Subscribed}}
  IN  IF starts = {} THEN NoSlot ELSE Least(starts)

NewestEnd == IF catalog = {} THEN 0 ELSE Greatest({End(c) : c \in catalog})

ResumeFrom_Same == IF lastSlot # NoSlot THEN lastSlot ELSE fromSlot

\* Where the next pass asks to start: the first at from_slot, a later one
\* after the last slot sent.
ResumeFrom == IF lastSlot # NoSlot THEN lastSlot + 1 ELSE fromSlot

PlanRefused_EmptyOnly == Floor = NoSlot

\* plan_replay fails: nothing held for the streams, or asked below the floor.
PlanRefused ==
  \/ Floor = NoSlot
  \/ ResumeFrom # NoSlot /\ ResumeFrom < Floor

ChunksInRange_Touching(s, lo, hi) ==
  {n \in Indices : LET c == <<s, n>> IN c \in catalog /\ Start(c) < hi /\ Start(c) >= lo}

\* The chunks of stream s that overlap [lo, hi).
ChunksInRange(s, lo, hi) ==
  {n \in Indices : LET c == <<s, n>> IN c \in catalog /\ Start(c) < hi /\ End(c) > lo}

\* The messages of chunk c from slot lo on.
MsgsFrom(c, lo) == {m \in MsgsOf(c) : m.slot >= lo}

\* The ends of the catalog over all streams, NoSlot while there are no chunks.
FirstAvailable == IF catalog = {} THEN NoSlot ELSE Least({Start(c) : c \in catalog})
LatestSlot == IF catalog = {} THEN NoSlot ELSE NewestEnd

\* What SubscribeReplayInfo, GetSlot and GetBlockHeight tell a client.  (Ping
\* and GetVersion tell it nothing of slots, the other calls are refused.)
Told == {FirstAvailable, LatestSlot}

\* A client subscribes, from a slot of its own, from what it was told or from
\* the oldest there is.
Connect(f) ==
  /\ pc = "new"
  /\ f \in FromSlots \cup {NoSlot} \cup Told
  /\ pc' = "plan"
  /\ fromSlot' = f
  /\ UNCHANGED <<syncVars, lastSlot, passVars, delivered, outcome>>

\* A snapshot of the catalog is planned.  The cursors pass over the chunks
\* in which no message matches.
Plan ==
  LET lo == IF ResumeFrom = NoSlot THEN Floor ELSE ResumeFrom
  IN  /\ pc = "plan"
      /\ ~PlanRefused
      /\ pc' = "drive"
      /\ from' = lo
      /\ floor' = IF lastSlot = NoSlot THEN lo ELSE floor
      /\ todo' = [s \in Streams |->
                    IF s \in Subscribed
                    THEN {n \in ChunksInRange(s, lo, NewestEnd) : content[<<s, n>>] # <<>>}
                    ELSE {}]
      /\ buf' = [s \in Streams |-> <<>>]
      /\ passLast' = NoSlot
      /\ mark' = Len(delivered)
      /\ wanted' = UNION {MsgsFrom(c, lo) : c \in {d \in catalog : d[1] \in Subscribed}}
      /\ UNCHANGED <<syncVars, fromSlot, lastSlot, delivered, outcome>>

Finish(how) ==
  /\ pc' = "done"
  /\ outcome' = how
  /\ UNCHANGED <<syncVars, fromSlot, lastSlot, passVars, delivered>>

\* The client gets a status instead of a replay, at first or while following.
Refuse == pc = "plan" /\ PlanRefused /\ Finish("refused")

\* A planned chunk was swept after the snapshot: its index cannot be read,
\* unless a cache still has it.
PlanFailed ==
  /\ pc = "plan" /\ ~PlanRefused
  /\ \E c \in catalog \ disk : c[1] \in Subscribed
  /\ Finish("error")

-----------------------------------------------------------------------------
(* drive_replay: the merge of the cursors.                                 *)

Opening(s) == buf[s] = <<>> /\ todo[s] # {}

\* What the cursor of s offers after peek.
Peek(s) == IF Opening(s) THEN Msgs(<<s, Least(todo[s])>>) ELSE buf[s]

Offering == {s \in Streams : Opening(s) \/ buf[s] # <<>>}

\* The slot of the message it offers.
NextSlot(s) ==
  IF Opening(s)
  THEN LET c == <<s, Least(todo[s])>> IN Start(c) + Head(content[c])
  ELSE Head(buf[s]).slot

\* The cursor with the lowest slot wins, the earlier stream on a tie.
Winner ==
  CHOOSE s \in Offering :
    \A t \in Offering :
      NextSlot(s) < NextSlot(t) \/ (NextSlot(s) = NextSlot(t) /\ s =< t)

\* One round of the merge: every cursor is peeked, the winner's message is
\* sent, or only consumed when it lies before the requested start.
Round ==
  LET w == Winner
      m == Head(Peek(w))
  IN  /\ pc = "drive" /\ Offering # {}
      /\ buf' = [s \in Streams |-> IF s = w THEN Tail(Peek(s)) ELSE Peek(s)]
      /\ todo' = [s \in Streams |->
                    IF Opening(s) THEN todo[s] \ {Least(todo[s])} ELSE todo[s]]
      /\ IF m.slot < from
         THEN UNCHANGED <<delivered, passLast>>
         ELSE /\ delivered' = Append(delivered, m)
              /\ passLast' = m.slot
      /\ UNCHANGED <<syncVars, pc, fromSlot, lastSlot, from, mark, wanted, floor, outcome>>

\* A cursor opens a chunk that was swept after the plan, and no cache has it.
OpenFailed ==
  /\ pc = "drive"
  /\ \E s \in Streams : Opening(s) /\ <<s, Least(todo[s])>> \notin disk
  /\ Finish("error")

PassDone_Busy ==
  /\ pc = "drive" /\ Offering = {}
  /\ lastSlot' = IF passLast # NoSlot THEN passLast ELSE lastSlot
  /\ pc' = "plan"
  /\ UNCHANGED <<syncVars, fromSlot, passVars, delivered, outcome>>

\* The pass is drained.  One that sent something is followed by the next at
\* once, one that sent nothing by a wait.
PassDone ==
  /\ pc = "drive" /\ Offering = {}
  /\ lastSlot' = IF passLast # NoSlot THEN passLast ELSE lastSlot
  /\ pc' = IF passLast # NoSlot THEN "plan" ELSE "wait"
  /\ UNCHANGED <<syncVars, fromSlot, passVars, delivered, outcome>>

\* FOLLOW_POLL_INTERVAL has passed.
Poll ==
  /\ pc = "wait"
  /\ pc' = "plan"
  /\ UNCHANGED <<syncVars, fromSlot, lastSlot, passVars, delivered, outcome>>

IdleTimeout == pc = "wait" /\ Finish("idle")

\* The client left or fell behind, or the server shuts down.
Stop == pc \in {"plan", "drive", "wait"} /\ Finish("stopped")

-----------------------------------------------------------------------------
Init ==
  /\ scenario \in Scenarios
  /\ content \in [Chunks -> scenario.shapes]
  /\ landed = {} /\ disk = {} /\ catalog = {}
  /\ pc = "new" /\ outcome = "none"
  /\ fromSlot = NoSlot /\ lastSlot = NoSlot /\ from = NoSlot /\ floor = NoSlot
  /\ passLast = NoSlot /\ mark = 0 /\ wanted = {}
  /\ todo = [s \in Streams |-> {}] /\ buf = [s \in Streams |-> <<>>]
  /\ delivered = <<>>

Sync ==
  \/ \E c \in Chunks : Land(c)
  \/ \E n \in Indices : Sweep(n)
  \/ Republish

Follower ==
  \/ Plan \/ Refuse \/ PlanFailed \/ Round \/ OpenFailed \/ PassDone \/ Poll \/ IdleTimeout

Next == Sync \/ (\E f \in AllSlots \cup FromSlots \cup {NoSlot} : Connect(f)) \/ Follower \/ Stop

Spec == Init /\ [][Next]_vars

(***************************************************************************)
(* Fairness: the replay task keeps being scheduled, and the idle deadline, *)
(* which only a sending pass moves, is not outrun by polls for ever.       *)
(***************************************************************************)
FairSpec == Spec /\ WF_vars(Follower) /\ SF_vars(IdleTimeout)

-----------------------------------------------------------------------------
Message == [chunk : Chunks, ord : Nat, slot : AllSlots]

TypeOK ==
  /\ scenario \in Scenarios
  /\ content \in [Chunks -> scenario.shapes]
  /\ landed \subseteq Chunks /\ disk \subseteq landed /\ catalog \subseteq landed
  /\ pc \in {"new", "plan", "drive", "wait", "done"}
  /\ fromSlot \in AllSlots \cup FromSlots \cup {NoSlot}
  /\ {lastSlot, from, passLast, floor} \subseteq AllSlots \cup FromSlots \cup {NoSlot}
  /\ todo \in [Streams -> SUBSET Indices]
  /\ buf \in [Streams -> Seq(Message)]
  /\ delivered \in Seq(Message)
  /\ mark \in 0..Len(delivered) /\ wanted \subseteq Message
  /\ outcome \in {"none", "refused", "error", "idle", "stopped"}

Sent(lo, hi) == {delivered[i] : i \in lo..hi}

(***************************************************************************)
(* Planning and merging against their definition: a drained pass has sent  *)
(* each message of the snapshot, from the start slot on and for the        *)
(* streams asked for, exactly once.  Bounding the plan by the newest end   *)
(* slot, opening chunks lazily and skipping below from_slot lose and       *)
(* repeat nothing, even where slots are out of order within a chunk.       *)
(***************************************************************************)
PassExact ==
  (pc = "drive" /\ Offering = {}) =>
    /\ Sent(mark + 1, Len(delivered)) = wanted
    /\ Cardinality(wanted) = Len(delivered) - mark

\* The writer received the messages of each chunk in slot order.
InSlotOrder ==
  \A c \in Chunks : \A i, j \in 1..Len(content[c]) : i < j => content[c][i] =< content[c][j]

(***************************************************************************)
(* When the writer received each chunk's messages in slot order, the       *)
(* client sees slots in order and no message twice, over the whole         *)
(* connection, across streams, chunks and passes, whatever lands and is    *)
(* swept meanwhile.  drive_replay's floor is there because without it "a   *)
(* follower resuming at last_slot + 1 re-sends what it already delivered". *)
(***************************************************************************)
InOrderOnce ==
  InSlotOrder =>
    /\ \A i, j \in 1..Len(delivered) : i < j => delivered[i].slot =< delivered[j].slot
    /\ Cardinality(Sent(1, Len(delivered))) = Len(delivered)

(***************************************************************************)
(* A follower "picks up chunks the syncer landed after it connected": when *)
(* a pass has ended, every landed message between the first slot of the    *)
(* connection and the slot the next pass resumes after has been sent.      *)
(***************************************************************************)
NothingSkipped ==
  pc \in {"plan", "wait"} =>
    \A c \in {d \in landed : d[1] \in Subscribed} :
      \A m \in MsgsFrom(c, floor) :
        (floor # NoSlot /\ m.slot =< lastSlot) => m \in Sent(1, Len(delivered))

(***************************************************************************)
(* That holds for a follower of one stream whose chunks land oldest first, *)
(* with slots out of order within a chunk too: a sweep that gets ahead of  *)
(* it ends the stream with an error instead of a silent gap.               *)
(***************************************************************************)
NothingSkippedOfOne ==
  (Cardinality(Subscribed) = 1 /\ scenario.landInOrder) => NothingSkipped

(***************************************************************************)
(* A subscription ends: passes that send something cannot follow each      *)
(* other for ever, because each starts above the last slot of the one      *)
(* before, even where slots arrived out of order.                          *)
(***************************************************************************)
FollowEnds == (pc = "plan") ~> (pc = "done")
-----------------------------------------------------------------------------
(* The strengthening that makes PassExact and InOrderOnce inductive.       *)

\* What the cursors have still to offer: the rest of the chunks they have open
\* and all of those they have not opened.
InBuf(s) == {buf[s][i] : i \in 1..Len(buf[s])}
Unopened(s) == UNION {MsgsOf(<<s, n>>) : n \in todo[s]}
Ahead == UNION {InBuf(s) \cup Unopened(s) : s \in Streams}

\* A cursor holds messages of one chunk, in file order, and has opened no chunk
\* after it.
CursorInv ==
  \A s \in Streams :
    /\ \A n \in todo[s] : content[<<s, n>>] # << >>
    /\ \A i \in 1..Len(buf[s]) :
         /\ buf[s][i].chunk[1] = s /\ buf[s][i] \in MsgsOf(buf[s][i].chunk)
         /\ \A n \in todo[s] : buf[s][i].chunk[2] < n
         /\ \A j \in 1..Len(buf[s]) :
              i < j => buf[s][i].chunk = buf[s][j].chunk /\ buf[s][i].ord < buf[s][j].ord

\* A pass starts after the last slot sent, and slots sent lie in the recording.
ResumeInv ==
  /\ pc = "drive" => lastSlot < from
  /\ \A n \in {lastSlot, passLast} : n # NoSlot => n \in Nat /\ n + 1 \in AllSlots

\* What a pass ought to send it has sent, once, or has ahead of it.
PassInv ==
  pc = "drive" =>
    /\ Sent(mark + 1, Len(delivered)) \cup {m \in Ahead : m.slot >= from} = wanted
    /\ \A m \in Ahead : m \notin Sent(mark + 1, Len(delivered))
    /\ \A i, j \in (mark + 1)..Len(delivered) : i < j => delivered[i] # delivered[j]

\* In slot order: nothing ahead lies before what this pass has sent, and what
\* earlier ones have sent lies before lastSlot.
OrderInv ==
  InSlotOrder =>
    /\ \A i, j \in 1..Len(delivered) :
         i < j => delivered[i].slot =< delivered[j].slot /\ delivered[i] # delivered[j]
    /\ pc \in {"new", "plan", "wait"} =>
         \A i \in 1..Len(delivered) : delivered[i].slot =< lastSlot
    /\ pc = "drive" =>
         /\ \A i \in 1..mark : delivered[i].slot =< lastSlot
         /\ passLast = NoSlot => Len(delivered) = mark
         /\ passLast # NoSlot =>
              /\ \A i \in 1..Len(delivered) : delivered[i].slot =< passLast
              /\ \A m \in Ahead : passLast =< m.slot

IndInv == TypeOK /\ CursorInv /\ ResumeInv /\ PassInv /\ OrderInv

-----------------------------------------------------------------------------
(* What more NothingSkippedOfOne needs.                                    *)

\* A stream's chunks land oldest first and leave oldest first, so that a catalog
\* has no holes.
NoHoles ==
  /\ \A c \in landed : \A n \in Indices : n < c[2] => <<c[1], n>> \in landed
  /\ \A d \in disk, c \in landed : (c[1] = d[1] /\ d[2] < c[2]) => c \in disk
  /\ \A c, d \in catalog : \A n \in Indices :
       (c[1] = d[1] /\ c[2] < n /\ n < d[2]) => <<c[1], n>> \in catalog

\* The chunks of the streams asked for that have landed.
Asked == {c \in landed : c[1] \in Subscribed}

\* What a pass wants has landed, and a message that lands later, or has landed
\* and is not wanted, comes after it.
WantedWhole ==
  pc = "drive" =>
    /\ from = IF lastSlot = NoSlot THEN floor ELSE lastSlot + 1
    /\ passLast # NoSlot => \E m \in wanted : m.slot = passLast
    /\ \A m \in wanted : /\ m.chunk \in Asked /\ m \in MsgsOf(m.chunk)
                         /\ \A c \in Asked : \A x \in MsgsFrom(c, from) :
                              x.slot =< m.slot => x \in wanted

\* Everything up to the slot to resume after has been sent.
SentUpTo ==
  lastSlot # NoSlot =>
    /\ \E c \in Asked : lastSlot < End(c)
    /\ \A c \in Asked : \A m \in MsgsFrom(c, floor) :
         m.slot =< lastSlot => m \in Sent(1, Len(delivered))

SkipInv ==
  (Cardinality(Subscribed) = 1 /\ scenario.landInOrder) =>
    NoHoles /\ WantedWhole /\ SentUpTo
=============================================================================
