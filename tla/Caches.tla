------------------------------- MODULE Caches -------------------------------
(***************************************************************************)
(* The reader's two shared caches, ChunkCache over decoded chunks and      *)
(* IndexCache over parsed indexes: byte-budgeted, least recently used,     *)
(* each under a lock of its own that is released while a miss decodes its  *)
(* file.  The replays of several customers call both, and a miss may find  *)
(* its file swept by the syncer.                                           *)
(*                                                                         *)
(* An Arc is a number: which decoding produced it.                         *)
(***************************************************************************)
EXTENDS Integers, FiniteSets

CONSTANTS
  Readers,    \* replay tasks
  CacheIds,   \* the caches
  Keys,       \* (stream, start_slot)
  Size,       \* cache -> key -> heap_bytes of the decoded value
  Budget,     \* cache -> budget_bytes
  NoReader,   \* nobody holds a lock
  MaxDecodes, \* bound: decodings over all calls
  MaxTicks    \* bound: a cache's tick when a call starts

ASSUME CachesAssumption ==
  /\ NoReader \notin Readers
  /\ Size \in [CacheIds -> [Keys -> Nat \ {0}]]
  /\ Budget \in [CacheIds -> Nat]
  /\ MaxDecodes \in Nat
  /\ MaxTicks \in Nat

VARIABLES
  map,      \* cache -> keys in inner.map
  arc,      \* cache -> key -> the Arc in inner.map
  stamped,  \* cache -> keys in inner.last_used
  last,     \* cache -> key -> its tick in inner.last_used
  tick,     \* cache -> inner.tick
  used,     \* cache -> inner.used
  lock,     \* cache -> who holds its Mutex across several steps, or NoReader
  pc,       \* reader -> "idle", "miss", "decoded", "evict"
  call,     \* reader -> the cache and the key of its current or last call
  mine,     \* reader -> the Arc it decoded itself
  reply,    \* reader -> the Arc its last call returned, 0 for none or an error
  decodes   \* Arcs made so far

inner == <<map, arc, stamped, last, tick, used>>
vars == <<inner, lock, pc, call, mine, reply, decodes>>

Arcs == 0..MaxDecodes

Init ==
  /\ map = [c \in CacheIds |-> {}]
  /\ arc = [c \in CacheIds |-> [k \in Keys |-> 0]]
  /\ stamped = [c \in CacheIds |-> {}]
  /\ last = [c \in CacheIds |-> [k \in Keys |-> 0]]
  /\ tick = [c \in CacheIds |-> 0]
  /\ used = [c \in CacheIds |-> 0]
  /\ lock = [c \in CacheIds |-> NoReader]
  /\ pc = [r \in Readers |-> "idle"]
  /\ call \in [Readers -> CacheIds \X Keys]
  /\ mine = [r \in Readers |-> 0]
  /\ reply = [r \in Readers |-> 0]
  /\ decodes = 0

\* The recency of an entry: the tick is stored and then advanced.
Touch(c, k) ==
  /\ tick' = [tick EXCEPT ![c] = @ + 1]
  /\ last' = [last EXCEPT ![c][k] = tick[c]]
  /\ stamped' = [stamped EXCEPT ![c] = @ \cup {k}]

\* An entry that is there: touch it, unlock, return a clone of its Arc.
Hit(r, c, k) ==
  /\ Touch(c, k)
  /\ reply' = [reply EXCEPT ![r] = arc[c][k]]
  /\ pc' = [pc EXCEPT ![r] = "idle"]
  /\ UNCHANGED <<map, arc, used, lock, mine, decodes>>

\* get_or_decode, get_or_parse: the fast path under the lock.
Lookup(r, c, k) ==
  /\ pc[r] = "idle" /\ lock[c] = NoReader /\ tick[c] < MaxTicks
  /\ call' = [call EXCEPT ![r] = <<c, k>>]
  /\ \/ k \in map[c] /\ Hit(r, c, k)
     \/ /\ k \notin map[c]
        /\ pc' = [pc EXCEPT ![r] = "miss"]
        /\ UNCHANGED <<inner, lock, mine, reply, decodes>>

\* The slow path, outside the lock: the file is decoded.
Decode(r) ==
  /\ pc[r] = "miss" /\ decodes < MaxDecodes
  /\ decodes' = decodes + 1
  /\ mine' = [mine EXCEPT ![r] = decodes + 1]
  /\ pc' = [pc EXCEPT ![r] = "decoded"]
  /\ UNCHANGED <<inner, lock, call, reply>>

\* The file was swept meanwhile or is damaged: the call returns the error.
DecodeFailed(r) ==
  /\ pc[r] = "miss"
  /\ reply' = [reply EXCEPT ![r] = 0]
  /\ pc' = [pc EXCEPT ![r] = "idle"]
  /\ UNCHANGED <<inner, lock, call, mine, decodes>>

Existing_Unchecked(c, k) == FALSE

\* Another task inserted the key while this one decoded.
Existing(c, k) == k \in map[c]

\* The new entry goes in and the lock is kept for the eviction.
Enter(r, c, k) ==
  /\ Touch(c, k)
  /\ map' = [map EXCEPT ![c] = @ \cup {k}]
  /\ arc' = [arc EXCEPT ![c][k] = mine[r]]
  /\ used' = [used EXCEPT ![c] = @ + Size[c][k]]
  /\ lock' = [lock EXCEPT ![c] = r]
  /\ pc' = [pc EXCEPT ![r] = "evict"]
  /\ UNCHANGED <<mine, reply, decodes>>

\* The lock is taken again after the decoding.
Relock(r) ==
  LET c == call[r][1]  k == call[r][2]
  IN  /\ pc[r] = "decoded" /\ lock[c] = NoReader
      /\ \/ Existing(c, k) /\ Hit(r, c, k)
         \/ ~Existing(c, k) /\ Enter(r, c, k)
      /\ UNCHANGED call

OverBudget_Any(c) == used[c] > Budget[c] /\ Cardinality(map[c]) > 0

OverBudget_KeepTwo(c) == used[c] > Budget[c] /\ Cardinality(map[c]) > 2

\* The condition of the eviction loop: the last entry stays whatever its size.
OverBudget(c) == used[c] > Budget[c] /\ Cardinality(map[c]) > 1

\* What an evicted entry gives back: its heap_bytes, if it was in the map.
Refund(c, v) == IF v \in map[c] THEN Size[c][v] ELSE 0

Unstamp_Keep(c, v) == stamped

\* The evicted key leaves last_used as well.
Unstamp(c, v) == [stamped EXCEPT ![c] = @ \ {v}]

\* One round of the loop: the entry with the smallest tick goes.
EvictOne(r) ==
  LET c == call[r][1]
  IN  /\ pc[r] = "evict" /\ OverBudget(c)
      /\ \E v \in stamped[c] :
           /\ \A w \in stamped[c] : last[c][v] =< last[c][w]
           /\ map' = [map EXCEPT ![c] = @ \ {v}]
           /\ stamped' = Unstamp(c, v)
           /\ used' = [used EXCEPT ![c] = @ - Refund(c, v)]
      /\ UNCHANGED <<arc, last, tick, lock, pc, call, mine, reply, decodes>>

\* The loop ends, the lock is released and the call returns its own Arc.
Finish(r) ==
  LET c == call[r][1]
  IN  /\ pc[r] = "evict" /\ ~OverBudget(c)
      /\ lock' = [lock EXCEPT ![c] = NoReader]
      /\ reply' = [reply EXCEPT ![r] = mine[r]]
      /\ pc' = [pc EXCEPT ![r] = "idle"]
      /\ UNCHANGED <<inner, call, mine, decodes>>

Evicting(r) == EvictOne(r) \/ Finish(r)

Next ==
  \E r \in Readers :
    \/ \E c \in CacheIds, k \in Keys : Lookup(r, c, k)
    \/ Decode(r) \/ DecodeFailed(r) \/ Relock(r) \/ Evicting(r)

Spec == Init /\ [][Next]_vars

\* Nothing under the lock waits for anyone: the holder keeps running.
FairSpec == Spec /\ \A r \in Readers : WF_vars(Evicting(r))

-----------------------------------------------------------------------------
(***************************************************************************)
(* Outside the eviction loop a cache is within its budget, or holds one    *)
(* oversized entry: evictions forgotten by a call that found its key       *)
(* inserted by another, or cut short, would leave it over.                 *)
(***************************************************************************)
WithinBudget ==
  \A c \in CacheIds : lock[c] = NoReader =>
    used[c] =< Budget[c] \/ Cardinality(map[c]) =< 1

\* The bytes that the values of some keys take, each of them told apart.
Bytes(c, keys) == UNION {{k} \X (1..Size[c][k]) : k \in keys}

(***************************************************************************)
(* used counts exactly the entries of the map, through concurrent decodes  *)
(* of one key, evictions and failed calls; it never goes below zero, where *)
(* the code's u64 would wrap.                                              *)
(***************************************************************************)
UsedIsSum == \A c \in CacheIds : used[c] = Cardinality(Bytes(c, map[c]))

(***************************************************************************)
(* A call that returns an Arc returns the one the cache holds for its key: *)
(* two tasks that decode one key at once end up sharing one copy, and no   *)
(* call evicts the entry it has just made.                                 *)
(***************************************************************************)
ReturnedIsCached ==
  [][\A r \in Readers : (reply'[r] # reply[r] /\ reply'[r] # 0) =>
       LET c == call'[r][1]  k == call'[r][2]
       IN  k \in map'[c] /\ arc'[c][k] = reply'[r]]_vars

(***************************************************************************)
(* Every entry has a recency of its own, older than the tick: the victim   *)
(* of an eviction is determined, and no key is stamped without an entry.   *)
(***************************************************************************)
StampsAreOrder ==
  \A c \in CacheIds :
    /\ stamped[c] = map[c]
    /\ \A k \in map[c] : last[c][k] < tick[c]
    /\ \A j, k \in map[c] : last[c][j] = last[c][k] => j = k

(***************************************************************************)
(* The eviction loop ends, whatever the sizes: an entry larger than the    *)
(* budget is kept instead of looping for ever.                             *)
(***************************************************************************)
EvictionEnds == \A r \in Readers : (pc[r] = "evict") ~> (pc[r] = "idle")
-----------------------------------------------------------------------------
(***************************************************************************)
(* The strengthening that makes the three invariants inductive.            *)
(***************************************************************************)
TypeOK ==
  /\ map \in [CacheIds -> SUBSET Keys] /\ stamped \in [CacheIds -> SUBSET Keys]
  /\ arc \in [CacheIds -> [Keys -> Nat]] /\ last \in [CacheIds -> [Keys -> Nat]]
  /\ tick \in [CacheIds -> Nat] /\ used \in [CacheIds -> Int]
  /\ lock \in [CacheIds -> Readers \cup {NoReader}]
  /\ pc \in [Readers -> {"idle", "miss", "decoded", "evict"}]
  /\ call \in [Readers -> CacheIds \X Keys]
  /\ mine \in [Readers -> Nat] /\ reply \in [Readers -> Nat] /\ decodes \in Nat

MapsFinite == \A c \in CacheIds : IsFiniteSet(map[c])

\* A lock is held by the reader that evicts from its cache.
LockHeld ==
  \A c \in CacheIds, r \in Readers : lock[c] = r <=> pc[r] = "evict" /\ call[r][1] = c

\* While a reader evicts, its own entry is there and is the newest.
OwnIsNewest ==
  \A r \in Readers : pc[r] = "evict" =>
    LET c == call[r][1]  k == call[r][2]
    IN  /\ k \in map[c] /\ arc[c][k] = mine[r]
        /\ \A j \in map[c] : last[c][j] =< last[c][k]

IndInv == TypeOK /\ MapsFinite /\ LockHeld /\ OwnIsNewest /\ StampsAreOrder /\ WithinBudget
-----------------------------------------------------------------------------
(* What EvictionEnds rests on: the loop has a victim, and it shrinks.      *)

(***************************************************************************)
(* A round of the eviction loop always finds one oldest entry, and it is   *)
(* not the one the call has just made: the loop's "None => break" is never *)
(* taken while the cache is over its budget.                               *)
(***************************************************************************)
VictimExists ==
  \A r \in Readers : (pc[r] = "evict" /\ OverBudget(call[r][1])) =>
    LET c == call[r][1]
    IN  \E v \in map[c] \ {call[r][2]} : \A w \in map[c] \ {v} : last[c][v] < last[c][w]

(***************************************************************************)
(* Each round takes exactly one entry out of the cache that is over its    *)
(* budget, and none out of another: the loop cannot spin.                  *)
(***************************************************************************)
EvictionShrinks ==
  [][\A r \in Readers : EvictOne(r) =>
       LET c == call[r][1]
       IN  /\ Cardinality(map'[c]) = Cardinality(map[c]) - 1
           /\ \A d \in CacheIds \ {c} : map'[d] = map[d]]_vars
=============================================================================
