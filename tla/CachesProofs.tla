---------------------------- MODULE CachesProofs ----------------------------
(***************************************************************************)
(* Proofs about Caches, for any readers, caches, keys, sizes and budgets:  *)
(* the budgets are kept, victims are determined, a call returns what the   *)
(* cache holds, the bytes are counted exactly and the eviction loop        *)
(* shrinks its cache.                                                      *)
(***************************************************************************)
EXTENDS Caches, FiniteSetTheorems, WellFoundedInduction, TLAPS

\* Empty caches satisfy the inductive invariant.
LEMMA InitInd == Init => IndInv
<1> SUFFICES ASSUME Init PROVE IndInv
  OBVIOUS
<1>1. TypeOK
  BY DEF Init, TypeOK
<1>2. MapsFinite
  BY FS_EmptySet DEF Init, MapsFinite
<1>3. LockHeld /\ OwnIsNewest /\ StampsAreOrder
  BY CachesAssumption DEF Init, LockHeld, OwnIsNewest, StampsAreOrder
<1>4. WithinBudget
  BY CachesAssumption DEF Init, WithinBudget
<1> QED BY <1>1, <1>2, <1>3, <1>4 DEF IndInv

\* A touched key, old or new, becomes the newest of its cache.
LEMMA TouchOrders ==
  ASSUME TypeOK, StampsAreOrder, NEW c \in CacheIds, NEW k \in Keys, Touch(c, k),
         map' = [map EXCEPT ![c] = @ \cup {k}]
  PROVE  /\ StampsAreOrder'
         /\ \A j \in map'[c] : last'[c][j] =< last'[c][k]
<1>1. ASSUME NEW d \in CacheIds, d # c
      PROVE  stamped'[d] = stamped[d] /\ map'[d] = map[d] /\ last'[d] = last[d] /\ tick'[d] = tick[d]
  BY <1>1 DEF TypeOK, Touch
<1>2. /\ stamped'[c] = stamped[c] \cup {k} /\ map'[c] = map[c] \cup {k}
      /\ tick'[c] = tick[c] + 1 /\ tick[c] \in Nat
      /\ last'[c] = [last[c] EXCEPT ![k] = tick[c]] /\ last[c] \in [Keys -> Nat]
      /\ map[c] \subseteq Keys
  BY DEF TypeOK, Touch
<1>3. /\ last'[c][k] = tick[c]
      /\ \A j \in Keys : j # k => last'[c][j] = last[c][j]
  BY <1>2
<1>4. \A j \in map[c] : last[c][j] < tick[c] /\ last[c][j] \in Nat
  BY <1>2 DEF StampsAreOrder
<1>5. \A j \in map'[c] : last'[c][j] =< last'[c][k] /\ last'[c][j] < tick'[c]
  BY <1>2, <1>3, <1>4
<1>6. \A i, j \in map'[c] : last'[c][i] = last'[c][j] => i = j
  <2>1. \A j \in map'[c] : j # k => j \in map[c] /\ last'[c][j] < tick[c]
    BY <1>2, <1>3, <1>4
  <2>2. \A i, j \in map[c] : last[c][i] = last[c][j] => i = j
    BY DEF StampsAreOrder
  <2> QED BY <1>2, <1>3, <1>4, <2>1, <2>2
<1>7. stamped'[c] = map'[c]
  BY <1>2 DEF StampsAreOrder
<1>8. StampsAreOrder'
  <2> SUFFICES ASSUME NEW d \in CacheIds
               PROVE  /\ stamped'[d] = map'[d]
                      /\ \A j \in map'[d] : last'[d][j] < tick'[d]
                      /\ \A i, j \in map'[d] : last'[d][i] = last'[d][j] => i = j
    BY DEF StampsAreOrder
  <2>1. CASE d = c
    BY <2>1, <1>5, <1>6, <1>7
  <2>2. CASE d # c
    BY <2>2, <1>1 DEF StampsAreOrder
  <2> QED BY <2>1, <2>2
<1> QED BY <1>5, <1>8

\* Nobody evicts from a cache whose lock is free.
LEMMA FreeIsQuiet ==
  ASSUME LockHeld, NEW c \in CacheIds, lock[c] = NoReader, NEW r \in Readers, pc[r] = "evict"
  PROVE  call[r][1] # c
BY CachesAssumption DEF LockHeld

\* A hit, on the fast path or after a decoding, only touches the entry.
LEMMA HitInd ==
  ASSUME IndInv, NEW r \in Readers, NEW c \in CacheIds, NEW k \in Keys,
         pc[r] # "evict", lock[c] = NoReader, k \in map[c],
         call' = [call EXCEPT ![r] = <<c, k>>], Hit(r, c, k)
  PROVE  IndInv'
<1> USE DEF IndInv
<1>1. map = [map EXCEPT ![c] = @ \cup {k}]
  BY DEF TypeOK
<1>2. StampsAreOrder'
  BY <1>1, TouchOrders DEF Hit
<1>3. TypeOK'
  BY DEF TypeOK, Hit, Touch
<1>4. MapsFinite' /\ WithinBudget'
  BY DEF Hit, MapsFinite, WithinBudget
<1>5. LockHeld'
  BY DEF LockHeld, Hit, TypeOK
<1>6. OwnIsNewest'
  <2> SUFFICES ASSUME NEW q \in Readers, pc'[q] = "evict"
               PROVE  LET d == call'[q][1]  j == call'[q][2]
                      IN  /\ j \in map'[d] /\ arc'[d][j] = mine'[q]
                          /\ \A i \in map'[d] : last'[d][i] =< last'[d][j]
    BY DEF OwnIsNewest
  <2>1. q # r /\ pc[q] = "evict" /\ call'[q] = call[q]
    BY DEF Hit, TypeOK
  <2>2. call[q][1] # c /\ call[q][1] \in CacheIds
    BY <2>1, FreeIsQuiet DEF TypeOK
  <2>3. last'[call[q][1]] = last[call[q][1]]
    BY <2>2 DEF Hit, Touch, TypeOK
  <2> QED BY <2>1, <2>3 DEF OwnIsNewest, Hit
<1> QED BY <1>2, <1>3, <1>4, <1>5, <1>6

\* A new entry leaves its cache locked by the reader that made it.
LEMMA EnterInd ==
  ASSUME IndInv, NEW r \in Readers, NEW c \in CacheIds, NEW k \in Keys,
         pc[r] = "decoded", lock[c] = NoReader, call[r] = <<c, k>>, call' = call,
         Enter(r, c, k)
  PROVE  IndInv'
<1> USE DEF IndInv
<1>1. /\ StampsAreOrder'
      /\ \A j \in map'[c] : last'[c][j] =< last'[c][k]
  BY TouchOrders DEF Enter
<1>2. TypeOK'
  <2>1. Size[c][k] \in Nat
    BY CachesAssumption
  <2>2. used' \in [CacheIds -> Int]
    BY <2>1 DEF TypeOK, Enter
  <2> QED BY <2>2 DEF TypeOK, Enter, Touch
<1>3. MapsFinite'
  <2>1. IsFiniteSet(map[c] \cup {k})
    BY FS_AddElement DEF MapsFinite
  <2>2. \A d \in CacheIds : map'[d] = IF d = c THEN map[c] \cup {k} ELSE map[d]
    BY DEF Enter, TypeOK
  <2> QED BY <2>1, <2>2 DEF MapsFinite
<1>4. \A d \in CacheIds : d # c => map'[d] = map[d] /\ arc'[d] = arc[d] /\ last'[d] = last[d]
                                   /\ used'[d] = used[d] /\ lock'[d] = lock[d]
  BY DEF Enter, Touch, TypeOK
<1>5. lock'[c] = r
  BY DEF Enter, TypeOK
<1>6. WithinBudget'
  BY <1>4, <1>5, CachesAssumption DEF WithinBudget
<1>7. LockHeld'
  <2> SUFFICES ASSUME NEW d \in CacheIds, NEW q \in Readers
               PROVE  lock'[d] = q <=> pc'[q] = "evict" /\ call'[q][1] = d
    BY DEF LockHeld
  <2>1. CASE q = r
    <3>1. pc'[q] = "evict" /\ call'[q][1] = c
      BY <2>1 DEF Enter, TypeOK
    <3>2. d # c => lock'[d] # r
      BY <1>4, CachesAssumption DEF LockHeld
    <3> QED BY <2>1, <3>1, <3>2, <1>5
  <2>2. CASE q # r
    <3>1. pc'[q] = pc[q] /\ call'[q] = call[q]
      BY <2>2 DEF Enter, TypeOK
    <3>2. CASE d = c
      BY <2>2, <3>1, <3>2, <1>5, FreeIsQuiet
    <3>3. CASE d # c
      BY <3>1, <3>3, <1>4 DEF LockHeld
    <3> QED BY <3>2, <3>3
  <2> QED BY <2>1, <2>2
<1>8. OwnIsNewest'
  <2> SUFFICES ASSUME NEW q \in Readers, pc'[q] = "evict"
               PROVE  LET d == call'[q][1]  j == call'[q][2]
                      IN  /\ j \in map'[d] /\ arc'[d][j] = mine'[q]
                          /\ \A i \in map'[d] : last'[d][i] =< last'[d][j]
    BY DEF OwnIsNewest
  <2>1. CASE q = r
    <3>1. call'[q][1] = c /\ call'[q][2] = k
      BY <2>1
    <3>2. k \in map'[c] /\ arc'[c][k] = mine'[r]
      BY DEF Enter, TypeOK
    <3> QED BY <2>1, <3>1, <3>2, <1>1
  <2>2. CASE q # r
    <3>1. pc[q] = "evict" /\ call'[q] = call[q] /\ mine'[q] = mine[q]
      BY <2>2 DEF Enter, TypeOK
    <3>2. call[q][1] # c /\ call[q][1] \in CacheIds
      BY <3>1, FreeIsQuiet DEF TypeOK
    <3> QED BY <3>1, <3>2, <1>4 DEF OwnIsNewest
  <2> QED BY <2>1, <2>2
<1> QED BY <1>1, <1>2, <1>3, <1>6, <1>7, <1>8

\* A set with more than one element has one besides a given one.
LEMMA AnotherOne ==
  ASSUME NEW S, IsFiniteSet(S), Cardinality(S) > 1, NEW k \in S
  PROVE  \E j \in S : j # k
<1> SUFFICES ASSUME \A j \in S : j = k PROVE FALSE
  OBVIOUS
<1>1. S = {k}
  OBVIOUS
<1>2. Cardinality(S) = 1
  BY <1>1, FS_Singleton
<1> QED BY <1>2

\* The victim of an eviction is never the entry of the call itself.
LEMMA VictimIsOther ==
  ASSUME IndInv, NEW r \in Readers, pc[r] = "evict", OverBudget(call[r][1]),
         NEW v \in stamped[call[r][1]],
         \A w \in stamped[call[r][1]] : last[call[r][1]][v] =< last[call[r][1]][w]
  PROVE  v # call[r][2]
<1> DEFINE c == call[r][1]
           k == call[r][2]
<1>1. c \in CacheIds /\ k \in map[c] /\ stamped[c] = map[c]
  BY DEF IndInv, TypeOK, OwnIsNewest, StampsAreOrder
<1>2. \A j \in map[c] : last[c][j] =< last[c][k]
  BY DEF IndInv, OwnIsNewest
<1>3. PICK j \in map[c] : j # k
  BY <1>1, AnotherOne DEF IndInv, MapsFinite, OverBudget
<1>4. last[c][j] \in Nat /\ last[c][k] \in Nat
  BY <1>1 DEF IndInv, TypeOK
<1>5. v = k => last[c][j] = last[c][k]
  BY <1>1, <1>2, <1>4
<1> QED BY <1>1, <1>3, <1>5 DEF IndInv, StampsAreOrder

\* One round of the eviction loop.
LEMMA EvictInd ==
  ASSUME IndInv, NEW r \in Readers, EvictOne(r)
  PROVE  IndInv'
<1> USE DEF IndInv
<1> DEFINE c == call[r][1]
<1>1. PICK v \in stamped[c] :
        /\ \A w \in stamped[c] : last[c][v] =< last[c][w]
        /\ map' = [map EXCEPT ![c] = @ \ {v}]
        /\ stamped' = Unstamp(c, v)
        /\ used' = [used EXCEPT ![c] = @ - Refund(c, v)]
  BY DEF EvictOne
<1>2. c \in CacheIds /\ v \in Keys /\ pc[r] = "evict" /\ OverBudget(c)
  BY <1>1 DEF EvictOne, TypeOK
<1>3. v # call[r][2]
  BY <1>1, <1>2, VictimIsOther
<1>4. UNCHANGED <<arc, last, tick, lock, pc, call, mine, reply, decodes>>
  BY DEF EvictOne
<1> HIDE DEF c
<1>5. TypeOK'
  <2>1. Refund(c, v) \in Int
    BY <1>2, CachesAssumption DEF Refund
  <2>2. used' \in [CacheIds -> Int]
    BY <1>1, <1>2, <2>1 DEF TypeOK
  <2> QED BY <1>1, <1>2, <1>4, <2>2 DEF TypeOK, Unstamp
<1>6. \A d \in CacheIds : d # c => map'[d] = map[d] /\ stamped'[d] = stamped[d] /\ used'[d] = used[d]
  BY <1>1, <1>2 DEF TypeOK, Unstamp
<1>7. map'[c] = map[c] \ {v} /\ stamped'[c] = stamped[c] \ {v}
  BY <1>1, <1>2 DEF TypeOK, Unstamp
<1>8. MapsFinite'
  <2>1. IsFiniteSet(map[c] \ {v})
    BY <1>2, FS_RemoveElement DEF MapsFinite
  <2> QED BY <2>1, <1>6, <1>7 DEF MapsFinite
<1>9. LockHeld'
  BY <1>4 DEF LockHeld
<1>10. StampsAreOrder'
  BY <1>2, <1>4, <1>6, <1>7 DEF StampsAreOrder
<1>11. lock[c] = r
  BY <1>2 DEF LockHeld, c
<1>12. WithinBudget'
  BY <1>4, <1>6, <1>11, CachesAssumption DEF WithinBudget
<1>13. OwnIsNewest'
  <2> SUFFICES ASSUME NEW q \in Readers, pc'[q] = "evict"
               PROVE  LET d == call'[q][1]  j == call'[q][2]
                      IN  /\ j \in map'[d] /\ arc'[d][j] = mine'[q]
                          /\ \A i \in map'[d] : last'[d][i] =< last'[d][j]
    BY DEF OwnIsNewest
  <2>1. CASE q = r
    BY <2>1, <1>2, <1>3, <1>4, <1>7 DEF OwnIsNewest, c
  <2>2. CASE q # r
    <3>1. pc[q] = "evict" /\ call[q][1] \in CacheIds
      BY <1>4 DEF TypeOK
    <3>2. call[q][1] # c
      BY <2>2, <3>1, <1>2, <1>11 DEF LockHeld
    <3> QED BY <3>1, <3>2, <1>4, <1>6 DEF OwnIsNewest
  <2> QED BY <2>1, <2>2
<1> QED BY <1>5, <1>8, <1>9, <1>10, <1>12, <1>13

\* The loop ends only when the cache is within its budget again.
LEMMA FinishInd ==
  ASSUME IndInv, NEW r \in Readers, Finish(r)
  PROVE  IndInv'
<1> USE DEF IndInv
<1> DEFINE c == call[r][1]
<1>1. /\ pc[r] = "evict" /\ ~OverBudget(c)
      /\ lock' = [lock EXCEPT ![c] = NoReader]
      /\ pc' = [pc EXCEPT ![r] = "idle"]
      /\ reply' = [reply EXCEPT ![r] = mine[r]]
      /\ UNCHANGED <<inner, call, mine, decodes>>
  BY DEF Finish
<1>2. c \in CacheIds
  BY DEF TypeOK
<1> HIDE DEF c
<1>3. TypeOK'
  BY <1>1, <1>2 DEF TypeOK, inner
<1>4. MapsFinite' /\ StampsAreOrder'
  BY <1>1 DEF MapsFinite, StampsAreOrder, inner
<1>5. used[c] =< Budget[c] \/ Cardinality(map[c]) =< 1
  <2>1. Cardinality(map[c]) \in Nat
    BY <1>2, FS_CardinalityType DEF MapsFinite
  <2>2. used[c] \in Int /\ Budget[c] \in Nat
    BY <1>2, CachesAssumption DEF TypeOK
  <2> QED BY <1>1, <2>1, <2>2 DEF OverBudget
<1>6. WithinBudget'
  BY <1>1, <1>2, <1>5 DEF WithinBudget, inner, TypeOK
<1>7. LockHeld'
  BY <1>1, <1>2, CachesAssumption DEF LockHeld, TypeOK, c
<1>8. OwnIsNewest'
  BY <1>1 DEF OwnIsNewest, inner, TypeOK
<1> QED BY <1>3, <1>4, <1>6, <1>7, <1>8

\* Decoding, or failing to, touches no cache.
LEMMA DecodeInd ==
  ASSUME IndInv, NEW r \in Readers, Decode(r) \/ DecodeFailed(r)
  PROVE  IndInv'
<1> USE DEF IndInv
<1>1. /\ UNCHANGED <<inner, lock, call>> /\ pc[r] = "miss"
      /\ \E p \in {"idle", "decoded"} : pc' = [pc EXCEPT ![r] = p]
  BY DEF Decode, DecodeFailed
<1>2. TypeOK'
  BY <1>1 DEF TypeOK, inner, Decode, DecodeFailed
<1>3. MapsFinite' /\ StampsAreOrder' /\ WithinBudget'
  BY <1>1 DEF MapsFinite, StampsAreOrder, WithinBudget, inner
<1>4. LockHeld'
  BY <1>1 DEF LockHeld, TypeOK
<1>5. OwnIsNewest'
  <2>1. \A q \in Readers : pc'[q] = "evict" => pc[q] = "evict" /\ mine'[q] = mine[q]
    BY <1>1 DEF Decode, DecodeFailed, TypeOK
  <2> QED BY <1>1, <2>1 DEF OwnIsNewest, inner
<1> QED BY <1>2, <1>3, <1>4, <1>5

\* The fast path.
LEMMA LookupInd ==
  ASSUME IndInv, NEW r \in Readers, NEW c \in CacheIds, NEW k \in Keys, Lookup(r, c, k)
  PROVE  IndInv'
<1>1. CASE k \in map[c]
  BY <1>1, HitInd DEF Lookup
<1>2. CASE k \notin map[c]
  <2> USE DEF IndInv
  <2>1. /\ pc[r] = "idle" /\ pc' = [pc EXCEPT ![r] = "miss"]
        /\ call' = [call EXCEPT ![r] = <<c, k>>]
        /\ UNCHANGED <<inner, lock, mine, reply, decodes>>
    BY <1>2 DEF Lookup
  <2>2. TypeOK'
    BY <2>1 DEF TypeOK, inner
  <2>3. MapsFinite' /\ StampsAreOrder' /\ WithinBudget'
    BY <2>1 DEF MapsFinite, StampsAreOrder, WithinBudget, inner
  <2>4. LockHeld'
    BY <2>1 DEF LockHeld, TypeOK
  <2>5. OwnIsNewest'
    <3>1. \A q \in Readers : pc'[q] = "evict" => pc[q] = "evict" /\ call'[q] = call[q]
      BY <2>1 DEF TypeOK
    <3> QED BY <2>1, <3>1 DEF OwnIsNewest, inner
  <2> QED BY <2>2, <2>3, <2>4, <2>5
<1> QED BY <1>1, <1>2

\* The lock taken again after a decoding.
LEMMA RelockInd ==
  ASSUME IndInv, NEW r \in Readers, Relock(r)
  PROVE  IndInv'
<1> DEFINE c == call[r][1]
           k == call[r][2]
<1>1. c \in CacheIds /\ k \in Keys /\ call[r] = <<c, k>> /\ call = [call EXCEPT ![r] = <<c, k>>]
  BY DEF IndInv, TypeOK
<1>2. /\ pc[r] = "decoded" /\ lock[c] = NoReader /\ call' = call
      /\ \/ k \in map[c] /\ Hit(r, c, k)
         \/ k \notin map[c] /\ Enter(r, c, k)
  BY DEF Relock, Existing
<1> HIDE DEF c, k
<1>3. CASE k \in map[c] /\ Hit(r, c, k)
  BY <1>1, <1>2, <1>3, HitInd
<1>4. CASE k \notin map[c] /\ Enter(r, c, k)
  BY <1>1, <1>2, <1>4, EnterInd
<1> QED BY <1>2, <1>3, <1>4

\* Every step keeps the inductive invariant.
LEMMA NextInd == IndInv /\ [Next]_vars => IndInv'
<1> SUFFICES ASSUME IndInv, [Next]_vars PROVE IndInv'
  OBVIOUS
<1>1. CASE UNCHANGED vars
  BY <1>1 DEF IndInv, TypeOK, MapsFinite, LockHeld, OwnIsNewest, StampsAreOrder, WithinBudget,
              vars, inner
<1>2. CASE Next
  <2>1. PICK r \in Readers :
          \/ \E c \in CacheIds, k \in Keys : Lookup(r, c, k)
          \/ Decode(r) \/ DecodeFailed(r) \/ Relock(r) \/ EvictOne(r) \/ Finish(r)
    BY <1>2 DEF Next, Evicting
  <2> QED BY <2>1, LookupInd, DecodeInd, RelockInd, EvictInd, FinishInd
<1> QED BY <1>1, <1>2

(***************************************************************************)
(* The strengthened invariant of the two caches holds in every reachable   *)
(* state of any number of concurrent callers.                              *)
(***************************************************************************)
THEOREM CachesInvariant == Spec => []IndInv
BY InitInd, NextInd, PTL DEF Spec

(***************************************************************************)
(* Outside the eviction loop a cache is within its budget or holds a       *)
(* single entry.                                                           *)
(***************************************************************************)
THEOREM WithinBudgetHolds == Spec => []WithinBudget
<1>1. IndInv => WithinBudget
  BY DEF IndInv
<1> QED BY <1>1, CachesInvariant, PTL

(***************************************************************************)
(* Exactly the entries are stamped, each with a recency of its own.        *)
(***************************************************************************)
THEOREM StampsAreOrderHolds == Spec => []StampsAreOrder
<1>1. IndInv => StampsAreOrder
  BY DEF IndInv
<1> QED BY <1>1, CachesInvariant, PTL

(***************************************************************************)
(* A call that returns an Arc returns the one the cache holds for its key, *)
(* whoever decoded the key meanwhile and whatever was evicted.             *)
(***************************************************************************)
THEOREM ReturnedIsCachedHolds == Spec => ReturnedIsCached
<1>1. IndInv /\ [Next]_vars =>
        [\A r \in Readers : (reply'[r] # reply[r] /\ reply'[r] # 0) =>
           LET c == call'[r][1]  k == call'[r][2]
           IN  k \in map'[c] /\ arc'[c][k] = reply'[r]]_vars
  <2> SUFFICES ASSUME IndInv, Next, NEW r \in Readers, reply'[r] # reply[r], reply'[r] # 0
               PROVE  LET c == call'[r][1]  k == call'[r][2]
                      IN  k \in map'[c] /\ arc'[c][k] = reply'[r]
    OBVIOUS
  <2> USE DEF IndInv
  <2>1. PICK q \in Readers :
          \/ \E c \in CacheIds, k \in Keys : Lookup(q, c, k)
          \/ Decode(q) \/ DecodeFailed(q) \/ Relock(q) \/ EvictOne(q) \/ Finish(q)
    BY DEF Next, Evicting
  <2>2. ASSUME NEW c \in CacheIds, NEW k \in Keys, k \in map[c], Hit(q, c, k),
               call' = [call EXCEPT ![q] = <<c, k>>]
        PROVE  LET d == call'[r][1]  j == call'[r][2]
               IN  j \in map'[d] /\ arc'[d][j] = reply'[r]
    <3>1. r = q /\ call'[r][1] = c /\ call'[r][2] = k
      BY <2>2 DEF Hit, TypeOK
    <3>2. k \in map'[c] /\ arc'[c][k] = reply'[r]
      BY <2>2, <3>1 DEF Hit, TypeOK
    <3> QED BY <3>1, <3>2
  <2>3. CASE \E c \in CacheIds, k \in Keys : Lookup(q, c, k)
    <3>1. PICK c \in CacheIds, k \in Keys : Lookup(q, c, k)
      BY <2>3
    <3>2. k \in map[c] /\ Hit(q, c, k) /\ call' = [call EXCEPT ![q] = <<c, k>>]
      BY <3>1 DEF Lookup
    <3> QED BY <3>2, <2>2
  <2>4. CASE Decode(q) \/ DecodeFailed(q) \/ EvictOne(q)
    BY <2>4 DEF Decode, DecodeFailed, EvictOne, TypeOK
  <2>5. CASE Relock(q)
    <3> DEFINE c == call[q][1]
               k == call[q][2]
    <3>1. c \in CacheIds /\ k \in Keys /\ call = [call EXCEPT ![q] = <<c, k>>]
      BY DEF TypeOK
    <3>2. k \in map[c] /\ Hit(q, c, k) /\ call' = call
      BY <2>5 DEF Relock, Existing, Enter
    <3> HIDE DEF c, k
    <3> QED BY <3>1, <3>2, <2>2
  <2>6. CASE Finish(q)
    <3>1. r = q /\ pc[q] = "evict" /\ reply'[r] = mine[q] /\ call' = call /\ map' = map /\ arc' = arc
      BY <2>6 DEF Finish, TypeOK, inner
    <3> QED BY <3>1 DEF OwnIsNewest
  <2> QED BY <2>1, <2>3, <2>4, <2>5, <2>6
<1> QED BY <1>1, CachesInvariant, PTL DEF Spec, ReturnedIsCached

-----------------------------------------------------------------------------
(* The byte count.                                                         *)

\* A value takes as many bytes as heap_bytes says.
LEMMA ValueBytes ==
  ASSUME NEW c \in CacheIds, NEW k \in Keys
  PROVE  /\ IsFiniteSet({k} \X (1..Size[c][k]))
         /\ Cardinality({k} \X (1..Size[c][k])) = Size[c][k]
<1> DEFINE n == Size[c][k]
<1>1. n \in Nat
  BY CachesAssumption
<1> HIDE DEF n
<1>2. IsFiniteSet({k}) /\ Cardinality({k}) = 1
  BY FS_Singleton
<1>3. IsFiniteSet(1..n) /\ Cardinality(1..n) = n
  BY <1>1, FS_Interval
<1> DEFINE A == {k}
           B == 1..n
<1>4. IsFiniteSet({k} \X (1..n)) /\ Cardinality({k} \X (1..n)) = 1 * n
  <2>1. IsFiniteSet(A) /\ IsFiniteSet(B) /\ Cardinality(A) = 1 /\ Cardinality(B) = n
    BY <1>2, <1>3
  <2> HIDE DEF A, B
  <2>2. IsFiniteSet(A \X B) /\ Cardinality(A \X B) = Cardinality(A) * Cardinality(B)
    BY <2>1, FS_Product
  <2>3. IsFiniteSet(A \X B) /\ Cardinality(A \X B) = 1 * n
    BY <2>1, <2>2
  <2> QED BY <2>3 DEF A, B
<1> QED BY <1>1, <1>4 DEF n

\* Finitely many values take finitely many bytes.
LEMMA BytesFinite ==
  ASSUME NEW c \in CacheIds, NEW M \in SUBSET Keys, IsFiniteSet(M)
  PROVE  IsFiniteSet(Bytes(c, M))
<1> DEFINE S == {{k} \X (1..Size[c][k]) : k \in M}
<1>1. IsFiniteSet(S)
  <2> DEFINE f == [k \in M |-> {k} \X (1..Size[c][k])]
  <2>1. f \in Surjection(M, S)
    BY DEF Surjection
  <2> HIDE DEF S, f
  <2> QED BY <2>1, FS_Surjection
<1>2. \A T \in S : IsFiniteSet(T)
  BY ValueBytes
<1> HIDE DEF S
<1>3. IsFiniteSet(UNION S)
  BY <1>1, <1>2, FS_UNION
<1> QED BY <1>3 DEF S, Bytes

\* One more value takes its own bytes more: no two keys share one.
LEMMA BytesAdd ==
  ASSUME NEW c \in CacheIds, NEW M \in SUBSET Keys, IsFiniteSet(M), NEW k \in Keys \ M
  PROVE  /\ Cardinality(Bytes(c, M \cup {k})) = Cardinality(Bytes(c, M)) + Size[c][k]
         /\ Cardinality(Bytes(c, M)) \in Nat /\ Size[c][k] \in Nat
<1> DEFINE S == Bytes(c, M)
           T == {k} \X (1..Size[c][k])
<1>1. Bytes(c, M \cup {k}) = S \cup T
  BY DEF Bytes
<1>2. S \cap T = {}
  <2>1. \A b \in S : b[1] \in M
    BY DEF Bytes
  <2>2. \A b \in T : b[1] = k
    OBVIOUS
  <2> HIDE DEF S, T
  <2> QED BY <2>1, <2>2
<1>3. IsFiniteSet(S) /\ IsFiniteSet(T) /\ Cardinality(T) = Size[c][k]
  BY BytesFinite, ValueBytes
<1>4. Size[c][k] \in Nat
  BY CachesAssumption
<1> HIDE DEF S, T
<1>5. Cardinality(S \cup T) = Cardinality(S) + Cardinality(T) - Cardinality(S \cap T)
  BY <1>3, FS_Union
<1>6. Cardinality(S) \in Nat /\ Cardinality(S \cap T) = 0
  BY <1>2, <1>3, FS_CardinalityType, FS_EmptySet
<1>7. Cardinality(S \cup T) = Cardinality(S) + Size[c][k]
  BY <1>3, <1>4, <1>5, <1>6
<1> QED BY <1>1, <1>4, <1>6, <1>7 DEF S

\* A new entry is counted once, because another task's was looked for first.
LEMMA EnterCounts ==
  ASSUME IndInv, UsedIsSum, NEW r \in Readers, NEW c \in CacheIds, NEW k \in Keys,
         k \notin map[c], Enter(r, c, k)
  PROVE  UsedIsSum'
<1>1. map[c] \in SUBSET Keys /\ IsFiniteSet(map[c])
  BY DEF IndInv, TypeOK, MapsFinite
<1>2. Cardinality(Bytes(c, map[c] \cup {k})) = used[c] + Size[c][k]
  BY <1>1, BytesAdd DEF UsedIsSum
<1>3. \A d \in CacheIds : /\ map'[d] = IF d = c THEN map[c] \cup {k} ELSE map[d]
                          /\ used'[d] = IF d = c THEN used[c] + Size[c][k] ELSE used[d]
  BY DEF IndInv, TypeOK, Enter
<1> SUFFICES ASSUME NEW d \in CacheIds PROVE used'[d] = Cardinality(Bytes(d, map'[d]))
  BY DEF UsedIsSum, Bytes
<1>4. CASE d = c
  BY <1>2, <1>3, <1>4
<1>5. CASE d # c
  BY <1>3, <1>5 DEF UsedIsSum
<1> QED BY <1>4, <1>5

\* A victim is in the map, and gives back what it was counted for.
LEMMA EvictCounts ==
  ASSUME IndInv, UsedIsSum, NEW r \in Readers, EvictOne(r)
  PROVE  UsedIsSum'
<1> DEFINE c == call[r][1]
<1>1. PICK v \in stamped[c] :
        /\ map' = [map EXCEPT ![c] = @ \ {v}]
        /\ used' = [used EXCEPT ![c] = @ - Refund(c, v)]
  BY DEF EvictOne
<1>2. c \in CacheIds /\ v \in map[c] /\ map[c] \in SUBSET Keys /\ IsFiniteSet(map[c])
  BY <1>1 DEF IndInv, TypeOK, StampsAreOrder, MapsFinite
<1> HIDE DEF c
<1> DEFINE M == map[c] \ {v}
<1>3. M \in SUBSET Keys /\ v \in Keys \ M /\ M \cup {v} = map[c] /\ IsFiniteSet(M)
  BY <1>2, FS_RemoveElement
<1>4. Refund(c, v) = Size[c][v]
  BY <1>2 DEF Refund
<1>5. \A d \in CacheIds : /\ map'[d] = IF d = c THEN M ELSE map[d]
                          /\ used'[d] = IF d = c THEN used[c] - Size[c][v] ELSE used[d]
  BY <1>1, <1>2, <1>4 DEF IndInv, TypeOK
<1> HIDE DEF M
<1>6. used[c] - Size[c][v] = Cardinality(Bytes(c, M))
  <2>1. used[c] = Cardinality(Bytes(c, M \cup {v}))
    BY <1>2, <1>3 DEF UsedIsSum
  <2>2. /\ Cardinality(Bytes(c, M \cup {v})) = Cardinality(Bytes(c, M)) + Size[c][v]
        /\ Cardinality(Bytes(c, M)) \in Nat /\ Size[c][v] \in Nat
    BY <1>2, <1>3, BytesAdd
  <2> QED BY <2>1, <2>2
<1> SUFFICES ASSUME NEW d \in CacheIds PROVE used'[d] = Cardinality(Bytes(d, map'[d]))
  BY DEF UsedIsSum, Bytes
<1>7. CASE d = c
  BY <1>5, <1>6, <1>7
<1>8. CASE d # c
  BY <1>5, <1>8 DEF UsedIsSum
<1> QED BY <1>7, <1>8

(***************************************************************************)
(* used is the number of bytes the values in the map take, whoever decodes *)
(* a key at the same time and whatever is evicted; so the u64 of the code  *)
(* never goes below zero.                                                  *)
(***************************************************************************)
THEOREM UsedIsSumHolds == Spec => []UsedIsSum
<1>1. Init => UsedIsSum
  <2> SUFFICES ASSUME Init, NEW c \in CacheIds PROVE used[c] = Cardinality(Bytes(c, map[c]))
    BY DEF UsedIsSum
  <2>1. Bytes(c, {}) = {} /\ map[c] = {} /\ used[c] = 0
    BY DEF Init, Bytes
  <2> QED BY <2>1, FS_EmptySet
<1>2. IndInv /\ UsedIsSum /\ [Next]_vars => UsedIsSum'
  <2> SUFFICES ASSUME IndInv, UsedIsSum, [Next]_vars PROVE UsedIsSum'
    OBVIOUS
  <2>1. CASE UNCHANGED <<map, used>>
    BY <2>1 DEF UsedIsSum, Bytes
  <2>2. ASSUME NEW r \in Readers, EvictOne(r) PROVE UsedIsSum'
    BY <2>2, EvictCounts
  <2>3. ASSUME NEW r \in Readers, Relock(r) PROVE UsedIsSum'
    <3> DEFINE c == call[r][1]
               k == call[r][2]
    <3>1. c \in CacheIds /\ k \in Keys
      BY DEF IndInv, TypeOK
    <3>2. Hit(r, c, k) \/ (k \notin map[c] /\ Enter(r, c, k))
      BY <2>3 DEF Relock, Existing
    <3> HIDE DEF c, k
    <3>3. CASE Hit(r, c, k)
      BY <2>1, <3>3 DEF Hit
    <3>4. CASE k \notin map[c] /\ Enter(r, c, k)
      BY <3>1, <3>4, EnterCounts
    <3> QED BY <3>2, <3>3, <3>4
  <2>4. ASSUME NEW r \in Readers,
               \/ \E c \in CacheIds, k \in Keys : Lookup(r, c, k)
               \/ Decode(r) \/ DecodeFailed(r) \/ Finish(r)
        PROVE  UNCHANGED <<map, used>>
    BY <2>4 DEF Lookup, Hit, Decode, DecodeFailed, Finish, inner
  <2> QED BY <2>1, <2>2, <2>3, <2>4 DEF Next, Evicting, vars, inner
<1> QED BY <1>1, <1>2, CachesInvariant, PTL DEF Spec

-----------------------------------------------------------------------------
(* Why the eviction loop ends.                                             *)

\* Ticks are natural numbers: some entry has the smallest one.
LEMMA Oldest ==
  ASSUME IndInv, NEW c \in CacheIds, map[c] # {}
  PROVE  \E v \in map[c] : \A w \in map[c] : last[c][v] =< last[c][w]
<1> DEFINE T == {last[c][k] : k \in map[c]}
           R == OpToRel(<, Nat)
<1>1. \A k \in map[c] : last[c][k] \in Nat
  BY DEF IndInv, TypeOK
<1>2. T \subseteq Nat /\ T # {}
  BY <1>1
<1>3. PICK x \in T : \A y \in T : ~(<<y, x>> \in R)
  <2> HIDE DEF T
  <2> QED BY <1>2, WFMin, NatLessThanWellFounded
<1>4. PICK v \in map[c] : x = last[c][v]
  OBVIOUS
<1>5. ASSUME NEW w \in map[c] PROVE last[c][v] =< last[c][w]
  <2>1. last[c][v] \in Nat /\ last[c][w] \in Nat /\ last[c][w] \in T
    BY <1>1
  <2>2. ~(last[c][w] < last[c][v])
    BY <1>3, <1>4, <2>1 DEF OpToRel
  <2> QED BY <2>1, <2>2
<1> QED BY <1>5

(***************************************************************************)
(* While a cache is over its budget the eviction loop finds one oldest     *)
(* entry, another than the one the call has just made.                     *)
(***************************************************************************)
THEOREM VictimExistsHolds == Spec => []VictimExists
<1>1. IndInv => VictimExists
  <2> SUFFICES ASSUME IndInv, NEW r \in Readers, pc[r] = "evict", OverBudget(call[r][1])
               PROVE  \E v \in map[call[r][1]] \ {call[r][2]} :
                        \A w \in map[call[r][1]] \ {v} :
                          last[call[r][1]][v] < last[call[r][1]][w]
    BY DEF VictimExists
  <2> DEFINE c == call[r][1]
  <2>1. c \in CacheIds /\ call[r][2] \in map[c] /\ stamped[c] = map[c]
    BY DEF IndInv, TypeOK, OwnIsNewest, StampsAreOrder
  <2>2. PICK v \in map[c] : \A w \in map[c] : last[c][v] =< last[c][w]
    BY <2>1, Oldest
  <2>3. v # call[r][2]
    BY <2>1, <2>2, VictimIsOther
  <2>4. ASSUME NEW w \in map[c] \ {v} PROVE last[c][v] < last[c][w]
    <3>1. last[c][v] \in Nat /\ last[c][w] \in Nat
      BY <2>1 DEF IndInv, TypeOK
    <3>2. last[c][v] # last[c][w]
      BY <2>1 DEF IndInv, StampsAreOrder
    <3> QED BY <2>2, <3>1, <3>2
  <2> QED BY <2>3, <2>4
<1> QED BY <1>1, CachesInvariant, PTL

(***************************************************************************)
(* Each round of the eviction loop takes exactly one entry out of its      *)
(* cache, so there are at most as many rounds as entries.                  *)
(***************************************************************************)
THEOREM EvictionShrinksHolds == Spec => EvictionShrinks
<1>1. ASSUME IndInv, NEW r \in Readers, EvictOne(r)
      PROVE  /\ Cardinality(map'[call[r][1]]) = Cardinality(map[call[r][1]]) - 1
             /\ \A d \in CacheIds \ {call[r][1]} : map'[d] = map[d]
  <2> DEFINE c == call[r][1]
  <2>1. c \in CacheIds /\ stamped[c] = map[c] /\ IsFiniteSet(map[c])
        /\ map \in [CacheIds -> SUBSET Keys]
    BY <1>1 DEF IndInv, TypeOK, StampsAreOrder, MapsFinite
  <2>2. PICK v \in stamped[c] : map' = [map EXCEPT ![c] = @ \ {v}]
    BY <1>1 DEF EvictOne
  <2>3. map'[c] = map[c] \ {v} /\ v \in map[c]
    BY <2>1, <2>2
  <2>4. Cardinality(map[c] \ {v}) = Cardinality(map[c]) - 1
    BY <2>1, <2>3, FS_RemoveElement
  <2> QED BY <2>1, <2>2, <2>3, <2>4
<1>2. IndInv /\ [Next]_vars =>
        [\A r \in Readers : EvictOne(r) =>
           LET c == call[r][1]
           IN  /\ Cardinality(map'[c]) = Cardinality(map[c]) - 1
               /\ \A d \in CacheIds \ {c} : map'[d] = map[d]]_vars
  BY <1>1
<1> QED BY <1>2, CachesInvariant, PTL DEF Spec, EvictionShrinks
=============================================================================
