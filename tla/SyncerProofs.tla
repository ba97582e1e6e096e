---------------------------- MODULE SyncerProofs ----------------------------
(***************************************************************************)
(* The reader's syncer for any streams and chunks, retention, number of    *)
(* concurrent downloads and of runs: the catalog and the files it stands   *)
(* for, and the two windows of download and sweep.                         *)
(***************************************************************************)
EXTENDS Syncer, FiniteSetTheorems, WellFoundedInduction, TLAPS

-----------------------------------------------------------------------------
(* Operators.                                                              *)

\* A set of natural numbers that is not empty has a least element.
LEMMA Least ==
  ASSUME NEW T, T \subseteq Nat, T # {}
  PROVE  \E x \in T : \A y \in T : x =< y
<1> DEFINE R == OpToRel(<, Nat)
<1>1. PICK x \in T : \A y \in T : ~(<<y, x>> \in R)
  BY WFMin, NatLessThanWellFounded
<1>2. ASSUME NEW y \in T PROVE x =< y
  <2>1. x \in Nat /\ y \in Nat
    OBVIOUS
  <2>2. ~(y < x)
    BY <1>1, <2>1 DEF OpToRel
  <2> QED BY <2>1, <2>2
<1> QED BY <1>2

\* End slots are natural numbers.
LEMMA EndSlotNat == \A c \in Chunks : c[1] \in Nat /\ c[2] \in Nat /\ EndSlot(c) \in Nat
  BY SyncerAssumption DEF EndSlot

\* A set of chunks that is not empty has a newest one: take the chunk with the
\* fewest chunks that end after it.
LEMMA NewestExists ==
  ASSUME NEW S, S \subseteq Chunks, S # {}
  PROVE  \E n \in S : NewestEnd(S) = EndSlot(n) /\ \A c \in S : EndSlot(c) =< EndSlot(n)
<1> DEFINE After(c) == {d \in S : EndSlot(d) > EndSlot(c)}
           T == {Cardinality(After(c)) : c \in S}
<1>1. IsFiniteSet(S) /\ \A c \in S : IsFiniteSet(After(c)) /\ Cardinality(After(c)) \in Nat
  BY SyncerAssumption, FS_Subset, FS_CardinalityType
<1>2. PICK x \in T : \A y \in T : x =< y
  <2>1. T \subseteq Nat /\ T # {}
    BY <1>1
  <2> HIDE DEF T
  <2> QED BY <2>1, Least
<1>3. PICK n \in S : x = Cardinality(After(n))
  OBVIOUS
<1>4. ASSUME NEW c \in S PROVE EndSlot(c) =< EndSlot(n)
  <2> SUFFICES ASSUME EndSlot(c) > EndSlot(n) PROVE FALSE
    BY EndSlotNat
  <2>1. After(c) \subseteq After(n) /\ c \in After(n) /\ c \notin After(c)
    BY EndSlotNat
  <2>2. Cardinality(After(c)) < Cardinality(After(n))
    <3> DEFINE X == After(c)  Y == After(n)
    <3>1. X \in SUBSET Y /\ X # Y /\ IsFiniteSet(Y) /\ Cardinality(X) \in Nat /\ Cardinality(Y) \in Nat
      BY <1>1, <2>1
    <3> HIDE DEF X, Y
    <3>2. Cardinality(X) < Cardinality(Y)
      BY <3>1, FS_Subset
    <3> QED BY <3>2 DEF X, Y
  <2>3. Cardinality(After(n)) =< Cardinality(After(c))
    BY <1>2, <1>3
  <2>4. Cardinality(After(n)) \in Nat /\ Cardinality(After(c)) \in Nat
    BY <1>1
  <2> HIDE DEF After
  <2> QED BY <2>2, <2>3, <2>4
<1>5. NewestEnd(S) = EndSlot(n)
  <2>1. EndSlot(n) \in {EndSlot(c) : c \in S} /\ \A c \in S : EndSlot(c) =< EndSlot(n)
    BY <1>4
  <2>2. \A m \in {EndSlot(c) : c \in S} : (\A c \in S : EndSlot(c) =< m) => m = EndSlot(n)
    BY <1>4, EndSlotNat
  <2> QED BY <2>1, <2>2 DEF NewestEnd
<1> QED BY <1>4, <1>5

\* The order in which downloads are spawned has a first element.
LEMMA FirstExists ==
  ASSUME NEW S, S \subseteq Chunks, S # {}
  PROVE  (CHOOSE c \in S : \A d \in S : Precedes(c, d)) \in S
<1> DEFINE T == {c[1] : c \in S}
<1>1. T \subseteq Nat /\ T # {}
  BY EndSlotNat
<1> HIDE DEF T
<1>2. PICK s \in T : \A t \in T : s =< t
  BY <1>1, Least
<1> DEFINE U == {c[2] : c \in {d \in S : d[1] = s}}
<1>3. U \subseteq Nat /\ U # {}
  BY EndSlotNat DEF T
<1> HIDE DEF U
<1>4. PICK k \in U : \A u \in U : k =< u
  BY <1>3, Least
<1>5. PICK c \in S : c[1] = s /\ c[2] = k
  BY DEF U
<1>6. ASSUME NEW d \in S PROVE Precedes(c, d)
  <2>1. d[1] \in T /\ s \in Nat /\ d[1] \in Nat
    BY <1>1 DEF T
  <2>2. d[1] = s => d[2] \in U
    BY DEF U
  <2> QED BY <1>2, <1>4, <1>5, <2>1, <2>2 DEF Precedes
<1> QED BY <1>6

\* The initial state satisfies the invariant.
LEMMA InitInd == Init => IndInv
<1> SUFFICES ASSUME Init PROVE IndInv
  OBVIOUS
<1> USE DEF Init
<1>1. TypeOK
  <2>1. disk \in [Chunks -> SUBSET Trio] /\ part \in [Chunks -> SUBSET Trio] /\ changed \in BOOLEAN
    OBVIOUS
  <2>2. /\ task \in [Chunks -> Trio \cup {"none", "wait", "done", "failed"}]
        /\ sweeping \in [Chunks -> Trio \cup {"none"}]
    BY DEF Idle
  <2>3. run \in 1..MaxRuns
    BY SyncerAssumption
  <2> QED BY <2>1, <2>2, <2>3 DEF TypeOK
<1>2. FromBucket /\ InTurn /\ DownloadInOrder /\ PartIsSwept /\ SweptIsBehind /\ NoChurn
  BY DEF FromBucket, InTurn, DownloadInOrder, PartIsSwept, SweptIsBehind, NoChurn, LocalChunks, Idle
<1>3. CatalogInv
  BY DEF CatalogInv, ScanCatalog, Trio
<1> QED BY <1>1, <1>2, <1>3 DEF IndInv

-----------------------------------------------------------------------------
(* The steps of a cycle.                                                   *)

\* A step that leaves the files on NVMe alone keeps what is derived from them.
LEMMA SameDisk ==
  ASSUME disk' = disk
  PROVE  LocalChunks' = LocalChunks /\ ScanCatalog' = ScanCatalog
  BY DEF LocalChunks, ScanCatalog

\* The writer adds to the bucket.
LEMMA PublishInd ==
  ASSUME IndInv, NEW c \in Chunks, Publish(c)
  PROVE  IndInv'
<1> USE DEF IndInv, Publish, cycleVars
<1>1. TypeOK'
  BY DEF TypeOK
<1>2. FromBucket' /\ InTurn' /\ DownloadInOrder' /\ NoChurn'
  BY DEF FromBucket, InTurn, DownloadInOrder, NoChurn
<1>3. PartIsSwept' /\ SweptIsBehind' /\ CatalogInv'
  BY SameDisk DEF PartIsSwept, SweptIsBehind, CatalogInv
<1> QED BY <1>1, <1>2, <1>3

\* A listing begins: every chunk that is kept will be found by it.
LEMMA WakeInd ==
  ASSUME IndInv, Wake
  PROVE  IndInv'
<1> USE DEF IndInv, Wake
<1>1. TypeOK'
  BY DEF TypeOK
<1>2. FromBucket' /\ InTurn' /\ DownloadInOrder' /\ NoChurn'
  BY DEF FromBucket, InTurn, DownloadInOrder, NoChurn
<1>3. PartIsSwept' /\ CatalogInv'
  BY SameDisk DEF PartIsSwept, CatalogInv
<1>4. \A d \in LocalChunks : d[1] \in Streams
  BY DEF LocalChunks, Streams
<1>5. SweptIsBehind'
  BY <1>4, SameDisk DEF SweptIsBehind
<1> QED BY <1>1, <1>2, <1>3, <1>5

\* The pages of a stream are everything the bucket has of it.
LEMMA ListPageInd ==
  ASSUME IndInv, NEW s \in Streams, ListPage(s)
  PROVE  IndInv'
<1> USE DEF IndInv, ListPage
<1>1. TypeOK'
  BY DEF TypeOK
<1>2. FromBucket' /\ InTurn' /\ DownloadInOrder' /\ NoChurn'
  BY DEF FromBucket, InTurn, DownloadInOrder, NoChurn
<1>3. PartIsSwept' /\ CatalogInv'
  BY SameDisk DEF PartIsSwept, CatalogInv
<1>4. \A d \in LocalChunks : d \in bucket
  BY DEF LocalChunks, FromBucket
<1>5. SweptIsBehind'
  BY <1>4, SameDisk DEF SweptIsBehind
<1> QED BY <1>1, <1>2, <1>3, <1>5

\* A listing that fails ends its cycle and changes no file.
LEMMA ListFailedInd ==
  ASSUME IndInv, ListFailed
  PROVE  IndInv'
<1> USE DEF IndInv, ListFailed, cycleVars
<1>1. TypeOK'
  BY DEF TypeOK
<1>2. FromBucket' /\ InTurn' /\ DownloadInOrder' /\ NoChurn'
  BY DEF FromBucket, InTurn, DownloadInOrder, NoChurn
<1>3. PartIsSwept' /\ SweptIsBehind' /\ CatalogInv'
  BY SameDisk DEF PartIsSwept, SweptIsBehind, CatalogInv
<1> QED BY <1>1, <1>2, <1>3

\* A chunk that was swept is outside the window of every later listing.
LEMMA SweptNotWanted ==
  ASSUME IndInv, pc = "list", unlisted = {}, NEW c \in swept
  PROVE  c \notin DiffForSync
<1>1. PICK d \in LocalChunks : Displaces(d, c) /\ d \in listed
  BY DEF IndInv, SweptIsBehind
<1>2. listed \subseteq Chunks /\ listed # {} /\ c \in Chunks /\ d \in Chunks
  BY <1>1 DEF IndInv, TypeOK
<1>3. PICK n \in listed : NewestEnd(listed) = EndSlot(n) /\ EndSlot(d) =< EndSlot(n)
  BY <1>1, <1>2, NewestExists
<1>4. EndSlot(c) \in Nat /\ EndSlot(d) \in Nat /\ EndSlot(n) \in Nat /\ Retention \in Nat
  BY <1>2, <1>3, EndSlotNat, SyncerAssumption
<1>5. EndSlot(c) < NewestEnd(listed) - Retention
  BY <1>1, <1>3, <1>4 DEF Displaces
<1>6. ~InWindow(c, listed)
  BY <1>3, <1>4, <1>5 DEF InWindow
<1> QED BY <1>6 DEF DiffForSync

\* The listing is compared with the disk.
LEMMA DiffInd ==
  ASSUME IndInv, Diff
  PROVE  IndInv'
<1>1. /\ pc = "list" /\ unlisted = {} /\ pc' = "download"
      /\ task' = [c \in Chunks |-> IF c \in DiffForSync THEN "wait" ELSE "none"]
      /\ UNCHANGED <<bucket, disk, part, catalog, unlisted, listed, sweeping, changed, run, swept>>
  BY DEF Diff
<1>2. DiffForSync \subseteq listed \ LocalChunks
  BY DEF DiffForSync
<1>3. TypeOK'
  <2>1. task' \in [Chunks -> Trio \cup {"none", "wait", "done", "failed"}]
    BY <1>1
  <2> QED BY <1>1, <2>1 DEF IndInv, TypeOK
<1>4. FromBucket' /\ InTurn'
  BY <1>1, <1>2 DEF IndInv, FromBucket, InTurn
<1>5. DownloadInOrder'
  BY <1>1, <1>2 DEF IndInv, DownloadInOrder, LocalChunks
<1>6. PartIsSwept' /\ SweptIsBehind' /\ CatalogInv'
  BY <1>1, SameDisk DEF IndInv, PartIsSwept, SweptIsBehind, CatalogInv
<1>7. NoChurn'
  BY <1>1, SweptNotWanted DEF IndInv, NoChurn, TypeOK
<1> QED BY <1>3, <1>4, <1>5, <1>6, <1>7 DEF IndInv

\* A download gets its permit.
LEMMA SpawnInd ==
  ASSUME IndInv, Spawn
  PROVE  IndInv'
<1>1. Waiting # {} /\ Waiting \subseteq Chunks
  BY DEF Spawn, Waiting
<1>2. PICK c \in Waiting : task' = [task EXCEPT ![c] = "zst"]
  BY <1>1, FirstExists DEF Spawn
<1>3. /\ c \in Chunks /\ task[c] = "wait" /\ pc = "download"
      /\ UNCHANGED <<bucket, disk, part, catalog, pc, unlisted, listed, sweeping, changed, run, swept>>
  BY <1>2 DEF Spawn, Waiting
<1>4. \A d \in Chunks : task'[d] = IF d = c THEN "zst" ELSE task[d]
  BY <1>2, <1>3 DEF IndInv, TypeOK
<1>5. TypeOK'
  <2>1. task' \in [Chunks -> Trio \cup {"none", "wait", "done", "failed"}]
    BY <1>2 DEF IndInv, TypeOK, Trio
  <2> QED BY <1>3, <2>1 DEF IndInv, TypeOK
<1>6. FromBucket' /\ InTurn' /\ DownloadInOrder' /\ NoChurn'
  BY <1>3, <1>4 DEF IndInv, TypeOK, FromBucket, InTurn, DownloadInOrder, NoChurn
<1>7. PartIsSwept' /\ SweptIsBehind'
  BY <1>3, SameDisk DEF IndInv, PartIsSwept, SweptIsBehind
<1>8. CatalogInv'
  BY <1>3, <1>4, SameDisk DEF IndInv, CatalogInv, ScanCatalog
<1> QED BY <1>5, <1>6, <1>7, <1>8 DEF IndInv

\* A file arrives.
LEMMA GetInd ==
  ASSUME IndInv, NEW c \in Chunks, NEW file \in Trio, Get(c, file)
  PROVE  IndInv'
<1>1. /\ task[c] = file /\ pc = "download" /\ c \in bucket /\ c \notin swept
      /\ disk' = [disk EXCEPT ![c] = @ \cup {file}]
      /\ part' = [part EXCEPT ![c] = @ \ {file}]
      /\ task' = [task EXCEPT ![c] = AfterGet(file)]
      /\ UNCHANGED <<bucket, catalog, pc, unlisted, listed, sweeping, changed, run, swept>>
  BY DEF IndInv, Get, InTurn, NoChurn, Trio
<1>2. /\ file = "zst" => AfterGet(file) = "idx"
      /\ file = "idx" => AfterGet(file) = "meta"
      /\ file = "meta" => AfterGet(file) = "done"
  BY DEF AfterGet
<1>3. TypeOK'
  <2>1. task' \in [Chunks -> Trio \cup {"none", "wait", "done", "failed"}]
    BY <1>1, <1>2 DEF IndInv, TypeOK, Trio
  <2>2. disk' \in [Chunks -> SUBSET Trio] /\ part' \in [Chunks -> SUBSET Trio]
    BY <1>1 DEF IndInv, TypeOK
  <2> QED BY <1>1, <2>1, <2>2 DEF IndInv, TypeOK
<1>4. /\ \A d \in Chunks \ {c} : disk'[d] = disk[d] /\ task'[d] = task[d]
      /\ disk'[c] = disk[c] \cup {file} /\ task'[c] = AfterGet(file)
  BY <1>1 DEF IndInv, TypeOK
<1>5. FromBucket' /\ InTurn'
  BY <1>1, <1>4 DEF IndInv, FromBucket, InTurn
<1>6. file = "meta" => disk'[c] = Trio
  BY <1>1, <1>4 DEF IndInv, DownloadInOrder, TypeOK, Trio
<1>7. file # "meta" => "meta" \notin disk'[c]
  BY <1>1, <1>4 DEF IndInv, DownloadInOrder, Trio
<1>8. DownloadInOrder'
  <2>1. CASE file = "zst"
    BY <2>1, <1>1, <1>2, <1>4, <1>7 DEF IndInv, DownloadInOrder
  <2>2. CASE file = "idx"
    BY <2>2, <1>1, <1>2, <1>4, <1>7 DEF IndInv, DownloadInOrder
  <2>3. CASE file = "meta"
    BY <2>3, <1>2, <1>4, <1>6 DEF IndInv, DownloadInOrder
  <2> QED BY <2>1, <2>2, <2>3 DEF Trio
<1>9. PartIsSwept'
  BY <1>1, <1>4, <1>6, <1>7 DEF IndInv, PartIsSwept, LocalChunks
<1>10. SweptIsBehind'
  <2>1. LocalChunks \subseteq LocalChunks'
    BY <1>4 DEF LocalChunks
  <2> QED BY <1>1, <2>1 DEF IndInv, SweptIsBehind
<1>11. NoChurn'
  BY <1>1, <1>4 DEF IndInv, NoChurn, TypeOK
<1>12. CatalogInv'
  <2>1. \A d \in Chunks \ {c} : d \in ScanCatalog' <=> d \in ScanCatalog
    BY <1>4 DEF ScanCatalog
  <2>2. c \notin ScanCatalog
    BY <1>1 DEF IndInv, DownloadInOrder, ScanCatalog, Trio
  <2>3. c \in ScanCatalog' => file = "meta"
    BY <1>7 DEF ScanCatalog, Trio
  <2>4. ScanCatalog \subseteq Chunks /\ ScanCatalog' \subseteq Chunks
    BY DEF ScanCatalog
  <2> QED BY <1>1, <1>2, <1>4, <2>1, <2>2, <2>3, <2>4 DEF IndInv, CatalogInv
<1> QED BY <1>3, <1>5, <1>8, <1>9, <1>10, <1>11, <1>12 DEF IndInv

\* A download is given up; what it renamed stays.
LEMMA GetFailedInd ==
  ASSUME IndInv, NEW c \in Chunks, NEW file \in Trio, GetFailed(c, file)
  PROVE  IndInv'
<1>1. /\ task[c] = file /\ pc = "download"
      /\ part' = part \/ part' = [part EXCEPT ![c] = @ \cup {file}]
      /\ task' = [task EXCEPT ![c] = "failed"]
      /\ UNCHANGED <<bucket, disk, catalog, pc, unlisted, listed, sweeping, changed, run, swept>>
  BY DEF IndInv, GetFailed, InTurn, Trio
<1>2. \A d \in Chunks : task'[d] = IF d = c THEN "failed" ELSE task[d]
  BY <1>1 DEF IndInv, TypeOK
<1>3. TypeOK'
  <2>1. task' \in [Chunks -> Trio \cup {"none", "wait", "done", "failed"}]
    BY <1>1 DEF IndInv, TypeOK
  <2>2. part' \in [Chunks -> SUBSET Trio]
    BY <1>1 DEF IndInv, TypeOK
  <2> QED BY <1>1, <2>1, <2>2 DEF IndInv, TypeOK
<1>4. FromBucket' /\ InTurn' /\ DownloadInOrder'
  BY <1>1, <1>2 DEF IndInv, FromBucket, InTurn, DownloadInOrder, Trio
<1>5. NoChurn'
  BY <1>1, <1>2 DEF IndInv, NoChurn, TypeOK, Trio
<1>6. PartIsSwept' /\ SweptIsBehind'
  BY <1>1, SameDisk DEF IndInv, PartIsSwept, SweptIsBehind
<1>7. CatalogInv'
  <2>1. \A d \in ScanCatalog \ catalog : d \in Chunks /\ d # c
    BY <1>1 DEF IndInv, CatalogInv, ScanCatalog, Trio
  <2> QED BY <1>1, <1>2, <2>1, SameDisk DEF IndInv, CatalogInv
<1> QED BY <1>3, <1>4, <1>5, <1>6, <1>7 DEF IndInv

\* The victims of the sweep are behind the newest local chunk, which is kept;
\* so is every chunk that was swept before.
LEMMA NewestIsKept ==
  ASSUME IndInv, NEW c \in swept \cup Victims
  PROVE  \E d \in LocalChunks \ (swept \cup Victims) : Displaces(d, c)
<1>1. LocalChunks \subseteq Chunks /\ Victims \subseteq LocalChunks /\ swept \subseteq Chunks
  BY DEF LocalChunks, Victims, IndInv, TypeOK
<1>2. LocalChunks # {}
  BY <1>1 DEF IndInv, SweptIsBehind
<1>3. PICK n \in LocalChunks : /\ NewestEnd(LocalChunks) = EndSlot(n)
                               /\ \A d \in LocalChunks : EndSlot(d) =< EndSlot(n)
  BY <1>1, <1>2, NewestExists
<1>4. Retention \in Nat /\ EndSlot(n) \in Nat /\ \A d \in Chunks : EndSlot(d) \in Nat
  BY <1>1, EndSlotNat, SyncerAssumption
<1>5. n \notin Victims
  BY <1>3, <1>4 DEF Victims, InWindow
<1>6. n \notin swept
  <2> SUFFICES ASSUME n \in swept PROVE FALSE
    OBVIOUS
  <2>1. PICK d \in LocalChunks : Displaces(d, n)
    BY DEF IndInv, SweptIsBehind
  <2>2. EndSlot(d) =< EndSlot(n) /\ EndSlot(d) \in Nat
    BY <1>1, <1>3, <1>4
  <2> QED BY <1>4, <2>1, <2>2 DEF Displaces
<1>7. Displaces(n, c)
  <2>1. CASE c \in Victims
    <3>1. EndSlot(c) \in Nat /\ ~(EndSlot(c) >= EndSlot(n) - Retention)
      BY <1>1, <1>3, <1>4, <2>1 DEF Victims, InWindow
    <3> QED BY <1>4, <3>1 DEF Displaces
  <2>2. CASE c \in swept
    <3>1. PICK d \in LocalChunks : Displaces(d, c)
      BY <2>2 DEF IndInv, SweptIsBehind
    <3>2. EndSlot(d) =< EndSlot(n) /\ EndSlot(d) \in Nat /\ EndSlot(c) \in Nat
      BY <1>1, <1>3, <1>4, <2>2
    <3> QED BY <1>4, <3>1, <3>2 DEF Displaces
  <2> QED BY <2>1, <2>2
<1> QED BY <1>5, <1>6, <1>7

\* The downloads have ended and the sweep picks its victims.
LEMMA JoinInd ==
  ASSUME IndInv, Join
  PROVE  IndInv'
<1>1. /\ pc = "download" /\ pc' = "sweep" /\ \A c \in Chunks : task[c] \in {"none", "done", "failed"}
      /\ sweeping' = [c \in Chunks |-> IF c \in Victims THEN "zst" ELSE "none"]
      /\ swept' = swept \cup Victims
      /\ task' = Idle
      /\ UNCHANGED <<bucket, disk, part, catalog, unlisted, listed, run>>
  BY DEF Join
<1>2. changed' \in BOOLEAN /\ (changed' <=> (Victims # {} \/ \E c \in Chunks : task[c] = "done"))
  BY DEF Join
<1>3. Victims \subseteq LocalChunks /\ LocalChunks \subseteq Chunks
  BY DEF Victims, LocalChunks
<1>4. TypeOK'
  <2>1. task' \in [Chunks -> Trio \cup {"none", "wait", "done", "failed"}]
    BY <1>1 DEF Idle
  <2>2. sweeping' \in [Chunks -> Trio \cup {"none"}]
    BY <1>1 DEF Trio
  <2> QED BY <1>1, <1>2, <1>3, <2>1, <2>2 DEF IndInv, TypeOK
<1>5. FromBucket' /\ InTurn' /\ DownloadInOrder' /\ NoChurn'
  BY <1>1, <1>2, <1>3 DEF IndInv, TypeOK, FromBucket, InTurn, DownloadInOrder, NoChurn, Idle
<1>6. PartIsSwept'
  BY <1>1, SameDisk DEF IndInv, PartIsSwept
<1>7. SweptIsBehind'
  BY <1>1, SameDisk, NewestIsKept DEF SweptIsBehind
<1>8. CatalogInv'
  <2>1. ~changed' => catalog = ScanCatalog
    <3>1. ASSUME NEW c \in ScanCatalog \ catalog PROVE changed'
      <4>1. c \in Chunks /\ task[c] = "done"
        BY <1>1, <3>1 DEF IndInv, CatalogInv, ScanCatalog
      <4> QED BY <1>2, <4>1
    <3> QED BY <1>1, <3>1 DEF IndInv, CatalogInv
  <2> QED BY <1>1, <2>1, SameDisk DEF CatalogInv
<1> QED BY <1>4, <1>5, <1>6, <1>7, <1>8 DEF IndInv

\* The sweep removes a file, or fails to.
LEMMA RemoveInd ==
  ASSUME IndInv, NEW c \in Chunks, Remove(c)
  PROVE  IndInv'
<1> DEFINE next == CASE sweeping[c] = "zst" -> "idx" [] sweeping[c] = "idx" -> "meta"
                     [] OTHER -> "none"
<1>1. /\ pc = "sweep" /\ sweeping[c] # "none"
      /\ disk' = disk \/ disk' = [disk EXCEPT ![c] = @ \ {sweeping[c]}]
      /\ sweeping' = [sweeping EXCEPT ![c] = next]
      /\ UNCHANGED <<bucket, part, catalog, pc, unlisted, listed, task, changed, run, swept>>
  BY DEF IndInv, TypeOK, Remove
<1>2. next \in Trio \cup {"none"}
  BY DEF Trio
<1> HIDE DEF next
<1>3. c \in swept /\ changed /\ \A d \in Chunks : task[d] = "none"
  BY <1>1 DEF IndInv, InTurn
<1>4. TypeOK'
  <2>1. sweeping' \in [Chunks -> Trio \cup {"none"}]
    BY <1>1, <1>2 DEF IndInv, TypeOK
  <2>2. disk' \in [Chunks -> SUBSET Trio]
    BY <1>1 DEF IndInv, TypeOK
  <2> QED BY <1>1, <2>1, <2>2 DEF IndInv, TypeOK
<1>5. \A d \in Chunks : disk'[d] \subseteq disk[d] /\ (d # c => disk'[d] = disk[d])
  BY <1>1 DEF IndInv, TypeOK
<1>6. \A d \in Chunks : sweeping'[d] # "none" => sweeping[d] # "none"
  BY <1>1 DEF IndInv, TypeOK
<1>7. FromBucket' /\ InTurn'
  BY <1>1, <1>5, <1>6 DEF IndInv, FromBucket, InTurn
<1>8. DownloadInOrder' /\ NoChurn'
  BY <1>1, <1>3 DEF IndInv, DownloadInOrder, NoChurn
<1>9. PartIsSwept'
  BY <1>1, <1>3, <1>5 DEF IndInv, PartIsSwept, LocalChunks
<1>10. SweptIsBehind'
  <2>1. \A d \in LocalChunks \ swept : d \in LocalChunks'
    BY <1>3, <1>5 DEF LocalChunks
  <2> QED BY <1>1, <2>1 DEF IndInv, SweptIsBehind
<1>11. CatalogInv'
  BY <1>1, <1>3 DEF CatalogInv
<1> QED BY <1>4, <1>7, <1>8, <1>9, <1>10, <1>11 DEF IndInv

\* The sweep is over, and the catalog is republished if anything changed.
LEMMA SweepDoneInd ==
  ASSUME IndInv, SweepDone \/ Republish
  PROVE  IndInv'
<1>1. /\ pc \in {"sweep", "publish"} /\ pc' \in {"sleep", "publish"}
      /\ pc = "sweep" => sweeping = Idle
      /\ UNCHANGED <<bucket, disk, part, cycleVars, run, swept>>
  BY DEF SweepDone, Republish
<1>2. catalog' \subseteq Chunks /\ (pc' = "sleep" => catalog' = ScanCatalog)
  BY DEF IndInv, TypeOK, CatalogInv, SweepDone, Republish, ScanCatalog
<1>3. TypeOK'
  BY <1>1, <1>2 DEF IndInv, TypeOK, cycleVars
<1>4. FromBucket' /\ DownloadInOrder' /\ NoChurn'
  BY <1>1 DEF IndInv, FromBucket, DownloadInOrder, NoChurn, cycleVars
<1>5. InTurn'
  BY <1>1 DEF IndInv, InTurn, cycleVars, Idle
<1>6. PartIsSwept' /\ SweptIsBehind'
  BY <1>1, SameDisk DEF IndInv, PartIsSwept, SweptIsBehind
<1>7. CatalogInv'
  BY <1>1, <1>2, SameDisk DEF CatalogInv
<1> QED BY <1>3, <1>4, <1>5, <1>6, <1>7 DEF IndInv

-----------------------------------------------------------------------------
(* The process.                                                            *)

\* The process ends anywhere in its cycle: the disk stays as it is.
LEMMA StopInd ==
  ASSUME IndInv, Stop
  PROVE  IndInv'
<1>1. /\ pc' = "down" /\ catalog' = {} /\ unlisted' = {} /\ listed' = {}
      /\ task' = Idle /\ sweeping' = Idle /\ changed' = FALSE
      /\ UNCHANGED <<bucket, disk, run, swept>>
  BY DEF Stop
<1>2. TypeOK'
  <2>1. /\ task' \in [Chunks -> Trio \cup {"none", "wait", "done", "failed"}]
        /\ sweeping' \in [Chunks -> Trio \cup {"none"}]
    BY <1>1 DEF Idle
  <2>2. part' \in [Chunks -> SUBSET Trio]
    <3>1. PICK cut \in SUBSET InFlight :
            part' = [c \in Chunks |-> IF c \in cut THEN part[c] \cup {task[c]} ELSE part[c]]
      BY DEF Stop
    <3> QED BY <3>1 DEF IndInv, TypeOK, InFlight
  <2> QED BY <1>1, <2>1, <2>2 DEF IndInv, TypeOK
<1>3. FromBucket' /\ InTurn' /\ DownloadInOrder' /\ NoChurn'
  BY <1>1 DEF IndInv, TypeOK, FromBucket, InTurn, DownloadInOrder, NoChurn, Idle
<1>4. PartIsSwept' /\ SweptIsBehind'
  BY <1>1, SameDisk DEF IndInv, PartIsSwept, SweptIsBehind
<1>5. CatalogInv'
  BY <1>1 DEF CatalogInv
<1> QED BY <1>2, <1>3, <1>4, <1>5 DEF IndInv

\* A new process scans its catalog.
LEMMA RestartInd ==
  ASSUME IndInv, Restart
  PROVE  IndInv'
<1>1. /\ pc = "down" /\ pc' = "sleep" /\ catalog' = ScanCatalog
      /\ UNCHANGED <<bucket, disk, cycleVars, swept>>
  BY DEF Restart
<1>2. TypeOK'
  <2>1. part' \in [Chunks -> SUBSET Trio] /\ catalog' \subseteq Chunks
    BY <1>1 DEF Restart, SweepPartials, ScanCatalog
  <2>2. run' \in 1..MaxRuns
    BY SyncerAssumption DEF IndInv, TypeOK, Restart
  <2> QED BY <1>1, <2>1, <2>2 DEF IndInv, TypeOK, cycleVars
<1>3. FromBucket' /\ InTurn' /\ DownloadInOrder' /\ NoChurn'
  BY <1>1 DEF IndInv, FromBucket, InTurn, DownloadInOrder, NoChurn, cycleVars
<1>4. PartIsSwept' /\ SweptIsBehind' /\ CatalogInv'
  BY <1>1, SameDisk DEF IndInv, PartIsSwept, SweptIsBehind, CatalogInv
<1> QED BY <1>2, <1>3, <1>4 DEF IndInv

\* Every step preserves the invariant.
LEMMA NextInd == IndInv /\ [Next]_vars => IndInv'
<1> SUFFICES ASSUME IndInv, [Next]_vars PROVE IndInv'
  OBVIOUS
<1>1. CASE Cycle
  BY <1>1, WakeInd, DiffInd, SpawnInd, JoinInd, SweepDoneInd, ListPageInd, RemoveInd, GetInd DEF Cycle
<1>2. CASE Next /\ ~Cycle
  BY <1>2, PublishInd, ListFailedInd, GetFailedInd, StopInd, RestartInd DEF Next
<1>3. CASE UNCHANGED vars
  <2>1. TypeOK'
    BY <1>3 DEF IndInv, TypeOK, vars, cycleVars
  <2>2. FromBucket' /\ InTurn' /\ DownloadInOrder' /\ NoChurn'
    BY <1>3 DEF IndInv, FromBucket, InTurn, DownloadInOrder, NoChurn, vars, cycleVars
  <2>3. PartIsSwept' /\ SweptIsBehind' /\ CatalogInv'
    BY <1>3, SameDisk DEF IndInv, PartIsSwept, SweptIsBehind, CatalogInv, vars, cycleVars
  <2> QED BY <2>1, <2>2, <2>3 DEF IndInv
<1> QED BY <1>1, <1>2, <1>3

-----------------------------------------------------------------------------
(* The theorems.                                                           *)

\* The strengthened invariant holds in every reachable state of the syncer.
THEOREM SyncerInvariant == Spec => []IndInv
  BY InitInd, NextInd, PTL DEF Spec

\* The variables of the syncer stay within their types.
THEOREM TypeCorrect == Spec => []TypeOK
<1>1. IndInv => TypeOK
  BY DEF IndInv
<1> QED BY <1>1, SyncerInvariant, PTL

\* Between two cycles the served catalog is exactly the complete chunks on
\* NVMe, whatever downloads and removals failed and wherever a process ended.
THEOREM CatalogFreshHolds == Spec => []CatalogFresh
<1>1. IndInv => CatalogFresh
  BY DEF IndInv, CatalogInv, CatalogFresh
<1> QED BY <1>1, SyncerInvariant, PTL

\* Outside the sweep and the republication every chunk of the served catalog
\* has its three files.
THEOREM CatalogServableHolds == Spec => []CatalogServable
<1>1. IndInv => CatalogServable
  BY DEF IndInv, TypeOK, CatalogInv, CatalogServable, ScanCatalog
<1> QED BY <1>1, SyncerInvariant, PTL

\* A chunk of the window with a local .meta.json has its two siblings, so that
\* diff_for_sync may skip it.
THEOREM HeldIsWholeHolds == Spec => []HeldIsWhole
<1>1. IndInv => HeldIsWhole
  <2> SUFFICES ASSUME IndInv, NEW c \in LocalChunks, c \in swept
               PROVE  ~InWindow(c, LocalChunks)
    BY DEF HeldIsWhole, IndInv, PartIsSwept
  <2>1. PICK d \in LocalChunks : Displaces(d, c)
    BY DEF IndInv, SweptIsBehind
  <2>2. LocalChunks \subseteq Chunks /\ LocalChunks # {}
    BY DEF LocalChunks
  <2>3. PICK n \in LocalChunks : /\ NewestEnd(LocalChunks) = EndSlot(n)
                                 /\ EndSlot(d) =< EndSlot(n)
    BY <2>2, NewestExists
  <2>4. EndSlot(c) \in Nat /\ EndSlot(d) \in Nat /\ EndSlot(n) \in Nat /\ Retention \in Nat
    BY <2>2, EndSlotNat, SyncerAssumption
  <2> QED BY <2>1, <2>3, <2>4 DEF Displaces, InWindow
<1> QED BY <1>1, SyncerInvariant, PTL

\* No chunk that was ever swept is downloaded again: the windows of sweep and
\* download cannot disagree, in this run or a later one.
THEOREM NoChurnHolds == Spec => []NoChurn
<1>1. IndInv => NoChurn
  BY DEF IndInv
<1> QED BY <1>1, SyncerInvariant, PTL
=============================================================================
