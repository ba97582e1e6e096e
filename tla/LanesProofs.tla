---------------------------- MODULE LanesProofs -----------------------------
(***************************************************************************)
(* The two-phase shutdown of the writer and what its exit code 0 means,    *)
(* for any streams, channel capacity and number of updates.                *)
(***************************************************************************)
EXTENDS Lanes, SequenceTheorems, FunctionTheorems, FiniteSetTheorems, TLAPS

-----------------------------------------------------------------------------
(* Counting the messages of a channel.                                     *)

\* An update counts for one message or none.
LEMMA RecordedIsNat == ASSUME NEW b \in BOOLEAN PROVE Recorded(b) \in Nat
<1>1. CASE b = TRUE
  BY <1>1 DEF Recorded
<1>2. CASE b = FALSE
  BY <1>2 DEF Recorded
<1> QED BY <1>1, <1>2

\* Of n messages a seal keeps k open: the others join those sealed before.
LEMMA SealSplit ==
  ASSUME NEW a \in Nat, NEW n \in Nat, NEW k \in 0..n
  PROVE  (a + n - k) + k = a + n /\ (a + n - k) + k \in Nat
  OBVIOUS

\* The terms of the account move between the chunker and what it discarded.
LEMMA Rebalance ==
  ASSUME NEW was \in Nat, NEW is \in Nat, NEW d \in Nat, NEW e \in Nat, NEW h \in Nat,
         is + e = was + d
  PROVE  was + h + d = is + h + e
  OBVIOUS

\* A message leaves the channel and is discarded.
LEMMA Discarded ==
  ASSUME NEW held \in Nat, NEW q \in Nat, NEW d \in Nat
  PROVE  held + q + (d + 1) = held + (q + 1) + d
  OBVIOUS

\* The updates of a channel that have a slot.
Marked(q) == {i \in 1..Len(q) : q[i]}

\* They are finitely many, and their number is the channel's count.
LEMMA MarkedFinite ==
  ASSUME NEW q \in Seq(BOOLEAN)
  PROVE  IsFiniteSet(Marked(q)) /\ Count(q) = Cardinality(Marked(q)) /\ Count(q) \in Nat
<1>1. Marked(q) \in SUBSET (1..Len(q)) /\ Len(q) \in Int
  BY DEF Marked
<1>2. IsFiniteSet(Marked(q))
  BY <1>1, FS_Interval, FS_Subset
<1>3. Count(q) = Cardinality(Marked(q))
  BY DEF Count, Marked
<1> QED BY <1>2, <1>3, FS_CardinalityType

\* An empty channel holds no message.
LEMMA CountEmpty == Count(<< >>) = 0
<1>1. {i \in 1..Len(<< >>) : << >>[i]} = {}
  OBVIOUS
<1> QED BY <1>1, FS_EmptySet DEF Count

\* An update that is sent into the channel is counted.
LEMMA CountAppend ==
  ASSUME NEW q \in Seq(BOOLEAN), NEW b \in BOOLEAN
  PROVE  Count(Append(q, b)) = Count(q) + Recorded(b)
<1> DEFINE p == Append(q, b)
           n == Len(q) + 1
<1>1. p \in Seq(BOOLEAN) /\ Len(p) = n /\ n \in Nat /\ p[n] = b
  OBVIOUS
<1>2. \A i \in 1..Len(q) : p[i] = q[i]
  OBVIOUS
<1>3. n \notin Marked(q)
  BY DEF Marked
<1> HIDE DEF p
<1>6. \A i \in 1..Len(q) : i \in Marked(p) <=> i \in Marked(q)
  <2> SUFFICES ASSUME NEW i \in 1..Len(q) PROVE i \in Marked(p) <=> i \in Marked(q)
    OBVIOUS
  <2>1. i \in 1..Len(p)
    BY <1>1
  <2>2. i \in Marked(p) <=> p[i]
    BY <2>1 DEF Marked
  <2>3. i \in Marked(q) <=> q[i]
    BY DEF Marked
  <2> QED BY <1>2, <2>2, <2>3, Zenon
<1>4. CASE b = TRUE
  <2>0. Recorded(b) = 1
    BY <1>4 DEF Recorded
  <2>1. Marked(p) = Marked(q) \cup {n}
    <3>1. n \in Marked(p)
      <4>1. n \in 1..Len(p)
        BY <1>1
      <4>2. p[n]
        BY <1>1, <1>4, Zenon
      <4> QED BY <4>1, <4>2 DEF Marked
    <3>2. Marked(p) \subseteq 1..n /\ Marked(q) \subseteq 1..Len(q) /\ 1..n = (1..Len(q)) \cup {n}
      BY <1>1 DEF Marked
    <3> QED BY <1>6, <3>1, <3>2
  <2>2. Cardinality(Marked(p)) = Cardinality(Marked(q)) + 1
    <3> DEFINE M == Marked(q)
    <3>1. IsFiniteSet(M)
      BY MarkedFinite
    <3> HIDE DEF M
    <3>2. Cardinality(M \cup {n}) = IF n \in M THEN Cardinality(M) ELSE Cardinality(M) + 1
      BY <3>1, FS_AddElement
    <3> QED BY <1>3, <2>1, <3>2 DEF M
  <2> QED BY <1>1, <2>0, <2>2, MarkedFinite DEF p
<1>5. CASE b = FALSE
  <2>0. Recorded(b) = 0
    BY <1>5 DEF Recorded
  <2>1. Marked(p) = Marked(q)
    <3>1. n \notin Marked(p)
      <4>1. ~p[n]
        BY <1>1, <1>5, Zenon
      <4> QED BY <4>1, Zenon DEF Marked
    <3>2. Marked(p) \subseteq 1..n /\ Marked(q) \subseteq 1..Len(q) /\ 1..n = (1..Len(q)) \cup {n}
      BY <1>1 DEF Marked
    <3> QED BY <1>6, <3>1, <3>2
  <2>2. Count(p) = Count(q) /\ Count(q) \in Nat
    BY <1>1, <2>1, MarkedFinite
  <2> QED BY <2>0, <2>2 DEF p
<1> QED BY <1>4, <1>5, Zenon

\* An update that is taken out of the channel is counted no more.
LEMMA CountTail ==
  ASSUME NEW q \in Seq(BOOLEAN), q # << >>
  PROVE  Count(q) = Count(Tail(q)) + Recorded(Head(q))
<1> DEFINE p == Tail(q)
           B == Marked(q) \ {1}
           f == [i \in Marked(p) |-> i + 1]
<1>1. /\ p \in Seq(BOOLEAN) /\ Len(p) = Len(q) - 1 /\ Len(q) \in Nat /\ Len(q) > 0
      /\ \A i \in 1..Len(p) : p[i] = q[i + 1]
      /\ Head(q) \in BOOLEAN /\ Head(q) = q[1]
  BY HeadTailProperties
<1> HIDE DEF p
<1>2. f \in Bijection(Marked(p), B)
  <2>1. \A i \in Marked(p) : i + 1 \in B
    BY <1>1 DEF Marked
  <2>2. f \in [Marked(p) -> B]
    BY <2>1
  <2>3. \A i, j \in Marked(p) : f[i] = f[j] => i = j
    BY <1>1 DEF Marked
  <2>4. \A j \in B : \E i \in Marked(p) : f[i] = j
    <3> SUFFICES ASSUME NEW j \in B PROVE j - 1 \in Marked(p) /\ f[j - 1] = j
      OBVIOUS
    <3>1. j \in Nat /\ j > 1 /\ j =< Len(q) /\ q[j]
      BY <1>1 DEF Marked
    <3>2. j - 1 \in 1..Len(p)
      BY <1>1, <3>1
    <3>3. p[j - 1] = q[(j - 1) + 1]
      BY <1>1, <3>2
    <3>4. (j - 1) + 1 = j
      BY <3>1
    <3>5. j - 1 \in Marked(p)
      BY <3>1, <3>2, <3>3, <3>4 DEF Marked
    <3> QED BY <3>4, <3>5
  <2> QED BY <2>2, <2>3, <2>4, Fun_IsBij
<1>3. IsFiniteSet(B) /\ Cardinality(B) = Count(p)
  <2>1. ExistsBijection(Marked(p), B)
    BY <1>2, Fun_ExistsBij
  <2> QED BY <1>1, <2>1, MarkedFinite, FS_Bijection
<1> HIDE DEF f, B
<1>4. CASE Head(q) = TRUE
  <2>0. Recorded(Head(q)) = 1
    BY <1>4, Zenon DEF Recorded
  <2>1. Marked(q) = B \cup {1} /\ 1 \notin B
    <3>1. 1 \in 1..Len(q)
      BY <1>1
    <3>2. q[1]
      BY <1>1, <1>4, Zenon
    <3>3. 1 \in Marked(q)
      BY <3>1, <3>2 DEF Marked
    <3> QED BY <3>3 DEF B
  <2>2. Cardinality(Marked(q)) = Cardinality(B) + 1
    BY <1>3, <2>1, FS_AddElement
  <2> QED BY <1>1, <1>3, <2>0, <2>2, MarkedFinite DEF p
<1>5. CASE Head(q) = FALSE
  <2>0. Recorded(Head(q)) = 0
    BY <1>5, Zenon DEF Recorded
  <2>1. Marked(q) = B
    <3>1. ~q[1]
      BY <1>1, <1>5, Zenon
    <3>2. 1 \notin Marked(q)
      BY <3>1, Zenon DEF Marked
    <3> QED BY <3>2 DEF B
  <2> QED BY <1>1, <1>3, <2>0, <2>1, MarkedFinite DEF p
<1> QED BY <1>1, <1>4, <1>5

-----------------------------------------------------------------------------
(* The invariant.                                                          *)

\* The initial state satisfies the invariant.
LEMMA InitInd == Init => IndInv
<1> SUFFICES ASSUME Init PROVE IndInv
  OBVIOUS
<1>1. TypeOK
  <2>1. queue \in [Streams -> Seq(BOOLEAN)] /\ \A s \in Streams : Len(queue[s]) =< ChannelCapacity
    BY LanesAssumption DEF Init
  <2>2. hand \in [Streams -> BOOLEAN] /\ laneStop \in BOOLEAN /\ uplStop \in BOOLEAN
    BY DEF Init
  <2>3. /\ updates \in [Streams -> 0..MaxMsgs] /\ received \in [Streams -> Nat]
        /\ open \in [Streams -> Nat] /\ sealed \in [Streams -> Nat] /\ dropped \in [Streams -> Nat]
    BY LanesAssumption DEF Init
  <2>4. /\ producer \in [Streams -> {"none", "connect", "read", "push", "drain", "ok", "failed"}]
        /\ consumer \in [Streams -> {"none", "run", "done", "failed"}]
    BY DEF Init
  <2> QED BY <2>1, <2>2, <2>3, <2>4 DEF Init, TypeOK
<1>2. OkMeansDone /\ StopAfterJoin /\ GraceAfterJoin /\ BootFirst
  BY DEF Init, OkMeansDone, StopAfterJoin, GraceAfterJoin, BootFirst
<1>3. CleanMeansOk /\ DoneIsDry /\ ConnectFirst
  BY LanesAssumption DEF Init, CleanMeansOk, DoneIsDry, ConnectFirst
<1>4. Conserved
  BY CountEmpty DEF Init, Conserved, InHand
<1> QED BY <1>1, <1>2, <1>3, <1>4 DEF IndInv

\* The two halves of the type invariant.
MainTyped ==
  /\ main \in {"boot", "join", "grace", "await", "gone"}
  /\ exit \in {NoExit, 0, 1}
  /\ laneStop \in BOOLEAN /\ uplStop \in BOOLEAN
  /\ handler \in {"waiting", "done", "failed"}
  /\ uploader \in {"none", "running", "stopped"}

LaneTyped ==
  /\ producer \in [Streams -> {"none", "connect", "read", "push", "drain", "ok", "failed"}]
  /\ consumer \in [Streams -> {"none", "run", "done", "failed"}]
  /\ queue \in [Streams -> Seq(BOOLEAN)]
  /\ \A s \in Streams : Len(queue[s]) =< ChannelCapacity
  /\ hand \in [Streams -> BOOLEAN]
  /\ updates \in [Streams -> 0..MaxMsgs] /\ received \in [Streams -> Nat]
  /\ open \in [Streams -> Nat] /\ sealed \in [Streams -> Nat] /\ dropped \in [Streams -> Nat]

\* Main's steps change the one, the tasks' the other.
LEMMA TypeParts ==
  /\ TypeOK <=> MainTyped /\ LaneTyped
  /\ TypeOK' <=> MainTyped' /\ LaneTyped'
  /\ MainTyped /\ UNCHANGED mainVars => MainTyped'
  /\ LaneTyped /\ UNCHANGED laneVars => LaneTyped'
<1>1. TypeOK <=> MainTyped /\ LaneTyped
  BY DEF TypeOK, MainTyped, LaneTyped
<1>2. TypeOK' <=> MainTyped' /\ LaneTyped'
  BY DEF TypeOK, MainTyped, LaneTyped
<1>3. MainTyped /\ UNCHANGED mainVars => MainTyped'
  BY DEF MainTyped, mainVars
<1>4. LaneTyped /\ UNCHANGED laneVars => LaneTyped'
  BY DEF LaneTyped, laneVars
<1> QED BY <1>1, <1>2, <1>3, <1>4

\* Main's steps: the join is what the signal to the uploader waits for.
LEMMA MainInd ==
  ASSUME IndInv, MainStep \/ Signal \/ HandlerFailed
  PROVE  IndInv'
<1> USE DEF IndInv
<1>1. TypeOK'
  <2>0. MainTyped /\ LaneTyped
    BY TypeParts
  <2>1. MainTyped'
    <3>1. laneStop' \in BOOLEAN /\ uplStop' \in BOOLEAN
      BY <2>0 DEF MainTyped, MainStep, Boot, BootFailed, JoinFailed, JoinOk, GraceOver,
                  UploaderStops, Finish, Signal, HandlerFailed
    <3>2. main' \in {"boot", "join", "grace", "await", "gone"} /\ exit' \in {NoExit, 0, 1}
      BY <2>0 DEF MainTyped, MainStep, Boot, BootFailed, JoinFailed, JoinOk, GraceOver,
                  UploaderStops, Finish, Signal, HandlerFailed
    <3>3. /\ handler' \in {"waiting", "done", "failed"}
          /\ uploader' \in {"none", "running", "stopped"}
      BY <2>0 DEF MainTyped, MainStep, Boot, BootFailed, JoinFailed, JoinOk, GraceOver,
                  UploaderStops, Finish, Signal, HandlerFailed
    <3> QED BY <3>1, <3>2, <3>3 DEF MainTyped
  <2>2. LaneTyped'
    <3>1. CASE Boot
      BY <2>0, <3>1 DEF LaneTyped, Boot
    <3>2. CASE UNCHANGED laneVars
      BY <2>0, <3>2, TypeParts
    <3> QED BY <3>1, <3>2 DEF MainStep, BootFailed, JoinFailed, JoinOk, GraceOver,
                              UploaderStops, Finish, Signal, HandlerFailed
  <2> QED BY <2>1, <2>2, TypeParts
<1>2. OkMeansDone'
  BY DEF OkMeansDone, TypeOK, MainStep, Boot, BootFailed, JoinFailed, JoinOk, GraceOver,
         UploaderStops, Finish, Signal, HandlerFailed, laneVars
<1>3. BootFirst'
  BY DEF BootFirst, MainStep, Boot, BootFailed, JoinFailed, JoinOk, GraceOver,
         UploaderStops, Finish, Signal, HandlerFailed, laneVars
<1>4. StopAfterJoin' /\ GraceAfterJoin'
  <2>1. CASE Boot
    <3>1. Joined => Streams = {}
      BY <2>1 DEF Boot, BootFirst, Joined, LaneOver
    <3>2. Streams = {} => Joined'
      BY DEF Joined
    <3> QED BY <2>1, <3>1, <3>2 DEF Boot, StopAfterJoin, GraceAfterJoin
  <2>2. CASE JoinFailed \/ JoinOk
    BY <2>2 DEF JoinFailed, JoinOk, StopAfterJoin, GraceAfterJoin, Joined, LaneOver, laneVars
  <2>3. CASE BootFailed \/ GraceOver \/ UploaderStops \/ Finish \/ Signal \/ HandlerFailed
    BY <2>3 DEF BootFailed, GraceOver, UploaderStops, Finish, Signal, HandlerFailed,
         StopAfterJoin, GraceAfterJoin, Joined, LaneOver, laneVars
  <2> QED BY <2>1, <2>2, <2>3 DEF MainStep
<1>5. CleanMeansOk'
  <2>1. CASE JoinOk
    BY <2>1, LanesAssumption DEF JoinOk, CleanMeansOk, Joined, LaneOver, Running, laneVars
  <2>2. CASE GraceOver \/ Finish
    BY <2>2, LanesAssumption DEF GraceOver, Finish, CleanMeansOk, Running, laneVars
  <2>3. CASE Boot \/ BootFailed \/ JoinFailed
    BY <2>3, LanesAssumption DEF Boot, BootFailed, JoinFailed, CleanMeansOk, Running
  <2>4. CASE UploaderStops \/ Signal \/ HandlerFailed
    BY <2>4 DEF UploaderStops, Signal, HandlerFailed, CleanMeansOk, laneVars
  <2> QED BY <2>1, <2>2, <2>3, <2>4 DEF MainStep
<1>6. Conserved' /\ DoneIsDry' /\ ConnectFirst'
  <2>1. CASE Boot
    <3>1. /\ \A s \in Streams : producer[s] = "none" /\ producer'[s] = "connect"
          /\ UNCHANGED <<consumer, queue, hand, received, open, sealed, dropped>>
      BY <2>1 DEF Boot, BootFirst
    <3>2. \A s \in Streams : InHand(s) = 0 /\ InHand(s)' = 0
      BY <3>1 DEF InHand
    <3> QED BY <3>1, <3>2 DEF Conserved, DoneIsDry, ConnectFirst
  <2>2. CASE UNCHANGED laneVars
    BY <2>2 DEF Conserved, DoneIsDry, ConnectFirst, InHand, laneVars
  <2>3. Boot \/ UNCHANGED laneVars
    BY DEF MainStep, BootFailed, JoinFailed, JoinOk, GraceOver, UploaderStops, Finish,
           Signal, HandlerFailed
  <2> QED BY <2>1, <2>2, <2>3
<1> QED BY <1>1, <1>2, <1>3, <1>4, <1>5, <1>6

\* The reading task: a lane that is over stays so, and ends well only when its
\* consumer has.
LEMMA ProducerInd ==
  ASSUME IndInv, NEW s \in Streams, Dial(s) \/ ProducerStep(s) \/ SeeShutdown(s)
  PROVE  IndInv'
<1> USE DEF IndInv
<1>1. TypeOK'
  <2>0. MainTyped /\ LaneTyped
    BY TypeParts
  <2>f. UNCHANGED mainVars
    BY DEF ProducerStep, Dial, Connect, ConnectFailed, Receive, Push, PushFailed, StreamError,
           StreamEnd, AwaitConsumer, SeeShutdown
  <2>g. SUFFICES LaneTyped'
    BY <2>0, <2>f, TypeParts
  <2> HIDE DEF IndInv
  <2>1. CASE \E hasSlot \in BOOLEAN : Receive(s, hasSlot)
    <3>1. PICK b \in BOOLEAN : Receive(s, b)
      BY <2>1
    <3>2. Recorded(b) \in Nat
      BY RecordedIsNat
    <3>3. updates' \in [Streams -> 0..MaxMsgs] /\ received' \in [Streams -> Nat]
      BY <2>0, <3>1, <3>2, LanesAssumption DEF LaneTyped, Receive
    <3>4. hand' \in [Streams -> BOOLEAN]
      BY <2>0, <3>1 DEF LaneTyped, Receive
    <3> QED BY <2>0, <3>1, <3>3, <3>4 DEF LaneTyped, Receive, ProducerTo
  <2>2. CASE Push(s)
    <3>1. queue' \in [Streams -> Seq(BOOLEAN)] /\ \A t \in Streams : Len(queue'[t]) =< ChannelCapacity
      <4>1. queue[s] \in Seq(BOOLEAN) /\ hand[s] \in BOOLEAN /\ Len(queue[s]) < ChannelCapacity
        BY <2>0, <2>2 DEF LaneTyped, Push, Room
      <4>2. Append(queue[s], hand[s]) \in Seq(BOOLEAN) /\ Len(Append(queue[s], hand[s])) =< ChannelCapacity
        BY <4>1, LanesAssumption
      <4> QED BY <2>0, <2>2, <4>2 DEF LaneTyped, Push
    <3> QED BY <2>0, <2>2, <3>1 DEF LaneTyped, Push, ProducerTo
  <2>3. CASE Dial(s)
    BY <2>0, <2>3 DEF LaneTyped, Dial, Connect, ConnectFailed, ProducerTo
  <2>4. CASE PushFailed(s) \/ StreamError(s) \/ StreamEnd(s) \/ SeeShutdown(s)
    <3>1. /\ producer' \in [Streams -> {"none", "connect", "read", "push", "drain", "ok", "failed"}]
          /\ UNCHANGED <<consumer, queue, hand, updates, received, open, sealed, dropped>>
      BY <2>0, <2>4 DEF LaneTyped, PushFailed, StreamError, StreamEnd, SeeShutdown, ProducerTo
    <3> QED BY <2>0, <3>1 DEF LaneTyped
  <2>5. CASE AwaitConsumer(s)
    BY <2>0, <2>5 DEF LaneTyped, AwaitConsumer, LaneResult, ProducerTo
  <2> QED BY <2>1, <2>2, <2>3, <2>4, <2>5 DEF ProducerStep
<1>2. OkMeansDone'
  BY DEF OkMeansDone, TypeOK, Dial, ProducerStep, Connect, ConnectFailed, Receive, Push,
         PushFailed, StreamError, StreamEnd, AwaitConsumer, SeeShutdown, LaneResult, ProducerTo
<1>3. ~LaneOver(s) /\ producer[s] # "none" /\ UNCHANGED mainVars
  BY DEF LaneOver, Dial, ProducerStep, Connect, ConnectFailed, Receive, Push, PushFailed,
         StreamError, StreamEnd, AwaitConsumer, SeeShutdown
<1>4. ~Joined
  BY <1>3 DEF Joined
<1>5. StopAfterJoin' /\ GraceAfterJoin' /\ BootFirst'
  BY <1>3, <1>4 DEF StopAfterJoin, GraceAfterJoin, BootFirst, mainVars
<1>6. CleanMeansOk'
  <2>1. ~(main \in {"grace", "await"} \/ exit = 0)
    BY <1>3 DEF CleanMeansOk, LaneOver
  <2> QED BY <1>3, <2>1 DEF CleanMeansOk, mainVars
<1>7. UNCHANGED <<open, sealed, dropped>> /\ \A t \in Streams : t # s =>
        /\ producer'[t] = producer[t] /\ consumer'[t] = consumer[t] /\ queue'[t] = queue[t]
        /\ received'[t] = received[t] /\ hand'[t] = hand[t]
  BY DEF TypeOK, Dial, ProducerStep, Connect, ConnectFailed, Receive, Push, PushFailed,
         StreamError, StreamEnd, AwaitConsumer, SeeShutdown, ProducerTo
<1>8. DoneIsDry'
  <2>1. CASE AwaitConsumer(s)
    BY <2>1 DEF AwaitConsumer, ProducerTo, LaneResult, DoneIsDry, TypeOK
  <2>2. CASE ~AwaitConsumer(s)
    <3>1. consumer[s] # "done" \/ producer[s] = "connect"
      BY <2>2 DEF DoneIsDry, Dial, ProducerStep, Connect, ConnectFailed, Receive, Push,
           PushFailed, StreamError, StreamEnd, SeeShutdown
    <3>2. consumer[s] # "done"
      BY <3>1 DEF DoneIsDry
    <3>3. consumer'[s] # "done"
      BY <2>2, <3>2 DEF TypeOK, Dial, ProducerStep, Connect, ConnectFailed, Receive, Push,
           PushFailed, StreamError, StreamEnd, SeeShutdown
    <3> QED BY <1>7, <3>3 DEF DoneIsDry
  <2> QED BY <2>1, <2>2
<1>9. Conserved'
  <2>0. /\ queue[s] \in Seq(BOOLEAN) /\ hand[s] \in BOOLEAN /\ Count(queue[s]) \in Nat
        /\ received[s] \in Nat /\ sealed[s] \in Nat /\ open[s] \in Nat /\ dropped[s] \in Nat
    BY MarkedFinite DEF TypeOK
  <2>1. SUFFICES ASSUME consumer'[s] # "failed"
                 PROVE  received'[s] = sealed[s] + open[s] + Count(queue'[s]) + InHand(s)' + dropped[s]
    BY <1>7 DEF Conserved, InHand
  <2>2. CASE \E b \in BOOLEAN : Receive(s, b)
    <3>1. PICK b \in BOOLEAN : Receive(s, b)
      BY <2>2
    <3>2. /\ received'[s] = received[s] + Recorded(b) /\ hand'[s] = b /\ queue' = queue
          /\ producer[s] = "read" /\ producer'[s] = "push" /\ consumer' = consumer
      BY <3>1 DEF Receive, ProducerTo, TypeOK
    <3>3. InHand(s) = 0 /\ InHand(s)' = Recorded(b)
      BY <3>2 DEF InHand
    <3>4. received[s] = sealed[s] + open[s] + Count(queue[s]) + 0 + dropped[s]
      BY <2>1, <3>2, <3>3 DEF Conserved
    <3>5. Count(queue'[s]) = Count(queue[s]) /\ Recorded(b) \in Nat
      BY <3>2, RecordedIsNat
    <3> QED BY <2>0, <3>2, <3>3, <3>4, <3>5
  <2>3. CASE Push(s)
    <3>1. /\ queue'[s] = Append(queue[s], hand[s]) /\ received' = received /\ hand' = hand
          /\ producer[s] = "push" /\ producer'[s] = "read" /\ consumer' = consumer
      BY <2>3 DEF Push, ProducerTo, TypeOK
    <3>2. InHand(s) = Recorded(hand[s]) /\ InHand(s)' = 0
      BY <3>1 DEF InHand
    <3>3. Count(queue'[s]) = Count(queue[s]) + Recorded(hand[s])
      BY <2>0, <3>1, CountAppend
    <3>4. received[s] = sealed[s] + open[s] + Count(queue[s]) + Recorded(hand[s]) + dropped[s]
      BY <2>1, <3>1, <3>2 DEF Conserved
    <3> QED BY <2>0, <3>1, <3>2, <3>3, <3>4, RecordedIsNat
  <2>4. CASE Dial(s) \/ StreamError(s) \/ StreamEnd(s) \/ AwaitConsumer(s) \/ SeeShutdown(s)
    <3>1. /\ producer[s] # "push" /\ producer'[s] # "push"
          /\ UNCHANGED <<received, queue, sealed, open>>
      BY <2>4 DEF Dial, Connect, ConnectFailed, StreamError, StreamEnd, AwaitConsumer,
           SeeShutdown, LaneResult, ProducerTo, TypeOK
    <3>2. consumer[s] # "failed" \/ producer[s] = "connect"
      BY <2>1, <2>4 DEF Dial, Connect, ConnectFailed, StreamError, StreamEnd, AwaitConsumer,
           SeeShutdown
    <3>3. consumer[s] # "failed"
      BY <3>2 DEF ConnectFirst
    <3>4. InHand(s) = 0 /\ InHand(s)' = 0 /\ queue'[s] = queue[s] /\ received'[s] = received[s]
      BY <3>1 DEF InHand
    <3>5. Count(queue'[s]) = Count(queue[s])
      BY <3>4
    <3> QED BY <2>0, <3>3, <3>4, <3>5 DEF Conserved
  <2>5. CASE PushFailed(s)
    BY <2>1, <2>5 DEF PushFailed, ReceiverGone
  <2> QED BY <2>2, <2>3, <2>4, <2>5 DEF ProducerStep
<1>10. ConnectFirst'
  <2>1. producer'[s] \notin {"none", "connect"}
    BY DEF TypeOK, Dial, ProducerStep, Connect, ConnectFailed, Receive, Push, PushFailed,
           StreamError, StreamEnd, AwaitConsumer, SeeShutdown, LaneResult, ProducerTo
  <2> QED BY <1>7, <2>1 DEF ConnectFirst
<1> QED BY <1>1, <1>2, <1>5, <1>6, <1>8, <1>9, <1>10

\* The consumer: it leaves the reading task alone, and one whose lane ended
\* well takes no further step.
LEMMA ConsumerInd ==
  ASSUME IndInv, NEW s \in Streams, ConsumerStep(s)
  PROVE  IndInv'
<1> USE DEF IndInv
<1>1. TypeOK'
  <2>1. CASE Ingest(s)
    <3> DEFINE n == open[s] + Recorded(Head(queue[s]))
    <3>0. queue[s] \in Seq(BOOLEAN) /\ queue[s] # << >>
      BY <2>1 DEF TypeOK, Ingest
    <3>1. n \in Nat
      <4>1. Head(queue[s]) \in BOOLEAN
        BY <3>0
      <4> QED BY <4>1, RecordedIsNat DEF TypeOK
    <3>2. PICK kept \in 0..n : /\ open' = [open EXCEPT ![s] = kept]
                              /\ sealed' = [sealed EXCEPT ![s] = @ + n - kept]
      BY <2>1, <3>1 DEF Ingest
    <3> HIDE DEF n
    <3>3. open' \in [Streams -> Nat] /\ sealed' \in [Streams -> Nat]
      BY <3>1, <3>2 DEF TypeOK
    <3>4. Tail(queue[s]) \in Seq(BOOLEAN) /\ Len(Tail(queue[s])) = Len(queue[s]) - 1
      BY <3>0, HeadTailProperties
    <3>5. /\ queue' \in [Streams -> Seq(BOOLEAN)]
          /\ \A t \in Streams : Len(queue'[t]) =< ChannelCapacity
      <4>1. queue' = [queue EXCEPT ![s] = Tail(queue[s])]
        BY <2>1 DEF Ingest
      <4>2. /\ queue'[s] = Tail(queue[s])
            /\ \A t \in Streams \ {s} : queue'[t] = queue[t]
        BY <4>1 DEF TypeOK
      <4>3. queue' \in [Streams -> Seq(BOOLEAN)]
        BY <4>1, <3>4 DEF TypeOK
      <4>4. Len(queue[s]) =< ChannelCapacity /\ Len(queue[s]) \in Nat
        BY <3>0 DEF TypeOK
      <4>5. Len(queue'[s]) =< ChannelCapacity
        BY <4>2, <4>4, <3>4, LanesAssumption
      <4> QED BY <4>2, <4>3, <4>5 DEF TypeOK
    <3> QED BY <2>1, <3>3, <3>5 DEF TypeOK, Ingest, mainVars
  <2>5. CASE IngestDrops(s)
    <3>0. queue[s] \in Seq(BOOLEAN) /\ queue[s] # << >>
      BY <2>5 DEF TypeOK, IngestDrops
    <3>1. PICK kept \in 0..open[s] : /\ open' = [open EXCEPT ![s] = kept]
                                    /\ sealed' = [sealed EXCEPT ![s] = @ + open[s] - kept]
      BY <2>5 DEF IngestDrops
    <3>2. open' \in [Streams -> Nat] /\ sealed' \in [Streams -> Nat]
      BY <3>1 DEF TypeOK
    <3>3. dropped' \in [Streams -> Nat]
      <4>1. dropped \in [Streams -> Nat] /\ dropped' = [dropped EXCEPT ![s] = @ + 1]
        BY <2>5 DEF TypeOK, IngestDrops
      <4> QED BY <4>1
    <3>4. Tail(queue[s]) \in Seq(BOOLEAN) /\ Len(Tail(queue[s])) =< ChannelCapacity
      <4>1. /\ Tail(queue[s]) \in Seq(BOOLEAN) /\ Len(Tail(queue[s])) = Len(queue[s]) - 1
            /\ Len(queue[s]) =< ChannelCapacity /\ Len(queue[s]) \in Nat
        BY <3>0, HeadTailProperties DEF TypeOK
      <4> QED BY <4>1, LanesAssumption
    <3>5. /\ queue' \in [Streams -> Seq(BOOLEAN)]
          /\ \A t \in Streams : Len(queue'[t]) =< ChannelCapacity
      <4>1. queue' = [queue EXCEPT ![s] = Tail(queue[s])]
        BY <2>5 DEF IngestDrops
      <4> QED BY <3>4, <4>1 DEF TypeOK
    <3> QED BY <2>5, <3>2, <3>3, <3>5 DEF TypeOK, IngestDrops, mainVars
  <2>2. CASE TickSeal(s)
    <3>1. PICK kept \in 0..(open[s] - 1) :
            /\ open' = [open EXCEPT ![s] = kept]
            /\ sealed' = [sealed EXCEPT ![s] = @ + open[s] - kept]
      BY <2>2 DEF TickSeal
    <3>2. open' \in [Streams -> Nat] /\ sealed' \in [Streams -> Nat]
      BY <3>1 DEF TypeOK
    <3> QED BY <2>2, <3>2 DEF TypeOK, TickSeal, mainVars
  <2>3. CASE ConsumerFails(s)
    <3>1. << >> \in Seq(BOOLEAN) /\ Len(<< >>) = 0
      BY EmptySeq
    <3>2. queue' \in [Streams -> Seq(BOOLEAN)] /\ \A t \in Streams : Len(queue'[t]) =< ChannelCapacity
      BY <2>3, <3>1, LanesAssumption DEF TypeOK, ConsumerFails
    <3> QED BY <2>3, <3>2 DEF TypeOK, ConsumerFails, ConsumerTo, mainVars
  <2>4. CASE ConsumerEnds(s)
    BY <2>4 DEF TypeOK, ConsumerEnds, ConsumerTo, mainVars
  <2> QED BY <2>1, <2>2, <2>3, <2>4, <2>5 DEF ConsumerStep
<1>2. consumer[s] = "run" /\ UNCHANGED <<mainVars, producer>>
  BY DEF ConsumerStep, Ingest, IngestDrops, ConsumerFails, TickSeal, ConsumerEnds
<1>3. \A t \in Streams : t # s => consumer'[t] = consumer[t]
  BY DEF TypeOK, ConsumerStep, Ingest, IngestDrops, ConsumerFails, TickSeal, ConsumerEnds, ConsumerTo
<1>4. OkMeansDone'
  BY <1>2, <1>3 DEF OkMeansDone
<1>5. StopAfterJoin' /\ GraceAfterJoin' /\ BootFirst'
  BY <1>2 DEF StopAfterJoin, GraceAfterJoin, BootFirst, Joined, LaneOver, mainVars
<1>6. CleanMeansOk' /\ ConnectFirst'
  BY <1>2, <1>3 DEF CleanMeansOk, ConnectFirst, mainVars
<1>7. UNCHANGED <<received, hand>> /\ \A t \in Streams : t # s =>
        /\ consumer'[t] = consumer[t] /\ queue'[t] = queue[t]
        /\ open'[t] = open[t] /\ sealed'[t] = sealed[t] /\ dropped'[t] = dropped[t]
  BY DEF TypeOK, ConsumerStep, Ingest, IngestDrops, ConsumerFails, TickSeal, ConsumerEnds, ConsumerTo
<1>8. DoneIsDry'
  <2>1. consumer'[s] = "done" => ConsumerEnds(s)
    BY <1>2 DEF TypeOK, ConsumerStep, Ingest, IngestDrops, ConsumerFails, TickSeal, ConsumerTo
  <2>2. ConsumerEnds(s) => /\ queue'[s] = << >> /\ open'[s] = 0
                           /\ producer'[s] \in {"drain", "ok", "failed"}
    BY DEF TypeOK, ConsumerEnds, Drained
  <2> QED BY <1>2, <1>7, <2>1, <2>2 DEF DoneIsDry
<1>9. Conserved'
  <2>0. /\ queue[s] \in Seq(BOOLEAN) /\ hand[s] \in BOOLEAN /\ Count(queue[s]) \in Nat
        /\ received[s] \in Nat /\ sealed[s] \in Nat /\ open[s] \in Nat /\ dropped[s] \in Nat
    BY MarkedFinite DEF TypeOK
  <2>1. InHand(s) \in Nat /\ \A t \in Streams : InHand(t)' = InHand(t)
    BY <1>2, <1>7, <2>0, RecordedIsNat DEF InHand
  <2>2. received[s] = sealed[s] + open[s] + Count(queue[s]) + InHand(s) + dropped[s]
    BY <1>2 DEF Conserved
  <2> HIDE DEF IndInv
  <2> DEFINE was == sealed[s] + open[s] + Count(queue[s])
             is == sealed'[s] + open'[s] + Count(queue'[s])
  <2>3. SUFFICES ASSUME consumer'[s] # "failed"
                 PROVE  is + dropped'[s] = was + dropped[s]
    <3>1. ASSUME NEW t \in Streams, t # s, consumer'[t] # "failed"
          PROVE  received'[t] = sealed'[t] + open'[t] + Count(queue'[t]) + InHand(t)' + dropped'[t]
      BY <1>7, <2>1, <3>1 DEF IndInv, Conserved
    <3>2. /\ sealed'[s] \in Nat /\ open'[s] \in Nat /\ dropped'[s] \in Nat
          /\ Count(queue'[s]) \in Nat
      BY <1>1, MarkedFinite DEF TypeOK
    <3>3. ASSUME consumer'[s] # "failed", is + dropped'[s] = was + dropped[s]
          PROVE  received'[s] = sealed'[s] + open'[s] + Count(queue'[s]) + InHand(s)' + dropped'[s]
      <4>1. received'[s] = received[s] /\ InHand(s)' = InHand(s) /\ InHand(s) \in Nat
        BY <1>7, <2>1
      <4>2. received[s] = was + InHand(s) + dropped[s] /\ dropped[s] \in Nat /\ dropped'[s] \in Nat
        BY <2>0, <2>2, <3>2
      <4>3. was \in Nat
        BY <2>0
      <4>4. is \in Nat
        BY <3>2
      <4> HIDE DEF was, is
      <4>5. was + InHand(s) + dropped[s] = is + InHand(s) + dropped'[s]
        BY <3>3, <4>1, <4>2, <4>3, <4>4, Rebalance
      <4>6. received'[s] = is + InHand(s)' + dropped'[s]
        BY <4>1, <4>2, <4>5
      <4> QED BY <4>6 DEF is
    <3> QED BY <3>1, <3>3 DEF Conserved
  <2>4. CASE Ingest(s)
    <3> DEFINE n == open[s] + Recorded(Head(queue[s]))
    <3>1. queue[s] # << >> /\ queue'[s] = Tail(queue[s])
      BY <2>4 DEF IndInv, TypeOK, Ingest
    <3>2. Head(queue[s]) \in BOOLEAN
      BY <2>0, <3>1
    <3>3. n \in Nat /\ Recorded(Head(queue[s])) \in Nat
      BY <2>0, <3>2, RecordedIsNat
    <3>4. Count(queue[s]) = Count(queue'[s]) + Recorded(Head(queue[s]))
      BY <2>0, <3>1, CountTail
    <3>5. PICK kept \in 0..n : open'[s] = kept /\ sealed'[s] = sealed[s] + n - kept
      <4>1. open \in [Streams -> Nat] /\ sealed \in [Streams -> Nat]
        BY DEF IndInv, TypeOK
      <4> HIDE DEF n
      <4>2. PICK kept \in 0..n : /\ open' = [open EXCEPT ![s] = kept]
                                 /\ sealed' = [sealed EXCEPT ![s] = @ + n - kept]
        BY <2>4, Zenon DEF Ingest, n
      <4> QED BY <4>1, <4>2
    <3>6. Count(queue'[s]) \in Nat
      BY <1>1, MarkedFinite DEF TypeOK
    <3>7. sealed'[s] + open'[s] = sealed[s] + n /\ sealed[s] + n \in Nat
      <4> HIDE DEF n
      <4> QED BY <2>0, <3>3, <3>5, SealSplit
    <3>8. dropped' = dropped
      BY <2>4 DEF Ingest
    <3> DEFINE r == Recorded(Head(queue[s]))
               held == sealed'[s] + open'[s]
    <3>9. held = sealed[s] + (open[s] + r) /\ r \in Nat
      BY <3>3, <3>7
    <3> HIDE DEF r, held
    <3>10. held + Count(queue'[s]) = sealed[s] + open[s] + Count(queue[s])
      BY <2>0, <3>4, <3>6, <3>9 DEF r
    <3> QED BY <3>8, <3>10 DEF held
  <2>8. CASE IngestDrops(s)
    <3>1. queue[s] # << >> /\ queue'[s] = Tail(queue[s]) /\ Head(queue[s])
      BY <2>8 DEF IndInv, TypeOK, IngestDrops
    <3>2. Recorded(Head(queue[s])) = 1
      BY <3>1, Zenon DEF Recorded
    <3>3. Count(queue[s]) = Count(queue'[s]) + 1
      BY <2>0, <3>1, <3>2, CountTail
    <3>4. PICK kept \in 0..open[s] : open'[s] = kept /\ sealed'[s] = sealed[s] + open[s] - kept
      <4>1. open \in [Streams -> Nat] /\ sealed \in [Streams -> Nat]
        BY DEF IndInv, TypeOK
      <4>2. PICK kept \in 0..open[s] : /\ open' = [open EXCEPT ![s] = kept]
                                      /\ sealed' = [sealed EXCEPT ![s] = @ + open[s] - kept]
        BY <2>8 DEF IngestDrops
      <4> QED BY <4>1, <4>2
    <3>5. sealed'[s] + open'[s] = sealed[s] + open[s]
      BY <2>0, <3>4, SealSplit
    <3>6. dropped'[s] = dropped[s] + 1
      BY <2>8 DEF IngestDrops, IndInv, TypeOK
    <3>7. Count(queue'[s]) \in Nat
      BY <1>1, MarkedFinite DEF TypeOK
    <3> DEFINE held == sealed'[s] + open'[s]
    <3>8. held = sealed[s] + open[s] /\ held \in Nat
      BY <2>0, <3>5
    <3> HIDE DEF held
    <3>9. held + Count(queue'[s]) + (dropped[s] + 1) = held + (Count(queue'[s]) + 1) + dropped[s]
      BY <2>0, <3>7, <3>8, Discarded
    <3>10. held + Count(queue'[s]) + dropped'[s] = held + Count(queue[s]) + dropped[s]
      BY <3>3, <3>6, <3>9
    <3> QED BY <3>8, <3>10 DEF held
  <2>5. CASE TickSeal(s)
    <3>1. PICK kept \in 0..(open[s] - 1) :
            open'[s] = kept /\ sealed'[s] = sealed[s] + open[s] - kept
      <4>1. open \in [Streams -> Nat] /\ sealed \in [Streams -> Nat]
        BY DEF IndInv, TypeOK
      <4>2. PICK kept \in 0..(open[s] - 1) :
              /\ open' = [open EXCEPT ![s] = kept]
              /\ sealed' = [sealed EXCEPT ![s] = @ + open[s] - kept]
        BY <2>5 DEF TickSeal
      <4> QED BY <4>1, <4>2
    <3>2. queue' = queue
      BY <2>5 DEF TickSeal
    <3>3. Count(queue'[s]) = Count(queue[s])
      BY <3>2
    <3>4. sealed'[s] + open'[s] = sealed[s] + open[s]
      <4>1. sealed[s] \in Nat /\ open[s] \in Nat
        BY <2>0
      <4>2. kept \in 0..open[s]
        BY <4>1
      <4> QED BY <3>1, <4>1, <4>2, SealSplit
    <3>5. dropped' = dropped
      BY <2>5 DEF TickSeal
    <3> QED BY <3>3, <3>4, <3>5
  <2>6. CASE ConsumerFails(s)
    BY <2>3, <2>6 DEF ConsumerFails, ConsumerTo, IndInv, TypeOK
  <2>7. CASE ConsumerEnds(s)
    <3>1. open'[s] = 0 /\ sealed'[s] = sealed[s] + open[s] /\ UNCHANGED <<queue, dropped>>
      BY <2>7 DEF ConsumerEnds, IndInv, TypeOK
    <3> QED BY <2>0, <3>1
  <2> QED BY <2>4, <2>5, <2>6, <2>7, <2>8 DEF ConsumerStep
<1> QED BY <1>1, <1>4, <1>5, <1>6, <1>8, <1>9

\* Every step preserves the invariant.
LEMMA NextInd == IndInv /\ [Next]_vars => IndInv'
<1> SUFFICES ASSUME IndInv, [Next]_vars PROVE IndInv'
  OBVIOUS
<1>1. CASE MainStep \/ Signal \/ HandlerFailed
  BY <1>1, MainInd
<1>2. ASSUME NEW s \in Streams, Dial(s) \/ ProducerStep(s) \/ SeeShutdown(s)
      PROVE  IndInv'
  BY <1>2, ProducerInd
<1>3. ASSUME NEW s \in Streams, ConsumerStep(s)
      PROVE  IndInv'
  BY <1>3, ConsumerInd
<1>4. CASE UNCHANGED vars
  BY <1>4 DEF IndInv, TypeOK, OkMeansDone, StopAfterJoin, GraceAfterJoin, BootFirst, Joined,
       LaneOver, CleanMeansOk, ConnectFirst,
       Conserved, DoneIsDry, InHand, vars, mainVars, laneVars
<1> QED BY <1>1, <1>2, <1>3, <1>4 DEF Next

\* The strengthened invariant holds in every reachable state of the process.
THEOREM LanesInvariant == Spec => []IndInv
  BY InitInd, NextInd, PTL DEF Spec

\* The variables of the writer process stay within their types; in particular
\* the channel of a lane never holds more than its capacity.
THEOREM TypeCorrect == Spec => []TypeOK
<1>1. IndInv => TypeOK
  BY DEF IndInv
<1> QED BY <1>1, LanesInvariant, PTL

\* main cancels the uploader's signal only after every lane has sealed its last
\* chunk or failed, for any number of lanes and whatever the interleaving of
\* signals, failures and full channels.
THEOREM UploaderOutlivesLanesHolds == Spec => []UploaderOutlivesLanes
<1>1. IndInv => UploaderOutlivesLanes
  BY DEF IndInv, UploaderOutlivesLanes, StopAfterJoin, OkMeansDone, Joined
<1> QED BY <1>1, LanesInvariant, PTL

\* Exit code 0 says that every message taken off a subscription is in a sealed
\* chunk or was discarded by ingest itself, for any number of lanes and any
\* capacity of their channels: a message is counted in one place as long as its
\* consumer lives, and the channel, the producer's hand and the open chunks are
\* empty once the consumer is done.
THEOREM CleanExitIsCompleteHolds == Spec => []CleanExitIsComplete
<1>1. IndInv => CleanExitIsComplete
  <2> SUFFICES ASSUME IndInv, exit = 0, NEW s \in Streams
               PROVE  sealed[s] + dropped[s] = received[s]
    BY DEF CleanExitIsComplete
  <2>1. producer[s] = "ok" /\ consumer[s] = "done"
    BY DEF IndInv, CleanMeansOk, OkMeansDone
  <2>2. queue[s] = << >> /\ open[s] = 0 /\ InHand(s) = 0
    BY <2>1 DEF IndInv, DoneIsDry, InHand
  <2>3. received[s] = sealed[s] + open[s] + Count(queue[s]) + InHand(s) + dropped[s]
    BY <2>1 DEF IndInv, Conserved
  <2>4. Count(queue[s]) = 0
    BY <2>2, CountEmpty
  <2>5. sealed[s] \in Nat /\ dropped[s] \in Nat
    BY DEF IndInv, TypeOK
  <2> QED BY <2>2, <2>3, <2>4, <2>5
<1> QED BY <1>1, LanesInvariant, PTL
=============================================================================
