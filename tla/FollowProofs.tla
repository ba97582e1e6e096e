---------------------------- MODULE FollowProofs ----------------------------
(***************************************************************************)
(* What a subscription is sent, for any streams, chunks and contents and   *)
(* whatever the syncer does meanwhile: every pass sends its snapshot       *)
(* exactly, and chunks in slot order are sent in slot order, once.         *)
(***************************************************************************)
EXTENDS Follow, FiniteSetTheorems, FunctionTheorems, SequenceTheorems,
        WellFoundedInduction, TLAPS

-----------------------------------------------------------------------------
(* Lowest and highest numbers.                                             *)

\* A set of natural numbers that is not empty has a least one.
LEMMA LeastIs ==
  ASSUME NEW T, T \subseteq Nat, T # {}
  PROVE  Least(T) \in T /\ \A n \in T : Least(T) =< n
<1> DEFINE R == OpToRel(<, Nat)
<1>1. PICK x \in T : \A y \in T : ~(<<y, x>> \in R)
  BY WFMin, NatLessThanWellFounded
<1>2. ASSUME NEW y \in T PROVE x =< y
  <2>1. x \in Nat /\ y \in Nat
    OBVIOUS
  <2>2. ~(y < x)
    BY <1>1, <2>1 DEF OpToRel
  <2> QED BY <2>1, <2>2
<1> QED BY <1>2 DEF Least

\* One that is finite has a greatest: the one with the fewest above it.
LEMMA GreatestIs ==
  ASSUME NEW T, T \subseteq Nat, T # {}, IsFiniteSet(T)
  PROVE  Greatest(T) \in T /\ \A n \in T : n =< Greatest(T)
<1> DEFINE Above(n) == {m \in T : m > n}
           S == {Cardinality(Above(n)) : n \in T}
<1>1. \A n \in T : IsFiniteSet(Above(n)) /\ Cardinality(Above(n)) \in Nat
  BY FS_Subset, FS_CardinalityType
<1>2. Least(S) \in S /\ \A n \in S : Least(S) =< n
  <2>1. S \subseteq Nat /\ S # {}
    BY <1>1
  <2> HIDE DEF S
  <2> QED BY <2>1, LeastIs
<1>3. PICK x \in T : Least(S) = Cardinality(Above(x))
  BY <1>2
<1>4. ASSUME NEW n \in T PROVE n =< x
  <2>0. n \in Nat /\ x \in Nat
    OBVIOUS
  <2> SUFFICES ASSUME n > x PROVE FALSE
    BY <2>0
  <2>1. Above(n) \subseteq Above(x) /\ n \in Above(x) /\ n \notin Above(n)
    <3>1. \A k \in T : k \in Nat /\ (k > n => k > x)
      BY <2>0
    <3>2. Above(n) \subseteq Above(x)
      BY <3>1
    <3>3. n \in Above(x)
      OBVIOUS
    <3>4. n \notin Above(n)
      BY <2>0
    <3> QED BY <3>2, <3>3, <3>4
  <2>2. Cardinality(Above(n)) < Cardinality(Above(x))
    <3> DEFINE X == Above(n)  Y == Above(x)
    <3>1. /\ X \in SUBSET Y /\ X # Y /\ IsFiniteSet(Y)
          /\ Cardinality(X) \in Nat /\ Cardinality(Y) \in Nat
      BY <1>1, <2>1
    <3> HIDE DEF X, Y
    <3>2. Cardinality(X) < Cardinality(Y)
      BY <3>1, FS_Subset
    <3> QED BY <3>2 DEF X, Y
  <2>3. Cardinality(Above(x)) =< Cardinality(Above(n))
    BY <1>2, <1>3
  <2>4. Cardinality(Above(x)) \in Nat /\ Cardinality(Above(n)) \in Nat
    BY <1>1
  <2> HIDE DEF Above
  <2> QED BY <2>2, <2>3, <2>4
<1> QED BY <1>4 DEF Greatest

-----------------------------------------------------------------------------
(* Chunks and their messages.                                              *)

\* The recording and the request's streams, which no step changes.
World == scenario \in Scenarios /\ content \in [Chunks -> scenario.shapes]

\* The slots of a chunk end where those of the next begin.
LEMMA ChunkArith ==
  /\ \A n \in Nat : /\ n * SlotsPerChunk \in Nat /\ (n + 1) * SlotsPerChunk \in Nat
                    /\ (n + 1) * SlotsPerChunk = n * SlotsPerChunk + SlotsPerChunk
  /\ \A n, k \in Nat : n < k => (n + 1) * SlotsPerChunk =< k * SlotsPerChunk
<1>0. SlotsPerChunk \in Nat
  BY FollowAssumption
<1>1. ASSUME NEW n \in Nat
      PROVE  /\ n * SlotsPerChunk \in Nat /\ (n + 1) * SlotsPerChunk \in Nat
             /\ (n + 1) * SlotsPerChunk = n * SlotsPerChunk + SlotsPerChunk
  BY <1>0
<1>2. ASSUME NEW n \in Nat, NEW k \in Nat, n < k
      PROVE  (n + 1) * SlotsPerChunk =< k * SlotsPerChunk
  <2> DEFINE d == k - (n + 1)
  <2>1. d \in Nat
    BY <1>2
  <2>2. d * SlotsPerChunk \in Nat
    <3> HIDE DEF d
    <3> QED BY <1>0, <2>1
  <2>3. k * SlotsPerChunk = (n + 1) * SlotsPerChunk + d * SlotsPerChunk
    BY <1>0
  <2> QED BY <1>0, <1>1, <2>2, <2>3
<1> QED BY <1>1, <1>2

\* The numbers of the chunks there are.
LEMMA IndicesNat ==
  ASSUME World
  PROVE  /\ Indices \subseteq Nat /\ IsFiniteSet(Indices)
         /\ Streams \subseteq Nat /\ IsFiniteSet(Streams) /\ Subscribed \subseteq Streams
         /\ \A c \in Chunks : content[c] \in Seq(0..(SlotsPerChunk - 1))
  BY FollowAssumption DEF World, Indices, Streams, Subscribed

\* Where a chunk starts and ends.
LEMMA ChunkBounds ==
  ASSUME World
  PROVE  /\ \A c \in Chunks : /\ Start(c) \in Nat /\ End(c) \in Nat /\ Start(c) < End(c)
                              /\ Start(c) \in AllSlots /\ End(c) \in AllSlots
                              /\ \A n \in Nat : n =< End(c) => n \in AllSlots
         /\ \A c, d \in Chunks : c[2] < d[2] => End(c) =< Start(d)
<1>1. ASSUME NEW c \in Chunks
      PROVE  /\ Start(c) \in Nat /\ End(c) \in Nat /\ Start(c) < End(c)
             /\ Start(c) \in AllSlots /\ End(c) \in AllSlots
             /\ \A n \in Nat : n =< End(c) => n \in AllSlots
  <2>1. c[2] \in Indices /\ c[2] \in Nat
    BY IndicesNat DEF Chunks
  <2>2. Start(c) \in Nat /\ End(c) \in Nat /\ End(c) = Start(c) + SlotsPerChunk
    BY <2>1, ChunkArith DEF Start, End
  <2> DEFINE g == Greatest(Indices)
  <2>3. g \in Nat /\ c[2] =< g
    BY <2>1, IndicesNat, GreatestIs
  <2>4. (g + 1) * SlotsPerChunk \in Nat /\ End(c) =< (g + 1) * SlotsPerChunk
    <3> HIDE DEF g
    <3>1. c[2] < g + 1 /\ g + 1 \in Nat
      BY <2>1, <2>3
    <3> QED BY <2>1, <3>1, ChunkArith DEF End
  <2> QED BY <2>2, <2>4, FollowAssumption DEF AllSlots
<1>2. ASSUME NEW c \in Chunks, NEW d \in Chunks, c[2] < d[2]
      PROVE  End(c) =< Start(d)
  BY <1>2, IndicesNat, ChunkArith DEF Chunks, Start, End
<1> QED BY <1>1, <1>2

\* A message tells its chunk, its place in it and its slot.
LEMMA MsgFacts ==
  ASSUME World, NEW c \in Chunks, NEW m \in MsgsOf(c)
  PROVE  /\ m.chunk = c /\ m.ord \in 1..Len(content[c]) /\ m = Msgs(c)[m.ord]
         /\ content[c][m.ord] \in Nat /\ m.slot = Start(c) + content[c][m.ord]
         /\ m.slot \in Nat /\ Start(c) =< m.slot /\ m.slot < End(c)
         /\ m.slot + 1 \in AllSlots /\ m \in Message
<1>1. PICK i \in 1..Len(content[c]) : m = Msgs(c)[i]
  BY DEF MsgsOf
<1>2. m = [chunk |-> c, ord |-> i, slot |-> Start(c) + content[c][i]]
  BY <1>1 DEF Msgs
<1>3. content[c][i] \in 0..(SlotsPerChunk - 1) /\ Len(content[c]) \in Nat
  <2>1. content[c] \in Seq(0..(SlotsPerChunk - 1))
    BY IndicesNat
  <2> DEFINE D == 0..(SlotsPerChunk - 1)
  <2> HIDE DEF D
  <2>2. content[c] \in Seq(D)
    BY <2>1 DEF D
  <2>3. content[c][i] \in D /\ Len(content[c]) \in Nat
    BY <2>2
  <2> QED BY <2>3 DEF D
<1>4. /\ Start(c) \in Nat /\ End(c) = Start(c) + SlotsPerChunk
      /\ \A n \in Nat : n =< End(c) => n \in AllSlots
      /\ SlotsPerChunk \in Nat
  <2>1. c[2] \in Nat
    BY IndicesNat DEF Chunks
  <2> QED BY <2>1, ChunkBounds, ChunkArith, FollowAssumption DEF Start, End
<1>5. m.chunk = c /\ m.ord = i /\ m.slot = Start(c) + content[c][i]
  BY <1>2
<1>6. m.slot \in Nat /\ Start(c) =< m.slot /\ m.slot < End(c)
  BY <1>3, <1>4, <1>5
<1>7. m.slot + 1 \in AllSlots /\ m.slot \in AllSlots
  BY <1>4, <1>6
<1>8. m \in Message
  BY <1>2, <1>3, <1>5, <1>7 DEF Message
<1> QED BY <1>1, <1>3, <1>5, <1>6, <1>7, <1>8

\* A chunk's messages are a sequence of as many, each with its number.
LEMMA MsgsIs ==
  ASSUME World, NEW c \in Chunks
  PROVE  /\ Msgs(c) \in Seq(Message) /\ Len(Msgs(c)) = Len(content[c]) /\ Len(content[c]) \in Nat
         /\ \A i \in 1..Len(content[c]) : Msgs(c)[i] \in MsgsOf(c) /\ Msgs(c)[i].ord = i
         /\ MsgsOf(c) = {Msgs(c)[i] : i \in 1..Len(Msgs(c))}
<1>1. content[c] \in Seq(0..(SlotsPerChunk - 1))
  BY IndicesNat
<1>2. Len(content[c]) \in Nat
  BY <1>1, LenProperties
<1>3. \A i \in 1..Len(content[c]) : Msgs(c)[i] \in MsgsOf(c) /\ Msgs(c)[i].ord = i
  BY DEF MsgsOf, Msgs
<1>4. \A i \in 1..Len(content[c]) : Msgs(c)[i] \in Message
  BY <1>3, MsgFacts
<1>5. Msgs(c) = [i \in 1..Len(content[c]) |-> Msgs(c)[i]]
  BY DEF Msgs
<1>6. Msgs(c) \in Seq(Message) /\ Len(Msgs(c)) = Len(content[c])
  BY <1>2, <1>4, <1>5, IsASeq, LenProperties
<1> QED BY <1>2, <1>3, <1>6 DEF MsgsOf

-----------------------------------------------------------------------------
(* The cursors of a pass.                                                  *)

\* The chunks cursor s has still to open after peek.
Rest(s) == IF Opening(s) THEN todo[s] \ {Least(todo[s])} ELSE todo[s]

\* Peeking opens the next chunk where the last one is used up, and changes
\* neither what is ahead nor its order.
LEMMA PeekInv ==
  ASSUME TypeOK, CursorInv, NEW s \in Streams
  PROVE  /\ Peek(s) \in Seq(Message) /\ Rest(s) \subseteq Indices
         /\ \A n \in Rest(s) : content[<<s, n>>] # << >>
         /\ \A i \in 1..Len(Peek(s)) :
              /\ Peek(s)[i].chunk \in Chunks /\ Peek(s)[i].chunk[1] = s
              /\ Peek(s)[i] \in MsgsOf(Peek(s)[i].chunk)
              /\ \A n \in Rest(s) : Peek(s)[i].chunk[2] < n
              /\ \A j \in 1..Len(Peek(s)) : i < j =>
                   Peek(s)[i].chunk = Peek(s)[j].chunk /\ Peek(s)[i].ord < Peek(s)[j].ord
         /\ InBuf(s) \cup Unopened(s)
              = {Peek(s)[i] : i \in 1..Len(Peek(s))} \cup UNION {MsgsOf(<<s, n>>) : n \in Rest(s)}
<1>0. World /\ buf[s] \in Seq(Message) /\ todo[s] \subseteq Indices /\ Indices \subseteq Nat
  BY IndicesNat DEF TypeOK, World
<1>1. CASE Opening(s)
  <2> DEFINE n0 == Least(todo[s])
             c == <<s, n0>>
  <2>1. n0 \in todo[s] /\ \A n \in todo[s] : n0 =< n
    BY <1>0, <1>1, LeastIs DEF Opening
  <2>2. c \in Chunks /\ Peek(s) = Msgs(c) /\ Rest(s) = todo[s] \ {n0}
    BY <1>0, <1>1, <2>1 DEF Chunks, Peek, Rest
  <2>3. \A n \in Rest(s) : n0 < n
    <3>1. \A n \in todo[s] : n \in Nat
      BY <1>0
    <3> QED BY <2>1, <2>2, <3>1
  <2>4. InBuf(s) = {}
    BY <1>1 DEF Opening, InBuf
  <2>5. Unopened(s) = MsgsOf(c) \cup UNION {MsgsOf(<<s, n>>) : n \in Rest(s)}
    BY <2>1, <2>2 DEF Unopened
  <2>6. /\ Msgs(c) \in Seq(Message) /\ Len(Msgs(c)) = Len(content[c]) /\ Len(content[c]) \in Nat
        /\ \A i \in 1..Len(content[c]) : Msgs(c)[i] \in MsgsOf(c) /\ Msgs(c)[i].ord = i
        /\ MsgsOf(c) = {Msgs(c)[i] : i \in 1..Len(Msgs(c))}
    BY <1>0, <2>2, MsgsIs
  <2>7. \A i \in 1..Len(Msgs(c)) : Msgs(c)[i].chunk = c
    BY <1>0, <2>2, <2>6, MsgFacts
  <2>8. c[1] = s /\ c[2] = n0
    OBVIOUS
  <2> HIDE DEF n0, c
  <2>9. \A i \in 1..Len(Peek(s)) :
          /\ Peek(s)[i].chunk \in Chunks /\ Peek(s)[i].chunk[1] = s
          /\ Peek(s)[i] \in MsgsOf(Peek(s)[i].chunk)
          /\ \A n \in Rest(s) : Peek(s)[i].chunk[2] < n
          /\ \A j \in 1..Len(Peek(s)) : i < j =>
               Peek(s)[i].chunk = Peek(s)[j].chunk /\ Peek(s)[i].ord < Peek(s)[j].ord
    BY <2>2, <2>3, <2>6, <2>7, <2>8
  <2>10. \A n \in Rest(s) : content[<<s, n>>] # << >>
    BY <2>2 DEF CursorInv
  <2> QED BY <1>0, <2>2, <2>4, <2>5, <2>6, <2>9, <2>10
<1>2. CASE ~Opening(s)
  <2>1. Peek(s) = buf[s] /\ Rest(s) = todo[s]
    BY <1>2 DEF Peek, Rest
  <2>2. \A i \in 1..Len(buf[s]) : buf[s][i].chunk \in Chunks
    <3> SUFFICES ASSUME NEW i \in 1..Len(buf[s]) PROVE buf[s][i].chunk \in Chunks
      OBVIOUS
    <3>1. buf[s][i] \in Message
      BY <1>0
    <3> QED BY <3>1 DEF Message
  <2> QED BY <1>0, <2>1, <2>2 DEF CursorInv, InBuf, Unopened
<1> QED BY <1>1, <1>2

\* A cursor offers a message unless it is used up.
LEMMA OfferingIs ==
  ASSUME TypeOK, CursorInv, NEW s \in Streams
  PROVE  /\ s \in Offering <=> Peek(s) # << >>
         /\ s \in Offering => NextSlot(s) = Peek(s)[1].slot /\ NextSlot(s) \in Nat
         /\ s \notin Offering => InBuf(s) \cup Unopened(s) = {} /\ Rest(s) = {}
<1>0. World /\ buf[s] \in Seq(Message) /\ todo[s] \subseteq Indices /\ Indices \subseteq Nat
  BY IndicesNat DEF TypeOK, World
<1>1. CASE Opening(s)
  <2> DEFINE n0 == Least(todo[s])
             c == <<s, n0>>
  <2>1. n0 \in todo[s]
    BY <1>0, <1>1, LeastIs DEF Opening
  <2>2. c \in Chunks /\ Peek(s) = Msgs(c) /\ content[c] # << >>
    BY <1>0, <1>1, <2>1 DEF Chunks, Peek, CursorInv
  <2>3. NextSlot(s) = Start(c) + Head(content[c])
    BY <1>1 DEF NextSlot
  <2> HIDE DEF n0, c
  <2>4. /\ Len(Msgs(c)) = Len(content[c]) /\ Len(content[c]) \in Nat
        /\ Msgs(c) \in Seq(Message) /\ content[c] \in Seq(0..(SlotsPerChunk - 1))
    BY <1>0, <2>2, MsgsIs, IndicesNat
  <2>5. Len(content[c]) # 0 /\ Head(content[c]) = content[c][1]
    BY <2>2, <2>4, LenProperties, EmptySeq, HeadTailProperties
  <2>6. 1 \in 1..Len(content[c]) /\ Msgs(c) # << >>
    BY <2>4, <2>5, EmptySeq
  <2>7. Msgs(c)[1].slot = Start(c) + content[c][1] /\ Msgs(c)[1] \in MsgsOf(c)
    BY <2>6 DEF Msgs, MsgsOf
  <2>8. Msgs(c)[1].slot \in Nat
    BY <1>0, <2>2, <2>7, MsgFacts
  <2>9. s \in Offering
    BY <1>1 DEF Offering
  <2> QED BY <2>2, <2>3, <2>5, <2>6, <2>7, <2>8, <2>9
<1>2. CASE ~Opening(s)
  <2>1. Peek(s) = buf[s] /\ Rest(s) = todo[s] /\ (s \in Offering <=> buf[s] # << >>)
    BY <1>2 DEF Peek, Rest, Offering
  <2>2. ASSUME buf[s] # << >>
        PROVE  NextSlot(s) = buf[s][1].slot /\ NextSlot(s) \in Nat
    <3>1. 1 \in 1..Len(buf[s]) /\ NextSlot(s) = buf[s][1].slot
      BY <1>0, <1>2, <2>2 DEF NextSlot
    <3>2. buf[s][1] \in MsgsOf(buf[s][1].chunk) /\ buf[s][1].chunk \in Chunks
      BY <2>1, <3>1, PeekInv
    <3> QED BY <1>0, <3>1, <3>2, MsgFacts
  <2>3. ASSUME buf[s] = << >>
        PROVE  InBuf(s) \cup Unopened(s) = {} /\ todo[s] = {}
    <3>1. todo[s] = {}
      BY <1>2, <2>3 DEF Opening
    <3>2. InBuf(s) = {}
      BY <2>3 DEF InBuf
    <3>3. Unopened(s) = {}
      BY <3>1 DEF Unopened
    <3> QED BY <3>1, <3>2, <3>3
  <2> QED BY <2>1, <2>2, <2>3
<1> QED BY <1>1, <1>2

\* The merge takes a message with the lowest slot on offer.
LEMMA WinnerIs ==
  ASSUME TypeOK, CursorInv, Offering # {}
  PROVE  /\ Winner \in Offering /\ Winner \in Streams
         /\ \A t \in Offering : NextSlot(Winner) =< NextSlot(t)
<1>0. Offering \subseteq Streams /\ Streams \subseteq Nat /\ \A s \in Offering : NextSlot(s) \in Nat
  BY OfferingIs, IndicesNat DEF Offering, TypeOK, World
<1> DEFINE T == {NextSlot(s) : s \in Offering}
           S == {s \in Offering : NextSlot(s) = Least(T)}
<1>1. Least(T) \in T /\ \A n \in T : Least(T) =< n
  <2>1. T \subseteq Nat /\ T # {}
    BY <1>0
  <2> HIDE DEF T
  <2> QED BY <2>1, LeastIs
<1>2. Least(S) \in S /\ \A n \in S : Least(S) =< n
  <2>1. S \subseteq Nat /\ S # {}
    BY <1>0, <1>1
  <2> HIDE DEF S
  <2> QED BY <2>1, LeastIs
<1>3. Least(S) \in Offering /\ NextSlot(Least(S)) = Least(T)
  BY <1>2
<1>4. ASSUME NEW t \in Offering
      PROVE  \/ NextSlot(Least(S)) < NextSlot(t)
             \/ NextSlot(Least(S)) = NextSlot(t) /\ Least(S) =< t
  <2>1. NextSlot(t) \in T /\ Least(T) =< NextSlot(t) /\ Least(T) \in Nat /\ NextSlot(t) \in Nat
    BY <1>0, <1>1, <1>3
  <2>2. NextSlot(t) = Least(T) => t \in S
    OBVIOUS
  <2> QED BY <1>2, <1>3, <2>1, <2>2
<1> HIDE DEF S, T
<1>5. \A t \in Offering : \/ NextSlot(Winner) < NextSlot(t)
                          \/ NextSlot(Winner) = NextSlot(t) /\ Winner =< t
  BY <1>3, <1>4, Zenon DEF Winner
<1>6. Winner \in Offering
  BY <1>3, <1>4, Zenon DEF Winner
<1> QED BY <1>0, <1>5, <1>6

\* The message a round takes.
Taken == Peek(Winner)[1]

\* It is of the winner's stream, and none ahead is before it in slot order.
LEMMA TakenIsFirst ==
  ASSUME TypeOK, CursorInv, Offering # {}
  PROVE  /\ Peek(Winner) # << >> /\ Taken = Head(Peek(Winner)) /\ Taken \in Ahead
         /\ Taken.chunk \in Chunks /\ Taken.chunk[1] = Winner /\ Taken \in MsgsOf(Taken.chunk)
         /\ Taken \in Message /\ Taken.slot \in Nat /\ Taken.slot + 1 \in AllSlots
         /\ InSlotOrder => \A m \in Ahead : Taken.slot =< m.slot
<1>0. World
  BY DEF TypeOK, World
<1>1. /\ Winner \in Offering /\ Winner \in Streams
      /\ \A t \in Offering : NextSlot(Winner) =< NextSlot(t)
  BY WinnerIs
<1>2. Peek(Winner) # << >> /\ Peek(Winner) \in Seq(Message) /\ NextSlot(Winner) = Taken.slot
  BY <1>1, OfferingIs, PeekInv DEF Taken
<1>3. 1 \in 1..Len(Peek(Winner)) /\ Taken = Head(Peek(Winner))
  BY <1>2 DEF Taken
<1>4. Taken.chunk \in Chunks /\ Taken.chunk[1] = Winner /\ Taken \in MsgsOf(Taken.chunk)
  BY <1>1, <1>3, PeekInv DEF Taken
<1>5. Taken \in Message /\ Taken.slot \in Nat /\ Taken.slot + 1 \in AllSlots
  BY <1>0, <1>4, MsgFacts
<1>6. Taken \in Ahead
  <2>1. Taken \in {Peek(Winner)[i] : i \in 1..Len(Peek(Winner))}
    BY <1>3 DEF Taken
  <2>2. Taken \in InBuf(Winner) \cup Unopened(Winner)
    BY <1>1, <2>1, PeekInv
  <2> QED BY <1>1, <2>2 DEF Ahead
<1>7. ASSUME InSlotOrder, NEW m \in Ahead PROVE Taken.slot =< m.slot
  <2>1. PICK t \in Streams : m \in InBuf(t) \cup Unopened(t)
    BY DEF Ahead
  <2>2. t \in Offering /\ Peek(t) # << >> /\ NextSlot(t) = Peek(t)[1].slot /\ NextSlot(t) \in Nat
    BY <2>1, OfferingIs
  <2>3. 1 \in 1..Len(Peek(t))
    BY <2>2, PeekInv
  <2> DEFINE h == Peek(t)[1]
             c == h.chunk
  <2>4. c \in Chunks /\ c[1] = t /\ h \in MsgsOf(c) /\ \A n \in Rest(t) : c[2] < n
    BY <2>3, PeekInv
  <2>5. h.slot =< m.slot
    <3>1. CASE m \in {Peek(t)[i] : i \in 1..Len(Peek(t))}
      <4>1. PICK i \in 1..Len(Peek(t)) : m = Peek(t)[i]
        BY <3>1
      <4>2. CASE i = 1
        BY <2>2, <4>1, <4>2
      <4>3. CASE i # 1
        <5>1. 1 < i /\ i \in 1..Len(Peek(t))
          BY <4>3
        <5>2. h.chunk = m.chunk /\ h.ord < m.ord /\ m \in MsgsOf(m.chunk)
          BY <2>3, <4>1, <5>1, PeekInv
        <5> HIDE DEF h
        <5>3. /\ h.ord \in 1..Len(content[c]) /\ h.slot = Start(c) + content[c][h.ord]
              /\ m.ord \in 1..Len(content[c]) /\ m.slot = Start(c) + content[c][m.ord]
              /\ content[c][h.ord] \in Nat /\ content[c][m.ord] \in Nat
          BY <1>0, <2>4, <5>2, MsgFacts
        <5>4. content[c][h.ord] =< content[c][m.ord]
          BY <1>7, <2>4, <5>2, <5>3 DEF InSlotOrder
        <5>5. Start(c) \in Nat
          BY <1>0, <2>4, ChunkBounds
        <5> QED BY <5>3, <5>4, <5>5
      <4> QED BY <4>2, <4>3
    <3>2. CASE m \in UNION {MsgsOf(<<t, n>>) : n \in Rest(t)}
      <4>1. PICK n \in Rest(t) : m \in MsgsOf(<<t, n>>)
        BY <3>2
      <4> DEFINE d == <<t, n>>
      <4>2. d \in Chunks /\ c[2] < d[2]
        BY <2>4, <4>1, PeekInv DEF Chunks
      <4> HIDE DEF d, h
      <4>3. m \in MsgsOf(d)
        BY <4>1 DEF d
      <4>4. End(c) =< Start(d) /\ End(c) \in Nat /\ Start(d) \in Nat
        BY <1>0, <2>4, <4>2, ChunkBounds
      <4>5. h.slot < End(c) /\ h.slot \in Nat
        BY <1>0, <2>4, MsgFacts
      <4>6. Start(d) =< m.slot /\ m.slot \in Nat
        BY <1>0, <4>2, <4>3, MsgFacts
      <4> QED BY <4>4, <4>5, <4>6
    <3> QED BY <2>1, <3>1, <3>2, PeekInv
  <2>6. m.slot \in Nat
    <3>1. CASE m \in {Peek(t)[i] : i \in 1..Len(Peek(t))}
      BY <1>0, <3>1, PeekInv, MsgFacts
    <3>2. CASE m \in UNION {MsgsOf(<<t, n>>) : n \in Rest(t)}
      <4>1. PICK n \in Rest(t) : m \in MsgsOf(<<t, n>>)
        BY <3>2
      <4>2. <<t, n>> \in Chunks
        BY PeekInv DEF Chunks
      <4> QED BY <1>0, <4>1, <4>2, MsgFacts
    <3> QED BY <2>1, <3>1, <3>2, PeekInv
  <2> QED BY <1>1, <1>2, <1>5, <2>2, <2>5, <2>6
<1> QED BY <1>2, <1>3, <1>4, <1>5, <1>6, <1>7

\* A round peeks every cursor and takes one message from the winner's.
LEMMA RoundShape ==
  ASSUME TypeOK, CursorInv, Round
  PROVE  /\ buf' \in [Streams -> Seq(Message)] /\ todo' \in [Streams -> SUBSET Indices]
         /\ \A s \in Streams : todo'[s] = Rest(s) /\ (s # Winner => buf'[s] = Peek(s))
         /\ buf'[Winner] = Tail(Peek(Winner)) /\ Offering # {}
         /\ UNCHANGED <<scenario, content>>
<1>1. Offering # {} /\ UNCHANGED <<scenario, content>>
  BY DEF Round, syncVars
<1>2. Winner \in Streams /\ Peek(Winner) # << >>
  BY <1>1, WinnerIs, TakenIsFirst
<1>3. \A s \in Streams : Peek(s) \in Seq(Message) /\ Rest(s) \subseteq Indices
  BY PeekInv
<1>4. Tail(Peek(Winner)) \in Seq(Message)
  BY <1>2, <1>3
<1>5. buf' = [s \in Streams |-> IF s = Winner THEN Tail(Peek(s)) ELSE Peek(s)]
  BY DEF Round
<1>6. todo' = [s \in Streams |-> Rest(s)]
  BY DEF Round, Rest
<1>7. /\ buf' \in [Streams -> Seq(Message)] /\ buf'[Winner] = Tail(Peek(Winner))
      /\ \A s \in Streams : s # Winner => buf'[s] = Peek(s)
  BY <1>2, <1>3, <1>4, <1>5
<1>8. todo' \in [Streams -> SUBSET Indices] /\ \A s \in Streams : todo'[s] = Rest(s)
  BY <1>3, <1>6
<1> QED BY <1>1, <1>7, <1>8

\* The cursors stay in order, and one message is taken off what is ahead.
LEMMA RoundCursors ==
  ASSUME TypeOK, CursorInv, Round
  PROVE  CursorInv' /\ Ahead' = Ahead \ {Taken}
<1> DEFINE P(s) == {Peek(s)[i] : i \in 1..Len(Peek(s))}
           U(s) == UNION {MsgsOf(<<s, n>>) : n \in Rest(s)}
<1>0. World
  BY DEF TypeOK, World
<1>w. PICK w \in Streams : w = Winner
  BY RoundShape, WinnerIs
<1>1. /\ \A s \in Streams : todo'[s] = Rest(s) /\ (s # w => buf'[s] = Peek(s))
      /\ buf'[w] = Tail(Peek(w)) /\ UNCHANGED <<scenario, content>>
      /\ w \in Streams /\ Offering # {}
  BY <1>w, RoundShape
<1>2. Streams' = Streams /\ \A c : MsgsOf(c)' = MsgsOf(c)
  BY <1>1 DEF Streams, MsgsOf, Msgs, Start
<1>3. Peek(w) # << >> /\ Taken = Peek(w)[1] /\ Peek(w) \in Seq(Message)
  BY <1>w, <1>1, TakenIsFirst, PeekInv DEF Taken
<1>4. /\ Len(Tail(Peek(w))) = Len(Peek(w)) - 1 /\ Len(Peek(w)) \in Nat /\ Len(Peek(w)) > 0
      /\ \A i \in 1..Len(Tail(Peek(w))) : Tail(Peek(w))[i] = Peek(w)[i + 1]
  BY <1>3, HeadTailProperties
<1>5. CursorInv'
  <2> SUFFICES ASSUME NEW s \in Streams
               PROVE  /\ \A n \in todo'[s] : content[<<s, n>>] # << >>
                      /\ \A i \in 1..Len(buf'[s]) :
                           /\ buf'[s][i].chunk[1] = s /\ buf'[s][i] \in MsgsOf(buf'[s][i].chunk)
                           /\ \A n \in todo'[s] : buf'[s][i].chunk[2] < n
                           /\ \A j \in 1..Len(buf'[s]) : i < j =>
                                /\ buf'[s][i].chunk = buf'[s][j].chunk
                                /\ buf'[s][i].ord < buf'[s][j].ord
    BY <1>1, <1>2 DEF CursorInv
  <2>1. CASE s # w
    <3>1. buf'[s] = Peek(s) /\ todo'[s] = Rest(s)
      BY <1>1, <2>1
    <3>2. \A n \in Rest(s) : content[<<s, n>>] # << >>
      BY PeekInv
    <3>3. \A i \in 1..Len(Peek(s)) :
            /\ Peek(s)[i].chunk[1] = s /\ Peek(s)[i] \in MsgsOf(Peek(s)[i].chunk)
            /\ \A n \in Rest(s) : Peek(s)[i].chunk[2] < n
            /\ \A j \in 1..Len(Peek(s)) : i < j =>
                 Peek(s)[i].chunk = Peek(s)[j].chunk /\ Peek(s)[i].ord < Peek(s)[j].ord
      BY PeekInv
    <3> QED BY <3>1, <3>2, <3>3
  <2>2. CASE s = w
    <3>1. \A i \in 1..Len(buf'[w]) : i + 1 \in 1..Len(Peek(w)) /\ buf'[w][i] = Peek(w)[i + 1]
      BY <1>1, <1>4
    <3>2. \A i, j \in 1..Len(buf'[w]) : i < j => i + 1 < j + 1
      OBVIOUS
    <3>3. todo'[w] = Rest(w)
      BY <1>1
    <3>4. \A i \in 1..Len(buf'[w]) :
            /\ buf'[w][i].chunk[1] = w /\ buf'[w][i] \in MsgsOf(buf'[w][i].chunk)
            /\ \A n \in todo'[w] : buf'[w][i].chunk[2] < n
      <4> SUFFICES ASSUME NEW i \in 1..Len(buf'[w])
                   PROVE  /\ buf'[w][i].chunk[1] = w /\ buf'[w][i] \in MsgsOf(buf'[w][i].chunk)
                          /\ \A n \in todo'[w] : buf'[w][i].chunk[2] < n
        OBVIOUS
      <4> DEFINE m == Peek(w)[i + 1]
      <4>1. buf'[w][i] = m
        BY <3>1
      <4>2. m.chunk[1] = w /\ m \in MsgsOf(m.chunk) /\ \A n \in Rest(w) : m.chunk[2] < n
        BY <3>1, PeekInv
      <4> HIDE DEF m
      <4> QED BY <3>3, <4>1, <4>2
    <3>5. ASSUME NEW i \in 1..Len(buf'[w]), NEW j \in 1..Len(buf'[w]), i < j
          PROVE  buf'[w][i].chunk = buf'[w][j].chunk /\ buf'[w][i].ord < buf'[w][j].ord
      <4>1. /\ i + 1 \in 1..Len(Peek(w)) /\ j + 1 \in 1..Len(Peek(w)) /\ i + 1 < j + 1
            /\ buf'[w][i] = Peek(w)[i + 1] /\ buf'[w][j] = Peek(w)[j + 1]
        BY <3>1, <3>2, <3>5
      <4> QED BY <4>1, PeekInv
    <3>6. \A n \in todo'[w] : content[<<w, n>>] # << >>
      BY <3>3, PeekInv
    <3> QED BY <2>2, <3>4, <3>5, <3>6
  <2> QED BY <2>1, <2>2
<1>6. \A s \in Streams : InBuf(s) \cup Unopened(s) = P(s) \cup U(s)
  BY PeekInv
<1>7. \A s \in Streams : Unopened(s)' = U(s)
  BY <1>1, <1>2 DEF Unopened
<1>8. \A s \in Streams : s # w => InBuf(s)' = P(s)
  BY <1>1 DEF InBuf
<1>9. InBuf(w)' = P(w) \ {Taken}
  <2>1. \A i \in 1..Len(Tail(Peek(w))) : buf'[w][i] \in P(w) \ {Taken}
    <3> SUFFICES ASSUME NEW i \in 1..Len(Tail(Peek(w))) PROVE buf'[w][i] \in P(w) \ {Taken}
      OBVIOUS
    <3>1. i + 1 \in 1..Len(Peek(w)) /\ 1 \in 1..Len(Peek(w)) /\ 1 < i + 1
      BY <1>4
    <3>2. buf'[w][i] = Peek(w)[i + 1]
      BY <1>1, <1>4
    <3>3. Peek(w)[1].ord < Peek(w)[i + 1].ord
      BY <1>1, <3>1, PeekInv
    <3>4. Taken.ord \in Nat
      BY <1>1, <1>0, TakenIsFirst, MsgFacts
    <3>5. Peek(w)[i + 1] # Taken
      BY <1>3, <3>3, <3>4
    <3> QED BY <3>1, <3>2, <3>5
  <2>2. ASSUME NEW m \in P(w), m # Taken PROVE \E i \in 1..Len(buf'[w]) : m = buf'[w][i]
    <3>1. PICK k \in 1..Len(Peek(w)) : m = Peek(w)[k]
      OBVIOUS
    <3>2. k # 1 /\ k \in Nat
      BY <1>3, <2>2, <3>1
    <3>3. k - 1 \in 1..Len(Tail(Peek(w))) /\ (k - 1) + 1 = k
      BY <1>4, <3>2
    <3>4. Tail(Peek(w))[k - 1] = Peek(w)[(k - 1) + 1]
      BY <1>4, <3>3
    <3> QED BY <1>1, <3>1, <3>3, <3>4
  <2>3. InBuf(w)' = {buf'[w][i] : i \in 1..Len(buf'[w])} /\ buf'[w] = Tail(Peek(w))
    BY <1>1 DEF InBuf
  <2> HIDE DEF P
  <2> QED BY <2>1, <2>2, <2>3
<1>10. \A s \in Streams : (s # w => Taken \notin P(s)) /\ Taken \notin U(s)
  <2> SUFFICES ASSUME NEW s \in Streams PROVE (s # w => Taken \notin P(s)) /\ Taken \notin U(s)
    OBVIOUS
  <2>0. /\ Taken.chunk \in Chunks /\ Taken.chunk[1] = w /\ Taken \in MsgsOf(Taken.chunk)
        /\ 1 \in 1..Len(Peek(w))
    BY <1>w, <1>1, <1>4, TakenIsFirst
  <2>1. s # w => Taken \notin P(s)
    <3>1. \A m \in P(s) : m.chunk[1] = s
      BY PeekInv
    <3> QED BY <2>0, <3>1
  <2>2. Taken \notin U(s)
    <3> SUFFICES ASSUME NEW n \in Rest(s), Taken \in MsgsOf(<<s, n>>) PROVE FALSE
      OBVIOUS
    <3>1. <<s, n>> \in Chunks /\ n \in Nat
      BY <1>0, PeekInv, IndicesNat DEF Chunks
    <3>2. Taken.chunk = <<s, n>>
      BY <1>0, <3>1, MsgFacts
    <3>3. s = w /\ Taken.chunk[2] = n
      BY <2>0, <3>2
    <3>4. Taken.chunk[2] < n
      BY <1>1, <1>3, <2>0, <3>3, PeekInv
    <3> QED BY <3>1, <3>3, <3>4
  <2> QED BY <2>1, <2>2
<1>11. Ahead' = Ahead \ {Taken}
  <2>1. Ahead = UNION {P(s) \cup U(s) : s \in Streams}
    <3>1. \A x : x \in Ahead <=> \E s \in Streams : x \in InBuf(s) \cup Unopened(s)
      BY DEF Ahead
    <3> HIDE DEF P, U
    <3> QED BY <1>6, <3>1
  <2>2. \A x : x \in Ahead' <=> \E s \in Streams : x \in InBuf(s)' \cup Unopened(s)'
    BY <1>2 DEF Ahead
  <2> HIDE DEF P, U
  <2> QED BY <1>7, <1>8, <1>9, <1>10, <2>1, <2>2
<1> QED BY <1>5, <1>11

-----------------------------------------------------------------------------
(* The invariant.                                                          *)

\* The slots of a recording are numbers as soon as it has a chunk.
LEMMA AllSlotsNat ==
  ASSUME World, Chunks # {}
  PROVE  AllSlots \subseteq Nat /\ IsFiniteSet(AllSlots)
<1> DEFINE g == (Greatest(Indices) + 1) * SlotsPerChunk
<1>1. Indices # {}
  BY DEF Chunks
<1>2. Greatest(Indices) \in Nat
  BY <1>1, IndicesNat, GreatestIs
<1>3. g \in Nat
  BY <1>2, ChunkArith
<1>4. AllSlots = 0..g
  BY DEF AllSlots
<1> HIDE DEF g
<1>5. IsFiniteSet(0..g)
  BY <1>3, FS_Interval
<1> QED BY <1>3, <1>4, <1>5

\* So are the slots a pass keeps.
LEMMA SlotsInt ==
  ASSUME TypeOK, Chunks # {}
  PROVE  from \in Int /\ lastSlot \in Int /\ floor \in Int
<1>1. AllSlots \subseteq Nat
  BY AllSlotsNat DEF TypeOK, World
<1>2. FromSlots \subseteq Nat /\ NoSlot \in Int
  BY FollowAssumption DEF NoSlot
<1>3. \A n \in AllSlots \cup FromSlots \cup {NoSlot} : n \in Int
  BY <1>1, <1>2
<1>4. /\ from \in AllSlots \cup FromSlots \cup {NoSlot}
      /\ lastSlot \in AllSlots \cup FromSlots \cup {NoSlot}
      /\ floor \in AllSlots \cup FromSlots \cup {NoSlot}
  BY DEF TypeOK
<1> QED BY <1>3, <1>4

\* What has been sent, after one more message.
LEMMA SentAppend ==
  ASSUME delivered \in Seq(Message), NEW m \in Message, NEW k \in 0..Len(delivered),
         delivered' = Append(delivered, m)
  PROVE  /\ delivered' \in Seq(Message) /\ Len(delivered') = Len(delivered) + 1
         /\ \A i \in 1..Len(delivered) : delivered'[i] = delivered[i]
         /\ delivered'[Len(delivered) + 1] = m
         /\ {delivered'[i] : i \in (k + 1)..Len(delivered')}
              = Sent(k + 1, Len(delivered)) \cup {m}
<1>1. /\ delivered' \in Seq(Message) /\ Len(delivered') = Len(delivered) + 1
      /\ \A i \in 1..Len(delivered) : delivered'[i] = delivered[i]
      /\ delivered'[Len(delivered) + 1] = m /\ Len(delivered) \in Nat
  BY AppendProperties
<1>2. (k + 1)..Len(delivered') = ((k + 1)..Len(delivered)) \cup {Len(delivered) + 1}
  BY <1>1
<1>3. \A i \in (k + 1)..Len(delivered) : delivered'[i] = delivered[i]
  BY <1>1
<1> QED BY <1>1, <1>2, <1>3 DEF Sent

\* The initial state satisfies the invariant.
LEMMA InitInd == Init => IndInv
<1> SUFFICES ASSUME Init PROVE IndInv
  OBVIOUS
<1>0. delivered = << >> /\ << >> \in Seq(Message) /\ Len(delivered) = 0 /\ Len(<< >>) = 0
  BY EmptySeq DEF Init
<1>1. TypeOK
  <2>1. todo \in [Streams -> SUBSET Indices] /\ buf \in [Streams -> Seq(Message)]
    BY <1>0 DEF Init
  <2> QED BY <1>0, <2>1 DEF Init, TypeOK
<1>2. CursorInv
  BY <1>0 DEF Init, CursorInv
<1>3. ResumeInv /\ PassInv
  BY DEF Init, ResumeInv, PassInv
<1>4. OrderInv
  BY <1>0 DEF Init, OrderInv
<1> QED BY <1>1, <1>2, <1>3, <1>4 DEF IndInv

\* Steps that leave the cursors and what was sent alone.
LEMMA Frame ==
  ASSUME IndInv,
         UNCHANGED <<scenario, content, lastSlot, from, todo, buf, passLast, mark, wanted, delivered>>,
         pc' = "drive" => pc = "drive",
         pc' \in {"new", "plan", "wait"} => pc \in {"new", "plan", "wait"}
  PROVE  CursorInv' /\ ResumeInv' /\ PassInv' /\ OrderInv'
<1>1. /\ Streams' = Streams /\ Chunks' = Chunks /\ AllSlots' = AllSlots
      /\ \A c : MsgsOf(c)' = MsgsOf(c)
  BY DEF Streams, Chunks, Indices, AllSlots, MsgsOf, Msgs, Start
<1>2. InSlotOrder' = InSlotOrder
  BY <1>1 DEF InSlotOrder
<1>3. Ahead' = Ahead
  <2>1. \A s : InBuf(s)' = InBuf(s) /\ Unopened(s)' = Unopened(s)
    BY <1>1 DEF InBuf, Unopened
  <2> QED BY <1>1, <2>1 DEF Ahead
<1>4. \A lo, hi : Sent(lo, hi)' = Sent(lo, hi)
  BY DEF Sent
<1>5. CursorInv'
  BY <1>1 DEF IndInv, CursorInv
<1>6. ResumeInv'
  BY <1>1 DEF IndInv, ResumeInv
<1>7. PassInv'
  BY <1>3, <1>4 DEF IndInv, PassInv
<1>8. OrderInv'
  BY <1>2, <1>3 DEF IndInv, OrderInv
<1> QED BY <1>5, <1>6, <1>7, <1>8

\* The syncer's steps.
LEMMA SyncInd ==
  ASSUME IndInv, Sync
  PROVE  IndInv'
<1>1. UNCHANGED <<scenario, content, pc, fromSlot, lastSlot, passVars, delivered, outcome>>
  BY DEF Sync, Land, Sweep, Republish
<1>2. landed' \subseteq Chunks /\ disk' \subseteq landed' /\ catalog' \subseteq landed'
  BY DEF IndInv, TypeOK, Sync, Land, Sweep, Republish
<1>3. Streams' = Streams /\ Indices' = Indices /\ Chunks' = Chunks /\ AllSlots' = AllSlots
      /\ Message' = Message
  BY <1>1 DEF Streams, Indices, Chunks, AllSlots, Message
<1>4. TypeOK'
  BY <1>1, <1>2, <1>3 DEF IndInv, TypeOK, passVars
<1>5. CursorInv' /\ ResumeInv' /\ PassInv' /\ OrderInv'
  BY <1>1, Frame DEF passVars
<1> QED BY <1>4, <1>5 DEF IndInv

\* The ends of a subscription, its first request and its polls.
LEMMA QuietInd ==
  ASSUME IndInv,
         \/ \E f \in AllSlots \cup FromSlots \cup {NoSlot} : Connect(f)
         \/ Refuse \/ PlanFailed \/ OpenFailed \/ Poll \/ IdleTimeout \/ Stop
  PROVE  IndInv'
<1>1. /\ UNCHANGED <<syncVars, lastSlot, passVars, delivered>>
      /\ fromSlot' \in AllSlots \cup FromSlots \cup {NoSlot}
      /\ pc' \in {"plan", "done"} /\ (pc' = "plan" => pc \in {"new", "wait"})
      /\ outcome' \in {"none", "refused", "error", "idle", "stopped"}
  BY DEF IndInv, TypeOK, Connect, Refuse, PlanFailed, OpenFailed, Poll, IdleTimeout, Stop, Finish
<1>2. Streams' = Streams /\ Indices' = Indices /\ Chunks' = Chunks /\ AllSlots' = AllSlots
      /\ Message' = Message
  BY <1>1 DEF Streams, Indices, Chunks, AllSlots, Message, syncVars
<1>3. TypeOK'
  BY <1>1, <1>2 DEF IndInv, TypeOK, syncVars, passVars
<1>4. CursorInv' /\ ResumeInv' /\ PassInv' /\ OrderInv'
  BY <1>1, Frame DEF syncVars, passVars
<1> QED BY <1>3, <1>4 DEF IndInv

\* The end of a pass: what it sent becomes the place to resume after.
LEMMA PassDoneInd ==
  ASSUME IndInv, PassDone
  PROVE  IndInv'
<1>1. /\ UNCHANGED <<syncVars, fromSlot, passVars, delivered, outcome>>
      /\ pc = "drive" /\ pc' \in {"plan", "wait"}
      /\ lastSlot' = IF passLast # NoSlot THEN passLast ELSE lastSlot
  BY DEF PassDone
<1>2. Streams' = Streams /\ Indices' = Indices /\ Chunks' = Chunks /\ AllSlots' = AllSlots
      /\ Message' = Message /\ \A c : MsgsOf(c)' = MsgsOf(c)
  BY <1>1 DEF Streams, Indices, Chunks, AllSlots, Message, syncVars, MsgsOf, Msgs, Start
<1>3. TypeOK'
  BY <1>1, <1>2 DEF IndInv, TypeOK, syncVars, passVars
<1>4. CursorInv'
  BY <1>1, <1>2 DEF IndInv, CursorInv, syncVars, passVars
<1>5. ResumeInv' /\ PassInv'
  BY <1>1, <1>2 DEF IndInv, ResumeInv, PassInv, passVars
<1>6. OrderInv'
  <2> SUFFICES ASSUME InSlotOrder PROVE
                 /\ \A i, j \in 1..Len(delivered) :
                      i < j => delivered[i].slot =< delivered[j].slot /\ delivered[i] # delivered[j]
                 /\ \A i \in 1..Len(delivered) : delivered[i].slot =< lastSlot'
    <3>1. InSlotOrder' = InSlotOrder
      BY <1>1, <1>2 DEF InSlotOrder, syncVars
    <3> QED BY <1>1, <3>1 DEF OrderInv
  <2>1. CASE passLast # NoSlot
    BY <1>1, <2>1 DEF IndInv, OrderInv
  <2>2. CASE passLast = NoSlot
    BY <1>1, <2>2 DEF IndInv, OrderInv
  <2> QED BY <2>1, <2>2
<1> QED BY <1>3, <1>4, <1>5, <1>6 DEF IndInv

\* One round of the merge.
LEMMA RoundInd ==
  ASSUME IndInv, Round
  PROVE  IndInv'
<1>0. TypeOK /\ CursorInv /\ World /\ Offering # {}
  BY DEF IndInv, TypeOK, World, Round
<1>1. PICK m : m = Taken
  OBVIOUS
<1>2. /\ m \in Ahead /\ m \in Message /\ m.slot \in Nat /\ m.slot + 1 \in AllSlots
      /\ m.chunk \in Chunks
      /\ InSlotOrder => \A x \in Ahead : m.slot =< x.slot
  BY <1>0, <1>1, TakenIsFirst
<1>3. /\ pc = "drive" /\ m = Head(Peek(Winner))
      /\ UNCHANGED <<syncVars, pc, fromSlot, lastSlot, from, mark, wanted, floor, outcome>>
  BY <1>0, <1>1, TakenIsFirst DEF Round
<1>4. \/ m.slot < from /\ UNCHANGED <<delivered, passLast>>
      \/ ~(m.slot < from) /\ delivered' = Append(delivered, m) /\ passLast' = m.slot
  BY <1>3 DEF Round
<1>5. CursorInv' /\ Ahead' = Ahead \ {m}
  BY <1>0, <1>1, RoundCursors
<1>6. /\ Streams' = Streams /\ Indices' = Indices /\ Chunks' = Chunks /\ AllSlots' = AllSlots
      /\ Message' = Message /\ InSlotOrder' = InSlotOrder
  BY <1>3 DEF Streams, Indices, Chunks, AllSlots, Message, InSlotOrder, syncVars
<1>7. /\ from \in Int /\ lastSlot \in Int /\ lastSlot < from
      /\ delivered \in Seq(Message) /\ Len(delivered) \in Nat /\ mark \in 0..Len(delivered)
      /\ NoSlot = -1
  <2>3. NoSlot = -1
    BY DEF NoSlot
  <2>4. from \in Int /\ lastSlot \in Int
    BY <1>0, <1>2, SlotsInt
  <2>5. lastSlot < from
    BY <1>3 DEF IndInv, ResumeInv
  <2>6. delivered \in Seq(Message) /\ Len(delivered) \in Nat /\ mark \in 0..Len(delivered)
    BY <1>0, LenProperties DEF TypeOK
  <2> QED BY <2>3, <2>4, <2>5, <2>6
<1>8. \A x \in Message : x.slot \in Nat
  <2>1. AllSlots \subseteq Nat
    BY <1>0, <1>2, AllSlotsNat
  <2> QED BY <2>1 DEF Message
<1>9. \A i \in 1..Len(delivered) : delivered[i] \in Message /\ delivered[i].slot \in Nat
  BY <1>7, <1>8
<1>10. TypeOK'
  <2>1. buf' \in [Streams -> Seq(Message)] /\ todo' \in [Streams -> SUBSET Indices]
    BY <1>0, RoundShape
  <2>2. CASE m.slot < from /\ UNCHANGED <<delivered, passLast>>
    BY <1>0, <1>3, <1>6, <2>1, <2>2 DEF TypeOK, syncVars
  <2>3. CASE ~(m.slot < from) /\ delivered' = Append(delivered, m) /\ passLast' = m.slot
    <3>1. delivered' \in Seq(Message) /\ Len(delivered') = Len(delivered) + 1
      BY <1>2, <1>7, <2>3, AppendProperties
    <3>2. m.slot \in AllSlots
      BY <1>2 DEF Message
    <3>3. mark \in 0..Len(delivered')
      BY <1>7, <3>1
    <3> QED BY <1>0, <1>3, <1>6, <2>1, <2>3, <3>1, <3>2, <3>3 DEF TypeOK, syncVars
  <2> QED BY <1>4, <2>2, <2>3
<1>11. ResumeInv'
  <2>1. passLast' = passLast \/ passLast' = m.slot
    BY <1>4
  <2> QED BY <1>2, <1>3, <1>6, <2>1 DEF IndInv, ResumeInv
<1> DEFINE W == Sent(mark + 1, Len(delivered))
<1>12. /\ W \cup {x \in Ahead : x.slot >= from} = wanted /\ \A x \in Ahead : x \notin W
       /\ \A i, j \in (mark + 1)..Len(delivered) : i < j => delivered[i] # delivered[j]
  BY <1>3 DEF IndInv, PassInv
<1>13. CASE m.slot < from /\ UNCHANGED <<delivered, passLast>>
  <2>1. Sent(mark + 1, Len(delivered))' = W
    BY <1>3, <1>13 DEF Sent
  <2> HIDE DEF W
  <2>2. {x \in Ahead' : x.slot >= from} = {x \in Ahead : x.slot >= from}
    <3>1. ~(m.slot >= from)
      BY <1>2, <1>7, <1>13
    <3> QED BY <1>5, <3>1
  <2>3. PassInv'
    BY <1>3, <1>5, <1>12, <1>13, <2>1, <2>2 DEF PassInv
  <2>4. OrderInv'
    BY <1>3, <1>5, <1>6, <1>13 DEF IndInv, OrderInv
  <2> QED BY <1>5, <1>10, <1>11, <2>3, <2>4 DEF IndInv
<1>14. CASE ~(m.slot < from) /\ delivered' = Append(delivered, m) /\ passLast' = m.slot
  <2>0. m.slot >= from /\ m.slot > lastSlot
    BY <1>2, <1>7, <1>14
  <2>1. /\ Len(delivered') = Len(delivered) + 1
        /\ \A i \in 1..Len(delivered) : delivered'[i] = delivered[i]
        /\ delivered'[Len(delivered) + 1] = m
        /\ {delivered'[i] : i \in (mark + 1)..Len(delivered')} = W \cup {m}
    BY <1>2, <1>7, <1>14, SentAppend
  <2>2. Sent(mark + 1, Len(delivered))' = W \cup {m}
    BY <1>3, <2>1 DEF Sent
  <2>3. \A i \in (mark + 1)..Len(delivered) : delivered[i] \in W /\ delivered[i] # m
    BY <1>2, <1>12 DEF Sent
  <2> HIDE DEF W
  <2>4. PassInv'
    <3>1. (W \cup {m}) \cup {x \in Ahead' : x.slot >= from} = wanted
      BY <1>2, <1>5, <1>12, <2>0
    <3>2. \A x \in Ahead' : x \notin W \cup {m}
      BY <1>5, <1>12
    <3>3. ASSUME NEW i \in (mark + 1)..Len(delivered'), NEW j \in (mark + 1)..Len(delivered'), i < j
          PROVE  delivered'[i] # delivered'[j]
      <4>1. i \in (mark + 1)..Len(delivered) /\ i \in 1..Len(delivered)
        BY <1>7, <2>1, <3>3
      <4>2. CASE j = Len(delivered) + 1
        BY <2>1, <2>3, <4>1, <4>2
      <4>3. CASE j # Len(delivered) + 1
        <5>1. j \in (mark + 1)..Len(delivered) /\ j \in 1..Len(delivered)
          BY <1>7, <2>1, <4>3
        <5> QED BY <1>12, <2>1, <3>3, <4>1, <5>1
      <4> QED BY <4>2, <4>3
    <3> QED BY <1>3, <2>2, <3>1, <3>2, <3>3 DEF PassInv
  <2>5. OrderInv'
    <3> SUFFICES ASSUME InSlotOrder
                 PROVE  /\ \A i, j \in 1..Len(delivered') : i < j =>
                             /\ delivered'[i].slot =< delivered'[j].slot
                             /\ delivered'[i] # delivered'[j]
                        /\ \A i \in 1..mark : delivered'[i].slot =< lastSlot
                        /\ \A i \in 1..Len(delivered') : delivered'[i].slot =< m.slot
                        /\ \A x \in Ahead' : m.slot =< x.slot
      BY <1>2, <1>3, <1>6, <1>7, <1>14 DEF OrderInv
    <3>1. /\ \A i, j \in 1..Len(delivered) :
               i < j => delivered[i].slot =< delivered[j].slot /\ delivered[i] # delivered[j]
          /\ \A i \in 1..mark : delivered[i].slot =< lastSlot
          /\ passLast = NoSlot => Len(delivered) = mark
          /\ passLast # NoSlot => /\ \A i \in 1..Len(delivered) : delivered[i].slot =< passLast
                                 /\ \A x \in Ahead : passLast =< x.slot
      BY <1>3 DEF IndInv, OrderInv
    <3>2. \A i \in 1..Len(delivered) : delivered[i].slot =< m.slot /\ delivered[i] # m
      <4> SUFFICES ASSUME NEW i \in 1..Len(delivered)
                   PROVE  delivered[i].slot =< m.slot /\ delivered[i] # m
        OBVIOUS
      <4>1. CASE i =< mark
        <5>1. i \in 1..mark
          BY <1>7, <4>1
        <5>2. delivered[i].slot =< lastSlot
          BY <3>1, <5>1
        <5>3. delivered[i].slot < m.slot
          BY <1>2, <1>7, <1>9, <2>0, <5>2
        <5> QED BY <1>2, <1>9, <5>3
      <4>2. CASE ~(i =< mark)
        <5>1. i \in (mark + 1)..Len(delivered) /\ Len(delivered) # mark
          BY <1>7, <4>2
        <5>2. passLast # NoSlot /\ delivered[i].slot =< passLast /\ passLast =< m.slot
          BY <1>2, <3>1, <5>1
        <5>3. passLast \in Int
          BY <5>2 DEF IndInv, ResumeInv
        <5> QED BY <1>2, <1>9, <2>3, <5>1, <5>2, <5>3
      <4> QED BY <4>1, <4>2
    <3>3. ASSUME NEW i \in 1..Len(delivered'), NEW j \in 1..Len(delivered'), i < j
          PROVE  delivered'[i].slot =< delivered'[j].slot /\ delivered'[i] # delivered'[j]
      <4>1. i \in 1..Len(delivered)
        BY <1>7, <2>1, <3>3
      <4>2. CASE j = Len(delivered) + 1
        BY <2>1, <3>2, <4>1, <4>2
      <4>3. CASE j # Len(delivered) + 1
        <5>1. j \in 1..Len(delivered)
          BY <1>7, <2>1, <4>3
        <5> QED BY <2>1, <3>1, <3>3, <4>1, <5>1
      <4> QED BY <4>2, <4>3
    <3>4. \A i \in 1..mark : delivered'[i].slot =< lastSlot
      BY <1>7, <2>1, <3>1
    <3>5. ASSUME NEW i \in 1..Len(delivered') PROVE delivered'[i].slot =< m.slot
      <4>1. CASE i = Len(delivered) + 1
        BY <1>2, <2>1, <4>1
      <4>2. CASE i # Len(delivered) + 1
        <5>1. i \in 1..Len(delivered)
          BY <1>7, <2>1, <4>2
        <5> QED BY <2>1, <3>2, <5>1
      <4> QED BY <4>1, <4>2
    <3>6. \A x \in Ahead' : m.slot =< x.slot
      BY <1>2, <1>5
    <3> QED BY <3>3, <3>4, <3>5, <3>6
  <2> QED BY <1>5, <1>10, <1>11, <2>4, <2>5 DEF IndInv
<1> QED BY <1>4, <1>13, <1>14

\* The catalog's ends are slots of the recording.
LEMMA NewestIs ==
  ASSUME TypeOK, NEW c \in catalog
  PROVE  NewestEnd \in Nat /\ End(c) =< NewestEnd
<1>0. World /\ catalog \subseteq Chunks /\ Chunks # {}
  BY DEF TypeOK, World
<1> DEFINE T == {End(d) : d \in catalog}
<1>1. T \subseteq AllSlots /\ T # {} /\ End(c) \in T
  BY <1>0, ChunkBounds
<1>2. NewestEnd = Greatest(T)
  BY DEF NewestEnd
<1> HIDE DEF T
<1>3. T \subseteq Nat /\ IsFiniteSet(T)
  <2>1. AllSlots \subseteq Nat /\ IsFiniteSet(AllSlots)
    BY <1>0, AllSlotsNat
  <2> QED BY <1>1, <2>1, FS_Subset
<1> QED BY <1>1, <1>2, <1>3, GreatestIs

\* So is the floor of a replay.
LEMMA FloorIs ==
  ASSUME TypeOK, Floor # NoSlot
  PROVE  Floor \in Nat /\ Floor \in AllSlots /\ Chunks # {}
<1>0. World /\ catalog \subseteq Chunks
  BY DEF TypeOK, World
<1> DEFINE T == {Start(c) : c \in {d \in catalog : d[1] \in Subscribed}}
<1>1. T \subseteq Nat /\ T \subseteq AllSlots
  BY <1>0, ChunkBounds
<1>2. T # {} /\ Floor = Least(T)
  BY DEF Floor
<1>3. Chunks # {}
  BY <1>0, <1>2
<1> HIDE DEF T
<1> QED BY <1>1, <1>2, <1>3, LeastIs

\* Where a pass starts.
LEMMA StartIs ==
  ASSUME IndInv, ~PlanRefused, NEW lo, lo = IF ResumeFrom = NoSlot THEN Floor ELSE ResumeFrom
  PROVE  lo \in Nat /\ lo \in AllSlots \cup FromSlots /\ lastSlot < lo
<1>0. TypeOK /\ World /\ NoSlot = -1
  BY DEF IndInv, TypeOK, World, NoSlot
<1>1. Floor \in Nat /\ Floor \in AllSlots /\ Chunks # {}
  BY <1>0, FloorIs DEF PlanRefused
<1>2. AllSlots \subseteq Nat /\ FromSlots \subseteq Nat
  BY <1>0, <1>1, AllSlotsNat, FollowAssumption
<1>3. CASE lastSlot # NoSlot
  <2>1. lastSlot \in Nat /\ lastSlot + 1 \in AllSlots
    BY <1>3 DEF IndInv, ResumeInv
  <2>2. ResumeFrom = lastSlot + 1 /\ ResumeFrom # NoSlot
    BY <1>0, <1>3, <2>1 DEF ResumeFrom
  <2> QED BY <2>1, <2>2
<1>4. CASE lastSlot = NoSlot
  <2>1. ResumeFrom = fromSlot /\ fromSlot \in AllSlots \cup FromSlots \cup {NoSlot}
    BY <1>0, <1>4 DEF ResumeFrom, TypeOK
  <2>2. lo \in AllSlots \cup FromSlots
    BY <1>1, <2>1
  <2>3. lo \in Nat
    BY <1>2, <2>2
  <2> QED BY <1>0, <1>4, <2>2, <2>3
<1> QED BY <1>3, <1>4

\* The chunks that are planned hold every message that is wanted: those left out
\* lie before the start of the pass or hold no message that matches.
LEMMA PlanInd ==
  ASSUME IndInv, Plan
  PROVE  IndInv'
<1>0. TypeOK /\ World
  BY DEF IndInv, TypeOK, World
<1>1. PICK lo : lo = IF ResumeFrom = NoSlot THEN Floor ELSE ResumeFrom
  OBVIOUS
<1>2. lo \in Nat /\ lo \in AllSlots \cup FromSlots /\ lastSlot < lo
  BY <1>1, StartIs DEF Plan
<1>3. /\ pc = "plan" /\ pc' = "drive" /\ from' = lo /\ passLast' = NoSlot
      /\ mark' = Len(delivered) /\ buf' = [s \in Streams |-> << >>]
      /\ floor' = (IF lastSlot = NoSlot THEN lo ELSE floor)
      /\ UNCHANGED <<syncVars, fromSlot, lastSlot, delivered, outcome>>
  BY <1>1 DEF Plan
<1>4. /\ todo' = [s \in Streams |->
                    IF s \in Subscribed
                    THEN {n \in ChunksInRange(s, lo, NewestEnd) : content[<<s, n>>] # << >>}
                    ELSE {}]
      /\ wanted' = UNION {MsgsFrom(c, lo) : c \in {d \in catalog : d[1] \in Subscribed}}
  BY <1>1 DEF Plan
<1>5. /\ Streams' = Streams /\ Indices' = Indices /\ Chunks' = Chunks /\ AllSlots' = AllSlots
      /\ Message' = Message /\ InSlotOrder' = InSlotOrder /\ \A c : MsgsOf(c)' = MsgsOf(c)
  BY <1>3 DEF Streams, Indices, Chunks, AllSlots, Message, InSlotOrder, syncVars,
       MsgsOf, Msgs, Start
<1>6. /\ delivered \in Seq(Message) /\ Len(delivered) \in Nat /\ catalog \subseteq Chunks
      /\ << >> \in Seq(Message) /\ Len(<< >>) = 0 /\ Subscribed \subseteq Streams
  BY <1>0, IndicesNat, EmptySeq DEF TypeOK
<1>7. \A s \in Streams, n \in Indices :
        n \in todo'[s] <=> /\ s \in Subscribed /\ <<s, n>> \in catalog
                          /\ Start(<<s, n>>) < NewestEnd /\ End(<<s, n>>) > lo
                          /\ content[<<s, n>>] # << >>
  BY <1>4 DEF ChunksInRange
<1>8. todo' \in [Streams -> SUBSET Indices]
  BY <1>4 DEF ChunksInRange
<1>9. \A x : x \in Ahead' <=>
        \E s \in Streams : \E n \in todo'[s] : x \in MsgsOf(<<s, n>>)
  <2>1. \A s \in Streams : InBuf(s)' = {}
    BY <1>3, <1>6 DEF InBuf
  <2>2. \A s \in Streams : \A x :
          x \in Unopened(s)' <=> \E n \in todo'[s] : x \in MsgsOf(<<s, n>>)
    BY <1>5 DEF Unopened
  <2>3. \A x : x \in Ahead' <=> \E s \in Streams : x \in InBuf(s)' \/ x \in Unopened(s)'
    BY <1>5 DEF Ahead
  <2> QED BY <2>1, <2>2, <2>3
<1>10. {x \in Ahead' : x.slot >= lo} = wanted'
  <2>1. ASSUME NEW x \in Ahead', x.slot >= lo PROVE x \in wanted'
    <3>1. PICK s \in Streams : \E n \in todo'[s] : x \in MsgsOf(<<s, n>>)
      BY <1>9
    <3>2. PICK n \in todo'[s] : x \in MsgsOf(<<s, n>>)
      BY <3>1
    <3>3. n \in Indices
      BY <1>8
    <3>4. <<s, n>> \in catalog /\ s \in Subscribed
      BY <1>7, <3>3
    <3>5. x \in MsgsFrom(<<s, n>>, lo)
      BY <2>1, <3>2 DEF MsgsFrom
    <3> QED BY <1>4, <3>4, <3>5
  <2>2. ASSUME NEW x \in wanted' PROVE x \in Ahead' /\ x.slot >= lo
    <3>1. PICK c \in catalog : c[1] \in Subscribed /\ x \in MsgsFrom(c, lo)
      BY <1>4
    <3>2. c \in Chunks /\ x \in MsgsOf(c) /\ x.slot >= lo
      BY <1>6, <3>1 DEF MsgsFrom
    <3>3. PICK s \in Streams, n \in Indices : c = <<s, n>>
      BY <3>2 DEF Chunks
    <3>4. /\ x.slot \in Nat /\ x.slot < End(c) /\ x.ord \in 1..Len(content[c])
          /\ Start(c) \in Nat /\ End(c) \in Nat /\ Start(c) < End(c)
      BY <1>0, <3>2, MsgFacts, ChunkBounds
    <3>5. End(c) > lo
      BY <1>2, <3>2, <3>4
    <3>6. Start(c) < NewestEnd
      BY <1>0, <3>4, NewestIs
    <3>7. content[c] # << >>
      BY <1>6, <3>4
    <3>8. n \in todo'[s]
      BY <1>7, <3>1, <3>3, <3>5, <3>6, <3>7
    <3> QED BY <1>9, <3>2, <3>3, <3>8
  <2> QED BY <2>1, <2>2
<1>11. TypeOK'
  <2>1. buf' \in [Streams -> Seq(Message)]
    BY <1>3, <1>6
  <2>2. wanted' \subseteq Message
    <3> SUFFICES ASSUME NEW x \in wanted' PROVE x \in Message
      OBVIOUS
    <3>1. PICK c \in catalog : x \in MsgsFrom(c, lo)
      BY <1>4
    <3>2. c \in Chunks /\ x \in MsgsOf(c)
      BY <1>6, <3>1 DEF MsgsFrom
    <3> QED BY <1>0, <3>2, MsgFacts
  <2>3. mark' \in 0..Len(delivered)
    BY <1>3, <1>6
  <2>4. {lastSlot', from', passLast', floor'} \subseteq AllSlots \cup FromSlots \cup {NoSlot}
    BY <1>0, <1>2, <1>3 DEF TypeOK
  <2> QED BY <1>0, <1>3, <1>5, <1>8, <2>1, <2>2, <2>3, <2>4 DEF TypeOK, syncVars
<1>12. CursorInv'
  <2>1. \A s \in Streams : Len(buf'[s]) = 0
    BY <1>3, <1>6
  <2>2. \A s \in Streams : \A n \in todo'[s] : content[<<s, n>>] # << >>
    BY <1>7, <1>8
  <2> QED BY <1>3, <1>5, <2>1, <2>2 DEF CursorInv, syncVars
<1>13. ResumeInv'
  BY <1>2, <1>3, <1>5 DEF IndInv, ResumeInv
<1>14. (mark' + 1)..Len(delivered') = {} /\ Sent(mark + 1, Len(delivered))' = {}
  <2>1. (mark' + 1)..Len(delivered') = {}
    BY <1>3, <1>6
  <2> QED BY <2>1 DEF Sent
<1>15. PassInv'
  BY <1>3, <1>10, <1>14 DEF PassInv
<1>16. OrderInv'
  BY <1>3, <1>5 DEF IndInv, OrderInv
<1> QED BY <1>11, <1>12, <1>13, <1>15, <1>16 DEF IndInv

\* Every step preserves the invariant.
LEMMA NextInd == IndInv /\ [Next]_vars => IndInv'
<1> SUFFICES ASSUME IndInv, [Next]_vars PROVE IndInv'
  OBVIOUS
<1>1. CASE Sync
  BY <1>1, SyncInd
<1>2. CASE \/ \E f \in AllSlots \cup FromSlots \cup {NoSlot} : Connect(f)
           \/ Refuse \/ PlanFailed \/ OpenFailed \/ Poll \/ IdleTimeout \/ Stop
  BY <1>2, QuietInd
<1>3. CASE Plan
  BY <1>3, PlanInd
<1>4. CASE Round
  BY <1>4, RoundInd
<1>5. CASE PassDone
  BY <1>5, PassDoneInd
<1>6. CASE UNCHANGED vars
  <2>1. /\ Streams' = Streams /\ Indices' = Indices /\ Chunks' = Chunks
        /\ AllSlots' = AllSlots /\ Message' = Message
    BY <1>6 DEF Streams, Indices, Chunks, AllSlots, Message, vars, syncVars
  <2>2. TypeOK'
    BY <1>6, <2>1 DEF IndInv, TypeOK, vars, syncVars, passVars
  <2>3. CursorInv' /\ ResumeInv' /\ PassInv' /\ OrderInv'
    BY <1>6, Frame DEF vars, syncVars, passVars
  <2> QED BY <2>2, <2>3 DEF IndInv
<1> QED BY <1>1, <1>2, <1>3, <1>4, <1>5, <1>6 DEF Next, Follower

\* The strengthened invariant holds in every reachable state of a subscription.
THEOREM FollowInvariant == Spec => []IndInv
  BY InitInd, NextInd, PTL DEF Spec

\* The variables of a subscription stay within their types: in particular the
\* slots that are sent, and those a pass starts from, are slots of the recording
\* or of the request.
THEOREM TypeCorrect == Spec => []TypeOK
<1>1. IndInv => TypeOK
  BY DEF IndInv
<1> QED BY <1>1, FollowInvariant, PTL

\* Distinct elements are as many as their places.
LEMMA DistinctCount ==
  ASSUME delivered \in Seq(Message), NEW k \in 0..Len(delivered),
         \A i, j \in (k + 1)..Len(delivered) : i < j => delivered[i] # delivered[j]
  PROVE  Cardinality(Sent(k + 1, Len(delivered))) = Len(delivered) - k
<1> DEFINE D == (k + 1)..Len(delivered)
           R == Sent(k + 1, Len(delivered))
           f == [i \in D |-> delivered[i]]
<1>0. Len(delivered) \in Nat /\ k \in Nat /\ k =< Len(delivered) /\ \A i \in D : i \in Int
  OBVIOUS
<1>1. R = {delivered[i] : i \in D}
  BY DEF Sent
<1>2. \A i, j \in D : i # j => delivered[i] # delivered[j]
  <2> SUFFICES ASSUME NEW i \in D, NEW j \in D, i # j PROVE delivered[i] # delivered[j]
    OBVIOUS
  <2>1. i < j \/ j < i
    BY <1>0
  <2> QED BY <2>1
<1>3. IsFiniteSet(D) /\ Cardinality(D) = Len(delivered) - k
  <2>1. k + 1 \in Int /\ Len(delivered) \in Int
    BY <1>0
  <2>2. /\ IsFiniteSet(D)
        /\ Cardinality(D) = IF k + 1 > Len(delivered) THEN 0 ELSE Len(delivered) - (k + 1) + 1
    BY <2>1, FS_Interval
  <2> QED BY <1>0, <2>2
<1> HIDE DEF D, R
<1>4. f \in Bijection(D, R)
  <2>1. f \in [D -> R]
    BY <1>1
  <2>2. \A i, j \in D : f[i] = f[j] => i = j
    BY <1>2
  <2>3. \A y \in R : \E i \in D : f[i] = y
    BY <1>1
  <2> HIDE DEF f
  <2> QED BY <2>1, <2>2, <2>3, Fun_IsBij
<1>5. ExistsBijection(D, R)
  BY <1>4, Fun_ExistsBij
<1>6. Cardinality(R) = Cardinality(D)
  BY <1>3, <1>5, FS_Bijection
<1> QED BY <1>3, <1>6 DEF R

\* What is left of a drained pass.
LEMMA DrainedSent ==
  ASSUME IndInv, pc = "drive", Offering = {}
  PROVE  Sent(mark + 1, Len(delivered)) = wanted
<1>1. Ahead = {}
  <2>1. \A s \in Streams : InBuf(s) \cup Unopened(s) = {}
    BY OfferingIs DEF IndInv
  <2> QED BY <2>1 DEF Ahead
<1> QED BY <1>1 DEF IndInv, PassInv

\* A drained pass has sent each message of its snapshot exactly once, from the
\* start slot on, whatever landed and was swept while it ran, and however slots
\* are ordered within chunks: planning, opening lazily and merging are exact.
THEOREM PassExactHolds == Spec => []PassExact
<1>1. IndInv => PassExact
  <2> SUFFICES ASSUME IndInv, pc = "drive", Offering = {}
               PROVE  /\ Sent(mark + 1, Len(delivered)) = wanted
                      /\ Cardinality(wanted) = Len(delivered) - mark
    BY DEF PassExact
  <2>2. Sent(mark + 1, Len(delivered)) = wanted
    BY DrainedSent
  <2>3. delivered \in Seq(Message) /\ mark \in 0..Len(delivered)
    BY DEF IndInv, TypeOK
  <2>4. \A i, j \in (mark + 1)..Len(delivered) : i < j => delivered[i] # delivered[j]
    BY DEF IndInv, PassInv
  <2> QED BY <2>2, <2>3, <2>4, DistinctCount
<1> QED BY <1>1, FollowInvariant, PTL

\* Where chunks are in slot order, a connection sees slots in order and no message
\* twice, across any streams, chunks and passes.
THEOREM InOrderOnceHolds == Spec => []InOrderOnce
<1>1. IndInv => InOrderOnce
  <2> SUFFICES ASSUME IndInv, InSlotOrder
               PROVE  /\ \A i, j \in 1..Len(delivered) :
                           i < j => delivered[i].slot =< delivered[j].slot
                      /\ Cardinality(Sent(1, Len(delivered))) = Len(delivered)
    BY DEF InOrderOnce
  <2>1. \A i, j \in 1..Len(delivered) :
          i < j => delivered[i].slot =< delivered[j].slot /\ delivered[i] # delivered[j]
    BY DEF IndInv, OrderInv
  <2>2. delivered \in Seq(Message) /\ Len(delivered) \in Nat
    BY DEF IndInv, TypeOK
  <2>3. 0 \in 0..Len(delivered) /\ 0 + 1 = 1 /\ Len(delivered) - 0 = Len(delivered)
    BY <2>2
  <2>4. \A i, j \in (0 + 1)..Len(delivered) : i < j => delivered[i] # delivered[j]
    BY <2>1, <2>3
  <2>5. Cardinality(Sent(0 + 1, Len(delivered))) = Len(delivered) - 0
    BY <2>2, <2>3, <2>4, DistinctCount
  <2> QED BY <2>1, <2>3, <2>5
<1> QED BY <1>1, FollowInvariant, PTL

-----------------------------------------------------------------------------
(* A follower of one stream.                                               *)

One == Cardinality(Subscribed) = 1 /\ scenario.landInOrder

\* Such a follower has one stream.
LEMMA OneStream ==
  ASSUME World, One
  PROVE  \E s \in Streams : Subscribed = {s}
<1>1. IsFiniteSet(Subscribed) /\ Subscribed \subseteq Streams
  BY IndicesNat, FS_Subset
<1>2. \E s : Subscribed = {s}
  BY <1>1, FS_Singleton DEF One
<1> QED BY <1>1, <1>2

\* Two chunks of its stream are ordered.
LEMMA AskedOrder ==
  ASSUME TypeOK, One, NEW c \in Chunks, NEW d \in Chunks,
         c[1] \in Subscribed, d[1] \in Subscribed
  PROVE  /\ c[1] = d[1] /\ c[2] \in Indices /\ d[2] \in Indices
         /\ c = <<c[1], c[2]>> /\ d = <<d[1], d[2]>>
         /\ c = d \/ (c[2] < d[2] /\ End(c) =< Start(d)) \/ (d[2] < c[2] /\ End(d) =< Start(c))
<1>0. World
  BY DEF TypeOK, World
<1>1. c[1] = d[1]
  BY <1>0, OneStream
<1>2. c[2] \in Indices /\ d[2] \in Indices /\ c = <<c[1], c[2]>> /\ d = <<d[1], d[2]>>
  BY DEF Chunks
<1>3. c[2] \in Nat /\ d[2] \in Nat
  BY <1>0, <1>2, IndicesNat
<1>4. c[2] = d[2] => c = d
  BY <1>1, <1>2
<1>5. c[2] = d[2] \/ c[2] < d[2] \/ d[2] < c[2]
  BY <1>3
<1> QED BY <1>0, <1>1, <1>2, <1>4, <1>5, ChunkBounds

\* No step changes the recording.
LEMMA SameWorld ==
  ASSUME [Next]_vars
  PROVE  /\ UNCHANGED <<scenario, content>>
         /\ Subscribed' = Subscribed /\ Indices' = Indices /\ One' = One
         /\ \A c : /\ MsgsOf(c)' = MsgsOf(c) /\ End(c)' = End(c)
                  /\ \A lo : MsgsFrom(c, lo)' = MsgsFrom(c, lo)
<1>1. UNCHANGED <<scenario, content>>
  BY DEF Next, vars, Sync, Land, Sweep, Republish, Connect, Follower, Plan, Refuse, PlanFailed,
         Round, OpenFailed, PassDone, Poll, IdleTimeout, Stop, Finish, syncVars
<1> QED BY <1>1 DEF Subscribed, Indices, One, MsgsOf, MsgsFrom, Msgs, Start, End

\* A chunk lands after those of its stream that have.
LEMMA LandSkip ==
  ASSUME IndInv, SkipInv, One, NEW c \in Chunks, Land(c)
  PROVE  NoHoles' /\ WantedWhole' /\ SentUpTo'
<1>0. TypeOK /\ World /\ NoHoles /\ WantedWhole /\ SentUpTo
  BY DEF IndInv, TypeOK, World, SkipInv, One
<1>1. /\ c \notin landed /\ \A n \in Indices : n < c[2] => <<c[1], n>> \in landed
      /\ landed' = landed \cup {c} /\ disk' = disk \cup {c}
      /\ UNCHANGED <<scenario, content, catalog, pc, fromSlot, lastSlot, passVars, delivered, outcome>>
  BY DEF Land, One
<1>2. /\ Subscribed' = Subscribed /\ Indices' = Indices
      /\ \A d : MsgsOf(d)' = MsgsOf(d) /\ End(d)' = End(d)
      /\ \A d, lo : MsgsFrom(d, lo)' = MsgsFrom(d, lo)
  BY <1>1 DEF Subscribed, Indices, MsgsOf, MsgsFrom, Msgs, Start, End
<1>3. \A d \in landed : d[1] = c[1] => ~(c[2] < d[2])
  <2>1. c = <<c[1], c[2]>> /\ c[2] \in Indices
    BY DEF Chunks
  <2> QED BY <1>0, <1>1, <2>1 DEF NoHoles
<1>4. \A d \in Asked : c[1] \in Subscribed => End(d) =< Start(c)
  <2> SUFFICES ASSUME NEW d \in Asked, c[1] \in Subscribed PROVE End(d) =< Start(c)
    OBVIOUS
  <2>1. d \in landed /\ d \in Chunks /\ d[1] \in Subscribed /\ d # c
    BY <1>0, <1>1 DEF Asked, TypeOK
  <2> QED BY <1>0, <1>3, <2>1, AskedOrder
<1>5. Asked' \subseteq Asked \cup {c} /\ Asked \subseteq Asked' /\ (c \in Asked' => c[1] \in Subscribed)
  BY <1>1, <1>2 DEF Asked
<1>6. NoHoles'
  <2>1. \A d \in landed' : \A n \in Indices : n < d[2] => <<d[1], n>> \in landed'
    BY <1>0, <1>1 DEF NoHoles
  <2>2. \A d \in disk', e \in landed' : (e[1] = d[1] /\ d[2] < e[2]) => e \in disk'
    <3> SUFFICES ASSUME NEW d \in disk', NEW e \in landed', e[1] = d[1], d[2] < e[2]
                 PROVE  e \in disk'
      OBVIOUS
    <3>1. CASE e = c
      BY <1>1, <3>1
    <3>2. CASE e # c /\ d = c
      BY <1>1, <1>3, <3>2
    <3>3. CASE e # c /\ d # c
      BY <1>0, <1>1, <3>3 DEF NoHoles
    <3> QED BY <3>1, <3>2, <3>3
  <2> QED BY <1>0, <1>1, <1>2, <2>1, <2>2 DEF NoHoles
<1>7. \A x \in MsgsOf(c) : x.slot \in Nat /\ Start(c) =< x.slot /\ Start(c) \in Nat
  BY <1>0, MsgFacts, ChunkBounds
<1>8. \A d \in Asked : d \in Chunks /\ End(d) \in Nat
  BY <1>0, ChunkBounds DEF Asked, TypeOK
<1>9. WantedWhole'
  <2> SUFFICES ASSUME pc = "drive", NEW m \in wanted
               PROVE  /\ m.chunk \in Asked' /\ m \in MsgsOf(m.chunk)
                      /\ \A d \in Asked' : \A x \in MsgsFrom(d, from) :
                           x.slot =< m.slot => x \in wanted
    BY <1>0, <1>1, <1>2 DEF WantedWhole, passVars
  <2>1. /\ m.chunk \in Asked /\ m \in MsgsOf(m.chunk)
        /\ \A d \in Asked : \A x \in MsgsFrom(d, from) : x.slot =< m.slot => x \in wanted
    BY <1>0 DEF WantedWhole
  <2>2. m.slot \in Nat /\ m.slot < End(m.chunk)
    BY <1>0, <1>8, <2>1, MsgFacts
  <2>3. ASSUME c[1] \in Subscribed, NEW x \in MsgsFrom(c, from), x.slot =< m.slot
        PROVE  FALSE
    <3>1. x \in MsgsOf(c)
      BY DEF MsgsFrom
    <3> QED BY <1>4, <1>7, <1>8, <2>1, <2>2, <2>3, <3>1
  <2> QED BY <1>5, <2>1, <2>3
<1>10. SentUpTo'
  <2> SUFFICES ASSUME lastSlot # NoSlot
               PROVE  /\ \E d \in Asked' : lastSlot < End(d)
                      /\ \A d \in Asked' : \A m \in MsgsFrom(d, floor) :
                           m.slot =< lastSlot => m \in Sent(1, Len(delivered))
    BY <1>1, <1>2 DEF SentUpTo, Sent, passVars
  <2>1. PICK d \in Asked : lastSlot < End(d)
    BY <1>0 DEF SentUpTo
  <2>2. lastSlot \in Nat
    BY DEF IndInv, ResumeInv
  <2>3. ASSUME c[1] \in Subscribed, NEW m \in MsgsFrom(c, floor), m.slot =< lastSlot
        PROVE  FALSE
    <3>1. m \in MsgsOf(c)
      BY DEF MsgsFrom
    <3> QED BY <1>4, <1>7, <1>8, <2>1, <2>2, <2>3, <3>1
  <2> QED BY <1>0, <1>5, <2>1, <2>3 DEF SentUpTo
<1> QED BY <1>6, <1>9, <1>10

\* A sweep takes the oldest chunks, and a catalog is what is on disk.
LEMMA SweepSkip ==
  ASSUME IndInv, SkipInv, One, (\E n \in Indices : Sweep(n)) \/ Republish
  PROVE  NoHoles'
<1>0. TypeOK /\ World /\ NoHoles
  BY DEF IndInv, TypeOK, World, SkipInv, One
<1>1. UNCHANGED <<scenario, landed>> /\ Indices' = Indices
  BY DEF Sweep, Republish, Indices
<1>2. \A d \in landed : d[2] \in Nat /\ d = <<d[1], d[2]>>
  BY <1>0, IndicesNat DEF TypeOK, Chunks
<1>3. CASE \E n \in Indices : Sweep(n)
  <2>1. PICK n \in Indices : Sweep(n)
    BY <1>3
  <2>2. disk' = {d \in disk : d[2] >= n} /\ catalog' = catalog /\ n \in Nat
    BY <1>0, <2>1, IndicesNat DEF Sweep
  <2>3. ASSUME NEW d \in disk', NEW c \in landed, c[1] = d[1], d[2] < c[2]
        PROVE  c \in disk'
    <3>1. d \in disk /\ d[2] >= n /\ d \in landed
      BY <1>0, <2>2 DEF TypeOK
    <3>2. c \in disk
      BY <1>0, <2>3, <3>1 DEF NoHoles
    <3> QED BY <1>2, <2>2, <2>3, <3>1, <3>2
  <2> QED BY <1>0, <1>1, <2>2, <2>3 DEF NoHoles
<1>4. CASE Republish
  <2>1. catalog' = disk /\ disk' = disk
    BY <1>4 DEF Republish
  <2>2. ASSUME NEW c \in disk, NEW d \in disk, NEW n \in Indices, c[1] = d[1], c[2] < n, n < d[2]
        PROVE  <<c[1], n>> \in disk
    <3>1. c \in landed /\ d \in landed
      BY <1>0 DEF TypeOK
    <3>2. <<d[1], n>> \in landed
      BY <1>0, <2>2, <3>1 DEF NoHoles
    <3> DEFINE e == <<c[1], n>>
    <3>3. e \in landed /\ e[1] = c[1] /\ e[2] = n
      BY <2>2, <3>2
    <3> HIDE DEF e
    <3>4. e \in disk
      BY <1>0, <2>2, <3>3 DEF NoHoles
    <3> QED BY <3>4 DEF e
  <2> QED BY <1>0, <1>1, <2>1, <2>2 DEF NoHoles
<1> QED BY <1>3, <1>4

\* Steps that neither land a chunk nor start, end or advance a pass.
LEMMA SkipFrame ==
  ASSUME WantedWhole, SentUpTo, pc' = "drive" => pc = "drive",
         UNCHANGED <<scenario, content, landed, lastSlot, from, passLast, wanted, floor, delivered>>
  PROVE  WantedWhole' /\ SentUpTo'
<1>1. /\ Asked' = Asked /\ \A d : MsgsOf(d)' = MsgsOf(d) /\ End(d)' = End(d)
      /\ \A d, lo : MsgsFrom(d, lo)' = MsgsFrom(d, lo)
  BY DEF Asked, Subscribed, MsgsOf, MsgsFrom, Msgs, Start, End
<1> QED BY <1>1 DEF WantedWhole, SentUpTo, Sent

\* A plan starts after the floor of the catalog, which has no holes.
LEMMA PlanSkip ==
  ASSUME IndInv, SkipInv, One, Plan
  PROVE  WantedWhole' /\ SentUpTo'
<1>0. TypeOK /\ World /\ NoHoles /\ WantedWhole /\ SentUpTo
  BY DEF IndInv, TypeOK, World, SkipInv, One
<1>1. PICK lo : lo = IF ResumeFrom = NoSlot THEN Floor ELSE ResumeFrom
  OBVIOUS
<1>2. lo \in Nat
  BY <1>1, StartIs DEF Plan
<1>3. /\ pc' = "drive" /\ from' = lo /\ passLast' = NoSlot /\ ~PlanRefused
      /\ floor' = (IF lastSlot = NoSlot THEN lo ELSE floor)
      /\ wanted' = UNION {MsgsFrom(c, lo) : c \in {d \in catalog : d[1] \in Subscribed}}
      /\ UNCHANGED <<scenario, content, landed, lastSlot, delivered>>
  BY <1>1 DEF Plan, syncVars
<1>4. /\ Asked' = Asked /\ \A d : MsgsOf(d)' = MsgsOf(d) /\ End(d)' = End(d)
      /\ \A d, n : MsgsFrom(d, n)' = MsgsFrom(d, n)
  BY <1>3 DEF Asked, Subscribed, MsgsOf, MsgsFrom, Msgs, Start, End
<1>5. lastSlot # NoSlot => lo = lastSlot + 1 /\ floor' = floor
  <2>1. lastSlot # NoSlot => lastSlot \in Nat /\ NoSlot = -1
    BY DEF IndInv, ResumeInv, NoSlot
  <2> QED BY <1>1, <1>3, <2>1 DEF ResumeFrom
<1>6. PICK c0 \in catalog : c0[1] \in Subscribed /\ Floor = Start(c0)
  <2> DEFINE T == {Start(d) : d \in {e \in catalog : e[1] \in Subscribed}}
  <2>1. T # {} /\ Floor = Least(T)
    BY <1>3 DEF PlanRefused, Floor
  <2>2. T \subseteq Nat
    BY <1>0, ChunkBounds DEF TypeOK
  <2>3. Floor \in T
    <3> HIDE DEF T
    <3> QED BY <2>1, <2>2, LeastIs
  <2> QED BY <2>3
<1>7. Floor =< lo
  <2>1. Floor \in Nat
    BY <1>0, <1>3, FloorIs DEF PlanRefused
  <2> QED BY <1>1, <1>2, <1>3, <2>1 DEF PlanRefused
<1>8. ASSUME NEW m \in wanted'
      PROVE  /\ m.chunk \in Asked /\ m \in MsgsOf(m.chunk)
             /\ \A c \in Asked : \A x \in MsgsFrom(c, lo) : x.slot =< m.slot => x \in wanted'
  <2>1. PICK d \in catalog : d[1] \in Subscribed /\ m \in MsgsFrom(d, lo)
    BY <1>3
  <2>2. d \in Chunks /\ d \in landed /\ m \in MsgsOf(d) /\ c0 \in Chunks
    BY <1>0, <2>1 DEF MsgsFrom, TypeOK
  <2>3. m.chunk = d /\ m.slot \in Nat /\ m.slot < End(d)
    BY <1>0, <2>2, MsgFacts
  <2>4. ASSUME NEW c \in Asked, NEW x \in MsgsFrom(c, lo), x.slot =< m.slot
        PROVE  x \in wanted'
    <3>1. c \in Chunks /\ c[1] \in Subscribed /\ x \in MsgsOf(c) /\ x.slot >= lo
      BY <1>0 DEF Asked, TypeOK, MsgsFrom
    <3>2. /\ x.slot \in Nat /\ Start(c) =< x.slot /\ x.slot < End(c)
          /\ Start(c) \in Nat /\ End(c) \in Nat /\ Start(c0) \in Nat /\ End(d) \in Nat
      BY <1>0, <2>2, <3>1, MsgFacts, ChunkBounds
    <3>3. ~(End(d) =< Start(c))
      BY <2>3, <2>4, <3>2
    <3>4. ~(End(c) =< Start(c0))
      BY <1>2, <1>6, <1>7, <3>1, <3>2
    <3>5. c = d \/ c[2] < d[2]
      BY <1>0, <2>1, <2>2, <3>1, <3>3, AskedOrder
    <3>6. c = c0 \/ c0[2] < c[2]
      BY <1>0, <1>6, <2>2, <3>1, <3>4, AskedOrder
    <3>7. c0[1] = d[1] /\ c[1] = c0[1] /\ c[2] \in Indices /\ c = <<c[1], c[2]>>
      BY <1>0, <1>6, <2>1, <2>2, <3>1, AskedOrder
    <3>8. c \in catalog
      <4>1. CASE c = d \/ c = c0
        BY <4>1
      <4>2. CASE c # d /\ c # c0
        <5>1. <<c0[1], c[2]>> \in catalog
          BY <1>0, <3>5, <3>6, <3>7, <4>2 DEF NoHoles
        <5> QED BY <3>7, <5>1
      <4> QED BY <4>1, <4>2
    <3> QED BY <1>3, <2>4, <3>1, <3>8
  <2>5. d \in Asked
    BY <2>1, <2>2 DEF Asked
  <2> QED BY <2>2, <2>3, <2>4, <2>5
<1>9. WantedWhole'
  BY <1>3, <1>4, <1>5, <1>8 DEF WantedWhole
<1>10. SentUpTo'
  BY <1>0, <1>3, <1>4, <1>5 DEF SentUpTo, Sent
<1> QED BY <1>9, <1>10

\* A round sends what is wanted.
LEMMA RoundSkip ==
  ASSUME IndInv, SkipInv, One, Round
  PROVE  WantedWhole' /\ SentUpTo'
<1>0. TypeOK /\ CursorInv /\ WantedWhole /\ SentUpTo /\ Offering # {}
  BY DEF IndInv, SkipInv, One, Round
<1>1. PICK m : m = Taken
  OBVIOUS
<1>2. m \in Ahead /\ m \in Message /\ m = Head(Peek(Winner)) /\ m.chunk \in Chunks /\ m.slot \in Nat
  BY <1>0, <1>1, TakenIsFirst
<1>3. /\ pc = "drive" /\ UNCHANGED <<scenario, content, landed, pc, lastSlot, from, wanted, floor>>
      /\ \/ UNCHANGED <<delivered, passLast>>
         \/ ~(m.slot < from) /\ delivered' = Append(delivered, m) /\ passLast' = m.slot
  BY <1>2 DEF Round, syncVars
<1>4. CASE UNCHANGED <<delivered, passLast>>
  BY <1>0, <1>3, <1>4, SkipFrame
<1>5. CASE ~(m.slot < from) /\ delivered' = Append(delivered, m) /\ passLast' = m.slot
  <2>1. /\ Asked' = Asked /\ \A d : MsgsOf(d)' = MsgsOf(d) /\ End(d)' = End(d)
        /\ \A d, n : MsgsFrom(d, n)' = MsgsFrom(d, n)
    BY <1>3 DEF Asked, Subscribed, MsgsOf, MsgsFrom, Msgs, Start, End
  <2>2. m \in wanted
    <3>4. from \in Int
      BY <1>0, <1>2, SlotsInt
    <3>5. m.slot >= from
      BY <1>2, <1>5, <3>4
    <3> QED BY <1>2, <1>3, <3>5 DEF IndInv, PassInv
  <2>3. WantedWhole'
    BY <1>0, <1>3, <1>5, <2>1, <2>2 DEF WantedWhole
  <2>4. Sent(1, Len(delivered)) \subseteq Sent(1, Len(delivered))'
    <3>1. delivered \in Seq(Message) /\ Len(delivered) \in Nat
      BY <1>0, LenProperties DEF TypeOK
    <3>2. /\ Len(delivered') = Len(delivered) + 1
          /\ \A i \in 1..Len(delivered) : delivered'[i] = delivered[i]
      BY <1>2, <1>5, <3>1, AppendProperties
    <3>3. \A i \in 1..Len(delivered) : i \in 1..Len(delivered')
      BY <3>1, <3>2
    <3> QED BY <3>2, <3>3 DEF Sent
  <2>5. SentUpTo'
    BY <1>0, <1>3, <2>1, <2>4 DEF SentUpTo
  <2> QED BY <2>3, <2>5
<1> QED BY <1>3, <1>4, <1>5

\* A pass that is over has sent everything between its start and its last slot.
LEMMA PassDoneSkip ==
  ASSUME IndInv, SkipInv, One, PassDone
  PROVE  WantedWhole' /\ SentUpTo'
<1>0. TypeOK /\ World /\ WantedWhole /\ SentUpTo
  BY DEF IndInv, TypeOK, World, SkipInv, One
<1>1. /\ pc = "drive" /\ Offering = {} /\ pc' # "drive"
      /\ lastSlot' = IF passLast # NoSlot THEN passLast ELSE lastSlot
      /\ UNCHANGED <<scenario, content, landed, from, passLast, wanted, floor, delivered>>
  BY DEF PassDone, syncVars, passVars
<1>2. CASE passLast = NoSlot
  BY <1>0, <1>1, <1>2, SkipFrame
<1>3. CASE passLast # NoSlot
  <2>1. /\ Asked' = Asked /\ \A d : MsgsOf(d)' = MsgsOf(d) /\ End(d)' = End(d)
        /\ \A d, n : MsgsFrom(d, n)' = MsgsFrom(d, n)
    BY <1>1 DEF Asked, Subscribed, MsgsOf, MsgsFrom, Msgs, Start, End
  <2>2. PICK m \in wanted : m.slot = passLast
    BY <1>0, <1>1, <1>3 DEF WantedWhole
  <2>3. /\ m.chunk \in Asked /\ m \in MsgsOf(m.chunk)
        /\ \A c \in Asked : \A x \in MsgsFrom(c, from) : x.slot =< m.slot => x \in wanted
    BY <1>0, <1>1 DEF WantedWhole
  <2>4. m.slot < End(m.chunk)
    <3>1. m.chunk \in Chunks
      BY <1>0, <2>3 DEF Asked, TypeOK
    <3> QED BY <1>0, <2>3, <3>1, MsgFacts
  <2>5. wanted \subseteq Sent(1, Len(delivered))
    <3>1. mark \in Nat /\ Len(delivered) \in Nat
      BY <1>0, LenProperties DEF TypeOK
    <3>2. (mark + 1)..Len(delivered) \subseteq 1..Len(delivered)
      BY <3>1
    <3>3. Sent(mark + 1, Len(delivered)) \subseteq Sent(1, Len(delivered))
      BY <3>2 DEF Sent
    <3> QED BY <1>1, <3>3, DrainedSent
  <2>6. ASSUME NEW c \in Asked, NEW x \in MsgsFrom(c, floor), x.slot =< passLast
        PROVE  x \in Sent(1, Len(delivered))
    <3>1. c \in Chunks /\ x \in MsgsOf(c) /\ x.slot >= floor
      BY <1>0 DEF Asked, TypeOK, MsgsFrom
    <3>2. x.slot \in Nat
      BY <1>0, <3>1, MsgFacts
    <3>3. floor \in Int /\ from \in Int /\ lastSlot \in Int
      BY <1>0, <3>1, SlotsInt
    <3>4. CASE x.slot >= from
      <4>1. x \in MsgsFrom(c, from)
        BY <3>1, <3>4 DEF MsgsFrom
      <4> QED BY <2>2, <2>3, <2>5, <2>6, <4>1
    <3>5. CASE x.slot < from
      <4>1. from = IF lastSlot = NoSlot THEN floor ELSE lastSlot + 1
        BY <1>0, <1>1 DEF WantedWhole
      <4>2. lastSlot # NoSlot
        BY <3>1, <3>2, <3>3, <3>5, <4>1
      <4>3. x.slot =< lastSlot
        BY <3>2, <3>3, <3>5, <4>1, <4>2
      <4> QED BY <1>0, <2>6, <4>2, <4>3 DEF SentUpTo
    <3> QED BY <3>2, <3>3, <3>4, <3>5
  <2>7. Sent(1, Len(delivered))' = Sent(1, Len(delivered))
    BY <1>1 DEF Sent
  <2>8. SentUpTo'
    BY <1>1, <1>3, <2>1, <2>2, <2>3, <2>4, <2>6, <2>7 DEF SentUpTo
  <2>9. WantedWhole'
    BY <1>1 DEF WantedWhole
  <2> QED BY <2>8, <2>9
<1> QED BY <1>2, <1>3

\* Every step preserves what a follower of one stream needs.
LEMMA SkipInd == IndInv /\ SkipInv /\ [Next]_vars => SkipInv'
<1> SUFFICES ASSUME IndInv, SkipInv, [Next]_vars, One
             PROVE  NoHoles' /\ WantedWhole' /\ SentUpTo'
  BY SameWorld DEF SkipInv, One
<1>0. NoHoles /\ WantedWhole /\ SentUpTo
  BY DEF SkipInv, One
<1>1. CASE \E c \in Chunks : Land(c)
  BY <1>1, LandSkip
<1>2. CASE (\E n \in Indices : Sweep(n)) \/ Republish
  <2>1. WantedWhole' /\ SentUpTo'
    BY <1>0, <1>2, SkipFrame DEF Sweep, Republish, passVars
  <2> QED BY <1>2, <2>1, SweepSkip
<1>3. ASSUME UNCHANGED syncVars PROVE NoHoles'
  BY <1>0, <1>3 DEF NoHoles, syncVars, Indices
<1>4. CASE Plan
  BY <1>3, <1>4, PlanSkip DEF Plan
<1>5. CASE Round
  BY <1>3, <1>5, RoundSkip DEF Round
<1>6. CASE PassDone
  BY <1>3, <1>6, PassDoneSkip DEF PassDone
<1>7. CASE \/ \E f \in AllSlots \cup FromSlots \cup {NoSlot} : Connect(f)
           \/ Refuse \/ PlanFailed \/ OpenFailed \/ Poll \/ IdleTimeout \/ Stop
  <2>1. UNCHANGED <<syncVars, lastSlot, passVars, delivered>> /\ pc' # "drive"
    BY <1>7 DEF Connect, Refuse, PlanFailed, OpenFailed, Poll, IdleTimeout, Stop, Finish
  <2>2. WantedWhole' /\ SentUpTo'
    BY <1>0, <2>1, SkipFrame DEF syncVars, passVars
  <2> QED BY <1>3, <2>1, <2>2
<1>8. CASE UNCHANGED vars
  <2>1. WantedWhole' /\ SentUpTo'
    BY <1>0, <1>8, SkipFrame DEF vars, syncVars, passVars
  <2> QED BY <1>3, <1>8, <2>1 DEF vars
<1> QED BY <1>1, <1>2, <1>4, <1>5, <1>6, <1>7, <1>8 DEF Next, Sync, Follower

\* A follower of one stream whose chunks land oldest first skips nothing: all
\* that has landed between the first slot of the connection and the slot it
\* resumes after has been sent, wherever a sweep has got to.
THEOREM NothingSkippedOfOneHolds == Spec => []NothingSkippedOfOne
<1>1. Init => SkipInv
  BY DEF Init, SkipInv, NoHoles, WantedWhole, SentUpTo
<1>2. Spec => []SkipInv
  BY <1>1, SkipInd, FollowInvariant, PTL DEF Spec
<1>3. IndInv /\ SkipInv => NothingSkippedOfOne
  <2> SUFFICES ASSUME IndInv, SkipInv, One,
                      NEW c \in {d \in landed : d[1] \in Subscribed}, NEW m \in MsgsFrom(c, floor),
                      m.slot =< lastSlot
               PROVE  m \in Sent(1, Len(delivered))
    BY DEF NothingSkippedOfOne, NothingSkipped, One
  <2>1. c \in Asked /\ c \in Chunks /\ World /\ m \in MsgsOf(c)
    BY DEF Asked, IndInv, TypeOK, World, MsgsFrom
  <2>2. m.slot \in Nat
    BY <2>1, MsgFacts
  <2>3. lastSlot # NoSlot
    BY <2>2 DEF NoSlot
  <2> QED BY <2>1, <2>3 DEF SkipInv, One, SentUpTo
<1> QED BY <1>2, <1>3, FollowInvariant, PTL
=============================================================================
