-------------------------- MODULE ConnectionProofs --------------------------
(***************************************************************************)
(* What is proved of a connection to the reader.  First the timing of its  *)
(* stream (Pacing), for any recordings, headers, speeds and limits: the    *)
(* pace that is kept, and what a client is dropped for.  Then the caps on  *)
(* the connections (Customer, here C), for any number of connections,      *)
(* tokens, caps and any capacity of the channel: they bound the tasks that *)
(* are running; and what the end of a connection and of the server rests   *)
(* on.                                                                     *)
(***************************************************************************)
EXTENDS Pacing, Connections, SequenceTheorems, FiniteSetTheorems, TLAPS

C == INSTANCE Customer

-----------------------------------------------------------------------------
(* Arithmetic.                                                             *)

\* Division rounds down.
LEMMA DivFloor ==
  ASSUME NEW n \in Int, NEW v \in Nat \ {0}
  PROVE  /\ n \div v \in Int
         /\ (n \div v) * v =< n /\ n < (n \div v + 1) * v
  OBVIOUS

\* A multiple tells which of two factors is larger.
LEMMA TimesLess ==
  ASSUME NEW x \in Int, NEW y \in Int, NEW v \in Nat \ {0}, x * v < y * v
  PROVE  x < y
<1>1. ASSUME y =< x PROVE FALSE
  <2>1. (x - y) * v >= 0
    <3> DEFINE k == x - y
    <3>1. k \in Nat
      BY <1>1
    <3> HIDE DEF k
    <3>2. k * v >= 0
      BY <3>1
    <3> QED BY <3>2 DEF k
  <2>2. (x - y) * v = x * v - y * v
    OBVIOUS
  <2>3. x * v \in Int /\ y * v \in Int
    OBVIOUS
  <2> QED BY <2>1, <2>2, <2>3
<1> QED BY <1>1

\* Quotients are ordered as their dividends are.
LEMMA DivMonotone ==
  ASSUME NEW m \in Int, NEW n \in Int, NEW v \in Nat \ {0}, m =< n
  PROVE  m \div v =< n \div v
<1> DEFINE p == m \div v
           q == n \div v
<1>1. p \in Int /\ q \in Int /\ p * v =< m /\ n < (q + 1) * v
  BY DivFloor
<1> HIDE DEF p, q
<1>2. p * v < (q + 1) * v
  <2>1. p * v \in Int /\ (q + 1) * v \in Int
    BY <1>1
  <2> QED BY <1>1, <2>1
<1>3. p < q + 1
  BY <1>1, <1>2, TimesLess
<1>4. p =< q
  BY <1>1, <1>3
<1> QED BY <1>4 DEF p, q

\* Rounding a sum loses at most one against rounding its parts.
LEMMA DivSplit ==
  ASSUME NEW m \in Int, NEW n \in Int, NEW v \in Nat \ {0}
  PROVE  (m + n) \div v =< m \div v + n \div v + 1
<1> DEFINE p == m \div v
           q == n \div v
           r == (m + n) \div v
<1>1. p \in Int /\ q \in Int /\ m < (p + 1) * v /\ n < (q + 1) * v
  BY DivFloor
<1>2. r \in Int /\ r * v =< m + n
  BY DivFloor
<1> HIDE DEF p, q, r
<1>3. (p + 1) * v + (q + 1) * v = (p + q + 2) * v
  BY <1>1
<1>4. r * v < (p + q + 2) * v
  <2>1. r * v \in Int /\ (p + 1) * v \in Int /\ (q + 1) * v \in Int
    BY <1>1, <1>2
  <2> QED BY <1>1, <1>2, <1>3, <2>1
<1>5. r < p + q + 2
  BY <1>1, <1>2, <1>4, TimesLess
<1>6. r =< p + q + 1
  BY <1>1, <1>2, <1>5
<1> QED BY <1>6 DEF p, q, r

-----------------------------------------------------------------------------
(* The pacer's operators.                                                  *)

\* Whatever the header, the speed is positive.
LEMMA SpeedIs ==
  ASSUME NEW header \in Headers
  PROVE  EffectiveSpeed(header) \in (MinSpeed..MaxSpeed) \cup {DefaultSpeed}
<1> DEFINE p == ParseReplaySpeed(header)
<1>1. p \in (MinSpeed..MaxSpeed) \cup {DefaultSpeed, NotANumber}
  <2>1. CASE header \in {NoHeader, Garbage, NotANumber}
    BY <2>1 DEF ParseReplaySpeed
  <2>2. CASE header \notin {NoHeader, Garbage, NotANumber}
    <3>1. header \in Int
      BY <2>2, PacingAssumption
    <3>2. MinSpeed \in Int /\ MaxSpeed \in Int /\ MinSpeed =< MaxSpeed
      BY SMT DEF MinSpeed, MaxSpeed
    <3>3. p = IF header < MinSpeed THEN MinSpeed
              ELSE IF header > MaxSpeed THEN MaxSpeed ELSE header
      BY <2>2 DEF ParseReplaySpeed
    <3> HIDE DEF p
    <3>4. p \in MinSpeed..MaxSpeed
      BY <3>1, <3>2, <3>3
    <3> QED BY <3>4
  <2> QED BY <2>1, <2>2
<1>2. EffectiveSpeed(header) = IF p = NotANumber THEN DefaultSpeed ELSE p
  BY DEF EffectiveSpeed
<1> HIDE DEF p
<1> QED BY <1>1, <1>2

\* A speed of TypeOK divides.
LEMMA SpeedPositive == TypeOK => speed \in Nat \ {0}
  BY PacingAssumption DEF TypeOK, MinSpeed, MaxSpeed

\* A message's stamp is a source time or missing.
LEMMA StampIs ==
  ASSUME NEW r \in Recordings, NEW n \in 1..Len(r), NEW ord \in 1..Len(r[n].created)
  PROVE  Stamp(r[n], ord) \in Stamps
<1> DEFINE c == r[n]
           created == c.created[ord]
           count == Len(c.created)
           last == IF c.last = None THEN c.first ELSE c.last
           span == (ord - 1) * (last - c.first)
<1>1. c \in Chunk
  BY PacingAssumption
<1>2. created \in Int \cup {None} /\ count \in Nat /\ c.first \in Stamps /\ last \in Stamps
      /\ ord \in 1..count
  BY <1>1 DEF Chunk
<1>3. c.first # None => c.first \in Nat /\ last \in Nat /\ c.first =< last
  BY <1>2, PacingAssumption DEF Stamps
<1>4. Stamp(c, ord) = IF created # None /\ created >= 0 THEN created
                      ELSE IF c.first = None THEN None
                      ELSE IF count =< 1 \/ last = c.first THEN c.first
                      ELSE c.first + span \div (count - 1)
  BY DEF Stamp
<1>5. ASSUME c.first # None, ~(count =< 1)
      PROVE  c.first + span \div (count - 1) \in Nat
  <2> DEFINE a == ord - 1
             b == last - c.first
             v == count - 1
  <2>1. a \in Nat /\ b \in Nat /\ v \in Nat \ {0}
    <3>1. c.first \in Nat /\ last \in Nat /\ c.first =< last
      BY <1>3, <1>5
    <3> HIDE DEF c, count, last
    <3> QED BY <1>2, <1>5, <3>1
  <2> HIDE DEF a, b, v
  <2>2. a * b \in Int /\ 0 =< a * b
    BY <2>1
  <2>3. 0 \div v =< (a * b) \div v /\ 0 \div v = 0 /\ (a * b) \div v \in Int
    BY <2>1, <2>2, DivMonotone, DivFloor
  <2>4. (a * b) \div v \in Nat
    BY <2>3
  <2>5. span \div (count - 1) \in Nat
    BY <2>4 DEF a, b, v
  <2> HIDE DEF span
  <2> QED BY <1>3, <1>5, <2>5
<1> HIDE DEF c, created, count, last, span
<1>6. Stamp(c, ord) \in Stamps
  BY <1>2, <1>3, <1>4, <1>5 DEF Stamps
<1> QED BY <1>6 DEF c

\* The stamp of the message at the cursor.
LEMMA TakenIs ==
  ASSUME TypeOK, CursorInv, Available
  PROVE  Taken \in Stamps /\ pos[1] \in 1..Len(rec) /\ pos[2] \in 1..Len(rec[pos[1]].created)
<1>1. pos[1] \in 1..Len(rec) /\ rec \in Recordings
  <2>1. landed \in 1..Len(rec) /\ pos[1] \in 1..(Len(rec) + 1) /\ rec \in Seq(Chunk)
    BY PacingAssumption DEF TypeOK
  <2>2. Len(rec) \in Nat
    BY <2>1
  <2> QED BY <2>1, <2>2 DEF TypeOK, Available
<1>2. pos[2] \in 1..Len(rec[pos[1]].created)
  BY <1>1, PacingAssumption DEF CursorInv
<1> QED BY <1>1, <1>2, StampIs DEF Taken

\* What Scaled does to a stretch of source time.
LEMMA ScaledIs ==
  ASSUME TypeOK, NEW d \in Nat
  PROVE  /\ Scaled(d) \in Nat
         /\ d * 10 < (Scaled(d) + 1) * speed
         /\ \A e \in Nat : d =< e => Scaled(d) =< Scaled(e)
         /\ \A e \in Nat : Scaled(d + e) =< Scaled(d) + Scaled(e) + 1
<1>1. speed \in Nat \ {0}
  BY SpeedPositive
<1>2. Scaled(d) \in Int /\ d * 10 < (Scaled(d) + 1) * speed
  BY <1>1, DivFloor DEF Scaled
<1>3. Scaled(0) = 0
  BY <1>1 DEF Scaled
<1>4. ASSUME NEW x \in Nat, NEW y \in Nat, x =< y PROVE Scaled(x) =< Scaled(y)
  <2>1. x * 10 \in Int /\ y * 10 \in Int /\ x * 10 =< y * 10
    BY <1>4
  <2> QED BY <1>1, <2>1, DivMonotone DEF Scaled
<1>5. ASSUME NEW e \in Nat PROVE Scaled(d + e) =< Scaled(d) + Scaled(e) + 1
  <2>1. (d + e) * 10 = d * 10 + e * 10 /\ d * 10 \in Int /\ e * 10 \in Int
    OBVIOUS
  <2> QED BY <1>1, <2>1, DivSplit DEF Scaled
<1>6. 0 =< Scaled(d)
  BY <1>3, <1>4
<1> QED BY <1>2, <1>4, <1>5, <1>6

\* A message is due at the anchor or after it.
LEMMA DueIs ==
  ASSUME TypeOK, anchor # None, NEW ts \in Nat
  PROVE  /\ anchor[1] \in Nat /\ anchor[2] \in Nat
         /\ Since(ts, anchor[1]) \in Nat /\ ts - anchor[1] =< Since(ts, anchor[1])
         /\ Due(ts) \in Nat /\ anchor[2] =< Due(ts)
         /\ ts = anchor[1] => Due(ts) = anchor[2]
<1>1. anchor[1] \in Nat /\ anchor[2] \in Nat
  BY DEF TypeOK
<1>2. Since(ts, anchor[1]) \in Nat /\ ts - anchor[1] =< Since(ts, anchor[1])
      /\ (ts = anchor[1] => Since(ts, anchor[1]) = 0)
  BY <1>1 DEF Since
<1>3. Scaled(Since(ts, anchor[1])) \in Nat
  BY <1>2, ScaledIs
<1>4. Scaled(0) = 0
  BY SpeedPositive DEF Scaled
<1> QED BY <1>1, <1>2, <1>3, <1>4 DEF Due

\* Steps that leave the anchor alone leave what is due alone.
LEMMA DueSame ==
  ASSUME UNCHANGED <<speed, anchor>>, NEW ts
  PROVE  Due(ts)' = Due(ts)
  BY DEF Due, Scaled, Since

\* The stamps of what was sent.
LEMMA SentIs ==
  ASSUME TypeOK, NEW i \in Stamped
  PROVE  /\ i \in 1..Len(sent) /\ Len(sent) \in Nat
         /\ sent[i][1] \in Nat /\ sent[i][2] \in Nat
<1>1. sent \in Seq(Stamps \X Nat) /\ i \in 1..Len(sent) /\ sent[i][1] # None
  BY DEF TypeOK, Stamped
<1>2. Len(sent) \in Nat /\ sent[i] \in Stamps \X Nat
  BY <1>1
<1>3. sent[i][1] \in Stamps /\ sent[i][2] \in Nat
  BY <1>2
<1> QED BY <1>1, <1>2, <1>3 DEF Stamps

-----------------------------------------------------------------------------
(* What a step that sends and anchors nothing keeps.                       *)

Still == UNCHANGED <<enabled, speed, anchor, rec, pos, started, sent>>

\* The terms of the invariant that such a step leaves alone.
LEMMA StillTerms ==
  ASSUME Still
  PROVE  /\ Taken' = Taken /\ Stamped' = Stamped /\ StepsBack' = StepsBack
         /\ \A i : Due(sent[i][1])' = Due(sent[i][1])
         /\ Due(Taken)' = Due(Taken)
<1>1. Taken' = Taken /\ Stamped' = Stamped
  BY DEF Still, Taken, Stamp, Stamped
<1>2. StepsBack' = StepsBack
  BY DEF Still, StepsBack, Stamped
<1>3. \A i : Due(sent[i][1])' = Due(sent[i][1])
  BY DEF Still, Due, Scaled, Since
<1>4. Due(Taken)' = Due(Taken)
  BY <1>1 DEF Still, Due, Scaled, Since
<1> QED BY <1>1, <1>2, <1>3, <1>4

\* The message in hand stays in hand, or the client is given up.
LEMMA StillCursorAnchor ==
  ASSUME IndInv, Still, landed \in Nat, landed' \in Nat, landed =< landed',
         InHand' => InHand, InHand => InHand' \/ GivenUp', GivenUp => GivenUp'
  PROVE  CursorInv' /\ AnchorInv'
<1> USE StillTerms
<1>1. CursorInv'
  <2>1. pos[1] \in Int
    BY DEF IndInv, TypeOK
  <2>2. pos' = pos /\ rec' = rec
    BY DEF Still
  <2> QED BY <2>1, <2>2 DEF IndInv, CursorInv, Available
<1>2. ASSUME enabled' PROVE (anchor = None => Stamped = {} /\ (InHand => Taken = None))'
  BY <1>2 DEF IndInv, AnchorInv, Still
<1>3. ASSUME enabled', anchor' # None
      PROVE  /\ (started =< anchor[2])'
             /\ (\A i \in Stamped : (\A k \in Stamped : i =< k) => sent[i][1] = anchor[1])'
             /\ (Stamped = {} => GivenUp \/ (InHand /\ Taken = anchor[1]))'
             /\ (\A i \in Stamped : Due(sent[i][1]) =< sent[i][2])'
  <2>1. AnchorInv /\ enabled /\ anchor # None
    BY <1>3 DEF IndInv, Still
  <2> QED BY <2>1 DEF AnchorInv, Still
<1> QED BY <1>1, <1>2, <1>3 DEF AnchorInv

\* Time passes only at the expense of the client or of the syncer.
LEMMA StillLate ==
  ASSUME IndInv, Still, Replaying' => Replaying, InHand => InHand' \/ ~Replaying',
         \/ now' = now /\ waited' = waited
         \/ now' = now + 1 /\ waited' = waited + 1
  PROVE  LateInv'
<1>1. SUFFICES ASSUME enabled, anchor # None, Replaying'
               PROVE  \/ now' =< anchor[2] + waited'
                      \/ \E i \in Stamped : now' =< Due(sent[i][1]) + waited'
                      \/ InHand' /\ Taken # None /\ now' =< Due(Taken) + waited'
  <2>1. enabled' = enabled /\ anchor' = anchor
    BY DEF Still
  <2> QED BY <2>1, StillTerms DEF LateInv
<1>2. now \in Nat /\ waited \in Nat
  BY DEF IndInv, TypeOK, Instants
<1>3. \A t \in Int : now =< t + waited => now' =< t + waited'
  BY <1>2
<1>4. anchor[2] \in Int
  BY <1>1 DEF IndInv, TypeOK
<1>5. ASSUME NEW i \in Stamped PROVE Due(sent[i][1]) \in Int
  <2>1. sent[i][1] \in Nat
    BY SentIs DEF IndInv
  <2> QED BY <1>1, <2>1, DueIs DEF IndInv
<1>6. InHand /\ Taken # None => Due(Taken) \in Int
  <2>1. InHand /\ Taken # None => Taken \in Nat
    BY TakenIs DEF IndInv, CursorInv, Stamps
  <2> QED BY <1>1, <2>1, DueIs DEF IndInv
<1>7. \/ now =< anchor[2] + waited
      \/ \E i \in Stamped : now =< Due(sent[i][1]) + waited
      \/ InHand /\ Taken # None /\ now =< Due(Taken) + waited
  BY <1>1 DEF IndInv, LateInv
<1>8. InHand => InHand'
  BY <1>1
<1> HIDE DEF InHand, Taken, Due, Stamped
<1> QED BY <1>3, <1>4, <1>5, <1>6, <1>7, <1>8

-----------------------------------------------------------------------------
(* The initial states.                                                     *)

\* The invariant holds when the client connects.
LEMMA InitInd == Init => IndInv
<1> SUFFICES ASSUME Init PROVE IndInv
  OBVIOUS
<1>1. rec \in Recordings /\ rec \in Seq(Chunk) /\ Len(rec) \in Nat
  BY PacingAssumption DEF Init
<1>2. landed \in 1..Len(rec)
  BY DEF Init
<1>a. PICK c \in 1..landed : \E ord \in 1..Len(rec[c].created) : pos = <<c, ord>>
  BY DEF Init
<1>3. PICK ord \in 1..Len(rec[c].created) : pos = <<c, ord>>
  BY <1>a
<1>4. c \in 1..Len(rec)
  BY <1>1, <1>2
<1>5. rec[c].created \in Seq(Int \cup {None})
  <2>1. rec[c] \in Chunk
    BY <1>1, <1>4
  <2> QED BY <2>1 DEF Chunk
<1>6. ord \in Nat
  <2>1. Len(rec[c].created) \in Nat
    BY <1>5
  <2> QED BY <2>1
<1>7. pos[1] = c /\ pos[2] = ord
  BY <1>3
<1>8. TypeOK
  <2>1. speed \in (MinSpeed..MaxSpeed) \cup {DefaultSpeed}
    BY SpeedIs DEF Init
  <2>2. pos \in (1..(Len(rec) + 1)) \X Nat
    BY <1>1, <1>3, <1>4, <1>6
  <2>3. now \in Nat
    BY PacingAssumption DEF Init
  <2>4. now + IdleTimeout \in Nat
    BY <2>3, PacingAssumption
  <2>5. sent \in Seq(Stamps \X Nat)
    BY DEF Init
  <2>6. started \in 0..now
    BY <2>3 DEF Init
  <2> QED BY <1>1, <1>2, <2>1, <2>2, <2>3, <2>4, <2>5, <2>6 DEF Init, TypeOK, Instants
<1>9. CursorInv
  BY <1>3, <1>7 DEF Init, CursorInv, InHand
<1>10. Stamped = {}
  BY DEF Init, Stamped
<1>11. AnchorInv
  BY <1>10 DEF Init, AnchorInv, InHand
<1>12. TargetInv /\ LateInv /\ DropExplained
  BY DEF Init, TargetInv, LateInv, DropExplained, GivenUp, InHand
<1> QED BY <1>8, <1>9, <1>11, <1>12 DEF IndInv

-----------------------------------------------------------------------------
(* The steps that send and anchor nothing.                                 *)

\* The variables that count.
LEMMA Numbers ==
  ASSUME TypeOK
  PROVE  /\ now \in Nat /\ target \in Nat /\ until \in Nat /\ deadline \in Nat /\ waited \in Nat
         /\ landed \in Nat /\ Len(rec) \in Nat /\ landed =< Len(rec)
         /\ LagDrop \in Nat \ {0} /\ PollInterval \in Nat /\ IdleTimeout \in Nat
<1>1. rec \in Seq(Chunk)
  BY PacingAssumption DEF TypeOK
<1>2. Len(rec) \in Nat
  BY <1>1
<1>3. landed \in Nat /\ landed =< Len(rec)
  BY <1>2 DEF TypeOK
<1> QED BY <1>2, <1>3, PacingAssumption DEF TypeOK, Instants

\* A step that neither gives the client up nor takes nor gives back a message,
\* nor lets time pass for free.
LEMMA StillInd ==
  ASSUME IndInv, Still, TypeOK', TargetInv', landed =< landed', Replaying' => Replaying,
         GivenUp' <=> GivenUp, GivenUp => waited' = waited, InHand' <=> InHand,
         \/ now' = now /\ waited' = waited
         \/ now' = now + 1 /\ waited' = waited + 1
  PROVE  IndInv'
<1>1. landed \in Nat /\ landed' \in Nat
  <2>1. TypeOK
    BY DEF IndInv
  <2>2. Len(rec)' \in Nat
    BY PacingAssumption DEF TypeOK
  <2> QED BY <2>1, <2>2, Numbers DEF TypeOK
<1>2. CursorInv' /\ AnchorInv'
  BY <1>1, StillCursorAnchor
<1>3. LateInv'
  BY StillLate
<1>4. DropExplained'
  BY StillTerms DEF IndInv, DropExplained, Still
<1> QED BY <1>2, <1>3, <1>4 DEF IndInv

\* The message in hand is due when it was due, and no later but for time lost.
LEMMA StillTarget ==
  ASSUME IndInv, Still, target' = target, until' = until, phase' = phase,
         \/ now' = now /\ waited' = waited
         \/ now' = now + 1 /\ waited' = waited + 1
  PROVE  TargetInv'
<1>1. Taken' = Taken /\ Due(Taken)' = Due(Taken) /\ enabled' = enabled
  BY StillTerms DEF Still
<1>2. InHand' <=> InHand
  BY DEF InHand
<1>3. now \in Nat /\ target \in Nat /\ until \in Nat /\ waited \in Nat /\ LagDrop \in Nat
  BY Numbers DEF IndInv
<1>4. TargetInv
  BY DEF IndInv
<1>5. (target =< now => target =< now') /\ (now =< target + waited => now' =< target + waited')
      /\ (now + LagDrop =< until + waited => now' + LagDrop =< until + waited')
  BY <1>3
<1> HIDE DEF InHand, Taken, Due
<1> QED BY <1>1, <1>2, <1>4, <1>5 DEF TargetInv

\* The sleep is over: the send is bounded from now on.
LEMMA WakeInd == IndInv /\ Wake => IndInv'
<1> SUFFICES ASSUME IndInv, Wake PROVE IndInv'
  OBVIOUS
<1>1. Still /\ now' = now /\ waited' = waited /\ landed' = landed /\ target' = target
  BY DEF Wake, Still, pacer
<1>2. now \in Nat /\ target \in Nat /\ waited \in Nat /\ LagDrop \in Nat /\ landed \in Nat
  BY Numbers DEF IndInv
<1>3. TypeOK'
  <2>1. now + LagDrop \in Nat
    BY <1>2
  <2> QED BY <2>1 DEF IndInv, TypeOK, Wake, pacer, Instants
<1>4. InHand /\ InHand' /\ Replaying /\ ~GivenUp /\ ~GivenUp' /\ phase' = "send"
  BY DEF Wake, InHand, Replaying, GivenUp
<1>5. TargetInv'
  <2>1. Taken' = Taken /\ Due(Taken)' = Due(Taken) /\ enabled' = enabled
    BY <1>1, StillTerms DEF Still
  <2>2. TargetInv
    BY DEF IndInv
  <2>3. target =< now /\ until' = now + LagDrop
    BY DEF Wake
  <2>4. now + LagDrop =< until' + waited
    BY <1>2, <2>3
  <2> HIDE DEF Taken, Due, InHand
  <2> QED BY <1>1, <1>4, <2>1, <2>2, <2>3, <2>4 DEF TargetInv
<1> QED BY <1>1, <1>2, <1>3, <1>4, <1>5, StillInd

\* A pass that sent something is followed by another.
LEMMA PassAgainInd == IndInv /\ PassAgain => IndInv'
<1> SUFFICES ASSUME IndInv, PassAgain PROVE IndInv'
  OBVIOUS
<1>1. Still /\ now' = now /\ waited' = waited /\ landed' = landed /\ target' = target
      /\ until' = until /\ phase' = phase
  BY DEF PassAgain, Still, pacer
<1>2. now \in Nat /\ landed \in Nat /\ IdleTimeout \in Nat
  BY Numbers DEF IndInv
<1>3. TypeOK'
  <2>1. now + IdleTimeout \in Nat
    BY <1>2
  <2> QED BY <2>1 DEF IndInv, TypeOK, PassAgain, pacer, Instants
<1>4. ~InHand /\ ~InHand' /\ Replaying /\ ~GivenUp /\ ~GivenUp'
  BY DEF PassAgain, InHand, Replaying, GivenUp
<1> QED BY <1>1, <1>2, <1>3, <1>4, StillTarget, StillInd

\* Nothing new: the replay waits for its next poll.
LEMMA CaughtUpInd == IndInv /\ CaughtUp => IndInv'
<1> SUFFICES ASSUME IndInv, CaughtUp PROVE IndInv'
  OBVIOUS
<1>1. Still /\ now' = now /\ waited' = waited /\ landed' = landed
  BY DEF CaughtUp, Still, pacer
<1>2. now \in Nat /\ landed \in Nat /\ PollInterval \in Nat
  BY Numbers DEF IndInv
<1>3. TypeOK'
  <2>1. now + PollInterval \in Nat
    BY <1>2
  <2> QED BY <2>1 DEF IndInv, TypeOK, CaughtUp, pacer, Instants
<1>4. ~InHand /\ ~InHand' /\ Replaying /\ ~GivenUp /\ ~GivenUp'
  BY DEF CaughtUp, InHand, Replaying, GivenUp
<1>5. TargetInv'
  BY <1>4 DEF InHand, TargetInv
<1> QED BY <1>1, <1>2, <1>3, <1>4, <1>5, StillInd

\* The next pass is planned.
LEMMA PollInd == IndInv /\ Poll => IndInv'
<1> SUFFICES ASSUME IndInv, Poll PROVE IndInv'
  OBVIOUS
<1>1. Still /\ now' = now /\ waited' = waited /\ landed' = landed
  BY DEF Poll, Still, pacer
<1>2. landed \in Nat
  BY Numbers DEF IndInv
<1>3. TypeOK'
  BY DEF IndInv, TypeOK, Poll, pacer
<1>4. ~InHand /\ ~InHand' /\ Replaying /\ ~GivenUp /\ ~GivenUp'
  BY DEF Poll, InHand, Replaying, GivenUp
<1>5. TargetInv'
  BY <1>4 DEF InHand, TargetInv
<1> QED BY <1>1, <1>2, <1>3, <1>4, <1>5, StillInd

\* The idle timeout ends the connection normally.
LEMMA IdleEndInd == IndInv /\ IdleEnd => IndInv'
<1> SUFFICES ASSUME IndInv, IdleEnd PROVE IndInv'
  OBVIOUS
<1>1. Still /\ now' = now /\ waited' = waited /\ landed' = landed
  BY DEF IdleEnd, Still, pacer
<1>2. landed \in Nat
  BY Numbers DEF IndInv
<1>3. TypeOK'
  BY DEF IndInv, TypeOK, IdleEnd, pacer
<1>4. ~InHand /\ ~InHand' /\ Replaying /\ ~GivenUp /\ ~GivenUp'
  BY DEF IdleEnd, InHand, Replaying, GivenUp
<1>5. TargetInv'
  BY <1>4 DEF InHand, TargetInv
<1> QED BY <1>1, <1>2, <1>3, <1>4, <1>5, StillInd

\* The client stops reading, or reads again.
LEMMA StallInd == IndInv /\ StallOrResume => IndInv'
<1> SUFFICES ASSUME IndInv, StallOrResume PROVE IndInv'
  OBVIOUS
<1>1. Still /\ now' = now /\ waited' = waited /\ landed' = landed /\ target' = target
      /\ until' = until /\ phase' = phase
  BY DEF StallOrResume, Still, pacer
<1>2. landed \in Nat
  BY Numbers DEF IndInv
<1>3. TypeOK'
  BY DEF IndInv, TypeOK, StallOrResume, pacer
<1>4. (InHand' <=> InHand) /\ (Replaying' <=> Replaying) /\ (GivenUp' <=> GivenUp)
  BY <1>1 DEF InHand, Replaying, GivenUp
<1> QED BY <1>1, <1>2, <1>3, <1>4, StillTarget, StillInd

\* A chunk lands.
LEMMA LandInd == IndInv /\ Land => IndInv'
<1> SUFFICES ASSUME IndInv, Land PROVE IndInv'
  OBVIOUS
<1>1. Still /\ now' = now /\ waited' = waited /\ landed' = landed + 1 /\ target' = target
      /\ until' = until /\ phase' = phase /\ landed < Len(rec)
  BY DEF Land, Still, pacer
<1>2. landed \in Nat /\ Len(rec) \in Nat
  BY Numbers DEF IndInv
<1>3. TypeOK'
  <2>1. landed + 1 \in 1..Len(rec)
    BY <1>1, <1>2
  <2> QED BY <2>1 DEF IndInv, TypeOK, Land, pacer
<1>4. (InHand' <=> InHand) /\ (Replaying' <=> Replaying) /\ (GivenUp' <=> GivenUp)
  BY <1>1 DEF InHand, Replaying, GivenUp
<1>5. landed =< landed'
  BY <1>1, <1>2
<1> QED BY <1>1, <1>3, <1>4, <1>5, StillTarget, StillInd

\* Time passes: towards the target for nothing, otherwise as time lost.
LEMMA TickInd == IndInv /\ Tick => IndInv'
<1> SUFFICES ASSUME IndInv, Tick PROVE IndInv'
  OBVIOUS
<1>1. Still /\ now' = now + 1 /\ landed' = landed /\ target' = target /\ until' = until
      /\ phase' = phase
  BY DEF Tick, Still, pacer
<1>2. now \in Nat /\ waited \in Nat /\ landed \in Nat /\ target \in Nat
  BY Numbers DEF IndInv
<1>3. TypeOK'
  <2>1. now + 1 \in Nat /\ waited' \in Nat
    BY <1>2 DEF Tick
  <2>2. started \in 0..(now + 1)
    BY <1>2 DEF IndInv, TypeOK
  <2> QED BY <2>1, <2>2 DEF IndInv, TypeOK, Tick, pacer, Instants
<1>4. (InHand' <=> InHand) /\ Replaying /\ ~GivenUp /\ ~GivenUp'
  BY <1>1 DEF Tick, InHand, Replaying, GivenUp
<1>5. CASE waited' = waited + 1
  BY <1>1, <1>2, <1>3, <1>4, <1>5, StillTarget, StillInd
<1>6. CASE waited' = waited
  <2>1. phase = "sleep" /\ now < target
    BY <1>2, <1>6 DEF Tick
  <2>2. Taken' = Taken /\ Due(Taken)' = Due(Taken) /\ enabled' = enabled /\ anchor' = anchor
    BY <1>1, StillTerms DEF Still
  <2>3. enabled => Taken # None /\ target = Due(Taken)
    <3>1. TargetInv /\ InHand
      BY <2>1 DEF IndInv, InHand
    <3>2. ~(target =< now)
      BY <1>2, <2>1
    <3> HIDE DEF Taken, Due
    <3> QED BY <3>1, <3>2 DEF TargetInv
  <2>4. TargetInv'
    <3>1. phase' # "send"
      BY <1>1, <2>1
    <3> HIDE DEF Taken, Due, InHand
    <3> QED BY <1>1, <2>2, <2>3, <3>1 DEF TargetInv
  <2>5. CursorInv' /\ AnchorInv'
    <3>1. landed =< landed' /\ landed' \in Nat
      BY <1>1, <1>2
    <3> QED BY <1>1, <1>2, <1>4, <3>1, StillCursorAnchor
  <2>6. LateInv'
    <3>1. now + 1 =< target + waited
      BY <1>2, <2>1
    <3>2. InHand'
      BY <1>1, <2>1 DEF InHand
    <3>3. enabled => now' =< Due(Taken) + waited'
      BY <1>1, <1>6, <2>3, <3>1
    <3> HIDE DEF Taken, Due, InHand, Stamped
    <3> QED BY <2>2, <2>3, <3>2, <3>3 DEF LateInv
  <2>7. DropExplained'
    BY <1>4 DEF DropExplained
  <2> QED BY <1>3, <2>4, <2>5, <2>6, <2>7 DEF IndInv
<1> QED BY <1>5, <1>6 DEF Tick

\* Time lost alone explains a drop.
LEMMA LostExplains ==
  ASSUME NEW S, 0 \in S, NEW w \in Nat, NEW v \in Nat \ {0}, LagDrop =< w + 1
  PROVE  \E d \in S : d >= 0 /\ w + (d * 10) \div v + 1 >= LagDrop
<1>1. (0 * 10) \div v = 0
  OBVIOUS
<1>2. w + (0 * 10) \div v + 1 >= LagDrop
  BY <1>1, PacingAssumption
<1> QED BY <1>2

\* A send that times out has waited lag_drop for the client.
LEMMA SendTimeoutInd == IndInv /\ SendTimeout => IndInv'
<1> SUFFICES ASSUME IndInv, SendTimeout PROVE IndInv'
  OBVIOUS
<1>1. Still /\ now' = now /\ waited' = waited /\ landed' = landed /\ phase' = "status"
  BY DEF SendTimeout, Still, pacer
<1>2. now \in Nat /\ waited \in Nat /\ landed \in Nat /\ until \in Nat /\ LagDrop \in Nat
  BY Numbers DEF IndInv
<1>3. TypeOK'
  BY DEF IndInv, TypeOK, SendTimeout, pacer
<1>4. ~InHand' /\ ~GivenUp /\ GivenUp' /\ ~Replaying'
  BY <1>1 DEF SendTimeout, InHand, Replaying, GivenUp
<1>5. CursorInv' /\ AnchorInv'
  <2>1. landed =< landed' /\ landed' \in Nat
    BY <1>1, <1>2
  <2> QED BY <1>1, <1>2, <1>4, <2>1, StillCursorAnchor
<1>6. LateInv' /\ TargetInv'
  BY <1>1, <1>4 DEF LateInv, TargetInv
<1>7. DropExplained'
  <2>1. now + LagDrop =< until + waited /\ now >= until
    BY DEF IndInv, TargetInv, SendTimeout, GivesUp
  <2>2. LagDrop =< waited + 1
    BY <1>2, <2>1
  <2>3. TypeOK
    BY DEF IndInv
  <2>4. \E d \in StepsBack : d >= 0 /\ waited + (d * 10) \div speed + 1 >= LagDrop
    <3>1. speed \in Nat \ {0}
      BY <2>3, SpeedPositive
    <3>2. 0 \in StepsBack
      BY DEF StepsBack
    <3> HIDE DEF StepsBack
    <3> QED BY <1>2, <2>2, <3>1, <3>2, LostExplains
  <2>5. StepsBack' = StepsBack /\ speed' = speed
    BY <1>1, StillTerms DEF Still
  <2> HIDE DEF StepsBack
  <2> QED BY <1>1, <2>4, <2>5 DEF DropExplained
<1> QED BY <1>3, <1>5, <1>6, <1>7 DEF IndInv

\* The client that is given up is told so.
LEMMA SendStatusInd == IndInv /\ SendStatus => IndInv'
<1> SUFFICES ASSUME IndInv, SendStatus PROVE IndInv'
  OBVIOUS
<1>1. Still /\ now' = now /\ waited' = waited /\ landed' = landed
  BY DEF SendStatus, Still, pacer
<1>2. landed \in Nat
  BY Numbers DEF IndInv
<1>3. TypeOK'
  BY DEF IndInv, TypeOK, SendStatus, pacer
<1>4. ~InHand /\ ~InHand' /\ ~Replaying' /\ GivenUp /\ GivenUp'
  BY DEF SendStatus, InHand, Replaying, GivenUp
<1>5. TargetInv'
  BY <1>4 DEF InHand, TargetInv
<1> QED BY <1>1, <1>2, <1>3, <1>4, <1>5, StillInd

-----------------------------------------------------------------------------
(* A message's turn.                                                       *)

\* The first stamped message sets the anchor; the others are due after it.
LEMMA TakeInd == IndInv /\ Take => IndInv'
<1> SUFFICES ASSUME IndInv, Take PROVE IndInv'
  OBVIOUS
<1>1. TypeOK /\ CursorInv /\ AnchorInv /\ LateInv
  BY DEF IndInv
<1>2. phase = "pass" /\ Available /\ phase' = "sleep"
      /\ target' = Target(Taken) /\ anchor' = Anchored(Taken)
  BY DEF Take, Taken
<1>3. UNCHANGED <<enabled, speed, rec, landed, pos, until, progress, deadline, stalled, now,
                  started, sent, waited, lastWarn>>
  BY DEF Take
<1>4. Taken \in Stamps /\ Taken' = Taken /\ Stamped' = Stamped
  BY <1>1, <1>2, <1>3, TakenIs DEF Taken, Stamp, Stamped
<1>5. now \in Nat /\ waited \in Nat /\ started \in Nat /\ started =< now
  BY <1>1, Numbers DEF TypeOK
<1>6. InHand' /\ ~InHand /\ Replaying /\ ~GivenUp /\ ~GivenUp'
  BY <1>2 DEF InHand, Replaying, GivenUp
<1>7. None \notin Nat
  BY PacingAssumption
<1>8. CursorInv'
  BY <1>1, <1>2, <1>3 DEF CursorInv, Available
<1>9. DropExplained'
  BY <1>6 DEF DropExplained
<1> HIDE DEF Taken
<1>10. CASE ~enabled \/ Taken = None \/ anchor # None
  <2>1. anchor' = anchor
    BY <1>2, <1>10 DEF Anchored
  <2>2. target' = IF ~enabled \/ Taken = None THEN now ELSE Due(Taken)
    BY <1>2, <1>10 DEF Target, Due
  <2>3. Due(Taken)' = Due(Taken) /\ \A i : Due(sent[i][1])' = Due(sent[i][1])
    BY <1>3, <1>4, <2>1 DEF Due, Scaled, Since
  <2>4. TypeOK'
    <3>1. target' \in Nat
      <4>1. CASE ~enabled \/ Taken = None
        BY <1>5, <2>2, <4>1
      <4>2. CASE enabled /\ Taken # None
        <5>1. Taken \in Nat /\ anchor # None
          BY <1>4, <1>10, <4>2 DEF Stamps
        <5>2. Due(Taken) \in Nat
          BY <1>1, <5>1, DueIs
        <5> QED BY <2>2, <4>2, <5>2
      <4> QED BY <4>1, <4>2
    <3> QED BY <1>1, <1>2, <1>3, <2>1, <3>1 DEF TypeOK, Instants
  <2>5. AnchorInv'
    <3>1. enabled /\ anchor' = None => Stamped' = {} /\ Taken' = None
      BY <1>1, <1>4, <1>10, <2>1 DEF AnchorInv
    <3>2. ASSUME enabled, anchor # None PROVE Stamped # {}
      BY <1>1, <1>2, <1>6, <3>2 DEF AnchorInv
    <3> QED BY <1>1, <1>3, <1>4, <2>1, <2>3, <3>1, <3>2 DEF AnchorInv
  <2>6. TargetInv'
    <3>1. now =< now + waited /\ phase' # "send"
      BY <1>2, <1>5
    <3> HIDE DEF Due
    <3> QED BY <1>2, <1>3, <1>4, <1>5, <2>2, <2>3, <3>1 DEF TargetInv
  <2>7. LateInv'
    BY <1>1, <1>3, <1>4, <1>6, <2>1, <2>3 DEF LateInv
  <2> QED BY <1>8, <1>9, <2>4, <2>5, <2>6, <2>7 DEF IndInv
<1>11. CASE enabled /\ Taken # None /\ anchor = None
  <2>1. anchor' = <<Taken, now>> /\ target' = now /\ Taken \in Nat
    BY <1>2, <1>4, <1>11 DEF Anchored, Target, Stamps
  <2>2. anchor' # None /\ anchor'[1] = Taken /\ anchor'[2] = now
    <3>1. anchor' \in Nat \X Nat
      BY <1>5, <2>1
    <3> QED BY <2>1, <3>1, PacingAssumption
  <2>3. TypeOK'
    BY <1>1, <1>2, <1>3, <1>5, <2>1 DEF TypeOK, Instants
  <2>4. Due(Taken)' = now
    <3>1. Scaled(0)' = 0
      <4>1. speed \in Nat \ {0} /\ speed' = speed
        BY <1>1, <1>3, SpeedPositive
      <4> QED BY <4>1 DEF Scaled
    <3>2. Since(Taken, anchor[1])' = 0
      BY <1>4, <2>1, <2>2 DEF Since
    <3> QED BY <1>5, <2>2, <3>1, <3>2 DEF Due, Scaled
  <2>5. Stamped' = {}
    BY <1>1, <1>4, <1>11 DEF AnchorInv
  <2>6. AnchorInv'
    BY <1>3, <1>4, <1>5, <1>6, <2>2, <2>5 DEF AnchorInv
  <2>7. TargetInv'
    BY <1>2, <1>4, <1>7, <2>1, <2>4 DEF TargetInv
  <2>8. LateInv'
    <3>1. now' =< anchor'[2] + waited'
      BY <1>3, <1>5, <2>2
    <3> QED BY <3>1 DEF LateInv
  <2> QED BY <1>8, <1>9, <2>3, <2>6, <2>7, <2>8 DEF IndInv
<1> QED BY <1>10, <1>11

\* The cursor moves to the next message, or past the chunk.
LEMMA FollowingIs ==
  ASSUME TypeOK, CursorInv, Available
  PROVE  /\ Following(pos) \in (1..(Len(rec) + 1)) \X Nat
         /\ Following(pos)[1] =< Len(rec) =>
              Following(pos)[2] \in 1..Len(rec[Following(pos)[1]].created)
<1> DEFINE c == pos[1]
           o == pos[2]
<1>1. rec \in Seq(Chunk) /\ Len(rec) \in Nat
  BY PacingAssumption DEF TypeOK
<1>2. c \in 1..Len(rec) /\ o \in 1..Len(rec[c].created)
  BY TakenIs
<1>3. ASSUME NEW n \in 1..Len(rec)
      PROVE  Len(rec[n].created) \in Nat /\ 1 =< Len(rec[n].created)
  <2>1. rec[n] \in Chunk
    BY <1>1
  <2>2. rec[n].created \in Seq(Int \cup {None}) /\ rec[n].created # << >>
    BY <2>1 DEF Chunk
  <2> QED BY <2>2, EmptySeq, LenProperties
<1> HIDE DEF c, o
<1>4. CASE o < Len(rec[c].created)
  <2>1. Following(pos) = <<c, o + 1>>
    BY <1>4 DEF Following, c, o
  <2>2. c \in 1..(Len(rec) + 1)
    BY <1>1, <1>2
  <2>3. o + 1 \in 1..Len(rec[c].created) /\ o + 1 \in Nat
    BY <1>2, <1>3, <1>4
  <2> QED BY <2>1, <2>2, <2>3
<1>5. CASE ~(o < Len(rec[c].created))
  <2>1. Following(pos) = <<c + 1, 1>>
    BY <1>5 DEF Following, c, o
  <2>2. c + 1 \in 1..(Len(rec) + 1)
    BY <1>1, <1>2
  <2>3. c + 1 =< Len(rec) => 1 \in 1..Len(rec[c + 1].created)
    <3>1. ASSUME c + 1 =< Len(rec) PROVE 1 \in 1..Len(rec[c + 1].created)
      <4>1. c + 1 \in 1..Len(rec)
        BY <1>1, <1>2, <3>1
      <4> QED BY <1>3, <4>1
    <3> QED BY <3>1
  <2> QED BY <2>1, <2>2, <2>3
<1> QED BY <1>4, <1>5

\* What the history holds once a message is sent.
LEMMA SentAppend ==
  ASSUME TypeOK, NEW ts \in Stamps, NEW t \in Nat, sent' = Append(sent, <<ts, t>>)
  PROVE  /\ sent' \in Seq(Stamps \X Nat) /\ Len(sent)' = Len(sent) + 1 /\ Len(sent) \in Nat
         /\ \A i \in 1..Len(sent) : sent'[i] = sent[i]
         /\ sent'[Len(sent) + 1] = <<ts, t>>
         /\ Stamped' = Stamped \cup (IF ts = None THEN {} ELSE {Len(sent) + 1})
<1>1. sent \in Seq(Stamps \X Nat) /\ <<ts, t>> \in Stamps \X Nat
  BY DEF TypeOK
<1>2. Len(sent) \in Nat
  BY <1>1
<1>3. sent' \in Seq(Stamps \X Nat) /\ Len(sent') = Len(sent) + 1
      /\ (\A i \in 1..Len(sent) : sent'[i] = sent[i]) /\ sent'[Len(sent) + 1] = <<ts, t>>
  BY <1>1, AppendProperties
<1>4. 1..Len(sent') = 1..Len(sent) \cup {Len(sent) + 1}
  BY <1>2, <1>3
<1>5. <<ts, t>>[1] = ts
  OBVIOUS
<1>6. Stamped' = {i \in 1..Len(sent') : sent'[i][1] # None}
  BY DEF Stamped
<1>7. \A i : i \in Stamped' <=> i \in Stamped \/ (i = Len(sent) + 1 /\ ts # None)
  <2>1. Len(sent) + 1 \notin 1..Len(sent)
    BY <1>2
  <2> QED BY <1>3, <1>4, <1>5, <1>6, <2>1 DEF Stamped
<1> QED BY <1>2, <1>3, <1>7

\* One stamp is due at most its distance to another, scaled, after that one.
LEMMA DueApart ==
  ASSUME TypeOK, anchor # None, NEW x \in Nat, NEW y \in Nat
  PROVE  /\ x =< y => Due(x) =< Due(y)
         /\ y =< x => Due(x) =< Due(y) + Scaled(x - y) + 1
<1> DEFINE b == anchor[1]
<1>1. b \in Nat /\ anchor[2] \in Nat /\ Since(x, b) \in Nat /\ Since(y, b) \in Nat
  BY DueIs
<1>2. Scaled(Since(x, b)) \in Nat /\ Scaled(Since(y, b)) \in Nat
  BY <1>1, ScaledIs
<1>3. ASSUME x =< y PROVE Due(x) =< Due(y)
  <2>1. Since(x, b) =< Since(y, b)
    BY <1>1, <1>3 DEF Since
  <2>2. Scaled(Since(x, b)) =< Scaled(Since(y, b))
    BY <1>1, <2>1, ScaledIs
  <2> QED BY <1>1, <1>2, <2>2 DEF Due
<1>4. ASSUME y =< x PROVE Due(x) =< Due(y) + Scaled(x - y) + 1
  <2> DEFINE d == x - y
  <2>1. d \in Nat /\ Since(y, b) + d \in Nat /\ Since(x, b) =< Since(y, b) + d
    BY <1>1, <1>4 DEF Since
  <2> HIDE DEF d
  <2>2. Scaled(d) \in Nat /\ Scaled(Since(y, b) + d) \in Nat
    BY <2>1, ScaledIs
  <2>3. Scaled(Since(x, b)) =< Scaled(Since(y, b) + d)
    BY <1>1, <2>1, ScaledIs
  <2>4. Scaled(Since(y, b) + d) =< Scaled(Since(y, b)) + Scaled(d) + 1
    BY <1>1, <2>1, ScaledIs
  <2>5. Scaled(Since(x, b)) =< Scaled(Since(y, b)) + Scaled(d) + 1
    BY <1>2, <2>2, <2>3, <2>4
  <2>6. Due(x) =< Due(y) + Scaled(d) + 1
    <3> HIDE DEF b
    <3> DEFINE p == Scaled(Since(x, b))
               q == Scaled(Since(y, b))
    <3>1. p \in Nat /\ q \in Nat /\ p =< q + Scaled(d) + 1
      BY <1>2, <2>5
    <3>2. Due(x) = anchor[2] + p /\ Due(y) = anchor[2] + q
      BY DEF Due, b
    <3> HIDE DEF p, q
    <3> QED BY <1>1, <2>2, <3>1, <3>2
  <2> QED BY <2>6 DEF d
<1> QED BY <1>3, <1>4

\* A message sent so late that its client is dropped is late for time lost, or
\* for a step back in source time from a message that was due after it.
LEMMA SendExplained ==
  ASSUME IndInv, Send, phase' = "status"
  PROVE  DropExplained'
<1>1. TypeOK /\ CursorInv /\ AnchorInv /\ TargetInv /\ LateInv
  BY DEF IndInv
<1>2. phase = "send" /\ InHand /\ Available /\ Replaying
  BY <1>1 DEF Send, InHand, CursorInv, Replaying
<1>3. enabled /\ now - target >= LagDrop
  <2>1. LagAction(target) = "drop"
    BY DEF Send
  <2>2. now \in Nat /\ target \in Nat /\ LagDrop \in Nat /\ enabled \in BOOLEAN
    BY <1>1, Numbers DEF TypeOK
  <2> QED BY <2>1, <2>2 DEF LagAction
<1>4. now \in Nat /\ target \in Nat /\ waited \in Nat
      /\ LagDrop \in Nat \ {0} /\ speed \in Nat \ {0}
  BY <1>1, Numbers, SpeedPositive
<1>5. UNCHANGED <<enabled, speed, anchor, now, waited>>
  BY DEF Send
<1>6. Taken \in Stamps
  BY <1>1, <1>2, TakenIs
<1>7. SUFFICES \E d \in StepsBack' : d >= 0 /\ waited + (d * 10) \div speed + 1 >= LagDrop
  BY <1>5 DEF DropExplained
<1>8. 0 \in StepsBack'
  BY DEF StepsBack
<1>9. CASE now =< target + waited
  <2>1. LagDrop =< waited + 1
    BY <1>3, <1>4, <1>9
  <2> HIDE DEF StepsBack
  <2> QED BY <1>4, <1>8, <2>1, LostExplains
<1>10. CASE ~(now =< target + waited)
  <2>1. Taken # None
    BY <1>1, <1>2, <1>3, <1>10 DEF TargetInv
  <2>2. Taken \in Nat /\ anchor # None /\ target = Due(Taken)
    BY <1>1, <1>2, <1>3, <1>6, <2>1 DEF AnchorInv, TargetInv, Stamps
  <2>3. anchor[2] \in Nat /\ anchor[2] =< Due(Taken)
    BY <1>1, <2>2, DueIs
  <2>4. PICK i \in Stamped : now =< Due(sent[i][1]) + waited
    <3>1. ~(now =< anchor[2] + waited)
      BY <1>4, <1>10, <2>2, <2>3
    <3>2. ~(now =< Due(Taken) + waited)
      BY <1>10, <2>2
    <3> HIDE DEF Due, Taken, Stamped
    <3> QED BY <1>1, <1>2, <1>3, <2>2, <3>1, <3>2 DEF LateInv
  <2> DEFINE s == sent[i][1]
             d == s - Taken
  <2>5. s \in Nat /\ i \in 1..Len(sent) /\ Len(sent) \in Nat
    BY <1>1, SentIs
  <2>6. Due(s) \in Nat /\ Due(Taken) \in Nat
    BY <1>1, <2>2, <2>5, DueIs
  <2>7. Taken =< s
    <3>1. ASSUME s =< Taken PROVE FALSE
      <4>1. Due(s) =< Due(Taken)
        BY <1>1, <2>2, <2>5, <3>1, DueApart
      <4> HIDE DEF Due, Taken, s
      <4>2. now =< Due(s) + waited
        BY <2>4 DEF s
      <4> QED BY <1>4, <1>10, <2>2, <2>6, <4>1, <4>2
    <3> HIDE DEF s, Taken
    <3> QED BY <2>2, <2>5, <3>1
  <2>8. d \in Nat
    <3> HIDE DEF s, Taken
    <3> QED BY <2>2, <2>5, <2>7
  <2>9. d \in StepsBack'
    <3>1. sent' = Append(sent, <<Taken, now>>)
      BY DEF Send, Taken
    <3> HIDE DEF Taken
    <3>2. /\ \A k \in 1..Len(sent) : sent'[k] = sent[k]
          /\ sent'[Len(sent) + 1] = <<Taken, now>>
          /\ Stamped' = Stamped \cup {Len(sent) + 1}
      BY <1>1, <1>4, <1>6, <2>1, <3>1, SentAppend
    <3> DEFINE j == Len(sent) + 1
    <3>3. i \in Stamped' /\ j \in Stamped' /\ i < j
      BY <2>5, <3>2
    <3>4. sent'[i][1] = s /\ sent'[j][1] = Taken
      BY <2>5, <3>2
    <3>5. StepsBack' = {0} \cup {sent'[p[1]][1] - sent'[p[2]][1] :
                                   p \in {q \in Stamped' \X Stamped' : q[1] < q[2]}}
      BY DEF StepsBack
    <3> HIDE DEF j, s, Stamped
    <3>6. <<i, j>> \in {q \in Stamped' \X Stamped' : q[1] < q[2]}
      BY <3>3
    <3>7. <<i, j>>[1] = i /\ <<i, j>>[2] = j
      OBVIOUS
    <3> QED BY <3>4, <3>5, <3>6, <3>7
  <2>10. waited + (d * 10) \div speed + 1 >= LagDrop
    <3>1. Due(s) =< Due(Taken) + Scaled(d) + 1
      BY <1>1, <2>2, <2>5, <2>7, DueApart
    <3>2. Scaled(d) \in Nat
      BY <1>1, <2>8, ScaledIs
    <3>3. now =< Due(s) + waited
      BY <2>4
    <3> HIDE DEF Due, Taken, s, d
    <3>4. waited + Scaled(d) + 1 >= LagDrop
      BY <1>3, <1>4, <2>2, <2>6, <3>1, <3>2, <3>3
    <3> QED BY <3>4 DEF Scaled
  <2> HIDE DEF d, StepsBack
  <2>11. d >= 0
    BY <2>8
  <2> QED BY <2>9, <2>10, <2>11
<1> QED BY <1>9, <1>10

\* A message is sent when it is due or later, and the first stamped one sent is
\* the one that set the anchor.
LEMMA SendInd == IndInv /\ Send => IndInv'
<1> SUFFICES ASSUME IndInv, Send PROVE IndInv'
  OBVIOUS
<1>1. TypeOK /\ CursorInv /\ AnchorInv /\ TargetInv /\ LateInv
  BY DEF IndInv
<1>2. phase = "send" /\ InHand /\ Available /\ Replaying /\ ~InHand'
      /\ ~GivenUp /\ phase' \in {"pass", "status"}
  BY <1>1 DEF Send, InHand, CursorInv, Replaying, GivenUp
<1>3. UNCHANGED <<enabled, speed, anchor, rec, landed, target, until, deadline, stalled, now,
                  started, waited>>
  BY DEF Send
<1>4. Taken \in Stamps /\ now \in Nat
  BY <1>1, <1>2, TakenIs, Numbers
<1>5. sent' = Append(sent, <<Taken, now>>) /\ pos' = Following(pos)
  BY DEF Send, Taken
<1> DEFINE ts == Taken
           n == Len(sent) + 1
<1> HIDE DEF ts
<1>6. /\ sent' \in Seq(Stamps \X Nat) /\ Len(sent) \in Nat
      /\ \A k \in 1..Len(sent) : sent'[k] = sent[k]
      /\ sent'[n] = <<ts, now>>
      /\ Stamped' = Stamped \cup (IF ts = None THEN {} ELSE {n})
  <2>1. ts \in Stamps /\ sent' = Append(sent, <<ts, now>>)
    BY <1>4, <1>5 DEF ts
  <2> QED BY <1>1, <1>4, <2>1, SentAppend
<1>7. /\ sent'[n][1] = ts /\ sent'[n][2] = now
      /\ \A k \in Stamped : k \in 1..Len(sent) /\ sent'[k] = sent[k]
  BY <1>6 DEF Stamped
<1>8. TypeOK'
  <2>1. pos' \in (1..(Len(rec) + 1)) \X Nat
    BY <1>1, <1>2, <1>5, FollowingIs
  <2>2. lastWarn' = None \/ lastWarn' \in Nat
    BY <1>1, <1>4 DEF Send, TypeOK
  <2>3. progress' \in BOOLEAN
    BY DEF Send
  <2> QED BY <1>1, <1>2, <1>3, <1>6, <2>1, <2>2, <2>3 DEF TypeOK
<1>9. CursorInv'
  <2>1. pos'[1] =< Len(rec) => pos'[2] \in 1..Len(rec[pos'[1]].created)
    BY <1>1, <1>2, <1>5, FollowingIs
  <2> QED BY <1>2, <1>3, <2>1 DEF CursorInv
<1>10. TargetInv'
  BY <1>2 DEF TargetInv
<1>11. \A x : Due(x)' = Due(x)
  BY <1>3 DEF Due, Scaled, Since
<1>12. AnchorInv'
  <2>1. ASSUME enabled, anchor = None PROVE Stamped' = {}
    BY <1>1, <1>2, <1>6, <2>1 DEF AnchorInv, ts
  <2>2. ASSUME enabled, anchor # None PROVE
          /\ Stamped' # {}
          /\ \A i \in Stamped' : (\A k \in Stamped' : i =< k) => sent'[i][1] = anchor[1]
          /\ \A i \in Stamped' : Due(sent'[i][1]) =< sent'[i][2]
    <3>1. Stamped = {} => ts = anchor[1]
      BY <1>1, <1>2, <2>2 DEF AnchorInv, ts
    <3>2. anchor[1] \in Nat /\ None \notin Nat
      BY <1>1, <2>2, PacingAssumption DEF TypeOK
    <3>3. Stamped' # {}
      BY <1>6, <3>1, <3>2
    <3>4. ASSUME NEW i \in Stamped', \A k \in Stamped' : i =< k PROVE sent'[i][1] = anchor[1]
      <4>1. CASE Stamped = {}
        <5>1. i = n
          BY <1>6, <4>1
        <5> QED BY <1>7, <3>1, <4>1, <5>1
      <4>2. CASE Stamped # {}
        <5>1. PICK k \in Stamped : TRUE
          BY <4>2
        <5>2. k \in 1..Len(sent) /\ i =< k
          BY <1>6, <1>7, <3>4
        <5>3. i # n
          BY <1>6, <5>2
        <5>4. i \in Stamped
          BY <1>6, <5>3
        <5>5. \A m \in Stamped : i =< m
          BY <1>6, <3>4
        <5>6. sent[i][1] = anchor[1]
          BY <1>1, <2>2, <5>4, <5>5 DEF AnchorInv
        <5> QED BY <1>7, <5>4, <5>6
      <4> QED BY <4>1, <4>2
    <3>5. ASSUME NEW i \in Stamped' PROVE Due(sent'[i][1]) =< sent'[i][2]
      <4>1. CASE i \in Stamped
        <5>1. Due(sent[i][1]) =< sent[i][2] /\ sent'[i] = sent[i]
          BY <1>1, <1>7, <2>2, <4>1 DEF AnchorInv
        <5> QED BY <5>1
      <4>2. CASE i \notin Stamped
        <5>1. i = n /\ ts # None
          BY <1>6, <4>2
        <5>2. target = Due(ts) /\ target =< now
          BY <1>1, <1>2, <2>2, <5>1 DEF TargetInv, ts
        <5> HIDE DEF Due, n
        <5> QED BY <1>7, <5>1, <5>2
      <4> QED BY <4>1, <4>2
    <3> QED BY <3>3, <3>4, <3>5
  <2>3. ASSUME enabled, anchor # None PROVE started =< anchor[2]
    BY <1>1, <2>3 DEF AnchorInv
  <2>4. enabled' = enabled /\ anchor' = anchor /\ started' = started
    BY <1>3
  <2>5. ASSUME enabled, anchor # None PROVE \A i \in Stamped' : (Due(sent[i][1]))' =< sent'[i][2]
    <3>1. \A i : (Due(sent[i][1]))' = Due(sent'[i][1])
      BY <1>3 DEF Due, Scaled, Since
    <3> HIDE DEF Due, Stamped
    <3> QED BY <2>2, <2>5, <3>1
  <2> HIDE DEF Due, Stamped
  <2> QED BY <1>2, <2>1, <2>2, <2>3, <2>4, <2>5 DEF AnchorInv
<1>13. LateInv'
  <2>1. SUFFICES ASSUME enabled, anchor # None
                 PROVE  \/ now =< anchor[2] + waited
                        \/ \E i \in Stamped' : now =< (Due(sent[i][1]))' + waited
    BY <1>3 DEF LateInv
  <2>2. \A i : (Due(sent[i][1]))' = Due(sent'[i][1])
    BY <1>3 DEF Due, Scaled, Since
  <2>3. \/ now =< anchor[2] + waited
        \/ \E i \in Stamped : now =< Due(sent[i][1]) + waited
        \/ ts # None /\ now =< Due(ts) + waited
    BY <1>1, <1>2, <2>1 DEF LateInv, ts
  <2> HIDE DEF Due, Stamped, n
  <2> QED BY <1>6, <1>7, <2>2, <2>3
<1>14. DropExplained'
  <2>1. CASE phase' = "status"
    BY <2>1, SendExplained
  <2>2. CASE phase' = "pass"
    BY <2>2 DEF DropExplained, GivenUp
  <2> QED BY <1>2, <2>1, <2>2
<1> QED BY <1>8, <1>9, <1>10, <1>12, <1>13, <1>14 DEF IndInv

-----------------------------------------------------------------------------
(* The theorems.                                                           *)

\* Every step keeps the invariant.
LEMMA StepInd == IndInv /\ [Next]_vars => IndInv'
<1> SUFFICES ASSUME IndInv, [Next]_vars PROVE IndInv'
  OBVIOUS
<1>1. CASE Replay
  BY <1>1, TakeInd, WakeInd, SendInd, SendTimeoutInd, SendStatusInd, PassAgainInd, CaughtUpInd,
     PollInd, IdleEndInd DEF Replay
<1>2. CASE StallOrResume \/ Land \/ Tick
  BY <1>2, StallInd, LandInd, TickInd
<1>3. CASE UNCHANGED vars
  <2>1. TypeOK' /\ CursorInv'
    BY <1>3 DEF IndInv, TypeOK, CursorInv, InHand, Available, vars, pacer
  <2>2. Still /\ UNCHANGED <<phase, target, until, now, waited>>
    BY <1>3 DEF Still, vars, pacer
  <2>3. AnchorInv'
    BY <2>2, StillTerms DEF IndInv, AnchorInv, Still, InHand, GivenUp
  <2>4. TargetInv' /\ LateInv'
    BY <2>2, StillTerms DEF IndInv, TargetInv, LateInv, Still, InHand, Replaying
  <2>5. DropExplained'
    BY <2>2, StillTerms DEF IndInv, DropExplained, Still, GivenUp
  <2> QED BY <2>1, <2>3, <2>4, <2>5 DEF IndInv
<1> QED BY <1>1, <1>2, <1>3 DEF Next

\* The timing invariant holds in every reachable state of drive_replay and
\* follow_replay: the anchor is the first stamped message, nothing stamped is
\* sent before it is due, and the replay is never later than the latest target
\* so far but for the time the client and the syncer lost.
THEOREM PacingInvariant == Spec => []IndInv
  BY InitInd, StepInd, PTL DEF Spec

\* The pacer's state has its types, whatever header the client sent.
THEOREM TypeCorrect == Spec => []TypeOK
<1>1. IndInv => TypeOK
  BY DEF IndInv
<1> QED BY <1>1, PacingInvariant, PTL

\* Replay keeps the original wall clock: Pacer::target never lets a message out
\* sooner after the connection than its distance to the first stamped one.
THEOREM PaceKeptHolds == Spec => []PaceKept
<1>1. IndInv => PaceKept
  <2> SUFFICES ASSUME IndInv, enabled, NEW i \in Stamped, NEW j \in Stamped,
                      \A k \in Stamped : i =< k
               PROVE  (sent[j][2] - started + 1) * speed > (sent[j][1] - sent[i][1]) * 10
    BY DEF PaceKept
  <2> DEFINE s == sent[j][1]
             t == sent[j][2]
             b == anchor[1]
             d == Since(s, b)
             e == t - started + 1
  <2>1. TypeOK /\ AnchorInv
    BY DEF IndInv
  <2>2. anchor # None /\ sent[i][1] = b /\ started =< anchor[2] /\ Due(s) =< t
    BY <2>1 DEF AnchorInv
  <2>3. s \in Nat /\ t \in Nat
    BY <2>1, SentIs
  <2>4. started \in Nat /\ speed \in Nat \ {0}
    BY <2>1, SpeedPositive, Numbers DEF TypeOK
  <2>5. b \in Nat /\ anchor[2] \in Nat /\ d \in Nat /\ s - b =< d
    BY <2>1, <2>2, <2>3, DueIs
  <2>6. Scaled(d) \in Nat /\ d * 10 < (Scaled(d) + 1) * speed
    BY <2>1, <2>5, ScaledIs
  <2>7. anchor[2] + Scaled(d) =< t
    BY <2>2 DEF Due
  <2> HIDE DEF s, t, b, d
  <2>8. e \in Nat /\ Scaled(d) + 1 =< e
    BY <2>2, <2>3, <2>4, <2>5, <2>6, <2>7
  <2> DEFINE f == Scaled(d) + 1
  <2>9. f \in Nat /\ f =< e /\ d * 10 < f * speed
    BY <2>6, <2>8
  <2> HIDE DEF e, f
  <2>10. f * speed =< e * speed /\ f * speed \in Int /\ e * speed \in Int
    <3>1. ~(e * speed < f * speed)
      BY <2>4, <2>8, <2>9, TimesLess
    <3>2. f * speed \in Int /\ e * speed \in Int
      BY <2>4, <2>8, <2>9
    <3> QED BY <3>1, <3>2
  <2>11. (s - b) * 10 < e * speed
    BY <2>3, <2>5, <2>9, <2>10
  <2> QED BY <2>2, <2>3, <2>4, <2>5, <2>10, <2>11 DEF s, t, e
<1> QED BY <1>1, PacingInvariant, PTL

\* A client is given up only for time that it or the syncer lost, or for stamps
\* that go back, beyond a tick of rounding (observe_emit and the send timeout).
THEOREM DropExplainedHolds == Spec => []DropExplained
<1>1. IndInv => DropExplained
  BY DEF IndInv
<1> QED BY <1>1, PacingInvariant, PTL

-----------------------------------------------------------------------------
(* The caps on the connections.                                            *)

\* Customer counts with operators of its own instance of FiniteSets.
LEMMA SameCount ==
  ASSUME NEW S
  PROVE  (C!IsFiniteSet(S) <=> IsFiniteSet(S)) /\ C!Cardinality(S) = Cardinality(S)
  BY DEF C!IsFiniteSet, IsFiniteSet, C!Cardinality, Cardinality

\* What Connections assumes of the constants, as C knows it.
LEMMA Constants == C!ConstantsOK
  BY CustomerAssumption, SameCount DEF ConstantsOK, C!ConstantsOK

\* A server without connections satisfies the inductive invariant.
LEMMA ConnectionsInit == C!ConstantsOK /\ C!Init => C!IndInv
<1> SUFFICES ASSUME C!ConstantsOK, C!Init PROVE C!IndInv
  OBVIOUS
<1>1. C!TypeOK
  <2>1. client \in [Conns -> AuthTokens \cup {Anonymous}]
    BY DEF C!Init
  <2>2. chan \in [Conns -> 0..Capacity]
    <3>1. 0 \in 0..Capacity
      BY DEF C!ConstantsOK
    <3> QED BY <3>1 DEF C!Init
  <2>3. /\ task \in [Conns -> C!NoTask \cup {"plan", "reject", "select", "pong", "join"}]
        /\ replay \in [Conns -> C!NoTask \cup {"drive", "send", "status", "poll"}]
    BY DEF C!Init, C!NoTask
  <2> QED BY <2>1, <2>2, <2>3 DEF C!Init, C!TypeOK
<1>2. C!TaskAfterCall /\ C!ReplayWithinTask /\ C!TaskRegistered
  BY DEF C!Init, C!TaskAfterCall, C!ReplayWithinTask, C!TaskRegistered, C!NoTask
<1>3. registry = {} /\ \A t \in AuthTokens : {d \in registry : client[d] = t} = {}
  BY DEF C!Init
<1>4. C!RegistryCapped
  BY <1>3, FS_EmptySet, SameCount DEF C!ConstantsOK, C!RegistryCapped
<1> QED BY <1>1, <1>2, <1>4 DEF C!IndInv

\* A smaller registry is still within the caps: what remove_from_registry does.
LEMMA ShrinkCapped ==
  ASSUME C!ConstantsOK, C!TypeOK, C!RegistryCapped, client' = client,
         registry' \subseteq registry
  PROVE  C!RegistryCapped'
<1>1. IsFiniteSet(registry)
  BY FS_Subset, SameCount DEF C!ConstantsOK, C!TypeOK
<1>2. /\ Cardinality(registry') =< Cardinality(registry)
      /\ Cardinality(registry') \in Nat /\ Cardinality(registry) \in Nat
  <2>1. registry' \in SUBSET registry
    OBVIOUS
  <2>2. IsFiniteSet(registry') /\ Cardinality(registry') =< Cardinality(registry)
    BY <1>1, <2>1, FS_Subset
  <2> QED BY <1>1, <2>2, FS_CardinalityType
<1>3. ASSUME NEW t \in AuthTokens
      PROVE  Cardinality({d \in registry' : client[d] = t}) =< MaxConnectionsPerToken
  <2> DEFINE S == {d \in registry : client[d] = t}
             T == {d \in registry' : client[d] = t}
  <2>1. S \in SUBSET registry /\ T \in SUBSET S
    OBVIOUS
  <2>2. IsFiniteSet(S)
    BY <1>1, <2>1, FS_Subset
  <2>3. IsFiniteSet(T) /\ Cardinality(T) =< Cardinality(S)
    BY <2>1, <2>2, FS_Subset
  <2>4. Cardinality(S) =< MaxConnectionsPerToken
    BY SameCount DEF C!RegistryCapped
  <2>5. Cardinality(S) \in Nat /\ Cardinality(T) \in Nat
    BY <2>2, <2>3, FS_CardinalityType
  <2> HIDE DEF S, T
  <2>6. Cardinality(T) =< MaxConnectionsPerToken
    BY <2>3, <2>4, <2>5 DEF C!ConstantsOK
  <2> QED BY <2>6 DEF T
<1>4. Cardinality(registry') =< MaxConnectionsTotal
  BY <1>2, SameCount DEF C!ConstantsOK, C!RegistryCapped
<1> QED BY <1>3, <1>4, SameCount DEF C!RegistryCapped

\* One more element makes a finite set larger by at most one.
LEMMA AddOne ==
  ASSUME NEW S, NEW x, IsFiniteSet(S)
  PROVE  /\ Cardinality(S) \in Nat /\ Cardinality(S \cup {x}) \in Nat
         /\ Cardinality(S \cup {x}) =< Cardinality(S) + 1
<1>1. Cardinality(S) \in Nat
  BY FS_CardinalityType
<1>2. Cardinality(S \cup {x}) = IF x \in S THEN Cardinality(S) ELSE Cardinality(S) + 1
  BY FS_AddElement
<1>3. CASE x \in S
  BY <1>1, <1>2, <1>3
<1>4. CASE x \notin S
  BY <1>1, <1>2, <1>4
<1> QED BY <1>3, <1>4

\* admit checks both caps and makes the entry in one critical section.
LEMMA AdmitCapped ==
  ASSUME C!ConstantsOK, C!TypeOK, C!RegistryCapped, NEW c \in Conns, C!Fits(c), client' = client,
         registry' = registry \cup {c}
  PROVE  C!RegistryCapped'
<1>1. IsFiniteSet(registry)
  BY FS_Subset, SameCount DEF C!ConstantsOK, C!TypeOK
<1>2. /\ Cardinality(registry) \in Nat /\ Cardinality(registry \cup {c}) \in Nat
      /\ Cardinality(registry \cup {c}) =< Cardinality(registry) + 1
  BY <1>1, AddOne
<1>3. Cardinality(registry') =< MaxConnectionsTotal
  BY <1>2, SameCount DEF C!ConstantsOK, C!Fits
<1>4. ASSUME NEW t \in AuthTokens
      PROVE  Cardinality({d \in registry' : client[d] = t}) =< MaxConnectionsPerToken
  <2> DEFINE S == {d \in registry : client[d] = t}
  <2>1. IsFiniteSet(S)
    <3>1. S \in SUBSET registry
      OBVIOUS
    <3> QED BY <1>1, <3>1, FS_Subset
  <2>2. CASE client[c] # t
    <3>1. {d \in registry' : client[d] = t} = S
      BY <2>2
    <3> QED BY <3>1, SameCount DEF C!RegistryCapped
  <2>3. CASE client[c] = t
    <3>1. {d \in registry' : client[d] = t} = S \cup {c}
      BY <2>3
    <3>2. C!SameToken(c) = S
      BY <2>3 DEF C!SameToken
    <3>3. client[c] # Anonymous
      BY <2>3 DEF C!ConstantsOK
    <3>4. Cardinality(S) < MaxConnectionsPerToken
      BY <3>2, <3>3, SameCount DEF C!Fits
    <3>5. /\ Cardinality(S) \in Nat /\ Cardinality(S \cup {c}) \in Nat
          /\ Cardinality(S \cup {c}) =< Cardinality(S) + 1
      BY <2>1, AddOne
    <3> HIDE DEF S
    <3>6. Cardinality(S \cup {c}) =< MaxConnectionsPerToken
      BY <3>4, <3>5 DEF C!ConstantsOK
    <3> QED BY <3>1, <3>6
  <2> QED BY <2>2, <2>3
<1> QED BY <1>3, <1>4, SameCount DEF C!RegistryCapped

\* The steps of a subscribe call before and after its customer's task.
LEMMA CallInd ==
  ASSUME C!ConstantsOK, C!IndInv, NEW c \in Conns, C!Subscribe(c) \/ C!CallStep(c)
  PROVE  C!IndInv'
<1> USE DEF C!IndInv
<1>1. CASE C!Admit(c)
  <2>1. C!TypeOK'
    BY <1>1 DEF C!Admit, C!TypeOK, C!NoTask
  <2>2. C!TaskAfterCall' /\ C!TaskRegistered'
    BY <1>1 DEF C!Admit, C!TypeOK, C!TaskAfterCall, C!TaskRegistered, C!NoTask
  <2>3. C!ReplayWithinTask'
    BY <1>1 DEF C!Admit, C!TypeOK, C!TaskAfterCall, C!ReplayWithinTask, C!NoTask
  <2>4. C!RegistryCapped'
    BY <1>1, AdmitCapped DEF C!Admit
  <2> QED BY <2>1, <2>2, <2>3, <2>4
<1>2. CASE C!Subscribe(c) \/ C!FirstFailed(c) \/ C!AdmitRefused(c) \/ C!StreamEnd(c)
  <2>1. C!TypeOK' /\ UNCHANGED <<client, registry, task, replay>>
    BY <1>2 DEF C!Subscribe, C!FirstFailed, C!AdmitRefused, C!StreamEnd, C!TypeOK
  <2>2. C!TaskAfterCall'
    BY <1>2 DEF C!Subscribe, C!FirstFailed, C!AdmitRefused, C!StreamEnd, C!TypeOK, C!TaskAfterCall
  <2>3. C!ReplayWithinTask' /\ C!TaskRegistered' /\ C!RegistryCapped'
    BY <2>1 DEF C!ReplayWithinTask, C!TaskRegistered, C!RegistryCapped
  <2> QED BY <2>1, <2>2, <2>3
<1> QED BY <1>1, <1>2 DEF C!CallStep

\* A send keeps the channel within its capacity.
LEMMA SendType ==
  ASSUME C!ConstantsOK, C!TypeOK, NEW c \in Conns, chan' = chan \/ C!SendOrFail(c)
  PROVE  chan' \in [Conns -> 0..Capacity]
<1>1. CASE chan' = chan
  BY <1>1 DEF C!TypeOK
<1>2. CASE C!CanSend(c) /\ chan' = [chan EXCEPT ![c] = @ + 1]
  <2>1. chan[c] \in 0..Capacity /\ chan[c] < Capacity
    BY <1>2 DEF C!TypeOK, C!CanSend
  <2>2. chan[c] + 1 \in 0..Capacity
    BY <2>1 DEF C!ConstantsOK
  <2> QED BY <1>2, <2>2 DEF C!TypeOK
<1> QED BY <1>1, <1>2 DEF C!SendOrFail

\* The steps of a customer's task: it gives its entry back last, when its
\* replay has ended.
LEMMA TaskInd ==
  ASSUME C!ConstantsOK, C!IndInv, NEW c \in Conns, C!TaskStep(c)
  PROVE  C!IndInv'
<1> USE DEF C!IndInv
<1>1. CASE C!FirstPlan(c) \/ C!PlanRejected(c)
  <2>1. C!TypeOK' /\ UNCHANGED <<client, registry, call>>
    BY <1>1 DEF C!FirstPlan, C!PlanRejected, C!TypeOK, C!NoTask
  <2>2. C!TaskAfterCall' /\ C!ReplayWithinTask' /\ C!TaskRegistered'
    BY <1>1 DEF C!FirstPlan, C!PlanRejected, C!TypeOK, C!TaskAfterCall, C!ReplayWithinTask,
      C!TaskRegistered, C!NoTask
  <2>3. C!RegistryCapped'
    BY <2>1 DEF C!RegistryCapped
  <2> QED BY <2>1, <2>2, <2>3
<1>2. CASE C!SeeShutdown(c) \/ C!SeeReplayEnd(c) \/ C!SeePing(c) \/ C!SeeClosed(c)
  <2>1. C!TypeOK' /\ UNCHANGED <<client, registry, call, replay>>
    BY <1>2 DEF C!SeeShutdown, C!SeeReplayEnd, C!SeePing, C!SeeClosed, C!Break, C!TypeOK, C!NoTask
  <2>2. C!TaskAfterCall' /\ C!ReplayWithinTask' /\ C!TaskRegistered'
    BY <1>2 DEF C!SeeShutdown, C!SeeReplayEnd, C!SeePing, C!SeeClosed, C!Break, C!TypeOK,
      C!TaskAfterCall, C!ReplayWithinTask, C!TaskRegistered, C!NoTask
  <2>3. C!RegistryCapped'
    BY <2>1 DEF C!RegistryCapped
  <2> QED BY <2>1, <2>2, <2>3
<1>3. CASE C!Pong(c)
  <2>1. C!TypeOK' /\ UNCHANGED <<client, registry, call, replay>>
    <3>1. chan' \in [Conns -> 0..Capacity]
      BY <1>3, SendType DEF C!Pong
    <3> QED BY <1>3, <3>1 DEF C!Pong, C!Break, C!TypeOK, C!NoTask
  <2>2. C!TaskAfterCall' /\ C!ReplayWithinTask' /\ C!TaskRegistered'
    BY <1>3 DEF C!Pong, C!Break, C!TypeOK, C!TaskAfterCall, C!ReplayWithinTask,
      C!TaskRegistered, C!NoTask
  <2>3. C!RegistryCapped'
    BY <2>1 DEF C!RegistryCapped
  <2> QED BY <2>1, <2>2, <2>3
<1>4. CASE C!Reject(c) \/ C!Join(c)
  <2>1. C!TypeOK' /\ UNCHANGED <<client, call, replay>> /\ registry' \subseteq registry
    <3>1. chan' \in [Conns -> 0..Capacity]
      BY <1>4, SendType DEF C!Reject, C!Join
    <3> QED BY <1>4, <3>1 DEF C!Reject, C!Join, C!Release, C!TypeOK, C!NoTask
  <2>2. C!TaskAfterCall' /\ C!TaskRegistered'
    BY <1>4 DEF C!Reject, C!Join, C!Release, C!TypeOK, C!TaskAfterCall, C!TaskRegistered, C!NoTask
  <2>3. C!ReplayWithinTask'
    BY <1>4 DEF C!Reject, C!Join, C!Release, C!TypeOK, C!ReplayWithinTask, C!NoTask
  <2>4. C!RegistryCapped'
    BY <2>1, ShrinkCapped
  <2> QED BY <2>1, <2>2, <2>3, <2>4
<1> QED BY <1>1, <1>2, <1>3, <1>4 DEF C!TaskStep

\* The steps of a replay task, which moves on only while it exists.
LEMMA ReplayInd ==
  ASSUME C!ConstantsOK, C!IndInv, NEW c \in Conns, C!ReplayStep(c)
  PROVE  C!IndInv'
<1> USE DEF C!IndInv
<1>1. UNCHANGED <<client, registry, call, task>>
  BY DEF C!ReplayStep, C!Due, C!Drained, C!Poll, C!IdleTimeout, C!ReplayError, C!SeeStop,
    C!Send, C!SendTimeout,
    C!SendStatus, C!SameButReplay
<1>2. replay[c] \notin C!NoTask
  BY DEF C!ReplayStep, C!Due, C!Drained, C!Poll, C!IdleTimeout, C!ReplayError, C!SeeStop,
    C!Send, C!SendTimeout,
    C!SendStatus, C!NoTask
<1>3. PICK where \in {"drive", "send", "status", "poll", "gone"} : C!ReplayTo(c, where)
  BY DEF C!ReplayStep, C!Due, C!Drained, C!Poll, C!IdleTimeout, C!ReplayError, C!SeeStop,
    C!Send, C!SendTimeout,
    C!SendStatus
<1>4. C!TypeOK'
  <2>1. UNCHANGED <<inbound, gone, stop, shutdown, server>>
    BY DEF C!ReplayStep, C!Due, C!Drained, C!Poll, C!IdleTimeout, C!ReplayError, C!SeeStop,
      C!Send, C!SendTimeout,
      C!SendStatus, C!SameButReplay
  <2>2. chan' \in [Conns -> 0..Capacity]
    <3>1. chan' = chan \/ C!SendOrFail(c)
      BY DEF C!ReplayStep, C!Due, C!Drained, C!Poll, C!IdleTimeout, C!ReplayError, C!SeeStop,
        C!Send, C!SendTimeout,
        C!SendStatus, C!SameButReplay
    <3> QED BY <3>1, SendType
  <2> QED BY <1>1, <1>3, <2>1, <2>2 DEF C!TypeOK, C!ReplayTo, C!NoTask
<1>5. C!ReplayWithinTask'
  BY <1>1, <1>2, <1>3 DEF C!ReplayTo, C!ReplayWithinTask, C!TypeOK
<1>6. C!TaskAfterCall' /\ C!TaskRegistered' /\ C!RegistryCapped'
  BY <1>1 DEF C!TaskAfterCall, C!TaskRegistered, C!RegistryCapped
<1> QED BY <1>4, <1>5, <1>6

\* Clients, the shutdown signal and the drain touch no task and no entry.
LEMMA OutsideInd ==
  ASSUME C!ConstantsOK, C!IndInv, (\E c \in Conns : C!ClientStep(c)) \/ C!Signal \/ C!Drain
  PROVE  C!IndInv'
<1> USE DEF C!IndInv
<1>1. UNCHANGED <<client, registry, task, replay>>
  BY DEF C!ClientStep, C!Read, C!HalfClose, C!Leave, C!Signal, C!Drain
<1>2. C!TypeOK' /\ C!TaskAfterCall'
  <2>1. CASE C!Signal \/ C!Drain
    BY <2>1 DEF C!Signal, C!Drain, C!TypeOK, C!TaskAfterCall
  <2>2. ASSUME NEW c \in Conns, C!ClientStep(c)
        PROVE  C!TypeOK' /\ C!TaskAfterCall'
    <3>1. CASE C!Read(c)
      <4>1. chan[c] \in 0..Capacity /\ chan[c] > 0
        BY <3>1 DEF C!Read, C!TypeOK
      <4>2. chan[c] - 1 \in 0..Capacity
        BY <4>1 DEF C!ConstantsOK
      <4> QED BY <3>1, <4>2 DEF C!Read, C!TypeOK, C!TaskAfterCall
    <3>2. CASE C!HalfClose(c)
      BY <3>2 DEF C!HalfClose, C!TypeOK, C!TaskAfterCall
    <3>3. CASE C!Leave(c)
      <4>1. 0 \in 0..Capacity
        BY DEF C!ConstantsOK
      <4> QED BY <3>3, <4>1 DEF C!Leave, C!TypeOK, C!TaskAfterCall
    <3> QED BY <2>2, <3>1, <3>2, <3>3 DEF C!ClientStep
  <2> QED BY <2>1, <2>2
<1>3. C!ReplayWithinTask' /\ C!TaskRegistered' /\ C!RegistryCapped'
  BY <1>1 DEF C!ReplayWithinTask, C!TaskRegistered, C!RegistryCapped
<1> QED BY <1>2, <1>3

\* Every step of the server and its clients preserves the inductive invariant.
LEMMA ConnectionsNext == C!ConstantsOK /\ C!IndInv /\ [C!Next]_(C!vars) => C!IndInv'
<1> SUFFICES ASSUME C!ConstantsOK, C!IndInv, [C!Next]_(C!vars) PROVE C!IndInv'
  OBVIOUS
<1>1. CASE UNCHANGED C!vars
  BY <1>1 DEF C!vars, C!IndInv, C!TypeOK, C!TaskAfterCall, C!ReplayWithinTask, C!TaskRegistered,
    C!RegistryCapped
<1>2. ASSUME NEW c \in Conns, C!Subscribe(c) \/ C!CallStep(c) PROVE C!IndInv'
  BY <1>2, CallInd
<1>3. ASSUME NEW c \in Conns, C!TaskStep(c) PROVE C!IndInv'
  BY <1>3, TaskInd
<1>4. ASSUME NEW c \in Conns, C!ReplayStep(c) PROVE C!IndInv'
  BY <1>4, ReplayInd
<1>5. CASE (\E c \in Conns : C!ClientStep(c)) \/ C!Signal \/ C!Drain
  BY <1>5, OutsideInd
<1> QED BY <1>1, <1>2, <1>3, <1>4, <1>5 DEF C!Next

\* The strengthened invariant of the connections holds in every reachable state.
THEOREM CustomerInvariant == C!Spec => []C!IndInv
<1>1. C!Init => C!IndInv
  BY ConnectionsInit, Constants
<1>2. C!IndInv /\ [C!Next]_(C!vars) => C!IndInv'
  BY ConnectionsNext, Constants
<1> QED BY <1>1, <1>2, PTL DEF C!Spec

\* A running task has an entry, and the entries are within the caps, so the
\* running tasks are.
LEMMA IndImpliesBounded == C!ConstantsOK /\ C!IndInv => LiveBounded
<1> SUFFICES ASSUME C!ConstantsOK, C!IndInv PROVE LiveBounded
  OBVIOUS
<1> USE DEF C!IndInv
<1>1. Live \in SUBSET registry
  BY DEF Live, C!TaskRegistered, C!ReplayWithinTask, C!NoTask, NoTask
<1>2. IsFiniteSet(registry)
  BY FS_Subset, SameCount DEF C!ConstantsOK, C!TypeOK
<1>3. IsFiniteSet(Live) /\ Cardinality(Live) =< Cardinality(registry)
  BY <1>1, <1>2, FS_Subset
<1>4. Cardinality(Live) =< MaxConnectionsTotal
  <2>1. Cardinality(Live) \in Nat /\ Cardinality(registry) \in Nat
    BY <1>2, <1>3, FS_CardinalityType
  <2>2. Cardinality(registry) =< MaxConnectionsTotal
    BY SameCount DEF C!RegistryCapped
  <2> QED BY <1>3, <2>1, <2>2 DEF C!ConstantsOK
<1>5. ASSUME NEW c \in Live, client[c] # Anonymous
      PROVE  Cardinality({d \in Live : client[d] = client[c]}) =< MaxConnectionsPerToken
  <2> DEFINE S == {d \in registry : client[d] = client[c]}
             T == {d \in Live : client[d] = client[c]}
  <2>1. client[c] \in AuthTokens
    BY <1>5 DEF C!TypeOK, Live
  <2>2. Cardinality(S) =< MaxConnectionsPerToken
    BY <2>1, SameCount DEF C!RegistryCapped
  <2>3. S \in SUBSET registry /\ T \in SUBSET S
    BY <1>1
  <2>4. IsFiniteSet(S)
    BY <1>2, <2>3, FS_Subset
  <2>5. IsFiniteSet(T) /\ Cardinality(T) =< Cardinality(S)
    BY <2>3, <2>4, FS_Subset
  <2>6. Cardinality(S) \in Nat /\ Cardinality(T) \in Nat
    BY <2>4, <2>5, FS_CardinalityType
  <2> HIDE DEF S, T
  <2>7. Cardinality(T) =< MaxConnectionsPerToken
    BY <2>2, <2>5, <2>6 DEF C!ConstantsOK
  <2> QED BY <2>7 DEF T
<1> QED BY <1>4, <1>5, SameCount DEF LiveBounded

(***************************************************************************)
(* For any caps, connections and tokens, the connections that still have a *)
(* task or a replay running, departing ones included, are within           *)
(* max_connections_total and, per token, max_connections_per_token.        *)
(***************************************************************************)
THEOREM LiveBoundedHolds == C!Spec => []LiveBounded
<1>1. C!IndInv => LiveBounded
  BY IndImpliesBounded, Constants
<1>2. C!Spec => []C!IndInv
  BY CustomerInvariant
<1> QED BY <1>1, <1>2, PTL

-----------------------------------------------------------------------------
(* What the end of a connection and the drain rest on.                     *)

\* At the start there is no entry, no task and no call.
LEMMA WaitsInit == C!Init => C!WaitInv
BY DEF C!Init, C!WaitInv, C!NoEntryLeaked, C!WaitsAreTold, C!CallsInv, C!NoTask

\* A call enters its client and starts its task in one step, and a stream ends
\* only after the task.
LEMMA CallWaits ==
  ASSUME C!IndInv, C!WaitInv, NEW c \in Conns, C!Subscribe(c) \/ C!CallStep(c)
  PROVE  C!WaitInv'
<1> USE DEF C!IndInv, C!WaitInv
<1>1. CASE C!Admit(c)
  <2>1. C!NoEntryLeaked'
    BY <1>1 DEF C!Admit, C!TypeOK, C!NoEntryLeaked, C!NoTask
  <2>2. C!WaitsAreTold'
    BY <1>1 DEF C!Admit, C!TypeOK, C!WaitsAreTold
  <2>3. C!CallsInv'
    BY <1>1 DEF C!Admit, C!TypeOK, C!CallsInv, C!NoTask
  <2> QED BY <2>1, <2>2, <2>3
<1>2. CASE C!Subscribe(c) \/ C!FirstFailed(c) \/ C!AdmitRefused(c) \/ C!StreamEnd(c)
  <2>1. UNCHANGED <<inbound, gone, registry, task, replay, stop, server>>
    BY <1>2 DEF C!Subscribe, C!FirstFailed, C!AdmitRefused, C!StreamEnd
  <2>2. C!NoEntryLeaked' /\ C!WaitsAreTold'
    BY <2>1 DEF C!NoEntryLeaked, C!WaitsAreTold
  <2>3. C!CallsInv'
    BY <1>2 DEF C!Subscribe, C!FirstFailed, C!AdmitRefused, C!StreamEnd, C!TypeOK,
      C!TaskAfterCall, C!CallsInv, C!NoTask
  <2> QED BY <2>2, <2>3
<1> QED BY <1>1, <1>2 DEF C!CallStep

\* A task waits for its replay only after it has told it to stop, and gives its
\* entry back as it ends.
LEMMA TaskWaits ==
  ASSUME C!IndInv, C!WaitInv, NEW c \in Conns, C!TaskStep(c)
  PROVE  C!WaitInv'
<1> USE DEF C!IndInv, C!WaitInv
<1>1. /\ UNCHANGED <<call, inbound, gone, server>>
      /\ task[c] \notin C!NoTask
  BY DEF C!TaskStep, C!FirstPlan, C!PlanRejected, C!Reject, C!SeeShutdown, C!SeeReplayEnd,
    C!SeePing, C!SeeClosed, C!Pong, C!Join, C!NoTask
<1>2. CASE C!Reject(c) \/ C!Join(c)
  <2>1. UNCHANGED <<replay, stop>> /\ C!Release(c)
    BY <1>2 DEF C!Reject, C!Join
  <2>2. C!NoEntryLeaked'
    BY <1>1, <2>1 DEF C!Release, C!TypeOK, C!NoEntryLeaked, C!NoTask
  <2>3. C!WaitsAreTold' /\ C!CallsInv'
    BY <1>1, <2>1 DEF C!Release, C!TypeOK, C!WaitsAreTold, C!CallsInv, C!NoTask
  <2> QED BY <2>2, <2>3
<1>3. CASE ~(C!Reject(c) \/ C!Join(c))
  <2>1. PICK p \in {"reject", "select", "pong", "join"} : task' = [task EXCEPT ![c] = p]
    BY <1>3 DEF C!TaskStep, C!FirstPlan, C!PlanRejected, C!SeeShutdown, C!SeeReplayEnd,
      C!SeePing, C!SeeClosed, C!Pong, C!Break
  <2>2. registry' = registry
    BY <1>3 DEF C!TaskStep, C!FirstPlan, C!PlanRejected, C!SeeShutdown, C!SeeReplayEnd,
      C!SeePing, C!SeeClosed, C!Pong
  <2>3. C!NoEntryLeaked' /\ C!CallsInv'
    BY <1>1, <2>1, <2>2 DEF C!TypeOK, C!NoEntryLeaked, C!CallsInv, C!NoTask
  <2>4. C!WaitsAreTold'
    BY <1>1, <1>3 DEF C!TaskStep, C!FirstPlan, C!PlanRejected, C!SeeShutdown, C!SeeReplayEnd,
      C!SeePing, C!SeeClosed, C!Pong, C!Break, C!TypeOK, C!WaitsAreTold
  <2> QED BY <2>3, <2>4
<1> QED BY <1>2, <1>3

\* A replay leaves everything but itself and the channel alone, and once it was
\* there it stays awaitable.
LEMMA ReplayWaits ==
  ASSUME C!IndInv, C!WaitInv, NEW c \in Conns, C!ReplayStep(c)
  PROVE  C!WaitInv'
<1> USE DEF C!IndInv, C!WaitInv
<1>1. UNCHANGED <<call, inbound, gone, registry, task, stop, server>>
  BY DEF C!ReplayStep, C!Due, C!Drained, C!Poll, C!IdleTimeout, C!ReplayError, C!SeeStop,
    C!Send, C!SendTimeout, C!SendStatus, C!SameButReplay
<1>2. PICK where \in {"drive", "send", "status", "poll", "gone"} : C!ReplayTo(c, where)
  BY DEF C!ReplayStep, C!Due, C!Drained, C!Poll, C!IdleTimeout, C!ReplayError, C!SeeStop,
    C!Send, C!SendTimeout, C!SendStatus
<1>3. C!NoEntryLeaked' /\ C!CallsInv'
  BY <1>1 DEF C!NoEntryLeaked, C!CallsInv
<1>4. C!WaitsAreTold'
  BY <1>1, <1>2 DEF C!ReplayTo, C!TypeOK, C!WaitsAreTold
<1> QED BY <1>3, <1>4

\* A client that leaves closes its requests too; the drain waits for every call.
LEMMA OutsideWaits ==
  ASSUME C!IndInv, C!WaitInv, (\E c \in Conns : C!ClientStep(c)) \/ C!Signal \/ C!Drain
  PROVE  C!WaitInv'
<1> USE DEF C!IndInv, C!WaitInv
<1>1. UNCHANGED <<registry, task, replay, stop>>
  BY DEF C!ClientStep, C!Read, C!HalfClose, C!Leave, C!Signal, C!Drain
<1>2. C!NoEntryLeaked'
  BY <1>1 DEF C!NoEntryLeaked
<1>3. CASE C!Signal \/ C!Drain
  BY <1>1, <1>2, <1>3 DEF C!Signal, C!Drain, C!WaitsAreTold, C!CallsInv
<1>4. ASSUME NEW c \in Conns, C!ClientStep(c) PROVE C!WaitsAreTold' /\ C!CallsInv'
  BY <1>1, <1>4 DEF C!ClientStep, C!Read, C!HalfClose, C!Leave, C!TypeOK, C!WaitsAreTold,
    C!CallsInv
<1> QED BY <1>2, <1>3, <1>4

\* Entries, waits and calls stay tied together in every reachable state.
THEOREM WaitsInvariant == C!Spec => []C!WaitInv
<1>1. C!IndInv /\ C!WaitInv /\ [C!Next]_(C!vars) => C!WaitInv'
  <2> SUFFICES ASSUME C!IndInv, C!WaitInv, [C!Next]_(C!vars) PROVE C!WaitInv'
    OBVIOUS
  <2>1. CASE UNCHANGED C!vars
    BY <2>1 DEF C!vars, C!WaitInv, C!NoEntryLeaked, C!WaitsAreTold, C!CallsInv
  <2>2. ASSUME NEW c \in Conns, C!Subscribe(c) \/ C!CallStep(c) PROVE C!WaitInv'
    BY <2>2, CallWaits
  <2>3. ASSUME NEW c \in Conns, C!TaskStep(c) PROVE C!WaitInv'
    BY <2>3, TaskWaits
  <2>4. ASSUME NEW c \in Conns, C!ReplayStep(c) PROVE C!WaitInv'
    BY <2>4, ReplayWaits
  <2>5. CASE (\E c \in Conns : C!ClientStep(c)) \/ C!Signal \/ C!Drain
    BY <2>5, OutsideWaits
  <2> QED BY <2>1, <2>2, <2>3, <2>4, <2>5 DEF C!Next
<1>2. C!Spec => []C!IndInv
  BY CustomerInvariant
<1> QED BY <1>1, <1>2, WaitsInit, PTL DEF C!Spec

(***************************************************************************)
(* An entry of the registry always has a running task that will remove it, *)
(* and a running task has its entry: no early return leaks a place.        *)
(***************************************************************************)
THEOREM NoEntryLeakedHolds == C!Spec => []C!NoEntryLeaked
<1>1. C!WaitInv => C!NoEntryLeaked
  BY DEF C!WaitInv
<1>2. C!Spec => []C!WaitInv
  BY WaitsInvariant
<1> QED BY <1>1, <1>2, PTL

(***************************************************************************)
(* Customer::run awaits its replay only after replay_stop is set and while *)
(* there is one, and its select sees the requests of a client that has     *)
(* left end: the two tasks never wait for each other.                      *)
(***************************************************************************)
THEOREM WaitsAreToldHolds == C!Spec => []C!WaitsAreTold
<1>1. C!WaitInv => C!WaitsAreTold
  BY DEF C!WaitInv
<1>2. C!Spec => []C!WaitInv
  BY WaitsInvariant
<1> QED BY <1>1, <1>2, PTL

(***************************************************************************)
(* When serve_with_shutdown has returned, the tasks that still run are     *)
(* those of clients who had left: the drain cuts off no open stream.       *)
(***************************************************************************)
THEOREM DrainedIsQuietHolds == C!Spec => []C!DrainedIsQuiet
<1>1. C!IndInv /\ C!WaitInv => C!DrainedIsQuiet
  <2> SUFFICES ASSUME C!IndInv, C!WaitInv, server = "down", NEW c \in C!Live, ~gone[c]
               PROVE  FALSE
    BY DEF C!DrainedIsQuiet
  <2>1. c \in Conns /\ task[c] \notin C!NoTask
    BY DEF C!IndInv, C!Live, C!ReplayWithinTask, C!NoTask
  <2>2. call[c] = "closed"
    BY <2>1 DEF C!IndInv, C!WaitInv, C!CallsInv, C!TaskAfterCall, C!NoTask
  <2> QED BY <2>1, <2>2 DEF C!WaitInv, C!CallsInv
<1>2. C!Spec => []C!IndInv
  BY CustomerInvariant
<1>3. C!Spec => []C!WaitInv
  BY WaitsInvariant
<1> QED BY <1>1, <1>2, <1>3, PTL
=============================================================================
