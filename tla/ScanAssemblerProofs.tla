------------------------- MODULE ScanAssemblerProofs -------------------------
(***************************************************************************)
(* The safety of ScanAssembler for revolutions, reads, losses and sessions  *)
(* of any number.                                                           *)
(*                                                                          *)
(* The inductive invariant says what frame_tmp_ and the line hold: at the   *)
(* front points of an earlier session and no whole revolution of them       *)
(* (OldFirst); then a piece of what the sensor measured, one point after    *)
(* another where nothing was lost (CleanSoFar), and in any case a sequence  *)
(* of positions that never goes back, has no more gaps than packets were    *)
(* lost and begins near to where a revolution does (OnTrack).               *)
(*                                                                          *)
(* That two revolutions at most wait is shown for a receive thread that     *)
(* reads before a revolution has gone by (ReadsWithinATurn): then all the   *)
(* loop has not looked at came with the last read (Bounded).                *)
(***************************************************************************)
EXTENDS ScanAssembler, FiniteSetTheorems, SequenceTheorems, TLAPS

-----------------------------------------------------------------------------
(* Induction over numbers.                                                    *)

\* A set of numbers has a least one.
LEMMA Least ==
  ASSUME NEW T, T \subseteq Nat, T # {}
  PROVE  \E m \in T : \A k \in T : m <= k
<1> DEFINE R == OpToRel(<, Nat)
<1>1. IsWellFoundedOn(R, Nat)
  BY NatLessThanWellFounded
<1>2. PICK m \in T : \A k \in T : ~ (<<k, m>> \in R)
  <2> HIDE DEF R
  <2> QED BY <1>1, WFMin
<1>3. ASSUME NEW k \in T PROVE m <= k
  <2>1. <<k, m>> \in Nat \X Nat
    OBVIOUS
  <2>2. ~(k < m)
    BY <1>2, <2>1 DEF OpToRel
  <2> QED BY <2>2
<1> QED BY <1>3

\* What holds of 0, and of k + 1 when of k, holds up to n.
LEMMA Induction ==
  ASSUME NEW S, NEW n \in Nat, 0 \in S,
         \A k \in 0 .. n - 1 : k \in S => k + 1 \in S
  PROVE  \A k \in 0 .. n : k \in S
<1> DEFINE T == {k \in 0 .. n : k \notin S}
<1> SUFFICES ASSUME T # {} PROVE FALSE
  OBVIOUS
<1>1. PICK m \in T : \A k \in T : m <= k
  <2>1. T \subseteq Nat
    OBVIOUS
  <2> HIDE DEF T
  <2> QED BY <2>1, Least
<1>2. m - 1 \in 0 .. n - 1 /\ m - 1 \notin T
  BY <1>1
<1> QED BY <1>2

-----------------------------------------------------------------------------
(* The invariant: the types, and the sessions.                                *)

\* Nothing that was measured is from a later revolution than what comes next,
\* and the line holds nothing of an earlier session.
Behind ==
  /\ next # <<>> =>
       /\ start <= next.turn
       /\ \A i \in 1 .. Len(line) : line[i].point.turn <= next.turn
       /\ \A i \in 1 .. Len(frame_tmp_) : frame_tmp_[i].turn <= next.turn
       /\ \A p \in BagToSet(laser_scan_data_) : p.turn <= next.turn
  /\ \A i \in 1 .. Len(line) : start <= line[i].point.turn

\* The first k points of f are from an earlier session and hold no whole
\* revolution; what follows is from this one.
OldUpTo(f, k) ==
  /\ \A i \in 1 .. k : ~Wrap(f, i)
  /\ \A i \in k + 1 .. Len(f) : start <= f[i].turn

\* Without a backlog such points only wait at the front of frame_tmp_, and are
\* gone when a scan of this session was cut.
OldFirst ==
  ~backlog => \E k \in 0 .. Len(frame_tmp_) :
                /\ OldUpTo(frame_tmp_, k)
                /\ ~first_frame_ => k = 0

FlagTypes ==
  /\ first_frame_ \in BOOLEAN
  /\ last_pkg_timestamp_ \in BOOLEAN
  /\ ~last_pkg_timestamp_ => first_frame_
  /\ speed_ \in BOOLEAN
  /\ clean \in BOOLEAN
  /\ backlog \in BOOLEAN

SensorTypes ==
  /\ next \in Point \cup {<<>>}
  /\ motor \in {"turning", "standing", "resumed"}
  /\ round \subseteq Turn
  /\ start \in Turn

CountTypes ==
  /\ session \in 1 .. MaxSession
  /\ lost \in 0 .. MaxLost
  /\ still \in 0 .. MaxStill

PointBag(bag) == IsABag(bag) /\ BagToSet(bag) \subseteq Point

PointTypes ==
  /\ line \in Seq(Packet) /\ Len(line) <= ReadMax
  /\ frame_tmp_ \in Seq(Point)
  /\ PointBag(laser_scan_data_)

Types == FlagTypes /\ SensorTypes /\ CountTypes /\ PointTypes

CollectedStep(f, data, j) ==
  IF Wrap(f, j) THEN SubSeq(f, 1, j - 1) \o data ELSE data

Collects(f, g, n) ==
  g = [j \in 0 .. n |-> IF j = 0 THEN <<>> ELSE CollectedStep(f, g[j - 1], j)]

\* The function that Collected chooses exists.
LEMMA CollectedExists ==
  ASSUME NEW f, NEW n \in Nat
  PROVE  \E g : Collects(f, g, n)
<1> DEFINE S == {m \in 0 .. n : \E g : Collects(f, g, m)}
<1>1. 0 \in S
  <2>1. Collects(f, [j \in 0 .. 0 |-> <<>>], 0)
    BY DEF Collects
  <2> QED BY <2>1
<1>2. ASSUME NEW k \in 0 .. n - 1, k \in S PROVE k + 1 \in S
  <2>1. PICK g : Collects(f, g, k)
    BY <1>2
  <2> DEFINE h == [j \in 0 .. k + 1 |->
                     IF j = k + 1 THEN CollectedStep(f, g[k], k + 1) ELSE g[j]]
  <2>2. ASSUME NEW j \in 0 .. k + 1
        PROVE  h[j] = IF j = 0 THEN <<>> ELSE CollectedStep(f, h[j - 1], j)
    <3>1. CASE j = k + 1
      <4>1. h[j] = CollectedStep(f, g[k], j) /\ h[j - 1] = g[k] /\ j # 0
        BY <3>1
      <4> QED BY <4>1
    <3>2. CASE j # k + 1
      <4>1. j \in 0 .. k /\ h[j] = g[j]
        BY <3>2
      <4>2. j # 0 => h[j - 1] = g[j - 1]
        BY <3>2
      <4>3. g[j] = IF j = 0 THEN <<>> ELSE CollectedStep(f, g[j - 1], j)
        BY <2>1, <4>1 DEF Collects
      <4> QED BY <4>1, <4>2, <4>3
    <3> QED BY <3>1, <3>2
  <2>3. h = [j \in 0 .. k + 1 |->
               IF j = 0 THEN <<>> ELSE CollectedStep(f, h[j - 1], j)]
    <3>1. h = [j \in 0 .. k + 1 |-> h[j]]
      OBVIOUS
    <3> HIDE DEF h
    <3> QED BY <2>2, <3>1
  <2>4. Collects(f, h, k + 1)
    BY <2>3 DEF Collects
  <2> QED BY <2>4
<1> HIDE DEF S
<1>3. n \in S
  BY <1>1, <1>2, Induction
<1> QED BY <1>3 DEF S

\* Collected is that function.
LEMMA CollectedIs ==
  ASSUME NEW f, Len(f) \in Nat
  PROVE  \E g : /\ Collects(f, g, Len(f))
                /\ \A i : Collected(f, i) = g[i]
<1> DEFINE g == CHOOSE g : Collects(f, g, Len(f))
<1>1. Collects(f, g, Len(f))
  BY CollectedExists
<1>2. ASSUME NEW i PROVE Collected(f, i) = g[i]
  BY DEF Collected, Collects, CollectedStep
<1> QED BY <1>1, <1>2

\* So Collected can be expanded step by step.
LEMMA CollectedDef ==
  ASSUME NEW f, Len(f) \in Nat, NEW i \in 0 .. Len(f)
  PROVE  /\ Collected(f, 0) = <<>>
         /\ i # 0 => Collected(f, i) = CollectedStep(f, Collected(f, i - 1), i)
<1>1. PICK g : Collects(f, g, Len(f)) /\ \A j : Collected(f, j) = g[j]
  BY CollectedIs
<1>2. \A j \in 0 .. Len(f) : g[j] = IF j = 0 THEN <<>> ELSE CollectedStep(f, g[j - 1], j)
  BY <1>1 DEF Collects
<1> QED BY <1>1, <1>2
\* What is collected comes from before the point.
LEMMA CollectedFrom ==
  ASSUME NEW S, NEW f \in Seq(S), NEW i \in 0 .. Len(f)
  PROVE  /\ Collected(f, i) \in Seq(S)
         /\ \A k \in 1 .. Len(Collected(f, i)) :
              \E j \in 1 .. i - 1 : Collected(f, i)[k] = f[j]
<1> DEFINE P(m) == /\ Collected(f, m) \in Seq(S)
                   /\ \A k \in 1 .. Len(Collected(f, m)) :
                        \E j \in 1 .. m - 1 : Collected(f, m)[k] = f[j]
           D == {m \in 0 .. Len(f) : P(m)}
<1>0. Len(f) \in Nat
  OBVIOUS
<1>1. 0 \in D
  <2>1. Collected(f, 0) = <<>>
    BY <1>0, CollectedDef
  <2>2. <<>> \in Seq(S) /\ 1 .. Len(<<>>) = {}
    BY EmptySeq
  <2>3. Len(Collected(f, 0)) = Len(<<>>)
    BY <2>1
  <2>4. P(0)
    BY <2>1, <2>2, <2>3, Zenon
  <2> QED BY <1>0, <2>4
<1>2. ASSUME NEW m \in 0 .. Len(f) - 1, m \in D PROVE m + 1 \in D
  <2> DEFINE c == Collected(f, m)
             d == Collected(f, m + 1)
  <2>1. d = CollectedStep(f, c, m + 1)
    <3>1. m + 1 \in 0 .. Len(f) /\ m + 1 # 0 /\ (m + 1) - 1 = m
      BY <1>0
    <3> QED BY <1>0, <3>1, CollectedDef
  <2>2. c \in Seq(S) /\ \A k \in 1 .. Len(c) : \E j \in 1 .. m - 1 : c[k] = f[j]
    BY <1>2
  <2> DEFINE a == SubSeq(f, 1, m)
  <2>3. a \in Seq(S) /\ Len(a) = m /\ \A k \in 1 .. m : a[k] = f[k]
    <3>1. \A k \in 1 .. m : f[k] \in S
      BY <1>0
    <3> QED BY <1>0, <3>1, SubSeqProperties
  <2>4. P(m + 1)
    <3> HIDE DEF a, c, d
    <3>1. CASE Wrap(f, m + 1)
      <4>1. d = a \o c
        BY <1>0, <2>1, <3>1 DEF CollectedStep, a
      <4>2. /\ d \in Seq(S) /\ Len(d) = m + Len(c)
            /\ \A k \in 1 .. m + Len(c) : d[k] = IF k <= m THEN a[k] ELSE c[k - m]
        <5>1. /\ a \o c \in Seq(S)
              /\ Len(a \o c) = Len(a) + Len(c)
              /\ \A k \in 1 .. Len(a) + Len(c) :
                   (a \o c)[k] = IF k <= Len(a) THEN a[k] ELSE c[k - Len(a)]
          BY <2>2, <2>3, ConcatProperties
        <5> QED BY <2>3, <4>1, <5>1
      <4>3. ASSUME NEW k \in 1 .. Len(d) PROVE \E j \in 1 .. m : d[k] = f[j]
        <5>1. CASE k <= m
          BY <1>0, <2>3, <4>2, <5>1
        <5>2. CASE k > m
          <6>1. k - m \in 1 .. Len(c) /\ d[k] = c[k - m]
            BY <2>2, <4>2, <5>2, LenProperties
          <6> QED BY <2>2, <6>1
        <5> QED BY <5>1, <5>2
      <4> QED BY <4>2, <4>3 DEF d
    <3>2. CASE ~Wrap(f, m + 1)
      <4>1. d = c
        BY <2>1, <3>2 DEF CollectedStep
      <4> QED BY <2>2, <4>1 DEF d
    <3> QED BY <3>1, <3>2
  <2> QED BY <1>0, <2>4
<1> HIDE DEF D
<1>3. i \in D
  BY <1>0, <1>1, <1>2, Induction
<1> QED BY <1>3 DEF D

-----------------------------------------------------------------------------
\* A scan is a bag of the points it is made of.
LEMMA ScanIs ==
  ASSUME NEW s \in Seq(Point)
  PROVE  PointBag(Scan(s)) /\ BagToSet(Scan(s)) = {s[i] : i \in 1 .. Len(s)}
<1> DEFINE points == {s[i] : i \in 1 .. Len(s)}
           places(p) == {i \in 1 .. Len(s) : s[i] = p}
<1>1. Scan(s) = [p \in points |-> Cardinality(places(p))]
  BY DEF Scan
<1>2. points \subseteq Point
  BY ElementOfSeq
<1>3. ASSUME NEW p \in points PROVE Cardinality(places(p)) \in {n \in Nat : n > 0}
  <2>1. places(p) \subseteq 1 .. Len(s) /\ places(p) # {}
    OBVIOUS
  <2>2. IsFiniteSet(1 .. Len(s))
    BY FS_Interval
  <2> HIDE DEF places, points
  <2>3. IsFiniteSet(places(p))
    BY <2>1, <2>2, FS_Subset
  <2>4. Cardinality(places(p)) \in Nat /\ Cardinality(places(p)) # 0
    BY <2>1, <2>3, FS_CardinalityType, FS_EmptySet
  <2> QED BY <2>4
<1> HIDE DEF points, places
<1>4. DOMAIN Scan(s) = points
  BY <1>1
<1>5. Scan(s) \in [points -> {n \in Nat : n > 0}]
  BY <1>1, <1>3
<1> QED BY <1>2, <1>4, <1>5 DEF PointBag, IsABag, BagToSet, points

\* A revolution of which every point was collected is a scan that holds every
\* point once.
LEMMA ScanOfTurn ==
  ASSUME NEW s \in Seq(Point), NEW t, Len(s) = N,
         \A i \in 1 .. N : s[i] = [turn |-> t, at |-> i - 1]
  PROVE  Scan(s) = SetToBag({[turn |-> t, at |-> a] : a \in 0 .. N - 1})
<1> DEFINE points == {s[i] : i \in 1 .. Len(s)}
           turn == {[turn |-> t, at |-> a] : a \in 0 .. N - 1}
           places(p) == {i \in 1 .. Len(s) : s[i] = p}
<1>0. N \in Nat
  BY NAssumption
<1>1. ASSUME NEW a \in 0 .. N - 1
      PROVE  a + 1 \in 1 .. N /\ s[a + 1] = [turn |-> t, at |-> a]
  <2>1. a + 1 \in 1 .. N /\ (a + 1) - 1 = a
    BY <1>0
  <2> QED BY <2>1
<1>2. ASSUME NEW i \in 1 .. N PROVE i - 1 \in 0 .. N - 1
  BY <1>0
<1>3. points = turn
  <2>1. ASSUME NEW a \in 0 .. N - 1 PROVE [turn |-> t, at |-> a] \in points
    BY <1>1
  <2>2. ASSUME NEW i \in 1 .. N PROVE s[i] \in turn
    <3>1. s[i] = [turn |-> t, at |-> i - 1]
      OBVIOUS
    <3> QED BY <1>2, <3>1
  <2>3. \A p : p \in points <=> p \in turn
    BY <2>1, <2>2
  <2> QED BY <2>3
<1>4. ASSUME NEW p \in points PROVE Cardinality(places(p)) = 1
  <2>1. PICK i \in 1 .. N : s[i] = p
    OBVIOUS
  <2>2. ASSUME NEW j \in 1 .. N, s[j] = p PROVE j = i
    <3>1. s[i].at = i - 1 /\ s[j].at = j - 1
      OBVIOUS
    <3>2. i \in Int /\ j \in Int /\ i - 1 = j - 1
      BY <2>1, <2>2, <3>1
    <3> QED BY <3>2
  <2>3. places(p) = {i}
    BY <2>1, <2>2
  <2> HIDE DEF places, points
  <2> QED BY <2>3, FS_Singleton
<1>5. Scan(s) = [p \in points |-> Cardinality(places(p))]
  BY DEF Scan
<1> HIDE DEF points, places, turn
<1>6. Scan(s) = [p \in turn |-> 1]
  BY <1>3, <1>4, <1>5
<1> QED BY <1>6 DEF SetToBag, turn

-----------------------------------------------------------------------------

\* What is measured after a point is not of an earlier revolution.
LEMMA AfterIs ==
  ASSUME NEW p \in Point
  PROVE  /\ After(p) \in Point \cup {<<>>}
         /\ After(p) # <<>> => p.turn <= After(p).turn
         /\ p.turn \in Int /\ p.at \in Int
<1> p.turn \in 1 .. MaxTurn /\ p.at \in 0 .. N - 1 /\ MaxTurn \in Nat /\ N \in Nat
  BY BoundAssumption, NAssumption DEF Point, Turn
<1>1. CASE p.at < N - 1
  <2>1. After(p) = [p EXCEPT !.at = @ + 1]
    BY <1>1 DEF After
  <2>2. After(p) \in Point /\ After(p).turn = p.turn
    BY <1>1, <2>1 DEF Point, Turn
  <2> QED BY <2>2
<1>2. CASE p.at >= N - 1 /\ p.turn < MaxTurn
  <2>1. After(p) = [turn |-> p.turn + 1, at |-> 0]
    BY <1>2 DEF After
  <2>2. After(p) \in Point /\ After(p).turn = p.turn + 1
    BY <1>2, <2>1, NAssumption DEF Point, Turn
  <2> QED BY <2>2
<1>3. CASE p.at >= N - 1 /\ ~(p.turn < MaxTurn)
  BY <1>3 DEF After
<1> QED BY <1>1, <1>2, <1>3

\* <<>> is not a point.
LEMMA NoPoint == <<>> \notin Point
<1> SUFFICES ASSUME <<>> \in Point PROVE FALSE
  OBVIOUS
<1> QED BY DEF Point

\* The points that a callback adds to frame_tmp_.
Read == IF last_pkg_timestamp_ THEN line ELSE Tail(line)

\* Parse appends the points of Read to frame_tmp_.
LEMMA ParseIs ==
  ASSUME Types, line # <<>>
  PROVE  /\ Parse(line).points \in Seq(Point)
         /\ Read \in Seq(Packet) /\ Len(Read) <= Len(line)
         /\ Len(Parse(line).points) = Len(frame_tmp_) + Len(Read)
         /\ \A i \in 1 .. Len(frame_tmp_) : Parse(line).points[i] = frame_tmp_[i]
         /\ \A i \in 1 .. Len(Read) :
              Parse(line).points[Len(frame_tmp_) + i] = Read[i].point
         /\ \A i \in 1 .. Len(Read) :
              Read[i] \in Packet /\ \E j \in 1 .. Len(line) : Read[i] = line[j]
         /\ Parse(line).speed = IF Read = <<>> THEN speed_ ELSE Read[Len(Read)].turning
         /\ Parse(line).speed \in BOOLEAN
<1>1. line \in Seq(Packet) /\ frame_tmp_ \in Seq(Point)
  BY DEF Types, PointTypes
<1>2. Read \in Seq(Packet) /\ Len(Read) <= Len(line) /\ Len(Read) \in Nat
  BY <1>1, HeadTailProperties DEF Read
<1>3. \A i \in 1 .. Len(Read) :
        Read[i] \in Packet /\ \E j \in 1 .. Len(line) : Read[i] = line[j]
  <2>1. CASE last_pkg_timestamp_
    BY <1>1, <2>1, ElementOfSeq DEF Read
  <2>2. CASE ~last_pkg_timestamp_
    <3>1. /\ Read = Tail(line) /\ Len(Read) = Len(line) - 1 /\ Len(line) \in Nat
          /\ \A i \in 1 .. Len(Read) : Read[i] = line[i + 1]
      BY <1>1, <2>2, HeadTailProperties DEF Read
    <3>2. \A i \in 1 .. Len(Read) : i + 1 \in 1 .. Len(line)
      BY <3>1
    <3> QED BY <1>1, <3>1, <3>2, ElementOfSeq
  <2> QED BY <2>1, <2>2
<1> DEFINE new == [i \in DOMAIN Read |-> Read[i].point]
<1>4. /\ new \in Seq(Point) /\ Len(new) = Len(Read)
      /\ \A i \in 1 .. Len(Read) : new[i] = Read[i].point
  <2>1. DOMAIN Read = 1 .. Len(Read)
    BY <1>2, LenProperties
  <2>2. \A i \in 1 .. Len(Read) : Read[i].point \in Point
    BY <1>3 DEF Packet
  <2>3. new \in [1 .. Len(Read) -> Point]
    BY <2>1, <2>2
  <2>4. new \in Seq(Point) /\ Len(new) = Len(Read)
    <3> HIDE DEF new
    <3> QED BY <1>2, <2>3, SeqDef
  <2> QED BY <2>1, <2>4
<1>5. /\ Parse(line).points = frame_tmp_ \o new
      /\ Parse(line).speed = IF Read = <<>> THEN speed_ ELSE Read[Len(Read)].turning
  BY DEF Parse, Read
<1>6. /\ frame_tmp_ \o new \in Seq(Point)
      /\ Len(frame_tmp_ \o new) = Len(frame_tmp_) + Len(new)
      /\ \A i \in 1 .. Len(frame_tmp_) + Len(new) : (frame_tmp_ \o new)[i] =
           IF i <= Len(frame_tmp_) THEN frame_tmp_[i] ELSE new[i - Len(frame_tmp_)]
  <2> HIDE DEF new
  <2> QED BY <1>1, <1>4, ConcatProperties
<1>7. Parse(line).speed \in BOOLEAN
  <2>1. Read # <<>> => Len(Read) \in 1 .. Len(Read)
    BY <1>2, EmptySeq
  <2>2. Read # <<>> => Read[Len(Read)].turning \in BOOLEAN
    BY <1>3, <2>1 DEF Packet
  <2> QED BY <1>5, <2>2 DEF Types, FlagTypes
<1>8. Len(frame_tmp_) \in Nat
  BY <1>1
<1> HIDE DEF new
<1>9. ASSUME NEW i \in 1 .. Len(Read)
      PROVE  (frame_tmp_ \o new)[Len(frame_tmp_) + i] = Read[i].point
  <2>1. /\ Len(frame_tmp_) + i \in 1 .. Len(frame_tmp_) + Len(new)
        /\ ~(Len(frame_tmp_) + i <= Len(frame_tmp_))
    BY <1>2, <1>4, <1>8
  <2> QED BY <1>2, <1>4, <1>6, <1>8, <2>1
<1>10. ASSUME NEW i \in 1 .. Len(frame_tmp_)
       PROVE  (frame_tmp_ \o new)[i] = frame_tmp_[i]
  BY <1>2, <1>4, <1>6, <1>8
<1> QED BY <1>2, <1>3, <1>4, <1>5, <1>6, <1>7, <1>9, <1>10

\* What is left when the front of f is erased.
LEMMA Erased ==
  ASSUME NEW f \in Seq(Point), NEW c \in 0 .. Len(f), EraseFront(f, c)
  PROVE  /\ frame_tmp_' \in Seq(Point)
         /\ Len(frame_tmp_)' = Len(f) - c
         /\ \A i \in 1 .. Len(f) - c : frame_tmp_'[i] = f[i + c]
         /\ \A i \in 2 .. Len(f) - c : Wrap(frame_tmp_, i)' <=> Wrap(f, i + c)
<1>1. frame_tmp_' = SubSeq(f, c + 1, Len(f)) /\ Len(f) \in Nat
  BY DEF EraseFront
<1>2. \A i \in c + 1 .. Len(f) : f[i] \in Point
  BY <1>1, ElementOfSeq
<1>3. /\ frame_tmp_' \in Seq(Point)
      /\ Len(frame_tmp_') = IF c + 1 <= Len(f) THEN Len(f) - (c + 1) + 1 ELSE 0
      /\ \A i \in 1 .. Len(f) - (c + 1) + 1 : frame_tmp_'[i] = f[(c + 1) + i - 1]
  BY <1>1, <1>2, SubSeqProperties
<1>4. /\ Len(frame_tmp_') = Len(f) - c
      /\ \A i \in 1 .. Len(f) - c : frame_tmp_'[i] = f[i + c]
  BY <1>1, <1>3
<1>5. ASSUME NEW i \in 2 .. Len(f) - c
      PROVE  Wrap(frame_tmp_, i)' <=> Wrap(f, i + c)
  <2>1. frame_tmp_'[i] = f[i + c] /\ frame_tmp_'[i - 1] = f[i + c - 1]
    BY <1>1, <1>4
  <2>2. i > 1 /\ i + c > 1
    BY <1>1
  <2> QED BY <2>1, <2>2 DEF Wrap
<1> QED BY <1>3, <1>4, <1>5

\* A scan is made of points that were collected before the wrap.
LEMMA ScanFrom ==
  ASSUME NEW f \in Seq(Point), NEW i \in 1 .. Len(f), NEW v
  PROVE  /\ PointBag(Scan(Filter(Collected(f, i), v)))
         /\ \A p \in BagToSet(Scan(Filter(Collected(f, i), v))) :
              \E j \in 1 .. i - 1 : p = f[j]
<1> DEFINE c == Collected(f, i)
           d == Filter(c, v)
<1>1. c \in Seq(Point) /\ \A k \in 1 .. Len(c) : \E j \in 1 .. i - 1 : c[k] = f[j]
  BY CollectedFrom
<1>2. d = c \/ d = <<>>
  BY DEF Filter
<1>3. d \in Seq(Point) /\ \A k \in 1 .. Len(d) : \E j \in 1 .. i - 1 : d[k] = f[j]
  <2> HIDE DEF c, d
  <2>1. <<>> \in Seq(Point) /\ 1 .. Len(<<>>) = {}
    BY EmptySeq
  <2> QED BY <1>1, <1>2, <2>1
<1> HIDE DEF c, d
<1>4. PointBag(Scan(d)) /\ BagToSet(Scan(d)) = {d[k] : k \in 1 .. Len(d)}
  BY <1>3, ScanIs
<1> QED BY <1>3, <1>4 DEF c, d

\* The points of a callback are those of frame_tmp_ and of the line.
LEMMA ParsedFrom ==
  ASSUME Types, line # <<>>, NEW j \in 1 .. Len(Parse(line).points)
  PROVE  \/ j \in 1 .. Len(frame_tmp_) /\ Parse(line).points[j] = frame_tmp_[j]
         \/ /\ j > Len(frame_tmp_)
            /\ \E i \in 1 .. Len(line) : Parse(line).points[j] = line[i].point
<1>0. Len(frame_tmp_) \in Nat /\ Len(Read) \in Nat
  BY ParseIs, LenProperties DEF Types, PointTypes
<1>1. CASE j <= Len(frame_tmp_)
  BY <1>0, <1>1, ParseIs
<1>2. CASE j > Len(frame_tmp_)
  <2>1. /\ j - Len(frame_tmp_) \in 1 .. Len(Read)
        /\ Len(frame_tmp_) + (j - Len(frame_tmp_)) = j
    BY <1>0, <1>2, ParseIs
  <2>2. Parse(line).points[j] = Read[j - Len(frame_tmp_)].point
    BY <2>1, ParseIs
  <2> QED BY <1>2, <2>1, <2>2, ParseIs
<1> QED BY <1>0, <1>1, <1>2, ParseIs

\* A callback erases c points of what it has parsed, and publishes or not.
Cuts(f, v, c) ==
  /\ c + 1 \in 1 .. Len(f)
  /\ StopsFirst(f, v, c + 1)
  /\ CutsTurn(f, v, c + 1)
  /\ first_frame_' = FALSE
  /\ laser_scan_data_' = IF first_frame_ THEN laser_scan_data_
                         ELSE Scan(Filter(Collected(f, c + 1), v))

Drops(f, v, c) ==
  /\ UNCHANGED <<first_frame_, laser_scan_data_>>
  /\ \/ c + 1 \in 1 .. Len(f) /\ StopsFirst(f, v, c + 1) /\ DropsTurn(f, v, c + 1)
     \/ /\ c \in 1 .. Len(f) /\ StopsFirst(f, v, c) /\ ~CutsTurn(f, v, c)
        /\ DropsAll(f, v, c) /\ ~DropsTurn(f, v, c)

Waits(f, v, c) ==
  /\ c = 0
  /\ UNCHANGED <<first_frame_, laser_scan_data_>>
  /\ \A i \in 1 .. Len(f) : ~Stops(f, v, i)

\* A callback cuts, drops or waits.
LEMMA CallbackEffect ==
  ASSUME Types, CommReadCallback,
         NEW f, f = Parse(line).points, NEW v, v = Parse(line).speed
  PROVE  /\ f \in Seq(Point) /\ v \in BOOLEAN /\ speed_' = v
         /\ \E c \in 0 .. Len(f) :
              /\ EraseFront(f, c)
              /\ Cuts(f, v, c) \/ Drops(f, v, c) \/ Waits(f, v, c)
<1>0. line # <<>> /\ AssemblePacket(f, v) /\ speed_' = v
  BY DEF CommReadCallback
<1>1. f \in Seq(Point) /\ v \in BOOLEAN
  BY <1>0, ParseIs
<1>2. Len(f) \in Nat
  BY <1>1
<1>3. CASE WaitForMore(f, v)
  <2>1. f = SubSeq(f, 1, Len(f))
    BY <1>1, SubSeqFull
  <2>2. EraseFront(f, 0) /\ Waits(f, v, 0)
    BY <1>3, <2>1 DEF WaitForMore, EraseFront, Waits
  <2> QED BY <1>0, <1>1, <1>2, <2>2
<1>4. ASSUME NEW i \in 1 .. Len(f), CutFrame(f, v, i)
      PROVE  \E c \in 0 .. Len(f) : EraseFront(f, c) /\ Cuts(f, v, c)
  <2>1. i - 1 \in 0 .. Len(f) /\ (i - 1) + 1 = i
    BY <1>2
  <2>2. EraseFront(f, i - 1) /\ Cuts(f, v, i - 1)
    BY <1>4, <2>1 DEF CutFrame, Cuts
  <2> QED BY <2>1, <2>2
<1>5. ASSUME NEW i \in 1 .. Len(f), DropFrame(f, v, i)
      PROVE  \E c \in 0 .. Len(f) : EraseFront(f, c) /\ Drops(f, v, c)
  <2>1. i - 1 \in 0 .. Len(f) /\ (i - 1) + 1 = i /\ i \in 0 .. Len(f)
    BY <1>2
  <2>2. CASE DropsTurn(f, v, i)
    <3>1. EraseFront(f, i - 1) /\ Drops(f, v, i - 1)
      BY <1>5, <2>1, <2>2 DEF DropFrame, Drops
    <3> QED BY <2>1, <3>1
  <2>3. CASE ~DropsTurn(f, v, i)
    <3>1. EraseFront(f, i) /\ Drops(f, v, i)
      BY <1>5, <2>1, <2>3 DEF DropFrame, Drops, StopsFirst, Stops
    <3> QED BY <2>1, <3>1
  <2> QED BY <2>2, <2>3
<1> QED BY <1>0, <1>1, <1>3, <1>4, <1>5 DEF AssemblePacket

\* What was published is from frame_tmp_ or the line.
LEMMA PublishedFrom ==
  ASSUME NEW f \in Seq(Point), NEW v, NEW c \in 0 .. Len(f), Cuts(f, v, c)
  PROVE  \/ laser_scan_data_' = laser_scan_data_
         \/ /\ ~first_frame_
            /\ PointBag(laser_scan_data_')
            /\ \A p \in BagToSet(laser_scan_data_') : \E j \in 1 .. Len(f) : p = f[j]
<1>0. Len(f) \in Nat /\ c + 1 \in 1 .. Len(f)
  BY DEF Cuts
<1>1. CASE first_frame_
  BY <1>1 DEF Cuts
<1>2. CASE ~first_frame_
  <2> DEFINE s == Scan(Filter(Collected(f, c + 1), v))
  <2>1. laser_scan_data_' = s
    BY <1>2 DEF Cuts
  <2>2. PointBag(s) /\ \A p \in BagToSet(s) : \E j \in 1 .. (c + 1) - 1 : p = f[j]
    BY <1>0, ScanFrom
  <2>3. 1 .. (c + 1) - 1 \subseteq 1 .. Len(f)
    BY <1>0
  <2> HIDE DEF s
  <2> QED BY <1>2, <2>1, <2>2, <2>3
<1> QED BY <1>1, <1>2

-----------------------------------------------------------------------------
(* The types.                                                                 *)

\* A callback keeps the types of the points.
LEMMA CallbackTypes ==
  ASSUME Types, CommReadCallback
  PROVE  frame_tmp_' \in Seq(Point) /\ PointBag(laser_scan_data_')
<1> DEFINE f == Parse(line).points
           v == Parse(line).speed
<1>1. /\ f \in Seq(Point)
      /\ \E c \in 0 .. Len(f) :
           EraseFront(f, c) /\ (Cuts(f, v, c) \/ Drops(f, v, c) \/ Waits(f, v, c))
  BY CallbackEffect
<1> HIDE DEF f, v
<1>2. PICK c \in 0 .. Len(f) :
        EraseFront(f, c) /\ (Cuts(f, v, c) \/ Drops(f, v, c) \/ Waits(f, v, c))
  BY <1>1
<1>3. frame_tmp_' \in Seq(Point)
  BY <1>1, <1>2, Erased
<1>4. PointBag(laser_scan_data_)
  BY DEF Types, PointTypes
<1>5. laser_scan_data_' = laser_scan_data_ \/ PointBag(laser_scan_data_')
  BY <1>1, <1>2, PublishedFrom DEF Drops, Waits
<1> QED BY <1>3, <1>4, <1>5

\* A callback keeps the types of its flags.
LEMMA CallbackFlags ==
  ASSUME Types, CommReadCallback
  PROVE  first_frame_' \in BOOLEAN /\ speed_' \in BOOLEAN
<1> DEFINE f == Parse(line).points
           v == Parse(line).speed
<1>1. v \in BOOLEAN /\ speed_' = v
  BY CallbackEffect
<1>2. \E c : Cuts(f, v, c) \/ Drops(f, v, c) \/ Waits(f, v, c)
  BY CallbackEffect
<1> HIDE DEF f, v
<1>3. first_frame_' = first_frame_ \/ first_frame_' = FALSE
  BY <1>2 DEF Cuts, Drops, Waits
<1>4. first_frame_ \in BOOLEAN
  BY DEF Types, FlagTypes
<1> QED BY <1>1, <1>3, <1>4, Zenon

\* The point that is appended to the line.
LEMMA LineGrows ==
  ASSUME Types, next # <<>>, NEW b \in BOOLEAN,
         line' = Append(line, [point |-> next, turning |-> b])
  PROVE  /\ line' \in Seq(Packet) /\ Len(line') = Len(line) + 1 /\ Len(line) \in Nat
         /\ \A i \in 1 .. Len(line) : line'[i] = line[i]
         /\ line'[Len(line) + 1] = [point |-> next, turning |-> b]
         /\ next \in Point
<1>1. next \in Point /\ line \in Seq(Packet)
  BY DEF Types, SensorTypes, PointTypes
<1>2. [point |-> next, turning |-> b] \in Packet
  BY <1>1 DEF Packet
<1> QED BY <1>1, <1>2, AppendProperties, LenProperties

\* A step keeps the types.
LEMMA NextTypes ==
  ASSUME Types, [Next]_vars
  PROVE  Types'
<1> USE DEF Types
<1> DEFINE Quiet == Measure \/ MeasureStanding \/ LosePacket \/ UNCHANGED vars
<1>0. Quiet \/ CommReadCallback \/ Restart
  BY DEF Next
<1>1. FlagTypes'
  <2>1. CASE Quiet
    <3>1. UNCHANGED <<first_frame_, last_pkg_timestamp_, speed_, backlog>>
      BY <2>1 DEF Measure, MeasureStanding, LosePacket, vars, parser, history
    <3>2. clean' \in BOOLEAN
      <4>1. clean' = clean \/ clean' = FALSE
        BY <2>1 DEF Measure, MeasureStanding, LosePacket, vars, history
      <4> QED BY <4>1, Zenon DEF FlagTypes
    <3> QED BY <3>1, <3>2, Zenon DEF FlagTypes
  <2>2. CASE CommReadCallback
    <3>1. UNCHANGED <<clean, backlog>> /\ last_pkg_timestamp_' = TRUE
      BY <2>2 DEF CommReadCallback, history
    <3>2. first_frame_' \in BOOLEAN /\ speed_' \in BOOLEAN
      BY <2>2, CallbackFlags
    <3> QED BY <3>1, <3>2, Zenon DEF FlagTypes
  <2>3. CASE Restart
    <3>1. /\ first_frame_' = TRUE /\ last_pkg_timestamp_' = FALSE /\ speed_' = speed_
          /\ clean' = NoneEmptied(next'.turn)
          /\ backlog' = \E i \in 1 .. Len(frame_tmp_) : Wrap(frame_tmp_, i)
      BY <2>3 DEF Restart, ClearDataProcessStatus
    <3>2. clean' \in BOOLEAN
      BY <3>1 DEF NoneEmptied
    <3>3. backlog' \in BOOLEAN
      BY <3>1
    <3> QED BY <3>1, <3>2, <3>3, Zenon DEF FlagTypes
  <2> QED BY <1>0, <2>1, <2>2, <2>3
<1>2. SensorTypes'
  <2>1. CASE Quiet
    <3>1. next' = next \/ (next # <<>> /\ next' = After(next))
      <4>1. CASE Measure \/ LosePacket
        BY <4>1 DEF Measure, LosePacket
      <4>2. CASE MeasureStanding \/ UNCHANGED vars
        BY <4>2 DEF MeasureStanding, vars
      <4> QED BY <2>1, <4>1, <4>2
    <3>2. motor' \in {"turning", "standing", "resumed"} /\ round' = round /\ start' = start
      BY <2>1 DEF SensorTypes, Measure, MeasureStanding, LosePacket, vars, history
    <3> QED BY <3>1, <3>2, AfterIs DEF SensorTypes
  <2>2. CASE CommReadCallback
    BY <2>2 DEF SensorTypes, CommReadCallback, history
  <2>3. CASE Restart
    <3>1. next' \in Point /\ start' = next'.turn /\ UNCHANGED <<motor, round>>
      BY <2>3 DEF Restart
    <3>2. next'.turn \in Turn
      BY <3>1 DEF Point
    <3> QED BY <3>1, <3>2 DEF SensorTypes
  <2> QED BY <1>0, <2>1, <2>2, <2>3
<1>3. CountTypes'
  <2>0. {MaxSession, MaxLost, MaxStill} \subseteq Nat
    BY BoundAssumption
  <2>1. CASE Measure \/ CommReadCallback \/ UNCHANGED vars
    BY <2>1 DEF CountTypes, Measure, CommReadCallback, vars, history
  <2>2. CASE MeasureStanding
    BY <2>0, <2>2 DEF CountTypes, MeasureStanding
  <2>3. CASE LosePacket
    BY <2>0, <2>3 DEF CountTypes, LosePacket
  <2>4. CASE Restart
    BY <2>0, <2>4 DEF CountTypes, Restart
  <2> QED BY <1>0, <2>1, <2>2, <2>3, <2>4
<1>4. PointTypes'
  <2>0. ReadMax \in Nat /\ <<>> \in Seq(Packet) /\ Len(<<>>) = 0
    BY BoundAssumption, EmptySeq
  <2>1. CASE Measure
    <3>1. line' \in Seq(Packet) /\ Len(line') = Len(line) + 1 /\ Len(line) \in Nat
      BY <2>1, LineGrows DEF Measure
    <3> QED BY <2>0, <2>1, <3>1 DEF PointTypes, Measure, parser
  <2>2. CASE MeasureStanding
    <3>1. line' \in Seq(Packet) /\ Len(line') = Len(line) + 1 /\ Len(line) \in Nat
      BY <2>2, LineGrows DEF MeasureStanding
    <3> QED BY <2>0, <2>2, <3>1 DEF PointTypes, MeasureStanding, parser
  <2>3. CASE LosePacket \/ UNCHANGED vars
    BY <2>3 DEF PointTypes, LosePacket, vars, parser
  <2>4. CASE CommReadCallback
    <3>1. line' = <<>>
      BY <2>4 DEF CommReadCallback
    <3> QED BY <2>0, <2>4, <3>1, CallbackTypes DEF PointTypes
  <2>5. CASE Restart
    <3>1. line' = <<>> /\ UNCHANGED <<frame_tmp_, laser_scan_data_>>
      BY <2>5 DEF Restart
    <3> QED BY <2>0, <3>1 DEF PointTypes
  <2> QED BY <1>0, <2>1, <2>2, <2>3, <2>4, <2>5
<1> QED BY <1>1, <1>2, <1>3, <1>4

-----------------------------------------------------------------------------
(* What was measured is not from a later revolution than what comes next.     *)

\* The revolution of a point of the model is a number.
LEMMA TurnIsNumber ==
  ASSUME NEW p \in Point
  PROVE  p.turn \in Int
BY AfterIs

\* The types, element by element.
LEMMA TypesOfPoints ==
  ASSUME Types
  PROVE  /\ start \in Int
         /\ next # <<>> => next \in Point
         /\ \A i \in 1 .. Len(line) : line[i] \in Packet /\ line[i].point \in Point
         /\ \A i \in 1 .. Len(frame_tmp_) : frame_tmp_[i] \in Point
         /\ BagToSet(laser_scan_data_) \subseteq Point
         /\ Len(line) \in Nat /\ Len(frame_tmp_) \in Nat
<1>1. \A i \in 1 .. Len(line) : line[i] \in Packet
  BY ElementOfSeq DEF Types, PointTypes
<1>2. \A i \in 1 .. Len(line) : line[i].point \in Point
  BY <1>1 DEF Packet
<1>3. /\ \A i \in 1 .. Len(frame_tmp_) : frame_tmp_[i] \in Point
      /\ BagToSet(laser_scan_data_) \subseteq Point
  BY ElementOfSeq DEF Types, PointTypes, PointBag
<1>4. start \in Int /\ (next # <<>> => next \in Point)
  BY BoundAssumption DEF Types, SensorTypes, Turn
<1> QED BY <1>1, <1>2, <1>3, <1>4, LenProperties DEF Types, PointTypes

\* All that waits or was published is from revolution t at the latest.
UpToTurn(t) ==
  /\ start <= t
  /\ \A i \in 1 .. Len(line) : line[i].point.turn <= t
  /\ \A i \in 1 .. Len(frame_tmp_) : frame_tmp_[i].turn <= t
  /\ \A p \in BagToSet(laser_scan_data_) : p.turn <= t

\* A later revolution is a bound too.
LEMMA UpToTurnGrows ==
  ASSUME Types, NEW t \in Int, NEW u \in Int, t <= u, UpToTurn(t)
  PROVE  UpToTurn(u)
<1>1. /\ start \in Int
      /\ \A i \in 1 .. Len(line) : line[i].point.turn \in Int
      /\ \A i \in 1 .. Len(frame_tmp_) : frame_tmp_[i].turn \in Int
      /\ \A p \in BagToSet(laser_scan_data_) : p.turn \in Int
  BY TypesOfPoints, TurnIsNumber
<1> QED BY <1>1 DEF UpToTurn

\* A callback brings no point of a later revolution.
LEMMA CallbackUpToTurn ==
  ASSUME Types, CommReadCallback, NEW t \in Int, UpToTurn(t)
  PROVE  UpToTurn(t)'
<1> DEFINE f == Parse(line).points
           v == Parse(line).speed
<1>0. line # <<>> /\ line' = <<>> /\ start' = start
  BY DEF CommReadCallback, history
<1>1. \A j \in 1 .. Len(f) : f[j].turn <= t
  BY <1>0, ParsedFrom DEF UpToTurn
<1>2. /\ f \in Seq(Point)
      /\ \E c \in 0 .. Len(f) :
           EraseFront(f, c) /\ (Cuts(f, v, c) \/ Drops(f, v, c) \/ Waits(f, v, c))
  BY CallbackEffect
<1> HIDE DEF f, v
<1>3. PICK c \in 0 .. Len(f) :
        EraseFront(f, c) /\ (Cuts(f, v, c) \/ Drops(f, v, c) \/ Waits(f, v, c))
  BY <1>2
<1>4. \A i \in 1 .. Len(frame_tmp_') : frame_tmp_'[i].turn <= t
  <2>1. Len(f) \in Nat
    BY <1>2
  <2>2. /\ Len(frame_tmp_') = Len(f) - c
        /\ \A i \in 1 .. Len(f) - c : frame_tmp_'[i] = f[i + c]
    BY <1>2, <1>3, Erased
  <2>3. \A i \in 1 .. Len(f) - c : i + c \in 1 .. Len(f)
    BY <2>1
  <2> QED BY <1>1, <2>2, <2>3
<1>5. \A p \in BagToSet(laser_scan_data_') : p.turn <= t
  <2>1. CASE laser_scan_data_' = laser_scan_data_
    BY <2>1 DEF UpToTurn
  <2>2. CASE laser_scan_data_' # laser_scan_data_
    <3>1. Cuts(f, v, c)
      BY <1>3, <2>2 DEF Drops, Waits
    <3> QED BY <1>1, <1>2, <2>2, <3>1, PublishedFrom
  <2> QED BY <2>1, <2>2
<1>6. 1 .. Len(line') = {}
  BY <1>0
<1> QED BY <1>0, <1>4, <1>5, <1>6 DEF UpToTurn

LineSince == \A i \in 1 .. Len(line) : start <= line[i].point.turn

\* The two parts of Behind.
LEMMA BehindIs ==
  Behind <=> (next # <<>> => UpToTurn(next.turn)) /\ LineSince
BY DEF Behind, UpToTurn, LineSince

\* Nothing has been measured yet.
LEMMA InitBehind ==
  ASSUME Init
  PROVE  Behind
<1>1. next \in Point /\ next.turn = 1 /\ start = 1
  BY DEF Init
<1>2. /\ 1 .. Len(<<>>) = {} /\ line = <<>> /\ frame_tmp_ = <<>>
      /\ BagToSet(laser_scan_data_) = {}
  BY DEF Init, BagToSet, EmptyBag, SetToBag
<1> QED BY <1>1, <1>2 DEF Behind

\* A step keeps the sensor ahead of what was measured.
LEMMA NextBehind ==
  ASSUME Types, Types', Behind, [Next]_vars
  PROVE  Behind'
<1>1. CASE Measure \/ MeasureStanding
  <2>1. PICK b \in BOOLEAN : line' = Append(line, [point |-> next, turning |-> b])
    BY <1>1 DEF Measure, MeasureStanding
  <2>2. /\ next # <<>> /\ UNCHANGED <<frame_tmp_, laser_scan_data_, start>>
        /\ next' = next \/ next' = After(next)
    BY <1>1 DEF Measure, MeasureStanding, parser, history
  <2>3. /\ Len(line') = Len(line) + 1 /\ Len(line) \in Nat
        /\ \A i \in 1 .. Len(line) : line'[i] = line[i]
        /\ line'[Len(line) + 1] = [point |-> next, turning |-> b]
        /\ next \in Point
    BY <2>1, <2>2, LineGrows
  <2>4. next.turn \in Int /\ UpToTurn(next.turn) /\ LineSince
    BY <2>2, <2>3, TurnIsNumber, BehindIs
  <2>5. \A i \in 1 .. Len(line') :
          line'[i].point = next \/ (i \in 1 .. Len(line) /\ line'[i] = line[i])
    BY <2>3
  <2>6. UpToTurn(next.turn)'
        <=> /\ start <= next'.turn
            /\ \A i \in 1 .. Len(line') : line'[i].point.turn <= next'.turn
            /\ \A i \in 1 .. Len(frame_tmp_) : frame_tmp_[i].turn <= next'.turn
            /\ \A p \in BagToSet(laser_scan_data_) : p.turn <= next'.turn
    BY <2>2 DEF UpToTurn
  <2>7. LineSince'
    BY <2>2, <2>4, <2>5 DEF UpToTurn, LineSince
  <2>8. ASSUME next' # <<>> PROVE UpToTurn(next.turn)'
    <3>1. next'.turn \in Int /\ next.turn <= next'.turn
      BY <2>2, <2>3, <2>4, <2>8, AfterIs, TurnIsNumber
    <3>2. UpToTurn(next'.turn)
      BY <2>4, <3>1, UpToTurnGrows
    <3> QED BY <2>5, <2>6, <3>1, <3>2 DEF UpToTurn
  <2> QED BY <2>7, <2>8 DEF Behind, UpToTurn, LineSince
<1>2. CASE LosePacket
  <2>1. /\ next # <<>> /\ next' = After(next)
        /\ UNCHANGED <<line, frame_tmp_, laser_scan_data_, start>>
    BY <1>2 DEF LosePacket, parser
  <2>2. next \in Point /\ next.turn \in Int /\ UpToTurn(next.turn) /\ LineSince
    BY <2>1, TypesOfPoints, TurnIsNumber, BehindIs
  <2>3. ASSUME next' # <<>> PROVE UpToTurn(next'.turn)
    <3>1. next'.turn \in Int /\ next.turn <= next'.turn
      BY <2>1, <2>2, <2>3, AfterIs, TurnIsNumber
    <3> QED BY <2>2, <3>1, UpToTurnGrows
  <2> QED BY <2>1, <2>2, <2>3 DEF Behind, UpToTurn, LineSince
<1>3. CASE CommReadCallback
  <2>1. next' = next /\ line' = <<>>
    BY <1>3 DEF CommReadCallback
  <2>2. LineSince'
    BY <2>1 DEF LineSince
  <2>3. ASSUME next # <<>> PROVE UpToTurn(next.turn)'
    <3> DEFINE t == next.turn
    <3>1. t \in Int /\ UpToTurn(t)
      BY <2>3, TypesOfPoints, TurnIsNumber, BehindIs
    <3>2. t' = t
      BY <2>1
    <3> HIDE DEF t
    <3>3. UpToTurn(t)'
      BY <1>3, <3>1, <3>2, CallbackUpToTurn DEF UpToTurn
    <3> QED BY <3>3 DEF t
  <2> QED BY <2>1, <2>2, <2>3 DEF Behind, UpToTurn, LineSince
<1>4. CASE Restart
  <2>1. /\ next # <<>> /\ next' \in Point /\ next'.turn > next.turn
        /\ line' = <<>> /\ start' = next'.turn
        /\ UNCHANGED <<frame_tmp_, laser_scan_data_>>
    BY <1>4 DEF Restart
  <2>2. next.turn \in Int /\ next'.turn \in Int /\ UpToTurn(next.turn)
    BY <2>1, TypesOfPoints, TurnIsNumber, BehindIs
  <2>3. UpToTurn(next'.turn)
    BY <2>1, <2>2, UpToTurnGrows
  <2>4. 1 .. Len(line') = {}
    BY <2>1
  <2> QED BY <2>1, <2>2, <2>3, <2>4 DEF Behind, UpToTurn
<1>5. CASE UNCHANGED vars
  BY <1>5 DEF Behind, vars, parser, history
<1> QED BY <1>1, <1>2, <1>3, <1>4, <1>5 DEF Next

-----------------------------------------------------------------------------
(* Points of an earlier session.                                              *)

\* There are no old points yet.
LEMMA InitOldFirst ==
  ASSUME Init
  PROVE  OldFirst
<1>1. frame_tmp_ = <<>> /\ Len(<<>>) = 0
  BY EmptySeq DEF Init
<1>2. OldUpTo(<<>>, 0)
  BY <1>1 DEF OldUpTo
<1> QED BY <1>1, <1>2 DEF OldFirst, Init

\* How much of the old points is left when c points are erased.
Left(k, c) == IF k > c THEN k - c ELSE 0

\* What a callback parses begins with the old points, and it cuts no revolution
\* that begins among them.
LEMMA ParsedOldUpTo ==
  ASSUME Types, Behind, line # <<>>, NEW k \in 0 .. Len(frame_tmp_),
         OldUpTo(frame_tmp_, k)
  PROVE  OldUpTo(Parse(line).points, k) /\ k \in 0 .. Len(Parse(line).points)
<1> DEFINE f == Parse(line).points
<1>1. /\ Len(f) \in Nat /\ Len(frame_tmp_) \in Nat /\ Len(frame_tmp_) <= Len(f)
      /\ \A i \in 1 .. Len(frame_tmp_) : f[i] = frame_tmp_[i]
  BY ParseIs, LenProperties DEF Types, PointTypes
<1>2. ASSUME NEW j \in k + 1 .. Len(f) PROVE start <= f[j].turn
  <2>1. j \in 1 .. Len(f)
    BY <1>1
  <2>2. CASE j \in 1 .. Len(frame_tmp_)
    BY <1>1, <2>2 DEF OldUpTo
  <2>3. CASE \E i \in 1 .. Len(line) : f[j] = line[i].point
    BY <2>3 DEF Behind
  <2> QED BY <2>1, <2>2, <2>3, ParsedFrom
<1> HIDE DEF f
<1>3. ASSUME NEW i \in 1 .. k PROVE ~Wrap(f, i)
  <2>1. ~Wrap(frame_tmp_, i)
    BY DEF OldUpTo
  <2>2. i \in 1 .. Len(frame_tmp_) /\ (i > 1 => i - 1 \in 1 .. Len(frame_tmp_))
    BY <1>1
  <2>3. f[i] = frame_tmp_[i] /\ (i > 1 => f[i - 1] = frame_tmp_[i - 1])
    BY <1>1, <2>2
  <2> QED BY <2>1, <2>3 DEF Wrap
<1>4. k \in 0 .. Len(f)
  BY <1>1
<1> QED BY <1>2, <1>3, <1>4 DEF OldUpTo, f

\* Erasing takes from the old points first.
LEMMA ErasedOldUpTo ==
  ASSUME NEW f \in Seq(Point), NEW c \in 0 .. Len(f), EraseFront(f, c),
         NEW k \in 0 .. Len(f), OldUpTo(f, k), start' = start
  PROVE  OldUpTo(frame_tmp_, Left(k, c))' /\ Left(k, c) \in 0 .. Len(frame_tmp_')
<1> DEFINE l == Left(k, c)
<1>0. Len(f) \in Nat
  OBVIOUS
<1>1. /\ Len(frame_tmp_') = Len(f) - c
      /\ \A i \in 1 .. Len(f) - c : frame_tmp_'[i] = f[i + c]
      /\ \A i \in 2 .. Len(f) - c : Wrap(frame_tmp_, i)' <=> Wrap(f, i + c)
  BY Erased
<1>2. l \in 0 .. Len(frame_tmp_') /\ l \in Nat
  BY <1>0, <1>1 DEF Left
<1>3. ASSUME NEW i \in 1 .. l PROVE ~Wrap(frame_tmp_, i)'
  <2>1. CASE i = 1
    BY <2>1 DEF Wrap
  <2>2. CASE i # 1
    <3>1. i \in 2 .. Len(f) - c /\ i + c \in 1 .. k
      BY <1>0, <1>1, <1>2, <2>2 DEF Left
    <3> QED BY <1>1, <3>1 DEF OldUpTo
  <2> QED BY <2>1, <2>2
<1>4. ASSUME NEW i \in l + 1 .. Len(frame_tmp_') PROVE start <= frame_tmp_'[i].turn
  <2>1. i \in 1 .. Len(f) - c /\ i + c \in k + 1 .. Len(f)
    BY <1>0, <1>1, <1>2 DEF Left
  <2> QED BY <1>1, <2>1 DEF OldUpTo
<1> HIDE DEF l
<1>5. OldUpTo(frame_tmp_', l)
  <2>1. \A i \in 1 .. l : ~Wrap(frame_tmp_', i)
    BY <1>3 DEF Wrap
  <2>2. OldUpTo(frame_tmp_', l) <=>
          /\ \A i \in 1 .. l : ~Wrap(frame_tmp_', i)
          /\ \A i \in l + 1 .. Len(frame_tmp_') : start <= frame_tmp_'[i].turn
    BY DEF OldUpTo
  <2> QED BY <1>4, <2>1, <2>2
<1> QED BY <1>2, <1>5 DEF l, OldUpTo, Left, Wrap

\* A callback cuts or drops at a wrap only where the old points end before it.
LEMMA LeftIs ==
  ASSUME NEW f \in Seq(Point), NEW v, NEW c \in 0 .. Len(f),
         Cuts(f, v, c) \/ Drops(f, v, c) \/ Waits(f, v, c),
         NEW k \in 0 .. Len(f), OldUpTo(f, k)
  PROVE  /\ k = 0 => Left(k, c) = 0
         /\ Cuts(f, v, c) => Left(k, c) = 0 /\ Wrap(f, c + 1)
         /\ ~Cuts(f, v, c) => UNCHANGED <<first_frame_, laser_scan_data_>>
<1>0. Len(f) \in Nat /\ c \in Nat /\ k \in Nat
  OBVIOUS
<1>1. k = 0 => Left(k, c) = 0
  BY <1>0 DEF Left
<1>2. ASSUME Cuts(f, v, c) PROVE Left(k, c) = 0 /\ Wrap(f, c + 1)
  <2>1. Wrap(f, c + 1)
    BY <1>2 DEF Cuts, CutsTurn
  <2>2. ~(c + 1 \in 1 .. k)
    BY <2>1 DEF OldUpTo
  <2> QED BY <1>0, <2>1, <2>2 DEF Left
<1> QED BY <1>1, <1>2 DEF Drops, Waits

\* A step keeps the old points at the front.
LEMMA NextOldFirst ==
  ASSUME Types, Behind, OldFirst, [Next]_vars
  PROVE  OldFirst'
<1>1. CASE Measure \/ MeasureStanding \/ LosePacket \/ UNCHANGED vars
  <2>1. UNCHANGED <<frame_tmp_, first_frame_, start, backlog>>
    BY <1>1 DEF Measure, MeasureStanding, LosePacket, vars, parser, history
  <2> QED BY <2>1 DEF OldFirst, OldUpTo, Wrap
<1>2. CASE CommReadCallback
  <2> DEFINE f == Parse(line).points
             v == Parse(line).speed
  <2>0. line # <<>> /\ start' = start /\ backlog' = backlog
    BY <1>2 DEF CommReadCallback, history
  <2>1. SUFFICES ASSUME ~backlog
                 PROVE  \E k \in 0 .. Len(frame_tmp_') :
                          OldUpTo(frame_tmp_, k)' /\ (~first_frame_' => k = 0)
    BY <2>0 DEF OldFirst, OldUpTo, Wrap
  <2>2. PICK k \in 0 .. Len(frame_tmp_) : OldUpTo(frame_tmp_, k) /\ (~first_frame_ => k = 0)
    BY <2>1 DEF OldFirst
  <2>3. OldUpTo(f, k) /\ k \in 0 .. Len(f)
    BY <2>0, <2>2, ParsedOldUpTo
  <2>4. /\ f \in Seq(Point)
        /\ \E c \in 0 .. Len(f) :
             EraseFront(f, c) /\ (Cuts(f, v, c) \/ Drops(f, v, c) \/ Waits(f, v, c))
    BY <1>2, CallbackEffect
  <2> HIDE DEF f, v
  <2>5. PICK c \in 0 .. Len(f) :
          EraseFront(f, c) /\ (Cuts(f, v, c) \/ Drops(f, v, c) \/ Waits(f, v, c))
    BY <2>4
  <2>6. OldUpTo(frame_tmp_, Left(k, c))' /\ Left(k, c) \in 0 .. Len(frame_tmp_')
    BY <2>0, <2>3, <2>4, <2>5, ErasedOldUpTo
  <2>7. ~first_frame_' => Left(k, c) = 0
    BY <2>2, <2>3, <2>4, <2>5, LeftIs
  <2> QED BY <2>6, <2>7
<1>3. CASE Restart
  <2>1. /\ next # <<>> /\ next' \in Point /\ next'.turn > next.turn /\ start' = next'.turn
        /\ first_frame_' = TRUE /\ UNCHANGED frame_tmp_
        /\ backlog' = \E i \in 1 .. Len(frame_tmp_) : Wrap(frame_tmp_, i)
    BY <1>3 DEF Restart, ClearDataProcessStatus
  <2>2. Len(frame_tmp_) \in Nat
    BY TypesOfPoints
  <2>3. ASSUME ~backlog' PROVE OldUpTo(frame_tmp_, Len(frame_tmp_))'
    <3>1. \A i \in 1 .. Len(frame_tmp_) : ~Wrap(frame_tmp_, i)
      BY <2>1, <2>3
    <3>2. Len(frame_tmp_) + 1 .. Len(frame_tmp_) = {}
      BY <2>2
    <3> QED BY <2>1, <3>1, <3>2 DEF OldUpTo, Wrap
  <2>4. Len(frame_tmp_) \in 0 .. Len(frame_tmp_')
    BY <2>1, <2>2
  <2> DEFINE k == Len(frame_tmp_)
  <2>5. k' = k
    BY <2>1
  <2>6. ~backlog' => OldUpTo(frame_tmp_, k)' /\ k \in 0 .. Len(frame_tmp_')
    BY <2>3, <2>4
  <2> HIDE DEF k
  <2>7. ~backlog' => \E l \in 0 .. Len(frame_tmp_') :
                       OldUpTo(frame_tmp_, l)' /\ (~first_frame_' => l = 0)
    BY <2>1, <2>5, <2>6 DEF OldUpTo
  <2> QED BY <2>7 DEF OldFirst, OldUpTo, Wrap
<1> QED BY <1>1, <1>2, <1>3 DEF Next

\* What a callback publishes is from this session, if that found no backlog.
LEMMA StepPublishesNew ==
  ASSUME Types, Behind, OldFirst, [Next]_vars,
         laser_scan_data_' # laser_scan_data_, ~backlog
  PROVE  \A p \in BagToSet(laser_scan_data_') : p.turn >= start
<1> DEFINE f == Parse(line).points
           v == Parse(line).speed
<1>1. CommReadCallback
  BY DEF Next, Measure, MeasureStanding, LosePacket, Restart, vars
<1>2. line # <<>>
  BY <1>1 DEF CommReadCallback
<1>3. /\ f \in Seq(Point)
      /\ \E c \in 0 .. Len(f) :
           EraseFront(f, c) /\ (Cuts(f, v, c) \/ Drops(f, v, c) \/ Waits(f, v, c))
  BY <1>1, CallbackEffect
<1>4. PICK k \in 0 .. Len(frame_tmp_) : OldUpTo(frame_tmp_, k) /\ (~first_frame_ => k = 0)
  BY DEF OldFirst
<1>5. OldUpTo(f, k)
  BY <1>2, <1>4, ParsedOldUpTo
<1> HIDE DEF f, v
<1>6. PICK c \in 0 .. Len(f) : Cuts(f, v, c)
  BY <1>3 DEF Drops, Waits
<1>7. /\ ~first_frame_
      /\ \A p \in BagToSet(laser_scan_data_') : \E j \in 1 .. Len(f) : p = f[j]
  BY <1>3, <1>6, PublishedFrom
<1>8. \A j \in 1 .. Len(f) : f[j].turn >= start
  <2>1. \A j \in 1 .. Len(f) : start <= f[j].turn
    BY <1>4, <1>5, <1>7 DEF OldUpTo
  <2>2. \A j \in 1 .. Len(f) : f[j].turn \in Int
    BY <1>3, ElementOfSeq, TurnIsNumber
  <2> QED BY <2>1, <2>2, TypesOfPoints
<1> QED BY <1>7, <1>8

-----------------------------------------------------------------------------
(* A session without losses.                                                  *)

\* In a session that is clean so far, what follows the first k points of f is a
\* piece of the sensor's sequence of points, and so is the line, which continues
\* it.
Continues(f, k) ==
  /\ \A i \in k + 1 .. Len(f) - 1 : f[i + 1] = After(f[i])
  /\ \A i \in 1 .. Len(line) - 1 : line[i + 1].point = After(line[i].point)
  /\ line # <<>> => next = After(line[Len(line)].point)
  /\ k < Len(f) => After(f[Len(f)]) = IF line = <<>> THEN next ELSE line[1].point

\* The first k points of frame_tmp_ are old, and the rest is a piece of the
\* sensor's sequence.
OldThenNew(k) ==
  /\ OldUpTo(frame_tmp_, k)
  /\ Continues(frame_tmp_, k)
  /\ ~last_pkg_timestamp_ => k = Len(frame_tmp_)
  /\ ~first_frame_ => k = 0

\* Once the first revolution of the session was cut, frame_tmp_ begins with the
\* first point of the revolution after the one that was published last.
ScanThenTurn(t) ==
  /\ laser_scan_data_ = SetToBag({[turn |-> t, at |-> a] : a \in 0 .. N - 1})
  /\ frame_tmp_[1] = [turn |-> t + 1, at |-> 0]

AtTurn ==
  /\ ~first_frame_ => frame_tmp_ # <<>> /\ frame_tmp_[1].at = 0
  /\ (\E p \in BagToSet(laser_scan_data_) : p.turn >= start) =>
       ~first_frame_ /\ \E t \in Turn : ScanThenTurn(t)

CleanLine ==
  /\ NoneEmptied(start)
  /\ \A i \in 1 .. Len(line) : line[i].turning

CleanSoFar ==
  clean /\ ~backlog =>
    /\ \E k \in 0 .. Len(frame_tmp_) : OldThenNew(k)
    /\ AtTurn
    /\ CleanLine

\* What a whole revolution looks like that was measured without a loss.
LEMMA TurnFollows ==
  ASSUME NEW f \in Seq(Point), f # <<>>, f[1].at = 0,
         \A i \in 1 .. Len(f) - 1 : f[i + 1] = After(f[i])
  PROVE  /\ \A i \in 1 .. N : i <= Len(f) => f[i].turn = f[1].turn /\ f[i].at = i - 1
         /\ Len(f) > N => f[N + 1] = [turn |-> f[1].turn + 1, at |-> 0]
<1>0. Len(f) \in Nat /\ Len(f) # 0 /\ N \in Nat /\ N >= 2
  BY EmptySeq, NAssumption
<1> DEFINE D == {m \in 0 .. N - 1 :
                   m + 1 <= Len(f) => f[m + 1].turn = f[1].turn /\ f[m + 1].at = m}
<1>1. 0 \in D
  BY <1>0
<1>2. ASSUME NEW m \in 0 .. (N - 1) - 1, m \in D PROVE m + 1 \in D
  <2>1. m + 1 \in 0 .. N - 1
    BY <1>0
  <2>2. SUFFICES ASSUME (m + 1) + 1 <= Len(f)
                 PROVE  f[(m + 1) + 1].turn = f[1].turn /\ f[(m + 1) + 1].at = m + 1
    BY <2>1
  <2>3. /\ m + 1 \in 1 .. Len(f) - 1 /\ m + 1 <= Len(f) /\ m < N - 1
        /\ m + 1 \in 1 .. Len(f)
    BY <1>0, <2>2
  <2>4. f[m + 1] \in Point /\ f[m + 1].turn = f[1].turn /\ f[m + 1].at = m
    BY <1>2, <2>3, ElementOfSeq
  <2>5. f[(m + 1) + 1] = [f[m + 1] EXCEPT !.at = @ + 1]
    BY <2>3, <2>4 DEF After
  <2> QED BY <2>4, <2>5 DEF Point
<1> HIDE DEF D
<1>3. \A m \in 0 .. N - 1 : m \in D
  <2>1. N - 1 \in Nat
    BY <1>0
  <2> QED BY <1>1, <1>2, <2>1, Induction
<1>4. ASSUME NEW i \in 1 .. N, i <= Len(f)
      PROVE  f[i].turn = f[1].turn /\ f[i].at = i - 1
  <2>1. i - 1 \in 0 .. N - 1 /\ (i - 1) + 1 = i
    BY <1>0
  <2>2. i - 1 \in D
    BY <1>3, <2>1
  <2> QED BY <1>4, <2>1, <2>2 DEF D
<1>5. ASSUME Len(f) > N PROVE f[N + 1] = [turn |-> f[1].turn + 1, at |-> 0]
  <2>1. N \in 1 .. N /\ N <= Len(f) /\ N \in 1 .. Len(f) - 1 /\ N + 1 \in 1 .. Len(f)
    BY <1>0, <1>5
  <2>2. f[N].turn = f[1].turn /\ f[N].at = N - 1 /\ f[N + 1] = After(f[N])
    BY <1>4, <2>1
  <2>3. f[N + 1] \in Point
    BY <2>1, ElementOfSeq
  <2>4. ~(f[N].at < N - 1)
    BY <1>0, <2>2
  <2>5. After(f[N]) = [turn |-> f[N].turn + 1, at |-> 0]
    BY <2>2, <2>3, <2>4, NoPoint DEF After
  <2> QED BY <2>2, <2>5
<1> QED BY <1>4, <1>5

\* Where no revolution begins, nothing is collected.
LEMMA NothingCollected ==
  ASSUME NEW f, Len(f) \in Nat, NEW n \in 0 .. Len(f), \A i \in 1 .. n : ~Wrap(f, i)
  PROVE  Collected(f, n) = <<>>
<1> DEFINE D == {m \in 0 .. n : Collected(f, m) = <<>>}
<1>1. 0 \in D
  <2>1. 0 \in 0 .. Len(f) /\ 0 \in 0 .. n
    OBVIOUS
  <2>2. Collected(f, 0) = <<>>
    BY <2>1, CollectedDef
  <2> QED BY <2>1, <2>2
<1>2. ASSUME NEW m \in 0 .. n - 1, m \in D PROVE m + 1 \in D
  <2>1. m + 1 \in 0 .. Len(f) /\ m + 1 # 0 /\ (m + 1) - 1 = m /\ m + 1 \in 1 .. n
    OBVIOUS
  <2>2. Collected(f, m + 1) = CollectedStep(f, Collected(f, m), m + 1)
    BY <2>1, CollectedDef
  <2> QED BY <1>2, <2>1, <2>2 DEF CollectedStep
<1> HIDE DEF D
<1>3. n \in D
  <2>1. n \in Nat /\ n \in 0 .. n
    OBVIOUS
  <2> QED BY <1>1, <1>2, <2>1, Induction
<1> QED BY <1>3 DEF D

\* The loop passes N points of a whole revolution and cuts them at the next one.
LEMMA TurnIsCut ==
  ASSUME NEW f \in Seq(Point), f # <<>>, f[1].at = 0,
         \A i \in 1 .. Len(f) - 1 : f[i + 1] = After(f[i]),
         f[1].turn \notin round
  PROVE  /\ \A i \in 1 .. N : i <= Len(f) => ~Stops(f, TRUE, i)
         /\ Len(f) > N =>
              /\ CutsTurn(f, TRUE, N + 1)
              /\ Scan(Filter(Collected(f, N + 1), TRUE))
                   = SetToBag({[turn |-> f[1].turn, at |-> a] : a \in 0 .. N - 1})
              /\ f[N + 1] = [turn |-> f[1].turn + 1, at |-> 0]
<1>0. Len(f) \in Nat /\ N \in Nat /\ N >= 2
  BY NAssumption
<1>1. /\ \A i \in 1 .. N : i <= Len(f) => f[i].turn = f[1].turn /\ f[i].at = i - 1
      /\ Len(f) > N => f[N + 1] = [turn |-> f[1].turn + 1, at |-> 0]
  BY TurnFollows
<1>2. ASSUME NEW i \in 1 .. N, i <= Len(f) PROVE ~Wrap(f, i)
  <2>1. i > 1 => f[i].at # 0
    BY <1>1, <1>2
  <2> QED BY <2>1 DEF Wrap
<1>3. ASSUME NEW i \in 1 .. N, i <= Len(f) PROVE ~Stops(f, TRUE, i)
  <2>1. ~NoTurnInSight(i, TRUE)
    BY <1>0 DEF NoTurnInSight
  <2> QED BY <1>2, <1>3, <2>1 DEF Stops, DropsTurn, CutsTurn, DropsAll
<1>4. ASSUME Len(f) > N
      PROVE  /\ CutsTurn(f, TRUE, N + 1)
             /\ Scan(Filter(Collected(f, N + 1), TRUE))
                  = SetToBag({[turn |-> f[1].turn, at |-> a] : a \in 0 .. N - 1})
  <2>1. N \in 1 .. N /\ N + 1 \in 1 .. Len(f) /\ (N + 1) - 1 = N /\ N \in 0 .. Len(f)
    BY <1>0, <1>4
  <2>2. Wrap(f, N + 1)
    <3>1. f[N].at = N - 1 /\ f[N + 1].at = 0
      BY <1>1, <1>4, <2>1
    <3> QED BY <1>0, <2>1, <3>1 DEF Wrap
  <2>3. ~TooManyForATurn(N, TRUE)
    BY <1>0 DEF TooManyForATurn
  <2> DEFINE turn == SubSeq(f, 1, N)
  <2>4. turn \in Seq(Point) /\ Len(turn) = N /\ \A i \in 1 .. N : turn[i] = f[i]
    <3>1. \A i \in 1 .. N : f[i] \in Point
      BY <1>0, <2>1, ElementOfSeq
    <3> QED BY <1>0, <3>1, SubSeqProperties
  <2>5. Collected(f, N + 1) = turn
    <3>1. Collected(f, N) = <<>>
      <4>1. \A i \in 1 .. N : ~Wrap(f, i)
        BY <1>0, <1>2, <1>4
      <4> QED BY <1>0, <2>1, <4>1, NothingCollected
    <3>2. N + 1 \in 0 .. Len(f) /\ N + 1 # 0
      BY <2>1
    <3>3. Collected(f, N + 1) = CollectedStep(f, Collected(f, (N + 1) - 1), N + 1)
      BY <1>0, <3>2, CollectedDef
    <3>4. Collected(f, N + 1) = turn \o <<>>
      BY <2>1, <2>2, <3>1, <3>3 DEF CollectedStep
    <3> HIDE DEF turn
    <3> QED BY <2>4, <3>4, ConcatEmptySeq
  <2> HIDE DEF turn
  <2>6. \A i \in 1 .. N : turn[i].turn = f[1].turn
    BY <1>1, <1>4, <2>4
  <2>7. Filter(turn, TRUE) = turn
    <3>1. 1 \in 1 .. Len(turn) /\ turn[1].turn \notin round
      BY <1>0, <2>4, <2>6
    <3> QED BY <3>1 DEF Filter
  <2>8. turn # <<>>
    BY <1>0, <2>4, EmptySeq
  <2>9. CutsTurn(f, TRUE, N + 1)
    BY <2>1, <2>2, <2>3, <2>5, <2>7, <2>8 DEF CutsTurn
  <2>10. Scan(turn) = SetToBag({[turn |-> f[1].turn, at |-> a] : a \in 0 .. N - 1})
    <3>1. ASSUME NEW i \in 1 .. N PROVE turn[i] = [turn |-> f[1].turn, at |-> i - 1]
      <4>1. turn[i] \in Point /\ turn[i].turn = f[1].turn /\ turn[i].at = i - 1
        BY <1>1, <1>4, <2>4, ElementOfSeq
      <4> QED BY <4>1 DEF Point
    <3> QED BY <2>4, <3>1, ScanOfTurn
  <2> QED BY <2>5, <2>7, <2>9, <2>10
<1> QED BY <1>1, <1>3, <1>4

\* What a callback parses is a piece of the sensor's sequence of points too, and
\* the sensor measures its continuation next.
LEMMA ParsedContinues ==
  ASSUME Types, line # <<>>, NEW k \in 0 .. Len(frame_tmp_),
         Continues(frame_tmp_, k), ~last_pkg_timestamp_ => k = Len(frame_tmp_)
  PROVE  /\ \A i \in k + 1 .. Len(Parse(line).points) - 1 :
              Parse(line).points[i + 1] = After(Parse(line).points[i])
         /\ k < Len(Parse(line).points) =>
              next = After(Parse(line).points[Len(Parse(line).points)])
<1> DEFINE f == Parse(line).points
           n == Len(frame_tmp_)
           r == Len(Read)
<1>1. /\ n \in Nat /\ r \in Nat /\ Len(f) = n + r
      /\ \A i \in 1 .. n : f[i] = frame_tmp_[i]
      /\ \A i \in 1 .. r : f[n + i] = Read[i].point
  BY ParseIs, LenProperties DEF Types, PointTypes
<1>2. Len(line) \in Nat /\ Len(line) # 0
  BY EmptySeq DEF Types, PointTypes
\* Read is the line, or the line without its first packet.
<1> DEFINE o == IF last_pkg_timestamp_ THEN 0 ELSE 1
<1>3. r = Len(line) - o /\ o \in {0, 1} /\ \A i \in 1 .. r : Read[i] = line[i + o]
  <2>1. CASE last_pkg_timestamp_
    BY <1>2, <2>1 DEF Read
  <2>2. CASE ~last_pkg_timestamp_
    <3>1. line \in Seq(Packet)
      BY DEF Types, PointTypes
    <3>2. Read = Tail(line)
      BY <2>2 DEF Read
    <3> QED BY <1>2, <2>2, <3>1, <3>2, HeadTailProperties
  <2> QED BY <2>1, <2>2
<1>4. /\ \A i \in k + 1 .. n - 1 : frame_tmp_[i + 1] = After(frame_tmp_[i])
      /\ \A i \in 1 .. Len(line) - 1 : line[i + 1].point = After(line[i].point)
      /\ next = After(line[Len(line)].point)
      /\ k < n => After(frame_tmp_[n]) = line[1].point
  BY DEF Continues
<1>5. k < n => o = 0
  OBVIOUS
<1> HIDE DEF f, n, r, o
<1>6. ASSUME NEW i \in k + 1 .. Len(f) - 1 PROVE f[i + 1] = After(f[i])
  <2>1. CASE i < n
    <3>1. i \in k + 1 .. n - 1 /\ i \in 1 .. n /\ i + 1 \in 1 .. n
      BY <1>1, <2>1
    <3> QED BY <1>1, <1>4, <3>1
  <2>2. CASE i = n
    <3>1. k < n /\ n \in 1 .. n /\ 1 \in 1 .. r
      BY <1>1, <2>2
    <3>2. f[n] = frame_tmp_[n] /\ f[n + 1] = line[1 + o].point /\ o = 0
      BY <1>1, <1>3, <1>5, <3>1
    <3> QED BY <1>4, <2>2, <3>1, <3>2
  <2>3. CASE i > n
    <3> DEFINE j == i - n
    <3>1. j \in 1 .. r /\ j + 1 \in 1 .. r /\ n + j = i /\ n + (j + 1) = i + 1
      BY <1>1, <2>3
    <3>2. j + o \in 1 .. Len(line) - 1 /\ (j + 1) + o = (j + o) + 1
      BY <1>2, <1>3, <3>1
    <3> HIDE DEF j
    <3>3. f[n + j] = line[j + o].point /\ f[n + (j + 1)] = line[(j + o) + 1].point
      BY <1>1, <1>3, <3>1, <3>2
    <3> QED BY <1>4, <3>1, <3>2, <3>3
  <2> QED BY <1>1, <2>1, <2>2, <2>3
<1>7. ASSUME k < Len(f) PROVE next = After(f[Len(f)])
  <2>1. r \in 1 .. r
    <3>1. CASE k < n
      BY <1>1, <1>2, <1>3, <1>5, <3>1
    <3>2. CASE ~(k < n)
      BY <1>1, <1>7, <3>2
    <3> QED BY <3>1, <3>2
  <2>2. f[n + r] = line[r + o].point /\ r + o = Len(line)
    <3>1. r + o = Len(line)
      BY <1>1, <1>2, <1>3
    <3>2. f[n + r] = Read[r].point /\ Read[r] = line[r + o]
      BY <1>1, <1>3, <2>1
    <3> QED BY <3>1, <3>2
  <2> QED BY <1>1, <1>4, <2>2
<1> QED BY <1>6, <1>7 DEF f

\* What a callback leaves is still continued by what is measured next.
LEMMA ErasedContinues ==
  ASSUME NEW f \in Seq(Point), NEW c \in 0 .. Len(f), EraseFront(f, c),
         NEW k \in 0 .. Len(f), line' = <<>>, next' = next,
         \A i \in k + 1 .. Len(f) - 1 : f[i + 1] = After(f[i]),
         k < Len(f) => next = After(f[Len(f)])
  PROVE  Continues(frame_tmp_, Left(k, c))'
<1> DEFINE l == Left(k, c)
<1>0. Len(f) \in Nat /\ c \in Nat /\ k \in Nat
  OBVIOUS
<1>1. /\ Len(frame_tmp_') = Len(f) - c
      /\ \A i \in 1 .. Len(f) - c : frame_tmp_'[i] = f[i + c]
  BY Erased
<1>2. l \in Nat /\ l >= k - c
  BY <1>0 DEF Left
<1> HIDE DEF l
<1>3. ASSUME NEW i \in l + 1 .. Len(frame_tmp_') - 1
      PROVE  frame_tmp_'[i + 1] = After(frame_tmp_'[i])
  <2>1. /\ i \in 1 .. Len(f) - c /\ i + 1 \in 1 .. Len(f) - c
        /\ i + c \in k + 1 .. Len(f) - 1 /\ (i + 1) + c = (i + c) + 1
    BY <1>0, <1>1, <1>2
  <2>2. frame_tmp_'[i] = f[i + c] /\ frame_tmp_'[i + 1] = f[(i + c) + 1]
    BY <1>1, <2>1
  <2> QED BY <2>1, <2>2
<1>4. ASSUME l < Len(frame_tmp_') PROVE After(frame_tmp_'[Len(frame_tmp_')]) = next
  <2>1. k < Len(f) /\ Len(f) - c \in 1 .. Len(f) - c /\ (Len(f) - c) + c = Len(f)
    BY <1>0, <1>1, <1>2, <1>4
  <2> QED BY <1>1, <2>1
<1>5. 1 .. Len(line') - 1 = {}
  BY EmptySeq
<1>6. /\ \A i \in l + 1 .. Len(frame_tmp_') - 1 :
           frame_tmp_'[i + 1] = After(frame_tmp_'[i])
      /\ \A i \in 1 .. Len(line') - 1 : line'[i + 1].point = After(line'[i].point)
      /\ line' # <<>> => next' = After(line'[Len(line')].point)
      /\ l < Len(frame_tmp_') =>
           After(frame_tmp_'[Len(frame_tmp_')]) =
             IF line' = <<>> THEN next' ELSE line'[1].point
  BY <1>3, <1>4, <1>5
<1> QED BY <1>6 DEF l, Continues

\* A callback leaves old points and then a piece of the sensor's sequence.
LEMMA CallbackOldThenNew ==
  ASSUME Types, Behind, CommReadCallback, NEW k \in 0 .. Len(frame_tmp_), OldThenNew(k)
  PROVE  \E l \in 0 .. Len(frame_tmp_') : OldThenNew(l)'
<1> DEFINE f == Parse(line).points
           v == Parse(line).speed
<1>0. line # <<>> /\ start' = start /\ line' = <<>> /\ next' = next /\ last_pkg_timestamp_' = TRUE
  BY DEF CommReadCallback, history
<1>1. OldUpTo(f, k) /\ k \in 0 .. Len(f)
  BY <1>0, ParsedOldUpTo DEF OldThenNew
<1>2. /\ \A i \in k + 1 .. Len(f) - 1 : f[i + 1] = After(f[i])
      /\ k < Len(f) => next = After(f[Len(f)])
  BY <1>0, ParsedContinues DEF OldThenNew
<1>3. /\ f \in Seq(Point)
      /\ \E c \in 0 .. Len(f) :
           EraseFront(f, c) /\ (Cuts(f, v, c) \/ Drops(f, v, c) \/ Waits(f, v, c))
  BY CallbackEffect
<1> HIDE DEF f, v
<1>4. PICK c \in 0 .. Len(f) :
        EraseFront(f, c) /\ (Cuts(f, v, c) \/ Drops(f, v, c) \/ Waits(f, v, c))
  BY <1>3
<1> DEFINE l == Left(k, c)
<1>5. OldUpTo(frame_tmp_, l)' /\ l \in 0 .. Len(frame_tmp_')
  BY <1>0, <1>1, <1>3, <1>4, ErasedOldUpTo
<1>6. Continues(frame_tmp_, l)'
  BY <1>0, <1>1, <1>2, <1>3, <1>4, ErasedContinues
<1>7. ~first_frame_' => l = 0
  BY <1>1, <1>3, <1>4, LeftIs DEF OldThenNew
<1>8. l' = l
  BY DEF Left
<1> HIDE DEF l
<1>9. OldThenNew(l)'
  BY <1>0, <1>5, <1>6, <1>7, <1>8 DEF OldThenNew
<1> QED BY <1>5, <1>8, <1>9 DEF OldThenNew, OldUpTo, Continues, Wrap, After

\* At a stop the loop cuts the first N points when they are a whole revolution.
LEMMA StopIsTurn ==
  ASSUME NEW f \in Seq(Point), f # <<>>, f[1].at = 0,
         \A i \in 1 .. Len(f) - 1 : f[i + 1] = After(f[i]),
         f[1].turn \notin round, NEW c \in 0 .. Len(f)
  PROVE  /\ ~Drops(f, TRUE, c)
         /\ Cuts(f, TRUE, c) => c = N /\ Len(f) > N
<1>0. Len(f) \in Nat /\ N \in Nat /\ N >= 2 /\ c \in Nat
  BY NAssumption
<1>1. /\ \A i \in 1 .. N : i <= Len(f) => ~Stops(f, TRUE, i)
      /\ Len(f) > N => CutsTurn(f, TRUE, N + 1)
  BY TurnIsCut
<1>2. ASSUME NEW i \in 1 .. Len(f), StopsFirst(f, TRUE, i)
      PROVE  i = N + 1 /\ Len(f) > N /\ CutsTurn(f, TRUE, N + 1)
  <2>1. Stops(f, TRUE, i) /\ \A j \in 1 .. i - 1 : ~Stops(f, TRUE, j)
    BY <1>2 DEF StopsFirst
  <2>2. i \in Nat /\ 1 <= i /\ i <= Len(f)
    BY <1>0
  <2>3. i \notin 1 .. N
    BY <1>1, <2>1, <2>2
  <2>4. i > N /\ Len(f) > N
    BY <1>0, <2>2, <2>3
  <2>5. CutsTurn(f, TRUE, N + 1)
    BY <1>1, <2>4
  <2>6. N + 1 \notin 1 .. i - 1
    BY <2>1, <2>5 DEF Stops
  <2>7. i = N + 1
    BY <1>0, <2>2, <2>4, <2>6
  <2> QED BY <2>4, <2>5, <2>7
<1>3. ASSUME Drops(f, TRUE, c) PROVE FALSE
  <2>1. CASE c + 1 \in 1 .. Len(f) /\ StopsFirst(f, TRUE, c + 1) /\ DropsTurn(f, TRUE, c + 1)
    <3>1. CutsTurn(f, TRUE, c + 1)
      BY <1>2, <2>1
    <3> QED BY <2>1, <3>1 DEF DropsTurn, CutsTurn
  <2>2. CASE c \in 1 .. Len(f) /\ StopsFirst(f, TRUE, c) /\ ~CutsTurn(f, TRUE, c)
    BY <1>2, <2>2
  <2> QED BY <1>3, <2>1, <2>2 DEF Drops
<1>4. ASSUME Cuts(f, TRUE, c) PROVE c = N /\ Len(f) > N
  <2>1. c + 1 = N + 1 /\ Len(f) > N
    BY <1>2, <1>4 DEF Cuts
  <2> QED BY <1>0, <2>1
<1> QED BY <1>3, <1>4

\* After a callback frame_tmp_ begins with the revolution after the one published.
LEMMA CallbackAtTurn ==
  ASSUME Types, Behind, CommReadCallback, NEW k \in 0 .. Len(frame_tmp_), OldThenNew(k),
         AtTurn, CleanLine
  PROVE  AtTurn' /\ CleanLine'
<1> DEFINE f == Parse(line).points
           v == Parse(line).speed
<1>0. line # <<>> /\ start' = start /\ line' = <<>> /\ round' = round
  BY DEF CommReadCallback, history
<1>1. CleanLine'
  <2>1. 1 .. Len(line') = {}
    BY <1>0
  <2> QED BY <1>0, <2>1 DEF CleanLine, NoneEmptied
<1>2. k \in Nat /\ Len(f) \in Nat /\ Len(frame_tmp_) \in Nat /\ Len(frame_tmp_) <= Len(f)
      /\ Len(line) \in Nat
  BY <1>0, ParseIs, LenProperties DEF Types, PointTypes
<1>3. /\ f \in Seq(Point)
      /\ \E c \in 0 .. Len(f) :
           EraseFront(f, c) /\ (Cuts(f, v, c) \/ Drops(f, v, c) \/ Waits(f, v, c))
  BY CallbackEffect
<1>4. ASSUME ~first_frame_
      PROVE  /\ f # <<>> /\ f[1] = frame_tmp_[1] /\ f[1].at = 0
             /\ v = TRUE
             /\ \A i \in 1 .. Len(f) - 1 : f[i + 1] = After(f[i])
             /\ f[1].turn \notin round
  <2>1. last_pkg_timestamp_ /\ k = 0
    BY <1>4 DEF OldThenNew, Types, FlagTypes
  <2>2. Read = line
    BY <2>1 DEF Read
  <2>3. v = line[Len(line)].turning
    BY <1>0, <2>2, ParseIs
  <2>4. Len(line) \in 1 .. Len(line) /\ line[Len(line)] \in Packet
    BY <1>0, <1>2, EmptySeq, TypesOfPoints DEF Types, PointTypes
  <2>5. v = TRUE
    BY <2>3, <2>4 DEF CleanLine, Packet
  <2>6. 1 \in 1 .. Len(frame_tmp_) /\ frame_tmp_[1].at = 0
    BY <1>2, <1>4, EmptySeq DEF AtTurn, Types, PointTypes
  <2>7. f[1] = frame_tmp_[1]
    BY <1>0, <2>6, ParseIs
  <2>8. start <= f[1].turn
    BY <2>1, <2>6, <2>7 DEF OldThenNew, OldUpTo
  <2>9. f[1].turn \notin round
    <3>1. f[1].turn \in Int /\ start \in Int
      BY <2>6, <2>7, TypesOfPoints, TurnIsNumber
    <3>2. round \subseteq Int
      BY BoundAssumption DEF Types, SensorTypes, Turn
    <3> QED BY <2>8, <3>1, <3>2 DEF CleanLine, NoneEmptied
  <2>10. \A i \in 1 .. Len(f) - 1 : f[i + 1] = After(f[i])
    BY <1>0, <2>1, ParsedContinues DEF OldThenNew
  <2>11. f # <<>>
    BY <1>2, <1>3, <2>6, EmptySeq
  <2> QED BY <2>5, <2>6, <2>7, <2>9, <2>10, <2>11
<1> HIDE DEF f, v
<1>5. PICK c \in 0 .. Len(f) :
        EraseFront(f, c) /\ (Cuts(f, v, c) \/ Drops(f, v, c) \/ Waits(f, v, c))
  BY <1>3
<1>6. /\ frame_tmp_' \in Seq(Point) /\ Len(frame_tmp_') = Len(f) - c
      /\ \A i \in 1 .. Len(f) - c : frame_tmp_'[i] = f[i + c]
  BY <1>3, <1>5, Erased
<1>7. c + 1 <= Len(f) => frame_tmp_' # <<>> /\ frame_tmp_'[1] = f[c + 1]
  BY <1>2, <1>6, EmptySeq
<1>8. CASE first_frame_
  <2>1. ~(\E p \in BagToSet(laser_scan_data_) : p.turn >= start)
    BY <1>8 DEF AtTurn
  <2>2. laser_scan_data_' = laser_scan_data_
    BY <1>5, <1>8 DEF Cuts, Drops, Waits
  <2>3. ASSUME ~first_frame_' PROVE frame_tmp_' # <<>> /\ frame_tmp_'[1].at = 0
    <3>1. Cuts(f, v, c)
      BY <1>5, <1>8, <2>3 DEF Drops, Waits
    <3>2. c + 1 <= Len(f) /\ f[c + 1].at = 0
      BY <3>1 DEF Cuts, CutsTurn, Wrap
    <3> QED BY <1>7, <3>2
  <2> QED BY <1>0, <1>1, <2>1, <2>2, <2>3 DEF AtTurn
<1>9. CASE ~first_frame_
  <2>1. ~Drops(f, v, c) /\ (Cuts(f, v, c) => c = N /\ Len(f) > N)
    BY <1>3, <1>4, <1>9, StopIsTurn
  <2>2. CASE Cuts(f, v, c)
    <3>1. c = N /\ Len(f) > N /\ N \in Nat
      BY <2>1, <2>2, NAssumption
    <3>2. /\ laser_scan_data_'
               = SetToBag({[turn |-> f[1].turn, at |-> a] : a \in 0 .. N - 1})
          /\ f[N + 1] = [turn |-> f[1].turn + 1, at |-> 0]
      BY <1>3, <1>4, <1>9, <2>2, <3>1, TurnIsCut DEF Cuts
    <3>3. frame_tmp_' # <<>> /\ frame_tmp_'[1] = f[N + 1]
      BY <1>2, <1>7, <3>1
    <3>4. first_frame_' = FALSE
      BY <2>2 DEF Cuts
    <3>5. f[1].turn \in Turn
      <4>1. 1 \in 1 .. Len(f)
        BY <1>2, <3>1
      <4>2. f[1] \in Point
        BY <1>3, <4>1, ElementOfSeq
      <4> QED BY <4>2 DEF Point
    <3>6. PICK t \in Turn : t = f[1].turn
      BY <3>5
    <3>7. ScanThenTurn(t)'
      BY <3>2, <3>3, <3>6 DEF ScanThenTurn
    <3> QED BY <1>1, <3>2, <3>3, <3>4, <3>7 DEF AtTurn
  <2>3. CASE Waits(f, v, c)
    <3>1. c = 0 /\ first_frame_' = first_frame_ /\ laser_scan_data_' = laser_scan_data_
      BY <2>3 DEF Waits
    <3>2. frame_tmp_' # <<>> /\ frame_tmp_'[1] = frame_tmp_[1]
      <4>1. Len(f) # 0
        BY <1>3, <1>4, <1>9, EmptySeq
      <4> QED BY <1>2, <1>4, <1>7, <1>9, <3>1, <4>1
    <3> QED BY <1>0, <1>1, <1>9, <3>1, <3>2 DEF AtTurn, ScanThenTurn
  <2> QED BY <1>5, <2>1, <2>2, <2>3
<1> QED BY <1>8, <1>9

\* The first session begins clean.
LEMMA InitCleanSoFar ==
  ASSUME Init
  PROVE  CleanSoFar
<1>1. /\ frame_tmp_ = <<>> /\ line = <<>> /\ BagToSet(laser_scan_data_) = {}
      /\ Len(<<>>) = 0 /\ 1 .. Len(<<>>) = {} /\ 1 .. Len(<<>>) - 1 = {}
      /\ first_frame_ = TRUE /\ clean = NoneEmptied(1) /\ start = 1
  BY EmptySeq DEF Init, BagToSet, EmptyBag, SetToBag
<1>2. OldUpTo(<<>>, 0)
  BY <1>1 DEF OldUpTo
<1>3. Continues(<<>>, 0)
  <2>1. 0 + 1 .. Len(<<>>) - 1 = {}
    BY <1>1
  <2> QED BY <1>1, <2>1 DEF Continues
<1>4. OldThenNew(0)
  BY <1>1, <1>2, <1>3 DEF OldThenNew
<1>5. AtTurn
  BY <1>1 DEF AtTurn
<1>6. clean => CleanLine
  BY <1>1 DEF CleanLine
<1> QED BY <1>1, <1>4, <1>5, <1>6 DEF CleanSoFar

\* Measuring a point continues the sequence.
LEMMA MeasureClean ==
  ASSUME Types, Measure, NEW k \in 0 .. Len(frame_tmp_), OldThenNew(k), AtTurn, CleanLine
  PROVE  OldThenNew(k)' /\ AtTurn' /\ CleanLine'
<1>1. /\ UNCHANGED <<frame_tmp_, first_frame_, last_pkg_timestamp_, laser_scan_data_, start, round>>
      /\ next # <<>> /\ next' = After(next)
      /\ line' = Append(line, [point |-> next, turning |-> TRUE])
  BY DEF Measure, parser, history
<1>2. /\ Len(line') = Len(line) + 1 /\ Len(line) \in Nat
      /\ \A i \in 1 .. Len(line) : line'[i] = line[i]
      /\ line'[Len(line) + 1] = [point |-> next, turning |-> TRUE]
      /\ line' \in Seq(Packet)
  BY <1>1, LineGrows
<1>3. line' # <<>> /\ line'[Len(line')].point = next
  BY <1>2, EmptySeq
<1>4. line = <<>> <=> Len(line) = 0
  BY EmptySeq DEF Types, PointTypes
<1>5. ASSUME NEW i \in 1 .. Len(line') - 1 PROVE line'[i + 1].point = After(line'[i].point)
  <2>1. i \in 1 .. Len(line) /\ line'[i] = line[i]
    BY <1>2
  <2>2. CASE i < Len(line)
    <3>1. i + 1 \in 1 .. Len(line) /\ i \in 1 .. Len(line) - 1
      BY <1>2, <2>1, <2>2
    <3> QED BY <1>2, <2>1, <3>1 DEF OldThenNew, Continues
  <2>3. CASE i = Len(line)
    <3>1. line # <<>>
      BY <1>2, <1>4, <2>1
    <3> QED BY <1>2, <2>1, <2>3, <3>1 DEF OldThenNew, Continues
  <2> QED BY <1>2, <2>1, <2>2, <2>3
<1>6. ASSUME k < Len(frame_tmp_) PROVE After(frame_tmp_[Len(frame_tmp_)]) = line'[1].point
  <2>1. CASE line = <<>>
    <3>1. line'[1].point = next
      BY <1>2, <1>4, <2>1
    <3> QED BY <1>6, <2>1, <3>1 DEF OldThenNew, Continues
  <2>2. CASE line # <<>>
    <3>1. line'[1] = line[1]
      BY <1>2, <1>4, <2>2
    <3> QED BY <1>6, <2>2, <3>1 DEF OldThenNew, Continues
  <2> QED BY <2>1, <2>2
<1>7. Continues(frame_tmp_, k)'
  <2>1. \A i \in k + 1 .. Len(frame_tmp_) - 1 : frame_tmp_[i + 1] = After(frame_tmp_[i])
    BY DEF OldThenNew, Continues
  <2> QED BY <1>1, <1>3, <1>5, <1>6, <2>1 DEF Continues, After
<1>8. OldThenNew(k)'
  BY <1>1, <1>7 DEF OldThenNew, OldUpTo, Wrap
<1>9. AtTurn'
  BY <1>1 DEF AtTurn, ScanThenTurn
<1>10. CleanLine'
  <2>1. \A i \in 1 .. Len(line') : line'[i].turning
    BY <1>2 DEF CleanLine
  <2> QED BY <1>1, <2>1 DEF CleanLine, NoneEmptied
<1> QED BY <1>8, <1>9, <1>10

\* A step keeps a clean session clean, or ends that.
LEMMA NextCleanSoFar ==
  ASSUME Types, Behind, CleanSoFar, [Next]_vars
  PROVE  CleanSoFar'
<1>1. CASE MeasureStanding \/ LosePacket
  <2>1. clean' = FALSE
    BY <1>1 DEF MeasureStanding, LosePacket
  <2> QED BY <2>1 DEF CleanSoFar
<1>2. CASE Measure
  <2>1. UNCHANGED <<clean, backlog, frame_tmp_>>
    BY <1>2 DEF Measure, history, parser
  <2>2. SUFFICES ASSUME clean, ~backlog
                 PROVE  (\E k \in 0 .. Len(frame_tmp_) : OldThenNew(k)') /\ AtTurn' /\ CleanLine'
    BY <2>1 DEF CleanSoFar
  <2>3. PICK k \in 0 .. Len(frame_tmp_) : OldThenNew(k)
    BY <2>2 DEF CleanSoFar
  <2>4. OldThenNew(k)' /\ AtTurn' /\ CleanLine'
    BY <1>2, <2>2, <2>3, MeasureClean DEF CleanSoFar
  <2> QED BY <2>4
<1>3. CASE CommReadCallback
  <2>1. UNCHANGED <<clean, backlog>>
    BY <1>3 DEF CommReadCallback, history
  <2>2. SUFFICES ASSUME clean, ~backlog
                 PROVE  (\E k \in 0 .. Len(frame_tmp_') : OldThenNew(k)') /\ AtTurn' /\ CleanLine'
    BY <2>1 DEF CleanSoFar
  <2>3. PICK k \in 0 .. Len(frame_tmp_) : OldThenNew(k)
    BY <2>2 DEF CleanSoFar
  <2> QED BY <1>3, <2>2, <2>3, CallbackOldThenNew, CallbackAtTurn DEF CleanSoFar
<1>4. CASE Restart
  <2>1. /\ next # <<>> /\ next' \in Point /\ next'.turn > next.turn /\ start' = next'.turn
        /\ first_frame_' = TRUE /\ line' = <<>>
        /\ UNCHANGED <<frame_tmp_, round, laser_scan_data_>>
        /\ clean' = NoneEmptied(next'.turn)
        /\ backlog' = \E i \in 1 .. Len(frame_tmp_) : Wrap(frame_tmp_, i)
    BY <1>4 DEF Restart, ClearDataProcessStatus
  <2>2. SUFFICES ASSUME clean', ~backlog'
                 PROVE  (\E k \in 0 .. Len(frame_tmp_') : OldThenNew(k)') /\ AtTurn' /\ CleanLine'
    BY DEF CleanSoFar
  <2> DEFINE k == Len(frame_tmp_)
  <2>3. k' = k /\ k \in Nat /\ 1 .. Len(<<>>) = {} /\ 1 .. Len(<<>>) - 1 = {}
        /\ k + 1 .. k = {} /\ k + 1 .. k - 1 = {}
    BY <2>1, TypesOfPoints, EmptySeq
  <2>4. OldUpTo(frame_tmp_, k)'
    BY <2>1, <2>2, <2>3 DEF OldUpTo, Wrap
  <2>5. Continues(frame_tmp_, k)'
    BY <2>1, <2>3 DEF Continues
  <2>6. OldThenNew(k)' /\ k \in 0 .. Len(frame_tmp_')
    BY <2>1, <2>3, <2>4, <2>5 DEF OldThenNew
  <2>7. CleanLine'
    BY <2>1, <2>2, <2>3 DEF CleanLine, NoneEmptied
  <2>8. AtTurn'
    <3>1. ASSUME NEW p \in BagToSet(laser_scan_data_) PROVE ~(p.turn >= next'.turn)
      <4>1. p.turn <= next.turn
        BY <2>1 DEF Behind
      <4>2. p.turn \in Int /\ next.turn \in Int /\ next'.turn \in Int
        BY <2>1, TypesOfPoints, TurnIsNumber
      <4> QED BY <2>1, <4>1, <4>2
    <3> QED BY <2>1, <3>1 DEF AtTurn
  <2> HIDE DEF k
  <2>9. \E l \in 0 .. Len(frame_tmp_') : OldThenNew(l)'
    BY <2>3, <2>6 DEF OldThenNew, OldUpTo, Continues, Wrap, After
  <2> QED BY <2>7, <2>8, <2>9
<1>5. CASE UNCHANGED vars
  <2>1. UNCHANGED <<line, next, round, parser, laser_scan_data_, history>>
    BY <1>5 DEF vars
  <2>2. UNCHANGED <<line, next, round, frame_tmp_, first_frame_, last_pkg_timestamp_,
                    laser_scan_data_, start, clean, backlog>>
    BY <2>1 DEF parser, history
  <2>3. OldThenNew(0)' <=> OldThenNew(0)
    BY <2>2 DEF OldThenNew, OldUpTo, Continues, Wrap, After
  <2>4. \A k : OldThenNew(k)' <=> OldThenNew(k)
    BY <2>2 DEF OldThenNew, OldUpTo, Continues, Wrap, After
  <2>5. (AtTurn' <=> AtTurn) /\ (CleanLine' <=> CleanLine)
    BY <2>2 DEF AtTurn, ScanThenTurn, CleanLine, NoneEmptied
  <2> QED BY <2>2, <2>4, <2>5 DEF CleanSoFar
<1> QED BY <1>1, <1>2, <1>3, <1>4, <1>5 DEF Next

-----------------------------------------------------------------------------
(* Positions: the sensor's points, counted one after another.                 *)

Pos(p) == p.turn * N + p.at

\* Revolutions are N positions apart.
LEMMA Multiples ==
  ASSUME NEW x \in Int, NEW y \in Int, x < y
  PROVE  x * N + N <= y * N /\ x * N \in Int /\ y * N \in Int /\ (x + 1) * N = x * N + N
<1>1. N \in Nat /\ y - x - 1 \in Nat
  BY NAssumption
<1>2. (y - x - 1) * N >= 0
  BY <1>1
<1>3. (y - x - 1) * N = y * N - x * N - N
  BY <1>1
<1> QED BY <1>1, <1>2, <1>3

\* A number of revolutions is a number of positions.
LEMMA TimesN ==
  ASSUME NEW x \in Int
  PROVE  x * N \in Int
BY NAssumption

\* The position of a point is a number.
LEMMA PosOfPoint ==
  ASSUME NEW p \in Point
  PROVE  /\ p.turn \in Int /\ p.at \in Int /\ 0 <= p.at /\ p.at <= N - 1
         /\ p.turn * N \in Int /\ Pos(p) \in Int /\ Pos(p) = p.turn * N + p.at
         /\ N \in Nat /\ N >= 2
<1>1. p.turn \in Int /\ p.at \in 0 .. N - 1 /\ N \in Nat /\ N >= 2
  BY NAssumption, BoundAssumption DEF Point, Turn
<1>2. p.turn * N \in Int
  BY <1>1
<1> QED BY <1>1, <1>2 DEF Pos

\* A point that is not behind another is of the same revolution or a later one.
LEMMA PosTurn ==
  ASSUME NEW p \in Point, NEW q \in Point
  PROVE  /\ Pos(p) <= Pos(q) => p.turn <= q.turn
         /\ p.turn < q.turn => p.turn * N + N <= q.turn * N
         /\ p.turn = q.turn => p.turn * N = q.turn * N
<1>1. /\ p.turn \in Int /\ p.at \in Int /\ 0 <= p.at /\ p.at <= N - 1
      /\ q.turn \in Int /\ q.at \in Int /\ 0 <= q.at /\ q.at <= N - 1
      /\ Pos(p) = p.turn * N + p.at /\ Pos(q) = q.turn * N + q.at
      /\ N \in Nat /\ p.turn * N \in Int /\ q.turn * N \in Int
  BY PosOfPoint
<1>2. p.turn < q.turn => p.turn * N + N <= q.turn * N
  BY <1>1, Multiples
<1>3. q.turn < p.turn => q.turn * N + N <= p.turn * N
  BY <1>1, Multiples
<1> QED BY <1>1, <1>2, <1>3

\* The position of the first point of revolution u, and of the one before it.
LEMMA PosOfTurn ==
  ASSUME NEW p \in Point, NEW u \in Int
  PROVE  /\ Pos(p) = u * N => p.at = 0 /\ p.turn = u
         /\ Pos(p) = u * N - 1 => p.at = N - 1
         /\ Pos(p) < u * N <=> p.turn < u
<1>1. /\ p.turn \in Int /\ p.at \in Int /\ 0 <= p.at /\ p.at <= N - 1
      /\ Pos(p) = p.turn * N + p.at /\ N \in Nat /\ p.turn * N \in Int
  BY PosOfPoint
<1>2. p.turn < u => p.turn * N + N <= u * N
  BY <1>1, Multiples
<1>3. u < p.turn => u * N + N <= p.turn * N
  BY <1>1, Multiples
<1>4. p.turn < u - 1 => p.turn * N + N <= (u - 1) * N
  BY <1>1, Multiples
<1>5. (u - 1) * N + N = u * N /\ u * N \in Int /\ (u - 1) * N \in Int
  BY <1>1
<1>6. CASE p.turn = u
  <2>1. p.turn * N = u * N
    BY <1>6
  <2> QED BY <1>1, <1>5, <1>6, <2>1
<1>7. CASE u < p.turn
  BY <1>1, <1>3, <1>5, <1>7
<1>8. CASE p.turn = u - 1
  <2>1. p.turn * N = (u - 1) * N
    BY <1>8
  <2> QED BY <1>1, <1>5, <1>8, <2>1
<1>9. CASE p.turn < u - 1
  BY <1>1, <1>4, <1>5, <1>9
<1> QED BY <1>1, <1>6, <1>7, <1>8, <1>9

\* The point measured next is one position further.
LEMMA PosOfAfter ==
  ASSUME NEW p \in Point
  PROVE  /\ After(p) # <<>> => Pos(After(p)) = Pos(p) + 1
         /\ After(p) = <<>> => Pos(p) + 1 = (MaxTurn + 1) * N
<1>1. /\ p.turn \in Int /\ p.at \in Int /\ 0 <= p.at /\ p.at <= N - 1
      /\ Pos(p) = p.turn * N + p.at /\ N \in Nat /\ p.turn * N \in Int
  BY PosOfPoint
<1>2. p.turn \in 1 .. MaxTurn /\ MaxTurn \in Nat
  BY BoundAssumption DEF Point, Turn
<1>3. CASE p.at < N - 1
  <2>1. After(p) = [p EXCEPT !.at = @ + 1]
    BY <1>3 DEF After
  <2>2. After(p) = [turn |-> p.turn, at |-> p.at + 1]
    BY <2>1 DEF Point
  <2>3. Pos(After(p)) = p.turn * N + (p.at + 1)
    <3> DEFINE r == [turn |-> p.turn, at |-> p.at + 1]
    <3>1. After(p) = r /\ r.turn = p.turn /\ r.at = p.at + 1
      BY <2>2
    <3> HIDE DEF r
    <3> QED BY <3>1 DEF Pos
  <2>4. After(p) \in Point
    BY <1>1, <1>2, <1>3, <2>2 DEF Point, Turn
  <2>5. Pos(After(p)) = Pos(p) + 1
    BY <1>1, <2>3
  <2>6. After(p) # <<>>
    BY <2>4, NoPoint
  <2> QED BY <2>5, <2>6
<1>4. CASE p.at = N - 1 /\ p.turn < MaxTurn
  <2>1. After(p) = [turn |-> p.turn + 1, at |-> 0]
    BY <1>1, <1>2, <1>4 DEF After
  <2>2. Pos(After(p)) = (p.turn + 1) * N + 0
    BY <2>1 DEF Pos
  <2>3. (p.turn + 1) * N = p.turn * N + N
    BY <1>1
  <2>4. After(p) \in Point
    BY <1>1, <1>2, <1>4, <2>1 DEF Point, Turn
  <2> QED BY <1>1, <1>4, <2>2, <2>3, <2>4, NoPoint
<1>5. CASE p.at = N - 1 /\ p.turn = MaxTurn
  <2>1. After(p) = <<>>
    BY <1>1, <1>2, <1>5 DEF After
  <2>2. (MaxTurn + 1) * N = MaxTurn * N + N
    BY <1>1, <1>2
  <2> QED BY <1>1, <1>5, <2>1, <2>2
<1> QED BY <1>1, <1>2, <1>3, <1>4, <1>5

-----------------------------------------------------------------------------
(* A track: the positions of the points that wait, and of the next one.       *)

\* What does not decrease step by step does not decrease.
LEMMA Monotone ==
  ASSUME NEW g, NEW lo \in Int, NEW hi \in Int,
         \A i \in lo .. hi : g[i] \in Int,
         \A i \in lo .. hi - 1 : g[i] <= g[i + 1]
  PROVE  \A i \in lo .. hi : \A j \in i .. hi : g[i] <= g[j]
<1> SUFFICES ASSUME NEW i \in lo .. hi, NEW j \in i .. hi PROVE g[i] <= g[j]
  OBVIOUS
<1> DEFINE D == {d \in 0 .. hi - i : g[i] <= g[i + d]}
<1>1. 0 \in D
  OBVIOUS
<1>2. ASSUME NEW d \in 0 .. (hi - i) - 1, d \in D PROVE d + 1 \in D
  <2>1. /\ i + d \in lo .. hi - 1 /\ i + (d + 1) = (i + d) + 1
        /\ i + d \in lo .. hi /\ (i + d) + 1 \in lo .. hi /\ d + 1 \in 0 .. hi - i
    OBVIOUS
  <2>2. g[i] <= g[i + d] /\ g[i + d] <= g[(i + d) + 1]
    BY <1>2, <2>1
  <2> QED BY <2>1, <2>2
<1> HIDE DEF D
<1>3. j - i \in D
  <2>1. hi - i \in Nat /\ j - i \in 0 .. hi - i
    OBVIOUS
  <2> QED BY <1>1, <1>2, <2>1, Induction
<1> QED BY <1>3 DEF D

\* Places lo to hi of q are positions in order; no packet was repeated among
\* them; none was lost.
Track(q, lo, hi) ==
  /\ \A i \in lo .. hi : q[i] \in Int
  /\ \A i \in lo .. hi - 1 : q[i] <= q[i + 1]
Strict(q, lo, hi) == \A i \in lo .. hi - 1 : q[i] + 1 <= q[i + 1]
Tight(q, lo, hi) == \A i \in lo .. hi - 1 : q[i + 1] <= q[i] + 1

\* A track never goes back.
LEMMA TrackGrows ==
  ASSUME NEW q, NEW lo \in Int, NEW hi \in Int, Track(q, lo, hi),
         NEW i \in lo .. hi, NEW j \in i .. hi
  PROVE  q[i] \in Int /\ q[j] \in Int /\ q[i] <= q[j]
<1>1. \A k \in lo .. hi : q[k] \in Int
  BY DEF Track
<1>2. \A k \in lo .. hi - 1 : q[k] <= q[k + 1]
  BY DEF Track
<1>3. q[i] <= q[j]
  BY <1>1, <1>2, Monotone
<1> QED BY <1>1, <1>3

\* Without repeated packets it grows by at least one for each place.
LEMMA StrictGrows ==
  ASSUME NEW q, NEW lo \in Int, NEW hi \in Int, Track(q, lo, hi), Strict(q, lo, hi),
         NEW i \in lo .. hi, NEW j \in i .. hi
  PROVE  q[i] + (j - i) <= q[j]
<1>1. q[i] \in Int /\ q[j] \in Int /\ \A k \in lo .. hi : q[k] \in Int
  BY DEF Track
<1> DEFINE g == [k \in lo .. hi |-> q[k] - k]
<1>2. \A k \in lo .. hi : g[k] = q[k] - k /\ g[k] \in Int
  BY <1>1
<1>3. ASSUME NEW k \in lo .. hi - 1 PROVE g[k] <= g[k + 1]
  <2>1. k \in lo .. hi /\ k + 1 \in lo .. hi /\ q[k] + 1 <= q[k + 1]
    BY DEF Strict
  <2> QED BY <1>1, <1>2, <2>1
<1> HIDE DEF g
<1>4. g[i] <= g[j]
  BY <1>2, <1>3, Monotone
<1> QED BY <1>1, <1>2, <1>4

\* Without lost packets it grows by at most one for each place.
LEMMA TightGrows ==
  ASSUME NEW q, NEW lo \in Int, NEW hi \in Int, Track(q, lo, hi), Tight(q, lo, hi),
         NEW i \in lo .. hi, NEW j \in i .. hi
  PROVE  q[j] <= q[i] + (j - i)
<1>1. q[i] \in Int /\ q[j] \in Int /\ \A k \in lo .. hi : q[k] \in Int
  BY DEF Track
<1> DEFINE g == [k \in lo .. hi |-> k - q[k]]
<1>2. \A k \in lo .. hi : g[k] = k - q[k] /\ g[k] \in Int
  BY <1>1
<1>3. ASSUME NEW k \in lo .. hi - 1 PROVE g[k] <= g[k + 1]
  <2>1. k \in lo .. hi /\ k + 1 \in lo .. hi /\ q[k + 1] <= q[k] + 1
    BY DEF Tight
  <2> QED BY <1>1, <1>2, <2>1
<1> HIDE DEF g
<1>4. g[i] <= g[j]
  BY <1>2, <1>3, Monotone
<1> QED BY <1>1, <1>2, <1>4

\* The first place of a track at which x is reached.
LEMMA Crossing ==
  ASSUME NEW q, NEW n \in Int, NEW x \in Int, NEW c \in 1 .. n,
         \A i \in 1 .. n : q[i] \in Int, q[1] < x, x <= q[c]
  PROVE  \E j \in 2 .. c : q[j - 1] < x /\ x <= q[j]
<1> DEFINE T == {j \in 1 .. c : x <= q[j]}
<1>1. T \subseteq Nat /\ c \in T
  OBVIOUS
<1>2. PICK j \in T : \A k \in T : j <= k
  <2> HIDE DEF T
  <2> QED BY <1>1, Least
<1>3. j # 1
  BY <1>2
<1>4. j - 1 \in 1 .. c /\ j - 1 \notin T
  BY <1>2, <1>3
<1> QED BY <1>2, <1>4

-----------------------------------------------------------------------------
(* Where a revolution begins.                                                 *)

\* When the packet before it was not lost, the loop sees that a revolution begins.
LEMMA SeenBoundary ==
  ASSUME NEW f \in Seq(Point), NEW j \in 2 .. Len(f), NEW u \in Int,
         Pos(f[j - 1]) < u * N, u * N <= Pos(f[j]), Pos(f[j]) <= Pos(f[j - 1]) + 1
  PROVE  Wrap(f, j) /\ Pos(f[j]) = u * N
<1>1. f[j] \in Point /\ f[j - 1] \in Point /\ j > 1
  <2>1. j \in 1 .. Len(f) /\ j - 1 \in 1 .. Len(f) /\ j > 1
    OBVIOUS
  <2> QED BY <2>1, ElementOfSeq
<1>2. Pos(f[j]) \in Int /\ Pos(f[j - 1]) \in Int /\ u * N \in Int
  BY <1>1, PosOfPoint, NAssumption
<1>3. Pos(f[j]) = u * N /\ Pos(f[j - 1]) = u * N - 1
  BY <1>2
<1>4. f[j].at = 0 /\ f[j - 1].at = N - 1
  BY <1>1, <1>3, PosOfTurn
<1> QED BY <1>1, <1>3, <1>4 DEF Wrap

\* The loop passes a wrap only if the filter leaves nothing of what comes before
\* it, and that are then points of all directions.
LEMMA PassedWrap ==
  ASSUME NEW f \in Seq(Point), NEW j \in 2 .. Len(f), Wrap(f, j), ~Stops(f, TRUE, j)
  PROVE  /\ 5 * (j - 1) <= 7 * N
         /\ \A a \in 0 .. N - 1 : \E m \in 1 .. j - 1 : f[m].at = a
         /\ N <= j - 1
<1>0. Len(f) \in Nat /\ j \in 1 .. Len(f) /\ j \in Nat /\ j >= 2 /\ N \in Nat /\ N >= 2
  BY NAssumption
<1>1. 5 * (j - 1) <= 7 * N
  <2>1. ~TooManyForATurn(j - 1, TRUE)
    BY DEF Stops, DropsTurn
  <2> QED BY <1>0, <2>1 DEF TooManyForATurn
<1> DEFINE c == Collected(f, j)
<1>2. c \in Seq(Point) /\ \A k \in 1 .. Len(c) : \E m \in 1 .. j - 1 : c[k] = f[m]
  BY <1>0, CollectedFrom
<1>3. c # <<>>
  <2> DEFINE d == Collected(f, j - 1)
             s == SubSeq(f, 1, j - 1)
  <2>1. c = s \o d
    <3>1. j \in 0 .. Len(f) /\ j # 0
      BY <1>0
    <3>2. c = CollectedStep(f, d, j)
      BY <1>0, <3>1, CollectedDef
    <3> QED BY <3>2 DEF CollectedStep
  <2>2. d \in Seq(Point)
    <3>1. j - 1 \in 0 .. Len(f)
      BY <1>0
    <3> QED BY <3>1, CollectedFrom
  <2>3. s \in Seq(Point) /\ Len(s) = j - 1
    <3>1. \A i \in 1 .. j - 1 : f[i] \in Point
      BY <1>0, ElementOfSeq
    <3> QED BY <1>0, <3>1, SubSeqProperties
  <2> HIDE DEF c, d, s
  <2>4. Len(c) = (j - 1) + Len(d) /\ Len(d) \in Nat
    BY <2>1, <2>2, <2>3, ConcatProperties, LenProperties
  <2> QED BY <1>0, <1>2, <2>4, EmptySeq
<1>4. Filter(c, TRUE) = <<>>
  BY <1>1, <1>0 DEF Stops, CutsTurn, DropsTurn
<1> HIDE DEF c
<1>5. \A a \in 0 .. N - 1 : \E i \in 1 .. Len(c) : c[i].at = a
  BY <1>3, <1>4 DEF Filter
<1>6. \A a \in 0 .. N - 1 : \E m \in 1 .. j - 1 : f[m].at = a
  BY <1>2, <1>5
<1>7. N <= j - 1
  <2> DEFINE where == [a \in 0 .. N - 1 |-> CHOOSE m \in 1 .. j - 1 : f[m].at = a]
  <2>1. \A a \in 0 .. N - 1 : where[a] \in 1 .. j - 1 /\ f[where[a]].at = a
    BY <1>6
  <2>2. where \in Injection(0 .. N - 1, 1 .. j - 1)
    <3>1. where \in [0 .. N - 1 -> 1 .. j - 1]
      BY <2>1
    <3> HIDE DEF where
    <3>2. ASSUME NEW a \in 0 .. N - 1, NEW b \in 0 .. N - 1, where[a] = where[b]
          PROVE  a = b
      BY <2>1, <3>2
    <3> QED BY <3>1, <3>2 DEF Injection, IsInjective
  <2>3. /\ IsFiniteSet(1 .. j - 1) /\ Cardinality(1 .. j - 1) = j - 1
        /\ Cardinality(0 .. N - 1) = N
    <3>1. j - 1 \in Int /\ 1 \in Int /\ 0 \in Int /\ N - 1 \in Int /\ ~(1 > j - 1) /\ ~(0 > N - 1)
          /\ (j - 1) - 1 + 1 = j - 1 /\ (N - 1) - 0 + 1 = N
      BY <1>0
    <3> QED BY <3>1, FS_Interval
  <2> HIDE DEF where
  <2> QED BY <2>2, <2>3, FS_Injection
<1> QED BY <1>1, <1>6, <1>7

\* The position of a wrap, and of the point before it.
LEMMA WrapPos ==
  ASSUME NEW f \in Seq(Point), NEW i \in 2 .. Len(f), Wrap(f, i)
  PROVE  /\ Pos(f[i]) = f[i].turn * N
         /\ Pos(f[i - 1]) = f[i - 1].turn * N + N - 1
         /\ f[i] \in Point /\ f[i - 1] \in Point
<1>1. f[i] \in Point /\ f[i - 1] \in Point
  <2>1. i \in 1 .. Len(f) /\ i - 1 \in 1 .. Len(f)
    OBVIOUS
  <2> QED BY <2>1, ElementOfSeq
<1>2. f[i].at = 0 /\ f[i - 1].at = N - 1
  BY DEF Wrap
<1>3. /\ Pos(f[i]) = f[i].turn * N + f[i].at /\ f[i].turn * N \in Int
      /\ Pos(f[i - 1]) = f[i - 1].turn * N + f[i - 1].at /\ f[i - 1].turn * N \in Int
      /\ N \in Nat
  BY <1>1, PosOfPoint
<1> QED BY <1>1, <1>2, <1>3

\* If what the loop cuts is from two revolutions, then the second begins at some
\* place j, with position b, which is no wrap unless N points come before it.
LEMMA TwoTurns ==
  ASSUME NEW f \in Seq(Point), NEW c \in Nat, c + 1 \in 1 .. Len(f),
         StopsFirst(f, TRUE, c + 1), CutsTurn(f, TRUE, c + 1),
         NEW q, \A i \in 1 .. Len(f) : q[i] = Pos(f[i]), Track(q, 1, Len(f))
  PROVE  /\ c \in 1 .. Len(f) /\ 5 * c <= 7 * N
         /\ \/ \A i \in 1 .. c : f[i].turn = f[1].turn
            \/ \E j \in 2 .. c, b \in Int :
                 /\ q[j - 1] < b /\ b <= q[j] /\ b + N - 1 <= q[c]
                 /\ b = q[1] - f[1].at + N
                 /\ q[j] <= q[j - 1] + 1 => N <= j - 1 /\ q[j] = b
<1>0. /\ Len(f) \in Nat /\ N \in Nat /\ N >= 2 /\ c < Len(f)
      /\ \A i \in 1 .. Len(f) : f[i] \in Point /\ q[i] = Pos(f[i]) /\ q[i] \in Int
  BY NAssumption, ElementOfSeq, PosOfPoint
<1>1. Wrap(f, c + 1) /\ 5 * c <= 7 * N /\ c >= 1
  <2>1. Wrap(f, c + 1) /\ ~TooManyForATurn((c + 1) - 1, TRUE)
    BY DEF CutsTurn
  <2>2. c + 1 > 1
    BY <2>1 DEF Wrap
  <2>3. ~(5 * ((c + 1) - 1) > 7 * N)
    BY <2>1 DEF TooManyForATurn
  <2> QED BY <1>0, <2>1, <2>2, <2>3
<1> DEFINE n == Len(f)
           u == f[1].turn + 1
           a == f[1].at
           base == f[1].turn * N
           ubase == u * N
           cbase == f[c].turn * N
<1>3. /\ 1 \in 1 .. n /\ c \in 1 .. n
      /\ f[c] \in Point /\ f[1] \in Point /\ q[c] = cbase + N - 1
  <2>1. c + 1 \in 2 .. Len(f) /\ (c + 1) - 1 = c /\ c \in 1 .. Len(f) /\ 1 \in 1 .. Len(f)
    BY <1>0, <1>1
  <2>2. Pos(f[c]) = f[c].turn * N + N - 1
    BY <1>1, <2>1, WrapPos
  <2> QED BY <1>0, <2>1, <2>2
<1>4. /\ f[1].turn \in Int /\ u \in Int /\ f[c].turn \in Int
      /\ a \in Int /\ 0 <= a /\ a <= N - 1
      /\ base \in Int /\ cbase \in Int /\ ubase \in Int
      /\ q[1] = base + a
  <2>1. /\ f[1].turn \in Int /\ f[1].at \in Int /\ 0 <= f[1].at /\ f[1].at <= N - 1
        /\ Pos(f[1]) = f[1].turn * N + f[1].at
    BY <1>3, PosOfPoint
  <2>2. f[c].turn \in Int
    BY <1>3, PosOfPoint
  <2>3. u \in Int
    BY <2>1
  <2>4. base \in Int /\ cbase \in Int /\ ubase \in Int
    <3>1. base \in Int
      BY <2>1, TimesN
    <3>2. cbase \in Int
      BY <2>2, TimesN
    <3>3. ubase \in Int
      <4> HIDE DEF u
      <4> QED BY <2>3, TimesN
    <3> QED BY <3>1, <3>2, <3>3
  <2>5. q[1] = Pos(f[1])
    BY <1>0, <1>3
  <2> QED BY <2>1, <2>2, <2>3, <2>4, <2>5
<1>5. ubase = base + N
  BY <1>0, <1>4
<1>6. u <= f[c].turn => ubase <= cbase
  <2>1. CASE u = f[c].turn
    BY <1>4, <2>1
  <2>2. CASE u < f[c].turn
    <3>1. u * N + N <= f[c].turn * N /\ u * N \in Int /\ f[c].turn * N \in Int
      BY <1>4, <2>2, Multiples
    <3> HIDE DEF u
    <3>2. ubase + N <= cbase
      BY <3>1
    <3> HIDE DEF ubase, cbase
    <3> QED BY <1>0, <1>4, <3>2
  <2> QED BY <1>4, <2>1, <2>2
<1>7. /\ n \in Nat /\ N \in Nat /\ N >= 2 /\ c < n /\ c >= 1
      /\ q[1] \in Int /\ q[c] \in Int
      /\ \A i \in 1 .. n : q[i] \in Int
  BY <1>0, <1>1, <1>3
<1>8. Track(q, 1, n)
  OBVIOUS
<1> HIDE DEF n, u, a, base, ubase, cbase
<1>9. f[1].turn <= f[c].turn
  <2>1. q[1] <= q[c]
    BY <1>3, <1>7, <1>8, TrackGrows
  <2> QED BY <1>0, <1>3, <2>1, PosTurn DEF n
<1>10. CASE f[c].turn = f[1].turn
  <2>1. ASSUME NEW i \in 1 .. c PROVE f[i].turn = f[1].turn
    <3>1. i \in 1 .. n /\ 1 \in 1 .. n /\ c \in i .. n /\ i \in 1 .. n /\ 1 \in Int /\ n \in Int
      BY <1>7
    <3>2. q[1] <= q[i] /\ q[i] <= q[c]
      BY <1>8, <3>1, TrackGrows
    <3>3. f[i] \in Point
      BY <1>0, <3>1 DEF n
    <3>4. f[1].turn <= f[i].turn /\ f[i].turn <= f[c].turn
      BY <1>0, <1>3, <3>1, <3>2, <3>3, PosTurn DEF n
    <3>5. f[i].turn \in Int
      BY <3>3, PosOfPoint
    <3> QED BY <1>4, <1>10, <3>4, <3>5
  <2> QED BY <1>1, <1>3, <2>1 DEF n
<1>11. CASE u <= f[c].turn
  <2>2. ubase <= cbase
    BY <1>6, <1>11
  <2>3. PICK j \in 2 .. c : q[j - 1] < ubase /\ ubase <= q[j]
    <3>1. q[1] < ubase /\ ubase <= q[c] /\ ubase \in Int
      BY <1>3, <1>4, <1>5, <1>7, <2>2
    <3>2. n \in Int /\ c \in 1 .. n
      BY <1>3, <1>7
    <3> QED BY <1>7, <3>1, <3>2, Crossing
  <2>4. /\ j \in 2 .. n /\ j \in 1 .. n /\ j - 1 \in 1 .. n
        /\ j \in 1 .. (c + 1) - 1
    BY <1>7
  <2>6. ~Stops(f, TRUE, j)
    BY <2>4 DEF StopsFirst
  <2>7. q[j] <= q[j - 1] + 1 => N <= j - 1 /\ q[j] = ubase
    <3>1. SUFFICES ASSUME q[j] <= q[j - 1] + 1 PROVE N <= j - 1 /\ q[j] = ubase
      OBVIOUS
    <3>2. q[j] = Pos(f[j]) /\ q[j - 1] = Pos(f[j - 1])
      BY <1>0, <2>4 DEF n
    <3>3. Wrap(f, j) /\ Pos(f[j]) = u * N
      BY <1>4, <2>3, <2>4, <3>1, <3>2, SeenBoundary DEF n, ubase
    <3> QED BY <2>4, <2>6, <3>2, <3>3, PassedWrap DEF n, ubase
  <2>8. ubase + N - 1 <= q[c] /\ ubase = q[1] - a + N
    BY <1>3, <1>4, <1>5, <1>7, <2>2
  <2> QED BY <1>1, <1>3, <1>4, <2>3, <2>7, <2>8 DEF n, a
<1>12. f[c].turn = f[1].turn \/ u <= f[c].turn
  <2>1. PICK x \in Int, y \in Int : x = f[1].turn /\ y = f[c].turn
    BY <1>4
  <2>2. y = x \/ x + 1 <= y
    BY <1>9, <2>1
  <2> QED BY <2>1, <2>2 DEF u
<1> QED BY <1>10, <1>11, <1>12

\* What the loop cuts is from one revolution when nothing was lost.
LEMMA TightIsOneTurn ==
  ASSUME NEW f \in Seq(Point), NEW c \in Nat, c + 1 \in 1 .. Len(f),
         StopsFirst(f, TRUE, c + 1), CutsTurn(f, TRUE, c + 1),
         NEW q, \A i \in 1 .. Len(f) : q[i] = Pos(f[i]), Track(q, 1, Len(f)),
         Tight(q, 1, Len(f))
  PROVE  \A i \in 1 .. c : f[i].turn = f[1].turn
<1>1. SUFFICES ASSUME NEW j \in 2 .. c, NEW b \in Int,
                      q[j - 1] < b, b <= q[j], b + N - 1 <= q[c],
                      q[j] <= q[j - 1] + 1 => N <= j - 1 /\ q[j] = b
               PROVE  FALSE
  BY TwoTurns
<1>2. c \in 1 .. Len(f) /\ 5 * c <= 7 * N /\ Len(f) \in Int /\ N \in Nat /\ N >= 2
  <2>1. c \in 1 .. Len(f) /\ 5 * c <= 7 * N
    BY TwoTurns
  <2> QED BY <2>1, NAssumption, LenProperties
<1>3. /\ j \in 1 .. Len(f) /\ c \in j .. Len(f) /\ j - 1 \in 1 .. Len(f) - 1
      /\ (j - 1) + 1 = j /\ j \in Int /\ 1 \in Int
  BY <1>2
<1>4. N <= j - 1 /\ q[j] = b
  BY <1>1, <1>3 DEF Tight
<1>5. q[c] <= q[j] + (c - j) /\ q[c] \in Int
  BY <1>2, <1>3, TightGrows, TrackGrows
<1>6. N - 1 <= c - j
  BY <1>1, <1>2, <1>3, <1>4, <1>5
<1> QED BY <1>2, <1>3, <1>4, <1>6

\* It is, too, when few packets were lost, none was repeated and the first point
\* is not far from where its revolution begins.
LEMMA StrictIsOneTurn ==
  ASSUME NEW f \in Seq(Point), NEW c \in Nat, c + 1 \in 1 .. Len(f),
         StopsFirst(f, TRUE, c + 1), CutsTurn(f, TRUE, c + 1),
         NEW q, \A i \in 1 .. Len(f) : q[i] = Pos(f[i]), Track(q, 1, Len(f)),
         Strict(q, 1, Len(f)),
         NEW l0 \in Nat, NEW l1 \in Nat, 5 * (l0 + l1) < 2 * N,
         2 * f[1].at <= 3 * l0 + 1,
         q[Len(f)] - q[1] <= Len(f) - 1 + l1
  PROVE  \A i \in 1 .. c : f[i].turn = f[1].turn
<1>1. SUFFICES ASSUME NEW j \in 2 .. c, NEW b \in Int,
                      q[j - 1] < b, b <= q[j], b + N - 1 <= q[c],
                      b = q[1] - f[1].at + N,
                      q[j] <= q[j - 1] + 1 => N <= j - 1 /\ q[j] = b
               PROVE  FALSE
  BY TwoTurns
<1>2. c \in 1 .. Len(f) /\ 5 * c <= 7 * N /\ Len(f) \in Int /\ N \in Nat /\ N >= 2
  <2>1. c \in 1 .. Len(f) /\ 5 * c <= 7 * N
    BY TwoTurns
  <2> QED BY <2>1, NAssumption, LenProperties
<1>3. /\ j \in 1 .. Len(f) /\ c \in j .. Len(f) /\ j - 1 \in 1 .. Len(f)
      /\ Len(f) \in j .. Len(f) /\ Len(f) \in c .. Len(f) /\ 1 \in 1 .. Len(f)
      /\ Len(f) \in 1 .. Len(f) /\ j \in 1 .. Len(f) /\ j - 1 \in 1 .. Len(f) /\ 1 \in Int
  BY <1>2
<1> DEFINE n == Len(f)
           a == f[1].at
<1>4. q[1] \in Int /\ q[j - 1] \in Int /\ q[j] \in Int /\ q[c] \in Int /\ q[n] \in Int
  BY <1>2, <1>3 DEF Track
<1>5. q[1] + ((j - 1) - 1) <= q[j - 1]
  BY <1>2, <1>3, StrictGrows
<1>6. q[1] + (j - 1) <= q[j]
  BY <1>2, <1>3, StrictGrows
<1>7. q[j] + (n - j) <= q[n]
  BY <1>2, <1>3, StrictGrows
<1>8. q[c] + (n - c) <= q[n]
  BY <1>2, <1>3, StrictGrows
<1>9. n \in Int /\ c \in Int /\ j \in Int /\ q[n] - q[1] <= n - 1 + l1
  BY <1>2, <1>3
<1>10. a \in Int
  BY <1>3, ElementOfSeq, PosOfPoint
<1>11. PICK first \in Int, m \in Int, x \in Int, y \in Int, z \in Int, k \in Int, d \in Int :
         /\ first = q[1] /\ m = q[j - 1] /\ x = q[j] /\ y = q[c] /\ z = q[n] /\ k = n /\ d = a
  BY <1>4, <1>9, <1>10
<1> HIDE DEF n, a
<1>12. /\ first + ((j - 1) - 1) <= m /\ first + (j - 1) <= x
       /\ x + (k - j) <= z /\ y + (k - c) <= z /\ z - first <= k - 1 + l1
       /\ b <= x /\ b + N - 1 <= y /\ b = first - d + N
       /\ x <= m + 1 => N <= j - 1 /\ x = b
       /\ 2 * d <= 3 * l0 + 1 /\ 5 * c <= 7 * N /\ j \in Int /\ c \in Int /\ N \in Nat
  BY <1>1, <1>2, <1>5, <1>6, <1>7, <1>8, <1>9, <1>11 DEF n, a
<1>13. CASE x <= m + 1
  <2>1. N - 1 <= c - j + l1 /\ N <= j - 1
    BY <1>12, <1>13
  <2> QED BY <1>12, <2>1
<1>14. CASE m + 2 <= x
  <2>1. l1 >= 1
    BY <1>12, <1>14
  <2>2. 2 * N - 1 - d <= c - 1 + l1
    BY <1>12
  <2> QED BY <1>12, <2>1, <2>2
<1> QED BY <1>13, <1>14

\* When two revolutions and a point are dropped, at least one packet was lost.
\* What is left begins no further from where its revolution begins than the lost
\* packets, and half of them, explain.
LEMMA DroppedPart ==
  ASSUME NEW f \in Seq(Point), NEW c \in 1 .. Len(f),
         StopsFirst(f, TRUE, c), DropsAll(f, TRUE, c), ~DropsTurn(f, TRUE, c),
         NEW q, \A i \in 1 .. Len(f) : q[i] = Pos(f[i]),
         Track(q, 1, Len(f) + 1), Strict(q, 1, Len(f) + 1),
         NEW l0 \in Nat, NEW l1 \in Nat, 5 * (l0 + l1) < 2 * N,
         2 * f[1].at <= 3 * l0 + 1,
         q[Len(f) + 1] - q[1] <= Len(f) + l1
  PROVE  \E l \in 0 .. l1, t \in Int :
           /\ q[c + 1] = q[1] + c + l
           /\ 0 <= q[c + 1] - t * N
           /\ 2 * (q[c + 1] - t * N) <= 3 * (l0 + l) + 1
<1>0. Len(f) \in Nat /\ N \in Nat /\ N >= 2 /\ c \in Nat /\ c >= 1 /\ c <= Len(f)
  BY NAssumption
<1>1. c = 2 * N + 1
  <2>1. c > 2 * N
    BY DEF DropsAll, NoTurnInSight
  <2>2. ~(c - 1 > 2 * N)
    <3>1. c - 1 \in 1 .. c - 1
      BY <1>0, <2>1
    <3>2. ~DropsAll(f, TRUE, c - 1)
      BY <3>1 DEF StopsFirst, Stops
    <3> QED BY <3>2 DEF DropsAll, NoTurnInSight
  <2> QED BY <1>0, <2>1, <2>2
<1> DEFINE n == Len(f) + 1
           a == f[1].at
           t == f[1].turn
           base == t * N
<1>2. /\ 1 \in 1 .. n /\ c \in 1 .. n /\ c + 1 \in 1 .. n /\ n \in 1 .. n
      /\ c \in 1 .. n /\ n \in c + 1 .. n /\ n \in Int /\ 1 \in Int /\ c + 1 \in 1 .. n
  BY <1>0
<1>3. /\ t \in Int /\ a \in Int /\ 0 <= a /\ a <= N - 1 /\ base \in Int
      /\ q[1] = base + a /\ 2 * a <= 3 * l0 + 1
  <2>1. 1 \in 1 .. Len(f) /\ f[1] \in Point
    BY <1>0, ElementOfSeq
  <2>2. /\ t \in Int /\ a \in Int /\ 0 <= a /\ a <= N - 1 /\ base \in Int
        /\ Pos(f[1]) = base + a
    BY <2>1, PosOfPoint
  <2>3. q[1] = Pos(f[1])
    BY <2>1
  <2> QED BY <2>2, <2>3
<1>4. Track(q, 1, n) /\ Strict(q, 1, n) /\ q[n] - q[1] <= n - 1 + l1
  <2>1. q[n] - q[1] <= Len(f) + l1 /\ Len(f) = n - 1
    BY <1>0
  <2> QED BY <2>1
<1>5. (t + 1) * N = base + N /\ (t + 2) * N = base + 2 * N
  BY <1>0, <1>3
<1>6. \A i \in 1 .. n : q[i] \in Int
  BY <1>4 DEF Track
<1>7. ASSUME NEW j \in 2 .. c, NEW u \in Int, q[j - 1] < u * N, u * N <= q[j],
             q[j] <= q[j - 1] + 1
      PROVE  5 * (j - 1) <= 7 * N /\ N <= j - 1 /\ q[j] = u * N
  <2>1. j \in 2 .. Len(f) /\ j \in 1 .. Len(f) /\ j - 1 \in 1 .. Len(f)
    BY <1>0
  <2>2. q[j] = Pos(f[j]) /\ q[j - 1] = Pos(f[j - 1])
    BY <2>1
  <2>3. Wrap(f, j) /\ Pos(f[j]) = u * N
    BY <1>7, <2>1, <2>2, SeenBoundary
  <2>4. j # c
    <3>1. TooManyForATurn(c - 1, TRUE)
      BY <1>0, <1>1 DEF TooManyForATurn
    <3> QED BY <2>3, <3>1 DEF DropsTurn
  <2>5. ~Stops(f, TRUE, j)
    <3>1. j \in 1 .. c - 1
      BY <1>0, <2>4
    <3> QED BY <3>1 DEF StopsFirst
  <2> QED BY <2>1, <2>2, <2>3, <2>5, PassedWrap
<1> HIDE DEF n, a, base, t
<1>8. q[1] + c <= q[c + 1] /\ q[1] + (c - 1) <= q[c] /\ q[c + 1] + (n - (c + 1)) <= q[n]
  <2>1. q[1] + ((c + 1) - 1) <= q[c + 1]
    BY <1>2, <1>4, StrictGrows
  <2>2. q[1] + (c - 1) <= q[c]
    BY <1>2, <1>4, StrictGrows
  <2>3. q[c + 1] + (n - (c + 1)) <= q[n]
    BY <1>2, <1>4, StrictGrows
  <2> QED BY <1>0, <2>1, <2>2, <2>3
<1>9. q[1] \in Int /\ q[c] \in Int /\ q[c + 1] \in Int /\ q[n] \in Int
  BY <1>2, <1>6
<1> DEFINE l == q[c + 1] - q[1] - c
<1>10. l \in 0 .. l1 /\ q[c + 1] = q[1] + c + l
  <2>1. PICK x \in Int, y \in Int, z \in Int : x = q[1] /\ y = q[c + 1] /\ z = q[n]
    BY <1>9
  <2>2. /\ x + c <= y /\ y + (n - (c + 1)) <= z /\ z - x <= n - 1 + l1
        /\ c \in Int /\ n \in Int /\ l = y - x - c
    BY <1>0, <1>2, <1>4, <1>8, <2>1
  <2> HIDE DEF l
  <2>3. l \in Int /\ 0 <= l /\ l <= l1 /\ y = x + c + l
    BY <2>2
  <2> QED BY <2>1, <2>3
<1>11. q[c + 1] - (t + 2) * N = a + 1 + l /\ l \in Int
  <2>1. PICK x \in Int, y \in Int, tn \in Int : x = q[1] /\ y = q[c + 1] /\ tn = (t + 2) * N
    BY <1>0, <1>3, <1>5, <1>9
  <2>2. /\ y = x + c + l /\ x = base + a /\ tn = base + 2 * N /\ c = 2 * N + 1
        /\ base \in Int /\ a \in Int /\ N \in Int /\ l \in Int
    BY <1>0, <1>1, <1>3, <1>5, <1>10, <2>1
  <2> HIDE DEF l
  <2>3. y - tn = a + 1 + l
    BY <2>2
  <2> QED BY <2>1, <2>2, <2>3
<1> HIDE DEF l
<1>12. l <= 1 => l = 1 /\ a = 0
  <2>1. SUFFICES ASSUME l <= 1 PROVE l = 1 /\ a = 0
    OBVIOUS
  <2>2. /\ q[1] < (t + 1) * N /\ (t + 1) * N <= q[c] /\ (t + 1) * N \in Int
        /\ q[1] < (t + 2) * N /\ (t + 2) * N <= q[c] /\ (t + 2) * N \in Int
    BY <1>0, <1>1, <1>3, <1>5, <1>8, <1>9
  <2>3. PICK i \in 2 .. c : q[i - 1] < (t + 1) * N /\ (t + 1) * N <= q[i]
    BY <1>2, <1>6, <2>2, Crossing
  <2>4. PICK j \in 2 .. c : q[j - 1] < (t + 2) * N /\ (t + 2) * N <= q[j]
    BY <1>2, <1>6, <2>2, Crossing
  <2>5. /\ i \in 1 .. n /\ i - 1 \in 1 .. n /\ j \in 1 .. n /\ j - 1 \in 1 .. n
        /\ i \in Int /\ j \in Int /\ 2 <= i /\ i <= c /\ 2 <= j /\ j <= c
        /\ c + 1 \in i .. n /\ c + 1 \in j .. n /\ i - 1 \in 1 .. n /\ j - 1 \in 1 .. n
    BY <1>0, <1>2
  <2>6. q[1] + ((i - 1) - 1) <= q[i - 1] /\ q[1] + (i - 1) <= q[i]
    BY <1>2, <1>4, <2>5, StrictGrows
  <2>7. q[i] + ((c + 1) - i) <= q[c + 1] /\ q[j] + ((c + 1) - j) <= q[c + 1]
    BY <1>2, <1>4, <2>5, StrictGrows
  <2>8. q[1] + ((j - 1) - 1) <= q[j - 1] /\ q[1] + (j - 1) <= q[j]
    BY <1>2, <1>4, <2>5, StrictGrows
  <2>9. i < j => q[i] + ((j - 1) - i) <= q[j - 1]
    <3>1. i < j => j - 1 \in i .. n
      BY <2>5
    <3> QED BY <1>2, <1>4, <2>5, <3>1, StrictGrows
  <2>10. j < i => q[j] <= q[i - 1]
    <3>1. j < i => i - 1 \in j .. n
      BY <2>5
    <3> QED BY <1>2, <1>4, <2>5, <3>1, TrackGrows
  <2>11. q[i] \in Int /\ q[i - 1] \in Int /\ q[j] \in Int /\ q[j - 1] \in Int
    BY <1>6, <2>5
  <2>12. q[i] <= q[i - 1] + 1 => 5 * (i - 1) <= 7 * N /\ N <= i - 1 /\ q[i] = (t + 1) * N
    BY <1>3, <1>7, <2>3
  <2>13. q[j] <= q[j - 1] + 1 => 5 * (j - 1) <= 7 * N /\ N <= j - 1 /\ q[j] = (t + 2) * N
    BY <1>3, <1>7, <2>4
  <2>14. PICK v1 \in Int, vim \in Int, vi \in Int, vjm \in Int, vj \in Int, v \in Int :
           /\ v1 = q[1] /\ vim = q[i - 1] /\ vi = q[i] /\ vjm = q[j - 1] /\ vj = q[j]
           /\ v = q[c + 1]
    BY <1>9, <2>11
  <2>15. /\ vim < base + N /\ base + N <= vi /\ vjm < base + 2 * N /\ base + 2 * N <= vj
         /\ v1 = base + a /\ v = v1 + c + l
         /\ v1 + ((i - 1) - 1) <= vim /\ v1 + (i - 1) <= vi
         /\ vi + ((c + 1) - i) <= v /\ vj + ((c + 1) - j) <= v
         /\ v1 + ((j - 1) - 1) <= vjm /\ v1 + (j - 1) <= vj
         /\ i < j => vi + ((j - 1) - i) <= vjm
         /\ j < i => vj <= vim
         /\ vi <= vim + 1 => 5 * (i - 1) <= 7 * N /\ N <= i - 1 /\ vi = base + N
         /\ vj <= vjm + 1 => 5 * (j - 1) <= 7 * N /\ N <= j - 1 /\ vj = base + 2 * N
    BY <1>3, <1>5, <1>10, <2>3, <2>4, <2>6, <2>7, <2>8, <2>9, <2>10, <2>12, <2>13, <2>14
  <2>16. i \in Int /\ j \in Int /\ c \in Int /\ N \in Nat /\ N >= 2
         /\ base \in Int /\ a \in Int /\ l \in Int /\ 0 <= a /\ 0 <= l /\ l <= l1
    BY <1>0, <1>3, <1>10, <1>11, <2>5
  <2>17. vi <= vim + 1 => a = 0
    BY <2>15, <2>16
  <2>18. vj <= vjm + 1 => 3 * N <= 5 * a + 5 * l
    BY <2>15, <2>16
  <2>19. CASE l = 0
    <3>1. vi <= vim + 1 /\ vj <= vjm + 1
      BY <2>15, <2>16, <2>19
    <3> QED BY <2>16, <2>17, <2>18, <2>19, <3>1
  <2>20. CASE l = 1
    <3>1. ~(vj <= vjm + 1)
      BY <1>3, <2>16, <2>18, <2>20
    <3>2. vi <= vim + 1
      <4>1. SUFFICES ASSUME vi >= vim + 2 PROVE FALSE
        OBVIOUS
      <4>2. CASE i < j
        BY <2>15, <2>16, <2>20, <3>1, <4>1, <4>2
      <4>3. CASE j < i
        BY <2>15, <2>16, <4>3
      <4>4. CASE i = j
        <5>1. vi = vj /\ vim = vjm
          BY <2>14, <4>4
        <5> QED BY <2>15, <2>16, <2>20, <5>1
      <4> QED BY <2>16, <4>2, <4>3, <4>4
    <3> QED BY <2>17, <2>20, <3>2
  <2> QED BY <1>10, <1>11, <2>1, <2>19, <2>20
<1>13. 0 <= a + 1 + l /\ 2 * (a + 1 + l) <= 3 * (l0 + l) + 1
  <2>1. CASE l <= 1
    BY <1>12, <2>1
  <2>2. CASE l >= 2
    <3>1. PICK x \in Int, y \in Int : x = a /\ y = l
      BY <1>3, <1>11
    <3>2. 0 <= x /\ 2 * x <= 3 * l0 + 1 /\ 2 <= y
      BY <1>3, <2>2, <3>1
    <3>3. 0 <= x + 1 + y /\ 2 * (x + 1 + y) <= 3 * (l0 + y) + 1
      BY <3>2
    <3> QED BY <3>1, <3>3
  <2> QED BY <1>11, <2>1, <2>2
<1>14. t + 2 \in Int
  BY <1>3
<1> QED BY <1>10, <1>11, <1>13, <1>14

-----------------------------------------------------------------------------
(* A track that grows at its end and loses points at its front.               *)

\* After the first k places q is a track: strict if none of the b repeated packets
\* is among them, and then not longer than the a lost ones make it; tight if none
\* was lost.
Along(q, k, m, a, b) ==
  /\ Track(q, k + 1, m)
  /\ b = 0 => Strict(q, k + 1, m) /\ q[m] - q[k + 1] <= m - (k + 1) + a
  /\ a = 0 => Tight(q, k + 1, m)

\* The front of q is near to where a revolution begins: for every lost packet that
\* brought it one place and a half further, there is one less among the rest.
Near(q, m, a) ==
  \E t \in Int, e \in 0 .. a :
    /\ q[1] \in Int
    /\ 0 <= q[1] - t * N
    /\ 2 * (q[1] - t * N) <= 3 * e + 1
    /\ q[m] - q[1] <= m - 1 + a - e

\* The ends of a track are numbers.
LEMMA AlongTypes ==
  ASSUME NEW q, NEW m \in Nat, NEW k \in 0 .. m - 1, NEW a, NEW b, Along(q, k, m, a, b)
  PROVE  /\ k + 1 \in 1 .. m /\ k \in Nat /\ q[k + 1] \in Int /\ q[m] \in Int
         /\ q[k + 1] <= q[m]
<1>1. k + 1 \in 1 .. m /\ k \in Nat /\ k + 1 \in k + 1 .. m /\ m \in k + 1 .. m
  OBVIOUS
<1>2. q[k + 1] \in Int /\ q[m] \in Int /\ q[k + 1] <= q[m]
  BY <1>1, TrackGrows DEF Along
<1> QED BY <1>1, <1>2

\* The sensor measures one more point.
LEMMA AlongMeasured ==
  ASSUME NEW q, NEW m \in Nat, NEW k \in 0 .. m - 1, NEW a \in Nat, NEW b,
         Along(q, k, m, a, b),
         NEW r, \A i \in 1 .. m : r[i] = q[i], r[m + 1] = q[m] + 1
  PROVE  Along(r, k, m + 1, a, b) /\ (Near(q, m, a) => Near(r, m + 1, a))
<1>1. k + 1 \in 1 .. m /\ k \in Nat /\ q[k + 1] \in Int /\ q[m] \in Int
  BY AlongTypes
<1>2. \A i \in k + 1 .. m : i \in 1 .. m
  BY <1>1
<1>3. Track(r, k + 1, m + 1)
  <2>1. \A i \in k + 1 .. m : q[i] \in Int /\ r[i] = q[i]
    BY <1>2 DEF Along, Track
  <2>2. ASSUME NEW i \in k + 1 .. m + 1 PROVE r[i] \in Int
    BY <1>1, <2>1
  <2>3. ASSUME NEW i \in k + 1 .. (m + 1) - 1 PROVE r[i] <= r[i + 1]
    <3>1. CASE i = m
      BY <1>1, <2>1, <3>1
    <3>2. CASE i # m
      <4>1. i \in k + 1 .. m - 1 /\ i \in k + 1 .. m /\ i + 1 \in k + 1 .. m
        BY <1>1, <3>2
      <4>2. q[i] <= q[i + 1]
        BY <4>1 DEF Along, Track
      <4> QED BY <2>1, <4>1, <4>2
    <3> QED BY <3>1, <3>2
  <2> QED BY <2>2, <2>3 DEF Track
<1>4. ASSUME b = 0
      PROVE  Strict(r, k + 1, m + 1) /\ r[m + 1] - r[k + 1] <= (m + 1) - (k + 1) + a
  <2>1. ASSUME NEW i \in k + 1 .. (m + 1) - 1 PROVE r[i] + 1 <= r[i + 1]
    <3>1. CASE i = m
      BY <1>1, <1>2, <3>1
    <3>2. CASE i # m
      <4>1. i \in k + 1 .. m - 1 /\ i \in 1 .. m /\ i + 1 \in 1 .. m
        BY <1>1, <3>2
      <4>2. q[i] + 1 <= q[i + 1]
        BY <1>4, <4>1 DEF Along, Strict
      <4> QED BY <4>1, <4>2
    <3> QED BY <3>1, <3>2
  <2>2. q[m] - q[k + 1] <= m - (k + 1) + a /\ r[m + 1] = q[m] + 1 /\ r[k + 1] = q[k + 1]
    BY <1>1, <1>4 DEF Along
  <2>3. PICK x \in Int, y \in Int : x = q[m] /\ y = q[k + 1]
    BY <1>1
  <2>4. (x + 1) - y <= (m + 1) - (k + 1) + a
    BY <1>1, <2>2, <2>3
  <2> QED BY <2>1, <2>2, <2>3, <2>4 DEF Strict
<1>5. ASSUME a = 0 PROVE Tight(r, k + 1, m + 1)
  <2>1. ASSUME NEW i \in k + 1 .. (m + 1) - 1 PROVE r[i + 1] <= r[i] + 1
    <3>1. CASE i = m
      BY <1>1, <1>2, <3>1
    <3>2. CASE i # m
      <4>1. i \in k + 1 .. m - 1 /\ i \in 1 .. m /\ i + 1 \in 1 .. m
        BY <1>1, <3>2
      <4>2. q[i + 1] <= q[i] + 1
        BY <1>5, <4>1 DEF Along, Tight
      <4> QED BY <4>1, <4>2
    <3> QED BY <3>1, <3>2
  <2> QED BY <2>1 DEF Tight
<1>6. ASSUME Near(q, m, a) PROVE Near(r, m + 1, a)
  <2>1. PICK t \in Int, e \in 0 .. a :
          /\ q[1] \in Int
          /\ 0 <= q[1] - t * N
          /\ 2 * (q[1] - t * N) <= 3 * e + 1
          /\ q[m] - q[1] <= m - 1 + a - e
    BY <1>6 DEF Near
  <2>2. r[1] = q[1] /\ r[m + 1] = q[m] + 1
    BY <1>1
  <2>3. (q[m] + 1) - q[1] <= (m + 1) - 1 + a - e
    <3>1. PICK x \in Int, y \in Int : x = q[m] /\ y = q[1]
      BY <1>1, <2>1
    <3>2. x - y <= m - 1 + a - e
      BY <2>1, <3>1
    <3>3. (x + 1) - y <= (m + 1) - 1 + a - e
      BY <3>2
    <3> QED BY <3>1, <3>3
  <2> QED BY <2>1, <2>2, <2>3 DEF Near
<1> QED BY <1>3, <1>4, <1>5, <1>6 DEF Along

\* The sensor stands and measures the same point again.
LEMMA AlongRepeated ==
  ASSUME NEW q, NEW m \in Nat, NEW k \in 0 .. m - 1, NEW a, NEW b,
         Along(q, k, m, a, b),
         NEW r, \A i \in 1 .. m : r[i] = q[i], r[m + 1] = q[m], NEW d, d # 0
  PROVE  Along(r, k, m + 1, a, d)
<1>1. k + 1 \in 1 .. m /\ k \in Nat /\ q[k + 1] \in Int /\ q[m] \in Int
  BY AlongTypes
<1>2. \A i \in k + 1 .. m : q[i] \in Int /\ r[i] = q[i]
  BY <1>1 DEF Along, Track
<1>3. Track(r, k + 1, m + 1)
  <2>1. ASSUME NEW i \in k + 1 .. m + 1 PROVE r[i] \in Int
    BY <1>1, <1>2
  <2>2. ASSUME NEW i \in k + 1 .. (m + 1) - 1 PROVE r[i] <= r[i + 1]
    <3>1. CASE i = m
      BY <1>1, <1>2, <3>1
    <3>2. CASE i # m
      <4>1. i \in k + 1 .. m - 1 /\ i \in k + 1 .. m /\ i + 1 \in k + 1 .. m
        BY <1>1, <3>2
      <4>2. q[i] <= q[i + 1]
        BY <4>1 DEF Along, Track
      <4> QED BY <1>2, <4>1, <4>2
    <3> QED BY <3>1, <3>2
  <2> QED BY <2>1, <2>2 DEF Track
<1>4. ASSUME a = 0 PROVE Tight(r, k + 1, m + 1)
  <2>1. ASSUME NEW i \in k + 1 .. (m + 1) - 1 PROVE r[i + 1] <= r[i] + 1
    <3>1. CASE i = m
      BY <1>1, <1>2, <3>1
    <3>2. CASE i # m
      <4>1. i \in k + 1 .. m - 1 /\ i \in 1 .. m /\ i + 1 \in 1 .. m
        BY <1>1, <3>2
      <4>2. q[i + 1] <= q[i] + 1
        BY <1>4, <4>1 DEF Along, Tight
      <4> QED BY <4>1, <4>2
    <3> QED BY <3>1, <3>2
  <2> QED BY <2>1 DEF Tight
<1> QED BY <1>3, <1>4 DEF Along

\* A packet is lost: the sensor is one place further.
LEMMA AlongLost ==
  ASSUME NEW q, NEW m \in Nat, NEW k \in 0 .. m - 1, NEW a \in Nat, NEW b,
         Along(q, k, m, a, b),
         NEW r, \A i \in 1 .. m - 1 : r[i] = q[i], r[m] = q[m] + 1
  PROVE  Along(r, k, m, a + 1, b) /\ (Near(q, m, a) => Near(r, m, a + 1))
<1>1. k + 1 \in 1 .. m /\ k \in Nat /\ q[k + 1] \in Int /\ q[m] \in Int /\ q[k + 1] <= q[m]
  BY AlongTypes
<1>2. ASSUME NEW i \in k + 1 .. m
      PROVE  q[i] \in Int /\ (i < m => r[i] = q[i]) /\ (i = m => r[i] = q[i] + 1)
  <2>1. i < m => i \in 1 .. m - 1
    BY <1>1
  <2> QED BY <2>1 DEF Along, Track
<1>3. Track(r, k + 1, m)
  <2>1. ASSUME NEW i \in k + 1 .. m PROVE r[i] \in Int
    BY <1>1, <1>2
  <2>2. ASSUME NEW i \in k + 1 .. m - 1 PROVE r[i] <= r[i + 1]
    <3>1. i \in k + 1 .. m /\ i + 1 \in k + 1 .. m /\ i < m
      BY <1>1
    <3>2. q[i] <= q[i + 1]
      BY DEF Along, Track
    <3>3. r[i] = q[i] /\ (r[i + 1] = q[i + 1] \/ r[i + 1] = q[i + 1] + 1)
      BY <1>2, <3>1
    <3>4. q[i] \in Int /\ q[i + 1] \in Int
      BY <1>2, <3>1
    <3> QED BY <3>2, <3>3, <3>4
  <2> QED BY <2>1, <2>2 DEF Track
<1>4. ASSUME b = 0
      PROVE  Strict(r, k + 1, m) /\ r[m] - r[k + 1] <= m - (k + 1) + (a + 1)
  <2>1. ASSUME NEW i \in k + 1 .. m - 1 PROVE r[i] + 1 <= r[i + 1]
    <3>1. i \in k + 1 .. m /\ i + 1 \in k + 1 .. m /\ i < m
      BY <1>1
    <3>2. q[i] + 1 <= q[i + 1]
      BY <1>4 DEF Along, Strict
    <3>3. r[i] = q[i] /\ (r[i + 1] = q[i + 1] \/ r[i + 1] = q[i + 1] + 1)
      BY <1>2, <3>1
    <3>4. q[i] \in Int /\ q[i + 1] \in Int
      BY <1>2, <3>1
    <3> QED BY <3>2, <3>3, <3>4
  <2>2. q[m] - q[k + 1] <= m - (k + 1) + a
    BY <1>4 DEF Along
  <2>3. PICK x \in Int, y \in Int : x = q[m] /\ y = q[k + 1]
    BY <1>1
  <2>4. r[m] = x + 1 /\ (r[k + 1] = y \/ r[k + 1] = y + 1)
    <3>1. k + 1 \in k + 1 .. m /\ (k + 1 < m \/ k + 1 = m)
      BY <1>1
    <3> QED BY <1>2, <2>3, <3>1
  <2>5. x - y <= m - (k + 1) + a
    BY <2>2, <2>3
  <2>6. (x + 1) - y <= m - (k + 1) + (a + 1) /\ (x + 1) - (y + 1) <= m - (k + 1) + (a + 1)
    BY <1>1, <2>5
  <2> QED BY <2>1, <2>4, <2>6 DEF Strict
<1>5. a + 1 # 0
  OBVIOUS
<1>6. ASSUME Near(q, m, a) PROVE Near(r, m, a + 1)
  <2>1. PICK t \in Int, e \in 0 .. a :
          /\ q[1] \in Int
          /\ 0 <= q[1] - t * N
          /\ 2 * (q[1] - t * N) <= 3 * e + 1
          /\ q[m] - q[1] <= m - 1 + a - e
    BY <1>6 DEF Near
  <2>2. t * N \in Int
    BY NAssumption
  <2>3. CASE m = 1
    <3>1. r[1] = q[1] + 1 /\ r[m] = r[1] /\ q[1] \in Int
      BY <1>1, <2>3
    <3>2. /\ 0 <= r[1] - t * N
          /\ 2 * (r[1] - t * N) <= 3 * (e + 1) + 1
          /\ r[m] - r[1] <= m - 1 + (a + 1) - (e + 1)
          /\ e + 1 \in 0 .. a + 1
      <4> DEFINE z == t * N
      <4>1. z \in Int /\ 0 <= q[1] - z /\ 2 * (q[1] - z) <= 3 * e + 1
        BY <2>1, <2>2
      <4> HIDE DEF z
      <4>2. PICK x \in Int : x = q[1]
        BY <3>1
      <4>3. 0 <= (x + 1) - z /\ 2 * ((x + 1) - z) <= 3 * (e + 1) + 1
        BY <4>1, <4>2
      <4>4. r[1] = x + 1 /\ r[m] - r[1] = 0
        BY <3>1, <4>2
      <4>5. 0 <= m - 1 + (a + 1) - (e + 1) /\ e + 1 \in 0 .. a + 1
        BY <2>3
      <4> QED BY <4>3, <4>4, <4>5 DEF z
    <3>3. r[1] \in Int
      BY <3>1
    <3> QED BY <3>2, <3>3 DEF Near
  <2>4. CASE m # 1
    <3>1. r[1] = q[1] /\ r[m] = q[m] + 1
      <4>1. 1 \in 1 .. m - 1
        BY <1>1, <2>4
      <4> QED BY <4>1
    <3>2. (q[m] + 1) - q[1] <= m - 1 + (a + 1) - e /\ e \in 0 .. a + 1
      <4>1. PICK x \in Int, y \in Int : x = q[m] /\ y = q[1]
        BY <1>1, <2>1
      <4>2. x - y <= m - 1 + a - e
        BY <2>1, <4>1
      <4>3. (x + 1) - y <= m - 1 + (a + 1) - e /\ e \in 0 .. a + 1
        BY <4>2
      <4> QED BY <4>1, <4>3
    <3> QED BY <2>1, <3>1, <3>2 DEF Near
  <2> QED BY <2>3, <2>4
<1> QED BY <1>3, <1>4, <1>5, <1>6 DEF Along

\* What is left of a track when places before it are taken away.
LEMMA AlongShifted ==
  ASSUME NEW q, NEW m \in Nat, NEW k \in 0 .. m - 1, NEW a \in Nat, NEW b,
         Along(q, k, m, a, b),
         NEW d \in Nat, NEW h \in Nat, h + 1 <= m - d, k <= h + d,
         NEW r, \A i \in h + 1 .. m - d : r[i] = q[i + d]
  PROVE  Along(r, h, m - d, a, b)
<1>1. k + 1 \in 1 .. m /\ k \in Nat /\ q[k + 1] \in Int /\ q[m] \in Int
  BY AlongTypes
<1>2. ASSUME NEW i \in h + 1 .. m - d
      PROVE  i + d \in k + 1 .. m /\ r[i] = q[i + d] /\ r[i] \in Int
  <2>1. i + d \in k + 1 .. m
    BY <1>1
  <2> QED BY <2>1 DEF Along, Track
<1>3. ASSUME NEW i \in h + 1 .. (m - d) - 1
      PROVE  i + d \in k + 1 .. m - 1 /\ r[i] = q[i + d] /\ r[i + 1] = q[(i + d) + 1]
  <2>1. /\ i + d \in k + 1 .. m - 1 /\ i \in h + 1 .. m - d /\ i + 1 \in h + 1 .. m - d
        /\ (i + 1) + d = (i + d) + 1
    BY <1>1
  <2> QED BY <1>2, <2>1
<1>4. Track(r, h + 1, m - d)
  BY <1>2, <1>3 DEF Along, Track
<1>5. ASSUME b = 0
      PROVE  Strict(r, h + 1, m - d) /\ r[m - d] - r[h + 1] <= (m - d) - (h + 1) + a
  <2>1. Strict(r, h + 1, m - d)
    BY <1>3, <1>5 DEF Along, Strict
  <2>2. /\ k + 1 \in k + 1 .. m /\ (h + 1) + d \in k + 1 .. m /\ m \in Int /\ k + 1 \in Int
        /\ h + 1 \in h + 1 .. m - d /\ m - d \in h + 1 .. m - d /\ (m - d) + d = m
        /\ (h + 1) + d \in k + 1 .. m
    BY <1>1
  <2>3. q[k + 1] + (((h + 1) + d) - (k + 1)) <= q[(h + 1) + d]
    BY <1>5, <2>2, StrictGrows DEF Along
  <2>4. q[m] - q[k + 1] <= m - (k + 1) + a
    BY <1>5 DEF Along
  <2>5. r[m - d] = q[m] /\ r[h + 1] = q[(h + 1) + d] /\ q[(h + 1) + d] \in Int
    BY <1>2, <2>2
  <2>6. PICK x \in Int, y \in Int, z \in Int : x = q[k + 1] /\ y = q[(h + 1) + d] /\ z = q[m]
    BY <1>1, <2>5
  <2>7. x + (((h + 1) + d) - (k + 1)) <= y /\ z - x <= m - (k + 1) + a
    BY <2>3, <2>4, <2>6
  <2>8. z - y <= (m - d) - (h + 1) + a
    BY <1>1, <2>7
  <2> QED BY <2>1, <2>5, <2>6, <2>8
<1>6. ASSUME a = 0 PROVE Tight(r, h + 1, m - d)
  BY <1>3, <1>6 DEF Along, Tight
<1> QED BY <1>4, <1>5, <1>6 DEF Along

\* How far a point is from where its revolution begins, if it is near to where any
\* does.
LEMMA NearPoint ==
  ASSUME NEW p \in Point, NEW t \in Int, 0 <= Pos(p) - t * N
  PROVE  p.at <= Pos(p) - t * N
<1>1. /\ p.turn \in Int /\ p.at \in Int /\ 0 <= p.at /\ p.at <= N - 1
      /\ Pos(p) = p.turn * N + p.at /\ N \in Nat /\ p.turn * N \in Int /\ t * N \in Int
  BY PosOfPoint, NAssumption
<1>2. p.turn < t => p.turn * N + N <= t * N
  BY <1>1, Multiples
<1>3. t < p.turn => t * N + N <= p.turn * N
  BY <1>1, Multiples
<1>4. t = p.turn => t * N = p.turn * N
  OBVIOUS
<1> DEFINE x == p.turn * N
           y == t * N
<1>5. /\ x \in Int /\ y \in Int /\ Pos(p) = x + p.at
      /\ p.turn < t => x + N <= y
      /\ t < p.turn => y + N <= x
      /\ t = p.turn => y = x
      /\ 0 <= Pos(p) - y
  BY <1>1, <1>2, <1>3, <1>4
<1> HIDE DEF x, y
<1>6. p.at <= Pos(p) - y
  BY <1>1, <1>5
<1> QED BY <1>6 DEF y

\* What begins with the first point of a revolution.
LEMMA NearAtCut ==
  ASSUME NEW r, NEW m \in Nat, m >= 1, NEW a \in Nat, Along(r, 0, m, a, 0),
         NEW p \in Point, p.at = 0, r[1] = Pos(p)
  PROVE  Near(r, m, a)
<1>1. r[1] \in Int /\ r[m] - r[1] <= m - 1 + a
  <2>1. r[m] - r[0 + 1] <= m - (0 + 1) + a
    BY DEF Along
  <2>2. r[1] \in Int
    BY PosOfPoint
  <2> QED BY <2>1, <2>2
<1>2. r[1] - p.turn * N = 0 /\ p.turn \in Int
  BY PosOfPoint
<1>3. 0 \in 0 .. a /\ 2 * 0 <= 3 * 0 + 1 /\ a = a - 0
  OBVIOUS
<1>4. r[m] - r[1] <= m - 1 + a - 0
  BY <1>1, <1>3
<1>5. 2 * (r[1] - p.turn * N) <= 3 * 0 + 1 /\ 0 <= r[1] - p.turn * N
  BY <1>2, <1>3
<1> QED BY <1>1, <1>2, <1>3, <1>4, <1>5 DEF Near

\* What is left when two revolutions and a point were dropped.
LEMMA NearAtDrop ==
  ASSUME NEW f \in Seq(Point), NEW c \in 1 .. Len(f),
         StopsFirst(f, TRUE, c), DropsAll(f, TRUE, c), ~DropsTurn(f, TRUE, c),
         NEW q, \A i \in 1 .. Len(f) : q[i] = Pos(f[i]),
         NEW a \in Nat, 5 * a < 2 * N, Along(q, 0, Len(f) + 1, a, 0),
         Near(q, Len(f) + 1, a),
         NEW r, \A i \in 1 .. Len(f) + 1 - c : r[i] = q[i + c]
  PROVE  Near(r, Len(f) + 1 - c, a)
<1>0. /\ Len(f) \in Nat /\ c \in Nat /\ c >= 1 /\ c <= Len(f) /\ 1 \in 1 .. Len(f)
      /\ N \in Nat /\ f[1] \in Point
  BY NAssumption, ElementOfSeq
<1>1. PICK t \in Int, e \in 0 .. a :
        /\ q[1] \in Int
        /\ 0 <= q[1] - t * N
        /\ 2 * (q[1] - t * N) <= 3 * e + 1
        /\ q[Len(f) + 1] - q[1] <= (Len(f) + 1) - 1 + a - e
  BY DEF Near
<1>2. 2 * f[1].at <= 3 * e + 1
  <2>1. q[1] = Pos(f[1])
    BY <1>0
  <2>2. f[1].at <= q[1] - t * N
    BY <1>0, <1>1, <2>1, NearPoint
  <2>3. f[1].at \in Int /\ t * N \in Int
    BY <1>0, <1>1, PosOfPoint
  <2> DEFINE y == t * N
  <2>4. y \in Int /\ f[1].at <= q[1] - y /\ 2 * (q[1] - y) <= 3 * e + 1
    BY <1>1, <2>2, <2>3
  <2> HIDE DEF y
  <2>5. PICK x \in Int : x = q[1]
    BY <1>1
  <2>6. PICK d \in Int, z \in Int : d = f[1].at /\ z = y
    BY <2>3, <2>4
  <2>7. d <= x - z /\ 2 * (x - z) <= 3 * e + 1
    BY <2>4, <2>5, <2>6
  <2>8. 2 * d <= 3 * e + 1
    BY <2>7
  <2> QED BY <2>6, <2>8
<1> DEFINE l1 == a - e
<1>3. /\ e \in Nat /\ l1 \in Nat /\ e + l1 = a
      /\ Track(q, 1, Len(f) + 1) /\ Strict(q, 1, Len(f) + 1)
      /\ q[Len(f) + 1] - q[1] <= Len(f) + l1
  <2>1. e \in Nat /\ l1 \in Nat /\ e + l1 = a /\ 0 + 1 = 1
    OBVIOUS
  <2>2. Track(q, 1, Len(f) + 1) /\ Strict(q, 1, Len(f) + 1)
    BY <2>1 DEF Along
  <2>3. (Len(f) + 1) - 1 + a - e = Len(f) + l1
    BY <1>0
  <2> QED BY <1>1, <2>1, <2>2, <2>3
<1>4. 5 * (e + l1) < 2 * N
  BY <1>3
<1> HIDE DEF l1
<1>5. PICK l \in 0 .. l1, u \in Int :
        /\ q[c + 1] = q[1] + c + l
        /\ 0 <= q[c + 1] - u * N
        /\ 2 * (q[c + 1] - u * N) <= 3 * (e + l) + 1
  BY <1>2, <1>3, <1>4, DroppedPart
<1>6. /\ 1 \in 1 .. Len(f) + 1 - c /\ Len(f) + 1 - c \in 1 .. Len(f) + 1 - c
      /\ 1 + c = c + 1 /\ (Len(f) + 1 - c) + c = Len(f) + 1
  BY <1>0
<1>7. r[1] = q[c + 1] /\ r[Len(f) + 1 - c] = q[Len(f) + 1]
  BY <1>6
<1>8. q[c + 1] \in Int /\ q[Len(f) + 1] \in Int
  <2>1. c + 1 \in 1 .. Len(f) + 1 /\ Len(f) + 1 \in 1 .. Len(f) + 1
    BY <1>0
  <2> QED BY <1>3, <2>1 DEF Track
<1>9. q[Len(f) + 1] - q[c + 1] <= (Len(f) + 1 - c) - 1 + a - (e + l) /\ e + l \in 0 .. a
  <2>1. PICK x \in Int, y \in Int, z \in Int : x = q[1] /\ y = q[c + 1] /\ z = q[Len(f) + 1]
    BY <1>1, <1>8
  <2>2. y = x + c + l /\ z - x <= Len(f) + l1
    BY <1>3, <1>5, <2>1
  <2>3. z - y <= (Len(f) + 1 - c) - 1 + a - (e + l) /\ e + l \in 0 .. a
    BY <1>0, <1>3, <2>2
  <2> QED BY <2>1, <2>3
<1> QED BY <1>5, <1>7, <1>8, <1>9 DEF Near

\* A revolution that begins near to where one does is cut alone.
LEMMA NearIsOneTurn ==
  ASSUME NEW f \in Seq(Point), NEW c \in Nat, c + 1 \in 1 .. Len(f),
         StopsFirst(f, TRUE, c + 1), CutsTurn(f, TRUE, c + 1),
         NEW q, \A i \in 1 .. Len(f) : q[i] = Pos(f[i]),
         NEW a \in Nat, NEW b, Along(q, 0, Len(f) + 1, a, b),
         a = 0 \/ (b = 0 /\ 5 * a < 2 * N /\ Near(q, Len(f) + 1, a))
  PROVE  \A i \in 1 .. c : f[i].turn = f[1].turn
<1>0. /\ Len(f) \in Nat /\ 1 \in 1 .. Len(f) /\ N \in Nat /\ f[1] \in Point /\ 0 + 1 = 1
      /\ Len(f) \in 1 .. Len(f)
  BY NAssumption, ElementOfSeq
<1>1. Track(q, 1, Len(f)) /\ Track(q, 1, Len(f) + 1)
  BY <1>0 DEF Along, Track
<1>2. CASE a = 0
  <2>1. Tight(q, 1, Len(f))
    BY <1>0, <1>2 DEF Along, Tight
  <2> QED BY <1>1, <2>1, TightIsOneTurn
<1>3. CASE b = 0 /\ 5 * a < 2 * N /\ Near(q, Len(f) + 1, a)
  <2>1. PICK t \in Int, e \in 0 .. a :
          /\ q[1] \in Int
          /\ 0 <= q[1] - t * N
          /\ 2 * (q[1] - t * N) <= 3 * e + 1
          /\ q[Len(f) + 1] - q[1] <= (Len(f) + 1) - 1 + a - e
    BY <1>3 DEF Near
  <2>2. 2 * f[1].at <= 3 * e + 1
    <3>1. q[1] = Pos(f[1])
      BY <1>0
    <3>2. f[1].at <= q[1] - t * N
      BY <1>0, <2>1, <3>1, NearPoint
    <3>3. f[1].at \in Int /\ t * N \in Int
      BY <1>0, <2>1, PosOfPoint
    <3> DEFINE y == t * N
    <3>4. y \in Int /\ f[1].at <= q[1] - y /\ 2 * (q[1] - y) <= 3 * e + 1
      BY <2>1, <3>2, <3>3
    <3> HIDE DEF y
    <3>5. PICK x \in Int : x = q[1]
      BY <2>1
    <3>6. f[1].at <= x - y /\ 2 * (x - y) <= 3 * e + 1
      BY <3>4, <3>5
    <3> QED BY <3>3, <3>4, <3>6
  <2>3. Strict(q, 1, Len(f)) /\ Strict(q, 1, Len(f) + 1)
    BY <1>0, <1>3 DEF Along, Strict
  <2> DEFINE l1 == a - e
  <2>4. e \in Nat /\ l1 \in Nat /\ e + l1 = a /\ 5 * (e + l1) < 2 * N
    BY <1>3
  <2>5. q[Len(f)] - q[1] <= Len(f) - 1 + l1
    <3>1. q[Len(f)] \in Int /\ q[Len(f) + 1] \in Int /\ q[Len(f)] + 1 <= q[Len(f) + 1]
      <4>1. /\ Len(f) \in 1 .. (Len(f) + 1) - 1 /\ Len(f) + 1 \in 1 .. Len(f) + 1
            /\ Len(f) \in 1 .. Len(f) + 1
        BY <1>0
      <4> QED BY <1>1, <2>3, <4>1 DEF Track, Strict
    <3>2. PICK x \in Int, y \in Int, z \in Int : x = q[1] /\ y = q[Len(f)] /\ z = q[Len(f) + 1]
      BY <2>1, <3>1
    <3>3. y + 1 <= z /\ z - x <= (Len(f) + 1) - 1 + a - e
      BY <2>1, <3>1, <3>2
    <3>4. y - x <= Len(f) - 1 + l1
      BY <1>0, <3>3
    <3> QED BY <3>2, <3>4
  <2> HIDE DEF l1
  <2> QED BY <1>1, <2>2, <2>3, <2>4, <2>5, StrictIsOneTurn
<1> QED BY <1>2, <1>3

-----------------------------------------------------------------------------
(* The track of the program: frame_tmp_, the line and the sensor.             *)

NextPos == IF next = <<>> THEN (MaxTurn + 1) * N ELSE Pos(next)

Places(f, l, x) ==
  [i \in 1 .. Len(f) + Len(l) + 1 |->
     IF i <= Len(f) THEN Pos(f[i])
     ELSE IF i <= Len(f) + Len(l) THEN Pos(l[i - Len(f)].point) ELSE x]

Place == Places(frame_tmp_, line, NextPos)
Last == Len(frame_tmp_) + Len(line) + 1

\* The first k points of frame_tmp_ are old, and the rest is a track; when
\* revolutions are published and few packets were lost, it begins near to where
\* one does.
OnTrackFrom(k) ==
  /\ OldUpTo(frame_tmp_, k)
  /\ ~last_pkg_timestamp_ => k = Len(frame_tmp_)
  /\ ~first_frame_ => k = 0
  /\ Along(Place, k, Last, lost, still)
  /\ ~first_frame_ /\ still = 0 /\ 5 * lost < 2 * N => Near(Place, Last, lost)

OnTrack == ~backlog => \E k \in 0 .. Len(frame_tmp_) : OnTrackFrom(k)

\* The places of the buffer, of the line and of what comes next.
LEMMA PlacesAre ==
  ASSUME NEW f, NEW l, NEW x, Len(f) \in Nat, Len(l) \in Nat
  PROVE  /\ \A i \in 1 .. Len(f) : Places(f, l, x)[i] = Pos(f[i])
         /\ \A i \in 1 .. Len(l) : Places(f, l, x)[Len(f) + i] = Pos(l[i].point)
         /\ Places(f, l, x)[Len(f) + Len(l) + 1] = x
<1>1. ASSUME NEW i \in 1 .. Len(f) PROVE Places(f, l, x)[i] = Pos(f[i])
  <2>1. i \in 1 .. Len(f) + Len(l) + 1 /\ i <= Len(f)
    OBVIOUS
  <2> QED BY <2>1 DEF Places
<1>2. ASSUME NEW i \in 1 .. Len(l) PROVE Places(f, l, x)[Len(f) + i] = Pos(l[i].point)
  <2>1. /\ Len(f) + i \in 1 .. Len(f) + Len(l) + 1 /\ ~(Len(f) + i <= Len(f))
        /\ Len(f) + i <= Len(f) + Len(l) /\ (Len(f) + i) - Len(f) = i
    OBVIOUS
  <2> QED BY <2>1 DEF Places
<1>3. Places(f, l, x)[Len(f) + Len(l) + 1] = x
  <2>1. /\ Len(f) + Len(l) + 1 \in 1 .. Len(f) + Len(l) + 1
        /\ ~(Len(f) + Len(l) + 1 <= Len(f)) /\ ~(Len(f) + Len(l) + 1 <= Len(f) + Len(l))
    OBVIOUS
  <2> QED BY <2>1 DEF Places
<1> QED BY <1>1, <1>2, <1>3

\* At first the track is the next point alone.
LEMMA InitOnTrack ==
  ASSUME Init
  PROVE  OnTrack
<1>1. /\ frame_tmp_ = <<>> /\ line = <<>> /\ next \in Point /\ first_frame_ = TRUE
      /\ lost = 0 /\ Len(frame_tmp_) = 0 /\ Len(line) = 0
  BY EmptySeq DEF Init
<1>2. next # <<>>
  BY <1>1, NoPoint
<1>3. Last = 1 /\ NextPos \in Int /\ Place[1] = NextPos
  <2>1. Last = 1
    BY <1>1 DEF Last
  <2>2. NextPos \in Int
    BY <1>1, <1>2, PosOfPoint DEF NextPos
  <2>3. Place[Len(frame_tmp_) + Len(line) + 1] = NextPos
    <3>1. Len(frame_tmp_) \in Nat /\ Len(line) \in Nat
      BY <1>1
    <3> QED BY <3>1, PlacesAre DEF Place
  <2> QED BY <1>1, <2>1, <2>2, <2>3
<1>4. Along(Place, 0, Last, lost, still)
  <2> DEFINE q == Place
  <2>1. q[1] \in Int
    BY <1>3
  <2> HIDE DEF q
  <2>2. Track(q, 0 + 1, 1) /\ Strict(q, 0 + 1, 1) /\ Tight(q, 0 + 1, 1)
    BY <2>1 DEF Track, Strict, Tight
  <2>3. q[1] - q[0 + 1] <= 1 - (0 + 1) + 0
    BY <2>1
  <2>4. Along(q, 0, 1, 0, still)
    BY <2>2, <2>3 DEF Along
  <2> QED BY <1>1, <1>3, <2>4 DEF q
<1>5. OldUpTo(frame_tmp_, 0)
  BY <1>1 DEF OldUpTo
<1>6. OnTrackFrom(0)
  BY <1>1, <1>4, <1>5 DEF OnTrackFrom
<1>7. 0 \in 0 .. Len(frame_tmp_)
  BY <1>1
<1> QED BY <1>6, <1>7 DEF OnTrack

\* The places of the program's track.
LEMMA LastIs ==
  ASSUME Types, NEW k \in 0 .. Len(frame_tmp_)
  PROVE  /\ Last \in Nat /\ Last >= 1 /\ k \in 0 .. Last - 1
         /\ Last = Len(frame_tmp_) + Len(line) + 1
         /\ Len(frame_tmp_) \in Nat /\ Len(line) \in Nat
         /\ Place[Last] = NextPos
         /\ \A i \in 1 .. Len(frame_tmp_) : Place[i] = Pos(frame_tmp_[i])
         /\ \A i \in 1 .. Len(line) : Place[Len(frame_tmp_) + i] = Pos(line[i].point)
         /\ lost \in Nat /\ still \in Nat
<1>1. Len(frame_tmp_) \in Nat /\ Len(line) \in Nat
  BY TypesOfPoints
<1>2. lost \in Nat /\ still \in Nat
  BY BoundAssumption DEF Types, CountTypes
<1> QED BY <1>1, <1>2, PlacesAre DEF Last, Place

\* The line grows by the point that is measured.
LEMMA MeasuredPlaces ==
  ASSUME Types, next # <<>>, NEW b \in BOOLEAN,
         line' = Append(line, [point |-> next, turning |-> b]), frame_tmp_' = frame_tmp_
  PROVE  /\ Last' = Last + 1
         /\ \A i \in 1 .. Last : Place'[i] = Place[i]
         /\ Place'[Last + 1] = NextPos'
<1>0. 0 \in 0 .. Len(frame_tmp_)
  BY TypesOfPoints
<1>1. /\ Last \in Nat /\ Last = Len(frame_tmp_) + Len(line) + 1
      /\ Len(frame_tmp_) \in Nat /\ Len(line) \in Nat
      /\ Place[Last] = NextPos
      /\ \A i \in 1 .. Len(frame_tmp_) : Place[i] = Pos(frame_tmp_[i])
      /\ \A i \in 1 .. Len(line) : Place[Len(frame_tmp_) + i] = Pos(line[i].point)
  BY <1>0, LastIs
<1>2. /\ Len(line') = Len(line) + 1
      /\ \A i \in 1 .. Len(line) : line'[i] = line[i]
      /\ line'[Len(line) + 1] = [point |-> next, turning |-> b]
  BY LineGrows
<1>3. Place' = Places(frame_tmp_, line', NextPos')
  BY DEF Place
<1> DEFINE l == line'
           x == NextPos'
           r == Places(frame_tmp_, l, x)
           n == Len(frame_tmp_)
<1>4. /\ \A i \in 1 .. n : r[i] = Pos(frame_tmp_[i])
      /\ \A i \in 1 .. Len(l) : r[n + i] = Pos(l[i].point)
      /\ r[n + Len(l) + 1] = x
  <2>1. Len(l) \in Nat /\ n \in Nat
    BY <1>1, <1>2
  <2> HIDE DEF l, x
  <2> QED BY <2>1, PlacesAre DEF n
<1>5. Last' = Last + 1 /\ n + Len(l) + 1 = Last + 1
  BY <1>1, <1>2 DEF Last
<1> HIDE DEF l, x, r
<1>6. ASSUME NEW i \in 1 .. Last PROVE r[i] = Place[i]
  <2>1. CASE i <= n
    BY <1>1, <1>4, <2>1
  <2>2. CASE n < i /\ i < Last
    <3> DEFINE j == i - n
    <3>1. j \in 1 .. Len(line) /\ j \in 1 .. Len(line') /\ n + j = i
      BY <1>1, <1>2, <2>2
    <3> HIDE DEF j
    <3>2. l[j] = line[j]
      BY <1>2, <3>1 DEF l
    <3>3. j \in 1 .. Len(l)
      BY <3>1 DEF l
    <3> QED BY <1>1, <1>4, <3>1, <3>2, <3>3
  <2>3. CASE i = Last
    <3>1. Len(line) + 1 \in 1 .. Len(l) /\ n + (Len(line) + 1) = Last
      BY <1>1, <1>2 DEF l
    <3>2. l[Len(line) + 1].point = next
      BY <1>2 DEF l
    <3>3. Place[Last] = Pos(next)
      BY <1>1 DEF NextPos
    <3> QED BY <1>4, <2>3, <3>1, <3>2, <3>3
  <2> QED BY <1>1, <2>1, <2>2, <2>3
<1>7. r[Last + 1] = x
  BY <1>4, <1>5
<1> QED BY <1>3, <1>5, <1>6, <1>7 DEF r, l, x

\* The sensor is one place further.
LEMMA NextPosGrows ==
  ASSUME Types, next # <<>>, next' = After(next)
  PROVE  NextPos' = NextPos + 1
<1>1. next \in Point
  BY TypesOfPoints
<1>2. /\ After(next) # <<>> => Pos(After(next)) = Pos(next) + 1
      /\ After(next) = <<>> => Pos(next) + 1 = (MaxTurn + 1) * N
  BY <1>1, PosOfAfter
<1>3. NextPos = Pos(next)
  BY DEF NextPos
<1>4. NextPos' = IF next' = <<>> THEN (MaxTurn + 1) * N ELSE Pos(next')
  BY DEF NextPos, Pos
<1> QED BY <1>2, <1>3, <1>4

\* Measuring a point, by a turning motor or a standing one, extends the track.
LEMMA MeasureOnTrack ==
  ASSUME Types, OnTrack, Measure \/ MeasureStanding
  PROVE  OnTrack'
<1>1. /\ next # <<>> /\ lost' = lost
      /\ UNCHANGED <<frame_tmp_, first_frame_, last_pkg_timestamp_, start, backlog>>
  BY DEF Measure, MeasureStanding, parser, history
<1>2. SUFFICES ASSUME ~backlog PROVE \E k \in 0 .. Len(frame_tmp_) : OnTrackFrom(k)'
  BY <1>1 DEF OnTrack
<1>3. PICK k \in 0 .. Len(frame_tmp_) : OnTrackFrom(k)
  BY <1>2 DEF OnTrack
<1>4. /\ OldUpTo(frame_tmp_, k)' /\ (~last_pkg_timestamp_' => k = Len(frame_tmp_)')
      /\ (~first_frame_' => k = 0)
  BY <1>1, <1>3 DEF OnTrackFrom, OldUpTo, Wrap
<1> DEFINE q == Place
           r == Place'
           m == Last
<1>5. /\ m \in Nat /\ k \in 0 .. m - 1 /\ q[m] = NextPos /\ lost \in Nat /\ still \in Nat
      /\ Along(q, k, m, lost, still)
      /\ ~first_frame_ /\ still = 0 /\ 5 * lost < 2 * N => Near(q, m, lost)
  BY <1>3, LastIs DEF OnTrackFrom
<1>6. CASE Measure
  <2>1. /\ line' = Append(line, [point |-> next, turning |-> TRUE])
        /\ next' = After(next) /\ still' = still
    BY <1>6 DEF Measure, history
  <2>2. NextPos' = q[m] + 1
    BY <1>1, <1>5, <2>1, NextPosGrows
  <2>3. Last' = m + 1 /\ (\A i \in 1 .. m : r[i] = q[i]) /\ r[m + 1] = q[m] + 1
    BY <1>1, <2>1, <2>2, MeasuredPlaces
  <2> HIDE DEF q, r, m
  <2>4. Along(r, k, m + 1, lost, still) /\ (Near(q, m, lost) => Near(r, m + 1, lost))
    BY <1>5, <2>3, AlongMeasured
  <2>5. /\ Along(r, k, Last', lost', still')
        /\ ~first_frame_' /\ still' = 0 /\ 5 * lost' < 2 * N => Near(r, Last', lost')
    BY <1>1, <1>5, <2>1, <2>3, <2>4
  <2> QED BY <1>1, <1>4, <2>5 DEF OnTrackFrom, r, Along, Near, Track, Strict, Tight
<1>7. CASE MeasureStanding
  <2>1. /\ line' = Append(line, [point |-> next, turning |-> FALSE])
        /\ next' = next /\ still' = still + 1
    BY <1>7 DEF MeasureStanding
  <2>2. NextPos' = q[m]
    BY <1>5, <2>1 DEF NextPos, Pos
  <2>3. Last' = m + 1 /\ (\A i \in 1 .. m : r[i] = q[i]) /\ r[m + 1] = q[m]
    BY <1>1, <2>1, <2>2, MeasuredPlaces
  <2>4. still' # 0
    BY <1>5, <2>1
  <2> HIDE DEF q, r, m
  <2>5. Along(r, k, m + 1, lost, still')
    BY <1>5, <2>3, <2>4, AlongRepeated
  <2>6. /\ Along(r, k, Last', lost', still')
        /\ ~first_frame_' /\ still' = 0 /\ 5 * lost' < 2 * N => Near(r, Last', lost')
    BY <1>1, <2>3, <2>4, <2>5
  <2> QED BY <1>1, <1>4, <2>6 DEF OnTrackFrom, r, Along, Near, Track, Strict, Tight
<1> QED BY <1>6, <1>7

\* A lost packet moves its end.
LEMMA LostOnTrack ==
  ASSUME Types, OnTrack, LosePacket
  PROVE  OnTrack'
<1>1. /\ next # <<>> /\ lost' = lost + 1 /\ next' = After(next) /\ still' = still
      /\ UNCHANGED <<line, frame_tmp_, first_frame_, last_pkg_timestamp_, start, backlog>>
  BY DEF LosePacket, parser
<1>2. SUFFICES ASSUME ~backlog PROVE \E k \in 0 .. Len(frame_tmp_) : OnTrackFrom(k)'
  BY <1>1 DEF OnTrack
<1>3. PICK k \in 0 .. Len(frame_tmp_) : OnTrackFrom(k)
  BY <1>2 DEF OnTrack
<1>4. /\ OldUpTo(frame_tmp_, k)' /\ (~last_pkg_timestamp_' => k = Len(frame_tmp_)')
      /\ (~first_frame_' => k = 0)
  BY <1>1, <1>3 DEF OnTrackFrom, OldUpTo, Wrap
<1> DEFINE q == Place
           r == Place'
           m == Last
           n == Len(frame_tmp_)
<1>5. /\ m \in Nat /\ k \in 0 .. m - 1 /\ q[m] = NextPos /\ lost \in Nat /\ still \in Nat
      /\ Along(q, k, m, lost, still)
      /\ ~first_frame_ /\ still = 0 /\ 5 * lost < 2 * N => Near(q, m, lost)
      /\ m = n + Len(line) + 1 /\ n \in Nat /\ Len(line) \in Nat
      /\ \A i \in 1 .. n : q[i] = Pos(frame_tmp_[i])
      /\ \A i \in 1 .. Len(line) : q[n + i] = Pos(line[i].point)
  BY <1>3, LastIs DEF OnTrackFrom
<1>6. Last' = m
  BY <1>1 DEF Last
<1>7. r[m] = q[m] + 1 /\ \A i \in 1 .. m - 1 : r[i] = q[i]
  <2> DEFINE x == NextPos'
             s == Places(frame_tmp_, line, x)
  <2>1. r = s
    BY <1>1 DEF Place
  <2>2. x = q[m] + 1
    BY <1>1, <1>5, NextPosGrows
  <2> HIDE DEF x
  <2>3. /\ \A i \in 1 .. n : s[i] = Pos(frame_tmp_[i])
        /\ \A i \in 1 .. Len(line) : s[n + i] = Pos(line[i].point)
        /\ s[n + Len(line) + 1] = x
    BY <1>5, PlacesAre
  <2> HIDE DEF s, r, q, m, n
  <2>4. ASSUME NEW i \in 1 .. m - 1 PROVE s[i] = q[i]
    <3>1. i \in 1 .. n \/ (i - n \in 1 .. Len(line) /\ n + (i - n) = i)
      BY <1>5
    <3> QED BY <1>5, <2>3, <3>1
  <2> QED BY <1>5, <2>1, <2>2, <2>3, <2>4
<1> HIDE DEF q, r, m, n
<1>8. Along(r, k, m, lost + 1, still) /\ (Near(q, m, lost) => Near(r, m, lost + 1))
  BY <1>5, <1>7, AlongLost
<1>9. 5 * (lost + 1) < 2 * N => 5 * lost < 2 * N
  BY <1>5, NAssumption
<1>10. /\ Along(r, k, Last', lost', still')
       /\ ~first_frame_' /\ still' = 0 /\ 5 * lost' < 2 * N => Near(r, Last', lost')
  BY <1>1, <1>5, <1>6, <1>8, <1>9
<1> QED BY <1>1, <1>4, <1>10 DEF OnTrackFrom, r, Along, Near, Track, Strict, Tight

\* What a callback parses is a track too, and the same one if it drops no packet.
LEMMA ParsedAlong ==
  ASSUME Types, line # <<>>, NEW k \in 0 .. Len(frame_tmp_), OnTrackFrom(k),
         NEW f, f = Parse(line).points, NEW q, q = Places(f, <<>>, NextPos)
  PROVE  /\ f \in Seq(Point) /\ k \in 0 .. Len(f)
         /\ \A i \in 1 .. Len(f) : q[i] = Pos(f[i])
         /\ q[Len(f) + 1] = NextPos
         /\ Along(q, k, Len(f) + 1, lost, still)
         /\ ~first_frame_ /\ still = 0 /\ 5 * lost < 2 * N => Near(q, Len(f) + 1, lost)
<1> DEFINE n == Len(frame_tmp_)
           p == Place
           m == Last
           o == IF last_pkg_timestamp_ THEN 0 ELSE 1
           e == Len(f) + 1
           x == NextPos
<1>1. /\ f \in Seq(Point) /\ Len(f) \in Nat /\ Len(f) = n + Len(Read)
      /\ \A i \in 1 .. n : f[i] = frame_tmp_[i]
      /\ \A i \in 1 .. Len(Read) : f[n + i] = Read[i].point
      /\ Len(Read) \in Nat
  BY ParseIs, LenProperties
<1>2. /\ m \in Nat /\ k \in 0 .. m - 1 /\ p[m] = x /\ lost \in Nat /\ still \in Nat
      /\ m = n + Len(line) + 1 /\ n \in Nat /\ Len(line) \in Nat
      /\ \A i \in 1 .. n : p[i] = Pos(frame_tmp_[i])
      /\ \A i \in 1 .. Len(line) : p[n + i] = Pos(line[i].point)
  BY LastIs
<1>3. /\ Along(p, k, m, lost, still)
      /\ ~first_frame_ /\ still = 0 /\ 5 * lost < 2 * N => Near(p, m, lost)
      /\ ~last_pkg_timestamp_ => k = n
  BY DEF OnTrackFrom
<1>4. Len(line) # 0
  BY EmptySeq DEF Types, PointTypes
\* Read is the line, or the line without its first packet.
<1>5. /\ Len(Read) = Len(line) - o /\ o \in {0, 1} /\ (o = 1 => k = n)
      /\ \A i \in 1 .. Len(Read) : Read[i] = line[i + o]
  <2>1. CASE last_pkg_timestamp_
    BY <1>2, <2>1 DEF Read
  <2>2. CASE ~last_pkg_timestamp_
    <3>1. line \in Seq(Packet)
      BY DEF Types, PointTypes
    <3>2. Read = Tail(line)
      BY <2>2 DEF Read
    <3> QED BY <1>2, <1>3, <1>4, <2>2, <3>1, <3>2, HeadTailProperties
  <2> QED BY <2>1, <2>2
<1>6. ~first_frame_ => o = 0
  BY DEF Types, FlagTypes
<1> HIDE DEF n, p, m, o, x
<1>7. /\ \A i \in 1 .. Len(f) : q[i] = Pos(f[i])
      /\ q[e] = x
  <2>1. Len(<<>>) = 0 /\ Len(f) + Len(<<>>) + 1 = e
    BY <1>1, EmptySeq
  <2>2. q = Places(f, <<>>, x)
    BY DEF x
  <2> HIDE DEF e
  <2> QED BY <1>1, <2>1, <2>2, PlacesAre
<1>8. e = m - o /\ e \in Nat /\ k \in 0 .. Len(f) /\ k + 1 <= m - o
  BY <1>1, <1>2, <1>4, <1>5
<1> HIDE DEF e
<1>9. ASSUME NEW i \in 1 .. m - o, i > n \/ o = 0 PROVE q[i] = p[i + o]
  <2>1. CASE i <= n
    <3>1. i \in 1 .. n /\ i \in 1 .. Len(f) /\ i + o = i
      BY <1>1, <1>2, <1>5, <1>9, <2>1
    <3> QED BY <1>1, <1>2, <1>7, <3>1
  <2>2. CASE n < i /\ i < m - o
    <3> DEFINE j == i - n
    <3>1. /\ j \in 1 .. Len(Read) /\ n + j = i /\ j + o \in 1 .. Len(line)
          /\ n + (j + o) = i + o /\ i \in 1 .. Len(f)
      BY <1>1, <1>2, <1>5, <2>2
    <3> HIDE DEF j
    <3>2. f[i] = line[j + o].point
      BY <1>1, <1>5, <3>1
    <3> QED BY <1>2, <1>7, <3>1, <3>2
  <2>3. CASE i = m - o
    <3>1. i = e /\ i + o = m
      BY <1>2, <1>5, <1>8, <2>3
    <3> QED BY <1>2, <1>7, <3>1
  <2>4. i \in Int /\ n \in Int /\ m - o \in Int /\ i <= m - o
    BY <1>2, <1>5
  <2>5. i <= n \/ (n < i /\ i < m - o) \/ i = m - o
    BY <2>4
  <2> QED BY <2>1, <2>2, <2>3, <2>5
<1>10. Along(q, k, e, lost, still)
  <2>1. o \in Nat /\ k \in Nat /\ k <= k + o
    BY <1>2, <1>5
  <2>2. \A i \in k + 1 .. m - o : q[i] = p[i + o]
    <3>1. SUFFICES ASSUME NEW i \in k + 1 .. m - o PROVE q[i] = p[i + o]
      OBVIOUS
    <3>2. i \in 1 .. m - o /\ (i > n \/ o = 0)
      BY <1>2, <1>5, <2>1
    <3> QED BY <1>9, <3>2
  <2>3. Along(q, k, m - o, lost, still)
    BY <1>2, <1>3, <1>8, <2>1, <2>2, AlongShifted
  <2> QED BY <1>8, <2>3
<1>11. ASSUME ~first_frame_ /\ still = 0 /\ 5 * lost < 2 * N PROVE Near(q, e, lost)
  <2>1. o = 0 /\ e = m /\ 1 \in 1 .. m /\ m \in 1 .. m
    BY <1>2, <1>6, <1>8, <1>11
  <2>2. q[1] = p[1 + o] /\ q[m] = p[m + o] /\ 1 + o = 1 /\ m + o = m
    BY <1>2, <1>9, <2>1
  <2>3. q[1] = p[1] /\ q[m] = p[m]
    BY <2>2
  <2> QED BY <1>3, <1>11, <2>1, <2>3 DEF Near
<1> QED BY <1>1, <1>7, <1>8, <1>10, <1>11 DEF e, x

\* A callback that stops somewhere leaves a track that begins there.
LEMMA CallbackOnTrack ==
  ASSUME Types, Behind, OnTrack, CommReadCallback
  PROVE  OnTrack'
<1>1. /\ line # <<>> /\ line' = <<>> /\ last_pkg_timestamp_' = TRUE
      /\ UNCHANGED <<next, lost, still, start, backlog>>
  BY DEF CommReadCallback, history
<1>2. SUFFICES ASSUME ~backlog PROVE \E k \in 0 .. Len(frame_tmp_') : OnTrackFrom(k)'
  BY <1>1 DEF OnTrack, OnTrackFrom, OldUpTo, Wrap, Along, Near, Track, Strict, Tight
<1>3. PICK k \in 0 .. Len(frame_tmp_) : OnTrackFrom(k)
  BY <1>2 DEF OnTrack
<1> DEFINE f == Parse(line).points
           v == Parse(line).speed
           q == Places(f, <<>>, NextPos)
<1>4. /\ k \in 0 .. Len(f)
      /\ \A i \in 1 .. Len(f) : q[i] = Pos(f[i])
      /\ q[Len(f) + 1] = NextPos
      /\ Along(q, k, Len(f) + 1, lost, still)
      /\ ~first_frame_ /\ still = 0 /\ 5 * lost < 2 * N => Near(q, Len(f) + 1, lost)
  BY <1>1, <1>3, ParsedAlong
<1>5. OldUpTo(f, k) /\ (~first_frame_ => k = 0)
  BY <1>1, <1>3, ParsedOldUpTo DEF OnTrackFrom
<1>6. /\ f \in Seq(Point) /\ v \in BOOLEAN
      /\ \E c \in 0 .. Len(f) :
           EraseFront(f, c) /\ (Cuts(f, v, c) \/ Drops(f, v, c) \/ Waits(f, v, c))
  BY <1>1, CallbackEffect
<1> HIDE DEF f, v, q
<1>7. PICK c \in 0 .. Len(f) :
        EraseFront(f, c) /\ (Cuts(f, v, c) \/ Drops(f, v, c) \/ Waits(f, v, c))
  BY <1>6
<1> DEFINE h == Left(k, c)
           r == Place'
           m == Len(f) + 1 - c
<1>8. OldUpTo(frame_tmp_, h)' /\ h \in 0 .. Len(frame_tmp_')
  BY <1>1, <1>4, <1>5, <1>6, <1>7, ErasedOldUpTo
<1>9. ~first_frame_' => h = 0
  BY <1>4, <1>5, <1>6, <1>7, LeftIs
<1>10. /\ Len(f) \in Nat /\ c \in Nat /\ k \in Nat /\ lost \in Nat /\ still \in Nat
       /\ frame_tmp_' \in Seq(Point) /\ Len(frame_tmp_') = Len(f) - c
       /\ \A i \in 1 .. Len(f) - c : frame_tmp_'[i] = f[i + c]
  <2>1. lost \in Nat /\ still \in Nat
    BY <1>3, LastIs
  <2>2. Len(f) \in Nat
    BY <1>6
  <2>3. c \in Nat /\ k \in Nat
    BY <1>4, <1>7, <2>2
  <2>4. /\ frame_tmp_' \in Seq(Point) /\ Len(frame_tmp_)' = Len(f) - c
        /\ \A i \in 1 .. Len(f) - c : frame_tmp_'[i] = f[i + c]
    <3>1. EraseFront(f, c)
      BY <1>7
    <3> QED BY <1>6, <3>1, Erased
  <2> QED BY <2>1, <2>2, <2>3, <2>4
<1>11. h \in Nat /\ h + 1 <= m /\ k <= h + c /\ (~(k > c) => h = 0)
  <2>1. PICK n \in Nat : n = Len(f)
    BY <1>10
  <2>2. c <= n /\ k <= n
    BY <1>4, <1>7, <2>1
  <2>3. CASE k > c
    <3>1. h = k - c
      BY <2>3 DEF Left
    <3>2. m = n + 1 - c
      BY <2>1
    <3> HIDE DEF h, m
    <3> QED BY <1>10, <2>2, <2>3, <3>1, <3>2
  <2>4. CASE ~(k > c)
    <3>1. h = 0
      BY <2>4 DEF Left
    <3>2. m = n + 1 - c
      BY <2>1
    <3> HIDE DEF h, m
    <3> QED BY <1>10, <2>2, <2>4, <3>1, <3>2
  <2> QED BY <2>3, <2>4
<1>12. Last' = m /\ \A i \in 1 .. m : r[i] = q[i + c]
  <2> DEFINE g == frame_tmp_'
             x == NextPos
             s == Places(g, <<>>, x)
  <2>1. r = s
    BY <1>1 DEF Place, NextPos, Pos
  <2>2. Len(<<>>) = 0 /\ Len(g) \in Nat /\ Len(g) + 0 + 1 = m /\ Len(g) = Len(f) - c
    BY <1>10, EmptySeq
  <2>3. Last' = m
    BY <1>1, <2>2 DEF Last
  <2> HIDE DEF g, x
  <2>4. /\ \A i \in 1 .. Len(g) : s[i] = Pos(g[i])
        /\ s[m] = x
    <3>1. s[Len(g) + Len(<<>>) + 1] = x /\ \A i \in 1 .. Len(g) : s[i] = Pos(g[i])
      BY <2>2, PlacesAre
    <3> QED BY <2>2, <3>1
  <2> HIDE DEF s, r, m
  <2>5. ASSUME NEW i \in 1 .. m PROVE s[i] = q[i + c]
    <3>1. CASE i = m
      <4>1. i + c = Len(f) + 1
        BY <1>10, <3>1 DEF m
      <4> QED BY <1>4, <2>4, <3>1, <4>1 DEF x
    <3>2. CASE i # m
      <4>1. i \in 1 .. Len(g) /\ i \in 1 .. Len(f) - c /\ i + c \in 1 .. Len(f)
        BY <1>10, <2>2, <3>2
      <4>2. g[i] = f[i + c]
        BY <1>10, <4>1 DEF g
      <4> QED BY <1>4, <2>4, <4>1, <4>2
    <3> QED BY <3>1, <3>2
  <2> QED BY <2>1, <2>3, <2>5
<1>13. m \in Nat /\ m >= 1
  BY <1>10, <1>11
<1> HIDE DEF h, r
<1>14. Along(r, h, m, lost, still)
  <2>1. \A i \in h + 1 .. (Len(f) + 1) - c : r[i] = q[i + c]
    <3>1. \A i \in h + 1 .. (Len(f) + 1) - c : i \in 1 .. m
      BY <1>11
    <3> QED BY <1>12, <3>1
  <2>2. Len(f) + 1 \in Nat /\ k \in 0 .. (Len(f) + 1) - 1 /\ m = (Len(f) + 1) - c
    BY <1>4, <1>10
  <2> HIDE DEF m
  <2> QED BY <1>4, <1>10, <1>11, <2>1, <2>2, AlongShifted
<1>15. ASSUME ~first_frame_', still = 0, 5 * lost < 2 * N PROVE Near(r, m, lost)
  <2>1. h = 0 /\ Along(r, 0, m, lost, 0)
    BY <1>9, <1>14, <1>15
  <2>2. ASSUME c + 1 \in 1 .. Len(f), Wrap(f, c + 1) PROVE Near(r, m, lost)
    <3>1. f[c + 1].at = 0 /\ f[c + 1] \in Point
      BY <1>6, <2>2, ElementOfSeq DEF Wrap
    <3>2. 1 \in 1 .. m /\ 1 + c = c + 1
      BY <1>10, <1>13
    <3>3. r[1] = Pos(f[c + 1])
      BY <1>4, <1>12, <2>2, <3>2
    <3> HIDE DEF m
    <3> QED BY <1>10, <1>13, <2>1, <3>1, <3>3, NearAtCut
  <2>3. CASE Cuts(f, v, c)
    BY <2>2, <2>3 DEF Cuts, CutsTurn
  <2>4. CASE ~Cuts(f, v, c)
    <3>1. first_frame_' = first_frame_
      BY <1>7, <2>4 DEF Drops, Waits
    <3>2. Near(q, Len(f) + 1, lost) /\ k = 0
      BY <1>4, <1>5, <1>15, <3>1
    <3>3. CASE Waits(f, v, c)
      <4>1. c = 0 /\ m = Len(f) + 1 /\ 1 \in 1 .. m /\ m \in 1 .. m
        BY <1>10, <1>13, <3>3 DEF Waits
      <4>2. r[1] = q[1 + c] /\ r[m] = q[m + c] /\ 1 + c = 1 /\ m + c = m
        BY <1>12, <1>13, <4>1
      <4>3. r[1] = q[1] /\ r[m] = q[m]
        BY <4>2
      <4> HIDE DEF m
      <4> QED BY <3>2, <4>1, <4>3 DEF Near
    <3>4. CASE Drops(f, v, c)
      <4>1. CASE c + 1 \in 1 .. Len(f) /\ DropsTurn(f, v, c + 1)
        BY <2>2, <4>1 DEF DropsTurn
      <4>2. CASE c \in 1 .. Len(f) /\ StopsFirst(f, v, c) /\ DropsAll(f, v, c) /\ ~DropsTurn(f, v, c)
        <5>1. v = TRUE
          BY <1>6, <4>2 DEF DropsAll, NoTurnInSight
        <5>2. Along(q, 0, Len(f) + 1, lost, 0)
          BY <1>4, <1>15, <3>2
        <5>3. /\ c \in 1 .. Len(f) /\ StopsFirst(f, TRUE, c) /\ DropsAll(f, TRUE, c)
              /\ ~DropsTurn(f, TRUE, c)
          BY <4>2, <5>1
        <5> QED BY <1>4, <1>6, <1>10, <1>12, <1>15, <3>2, <5>2, <5>3, NearAtDrop
      <4> QED BY <3>4, <4>1, <4>2 DEF Drops
    <3> QED BY <1>7, <2>4, <3>3, <3>4
  <2> QED BY <2>3, <2>4
<1>16. h' = h
  BY DEF h, Left
<1>17. /\ Along(r, h, Last', lost', still')
       /\ ~first_frame_' /\ still' = 0 /\ 5 * lost' < 2 * N => Near(r, Last', lost')
  BY <1>1, <1>12, <1>14, <1>15
<1>18. OnTrackFrom(h)'
  BY <1>1, <1>8, <1>9, <1>16, <1>17 DEF OnTrackFrom, r, Along, Near, Track, Strict, Tight
<1> QED BY <1>8, <1>16, <1>18 DEF OnTrackFrom, OldUpTo, Wrap, Along, Near, Track, Strict, Tight

\* A new session begins a new track after the old points.
LEMMA RestartOnTrack ==
  ASSUME Types, Restart
  PROVE  OnTrack'
<1>1. /\ next' \in Point /\ line' = <<>> /\ first_frame_' = TRUE
      /\ UNCHANGED <<frame_tmp_, lost, still>>
      /\ backlog' = \E i \in 1 .. Len(frame_tmp_) : Wrap(frame_tmp_, i)
  BY DEF Restart, ClearDataProcessStatus
<1>2. SUFFICES ASSUME ~backlog' PROVE \E k \in 0 .. Len(frame_tmp_') : OnTrackFrom(k)'
  BY DEF OnTrack, OnTrackFrom, OldUpTo, Wrap, Along, Near, Track, Strict, Tight
<1> DEFINE n == Len(frame_tmp_)
           r == Place'
<1>3. n \in Nat /\ n' = n /\ lost \in Nat
  BY <1>1, TypesOfPoints, BoundAssumption DEF Types, CountTypes
<1>4. OldUpTo(frame_tmp_, n)'
  <2>1. \A i \in 1 .. n : ~Wrap(frame_tmp_, i)
    BY <1>1, <1>2
  <2>2. n + 1 .. n = {}
    BY <1>3
  <2> QED BY <1>1, <2>1, <2>2 DEF OldUpTo, Wrap
<1>5. Last' = n + 1 /\ r[n + 1] = NextPos' /\ NextPos' \in Int
  <2> DEFINE x == NextPos'
  <2>1. Len(<<>>) = 0
    BY EmptySeq
  <2>2. Last' = n + 1
    BY <1>1, <1>3, <2>1 DEF Last
  <2>3. r = Places(frame_tmp_, <<>>, x)
    BY <1>1 DEF Place
  <2>4. x \in Int
    <3>1. next' # <<>>
      BY <1>1, NoPoint
    <3>2. x = Pos(next')
      BY <3>1 DEF NextPos, Pos
    <3> QED BY <1>1, <3>2, PosOfPoint
  <2> HIDE DEF x, n, r
  <2>5. Places(frame_tmp_, <<>>, x)[n + Len(<<>>) + 1] = x
    BY <1>3, <2>1, PlacesAre DEF n
  <2>6. n + Len(<<>>) + 1 = n + 1
    BY <1>3, <2>1
  <2> QED BY <2>2, <2>3, <2>4, <2>5, <2>6 DEF x
<1> HIDE DEF n, r
<1>6. Along(r, n, Last', lost', still')
  <2>1. Track(r, n + 1, n + 1) /\ Strict(r, n + 1, n + 1) /\ Tight(r, n + 1, n + 1)
    BY <1>3, <1>5 DEF Track, Strict, Tight
  <2>2. r[n + 1] - r[n + 1] <= (n + 1) - (n + 1) + lost
    <3>1. PICK y \in Int : y = r[n + 1]
      BY <1>5
    <3>2. y - y <= (n + 1) - (n + 1) + lost
      BY <1>3
    <3> QED BY <3>1, <3>2
  <2>3. Along(r, n, n + 1, lost, still)
    BY <2>1, <2>2 DEF Along
  <2> QED BY <1>1, <1>5, <2>3
<1>7. OnTrackFrom(n)'
  BY <1>1, <1>3, <1>4, <1>6 DEF OnTrackFrom, n, r, Along, Near, Track, Strict, Tight
<1>8. n \in 0 .. Len(frame_tmp_')
  BY <1>1, <1>3 DEF n
<1> QED BY <1>3, <1>7, <1>8 DEF OnTrackFrom, OldUpTo, Wrap, Along, Near, Track, Strict, Tight

\* A step keeps the track.
LEMMA NextOnTrack ==
  ASSUME Types, Behind, OnTrack, [Next]_vars
  PROVE  OnTrack'
<1>1. CASE Measure \/ MeasureStanding
  BY <1>1, MeasureOnTrack
<1>2. CASE LosePacket
  BY <1>2, LostOnTrack
<1>3. CASE CommReadCallback
  BY <1>3, CallbackOnTrack
<1>4. CASE Restart
  BY <1>4, RestartOnTrack
<1>5. CASE UNCHANGED vars
  <2>1. UNCHANGED <<next, line, frame_tmp_, first_frame_, last_pkg_timestamp_, start, lost,
                    still, backlog>>
    BY <1>5 DEF vars, parser, history
  <2>2. UNCHANGED <<Place, Last>>
    BY <2>1 DEF Place, Last, NextPos
  <2> QED BY <2>1, <2>2 DEF OnTrack, OnTrackFrom, OldUpTo, Wrap, Along, Near, Track, Strict, Tight
<1> QED BY <1>1, <1>2, <1>3, <1>4, <1>5 DEF Next

\* What a callback publishes is one revolution.
LEMMA StepPublishesOneTurn ==
  ASSUME Types, Behind, OnTrack, [Next]_vars,
         laser_scan_data_' # laser_scan_data_, ~backlog, speed_', FewLost
  PROVE  OneTurn(BagToSet(laser_scan_data_'))
<1> DEFINE f == Parse(line).points
           v == Parse(line).speed
           q == Places(f, <<>>, NextPos)
<1>1. CommReadCallback
  BY DEF Next, Measure, MeasureStanding, LosePacket, Restart, vars
<1>2. line # <<>>
  BY <1>1 DEF CommReadCallback
<1>3. /\ f \in Seq(Point) /\ speed_' = v
      /\ \E c \in 0 .. Len(f) :
           EraseFront(f, c) /\ (Cuts(f, v, c) \/ Drops(f, v, c) \/ Waits(f, v, c))
  BY <1>1, CallbackEffect
<1>4. PICK k \in 0 .. Len(frame_tmp_) : OnTrackFrom(k)
  BY DEF OnTrack
<1>5. /\ \A i \in 1 .. Len(f) : q[i] = Pos(f[i])
      /\ Along(q, k, Len(f) + 1, lost, still)
      /\ ~first_frame_ /\ still = 0 /\ 5 * lost < 2 * N => Near(q, Len(f) + 1, lost)
  BY <1>2, <1>4, ParsedAlong
<1>6. lost \in Nat /\ (~first_frame_ => k = 0)
  BY <1>4, LastIs DEF OnTrackFrom
<1> HIDE DEF f, v, q
<1>7. v = TRUE
  <2>1. v \in BOOLEAN
    BY <1>1, CallbackEffect DEF f, v
  <2> QED BY <1>3, <2>1
<1>8. PICK c \in 0 .. Len(f) : Cuts(f, v, c)
  BY <1>3 DEF Drops, Waits
<1>9. ~first_frame_
  BY <1>3, <1>8, PublishedFrom
<1>10. /\ c \in Nat /\ c + 1 \in 1 .. Len(f)
       /\ StopsFirst(f, TRUE, c + 1) /\ CutsTurn(f, TRUE, c + 1)
  <2>1. Cuts(f, TRUE, c)
    BY <1>7, <1>8
  <2>2. Len(f) \in Nat /\ c \in Nat
    BY <1>3
  <2> QED BY <2>1, <2>2 DEF Cuts
<1>11. \A i \in 1 .. c : f[i].turn = f[1].turn
  <2>1. Along(q, 0, Len(f) + 1, lost, still)
    BY <1>5, <1>6, <1>9
  <2>2. lost = 0 \/ (still = 0 /\ 5 * lost < 2 * N /\ Near(q, Len(f) + 1, lost))
    BY <1>5, <1>9 DEF FewLost
  <2> QED BY <1>3, <1>5, <1>6, <1>10, <2>1, <2>2, NearIsOneTurn
<1>12. \A p \in BagToSet(laser_scan_data_') : p.turn = f[1].turn
  <2> DEFINE s == Scan(Filter(Collected(f, c + 1), v))
  <2>1. laser_scan_data_' = s
    BY <1>8, <1>9 DEF Cuts
  <2>2. \A p \in BagToSet(s) : \E j \in 1 .. (c + 1) - 1 : p = f[j]
    BY <1>3, <1>10, ScanFrom
  <2>3. (c + 1) - 1 = c
    BY <1>10
  <2> HIDE DEF s
  <2> QED BY <1>11, <2>1, <2>2, <2>3
<1> QED BY <1>12 DEF OneTurn

-----------------------------------------------------------------------------
(* The limit of what waits: reads that come within a revolution.              *)

\* What holds of the environment when the receive thread keeps up: it reads before
\* a whole revolution waits on the line.
ReadsWithinATurn ==
  \A i, j \in 1 .. Len(line) : Pos(line[j].point) - Pos(line[i].point) < N

\* The points a .. b of f were measured one after another, within a revolution.
Spans(f, a, b) ==
  \A i, j \in a .. b : i < j => Pos(f[i]) < Pos(f[j]) /\ Pos(f[j]) < Pos(f[i]) + N

\* The loop has looked at the first n points and will not stop there.
Settled(f, n) == \A i \in 1 .. n : ~Stops(f, TRUE, i)

\* At most two revolutions, and whatever the loop has not looked at came with the
\* last read.
HoldsTwoTurns(f) ==
  /\ Len(f) <= 2 * N
  /\ \E c \in 0 .. Len(f) : Spans(f, Len(f) - c + 1, Len(f)) /\ Settled(f, Len(f) - c)

\* Where the loop has erased the first e points.
StoppedAfter(f, e) ==
  \/ e + 1 \in 1 .. Len(f) /\ StopsFirst(f, TRUE, e + 1) /\ Wrap(f, e + 1)
  \/ e \in 1 .. Len(f) /\ StopsFirst(f, TRUE, e) /\ DropsAll(f, TRUE, e)
  \/ e = 0 /\ Settled(f, Len(f))

\* As long as the motor turns, the line holds what was measured, in order.
LineOrder ==
  still = 0 =>
    /\ \A i, j \in 1 .. Len(line) : i < j => Pos(line[i].point) < Pos(line[j].point)
    /\ \A i \in 1 .. Len(line) : Pos(line[i].point) < NextPos /\ line[i].turning

Bounded ==
  still = 0 => HoldsTwoTurns(frame_tmp_) /\ (Len(frame_tmp_) > 0 => speed_)

\* A part within a revolution is of N points at most.
LEMMA SpanCount ==
  ASSUME NEW f \in Seq(Point), NEW a \in Nat, NEW b \in Nat, 1 <= a, b <= Len(f),
         Spans(f, a, b)
  PROVE  b - a + 1 <= N
<1>0. N \in Nat /\ N >= 2 /\ Len(f) \in Nat
  BY NAssumption
<1>1. CASE b < a
  BY <1>0, <1>1
<1>2. CASE a <= b
  <2> DEFINE D == {k \in 0 .. b - a : Pos(f[a]) + k <= Pos(f[a + k])}
  <2>1. \A i \in a .. b : Pos(f[i]) \in Int
    <3> SUFFICES ASSUME NEW i \in a .. b PROVE Pos(f[i]) \in Int
      OBVIOUS
    <3>1. i \in 1 .. Len(f)
      BY <1>0
    <3>2. f[i] \in Point
      BY <3>1, ElementOfSeq
    <3> QED BY <3>2, PosOfPoint
  <2>2. 0 \in D
    <3>1. a \in a .. b /\ a + 0 = a
      BY <1>2
    <3>2. Pos(f[a]) \in Int
      BY <2>1, <3>1
    <3> QED BY <1>2, <3>1, <3>2
  <2>3. ASSUME NEW k \in 0 .. (b - a) - 1, k \in D PROVE k + 1 \in D
    <3>1. a + k \in a .. b /\ a + k + 1 \in a .. b /\ a + k < a + k + 1 /\ a \in a .. b
      BY <1>2
    <3>2. Pos(f[a + k]) < Pos(f[a + k + 1])
      BY <3>1 DEF Spans
    <3>3. Pos(f[a]) + k <= Pos(f[a + k])
      BY <2>3
    <3>4. Pos(f[a]) \in Int /\ Pos(f[a + k]) \in Int /\ Pos(f[a + k + 1]) \in Int
      BY <2>1, <3>1
    <3>5. a + (k + 1) = a + k + 1 /\ k + 1 \in 0 .. b - a
      BY <1>2
    <3>6. Pos(f[a]) + (k + 1) <= Pos(f[a + k + 1])
      BY <3>2, <3>3, <3>4
    <3> QED BY <3>5, <3>6
  <2>4. b - a \in Nat
    BY <1>2
  <2>5. b - a \in D
    <3> HIDE DEF D
    <3>1. b - a \in 0 .. b - a
      BY <2>4
    <3> QED BY <2>2, <2>3, <2>4, <3>1, Induction
  <2>6. Pos(f[a]) + (b - a) <= Pos(f[b])
    <3>1. a + (b - a) = b
      OBVIOUS
    <3> QED BY <2>5, <3>1
  <2>7. a < b => Pos(f[b]) < Pos(f[a]) + N
    BY <1>2 DEF Spans
  <2>8. Pos(f[a]) \in Int /\ Pos(f[b]) \in Int
    BY <1>2, <2>1
  <2> QED BY <1>0, <1>2, <2>6, <2>7, <2>8
<1> QED BY <1>1, <1>2

\* Such a part wraps once at most.
LEMMA OneWrap ==
  ASSUME NEW f \in Seq(Point), NEW a \in Nat, NEW b \in Nat, 1 <= a, b <= Len(f),
         Spans(f, a, b), NEW i \in a .. b, NEW j \in a .. b, i < j,
         Wrap(f, i), Wrap(f, j)
  PROVE  FALSE
<1>1. f[i] \in Point /\ f[j] \in Point
  <2>1. i \in 1 .. Len(f) /\ j \in 1 .. Len(f)
    OBVIOUS
  <2> QED BY <2>1, ElementOfSeq
<1>2. f[i].at = 0 /\ f[j].at = 0
  BY DEF Wrap
<1>3. Pos(f[i]) < Pos(f[j]) /\ Pos(f[j]) < Pos(f[i]) + N
  BY DEF Spans
<1> DEFINE p == f[i]
           r == f[j]
<1> HIDE DEF p, r
<1>4. p \in Point /\ r \in Point /\ p.at = 0 /\ r.at = 0
      /\ Pos(p) < Pos(r) /\ Pos(r) < Pos(p) + N
  BY <1>1, <1>2, <1>3 DEF p, r
<1>5. /\ p.turn \in Int /\ r.turn \in Int /\ p.turn * N \in Int /\ r.turn * N \in Int
      /\ Pos(p) = p.turn * N + p.at /\ Pos(r) = r.turn * N + r.at /\ N \in Nat
  BY <1>4, PosOfPoint
<1>6. p.turn < r.turn => p.turn * N + N <= r.turn * N
  BY <1>4, PosTurn
<1>7. r.turn < p.turn => r.turn * N + N <= p.turn * N
  BY <1>4, PosTurn
<1>8. p.turn = r.turn => p.turn * N = r.turn * N
  OBVIOUS
<1>9. PICK x \in Int, y \in Int : x = p.turn * N /\ y = r.turn * N
  BY <1>5
<1>10. Pos(p) = x /\ Pos(r) = y /\ x < y /\ y < x + N
  <2>1. x + 0 = x /\ y + 0 = y
    OBVIOUS
  <2>2. Pos(p) = x + 0 /\ Pos(r) = y + 0
    BY <1>4, <1>5, <1>9
  <2> QED BY <1>4, <2>1, <2>2
<1>11. p.turn < r.turn => x + N <= y
  BY <1>6, <1>9
<1>12. r.turn < p.turn => y + N <= x
  BY <1>7, <1>9
<1>13. p.turn = r.turn => x = y
  BY <1>8, <1>9
<1> QED BY <1>5, <1>10, <1>11, <1>12, <1>13

\* What is collected in a part does not depend on what follows it.
LEMMA CollectedPrefix ==
  ASSUME NEW g \in Seq(Point), NEW f \in Seq(Point), Len(g) <= Len(f),
         \A i \in 1 .. Len(g) : f[i] = g[i]
  PROVE  \A i \in 0 .. Len(g) : Collected(f, i) = Collected(g, i)
<1> DEFINE D == {i \in 0 .. Len(g) : Collected(f, i) = Collected(g, i)}
<1>0. Len(g) \in Nat /\ Len(f) \in Nat
  OBVIOUS
<1>1. 0 \in D
  <2>1. 0 \in 0 .. Len(f) /\ 0 \in 0 .. Len(g)
    BY <1>0
  <2>2. Collected(f, 0) = <<>> /\ Collected(g, 0) = <<>>
    BY <1>0, <2>1, CollectedDef
  <2> QED BY <1>0, <2>2
<1>2. ASSUME NEW k \in 0 .. Len(g) - 1, k \in D PROVE k + 1 \in D
  <2>1. /\ k + 1 \in 0 .. Len(f) /\ k + 1 \in 0 .. Len(g) /\ k + 1 # 0
        /\ (k + 1) - 1 = k /\ k \in Nat
    BY <1>0
  <2>2. /\ Collected(f, k + 1) = CollectedStep(f, Collected(f, k), k + 1)
        /\ Collected(g, k + 1) = CollectedStep(g, Collected(g, k), k + 1)
    BY <1>0, <2>1, CollectedDef
  <2>3. Collected(f, k) = Collected(g, k)
    BY <1>2
  <2>4. Wrap(f, k + 1) <=> Wrap(g, k + 1)
    <3>1. k + 1 > 1 => k + 1 \in 1 .. Len(g) /\ (k + 1) - 1 \in 1 .. Len(g)
      BY <1>0
    <3> QED BY <3>1 DEF Wrap
  <2>5. SubSeq(f, 1, k) = SubSeq(g, 1, k)
    <3>1. \A i \in 1 .. k : f[i] \in Point /\ g[i] \in Point /\ f[i] = g[i]
      <4> SUFFICES ASSUME NEW i \in 1 .. k
                   PROVE  f[i] \in Point /\ g[i] \in Point /\ f[i] = g[i]
        OBVIOUS
      <4>1. i \in 1 .. Len(g) /\ i \in 1 .. Len(f)
        BY <1>0
      <4> QED BY <4>1, ElementOfSeq
    <3>2. /\ SubSeq(f, 1, k) \in Seq(Point) /\ Len(SubSeq(f, 1, k)) = k
          /\ \A i \in 1 .. k : SubSeq(f, 1, k)[i] = f[i]
      BY <2>1, <3>1, SubSeqProperties
    <3>3. /\ SubSeq(g, 1, k) \in Seq(Point) /\ Len(SubSeq(g, 1, k)) = k
          /\ \A i \in 1 .. k : SubSeq(g, 1, k)[i] = g[i]
      BY <2>1, <3>1, SubSeqProperties
    <3> DEFINE s == SubSeq(f, 1, k)
               t == SubSeq(g, 1, k)
    <3>4. s \in Seq(Point) /\ t \in Seq(Point) /\ Len(s) = Len(t)
          /\ \A i \in 1 .. Len(s) : s[i] = t[i]
      BY <3>1, <3>2, <3>3
    <3> HIDE DEF s, t
    <3>5. s = t
      BY <3>4, SeqEqual
    <3> QED BY <3>5 DEF s, t
  <2>6. CollectedStep(f, Collected(f, k), k + 1) = CollectedStep(g, Collected(g, k), k + 1)
    <3>1. (k + 1) - 1 = k
      BY <2>1
    <3> QED BY <2>3, <2>4, <2>5, <3>1 DEF CollectedStep
  <2> QED BY <2>1, <2>2, <2>6
<1> HIDE DEF D
<1>3. \A i \in 0 .. Len(g) : i \in D
  BY <1>0, <1>1, <1>2, Induction
<1> QED BY <1>3 DEF D

\* Neither does where the loop stops.
LEMMA StopsPrefix ==
  ASSUME NEW g \in Seq(Point), NEW f \in Seq(Point), Len(g) <= Len(f),
         \A i \in 1 .. Len(g) : f[i] = g[i], NEW i \in 1 .. Len(g)
  PROVE  (Wrap(f, i) <=> Wrap(g, i)) /\ (Stops(f, TRUE, i) <=> Stops(g, TRUE, i))
<1>1. Len(g) \in Nat /\ i \in 0 .. Len(g)
  OBVIOUS
<1>2. Collected(f, i) = Collected(g, i)
  BY <1>1, CollectedPrefix
<1>3. Wrap(f, i) <=> Wrap(g, i)
  <2>1. i > 1 => i - 1 \in 1 .. Len(g)
    BY <1>1
  <2> QED BY <2>1 DEF Wrap
<1> QED BY <1>2, <1>3 DEF Stops, DropsTurn, CutsTurn, DropsAll

\* A whole part that has no wrap and is of N points at most is settled.
LEMMA NoWrapSettled ==
  ASSUME NEW f \in Seq(Point), NEW n \in Nat, n <= N,
         \A i \in 2 .. n : ~Wrap(f, i)
  PROVE  Settled(f, n)
<1> SUFFICES ASSUME NEW i \in 1 .. n, Stops(f, TRUE, i) PROVE FALSE
  BY DEF Settled
<1>1. ~Wrap(f, i)
  <2>1. Wrap(f, i) => i \in 2 .. n
    BY DEF Wrap
  <2> QED BY <2>1
<1>2. i > 2 * N
  BY <1>1 DEF Stops, DropsTurn, CutsTurn, DropsAll, NoTurnInSight
<1> QED BY <1>2, NAssumption

\* What the loop leaves of two revolutions and a read: after a wrap in what it had,
\* no second one; after one in the read, a part of the read; and without a stop all
\* of it, which is then two revolutions at most.
LEMMA HoldsAfterErase ==
  ASSUME NEW g \in Seq(Point), HoldsTwoTurns(g),
         NEW f \in Seq(Point), Len(g) <= Len(f), \A i \in 1 .. Len(g) : f[i] = g[i],
         Spans(f, Len(g) + 1, Len(f)),
         NEW e \in 0 .. Len(f), StoppedAfter(f, e),
         NEW h \in Seq(Point), Len(h) = Len(f) - e,
         \A i \in 1 .. Len(f) - e : h[i] = f[i + e],
         \A i \in 2 .. Len(f) - e : Wrap(h, i) <=> Wrap(f, i + e)
  PROVE  HoldsTwoTurns(h)
<1>0. Len(g) \in Nat /\ Len(f) \in Nat /\ Len(h) \in Nat /\ e \in Nat /\ N \in Nat /\ N >= 2
  BY NAssumption
<1>1. Len(g) <= 2 * N
  BY DEF HoldsTwoTurns
<1>2. PICK c \in 0 .. Len(g) : Spans(g, Len(g) - c + 1, Len(g)) /\ Settled(g, Len(g) - c)
  BY DEF HoldsTwoTurns
<1>3. PICK m \in Nat, l \in Nat, n \in Nat : m = Len(g) /\ l = Len(f) /\ n = Len(h)
  BY <1>0
<1>4. /\ m <= l /\ n = l - e /\ e <= l /\ m <= 2 * N /\ c \in Nat /\ c <= m
  BY <1>0, <1>1, <1>2, <1>3
<1>5. \A i \in 1 .. m :
        (Wrap(f, i) <=> Wrap(g, i)) /\ (Stops(f, TRUE, i) <=> Stops(g, TRUE, i))
  BY <1>3, StopsPrefix
<1>6. Spans(f, m - c + 1, m)
  <2>1. \A i \in m - c + 1 .. m : f[i] = g[i]
    <3> SUFFICES ASSUME NEW i \in m - c + 1 .. m PROVE f[i] = g[i]
      OBVIOUS
    <3>1. i \in 1 .. Len(g)
      BY <1>3, <1>4
    <3> QED BY <3>1
  <2>2. Spans(g, m - c + 1, m)
    BY <1>2, <1>3
  <2> QED BY <2>1, <2>2 DEF Spans
<1>7. c <= N /\ l - m <= N
  <2>1. m - (m - c + 1) + 1 <= N
    <3>1. m - c + 1 \in Nat /\ 1 <= m - c + 1 /\ m <= Len(f)
      BY <1>3, <1>4
    <3> QED BY <1>6, <3>1, SpanCount
  <2>2. l - (m + 1) + 1 <= N
    <3>1. m + 1 \in Nat /\ 1 <= m + 1 /\ l <= Len(f) /\ Spans(f, m + 1, l)
      BY <1>3, <1>4
    <3> QED BY <3>1, SpanCount
  <2> QED BY <1>0, <1>4, <2>1, <2>2
<1>8. ASSUME NEW d \in 0 .. n, d <= l - m PROVE Spans(h, n - d + 1, n)
  <2> SUFFICES ASSUME NEW i \in n - d + 1 .. n, NEW j \in n - d + 1 .. n, i < j
               PROVE  Pos(h[i]) < Pos(h[j]) /\ Pos(h[j]) < Pos(h[i]) + N
    BY DEF Spans
  <2>1. i + e \in m + 1 .. l /\ j + e \in m + 1 .. l /\ i + e < j + e
    BY <1>4, <1>8
  <2>2. i \in 1 .. Len(f) - e /\ j \in 1 .. Len(f) - e
    BY <1>3, <1>4, <1>8
  <2>3. h[i] = f[i + e] /\ h[j] = f[j + e]
    BY <2>2
  <2>4. Spans(f, m + 1, l)
    BY <1>3
  <2> QED BY <2>1, <2>3, <2>4 DEF Spans
<1>9. CASE e = 0 /\ Settled(f, Len(f))
  <2>1. n = l /\ \A i \in 1 .. l : h[i] = f[i]
    <3>1. \A i \in 1 .. l : i + 0 = i
      OBVIOUS
    <3> QED BY <1>3, <1>4, <1>9, <3>1
  <2>2. h = f
    BY <1>3, <2>1, SeqEqual
  <2>3. l <= 2 * N
    <3>1. l # 0 => ~NoTurnInSight(l, TRUE)
      <4>1. l # 0 => l \in 1 .. Len(f)
        BY <1>3
      <4>2. l # 0 => ~Stops(f, TRUE, l)
        BY <1>9, <4>1 DEF Settled
      <4> QED BY <4>2 DEF Stops, DropsAll
    <3> QED BY <1>0, <1>3, <3>1 DEF NoTurnInSight
  <2>4. Spans(h, Len(h) - 0 + 1, Len(h))
    <3>1. 0 \in 0 .. n /\ 0 <= l - m
      BY <1>4
    <3>2. Spans(h, n - 0 + 1, n)
      BY <1>8, <3>1
    <3> QED BY <1>3, <3>2
  <2>5. Settled(h, Len(h) - 0)
    BY <1>0, <1>9, <2>2
  <2>6. 0 \in 0 .. Len(h)
    BY <1>0
  <2> QED BY <1>3, <2>1, <2>3, <2>4, <2>5, <2>6 DEF HoldsTwoTurns
<1>10. ASSUME m <= e PROVE HoldsTwoTurns(h)
  <2>1. n \in 0 .. n /\ n <= l - m /\ n <= 2 * N
    BY <1>0, <1>4, <1>7, <1>10
  <2>2. Spans(h, Len(h) - n + 1, Len(h))
    BY <1>3, <1>8, <2>1
  <2>3. Settled(h, Len(h) - n)
    BY <1>3 DEF Settled
  <2> QED BY <1>3, <2>1, <2>2, <2>3 DEF HoldsTwoTurns
<1>11. CASE /\ e + 1 \in 1 .. Len(f) /\ StopsFirst(f, TRUE, e + 1)
            /\ Wrap(f, e + 1) /\ e < m
  <2>1. m - c + 1 <= e + 1 /\ e + 1 <= m
    <3>1. Stops(f, TRUE, e + 1) /\ e + 1 \in 1 .. m
      <4>1. Stops(f, TRUE, e + 1)
        BY <1>11 DEF StopsFirst
      <4>2. e + 1 \in 1 .. m
        BY <1>0, <1>4, <1>11
      <4> QED BY <4>1, <4>2
    <3>2. Stops(g, TRUE, e + 1)
      BY <1>5, <3>1
    <3>3. ~(e + 1 <= m - c)
      <4>1. Settled(g, m - c)
        BY <1>2, <1>3
      <4>2. e + 1 <= m - c => e + 1 \in 1 .. m - c
        BY <1>0, <1>4
      <4> QED BY <3>2, <4>1, <4>2 DEF Settled
    <3>4. m - c < e + 1 /\ e + 1 <= m
      BY <1>0, <1>4, <1>11, <3>3
    <3> QED BY <1>0, <1>4, <3>4
  <2>2. m - e \in Nat /\ m - e <= N /\ m - e <= n /\ l - m \in 0 .. n /\ n - (l - m) = m - e
    BY <1>0, <1>4, <1>7, <2>1
  <2>3. ASSUME NEW i \in 2 .. m - e PROVE ~Wrap(h, i)
    <3>1. i \in 2 .. Len(f) - e
      BY <1>3, <1>4
    <3>2. Wrap(h, i) <=> Wrap(f, i + e)
      BY <3>1
    <3>3. PICK a \in Nat : a = m - c + 1
      BY <1>4
    <3>4. i \in Nat /\ 2 <= i /\ i <= m - e
      BY <1>0, <1>4
    <3>5. a <= e + 1 /\ e + 1 <= m
      BY <2>1, <3>3
    <3>6. e + 1 \in a .. m /\ i + e \in a .. m /\ e + 1 < i + e
      BY <1>0, <1>4, <3>4, <3>5
    <3>7. 1 <= a /\ m <= Len(f) /\ Spans(f, a, m)
      BY <1>3, <1>4, <1>6, <3>3
    <3> QED BY <1>11, <3>2, <3>6, <3>7, OneWrap
  <2>4. Settled(h, m - e)
    BY <2>2, <2>3, NoWrapSettled
  <2>5. Spans(h, Len(h) - (l - m) + 1, Len(h)) /\ Settled(h, Len(h) - (l - m))
    <3>1. Spans(h, n - (l - m) + 1, n)
      BY <1>8, <2>2
    <3> QED BY <1>3, <2>2, <2>4, <3>1
  <2>6. n <= 2 * N
    BY <1>0, <1>4, <1>7, <2>2
  <2> QED BY <1>3, <2>2, <2>5, <2>6 DEF HoldsTwoTurns
<1>12. CASE e \in 1 .. Len(f) /\ StopsFirst(f, TRUE, e) /\ DropsAll(f, TRUE, e)
  <2>1. e > 2 * N
    BY <1>12 DEF DropsAll, NoTurnInSight
  <2>2. m <= e
    BY <1>0, <1>4, <2>1
  <2> QED BY <1>10, <2>2
<1>13. m <= e \/ e < m
  BY <1>0, <1>4
<1> QED BY <1>9, <1>10, <1>11, <1>12, <1>13 DEF StoppedAfter

\* The points of a read are in order, and within a revolution.
LEMMA ReadSpans ==
  ASSUME Types, LineOrder, ReadsWithinATurn, still = 0, line # <<>>,
         NEW f, f = Parse(line).points
  PROVE  Spans(f, Len(frame_tmp_) + 1, Len(f))
<1>0. Len(frame_tmp_) \in Nat /\ Len(Read) \in Nat /\ Len(line) \in Nat
  BY ParseIs, LenProperties DEF Types, PointTypes
<1>1. PICK d \in {0, 1} : /\ Len(Read) + d = Len(line)
                          /\ \A i \in 1 .. Len(Read) : Read[i] = line[i + d]
  <2>1. line \in Seq(Packet)
    BY DEF Types, PointTypes
  <2>2. CASE last_pkg_timestamp_
    <3>1. /\ Read = line /\ Len(Read) + 0 = Len(line)
          /\ \A i \in 1 .. Len(Read) : Read[i] = line[i + 0]
      BY <1>0, <2>2 DEF Read
    <3> QED BY <3>1
  <2>3. CASE ~last_pkg_timestamp_
    <3>1. /\ Len(Read) + 1 = Len(line)
          /\ \A i \in 1 .. Len(Read) : Read[i] = line[i + 1]
      BY <2>1, <2>3, HeadTailProperties DEF Read
    <3> QED BY <3>1
  <2> QED BY <2>2, <2>3
<1>2. /\ Len(f) = Len(frame_tmp_) + Len(Read)
      /\ \A i \in 1 .. Len(Read) : f[Len(frame_tmp_) + i] = Read[i].point
  BY ParseIs
<1>3. PICK m \in Nat, r \in Nat : m = Len(frame_tmp_) /\ r = Len(Read)
  BY <1>0
<1>4. ASSUME NEW i \in m + 1 .. Len(f)
      PROVE  i - m + d \in 1 .. Len(line) /\ f[i] = line[i - m + d].point
  <2>1. i - m \in 1 .. Len(Read) /\ Len(frame_tmp_) + (i - m) = i
    BY <1>2, <1>3
  <2>2. f[i] = Read[i - m].point
    BY <1>2, <2>1
  <2>3. Read[i - m] = line[i - m + d]
    BY <1>1, <2>1
  <2>4. i - m + d \in 1 .. Len(line)
    BY <1>0, <1>1, <2>1
  <2> QED BY <2>2, <2>3, <2>4
<1>5. ASSUME NEW i \in m + 1 .. Len(f), NEW j \in m + 1 .. Len(f), i < j
      PROVE  Pos(f[i]) < Pos(f[j]) /\ Pos(f[j]) < Pos(f[i]) + N
  <2>1. PICK k \in 1 .. Len(line), n \in 1 .. Len(line) :
          k < n /\ f[i] = line[k].point /\ f[j] = line[n].point
    <3>1. /\ i - m + d \in 1 .. Len(line) /\ f[i] = line[i - m + d].point
          /\ j - m + d \in 1 .. Len(line) /\ f[j] = line[j - m + d].point
      BY <1>4
    <3>2. i - m + d < j - m + d
      BY <1>2, <1>3, <1>5
    <3> QED BY <3>1, <3>2
  <2>2. Pos(f[i]) < Pos(f[j])
    BY <2>1 DEF LineOrder
  <2>3. Pos(f[j]) - Pos(f[i]) < N
    BY <2>1 DEF ReadsWithinATurn
  <2>4. f[i] \in Point /\ f[j] \in Point
    BY <2>1, TypesOfPoints
  <2>5. Pos(f[i]) \in Int /\ Pos(f[j]) \in Int /\ N \in Nat
    BY <2>4, PosOfPoint
  <2> QED BY <2>2, <2>3, <2>5
<1> QED BY <1>3, <1>5 DEF Spans

\* A callback keeps the limit.
LEMMA CallbackBounded ==
  ASSUME Types, Bounded, LineOrder, ReadsWithinATurn, CommReadCallback
  PROVE  Bounded'
<1>0. line # <<>> /\ still' = still /\ round' = round
  BY DEF CommReadCallback, history
<1>1. SUFFICES ASSUME still = 0
               PROVE  HoldsTwoTurns(frame_tmp_') /\ (Len(frame_tmp_') > 0 => speed_')
  BY <1>0 DEF Bounded, HoldsTwoTurns, Settled, Stops, CutsTurn, Filter
<1> DEFINE f == Parse(line).points
           v == Parse(line).speed
<1>2. /\ f \in Seq(Point) /\ v \in BOOLEAN /\ speed_' = v
      /\ \E c \in 0 .. Len(f) :
           EraseFront(f, c) /\ (Cuts(f, v, c) \/ Drops(f, v, c) \/ Waits(f, v, c))
  BY CallbackEffect
<1>3. /\ Len(f) = Len(frame_tmp_) + Len(Read)
      /\ \A i \in 1 .. Len(frame_tmp_) : f[i] = frame_tmp_[i]
      /\ v = IF Read = <<>> THEN speed_ ELSE Read[Len(Read)].turning
      /\ Read \in Seq(Packet)
      /\ \A i \in 1 .. Len(Read) : \E j \in 1 .. Len(line) : Read[i] = line[j]
  BY <1>0, ParseIs
<1>4. Spans(f, Len(frame_tmp_) + 1, Len(f))
  BY <1>0, <1>1, ReadSpans
<1> HIDE DEF f, v
<1>5. PICK c \in 0 .. Len(f) :
        EraseFront(f, c) /\ (Cuts(f, v, c) \/ Drops(f, v, c) \/ Waits(f, v, c))
  BY <1>2
<1>6. /\ frame_tmp_ \in Seq(Point) /\ Len(frame_tmp_) \in Nat /\ Len(Read) \in Nat
      /\ Len(f) \in Nat
  BY <1>2, <1>3, TypesOfPoints DEF Types, PointTypes
<1>7. /\ frame_tmp_' \in Seq(Point)
      /\ Len(frame_tmp_') = Len(f) - c
      /\ \A i \in 1 .. Len(f) - c : frame_tmp_'[i] = f[i + c]
      /\ \A i \in 2 .. Len(f) - c : Wrap(frame_tmp_', i) <=> Wrap(f, i + c)
  <2>1. /\ frame_tmp_' \in Seq(Point)
        /\ Len(frame_tmp_)' = Len(f) - c
        /\ \A i \in 1 .. Len(f) - c : frame_tmp_'[i] = f[i + c]
        /\ \A i \in 2 .. Len(f) - c : Wrap(frame_tmp_, i)' <=> Wrap(f, i + c)
    BY <1>2, <1>5, Erased
  <2> QED BY <2>1 DEF Wrap
<1>8. Len(f) > 0 => v
  <2>1. CASE Read = <<>>
    <3>1. Len(Read) = 0
      BY <2>1
    <3> QED BY <1>1, <1>3, <1>6, <2>1, <3>1 DEF Bounded
  <2>2. CASE Read # <<>>
    <3>1. Len(Read) \in 1 .. Len(Read)
      BY <1>3, <2>2, EmptySeq
    <3>2. PICK j \in 1 .. Len(line) : Read[Len(Read)] = line[j]
      BY <1>3, <3>1
    <3>3. line[j].turning
      BY <1>1 DEF LineOrder
    <3> QED BY <1>3, <2>2, <3>2, <3>3
  <2> QED BY <2>1, <2>2
<1>9. CASE Len(f) = 0
  <2>1. Len(frame_tmp_') = 0
    <3>1. c = 0
      <4>1. c \in 0 .. 0
        BY <1>9
      <4> QED BY <4>1
    <3>2. Len(frame_tmp_') = Len(f) - c
      BY <1>7
    <3>3. Len(frame_tmp_') = 0 - 0
      BY <1>9, <3>1, <3>2
    <3> QED BY <3>3
  <2>2. Len(frame_tmp_') <= 2 * N
    BY <2>1, NAssumption
  <2>3. /\ Spans(frame_tmp_', Len(frame_tmp_') - 0 + 1, Len(frame_tmp_'))
        /\ Settled(frame_tmp_', Len(frame_tmp_') - 0)
    BY <2>1 DEF Spans, Settled
  <2>4. 0 \in 0 .. Len(frame_tmp_')
    BY <2>1
  <2> QED BY <2>1, <2>2, <2>3, <2>4 DEF HoldsTwoTurns
<1>10. CASE Len(f) # 0
  <2>1. v = TRUE
    BY <1>2, <1>6, <1>8, <1>10
  <2>2. StoppedAfter(f, c)
    <3>1. CASE Cuts(f, v, c)
      BY <2>1, <3>1 DEF Cuts, CutsTurn, StoppedAfter
    <3>2. CASE Drops(f, v, c)
      BY <2>1, <3>2 DEF Drops, DropsTurn, StoppedAfter
    <3>3. CASE Waits(f, v, c)
      BY <2>1, <3>3 DEF Waits, StoppedAfter, Settled
    <3> QED BY <1>5, <3>1, <3>2, <3>3
  <2>3. HoldsTwoTurns(frame_tmp_)
    BY <1>1 DEF Bounded
  <2>4. HoldsTwoTurns(frame_tmp_')
    <3> DEFINE h == frame_tmp_'
    <3>1. /\ h \in Seq(Point) /\ Len(h) = Len(f) - c
          /\ \A i \in 1 .. Len(f) - c : h[i] = f[i + c]
          /\ \A i \in 2 .. Len(f) - c : Wrap(h, i) <=> Wrap(f, i + c)
      BY <1>7
    <3>2. Len(frame_tmp_) <= Len(f)
      BY <1>3, <1>6
    <3> HIDE DEF h
    <3>3. HoldsTwoTurns(h)
      BY <1>2, <1>3, <1>4, <1>6, <2>2, <2>3, <3>1, <3>2, HoldsAfterErase
    <3> QED BY <3>3 DEF h
  <2> QED BY <1>2, <2>1, <2>4
<1> QED BY <1>9, <1>10

\* So does what leaves frame_tmp_ alone.
LEMMA UnchangedBounded ==
  ASSUME Bounded, still' = still, UNCHANGED <<frame_tmp_, speed_, round>>
  PROVE  Bounded'
BY DEF Bounded, HoldsTwoTurns, Settled, Stops, CutsTurn, Filter

\* At first nothing waits.
LEMMA InitBounded ==
  ASSUME Init
  PROVE  Bounded /\ LineOrder
<1>1. Len(frame_tmp_) = 0 /\ Len(line) = 0
  BY DEF Init
<1>2. LineOrder
  BY <1>1 DEF LineOrder
<1>3. /\ Spans(frame_tmp_, Len(frame_tmp_) - 0 + 1, Len(frame_tmp_))
      /\ Settled(frame_tmp_, Len(frame_tmp_) - 0)
  BY <1>1 DEF Spans, Settled
<1>4. 0 \in 0 .. Len(frame_tmp_) /\ Len(frame_tmp_) <= 2 * N /\ ~(Len(frame_tmp_) > 0)
  BY <1>1, NAssumption
<1>5. HoldsTwoTurns(frame_tmp_)
  BY <1>3, <1>4 DEF HoldsTwoTurns
<1> QED BY <1>2, <1>4, <1>5 DEF Bounded

\* A motor that stood once stood.
LEMMA StillStands ==
  ASSUME Types, MeasureStanding
  PROVE  still' # 0
<1>1. still \in Nat /\ still' = still + 1
  BY BoundAssumption DEF Types, CountTypes, MeasureStanding
<1> QED BY <1>1

\* A point that is measured is ahead of what waits on the line.
LEMMA MeasureLineOrder ==
  ASSUME Types, LineOrder, Measure
  PROVE  LineOrder'
<1>1. /\ next # <<>> /\ next' = After(next) /\ still' = still
      /\ line' = Append(line, [point |-> next, turning |-> TRUE])
  BY DEF Measure, history
<1>2. SUFFICES ASSUME still = 0
               PROVE  /\ \A i, j \in 1 .. Len(line') : i < j =>
                           Pos(line'[i].point) < Pos(line'[j].point)
                      /\ \A i \in 1 .. Len(line') :
                           Pos(line'[i].point) < NextPos' /\ line'[i].turning
  BY <1>1 DEF LineOrder
<1>3. /\ Len(line') = Len(line) + 1 /\ Len(line) \in Nat
      /\ \A i \in 1 .. Len(line) : line'[i] = line[i]
      /\ line'[Len(line) + 1] = [point |-> next, turning |-> TRUE]
  BY <1>1, LineGrows, TypesOfPoints
<1>4. NextPos' = NextPos + 1 /\ NextPos = Pos(next) /\ NextPos \in Int
  <2>1. next \in Point
    BY <1>1, TypesOfPoints
  <2> QED BY <1>1, <2>1, NextPosGrows, PosOfPoint DEF NextPos
<1>5. ASSUME NEW i \in 1 .. Len(line)
      PROVE  /\ Pos(line'[i].point) \in Int /\ Pos(line'[i].point) < NextPos
             /\ line'[i].turning
  <2>1. line[i].point \in Point
    BY TypesOfPoints
  <2> QED BY <1>2, <1>3, <2>1, PosOfPoint DEF LineOrder
<1>6. Pos(line'[Len(line) + 1].point) = NextPos /\ line'[Len(line) + 1].turning
  BY <1>3, <1>4
<1>7. PICK n \in Nat : n = Len(line)
  BY <1>3
<1>8. ASSUME NEW i \in 1 .. Len(line'), NEW j \in 1 .. Len(line'), i < j
      PROVE  Pos(line'[i].point) < Pos(line'[j].point)
  <2>1. i \in 1 .. n /\ (j \in 1 .. n \/ j = n + 1)
    BY <1>3, <1>7, <1>8
  <2>2. CASE j \in 1 .. n
    BY <1>2, <1>3, <1>7, <1>8, <2>1, <2>2 DEF LineOrder
  <2>3. CASE j = n + 1
    BY <1>5, <1>6, <1>7, <2>1, <2>3
  <2> QED BY <2>1, <2>2, <2>3
<1>9. ASSUME NEW i \in 1 .. Len(line')
      PROVE  Pos(line'[i].point) < NextPos' /\ line'[i].turning
  <2>1. i \in 1 .. n \/ i = n + 1
    BY <1>3, <1>7
  <2>2. CASE i \in 1 .. n
    BY <1>4, <1>5, <1>7, <2>2
  <2>3. CASE i = n + 1
    BY <1>4, <1>6, <1>7, <2>3
  <2> QED BY <2>1, <2>2, <2>3
<1> QED BY <1>8, <1>9

\* Every step keeps the order of the line.
LEMMA NextLineOrder ==
  ASSUME Types, LineOrder, [Next]_vars
  PROVE  LineOrder'
<1>1. CASE Measure
  BY <1>1, MeasureLineOrder
<1>2. CASE MeasureStanding
  BY <1>2, StillStands DEF LineOrder
<1>3. CASE LosePacket
  <2>1. /\ next # <<>> /\ next' = After(next) /\ still' = still /\ line' = line
    BY <1>3 DEF LosePacket
  <2>2. NextPos' = NextPos + 1 /\ NextPos \in Int
    <3>1. next \in Point
      BY <2>1, TypesOfPoints
    <3> QED BY <2>1, <3>1, NextPosGrows, PosOfPoint DEF NextPos
  <2>3. \A i \in 1 .. Len(line) : Pos(line[i].point) \in Int
    BY TypesOfPoints, PosOfPoint
  <2>4. \A i \in 1 .. Len(line) : Pos(line[i].point) < NextPos => Pos(line[i].point) < NextPos'
    BY <2>2, <2>3
  <2>5. CASE still = 0
    <3>1. \A i \in 1 .. Len(line) : Pos(line[i].point) < NextPos' /\ line[i].turning
      BY <2>4, <2>5 DEF LineOrder
    <3> QED BY <2>1, <2>5, <3>1 DEF LineOrder
  <2>6. CASE still # 0
    BY <2>1, <2>6 DEF LineOrder
  <2> QED BY <2>5, <2>6
<1>4. CASE CommReadCallback \/ Restart
  <2>1. Len(line') = 0
    <3>1. line' = <<>>
      BY <1>4 DEF CommReadCallback, Restart
    <3> QED BY <3>1
  <2>2. 1 .. Len(line') = {}
    BY <2>1
  <2> QED BY <2>2 DEF LineOrder
<1>5. CASE UNCHANGED vars
  <2>1. still' = still /\ line' = line /\ next' = next
    BY <1>5 DEF vars, history
  <2> QED BY <2>1 DEF LineOrder, NextPos, Pos
<1> QED BY <1>1, <1>2, <1>3, <1>4, <1>5 DEF Next

\* Every step keeps the limit, when the reads come within a revolution.
LEMMA NextBounded ==
  ASSUME Types, Bounded, LineOrder, ReadsWithinATurn, [Next]_vars
  PROVE  Bounded'
<1>1. CASE Measure
  BY <1>1, UnchangedBounded DEF Measure, history, parser
<1>2. CASE MeasureStanding
  BY <1>2, StillStands DEF Bounded
<1>3. CASE LosePacket
  BY <1>3, UnchangedBounded DEF LosePacket, parser
<1>4. CASE CommReadCallback
  BY <1>4, CallbackBounded
<1>5. CASE Restart
  BY <1>5, UnchangedBounded DEF Restart
<1>6. CASE UNCHANGED vars
  BY <1>6, UnchangedBounded DEF vars, history, parser
<1> QED BY <1>1, <1>2, <1>3, <1>4, <1>5, <1>6 DEF Next

\* Repeated and wrapping points are counted by numbers.
LEMMA CountsAreNumbers ==
  ASSUME NEW f, Len(f) \in Nat
  PROVE  Cardinality(Repeats(f)) \in Nat /\ Cardinality(Wraps(f)) \in Nat
<1>1. IsFiniteSet(1 .. Len(f))
  BY FS_Interval
<1>2. Repeats(f) \subseteq 1 .. Len(f) /\ Wraps(f) \subseteq 1 .. Len(f)
  BY DEF Repeats, Wraps
<1>3. IsFiniteSet(Repeats(f)) /\ IsFiniteSet(Wraps(f))
  BY <1>1, <1>2, FS_Subset
<1> QED BY <1>3, FS_CardinalityType

\* So what waits is bounded.
LEMMA BoundedImplies ==
  ASSUME Types, Bounded, still = 0
  PROVE  Len(frame_tmp_) <= 2 * N /\ BufferBounded
<1>1. Len(frame_tmp_) \in Nat /\ N \in Nat
  BY TypesOfPoints, NAssumption
<1>2. Len(frame_tmp_) <= 2 * N
  BY DEF Bounded, HoldsTwoTurns
<1>3. PICK r \in Nat, w \in Nat :
        r = Cardinality(Repeats(frame_tmp_)) /\ w = Cardinality(Wraps(frame_tmp_))
  BY <1>1, CountsAreNumbers
<1>4. w * N \in Nat
  BY <1>1
<1>5. (2 + w) * N = 2 * N + w * N
  BY <1>1
<1>6. Len(frame_tmp_) - r <= (2 + w) * N
  BY <1>1, <1>2, <1>4, <1>5
<1> QED BY <1>2, <1>3, <1>6 DEF BufferBounded

-----------------------------------------------------------------------------
(* The theorems.                                                              *)

IInv == Types /\ Behind /\ OldFirst /\ CleanSoFar /\ OnTrack

\* The invariant holds at first.
LEMMA InitIInv == Init => IInv
<1> SUFFICES ASSUME Init PROVE IInv
  OBVIOUS
<1>1. FlagTypes
  BY DEF Init, FlagTypes, NoneEmptied
<1>2. SensorTypes
  <2>1. next \in Point /\ next.turn = 1 /\ start = 1 /\ motor = "turning" /\ round \subseteq Turn
    BY DEF Init
  <2>2. next.turn \in Turn
    BY <2>1 DEF Point
  <2> QED BY <2>1, <2>2 DEF SensorTypes
<1>3. CountTypes
  BY BoundAssumption DEF Init, CountTypes
<1>4. PointTypes
  BY BoundAssumption, EmptySeq
  DEF Init, PointTypes, PointBag, IsABag, BagToSet, EmptyBag, SetToBag
<1>5. Behind /\ OldFirst /\ CleanSoFar /\ OnTrack
  BY InitBehind, InitOldFirst, InitCleanSoFar, InitOnTrack
<1> QED BY <1>1, <1>2, <1>3, <1>4, <1>5 DEF IInv, Types

\* The invariant is inductive.
LEMMA NextIInv == IInv /\ [Next]_vars => IInv'
<1> SUFFICES ASSUME IInv, [Next]_vars PROVE IInv'
  OBVIOUS
<1>1. Types'
  BY NextTypes DEF IInv
<1>2. Behind'
  BY <1>1, NextBehind DEF IInv
<1>3. OldFirst'
  BY NextOldFirst DEF IInv
<1>4. CleanSoFar'
  BY NextCleanSoFar DEF IInv
<1>5. OnTrack'
  BY NextOnTrack DEF IInv
<1> QED BY <1>1, <1>2, <1>3, <1>4, <1>5 DEF IInv

\* The invariant always holds.
LEMMA SpecIInv == Spec => []IInv
BY InitIInv, NextIInv, PTL DEF Spec

\* Every variable keeps its type: in particular nothing but points of the sensor
\* ever reaches frame_tmp_ or a scan, through parsing, cutting and filtering.
THEOREM TypeCorrect == Spec => []TypeOK
<1>1. IInv => TypeOK
  BY DEF IInv, Types, FlagTypes, SensorTypes, CountTypes, PointTypes, PointBag, TypeOK
<1> QED BY <1>1, SpecIInv, PTL

\* A scan that is published holds points of one revolution, however many points a
\* revolution has and however the line cuts the packets into reads, as long as
\* fewer than 0.4 revolutions of packets were lost (lipkg.cpp:227, :240, :249).
THEOREM OneTurnPerScanHolds == Spec => OneTurnPerScan
<1>1. IInv /\ [Next]_vars =>
        [laser_scan_data_' # laser_scan_data_ /\ ~backlog /\ speed_' /\ FewLost =>
           OneTurn(BagToSet(laser_scan_data_'))]_vars
  BY StepPublishesOneTurn DEF IInv
<1> QED BY <1>1, SpecIInv, PTL DEF Spec, OneTurnPerScan

\* A session publishes points of an earlier one only if that one was stopped with
\* a whole revolution in frame_tmp_, whatever the sizes of the reads and the
\* revolutions, and whatever is lost (lipkg.cpp:260).
THEOREM OldPointsOnlyFromBacklogHolds == Spec => OldPointsOnlyFromBacklog
<1>1. IInv /\ [Next]_vars =>
        [laser_scan_data_' # laser_scan_data_ =>
           backlog \/ \A p \in BagToSet(laser_scan_data_') : p.turn >= start]_vars
  BY StepPublishesNew DEF IInv
<1> QED BY <1>1, SpecIInv, PTL DEF Spec, OldPointsOnlyFromBacklog

\* In a session without losses every revolution is published with each of its
\* points once, and what waits after a scan is the next revolution from its first point on, however the
\* line cuts the packets into reads (lipkg.cpp:269-275).
THEOREM NoTurnSkippedHolds == Spec => []NoTurnSkipped
<1>1. IInv => NoTurnSkipped
  BY DEF IInv, CleanSoFar, AtTurn, ScanThenTurn, NoTurnSkipped
<1> QED BY <1>1, SpecIInv, PTL

\* When the receive thread reads before a revolution has gone by, and the motor has
\* not stood, frame_tmp_ holds at most two revolutions of points between two
\* callbacks, whatever is lost, in however many sessions: a sensor that turns cannot
\* fill the memory by losing its wraps (lipkg.cpp:227, :280).
THEOREM TwoTurnsAtMost ==
  Spec /\ []ReadsWithinATurn => [](still = 0 => Len(frame_tmp_) <= 2 * N)
<1> DEFINE J == IInv /\ Bounded /\ LineOrder
<1>1. Init => J
  BY InitIInv, InitBounded
<1>2. J /\ ReadsWithinATurn /\ [Next]_vars => J'
  BY NextIInv, NextBounded, NextLineOrder DEF IInv
<1>3. J => (still = 0 => Len(frame_tmp_) <= 2 * N)
  BY BoundedImplies DEF IInv
<1> HIDE DEF J
<1> QED BY <1>1, <1>2, <1>3, PTL DEF Spec

\* Under the same condition the limit of the run holds for revolutions of any number
\* of points and for any number of losses.
THEOREM BufferBoundedHolds ==
  Spec /\ []ReadsWithinATurn => [](still = 0 => BufferBounded)
<1> DEFINE J == IInv /\ Bounded /\ LineOrder
<1>1. Init => J
  BY InitIInv, InitBounded
<1>2. J /\ ReadsWithinATurn /\ [Next]_vars => J'
  BY NextIInv, NextBounded, NextLineOrder DEF IInv
<1>3. J => (still = 0 => BufferBounded)
  BY BoundedImplies DEF IInv
<1> HIDE DEF J
<1> QED BY <1>1, <1>2, <1>3, PTL DEF Spec

==============================================================================
