---------------------------- MODULE ScanPathProofs ----------------------------
(***************************************************************************)
(* What becomes of a revolution on its way to ROS, for revolutions of any   *)
(* size, any values and any number of beams.                                *)
(*                                                                          *)
(* The state is simple - each stage holds what the one before has made - so *)
(* the work is in the operators: sorting, selecting and flattening, the     *)
(* groups of NearFilter, and the loop of publishLaserScan.  Each is defined *)
(* by counting or by a recursive function, and an induction over numbers    *)
(* gives what it computes.  The filter is followed with a permutation: the  *)
(* place in the scan from which each point was taken.  The order that the   *)
(* stamps give the points afterwards is any: what matters of them is which  *)
(* there are and, where places are compared, their order by angle.          *)
(*                                                                          *)
(* That it does not matter where the revolution begins is shown on the      *)
(* circle of near points, in which each is linked to the one before it or   *)
(* not, the first to the last.  What NearFilter collects and joins are the  *)
(* arcs between the points that are not linked.  A revolution that begins   *)
(* elsewhere lists the same points from another one on: the links, so the   *)
(* arcs, so what becomes of each point are the same.                        *)
(***************************************************************************)
EXTENDS ScanPath, FiniteSetTheorems, SequenceTheorems, TLAPS

-----------------------------------------------------------------------------
(* Numbers, sequences and sets.                                               *)

\* A set of numbers has a least one.
LEMMA Least ==
  ASSUME NEW T, T \subseteq Nat, T # {}
  PROVE  \E m \in T : \A k \in T : m <= k
<1> DEFINE R == OpToRel(<, Nat)
<1>1. IsWellFoundedOn(R, Nat)
  BY NatLessThanWellFounded
<1>2. PICK m \in T : \A k \in T : ~ (<<k, m>> \in R)
  <2> HIDE DEF R
  <2> QED BY <1>1, WFMin
<1>3. ASSUME NEW k \in T PROVE m <= k
  <2>1. <<k, m>> \in Nat \X Nat
    OBVIOUS
  <2>2. ~(k < m)
    BY <1>2, <2>1 DEF OpToRel
  <2> QED BY <2>2
<1> QED BY <1>3

\* What holds of 0, and of k + 1 when of k, holds up to n.
LEMMA Induction ==
  ASSUME NEW S, NEW n \in Nat, 0 \in S,
         \A k \in 0 .. n - 1 : k \in S => k + 1 \in S
  PROVE  \A k \in 0 .. n : k \in S
<1> DEFINE T == {k \in 0 .. n : k \notin S}
<1> SUFFICES ASSUME T # {} PROVE FALSE
  OBVIOUS
<1>1. PICK m \in T : \A k \in T : m <= k
  <2>1. T \subseteq Nat
    OBVIOUS
  <2> HIDE DEF T
  <2> QED BY <2>1, Least
<1>2. m - 1 \in 0 .. n - 1 /\ m - 1 \notin T
  BY <1>1
<1> QED BY <1>2

\* A function on 1..n is a sequence of length n.
LEMMA FunctionIsSeq ==
  ASSUME NEW S, NEW n \in Nat, NEW f \in [1..n -> S]
  PROVE  f \in Seq(S) /\ Len(f) = n
<1>1. f \in Seq(S)
  BY SeqDef
<1>2. Len(f) \in Nat /\ DOMAIN f = 1..Len(f) /\ DOMAIN f = 1..n
  BY <1>1, LenProperties
<1> QED BY <1>1, <1>2

\* What counts the elements of S injectively from 1 on takes every number.
LEMMA CountsAll ==
  ASSUME NEW S, IsFiniteSet(S), NEW c \in [S -> 1..Cardinality(S)],
         \A i, j \in S : c[i] = c[j] => i = j
  PROVE  \A k \in 1..Cardinality(S) : \E i \in S : c[i] = k
<1>1. c \in Injection(S, 1..Cardinality(S))
  BY DEF Injection, IsInjective
<1>2. /\ IsFiniteSet(1..Cardinality(S))
      /\ Cardinality(1..Cardinality(S)) = Cardinality(S)
  <2>1. Cardinality(S) \in Nat
    BY FS_CardinalityType
  <2> QED BY <2>1, FS_Interval
<1>3. c \in Surjection(S, 1..Cardinality(S))
  BY <1>1, <1>2, FS_Injection
<1> QED BY <1>3 DEF Surjection

-----------------------------------------------------------------------------
(* Ordered.                                                                   *)

UpTo(S, i) == {j \in S : j <= i}

\* An element is one of those up to it, of which there are not more than all.
LEMMA UpToCount ==
  ASSUME NEW S, S \subseteq Int, IsFiniteSet(S), NEW i \in S
  PROVE  /\ IsFiniteSet(UpTo(S, i))
         /\ Cardinality(UpTo(S, i)) \in 1..Cardinality(S)
<1>1. UpTo(S, i) \subseteq S /\ i \in UpTo(S, i)
  <2>1. i \in Int
    OBVIOUS
  <2> QED BY <2>1 DEF UpTo
<1>2. IsFiniteSet(UpTo(S, i)) /\ Cardinality(UpTo(S, i)) <= Cardinality(S)
  BY <1>1, FS_Subset
<1>3. Cardinality(UpTo(S, i)) \in Nat /\ Cardinality(UpTo(S, i)) # 0
  BY <1>1, <1>2, FS_CardinalityType, FS_EmptySet
<1>4. Cardinality(S) \in Nat
  BY FS_CardinalityType
<1> QED BY <1>2, <1>3, <1>4

\* There are fewer up to a smaller element.
LEMMA UpToGrows ==
  ASSUME NEW S, S \subseteq Int, IsFiniteSet(S), NEW i \in S, NEW j \in S, i < j
  PROVE  Cardinality(UpTo(S, i)) < Cardinality(UpTo(S, j))
<1>1. UpTo(S, i) \subseteq UpTo(S, j) /\ j \in UpTo(S, j) /\ j \notin UpTo(S, i)
  <2>1. i \in Int /\ j \in Int /\ \A k \in S : k \in Int
    OBVIOUS
  <2>2. \A k \in S : k <= i => k <= j
    BY <2>1
  <2>3. ~(j <= i) /\ j <= j
    BY <2>1
  <2> QED BY <2>2, <2>3 DEF UpTo
<1>2. /\ Cardinality(UpTo(S, i)) <= Cardinality(UpTo(S, j))
      /\ Cardinality(UpTo(S, i)) # Cardinality(UpTo(S, j))
  BY <1>1, UpToCount, FS_Subset
<1>3. Cardinality(UpTo(S, i)) \in Int /\ Cardinality(UpTo(S, j)) \in Int
  <2>1. /\ Cardinality(UpTo(S, i)) \in 1..Cardinality(S)
        /\ Cardinality(UpTo(S, j)) \in 1..Cardinality(S)
    BY UpToCount
  <2> QED BY <2>1
<1> QED BY <1>2, <1>3

\* Ordered(S) is the elements of S, each once and in order.
LEMMA OrderedIs ==
  ASSUME NEW S, S \subseteq Int, IsFiniteSet(S)
  PROVE  /\ Cardinality(S) \in Nat
         /\ Ordered(S) \in [1..Cardinality(S) -> S]
         /\ \A k, l \in 1..Cardinality(S) :
              k < l => Ordered(S)[k] < Ordered(S)[l]
         /\ \A i \in S : \E k \in 1..Cardinality(S) : Ordered(S)[k] = i
<1> DEFINE n == Cardinality(S)
           c == [i \in S |-> Cardinality(UpTo(S, i))]
           from(k) == CHOOSE i \in S : Cardinality({j \in S : j <= i}) = k
<1>1. n \in Nat
  BY FS_CardinalityType
<1>2. c \in [S -> 1..n] /\ \A i \in S : c[i] = Cardinality(UpTo(S, i))
  BY UpToCount
<1>3. \A i, j \in S : i < j => c[i] < c[j]
  BY UpToGrows
<1>4. \A k \in 1..n : from(k) = CHOOSE i \in S : c[i] = k
  <2> SUFFICES ASSUME NEW k \in 1..n
               PROVE  from(k) = CHOOSE i \in S : c[i] = k
    OBVIOUS
  <2>1. \A i \in S : Cardinality({j \in S : j <= i}) = c[i]
    BY DEF UpTo
  <2> HIDE DEF c
  <2> QED BY <2>1, Zenon
<1>5. Ordered(S) = [k \in 1..n |-> from(k)]
  BY DEF Ordered
<1> HIDE DEF c
<1>6. \A i, j \in S : c[i] = c[j] => i = j
  <2> SUFFICES ASSUME NEW i \in S, NEW j \in S, c[i] = c[j], i # j PROVE FALSE
    OBVIOUS
  <2>1. i \in Int /\ j \in Int /\ c[i] \in Int /\ c[j] \in Int
    BY <1>1, <1>2
  <2> QED BY <1>3, <2>1
<1>7. \A k \in 1..n : \E i \in S : c[i] = k
  BY <1>2, <1>6, CountsAll
<1>8. \A k \in 1..n : from(k) \in S /\ c[from(k)] = k
  <2> HIDE DEF n, from
  <2> QED BY <1>4, <1>7
<1> HIDE DEF n, from
<1>9. ASSUME NEW k \in 1..n, NEW l \in 1..n, k < l PROVE from(k) < from(l)
  <2>1. from(k) \in Int /\ from(l) \in Int
    BY <1>8
  <2>2. ~(from(l) < from(k)) /\ from(k) # from(l)
    <3>1. c[from(k)] = k /\ c[from(l)] = l /\ k \in Int /\ l \in Int
      BY <1>1, <1>8
    <3>2. from(k) \in S /\ from(l) \in S
      BY <1>8
    <3>3. from(l) < from(k) => l < k
      BY <1>3, <3>1, <3>2
    <3> QED BY <1>1, <1>9, <3>1, <3>3
  <2> QED BY <2>1, <2>2
<1>10. ASSUME NEW i \in S PROVE \E k \in 1..n : from(k) = i
  <2>1. c[i] \in 1..n
    BY <1>2
  <2>2. from(c[i]) \in S /\ c[from(c[i])] = c[i]
    BY <1>8, <2>1
  <2> QED BY <1>6, <2>1, <2>2
<1> QED BY <1>1, <1>5, <1>8, <1>9, <1>10 DEF n

-----------------------------------------------------------------------------
(* ByAngle.                                                                   *)

\* What a point holds, and a zeroed one.
LEMMA PointIs ==
  ASSUME NEW p \in Point
  PROVE  /\ p.angle \in 0..Turn - 1 /\ p.angle \in Int
         /\ p.distance \in Nat /\ p.intensity \in Nat
         /\ Zeroed(p) \in Point /\ Zeroed(p).angle = p.angle
<1>1. p.angle \in 0..Turn - 1 /\ p.distance \in Nat /\ p.intensity \in 0..255
  BY DEF Point
<1>2. p.angle \in Int
  BY <1>1, TurnAssumption
<1>3. Zeroed(p) = [angle |-> p.angle, distance |-> 0, intensity |-> 0]
  <2>1. p \in [angle : 0..Turn - 1, distance : Nat, intensity : 0..255]
    BY DEF Point
  <2>2. [p EXCEPT !.distance = 0, !.intensity = 0]
          = [angle |-> p.angle, distance |-> 0, intensity |-> 0]
    <3>1. DOMAIN p = {"angle", "distance", "intensity"}
      BY <2>1
    <3> DEFINE z == [p EXCEPT !.distance = 0, !.intensity = 0]
               r == [angle |-> p.angle, distance |-> 0, intensity |-> 0]
    <3>2. /\ DOMAIN z = {"angle", "distance", "intensity"}
          /\ z = [x \in DOMAIN z |-> z[x]]
          /\ z.angle = p.angle /\ z.distance = 0 /\ z.intensity = 0
      BY <3>1
    <3>3. /\ DOMAIN r = {"angle", "distance", "intensity"}
          /\ r = [x \in DOMAIN r |-> r[x]]
          /\ r.angle = p.angle /\ r.distance = 0 /\ r.intensity = 0
      OBVIOUS
    <3> HIDE DEF z, r
    <3>4. z = r
      BY <3>2, <3>3
    <3> QED BY <3>4 DEF z, r
  <2> QED BY <2>2 DEF Zeroed
<1> QED BY <1>1, <1>2, <1>3 DEF Point

\* As for the elements of a set, so for the points by angle.
LEMMA UptoAngleCount ==
  ASSUME NEW s \in Seq(Point), NEW i \in 1..Len(s)
  PROVE  /\ IsFiniteSet(UptoAngle(s, i))
         /\ Cardinality(UptoAngle(s, i)) \in 1..Len(s)
<1>1. IsFiniteSet(1..Len(s)) /\ Cardinality(1..Len(s)) = Len(s)
  <2>1. Len(s) \in Nat /\ 1 \in Int
    OBVIOUS
  <2> QED BY <2>1, FS_Interval
<1>2. UptoAngle(s, i) \subseteq 1..Len(s) /\ i \in UptoAngle(s, i)
  BY DEF UptoAngle
<1>3. IsFiniteSet(UptoAngle(s, i)) /\ Cardinality(UptoAngle(s, i)) <= Len(s)
  BY <1>1, <1>2, FS_Subset
<1>4. Cardinality(UptoAngle(s, i)) \in Nat /\ Cardinality(UptoAngle(s, i)) # 0
  BY <1>2, <1>3, FS_CardinalityType, FS_EmptySet
<1> QED BY <1>3, <1>4

\* There are fewer points up to a smaller angle, or to an earlier one at the same.
LEMMA UptoAngleGrows ==
  ASSUME NEW s \in Seq(Point), NEW i \in 1..Len(s), NEW j \in 1..Len(s),
         i # j, i \in UptoAngle(s, j)
  PROVE  Cardinality(UptoAngle(s, i)) < Cardinality(UptoAngle(s, j))
<1>1. \A k \in 1..Len(s) : s[k].angle \in Int
  <2> SUFFICES ASSUME NEW k \in 1..Len(s) PROVE s[k].angle \in Int
    OBVIOUS
  <2>1. s[k] \in Point
    BY ElementOfSeq
  <2> QED BY <2>1, PointIs
<1>2. UptoAngle(s, i) \subseteq UptoAngle(s, j)
  BY <1>1 DEF UptoAngle, SmallerAngle
<1>3. j \in UptoAngle(s, j) /\ j \notin UptoAngle(s, i)
  BY <1>1 DEF UptoAngle, SmallerAngle
<1>4. /\ Cardinality(UptoAngle(s, i)) <= Cardinality(UptoAngle(s, j))
      /\ Cardinality(UptoAngle(s, i)) # Cardinality(UptoAngle(s, j))
  BY <1>2, <1>3, UptoAngleCount, FS_Subset
<1> QED BY <1>4, UptoAngleCount

\* Of two points one has the other among those up to it.
LEMMA UptoAngleTotal ==
  ASSUME NEW s \in Seq(Point), NEW i \in 1..Len(s), NEW j \in 1..Len(s)
  PROVE  i \in UptoAngle(s, j) \/ j \in UptoAngle(s, i)
<1>1. s[i].angle \in Int /\ s[j].angle \in Int
  <2>1. s[i] \in Point /\ s[j] \in Point
    BY ElementOfSeq
  <2> QED BY <2>1, PointIs
<1> QED BY <1>1 DEF UptoAngle, SmallerAngle

\* A sorted sequence has each element at the place that is its number.
LEMMA ByAngleIs ==
  ASSUME NEW s \in Seq(Point)
  PROVE  /\ ByAngle(s) \in Seq(Point)
         /\ Len(ByAngle(s)) = Len(s)
         /\ \A k \in 1..Len(s) : \E i \in 1..Len(s) :
              Cardinality(UptoAngle(s, i)) = k /\ ByAngle(s)[k] = s[i]
<1> DEFINE n == Len(s)
           c == [i \in 1..n |-> Cardinality(UptoAngle(s, i))]
           from(k) == CHOOSE i \in 1..n : Cardinality(UptoAngle(s, i)) = k
<1>1. /\ n \in Nat /\ \A i \in 1..n : s[i] \in Point
      /\ IsFiniteSet(1..n) /\ Cardinality(1..n) = n
  <2>1. n \in Nat /\ 1 \in Int
    OBVIOUS
  <2>2. IsFiniteSet(1..n) /\ Cardinality(1..n) = n
    BY <2>1, FS_Interval
  <2> QED BY <2>1, <2>2, ElementOfSeq
<1>2. c \in [1..n -> 1..Cardinality(1..n)]
  BY <1>1, UptoAngleCount
<1>3. ASSUME NEW i \in 1..n, NEW j \in 1..n, c[i] = c[j] PROVE i = j
  <2> SUFFICES ASSUME i # j PROVE FALSE
    OBVIOUS
  <2>1. c[i] = Cardinality(UptoAngle(s, i)) /\ c[j] = Cardinality(UptoAngle(s, j))
    OBVIOUS
  <2>2. c[i] \in Int
    BY <2>1, UptoAngleCount
  <2> HIDE DEF c
  <2>3. c[i] < c[j] \/ c[j] < c[i]
    BY <2>1, UptoAngleTotal, UptoAngleGrows
  <2> QED BY <1>3, <2>2, <2>3
<1>4. \A k \in 1..n : \E i \in 1..n : c[i] = k
  <2> HIDE DEF c, n
  <2>1. \A k \in 1..Cardinality(1..n) : \E i \in 1..n : c[i] = k
    BY <1>1, <1>2, <1>3, CountsAll
  <2> QED BY <1>1, <2>1
<1>5. \A k \in 1..n : from(k) \in 1..n /\ Cardinality(UptoAngle(s, from(k))) = k
  <2> SUFFICES ASSUME NEW k \in 1..n
               PROVE  from(k) \in 1..n /\ Cardinality(UptoAngle(s, from(k))) = k
    OBVIOUS
  <2>1. \E i \in 1..n : Cardinality(UptoAngle(s, i)) = k
    BY <1>4
  <2> QED BY <2>1
<1>6. ByAngle(s) = [k \in 1..n |-> s[from(k)]]
  BY DEF ByAngle
<1> HIDE DEF from, n
<1>7. ByAngle(s) \in [1..n -> Point]
  BY <1>1, <1>5, <1>6
<1>8. ByAngle(s) \in Seq(Point) /\ Len(ByAngle(s)) = n
  BY <1>1, <1>7, FunctionIsSeq
<1>9. \A k \in 1..n : ByAngle(s)[k] = s[from(k)]
  BY <1>6
<1> QED BY <1>5, <1>8, <1>9 DEF n

\* In order of angle, every angle once.
Increasing(s) == \A i, j \in 1..Len(s) : i < j => s[i].angle < s[j].angle

\* t has the points of s at other places: t[j] is where m[j] was.
Permutes(m, n) ==
  /\ m \in [1..n -> 1..n]
  /\ \A k \in 1..n : \E j \in 1..n : m[j] = k
TakenFrom(t, s, m) ==
  /\ Len(t) = Len(s)
  /\ \A j \in 1..Len(s) : t[j].angle = s[m[j]].angle

\* Sorting brings points that were put at other places back to theirs.
LEMMA ByAngleRestores ==
  ASSUME NEW s \in Seq(Point), Increasing(s), NEW t \in Seq(Point),
         NEW m, Permutes(m, Len(s)), TakenFrom(t, s, m)
  PROVE  \A k \in 1..Len(s) : \E j \in 1..Len(s) :
           m[j] = k /\ ByAngle(t)[k] = t[j]
<1>0. PICK n \in Nat : n = Len(s)
  BY LenProperties
<1> SUFFICES ASSUME Len(s) = n, Len(t) = n, m \in [1..n -> 1..n],
                    \A k \in 1..n : \E j \in 1..n : m[j] = k,
                    \A j \in 1..n : t[j].angle = s[m[j]].angle
             PROVE  \A k \in 1..n : \E j \in 1..n : m[j] = k /\ ByAngle(t)[k] = t[j]
  BY <1>0 DEF Permutes, TakenFrom
<1>1. IsFiniteSet(1..n)
  BY FS_Interval
<1>2. m \in Surjection(1..n, 1..n)
  BY DEF Surjection
<1>3. \A i, j \in 1..n : m[i] = m[j] => i = j
  <2>1. m \in Injection(1..n, 1..n)
    BY <1>1, <1>2, FS_SurjSameCardinalityImpliesInj
  <2> QED BY <2>1 DEF Injection, IsInjective
<1>4. \A k, l \in 1..n : (s[k].angle < s[l].angle <=> k < l)
                          /\ (s[k].angle = s[l].angle <=> k = l)
  <2> SUFFICES ASSUME NEW k \in 1..n, NEW l \in 1..n
               PROVE  (s[k].angle < s[l].angle <=> k < l)
                       /\ (s[k].angle = s[l].angle <=> k = l)
    OBVIOUS
  <2>1. s[k].angle \in Int /\ s[l].angle \in Int
    <3>1. s[k] \in Point /\ s[l] \in Point
      BY ElementOfSeq
    <3> QED BY <3>1, PointIs
  <2>2. PICK a \in Int, b \in Int : a = s[k].angle /\ b = s[l].angle
    BY <2>1
  <2>3. k < l => a < b
    BY <2>2 DEF Increasing
  <2>4. l < k => b < a
    BY <2>2 DEF Increasing
  <2>5. (a < b <=> k < l) /\ (a = b <=> k = l)
    <3>1. k \in Int /\ l \in Int /\ (k = l => a = b)
      BY <2>2
    <3> QED BY <2>3, <2>4, <3>1
  <2> QED BY <2>2, <2>5, Zenon
<1>5. ASSUME NEW i \in 1..n PROVE Cardinality(UptoAngle(t, i)) = m[i]
  <2> DEFINE U == UptoAngle(t, i)
             r == [j \in U |-> m[j]]
  <2>1. U = {j \in 1..n : m[j] <= m[i]}
    <3>1. ASSUME NEW j \in 1..n
          PROVE  (SmallerAngle(t[j], t[i]) \/ (t[j].angle = t[i].angle /\ j <= i))
                 <=> m[j] <= m[i]
      <4>1. m[j] \in 1..n /\ m[i] \in 1..n
        OBVIOUS
      <4>2. t[j].angle = s[m[j]].angle /\ t[i].angle = s[m[i]].angle
        OBVIOUS
      <4>3. (t[j].angle < t[i].angle <=> m[j] < m[i])
             /\ (t[j].angle = t[i].angle <=> m[j] = m[i])
        <5> DEFINE u == m[j]
                   v == m[i]
        <5>1. u \in 1..n /\ v \in 1..n
          BY <4>1, Zenon
        <5> HIDE DEF u, v
        <5>2. (s[u].angle < s[v].angle <=> u < v)
               /\ (s[u].angle = s[v].angle <=> u = v)
          BY <1>4, <5>1
        <5> QED BY <4>2, <5>2, Zenon DEF u, v
      <4>4. m[j] = m[i] <=> j = i
        BY <1>3
      <4>5. m[j] <= m[i] <=> (m[j] < m[i] \/ m[j] = m[i])
        <5>1. \A a, b \in 1..n : a <= b <=> (a < b \/ a = b)
          OBVIOUS
        <5> QED BY <4>1, <5>1, Zenon
      <4>6. j = i => j <= i
        OBVIOUS
      <4> QED BY <4>3, <4>4, <4>5, <4>6, Zenon DEF SmallerAngle
    <3> QED BY <3>1 DEF UptoAngle
  <2>2. r \in [U -> 1..m[i]] /\ \A j \in U : r[j] = m[j]
    BY <2>1
  <2>3. \A k \in 1..m[i] : \E j \in U : r[j] = k
    <3> SUFFICES ASSUME NEW k \in 1..m[i] PROVE \E j \in U : r[j] = k
      OBVIOUS
    <3>1. k \in 1..n
      OBVIOUS
    <3>2. PICK j \in 1..n : m[j] = k
      BY <3>1
    <3>3. j \in U
      <4> HIDE DEF U
      <4> QED BY <2>1, <3>2
    <3> QED BY <2>2, <3>2, <3>3
  <2>4. \A j, l \in U : r[j] = r[l] => j = l
    <3>1. \A j \in U : j \in 1..n
      BY <2>1
    <3> HIDE DEF U, r
    <3> QED BY <1>3, <2>2, <3>1
  <2> HIDE DEF r, U
  <2>5. r \in Bijection(U, 1..m[i])
    BY <2>2, <2>3, <2>4 DEF Bijection, Injection, Surjection, IsInjective
  <2>6. IsFiniteSet(U)
    <3>1. U \subseteq 1..n
      BY <2>1
    <3> QED BY <1>1, <3>1, FS_Subset
  <2>7. Cardinality(1..m[i]) = Cardinality(U)
    BY <2>5, <2>6, FS_Bijection DEF ExistsBijection
  <2>8. m[i] \in Nat /\ m[i] >= 1
    OBVIOUS
  <2>9. Cardinality(1..m[i]) = m[i]
    BY <2>8, FS_Interval
  <2> QED BY <2>7, <2>9 DEF U
<1>6. \A k \in 1..n : \E j \in 1..n :
        Cardinality(UptoAngle(t, j)) = k /\ ByAngle(t)[k] = t[j]
  <2>1. \A k \in 1..Len(t) : \E j \in 1..Len(t) :
          Cardinality(UptoAngle(t, j)) = k /\ ByAngle(t)[k] = t[j]
    BY ByAngleIs
  <2> QED BY <2>1, Zenon
<1> QED BY <1>5, <1>6, Zenon

\* So it leaves what is in order alone.
LEMMA ByAngleKeeps ==
  ASSUME NEW s \in Seq(Point), Increasing(s)
  PROVE  ByAngle(s) = s
<1>1. PICK n \in Nat : n = Len(s)
  BY LenProperties
<1>2. PICK m \in [1..n -> 1..n] : \A j \in 1..n : m[j] = j
  <2>1. [j \in 1..n |-> j] \in [1..n -> 1..n]
    OBVIOUS
  <2> QED BY <2>1
<1>3. Permutes(m, Len(s))
  BY <1>1, <1>2 DEF Permutes
<1>4. TakenFrom(s, s, m)
  BY <1>1, <1>2, Zenon DEF TakenFrom
<1>5. \A k \in 1..Len(s) : \E j \in 1..Len(s) : m[j] = k /\ ByAngle(s)[k] = s[j]
  BY <1>3, <1>4, ByAngleRestores
<1>6. \A k \in 1..Len(s) : ByAngle(s)[k] = s[k]
  BY <1>1, <1>2, <1>5
<1> QED BY <1>6, ByAngleIs, SeqEqual

-----------------------------------------------------------------------------
(* A revolution, and the points of it that are selected.                      *)

Measurement == [distance : Nat, intensity : 0..255]

\* A scan has a point for each slot that was seen, by increasing angle.
LEMMA ScanOfIs ==
  ASSUME NEW S \in SUBSET Slot, NEW rev \in [S -> Measurement]
  PROVE  /\ ScanOf(rev) \in Seq(Point)
         /\ Len(ScanOf(rev)) = Cardinality(DOMAIN rev)
         /\ Increasing(ScanOf(rev))
<1> DEFINE n == Cardinality(S)
           o == Ordered(S)
           f == ScanOf(rev)
<1>1. Slots \in Nat /\ Turn = 2 * Slots
  BY SlotsAssumption
<1>2. S \subseteq Int /\ IsFiniteSet(S)
  <2>1. IsFiniteSet(Slot)
    BY <1>1, FS_Interval DEF Slot
  <2>2. S \subseteq Slot /\ Slot \subseteq Int
    BY <1>1 DEF Slot
  <2> HIDE DEF n, o, f
  <2> QED BY <2>1, <2>2, FS_Subset
<1>3. n \in Nat /\ o \in [1..n -> S] /\ \A k, l \in 1..n : k < l => o[k] < o[l]
  BY <1>2, OrderedIs
<1>4. f = [i \in DOMAIN o |-> [angle     |-> 2 * o[i],
                               distance  |-> rev[o[i]].distance,
                               intensity |-> rev[o[i]].intensity]]
  BY DEF ScanOf
<1> HIDE DEF n, o, f
<1>5. ASSUME NEW i \in 1..n PROVE f[i] \in Point /\ f[i].angle = 2 * o[i]
  <2>1. o[i] \in S /\ o[i] \in 0..Slots - 1
    BY <1>3 DEF Slot
  <2>2. rev[o[i]] \in Measurement
    BY <2>1
  <2>3. rev[o[i]].distance \in Nat /\ rev[o[i]].intensity \in 0..255
    BY <2>2 DEF Measurement
  <2>4. 2 * o[i] \in 0..Turn - 1
    BY <1>1, <2>1
  <2>5. f[i] = [angle     |-> 2 * o[i],
                distance  |-> rev[o[i]].distance,
                intensity |-> rev[o[i]].intensity]
    BY <1>3, <1>4
  <2> QED BY <2>3, <2>4, <2>5 DEF Point
<1>6. f \in [1..n -> Point]
  BY <1>3, <1>4, <1>5
<1>7. f \in Seq(Point) /\ Len(f) = n
  BY <1>3, <1>6, FunctionIsSeq
<1>8. ASSUME NEW k \in 1..n, NEW l \in 1..n, k < l PROVE f[k].angle < f[l].angle
  <2>1. PICK a \in Int, b \in Int : a = o[k] /\ b = o[l]
    <3>1. o[k] \in S /\ o[l] \in S
      BY <1>3
    <3> QED BY <1>2, <3>1
  <2>2. a < b
    BY <1>3, <1>8, <2>1
  <2>3. 2 * a < 2 * b
    BY <2>2
  <2>4. f[k].angle = 2 * a /\ f[l].angle = 2 * b
    BY <1>5, <2>1
  <2> QED BY <2>3, <2>4
<1>9. Increasing(f)
  BY <1>7, <1>8 DEF Increasing
<1>10. DOMAIN rev = S
  OBVIOUS
<1> QED BY <1>7, <1>9, <1>10 DEF f, n

\* The selected points are those at the given places, in their order.
LEMMA SelectedIs ==
  ASSUME NEW s \in Seq(Point), NEW I \in SUBSET (1..Len(s))
  PROVE  /\ Selected(s, I) \in Seq(Point)
         /\ Cardinality(I) \in Nat
         /\ Len(Selected(s, I)) = Cardinality(I)
         /\ Ordered(I) \in [1..Cardinality(I) -> I]
         /\ \A k \in 1..Cardinality(I) : Selected(s, I)[k] = s[Ordered(I)[k]]
         /\ \A i \in I : \E k \in 1..Cardinality(I) : Ordered(I)[k] = i
         /\ Increasing(s) => Increasing(Selected(s, I))
<1> DEFINE n == Cardinality(I)
           o == Ordered(I)
           f == Selected(s, I)
<1>1. Len(s) \in Nat
  BY LenProperties
<1>2. I \subseteq Int /\ IsFiniteSet(I)
  <2>1. IsFiniteSet(1..Len(s))
    BY <1>1, FS_Interval
  <2>2. I \subseteq Int
    BY <1>1
  <2> HIDE DEF n, o, f
  <2> QED BY <2>1, <2>2, FS_Subset
<1>3. /\ n \in Nat /\ o \in [1..n -> I]
      /\ \A k, l \in 1..n : k < l => o[k] < o[l]
      /\ \A i \in I : \E k \in 1..n : o[k] = i
  BY <1>2, OrderedIs
<1>4. f = [k \in 1..n |-> s[o[k]]]
  BY DEF Selected
<1> HIDE DEF n, o, f
<1>5. \A k \in 1..n : o[k] \in 1..Len(s) /\ f[k] = s[o[k]] /\ s[o[k]] \in Point
  <2> SUFFICES ASSUME NEW k \in 1..n
               PROVE  o[k] \in 1..Len(s) /\ f[k] = s[o[k]] /\ s[o[k]] \in Point
    OBVIOUS
  <2>1. o[k] \in 1..Len(s)
    BY <1>3
  <2> QED BY <1>4, <2>1, ElementOfSeq
<1>6. f \in [1..n -> Point]
  BY <1>4, <1>5
<1>7. f \in Seq(Point) /\ Len(f) = n
  BY <1>3, <1>6, FunctionIsSeq
<1>8. ASSUME Increasing(s) PROVE Increasing(f)
  <2>1. ASSUME NEW k \in 1..n, NEW l \in 1..n, k < l PROVE f[k].angle < f[l].angle
    <3>1. PICK a \in 1..Len(s), b \in 1..Len(s) : a = o[k] /\ b = o[l]
      BY <1>5
    <3>2. a < b
      BY <1>3, <2>1, <3>1
    <3>3. s[a].angle < s[b].angle
      BY <1>8, <3>2 DEF Increasing
    <3> QED BY <1>5, <3>1, <3>3
  <2> QED BY <1>7, <2>1 DEF Increasing
<1> QED BY <1>3, <1>5, <1>7, <1>8 DEF n, o, f

-----------------------------------------------------------------------------
(* FlattenSeq.                                                                *)

Flattens(g, f, n) ==
  f = [i \in 1..n |-> IF i = 1 THEN g[i] ELSE f[i - 1] \o g[i]]

\* The function that FlattenSeq chooses exists.
LEMMA FlattenExists ==
  ASSUME NEW g, NEW n \in Nat
  PROVE  \E f : Flattens(g, f, n)
<1> DEFINE S == {m \in 0..n : \E f : Flattens(g, f, m)}
<1>1. 0 \in S
  <2>1. Flattens(g, [i \in 1..0 |-> g[i]], 0)
    BY DEF Flattens
  <2> QED BY <2>1
<1>2. ASSUME NEW k \in 0..n - 1, k \in S PROVE k + 1 \in S
  <2>1. PICK f : Flattens(g, f, k)
    BY <1>2
  <2> DEFINE last == IF k = 0 THEN g[1] ELSE f[k] \o g[k + 1]
             h == [i \in 1..k + 1 |-> IF i = k + 1 THEN last ELSE f[i]]
  <2>2. ASSUME NEW i \in 1..k + 1
        PROVE  h[i] = IF i = 1 THEN g[i] ELSE h[i - 1] \o g[i]
    <3>1. CASE i = k + 1
      <4>1. h[i] = last
        BY <3>1
      <4>2. i # 1 => k # 0 /\ h[i - 1] = f[k]
        BY <3>1
      <4>3. i = 1 => k = 0
        BY <3>1
      <4> HIDE DEF h
      <4> QED BY <3>1, <4>1, <4>2, <4>3
    <3>2. CASE i # k + 1
      <4>1. i \in 1..k /\ h[i] = f[i]
        BY <3>2
      <4>2. i # 1 => h[i - 1] = f[i - 1]
        BY <3>2
      <4>3. f[i] = IF i = 1 THEN g[i] ELSE f[i - 1] \o g[i]
        BY <2>1, <4>1 DEF Flattens
      <4> HIDE DEF h
      <4> QED BY <4>1, <4>2, <4>3
    <3> QED BY <3>1, <3>2
  <2>3. h = [i \in 1..k + 1 |-> h[i]]
    OBVIOUS
  <2> HIDE DEF h
  <2>4. h = [i \in 1..k + 1 |-> IF i = 1 THEN g[i] ELSE h[i - 1] \o g[i]]
    BY <2>2, <2>3
  <2>5. Flattens(g, h, k + 1)
    BY <2>4 DEF Flattens
  <2> QED BY <2>5
<1> HIDE DEF S
<1>3. n \in S
  BY <1>1, <1>2, Induction
<1> QED BY <1>3 DEF S

\* Where each of the flattened sequences begins.
Begins(b, g) ==
  /\ b \in [1..Len(g) + 1 -> Int]
  /\ b[1] = 1
  /\ \A k \in 1..Len(g) : b[k + 1] = b[k] + Len(g[k])

\* What grows at every step is larger at the end than anywhere before.
LEMMA GrowsFrom1 ==
  ASSUME NEW n \in Nat, NEW b \in [1..n + 1 -> Int], b[1] = 1,
         \A k \in 1..n : b[k] <= b[k + 1]
  PROVE  \A m \in 0..n : 1 <= b[m + 1] /\ \A k \in 1..m + 1 : b[k] <= b[m + 1]
<1> DEFINE P(m) == 1 <= b[m + 1] /\ \A k \in 1..m + 1 : b[k] <= b[m + 1]
           D == {m \in 0..n : P(m)}
<1>1. 0 \in D
  OBVIOUS
<1>2. ASSUME NEW m \in 0..n - 1, m \in D PROVE m + 1 \in D
  <2>1. m + 1 \in 1..n /\ m + 1 + 1 \in 1..n + 1
    OBVIOUS
  <2>2. b[m + 1] \in Int /\ b[m + 1 + 1] \in Int /\ b[m + 1] <= b[m + 1 + 1]
    BY <2>1
  <2>3. P(m)
    BY <1>2
  <2>4. ASSUME NEW k \in 1..m + 1 + 1 PROVE b[k] <= b[m + 1 + 1]
    <3>1. CASE k = m + 1 + 1
      BY <2>2, <3>1
    <3>2. CASE k # m + 1 + 1
      <4>1. k \in 1..m + 1 /\ k \in 1..n + 1
        BY <3>2
      <4>2. b[k] \in Int /\ b[k] <= b[m + 1]
        BY <2>3, <4>1
      <4> QED BY <2>2, <4>2
    <3> QED BY <3>1, <3>2
  <2>5. 1 <= b[m + 1 + 1]
    BY <2>2, <2>3
  <2> QED BY <2>1, <2>4, <2>5
<1> HIDE DEF D
<1>3. \A m \in 0..n : m \in D
  BY <1>1, <1>2, Induction
<1> QED BY <1>3 DEF D

\* FlattenSeq puts each sequence where the one before it ends.
LEMMA FlattenIs ==
  ASSUME NEW g \in Seq(Seq(Point)), NEW b, Begins(b, g)
  PROVE  /\ FlattenSeq(g) \in Seq(Point)
         /\ Len(FlattenSeq(g)) = b[Len(g) + 1] - 1
         /\ \A k \in 1..Len(g) : 1 <= b[k] /\ b[k + 1] <= b[Len(g) + 1]
         /\ \A k \in 1..Len(g) : \A i \in 1..Len(g[k]) :
              FlattenSeq(g)[b[k] + i - 1] = g[k][i]
<1>0. PICK n \in Nat : n = Len(g)
  BY LenProperties
<1>1. /\ b \in [1..n + 1 -> Int] /\ b[1] = 1
      /\ \A k \in 1..n : b[k + 1] = b[k] + Len(g[k])
  BY <1>0 DEF Begins
<1>2. \A k \in 1..n : g[k] \in Seq(Point) /\ Len(g[k]) \in Nat
  <2>1. \A k \in 1..n : g[k] \in Seq(Point)
    BY <1>0, ElementOfSeq
  <2> QED BY <2>1, LenProperties
<1>20. \A m \in 0..n : 1 <= b[m + 1] /\ \A k \in 1..m + 1 : b[k] <= b[m + 1]
  <2>1. ASSUME NEW k \in 1..n PROVE b[k] <= b[k + 1]
    <3>1. b[k] \in Int /\ Len(g[k]) \in Nat /\ b[k + 1] = b[k] + Len(g[k])
      BY <1>1, <1>2
    <3> QED BY <3>1
  <2> QED BY <1>1, <2>1, GrowsFrom1
<1>21. \A k \in 1..n + 1 : 1 <= b[k]
  <2>1. \A k \in 1..n + 1 : k - 1 \in 0..n /\ (k - 1) + 1 = k
    OBVIOUS
  <2> QED BY <1>20, <2>1
<1>22. \A k \in 1..n : b[k + 1] <= b[n + 1]
  BY <1>20
<1>3. CASE n = 0
  <2>1. FlattenSeq(g) = g /\ Len(g) = 0
    BY <1>0, <1>3 DEF FlattenSeq
  <2>2. g \in Seq(Point) /\ 1..Len(g) = {}
    <3>1. g = <<>>
      BY <2>1, EmptySeq
    <3> QED BY <2>1, <3>1
  <2> QED BY <1>1, <1>3, <2>1, <2>2
<1>4. CASE n # 0
  <2> DEFINE f == CHOOSE h : Flattens(g, h, n)
  <2>1. Flattens(g, f, n)
    BY FlattenExists
  <2>2. FlattenSeq(g) = f[n]
    BY <1>0, <1>4 DEF FlattenSeq, Flattens
  <2> HIDE DEF f
  <2>3. \A k \in 1..n : f[k] = IF k = 1 THEN g[k] ELSE f[k - 1] \o g[k]
    BY <2>1 DEF Flattens
  <2> DEFINE Good(m) == /\ f[m] \in Seq(Point)
                        /\ Len(f[m]) = b[m + 1] - 1
                        /\ \A k \in 1..m : \A i \in 1..Len(g[k]) :
                             f[m][b[k] + i - 1] = g[k][i]
             D == {m \in 0..n : m # 0 => Good(m)}
  <2>4. 0 \in D
    OBVIOUS
  <2>5. ASSUME NEW m \in 0..n - 1, m \in D PROVE m + 1 \in D
    <3>0. m + 1 \in 1..n /\ m \in Nat
      OBVIOUS
    <3> DEFINE x == g[m + 1]
    <3>1. x \in Seq(Point) /\ Len(x) \in Nat
      BY <1>2, <3>0
    <3>2. CASE m = 0
      <4>1. f[1] = g[1] /\ b[1] = 1 /\ b[2] = 1 + Len(g[1]) /\ g[1] \in Seq(Point)
        BY <1>1, <2>3, <3>0, <3>1, <3>2
      <4>2. Len(f[1]) = b[2] - 1
        <5>1. Len(g[1]) \in Int
          BY <3>1, <3>2
        <5> QED BY <4>1, <5>1
      <4>3. \A k \in 1..1 : \A i \in 1..Len(g[k]) : f[1][b[k] + i - 1] = g[k][i]
        <5>1. \A i \in 1..Len(g[1]) : 1 + i - 1 = i
          OBVIOUS
        <5> QED BY <4>1, <5>1
      <4>4. Good(1)
        BY <4>1, <4>2, <4>3
      <4> QED BY <3>0, <3>2, <4>4
    <3>3. CASE m # 0
      <4>1. Good(m)
        BY <2>5, <3>3
      <4>2. f[m + 1] = f[m] \o x
        <5>1. m + 1 # 1 /\ (m + 1) - 1 = m
          BY <3>3
        <5> HIDE DEF x
        <5>2. f[m + 1] = f[(m + 1) - 1] \o g[m + 1]
          BY <2>3, <3>0, <5>1
        <5> QED BY <5>1, <5>2 DEF x
      <4> DEFINE y == f[m]
                 z == f[m + 1]
      <4>3. y \in Seq(Point) /\ z = y \o x
        BY <4>1, <4>2
      <4> HIDE DEF x, y, z
      <4>4. /\ z \in Seq(Point) /\ Len(z) = Len(y) + Len(x)
            /\ \A i \in 1..Len(y) + Len(x) :
                 z[i] = IF i <= Len(y) THEN y[i] ELSE x[i - Len(y)]
        BY <3>1, <4>3, ConcatProperties
      <4>5. PICK c \in Int, d \in Nat, l \in Nat :
              /\ c = b[m + 1] /\ d = Len(x) /\ l = Len(y)
              /\ b[m + 1 + 1] = c + d /\ l = c - 1
        <5>1. b[m + 1] \in Int
          BY <1>1, <3>0
        <5>2. Len(y) \in Nat
          BY <4>3, LenProperties
        <5>3. Len(y) = b[m + 1] - 1
          BY <4>1 DEF y
        <5>4. b[m + 1 + 1] = b[m + 1] + Len(x)
          BY <1>1, <3>0 DEF x
        <5> QED BY <3>1, <5>1, <5>2, <5>3, <5>4
      <4>6. Len(z) = b[m + 1 + 1] - 1
        BY <4>4, <4>5
      <4>7. ASSUME NEW k \in 1..m + 1, NEW i \in 1..Len(g[k])
            PROVE  z[b[k] + i - 1] = g[k][i]
        <5>1. CASE k = m + 1
          <6>1. i \in 1..d /\ b[k] = c /\ g[k] = x
            <7>1. b[k] = c /\ g[k] = x
              BY <4>5, <5>1 DEF x
            <7>2. i \in 1..Len(x)
              BY <4>7, <7>1
            <7>3. i \in 1..d
              BY <4>5, <7>2
            <7> QED BY <7>1, <7>3
          <6>0. l = c - 1 /\ i \in 1..d
            BY <4>5, <6>1
          <6>2. c + i - 1 \in 1..l + d /\ ~(c + i - 1 <= l) /\ (c + i - 1) - l = i
            BY <6>0
          <6>3. z[c + i - 1] = x[i]
            BY <4>4, <4>5, <6>2
          <6> QED BY <6>1, <6>3
        <5>2. CASE k # m + 1
          <6>1. k \in 1..m /\ k \in 1..n
            BY <5>2
          <6>2. y[b[k] + i - 1] = g[k][i]
            BY <4>1, <4>7, <6>1 DEF y
          <6>3. PICK p \in Int, q \in Nat : p = b[k] /\ q = Len(g[k])
            BY <1>1, <1>2, <6>1
          <6>4. 1 <= p /\ p + q <= c
            <7>1. k \in 1..n + 1 /\ k + 1 \in 1..m + 1
              BY <6>1
            <7>2. 1 <= p
              BY <1>21, <6>3, <7>1
            <7>3. b[k + 1] = p + q
              BY <1>1, <6>1, <6>3
            <7>4. b[k + 1] <= b[m + 1]
              BY <1>20, <7>1
            <7> QED BY <4>5, <7>2, <7>3, <7>4
          <6>5. i \in 1..q
            BY <6>3
          <6> DEFINE j == p + i - 1
          <6>0. l = c - 1
            BY <4>5
          <6>6. j \in 1..l + d /\ j <= l
            BY <6>0, <6>4, <6>5
          <6>7. j = b[k] + i - 1
            BY <6>3
          <6> HIDE DEF j
          <6>8. z[j] = y[j]
            BY <4>4, <4>5, <6>6
          <6> QED BY <6>2, <6>7, <6>8
        <5> QED BY <5>1, <5>2
      <4> QED BY <3>0, <4>4, <4>6, <4>7 DEF z
    <3> QED BY <3>2, <3>3
  <2> HIDE DEF D, Good
  <2>6. n \in D
    <3>1. \A m \in 0..n - 1 : m \in D => m + 1 \in D
      BY <2>5
    <3>2. \A m \in 0..n : m \in D
      BY <2>4, <3>1, Induction
    <3> QED BY <3>2
  <2>7. Good(n)
    BY <1>4, <2>6 DEF D
  <2> QED BY <1>0, <1>21, <1>22, <2>2, <2>7 DEF Good
<1> QED BY <1>3, <1>4

-----------------------------------------------------------------------------
(* NearFilter.                                                                *)

\* A number falls between two neighbours of a sequence that begins at or before
\* it and ends after it.
LEMMA Covered ==
  ASSUME NEW n \in Nat, NEW b \in [1..n + 1 -> Int],
         NEW j \in Int, b[1] <= j, j < b[n + 1]
  PROVE  \E k \in 1..n : b[k] <= j /\ j < b[k + 1]
<1> DEFINE T == {k \in 1..n + 1 : j < b[k]}
<1>1. n + 1 \in T /\ T \subseteq Nat
  OBVIOUS
<1>2. PICK m \in T : \A k \in T : m <= k
  <2> HIDE DEF T
  <2> QED BY <1>1, Least
<1>3. m \in 1..n + 1 /\ j < b[m]
  BY <1>2
<1>4. m # 1
  <2>1. b[1] \in Int
    OBVIOUS
  <2> QED BY <1>3, <2>1
<1>5. m - 1 \in 1..n /\ m - 1 \in 1..n + 1 /\ (m - 1) + 1 = m /\ ~(m <= m - 1)
  BY <1>3, <1>4
<1>6. ~(j < b[m - 1]) /\ b[m - 1] \in Int
  BY <1>2, <1>5
<1> QED BY <1>3, <1>5, <1>6

\* A judged group has each of its points, as it was or zeroed.
LEMMA JudgedIs ==
  ASSUME NEW g \in Seq(Point)
  PROVE  /\ Judged(g) \in Seq(Point)
         /\ Len(Judged(g)) = Len(g)
         /\ \A i \in 1..Len(g) : Judged(g)[i] = g[i] \/ Judged(g)[i] = Zeroed(g[i])
<1> DEFINE z == [i \in DOMAIN g |-> Zeroed(g[i])]
<1>1. Len(g) \in Nat /\ DOMAIN g = 1..Len(g)
  BY LenProperties
<1>2. \A i \in 1..Len(g) : Zeroed(g[i]) \in Point
  BY ElementOfSeq, PointIs
<1>3. z \in [1..Len(g) -> Point]
  BY <1>1, <1>2
<1>4. z \in Seq(Point) /\ Len(z) = Len(g)
  <2> HIDE DEF z
  <2> QED BY <1>1, <1>3, FunctionIsSeq
<1>5. \A i \in 1..Len(g) : z[i] = Zeroed(g[i])
  BY <1>1
<1>6. Judged(g) = g \/ Judged(g) = z
  BY DEF Judged
<1> HIDE DEF z
<1>7. CASE Judged(g) = g
  BY <1>7
<1>8. CASE Judged(g) = z
  BY <1>4, <1>5, <1>8
<1> QED BY <1>6, <1>7, <1>8

JudgedGroups(g) == [k \in DOMAIN g |-> Judged(g[k])]

\* Judging leaves the groups as long as they were.
LEMMA JudgedGroupsIs ==
  ASSUME NEW g \in Seq(Seq(Point))
  PROVE  /\ JudgedGroups(g) \in Seq(Seq(Point))
         /\ Len(JudgedGroups(g)) = Len(g)
         /\ \A k \in 1..Len(g) : /\ g[k] \in Seq(Point)
                                 /\ JudgedGroups(g)[k] = Judged(g[k])
                                 /\ Len(JudgedGroups(g)[k]) = Len(g[k])
<1>1. Len(g) \in Nat /\ DOMAIN g = 1..Len(g)
  BY LenProperties
<1>2. \A k \in 1..Len(g) : g[k] \in Seq(Point)
  BY ElementOfSeq
<1>3. \A k \in 1..Len(g) : JudgedGroups(g)[k] = Judged(g[k])
  BY <1>1 DEF JudgedGroups
<1>4. \A k \in 1..Len(g) : Judged(g[k]) \in Seq(Point) /\ Len(Judged(g[k])) = Len(g[k])
  BY <1>2, JudgedIs
<1>5. JudgedGroups(g) \in [1..Len(g) -> Seq(Point)]
  BY <1>1, <1>4 DEF JudgedGroups
<1>6. JudgedGroups(g) \in Seq(Seq(Point)) /\ Len(JudgedGroups(g)) = Len(g)
  BY <1>1, <1>5, FunctionIsSeq
<1> QED BY <1>2, <1>3, <1>4, <1>6

\* t has the points of s at other places, as they were or zeroed.
KeptFrom(t, s, m) ==
  /\ Len(t) = Len(s)
  /\ \A j \in 1..Len(s) : t[j] = s[m[j]] \/ t[j] = Zeroed(s[m[j]])

\* What the groups hold of p, one after another, comes out of them judged.
LEMMA GroupsKeep ==
  ASSUME NEW p \in Seq(Point), NEW g \in Seq(Seq(Point)), NEW b, Begins(b, g),
         b[Len(g) + 1] = Len(p) + 1, NEW m,
         \A k \in 1..Len(g) : \A i \in 1..Len(g[k]) :
           g[k][i] = p[m[b[k] + i - 1]]
  PROVE  /\ FlattenSeq(JudgedGroups(g)) \in Seq(Point)
         /\ KeptFrom(FlattenSeq(JudgedGroups(g)), p, m)
<1>0. PICK n \in Nat, l \in Nat : n = Len(g) /\ l = Len(p)
  BY LenProperties
<1> DEFINE jg == JudgedGroups(g)
           f == FlattenSeq(jg)
<1>1. /\ jg \in Seq(Seq(Point)) /\ Len(jg) = n
      /\ \A k \in 1..n : /\ g[k] \in Seq(Point)
                         /\ jg[k] = Judged(g[k])
                         /\ Len(jg[k]) = Len(g[k])
  BY <1>0, JudgedGroupsIs
<1>2. /\ b \in [1..n + 1 -> Int] /\ b[1] = 1 /\ b[n + 1] = l + 1
      /\ \A k \in 1..n : b[k + 1] = b[k] + Len(g[k])
  BY <1>0 DEF Begins
<1> HIDE DEF jg
<1>3. Begins(b, jg)
  BY <1>1, <1>2 DEF Begins
<1>4. /\ f \in Seq(Point) /\ Len(f) = b[n + 1] - 1
      /\ \A k \in 1..n : \A i \in 1..Len(jg[k]) : f[b[k] + i - 1] = jg[k][i]
  <2>1. /\ f \in Seq(Point) /\ Len(f) = b[Len(jg) + 1] - 1
        /\ \A k \in 1..Len(jg) : \A i \in 1..Len(jg[k]) :
             f[b[k] + i - 1] = jg[k][i]
    <3>1. jg \in Seq(Seq(Point))
      BY <1>1
    <3> QED BY <1>3, <3>1, FlattenIs
  <2> HIDE DEF f
  <2> QED BY <1>1, <2>1
<1> HIDE DEF f
<1>5. Len(f) = l
  BY <1>2, <1>4
<1>6. ASSUME NEW j \in 1..l PROVE f[j] = p[m[j]] \/ f[j] = Zeroed(p[m[j]])
  <2>1. PICK k \in 1..n : b[k] <= j /\ j < b[k + 1]
    <3>1. j \in Int /\ b[1] <= j /\ j < b[n + 1]
      BY <1>2
    <3> QED BY <1>2, <3>1, Covered
  <2>2. PICK c \in Int, d \in Nat : c = b[k] /\ d = Len(g[k]) /\ b[k + 1] = c + d
    <3>1. b[k] \in Int /\ Len(g[k]) \in Nat
      <4>1. k \in 1..n + 1
        OBVIOUS
      <4>2. g[k] \in Seq(Point)
        BY <1>1
      <4> QED BY <1>2, <4>1, <4>2, LenProperties
    <3> QED BY <1>2, <3>1
  <2>3. c <= j /\ j < c + d
    BY <2>1, <2>2
  <2> DEFINE i == j - c + 1
  <2>4. i \in 1..d /\ c + i - 1 = j
    BY <2>3
  <2> HIDE DEF i
  <2>5. i \in 1..Len(g[k]) /\ i \in 1..Len(jg[k]) /\ b[k] + i - 1 = j
    BY <1>1, <2>2, <2>4
  <2>6. f[j] = jg[k][i]
    BY <1>4, <2>5
  <2>7. g[k][i] = p[m[j]]
    BY <1>0, <2>5
  <2>8. jg[k][i] = g[k][i] \/ jg[k][i] = Zeroed(g[k][i])
    BY <1>1, <2>5, JudgedIs
  <2> QED BY <2>6, <2>7, <2>8, Zenon
<1>7. KeptFrom(f, p, m)
  BY <1>0, <1>5, <1>6 DEF KeptFrom
<1> QED BY <1>4, <1>7 DEF f, jg

\* A group ends where a break begins the next.
BreaksBegin(b, p) ==
  \A k \in 1..Len(Groups(p)) :
    /\ b[k] \in 1..Len(p) /\ b[k] < b[k + 1]
    /\ \A i \in b[k]..b[k + 1] - 1 : i = b[k] <=> (i = 1 \/ Breaks(p[i - 1], p[i]))

\* b is where the m groups of the n points begin.
Cut(p, b, n, m) ==
  /\ n = Len(p) /\ m = Len(Groups(p))
  /\ Begins(b, Groups(p)) /\ b[m + 1] = n + 1
  /\ \A k \in 1..m : \A i \in 1..Len(Groups(p)[k]) :
       Groups(p)[k][i] = p[b[k] + i - 1]
  /\ BreaksBegin(b, p)

\* The groups follow each other and hold every point.
LEMMA GroupsIs ==
  ASSUME NEW p \in Seq(Point), p # <<>>
  PROVE  /\ Groups(p) \in Seq(Seq(Point)) /\ Len(Groups(p)) >= 1
         /\ \E b : Cut(p, b, Len(p), Len(Groups(p)))
<1>0. PICK l \in Nat : l = Len(p) /\ l # 0
  BY LenProperties, EmptySeq
<1> DEFINE I == {i \in 1..Len(p) : i = 1 \/ Breaks(p[i - 1], p[i])}
           n == Cardinality(I)
           o == Starts(p)
           b == Append(o, l + 1)
           g == Groups(p)
<1>1. I \in SUBSET (1..l) /\ 1 \in I
  BY <1>0
<1>2. I \subseteq Int /\ IsFiniteSet(I)
  <2> HIDE DEF I
  <2>1. IsFiniteSet(1..l) /\ 1..l \subseteq Int
    BY FS_Interval
  <2> QED BY <1>1, <2>1, FS_Subset
<1>3. o = Ordered(I)
  BY DEF Starts
<1>16. \A i \in 1..l : i \in I <=> (i = 1 \/ Breaks(p[i - 1], p[i]))
  BY <1>0
<1> HIDE DEF I, o
<1>4. /\ n \in Nat /\ o \in [1..n -> I]
      /\ \A k, h \in 1..n : k < h => o[k] < o[h]
      /\ \A i \in I : \E k \in 1..n : o[k] = i
  BY <1>2, <1>3, OrderedIs
<1>5. /\ o \in Seq(Int) /\ Len(o) = n
      /\ \A k \in 1..n : o[k] \in 1..l
  <2> HIDE DEF n
  <2>1. \A k \in 1..n : o[k] \in 1..l
    BY <1>1, <1>4
  <2>2. o \in [1..n -> Int]
    BY <1>2, <1>4
  <2> QED BY <1>4, <2>1, <2>2, FunctionIsSeq
<1> HIDE DEF n
<1>6. n >= 1 /\ o[1] = 1
  <2>1. PICK k \in 1..n : o[k] = 1
    BY <1>1, <1>4
  <2>2. 1 \in 1..n /\ o[1] \in 1..l
    BY <1>5, <2>1
  <2>3. 1 < k => o[1] < o[k]
    BY <1>4, <2>2
  <2> QED BY <2>1, <2>2, <2>3
<1>7. /\ b \in Seq(Int) /\ Len(b) = n + 1
      /\ \A k \in 1..n : b[k] = o[k]
      /\ b[n + 1] = l + 1
  BY <1>5, AppendProperties
<1> HIDE DEF b
<1>8. b \in [1..n + 1 -> Int] /\ b[1] = 1 /\ \A k \in 1..n : b[k] \in 1..l
  BY <1>5, <1>6, <1>7, LenProperties
<1>9. ASSUME NEW k \in 1..n PROVE b[k] < b[k + 1] /\ b[k + 1] \in 1..l + 1
  <2>1. CASE k = n
    BY <1>7, <1>8, <2>1
  <2>2. CASE k # n
    <3>1. k + 1 \in 1..n /\ k < k + 1
      BY <1>4, <2>2
    <3>2. b[k + 1] = o[k + 1] /\ b[k] = o[k] /\ o[k] < o[k + 1]
      BY <1>4, <1>7, <3>1
    <3>3. b[k + 1] \in 1..l
      BY <1>8, <3>1
    <3> QED BY <3>2, <3>3
  <2> QED BY <2>1, <2>2
<1>10. g = [k \in 1..n |-> SubSeq(p, b[k], b[k + 1] - 1)]
  <2>1. g = [k \in 1..Len(b) - 1 |-> SubSeq(p, b[k], b[k + 1] - 1)]
    BY <1>0 DEF Groups, b, o
  <2>2. Len(b) - 1 = n
    BY <1>4, <1>7
  <2> HIDE DEF g
  <2> QED BY <2>1, <2>2
<1> HIDE DEF g
<1>11. ASSUME NEW k \in 1..n
       PROVE  /\ g[k] \in Seq(Point) /\ b[k + 1] = b[k] + Len(g[k])
              /\ \A i \in 1..Len(g[k]) : g[k][i] = p[b[k] + i - 1]
  <2>1. PICK c \in 1..l, d \in 1..l + 1 : c = b[k] /\ d = b[k + 1] /\ c < d
    BY <1>8, <1>9
  <2>2. g[k] = SubSeq(p, c, d - 1)
    BY <1>10, <2>1
  <2>3. \A i \in c..d - 1 : p[i] \in Point
    <3>1. \A i \in c..d - 1 : i \in 1..Len(p)
      BY <1>0
    <3> QED BY <3>1, ElementOfSeq
  <2>4. c \in Int /\ d - 1 \in Int /\ c <= d - 1
    BY <2>1
  <2>5. /\ g[k] \in Seq(Point)
        /\ Len(g[k]) = (d - 1) - c + 1
        /\ \A i \in 1..(d - 1) - c + 1 : g[k][i] = p[c + i - 1]
    BY <2>2, <2>3, <2>4, SubSeqProperties
  <2> QED BY <2>1, <2>5
<1>12. g \in [1..n -> Seq(Point)]
  BY <1>10, <1>11
<1>13. g \in Seq(Seq(Point)) /\ Len(g) = n
  BY <1>4, <1>12, FunctionIsSeq
<1>14. Begins(b, g)
  BY <1>8, <1>11, <1>13 DEF Begins
<1>17. BreaksBegin(b, p)
  <2>1. ASSUME NEW k \in 1..n, NEW i \in b[k]..b[k + 1] - 1
        PROVE  i = b[k] <=> (i = 1 \/ Breaks(p[i - 1], p[i]))
    <3>1. b[k] \in 1..l /\ b[k] = o[k] /\ b[k + 1] \in 1..l + 1
      BY <1>7, <1>8, <1>9
    <3>2. i \in 1..l /\ b[k] <= i /\ i < b[k + 1]
      BY <3>1
    <3>3. o[k] \in I
      BY <1>4
    <3>4. ASSUME i \in I PROVE i = o[k]
      <4>1. PICK h \in 1..n : o[h] = i
        BY <1>4, <3>4
      <4>2. ~(h < k)
        <5>1. h < k => o[h] < o[k]
          BY <1>4
        <5> QED BY <3>1, <3>2, <4>1, <5>1
      <4>3. ASSUME k < h PROVE FALSE
        <5>1. k + 1 \in 1..n /\ (k + 1 = h \/ k + 1 < h)
          BY <1>4, <4>3
        <5>2. b[k + 1] = o[k + 1] /\ o[k + 1] \in 1..l
          BY <1>5, <1>7, <5>1
        <5>3. k + 1 < h => o[k + 1] < o[h]
          BY <1>4, <5>1
        <5> QED BY <3>2, <4>1, <5>1, <5>2, <5>3
      <4> QED BY <1>4, <4>1, <4>2, <4>3
    <3>5. i \in I <=> i = b[k]
      BY <3>1, <3>3, <3>4
    <3> QED BY <1>16, <3>2, <3>5
  <2>2. \A k \in 1..n : b[k] \in 1..Len(p) /\ b[k] < b[k + 1]
    BY <1>0, <1>8, <1>9
  <2> QED BY <1>13, <2>1, <2>2 DEF BreaksBegin, g
<1>15. Cut(p, b, Len(p), Len(g))
  <2>1. b[Len(g) + 1] = Len(p) + 1
    BY <1>0, <1>7, <1>13
  <2>2. \A k \in 1..Len(g) : \A i \in 1..Len(g[k]) : g[k][i] = p[b[k] + i - 1]
    BY <1>11, <1>13
  <2> QED BY <1>14, <1>17, <2>1, <2>2, Zenon DEF Cut, g
<1>18. \E a : Cut(p, a, Len(p), Len(g))
  BY <1>15
<1> QED BY <1>6, <1>13, <1>18, Zenon DEF g

\* The groups, joined or not, keep the points - unless one group closes around the
\* circle, of which nothing is left.
LEMMA JoinedGroupsKeep ==
  ASSUME NEW p \in Seq(Point), p # <<>>
  PROVE  LET f == FlattenSeq(JudgedGroups(Join(Groups(p), p)))
         IN  /\ f \in Seq(Point)
             /\ ~(Len(Groups(p)) = 1 /\ Connected(p)) =>
                  \E m : Permutes(m, Len(p)) /\ KeptFrom(f, p, m)
<1> DEFINE g == Groups(p)
           f(x) == FlattenSeq(JudgedGroups(x))
           Fine(x) == /\ f(x) \in Seq(Point)
                      /\ \E m : Permutes(m, Len(p)) /\ KeptFrom(f(x), p, m)
<1>0. PICK l \in Nat : l = Len(p)
  BY LenProperties
<1>1. g \in Seq(Seq(Point)) /\ Len(g) >= 1
  BY GroupsIs
<1>21. PICK b : Cut(p, b, Len(p), Len(g))
  BY GroupsIs
<1>2. /\ Begins(b, g)
      /\ b[Len(g) + 1] = Len(p) + 1
      /\ \A k \in 1..Len(g) : \A i \in 1..Len(g[k]) : g[k][i] = p[b[k] + i - 1]
  BY <1>21 DEF Cut
<1>3. PICK n \in Nat : n = Len(g) /\ n >= 1
  BY <1>1, LenProperties
<1> HIDE DEF g
<1>4. /\ b \in [1..n + 1 -> Int] /\ b[1] = 1 /\ b[n + 1] = l + 1
      /\ \A k \in 1..n : b[k + 1] = b[k] + Len(g[k])
  BY <1>0, <1>2, <1>3 DEF Begins
<1>5. \A k \in 1..n : g[k] \in Seq(Point) /\ Len(g[k]) \in Nat
  <2>1. \A k \in 1..n : g[k] \in Seq(Point)
    BY <1>1, <1>3, ElementOfSeq
  <2> QED BY <2>1, LenProperties
<1>6. \A k \in 1..n : 1 <= b[k] /\ b[k + 1] <= l + 1
  <2>1. \A k \in 1..Len(g) : 1 <= b[k] /\ b[k + 1] <= b[Len(g) + 1]
    BY <1>1, <1>2, FlattenIs
  <2> QED BY <1>3, <1>4, <2>1
<1>20. \A k \in 1..n : b[k] <= b[n]
  <2>1. ASSUME NEW k \in 1..n PROVE b[k] <= b[k + 1]
    <3>1. k \in 1..n + 1
      OBVIOUS
    <3>2. b[k] \in Int /\ Len(g[k]) \in Nat /\ b[k + 1] = b[k] + Len(g[k])
      BY <1>4, <1>5, <3>1
    <3> QED BY <3>2
  <2>2. \A m \in 0..n : \A k \in 1..m + 1 : b[k] <= b[m + 1]
    BY <1>4, <2>1, GrowsFrom1
  <2>3. n - 1 \in 0..n /\ (n - 1) + 1 = n
    BY <1>3
  <2> QED BY <2>2, <2>3
<1>7. Fine(g)
  <2>1. PICK m \in [1..l -> 1..l] : \A j \in 1..l : m[j] = j
    <3>1. [j \in 1..l |-> j] \in [1..l -> 1..l]
      OBVIOUS
    <3> QED BY <3>1
  <2>2. Permutes(m, Len(p))
    BY <1>0, <2>1 DEF Permutes
  <2>3. ASSUME NEW k \in 1..n, NEW i \in 1..Len(g[k])
        PROVE  g[k][i] = p[m[b[k] + i - 1]]
    <3>1. PICK c \in Int, d \in Nat : c = b[k] /\ d = Len(g[k]) /\ b[k + 1] = c + d
      <4>1. k \in 1..n + 1
        OBVIOUS
      <4> QED BY <1>4, <1>5, <4>1
    <3>2. 1 <= c /\ c + d <= l + 1 /\ i \in 1..d
      BY <1>6, <3>1
    <3>3. c + i - 1 \in 1..l
      BY <3>2
    <3>4. m[b[k] + i - 1] = b[k] + i - 1
      BY <2>1, <3>1, <3>3
    <3> QED BY <1>2, <1>3, <3>4
  <2>4. \A k \in 1..Len(g) : \A i \in 1..Len(g[k]) : g[k][i] = p[m[b[k] + i - 1]]
    BY <1>3, <2>3
  <2>5. f(g) \in Seq(Point) /\ KeptFrom(f(g), p, m)
    <3>1. Begins(b, g) /\ b[Len(g) + 1] = Len(p) + 1
      BY <1>2
    <3> QED BY <1>1, <2>4, <3>1, GroupsKeep
  <2> HIDE DEF f
  <2> QED BY <2>2, <2>5
<1> DEFINE h == [g EXCEPT ![1] = Last(g) \o @]
           j == Front(h)
<1>8. Join(g, p) = IF Connected(p) THEN j ELSE g
  BY DEF Join
<1>9. /\ h \in Seq(Seq(Point)) /\ Len(h) = n
      /\ h[1] = g[n] \o g[1] /\ \A k \in 2..n : h[k] = g[k]
  <2>1. 1 \in 1..n /\ n \in 1..n
    BY <1>3
  <2>2. Last(g) = g[n] /\ g[n] \in Seq(Point) /\ g[1] \in Seq(Point)
    BY <1>3, <1>5, <2>1 DEF Last
  <2>3. g[n] \o g[1] \in Seq(Point)
    BY <2>2, ConcatProperties
  <2>4. g \in [1..n -> Seq(Point)]
    BY <1>1, <1>3, LenProperties
  <2>5. h = [g EXCEPT ![1] = g[n] \o g[1]]
    BY <2>2
  <2> HIDE DEF h
  <2>6. h \in [1..n -> Seq(Point)] /\ h[1] = g[n] \o g[1] /\ \A k \in 2..n : h[k] = g[k]
    BY <2>1, <2>3, <2>4, <2>5
  <2> QED BY <2>6, FunctionIsSeq
<1>10. /\ j \in Seq(Seq(Point)) /\ Len(j) = n - 1
       /\ \A k \in 1..n - 1 : j[k] = h[k]
  <2> HIDE DEF h
  <2>1. \A k \in 1..n - 1 : h[k] \in Seq(Point)
    <3>1. \A k \in 1..n - 1 : k \in 1..Len(h)
      BY <1>9
    <3> QED BY <1>9, <3>1, ElementOfSeq
  <2>2. j = SubSeq(h, 1, n - 1)
    BY <1>9 DEF Front
  <2>3. /\ SubSeq(h, 1, n - 1) \in Seq(Seq(Point))
        /\ Len(SubSeq(h, 1, n - 1)) = IF 1 <= n - 1 THEN (n - 1) - 1 + 1 ELSE 0
        /\ \A k \in 1..(n - 1) - 1 + 1 : SubSeq(h, 1, n - 1)[k] = h[1 + k - 1]
    <3>1. 1 \in Int /\ n - 1 \in Int
      OBVIOUS
    <3> QED BY <2>1, <3>1, SubSeqProperties
  <2>4. \A k \in 1..n - 1 : k \in 1..(n - 1) - 1 + 1 /\ 1 + k - 1 = k
    OBVIOUS
  <2>5. (IF 1 <= n - 1 THEN (n - 1) - 1 + 1 ELSE 0) = n - 1
    BY <1>3
  <2> HIDE DEF j
  <2> QED BY <2>2, <2>3, <2>4, <2>5
<1> HIDE DEF h, j
<1>11. ASSUME n = 1 PROVE f(j) \in Seq(Point)
  <2>1. Len(j) = 0
    BY <1>10, <1>11
  <2>2. PICK a : a = [k \in 1..1 |-> 1]
    OBVIOUS
  <2>3. JudgedGroups(j) \in Seq(Seq(Point)) /\ Len(JudgedGroups(j)) = 0
    BY <1>10, <2>1, JudgedGroupsIs
  <2>4. a \in [1..0 + 1 -> Int] /\ a[1] = 1 /\ 1..0 = {}
    BY <2>2
  <2>5. Begins(a, JudgedGroups(j))
    BY <2>3, <2>4 DEF Begins
  <2> QED BY <2>3, <2>5, FlattenIs
<1>12. ASSUME n # 1 PROVE Fine(j)
  <2> DEFINE c == Len(g[n])
             a == [k \in 1..n |-> IF k = 1 THEN 1 ELSE b[k] + c]
             m == [i \in 1..l |-> IF i <= c THEN l - c + i ELSE i - c]
  <2>1. c \in Nat /\ b[n] + c = l + 1 /\ b[n] \in Int /\ n \in 1..n /\ 1 <= b[n]
    <3>1. n \in 1..n /\ n \in 1..n + 1
      BY <1>3
    <3>2. b[n] \in Int /\ b[n + 1] = b[n] + Len(g[n]) /\ b[n + 1] = l + 1
      BY <1>4, <3>1
    <3> QED BY <1>5, <1>6, <3>1, <3>2
  <2> HIDE DEF c
  <2>2. c <= l /\ b[n] = l + 1 - c
    <3>1. PICK x \in Int : x = b[n]
      BY <2>1
    <3> QED BY <2>1, <3>1
  <2>3. Permutes(m, Len(p))
    <3>1. m \in [1..l -> 1..l]
      BY <2>1, <2>2
    <3>2. ASSUME NEW k \in 1..l PROVE \E i \in 1..l : m[i] = k
      <4>1. CASE k <= l - c
        <5>1. k + c \in 1..l /\ ~(k + c <= c) /\ (k + c) - c = k
          BY <2>1, <2>2, <4>1
        <5> QED BY <5>1
      <4>2. CASE k > l - c
        <5>1. k - (l - c) \in 1..l /\ k - (l - c) <= c /\ l - c + (k - (l - c)) = k
          BY <2>1, <2>2, <4>2
        <5> QED BY <5>1
      <4> QED BY <2>1, <4>1, <4>2
    <3> QED BY <1>0, <3>1, <3>2 DEF Permutes
  <2>4. n \in 2..n /\ n - 1 \in Nat
    BY <1>3, <1>12
  <2>5. /\ a \in [1..n -> Int] /\ a[1] = 1
        /\ \A k \in 2..n : a[k] = b[k] + c
    <3>1. \A k \in 1..n : b[k] \in Int /\ b[k] + c \in Int
      <4>1. \A k \in 1..n : k \in 1..n + 1
        OBVIOUS
      <4> QED BY <1>4, <2>1, <4>1
    <3> QED BY <2>4, <3>1
  <2>6. \A i \in 1..l : m[i] = IF i <= c THEN l - c + i ELSE i - c
    OBVIOUS
  <2> HIDE DEF a, m
  <2>7. /\ j[1] \in Seq(Point) /\ g[1] \in Seq(Point)
        /\ Len(g[1]) \in Nat
        /\ Len(j[1]) = c + Len(g[1])
        /\ \A i \in 1..c + Len(g[1]) :
             j[1][i] = IF i <= c THEN g[n][i] ELSE g[1][i - c]
    <3>1. 1 \in 1..n - 1 /\ 1 \in 1..n
      BY <2>4
    <3>2. j[1] = g[n] \o g[1] /\ g[n] \in Seq(Point) /\ g[1] \in Seq(Point)
      BY <1>5, <1>9, <1>10, <2>1, <3>1
    <3>3. /\ g[n] \o g[1] \in Seq(Point)
          /\ Len(g[n] \o g[1]) = Len(g[n]) + Len(g[1])
          /\ \A i \in 1..Len(g[n]) + Len(g[1]) :
               (g[n] \o g[1])[i] =
                 IF i <= Len(g[n]) THEN g[n][i] ELSE g[1][i - Len(g[n])]
      BY <3>2, ConcatProperties
    <3> QED BY <1>5, <3>1, <3>2, <3>3 DEF c
  <2>8. b[2] = 1 + Len(g[1]) /\ 2 \in 1..n + 1
    <3>1. 1 \in 1..n /\ 1 + 1 = 2
      BY <1>3
    <3> QED BY <1>3, <1>4, <3>1
  <2>9. ASSUME NEW k \in 1..n - 1 PROVE a[k + 1] = a[k] + Len(j[k])
    <3>1. k \in 1..n /\ k + 1 \in 2..n
      OBVIOUS
    <3>2. CASE k = 1
      <4>1. a[2] = b[2] + c /\ a[1] = 1
        BY <2>5, <3>1, <3>2
      <4> QED BY <2>1, <2>7, <2>8, <3>2, <4>1
    <3>3. CASE k # 1
      <4>1. k \in 2..n /\ j[k] = g[k]
        BY <1>9, <1>10, <3>3
      <4>2. a[k] = b[k] + c /\ a[k + 1] = b[k + 1] + c /\ b[k + 1] = b[k] + Len(g[k])
        BY <1>4, <2>5, <3>1, <4>1
      <4>3. b[k] \in Int /\ Len(g[k]) \in Nat
        <5>1. k \in 1..n + 1
          OBVIOUS
        <5> QED BY <1>4, <1>5, <3>1, <5>1
      <4> QED BY <2>1, <4>1, <4>2, <4>3
    <3> QED BY <3>2, <3>3
  <2>10. Begins(a, j) /\ a[Len(j) + 1] = Len(p) + 1
    <3>1. Len(j) = n - 1 /\ (n - 1) + 1 = n
      BY <1>10, <2>4
    <3>2. a[n] = l + 1
      BY <2>1, <2>4, <2>5
    <3> QED BY <1>0, <2>5, <2>9, <3>1, <3>2 DEF Begins
  <2>11. ASSUME NEW k \in 1..n - 1, NEW i \in 1..Len(j[k])
         PROVE  j[k][i] = p[m[a[k] + i - 1]]
    <3>0. k \in 1..n
      OBVIOUS
    <3>1. CASE k = 1 /\ i <= c
      <4>1. j[k][i] = g[n][i]
        BY <2>7, <3>1
      <4>2. g[n][i] = p[b[n] + i - 1]
        <5>1. i \in 1..Len(g[n])
          BY <3>1 DEF c
        <5> QED BY <1>2, <1>3, <2>1, <5>1
      <4>3. i \in 1..l /\ a[k] + i - 1 = i /\ l - c + i = (l + 1 - c) + i - 1
        BY <2>1, <2>2, <2>5, <3>1
      <4>4. m[a[k] + i - 1] = b[n] + i - 1
        BY <2>2, <2>6, <3>1, <4>3
      <4> QED BY <4>1, <4>2, <4>4
    <3>2. CASE k = 1 /\ ~(i <= c)
      <4>1. PICK d \in Nat : d = Len(g[1])
        BY <2>7
      <4>2. i \in 1..c + d
        BY <2>7, <3>2, <4>1
      <4>3. j[k][i] = g[1][i - c] /\ i - c \in 1..d
        BY <2>1, <2>7, <3>2, <4>1, <4>2
      <4>4. g[1][i - c] = p[b[1] + (i - c) - 1]
        BY <1>2, <1>3, <3>0, <3>2, <4>1, <4>3
      <4>5. b[1] + (i - c) - 1 = i - c /\ a[k] + i - 1 = i
        BY <1>4, <2>1, <2>5, <3>2
      <4>6. d <= l - c
        <5>1. b[2] <= b[n]
          <6>1. 2 \in 1..n
            BY <2>4
          <6> QED BY <1>20, <6>1
        <5>2. 1 + d <= l + 1 - c
          BY <2>2, <2>8, <4>1, <5>1
        <5> QED BY <2>1, <5>2
      <4>7. i \in 1..l
        BY <2>1, <4>2, <4>6
      <4>8. m[a[k] + i - 1] = i - c
        BY <2>6, <3>2, <4>5, <4>7
      <4> QED BY <4>3, <4>4, <4>5, <4>8
    <3>3. CASE k # 1
      <4>1. k \in 2..n /\ j[k] = g[k]
        BY <1>9, <1>10, <3>3
      <4>2. PICK x \in Int, d \in Nat : x = b[k] /\ d = Len(g[k]) /\ b[k + 1] = x + d
        <5>1. k \in 1..n + 1
          OBVIOUS
        <5> QED BY <1>4, <1>5, <3>0, <5>1
      <4>3. i \in 1..d /\ 1 <= x
        BY <1>6, <3>0, <4>1, <4>2
      <4>4. x + d <= l + 1 - c
        <5>1. b[k + 1] <= b[n]
          <6>1. k + 1 \in 1..n
            OBVIOUS
          <6> QED BY <1>20, <6>1
        <5> QED BY <2>2, <4>2, <5>1
      <4>5. a[k] + i - 1 = x + c + i - 1 /\ b[k] + i - 1 = x + i - 1
        BY <2>5, <4>1, <4>2
      <4>6. /\ x + c + i - 1 \in 1..l /\ ~(x + c + i - 1 <= c)
            /\ (x + c + i - 1) - c = x + i - 1
        BY <2>1, <4>3, <4>4
      <4>7. m[a[k] + i - 1] = b[k] + i - 1
        BY <2>6, <4>5, <4>6
      <4>8. g[k][i] = p[b[k] + i - 1]
        BY <1>2, <1>3, <3>0, <4>1, <4>2, <4>3
      <4> QED BY <4>1, <4>7, <4>8
    <3> QED BY <3>1, <3>2, <3>3
  <2>12. \A k \in 1..Len(j) : \A i \in 1..Len(j[k]) : j[k][i] = p[m[a[k] + i - 1]]
    BY <1>10, <2>11
  <2>13. f(j) \in Seq(Point) /\ KeptFrom(f(j), p, m)
    <3>1. j \in Seq(Seq(Point))
      BY <1>10
    <3> QED BY <2>10, <2>12, <3>1, GroupsKeep
  <2> HIDE DEF f
  <2> QED BY <2>3, <2>13
<1> HIDE DEF f
<1>13. /\ f(Join(g, p)) \in Seq(Point)
       /\ ~(n = 1 /\ Connected(p)) =>
             \E m : Permutes(m, Len(p)) /\ KeptFrom(f(Join(g, p)), p, m)
  <2>1. CASE Connected(p)
    BY <1>8, <1>11, <1>12, <2>1
  <2>2. CASE ~Connected(p)
    BY <1>7, <1>8, <2>2
  <2> QED BY <2>1, <2>2
<1> QED BY <1>3, <1>13 DEF f, g

-----------------------------------------------------------------------------
(* What the filters keep.                                                     *)

\* t has the points of s at other places, as they were, or zeroed if they are near.
FilteredFrom(t, s, m) ==
  /\ Len(t) = Len(s)
  /\ \A j \in 1..Len(s) : \/ t[j] = s[m[j]]
                          \/ t[j] = Zeroed(s[m[j]]) /\ Near(s[m[j]])

ClosesAround(s) ==
  LET near == Pending(s)
  IN  near # <<>> /\ Len(Groups(near)) = 1 /\ Connected(near)

\* The near points, in the order of their angles, are those of the scan.
LEMMA PendingIs ==
  ASSUME NEW s \in Seq(Point), Increasing(s)
  PROVE  /\ NearOnes(s) \in SUBSET (1..Len(s))
         /\ Pending(s) \in Seq(Point)
         /\ Pending(s) = Selected(s, NearOnes(s))
<1>1. NearOnes(s) \in SUBSET (1..Len(s))
  BY DEF NearOnes
<1>2. /\ Selected(s, NearOnes(s)) \in Seq(Point)
      /\ Increasing(Selected(s, NearOnes(s)))
  BY <1>1, SelectedIs
<1> QED BY <1>1, <1>2, ByAngleKeeps DEF Pending

\* What NearFilter makes of the near points.
NearPart(s) ==
  FlattenSeq(JudgedGroups(
    IF Pending(s) = <<>> THEN <<>> ELSE Join(Groups(Pending(s)), Pending(s))))

\* It is taken from the near points, each once, unless they close around.
LEMMA NearPartIs ==
  ASSUME NEW s \in Seq(Point), Increasing(s)
  PROVE  /\ NearPart(s) \in Seq(Point)
         /\ ~ClosesAround(s) =>
              \E m : /\ Permutes(m, Len(Pending(s)))
                     /\ KeptFrom(NearPart(s), Pending(s), m)
<1> DEFINE p == Pending(s)
<1>1. p \in Seq(Point)
  BY PendingIs
<1>2. CASE p = <<>>
  <2> DEFINE e == JudgedGroups(<<>>)
  <2>1. NearPart(s) = FlattenSeq(e)
    BY <1>2 DEF NearPart
  <2>2. e \in Seq(Seq(Point)) /\ Len(e) = 0
    <3>1. <<>> \in Seq(Seq(Point)) /\ Len(<<>>) = 0
      BY EmptySeq
    <3> QED BY <3>1, JudgedGroupsIs
  <2> HIDE DEF e
  <2>3. PICK a : a = [k \in 1..1 |-> 1]
    OBVIOUS
  <2>4. a \in [1..0 + 1 -> Int] /\ a[1] = 1 /\ 1..0 = {}
    BY <2>3
  <2>5. Begins(a, e) /\ a[Len(e) + 1] - 1 = 0
    BY <2>2, <2>4 DEF Begins
  <2>6. FlattenSeq(e) \in Seq(Point) /\ Len(FlattenSeq(e)) = 0
    BY <2>2, <2>5, FlattenIs
  <2>7. Len(p) = 0
    BY <1>2
  <2>8. PICK m : m = [k \in 1..0 |-> k]
    OBVIOUS
  <2>9. Permutes(m, 0)
    BY <2>8 DEF Permutes
  <2>10. KeptFrom(FlattenSeq(e), p, m)
    BY <2>6, <2>7 DEF KeptFrom
  <2> QED BY <2>1, <2>6, <2>7, <2>9, <2>10
<1>3. CASE p # <<>>
  <2> DEFINE f == FlattenSeq(JudgedGroups(Join(Groups(p), p)))
  <2>1. NearPart(s) = f
    BY <1>3 DEF NearPart
  <2>2. /\ f \in Seq(Point)
        /\ ~(Len(Groups(p)) = 1 /\ Connected(p)) =>
             \E m : Permutes(m, Len(p)) /\ KeptFrom(f, p, m)
    <3> HIDE DEF p
    <3> QED BY <1>1, <1>3, JoinedGroupsKeep
  <2> QED BY <1>3, <2>1, <2>2 DEF ClosesAround
<1> QED BY <1>2, <1>3

\* So is the result of NearFilter from all points: far ones first, then near.
LEMMA NearFilterIs ==
  ASSUME NEW s \in Seq(Point), Increasing(s)
  PROVE  /\ NearFilter(s) \in Seq(Point)
         /\ ~ClosesAround(s) =>
              \E m : Permutes(m, Len(s)) /\ FilteredFrom(NearFilter(s), s, m)
<1> DEFINE N == NearOnes(s)
           F == (1..Len(s)) \ N
           far == Selected(s, F)
           near == NearPart(s)
           p == Pending(s)
           t == NearFilter(s)
<1>0. PICK n \in Nat : n = Len(s)
  BY LenProperties
<1>1. N \in SUBSET (1..Len(s)) /\ p \in Seq(Point) /\ p = Selected(s, N)
  BY PendingIs
<1>2. t = far \o near
  BY DEF NearFilter, NearPart, JudgedGroups
<1> HIDE DEF N, p, t
<1>3. PICK a \in Nat : a = Cardinality(F)
  BY <1>1, SelectedIs
<1>4. PICK c \in Nat : c = Cardinality(N)
  BY <1>1, SelectedIs
<1>5. a + c = n
  <2>1. IsFiniteSet(1..n) /\ Cardinality(1..n) = n
    BY FS_Interval
  <2>2. (1..n) \cap N = N
    BY <1>0, <1>1
  <2>3. Cardinality(F) = Cardinality(1..n) - Cardinality((1..n) \cap N)
    BY <1>0, <2>1, FS_Difference
  <2>4. Cardinality((1..n) \cap N) = c
    BY <1>4, <2>2
  <2> HIDE DEF F
  <2>5. a = n - c
    BY <1>3, <2>1, <2>3, <2>4
  <2> QED BY <2>5
<1>6. PICK of : /\ of \in [1..a -> F] /\ far \in Seq(Point) /\ Len(far) = a
                /\ \A k \in 1..a : far[k] = s[of[k]]
                /\ \A i \in F : \E k \in 1..a : of[k] = i
  <2>1. F \in SUBSET (1..Len(s))
    OBVIOUS
  <2>2. /\ Ordered(F) \in [1..a -> F] /\ far \in Seq(Point) /\ Len(far) = a
        /\ \A k \in 1..a : far[k] = s[Ordered(F)[k]]
        /\ \A i \in F : \E k \in 1..a : Ordered(F)[k] = i
    <3> HIDE DEF F
    <3> QED BY <1>3, <2>1, SelectedIs
  <2> QED BY <2>2
<1>7. PICK on : /\ on \in [1..c -> N] /\ Len(p) = c
                /\ \A k \in 1..c : p[k] = s[on[k]]
                /\ \A i \in N : \E k \in 1..c : on[k] = i
  BY <1>1, <1>4, SelectedIs
<1>8. near \in Seq(Point)
  BY NearPartIs
<1> HIDE DEF near, far
<1>9. /\ t \in Seq(Point) /\ Len(t) = Len(far) + Len(near)
      /\ \A j \in 1..Len(far) + Len(near) :
           t[j] = IF j <= Len(far) THEN far[j] ELSE near[j - Len(far)]
  <2>1. far \in Seq(Point)
    BY <1>6
  <2> QED BY <1>2, <1>8, <2>1, ConcatProperties
<1>10. ASSUME ~ClosesAround(s)
       PROVE  \E m : Permutes(m, Len(s)) /\ FilteredFrom(t, s, m)
  <2>1. PICK r : Permutes(r, Len(p)) /\ KeptFrom(near, p, r)
    BY <1>10, NearPartIs DEF near, p
  <2>2. /\ r \in [1..c -> 1..c] /\ \A k \in 1..c : \E j \in 1..c : r[j] = k
        /\ Len(near) = c
        /\ \A j \in 1..c : near[j] = p[r[j]] \/ near[j] = Zeroed(p[r[j]])
    BY <1>7, <2>1 DEF Permutes, KeptFrom
  <2> DEFINE m == [j \in 1..n |-> IF j <= a THEN of[j] ELSE on[r[j - a]]]
  <2>3. ASSUME NEW j \in 1..n, j <= a
        PROVE  m[j] = of[j] /\ m[j] \in 1..n /\ t[j] = s[m[j]]
    <3>1. j \in 1..a
      BY <2>3
    <3>2. m[j] = of[j]
      BY <2>3
    <3> HIDE DEF m
    <3>3. of[j] \in F /\ t[j] = far[j] /\ far[j] = s[of[j]]
      BY <1>5, <1>6, <1>9, <2>2, <3>1
    <3> QED BY <1>0, <3>2, <3>3
  <2>4. ASSUME NEW j \in 1..n, ~(j <= a)
        PROVE  /\ m[j] = on[r[j - a]] /\ m[j] \in N
               /\ t[j] = s[m[j]] \/ t[j] = Zeroed(s[m[j]])
    <3>1. j - a \in 1..c
      BY <1>5, <2>4
    <3>2. m[j] = on[r[j - a]]
      BY <2>4
    <3> HIDE DEF m
    <3>3. PICK q \in 1..c : q = r[j - a]
      BY <2>2, <3>1
    <3>4. on[q] \in N /\ p[q] = s[on[q]]
      BY <1>7
    <3>5. t[j] = near[j - a]
      BY <1>5, <1>6, <1>9, <2>2, <2>4
    <3>6. near[j - a] = p[q] \/ near[j - a] = Zeroed(p[q])
      BY <2>2, <3>1, <3>3
    <3> QED BY <3>2, <3>3, <3>4, <3>5, <3>6
  <2> HIDE DEF m
  <2>5. m \in [1..n -> 1..n]
    <3>1. \A j \in 1..n : m[j] \in 1..n
      BY <1>0, <1>1, <2>3, <2>4
    <3> QED BY <3>1 DEF m
  <2>6. ASSUME NEW k \in 1..n PROVE \E j \in 1..n : m[j] = k
    <3>1. CASE k \in N
      <4>1. PICK x \in 1..c : on[x] = k
        BY <1>7, <3>1
      <4>2. PICK y \in 1..c : r[y] = x
        BY <2>2
      <4>3. y + a \in 1..n /\ ~(y + a <= a) /\ (y + a) - a = y
        BY <1>5
      <4>4. m[y + a] = on[r[(y + a) - a]]
        BY <2>4, <4>3
      <4> QED BY <4>1, <4>2, <4>3, <4>4
    <3>2. CASE k \notin N
      <4>1. k \in F
        BY <1>0, <3>2
      <4>2. PICK x \in 1..a : of[x] = k
        BY <1>6, <4>1
      <4>3. x \in 1..n /\ x <= a
        BY <1>5
      <4> QED BY <2>3, <4>2, <4>3
    <3> QED BY <3>1, <3>2
  <2>7. Permutes(m, Len(s))
    BY <1>0, <2>5, <2>6 DEF Permutes
  <2>8. \A i \in N : Near(s[i])
    BY DEF N, NearOnes
  <2>9. Len(t) = n
    BY <1>5, <1>6, <1>9, <2>2
  <2>10. FilteredFrom(t, s, m)
    BY <1>0, <2>3, <2>4, <2>8, <2>9 DEF FilteredFrom
  <2> QED BY <2>7, <2>10
<1> QED BY <1>9, <1>10 DEF t

\* The other filter zeroes near points where they are.
LEMMA NoiseFilterIs ==
  ASSUME NEW s \in Seq(Point)
  PROVE  /\ NoiseFilter(s) \in Seq(Point)
         /\ \E m : Permutes(m, Len(s)) /\ FilteredFrom(NoiseFilter(s), s, m)
<1>0. PICK n \in Nat : n = Len(s)
  BY LenProperties
<1> DEFINE last(i) == s[IF i = 1 THEN Len(s) ELSE i - 1]
           next(i) == s[IF i = Len(s) THEN 1 ELSE i + 1]
           t == NoiseFilter(s)
<1>1. t = [i \in 1..n |-> IF IsNoise(s[i], last(i), next(i)) THEN Zeroed(s[i])
                                                             ELSE s[i]]
  BY <1>0 DEF NoiseFilter
<1>2. ASSUME NEW i \in 1..n, IsNoise(s[i], last(i), next(i)) PROVE Near(s[i])
  <2>1. s[i] \in Point
    BY <1>0, ElementOfSeq
  <2> DEFINE q == s[i]
  <2>2. q.distance \in Nat /\ q.intensity \in Nat
    BY <2>1, PointIs
  <2>3. IsNoise(q, last(i), next(i))
    BY <1>2
  <2> HIDE DEF q, last, next
  <2>4. q.distance >= 500 => ~(q.intensity < TrendLimit(q, last(i), next(i)))
    BY <2>2 DEF TrendLimit
  <2>5. q.distance < 500 => q.distance < 5000
    BY <2>2
  <2>6. q.distance < 5000
    BY <2>2, <2>3, <2>4, <2>5 DEF IsNoise
  <2> QED BY <2>6 DEF Near, q
<1> HIDE DEF last, next, t
<1>3. \A i \in 1..n : /\ t[i] = s[i] \/ (t[i] = Zeroed(s[i]) /\ Near(s[i]))
                      /\ t[i] \in Point
  <2> SUFFICES ASSUME NEW i \in 1..n
               PROVE  /\ t[i] = s[i] \/ (t[i] = Zeroed(s[i]) /\ Near(s[i]))
                      /\ t[i] \in Point
    OBVIOUS
  <2>1. s[i] \in Point /\ Zeroed(s[i]) \in Point
    BY <1>0, ElementOfSeq, PointIs
  <2> QED BY <1>1, <1>2, <2>1
<1>4. t \in [1..n -> Point]
  BY <1>1, <1>3
<1>5. t \in Seq(Point) /\ Len(t) = n
  BY <1>4, FunctionIsSeq
<1>6. PICK m \in [1..n -> 1..n] : \A j \in 1..n : m[j] = j
  <2>1. [j \in 1..n |-> j] \in [1..n -> 1..n]
    OBVIOUS
  <2> QED BY <2>1
<1>7. Permutes(m, Len(s)) /\ FilteredFrom(t, s, m)
  BY <1>0, <1>3, <1>5, <1>6 DEF Permutes, FilteredFrom
<1> QED BY <1>5, <1>7 DEF t

\* A filter loses no point: it leaves each as it is or zeroes it, if it is near,
\* and lists them in another order - unless near points close around the circle
\* (tofbf.cpp:129-136).
THEOREM FilterKeeps ==
  ASSUME NEW s \in Seq(Point), Increasing(s), NEW t
  PROVE  /\ Filter(t, s) \in Seq(Point)
         /\ ~(t \in {"LD_06", "LD_19"} /\ ClosesAround(s)) =>
              \E m : Permutes(m, Len(s)) /\ FilteredFrom(Filter(t, s), s, m)
<1> DEFINE y == Filter(t, s)
<1>0. PICK n \in Nat : n = Len(s)
  BY LenProperties
<1>1. \/ y = NearFilter(s) /\ t \in {"LD_06", "LD_19"}
      \/ y = NoiseFilter(s)
      \/ y = s
  BY DEF Filter
<1> HIDE DEF y
<1>2. CASE y = NearFilter(s) /\ t \in {"LD_06", "LD_19"}
  BY <1>2, NearFilterIs DEF y
<1>3. CASE y = NoiseFilter(s)
  BY <1>3, NoiseFilterIs DEF y
<1>4. CASE y = s
  <2>1. PICK m \in [1..n -> 1..n] : \A j \in 1..n : m[j] = j
    <3>1. [j \in 1..n |-> j] \in [1..n -> 1..n]
      OBVIOUS
    <3> QED BY <3>1
  <2>2. Permutes(m, Len(s)) /\ FilteredFrom(s, s, m)
    BY <1>0, <2>1 DEF Permutes, FilteredFrom
  <2> QED BY <1>4, <2>2 DEF y
<1> QED BY <1>1, <1>2, <1>3, <1>4

\* What the filter returns, listed by angle.  The proofs follow the points in this
\* order; the stamps may put them in another one.
ByAngleAgain(t, s) == ByAngle(Filter(t, s))

\* In this order every point has the place that it had in the scan.
LEMMA FilterKeepsPlaces ==
  ASSUME NEW s \in Seq(Point), Increasing(s), NEW t,
         ~(t \in {"LD_06", "LD_19"} /\ ClosesAround(s))
  PROVE  /\ ByAngleAgain(t, s) \in Seq(Point)
         /\ Len(ByAngleAgain(t, s)) = Len(s)
         /\ \A i \in 1..Len(s) :
              \/ ByAngleAgain(t, s)[i] = s[i]
              \/ ByAngleAgain(t, s)[i] = Zeroed(s[i]) /\ Near(s[i])
<1> DEFINE normal == Filter(t, s)
<1>0. PICK n \in Nat : n = Len(s)
  BY LenProperties
<1>1. ByAngleAgain(t, s) = ByAngle(normal)
  BY DEF ByAngleAgain
<1>2. normal \in Seq(Point) /\ \E m : Permutes(m, Len(s)) /\ FilteredFrom(normal, s, m)
  BY FilterKeeps
<1> HIDE DEF normal
<1>3. PICK m : Permutes(m, Len(s)) /\ FilteredFrom(normal, s, m)
  BY <1>2
<1>4. /\ m \in [1..n -> 1..n]
      /\ Len(normal) = Len(s)
      /\ \A j \in 1..n : \/ normal[j] = s[m[j]]
                         \/ normal[j] = Zeroed(s[m[j]]) /\ Near(s[m[j]])
  BY <1>0, <1>3 DEF Permutes, FilteredFrom
<1>5. TakenFrom(normal, s, m)
  <2>1. ASSUME NEW j \in 1..n PROVE normal[j].angle = s[m[j]].angle
    <3>1. m[j] \in 1..Len(s)
      BY <1>0, <1>4
    <3>2. s[m[j]] \in Point
      BY <3>1, ElementOfSeq
    <3>3. Zeroed(s[m[j]]).angle = s[m[j]].angle
      BY <3>2, PointIs
    <3>4. normal[j] = s[m[j]] \/ normal[j] = Zeroed(s[m[j]])
      BY <1>4
    <3> QED BY <3>3, <3>4, Zenon
  <2> QED BY <1>0, <1>4, <2>1 DEF TakenFrom
<1>6. \A k \in 1..n : \E j \in 1..n : m[j] = k /\ ByAngle(normal)[k] = normal[j]
  <2>1. \A k \in 1..Len(s) : \E j \in 1..Len(s) :
          m[j] = k /\ ByAngle(normal)[k] = normal[j]
    BY <1>2, <1>3, <1>5, ByAngleRestores
  <2> QED BY <1>0, <2>1
<1>7. ByAngle(normal) \in Seq(Point) /\ Len(ByAngle(normal)) = Len(s)
  BY <1>2, <1>4, ByAngleIs
<1>8. ASSUME NEW k \in 1..Len(s)
      PROVE  \/ ByAngle(normal)[k] = s[k]
             \/ ByAngle(normal)[k] = Zeroed(s[k]) /\ Near(s[k])
  <2>1. PICK j \in 1..n : m[j] = k /\ ByAngle(normal)[k] = normal[j]
    BY <1>0, <1>6
  <2>2. normal[j] = s[m[j]] \/ (normal[j] = Zeroed(s[m[j]]) /\ Near(s[m[j]]))
    BY <1>4
  <2> QED BY <2>1, <2>2, Zenon
<1> QED BY <1>1, <1>7, <1>8

\* Sequences that follow each other begin somewhere.
LEMMA BeginsExists ==
  ASSUME NEW g \in Seq(Seq(Point))
  PROVE  \E b : Begins(b, g)
<1> DEFINE P(m, b) == /\ b \in [1..m + 1 -> Int] /\ b[1] = 1
                      /\ \A k \in 1..m : b[k + 1] = b[k] + Len(g[k])
           D == {m \in 0..Len(g) : \E b : P(m, b)}
<1>0. PICK n \in Nat : n = Len(g)
  BY LenProperties
<1>1. 0 \in D
  <2>1. PICK b : b = [k \in 1..1 |-> 1]
    OBVIOUS
  <2>2. b \in [1..0 + 1 -> Int] /\ b[1] = 1 /\ 1..0 = {}
    BY <2>1
  <2>3. P(0, b)
    BY <2>2
  <2> HIDE DEF P
  <2> QED BY <1>0, <2>3
<1>2. ASSUME NEW m \in 0..n - 1, m \in D PROVE m + 1 \in D
  <2>1. PICK b : P(m, b)
    BY <1>2
  <2>2. g[m + 1] \in Seq(Point) /\ Len(g[m + 1]) \in Nat
    <3>1. m + 1 \in 1..Len(g)
      BY <1>0
    <3>2. g[m + 1] \in Seq(Point)
      BY <3>1, ElementOfSeq
    <3> QED BY <3>2, LenProperties
  <2>3. PICK e \in Int : e = b[m + 1] + Len(g[m + 1])
    <3>1. m + 1 \in 1..m + 1
      OBVIOUS
    <3> QED BY <2>1, <2>2, <3>1
  <2> DEFINE a == [k \in 1..m + 1 + 1 |-> IF k = m + 1 + 1 THEN e ELSE b[k]]
  <2>4. a[m + 1 + 1] = e /\ \A k \in 1..m + 1 : a[k] = b[k]
    OBVIOUS
  <2>5. a \in [1..m + 1 + 1 -> Int]
    BY <2>1
  <2> HIDE DEF a
  <2>6. ASSUME NEW k \in 1..m + 1 PROVE a[k + 1] = a[k] + Len(g[k])
    <3>1. CASE k = m + 1
      BY <2>3, <2>4, <3>1
    <3>2. CASE k # m + 1
      <4>1. k \in 1..m /\ k + 1 \in 1..m + 1
        BY <3>2
      <4> QED BY <2>1, <2>4, <4>1
    <3> QED BY <3>1, <3>2
  <2>7. a[1] = 1
    <3>1. 1 \in 1..m + 1
      OBVIOUS
    <3> QED BY <2>1, <2>4, <3>1
  <2>8. P(m + 1, a)
    BY <2>5, <2>6, <2>7
  <2>9. m + 1 \in 0..Len(g)
    BY <1>0
  <2> HIDE DEF P
  <2> QED BY <2>8, <2>9
<1> HIDE DEF D
<1>3. n \in D
  <2>1. \A k \in 0..n : k \in D
    <3> HIDE DEF P
    <3> QED BY <1>1, <1>2, Induction
  <2> QED BY <2>1
<1>4. PICK b : P(n, b)
  <2> HIDE DEF P
  <2> QED BY <1>3 DEF D
<1> QED BY <1>0, <1>4 DEF Begins

\* Every element of the sequences is in the flattened one.
LEMMA FlattenHolds ==
  ASSUME NEW g \in Seq(Seq(Point)), NEW k \in 1..Len(g), NEW i \in 1..Len(g[k])
  PROVE  \E j \in 1..Len(FlattenSeq(g)) : FlattenSeq(g)[j] = g[k][i]
<1> DEFINE f == FlattenSeq(g)
<1>0. PICK n \in Nat : n = Len(g)
  BY LenProperties
<1>1. PICK b : Begins(b, g)
  BY BeginsExists
<1>2. /\ Len(f) = b[n + 1] - 1
      /\ 1 <= b[k] /\ b[k + 1] <= b[n + 1]
      /\ f[b[k] + i - 1] = g[k][i]
  BY <1>0, <1>1, FlattenIs
<1> HIDE DEF f
<1>3. /\ b[k] \in Int /\ b[n + 1] \in Int
      /\ b[k + 1] = b[k] + Len(g[k])
  <2>1. k \in 1..n + 1 /\ n + 1 \in 1..n + 1
    BY <1>0
  <2> QED BY <1>0, <1>1, <2>1 DEF Begins
<1>4. PICK c \in Int, d \in Nat, e \in Int : c = b[k] /\ d = Len(g[k]) /\ e = b[n + 1]
  <2>1. g[k] \in Seq(Point)
    BY ElementOfSeq
  <2> QED BY <1>3, <2>1, LenProperties
<1>5. i \in 1..d /\ 1 <= c /\ c + d <= e /\ Len(f) = e - 1
  BY <1>2, <1>3, <1>4
<1>6. c + i - 1 \in 1..Len(f)
  BY <1>5
<1>7. f[c + i - 1] = g[k][i]
  BY <1>2, <1>4
<1> QED BY <1>6, <1>7 DEF f

\* A sorted sequence has every element.
LEMMA ByAngleHas ==
  ASSUME NEW s \in Seq(Point), NEW i \in 1..Len(s)
  PROVE  \E k \in 1..Len(ByAngle(s)) : ByAngle(s)[k] = s[i]
<1>1. PICK k \in 1..Len(s) : k = Cardinality(UptoAngle(s, i))
  BY UptoAngleCount
<1>2. PICK j \in 1..Len(s) : Cardinality(UptoAngle(s, j)) = k /\ ByAngle(s)[k] = s[j]
  BY ByAngleIs
<1>3. j = i
  <2> SUFFICES ASSUME j # i PROVE FALSE
    OBVIOUS
  <2>1. \/ Cardinality(UptoAngle(s, i)) < Cardinality(UptoAngle(s, j))
        \/ Cardinality(UptoAngle(s, j)) < Cardinality(UptoAngle(s, i))
    BY UptoAngleTotal, UptoAngleGrows
  <2>2. k \in Int
    BY <1>1, LenProperties
  <2> QED BY <1>1, <1>2, <2>1, <2>2
<1> QED BY <1>2, <1>3, ByAngleIs

\* Sorting by angle leaves the set of points as it is.
LEMMA ByAngleSame ==
  ASSUME NEW s \in Seq(Point)
  PROVE  ToSet(ByAngle(s)) = ToSet(s)
<1> DEFINE t == ByAngle(s)
<1>1. /\ t \in Seq(Point) /\ Len(t) = Len(s)
      /\ \A k \in 1..Len(s) : \E i \in 1..Len(s) : t[k] = s[i]
  BY ByAngleIs
<1>2. \A i \in 1..Len(s) : \E k \in 1..Len(t) : t[k] = s[i]
  BY ByAngleHas
<1> HIDE DEF t
<1>3. DOMAIN s = 1..Len(s) /\ DOMAIN t = 1..Len(t)
  BY <1>1, LenProperties
<1>4. \A x : x \in ToSet(t) <=> x \in ToSet(s)
  <2>1. ToSet(s) = {s[i] : i \in 1..Len(s)} /\ ToSet(t) = {t[i] : i \in 1..Len(t)}
    BY <1>3 DEF ToSet
  <2> QED BY <1>1, <1>2, <2>1
<1>5. ToSet(t) = ToSet(s)
  BY <1>4
<1> QED BY <1>5 DEF t

\* Joining puts the last group in front of the first.
LEMMA JoinedIs ==
  ASSUME NEW g \in Seq(Seq(Point)), NEW n \in Nat, n = Len(g), n >= 2,
         NEW p, Connected(p)
  PROVE  /\ Join(g, p) \in Seq(Seq(Point)) /\ Len(Join(g, p)) = n - 1
         /\ Join(g, p)[1] = g[n] \o g[1]
         /\ \A k \in 2..n - 1 : Join(g, p)[k] = g[k]
<1> DEFINE h == [g EXCEPT ![1] = Last(g) \o @]
           j == Front(h)
<1>1. Join(g, p) = j
  BY DEF Join
<1>2. /\ h \in Seq(Seq(Point)) /\ Len(h) = n
      /\ h[1] = g[n] \o g[1] /\ \A k \in 2..n : h[k] = g[k]
  <2>1. 1 \in 1..n /\ n \in 1..n
    OBVIOUS
  <2>2. Last(g) = g[n] /\ g[n] \in Seq(Point) /\ g[1] \in Seq(Point)
    BY <2>1, ElementOfSeq DEF Last
  <2>3. g[n] \o g[1] \in Seq(Point)
    BY <2>2, ConcatProperties
  <2>4. g \in [1..n -> Seq(Point)]
    BY LenProperties
  <2>5. h = [g EXCEPT ![1] = g[n] \o g[1]]
    BY <2>2
  <2> HIDE DEF h
  <2>6. PICK w \in Seq(Point) : w = g[n] \o g[1]
    BY <2>3
  <2>7. h = [g EXCEPT ![1] = w]
    BY <2>5, <2>6
  <2>8. h \in [1..n -> Seq(Point)] /\ h[1] = w
    BY <2>1, <2>4, <2>7
  <2>9. \A k \in 2..n : h[k] = g[k]
    <3>1. \A k \in 2..n : k \in 1..n /\ k # 1
      OBVIOUS
    <3> QED BY <2>4, <2>7, <3>1
  <2> QED BY <2>6, <2>8, <2>9, FunctionIsSeq
<1>3. /\ j \in Seq(Seq(Point)) /\ Len(j) = n - 1
      /\ \A k \in 1..n - 1 : j[k] = h[k]
  <2> HIDE DEF h
  <2>1. \A k \in 1..n - 1 : h[k] \in Seq(Point)
    <3>1. \A k \in 1..n - 1 : k \in 1..Len(h)
      BY <1>2
    <3> QED BY <1>2, <3>1, ElementOfSeq
  <2>2. j = SubSeq(h, 1, n - 1)
    BY <1>2 DEF Front
  <2>3. /\ SubSeq(h, 1, n - 1) \in Seq(Seq(Point))
        /\ Len(SubSeq(h, 1, n - 1)) = IF 1 <= n - 1 THEN (n - 1) - 1 + 1 ELSE 0
        /\ \A k \in 1..(n - 1) - 1 + 1 : SubSeq(h, 1, n - 1)[k] = h[1 + k - 1]
    <3>1. 1 \in Int /\ n - 1 \in Int
      OBVIOUS
    <3> QED BY <2>1, <3>1, SubSeqProperties
  <2>4. \A k \in 1..n - 1 : k \in 1..(n - 1) - 1 + 1 /\ 1 + k - 1 = k
    OBVIOUS
  <2>5. (IF 1 <= n - 1 THEN (n - 1) - 1 + 1 ELSE 0) = n - 1
    OBVIOUS
  <2> HIDE DEF j
  <2> QED BY <2>2, <2>3, <2>4, <2>5
<1> HIDE DEF h, j
<1>4. 1 \in 1..n - 1 /\ \A k \in 2..n - 1 : k \in 1..n - 1 /\ k \in 2..n
  OBVIOUS
<1> QED BY <1>1, <1>2, <1>3, <1>4

-----------------------------------------------------------------------------
(* The groups around the circle.                                              *)

\* The i-th point, counted around the circle.
At(n, i) == IF i > n THEN i - n ELSE i

\* The i-th point continues the one before it, which is the last for the first.
Links(p, i) == IF i = 1 THEN Connected(p) ELSE ~Breaks(p[i - 1], p[i])

\* The l points from the h-th on are a group, whichever point is the first.
GroupAt(p, h, l) ==
  /\ ~Links(p, h)
  /\ \A i \in 1..l - 1 : Links(p, At(Len(p), h + i))
  /\ ~Links(p, At(Len(p), h + l))

Arc(p, h, l) == [i \in 1..l |-> p[At(Len(p), h + i - 1)]]

\* An arc holds the points around the circle from its beginning on.
LEMMA ArcIs ==
  ASSUME NEW p \in Seq(Point), NEW h \in 1..Len(p), NEW l \in 1..Len(p)
  PROVE  /\ Arc(p, h, l) \in Seq(Point) /\ Len(Arc(p, h, l)) = l
         /\ \A i \in 1..l : /\ At(Len(p), h + i - 1) \in 1..Len(p)
                            /\ Arc(p, h, l)[i] = p[At(Len(p), h + i - 1)]
<1>0. PICK n \in Nat : n = Len(p)
  BY LenProperties
<1>1. \A i \in 1..l : At(n, h + i - 1) \in 1..n
  BY <1>0 DEF At
<1>2. \A i \in 1..l : Arc(p, h, l)[i] = p[At(n, h + i - 1)]
  BY <1>0 DEF Arc
<1>3. \A i \in 1..l : p[At(n, h + i - 1)] \in Point
  BY <1>0, <1>1, ElementOfSeq
<1>4. Arc(p, h, l) \in [1..l -> Point]
  BY <1>0, <1>3 DEF Arc
<1>5. l \in Nat
  BY <1>0
<1> QED BY <1>0, <1>1, <1>2, <1>4, <1>5, FunctionIsSeq

\* The points from h to before e are between two breaks, or an end and a break.
Stretch(p, h, e) ==
  /\ h = 1 \/ Breaks(p[h - 1], p[h])
  /\ \A i \in h + 1..e - 1 : ~Breaks(p[i - 1], p[i])
  /\ e = Len(p) + 1 \/ Breaks(p[e - 1], p[e])

\* They are one of the groups.
LEMMA StraightGroup ==
  ASSUME NEW p \in Seq(Point), NEW n \in Nat, NEW m \in Nat, NEW b, Cut(p, b, n, m),
         NEW h \in 1..n, NEW e \in h + 1..n + 1, Stretch(p, h, e)
  PROVE  \E k \in 1..m : b[k] = h /\ b[k + 1] = e
<1>0. /\ n = Len(p) /\ m = Len(Groups(p))
      /\ Begins(b, Groups(p)) /\ b[m + 1] = n + 1
      /\ BreaksBegin(b, p)
  BY DEF Cut
<1>9. /\ h = 1 \/ Breaks(p[h - 1], p[h])
      /\ \A i \in h + 1..e - 1 : ~Breaks(p[i - 1], p[i])
      /\ e = n + 1 \/ Breaks(p[e - 1], p[e])
  BY <1>0 DEF Stretch
<1>1. /\ b \in [1..m + 1 -> Int] /\ b[1] = 1
  BY <1>0 DEF Begins
<1>2. PICK k \in 1..m : b[k] <= h /\ h < b[k + 1]
  <2>1. h \in Int /\ b[1] <= h /\ h < b[m + 1]
    BY <1>0, <1>1
  <2> QED BY <1>1, <2>1, Covered
<1>3. PICK c \in Int, d \in Int : c = b[k] /\ d = b[k + 1]
  <2>1. k \in 1..m + 1 /\ k + 1 \in 1..m + 1
    OBVIOUS
  <2> QED BY <1>1, <2>1
<1>4. /\ c \in 1..n /\ c < d
      /\ \A i \in c..d - 1 : i = c <=> (i = 1 \/ Breaks(p[i - 1], p[i]))
  BY <1>0, <1>3 DEF BreaksBegin
<1>5. c = h
  <2>1. h \in c..d - 1
    BY <1>2, <1>3
  <2> QED BY <1>4, <1>9, <2>1
<1>6. ~(e < d)
  <2> SUFFICES ASSUME e < d PROVE FALSE
    OBVIOUS
  <2>1. d <= n + 1
    <3>1. \A q \in 0..m : \A r \in 1..q + 1 : b[r] <= b[q + 1]
      <4>1. ASSUME NEW r \in 1..m PROVE b[r] <= b[r + 1]
        <5>1. b[r] < b[r + 1] /\ b[r] \in Int /\ b[r + 1] \in Int
          <6>1. r \in 1..m + 1 /\ r + 1 \in 1..m + 1
            OBVIOUS
          <6> QED BY <1>0, <1>1, <6>1 DEF BreaksBegin
        <5> QED BY <5>1
      <4> QED BY <1>1, <4>1, GrowsFrom1
    <3>2. k + 1 \in 1..m + 1 /\ m \in 0..m
      OBVIOUS
    <3> QED BY <1>0, <1>3, <3>1, <3>2
  <2>2. e \in c..d - 1 /\ e # c /\ e # n + 1
    BY <1>5, <2>1
  <2> QED BY <1>4, <1>9, <2>2
<1>7. ~(d < e)
  <2> SUFFICES ASSUME d < e PROVE FALSE
    OBVIOUS
  <2>1. k + 1 \in 1..m
    <3>1. ASSUME k = m PROVE FALSE
      <4>1. d = n + 1
        BY <1>0, <1>3, <3>1
      <4> QED BY <4>1
    <3> QED BY <3>1
  <2>2. d \in 1..n /\ d < b[k + 1 + 1] /\ b[k + 1 + 1] \in Int
    <3>1. k + 1 + 1 \in 1..m + 1
      BY <2>1
    <3> QED BY <1>0, <1>1, <1>3, <2>1, <3>1 DEF BreaksBegin
  <2>3. d \in d..b[k + 1 + 1] - 1
    BY <2>2
  <2>4. d = 1 \/ Breaks(p[d - 1], p[d])
    BY <1>0, <1>3, <2>1, <2>3 DEF BreaksBegin
  <2>5. d \in h + 1..e - 1 /\ d # 1
    BY <1>4, <1>5
  <2> QED BY <1>9, <2>4, <2>5
<1>8. d = e
  BY <1>6, <1>7
<1> QED BY <1>3, <1>5, <1>8

\* Such a group that does not reach over the last point is one of Groups.
StraightAt(p, h, l) ==
  /\ h \in 1..Len(p) /\ l \in 1..Len(p) /\ h + l <= Len(p) + 1
  /\ Stretch(p, h, h + l)
IsGroup(p, b, h, l) ==
  \E k \in 1..Len(Groups(p)) :
    b[k] = h /\ b[k + 1] = h + l /\ Groups(p)[k] = Arc(p, h, l)

\* A stretch that does not reach over the last point is the group it cuts out.
LEMMA StraightArc ==
  ASSUME NEW p \in Seq(Point), p # <<>>, NEW b,
         Cut(p, b, Len(p), Len(Groups(p))), NEW h, NEW l, StraightAt(p, h, l)
  PROVE  IsGroup(p, b, h, l)
<1>9. PICK n \in Nat, m \in Nat : n = Len(p) /\ m = Len(Groups(p))
  BY GroupsIs, LenProperties
<1>10. /\ Cut(p, b, n, m)
       /\ h \in 1..n /\ l \in 1..n /\ h + l <= n + 1 /\ Stretch(p, h, h + l)
  BY <1>9 DEF StraightAt
<1> DEFINE g == Groups(p)
<1>0. /\ n = Len(p) /\ m = Len(g) /\ Begins(b, g)
      /\ \A k \in 1..m : \A i \in 1..Len(g[k]) : g[k][i] = p[b[k] + i - 1]
  BY <1>10 DEF Cut
<1>1. PICK k \in 1..m : b[k] = h /\ b[k + 1] = h + l
  <2>1. PICK e \in h + 1..n + 1 : e = h + l
    BY <1>10
  <2>2. Stretch(p, h, e)
    BY <1>10, <2>1
  <2>3. \E k \in 1..m : b[k] = h /\ b[k + 1] = e
    BY <1>10, <2>2, StraightGroup
  <2> QED BY <2>1, <2>3
<1>2. g \in Seq(Seq(Point)) /\ g[k] \in Seq(Point) /\ Len(g[k]) = l
  <2>1. g \in Seq(Seq(Point))
    BY GroupsIs
  <2>2. g[k] \in Seq(Point)
    BY <1>0, <2>1, ElementOfSeq
  <2>3. Len(g[k]) \in Nat /\ b[k + 1] = b[k] + Len(g[k])
    BY <1>0, <2>2, LenProperties DEF Begins
  <2>4. h + l = h + Len(g[k])
    BY <1>1, <2>3
  <2> QED BY <1>10, <2>4, <2>1, <2>2, <2>3
<1>3. /\ Arc(p, h, l) \in Seq(Point) /\ Len(Arc(p, h, l)) = l
      /\ \A i \in 1..l : Arc(p, h, l)[i] = p[At(n, h + i - 1)]
  BY <1>0, <1>10, ArcIs
<1>4. \A i \in 1..l : At(n, h + i - 1) = h + i - 1
  BY <1>10 DEF At
<1>5. \A i \in 1..l : g[k][i] = p[h + i - 1]
  BY <1>0, <1>1, <1>2
<1>6. g[k] = Arc(p, h, l)
  <2>1. \A i \in 1..l : g[k][i] = Arc(p, h, l)[i]
    <3> HIDE DEF g
    <3> QED BY <1>3, <1>4, <1>5
  <2> DEFINE x == g[k]
             y == Arc(p, h, l)
  <2>2. x \in Seq(Point) /\ y \in Seq(Point) /\ Len(x) = l /\ Len(y) = l
    BY <1>2, <1>3
  <2>3. \A i \in 1..Len(x) : x[i] = y[i]
    BY <2>1, <2>2
  <2> HIDE DEF x, y
  <2>4. x = y
    BY <2>2, <2>3, SeqEqual
  <2> QED BY <2>4 DEF x, y
<1> QED BY <1>0, <1>1, <1>6 DEF IsGroup

\* A group around the circle is one of those that NearFilter judges.
LEMMA GroupIsJoined ==
  ASSUME NEW p \in Seq(Point), p # <<>>, ~(Len(Groups(p)) = 1 /\ Connected(p)),
         NEW h \in 1..Len(p), NEW l \in 1..Len(p), GroupAt(p, h, l)
  PROVE  /\ Join(Groups(p), p) \in Seq(Seq(Point))
         /\ \E k \in 1..Len(Join(Groups(p), p)) :
              Join(Groups(p), p)[k] = Arc(p, h, l)
<1> DEFINE g == Groups(p)
           j == Join(Groups(p), p)
<1>0. PICK n \in Nat : n = Len(p)
  BY LenProperties
<1>1. g \in Seq(Seq(Point)) /\ Len(g) >= 1
  BY GroupsIs
<1>2. PICK m \in Nat : m = Len(g) /\ m >= 1
  BY <1>1, LenProperties
<1>3. PICK b : Cut(p, b, n, m)
  BY <1>0, <1>2, GroupsIs
<1>14. ASSUME NEW w \in 1..n, NEW v \in 1..n, w + v <= n + 1, Stretch(p, w, w + v)
       PROVE  \E k \in 1..m : b[k] = w /\ b[k + 1] = w + v /\ g[k] = Arc(p, w, v)
  <2>1. StraightAt(p, w, v)
    BY <1>0, <1>14 DEF StraightAt
  <2>2. IsGroup(p, b, w, v)
    BY <1>0, <1>2, <1>3, <2>1, StraightArc
  <2> QED BY <1>2, <2>2 DEF IsGroup
<1>4. /\ h \in 1..n /\ l \in 1..n /\ ~Links(p, h) /\ ~Links(p, At(n, h + l))
      /\ \A i \in 1..l - 1 : Links(p, At(n, h + i))
  BY <1>0 DEF GroupAt
<1>5. h # 1 => Breaks(p[h - 1], p[h])
  BY <1>4 DEF Links
<1>6. Connected(p) => h # 1 /\ h + l # n + 1
  <2>1. h + l = n + 1 => At(n, h + l) = 1
    BY <1>4 DEF At
  <2> QED BY <1>4, <2>1 DEF Links
<1>7. \A i \in h + 1..n : i < h + l => ~Breaks(p[i - 1], p[i])
  <2> SUFFICES ASSUME NEW i \in h + 1..n, i < h + l PROVE ~Breaks(p[i - 1], p[i])
    OBVIOUS
  <2>1. i - h \in 1..l - 1 /\ At(n, h + (i - h)) = i /\ i # 1
    BY <1>4 DEF At
  <2>2. Links(p, i)
    BY <1>4, <2>1
  <2> QED BY <2>1, <2>2 DEF Links
<1>8. /\ Connected(p) => /\ j \in Seq(Seq(Point)) /\ Len(j) = m - 1 /\ m >= 2
                         /\ j[1] = g[m] \o g[1]
                         /\ \A k \in 2..m - 1 : j[k] = g[k]
      /\ ~Connected(p) => j = g
  <2>1. CASE Connected(p)
    <3>1. m >= 2
      BY <1>2, <2>1
    <3> QED BY <1>1, <1>2, <2>1, <3>1, JoinedIs
  <2>2. CASE ~Connected(p)
    BY <2>2 DEF Join
  <2> QED BY <2>1, <2>2
<1>9. j \in Seq(Seq(Point))
  BY <1>1, <1>8
<1>10. /\ \A k \in 1..m : b[k] \in 1..n
       /\ b[1] = 1 /\ b \in [1..m + 1 -> Int]
       /\ \A k \in 1..m : b[k] < b[k + 1]
  BY <1>0, <1>2, <1>3 DEF Cut, BreaksBegin, Begins
<1>11. ASSUME h + l <= n + 1 PROVE \E k \in 1..Len(j) : j[k] = Arc(p, h, l)
  <2>1. \A i \in h + 1..h + l - 1 : ~Breaks(p[i - 1], p[i])
    <3>1. \A i \in h + 1..h + l - 1 : i \in h + 1..n /\ i < h + l
      BY <1>4, <1>11
    <3> QED BY <1>7, <3>1
  <2>2. h + l = n + 1 \/ Breaks(p[h + l - 1], p[h + l])
    <3> SUFFICES ASSUME h + l # n + 1 PROVE Breaks(p[h + l - 1], p[h + l])
      OBVIOUS
    <3>1. At(n, h + l) = h + l /\ h + l # 1
      BY <1>4, <1>11 DEF At
    <3>2. ~Links(p, h + l)
      BY <1>4, <3>1
    <3> QED BY <3>1, <3>2 DEF Links
  <2>3. h = 1 \/ Breaks(p[h - 1], p[h])
    BY <1>5
  <2>4. PICK k \in 1..m : b[k] = h /\ b[k + 1] = h + l /\ g[k] = Arc(p, h, l)
    <3>1. Stretch(p, h, h + l)
      BY <1>0, <2>1, <2>2, <2>3 DEF Stretch
    <3> QED BY <1>4, <1>11, <1>14, <3>1
  <2>5. CASE ~Connected(p)
    <3> HIDE DEF g, j
    <3> QED BY <1>2, <1>8, <2>4, <2>5
  <2>6. CASE Connected(p)
    <3>1. k # 1
      BY <1>6, <1>10, <2>4, <2>6
    <3>2. k # m
      BY <1>3, <1>6, <2>4, <2>6 DEF Cut
    <3>3. k \in 2..m - 1 /\ k \in 1..m - 1
      BY <3>1, <3>2
    <3> HIDE DEF g, j
    <3>4. Len(j) = m - 1 /\ \A i \in 2..m - 1 : j[i] = g[i]
      BY <1>8, <2>6
    <3> QED BY <2>4, <3>3, <3>4
  <2> QED BY <2>5, <2>6
<1>12. ASSUME ~(h + l <= n + 1) PROVE \E k \in 1..Len(j) : j[k] = Arc(p, h, l)
  <2>0. PICK e \in Int, c \in Int : e = h + l - n /\ c = n + 1 - h
    BY <1>4
  <2>1. e \in 2..n /\ e <= h /\ c \in 1..l - 1 /\ At(n, h + c) = 1 /\ At(n, h + l) = e
    BY <1>4, <1>12, <2>0 DEF At
  <2>2. Connected(p)
    <3>1. Links(p, 1)
      BY <1>4, <2>1
    <3> QED BY <3>1 DEF Links
  <2>3. h # 1 /\ m >= 2
    BY <1>6, <1>8, <2>2
  <2>4. Breaks(p[e - 1], p[e])
    <3>1. ~Links(p, e) /\ e # 1
      BY <1>4, <2>1
    <3> QED BY <3>1 DEF Links
  <2>5. \A i \in 2..e - 1 : ~Breaks(p[i - 1], p[i])
    <3> SUFFICES ASSUME NEW i \in 2..e - 1 PROVE ~Breaks(p[i - 1], p[i])
      OBVIOUS
    <3>1. i + n - h \in 1..l - 1 /\ At(n, h + (i + n - h)) = i /\ i # 1
      BY <1>4, <1>12, <2>0 DEF At
    <3>2. Links(p, i)
      BY <1>4, <3>1
    <3> QED BY <3>1, <3>2 DEF Links
  <2>6. PICK k \in 1..m : b[k] = h /\ b[k + 1] = h + c /\ g[k] = Arc(p, h, c)
    <3>1. \A i \in h + 1..h + c - 1 : ~Breaks(p[i - 1], p[i])
      <4>1. \A i \in h + 1..h + c - 1 : i \in h + 1..n /\ i < h + l
        BY <1>4, <1>12, <2>0
      <4> QED BY <1>7, <4>1
    <3>2. c \in 1..n /\ h + c <= n + 1 /\ h + c = n + 1
      BY <1>4, <2>0
    <3>3. h = 1 \/ Breaks(p[h - 1], p[h])
      BY <1>5
    <3>4. h + c = n + 1 \/ Breaks(p[h + c - 1], p[h + c])
      BY <3>2
    <3>5. Stretch(p, h, h + c)
      BY <1>0, <3>1, <3>3, <3>4 DEF Stretch
    <3>6. PICK v \in 1..n : v = c
      BY <3>2
    <3>7. h \in 1..n /\ h + v <= n + 1 /\ Stretch(p, h, h + v)
      BY <1>4, <3>2, <3>5, <3>6
    <3>8. \E k \in 1..m : b[k] = h /\ b[k + 1] = h + v /\ g[k] = Arc(p, h, v)
      BY <1>14, <3>7
    <3> QED BY <3>6, <3>8
  <2>7. k = m
    <3> SUFFICES ASSUME k # m PROVE FALSE
      OBVIOUS
    <3>1. k + 1 \in 1..m
      OBVIOUS
    <3>2. b[k + 1] \in 1..n /\ b[k + 1] = n + 1
      BY <1>4, <1>10, <2>0, <2>6, <3>1
    <3> QED BY <3>2
  <2>8. PICK q \in 1..m : b[q] = 1 /\ b[q + 1] = 1 + (e - 1) /\ g[q] = Arc(p, 1, e - 1)
    <3>1. \A i \in 1 + 1..1 + (e - 1) - 1 : ~Breaks(p[i - 1], p[i])
      <4>1. 1 + 1 = 2 /\ 1 + (e - 1) - 1 = e - 1
        BY <2>1
      <4> QED BY <2>5, <4>1
    <3>2. e - 1 \in 1..n /\ 1 + (e - 1) <= n + 1 /\ 1 \in 1..n /\ 1 + (e - 1) = e
      BY <2>1
    <3>3. 1 + (e - 1) = n + 1 \/ Breaks(p[1 + (e - 1) - 1], p[1 + (e - 1)])
      <4> QED BY <2>4, <3>2
    <3>4. PICK w \in 1..n, v \in 1..n : w = 1 /\ v = e - 1
      BY <3>2
    <3>5. /\ w = 1 \/ Breaks(p[w - 1], p[w])
          /\ \A i \in w + 1..w + v - 1 : ~Breaks(p[i - 1], p[i])
          /\ w + v = n + 1 \/ Breaks(p[w + v - 1], p[w + v])
      BY <3>1, <3>3, <3>4
    <3>6. w + v <= n + 1 /\ Stretch(p, w, w + v)
      BY <1>0, <3>2, <3>4, <3>5 DEF Stretch
    <3>7. \E q \in 1..m : b[q] = w /\ b[q + 1] = w + v /\ g[q] = Arc(p, w, v)
      BY <1>14, <3>6
    <3> QED BY <3>4, <3>7
  <2>9. q = 1
    <3> SUFFICES ASSUME q # 1 PROVE FALSE
      OBVIOUS
    <3>1. q - 1 \in 1..m /\ (q - 1) + 1 = q
      OBVIOUS
    <3>2. b[q - 1] \in 1..n /\ b[q - 1] < 1
      BY <1>10, <2>8, <3>1
    <3> QED BY <3>2
  <2>10. j[1] = Arc(p, h, c) \o Arc(p, 1, e - 1)
    <3> HIDE DEF g, j
    <3> QED BY <1>8, <2>2, <2>6, <2>7, <2>8, <2>9
  <2>11. Arc(p, h, c) \o Arc(p, 1, e - 1) = Arc(p, h, l)
    <3> DEFINE x == Arc(p, h, c)
               y == Arc(p, 1, e - 1)
               z == Arc(p, h, l)
    <3>1. c \in 1..n /\ e - 1 \in 1..n /\ 1 \in 1..n
      BY <1>4, <2>0, <2>1
    <3>2. /\ x \in Seq(Point) /\ Len(x) = c
          /\ \A i \in 1..c : x[i] = p[At(n, h + i - 1)]
      <4>1. PICK v \in 1..n : v = c
        BY <3>1
      <4>2. /\ Arc(p, h, v) \in Seq(Point) /\ Len(Arc(p, h, v)) = v
            /\ \A i \in 1..v : Arc(p, h, v)[i] = p[At(n, h + i - 1)]
        BY <1>0, <1>4, ArcIs
      <4> QED BY <4>1, <4>2
    <3>3. /\ y \in Seq(Point) /\ Len(y) = e - 1
          /\ \A i \in 1..e - 1 : y[i] = p[At(n, 1 + i - 1)]
      <4> DEFINE v == e - 1
                 w == 1
      <4>1. v \in 1..n /\ w \in 1..n
        BY <3>1
      <4> HIDE DEF v, w
      <4>2. /\ Arc(p, w, v) \in Seq(Point) /\ Len(Arc(p, w, v)) = v
            /\ \A i \in 1..v : Arc(p, w, v)[i] = p[At(n, w + i - 1)]
        BY <1>0, <4>1, ArcIs
      <4> QED BY <4>2 DEF v, w
    <3>4. /\ z \in Seq(Point) /\ Len(z) = l
          /\ \A i \in 1..l : z[i] = p[At(n, h + i - 1)]
      BY <1>0, <1>4, ArcIs
    <3>5. c + (e - 1) = l
      BY <1>4, <2>0
    <3> HIDE DEF x, y, z
    <3>6. x \o y \in Seq(Point) /\ Len(x \o y) = l
      BY <3>2, <3>3, <3>5, ConcatProperties
    <3>7. ASSUME NEW i \in 1..l PROVE (x \o y)[i] = z[i]
      <4>1. CASE i <= c
        <5>1. i \in 1..c /\ i \in 1..Len(x)
          BY <3>1, <3>2, <3>7, <4>1
        <5>2. (x \o y)[i] = x[i]
          <6>1. i \in 1..Len(x) + Len(y) /\ i <= Len(x)
            BY <3>2, <3>3, <3>5, <3>7, <4>1
          <6> QED BY <3>2, <3>3, <6>1, ConcatProperties
        <5> QED BY <3>2, <3>4, <3>7, <5>1, <5>2
      <4>2. CASE ~(i <= c)
        <5>1. i - c \in 1..e - 1 /\ At(n, 1 + (i - c) - 1) = At(n, h + i - 1)
          BY <1>4, <1>12, <2>0, <2>1, <3>7, <4>2 DEF At
        <5>2. (x \o y)[i] = y[i - c]
          <6>1. i \in 1..Len(x) + Len(y) /\ ~(i <= Len(x))
            BY <3>2, <3>3, <3>5, <3>7, <4>2
          <6>2. (x \o y)[i] = y[i - Len(x)]
            BY <3>2, <3>3, <6>1, ConcatProperties
          <6> QED BY <3>2, <6>2
        <5>3. y[i - c] = p[At(n, 1 + (i - c) - 1)]
          <6> DEFINE u == i - c
          <6>1. u \in 1..e - 1
            BY <5>1
          <6> HIDE DEF u
          <6>2. y[u] = p[At(n, 1 + u - 1)]
            BY <3>3, <6>1
          <6> QED BY <6>2 DEF u
        <5> QED BY <3>4, <3>7, <5>1, <5>2, <5>3
      <4> QED BY <4>1, <4>2
    <3>8. x \o y = z
      <4> DEFINE xy == x \o y
      <4>1. xy \in Seq(Point) /\ Len(xy) = l /\ \A i \in 1..Len(xy) : xy[i] = z[i]
        BY <3>6, <3>7
      <4> HIDE DEF xy
      <4>2. xy = z
        BY <3>4, <4>1, SeqEqual
      <4> QED BY <4>2 DEF xy
    <3> QED BY <3>8 DEF x, y, z
  <2>12. 1 \in 1..Len(j)
    BY <1>8, <2>2
  <2>13. j[1] = Arc(p, h, l)
    <3> HIDE DEF j
    <3> QED BY <2>10, <2>11
  <2> HIDE DEF j
  <2> QED BY <1>9, <2>13, <2>12
<1> QED BY <1>9, <1>11, <1>12

\* One group that closes around the circle: every point continues the one before.
LEMMA AllLinked ==
  ASSUME NEW p \in Seq(Point), p # <<>>
  PROVE  Len(Groups(p)) = 1 /\ Connected(p) <=> \A i \in 1..Len(p) : Links(p, i)
<1>1. PICK n \in Nat, m \in Nat : n = Len(p) /\ m = Len(Groups(p)) /\ m >= 1
  BY GroupsIs, LenProperties
<1>2. PICK b : Cut(p, b, n, m)
  BY <1>1, GroupsIs
<1>3. /\ b[1] = 1 /\ b[m + 1] = n + 1
      /\ \A k \in 1..m : /\ b[k] \in 1..n /\ b[k] < b[k + 1]
                         /\ \A i \in b[k]..b[k + 1] - 1 :
                              i = b[k] <=> (i = 1 \/ Breaks(p[i - 1], p[i]))
  BY <1>1, <1>2 DEF Cut, Begins, BreaksBegin
<1>4. ASSUME m = 1, Connected(p), NEW i \in 1..n PROVE Links(p, i)
  <2>1. 1 \in 1..m /\ b[1 + 1] = n + 1 /\ i \in b[1]..b[1 + 1] - 1
    BY <1>3, <1>4
  <2>2. i = b[1] <=> (i = 1 \/ Breaks(p[i - 1], p[i]))
    BY <1>3, <2>1
  <2> QED BY <1>3, <1>4, <2>2 DEF Links
<1>5. ASSUME \A i \in 1..n : Links(p, i) PROVE m = 1 /\ Connected(p)
  <2>1. 1 \in 1..n /\ 1 \in 1..m
    BY <1>1, <1>3
  <2>2. Connected(p)
    BY <1>5, <2>1 DEF Links
  <2>3. ASSUME m # 1 PROVE FALSE
    <3>1. 2 \in 1..m /\ 1 + 1 = 2
      BY <1>1, <2>3
    <3>2. PICK c \in 1..n : c = b[2]
      BY <1>3, <3>1
    <3>3. c > 1
      BY <1>3, <2>1, <3>1, <3>2
    <3>4. PICK d \in Int : d = b[2 + 1] /\ c < d
      <4>1. CASE m = 2
        BY <1>3, <3>1, <3>2, <4>1
      <4>2. CASE m # 2
        <5>1. 2 + 1 \in 1..m
          BY <1>1, <2>3, <4>2
        <5> QED BY <1>3, <3>1, <3>2, <5>1
      <4> QED BY <4>1, <4>2
    <3>5. c \in b[2]..b[2 + 1] - 1
      BY <3>2, <3>4
    <3>6. c = 1 \/ Breaks(p[c - 1], p[c])
      BY <1>3, <3>1, <3>2, <3>5
    <3>7. Links(p, c)
      BY <1>5
    <3> QED BY <3>3, <3>6, <3>7 DEF Links
  <2> QED BY <2>2, <2>3
<1> QED BY <1>1, <1>4, <1>5

\* Going around the circle meets every point.
LEMMA AtAround ==
  ASSUME NEW n \in Nat, NEW h \in 1..n, NEW i \in 1..n
  PROVE  \E k \in 1..n : At(n, h + k) = i
<1>1. CASE i > h
  <2>1. i - h \in 1..n /\ At(n, h + (i - h)) = i
    BY <1>1 DEF At
  <2> QED BY <2>1
<1>2. CASE ~(i > h)
  <2>1. i - h + n \in 1..n /\ At(n, h + (i - h + n)) = i
    BY <1>2 DEF At
  <2> QED BY <2>1
<1> QED BY <1>1, <1>2

\* So does going on from anywhere, or from before the first.
LEMMA AtOnto ==
  ASSUME NEW n \in Nat, NEW m \in 0..n, NEW i \in 1..n
  PROVE  \E k \in 1..n : At(n, m + k) = i
<1>1. CASE m = 0
  <2>1. At(n, m + i) = i
    BY <1>1 DEF At
  <2> QED BY <2>1
<1>2. CASE m # 0
  <2>1. m \in 1..n
    BY <1>2
  <2> QED BY <2>1, AtAround
<1> QED BY <1>1, <1>2

\* Every point is in a group around the circle, if the circle breaks somewhere.
LEMMA InSomeGroup ==
  ASSUME NEW p \in Seq(Point), NEW x \in 1..Len(p), NEW z \in 1..Len(p), ~Links(p, z)
  PROVE  \E h, l \in 1..Len(p) :
           /\ GroupAt(p, h, l)
           /\ \E j \in 1..l : At(Len(p), h + j - 1) = x
<1>0. PICK n \in Nat : n = Len(p)
  BY LenProperties
<1> DEFINE B == {d \in 1..n : \E h \in 1..n : ~Links(p, h) /\ At(n, h + d - 1) = x}
<1>1. PICK d \in B : \A k \in B : d <= k
  <2>1. x \in 1..n /\ z \in 1..n
    BY <1>0
  <2>2. PICK k \in 1..n : At(n, z + k) = x
    BY <2>1, AtAround
  <2>3. B # {}
    <3>1. CASE k = n
      <4>1. 1 \in 1..n /\ At(n, z + 1 - 1) = x
        BY <2>1, <2>2, <3>1 DEF At
      <4> QED BY <1>0, <2>1, <4>1
    <3>2. CASE k # n
      <4>1. k + 1 \in 1..n /\ z + (k + 1) - 1 = z + k
        BY <2>1, <3>2
      <4> QED BY <1>0, <2>1, <2>2, <4>1
    <3> QED BY <3>1, <3>2
  <2>4. B \subseteq Nat
    OBVIOUS
  <2> HIDE DEF B
  <2> QED BY <2>3, <2>4, Least
<1>2. PICK h \in 1..n : ~Links(p, h) /\ At(n, h + d - 1) = x
  OBVIOUS
<1>3. d \in 1..n
  OBVIOUS
<1>4. ASSUME NEW k \in 1..n, NEW f \in 1..n, ~Links(p, f), At(n, f + k - 1) = x
      PROVE  d <= k
  BY <1>1, <1>4
<1> HIDE DEF B
<1> DEFINE E == {e \in 1..n : ~Links(p, At(n, h + e))}
<1>5. PICK l \in E : \A k \in E : l <= k
  <2>1. n \in 1..n /\ At(n, h + n) = h
    BY <1>2 DEF At
  <2>3. ~Links(p, At(n, h + n))
    BY <1>2, <2>1
  <2>4. n \in E
    BY <2>1, <2>3
  <2>2. E \subseteq 1..n /\ 1..n \subseteq Nat
    OBVIOUS
  <2> HIDE DEF E
  <2>5. E # {} /\ E \subseteq Nat
    BY <2>2, <2>4
  <2> QED BY <2>5, Least
<1>6. l \in 1..n /\ ~Links(p, At(n, h + l))
  OBVIOUS
<1>7. \A i \in 1..l - 1 : Links(p, At(n, h + i))
  <2> SUFFICES ASSUME NEW i \in 1..l - 1, ~Links(p, At(n, h + i)) PROVE FALSE
    OBVIOUS
  <2>1. i \in E
    BY <1>6
  <2>2. l <= i
    BY <1>5, <2>1
  <2> HIDE DEF E
  <2> QED BY <1>6, <2>2
<1> HIDE DEF E
<1>8. d <= l
  <2> SUFFICES ASSUME l < d PROVE FALSE
    BY <1>3, <1>6
  <2>1. d - l \in 1..n /\ At(n, h + l) \in 1..n
    BY <1>2, <1>3, <1>6 DEF At
  <2>2. At(n, At(n, h + l) + (d - l) - 1) = x
    <3>1. At(n, At(n, h + l) + (d - l) - 1) = At(n, h + d - 1)
      BY <1>2, <1>3, <1>6 DEF At
    <3> QED BY <1>2, <3>1
  <2>3. d <= d - l
    BY <1>4, <1>6, <2>1, <2>2
  <2> QED BY <1>3, <1>6, <2>3
<1>9. GroupAt(p, h, l)
  BY <1>0, <1>2, <1>6, <1>7 DEF GroupAt
<1>10. d \in 1..l
  BY <1>3, <1>6, <1>8
<1> QED BY <1>0, <1>2, <1>6, <1>9, <1>10

\* Every near point comes out of the filter as its group is judged.
LEMMA NearFilterHas ==
  ASSUME NEW s \in Seq(Point), Increasing(s), ~ClosesAround(s), Pending(s) # <<>>,
         NEW h \in 1..Len(Pending(s)), NEW l \in 1..Len(Pending(s)),
         GroupAt(Pending(s), h, l), NEW i \in 1..l
  PROVE  \E k \in 1..Len(ByAngle(NearFilter(s))) :
           ByAngle(NearFilter(s))[k] = Judged(Arc(Pending(s), h, l))[i]
<1> DEFINE p == Pending(s)
           far == Selected(s, (1..Len(s)) \ NearOnes(s))
           near == NearPart(s)
           t == NearFilter(s)
           v == Judged(Arc(p, h, l))[i]
<1>1. p \in Seq(Point) /\ t \in Seq(Point) /\ near \in Seq(Point) /\ far \in Seq(Point)
  <2>1. (1..Len(s)) \ NearOnes(s) \in SUBSET (1..Len(s))
    OBVIOUS
  <2>2. far \in Seq(Point)
    BY <2>1, SelectedIs
  <2> QED BY <2>2, PendingIs, NearFilterIs, NearPartIs
<1>2. t = far \o near
  BY DEF NearFilter, NearPart, JudgedGroups
<1> HIDE DEF far, t
<1>3. \E k \in 1..Len(near) : near[k] = v
  <2> DEFINE g == Join(Groups(p), p)
             jg == JudgedGroups(g)
  <2>1. near = FlattenSeq(jg)
    BY DEF NearPart
  <2>2. ~(Len(Groups(p)) = 1 /\ Connected(p))
    BY DEF ClosesAround
  <2>3. g \in Seq(Seq(Point)) /\ \E k \in 1..Len(g) : g[k] = Arc(p, h, l)
    BY <1>1, <2>2, GroupIsJoined
  <2> HIDE DEF g, near
  <2>4. PICK k \in 1..Len(g) : g[k] = Arc(p, h, l)
    BY <2>3
  <2>5. /\ jg \in Seq(Seq(Point)) /\ k \in 1..Len(jg)
        /\ jg[k] = Judged(g[k]) /\ Len(jg[k]) = Len(g[k])
    BY <2>3, JudgedGroupsIs
  <2>6. i \in 1..Len(jg[k]) /\ jg[k][i] = v
    <3>1. Len(Arc(p, h, l)) = l
      BY <1>1, ArcIs
    <3> HIDE DEF p, jg
    <3> QED BY <2>4, <2>5, <3>1
  <2> HIDE DEF jg, v
  <2>7. \E j \in 1..Len(FlattenSeq(jg)) : FlattenSeq(jg)[j] = jg[k][i]
    BY <2>5, <2>6, FlattenHolds
  <2> QED BY <2>1, <2>6, <2>7
<1> HIDE DEF near, v
<1>4. PICK k \in 1..Len(near) : near[k] = v
  BY <1>3
<1>5. PICK a \in Nat, b \in Nat : a = Len(far) /\ b = Len(near)
  BY <1>1, LenProperties
<1>6. a + k \in 1..a + b /\ ~(a + k <= a) /\ (a + k) - a = k
  BY <1>5
<1>7. Len(far \o near) = a + b /\ (far \o near)[a + k] = near[k]
  <2> DEFINE x == a + k
  <2>1. x \in 1..Len(far) + Len(near) /\ ~(x <= Len(far))
    BY <1>5, <1>6
  <2> HIDE DEF x
  <2>2. (far \o near)[x] = near[x - Len(far)]
    BY <1>1, <2>1, ConcatProperties
  <2>3. Len(far \o near) = Len(far) + Len(near)
    BY <1>1, ConcatProperties
  <2> QED BY <1>5, <1>6, <2>2, <2>3 DEF x
<1>8. PICK x \in 1..Len(t) : t[x] = v
  BY <1>2, <1>4, <1>6, <1>7
<1>9. \E j \in 1..Len(ByAngle(t)) : ByAngle(t)[j] = t[x]
  BY <1>1, ByAngleHas
<1> QED BY <1>8, <1>9 DEF t, v

\* The filter leaves the angles as they are.
LEMMA FilterAngles ==
  ASSUME NEW s \in Seq(Point), Increasing(s), NEW t,
         ~(t \in {"LD_06", "LD_19"} /\ ClosesAround(s))
  PROVE  /\ ByAngleAgain(t, s) \in Seq(Point) /\ Len(ByAngleAgain(t, s)) = Len(s)
         /\ Increasing(ByAngleAgain(t, s))
         /\ \A i \in 1..Len(s) : ByAngleAgain(t, s)[i].angle = s[i].angle
<1> DEFINE y == ByAngleAgain(t, s)
<1>1. /\ y \in Seq(Point) /\ Len(y) = Len(s)
      /\ \A i \in 1..Len(s) : y[i] = s[i] \/ y[i] = Zeroed(s[i])
  BY FilterKeepsPlaces
<1> HIDE DEF y
<1>2. ASSUME NEW i \in 1..Len(s) PROVE y[i].angle = s[i].angle
  <2>1. s[i] \in Point
    BY ElementOfSeq
  <2>2. Zeroed(s[i]).angle = s[i].angle
    BY <2>1, PointIs
  <2>3. y[i] = s[i] \/ y[i] = Zeroed(s[i])
    BY <1>1
  <2> QED BY <2>2, <2>3, Zenon
<1>3. Increasing(y)
  BY <1>1, <1>2 DEF Increasing
<1> QED BY <1>1, <1>2, <1>3 DEF y

\* What the filter makes of a slot is the point of its angle that came out.
LEMMA FilteredAtIs ==
  ASSUME NEW rev, NEW y \in Seq(Point), ToSet(y) = ToSet(Filter(type, ScanOf(rev))),
         Increasing(y), NEW k \in 1..Len(y), NEW u \in Slot, y[k].angle = 2 * u
  PROVE  FilteredAt(rev)[u] =
           {[distance |-> y[k].distance, intensity |-> y[k].intensity]}
<1> DEFINE of(p) == [distance |-> p.distance, intensity |-> p.intensity]
           Q == {q \in ToSet(y) : q.angle = 2 * u}
<1>1. FilteredAt(rev)[u] = {of(p) : p \in Q}
  BY DEF FilteredAt
<1>2. Q = {y[k]}
  <2>1. DOMAIN y = 1..Len(y)
    BY LenProperties
  <2>2. y[k] \in Q
    BY <2>1 DEF ToSet
  <2>3. ASSUME NEW q \in Q PROVE q = y[k]
    <3>1. PICK j \in 1..Len(y) : q = y[j]
      BY <2>1, <2>3 DEF ToSet
    <3>2. y[j].angle = 2 * u
      BY <3>1, <2>3
    <3>3. PICK w \in Int : w = y[k].angle
      <4>1. y[k] \in Point
        BY ElementOfSeq
      <4> QED BY <4>1, PointIs
    <3>4. ~(j < k) /\ ~(k < j)
      <4>1. j < k => y[j].angle < y[k].angle
        BY DEF Increasing
      <4>2. k < j => y[k].angle < y[j].angle
        BY DEF Increasing
      <4> QED BY <3>2, <3>3, <4>1, <4>2
    <3>5. j \in Int /\ k \in Int
      OBVIOUS
    <3>6. j = k
      BY <3>4, <3>5
    <3> QED BY <3>1, <3>6
  <2> HIDE DEF Q
  <2> QED BY <2>2, <2>3
<1> HIDE DEF Q
<1> QED BY <1>1, <1>2

\* A slot at the angle of no point that came out has nothing.
LEMMA FilteredAtNone ==
  ASSUME NEW rev, NEW y \in Seq(Point), ToSet(y) = ToSet(Filter(type, ScanOf(rev))),
         NEW u \in Slot, \A k \in 1..Len(y) : y[k].angle # 2 * u
  PROVE  FilteredAt(rev)[u] = {}
<1> DEFINE of(p) == [distance |-> p.distance, intensity |-> p.intensity]
           Q == {q \in ToSet(y) : q.angle = 2 * u}
<1>1. FilteredAt(rev)[u] = {of(p) : p \in Q}
  BY DEF FilteredAt
<1>2. Q = {}
  BY LenProperties DEF ToSet
<1> HIDE DEF Q
<1> QED BY <1>1, <1>2

-----------------------------------------------------------------------------
(* A revolution that begins elsewhere.                                        *)

\* a goes through the n elements of N in order.
Enumerates(a, n, N) ==
  /\ a \in [1..n -> N]
  /\ \A i, j \in 1..n : i < j => a[i] < a[j]
  /\ \A u \in N : \E i \in 1..n : a[i] = u

\* The points of p are what rev has at the slots of N, through which a goes.
Lists(p, rev, N, a) ==
  /\ p \in Seq(Point)
  /\ Enumerates(a, Len(p), N)
  /\ \A i \in 1..Len(p) : /\ p[i].angle = 2 * a[i]
                          /\ p[i].distance = rev[a[i]].distance
                          /\ p[i].intensity = rev[a[i]].intensity

\* There is one way to go through a set of numbers in order.
LEMMA SameEnumeration ==
  ASSUME NEW N \in SUBSET Int, NEW n \in Nat, NEW a, Enumerates(a, n, N),
         NEW m \in Nat, NEW b, Enumerates(b, m, N)
  PROVE  n <= m /\ \A k \in 1..n : a[k] = b[k]
<1> DEFINE T == {k \in 1..n : ~(k <= m /\ a[k] = b[k])}
<1>0. /\ a \in [1..n -> N] /\ b \in [1..m -> N]
      /\ \A i, j \in 1..n : i < j => a[i] < a[j]
      /\ \A i, j \in 1..m : i < j => b[i] < b[j]
      /\ \A u \in N : \E i \in 1..n : a[i] = u
      /\ \A u \in N : \E i \in 1..m : b[i] = u
  BY DEF Enumerates
<1>1. ASSUME T # {} PROVE FALSE
  <2>1. PICK k \in T : \A i \in T : k <= i
    <3>1. T \subseteq Nat
      OBVIOUS
    <3> HIDE DEF T
    <3> QED BY <1>1, <3>1, Least
  <2>2. k \in 1..n /\ ~(k <= m /\ a[k] = b[k])
    OBVIOUS
  <2>3. ASSUME NEW i \in 1..n, i < k PROVE i <= m /\ a[i] = b[i]
    <3>1. i \notin T
      BY <2>1, <2>2, <2>3
    <3> QED BY <3>1
  <2> HIDE DEF T
  <2>4. a[k] \in N /\ a[k] \in Int
    BY <1>0, <2>2
  <2>5. PICK j \in 1..m : b[j] = a[k]
    BY <1>0, <2>4
  <2>6. ~(j < k)
    <3> SUFFICES ASSUME j < k PROVE FALSE
      OBVIOUS
    <3>1. j \in 1..n
      BY <2>2
    <3>2. a[j] = b[j] /\ a[j] < a[k]
      BY <1>0, <2>2, <2>3, <3>1
    <3> QED BY <2>4, <2>5, <3>2
  <2>7. k \in 1..m
    BY <2>2, <2>6
  <2>8. ~(k < j)
    <3> SUFFICES ASSUME k < j PROVE FALSE
      OBVIOUS
    <3>1. b[k] < a[k] /\ b[k] \in N
      BY <1>0, <2>5, <2>7
    <3>2. PICK i \in 1..n : a[i] = b[k]
      BY <1>0, <3>1
    <3>3. b[k] \in Int
      BY <3>1
    <3>4. i < k
      <4> SUFFICES ASSUME k <= i PROVE FALSE
        BY <2>2
      <4>1. k < i => a[k] < a[i]
        BY <1>0, <2>2
      <4>2. k = i => a[k] = a[i]
        OBVIOUS
      <4> QED BY <2>2, <2>4, <3>1, <3>2, <3>3, <4>1, <4>2
    <3>5. i \in 1..m /\ b[i] = b[k]
      BY <2>3, <2>7, <3>2, <3>4
    <3>6. b[i] < b[k]
      BY <1>0, <2>7, <3>4, <3>5
    <3> QED BY <3>3, <3>5, <3>6
  <2> QED BY <2>2, <2>5, <2>6, <2>7, <2>8
<1>2. \A k \in 1..n : k <= m /\ a[k] = b[k]
  BY <1>1
<1>3. n <= m
  <2>1. CASE n = 0
    BY <2>1
  <2>2. CASE n # 0
    <3>1. n \in 1..n
      BY <2>2
    <3> QED BY <1>2, <3>1
  <2> QED BY <2>1, <2>2
<1> QED BY <1>2, <1>3

\* Where a slot comes to when the revolution begins r slots earlier, and back.
LEMMA TurnedSlot ==
  ASSUME NEW r \in 1..Slots - 1, NEW u \in Slot
  PROVE  /\ (u + r) % Slots = IF u + r < Slots THEN u + r ELSE u + r - Slots
         /\ (u - r) % Slots = IF u < r THEN u - r + Slots ELSE u - r
         /\ (u + r) % Slots \in Slot /\ (u - r) % Slots \in Slot
         /\ (((u + r) % Slots) - r) % Slots = u
         /\ (((u - r) % Slots) + r) % Slots = u
<1>1. PICK d \in Nat \ {0} : d = Slots /\ u \in 0..d - 1 /\ r \in 1..d - 1
  BY SlotsAssumption DEF Slot
<1>2. ASSUME NEW v \in 0..d - 1 PROVE v % d = v /\ (v + d) % d = v /\ (v - d) % d = v
  <2>1. v + d \in d..2 * d - 1 /\ v - d \in -d..-1
    OBVIOUS
  <2>2. v % d = v
    OBVIOUS
  <2>3. (v + d) % d = v
    OBVIOUS
  <2>4. (v - d) % d = v
    OBVIOUS
  <2> QED BY <2>2, <2>3, <2>4
<1>3. /\ (u + r) % d = IF u + r < d THEN u + r ELSE u + r - d
      /\ (u + r) % d \in 0..d - 1
  <2>1. CASE u + r < d
    <3>1. u + r \in 0..d - 1
      BY <1>1, <2>1
    <3> QED BY <1>2, <2>1, <3>1
  <2>2. CASE ~(u + r < d)
    <3>1. PICK v \in 0..d - 1 : u + r = v + d
      <4>1. u + r - d \in 0..d - 1 /\ u + r = (u + r - d) + d
        BY <1>1, <2>2
      <4> QED BY <4>1
    <3>2. (u + r) % d = v
      BY <1>2, <3>1
    <3> QED BY <1>1, <2>2, <3>1, <3>2
  <2> QED BY <2>1, <2>2
<1>4. /\ (u - r) % d = IF u < r THEN u - r + d ELSE u - r
      /\ (u - r) % d \in 0..d - 1
  <2>1. CASE ~(u < r)
    <3>1. u - r \in 0..d - 1
      BY <1>1, <2>1
    <3> QED BY <1>2, <2>1, <3>1
  <2>2. CASE u < r
    <3>1. PICK v \in 0..d - 1 : u - r = v - d
      <4>1. u - r + d \in 0..d - 1 /\ u - r = (u - r + d) - d
        BY <1>1, <2>2
      <4> QED BY <4>1
    <3>2. (u - r) % d = v
      BY <1>2, <3>1
    <3> QED BY <1>1, <2>2, <3>1, <3>2
  <2> QED BY <2>1, <2>2
<1>5. (((u + r) % d) - r) % d = u
  <2>1. ((u + r) % d) - r = u \/ ((u + r) % d) - r = u - d
    BY <1>1, <1>3
  <2> QED BY <1>1, <1>2, <2>1
<1>6. (((u - r) % d) + r) % d = u
  <2>1. ((u - r) % d) + r = u \/ ((u - r) % d) + r = u + d
    BY <1>1, <1>4
  <2> QED BY <1>1, <1>2, <2>1
<1> QED BY <1>1, <1>3, <1>4, <1>5, <1>6 DEF Slot

TurnedSlots(N, r) == {(u + r) % Slots : u \in N}

\* It is gone through from one of its slots on, which comes first.
LEMMA TurnedEnumerates ==
  ASSUME NEW r \in 1..Slots - 1, NEW N \in SUBSET Slot, NEW n \in Nat,
         NEW a, Enumerates(a, n, N)
  PROVE  \E m \in 0..n :
           /\ \A k \in 1..n : k <= m <=> a[k] + r < Slots
           /\ Enumerates([k \in 1..n |-> (a[At(n, m + k)] + r) % Slots], n,
                         TurnedSlots(N, r))
<1>0. /\ a \in [1..n -> N]
      /\ \A i, j \in 1..n : i < j => a[i] < a[j]
      /\ \A u \in N : \E i \in 1..n : a[i] = u
  BY DEF Enumerates
<1>1. \A i \in 1..n : a[i] \in Slot /\ a[i] \in Int
  <2>1. \A i \in 1..n : a[i] \in Slot
    BY <1>0
  <2>2. \A u \in Slot : u \in Int
    BY DEF Slot
  <2> QED BY <2>1, <2>2
<1>2. PICK m \in 0..n : \A k \in 1..n : k <= m <=> a[k] + r < Slots
  <2> DEFINE T == {k \in 1..n + 1 : k = n + 1 \/ ~(a[k] + r < Slots)}
  <2>1. PICK l \in T : \A k \in T : l <= k
    <3>1. T \subseteq Nat /\ n + 1 \in T
      OBVIOUS
    <3> HIDE DEF T
    <3> QED BY <3>1, Least
  <2>2. l \in 1..n + 1 /\ (l = n + 1 \/ ~(a[l] + r < Slots))
    OBVIOUS
  <2>3. ASSUME NEW k \in 1..n PROVE k <= l - 1 <=> a[k] + r < Slots
    <3>1. CASE k < l
      <4>1. k \notin T
        BY <2>1, <2>2, <3>1
      <4>2. a[k] + r < Slots
        BY <4>1
      <4> QED BY <2>2, <3>1, <4>2
    <3>2. CASE ~(k < l)
      <4>1. l \in 1..n /\ ~(a[l] + r < Slots)
        BY <2>2, <3>2
      <4>2. a[l] <= a[k]
        <5>1. l < k => a[l] < a[k]
          BY <1>0, <4>1
        <5>2. l = k => a[l] = a[k]
          OBVIOUS
        <5> QED BY <1>1, <2>2, <3>2, <4>1, <5>1, <5>2
      <4>3. ~(a[k] + r < Slots)
        BY <1>1, <4>1, <4>2, SlotsAssumption
      <4> QED BY <2>2, <3>2, <4>3
    <3> QED BY <3>1, <3>2
  <2>4. l - 1 \in 0..n
    BY <2>2
  <2> HIDE DEF T
  <2> QED BY <2>3, <2>4
<1> DEFINE b == [k \in 1..n |-> (a[At(n, m + k)] + r) % Slots]
<1>3. ASSUME NEW k \in 1..n
      PROVE  /\ At(n, m + k) \in 1..n
             /\ m + k <= n => At(n, m + k) = m + k /\ b[k] = a[m + k] + r - Slots
             /\ ~(m + k <= n) => /\ At(n, m + k) = m + k - n
                                 /\ b[k] = a[m + k - n] + r
  <2>1. /\ At(n, m + k) \in 1..n
        /\ m + k <= n => At(n, m + k) = m + k /\ ~(m + k <= m)
        /\ ~(m + k <= n) => At(n, m + k) = m + k - n /\ m + k - n <= m
    BY DEF At
  <2>2. PICK x \in 1..n : x = At(n, m + k)
    BY <2>1
  <2>3. b[k] = (a[x] + r) % Slots
    BY <2>2
  <2>4. (a[x] + r) % Slots = IF a[x] + r < Slots THEN a[x] + r ELSE a[x] + r - Slots
    BY <1>1, TurnedSlot
  <2>5. x <= m <=> a[x] + r < Slots
    BY <1>2
  <2> HIDE DEF b
  <2> QED BY <2>1, <2>2, <2>3, <2>4, <2>5
<1>4. b \in [1..n -> TurnedSlots(N, r)]
  <2>1. ASSUME NEW k \in 1..n PROVE (a[At(n, m + k)] + r) % Slots \in TurnedSlots(N, r)
    <3>1. a[At(n, m + k)] \in N
      BY <1>0, <1>3
    <3> QED BY <3>1 DEF TurnedSlots
  <2> QED BY <2>1
<1>5. \A k \in 1..n : b[k] = (a[At(n, m + k)] + r) % Slots
  OBVIOUS
<1> HIDE DEF b
<1>6. ASSUME NEW i \in 1..n, NEW j \in 1..n, i < j PROVE b[i] < b[j]
  <2>1. PICK s \in Int, t \in Int :
          s = r - Slots /\ t = r /\ r \in 1..Slots - 1 /\ Slots \in Nat
    BY SlotsAssumption
  <2>2. CASE m + j <= n
    <3>1. m + i \in 1..n /\ m + j \in 1..n /\ m + i < m + j
      BY <1>6, <2>2
    <3>2. a[m + i] < a[m + j] /\ a[m + i] \in Int /\ a[m + j] \in Int
      BY <1>0, <1>1, <3>1
    <3>3. b[i] = a[m + i] + r - Slots /\ b[j] = a[m + j] + r - Slots
      BY <1>3, <2>2, <3>1
    <3> QED BY <2>1, <3>2, <3>3
  <2>3. CASE ~(m + i <= n)
    <3>1. /\ m + i - n \in 1..n /\ m + j - n \in 1..n
          /\ m + i - n < m + j - n /\ ~(m + j <= n)
      BY <1>6, <2>3
    <3>2. /\ a[m + i - n] < a[m + j - n]
          /\ a[m + i - n] \in Int /\ a[m + j - n] \in Int
      BY <1>0, <1>1, <3>1
    <3>3. b[i] = a[m + i - n] + r /\ b[j] = a[m + j - n] + r
      BY <1>3, <2>3, <3>1
    <3> QED BY <2>1, <3>2, <3>3
  <2>4. CASE m + i <= n /\ ~(m + j <= n)
    <3>1. m + i \in 1..n /\ m + j - n \in 1..n
      BY <2>4
    <3>2. a[m + i] \in 0..Slots - 1 /\ a[m + j - n] \in 0..Slots - 1
      BY <1>1, <3>1 DEF Slot
    <3>3. b[i] = a[m + i] + r - Slots /\ b[j] = a[m + j - n] + r
      BY <1>3, <2>4
    <3>4. b[i] < r /\ b[j] >= r
      BY <2>1, <3>2, <3>3
    <3>5. b[i] \in Int /\ b[j] \in Int
      BY <2>1, <3>2, <3>3
    <3> QED BY <3>4, <3>5
  <2> QED BY <2>2, <2>3, <2>4
<1>7. ASSUME NEW v \in TurnedSlots(N, r) PROVE \E k \in 1..n : b[k] = v
  <2>1. PICK u \in N : v = (u + r) % Slots
    BY DEF TurnedSlots
  <2>2. PICK i \in 1..n : a[i] = u
    BY <1>0
  <2>3. PICK k \in 1..n : At(n, m + k) = i
    BY AtOnto
  <2> QED BY <1>5, <2>1, <2>2, <2>3
<1>8. Enumerates(b, n, TurnedSlots(N, r))
  BY <1>4, <1>6, <1>7 DEF Enumerates
<1> QED BY <1>2, <1>8 DEF b

\* The scan goes through the slots of the revolution.
LEMMA ScanLists ==
  ASSUME NEW S \in SUBSET Slot, NEW rev \in [S -> Measurement]
  PROVE  Lists(ScanOf(rev), rev, S, Ordered(S))
<1> DEFINE o == Ordered(S)
           f == ScanOf(rev)
<1>1. S \subseteq Int /\ IsFiniteSet(S)
  <2>1. IsFiniteSet(Slot)
    BY SlotsAssumption, FS_Interval DEF Slot
  <2>2. S \subseteq Slot /\ Slot \subseteq Int
    BY SlotsAssumption DEF Slot
  <2> QED BY <2>1, <2>2, FS_Subset
<1>2. PICK n \in Nat : n = Cardinality(S)
  BY <1>1, OrderedIs
<1>3. Enumerates(o, n, S)
  BY <1>1, <1>2, OrderedIs DEF Enumerates
<1>4. f \in Seq(Point) /\ Len(f) = n
  BY <1>2, ScanOfIs
<1>5. f = [i \in DOMAIN o |-> [angle     |-> 2 * o[i],
                               distance  |-> rev[o[i]].distance,
                               intensity |-> rev[o[i]].intensity]]
  BY DEF ScanOf
<1>6. DOMAIN o = 1..n
  BY <1>3 DEF Enumerates
<1> HIDE DEF o, f
<1>7. ASSUME NEW i \in 1..n
      PROVE  /\ f[i].angle = 2 * o[i]
             /\ f[i].distance = rev[o[i]].distance
             /\ f[i].intensity = rev[o[i]].intensity
  <2>1. f[i] = [angle     |-> 2 * o[i],
                distance  |-> rev[o[i]].distance,
                intensity |-> rev[o[i]].intensity]
    BY <1>5, <1>6
  <2> QED BY <2>1
<1>8. Lists(f, rev, S, o)
  BY <1>3, <1>4, <1>7 DEF Lists
<1> QED BY <1>8 DEF f, o

NearSlots(rev) == {u \in DOMAIN rev : Near(rev[u])}

\* Its near points go through the near slots.
LEMMA PendingLists ==
  ASSUME NEW S \in SUBSET Slot, NEW rev \in [S -> Measurement]
  PROVE  \E a : Lists(Pending(ScanOf(rev)), rev, NearSlots(rev), a)
<1> DEFINE s == ScanOf(rev)
           I == NearOnes(s)
           o == Ordered(I)
           w == Ordered(S)
           p == Pending(s)
<1>1. s \in Seq(Point) /\ Increasing(s)
  BY ScanOfIs
<1>2. Lists(s, rev, S, w)
  BY ScanLists
<1> HIDE DEF s, w
<1>3. PICK n \in Nat : n = Len(s)
  BY <1>1, LenProperties
<1>4. /\ w \in [1..n -> S]
      /\ \A i, j \in 1..n : i < j => w[i] < w[j]
      /\ \A u \in S : \E i \in 1..n : w[i] = u
      /\ \A i \in 1..n : /\ s[i].angle = 2 * w[i]
                         /\ s[i].distance = rev[w[i]].distance
                         /\ s[i].intensity = rev[w[i]].intensity
  BY <1>2, <1>3 DEF Lists, Enumerates
<1>5. I = {i \in 1..n : Near(s[i])}
  BY <1>3 DEF NearOnes
<1>6. \A i \in 1..n : Near(s[i]) <=> Near(rev[w[i]])
  BY <1>4 DEF Near
<1>7. I \subseteq Int /\ IsFiniteSet(I)
  <2>1. IsFiniteSet(1..n) /\ I \subseteq 1..n
    BY <1>5, FS_Interval
  <2>2. IsFiniteSet(I)
    BY <2>1, FS_Subset
  <2> HIDE DEF I
  <2> QED BY <2>1, <2>2
<1>8. /\ p \in Seq(Point)
      /\ p = Selected(s, I)
  BY <1>1, PendingIs
<1>9. I \in SUBSET (1..Len(s))
  BY <1>1, PendingIs
<1> HIDE DEF I, p
<1>10. PICK c \in Nat : c = Cardinality(I)
  BY <1>7, OrderedIs
<1>11. /\ o \in [1..c -> I]
       /\ \A k, l \in 1..c : k < l => o[k] < o[l]
       /\ \A i \in I : \E k \in 1..c : o[k] = i
  BY <1>7, <1>10, OrderedIs
<1>12. Len(p) = c /\ \A k \in 1..c : p[k] = s[o[k]]
  BY <1>1, <1>8, <1>9, <1>10, SelectedIs
<1> HIDE DEF o
<1> DEFINE a == [k \in 1..c |-> w[o[k]]]
<1>13. \A k \in 1..c : o[k] \in 1..n /\ Near(s[o[k]])
  BY <1>5, <1>11
<1>14. \A k \in 1..c : a[k] = w[o[k]]
  OBVIOUS
<1>15. a \in [1..c -> NearSlots(rev)]
  <2>1. ASSUME NEW k \in 1..c PROVE w[o[k]] \in NearSlots(rev)
    <3>1. w[o[k]] \in S /\ Near(rev[w[o[k]]])
      BY <1>4, <1>6, <1>13
    <3> QED BY <3>1 DEF NearSlots
  <2> QED BY <2>1
<1> HIDE DEF a
<1>16. \A k, l \in 1..c : k < l => a[k] < a[l]
  BY <1>4, <1>11, <1>13, <1>14
<1>17. ASSUME NEW u \in NearSlots(rev) PROVE \E k \in 1..c : a[k] = u
  <2>1. u \in S /\ Near(rev[u])
    BY DEF NearSlots
  <2>2. PICK i \in 1..n : w[i] = u
    BY <1>4, <2>1
  <2>3. i \in I
    BY <1>5, <1>6, <2>1, <2>2
  <2>4. PICK k \in 1..c : o[k] = i
    BY <1>11, <2>3
  <2> QED BY <1>14, <2>2, <2>4
<1>18. Enumerates(a, c, NearSlots(rev))
  BY <1>15, <1>16, <1>17 DEF Enumerates
<1>19. ASSUME NEW k \in 1..c
       PROVE  /\ p[k].angle = 2 * a[k]
              /\ p[k].distance = rev[a[k]].distance
              /\ p[k].intensity = rev[a[k]].intensity
  <2>1. o[k] \in 1..n /\ p[k] = s[o[k]] /\ a[k] = w[o[k]]
    BY <1>12, <1>13, <1>14
  <2> QED BY <1>4, <2>1
<1>20. Lists(p, rev, NearSlots(rev), a)
  BY <1>8, <1>12, <1>18, <1>19 DEF Lists
<1> QED BY <1>20 DEF p, s

\* The turned revolution has at each slot what was r slots before.
LEMMA RotatedIs ==
  ASSUME NEW S \in SUBSET Slot, NEW rev \in [S -> Measurement],
         NEW r \in 1..Slots - 1
  PROVE  /\ TurnedSlots(S, r) \in SUBSET Slot
         /\ Rotated(rev, r) \in [TurnedSlots(S, r) -> Measurement]
         /\ \A u \in S : Rotated(rev, r)[(u + r) % Slots] = rev[u]
         /\ NearSlots(Rotated(rev, r)) = TurnedSlots(NearSlots(rev), r)
<1> DEFINE T == TurnedSlots(S, r)
           v == Rotated(rev, r)
<1>1. \A u \in S : u \in Slot /\ (u + r) % Slots \in Slot
                   /\ (((u + r) % Slots) - r) % Slots = u
  <2>1. \A u \in S : u \in Slot
    OBVIOUS
  <2> QED BY <2>1, TurnedSlot
<1>2. T \in SUBSET Slot
  BY <1>1 DEF TurnedSlots
<1>3. v = [t \in T |-> rev[(t - r) % Slots]]
  BY DEF Rotated, TurnedSlots
<1>4. \A u \in S : (u + r) % Slots \in T
  BY DEF TurnedSlots
<1>5. ASSUME NEW t \in T PROVE \E u \in S : t = (u + r) % Slots /\ (t - r) % Slots = u
  <2>1. PICK u \in S : t = (u + r) % Slots
    BY DEF TurnedSlots
  <2> QED BY <1>1, <2>1
<1> HIDE DEF T, v
<1>6. v \in [T -> Measurement]
  BY <1>3, <1>5
<1>7. \A u \in S : v[(u + r) % Slots] = rev[u]
  BY <1>1, <1>3, <1>4
<1>8. NearSlots(v) = TurnedSlots(NearSlots(rev), r)
  <2>1. ASSUME NEW t \in NearSlots(v) PROVE t \in TurnedSlots(NearSlots(rev), r)
    <3>1. t \in T /\ Near(v[t])
      BY <1>6 DEF NearSlots
    <3>2. PICK u \in S : t = (u + r) % Slots
      BY <1>5, <3>1
    <3>3. Near(rev[u])
      BY <1>7, <3>1, <3>2
    <3> QED BY <3>2, <3>3 DEF NearSlots, TurnedSlots
  <2>2. ASSUME NEW t \in TurnedSlots(NearSlots(rev), r) PROVE t \in NearSlots(v)
    <3>1. PICK u \in NearSlots(rev) : t = (u + r) % Slots
      BY DEF TurnedSlots
    <3>2. u \in S /\ Near(rev[u])
      BY DEF NearSlots
    <3>3. t \in T /\ Near(v[t])
      BY <1>4, <1>7, <3>1, <3>2
    <3> QED BY <1>6, <3>3 DEF NearSlots
  <2> QED BY <2>1, <2>2
<1> QED BY <1>2, <1>6, <1>7, <1>8 DEF T, v

\* The n points of q are those of p from the one after the m-th on, turned.
Turned(q, p, n, m, r) ==
  /\ n = Len(p) /\ n = Len(q)
  /\ \A k \in 1..n :
       /\ At(n, m + k) \in 1..n
       /\ q[k].distance = p[At(n, m + k)].distance
       /\ q[k].intensity = p[At(n, m + k)].intensity
       /\ \/ q[k].angle = p[At(n, m + k)].angle + 2 * r
          \/ q[k].angle = p[At(n, m + k)].angle + 2 * r - Turn

\* So are the slots they come from.
TurnedFrom(q, c, p, a, n, m, r) ==
  Turned(q, p, n, m, r) /\ \A k \in 1..n : c[k] = (a[At(n, m + k)] + r) % Slots

\* p are the points of rev at the slots of N, q those of the turned revolution at
\* the slots where these have come to.
BothListed(rev, r, N, p, a, q, c) ==
  /\ N \subseteq DOMAIN rev
  /\ Lists(p, rev, N, a)
  /\ Lists(q, Rotated(rev, r), TurnedSlots(N, r), c)

\* The points at some slots, and those at the slots they have come to.
LEMMA TurnedLists ==
  ASSUME NEW S \in SUBSET Slot, NEW rev \in [S -> Measurement],
         NEW r \in 1..Slots - 1, NEW N, NEW p, NEW a, NEW q, NEW c,
         BothListed(rev, r, N, p, a, q, c)
  PROVE  \E n \in Nat : \E m \in 0..n : TurnedFrom(q, c, p, a, n, m, r)
<1> DEFINE v == Rotated(rev, r)
           M == TurnedSlots(N, r)
<1>0. /\ N \in SUBSET S
      /\ Lists(p, rev, N, a)
      /\ Lists(q, v, M, c)
  BY DEF BothListed
<1>1. PICK n \in Nat, l \in Nat : n = Len(p) /\ l = Len(q)
  BY <1>0, LenProperties DEF Lists
<1>2. /\ p \in Seq(Point) /\ Enumerates(a, n, N)
      /\ q \in Seq(Point) /\ Enumerates(c, l, M)
      /\ \A i \in 1..n : /\ p[i].angle = 2 * a[i]
                         /\ p[i].distance = rev[a[i]].distance
                         /\ p[i].intensity = rev[a[i]].intensity
      /\ \A i \in 1..l : /\ q[i].angle = 2 * c[i]
                         /\ q[i].distance = v[c[i]].distance
                         /\ q[i].intensity = v[c[i]].intensity
  BY <1>0, <1>1 DEF Lists
<1>3. N \in SUBSET Slot /\ M \in SUBSET Int
  <2>1. N \in SUBSET Slot
    BY <1>0
  <2>2. \A u \in N : (u + r) % Slots \in Slot
    BY <2>1, TurnedSlot
  <2>3. \A u \in Slot : u \in Int
    BY DEF Slot
  <2> QED BY <2>1, <2>2, <2>3 DEF TurnedSlots
<1> HIDE DEF v, M
<1> DEFINE b(m) == [k \in 1..n |-> (a[At(n, m + k)] + r) % Slots]
<1>4. PICK m \in 0..n : Enumerates(b(m), n, M)
  BY <1>2, <1>3, TurnedEnumerates DEF M
<1>5. n = l /\ \A k \in 1..n : c[k] = (a[At(n, m + k)] + r) % Slots
  <2>1. \A k \in 1..n : b(m)[k] = (a[At(n, m + k)] + r) % Slots
    OBVIOUS
  <2> DEFINE d == b(m)
  <2>2. Enumerates(d, n, M)
    BY <1>4
  <2> HIDE DEF d
  <2>6. M \in SUBSET Int /\ Enumerates(c, l, M)
    BY <1>2, <1>3
  <2>3. n <= l /\ \A k \in 1..n : d[k] = c[k]
    BY <2>2, <2>6, SameEnumeration
  <2>4. l <= n
    BY <2>2, <2>6, SameEnumeration
  <2>5. n = l
    BY <2>3, <2>4
  <2> QED BY <2>1, <2>3, <2>5 DEF d
<1> HIDE DEF b
<1>6. ASSUME NEW k \in 1..n
      PROVE  /\ At(n, m + k) \in 1..n
             /\ q[k].distance = p[At(n, m + k)].distance
             /\ q[k].intensity = p[At(n, m + k)].intensity
             /\ \/ q[k].angle = p[At(n, m + k)].angle + 2 * r
                \/ q[k].angle = p[At(n, m + k)].angle + 2 * r - Turn
  <2>1. PICK x \in 1..n : x = At(n, m + k)
    <3>1. At(n, m + k) \in 1..n
      BY DEF At
    <3> QED BY <3>1
  <2>2. a[x] \in N /\ a[x] \in S /\ a[x] \in Slot
    BY <1>0, <1>2 DEF Enumerates
  <2>3. PICK y \in Int, z \in Int : y = a[x] /\ z = c[k] /\ z = (y + r) % Slots
    <3>1. a[x] \in Int /\ c[k] \in Int
      <4>1. c[k] \in M
        BY <1>2, <1>5 DEF Enumerates
      <4>2. a[x] \in N
        BY <2>2
      <4>3. \A u \in Slot : u \in Int
        BY DEF Slot
      <4> QED BY <1>3, <2>2, <4>1, <4>3
    <3> QED BY <1>5, <2>1, <3>1
  <2>4. z = y + r \/ z = y + r - Slots
    BY <2>2, <2>3, TurnedSlot
  <2>5. v[z] = rev[y]
    <3>1. \A u \in S : v[(u + r) % Slots] = rev[u]
      BY RotatedIs DEF v
    <3> QED BY <2>2, <2>3, <3>1
  <2>6. q[k].angle = 2 * z /\ p[x].angle = 2 * y
    BY <1>2, <1>5, <2>3
  <2>7. q[k].angle = p[x].angle + 2 * r \/ q[k].angle = p[x].angle + 2 * r - Turn
    BY <2>4, <2>6, SlotsAssumption
  <2>8. q[k].distance = p[x].distance /\ q[k].intensity = p[x].intensity
    <3>1. p[x].distance = rev[a[x]].distance /\ p[x].intensity = rev[a[x]].intensity
      BY <1>2
    <3>2. q[k].distance = v[c[k]].distance /\ q[k].intensity = v[c[k]].intensity
      <4>1. k \in 1..l
        BY <1>5
      <4> QED BY <1>2, <4>1
    <3>3. v[c[k]] = rev[a[x]]
      BY <2>3, <2>5
    <3> HIDE DEF v
    <3> QED BY <3>1, <3>2, <3>3
  <2> QED BY <2>1, <2>7, <2>8
<1>7. Turned(q, p, n, m, r)
  BY <1>1, <1>5, <1>6 DEF Turned
<1> QED BY <1>5, <1>7 DEF TurnedFrom

\* Points at slots in order lie in the order of their angles.
LEMMA ListsIncrease ==
  ASSUME NEW rev, NEW N \in SUBSET Slot, NEW p, NEW a, Lists(p, rev, N, a)
  PROVE  Increasing(p)
<1>1. PICK n \in Nat : n = Len(p)
  BY LenProperties DEF Lists
<1>2. /\ \A i, j \in 1..n : i < j => a[i] < a[j]
      /\ \A i \in 1..n : p[i].angle = 2 * a[i] /\ a[i] \in N
  BY <1>1 DEF Lists, Enumerates
<1>3. \A u \in N : u \in Int
  <2>1. \A u \in Slot : u \in Int
    BY DEF Slot
  <2> QED BY <2>1
<1>4. ASSUME NEW i \in 1..n, NEW j \in 1..n, i < j PROVE p[i].angle < p[j].angle
  <2>1. PICK y \in Int, z \in Int : y = a[i] /\ z = a[j] /\ y < z
    BY <1>2, <1>3, <1>4
  <2> QED BY <1>2, <2>1
<1> QED BY <1>1, <1>4 DEF Increasing

\* How far v is counterclockwise of u, around the circle.
Gap(u, v) == IF u.angle < v.angle THEN v.angle - u.angle
                                  ELSE v.angle - u.angle + Turn

Linked(u, v) ==
  Gap(u, v) < AngleLimit /\ 100 * Apart(u.distance, v.distance) < 3 * u.distance

OffLimit(p) ==
  \A i, j \in 1..Len(p) : i # j =>
    /\ Gap(p[i], p[j]) # AngleLimit
    /\ 100 * Apart(p[i].distance, p[j].distance) # 3 * p[i].distance

Before(n, k) == IF k = 1 THEN n ELSE k - 1

\* Where no two points are on a limit, it is the same at 0 degrees as elsewhere.
LEMMA LinksIs ==
  ASSUME NEW p \in Seq(Point), Increasing(p), OffLimit(p), NEW k \in 1..Len(p)
  PROVE  Links(p, k) <=> Linked(p[Before(Len(p), k)], p[k])
<1>0. PICK n \in Nat : n = Len(p)
  BY LenProperties
<1>1. PICK b \in 1..n : b = Before(n, k)
  BY <1>0 DEF Before
<1>2. p[b] \in Point /\ p[k] \in Point
  BY <1>0, ElementOfSeq
<1>3. PICK x \in 0..Turn - 1, y \in 0..Turn - 1 : x = p[b].angle /\ y = p[k].angle
  BY <1>2, PointIs
<1>4. PICK d \in Nat, e \in Nat : d = p[b].distance /\ e = p[k].distance
  BY <1>2, PointIs
<1>5. Apart(d, e) \in Nat /\ Apart(e, d) = Apart(d, e)
  BY DEF Apart
<1>6. PICK f \in Nat : f = Apart(d, e) /\ f = Apart(e, d)
  BY <1>5
<1>7. PICK g \in Int : g = Gap(p[b], p[k]) /\ g = IF x < y THEN y - x ELSE y - x + Turn
  BY <1>3, TurnAssumption DEF Gap
<1>8. Linked(p[b], p[k]) <=> g < AngleLimit /\ 100 * f < 3 * d
  BY <1>4, <1>6, <1>7 DEF Linked
<1>9. CASE k = 1
  <2>1. b = n /\ Head(p) = p[k] /\ Last(p) = p[b]
    <3>1. b = n
      BY <1>1, <1>9 DEF Before
    <3>2. p # <<>>
      BY <1>0
    <3> QED BY <1>0, <1>9, <3>1, <3>2, HeadTailProperties DEF Last
  <2>2. Connected(p) <=> Apart(y + Turn, x) < AngleLimit /\ 100 * f < 3 * d
    BY <1>3, <1>4, <1>6, <2>1 DEF Connected
  <2>3. y <= x
    <3>1. k < b => p[k].angle < p[b].angle
      BY <1>0 DEF Increasing
    <3>2. k < b \/ k = b
      BY <1>0, <1>9, <2>1
    <3>3. k = b => y = x
      BY <1>3
    <3> QED BY <1>3, <3>1, <3>2, <3>3, TurnAssumption
  <2>4. Apart(y + Turn, x) = g
    <3>1. x <= y + Turn /\ y + Turn \in Int /\ x \in Int
      BY TurnAssumption
    <3>2. Apart(y + Turn, x) = y + Turn - x
      BY <3>1, TurnAssumption DEF Apart
    <3> QED BY <1>7, <2>3, <3>2, TurnAssumption
  <2> QED BY <1>0, <1>1, <1>8, <1>9, <2>2, <2>4 DEF Links
<1>10. CASE k # 1
  <2>1. b = k - 1 /\ b < k
    BY <1>1, <1>10 DEF Before
  <2>2. x < y
    <3>1. p[b].angle < p[k].angle
      BY <1>0, <2>1 DEF Increasing
    <3> QED BY <1>3, <3>1
  <2>3. Apart(y, x) = g
    <3>1. x \in Int /\ y \in Int /\ x <= y
      BY <2>2, TurnAssumption
    <3>2. Apart(y, x) = y - x
      BY <3>1 DEF Apart
    <3> QED BY <1>7, <2>2, <3>2
  <2>4. Breaks(p[b], p[k]) <=> g > AngleLimit \/ 100 * f > 3 * d
    BY <1>3, <1>4, <1>6, <2>3 DEF Breaks
  <2>5. g # AngleLimit /\ 100 * f # 3 * d
    <3>1. b # k
      BY <2>1
    <3>2. /\ Gap(p[b], p[k]) # AngleLimit
          /\ 100 * Apart(p[b].distance, p[k].distance) # 3 * p[b].distance
      BY <1>0, <3>1 DEF OffLimit
    <3> QED BY <1>4, <1>6, <1>7, <3>2
  <2>6. Links(p, k) <=> ~Breaks(p[b], p[k])
    BY <1>10, <2>1 DEF Links
  <2>7. ~(g > AngleLimit \/ 100 * f > 3 * d) <=> g < AngleLimit /\ 100 * f < 3 * d
    BY <2>5, AngleLimitAssumption
  <2> QED BY <1>0, <1>1, <1>8, <2>4, <2>6, <2>7
<1> QED BY <1>9, <1>10

\* Turning leaves the gaps as they are, and so what is linked.
LEMMA TurnedGap ==
  ASSUME NEW x \in 0..Turn - 1, NEW y \in 0..Turn - 1,
         NEW v \in 0..Turn - 1, NEW w \in 0..Turn - 1, NEW r \in Int,
         v = x + 2 * r \/ v = x + 2 * r - Turn,
         w = y + 2 * r \/ w = y + 2 * r - Turn
  PROVE  (IF v < w THEN w - v ELSE w - v + Turn)
           = (IF x < y THEN y - x ELSE y - x + Turn)
  BY TurnAssumption

\* Two points of a turned sequence are as far apart as where they came from.
LEMMA TurnedLinked ==
  ASSUME NEW p \in Seq(Point), NEW q \in Seq(Point), NEW n \in Nat,
         NEW m \in 0..n, NEW r \in Int, Turned(q, p, n, m, r),
         NEW i \in 1..n, NEW j \in 1..n
  PROVE  /\ Gap(q[i], q[j]) = Gap(p[At(n, m + i)], p[At(n, m + j)])
         /\ Linked(q[i], q[j]) <=> Linked(p[At(n, m + i)], p[At(n, m + j)])
<1>1. PICK k \in 1..n, l \in 1..n : k = At(n, m + i) /\ l = At(n, m + j)
  BY DEF Turned
<1>2. /\ q[i] \in Point /\ q[j] \in Point /\ p[k] \in Point /\ p[l] \in Point
  <2>1. n = Len(p) /\ n = Len(q)
    BY DEF Turned
  <2> QED BY <2>1, ElementOfSeq
<1>3. PICK x \in 0..Turn - 1, y \in 0..Turn - 1, v \in 0..Turn - 1, w \in 0..Turn - 1 :
        x = p[k].angle /\ y = p[l].angle /\ v = q[i].angle /\ w = q[j].angle
  BY <1>2, PointIs
<1>4. /\ v = x + 2 * r \/ v = x + 2 * r - Turn
      /\ w = y + 2 * r \/ w = y + 2 * r - Turn
      /\ q[i].distance = p[k].distance
      /\ q[j].distance = p[l].distance
  BY <1>1, <1>3 DEF Turned
<1>5. (IF v < w THEN w - v ELSE w - v + Turn)
        = (IF x < y THEN y - x ELSE y - x + Turn)
  <2>1. /\ v = x + 2 * r \/ v = x + 2 * r - Turn
        /\ w = y + 2 * r \/ w = y + 2 * r - Turn
    BY <1>4
  <2> QED BY <2>1, TurnedGap
<1>6. Gap(q[i], q[j]) = Gap(p[k], p[l])
  BY <1>3, <1>5 DEF Gap
<1> QED BY <1>1, <1>4, <1>6 DEF Linked

\* A point continues the one before it, wherever the sequence begins.
LEMMA TurnedLinks ==
  ASSUME NEW p \in Seq(Point), NEW q \in Seq(Point), Increasing(p), Increasing(q),
         OffLimit(p), NEW n \in Nat,
         NEW m \in 0..n, NEW r \in Int, Turned(q, p, n, m, r), NEW k \in 1..n
  PROVE  Links(q, k) <=> Links(p, At(n, m + k))
<1>1. /\ n = Len(p) /\ n = Len(q)
      /\ \A i \in 1..n : /\ At(n, m + i) \in 1..n
                         /\ q[i].distance = p[At(n, m + i)].distance
  BY DEF Turned
<1>2. OffLimit(q)
  <2> SUFFICES ASSUME NEW i \in 1..n, NEW j \in 1..n, i # j
               PROVE  /\ Gap(q[i], q[j]) # AngleLimit
                      /\ 100 * Apart(q[i].distance, q[j].distance) # 3 * q[i].distance
    BY <1>1 DEF OffLimit
  <2>1. At(n, m + i) # At(n, m + j)
    BY DEF At
  <2>2. PICK x \in 1..n, y \in 1..n : x = At(n, m + i) /\ y = At(n, m + j)
    BY <1>1
  <2>3. /\ Gap(p[x], p[y]) # AngleLimit
        /\ 100 * Apart(p[x].distance, p[y].distance) # 3 * p[x].distance
    BY <1>1, <2>1, <2>2 DEF OffLimit
  <2>4. Gap(q[i], q[j]) = Gap(p[x], p[y])
    BY <2>2, TurnedLinked
  <2>5. q[i].distance = p[x].distance /\ q[j].distance = p[y].distance
    BY <1>1, <2>2
  <2> QED BY <2>3, <2>4, <2>5
<1>3. PICK b \in 1..n, x \in 1..n :
        b = Before(n, k) /\ x = At(n, m + k) /\ At(n, m + b) = Before(n, x)
  <2>1. Before(n, k) \in 1..n
    BY DEF Before
  <2>2. At(n, m + k) \in 1..n
    BY <1>1
  <2>3. At(n, m + Before(n, k)) = Before(n, At(n, m + k))
    BY DEF At, Before
  <2> QED BY <2>1, <2>2, <2>3
<1>4. Links(q, k) <=> Linked(q[b], q[k])
  BY <1>1, <1>2, <1>3, LinksIs
<1>5. Links(p, x) <=> Linked(p[Before(n, x)], p[x])
  BY <1>1, <1>3, LinksIs
<1>6. Linked(q[b], q[k]) <=> Linked(p[At(n, m + b)], p[At(n, m + k)])
  BY TurnedLinked
<1> QED BY <1>3, <1>4, <1>5, <1>6

\* A turned sequence of points none of which are on a limit.
TurnedOff(q, p, n, m, r) ==
  /\ p \in Seq(Point) /\ q \in Seq(Point) /\ Increasing(p) /\ Increasing(q)
  /\ OffLimit(p) /\ n \in Nat /\ m \in 0..n /\ r \in Int /\ Turned(q, p, n, m, r)

\* The group of p at h is the one of q at g, and holds the same.
SameGroup(q, p, n, m, h, l, g) ==
  /\ GroupAt(q, g, l)
  /\ \A i \in 1..l :
       /\ At(n, m + At(n, g + i - 1)) = At(n, h + i - 1)
       /\ Arc(q, g, l)[i].distance = Arc(p, h, l)[i].distance
       /\ Arc(q, g, l)[i].intensity = Arc(p, h, l)[i].intensity

\* A group of p is a group of q, where it has come to.
LEMMA TurnedGroup ==
  ASSUME NEW p, NEW q, NEW n, NEW m, NEW r, TurnedOff(q, p, n, m, r),
         NEW h \in 1..n, NEW l \in 1..n, GroupAt(p, h, l)
  PROVE  \E g \in 1..n : SameGroup(q, p, n, m, h, l, g)
<1>0. /\ p \in Seq(Point) /\ q \in Seq(Point) /\ Increasing(p) /\ Increasing(q)
      /\ OffLimit(p) /\ n \in Nat /\ m \in 0..n /\ r \in Int
      /\ Turned(q, p, n, m, r)
  BY DEF TurnedOff
<1>1. n = Len(p) /\ n = Len(q)
  BY <1>0 DEF Turned
<1>2. PICK g \in 1..n : \A i \in 0..n : /\ At(n, g + i) \in 1..n
                                        /\ At(n, m + At(n, g + i)) = At(n, h + i)
  <2>1. CASE h > m
    <3>1. h - m \in 1..n
      BY <1>0, <2>1
    <3>2. \A i \in 0..n : /\ At(n, (h - m) + i) \in 1..n
                          /\ At(n, m + At(n, (h - m) + i)) = At(n, h + i)
      BY <1>0, <2>1 DEF At
    <3> QED BY <3>1, <3>2
  <2>2. CASE ~(h > m)
    <3>1. h + n - m \in 1..n
      BY <1>0, <2>2
    <3>2. \A i \in 0..n : /\ At(n, (h + n - m) + i) \in 1..n
                          /\ At(n, m + At(n, (h + n - m) + i)) = At(n, h + i)
      BY <1>0, <2>2 DEF At
    <3> QED BY <3>1, <3>2
  <2> QED BY <1>0, <2>1, <2>2
<1>3. At(n, g + 0) = g /\ At(n, h + 0) = h
  BY <1>0 DEF At
<1>4. \A k \in 1..n : Links(q, k) <=> Links(p, At(n, m + k))
  BY <1>0, TurnedLinks
<1>5. \A i \in 0..n : Links(q, At(n, g + i)) <=> Links(p, At(n, h + i))
  BY <1>2, <1>4
<1>6. GroupAt(q, g, l)
  <2>1. ~Links(q, g)
    <3>1. 0 \in 0..n
      BY <1>0
    <3>2. Links(q, At(n, g + 0)) <=> Links(p, At(n, h + 0))
      BY <1>5, <3>1
    <3> QED BY <1>3, <3>2 DEF GroupAt
  <2>2. \A i \in 1..l - 1 : Links(q, At(n, g + i))
    <3>1. \A i \in 1..l - 1 : i \in 0..n /\ Links(p, At(n, h + i))
      BY <1>0, <1>1 DEF GroupAt
    <3> QED BY <1>5, <3>1
  <2>3. ~Links(q, At(n, g + l))
    <3>1. l \in 0..n /\ ~Links(p, At(n, h + l))
      BY <1>0, <1>1 DEF GroupAt
    <3> QED BY <1>5, <3>1
  <2> QED BY <1>1, <2>1, <2>2, <2>3 DEF GroupAt
<1>7. ASSUME NEW i \in 1..l
      PROVE  /\ At(n, m + At(n, g + i - 1)) = At(n, h + i - 1)
             /\ Arc(q, g, l)[i].distance = Arc(p, h, l)[i].distance
             /\ Arc(q, g, l)[i].intensity = Arc(p, h, l)[i].intensity
  <2>1. PICK j \in 0..n : j = i - 1 /\ g + j = g + i - 1 /\ h + j = h + i - 1
    <3>1. i - 1 \in 0..n /\ g + (i - 1) = g + i - 1 /\ h + (i - 1) = h + i - 1
      BY <1>0
    <3> QED BY <3>1
  <2>2. PICK x \in 1..n : x = At(n, g + j) /\ At(n, m + x) = At(n, h + j)
    BY <1>2
  <2>3. Arc(q, g, l)[i] = q[x]
    <3>1. Arc(q, g, l)[i] = q[At(n, g + i - 1)]
      BY <1>1 DEF Arc
    <3> QED BY <2>1, <2>2, <3>1
  <2>4. Arc(p, h, l)[i] = p[At(n, m + x)]
    <3>1. Arc(p, h, l)[i] = p[At(n, h + i - 1)]
      BY <1>1 DEF Arc
    <3> QED BY <2>1, <2>2, <3>1
  <2>5. /\ q[x].distance = p[At(n, m + x)].distance
        /\ q[x].intensity = p[At(n, m + x)].intensity
    BY <1>0 DEF Turned
  <2> QED BY <2>1, <2>2, <2>3, <2>4, <2>5
<1> QED BY <1>6, <1>7 DEF SameGroup

\* A group is judged by its distances and intensities, wherever it lies.
LEMMA JudgedAlike ==
  ASSUME NEW x \in Seq(Point), NEW y \in Seq(Point), NEW l \in Nat,
         Len(x) = l, Len(y) = l,
         \A i \in 1..l : /\ x[i].distance = y[i].distance
                         /\ x[i].intensity = y[i].intensity
  PROVE  \A i \in 1..l : /\ Judged(x)[i].distance = Judged(y)[i].distance
                         /\ Judged(x)[i].intensity = Judged(y)[i].intensity
<1>1. DOMAIN x = 1..l /\ DOMAIN y = 1..l
  BY LenProperties
<1>2. Intensities(x) = Intensities(y)
  <2>1. [i \in DOMAIN x |-> x[i].intensity] = [i \in DOMAIN y |-> y[i].intensity]
    BY <1>1
  <2> QED BY <2>1 DEF Intensities
<1>3. GroupKept(x) <=> GroupKept(y)
  BY <1>2 DEF GroupKept
<1>4. ASSUME NEW z \in Point PROVE Zeroed(z).distance = 0 /\ Zeroed(z).intensity = 0
  <2>1. z \in [angle : 0..Turn - 1, distance : Nat, intensity : 0..255]
    BY DEF Point
  <2> QED BY <2>1 DEF Zeroed
<1>5. ASSUME NEW i \in 1..l
      PROVE  /\ Judged(x)[i].distance = Judged(y)[i].distance
             /\ Judged(x)[i].intensity = Judged(y)[i].intensity
  <2>1. x[i] \in Point /\ y[i] \in Point
    BY ElementOfSeq
  <2>2. CASE GroupKept(x)
    <3>1. Judged(x) = x /\ Judged(y) = y
      BY <1>3, <2>2 DEF Judged
    <3> QED BY <3>1
  <2>3. CASE ~GroupKept(x)
    <3>1. Judged(x)[i] = Zeroed(x[i]) /\ Judged(y)[i] = Zeroed(y[i])
      BY <1>1, <1>3, <2>3 DEF Judged
    <3> QED BY <1>4, <2>1, <3>1
  <2> QED BY <2>2, <2>3
<1> QED BY <1>5

\* No two near slots on a limit, no two points of them.
LEMMA OffLimitIs ==
  ASSUME NEW S \in SUBSET Slot, NEW rev \in [S -> Measurement], ~OnTheLimit(rev),
         NEW p, NEW a, Lists(p, rev, NearSlots(rev), a)
  PROVE  OffLimit(p)
<1>0. PICK n \in Nat : n = Len(p)
  BY LenProperties DEF Lists
<1>1. /\ a \in [1..n -> NearSlots(rev)]
      /\ \A i, j \in 1..n : i < j => a[i] < a[j]
      /\ \A i \in 1..n : p[i].angle = 2 * a[i] /\ p[i].distance = rev[a[i]].distance
  BY <1>0 DEF Lists, Enumerates
<1> SUFFICES ASSUME NEW i \in 1..n, NEW j \in 1..n, i # j
             PROVE  /\ Gap(p[i], p[j]) # AngleLimit
                    /\ 100 * Apart(p[i].distance, p[j].distance) # 3 * p[i].distance
  BY <1>0 DEF OffLimit
<1>2. /\ a[i] \in {u \in DOMAIN rev : Near(rev[u])}
      /\ a[j] \in {u \in DOMAIN rev : Near(rev[u])}
  <2>1. a[i] \in NearSlots(rev) /\ a[j] \in NearSlots(rev)
    BY <1>1
  <2> QED BY <2>1 DEF NearSlots
<1>8. PICK d \in Nat \ {0} : d = Slots
  BY SlotsAssumption
<1>3. PICK s \in 0..d - 1, t \in 0..d - 1 : d = Slots /\ s = a[i] /\ t = a[j]
  <2>1. a[i] \in S /\ a[j] \in S
    BY <1>2
  <2>2. a[i] \in Slot /\ a[j] \in Slot
    BY <2>1
  <2> QED BY <1>8, <2>2 DEF Slot
<1>4. s # t
  <2>1. i < j => s < t
    BY <1>1, <1>3
  <2>2. j < i => t < s
    BY <1>1, <1>3
  <2> QED BY <1>3, <2>1, <2>2
<1>5. /\ 100 * Apart(rev[s].distance, rev[t].distance) # 3 * rev[s].distance
      /\ 2 * ((t - s) % d) # AngleLimit
  BY <1>2, <1>3, <1>4 DEF OnTheLimit
<1>6. Gap(p[i], p[j]) = 2 * ((t - s) % d)
  <2>1. (t - s) % d = IF s < t THEN t - s ELSE t - s + d
    <3>1. CASE s < t
      <4>1. t - s \in 0..d - 1
        BY <3>1
      <4>2. PICK v \in 0..d - 1 : v = t - s
        BY <4>1
      <4>3. v % d = v
        OBVIOUS
      <4> QED BY <3>1, <4>2, <4>3
    <3>2. CASE ~(s < t)
      <4>1. t - s \in -d..-1
        BY <1>4, <3>2
      <4>2. PICK v \in -d..-1 : v = t - s
        BY <4>1
      <4>3. v % d = v + d
        OBVIOUS
      <4> QED BY <3>2, <4>2, <4>3
    <3> QED BY <3>1, <3>2
  <2>2. p[i].angle = 2 * s /\ p[j].angle = 2 * t
    BY <1>1, <1>3
  <2>3. Turn = 2 * d
    BY <1>3, SlotsAssumption
  <2>4. Gap(p[i], p[j]) = IF 2 * s < 2 * t THEN 2 * t - 2 * s ELSE 2 * t - 2 * s + Turn
    BY <2>2 DEF Gap
  <2>5. PICK e \in Int : e = (t - s) % d /\ e = IF s < t THEN t - s ELSE t - s + d
    BY <2>1
  <2> QED BY <2>3, <2>4, <2>5
<1>7. p[i].distance = rev[s].distance /\ p[j].distance = rev[t].distance
  BY <1>1, <1>3
<1> QED BY <1>5, <1>6, <1>7

-----------------------------------------------------------------------------
(* What the filter makes of a slot does not depend on where it begins.        *)

Closes(rev) == NearType /\ ClosesAround(ScanOf(rev))

\* What a point holds besides its angle.
Held(p) == [distance |-> p.distance, intensity |-> p.intensity]

\* The points y at the angles of those of s are what becomes of the slots.
IsFiltered(rev, S, s, y) ==
  /\ s \in Seq(Point) /\ Increasing(s)
  /\ y \in Seq(Point) /\ Increasing(y) /\ Len(y) = Len(s)
  /\ \A i \in 1..Len(s) : y[i].angle = s[i].angle
  /\ \A k \in 1..Len(y) : \A u \in Slot :
       y[k].angle = 2 * u => FilteredAt(rev)[u] = {Held(y[k])}
  /\ \A u \in Slot \ S : FilteredAt(rev)[u] = {}

\* The filter leaves every slot where it is.
LEMMA FilterOf ==
  ASSUME NEW S \in SUBSET Slot, NEW rev \in [S -> Measurement], ~Closes(rev)
  PROVE  IsFiltered(rev, S, ScanOf(rev), ByAngleAgain(type, ScanOf(rev)))
<1> DEFINE s == ScanOf(rev)
           y == ByAngleAgain(type, s)
           o == Ordered(S)
<1>1. s \in Seq(Point) /\ Increasing(s)
  BY ScanOfIs
<1>2. Lists(s, rev, S, o)
  BY ScanLists
<1>3. ~(type \in {"LD_06", "LD_19"} /\ ClosesAround(s))
  BY DEF Closes, NearType
<1> HIDE DEF s, o
<1>4. /\ y \in Seq(Point) /\ Len(y) = Len(s) /\ Increasing(y)
      /\ \A i \in 1..Len(s) : y[i].angle = s[i].angle
  BY <1>1, <1>3, FilterAngles
<1>0. ToSet(y) = ToSet(Filter(type, s))
  <2>1. Filter(type, s) \in Seq(Point)
    BY <1>1, FilterKeeps
  <2> QED BY <2>1, ByAngleSame DEF ByAngleAgain
<1> HIDE DEF y
<1>5. ASSUME NEW k \in 1..Len(y), NEW u \in Slot, y[k].angle = 2 * u
      PROVE  FilteredAt(rev)[u] = {Held(y[k])}
  BY <1>0, <1>4, <1>5, FilteredAtIs DEF Held, s
<1>6. ASSUME NEW u \in Slot \ S PROVE FilteredAt(rev)[u] = {}
  <2>1. ASSUME NEW k \in 1..Len(y) PROVE y[k].angle # 2 * u
    <3>1. k \in 1..Len(s)
      BY <1>4
    <3>2. y[k].angle = 2 * o[k] /\ o[k] \in S
      BY <1>2, <1>4, <3>1 DEF Lists, Enumerates
    <3>3. o[k] \in Int /\ u \in Int /\ o[k] # u
      <4>1. \A v \in Slot : v \in Int
        BY DEF Slot
      <4>2. o[k] \in Slot
        BY <3>2
      <4> QED BY <3>2, <4>1, <4>2
    <3>4. PICK v \in Int, w \in Int : v = o[k] /\ w = u
      BY <3>3
    <3> QED BY <3>2, <3>3, <3>4
  <2> QED BY <1>0, <1>4, <2>1, FilteredAtNone DEF s
<1>7. IsFiltered(rev, S, s, y)
  BY <1>1, <1>4, <1>5, <1>6 DEF IsFiltered
<1> QED BY <1>7 DEF y, s

\* A far point stays.
LEMMA FarStays ==
  ASSUME NEW S \in SUBSET Slot, NEW rev \in [S -> Measurement], ~Closes(rev),
         NEW u \in S, ~Near(rev[u])
  PROVE  FilteredAt(rev)[u] = {Held(rev[u])}
<1> DEFINE s == ScanOf(rev)
           y == ByAngleAgain(type, s)
           o == Ordered(S)
<1>1. /\ s \in Seq(Point) /\ Increasing(s)
      /\ y \in Seq(Point) /\ Len(y) = Len(s)
      /\ \A k \in 1..Len(y) : \A x \in Slot :
           y[k].angle = 2 * x => FilteredAt(rev)[x] = {Held(y[k])}
  BY FilterOf DEF IsFiltered
<1>2. Lists(s, rev, S, o)
  BY ScanLists
<1>3. ~(type \in {"LD_06", "LD_19"} /\ ClosesAround(s))
  BY DEF Closes, NearType
<1> HIDE DEF s, o
<1>4. \A i \in 1..Len(s) : y[i] = s[i] \/ Near(s[i])
  BY <1>1, <1>3, FilterKeepsPlaces
<1> HIDE DEF y
<1>5. PICK i \in 1..Len(s) : o[i] = u
  BY <1>2 DEF Lists, Enumerates
<1>6. /\ s[i].angle = 2 * u /\ s[i].distance = rev[u].distance
      /\ s[i].intensity = rev[u].intensity
  BY <1>2, <1>5 DEF Lists
<1>7. ~Near(s[i])
  BY <1>6 DEF Near
<1>8. y[i] = s[i]
  BY <1>4, <1>7
<1>9. FilteredAt(rev)[u] = {Held(y[i])}
  <2>1. u \in Slot /\ i \in 1..Len(y) /\ y[i].angle = 2 * u
    BY <1>1, <1>6, <1>8
  <2> QED BY <1>1, <2>1
<1> QED BY <1>6, <1>8, <1>9 DEF Held

\* The n near points of rev are p, at the slots a.
Listed(rev, p, n, a) ==
  p = Pending(ScanOf(rev)) /\ n = Len(p) /\ Lists(p, rev, NearSlots(rev), a)

\* The slots of the group at h have what became of it when it was judged.
JudgedAt(rev, p, n, a, h, l) ==
  \A i \in 1..l :
    FilteredAt(rev)[a[At(n, h + i - 1)]] = {Held(Judged(Arc(p, h, l))[i])}

\* A near point is judged with its group.
LEMMA NearIsJudged ==
  ASSUME NEW S \in SUBSET Slot, NEW rev \in [S -> Measurement], ~Closes(rev), NearType,
         NEW p, NEW n \in Nat, NEW a, Listed(rev, p, n, a),
         NEW h \in 1..n, NEW l \in 1..n, GroupAt(p, h, l)
  PROVE  JudgedAt(rev, p, n, a, h, l)
<1> SUFFICES ASSUME NEW i \in 1..l
             PROVE  FilteredAt(rev)[a[At(n, h + i - 1)]]
                      = {Held(Judged(Arc(p, h, l))[i])}
  BY DEF JudgedAt
<1> DEFINE s == ScanOf(rev)
           y == ByAngleAgain(type, s)
           z == Judged(Arc(p, h, l))[i]
           t == NearFilter(s)
<1>0. p = Pending(ScanOf(rev)) /\ n = Len(p) /\ Lists(p, rev, NearSlots(rev), a)
  BY DEF Listed
<1>1. /\ s \in Seq(Point) /\ Increasing(s)
      /\ \A k \in 1..Len(y) : \A x \in Slot :
           y[k].angle = 2 * x => FilteredAt(rev)[x] = {Held(y[k])}
  BY FilterOf DEF IsFiltered
<1>2. ~ClosesAround(s) /\ p = Pending(s)
  BY <1>0 DEF Closes
<1>3. y = ByAngle(t)
  BY DEF ByAngleAgain, Filter, NearType
<1> HIDE DEF s, t
<1>4. p # <<>> /\ p \in Seq(Point)
  <2>1. p # <<>>
    BY <1>0, EmptySeq
  <2> QED BY <1>0, <2>1 DEF Lists
<1>5. PICK k \in 1..Len(ByAngle(t)) : ByAngle(t)[k] = z
  <2> HIDE DEF z
  <2>1. /\ s \in Seq(Point) /\ Increasing(s) /\ ~ClosesAround(s)
        /\ Pending(s) # <<>> /\ GroupAt(Pending(s), h, l)
        /\ h \in 1..Len(Pending(s)) /\ l \in 1..Len(Pending(s))
    BY <1>0, <1>1, <1>2, <1>4
  <2>2. \E k \in 1..Len(ByAngle(t)) :
          ByAngle(t)[k] = Judged(Arc(Pending(s), h, l))[i]
    BY <2>1, NearFilterHas DEF t
  <2> QED BY <1>2, <2>2 DEF z
<1>6. k \in 1..Len(y) /\ y[k] = z
  BY <1>3, <1>5
<1> HIDE DEF y
<1>7. PICK x \in 1..n : x = At(n, h + i - 1) /\ Arc(p, h, l)[i] = p[x]
  <2>1. At(n, h + i - 1) \in 1..n
    BY DEF At
  <2>2. Arc(p, h, l)[i] = p[At(n, h + i - 1)]
    BY <1>0 DEF Arc
  <2> QED BY <2>1, <2>2
<1>8. z.angle = 2 * a[x]
  <2>1. p[x] \in Point /\ p[x].angle = 2 * a[x]
    BY <1>0, <1>4, ElementOfSeq DEF Lists
  <2>2. Arc(p, h, l) \in Seq(Point) /\ Len(Arc(p, h, l)) = l
    BY <1>0, <1>4, ArcIs
  <2>3. z = p[x] \/ z = Zeroed(p[x])
    <3>1. i \in 1..Len(Arc(p, h, l))
      BY <2>2
    <3>2. \/ Judged(Arc(p, h, l))[i] = Arc(p, h, l)[i]
          \/ Judged(Arc(p, h, l))[i] = Zeroed(Arc(p, h, l)[i])
      BY <2>2, <3>1, JudgedIs
    <3> QED BY <1>7, <3>2
  <2> HIDE DEF z
  <2> QED BY <2>1, <2>3, PointIs
<1>9. a[x] \in Slot
  <2>1. a[x] \in NearSlots(rev)
    BY <1>0, <1>7 DEF Lists, Enumerates
  <2>2. a[x] \in S
    BY <2>1 DEF NearSlots
  <2> QED BY <2>2
<1> HIDE DEF z
<1>10. FilteredAt(rev)[a[x]] = {Held(y[k])}
  BY <1>1, <1>6, <1>8, <1>9
<1> QED BY <1>6, <1>7, <1>10 DEF z

\* The turned revolution and its near points, listed.
LEMMA TurnedPending ==
  ASSUME NEW S \in SUBSET Slot, NEW rev \in [S -> Measurement],
         NEW r \in 1..Slots - 1
  PROVE  \E p, a, q, c : \E n \in Nat : \E m \in 0..n :
           /\ Listed(rev, p, n, a)
           /\ Listed(Rotated(rev, r), q, n, c)
           /\ Increasing(p) /\ Increasing(q)
           /\ TurnedFrom(q, c, p, a, n, m, r)
<1> DEFINE v == Rotated(rev, r)
<1>1. /\ TurnedSlots(S, r) \in SUBSET Slot
      /\ v \in [TurnedSlots(S, r) -> Measurement]
      /\ NearSlots(v) = TurnedSlots(NearSlots(rev), r)
  BY RotatedIs
<1>2. PICK p : p = Pending(ScanOf(rev))
  OBVIOUS
<1>3. PICK q : q = Pending(ScanOf(v))
  OBVIOUS
<1>4. PICK a : Lists(p, rev, NearSlots(rev), a)
  BY <1>2, PendingLists
<1>5. PICK c : Lists(q, v, NearSlots(v), c)
  BY <1>1, <1>3, PendingLists
<1>6. NearSlots(rev) \in SUBSET Slot /\ NearSlots(v) \in SUBSET Slot
  <2>1. DOMAIN v = TurnedSlots(S, r) /\ DOMAIN rev = S
    BY <1>1
  <2> HIDE DEF v
  <2> QED BY <1>1, <2>1 DEF NearSlots
<1>7. BothListed(rev, r, NearSlots(rev), p, a, q, c)
  <2>1. NearSlots(rev) \subseteq DOMAIN rev
    BY DEF NearSlots
  <2> QED BY <1>1, <1>4, <1>5, <2>1 DEF BothListed
<1>8. PICK n \in Nat : \E m \in 0..n : TurnedFrom(q, c, p, a, n, m, r)
  BY <1>7, TurnedLists
<1>9. PICK m \in 0..n : TurnedFrom(q, c, p, a, n, m, r)
  BY <1>8
<1>10. n = Len(p) /\ n = Len(q)
  BY <1>9 DEF TurnedFrom, Turned
<1>11. Increasing(p)
  BY <1>4, <1>6, ListsIncrease
<1>12. Increasing(q)
  BY <1>5, <1>6, ListsIncrease
<1>13. Listed(rev, p, n, a) /\ Listed(v, q, n, c)
  BY <1>2, <1>3, <1>4, <1>5, <1>10 DEF Listed
<1> QED BY <1>9, <1>11, <1>12, <1>13

\* Those points of a turned revolution, if none are on a limit.
LEMMA TurnedNear ==
  ASSUME NEW S \in SUBSET Slot, NEW rev \in [S -> Measurement],
         NEW r \in 1..Slots - 1, ~OnTheLimit(rev)
  PROVE  \E p, a, q, c, n, m :
           /\ Listed(rev, p, n, a)
           /\ Listed(Rotated(rev, r), q, n, c)
           /\ TurnedOff(q, p, n, m, r)
           /\ TurnedFrom(q, c, p, a, n, m, r)
<1>1. PICK p, a, q, c : \E n \in Nat : \E m \in 0..n :
        /\ Listed(rev, p, n, a)
        /\ Listed(Rotated(rev, r), q, n, c)
        /\ Increasing(p) /\ Increasing(q)
        /\ TurnedFrom(q, c, p, a, n, m, r)
  BY TurnedPending
<1>2. PICK n \in Nat : \E m \in 0..n :
        /\ Listed(rev, p, n, a)
        /\ Listed(Rotated(rev, r), q, n, c)
        /\ Increasing(p) /\ Increasing(q)
        /\ TurnedFrom(q, c, p, a, n, m, r)
  BY <1>1
<1>3. PICK m \in 0..n :
        /\ Listed(rev, p, n, a)
        /\ Listed(Rotated(rev, r), q, n, c)
        /\ Increasing(p) /\ Increasing(q)
        /\ TurnedFrom(q, c, p, a, n, m, r)
  BY <1>2
<1>4. Lists(p, rev, NearSlots(rev), a)
  BY <1>3 DEF Listed
<1>5. p \in Seq(Point) /\ q \in Seq(Point)
  BY <1>3 DEF Listed, Lists
<1>6. OffLimit(p)
  BY <1>4, OffLimitIs
<1>7. r \in Int /\ Turned(q, p, n, m, r)
  BY <1>3, SlotsAssumption DEF TurnedFrom
<1>8. TurnedOff(q, p, n, m, r)
  BY <1>3, <1>5, <1>6, <1>7 DEF TurnedOff
<1> QED BY <1>3, <1>8

\* Turning does not close the circle.
LEMMA StaysOpen ==
  ASSUME NEW S \in SUBSET Slot, NEW rev \in [S -> Measurement],
         NEW r \in 1..Slots - 1, ~Closes(rev), NearType => ~OnTheLimit(rev)
  PROVE  ~Closes(Rotated(rev, r))
<1> SUFFICES ASSUME NearType, ClosesAround(ScanOf(Rotated(rev, r))) PROVE FALSE
  BY DEF Closes
<1>1. PICK p, a, q, c, n, m :
        /\ Listed(rev, p, n, a)
        /\ Listed(Rotated(rev, r), q, n, c)
        /\ TurnedOff(q, p, n, m, r)
        /\ TurnedFrom(q, c, p, a, n, m, r)
  BY TurnedNear
<1>2. /\ Listed(rev, p, n, a)
      /\ Listed(Rotated(rev, r), q, n, c)
      /\ TurnedOff(q, p, n, m, r)
      /\ n \in Nat /\ m \in 0..n
  BY <1>1 DEF TurnedOff
<1>3. q # <<>> /\ Len(Groups(q)) = 1 /\ Connected(q)
  BY <1>2 DEF Listed, ClosesAround
<1>4. p = <<>> \/ ~(Len(Groups(p)) = 1 /\ Connected(p))
  BY <1>2 DEF Listed, Closes, ClosesAround
<1>5. p \in Seq(Point) /\ q \in Seq(Point) /\ n = Len(p) /\ n = Len(q)
  BY <1>2 DEF TurnedOff, Turned
<1>6. p # <<>>
  BY <1>3, <1>5, EmptySeq
<1>7. PICK z \in 1..n : ~Links(p, z)
  BY <1>4, <1>5, <1>6, AllLinked
<1>8. PICK k \in 1..n : At(n, m + k) = z
  BY <1>2, AtOnto
<1>9. Links(q, k)
  BY <1>3, <1>5, AllLinked
<1>10. Links(q, k) <=> Links(p, At(n, m + k))
  BY <1>2, TurnedLinks DEF TurnedOff
<1> QED BY <1>7, <1>8, <1>9, <1>10

\* A near slot is filtered alike.
LEMMA NearTurns ==
  ASSUME NEW S \in SUBSET Slot, NEW rev \in [S -> Measurement],
         NEW r \in 1..Slots - 1, ~Closes(rev), NearType, ~OnTheLimit(rev),
         NEW u \in S, Near(rev[u])
  PROVE  FilteredAt(Rotated(rev, r))[(u + r) % Slots] = FilteredAt(rev)[u]
<1> DEFINE v == Rotated(rev, r)
<1>1. ~Closes(v)
  BY StaysOpen
<1>2. TurnedSlots(S, r) \in SUBSET Slot /\ v \in [TurnedSlots(S, r) -> Measurement]
  BY RotatedIs
<1>3. PICK p, a, q, c, n, m :
        /\ Listed(rev, p, n, a)
        /\ Listed(v, q, n, c)
        /\ TurnedOff(q, p, n, m, r)
        /\ TurnedFrom(q, c, p, a, n, m, r)
  BY TurnedNear
<1> HIDE DEF v
<1>4. /\ Listed(rev, p, n, a)
      /\ Listed(v, q, n, c)
      /\ TurnedOff(q, p, n, m, r)
      /\ TurnedFrom(q, c, p, a, n, m, r)
      /\ n \in Nat /\ m \in 0..n
  BY <1>3 DEF TurnedOff
<1>5. p \in Seq(Point) /\ q \in Seq(Point) /\ n = Len(p) /\ n = Len(q)
  BY <1>4 DEF TurnedOff, Turned
<1>6. p = Pending(ScanOf(rev)) /\ Lists(p, rev, NearSlots(rev), a)
  BY <1>4 DEF Listed
<1>7. \A k \in 1..n : c[k] = (a[At(n, m + k)] + r) % Slots
  BY <1>4 DEF TurnedFrom
<1>10. PICK x \in 1..n : a[x] = u
  <2>1. u \in NearSlots(rev)
    BY DEF NearSlots
  <2>2. \A y \in NearSlots(rev) : \E k \in 1..Len(p) : a[k] = y
    BY <1>6 DEF Lists, Enumerates
  <2> QED BY <1>5, <2>1, <2>2
<1>11. PICK z \in 1..n : ~Links(p, z)
  <2>1. p # <<>>
    <3>1. Len(p) # 0
      BY <1>4, <1>5, <1>10
    <3> QED BY <3>1, EmptySeq
  <2>2. ~(Len(Groups(p)) = 1 /\ Connected(p))
    BY <1>6, <2>1 DEF Closes, ClosesAround
  <2> QED BY <1>5, <2>1, <2>2, AllLinked
<1>12. PICK h \in 1..n, l \in 1..n : /\ GroupAt(p, h, l)
                                     /\ \E j \in 1..l : At(n, h + j - 1) = x
  <2>1. x \in 1..Len(p) /\ z \in 1..Len(p) /\ ~Links(p, z)
    BY <1>5, <1>11
  <2>2. \E h, l \in 1..Len(p) :
          /\ GroupAt(p, h, l)
          /\ \E j \in 1..l : At(Len(p), h + j - 1) = x
    BY <1>5, <2>1, InSomeGroup
  <2> QED BY <1>5, <2>2
<1>13. PICK j \in 1..l : At(n, h + j - 1) = x
  BY <1>12
<1>14. PICK g \in 1..n : SameGroup(q, p, n, m, h, l, g)
  BY <1>4, <1>12, TurnedGroup
<1>18. /\ GroupAt(q, g, l)
       /\ \A i \in 1..l :
            /\ At(n, m + At(n, g + i - 1)) = At(n, h + i - 1)
            /\ Arc(q, g, l)[i].distance = Arc(p, h, l)[i].distance
            /\ Arc(q, g, l)[i].intensity = Arc(p, h, l)[i].intensity
  BY <1>14 DEF SameGroup
<1>15. FilteredAt(rev)[u] = {Held(Judged(Arc(p, h, l))[j])}
  <2>1. FilteredAt(rev)[a[At(n, h + j - 1)]] = {Held(Judged(Arc(p, h, l))[j])}
    <3>1. Listed(rev, p, n, a) /\ GroupAt(p, h, l)
      BY <1>4, <1>12
    <3>2. JudgedAt(rev, p, n, a, h, l)
      BY <1>4, <3>1, NearIsJudged
    <3> QED BY <3>2 DEF JudgedAt
  <2> QED BY <1>10, <1>13, <2>1
<1>16. FilteredAt(v)[(u + r) % Slots] = {Held(Judged(Arc(q, g, l))[j])}
  <2>1. FilteredAt(v)[c[At(n, g + j - 1)]] = {Held(Judged(Arc(q, g, l))[j])}
    <3>1. Listed(v, q, n, c) /\ GroupAt(q, g, l)
      BY <1>4, <1>18
    <3>2. JudgedAt(v, q, n, c, g, l)
      BY <1>1, <1>2, <1>4, <3>1, NearIsJudged
    <3> QED BY <3>2 DEF JudgedAt
  <2>2. PICK y \in 1..n : y = At(n, g + j - 1) /\ At(n, m + y) = x
    <3>1. At(n, g + j - 1) \in 1..n
      BY <1>4 DEF At
    <3> QED BY <1>13, <1>18, <3>1
  <2>3. c[y] = (u + r) % Slots
    BY <1>7, <1>10, <2>2
  <2> QED BY <2>1, <2>2, <2>3
<1>17. Held(Judged(Arc(p, h, l))[j]) = Held(Judged(Arc(q, g, l))[j])
  <2> DEFINE X == Arc(p, h, l)
             Y == Arc(q, g, l)
  <2>1. X \in Seq(Point) /\ Len(X) = l /\ Y \in Seq(Point) /\ Len(Y) = l
    BY <1>5, ArcIs
  <2>2. \A i \in 1..l : X[i].distance = Y[i].distance /\ X[i].intensity = Y[i].intensity
    BY <1>18
  <2> HIDE DEF X, Y
  <2>3. /\ Judged(X)[j].distance = Judged(Y)[j].distance
        /\ Judged(X)[j].intensity = Judged(Y)[j].intensity
    BY <2>1, <2>2, JudgedAlike
  <2> QED BY <2>3 DEF Held, X, Y
<1> QED BY <1>15, <1>16, <1>17 DEF v

After(n, k) == IF k = n THEN 1 ELSE k + 1

\* What NoiseFilter makes of a point depends on what it and its neighbours hold.
LEMMA NoiseFilterAt ==
  ASSUME NEW s \in Seq(Point), NEW n \in Nat, n = Len(s), NEW k \in 1..n
  PROVE  NoiseFilter(s)[k] =
           IF IsNoise(s[k], s[Before(n, k)], s[After(n, k)]) THEN Zeroed(s[k])
                                                             ELSE s[k]
  BY DEF NoiseFilter, Before, After

\* A point is noise by distances and intensities only.
LEMMA NoiseAlike ==
  ASSUME NEW x, NEW y, NEW z, NEW u, NEW v, NEW w,
         x.distance = u.distance, x.intensity = u.intensity,
         y.distance = v.distance, z.distance = w.distance
  PROVE  IsNoise(x, y, z) <=> IsNoise(u, v, w)
<1>1. ASSUME NEW d PROVE OppositeTrend(x, y, z, d) <=> OppositeTrend(u, v, w, d)
  BY DEF OppositeTrend
<1>2. TrendLimit(x, y, z) = TrendLimit(u, v, w)
  BY <1>1 DEF TrendLimit
<1>3. Lonely(x, y, z) <=> Lonely(u, v, w)
  BY DEF Lonely
<1> QED BY <1>2, <1>3 DEF IsNoise

\* It holds the same in the turned revolution.
LEMMA NoiseTurns ==
  ASSUME NEW p \in Seq(Point), NEW q \in Seq(Point), NEW n \in Nat, NEW m \in 0..n,
         NEW r, Turned(q, p, n, m, r), NEW k \in 1..n
  PROVE  Held(NoiseFilter(q)[k]) = Held(NoiseFilter(p)[At(n, m + k)])
<1>1. /\ n = Len(p) /\ n = Len(q)
      /\ \A i \in 1..n : /\ At(n, m + i) \in 1..n
                         /\ q[i].distance = p[At(n, m + i)].distance
                         /\ q[i].intensity = p[At(n, m + i)].intensity
  BY DEF Turned
<1>2. PICK b \in 1..n, e \in 1..n, x \in 1..n :
        /\ b = Before(n, k) /\ e = After(n, k) /\ x = At(n, m + k)
        /\ At(n, m + b) = Before(n, x) /\ At(n, m + e) = After(n, x)
  <2>1. Before(n, k) \in 1..n /\ After(n, k) \in 1..n
    BY DEF Before, After
  <2>2. At(n, m + k) \in 1..n
    BY <1>1
  <2>3. At(n, m + Before(n, k)) = Before(n, At(n, m + k))
    BY DEF At, Before
  <2>4. At(n, m + After(n, k)) = After(n, At(n, m + k))
    BY DEF At, After
  <2> QED BY <2>1, <2>2, <2>3, <2>4
<1>3. PICK y \in 1..n, z \in 1..n : y = Before(n, x) /\ z = After(n, x)
  BY DEF Before, After
<1>4. /\ q[k].distance = p[x].distance /\ q[k].intensity = p[x].intensity
      /\ q[b].distance = p[y].distance /\ q[e].distance = p[z].distance
  <2>1. ASSUME NEW i \in 1..n, NEW j \in 1..n, j = At(n, m + i)
        PROVE  q[i].distance = p[j].distance /\ q[i].intensity = p[j].intensity
    BY <1>1, <2>1
  <2>2. x = At(n, m + k) /\ y = At(n, m + b) /\ z = At(n, m + e)
    BY <1>2, <1>3
  <2> QED BY <2>1, <2>2
<1>5. IsNoise(q[k], q[b], q[e]) <=> IsNoise(p[x], p[y], p[z])
  BY <1>4, NoiseAlike
<1>6. /\ NoiseFilter(q)[k] = IF IsNoise(q[k], q[b], q[e]) THEN Zeroed(q[k]) ELSE q[k]
      /\ NoiseFilter(p)[x] = IF IsNoise(p[x], p[y], p[z]) THEN Zeroed(p[x]) ELSE p[x]
  BY <1>1, <1>2, <1>3, NoiseFilterAt
<1>7. Held(Zeroed(q[k])) = Held(Zeroed(p[x]))
  <2>1. q[k] \in Point /\ p[x] \in Point
    BY <1>1, ElementOfSeq
  <2>2. ASSUME NEW c \in Point
        PROVE  Held(Zeroed(c)) = [distance |-> 0, intensity |-> 0]
    <3>1. c \in [angle : 0..Turn - 1, distance : Nat, intensity : 0..255]
      BY <2>2 DEF Point
    <3>2. Zeroed(c).distance = 0 /\ Zeroed(c).intensity = 0
      BY <3>1 DEF Zeroed
    <3> QED BY <3>2 DEF Held
  <2>3. Held(Zeroed(q[k])) = [distance |-> 0, intensity |-> 0]
    BY <2>1, <2>2
  <2>4. Held(Zeroed(p[x])) = [distance |-> 0, intensity |-> 0]
    BY <2>1, <2>2
  <2> QED BY <2>3, <2>4
<1>8. Held(q[k]) = Held(p[x])
  BY <1>4 DEF Held
<1> QED BY <1>2, <1>5, <1>6, <1>7, <1>8

\* A slot is filtered alike by the sensors without a filter for near points.
LEMMA OtherTurns ==
  ASSUME NEW S \in SUBSET Slot, NEW rev \in [S -> Measurement],
         NEW r \in 1..Slots - 1, ~NearType, NEW u \in S
  PROVE  FilteredAt(Rotated(rev, r))[(u + r) % Slots] = FilteredAt(rev)[u]
<1> DEFINE v == Rotated(rev, r)
           T == TurnedSlots(S, r)
           p == ScanOf(rev)
           q == ScanOf(v)
           a == Ordered(S)
           c == Ordered(T)
           y == ByAngleAgain(type, p)
           z == ByAngleAgain(type, q)
<1>1. T \in SUBSET Slot /\ v \in [T -> Measurement]
  BY RotatedIs
<1>2. Lists(p, rev, S, a)
  BY ScanLists
<1>3. Lists(q, v, T, c)
  <2> HIDE DEF v, T
  <2> QED BY <1>1, ScanLists
<1>4. /\ p \in Seq(Point) /\ Increasing(p) /\ Len(y) = Len(p)
      /\ \A i \in 1..Len(p) : y[i].angle = p[i].angle
      /\ \A k \in 1..Len(y) : \A w \in Slot :
           y[k].angle = 2 * w => FilteredAt(rev)[w] = {Held(y[k])}
  <2>1. ~Closes(rev)
    BY DEF Closes
  <2>2. IsFiltered(rev, S, p, y)
    BY <2>1, FilterOf
  <2> HIDE DEF p, y
  <2> QED BY <2>2 DEF IsFiltered
<1>5. /\ q \in Seq(Point) /\ Increasing(q) /\ Len(z) = Len(q)
      /\ \A i \in 1..Len(q) : z[i].angle = q[i].angle
      /\ \A k \in 1..Len(z) : \A w \in Slot :
           z[k].angle = 2 * w => FilteredAt(v)[w] = {Held(z[k])}
  <2> HIDE DEF v, T
  <2>1. ~Closes(v)
    BY DEF Closes
  <2>2. IsFiltered(v, T, q, z)
    BY <1>1, <2>1, FilterOf
  <2> HIDE DEF q, z
  <2> QED BY <2>2 DEF IsFiltered
<1>6. BothListed(rev, r, S, p, a, q, c)
  BY <1>2, <1>3 DEF BothListed
<1>7. (y = p /\ z = q) \/ (y = NoiseFilter(p) /\ z = NoiseFilter(q))
  <2> HIDE DEF p, q
  <2>1. CASE type \in {"STL_06P", "STL_26", "STL_27L"}
    <3>1. y = ByAngle(NoiseFilter(p)) /\ z = ByAngle(NoiseFilter(q))
      BY <2>1 DEF ByAngleAgain, Filter
    <3>2. ASSUME NEW s \in Seq(Point), Increasing(s)
          PROVE  ByAngle(NoiseFilter(s)) = NoiseFilter(s)
      <4>1. PICK n \in Nat : n = Len(s)
        BY LenProperties
      <4>2. NoiseFilter(s) \in Seq(Point) /\ Len(NoiseFilter(s)) = n
        <5>1. NoiseFilter(s) \in Seq(Point)
          BY NoiseFilterIs
        <5>2. DOMAIN NoiseFilter(s) = 1..n
          BY <4>1 DEF NoiseFilter
        <5>3. /\ Len(NoiseFilter(s)) \in Nat
              /\ DOMAIN NoiseFilter(s) = 1..Len(NoiseFilter(s))
          BY <5>1, LenProperties
        <5>4. PICK l \in Nat : l = Len(NoiseFilter(s))
          BY <5>3
        <5>5. 1..l = 1..n
          BY <5>2, <5>3, <5>4
        <5>6. l = n
          <6>1. l \in 1..n \/ l = 0
            BY <5>5
          <6>2. n \in 1..l \/ n = 0
            BY <5>5
          <6> QED BY <6>1, <6>2
        <5> QED BY <5>1, <5>4, <5>6
      <4>3. ASSUME NEW i \in 1..n PROVE NoiseFilter(s)[i].angle = s[i].angle
        <5>1. s[i] \in Point
          BY <4>1, ElementOfSeq
        <5>2. Zeroed(s[i]).angle = s[i].angle
          BY <5>1, PointIs
        <5>3. NoiseFilter(s)[i] = Zeroed(s[i]) \/ NoiseFilter(s)[i] = s[i]
          BY <4>1, NoiseFilterAt
        <5> QED BY <5>2, <5>3, Zenon
      <4>4. Increasing(NoiseFilter(s))
        BY <3>2, <4>1, <4>2, <4>3 DEF Increasing
      <4> QED BY <4>2, <4>4, ByAngleKeeps
    <3> QED BY <1>4, <1>5, <3>1, <3>2
  <2>2. CASE type \notin {"STL_06P", "STL_26", "STL_27L"}
    <3>1. y = ByAngle(p) /\ z = ByAngle(q)
      BY <2>2 DEF ByAngleAgain, Filter, NearType
    <3>2. ByAngle(p) = p /\ ByAngle(q) = q
      BY <1>4, <1>5, ByAngleKeeps
    <3> HIDE DEF y, z
    <3> QED BY <3>1, <3>2
  <2> QED BY <2>1, <2>2
<1> HIDE DEF p, q, a, c, y, z, v
<1>8. PICK n \in Nat : \E m \in 0..n : TurnedFrom(q, c, p, a, n, m, r)
  BY <1>6, TurnedLists
<1>9. PICK m \in 0..n : TurnedFrom(q, c, p, a, n, m, r)
  BY <1>8
<1>10. /\ Turned(q, p, n, m, r) /\ n = Len(p) /\ n = Len(q)
       /\ \A k \in 1..n : At(n, m + k) \in 1..n /\ c[k] = (a[At(n, m + k)] + r) % Slots
  BY <1>9 DEF TurnedFrom, Turned
<1>11. PICK x \in 1..n : a[x] = u
  BY <1>2, <1>10 DEF Lists, Enumerates
<1>12. PICK k \in 1..n : At(n, m + k) = x
  BY AtOnto
<1>13. c[k] = (u + r) % Slots
  BY <1>10, <1>11, <1>12
<1>14. FilteredAt(rev)[u] = {Held(y[x])}
  <2>1. y[x].angle = 2 * u
    BY <1>2, <1>4, <1>10, <1>11 DEF Lists
  <2> QED BY <1>4, <1>10, <2>1
<1>15. FilteredAt(v)[c[k]] = {Held(z[k])}
  <2>1. z[k].angle = 2 * c[k]
    BY <1>3, <1>5, <1>10 DEF Lists
  <2>2. c[k] \in Slot
    BY <1>1, <1>3, <1>10 DEF Lists, Enumerates
  <2> QED BY <1>5, <1>10, <2>1, <2>2
<1>16. Held(z[k]) = Held(y[x])
  <2>1. Held(q[k]) = Held(p[x])
    <3>1. q[k].distance = p[x].distance /\ q[k].intensity = p[x].intensity
      BY <1>10, <1>12 DEF Turned
    <3> QED BY <3>1 DEF Held
  <2>2. Held(NoiseFilter(q)[k]) = Held(NoiseFilter(p)[x])
    <3>1. p \in Seq(Point) /\ q \in Seq(Point) /\ Turned(q, p, n, m, r)
      BY <1>4, <1>5, <1>10
    <3>2. Held(NoiseFilter(q)[k]) = Held(NoiseFilter(p)[At(n, m + k)])
      BY <3>1, NoiseTurns
    <3> QED BY <1>12, <3>2
  <2> QED BY <1>7, <2>1, <2>2
<1> QED BY <1>13, <1>14, <1>15, <1>16 DEF v

\* Every slot is filtered alike, wherever the revolution begins.
LEMMA SlotTurns ==
  ASSUME NEW S \in SUBSET Slot, NEW rev \in [S -> Measurement],
         NEW r \in 1..Slots - 1, ~Closes(rev), NearType => ~OnTheLimit(rev),
         NEW u \in Slot
  PROVE  FilteredAt(Rotated(rev, r))[(u + r) % Slots] = FilteredAt(rev)[u]
<1> DEFINE v == Rotated(rev, r)
           T == TurnedSlots(S, r)
<1>1. /\ T \in SUBSET Slot /\ v \in [T -> Measurement]
      /\ \A w \in S : v[(w + r) % Slots] = rev[w]
  BY RotatedIs
<1>2. ~Closes(v)
  BY StaysOpen
<1>3. CASE u \notin S
  <2>1. (u + r) % Slots \in Slot /\ (((u + r) % Slots) - r) % Slots = u
    BY TurnedSlot
  <2>2. ASSUME (u + r) % Slots \in T PROVE FALSE
    <3>1. PICK w \in S : (w + r) % Slots = (u + r) % Slots
      BY <2>2 DEF TurnedSlots
    <3>2. w \in Slot
      OBVIOUS
    <3>3. (((w + r) % Slots) - r) % Slots = w
      BY <3>2, TurnedSlot
    <3> QED BY <1>3, <2>1, <3>1, <3>3
  <2>3. FilteredAt(rev)[u] = {}
    BY <1>3, FilterOf DEF IsFiltered
  <2>4. PICK w \in Slot \ T : w = (u + r) % Slots
    BY <2>1, <2>2
  <2> HIDE DEF v, T
  <2>5. FilteredAt(v)[w] = {}
    BY <1>1, <1>2, FilterOf DEF IsFiltered
  <2> QED BY <2>3, <2>4, <2>5 DEF v
<1>4. CASE u \in S /\ NearType /\ Near(rev[u])
  BY <1>4, NearTurns
<1>5. CASE u \in S /\ NearType /\ ~Near(rev[u])
  <2>1. (u + r) % Slots \in T
    BY <1>5 DEF TurnedSlots
  <2>2. PICK w \in T : w = (u + r) % Slots
    BY <2>1
  <2> HIDE DEF v, T
  <2>3. v[w] = rev[u]
    BY <1>1, <1>5, <2>2
  <2>4. FilteredAt(rev)[u] = {Held(rev[u])}
    BY <1>5, FarStays
  <2>5. FilteredAt(v)[w] = {Held(v[w])}
    <3>1. ~Near(v[w])
      BY <1>5, <2>3
    <3> QED BY <1>1, <1>2, <3>1, FarStays
  <2> QED BY <2>2, <2>3, <2>4, <2>5 DEF v
<1>6. CASE u \in S /\ ~NearType
  BY <1>6, OtherTurns
<1> QED BY <1>3, <1>4, <1>5, <1>6

-----------------------------------------------------------------------------
(* Where a point falls in the message.                                        *)

\* What \div is: the quotient of a division with remainder.
LEMMA Quotient ==
  ASSUME NEW n \in Nat, NEW d \in Nat \ {0}
  PROVE  /\ n \div d \in Int
         /\ d * (n \div d) <= n
         /\ n < d * (n \div d) + d
  OBVIOUS

\* Every angle of a revolution has a beam of the message, and the direction of
\* that beam is less than one increment clockwise of the angle: neither 0 nor the
\* last angle before a full turn leaves the array (ldlidar_component.cpp:150-166).
THEOREM BeamOfIsNear ==
  ASSUME NEW angle \in 0..Turn - 1
  PROVE  /\ BeamOf(angle) \in Beam
         /\ (Turn - angle) * (Bins - 1) - BeamOf(angle) * Turn \in 0..Turn - 1
<1> DEFINE m == Bins - 1
           n == angle * m + Turn - 1
           q == n \div Turn
<1>1. Turn \in Nat \ {0} /\ m \in Nat \ {0} /\ angle \in Nat
  BY TurnAssumption, BinsAssumption
<1>2. angle * m \in Nat
  BY <1>1
<1>3. n \in Nat
  BY <1>1, <1>2
<1>4. q \in Int /\ Turn * q <= n /\ n < Turn * q + Turn
  BY <1>1, <1>3, Quotient
<1> HIDE DEF q
<1>5. 0 <= Turn * q - angle * m /\ Turn * q - angle * m <= Turn - 1
  BY <1>1, <1>2, <1>4
<1>6. q >= 0
  BY <1>1, <1>3, <1>4
<1>7. q <= m
  <2> SUFFICES ASSUME q >= m + 1 PROVE FALSE
    BY <1>1, <1>4
  <2>1. Turn * q >= Turn * (m + 1)
    BY <1>1, <1>4
  <2>2. angle * m <= (Turn - 1) * m
    BY <1>1
  <2>3. n < Turn * (m + 1)
    BY <1>1, <1>2, <2>2
  <2> QED
    BY <1>1, <1>3, <1>4, <2>1, <2>3
<1>8. BeamOf(angle) = m - q
  BY DEF BeamOf, q
<1>9. (Turn - angle) * m - (m - q) * Turn = Turn * q - angle * m
  BY <1>1, <1>4
<1> QED
  BY <1>1, <1>2, <1>4, <1>5, <1>6, <1>7, <1>8, <1>9 DEF Beam

-----------------------------------------------------------------------------

Ranges == [Beam -> Nat \cup {NaN}]

\* A range is a number, and the farther of two distances has the larger one.
LEMMA MetresIs ==
  ASSUME NEW d \in Nat, NEW e \in Nat
  PROVE  /\ Metres(d) \in Nat
         /\ Metres(d) <= Metres(e) <=> d <= e
<1>1. PICK a \in Nat, b \in Nat : a = 4719 * d + 4096 /\ b = 4719 * e + 4096
  OBVIOUS
<1>2. PICK q \in Int, r \in Int : q = a \div 8192 /\ r = b \div 8192
  OBVIOUS
<1>3. 8192 * q <= a /\ a < 8192 * q + 8192 /\ 8192 * r <= b /\ b < 8192 * r + 8192
  BY <1>2
<1>4. Metres(d) = 1048 * d + q /\ Metres(e) = 1048 * e + r
  BY <1>1, <1>2 DEF Metres
<1> QED BY <1>1, <1>3, <1>4

\* The bridge shows the distances from 20 mm to less than 12 m.
LEMMA MetresInRange ==
  ASSUME NEW d \in Nat
  PROVE  InRange(Metres(d)) <=> d >= 20 /\ d < 12000
<1>1. PICK a \in Nat : a = 4719 * d + 4096
  OBVIOUS
<1>2. PICK q \in Int : q = a \div 8192
  OBVIOUS
<1>3. 8192 * q <= a /\ a < 8192 * q + 8192
  BY <1>2
<1>4. Metres(d) = 1048 * d + q
  BY <1>1, <1>2 DEF Metres
<1> QED BY <1>1, <1>3, <1>4 DEF InRange, Metre

\* What a point brings into its beam: its range, unless the filter zeroed it.
Brought(p) == IF IsZeroed(p) THEN NaN ELSE Metres(p.distance)

\* A point that is put into a message leaves ranges.
LEMMA PutRanges ==
  ASSUME NEW x, x.ranges \in Ranges, NEW p \in Point
  PROVE  /\ Put(x, p).ranges \in Ranges
         /\ \A b \in Beam :
              Put(x, p).ranges[b] =
                IF b = BeamOf(p.angle) THEN Nearer(x.ranges[b], Brought(p))
                                       ELSE x.ranges[b]
<1>1. p.angle \in 0..Turn - 1 /\ p.distance \in Nat
  BY DEF Point
<1>2. BeamOf(p.angle) \in Beam
  BY <1>1, BeamOfIsNear
<1>3. Brought(p) \in Nat \cup {NaN}
  BY <1>1, MetresIs DEF Brought
<1>4. Put(x, p).ranges =
        [x.ranges EXCEPT ![BeamOf(p.angle)] = Nearer(@, Brought(p))]
  BY Zenon DEF Put, Brought
<1>5. \A old \in Nat \cup {NaN} : Nearer(old, Brought(p)) \in Nat \cup {NaN}
  BY <1>3, Zenon DEF Nearer
<1> QED
  BY <1>2, <1>4, <1>5 DEF Ranges

\* A point that is kept is in the message, or a nearer one is, and what is in the
\* message comes nearer with every point of the loop, never farther away
\* (ldlidar_component.cpp:170-184).
THEOREM PutKeepsNearest ==
  ASSUME NEW x, x.ranges \in Ranges, NEW p \in Point
  PROVE  /\ ~IsZeroed(p) =>
              Put(x, p).ranges[BeamOf(p.angle)] \in 0..Metres(p.distance)
         /\ \A b \in Beam :
              x.ranges[b] # NaN => Put(x, p).ranges[b] \in 0..x.ranges[b]
<1>1. p.angle \in 0..Turn - 1 /\ p.distance \in Nat
  BY DEF Point
<1>2. BeamOf(p.angle) \in Beam
  BY <1>1, BeamOfIsNear
<1>3. \A b \in Beam : x.ranges[b] \in Nat \cup {NaN}
  BY DEF Ranges
<1>4. Metres(p.distance) \in Nat
  BY <1>1, MetresIs
<1> QED
  BY <1>2, <1>3, <1>4, PutRanges DEF Nearer, Brought, NaN

\* The ranges of the message do not depend on the order of the points: two that
\* are swapped leave the same (lipkg.cpp:252 sorts them by stamps, which tie, and
\* which a clock that is set back scrambles).
THEOREM PutsCommute ==
  ASSUME NEW x, x.ranges \in Ranges, NEW p \in Point, NEW q \in Point
  PROVE  Put(Put(x, p), q).ranges = Put(Put(x, q), p).ranges
<1> DEFINE pq == Put(Put(x, p), q).ranges
           qp == Put(Put(x, q), p).ranges
<1>1. /\ Put(x, p).ranges \in Ranges /\ Put(x, q).ranges \in Ranges
      /\ pq \in Ranges /\ qp \in Ranges
  BY PutRanges
<1>2. p.distance \in Nat /\ q.distance \in Nat
  BY DEF Point
<1>3. Brought(p) \in Nat \cup {NaN} /\ Brought(q) \in Nat \cup {NaN}
  BY <1>2, MetresIs DEF Brought
<1>4. \A r, s, t \in Nat \cup {NaN} :
        Nearer(Nearer(r, s), t) = Nearer(Nearer(r, t), s)
  BY DEF Nearer, NaN
<1>5. ASSUME NEW b \in Beam PROVE pq[b] = qp[b]
  <2>1. x.ranges[b] \in Nat \cup {NaN}
    BY DEF Ranges
  <2>2. pq[b] = IF b = BeamOf(q.angle)
                THEN Nearer(Put(x, p).ranges[b], Brought(q))
                ELSE Put(x, p).ranges[b]
    BY <1>1, PutRanges
  <2>3. qp[b] = IF b = BeamOf(p.angle)
                THEN Nearer(Put(x, q).ranges[b], Brought(p))
                ELSE Put(x, q).ranges[b]
    BY <1>1, PutRanges
  <2>4. Put(x, p).ranges[b] = IF b = BeamOf(p.angle)
                                THEN Nearer(x.ranges[b], Brought(p))
                                ELSE x.ranges[b]
    BY PutRanges
  <2>5. Put(x, q).ranges[b] = IF b = BeamOf(q.angle)
                                THEN Nearer(x.ranges[b], Brought(q))
                                ELSE x.ranges[b]
    BY PutRanges
  <2>6. Nearer(Nearer(x.ranges[b], Brought(p)), Brought(q)) =
          Nearer(Nearer(x.ranges[b], Brought(q)), Brought(p))
    BY <1>3, <1>4, <2>1
  <2> HIDE DEF pq, qp
  <2>7. CASE b = BeamOf(p.angle) /\ b = BeamOf(q.angle)
    BY <2>2, <2>3, <2>4, <2>5, <2>6, <2>7, Zenon
  <2>8. CASE ~(b = BeamOf(p.angle) /\ b = BeamOf(q.angle))
    BY <2>2, <2>3, <2>4, <2>5, <2>8
  <2> QED
    BY <2>7, <2>8
<1> HIDE DEF pq, qp
<1>6. pq = qp
  BY <1>1, <1>5 DEF Ranges
<1> QED
  BY <1>6 DEF pq, qp

-----------------------------------------------------------------------------
(* publishLaserScan.                                                          *)

\* It leaves intensities too.
LEMMA PutIntensities ==
  ASSUME NEW x, x.intensities \in [Beam -> 0..255 \cup {NaN}], NEW p \in Point
  PROVE  Put(x, p).intensities \in [Beam -> 0..255 \cup {NaN}]
<1>1. p.intensity \in 0..255
  BY DEF Point
<1>2. Put(x, p).intensities =
        [x.intensities EXCEPT ![BeamOf(p.angle)] =
           IF IsZeroed(p) THEN NaN ELSE p.intensity]
  BY Zenon DEF Put
<1> QED BY <1>1, <1>2

Publishes(src, f, n) ==
  f = [i \in 0..n |-> IF i = 0 THEN [ranges |-> Empty, intensities |-> Empty]
                      ELSE Put(f[i - 1], src[i])]

\* The function that publishLaserScan chooses exists.
LEMMA PublishExists ==
  ASSUME NEW src, NEW n \in Nat
  PROVE  \E f : Publishes(src, f, n)
<1> DEFINE e == [ranges |-> Empty, intensities |-> Empty]
           S == {m \in 0..n : \E f : Publishes(src, f, m)}
<1>1. 0 \in S
  <2>1. Publishes(src, [i \in 0..0 |-> e], 0)
    BY DEF Publishes
  <2> QED BY <2>1
<1>2. ASSUME NEW k \in 0..n - 1, k \in S PROVE k + 1 \in S
  <2>1. PICK f : Publishes(src, f, k)
    BY <1>2
  <2> DEFINE last == Put(f[k], src[k + 1])
             h == [i \in 0..k + 1 |-> IF i = k + 1 THEN last ELSE f[i]]
  <2> HIDE DEF last, e
  <2>2. ASSUME NEW i \in 0..k + 1
        PROVE  h[i] = IF i = 0 THEN e ELSE Put(h[i - 1], src[i])
    <3>1. CASE i = k + 1
      <4>1. h[i] = last /\ i # 0 /\ h[i - 1] = f[k]
        BY <3>1
      <4> HIDE DEF h
      <4> QED BY <3>1, <4>1 DEF last
    <3>2. CASE i # k + 1
      <4>1. i \in 0..k /\ h[i] = f[i]
        BY <3>2
      <4>2. i # 0 => h[i - 1] = f[i - 1]
        BY <3>2
      <4>3. f[i] = IF i = 0 THEN e ELSE Put(f[i - 1], src[i])
        BY <2>1, <4>1 DEF Publishes, e
      <4> HIDE DEF h
      <4> QED BY <4>1, <4>2, <4>3
    <3> QED BY <3>1, <3>2
  <2>3. h = [i \in 0..k + 1 |-> h[i]]
    OBVIOUS
  <2> HIDE DEF h
  <2>4. h = [i \in 0..k + 1 |-> IF i = 0 THEN e ELSE Put(h[i - 1], src[i])]
    BY <2>2, <2>3
  <2>5. Publishes(src, h, k + 1)
    BY <2>4 DEF Publishes, e
  <2> QED BY <2>5
<1> HIDE DEF S
<1>3. n \in S
  BY <1>1, <1>2, Induction
<1> QED BY <1>3 DEF S

\* The first k points of src that fall into beam b and are kept.
KeptIn(src, k, b) ==
  {i \in 1..k : BeamOf(src[i].angle) = b /\ ~IsZeroed(src[i])}

\* r is the range of the nearest of these points of src.
IsNearestOf(r, src, I) ==
  \/ I = {} /\ r = NaN
  \/ /\ \E i \in I : r = Metres(src[i].distance)
     /\ \A i \in I : r <= Metres(src[i].distance)

\* One more point: the nearest so far, or the new one if it is nearer.
LEMMA NearestGrows ==
  ASSUME NEW src \in Seq(Point), NEW k \in Nat, k + 1 \in 1..Len(src),
         NEW b \in Beam, NEW r \in Nat \cup {NaN},
         IsNearestOf(r, src, KeptIn(src, k, b))
  PROVE  IsNearestOf(IF b = BeamOf(src[k + 1].angle)
                     THEN Nearer(r, Brought(src[k + 1])) ELSE r,
                     src, KeptIn(src, k + 1, b))
<1> DEFINE p == src[k + 1]
           I == KeptIn(src, k, b)
           J == KeptIn(src, k + 1, b)
<1>1. p \in Point /\ Metres(p.distance) \in Nat
  <2>1. p \in Point
    BY ElementOfSeq
  <2>2. p.distance \in Nat
    BY <2>1, PointIs
  <2> QED BY <2>1, <2>2, MetresIs
<1>2. \A i \in I : Metres(src[i].distance) \in Nat
  <2> SUFFICES ASSUME NEW i \in I PROVE Metres(src[i].distance) \in Nat
    OBVIOUS
  <2>1. i \in 1..Len(src)
    BY LenProperties DEF KeptIn
  <2>2. src[i] \in Point
    BY <2>1, ElementOfSeq
  <2>3. src[i].distance \in Nat
    BY <2>2, PointIs
  <2> QED BY <2>3, MetresIs
<1>3. CASE b = BeamOf(p.angle) /\ ~IsZeroed(p)
  <2>1. J = I \cup {k + 1}
    BY <1>3 DEF KeptIn
  <2>2. Brought(p) = Metres(p.distance)
    BY <1>3 DEF Brought
  <2> DEFINE d == Metres(p.distance)
  <2>3. d \in Nat /\ d = Metres(src[k + 1].distance)
    BY <1>1
  <2> HIDE DEF I, J, d
  <2>4. CASE I = {} /\ r = NaN
    <3>1. Nearer(r, d) = d
      BY <2>4 DEF Nearer
    <3>2. IsNearestOf(d, src, J)
      BY <2>1, <2>3, <2>4 DEF IsNearestOf
    <3> QED BY <1>3, <2>2, <3>1, <3>2 DEF J, d
  <2>5. CASE ~(I = {} /\ r = NaN)
    <3>1. /\ \E i \in I : r = Metres(src[i].distance)
          /\ \A i \in I : r <= Metres(src[i].distance)
      BY <2>5 DEF IsNearestOf, I
    <3>2. r \in Nat /\ r # NaN
      BY <1>2, <3>1 DEF NaN
    <3>3. CASE d < r
      <4>1. Nearer(r, d) = d
        BY <2>3, <3>2, <3>3 DEF Nearer, NaN
      <4>2. \A i \in I : d <= Metres(src[i].distance)
        BY <1>2, <2>3, <3>1, <3>2, <3>3
      <4>3. IsNearestOf(d, src, J)
        BY <2>1, <2>3, <4>2 DEF IsNearestOf
      <4> QED BY <1>3, <2>2, <4>1, <4>3 DEF J, d
    <3>4. CASE ~(d < r)
      <4>1. Nearer(r, d) = r
        BY <2>3, <3>2, <3>4 DEF Nearer, NaN
      <4>2. r <= d
        BY <2>3, <3>2, <3>4
      <4>3. IsNearestOf(r, src, J)
        BY <2>1, <2>3, <3>1, <4>2 DEF IsNearestOf
      <4> QED BY <1>3, <2>2, <4>1, <4>3 DEF J, d
    <3> QED BY <3>3, <3>4
  <2> QED BY <2>4, <2>5
<1>4. CASE b = BeamOf(p.angle) /\ IsZeroed(p)
  <2>1. J = I
    BY <1>4 DEF KeptIn
  <2>2. Brought(p) = NaN
    BY <1>4 DEF Brought
  <2>3. Nearer(r, NaN) = r
    BY DEF Nearer
  <2> QED BY <1>4, <2>1, <2>2, <2>3
<1>5. CASE b # BeamOf(p.angle)
  <2>1. J = I
    BY <1>5 DEF KeptIn
  <2> QED BY <1>5, <2>1
<1> QED BY <1>3, <1>4, <1>5

\* A beam has the distance of the nearest point in it that was kept, for points in
\* any order and number (ldlidar_component.cpp:170-184).
THEOREM PublishedIsNearest ==
  ASSUME NEW src \in Seq(Point)
  PROVE  /\ publishLaserScan(src).ranges \in Ranges
         /\ publishLaserScan(src).intensities \in [Beam -> 0..255 \cup {NaN}]
         /\ \A b \in Beam : IsNearestOf(publishLaserScan(src).ranges[b], src,
                                        KeptIn(src, Len(src), b))
<1>0. PICK n \in Nat : n = Len(src)
  BY LenProperties
<1> DEFINE f == CHOOSE h : Publishes(src, h, n)
<1>1. Publishes(src, f, n)
  BY PublishExists
<1>2. publishLaserScan(src) = f[n]
  BY <1>0 DEF publishLaserScan, Publishes
<1> HIDE DEF f
<1>3. \A k \in 0..n : f[k] = IF k = 0 THEN [ranges |-> Empty, intensities |-> Empty]
                             ELSE Put(f[k - 1], src[k])
  BY <1>1 DEF Publishes
<1> DEFINE Good(k) == /\ f[k].ranges \in Ranges
                      /\ f[k].intensities \in [Beam -> 0..255 \cup {NaN}]
                      /\ \A b \in Beam :
                           IsNearestOf(f[k].ranges[b], src, KeptIn(src, k, b))
           D == {k \in 0..n : Good(k)}
<1>4. 0 \in D
  <2>1. f[0].ranges = Empty /\ f[0].intensities = Empty
    BY <1>3
  <2>2. Empty \in Ranges /\ Empty \in [Beam -> 0..255 \cup {NaN}]
    BY DEF Empty, Ranges
  <2>3. \A b \in Beam : Empty[b] = NaN /\ KeptIn(src, 0, b) = {}
    BY DEF Empty, KeptIn
  <2>4. \A b \in Beam : IsNearestOf(f[0].ranges[b], src, KeptIn(src, 0, b))
    BY <2>1, <2>3 DEF IsNearestOf
  <2>5. Good(0)
    BY <2>1, <2>2, <2>4
  <2> HIDE DEF Good
  <2> QED BY <2>5
<1>5. ASSUME NEW k \in 0..n - 1, k \in D PROVE k + 1 \in D
  <2>1. k + 1 \in 1..n /\ k + 1 \in 0..n /\ k + 1 # 0 /\ (k + 1) - 1 = k
    OBVIOUS
  <2> DEFINE x == f[k]
             y == f[k + 1]
             p == src[k + 1]
  <2>2. y = Put(x, p) /\ p \in Point
    <3>1. f[k + 1] = Put(f[(k + 1) - 1], src[k + 1])
      BY <1>3, <2>1
    <3>2. src[k + 1] \in Point
      BY <1>0, <2>1, ElementOfSeq
    <3> QED BY <2>1, <3>1, <3>2
  <2>3. /\ x.ranges \in Ranges
        /\ x.intensities \in [Beam -> 0..255 \cup {NaN}]
        /\ \A b \in Beam : IsNearestOf(x.ranges[b], src, KeptIn(src, k, b))
    BY <1>5
  <2> HIDE DEF x, y
  <2>4. /\ y.ranges \in Ranges
        /\ y.intensities \in [Beam -> 0..255 \cup {NaN}]
    BY <2>2, <2>3, PutRanges, PutIntensities
  <2>5. ASSUME NEW b \in Beam
        PROVE  IsNearestOf(y.ranges[b], src, KeptIn(src, k + 1, b))
    <3>1. y.ranges[b] = IF b = BeamOf(p.angle)
                        THEN Nearer(x.ranges[b], Brought(p)) ELSE x.ranges[b]
      BY <2>2, <2>3, PutRanges
    <3>2. x.ranges[b] \in Nat \cup {NaN}
      BY <2>3 DEF Ranges
    <3>3. IsNearestOf(x.ranges[b], src, KeptIn(src, k, b))
      BY <2>3
    <3>4. k \in Nat /\ k + 1 \in 1..Len(src)
      BY <1>0, <2>1
    <3> DEFINE r == x.ranges[b]
    <3> HIDE DEF r
    <3>5. IsNearestOf(IF b = BeamOf(src[k + 1].angle)
                      THEN Nearer(r, Brought(src[k + 1])) ELSE r,
                      src, KeptIn(src, k + 1, b))
      BY <3>2, <3>3, <3>4, NearestGrows DEF r
    <3> QED BY <3>1, <3>5 DEF r
  <2>6. Good(k + 1)
    BY <2>4, <2>5 DEF y
  <2> QED BY <2>1, <2>6
<1> HIDE DEF D, Good
<1>6. n \in D
  <2>1. \A k \in 0..n - 1 : k \in D => k + 1 \in D
    BY <1>5
  <2>2. \A k \in 0..n : k \in D
    BY <1>4, <2>1, Induction
  <2> QED BY <2>2
<1> QED BY <1>0, <1>2, <1>6 DEF D, Good

-----------------------------------------------------------------------------
(* The whole path.                                                            *)

Types ==
  /\ type \in Type
  /\ \E S \in SUBSET Slot : seen \in [S -> Measurement]
  /\ stage \in {"assembled", "filtered", "published", "bridged"}
  /\ points \in Seq(Point)
  /\ msg \in Message
  /\ ros \in Message

\* What each stage holds is what the stages before it have made.
Made ==
  /\ stage # "assembled" => points \in Arrangements(Filter(type, ScanOf(seen)))
  /\ stage \in {"published", "bridged"} => msg = publishLaserScan(points)
  /\ stage = "bridged" => ros = ToRos(msg)

IInv == Types /\ Made

\* A message is made of ranges and intensities.
LEMMA MessageIs ==
  ASSUME NEW r \in Ranges, NEW i \in [Beam -> 0..255 \cup {NaN}]
  PROVE  [ranges |-> r, intensities |-> i] \in Message
  BY DEF Ranges, Message

\* The component publishes a message.
LEMMA PublishType ==
  ASSUME NEW src \in Seq(Point)
  PROVE  publishLaserScan(src) \in Message
<1> DEFINE x == publishLaserScan(src)
<1>1. x.ranges \in Ranges /\ x.intensities \in [Beam -> 0..255 \cup {NaN}]
  BY PublishedIsNearest
<1>2. x = [ranges |-> x.ranges, intensities |-> x.intensities]
  <2>0. PICK n \in Nat : n = Len(src)
    BY LenProperties
  <2> DEFINE f == CHOOSE h : Publishes(src, h, n)
  <2>1. Publishes(src, f, n)
    BY PublishExists
  <2>2. x = f[n]
    BY <2>0 DEF publishLaserScan, Publishes
  <2> HIDE DEF f, x
  <2>3. x = IF n = 0 THEN [ranges |-> Empty, intensities |-> Empty]
            ELSE Put(f[n - 1], src[n])
    BY <2>1, <2>2 DEF Publishes
  <2>4. \E r, i : x = [ranges |-> r, intensities |-> i]
    BY <2>3 DEF Put
  <2> QED BY <2>4
<1> HIDE DEF x
<1> QED BY <1>1, <1>2, MessageIs DEF x

\* The bridge makes a message of a message.
LEMMA ToRosType ==
  ASSUME NEW x \in Message
  PROVE  ToRos(x) \in Message
<1>1. x.ranges \in Ranges /\ x.intensities \in [Beam -> 0..255 \cup {NaN}]
  BY DEF Message, Ranges
<1> DEFINE r == [b \in Beam |-> IF InRange(x.ranges[b]) THEN x.ranges[b] ELSE NaN]
<1>2. r \in Ranges
  BY <1>1 DEF Ranges
<1>3. ToRos(x) = [ranges |-> r, intensities |-> x.intensities]
  BY DEF ToRos
<1> HIDE DEF r
<1> QED BY <1>1, <1>2, <1>3, MessageIs

\* The points of a sequence in another order are as many, and the same.
LEMMA ArrangementIs ==
  ASSUME NEW s \in Seq(Point), NEW t \in Arrangements(s)
  PROVE  t \in Seq(Point) /\ Len(t) = Len(s) /\ ToSet(t) = ToSet(s)
<1>1. PICK n \in Nat : n = Len(s) /\ DOMAIN s = 1..n
  BY LenProperties
<1>2. PICK order \in Orders : /\ DOMAIN order = 1..n
                             /\ t = [i \in 1..n |-> s[order[i]]]
  BY <1>1 DEF Arrangements
<1>3. /\ order \in [1..n -> 1..n]
      /\ \A k \in 1..n : \E i \in 1..n : order[i] = k
  <2>1. PICK l \in 0..Slots : order \in Bijection(1..l, 1..l)
    BY DEF Orders
  <2>2. /\ order \in [1..l -> 1..l]
        /\ \A k \in 1..l : \E i \in 1..l : order[i] = k
    BY <2>1 DEF Bijection, Surjection
  <2>3. 1..l = 1..n
    BY <1>2, <2>2
  <2> QED BY <2>2, <2>3
<1>4. \A i \in 1..n : s[i] \in Point
  BY <1>1, ElementOfSeq
<1>5. t \in [1..n -> Point]
  BY <1>2, <1>3, <1>4
<1>6. t \in Seq(Point) /\ Len(t) = n /\ DOMAIN t = 1..n
  BY <1>5, FunctionIsSeq
<1>7. ToSet(t) = ToSet(s)
  <2>1. \A i \in 1..n : t[i] = s[order[i]] /\ order[i] \in 1..n
    BY <1>2, <1>3
  <2>2. ASSUME NEW k \in 1..n PROVE \E i \in 1..n : s[k] = t[i]
    <3>1. PICK i \in 1..n : order[i] = k
      BY <1>3
    <3> QED BY <2>1, <3>1
  <2>3. ToSet(s) = {s[i] : i \in 1..n} /\ ToSet(t) = {t[i] : i \in 1..n}
    BY <1>1, <1>6 DEF ToSet
  <2>4. \A x : x \in ToSet(t) <=> x \in ToSet(s)
    BY <2>1, <2>2, <2>3
  <2> QED BY <2>4
<1> QED BY <1>1, <1>6, <1>7

\* What was seen is a scan.
LEMMA SeenScan ==
  ASSUME Types
  PROVE  /\ ScanOf(seen) \in Seq(Point)
         /\ Len(ScanOf(seen)) = Cardinality(DOMAIN seen)
         /\ Increasing(ScanOf(seen))
<1>1. PICK S \in SUBSET Slot : seen \in [S -> Measurement]
  BY DEF Types
<1> QED BY <1>1, ScanOfIs

\* The invariant holds at the beginning.
LEMMA InitIInv == Init => IInv
<1> SUFFICES ASSUME Init PROVE IInv
  OBVIOUS
<1>1. NoMessage \in Message
  <2>1. Empty \in Ranges /\ Empty \in [Beam -> 0..255 \cup {NaN}]
    BY DEF Empty, Ranges
  <2> QED BY <2>1, MessageIs DEF NoMessage
<1>2. \E S \in SUBSET Slot : seen \in [S -> Measurement]
  <2>1. type \in Type /\ seen \in UNION {[S -> Value(type)] : S \in SUBSET Slot}
    BY DEF Init
  <2>2. PICK S \in SUBSET Slot : seen \in [S -> Value(type)]
    BY <2>1
  <2>3. Value(type) \subseteq Measurement
    BY <2>1, ValueAssumption DEF Measurement
  <2> QED BY <2>2, <2>3
<1>3. <<>> \in Seq(Point)
  BY EmptySeq
<1> QED BY <1>1, <1>2, <1>3 DEF Init, IInv, Types, Made

\* Every step keeps it.
LEMMA NextIInv == IInv /\ [Next]_vars => IInv'
<1> SUFFICES ASSUME IInv, [Next]_vars PROVE IInv'
  OBVIOUS
<1>1. CASE FilterScan
  <2>1. Filter(type, ScanOf(seen)) \in Seq(Point)
    BY SeenScan, FilterKeeps DEF IInv
  <2>2. points' \in Arrangements(Filter(type, ScanOf(seen)))
    BY <1>1 DEF FilterScan
  <2>3. points' \in Seq(Point)
    BY <2>1, <2>2, ArrangementIs
  <2> QED BY <1>1, <2>2, <2>3 DEF FilterScan, IInv, Types, Made
<1>2. CASE PublishScan
  <2>1. publishLaserScan(points) \in Message
    BY PublishType DEF IInv, Types
  <2> QED BY <1>2, <2>1 DEF PublishScan, IInv, Types, Made
<1>3. CASE BridgeScan
  <2>1. ToRos(msg) \in Message
    BY ToRosType DEF IInv, Types
  <2> QED BY <1>3, <2>1 DEF BridgeScan, IInv, Types, Made
<1>4. CASE UNCHANGED vars
  BY <1>4 DEF vars, IInv, Types, Made
<1> QED BY <1>1, <1>2, <1>3, <1>4 DEF Next

\* Every stage has the points and messages that the one before has made.
THEOREM TypeCorrect == Spec => []IInv
  BY InitIInv, NextIInv, PTL DEF Spec

\* No point is lost, doubled or made up on the way through the filter and the
\* sort, in whatever order the stamps put them, but for near points that close
\* around the circle, for revolutions of any size and any values.
THEOREM FilterKeepsPointsHolds == Spec => []FilterKeepsPoints
<1>1. IInv => FilterKeepsPoints
  <2> SUFFICES ASSUME IInv, stage = "filtered", ~(NearType /\ OneGroupAround(seen))
               PROVE  /\ Len(points) = Cardinality(DOMAIN seen)
                      /\ \A p \in ToSet(ScanOf(seen)) :
                           \/ p \in ToSet(points)
                           \/ Zeroed(p) \in ToSet(points) /\ Near(p)
    BY DEF FilterKeepsPoints
  <2> DEFINE s == ScanOf(seen)
             y == Filter(type, s)
  <2>1. s \in Seq(Point) /\ Len(s) = Cardinality(DOMAIN seen) /\ Increasing(s)
    BY SeenScan DEF IInv
  <2>2. points \in Arrangements(y)
    BY DEF IInv, Made
  <2>3. ~(type \in {"LD_06", "LD_19"} /\ ClosesAround(s))
    BY DEF NearType, OneGroupAround, ClosesAround
  <2> HIDE DEF s
  <2>4. y \in Seq(Point) /\ \E m : Permutes(m, Len(s)) /\ FilteredFrom(y, s, m)
    BY <2>1, <2>3, FilterKeeps
  <2> HIDE DEF y
  <2>5. Len(points) = Len(y) /\ ToSet(points) = ToSet(y)
    BY <2>2, <2>4, ArrangementIs
  <2>6. PICK m : Permutes(m, Len(s)) /\ FilteredFrom(y, s, m)
    BY <2>4
  <2>7. Len(y) = Len(s) /\ DOMAIN y = 1..Len(s) /\ DOMAIN s = 1..Len(s)
    BY <2>1, <2>4, <2>6, LenProperties DEF FilteredFrom
  <2>8. ASSUME NEW p \in ToSet(s)
        PROVE  p \in ToSet(y) \/ (Zeroed(p) \in ToSet(y) /\ Near(p))
    <3>1. PICK k \in 1..Len(s) : p = s[k]
      BY <2>7 DEF ToSet
    <3>2. PICK j \in 1..Len(s) : m[j] = k
      BY <2>6 DEF Permutes
    <3>3. y[j] = p \/ (y[j] = Zeroed(p) /\ Near(p))
      BY <2>6, <3>1, <3>2 DEF FilteredFrom
    <3>4. y[j] \in ToSet(y)
      BY <2>7 DEF ToSet
    <3> QED BY <3>3, <3>4
  <2> QED BY <2>1, <2>5, <2>7, <2>8 DEF s
<1> QED BY <1>1, TypeCorrect, PTL

\* The result of the filter does not depend on the direction in which the
\* revolution begins, whatever its size, its values and the limits - but for near
\* points that close around the circle and those that lie on a limit.
THEOREM FilterTurnsWithTheScanHolds == Spec => []FilterTurnsWithTheScan
<1>1. IInv => FilterTurnsWithTheScan
  <2> SUFFICES ASSUME IInv,
                      NearType => ~OneGroupAround(seen) /\ ~OnTheLimit(seen),
                      NEW r \in 1..Slots - 1
               PROVE  FilteredAt(Rotated(seen, r))
                        = [s \in Slot |-> FilteredAt(seen)[(s - r) % Slots]]
    BY DEF FilterTurnsWithTheScan
  <2>1. PICK S \in SUBSET Slot : seen \in [S -> Measurement]
    BY DEF IInv, Types
  <2>2. ~Closes(seen)
    BY DEF Closes, ClosesAround, OneGroupAround
  <2> DEFINE f == FilteredAt(Rotated(seen, r))
             g == FilteredAt(seen)
  <2>3. f = [s \in Slot |-> f[s]]
    BY DEF FilteredAt
  <2>4. ASSUME NEW s \in Slot PROVE f[s] = g[(s - r) % Slots]
    <3>1. PICK u \in Slot : u = (s - r) % Slots /\ (u + r) % Slots = s
      BY TurnedSlot
    <3>2. f[(u + r) % Slots] = g[u]
      BY <2>1, <2>2, SlotTurns
    <3> QED BY <3>1, <3>2
  <2> HIDE DEF f, g
  <2>5. f = [s \in Slot |-> g[(s - r) % Slots]]
    BY <2>3, <2>4
  <2> QED BY <2>5 DEF f, g
<1> QED BY <1>1, TypeCorrect, PTL

\* No point falls outside the message, and its beam lies less than one increment
\* clockwise of where it was measured.
THEOREM BeamNearPointHolds == Spec => []BeamNearPoint
<1>1. IInv => BeamNearPoint
  <2> SUFFICES ASSUME IInv, NEW i \in DOMAIN points
               PROVE  /\ BeamOf(points[i].angle) \in Beam
                      /\ (Turn - points[i].angle) * (Bins - 1)
                           - BeamOf(points[i].angle) * Turn \in 0..Turn - 1
    BY DEF BeamNearPoint
  <2>1. points[i] \in Point
    BY LenProperties, ElementOfSeq DEF IInv, Types
  <2>2. points[i].angle \in 0..Turn - 1
    BY <2>1, PointIs
  <2> QED BY <2>2, BeamOfIsNear
<1> QED BY <1>1, TypeCorrect, PTL

\* A beam has the distance of the nearest kept point in it, whatever the order.
THEOREM BeamIsNearestHolds == Spec => []BeamIsNearest
<1>1. IInv => BeamIsNearest
  <2> SUFFICES ASSUME IInv, stage = "published", NEW b \in Beam
               PROVE  LET ranges == {Metres(points[i].distance) :
                                       i \in {j \in InBeam(b) : ~IsZeroed(points[j])}}
                      IN  msg.ranges[b] = IF ranges = {} THEN NaN ELSE Min(ranges)
    BY DEF BeamIsNearest
  <2> DEFINE I == KeptIn(points, Len(points), b)
             r == msg.ranges[b]
             R == {Metres(points[i].distance) : i \in I}
  <2>1. points \in Seq(Point) /\ DOMAIN points = 1..Len(points)
    BY LenProperties DEF IInv, Types
  <2>2. I = {j \in InBeam(b) : ~IsZeroed(points[j])}
    BY <2>1 DEF KeptIn, InBeam
  <2>3. IsNearestOf(r, points, I)
    <3>1. msg = publishLaserScan(points)
      BY DEF IInv, Made
    <3> QED BY <2>1, <3>1, PublishedIsNearest
  <2>4. \A i \in I : Metres(points[i].distance) \in Nat
    <3> SUFFICES ASSUME NEW i \in I PROVE Metres(points[i].distance) \in Nat
      OBVIOUS
    <3>1. points[i] \in Point
      BY <2>1, ElementOfSeq DEF KeptIn
    <3>2. points[i].distance \in Nat
      BY <3>1, PointIs
    <3> QED BY <3>2, MetresIs
  <2> HIDE DEF I, r
  <2>5. r = IF R = {} THEN NaN ELSE Min(R)
    <3>1. CASE I = {} /\ r = NaN
      BY <3>1
    <3>2. CASE ~(I = {} /\ r = NaN)
      <4>1. r \in R /\ \A x \in R : r <= x
        BY <2>3, <3>2 DEF IsNearestOf
      <4>2. \A x \in R : x \in Nat
        BY <2>4
      <4> HIDE DEF R
      <4>3. Min(R) \in R /\ \A x \in R : Min(R) <= x
        BY <4>1 DEF Min
      <4>4. Min(R) = r
        <5>1. r \in Nat /\ Min(R) \in Nat /\ r <= Min(R) /\ Min(R) <= r
          BY <4>1, <4>2, <4>3
        <5> QED BY <5>1
      <4> QED BY <4>1, <4>4
    <3> QED BY <3>1, <3>2
  <2> QED BY <2>2, <2>5 DEF r
<1> QED BY <1>1, TypeCorrect, PTL

\* What passed the filter and is between 20 mm and 12 m away is seen on ROS, or
\* something nearer of that kind is, and a beam without such a point is empty -
\* but for beams with an unzeroed point of less than 20 mm.
THEOREM ObstacleIsSeenHolds == Spec => []ObstacleIsSeen
<1>1. IInv => ObstacleIsSeen
  <2> SUFFICES ASSUME IInv, stage = "bridged", NEW b \in Beam,
                      ~\E j \in InBeam(b) : /\ points[j].distance < 20
                                            /\ ~IsZeroed(points[j])
               PROVE  LET shown == {Metres(points[i].distance) :
                                      i \in {j \in InBeam(b) : Shown(points[j])}}
                      IN  ros.ranges[b] = IF shown = {} THEN NaN ELSE Min(shown)
    BY DEF ObstacleIsSeen
  <2> DEFINE I == KeptIn(points, Len(points), b)
             N == {j \in InBeam(b) : Shown(points[j])}
             S == {Metres(points[i].distance) : i \in N}
             r == msg.ranges[b]
  <2>1. points \in Seq(Point) /\ DOMAIN points = 1..Len(points)
    BY LenProperties DEF IInv, Types
  <2>2. \A j \in InBeam(b) : points[j].distance \in Nat
    <3> SUFFICES ASSUME NEW j \in InBeam(b) PROVE points[j].distance \in Nat
      OBVIOUS
    <3>1. points[j] \in Point
      BY <2>1, ElementOfSeq DEF InBeam
    <3> QED BY <3>1, PointIs
  <2>3. I = {j \in InBeam(b) : ~IsZeroed(points[j])}
    BY <2>1 DEF KeptIn, InBeam
  <2>4. \A j \in InBeam(b) : Shown(points[j]) => ~IsZeroed(points[j])
    <3> SUFFICES ASSUME NEW j \in InBeam(b), Shown(points[j]), IsZeroed(points[j])
                 PROVE  FALSE
      OBVIOUS
    <3>1. points[j].distance >= 20 /\ points[j].distance = 0
      BY DEF Shown, IsZeroed
    <3> QED BY <3>1
  <2>5. \A i \in I : points[i].distance \in Nat /\ points[i].distance >= 20
    <3> SUFFICES ASSUME NEW i \in I
                 PROVE  points[i].distance \in Nat /\ points[i].distance >= 20
      OBVIOUS
    <3>1. i \in InBeam(b) /\ ~IsZeroed(points[i])
      BY <2>3
    <3>2. points[i].distance \in Nat /\ ~(points[i].distance < 20)
      BY <2>2, <3>1
    <3> QED BY <3>2
  <2>6. N = {i \in I : points[i].distance >= 20 /\ points[i].distance < 12000}
    BY <2>3, <2>4 DEF Shown
  <2>7. IsNearestOf(r, points, I)
    <3>1. msg = publishLaserScan(points)
      BY DEF IInv, Made
    <3> QED BY <2>1, <3>1, PublishedIsNearest
  <2>8. ros.ranges[b] = IF InRange(r) THEN r ELSE NaN
    <3>1. ros = ToRos(msg)
      BY DEF IInv, Made
    <3> QED BY <3>1 DEF ToRos
  <2> HIDE DEF I, N, r
  <2>9. CASE I = {} /\ r = NaN
    <3>1. S = {} /\ ~InRange(r)
      BY <2>6, <2>9 DEF InRange, NaN, Metre
    <3> QED BY <2>8, <3>1 DEF N
  <2>10. CASE ~(I = {} /\ r = NaN)
    <3>1. PICK k \in I : r = Metres(points[k].distance)
      BY <2>7, <2>10 DEF IsNearestOf
    <3>2. \A i \in I : r <= Metres(points[i].distance)
      BY <2>7, <2>10 DEF IsNearestOf
    <3>3. PICK d \in Nat : d = points[k].distance /\ d >= 20
      BY <2>5
    <3>4. r = Metres(d) /\ r \in Nat
      BY <3>1, <3>3, MetresIs
    <3>5. ASSUME NEW i \in I PROVE d <= points[i].distance
      <4>1. PICK e \in Nat : e = points[i].distance
        BY <2>5
      <4>2. Metres(d) <= Metres(e)
        BY <3>2, <3>4, <4>1
      <4> QED BY <4>1, <4>2, MetresIs
    <3>6. CASE d < 12000
      <4>1. k \in N /\ InRange(r)
        <5>1. k \in N
          BY <2>6, <3>3, <3>6
        <5>2. InRange(Metres(d))
          BY <3>3, <3>6, MetresInRange
        <5> QED BY <3>4, <5>1, <5>2
      <4>2. r \in S /\ \A x \in S : r <= x /\ x \in Nat
        <5>1. \A i \in N : /\ r <= Metres(points[i].distance)
                           /\ Metres(points[i].distance) \in Nat
          BY <2>5, <2>6, <3>2, MetresIs
        <5> QED BY <3>1, <4>1, <5>1, Zenon
      <4> HIDE DEF S
      <4>3. Min(S) \in S /\ \A x \in S : Min(S) <= x
        BY <4>2 DEF Min
      <4>4. Min(S) = r
        <5>1. Min(S) \in Nat /\ r <= Min(S) /\ Min(S) <= r
          BY <4>2, <4>3
        <5> QED BY <3>4, <5>1
      <4>5. ros.ranges[b] = Min(S) /\ S # {}
        BY <2>8, <4>1, <4>2, <4>4
      <4> QED BY <4>5 DEF S, N
    <3>7. CASE ~(d < 12000)
      <4>1. N = {}
        <5> SUFFICES ASSUME NEW i \in N PROVE FALSE
          OBVIOUS
        <5>1. i \in I /\ points[i].distance \in Nat /\ points[i].distance < 12000
          BY <2>5, <2>6
        <5> QED BY <3>5, <3>7, <5>1
      <4>2. ~InRange(r)
        <5>1. ~InRange(Metres(d))
          BY <3>7, MetresInRange
        <5> QED BY <3>4, <5>1
      <4>3. S = {} /\ ros.ranges[b] = NaN
        BY <2>8, <4>1, <4>2
      <4> QED BY <4>3 DEF N
    <3> QED BY <3>6, <3>7
  <2> QED BY <2>9, <2>10
<1> QED BY <1>1, TypeCorrect, PTL

=============================================================================
