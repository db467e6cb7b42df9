----------------------------- MODULE PointFilter -----------------------------
(***************************************************************************)
(* The point filters of ldlidar::Tofbf (ldlidar_driver/src/filter/tofbf.cpp)*)
(* as operators on a scan, a sequence of points in the order in which they  *)
(* were measured.                                                           *)
(***************************************************************************)
EXTENDS PointData

CONSTANTS
  AngleLimit,  \* angle_delta_up_limit, twice the angle between two points
  Many,        \* 15: a larger group is not filtered
  Few          \* 3: a smaller group has to be bright

ASSUME AngleLimitAssumption == AngleLimit \in Nat
ASSUME GroupAssumption == Few \in Nat /\ Many \in Nat /\ Few <= Many + 1

intensity_low_ == 15
intensity_single_ == 220

Apart(a, b) == IF a < b THEN b - a ELSE a - b

-----------------------------------------------------------------------------
(* NearFilter, for the types LD_06 and LD_19.                                 *)

Near(p) == p.distance < 5000
NearOnes(tmp) == {i \in 1..Len(tmp) : Near(tmp[i])}

\* The points closer than 5 m by angle.
Pending(tmp) == ByAngle(Selected(tmp, NearOnes(tmp)))

\* A group ends before n if n is too far from the point before it.
Breaks(last, n) ==
  \/ Apart(n.angle, last.angle) > AngleLimit
  \/ 100 * Apart(n.distance, last.distance) > 3 * last.distance

\* The index of the first point of each group.
Starts(s) == Ordered({i \in 1..Len(s) : i = 1 \/ Breaks(s[i - 1], s[i])})

\* Wrong on purpose: the last group is never pushed.
GroupsWithoutLast(s) ==
  [k \in 1..Len(Starts(s)) - 1 |->
    SubSeq(s, Starts(s)[k], Starts(s)[k + 1] - 1)]

Groups(s) ==
  LET starts == Append(Starts(s), Len(s) + 1)
  IN  [k \in 1..Len(starts) - 1 |-> SubSeq(s, starts[k], starts[k + 1] - 1)]

\* "Connection 0 degree and 359 degree"
Connected(s) ==
  /\ Apart(Head(s).angle + Turn, Last(s).angle) < AngleLimit
  /\ 100 * Apart(Head(s).distance, Last(s).distance) < 3 * Last(s).distance

\* Wrong on purpose: the two ends are never connected.
JoinNever(groups, s) == IF s = <<>> THEN <<>> ELSE groups

\* The last group goes in front of the first and is erased.  One group that is
\* both is put in front of itself and erased.
Join(groups, s) ==
  IF Connected(s) THEN Front([groups EXCEPT ![1] = Last(groups) \o @])
                  ELSE groups

Intensities(g) == SumFunction([i \in DOMAIN g |-> g[i].intensity])

\* Many points, or few that are bright, or a brightness above the limit.
GroupKept(g) ==
  LET sum == Intensities(g)
  IN  \/ Len(g) > Many
      \/ /\ Len(g) < Few => sum \div Len(g) >= intensity_single_
         /\ sum > intensity_low_ * Len(g)

Judged(g) == IF GroupKept(g) THEN g ELSE [i \in DOMAIN g |-> Zeroed(g[i])]

NearFilter(tmp) ==
  LET pending == Pending(tmp)
      groups  == IF pending = <<>> THEN <<>> ELSE Join(Groups(pending), pending)
  IN  Selected(tmp, (1..Len(tmp)) \ NearOnes(tmp))
        \o FlattenSeq([k \in DOMAIN groups |-> Judged(groups[k])])

-----------------------------------------------------------------------------
(* NoiseFilter, for the types STL_06P, STL_26 and STL_27L.                    *)

\* n is closer than both its neighbours, or farther away, by more than d.
OppositeTrend(n, last, next, d) ==
  \/ n.distance + d < last.distance /\ n.distance + d < next.distance
  \/ n.distance > last.distance + d /\ n.distance > next.distance + d

Lonely(n, last, next) ==
  /\ Apart(n.distance, last.distance) > 30
  /\ Apart(n.distance, next.distance) > 30

\* The intensity a point must have to stand out by more than d.
TrendLimit(n, last, next) ==
  IF n.distance >= 500                       THEN 0
  ELSE IF OppositeTrend(n, last, next, 10)   THEN 60
  ELSE IF OppositeTrend(n, last, next, 7)    THEN 45
  ELSE IF OppositeTrend(n, last, next, 5)    THEN 30
  ELSE                                            0

IsNoise(n, last, next) ==
  \/ n.intensity < TrendLimit(n, last, next)
  \/ n.distance < 5000 /\ n.intensity < IF n.distance < 200 THEN 25 ELSE 10
  \/ /\ n.distance < 5000 /\ Lonely(n, last, next)
     /\ n.intensity < IF n.distance < 2000 THEN 30 ELSE 20

\* The neighbours are those of the scan as it came in, around the circle.
NoiseFilter(tmp) ==
  LET last(i) == tmp[IF i = 1 THEN Len(tmp) ELSE i - 1]
      next(i) == tmp[IF i = Len(tmp) THEN 1 ELSE i + 1]
  IN  [i \in 1..Len(tmp) |->
        IF IsNoise(tmp[i], last(i), next(i)) THEN Zeroed(tmp[i]) ELSE tmp[i]]

-----------------------------------------------------------------------------

\* The filter of a type of sensor, Tofbf's constructor and Filter.  What it
\* returns is in no order: NearFilter puts the far points first.
Filter(type, tmp) ==
  CASE type \in {"LD_06", "LD_19"} -> NearFilter(tmp)
    [] type \in {"STL_06P", "STL_26", "STL_27L"} -> NoiseFilter(tmp)
    [] OTHER -> tmp

=============================================================================
