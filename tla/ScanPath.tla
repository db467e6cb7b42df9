------------------------------ MODULE ScanPath ------------------------------
(***************************************************************************)
(* One revolution on its way from the assembler to ROS: the filter of the   *)
(* driver, the component's binning, the bridge.  Each stage gets what the   *)
(* one before has made; the revolution is chosen at the beginning.          *)
(*                                                                          *)
(* A revolution has Slots directions, two units of angle apart, of which    *)
(* some may be missing because their packet was lost.                       *)
(***************************************************************************)
EXTENDS PointFilter, ScanBins

CONSTANTS
  Slots,    \* directions in a revolution
  Type,     \* the types of sensor
  Value(_), \* what a sensor of a type may measure: distance and intensity
  Stamps    \* the stamps a revolution may have, by slot

ASSUME SlotsAssumption == Slots \in Nat \ {0} /\ Turn = 2 * Slots
ASSUME ValueAssumption ==
  \A t \in Type : Value(t) \subseteq [distance : Nat, intensity : 0..255]

Slot == 0..Slots - 1

ASSUME StampsAssumption == Stamps \subseteq [Slot -> Nat]

VARIABLES
  type,     \* the type of the sensor
  seen,     \* the revolution: what was measured, by slot
  stage,    \* how far it has come
  points,   \* what the filter returned, sorted
  msg,      \* the message of the component
  ros       \* the message on ROS

vars == <<type, seen, stage, points, msg, ros>>

\* The points of a revolution in their order.
ScanOf(rev) ==
  LET slots == Ordered(DOMAIN rev)
  IN  [i \in DOMAIN slots |->
        [angle     |-> 2 * slots[i],
         distance  |-> rev[slots[i]].distance,
         intensity |-> rev[slots[i]].intensity]]

Message == [ranges : [Beam -> Nat \cup {NaN}],
            intensities : [Beam -> 0..255 \cup {NaN}]]
NoMessage == [ranges |-> Empty, intensities |-> Empty]

Init ==
  /\ type \in Type
  /\ seen \in UNION {[S -> Value(type)] : S \in SUBSET Slot}
  /\ stage = "assembled"
  /\ points = <<>>
  /\ msg = NoMessage
  /\ ros = NoMessage

\* The stamps do not decrease.
InStampOrder(s, stamp) ==
  \A i \in 1..Len(s) - 1 : stamp[s[i].angle \div 2] <= stamp[s[i + 1].angle \div 2]

\* The orders of up to Slots things.
Orders == UNION {Bijection(1..n, 1..n) : n \in 0..Slots}

Arrangements(s) ==
  {[i \in DOMAIN s |-> s[order[i]]] :
     order \in {o \in Orders : DOMAIN o = DOMAIN s}}

\* AssemblePacket applies the filter to a revolution it has cut out and sorts the
\* points by their stamps.  Stamps tie and the sort is not a stable one, and they
\* need not grow with the angle, since the clock may be set back.
FilterScan ==
  /\ stage = "assembled"
  /\ stage' = "filtered"
  /\ points' \in Arrangements(Filter(type, ScanOf(seen)))
  /\ \E stamp \in Stamps : InStampOrder(points', stamp)
  /\ UNCHANGED <<type, seen, msg, ros>>

\* A revolution of which nothing is left is not published.
PublishScan ==
  /\ stage = "filtered"
  /\ points # <<>>
  /\ stage' = "published"
  /\ msg' = publishLaserScan(points)
  /\ UNCHANGED <<type, seen, points, ros>>

BridgeScan ==
  /\ stage = "published"
  /\ stage' = "bridged"
  /\ ros' = ToRos(msg)
  /\ UNCHANGED <<type, seen, points, msg>>

Next == FilterScan \/ PublishScan \/ BridgeScan

Spec == Init /\ [][Next]_vars

-----------------------------------------------------------------------------
(* The filter.                                                                *)

\* All near points are one group that closes around the circle.
OneGroupAround(rev) ==
  LET near == Pending(ScanOf(rev))
  IN  near # <<>> /\ Len(Groups(near)) = 1 /\ Connected(near)

NearType == type \in {"LD_06", "LD_19"}

\* What the filter makes of each slot of a revolution.
FilteredAt(rev) ==
  LET out == ToSet(Filter(type, ScanOf(rev)))
  IN  [s \in Slot |-> {[distance |-> p.distance, intensity |-> p.intensity] :
                        p \in {q \in out : q.angle = 2 * s}}]

\* No point is lost, doubled or made up: each is there, as it was or zeroed, and
\* far points are as they were - unless near points close around the circle
\* (tofbf.cpp:129-136), which are all lost.
FilterKeepsPoints ==
  stage = "filtered" /\ ~(NearType /\ OneGroupAround(seen)) =>
    /\ Len(points) = Cardinality(DOMAIN seen)
    /\ \A p \in ToSet(ScanOf(seen)) :
         p \in ToSet(points) \/ (Zeroed(p) \in ToSet(points) /\ Near(p))

\* Two near points differ by exactly a limit, of the distance as two without a
\* distance do, or of the angle: they may be one group (tofbf.cpp:112), but not
\* across 0 degrees (line 131).
OnTheLimit(rev) ==
  \E s, t \in {u \in DOMAIN rev : Near(rev[u])} :
    /\ s # t
    /\ \/ 100 * Apart(rev[s].distance, rev[t].distance) = 3 * rev[s].distance
       \/ 2 * ((t - s) % Slots) = AngleLimit

Rotated(rev, r) ==
  [s \in {(t + r) % Slots : t \in DOMAIN rev} |-> rev[(s - r) % Slots]]

\* The result does not depend on the direction in which the revolution begins,
\* although groups are collected from 0 to 359 degrees and joined afterwards,
\* and neighbours are found by index - with the exception above, and one more.
FilterTurnsWithTheScan ==
  stage = "filtered" /\ (NearType => ~OneGroupAround(seen) /\ ~OnTheLimit(seen))
  =>
    LET out == FilteredAt(seen)
    IN  \A r \in 1..Slots - 1 :
          FilteredAt(Rotated(seen, r)) = [s \in Slot |-> out[(s - r) % Slots]]

-----------------------------------------------------------------------------
(* The beams.                                                                 *)

InBeam(b) == {i \in DOMAIN points : BeamOf(points[i].angle) = b}

\* No point falls outside the message, and it is read where it was measured: its
\* beam lies less than one increment clockwise of it.  The direction of beam b is
\* b / (Bins - 1) of a turn, that of a point its angle counted the other way
\* (ldlidar_component.cpp:150-166).
BeamNearPoint ==
  \A i \in DOMAIN points :
    LET b == BeamOf(points[i].angle)
    IN  /\ b \in Beam
        /\ (Turn - points[i].angle) * (Bins - 1) - b * Turn \in 0..Turn - 1

\* A beam has the distance of the nearest point in it, whatever the order of the
\* points, and no distance if it has no point that was kept
\* (ldlidar_component.cpp:170-184).
BeamIsNearest ==
  stage = "published" =>
    \A b \in Beam :
      LET ranges == {Metres(points[i].distance) :
                       i \in {j \in InBeam(b) : ~IsZeroed(points[j])}}
      IN  msg.ranges[b] = IF ranges = {} THEN NaN ELSE Min(ranges)

\* At least 20 mm and less than 12 m, where the bridge's range ends: a distance of
\* 12000 mm is more than that once it is a float (ldlidar_component.cpp:139).
Shown(p) == p.distance >= 20 /\ p.distance < 12000

\* A point within the bridge's range that passed the filter is seen on ROS, or a
\* nearer one is, and nothing else is seen - but a point below the range that was
\* not zeroed, with less than 20 mm or with no distance and some light, hides
\* what else is in its beam (ldlidar_component.cpp:143, :179,
\* ldlidar_ros_bridge.cpp:52).
ObstacleIsSeen ==
  stage = "bridged" =>
    \A b \in Beam :
      \/ \E j \in InBeam(b) : points[j].distance < 20 /\ ~IsZeroed(points[j])
      \/ LET shown == {Metres(points[i].distance) :
                          i \in {j \in InBeam(b) : Shown(points[j])}}
         IN  ros.ranges[b] = IF shown = {} THEN NaN ELSE Min(shown)

-----------------------------------------------------------------------------
(* What a comment says of the filter, and what it does not do.                *)

\* "No filtering if there are many points" (tofbf.cpp:140): the points of a
\* group of more than Many are all kept.
ManyPointsKept ==
  stage = "filtered" /\ NearType =>
    \A g \in ToSet(Groups(Pending(ScanOf(seen)))) :
      Len(g) > Many => ToSet(g) \subseteq ToSet(points)

=============================================================================
