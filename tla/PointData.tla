------------------------------ MODULE PointData ------------------------------
(***************************************************************************)
(* ldlidar::PointData (ldlidar_driver/include/core/ldlidar_datatype.h): one *)
(* measured point, without its stamp.  Distances are millimetres.           *)
(***************************************************************************)
EXTENDS Integers, Sequences, FiniteSets, SequencesExt, FiniteSetsExt

CONSTANT Turn  \* 360 degrees, in units of angle

ASSUME TurnAssumption == Turn \in Nat \ {0}

Point == [angle : 0..Turn - 1, distance : Nat, intensity : 0..255]

\* The numbers of a set, in order.
Ordered(S) ==
  [k \in 1..Cardinality(S) |-> CHOOSE i \in S : Cardinality({j \in S : j <= i}) = k]

\* The points of s at some of its indices.
Selected(s, I) == [k \in 1..Cardinality(I) |-> s[Ordered(I)[k]]]

\* std::sort by angle: s[i] comes to the place that is the number of points up to
\* it.
SmallerAngle(p, q) == p.angle < q.angle
UptoAngle(s, i) ==
  {j \in 1..Len(s) : \/ SmallerAngle(s[j], s[i])
                     \/ s[j].angle = s[i].angle /\ j <= i}
ByAngle(s) ==
  [k \in 1..Len(s) |->
    s[CHOOSE i \in 1..Len(s) : Cardinality(UptoAngle(s, i)) = k]]

\* How a filter marks a point, and how the component recognises it.
Zeroed(p) == [p EXCEPT !.distance = 0, !.intensity = 0]
IsZeroed(p) == p.distance = 0 /\ p.intensity = 0

=============================================================================
