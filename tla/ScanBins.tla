------------------------------ MODULE ScanBins ------------------------------
(***************************************************************************)
(* From points to beams: publishLaserScan of LdLidarComponent, as its       *)
(* constructor sets it up (counterclockwise, no angle crop, a fixed number  *)
(* of bins), and what the ROS bridge makes of the message.                  *)
(***************************************************************************)
EXTENDS PointData

CONSTANT Bins  \* 455: the beams of a message

ASSUME BinsAssumption == Bins \in Nat /\ Bins > 1

Beam == 0..Bins - 1
NaN == -1
Empty == [b \in Beam |-> NaN]

\* Wrong on purpose: one too little.
BeamOfShifted(angle) ==
  Bins - 2 - ((angle * (Bins - 1) + Turn - 1) \div Turn)

\* ceil of the angle over the increment, counted from the last beam backwards, on
\* exact numbers.  ANGLE_TO_RADIAN takes 3.14159 for pi, which moves a point by less
\* than 0.0004 of an increment.
BeamOf(angle) == Bins - 1 - ((angle * (Bins - 1) + Turn - 1) \div Turn)

\* Wrong on purpose: a later point replaces an earlier one.
NearerLatest(old, new) == IF new = NaN THEN old ELSE new

Nearer(old, new) == IF old = NaN \/ (new # NaN /\ new < old) THEN new ELSE old

\* A metre.  Ranges are counted in units of 2^-20 metres.
Metre == 1048576

\* point.distance * _distScale, where 0.001 as a float is 8589935 / 2^33.  The
\* product is rounded to a float, and these are units apart between 8 and 16
\* metres, where range_max lies; nearer they are closer, farther less close, but
\* never so that two distances become one.
Metres(distance) == 1048 * distance + (4719 * distance + 4096) \div 8192

\* One round of the loop over src: the nearest point gives the range of a beam,
\* the last one its intensity.
Put(msg, p) ==
  LET b == BeamOf(p.angle)
  IN  [ranges |-> [msg.ranges EXCEPT ![b] =
                    Nearer(@, IF IsZeroed(p) THEN NaN ELSE Metres(p.distance))],
       intensities |-> [msg.intensities EXCEPT ![b] =
                         IF IsZeroed(p) THEN NaN ELSE p.intensity]]

publishLaserScan(src) ==
  LET msg[i \in 0..Len(src)] ==
        IF i = 0 THEN [ranges |-> Empty, intensities |-> Empty]
        ELSE Put(msg[i - 1], src[i])
  IN  msg[Len(src)]

\* range_min and range_max of the bridge, 0.02 and 12 metres.  20 mm become a
\* little more than the one, and 12000 mm a little more than the other.
InRange(r) == 50 * r > Metre /\ r <= 12 * Metre

\* Wrong on purpose: the loop ends one beam early.
ToRosShort(msg) ==
  [ranges |-> [b \in Beam |-> IF b < Bins - 1 /\ InRange(msg.ranges[b])
                              THEN msg.ranges[b] ELSE NaN],
   intensities |-> msg.intensities]

\* The bridge copies the beams and replaces what is out of range.  The copy of
\* the server in between (ldlidar_dds_server_publisher.cpp:77-83) is complete,
\* since both arrays have Bins elements.
ToRos(msg) ==
  [ranges |-> [b \in Beam |-> IF InRange(msg.ranges[b]) THEN msg.ranges[b]
                                                        ELSE NaN],
   intensities |-> msg.intensities]

=============================================================================
