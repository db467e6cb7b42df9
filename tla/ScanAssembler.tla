----------------------------- MODULE ScanAssembler -----------------------------
(***************************************************************************)
(* How ldlidar::LiPkg turns the packets of the line into scans              *)
(* (ldlidar_driver/src/dataprocess/lipkg.cpp): Parse appends the points of  *)
(* every packet to frame_tmp_, AssemblePacket cuts one revolution off its   *)
(* front when it sees the angle wrap, and drops what cannot be one.         *)
(*                                                                          *)
(* All of it runs in the callback of the receive thread, and Stop joins     *)
(* that thread, so a callback is one step.  A point is the revolution it    *)
(* belongs to and the direction it was measured in: direction 0 stands for  *)
(* the angles below 20 degrees and N - 1 for those above 340.  A packet     *)
(* holds one point and the speed at which it was measured.  The sensor turns*)
(* at a constant speed, at which N points are one revolution                *)
(* (measure_point_frequence_ / GetSpeed()), or it stands and measures in one*)
(* direction: then its speed is 0, and the limits, which are multiplied by  *)
(* it, limit nothing.                                                       *)
(***************************************************************************)
EXTENDS Integers, Sequences, FiniteSets, Bags

CONSTANTS
  N,
  ReadMax,     \* bound: the points one callback can bring
  MaxTurn,     \* bound: the revolutions the sensor makes
  MaxLost,     \* bound: the packets the framer loses
  MaxStill,    \* bound: the packets measured while the motor stands
  MaxSession   \* bound: how often the driver is started

ASSUME NAssumption == N \in Nat /\ N >= 2

ASSUME BoundAssumption ==
  /\ {ReadMax, MaxTurn, MaxLost, MaxStill, MaxSession} \subseteq Nat
  /\ MaxSession >= 1

Turn == 1 .. MaxTurn
Point == [turn : Turn, at : 0 .. N - 1]
Packet == [point : Point, turning : BOOLEAN]

VARIABLES
  next,                \* the point the sensor measures next, or <<>>
  motor,               \* "turning", "standing" or, after that, "resumed"
  round,               \* the revolutions in which the sensor stands in the
                       \*   middle of a round room (see Filter)
  line,                \* the packets that wait to be read
  frame_tmp_,
  first_frame_,
  last_pkg_timestamp_, \* is it set?
  speed_,              \* is it the speed at which the sensor turns, or 0?
  laser_scan_data_,    \* the scan that was published last, a bag of points
  session,             \* how often Start was called
  start,               \* history: the first revolution of this session
  lost,                \* history: how many packets were lost so far
  still,               \* history: how many were measured by a standing motor
  clean,               \* history: no packet was lost in this session, no
                       \*   revolution of it emptied by the filter, and the
                       \*   motor never stood
  backlog              \* history: this session found a whole revolution of an
                       \*   earlier one in frame_tmp_

parser == <<frame_tmp_, first_frame_, last_pkg_timestamp_, speed_>>
history == <<start, lost, still, clean, backlog>>
vars == <<next, motor, round, line, parser, laser_scan_data_, session, history>>

TypeOK ==
  /\ next \in Point \cup {<<>>}
  /\ motor \in {"turning", "standing", "resumed"}
  /\ round \subseteq Turn
  /\ line \in Seq(Packet) /\ Len(line) <= ReadMax
  /\ frame_tmp_ \in Seq(Point)
  /\ first_frame_ \in BOOLEAN
  /\ last_pkg_timestamp_ \in BOOLEAN
  /\ ~last_pkg_timestamp_ => first_frame_
  /\ speed_ \in BOOLEAN
  /\ IsABag(laser_scan_data_) /\ BagToSet(laser_scan_data_) \subseteq Point
  /\ session \in 1 .. MaxSession
  /\ start \in Turn
  /\ lost \in 0 .. MaxLost
  /\ still \in 0 .. MaxStill
  /\ clean \in BOOLEAN
  /\ backlog \in BOOLEAN

\* The filter leaves something of every revolution from t on.
NoneEmptied(t) == \A u \in round : u < t

Init ==
  /\ next \in {p \in Point : p.turn = 1}
  /\ motor = "turning"
  /\ round \in SUBSET Turn
  /\ line = <<>>
  /\ frame_tmp_ = <<>>
  /\ first_frame_ = TRUE
  /\ last_pkg_timestamp_ = FALSE
  /\ speed_ = FALSE
  /\ laser_scan_data_ = EmptyBag
  /\ session = 1
  /\ start = 1
  /\ lost = 0
  /\ still = 0
  /\ clean = NoneEmptied(1)
  /\ backlog = FALSE

-----------------------------------------------------------------------------
(* AssemblePacket.                                                            *)

\* The i-th point of f begins a revolution.
Wrap(f, i) == i > 1 /\ f[i].at = 0 /\ f[i - 1].at = N - 1

\* Wrong on purpose: the limit of the second test for the first one too.
TwoTurnsAreOne(count, speed) == speed /\ count > 2 * N

\* count * GetSpeed() > measure_point_frequence_ * 1.4
TooManyForATurn(count, speed) == speed /\ 5 * count > 7 * N

\* Wrong on purpose: three revolutions without a wrap may wait.
ThreeTurns(count, speed) == speed /\ count > 3 * N

\* count * GetSpeed() > measure_point_frequence_ * 2
NoTurnInSight(count, speed) == speed /\ count > 2 * N

\* Tofbf::Filter changes the distances of points but drops none, except near ones
\* that form one group around the full circle: the group is joined with itself
\* and then erased.  At speed 0 the limit of the angle between two points of a
\* group is 0, and no group is a circle.  The revolutions in round are those in
\* which nothing else was measured; where there are far points of no group too,
\* the code keeps these and cuts them like any other revolution, and they are not
\* among the revolutions here.
Filter(data, speed) ==
  IF /\ speed
     /\ \A a \in 0 .. N - 1 : \E i \in 1 .. Len(data) : data[i].at = a
     /\ \A i \in 1 .. Len(data) : data[i].turn \in round
    THEN <<>>
    ELSE data

\* What data holds at the i-th point: a wrap whose points the filter drops does
\* not clear it.
Collected(f, i) ==
  LET data[j \in 0 .. Len(f)] ==
        IF j = 0 THEN <<>>
        ELSE IF Wrap(f, j) THEN SubSeq(f, 1, j - 1) \o data[j - 1]
        ELSE data[j - 1]
  IN  data[i]

\* The scan that is made of the points in s.  std::sort puts them in the order of
\* their stamps, but the stamps of one read tie, or differ by less than a double
\* of that size can hold, and the sort is not a stable one: which point comes
\* first is left open.
Scan(s) ==
  [p \in {s[i] : i \in 1 .. Len(s)} |-> Cardinality({i \in 1 .. Len(s) : s[i] = p})]

\* At the i-th point the loop drops what came before it, or cuts it, or drops
\* the point too.
DropsTurn(f, v, i) == Wrap(f, i) /\ TooManyForATurn(i - 1, v)
CutsTurn(f, v, i) ==
  Wrap(f, i) /\ ~TooManyForATurn(i - 1, v) /\ Filter(Collected(f, i), v) # <<>>
DropsAll(f, v, i) == NoTurnInSight(i, v)

\* The loop stops at the first such point, and the next callback begins again
\* at the front of what is left.
Stops(f, v, i) == DropsTurn(f, v, i) \/ CutsTurn(f, v, i) \/ DropsAll(f, v, i)
StopsFirst(f, v, i) ==
  i \in 1 .. Len(f) /\ Stops(f, v, i) /\ \A j \in 1 .. i - 1 : ~Stops(f, v, j)

EraseFront(f, count) == frame_tmp_' = SubSeq(f, count + 1, Len(f))

\* Wrong on purpose: the erased part begins with the point that wraps.
CutOneTooMany(f, v, i) ==
  /\ StopsFirst(f, v, i) /\ CutsTurn(f, v, i)
  /\ EraseFront(f, i)
  /\ first_frame_' = FALSE
  /\ laser_scan_data_' = IF first_frame_ THEN laser_scan_data_
                         ELSE Scan(Filter(Collected(f, i), v))

\* The first revolution that is cut in a session is not published.
CutFrame(f, v, i) ==
  /\ StopsFirst(f, v, i) /\ CutsTurn(f, v, i)
  /\ EraseFront(f, i - 1)
  /\ first_frame_' = FALSE
  /\ laser_scan_data_' = IF first_frame_ THEN laser_scan_data_
                         ELSE Scan(Filter(Collected(f, i), v))

DropFrame(f, v, i) ==
  /\ StopsFirst(f, v, i) /\ ~CutsTurn(f, v, i)
  /\ EraseFront(f, IF DropsTurn(f, v, i) THEN i - 1 ELSE i)
  /\ UNCHANGED <<first_frame_, laser_scan_data_>>

WaitForMore(f, v) ==
  /\ \A i \in 1 .. Len(f) : ~Stops(f, v, i)
  /\ frame_tmp_' = f
  /\ UNCHANGED <<first_frame_, laser_scan_data_>>

AssemblePacket(f, v) ==
  WaitForMore(f, v) \/ \E i \in 1 .. Len(f) : CutFrame(f, v, i) \/ DropFrame(f, v, i)

-----------------------------------------------------------------------------
(* The sensor, the line and the callback.                                     *)

\* The point measured after p, if the bound leaves one.
After(p) ==
  IF p.at < N - 1 THEN [p EXCEPT !.at = @ + 1]
  ELSE IF p.turn < MaxTurn THEN [turn |-> p.turn + 1, at |-> 0] ELSE <<>>

Measure ==
  /\ next # <<>>
  /\ Len(line) < ReadMax
  /\ line' = Append(line, [point |-> next, turning |-> TRUE])
  /\ next' = After(next)
  /\ motor' = IF motor = "turning" THEN "turning" ELSE "resumed"
  /\ UNCHANGED <<round, parser, laser_scan_data_, session, history>>

\* The motor stands, once, and the sensor goes on measuring.
MeasureStanding ==
  /\ next # <<>>
  /\ Len(line) < ReadMax
  /\ motor # "resumed"
  /\ motor' = "standing"
  /\ still < MaxStill
  /\ still' = still + 1
  /\ clean' = FALSE
  /\ line' = Append(line, [point |-> next, turning |-> FALSE])
  /\ UNCHANGED <<next, round, parser, laser_scan_data_, session, start, lost, backlog>>

LosePacket ==
  /\ next # <<>>
  /\ lost < MaxLost
  /\ lost' = lost + 1
  /\ clean' = FALSE
  /\ next' = After(next)
  /\ UNCHANGED <<motor, round, line, parser, laser_scan_data_, session, start, still,
                 backlog>>

\* The first packet of a session only sets the clock; of the others the last
\* one's speed stays.
Parse(got) ==
  LET used == IF last_pkg_timestamp_ THEN got ELSE Tail(got)
  IN  [points |-> frame_tmp_ \o [i \in DOMAIN used |-> used[i].point],
       speed  |-> IF used = <<>> THEN speed_ ELSE used[Len(used)].turning]

\* One read takes all there is; AssemblePacket runs once, whatever it brought.
CommReadCallback ==
  LET parsed == Parse(line)
  IN  /\ line # <<>>
      /\ line' = <<>>
      /\ last_pkg_timestamp_' = TRUE
      /\ speed_' = parsed.speed
      /\ AssemblePacket(parsed.points, parsed.speed)
      /\ UNCHANGED <<next, motor, round, session, history>>

\* Wrong on purpose: a restart that would publish what it cuts first.
ClearKeepsFirstFrame ==
  last_pkg_timestamp_' = FALSE /\ UNCHANGED first_frame_

ClearDataProcessStatus == last_pkg_timestamp_' = FALSE /\ first_frame_' = TRUE

\* Stop and Start of the same driver, a revolution or more later.  Open flushes
\* the line; frame_tmp_ is kept.
Restart ==
  /\ session < MaxSession
  /\ next # <<>>
  /\ next' \in {p \in Point : p.turn > next.turn}
  /\ line' = <<>>
  /\ ClearDataProcessStatus
  /\ session' = session + 1
  /\ start' = next'.turn
  /\ clean' = NoneEmptied(next'.turn)
  /\ backlog' = \E i \in 1 .. Len(frame_tmp_) : Wrap(frame_tmp_, i)
  /\ UNCHANGED <<motor, round, frame_tmp_, speed_, laser_scan_data_, lost, still>>

Next == Measure \/ MeasureStanding \/ LosePacket \/ CommReadCallback \/ Restart

Spec == Init /\ [][Next]_vars

-----------------------------------------------------------------------------

OneTurn(points) == \A p, q \in points : p.turn = q.turn

\* Fewer than 0.4 revolutions of packets were lost, and none where the motor also
\* stood.
FewLost == lost = 0 \/ (still = 0 /\ 5 * lost < 2 * N)

\* A scan that is published holds points of one revolution: what was collected
\* over two, because the wrap was lost or because the filter left nothing of the
\* first, is never published.  The limit of 1.4 revolutions sees to that as long
\* as few packets are lost: with more, or with what a standing motor adds,
\* NoTurnInSight drops a part of a revolution, and what is left of it and the
\* next one, whose wrap is lost, pass for one.  The session must have found no
\* whole revolution of an earlier one, and the last packet read must be a turning
\* motor's, whose speed is the measure of the whole buffer (lipkg.cpp:188, :227,
\* :240, :249).
OneTurnPerScan ==
  [][laser_scan_data_' # laser_scan_data_ /\ ~backlog /\ speed_' /\ FewLost =>
       OneTurn(BagToSet(laser_scan_data_'))]_vars

\* A session publishes points of an earlier one only if that one was stopped
\* with a whole revolution in frame_tmp_: the revolution of which the end is new
\* and the beginning is what Stop left behind is the one first_frame_ drops
\* (lipkg.cpp:260, lipkg.h:96).
OldPointsOnlyFromBacklog ==
  [][laser_scan_data_' # laser_scan_data_ =>
       backlog \/ \A p \in BagToSet(laser_scan_data_') : p.turn >= start]_vars

\* In a session without losses the scans are all the revolutions, each point of
\* them once, and one after another: whatever the sizes of the reads, what
\* follows a scan in frame_tmp_ is the next revolution from its first point on
\* (lipkg.cpp:269-275).
NoTurnSkipped ==
  /\ clean /\ ~backlog
  /\ \E p \in BagToSet(laser_scan_data_) : p.turn >= start
  => \E t \in Turn :
       /\ laser_scan_data_ = SetToBag({[turn |-> t, at |-> a] : a \in 0 .. N - 1})
       /\ frame_tmp_[1] = [turn |-> t + 1, at |-> 0]

Wraps(s) == {i \in 1 .. Len(s) : Wrap(s, i)}
Repeats(s) == {i \in 2 .. Len(s) : s[i] = s[i - 1]}

\* Apart from whole revolutions that wait to be cut, frame_tmp_ holds at most two
\* revolutions of points between two callbacks: a sensor that turns cannot fill
\* the memory by losing its wraps.  A sensor that stands can, with what it
\* measures while it stands, and with nothing else (lipkg.cpp:227, :280).  That is
\* so for reads of about one revolution and few losses, as in the run: the loop
\* takes one revolution for each read, so when a read brings several that have
\* lost their wraps more than two revolutions stay until later reads.
BufferBounded ==
  speed_ => Len(frame_tmp_) - Cardinality(Repeats(frame_tmp_))
              <= (2 + Cardinality(Wraps(frame_tmp_))) * N

=============================================================================
