# Verification of the LDROBOT lidar driver and its DDS server

TLA+ modules, TLC models and TLAPS proofs for the C++ code of this repository:
the driver library `ldlidar_component/ldlidar_driver`, the component
`ldlidar_component/component`, the DDS wrappers `ldlidar_component/ldlidar_fastdds`,
the process `ldlidar_dds_server` and the node `ldlidar_ros_bridge`.  Paths below
are relative to the repository.

## 1. The system

| component | state | operations | talks to |
|---|---|---|---|
| `SerialInterfaceLinux` (serialcom/serial_interface_linux.cpp) | `com_handle_` (a plain int), three atomic flags, the receive thread | Open, Close, destructor, ReadFromIO, RxThreadProc | calls `LiPkg::CommReadCallback` from its own thread |
| UDP/TCP sockets (networkcom) | one or two descriptors (plain ints), `is_cmd_created_`, `recv_thread_exit_flag_`, the client a UDP server knows, the receive thread | CreateSocket, CloseSocket, RecvFromNet, TransToNet | as above; used by `LDLidarDriver::Start` with a network mode, not by the server |
| `LiPkg` framing (lipkg.cpp, AnalysisOne) | function statics `state`, `count`, `tmp`; `pkg_` | one byte at a time | Parse |
| `LiPkg` assembly (Parse, AssemblePacket) | `frame_tmp_`, `first_frame_`, `last_pkg_timestamp_`, `speed_` | once per read of the port | Tofbf, the hand-over |
| `LiPkg` hand-over | `laser_scan_data_` under `mutex_lock2_`, `is_frame_ready_` under `mutex_lock1_` | SetLaserScanData, SetFrameReady / GetLaserScanData | receive thread to lidar thread |
| `Tofbf` (filter/tofbf.cpp) | none after construction | NearFilter, NoiseFilter | AssemblePacket |
| `LDLidarDriver` (core) | `is_start_flag_`, `last_pubdata_times_`, the objects above | Start, Stop, WaitLidarCommConnect, GetLaserScanData | component |
| `LdLidarComponent` | `_lidar`, `_threadStop`, `_lidarThread`, `_sub_count`, `_dataCallback`, the static `first_scan`, `g_stopSignalReceived` | initLidar, startLidarThread, stopLidarThread, attemptReconnect, lidarThreadFunc, publishLaserScan, registerCallback | driver; calls back into the server |
| DDS server (ldlidar_dds_server_publisher.cpp) | `g_running`, `mypub` | main: retry init, make publishers until one is matched, run, stop | component, DDS |
| DDS wrappers (ldlidar_fastdds) | participant, publisher or subscriber, topic, writer or reader; the matched count; the listener's `callback_` | init, destructors, on_publication_matched, pushlishMessageData, on_data_available, set_callback | Fast DDS |
| ROS bridge (ldlidar_ros_bridge) | `publisher_`, `subscriber_`, the watchdog timer, `last_msg_time_` | constructor, DDS callback, watchdog, destructor | DDS, ROS |
| logging (LogModule, Logger) | singleton with the log location | LogPrintInf, GetInstance | everybody |

Four threads meet in the server: main, the lidar thread, the receive thread of
the port, and the DDS threads; signal handlers interrupt any of them.  What is
hard:

* the hand-over of scans, three short critical sections against two;
* closing a descriptor under a thread that reads it, with the number in an
  unsynchronised int;
* a byte stream without framing, lost packets, and buffers that survive a
  session;
* one driver object replaced by two threads, which must be stopped whenever it
  is destroyed, since its destructor frees the parser before it closes the port;
* flags that several loops set for each other: `g_running`,
  `g_stopSignalReceived`, `_threadStop`;
* a callback object that one thread replaces while the other runs it;
* DDS entities that are made and destroyed while a listener runs, and two writers
  for one reader while a publisher is replaced;
* filters and bins that work on a circle by index and by angle.

What makes each part correct: the port - no reader after Close, no leaked
descriptor, Close returns; the framer - it does not lose its place by itself and
finds it again; the assembler - a scan is one revolution, revolutions are not
skipped, the buffer stays bounded; the hand-over - no torn, old or lost scan; the
component and server - the service starts, resumes after a fault, and stops on a
signal; the network driver - what the serial one promises, and it serves one
client; filter and bins - no point is lost or moved, the result turns with the
scan, the nearest obstacle is seen; the DDS link - nothing is leaked, scans
arrive in order, a bridge is found, silence is noticed.

`PROJECT.json` lists all components, the hazards at their lines, and which
source lines each definition stands for.

## 2. Modules

| module | models | proved in |
|---|---|---|
| `ScanRegister` | abstract: a register that holds the newest scan of a session | |
| `FrameMailbox` | the hand-over inside `LiPkg`, refines `ScanRegister` | `FrameMailboxProofs` |
| `PacketFramer` | `LiPkg::AnalysisOne` on a faulty line | `PacketFramerProofs` |
| `ScanAssembler` | `LiPkg::Parse` and `AssemblePacket` | `ScanAssemblerProofs` |
| `SerialPort` | `SerialInterfaceLinux` over a table of descriptors | `SerialPortProofs` |
| `LidarServer` | main, lidar thread, signal handlers, driver life cycle | `LidarServerProofs` |
| `NetDriver` | `LDLidarDriver` in its network modes, with the UDP and TCP socket classes | `NetDriverProofs` |
| `DdsBridge` | both DDS wrappers, the server's publisher loop, the ROS node | `DdsBridgeProofs` |
| `PointData` | a measured point; sorting and selecting | |
| `PointFilter` | the two filters of `Tofbf`, as operators | `ScanPathProofs` |
| `ScanBins` | the binning of `publishLaserScan` and the bridge's copy, as operators | `ScanPathProofs` |
| `ScanPath` | a revolution through filter, bins and bridge; composes the three above | `ScanPathProofs` |
| `MC...` | instances for TLC | |

Variables and actions keep the names of the source.  A definition whose comment
begins with "Wrong on purpose" is a plausible bug in the definition after it; no
specification uses it.  Each property a run checks is known to fail when the right
one of them is put in place (`mutants` in PROJECT.json), so none holds by
construction.

The runs check what is not settled otherwise.  A type invariant that is proved is
not repeated in a run, nor are five simple properties that are theorems:
`NeverOlder`, `OneLateCallback`, `PolledOnlyWhenStarted`, `CallbackHasBytes` and
`ServesFirstClient`.

### FrameMailbox

A scan is the number of the revolution it was cut from.  A vector copy under
`mutex_lock2_` is two steps, one for each half, so that a missing lock shows as
a scan with halves of two revolutions.  The single accesses to `is_frame_ready_`
are one step.  `Start` and `Stop` are called by the polling thread, and Stop
joins the receive thread before it returns, so they happen between two polls and
two callbacks.

*Bounds*: 6 revolutions (`FrameMailbox.cfg`).  The reader can be overtaken by two
scans in a race, and a session needs three revolutions to publish two; six allow
two sessions with a race in each.  The proofs need no bound.

*Fairness*: weak fairness of the receive thread inside a callback and of the
polling thread, which polls again after every sleep (lidarThreadFunc).  None on
revolutions, Start and Stop.

`ImplementsRegister` is the refinement: `latest` is the tail of
`laser_scan_data_`, `seen` the tail of `out`, and `fresh` says that they differ
and the stored scan is of this session.  TLC checks it with its liveness, which
says that a stored scan, or a newer one, reaches a reader that goes on polling;
`ImplementsSafeRegister` proves the safety part.

### PacketFramer

One action per case of the switch in AnalysisOne, driven by a line that delivers
a byte, loses it, replaces it or adds one.  `CalCRC8` is a constant operator: the
proofs hold for any function.

*Bounds*: bytes 0..2 of which two are the header and version bytes, packets of
five, a sum as checksum.  Two payload bytes are enough for a payload that looks
like the beginning of a packet, which is the case that matters.  `MissedCap` (2)
stops the history counter above the value the property allows.

`SyncIsKept` holds for every payload.  `OneMissed` speaks of packets without a
header byte after their first (`Plain`), in a stream of any packets: real
payloads can have one, and while they do, a framer that is out of step may take
the middle of a packet for a packet any number of times, until a checksum or a
version byte breaks the pattern.  TLC shows this at once when `Plain` is dropped
from `NextPacket`.

### ScanAssembler

A point is (revolution, direction); a packet holds one point and whether the
motor turned.  A callback takes
all packets that wait, appends them and runs the loop of AssemblePacket once:
`Stops` says at which point the loop ends, `CutFrame`, `DropFrame` and
`WaitForMore` are its three outcomes.  `data` and the buffer are kept when the
filter leaves nothing, as in the code.  The filter is abstracted to the one case
in which it drops points, near ones that close around the circle, and to
revolutions in which nothing else was measured, so that it drops all or nothing.
Where far points remain besides the erased circle the code cuts what is left like
any other revolution; then "complete" in `NoTurnSkipped` would mean complete but for
the circle.

A scan is a bag of points.  std::sort orders them by stamps which do not give the
order of measuring: the last point of a packet has the stamp of the first of the
next one (lipkg.cpp:203, 207), both rounded to what a double of that size can hold;
packets of one read are microseconds apart; the sort is unstable and gets its input
from NearFilter, which lists far points first.  So the order is left open, and the
properties speak of which points a scan has, each how often.  `ScanPath` shows that
it does not matter for the ranges.

*Bounds*: three points in a revolution, four revolutions, one lost packet, two
sessions, reads of up to four packets, a motor that stands once for up to four
packets.  A read takes up to 4096 bytes, 2.3 revolutions at 10 Hz, so a read of
more than one happens when the receive thread is delayed.  Four revolutions are
enough for a session that is stopped with one revolution waiting and a second one
that publishes what it left behind; four packets of a standing motor and a
revolution are more than the two revolutions after which the buffer is dropped.

What the run shows: the loss of less than 0.4 revolutions (one packet of three is
lost here; two would be too many) never mixes two revolutions in one scan; in a
session without losses no revolution is skipped or repeated and none lacks a point
or has one twice, whatever the read sizes; the buffer holds two revolutions at most besides those that wait
to be cut; and `first_frame_` protects a new session from what an old one left in
the buffer, except when the old one was stopped with a whole revolution waiting.
That exception is real: with large reads a new session can publish a scan that
is half old and half new, and TLC finds it when `backlog` is dropped from either
property.

A motor that stands is the other exception.  The limits are multiplied by the
speed of the packet that was read last, so while it is 0 nothing is dropped: the
buffer grows with every packet, and a cut may yield two revolutions as one.
`BufferBounded` says that what remains of it once the motor turns again are the
repeated points and nothing else, and `OneTurnPerScan` needs `speed_'`; TLC finds
the mixed scan when it is dropped.  It also needs `FewLost`: when more is lost, or
when a packet is lost and the motor also stood, the limit of two revolutions drops
a part of one, and what is left of it may be published with the next.  That guard
was found while proving the theorem and is out of this run's bounds; TLC has the
counterexample with `MaxTurn = 5` and `MaxStill = 2`.
`BufferBounded` is a statement about reads of about one revolution and few losses,
as here, not about all constants: AssemblePacket takes one revolution out for each
read, so a read of nine packets with two lost wraps (`ReadMax = 9`,
`MaxLost = 2`), or reads of four with `MaxLost = 3`, leave more until the next
reads.  A standing motor of more than a revolution
also drops a revolution in its middle, which counts as a loss (`still <= N`).
For a receive thread that reads before a revolution has gone by, and a motor that
has not stood, the limit is two revolutions exactly, whatever is lost; that is
proved (section 4).

### SerialPort

The owner opens an object once, closes and destroys it, as the component does.
The receive thread loads `com_handle_` for FD_SET, for FD_ISSET and for read, and
other threads of the process open and close files, which get the lowest free
descriptor.  The two uninitialised flags take any value.  FD_SET and FD_ISSET
of -1 are undefined: the plain macros do nothing that matters here, the
fortified ones, which the Release build of `scripts/install_lidar_dds_service.sh`
may get from the compiler's defaults, abort.

*Bounds*: two descriptors, so that the port's number can be given away while
another file is open.  `late` needs no bound because it stays at 1.

*Fairness*: weak for the receive thread, whose pselect has a timeout of 0.1 s,
and for a Close that has begun; strong for pselect finding data and for read
returning it, since a sensor that is plugged in sends all the time.

### LidarServer

Program counters of main and the lidar thread; every step between two accesses
to shared state is an action.  The driver is one of none, idle, open, stale (its
device was unplugged).  Time-outs may fire whenever what they wait for has not
happened; a poll may time out on a healthy port.

*Bounds*: three publishers: one held by main, one by the callback, one being
written to.  Everything else is finite.

*Fairness*: weak for the two threads, strong for a poll of a sending sensor
finding a scan, for a poll of a dead port timing out, and for some scan having a
speed.  No fairness for the world: liveness properties say
`<>[](device = "sending")` where they need it.

### NetDriver

The owner is the thread that calls Start, polls, calls Stop and destroys the
driver; its program counter stands between two accesses to what the receive
thread shares.  CreateSocket may fail at each of its calls, accept may block, and
a UDP client's request may fail.  The two socket classes are one model, with
`mode` where they differ: the UDP class raises its exit flag in its constructor,
the TCP server reads the second descriptor, only the UDP server keeps a client.
The receive thread loads the descriptor for FD_SET, FD_ISSET and recv, as in
SerialPort.

*Bounds*: two peers, so that a second one can be taken for the first, and two
messages in a socket.  The peers send what they like, or nothing, which covers
lost and reordered datagrams; sessions and driver objects are not bounded.

*Fairness*: weak for the receive thread (pselect waits 0.1 s) and for a Start or a
Close that has begun; strong for pselect not being interrupted every time, and
for recv not failing every time, when there is data.  None for the peers or for
accept.

What the run shows: whichever call of Start fails, nothing stays open, with one
exception (`requestFailed`): after a UDP client's request failed, Start returns
false with the socket open and its thread running.  Stop then does nothing, a new
Start clears the parser under that thread and the destructor frees it before it
joins the thread.  `NothingLeftOpen` and `ParserUndisturbed` both name it.
The client known to `ServesFirstClient` is that of the driver object, not of the
session: the acknowledgement is never taken down (line 163).  `KeepsReceiving`
also covers a TCP peer that closed: its thread runs on, without a pause, since
recv returns 0 at once, and nobody accepts again.

### DdsBridge

Each of the two wrappers is the set of DDS entities it holds; `InitOrder` and
`DestructorOrder` are the sequences of the source, and Fast DDS refuses to
delete an entity that is still used.  A destructor in progress is what is left of
its sequence (`todo`).  Up to three publishers exist: the one main
is making, the one in the callback, the one that is being destroyed.  The listener
of the reader is a thread with the steps of on_data_available and of the lambda.
The node's constructor, spin and destructor follow each other for ever, since a
bridge may be started again.  `std::function` is assigned in two steps; the
listener that finds it half assigned crashes (`Crashed`): a data race, which the
properties must survive and which only the first message of a bridge can meet.

*Bounds*: two scans, and a period of two seconds for three: the watchdog's limit
is its period, so silence can end just before or just after a look.

*Fairness*: weak for main, the listener and what has begun; strong for making each
entity, for a match within the ten seconds the server waits, and for taking a
sample.  None for the bridge: `ServerConnects` asks for one that stays.

What the run shows: however init fails, the destructors leave no entity; the ROS
publisher outlives every callback because it is declared first; silence of more
than twice the period is always reported (less can be missed); scans arrive in
order unless a publisher was replaced just after its match, when two writers are
heard for a moment (TLC finds it when `disordered` is dropped).

### PointData, PointFilter, ScanBins, ScanPath

The filters are operators on a sequence of points with the numbers of the source:
distances in millimetres, intensities in bytes.  The component turns distances into
metres in floats, which decides at the end of the bridge's range: 12000 times 0.001F
is a little more than 12.0F, so a reading of exactly 12 m is dropped, although
README.md:232 writes `[0.02, 12.0]`, while 20 mm are kept.  `Metres` is that product
in units of 2^-20 m, which is the spacing of floats between 8 and 16 m; below, where
floats are finer, it is the product rounded to the unit, and no two millimetres fall
together.  `InRange` of it is the bridge's comparison for every 16-bit distance.  Angles are integers: a
revolution of `Slots` directions two units apart.  `AngleLimit` stands for
`angle_delta_up_limit`, twice the nominal angle between two points; the angles of
a sensor vary, so two points with a direction missing between them fall on either
side of it.  The run takes one and a half steps, at which they are apart; the
theorems hold for any limit.  The averages are compared as sums.  The
bins are the ceiling the source computes, counted backwards (counterclockwise), on
exact numbers: the rounding of float angles is left out, and so is that
`ANGLE_TO_RADIAN` (ldlidar_datatype.h:29) takes 3.14159 for pi, which moves a point by
less than 0.0004 of an increment.  The component's options
are those of its constructor: no angle crop, a fixed number of bins; so the
branches of publishLaserScan for others are not modelled.  `ScanPath` takes every
revolution through filter, bins and bridge; the first of a process, which only
sets the clock of publishLaserScan, is not among them.  `Ordered` (the
numbers of a set), `Selected` (the points at some places) and `ByAngle` (std::sort)
are defined by counting what comes before, the loop of publishLaserScan by a
recursive function, so that both TLC and the prover can use them.  std::sort
leaves the order of equal keys open.  The angles of a revolution differ, so NearFilter
has none; the stamps tie, so after the filter `FilterScan` takes any arrangement of
the points in which the stamps do not decrease.

*Bounds*: five directions, of which any may be missing, four beams, groups of two
small and of five large.  `MCScanPath` explains the values: they lie on both sides
of the limits that matter, 11,999 and 12,000 mm among them.  The stamps (`Stamps`) are
those of pairs that tie, and of a clock that is set back, each with every order they
leave open.  431,938 states are examined, each revolution with all its rotations.

What the run shows: the filter keeps every point as it is or zeroed, and what it
does turns with the scan, so that neither the point at which groups are begun nor the
order in which neighbours are judged matters; the beam of a point is less than an
increment from it; the nearest kept point wins in whatever order the points come;
what ROS shows of a beam is the nearest point from 20 mm to below 12 m, and nothing
else.  Only the intensities depend on the order: a beam has that of its last point
(ldlidar_component.cpp:184).  TLC found the exceptions that
the properties name: one group around the circle is lost (`OneGroupAround`, the
subject of `many_points_kept`), near points that differ by exactly the limit of
the distances or of the angles are grouped but not joined across 0 degrees
(`OnTheLimit`), and a point below the range
that the filter did not zero, with less than 20 mm or with no distance and some light,
hides its beam (`ObstacleIsSeen`).

## 3. Runs

| run | kind | question |
|---|---|---|
| `frame_mailbox` | pass | the hand-over is a register of the newest scan |
| `packet_framer` | pass | the framer keeps its place, and finds it again after damage |
| `scan_assembler` | pass | scans are revolutions, none skipped, bounded buffer, sessions kept apart |
| `serial_port` | pass | closing under a reader: no leak, no late reader, no hang |
| `lidar_server` | pass | start, recovery and stop of the service |
| `net_driver` | pass | start, failure, stop and destruction in the network modes |
| `dds_bridge` | pass | server and bridge find each other; order, silence, no leak |
| `scan_path` | pass | what filter, bins and bridge make of a revolution |
| `signal_ends_retry` | violation | Ctrl+C during the retries of initLidar is lost |
| `shutdown_is_graceful` | violation | every orderly stop ends in std::terminate |
| `publisher_outlives_write` | violation | replacing the callback frees the publisher in use |
| `many_points_kept` | violation | a large group of points around the circle is erased |

A violation run states what a comment of the source says and finds the code
doing something else; `findings` in PROJECT.json quotes the comments.

Deadlock checking is off where the system may stop: a process that ended, a port
nobody opens again, a bound that is reached.  PacketFramer never stops and is
checked for deadlock.

How the findings of the server hang together: the constructor of the component
takes the signals away from main, so `g_running` stays true for ever.  While
initLidar fails nobody reads the component's flag, nor while the lidar thread
reconnects.  Once the lidar thread runs it
does, sets `_threadStop`, and that ends main's loops; but the same flag makes
`stopLidarThread` skip the join.  So `SignalEndsService` holds only with the
sensor present, and the way it ends is std::terminate.

## 4. Proofs

All proofs are by an inductive invariant; TLC checked each invariant first.

* `FrameMailboxProofs`: type invariant, then for each thread what its program
  counter implies about the halves of `laser_scan_data_` and `out` and about
  `floor`.  The mutual exclusion that TypeOK states (`mutex_lock2_ = "rx" <=>
  rx = "setTail"`) is what makes `NoTornScan` inductive.  `NewestScanNotLost`
  follows from the order of reset and copy.
* `PacketFramerProofs`: `SyncInv` - the collected bytes are the prefix of the
  packet delivered so far; the type invariant turns the length into the state.
  `RecoveryInv` - in a plain packet that began out of step the framer is back at HEADER
  or at least two bytes ahead, so its buffer fills before the packet ends.
  Assumptions: header and version bytes differ, packets have at least three
  bytes, `Packet` holds only well-formed packets.
* `SerialPortProofs`: which descriptor is the port at each point of the owner,
  the exit flag being up from Close on, and at most one callback after it.
* `LidarServerProofs`: who can set `_threadStop` and when, and for each thread
  in which labels the driver can be in which state; only one of the two threads
  is ever in the driver's labels.

* `NetDriverProofs`: `Threaded` says where the owner is while the receive thread
  exists, and `Lifetime` that the thread, the flag for the socket and it go together;
  from there `Sockets` (who holds a descriptor), `Client` and `Session`.  A request
  that failed (`requestFailed`) is why `Threaded` is more than a set of labels.
  Assumptions: "none" is no peer, and the socket holds at least one message.
* `DdsBridgeProofs`: the entities each object can hold at each point of its init
  and its destructor (`ServerEntities`, `BridgeEntities`: what is left of the
  sequence fits what is left to delete, which is why the order of the destructors
  matters), then `Links` (only what exists is matched) and `ListenerHasReader`,
  without which an entity in use could remain.  `Silence` - before a warning the
  age of the last message and the time to the next look are together at most two
  periods - gives `SilenceReported`; `Ordered` - what is under way is newer than
  what the listener holds, and that is newer than what was published - gives
  `ScansInOrder`, for any number of scans and any period.
* `ScanAssemblerProofs`: for any revolution, any sizes of the reads and any number
  of revolutions, losses and sessions.  Beside the types, `Behind` says that
  nothing measured is of a later revolution than what comes next; `OldFirst` that
  without a backlog the points of an earlier session are at the front of the buffer
  with no wrap among them, so that the first cut, which `first_frame_` suppresses,
  takes all of them away (`OldPointsOnlyFromBacklog`); `CleanSoFar` that in a
  session without a loss the buffer and the line continue each other, and that what
  follows a published revolution is the beginning of the next (`NoTurnSkipped`);
  `OnTrack` that each point is given its place in the sequence the sensor measures,
  that places never go back, and that they are ahead of their count by no more than
  what was lost.  For `OneTurnPerScan` the last is what matters: a stretch of the
  buffer without a wrap that reaches over two revolutions is longer than the limits
  of AssemblePacket unless 0.4 revolutions or more are missing.
  `TwoTurnsAtMost` and `BufferBoundedHolds` are about the memory: they assume
  `ReadsWithinATurn`, that no read brings points a revolution or more apart, and
  speak of the time before the motor first stands (`still = 0`); losses, sessions
  and the size of a revolution are any.  `Bounded` is the invariant: the buffer is at
  most two revolutions long, and all that the loop has not looked at came with the
  last read.  A callback that stops in that part leaves no second wrap in it
  (`OneWrap`), one that stops in the new points leaves less than a revolution, and
  one that does not stop has seen that the whole is within the limit
  (`HoldsAfterErase`).  The bound is tight: TLC reaches a buffer of `2 * N` points.
* `ScanPathProofs`: for any number of directions, values and beams.  The state of
  `ScanPath` is simple, so the work is in the operators.  The filter is followed
  with a permutation, the place in the scan from which each point was taken,
  through the sort, the groups of NearFilter, their flattening and NoiseFilter
  (`FilterKeeps`); another one, the order of the stamps, comes on top
  (`ArrangementIs`), and `FilterKeepsPoints` follows.  Where points are compared by
  place the proofs list them by angle again (`ByAngleAgain`), which is the order of
  the scan since angles are distinct (`FilterKeepsPlaces`).
  `BeamOfIsNear` is the arithmetic of the ceiling; `PublishedIsNearest` says what the
  whole loop of publishLaserScan leaves in each beam, and gives
  `BeamNearPoint`, `BeamIsNearest` and, through the bridge's copy, `ObstacleIsSeen`.
  `PutsCommute` says that two neighbours that are swapped leave the same ranges;
  `MetresIs` that distances keep their order as floats, and `MetresInRange` which of
  them the bridge shows.
  `FilterTurnsWithTheScan` needs a notion of a group that does not depend on where
  the revolution begins: on the circle of near points each is linked to the one
  before it, the first to the last, or not (`Links`), and a group is an arc between
  two points that are not (`Arc`).  NearFilter's pass from 0 to 359 degrees with the
  joining afterwards finds these arcs (`GroupAt`); a revolution that begins elsewhere
  is a circular shift of the list (`Turned`), with the same links, arcs and sums of
  intensities.  `OnTheLimit` is where a link depends on the beginning, since the loop
  compares with `>` and the joining with `<`; `OneGroupAround` is where every point
  is linked.  NoiseFilter looks at the neighbours around the circle, which a shift
  keeps (`NoiseTurns`).
  Assumptions: a revolution has a direction and its angles are two apart
  (`SlotsAssumption`), distances are naturals and intensities bytes
  (`ValueAssumption`), there are at least two beams (`BinsAssumption`).

The library's induction theorems cannot be used here, since they take an operator.
Where the proofs are by induction over data they use that a set of naturals
has a least element (`Least`, `Induction`), prove that the recursive function
exists, and apply the first to the numbers for which the claim holds.

Proving found faults of the model, which TLC then confirmed or which its order of
evaluation had hidden: `OneTurnPerScan` without `FewLost` was false outside the
run's bounds; `FilterTurnsWithTheScan` was false for an `AngleLimit` that two points
can differ by exactly, which the run's is not, so `OnTheLimit` names that case too;
the limits of NoiseFilter (`TrendLimit`) were a CASE whose guards
overlapped, which leaves open the arm that is taken, where the source has an
if-else chain.

Not proved, and checked by TLC only:

* liveness, and what needs ENABLED, which the prover does not reach: `CloseReturns`,
  `KeepsReading`, `ServiceStarts`, `PublishingResumes`, `SignalEndsService`,
  `StopReturns`, `ServerStarts`, `KeepsReceiving`, `ServerConnects`,
  `ScanForwarded`, and the fairness part of `ImplementsRegister`;
* `BufferBounded` once the motor has stood, or with reads of a revolution or more: it
  does not hold for all constants then (section 2), and the run checks it within its
  bounds.

## 5. Not modelled, and the plan

Not modelled: generated DDS type support, launch and build files, the text of log
messages (no component reads anything back from the log), the older demo
programs (they use the component in simpler ways), the debug subscriber, which
prints, and the TCP class's TransToNet, which nobody calls.  The arithmetic of time
stamps, and the stamp of a scan, which nobody reads: what the stamps do to the order
of the points is in `ScanPath`, and left open in `ScanAssembler`.  A speed between 0 and the nominal one: it scales
`N`.  The table of CalCRC8: PacketFramer holds for any checksum.

Next, in this order:

1. How long the buffer can become for reads of up to k revolutions, of which each may
   lose its wrap: AssemblePacket takes one out for each read.
2. `Driver`: `LidarServer` using the driver of `SerialPort` and `FrameMailbox`
   instead of its abstraction by one variable, as a refinement.
