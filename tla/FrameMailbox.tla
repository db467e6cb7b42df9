----------------------------- MODULE FrameMailbox -----------------------------
(***************************************************************************)
(* The hand-over of complete scans inside ldlidar::LiPkg                    *)
(* (ldlidar_driver/src/dataprocess/lipkg.cpp).                              *)
(*                                                                          *)
(* Two threads meet here.  The receive thread of the serial port runs       *)
(* AssemblePacket and, for each revolution it cuts, SetLaserScanData (under *)
(* mutex_lock2_) and then SetFrameReady (under mutex_lock1_).  The lidar    *)
(* thread polls GetLaserScanData, which tests the flag, resets it and       *)
(* copies the points in three critical sections.  No lock is held over two  *)
(* of them, so every interleaving of the steps below is possible.           *)
(*                                                                          *)
(* A critical section of mutex_lock1_ reads or writes one flag and is one   *)
(* step.  A critical section of mutex_lock2_ copies a vector and is two     *)
(* steps, one for each half of the vector, with the mutex held in between.  *)
(* A scan is the number of the revolution it was cut from.                  *)
(***************************************************************************)
EXTENDS Naturals

CONSTANT MaxFrame  \* bound: how many revolutions are cut

ASSUME MaxFrameAssumption == MaxFrame \in Nat

VARIABLES
  is_start_flag_,    \* LDLidarDriver: Start succeeded and Stop was not called
  is_frame_ready_,
  first_frame_,
  laser_scan_data_,  \* [head, tail]: the scan each half of the vector is from
  mutex_lock2_,      \* the thread that holds it, or "free"
  rx,                \* where the receive thread is
  rd,                \* where the thread that calls GetLaserScanData is
  out,               \* the caller's Points2D, as laser_scan_data_
  cut,               \* the number of revolutions cut so far
  floor,             \* history: cut when the session was started
  repeats            \* history: how often the scan in out was copied again

rxVars == <<first_frame_, rx, cut>>
rdVars == <<rd, out, repeats>>
vars == <<is_start_flag_, is_frame_ready_, first_frame_, laser_scan_data_,
          mutex_lock2_, rx, rd, out, cut, floor, repeats>>

Scan == 0 .. MaxFrame
Halves == [head : Scan, tail : Scan]

TypeOK ==
  /\ is_start_flag_ \in BOOLEAN
  /\ is_frame_ready_ \in BOOLEAN
  /\ first_frame_ \in BOOLEAN
  /\ laser_scan_data_ \in Halves
  /\ rx \in {"assemble", "set", "setTail", "ready"}
  /\ rd \in {"poll", "reset", "copy", "copyTail"}
  /\ mutex_lock2_ \in {"free", "rx", "rd"}
  /\ mutex_lock2_ = "rx" <=> rx = "setTail"
  /\ mutex_lock2_ = "rd" <=> rd = "copyTail"
  /\ out \in Halves
  /\ cut \in Scan
  /\ floor \in Scan
  /\ repeats \in Nat

Init ==
  /\ is_start_flag_ = FALSE
  /\ is_frame_ready_ = FALSE
  /\ first_frame_ = TRUE
  /\ laser_scan_data_ = [head |-> 0, tail |-> 0]
  /\ mutex_lock2_ = "free"
  /\ rx = "assemble"
  /\ rd = "poll"
  /\ out = [head |-> 0, tail |-> 0]
  /\ cut = 0
  /\ floor = 0
  /\ repeats = 0

-----------------------------------------------------------------------------
(* The driver's Start and Stop, as far as they touch the hand-over.  They are *)
(* called by the thread that polls, and Stop joins the receive thread, so     *)
(* both happen between two callbacks and between two polls.                   *)

\* Wrong on purpose: a restart that keeps the ready flag.
ClearKeepsReadyFlag ==
  /\ first_frame_' = TRUE
  /\ UNCHANGED is_frame_ready_

\* Wrong on purpose: a restart that would publish the first revolution.
ClearKeepsFirstFrame ==
  /\ is_frame_ready_' = FALSE
  /\ UNCHANGED first_frame_

ClearDataProcessStatus ==
  /\ is_frame_ready_' = FALSE
  /\ first_frame_' = TRUE

Start ==
  /\ ~is_start_flag_
  /\ rd = "poll"
  /\ ClearDataProcessStatus
  /\ is_start_flag_' = TRUE
  /\ floor' = cut
  /\ UNCHANGED <<laser_scan_data_, mutex_lock2_, rx, cut>>
  /\ UNCHANGED rdVars

Stop ==
  /\ is_start_flag_
  /\ rd = "poll"
  /\ rx = "assemble"
  /\ is_start_flag_' = FALSE
  /\ UNCHANGED <<is_frame_ready_, laser_scan_data_, mutex_lock2_, floor>>
  /\ UNCHANGED rxVars
  /\ UNCHANGED rdVars

-----------------------------------------------------------------------------
(* The receive thread.                                                        *)

\* A revolution is cut.  The first one of a session only clears first_frame_:
\* it began wherever the sensor happened to point.
AssemblePacket ==
  /\ is_start_flag_
  /\ rx = "assemble"
  /\ cut < MaxFrame
  /\ cut' = cut + 1
  /\ first_frame_' = FALSE
  /\ rx' = IF first_frame_ THEN "assemble" ELSE "set"
  /\ UNCHANGED <<is_start_flag_, is_frame_ready_, laser_scan_data_,
                 mutex_lock2_, floor>>
  /\ UNCHANGED rdVars

SetLaserScanData ==
  \/ /\ rx = "set"
     /\ mutex_lock2_ = "free"
     /\ mutex_lock2_' = "rx"
     /\ laser_scan_data_' = [laser_scan_data_ EXCEPT !.head = cut]
     /\ rx' = "setTail"
     /\ UNCHANGED <<is_start_flag_, is_frame_ready_, first_frame_, cut, floor>>
     /\ UNCHANGED rdVars
  \/ /\ rx = "setTail"
     /\ mutex_lock2_' = "free"
     /\ laser_scan_data_' = [laser_scan_data_ EXCEPT !.tail = cut]
     /\ rx' = "ready"
     /\ UNCHANGED <<is_start_flag_, is_frame_ready_, first_frame_, cut, floor>>
     /\ UNCHANGED rdVars

SetFrameReady ==
  /\ rx = "ready"
  /\ is_frame_ready_' = TRUE
  /\ rx' = "assemble"
  /\ UNCHANGED <<is_start_flag_, first_frame_, laser_scan_data_, mutex_lock2_,
                 cut, floor>>
  /\ UNCHANGED rdVars

-----------------------------------------------------------------------------
(* GetLaserScanData(out) of the thread that polls.  A poll that finds the flag *)
(* down returns false and changes nothing.                                     *)

IsFrameReady ==
  /\ is_start_flag_
  /\ rd = "poll"
  /\ is_frame_ready_
  /\ rd' = "reset"
  /\ UNCHANGED <<is_start_flag_, is_frame_ready_, laser_scan_data_,
                 mutex_lock2_, out, floor, repeats>>
  /\ UNCHANGED rxVars

\* Wrong on purpose: the flag is never taken down.
ResetFrameReadyForgotten ==
  /\ rd = "reset"
  /\ rd' = "copy"
  /\ UNCHANGED <<is_start_flag_, is_frame_ready_, laser_scan_data_,
                 mutex_lock2_, out, floor, repeats>>
  /\ UNCHANGED rxVars

ResetFrameReady ==
  /\ rd = "reset"
  /\ is_frame_ready_' = FALSE
  /\ rd' = "copy"
  /\ UNCHANGED <<is_start_flag_, laser_scan_data_, mutex_lock2_, out, floor,
                 repeats>>
  /\ UNCHANGED rxVars

\* Wrong on purpose: the copy takes no lock.
CopyWithoutLock ==
  \/ /\ rd = "copy"
     /\ out' = [out EXCEPT !.head = laser_scan_data_.head]
     /\ rd' = "copyTail"
     /\ UNCHANGED <<is_start_flag_, is_frame_ready_, laser_scan_data_,
                    mutex_lock2_, floor, repeats>>
     /\ UNCHANGED rxVars
  \/ /\ rd = "copyTail"
     /\ out' = [out EXCEPT !.tail = laser_scan_data_.tail]
     /\ repeats' = IF laser_scan_data_.tail = out.tail THEN repeats + 1 ELSE 0
     /\ rd' = "poll"
     /\ UNCHANGED <<is_start_flag_, is_frame_ready_, laser_scan_data_,
                    mutex_lock2_, floor>>
     /\ UNCHANGED rxVars

\* Wrong on purpose: the flag comes down once more after the copy.
CopyThenReset ==
  \/ /\ rd = "copy"
     /\ mutex_lock2_ = "free"
     /\ mutex_lock2_' = "rd"
     /\ out' = [out EXCEPT !.head = laser_scan_data_.head]
     /\ rd' = "copyTail"
     /\ UNCHANGED <<is_start_flag_, is_frame_ready_, laser_scan_data_, floor,
                    repeats>>
     /\ UNCHANGED rxVars
  \/ /\ rd = "copyTail"
     /\ mutex_lock2_' = "free"
     /\ out' = [out EXCEPT !.tail = laser_scan_data_.tail]
     /\ rd' = "resetAgain"
     /\ UNCHANGED <<is_start_flag_, is_frame_ready_, laser_scan_data_, floor,
                    repeats>>
     /\ UNCHANGED rxVars
  \/ /\ rd = "resetAgain"
     /\ is_frame_ready_' = FALSE
     /\ rd' = "poll"
     /\ UNCHANGED <<is_start_flag_, laser_scan_data_, mutex_lock2_, out, floor,
                    repeats>>
     /\ UNCHANGED rxVars

CopyLaserScanData ==
  \/ /\ rd = "copy"
     /\ mutex_lock2_ = "free"
     /\ mutex_lock2_' = "rd"
     /\ out' = [out EXCEPT !.head = laser_scan_data_.head]
     /\ rd' = "copyTail"
     /\ UNCHANGED <<is_start_flag_, is_frame_ready_, laser_scan_data_, floor,
                    repeats>>
     /\ UNCHANGED rxVars
  \/ /\ rd = "copyTail"
     /\ mutex_lock2_' = "free"
     /\ out' = [out EXCEPT !.tail = laser_scan_data_.tail]
     /\ repeats' = IF laser_scan_data_.tail = out.tail THEN repeats + 1 ELSE 0
     /\ rd' = "poll"
     /\ UNCHANGED <<is_start_flag_, is_frame_ready_, laser_scan_data_, floor>>
     /\ UNCHANGED rxVars

-----------------------------------------------------------------------------

RxNext == AssemblePacket \/ SetLaserScanData \/ SetFrameReady

RdNext == IsFrameReady \/ ResetFrameReady \/ CopyLaserScanData

Next == Start \/ Stop \/ RxNext \/ RdNext

SafeSpec == Init /\ [][Next]_vars

\* The receive thread finishes the callback it is in, and the lidar thread
\* polls again after each sleep (lidarThreadFunc).  Nothing makes a revolution
\* come, nor a session start or stop.
Fairness ==
  /\ WF_vars(SetLaserScanData)
  /\ WF_vars(SetFrameReady)
  /\ WF_vars(RdNext)

Spec == SafeSpec /\ Fairness

-----------------------------------------------------------------------------

\* The step in which GetLaserScanData(out) returns true.
Delivers == rd = "copyTail" /\ rd' = "poll"

\* A scan that GetLaserScanData has returned is from one revolution: the copy
\* never mixes two scans although the receive thread replaces laser_scan_data_
\* whenever a revolution is cut (lipkg.cpp:344, lipkg.cpp:356).
NoTornScan == rd = "poll" => out.head = out.tail

\* Scans are returned in the order they were cut: a poll never goes back to an
\* older scan than an earlier poll got.
NeverOlder == [][Delivers => out'.tail >= out.tail]_vars

\* No poll returns a scan of a session that was stopped, nor the first
\* revolution of its own session, which started at an arbitrary angle
\* (ClearDataProcessStatus, lipkg.h:88; first_frame_, lipkg.cpp:257).
OnlyWholeScansOfThisSession == [][Delivers => out'.tail > floor + 1]_vars

\* When both threads are between two calls and the session runs, the newest
\* scan was either returned or is still announced by is_frame_ready_.  The flag
\* must go down before the copy, not after it (lipkg.cpp:341).
NewestScanNotLost ==
  rx = "assemble" /\ rd = "poll" /\ is_start_flag_ =>
    is_frame_ready_ \/ out.tail = laser_scan_data_.tail
                    \/ laser_scan_data_.tail <= floor

\* The flag goes up after the data is stored, so a scan may be returned more
\* than once: by a poll that overtook SetFrameReady and again for the flag it
\* raises.  Two such races can fall on one scan, never three.
AtMostThreeTimes == repeats <= 2

-----------------------------------------------------------------------------
(* The hand-over implements ScanRegister.  A scan is in the register once its *)
(* last half is stored, and read once its last half is copied.                *)

Fresh == laser_scan_data_.tail > floor /\ out.tail < laser_scan_data_.tail

Register == INSTANCE ScanRegister WITH
  open <- is_start_flag_,
  latest <- laser_scan_data_.tail,
  seen <- out.tail,
  fresh <- Fresh

\* Polling GetLaserScanData behaves as reading a register that holds the newest
\* scan of the session.
ImplementsRegister == Register!Spec

=============================================================================
