-------------------------- MODULE FrameMailboxProofs --------------------------
(***************************************************************************)
(* The safety of FrameMailbox for any number of revolutions: an inductive   *)
(* invariant, the properties that follow from it, and the safety part of    *)
(* the refinement of ScanRegister.                                          *)
(***************************************************************************)
EXTENDS FrameMailbox, TLAPS

\* What the receive thread has stored, by where it is.  mutex_lock2_ keeps the
\* two halves of laser_scan_data_ equal for everyone else.
StoredScan ==
  /\ laser_scan_data_.tail <= cut
  /\ rx \in {"set", "setTail"} => laser_scan_data_.tail < cut
  /\ rx = "setTail" => laser_scan_data_.head = cut
  /\ rx # "setTail" => laser_scan_data_.head = laser_scan_data_.tail
  /\ rx = "ready" => laser_scan_data_.tail = cut

\* What the caller of GetLaserScanData holds.
CopiedScan ==
  /\ out.tail <= laser_scan_data_.tail
  /\ rd # "copyTail" => out.head = out.tail
  /\ rd = "copyTail" => out.head = laser_scan_data_.tail

\* A session stores nothing before its second revolution, and only a stored
\* scan is announced.
Session ==
  /\ floor <= cut
  /\ ~is_start_flag_ => rx = "assemble" /\ rd = "poll"
  /\ is_start_flag_ /\ first_frame_ => cut = floor /\ rx = "assemble"
  /\ is_start_flag_ /\ ~first_frame_ => cut > floor
  /\ rx # "assemble" => cut > floor + 1
  /\ is_start_flag_ /\ (is_frame_ready_ \/ rd # "poll") =>
       laser_scan_data_.tail > floor + 1
  /\ rd = "reset" => is_frame_ready_

\* A scan that was not returned is on its way: announced, about to be
\* announced, or about to be copied.
OnItsWay ==
  is_start_flag_ /\ laser_scan_data_.tail > floor =>
    \/ out.tail = laser_scan_data_.tail
    \/ is_frame_ready_
    \/ rx = "ready"
    \/ rd # "poll"

\* How often the stored scan can still be returned without a new announcement:
\* the announcement to come, the one that is up, and the poll in progress.
One(b) == IF b THEN 1 ELSE 0
Chances == One(rx = "ready") + One(is_frame_ready_)
             + One(rd \in {"copy", "copyTail"})

Budget ==
  /\ repeats <= 2
  /\ out.tail = laser_scan_data_.tail => repeats + Chances <= 2

IInv == TypeOK /\ StoredScan /\ CopiedScan /\ Session /\ OnItsWay /\ Budget

-----------------------------------------------------------------------------

LEMMA InitIInv == Init => IInv
<1> SUFFICES ASSUME Init PROVE IInv
  OBVIOUS
<1> USE MaxFrameAssumption DEF Init
<1>1. TypeOK
  <2>1. 0 \in Scan /\ 0 \in Nat
    BY DEF Scan
  <2>2. [head |-> 0, tail |-> 0] \in Halves
    BY <2>1 DEF Halves
  <2> QED
    BY <2>1, <2>2, Zenon DEF TypeOK
<1>2. StoredScan /\ CopiedScan /\ Session /\ OnItsWay
  BY DEF StoredScan, CopiedScan, Session, OnItsWay
<1>3. Budget
  BY DEF Budget, Chances, One
<1> QED
  BY <1>1, <1>2, <1>3 DEF IInv

LEMMA NextIInv == IInv /\ [Next]_vars => IInv'
<1> SUFFICES ASSUME IInv, [Next]_vars
             PROVE  IInv'
  OBVIOUS
<1> USE MaxFrameAssumption DEF IInv, Scan, Halves, rxVars, rdVars
<1>1. CASE Start
  <2> USE <1>1 DEF Start, ClearDataProcessStatus
  <2>1. TypeOK'
    BY DEF TypeOK
  <2>2. StoredScan'
    BY DEF TypeOK, StoredScan
  <2>3. CopiedScan'
    BY DEF TypeOK, StoredScan, CopiedScan
  <2>4. Session'
    BY DEF TypeOK, StoredScan, Session
  <2>5. OnItsWay'
    BY DEF TypeOK, StoredScan, Session, OnItsWay
  <2>6. Budget'
    BY DEF TypeOK, StoredScan, CopiedScan, Session, Budget, Chances, One
  <2> QED
    BY <2>1, <2>2, <2>3, <2>4, <2>5, <2>6
<1>2. CASE Stop
  <2> USE <1>2 DEF Stop
  <2>1. TypeOK'
    BY DEF TypeOK
  <2>2. StoredScan'
    BY DEF TypeOK, StoredScan
  <2>3. CopiedScan'
    BY DEF TypeOK, StoredScan, CopiedScan
  <2>4. Session'
    BY DEF TypeOK, StoredScan, Session
  <2>5. OnItsWay'
    BY DEF TypeOK, StoredScan, Session, OnItsWay
  <2>6. Budget'
    BY DEF TypeOK, StoredScan, CopiedScan, Session, Budget, Chances, One
  <2> QED
    BY <2>1, <2>2, <2>3, <2>4, <2>5, <2>6
<1>3. CASE AssemblePacket
  <2> USE <1>3 DEF AssemblePacket
  <2>1. TypeOK'
    <3>1. cut' \in 0 .. MaxFrame /\ rx' \in {"assemble", "set"}
      BY DEF TypeOK
    <3> QED
      BY <3>1 DEF TypeOK
  <2>2. StoredScan'
    BY DEF TypeOK, StoredScan
  <2>3. CopiedScan'
    BY DEF TypeOK, StoredScan, CopiedScan
  <2>4. Session'
    BY DEF TypeOK, StoredScan, Session
  <2>5. OnItsWay'
    BY DEF TypeOK, StoredScan, Session, OnItsWay
  <2>6. Budget'
    BY DEF TypeOK, StoredScan, CopiedScan, Session, Budget, Chances, One
  <2> QED
    BY <2>1, <2>2, <2>3, <2>4, <2>5, <2>6
<1>4. CASE SetLaserScanData
  <2> USE <1>4 DEF SetLaserScanData
  <2>1. TypeOK'
    BY DEF TypeOK
  <2>2. StoredScan'
    BY DEF TypeOK, StoredScan
  <2>3. CopiedScan'
    BY DEF TypeOK, StoredScan, CopiedScan
  <2>4. Session'
    BY DEF TypeOK, StoredScan, Session
  <2>5. OnItsWay'
    BY DEF TypeOK, StoredScan, Session, OnItsWay
  <2>6. Budget'
    BY DEF TypeOK, StoredScan, CopiedScan, Session, Budget, Chances, One
  <2> QED
    BY <2>1, <2>2, <2>3, <2>4, <2>5, <2>6
<1>5. CASE SetFrameReady
  <2> USE <1>5 DEF SetFrameReady
  <2>1. TypeOK'
    BY DEF TypeOK
  <2>2. StoredScan'
    BY DEF TypeOK, StoredScan
  <2>3. CopiedScan'
    BY DEF TypeOK, StoredScan, CopiedScan
  <2>4. Session'
    BY DEF TypeOK, StoredScan, Session
  <2>5. OnItsWay'
    BY DEF TypeOK, StoredScan, Session, OnItsWay
  <2>6. Budget'
    BY DEF TypeOK, StoredScan, CopiedScan, Session, Budget, Chances, One
  <2> QED
    BY <2>1, <2>2, <2>3, <2>4, <2>5, <2>6
<1>6. CASE IsFrameReady
  <2> USE <1>6 DEF IsFrameReady
  <2>1. TypeOK'
    BY DEF TypeOK
  <2>2. StoredScan'
    BY DEF TypeOK, StoredScan
  <2>3. CopiedScan'
    BY DEF TypeOK, StoredScan, CopiedScan
  <2>4. Session'
    BY DEF TypeOK, StoredScan, Session
  <2>5. OnItsWay'
    BY DEF TypeOK, StoredScan, Session, OnItsWay
  <2>6. Budget'
    BY DEF TypeOK, StoredScan, CopiedScan, Session, Budget, Chances, One
  <2> QED
    BY <2>1, <2>2, <2>3, <2>4, <2>5, <2>6
<1>7. CASE ResetFrameReady
  <2> USE <1>7 DEF ResetFrameReady
  <2>1. TypeOK'
    BY DEF TypeOK
  <2>2. StoredScan'
    BY DEF TypeOK, StoredScan
  <2>3. CopiedScan'
    BY DEF TypeOK, StoredScan, CopiedScan
  <2>4. Session'
    BY DEF TypeOK, StoredScan, Session
  <2>5. OnItsWay'
    BY DEF TypeOK, StoredScan, Session, OnItsWay
  <2>6. Budget'
    BY DEF TypeOK, StoredScan, CopiedScan, Session, Budget, Chances, One
  <2> QED
    BY <2>1, <2>2, <2>3, <2>4, <2>5, <2>6
<1>8. CASE CopyLaserScanData
  <2> USE <1>8 DEF CopyLaserScanData
  <2>1. TypeOK'
    BY DEF TypeOK
  <2>2. StoredScan'
    BY DEF TypeOK, StoredScan
  <2>3. CopiedScan'
    BY DEF TypeOK, StoredScan, CopiedScan
  <2>4. Session'
    BY DEF TypeOK, StoredScan, Session
  <2>5. OnItsWay'
    BY DEF TypeOK, StoredScan, Session, OnItsWay
  <2>6. Budget'
    BY DEF TypeOK, StoredScan, CopiedScan, Session, Budget, Chances, One
  <2> QED
    BY <2>1, <2>2, <2>3, <2>4, <2>5, <2>6
<1>9. CASE UNCHANGED vars
  BY <1>9 DEF vars, TypeOK, StoredScan, CopiedScan, Session, OnItsWay,
                 Budget, Chances, One
<1> QED
  BY <1>1, <1>2, <1>3, <1>4, <1>5, <1>6, <1>7, <1>8, <1>9 DEF Next, RxNext, RdNext

LEMMA SafeIInv == SafeSpec => []IInv
  BY InitIInv, NextIInv, PTL DEF SafeSpec

-----------------------------------------------------------------------------

\* The locks and program counters of the two threads fit together: whoever is
\* inside the critical section of mutex_lock2_ holds it (lipkg.cpp:343, :356).
THEOREM TypeCorrect == Spec => []TypeOK
  BY SafeIInv, PTL DEF Spec, IInv

\* GetLaserScanData never returns a mixture of two scans (lipkg.cpp:337-358).
THEOREM NoTornScanHolds == Spec => []NoTornScan
<1>1. IInv => NoTornScan
  BY DEF IInv, CopiedScan, NoTornScan
<1> QED
  BY <1>1, SafeIInv, PTL DEF Spec

\* Between two calls, the newest scan of a running session was returned or is
\* still announced (lipkg.cpp:337-352).
THEOREM NewestScanNotLostHolds == Spec => []NewestScanNotLost
<1>1. IInv => NewestScanNotLost
  BY MaxFrameAssumption
  DEF IInv, TypeOK, OnItsWay, NewestScanNotLost, Scan, Halves
<1> QED
  BY <1>1, SafeIInv, PTL DEF Spec

\* The flag that goes up after the data makes GetLaserScanData return a scan at
\* most three times (lipkg.cpp:263-264 against lipkg.cpp:339-346).
THEOREM AtMostThreeTimesHolds == Spec => []AtMostThreeTimes
<1>1. IInv => AtMostThreeTimes
  BY DEF IInv, Budget, AtMostThreeTimes
<1> QED
  BY <1>1, SafeIInv, PTL DEF Spec

\* A poll never returns an older scan than an earlier one did.
THEOREM NeverOlderHolds == Spec => NeverOlder
<1>1. IInv /\ [Next]_vars => [Delivers => out'.tail >= out.tail]_vars
  BY MaxFrameAssumption
  DEF IInv, TypeOK, CopiedScan, Scan, Halves, Delivers, Next, RxNext, RdNext,
      Start, Stop, AssemblePacket, SetLaserScanData, SetFrameReady,
      IsFrameReady, ResetFrameReady, CopyLaserScanData, rxVars, rdVars, vars
<1> QED
  BY <1>1, SafeIInv, PTL DEF Spec, SafeSpec, NeverOlder

\* A poll returns scans of its own session only, and never the revolution the
\* session began in (lipkg.h:90-97, lipkg.cpp:257-265).
THEOREM OnlyWholeScansOfThisSessionHolds == Spec => OnlyWholeScansOfThisSession
<1>1. IInv /\ [Next]_vars => [Delivers => out'.tail > floor + 1]_vars
  BY MaxFrameAssumption
  DEF IInv, TypeOK, Session, Scan, Halves, Delivers, Next, RxNext, RdNext,
      Start, Stop, AssemblePacket, SetLaserScanData, SetFrameReady,
      IsFrameReady, ResetFrameReady, CopyLaserScanData, rxVars, rdVars, vars
<1> QED
  BY <1>1, SafeIInv, PTL DEF Spec, SafeSpec, OnlyWholeScansOfThisSession

-----------------------------------------------------------------------------
(* Each step of the hand-over is a step of the register or leaves it alone.   *)

LEMMA InitRegister == Init => Register!Init
  BY DEF Init, Register!Init, Fresh

LEMMA NextRegister == IInv /\ [Next]_vars => [Register!Next]_(Register!vars)
<1> SUFFICES ASSUME IInv, [Next]_vars
             PROVE  [Register!Next]_(Register!vars)
  OBVIOUS
<1> USE MaxFrameAssumption
    DEF IInv, TypeOK, Scan, Halves, rxVars, rdVars, Fresh,
        Register!Next, Register!vars
<1>1. CASE Start
  <2>1. Fresh' = FALSE
    BY <1>1 DEF Start, StoredScan
  <2> QED
    BY <1>1, <2>1 DEF Start, Register!Open
<1>2. CASE Stop
  BY <1>2 DEF Stop, Register!Close
<1>3. CASE SetLaserScanData
  <2>1. CASE rx = "set"
    BY <1>3, <2>1 DEF SetLaserScanData
  <2>2. CASE rx = "setTail"
    <3>1. laser_scan_data_'.tail = cut /\ is_start_flag_ /\ out.tail < cut
      BY <1>3, <2>2 DEF SetLaserScanData, StoredScan, CopiedScan, Session
    <3> QED
      BY <1>3, <2>2, <3>1
      DEF SetLaserScanData, StoredScan, Session, Register!Put
  <2> QED
    BY <1>3, <2>1, <2>2 DEF SetLaserScanData
<1>4. CASE CopyLaserScanData
  <2>1. CASE rd = "copy"
    BY <1>4, <2>1 DEF CopyLaserScanData
  <2>2. CASE rd = "copyTail"
    BY <1>4, <2>2
    DEF CopyLaserScanData, CopiedScan, Session, Register!Take
  <2> QED
    BY <1>4, <2>1, <2>2 DEF CopyLaserScanData
<1>5. CASE AssemblePacket \/ SetFrameReady \/ IsFrameReady \/ ResetFrameReady
  BY <1>5 DEF AssemblePacket, SetFrameReady, IsFrameReady, ResetFrameReady
<1>6. CASE UNCHANGED vars
  BY <1>6 DEF vars
<1> QED
  BY <1>1, <1>2, <1>3, <1>4, <1>5, <1>6 DEF Next, RxNext, RdNext

\* Polling LiPkg is reading a register that holds the newest scan of the
\* session: the safety part of ImplementsRegister.
THEOREM ImplementsSafeRegister == Spec => Register!SafeSpec
  BY InitRegister, NextRegister, SafeIInv, PTL
  DEF Spec, SafeSpec, Register!SafeSpec

=============================================================================
