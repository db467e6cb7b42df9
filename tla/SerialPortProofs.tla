---------------------------- MODULE SerialPortProofs ----------------------------
(***************************************************************************)
(* The safety of SerialPort for any set of file descriptors.                *)
(***************************************************************************)
EXTENDS SerialPort, TLAPS

Holding == {"configure", "clearExit", "spawn", "setOpened", "up", "closeFd"}

\* The receive thread lives from Open to the join in Close.
Lifetime ==
  /\ rx # "none" => owner \in {"setOpened", "up", "closeFd", "clearHandle",
                               "join"}
  /\ rx # "none" /\ owner \in {"closeFd", "clearHandle", "join"} =>
       rx_thread_exit_flag_

\* The port is open under the number in com_handle_, and under no other.
OnePort ==
  /\ \A f \in Fd : file[f] \in {"port", "dead"} =>
       com_handle_ = f /\ owner \in Holding
  /\ owner \in Holding \ {"closeFd"} => com_handle_ \in Fd
  /\ owner = "clearHandle" => com_handle_ \in Fd
  /\ owner \in {"none", "made", "down", "join", "setClosed"} =>
       com_handle_ = NoFd

\* Until Close begins the receive thread uses com_handle_ as it is.
CurrentFd ==
  /\ rx = "read" /\ ~rx_thread_exit_flag_ => fd = com_handle_
  /\ rx # "none" /\ ~rx_thread_exit_flag_ => com_handle_ \in Fd
  /\ rx = "callback" /\ got = "other" => rx_thread_exit_flag_

\* A callback after the flag went up is the last: the loop ends at its head.
Lateness ==
  /\ late <= 1
  /\ rx # "none" /\ ~rx_thread_exit_flag_ => late = 0
  /\ rx \in {"isOpened", "fdSet", "select", "isSet", "read"} => late = 0

IInv == TypeOK /\ Lifetime /\ OnePort /\ CurrentFd /\ Lateness

-----------------------------------------------------------------------------

LEMMA InitIInv == Init => IInv
<1> SUFFICES ASSUME Init PROVE IInv
  OBVIOUS
<1>1. TypeOK
  <2>1. late \in Nat /\ file \in [Fd -> {"free", "port", "dead", "other"}]
    BY DEF Init
  <2> QED
    BY <2>1, Zenon DEF Init, TypeOK, AtRest
<1>2. Lifetime /\ OnePort /\ CurrentFd /\ Lateness
  BY FdAssumption
  DEF Init, Lifetime, OnePort, CurrentFd, Lateness, Holding, NoFd
<1> QED
  BY <1>1, <1>2 DEF IInv

LEMMA NextIInv == IInv /\ [Next]_vars => IInv'
<1> SUFFICES ASSUME IInv, [Next]_vars
             PROVE  IInv'
  OBVIOUS
<1> USE FdAssumption
    DEF IInv, AtRest, Holding, NoFd, OwnerAt, Aborted, RxGoto, ownerVars, rxVars
<1>1. CASE Plug
  <2> USE <1>1 DEF Plug
  <2>1. TypeOK'
    BY DEF TypeOK, Lifetime, OnePort
  <2>2. Lifetime' /\ OnePort'
    BY DEF TypeOK, Lifetime, OnePort
  <2>3. CurrentFd' /\ Lateness'
    BY DEF TypeOK, Lifetime, OnePort, CurrentFd, Lateness
  <2> QED
    BY <2>1, <2>2, <2>3
<1>2. CASE Unplug
  <2> USE <1>2 DEF Unplug
  <2>1. TypeOK'
    <3>1. file' \in [Fd -> {"free", "port", "dead", "other"}]
      BY DEF TypeOK
    <3>2. com_handle_ # NoFd /\ owner # "clearHandle" =>
            file'[com_handle_] \in {"port", "dead"}
      BY DEF TypeOK
    <3>3. /\ plugged' \in BOOLEAN
          /\ UNCHANGED <<owner, com_handle_, is_cmd_opened_, serial_error_, rx,
                         rx_thread_exit_flag_, read_fds, fd, got, late>>
      OBVIOUS
    <3> HIDE <1>2
    <3> QED
      BY <3>1, <3>2, <3>3 DEF TypeOK
  <2>2. Lifetime' /\ OnePort'
    BY DEF TypeOK, Lifetime, OnePort
  <2>3. CurrentFd' /\ Lateness'
    BY DEF TypeOK, Lifetime, OnePort, CurrentFd, Lateness
  <2> QED
    BY <2>1, <2>2, <2>3
<1>3. CASE OtherOpens
  <2> USE <1>3 DEF OtherOpens, LowestFree, Free
  <2>1. TypeOK'
    BY DEF TypeOK, Lifetime, OnePort
  <2>2. Lifetime' /\ OnePort'
    BY DEF TypeOK, Lifetime, OnePort
  <2>3. CurrentFd' /\ Lateness'
    BY DEF TypeOK, Lifetime, OnePort, CurrentFd, Lateness
  <2> QED
    BY <2>1, <2>2, <2>3
<1>4. CASE OtherCloses
  <2> USE <1>4 DEF OtherCloses
  <2>1. TypeOK'
    BY DEF TypeOK, Lifetime, OnePort
  <2>2. Lifetime' /\ OnePort'
    BY DEF TypeOK, Lifetime, OnePort
  <2>3. CurrentFd' /\ Lateness'
    BY DEF TypeOK, Lifetime, OnePort, CurrentFd, Lateness
  <2> QED
    BY <2>1, <2>2, <2>3
<1>5. CASE SerialInterfaceLinux
  <2> USE <1>5 DEF SerialInterfaceLinux
  <2>1. TypeOK'
    BY DEF TypeOK, Lifetime, OnePort
  <2>2. Lifetime' /\ OnePort'
    BY DEF TypeOK, Lifetime, OnePort
  <2>3. CurrentFd' /\ Lateness'
    BY DEF TypeOK, Lifetime, OnePort, CurrentFd, Lateness
  <2> QED
    BY <2>1, <2>2, <2>3
<1>6. CASE OpenPort
  <2> USE <1>6 DEF OpenPort, LowestFree, Free
  <2>1. TypeOK'
    BY DEF TypeOK, Lifetime, OnePort
  <2>2. Lifetime' /\ OnePort'
    BY DEF TypeOK, Lifetime, OnePort
  <2>3. CurrentFd' /\ Lateness'
    BY DEF TypeOK, Lifetime, OnePort, CurrentFd, Lateness
  <2> QED
    BY <2>1, <2>2, <2>3
<1>7. CASE ConfigurePort
  <2> USE <1>7 DEF ConfigurePort
  <2>1. TypeOK'
    BY DEF TypeOK, Lifetime, OnePort
  <2>2. Lifetime' /\ OnePort'
    BY DEF TypeOK, Lifetime, OnePort
  <2>3. CurrentFd' /\ Lateness'
    BY DEF TypeOK, Lifetime, OnePort, CurrentFd, Lateness
  <2> QED
    BY <2>1, <2>2, <2>3
<1>8. CASE ClearExitFlag
  <2> USE <1>8 DEF ClearExitFlag
  <2>1. TypeOK'
    BY DEF TypeOK, Lifetime, OnePort
  <2>2. Lifetime' /\ OnePort'
    BY DEF TypeOK, Lifetime, OnePort
  <2>3. CurrentFd' /\ Lateness'
    BY DEF TypeOK, Lifetime, OnePort, CurrentFd, Lateness
  <2> QED
    BY <2>1, <2>2, <2>3
<1>9. CASE StartRxThread
  <2> USE <1>9 DEF StartRxThread
  <2>1. TypeOK'
    BY DEF TypeOK, Lifetime, OnePort
  <2>2. Lifetime' /\ OnePort'
    BY DEF TypeOK, Lifetime, OnePort
  <2>3. CurrentFd' /\ Lateness'
    BY DEF TypeOK, Lifetime, OnePort, CurrentFd, Lateness
  <2> QED
    BY <2>1, <2>2, <2>3
<1>10. CASE SetOpened
  <2> USE <1>10 DEF SetOpened
  <2>1. TypeOK'
    BY DEF TypeOK, Lifetime, OnePort
  <2>2. Lifetime' /\ OnePort'
    BY DEF TypeOK, Lifetime, OnePort
  <2>3. CurrentFd' /\ Lateness'
    BY DEF TypeOK, Lifetime, OnePort, CurrentFd, Lateness
  <2> QED
    BY <2>1, <2>2, <2>3
<1>11. CASE Close
  <2> USE <1>11 DEF Close
  <2>1. TypeOK'
    BY DEF TypeOK, Lifetime, OnePort
  <2>2. Lifetime' /\ OnePort'
    BY DEF TypeOK, Lifetime, OnePort
  <2>3. CurrentFd' /\ Lateness'
    BY DEF TypeOK, Lifetime, OnePort, CurrentFd, Lateness
  <2> QED
    BY <2>1, <2>2, <2>3
<1>12. CASE CloseDescriptor
  <2> USE <1>12 DEF CloseDescriptor
  <2>1. TypeOK'
    BY DEF TypeOK, Lifetime, OnePort
  <2>2. Lifetime' /\ OnePort'
    BY DEF TypeOK, Lifetime, OnePort
  <2>3. CurrentFd' /\ Lateness'
    BY DEF TypeOK, Lifetime, OnePort, CurrentFd, Lateness
  <2> QED
    BY <2>1, <2>2, <2>3
<1>13. CASE ClearHandle
  <2> USE <1>13 DEF ClearHandle
  <2>1. TypeOK'
    BY DEF TypeOK, Lifetime, OnePort
  <2>2. Lifetime' /\ OnePort'
    BY DEF TypeOK, Lifetime, OnePort
  <2>3. CurrentFd' /\ Lateness'
    BY DEF TypeOK, Lifetime, OnePort, CurrentFd, Lateness
  <2> QED
    BY <2>1, <2>2, <2>3
<1>14. CASE JoinRxThread
  <2> USE <1>14 DEF JoinRxThread
  <2>1. TypeOK'
    BY DEF TypeOK, Lifetime, OnePort
  <2>2. Lifetime' /\ OnePort'
    BY DEF TypeOK, Lifetime, OnePort
  <2>3. CurrentFd' /\ Lateness'
    BY DEF TypeOK, Lifetime, OnePort, CurrentFd, Lateness
  <2> QED
    BY <2>1, <2>2, <2>3
<1>15. CASE SetClosed
  <2> USE <1>15 DEF SetClosed
  <2>1. TypeOK'
    BY DEF TypeOK, Lifetime, OnePort
  <2>2. Lifetime' /\ OnePort'
    BY DEF TypeOK, Lifetime, OnePort
  <2>3. CurrentFd' /\ Lateness'
    BY DEF TypeOK, Lifetime, OnePort, CurrentFd, Lateness
  <2> QED
    BY <2>1, <2>2, <2>3
<1>16. CASE Destroy
  <2> USE <1>16 DEF Destroy
  <2>1. TypeOK'
    BY DEF TypeOK, Lifetime, OnePort
  <2>2. Lifetime' /\ OnePort'
    BY DEF TypeOK, Lifetime, OnePort
  <2>3. CurrentFd' /\ Lateness'
    BY DEF TypeOK, Lifetime, OnePort, CurrentFd, Lateness
  <2> QED
    BY <2>1, <2>2, <2>3
<1>17. CASE RxLoop
  <2> USE <1>17 DEF RxLoop
  <2>1. TypeOK'
    BY DEF TypeOK, Lifetime, OnePort
  <2>2. Lifetime' /\ OnePort'
    BY DEF TypeOK, Lifetime, OnePort
  <2>3. CurrentFd' /\ Lateness'
    BY DEF TypeOK, Lifetime, OnePort, CurrentFd, Lateness
  <2> QED
    BY <2>1, <2>2, <2>3
<1>18. CASE IsOpened
  <2> USE <1>18 DEF IsOpened
  <2>1. TypeOK'
    BY DEF TypeOK, Lifetime, OnePort
  <2>2. Lifetime' /\ OnePort'
    BY DEF TypeOK, Lifetime, OnePort
  <2>3. CurrentFd' /\ Lateness'
    BY DEF TypeOK, Lifetime, OnePort, CurrentFd, Lateness
  <2> QED
    BY <2>1, <2>2, <2>3
<1>19. CASE FdSet
  <2> USE <1>19 DEF FdSet
  <2>1. TypeOK'
    BY DEF TypeOK, Lifetime, OnePort
  <2>2. Lifetime' /\ OnePort'
    BY DEF TypeOK, Lifetime, OnePort
  <2>3. CurrentFd' /\ Lateness'
    BY DEF TypeOK, Lifetime, OnePort, CurrentFd, Lateness
  <2> QED
    BY <2>1, <2>2, <2>3
<1>20. CASE Select
  <2> USE <1>20 DEF Select
  <2>1. TypeOK'
    BY DEF TypeOK, Lifetime, OnePort
  <2>2. Lifetime' /\ OnePort'
    BY DEF TypeOK, Lifetime, OnePort
  <2>3. CurrentFd' /\ Lateness'
    BY DEF TypeOK, Lifetime, OnePort, CurrentFd, Lateness
  <2> QED
    BY <2>1, <2>2, <2>3
<1>21. CASE FdIsSet
  <2> USE <1>21 DEF FdIsSet
  <2>1. TypeOK'
    BY DEF TypeOK, Lifetime, OnePort
  <2>2. Lifetime' /\ OnePort'
    BY DEF TypeOK, Lifetime, OnePort
  <2>3. CurrentFd' /\ Lateness'
    BY DEF TypeOK, Lifetime, OnePort, CurrentFd, Lateness
  <2> QED
    BY <2>1, <2>2, <2>3
<1>22. CASE Read
  <2> USE <1>22 DEF Read, ReadFails, ReadNothing, ReadBytes, FileAt
  <2>1. TypeOK'
    <3>1. rx' \in {"loop", "callback"} /\ serial_error_' \in BOOLEAN
      BY DEF TypeOK
    <3>2. got' \in {"none", "port", "other"} /\ late' \in Nat
      BY DEF TypeOK
    <3> QED
      BY <3>1, <3>2 DEF TypeOK
  <2>2. Lifetime' /\ OnePort'
    BY DEF TypeOK, Lifetime, OnePort
  <2>3. CurrentFd' /\ Lateness'
    BY DEF TypeOK, Lifetime, OnePort, CurrentFd, Lateness
  <2> QED
    BY <2>1, <2>2, <2>3
<1>23. CASE Callback
  <2> USE <1>23 DEF Callback
  <2>1. TypeOK'
    BY DEF TypeOK, Lifetime, OnePort
  <2>2. Lifetime' /\ OnePort'
    BY DEF TypeOK, Lifetime, OnePort
  <2>3. CurrentFd' /\ Lateness'
    BY DEF TypeOK, Lifetime, OnePort, CurrentFd, Lateness
  <2> QED
    BY <2>1, <2>2, <2>3
<1>24. CASE UNCHANGED vars
  BY <1>24 DEF vars, TypeOK, Lifetime, OnePort, CurrentFd, Lateness
<1> QED
  BY <1>1, <1>2, <1>3, <1>4, <1>5, <1>6, <1>7, <1>8, <1>9, <1>10,
     <1>11, <1>12, <1>13, <1>14, <1>15, <1>16, <1>17, <1>18, <1>19,
     <1>20, <1>21, <1>22, <1>23, <1>24
  DEF Next, OwnerNext, CloseSteps, RxNext, Environment

LEMMA SafeIInv == SafeSpec => []IInv
  BY InitIInv, NextIInv, PTL DEF SafeSpec

-----------------------------------------------------------------------------

\* The variables keep their types, and com_handle_ names an open descriptor of
\* this object, except while Close is between close and the assignment of -1.
THEOREM TypeCorrect == Spec => []TypeOK
  BY SafeIInv, PTL DEF Spec, IInv

\* After Close, no thread calls into the parser
\* (serial_interface_linux.cpp:127-131).
THEOREM ReaderGoneAfterCloseHolds == Spec => []ReaderGoneAfterClose
<1>1. IInv => ReaderGoneAfterClose
  BY DEF IInv, Lifetime, ReaderGoneAfterClose
<1> QED
  BY <1>1, SafeIInv, PTL DEF Spec

\* No path through Open and Close loses a descriptor
\* (serial_interface_linux.cpp:58-61, :84-87, :95-98, :122-125).
THEOREM NoDescriptorLeakHolds == Spec => []NoDescriptorLeak
<1>1. IInv => NoDescriptorLeak
  BY DEF IInv, OnePort, Holding, NoDescriptorLeak
<1> QED
  BY <1>1, SafeIInv, PTL DEF Spec

\* Bytes of another file reach the callback at most while Close runs: the race
\* on com_handle_ is confined to that (serial_interface_linux.cpp:120-160).
THEOREM ForeignBytesOnlyWhileClosingHolds ==
  Spec => []ForeignBytesOnlyWhileClosing
<1>1. IInv => ForeignBytesOnlyWhileClosing
  BY DEF IInv, CurrentFd, ForeignBytesOnlyWhileClosing
<1> QED
  BY <1>1, SafeIInv, PTL DEF Spec

\* Close waits for at most one more callback (serial_interface_linux.cpp:193).
THEOREM OneLateCallbackHolds == Spec => []OneLateCallback
<1>1. IInv => OneLateCallback
  BY DEF IInv, Lateness, OneLateCallback
<1> QED
  BY <1>1, SafeIInv, PTL DEF Spec

=============================================================================
