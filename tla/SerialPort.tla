------------------------------ MODULE SerialPort ------------------------------
(***************************************************************************)
(* ldlidar::SerialInterfaceLinux                                            *)
(* (ldlidar_driver/src/serialcom/serial_interface_linux.cpp): the thread    *)
(* that opens and closes the port, the receive thread that reads it, and    *)
(* com_handle_, a plain int that one writes while the other uses it.        *)
(*                                                                          *)
(* The owner makes an object, opens it once, closes it and destroys it, as  *)
(* LdLidarComponent does for every attempt.  Other threads of the process   *)
(* open and close files of their own, so a descriptor that was closed is    *)
(* given out again, the lowest free one first.                              *)
(***************************************************************************)
EXTENDS Integers

CONSTANT Fd  \* bound: the file descriptors there are

ASSUME FdAssumption == Fd \subseteq Nat

NoFd == -1

VARIABLES
  owner,                \* where the thread that opens and closes is
  rx,                   \* where the receive thread is
  com_handle_,
  is_cmd_opened_,       \* not initialised by the constructor
  rx_thread_exit_flag_, \* not initialised by the constructor
  serial_error_,
  plugged,              \* the device exists
  file,                 \* what each descriptor is: the port, the port of a
                        \*   device that is gone, another file, or free
  read_fds,             \* the descriptor in the set, or NoFd
  fd,                   \* the descriptor the receive thread has loaded
  got,                  \* where the bytes given to the callback came from
  late                  \* history: callbacks since rx_thread_exit_flag_ was set

ownerVars == <<owner, is_cmd_opened_, rx_thread_exit_flag_>>
rxVars == <<read_fds, fd, got, late>>
vars == <<ownerVars, rx, com_handle_, serial_error_, plugged, file, rxVars>>

\* A shift by a negative count aborted the process (see FD_SET below).
Aborted == rx = "aborted"

\* The object does not exist, is made, is open, or was closed.
AtRest == {"none", "made", "up", "down"}

TypeOK ==
  /\ owner \in AtRest \cup {"configure", "clearExit", "spawn", "setOpened",
                            "closeFd", "clearHandle", "join", "setClosed"}
  /\ rx \in {"none", "loop", "isOpened", "fdSet", "select", "isSet", "read",
             "callback", "exited", "aborted"}
  /\ com_handle_ \in Fd \cup {NoFd}
  /\ com_handle_ # NoFd /\ owner # "clearHandle" =>
       file[com_handle_] \in {"port", "dead"}
  /\ is_cmd_opened_ \in BOOLEAN
  /\ rx_thread_exit_flag_ \in BOOLEAN
  /\ serial_error_ \in BOOLEAN
  /\ plugged \in BOOLEAN
  /\ file \in [Fd -> {"free", "port", "dead", "other"}]
  /\ read_fds \in Fd \cup {NoFd}
  /\ fd \in Fd \cup {NoFd}
  /\ got \in {"none", "port", "other"}
  /\ late \in Nat

Init ==
  /\ owner = "none"
  /\ rx = "none"
  /\ com_handle_ = NoFd
  /\ is_cmd_opened_ = FALSE
  /\ rx_thread_exit_flag_ = FALSE
  /\ serial_error_ = FALSE
  /\ plugged \in BOOLEAN
  /\ file = [f \in Fd |-> "free"]
  /\ read_fds = NoFd
  /\ fd = NoFd
  /\ got = "none"
  /\ late = 0

Free == {f \in Fd : file[f] = "free"}
LowestFree(f) == f \in Free /\ \A g \in Free : f <= g

-----------------------------------------------------------------------------
(* The device and the other threads.                                          *)

Plug ==
  /\ ~plugged
  /\ ~Aborted
  /\ plugged' = TRUE
  /\ UNCHANGED <<ownerVars, rx, com_handle_, serial_error_, file, rxVars>>

Unplug ==
  /\ plugged
  /\ ~Aborted
  /\ plugged' = FALSE
  /\ file' = [f \in Fd |-> IF file[f] = "port" THEN "dead" ELSE file[f]]
  /\ UNCHANGED <<ownerVars, rx, com_handle_, serial_error_, rxVars>>

OtherOpens ==
  /\ ~Aborted
  /\ \E f \in Fd : LowestFree(f) /\ file' = [file EXCEPT ![f] = "other"]
  /\ UNCHANGED <<ownerVars, rx, com_handle_, serial_error_, plugged, rxVars>>

OtherCloses ==
  /\ ~Aborted
  /\ \E f \in Fd : file[f] = "other" /\ file' = [file EXCEPT ![f] = "free"]
  /\ UNCHANGED <<ownerVars, rx, com_handle_, serial_error_, plugged, rxVars>>

Environment == Plug \/ Unplug \/ OtherOpens \/ OtherCloses

-----------------------------------------------------------------------------
(* The owner: the constructor, Open, Close and the destructor.                *)

OwnerAt(l) == ~Aborted /\ owner = l

\* The two flags hold whatever the memory held.
SerialInterfaceLinux ==
  /\ OwnerAt("none")
  /\ owner' = "made"
  /\ com_handle_' = NoFd
  /\ serial_error_' = FALSE
  /\ is_cmd_opened_' \in BOOLEAN
  /\ rx_thread_exit_flag_' \in BOOLEAN
  /\ UNCHANGED <<rx, plugged, file, rxVars>>

OpenPort ==
  /\ OwnerAt("made")
  /\ \/ \E f \in Fd :
          /\ plugged
          /\ LowestFree(f)
          /\ com_handle_' = f
          /\ file' = [file EXCEPT ![f] = "port"]
          /\ owner' = "configure"
     \/ /\ ~plugged \/ Free = {}
        /\ com_handle_' = NoFd
        /\ owner' = "down"
        /\ UNCHANGED file
  /\ UNCHANGED <<is_cmd_opened_, rx_thread_exit_flag_, rx, serial_error_,
                 plugged, rxVars>>

\* Wrong on purpose: a port that cannot be configured is not closed.
ConfigurePortLeaks ==
  /\ OwnerAt("configure")
  /\ com_handle_' = IF file[com_handle_] = "port" THEN com_handle_ ELSE NoFd
  /\ owner' = IF file[com_handle_] = "port" THEN "clearExit" ELSE "down"
  /\ UNCHANGED <<is_cmd_opened_, rx_thread_exit_flag_, rx, serial_error_,
                 plugged, file, rxVars>>

\* The three ioctl calls; they fail if the device has gone.
ConfigurePort ==
  /\ OwnerAt("configure")
  /\ \/ /\ file[com_handle_] = "port"
        /\ owner' = "clearExit"
        /\ UNCHANGED <<com_handle_, file>>
     \/ /\ file[com_handle_] = "dead"
        /\ owner' = "down"
        /\ file' = [file EXCEPT ![com_handle_] = "free"]
        /\ com_handle_' = NoFd
  /\ UNCHANGED <<is_cmd_opened_, rx_thread_exit_flag_, rx, serial_error_,
                 plugged, rxVars>>

ClearExitFlag ==
  /\ OwnerAt("clearExit")
  /\ rx_thread_exit_flag_' = FALSE
  /\ owner' = "spawn"
  /\ UNCHANGED <<is_cmd_opened_, rx, com_handle_, serial_error_, plugged, file,
                 rxVars>>

\* The thread runs before is_cmd_opened_ is set, and spins until it is.
StartRxThread ==
  /\ OwnerAt("spawn")
  /\ rx' = "loop"
  /\ late' = 0
  /\ owner' = "setOpened"
  /\ UNCHANGED <<is_cmd_opened_, rx_thread_exit_flag_, com_handle_,
                 serial_error_, plugged, file, read_fds, fd, got>>

SetOpened ==
  /\ OwnerAt("setOpened")
  /\ is_cmd_opened_' = TRUE
  /\ owner' = "up"
  /\ UNCHANGED <<rx_thread_exit_flag_, rx, com_handle_, serial_error_, plugged,
                 file, rxVars>>

\* Wrong on purpose: Close forgets to tell the thread before it closes.
CloseWithoutFlag ==
  /\ OwnerAt("up") \/ (OwnerAt("down") /\ is_cmd_opened_)
  /\ owner' = "closeFd"
  /\ UNCHANGED <<is_cmd_opened_, rx_thread_exit_flag_, rx, com_handle_,
                 serial_error_, plugged, file, rxVars>>

\* Close, by the owner or by the destructor of an object whose is_cmd_opened_
\* happens to be set.
Close ==
  /\ OwnerAt("up") \/ (OwnerAt("down") /\ is_cmd_opened_)
  /\ rx_thread_exit_flag_' = TRUE
  /\ owner' = "closeFd"
  /\ UNCHANGED <<is_cmd_opened_, rx, com_handle_, serial_error_, plugged, file,
                 rxVars>>

CloseDescriptor ==
  /\ OwnerAt("closeFd")
  /\ IF com_handle_ = NoFd
       THEN owner' = "join" /\ UNCHANGED file
       ELSE owner' = "clearHandle"
            /\ file' = [file EXCEPT ![com_handle_] = "free"]
  /\ UNCHANGED <<is_cmd_opened_, rx_thread_exit_flag_, rx, com_handle_,
                 serial_error_, plugged, rxVars>>

ClearHandle ==
  /\ OwnerAt("clearHandle")
  /\ com_handle_' = NoFd
  /\ owner' = "join"
  /\ UNCHANGED <<is_cmd_opened_, rx_thread_exit_flag_, rx, serial_error_,
                 plugged, file, rxVars>>

\* Wrong on purpose: the thread is detached, not joined.
DetachRxThread ==
  /\ OwnerAt("join")
  /\ owner' = "setClosed"
  /\ UNCHANGED <<is_cmd_opened_, rx_thread_exit_flag_, rx, com_handle_,
                 serial_error_, plugged, file, rxVars>>

JoinRxThread ==
  /\ OwnerAt("join")
  /\ rx \in {"none", "exited"}
  /\ rx' = "none"
  /\ owner' = "setClosed"
  /\ UNCHANGED <<is_cmd_opened_, rx_thread_exit_flag_, com_handle_,
                 serial_error_, plugged, file, rxVars>>

SetClosed ==
  /\ OwnerAt("setClosed")
  /\ is_cmd_opened_' = FALSE
  /\ owner' = "down"
  /\ UNCHANGED <<rx_thread_exit_flag_, rx, com_handle_, serial_error_, plugged,
                 file, rxVars>>

\* The destructor calls Close, which has nothing to do any more.
Destroy ==
  /\ OwnerAt("down")
  /\ ~is_cmd_opened_
  /\ owner' = "none"
  /\ UNCHANGED <<is_cmd_opened_, rx_thread_exit_flag_, rx, com_handle_,
                 serial_error_, plugged, file, rxVars>>

CloseSteps == CloseDescriptor \/ ClearHandle \/ JoinRxThread \/ SetClosed

OwnerNext ==
  \/ SerialInterfaceLinux \/ OpenPort \/ ConfigurePort \/ ClearExitFlag
  \/ StartRxThread \/ SetOpened \/ Close \/ CloseSteps \/ Destroy

-----------------------------------------------------------------------------
(* The receive thread: RxThreadProc and ReadFromIO.                           *)

RxGoto(l) == rx' = l /\ UNCHANGED <<ownerVars, com_handle_, plugged, file>>

\* Wrong on purpose: the loop ends on an error only.
RxLoopForever ==
  /\ rx = "loop"
  /\ RxGoto(IF serial_error_ THEN "exited" ELSE "isOpened")
  /\ UNCHANGED <<serial_error_, rxVars>>

RxLoop ==
  /\ rx = "loop"
  /\ RxGoto(IF rx_thread_exit_flag_ \/ serial_error_ THEN "exited"
                                                     ELSE "isOpened")
  /\ UNCHANGED <<serial_error_, rxVars>>

IsOpened ==
  /\ rx = "isOpened"
  /\ RxGoto(IF is_cmd_opened_ THEN "fdSet" ELSE "loop")
  /\ UNCHANGED <<serial_error_, rxVars>>

\* FD_SET of -1 is undefined: the fortified C library aborts, a plain one sets
\* a bit that stands for no descriptor in use.
FdSet ==
  /\ rx = "fdSet"
  /\ read_fds' = com_handle_
  /\ \/ RxGoto("select")
     \/ com_handle_ = NoFd /\ RxGoto("aborted")
  /\ UNCHANGED <<serial_error_, fd, got, late>>

\* pselect times out, is interrupted, or returns with the set unchanged: the
\* file is readable, or the descriptor is not open any more.
Select ==
  /\ rx = "select"
  /\ \/ RxGoto("loop")
     \/ read_fds # NoFd /\ RxGoto("isSet")
  /\ UNCHANGED <<serial_error_, rxVars>>

\* FD_ISSET looks at com_handle_ again; of -1 it is as undefined as FD_SET.
FdIsSet ==
  /\ rx = "isSet"
  /\ fd' = com_handle_
  /\ \/ RxGoto("read")
     \/ com_handle_ = NoFd /\ RxGoto("loop")
     \/ com_handle_ = NoFd /\ RxGoto("aborted")
  /\ UNCHANGED <<serial_error_, read_fds, got, late>>

\* What read does on descriptor h: it fails hard, yields nothing, or bytes.
FileAt(h) == IF h = NoFd THEN "free" ELSE file[h]

ReadFails(h) ==
  /\ FileAt(h) \in {"free", "dead"}
  /\ serial_error_' = TRUE
  /\ RxGoto("loop")
  /\ UNCHANGED <<got, late>>

\* Wrong on purpose: any failure of read counts as a hard one.
ReadNothingIsError(h) ==
  /\ FileAt(h) \in {"port", "dead", "other"}
  /\ RxGoto("loop")
  /\ serial_error_' = TRUE
  /\ UNCHANGED <<got, late>>

\* A terminal that was hung up may also read as an empty file.
ReadNothing(h) ==
  /\ FileAt(h) \in {"port", "dead", "other"}
  /\ RxGoto("loop")
  /\ UNCHANGED <<serial_error_, got, late>>

ReadBytes(h) ==
  /\ FileAt(h) \in {"port", "other"}
  /\ got' = FileAt(h)
  /\ late' = IF rx_thread_exit_flag_ THEN late + 1 ELSE late
  /\ RxGoto("callback")
  /\ UNCHANGED serial_error_

\* The descriptor may be loaded anew for the call of read, or not.
Read ==
  /\ rx = "read"
  /\ \E h \in {fd, com_handle_} : ReadFails(h) \/ ReadNothing(h) \/ ReadBytes(h)
  /\ UNCHANGED <<read_fds, fd>>

\* read_callback_ returns.
Callback ==
  /\ rx = "callback"
  /\ got' = "none"
  /\ RxGoto("loop")
  /\ UNCHANGED <<serial_error_, read_fds, fd, late>>

RxNext == RxLoop \/ IsOpened \/ FdSet \/ Select \/ FdIsSet \/ Read \/ Callback

-----------------------------------------------------------------------------

Next == OwnerNext \/ RxNext \/ Environment

SafeSpec == Init /\ [][Next]_vars

\* The receive thread runs, pselect waits a tenth of a second at most, and a
\* Close that began goes on.  A device that is there sends: sooner or later a
\* pselect finds the port readable, and a read finds bytes.
Fairness ==
  /\ WF_vars(RxNext)
  /\ WF_vars(CloseSteps)
  /\ SF_vars(Select /\ rx' = "isSet")
  /\ SF_vars(Read /\ rx' = "callback")

Spec == SafeSpec /\ Fairness

-----------------------------------------------------------------------------

\* Once Close has returned the callback is not running and will not run: the
\* parser it belongs to can be destroyed (ldlidar_driver.cpp:20-41 deletes it
\* first).
ReaderGoneAfterClose == owner \in {"none", "made", "down"} => rx = "none"

\* Neither a failed Open nor Close leaves the port open.
NoDescriptorLeak ==
  owner \in {"none", "made", "down"} =>
    \A f \in Fd : file[f] \notin {"port", "dead"}

\* While the port is open, what reaches the callback comes from the port.
ForeignBytesOnlyWhileClosing ==
  rx = "callback" /\ got = "other" => rx_thread_exit_flag_

\* Close lets one callback through that was on its way, and no second one.
OneLateCallback == late <= 1

\* Close returns, unless an undefined FD_SET or FD_ISSET ends the process.
CloseReturns == owner = "closeFd" ~> owner = "down" \/ Aborted

\* As long as the port is there and nobody closes it, it is read again and
\* again: no timeout, interruption or empty read ends the receive thread.
KeepsReading ==
  <>[](owner = "up" /\ FileAt(com_handle_) = "port") => []<>(rx = "callback")

=============================================================================
