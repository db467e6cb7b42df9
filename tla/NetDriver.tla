------------------------------ MODULE NetDriver ------------------------------
(***************************************************************************)
(* LDLidarDriver in one of its four network modes (core/ldlidar_driver.cpp) *)
(* with the socket class of that mode, UDPSocketInterfaceLinux or           *)
(* TCPSocketInterfaceLinux (networkcom/network_socket_interface_linux.cpp): *)
(* the thread that starts, polls, stops and destroys the driver, the        *)
(* receive thread, and the peers.                                           *)
(*                                                                          *)
(* The two classes differ in how a socket is made and read and agree in the *)
(* rest.  A descriptor number that is given out again is the subject of     *)
(* SerialPort; here a closed descriptor stays closed.                       *)
(***************************************************************************)
EXTENDS Integers, Sequences

CONSTANTS
  Peer,     \* the hosts that send
  MaxInbox  \* bound: datagrams, or segments, that wait in the socket

ASSUME PeerAssumption == "none" \notin Peer
ASSUME MaxInboxAssumption == MaxInbox \in Nat \ {0}

\* What a peer sends: a packet of the sensor, other bytes (the request of a UDP
\* client is such), or a datagram of no bytes.
Kind == {"packet", "other", "empty"}

Modes == {"UDP_CLIENT", "UDP_SERVER", "TCP_CLIENT", "TCP_SERVER"}

VARIABLES
  mode,                     \* comm_mode of Start
  owner,                    \* where the thread that starts and stops is
  rx,                       \* where the receive thread is
  is_start_flag_,
  is_cmd_created_,
  recv_thread_exit_flag_,
  com_sockfd_,              \* what the descriptor is: none (-1), open, closed
  listend_client_sockfd_,
  is_server_recv_ack_flag_,
  client_,                  \* client_ip_ and client_port_
  is_poweron_comm_normal_,  \* of the parser
  conn,                     \* the TCP connection: none, up, or down
  inbox,                    \* what waits in the socket
  recved,                   \* what was read for the callback
  heard,                    \* history: a packet was parsed since Start
  first,                    \* history: the first peer a UDP server heard
  requestFailed             \* history: Start gave up with its socket open

flagVars == <<is_start_flag_, is_cmd_created_, recv_thread_exit_flag_,
              requestFailed>>
ownerVars == <<mode, owner, flagVars>>
fdVars == <<com_sockfd_, listend_client_sockfd_>>
ackVars == <<is_server_recv_ack_flag_, client_, first>>
dataVars == <<is_poweron_comm_normal_, recved, heard>>
netVars == <<conn, inbox>>
vars == <<ownerVars, rx, fdVars, ackVars, dataVars, netVars>>

Udp == mode \in {"UDP_CLIENT", "UDP_SERVER"}
Aborted == rx = "aborted"
Datagram == [from : Peer, kind : Kind]
Nothing == [from |-> "none", kind |-> "empty"]

\* The descriptor the receive thread reads.
ReadFd == IF mode = "TCP_SERVER" THEN listend_client_sockfd_ ELSE com_sockfd_

TypeOK ==
  /\ mode \in Modes
  /\ owner \in {"idle", "create", "accept", "spawn", "setCreated", "request",
                "waitAck", "close", "closeFd", "clearFd", "join", "gone"}
  /\ rx \in {"none", "loop", "isCreated", "fdSet", "select", "isSet", "recv",
             "callback", "exited", "aborted"}
  /\ is_start_flag_ \in BOOLEAN
  /\ is_cmd_created_ \in BOOLEAN
  /\ recv_thread_exit_flag_ \in BOOLEAN
  /\ com_sockfd_ \in {"none", "open", "closed"}
  /\ listend_client_sockfd_ \in {"none", "open", "closed"}
  /\ mode # "TCP_SERVER" => listend_client_sockfd_ = "none"
  /\ is_server_recv_ack_flag_ \in BOOLEAN
  /\ client_ \in Peer \cup {"none"} /\ first \in Peer \cup {"none"}
  /\ is_poweron_comm_normal_ \in BOOLEAN
  /\ conn \in {"none", "up", "down"}
  /\ inbox \in Seq(Datagram) /\ Len(inbox) <= MaxInbox
  /\ recved \in Datagram \cup {Nothing}
  /\ heard \in BOOLEAN
  /\ requestFailed \in BOOLEAN

\* The UDP class raises its exit flag in the constructor, the TCP class does not.
Init ==
  /\ mode \in Modes
  /\ owner = "idle" /\ rx = "none"
  /\ is_start_flag_ = FALSE /\ is_cmd_created_ = FALSE
  /\ recv_thread_exit_flag_ = Udp
  /\ com_sockfd_ = "none" /\ listend_client_sockfd_ = "none"
  /\ is_server_recv_ack_flag_ = FALSE /\ client_ = "none" /\ first = "none"
  /\ is_poweron_comm_normal_ = FALSE /\ heard = FALSE
  /\ conn = "none" /\ inbox = <<>> /\ recved = Nothing
  /\ requestFailed = FALSE

-----------------------------------------------------------------------------
(* The peers.  A datagram or a segment may be lost: nobody has to send.      *)

\* A UDP client has no port before it has sent its request.
Reachable ==
  CASE mode = "UDP_SERVER" -> com_sockfd_ = "open"
    [] mode = "UDP_CLIENT" -> com_sockfd_ = "open" /\
                              (is_start_flag_ \/ requestFailed)
    [] OTHER               -> conn = "up"

PeerSends ==
  /\ ~Aborted
  /\ Reachable
  /\ Len(inbox) < MaxInbox
  /\ \E p \in Peer, k \in IF Udp THEN Kind ELSE Kind \ {"empty"} :
       inbox' = Append(inbox, [from |-> p, kind |-> k])
  /\ UNCHANGED <<ownerVars, rx, fdVars, ackVars, dataVars, conn>>

PeerCloses ==
  /\ ~Aborted
  /\ conn = "up"
  /\ conn' = "down"
  /\ UNCHANGED <<ownerVars, rx, fdVars, ackVars, dataVars, inbox>>

-----------------------------------------------------------------------------
(* The owner: Start with a network mode.                                     *)

OwnerAt(l) == ~Aborted /\ owner = l
OwnerGoto(l) == owner' = l /\ UNCHANGED mode

\* Wrong on purpose: the flag of the session before stays.
StartKeepsStatus ==
  /\ OwnerAt("idle")
  /\ ~is_start_flag_
  /\ heard' = FALSE
  /\ OwnerGoto("create")
  /\ UNCHANGED <<flagVars, rx, fdVars, ackVars, is_poweron_comm_normal_, recved,
                 netVars>>

\* The parser is cleared and its callback stored.  Arguments that Start refuses
\* change nothing.
Start ==
  /\ OwnerAt("idle")
  /\ ~is_start_flag_
  /\ is_poweron_comm_normal_' = FALSE
  /\ heard' = FALSE
  /\ OwnerGoto("create")
  /\ UNCHANGED <<flagVars, rx, fdVars, ackVars, recved, netVars>>

\* What Start still does once CreateSocket has returned true.
AfterCreate == CASE mode = "UDP_CLIENT" -> "request"
                 [] mode = "UDP_SERVER" -> "waitAck"
                 [] OTHER               -> "idle"

\* A socket that exists is used again, which is that of a UDP client whose
\* request failed.
SocketExists ==
  /\ is_cmd_created_
  /\ OwnerGoto(AfterCreate)
  /\ UNCHANGED <<com_sockfd_, conn>>

\* socket, bind, listen or connect may fail, and leaves no descriptor.
SocketFails ==
  /\ ~is_cmd_created_
  /\ OwnerGoto("idle")
  /\ UNCHANGED <<com_sockfd_, conn>>

SocketMade ==
  /\ ~is_cmd_created_
  /\ com_sockfd_' = "open"
  /\ conn' = IF mode = "TCP_CLIENT" THEN "up" ELSE "none"
  /\ OwnerGoto(IF mode = "TCP_SERVER" THEN "accept" ELSE "spawn")

CreateSocket ==
  /\ OwnerAt("create")
  /\ SocketExists \/ SocketFails \/ SocketMade
  /\ UNCHANGED <<flagVars, rx, listend_client_sockfd_, ackVars, dataVars,
                 inbox>>

\* Wrong on purpose: the listening socket stays open.
AcceptFailureLeaks ==
  /\ OwnerAt("accept")
  /\ OwnerGoto("idle")
  /\ UNCHANGED <<flagVars, rx, fdVars, ackVars, dataVars, netVars>>

\* accept blocks until a client comes, or fails.
AcceptFailure ==
  /\ OwnerAt("accept")
  /\ com_sockfd_' = "none"
  /\ OwnerGoto("idle")
  /\ UNCHANGED <<flagVars, rx, listend_client_sockfd_, ackVars, dataVars,
                 netVars>>

Accept ==
  /\ OwnerAt("accept")
  /\ listend_client_sockfd_' = "open"
  /\ conn' = "up"
  /\ OwnerGoto("spawn")
  /\ UNCHANGED <<flagVars, rx, com_sockfd_, ackVars, dataVars, inbox>>

Spawn ==
  /\ OwnerAt("spawn")
  /\ recv_thread_exit_flag_' = FALSE
  /\ rx' = "loop"
  /\ OwnerGoto("setCreated")
  /\ UNCHANGED <<is_start_flag_, is_cmd_created_, requestFailed, fdVars,
                 ackVars, dataVars, netVars>>

\* Wrong on purpose: the socket counts as created once its client is known.
SetCreatedAfterAck ==
  /\ OwnerAt("setCreated")
  /\ is_server_recv_ack_flag_ \/ mode # "UDP_SERVER"
  /\ is_cmd_created_' = TRUE
  /\ OwnerGoto(AfterCreate)
  /\ is_start_flag_' = (AfterCreate = "idle")
  /\ UNCHANGED <<recv_thread_exit_flag_, requestFailed, rx, fdVars, ackVars,
                 dataVars, netVars>>

\* The end of CreateSocket; with TCP also the end of Start.
SetCreated ==
  /\ OwnerAt("setCreated")
  /\ is_cmd_created_' = TRUE
  /\ OwnerGoto(AfterCreate)
  /\ is_start_flag_' = (AfterCreate = "idle")
  /\ UNCHANGED <<recv_thread_exit_flag_, requestFailed, rx, fdVars, ackVars,
                 dataVars, netVars>>

\* A UDP client tells the server its address.  When that fails Start returns
\* false and leaves the socket and its thread as they are.
Request ==
  /\ OwnerAt("request")
  /\ is_start_flag_' \in BOOLEAN
  /\ requestFailed' = ~is_start_flag_'
  /\ OwnerGoto("idle")
  /\ UNCHANGED <<is_cmd_created_, recv_thread_exit_flag_, rx, fdVars, ackVars,
                 dataVars, netVars>>

\* A UDP server waits for a client, without a time limit.
WaitAck ==
  /\ OwnerAt("waitAck")
  /\ is_server_recv_ack_flag_
  /\ is_start_flag_' = TRUE
  /\ OwnerGoto("idle")
  /\ UNCHANGED <<is_cmd_created_, recv_thread_exit_flag_, requestFailed, rx,
                 fdVars, ackVars, dataVars, netVars>>

StartNext == \/ Start \/ CreateSocket \/ AcceptFailure \/ Accept \/ Spawn
             \/ SetCreated \/ Request \/ WaitAck

-----------------------------------------------------------------------------
(* The owner: polling, Stop and the destructor.                              *)

\* WaitLidarCommConnect sees the flag and takes it down.
CommConnected ==
  /\ OwnerAt("idle")
  /\ is_start_flag_
  /\ is_poweron_comm_normal_
  /\ is_poweron_comm_normal_' = FALSE
  /\ UNCHANGED <<ownerVars, rx, fdVars, ackVars, recved, heard, netVars>>

\* Stop of a started driver calls CloseSocket; the destructor calls it, too,
\* after it has freed the parser.
Stop ==
  /\ OwnerAt("idle")
  /\ is_start_flag_
  /\ OwnerGoto("close")
  /\ UNCHANGED <<flagVars, rx, fdVars, ackVars, dataVars, netVars>>

\* A driver that is started is stopped before it is destroyed.
FreeParser ==
  /\ OwnerAt("idle")
  /\ ~is_start_flag_
  /\ OwnerGoto(IF is_cmd_created_ THEN "close" ELSE "gone")
  /\ UNCHANGED <<flagVars, rx, fdVars, ackVars, dataVars, netVars>>

CloseSocket ==
  /\ OwnerAt("close")
  /\ recv_thread_exit_flag_' = TRUE
  /\ OwnerGoto("closeFd")
  /\ UNCHANGED <<is_start_flag_, is_cmd_created_, requestFailed, rx, fdVars,
                 ackVars, dataVars, netVars>>

\* close of each descriptor that is open; what waited in the socket is lost.
ClosedIfOpen(fd) == IF fd = "open" THEN "closed" ELSE fd

CloseFd ==
  /\ OwnerAt("closeFd")
  /\ com_sockfd_' = ClosedIfOpen(com_sockfd_)
  /\ listend_client_sockfd_' = ClosedIfOpen(listend_client_sockfd_)
  /\ conn' = "none"
  /\ inbox' = <<>>
  /\ OwnerGoto("clearFd")
  /\ UNCHANGED <<flagVars, rx, ackVars, dataVars>>

ClearFd ==
  /\ OwnerAt("clearFd")
  /\ com_sockfd_' = "none"
  /\ listend_client_sockfd_' = "none"
  /\ OwnerGoto("join")
  /\ UNCHANGED <<flagVars, rx, ackVars, dataVars, netVars>>

\* Wrong on purpose: the thread is let go instead of joined.
DetachRecvThread ==
  /\ OwnerAt("join")
  /\ is_cmd_created_' = FALSE
  /\ is_start_flag_' = FALSE
  /\ requestFailed' = FALSE
  /\ OwnerGoto(IF is_start_flag_ THEN "idle" ELSE "gone")
  /\ UNCHANGED <<recv_thread_exit_flag_, rx, fdVars, ackVars, dataVars,
                 netVars>>

\* The end of CloseSocket, and of Stop or the destructor.
JoinRecvThread ==
  /\ OwnerAt("join")
  /\ rx = "exited"
  /\ rx' = "none"
  /\ is_cmd_created_' = FALSE
  /\ is_start_flag_' = FALSE
  /\ requestFailed' = FALSE
  /\ OwnerGoto(IF is_start_flag_ THEN "idle" ELSE "gone")
  /\ UNCHANGED <<recv_thread_exit_flag_, fdVars, ackVars, dataVars, netVars>>

\* A caller makes a new driver when it needs one again.
LDLidarDriver ==
  /\ OwnerAt("gone")
  /\ OwnerGoto("idle")
  /\ recv_thread_exit_flag_' = Udp
  /\ is_server_recv_ack_flag_' = FALSE
  /\ client_' = "none"
  /\ first' = "none"
  /\ is_poweron_comm_normal_' = FALSE
  /\ UNCHANGED <<is_start_flag_, is_cmd_created_, requestFailed, rx, fdVars,
                 recved, heard, netVars>>

CloseSteps == CloseSocket \/ CloseFd \/ ClearFd \/ JoinRecvThread

OwnerNext == \/ StartNext \/ CommConnected \/ Stop \/ FreeParser \/ CloseSteps
             \/ LDLidarDriver

-----------------------------------------------------------------------------
(* The receive thread: RecvThreadProc and RecvFromNet.                       *)

RxGoto(l) == rx' = l /\ UNCHANGED <<ownerVars, fdVars, conn>>

\* Wrong on purpose: the loop does not look at the flag.
RxLoopForever ==
  /\ rx = "loop"
  /\ RxGoto("isCreated")
  /\ UNCHANGED <<ackVars, dataVars, inbox>>

RxLoop ==
  /\ rx = "loop"
  /\ RxGoto(IF recv_thread_exit_flag_ THEN "exited" ELSE "isCreated")
  /\ UNCHANGED <<ackVars, dataVars, inbox>>

IsCreated ==
  /\ rx = "isCreated"
  /\ RxGoto(IF is_cmd_created_ THEN "fdSet" ELSE "loop")
  /\ UNCHANGED <<ackVars, dataVars, inbox>>

\* FD_SET of -1 is undefined: a fortified C library aborts, a plain one sets a
\* bit of no descriptor in use.
FdSet ==
  /\ rx = "fdSet"
  /\ RxGoto("select") \/ (ReadFd = "none" /\ RxGoto("aborted"))
  /\ UNCHANGED <<ackVars, dataVars, inbox>>

Readable == inbox # <<>> \/ conn = "down"

\* Wrong on purpose: an interruption ends the thread.
SelectWaitsOnlyOnce ==
  /\ rx = "select"
  /\ RxGoto("exited")
  /\ UNCHANGED <<ackVars, dataVars, inbox>>

\* The tenth of a second passes, or a signal comes.
SelectWaits ==
  /\ rx = "select"
  /\ RxGoto("loop")
  /\ UNCHANGED <<ackVars, dataVars, inbox>>

\* There is something to read, or the descriptor is not open any more.
SelectReady ==
  /\ rx = "select"
  /\ Readable \/ ReadFd # "open"
  /\ RxGoto("isSet")
  /\ UNCHANGED <<ackVars, dataVars, inbox>>

FdIsSet ==
  /\ rx = "isSet"
  /\ \/ RxGoto("recv")
     \/ ReadFd = "none" /\ (RxGoto("loop") \/ RxGoto("aborted"))
  /\ UNCHANGED <<ackVars, dataVars, inbox>>

\* recv fails, or the peer of a TCP connection has closed it.
RecvNothing ==
  /\ rx = "recv"
  /\ ReadFd = "open" => inbox = <<>> \/ mode = "UDP_CLIENT"
  /\ RxGoto("loop")
  /\ UNCHANGED <<ackVars, dataVars, inbox>>

\* A UDP server remembers the first client it hears.
AckFirst(p) ==
  LET acks == mode = "UDP_SERVER" /\ ~is_server_recv_ack_flag_
  IN  /\ is_server_recv_ack_flag_' = (is_server_recv_ack_flag_ \/ acks)
      /\ client_' = IF acks THEN p ELSE client_
      /\ first' = IF first = "none" THEN p ELSE first

\* res && recved.
HasBytes(d) == d.kind # "empty"

Recv ==
  /\ rx = "recv"
  /\ ReadFd = "open"
  /\ inbox # <<>>
  /\ inbox' = Tail(inbox)
  /\ AckFirst(Head(inbox).from)
  /\ recved' = Head(inbox)
  /\ RxGoto(IF HasBytes(Head(inbox)) THEN "callback" ELSE "loop")
  /\ UNCHANGED <<is_poweron_comm_normal_, heard>>

\* CommReadCallback: a packet that is parsed raises the flag.
Callback ==
  /\ rx = "callback"
  /\ IF recved.kind = "packet"
     THEN is_poweron_comm_normal_' = TRUE /\ heard' = TRUE
     ELSE UNCHANGED <<is_poweron_comm_normal_, heard>>
  /\ recved' = Nothing
  /\ RxGoto("loop")
  /\ UNCHANGED <<ackVars, inbox>>

RxNext == \/ RxLoop \/ IsCreated \/ FdSet \/ SelectWaits \/ SelectReady
          \/ FdIsSet \/ RecvNothing \/ Recv \/ Callback

-----------------------------------------------------------------------------

Next == OwnerNext \/ RxNext \/ PeerSends \/ PeerCloses

SafeSpec == Init /\ [][Next]_vars

\* The receive thread runs and its pselect waits a tenth of a second at most; a
\* Start that began and a Stop go on.  A pselect on a socket with data is not
\* interrupted every time, and recv of it does not fail every time.
Fairness ==
  /\ WF_vars(RxNext)
  /\ WF_vars(Spawn \/ SetCreated \/ WaitAck)
  /\ WF_vars(CloseSteps)
  /\ SF_vars(SelectReady)
  /\ SF_vars(Recv)

Spec == SafeSpec /\ Fairness

-----------------------------------------------------------------------------

\* A driver that is not started has no socket and no thread, whichever step of
\* Start failed (ldlidar_driver.cpp:146-227) - save a UDP client whose request
\* could not be sent (line 193), which keeps both until it is destroyed.
NothingLeftOpen ==
  \/ owner = "gone"
  \/ owner = "idle" /\ ~is_start_flag_ /\ ~requestFailed
  => /\ rx = "none" /\ ~is_cmd_created_
     /\ com_sockfd_ = "none" /\ listend_client_sockfd_ = "none"

\* The parser is neither cleared for a new session nor freed (Start; the
\* destructor, ldlidar_driver.cpp:22, frees it before it closes the sockets)
\* while the receive thread may be in it, with the same exception.
ParserUndisturbed ==
  [][Start \/ FreeParser => rx = "none" \/ requestFailed]_vars

\* WaitLidarCommConnect reports a connection (ldlidar_driver.cpp:254) when a
\* packet came in this session, not in the one before.
ConnectedMeansThisSession == is_poweron_comm_normal_ => heard

\* The callback runs only for bytes that came: neither the end of a connection
\* nor an empty datagram, which recv reports by 0, is data.
CallbackHasBytes == rx = "callback" => recved.kind \in {"packet", "other"}

\* A UDP server that was started knows a client, the first that it heard
\* ("only one to one", network_socket_interface_linux.cpp:164).
ServesFirstClient ==
  mode = "UDP_SERVER" =>
    /\ client_ = first
    /\ is_start_flag_ => client_ # "none"

\* Stop and the destructor return, in spite of the join without a wake-up,
\* unless an undefined FD_SET or FD_ISSET ends the process.
StopReturns == owner = "close" ~> owner \in {"idle", "gone"} \/ Aborted

\* Start of a UDP server returns once a client has sent anything, also when it
\* did so before Start began to wait: the thread that is to hear it is running
\* and the socket counts as created (ldlidar_driver.cpp:215).
ServerStarts ==
  /\ mode = "UDP_SERVER"
  /\ owner \in {"setCreated", "waitAck"}
  /\ inbox # <<>>
  ~> is_start_flag_

\* Data that waits is read: no time-out, signal, failed recv or empty datagram
\* ends the receive thread.
KeepsReceiving == []<>(Aborted \/ inbox = <<>> \/ rx = "recv")

=============================================================================
