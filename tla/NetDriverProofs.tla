---------------------------- MODULE NetDriverProofs ----------------------------
(***************************************************************************)
(* The safety of NetDriver for any set of peers and any number of datagrams *)
(* that wait: an inductive invariant and the properties that follow from it. *)
(***************************************************************************)
EXTENDS NetDriver, SequenceTheorems, TLAPS

\* The owner is between the start of the receive thread and its join.
Threaded ==
  \/ owner \in {"setCreated", "request", "waitAck", "close", "closeFd",
                "clearFd", "join"}
  \/ owner = "idle" /\ (is_start_flag_ \/ requestFailed)
  \/ owner = "create" /\ requestFailed

\* The receive thread lives from CreateSocket to the join in CloseSocket, and
\* the flag that says so goes up one step later and down with the thread.
Lifetime ==
  /\ rx # "none" <=> Threaded
  /\ is_cmd_created_ <=> Threaded /\ owner # "setCreated"
  /\ is_start_flag_ => owner \in {"idle", "close", "closeFd", "clearFd", "join"}
  /\ requestFailed => ~is_start_flag_
  /\ requestFailed => owner \in {"idle", "create", "request", "close",
                                 "closeFd", "clearFd", "join"}

\* A descriptor is kept by the thread, or by a CreateSocket under way.
Sockets ==
  /\ owner = "join" \/ ~(Threaded \/ owner \in {"accept", "spawn"}) =>
       com_sockfd_ = "none" /\ listend_client_sockfd_ = "none"
  /\ owner = "accept" =>
       mode = "TCP_SERVER" /\ listend_client_sockfd_ = "none"

\* A UDP server knows a client once it has heard one, and waits until it has.
Client ==
  /\ mode = "UDP_SERVER" =>
       /\ client_ = first
       /\ is_server_recv_ack_flag_ <=> client_ # "none"
       /\ is_start_flag_ => is_server_recv_ack_flag_
  /\ owner = "request" \/ requestFailed => mode = "UDP_CLIENT"

\* What the callback is given, and what it leaves for WaitLidarCommConnect.
Session ==
  /\ is_poweron_comm_normal_ => heard
  /\ rx = "callback" => recved.kind \in {"packet", "other"}

\* The parts of TypeOK: the flags, where things are, and the data.
FlagTypes ==
  /\ is_start_flag_ \in BOOLEAN
  /\ is_cmd_created_ \in BOOLEAN
  /\ recv_thread_exit_flag_ \in BOOLEAN
  /\ is_server_recv_ack_flag_ \in BOOLEAN
  /\ is_poweron_comm_normal_ \in BOOLEAN
  /\ heard \in BOOLEAN
  /\ requestFailed \in BOOLEAN

PlaceTypes ==
  /\ mode \in Modes
  /\ owner \in {"idle", "create", "accept", "spawn", "setCreated", "request",
                "waitAck", "close", "closeFd", "clearFd", "join", "gone"}
  /\ rx \in {"none", "loop", "isCreated", "fdSet", "select", "isSet", "recv",
             "callback", "exited", "aborted"}
  /\ com_sockfd_ \in {"none", "open", "closed"}
  /\ listend_client_sockfd_ \in {"none", "open", "closed"}
  /\ mode # "TCP_SERVER" => listend_client_sockfd_ = "none"
  /\ conn \in {"none", "up", "down"}

DataTypes ==
  /\ client_ \in Peer \cup {"none"} /\ first \in Peer \cup {"none"}
  /\ inbox \in Seq(Datagram) /\ Len(inbox) <= MaxInbox
  /\ recved \in Datagram \cup {Nothing}

Types == FlagTypes /\ PlaceTypes /\ DataTypes

IInv == Types /\ Lifetime /\ Sockets /\ Client /\ Session

-----------------------------------------------------------------------------

LEMMA InitIInv == Init => IInv
<1> SUFFICES ASSUME Init PROVE IInv
  OBVIOUS
<1>1. Types
  <2>1. inbox \in Seq(Datagram) /\ Len(inbox) <= MaxInbox
    BY MaxInboxAssumption DEF Init
  <2>2. recv_thread_exit_flag_ \in BOOLEAN
    BY DEF Init, Udp
  <2>3. mode \in Modes /\ recved = Nothing
    BY DEF Init
  <2> QED
    BY <2>1, <2>2, <2>3, Zenon
    DEF Init, Types, FlagTypes, PlaceTypes, DataTypes
<1>2. Lifetime /\ Sockets /\ Client /\ Session
  BY DEF Init, Lifetime, Threaded, Sockets, Client, Session
<1> QED
  BY <1>1, <1>2 DEF IInv

LEMMA NextIInv == IInv /\ [Next]_vars => IInv'
<1> SUFFICES ASSUME IInv, [Next]_vars
             PROVE  IInv'
  OBVIOUS
<1> USE DEF IInv, Types, OwnerAt, OwnerGoto, RxGoto, Aborted,
            flagVars, ownerVars, fdVars, ackVars, dataVars, netVars
<1>1. CASE PeerSends
  <2> USE <1>1 DEF PeerSends, Reachable, Udp, Kind, Datagram
  <2>1. FlagTypes'
    BY Zenon DEF FlagTypes
  <2>2. PlaceTypes'
    BY DEF PlaceTypes, Sockets, Modes
  <2>3. DataTypes'
    <3>1. PICK p \in Peer, k \in Kind :
            inbox' = Append(inbox, [from |-> p, kind |-> k])
      OBVIOUS
    <3>2. [from |-> p, kind |-> k] \in Datagram
      OBVIOUS
    <3>3. inbox' \in Seq(Datagram) /\ Len(inbox') = Len(inbox) + 1
      BY <3>1, <3>2, AppendProperties DEF DataTypes
    <3> QED
      BY <3>3, MaxInboxAssumption DEF DataTypes
  <2>4. Lifetime' /\ Sockets'
    BY DEF FlagTypes, PlaceTypes, Lifetime, Threaded, Sockets
  <2>5. Client' /\ Session'
    BY PeerAssumption
    DEF FlagTypes, PlaceTypes, DataTypes, Lifetime, Threaded, Client, Session
  <2> QED
    BY <2>1, <2>2, <2>3, <2>4, <2>5
<1>2. CASE PeerCloses
  <2> USE <1>2 DEF PeerCloses
  <2>1. FlagTypes'
    BY Zenon DEF FlagTypes
  <2>2. PlaceTypes'
    BY DEF PlaceTypes, Sockets, Modes
  <2>3. DataTypes'
    BY DEF DataTypes
  <2>4. Lifetime' /\ Sockets'
    BY DEF FlagTypes, PlaceTypes, Lifetime, Threaded, Sockets
  <2>5. Client' /\ Session'
    BY PeerAssumption
    DEF FlagTypes, PlaceTypes, DataTypes, Lifetime, Threaded, Client, Session
  <2> QED
    BY <2>1, <2>2, <2>3, <2>4, <2>5
<1>3. CASE Start
  <2> USE <1>3 DEF Start
  <2>1. FlagTypes'
    BY Zenon DEF FlagTypes
  <2>2. PlaceTypes'
    BY DEF PlaceTypes, Sockets, Modes
  <2>3. DataTypes'
    BY DEF DataTypes
  <2>4. Lifetime' /\ Sockets'
    BY DEF FlagTypes, PlaceTypes, Lifetime, Threaded, Sockets
  <2>5. Client' /\ Session'
    BY PeerAssumption
    DEF FlagTypes, PlaceTypes, DataTypes, Lifetime, Threaded, Client, Session
  <2> QED
    BY <2>1, <2>2, <2>3, <2>4, <2>5
<1>4. CASE CreateSocket
  <2> USE <1>4 DEF CreateSocket, SocketExists, SocketFails, SocketMade, AfterCreate
  <2>1. FlagTypes'
    BY Zenon DEF FlagTypes
  <2>2. PlaceTypes'
    BY DEF PlaceTypes, Sockets, Modes
  <2>3. DataTypes'
    BY DEF DataTypes
  <2>4. Lifetime' /\ Sockets'
    <3>1. CASE SocketExists
      BY <3>1 DEF PlaceTypes, Lifetime, Threaded, Sockets, Client
    <3>2. CASE SocketFails
      BY <3>2 DEF PlaceTypes, Lifetime, Threaded, Sockets
    <3>3. CASE SocketMade
      BY <3>3 DEF PlaceTypes, Lifetime, Threaded, Sockets
    <3> QED
      BY <3>1, <3>2, <3>3
  <2>5. Client' /\ Session'
    BY PeerAssumption
    DEF FlagTypes, PlaceTypes, DataTypes, Lifetime, Threaded, Client, Session
  <2> QED
    BY <2>1, <2>2, <2>3, <2>4, <2>5
<1>5. CASE AcceptFailure
  <2> USE <1>5 DEF AcceptFailure
  <2>1. FlagTypes'
    BY Zenon DEF FlagTypes
  <2>2. PlaceTypes'
    BY DEF PlaceTypes, Sockets, Modes
  <2>3. DataTypes'
    BY DEF DataTypes
  <2>4. Lifetime' /\ Sockets'
    BY DEF FlagTypes, PlaceTypes, Lifetime, Threaded, Sockets
  <2>5. Client' /\ Session'
    BY PeerAssumption
    DEF FlagTypes, PlaceTypes, DataTypes, Lifetime, Threaded, Client, Session
  <2> QED
    BY <2>1, <2>2, <2>3, <2>4, <2>5
<1>6. CASE Accept
  <2> USE <1>6 DEF Accept
  <2>1. FlagTypes'
    BY Zenon DEF FlagTypes
  <2>2. PlaceTypes'
    BY DEF PlaceTypes, Sockets, Modes
  <2>3. DataTypes'
    BY DEF DataTypes
  <2>4. Lifetime' /\ Sockets'
    BY DEF FlagTypes, PlaceTypes, Lifetime, Threaded, Sockets
  <2>5. Client' /\ Session'
    BY PeerAssumption
    DEF FlagTypes, PlaceTypes, DataTypes, Lifetime, Threaded, Client, Session
  <2> QED
    BY <2>1, <2>2, <2>3, <2>4, <2>5
<1>7. CASE Spawn
  <2> USE <1>7 DEF Spawn
  <2>1. FlagTypes'
    BY Zenon DEF FlagTypes
  <2>2. PlaceTypes'
    BY DEF PlaceTypes, Sockets, Modes
  <2>3. DataTypes'
    BY DEF DataTypes
  <2>4. Lifetime' /\ Sockets'
    BY DEF FlagTypes, PlaceTypes, Lifetime, Threaded, Sockets
  <2>5. Client' /\ Session'
    BY PeerAssumption
    DEF FlagTypes, PlaceTypes, DataTypes, Lifetime, Threaded, Client, Session
  <2> QED
    BY <2>1, <2>2, <2>3, <2>4, <2>5
<1>8. CASE SetCreated
  <2> USE <1>8 DEF SetCreated, AfterCreate
  <2>1. FlagTypes'
    BY Zenon DEF FlagTypes
  <2>2. PlaceTypes'
    BY DEF PlaceTypes, Sockets, Modes
  <2>3. DataTypes'
    BY DEF DataTypes
  <2>4. Lifetime' /\ Sockets'
    BY DEF FlagTypes, PlaceTypes, Lifetime, Threaded, Sockets
  <2>5. Client' /\ Session'
    BY PeerAssumption
    DEF FlagTypes, PlaceTypes, DataTypes, Lifetime, Threaded, Client, Session
  <2> QED
    BY <2>1, <2>2, <2>3, <2>4, <2>5
<1>9. CASE Request
  <2> USE <1>9 DEF Request
  <2>1. FlagTypes'
    BY Zenon DEF FlagTypes
  <2>2. PlaceTypes'
    BY DEF PlaceTypes, Sockets, Modes
  <2>3. DataTypes'
    BY DEF DataTypes
  <2>4. Lifetime' /\ Sockets'
    BY DEF FlagTypes, PlaceTypes, Lifetime, Threaded, Sockets
  <2>5. Client' /\ Session'
    BY PeerAssumption
    DEF FlagTypes, PlaceTypes, DataTypes, Lifetime, Threaded, Client, Session
  <2> QED
    BY <2>1, <2>2, <2>3, <2>4, <2>5
<1>10. CASE WaitAck
  <2> USE <1>10 DEF WaitAck
  <2>1. FlagTypes'
    BY Zenon DEF FlagTypes
  <2>2. PlaceTypes'
    BY DEF PlaceTypes, Sockets, Modes
  <2>3. DataTypes'
    BY DEF DataTypes
  <2>4. Lifetime' /\ Sockets'
    BY DEF FlagTypes, PlaceTypes, Lifetime, Threaded, Sockets
  <2>5. Client' /\ Session'
    BY PeerAssumption
    DEF FlagTypes, PlaceTypes, DataTypes, Lifetime, Threaded, Client, Session
  <2> QED
    BY <2>1, <2>2, <2>3, <2>4, <2>5
<1>11. CASE CommConnected
  <2> USE <1>11 DEF CommConnected
  <2>1. FlagTypes'
    BY Zenon DEF FlagTypes
  <2>2. PlaceTypes'
    BY DEF PlaceTypes, Sockets, Modes
  <2>3. DataTypes'
    BY DEF DataTypes
  <2>4. Lifetime' /\ Sockets'
    BY DEF FlagTypes, PlaceTypes, Lifetime, Threaded, Sockets
  <2>5. Client' /\ Session'
    BY PeerAssumption
    DEF FlagTypes, PlaceTypes, DataTypes, Lifetime, Threaded, Client, Session
  <2> QED
    BY <2>1, <2>2, <2>3, <2>4, <2>5
<1>12. CASE Stop
  <2> USE <1>12 DEF Stop
  <2>1. FlagTypes'
    BY Zenon DEF FlagTypes
  <2>2. PlaceTypes'
    BY DEF PlaceTypes, Sockets, Modes
  <2>3. DataTypes'
    BY DEF DataTypes
  <2>4. Lifetime' /\ Sockets'
    BY DEF FlagTypes, PlaceTypes, Lifetime, Threaded, Sockets
  <2>5. Client' /\ Session'
    BY PeerAssumption
    DEF FlagTypes, PlaceTypes, DataTypes, Lifetime, Threaded, Client, Session
  <2> QED
    BY <2>1, <2>2, <2>3, <2>4, <2>5
<1>13. CASE FreeParser
  <2> USE <1>13 DEF FreeParser
  <2>1. FlagTypes'
    BY Zenon DEF FlagTypes
  <2>2. PlaceTypes'
    BY DEF PlaceTypes, Sockets, Modes
  <2>3. DataTypes'
    BY DEF DataTypes
  <2>4. Lifetime' /\ Sockets'
    BY DEF FlagTypes, PlaceTypes, Lifetime, Threaded, Sockets
  <2>5. Client' /\ Session'
    BY PeerAssumption
    DEF FlagTypes, PlaceTypes, DataTypes, Lifetime, Threaded, Client, Session
  <2> QED
    BY <2>1, <2>2, <2>3, <2>4, <2>5
<1>14. CASE CloseSocket
  <2> USE <1>14 DEF CloseSocket
  <2>1. FlagTypes'
    BY Zenon DEF FlagTypes
  <2>2. PlaceTypes'
    BY DEF PlaceTypes, Sockets, Modes
  <2>3. DataTypes'
    BY DEF DataTypes
  <2>4. Lifetime' /\ Sockets'
    BY DEF FlagTypes, PlaceTypes, Lifetime, Threaded, Sockets
  <2>5. Client' /\ Session'
    BY PeerAssumption
    DEF FlagTypes, PlaceTypes, DataTypes, Lifetime, Threaded, Client, Session
  <2> QED
    BY <2>1, <2>2, <2>3, <2>4, <2>5
<1>15. CASE CloseFd
  <2> USE <1>15 DEF CloseFd, ClosedIfOpen
  <2>1. FlagTypes'
    BY Zenon DEF FlagTypes
  <2>2. PlaceTypes'
    BY DEF PlaceTypes, Sockets, Modes
  <2>3. DataTypes'
    <3>1. inbox' \in Seq(Datagram) /\ Len(inbox') <= MaxInbox
      BY MaxInboxAssumption
    <3> QED
      BY <3>1 DEF DataTypes
  <2>4. Lifetime' /\ Sockets'
    BY DEF FlagTypes, PlaceTypes, Lifetime, Threaded, Sockets
  <2>5. Client' /\ Session'
    BY PeerAssumption
    DEF FlagTypes, PlaceTypes, DataTypes, Lifetime, Threaded, Client, Session
  <2> QED
    BY <2>1, <2>2, <2>3, <2>4, <2>5
<1>16. CASE ClearFd
  <2> USE <1>16 DEF ClearFd
  <2>1. FlagTypes'
    BY Zenon DEF FlagTypes
  <2>2. PlaceTypes'
    BY DEF PlaceTypes, Sockets, Modes
  <2>3. DataTypes'
    BY DEF DataTypes
  <2>4. Lifetime' /\ Sockets'
    BY DEF FlagTypes, PlaceTypes, Lifetime, Threaded, Sockets
  <2>5. Client' /\ Session'
    BY PeerAssumption
    DEF FlagTypes, PlaceTypes, DataTypes, Lifetime, Threaded, Client, Session
  <2> QED
    BY <2>1, <2>2, <2>3, <2>4, <2>5
<1>17. CASE JoinRecvThread
  <2> USE <1>17 DEF JoinRecvThread
  <2>1. FlagTypes'
    BY Zenon DEF FlagTypes
  <2>2. PlaceTypes'
    BY DEF PlaceTypes, Sockets, Modes
  <2>3. DataTypes'
    BY DEF DataTypes
  <2>4. Lifetime' /\ Sockets'
    BY DEF FlagTypes, PlaceTypes, Lifetime, Threaded, Sockets
  <2>5. Client' /\ Session'
    BY PeerAssumption
    DEF FlagTypes, PlaceTypes, DataTypes, Lifetime, Threaded, Client, Session
  <2> QED
    BY <2>1, <2>2, <2>3, <2>4, <2>5
<1>18. CASE LDLidarDriver
  <2> USE <1>18 DEF LDLidarDriver, Udp
  <2>1. FlagTypes'
    <3>1. recv_thread_exit_flag_' \in BOOLEAN
      OBVIOUS
    <3> QED
      BY <3>1, Zenon DEF FlagTypes
  <2>2. PlaceTypes'
    BY DEF PlaceTypes, Sockets, Modes
  <2>3. DataTypes'
    BY DEF DataTypes
  <2>4. Lifetime' /\ Sockets'
    BY DEF FlagTypes, PlaceTypes, Lifetime, Threaded, Sockets
  <2>5. Client' /\ Session'
    BY PeerAssumption
    DEF FlagTypes, PlaceTypes, DataTypes, Lifetime, Threaded, Client, Session
  <2> QED
    BY <2>1, <2>2, <2>3, <2>4, <2>5
<1>19. CASE RxLoop
  <2> USE <1>19 DEF RxLoop
  <2>1. FlagTypes'
    BY Zenon DEF FlagTypes
  <2>2. PlaceTypes'
    BY DEF PlaceTypes, Sockets, Modes
  <2>3. DataTypes'
    BY DEF DataTypes
  <2>4. Lifetime' /\ Sockets'
    BY DEF FlagTypes, PlaceTypes, Lifetime, Threaded, Sockets
  <2>5. Client' /\ Session'
    BY PeerAssumption
    DEF FlagTypes, PlaceTypes, DataTypes, Lifetime, Threaded, Client, Session
  <2> QED
    BY <2>1, <2>2, <2>3, <2>4, <2>5
<1>20. CASE IsCreated
  <2> USE <1>20 DEF IsCreated
  <2>1. FlagTypes'
    BY Zenon DEF FlagTypes
  <2>2. PlaceTypes'
    BY DEF PlaceTypes, Sockets, Modes
  <2>3. DataTypes'
    BY DEF DataTypes
  <2>4. Lifetime' /\ Sockets'
    BY DEF FlagTypes, PlaceTypes, Lifetime, Threaded, Sockets
  <2>5. Client' /\ Session'
    BY PeerAssumption
    DEF FlagTypes, PlaceTypes, DataTypes, Lifetime, Threaded, Client, Session
  <2> QED
    BY <2>1, <2>2, <2>3, <2>4, <2>5
<1>21. CASE FdSet
  <2> USE <1>21 DEF FdSet
  <2>1. FlagTypes'
    BY Zenon DEF FlagTypes
  <2>2. PlaceTypes'
    BY DEF PlaceTypes, Sockets, Modes
  <2>3. DataTypes'
    BY DEF DataTypes
  <2>4. Lifetime' /\ Sockets'
    BY DEF FlagTypes, PlaceTypes, Lifetime, Threaded, Sockets
  <2>5. Client' /\ Session'
    BY PeerAssumption
    DEF FlagTypes, PlaceTypes, DataTypes, Lifetime, Threaded, Client, Session
  <2> QED
    BY <2>1, <2>2, <2>3, <2>4, <2>5
<1>22. CASE SelectWaits
  <2> USE <1>22 DEF SelectWaits
  <2>1. FlagTypes'
    BY Zenon DEF FlagTypes
  <2>2. PlaceTypes'
    BY DEF PlaceTypes, Sockets, Modes
  <2>3. DataTypes'
    BY DEF DataTypes
  <2>4. Lifetime' /\ Sockets'
    BY DEF FlagTypes, PlaceTypes, Lifetime, Threaded, Sockets
  <2>5. Client' /\ Session'
    BY PeerAssumption
    DEF FlagTypes, PlaceTypes, DataTypes, Lifetime, Threaded, Client, Session
  <2> QED
    BY <2>1, <2>2, <2>3, <2>4, <2>5
<1>23. CASE SelectReady
  <2> USE <1>23 DEF SelectReady
  <2>1. FlagTypes'
    BY Zenon DEF FlagTypes
  <2>2. PlaceTypes'
    BY DEF PlaceTypes, Sockets, Modes
  <2>3. DataTypes'
    BY DEF DataTypes
  <2>4. Lifetime' /\ Sockets'
    BY DEF FlagTypes, PlaceTypes, Lifetime, Threaded, Sockets
  <2>5. Client' /\ Session'
    BY PeerAssumption
    DEF FlagTypes, PlaceTypes, DataTypes, Lifetime, Threaded, Client, Session
  <2> QED
    BY <2>1, <2>2, <2>3, <2>4, <2>5
<1>24. CASE FdIsSet
  <2> USE <1>24 DEF FdIsSet
  <2>1. FlagTypes'
    BY Zenon DEF FlagTypes
  <2>2. PlaceTypes'
    BY DEF PlaceTypes, Sockets, Modes
  <2>3. DataTypes'
    BY DEF DataTypes
  <2>4. Lifetime' /\ Sockets'
    BY DEF FlagTypes, PlaceTypes, Lifetime, Threaded, Sockets
  <2>5. Client' /\ Session'
    BY PeerAssumption
    DEF FlagTypes, PlaceTypes, DataTypes, Lifetime, Threaded, Client, Session
  <2> QED
    BY <2>1, <2>2, <2>3, <2>4, <2>5
<1>25. CASE RecvNothing
  <2> USE <1>25 DEF RecvNothing
  <2>1. FlagTypes'
    BY Zenon DEF FlagTypes
  <2>2. PlaceTypes'
    BY DEF PlaceTypes, Sockets, Modes
  <2>3. DataTypes'
    BY DEF DataTypes
  <2>4. Lifetime' /\ Sockets'
    BY DEF FlagTypes, PlaceTypes, Lifetime, Threaded, Sockets
  <2>5. Client' /\ Session'
    BY PeerAssumption
    DEF FlagTypes, PlaceTypes, DataTypes, Lifetime, Threaded, Client, Session
  <2> QED
    BY <2>1, <2>2, <2>3, <2>4, <2>5
<1>26. CASE Recv
  <2> USE <1>26 DEF Recv, AckFirst, HasBytes, Datagram, Kind
  <2>1. FlagTypes'
    BY Zenon DEF FlagTypes
  <2>2. PlaceTypes'
    BY DEF PlaceTypes, Sockets, Modes
  <2>3. DataTypes'
    <3>1. /\ Head(inbox) \in Datagram
          /\ Tail(inbox) \in Seq(Datagram)
          /\ Len(Tail(inbox)) = Len(inbox) - 1
      BY HeadTailProperties DEF DataTypes
    <3>2. Head(inbox).from \in Peer
      BY <3>1
    <3>3. Len(inbox) \in Nat
      BY LenProperties DEF DataTypes
    <3> QED
      BY <3>1, <3>2, <3>3, MaxInboxAssumption DEF DataTypes
  <2>4. Lifetime' /\ Sockets'
    BY DEF FlagTypes, PlaceTypes, Lifetime, Threaded, Sockets
  <2>5. Client' /\ Session'
    <3>1. Head(inbox) \in Datagram
      BY HeadTailProperties DEF DataTypes
    <3>2. Head(inbox).from \in Peer /\ Head(inbox).kind \in Kind
      BY <3>1
    <3>3. Client'
      BY <3>2, PeerAssumption DEF FlagTypes, DataTypes, Client
    <3>4. Session'
      BY <3>2 DEF Session
    <3> QED
      BY <3>3, <3>4
  <2> QED
    BY <2>1, <2>2, <2>3, <2>4, <2>5
<1>27. CASE Callback
  <2> USE <1>27 DEF Callback, Nothing
  <2>1. FlagTypes'
    BY Zenon DEF FlagTypes
  <2>2. PlaceTypes'
    BY DEF PlaceTypes, Sockets, Modes
  <2>3. DataTypes'
    BY DEF DataTypes
  <2>4. Lifetime' /\ Sockets'
    BY DEF FlagTypes, PlaceTypes, Lifetime, Threaded, Sockets
  <2>5. Client' /\ Session'
    BY PeerAssumption
    DEF FlagTypes, PlaceTypes, DataTypes, Lifetime, Threaded, Client, Session
  <2> QED
    BY <2>1, <2>2, <2>3, <2>4, <2>5
<1>28. CASE UNCHANGED vars
  BY <1>28 DEF vars, FlagTypes, PlaceTypes, DataTypes, Lifetime, Threaded, Sockets, Client, Session
<1> QED
  BY <1>1, <1>2, <1>3, <1>4, <1>5, <1>6, <1>7, <1>8, <1>9, <1>10, <1>11, <1>12, <1>13, <1>14, <1>15, <1>16, <1>17, <1>18, <1>19, <1>20, <1>21, <1>22, <1>23, <1>24, <1>25, <1>26, <1>27, <1>28
  DEF Next, OwnerNext, StartNext, CloseSteps, RxNext

LEMMA SpecIInv == Spec => []IInv
  BY InitIInv, NextIInv, PTL DEF Spec, SafeSpec

-----------------------------------------------------------------------------

\* Every variable keeps its type; the socket holds no more than its bound.
THEOREM TypeCorrect == Spec => []TypeOK
<1>1. IInv => TypeOK
  BY DEF IInv, Types, FlagTypes, PlaceTypes, DataTypes, TypeOK
<1> QED
  BY <1>1, SpecIInv, PTL

\* A driver that is not started holds neither a socket nor a thread, whichever
\* step of Start failed (ldlidar_driver.cpp:146-227).
THEOREM NothingLeftOpenHolds == Spec => []NothingLeftOpen
<1>1. IInv => NothingLeftOpen
  BY DEF IInv, Lifetime, Threaded, Sockets, NothingLeftOpen
<1> QED
  BY <1>1, SpecIInv, PTL

\* The parser is cleared or freed only while no receive thread can be in it
\* (ldlidar_driver.cpp:22).
THEOREM ParserUndisturbedHolds == Spec => ParserUndisturbed
<1>1. IInv /\ [Next]_vars => [Start \/ FreeParser => rx = "none" \/ requestFailed]_vars
  BY DEF IInv, Lifetime, Threaded, Start, FreeParser, OwnerAt
<1> QED
  BY <1>1, SpecIInv, PTL DEF Spec, SafeSpec, ParserUndisturbed

\* A connection is reported only for a packet of this session
\* (ldlidar_driver.cpp:254).
THEOREM ConnectedMeansThisSessionHolds == Spec => []ConnectedMeansThisSession
<1>1. IInv => ConnectedMeansThisSession
  BY DEF IInv, Session, ConnectedMeansThisSession
<1> QED
  BY <1>1, SpecIInv, PTL

\* The callback never runs for the end of a connection or an empty datagram
\* (network_socket_interface_linux.cpp:477).
THEOREM CallbackHasBytesHolds == Spec => []CallbackHasBytes
<1>1. IInv => CallbackHasBytes
  BY DEF IInv, Session, CallbackHasBytes
<1> QED
  BY <1>1, SpecIInv, PTL

\* A UDP server that was started serves the first client it heard
\* (network_socket_interface_linux.cpp:163).
THEOREM ServesFirstClientHolds == Spec => []ServesFirstClient
<1>1. IInv => ServesFirstClient
  BY DEF IInv, Client, ServesFirstClient
<1> QED
  BY <1>1, SpecIInv, PTL

=============================================================================
