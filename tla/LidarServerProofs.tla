--------------------------- MODULE LidarServerProofs ---------------------------
(***************************************************************************)
(* The safety of LidarServer for any set of publishers: an inductive        *)
(* invariant and the properties that follow from it.                        *)
(***************************************************************************)
EXTENDS LidarServer, TLAPS

\* Where main is before it starts the lidar thread.
BeforeThread == {"signal", "construct", "init", "newDriver", "startDriver",
                 "waitConnect", "checkRunning", "startThread"}

\* Main's own handler is installed only until the component is constructed, so
\* g_running goes down before the thread exists, or never.
Handlers ==
  /\ pc["main"] = "signal" => handler = "default"
  /\ pc["main"] = "construct" => handler = "main"
  /\ handler = "main" => pc["main"] = "construct"
  /\ ~g_running => pc["main"] \in {"construct", "init", "checkRunning",
                                   "destroy"}
  /\ ~g_running => pc["lidar"] = "none"

\* The thread exists from startThread on, and only the thread itself raises
\* _threadStop, on its way out.  That is why main never joins it.
Stopping ==
  /\ pc["main"] \in BeforeThread => pc["lidar"] = "none"
  /\ pc["main"] \notin BeforeThread \cup {"destroy"} => pc["lidar"] # "none"
  /\ _threadStop => pc["lidar"] \in {"stopping", "done"}
  /\ pc["main"] # "join"
  /\ pc["main"] \in {"stopLidarThread", "destroy"} =>
       _threadStop \/ pc["lidar"] = "none"

\* The driver by where its user is: main until the thread starts, then the
\* thread.
Started == _lidar \in {"open", "stale"}

DriverOfMain ==
  /\ pc["main"] \in {"signal", "construct", "init", "newDriver"} =>
       _lidar \in {"none", "idle"}
  /\ pc["main"] = "startDriver" => _lidar = "idle"
  /\ pc["main"] \in {"waitConnect", "startThread"} => Started
  /\ pc["main"] = "checkRunning" /\ g_running => Started

DriverOfLidar ==
  /\ pc["lidar"] \in {"begin", "loop", "poll", "publish", "callback",
                      "stopDriver", "waitConnect"} => Started
  /\ pc["lidar"] \in {"reconnect", "newDriver", "startDriver"} =>
       _lidar = "idle"

IInv == TypeOK /\ Handlers /\ Stopping /\ DriverOfMain /\ DriverOfLidar

-----------------------------------------------------------------------------

LEMMA InitIInv == Init => IInv
<1> SUFFICES ASSUME Init PROVE IInv
  OBVIOUS
<1> USE DEF Init
<1>1. TypeOK
  <2>1. pc \in [{"main", "lidar"} -> MainLabel \cup LidarLabel]
    BY DEF MainLabel, LidarLabel
  <2>2. pc["main"] \in MainLabel /\ pc["lidar"] \in LidarLabel
    BY DEF MainLabel, LidarLabel
  <2>3. _sub_count \in 0 .. 1
    OBVIOUS
  <2> QED
    BY <2>1, <2>2, <2>3, Zenon DEF TypeOK
<1>2. Handlers /\ Stopping /\ DriverOfMain /\ DriverOfLidar
  BY DEF Handlers, Stopping, DriverOfMain, DriverOfLidar, BeforeThread, Started
<1> QED
  BY <1>1, <1>2 DEF IInv

LEMMA NextIInv == IInv /\ [Next]_vars => IInv'
<1> SUFFICES ASSUME IInv, [Next]_vars
             PROVE  IInv'
  OBVIOUS
<1> USE DEF IInv, BeforeThread, Started, At, Goto,
            signalVars, threadVars, publisherVars, scanVars
<1>1. CASE PlugIn
  <2> USE <1>1 DEF PlugIn
  <2>1. TypeOK'
    BY DEF TypeOK, MainLabel, LidarLabel
  <2>2. Handlers' /\ Stopping'
    BY DEF TypeOK, Handlers, Stopping
  <2>3. DriverOfMain' /\ DriverOfLidar'
    BY DEF TypeOK, Handlers, Stopping, DriverOfMain, DriverOfLidar
  <2> QED
    BY <2>1, <2>2, <2>3
<1>2. CASE SpinUp
  <2> USE <1>2 DEF SpinUp
  <2>1. TypeOK'
    BY DEF TypeOK, MainLabel, LidarLabel
  <2>2. Handlers' /\ Stopping'
    BY DEF TypeOK, Handlers, Stopping
  <2>3. DriverOfMain' /\ DriverOfLidar'
    BY DEF TypeOK, Handlers, Stopping, DriverOfMain, DriverOfLidar
  <2> QED
    BY <2>1, <2>2, <2>3
<1>3. CASE FallSilent
  <2> USE <1>3 DEF FallSilent
  <2>1. TypeOK'
    BY DEF TypeOK, MainLabel, LidarLabel
  <2>2. Handlers' /\ Stopping'
    BY DEF TypeOK, Handlers, Stopping
  <2>3. DriverOfMain' /\ DriverOfLidar'
    BY DEF TypeOK, Handlers, Stopping, DriverOfMain, DriverOfLidar
  <2> QED
    BY <2>1, <2>2, <2>3
<1>4. CASE Unplug
  <2> USE <1>4 DEF Unplug
  <2>1. TypeOK'
    BY DEF TypeOK, MainLabel, LidarLabel
  <2>2. Handlers' /\ Stopping'
    BY DEF TypeOK, Handlers, Stopping
  <2>3. DriverOfMain' /\ DriverOfLidar'
    BY DEF TypeOK, Handlers, Stopping, DriverOfMain, DriverOfLidar
  <2> QED
    BY <2>1, <2>2, <2>3
<1>5. CASE Signal
  <2> USE <1>5 DEF Signal
  <2>1. TypeOK'
    BY DEF TypeOK, MainLabel, LidarLabel
  <2>2. Handlers' /\ Stopping'
    BY DEF TypeOK, Handlers, Stopping
  <2>3. DriverOfMain' /\ DriverOfLidar'
    BY DEF TypeOK, Handlers, Stopping, DriverOfMain, DriverOfLidar
  <2> QED
    BY <2>1, <2>2, <2>3
<1>6. CASE on_publication_matched
  <2> USE <1>6 DEF on_publication_matched
  <2>1. TypeOK'
    BY DEF TypeOK, MainLabel, LidarLabel
  <2>2. Handlers' /\ Stopping'
    BY DEF TypeOK, Handlers, Stopping
  <2>3. DriverOfMain' /\ DriverOfLidar'
    BY DEF TypeOK, Handlers, Stopping, DriverOfMain, DriverOfLidar
  <2> QED
    BY <2>1, <2>2, <2>3
<1>7. CASE RegisterSignalHandlers
  <2> USE <1>7 DEF RegisterSignalHandlers
  <2>1. TypeOK'
    BY DEF TypeOK, MainLabel, LidarLabel
  <2>2. Handlers' /\ Stopping'
    BY DEF TypeOK, Handlers, Stopping
  <2>3. DriverOfMain' /\ DriverOfLidar'
    BY DEF TypeOK, Handlers, Stopping, DriverOfMain, DriverOfLidar
  <2> QED
    BY <2>1, <2>2, <2>3
<1>8. CASE LdLidarComponent
  <2> USE <1>8 DEF LdLidarComponent
  <2>1. TypeOK'
    BY DEF TypeOK, MainLabel, LidarLabel
  <2>2. Handlers' /\ Stopping'
    BY DEF TypeOK, Handlers, Stopping
  <2>3. DriverOfMain' /\ DriverOfLidar'
    BY DEF TypeOK, Handlers, Stopping, DriverOfMain, DriverOfLidar
  <2> QED
    BY <2>1, <2>2, <2>3
<1>9. CASE RetryInit
  <2> USE <1>9 DEF RetryInit
  <2>1. TypeOK'
    BY DEF TypeOK, MainLabel, LidarLabel
  <2>2. Handlers' /\ Stopping'
    BY DEF TypeOK, Handlers, Stopping
  <2>3. DriverOfMain' /\ DriverOfLidar'
    BY DEF TypeOK, Handlers, Stopping, DriverOfMain, DriverOfLidar
  <2> QED
    BY <2>1, <2>2, <2>3
<1>10. CASE NewDriver("main")
  <2> USE <1>10 DEF NewDriver
  <2>1. TypeOK'
    BY DEF TypeOK, MainLabel, LidarLabel
  <2>2. Handlers' /\ Stopping'
    BY DEF TypeOK, Handlers, Stopping
  <2>3. DriverOfMain' /\ DriverOfLidar'
    BY DEF TypeOK, Handlers, Stopping, DriverOfMain, DriverOfLidar
  <2> QED
    BY <2>1, <2>2, <2>3
<1>11. CASE StartDriver("main")
  <2> USE <1>11 DEF StartDriver, InitFailed
  <2>1. TypeOK'
    BY DEF TypeOK, MainLabel, LidarLabel
  <2>2. Handlers' /\ Stopping'
    BY DEF TypeOK, Handlers, Stopping
  <2>3. DriverOfMain' /\ DriverOfLidar'
    BY DEF TypeOK, Handlers, Stopping, DriverOfMain, DriverOfLidar
  <2> QED
    BY <2>1, <2>2, <2>3
<1>12. CASE WaitLidarCommConnect("main")
  <2> USE <1>12 DEF WaitLidarCommConnect, InitOk, InitFailed
  <2>1. TypeOK'
    BY DEF TypeOK, MainLabel, LidarLabel
  <2>2. Handlers' /\ Stopping'
    BY DEF TypeOK, Handlers, Stopping
  <2>3. DriverOfMain' /\ DriverOfLidar'
    BY DEF TypeOK, Handlers, Stopping, DriverOfMain, DriverOfLidar
  <2> QED
    BY <2>1, <2>2, <2>3
<1>13. CASE CheckRunning
  <2> USE <1>13 DEF CheckRunning
  <2>1. TypeOK'
    BY DEF TypeOK, MainLabel, LidarLabel
  <2>2. Handlers' /\ Stopping'
    BY DEF TypeOK, Handlers, Stopping
  <2>3. DriverOfMain' /\ DriverOfLidar'
    BY DEF TypeOK, Handlers, Stopping, DriverOfMain, DriverOfLidar
  <2> QED
    BY <2>1, <2>2, <2>3
<1>14. CASE startLidarThread
  <2> USE <1>14 DEF startLidarThread
  <2>1. TypeOK'
    BY DEF TypeOK, MainLabel, LidarLabel
  <2>2. Handlers' /\ Stopping'
    BY DEF TypeOK, Handlers, Stopping
  <2>3. DriverOfMain' /\ DriverOfLidar'
    BY DEF TypeOK, Handlers, Stopping, DriverOfMain, DriverOfLidar
  <2> QED
    BY <2>1, <2>2, <2>3
<1>15. CASE setSubscriberCount
  <2> USE <1>15 DEF setSubscriberCount
  <2>1. TypeOK'
    BY DEF TypeOK, MainLabel, LidarLabel
  <2>2. Handlers' /\ Stopping'
    BY DEF TypeOK, Handlers, Stopping
  <2>3. DriverOfMain' /\ DriverOfLidar'
    BY DEF TypeOK, Handlers, Stopping, DriverOfMain, DriverOfLidar
  <2> QED
    BY <2>1, <2>2, <2>3
<1>16. CASE DdsLoop
  <2> USE <1>16 DEF DdsLoop, KeepRunning
  <2>1. TypeOK'
    BY DEF TypeOK, MainLabel, LidarLabel
  <2>2. Handlers' /\ Stopping'
    BY DEF TypeOK, Handlers, Stopping
  <2>3. DriverOfMain' /\ DriverOfLidar'
    BY DEF TypeOK, Handlers, Stopping, DriverOfMain, DriverOfLidar
  <2> QED
    BY <2>1, <2>2, <2>3
<1>17. CASE CreatePublisher
  <2> USE <1>17 DEF CreatePublisher
  <2>1. TypeOK'
    <3>1. pc' \in [{"main", "lidar"} -> MainLabel \cup LidarLabel]
      BY DEF TypeOK, MainLabel, LidarLabel
    <3>2. pc'["main"] \in MainLabel /\ pc'["lidar"] \in LidarLabel
      BY DEF TypeOK, MainLabel, LidarLabel
    <3>3. {_threadStop', joinable', matched', first_scan'} \subseteq BOOLEAN
      BY DEF TypeOK
    <3>4. matched' => mypub' # NoPublisher
      BY NoPublisherAssumption DEF TypeOK
    <3> QED
      BY <3>1, <3>2, <3>3, <3>4 DEF TypeOK
  <2>2. Handlers' /\ Stopping'
    BY DEF TypeOK, Handlers, Stopping
  <2>3. DriverOfMain' /\ DriverOfLidar'
    BY DEF TypeOK, Handlers, Stopping, DriverOfMain, DriverOfLidar
  <2> QED
    BY <2>1, <2>2, <2>3
<1>18. CASE registerCallback
  <2> USE <1>18 DEF registerCallback
  <2>1. TypeOK'
    BY DEF TypeOK, MainLabel, LidarLabel
  <2>2. Handlers' /\ Stopping'
    BY DEF TypeOK, Handlers, Stopping
  <2>3. DriverOfMain' /\ DriverOfLidar'
    BY DEF TypeOK, Handlers, Stopping, DriverOfMain, DriverOfLidar
  <2> QED
    BY <2>1, <2>2, <2>3
<1>19. CASE WaitMatched
  <2> USE <1>19 DEF WaitMatched, KeepRunning, DropPublisher
  <2>1. TypeOK'
    <3>1. pc' \in [{"main", "lidar"} -> MainLabel \cup LidarLabel]
      BY DEF TypeOK, MainLabel, LidarLabel
    <3>2. pc'["main"] \in MainLabel /\ pc'["lidar"] \in LidarLabel
      BY DEF TypeOK, MainLabel, LidarLabel
    <3>3. {_threadStop', joinable', matched', first_scan'} \subseteq BOOLEAN
      BY DEF TypeOK
    <3>4. matched' => mypub' # NoPublisher
      BY NoPublisherAssumption DEF TypeOK
    <3> QED
      BY <3>1, <3>2, <3>3, <3>4 DEF TypeOK
  <2>2. Handlers' /\ Stopping'
    BY DEF TypeOK, Handlers, Stopping
  <2>3. DriverOfMain' /\ DriverOfLidar'
    BY DEF TypeOK, Handlers, Stopping, DriverOfMain, DriverOfLidar
  <2> QED
    BY <2>1, <2>2, <2>3
<1>20. CASE RunConnected
  <2> USE <1>20 DEF RunConnected, KeepRunning, DropPublisher
  <2>1. TypeOK'
    <3>1. pc' \in [{"main", "lidar"} -> MainLabel \cup LidarLabel]
      BY DEF TypeOK, MainLabel, LidarLabel
    <3>2. pc'["main"] \in MainLabel /\ pc'["lidar"] \in LidarLabel
      BY DEF TypeOK, MainLabel, LidarLabel
    <3>3. {_threadStop', joinable', matched', first_scan'} \subseteq BOOLEAN
      BY DEF TypeOK
    <3>4. matched' => mypub' # NoPublisher
      BY NoPublisherAssumption DEF TypeOK
    <3> QED
      BY <3>1, <3>2, <3>3, <3>4 DEF TypeOK
  <2>2. Handlers' /\ Stopping'
    BY DEF TypeOK, Handlers, Stopping
  <2>3. DriverOfMain' /\ DriverOfLidar'
    BY DEF TypeOK, Handlers, Stopping, DriverOfMain, DriverOfLidar
  <2> QED
    BY <2>1, <2>2, <2>3
<1>21. CASE stopLidarThread
  <2> USE <1>21 DEF stopLidarThread
  <2>1. TypeOK'
    <3>1. pc' \in [{"main", "lidar"} -> MainLabel \cup LidarLabel]
      BY DEF TypeOK, MainLabel, LidarLabel
    <3>2. pc'["main"] \in MainLabel /\ pc'["lidar"] \in LidarLabel
      BY DEF TypeOK, MainLabel, LidarLabel
    <3>3. {_threadStop', joinable', matched', first_scan'} \subseteq BOOLEAN
      BY DEF TypeOK
    <3>4. matched' => mypub' # NoPublisher
      BY NoPublisherAssumption DEF TypeOK
    <3> QED
      BY <3>1, <3>2, <3>3, <3>4 DEF TypeOK
  <2>2. Handlers' /\ Stopping'
    BY DEF TypeOK, Handlers, Stopping
  <2>3. DriverOfMain' /\ DriverOfLidar'
    BY DEF TypeOK, Handlers, Stopping, DriverOfMain, DriverOfLidar
  <2> QED
    BY <2>1, <2>2, <2>3
<1>22. CASE DestroyComponent
  <2> USE <1>22 DEF DestroyComponent
  <2>1. TypeOK'
    BY DEF TypeOK, MainLabel, LidarLabel
  <2>2. Handlers' /\ Stopping'
    BY DEF TypeOK, Handlers, Stopping
  <2>3. DriverOfMain' /\ DriverOfLidar'
    BY DEF TypeOK, Handlers, Stopping, DriverOfMain, DriverOfLidar
  <2> QED
    BY <2>1, <2>2, <2>3
<1>23. CASE BeginThread
  <2> USE <1>23 DEF BeginThread
  <2>1. TypeOK'
    <3>1. pc' \in [{"main", "lidar"} -> MainLabel \cup LidarLabel]
      BY DEF TypeOK, MainLabel, LidarLabel
    <3>2. pc'["main"] \in MainLabel /\ pc'["lidar"] \in LidarLabel
      BY DEF TypeOK, MainLabel, LidarLabel
    <3>3. {_threadStop', joinable', matched', first_scan'} \subseteq BOOLEAN
      BY DEF TypeOK
    <3>4. matched' => mypub' # NoPublisher
      BY NoPublisherAssumption DEF TypeOK
    <3> QED
      BY <3>1, <3>2, <3>3, <3>4 DEF TypeOK
  <2>2. Handlers' /\ Stopping'
    BY DEF TypeOK, Handlers, Stopping
  <2>3. DriverOfMain' /\ DriverOfLidar'
    BY DEF TypeOK, Handlers, Stopping, DriverOfMain, DriverOfLidar
  <2> QED
    BY <2>1, <2>2, <2>3
<1>24. CASE InterruptionCheck
  <2> USE <1>24 DEF InterruptionCheck
  <2>1. TypeOK'
    BY DEF TypeOK, MainLabel, LidarLabel
  <2>2. Handlers' /\ Stopping'
    BY DEF TypeOK, Handlers, Stopping
  <2>3. DriverOfMain' /\ DriverOfLidar'
    BY DEF TypeOK, Handlers, Stopping, DriverOfMain, DriverOfLidar
  <2> QED
    BY <2>1, <2>2, <2>3
<1>25. CASE PollLidar
  <2> USE <1>25 DEF PollLidar
  <2>1. TypeOK'
    BY DEF TypeOK, MainLabel, LidarLabel
  <2>2. Handlers' /\ Stopping'
    BY DEF TypeOK, Handlers, Stopping
  <2>3. DriverOfMain' /\ DriverOfLidar'
    BY DEF TypeOK, Handlers, Stopping, DriverOfMain, DriverOfLidar
  <2> QED
    BY <2>1, <2>2, <2>3
<1>26. CASE publishLaserScan
  <2> USE <1>26 DEF publishLaserScan
  <2>1. TypeOK'
    <3>1. pc' \in [{"main", "lidar"} -> MainLabel \cup LidarLabel]
      BY DEF TypeOK, MainLabel, LidarLabel
    <3>2. pc'["main"] \in MainLabel /\ pc'["lidar"] \in LidarLabel
      BY DEF TypeOK, MainLabel, LidarLabel
    <3>3. {_threadStop', joinable', matched', first_scan'} \subseteq BOOLEAN
      BY DEF TypeOK
    <3>4. matched' => mypub' # NoPublisher
      BY NoPublisherAssumption DEF TypeOK
    <3> QED
      BY <3>1, <3>2, <3>3, <3>4 DEF TypeOK
  <2>2. Handlers' /\ Stopping'
    BY DEF TypeOK, Handlers, Stopping
  <2>3. DriverOfMain' /\ DriverOfLidar'
    BY DEF TypeOK, Handlers, Stopping, DriverOfMain, DriverOfLidar
  <2> QED
    BY <2>1, <2>2, <2>3
<1>27. CASE ReturnFromCallback
  <2> USE <1>27 DEF ReturnFromCallback
  <2>1. TypeOK'
    BY DEF TypeOK, MainLabel, LidarLabel
  <2>2. Handlers' /\ Stopping'
    BY DEF TypeOK, Handlers, Stopping
  <2>3. DriverOfMain' /\ DriverOfLidar'
    BY DEF TypeOK, Handlers, Stopping, DriverOfMain, DriverOfLidar
  <2> QED
    BY <2>1, <2>2, <2>3
<1>28. CASE StopDriver
  <2> USE <1>28 DEF StopDriver
  <2>1. TypeOK'
    BY DEF TypeOK, MainLabel, LidarLabel
  <2>2. Handlers' /\ Stopping'
    BY DEF TypeOK, Handlers, Stopping
  <2>3. DriverOfMain' /\ DriverOfLidar'
    BY DEF TypeOK, Handlers, Stopping, DriverOfMain, DriverOfLidar
  <2> QED
    BY <2>1, <2>2, <2>3
<1>29. CASE attemptReconnect
  <2> USE <1>29 DEF attemptReconnect
  <2>1. TypeOK'
    BY DEF TypeOK, MainLabel, LidarLabel
  <2>2. Handlers' /\ Stopping'
    BY DEF TypeOK, Handlers, Stopping
  <2>3. DriverOfMain' /\ DriverOfLidar'
    BY DEF TypeOK, Handlers, Stopping, DriverOfMain, DriverOfLidar
  <2> QED
    BY <2>1, <2>2, <2>3
<1>30. CASE NewDriver("lidar")
  <2> USE <1>30 DEF NewDriver
  <2>1. TypeOK'
    BY DEF TypeOK, MainLabel, LidarLabel
  <2>2. Handlers' /\ Stopping'
    BY DEF TypeOK, Handlers, Stopping
  <2>3. DriverOfMain' /\ DriverOfLidar'
    BY DEF TypeOK, Handlers, Stopping, DriverOfMain, DriverOfLidar
  <2> QED
    BY <2>1, <2>2, <2>3
<1>31. CASE StartDriver("lidar")
  <2> USE <1>31 DEF StartDriver, InitFailed
  <2>1. TypeOK'
    BY DEF TypeOK, MainLabel, LidarLabel
  <2>2. Handlers' /\ Stopping'
    BY DEF TypeOK, Handlers, Stopping
  <2>3. DriverOfMain' /\ DriverOfLidar'
    BY DEF TypeOK, Handlers, Stopping, DriverOfMain, DriverOfLidar
  <2> QED
    BY <2>1, <2>2, <2>3
<1>32. CASE WaitLidarCommConnect("lidar")
  <2> USE <1>32 DEF WaitLidarCommConnect, InitOk, InitFailed
  <2>1. TypeOK'
    BY DEF TypeOK, MainLabel, LidarLabel
  <2>2. Handlers' /\ Stopping'
    BY DEF TypeOK, Handlers, Stopping
  <2>3. DriverOfMain' /\ DriverOfLidar'
    BY DEF TypeOK, Handlers, Stopping, DriverOfMain, DriverOfLidar
  <2> QED
    BY <2>1, <2>2, <2>3
<1>33. CASE FinishThread
  <2> USE <1>33 DEF FinishThread
  <2>1. TypeOK'
    BY DEF TypeOK, MainLabel, LidarLabel
  <2>2. Handlers' /\ Stopping'
    BY DEF TypeOK, Handlers, Stopping
  <2>3. DriverOfMain' /\ DriverOfLidar'
    BY DEF TypeOK, Handlers, Stopping, DriverOfMain, DriverOfLidar
  <2> QED
    BY <2>1, <2>2, <2>3
<1>34. CASE UNCHANGED vars
  BY <1>34 DEF vars, TypeOK, Handlers, Stopping, DriverOfMain, DriverOfLidar
<1> QED
  BY <1>1, <1>2, <1>3, <1>4, <1>5, <1>6, <1>7, <1>8, <1>9, <1>10,
     <1>11, <1>12, <1>13, <1>14, <1>15, <1>16, <1>17, <1>18, <1>19,
     <1>20, <1>21, <1>22, <1>23, <1>24, <1>25, <1>26, <1>27, <1>28,
     <1>29, <1>30, <1>31, <1>32, <1>33, <1>34
  DEF Next, MainNext, LidarNext, Environment

LEMMA SafeIInv == SafeSpec => []IInv
  BY InitIInv, NextIInv, PTL DEF SafeSpec

-----------------------------------------------------------------------------

\* The variables keep their types, a match belongs to a publisher that main
\* holds, and only a thread that was started is joinable.
THEOREM TypeCorrect == Spec => []TypeOK
  BY SafeIInv, PTL DEF Spec, IInv

\* The lidar thread never polls a driver that is stopped, however its
\* reconnections end (ldlidar_component.cpp:284-305, :336).
THEOREM PolledOnlyWhenStartedHolds == Spec => []PolledOnlyWhenStarted
<1>1. IInv => PolledOnlyWhenStarted
  BY DEF IInv, DriverOfLidar, Started, PolledOnlyWhenStarted
<1> QED
  BY <1>1, SafeIInv, PTL DEF Spec

\* When main leaves its loops, the lidar thread is past its own, although
\* stopLidarThread never joins it (ldlidar_dds_server_publisher.cpp:57-121).
THEOREM LoopsEndAfterTheThreadHolds == Spec => []LoopsEndAfterTheThread
<1>1. IInv => LoopsEndAfterTheThread
  BY DEF IInv, Stopping, LoopsEndAfterTheThread
<1> QED
  BY <1>1, SafeIInv, PTL DEF Spec

\* A driver object is replaced only when its receive thread is gone, in initLidar
\* as in attemptReconnect (ldlidar_component.cpp:217, :295).
THEOREM ReplacedOnlyWhenStoppedHolds == Spec => ReplacedOnlyWhenStopped
<1>1. IInv =>
        \A t \in {"main", "lidar"} :
          pc[t] = "newDriver" => _lidar \in {"none", "idle"}
  BY DEF IInv, DriverOfMain, DriverOfLidar
<1>2. IInv =>
        [\A t \in {"main", "lidar"} :
           pc[t] = "newDriver" /\ pc'[t] = "startDriver"
             => _lidar \in {"none", "idle"}]_vars
  BY <1>1
<1> QED
  BY <1>2, SafeIInv, PTL DEF Spec, SafeSpec, ReplacedOnlyWhenStopped

=============================================================================
