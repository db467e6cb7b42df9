------------------------------ MODULE LidarServer ------------------------------
(***************************************************************************)
(* The process ldlidar_dds_server                                           *)
(* (ldlidar_dds_server/src/ldlidar_dds_server_publisher.cpp) together with  *)
(* the LdLidarComponent it is built on: the main thread, the lidar thread,  *)
(* the two signal handlers that compete for SIGINT and SIGTERM, the driver  *)
(* object both threads use, and the DDS publishers that the callback keeps  *)
(* alive.                                                                   *)
(*                                                                          *)
(* A thread is where its program counter is; every step between two reads   *)
(* or writes of shared state is one action.  Sleeps and clocks are left     *)
(* out: a timeout may fire whenever what it waits for has not happened.     *)
(* SIGINT and SIGTERM are one signal, they have the same handlers.          *)
(***************************************************************************)
EXTENDS Naturals

CONSTANTS
  Publisher,    \* the LidarMsgPublisher objects, made again and again
  NoPublisher   \* a null shared_ptr, an empty std::function

ASSUME NoPublisherAssumption == NoPublisher \notin Publisher

VARIABLES
  pc,                    \* where each of the two threads is
  device,                \* the sensor: absent, silent (plugged in), or sending
  _lidar,                \* the driver object: none, idle (made, or stopped),
                         \*   open, or stale (its port was unplugged)
  handler,               \* who handles a signal: default, main or component
  g_running,             \* cleared by main's handler
  g_stopSignalReceived,  \* set by the component's handler
  _threadStop,
  joinable,              \* _lidarThread.joinable()
  _sub_count,
  _dataCallback,         \* the publisher the callback writes to
  mypub,                 \* the publisher main holds
  matched,               \* mypub->getMatched() > 0
  writing,               \* the publisher the lidar thread is writing to
  first_scan,            \* static in publishLaserScan
  exit                   \* how the process ended, or "running"

signalVars == <<handler, g_running, g_stopSignalReceived>>
threadVars == <<_threadStop, joinable, _sub_count>>
publisherVars == <<_dataCallback, mypub, matched>>
scanVars == <<writing, first_scan>>
vars == <<pc, device, _lidar, signalVars, threadVars, publisherVars, scanVars,
          exit>>

MainLabel == {"signal", "construct", "init", "newDriver", "startDriver",
              "waitConnect", "checkRunning", "startThread", "setSubscriber",
              "ddsLoop", "createPublisher", "registerCallback", "waitMatched",
              "run", "stopLidarThread", "join", "destroy"}

LidarLabel == {"none", "begin", "loop", "poll", "publish", "callback",
               "stopDriver", "reconnect", "newDriver", "startDriver",
               "waitConnect", "stopping", "done"}

TypeOK ==
  /\ pc \in [{"main", "lidar"} -> MainLabel \cup LidarLabel]
  /\ pc["main"] \in MainLabel
  /\ pc["lidar"] \in LidarLabel
  /\ device \in {"absent", "silent", "sending"}
  /\ _lidar \in {"none", "idle", "open", "stale"}
  /\ handler \in {"default", "main", "component"}
  /\ g_running \in BOOLEAN
  /\ g_stopSignalReceived \in BOOLEAN
  /\ _threadStop \in BOOLEAN
  /\ joinable \in BOOLEAN
  /\ joinable => pc["lidar"] # "none"
  /\ _sub_count \in 0 .. 1
  /\ _dataCallback \in Publisher \cup {NoPublisher}
  /\ mypub \in Publisher \cup {NoPublisher}
  /\ matched \in BOOLEAN
  /\ matched => mypub # NoPublisher
  /\ writing \in Publisher \cup {NoPublisher}
  /\ first_scan \in BOOLEAN
  /\ exit \in {"running", "killed", "clean", "terminated"}

Init ==
  /\ pc = [main |-> "signal", lidar |-> "none"]
  /\ device \in {"absent", "silent", "sending"}
  /\ _lidar = "none"
  /\ handler = "default"
  /\ g_running = TRUE
  /\ g_stopSignalReceived = FALSE
  /\ _threadStop = FALSE
  /\ joinable = FALSE
  /\ _sub_count = 0
  /\ _dataCallback = NoPublisher
  /\ mypub = NoPublisher
  /\ matched = FALSE
  /\ writing = NoPublisher
  /\ first_scan = TRUE
  /\ exit = "running"

\* Thread t, of a process that has not ended, goes from one label to another.
At(t, l) == exit = "running" /\ pc[t] = l
Goto(t, l) == pc' = [pc EXCEPT ![t] = l]

-----------------------------------------------------------------------------
(* The world around the process: the sensor is plugged in, starts to send,    *)
(* falls silent, is unplugged; a signal arrives; DDS finds a subscriber.      *)

PlugIn ==
  /\ exit = "running"
  /\ device = "absent"
  /\ device' = "silent"
  /\ UNCHANGED <<pc, _lidar, signalVars, threadVars, publisherVars, scanVars,
                 exit>>

SpinUp ==
  /\ exit = "running"
  /\ device = "silent"
  /\ device' = "sending"
  /\ UNCHANGED <<pc, _lidar, signalVars, threadVars, publisherVars, scanVars,
                 exit>>

FallSilent ==
  /\ exit = "running"
  /\ device = "sending"
  /\ device' = "silent"
  /\ UNCHANGED <<pc, _lidar, signalVars, threadVars, publisherVars, scanVars,
                 exit>>

\* The descriptor of an open port does not come back with the device.
Unplug ==
  /\ exit = "running"
  /\ device # "absent"
  /\ device' = "absent"
  /\ _lidar' = IF _lidar = "open" THEN "stale" ELSE _lidar
  /\ UNCHANGED <<pc, signalVars, threadVars, publisherVars, scanVars, exit>>

Signal ==
  /\ exit = "running"
  /\ exit' = IF handler = "default" THEN "killed" ELSE exit
  /\ g_running' = (g_running /\ handler # "main")
  /\ g_stopSignalReceived' =
       (g_stopSignalReceived \/ handler = "component")
  /\ UNCHANGED <<pc, device, _lidar, handler, threadVars, publisherVars,
                 scanVars>>

\* on_publication_matched stores the total count, so a publisher that was
\* matched once stays matched.
on_publication_matched ==
  /\ exit = "running"
  /\ mypub # NoPublisher
  /\ ~matched
  /\ matched' = TRUE
  /\ UNCHANGED <<pc, device, _lidar, signalVars, threadVars, _dataCallback,
                 mypub, scanVars, exit>>

Environment == PlugIn \/ SpinUp \/ FallSilent \/ Unplug \/ Signal
                 \/ on_publication_matched

-----------------------------------------------------------------------------
(* Making a driver and initLidarComm: thread t is main in initLidar and the   *)
(* lidar thread in attemptReconnect.                                          *)

InitOk == [main |-> "checkRunning", lidar |-> "loop"]

InitFailed == [main |-> "init", lidar |-> "reconnect"]

\* The old driver object is destroyed; its destructor stops nothing.
NewDriver(t) ==
  /\ At(t, "newDriver")
  /\ _lidar' = "idle"
  /\ Goto(t, "startDriver")
  /\ UNCHANGED <<device, signalVars, threadVars, publisherVars, scanVars, exit>>

StartDriver(t) ==
  /\ At(t, "startDriver")
  /\ IF device = "absent"
       THEN Goto(t, InitFailed[t]) /\ UNCHANGED _lidar
       ELSE Goto(t, "waitConnect") /\ _lidar' = "open"
  /\ UNCHANGED <<device, signalVars, threadVars, publisherVars, scanVars, exit>>

\* Wrong on purpose: a driver that got no answer stays open.
WaitLidarCommConnectKeepsPort(t) ==
  /\ At(t, "waitConnect")
  /\ \/ /\ _lidar = "open" /\ device # "absent"
        /\ Goto(t, InitOk[t])
     \/ /\ _lidar = "stale" \/ device # "sending"
        /\ Goto(t, InitFailed[t])
  /\ UNCHANGED <<device, _lidar, signalVars, threadVars, publisherVars,
                 scanVars, exit>>

\* A packet comes within three seconds, or the driver is stopped again.
WaitLidarCommConnect(t) ==
  /\ At(t, "waitConnect")
  /\ \/ /\ _lidar = "open" /\ device # "absent"
        /\ Goto(t, InitOk[t])
        /\ UNCHANGED _lidar
     \/ /\ _lidar = "stale" \/ device # "sending"
        /\ Goto(t, InitFailed[t])
        /\ _lidar' = "idle"
  /\ UNCHANGED <<device, signalVars, threadVars, publisherVars, scanVars, exit>>

-----------------------------------------------------------------------------
(* The main thread.                                                           *)

RegisterSignalHandlers ==
  /\ At("main", "signal")
  /\ handler' = "main"
  /\ Goto("main", "construct")
  /\ UNCHANGED <<device, _lidar, g_running, g_stopSignalReceived, threadVars,
                 publisherVars, scanVars, exit>>

\* The constructor of the component replaces main's handlers by its own.
LdLidarComponent ==
  /\ At("main", "construct")
  /\ handler' = "component"
  /\ Goto("main", "init")
  /\ UNCHANGED <<device, _lidar, g_running, g_stopSignalReceived, threadVars,
                 publisherVars, scanVars, exit>>

\* Wrong on purpose: the first failure of initLidar ends the program.
RetryInitNever ==
  /\ At("main", "init")
  /\ Goto("main", CASE ~g_running -> "checkRunning"
                    [] g_running /\ _lidar = "none" -> "newDriver"
                    [] OTHER -> "destroy")
  /\ UNCHANGED <<device, _lidar, signalVars, threadVars, publisherVars,
                 scanVars, exit>>

\* Head of the loop that repeats initLidar.
RetryInit ==
  /\ At("main", "init")
  /\ Goto("main", IF g_running THEN "newDriver" ELSE "checkRunning")
  /\ UNCHANGED <<device, _lidar, signalVars, threadVars, publisherVars,
                 scanVars, exit>>

CheckRunning ==
  /\ At("main", "checkRunning")
  /\ Goto("main", IF g_running THEN "startThread" ELSE "destroy")
  /\ UNCHANGED <<device, _lidar, signalVars, threadVars, publisherVars,
                 scanVars, exit>>

startLidarThread ==
  /\ At("main", "startThread")
  /\ joinable' = TRUE
  /\ pc' = [main |-> "setSubscriber", lidar |-> "begin"]
  /\ UNCHANGED <<device, _lidar, signalVars, _threadStop, _sub_count,
                 publisherVars, scanVars, exit>>

setSubscriberCount ==
  /\ At("main", "setSubscriber")
  /\ _sub_count' = 1
  /\ Goto("main", "ddsLoop")
  /\ UNCHANGED <<device, _lidar, signalVars, _threadStop, joinable,
                 publisherVars, scanVars, exit>>

\* Wrong on purpose: the loops do not ask whether the lidar thread runs.
KeepRunningWithoutThread == g_running

\* The condition of all three loops.
KeepRunning == g_running /\ ~_threadStop

DdsLoop ==
  /\ At("main", "ddsLoop")
  /\ Goto("main", IF KeepRunning THEN "createPublisher" ELSE "stopLidarThread")
  /\ UNCHANGED <<device, _lidar, signalVars, threadVars, publisherVars,
                 scanVars, exit>>

\* A publisher whose init fails is destroyed before the next is made.
CreatePublisher ==
  /\ At("main", "createPublisher")
  /\ \/ /\ \E p \in Publisher \ {_dataCallback, writing} : mypub' = p
        /\ Goto("main", "registerCallback")
     \/ /\ Goto("main", "ddsLoop")
        /\ UNCHANGED mypub
  /\ UNCHANGED <<device, _lidar, signalVars, threadVars, _dataCallback, matched,
                 scanVars, exit>>

\* The callback that was registered before is destroyed here, and with it the
\* last reference to its publisher, whatever the lidar thread is doing.
registerCallback ==
  /\ At("main", "registerCallback")
  /\ _dataCallback' = mypub
  /\ Goto("main", "waitMatched")
  /\ UNCHANGED <<device, _lidar, signalVars, threadVars, mypub, matched,
                 scanVars, exit>>

\* mypub goes out of scope at the end of an iteration.
DropPublisher == mypub' = NoPublisher /\ matched' = FALSE

WaitMatched ==
  /\ At("main", "waitMatched")
  /\ \/ /\ KeepRunning /\ matched
        /\ Goto("main", "run")
        /\ UNCHANGED <<mypub, matched>>
     \/ /\ ~KeepRunning \/ ~matched
        /\ Goto("main", "ddsLoop")
        /\ DropPublisher
  /\ UNCHANGED <<device, _lidar, signalVars, threadVars, _dataCallback,
                 scanVars, exit>>

RunConnected ==
  /\ At("main", "run")
  /\ ~KeepRunning
  /\ Goto("main", "ddsLoop")
  /\ DropPublisher
  /\ UNCHANGED <<device, _lidar, signalVars, threadVars, _dataCallback,
                 scanVars, exit>>

\* The thread is told to stop and joined only if it has not stopped by itself.
stopLidarThread ==
  /\ \/ /\ At("main", "stopLidarThread")
        /\ Goto("main", IF _threadStop THEN "destroy" ELSE "join")
        /\ _threadStop' = TRUE
        /\ UNCHANGED joinable
     \/ /\ At("main", "join") /\ pc["lidar"] = "done"
        /\ Goto("main", "destroy")
        /\ joinable' = FALSE
        /\ UNCHANGED _threadStop
  /\ UNCHANGED <<device, _lidar, signalVars, _sub_count, publisherVars,
                 scanVars, exit>>

\* The component is destroyed, and its std::thread with it: one that is still
\* joinable calls std::terminate.
DestroyComponent ==
  /\ At("main", "destroy")
  /\ exit' = IF joinable THEN "terminated" ELSE "clean"
  /\ UNCHANGED <<pc, device, _lidar, signalVars, threadVars, publisherVars,
                 scanVars>>

MainNext ==
  \/ RegisterSignalHandlers \/ LdLidarComponent \/ RetryInit
  \/ NewDriver("main") \/ StartDriver("main") \/ WaitLidarCommConnect("main")
  \/ CheckRunning \/ startLidarThread \/ setSubscriberCount
  \/ DdsLoop \/ CreatePublisher \/ registerCallback \/ WaitMatched
  \/ RunConnected \/ stopLidarThread \/ DestroyComponent

-----------------------------------------------------------------------------
(* The lidar thread: lidarThreadFunc and what it calls.                       *)

BeginThread ==
  /\ At("lidar", "begin")
  /\ _threadStop' = FALSE
  /\ Goto("lidar", "loop")
  /\ UNCHANGED <<device, _lidar, signalVars, joinable, _sub_count,
                 publisherVars, scanVars, exit>>

\* Wrong on purpose: the stop flag is tested before the signal is looked at.
InterruptionCheckSwapped ==
  /\ At("lidar", "loop")
  /\ _threadStop' = (_threadStop \/ g_stopSignalReceived)
  /\ Goto("lidar", IF _threadStop THEN "stopping"
                   ELSE IF _sub_count > 0 THEN "poll" ELSE "loop")
  /\ UNCHANGED <<device, _lidar, signalVars, joinable, _sub_count,
                 publisherVars, scanVars, exit>>

\* The head of the loop.  Without a subscriber the thread only sleeps.
InterruptionCheck ==
  /\ At("lidar", "loop")
  /\ _threadStop' = (_threadStop \/ g_stopSignalReceived)
  /\ Goto("lidar", IF _threadStop' THEN "stopping"
                   ELSE IF _sub_count > 0 THEN "poll" ELSE "loop")
  /\ UNCHANGED <<device, _lidar, signalVars, joinable, _sub_count,
                 publisherVars, scanVars, exit>>

\* Wrong on purpose: a timeout is ignored, as DATA_WAIT is.
PollIgnoresTimeout ==
  /\ At("lidar", "poll")
  /\ \/ Goto("lidar", "publish")
     \/ Goto("lidar", "loop")
  /\ UNCHANGED <<device, _lidar, signalVars, threadVars, publisherVars,
                 scanVars, exit>>

\* GetLaserScanData: NORMAL, DATA_TIME_OUT or DATA_WAIT.  A driver whose port
\* is gone may still hold a scan; one whose port is fine may yield none for a
\* second.
PollLidar ==
  /\ At("lidar", "poll")
  /\ \/ Goto("lidar", "publish")
     \/ Goto("lidar", "stopDriver")
     \/ Goto("lidar", "loop")
  /\ UNCHANGED <<device, _lidar, signalVars, threadVars, publisherVars,
                 scanVars, exit>>

\* The first scan only sets the clock, and one that reports no speed is
\* dropped.
publishLaserScan ==
  /\ At("lidar", "publish")
  /\ first_scan' = FALSE
  /\ \/ /\ ~first_scan
        /\ _dataCallback # NoPublisher
        /\ writing' = _dataCallback
        /\ Goto("lidar", "callback")
     \/ /\ Goto("lidar", "loop")
        /\ UNCHANGED writing
  /\ UNCHANGED <<device, _lidar, signalVars, threadVars, publisherVars, exit>>

ReturnFromCallback ==
  /\ At("lidar", "callback")
  /\ writing' = NoPublisher
  /\ Goto("lidar", "loop")
  /\ UNCHANGED <<device, _lidar, signalVars, threadVars, publisherVars,
                 first_scan, exit>>

\* attemptReconnect closes the port first ...
StopDriver ==
  /\ At("lidar", "stopDriver")
  /\ _lidar' = "idle"
  /\ Goto("lidar", "reconnect")
  /\ UNCHANGED <<device, signalVars, threadVars, publisherVars, scanVars, exit>>

\* ... and then goes round its loop, which looks at nothing but _threadStop.
attemptReconnect ==
  /\ At("lidar", "reconnect")
  /\ Goto("lidar", IF _threadStop THEN "loop" ELSE "newDriver")
  /\ UNCHANGED <<device, _lidar, signalVars, threadVars, publisherVars,
                 scanVars, exit>>

FinishThread ==
  /\ At("lidar", "stopping")
  /\ Goto("lidar", "done")
  /\ UNCHANGED <<device, _lidar, signalVars, threadVars, publisherVars,
                 scanVars, exit>>

LidarNext ==
  \/ BeginThread \/ InterruptionCheck \/ PollLidar \/ publishLaserScan
  \/ ReturnFromCallback \/ StopDriver \/ attemptReconnect
  \/ NewDriver("lidar") \/ StartDriver("lidar") \/ WaitLidarCommConnect("lidar")
  \/ FinishThread

-----------------------------------------------------------------------------

Next == MainNext \/ LidarNext \/ Environment

SafeSpec == Init /\ [][Next]_vars

Scanned == PollLidar /\ _lidar = "open" /\ device = "sending"
             /\ pc'["lidar"] = "publish"
TimedOut == PollLidar /\ _lidar = "stale" /\ pc'["lidar"] = "stopDriver"
Published == publishLaserScan /\ pc'["lidar"] = "callback"

\* Both threads go on.  A poll that is repeated long enough finds a scan if the
\* sensor is sending, and times out if the port is gone, and not every scan
\* lacks a speed.  Nothing makes a device appear, a signal arrive or a
\* subscriber match.
Fairness ==
  /\ WF_vars(MainNext)
  /\ WF_vars(LidarNext)
  /\ SF_vars(Scanned)
  /\ SF_vars(TimedOut)
  /\ SF_vars(Published)

Spec == SafeSpec /\ Fairness

-----------------------------------------------------------------------------

StopRequested == ~g_running \/ g_stopSignalReceived
Ended == exit # "running"

\* The destructor of LDLidarDriver frees the packet parser while the receive
\* thread calls into it, unless the driver was stopped.  A driver is replaced
\* only when it was: initLidarComm stops the one that got no answer, and
\* attemptReconnect the one that timed out (ldlidar_component.cpp:252, :287).
ReplacedOnlyWhenStopped ==
  [][\A t \in {"main", "lidar"} :
       pc[t] = "newDriver" /\ pc'[t] = "startDriver"
         => _lidar \in {"none", "idle"}]_vars

\* A poll finds the driver started: neither a failed reconnection nor a failed
\* start gets as far as GetLaserScanData, whose STOP the lidar thread would
\* repeat for ever (ldlidar_component.cpp:336-350).
PolledOnlyWhenStarted ==
  pc["lidar"] = "poll" => _lidar \in {"open", "stale"}

\* When main leaves its loops the lidar thread has left its own: it will not
\* use the driver, nor the callback that is destroyed with the component.
\* Nobody joins it, so this rests on who sets _threadStop and where
\* (ldlidar_component.cpp:320-330 against main, :57, :94, :117).
LoopsEndAfterTheThread ==
  pc["main"] \in {"stopLidarThread", "destroy"} =>
    pc["lidar"] \in {"none", "stopping", "done"}

\* If the sensor is there in the end and no signal comes, the lidar thread gets
\* started, however often initLidar failed before.
ServiceStarts ==
  <>[](device = "sending") /\ [](~StopRequested /\ exit # "killed")
    => <>(pc["lidar"] # "none")

\* If the sensor is there in the end and nobody stops the process, scans are
\* published again and again: after an unplugged port, a sensor that fell
\* silent, and however often main replaces the publisher.
PublishingResumes ==
  <>[](device = "sending" /\ _dataCallback # NoPublisher /\ ~StopRequested)
    => []<>(pc["lidar"] = "callback")

\* If the sensor is there in the end, a signal ends the process.
SignalEndsService ==
  <>[](device = "sending") => (StopRequested ~> Ended)

-----------------------------------------------------------------------------
(* What the source says of the program, and what it does not do.              *)

\* "Sleep in small chunks so Ctrl+C can stop promptly"
\* (ldlidar_dds_server_publisher.cpp:36): while initLidar is retried, a signal
\* ends the process.
SignalEndsRetry ==
  StopRequested /\ pc["lidar"] = "none" ~> pc["lidar"] # "none" \/ Ended

\* "Register signal handler for graceful shutdown" (ldlidar_component.cpp:38):
\* no stop of the process ends in std::terminate.
ShutdownIsGraceful == exit # "terminated"

\* "the shared_ptr stays alive in the callback"
\* (ldlidar_dds_server_publisher.cpp:70): the publisher the lidar thread is
\* writing to is referenced by main or by the registered callback.
PublisherOutlivesWrite ==
  exit = "running" /\ writing # NoPublisher =>
    writing \in {mypub, _dataCallback}

=============================================================================
