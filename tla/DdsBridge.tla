------------------------------ MODULE DdsBridge ------------------------------
(***************************************************************************)
(* The way of a scan from the DDS server to ROS: LidarMsgPublisher and       *)
(* LidarMsgSubscriber (ldlidar_fastdds/src), the loop of the server that     *)
(* makes publishers until a subscriber is found, and the ROS node            *)
(* (ldlidar_ros_bridge/src/ldlidar_ros_bridge.cpp).                          *)
(*                                                                          *)
(* Fast DDS is external: it refuses to delete an entity that contains        *)
(* others, tells a writer when a reader is matched, delivers the samples of  *)
(* one writer in order or drops them for a newer one (KEEP_LAST 1), calls    *)
(* the listener of a reader in one thread, and waits for that call before it *)
(* deletes the reader.                                                       *)
(***************************************************************************)
EXTENDS Integers, FiniteSets, Sequences

CONSTANTS
  MaxSample,  \* bound: scans the lidar thread publishes
  Period      \* the watchdog's period and limit, three seconds

ASSUME MaxSampleAssumption == MaxSample \in Nat
ASSUME PeriodAssumption == Period \in Nat \ {0}

Sample == 1..MaxSample

\* Wrong on purpose: the reader is made before its topic.
InitOrderEndpointEarly == <<"participant", "group", "endpoint", "topic">>

\* What init makes, in this order; "group" is the Publisher or the Subscriber,
\* "endpoint" the writer or the reader.
InitOrder == <<"participant", "group", "topic", "endpoint">>
Entity == {"participant", "group", "topic", "endpoint"}

\* Publisher objects: the one main makes, the one in the callback, and the one
\* that was in it before and is being destroyed.
Pub == {"next", "pub", "old"}

VARIABLES
  main,        \* where main of the server is
  bridge,      \* where main of the bridge is
  listener,    \* where the reader's listener is
  has,         \* the DDS entities of each object
  todo,        \* what the two destructors still have to delete
  linked,      \* which publishers DDS has matched with the reader
  matched,     \* getMatched() > 0
  wire,        \* samples under way, by writer
  written,     \* the last scan published
  st,          \* the sample the listener has taken, 0 if it is not valid
  callback_,   \* of the listener: empty, half assigned, or set
  rosPublisher,\* the node's publisher_ exists
  ros,         \* the last scan published on ROS
  disordered,  \* history: a publisher was replaced that a subscriber had found
  age,         \* seconds since last_msg_time_
  timer,       \* seconds until the watchdog runs
  warned       \* history: it has warned since the last message

ddsVars == <<linked, matched, wire>>
timeVars == <<age, timer, warned>>
listenerVars == <<listener, st, ros>>
serverVars == <<main, written, disordered>>
bridgeVars == <<bridge, callback_, rosPublisher>>
vars == <<has, todo, ddsVars, timeVars, listenerVars, serverVars, bridgeVars>>

Crashed == listener = "crashed"
HasReader == "endpoint" \in has["sub"]

TypeOK ==
  /\ main \in {"init", "undo", "register", "delete", "wait", "run"}
  /\ bridge \in {"ended", "init", "stamp", "callback", "invoker", "timer",
                 "spin", "undo", "members"}
  /\ listener \in {"idle", "test", "call", "publish", "crashed"}
  /\ has \in [Pub \cup {"sub"} -> SUBSET Entity]
  /\ \A o \in Pub \cup {"sub"} : "endpoint" \in has[o] => has[o] = Entity
  /\ \A s \in {"server", "bridge"} : todo[s] \in Seq(Entity)
  /\ linked \in [Pub -> BOOLEAN]
  /\ matched \in [Pub -> BOOLEAN]
  /\ \A p \in Pub : linked[p] => HasReader /\ "endpoint" \in has[p]
  /\ wire \in [Pub -> SUBSET Sample]
  /\ written \in 0..MaxSample /\ st \in 0..MaxSample /\ ros \in 0..MaxSample
  /\ callback_ \in {"empty", "half", "set"}
  /\ rosPublisher \in BOOLEAN
  /\ disordered \in BOOLEAN
  /\ age \in 0..(2 * Period + 1) /\ timer \in 0..Period /\ warned \in BOOLEAN

Init ==
  /\ main = "init" /\ bridge = "ended" /\ listener = "idle"
  /\ has = [o \in Pub \cup {"sub"} |-> {}]
  /\ todo = [s \in {"server", "bridge"} |-> <<>>]
  /\ linked = [p \in Pub |-> FALSE] /\ matched = [p \in Pub |-> FALSE]
  /\ wire = [p \in Pub |-> {}]
  /\ written = 0 /\ st = 0 /\ ros = 0
  /\ callback_ = "empty" /\ rosPublisher = FALSE /\ disordered = FALSE
  /\ age = 0 /\ timer = Period /\ warned = FALSE

-----------------------------------------------------------------------------
(* Entities, for both classes: init and the destructor.                      *)

\* The next step of init makes an entity; any of them can fail.
Created(o) == has' = [has EXCEPT ![o] = @ \cup {InitOrder[Cardinality(@) + 1]}]
AllCreated(o) == has'[o] = Entity

\* What DDS accepts to delete.
Deletable(o, e) ==
  CASE e = "participant"          -> has[o] = {e}
    [] e \in {"group", "topic"}   -> "endpoint" \notin has[o]
    [] OTHER                      -> TRUE

\* A deleted writer or reader has no link, and its samples are gone.
Unlink(P) ==
  /\ linked' = [p \in Pub |-> linked[p] /\ p \notin P]
  /\ wire' = [p \in Pub |-> IF p \in P THEN {} ELSE wire[p]]
  /\ UNCHANGED matched

\* Wrong on purpose: the Publisher is deleted before its writer.
DestructorOrderGroupFirst(o) ==
  IF o = "sub" THEN <<"endpoint", "topic", "group", "participant">>
               ELSE <<"group", "endpoint", "topic", "participant">>

\* What the destructor of o goes through.
DestructorOrder(o) ==
  IF o = "sub" THEN <<"endpoint", "topic", "group", "participant">>
               ELSE <<"endpoint", "group", "topic", "participant">>

\* The next entity in the destructor of o: it is deleted, unless there is none (a
\* null pointer) or DDS refuses.
DeleteNext(side, o) ==
  LET e == Head(todo[side])
  IN  /\ todo' = [todo EXCEPT ![side] = Tail(@)]
      /\ has' = [has EXCEPT ![o] = IF Deletable(o, e) THEN @ \ {e} ELSE @]

-----------------------------------------------------------------------------
(* The server: main makes publishers, the lidar thread writes scans.         *)

ServerGoto(l) == main' = l /\ ~Crashed

InitPublisher ==
  /\ main = "init"
  /\ \/ /\ Created("next")
        /\ ServerGoto(IF AllCreated("next") THEN "register" ELSE "init")
        /\ UNCHANGED todo
     \/ /\ ServerGoto("undo")
        /\ todo' = [todo EXCEPT !["server"] = DestructorOrder("next")]
        /\ UNCHANGED has
  /\ UNCHANGED <<ddsVars, timeVars, listenerVars, written, disordered,
                 bridgeVars>>

\* init has failed: the object is destroyed and another one made.
UndoPublisher ==
  /\ main = "undo"
  /\ IF todo["server"] = <<>>
     THEN ServerGoto("init") /\ UNCHANGED <<has, todo>>
     ELSE ServerGoto("undo") /\ DeleteNext("server", "next")
  /\ UNCHANGED <<ddsVars, timeVars, listenerVars, written, disordered,
                 bridgeVars>>

\* registerCallback: the callback gets the new publisher and lets go of the one
\* it had, whose destructor runs.
Moved(f, none) == [f EXCEPT !["old"] = f["pub"], !["pub"] = f["next"],
                            !["next"] = none]

RegisterCallback ==
  /\ main = "register"
  /\ ServerGoto("delete")
  /\ has' = Moved(has, {})
  /\ linked' = Moved(linked, FALSE)
  /\ matched' = Moved(matched, FALSE)
  /\ wire' = Moved(wire, {})
  /\ disordered' = (disordered \/ linked["pub"])
  /\ todo' = [todo EXCEPT !["server"] =
                IF has["pub"] = {} THEN <<>> ELSE DestructorOrder("pub")]
  /\ UNCHANGED <<timeVars, listenerVars, written, bridgeVars>>

DestroyPublisher ==
  /\ main = "delete"
  /\ IF todo["server"] = <<>>
     THEN ServerGoto("wait") /\ UNCHANGED <<has, todo, ddsVars>>
     ELSE /\ ServerGoto("delete")
          /\ DeleteNext("server", "old")
          /\ IF Head(todo["server"]) = "endpoint" THEN Unlink({"old"})
                                                  ELSE UNCHANGED ddsVars
  /\ UNCHANGED <<timeVars, listenerVars, written, disordered, bridgeVars>>

\* A subscriber is there, or ten seconds are over.  A match that comes after
\* the last look is not seen.
WaitMatched ==
  /\ main = "wait"
  /\ ServerGoto(IF matched["pub"] THEN "run" ELSE "init")
  /\ UNCHANGED <<has, todo, ddsVars, timeVars, listenerVars, written,
                 disordered, bridgeVars>>

\* The lidar thread publishes a scan; without a subscriber it goes nowhere.
pushlishMessageData ==
  /\ ~Crashed
  /\ "endpoint" \in has["pub"]
  /\ written < MaxSample
  /\ written' = written + 1
  /\ wire' = IF linked["pub"] THEN [wire EXCEPT !["pub"] = @ \cup {written'}]
                              ELSE wire
  /\ UNCHANGED <<has, todo, linked, matched, timeVars, listenerVars, main,
                 disordered, bridgeVars>>

MainSteps == InitPublisher \/ UndoPublisher \/ RegisterCallback
             \/ DestroyPublisher \/ WaitMatched

-----------------------------------------------------------------------------
(* DDS and the listener of the reader.                                       *)

\* Wrong on purpose: only a change by -1 is stored.
MatchNotStored(p) == UNCHANGED matched

\* on_publication_matched stores the total count, which does not go down again.
MatchStored(p) == matched' = [matched EXCEPT ![p] = TRUE]

on_publication_matched ==
  /\ ~Crashed
  /\ HasReader
  /\ \E p \in Pub :
       /\ "endpoint" \in has[p]
       /\ ~linked[p]
       /\ linked' = [linked EXCEPT ![p] = TRUE]
       /\ MatchStored(p)
  /\ UNCHANGED <<has, todo, wire, timeVars, listenerVars, serverVars,
                 bridgeVars>>

\* Wrong on purpose: a sample is read and stays.
ReadSample ==
  /\ listener = "idle"
  /\ listener' = "test"
  /\ \E p \in Pub : \E n \in wire[p] : st' = n
  /\ UNCHANGED <<has, todo, ddsVars, timeVars, ros, serverVars, bridgeVars>>

\* A sample arrives, perhaps before older ones of its writer, which are then
\* dropped, and on_data_available takes it.
TakeSample ==
  /\ listener = "idle"
  /\ listener' = "test"
  /\ \E p \in Pub : \E n \in wire[p] :
       /\ st' = n
       /\ wire' = [wire EXCEPT ![p] = {m \in @ : m > n}]
  /\ UNCHANGED <<has, todo, linked, matched, timeVars, ros, serverVars,
                 bridgeVars>>

\* The listener is told that a writer has gone; there is no valid data.
TakeInvalid ==
  /\ listener = "idle"
  /\ HasReader
  /\ listener' = "test"
  /\ st' = 0
  /\ UNCHANGED <<has, todo, ddsVars, timeVars, ros, serverVars, bridgeVars>>

\* info.valid_data, and whether a callback is stored.
TestCallback ==
  /\ listener = "test"
  /\ IF st # 0 /\ callback_ # "empty"
     THEN listener' = "call" /\ UNCHANGED st
     ELSE listener' = "idle" /\ st' = 0
  /\ UNCHANGED <<has, todo, ddsVars, timeVars, ros, serverVars, bridgeVars>>

\* The callback notes the time.  A std::function that is half assigned is not
\* empty, but cannot be called yet.
CallCallback ==
  /\ listener = "call"
  /\ IF callback_ = "half"
     THEN listener' = "crashed" /\ UNCHANGED timeVars
     ELSE /\ listener' = "publish"
          /\ age' = 0
          /\ warned' = FALSE
          /\ UNCHANGED timer
  /\ UNCHANGED <<has, todo, ddsVars, st, ros, serverVars, bridgeVars>>

\* ... and publishes the scan on ROS.
PublishRos ==
  /\ listener = "publish"
  /\ listener' = "idle"
  /\ ros' = st
  /\ st' = 0
  /\ UNCHANGED <<has, todo, ddsVars, timeVars, serverVars, bridgeVars>>

ListenerSteps == TestCallback \/ CallCallback \/ PublishRos

-----------------------------------------------------------------------------
(* The bridge: the constructor of the node, the watchdog, the destructor.    *)

BridgeAt(l) == bridge = l /\ ~Crashed

CreateRosPublisher ==
  /\ BridgeAt("ended")
  /\ bridge' = "init"
  /\ rosPublisher' = TRUE
  /\ callback_' = "empty"
  /\ UNCHANGED <<has, todo, ddsVars, timeVars, listenerVars, serverVars>>

\* An init that fails throws: the members that exist are destroyed.
InitSubscriber ==
  /\ BridgeAt("init")
  /\ \/ /\ Created("sub")
        /\ bridge' = IF AllCreated("sub") THEN "stamp" ELSE "init"
        /\ UNCHANGED todo
     \/ /\ bridge' = "undo"
        /\ todo' = [todo EXCEPT !["bridge"] = DestructorOrder("sub")]
        /\ UNCHANGED has
  /\ UNCHANGED <<ddsVars, timeVars, listenerVars, serverVars, callback_,
                 rosPublisher>>

StampStart ==
  /\ BridgeAt("stamp")
  /\ bridge' = "callback"
  /\ age' = 0
  /\ warned' = FALSE
  /\ UNCHANGED <<has, todo, ddsVars, timer, listenerVars, serverVars, callback_,
                 rosPublisher>>

\* Wrong on purpose: the callback goes into a copy of the listener.
SetCallbackOfCopy ==
  /\ BridgeAt("callback")
  /\ bridge' = "timer"
  /\ UNCHANGED <<has, todo, ddsVars, timeVars, listenerVars, serverVars,
                 callback_, rosPublisher>>

\* The assignment of a std::function is not atomic, and the listener may look
\* at it meanwhile.
set_callback ==
  /\ \/ BridgeAt("callback") /\ bridge' = "invoker" /\ callback_' = "half"
     \/ BridgeAt("invoker") /\ bridge' = "timer" /\ callback_' = "set"
  /\ UNCHANGED <<has, todo, ddsVars, timeVars, listenerVars, serverVars,
                 rosPublisher>>

CreateTimer ==
  /\ BridgeAt("timer")
  /\ bridge' = "spin"
  /\ timer' = Period
  /\ UNCHANGED <<has, todo, ddsVars, age, warned, listenerVars, serverVars,
                 callback_, rosPublisher>>

\* A second passes; the timer runs when it is due.
Second ==
  /\ BridgeAt("spin")
  /\ timer > 0
  /\ timer' = timer - 1
  /\ age' = IF age > 2 * Period THEN age ELSE age + 1
  /\ UNCHANGED <<has, todo, ddsVars, warned, listenerVars, serverVars,
                 bridgeVars>>

\* Wrong on purpose: the limit is twice the period.
TooOldTwice == {age > 2 * Period}

\* elapsed > 3.0: three seconds, counted in whole ones, may be a bit more or a
\* bit less.
TooOld == IF age = Period THEN BOOLEAN ELSE {age > Period}

Watchdog ==
  /\ BridgeAt("spin")
  /\ timer = 0
  /\ timer' = Period
  /\ \E old \in TooOld : warned' = (warned \/ old)
  /\ UNCHANGED <<has, todo, ddsVars, age, listenerVars, serverVars, bridgeVars>>

\* spin returns and the node is destroyed, its members in reverse order: the
\* timer, the subscriber, then the publisher.
EndSpin ==
  /\ BridgeAt("spin")
  /\ bridge' = "undo"
  /\ todo' = [todo EXCEPT !["bridge"] = DestructorOrder("sub")]
  /\ timer' = Period /\ age' = 0 /\ warned' = FALSE  \* nobody looks any more
  /\ UNCHANGED <<has, ddsVars, listenerVars, serverVars, callback_,
                 rosPublisher>>

\* The reader is deleted when its listener is not running.
DestroySubscriber ==
  /\ BridgeAt("undo")
  /\ IF todo["bridge"] = <<>>
     THEN bridge' = "members" /\ UNCHANGED <<has, todo, ddsVars>>
     ELSE /\ bridge' = "undo"
          /\ DeleteNext("bridge", "sub")
          /\ IF Head(todo["bridge"]) = "endpoint"
             THEN listener = "idle" /\ Unlink(Pub)
             ELSE UNCHANGED ddsVars
  /\ UNCHANGED <<timeVars, listenerVars, serverVars, callback_, rosPublisher>>

\* Wrong on purpose: the publisher was declared after the subscriber.
DestroyRosPublisherFirst ==
  /\ \/ BridgeAt("undo") /\ rosPublisher
     \/ BridgeAt("members")
  /\ bridge' = IF bridge = "members" THEN "ended" ELSE bridge
  /\ rosPublisher' = FALSE
  /\ UNCHANGED <<has, todo, ddsVars, timeVars, listenerVars, serverVars,
                 callback_>>

DestroyRosPublisher ==
  /\ BridgeAt("members")
  /\ bridge' = "ended"
  /\ rosPublisher' = FALSE
  /\ UNCHANGED <<has, todo, ddsVars, timeVars, listenerVars, serverVars,
                 callback_>>

ConstructorSteps == CreateRosPublisher \/ InitSubscriber \/ StampStart
                    \/ set_callback \/ CreateTimer
DestructorSteps == DestroySubscriber \/ DestroyRosPublisher

BridgeNext ==
  ConstructorSteps \/ Second \/ Watchdog \/ EndSpin \/ DestructorSteps

-----------------------------------------------------------------------------

Next == \/ MainSteps \/ pushlishMessageData \/ on_publication_matched
        \/ TakeSample \/ TakeInvalid \/ ListenerSteps \/ BridgeNext

SafeSpec == Init /\ [][Next]_vars

\* main of the server, the listener and a constructor or destructor that began
\* go on; a publisher that is tried again and again is made one day, and one day
\* it is matched within its ten seconds.
Fairness ==
  /\ WF_vars(MainSteps)
  /\ \A e \in Entity :
       SF_vars(InitPublisher /\ e \in has'["next"] \ has["next"])
  /\ SF_vars(/\ on_publication_matched
             /\ main \in {"wait", "run"} /\ linked'["pub"])
  /\ WF_vars(ListenerSteps)
  /\ SF_vars(TakeSample)

Spec == SafeSpec /\ Fairness

-----------------------------------------------------------------------------

\* No DDS entity outlives its owner, whichever step of init failed: the two
\* destructors delete in an order DDS accepts (LidarMsgPublisher.cxx:46,
\* LidarMsgSubscriber.cxx:43).
NoEntityLeft ==
  /\ bridge \in {"members", "ended"} => has["sub"] = {}
  /\ main # "delete" => has["old"] = {}
  /\ main \in {"wait", "run"} => has["next"] = {}
  /\ main = "wait" => todo["server"] = <<>>

\* The node's publisher exists while a callback uses it, since publisher_ is
\* declared before subscriber_ (ldlidar_ros_bridge.cpp:83-84) and the reader is
\* deleted when its listener is idle.
RosPublisherAlive == listener \in {"call", "publish"} => rosPublisher

\* Scans appear on ROS in the order in which they were made - if
\* no publisher was replaced that a subscriber had just found, since then two
\* writers are heard at once (ldlidar_dds_server_publisher.cpp:96-107).
ScansInOrder == [][ros' # ros => ros' > ros \/ disordered]_vars

\* Silence of more than twice three seconds has been reported
\* (ldlidar_ros_bridge.cpp:67); less can fall between two looks.
SilenceReported == bridge = "spin" /\ age > 2 * Period => warned

\* A bridge that stays is found: the server is connected from some time on, also
\* when a match came too late for one publisher.
ServerConnects == <>[](bridge = "spin" /\ ~Crashed) => <>[](linked["pub"])

\* A scan that a connected server sends to a bridge with a callback is published
\* on ROS, or a newer one is, unless the link ends.
ScanForwarded ==
  \A n \in Sample :
    main = "run" /\ bridge = "spin" /\ n \in wire["pub"]
      ~> ros >= n \/ bridge # "spin" \/ ~linked["pub"]

=============================================================================
