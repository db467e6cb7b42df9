--------------------------- MODULE DdsBridgeProofs ---------------------------
(***************************************************************************)
(* The safety of DdsBridge for any number of scans and any period of the    *)
(* watchdog: an inductive invariant and the properties that follow from it. *)
(***************************************************************************)
EXTENDS DdsBridge, FiniteSetTheorems, SequenceTheorems, TLAPS

Object == Pub \cup {"sub"}

\* What an object can have in the order of init.
Made == { {}, {"participant"}, {"participant", "group"},
          {"participant", "group", "topic"}, Entity }

\* What the destructor of a publisher has still to do, s, and what can be left
\* for it, E; then the same for the subscriber.
PubLeft(s, E) ==
  \/ s = <<"endpoint", "group", "topic", "participant">> /\ E \in Made
  \/ s = <<"group", "topic", "participant">> /\ E \in Made \ {Entity}
  \/ s = <<"topic", "participant">>
     /\ E \in { {}, {"participant"}, {"participant", "topic"} }
  \/ s = <<"participant">> /\ E \in { {}, {"participant"} }
  \/ s = <<>> /\ E = {}

SubLeft(s, E) ==
  \/ s = <<"endpoint", "topic", "group", "participant">> /\ E \in Made
  \/ s = <<"topic", "group", "participant">> /\ E \in Made \ {Entity}
  \/ s = <<"group", "participant">>
     /\ E \in { {}, {"participant"}, {"participant", "group"} }
  \/ s = <<"participant">> /\ E \in { {}, {"participant"} }
  \/ s = <<>> /\ E = {}

\* The entities of the publishers, by what main of the server is doing.
ServerEntities ==
  /\ main = "init" => has["next"] \in Made \ {Entity}
  /\ main = "undo" =>
       has["next"] # Entity /\ PubLeft(todo["server"], has["next"])
  /\ main = "register" => has["next"] = Entity
  /\ main \in {"delete", "wait", "run"} => has["next"] = {} /\ has["pub"] = Entity
  /\ main = "delete" => PubLeft(todo["server"], has["old"])
  /\ main # "delete" => has["old"] = {}
  /\ main \notin {"undo", "delete"} => todo["server"] = <<>>
  /\ has["pub"] \in { {}, Entity }

\* The entities of the subscriber, and the publisher of the node.
BridgeEntities ==
  /\ bridge \in {"ended", "members"} => has["sub"] = {}
  /\ bridge = "init" => has["sub"] \in Made \ {Entity}
  /\ bridge \in {"stamp", "callback", "invoker", "timer", "spin"} =>
       has["sub"] = Entity
  /\ bridge = "undo" => SubLeft(todo["bridge"], has["sub"])
  /\ bridge # "undo" => todo["bridge"] = <<>>
  /\ rosPublisher = (bridge # "ended")

\* DDS only matches what exists, and samples are on the way on a link.
Links ==
  \A p \in Pub : /\ linked[p] => HasReader /\ "endpoint" \in has[p]
                 /\ wire[p] # {} => linked[p]

\* A listener that runs has its reader.
ListenerHasReader == listener # "idle" => HasReader

\* The sample of the listener is valid when it is used.
Taken ==
  /\ listener = "idle" => st = 0
  /\ listener \in {"call", "publish"} => st # 0

\* As long as there was no warning, the watchdog looks before the silence is
\* twice the period old.
Silence ==
  /\ bridge # "spin" => age = 0
  /\ ~warned => age + timer <= 2 * Period

\* What is under way is newer than what the listener has, and that is newer than
\* what was published, unless two writers are heard.
Ordered ==
  /\ st <= written /\ ros <= written
  /\ \A p \in Pub : \A n \in wire[p] : n <= written
  /\ wire["next"] = {}
  /\ ~disordered =>
       /\ wire["old"] = {}
       /\ st # 0 => ros < st
       /\ \A n \in wire["pub"] : st < n /\ ros < n

ControlTypes ==
  /\ main \in {"init", "undo", "register", "delete", "wait", "run"}
  /\ bridge \in {"ended", "init", "stamp", "callback", "invoker", "timer",
                 "spin", "undo", "members"}
  /\ listener \in {"idle", "test", "call", "publish", "crashed"}
  /\ callback_ \in {"empty", "half", "set"}

FlagTypes ==
  /\ linked \in [Pub -> BOOLEAN]
  /\ matched \in [Pub -> BOOLEAN]
  /\ rosPublisher \in BOOLEAN
  /\ disordered \in BOOLEAN
  /\ warned \in BOOLEAN

EntityTypes ==
  /\ has \in [Object -> SUBSET Entity]
  /\ todo \in [{"server", "bridge"} -> Seq(Entity)]

WireTypes == wire \in [Pub -> SUBSET Sample]

SampleTypes ==
  /\ written \in 0 .. MaxSample
  /\ st \in 0 .. MaxSample
  /\ ros \in 0 .. MaxSample

TimeTypes ==
  /\ age \in 0 .. (2 * Period + 1) /\ timer \in 0 .. Period

Types == ControlTypes /\ FlagTypes /\ EntityTypes /\ WireTypes /\ SampleTypes
         /\ TimeTypes

IInv == /\ Types /\ ServerEntities /\ BridgeEntities /\ Links
        /\ ListenerHasReader /\ Taken /\ Silence /\ Ordered

-----------------------------------------------------------------------------

\* A step of init that succeeds makes the next entity.
LEMMA MadeByInit ==
  ASSUME NEW o \in Object, EntityTypes, has[o] \in Made \ {Entity}, Created(o)
  PROVE  /\ has'[o] \in Made \ {{}}
         /\ \A x \in Object \ {o} : has'[x] = has[x]
         /\ has' \in [Object -> SUBSET Entity]
<1> DEFINE n == Cardinality(has[o])
<1>1. Cardinality({}) = 0 /\ IsFiniteSet({})
  BY FS_EmptySet
<1>2. Cardinality({"participant"}) = 1 /\ IsFiniteSet({"participant"})
  BY FS_Singleton
<1>3. /\ Cardinality({"participant", "group"}) = 2
      /\ IsFiniteSet({"participant", "group"})
  <2>1. {"participant", "group"} = {"participant"} \cup {"group"} OBVIOUS
  <2> QED BY <1>2, <2>1, FS_AddElement
<1>4. Cardinality({"participant", "group", "topic"}) = 3
  <2>1. {"participant", "group", "topic"} = {"participant", "group"} \cup {"topic"}
    OBVIOUS
  <2> QED BY <1>3, <2>1, FS_AddElement
<1>5. has' = [has EXCEPT ![o] = @ \cup {InitOrder[n + 1]}]
  BY DEF Created
<1>6. /\ InitOrder[1] = "participant" /\ InitOrder[2] = "group"
      /\ InitOrder[3] = "topic" /\ InitOrder[4] = "endpoint"
  BY DEF InitOrder
<1>7. has'[o] = has[o] \cup {InitOrder[n + 1]}
  BY <1>5 DEF EntityTypes
<1>8. \A x \in Object \ {o} : has'[x] = has[x]
  BY <1>5 DEF EntityTypes
<1>9. has'[o] \in Made \ {{}}
  <2> HIDE DEF n
  <2>1. CASE has[o] = {}
    <3>1. n + 1 = 1 BY <2>1, <1>1 DEF n
    <3> QED BY <2>1, <3>1, <1>6, <1>7 DEF Made
  <2>2. CASE has[o] = {"participant"}
    <3>1. n + 1 = 2 BY <2>2, <1>2 DEF n
    <3> QED BY <2>2, <3>1, <1>6, <1>7 DEF Made
  <2>3. CASE has[o] = {"participant", "group"}
    <3>1. n + 1 = 3 BY <2>3, <1>3 DEF n
    <3> QED BY <2>3, <3>1, <1>6, <1>7 DEF Made
  <2>4. CASE has[o] = {"participant", "group", "topic"}
    <3>1. n + 1 = 4 BY <2>4, <1>4 DEF n
    <3> QED BY <2>4, <3>1, <1>6, <1>7 DEF Made, Entity
  <2> QED BY <2>1, <2>2, <2>3, <2>4 DEF Made
<1>10. has'[o] \in SUBSET Entity
  BY <1>9 DEF Made, Entity
<1> HIDE DEF n
<1> QED BY <1>5, <1>7, <1>8, <1>9, <1>10 DEF EntityTypes

\* The tuples a destructor goes through.
LEMMA Tails ==
  /\ \A a, b, c, d : Tail(<<a, b, c, d>>) = <<b, c, d>> /\ Head(<<a, b, c, d>>) = a
  /\ \A a, b, c : Tail(<<a, b, c>>) = <<b, c>> /\ Head(<<a, b, c>>) = a
  /\ \A a, b : Tail(<<a, b>>) = <<b>> /\ Head(<<a, b>>) = a
  /\ \A a : Tail(<<a>>) = <<>> /\ Head(<<a>>) = a
OBVIOUS

\* What a step of a destructor leaves alone.
LEMMA Deleted ==
  ASSUME NEW o \in Object, NEW side \in {"server", "bridge"}, EntityTypes,
         todo[side] # <<>>, DeleteNext(side, o)
  PROVE  /\ EntityTypes'
         /\ \A x \in Object \ {o} : has'[x] = has[x]
         /\ \A x \in {"server", "bridge"} \ {side} : todo'[x] = todo[x]
         /\ todo'[side] = Tail(todo[side])
         /\ has'[o] = IF Deletable(o, Head(todo[side]))
                      THEN has[o] \ {Head(todo[side])} ELSE has[o]
         /\ has'[o] \subseteq has[o]
BY HeadTailProperties DEF DeleteNext, EntityTypes

\* A step of the destructor of a publisher: DDS never refuses it.
LEMMA PubShrinks ==
  ASSUME NEW o \in Pub, EntityTypes, PubLeft(todo["server"], has[o]),
         todo["server"] # <<>>, DeleteNext("server", o)
  PROVE  /\ PubLeft(todo["server"], has[o])'
         /\ Head(todo["server"]) = "endpoint" => "endpoint" \notin has'[o]
         /\ Head(todo["server"]) # "endpoint" => "endpoint" \notin has[o]
<1>1. o \in Object BY DEF Object
<1>2. /\ todo'["server"] = Tail(todo["server"])
      /\ has'[o] = IF Deletable(o, Head(todo["server"]))
                   THEN has[o] \ {Head(todo["server"])} ELSE has[o]
  BY <1>1, Deleted
<1>3. CASE /\ todo["server"] = <<"endpoint", "group", "topic", "participant">>
           /\ has[o] \in Made
  BY <1>2, <1>3, Tails DEF PubLeft, Deletable, Made, Entity
<1>4. CASE /\ todo["server"] = <<"group", "topic", "participant">>
           /\ has[o] \in Made \ {Entity}
  BY <1>2, <1>4, Tails DEF PubLeft, Deletable, Made, Entity
<1>5. CASE todo["server"] = <<"topic", "participant">>
           /\ has[o] \in { {}, {"participant"}, {"participant", "topic"} }
  BY <1>2, <1>5, Tails DEF PubLeft, Deletable, Made, Entity
<1>6. CASE /\ todo["server"] = <<"participant">>
           /\ has[o] \in { {}, {"participant"} }
  BY <1>2, <1>6, Tails DEF PubLeft, Deletable, Made, Entity
<1> QED BY <1>3, <1>4, <1>5, <1>6 DEF PubLeft

\* The same for the subscriber.
LEMMA SubShrinks ==
  ASSUME EntityTypes, SubLeft(todo["bridge"], has["sub"]),
         todo["bridge"] # <<>>, DeleteNext("bridge", "sub")
  PROVE  /\ SubLeft(todo["bridge"], has["sub"])'
         /\ Head(todo["bridge"]) = "endpoint" => "endpoint" \notin has'["sub"]
         /\ Head(todo["bridge"]) # "endpoint" => "endpoint" \notin has["sub"]
<1>1. "sub" \in Object BY DEF Object
<1>2. /\ todo'["bridge"] = Tail(todo["bridge"])
      /\ has'["sub"] = IF Deletable("sub", Head(todo["bridge"]))
                   THEN has["sub"] \ {Head(todo["bridge"])} ELSE has["sub"]
  BY <1>1, Deleted
<1>3. CASE /\ todo["bridge"] = <<"endpoint", "topic", "group", "participant">>
           /\ has["sub"] \in Made
  BY <1>2, <1>3, Tails DEF SubLeft, Deletable, Made, Entity
<1>4. CASE /\ todo["bridge"] = <<"topic", "group", "participant">>
           /\ has["sub"] \in Made \ {Entity}
  BY <1>2, <1>4, Tails DEF SubLeft, Deletable, Made, Entity
<1>5. CASE todo["bridge"] = <<"group", "participant">>
           /\ has["sub"] \in { {}, {"participant"}, {"participant", "group"} }
  BY <1>2, <1>5, Tails DEF SubLeft, Deletable, Made, Entity
<1>6. CASE /\ todo["bridge"] = <<"participant">>
           /\ has["sub"] \in { {}, {"participant"} }
  BY <1>2, <1>6, Tails DEF SubLeft, Deletable, Made, Entity
<1> QED BY <1>3, <1>4, <1>5, <1>6 DEF SubLeft

\* The destructors run over sequences of entities.
LEMMA SeqOfFour ==
  ASSUME NEW S, NEW a \in S, NEW b \in S, NEW c \in S, NEW d \in S
  PROVE  <<a, b, c, d>> \in Seq(S)
OBVIOUS

LEMMA OrderType == \A o : DestructorOrder(o) \in Seq(Entity)
BY SeqOfFour DEF DestructorOrder, Entity

\* An object that is not finished has no writer or reader.
LEMMA NoEndpoint == /\ \A E \in Made \ {Entity} : "endpoint" \notin E
                    /\ "endpoint" \in Entity
                    /\ {} \in Made \ {Entity}
BY DEF Made, Entity

\* A choice that has one value.
LEMMA Forced ==
  ASSUME NEW S, NEW w, NEW v, S = {TRUE}, \E old \in S : v = (w \/ old)
  PROVE  v
OBVIOUS

\* registerCallback moves what belongs to a publisher.
LEMMA MovedValues ==
  ASSUME NEW S, NEW f \in [Pub -> S], NEW none \in S
  PROVE  /\ Moved(f, none) \in [Pub -> S]
         /\ Moved(f, none)["old"] = f["pub"]
         /\ Moved(f, none)["pub"] = f["next"]
         /\ Moved(f, none)["next"] = none
BY DEF Moved, Pub

\* What the steps that make or delete entities do to all objects.
LEMMA InitPublisherEffect ==
  ASSUME IInv, InitPublisher
  PROVE  /\ EntityTypes' /\ main = "init" /\ ~Crashed
         /\ \A x \in Object \ {"next"} : has'[x] = has[x]
         /\ todo'["bridge"] = todo["bridge"]
         /\ \/ /\ main' = "init" /\ todo'["server"] = <<>>
               /\ has'["next"] \in Made \ {Entity}
            \/ /\ main' = "register" /\ todo'["server"] = <<>>
               /\ has'["next"] = Entity
            \/ /\ main' = "undo" /\ has' = has
               /\ PubLeft(todo'["server"], has["next"])
<1> USE DEF IInv, Types, ServerEntities
<1>1. CASE Created("next") /\ todo' = todo
           /\ ServerGoto(IF AllCreated("next") THEN "register" ELSE "init")
  <2>1. "next" \in Object /\ main = "init" BY DEF Object, Pub, InitPublisher
  <2>2. /\ has'["next"] \in Made \ {{}}
        /\ \A x \in Object \ {"next"} : has'[x] = has[x]
        /\ has' \in [Object -> SUBSET Entity]
    BY <1>1, <2>1, MadeByInit
  <2> QED BY <1>1, <2>1, <2>2 DEF EntityTypes, AllCreated, ServerGoto
<1>2. CASE has' = has /\ ServerGoto("undo")
           /\ todo' = [todo EXCEPT !["server"] = DestructorOrder("next")]
  <2>1. DestructorOrder("next") = <<"endpoint", "group", "topic", "participant">>
    BY DEF DestructorOrder
  <2>2. DestructorOrder("next") \in Seq(Entity) BY OrderType
  <2>3. todo'["server"] = DestructorOrder("next") /\ todo'["bridge"] = todo["bridge"]
        /\ todo' \in [{"server", "bridge"} -> Seq(Entity)]
    BY <1>2, <2>2 DEF EntityTypes
  <2>4. PubLeft(todo'["server"], has["next"])
    BY <2>1, <2>3 DEF PubLeft, InitPublisher
  <2> QED BY <1>2, <2>3, <2>4 DEF EntityTypes, ServerGoto, InitPublisher
<1> QED BY <1>1, <1>2 DEF InitPublisher

LEMMA UndoPublisherEffect ==
  ASSUME IInv, UndoPublisher
  PROVE  /\ EntityTypes' /\ main = "undo" /\ ~Crashed
         /\ "endpoint" \notin has["next"]
         /\ \A x \in Object \ {"next"} : has'[x] = has[x]
         /\ todo'["bridge"] = todo["bridge"]
         /\ \/ /\ main' = "init" /\ todo'["server"] = <<>> /\ has'["next"] = {}
            \/ /\ main' = "undo" /\ PubLeft(todo'["server"], has'["next"])
               /\ has'["next"] # Entity
<1> USE DEF IInv, Types, ServerEntities
<1>0. "endpoint" \notin has["next"]
  BY DEF PubLeft, Made, Entity, UndoPublisher
<1>1. CASE todo["server"] = <<>>
  BY <1>1 DEF PubLeft, UndoPublisher, ServerGoto, EntityTypes
<1>2. CASE todo["server"] # <<>>
  <2>1. /\ DeleteNext("server", "next") /\ main = "undo" /\ ServerGoto("undo")
        /\ "next" \in Pub /\ "next" \in Object
    BY <1>2 DEF UndoPublisher, Object, Pub
  <2>2. /\ EntityTypes' /\ todo'["bridge"] = todo["bridge"]
        /\ \A x \in Object \ {"next"} : has'[x] = has[x]
        /\ has'["next"] \subseteq has["next"]
    BY <1>2, <2>1, Deleted
  <2>3. PubLeft(todo["server"], has["next"])' BY <1>2, <2>1, PubShrinks
  <2> QED BY <1>0, <2>1, <2>2, <2>3, NoEndpoint DEF ServerGoto
<1> QED BY <1>0, <1>1, <1>2

LEMMA RegisterCallbackEffect ==
  ASSUME IInv, RegisterCallback
  PROVE  /\ EntityTypes' /\ main = "register" /\ main' = "delete" /\ ~Crashed
         /\ has'["old"] = has["pub"] /\ has'["pub"] = Entity
         /\ has'["next"] = {} /\ has'["sub"] = has["sub"]
         /\ todo'["bridge"] = todo["bridge"]
         /\ PubLeft(todo'["server"], has["pub"])
<1> USE DEF IInv, Types, ServerEntities
<1>1. /\ has'["old"] = has["pub"] /\ has'["pub"] = has["next"]
      /\ has'["next"] = {} /\ has'["sub"] = has["sub"]
      /\ has' \in [Object -> SUBSET Entity]
  BY DEF RegisterCallback, Moved, EntityTypes, Object, Pub
<1>2. DestructorOrder("pub") = <<"endpoint", "group", "topic", "participant">>
  BY DEF DestructorOrder
<1>3. DestructorOrder("pub") \in Seq(Entity) BY OrderType
<1>4. /\ todo'["server"] = IF has["pub"] = {} THEN <<>> ELSE DestructorOrder("pub")
      /\ todo'["bridge"] = todo["bridge"]
      /\ todo' \in [{"server", "bridge"} -> Seq(Entity)]
  BY <1>3 DEF RegisterCallback, EntityTypes
<1>5. PubLeft(todo'["server"], has["pub"])
  BY <1>2, <1>4 DEF PubLeft, Made
<1> QED BY <1>1, <1>4, <1>5 DEF RegisterCallback, ServerGoto, EntityTypes

LEMMA DestroyPublisherEffect ==
  ASSUME IInv, DestroyPublisher
  PROVE  /\ EntityTypes' /\ main = "delete" /\ ~Crashed
         /\ \A x \in Object \ {"old"} : has'[x] = has[x]
         /\ todo'["bridge"] = todo["bridge"]
         /\ \/ /\ main' = "wait" /\ todo'["server"] = <<>> /\ has'["old"] = {}
              
                     /\ UNCHANGED <<linked, wire, matched>>
            \/ /\ main' = "delete" /\ PubLeft(todo'["server"], has'["old"])
               /\ \/ "endpoint" \notin has'["old"] /\ Unlink({"old"})
                  \/ /\ "endpoint" \notin has["old"]
                     /\ UNCHANGED <<linked, wire, matched>>
<1> USE DEF IInv, Types, ServerEntities
<1>1. CASE todo["server"] = <<>>
  BY <1>1 DEF PubLeft, DestroyPublisher, ServerGoto, EntityTypes, ddsVars
<1>2. CASE todo["server"] # <<>>
  <2>1. /\ DeleteNext("server", "old") /\ main = "delete" /\ ServerGoto("delete")
        /\ "old" \in Pub /\ "old" \in Object
        /\ IF Head(todo["server"]) = "endpoint"
           THEN Unlink({"old"}) ELSE UNCHANGED <<linked, wire, matched>>
    BY <1>2 DEF DestroyPublisher, Object, Pub, ddsVars
  <2>2. /\ EntityTypes' /\ todo'["bridge"] = todo["bridge"]
        /\ \A x \in Object \ {"old"} : has'[x] = has[x]
    BY <1>2, <2>1, Deleted
  <2>3. /\ PubLeft(todo["server"], has["old"])'
        /\ Head(todo["server"]) = "endpoint" => "endpoint" \notin has'["old"]
        /\ Head(todo["server"]) # "endpoint" => "endpoint" \notin has["old"]
    BY <1>2, <2>1, PubShrinks
  <2> QED BY <2>1, <2>2, <2>3 DEF ServerGoto
<1> QED BY <1>1, <1>2

LEMMA InitSubscriberEffect ==
  ASSUME IInv, InitSubscriber
  PROVE  /\ EntityTypes' /\ bridge = "init" /\ ~Crashed
         /\ \A x \in Pub : has'[x] = has[x]
         /\ todo'["server"] = todo["server"]
         /\ \/ /\ bridge' = "init" /\ todo'["bridge"] = <<>>
               /\ has'["sub"] \in Made \ {Entity}
            \/ /\ bridge' = "stamp" /\ todo'["bridge"] = <<>>
               /\ has'["sub"] = Entity
            \/ /\ bridge' = "undo" /\ has' = has
               /\ SubLeft(todo'["bridge"], has["sub"])
<1> USE DEF IInv, Types, BridgeEntities
<1>1. CASE Created("sub") /\ todo' = todo
           /\ bridge' = IF AllCreated("sub") THEN "stamp" ELSE "init"
  <2>1. "sub" \in Object /\ bridge = "init" /\ ~Crashed
    BY DEF Object, InitSubscriber, BridgeAt
  <2>2. /\ has'["sub"] \in Made \ {{}}
        /\ \A x \in Object \ {"sub"} : has'[x] = has[x]
        /\ has' \in [Object -> SUBSET Entity]
    BY <1>1, <2>1, MadeByInit
  <2> QED BY <1>1, <2>1, <2>2 DEF EntityTypes, AllCreated, Object, Pub
<1>2. CASE has' = has /\ bridge' = "undo"
           /\ todo' = [todo EXCEPT !["bridge"] = DestructorOrder("sub")]
  <2>1. DestructorOrder("sub") = <<"endpoint", "topic", "group", "participant">>
    BY DEF DestructorOrder
  <2>2. DestructorOrder("sub") \in Seq(Entity) BY OrderType
  <2>3. todo'["bridge"] = DestructorOrder("sub") /\ todo'["server"] = todo["server"]
        /\ todo' \in [{"server", "bridge"} -> Seq(Entity)]
    BY <1>2, <2>2 DEF EntityTypes
  <2>4. SubLeft(todo'["bridge"], has["sub"])
    BY <2>1, <2>3 DEF SubLeft, InitSubscriber, BridgeAt
  <2> QED BY <1>2, <2>3, <2>4 DEF EntityTypes, BridgeAt, InitSubscriber
<1> QED BY <1>1, <1>2 DEF InitSubscriber

LEMMA EndSpinEffect ==
  ASSUME IInv, EndSpin
  PROVE  /\ EntityTypes' /\ bridge = "spin" /\ bridge' = "undo" /\ ~Crashed
         /\ has' = has
         /\ todo'["server"] = todo["server"]
         /\ SubLeft(todo'["bridge"], has["sub"])
<1> USE DEF IInv, Types, BridgeEntities
<1>1. DestructorOrder("sub") = <<"endpoint", "topic", "group", "participant">>
  BY DEF DestructorOrder
<1>2. DestructorOrder("sub") \in Seq(Entity) BY OrderType
<1>3. /\ todo'["bridge"] = DestructorOrder("sub") /\ todo'["server"] = todo["server"]
      /\ todo' \in [{"server", "bridge"} -> Seq(Entity)]
  BY <1>2 DEF EndSpin, EntityTypes
<1>4. SubLeft(todo'["bridge"], has["sub"])
  BY <1>1, <1>3 DEF SubLeft, EndSpin, BridgeAt, Made
<1> QED BY <1>3, <1>4 DEF EndSpin, BridgeAt, EntityTypes

LEMMA DestroySubscriberEffect ==
  ASSUME IInv, DestroySubscriber
  PROVE  /\ EntityTypes' /\ bridge = "undo" /\ ~Crashed
         /\ \A x \in Pub : has'[x] = has[x]
         /\ todo'["server"] = todo["server"]
         /\ \/ /\ bridge' = "members" /\ todo'["bridge"] = <<>> /\ has' = has
               /\ has["sub"] = {}
               /\ UNCHANGED <<linked, wire, matched>>
            \/ /\ bridge' = "undo" /\ SubLeft(todo'["bridge"], has'["sub"])
               /\ \/ /\ "endpoint" \notin has'["sub"]
                     /\ Unlink(Pub) /\ listener = "idle"
                  \/ /\ "endpoint" \notin has["sub"]
                     /\ UNCHANGED <<linked, wire, matched>>
<1> USE DEF IInv, Types, BridgeEntities
<1>1. CASE todo["bridge"] = <<>>
  BY <1>1 DEF SubLeft, DestroySubscriber, BridgeAt, EntityTypes, ddsVars
<1>2. CASE todo["bridge"] # <<>>
  <2>1. /\ DeleteNext("bridge", "sub") /\ bridge = "undo" /\ bridge' = "undo" /\ ~Crashed
        /\ "sub" \in Object
        /\ IF Head(todo["bridge"]) = "endpoint"
           THEN listener = "idle" /\ Unlink(Pub) 
           ELSE UNCHANGED <<linked, wire, matched>>
    BY <1>2 DEF DestroySubscriber, Object, BridgeAt, ddsVars
  <2>2. /\ EntityTypes' /\ todo'["server"] = todo["server"]
        /\ \A x \in Object \ {"sub"} : has'[x] = has[x]
    BY <1>2, <2>1, Deleted
  <2>3. /\ SubLeft(todo["bridge"], has["sub"])'
        /\ Head(todo["bridge"]) = "endpoint" => "endpoint" \notin has'["sub"]
        /\ Head(todo["bridge"]) # "endpoint" => "endpoint" \notin has["sub"]
    BY <1>2, <2>1, SubShrinks
  <2> QED BY <2>1, <2>2, <2>3 DEF Object, Pub
<1> QED BY <1>1, <1>2

-----------------------------------------------------------------------------

\* Types, one lemma for each group of variables.
LEMMA ControlTypesNext ==
  ASSUME IInv, [Next]_vars
  PROVE  ControlTypes'
<1>1. CASE InitPublisher
  BY <1>1 DEF IInv, Types, ControlTypes, InitPublisher, ServerGoto, ddsVars,
       timeVars, listenerVars, bridgeVars
<1>2. CASE UndoPublisher
  BY <1>2 DEF IInv, Types, ControlTypes, UndoPublisher, ServerGoto, ddsVars,
       timeVars, listenerVars, bridgeVars
<1>3. CASE RegisterCallback
  BY <1>3 DEF IInv, Types, ControlTypes, RegisterCallback, ServerGoto, Moved,
       timeVars, listenerVars, bridgeVars
<1>4. CASE DestroyPublisher
  BY <1>4 DEF IInv, Types, ControlTypes, DestroyPublisher, ServerGoto, Unlink,
       ddsVars, timeVars, listenerVars, bridgeVars
<1>5. CASE WaitMatched
  BY <1>5 DEF IInv, Types, ControlTypes, WaitMatched, ServerGoto, ddsVars,
       timeVars, listenerVars, bridgeVars
<1>6. CASE TakeSample
  BY <1>6 DEF IInv, Types, ControlTypes, TakeSample, timeVars, serverVars,
       bridgeVars
<1>7. CASE TakeInvalid
  BY <1>7 DEF IInv, Types, ControlTypes, TakeInvalid, ddsVars, timeVars,
       serverVars, bridgeVars, HasReader
<1>8. CASE TestCallback
  BY <1>8 DEF IInv, Types, ControlTypes, TestCallback, ddsVars, timeVars,
       serverVars, bridgeVars
<1>9. CASE CallCallback
  BY <1>9 DEF IInv, Types, ControlTypes, CallCallback, ddsVars, timeVars,
       serverVars, bridgeVars
<1>10. CASE PublishRos
  BY <1>10 DEF IInv, Types, ControlTypes, PublishRos, ddsVars, timeVars,
       serverVars, bridgeVars
<1>11. CASE CreateRosPublisher
  BY <1>11 DEF IInv, Types, ControlTypes, CreateRosPublisher, BridgeAt,
       ddsVars, timeVars, listenerVars, serverVars
<1>12. CASE InitSubscriber
  BY <1>12 DEF IInv, Types, ControlTypes, InitSubscriber, BridgeAt, ddsVars,
       timeVars, listenerVars, serverVars
<1>13. CASE StampStart
  BY <1>13 DEF IInv, Types, ControlTypes, StampStart, BridgeAt, ddsVars,
       listenerVars, serverVars
<1>14. CASE set_callback
  BY <1>14 DEF IInv, Types, ControlTypes, set_callback, BridgeAt, ddsVars,
       timeVars, listenerVars, serverVars
<1>15. CASE CreateTimer
  BY <1>15 DEF IInv, Types, ControlTypes, CreateTimer, BridgeAt, ddsVars,
       listenerVars, serverVars
<1>16. CASE EndSpin
  BY <1>16 DEF IInv, Types, ControlTypes, EndSpin, BridgeAt, ddsVars,
       listenerVars, serverVars
<1>17. CASE DestroySubscriber
  BY <1>17 DEF IInv, Types, ControlTypes, DestroySubscriber, BridgeAt, Unlink,
       ddsVars, timeVars, listenerVars, serverVars
<1>18. CASE DestroyRosPublisher
  BY <1>18 DEF IInv, Types, ControlTypes, DestroyRosPublisher, BridgeAt,
       ddsVars, timeVars, listenerVars, serverVars
<1>19. CASE \/ UNCHANGED vars \/ pushlishMessageData \/ on_publication_matched
            \/ Second \/ Watchdog
  <2>1. UNCHANGED <<main, bridge, listener, callback_>>
    BY <1>19 DEF vars, ddsVars, timeVars, listenerVars, serverVars,
         bridgeVars, pushlishMessageData, on_publication_matched, Second,
         Watchdog
  <2> QED BY <2>1 DEF IInv, Types, ControlTypes
<1> QED BY <1>1, <1>2, <1>3, <1>4, <1>5, <1>6, <1>7, <1>8, <1>9, <1>10, <1>11,
     <1>12, <1>13, <1>14, <1>15, <1>16, <1>17, <1>18, <1>19 DEF Next,
     MainSteps, ListenerSteps, BridgeNext, ConstructorSteps, DestructorSteps

LEMMA EntityTypesNext ==
  ASSUME IInv, [Next]_vars
  PROVE  EntityTypes'
<1>1. CASE InitPublisher
  BY <1>1, InitPublisherEffect
<1>2. CASE UndoPublisher
  BY <1>2, UndoPublisherEffect
<1>3. CASE RegisterCallback
  BY <1>3, RegisterCallbackEffect
<1>4. CASE DestroyPublisher
  BY <1>4, DestroyPublisherEffect
<1>5. CASE InitSubscriber
  BY <1>5, InitSubscriberEffect
<1>6. CASE EndSpin
  BY <1>6, EndSpinEffect
<1>7. CASE DestroySubscriber
  BY <1>7, DestroySubscriberEffect
<1>8. CASE \/ UNCHANGED vars \/ WaitMatched \/ pushlishMessageData
           \/ on_publication_matched \/ TakeSample \/ TakeInvalid
           \/ TestCallback \/ CallCallback \/ PublishRos \/ CreateRosPublisher
           \/ StampStart \/ set_callback \/ CreateTimer \/ Second \/ Watchdog
           \/ DestroyRosPublisher
  <2>1. UNCHANGED <<has, todo>>
    BY <1>8 DEF vars, ddsVars, timeVars, listenerVars, serverVars, bridgeVars,
         WaitMatched, pushlishMessageData, on_publication_matched, TakeSample,
         TakeInvalid, TestCallback, CallCallback, PublishRos,
         CreateRosPublisher, StampStart, set_callback, CreateTimer, Second,
         Watchdog, DestroyRosPublisher
  <2> QED BY <2>1 DEF IInv, Types, EntityTypes
<1> QED BY <1>1, <1>2, <1>3, <1>4, <1>5, <1>6, <1>7, <1>8 DEF Next, MainSteps,
     ListenerSteps, BridgeNext, ConstructorSteps, DestructorSteps

LEMMA FlagTypesNext ==
  ASSUME IInv, [Next]_vars
  PROVE  FlagTypes'
<1>1. CASE RegisterCallback
  <2>1. linked' \in [Pub -> BOOLEAN] /\ matched' \in [Pub -> BOOLEAN]
    BY <1>1, MovedValues DEF IInv, Types, FlagTypes, RegisterCallback
  <2>2. disordered' \in BOOLEAN
    BY <1>1, Zenon DEF RegisterCallback
  <2> QED BY <1>1, <2>1, <2>2
       DEF IInv, Types, FlagTypes, RegisterCallback, timeVars, bridgeVars
<1>2. CASE DestroyPublisher
  BY <1>2 DEF IInv, Types, FlagTypes, DestroyPublisher, ServerGoto, Unlink,
       ddsVars, timeVars, listenerVars, bridgeVars
<1>3. CASE on_publication_matched
  BY <1>3 DEF IInv, Types, FlagTypes, on_publication_matched, MatchStored,
       timeVars, listenerVars, serverVars, bridgeVars, HasReader
<1>4. CASE CallCallback
  BY <1>4 DEF IInv, Types, FlagTypes, CallCallback, ddsVars, timeVars,
       serverVars, bridgeVars
<1>5. CASE CreateRosPublisher
  BY <1>5 DEF IInv, Types, FlagTypes, CreateRosPublisher, BridgeAt, ddsVars,
       timeVars, listenerVars, serverVars
<1>6. CASE StampStart
  BY <1>6 DEF IInv, Types, FlagTypes, StampStart, BridgeAt, ddsVars,
       listenerVars, serverVars
<1>7. CASE Watchdog
  BY <1>7 DEF IInv, Types, FlagTypes, Watchdog, BridgeAt, TooOld, ddsVars,
       listenerVars, serverVars, bridgeVars
<1>8. CASE EndSpin
  BY <1>8 DEF IInv, Types, FlagTypes, EndSpin, BridgeAt, ddsVars,
       listenerVars, serverVars
<1>9. CASE DestroySubscriber
  BY <1>9 DEF IInv, Types, FlagTypes, DestroySubscriber, BridgeAt, Unlink,
       ddsVars, timeVars, listenerVars, serverVars
<1>10. CASE DestroyRosPublisher
  BY <1>10 DEF IInv, Types, FlagTypes, DestroyRosPublisher, BridgeAt, ddsVars,
       timeVars, listenerVars, serverVars
<1>11. CASE \/ UNCHANGED vars \/ InitPublisher \/ UndoPublisher \/ WaitMatched
            \/ pushlishMessageData \/ TakeSample \/ TakeInvalid
            \/ TestCallback \/ PublishRos \/ InitSubscriber \/ set_callback
            \/ CreateTimer \/ Second
  <2>1. UNCHANGED <<linked, matched, rosPublisher, disordered, warned>>
    BY <1>11 DEF vars, ddsVars, timeVars, listenerVars, serverVars,
         bridgeVars, InitPublisher, UndoPublisher, WaitMatched,
         pushlishMessageData, TakeSample, TakeInvalid, TestCallback,
         PublishRos, InitSubscriber, set_callback, CreateTimer, Second
  <2> QED BY <2>1 DEF IInv, Types, FlagTypes
<1> QED BY <1>1, <1>2, <1>3, <1>4, <1>5, <1>6, <1>7, <1>8, <1>9, <1>10, <1>11
     DEF Next, MainSteps, ListenerSteps, BridgeNext, ConstructorSteps,
     DestructorSteps

LEMMA WireTypesNext ==
  ASSUME IInv, [Next]_vars
  PROVE  WireTypes'
<1>1. CASE RegisterCallback
  BY <1>1, MovedValues DEF IInv, Types, WireTypes, RegisterCallback
<1>2. CASE DestroyPublisher
  BY <1>2 DEF IInv, Types, WireTypes, DestroyPublisher, ServerGoto, Unlink,
       ddsVars, timeVars, listenerVars, bridgeVars
<1>3. CASE pushlishMessageData
  <2>1. written' \in Sample
    BY <1>3, MaxSampleAssumption DEF IInv, Types, SampleTypes, Sample,
         pushlishMessageData
  <2> QED BY <1>3, <2>1 DEF IInv, Types, WireTypes, pushlishMessageData
<1>4. CASE TakeSample
  BY <1>4 DEF IInv, Types, WireTypes, TakeSample, timeVars, serverVars,
       bridgeVars
<1>5. CASE DestroySubscriber
  BY <1>5 DEF IInv, Types, WireTypes, DestroySubscriber, BridgeAt, Unlink,
       ddsVars, timeVars, listenerVars, serverVars
<1>6. CASE \/ UNCHANGED vars \/ InitPublisher \/ UndoPublisher \/ WaitMatched
           \/ on_publication_matched \/ TakeInvalid \/ TestCallback
           \/ CallCallback \/ PublishRos \/ CreateRosPublisher
           \/ InitSubscriber \/ StampStart \/ set_callback \/ CreateTimer
           \/ Second \/ Watchdog \/ EndSpin \/ DestroyRosPublisher
  <2>1. UNCHANGED <<wire>>
    BY <1>6 DEF vars, ddsVars, timeVars, listenerVars, serverVars, bridgeVars,
         InitPublisher, UndoPublisher, WaitMatched, on_publication_matched,
         TakeInvalid, TestCallback, CallCallback, PublishRos,
         CreateRosPublisher, InitSubscriber, StampStart, set_callback,
         CreateTimer, Second, Watchdog, EndSpin, DestroyRosPublisher
  <2> QED BY <2>1 DEF IInv, Types, WireTypes
<1> QED BY <1>1, <1>2, <1>3, <1>4, <1>5, <1>6 DEF Next, MainSteps,
     ListenerSteps, BridgeNext, ConstructorSteps, DestructorSteps

LEMMA SampleTypesNext ==
  ASSUME IInv, [Next]_vars
  PROVE  SampleTypes'
<1>1. CASE pushlishMessageData
  BY <1>1, MaxSampleAssumption DEF IInv, Types, SampleTypes,
       pushlishMessageData, timeVars, listenerVars, bridgeVars
<1>2. CASE TakeSample
  BY <1>2, MaxSampleAssumption DEF IInv, Types, SampleTypes, TakeSample,
       timeVars, serverVars, bridgeVars, WireTypes, Sample
<1>3. CASE TakeInvalid
  BY <1>3, MaxSampleAssumption DEF IInv, Types, SampleTypes, TakeInvalid,
       ddsVars, timeVars, serverVars, bridgeVars, HasReader
<1>4. CASE TestCallback
  BY <1>4, MaxSampleAssumption DEF IInv, Types, SampleTypes, TestCallback,
       ddsVars, timeVars, serverVars, bridgeVars
<1>5. CASE PublishRos
  BY <1>5, MaxSampleAssumption DEF IInv, Types, SampleTypes, PublishRos,
       ddsVars, timeVars, serverVars, bridgeVars
<1>6. CASE \/ UNCHANGED vars \/ InitPublisher \/ UndoPublisher
           \/ RegisterCallback \/ DestroyPublisher \/ WaitMatched
           \/ on_publication_matched \/ CallCallback \/ CreateRosPublisher
           \/ InitSubscriber \/ StampStart \/ set_callback \/ CreateTimer
           \/ Second \/ Watchdog \/ EndSpin \/ DestroySubscriber
           \/ DestroyRosPublisher
  <2>1. UNCHANGED <<written, st, ros>>
    BY <1>6 DEF vars, ddsVars, timeVars, listenerVars, serverVars, bridgeVars,
         InitPublisher, UndoPublisher, RegisterCallback, DestroyPublisher,
         WaitMatched, on_publication_matched, CallCallback,
         CreateRosPublisher, InitSubscriber, StampStart, set_callback,
         CreateTimer, Second, Watchdog, EndSpin, DestroySubscriber,
         DestroyRosPublisher
  <2> QED BY <2>1 DEF IInv, Types, SampleTypes
<1> QED BY <1>1, <1>2, <1>3, <1>4, <1>5, <1>6 DEF Next, MainSteps,
     ListenerSteps, BridgeNext, ConstructorSteps, DestructorSteps

LEMMA TimeTypesNext ==
  ASSUME IInv, [Next]_vars
  PROVE  TimeTypes'
<1>1. CASE CallCallback
  BY <1>1, PeriodAssumption DEF IInv, Types, TimeTypes, CallCallback, ddsVars,
       timeVars, serverVars, bridgeVars
<1>2. CASE StampStart
  BY <1>2, PeriodAssumption DEF IInv, Types, TimeTypes, StampStart, BridgeAt,
       ddsVars, listenerVars, serverVars
<1>3. CASE CreateTimer
  BY <1>3, PeriodAssumption DEF IInv, Types, TimeTypes, CreateTimer, BridgeAt,
       ddsVars, listenerVars, serverVars
<1>4. CASE Second
  BY <1>4, PeriodAssumption DEF IInv, Types, TimeTypes, Second, BridgeAt,
       ddsVars, listenerVars, serverVars, bridgeVars
<1>5. CASE Watchdog
  BY <1>5, PeriodAssumption DEF IInv, Types, TimeTypes, Watchdog, BridgeAt,
       TooOld, ddsVars, listenerVars, serverVars, bridgeVars
<1>6. CASE EndSpin
  BY <1>6, PeriodAssumption DEF IInv, Types, TimeTypes, EndSpin, BridgeAt,
       ddsVars, listenerVars, serverVars
<1>7. CASE \/ UNCHANGED vars \/ InitPublisher \/ UndoPublisher
           \/ RegisterCallback \/ DestroyPublisher \/ WaitMatched
           \/ pushlishMessageData \/ on_publication_matched \/ TakeSample
           \/ TakeInvalid \/ TestCallback \/ PublishRos \/ CreateRosPublisher
           \/ InitSubscriber \/ set_callback \/ DestroySubscriber
           \/ DestroyRosPublisher
  <2>1. UNCHANGED <<age, timer>>
    BY <1>7 DEF vars, ddsVars, timeVars, listenerVars, serverVars, bridgeVars,
         InitPublisher, UndoPublisher, RegisterCallback, DestroyPublisher,
         WaitMatched, pushlishMessageData, on_publication_matched, TakeSample,
         TakeInvalid, TestCallback, PublishRos, CreateRosPublisher,
         InitSubscriber, set_callback, DestroySubscriber, DestroyRosPublisher
  <2> QED BY <2>1 DEF IInv, Types, TimeTypes
<1> QED BY <1>1, <1>2, <1>3, <1>4, <1>5, <1>6, <1>7 DEF Next, MainSteps,
     ListenerSteps, BridgeNext, ConstructorSteps, DestructorSteps

\* Every step of the server keeps its entities in the order of init and of the
\* destructor; the others do not touch them.
LEMMA ServerEntitiesNext ==
  ASSUME IInv, [Next]_vars
  PROVE  ServerEntities'
<1>1. CASE InitPublisher
  BY <1>1, InitPublisherEffect DEF IInv, ServerEntities, Object, Pub,
       InitPublisher, ServerGoto, ddsVars, timeVars, listenerVars, bridgeVars
<1>2. CASE UndoPublisher
  BY <1>2, UndoPublisherEffect, NoEndpoint DEF IInv, ServerEntities, Object,
       Pub, UndoPublisher, ServerGoto, ddsVars, timeVars, listenerVars,
       bridgeVars
<1>3. CASE RegisterCallback
  BY <1>3, RegisterCallbackEffect DEF IInv, ServerEntities, Object, Pub,
       RegisterCallback, ServerGoto, Moved, timeVars, listenerVars, bridgeVars
<1>4. CASE DestroyPublisher
  BY <1>4, DestroyPublisherEffect DEF IInv, ServerEntities, Object, Pub,
       DestroyPublisher, ServerGoto, Unlink, ddsVars, timeVars, listenerVars,
       bridgeVars
<1>5. CASE WaitMatched
  BY <1>5, NoEndpoint DEF IInv, ServerEntities, Object, Pub, WaitMatched,
       ServerGoto, ddsVars, timeVars, listenerVars, bridgeVars
<1>6. CASE InitSubscriber
  BY <1>6, InitSubscriberEffect DEF IInv, ServerEntities, Object, Pub,
       InitSubscriber, BridgeAt, ddsVars, timeVars, listenerVars, serverVars
<1>7. CASE EndSpin
  BY <1>7, EndSpinEffect DEF IInv, ServerEntities, Object, Pub, EndSpin,
       BridgeAt, ddsVars, listenerVars, serverVars
<1>8. CASE DestroySubscriber
  BY <1>8, DestroySubscriberEffect DEF IInv, ServerEntities, Object, Pub,
       DestroySubscriber, BridgeAt, Unlink, ddsVars, timeVars, listenerVars,
       serverVars
<1>9. CASE \/ UNCHANGED vars \/ pushlishMessageData \/ on_publication_matched
           \/ TakeSample \/ TakeInvalid \/ TestCallback \/ CallCallback
           \/ PublishRos \/ CreateRosPublisher \/ StampStart \/ set_callback
           \/ CreateTimer \/ Second \/ Watchdog \/ DestroyRosPublisher
  <2>1. UNCHANGED <<main, has, todo>>
    BY <1>9 DEF vars, ddsVars, timeVars, listenerVars, serverVars, bridgeVars,
         pushlishMessageData, on_publication_matched, TakeSample, TakeInvalid,
         TestCallback, CallCallback, PublishRos, CreateRosPublisher,
         StampStart, set_callback, CreateTimer, Second, Watchdog,
         DestroyRosPublisher
  <2> QED BY <2>1 DEF IInv, ServerEntities
<1> QED BY <1>1, <1>2, <1>3, <1>4, <1>5, <1>6, <1>7, <1>8, <1>9 DEF Next,
     MainSteps, ListenerSteps, BridgeNext, ConstructorSteps, DestructorSteps

\* The same for the subscriber of the bridge.
LEMMA BridgeEntitiesNext ==
  ASSUME IInv, [Next]_vars
  PROVE  BridgeEntities'
<1>1. CASE InitPublisher
  BY <1>1, InitPublisherEffect DEF IInv, BridgeEntities, Object, Pub,
       InitPublisher, ServerGoto, ddsVars, timeVars, listenerVars, bridgeVars
<1>2. CASE UndoPublisher
  BY <1>2, UndoPublisherEffect DEF IInv, BridgeEntities, Object, Pub,
       UndoPublisher, ServerGoto, ddsVars, timeVars, listenerVars, bridgeVars
<1>3. CASE RegisterCallback
  BY <1>3, RegisterCallbackEffect DEF IInv, BridgeEntities, Object, Pub,
       RegisterCallback, ServerGoto, Moved, timeVars, listenerVars, bridgeVars
<1>4. CASE DestroyPublisher
  BY <1>4, DestroyPublisherEffect DEF IInv, BridgeEntities, Object, Pub,
       DestroyPublisher, ServerGoto, Unlink, ddsVars, timeVars, listenerVars,
       bridgeVars
<1>5. CASE CreateRosPublisher
  BY <1>5, NoEndpoint DEF IInv, BridgeEntities, Object, Pub,
       CreateRosPublisher, BridgeAt, ddsVars, timeVars, listenerVars,
       serverVars
<1>6. CASE InitSubscriber
  BY <1>6, InitSubscriberEffect DEF IInv, BridgeEntities, Object, Pub,
       InitSubscriber, BridgeAt, ddsVars, timeVars, listenerVars, serverVars
<1>7. CASE StampStart
  BY <1>7 DEF IInv, BridgeEntities, Object, Pub, StampStart, BridgeAt,
       ddsVars, listenerVars, serverVars
<1>8. CASE set_callback
  BY <1>8 DEF IInv, BridgeEntities, Object, Pub, set_callback, BridgeAt,
       ddsVars, timeVars, listenerVars, serverVars
<1>9. CASE CreateTimer
  BY <1>9 DEF IInv, BridgeEntities, Object, Pub, CreateTimer, BridgeAt,
       ddsVars, listenerVars, serverVars
<1>10. CASE EndSpin
  BY <1>10, EndSpinEffect DEF IInv, BridgeEntities, Object, Pub, EndSpin,
       BridgeAt, ddsVars, listenerVars, serverVars
<1>11. CASE DestroySubscriber
  BY <1>11, DestroySubscriberEffect DEF IInv, BridgeEntities, Object, Pub,
       DestroySubscriber, BridgeAt, Unlink, ddsVars, timeVars, listenerVars,
       serverVars
<1>12. CASE DestroyRosPublisher
  BY <1>12 DEF IInv, BridgeEntities, Object, Pub, DestroyRosPublisher,
       BridgeAt, ddsVars, timeVars, listenerVars, serverVars
<1>13. CASE \/ UNCHANGED vars \/ WaitMatched \/ pushlishMessageData
            \/ on_publication_matched \/ TakeSample \/ TakeInvalid
            \/ TestCallback \/ CallCallback \/ PublishRos \/ Second
            \/ Watchdog
  <2>1. UNCHANGED <<bridge, has, todo, rosPublisher>>
    BY <1>13 DEF vars, ddsVars, timeVars, listenerVars, serverVars,
         bridgeVars, WaitMatched, pushlishMessageData, on_publication_matched,
         TakeSample, TakeInvalid, TestCallback, CallCallback, PublishRos,
         Second, Watchdog
  <2> QED BY <2>1 DEF IInv, BridgeEntities
<1> QED BY <1>1, <1>2, <1>3, <1>4, <1>5, <1>6, <1>7, <1>8, <1>9, <1>10, <1>11,
     <1>12, <1>13 DEF Next, MainSteps, ListenerSteps, BridgeNext,
     ConstructorSteps, DestructorSteps

\* A link has both its ends, and a sample is only under way on a link.
LEMMA LinksNext ==
  ASSUME IInv, [Next]_vars
  PROVE  Links'
<1>1. CASE InitPublisher
  BY <1>1, InitPublisherEffect, NoEndpoint DEF IInv, Links, Object, Pub,
       ServerEntities, BridgeEntities, HasReader, InitPublisher, ServerGoto,
       ddsVars, timeVars, listenerVars, bridgeVars
<1>2. CASE UndoPublisher
  BY <1>2, UndoPublisherEffect, NoEndpoint DEF IInv, Links, Object, Pub,
       ServerEntities, BridgeEntities, HasReader, UndoPublisher, ServerGoto,
       ddsVars, timeVars, listenerVars, bridgeVars
<1>3. CASE RegisterCallback
  <2>1. /\ linked'["old"] = linked["pub"] /\ linked'["pub"] = linked["next"]
        /\ linked'["next"] = FALSE
    BY <1>3 DEF IInv, Types, FlagTypes, RegisterCallback, Moved, Pub
  <2>2. /\ wire'["old"] = wire["pub"] /\ wire'["pub"] = wire["next"]
        /\ wire'["next"] = {}
    BY <1>3 DEF IInv, Types, WireTypes, RegisterCallback, Moved, Pub
  <2> QED BY <1>3, <2>1, <2>2, RegisterCallbackEffect, NoEndpoint
       DEF IInv, Links, HasReader, Pub
<1>4. CASE DestroyPublisher
  BY <1>4, DestroyPublisherEffect DEF IInv, Links, Object, Pub,
       ServerEntities, BridgeEntities, HasReader, DestroyPublisher,
       ServerGoto, Unlink, ddsVars, timeVars, listenerVars, bridgeVars
<1>5. CASE pushlishMessageData
  BY <1>5 DEF IInv, Links, Object, Pub, ServerEntities, BridgeEntities,
       HasReader, pushlishMessageData, timeVars, listenerVars, bridgeVars
<1>6. CASE on_publication_matched
  BY <1>6 DEF IInv, Links, Object, Pub, ServerEntities, BridgeEntities,
       HasReader, on_publication_matched, MatchStored, timeVars, listenerVars,
       serverVars, bridgeVars
<1>7. CASE TakeSample
  BY <1>7 DEF IInv, Links, Object, Pub, ServerEntities, BridgeEntities,
       HasReader, TakeSample, timeVars, serverVars, bridgeVars
<1>8. CASE InitSubscriber
  BY <1>8, InitSubscriberEffect, NoEndpoint DEF IInv, Links, Object, Pub,
       ServerEntities, BridgeEntities, HasReader, InitSubscriber, BridgeAt,
       ddsVars, timeVars, listenerVars, serverVars
<1>9. CASE DestroySubscriber
  BY <1>9, DestroySubscriberEffect DEF IInv, Links, Object, Pub,
       ServerEntities, BridgeEntities, HasReader, DestroySubscriber, BridgeAt,
       Unlink, ddsVars, timeVars, listenerVars, serverVars
<1>10. CASE \/ UNCHANGED vars \/ WaitMatched \/ TakeInvalid \/ TestCallback
            \/ CallCallback \/ PublishRos \/ CreateRosPublisher \/ StampStart
            \/ set_callback \/ CreateTimer \/ Second \/ Watchdog \/ EndSpin
            \/ DestroyRosPublisher
  <2>1. UNCHANGED <<linked, wire, has>>
    BY <1>10 DEF vars, ddsVars, timeVars, listenerVars, serverVars,
         bridgeVars, WaitMatched, TakeInvalid, TestCallback, CallCallback,
         PublishRos, CreateRosPublisher, StampStart, set_callback,
         CreateTimer, Second, Watchdog, EndSpin, DestroyRosPublisher
  <2> QED BY <2>1 DEF IInv, Links, HasReader
<1> QED BY <1>1, <1>2, <1>3, <1>4, <1>5, <1>6, <1>7, <1>8, <1>9, <1>10 DEF
     Next, MainSteps, ListenerSteps, BridgeNext, ConstructorSteps,
     DestructorSteps

\* The reader is not deleted under its listener.
LEMMA ListenerHasReaderNext ==
  ASSUME IInv, [Next]_vars
  PROVE  ListenerHasReader'
<1>1. CASE InitPublisher
  BY <1>1, InitPublisherEffect DEF IInv, ListenerHasReader, HasReader, Object,
       Pub, BridgeEntities, InitPublisher, ServerGoto, ddsVars, timeVars,
       listenerVars, bridgeVars
<1>2. CASE UndoPublisher
  BY <1>2, UndoPublisherEffect DEF IInv, ListenerHasReader, HasReader, Object,
       Pub, BridgeEntities, UndoPublisher, ServerGoto, ddsVars, timeVars,
       listenerVars, bridgeVars
<1>3. CASE RegisterCallback
  BY <1>3, RegisterCallbackEffect DEF IInv, ListenerHasReader, HasReader,
       Object, Pub, BridgeEntities, RegisterCallback, ServerGoto, Moved,
       timeVars, listenerVars, bridgeVars
<1>4. CASE DestroyPublisher
  BY <1>4, DestroyPublisherEffect DEF IInv, ListenerHasReader, HasReader,
       Object, Pub, BridgeEntities, DestroyPublisher, ServerGoto, Unlink,
       ddsVars, timeVars, listenerVars, bridgeVars
<1>5. CASE TakeSample
  BY <1>5 DEF IInv, ListenerHasReader, HasReader, Object, Pub, BridgeEntities,
       TakeSample, timeVars, serverVars, bridgeVars, Links
<1>6. CASE TakeInvalid
  BY <1>6 DEF IInv, ListenerHasReader, HasReader, Object, Pub, BridgeEntities,
       TakeInvalid, ddsVars, timeVars, serverVars, bridgeVars
<1>7. CASE TestCallback
  BY <1>7 DEF IInv, ListenerHasReader, HasReader, Object, Pub, BridgeEntities,
       TestCallback, ddsVars, timeVars, serverVars, bridgeVars
<1>8. CASE CallCallback
  BY <1>8 DEF IInv, ListenerHasReader, HasReader, Object, Pub, BridgeEntities,
       CallCallback, ddsVars, timeVars, serverVars, bridgeVars
<1>9. CASE PublishRos
  BY <1>9 DEF IInv, ListenerHasReader, HasReader, Object, Pub, BridgeEntities,
       PublishRos, ddsVars, timeVars, serverVars, bridgeVars
<1>10. CASE InitSubscriber
  BY <1>10, InitSubscriberEffect, NoEndpoint DEF IInv, ListenerHasReader,
       HasReader, Object, Pub, BridgeEntities, InitSubscriber, BridgeAt,
       ddsVars, timeVars, listenerVars, serverVars
<1>11. CASE DestroySubscriber
  BY <1>11, DestroySubscriberEffect DEF IInv, ListenerHasReader, HasReader,
       Object, Pub, BridgeEntities, DestroySubscriber, BridgeAt, Unlink,
       ddsVars, timeVars, listenerVars, serverVars
<1>12. CASE \/ UNCHANGED vars \/ WaitMatched \/ pushlishMessageData
            \/ on_publication_matched \/ CreateRosPublisher \/ StampStart
            \/ set_callback \/ CreateTimer \/ Second \/ Watchdog \/ EndSpin
            \/ DestroyRosPublisher
  <2>1. UNCHANGED <<listener, has>>
    BY <1>12 DEF vars, ddsVars, timeVars, listenerVars, serverVars,
         bridgeVars, WaitMatched, pushlishMessageData, on_publication_matched,
         CreateRosPublisher, StampStart, set_callback, CreateTimer, Second,
         Watchdog, EndSpin, DestroyRosPublisher
  <2> QED BY <2>1 DEF IInv, ListenerHasReader, HasReader
<1> QED BY <1>1, <1>2, <1>3, <1>4, <1>5, <1>6, <1>7, <1>8, <1>9, <1>10, <1>11,
     <1>12 DEF Next, MainSteps, ListenerSteps, BridgeNext, ConstructorSteps,
     DestructorSteps

\* The listener holds a sample from TestCallback to PublishRos.
LEMMA TakenNext ==
  ASSUME IInv, [Next]_vars
  PROVE  Taken'
<1>1. CASE TakeSample
  BY <1>1 DEF IInv, Taken, TakeSample, timeVars, serverVars, bridgeVars
<1>2. CASE TakeInvalid
  BY <1>2 DEF IInv, Taken, TakeInvalid, ddsVars, timeVars, serverVars,
       bridgeVars, HasReader
<1>3. CASE TestCallback
  BY <1>3 DEF IInv, Taken, TestCallback, ddsVars, timeVars, serverVars,
       bridgeVars
<1>4. CASE CallCallback
  BY <1>4 DEF IInv, Taken, CallCallback, ddsVars, timeVars, serverVars,
       bridgeVars
<1>5. CASE PublishRos
  BY <1>5 DEF IInv, Taken, PublishRos, ddsVars, timeVars, serverVars,
       bridgeVars
<1>6. CASE \/ UNCHANGED vars \/ InitPublisher \/ UndoPublisher
           \/ RegisterCallback \/ DestroyPublisher \/ WaitMatched
           \/ pushlishMessageData \/ on_publication_matched
           \/ CreateRosPublisher \/ InitSubscriber \/ StampStart
           \/ set_callback \/ CreateTimer \/ Second \/ Watchdog \/ EndSpin
           \/ DestroySubscriber \/ DestroyRosPublisher
  <2>1. UNCHANGED <<listener, st>>
    BY <1>6 DEF vars, ddsVars, timeVars, listenerVars, serverVars, bridgeVars,
         InitPublisher, UndoPublisher, RegisterCallback, DestroyPublisher,
         WaitMatched, pushlishMessageData, on_publication_matched,
         CreateRosPublisher, InitSubscriber, StampStart, set_callback,
         CreateTimer, Second, Watchdog, EndSpin, DestroySubscriber,
         DestroyRosPublisher
  <2> QED BY <2>1 DEF IInv, Taken
<1> QED BY <1>1, <1>2, <1>3, <1>4, <1>5, <1>6 DEF Next, MainSteps,
     ListenerSteps, BridgeNext, ConstructorSteps, DestructorSteps

\* What is missing in a silence until the watchdog must warn is less than what is
\* left until it looks.
LEMMA SilenceNext ==
  ASSUME IInv, [Next]_vars
  PROVE  Silence'
<1>1. CASE CallCallback
  BY <1>1, PeriodAssumption DEF IInv, Types, TimeTypes, Silence, CallCallback,
       ddsVars, timeVars, serverVars, bridgeVars
<1>2. CASE CreateRosPublisher
  BY <1>2 DEF IInv, Types, TimeTypes, Silence, CreateRosPublisher, BridgeAt,
       ddsVars, timeVars, listenerVars, serverVars
<1>3. CASE InitSubscriber
  BY <1>3 DEF IInv, Types, TimeTypes, Silence, InitSubscriber, BridgeAt,
       ddsVars, timeVars, listenerVars, serverVars
<1>4. CASE StampStart
  BY <1>4, PeriodAssumption DEF IInv, Types, TimeTypes, Silence, StampStart,
       BridgeAt, ddsVars, listenerVars, serverVars
<1>5. CASE set_callback
  BY <1>5 DEF IInv, Types, TimeTypes, Silence, set_callback, BridgeAt,
       ddsVars, timeVars, listenerVars, serverVars
<1>6. CASE CreateTimer
  BY <1>6, PeriodAssumption DEF IInv, Types, TimeTypes, Silence, CreateTimer,
       BridgeAt, ddsVars, listenerVars, serverVars
<1>7. CASE Second
  BY <1>7, PeriodAssumption DEF IInv, Types, TimeTypes, Silence, Second,
       BridgeAt, ddsVars, listenerVars, serverVars, bridgeVars
<1>8. CASE Watchdog
  <2>1. /\ timer' = Period /\ age' = age /\ bridge' = bridge /\ bridge = "spin"
    BY <1>8 DEF Watchdog, BridgeAt, bridgeVars
  <2>2. age > Period => warned'
    <3>1. ASSUME age > Period PROVE TooOld = {TRUE}
      <4>1. age # Period /\ (age > Period) = TRUE
        BY <3>1, PeriodAssumption DEF IInv, Types, TimeTypes
      <4> QED BY <4>1, Zenon DEF TooOld
    <3>2. \E old \in TooOld : warned' = (warned \/ old)
      BY <1>8 DEF Watchdog
    <3> QED BY <3>1, <3>2, Forced
  <2> QED BY <2>1, <2>2, PeriodAssumption DEF IInv, Types, TimeTypes, Silence
<1>9. CASE EndSpin
  BY <1>9, PeriodAssumption DEF IInv, Types, TimeTypes, Silence, EndSpin,
       BridgeAt, ddsVars, listenerVars, serverVars
<1>10. CASE DestroySubscriber
  BY <1>10 DEF IInv, Types, TimeTypes, Silence, DestroySubscriber, BridgeAt,
       Unlink, ddsVars, timeVars, listenerVars, serverVars
<1>11. CASE DestroyRosPublisher
  BY <1>11 DEF IInv, Types, TimeTypes, Silence, DestroyRosPublisher, BridgeAt,
       ddsVars, timeVars, listenerVars, serverVars
<1>12. CASE \/ UNCHANGED vars \/ InitPublisher \/ UndoPublisher
            \/ RegisterCallback \/ DestroyPublisher \/ WaitMatched
            \/ pushlishMessageData \/ on_publication_matched \/ TakeSample
            \/ TakeInvalid \/ TestCallback \/ PublishRos
  <2>1. UNCHANGED <<bridge, age, timer, warned>>
    BY <1>12 DEF vars, ddsVars, timeVars, listenerVars, serverVars,
         bridgeVars, InitPublisher, UndoPublisher, RegisterCallback,
         DestroyPublisher, WaitMatched, pushlishMessageData,
         on_publication_matched, TakeSample, TakeInvalid, TestCallback,
         PublishRos
  <2> QED BY <2>1 DEF IInv, Silence
<1> QED BY <1>1, <1>2, <1>3, <1>4, <1>5, <1>6, <1>7, <1>8, <1>9, <1>10, <1>11,
     <1>12 DEF Next, MainSteps, ListenerSteps, BridgeNext, ConstructorSteps,
     DestructorSteps

\* Without a replaced publisher there is one writer, and its samples on the wire
\* are newer than what was taken and published.
LEMMA OrderedNext ==
  ASSUME IInv, [Next]_vars
  PROVE  Ordered'
<1>1. CASE RegisterCallback
  <2>1. /\ wire'["old"] = wire["pub"] /\ wire'["pub"] = wire["next"]
        /\ wire'["next"] = {}
    BY <1>1 DEF IInv, Types, WireTypes, RegisterCallback, Moved, Pub
  <2>2. ~disordered' => wire["pub"] = {}
    BY <1>1 DEF IInv, Links, Pub, RegisterCallback
  <2>3. UNCHANGED <<st, ros, written>> /\ (~disordered' => ~disordered)
    BY <1>1 DEF RegisterCallback, listenerVars
  <2> QED BY <2>1, <2>2, <2>3 DEF IInv, Ordered, Pub
<1>2. CASE DestroyPublisher
  <2>1. /\ wire'["pub"] = wire["pub"] /\ wire'["next"] = wire["next"]
        /\ wire["old"] = {} => wire'["old"] = {}
        /\ wire'["old"] \subseteq wire["old"]
    BY <1>2, DestroyPublisherEffect DEF Unlink, Pub
  <2>2. UNCHANGED <<st, ros, written, disordered>>
    BY <1>2 DEF DestroyPublisher, listenerVars
  <2>3. Ordered /\ Pub = {"next", "pub", "old"} BY DEF IInv, Pub
  <2> QED BY <2>1, <2>2, <2>3 DEF Ordered
<1>3. CASE pushlishMessageData
  BY <1>3 DEF IInv, Types, SampleTypes, WireTypes, Sample, Ordered,
       pushlishMessageData, timeVars, listenerVars, bridgeVars
<1>4. CASE TakeSample
  <2>0. PICK p \in Pub : \E n \in wire[p] :
          /\ st' = n
          /\ wire' = [wire EXCEPT ![p] = {m \in @ : m > n}]
    BY <1>4 DEF TakeSample
  <2>1. PICK n \in wire[p] :
          /\ st' = n
          /\ wire' = [wire EXCEPT ![p] = {m \in @ : m > n}]
    BY <2>0
  <2>2. n \in 1 .. MaxSample /\ p # "next"
    BY <2>1 DEF IInv, Types, WireTypes, Sample, Ordered
  <2>3. /\ wire'["next"] = {}
        /\ ~disordered => /\ p = "pub" /\ wire'["old"] = {}
                          /\ wire'["pub"] = {m \in wire["pub"] : m > n}
    BY <2>1, <2>2 DEF IInv, Types, WireTypes, Ordered, Pub
  <2>4. UNCHANGED <<ros, written, disordered>> /\ n <= written
    BY <1>4, <2>1 DEF TakeSample, serverVars, IInv, Ordered
  <2> QED BY <2>1, <2>2, <2>3, <2>4, MaxSampleAssumption
       DEF IInv, Types, SampleTypes, WireTypes, Sample, Ordered, Pub
<1>5. CASE TakeInvalid
  BY <1>5 DEF IInv, Types, SampleTypes, WireTypes, Sample, Ordered,
       TakeInvalid, ddsVars, timeVars, serverVars, bridgeVars, HasReader
<1>6. CASE TestCallback
  BY <1>6 DEF IInv, Types, SampleTypes, WireTypes, Sample, Ordered,
       TestCallback, ddsVars, timeVars, serverVars, bridgeVars
<1>7. CASE PublishRos
  BY <1>7 DEF IInv, Types, SampleTypes, WireTypes, Sample, Ordered,
       PublishRos, ddsVars, timeVars, serverVars, bridgeVars
<1>8. CASE DestroySubscriber
  <2>1. \A p \in Pub : wire'[p] \subseteq wire[p]
    BY <1>8, DestroySubscriberEffect DEF Unlink, Pub
  <2> QED BY <1>8, <2>1 DEF IInv, Ordered, DestroySubscriber, listenerVars,
       serverVars, Pub
<1>9. CASE \/ UNCHANGED vars \/ InitPublisher \/ UndoPublisher \/ WaitMatched
           \/ on_publication_matched \/ CallCallback \/ CreateRosPublisher
           \/ InitSubscriber \/ StampStart \/ set_callback \/ CreateTimer
           \/ Second \/ Watchdog \/ EndSpin \/ DestroyRosPublisher
  <2>1. UNCHANGED <<st, ros, written, disordered, wire>>
    BY <1>9 DEF vars, ddsVars, timeVars, listenerVars, serverVars, bridgeVars,
         InitPublisher, UndoPublisher, WaitMatched, on_publication_matched,
         CallCallback, CreateRosPublisher, InitSubscriber, StampStart,
         set_callback, CreateTimer, Second, Watchdog, EndSpin,
         DestroyRosPublisher
  <2> QED BY <2>1 DEF IInv, Ordered
<1> QED BY <1>1, <1>2, <1>3, <1>4, <1>5, <1>6, <1>7, <1>8, <1>9 DEF Next,
     MainSteps, ListenerSteps, BridgeNext, ConstructorSteps, DestructorSteps

-----------------------------------------------------------------------------

LEMMA InitIInv == Init => IInv
<1> SUFFICES ASSUME Init PROVE IInv OBVIOUS
<1> USE DEF Init
<1>1. ControlTypes
  BY DEF ControlTypes
<1>2. FlagTypes
  BY Zenon DEF FlagTypes
<1>3. EntityTypes
  <2>1. <<>> \in Seq(Entity)
    BY EmptySeq
  <2> QED BY <2>1 DEF EntityTypes, Object
<1>4. WireTypes
  BY DEF WireTypes
<1>5. SampleTypes
  BY MaxSampleAssumption DEF SampleTypes
<1>6. TimeTypes
  BY PeriodAssumption DEF TimeTypes
<1>7. ServerEntities
  BY NoEndpoint DEF ServerEntities, Pub
<1>8. BridgeEntities
  BY DEF BridgeEntities
<1>9. Links
  BY DEF Links
<1>10. ListenerHasReader /\ Taken
  BY DEF ListenerHasReader, Taken
<1>11. Silence
  BY PeriodAssumption DEF Silence
<1>12. Ordered
  BY MaxSampleAssumption DEF Ordered, Pub
<1> QED
  BY <1>1, <1>2, <1>3, <1>4, <1>5, <1>6, <1>7, <1>8, <1>9, <1>10, <1>11, <1>12
     DEF IInv, Types

LEMMA NextIInv == IInv /\ [Next]_vars => IInv'
BY ControlTypesNext, FlagTypesNext, EntityTypesNext, WireTypesNext,
   SampleTypesNext, TimeTypesNext, ServerEntitiesNext, BridgeEntitiesNext,
   LinksNext, ListenerHasReaderNext, TakenNext, SilenceNext, OrderedNext
   DEF IInv, Types

LEMMA SpecIInv == Spec => []IInv
  BY InitIInv, NextIInv, PTL DEF Spec, SafeSpec

-----------------------------------------------------------------------------

\* Every variable keeps its type, a writer or reader exists only in a complete
\* object, and a link has both its ends.
THEOREM TypeCorrect == Spec => []TypeOK
<1>1. ASSUME IInv PROVE TypeOK
  <2>1. \A o \in Pub \cup {"sub"} : "endpoint" \in has[o] => has[o] = Entity
    <3>1. \A E \in Made : "endpoint" \in E => E = Entity
      BY NoEndpoint
    <3>2. \A s, E : PubLeft(s, E) \/ SubLeft(s, E) => ("endpoint" \in E => E = Entity)
      BY <3>1 DEF PubLeft, SubLeft
    <3>3. has["next"] = Entity \/ "endpoint" \notin has["next"]
      BY <1>1, <3>1, <3>2
         DEF IInv, Types, ControlTypes, ServerEntities
    <3>4. has["pub"] = Entity \/ "endpoint" \notin has["pub"]
      BY <1>1, <3>1, <3>2 DEF IInv, ServerEntities
    <3>5. has["old"] = Entity \/ /\ "endpoint" \notin has["old"]
      BY <1>1, <3>1, <3>2 DEF IInv, ServerEntities
    <3>6. has["sub"] = Entity \/ /\ "endpoint" \notin has["sub"]
      BY <1>1, <3>1, <3>2
         DEF IInv, Types, ControlTypes, BridgeEntities
    <3> QED BY <3>3, <3>4, <3>5, <3>6 DEF Pub
  <2>2. \A s \in {"server", "bridge"} : todo[s] \in Seq(Entity)
    BY <1>1 DEF IInv, Types, EntityTypes
  <2>3. has \in [Pub \cup {"sub"} -> SUBSET Entity]
    BY <1>1 DEF IInv, Types, EntityTypes, Object
  <2>4. \A p \in Pub : linked[p] => HasReader /\ "endpoint" \in has[p]
    BY <1>1 DEF IInv, Links
  <2> QED
    BY <1>1, <2>1, <2>2, <2>3, <2>4, Zenon
       DEF IInv, Types, ControlTypes, FlagTypes, WireTypes, SampleTypes,
           TimeTypes, TypeOK
<1> QED BY <1>1, SpecIInv, PTL

\* No DDS entity outlives its owner, whichever step of init failed: DDS refuses
\* none of the deletions (LidarMsgPublisher.cxx:46, LidarMsgSubscriber.cxx:43).
THEOREM NoEntityLeftHolds == Spec => []NoEntityLeft
<1>1. IInv => NoEntityLeft
  BY DEF IInv, ServerEntities, BridgeEntities, NoEntityLeft
<1> QED BY <1>1, SpecIInv, PTL

\* The node's publisher exists while the callback of the subscriber uses it
\* (ldlidar_ros_bridge.cpp:83-84): the listener has a reader, and the node ends
\* only after its subscriber.
THEOREM RosPublisherAliveHolds == Spec => []RosPublisherAlive
<1>1. ASSUME IInv PROVE RosPublisherAlive
  <2>1. HasReader => bridge # "ended"
    BY <1>1 DEF IInv, BridgeEntities, HasReader
  <2> QED
    BY <1>1, <2>1 DEF IInv, BridgeEntities, ListenerHasReader, RosPublisherAlive
<1> QED BY <1>1, SpecIInv, PTL

\* Silence of more than twice the period has been reported
\* (ldlidar_ros_bridge.cpp:67).
THEOREM SilenceReportedHolds == Spec => []SilenceReported
<1>1. IInv => SilenceReported
  BY PeriodAssumption DEF IInv, Types, TimeTypes, Silence, SilenceReported
<1> QED BY <1>1, SpecIInv, PTL

\* Scans appear on ROS in the order they were made, unless a publisher was
\* replaced that a subscriber had found (ldlidar_dds_server_publisher.cpp:96-107).
THEOREM ScansInOrderHolds == Spec => ScansInOrder
<1>1. ASSUME IInv, [Next]_vars
      PROVE  ros' # ros => ros' > ros \/ disordered
  <2>1. CASE PublishRos
    BY <1>1, <2>1 DEF IInv, Taken, Ordered, PublishRos
  <2>2. CASE ~PublishRos
    <3>1. ros' = ros
      BY <1>1, <2>2
         DEF Next, MainSteps, ListenerSteps, BridgeNext, ConstructorSteps,
             DestructorSteps, vars, ddsVars, timeVars, listenerVars, serverVars, bridgeVars,
             InitPublisher, UndoPublisher, RegisterCallback,
             DestroyPublisher, WaitMatched, pushlishMessageData,
             on_publication_matched, TakeSample, TakeInvalid, TestCallback,
             CallCallback, CreateRosPublisher, InitSubscriber, StampStart,
             set_callback, CreateTimer, Second, Watchdog, EndSpin,
             DestroySubscriber, DestroyRosPublisher
    <3> QED BY <3>1
  <2> QED BY <2>1, <2>2
<1> QED BY <1>1, SpecIInv, PTL DEF Spec, SafeSpec, ScansInOrder

=============================================================================
