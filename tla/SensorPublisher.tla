--------------------------- MODULE SensorPublisher ---------------------------
(***************************************************************************)
(* The two nodes that publish the sensor's data: the plain one             *)
(* (src/ros2/ros2_publisher_node.cpp), which begins in its constructor,    *)
(* and the managed one (src/ros2/ros2_lifecycle_publisher_node.cpp), which *)
(* follows the transitions of a lifecycle manager and publishes only what  *)
(* it has not seen before.                                                 *)
(*                                                                         *)
(* The executor of main() is multi-threaded: a transition may run while a  *)
(* callback of the sensor timer is under way, and a driver call that meets *)
(* a bus in trouble takes seconds.                                         *)
(*                                                                         *)
(* The data in the chip is a frame, and what has been read is known by     *)
(* whether it is of the frame the chip holds now.  A frame differs from    *)
(* the one before it.                                                      *)
(***************************************************************************)
EXTENDS Integers

VARIABLES
  kind,                   \* plain or managed
  lifecycle, transition,  \* the state of the node, and where on_cleanup is
  initialized,            \* initialized_
  publisher,              \* imu_pub_ and the others
  timer,                  \* does sensor_timer_ exist?
  pc, sample,             \* publishSensorData: where it is, the orientation it read
  borrowed,               \* does the driver it calls still exist?
  seen,                   \* is last_raw_ the frame in the chip?
  bus,                    \* up or down
  outlived,               \* history: the timer fired before the last deactivation
  strays,                 \* history: transforms sent since then by a node not active
  copies, blind           \* history: messages with the chip's frame; a raw read failed

nodeVars == <<lifecycle, transition, initialized, publisher, timer>>
callbackVars == <<pc, sample, borrowed, outlived, strays>>
frameVars == <<seen, copies, blind>>
vars == <<kind, nodeVars, callbackVars, frameVars, bus>>

Terminate ==
  /\ lifecycle' = "dead" /\ timer' = FALSE /\ transition' = "none" /\ pc' = "idle"
  /\ UNCHANGED <<kind, initialized, publisher, sample, borrowed, outlived, strays,
                 frameVars, bus>>
-----------------------------------------------------------------------------
(* The plain node is on from its constructor on.                            *)

Construct ==
  /\ kind = "plain" /\ lifecycle = "unconfigured"
  /\ initialized' = (bus = "up")
  /\ lifecycle' = "active" /\ publisher' = "on" /\ timer' = TRUE
  /\ UNCHANGED <<kind, transition, callbackVars, frameVars, bus>>

\* publishSensorData reads everything in one burst, or drops the frame.
PublishBurst ==
  /\ kind = "plain" /\ timer /\ initialized /\ bus = "up"
  /\ copies' = IF copies < 3 THEN copies + 1 ELSE copies
  /\ UNCHANGED <<kind, nodeVars, callbackVars, seen, blind, bus>>
-----------------------------------------------------------------------------
(* Transitions of the managed node.                                         *)

Begin(state) == kind = "managed" /\ lifecycle = state /\ transition = "none"

\* Mutant of Configure: the node does not note that the hardware is there.
ConfigureUnnoted ==
  /\ Begin("unconfigured") /\ bus = "up"
  /\ lifecycle' = "inactive" /\ publisher' = "off"
  /\ UNCHANGED <<kind, initialized, transition, timer, callbackVars, frameVars, bus>>

\* begin() and the configuration that follows it.  Without the hardware the
\* transition fails and leaves a driver that is not used.
Configure ==
  /\ Begin("unconfigured") /\ bus = "up"
  /\ lifecycle' = "inactive" /\ initialized' = TRUE /\ publisher' = "off"
  /\ UNCHANGED <<kind, transition, timer, callbackVars, frameVars, bus>>

Activate ==
  /\ Begin("inactive")
  /\ lifecycle' = "active" /\ publisher' = "on" /\ timer' = TRUE
  /\ UNCHANGED <<kind, transition, initialized, callbackVars, frameVars, bus>>

\* Mutants of Deactivate: the publishers stay on, the timer stays.
DeactivateTimer ==
  /\ Begin("active")
  /\ lifecycle' = "inactive" /\ timer' = FALSE
  /\ outlived' = (pc # "idle") /\ strays' = 0
  /\ UNCHANGED <<kind, transition, initialized, publisher, pc, sample, borrowed,
                 frameVars, bus>>

DeactivatePublisher ==
  /\ Begin("active")
  /\ lifecycle' = "inactive" /\ publisher' = "off"
  /\ outlived' = (pc # "idle") /\ strays' = 0
  /\ UNCHANGED <<kind, transition, initialized, timer, pc, sample, borrowed, frameVars,
                 bus>>

\* A callback that is under way, or taken by a thread of the executor, is not waited for.
Deactivate ==
  /\ Begin("active")
  /\ lifecycle' = "inactive" /\ publisher' = "off" /\ timer' = FALSE
  /\ outlived' = (pc # "idle") /\ strays' = 0
  /\ UNCHANGED <<kind, transition, initialized, pc, sample, borrowed, frameVars, bus>>

\* on_cleanup: the publishers go, ...
CleanUp ==
  /\ Begin("inactive")
  /\ transition' = "driver" /\ publisher' = "none"
  /\ UNCHANGED <<kind, lifecycle, initialized, timer, callbackVars, frameVars, bus>>

\* ... the driver ...
CleanUpDriver ==
  /\ transition = "driver"
  /\ transition' = "flag" /\ borrowed' = FALSE
  /\ UNCHANGED <<kind, lifecycle, initialized, publisher, timer, pc, sample, outlived,
                 strays, frameVars, bus>>

\* ... and initialized_ last.  The raw frame seen last is kept.
CleanUpFlag ==
  /\ transition = "flag"
  /\ transition' = "none" /\ initialized' = FALSE /\ lifecycle' = "unconfigured"
  /\ UNCHANGED <<kind, publisher, timer, callbackVars, frameVars, bus>>

\* on_shutdown leaves everything as it is.
ShutDown ==
  /\ \E state \in {"unconfigured", "inactive", "active"} : Begin(state)
  /\ lifecycle' = "finalized"
  /\ UNCHANGED <<kind, transition, initialized, publisher, timer, callbackVars, frameVars,
                 bus>>
-----------------------------------------------------------------------------
(* publishSensorData of the managed node.                                   *)

\* The timer fires: a thread of the executor takes its callback.
Take ==
  /\ kind = "managed" /\ timer /\ pc = "idle"
  /\ pc' = "taken" /\ outlived' = FALSE
  /\ UNCHANGED <<kind, nodeVars, sample, borrowed, strays, frameVars, bus>>

\* initialized_ is looked at before imu_pub_, which may be gone already.
StartCycle ==
  /\ pc = "taken"
  /\ IF initialized /\ publisher = "none" THEN Terminate
     ELSE /\ \/ initialized /\ publisher = "on" /\ pc' = "raw" /\ borrowed' = TRUE
             \/ ~(initialized /\ publisher = "on") /\ pc' = "idle" /\ UNCHANGED borrowed
          /\ UNCHANGED <<kind, nodeVars, sample, outlived, strays, frameVars, bus>>

\* Mutant of FinishRaw: the frame is compared but not kept.
FinishRawForgetting ==
  /\ pc = "raw"
  /\ IF ~borrowed THEN Terminate
     ELSE /\ pc' = IF bus = "up" /\ seen THEN "idle" ELSE "quat"
          /\ blind' = (blind \/ bus = "down")
          /\ UNCHANGED <<kind, nodeVars, sample, borrowed, outlived, strays, seen, copies,
                         bus>>

\* getRawSensorDataNoexcept returns: a frame seen before ends the cycle; a frame that
\* could not be read is not compared.
FinishRaw ==
  /\ pc = "raw"
  /\ IF ~borrowed THEN Terminate
     ELSE /\ pc' = IF bus = "up" /\ seen THEN "idle" ELSE "quat"
          /\ seen' = (seen \/ bus = "up") /\ blind' = (blind \/ bus = "down")
          /\ UNCHANGED <<kind, nodeVars, sample, borrowed, outlived, strays, copies, bus>>

\* getQuaternionNoexcept returns, with the frame the chip holds by then.
FinishQuaternion ==
  /\ pc = "quat"
  /\ IF ~borrowed THEN Terminate
     ELSE /\ pc' = "rest" /\ sample' = IF bus = "up" THEN "new" ELSE "none"
          /\ UNCHANGED <<kind, nodeVars, borrowed, outlived, strays, frameVars, bus>>

\* The other six reads return.  Orientation, rates and acceleration make a message.
Complete == sample # "none" /\ bus = "up"

\* The message leaves by a lifecycle publisher ...
PublishImu ==
  /\ pc = "rest" /\ borrowed /\ Complete /\ publisher = "on"
  /\ copies' = IF sample = "new" /\ copies < 3 THEN copies + 1 ELSE copies
  /\ pc' = "transform" /\ sample' = "none"
  /\ UNCHANGED <<kind, nodeVars, borrowed, outlived, strays, seen, blind, bus>>

\* ... which drops it when it is off.  Other data goes on without a message.
DropImu ==
  /\ pc = "rest"
  /\ IF ~borrowed \/ (Complete /\ publisher = "none") THEN Terminate
     ELSE /\ ~(Complete /\ publisher = "on")
          /\ pc' = IF Complete THEN "transform"
                   ELSE IF sample # "none" \/ bus = "up" THEN "others" ELSE "idle"
          /\ sample' = "none"
          /\ UNCHANGED <<kind, nodeVars, borrowed, outlived, strays, frameVars, bus>>

\* tf_broadcaster_ is no lifecycle publisher: the transform leaves in any state of the
\* node, if publish_tf asks for it.
SendTransform ==
  /\ pc = "transform" /\ pc' = "others"
  /\ strays' = IF lifecycle \in {"inactive", "unconfigured"} /\ strays < 2
               THEN strays + 1 ELSE strays
  /\ UNCHANGED <<kind, nodeVars, sample, borrowed, outlived, frameVars, bus>>

SkipTransform ==
  /\ pc = "transform" /\ pc' = "others"
  /\ UNCHANGED <<kind, nodeVars, sample, borrowed, outlived, strays, frameVars, bus>>

\* Each of the other publishers is asked whether it is activated.
PublishOthers ==
  /\ pc = "others" /\ publisher = "on"
  /\ pc' = "idle"
  /\ UNCHANGED <<kind, nodeVars, sample, borrowed, outlived, strays, frameVars, bus>>

DropOthers ==
  /\ pc = "others" /\ publisher # "on"
  /\ IF publisher = "none" THEN Terminate
     ELSE /\ pc' = "idle"
          /\ UNCHANGED <<kind, nodeVars, sample, borrowed, outlived, strays, frameVars, bus>>
-----------------------------------------------------------------------------
\* The chip has a new frame: what was read of the one before is old.
ChipUpdates ==
  /\ bus = "up" /\ lifecycle # "dead"
  /\ sample' = IF sample = "new" THEN "old" ELSE sample
  /\ seen' = FALSE /\ copies' = 0 /\ blind' = FALSE
  /\ UNCHANGED <<kind, nodeVars, pc, borrowed, outlived, strays, bus>>

BusChanges ==
  /\ bus' = IF bus = "up" THEN "down" ELSE "up"
  /\ UNCHANGED <<kind, nodeVars, callbackVars, frameVars>>

Init ==
  /\ kind \in {"plain", "managed"}
  /\ lifecycle = "unconfigured" /\ transition = "none"
  /\ initialized = FALSE /\ publisher = "none" /\ timer = FALSE
  /\ pc = "idle" /\ sample = "none" /\ borrowed = FALSE /\ outlived = FALSE /\ strays = 0
  /\ seen = FALSE /\ copies = 0 /\ blind = FALSE
  /\ bus \in {"up", "down"}

CleanUpStep == CleanUpDriver \/ CleanUpFlag
CallbackStep ==
  \/ StartCycle \/ FinishRaw \/ FinishQuaternion \/ PublishImu \/ DropImu
  \/ SendTransform \/ SkipTransform \/ PublishOthers \/ DropOthers

Next ==
  \/ Construct \/ PublishBurst
  \/ Configure \/ Activate \/ Deactivate \/ CleanUp \/ CleanUpStep \/ ShutDown
  \/ Take \/ CallbackStep
  \/ ChipUpdates \/ BusChanges

Spec == Init /\ [][Next]_vars

\* Timers fire, and transitions and callbacks that have begun come to their end.
FairSpec ==
  /\ Spec
  /\ WF_vars(Take) /\ WF_vars(CallbackStep) /\ WF_vars(CleanUpStep)
-----------------------------------------------------------------------------
\* Every variable stays in its domain, the timer exists only while the publishers are
\* on, and a callback that goes on has a driver unless it outlived its activation.
TypeOK ==
  /\ kind \in {"plain", "managed"}
  /\ lifecycle \in {"unconfigured", "inactive", "active", "finalized", "dead"}
  /\ transition \in {"none", "driver", "flag"}
  /\ publisher \in {"none", "off", "on"}
  /\ initialized \in BOOLEAN /\ timer \in BOOLEAN
  /\ borrowed \in BOOLEAN /\ outlived \in BOOLEAN /\ seen \in BOOLEAN /\ blind \in BOOLEAN
  /\ pc \in {"idle", "taken", "raw", "quat", "rest", "transform", "others"}
  /\ strays \in 0 .. 2 /\ sample \in {"none", "new", "old"}
  /\ copies \in 0 .. 3 /\ bus \in {"up", "down"}
  /\ timer => publisher = "on"
  /\ pc \notin {"idle", "taken"} /\ ~borrowed => outlived

\* A node that is not active sends no sensor message, whatever callback is still under
\* way.  A transform it may send, for the broadcaster has no lifecycle, but only one for
\* each deactivation, out of a callback whose timer fired before it.
InactiveIsQuiet ==
  [][/\ PublishImu \/ PublishOthers => lifecycle \in {"active", "finalized"}
     /\ SendTransform =>
          lifecycle \in {"active", "finalized"} \/ (outlived /\ strays = 0)]_vars

\* The process is killed only by a callback that was under way, or taken, when the node
\* was deactivated and that is overtaken by the cleanup.
OnlyOvertakenCallbacksKill ==
  [][lifecycle' = "dead" => outlived]_vars

\* The filter lets a frame through at most twice, unless it could not read the raw
\* frame.  (Twice: the data is read after the raw frame, and may be newer.)
AtMostTwice == kind = "managed" => copies <= 2 \/ blind

\* With the bus up, an active managed node publishes again and again, or the chip has
\* stopped updating a frame that the node has seen.
DataFlows ==
  <>[](kind = "managed" /\ lifecycle = "active" /\ bus = "up")
    => []<><<PublishImu>>_vars \/ <>[]seen
=============================================================================
