------------------------ MODULE LifecycleHeadingProofs -----------------------
(***************************************************************************)
(* The managed heading node stops the robot when it is deactivated and     *)
(* raises no false alarm, whether callbacks overlap or not.  Where they do *)
(* not, it also stops the robot in time and never corrects across an       *)
(* interruption.  All of it for any timeouts.                              *)
(***************************************************************************)
EXTENDS LifecycleHeading, TLAPS

\* What the state of the node says of its publisher, its timer and the robot.
PublisherOK ==
  /\ lifecycle = "active" => publisher = "on"
  /\ lifecycle \in {"unconfigured", "inactive"} => publisher # "on"
  /\ transition = "quiet" => lifecycle = "active" /\ timer = "none"
  /\ transition = "clear" => lifecycle = "inactive"
  /\ lifecycle # "dead" /\ publisher = "on" /\ transition = "none" => timer # "none"
  /\ lifecycle \in {"unconfigured", "inactive"} \/ transition = "quiet" =>
       wheels = "stop" \/ overtaken
  /\ overtaken => overlaps

\* While the alarm is on, the robot stands or the watchdog's stop is on its way.
AlarmOK ==
  lifecycle # "dead" /\ watchdog_triggered =>
    /\ pc = "idle" \/ publisher # "on" \/ transition = "quiet" => wheels = "stop"
    /\ pc # "idle" => pc = "publish" /\ leaving = "stop"

\* Callbacks do not overlap.
OneAtATime ==
  /\ pc = "idle" \/ (admin = "idle" /\ transition = "none")
  /\ admin = "idle" \/ transition = "none"
  /\ lifecycle = "dead" => pc = "idle"

\* A robot that moves was told to by a recent command, and the watchdog is due, or has
\* just been, when the command is about to be too old.
DrivenOK ==
  lifecycle # "dead" =>
    /\ publisher # "on" => wheels = "stop" /\ pc = "idle"
    /\ pc # "idle" => has_cmd /\ (watchdog_triggered \/ commandAge = 0)
    /\ wheels # "stop" =>
         /\ has_cmd /\ commandAge <= CommandTimeout + 1
         /\ commandAge = CommandTimeout + 1 => timer = "due" \/ watchdog_triggered

\* An IMU that the node trusts has not been silent for longer than the watchdog allows.
ImuOK ==
  lifecycle = "active" /\ has_imu /\ ~imu_timeout =>
    /\ imuAge <= ImuTimeout + 1
    /\ imuAge = ImuTimeout + 1 /\ transition = "none" => timer = "due"

\* A target the active node holds has lived through nothing and rests on such an IMU.
TargetOK ==
  /\ locked /\ "asleep" \notin spanned =>
       /\ has_imu /\ ~imu_timeout /\ spanned = {}
       /\ lifecycle \notin {"unconfigured", "inactive"}
  /\ admin = "take" => has_imu /\ ~imu_timeout
  /\ pc = "publish" /\ leaving = "corrected" => locked

\* What holds besides where callbacks do not overlap.
SingleOK == OneAtATime /\ DrivenOK /\ ImuOK /\ TargetOK

IInv == TypeOK /\ PublisherOK /\ AlarmOK /\ (~overlaps => SingleOK)
-----------------------------------------------------------------------------
\* An age stays an age, and grows by at most one.
LEMMA AgesOK ==
  /\ 0 \in Ages /\ Old \in Ages
  /\ \A age \in Ages : Older(age) \in Ages /\ Older(age) <= age + 1
BY TimeoutsAssumption DEF Ages, Older

\* The node starts unconfigured, with the robot standing.
LEMMA InvariantInit == Init => IInv
BY AgesOK, TimeoutsAssumption DEF Init, IInv, TypeOK, PublisherOK, AlarmOK, SingleOK,
   OneAtATime,
   DrivenOK, ImuOK, TargetOK, Commands, Events, Ages

\* The end of the process takes every claim with it.
LEMMA EndInv ==
  ASSUME IInv, Terminate
  PROVE  IInv'
<1> USE DEF IInv, hostVars, nodeVars, imuVars, commandVars, callbackVars, robotVars,
        Terminate
<1>1. TypeOK'
  BY AgesOK DEF TypeOK, PublisherOK, Commands, Events
<1>2. PublisherOK'
  BY DEF TypeOK, PublisherOK
<1>3. AlarmOK'
  BY DEF TypeOK, PublisherOK, AlarmOK
<1>4. ASSUME ~overlaps
      PROVE  SingleOK'
  <2> USE <1>4 DEF SingleOK
  <2>1. OneAtATime'
    BY DEF TypeOK, OneAtATime
  <2>2. DrivenOK'
    BY AgesOK, TimeoutsAssumption DEF TypeOK, OneAtATime, PublisherOK, AlarmOK, DrivenOK,
       Ages, Older
  <2>3. ImuOK'
    BY AgesOK, TimeoutsAssumption DEF TypeOK, OneAtATime, PublisherOK, ImuOK, TargetOK,
       Ages, Older
  <2>4. TargetOK'
    BY TimeoutsAssumption DEF TypeOK, OneAtATime, PublisherOK, DrivenOK, ImuOK, TargetOK,
       Events
  <2> QED
    BY <2>1, <2>2, <2>3, <2>4
<1>5. overlaps' = overlaps
  OBVIOUS
<1> QED
  BY <1>1, <1>2, <1>3, <1>4, <1>5

\* A configured node does not publish yet.
LEMMA ConfigureInv ==
  ASSUME IInv, Configure
  PROVE  IInv'
<1> SUFFICES ASSUME ~Terminate
            PROVE  IInv'
  BY EndInv
<1> USE DEF IInv, hostVars, nodeVars, imuVars, commandVars, callbackVars, robotVars,
        Configure, Begin, TransitionMay
<1>1. TypeOK'
  <2>1. /\ overlaps' \in BOOLEAN /\ declared' \in BOOLEAN /\ overtaken' \in BOOLEAN
        /\ subscribed' \in BOOLEAN /\ has_imu' \in BOOLEAN /\ has_cmd' \in BOOLEAN
    BY DEF TypeOK
  <2>2. imu_timeout' \in BOOLEAN /\ watchdog_triggered' \in BOOLEAN /\ locked' \in BOOLEAN
    BY DEF TypeOK
  <2>3. imuAge' \in Ages /\ commandAge' \in Ages /\ gyro' \in {"still", "rotating"}
    BY AgesOK DEF TypeOK
  <2>4. /\ lifecycle' \in {"unconfigured", "inactive", "active", "finalized", "dead"}
        /\ transition' \in {"none", "quiet", "clear"} /\ publisher' \in {"none", "off", "on"}
        /\ pc' \in {"idle", "decide", "publish"} /\ admin' \in {"idle", "take"}
    BY DEF TypeOK
  <2>5. timer' \in {"none", "waiting", "due"} /\ (timer' # "none" => publisher' = "on")
    BY DEF TypeOK, PublisherOK
  <2>6. /\ arriving' \in Commands /\ leaving' \in Commands \cup {"corrected"}
        /\ wheels' \in Commands \cup {"corrected"} /\ spanned' \subseteq Events
    BY DEF TypeOK, Commands, Events
  <2> QED
    BY <2>1, <2>2, <2>3, <2>4, <2>5, <2>6 DEF TypeOK
<1>2. PublisherOK'
  BY DEF TypeOK, PublisherOK
<1>3. AlarmOK'
  BY DEF TypeOK, PublisherOK, AlarmOK
<1>4. ASSUME ~overlaps
      PROVE  SingleOK'
  <2> USE <1>4 DEF SingleOK
  <2>1. OneAtATime'
    BY DEF TypeOK, OneAtATime
  <2>2. DrivenOK'
    BY AgesOK, TimeoutsAssumption DEF TypeOK, OneAtATime, PublisherOK, AlarmOK, DrivenOK,
       Ages, Older
  <2>3. ImuOK'
    BY AgesOK, TimeoutsAssumption DEF TypeOK, OneAtATime, PublisherOK, ImuOK, TargetOK,
       Ages, Older
  <2>4. TargetOK'
    BY TimeoutsAssumption DEF TypeOK, OneAtATime, PublisherOK, DrivenOK, ImuOK, TargetOK,
       Events
  <2> QED
    BY <2>1, <2>2, <2>3, <2>4
<1>5. overlaps' = overlaps
  OBVIOUS
<1> QED
  BY <1>1, <1>2, <1>3, <1>4, <1>5

\* Activation finds the robot standing and starts the watchdog.
LEMMA ActivateInv ==
  ASSUME IInv, Activate
  PROVE  IInv'
<1> USE DEF IInv, hostVars, nodeVars, imuVars, commandVars, callbackVars, robotVars,
        Activate, Begin, TransitionMay
<1>1. TypeOK'
  BY AgesOK DEF TypeOK, PublisherOK, Commands, Events
<1>2. PublisherOK'
  BY DEF TypeOK, PublisherOK
<1>3. AlarmOK'
  BY DEF TypeOK, PublisherOK, AlarmOK
<1>4. ASSUME ~overlaps
      PROVE  SingleOK'
  <2> USE <1>4 DEF SingleOK
  <2>1. OneAtATime'
    BY DEF TypeOK, OneAtATime
  <2>2. DrivenOK'
    BY AgesOK, TimeoutsAssumption DEF TypeOK, OneAtATime, PublisherOK, AlarmOK, DrivenOK,
       Ages, Older
  <2>3. ImuOK'
    BY AgesOK, TimeoutsAssumption DEF TypeOK, OneAtATime, PublisherOK, ImuOK, TargetOK,
       Ages, Older
  <2>4. TargetOK'
    BY TimeoutsAssumption DEF TypeOK, OneAtATime, PublisherOK, DrivenOK, ImuOK, TargetOK,
       Events
  <2> QED
    BY <2>1, <2>2, <2>3, <2>4
<1>5. overlaps' = overlaps
  OBVIOUS
<1> QED
  BY <1>1, <1>2, <1>3, <1>4, <1>5

\* The robot is stopped while the publisher is on.
LEMMA DeactivateInv ==
  ASSUME IInv, Deactivate
  PROVE  IInv'
<1> USE DEF IInv, hostVars, nodeVars, imuVars, commandVars, callbackVars, robotVars,
        Deactivate, Begin, TransitionMay
<1>1. TypeOK'
  <2>1. /\ overlaps' \in BOOLEAN /\ declared' \in BOOLEAN /\ overtaken' \in BOOLEAN
        /\ subscribed' \in BOOLEAN /\ has_imu' \in BOOLEAN /\ has_cmd' \in BOOLEAN
    BY DEF TypeOK
  <2>2. imu_timeout' \in BOOLEAN /\ watchdog_triggered' \in BOOLEAN /\ locked' \in BOOLEAN
    BY DEF TypeOK
  <2>3. imuAge' \in Ages /\ commandAge' \in Ages /\ gyro' \in {"still", "rotating"}
    BY AgesOK DEF TypeOK
  <2>4. /\ lifecycle' \in {"unconfigured", "inactive", "active", "finalized", "dead"}
        /\ transition' \in {"none", "quiet", "clear"} /\ publisher' \in {"none", "off", "on"}
        /\ pc' \in {"idle", "decide", "publish"} /\ admin' \in {"idle", "take"}
    BY DEF TypeOK
  <2>5. timer' \in {"none", "waiting", "due"} /\ (timer' # "none" => publisher' = "on")
    BY DEF TypeOK, PublisherOK
  <2>6. /\ arriving' \in Commands /\ leaving' \in Commands \cup {"corrected"}
        /\ wheels' \in Commands \cup {"corrected"} /\ spanned' \subseteq Events
    BY DEF TypeOK, Commands, Events
  <2> QED
    BY <2>1, <2>2, <2>3, <2>4, <2>5, <2>6 DEF TypeOK
<1>2. PublisherOK'
  BY DEF TypeOK, PublisherOK
<1>3. AlarmOK'
  BY DEF TypeOK, PublisherOK, AlarmOK
<1>4. ASSUME ~overlaps
      PROVE  SingleOK'
  <2> USE <1>4 DEF SingleOK
  <2>1. OneAtATime'
    BY DEF TypeOK, OneAtATime
  <2>2. DrivenOK'
    BY AgesOK, TimeoutsAssumption DEF TypeOK, OneAtATime, PublisherOK, AlarmOK, DrivenOK,
       Ages, Older
  <2>3. ImuOK'
    BY AgesOK, TimeoutsAssumption DEF TypeOK, OneAtATime, PublisherOK, ImuOK, TargetOK,
       Ages, Older
  <2>4. TargetOK'
    BY TimeoutsAssumption DEF TypeOK, OneAtATime, PublisherOK, DrivenOK, ImuOK, TargetOK,
       Events
  <2> QED
    BY <2>1, <2>2, <2>3, <2>4
<1>5. overlaps' = overlaps
  OBVIOUS
<1> QED
  BY <1>1, <1>2, <1>3, <1>4, <1>5

\* The publisher goes off with the robot standing, or overtaken, and the target is given up.
LEMMA QuietInv ==
  ASSUME IInv, DeactivatePublisher
  PROVE  IInv'
<1> USE DEF IInv, hostVars, nodeVars, imuVars, commandVars, callbackVars, robotVars,
        DeactivatePublisher, TransitionMay
<1>1. TypeOK'
  <2>1. /\ overlaps' \in BOOLEAN /\ declared' \in BOOLEAN /\ overtaken' \in BOOLEAN
        /\ subscribed' \in BOOLEAN /\ has_imu' \in BOOLEAN /\ has_cmd' \in BOOLEAN
    BY DEF TypeOK
  <2>2. imu_timeout' \in BOOLEAN /\ watchdog_triggered' \in BOOLEAN /\ locked' \in BOOLEAN
    BY DEF TypeOK
  <2>3. imuAge' \in Ages /\ commandAge' \in Ages /\ gyro' \in {"still", "rotating"}
    BY AgesOK DEF TypeOK
  <2>4. /\ lifecycle' \in {"unconfigured", "inactive", "active", "finalized", "dead"}
        /\ transition' \in {"none", "quiet", "clear"} /\ publisher' \in {"none", "off", "on"}
        /\ pc' \in {"idle", "decide", "publish"} /\ admin' \in {"idle", "take"}
    BY DEF TypeOK
  <2>5. timer' \in {"none", "waiting", "due"} /\ (timer' # "none" => publisher' = "on")
    BY DEF TypeOK, PublisherOK
  <2>6. /\ arriving' \in Commands /\ leaving' \in Commands \cup {"corrected"}
        /\ wheels' \in Commands \cup {"corrected"} /\ spanned' \subseteq Events
    BY DEF TypeOK, Commands, Events
  <2> QED
    BY <2>1, <2>2, <2>3, <2>4, <2>5, <2>6 DEF TypeOK
<1>2. PublisherOK'
  BY DEF TypeOK, PublisherOK
<1>3. AlarmOK'
  BY DEF TypeOK, PublisherOK, AlarmOK
<1>4. ASSUME ~overlaps
      PROVE  SingleOK'
  <2> USE <1>4 DEF SingleOK
  <2>1. OneAtATime'
    BY DEF TypeOK, OneAtATime
  <2>2. DrivenOK'
    BY AgesOK, TimeoutsAssumption DEF TypeOK, OneAtATime, PublisherOK, AlarmOK, DrivenOK,
       Ages, Older
  <2>3. ImuOK'
    BY AgesOK, TimeoutsAssumption DEF TypeOK, OneAtATime, PublisherOK, ImuOK, TargetOK,
       Ages, Older
  <2>4. TargetOK'
    BY TimeoutsAssumption DEF TypeOK, OneAtATime, PublisherOK, DrivenOK, ImuOK, TargetOK,
       Events
  <2> QED
    BY <2>1, <2>2, <2>3, <2>4
<1>5. overlaps' = overlaps
  OBVIOUS
<1> QED
  BY <1>1, <1>2, <1>3, <1>4, <1>5

\* Nothing is published when the publisher goes.
LEMMA CleanUpInv ==
  ASSUME IInv, CleanUp
  PROVE  IInv'
<1> USE DEF IInv, hostVars, nodeVars, imuVars, commandVars, callbackVars, robotVars,
        CleanUp, Begin, TransitionMay
<1>1. TypeOK'
  BY AgesOK DEF TypeOK, PublisherOK, Commands, Events
<1>2. PublisherOK'
  BY DEF TypeOK, PublisherOK
<1>3. AlarmOK'
  BY DEF TypeOK, PublisherOK, AlarmOK
<1>4. ASSUME ~overlaps
      PROVE  SingleOK'
  <2> USE <1>4 DEF SingleOK
  <2>1. OneAtATime'
    BY DEF TypeOK, OneAtATime
  <2>2. DrivenOK'
    BY AgesOK, TimeoutsAssumption DEF TypeOK, OneAtATime, PublisherOK, AlarmOK, DrivenOK,
       Ages, Older
  <2>3. ImuOK'
    BY AgesOK, TimeoutsAssumption DEF TypeOK, OneAtATime, PublisherOK, ImuOK, TargetOK,
       Ages, Older
  <2>4. TargetOK'
    BY TimeoutsAssumption DEF TypeOK, OneAtATime, PublisherOK, DrivenOK, ImuOK, TargetOK,
       Events
  <2> QED
    BY <2>1, <2>2, <2>3, <2>4
<1>5. overlaps' = overlaps
  OBVIOUS
<1> QED
  BY <1>1, <1>2, <1>3, <1>4, <1>5

\* An inactive node holds no target but one it took asleep.
LEMMA ClearInv ==
  ASSUME IInv, CleanUpSubscriptions
  PROVE  IInv'
<1> USE DEF IInv, hostVars, nodeVars, imuVars, commandVars, callbackVars, robotVars,
        CleanUpSubscriptions, TransitionMay
<1>1. TypeOK'
  <2>1. /\ overlaps' \in BOOLEAN /\ declared' \in BOOLEAN /\ overtaken' \in BOOLEAN
        /\ subscribed' \in BOOLEAN /\ has_imu' \in BOOLEAN /\ has_cmd' \in BOOLEAN
    BY DEF TypeOK
  <2>2. imu_timeout' \in BOOLEAN /\ watchdog_triggered' \in BOOLEAN /\ locked' \in BOOLEAN
    BY DEF TypeOK
  <2>3. imuAge' \in Ages /\ commandAge' \in Ages /\ gyro' \in {"still", "rotating"}
    BY AgesOK DEF TypeOK
  <2>4. /\ lifecycle' \in {"unconfigured", "inactive", "active", "finalized", "dead"}
        /\ transition' \in {"none", "quiet", "clear"} /\ publisher' \in {"none", "off", "on"}
        /\ pc' \in {"idle", "decide", "publish"} /\ admin' \in {"idle", "take"}
    BY DEF TypeOK
  <2>5. timer' \in {"none", "waiting", "due"} /\ (timer' # "none" => publisher' = "on")
    BY DEF TypeOK, PublisherOK
  <2>6. /\ arriving' \in Commands /\ leaving' \in Commands \cup {"corrected"}
        /\ wheels' \in Commands \cup {"corrected"} /\ spanned' \subseteq Events
    BY DEF TypeOK, Commands, Events
  <2> QED
    BY <2>1, <2>2, <2>3, <2>4, <2>5, <2>6 DEF TypeOK
<1>2. PublisherOK'
  BY DEF TypeOK, PublisherOK
<1>3. AlarmOK'
  BY DEF TypeOK, PublisherOK, AlarmOK
<1>4. ASSUME ~overlaps
      PROVE  SingleOK'
  <2> USE <1>4 DEF SingleOK
  <2>1. OneAtATime'
    BY DEF TypeOK, OneAtATime
  <2>2. DrivenOK'
    BY AgesOK, TimeoutsAssumption DEF TypeOK, OneAtATime, PublisherOK, AlarmOK, DrivenOK,
       Ages, Older
  <2>3. ImuOK'
    BY AgesOK, TimeoutsAssumption DEF TypeOK, OneAtATime, PublisherOK, ImuOK, TargetOK,
       Ages, Older
  <2>4. TargetOK'
    BY TimeoutsAssumption DEF TypeOK, OneAtATime, PublisherOK, DrivenOK, ImuOK, TargetOK,
       Events
  <2> QED
    BY <2>1, <2>2, <2>3, <2>4
<1>5. overlaps' = overlaps
  OBVIOUS
<1> QED
  BY <1>1, <1>2, <1>3, <1>4, <1>5

\* The watchdog survives a shutdown.
LEMMA ShutDownInv ==
  ASSUME IInv, ShutDown
  PROVE  IInv'
<1> USE DEF IInv, hostVars, nodeVars, imuVars, commandVars, callbackVars, robotVars,
        ShutDown, Begin, TransitionMay
<1>1. TypeOK'
  <2>1. /\ overlaps' \in BOOLEAN /\ declared' \in BOOLEAN /\ overtaken' \in BOOLEAN
        /\ subscribed' \in BOOLEAN /\ has_imu' \in BOOLEAN /\ has_cmd' \in BOOLEAN
    BY DEF TypeOK
  <2>2. imu_timeout' \in BOOLEAN /\ watchdog_triggered' \in BOOLEAN /\ locked' \in BOOLEAN
    BY DEF TypeOK
  <2>3. imuAge' \in Ages /\ commandAge' \in Ages /\ gyro' \in {"still", "rotating"}
    BY AgesOK DEF TypeOK
  <2>4. /\ lifecycle' \in {"unconfigured", "inactive", "active", "finalized", "dead"}
        /\ transition' \in {"none", "quiet", "clear"} /\ publisher' \in {"none", "off", "on"}
        /\ pc' \in {"idle", "decide", "publish"} /\ admin' \in {"idle", "take"}
    BY DEF TypeOK
  <2>5. timer' \in {"none", "waiting", "due"} /\ (timer' # "none" => publisher' = "on")
    BY DEF TypeOK, PublisherOK
  <2>6. /\ arriving' \in Commands /\ leaving' \in Commands \cup {"corrected"}
        /\ wheels' \in Commands \cup {"corrected"} /\ spanned' \subseteq Events
    BY DEF TypeOK, Commands, Events
  <2> QED
    BY <2>1, <2>2, <2>3, <2>4, <2>5, <2>6 DEF TypeOK
<1>2. PublisherOK'
  BY DEF TypeOK, PublisherOK
<1>3. AlarmOK'
  BY DEF TypeOK, PublisherOK, AlarmOK
<1>4. ASSUME ~overlaps
      PROVE  SingleOK'
  <2> USE <1>4 DEF SingleOK
  <2>1. OneAtATime'
    BY DEF TypeOK, OneAtATime
  <2>2. DrivenOK'
    BY AgesOK, TimeoutsAssumption DEF TypeOK, OneAtATime, PublisherOK, AlarmOK, DrivenOK,
       Ages, Older
  <2>3. ImuOK'
    BY AgesOK, TimeoutsAssumption DEF TypeOK, OneAtATime, PublisherOK, ImuOK, TargetOK,
       Ages, Older
  <2>4. TargetOK'
    BY TimeoutsAssumption DEF TypeOK, OneAtATime, PublisherOK, DrivenOK, ImuOK, TargetOK,
       Events
  <2> QED
    BY <2>1, <2>2, <2>3, <2>4
<1>5. overlaps' = overlaps
  OBVIOUS
<1> QED
  BY <1>1, <1>2, <1>3, <1>4, <1>5

\* A silence that is noticed too late finds no target.
LEMMA SampleInv ==
  ASSUME IInv, NEW rate \in {"still", "rotating"}, imuCallback(rate)
  PROVE  IInv'
<1> USE DEF IInv, hostVars, nodeVars, imuVars, commandVars, callbackVars, robotVars,
        imuCallback, Callback, ControlMay
<1>1. TypeOK'
  <2>1. /\ overlaps' \in BOOLEAN /\ declared' \in BOOLEAN /\ overtaken' \in BOOLEAN
        /\ subscribed' \in BOOLEAN /\ has_imu' \in BOOLEAN /\ has_cmd' \in BOOLEAN
    BY DEF TypeOK
  <2>2. imu_timeout' \in BOOLEAN /\ watchdog_triggered' \in BOOLEAN /\ locked' \in BOOLEAN
    BY DEF TypeOK
  <2>3. imuAge' \in Ages /\ commandAge' \in Ages /\ gyro' \in {"still", "rotating"}
    BY AgesOK DEF TypeOK
  <2>4. /\ lifecycle' \in {"unconfigured", "inactive", "active", "finalized", "dead"}
        /\ transition' \in {"none", "quiet", "clear"} /\ publisher' \in {"none", "off", "on"}
        /\ pc' \in {"idle", "decide", "publish"} /\ admin' \in {"idle", "take"}
    BY DEF TypeOK
  <2>5. timer' \in {"none", "waiting", "due"} /\ (timer' # "none" => publisher' = "on")
    BY DEF TypeOK, PublisherOK
  <2>6. /\ arriving' \in Commands /\ leaving' \in Commands \cup {"corrected"}
        /\ wheels' \in Commands \cup {"corrected"} /\ spanned' \subseteq Events
    BY DEF TypeOK, Commands, Events
  <2> QED
    BY <2>1, <2>2, <2>3, <2>4, <2>5, <2>6 DEF TypeOK
<1>2. PublisherOK'
  BY DEF TypeOK, PublisherOK
<1>3. AlarmOK'
  BY DEF TypeOK, PublisherOK, AlarmOK
<1>4. ASSUME ~overlaps
      PROVE  SingleOK'
  <2> USE <1>4 DEF SingleOK
  <2>1. OneAtATime'
    BY DEF TypeOK, OneAtATime
  <2>2. DrivenOK'
    BY AgesOK, TimeoutsAssumption DEF TypeOK, OneAtATime, PublisherOK, AlarmOK, DrivenOK,
       Ages, Older
  <2>3. ImuOK'
    BY AgesOK, TimeoutsAssumption DEF TypeOK, OneAtATime, PublisherOK, ImuOK, TargetOK,
       Ages, Older
  <2>4. TargetOK'
    <3>1. CASE imuAge > ImuTimeout + 1
      BY <3>1, TimeoutsAssumption DEF TypeOK, Ages, ImuOK, TargetOK
    <3>2. CASE ~(imuAge > ImuTimeout + 1)
      BY <3>2 DEF TargetOK
    <3> QED
      BY <3>1, <3>2
  <2> QED
    BY <2>1, <2>2, <2>3, <2>4
<1>5. overlaps' = overlaps
  OBVIOUS
<1> QED
  BY <1>1, <1>2, <1>3, <1>4, <1>5

\* A command takes back the alarm and is new.
LEMMA ReceiveInv ==
  ASSUME IInv, NEW c \in Commands, ReceiveCommand(c)
  PROVE  IInv'
<1> SUFFICES ASSUME ~Terminate
            PROVE  IInv'
  BY EndInv
<1> USE DEF IInv, hostVars, nodeVars, imuVars, commandVars, callbackVars, robotVars,
        ReceiveCommand, Callback, ControlMay
<1>1. TypeOK'
  <2>1. /\ overlaps' \in BOOLEAN /\ declared' \in BOOLEAN /\ overtaken' \in BOOLEAN
        /\ subscribed' \in BOOLEAN /\ has_imu' \in BOOLEAN /\ has_cmd' \in BOOLEAN
    BY DEF TypeOK
  <2>2. imu_timeout' \in BOOLEAN /\ watchdog_triggered' \in BOOLEAN /\ locked' \in BOOLEAN
    BY DEF TypeOK
  <2>3. imuAge' \in Ages /\ commandAge' \in Ages /\ gyro' \in {"still", "rotating"}
    BY AgesOK DEF TypeOK
  <2>4. /\ lifecycle' \in {"unconfigured", "inactive", "active", "finalized", "dead"}
        /\ transition' \in {"none", "quiet", "clear"} /\ publisher' \in {"none", "off", "on"}
        /\ pc' \in {"idle", "decide", "publish"} /\ admin' \in {"idle", "take"}
    BY DEF TypeOK
  <2>5. timer' \in {"none", "waiting", "due"} /\ (timer' # "none" => publisher' = "on")
    BY DEF TypeOK, PublisherOK
  <2>6. /\ arriving' \in Commands /\ leaving' \in Commands \cup {"corrected"}
        /\ wheels' \in Commands \cup {"corrected"} /\ spanned' \subseteq Events
    BY DEF TypeOK, Commands, Events
  <2> QED
    BY <2>1, <2>2, <2>3, <2>4, <2>5, <2>6 DEF TypeOK
<1>2. PublisherOK'
  BY DEF TypeOK, PublisherOK
<1>3. AlarmOK'
  BY DEF TypeOK, PublisherOK, AlarmOK
<1>4. ASSUME ~overlaps
      PROVE  SingleOK'
  <2> USE <1>4 DEF SingleOK
  <2>1. OneAtATime'
    BY DEF TypeOK, OneAtATime
  <2>2. DrivenOK'
    <3>1. commandAge' = 0 /\ has_cmd' /\ ~watchdog_triggered' /\ publisher = "on"
      OBVIOUS
    <3>2. publisher' = publisher /\ wheels' = wheels /\ lifecycle' = lifecycle
      OBVIOUS
    <3>3. CommandTimeout \in Nat
      BY TimeoutsAssumption
    <3> HIDE DEF ReceiveCommand
    <3> QED
      BY <3>1, <3>2, <3>3 DEF DrivenOK
  <2>3. ImuOK'
    BY AgesOK, TimeoutsAssumption DEF TypeOK, OneAtATime, PublisherOK, ImuOK, TargetOK,
       Ages, Older
  <2>4. TargetOK'
    BY TimeoutsAssumption DEF TypeOK, OneAtATime, PublisherOK, DrivenOK, ImuOK, TargetOK,
       Events
  <2> QED
    BY <2>1, <2>2, <2>3, <2>4
<1>5. overlaps' = overlaps
  OBVIOUS
<1> QED
  BY <1>1, <1>2, <1>3, <1>4, <1>5

\* What is corrected has a target that lived through nothing.
LEMMA DecideInv ==
  ASSUME IInv, Decide
  PROVE  IInv'
<1> USE DEF IInv, hostVars, nodeVars, imuVars, commandVars, callbackVars, robotVars,
        Decide, ControlMay, PassThrough, StandStill, DriveStraight, Leave
<1>1. TypeOK'
  <2>1. /\ overlaps' \in BOOLEAN /\ declared' \in BOOLEAN /\ overtaken' \in BOOLEAN
        /\ subscribed' \in BOOLEAN /\ has_imu' \in BOOLEAN /\ has_cmd' \in BOOLEAN
    BY DEF TypeOK
  <2>2. imu_timeout' \in BOOLEAN /\ watchdog_triggered' \in BOOLEAN /\ locked' \in BOOLEAN
    BY DEF TypeOK
  <2>3. imuAge' \in Ages /\ commandAge' \in Ages /\ gyro' \in {"still", "rotating"}
    BY AgesOK DEF TypeOK
  <2>4. /\ lifecycle' \in {"unconfigured", "inactive", "active", "finalized", "dead"}
        /\ transition' \in {"none", "quiet", "clear"} /\ publisher' \in {"none", "off", "on"}
        /\ pc' \in {"idle", "decide", "publish"} /\ admin' \in {"idle", "take"}
    BY DEF TypeOK
  <2>5. timer' \in {"none", "waiting", "due"} /\ (timer' # "none" => publisher' = "on")
    BY DEF TypeOK, PublisherOK
  <2>6. /\ arriving' \in Commands /\ leaving' \in Commands \cup {"corrected"}
        /\ wheels' \in Commands \cup {"corrected"} /\ spanned' \subseteq Events
    BY DEF TypeOK, Commands, Events
  <2> QED
    BY <2>1, <2>2, <2>3, <2>4, <2>5, <2>6 DEF TypeOK
<1>2. PublisherOK'
  BY DEF TypeOK, PublisherOK
<1>3. AlarmOK'
  BY DEF TypeOK, PublisherOK, AlarmOK
<1>4. ASSUME ~overlaps
      PROVE  SingleOK'
  <2> USE <1>4 DEF SingleOK
  <2>1. OneAtATime'
    BY DEF TypeOK, OneAtATime
  <2>2. DrivenOK'
    BY AgesOK, TimeoutsAssumption DEF TypeOK, OneAtATime, PublisherOK, AlarmOK, DrivenOK,
       Ages, Older
  <2>3. ImuOK'
    BY AgesOK, TimeoutsAssumption DEF TypeOK, OneAtATime, PublisherOK, ImuOK, TargetOK,
       Ages, Older
  <2>4. TargetOK'
    <3>1. CASE PassThrough
      BY <3>1 DEF TypeOK, OneAtATime, TargetOK, Commands
    <3>2. CASE StandStill
      BY <3>2 DEF TargetOK, OneAtATime
    <3>3. CASE DriveStraight
      BY <3>3 DEF TypeOK, OneAtATime, PublisherOK, DrivenOK, TargetOK
    <3> QED
      BY <3>1, <3>2, <3>3
  <2> QED
    BY <2>1, <2>2, <2>3, <2>4
<1>5. overlaps' = overlaps
  OBVIOUS
<1> QED
  BY <1>1, <1>2, <1>3, <1>4, <1>5

\* The robot moves on a new command.
LEMMA PublishInv ==
  ASSUME IInv, PublishCommand
  PROVE  IInv'
<1> SUFFICES ASSUME ~Terminate
            PROVE  IInv'
  BY EndInv
<1> USE DEF IInv, hostVars, nodeVars, imuVars, commandVars, callbackVars, robotVars,
        PublishCommand, ControlMay
<1>1. TypeOK'
  <2>1. /\ overlaps' \in BOOLEAN /\ declared' \in BOOLEAN /\ overtaken' \in BOOLEAN
        /\ subscribed' \in BOOLEAN /\ has_imu' \in BOOLEAN /\ has_cmd' \in BOOLEAN
    BY DEF TypeOK
  <2>2. imu_timeout' \in BOOLEAN /\ watchdog_triggered' \in BOOLEAN /\ locked' \in BOOLEAN
    BY DEF TypeOK
  <2>3. imuAge' \in Ages /\ commandAge' \in Ages /\ gyro' \in {"still", "rotating"}
    BY AgesOK DEF TypeOK
  <2>4. /\ lifecycle' \in {"unconfigured", "inactive", "active", "finalized", "dead"}
        /\ transition' \in {"none", "quiet", "clear"} /\ publisher' \in {"none", "off", "on"}
        /\ pc' \in {"idle", "decide", "publish"} /\ admin' \in {"idle", "take"}
    BY DEF TypeOK
  <2>5. timer' \in {"none", "waiting", "due"} /\ (timer' # "none" => publisher' = "on")
    BY DEF TypeOK, PublisherOK
  <2>6. /\ arriving' \in Commands /\ leaving' \in Commands \cup {"corrected"}
        /\ wheels' \in Commands \cup {"corrected"} /\ spanned' \subseteq Events
    BY DEF TypeOK, Commands, Events
  <2> QED
    BY <2>1, <2>2, <2>3, <2>4, <2>5, <2>6 DEF TypeOK
<1>2. PublisherOK'
  BY DEF TypeOK, PublisherOK
<1>3. AlarmOK'
  BY DEF TypeOK, PublisherOK, AlarmOK
<1>4. ASSUME ~overlaps
      PROVE  SingleOK'
  <2> USE <1>4 DEF SingleOK
  <2>1. OneAtATime'
    BY DEF TypeOK, OneAtATime
  <2>2. DrivenOK'
    BY AgesOK, TimeoutsAssumption DEF TypeOK, OneAtATime, PublisherOK, AlarmOK, DrivenOK,
       Ages, Older
  <2>3. ImuOK'
    BY AgesOK, TimeoutsAssumption DEF TypeOK, OneAtATime, PublisherOK, ImuOK, TargetOK,
       Ages, Older
  <2>4. TargetOK'
    BY TimeoutsAssumption DEF TypeOK, OneAtATime, PublisherOK, DrivenOK, ImuOK, TargetOK,
       Events
  <2> QED
    BY <2>1, <2>2, <2>3, <2>4
<1>5. overlaps' = overlaps
  OBVIOUS
<1> QED
  BY <1>1, <1>2, <1>3, <1>4, <1>5

\* A late command stops the robot, a silent IMU loses the target.
LEMMA WatchdogInv ==
  ASSUME IInv, checkSystemHealth
  PROVE  IInv'
<1> USE DEF IInv, hostVars, nodeVars, imuVars, commandVars, callbackVars, robotVars,
        checkSystemHealth, WatchImu, WatchCommands, Leave, Callback, ControlMay
<1>1. TypeOK'
  <2>1. /\ overlaps' \in BOOLEAN /\ declared' \in BOOLEAN /\ overtaken' \in BOOLEAN
        /\ subscribed' \in BOOLEAN /\ has_imu' \in BOOLEAN /\ has_cmd' \in BOOLEAN
    BY DEF TypeOK
  <2>2. imu_timeout' \in BOOLEAN /\ watchdog_triggered' \in BOOLEAN /\ locked' \in BOOLEAN
    BY DEF TypeOK
  <2>3. imuAge' \in Ages /\ commandAge' \in Ages /\ gyro' \in {"still", "rotating"}
    BY AgesOK DEF TypeOK
  <2>4. /\ lifecycle' \in {"unconfigured", "inactive", "active", "finalized", "dead"}
        /\ transition' \in {"none", "quiet", "clear"} /\ publisher' \in {"none", "off", "on"}
        /\ pc' \in {"idle", "decide", "publish"} /\ admin' \in {"idle", "take"}
    BY DEF TypeOK
  <2>5. timer' \in {"none", "waiting", "due"} /\ (timer' # "none" => publisher' = "on")
    BY DEF TypeOK, PublisherOK
  <2>6. /\ arriving' \in Commands /\ leaving' \in Commands \cup {"corrected"}
        /\ wheels' \in Commands \cup {"corrected"} /\ spanned' \subseteq Events
    BY DEF TypeOK, Commands, Events
  <2> QED
    BY <2>1, <2>2, <2>3, <2>4, <2>5, <2>6 DEF TypeOK
<1>2. PublisherOK'
  BY DEF TypeOK, PublisherOK
<1>3. AlarmOK'
  BY DEF TypeOK, PublisherOK, AlarmOK
<1>4. ASSUME ~overlaps
      PROVE  SingleOK'
  <2> USE <1>4 DEF SingleOK
  <2>1. OneAtATime'
    BY DEF TypeOK, OneAtATime
  <2>2. DrivenOK'
    BY AgesOK, TimeoutsAssumption DEF TypeOK, OneAtATime, PublisherOK, AlarmOK, DrivenOK,
       Ages, Older
  <2>3. ImuOK'
    <3>1. SUFFICES ASSUME lifecycle = "active", has_imu, ~imu_timeout'
                   PROVE  imuAge <= ImuTimeout
      BY TimeoutsAssumption DEF TypeOK, Ages, ImuOK
    <3>2. ~(imuAge > ImuTimeout)
      BY <3>1, Zenon
    <3> QED
      BY <3>2, TimeoutsAssumption DEF TypeOK, Ages
  <2>4. TargetOK'
    BY TimeoutsAssumption DEF TypeOK, OneAtATime, PublisherOK, DrivenOK, ImuOK, TargetOK,
       Events
  <2> QED
    BY <2>1, <2>2, <2>3, <2>4
<1>5. overlaps' = overlaps
  OBVIOUS
<1> QED
  BY <1>1, <1>2, <1>3, <1>4, <1>5

\* A reset relies on an IMU that has not timed out.
LEMMA ResetInv ==
  ASSUME IInv, ResetHeading
  PROVE  IInv'
<1> USE DEF IInv, hostVars, nodeVars, imuVars, commandVars, callbackVars, robotVars,
        ResetHeading, AdminMay, AdminGoto
<1>1. TypeOK'
  BY AgesOK DEF TypeOK, PublisherOK, Commands, Events
<1>2. PublisherOK'
  BY DEF TypeOK, PublisherOK
<1>3. AlarmOK'
  BY DEF TypeOK, PublisherOK, AlarmOK
<1>4. ASSUME ~overlaps
      PROVE  SingleOK'
  <2> USE <1>4 DEF SingleOK
  <2>1. OneAtATime'
    BY DEF TypeOK, OneAtATime
  <2>2. DrivenOK'
    BY AgesOK, TimeoutsAssumption DEF TypeOK, OneAtATime, PublisherOK, AlarmOK, DrivenOK,
       Ages, Older
  <2>3. ImuOK'
    BY AgesOK, TimeoutsAssumption DEF TypeOK, OneAtATime, PublisherOK, ImuOK, TargetOK,
       Ages, Older
  <2>4. TargetOK'
    BY TimeoutsAssumption DEF TypeOK, OneAtATime, PublisherOK, DrivenOK, ImuOK, TargetOK,
       Events
  <2> QED
    BY <2>1, <2>2, <2>3, <2>4
<1>5. overlaps' = overlaps
  OBVIOUS
<1> QED
  BY <1>1, <1>2, <1>3, <1>4, <1>5

\* The service takes a target that has lived through nothing.
LEMMA TakeInv ==
  ASSUME IInv, ResetTarget
  PROVE  IInv'
<1> USE DEF IInv, hostVars, nodeVars, imuVars, commandVars, callbackVars, robotVars,
        ResetTarget, AdminMay, AdminGoto
<1>1. TypeOK'
  BY AgesOK DEF TypeOK, PublisherOK, Commands, Events
<1>2. PublisherOK'
  BY DEF TypeOK, PublisherOK
<1>3. AlarmOK'
  BY DEF TypeOK, PublisherOK, AlarmOK
<1>4. ASSUME ~overlaps
      PROVE  SingleOK'
  <2> USE <1>4 DEF SingleOK
  <2>1. OneAtATime'
    BY DEF TypeOK, OneAtATime
  <2>2. DrivenOK'
    BY AgesOK, TimeoutsAssumption DEF TypeOK, OneAtATime, PublisherOK, AlarmOK, DrivenOK,
       Ages, Older
  <2>3. ImuOK'
    BY AgesOK, TimeoutsAssumption DEF TypeOK, OneAtATime, PublisherOK, ImuOK, TargetOK,
       Ages, Older
  <2>4. TargetOK'
    BY TimeoutsAssumption DEF TypeOK, OneAtATime, PublisherOK, DrivenOK, ImuOK, TargetOK,
       Events
  <2> QED
    BY <2>1, <2>2, <2>3, <2>4
<1>5. overlaps' = overlaps
  OBVIOUS
<1> QED
  BY <1>1, <1>2, <1>3, <1>4, <1>5

\* Time does not pass a watchdog that is due.
LEMMA TickInv ==
  ASSUME IInv, Tick
  PROVE  IInv'
<1> USE DEF IInv, hostVars, nodeVars, imuVars, commandVars, callbackVars, robotVars,
        Tick
<1>1. TypeOK'
  BY AgesOK DEF TypeOK, PublisherOK, Commands, Events
<1>2. PublisherOK'
  BY DEF TypeOK, PublisherOK
<1>3. AlarmOK'
  BY DEF TypeOK, PublisherOK, AlarmOK
<1>4. ASSUME ~overlaps
      PROVE  SingleOK'
  <2> USE <1>4 DEF SingleOK
  <2>1. OneAtATime'
    BY DEF TypeOK, OneAtATime
  <2>2. DrivenOK'
    BY AgesOK, TimeoutsAssumption DEF TypeOK, OneAtATime, PublisherOK, AlarmOK, DrivenOK,
       Ages, Older
  <2>3. ImuOK'
    BY AgesOK, TimeoutsAssumption DEF TypeOK, OneAtATime, PublisherOK, ImuOK, TargetOK,
       Ages, Older
  <2>4. TargetOK'
    BY TimeoutsAssumption DEF TypeOK, OneAtATime, PublisherOK, DrivenOK, ImuOK, TargetOK,
       Events
  <2> QED
    BY <2>1, <2>2, <2>3, <2>4
<1>5. overlaps' = overlaps
  OBVIOUS
<1> QED
  BY <1>1, <1>2, <1>3, <1>4, <1>5

LEMMA InvariantNext ==
  ASSUME IInv, [Next]_vars
  PROVE  IInv'
<1>1. CASE UNCHANGED vars
  BY <1>1 DEF vars, hostVars, nodeVars, imuVars, commandVars, callbackVars, robotVars, IInv,
     TypeOK, PublisherOK, AlarmOK, SingleOK, OneAtATime, DrivenOK, ImuOK, TargetOK
<1>2. CASE Configure \/ Activate \/ Deactivate \/ CleanUp \/ ShutDown
  BY <1>2, ConfigureInv, ActivateInv, DeactivateInv, CleanUpInv, ShutDownInv
<1>3. CASE SetYawAxis
  BY <1>3, EndInv DEF SetYawAxis
<1>4. CASE TransitionStep
  BY <1>4, QuietInv, ClearInv DEF TransitionStep
<1>5. CASE \E rate \in {"still", "rotating"} : imuCallback(rate)
  BY <1>5, SampleInv
<1>6. CASE \E c \in Commands : ReceiveCommand(c)
  BY <1>6, ReceiveInv
<1>7. CASE CommandStep
  BY <1>7, DecideInv, PublishInv DEF CommandStep
<1>8. CASE checkSystemHealth \/ ResetHeading \/ ResetTarget \/ Tick
  BY <1>8, WatchdogInv, ResetInv, TakeInv, TickInv
<1> QED
  BY <1>1, <1>2, <1>3, <1>4, <1>5, <1>6, <1>7, <1>8 DEF Next

\* The invariant above holds in either executor, whatever the timeouts.
THEOREM InvariantHolds == Spec => []IInv
<1>1. IInv /\ [Next]_vars => IInv'
  BY InvariantNext
<1> QED
  BY <1>1, InvariantInit, PTL DEF Spec

\* Every variable stays in its domain, and the watchdog finds its publisher, whether
\* callbacks overlap or not.
THEOREM TypeCorrect == Spec => []TypeOK
<1>1. IInv => TypeOK
  BY DEF IInv
<1> QED
  BY <1>1, InvariantHolds, PTL

\* A node that has gone inactive has stopped the robot, unless a callback that overlapped
\* with on_deactivate published between its stop and the end of its publisher.
THEOREM StoppedWhenInactive == Spec => []DeactivationStops
<1>1. IInv => DeactivationStops
  BY DEF IInv, PublisherOK, DeactivationStops
<1> QED
  BY <1>1, InvariantHolds, PTL

\* Where callbacks do not overlap, no command drives the robot for longer than the
\* timeout and a period.
THEOREM StoppedInTime == Spec => []StopsInTime
<1>1. IInv => StopsInTime
  BY TimeoutsAssumption DEF IInv, TypeOK, Ages, SingleOK, DrivenOK, StopsInTime
<1> QED
  BY <1>1, InvariantHolds, PTL

\* The alarm is raised only about a robot that stands, whether callbacks overlap or not.
THEOREM AlarmsAreTrue == Spec => []AlarmIsTrue
<1>1. IInv => AlarmIsTrue
  BY DEF IInv, TypeOK, AlarmOK, AlarmIsTrue, Diagnosis
<1> QED
  BY <1>1, InvariantHolds, PTL

\* Where callbacks do not overlap, no correction spans a turn, a silence of the IMU or a
\* time without activation.
THEOREM CorrectionsSpanNothing == Spec => CorrectionSpansNothing
<1> DEFINE Clean == PublishCommand /\ wheels' = "corrected" =>
                      overlaps \/ spanned = {} \/ "asleep" \in spanned
<1>1. IInv /\ [Next]_vars => [Clean]_vars
  <2>1. SUFFICES ASSUME IInv, PublishCommand, wheels' = "corrected", ~overlaps
                 PROVE  spanned = {} \/ "asleep" \in spanned
    OBVIOUS
  <2>2. publisher = "on" /\ pc = "publish"
    BY <2>1 DEF IInv, SingleOK, OneAtATime, DrivenOK, PublishCommand
  <2>3. leaving = "corrected" /\ locked
    BY <2>1, <2>2 DEF IInv, SingleOK, TargetOK, PublishCommand
  <2> QED
    BY <2>1, <2>3 DEF IInv, SingleOK, TargetOK
<1> QED
  BY <1>1, InvariantHolds, PTL DEF Spec, CorrectionSpansNothing
=============================================================================
