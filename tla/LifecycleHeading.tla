--------------------------- MODULE LifecycleHeading --------------------------
(***************************************************************************)
(* The managed heading node (src/ros2/ros2_lifecycle_heading_control_node  *)
(* .cpp): commands are corrected and published by the callback that        *)
(* receives them, while the node is active; a timer watches over the age   *)
(* of the commands and of the IMU samples.                                 *)
(*                                                                         *)
(* Transitions and parameters are served by the default callback group,    *)
(* commands, samples and the watchdog by the control group, the reset      *)
(* service by the admin group.  Loaded as a component into a               *)
(* single-threaded executor, no two callbacks overlap; in the              *)
(* multi-threaded one of main(), which the launch file starts, those of    *)
(* different groups do.                                                    *)
(*                                                                         *)
(* A tick is a period of the watchdog timer; a time stamp is its age.      *)
(* `spanned` is what the robot has gone through since the target heading   *)
(* was taken.                                                              *)
(***************************************************************************)
EXTENDS Integers

CONSTANTS
  ImuTimeout,      \* imu_timeout
  CommandTimeout,  \* cmd_vel_timeout
  Old              \* ages are counted up to here

ASSUME TimeoutsAssumption ==
  Old \in Nat /\ ImuTimeout \in 0 .. Old - 2 /\ CommandTimeout \in 0 .. Old - 2

VARIABLES
  overlaps,              \* do callbacks of different groups run at the same time?
  declared,              \* did the host declare max_slew_rate, which the node does not?
  lifecycle, transition, \* the state of the node, and where a transition is
  publisher, subscribed, \* cmd_vel_pub_; the subscriptions, the service, the parameter hook
  timer,                 \* watchdog_timer_: none, waiting or due
  has_imu, imu_timeout, imuAge, gyro,       \* has_imu_data_, is_imu_timeout_, last_imu_time_
  has_cmd, watchdog_triggered, commandAge,  \* has_cmd_vel_in_, ..., last_cmd_vel_in_time_
  locked,                \* target_heading_locked_
  pc, arriving, leaving, \* the command callback, its message and the message it makes
  admin,                 \* the reset service
  wheels,                \* the last command the robot received
  spanned,               \* history
  overtaken              \* history: did that command come after the stop of a deactivation?

hostVars == <<overlaps, declared>>
nodeVars == <<lifecycle, transition, publisher, subscribed>>
imuVars == <<has_imu, imu_timeout, imuAge, gyro>>
commandVars == <<has_cmd, watchdog_triggered, commandAge>>
callbackVars == <<pc, arriving, leaving>>
robotVars == <<wheels, overtaken>>
vars == <<hostVars, nodeVars, timer, imuVars, commandVars, locked, callbackVars, admin,
          robotVars, spanned>>

Ages == 0 .. Old
Commands == {"stop", "straight", "turn"}
Events == {"turn", "outage", "pause", "asleep"}

\* May a callback of a group start, or go on, next to the others?
TransitionMay == overlaps \/ (pc = "idle" /\ admin = "idle")
ControlMay == overlaps \/ (transition = "none" /\ admin = "idle")
AdminMay == overlaps \/ (transition = "none" /\ pc = "idle")

\* An exception nobody catches, or a null publisher: the process is gone.
Terminate ==
  /\ lifecycle' = "dead" /\ transition' = "none" /\ timer' = "none"
  /\ pc' = "idle" /\ admin' = "idle"
  /\ UNCHANGED <<hostVars, publisher, subscribed, imuVars, commandVars, locked, arriving,
                 leaving, robotVars, spanned>>
-----------------------------------------------------------------------------
(* Transitions, as the lifecycle manager asks for them.                     *)

Begin(state) ==
  /\ lifecycle = state /\ transition = "none" /\ TransitionMay

\* updateControllerConfigFromParams, which is noexcept, reads max_slew_rate.
Configure ==
  /\ Begin("unconfigured")
  /\ IF declared
     THEN /\ lifecycle' = "inactive" /\ publisher' = "off" /\ subscribed' = TRUE
          /\ UNCHANGED <<hostVars, transition, timer, imuVars, commandVars, locked,
                         callbackVars, admin, robotVars, spanned>>
     ELSE Terminate

Activate ==
  /\ Begin("inactive")
  /\ lifecycle' = "active" /\ publisher' = "on" /\ timer' = "waiting"
  /\ imuAge' = 0 /\ commandAge' = 0
  /\ UNCHANGED <<hostVars, transition, subscribed, has_imu, imu_timeout, gyro, has_cmd,
                 watchdog_triggered, locked, callbackVars, admin, robotVars, spanned>>

\* Mutant of Deactivate: the watchdog's timer stays.
DeactivateWatched ==
  /\ Begin("active")
  /\ transition' = "quiet" /\ wheels' = "stop" /\ overtaken' = FALSE
  /\ UNCHANGED <<hostVars, lifecycle, publisher, subscribed, timer, imuVars, commandVars,
                 locked, callbackVars, admin, spanned>>

\* Mutant of Deactivate: the publisher is off before the stop is published.
DeactivateSilently ==
  /\ Begin("active")
  /\ transition' = "quiet" /\ timer' = "none"
  /\ UNCHANGED <<hostVars, lifecycle, publisher, subscribed, imuVars, commandVars,
                 locked, callbackVars, admin, robotVars, spanned>>

\* The timers go and the robot is stopped ...
Deactivate ==
  /\ Begin("active")
  /\ transition' = "quiet" /\ timer' = "none" /\ wheels' = "stop" /\ overtaken' = FALSE
  /\ UNCHANGED <<hostVars, lifecycle, publisher, subscribed, imuVars, commandVars,
                 locked, callbackVars, admin, spanned>>

\* ... then the publisher is switched off and the target given up.
DeactivatePublisher ==
  /\ transition = "quiet" /\ TransitionMay
  /\ transition' = "none" /\ lifecycle' = "inactive" /\ publisher' = "off"
  /\ locked' = FALSE /\ spanned' = spanned \cup {"pause"}
  /\ UNCHANGED <<hostVars, subscribed, timer, imuVars, commandVars, callbackVars, admin,
                 robotVars>>

\* The publisher goes before the subscriptions do.
CleanUp ==
  /\ Begin("inactive")
  /\ transition' = "clear" /\ publisher' = "none"
  /\ UNCHANGED <<hostVars, lifecycle, subscribed, timer, imuVars, commandVars, locked,
                 callbackVars, admin, robotVars, spanned>>

CleanUpSubscriptions ==
  /\ transition = "clear" /\ TransitionMay
  /\ transition' = "none" /\ lifecycle' = "unconfigured" /\ subscribed' = FALSE
  /\ has_imu' = FALSE /\ has_cmd' = FALSE
  /\ UNCHANGED <<hostVars, publisher, timer, imu_timeout, imuAge, gyro,
                 watchdog_triggered, commandAge, locked, callbackVars, admin, robotVars,
                 spanned>>

\* on_shutdown leaves everything as it is.
ShutDown ==
  /\ \E state \in {"unconfigured", "inactive", "active"} : Begin(state)
  /\ lifecycle' = "finalized"
  /\ UNCHANGED <<hostVars, transition, publisher, subscribed, timer, imuVars,
                 commandVars, locked, callbackVars, admin, robotVars, spanned>>

\* onParameterChange takes the new axis as a string and then logs it as a number.
SetYawAxis == subscribed /\ transition = "none" /\ TransitionMay /\ Terminate
-----------------------------------------------------------------------------
(* The control group.                                                       *)

\* A callback of the control group starts on what it is subscribed to.
Callback == pc = "idle" /\ ControlMay /\ lifecycle # "dead"

\* Mutant of imuCallback: the timeout is left as it was found.
imuCallbackOnly(rate) ==
  /\ Callback /\ subscribed
  /\ imuAge' = 0 /\ has_imu' = TRUE /\ gyro' = rate
  /\ spanned' = IF lifecycle = "active" /\ imuAge > ImuTimeout + 1
                THEN spanned \cup {"outage"} ELSE spanned
  /\ UNCHANGED <<hostVars, nodeVars, timer, imu_timeout, commandVars, locked,
                 callbackVars, admin, robotVars>>

\* After a silence the watchdog must have noticed, the target is an old one.
imuCallback(rate) ==
  /\ Callback /\ subscribed
  /\ imuAge' = 0 /\ has_imu' = TRUE /\ imu_timeout' = FALSE /\ gyro' = rate
  /\ spanned' = IF lifecycle = "active" /\ imuAge > ImuTimeout + 1
                THEN spanned \cup {"outage"} ELSE spanned
  /\ UNCHANGED <<hostVars, nodeVars, timer, commandVars, locked, callbackVars, admin,
                 robotVars>>

\* Mutant of ReceiveCommand: a command does not take the alarm back.
ReceiveCommandOnly(c) ==
  /\ Callback /\ subscribed
  /\ IF publisher = "none" THEN Terminate
     ELSE /\ publisher = "on"
          /\ pc' = "decide" /\ arriving' = c
          /\ commandAge' = 0 /\ has_cmd' = TRUE
          /\ UNCHANGED <<hostVars, nodeVars, timer, imuVars, watchdog_triggered, locked,
                         leaving, admin, robotVars, spanned>>

\* cmdVelInCallback: what is received while the publisher is off is ignored.
ReceiveCommand(c) ==
  /\ Callback /\ subscribed
  /\ IF publisher = "none" THEN Terminate
     ELSE /\ publisher = "on"
          /\ pc' = "decide" /\ arriving' = c
          /\ commandAge' = 0 /\ has_cmd' = TRUE /\ watchdog_triggered' = FALSE
          /\ UNCHANGED <<hostVars, nodeVars, timer, imuVars, locked, leaving, admin,
                         robotVars, spanned>>

Leave(twist) == pc' = "publish" /\ leaving' = twist

\* Mutant of PassThrough: a turn keeps the target.
PassThroughLocked ==
  /\ arriving = "turn" \/ ~has_imu \/ imu_timeout
  /\ spanned' = IF arriving = "turn" THEN spanned \cup {"turn"} ELSE spanned
  /\ Leave(arriving) /\ UNCHANGED locked

\* A turn, or no IMU to rely on: the command passes and the target is given up.
PassThrough ==
  /\ arriving = "turn" \/ ~has_imu \/ imu_timeout
  /\ locked' = FALSE
  /\ spanned' = IF arriving = "turn" THEN spanned \cup {"turn"} ELSE spanned
  /\ Leave(arriving)

\* The robot stands: the target is kept, nothing is corrected.
StandStill ==
  /\ arriving = "stop" /\ has_imu /\ ~imu_timeout
  /\ Leave("stop") /\ UNCHANGED <<locked, spanned>>

\* The target is taken once the robot has stopped rotating.
DriveStraight ==
  /\ arriving = "straight" /\ has_imu /\ ~imu_timeout
  /\ \/ locked /\ Leave("corrected") /\ UNCHANGED <<locked, spanned>>
     \/ ~locked /\ gyro = "still" /\ locked' = TRUE /\ spanned' = {} /\ Leave("corrected")
     \/ ~locked /\ gyro = "rotating" /\ Leave("straight") /\ UNCHANGED <<locked, spanned>>

Decide ==
  /\ pc = "decide" /\ ControlMay
  /\ PassThrough \/ StandStill \/ DriveStraight
  /\ UNCHANGED <<hostVars, nodeVars, timer, imuVars, commandVars, arriving, admin, robotVars>>

\* A publisher that is off drops the message; one that is gone is dereferenced.
PublishCommand ==
  /\ pc = "publish" /\ ControlMay
  /\ IF publisher = "none" THEN Terminate
     ELSE /\ pc' = "idle"
          /\ IF publisher = "on" THEN wheels' = leaving /\ overtaken' = (transition = "quiet")
             ELSE UNCHANGED robotVars
          /\ UNCHANGED <<hostVars, nodeVars, timer, imuVars, commandVars, locked,
                         arriving, leaving, admin, spanned>>

\* The watchdog: an IMU that goes silent loses the target, once ...
WatchImu ==
  /\ imu_timeout' = (imu_timeout \/ (has_imu /\ imuAge > ImuTimeout))
  /\ locked' = (locked /\ (imu_timeout \/ ~imu_timeout'))

\* ... and commands older than the limit have the robot stopped, at every period.
WatchCommands(limit) ==
  LET late == has_cmd /\ commandAge > limit IN
  /\ watchdog_triggered' = (watchdog_triggered \/ late)
  /\ \/ late /\ Leave("stop")
     \/ ~late /\ UNCHANGED <<pc, leaving>>

\* Mutant of checkSystemHealth: commands may be a period older.
checkSystemHealthLate ==
  /\ Callback /\ timer = "due" /\ publisher = "on"
  /\ timer' = "waiting" /\ WatchImu /\ WatchCommands(CommandTimeout + 1)
  /\ UNCHANGED <<hostVars, nodeVars, has_imu, imuAge, gyro, has_cmd, commandAge,
                 arriving, admin, robotVars, spanned>>

checkSystemHealth ==
  /\ Callback /\ timer = "due" /\ publisher = "on"
  /\ timer' = "waiting" /\ WatchImu /\ WatchCommands(CommandTimeout)
  /\ UNCHANGED <<hostVars, nodeVars, has_imu, imuAge, gyro, has_cmd, commandAge,
                 arriving, admin, robotVars, spanned>>
-----------------------------------------------------------------------------
(* The admin group.                                                         *)

AdminGoto(label) ==
  /\ admin' = label
  /\ UNCHANGED <<hostVars, nodeVars, timer, imuVars, commandVars, callbackVars, robotVars>>

\* handleResetHeadingService: the request is refused without an IMU to rely on ...
ResetHeading ==
  /\ subscribed /\ lifecycle # "dead" /\ admin = "idle" /\ AdminMay
  /\ has_imu /\ ~imu_timeout
  /\ AdminGoto("take") /\ UNCHANGED <<locked, spanned>>

\* ... else the last sample becomes the target.
ResetTarget ==
  /\ admin = "take" /\ AdminMay
  /\ locked' = TRUE
  /\ spanned' = IF lifecycle = "active" THEN {} ELSE {"asleep"}
  /\ AdminGoto("idle")

\* What publishDiagnostics reports.
Diagnosis ==
  CASE watchdog_triggered -> "ERROR"
    [] ~watchdog_triggered /\ (~has_imu \/ imu_timeout) -> "WARN"
    [] OTHER -> "OK"
-----------------------------------------------------------------------------
Older(age) == IF age < Old THEN age + 1 ELSE Old

\* Callbacks take less than a tick, and the watchdog is served in each.
Tick ==
  /\ pc = "idle" /\ admin = "idle" /\ transition = "none" /\ timer # "due"
  /\ imuAge' = Older(imuAge) /\ commandAge' = Older(commandAge)
  /\ timer' = IF timer = "waiting" THEN "due" ELSE timer
  /\ UNCHANGED <<hostVars, nodeVars, has_imu, imu_timeout, gyro, has_cmd,
                 watchdog_triggered, locked, callbackVars, admin, robotVars, spanned>>

Init ==
  /\ overlaps \in BOOLEAN /\ declared \in BOOLEAN
  /\ lifecycle = "unconfigured" /\ transition = "none"
  /\ publisher = "none" /\ subscribed = FALSE /\ timer = "none"
  /\ has_imu = FALSE /\ imu_timeout = FALSE /\ imuAge = Old /\ gyro = "still"
  /\ has_cmd = FALSE /\ watchdog_triggered = FALSE /\ commandAge = Old
  /\ locked = FALSE
  /\ pc = "idle" /\ arriving = "stop" /\ leaving = "stop" /\ admin = "idle"
  /\ wheels = "stop" /\ overtaken = FALSE /\ spanned = {}

TransitionStep == DeactivatePublisher \/ CleanUpSubscriptions
CommandStep == Decide \/ PublishCommand

Next ==
  \/ Configure \/ Activate \/ Deactivate \/ CleanUp \/ ShutDown \/ SetYawAxis
  \/ TransitionStep
  \/ \E rate \in {"still", "rotating"} : imuCallback(rate)
  \/ \E c \in Commands : ReceiveCommand(c)
  \/ CommandStep
  \/ checkSystemHealth
  \/ ResetHeading \/ ResetTarget
  \/ Tick

Spec == Init /\ [][Next]_vars

\* Callbacks end, a due timer is served and time passes; nobody has to send anything
\* or to ask for a transition.
FairSpec ==
  /\ Spec
  /\ WF_vars(TransitionStep) /\ WF_vars(CommandStep) /\ WF_vars(ResetTarget)
  /\ SF_vars(checkSystemHealth) /\ SF_vars(Tick)
-----------------------------------------------------------------------------
\* Every variable stays in its domain, and the timer exists only while the publisher
\* does: the watchdog finds the publisher it uses.
TypeOK ==
  /\ overlaps \in BOOLEAN /\ declared \in BOOLEAN /\ overtaken \in BOOLEAN
  /\ lifecycle \in {"unconfigured", "inactive", "active", "finalized", "dead"}
  /\ transition \in {"none", "quiet", "clear"}
  /\ publisher \in {"none", "off", "on"} /\ subscribed \in BOOLEAN
  /\ timer \in {"none", "waiting", "due"} /\ (timer # "none" => publisher = "on")
  /\ has_imu \in BOOLEAN /\ imu_timeout \in BOOLEAN /\ locked \in BOOLEAN
  /\ has_cmd \in BOOLEAN /\ watchdog_triggered \in BOOLEAN
  /\ imuAge \in Ages /\ commandAge \in Ages /\ gyro \in {"still", "rotating"}
  /\ pc \in {"idle", "decide", "publish"} /\ admin \in {"idle", "take"}
  /\ arriving \in Commands
  /\ leaving \in Commands \cup {"corrected"} /\ wheels \in Commands \cup {"corrected"}
  /\ spanned \subseteq Events

\* A node that has gone inactive has told the robot to stop, and no callback that was
\* under way moves it again, with one exception: on_deactivate publishes the stop
\* before it switches the publisher off, and a callback that overlaps with it may
\* publish its command in between.
DeactivationStops ==
  lifecycle \in {"unconfigured", "inactive"} => wheels = "stop" \/ (overlaps /\ overtaken)

\* Where callbacks do not overlap, and whatever becomes of the node short of the end of
\* its process, the robot is not driven by a command older than the timeout and a
\* period of the watchdog.
StopsInTime ==
  ~overlaps /\ lifecycle # "dead" /\ commandAge > CommandTimeout + 1 => wheels = "stop"

\* An ERROR in the diagnostics is about a robot that stands.
AlarmIsTrue ==
  lifecycle # "dead" /\ pc = "idle" /\ Diagnosis = "ERROR" => wheels = "stop"

\* Where callbacks do not overlap, a correction never pulls the robot back over
\* something that happened since its target was taken: a turn, a silence of the IMU, a
\* time without activation.  (A target that the service took from an inactive node is
\* excepted: see the README.)
CorrectionSpansNothing ==
  [][PublishCommand /\ wheels' = "corrected" =>
       overlaps \/ spanned = {} \/ "asleep" \in spanned]_vars

\* A robot that is driven straight, with a live IMU, is corrected again and again: no
\* outage or transition of the past prevents it.
StraightIsCorrected ==
  (<>[](/\ lifecycle = "active" /\ gyro = "still" /\ arriving = "straight"
        /\ imuAge <= ImuTimeout)
   /\ []<>(pc = "decide"))
    => []<>(wheels = "corrected")
-----------------------------------------------------------------------------
(* Stated, and not kept.                                                    *)

\* "Integrates directly with Nav2 lifecycle_manager state transitions": a node that is
\* asked to configure itself becomes inactive.
ConfigureSucceeds == [][Configure => lifecycle' = "inactive"]_vars
=============================================================================
