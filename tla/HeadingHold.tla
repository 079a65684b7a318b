----------------------------- MODULE HeadingHold -----------------------------
(***************************************************************************)
(* The heading-hold node (src/ros2/ros2_heading_control_node.cpp): it      *)
(* passes velocity commands on and, while the robot drives straight, adds  *)
(* a correction towards the heading it locked on.                          *)
(*                                                                         *)
(* The node runs in a multi-threaded executor.  Commands, IMU samples and  *)
(* the control timer share one callback group, the enable topic and the    *)
(* reset service another, parameters a third: callbacks of different       *)
(* groups run at the same time and share plain fields.                     *)
(*                                                                         *)
(* Time is counted in ticks; a time stamp is its age, Old if never set.    *)
(* Headings are not values here: a sample is a jump or not, and `spanned`  *)
(* is what has happened to the robot since the target heading was taken.   *)
(***************************************************************************)
EXTENDS Integers

CONSTANTS
  JumpWindow,      \* the 50 ms within which a large step is a jump
  ImuTimeout,      \* imu_timeout_ms_
  CommandTimeout,  \* command_timeout_ms_
  RelockDelays,    \* the values turn_relock_delay_ms_ is given
  Old,             \* ages are counted up to here
  ResetOverlaps    \* may the reset service run next to the control group?

ASSUME TimesAssumption ==
  /\ Old \in Nat /\ JumpWindow \in 0 .. Old - 1
  /\ ImuTimeout \in 0 .. Old - 1 /\ CommandTimeout \in 0 .. Old - 1
  /\ RelockDelays # {} /\ RelockDelays \subseteq 0 .. Old
ASSUME ResetAssumption == ResetOverlaps \in BOOLEAN

VARIABLES
  command, commandAge,  \* latest_command_, last_command_time_
  imuAge,               \* last_imu_time_
  turnAge,              \* last_manual_turn_time_
  relockDelay,          \* turn_relock_delay_ms_
  enabled,              \* heading_hold_enabled_
  locked,               \* target_yaw_initialized_
  pc, jump, settling,   \* the control group: where it is, the sample, is_settling
  admin,                \* the admin group: where it is
  out,                  \* the last command published
  spanned, late,        \* history: what the target has lived through
  driven                \* history: age of the last turn that was published

inputVars == <<command, commandAge, imuAge>>
history == <<spanned, late, driven>>
vars == <<inputVars, turnAge, relockDelay, enabled, locked, pc, jump, settling,
          admin, out, history>>

Ages == 0 .. Old
Commands == {"stop", "straight", "turn"}
Events == {"jump", "lost", "disabled", "outage", "stopped", "turned"}

\* What happens during control() counts from the next control() on.
Happens(e) ==
  IF pc = "idle" THEN spanned' = spanned \cup {e} /\ UNCHANGED late
                 ELSE late' = late \cup {e} /\ UNCHANGED spanned

TakeTarget(after) == spanned' = after /\ late' = {}

\* Without ResetOverlaps the reset service and the control group exclude each other.
ControlMay == ResetOverlaps \/ admin # "lock"
ServiceMay == ResetOverlaps \/ pc = "idle"

Goto(label) == pc' = label /\ ControlMay
-----------------------------------------------------------------------------
(* The control group: receive_command, receive_imu and control.             *)

ReceiveCommand(c) ==
  /\ pc = "idle" /\ Goto("idle")
  /\ command' = c /\ commandAge' = 0
  /\ UNCHANGED <<imuAge, turnAge, relockDelay, enabled, locked, jump, settling,
                 admin, out, history>>

\* Mutant of ReceiveImu: jumps are not looked for.
ReceiveImuBlind(far) ==
  /\ pc = "idle" /\ Goto("store")
  /\ jump' = (far /\ imuAge <= JumpWindow)
  /\ UNCHANGED <<inputVars, turnAge, relockDelay, enabled, locked, settling, admin,
                 out, history>>

\* A sample is a jump when it is far from the one before and came soon after it.
ReceiveImu(far) ==
  /\ pc = "idle"
  /\ jump' = (far /\ imuAge <= JumpWindow)
  /\ Goto(IF jump' /\ locked THEN "relock" ELSE "store")
  /\ UNCHANGED <<inputVars, turnAge, relockDelay, enabled, locked, settling, admin,
                 out, history>>

\* reset_heading_hold() in the control group, before label.
ResetBefore(label) ==
  /\ Goto(label)
  /\ locked' = FALSE /\ turnAge' = Old
  /\ UNCHANGED <<inputVars, relockDelay, enabled, jump, settling, admin, out, history>>

ResetOnJump == pc = "relock" /\ ResetBefore("store")
ResetAfterPassing == pc = "reset" /\ ResetBefore("idle")

StoreSample ==
  /\ pc = "store" /\ Goto("idle")
  /\ imuAge' = 0 /\ jump' = FALSE
  /\ IF jump THEN spanned' = spanned \cup {"jump"} ELSE UNCHANGED spanned
  /\ UNCHANGED <<command, commandAge, turnAge, relockDelay, enabled, locked,
                 settling, admin, out, late, driven>>

\* A command goes out; what is sent is unlike the command only when it corrects.
Publish(kind) ==
  /\ out' = kind
  /\ driven' = IF command = "turn" /\ kind # "zero" THEN 0 ELSE driven

\* The robot is not held: the command is published and the target given up.
PassOn(kind, event) ==
  /\ Publish(kind)
  /\ spanned' = spanned \cup late \cup {event} /\ late' = {}
  /\ Goto("reset")
  /\ UNCHANGED locked

\* Mutant of Control: enable is looked at before the age of the command.
ControlEnableFirst ==
  /\ pc = "idle"
  /\ \/ ~enabled /\ PassOn("raw", "disabled")
     \/ enabled /\ commandAge > CommandTimeout /\ PassOn("zero", "lost")
     \/ /\ enabled /\ commandAge <= CommandTimeout
        /\ \/ imuAge > ImuTimeout /\ PassOn("raw", "outage")
           \/ /\ imuAge <= ImuTimeout /\ command = "stop"
              /\ locked' = FALSE /\ TakeTarget({"stopped"})
              /\ Publish("raw") /\ Goto("idle")
           \/ /\ imuAge <= ImuTimeout /\ command # "stop"
              /\ spanned' = spanned \cup late /\ late' = {}
              /\ Goto("turning") /\ UNCHANGED <<locked, out, driven>>
  /\ UNCHANGED <<inputVars, turnAge, relockDelay, enabled, jump, settling, admin>>

\* The early exits of control(): no command, disabled, no IMU, standing still.
Control ==
  /\ pc = "idle"
  /\ \/ commandAge > CommandTimeout /\ PassOn("zero", "lost")
     \/ /\ commandAge <= CommandTimeout
        /\ \/ ~enabled /\ PassOn("raw", "disabled")
           \/ enabled /\ imuAge > ImuTimeout /\ PassOn("raw", "outage")
           \/ /\ enabled /\ imuAge <= ImuTimeout /\ command = "stop"
              /\ locked' = FALSE /\ TakeTarget({"stopped"})
              /\ Publish("raw") /\ Goto("idle")
           \/ /\ enabled /\ imuAge <= ImuTimeout /\ command # "stop"
              /\ spanned' = spanned \cup late /\ late' = {}
              /\ Goto("turning") /\ UNCHANGED <<locked, out, driven>>
  /\ UNCHANGED <<inputVars, turnAge, relockDelay, enabled, jump, settling, admin>>

\* is_manual_turning
Turning ==
  /\ pc = "turning" /\ Goto("settling")
  /\ IF command = "turn"
     THEN locked' = FALSE /\ turnAge' = 0 /\ TakeTarget({"turned"})
     ELSE UNCHANGED <<locked, turnAge, spanned, late>>
  /\ UNCHANGED <<inputVars, relockDelay, enabled, jump, settling, admin, out, driven>>

\* Mutant of Settling: settling is prolonged like a turn.
SettlingAgain ==
  /\ pc = "settling" /\ Goto("publish")
  /\ settling' = (turnAge < relockDelay)
  /\ \/ /\ settling'
        /\ locked' = FALSE /\ turnAge' = 0 /\ TakeTarget({"turned"})
     \/ /\ ~settling' /\ ~locked
        /\ locked' = TRUE /\ turnAge' = Old /\ TakeTarget({})
     \/ /\ ~settling' /\ locked
        /\ UNCHANGED <<locked, turnAge, spanned, late>>
  /\ UNCHANGED <<inputVars, relockDelay, enabled, jump, admin, out, driven>>

\* is_settling, or the target is taken and locked.
Settling ==
  /\ pc = "settling" /\ Goto("publish")
  /\ settling' = (turnAge < relockDelay)
  /\ \/ /\ settling'
        /\ locked' = FALSE /\ TakeTarget({"turned"}) /\ UNCHANGED turnAge
     \/ /\ ~settling' /\ ~locked
        /\ locked' = TRUE /\ turnAge' = Old /\ TakeTarget({})
     \/ /\ ~settling' /\ locked
        /\ UNCHANGED <<locked, turnAge, spanned, late>>
  /\ UNCHANGED <<inputVars, relockDelay, enabled, jump, admin, out, driven>>

\* Feedforward alone while the robot turns or settles, else with feedback.
PublishCorrected ==
  /\ pc = "publish" /\ Goto("idle")
  /\ Publish(IF command = "turn" \/ settling THEN "forward" ELSE "corrected")
  /\ settling' = FALSE
  /\ UNCHANGED <<inputVars, turnAge, relockDelay, enabled, locked, jump, admin,
                 spanned, late>>
-----------------------------------------------------------------------------
(* The admin group: the enable topic and the reset service.                 *)

AdminGoto(label) ==
  /\ admin' = label
  /\ UNCHANGED <<inputVars, relockDelay, pc, jump, settling, out, driven>>

\* Mutant of Enable: the hold is not reset.
EnableOnly(on) ==
  /\ admin = "idle" /\ enabled # on /\ AdminGoto("idle")
  /\ enabled' = on
  /\ IF on THEN UNCHANGED <<spanned, late>> ELSE Happens("disabled")
  /\ UNCHANGED <<turnAge, locked>>

Enable(on) ==
  /\ admin = "idle" /\ enabled # on /\ AdminGoto("unlock")
  /\ enabled' = on
  /\ IF on THEN UNCHANGED <<spanned, late>> ELSE Happens("disabled")
  /\ UNCHANGED <<turnAge, locked>>

\* reset_heading_hold() in the admin group, in the order of its assignments.
AdminUnlock ==
  /\ admin = "unlock" /\ AdminGoto("clear")
  /\ locked' = FALSE
  /\ UNCHANGED <<turnAge, enabled, spanned, late>>

AdminClear ==
  /\ admin = "clear" /\ AdminGoto("idle")
  /\ turnAge' = Old
  /\ UNCHANGED <<enabled, locked, spanned, late>>

ResetHeading ==
  /\ admin = "idle" /\ ServiceMay /\ AdminGoto("lock")
  /\ TakeTarget({})
  /\ UNCHANGED <<turnAge, enabled, locked>>

ResetLock ==
  /\ admin = "lock" /\ AdminGoto("idle")
  /\ locked' = TRUE
  /\ UNCHANGED <<turnAge, enabled, spanned, late>>

\* A request may ask for a negative delay.
Requests == RelockDelays \cup {-1}

\* Mutant of UpdateParameters: the request is not validated.
UpdateUnchecked(delay) ==
  /\ relockDelay' = delay
  /\ UNCHANGED <<inputVars, turnAge, enabled, locked, pc, jump, settling, admin, out,
                 history>>

\* update_parameters: everything asked for is valid, or nothing is changed.  The
\* other parameters are gains and limits.
UpdateParameters(delay) ==
  /\ delay >= 0
  /\ relockDelay' = delay
  /\ UNCHANGED <<inputVars, turnAge, enabled, locked, pc, jump, settling, admin, out,
                 history>>
-----------------------------------------------------------------------------
Older(age) == IF age < Old THEN age + 1 ELSE Old

\* A callback of the control group takes less than a tick.
Tick ==
  /\ pc = "idle"
  /\ commandAge' = Older(commandAge) /\ imuAge' = Older(imuAge)
  /\ turnAge' = Older(turnAge) /\ driven' = Older(driven)
  /\ UNCHANGED <<command, relockDelay, enabled, locked, pc, jump, settling, admin,
                 out, spanned, late>>

Init ==
  /\ command = "stop" /\ commandAge = Old /\ imuAge = Old /\ turnAge = Old
  /\ relockDelay \in RelockDelays
  /\ enabled = TRUE /\ locked = FALSE
  /\ pc = "idle" /\ jump = FALSE /\ settling = FALSE /\ admin = "idle"
  /\ out = "none"
  /\ spanned = {} /\ late = {} /\ driven = Old

\* The rest of a callback of the control group.
CallbackStep ==
  \/ Turning \/ Settling \/ PublishCorrected
  \/ ResetOnJump \/ StoreSample \/ ResetAfterPassing

AdminStep == AdminUnlock \/ AdminClear \/ ResetLock

Next ==
  \/ \E c \in Commands : ReceiveCommand(c)
  \/ \E far \in BOOLEAN : ReceiveImu(far)
  \/ Control
  \/ CallbackStep
  \/ \E on \in BOOLEAN : Enable(on)
  \/ ResetHeading
  \/ AdminStep
  \/ \E delay \in Requests : UpdateParameters(delay)
  \/ Tick

Spec == Init /\ [][Next]_vars

\* The executor serves a timer that is due before it serves messages, callbacks
\* end and time passes; nobody has to send anything.  The fairness of the timer and
\* of time is strong: callbacks of their group come in between.
FairSpec ==
  /\ Spec
  /\ SF_vars(Control) /\ SF_vars(Tick)
  /\ WF_vars(CallbackStep) /\ WF_vars(AdminStep)
-----------------------------------------------------------------------------
\* Every variable stays in its domain: no request brings in a negative delay.
TypeOK ==
  /\ command \in Commands
  /\ {commandAge, imuAge, turnAge, driven} \subseteq Ages
  /\ relockDelay \in RelockDelays
  /\ {enabled, locked, jump, settling} \subseteq BOOLEAN
  /\ pc \in {"idle", "relock", "store", "reset", "turning", "settling", "publish"}
  /\ admin \in {"idle", "unlock", "clear", "lock"}
  /\ out \in {"none", "zero", "raw", "forward", "corrected"}
  /\ spanned \subseteq Events /\ late \subseteq Events

\* A correction never pulls the robot back over something that happened since its
\* target was taken: a jump of the IMU, an outage, a stop, a turn, a time without
\* commands or the hold being switched off.
CorrectionSpansNothing ==
  [][PublishCorrected /\ out' = "corrected" => spanned = {}]_vars

\* A robot that is told to drive straight is corrected, again and again.
StraightIsCorrected ==
  <>[](/\ command = "straight" /\ commandAge <= CommandTimeout
       /\ enabled /\ imuAge <= ImuTimeout /\ admin = "idle")
    => []<>(out = "corrected")

\* A robot whose commands have stopped coming is told to stop.
LostCommandStops == commandAge > CommandTimeout ~> out = "zero" \/ commandAge = 0
-----------------------------------------------------------------------------
(* What the documentation says and the code does not do.                    *)

\* turn_relock_delay: the delay after a manual turn before the heading is locked.
LocksAfterDelay ==
  [][Settling /\ locked' /\ ~locked => driven >= relockDelay]_vars
=============================================================================
