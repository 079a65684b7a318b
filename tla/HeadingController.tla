-------------------------- MODULE HeadingController --------------------------
(***************************************************************************)
(* The class HeadingController of controllers/heading_controller.hpp: the  *)
(* PID and feedforward correction of the heading, with its integral        *)
(* clamped, its output saturated and its slew limited.                     *)
(*                                                                         *)
(* Angles are whole degrees, time whole ticks, and what goes to the motors *)
(* is counted in halves, so that the mean of two errors is a whole number. *)
(* A double may also be NaN, which every operation hands on.  The factor   *)
(* alpha of the low-pass filter is any number from 0 to 1.                 *)
(***************************************************************************)
EXTENDS Integers

CONSTANTS
  Configs,      \* what setConfig may be called with
  Differences,  \* target heading minus current heading
  Rates,        \* gyro rates
  YawRates,     \* commanded yaw rates
  Steps,        \* the dt of an update
  Bases,        \* base velocities
  FullSpeed,    \* the 1.0 a motor is clamped to
  ILimit,       \* bound: the largest max_i_term
  NaN

Config ==
  [kp : Int, ki : Int, kd : Int, kff : Int, max_output : Int, min_output : Int,
   max_i_term : Nat, deadband_deg : Nat, filtered : BOOLEAN, max_slew_rate : Nat]

\* std::clamp needs min_output <= max_output.
ASSUME ConfigAssumption ==
  /\ Configs \subseteq Config /\ ILimit \in Nat
  /\ \A c \in Configs : c.min_output <= c.max_output /\ c.max_i_term <= ILimit
ASSUME InputAssumption ==
  /\ Differences \subseteq Int \cup {NaN} /\ Rates \subseteq Int \cup {NaN}
  /\ YawRates \subseteq Int
  /\ Steps \subseteq {-1, 0, 1, 2} /\ Bases \subseteq Int /\ FullSpeed \in Nat
  /\ NaN \notin Int

VARIABLES
  config, i_term, prev_error, prev_output, filtered_gyro, initialized,
  out,         \* what the last update returned
  corrupt      \* history: has an update since the last reset been given a NaN?

memory == <<i_term, prev_error, prev_output, filtered_gyro, initialized>>
vars == <<config, memory, out, corrupt>>
-----------------------------------------------------------------------------
(* Doubles.                                                                 *)

Double == Int \cup {NaN}
Plus(x, y) == IF x = NaN \/ y = NaN THEN NaN ELSE x + y
Times(k, x) == IF x = NaN THEN NaN ELSE k * x
Minus(x) == Times(-1, x)
Clamp(x, low, high) ==
  IF x = NaN THEN NaN ELSE IF x < low THEN low ELSE IF x > high THEN high ELSE x
Between(x, y) == (x .. y) \cup (y .. x)

\* Mutant of normalizeAngleDeg: a half turn goes to the upper multiple.
NormalizeUp(a) == a - 360 * ((2 * a + 360) \div 720)

\* std::remainder(a, 360): a half turn goes to the even multiple.
normalizeAngleDeg(a) ==
  LET n == (2 * a + 360) \div 720
      half == (2 * a + 360) % 720 = 0
  IN a - 360 * (IF half /\ n % 2 = 1 THEN n - 1 ELSE n)
-----------------------------------------------------------------------------
(* The parts of an update.  s is what the controller remembers.             *)

Error(c, difference) ==
  IF difference = NaN THEN NaN
  ELSE LET e == normalizeAngleDeg(difference)
       IN IF -c.deadband_deg < e /\ e < c.deadband_deg THEN 0 ELSE e

\* Mutant of Integral: the sum is not clamped.
IntegralUnclamped(c, s, e, dt) ==
  IF ~s.initialized THEN s.i_term
  ELSE IF c.ki = 0 THEN 0
  ELSE Plus(s.i_term, Times(c.ki * dt, Plus(e, s.prev_error)))

Integral(c, s, e, dt) ==
  IF ~s.initialized THEN s.i_term
  ELSE IF c.ki = 0 THEN 0
  ELSE Clamp(Plus(s.i_term, Times(c.ki * dt, Plus(e, s.prev_error))),
             -c.max_i_term, c.max_i_term)

\* What the filter may make of a gyro rate.
Filtered(c, s, gyro) ==
  IF ~s.initialized \/ ~c.filtered THEN {gyro}
  ELSE IF gyro = NaN \/ s.filtered_gyro = NaN THEN {NaN}
  ELSE Between(s.filtered_gyro, gyro)

Derivative(c, s, e, gyro, smooth, dt) ==
  IF gyro # 0 \/ ~s.initialized THEN Times(-2 * c.kd, smooth)
  ELSE LET change == Plus(e, Minus(s.prev_error))
       IN IF change = NaN THEN NaN ELSE (2 * (c.kd * change)) \div dt

\* Mutant of Slewed: the step is added to the saturated output.
SlewedTwice(c, s, raw, dt) ==
  IF s.initialized /\ c.max_slew_rate > 0
  THEN LET step == c.max_slew_rate * dt
       IN Plus(raw, Clamp(Plus(raw, Minus(s.prev_output)), -step, step))
  ELSE raw

Slewed(c, s, raw, dt) ==
  IF s.initialized /\ c.max_slew_rate > 0
  THEN LET step == c.max_slew_rate * dt
       IN Plus(s.prev_output, Clamp(Plus(raw, Minus(s.prev_output)), -step, step))
  ELSE raw

Correction(c, s, in, smooth) ==
  LET e == Error(c, in.difference)
      p == Times(2 * c.kp, e)
      d == Derivative(c, s, e, in.gyro, smooth, in.dt)
      ff == Times(2 * c.kff, in.yaw_rate)
      sum == Plus(Plus(ff, p), Plus(Integral(c, s, e, in.dt), d))
  IN Slewed(c, s, Clamp(sum, c.min_output, c.max_output), in.dt)

Remembered(c, s, in, smooth) ==
  [i_term |-> Integral(c, s, Error(c, in.difference), in.dt),
   prev_error |-> Error(c, in.difference),
   prev_output |-> Correction(c, s, in, smooth),
   filtered_gyro |-> smooth,
   initialized |-> TRUE]

Motors(base, correction) ==
  [left |-> Clamp(Plus(base, Minus(correction)), 0, FullSpeed),
   right |-> Clamp(Plus(base, correction), 0, FullSpeed)]
-----------------------------------------------------------------------------
Input == [difference : Differences, dt : Steps, gyro : Rates, yaw_rate : YawRates]

Memory ==
  [i_term |-> i_term, prev_error |-> prev_error, prev_output |-> prev_output,
   filtered_gyro |-> filtered_gyro, initialized |-> initialized]

\* dt is not positive: an output, and nothing remembered.
UpdateNothing(in, base) ==
  /\ in.dt <= 0
  /\ out' = [correction |-> 0, motors |-> Motors(base, 0)]
  /\ UNCHANGED <<config, memory, corrupt>>

Update(in, base) ==
  /\ in.dt > 0
  /\ \E smooth \in Filtered(config, Memory, in.gyro) :
       LET s == Remembered(config, Memory, in, smooth) IN
       /\ i_term' = s.i_term /\ prev_error' = s.prev_error
       /\ prev_output' = s.prev_output /\ filtered_gyro' = s.filtered_gyro
       /\ initialized' = s.initialized
       /\ out' = [correction |-> s.prev_output, motors |-> Motors(base, s.prev_output)]
  /\ corrupt' = (corrupt \/ NaN \in {in.difference, in.gyro})
  /\ UNCHANGED config

\* setConfig replaces the configuration; what is remembered stays.
SetConfig(c) == config' = c /\ UNCHANGED <<memory, out, corrupt>>

\* setGains replaces the gains by those of c.
SetGains(c) ==
  /\ config' = [config EXCEPT !.kp = c.kp, !.ki = c.ki, !.kd = c.kd, !.kff = c.kff]
  /\ UNCHANGED <<memory, out, corrupt>>

\* Mutant of Reset: the last error is not forgotten.
ResetKeepingError ==
  /\ i_term' = 0 /\ prev_output' = 0 /\ filtered_gyro' = 0
  /\ initialized' = FALSE
  /\ corrupt' = FALSE
  /\ UNCHANGED <<config, prev_error, out>>

Reset ==
  /\ i_term' = 0 /\ prev_error' = 0 /\ prev_output' = 0 /\ filtered_gyro' = 0
  /\ initialized' = FALSE
  /\ corrupt' = FALSE
  /\ UNCHANGED <<config, out>>

Init ==
  /\ config \in Configs
  /\ i_term = 0 /\ prev_error = 0 /\ prev_output = 0 /\ filtered_gyro = 0
  /\ initialized = FALSE
  /\ out = [correction |-> 0, motors |-> Motors(0, 0)]
  /\ corrupt = FALSE

Next ==
  \/ \E in \in Input, base \in Bases : Update(in, base) \/ UpdateNothing(in, base)
  \/ \E c \in Configs : SetConfig(c) \/ SetGains(c)
  \/ Reset

Spec == Init /\ [][Next]_vars
-----------------------------------------------------------------------------
(* Properties.                                                              *)

\* Every variable stays in its domain: the error is the short way round, and the
\* integral within the largest limit it was ever given (anti-windup).
TypeOK ==
  /\ config \in Config /\ config.min_output <= config.max_output /\ config.max_i_term <= ILimit
  /\ i_term \in (-ILimit .. ILimit) \cup {NaN}
  /\ prev_error \in (-180 .. 180) \cup {NaN}
  /\ prev_output \in Double /\ filtered_gyro \in Double
  /\ out.correction \in Double
  /\ {out.motors.left, out.motors.right} \subseteq (0 .. FullSpeed) \cup {NaN}
  /\ initialized \in BOOLEAN /\ corrupt \in BOOLEAN

Excess(x) ==
  IF x > config.max_output THEN x - config.max_output
  ELSE IF x < config.min_output THEN config.min_output - x ELSE 0

\* An output leaves the limits only because setConfig has drawn them in under the
\* slew limiter, and then every update brings it nearer to them (update, steps 7
\* and 8).
OutputIsLimited ==
  [][memory' # memory /\ initialized' /\ NaN \notin {prev_output, prev_output'} =>
       Excess(prev_output') = 0 \/ Excess(prev_output') < Excess(prev_output)]_vars

Mirrored(s) ==
  [i_term |-> Minus(s.i_term), prev_error |-> Minus(s.prev_error),
   prev_output |-> Minus(s.prev_output), filtered_gyro |-> Minus(s.filtered_gyro),
   initialized |-> s.initialized]
MirroredInput(in) ==
  [in EXCEPT !.difference = Minus(@), !.gyro = Minus(@), !.yaw_rate = Minus(@)]

\* A robot is corrected to the left as it is to the right: an update of everything
\* mirrored is the mirror image of the update, over the half turn, the deadband,
\* the filter and the limits.
LeftIsRight ==
  config.min_output = -config.max_output =>
  \A in \in Input : \A smooth \in Filtered(config, Memory, in.gyro) :
    in.dt > 0 =>
    Remembered(config, Mirrored(Memory), MirroredInput(in), Minus(smooth))
      = Mirrored(Remembered(config, Memory, in, smooth))

\* A NaN in what the controller remembers is one given to it since the last reset:
\* reset() forgets all of it, and no operation makes one.
ResetForgets ==
  NaN \in {i_term, prev_error, prev_output, filtered_gyro} => corrupt
-----------------------------------------------------------------------------
(* What the documentation says and the code does not do.                    *)

\* Corrupted orientation data is rejected before the PID calculation.
CorruptDataIsRejected == out.correction # NaN
=============================================================================
