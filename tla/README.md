# libbno055-linux: a TLA+ model of the driver

libbno055-linux drives the Bosch BNO055 orientation sensor from Linux over I2C or
UART. This directory holds TLA+ modules that model its control, TLC runs that
check them on small instances, and theorems that TLAPS proves for every instance.
Paths below are relative to the repository's root.

## The system

### Components

| component | state | operations | interacts with |
|---|---|---|---|
| `class BNO055` (`src/core/bno055.cpp`) | the configuration cache (`mode_`, `axis_map_config_`, `axis_map_sign_`, `use_xtal_`, `offsets_data_`), `i2c_fd`, `diagnostics_`, `mutex_` | `begin`, `reset`, setters, data getters, calibration and power calls | the chip, through register transactions; any number of application threads and its own background threads |
| register transactions and `reconnect()` (same file, `class Impl`; `include/libbno055-linux/transport.hpp`) | attempts, the open device | `write8`, `writeLen`, `read8`, `readLen`, `reconnect` | the bus; the cache, which `reconnect` writes back to the chip |
| the chip (external) | the register file, two pages, CONFIG mode | register reads and writes, software reset, brown-out | the driver |
| serial framing (same file, the `_raw` functions) | bytes in the tty, an attempt's place | request frames, `uart_read_exact`, reopening | the transactions above; the chip's answers |
| background readers (same file) | three threads with a running flag, a callback and a rate each | start, stop, the loop, destructor | the API above, from threads of their own; the application's callbacks |
| automatic calibration (same file) | `auto_calib_file_`, `auto_calib_enabled_`, `auto_calib_saved_`, the calibration files | enable, disable, the load in `begin`, the save by the async thread | the async reader, `reconnect()`, the file system |
| heading controller (`include/libbno055-linux/controllers/heading_controller.hpp`) | integral, last error, last output, filtered rate | `setConfig`, `update`, `reset` | the heading nodes |
| heading-hold node (`src/ros2/`) | target heading, last command, last IMU sample, stop and time-out flags | subscriptions, control timer, services, parameters | the ROS executor's threads, the controller |
| lifecycle heading node (`src/ros2/`) | the same and the node's lifecycle state | transitions, subscriptions, watchdog timer, reset service, parameters | a lifecycle manager, the executor, the controller |
| publisher nodes (`src/ros2/`) | the driver object, the last raw frame, the lifecycle state | sensor timer, transitions | the driver, a lifecycle manager |
| C, Python and Rust interfaces | a handle | one call each | the driver |

### What is hard

* `mutex_` protects one register transaction, not an API call: calls of several
  threads interleave between transactions, and the cache is assigned without it.
* A transaction that runs out of attempts runs `reconnect()`: it resets the chip
  and rewrites everything the cache says, in the middle of whatever call another
  thread is in. It stops at its first failure and leaves what it has done.
* Settings are only accepted in CONFIG mode, so every setter saves `mode_`, goes
  to CONFIG and returns; the read of `mode_` and the return are far apart.
* A write that reports failure may have reached the chip (the acknowledgement is
  what got lost). The chip loses its state in a brown-out, and keeps it when the
  process restarts.
* `begin()` polls in loops whose every failed poll runs a complete recovery.
* `begin(AMG)` moves the register file to page 1 for five transactions.
* Threads end by themselves, are stopped from callbacks, and outlive flags.
* A serial attempt that times out leaves its answer on the line: frames carry no
  number, and nothing but opening the tty anew empties it.
* A calibration file is truncated and written by a thread whose process may end at
  any step, after a check that a recovery of another thread may have made stale.
* The nodes run in multi-threaded executors: transitions, parameters and services
  meet callbacks that are under way, and flags outlive a deactivation.
* In the controller a wrapped angle, a deadband, a clamped integral, a saturated and
  a slew-limited output meet, and nothing keeps a NaN out.

`PROJECT.json` lists these hazards line by line, with the property that covers each.

## Modules

| module | models |
|---|---|
| `Bno055Chip` | the register file: pages, CONFIG-only registers, reset |
| `Bno055Driver` | `class BNO055`: API calls, transactions, recovery, cache |
| `MCBno055Driver` | workloads and instances of it for TLC |
| `Bno055DriverProofs` | theorems about it |
| `RegisterBus` | what one attempt at a register transaction promises (abstract) |
| `UartLink` | the serial framing, byte by byte, shown to implement `RegisterBus` until a frame is torn |
| `MCUartLink`, `UartLinkProofs` | instances of it, the refinement proved |
| `BackgroundReaders` | the three background threads: start, stop, loop, destructor |
| `MCBackgroundReaders`, `BackgroundReadersProofs` | instances of it, theorems about it |
| `AutoCalibration` | the calibration file: loaded by `begin`, saved by the async thread |
| `MCAutoCalibration`, `AutoCalibrationProofs` | instances of it, theorems about it |
| `HeadingController` | the controller's arithmetic over whole numbers and NaN |
| `MCHeadingController`, `HeadingControllerProofs` | instances of it, theorems about it |
| `HeadingHold` | the heading-hold node's callbacks and control loop |
| `MCHeadingHold`, `HeadingHoldProofs` | instances of it, theorems about it |
| `LifecycleHeading` | the managed heading node: transitions, watchdog, commands |
| `MCLifecycleHeading`, `LifecycleHeadingProofs` | instances of it, theorems about it |
| `SensorPublisher` | the plain and the managed publisher node |
| `MCSensorPublisher`, `SensorPublisherProofs` | instances of it, theorems about it |

### `Bno055Driver`

One action is one step that another thread can fall between: an attempt of a
transaction (`AttemptOk`, `AttemptFail`: the body of `for` in `write8` and its
siblings, under `mutex_`), the final fallback of a burst read (`RefreshOk`,
`RefreshFail`), each register write of `reconnect()` (`RecoverWrite`,
`RecoverFail`), its detection of the chip (`Detect`, `DetectFail`), the attempt
after it (`RetryOk`, `RetryFail`), and each statement of an API call that touches
shared state outside the lock (`AssignMode`, `SavePrev`, `CacheSetting`,
`CopyOffsets`, `StoreOffsets`, the file steps). `reconnect()`'s writes are
separate although the lock is held, because the cache they read is assigned
without it.

`pc[t]` is the place of thread `t` in its call and `frame[t]` its locals: the
call and its argument, `prev` (`saved`), the mode being set (`target`), where
`setMode` returns to (`ret`), polls spent, and the offsets in hand (`data`).
`Request(t)` is the transaction at that place, `AfterIO(t, ok)` what the call
does with its outcome: a call's control is in `BeginNext`, `AfterBody`,
`AfterPoll` and `AfterIO`. `tries[t]` counts attempts, `rec[t]` is the step of
`reconnect()`. `cache` is the configuration cache; `cache.opr` is `mode_`,
`cache.offs = "none"` is `has_offsets_ = false`.

`clean` and `requested` are history variables that no guard reads: whether every
write since the chip's last reset was acknowledged, and the mode the application
last asked for.

Abstractions: modes other than CONFIG and AMG are a set `FusionModes`; axis maps,
signs and profiles are small sets around the power-on value; a read returns ok or
not, except that a CHIP_ID poll on page 1 finds another register and a fetch of
the offsets returns the register's profile. Sleeps are where the lock is not
held. The wait for the reboot inside `reconnect()` is part of `Detect` and of the
writes that follow it. The calibration file is `none`, `short` (fewer than 22 bytes) or a profile.
The bus answers or does not; while it does not, a transaction fails, and a write
may or may not have taken effect.

### The chip

External, from the datasheet facts the source's comments rely on: only CONFIG
mode accepts settings, page 0 and page 1 registers share addresses, the page
register is on both, reset restores power-on values.

### `RegisterBus` and `UartLink`

`RegisterBus` is the promise of `Transport` and of the `_raw` functions: an attempt
is performed by the chip at most once and not after the next one began; one that
succeeds was performed and read what the register then held; one that fails may or
may not have been. `Bno055Driver` takes its attempts to be like that. Over I2C an
attempt is a system call. Over a serial line it is a dialogue, and `UartLink` has
it step by step: `Send` (the request frame goes out, or `::write` takes less),
`TakeHeader` and `TakePayload` (`uart_read_exact` got its bytes), `TimeOut`, and
between attempts `Reopen` (`close_i2c`, `open_i2c`, after `Retries` or
`BurstRetries` failures) and `GiveUp`. `line` is what the chip has answered and the
host has not taken, `arrived` how much of it is in the tty; the chip performs or
refuses the oldest request on `wire`, and an answer comes whole, not at all, or with
one byte lost or altered (`Transmit`, `Damaged`). A byte of a request may be altered
too, which makes another request of it (`AlterRequest`). The header bytes are those of
the protocol; the length of a burst and the byte 01, which is both the status
"success" and the length 1, are told apart the way the code tells them apart, and a
value may read like one of them.

Nothing is assumed of time: the time-out of an attempt, and the sleep before the next
one (0.5 ms in `readLen`, 5 ms in `write8`), may end before the answer is there.

`Bus == INSTANCE RegisterBus WITH open <- ...` maps an attempt under way to an open
transaction; `performed`, `seen`, `faulty` and `torn` are history variables. `torn`
becomes true when a frame comes in part, altered, or after the attempt that asked for
it gave up, and false when the tty is opened while nothing is on its way. Frames carry
no checksum and no number, so the link is a register bus only until then
(`ServesUntilTorn`): an altered byte of data is returned as the value, and a late
answer is taken for the next request's (`late_answer`). What the code does against it
is to open the tty anew after an attempt too many, and that is enough if the line is
quiet at that moment (`OpeningResynchronises`). `Bno055Driver`, whose attempts are
those of `RegisterBus`, is therefore about I2C and about a serial line on which no
frame is torn.

### `BackgroundReaders`

The async, raw async and interrupt readers have the same skeleton: a running flag,
a callback, a `std::thread` member. `running`, `handle` and the callback that
`Arm` replaces are indexed by the kind. A caller is in `start` (`CheckStart`,
`Arm`, `Spawn`), in `stop` or in the destructor of `Impl`, which does for each
kind what `stop` does (`CheckStop`, `Quit`, `Joinable`, `Join`) and then
destroys the members (`DestroyMembers`). Every test of a flag and every set of it
is a step of its own. A thread goes through `Setup` (the GPIO line of an
interrupt reader; without it the flag is cleared and the thread ends), `Top`
(`while (running_)`), `Read`, `Deliver`, `CallbackReturns` and `Calibrate`.

`handle[k] = 0` is a `std::thread` that is not joinable. Assigning to a joinable
one, destroying it, and an exception that leaves a thread end the process:
`terminated` says which. `join()` on a member that another caller has joined
meanwhile is undefined: the process ends or goes on.

A read succeeds or fails; what it does on the bus is `Bno055Driver`'s. Sleeps and
rates, the calibration-file flags, callbacks that themselves start or stop a
reader, callbacks that throw, and moved-from objects are left out.

### `AutoCalibration`

One process after the other works on the same files and the same chip. A profile is
`good` or `poor`, a file holds one, is missing or `short`. The application's calls
(`enableAutoCalibration`, `disableAutoCalibration`, `Begin` with `LoadCalibration` at
its end, `StartReading`, `StopReading`) run next to the reading thread, whose check
and save are the steps `CheckEnabled`, `CheckCalibration`, `ReadOffsets`,
`OpenFile`, `WriteFile`, `MarkSaved`. `getCalibrationStatus` throws without an
answer, which ends the process (`StartProcess`), as does `Crash`. `Recover` is a
`reconnect()` of whatever call: it resets the chip and uploads the cached profile,
`cached`. The file name is a `string_view` of the field it came from: once
`enableAutoCalibration` has assigned it (`dangling`), the file that is opened is any
(or none).

`LoadCalibration` is the end of `begin()`: `Upload` caches the profile first and then
writes it to the chip if the bus is up, as `setSensorOffsets` does, which tells nobody
that the write failed.

`owed` (the paths that were saved to), `restored` (`begin()` found such a profile in
this process) and `mishap` (a crash while the file was open, bytes the disk refused, a
reset between the check and the reading) are history variables. A save that the
application makes itself, next to the thread's, is not modelled. The detours through CONFIG mode are `Bno055Driver`'s,
start and stop in their steps `BackgroundReaders`'.

### `HeadingController`

`Update` is `update()` with a positive `dt`: error over the short way with the
deadband, trapezoidal integral with its clamp, filtered derivative, feedforward,
saturation, slew limit, in this order; `UpdateNothing` is its early return. Angles
are whole degrees; a NaN runs through every operation as in IEEE arithmetic
(`Plus`, `Times`; `std::clamp` hands a NaN on). The low-pass filter may put out
anything between its input and its last output (its factor is between 0 and 1),
which is a choice. What goes to the motors is counted in halves, so that the mean
of two errors is exact; the quotient of the fallback derivative is rounded down.
`setConfig` and `setGains` keep the memory, which is why a limit can be crossed.

### `HeadingHold`

The node runs in a multi-threaded executor with three callback groups. In the
control group (`pc`): `ReceiveCommand`, `ReceiveImu` (then `ResetOnJump`,
`StoreSample`) and `Control`, which either publishes the command as it is or
zero (`PassOn`, then `ResetAfterPassing`) or goes through `Turning`, `Settling`
and `PublishCorrected`. In the admin group (`admin`): `Enable` (then
`AdminUnlock`, `AdminClear`: the assignments of `reset_heading_hold()` in their
order) and the reset service (`ResetHeading`, `ResetLock`). In a group of its
own: `UpdateParameters`. A step ends where another group's assignment makes a
difference.

`locked` is `target_yaw_initialized_`. The target heading itself is not a value:
`spanned` holds what has happened to the robot since it was taken, which is what
makes a correction towards it right or wrong. What happens while `control()` is
on its way goes to `late` and counts from the next one on. `driven` is the age
of the last turn that was sent to the wheels. The three are history variables.
Time stamps are ages in ticks; 0 ("never") and old are the same to every test in
the code. A command is `stop`, `straight` or `turn` as the thresholds of
`control()` tell them apart.

Left out: the numbers of the correction (gains, integral, filters, feedforward),
samples and commands that are not finite (ignored), diagnostics.

### `LifecycleHeading`

The node corrects in the callback that receives a command (`ReceiveCommand`,
`Decide`, `PublishCommand`), while the watchdog timer looks at the ages of commands
and IMU samples (`checkSystemHealth`). Transitions have the steps of their
assignments: `Deactivate` (timers, stop) and `DeactivatePublisher` (publisher off,
target given up), `CleanUp` and `CleanUpSubscriptions`. The reset service is
`ResetHeading` and `ResetTarget`. `overlaps`, chosen initially, says whether callbacks
of different groups run at the same time, as in the multi-threaded executor of
`main()`, which the launch file starts; in a single-threaded container they do not.
`overtaken` is a history variable: the robot's last command was published between the
stop of a deactivation and the switching off of the publisher.

`WatchImu` and `WatchCommands` are the two halves of the watchdog; its stop leaves by
`PublishCommand`, in a step of its own. A watchdog callback that the executor has taken
and not begun when its timer goes is left out: it returns at once, or ends the process
at a publisher that was reset.

`Configure` ends the process unless the host declared `max_slew_rate`, which the
node reads in a `noexcept` function and declares nowhere; `declared` is chosen
initially. `SetYawAxis` (the parameter `yaw_axis`, a string, which the hook logs as
a double) ends it too, and so does the use of a publisher that was reset.

A tick is a period of the watchdog (50 ms); `spanned` is what happened to the robot
since the target was taken, as in `HeadingHold`.

### `SensorPublisher`

`kind` is `plain` or `managed`. The plain node begins in its constructor and
publishes what a burst read returns; begun without hardware it is silent for ever.
The managed node's cycle is `Take` (the timer fired, a thread has its callback),
`StartCycle`, `FinishRaw` (the frame filter), `FinishQuaternion`, `PublishImu` or
`DropImu`, then `SendTransform` or `SkipTransform` and `PublishOthers` or `DropOthers`:
a driver call may take seconds, and a transition may come in between, which nothing
delays. The transform goes out by a broadcaster that has no lifecycle, after the
message whether that was dropped or not. `borrowed` tells
whether the driver object of the cycle still exists. A frame is known by whether it
is the chip's present one (`sample`, `seen`), and `copies` counts messages with it.
`outlived` (the timer fired before the last deactivation) and `strays` (transforms sent
since then by a node that is not active) are history variables. One callback is in
flight: those of one callback group exclude each other. `on_configure` makes a new
group, and it is an assumption that a callback which outlives a deactivation, a
cleanup, a configuration and an activation is not joined by one of the new group.

## Properties and runs

| run | shows |
|---|---|
| `solo` | `Synced`, `ConfigWritesLand` for one thread making `begin` and two more calls |
| `polled` | the same, `ModeKept` and `TypeOK` with a second thread reading, which may recover at any point |
| `returns` | `EveryCallReturns` under weak fairness of each thread, and `EveryStepCounts` |
| `wake` | a counterexample: `enterNormalMode` does not restore the mode |
| `uart` | `UartLink` is a `RegisterBus` until a frame is torn, with a byte lost or altered; `OpeningResynchronises`, `EveryAttemptEnds` |
| `late_answer` | a counterexample: a late answer is returned for another register |
| `readers` | the five properties of `BackgroundReaders` for one application thread, four thread starts, auto-calibration on and a GPIO line that may fail |
| `calibration` | the four properties of `AutoCalibration` for two files |
| `controller` | the four properties of `HeadingController` for three configurations |
| `heading` | the four properties of `HeadingHold` |
| `lifecycle` | the six properties of `LifecycleHeading`, in an executor whose callbacks overlap and in one where they do not |
| `publisher` | the five properties of `SensorPublisher` |

* `Synced`: when no configuring call is under way and every write since the last
  reset was acknowledged, the chip's mode, axes, sign, crystal, unit and page are
  what the cache says.
* `ModeKept`: between calls `mode_` is the mode the application asked for, even
  if every transaction failed.
* `ConfigWritesLand`: an acknowledged setting is in the chip: no interleaved
  recovery takes the chip out of CONFIG mode under a setter's write.
* `EveryCallReturns`: every call returns however long the bus is down. In
  `BackgroundReaders`: start, stop and the destructor return, or the process ends.
* `EveryStepCounts`: each step of a call uses up a label, a poll of the budget, an
  attempt or a step of a recovery (`Nearer`, a lexicographic measure), and nothing
  another thread, the bus or the chip does gives one back.
* `StoppedIsQuiet`: a reader that is off, and not being stopped, has no thread
  left that reads the sensor or calls the application.
* `CallbackInUseIsKept`: a start never replaces a callback that a thread may be in.
* `OnlyTheGpioThreadIsAbandoned`: a `std::thread` is left unjoined in one case, an
  interrupt reader that lost its line by itself; nothing is joined twice and no
  thread outlives the object.
* `ServesUntilTorn`: until a frame comes in part, altered or late, a transaction over
  the serial line that succeeds was performed by the chip, this very one, and read
  what it returns, whatever answers and requests are lost, refused or not sent.
* `OpeningResynchronises`: an attempt fails only if something went wrong since the
  device was opened: opening it brings host and chip in step.
* `EveryAttemptEnds`: whatever gets lost, an attempt ends.
* `ProfileSurvives`: a profile that was saved is there until it is written anew,
  except for the mishaps listed above.
* `BeginRestoresProfile`: what was saved to the enabled file is in the chip when
  `begin()` returns, unless the bus was down as it was uploaded, of which nobody is
  told; and in either case every recovery that goes through brings it to the chip from
  then on, because the profile was cached before the upload. Excepted are mishaps of a
  save.
* `CalibrationIsSaved`: a reader with automatic calibration saves the profile of a
  chip that stays calibrated, and then stops writing.
* `OutputIsLimited`: an output is outside the limits only because a new
  configuration drew them in, and then each update brings it nearer.
* `LeftIsRight`: the update of everything mirrored is the mirror image of the
  update, the half turn included.
* `ResetForgets`: a NaN in the controller is one it was given since its last reset.
* `CorrectionSpansNothing`: no correction is relative to a target that was taken
  before a jump of the IMU, an outage, a stop, a turn, a loss of commands or a
  disabling of the hold, although these come from three callback groups.
* `StraightIsCorrected`: a robot that keeps being told to drive straight, with a
  fresh IMU and the hold enabled, is corrected again and again.
* `LostCommandStops`: a robot whose commands have stopped coming is told to stop.
* `DeactivationStops`: the last thing a robot heard from a node that has gone inactive
  is a stop, and a callback that was under way moves it no more. One exception, when
  callbacks overlap: a command published between `on_deactivate`'s stop and its
  switching off of the publisher, two statements later (lines 152 and 153).
  `AlarmIsTrue`: an ERROR in the diagnostics is about a robot that stands.
  `StopsInTime`: where callbacks do not overlap, the robot is not driven by a command
  older than the time-out and a period of the watchdog, whatever transitions come in
  between, the shutdown included.
* `CorrectionSpansNothing`, `StraightIsCorrected` of `LifecycleHeading`: as above,
  over deactivations too, the first where callbacks do not overlap. Excepted is a target that the reset service takes from a
  node that is not active: it survives the activation, whatever happened meanwhile.
* `InactiveIsQuiet`: a node that is not active sends no sensor message, although a
  callback may still be under way; a transform on `/tf` it does send, but only one for
  each deactivation, out of a callback whose timer fired before it.
  `OnlyOvertakenCallbacksKill`: only a callback that was overtaken by a deactivation
  and a cleanup ends the process. `AtMostTwice`: a frame is published at most twice
  (the filter looks before the data is read), unless the raw read failed.
  `DataFlows`: an active managed node on a working bus publishes again and again, or
  the chip has stopped updating.

### Bounds and why they are enough

`MaxCalls` 2 to 4 calls: one `begin` and two calls let one call's leftovers meet
the next. `MaxOutages` up to 2: a recovery can fail and a later one succeed.
`MaxPowerCycles` 1. `Retries` 1 or 2 (the code has 3) and `BurstRetries` likewise
(5): an attempt loop differs only in first, middle and last rounds. `PollBudget`
1 or 2 (100 and 50 in the code). One fusion mode, one other axis map, sign and
profile: properties compare values for equality only. `PriorChips` in `solo` and
`polled` includes a chip that an earlier process left running with other axes.

The passing runs restrict the workload where the code's promises end; what is
behind each border is in the next section or in a violation run. `polled` has one
thread that configures, and its reader does not run next to `begin(AMG)`; `reset`,
`enterSuspendMode` and `enterNormalMode` are in `returns` but not in the runs of
`ModeKept` and `Synced` (`wake`).

`uart`: one register and two values that read like the bytes of a header (`BB`, `01`),
a burst as long as a header, so that data can be taken for one. `MaxSpoilt` 1: one
frame is damaged, in any of its bytes; answers and requests are lost, late or refused
as often as one likes. `MaxLine` 5 is an answer and most of a second, beyond which the
tty loses what comes; `MaxWire` 1 holds a request back until the chip has looked at the
one before. Attempts are 2 and 3, then one after opening (3 and 5 in the code: there is
a first, a last and one in between). `late_answer` has two registers and bursts of a
vector's 6 bytes; it damages nothing and only delays.

`MaxStarts` is 4 in `readers`: all three kinds run together and one of them is
started again after it was stopped or gave up. `readers` has one caller: with two,
a start can fall between the two steps of another's start or stop, which no
document allows or forbids.

`calibration`: two paths, as many crashes, outages and recoveries as one likes: the
state is finite without bounds.

`controller`: differences of 2 (in the deadband), 10 and -10, 180 and 540 degrees and
NaN, three configurations among which `setConfig` switches, `dt` of 0, 1 and 2. The integral's clamp and
the limits make the state finite.

`heading` counts time up to 2: an age is within a time-out of 1 or beyond it, a
relock delay of 1 or 2 needs one or two ticks. `ResetOverlaps` is `FALSE`: the
reset service reads the heading and sets the lock in separate statements, and
with a callback of the control group in between `CorrectionSpansNothing` is
false. Enable messages and parameter requests fall anywhere.

`lifecycle`: `CommandTimeout` 1 and `ImuTimeout` 2, so that either runs out first,
ages up to 4, two more than the longer one. Both executors are initial states of the
one run. `StopsInTime` and `CorrectionSpansNothing` say "where callbacks do not
overlap", and are false without these words (next section).

`publisher` has no bound but `copies`, which stops at 3, one more than the property
allows.

`VIEW Control` drops `diagnostics_` and `result`, which no guard and no property of these
runs reads.

### Stated, and not kept

These properties are in the modules, say what a document of the repository (or the
reader of the code) expects, and are false. TLC shows each when a configuration
names it:

| property | counterexample | says otherwise |
|---|---|---|
| `WakeRestoresMode` (run `wake`) | suspend, wake: the chip is in CONFIG mode, because `enterSuspendMode` left that in `mode_` | `docs/API_REFERENCE.md:300` |
| `ReadsAnswerTheirRequest` (run `late_answer`) | a late answer is taken by the retry, whose own is taken by the next read, of another register | `docs/API_REFERENCE.md:422` |
| `AmgIsTuned` | `reconnect()` resets a chip in AMG mode and does not write the page-1 configuration again | `docs/INTEGRATION.md:576` |
| `ModeKept` with two configuring threads | `setMode` inside another thread's save-and-restore of `mode_` is undone | `docs/API_REFERENCE.md:132` |
| `NoTornUpload` | a reader's recovery uploads half of each of two profiles in the middle of `setSensorOffsets`'s copy | `docs/API_REFERENCE.md:132` |
| `ReadsStayOnDataPage` | a getter next to `begin(AMG)` reads page 1 | `docs/API_REFERENCE.md:132` |
| `NeverTerminates` (`BackgroundReaders`) | the bus is lost while the async thread waits for calibration: `getCalibrationStatus` throws in the thread | `docs/ARCHITECTURE.md:50` |
| `TargetIsWritten` | a second file that is enabled after a save is never written: `auto_calib_saved_` is not about the file | `docs/API_REFERENCE.md:351` |
| `CorruptDataIsRejected` | nothing calls `isValidQuat`: a NaN reaches the output and stays | `CHANGELOG.md:77` |
| `LocksAfterDelay` (`HeadingHold`) | a turn during an IMU outage is followed by a lock without the settling delay | `config/heading_control_params.yaml:39` |
| `StopsInTime` without `~overlaps` | a command that is under way is published after the stop of `on_deactivate`, when the watchdog is gone | `docs/HEADING_CONTROL.md:106` |
| `ConfigureSucceeds` | `on_configure` reads an undeclared parameter in a `noexcept` function | `src/ros2/README.md:20` |

`wake` and `late_answer` stand for the API and the transport; the others need only a
configuration with the constants of the passing run and the property in question
(for `ModeKept` a second configuring thread, for `NeverTerminates`
`AutoCalibration = TRUE`, for `LocksAfterDelay` time-outs longer than the relock
delay, as shipped).

### Fairness

`FairSpec` is weak fairness of each thread's step within a call: the operating
system keeps scheduling a thread that can run. `mutex_` is free between any two
attempts, and the model gives no thread an unbounded loop, so weak fairness
suffices; neither the bus healing nor the application calling again is assumed.
In `BackgroundReaders` it is weak fairness of each caller inside a call and of
each thread, which includes that the application's callbacks return: `stop`
joins the thread they run in.
In `HeadingHold` callbacks end, and the control timer and time itself are
strongly fair: the executor takes a timer that is due before it takes messages,
and messages come in between. No message has to arrive.
In `LifecycleHeading` likewise, and `Tick` waits for a watchdog that is due: the
watchdog is served within a period, which is what "in time" rests on. In
`SensorPublisher` the timer fires and callbacks and cleanups come to their end. In
`UartLink` an attempt goes on, the chip looks at requests and bytes arrive.
In `AutoCalibration` the reading thread goes on, and a file that is opened again and
again is opened at some time (strong fairness of `OpenFile`).

## Theorems

`Bno055DriverProofs` proves, for any threads, workloads, retry limits, bounds
and register values:

* `TypeCorrect`: `Spec => []TypeOK`.
* `RecoveryExcludes`: at most one thread is in `reconnect()`.
* `InvariantHolds`: `Spec => []IInv`, from which both follow.

`TypeOK` is not inductive: that `WRITE AXIS_MAP_SIGN` writes a sign depends on
which call is at that place. `IInv` is `SharedOK` (types of the shared
variables), `ThreadsOK` (types of pc and frame, and `ControlOK`: which operation
can be at which label and what its frame holds there, `setMode` counted as the
place it returns to) and `LockOK` (a thread inside `reconnect()` is at a
transaction and holds `mutex_`, and a holder is inside). There is one lemma per action, built from
lemmas on moving one thread (`Moved`, `FinishType`, `GotoType`, `SetModeType`,
`AfterIOType`). The assumptions are those on the constants in `Bno055Chip` and `Bno055Driver`.

`ModesAreKept` (`Spec => []ModeKept`) assumes `OneConfigures(c)`: only thread `c`
begins and configures, without `reset()` and the power modes, and the others read;
with two such threads, or with those calls, `ModeKept` is false. Its invariant `KInv`
says which variable holds the mode that was asked for at each point of a call:
`mode_` itself outside `begin()` and the detour through CONFIG mode, the argument of
`begin()` up to its last `setMode`, `prev` in the detour, the parameter of `setMode`
until it is assigned (`Held`); and that the other threads stay at reads (`Aside`).

`ChipIsSynced` (`Spec => []Synced`) and `WritesLand` (`Spec => ConfigWritesLand`) assume
`OneSets(c)`, that is `OneConfigures(c)` with a single `begin()`: a second one resets
the chip's axes and keeps the cached ones, and `Synced` is false. `Synced` speaks of
the moments between calls; its invariant `SInv` of all others. For each register, the
chip agrees with the cache, or it is excused: the call under way still owes the write
(`Owes`: a setter between its cache and its write, `begin()` before the write of that
register, `setMode` between `mode_` and `OPR_MODE`), or a recovery has reset the
chip and not come to the register yet (`Agrees`, with the step `RecoveryStep` of whoever
holds `mutex_`). `InConfigMode` and `Follows` say that at the labels which write
settings `mode_` is CONFIG, so that the recovery of any thread ends in CONFIG too and the
chip accepts them; this is what `WritesLand` needs as well. All of this is claimed
only while `clean` holds: a write that failed for good excuses everything up to the
next reset. Each transaction then either pays what is owed (`OwedIsWritten`,
`WritesAccepted`), or is the reset of `begin()`, when the cached settings are still
the defaults that a reset brings back (`ResetAgrees`), or is a read.

`CallsRunOut` (`Spec => EveryStepCounts`) has no assumption. It needs only `IInv`: one
lemma per way of moving on (`FinishNearer`, `GotoLater`, `AssignLater`, `ResumeLater`,
`PollAgainNearer`, `StepsNearer`), and that the step of one thread leaves the others
where they are (`OthersKeepPosition`). With the fairness of `FairSpec` it is the reason
why `EveryCallReturns` holds: a thread that keeps running reaches the end of its call.

`BackgroundReadersProofs` proves, for one caller and any number of starts:

* `StoppedReadersAreQuiet`: `Spec => []StoppedIsQuiet`.
* `OnlyGpioThreadsAreAbandoned`: `Spec => []OnlyTheGpioThreadIsAbandoned`.
* `TypeCorrect`: `Spec => []TypeOK`.
* `CallbacksInUseAreKept`: `Spec => CallbackInUseIsKept`.

None of them is inductive. `IInv` adds that a thread that may run is the one
its member holds (`LiveAreHeld`), that a member whose reader is off is being
joined or holds an interrupt thread that gave up (`HeldAreNeeded`), what the
caller knows at each label (`CallOK`: between `Arm` and `Spawn` the flag is set
and the member free or given up; in the destructor the readers already dealt
with are off), and why the process ended (`EndOK`). That there is one caller is
an assumption of the theorems and not of the module: the properties are false
with two.

`HeadingHoldProofs` proves `TypeCorrect` and `CorrectionsSpanNothing` for any
timeouts, relock delays and jump window, under the assumption `~ResetOverlaps`.
The invariant: a locked target has lived through nothing, unless the hold has
just been disabled and the admin group is about to unlock it (`LockedIsClean`);
the two places where a callback has seen an interruption and not yet reset
(`relock`, `reset`) are covered by `PlacesOK` and the exception of `reset`; and
what is about to be published is clean if it corrects (`CorrectionIsClean`).

`UartLinkProofs` proves, for any registers, values, retry limits, any number of
callers and any burst longer than a byte:

* `TypeCorrect`: `Spec => []TypeOK`.
* `LinkResynchronises`: `Spec => OpeningResynchronises`.
* `LinkServesUntilTorn`: `Spec => ServesUntilTorn`.
* `LinkImplementsBus`: `Spec => ([]~torn => Bus!Spec)`: on a line on which no frame ever
  comes in part, altered or late, the link implements `RegisterBus`. It follows from
  the theorem above.

None has an assumption: any bytes may be lost or altered, any answers late, and values
may read like headers. The invariant `InStep` says what can be on the line at each
place of an attempt: the answer or the request of this attempt, a refusal, or nothing.
From it each step is a step of the bus or a stutter (`BusStep`). It survives every step
that tears no frame (`InStepNext`), and an opening that finds the line quiet brings it
back whatever went before (`OpeningIsInStep`), so that it holds whenever `torn` does
not (`Sound`). An attempt fails in step only if something is missing from the line, and
that is a fault.

`HeadingControllerProofs` proves `TypeCorrect`, `ResetForgetsAll`, `OutputsAreLimited`
and `LeftIsRightAlways` for any configurations with ordered limits and any inputs.
`IInv` is `TypeOK /\ ResetForgets`; the rest is a lemma per part of the update on
what it returns and how it mirrors, the half turn of `normalizeAngleDeg` included
(`ShortWayMirrored`, from the arithmetic of `Halves`).

`LifecycleHeadingProofs` proves `TypeCorrect`, `StoppedWhenInactive`,
`StoppedInTime`, `AlarmsAreTrue` and `CorrectionsSpanNothing` for any time-outs,
without an assumption. The invariant has a part for both executors: what the lifecycle
state says of publisher, timer and robot (`PublisherOK`), and what a triggered watchdog
says of the robot and of the message under way (`AlarmOK`). Where callbacks do not
overlap it has another (`SingleOK`): one callback at a time (`OneAtATime`), a robot that
moves has a recent command and the watchdog is due when it is about to be too old
(`DrivenOK`), likewise for a trusted IMU (`ImuOK`), and a target held by the active
node has lived through nothing (`TargetOK`).

`SensorPublisherProofs` proves `TypeCorrect`, `FramesAreFiltered`,
`InactiveNodesAreQuiet` and `OnlyOvertakenKill`, without assumptions: what the
lifecycle says of timer and publishers, and that a callback without them is one
that outlived its activation (`NodeOK`); and that the messages there are with a
frame and those that may still come are two (`CopiesOK`).

`AutoCalibrationProofs` proves `TypeCorrect`, `SavedProfilesSurvive` and
`ProfilesAreRestored` for any set of paths. The invariant is the chain from the chip
to the file (`ChainOK`): a poor profile in a file, in the thread's hands or in a chip
that was found calibrated is the trace of a mishap; and what is cached once `begin()`
has found a saved profile is a good one, or the trace of a mishap too (`CacheOK`).

Only model-checked: the liveness properties (`EveryCallReturns` twice,
`EveryAttemptEnds`, `StraightIsCorrected` twice, `LostCommandStops`, `DataFlows`,
`CalibrationIsSaved`), which are outside the prover's reach. Every other property of a
passing run is a theorem.

## Not modelled, and the plan

Done: the driver and the chip, the readers, automatic calibration, the serial
framing with its abstract bus, the controller, the four nodes. Left, in order:

1. Measures like that of `EveryStepCounts` for an attempt of `UartLink` and for the
   calls of `BackgroundReaders`.
2. The publishers' calibration services and `apply_advanced_features`.

Not modelled: the numbers of the correction in the nodes and the contents of
messages, so also their units; file descriptors by identity (`begin()` opens the
device without `mutex_`); loggers and callbacks that call back into the object;
moved-from objects; the mock. The C, Python and Rust interfaces forward calls and
keep no state beyond a handle, and the Rust crate has a copy of the C++ sources;
examples, packaging and launch files have none.

Seen while modelling and not a run of its own: `begin()` returns true whatever
its writes after the second poll returned (`docs/API_REFERENCE.md:150` says
otherwise); `loadCalibrationFile` and `saveCalibrationFile` return true although
the upload or the file write failed (`:286`, `:282`); after a `begin()` that failed past its
`setMode(Config)`, `reset()` succeeds and leaves the chip in CONFIG mode
(`include/libbno055-linux/bno055.hpp:190`); `reset()` clears the chip's
axes and keeps the cached ones, which a later recovery brings back; `reconnect()`
holds `mutex_` from start to end (`docs/ARCHITECTURE.md:88` says it is released);
a burst read restores nothing when it recovers after a brown-out; a recovery that
fails half-way, or a write of `begin()` that fails, leaves the chip other than the cache
until the next reset; the upload of the calibration file in `begin()` may fail and
nobody is told. `Synced` excuses the first of these and has one `begin()` for an object.

In the nodes: both publishers convert to radians what the driver returns in radians
(`src/ros2/ros2_lifecycle_publisher_node.cpp:245`); the filter of equal frames that
`CHANGELOG.md:11` claims for both publishers is only in the managed one; an inactive
node does not suspend the chip (`docs/ARCHITECTURE.md:129-143` says it does); the
diagnostics say the sensor is operational while the bus is down; a plain publisher
that was begun without hardware never tries again; `on_shutdown` of both managed
nodes leaves timers and publishers on, so that a finalized node goes on publishing
(and the watchdog goes on stopping the robot); the transform of a callback under way
leaves an inactive publisher node (`src/ros2/ros2_lifecycle_publisher_node.cpp:267`;
the launch file's executor is multi-threaded); a jump of the IMU is looked for only
within 50 ms of the sample before, and the model takes nothing else for one; a target that the reset service takes
before the activation, or that survives a cleanup, is corrected to afterwards; a
negative `max_output` makes the limits of `std::clamp` cross, which is undefined.
