---------------------------- MODULE Bno055Driver ----------------------------
(***************************************************************************)
(* class BNO055 of src/core/bno055.cpp: threads that share one driver      *)
(* object call its API; every API call is a series of register             *)
(* transactions; every transaction takes mutex_ for each attempt, and      *)
(* falls back on reconnect(), which resets the chip and writes back the    *)
(* cached configuration, when the attempts run out.                        *)
(*                                                                         *)
(* What mutex_ protects is a transaction, not a call: the cached           *)
(* configuration is assigned outside it, so those assignments are steps of *)
(* their own here, and so is every register write of reconnect().          *)
(***************************************************************************)
EXTENDS Bno055Chip, Naturals, Sequences

CONSTANTS
  Threads, NoThread,
  Startup,          \* the begin() calls each thread may start with
  Workload,         \* the calls each thread may make after it
  Retries,          \* attempts of write8, writeLen and read8 (3)
  BurstRetries,     \* attempts of readLen (5)
  PollBudget,       \* polls for CHIP_ID in begin() (100, then 50)
  AutoLoad,         \* auto_calib_enabled_
  PriorChips,       \* register files an earlier process may leave behind
  MaxCalls,         \* bound: API calls in a behaviour
  MaxOutages,       \* bound: times the bus stops answering
  MaxPowerCycles    \* bound: brown-outs of the chip

Readers   == {"read8", "readLen", "getDiagnostics"}
Fetchers  == {"getSensorOffsets", "saveCalibrationFile"}
Restarts  == {"begin", "reset"}
Uploaders == {"setSensorOffsets", "loadCalibrationFile"} \cup Restarts
Remaps    == {"setAxisRemap", "setAxisSign", "setExtCrystalUse"}
PowerOps  == {"enterSuspendMode", "enterNormalMode"}

\* An API call.  read8 stands for getMode, getTemperature and
\* getCalibrationStatus, readLen for the data getters.
Call ==
       [op : {"setMode"} \cup Restarts, arg : Mode]
  \cup [op : {"setAxisRemap"}, arg : AxisMap]
  \cup [op : {"setAxisSign"}, arg : Sign]
  \cup [op : {"setExtCrystalUse"}, arg : Switch]
  \cup [op : {"setSensorOffsets"}, arg : Profiles]
  \cup [op : Readers \cup Fetchers \cup PowerOps \cup {"loadCalibrationFile"},
        arg : {"none"}]

ASSUME ThreadsAssumption == NoThread \notin Threads
ASSUME WorkloadAssumption ==
  /\ Startup \in [Threads -> SUBSET [op : {"begin"}, arg : Mode]]
  /\ Workload \in [Threads -> SUBSET Call]
ASSUME BoundsAssumption ==
  /\ Retries \in Nat \ {0} /\ BurstRetries \in Nat \ {0} /\ PollBudget \in Nat \ {0}
  /\ MaxCalls \in Nat /\ MaxOutages \in Nat /\ MaxPowerCycles \in Nat
ASSUME AutoLoadAssumption == AutoLoad \in BOOLEAN
ASSUME PriorChipsAssumption == PriorChips \subseteq Chip

VARIABLES
  bus,            \* does the I2C bus or UART answer?
  outages, powerCycles, calls,         \* what the bounds count
  chip,           \* the chip's registers
  i2c_fd,         \* is the device open?
  mutex_,         \* the thread that holds mutex_, or NoThread
  diagnostics_,
  cache,          \* mode_, axis_map_config_, axis_map_sign_, use_xtal_, offsets_data_
  file,           \* the calibration file
  pc,             \* where each thread is in its API call; "idle" outside one
  frame,          \* the local variables of each thread's call
  tries,          \* failed attempts of each thread's current transaction
  rec,            \* step of reconnect() each thread is at, 0 outside it
  result,         \* what each thread's last call returned
  clean,          \* history: every write since the last reset of the chip was acknowledged
  requested       \* history: the mode the application last asked for

envVars    == <<bus, outages, powerCycles>>
threadVars == <<pc, frame, result, requested>>
ioVars     == <<tries, rec, mutex_, diagnostics_, i2c_fd>>
vars == <<envVars, calls, chip, cache, file, clean, threadVars, ioVars>>
-----------------------------------------------------------------------------
(* The control of the API calls: labels, locals, and the transaction each   *)
(* label performs.                                                          *)

\* begin() in the order of its writes.
BeginWrites ==
  [breset |-> <<"reset", "go">>, bpower |-> <<"pwr", "normal">>,
   bpage  |-> <<"page", "p0">>,  bunit  |-> <<"unit", "SI">>,
   btrig  |-> <<"xtal", "off">>, bpage1 |-> <<"page", "p1">>,
   bacc   |-> <<"acc", "max">>,  bgyr0  |-> <<"gyr0", "max">>,
   bgyr1  |-> <<"gyr1", "max">>, bpage0 |-> <<"page", "p0">>]

BeginNext ==
  [breset |-> "breboot", breboot |-> "bpower", bpower |-> "bpage", bpage |-> "bunit",
   bunit |-> "btrig", bpage1 |-> "bacc", bacc |-> "bgyr0", bgyr0 |-> "bgyr1",
   bgyr1 |-> "bpage0"]

Polls    == {"bdetect", "breboot"}
WriteLabels == {"wrmode", "power", "xtal"} \cup
  {"breset", "bpower", "bpage", "bunit", "btrig", "bpage1", "bacc", "bgyr0", "bgyr1", "bpage0"}
IOLabels == WriteLabels \cup Polls \cup {"body"}
Labels   == IOLabels \cup
  {"idle", "open", "cache", "save", "assign", "copy", "store", "diag",
   "fopen", "fwrite", "fread"}

NoCall == [op |-> "none", arg |-> "none"]
EmptyFrame == [call |-> NoCall, saved |-> "Config", target |-> "Config",
               ret |-> "idle", polls |-> 0, data |-> "none"]

Op(t) == frame[t].call.op

BodyRequest(t) ==
  LET arg == frame[t].call.arg IN
  CASE Op(t) = "setAxisRemap"     -> [kind |-> "write", reg |-> "axis", val |-> arg]
    [] Op(t) = "setAxisSign"      -> [kind |-> "write", reg |-> "sign", val |-> arg]
    [] Op(t) = "setExtCrystalUse" -> [kind |-> "write", reg |-> "page", val |-> "p0"]
    [] Op(t) \in Uploaders        -> [kind |-> "write", reg |-> "offs", val |-> frame[t].data]
    [] Op(t) = "read8"            -> [kind |-> "read", reg |-> "none", val |-> "none"]
    [] OTHER                      -> [kind |-> "burst", reg |-> "none", val |-> "none"]

\* The register transaction thread t is to perform.
Request(t) ==
  CASE pc[t] = "wrmode" -> [kind |-> "write", reg |-> "opr", val |-> frame[t].target]
    [] pc[t] = "power"  -> [kind |-> "write", reg |-> "pwr",
                            val |-> IF Op(t) = "enterSuspendMode" THEN "suspend" ELSE "normal"]
    [] pc[t] = "xtal"   -> [kind |-> "write", reg |-> "xtal", val |-> frame[t].call.arg]
    [] pc[t] \in Polls  -> [kind |-> "read", reg |-> "none", val |-> "none"]
    [] pc[t] = "body"   -> BodyRequest(t)
    [] OTHER            -> [kind |-> "write", reg |-> BeginWrites[pc[t]][1],
                            val |-> BeginWrites[pc[t]][2]]

\* How often the transaction is attempted before the fallback.
Limit(t) ==
  IF pc[t] \in Polls THEN 1
  ELSE IF Request(t).kind = "burst" THEN BurstRetries ELSE Retries
-----------------------------------------------------------------------------
(* Moving through a call.                                                   *)

Update(t, f) == frame' = [frame EXCEPT ![t] = f]

Goto(t, label) ==
  /\ pc' = [pc EXCEPT ![t] = label]
  /\ UNCHANGED <<frame, result, requested>>

\* The call returns.  A begin() that returns false has promised no mode.
Finish(t, ok) ==
  /\ pc' = [pc EXCEPT ![t] = "idle"]
  /\ Update(t, EmptyFrame)
  /\ result' = [result EXCEPT ![t] = ok]
  /\ requested' = IF Op(t) = "begin" /\ ~ok THEN cache.opr ELSE requested

Resume(t, label) ==
  CASE label = "idle" -> Finish(t, TRUE)
    [] label = "fail" -> Finish(t, FALSE)
    [] OTHER          -> Goto(t, label)

\* Enter setMode(m), to go on at label when it returns.
SetMode(t, m, label) ==
  /\ pc' = [pc EXCEPT ![t] = "assign"]
  /\ Update(t, [frame[t] EXCEPT !.target = m, !.ret = label])
  /\ UNCHANGED <<result, requested>>

\* The last setMode of begin().
SetFinalMode(t) ==
  SetMode(t, frame[t].call.arg, IF AutoLoad THEN "fread" ELSE "idle")

\* Mutants of PollAgain: one poll too many, and a budget that is never spent.
PollAgainOnceMore(t) ==
  IF frame[t].polls = PollBudget
  THEN Finish(t, FALSE)
  ELSE /\ Update(t, [frame[t] EXCEPT !.polls = @ + 1])
       /\ UNCHANGED <<pc, result, requested>>

PollForever(t) == UNCHANGED <<pc, frame, result, requested>>

\* A poll for CHIP_ID that did not find it.
PollAgain(t) ==
  IF frame[t].polls + 1 = PollBudget
  THEN Finish(t, FALSE)
  ELSE /\ Update(t, [frame[t] EXCEPT !.polls = @ + 1])
       /\ UNCHANGED <<pc, result, requested>>

AfterPoll(t, ok) ==
  \/ /\ ok
     /\ pc[t] = "bdetect"
     /\ pc' = [pc EXCEPT ![t] = "assign"]
     /\ Update(t, [frame[t] EXCEPT !.target = "Config", !.ret = "breset", !.polls = 0])
     /\ UNCHANGED <<result, requested>>
  \/ /\ ok
     /\ pc[t] = "breboot"
     /\ pc' = [pc EXCEPT ![t] = "bpower"]
     /\ Update(t, [frame[t] EXCEPT !.polls = 0])
     /\ UNCHANGED <<result, requested>>
  \/ /\ ~ok \/ chip.page = "p1"    \* no chip, or another register at that address
     /\ PollAgain(t)

AfterBody(t, ok) ==
  \/ Op(t) \in Readers /\ Finish(t, ok)
  \/ Op(t) = "setExtCrystalUse" /\ Goto(t, "xtal")
  \/ Op(t) \in Uploaders \cup {"setAxisRemap", "setAxisSign"}
     /\ SetMode(t, frame[t].saved, "idle")
  \/ /\ Op(t) \in Fetchers
     /\ pc' = [pc EXCEPT ![t] = "assign"]
     /\ Update(t, [frame[t] EXCEPT !.target = frame[t].saved,
                                   !.ret = IF ok THEN "copy" ELSE "fail",
                                   !.data = IF ok THEN chip.offs ELSE "none"])
     /\ UNCHANGED <<result, requested>>

\* What the call does when its transaction returned ok.  The void functions
\* ignore a failed write.
AfterIO(t, ok) ==
  \/ pc[t] = "wrmode" /\ Resume(t, frame[t].ret)
  \/ pc[t] = "body" /\ AfterBody(t, ok)
  \/ pc[t] = "xtal" /\ SetMode(t, frame[t].saved, "idle")
  \/ pc[t] = "power" /\ Resume(t, IF Op(t) = "enterSuspendMode" THEN "idle" ELSE "save")
  \/ pc[t] \in Polls /\ AfterPoll(t, ok)
  \/ /\ \/ pc[t] = "btrig" /\ frame[t].call.arg # "AMG"
        \/ pc[t] = "bpage0"
     /\ SetFinalMode(t)
  \/ pc[t] = "btrig" /\ frame[t].call.arg = "AMG" /\ Goto(t, "bpage1")
  \/ pc[t] \in DOMAIN BeginNext \ Polls /\ Goto(t, BeginNext[pc[t]])
-----------------------------------------------------------------------------
(* The steps of a call outside the register transactions.                   *)

Entry(op) ==
  CASE op = "setMode" -> "assign"
    [] op \in Restarts -> "open"
    [] op \in Remaps -> "cache"
    [] op = "setSensorOffsets" -> "copy"
    [] op \in Fetchers -> "save"
    [] op = "enterSuspendMode" -> "assign"
    [] op = "enterNormalMode" -> "power"
    [] op = "loadCalibrationFile" -> "fread"
    [] op = "getDiagnostics" -> "diag"
    [] OTHER -> "body"

\* The application calls the API; its first call is begin().  reset() is
\* begin(mode_), with mode_ read here, without the lock.
Invoke(t) ==
  /\ pc[t] = "idle"
  /\ calls < MaxCalls
  /\ \E c \in IF calls = 0 THEN Startup[t] ELSE Workload[t] :
          LET arg == IF c.op = "reset" THEN cache.opr ELSE c.arg IN
          /\ Update(t,
               [call |-> [op |-> c.op, arg |-> arg], saved |-> "Config",
                target |-> IF c.op = "setMode" THEN arg ELSE "Config",
                ret |-> IF c.op = "enterSuspendMode" THEN "power" ELSE "idle",
                polls |-> 0,
                data |-> IF c.op = "setSensorOffsets" THEN arg ELSE "none"])
          /\ pc' = [pc EXCEPT ![t] = Entry(c.op)]
          /\ requested' = IF c.op \in {"setMode", "begin"} THEN arg ELSE requested
  /\ calls' = calls + 1
  /\ UNCHANGED <<envVars, chip, cache, file, clean, result, ioVars>>

\* begin() opens the device without taking mutex_.
OpenDevice(t) ==
  /\ pc[t] = "open"
  /\ \/ /\ i2c_fd' = TRUE
        /\ Goto(t, "bdetect")
     \/ /\ ~i2c_fd /\ ~bus
        /\ Finish(t, FALSE)
        /\ UNCHANGED i2c_fd
  /\ UNCHANGED <<envVars, calls, chip, cache, file, clean, tries, rec, mutex_, diagnostics_>>

\* setMode: mode_ is assigned without the lock, before OPR_MODE is written.
AssignMode(t) ==
  /\ pc[t] = "assign"
  /\ cache' = [cache EXCEPT !.opr = frame[t].target]
  /\ Goto(t, "wrmode")
  /\ UNCHANGED <<envVars, calls, chip, file, clean, ioVars>>

\* Mutants of SavePrev: prev is read after setMode(Config), and setMode(Config) is
\* left out.
SavePrevLate(t) ==
  /\ pc[t] = "save"
  /\ LET waking == Op(t) = "enterNormalMode" IN
     Update(t, [frame[t] EXCEPT !.saved  = "Config",
                                !.target = IF waking THEN cache.opr ELSE "Config",
                                !.ret    = IF waking THEN "idle" ELSE "body"])
  /\ pc' = [pc EXCEPT ![t] = "assign"]
  /\ UNCHANGED <<envVars, calls, chip, cache, file, clean, result, requested, ioVars>>

SavePrevOnly(t) ==
  /\ pc[t] = "save"
  /\ LET waking == Op(t) = "enterNormalMode" IN
     /\ Update(t, [frame[t] EXCEPT !.saved  = cache.opr,
                                   !.target = cache.opr,
                                   !.ret    = "idle"])
     /\ pc' = [pc EXCEPT ![t] = IF waking THEN "assign" ELSE "body"]
  /\ UNCHANGED <<envVars, calls, chip, cache, file, clean, result, requested, ioVars>>

\* OpMode prev = mode_, ahead of setMode(Config); enterNormalMode passes
\* mode_ itself to setMode.
SavePrev(t) ==
  /\ pc[t] = "save"
  /\ LET waking == Op(t) = "enterNormalMode" IN
     Update(t, [frame[t] EXCEPT !.saved  = cache.opr,
                                !.target = IF waking THEN cache.opr ELSE "Config",
                                !.ret    = IF waking THEN "idle" ELSE "body"])
  /\ pc' = [pc EXCEPT ![t] = "assign"]
  /\ UNCHANGED <<envVars, calls, chip, cache, file, clean, result, requested, ioVars>>

\* The first statement of setAxisRemap, setAxisSign and setExtCrystalUse.
CacheSetting(t) ==
  /\ pc[t] = "cache"
  /\ LET arg == frame[t].call.arg IN
     cache' = CASE Op(t) = "setAxisRemap" -> [cache EXCEPT !.axis = arg]
                [] Op(t) = "setAxisSign"  -> [cache EXCEPT !.sign = arg]
                [] OTHER                  -> [cache EXCEPT !.xtal = arg]
  /\ Goto(t, "save")
  /\ UNCHANGED <<envVars, calls, chip, file, clean, ioVars>>

\* offsets_data_ = calib_data copies 22 bytes: until the copy is done a reader
\* of the array sees a mixture, if has_offsets_ tells it to look.
CopyOffsets(t) ==
  /\ pc[t] = "copy"
  /\ cache' = [cache EXCEPT !.offs = IF @ = "none" THEN "none" ELSE "torn"]
  /\ Goto(t, "store")
  /\ UNCHANGED <<envVars, calls, chip, file, clean, ioVars>>

\* The end of the copy, and has_offsets_ = true.
StoreOffsets(t) ==
  /\ pc[t] = "store"
  /\ cache' = [cache EXCEPT !.offs = frame[t].data]
  /\ Resume(t, CASE Op(t) \in Uploaders         -> "save"
                 [] Op(t) = "saveCalibrationFile" -> "fopen"
                 [] OTHER                       -> "idle")
  /\ UNCHANGED <<envVars, calls, chip, file, clean, ioVars>>

\* saveCalibrationFile: opening the file for writing empties it.
OpenFile(t) ==
  /\ pc[t] = "fopen"
  /\ \/ file' = "short" /\ Goto(t, "fwrite")
     \/ Finish(t, FALSE) /\ UNCHANGED file
  /\ UNCHANGED <<envVars, calls, chip, cache, clean, ioVars>>

\* The outcome of ofs.write is not looked at.
WriteFile(t) ==
  /\ pc[t] = "fwrite"
  /\ file' \in {frame[t].data, "short"}
  /\ Finish(t, TRUE)
  /\ UNCHANGED <<envVars, calls, chip, cache, clean, ioVars>>

\* loadCalibrationFile up to its call of setSensorOffsets.
ReadFile(t) ==
  /\ pc[t] = "fread"
  /\ \/ /\ file \in Offsets
        /\ Update(t, [frame[t] EXCEPT !.data = file])
        /\ pc' = [pc EXCEPT ![t] = "copy"]
        /\ UNCHANGED <<result, requested>>
     \/ /\ file \notin Offsets
        /\ Finish(t, Op(t) \in Restarts)
  /\ UNCHANGED <<envVars, calls, chip, cache, file, clean, ioVars>>

ReadDiagnostics(t) ==
  /\ pc[t] = "diag"
  /\ mutex_ = NoThread
  /\ Finish(t, TRUE)
  /\ UNCHANGED <<envVars, calls, chip, cache, file, clean, ioVars>>
-----------------------------------------------------------------------------
(* Register transactions.                                                   *)

\* What the chip holds after the transaction of thread t reached it; a reset
\* makes a fresh start for the history of failed writes.
Performed(t) ==
  LET req == Request(t) IN
  IF req.kind = "write" THEN Written(chip, req.reg, req.val) ELSE chip

\* A write that failed for good and a begin() that found no chip end it.
CleanAfter(t, ok) ==
  /\ clean \/ (ok /\ Request(t).reg = "reset" /\ Accepts(chip, "reset"))
  /\ ok \/ Request(t).kind # "write"
  /\ ~(pc[t] \in Polls /\ pc'[t] = "idle")

CountFailure(t) ==
  diagnostics_' = IF Request(t).kind = "write"
                  THEN [diagnostics_ EXCEPT !.write_failures = @ + 1]
                  ELSE [diagnostics_ EXCEPT !.read_failures = @ + 1]

MayAttempt(t) ==
  /\ pc[t] \in IOLabels
  /\ rec[t] = 0
  /\ mutex_ = NoThread

\* An attempt that is answered.
AttemptOk(t) ==
  /\ MayAttempt(t)
  /\ tries[t] < Limit(t)
  /\ bus
  /\ i2c_fd' = TRUE
  /\ chip' = Performed(t)
  /\ tries' = [tries EXCEPT ![t] = 0]
  /\ AfterIO(t, TRUE)
  /\ clean' = CleanAfter(t, TRUE)
  /\ UNCHANGED <<envVars, calls, cache, file, rec, mutex_, diagnostics_>>

\* Mutant of AttemptFail: the retry loop forgets to count.
AttemptFailUncounted(t) ==
  /\ MayAttempt(t)
  /\ tries[t] < Limit(t)
  /\ ~bus
  /\ i2c_fd' \in {i2c_fd, TRUE}
  /\ chip' \in {chip} \cup (IF i2c_fd' THEN {Performed(t)} ELSE {})
  /\ clean' = (clean /\ Request(t).reg # "reset")
  /\ CountFailure(t)
  /\ UNCHANGED <<envVars, calls, cache, file, threadVars, tries, rec, mutex_>>

\* An attempt that is not: the device does not open, or the transaction fails.
\* A write may have taken effect although its acknowledgement was lost.
AttemptFail(t) ==
  /\ MayAttempt(t)
  /\ tries[t] < Limit(t)
  /\ ~bus
  /\ i2c_fd' \in {i2c_fd, TRUE}
  /\ chip' \in {chip} \cup (IF i2c_fd' THEN {Performed(t)} ELSE {})
  /\ clean' = (clean /\ Request(t).reg # "reset")
  /\ tries' = [tries EXCEPT ![t] = @ + 1]
  /\ CountFailure(t)
  /\ UNCHANGED <<envVars, calls, cache, file, threadVars, rec, mutex_>>

\* readLen out of attempts: one more after closing and reopening the device.
RefreshOk(t) ==
  /\ MayAttempt(t)
  /\ tries[t] = Limit(t)
  /\ Request(t).kind = "burst"
  /\ bus
  /\ i2c_fd' = TRUE
  /\ tries' = [tries EXCEPT ![t] = 0]
  /\ AfterIO(t, TRUE)
  /\ UNCHANGED <<envVars, calls, chip, cache, file, clean, rec, mutex_, diagnostics_>>

RefreshFail(t) ==
  /\ MayAttempt(t)
  /\ tries[t] = Limit(t)
  /\ Request(t).kind = "burst"
  /\ ~bus
  /\ i2c_fd' \in BOOLEAN
  /\ tries' = [tries EXCEPT ![t] = 0]
  /\ CountFailure(t)
  /\ AfterIO(t, FALSE)
  /\ UNCHANGED <<envVars, calls, chip, cache, file, clean, rec, mutex_>>
-----------------------------------------------------------------------------
(* reconnect(), all of it with mutex_ held.                                 *)

\* Mutants of RecoveryWrites: the mode is restored before the axes, and the sign
\* is forgotten.
RecoveryModeFirst(cfg) ==
  << [reg |-> "reset", val |-> "go"],
     [reg |-> "pwr",   val |-> "normal"],
     [reg |-> "page",  val |-> "p0"],
     [reg |-> "xtal",  val |-> cfg.xtal],
     [reg |-> "unit",  val |-> "SI"],
     [reg |-> "opr",   val |-> "Config"],
     [reg |-> "opr",   val |-> cfg.opr],
     [reg |-> "axis",  val |-> cfg.axis],
     [reg |-> "sign",  val |-> cfg.sign],
     [reg |-> "offs",  val |-> cfg.offs] >>

RecoveryWithoutSign(cfg) ==
  << [reg |-> "reset", val |-> "go"],
     [reg |-> "pwr",   val |-> "normal"],
     [reg |-> "page",  val |-> "p0"],
     [reg |-> "xtal",  val |-> cfg.xtal],
     [reg |-> "unit",  val |-> "SI"],
     [reg |-> "opr",   val |-> "Config"],
     [reg |-> "axis",  val |-> cfg.axis],
     [reg |-> "sign",  val |-> "P1"],
     [reg |-> "offs",  val |-> cfg.offs],
     [reg |-> "opr",   val |-> cfg.opr] >>

\* Its register writes, each with the cache as it is when the write is made.
RecoveryWrites(cfg) ==
  << [reg |-> "reset", val |-> "go"],
     [reg |-> "pwr",   val |-> "normal"],
     [reg |-> "page",  val |-> "p0"],
     [reg |-> "xtal",  val |-> cfg.xtal],
     [reg |-> "unit",  val |-> "SI"],
     [reg |-> "opr",   val |-> "Config"],
     [reg |-> "axis",  val |-> cfg.axis],
     [reg |-> "sign",  val |-> cfg.sign],
     [reg |-> "offs",  val |-> cfg.offs],
     [reg |-> "opr",   val |-> cfg.opr] >>

WriteCount == 10
Detecting == WriteCount + 1     \* the device is closed; open it, look for the chip
Retrying  == WriteCount + 2     \* reconnected; the transaction gets its last attempt
RecoverySteps == 1 .. Retrying

AtWrite(t) == rec[t] \in 1 .. WriteCount
Recovering(t) == rec[t] # 0

\* write8, writeLen or read8 out of attempts.
StartReconnect(t) ==
  /\ MayAttempt(t)
  /\ tries[t] = Limit(t)
  /\ Request(t).kind # "burst"
  /\ mutex_' = t
  /\ rec' = [rec EXCEPT ![t] = Detecting]
  /\ diagnostics_' = [diagnostics_ EXCEPT !.reconnect_attempts = @ + 1]
  /\ i2c_fd' = FALSE
  /\ UNCHANGED <<envVars, calls, chip, cache, file, clean, threadVars, tries>>

Detect(t) ==
  /\ rec[t] = Detecting
  /\ bus
  /\ i2c_fd' = TRUE
  /\ rec' = [rec EXCEPT ![t] = 1]
  /\ UNCHANGED <<envVars, calls, chip, cache, file, clean, threadVars,
                 tries, mutex_, diagnostics_>>

\* The register writes that can be skipped: offsets nobody ever set.
Skipped(t) ==
  /\ RecoveryWrites(cache)[rec[t]].reg = "offs"
  /\ cache.offs = "none"

RecoverWrite(t) ==
  /\ AtWrite(t)
  /\ bus \/ Skipped(t)
  /\ LET w == RecoveryWrites(cache)[rec[t]]
     IN /\ chip' = IF Skipped(t) THEN chip ELSE Written(chip, w.reg, w.val)
        /\ clean' = (clean \/ (w.reg = "reset" /\ Accepts(chip, "reset")))
  /\ rec' = [rec EXCEPT ![t] = IF @ = WriteCount THEN Retrying ELSE @ + 1]
  /\ UNCHANGED <<envVars, calls, cache, file, threadVars,
                 tries, mutex_, diagnostics_, i2c_fd>>

\* The lock is released and the transaction returns ok.
Release(t, ok) ==
  /\ mutex_' = NoThread
  /\ rec' = [rec EXCEPT ![t] = 0]
  /\ tries' = [tries EXCEPT ![t] = 0]
  /\ AfterIO(t, ok)

\* The chip is not found: the device does not open, nothing answers, or page 1
\* is selected and CHIP_ID is not at its address.
DetectFail(t) ==
  /\ rec[t] = Detecting
  /\ \/ ~bus /\ i2c_fd' \in BOOLEAN
     \/ bus /\ chip.page = "p1" /\ i2c_fd' = TRUE
  /\ CountFailure(t)
  /\ Release(t, FALSE)
  /\ clean' = CleanAfter(t, FALSE)
  /\ UNCHANGED <<envVars, calls, chip, cache, file>>

\* A write of reconnect() fails: it returns at once, whatever is restored so
\* far stays, and the device stays open.
RecoverFail(t) ==
  /\ AtWrite(t)
  /\ ~bus
  /\ ~Skipped(t)
  /\ LET w == RecoveryWrites(cache)[rec[t]] IN
     chip' \in {chip, Written(chip, w.reg, w.val)}
  /\ CountFailure(t)
  /\ clean' = FALSE
  /\ Release(t, FALSE)
  /\ UNCHANGED <<envVars, calls, cache, file, i2c_fd>>

RetryOk(t) ==
  /\ rec[t] = Retrying
  /\ bus
  /\ chip' = Performed(t)
  /\ Release(t, TRUE)
  /\ clean' = CleanAfter(t, TRUE)
  /\ UNCHANGED <<envVars, calls, cache, file, i2c_fd, diagnostics_>>

RetryFail(t) ==
  /\ rec[t] = Retrying
  /\ ~bus
  /\ chip' \in {chip, Performed(t)}
  /\ CountFailure(t)
  /\ Release(t, FALSE)
  /\ clean' = CleanAfter(t, FALSE)
  /\ UNCHANGED <<envVars, calls, cache, file, i2c_fd>>
-----------------------------------------------------------------------------
(* The bus and the chip, on their own.                                      *)

BusFails ==
  /\ bus
  /\ outages < MaxOutages
  /\ bus' = FALSE
  /\ outages' = outages + 1
  /\ UNCHANGED <<powerCycles, calls, chip, cache, file, clean, threadVars, ioVars>>

BusHeals ==
  /\ ~bus
  /\ bus' = TRUE
  /\ UNCHANGED <<outages, powerCycles, calls, chip, cache, file, clean, threadVars, ioVars>>

PowerCycle ==
  /\ powerCycles < MaxPowerCycles
  /\ powerCycles' = powerCycles + 1
  /\ chip' = PowerOn
  /\ clean' = FALSE
  /\ UNCHANGED <<bus, outages, calls, cache, file, threadVars, ioVars>>

\* In a fusion mode the chip improves its calibration by itself.
SelfCalibrate ==
  /\ chip.opr \in FusionModes
  /\ chip.pwr = "normal"
  /\ \E p \in Profiles : chip' = [chip EXCEPT !.offs = p]
  /\ UNCHANGED <<envVars, calls, cache, file, clean, threadVars, ioVars>>
-----------------------------------------------------------------------------
Init ==
  /\ bus = TRUE
  /\ outages = 0 /\ powerCycles = 0 /\ calls = 0
  /\ chip \in PriorChips
  /\ i2c_fd = FALSE
  /\ mutex_ = NoThread
  /\ diagnostics_ = [read_failures |-> 0, write_failures |-> 0, reconnect_attempts |-> 0]
  /\ cache = [opr |-> "Config", axis |-> "P1", sign |-> "P1", xtal |-> "off", offs |-> "none"]
  /\ file \in {"none", "short"} \cup Profiles
  /\ pc = [t \in Threads |-> "idle"]
  /\ frame = [t \in Threads |-> EmptyFrame]
  /\ tries = [t \in Threads |-> 0]
  /\ rec = [t \in Threads |-> 0]
  /\ result = [t \in Threads |-> TRUE]
  /\ clean = FALSE
  /\ requested = "Config"

Transact(t) ==
  \/ AttemptOk(t) \/ AttemptFail(t) \/ RefreshOk(t) \/ RefreshFail(t)
  \/ StartReconnect(t) \/ Detect(t) \/ DetectFail(t)
  \/ RecoverWrite(t) \/ RecoverFail(t) \/ RetryOk(t) \/ RetryFail(t)

Compute(t) ==
  \/ OpenDevice(t) \/ AssignMode(t) \/ SavePrev(t) \/ CacheSetting(t)
  \/ CopyOffsets(t) \/ StoreOffsets(t)
  \/ OpenFile(t) \/ WriteFile(t) \/ ReadFile(t) \/ ReadDiagnostics(t)

\* What the thread does within a call.
Step(t) == Compute(t) \/ Transact(t)

Environment == BusFails \/ BusHeals \/ PowerCycle \/ SelfCalibrate

\* The bound on calls is used up and every call has returned.
Exhausted ==
  /\ calls = MaxCalls
  /\ \A t \in Threads : pc[t] = "idle"
  /\ UNCHANGED vars

Next ==
  \/ \E t \in Threads : Invoke(t) \/ Step(t)
  \/ Environment
  \/ Exhausted

Spec == Init /\ [][Next]_vars

\* A thread inside a call keeps running; the environment and the application
\* owe nothing.
FairSpec == Spec /\ \A t \in Threads : WF_vars(Step(t))
-----------------------------------------------------------------------------
(* Properties.                                                              *)

Frames ==
  [call : Call \cup {NoCall}, saved : Mode, target : Mode,
   ret : Labels \cup {"fail"}, polls : 0 .. (PollBudget - 1), data : Offsets \cup {"none"}]

\* Every variable stays in its domain.
TypeOK ==
  /\ bus \in BOOLEAN /\ i2c_fd \in BOOLEAN /\ clean \in BOOLEAN
  /\ outages \in Nat /\ powerCycles \in Nat /\ calls \in Nat
  /\ chip \in Chip
  /\ mutex_ \in Threads \cup {NoThread}
  /\ diagnostics_ \in
       [read_failures : Nat, write_failures : Nat, reconnect_attempts : Nat]
  /\ cache \in [opr : Mode, axis : AxisMap, sign : Sign, xtal : Switch,
                offs : Offsets \cup {"none"}]
  /\ file \in {"none", "short"} \cup Offsets
  /\ pc \in [Threads -> Labels]
  /\ frame \in [Threads -> Frames]
  /\ tries \in [Threads -> Nat]
  /\ rec \in [Threads -> 0 .. Retrying]
  /\ result \in [Threads -> BOOLEAN]
  /\ requested \in Mode

\* No call that configures the chip is under way, and no recovery.
Settled ==
  /\ mutex_ = NoThread
  /\ \A t \in Threads : pc[t] = "idle" \/ Op(t) \in Readers

\* When the calls are over and every write since the last reset was
\* acknowledged, the chip is configured the way the cache says, whatever was
\* retried, recovered or lost on the way, and whatever an earlier process left
\* in the chip (write8, reconnect, begin and the setters of bno055.cpp).
Synced ==
  Settled /\ clean =>
    /\ chip.opr = cache.opr
    /\ chip.axis = cache.axis
    /\ chip.sign = cache.sign
    /\ chip.xtal = cache.xtal
    /\ chip.unit = "SI"
    /\ chip.page = "p0"

\* The setters and the calibration calls pass through CONFIG mode and come back:
\* when they are over mode_ is the mode the application asked for, even if
\* every transaction failed.
ModeKept == Settled => cache.opr = requested

Returns(t, op) == pc[t] # "idle" /\ Op(t) = op /\ pc'[t] = "idle"

\* A setting or a calibration profile that was acknowledged is in the chip: the
\* detour through CONFIG mode works, also when another thread's recovery falls
\* into it, as long as no write before it failed for good.
ConfigWritesLand ==
  [][\A t \in Threads :
       /\ AttemptOk(t) \/ RetryOk(t)
       /\ clean
       /\ pc[t] \in {"body", "xtal"}
       /\ Request(t).kind = "write"
       => chip'[Request(t).reg] = Request(t).val]_vars

\* Every API call returns, however long the bus is down.
EveryCallReturns ==
  \A t \in Threads : pc[t] # "idle" ~> pc[t] = "idle"

\* How far each label is from the end of the call; getSensorOffsets and
\* saveCalibrationFile store the profile after their transaction, the uploading
\* calls before it.
Stages(op) ==
  [open |-> 23, bdetect |-> 22, breset |-> 21, breboot |-> 20, bpower |-> 19,
   bpage |-> 18, bunit |-> 17, btrig |-> 16, bpage1 |-> 15, bacc |-> 14,
   bgyr0 |-> 13, bgyr1 |-> 12, bpage0 |-> 11, fread |-> 10,
   copy  |-> IF op \in Fetchers THEN 4 ELSE 9,
   store |-> IF op \in Fetchers THEN 3 ELSE 8,
   cache |-> 8, power |-> 8, save |-> 7, body |-> 6, xtal |-> 5,
   fopen |-> 2, fwrite |-> 1, diag |-> 1, idle |-> 0, fail |-> 0]

\* The two steps of setMode come before the label it returns to.
Distance(l, f) ==
  LET stage == Stages(f.call.op) IN
  CASE l = "assign" -> 3 * stage[f.ret] + 2
    [] l = "wrmode" -> 3 * stage[f.ret] + 1
    [] OTHER        -> 3 * stage[l]

\* Attempts and recovery steps the current transaction has left at most.
StepsLeft(t) ==
  CASE rec[t] = 0         -> Retrying + 1 + Limit(t) - tries[t]
    [] rec[t] = Detecting -> Retrying
    [] rec[t] = Retrying  -> 1
    [] OTHER              -> Retrying - rec[t]

\* Closer to the end of the call; or one poll of the budget fewer to go; or
\* within one transaction, one attempt or one step of its recovery fewer.
Nearer(t) ==
  LET here  == Distance(pc[t], frame[t])
      there == Distance(pc'[t], frame'[t])
  IN \/ there \in 0 .. (here - 1)
     \/ there = here /\ frame'[t].polls \in (frame[t].polls + 1) .. (PollBudget - 1)
     \/ /\ there = here /\ frame'[t].polls = frame[t].polls
        /\ StepsLeft(t)' \in 0 .. (StepsLeft(t) - 1)

Position(t) == <<pc[t], frame[t], tries[t], rec[t]>>

\* Nothing in a call can go on for ever: every step of a thread uses up a label,
\* a poll, an attempt or a step of a recovery, the recoveries nested in polls
\* and retries included, and no other thread and no outage gives one back.
EveryStepCounts ==
  [][\A t \in Threads : pc[t] # "idle" =>
       IF UNCHANGED Position(t) THEN ~Step(t) ELSE Nearer(t)]_vars
-----------------------------------------------------------------------------
(* What the documentation says and the code does not do.                    *)

\* enterNormalMode: "re-enter the previous operating mode".
WakeRestoresMode ==
  [][\A t \in Threads : Returns(t, "enterNormalMode") => cache'.opr = requested]_vars

\* The sub-sensors of a chip that begin() put into AMG mode are tuned, also
\* after a recovery that restored everything it writes.
AmgIsTuned ==
  Settled /\ clean /\ chip.opr = "AMG" =>
    chip.acc = "max" /\ chip.gyr0 = "max" /\ chip.gyr1 = "max"

\* Data getters are safe next to begin(): what they return are data registers.
ReadsStayOnDataPage ==
  [][\A t \in Threads :
       Returns(t, "readLen") /\ result'[t] => chip'.page = "p0"]_vars

\* A recovery never uploads half of one calibration profile and half of another.
NoTornUpload == chip.offs # "torn"
=============================================================================
