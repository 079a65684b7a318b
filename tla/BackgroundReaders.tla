-------------------------- MODULE BackgroundReaders --------------------------
(***************************************************************************)
(* The background threads of class BNO055 (src/core/bno055.cpp): async,    *)
(* raw async and GPIO-interrupt reading.  Each kind of reader has a        *)
(* running flag, a callback and a std::thread member; start and stop test  *)
(* and set the flag in separate steps, a stop joins the thread, an         *)
(* interrupt thread may end by itself, and the destructor stops what runs  *)
(* before the std::thread members are destroyed.                           *)
(*                                                                         *)
(* The sensor reads a thread makes are register transactions of            *)
(* Bno055Driver; here a read succeeds or fails.                            *)
(***************************************************************************)
EXTENDS Naturals, FiniteSets

CONSTANTS
  Callers,          \* application threads that use the object
  AutoCalibration,  \* auto_calib_enabled_
  GpioMayFail,      \* can the interrupt line be unavailable?
  MaxStarts         \* bound: threads created in a behaviour

ASSUME CallersAssumption == Callers # {}
ASSUME SwitchesAssumption == AutoCalibration \in BOOLEAN /\ GpioMayFail \in BOOLEAN
ASSUME MaxStartsAssumption == MaxStarts \in Nat \ {0}

VARIABLES
  running,      \* async_running_, raw_async_running_, irq_running_
  handle,       \* the thread each std::thread member holds, 0 for none
  kind,         \* the reader each created thread runs, "none" before that
  loop,         \* where each thread is in its loop
  pc, job,      \* where each caller is in its call, and the call
  target,       \* the thread a caller is joining
  object,       \* the BNO055 object: "alive", "closing" in the destructor, "gone"
  terminated    \* why the process called std::terminate, or "no"

readerVars == <<kind, loop>>
callVars   == <<pc, job, target, object>>
vars == <<running, handle, readerVars, callVars, terminated>>

\* In the order of the destructor.
KindOrder == <<"async", "raw", "irq">>
Kinds == {"async", "raw", "irq"}

Workers == 1 .. MaxStarts
Unused == {i \in Workers : kind[i] = "none"}
Fresh == {i \in Unused : \A j \in Unused : i <= j}
Starting == {a \in Callers : pc[a] # "idle" /\ job[a].op = "start"}

Jobs == [op : {"start", "stop", "destroy"}, kind : Kinds]
NoJob == [op |-> "stop", kind |-> "async"]

Alive == terminated = "no"
-----------------------------------------------------------------------------
(* start, stop and the destructor.                                          *)

At(a, label) == Alive /\ pc[a] = label
InStart(a) == job[a].op = "start"

Begin(a, op, k) ==
  /\ pc' = [pc EXCEPT ![a] = "check"]
  /\ job' = [job EXCEPT ![a] = [op |-> op, kind |-> k]]
  /\ UNCHANGED <<running, handle, readerVars, target, terminated>>

StartReading(a) ==
  /\ At(a, "idle") /\ object = "alive"
  /\ Cardinality(Starting) < Cardinality(Unused)
  /\ \E k \in Kinds : Begin(a, "start", k)
  /\ UNCHANGED object

StopReading(a) ==
  /\ At(a, "idle") /\ object = "alive"
  /\ \E k \in Kinds : Begin(a, "stop", k)
  /\ UNCHANGED object

\* An object is destroyed when no call on it is under way.
Destroy(a) ==
  /\ Alive /\ object = "alive"
  /\ \A b \in Callers : pc[b] = "idle"
  /\ object' = "closing"
  /\ Begin(a, "destroy", KindOrder[1])

\* The call is over; the destructor goes on to the next reader and, after the
\* last, to the members.
Return(a) ==
  IF job[a].op # "destroy"
  THEN pc' = [pc EXCEPT ![a] = "idle"] /\ UNCHANGED job
  ELSE \/ \E n \in 1 .. 2 :
            /\ job[a].kind = KindOrder[n]
            /\ job' = [job EXCEPT ![a].kind = KindOrder[n + 1]]
            /\ pc' = [pc EXCEPT ![a] = "check"]
       \/ /\ job[a].kind = KindOrder[3]
          /\ pc' = [pc EXCEPT ![a] = "members"]
          /\ UNCHANGED job

Goto(a, label) == pc' = [pc EXCEPT ![a] = label] /\ UNCHANGED job

\* Mutant of CheckStart: it does not look whether the reader runs.
CheckStartBlind(a) ==
  /\ At(a, "check") /\ InStart(a)
  /\ Goto(a, "arm")
  /\ UNCHANGED <<running, handle, readerVars, target, object, terminated>>

\* if (running_) return false;
CheckStart(a) ==
  /\ At(a, "check") /\ InStart(a)
  /\ IF running[job[a].kind] THEN Return(a) ELSE Goto(a, "arm")
  /\ UNCHANGED <<running, handle, readerVars, target, object, terminated>>

\* The callback is assigned, then the flag.
Arm(a) ==
  /\ At(a, "arm")
  /\ running' = [running EXCEPT ![job[a].kind] = TRUE]
  /\ Goto(a, "spawn")
  /\ UNCHANGED <<handle, readerVars, target, object, terminated>>

\* Thread i starts running reader k and is kept in member m.
Run(i, k, m) ==
  /\ handle' = [handle EXCEPT ![m] = i]
  /\ kind' = [kind EXCEPT ![i] = k]
  /\ loop' = [loop EXCEPT ![i] = IF k = "irq" THEN "setup" ELSE "top"]
  /\ UNCHANGED terminated

\* std::thread terminates the process when it is assigned to while joinable.
Clash == terminated' = "joinable" /\ UNCHANGED <<handle, readerVars>>

\* Mutant of Spawn: every thread is kept in async_thread_.
SpawnInAsync(a) ==
  /\ At(a, "spawn")
  /\ \/ handle["async"] # 0 /\ Clash
     \/ handle["async"] = 0 /\ \E i \in Fresh : Run(i, job[a].kind, "async")
  /\ Return(a)
  /\ UNCHANGED <<running, target, object>>

\* A new thread is assigned to the member.
Spawn(a) ==
  /\ At(a, "spawn")
  /\ LET k == job[a].kind IN
     \/ handle[k] # 0 /\ Clash
     \/ handle[k] = 0 /\ \E i \in Fresh : Run(i, k, k)
  /\ Return(a)
  /\ UNCHANGED <<running, target, object>>

\* if (!running_) return;  in the destructor, if (running_).
CheckStop(a) ==
  /\ At(a, "check") /\ ~InStart(a)
  /\ IF running[job[a].kind] THEN Goto(a, "quit") ELSE Return(a)
  /\ UNCHANGED <<running, handle, readerVars, target, object, terminated>>

Quit(a) ==
  /\ At(a, "quit")
  /\ running' = [running EXCEPT ![job[a].kind] = FALSE]
  /\ Goto(a, "join")
  /\ UNCHANGED <<handle, readerVars, target, object, terminated>>

\* if (thread_.joinable())
Joinable(a) ==
  /\ At(a, "join")
  /\ LET h == handle[job[a].kind] IN
     IF h = 0
     THEN Return(a) /\ UNCHANGED target
     ELSE Goto(a, "wait") /\ target' = [target EXCEPT ![a] = h]
  /\ UNCHANGED <<running, handle, readerVars, object, terminated>>

\* Mutant of Join: the thread is detached instead.
JoinAtOnce(a) ==
  /\ At(a, "wait")
  /\ handle' = [handle EXCEPT ![job[a].kind] = 0]
  /\ Return(a)
  /\ UNCHANGED <<running, readerVars, target, object, terminated>>

\* join() returns when the thread has ended; joining one that another caller has
\* joined meanwhile is undefined.
Join(a) ==
  /\ At(a, "wait")
  /\ loop[target[a]] = "done"
  /\ LET k == job[a].kind IN
     IF handle[k] = target[a]
     THEN handle' = [handle EXCEPT ![k] = 0] /\ UNCHANGED terminated
     ELSE terminated' \in {"no", "twice"} /\ UNCHANGED handle
  /\ Return(a)
  /\ UNCHANGED <<running, readerVars, target, object>>

\* The std::thread members are destroyed: a joinable one terminates the process.
DestroyMembers(a) ==
  /\ At(a, "members")
  /\ IF \E k \in Kinds : handle[k] # 0
     THEN terminated' = "joinable" /\ UNCHANGED object
     ELSE object' = "gone" /\ UNCHANGED terminated
  /\ Goto(a, "idle")
  /\ UNCHANGED <<running, handle, readerVars, target>>
-----------------------------------------------------------------------------
(* The loop of a reader.                                                    *)

In(i, label) == Alive /\ loop[i] = label

Move(i, label) ==
  /\ loop' = [loop EXCEPT ![i] = label]
  /\ UNCHANGED kind

\* The GPIO line is requested; without it the thread clears the flag and ends.
Setup(i) ==
  /\ In(i, "setup")
  /\ \/ Move(i, "top") /\ UNCHANGED running
     \/ /\ GpioMayFail
        /\ running' = [running EXCEPT !["irq"] = FALSE]
        /\ Move(i, "done")
  /\ UNCHANGED <<handle, callVars, terminated>>

\* Mutant of Top: the loop does not look at the flag again.
TopForever(i) ==
  /\ In(i, "top")
  /\ Move(i, "read")
  /\ UNCHANGED <<running, handle, callVars, terminated>>

\* while (running_)
Top(i) ==
  /\ In(i, "top")
  /\ Move(i, IF running[kind[i]] THEN "read" ELSE "done")
  /\ UNCHANGED <<running, handle, callVars, terminated>>

\* The burst read succeeds or fails.  An interrupt reader first waits for an edge:
\* it may time out and look at the flag again, and an error of the line ends
\* it, with the flag still set.
Read(i) ==
  /\ In(i, "read")
  /\ \/ Move(i, "deliver")
     \/ Move(i, IF kind[i] = "async" THEN "calib" ELSE "top")
     \/ kind[i] = "irq" /\ GpioMayFail /\ Move(i, "done")
  /\ UNCHANGED <<running, handle, callVars, terminated>>

AfterDelivery(i) ==
  \/ kind[i] = "async" /\ Move(i, "calib")
  \/ kind[i] # "async" /\ Move(i, "top")
  \/ kind[i] = "irq" /\ Move(i, "deliver")     \* the next of several edges

\* if (callback_ && running_)
Deliver(i) ==
  /\ In(i, "deliver")
  /\ IF running[kind[i]] THEN Move(i, "callback")
     ELSE Move(i, IF kind[i] = "async" THEN "calib" ELSE "top")
  /\ UNCHANGED <<running, handle, callVars, terminated>>

CallbackReturns(i) ==
  /\ In(i, "callback")
  /\ AfterDelivery(i)
  /\ UNCHANGED <<running, handle, callVars, terminated>>

\* getCalibrationStatus throws when the chip does not answer, and nothing in the
\* thread catches it.
Calibrate(i) ==
  /\ In(i, "calib")
  /\ \/ Move(i, "top") /\ UNCHANGED terminated
     \/ /\ AutoCalibration
        /\ terminated' = "exception"
        /\ UNCHANGED readerVars
  /\ UNCHANGED <<running, handle, callVars>>
-----------------------------------------------------------------------------
Init ==
  /\ running = [k \in Kinds |-> FALSE]
  /\ handle = [k \in Kinds |-> 0]
  /\ kind = [i \in Workers |-> "none"]
  /\ loop = [i \in Workers |-> "none"]
  /\ pc = [a \in Callers |-> "idle"]
  /\ job = [a \in Callers |-> NoJob]
  /\ target = [a \in Callers |-> 0]
  /\ object = "alive"
  /\ terminated = "no"

\* What a call on the object does.
CallerStep(a) ==
  \/ CheckStart(a) \/ Arm(a) \/ Spawn(a)
  \/ CheckStop(a) \/ Quit(a) \/ Joinable(a) \/ Join(a) \/ DestroyMembers(a)

WorkerStep(i) ==
  \/ Setup(i) \/ Top(i) \/ Read(i) \/ Deliver(i) \/ CallbackReturns(i) \/ Calibrate(i)

\* The process has ended, or the object is no more.
Over ==
  /\ ~Alive \/ object = "gone"
  /\ UNCHANGED vars

Next ==
  \/ \E a \in Callers :
       StartReading(a) \/ StopReading(a) \/ Destroy(a) \/ CallerStep(a)
  \/ \E i \in Workers : WorkerStep(i)
  \/ Over

Spec == Init /\ [][Next]_vars

\* Threads keep running, and the application's callbacks return.
FairSpec ==
  /\ Spec
  /\ \A a \in Callers : WF_vars(CallerStep(a))
  /\ \A i \in Workers : WF_vars(WorkerStep(i))
-----------------------------------------------------------------------------
Live(i) == loop[i] \notin {"none", "done"}

Stopping(a, k) == job[a].kind = k /\ pc[a] \in {"join", "wait"}

\* Every variable stays in its domain, and a std::thread member holds a thread
\* of its own kind.
TypeOK ==
  /\ running \in [Kinds -> BOOLEAN]
  /\ handle \in [Kinds -> 0 .. MaxStarts]
  /\ \A k \in Kinds : handle[k] # 0 => kind[handle[k]] = k
  /\ kind \in [Workers -> Kinds \cup {"none"}]
  /\ loop \in [Workers -> {"none", "setup", "top", "read", "deliver", "callback",
                           "calib", "done"}]
  /\ pc \in [Callers -> {"idle", "check", "arm", "spawn", "quit", "join", "wait",
                         "members"}]
  /\ job \in [Callers -> Jobs]
  /\ target \in [Callers -> 0 .. MaxStarts]
  /\ object \in {"alive", "closing", "gone"}
  /\ terminated \in {"no", "joinable", "twice", "exception"}

\* When a reader is off and no stop is under way, no thread of that kind is left
\* to read the sensor or to call the application: what a stop, or a thread that
\* gave up, leaves behind is quiet.
StoppedIsQuiet ==
  \A k \in Kinds :
    ~running[k] /\ (\A a \in Callers : ~Stopping(a, k))
      => \A i \in Workers : kind[i] = k => ~Live(i)

\* A start never replaces the callback that a thread still uses.
CallbackInUseIsKept ==
  [][\A a \in Callers :
       Arm(a) => \A i \in Workers : kind[i] = job[a].kind => ~Live(i)]_vars

\* With one caller the members are misused in one way only: the thread of an
\* interrupt reader that could not get its line is never joined.
OnlyTheGpioThreadIsAbandoned ==
  /\ terminated = "joinable" => handle["irq"] # 0 /\ loop[handle["irq"]] = "done"
  /\ terminated # "twice"
  /\ object = "gone" => \A i \in Workers : ~Live(i)

\* start, stop and the destructor return.
EveryCallReturns ==
  \A a \in Callers : pc[a] # "idle" ~> pc[a] = "idle" \/ ~Alive
-----------------------------------------------------------------------------
(* What the documentation says and the code does not do.                    *)

\* "the library does not crash" when the bus is lost.
NeverTerminates == terminated = "no"
=============================================================================
