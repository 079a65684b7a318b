---------------------- MODULE BackgroundReadersProofs -----------------------
(***************************************************************************)
(* What a single caller can rely on, for any number of starts: a stopped   *)
(* reader is quiet, and only the thread of a failed interrupt reader is    *)
(* ever left unjoined.                                                     *)
(***************************************************************************)
EXTENDS BackgroundReaders, TLAPS

\* The thread of an interrupt reader that ended by itself.
GaveUp(k) == k = "irq" /\ loop[handle[k]] = "done"

\* A thread that was created has a kind; only an interrupt reader sets up a line.
LoopsOK ==
  \A i \in Workers :
    /\ kind[i] = "none" <=> loop[i] = "none"
    /\ loop[i] = "setup" => kind[i] = "irq"

\* A thread that may still run is the one its member holds.
LiveAreHeld ==
  \A i \in Workers : Live(i) => kind[i] \in Kinds /\ handle[kind[i]] = i

\* A member whose reader is off is being joined, or holds a thread that gave up.
HeldAreNeeded ==
  \A k \in Kinds :
    handle[k] # 0 /\ ~running[k] => (\E a \in Callers : Stopping(a, k)) \/ GaveUp(k)

\* The readers that the destructor has dealt with.
Before == {<<"async", "raw">>, <<"async", "irq">>, <<"raw", "irq">>}
Handled(a) ==
  {h \in Kinds : pc[a] = "members" \/ <<h, job[a].kind>> \in Before}

\* What a caller knows at each place of its call.
CallOK(a) ==
  LET k == job[a].kind IN
  /\ pc[a] \in {"arm", "spawn"} => job[a].op = "start"
  /\ pc[a] \in {"quit", "join", "wait"} => job[a].op # "start"
  /\ pc[a] = "members" => job[a].op = "destroy"
  /\ pc[a] = "arm" => ~running[k]
  /\ pc[a] = "spawn" => running[k] /\ (handle[k] # 0 => GaveUp(k))
  /\ pc[a] \in {"join", "wait"} => ~running[k]
  /\ pc[a] = "wait" => target[a] # 0 /\ handle[k] = target[a]
  /\ pc[a] # "idle" /\ job[a].op = "destroy" => \A h \in Handled(a) : ~running[h]

\* Why the process ended, and what is left of the object.
EndOK ==
  /\ terminated = "joinable" => handle["irq"] # 0 /\ GaveUp("irq")
  /\ terminated # "twice"
  /\ object = "gone" =>
       /\ \A k \in Kinds : handle[k] = 0
       /\ \A a \in Callers : pc[a] = "idle"

IInv ==
  /\ TypeOK
  /\ LoopsOK
  /\ LiveAreHeld
  /\ HeldAreNeeded
  /\ \A a \in Callers : CallOK(a)
  /\ EndOK
-----------------------------------------------------------------------------
\* Nothing is running and no call is under way.
LEMMA InvariantInit == Init => IInv
<1> SUFFICES ASSUME Init PROVE IInv
  OBVIOUS
<1>1. TypeOK
  BY MaxStartsAssumption DEF Init, TypeOK, Kinds, Jobs, NoJob, Workers
<1>2. LoopsOK /\ LiveAreHeld
  BY DEF Init, LoopsOK, LiveAreHeld, Live
<1>3. HeldAreNeeded
  BY DEF Init, HeldAreNeeded
<1>4. (\A a \in Callers : CallOK(a)) /\ EndOK
  BY DEF Init, CallOK, EndOK, NoJob
<1> QED
  BY <1>1, <1>2, <1>3, <1>4 DEF IInv

\* A step of a reader's loop that leaves its flag alone and does not start it.
LEMMA MoveInv ==
  ASSUME IInv, NEW i \in Workers, Live(i), NEW label \in
           {"top", "read", "deliver", "callback", "calib", "done"},
         Move(i, label),
         UNCHANGED <<running, handle, callVars, terminated>>
  PROVE  IInv'
<1> USE DEF IInv, Move
<1>1. TypeOK'
  BY DEF TypeOK, callVars
<1>2. LoopsOK'
  BY DEF LoopsOK, Live, TypeOK
<1>3. LiveAreHeld'
  BY DEF LiveAreHeld, Live, TypeOK
<1>4. \A k \in Kinds : handle[k] # 0 /\ GaveUp(k) => GaveUp(k)'
  BY DEF GaveUp, Live, TypeOK, Workers
<1>5. HeldAreNeeded'
  BY <1>4 DEF HeldAreNeeded, Stopping, callVars
<1>6. \A a \in Callers : CallOK(a)'
  BY <1>4 DEF CallOK, Handled, callVars, TypeOK, Jobs
<1>7. EndOK'
  BY <1>4 DEF EndOK, callVars, Kinds
<1> QED
  BY <1>1, <1>2, <1>3, <1>5, <1>6, <1>7

\* The thread of a failed interrupt reader clears its flag and ends.
LEMMA GiveUpInv ==
  ASSUME IInv, NEW i \in Workers, loop[i] = "setup",
         running' = [running EXCEPT !["irq"] = FALSE],
         Move(i, "done"),
         UNCHANGED <<handle, callVars, terminated>>
  PROVE  IInv'
<1> USE DEF IInv, Move
<1>1. kind[i] = "irq" /\ handle["irq"] = i
  BY DEF LoopsOK, LiveAreHeld, Live
<1>2. TypeOK'
  BY DEF TypeOK, callVars, Kinds
<1>3. LoopsOK'
  BY DEF LoopsOK, TypeOK
<1>4. LiveAreHeld'
  BY DEF LiveAreHeld, Live, TypeOK
<1>5. GaveUp("irq")' /\ ~GaveUp("irq")
  BY <1>1 DEF GaveUp, TypeOK, Workers
<1>6. \A k \in Kinds : GaveUp(k) => GaveUp(k)'
  BY <1>5 DEF GaveUp
<1>7. HeldAreNeeded'
  BY <1>5, <1>6 DEF HeldAreNeeded, Stopping, callVars, TypeOK
<1>8. \A a \in Callers : CallOK(a)'
  <2> SUFFICES ASSUME NEW a \in Callers PROVE CallOK(a)'
    OBVIOUS
  <2>1. ~(pc[a] = "spawn" /\ job[a].kind = "irq")
    BY <1>1, <1>5 DEF CallOK, Workers
  <2> QED
    BY <1>6, <2>1 DEF CallOK, Handled, callVars, TypeOK, Jobs
<1>9. EndOK'
  BY <1>6 DEF EndOK, callVars, Kinds
<1> QED
  BY <1>2, <1>3, <1>4, <1>7, <1>8, <1>9

\* The process ends on an exception; nothing else changes.
LEMMA ExceptionInv ==
  ASSUME IInv, terminated' = "exception",
         UNCHANGED <<running, handle, readerVars, callVars>>
  PROVE  IInv'
<1> USE DEF IInv, readerVars, callVars
<1>1. TypeOK' /\ LoopsOK' /\ LiveAreHeld'
  BY DEF TypeOK, LoopsOK, LiveAreHeld, Live
<1>2. HeldAreNeeded'
  BY DEF HeldAreNeeded, Stopping, GaveUp
<1>3. \A a \in Callers : CallOK(a)'
  BY DEF CallOK, Handled, GaveUp
<1>4. EndOK'
  BY DEF EndOK
<1> QED
  BY <1>1, <1>2, <1>3, <1>4

\* Every step of a reader's thread is a move, a surrender or an exception.
LEMMA WorkerInv ==
  ASSUME IInv, NEW i \in Workers, WorkerStep(i)
  PROVE  IInv'
<1> USE DEF In, Live
<1>1. CASE Setup(i)
  BY <1>1, MoveInv, GiveUpInv DEF Setup
<1>2. CASE Top(i)
  BY <1>2, MoveInv DEF Top
<1>3. CASE Read(i)
  BY <1>3, MoveInv DEF Read
<1>4. CASE Deliver(i)
  BY <1>4, MoveInv DEF Deliver
<1>5. CASE CallbackReturns(i)
  BY <1>5, MoveInv DEF CallbackReturns, AfterDelivery
<1>6. CASE Calibrate(i)
  BY <1>6, MoveInv, ExceptionInv DEF Calibrate
<1> QED
  BY <1>1, <1>2, <1>3, <1>4, <1>5, <1>6 DEF WorkerStep
-----------------------------------------------------------------------------
(* The steps of the caller, which is alone.                                 *)

\* A step that starts a call or goes on with it, and changes no reader.
LEMMA BeginInv ==
  ASSUME IInv, NEW a, Callers = {a}, pc[a] = "idle",
         NEW op \in {"start", "stop", "destroy"}, NEW k \in Kinds,
         op = "destroy" => k = "async",
         object' \in {object, "closing"}, object = "alive",
         Begin(a, op, k)
  PROVE  IInv'
<1> USE DEF IInv, Begin, readerVars
<1>1. TypeOK'
  BY DEF TypeOK, Jobs
<1>2. LoopsOK' /\ LiveAreHeld'
  BY DEF LoopsOK, LiveAreHeld, Live
<1>3. pc'[a] = "check" /\ job'[a] = [op |-> op, kind |-> k]
  BY DEF TypeOK
<1>4. HeldAreNeeded'
  BY <1>3 DEF HeldAreNeeded, Stopping, GaveUp
<1>5. Handled(a)' = {} \/ op # "destroy"
  BY <1>3 DEF Handled, Before, Kinds
<1>6. \A b \in Callers : CallOK(b)'
  BY <1>3, <1>5 DEF CallOK
<1>7. EndOK'
  BY DEF EndOK, GaveUp
<1> QED
  BY <1>1, <1>2, <1>4, <1>6, <1>7

\* A caller enters start, stop or the destructor.
LEMMA InvokeInv ==
  ASSUME IInv, NEW a, Callers = {a},
         StartReading(a) \/ StopReading(a) \/ Destroy(a)
  PROVE  IInv'
<1>1. CASE StartReading(a)
  BY <1>1, BeginInv DEF StartReading, At
<1>2. CASE StopReading(a)
  BY <1>2, BeginInv DEF StopReading, At
<1>3. CASE Destroy(a)
  BY <1>3, BeginInv DEF Destroy, KindOrder, Kinds
<1> QED
  BY <1>1, <1>2, <1>3

\* Where a call goes when it has dealt with its reader: a start or stop returns,
\* the destructor has one more reader handled.
LEMMA ReturnMoves ==
  ASSUME TypeOK, NEW a, Callers = {a}, pc[a] # "members", Return(a)
  PROVE  /\ pc' \in [Callers -> {"idle", "check", "members"}]
         /\ job' \in [Callers -> Jobs]
         /\ job'[a].op = job[a].op
         /\ pc'[a] = "members" => job[a].op = "destroy"
         /\ pc'[a] # "idle" =>
              job[a].op = "destroy" /\ Handled(a)' \subseteq Handled(a) \cup {job[a].kind}
<1> USE DEF Return, TypeOK, Jobs, Kinds
<1>1. CASE job[a].op # "destroy"
  BY <1>1
<1>2. CASE job[a].op = "destroy" /\ job[a].kind = "async"
  <2>1. pc'[a] = "check" /\ job' = [job EXCEPT ![a].kind = "raw"]
    BY <1>2 DEF KindOrder
  <2>2. pc' \in [Callers -> {"idle", "check", "members"}] /\ job' \in [Callers -> Jobs]
    BY <1>2, <2>1
  <2>3. Handled(a)' = {"async"}
    BY <1>2, <2>1 DEF Handled, Before
  <2> QED
    BY <1>2, <2>1, <2>2, <2>3
<1>3. CASE job[a].op = "destroy" /\ job[a].kind = "raw"
  <2>1. pc'[a] = "check" /\ job' = [job EXCEPT ![a].kind = "irq"]
    BY <1>3 DEF KindOrder
  <2>2. pc' \in [Callers -> {"idle", "check", "members"}] /\ job' \in [Callers -> Jobs]
    BY <1>3, <2>1
  <2>3. Handled(a)' = {"async", "raw"} /\ Handled(a) = {"async"}
    BY <1>3, <2>1 DEF Handled, Before
  <2> QED
    BY <1>3, <2>1, <2>2, <2>3
<1>4. CASE job[a].op = "destroy" /\ job[a].kind = "irq"
  <2>1. pc'[a] = "members" /\ UNCHANGED job
    BY <1>4 DEF KindOrder
  <2>2. pc' \in [Callers -> {"idle", "check", "members"}] /\ job' \in [Callers -> Jobs]
    BY <1>4, <2>1
  <2>3. Handled(a)' = Kinds /\ Handled(a) = {"async", "raw"}
    BY <1>4, <2>1 DEF Handled, Before
  <2> QED
    BY <1>4, <2>1, <2>2, <2>3
<1>5. job[a].kind \in Kinds
  OBVIOUS
<1> QED
  BY <1>1, <1>2, <1>3, <1>4, <1>5

\* A step that changes nothing but where the caller is, and leaves it at a place
\* that asks for nothing new.
LEMMA LookInv ==
  ASSUME IInv, NEW a, Callers = {a}, pc[a] \in {"check", "join"}, Alive,
         \/ Return(a) /\ (pc[a] = "join" => handle[job[a].kind] = 0)
                       /\ (job[a].op = "destroy" => ~running[job[a].kind])
         \/ pc[a] = "check" /\ job[a].op # "start" /\ Goto(a, "quit")
         \/ pc[a] = "check" /\ job[a].op = "start" /\ ~running[job[a].kind] /\ Goto(a, "arm"),
         UNCHANGED <<running, handle, readerVars, target, object, terminated>>
  PROVE  IInv'
<1> USE DEF IInv, readerVars
<1>1. pc' \in [Callers -> {"idle", "check", "members", "quit", "arm"}]
      /\ job' \in [Callers -> Jobs]
  <2>1. CASE Return(a)
    BY <2>1, ReturnMoves
  <2>2. CASE Goto(a, "quit") \/ Goto(a, "arm")
    BY <2>2 DEF Goto, TypeOK
  <2> QED
    BY <2>1, <2>2
<1>2. TypeOK'
  BY <1>1 DEF TypeOK
<1>3. LoopsOK' /\ LiveAreHeld'
  BY DEF LoopsOK, LiveAreHeld, Live
<1>4. HeldAreNeeded'
  <2> SUFFICES ASSUME NEW k \in Kinds, handle[k] # 0, ~running[k]
               PROVE  GaveUp(k)
    BY DEF HeldAreNeeded, GaveUp
  <2>1. ~Stopping(a, k)
    BY DEF Stopping, Goto
  <2> QED
    BY <2>1 DEF HeldAreNeeded
<1>5. CallOK(a)'
  <2>1. CASE Return(a) /\ (job[a].op = "destroy" => ~running[job[a].kind])
    <3>1. pc'[a] \in {"idle", "check", "members"}
      BY <2>1, ReturnMoves
    <3>2. ASSUME pc'[a] # "idle"
          PROVE  \A h \in Handled(a)' : ~running[h]
      <4>1. job[a].op = "destroy" /\ Handled(a)' \subseteq Handled(a) \cup {job[a].kind}
        BY <2>1, <3>2, ReturnMoves
      <4>2. (\A h \in Handled(a) : ~running[h]) /\ ~running[job[a].kind]
        BY <2>1, <4>1 DEF CallOK
      <4> QED
        BY <4>1, <4>2
    <3>3. job'[a].op = job[a].op /\ (pc'[a] = "members" => job[a].op = "destroy")
      BY <2>1, ReturnMoves
    <3> QED
      BY <3>1, <3>2, <3>3 DEF CallOK
  <2>2. CASE pc[a] = "check" /\ job[a].op # "start" /\ Goto(a, "quit")
    <3>1. pc'[a] = "quit" /\ job' = job
      BY <2>2 DEF Goto, TypeOK
    <3>2. Handled(a)' = Handled(a)
      BY <2>2, <3>1 DEF Handled
    <3>3. job[a].op = "destroy" => \A h \in Handled(a)' : ~running[h]
      BY <2>2, <3>2 DEF CallOK
    <3> QED
      BY <2>2, <3>1, <3>3 DEF CallOK
  <2>3. CASE pc[a] = "check" /\ job[a].op = "start" /\ ~running[job[a].kind] /\ Goto(a, "arm")
    <3>1. pc'[a] = "arm" /\ job' = job
      BY <2>3 DEF Goto, TypeOK
    <3> QED
      BY <2>3, <3>1 DEF CallOK
  <2> QED
    BY <2>1, <2>2, <2>3
<1>6. EndOK'
  BY DEF EndOK, GaveUp
<1> QED
  BY <1>2, <1>3, <1>4, <1>5, <1>6

\* The tests of the flag at the head of start and stop.
LEMMA CheckInv ==
  ASSUME IInv, NEW a, Callers = {a}, CheckStart(a) \/ CheckStop(a)
  PROVE  IInv'
<1>1. CASE CheckStart(a)
  BY <1>1, LookInv DEF CheckStart, At, InStart
<1>2. CASE CheckStop(a)
  BY <1>2, LookInv DEF CheckStop, At, InStart
<1> QED
  BY <1>1, <1>2

\* start sets the flag; the member it is about to assign holds nothing, or a
\* thread that gave up.
LEMMA ArmInv ==
  ASSUME IInv, NEW a, Callers = {a}, Arm(a)
  PROVE  IInv'
<1> USE DEF IInv, Arm, At, readerVars
<1>1. job[a].op = "start" /\ ~running[job[a].kind] /\ job[a].kind \in Kinds
  BY DEF CallOK, TypeOK, Jobs
<1>2. pc'[a] = "spawn" /\ job' = job
  BY DEF Goto, TypeOK
<1>3. TypeOK'
  BY <1>1 DEF TypeOK, Goto
<1>4. LoopsOK' /\ LiveAreHeld'
  BY DEF LoopsOK, LiveAreHeld, Live
<1>5. \A k \in Kinds : ~Stopping(a, k)
  BY DEF Stopping
<1>6. HeldAreNeeded'
  BY <1>1, <1>5 DEF HeldAreNeeded, GaveUp, TypeOK
<1>7. handle[job[a].kind] # 0 => GaveUp(job[a].kind)
  BY <1>1, <1>5 DEF HeldAreNeeded
<1>8. CallOK(a)'
  BY <1>1, <1>2, <1>7 DEF CallOK, GaveUp, TypeOK
<1>9. EndOK'
  BY <1>2 DEF EndOK, GaveUp, Alive
<1> QED
  BY <1>3, <1>4, <1>6, <1>8, <1>9

\* The object is there while a call on it is under way.
LEMMA BusyIsNotGone ==
  ASSUME IInv, NEW a \in Callers, pc[a] # "idle"
  PROVE  object # "gone"
BY DEF IInv, EndOK

\* stop clears the flag and is from here on the one that joins.
LEMMA QuitInv ==
  ASSUME IInv, NEW a, Callers = {a}, Quit(a)
  PROVE  IInv'
<1> USE DEF IInv, Quit, At, readerVars
<1>1. job[a].op # "start" /\ job[a].kind \in Kinds /\ object # "gone"
  BY BusyIsNotGone DEF CallOK, TypeOK, Jobs
<1>2. pc'[a] = "join" /\ job' = job
  BY DEF Goto, TypeOK
<1>3. TypeOK'
  BY <1>1 DEF TypeOK, Goto
<1>4. LoopsOK' /\ LiveAreHeld'
  BY DEF LoopsOK, LiveAreHeld, Live
<1>5. ASSUME NEW k \in Kinds, handle[k] # 0, ~running'[k]
      PROVE  Stopping(a, k)' \/ GaveUp(k)'
  <2>1. CASE k = job[a].kind
    BY <1>2, <2>1 DEF Stopping
  <2>2. CASE k # job[a].kind
    BY <1>5, <2>2 DEF HeldAreNeeded, Stopping, GaveUp, TypeOK
  <2> QED
    BY <2>1, <2>2
<1>6. HeldAreNeeded'
  BY <1>5 DEF HeldAreNeeded
<1>7. Handled(a)' = Handled(a)
  BY <1>2 DEF Handled
<1>8. \A h \in Handled(a) : h \in Kinds
  BY DEF Handled
<1>9. job[a].op = "destroy" => \A h \in Handled(a)' : ~running'[h]
  BY <1>1, <1>7, <1>8 DEF CallOK, TypeOK
<1>10. ~running'[job[a].kind]
  BY <1>1 DEF TypeOK
<1>11. CallOK(a)'
  BY <1>1, <1>2, <1>9, <1>10 DEF CallOK
<1>12. EndOK'
  BY <1>1 DEF EndOK, GaveUp
<1> QED
  BY <1>3, <1>4, <1>6, <1>11, <1>12

\* stop finds a thread to join, or none.
LEMMA JoinableInv ==
  ASSUME IInv, NEW a, Callers = {a}, Joinable(a)
  PROVE  IInv'
<1> USE DEF IInv, At
<1>1. job[a].op # "start" /\ job[a].kind \in Kinds /\ ~running[job[a].kind] /\ object # "gone"
  BY BusyIsNotGone DEF Joinable, CallOK, TypeOK, Jobs
<1>2. CASE handle[job[a].kind] = 0
  BY <1>1, <1>2, LookInv DEF Joinable
<1>3. CASE handle[job[a].kind] # 0
  <2>1. Goto(a, "wait") /\ target' = [target EXCEPT ![a] = handle[job[a].kind]]
    BY <1>3 DEF Joinable
  <2>2. pc'[a] = "wait" /\ job' = job /\ target'[a] = handle[job[a].kind]
    BY <2>1 DEF Goto, TypeOK
  <2>3. UNCHANGED <<running, handle, kind, loop, object, terminated>>
    BY DEF Joinable, readerVars
  <2>4. TypeOK'
    BY <1>1, <2>1, <2>3 DEF TypeOK, Goto
  <2>5. LoopsOK' /\ LiveAreHeld'
    BY <2>3 DEF LoopsOK, LiveAreHeld, Live
  <2>6. \A k \in Kinds : Stopping(a, k) => Stopping(a, k)'
    BY <2>2 DEF Stopping
  <2>7. HeldAreNeeded'
    BY <2>3, <2>6 DEF HeldAreNeeded, GaveUp
  <2>8. job[a].op = "destroy" => \A h \in Handled(a)' : ~running[h]
    BY <2>2 DEF Joinable, CallOK, Handled
  <2>9. CallOK(a)'
    BY <1>1, <1>3, <2>2, <2>3, <2>8 DEF CallOK
  <2>10. EndOK'
    BY <1>1, <2>3 DEF EndOK, GaveUp
  <2> QED
    BY <2>4, <2>5, <2>7, <2>9, <2>10
<1> QED
  BY <1>2, <1>3

\* The joined thread has ended, and its member is empty.
LEMMA JoinInv ==
  ASSUME IInv, NEW a, Callers = {a}, Join(a)
  PROVE  IInv'
<1> DEFINE k == job[a].kind
<1> USE DEF IInv, At
<1>1. /\ job[a].op # "start" /\ k \in Kinds /\ ~running[k] /\ object # "gone"
      /\ handle[k] = target[a] /\ handle[k] # 0 /\ pc[a] = "wait"
  BY BusyIsNotGone DEF Join, CallOK, TypeOK, Jobs
<1>2. loop[handle[k]] = "done" /\ handle' = [handle EXCEPT ![k] = 0]
  BY <1>1 DEF Join
<1>3. UNCHANGED <<running, kind, loop, target, object, terminated>>
  BY <1>1 DEF Join, readerVars
<1>4. Return(a)
  BY DEF Join
<1>5. TypeOK'
  <2>1. pc' \in [Callers -> {"idle", "check", "members"}] /\ job' \in [Callers -> Jobs]
    BY <1>1, <1>4, ReturnMoves
  <2>2. handle' \in [Kinds -> 0 .. MaxStarts]
    BY <1>1, <1>2, MaxStartsAssumption DEF TypeOK
  <2>3. \A m \in Kinds : handle'[m] # 0 => kind'[handle'[m]] = m
    BY <1>1, <1>2, <1>3 DEF TypeOK
  <2>4. pc' \in [Callers -> {"idle", "check", "arm", "spawn", "quit", "join", "wait",
                           "members"}]
    BY <2>1
  <2> QED
    BY <1>3, <2>1, <2>2, <2>3, <2>4 DEF TypeOK
<1>6. LoopsOK'
  BY <1>3 DEF LoopsOK
<1>7. LiveAreHeld'
  BY <1>1, <1>2, <1>3 DEF LiveAreHeld, Live, TypeOK
<1>8. HeldAreNeeded'
  <2> SUFFICES ASSUME NEW m \in Kinds, handle'[m] # 0, ~running[m]
               PROVE  GaveUp(m)'
    BY <1>3 DEF HeldAreNeeded
  <2>1. m # k /\ handle'[m] = handle[m]
    BY <1>1, <1>2 DEF TypeOK
  <2>2. ~Stopping(a, m)
    BY <2>1 DEF Stopping
  <2> QED
    BY <1>3, <2>1, <2>2 DEF HeldAreNeeded, GaveUp
<1>9. CallOK(a)'
  <2>1. pc'[a] \in {"idle", "check", "members"}
    BY <1>1, <1>4, ReturnMoves
  <2>2. ASSUME pc'[a] # "idle"
        PROVE  \A h \in Handled(a)' : ~running[h]
    <3>1. job[a].op = "destroy" /\ Handled(a)' \subseteq Handled(a) \cup {k}
      BY <1>1, <1>4, <2>2, ReturnMoves
    <3>2. \A h \in Handled(a) : ~running[h]
      BY <1>1, <3>1 DEF CallOK
    <3> QED
      BY <1>1, <3>1, <3>2
  <2>3. pc'[a] = "members" => job'[a].op = "destroy"
    BY <1>1, <1>4, ReturnMoves
  <2> QED
    BY <1>3, <2>1, <2>2, <2>3 DEF CallOK
<1>10. EndOK'
  BY <1>1, <1>3 DEF EndOK, Join, Alive
<1> QED
  BY <1>5, <1>6, <1>7, <1>8, <1>9, <1>10

\* The new thread is held by the member of its kind, or the assignment ends the
\* process.
LEMMA SpawnInv ==
  ASSUME IInv, NEW a, Callers = {a}, Spawn(a)
  PROVE  IInv'
<1> DEFINE k == job[a].kind
<1> USE DEF IInv, At
<1>1. /\ job[a].op = "start" /\ k \in Kinds /\ running[k] /\ object # "gone"
      /\ pc[a] = "spawn" /\ (handle[k] # 0 => GaveUp(k))
  BY BusyIsNotGone DEF Spawn, CallOK, TypeOK, Jobs
<1>2. UNCHANGED <<running, target, object>>
  BY DEF Spawn
<1>3. pc'[a] = "idle" /\ pc' \in [Callers -> {"idle", "check", "members"}] /\ job' = job
  BY <1>1, ReturnMoves DEF Spawn, Return
<1>4. CallOK(a)'
  BY <1>3 DEF CallOK
<1>5. \A m \in Kinds : ~Stopping(a, m)
  BY <1>1 DEF Stopping
<1>6. CASE handle[k] # 0
  <2>1. terminated' = "joinable" /\ UNCHANGED <<handle, kind, loop>>
    BY <1>6 DEF Spawn, Clash, readerVars
  <2>2. TypeOK' /\ LoopsOK' /\ LiveAreHeld'
    BY <1>2, <1>3, <2>1 DEF TypeOK, LoopsOK, LiveAreHeld, Live
  <2>3. HeldAreNeeded'
    BY <1>2, <1>5, <2>1 DEF HeldAreNeeded, GaveUp
  <2>4. EndOK'
    BY <1>1, <1>2, <1>6, <2>1 DEF EndOK, GaveUp
  <2> QED
    BY <1>4, <2>2, <2>3, <2>4
<1>7. CASE handle[k] = 0
  <2>1. PICK i \in Fresh : Run(i, k, k)
    BY <1>7 DEF Spawn
  <2>2. i \in Workers /\ kind[i] = "none" /\ loop[i] = "none" /\ i # 0
    BY DEF Fresh, Unused, LoopsOK, Workers
  <2>3. /\ handle' = [handle EXCEPT ![k] = i]
        /\ kind' = [kind EXCEPT ![i] = k]
        /\ loop' = [loop EXCEPT ![i] = IF k = "irq" THEN "setup" ELSE "top"]
        /\ UNCHANGED terminated
    BY <2>1 DEF Run
  <2>4. \A m \in Kinds : handle[m] # i
    BY <1>1, <2>2 DEF TypeOK, Kinds
  <2>5. TypeOK'
    BY <1>1, <1>2, <1>3, <2>2, <2>3, <2>4 DEF TypeOK, Workers
  <2>6. LoopsOK'
    BY <1>1, <2>2, <2>3 DEF LoopsOK, TypeOK, Kinds
  <2>7. LiveAreHeld'
    BY <1>1, <1>7, <2>2, <2>3 DEF LiveAreHeld, Live, TypeOK, Workers
  <2>8. HeldAreNeeded'
    <3> SUFFICES ASSUME NEW m \in Kinds, handle'[m] # 0, ~running[m]
                 PROVE  GaveUp(m)'
      BY <1>2 DEF HeldAreNeeded
    <3>1. m # k /\ handle'[m] = handle[m]
      BY <1>1, <2>3 DEF TypeOK
    <3>2. GaveUp(m)
      BY <1>5, <3>1 DEF HeldAreNeeded
    <3> QED
      BY <2>3, <2>4, <3>1, <3>2 DEF GaveUp, TypeOK
  <2>9. EndOK'
    BY <1>1, <1>2, <2>3 DEF EndOK, Spawn, Alive
  <2> QED
    BY <1>4, <2>5, <2>6, <2>7, <2>8, <2>9
<1> QED
  BY <1>6, <1>7

\* Every reader is off when the members go, so a member that still holds a
\* thread is that of a reader that gave up.
LEMMA DestroyMembersInv ==
  ASSUME IInv, NEW a, Callers = {a}, DestroyMembers(a)
  PROVE  IInv'
<1> USE DEF IInv, At
<1>1. pc[a] = "members" /\ \A k \in Kinds : ~running[k]
  BY DEF DestroyMembers, CallOK, Handled
<1>2. pc' = [pc EXCEPT ![a] = "idle"] /\ UNCHANGED <<running, handle, kind, loop, job, target>>
  BY DEF DestroyMembers, Goto, readerVars
<1>3. \A k \in Kinds : handle[k] # 0 => GaveUp(k)
  BY <1>1 DEF HeldAreNeeded, Stopping
<1>4. TypeOK' /\ LoopsOK' /\ LiveAreHeld'
  BY <1>2 DEF DestroyMembers, TypeOK, LoopsOK, LiveAreHeld, Live
<1>5. HeldAreNeeded'
  BY <1>2, <1>3 DEF HeldAreNeeded, GaveUp
<1>6. pc'[a] = "idle"
  BY <1>2 DEF TypeOK
<1>7. CallOK(a)'
  BY <1>6 DEF CallOK
<1>8. EndOK'
  <2>1. CASE \E k \in Kinds : handle[k] # 0
    <3>1. handle["irq"] # 0 /\ GaveUp("irq")
      BY <1>3, <2>1 DEF GaveUp
    <3>2. object # "gone" /\ UNCHANGED object /\ terminated' = "joinable"
      BY <1>1, <2>1, BusyIsNotGone DEF DestroyMembers
    <3> QED
      BY <1>2, <3>1, <3>2 DEF EndOK, GaveUp
  <2>2. CASE \A k \in Kinds : handle[k] = 0
    BY <1>2, <1>6, <2>2 DEF EndOK, DestroyMembers, Alive
  <2> QED
    BY <2>1, <2>2
<1> QED
  BY <1>4, <1>5, <1>7, <1>8

\* The invariant reads nothing but the variables.
LEMMA StutterInv == ASSUME IInv, UNCHANGED vars PROVE IInv'
<1> USE DEF IInv, vars, readerVars, callVars
<1>1. TypeOK' /\ LoopsOK' /\ LiveAreHeld'
  BY DEF TypeOK, LoopsOK, LiveAreHeld, Live
<1>2. HeldAreNeeded' /\ EndOK'
  BY DEF HeldAreNeeded, Stopping, GaveUp, EndOK
<1>3. \A a \in Callers : CallOK(a)'
  BY DEF CallOK, Handled, GaveUp
<1> QED
  BY <1>1, <1>2, <1>3

\* One case per action of Next.
LEMMA InvariantNext ==
  ASSUME IInv, NEW a, Callers = {a}, [Next]_vars
  PROVE  IInv'
<1>1. CASE StartReading(a) \/ StopReading(a) \/ Destroy(a)
  BY <1>1, InvokeInv
<1>2. CASE CallerStep(a)
  BY <1>2, CheckInv, ArmInv, SpawnInv, QuitInv, JoinableInv, JoinInv, DestroyMembersInv
     DEF CallerStep
<1>3. CASE \E i \in Workers : WorkerStep(i)
  BY <1>3, WorkerInv
<1>4. CASE Over \/ UNCHANGED vars
  BY <1>4, StutterInv DEF Over
<1> QED
  BY <1>1, <1>2, <1>3, <1>4 DEF Next
-----------------------------------------------------------------------------
\* With one caller the invariant holds, whatever the readers and the line do.
THEOREM InvariantHolds ==
  ASSUME NEW a, Callers = {a}
  PROVE  Spec => []IInv
<1>1. IInv /\ [Next]_vars => IInv'
  BY InvariantNext
<1> QED
  BY InvariantInit, <1>1, PTL DEF Spec

\* A reader that one caller has stopped, or that gave up, is quiet: no thread of
\* it reads the sensor or calls back.
THEOREM StoppedReadersAreQuiet ==
  ASSUME NEW a, Callers = {a}
  PROVE  Spec => []StoppedIsQuiet
<1>1. IInv => StoppedIsQuiet
  <2> SUFFICES ASSUME IInv, NEW k \in Kinds, ~running[k],
                      \A b \in Callers : ~Stopping(b, k),
                      NEW i \in Workers, kind[i] = k, Live(i)
               PROVE  FALSE
    BY DEF StoppedIsQuiet
  <2>1. handle[k] = i /\ i # 0
    BY DEF IInv, LiveAreHeld, Workers
  <2>2. GaveUp(k)
    BY <2>1 DEF IInv, HeldAreNeeded
  <2> QED
    BY <2>1, <2>2 DEF GaveUp, Live
<1> QED
  BY InvariantHolds, <1>1, PTL

\* With one caller, std::thread ends the process only for the thread of an interrupt
\* reader that gave up, and no thread outlives the object.
THEOREM OnlyGpioThreadsAreAbandoned ==
  ASSUME NEW a, Callers = {a}
  PROVE  Spec => []OnlyTheGpioThreadIsAbandoned
<1>1. IInv => OnlyTheGpioThreadIsAbandoned
  BY DEF IInv, EndOK, GaveUp, LiveAreHeld, Live, OnlyTheGpioThreadIsAbandoned, Workers
<1> QED
  BY InvariantHolds, <1>1, PTL

\* With one caller, every variable of the readers stays in its domain, and a member
\* holds a thread of its own kind.
THEOREM TypeCorrect ==
  ASSUME NEW a, Callers = {a}
  PROVE  Spec => []TypeOK
<1>1. IInv => TypeOK
  BY DEF IInv
<1> QED
  BY InvariantHolds, <1>1, PTL

\* With one caller, a start assigns the callback only when no thread of an earlier
\* start is left to call the old one.
THEOREM CallbacksInUseAreKept ==
  ASSUME NEW c, Callers = {c}
  PROVE  Spec => CallbackInUseIsKept
<1>1. ASSUME IInv, NEW a \in Callers, Arm(a),
             NEW i \in Workers, kind[i] = job[a].kind, Live(i)
      PROVE  FALSE
  <2> DEFINE k == job[a].kind
  <2>1. pc[a] = "arm" /\ ~running[k]
    BY <1>1 DEF Arm, At, IInv, CallOK
  <2>2. k \in Kinds /\ handle[k] = i /\ i # 0
    BY <1>1 DEF IInv, LiveAreHeld, Workers
  <2>3. ~(\E b \in Callers : Stopping(b, k))
    BY <2>1, Callers = {c} DEF Stopping
  <2> HIDE DEF k
  <2>4. GaveUp(k)
    BY <1>1, <2>1, <2>2, <2>3 DEF IInv, HeldAreNeeded
  <2> QED
    BY <1>1, <2>2, <2>4 DEF GaveUp, Live
<1>2. IInv => \A a \in Callers :
                Arm(a) => \A i \in Workers : kind[i] = job[a].kind => ~Live(i)
  BY <1>1
<1>3. Spec => []IInv
  BY InvariantHolds
<1> QED
  BY <1>2, <1>3, PTL DEF Spec, CallbackInUseIsKept
=============================================================================
