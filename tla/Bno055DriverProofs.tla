------------------------- MODULE Bno055DriverProofs -------------------------
(***************************************************************************)
(* Theorems about Bno055Driver for any threads, workloads, retry limits,   *)
(* bounds and register values.                                             *)
(***************************************************************************)
EXTENDS Bno055Driver, TLAPS

LegalWrite(reg, val) ==
  \/ reg = "reset"
  \/ reg = "opr"  /\ val \in Mode
  \/ reg = "pwr"  /\ val \in {"normal", "suspend"}
  \/ reg = "page" /\ val \in {"p0", "p1"}
  \/ reg = "xtal" /\ val \in Switch
  \/ reg = "unit" /\ val = "SI"
  \/ reg = "axis" /\ val \in AxisMap
  \/ reg = "sign" /\ val \in Sign
  \/ reg = "offs" /\ val \in Offsets
  \/ reg \in Page1Registers /\ val \in Tuning

\* A chip that takes a legal write is still a chip.
LEMMA WrittenType ==
  ASSUME NEW c \in Chip, NEW reg, NEW val, LegalWrite(reg, val)
  PROVE  Written(c, reg, val) \in Chip
<1>1. CASE reg = "reset"
  BY <1>1, SMT DEF Written, PowerOn, Chip, Mode, AxisMap, Sign, Switch, Offsets, Tuning
<1>2. CASE reg = "opr" /\ val \in Mode
  BY <1>2, SMT DEF Written, Chip
<1>3. CASE reg = "pwr" /\ val \in {"normal", "suspend"}
  BY <1>3, SMT DEF Written, Chip
<1>4. CASE reg = "page" /\ val \in {"p0", "p1"}
  BY <1>4, SMT DEF Written, Chip
<1>5. CASE reg = "xtal" /\ val \in Switch
  BY <1>5, SMT DEF Written, Chip
<1>6. CASE reg = "unit" /\ val = "SI"
  BY <1>6, SMT DEF Written, Chip
<1>7. CASE reg = "axis" /\ val \in AxisMap
  BY <1>7, SMT DEF Written, Chip
<1>8. CASE reg = "sign" /\ val \in Sign
  BY <1>8, SMT DEF Written, Chip
<1>9. CASE reg = "offs" /\ val \in Offsets
  BY <1>9, SMT DEF Written, Chip
<1>10. CASE reg \in Page1Registers /\ val \in Tuning
  BY <1>10, SMT DEF Written, Chip, Page1Registers
<1> QED
  BY <1>1, <1>2, <1>3, <1>4, <1>5, <1>6, <1>7, <1>8, <1>9, <1>10 DEF LegalWrite
-----------------------------------------------------------------------------
(* Control: which operation can be where, and what its frame holds there.   *)

BeginLabels == {"open", "breset"} \cup Polls \cup
  {"bpower", "bpage", "bunit", "btrig", "bpage1", "bacc", "bgyr0", "bgyr1", "bpage0"}

\* Where a call at label l with frame f goes on; setMode's two steps belong to
\* their caller.
At(l, f) == IF l \in {"assign", "wrmode"} THEN f.ret ELSE l

Good(l, f) ==
  LET op == f.call.op
      at == At(l, f)
  IN /\ f.ret \notin {"assign", "wrmode"}
     /\ at \in BeginLabels => op \in Restarts
     /\ at = "xtal" => op = "setExtCrystalUse"
     /\ at = "cache" => op \in Remaps
     /\ at = "power" => op \in PowerOps
     /\ at = "body" => op \in Remaps \cup Uploaders \cup Fetchers \cup Readers
     /\ at = "save" => op \in Remaps \cup Uploaders \cup Fetchers \cup {"enterNormalMode"}
     /\ at \in {"copy", "store"} => op \in Uploaders \cup Fetchers
     /\ at \in {"fopen", "fwrite"} => op = "saveCalibrationFile"
     /\ at = "fread" => op \in Restarts \cup {"loadCalibrationFile"}
     /\ at \in {"copy", "store", "fopen", "fwrite"} => f.data \in Offsets
     /\ at \in {"body", "save"} /\ op \in Uploaders => f.data \in Offsets

ControlOK == \A t \in Threads : Good(pc[t], frame[t])

\* The part of TypeOK that the steps of one call change.
ThreadsOK ==
  /\ pc \in [Threads -> Labels]
  /\ frame \in [Threads -> Frames]
  /\ result \in [Threads -> BOOLEAN]
  /\ requested \in Mode
  /\ ControlOK

\* An operation fixes the kind of its argument.
LEMMA CallArgument ==
  ASSUME NEW c \in Call \cup {NoCall}
  PROVE  /\ c.op \in {"setMode"} \cup Restarts => c.arg \in Mode
         /\ c.op = "setAxisRemap" => c.arg \in AxisMap
         /\ c.op = "setAxisSign" => c.arg \in Sign
         /\ c.op = "setExtCrystalUse" => c.arg \in Switch
BY SMT DEF Call, NoCall, Restarts, Readers, Fetchers, PowerOps

\* Moving one thread to a good label and frame keeps all threads good.
LEMMA Moved ==
  ASSUME pc \in [Threads -> Labels], frame \in [Threads -> Frames], ControlOK,
         NEW t \in Threads, NEW l \in Labels,
         pc' = [pc EXCEPT ![t] = l],
         frame' \in [Threads -> Frames],
         \A u \in Threads \ {t} : frame'[u] = frame[u],
         Good(l, frame'[t])
  PROVE  pc' \in [Threads -> Labels] /\ ControlOK'
<1>1. pc' \in [Threads -> Labels]
  OBVIOUS
<1>2. ASSUME NEW u \in Threads
      PROVE  Good(pc'[u], frame'[u])
  <2>1. CASE u = t
    BY <2>1
  <2>2. CASE u # t
    <3>1. pc'[u] = pc[u] /\ frame'[u] = frame[u]
      BY <2>2
    <3> QED
      BY <3>1 DEF ControlOK
  <2> QED
    BY <2>1, <2>2
<1> QED
  BY <1>1, <1>2 DEF ControlOK

\* A thread's frame replaced by another frame.
LEMMA Updated ==
  ASSUME frame \in [Threads -> Frames], NEW t \in Threads, NEW f \in Frames,
         Update(t, f)
  PROVE  /\ frame' \in [Threads -> Frames]
         /\ \A u \in Threads \ {t} : frame'[u] = frame[u]
         /\ frame'[t] = f
BY DEF Update

LEMMA FinishType ==
  ASSUME ThreadsOK, cache.opr \in Mode, NEW t \in Threads, NEW ok \in BOOLEAN,
         Finish(t, ok)
  PROVE  ThreadsOK'
<1>1. EmptyFrame \in Frames /\ Good("idle", EmptyFrame) /\ "idle" \in Labels
  BY BoundsAssumption DEF EmptyFrame, Frames, NoCall, Good, At, Labels, BeginLabels, Mode, Polls
<1>2. frame' \in [Threads -> Frames] /\ frame'[t] = EmptyFrame
  BY <1>1, Updated DEF ThreadsOK, Finish
<1>3. \A u \in Threads \ {t} : frame'[u] = frame[u]
  BY <1>1, Updated DEF ThreadsOK, Finish
<1>4. pc' \in [Threads -> Labels] /\ ControlOK'
  BY <1>1, <1>2, <1>3, Moved DEF ThreadsOK, Finish
<1>5. result' \in [Threads -> BOOLEAN] /\ requested' \in Mode
  BY DEF ThreadsOK, Finish
<1> QED
  BY <1>2, <1>4, <1>5 DEF ThreadsOK

LEMMA GotoType ==
  ASSUME ThreadsOK, NEW t \in Threads, NEW l \in Labels, Good(l, frame[t]), Goto(t, l)
  PROVE  ThreadsOK'
<1>1. frame' = frame /\ pc' = [pc EXCEPT ![t] = l]
  BY DEF Goto
<1>2. /\ frame' \in [Threads -> Frames]
      /\ \A u \in Threads \ {t} : frame'[u] = frame[u]
      /\ Good(l, frame'[t])
  BY <1>1 DEF ThreadsOK
<1>3. pc' \in [Threads -> Labels] /\ ControlOK'
  BY <1>1, <1>2, Moved DEF ThreadsOK
<1> QED
  BY <1>1, <1>2, <1>3 DEF ThreadsOK, Goto

\* The domains of a frame's fields, as names the provers need not look into.
CallField == Call \cup {NoCall}
RetField  == Labels \cup {"fail"}
PollField == 0 .. (PollBudget - 1)
DataField == Offsets \cup {"none"}

LEMMA FrameFields ==
  Frames = [call : CallField, saved : Mode, target : Mode, ret : RetField,
            polls : PollField, data : DataField]
BY DEF Frames, CallField, RetField, PollField, DataField

\* Moving one thread to a good label with an updated frame.
LEMMA MovedWith ==
  ASSUME ThreadsOK, NEW t \in Threads, NEW l \in Labels, NEW f \in Frames,
         Update(t, f), Good(l, f),
         pc' = [pc EXCEPT ![t] = l],
         UNCHANGED <<result, requested>>
  PROVE  ThreadsOK'
<1>1. /\ frame' \in [Threads -> Frames]
      /\ \A u \in Threads \ {t} : frame'[u] = frame[u]
      /\ frame'[t] = f
  BY Updated DEF ThreadsOK
<1>2. pc' \in [Threads -> Labels] /\ ControlOK'
  BY <1>1, Moved DEF ThreadsOK
<1> QED
  BY <1>1, <1>2 DEF ThreadsOK

\* Entering setMode.
LEMMA SetModeType ==
  ASSUME ThreadsOK, NEW t \in Threads, NEW m \in Mode, NEW l \in Labels \cup {"fail"},
         l \notin {"assign", "wrmode"},
         Good(l, frame[t]),
         SetMode(t, m, l)
  PROVE  ThreadsOK'
<1> DEFINE f == [frame[t] EXCEPT !.target = m, !.ret = l]
<1>1. frame[t] \in Frames /\ l \in RetField
  BY DEF ThreadsOK, RetField
<1>2. /\ f \in Frames
      /\ f.call = frame[t].call
      /\ f.data = frame[t].data
      /\ f.ret = l
  BY <1>1, FrameFields
<1> HIDE DEF f
<1>3. Good("assign", f) /\ "assign" \in Labels
  BY <1>2 DEF Good, At, Labels
<1>4. Update(t, f) /\ pc' = [pc EXCEPT ![t] = "assign"] /\ UNCHANGED <<result, requested>>
  BY DEF SetMode, f
<1> QED
  BY <1>2, <1>3, <1>4, MovedWith

LEMMA PollAgainType ==
  ASSUME ThreadsOK, cache.opr \in Mode, NEW t \in Threads, PollAgain(t)
  PROVE  ThreadsOK'
<1>1. CASE frame[t].polls + 1 = PollBudget
  BY <1>1, FinishType DEF PollAgain
<1>2. CASE frame[t].polls + 1 # PollBudget
  <2> DEFINE f == [frame[t] EXCEPT !.polls = @ + 1]
  <2>1. frame[t] \in Frames /\ frame[t].polls \in PollField
    BY FrameFields DEF ThreadsOK
  <2>2. frame[t].polls + 1 \in PollField
    BY <1>2, <2>1, BoundsAssumption DEF PollField
  <2>3. /\ f \in Frames
        /\ f.call = frame[t].call
        /\ f.data = frame[t].data
        /\ f.ret = frame[t].ret
    BY <2>1, <2>2, FrameFields
  <2>4. Update(t, f) /\ UNCHANGED <<pc, result, requested>>
    BY <1>2 DEF PollAgain
  <2> HIDE DEF f
  <2>5. pc[t] \in Labels /\ Good(pc[t], f) /\ pc' = [pc EXCEPT ![t] = pc[t]]
    BY <2>3, <2>4 DEF ThreadsOK, ControlOK, Good, At
  <2> QED
    BY <2>3, <2>4, <2>5, MovedWith
<1> QED
  BY <1>1, <1>2

LEMMA AfterPollType ==
  ASSUME ThreadsOK, cache.opr \in Mode, NEW t \in Threads, NEW ok \in BOOLEAN,
         pc[t] \in Polls, AfterPoll(t, ok)
  PROVE  ThreadsOK'
<1>0. frame[t] \in Frames /\ 0 \in PollField /\ Good(pc[t], frame[t])
  BY BoundsAssumption DEF ThreadsOK, ControlOK, PollField
<1>1. frame[t].call.op \in Restarts /\ frame[t].ret \notin {"assign", "wrmode"}
  BY <1>0 DEF Good, At, BeginLabels, Polls
<1>2. CASE pc[t] = "bdetect" /\ pc' = [pc EXCEPT ![t] = "assign"] /\ UNCHANGED <<result, requested>>
           /\ Update(t, [frame[t] EXCEPT !.target = "Config", !.ret = "breset", !.polls = 0])
  <2> DEFINE f == [frame[t] EXCEPT !.target = "Config", !.ret = "breset", !.polls = 0]
  <2>1. "Config" \in Mode /\ "breset" \in RetField
    BY DEF Mode, RetField, Labels, IOLabels, WriteLabels
  <2>2. f \in Frames /\ f.call = frame[t].call /\ f.data = frame[t].data /\ f.ret = "breset"
    BY <1>0, <2>1, FrameFields
  <2> HIDE DEF f
  <2>3. Good("assign", f) /\ "assign" \in Labels
    BY <1>1, <2>2 DEF Good, At, Labels
  <2>4. Update(t, f)
    BY <1>2 DEF f
  <2> QED
    BY <1>2, <2>2, <2>3, <2>4, MovedWith
<1>3. CASE pc[t] = "breboot" /\ pc' = [pc EXCEPT ![t] = "bpower"] /\ UNCHANGED <<result, requested>>
           /\ Update(t, [frame[t] EXCEPT !.polls = 0])
  <2> DEFINE f == [frame[t] EXCEPT !.polls = 0]
  <2>2. f \in Frames /\ f.call = frame[t].call /\ f.data = frame[t].data /\ f.ret = frame[t].ret
    BY <1>0, FrameFields
  <2> HIDE DEF f
  <2>3. Good("bpower", f) /\ "bpower" \in Labels
    BY <1>1, <2>2 DEF Good, At, Labels, IOLabels, WriteLabels
  <2>4. Update(t, f)
    BY <1>3 DEF f
  <2> QED
    BY <1>3, <2>2, <2>3, <2>4, MovedWith
<1>4. CASE PollAgain(t)
  BY <1>4, PollAgainType
<1> QED
  BY <1>2, <1>3, <1>4 DEF AfterPoll

LEMMA AfterBodyType ==
  ASSUME ThreadsOK, cache.opr \in Mode, chip \in Chip,
         NEW t \in Threads, NEW ok \in BOOLEAN,
         pc[t] = "body", AfterBody(t, ok)
  PROVE  ThreadsOK'
<1>0. frame[t] \in Frames /\ frame[t].saved \in Mode /\ Good("body", frame[t])
  BY FrameFields DEF ThreadsOK, ControlOK
<1>1. frame[t].ret \notin {"assign", "wrmode"}
  BY <1>0 DEF Good
<1>2. CASE Finish(t, ok)
  BY <1>2, FinishType
<1>3. CASE Op(t) = "setExtCrystalUse" /\ Goto(t, "xtal")
  <2>1. Good("xtal", frame[t]) /\ "xtal" \in Labels
    BY <1>1, <1>3 DEF Good, At, Op, Labels, IOLabels, WriteLabels, BeginLabels, Polls
  <2> QED
    BY <1>3, <2>1, GotoType
<1>4. CASE SetMode(t, frame[t].saved, "idle")
  <2>1. Good("idle", frame[t]) /\ "idle" \in Labels
    BY <1>1 DEF Good, At, Labels, BeginLabels, Polls
  <2> QED
    BY <1>0, <1>4, <2>1, SetModeType
<1>5. CASE /\ Op(t) \in Fetchers
           /\ pc' = [pc EXCEPT ![t] = "assign"]
           /\ Update(t, [frame[t] EXCEPT !.target = frame[t].saved,
                                         !.ret = IF ok THEN "copy" ELSE "fail",
                                         !.data = IF ok THEN chip.offs ELSE "none"])
           /\ UNCHANGED <<result, requested>>
  <2> DEFINE l == IF ok THEN "copy" ELSE "fail"
             d == IF ok THEN chip.offs ELSE "none"
             f == [frame[t] EXCEPT !.target = frame[t].saved, !.ret = l, !.data = d]
  <2>1. chip.offs \in Offsets
    BY DEF Chip
  <2>2. l \in RetField /\ d \in DataField
    BY <2>1 DEF RetField, DataField, Labels
  <2>3. l \in {"copy", "fail"} /\ (l = "copy" => d \in Offsets)
    BY <2>1
  <2> HIDE DEF l, d
  <2>4. f \in Frames /\ f.call = frame[t].call /\ f.data = d /\ f.ret = l
    BY <1>0, <2>2, FrameFields
  <2>5. Update(t, f)
    BY <1>5 DEF l, d
  <2> HIDE DEF f
  <2>6. Good("assign", f) /\ "assign" \in Labels
    BY <1>5, <2>3, <2>4 DEF Good, At, Op, Labels, BeginLabels, Polls
  <2> QED
    BY <1>5, <2>4, <2>5, <2>6, MovedWith
<1> QED
  BY <1>2, <1>3, <1>4, <1>5 DEF AfterBody

\* setMode returns to its caller, or a call to the application.
LEMMA ResumeType ==
  ASSUME ThreadsOK, cache.opr \in Mode, NEW t \in Threads,
         NEW l \in Labels \cup {"fail"}, l # "fail" => Good(l, frame[t]), Resume(t, l)
  PROVE  ThreadsOK'
<1>1. CASE l = "idle"
  <2>1. Finish(t, TRUE)
    BY <1>1 DEF Resume
  <2> QED
    BY <2>1, FinishType
<1>2. CASE l = "fail"
  <2>1. Finish(t, FALSE)
    BY <1>2 DEF Resume
  <2> QED
    BY <2>1, FinishType
<1>3. CASE l \notin {"idle", "fail"}
  <2>1. l \in Labels /\ Good(l, frame[t]) /\ Goto(t, l)
    BY <1>3 DEF Resume
  <2> QED
    BY <2>1, GotoType
<1> QED
  BY <1>1, <1>2, <1>3

LEMMA BeginNextLabels ==
  /\ DOMAIN BeginNext \subseteq BeginLabels
  /\ \A l \in DOMAIN BeginNext : BeginNext[l] \in (BeginLabels \cap Labels) \ {"open"}
BY DEF BeginNext, BeginLabels, Polls, Labels, IOLabels, WriteLabels

LEMMA AfterIOType ==
  ASSUME ThreadsOK, cache.opr \in Mode, chip \in Chip,
         NEW t \in Threads, NEW ok \in BOOLEAN, AfterIO(t, ok)
  PROVE  ThreadsOK'
<1>0. /\ frame[t] \in Frames /\ Good(pc[t], frame[t])
      /\ frame[t].saved \in Mode /\ frame[t].ret \in Labels \cup {"fail"}
      /\ frame[t].call \in Call \cup {NoCall}
      /\ frame[t].ret \notin {"assign", "wrmode"}
  BY DEF ThreadsOK, ControlOK, Good, Frames
<1>1. CASE pc[t] = "wrmode" /\ Resume(t, frame[t].ret)
  <2>1. Good(frame[t].ret, frame[t])
    BY <1>0, <1>1 DEF Good, At
  <2> QED
    BY <1>0, <1>1, <2>1, ResumeType
<1>2. CASE pc[t] = "body" /\ AfterBody(t, ok)
  BY <1>2, AfterBodyType
<1>3. CASE pc[t] = "xtal" /\ SetMode(t, frame[t].saved, "idle")
  <2>1. Good("idle", frame[t]) /\ "idle" \in Labels
    BY <1>0 DEF Good, At, Labels, BeginLabels, Polls
  <2> QED
    BY <1>0, <1>3, <2>1, SetModeType
<1>4. CASE pc[t] = "power" /\ Resume(t, IF Op(t) = "enterSuspendMode" THEN "idle" ELSE "save")
  <2>1. frame[t].call.op \in PowerOps
    BY <1>0, <1>4 DEF Good, At
  <2>2. CASE Op(t) = "enterSuspendMode"
    <3>1. Good("idle", frame[t]) /\ "idle" \in Labels
      BY <1>0 DEF Good, At, Labels, BeginLabels, Polls
    <3>2. Resume(t, "idle")
      BY <1>4, <2>2
    <3> QED
      BY <3>1, <3>2, ResumeType
  <2>3. CASE Op(t) # "enterSuspendMode"
    <3>1. Good("save", frame[t]) /\ "save" \in Labels
      BY <1>0, <2>1, <2>3 DEF Good, At, Op, PowerOps, Uploaders, Restarts, Labels, BeginLabels, Polls
    <3>2. Resume(t, "save")
      BY <1>4, <2>3
    <3> QED
      BY <3>1, <3>2, ResumeType
  <2> QED
    BY <2>2, <2>3
<1>5. CASE pc[t] \in Polls /\ AfterPoll(t, ok)
  BY <1>5, AfterPollType
<1>6. CASE pc[t] \in {"btrig", "bpage0"} /\ SetFinalMode(t)
  <2>1. frame[t].call.op \in Restarts
    BY <1>0, <1>6 DEF Good, At, BeginLabels
  <2>2. frame[t].call.arg \in Mode
    BY <1>0, <2>1, CallArgument
  <2> DEFINE l == IF AutoLoad THEN "fread" ELSE "idle"
  <2>3. l \in {"fread", "idle"}
    OBVIOUS
  <2>4. SetMode(t, frame[t].call.arg, l)
    BY <1>6 DEF SetFinalMode
  <2> HIDE DEF l
  <2>5. Good(l, frame[t]) /\ l \in Labels
    BY <1>0, <2>1, <2>3 DEF Good, At, Labels, BeginLabels, Polls
  <2> QED
    BY <2>2, <2>3, <2>4, <2>5, SetModeType
<1>7. CASE pc[t] = "btrig" /\ Goto(t, "bpage1")
  <2>1. frame[t].call.op \in Restarts
    BY <1>0, <1>7 DEF Good, At, BeginLabels
  <2>2. Good("bpage1", frame[t]) /\ "bpage1" \in Labels
    BY <1>0, <2>1 DEF Good, At, Labels, IOLabels, WriteLabels
  <2> QED
    BY <1>7, <2>2, GotoType
<1>8. CASE pc[t] \in DOMAIN BeginNext \ Polls /\ Goto(t, BeginNext[pc[t]])
  <2> DEFINE l == BeginNext[pc[t]]
  <2>1. pc[t] \in BeginLabels /\ l \in (BeginLabels \cap Labels) \ {"open"}
    BY <1>8, BeginNextLabels
  <2>2. frame[t].call.op \in Restarts
    BY <1>0, <2>1 DEF Good, At, BeginLabels, Polls
  <2> HIDE DEF l
  <2>3. Good(l, frame[t])
    BY <1>0, <2>1, <2>2 DEF Good, At, BeginLabels, Polls
  <2>4. Goto(t, l)
    BY <1>8 DEF l
  <2> QED
    BY <2>1, <2>3, <2>4, GotoType
<1> QED
  BY <1>1, <1>2, <1>3, <1>4, <1>5, <1>6, <1>7, <1>8 DEF AfterIO
-----------------------------------------------------------------------------
(* Every register write is legal.                                           *)

LEMMA RequestLegal ==
  ASSUME ThreadsOK, NEW t \in Threads, pc[t] \in IOLabels, Request(t).kind = "write"
  PROVE  LegalWrite(Request(t).reg, Request(t).val)
<1>0. /\ frame[t] \in Frames /\ Good(pc[t], frame[t])
      /\ frame[t].target \in Mode
      /\ frame[t].call \in Call \cup {NoCall}
  BY DEF ThreadsOK, ControlOK, Frames
<1>1. CASE pc[t] = "wrmode"
  BY <1>0, <1>1 DEF Request, LegalWrite
<1>2. CASE pc[t] = "power"
  BY <1>2 DEF Request, LegalWrite
<1>3. CASE pc[t] = "xtal"
  <2>1. frame[t].call.arg \in Switch
    BY <1>0, <1>3, CallArgument DEF Good, At
  <2> QED
    BY <1>3, <2>1 DEF Request, LegalWrite
<1>4. CASE pc[t] \in Polls
  BY <1>4 DEF Request, Polls
<1>5. CASE pc[t] = "body"
  <2>0. Request(t) = BodyRequest(t)
    BY <1>5 DEF Request, Polls
  <2>1. CASE Op(t) = "setAxisRemap"
    <3>1. frame[t].call.arg \in AxisMap
      BY <1>0, <2>1, CallArgument DEF Op
    <3>2. Request(t) = [kind |-> "write", reg |-> "axis", val |-> frame[t].call.arg]
      BY <2>0, <2>1 DEF BodyRequest, Uploaders, Restarts
    <3> QED
      BY <3>1, <3>2 DEF LegalWrite
  <2>2. CASE Op(t) = "setAxisSign"
    <3>1. frame[t].call.arg \in Sign
      BY <1>0, <2>2, CallArgument DEF Op
    <3>2. Request(t) = [kind |-> "write", reg |-> "sign", val |-> frame[t].call.arg]
      BY <2>0, <2>2 DEF BodyRequest, Uploaders, Restarts
    <3> QED
      BY <3>1, <3>2 DEF LegalWrite
  <2>3. CASE Op(t) = "setExtCrystalUse"
    <3>1. Request(t) = [kind |-> "write", reg |-> "page", val |-> "p0"]
      BY <2>0, <2>3 DEF BodyRequest, Uploaders, Restarts
    <3> QED
      BY <3>1 DEF LegalWrite
  <2>4. CASE Op(t) \in Uploaders
    <3>1. frame[t].data \in Offsets
      BY <1>0, <1>5, <2>4 DEF Good, At, Op
    <3> QED
      BY <2>0, <2>4, <3>1 DEF BodyRequest, LegalWrite, Uploaders, Restarts
  <2>5. CASE Op(t) \notin {"setAxisRemap", "setAxisSign", "setExtCrystalUse"} \cup Uploaders
    BY <2>0, <2>5 DEF BodyRequest
  <2> QED
    BY <2>1, <2>2, <2>3, <2>4, <2>5
<1>6. CASE pc[t] \in WriteLabels \ {"wrmode", "power", "xtal"}
  BY <1>6 DEF Request, WriteLabels, Polls, BeginWrites, LegalWrite, Switch, Tuning, Page1Registers
<1> QED
  BY <1>1, <1>2, <1>3, <1>4, <1>5, <1>6 DEF IOLabels

CacheType == [opr : Mode, axis : AxisMap, sign : Sign, xtal : Switch,
              offs : Offsets \cup {"none"}]

\* Of the writes of reconnect() only the upload of offsets nobody set is not
\* legal, and that one is skipped.
LEMMA RecoveryLegal ==
  ASSUME cache \in CacheType, NEW i \in 1 .. WriteCount
  PROVE  LET w == RecoveryWrites(cache)[i]
         IN LegalWrite(w.reg, w.val) \/ (w.reg = "offs" /\ cache.offs = "none")
<1>1. i \in {1, 2, 3, 4, 5, 6, 7, 8, 9, 10}
  BY DEF WriteCount
<1>2. /\ cache.opr \in Mode /\ cache.axis \in AxisMap /\ cache.sign \in Sign
      /\ cache.xtal \in Switch /\ cache.offs \in Offsets \cup {"none"}
  BY DEF CacheType
<1> QED
  BY <1>1, <1>2 DEF RecoveryWrites, LegalWrite, Mode
-----------------------------------------------------------------------------
(* The inductive invariant.                                                 *)

\* mutex_ is held exactly by the thread that is in reconnect(), and that thread
\* is at a register transaction of its call.
LockOK ==
  \A t \in Threads :
    /\ rec[t] # 0 <=> mutex_ = t
    /\ rec[t] # 0 => pc[t] \in IOLabels

Counters == [read_failures : Nat, write_failures : Nat, reconnect_attempts : Nat]

\* The part of TypeOK outside the calls.
SharedOK ==
  /\ bus \in BOOLEAN /\ i2c_fd \in BOOLEAN /\ clean \in BOOLEAN
  /\ outages \in Nat /\ powerCycles \in Nat /\ calls \in Nat
  /\ chip \in Chip
  /\ mutex_ \in Threads \cup {NoThread}
  /\ diagnostics_ \in Counters
  /\ cache \in CacheType
  /\ file \in {"none", "short"} \cup Offsets
  /\ tries \in [Threads -> Nat]
  /\ rec \in [Threads -> 0 .. Retrying]

IInv == SharedOK /\ ThreadsOK /\ LockOK

LEMMA InvariantType == IInv => TypeOK
BY DEF IInv, SharedOK, ThreadsOK, TypeOK, Counters, CacheType

LEMMA InvariantInit == Init => IInv
<1> SUFFICES ASSUME Init PROVE IInv
  OBVIOUS
<1>1. SharedOK
  <2>1. cache \in CacheType
    BY DEF Init, CacheType, Mode, AxisMap, Sign, Switch
  <2>2. diagnostics_ \in Counters
    BY DEF Init, Counters
  <2>3. chip \in Chip
    BY PriorChipsAssumption DEF Init
  <2>4. file \in {"none", "short"} \cup Offsets
    BY DEF Init, Offsets
  <2>5. rec \in [Threads -> 0 .. Retrying] /\ tries \in [Threads -> Nat]
    BY DEF Init, Retrying, WriteCount
  <2> QED
    BY <2>1, <2>2, <2>3, <2>4, <2>5 DEF Init, SharedOK
<1>2. ThreadsOK
  <2>1. EmptyFrame \in Frames /\ Good("idle", EmptyFrame) /\ "idle" \in Labels
    BY BoundsAssumption DEF EmptyFrame, Frames, NoCall, Good, At, Labels, BeginLabels, Mode, Polls
  <2>2. "Config" \in Mode
    BY DEF Mode
  <2> QED
    BY <2>1, <2>2 DEF Init, ThreadsOK, ControlOK
<1>3. LockOK
  BY ThreadsAssumption DEF Init, LockOK
<1> QED
  BY <1>1, <1>2, <1>3 DEF IInv

\* A transaction that ends moves no other thread.
LEMMA OthersStay ==
  ASSUME pc \in [Threads -> Labels], NEW t \in Threads, NEW ok \in BOOLEAN, AfterIO(t, ok)
  PROVE  \A u \in Threads \ {t} : pc'[u] = pc[u]
BY DEF AfterIO, Resume, Finish, Goto, SetMode, SetFinalMode, AfterPoll, PollAgain, AfterBody

LEMMA CountFailureType ==
  ASSUME diagnostics_ \in Counters, NEW t \in Threads, CountFailure(t)
  PROVE  diagnostics_' \in Counters
BY DEF CountFailure, Counters

\* The chip after a request, when it was carried out.
LEMMA PerformedType ==
  ASSUME SharedOK, ThreadsOK, NEW t \in Threads, pc[t] \in IOLabels
  PROVE  Performed(t) \in Chip
<1>1. CASE Request(t).kind = "write"
  <2>1. LegalWrite(Request(t).reg, Request(t).val)
    BY <1>1, RequestLegal
  <2> QED
    BY <1>1, <2>1, WrittenType DEF Performed, SharedOK
<1>2. CASE Request(t).kind # "write"
  BY <1>2 DEF Performed, SharedOK
<1> QED
  BY <1>1, <1>2

\* The chip after a write of reconnect().
LEMMA RecoveredType ==
  ASSUME SharedOK, NEW t \in Threads, AtWrite(t), ~Skipped(t)
  PROVE  LET w == RecoveryWrites(cache)[rec[t]] IN Written(chip, w.reg, w.val) \in Chip
<1> DEFINE w == RecoveryWrites(cache)[rec[t]]
<1>1. LegalWrite(w.reg, w.val)
  BY RecoveryLegal DEF SharedOK, AtWrite, Skipped
<1> HIDE DEF w
<1>2. Written(chip, w.reg, w.val) \in Chip
  BY <1>1, WrittenType DEF SharedOK
<1> QED
  BY <1>2 DEF w
-----------------------------------------------------------------------------
(* Each step preserves the invariant: the calls' own steps first.           *)

\* A call enters at a label that is good for it.
LEMMA EntryGood ==
  ASSUME NEW c \in Call, NEW a, NEW f \in Frames,
         f.call = [op |-> c.op, arg |-> a],
         f.ret = IF c.op = "enterSuspendMode" THEN "power" ELSE "idle",
         c.op = "setSensorOffsets" => f.data \in Offsets
  PROVE  Good(Entry(c.op), f) /\ Entry(c.op) \in Labels
<1>1. f.call.op = c.op /\ f.ret \in {"power", "idle"} /\ (f.ret = "power" => c.op = "enterSuspendMode")
  OBVIOUS
<1>2. c.op \in {"setMode"} \cup Restarts \cup Remaps \cup {"setSensorOffsets"} \cup Readers
               \cup Fetchers \cup PowerOps \cup {"loadCalibrationFile"}
  BY DEF Call, Remaps
<1>3. CASE c.op = "setMode"
  BY <1>1, <1>3 DEF Entry, Good, At, Labels, BeginLabels, Polls, Uploaders, Restarts, Remaps
<1>4. CASE c.op \in Restarts
  <2>1. Entry(c.op) = "open" /\ "open" \in Labels
    BY <1>4 DEF Entry, Restarts, Remaps, Fetchers, PowerOps, Labels
  <2>2. Good("open", f)
    BY <1>1, <1>4 DEF Good, At
  <2> QED
    BY <2>1, <2>2
<1>5. CASE c.op \in Remaps
  BY <1>1, <1>5 DEF Entry, Good, At, Labels, BeginLabels, Polls, Uploaders, Restarts, Remaps
<1>6. CASE c.op = "setSensorOffsets"
  BY <1>1, <1>6 DEF Entry, Good, At, Labels, BeginLabels, Polls, Uploaders, Restarts, Remaps
<1>7. CASE c.op \in Readers
  <2>1. c.op \in {"read8", "readLen"} => Entry(c.op) = "body"
    BY DEF Entry, Uploaders, Restarts, Remaps, Fetchers, PowerOps
  <2>2. c.op = "getDiagnostics" => Entry(c.op) = "diag"
    BY DEF Entry, Uploaders, Restarts, Remaps, Fetchers, PowerOps
  <2>3. "body" \in Labels /\ "diag" \in Labels
    BY DEF Labels, IOLabels
  <2>4. Good("diag", f)
    BY <1>1 DEF Good, At, BeginLabels, Polls
  <2>5. Good("body", f)
    BY <1>1, <1>7 DEF Good, At, BeginLabels, Polls, Readers, Uploaders, Restarts
  <2> QED
    BY <1>7, <2>1, <2>2, <2>3, <2>4, <2>5 DEF Readers
<1>8. CASE c.op \in Fetchers
  BY <1>1, <1>8 DEF Entry, Good, At, Labels, BeginLabels, Polls, Uploaders, Restarts, Remaps,
                    Fetchers
<1>9. CASE c.op \in PowerOps
  BY <1>1, <1>9 DEF Entry, Good, At, Labels, IOLabels, WriteLabels, BeginLabels, Polls, Uploaders,
                    Restarts, Remaps, Fetchers, PowerOps
<1>10. CASE c.op = "loadCalibrationFile"
  BY <1>1, <1>10 DEF Entry, Good, At, Labels, BeginLabels, Polls, Uploaders, Restarts, Remaps,
                     Fetchers
<1> QED
  BY <1>2, <1>3, <1>4, <1>5, <1>6, <1>7, <1>8, <1>9, <1>10

LEMMA InvokeInv ==
  ASSUME IInv, NEW t \in Threads, Invoke(t)
  PROVE  IInv'
<1>0. cache.opr \in Mode
  BY DEF IInv, SharedOK, CacheType
<1> PICK c \in (IF calls = 0 THEN Startup[t] ELSE Workload[t]) :
      LET arg == IF c.op = "reset" THEN cache.opr ELSE c.arg IN
      /\ Update(t,
           [call |-> [op |-> c.op, arg |-> arg], saved |-> "Config",
            target |-> IF c.op = "setMode" THEN arg ELSE "Config",
            ret |-> IF c.op = "enterSuspendMode" THEN "power" ELSE "idle",
            polls |-> 0,
            data |-> IF c.op = "setSensorOffsets" THEN arg ELSE "none"])
      /\ pc' = [pc EXCEPT ![t] = Entry(c.op)]
      /\ requested' = IF c.op \in {"setMode", "begin"} THEN arg ELSE requested
  BY DEF Invoke
<1> DEFINE arg == IF c.op = "reset" THEN cache.opr ELSE c.arg
           f == [call |-> [op |-> c.op, arg |-> arg], saved |-> "Config",
                 target |-> IF c.op = "setMode" THEN arg ELSE "Config",
                 ret |-> IF c.op = "enterSuspendMode" THEN "power" ELSE "idle",
                 polls |-> 0,
                 data |-> IF c.op = "setSensorOffsets" THEN arg ELSE "none"]
<1>1. c \in Call
  BY WorkloadAssumption DEF Call, Restarts
<1>2. [op |-> c.op, arg |-> arg] \in Call
  BY <1>0, <1>1 DEF Call, Restarts
<1>3. /\ c.op \in {"setMode", "begin"} => arg \in Mode
      /\ c.op = "setSensorOffsets" => arg \in Profiles
  BY <1>1 DEF Call, Restarts, Readers, Fetchers, PowerOps
<1> HIDE DEF arg
<1>4. f \in Frames
  BY <1>2, <1>3, BoundsAssumption DEF Frames, Mode, Offsets, Labels, IOLabels, WriteLabels
<1>5. Update(t, f)
  BY DEF arg
<1>6. pc' = [pc EXCEPT ![t] = Entry(c.op)] /\ (requested' = requested \/ requested' = arg)
      /\ (requested' = arg => requested' = requested \/ c.op \in {"setMode", "begin"})
  BY DEF arg
<1>7. Good(Entry(c.op), f) /\ Entry(c.op) \in Labels
  <2>1. /\ f.call = [op |-> c.op, arg |-> arg]
        /\ f.ret = IF c.op = "enterSuspendMode" THEN "power" ELSE "idle"
        /\ c.op = "setSensorOffsets" => f.data \in Offsets
    BY <1>3 DEF Offsets
  <2> HIDE DEF f
  <2> QED
    BY <1>1, <1>4, <2>1, EntryGood
<1> HIDE DEF f
<1>8. ThreadsOK'
  <2>1. /\ frame' \in [Threads -> Frames]
        /\ \A u \in Threads \ {t} : frame'[u] = frame[u]
        /\ frame'[t] = f
    BY <1>4, <1>5, Updated DEF IInv, ThreadsOK
  <2>2. pc' \in [Threads -> Labels] /\ ControlOK'
    BY <1>6, <1>7, <2>1, Moved DEF IInv, ThreadsOK
  <2>3. requested' \in Mode
    BY <1>3, <1>6 DEF IInv, ThreadsOK
  <2>4. result' = result
    BY DEF Invoke
  <2> QED
    BY <2>1, <2>2, <2>3, <2>4 DEF IInv, ThreadsOK
<1>9. SharedOK'
  BY DEF IInv, SharedOK, Invoke, envVars, ioVars
<1>10. LockOK'
  <2>1. pc[t] \notin IOLabels
    BY DEF Invoke, IOLabels, WriteLabels, Polls
  <2> QED
    BY <1>6, <2>1 DEF IInv, LockOK, ThreadsOK, Invoke, ioVars
<1> QED
  BY <1>8, <1>9, <1>10 DEF IInv

\* A step that leaves everything alone but the calls.
LEMMA SameShared ==
  ASSUME SharedOK, UNCHANGED <<envVars, calls, chip, cache, file, clean, ioVars>>
  PROVE  SharedOK'
BY DEF SharedOK, envVars, ioVars

\* A step of a thread outside the register transactions keeps the lock
\* discipline, as long as it moves no other thread.
LEMMA SameLock ==
  ASSUME LockOK, NEW t \in Threads, pc[t] \notin IOLabels,
         \A u \in Threads \ {t} : pc'[u] = pc[u],
         UNCHANGED <<rec, mutex_>>
  PROVE  LockOK'
<1>1. ASSUME NEW u \in Threads
      PROVE  (rec'[u] # 0 <=> mutex_' = u) /\ (rec'[u] # 0 => pc'[u] \in IOLabels)
  <2>1. CASE u = t
    BY <2>1 DEF LockOK
  <2>2. CASE u # t
    BY <2>2 DEF LockOK
  <2> QED
    BY <2>1, <2>2
<1> QED
  BY <1>1 DEF LockOK

LEMMA MovesOne ==
  ASSUME pc \in [Threads -> Labels], NEW t \in Threads,
         \/ \E ok \in BOOLEAN : Finish(t, ok)
         \/ \E l : Goto(t, l)
         \/ \E l : Resume(t, l)
         \/ \E l : pc' = [pc EXCEPT ![t] = l]
  PROVE  \A u \in Threads \ {t} : pc'[u] = pc[u]
BY DEF Finish, Goto, Resume

\* The labels outside the register transactions.
LEMMA OffLine ==
  ASSUME NEW l \in {"open", "cache", "save", "assign", "copy", "store", "diag",
                    "fopen", "fwrite", "fread"}
  PROVE  l \notin IOLabels
BY DEF IOLabels, WriteLabels, Polls

\* Where a thread is, as its frame tells.
LEMMA HereGood ==
  ASSUME ThreadsOK, NEW t \in Threads
  PROVE  /\ frame[t] \in Frames /\ Good(pc[t], frame[t])
         /\ frame[t].ret \in Labels \cup {"fail"}
         /\ frame[t].ret \notin {"assign", "wrmode"}
         /\ frame[t].call \in Call \cup {NoCall}
         /\ frame[t].target \in Mode
         /\ frame[t].data \in Offsets \cup {"none"}
BY DEF ThreadsOK, ControlOK, Good, Frames

LEMMA OpenDeviceInv ==
  ASSUME IInv, NEW t \in Threads, OpenDevice(t)
  PROVE  IInv'
<1>0. ThreadsOK /\ cache.opr \in Mode /\ pc[t] = "open"
  BY DEF IInv, SharedOK, CacheType, OpenDevice
<1>1. ASSUME Goto(t, "bdetect") PROVE ThreadsOK'
  <2>1. Good("bdetect", frame[t]) /\ "bdetect" \in Labels
    BY <1>0, HereGood DEF Good, At, BeginLabels, Polls, Labels, IOLabels
  <2> QED
    BY <1>0, <1>1, <2>1, GotoType
<1>2. ASSUME Finish(t, FALSE) PROVE ThreadsOK'
  BY <1>0, <1>2, FinishType
<1>3. ThreadsOK'
  BY <1>1, <1>2 DEF OpenDevice
<1>4. SharedOK'
  BY DEF IInv, SharedOK, OpenDevice, envVars
<1>5. \A u \in Threads \ {t} : pc'[u] = pc[u]
  BY <1>0, MovesOne DEF ThreadsOK, OpenDevice
<1>6. LockOK'
  BY <1>0, <1>5, OffLine, SameLock DEF IInv, OpenDevice
<1> QED
  BY <1>3, <1>4, <1>6 DEF IInv

LEMMA AssignModeInv ==
  ASSUME IInv, NEW t \in Threads, AssignMode(t)
  PROVE  IInv'
<1>0. ThreadsOK /\ pc[t] = "assign" /\ Goto(t, "wrmode") /\ "wrmode" \in Labels
  BY DEF IInv, AssignMode, Labels, IOLabels, WriteLabels
<1>1. Good("wrmode", frame[t])
  BY <1>0, HereGood DEF Good, At
<1>2. ThreadsOK'
  BY <1>0, <1>1, GotoType
<1>3. cache' \in CacheType
  BY <1>0, HereGood DEF IInv, SharedOK, AssignMode, CacheType
<1>4. SharedOK'
  BY <1>3 DEF IInv, SharedOK, AssignMode, envVars, ioVars
<1>5. \A u \in Threads \ {t} : pc'[u] = pc[u]
  BY <1>0, MovesOne DEF ThreadsOK
<1>6. LockOK'
  BY <1>0, <1>5, OffLine, SameLock DEF IInv, AssignMode, ioVars
<1> QED
  BY <1>2, <1>4, <1>6 DEF IInv

LEMMA SavePrevInv ==
  ASSUME IInv, NEW t \in Threads, SavePrev(t)
  PROVE  IInv'
<1> DEFINE waking == Op(t) = "enterNormalMode"
           m == IF waking THEN cache.opr ELSE "Config"
           l == IF waking THEN "idle" ELSE "body"
           f == [frame[t] EXCEPT !.saved = cache.opr, !.target = m, !.ret = l]
<1>0. ThreadsOK /\ pc[t] = "save" /\ "assign" \in Labels
  BY DEF IInv, SavePrev, Labels
<1>1. cache.opr \in Mode /\ m \in Mode /\ l \in RetField
  BY DEF IInv, SharedOK, CacheType, Mode, RetField, Labels, IOLabels
<1>2. Update(t, f) /\ pc' = [pc EXCEPT ![t] = "assign"] /\ UNCHANGED <<result, requested>>
  BY DEF SavePrev
<1>3. l \in {"idle", "body"} /\ (l = "body" => Op(t) # "enterNormalMode")
  OBVIOUS
<1> HIDE DEF m, l
<1>4. f \in Frames /\ f.call = frame[t].call /\ f.data = frame[t].data /\ f.ret = l
  BY <1>0, <1>1, HereGood, FrameFields
<1> HIDE DEF f
<1>5. Good("assign", f)
  BY <1>0, <1>3, <1>4, HereGood DEF Good, At, Op, BeginLabels, Polls
<1>6. ThreadsOK'
  BY <1>0, <1>2, <1>4, <1>5, MovedWith
<1>7. SharedOK'
  BY SameShared DEF IInv, SavePrev
<1>8. \A u \in Threads \ {t} : pc'[u] = pc[u]
  BY <1>0, <1>2, MovesOne DEF ThreadsOK
<1>9. LockOK'
  BY <1>0, <1>8, OffLine, SameLock DEF IInv, SavePrev, ioVars
<1> QED
  BY <1>6, <1>7, <1>9 DEF IInv

LEMMA CacheSettingInv ==
  ASSUME IInv, NEW t \in Threads, CacheSetting(t)
  PROVE  IInv'
<1>0. ThreadsOK /\ pc[t] = "cache" /\ Goto(t, "save") /\ "save" \in Labels
  BY DEF IInv, CacheSetting, Labels
<1>1. Op(t) \in Remaps
  BY <1>0, HereGood DEF Good, At, Op
<1>2. Good("save", frame[t])
  BY <1>0, <1>1, HereGood DEF Good, At, Op, BeginLabels, Polls, Remaps, Uploaders, Restarts
<1>3. ThreadsOK'
  BY <1>0, <1>2, GotoType
<1>4. cache' \in CacheType
  <2>0. cache \in CacheType
    BY DEF IInv, SharedOK
  <2>1. CASE Op(t) = "setAxisRemap"
    <3>1. frame[t].call.arg \in AxisMap
      BY <1>0, <2>1, HereGood, CallArgument DEF Op
    <3>2. cache' = [cache EXCEPT !.axis = frame[t].call.arg]
      BY <2>1 DEF CacheSetting
    <3> QED
      BY <2>0, <3>1, <3>2 DEF CacheType
  <2>2. CASE Op(t) = "setAxisSign"
    <3>1. frame[t].call.arg \in Sign
      BY <1>0, <2>2, HereGood, CallArgument DEF Op
    <3>2. cache' = [cache EXCEPT !.sign = frame[t].call.arg]
      BY <2>2 DEF CacheSetting
    <3> QED
      BY <2>0, <3>1, <3>2 DEF CacheType
  <2>3. CASE Op(t) = "setExtCrystalUse"
    <3>1. frame[t].call.arg \in Switch
      BY <1>0, <2>3, HereGood, CallArgument DEF Op
    <3>2. cache' = [cache EXCEPT !.xtal = frame[t].call.arg]
      BY <2>3 DEF CacheSetting
    <3> QED
      BY <2>0, <3>1, <3>2 DEF CacheType
  <2> QED
    BY <1>1, <2>1, <2>2, <2>3 DEF Remaps
<1>5. SharedOK'
  BY <1>4 DEF IInv, SharedOK, CacheSetting, envVars, ioVars
<1>6. \A u \in Threads \ {t} : pc'[u] = pc[u]
  BY <1>0, MovesOne DEF ThreadsOK
<1>7. LockOK'
  BY <1>0, <1>6, OffLine, SameLock DEF IInv, CacheSetting, ioVars
<1> QED
  BY <1>3, <1>5, <1>7 DEF IInv

LEMMA CopyOffsetsInv ==
  ASSUME IInv, NEW t \in Threads, CopyOffsets(t)
  PROVE  IInv'
<1>0. ThreadsOK /\ pc[t] = "copy" /\ Goto(t, "store") /\ "store" \in Labels
  BY DEF IInv, CopyOffsets, Labels
<1>1. Good("store", frame[t])
  BY <1>0, HereGood DEF Good, At, BeginLabels, Polls
<1>2. ThreadsOK'
  BY <1>0, <1>1, GotoType
<1>3. cache' \in CacheType
  BY DEF IInv, SharedOK, CopyOffsets, CacheType, Offsets
<1>4. SharedOK'
  BY <1>3 DEF IInv, SharedOK, CopyOffsets, envVars, ioVars
<1>5. \A u \in Threads \ {t} : pc'[u] = pc[u]
  BY <1>0, MovesOne DEF ThreadsOK
<1>6. LockOK'
  BY <1>0, <1>5, OffLine, SameLock DEF IInv, CopyOffsets, ioVars
<1> QED
  BY <1>2, <1>4, <1>6 DEF IInv

LEMMA StoreOffsetsInv ==
  ASSUME IInv, NEW t \in Threads, StoreOffsets(t)
  PROVE  IInv'
<1> DEFINE l == CASE Op(t) \in Uploaders         -> "save"
                  [] Op(t) = "saveCalibrationFile" -> "fopen"
                  [] OTHER                       -> "idle"
<1>0. ThreadsOK /\ pc[t] = "store" /\ Resume(t, l) /\ cache.opr \in Mode
  BY DEF IInv, StoreOffsets, SharedOK, CacheType
<1>1. Op(t) \in Uploaders \cup Fetchers /\ frame[t].data \in Offsets
  BY <1>0, HereGood DEF Good, At, Op
<1>2. l \in Labels /\ Good(l, frame[t])
  <2>1. CASE Op(t) \in Uploaders
    <3>1. l = "save"
      BY <2>1 DEF Uploaders, Restarts
    <3>2. Good("save", frame[t]) /\ "save" \in Labels
      BY <1>0, <1>1, <2>1, HereGood DEF Good, At, Op, BeginLabels, Polls, Labels
    <3> QED
      BY <3>1, <3>2
  <2>2. CASE Op(t) = "saveCalibrationFile"
    <3>1. l = "fopen"
      BY <2>2 DEF Uploaders, Restarts
    <3>2. Good("fopen", frame[t]) /\ "fopen" \in Labels
      BY <1>0, <1>1, <2>2, HereGood DEF Good, At, Op, BeginLabels, Polls, Labels
    <3> QED
      BY <3>1, <3>2
  <2>3. CASE Op(t) = "getSensorOffsets"
    <3>1. l = "idle"
      BY <2>3 DEF Uploaders, Restarts
    <3>2. Good("idle", frame[t]) /\ "idle" \in Labels
      BY <1>0, HereGood DEF Good, At, BeginLabels, Polls, Labels
    <3> QED
      BY <3>1, <3>2
  <2> QED
    BY <1>1, <2>1, <2>2, <2>3 DEF Fetchers
<1>3. \A u \in Threads \ {t} : pc'[u] = pc[u]
  BY <1>0, MovesOne DEF ThreadsOK
<1> HIDE DEF l
<1>4. ThreadsOK'
  BY <1>0, <1>2, ResumeType
<1>5. cache' \in CacheType
  BY <1>1 DEF IInv, SharedOK, StoreOffsets, CacheType
<1>6. SharedOK'
  BY <1>5 DEF IInv, SharedOK, StoreOffsets, envVars, ioVars
<1>7. LockOK'
  BY <1>0, <1>3, OffLine, SameLock DEF IInv, StoreOffsets, ioVars
<1> QED
  BY <1>4, <1>6, <1>7 DEF IInv

LEMMA OpenFileInv ==
  ASSUME IInv, NEW t \in Threads, OpenFile(t)
  PROVE  IInv'
<1>0. ThreadsOK /\ pc[t] = "fopen" /\ cache.opr \in Mode
  BY DEF IInv, OpenFile, SharedOK, CacheType
<1>1. ASSUME Goto(t, "fwrite") PROVE ThreadsOK'
  <2>1. Good("fwrite", frame[t]) /\ "fwrite" \in Labels
    BY <1>0, HereGood DEF Good, At, BeginLabels, Polls, Labels
  <2> QED
    BY <1>0, <1>1, <2>1, GotoType
<1>2. ThreadsOK'
  BY <1>0, <1>1, FinishType DEF OpenFile
<1>3. SharedOK'
  BY DEF IInv, SharedOK, OpenFile, envVars, ioVars
<1>4. \A u \in Threads \ {t} : pc'[u] = pc[u]
  BY <1>0, MovesOne DEF ThreadsOK, OpenFile
<1>5. LockOK'
  BY <1>0, <1>4, OffLine, SameLock DEF IInv, OpenFile, ioVars
<1> QED
  BY <1>2, <1>3, <1>5 DEF IInv

LEMMA WriteFileInv ==
  ASSUME IInv, NEW t \in Threads, WriteFile(t)
  PROVE  IInv'
<1>0. ThreadsOK /\ pc[t] = "fwrite" /\ cache.opr \in Mode /\ Finish(t, TRUE)
  BY DEF IInv, WriteFile, SharedOK, CacheType
<1>1. ThreadsOK'
  BY <1>0, FinishType
<1>2. file' \in {"none", "short"} \cup Offsets
  BY <1>0, HereGood DEF WriteFile
<1>3. SharedOK'
  BY <1>2 DEF IInv, SharedOK, WriteFile, envVars, ioVars
<1>4. \A u \in Threads \ {t} : pc'[u] = pc[u]
  BY <1>0, MovesOne DEF ThreadsOK
<1>5. LockOK'
  BY <1>0, <1>4, OffLine, SameLock DEF IInv, WriteFile, ioVars
<1> QED
  BY <1>1, <1>3, <1>5 DEF IInv

LEMMA ReadFileInv ==
  ASSUME IInv, NEW t \in Threads, ReadFile(t)
  PROVE  IInv'
<1>0. ThreadsOK /\ pc[t] = "fread" /\ cache.opr \in Mode
  BY DEF IInv, ReadFile, SharedOK, CacheType
<1>1. ASSUME file \in Offsets, Update(t, [frame[t] EXCEPT !.data = file]),
             pc' = [pc EXCEPT ![t] = "copy"], UNCHANGED <<result, requested>>
      PROVE  ThreadsOK'
  <2> DEFINE f == [frame[t] EXCEPT !.data = file]
  <2>1. f \in Frames /\ f.call = frame[t].call /\ f.data = file /\ f.ret = frame[t].ret
    BY <1>0, <1>1, HereGood, FrameFields DEF DataField
  <2>2. Update(t, f)
    BY <1>1
  <2> HIDE DEF f
  <2>3. Good("copy", f) /\ "copy" \in Labels
    BY <1>0, <1>1, <2>1, HereGood DEF Good, At, BeginLabels, Polls, Labels, Uploaders
  <2> QED
    BY <1>0, <1>1, <2>1, <2>2, <2>3, MovedWith
<1> DEFINE ok == Op(t) \in Restarts
<1>a. ok \in BOOLEAN
  OBVIOUS
<1>b. \/ /\ file \in Offsets /\ Update(t, [frame[t] EXCEPT !.data = file])
         /\ pc' = [pc EXCEPT ![t] = "copy"] /\ UNCHANGED <<result, requested>>
      \/ Finish(t, ok)
  BY DEF ReadFile
<1> HIDE DEF ok
<1>2. ThreadsOK'
  BY <1>0, <1>1, <1>a, <1>b, FinishType
<1>3. SharedOK'
  BY SameShared DEF IInv, ReadFile
<1>4. \A u \in Threads \ {t} : pc'[u] = pc[u]
  BY <1>0, <1>a, <1>b, MovesOne DEF ThreadsOK
<1>5. LockOK'
  BY <1>0, <1>4, OffLine, SameLock DEF IInv, ReadFile, ioVars
<1> QED
  BY <1>2, <1>3, <1>5 DEF IInv

LEMMA ReadDiagnosticsInv ==
  ASSUME IInv, NEW t \in Threads, ReadDiagnostics(t)
  PROVE  IInv'
<1>0. ThreadsOK /\ pc[t] = "diag" /\ cache.opr \in Mode /\ Finish(t, TRUE)
  BY DEF IInv, ReadDiagnostics, SharedOK, CacheType
<1>1. ThreadsOK'
  BY <1>0, FinishType
<1>2. SharedOK'
  BY SameShared DEF IInv, ReadDiagnostics
<1>3. \A u \in Threads \ {t} : pc'[u] = pc[u]
  BY <1>0, MovesOne DEF ThreadsOK
<1>4. LockOK'
  BY <1>0, <1>3, OffLine, SameLock DEF IInv, ReadDiagnostics, ioVars
<1> QED
  BY <1>1, <1>2, <1>4 DEF IInv

LEMMA ComputeInv ==
  ASSUME IInv, NEW t \in Threads, Compute(t)
  PROVE  IInv'
BY OpenDeviceInv, AssignModeInv, SavePrevInv, CacheSettingInv, CopyOffsetsInv, StoreOffsetsInv,
   OpenFileInv, WriteFileInv, ReadFileInv, ReadDiagnosticsInv DEF Compute

(* Then the register transactions and reconnect().                          *)

\* The transactions of a thread that holds nothing leave rec and mutex_ alone.
LEMMA AttemptLock ==
  ASSUME LockOK, ThreadsOK, NEW t \in Threads, NEW ok \in BOOLEAN,
         rec[t] = 0, AfterIO(t, ok), UNCHANGED <<rec, mutex_>>
  PROVE  LockOK'
<1>1. \A u \in Threads \ {t} : pc'[u] = pc[u]
  BY OthersStay DEF ThreadsOK
<1>2. ASSUME NEW u \in Threads
      PROVE  (rec'[u] # 0 <=> mutex_' = u) /\ (rec'[u] # 0 => pc'[u] \in IOLabels)
  <2>1. CASE u = t
    BY <2>1 DEF LockOK
  <2>2. CASE u # t
    BY <1>1, <2>2 DEF LockOK
  <2> QED
    BY <2>1, <2>2
<1> QED
  BY <1>2 DEF LockOK

\* Releasing the lock at the end of reconnect().
LEMMA ReleaseInv ==
  ASSUME SharedOK, ThreadsOK, LockOK, NEW t \in Threads, NEW ok \in BOOLEAN,
         rec[t] # 0, Release(t, ok)
  PROVE  /\ ThreadsOK' /\ LockOK'
         /\ mutex_' = NoThread
         /\ tries' \in [Threads -> Nat]
         /\ rec' \in [Threads -> 0 .. Retrying]
<1>0. rec \in [Threads -> 0 .. Retrying] /\ 0 \in 0 .. Retrying /\ tries \in [Threads -> Nat]
  BY DEF SharedOK, Retrying, WriteCount
<1>1. ThreadsOK'
  BY AfterIOType DEF Release, SharedOK, CacheType
<1>2. \A u \in Threads \ {t} : rec[u] = 0
  BY DEF LockOK
<1>3. \A u \in Threads : rec'[u] = 0
  BY <1>0, <1>2 DEF Release
<1>4. LockOK'
  BY <1>3, ThreadsAssumption DEF LockOK, Release
<1> QED
  BY <1>0, <1>1, <1>4 DEF Release

LEMMA AttemptOkInv ==
  ASSUME IInv, NEW t \in Threads, AttemptOk(t)
  PROVE  IInv'
<1>0. ThreadsOK /\ LockOK /\ cache.opr \in Mode /\ chip \in Chip
  BY DEF IInv, SharedOK, CacheType
<1>1. ThreadsOK'
  BY <1>0, AfterIOType DEF AttemptOk
<1>2. chip' \in Chip
  BY PerformedType DEF IInv, AttemptOk, MayAttempt
<1>3. clean' \in BOOLEAN
  BY DEF AttemptOk, CleanAfter
<1>4. SharedOK'
  BY <1>2, <1>3 DEF IInv, SharedOK, AttemptOk, envVars
<1>5. LockOK'
  BY <1>0, AttemptLock DEF AttemptOk, MayAttempt
<1> QED
  BY <1>1, <1>4, <1>5 DEF IInv

LEMMA AttemptFailInv ==
  ASSUME IInv, NEW t \in Threads, AttemptFail(t)
  PROVE  IInv'
<1>1. ThreadsOK' /\ LockOK'
  BY DEF IInv, AttemptFail, threadVars, ThreadsOK, ControlOK, LockOK
<1>2. chip' \in Chip /\ i2c_fd' \in BOOLEAN
  BY PerformedType DEF IInv, AttemptFail, MayAttempt, SharedOK
<1>3. clean' \in BOOLEAN
  BY DEF AttemptFail, IInv, SharedOK
<1>4. diagnostics_' \in Counters
  BY CountFailureType DEF IInv, SharedOK, AttemptFail
<1>5. tries' \in [Threads -> Nat]
  BY DEF IInv, SharedOK, AttemptFail
<1>6. SharedOK'
  BY <1>2, <1>3, <1>4, <1>5 DEF IInv, SharedOK, AttemptFail, envVars
<1> QED
  BY <1>1, <1>6 DEF IInv

LEMMA RefreshInv ==
  ASSUME IInv, NEW t \in Threads, RefreshOk(t) \/ RefreshFail(t)
  PROVE  IInv'
<1>0. ThreadsOK /\ LockOK /\ cache.opr \in Mode /\ chip \in Chip
  BY DEF IInv, SharedOK, CacheType
<1>1. \E ok \in BOOLEAN : AfterIO(t, ok)
  BY DEF RefreshOk, RefreshFail
<1>2. ThreadsOK'
  BY <1>0, <1>1, AfterIOType
<1>3. diagnostics_' \in Counters
  BY CountFailureType DEF IInv, SharedOK, RefreshOk, RefreshFail
<1>a. i2c_fd' \in BOOLEAN /\ tries' \in [Threads -> Nat]
  <2>1. i2c_fd' \in BOOLEAN /\ tries' = [tries EXCEPT ![t] = 0]
    BY DEF RefreshOk, RefreshFail
  <2> QED
    BY <2>1 DEF IInv, SharedOK
<1>b. UNCHANGED <<bus, outages, powerCycles, calls, chip, cache, file, clean, rec, mutex_>>
  BY DEF RefreshOk, RefreshFail, envVars
<1>4. SharedOK'
  BY <1>3, <1>a, <1>b DEF IInv, SharedOK
<1>5. LockOK'
  BY <1>0, <1>1, AttemptLock DEF RefreshOk, RefreshFail, MayAttempt
<1> QED
  BY <1>2, <1>4, <1>5 DEF IInv

LEMMA StartReconnectInv ==
  ASSUME IInv, NEW t \in Threads, StartReconnect(t)
  PROVE  IInv'
<1>1. ThreadsOK'
  BY DEF IInv, StartReconnect, threadVars, ThreadsOK, ControlOK
<1>2. rec' \in [Threads -> 0 .. Retrying] /\ Detecting \in 1 .. Retrying
  BY DEF IInv, SharedOK, StartReconnect, Detecting, Retrying, WriteCount
<1>3. diagnostics_' \in Counters
  BY DEF IInv, SharedOK, StartReconnect, Counters
<1>4. SharedOK'
  BY <1>2, <1>3 DEF IInv, SharedOK, StartReconnect, envVars
<1>5. ASSUME NEW u \in Threads
      PROVE  (rec'[u] # 0 <=> mutex_' = u) /\ (rec'[u] # 0 => pc'[u] \in IOLabels)
  <2>1. CASE u = t
    BY <1>2, <2>1 DEF IInv, SharedOK, StartReconnect, MayAttempt, threadVars
  <2>2. CASE u # t
    <3>1. rec[u] = 0
      BY ThreadsAssumption DEF IInv, LockOK, StartReconnect, MayAttempt
    <3> QED
      BY <2>2, <3>1 DEF IInv, SharedOK, StartReconnect
  <2> QED
    BY <2>1, <2>2
<1> QED
  BY <1>1, <1>4, <1>5 DEF IInv, LockOK

\* A step of reconnect() that does not release the lock.
LEMMA RecoveryGoesOn ==
  ASSUME IInv, NEW t \in Threads, rec[t] # 0, NEW i \in 1 .. Retrying,
         rec' = [rec EXCEPT ![t] = i], UNCHANGED <<pc, mutex_>>
  PROVE  LockOK' /\ rec' \in [Threads -> 0 .. Retrying]
BY DEF IInv, SharedOK, LockOK, Retrying, WriteCount

LEMMA DetectInv ==
  ASSUME IInv, NEW t \in Threads, Detect(t)
  PROVE  IInv'
<1>1. ThreadsOK'
  BY DEF IInv, Detect, threadVars, ThreadsOK, ControlOK
<1>2. LockOK' /\ rec' \in [Threads -> 0 .. Retrying]
  <2>1. rec[t] # 0 /\ 1 \in 1 .. Retrying
    BY DEF Detect, Detecting, Retrying, WriteCount
  <2> QED
    BY <2>1, RecoveryGoesOn DEF Detect, threadVars
<1>3. SharedOK'
  BY <1>2 DEF IInv, SharedOK, Detect, envVars
<1> QED
  BY <1>1, <1>2, <1>3 DEF IInv

LEMMA RecoverWriteInv ==
  ASSUME IInv, NEW t \in Threads, RecoverWrite(t)
  PROVE  IInv'
<1>1. ThreadsOK'
  BY DEF IInv, RecoverWrite, threadVars, ThreadsOK, ControlOK
<1>2. LockOK' /\ rec' \in [Threads -> 0 .. Retrying]
  <2> DEFINE i == IF rec[t] = WriteCount THEN Retrying ELSE rec[t] + 1
  <2>1. rec[t] # 0 /\ i \in 1 .. Retrying
    BY DEF RecoverWrite, AtWrite, Retrying, WriteCount
  <2>2. rec' = [rec EXCEPT ![t] = i] /\ UNCHANGED <<pc, mutex_>>
    BY DEF RecoverWrite, threadVars
  <2> HIDE DEF i
  <2> QED
    BY <2>1, <2>2, RecoveryGoesOn
<1>3. chip' \in Chip
  <2>1. CASE Skipped(t)
    BY <2>1 DEF IInv, SharedOK, RecoverWrite
  <2>2. CASE ~Skipped(t)
    BY <2>2, RecoveredType DEF IInv, RecoverWrite
  <2> QED
    BY <2>1, <2>2
<1>4. clean' \in BOOLEAN
  BY DEF RecoverWrite, IInv, SharedOK
<1>5. SharedOK'
  BY <1>2, <1>3, <1>4 DEF IInv, SharedOK, RecoverWrite, envVars
<1> QED
  BY <1>1, <1>2, <1>5 DEF IInv

LEMMA DetectFailInv ==
  ASSUME IInv, NEW t \in Threads, DetectFail(t)
  PROVE  IInv'
<1>1. rec[t] # 0 /\ Release(t, FALSE)
  <2>1. rec[t] # 0
    BY DEF DetectFail, Detecting, WriteCount
  <2>2. Release(t, FALSE)
    BY DEF DetectFail
  <2> QED
    BY <2>1, <2>2
<1>2. /\ ThreadsOK' /\ LockOK' /\ mutex_' = NoThread
      /\ tries' \in [Threads -> Nat] /\ rec' \in [Threads -> 0 .. Retrying]
  BY <1>1, ReleaseInv DEF IInv
<1>3. diagnostics_' \in Counters
  BY CountFailureType DEF IInv, SharedOK, DetectFail
<1>4. i2c_fd' \in BOOLEAN /\ clean' \in BOOLEAN
  BY DEF DetectFail, CleanAfter
<1>5. UNCHANGED <<bus, outages, powerCycles, calls, chip, cache, file>>
  BY DEF DetectFail, envVars
<1>6. SharedOK'
  BY <1>2, <1>3, <1>4, <1>5 DEF IInv, SharedOK
<1> QED
  BY <1>2, <1>6 DEF IInv

LEMMA RecoverFailInv ==
  ASSUME IInv, NEW t \in Threads, RecoverFail(t)
  PROVE  IInv'
<1>1. rec[t] # 0 /\ Release(t, FALSE)
  <2>1. rec[t] # 0
    BY DEF RecoverFail, AtWrite, WriteCount
  <2>2. Release(t, FALSE)
    BY DEF RecoverFail
  <2> QED
    BY <2>1, <2>2
<1>2. /\ ThreadsOK' /\ LockOK' /\ mutex_' = NoThread
      /\ tries' \in [Threads -> Nat] /\ rec' \in [Threads -> 0 .. Retrying]
  BY <1>1, ReleaseInv DEF IInv
<1>3. diagnostics_' \in Counters
  BY CountFailureType DEF IInv, SharedOK, RecoverFail
<1>4. chip' \in Chip
  BY RecoveredType DEF IInv, SharedOK, RecoverFail
<1>5. clean' \in BOOLEAN /\ UNCHANGED <<bus, outages, powerCycles, calls, cache, file, i2c_fd>>
  BY DEF RecoverFail, envVars
<1>6. SharedOK'
  BY <1>2, <1>3, <1>4, <1>5 DEF IInv, SharedOK
<1> QED
  BY <1>2, <1>6 DEF IInv

LEMMA RetryInv ==
  ASSUME IInv, NEW t \in Threads, RetryOk(t) \/ RetryFail(t)
  PROVE  IInv'
<1>1. rec[t] # 0 /\ (\E ok \in BOOLEAN : Release(t, ok))
  <2>a. rec[t] = Retrying
    BY DEF RetryOk, RetryFail
  <2>1. rec[t] # 0
    BY <2>a DEF Retrying, WriteCount
  <2>2. Release(t, TRUE) \/ Release(t, FALSE)
    BY DEF RetryOk, RetryFail
  <2> QED
    BY <2>1, <2>2
<1>2. /\ ThreadsOK' /\ LockOK' /\ mutex_' = NoThread
      /\ tries' \in [Threads -> Nat] /\ rec' \in [Threads -> 0 .. Retrying]
  BY <1>1, ReleaseInv DEF IInv
<1>3. diagnostics_' \in Counters
  BY CountFailureType DEF IInv, SharedOK, RetryOk, RetryFail
<1>4. chip' \in Chip
  <2>1. pc[t] \in IOLabels
    BY <1>1 DEF IInv, LockOK
  <2> QED
    BY <2>1, PerformedType DEF IInv, SharedOK, RetryOk, RetryFail
<1>5. clean' \in BOOLEAN /\ UNCHANGED <<bus, outages, powerCycles, calls, cache, file, i2c_fd>>
  BY DEF RetryOk, RetryFail, CleanAfter, envVars
<1>6. SharedOK'
  BY <1>2, <1>3, <1>4, <1>5 DEF IInv, SharedOK
<1> QED
  BY <1>2, <1>6 DEF IInv

LEMMA TransactInv ==
  ASSUME IInv, NEW t \in Threads, Transact(t)
  PROVE  IInv'
BY AttemptOkInv, AttemptFailInv, RefreshInv, StartReconnectInv, DetectInv, DetectFailInv,
   RecoverWriteInv, RecoverFailInv, RetryInv DEF Transact

LEMMA EnvironmentInv ==
  ASSUME IInv, Environment
  PROVE  IInv'
<1>1. ThreadsOK' /\ LockOK'
  BY DEF IInv, Environment, BusFails, BusHeals, PowerCycle, SelfCalibrate, threadVars, ioVars,
         ThreadsOK, ControlOK, LockOK
<1>2. chip' \in Chip
  <2>1. PowerOn \in Chip
    BY DEF PowerOn, Chip, Mode, AxisMap, Sign, Switch, Offsets, Tuning
  <2>2. \A p \in Profiles : [chip EXCEPT !.offs = p] \in Chip
    BY DEF IInv, SharedOK, Chip, Offsets
  <2> QED
    BY <2>1, <2>2 DEF IInv, SharedOK, Environment, BusFails, BusHeals, PowerCycle, SelfCalibrate
<1>3. SharedOK'
  <2>1. /\ bus' \in BOOLEAN /\ clean' \in BOOLEAN
        /\ outages' \in Nat /\ powerCycles' \in Nat
    <3>1. CASE BusFails
      <4>1. bus' \in BOOLEAN /\ clean' \in BOOLEAN
        BY <3>1, Zenon DEF IInv, SharedOK, BusFails
      <4>2. outages' \in Nat /\ powerCycles' \in Nat
        BY <3>1, SMT DEF IInv, SharedOK, BusFails
      <4> QED
        BY <4>1, <4>2
    <3>2. CASE BusHeals
      <4>1. bus' = TRUE /\ clean' = clean /\ outages' = outages /\ powerCycles' = powerCycles
        BY <3>2 DEF BusHeals
      <4> QED
        BY <4>1 DEF IInv, SharedOK
    <3>3. CASE PowerCycle
      <4>1. bus' \in BOOLEAN /\ clean' \in BOOLEAN
        BY <3>3, Zenon DEF IInv, SharedOK, PowerCycle
      <4>2. outages' \in Nat /\ powerCycles' \in Nat
        BY <3>3, SMT DEF IInv, SharedOK, PowerCycle
      <4> QED
        BY <4>1, <4>2
    <3>4. CASE SelfCalibrate
      <4>1. UNCHANGED <<bus, clean, outages, powerCycles>>
        BY <3>4 DEF SelfCalibrate, envVars
      <4> QED
        BY <4>1 DEF IInv, SharedOK
    <3> QED
      BY <3>1, <3>2, <3>3, <3>4 DEF Environment
  <2>2. UNCHANGED <<calls, cache, file, ioVars>>
    BY DEF Environment, BusFails, BusHeals, PowerCycle, SelfCalibrate
  <2> QED
    BY <1>2, <2>1, <2>2 DEF IInv, SharedOK, ioVars
<1> QED
  BY <1>1, <1>3 DEF IInv

LEMMA StutterInv ==
  ASSUME IInv, UNCHANGED vars
  PROVE  IInv'
BY DEF IInv, SharedOK, ThreadsOK, ControlOK, LockOK, vars, envVars, threadVars, ioVars

\* Every step of the driver and its environment preserves the invariant.
THEOREM InvariantHolds == Spec => []IInv
<1>1. IInv /\ [Next]_vars => IInv'
  BY InvokeInv, ComputeInv, TransactInv, EnvironmentInv, StutterInv DEF Next, Step, Exhausted
<1> QED
  BY InvariantInit, <1>1, PTL DEF Spec

\* The variables stay in their domains, for any threads, workloads, register
\* values, retry limits and outages: in particular the recovery never writes a
\* value into the chip that is not a setting, although it reads the cache
\* without the setters' cooperation (write8, reconnect of bno055.cpp).
THEOREM TypeCorrect == Spec => []TypeOK
BY InvariantHolds, InvariantType, PTL

\* reconnect() runs in one thread at a time, the one that holds mutex_.
THEOREM RecoveryExcludes ==
  Spec => [](\A t, u \in Threads : Recovering(t) /\ Recovering(u) => t = u)
<1>1. IInv => (\A t, u \in Threads : Recovering(t) /\ Recovering(u) => t = u)
  BY DEF IInv, LockOK, Recovering
<1> QED
  BY InvariantHolds, <1>1, PTL
-----------------------------------------------------------------------------
(* The mode the application asked for.                                      *)

\* Outside begin() and the detour through CONFIG mode mode_ is the mode that was
\* asked for; inside, the call still holds it: begin() in its argument, the detour
\* in prev, setMode in its parameter.
Held(l, f, mode, asked) ==
  LET op == f.call.op
      at == At(l, f)
  IN IF op \in Readers \cup {"none"}
     THEN l \in {"idle", "body", "diag"} /\ mode = asked
     ELSE /\ op \notin {"reset"} \cup PowerOps
          /\ at \in BeginLabels => f.call.arg = asked
          /\ at \in {"body", "xtal"} => f.saved = asked
          /\ at \notin BeginLabels \cup {"body", "xtal"} =>
               asked = IF l = "assign" THEN f.target ELSE mode

\* A thread that only reads.
Aside(l, f) == f.call.op \in Readers \cup {"none"} /\ l \in {"idle", "body", "diag"}

KInv(c) ==
  /\ Held(pc[c], frame[c], cache.opr, requested)
  /\ \A t \in Threads \ {c} : Aside(pc[t], frame[t])

\* The other threads make no call but reads.
OthersRead(c) ==
  \A t \in Threads \ {c} :
    Startup[t] = {} /\ \A k \in Workload[t] : k.op \in Readers

\* One thread begins and configures, without reset() and the power modes.
OneConfigures(c) ==
  OthersRead(c) /\ \A k \in Workload[c] : k.op \notin {"reset"} \cup PowerOps

LEMMA KeptWhenSettled ==
  ASSUME NEW c \in Threads, KInv(c), ThreadsOK
  PROVE  ModeKept
<1> SUFFICES ASSUME Settled PROVE cache.opr = requested
  BY DEF ModeKept
<1>1. pc[c] = "idle" \/ frame[c].call.op \in Readers
  BY DEF Settled, Op
<1>2. pc[c] = "idle" => At(pc[c], frame[c]) \notin BeginLabels \cup {"body", "xtal"}
  BY DEF At, BeginLabels, Polls
<1> QED
  BY <1>1, <1>2 DEF KInv, Held

LEMMA KeptInit ==
  ASSUME NEW c \in Threads, Init
  PROVE  KInv(c)
BY DEF Init, KInv, Held, Aside, EmptyFrame, NoCall

\* The configuring thread moves.
LEMMA KeptMove ==
  ASSUME NEW c \in Threads, ThreadsOK, KInv(c), NEW l, NEW f \in Frames,
         pc' = [pc EXCEPT ![c] = l], Update(c, f),
         Held(l, f, cache'.opr, requested')
  PROVE  KInv(c)'
<1>1. /\ \A u \in Threads \ {c} : frame'[u] = frame[u]
      /\ frame'[c] = f
  BY Updated DEF ThreadsOK
<1>2. pc'[c] = l /\ \A u \in Threads \ {c} : pc'[u] = pc[u]
  BY DEF ThreadsOK
<1>3. Held(pc'[c], frame'[c], cache'.opr, requested')
  BY <1>1, <1>2
<1>4. \A t \in Threads \ {c} : Aside(pc'[t], frame'[t])
  BY <1>1, <1>2 DEF KInv
<1> QED
  BY <1>3, <1>4 DEF KInv

LEMMA KeptGoto ==
  ASSUME NEW c \in Threads, ThreadsOK, KInv(c), NEW l,
         Goto(c, l), Held(l, frame[c], cache'.opr, requested)
  PROVE  KInv(c)'
<1>1. frame' = frame /\ requested' = requested
  BY DEF Goto
<1>2. pc'[c] = l /\ \A u \in Threads \ {c} : pc'[u] = pc[u]
  BY DEF ThreadsOK, Goto
<1>3. Held(pc'[c], frame'[c], cache'.opr, requested')
  BY <1>1, <1>2
<1>4. \A t \in Threads \ {c} : Aside(pc'[t], frame'[t])
  BY <1>1, <1>2 DEF KInv
<1> QED
  BY <1>3, <1>4 DEF KInv

\* A call that returns leaves the mode that was asked for, and a begin() that
\* returns false has asked for none.
LEMMA KeptFinish ==
  ASSUME NEW c \in Threads, ThreadsOK, KInv(c), NEW ok \in BOOLEAN,
         Finish(c, ok), cache'.opr = cache.opr,
         (Op(c) = "begin" /\ ~ok) \/ cache.opr = requested
  PROVE  KInv(c)'
<1>1. EmptyFrame \in Frames
  BY BoundsAssumption DEF EmptyFrame, Frames, NoCall, Labels, Mode
<1>2. Held("idle", EmptyFrame, cache'.opr, requested')
  BY DEF Finish, Held, EmptyFrame, NoCall
<1> QED
  BY <1>1, <1>2, KeptMove DEF Finish

\* setMode entered with the mode that was asked for, on the way out of a call.
LEMMA KeptSetMode ==
  ASSUME NEW c \in Threads, ThreadsOK, KInv(c), NEW m \in Mode, NEW l \in {"idle", "fread"},
         SetMode(c, m, l), m = requested, cache'.opr = cache.opr,
         frame[c].call.op \notin Readers \cup PowerOps \cup {"none", "reset"}
  PROVE  KInv(c)'
<1> DEFINE f == [frame[c] EXCEPT !.target = m, !.ret = l]
<1>1. frame[c] \in Frames /\ l \in RetField
  BY DEF ThreadsOK, RetField, Labels
<1>2. f \in Frames /\ f.call = frame[c].call /\ f.target = m /\ f.ret = l
  BY <1>1, FrameFields
<1>3. /\ Update(c, f)
      /\ pc' = [pc EXCEPT ![c] = "assign"]
      /\ requested' = requested
  BY DEF SetMode
<1> HIDE DEF f
<1>4. Held("assign", f, cache'.opr, requested')
  BY <1>2, <1>3 DEF Held, At, BeginLabels, Polls
<1> QED
  BY <1>2, <1>3, <1>4, KeptMove

\* What Held says of a call that is configuring the chip.
LEMMA HeldHere ==
  ASSUME NEW c \in Threads, ThreadsOK, KInv(c)
  PROVE  LET f == frame[c]
             op == f.call.op
             at == At(pc[c], f)
         IN /\ op \notin {"reset"} \cup PowerOps
            /\ op \in Readers \cup {"none"} => pc[c] \in {"idle", "body", "diag"}
            /\ op \in Restarts => op = "begin"
            /\ at \in BeginLabels => f.call.arg = requested
            /\ at = "xtal" => f.saved = requested
            /\ at = "body" /\ op \notin Readers => f.saved = requested
            /\ pc[c] \in {"idle", "cache", "save", "copy", "store", "fopen", "fwrite", "fread", "diag"}
                 => cache.opr = requested
            /\ pc[c] = "body" /\ op \in Readers => cache.opr = requested
<1>1. Held(pc[c], frame[c], cache.opr, requested) /\ Good(pc[c], frame[c])
  BY DEF KInv, ThreadsOK, ControlOK
<1>2. frame[c].call.op \in Readers \cup {"none"} =>
        /\ frame[c].call.op \notin {"reset"} \cup PowerOps \cup Restarts
        /\ At(pc[c], frame[c]) = pc[c]
  BY <1>1 DEF Held, At, Readers, PowerOps, Restarts
<1>3. frame[c].call.op \notin {"reset"} \cup PowerOps
  BY <1>1, <1>2 DEF Held
<1>4. frame[c].call.op \in Restarts => frame[c].call.op = "begin"
  BY <1>3 DEF Restarts
<1>5. /\ At(pc[c], frame[c]) \in BeginLabels => frame[c].call.arg = requested
      /\ At(pc[c], frame[c]) = "xtal" => frame[c].saved = requested
      /\ At(pc[c], frame[c]) = "body" /\ frame[c].call.op \notin Readers => frame[c].saved = requested
  <2>1. "body" \notin BeginLabels /\ "xtal" \notin BeginLabels
    BY DEF BeginLabels, Polls
  <2>2. frame[c].call.op = "none" => At(pc[c], frame[c]) \notin BeginLabels \cup {"xtal", "body"}
    BY <1>1 DEF Good, Restarts, Remaps, Uploaders, Fetchers, Readers
  <2>3. frame[c].call.op \in Readers => At(pc[c], frame[c]) \notin BeginLabels \cup {"xtal"}
    BY <1>1 DEF Good, Restarts, Readers
  <2> QED
    BY <1>1, <2>1, <2>2, <2>3 DEF Held
<1>6. pc[c] \in {"idle", "cache", "save", "copy", "store", "fopen", "fwrite", "fread", "diag"}
        => cache.opr = requested
  <2>1. \A l \in {"idle", "cache", "save", "copy", "store", "fopen", "fwrite", "fread", "diag"} :
          l \notin BeginLabels \cup {"body", "xtal", "assign", "wrmode"}
    BY DEF BeginLabels, Polls
  <2> QED
    BY <1>1, <2>1 DEF Held, At
<1> QED
  BY <1>1, <1>2, <1>3, <1>4, <1>5, <1>6 DEF Held

\* Readers move aside of the configuring thread.
LEMMA AsideMove ==
  ASSUME NEW c \in Threads, ThreadsOK, KInv(c), NEW t \in Threads \ {c}, NEW l, NEW f \in Frames,
         pc' = [pc EXCEPT ![t] = l], Update(t, f), Aside(l, f),
         cache'.opr = cache.opr, requested' = requested
  PROVE  KInv(c)'
<1>1. /\ \A u \in Threads \ {t} : frame'[u] = frame[u] /\ pc'[u] = pc[u]
      /\ frame'[t] = f /\ pc'[t] = l
  BY Updated DEF ThreadsOK
<1>2. ASSUME NEW u \in Threads \ {c} PROVE Aside(pc'[u], frame'[u])
  BY <1>1 DEF KInv
<1>3. Held(pc'[c], frame'[c], cache'.opr, requested')
  BY <1>1 DEF KInv
<1> QED
  BY <1>2, <1>3 DEF KInv

\* The application's next call.
LEMMA InvokeKept ==
  ASSUME NEW c \in Threads, OneConfigures(c), IInv, KInv(c), NEW t \in Threads, Invoke(t), IInv'
  PROVE  KInv(c)'
<1>0. ThreadsOK /\ cache' = cache
  BY DEF IInv, Invoke
<1> PICK k \in (IF calls = 0 THEN Startup[t] ELSE Workload[t]) :
      LET arg == IF k.op = "reset" THEN cache.opr ELSE k.arg IN
      /\ Update(t,
           [call |-> [op |-> k.op, arg |-> arg], saved |-> "Config",
            target |-> IF k.op = "setMode" THEN arg ELSE "Config",
            ret |-> IF k.op = "enterSuspendMode" THEN "power" ELSE "idle",
            polls |-> 0,
            data |-> IF k.op = "setSensorOffsets" THEN arg ELSE "none"])
      /\ pc' = [pc EXCEPT ![t] = Entry(k.op)]
      /\ requested' = IF k.op \in {"setMode", "begin"} THEN arg ELSE requested
  BY DEF Invoke
<1> DEFINE arg == IF k.op = "reset" THEN cache.opr ELSE k.arg
           f == [call |-> [op |-> k.op, arg |-> arg], saved |-> "Config",
                 target |-> IF k.op = "setMode" THEN arg ELSE "Config",
                 ret |-> IF k.op = "enterSuspendMode" THEN "power" ELSE "idle",
                 polls |-> 0,
                 data |-> IF k.op = "setSensorOffsets" THEN arg ELSE "none"]
<1>1. /\ Update(t, f)
      /\ f.call.op = k.op /\ f.call.arg = arg
      /\ f.target = IF k.op = "setMode" THEN arg ELSE "Config"
      /\ f.ret = IF k.op = "enterSuspendMode" THEN "power" ELSE "idle"
  OBVIOUS
<1>2. requested' = IF k.op \in {"setMode", "begin"} THEN arg ELSE requested
  OBVIOUS
<1> HIDE DEF arg, f
<1>3. f \in Frames
  <2>1. frame'[t] = f /\ frame' \in [Threads -> Frames]
    BY <1>0, <1>1 DEF IInv, ThreadsOK, Update
  <2> QED
    BY <2>1
<1>4. k \in Call /\ (calls = 0 => k.op = "begin")
  BY WorkloadAssumption DEF Call, Restarts
<1>5. CASE t = c
  <2>0. cache.opr = requested
    BY <1>0, <1>5, HeldHere DEF Invoke
  <2>1. k.op \notin {"reset"} \cup PowerOps
    BY <1>4, <1>5 DEF OneConfigures, PowerOps
  <2>2. k.op \in {"setMode", "begin", "setSensorOffsets", "loadCalibrationFile"}
                   \cup Remaps \cup Readers \cup Fetchers
    BY <1>4, <2>1 DEF Call, Remaps, Restarts, Readers, Fetchers, PowerOps
  <2>3. f.ret = "idle"
    BY <1>1, <2>1 DEF PowerOps
  <2>4. Held(Entry(k.op), f, cache.opr, requested')
    <3>1. CASE k.op = "setMode"
      <4>1. Entry(k.op) = "assign" /\ f.target = requested'
        BY <1>1, <1>2, <3>1 DEF Entry, Restarts, Remaps, Fetchers
      <4> QED
        BY <1>1, <2>3, <3>1, <4>1 DEF Held, At, BeginLabels, Polls, Readers, PowerOps
    <3>2. CASE k.op = "begin"
      <4>1. Entry(k.op) = "open" /\ f.call.arg = requested'
        BY <1>1, <1>2, <3>2 DEF Entry, Restarts, Remaps, Fetchers
      <4> QED
        BY <1>1, <3>2, <4>1 DEF Held, At, BeginLabels, Readers, PowerOps
    <3>3. CASE k.op \in Readers
      <4>1. Entry(k.op) \in {"body", "diag"} /\ requested' = requested
        BY <1>2, <3>3 DEF Entry, Restarts, Remaps, Fetchers, Readers
      <4> QED
        BY <1>1, <2>0, <3>3, <4>1 DEF Held
    <3>4. CASE k.op \in {"setSensorOffsets", "loadCalibrationFile"} \cup Remaps \cup Fetchers
      <4>1. Entry(k.op) \in {"cache", "copy", "save", "fread"}
        BY <3>4 DEF Entry, Restarts, Remaps, Fetchers
      <4>2. k.op \notin Readers \cup {"none", "setMode", "begin"}
        BY <3>4 DEF Remaps, Fetchers, Readers
      <4> QED
        BY <1>1, <1>2, <2>0, <2>1, <4>1, <4>2 DEF Held, At, BeginLabels, Polls
    <3> QED
      BY <2>2, <3>1, <3>2, <3>3, <3>4
  <2> QED
    BY <1>0, <1>1, <1>3, <1>5, <2>4, KeptMove
<1>6. CASE t # c
  <2>1. k.op \in Readers
    BY <1>6 DEF OneConfigures, OthersRead
  <2>2. Entry(k.op) \in {"body", "diag"} /\ requested' = requested
    BY <1>2, <2>1 DEF Entry, Restarts, Remaps, Fetchers, Readers
  <2>3. Aside(Entry(k.op), f)
    BY <1>1, <2>1, <2>2 DEF Aside
  <2> QED
    BY <1>0, <1>1, <1>3, <1>6, <2>2, <2>3, AsideMove
<1> QED
  BY <1>5, <1>6

\* A reader moves itself and nothing that configures the chip.
LEMMA ReaderStep ==
  ASSUME IInv, NEW t \in Threads, Aside(pc[t], frame[t]), Step(t)
  PROVE  /\ Aside(pc'[t], frame'[t])
         /\ \A u \in Threads \ {t} : pc'[u] = pc[u] /\ frame'[u] = frame[u]
         /\ cache' = cache /\ requested' = requested /\ calls' = calls
<1>0. ThreadsOK
  BY DEF IInv
<1> DEFINE Here == /\ Aside(pc'[t], frame'[t]) /\ requested' = requested
                   /\ \A u \in Threads \ {t} : pc'[u] = pc[u] /\ frame'[u] = frame[u]
<1>1. ASSUME NEW ok \in BOOLEAN, Finish(t, ok)
      PROVE  Here
  <2>1. EmptyFrame \in Frames /\ Aside("idle", EmptyFrame)
    BY BoundsAssumption DEF EmptyFrame, Frames, NoCall, Labels, Mode, Aside
  <2>2. requested' = requested
    BY <1>0, <1>1 DEF Finish, Aside, Op, Readers
  <2>3. frame'[t] = EmptyFrame /\ \A u \in Threads \ {t} : frame'[u] = frame[u]
    BY <1>0, <1>1, <2>1, Updated DEF ThreadsOK, Finish
  <2>4. pc'[t] = "idle" /\ \A u \in Threads \ {t} : pc'[u] = pc[u]
    BY <1>0, <1>1 DEF ThreadsOK, Finish
  <2> QED
    BY <2>1, <2>2, <2>3, <2>4
<1>2. ASSUME NEW ok \in BOOLEAN, AfterIO(t, ok)
      PROVE  Finish(t, ok)
  <2>1. pc[t] = "body" /\ AfterBody(t, ok)
    BY <1>0, <1>2 DEF Aside, AfterIO, Polls, BeginNext
  <2> QED
    BY <1>0, <2>1 DEF AfterBody, Aside, Op, Readers, Uploaders, Restarts, Fetchers
<1>3. CASE Compute(t)
  <2>1. ReadDiagnostics(t)
    BY <1>0, <1>3 DEF Aside, Compute, OpenDevice, AssignMode, SavePrev, CacheSetting, CopyOffsets,
                      StoreOffsets, OpenFile, WriteFile, ReadFile
  <2> QED
    BY <1>1, <2>1 DEF ReadDiagnostics
<1>4. CASE Transact(t)
  <2>1. cache' = cache /\ calls' = calls
    BY <1>4 DEF Transact, AttemptOk, AttemptFail, RefreshOk, RefreshFail, StartReconnect, Detect,
                DetectFail, RecoverWrite, RecoverFail, RetryOk, RetryFail
  <2>2. (\E ok \in BOOLEAN : AfterIO(t, ok)) \/ UNCHANGED threadVars
    BY <1>4 DEF Transact, AttemptOk, AttemptFail, RefreshOk, RefreshFail, StartReconnect, Detect,
                DetectFail, RecoverWrite, RecoverFail, RetryOk, RetryFail, Release
  <2>3. CASE UNCHANGED threadVars
    BY <2>1, <2>3 DEF threadVars
  <2> QED
    BY <1>1, <1>2, <2>1, <2>2, <2>3
<1> QED
  BY <1>3, <1>4 DEF Step

\* A reader's step.
LEMMA ReaderKept ==
  ASSUME NEW c \in Threads, IInv, KInv(c), NEW t \in Threads \ {c}, Step(t)
  PROVE  KInv(c)'
<1>1. /\ Aside(pc'[t], frame'[t])
      /\ \A u \in Threads \ {t} : pc'[u] = pc[u] /\ frame'[u] = frame[u]
      /\ cache' = cache /\ requested' = requested
  BY ReaderStep DEF KInv
<1>2. \A u \in Threads \ {c} : Aside(pc'[u], frame'[u])
  BY <1>1 DEF KInv
<1> QED
  BY <1>1, <1>2 DEF KInv

\* The configuring thread's own steps outside the transactions.
LEMMA ComputeKept ==
  ASSUME NEW c \in Threads, IInv, KInv(c), Compute(c)
  PROVE  KInv(c)'
<1>0. ThreadsOK /\ cache \in CacheType
  BY DEF IInv, SharedOK
<1>h. /\ Op(c) \notin {"reset"} \cup PowerOps
      /\ Op(c) \in Readers \cup {"none"} => pc[c] \in {"idle", "body", "diag"}
      /\ Op(c) \in Restarts => Op(c) = "begin"
      /\ pc[c] \in {"idle", "cache", "save", "copy", "store", "fopen", "fwrite", "fread", "diag"}
           => cache.opr = requested
  BY <1>0, HeldHere DEF Op
<1>n. \A l \in {"cache", "save", "copy", "store", "fopen", "fwrite", "fread", "idle"} :
        l \notin BeginLabels \cup {"body", "xtal", "assign", "wrmode"}
  BY DEF BeginLabels, Polls
<1>1. ASSUME OpenDevice(c) PROVE KInv(c)'
  <2>1. pc[c] = "open" /\ cache' = cache
    BY <1>1 DEF OpenDevice
  <2>2. Op(c) = "begin" /\ frame[c].call.arg = requested
    BY <1>0, <1>h, <2>1, HeldHere, HereGood DEF Good, At, Op, BeginLabels
  <2>3. Held("bdetect", frame[c], cache.opr, requested)
    BY <2>2 DEF Held, At, Op, BeginLabels, Polls, Readers, PowerOps
  <2> QED
    BY <1>0, <1>1, <2>1, <2>2, <2>3, KeptGoto, KeptFinish DEF OpenDevice
<1>2. ASSUME AssignMode(c) PROVE KInv(c)'
  <2>1. pc[c] = "assign" /\ cache'.opr = frame[c].target /\ Goto(c, "wrmode")
    BY <1>0, <1>2 DEF AssignMode, CacheType
  <2>2. Held("wrmode", frame[c], frame[c].target, requested)
    BY <1>h, <2>1 DEF KInv, Held, At, Op
  <2> QED
    BY <1>0, <2>1, <2>2, KeptGoto
<1>3. ASSUME SavePrev(c) PROVE KInv(c)'
  <2> DEFINE f == [frame[c] EXCEPT !.saved = cache.opr, !.target = "Config", !.ret = "body"]
  <2>1. /\ pc[c] = "save" /\ Update(c, f) /\ cache' = cache /\ requested' = requested
        /\ pc' = [pc EXCEPT ![c] = "assign"]
    BY <1>h, <1>3 DEF SavePrev, PowerOps
  <2>2. cache.opr \in Mode /\ "Config" \in Mode /\ "body" \in RetField
    BY <1>0 DEF CacheType, Mode, RetField, Labels, IOLabels
  <2>3. f \in Frames /\ f.call = frame[c].call /\ f.saved = cache.opr /\ f.ret = "body"
    BY <1>0, <2>2, HereGood, FrameFields
  <2> HIDE DEF f
  <2>4. Held("assign", f, cache'.opr, requested')
    BY <1>h, <2>1, <2>3 DEF Held, At, Op, BeginLabels, Polls
  <2> QED
    BY <1>0, <2>1, <2>3, <2>4, KeptMove
<1>g. ASSUME NEW l \in {"save", "store", "fopen", "fwrite"}, Goto(c, l),
             pc[c] \in {"cache", "copy", "store", "fopen"}, cache'.opr = cache.opr
      PROVE  KInv(c)'
  <2>1. Held(l, frame[c], cache.opr, requested)
    BY <1>h, <1>n, <1>g DEF Held, At, Op
  <2> QED
    BY <1>0, <1>g, <2>1, KeptGoto
<1>4. ASSUME CacheSetting(c) PROVE KInv(c)'
  <2>1. pc[c] = "cache" /\ cache'.opr = cache.opr /\ Goto(c, "save")
    BY <1>0, <1>4 DEF CacheSetting, CacheType
  <2> QED
    BY <1>g, <2>1
<1>5. ASSUME CopyOffsets(c) PROVE KInv(c)'
  <2>1. pc[c] = "copy" /\ cache'.opr = cache.opr /\ Goto(c, "store")
    BY <1>0, <1>5 DEF CopyOffsets, CacheType
  <2> QED
    BY <1>g, <2>1
<1>6. ASSUME StoreOffsets(c) PROVE KInv(c)'
  <2> DEFINE l == CASE Op(c) \in Uploaders         -> "save"
                    [] Op(c) = "saveCalibrationFile" -> "fopen"
                    [] OTHER                       -> "idle"
  <2>1. pc[c] = "store" /\ cache'.opr = cache.opr /\ Resume(c, l)
    BY <1>0, <1>6 DEF StoreOffsets, CacheType
  <2>2. l \in {"save", "fopen", "idle"}
    BY DEF Uploaders, Restarts
  <2> HIDE DEF l
  <2>3. (Goto(c, l) /\ l \in {"save", "fopen"}) \/ Finish(c, TRUE)
    BY <2>1, <2>2 DEF Resume
  <2> QED
    BY <1>0, <1>g, <1>h, <2>1, <2>3, KeptFinish
<1>7. ASSUME OpenFile(c) PROVE KInv(c)'
  <2>1. pc[c] = "fopen" /\ cache' = cache /\ (Goto(c, "fwrite") \/ Finish(c, FALSE))
    BY <1>7 DEF OpenFile
  <2> QED
    BY <1>0, <1>g, <1>h, <2>1, KeptFinish
<1>8. ASSUME WriteFile(c) PROVE KInv(c)'
  BY <1>0, <1>8, <1>h, KeptFinish DEF WriteFile
<1>9. ASSUME ReadFile(c) PROVE KInv(c)'
  <2>1. pc[c] = "fread" /\ cache' = cache /\ cache.opr = requested
    BY <1>9, <1>h DEF ReadFile
  <2>2. CASE /\ file \in Offsets /\ Update(c, [frame[c] EXCEPT !.data = file])
             /\ pc' = [pc EXCEPT ![c] = "copy"] /\ requested' = requested
    <3> DEFINE f == [frame[c] EXCEPT !.data = file]
    <3>1. f \in Frames /\ f.call = frame[c].call /\ Update(c, f)
      BY <1>0, <2>2, HereGood, FrameFields DEF DataField
    <3> HIDE DEF f
    <3>2. Held("copy", f, cache'.opr, requested')
      BY <1>h, <1>n, <2>1, <2>2, <3>1 DEF Held, At, Op
    <3> QED
      BY <1>0, <2>2, <3>1, <3>2, KeptMove
  <2>3. CASE \E ok \in BOOLEAN : Finish(c, ok)
    BY <1>0, <2>1, <2>3, KeptFinish
  <2> DEFINE ok == Op(c) \in Restarts
  <2>4. ok \in BOOLEAN
    OBVIOUS
  <2>5. \/ /\ file \in Offsets /\ Update(c, [frame[c] EXCEPT !.data = file])
           /\ pc' = [pc EXCEPT ![c] = "copy"] /\ UNCHANGED <<result, requested>>
        \/ Finish(c, ok)
    BY <1>9 DEF ReadFile
  <2> HIDE DEF ok
  <2> QED
    BY <2>2, <2>3, <2>4, <2>5
<1>10. ASSUME ReadDiagnostics(c) PROVE KInv(c)'
  BY <1>0, <1>10, <1>h, KeptFinish DEF ReadDiagnostics
<1> QED
  BY <1>1, <1>2, <1>3, <1>4, <1>5, <1>6, <1>7, <1>8, <1>9, <1>10 DEF Compute

\* The configuring thread's transaction returns.
LEMMA AfterIOKept ==
  ASSUME NEW c \in Threads, IInv, KInv(c), NEW ok \in BOOLEAN, AfterIO(c, ok), cache' = cache
  PROVE  KInv(c)'
<1>0. ThreadsOK /\ frame[c] \in Frames /\ frame[c].saved \in Mode /\ Good(pc[c], frame[c])
  BY DEF IInv, ThreadsOK, ControlOK, Frames
<1>h. /\ Op(c) \notin {"reset"} \cup PowerOps
      /\ Op(c) \in Readers \cup {"none"} => pc[c] \in {"idle", "body", "diag"}
      /\ Op(c) \in Restarts => Op(c) = "begin"
      /\ pc[c] = "body" /\ Op(c) \in Readers => cache.opr = requested
      /\ pc[c] \in BeginLabels => frame[c].call.arg = requested
      /\ pc[c] = "xtal" => frame[c].saved = requested
      /\ pc[c] = "body" /\ Op(c) \notin Readers => frame[c].saved = requested
  <2>1. pc[c] \in BeginLabels \cup {"xtal", "body"} => At(pc[c], frame[c]) = pc[c]
    BY DEF At, BeginLabels, Polls
  <2> QED
    BY <1>0, <2>1, HeldHere DEF Op
<1>b. pc[c] \in BeginLabels => Op(c) = "begin"
  <2>1. pc[c] \in BeginLabels => At(pc[c], frame[c]) = pc[c]
    BY DEF At, BeginLabels, Polls
  <2> QED
    BY <1>0, <1>h, <2>1 DEF Good, Op
<1>m. ASSUME NEW l \in {"idle", "fread"}, NEW m \in Mode, m = requested, SetMode(c, m, l),
             Op(c) \notin Readers \cup {"none"}
      PROVE  KInv(c)'
  BY <1>0, <1>h, <1>m, KeptSetMode DEF Op
<1>g. ASSUME NEW l \in BeginLabels \ {"open"}, Goto(c, l), pc[c] \in BeginLabels
      PROVE  KInv(c)'
  <2>1. Held(l, frame[c], cache'.opr, requested)
    BY <1>b, <1>g, <1>h DEF Held, At, Op, BeginLabels, Polls, Readers, PowerOps
  <2> QED
    BY <1>0, <1>g, <2>1, KeptGoto
<1>1. CASE pc[c] = "wrmode" /\ Resume(c, frame[c].ret)
  <2> DEFINE l == frame[c].ret
  <2>1. Held("wrmode", frame[c], cache.opr, requested) /\ l \notin {"assign", "wrmode"}
        /\ Op(c) \notin Readers \cup {"none"}
    BY <1>0, <1>1, <1>h DEF KInv, Good
  <2>2. CASE l \in {"idle", "fail"}
    <3>1. cache.opr = requested
      BY <2>1, <2>2 DEF Held, At, Op, BeginLabels, Polls
    <3>2. Finish(c, TRUE) \/ Finish(c, FALSE)
      BY <1>1, <2>2 DEF Resume
    <3> QED
      BY <1>0, <3>1, <3>2, KeptFinish
  <2>3. CASE l \notin {"idle", "fail"}
    <3>1. Goto(c, l)
      BY <1>1, <2>3 DEF Resume
    <3>2. Held(l, frame[c], cache'.opr, requested)
      BY <2>1 DEF Held, At, Op
    <3> QED
      BY <1>0, <3>1, <3>2, KeptGoto
  <2> QED
    BY <2>2, <2>3
<1>2. CASE pc[c] = "body" /\ AfterBody(c, ok)
  <2>1. CASE Op(c) \in Readers /\ Finish(c, ok)
    BY <1>0, <1>2, <1>h, <2>1, KeptFinish
  <2>2. CASE Op(c) = "setExtCrystalUse" /\ Goto(c, "xtal")
    <3>1. Held("xtal", frame[c], cache'.opr, requested)
      BY <1>2, <1>h, <2>2 DEF Held, At, Op, BeginLabels, Polls, Readers, PowerOps
    <3> QED
      BY <1>0, <2>2, <3>1, KeptGoto
  <2>3. CASE Op(c) \in Uploaders \cup {"setAxisRemap", "setAxisSign"}
             /\ SetMode(c, frame[c].saved, "idle")
    BY <1>0, <1>2, <1>h, <1>m, <2>3 DEF Uploaders, Restarts, Readers
  <2>4. CASE /\ Op(c) \in Fetchers
             /\ pc' = [pc EXCEPT ![c] = "assign"]
             /\ Update(c, [frame[c] EXCEPT !.target = frame[c].saved,
                                           !.ret = IF ok THEN "copy" ELSE "fail",
                                           !.data = IF ok THEN chip.offs ELSE "none"])
             /\ UNCHANGED <<result, requested>>
    <3> DEFINE l == IF ok THEN "copy" ELSE "fail"
               d == IF ok THEN chip.offs ELSE "none"
               f == [frame[c] EXCEPT !.target = frame[c].saved, !.ret = l, !.data = d]
    <3>1. l \in RetField /\ d \in DataField /\ l \in {"copy", "fail"}
      BY DEF IInv, SharedOK, Chip, RetField, DataField, Labels
    <3>2. Update(c, f)
      BY <2>4
    <3> HIDE DEF l, d
    <3>3. f \in Frames /\ f.call = frame[c].call /\ f.target = frame[c].saved /\ f.ret = l
      BY <1>0, <3>1, FrameFields
    <3> HIDE DEF f
    <3>4. Held("assign", f, cache'.opr, requested')
      BY <1>2, <1>h, <2>4, <3>1, <3>3 DEF Held, At, Op, BeginLabels, Polls, Fetchers, Readers, PowerOps
    <3> QED
      BY <1>0, <2>4, <3>2, <3>3, <3>4, KeptMove
  <2> QED
    BY <1>2, <2>1, <2>2, <2>3, <2>4 DEF AfterBody
<1>3. CASE pc[c] = "xtal" /\ SetMode(c, frame[c].saved, "idle")
  BY <1>0, <1>3, <1>h, <1>m
<1>4. CASE pc[c] = "power"
  <2>1. At(pc[c], frame[c]) = "power"
    BY <1>4 DEF At
  <2> QED
    BY <1>0, <1>h, <2>1 DEF Good, Op
<1>5. CASE pc[c] \in Polls /\ AfterPoll(c, ok)
  <2>0. pc[c] \in BeginLabels
    BY <1>5 DEF BeginLabels
  <2>1. ASSUME NEW l \in {"assign", "bpower", "bdetect", "breboot"}, NEW f \in Frames, Update(c, f),
               pc' = [pc EXCEPT ![c] = l],
               requested' = requested, f.call = frame[c].call, l = "assign" => f.ret = "breset"
        PROVE  KInv(c)'
    <3>1. Held(l, f, cache'.opr, requested')
      BY <1>b, <1>h, <2>0, <2>1 DEF Held, At, Op, BeginLabels, Polls, Readers, PowerOps
    <3> QED
      BY <1>0, <2>1, <3>1, KeptMove
  <2>2. CASE pc' = [pc EXCEPT ![c] = "assign"] /\ UNCHANGED <<result, requested>>
             /\ Update(c, [frame[c] EXCEPT !.target = "Config", !.ret = "breset", !.polls = 0])
    <3> DEFINE f == [frame[c] EXCEPT !.target = "Config", !.ret = "breset", !.polls = 0]
    <3>1. "Config" \in Mode /\ "breset" \in RetField /\ 0 \in PollField
      BY BoundsAssumption DEF Mode, RetField, PollField, Labels, IOLabels, WriteLabels
    <3>2. f \in Frames /\ f.call = frame[c].call /\ f.ret = "breset" /\ Update(c, f)
      BY <1>0, <2>2, <3>1, FrameFields
    <3> HIDE DEF f
    <3> QED
      BY <2>1, <2>2, <3>2
  <2>3. CASE pc' = [pc EXCEPT ![c] = "bpower"] /\ UNCHANGED <<result, requested>>
             /\ Update(c, [frame[c] EXCEPT !.polls = 0])
    <3> DEFINE f == [frame[c] EXCEPT !.polls = 0]
    <3>1. 0 \in PollField
      BY BoundsAssumption DEF PollField
    <3>2. f \in Frames /\ f.call = frame[c].call /\ Update(c, f)
      BY <1>0, <2>3, <3>1, FrameFields
    <3> HIDE DEF f
    <3> QED
      BY <2>1, <2>3, <3>2
  <2>4. CASE PollAgain(c)
    <3>1. CASE frame[c].polls + 1 = PollBudget
      BY <1>0, <1>b, <2>0, <2>4, <3>1, KeptFinish DEF PollAgain
    <3>2. CASE frame[c].polls + 1 # PollBudget
      <4> DEFINE f == [frame[c] EXCEPT !.polls = @ + 1]
      <4>1. frame[c].polls + 1 \in PollField
        BY <1>0, <3>2, BoundsAssumption, FrameFields DEF PollField
      <4>2. f \in Frames /\ f.call = frame[c].call
        BY <1>0, <4>1, FrameFields
      <4>3. Update(c, f) /\ UNCHANGED <<pc, requested>>
        BY <2>4, <3>2 DEF PollAgain
      <4> HIDE DEF f
      <4>4. pc' = [pc EXCEPT ![c] = pc[c]] /\ pc[c] \in {"bdetect", "breboot"}
        BY <1>0, <1>5, <4>3 DEF ThreadsOK, Polls
      <4> QED
        BY <2>1, <4>2, <4>3, <4>4
    <3> QED
      BY <3>1, <3>2
  <2> QED
    BY <1>5, <2>2, <2>3, <2>4 DEF AfterPoll
<1>6. CASE pc[c] \in {"btrig", "bpage0"} /\ SetFinalMode(c)
  <2>1. pc[c] \in BeginLabels
    BY <1>6 DEF BeginLabels
  <2>2. Op(c) = "begin" /\ frame[c].call.arg = requested /\ requested \in Mode
    BY <1>0, <1>b, <1>h, <2>1 DEF ThreadsOK
  <2> DEFINE l == IF AutoLoad THEN "fread" ELSE "idle"
  <2>3. l \in {"idle", "fread"} /\ SetMode(c, frame[c].call.arg, l)
    BY <1>6 DEF SetFinalMode
  <2> HIDE DEF l
  <2> QED
    BY <1>m, <2>2, <2>3 DEF Readers
<1>7. CASE pc[c] = "btrig" /\ Goto(c, "bpage1")
  BY <1>7, <1>g DEF BeginLabels
<1>8. CASE pc[c] \in DOMAIN BeginNext \ Polls /\ Goto(c, BeginNext[pc[c]])
  BY <1>8, <1>g, BeginNextLabels
<1> QED
  BY <1>1, <1>2, <1>3, <1>4, <1>5, <1>6, <1>7, <1>8 DEF AfterIO

\* Every step keeps it; the bus and the chip have no part in it.
LEMMA StepKept ==
  ASSUME NEW c \in Threads, OneConfigures(c), IInv, KInv(c), IInv', [Next]_vars
  PROVE  KInv(c)'
<1>1. ASSUME UNCHANGED <<cache, threadVars>> PROVE KInv(c)'
  BY <1>1 DEF threadVars, KInv
<1>2. CASE Transact(c)
  <2>1. cache' = cache
    BY <1>2 DEF Transact, AttemptOk, AttemptFail, RefreshOk, RefreshFail, StartReconnect, Detect,
                DetectFail, RecoverWrite, RecoverFail, RetryOk, RetryFail
  <2>2. (\E ok \in BOOLEAN : AfterIO(c, ok)) \/ UNCHANGED threadVars
    BY <1>2 DEF Transact, AttemptOk, AttemptFail, RefreshOk, RefreshFail, StartReconnect, Detect,
                DetectFail, RecoverWrite, RecoverFail, RetryOk, RetryFail, Release
  <2> QED
    BY <1>1, <2>1, <2>2, AfterIOKept
<1>3. CASE \E t \in Threads : Invoke(t)
  BY <1>3, InvokeKept
<1>4. CASE \E t \in Threads \ {c} : Step(t)
  BY <1>4, ReaderKept
<1>5. CASE Environment
  BY <1>1, <1>5 DEF Environment, BusFails, BusHeals, PowerCycle, SelfCalibrate
<1>6. CASE UNCHANGED vars
  BY <1>1, <1>6 DEF vars
<1> QED
  BY <1>2, <1>3, <1>4, <1>5, <1>6, ComputeKept DEF Next, Step, Exhausted

\* While one thread begins and configures and the others read, mode_ is the mode
\* the application asked for whenever no configuring call is under way, for any
\* calls, outages and recoveries, failed ones included (setMode, the setters and
\* the calibration functions of bno055.cpp).
THEOREM ModesAreKept ==
  ASSUME NEW c \in Threads, OneConfigures(c)
  PROVE  Spec => []ModeKept
<1>1. Init => KInv(c)
  BY KeptInit
<1>2. IInv /\ KInv(c) /\ IInv' /\ [Next]_vars => KInv(c)'
  BY StepKept
<1>3. IInv /\ KInv(c) => ModeKept
  BY KeptWhenSettled DEF IInv
<1> QED
  BY InvariantHolds, <1>1, <1>2, <1>3, PTL DEF Spec
-----------------------------------------------------------------------------
(* The chip and the cache.                                                  *)

\* A setting that is in the cache and still to be written to the chip by the call
\* at label l with frame f.
Setting(l, f, op) == f.call.op = op /\ At(l, f) \in {"save", "body", "xtal"}

\* The registers the cache shadows, and what they should hold.
Shadowed == {"opr", "xtal", "axis", "sign", "unit", "page"}
Wanted(k) == [opr |-> k.opr, xtal |-> k.xtal, axis |-> k.axis, sign |-> k.sign,
              unit |-> "SI", page |-> "p0"]

\* Register r is one the call has yet to bring in line.
Owes(l, f, r) ==
  \/ r = "opr"  /\ l = "wrmode"
  \/ r = "xtal" /\ Setting(l, f, "setExtCrystalUse")
  \/ r = "axis" /\ Setting(l, f, "setAxisRemap")
  \/ r = "sign" /\ Setting(l, f, "setAxisSign")
  \/ r = "unit" /\ l \in {"breboot", "bpower", "bpage", "bunit"}
  \/ r = "page" /\ l \in {"bpage1", "bacc", "bgyr0", "bgyr1", "bpage0"}

\* The write of reconnect() that brings a register back.
Rewritten == [page |-> 3, xtal |-> 4, unit |-> 5, axis |-> 7, sign |-> 8, opr |-> 10]

\* Chip h agrees with cache k when the configuring thread is at l with frame f and a
\* recovery is about to make its write i (0 if there is none), but for what the call
\* owes and for what the recovery has reset and not yet brought back.
Agrees(l, f, i, h, k) ==
  /\ \A r \in Shadowed : Owes(l, f, r) \/ i \in 2 .. Rewritten[r] \/ h[r] = Wanted(k)[r]
  /\ i \in 2 .. 10 => h.opr = "Config"
  /\ i \in 4 .. 10 => h.page = "p0"

\* Where a call relies on the chip being in CONFIG mode: from the first setMode of
\* begin() to its last, and from one end of a detour to the other.
InConfigMode(l, f) ==
  \/ At(l, f) \in BeginLabels \ {"open", "bdetect"}
  \/ At(l, f) \in {"body", "xtal"} /\ f.call.op \notin Readers

\* What the cache k owes to the call of the configuring thread, which is the only one
\* to assign it; n calls have been made.
Follows(l, f, k, n) ==
  /\ f.call.op # "reset"
  /\ f.call.op \in Readers \cup {"none"} => l \in {"idle", "body", "diag"}
  /\ l = "wrmode" => k.opr = f.target
  /\ InConfigMode(l, f) => "Config" = IF l = "assign" THEN f.target ELSE k.opr
  /\ f.call.op = "begin" \/ n = 0 => k.axis = "P1" /\ k.sign = "P1" /\ k.xtal = "off"
  /\ Setting(l, f, "setAxisRemap") => k.axis = f.call.arg
  /\ Setting(l, f, "setAxisSign") => k.sign = f.call.arg
  /\ Setting(l, f, "setExtCrystalUse") => k.xtal = f.call.arg

\* The write that a recovery is about to make, if one is under way.
RecoveryStep == IF mutex_ = NoThread THEN 0 ELSE rec[mutex_]

SInv(c) ==
  /\ \A t \in Threads \ {c} : Aside(pc[t], frame[t])
  /\ Follows(pc[c], frame[c], cache, calls)
  /\ calls = 0 => pc[c] = "idle"
  /\ clean => Agrees(pc[c], frame[c], RecoveryStep, chip, cache)

\* One thread begins, once, and then configures in any way; the others read.
OneSets(c) == OthersRead(c) /\ \A k \in Workload[c] : k.op \notin Restarts

\* A write to one register leaves the others alone.
LEMMA WrittenElsewhere ==
  ASSUME NEW h \in Chip, NEW reg, reg # "reset", NEW val, NEW r \in Shadowed \cup {"offs"}, r # reg
  PROVE  Written(h, reg, val)[r] = h[r]
BY DEF Written, Chip, Shadowed

\* A write that the chip takes is in its register.
LEMMA WrittenHere ==
  ASSUME NEW h \in Chip, NEW reg \in Shadowed \cup {"offs"}, NEW val, Accepts(h, reg)
  PROVE  Written(h, reg, val)[reg] = val
BY DEF Written, Chip, Shadowed

\* A write of what is wanted, or to a register that is owed, disturbs nothing.
LEMMA WriteAgrees ==
  ASSUME NEW h \in Chip, NEW k, NEW l, NEW f, NEW i, NEW reg, NEW val,
         Agrees(l, f, i, h, k), i \notin 2 .. 10, reg # "reset",
         reg \in Shadowed => Owes(l, f, reg) \/ val = Wanted(k)[reg]
  PROVE  Agrees(l, f, i, Written(h, reg, val), k)
<1>0. i \notin 4 .. 10 /\ \A r \in Shadowed : i \notin 2 .. Rewritten[r]
  BY DEF Shadowed, Rewritten
<1>1. ASSUME NEW r \in Shadowed
      PROVE  Owes(l, f, r) \/ Written(h, reg, val)[r] = Wanted(k)[r]
  <2>0. Owes(l, f, r) \/ h[r] = Wanted(k)[r]
    BY <1>0 DEF Agrees
  <2>1. CASE r # reg
    BY <2>0, <2>1, WrittenElsewhere
  <2>2. CASE r = reg /\ Accepts(h, reg)
    BY <2>2, WrittenHere
  <2>3. CASE ~Accepts(h, reg)
    BY <2>0, <2>3 DEF Written
  <2> QED
    BY <2>1, <2>2, <2>3
<1> QED
  BY <1>0, <1>1 DEF Agrees

\* The call and the cache move on, and the chip stays.
LEMMA MoveAgrees ==
  ASSUME NEW h, NEW k, NEW k2, NEW l, NEW f, NEW l2, NEW f2, NEW i,
         Agrees(l, f, i, h, k),
         \A r \in Shadowed :
           \/ Owes(l2, f2, r)
           \/ Wanted(k2)[r] = Wanted(k)[r] /\ (Owes(l, f, r) => h[r] = Wanted(k)[r])
  PROVE  Agrees(l2, f2, i, h, k2)
BY DEF Agrees

\* Outside the writes of a recovery it does not matter how far it is.
LEMMA StepsAgree ==
  ASSUME NEW h, NEW k, NEW l, NEW f, NEW i, NEW j,
         Agrees(l, f, i, h, k), i \notin 2 .. 10, j \notin 2 .. 10
  PROVE  Agrees(l, f, j, h, k)
<1>1. i \notin 4 .. 10 /\ j \notin 4 .. 10
      /\ \A r \in Shadowed : i \notin 2 .. Rewritten[r] /\ j \notin 2 .. Rewritten[r]
  BY DEF Shadowed, Rewritten
<1> QED
  BY <1>1 DEF Agrees

\* Who holds the lock is the one whose step counts.
LEMMA StepOfRecovery ==
  ASSUME IInv
  PROVE  /\ mutex_ = NoThread => RecoveryStep = 0
         /\ \A t \in Threads : rec[t] # 0 => RecoveryStep = rec[t]
         /\ RecoveryStep \in 0 .. Retrying
BY ThreadsAssumption DEF IInv, SharedOK, LockOK, RecoveryStep, Retrying, WriteCount

LEMMA SInit ==
  ASSUME NEW c \in Threads, Init
  PROVE  SInv(c)
BY DEF Init, SInv, Aside, Follows, InConfigMode, Setting, EmptyFrame, NoCall, At, BeginLabels, Polls

\* Once the calls are over nothing is owed.
LEMMA SyncedWhenSettled ==
  ASSUME NEW c \in Threads, IInv, SInv(c)
  PROVE  Synced
<1> SUFFICES ASSUME Settled, clean
             PROVE  \A r \in Shadowed : chip[r] = Wanted(cache)[r]
  BY DEF Synced, Shadowed, Wanted
<1>1. pc[c] = "idle" \/ (frame[c].call.op \in Readers /\ pc[c] \in {"idle", "body", "diag"})
  BY DEF Settled, Op, SInv, Follows
<1>2. \A r \in Shadowed : ~Owes(pc[c], frame[c], r)
  BY <1>1 DEF Owes, Setting, At, Readers
<1>3. RecoveryStep = 0
  BY DEF Settled, RecoveryStep
<1>4. \A r \in Shadowed : RecoveryStep \notin 2 .. Rewritten[r]
  BY <1>3 DEF Shadowed, Rewritten
<1> QED
  BY <1>2, <1>4 DEF SInv, Agrees

\* The configuring thread moves.
LEMMA SyncMove ==
  ASSUME NEW c \in Threads, ThreadsOK, SInv(c), NEW l, NEW f \in Frames,
         pc' = [pc EXCEPT ![c] = l], Update(c, f),
         Follows(l, f, cache', calls'), calls' # 0,
         clean' => Agrees(l, f, RecoveryStep', chip', cache')
  PROVE  SInv(c)'
<1>1. /\ \A u \in Threads \ {c} : frame'[u] = frame[u]
      /\ frame'[c] = f
  BY Updated DEF ThreadsOK
<1>2. pc'[c] = l /\ \A u \in Threads \ {c} : pc'[u] = pc[u]
  BY DEF ThreadsOK
<1>3. \A t \in Threads \ {c} : Aside(pc'[t], frame'[t])
  BY <1>1, <1>2 DEF SInv
<1>4. /\ Follows(pc'[c], frame'[c], cache', calls')
      /\ clean' => Agrees(pc'[c], frame'[c], RecoveryStep', chip', cache')
  BY <1>1, <1>2
<1> QED
  BY <1>3, <1>4 DEF SInv

\* The configuring thread stays where it is.
LEMMA SyncStay ==
  ASSUME NEW c \in Threads, SInv(c),
         pc'[c] = pc[c], frame'[c] = frame[c], cache' = cache,
         calls # 0 => calls' # 0, calls' = 0 => calls = 0,
         \A t \in Threads \ {c} : Aside(pc'[t], frame'[t]),
         clean' => Agrees(pc[c], frame[c], RecoveryStep', chip', cache)
  PROVE  SInv(c)'
<1>1. Follows(pc[c], frame[c], cache, calls')
  BY DEF SInv, Follows
<1>2. /\ Follows(pc'[c], frame'[c], cache', calls')
      /\ clean' => Agrees(pc'[c], frame'[c], RecoveryStep', chip', cache')
  BY <1>1
<1> QED
  BY <1>2 DEF SInv

\* Steps outside the transactions leave the chip, and move from label to label
\* with what is owed.
LEMMA SyncCompute ==
  ASSUME NEW c \in Threads, ThreadsOK, SInv(c), NEW l, NEW f \in Frames,
         pc' = [pc EXCEPT ![c] = l], Update(c, f), pc[c] # "idle",
         Follows(l, f, cache', calls), UNCHANGED <<calls, chip, clean, rec, mutex_>>,
         \A r \in Shadowed :
           \/ Owes(l, f, r)
           \/ Wanted(cache')[r] = Wanted(cache)[r] /\ ~Owes(pc[c], frame[c], r)
  PROVE  SInv(c)'
<1>1. RecoveryStep' = RecoveryStep
  BY DEF RecoveryStep
<1>2. clean => Agrees(l, f, RecoveryStep, chip, cache')
  <2>1. clean => Agrees(pc[c], frame[c], RecoveryStep, chip, cache)
    BY DEF SInv
  <2> QED
    BY <2>1, MoveAgrees
<1>3. clean' => Agrees(l, f, RecoveryStep', chip', cache')
  BY <1>1, <1>2
<1>4. calls' # 0 /\ Follows(l, f, cache', calls')
  BY DEF SInv
<1> QED
  BY <1>3, <1>4, SyncMove

LEMMA SyncGoto ==
  ASSUME NEW c \in Threads, ThreadsOK, SInv(c), NEW l, Goto(c, l), pc[c] # "idle",
         Follows(l, frame[c], cache', calls), UNCHANGED <<calls, chip, clean, rec, mutex_>>,
         \A r \in Shadowed :
           \/ Owes(l, frame[c], r)
           \/ Wanted(cache')[r] = Wanted(cache)[r] /\ ~Owes(pc[c], frame[c], r)
  PROVE  SInv(c)'
<1>1. frame[c] \in Frames /\ Update(c, frame[c])
  BY DEF Goto, Update, ThreadsOK
<1>2. pc' = [pc EXCEPT ![c] = l]
  BY DEF Goto
<1> QED
  BY <1>1, <1>2, SyncCompute

LEMMA IdleFollows ==
  ASSUME NEW k, NEW n, n # 0
  PROVE  Follows("idle", EmptyFrame, k, n)
BY DEF Follows, InConfigMode, Setting, At, BeginLabels, Polls, EmptyFrame, NoCall

LEMMA SyncFinish ==
  ASSUME NEW c \in Threads, ThreadsOK, SInv(c), NEW ok \in BOOLEAN, Finish(c, ok), pc[c] # "idle",
         UNCHANGED <<calls, chip, clean, rec, mutex_>>,
         \A r \in Shadowed :
           Wanted(cache')[r] = Wanted(cache)[r] /\ ~Owes(pc[c], frame[c], r)
  PROVE  SInv(c)'
<1>1. EmptyFrame \in Frames
  BY BoundsAssumption DEF EmptyFrame, Frames, NoCall, Labels, Mode
<1>2. Follows("idle", EmptyFrame, cache', calls)
  BY IdleFollows DEF SInv
<1> QED
  BY <1>1, <1>2, SyncCompute DEF Finish

\* Labels at which nothing is owed to the chip.
Even == {"idle", "open", "bdetect", "cache", "copy", "store", "diag", "fopen", "fwrite", "fread"}

LEMMA NothingOwed ==
  ASSUME NEW l \in Even, NEW f, NEW r
  PROVE  ~Owes(l, f, r)
BY DEF Even, Owes, Setting, At

\* Labels that Follows asks nothing of, for a call that is no reader.
LEMMA PlainFollows ==
  ASSUME NEW l \in (Even \ {"idle", "diag"}) \cup {"save"}, NEW f, NEW k, NEW n, n # 0,
         f.call.op \notin Readers \cup {"none", "reset"},
         f.call.op = "begin" => k.axis = "P1" /\ k.sign = "P1" /\ k.xtal = "off",
         ~Setting(l, f, "setAxisRemap") /\ ~Setting(l, f, "setAxisSign")
                                        /\ ~Setting(l, f, "setExtCrystalUse")
  PROVE  Follows(l, f, k, n)
BY DEF Even, Follows, InConfigMode, At, BeginLabels, Polls

\* The configuring thread's own steps outside the transactions.
LEMMA ComputeSync ==
  ASSUME NEW c \in Threads, IInv, SInv(c), Compute(c)
  PROVE  SInv(c)'
<1>0. /\ ThreadsOK /\ cache \in CacheType /\ Good(pc[c], frame[c])
      /\ frame[c] \in Frames /\ Follows(pc[c], frame[c], cache, calls)
  BY HereGood DEF IInv, SharedOK, SInv
<1>1. UNCHANGED <<calls, chip, clean, rec, mutex_>>
  BY DEF Compute, OpenDevice, AssignMode, SavePrev, CacheSetting, CopyOffsets, StoreOffsets,
         OpenFile, WriteFile, ReadFile, ReadDiagnostics, ioVars
<1>h. /\ Op(c) # "reset"
      /\ Op(c) \in Readers \cup {"none"} => pc[c] \in {"idle", "body", "diag"}
      /\ Op(c) = "begin" => cache.axis = "P1" /\ cache.sign = "P1" /\ cache.xtal = "off"
      /\ pc[c] # "idle" => calls # 0
  BY <1>0 DEF SInv, Follows, Op
<1>n. ASSUME NEW l \in {"bdetect", "copy", "store", "fopen", "fwrite", "fread"}, NEW f, NEW op
      PROVE  ~Setting(l, f, op)
  BY <1>n DEF Setting, At
<1>g. ASSUME NEW l \in {"bdetect", "store", "fwrite", "fopen"}, Goto(c, l),
             pc[c] \in Even \ {"idle", "diag"},
             \A r \in Shadowed : Wanted(cache')[r] = Wanted(cache)[r]
      PROVE  SInv(c)'
  <2>1. cache'.axis = cache.axis /\ cache'.sign = cache.sign /\ cache'.xtal = cache.xtal
    BY <1>g DEF Wanted, Shadowed
  <2>2. Op(c) \notin Readers \cup {"none", "reset"} /\ calls # 0
    BY <1>g, <1>h DEF Even
  <2>3. Follows(l, frame[c], cache', calls)
    BY <1>g, <1>h, <1>n, <2>1, <2>2, PlainFollows DEF Even, Op
  <2> QED
    BY <1>0, <1>1, <1>g, <2>3, NothingOwed, SyncGoto
<1>f. ASSUME NEW ok \in BOOLEAN, Finish(c, ok), pc[c] \in Even \ {"idle"},
             \A r \in Shadowed : Wanted(cache')[r] = Wanted(cache)[r]
      PROVE  SInv(c)'
  BY <1>0, <1>1, <1>f, NothingOwed, SyncFinish
<1>2. ASSUME OpenDevice(c) PROVE SInv(c)'
  BY <1>2, <1>f, <1>g DEF OpenDevice, Even
<1>3. ASSUME AssignMode(c) PROVE SInv(c)'
  <2>1. /\ pc[c] = "assign" /\ Goto(c, "wrmode")
        /\ cache' = [cache EXCEPT !.opr = frame[c].target]
    BY <1>3 DEF AssignMode
  <2>2. /\ cache'.opr = frame[c].target /\ cache'.axis = cache.axis
        /\ cache'.sign = cache.sign /\ cache'.xtal = cache.xtal
    BY <1>0, <2>1 DEF CacheType
  <2>3. At("wrmode", frame[c]) = At(pc[c], frame[c])
    BY <2>1 DEF At
  <2>4. Follows("wrmode", frame[c], cache', calls)
    BY <1>0, <2>1, <2>2, <2>3 DEF Follows, InConfigMode, Setting
  <2>5. ASSUME NEW r \in Shadowed
        PROVE  \/ Owes("wrmode", frame[c], r)
               \/ Wanted(cache')[r] = Wanted(cache)[r] /\ ~Owes(pc[c], frame[c], r)
    BY <2>1, <2>2, <2>3 DEF Shadowed, Wanted, Owes, Setting
  <2> QED
    BY <1>0, <1>1, <2>1, <2>4, <2>5, SyncGoto
<1>4. ASSUME SavePrev(c) PROVE SInv(c)'
  <2> DEFINE waking == Op(c) = "enterNormalMode"
             m == IF waking THEN cache.opr ELSE "Config"
             l == IF waking THEN "idle" ELSE "body"
             f == [frame[c] EXCEPT !.saved = cache.opr, !.target = m, !.ret = l]
  <2>1. /\ pc[c] = "save" /\ Update(c, f) /\ cache' = cache
        /\ pc' = [pc EXCEPT ![c] = "assign"]
    BY <1>4 DEF SavePrev
  <2>2. cache.opr \in Mode /\ m \in Mode /\ l \in RetField
    BY <1>0 DEF CacheType, Mode, RetField, Labels, IOLabels
  <2>3. /\ l = "idle" => Op(c) = "enterNormalMode"
        /\ l = "body" => m = "Config"
        /\ l \in {"idle", "body"}
    OBVIOUS
  <2> HIDE DEF l, m
  <2>4. f \in Frames /\ f.call = frame[c].call /\ f.target = m /\ f.ret = l
    BY <1>0, <2>2, FrameFields
  <2> HIDE DEF f
  <2>5. At("assign", f) = l /\ At(pc[c], frame[c]) = "save"
    BY <2>1, <2>4 DEF At
  <2>6. Follows("assign", f, cache', calls)
    <3>1. Op(c) \notin Readers \cup {"none", "reset"}
      BY <1>h, <2>1
    <3>2. InConfigMode("assign", f) => m = "Config"
      BY <2>3, <2>5 DEF InConfigMode, BeginLabels, Polls
    <3>3. \A op : Setting("assign", f, op) => Setting(pc[c], frame[c], op)
      BY <2>3, <2>4, <2>5 DEF Setting
    <3> QED
      BY <1>0, <1>h, <2>1, <2>4, <3>1, <3>2, <3>3 DEF Follows, Op
  <2>7. ASSUME NEW r \in Shadowed PROVE Owes("assign", f, r) \/ ~Owes(pc[c], frame[c], r)
    BY <2>1, <2>3, <2>4, <2>5 DEF Owes, Setting, Op
  <2> QED
    BY <1>0, <1>1, <2>1, <2>4, <2>6, <2>7, SyncCompute
<1>5. ASSUME CacheSetting(c) PROVE SInv(c)'
  <2>1. pc[c] = "cache" /\ Goto(c, "save")
    BY <1>5 DEF CacheSetting
  <2>2. Op(c) \in Remaps
    BY <1>0, <2>1 DEF Good, At, Op
  <2>3. /\ cache'.opr = cache.opr
        /\ cache'.axis = IF Op(c) = "setAxisRemap" THEN frame[c].call.arg ELSE cache.axis
        /\ cache'.sign = IF Op(c) = "setAxisSign" THEN frame[c].call.arg ELSE cache.sign
        /\ cache'.xtal = IF Op(c) = "setExtCrystalUse" THEN frame[c].call.arg ELSE cache.xtal
    BY <1>0, <1>5, <2>2 DEF CacheSetting, CacheType, Remaps
  <2>4. At("save", frame[c]) = "save"
    BY DEF At
  <2>5. Follows("save", frame[c], cache', calls)
    BY <1>h, <2>1, <2>2, <2>3, <2>4 DEF Follows, InConfigMode, Setting, Op, Remaps, Readers, BeginLabels, Polls
  <2>6. ASSUME NEW r \in Shadowed
        PROVE  Owes("save", frame[c], r) \/ Wanted(cache')[r] = Wanted(cache)[r]
    BY <2>3, <2>4 DEF Shadowed, Wanted, Owes, Setting, Op
  <2> QED
    BY <1>0, <1>1, <2>1, <2>5, <2>6, NothingOwed, SyncGoto DEF Even
<1>6. ASSUME CopyOffsets(c) PROVE SInv(c)'
  <2>1. pc[c] = "copy" /\ Goto(c, "store") /\ \A r \in Shadowed : Wanted(cache')[r] = Wanted(cache)[r]
    BY <1>0, <1>6 DEF CopyOffsets, CacheType, Wanted
  <2> QED
    BY <1>g, <2>1 DEF Even
<1>7. ASSUME StoreOffsets(c) PROVE SInv(c)'
  <2> DEFINE l == CASE Op(c) \in Uploaders         -> "save"
                    [] Op(c) = "saveCalibrationFile" -> "fopen"
                    [] OTHER                       -> "idle"
  <2>1. /\ pc[c] = "store" /\ Resume(c, l)
        /\ cache' = [cache EXCEPT !.offs = frame[c].data]
    BY <1>7 DEF StoreOffsets
  <2>2. l \in {"save", "fopen", "idle"} /\ (l = "save" => Op(c) \in Uploaders)
    BY DEF Uploaders, Restarts
  <2> HIDE DEF l
  <2>3. /\ cache'.axis = cache.axis /\ cache'.sign = cache.sign /\ cache'.xtal = cache.xtal
        /\ \A r \in Shadowed : Wanted(cache')[r] = Wanted(cache)[r]
    BY <1>0, <2>1 DEF CacheType, Wanted
  <2>4. CASE l = "save"
    <3>1. Goto(c, "save")
      BY <2>1, <2>4 DEF Resume
    <3>2. \A op \in Remaps : ~Setting("save", frame[c], op)
      BY <2>2, <2>4 DEF Setting, Op, Uploaders, Restarts, Remaps
    <3>3. Follows("save", frame[c], cache', calls)
      BY <1>h, <2>1, <2>3, <3>2, PlainFollows DEF Op, Remaps
    <3> QED
      BY <1>0, <1>1, <2>1, <2>3, <3>1, <3>3, NothingOwed, SyncGoto DEF Even
  <2>5. CASE l = "fopen"
    BY <1>g, <2>1, <2>3, <2>5 DEF Resume, Even
  <2>6. CASE l = "idle"
    BY <1>f, <2>1, <2>3, <2>6 DEF Resume, Even
  <2> QED
    BY <2>2, <2>4, <2>5, <2>6
<1>8. ASSUME OpenFile(c) PROVE SInv(c)'
  BY <1>8, <1>f, <1>g DEF OpenFile, Even
<1>9. ASSUME WriteFile(c) PROVE SInv(c)'
  BY <1>9, <1>f DEF WriteFile, Even
<1>10. ASSUME ReadFile(c) PROVE SInv(c)'
  <2>1. pc[c] = "fread" /\ cache' = cache
    BY <1>10 DEF ReadFile
  <2>2. CASE /\ Update(c, [frame[c] EXCEPT !.data = file]) /\ file \in Offsets
             /\ pc' = [pc EXCEPT ![c] = "copy"]
    <3> DEFINE f == [frame[c] EXCEPT !.data = file]
    <3>1. f \in Frames /\ f.call = frame[c].call /\ Update(c, f)
      BY <1>0, <2>2, FrameFields DEF DataField
    <3> HIDE DEF f
    <3>2. Follows("copy", f, cache', calls)
      BY <1>h, <1>n, <2>1, <3>1, PlainFollows DEF Even, Op
    <3> QED
      BY <1>0, <1>1, <2>1, <2>2, <3>1, <3>2, NothingOwed, SyncCompute DEF Even
  <2>3. CASE \E ok \in BOOLEAN : Finish(c, ok)
    BY <1>f, <2>1, <2>3 DEF Even
  <2> DEFINE ok == Op(c) \in Restarts
  <2>4. ok \in BOOLEAN
    OBVIOUS
  <2>5. \/ /\ Update(c, [frame[c] EXCEPT !.data = file]) /\ file \in Offsets
           /\ pc' = [pc EXCEPT ![c] = "copy"]
        \/ Finish(c, ok)
    BY <1>10 DEF ReadFile
  <2> HIDE DEF ok
  <2> QED
    BY <2>2, <2>3, <2>4, <2>5
<1>11. ASSUME ReadDiagnostics(c) PROVE SInv(c)'
  BY <1>11, <1>f DEF ReadDiagnostics, Even
<1> QED
  BY <1>2, <1>3, <1>4, <1>5, <1>6, <1>7, <1>8, <1>9, <1>10, <1>11 DEF Compute

\* The application's next call.
LEMMA InvokeSync ==
  ASSUME NEW c \in Threads, OneSets(c), IInv, SInv(c), NEW t \in Threads, Invoke(t), IInv'
  PROVE  SInv(c)'
<1>0. /\ ThreadsOK /\ UNCHANGED <<chip, cache, clean, rec, mutex_>> /\ calls \in Nat
      /\ calls' = calls + 1 /\ pc[t] = "idle"
  BY DEF IInv, SharedOK, Invoke, ioVars
<1>r. RecoveryStep' = RecoveryStep
  BY <1>0 DEF RecoveryStep
<1> PICK k \in (IF calls = 0 THEN Startup[t] ELSE Workload[t]) :
      LET arg == IF k.op = "reset" THEN cache.opr ELSE k.arg IN
      /\ Update(t,
           [call |-> [op |-> k.op, arg |-> arg], saved |-> "Config",
            target |-> IF k.op = "setMode" THEN arg ELSE "Config",
            ret |-> IF k.op = "enterSuspendMode" THEN "power" ELSE "idle",
            polls |-> 0,
            data |-> IF k.op = "setSensorOffsets" THEN arg ELSE "none"])
      /\ pc' = [pc EXCEPT ![t] = Entry(k.op)]
      /\ requested' = IF k.op \in {"setMode", "begin"} THEN arg ELSE requested
  BY DEF Invoke
<1> DEFINE arg == IF k.op = "reset" THEN cache.opr ELSE k.arg
           f == [call |-> [op |-> k.op, arg |-> arg], saved |-> "Config",
                 target |-> IF k.op = "setMode" THEN arg ELSE "Config",
                 ret |-> IF k.op = "enterSuspendMode" THEN "power" ELSE "idle",
                 polls |-> 0,
                 data |-> IF k.op = "setSensorOffsets" THEN arg ELSE "none"]
<1>1. /\ Update(t, f) /\ f.call.op = k.op
      /\ f.ret = IF k.op = "enterSuspendMode" THEN "power" ELSE "idle"
  OBVIOUS
<1> HIDE DEF arg, f
<1>3. f \in Frames
  <2>1. frame'[t] = f /\ frame' \in [Threads -> Frames]
    BY <1>0, <1>1 DEF IInv, ThreadsOK, Update
  <2> QED
    BY <2>1
<1>4. k \in Call /\ (calls = 0 => k.op = "begin")
  BY WorkloadAssumption DEF Call, Restarts
<1>5. CASE t = c
  <2>1. k.op # "reset" /\ (k.op = "begin" => calls = 0) /\ k.op # "none"
    BY <1>4, <1>5 DEF OneSets, Restarts, Call, Readers, Fetchers, PowerOps
  <2>2. /\ Entry(k.op) \in {"assign", "open", "cache", "copy", "save", "power", "fread", "diag", "body"}
        /\ Entry(k.op) \in {"diag", "body"} <=> k.op \in Readers
        /\ Entry(k.op) = "save" => k.op \in Fetchers
    BY <1>4 DEF Entry, Call, Restarts, Remaps, Fetchers, Readers, PowerOps
  <2>3. At(Entry(k.op), f) \in {"idle", "open", "cache", "copy", "save", "power", "fread", "diag", "body"}
    BY <1>1, <2>2 DEF At
  <2>4. At(Entry(k.op), f) \in {"save", "body"} => k.op \in Fetchers \cup Readers
    BY <1>1, <2>2 DEF At
  <2>5. \A op \in Remaps : ~Setting(Entry(k.op), f, op)
    BY <1>1, <2>3, <2>4 DEF Setting, Remaps, Fetchers, Readers
  <2>6. Follows(Entry(k.op), f, cache', calls')
    <3>1. calls' # 0 /\ cache' = cache
      BY <1>0
    <3>2. k.op = "begin" => cache.axis = "P1" /\ cache.sign = "P1" /\ cache.xtal = "off"
      BY <2>1 DEF SInv, Follows
    <3>3. ~InConfigMode(Entry(k.op), f)
      <4>1. At(Entry(k.op), f) \in {"body", "xtal"} => f.call.op \in Readers
        BY <1>1, <2>2, <2>3 DEF At
      <4> QED
        BY <2>3, <4>1 DEF InConfigMode, BeginLabels, Polls
    <3> QED
      BY <1>1, <2>1, <2>2, <2>5, <3>1, <3>2, <3>3 DEF Follows, Remaps
  <2>7. \A r \in Shadowed : ~Owes(pc[c], frame[c], r)
    BY <1>0, <1>5, NothingOwed DEF Even
  <2>8. clean' => Agrees(Entry(k.op), f, RecoveryStep', chip', cache')
    <3>1. clean => Agrees(Entry(k.op), f, RecoveryStep, chip, cache)
      BY <2>7, MoveAgrees DEF SInv
    <3> QED
      BY <1>0, <1>r, <3>1
  <2>9. calls' # 0 /\ pc' = [pc EXCEPT ![c] = Entry(k.op)]
    BY <1>0, <1>5
  <2> QED
    BY <1>0, <1>1, <1>3, <1>5, <2>6, <2>8, <2>9, SyncMove
<1>6. CASE t # c
  <2>1. k.op \in Readers /\ calls # 0
    BY <1>6 DEF OneSets, OthersRead
  <2>2. Entry(k.op) \in {"body", "diag"}
    BY <2>1 DEF Entry, Restarts, Remaps, Fetchers, Readers
  <2>3. Aside(Entry(k.op), f)
    BY <1>1, <2>1, <2>2 DEF Aside
  <2>4. /\ \A u \in Threads \ {t} : frame'[u] = frame[u] /\ pc'[u] = pc[u]
        /\ frame'[t] = f /\ pc'[t] = Entry(k.op)
    BY <1>0, <1>1, <1>3, Updated DEF ThreadsOK
  <2>5. \A u \in Threads \ {c} : Aside(pc'[u], frame'[u])
    BY <2>3, <2>4 DEF SInv
  <2>6. clean' => Agrees(pc[c], frame[c], RecoveryStep', chip', cache)
    <3>1. clean => Agrees(pc[c], frame[c], RecoveryStep, chip, cache)
      BY DEF SInv
    <3> QED
      BY <1>0, <1>r, <3>1
  <2> QED
    BY <1>0, <1>6, <2>1, <2>4, <2>5, <2>6, SyncStay
<1> QED
  BY <1>5, <1>6

\* The request of a thread, label by label.
LEMMA RequestAt ==
  ASSUME NEW t \in Threads
  PROVE  /\ pc[t] = "wrmode" => Request(t) = [kind |-> "write", reg |-> "opr", val |-> frame[t].target]
         /\ pc[t] = "power" => Request(t).kind = "write" /\ Request(t).reg = "pwr"
         /\ pc[t] = "xtal" => Request(t) = [kind |-> "write", reg |-> "xtal", val |-> frame[t].call.arg]
         /\ pc[t] \in Polls => Request(t) = [kind |-> "read", reg |-> "none", val |-> "none"]
         /\ pc[t] = "body" => Request(t) = BodyRequest(t)
         /\ pc[t] \in DOMAIN BeginWrites =>
              Request(t) = [kind |-> "write", reg |-> BeginWrites[pc[t]][1],
                            val |-> BeginWrites[pc[t]][2]]
<1>1. \A l \in {"wrmode", "power", "xtal", "body"} \cup DOMAIN BeginWrites : l \notin Polls
  BY DEF BeginWrites, Polls
<1>2. \A l \in {"wrmode", "power", "xtal", "body"} : l \notin DOMAIN BeginWrites
  BY DEF BeginWrites
<1>3. \A l \in Polls : l \notin {"wrmode", "power", "xtal", "body"}
  BY DEF Polls
<1> QED
  BY <1>1, <1>2, <1>3 DEF Request

\* The transactions of the configuring thread: what it writes is what is wanted, but
\* for the visit to page 1.
LEMMA RequestWanted ==
  ASSUME NEW c \in Threads, IInv, SInv(c), pc[c] \in IOLabels,
         Request(c).kind = "write", Request(c).reg \in Shadowed
  PROVE  Request(c).val = Wanted(cache)[Request(c).reg] \/ pc[c] = "bpage1"
<1>0. Good(pc[c], frame[c]) /\ Follows(pc[c], frame[c], cache, calls)
  BY HereGood DEF IInv, SInv
<1>1. CASE pc[c] = "wrmode"
  BY <1>0, <1>1 DEF Request, Follows, Wanted
<1>2. CASE pc[c] = "xtal"
  <2>1. Setting(pc[c], frame[c], "setExtCrystalUse")
    BY <1>0, <1>2 DEF Good, At, Setting
  <2> QED
    BY <1>0, <1>2, <2>1 DEF Request, Follows, Wanted
<1>3. CASE pc[c] = "body"
  <2>1. At(pc[c], frame[c]) = "body" /\ Request(c) = BodyRequest(c)
    BY <1>3 DEF At, Request, Polls
  <2>2. CASE Op(c) = "setAxisRemap"
    <3>1. Request(c).reg = "axis" /\ Request(c).val = frame[c].call.arg
      BY <2>1, <2>2 DEF BodyRequest, Uploaders, Restarts
    <3>2. Setting(pc[c], frame[c], "setAxisRemap")
      BY <2>1, <2>2 DEF Setting, Op
    <3> QED
      BY <1>0, <3>1, <3>2 DEF Follows, Wanted
  <2>3. CASE Op(c) = "setAxisSign"
    <3>1. Request(c).reg = "sign" /\ Request(c).val = frame[c].call.arg
      BY <2>1, <2>3 DEF BodyRequest, Uploaders, Restarts
    <3>2. Setting(pc[c], frame[c], "setAxisSign")
      BY <2>1, <2>3 DEF Setting, Op
    <3> QED
      BY <1>0, <3>1, <3>2 DEF Follows, Wanted
  <2>4. CASE Op(c) = "setExtCrystalUse"
    <3>1. Request(c).reg = "page" /\ Request(c).val = "p0"
      BY <2>1, <2>4 DEF BodyRequest, Uploaders, Restarts
    <3> QED
      BY <3>1 DEF Wanted
  <2>5. CASE Op(c) \notin Remaps
    BY <2>1, <2>5 DEF BodyRequest, Remaps, Shadowed
  <2> QED
    BY <2>2, <2>3, <2>4, <2>5 DEF Remaps
<1>4. CASE pc[c] \in DOMAIN BeginWrites
  <2>1. Request(c).reg = BeginWrites[pc[c]][1] /\ Request(c).val = BeginWrites[pc[c]][2]
    BY <1>4 DEF Request, BeginWrites, Polls
  <2>2. pc[c] = "btrig" => cache.xtal = "off"
    <3>1. pc[c] = "btrig" => frame[c].call.op \in Restarts
      BY <1>0 DEF Good, At, BeginLabels
    <3> QED
      BY <1>0, <3>1 DEF Follows, Restarts
  <2> QED
    BY <1>4, <2>1, <2>2 DEF BeginWrites, Wanted, Shadowed
<1>5. CASE pc[c] \in Polls \cup {"power"}
  BY <1>5 DEF Request, Shadowed, Polls
<1> QED
  BY <1>1, <1>2, <1>3, <1>4, <1>5 DEF IOLabels, WriteLabels, BeginWrites

\* What is still owed once the transaction at label l is through.
Left(l, f, r) ==
  \/ r = "unit" /\ l \in {"breset", "breboot", "bpower", "bpage"}
  \/ r = "page" /\ l \in {"bpage1", "bacc", "bgyr0", "bgyr1"}
  \/ r # "opr" /\ l = "wrmode" /\ Owes(l, f, r)
  \/ r = "xtal" /\ l = "body" /\ f.call.op = "setExtCrystalUse"

LEMMA OwedIsWritten ==
  ASSUME NEW c \in Threads, IInv, pc[c] \in IOLabels, NEW r \in Shadowed,
         Owes(pc[c], frame[c], r), ~Left(pc[c], frame[c], r)
  PROVE  Request(c).kind = "write" /\ Request(c).reg = r
<1>0. Good(pc[c], frame[c])
  BY HereGood DEF IInv
<1>1. CASE r = "opr"
  <2>1. pc[c] = "wrmode"
    BY <1>1 DEF Owes
  <2> QED
    BY <1>1, <2>1, RequestAt
<1>2. CASE r \in {"xtal", "axis", "sign"}
  <2>1. At(pc[c], frame[c]) = pc[c] /\ pc[c] \in {"body", "xtal"}
    BY <1>2 DEF Owes, Setting, Left, At, IOLabels, WriteLabels, Polls
  <2>2. CASE pc[c] = "xtal"
    <3>1. frame[c].call.op = "setExtCrystalUse"
      BY <1>0, <2>1, <2>2 DEF Good
    <3> QED
      BY <1>2, <2>2, <3>1, RequestAt DEF Owes, Setting
  <2>3. CASE pc[c] = "body"
    <3>1. (r = "axis" /\ Op(c) = "setAxisRemap") \/ (r = "sign" /\ Op(c) = "setAxisSign")
      BY <1>2, <2>3 DEF Owes, Setting, Left, Op
    <3> QED
      BY <2>3, <3>1, RequestAt DEF BodyRequest, Uploaders, Restarts
  <2> QED
    BY <2>1, <2>2, <2>3
<1>3. CASE r = "unit"
  BY <1>3 DEF Owes, Left, Request, BeginWrites, Polls
<1>4. CASE r = "page"
  BY <1>4 DEF Owes, Left, Request, BeginWrites, Polls
<1> QED
  BY <1>1, <1>2, <1>3, <1>4, Zenon DEF Owes

\* Where a write relies on CONFIG mode, or is to the page register, the chip takes it.
LEMMA WritesAccepted ==
  ASSUME NEW c \in Threads, IInv, SInv(c), clean, RecoveryStep \notin 2 .. 10,
         pc[c] \in IOLabels, Request(c).kind = "write",
         Request(c).reg \in Shadowed \cup {"offs", "reset"}
  PROVE  Accepts(chip, Request(c).reg)
<1>0. /\ Good(pc[c], frame[c]) /\ Follows(pc[c], frame[c], cache, calls) /\ chip \in Chip
      /\ Agrees(pc[c], frame[c], RecoveryStep, chip, cache)
  BY HereGood DEF IInv, SharedOK, SInv
<1>1. \A r \in Shadowed : Owes(pc[c], frame[c], r) \/ chip[r] = Wanted(cache)[r]
  <2>1. \A r \in Shadowed : RecoveryStep \notin 2 .. Rewritten[r]
    BY DEF Shadowed, Rewritten
  <2> QED
    BY <1>0, <2>1 DEF Agrees
<1>2. CASE Request(c).reg = "page"
  BY <1>2 DEF Accepts, Addressable, ConfigOnly, Page1Registers
<1>3. CASE Request(c).reg # "page"
  <2>1. pc[c] \notin {"bpage1", "bacc", "bgyr0", "bgyr1", "bpage0"}
    BY <1>3, RequestAt DEF BeginWrites, Shadowed
  <2>2. chip.page = "p0"
    BY <1>1, <2>1 DEF Owes, Shadowed, Wanted
  <2>3. CASE Request(c).reg \in {"opr", "reset"}
    BY <2>2, <2>3 DEF Accepts, Addressable, ConfigOnly, Page1Registers
  <2>4. CASE Request(c).reg \notin {"opr", "reset"}
    <3>1. pc[c] \notin {"wrmode", "power", "bpower"} \cup Polls
      BY <1>3, <2>4, RequestAt DEF Shadowed, BeginWrites
    <3>2. pc[c] \in {"body", "xtal"} => frame[c].call.op \notin Readers
      <4>1. pc[c] = "body" => BodyRequest(c).kind = "write"
        BY RequestAt
      <4> QED
        BY <1>0, <4>1 DEF BodyRequest, Op, Good, At, Readers, Uploaders, Restarts
    <3>3. At(pc[c], frame[c]) = pc[c] /\ pc[c] # "assign"
      BY <3>1 DEF At, IOLabels, WriteLabels, Polls
    <3>4. InConfigMode(pc[c], frame[c])
      BY <3>1, <3>2, <3>3 DEF InConfigMode, IOLabels, WriteLabels, BeginLabels, Polls
    <3>5. cache.opr = "Config"
      BY <1>0, <3>3, <3>4 DEF Follows
    <3>6. chip.opr = "Config"
      BY <1>1, <3>1, <3>5 DEF Owes, Shadowed, Wanted
    <3> QED
      BY <1>3, <2>2, <3>6 DEF Accepts, Addressable, Page1Registers, Shadowed
  <2> QED
    BY <2>3, <2>4
<1> QED
  BY <1>2, <1>3

\* A reset that the chip takes.
LEMMA ResetAgrees ==
  ASSUME NEW c \in Threads, IInv, SInv(c), pc[c] = "breset", Accepts(chip, "reset"), NEW r \in Shadowed
  PROVE  Performed(c)[r] = Wanted(cache)[r] \/ Left(pc[c], frame[c], r)
<1>0. Follows(pc[c], frame[c], cache, calls)
  BY DEF SInv
<1>1. /\ cache.opr = "Config" /\ cache.axis = "P1" /\ cache.sign = "P1" /\ cache.xtal = "off"
  <2>1. InConfigMode(pc[c], frame[c])
    BY DEF InConfigMode, At, BeginLabels
  <2>2. frame[c].call.op \in Restarts
    BY HereGood DEF IInv, Good, At, BeginLabels
  <2> QED
    BY <1>0, <2>1, <2>2 DEF Follows, Restarts
<1>2. Performed(c) = PowerOn
  BY RequestAt DEF Performed, Written, BeginWrites
<1>3. r = "unit" => Left(pc[c], frame[c], r)
  BY DEF Left
<1> QED
  BY <1>1, <1>2, <1>3 DEF PowerOn, Wanted, Shadowed

\* A transaction that was answered leaves the chip as wanted, but for what is still
\* owed after it.
LEMMA PerformedAgrees ==
  ASSUME NEW c \in Threads, IInv, SInv(c), clean, RecoveryStep \notin 2 .. 10,
         pc[c] \in IOLabels, NEW r \in Shadowed
  PROVE  Performed(c)[r] = Wanted(cache)[r] \/ Left(pc[c], frame[c], r)
<1>0. /\ Follows(pc[c], frame[c], cache, calls) /\ chip \in Chip
      /\ Agrees(pc[c], frame[c], RecoveryStep, chip, cache)
  BY DEF IInv, SharedOK, SInv
<1>1. Owes(pc[c], frame[c], r) \/ chip[r] = Wanted(cache)[r]
  <2>1. RecoveryStep \notin 2 .. Rewritten[r]
    BY DEF Shadowed, Rewritten
  <2> QED
    BY <1>0, <2>1 DEF Agrees
<1> SUFFICES ASSUME ~Left(pc[c], frame[c], r)
             PROVE  Performed(c)[r] = Wanted(cache)[r]
  OBVIOUS
<1>2. CASE Request(c).kind = "write" /\ Request(c).reg = r
  <2>1. Accepts(chip, r) /\ Performed(c) = Written(chip, r, Request(c).val)
    BY <1>2, WritesAccepted DEF Performed
  <2>2. Performed(c)[r] = Request(c).val
    BY <1>0, <2>1, WrittenHere
  <2>3. pc[c] # "bpage1"
    <3>1. pc[c] = "bpage1" => Request(c).reg = "page"
      BY RequestAt DEF BeginWrites
    <3> QED
      BY <1>2, <3>1 DEF Left
  <2> QED
    BY <1>2, <2>2, <2>3, RequestWanted
<1>3. CASE ~(Request(c).kind = "write" /\ Request(c).reg = r)
  <2>1. chip[r] = Wanted(cache)[r]
    BY <1>1, <1>3, OwedIsWritten
  <2>2. CASE Request(c).kind # "write"
    BY <2>1, <2>2 DEF Performed
  <2>3. CASE Request(c).kind = "write" /\ Request(c).reg # r /\ Request(c).reg # "reset"
    BY <1>0, <2>1, <2>3, WrittenElsewhere DEF Performed
  <2>4. CASE Request(c).kind = "write" /\ Request(c).reg = "reset"
    <3>1. pc[c] = "breset"
      BY <2>4, RequestAt DEF IOLabels, WriteLabels, BeginWrites, BodyRequest, Polls
    <3> QED
      BY <2>4, <3>1, WritesAccepted, ResetAgrees
  <2> QED
    BY <1>3, <2>2, <2>3, <2>4
<1> QED
  BY <1>2, <1>3

\* The transaction returns.
LEMMA IOMove ==
  ASSUME NEW c \in Threads, ThreadsOK, SInv(c), NEW l, NEW f \in Frames,
         pc' = [pc EXCEPT ![c] = l], Update(c, f), Follows(l, f, cache, calls), calls # 0,
         cache' = cache, calls' = calls, RecoveryStep' = 0,
         \A r \in Shadowed :
           /\ clean' => chip'[r] = Wanted(cache)[r] \/ Left(pc[c], frame[c], r)
           /\ Left(pc[c], frame[c], r) => Owes(l, f, r)
  PROVE  SInv(c)'
<1>1. 0 \notin 2 .. 10 /\ 0 \notin 4 .. 10
  OBVIOUS
<1>2. clean' => Agrees(l, f, RecoveryStep', chip', cache')
  BY <1>1 DEF Agrees
<1>3. Follows(l, f, cache', calls') /\ calls' # 0
  OBVIOUS
<1> QED
  BY <1>2, <1>3, SyncMove

\* When the labels of begin() are passed.
LEMMA BeginFollows ==
  ASSUME NEW l, NEW f, NEW l2, NEW f2, NEW k, NEW n, n # 0, Follows(l, f, k, n),
         f.call.op = "begin", f2.call = f.call, l2 # "wrmode",
         l \in BeginLabels, l2 \in BeginLabels \/ (l2 = "assign" /\ f2.ret \in BeginLabels),
         IF l = "bdetect" THEN l2 = "bdetect" \/ (l2 = "assign" /\ f2.target = "Config")
                          ELSE l2 # "assign" /\ l # "open"
  PROVE  Follows(l2, f2, k, n)
<1>1. \A l0 \in BeginLabels : l0 \notin {"assign", "wrmode", "save", "body", "xtal", "idle", "diag"}
  BY DEF BeginLabels, Polls
<1>2. At(l, f) = l /\ At(l2, f2) \in BeginLabels /\ At("bdetect", f2) = "bdetect"
  BY <1>1 DEF At
<1>3. \A op : ~Setting(l2, f2, op)
  BY <1>1, <1>2 DEF Setting
<1>4. InConfigMode(l2, f2) => "Config" = IF l2 = "assign" THEN f2.target ELSE k.opr
  BY <1>1, <1>2 DEF Follows, InConfigMode
<1>5. f2.call.op \notin Readers \cup {"none", "reset"}
  BY DEF Readers
<1> QED
  BY <1>3, <1>4, <1>5 DEF Follows

LEMMA AfterIOSync ==
  ASSUME NEW c \in Threads, IInv, SInv(c), NEW ok \in BOOLEAN, AfterIO(c, ok), pc[c] \in IOLabels,
         cache' = cache, calls' = calls, mutex_' = NoThread,
         clean' => /\ ~(pc[c] \in Polls /\ pc'[c] = "idle")
                   /\ \A r \in Shadowed :
                        chip'[r] = Wanted(cache)[r] \/ Left(pc[c], frame[c], r)
  PROVE  SInv(c)'
<1>0. /\ ThreadsOK /\ Good(pc[c], frame[c]) /\ frame[c] \in Frames
      /\ Follows(pc[c], frame[c], cache, calls) /\ cache \in CacheType
      /\ RecoveryStep' = 0
  BY HereGood DEF IInv, SharedOK, SInv, RecoveryStep
<1>h. /\ Op(c) # "reset" /\ calls # 0
      /\ Op(c) \in Readers \cup {"none"} => pc[c] = "body"
      /\ Op(c) = "begin" => cache.axis = "P1" /\ cache.sign = "P1" /\ cache.xtal = "off"
  <2>1. pc[c] \notin {"idle", "diag"}
    BY DEF IOLabels, WriteLabels, Polls
  <2> QED
    BY <1>0, <2>1 DEF SInv, Follows, Op
<1>b. pc[c] \in BeginLabels => Op(c) = "begin"
  <2>1. pc[c] \in BeginLabels => At(pc[c], frame[c]) = pc[c]
    BY DEF At, BeginLabels, Polls
  <2> QED
    BY <1>0, <1>h, <2>1 DEF Good, Op, Restarts
\* the call returns
<1>f. ASSUME NEW v \in BOOLEAN, Finish(c, v),
             clean' => \A r \in Shadowed : ~Left(pc[c], frame[c], r)
      PROVE  SInv(c)'
  <2>1. EmptyFrame \in Frames
    BY BoundsAssumption DEF EmptyFrame, Frames, NoCall, Labels, Mode
  <2>2. Follows("idle", EmptyFrame, cache', calls') /\ calls' # 0
    BY <1>h, IdleFollows
  <2>3. clean' => Agrees("idle", EmptyFrame, RecoveryStep', chip', cache')
    <3>1. 0 \notin 2 .. 10 /\ 0 \notin 4 .. 10
      OBVIOUS
    <3> QED
      BY <1>0, <1>f, <3>1 DEF Agrees
  <2> QED
    BY <1>0, <1>f, <2>1, <2>2, <2>3, SyncMove DEF Finish
\* the call goes on
<1>g. ASSUME NEW l, Goto(c, l), Follows(l, frame[c], cache, calls),
             \A r \in Shadowed : Left(pc[c], frame[c], r) => Owes(l, frame[c], r)
      PROVE  SInv(c)'
  <2>1. Update(c, frame[c])
    BY <1>0, <1>g DEF Goto, Update, ThreadsOK
  <2> QED
    BY <1>0, <1>g, <1>h, <2>1, IOMove DEF Goto
\* the call enters setMode on its way out of CONFIG mode
<1>m. ASSUME NEW f \in Frames, Update(c, f), pc' = [pc EXCEPT ![c] = "assign"],
             f.call = frame[c].call, f.ret \in {"idle", "fread", "copy", "fail"},
             Op(c) \notin Readers \cup {"none"},
             \A r \in Shadowed : ~Left(pc[c], frame[c], r)
      PROVE  SInv(c)'
  <2>1. At("assign", f) \in {"idle", "fread", "copy", "fail"}
    BY <1>m DEF At
  <2>2. Follows("assign", f, cache, calls)
    BY <1>h, <1>m, <2>1 DEF Follows, InConfigMode, Setting, Op, BeginLabels, Polls
  <2> QED
    BY <1>0, <1>h, <1>m, <2>2, IOMove
<1>s. ASSUME NEW m \in Mode, NEW l \in {"idle", "fread"}, SetMode(c, m, l),
             Op(c) \notin Readers \cup {"none"},
             \A r \in Shadowed : ~Left(pc[c], frame[c], r)
      PROVE  SInv(c)'
  <2> DEFINE f == [frame[c] EXCEPT !.target = m, !.ret = l]
  <2>1. l \in RetField
    BY DEF RetField, Labels
  <2>2. f \in Frames /\ f.call = frame[c].call /\ f.ret = l
    BY <1>0, <2>1, FrameFields
  <2>3. Update(c, f) /\ pc' = [pc EXCEPT ![c] = "assign"]
    BY <1>s DEF SetMode
  <2> HIDE DEF f
  <2> QED
    BY <1>m, <1>s, <2>2, <2>3
\* begin() goes on
<1>p. ASSUME NEW l, NEW f \in Frames, Update(c, f), pc' = [pc EXCEPT ![c] = l],
             f.call = frame[c].call, l # "wrmode", pc[c] \in BeginLabels,
             l \in BeginLabels \/ (l = "assign" /\ f.ret \in BeginLabels),
             IF pc[c] = "bdetect" THEN l = "bdetect" \/ (l = "assign" /\ f.target = "Config")
                                  ELSE l # "assign" /\ pc[c] # "open",
             \A r \in Shadowed : Left(pc[c], frame[c], r) => Owes(l, f, r)
      PROVE  SInv(c)'
  <2>1. Follows(l, f, cache, calls)
    BY <1>0, <1>b, <1>h, <1>p, BeginFollows DEF Op
  <2> QED
    BY <1>0, <1>h, <1>p, <2>1, IOMove
<1>q. ASSUME NEW l \in BeginLabels, Goto(c, l), pc[c] \in BeginLabels \ {"open", "bdetect"},
             \A r \in Shadowed : Left(pc[c], frame[c], r) => Owes(l, frame[c], r)
      PROVE  SInv(c)'
  <2>1. l \notin {"assign", "wrmode"}
    BY <1>q DEF BeginLabels, Polls
  <2>2. Follows(l, frame[c], cache, calls)
    BY <1>0, <1>b, <1>h, <1>q, <2>1, BeginFollows DEF Op
  <2> QED
    BY <1>g, <1>q, <2>2
<1>1. CASE pc[c] = "wrmode" /\ Resume(c, frame[c].ret)
  <2> DEFINE l == frame[c].ret
  <2>1. l \notin {"assign", "wrmode"} /\ At(pc[c], frame[c]) = l /\ At(l, frame[c]) = l
    BY <1>0, <1>1 DEF Good, At
  <2>2. CASE l \in {"idle", "fail"}
    <3>1. Finish(c, TRUE) \/ Finish(c, FALSE)
      BY <1>1, <2>2 DEF Resume
    <3>2. \A r \in Shadowed : ~Left(pc[c], frame[c], r)
      BY <1>1, <2>1, <2>2 DEF Left, Owes, Setting
    <3> QED
      BY <1>f, <3>1, <3>2
  <2>3. CASE l \notin {"idle", "fail"}
    <3>1. Goto(c, l)
      BY <1>1, <2>3 DEF Resume
    <3>2. Follows(l, frame[c], cache, calls)
      BY <1>0, <1>1, <1>h, <2>1 DEF Follows, InConfigMode, Setting, Op
    <3>3. \A r \in Shadowed : Left(pc[c], frame[c], r) => Owes(l, frame[c], r)
      BY <1>1, <2>1 DEF Left, Owes, Setting
    <3> QED
      BY <1>g, <3>1, <3>2, <3>3
  <2> QED
    BY <2>2, <2>3
<1>2. CASE pc[c] = "body" /\ AfterBody(c, ok)
  <2>n. Op(c) # "setExtCrystalUse" => \A r \in Shadowed : ~Left(pc[c], frame[c], r)
    BY <1>2 DEF Left, Op
  <2>1. CASE Op(c) \in Readers /\ Finish(c, ok)
    BY <1>f, <2>1, <2>n DEF Readers
  <2>2. CASE Op(c) = "setExtCrystalUse" /\ Goto(c, "xtal")
    <3>1. At(pc[c], frame[c]) = "body" /\ At("xtal", frame[c]) = "xtal"
      BY <1>2 DEF At
    <3>2. Follows("xtal", frame[c], cache, calls)
      BY <1>0, <1>2, <1>h, <2>2, <3>1 DEF Follows, InConfigMode, Setting, Op, Readers, BeginLabels, Polls
    <3>3. \A r \in Shadowed : Left(pc[c], frame[c], r) => Owes("xtal", frame[c], r)
      BY <1>2, <2>2, <3>1 DEF Left, Owes, Setting, Op
    <3> QED
      BY <1>g, <2>2, <3>2, <3>3
  <2>3. CASE Op(c) \in Uploaders \cup {"setAxisRemap", "setAxisSign"}
             /\ SetMode(c, frame[c].saved, "idle")
    <3>1. Op(c) \notin Readers \cup {"none", "setExtCrystalUse"} /\ frame[c].saved \in Mode
      BY <1>0, <2>3 DEF Uploaders, Restarts, Readers, Frames
    <3> QED
      BY <1>s, <2>3, <2>n, <3>1
  <2>4. CASE /\ Op(c) \in Fetchers
             /\ pc' = [pc EXCEPT ![c] = "assign"]
             /\ Update(c, [frame[c] EXCEPT !.target = frame[c].saved,
                                           !.ret = IF ok THEN "copy" ELSE "fail",
                                           !.data = IF ok THEN chip.offs ELSE "none"])
    <3> DEFINE l == IF ok THEN "copy" ELSE "fail"
               d == IF ok THEN chip.offs ELSE "none"
               f == [frame[c] EXCEPT !.target = frame[c].saved, !.ret = l, !.data = d]
    <3>1. l \in RetField /\ d \in DataField /\ l \in {"copy", "fail"}
      BY DEF IInv, SharedOK, Chip, RetField, DataField, Labels
    <3>2. Update(c, f)
      BY <2>4
    <3> HIDE DEF l, d
    <3>3. f \in Frames /\ f.call = frame[c].call /\ f.ret = l
      BY <1>0, <3>1, FrameFields
    <3> HIDE DEF f
    <3>4. Op(c) \notin Readers \cup {"none", "setExtCrystalUse"}
      BY <2>4 DEF Fetchers, Readers
    <3> QED
      BY <1>m, <2>4, <2>n, <3>1, <3>2, <3>3, <3>4
  <2> QED
    BY <1>2, <2>1, <2>2, <2>3, <2>4 DEF AfterBody
<1>3. CASE pc[c] = "xtal" /\ SetMode(c, frame[c].saved, "idle")
  <2>1. Op(c) = "setExtCrystalUse" /\ frame[c].saved \in Mode
    BY <1>0, <1>3 DEF Good, At, Op, Frames
  <2>2. \A r \in Shadowed : ~Left(pc[c], frame[c], r)
    BY <1>3 DEF Left
  <2> QED
    BY <1>3, <1>s, <2>1, <2>2 DEF Readers
<1>4. CASE pc[c] = "power" /\ Resume(c, IF Op(c) = "enterSuspendMode" THEN "idle" ELSE "save")
  <2>1. Op(c) \in PowerOps
    BY <1>0, <1>4 DEF Good, At, Op
  <2>2. \A r \in Shadowed : ~Left(pc[c], frame[c], r)
    BY <1>4 DEF Left
  <2>3. CASE Op(c) = "enterSuspendMode"
    <3>1. Finish(c, TRUE)
      BY <1>4, <2>3 DEF Resume
    <3> QED
      BY <1>f, <2>2, <3>1
  <2>4. CASE Op(c) = "enterNormalMode"
    <3>1. Goto(c, "save")
      BY <1>4, <2>4 DEF Resume
    <3>2. Follows("save", frame[c], cache, calls)
      BY <1>h, <2>4, PlainFollows DEF Setting, Op, Readers
    <3> QED
      BY <1>g, <2>2, <3>1, <3>2
  <2> QED
    BY <2>1, <2>3, <2>4 DEF PowerOps
<1>5. CASE pc[c] \in Polls /\ AfterPoll(c, ok)
  <2>0. pc[c] \in BeginLabels \ {"open"}
    BY <1>5 DEF BeginLabels, Polls
  <2>1. CASE /\ pc[c] = "bdetect"
             /\ pc' = [pc EXCEPT ![c] = "assign"]
             /\ Update(c, [frame[c] EXCEPT !.target = "Config", !.ret = "breset", !.polls = 0])
    <3> DEFINE f == [frame[c] EXCEPT !.target = "Config", !.ret = "breset", !.polls = 0]
    <3>1. "Config" \in Mode /\ "breset" \in RetField /\ 0 \in PollField
      BY BoundsAssumption DEF Mode, RetField, PollField, Labels, IOLabels, WriteLabels
    <3>2. /\ f \in Frames /\ f.call = frame[c].call /\ f.ret = "breset" /\ f.target = "Config"
          /\ Update(c, f)
      BY <1>0, <2>1, <3>1, FrameFields
    <3> HIDE DEF f
    <3>3. "breset" \in BeginLabels /\ \A r \in Shadowed : ~Left(pc[c], frame[c], r)
      BY <2>1 DEF Left, BeginLabels
    <3> QED
      BY <1>p, <2>0, <2>1, <3>2, <3>3
  <2>2. CASE /\ pc[c] = "breboot"
             /\ pc' = [pc EXCEPT ![c] = "bpower"]
             /\ Update(c, [frame[c] EXCEPT !.polls = 0])
    <3> DEFINE f == [frame[c] EXCEPT !.polls = 0]
    <3>1. 0 \in PollField
      BY BoundsAssumption DEF PollField
    <3>2. f \in Frames /\ f.call = frame[c].call /\ Update(c, f)
      BY <1>0, <2>2, <3>1, FrameFields
    <3> HIDE DEF f
    <3>3. "bpower" \in BeginLabels
          /\ \A r \in Shadowed : Left(pc[c], frame[c], r) => Owes("bpower", f, r)
      BY <2>2 DEF Left, Owes, BeginLabels
    <3> QED
      BY <1>p, <2>0, <2>2, <3>2, <3>3
  <2>3. CASE PollAgain(c)
    <3>1. CASE frame[c].polls + 1 = PollBudget
      <4>1. Finish(c, FALSE)
        BY <2>3, <3>1 DEF PollAgain
      <4>2. ~clean'
        BY <1>0, <1>5, <4>1 DEF Finish, ThreadsOK
      <4> QED
        BY <1>f, <4>1, <4>2
    <3>2. CASE frame[c].polls + 1 # PollBudget
      <4> DEFINE f == [frame[c] EXCEPT !.polls = @ + 1]
      <4>1. frame[c].polls + 1 \in PollField
        BY <1>0, <3>2, BoundsAssumption, FrameFields DEF PollField
      <4>2. f \in Frames /\ f.call = frame[c].call
        BY <1>0, <4>1, FrameFields
      <4>3. Update(c, f) /\ UNCHANGED pc
        BY <2>3, <3>2 DEF PollAgain
      <4> HIDE DEF f
      <4>4. pc' = [pc EXCEPT ![c] = pc[c]] /\ pc[c] \notin {"wrmode", "assign"}
        BY <1>0, <1>5, <4>3 DEF ThreadsOK, Polls
      <4>5. \A r \in Shadowed : Left(pc[c], frame[c], r) => Owes(pc[c], f, r)
        BY <1>5 DEF Left, Owes, Polls
      <4> QED
        BY <1>p, <2>0, <4>2, <4>3, <4>4, <4>5
    <3> QED
      BY <3>1, <3>2
  <2> QED
    BY <1>5, <2>1, <2>2, <2>3 DEF AfterPoll
<1>6. CASE pc[c] \in {"btrig", "bpage0"} /\ SetFinalMode(c)
  <2>1. pc[c] \in BeginLabels
    BY <1>6 DEF BeginLabels
  <2>2. Op(c) = "begin" /\ frame[c].call.arg \in Mode
    <3>1. frame[c].call \in Call \cup {NoCall}
      BY <1>0 DEF Frames
    <3> QED
      BY <1>b, <2>1, <3>1, CallArgument DEF Op, Restarts
  <2> DEFINE l == IF AutoLoad THEN "fread" ELSE "idle"
  <2>3. l \in {"idle", "fread"} /\ SetMode(c, frame[c].call.arg, l)
    BY <1>6 DEF SetFinalMode
  <2> HIDE DEF l
  <2>4. \A r \in Shadowed : ~Left(pc[c], frame[c], r)
    BY <1>6 DEF Left
  <2> QED
    BY <1>s, <2>2, <2>3, <2>4 DEF Readers
<1>7. CASE pc[c] = "btrig" /\ Goto(c, "bpage1")
  <2>1. \A r \in Shadowed : ~Left(pc[c], frame[c], r)
    BY <1>7 DEF Left
  <2> QED
    BY <1>7, <1>q, <2>1 DEF BeginLabels, Polls
<1>8. CASE pc[c] \in DOMAIN BeginNext \ Polls /\ Goto(c, BeginNext[pc[c]])
  <2>1. pc[c] \in BeginLabels \ {"open", "bdetect"} /\ BeginNext[pc[c]] \in BeginLabels
    BY <1>8, BeginNextLabels DEF BeginNext, Polls
  <2>2. \A r \in Shadowed : Left(pc[c], frame[c], r) => Owes(BeginNext[pc[c]], frame[c], r)
    BY <1>8 DEF Left, Owes, BeginNext, Polls
  <2> QED
    BY <1>8, <1>q, <2>1, <2>2
<1> QED
  BY <1>1, <1>2, <1>3, <1>4, <1>5, <1>6, <1>7, <1>8 DEF AfterIO

\* What the writes of reconnect() do to a chip that agrees: the reset takes everything
\* away, and each later write brings its register back.
LEMMA RecoveryAgrees ==
  ASSUME NEW h \in Chip, NEW k, NEW l, NEW f, NEW i \in 2 .. 10, Agrees(l, f, i, h, k),
         NEW h2,
         LET w == RecoveryWrites(k)[i] IN
         \/ h2 = Written(h, w.reg, w.val)
         \/ w.reg = "offs" /\ h2 = h
  PROVE  Agrees(l, f, IF i = 10 THEN Retrying ELSE i + 1, h2, k)
<1> DEFINE w == RecoveryWrites(k)[i]
           j == IF i = 10 THEN Retrying ELSE i + 1
<1> SUFFICES Agrees(l, f, j, h2, k)
  OBVIOUS
<1>1. /\ h.opr = "Config"
      /\ i \in 4 .. 10 => h.page = "p0"
      /\ \A r \in Shadowed : Owes(l, f, r) \/ i \in 2 .. Rewritten[r] \/ h[r] = Wanted(k)[r]
  BY DEF Agrees
<1>2. CASE i = 2
  <2>1. w.reg = "pwr" /\ j = 3 /\ h2 = Written(h, "pwr", w.val)
    BY <1>2 DEF RecoveryWrites
  <2> HIDE DEF w, j
  <2>2. h2.opr = "Config"
    BY <1>1, <2>1 DEF Written, Chip
  <2>3. \A r \in Shadowed : 3 \in 2 .. Rewritten[r]
    BY DEF Shadowed, Rewritten
  <2> QED
    BY <2>1, <2>2, <2>3 DEF Agrees
<1>3. CASE i = 3
  <2>1. j = 4 /\ h2 = Written(h, "page", "p0")
    BY <1>3 DEF RecoveryWrites
  <2> HIDE DEF w, j
  <2>2. h2.opr = "Config" /\ h2.page = "p0"
    BY <1>1, <2>1 DEF Written, Accepts, Addressable, ConfigOnly, Page1Registers, Chip
  <2>3. \A r \in Shadowed \ {"page"} : 4 \in 2 .. Rewritten[r]
    BY DEF Shadowed, Rewritten
  <2>4. h2["page"] = Wanted(k)["page"]
    BY <2>2 DEF Wanted
  <2> QED
    BY <2>1, <2>2, <2>3, <2>4 DEF Agrees
<1>4. CASE i \in {4, 5, 7, 8, 10}
  <2>1. /\ w.reg \in Shadowed \ {"page"} /\ w.val = Wanted(k)[w.reg] /\ Rewritten[w.reg] = i
        /\ w.reg # "offs" /\ h2 = Written(h, w.reg, w.val)
        /\ w.reg = "opr" => i = 10
    BY <1>4 DEF RecoveryWrites, Wanted, Shadowed, Rewritten
  <2>2. /\ j \in 5 .. 12 /\ i \in 4 .. 10 /\ (i # 10 => j = i + 1) /\ (i = 10 => j = 12)
    BY <1>4 DEF Retrying, WriteCount
  <2> HIDE DEF w, j
  <2>3. Accepts(h, w.reg)
    BY <1>1, <2>1, <2>2 DEF Accepts, Addressable, Page1Registers, Shadowed
  <2>4. h2[w.reg] = Wanted(k)[w.reg]
    BY <2>1, <2>3, WrittenHere
  <2>5. \A r \in Shadowed : r # w.reg => h2[r] = h[r]
    BY <2>1, WrittenElsewhere DEF Shadowed
  <2>6. ASSUME NEW r \in Shadowed
        PROVE  Owes(l, f, r) \/ j \in 2 .. Rewritten[r] \/ h2[r] = Wanted(k)[r]
    <3>1. Rewritten[r] \in 3 .. 10
      BY DEF Shadowed, Rewritten
    <3>2. r # w.reg => Rewritten[r] # i
      BY <2>1 DEF Shadowed, Rewritten
    <3>3. i \in 2 .. Rewritten[r] /\ r # w.reg => j \in 2 .. Rewritten[r]
      BY <2>2, <3>1, <3>2
    <3> QED
      BY <1>1, <2>4, <2>5, <3>3
  <2>7. j \in 2 .. 10 => h2.opr = "Config"
    BY <1>1, <2>1, <2>2, <2>5 DEF Shadowed
  <2>8. h2.page = "p0"
    BY <1>1, <2>1, <2>2, <2>5 DEF Shadowed
  <2> QED
    BY <2>6, <2>7, <2>8 DEF Agrees
<1>5. CASE i = 6
  <2>1. j = 7 /\ h2 = Written(h, "opr", "Config")
    BY <1>5 DEF RecoveryWrites
  <2> HIDE DEF w, j
  <2>2. h2 = h
    BY <1>1, <2>1 DEF Written, Chip
  <2>3. \A r \in Shadowed : 6 \in 2 .. Rewritten[r] => 7 \in 2 .. Rewritten[r]
    BY DEF Shadowed, Rewritten
  <2> QED
    BY <1>1, <1>5, <2>1, <2>2, <2>3 DEF Agrees
<1>6. CASE i = 9
  <2>1. /\ w.reg = "offs" /\ j = 10
        /\ h2 = h \/ h2 = Written(h, "offs", w.val)
    BY <1>6 DEF RecoveryWrites
  <2> HIDE DEF w, j
  <2>2. \A r \in Shadowed : h2[r] = h[r]
    BY <2>1, WrittenElsewhere DEF Shadowed
  <2>3. \A r \in Shadowed : 9 \in 2 .. Rewritten[r] => 10 \in 2 .. Rewritten[r]
    BY DEF Shadowed, Rewritten
  <2>4. h2.opr = "Config" /\ h2.page = "p0"
    BY <1>1, <1>6, <2>2 DEF Shadowed
  <2> QED
    BY <1>1, <1>6, <2>1, <2>2, <2>3, <2>4 DEF Agrees
<1> QED
  BY <1>2, <1>3, <1>4, <1>5, <1>6

\* A step of any thread within reconnect() that ends no transaction.
LEMMA RecoverySync ==
  ASSUME NEW c \in Threads, IInv, SInv(c), NEW t \in Threads,
         StartReconnect(t) \/ Detect(t) \/ RecoverWrite(t)
  PROVE  SInv(c)'
<1>0. UNCHANGED <<calls, cache, pc, frame>> /\ chip \in Chip /\ rec \in [Threads -> 0 .. Retrying]
  BY DEF IInv, SharedOK, StartReconnect, Detect, RecoverWrite, threadVars
<1>1. ASSUME clean' => Agrees(pc[c], frame[c], RecoveryStep', chip', cache)
      PROVE  SInv(c)'
  <2>1. \A u \in Threads \ {c} : Aside(pc'[u], frame'[u])
    BY <1>0 DEF SInv
  <2> QED
    BY <1>0, <1>1, <2>1, SyncStay
<1>2. clean => Agrees(pc[c], frame[c], RecoveryStep, chip, cache)
  BY DEF SInv
<1>3. ASSUME StartReconnect(t) PROVE SInv(c)'
  <2>1. RecoveryStep = 0 /\ RecoveryStep' = 11 /\ chip' = chip /\ clean' = clean
    BY <1>0, <1>3, ThreadsAssumption
       DEF StartReconnect, MayAttempt, RecoveryStep, Detecting, WriteCount
  <2> QED
    BY <1>1, <1>2, <2>1, StepsAgree
<1>4. ASSUME Detect(t) PROVE SInv(c)'
  <2>1. mutex_ = t /\ mutex_' = t /\ rec[t] = 11 /\ rec'[t] = 1 /\ chip' = chip /\ clean' = clean
    BY <1>0, <1>4 DEF IInv, LockOK, Detect, Detecting, WriteCount
  <2>2. RecoveryStep = 11 /\ RecoveryStep' = 1
    BY <2>1, ThreadsAssumption DEF RecoveryStep
  <2> QED
    BY <1>1, <1>2, <2>1, <2>2, StepsAgree
<1>5. ASSUME RecoverWrite(t) PROVE SInv(c)'
  <2> DEFINE i == rec[t]
             w == RecoveryWrites(cache)[i]
  <2>1. /\ i \in 1 .. 10 /\ mutex_ = t /\ mutex_' = t
        /\ rec'[t] = IF i = 10 THEN Retrying ELSE i + 1
        /\ chip' = Written(chip, w.reg, w.val) \/ (w.reg = "offs" /\ chip' = chip)
        /\ clean' = (clean \/ (w.reg = "reset" /\ Accepts(chip, "reset")))
    BY <1>0, <1>5 DEF IInv, LockOK, RecoverWrite, AtWrite, WriteCount, Skipped
  <2>2. RecoveryStep = i /\ RecoveryStep' = IF i = 10 THEN Retrying ELSE i + 1
    BY <2>1, ThreadsAssumption DEF RecoveryStep
  <2>3. CASE i \in 2 .. 10
    <3>1. w.reg # "reset"
      BY <2>3 DEF RecoveryWrites
    <3> HIDE DEF w
    <3>2. clean' => Agrees(pc[c], frame[c], i, chip, cache)
      BY <1>2, <2>1, <2>2, <3>1
    <3>3. clean' => Agrees(pc[c], frame[c], IF i = 10 THEN Retrying ELSE i + 1, chip', cache)
      <4>1. chip' = Written(chip, w.reg, w.val) \/ (w.reg = "offs" /\ chip' = chip)
        BY <2>1
      <4> QED
        BY <1>0, <2>3, <3>2, <4>1, RecoveryAgrees DEF w
    <3> QED
      BY <1>1, <2>2, <3>3
  <2>4. CASE i = 1
    <3>1. w.reg = "reset" /\ chip' = Written(chip, "reset", w.val) /\ RecoveryStep' = 2
      BY <2>1, <2>2, <2>4 DEF RecoveryWrites
    <3> HIDE DEF w
    <3>2. clean' => chip'.opr = "Config"
      <4>1. CASE Accepts(chip, "reset")
        BY <3>1, <4>1 DEF Written, PowerOn
      <4>2. CASE ~Accepts(chip, "reset")
        <5> SUFFICES ASSUME clean PROVE chip'.opr = "Config"
          BY <2>1, <4>2
        <5>1. chip' = chip /\ chip.page # "p0"
          BY <3>1, <4>2 DEF Written, Accepts, Addressable, ConfigOnly, Page1Registers
        <5>2. \A r \in Shadowed : Owes(pc[c], frame[c], r) \/ chip[r] = Wanted(cache)[r]
          <6>1. \A r \in Shadowed : RecoveryStep \notin 2 .. Rewritten[r]
            BY <2>2, <2>4 DEF Shadowed, Rewritten
          <6> QED
            BY <1>2, <6>1 DEF Agrees
        <5>3. pc[c] \in {"bpage1", "bacc", "bgyr0", "bgyr1", "bpage0"}
          BY <5>1, <5>2 DEF Owes, Shadowed, Wanted
        <5>4. InConfigMode(pc[c], frame[c])
          BY <5>3 DEF InConfigMode, At, BeginLabels, Polls
        <5>5. cache.opr = "Config"
          BY <5>3, <5>4 DEF SInv, Follows
        <5> QED
          BY <5>1, <5>2, <5>3, <5>5 DEF Owes, Shadowed, Wanted
      <4> QED
        BY <4>1, <4>2
    <3>3. \A r \in Shadowed : 2 \in 2 .. Rewritten[r]
      BY DEF Shadowed, Rewritten
    <3>4. clean' => Agrees(pc[c], frame[c], RecoveryStep', chip', cache)
      BY <3>1, <3>2, <3>3 DEF Agrees
    <3> QED
      BY <1>1, <3>4
  <2> QED
    BY <2>1, <2>3, <2>4
<1> QED
  BY <1>3, <1>4, <1>5

\* The transactions of the configuring thread.
LEMMA TransactSync ==
  ASSUME NEW c \in Threads, IInv, SInv(c), Transact(c)
  PROVE  SInv(c)'
<1>0. /\ chip \in Chip /\ cache' = cache /\ calls' = calls /\ ThreadsOK /\ cache \in CacheType
      /\ rec \in [Threads -> 0 .. Retrying] /\ tries \in [Threads -> Nat]
  BY DEF IInv, SharedOK, Transact, AttemptOk, AttemptFail, RefreshOk, RefreshFail,
         StartReconnect, Detect, DetectFail, RecoverWrite, RecoverFail, RetryOk, RetryFail
<1>l. /\ \A i \in {0, 11, 12} : i \notin 2 .. 10
      /\ mutex_ = NoThread => RecoveryStep = 0
      /\ rec[c] # 0 => RecoveryStep = rec[c] /\ pc[c] \in IOLabels
  BY StepOfRecovery DEF IInv, LockOK
<1>c. clean => Agrees(pc[c], frame[c], RecoveryStep, chip, cache)
  BY DEF SInv
<1>r. Request(c).kind # "write" => Performed(c) = chip
  BY DEF Performed
\* an answered transaction
<1>a. ASSUME chip' = Performed(c), RecoveryStep \notin 2 .. 10, pc[c] \in IOLabels,
             clean' = CleanAfter(c, TRUE), AfterIO(c, TRUE), mutex_' = NoThread
      PROVE  SInv(c)'
  <2>1. clean' => clean \/ (pc[c] = "breset" /\ Accepts(chip, "reset"))
    <3>1. Request(c).reg = "reset" => pc[c] = "breset"
      BY <1>a, RequestAt DEF IOLabels, WriteLabels, BeginWrites, BodyRequest, Polls
    <3> QED
      BY <1>a, <3>1 DEF CleanAfter
  <2>2. ASSUME clean, NEW r \in Shadowed
        PROVE  chip'[r] = Wanted(cache)[r] \/ Left(pc[c], frame[c], r)
    BY <1>a, <2>2, PerformedAgrees
  <2>3. ASSUME pc[c] = "breset", Accepts(chip, "reset"), NEW r \in Shadowed
        PROVE  chip'[r] = Wanted(cache)[r] \/ Left(pc[c], frame[c], r)
    BY <1>a, <2>3, ResetAgrees
  <2>4. clean' => ~(pc[c] \in Polls /\ pc'[c] = "idle")
    BY <1>a DEF CleanAfter
  <2> QED
    BY <1>0, <1>a, <2>1, <2>2, <2>3, <2>4, AfterIOSync
\* a transaction that failed for good
<1>b. ASSUME RecoveryStep \notin 2 .. 10, pc[c] \in IOLabels, NEW ok \in BOOLEAN,
             clean' => chip' = chip /\ clean /\ Request(c).kind # "write"
                       /\ ~(pc[c] \in Polls /\ pc'[c] = "idle"),
             AfterIO(c, ok), mutex_' = NoThread
      PROVE  SInv(c)'
  <2>1. ASSUME clean', NEW r \in Shadowed
        PROVE  chip'[r] = Wanted(cache)[r] \/ Left(pc[c], frame[c], r)
    BY <1>b, <1>r, <2>1, PerformedAgrees
  <2> QED
    BY <1>0, <1>b, <2>1, AfterIOSync
<1>1. ASSUME AttemptOk(c) PROVE SInv(c)'
  BY <1>1, <1>a, <1>l DEF AttemptOk, MayAttempt
<1>2. ASSUME AttemptFail(c) PROVE SInv(c)'
  <2>1. /\ UNCHANGED <<pc, frame, rec, mutex_>> /\ RecoveryStep \notin 2 .. 10
        /\ clean' => clean /\ Request(c).reg # "reset"
        /\ chip' \in {chip, Performed(c)} /\ pc[c] \in IOLabels
    BY <1>2, <1>l DEF AttemptFail, MayAttempt, threadVars
  <2>2. RecoveryStep' = RecoveryStep
    BY <2>1 DEF RecoveryStep
  <2>3. ASSUME clean' PROVE Agrees(pc[c], frame[c], RecoveryStep, Performed(c), cache)
    <3>1. CASE Request(c).kind # "write"
      BY <1>c, <1>r, <2>1, <2>3, <3>1
    <3>2. CASE Request(c).kind = "write"
      <4>1. Performed(c) = Written(chip, Request(c).reg, Request(c).val)
        BY <3>2 DEF Performed
      <4>2. Request(c).reg \in Shadowed =>
              \/ Owes(pc[c], frame[c], Request(c).reg)
              \/ Request(c).val = Wanted(cache)[Request(c).reg]
        <5>1. pc[c] = "bpage1" => Owes(pc[c], frame[c], Request(c).reg)
          BY RequestAt DEF BeginWrites, Owes
        <5> QED
          BY <2>1, <3>2, <5>1, RequestWanted
      <4>3. Agrees(pc[c], frame[c], RecoveryStep, chip, cache) /\ Request(c).reg # "reset"
        BY <1>c, <2>1, <2>3
      <4> QED
        BY <1>0, <2>1, <4>1, <4>2, <4>3, WriteAgrees
    <3> QED
      BY <3>1, <3>2
  <2>4. clean' => Agrees(pc[c], frame[c], RecoveryStep', chip', cache)
    BY <1>c, <2>1, <2>2, <2>3
  <2>5. \A u \in Threads \ {c} : Aside(pc'[u], frame'[u])
    BY <2>1 DEF SInv
  <2> QED
    BY <1>0, <2>1, <2>4, <2>5, SyncStay
<1>3. ASSUME RefreshOk(c) \/ RefreshFail(c) PROVE SInv(c)'
  <2>1. PICK ok \in BOOLEAN : AfterIO(c, ok)
    BY <1>3 DEF RefreshOk, RefreshFail
  <2>2. /\ pc[c] \in IOLabels /\ Request(c).kind = "burst" /\ mutex_ = NoThread
        /\ UNCHANGED <<chip, clean, mutex_>>
    BY <1>3 DEF RefreshOk, RefreshFail, MayAttempt
  <2>3. pc[c] \notin Polls
    BY <2>2, RequestAt
  <2> QED
    BY <1>b, <1>l, <2>1, <2>2, <2>3
<1>4. ASSUME StartReconnect(c) \/ Detect(c) \/ RecoverWrite(c) PROVE SInv(c)'
  BY <1>4, RecoverySync
<1>5. ASSUME DetectFail(c) PROVE SInv(c)'
  <2>1. RecoveryStep \notin 2 .. 10 /\ pc[c] \in IOLabels
    BY <1>5, <1>l DEF DetectFail, Detecting, WriteCount
  <2>2. AfterIO(c, FALSE) /\ mutex_' = NoThread /\ chip' = chip
    BY <1>5 DEF DetectFail, Release
  <2>3. clean' => clean /\ Request(c).kind # "write" /\ ~(pc[c] \in Polls /\ pc'[c] = "idle")
    BY <1>5 DEF DetectFail, CleanAfter
  <2> QED
    BY <1>b, <2>1, <2>2, <2>3
<1>6. ASSUME RecoverFail(c) PROVE SInv(c)'
  <2>1. rec[c] # 0
    BY <1>6 DEF RecoverFail, AtWrite, WriteCount
  <2>2. AfterIO(c, FALSE) /\ mutex_' = NoThread /\ ~clean'
    BY <1>6 DEF RecoverFail, Release
  <2> QED
    BY <1>0, <1>l, <2>1, <2>2, AfterIOSync
<1>7. ASSUME RetryOk(c) PROVE SInv(c)'
  <2>1. RecoveryStep \notin 2 .. 10 /\ pc[c] \in IOLabels
    BY <1>7, <1>l DEF RetryOk, Retrying, WriteCount
  <2> QED
    BY <1>7, <1>a, <2>1 DEF RetryOk, Release
<1>8. ASSUME RetryFail(c) PROVE SInv(c)'
  <2>1. RecoveryStep \notin 2 .. 10 /\ pc[c] \in IOLabels
    BY <1>8, <1>l DEF RetryFail, Retrying, WriteCount
  <2>2. AfterIO(c, FALSE) /\ mutex_' = NoThread /\ chip' \in {chip, Performed(c)}
    BY <1>8 DEF RetryFail, Release
  <2>3. clean' => clean /\ Request(c).kind # "write" /\ ~(pc[c] \in Polls /\ pc'[c] = "idle")
    BY <1>8 DEF RetryFail, CleanAfter
  <2> QED
    BY <1>b, <1>r, <2>1, <2>2, <2>3
<1> QED
  BY <1>1, <1>2, <1>3, <1>4, <1>5, <1>6, <1>7, <1>8 DEF Transact

\* A reader's transaction writes nothing.
LEMMA ReaderRequest ==
  ASSUME IInv, NEW t \in Threads, Aside(pc[t], frame[t]), pc[t] \in IOLabels
  PROVE  /\ Request(t).kind # "write" /\ Request(t).reg # "reset"
         /\ Performed(t) = chip
<1>1. pc[t] = "body"
  BY DEF Aside, IOLabels, WriteLabels, Polls
<1>2. Op(t) \in Readers
  BY <1>1, HereGood DEF IInv, Good, At, Op, Aside, Remaps, Uploaders, Restarts, Fetchers, Readers
<1>3. Request(t).kind # "write" /\ Request(t).reg # "reset"
  BY <1>1, <1>2, RequestAt DEF BodyRequest, Readers, Uploaders, Restarts
<1> QED
  BY <1>3 DEF Performed

\* A reader's step, the recovery it may run included.
LEMMA ReaderSync ==
  ASSUME NEW c \in Threads, IInv, SInv(c), NEW t \in Threads \ {c}, Step(t)
  PROVE  SInv(c)'
<1>0. Aside(pc[t], frame[t])
  BY DEF SInv
<1>1. /\ pc'[c] = pc[c] /\ frame'[c] = frame[c] /\ cache' = cache /\ calls' = calls
      /\ \A u \in Threads \ {c} : Aside(pc'[u], frame'[u])
  BY <1>0, ReaderStep DEF SInv
<1>2. clean => Agrees(pc[c], frame[c], RecoveryStep, chip, cache)
  BY DEF SInv
<1>s. ASSUME clean' => chip' = chip /\ clean,
             \/ RecoveryStep' = RecoveryStep
             \/ RecoveryStep \notin 2 .. 10 /\ RecoveryStep' \notin 2 .. 10
      PROVE  SInv(c)'
  <2>1. clean' => Agrees(pc[c], frame[c], RecoveryStep', chip', cache)
    BY <1>2, <1>s, StepsAgree
  <2> QED
    BY <1>1, <2>1, SyncStay
<1>l. /\ 0 \notin 2 .. 10 /\ 11 \notin 2 .. 10 /\ 12 \notin 2 .. 10
      /\ rec[t] # 0 => RecoveryStep = rec[t] /\ pc[t] \in IOLabels
  BY StepOfRecovery DEF IInv, LockOK
<1>u. UNCHANGED <<mutex_, rec>> => RecoveryStep' = RecoveryStep
  BY DEF RecoveryStep
<1>n. mutex_' = NoThread => RecoveryStep' = 0
  BY DEF RecoveryStep
<1>3. CASE Compute(t)
  <2>1. UNCHANGED <<chip, clean, mutex_, rec>>
    BY <1>3 DEF Compute, OpenDevice, AssignMode, SavePrev, CacheSetting, CopyOffsets, StoreOffsets,
                OpenFile, WriteFile, ReadFile, ReadDiagnostics, ioVars
  <2> QED
    BY <1>s, <1>u, <2>1
<1>4. CASE AttemptOk(t) \/ AttemptFail(t) \/ RefreshOk(t) \/ RefreshFail(t)
  <2>1. pc[t] \in IOLabels /\ UNCHANGED <<mutex_, rec>>
    BY <1>4 DEF AttemptOk, AttemptFail, RefreshOk, RefreshFail, MayAttempt
  <2>2. Request(t).reg # "reset" /\ Performed(t) = chip
    BY <1>0, <2>1, ReaderRequest
  <2>3. chip' = chip
    BY <1>4, <2>2 DEF AttemptOk, AttemptFail, RefreshOk, RefreshFail
  <2>4. clean' => clean
    BY <1>4, <2>2 DEF AttemptOk, AttemptFail, RefreshOk, RefreshFail, CleanAfter
  <2> QED
    BY <1>s, <1>u, <2>1, <2>3, <2>4
<1>5. CASE StartReconnect(t) \/ Detect(t) \/ RecoverWrite(t)
  BY <1>5, RecoverySync
<1>6. CASE DetectFail(t) \/ RetryOk(t) \/ RetryFail(t)
  <2>0. rec[t] = Detecting \/ rec[t] = Retrying
    BY <1>6 DEF DetectFail, RetryOk, RetryFail
  <2>1. rec[t] \in {11, 12}
    BY <2>0 DEF Detecting, Retrying, WriteCount
  <2>2. pc[t] \in IOLabels /\ RecoveryStep \notin 2 .. 10
    BY <1>l, <2>1
  <2>3. Request(t).reg # "reset" /\ Performed(t) = chip
    BY <1>0, <2>2, ReaderRequest
  <2>4. chip' = chip /\ mutex_' = NoThread
    BY <1>6, <2>3 DEF DetectFail, RetryOk, RetryFail, Release
  <2>5. clean' => clean
    BY <1>6, <2>3 DEF DetectFail, RetryOk, RetryFail, CleanAfter
  <2> QED
    BY <1>l, <1>n, <1>s, <2>2, <2>4, <2>5
<1>7. CASE RecoverFail(t)
  <2>1. ~clean'
    BY <1>7 DEF RecoverFail
  <2> QED
    BY <1>1, <2>1, SyncStay
<1> QED
  BY <1>3, <1>4, <1>5, <1>6, <1>7 DEF Step, Transact

\* Every step keeps it.
LEMMA StepSync ==
  ASSUME NEW c \in Threads, OneSets(c), IInv, SInv(c), IInv', [Next]_vars
  PROVE  SInv(c)'
<1>1. ASSUME UNCHANGED <<calls, cache, threadVars, mutex_, rec>>,
             clean' => clean /\ \A r \in Shadowed : chip'[r] = chip[r]
      PROVE  SInv(c)'
  <2>1. RecoveryStep' = RecoveryStep /\ UNCHANGED <<pc, frame, calls, cache>>
    BY <1>1 DEF RecoveryStep, threadVars
  <2>2. clean' => Agrees(pc[c], frame[c], RecoveryStep', chip', cache)
    BY <1>1, <2>1 DEF SInv, Agrees, Shadowed
  <2>3. \A u \in Threads \ {c} : Aside(pc'[u], frame'[u])
    BY <2>1 DEF SInv
  <2> QED
    BY <2>1, <2>2, <2>3, SyncStay
<1>2. CASE \E t \in Threads : Invoke(t)
  BY <1>2, InvokeSync
<1>3. CASE Step(c)
  BY <1>3, ComputeSync, TransactSync DEF Step
<1>4. CASE \E t \in Threads \ {c} : Step(t)
  BY <1>4, ReaderSync
<1>5. CASE Environment
  <2>1. UNCHANGED <<calls, cache, threadVars, mutex_, rec>>
    BY <1>5 DEF Environment, BusFails, BusHeals, PowerCycle, SelfCalibrate, ioVars
  <2>2. CASE BusFails \/ BusHeals
    BY <1>1, <2>1, <2>2 DEF BusFails, BusHeals
  <2>3. CASE PowerCycle
    BY <1>1, <2>1, <2>3 DEF PowerCycle
  <2>4. CASE SelfCalibrate
    <3>1. clean' = clean /\ \A r \in Shadowed : chip'[r] = chip[r]
      BY <2>4 DEF SelfCalibrate, IInv, SharedOK, Chip, Shadowed
    <3> QED
      BY <1>1, <2>1, <3>1
  <2> QED
    BY <1>5, <2>2, <2>3, <2>4 DEF Environment
<1>6. CASE UNCHANGED vars
  BY <1>1, <1>6 DEF vars, ioVars, threadVars
<1> QED
  BY <1>2, <1>3, <1>4, <1>5, <1>6 DEF Next, Exhausted

\* While one thread begins, once, and configures in any way, and the others read:
\* when no configuring call is under way and every write since the last reset was
\* acknowledged, the chip is configured the way the cache says, whatever was retried
\* or recovered by whichever thread, and whatever an earlier process left in the chip
\* (write8, reconnect, begin and the setters of bno055.cpp).
THEOREM ChipIsSynced ==
  ASSUME NEW c \in Threads, OneSets(c)
  PROVE  Spec => []Synced
<1>1. Init => SInv(c)
  BY SInit
<1>2. IInv /\ SInv(c) /\ IInv' /\ [Next]_vars => SInv(c)'
  BY StepSync
<1>3. IInv /\ SInv(c) => Synced
  BY SyncedWhenSettled
<1> QED
  BY InvariantHolds, <1>1, <1>2, <1>3, PTL DEF Spec

\* A setting or a calibration profile that is acknowledged is in the chip.
LEMMA WriteLands ==
  ASSUME NEW c \in Threads, IInv, SInv(c), NEW t \in Threads,
         AttemptOk(t) \/ RetryOk(t), clean, pc[t] \in {"body", "xtal"},
         Request(t).kind = "write"
  PROVE  chip'[Request(t).reg] = Request(t).val
<1>0. pc[t] \in IOLabels /\ chip \in Chip
  BY DEF IOLabels, WriteLabels, IInv, SharedOK
<1>1. t = c
  <2>1. t # c => Aside(pc[t], frame[t])
    BY DEF SInv
  <2> QED
    BY <1>0, <2>1, ReaderRequest
<1>2. RecoveryStep \notin 2 .. 10
  <2>1. AttemptOk(t) => RecoveryStep = 0
    BY StepOfRecovery DEF AttemptOk, MayAttempt
  <2>2. RetryOk(t) => RecoveryStep = 12
    BY StepOfRecovery DEF RetryOk, Retrying, WriteCount
  <2> QED
    BY <2>1, <2>2
<1>3. Request(t).reg \in Shadowed \cup {"offs"}
  BY RequestAt DEF BodyRequest, Shadowed
<1>4. chip' = Written(chip, Request(t).reg, Request(t).val)
  BY DEF AttemptOk, RetryOk, Performed
<1> QED
  BY <1>0, <1>1, <1>2, <1>3, <1>4, WritesAccepted, WrittenHere

\* The detour through CONFIG mode works: while every write since the last reset was
\* acknowledged, a setting or a profile that the chip acknowledges is in its register,
\* also when the recovery of another thread falls into the detour (the setters and
\* setSensorOffsets of bno055.cpp).
THEOREM WritesLand ==
  ASSUME NEW c \in Threads, OneSets(c)
  PROVE  Spec => ConfigWritesLand
<1>1. Init => SInv(c)
  BY SInit
<1>2. IInv /\ SInv(c) /\ IInv' /\ [Next]_vars => SInv(c)'
  BY StepSync
<1>3. IInv /\ SInv(c) /\ [Next]_vars =>
        [\A t \in Threads :
           /\ AttemptOk(t) \/ RetryOk(t)
           /\ clean
           /\ pc[t] \in {"body", "xtal"}
           /\ Request(t).kind = "write"
           => chip'[Request(t).reg] = Request(t).val]_vars
  BY WriteLands
<1> QED
  BY InvariantHolds, <1>1, <1>2, <1>3, PTL DEF Spec, ConfigWritesLand
-----------------------------------------------------------------------------
(* Every step of a call uses something up.                                  *)

LEMMA StageOf ==
  ASSUME NEW op
  PROVE  /\ Stages(op)["open"] = 23 /\ Stages(op)["bdetect"] = 22
         /\ Stages(op)["breset"] = 21 /\ Stages(op)["breboot"] = 20
         /\ Stages(op)["bpower"] = 19 /\ Stages(op)["bpage"] = 18
         /\ Stages(op)["bunit"] = 17 /\ Stages(op)["btrig"] = 16
         /\ Stages(op)["bpage1"] = 15 /\ Stages(op)["bacc"] = 14
         /\ Stages(op)["bgyr0"] = 13 /\ Stages(op)["bgyr1"] = 12
         /\ Stages(op)["bpage0"] = 11 /\ Stages(op)["fread"] = 10
         /\ Stages(op)["copy"] = (IF op \in Fetchers THEN 4 ELSE 9)
         /\ Stages(op)["store"] = (IF op \in Fetchers THEN 3 ELSE 8)
         /\ Stages(op)["cache"] = 8 /\ Stages(op)["power"] = 8
         /\ Stages(op)["save"] = 7 /\ Stages(op)["body"] = 6
         /\ Stages(op)["xtal"] = 5 /\ Stages(op)["fopen"] = 2
         /\ Stages(op)["fwrite"] = 1 /\ Stages(op)["diag"] = 1
         /\ Stages(op)["idle"] = 0 /\ Stages(op)["fail"] = 0
BY DEF Stages

\* Only the end of a call is at stage 0.
LEMMA StageRange ==
  ASSUME NEW op, NEW l \in (Labels \cup {"fail"}) \ {"assign", "wrmode"}
  PROVE  /\ Stages(op)[l] \in Nat
         /\ l \notin {"idle", "fail"} => Stages(op)[l] > 0
BY StageOf DEF Labels, IOLabels, WriteLabels, Polls

LEMMA DistanceOf ==
  ASSUME NEW l, NEW f
  PROVE  /\ l = "assign" => Distance(l, f) = 3 * Stages(f.call.op)[f.ret] + 2
         /\ l = "wrmode" => Distance(l, f) = 3 * Stages(f.call.op)[f.ret] + 1
         /\ l \notin {"assign", "wrmode"} => Distance(l, f) = 3 * Stages(f.call.op)[l]
BY DEF Distance

\* A thread inside a call has some way to go.
LEMMA SomeWay ==
  ASSUME ThreadsOK, NEW t \in Threads, pc[t] # "idle"
  PROVE  Distance(pc[t], frame[t]) \in Nat \ {0}
<1> DEFINE l == pc[t]
           f == frame[t]
<1>1. l \in Labels /\ l # "idle" /\ l # "fail"
  BY DEF ThreadsOK, Labels, IOLabels, WriteLabels, Polls
<1>2. f.ret \in (Labels \cup {"fail"}) \ {"assign", "wrmode"}
  BY HereGood
<1> HIDE DEF l, f
<1>3. CASE l \in {"assign", "wrmode"}
  <2>1. Stages(f.call.op)[f.ret] \in Nat
    BY <1>2, StageRange
  <2> QED
    BY <1>3, <2>1, DistanceOf DEF l, f
<1>4. CASE l \notin {"assign", "wrmode"}
  <2>1. Stages(f.call.op)[l] \in Nat /\ Stages(f.call.op)[l] > 0
    BY <1>1, <1>4, StageRange
  <2> QED
    BY <1>4, <2>1, DistanceOf DEF l, f
<1> QED
  BY <1>3, <1>4

LEMMA FinishNearer ==
  ASSUME ThreadsOK, NEW t \in Threads, pc[t] # "idle", NEW ok, Finish(t, ok)
  PROVE  Nearer(t)
<1>1. pc'[t] = "idle" /\ frame'[t] = EmptyFrame
  BY DEF Finish, Update, ThreadsOK
<1>2. Distance("idle", EmptyFrame) = 0
  BY StageOf, DistanceOf
<1> QED
  BY <1>1, <1>2, SomeWay DEF Nearer

LEMMA GotoNearer ==
  ASSUME ThreadsOK, NEW t \in Threads, NEW l, Goto(t, l),
         Distance(l, frame[t]) \in 0 .. (Distance(pc[t], frame[t]) - 1)
  PROVE  Nearer(t)
<1>1. pc'[t] = l /\ frame'[t] = frame[t]
  BY DEF Goto, ThreadsOK
<1> QED
  BY <1>1 DEF Nearer

\* Going from one label to a later one, outside setMode.
LEMMA GotoLater ==
  ASSUME ThreadsOK, NEW t \in Threads,
         NEW l \in (Labels \cup {"fail"}) \ {"assign", "wrmode"}, Goto(t, l),
         pc[t] \notin {"assign", "wrmode"},
         Stages(Op(t))[l] < Stages(Op(t))[pc[t]]
  PROVE  Nearer(t)
<1>1. pc[t] \in Labels
  BY DEF ThreadsOK
<1>2. Stages(Op(t))[l] \in Nat /\ Stages(Op(t))[pc[t]] \in Nat
  BY <1>1, StageRange
<1>3. Distance(l, frame[t]) = 3 * Stages(Op(t))[l]
  BY DistanceOf DEF Op
<1>4. Distance(pc[t], frame[t]) = 3 * Stages(Op(t))[pc[t]]
  BY DistanceOf DEF Op
<1>5. Distance(l, frame[t]) \in 0 .. (Distance(pc[t], frame[t]) - 1)
  BY <1>2, <1>3, <1>4
<1> QED
  BY <1>5, GotoNearer

\* Entering setMode with a later label to return to.
LEMMA AssignLater ==
  ASSUME ThreadsOK, NEW t \in Threads, NEW f,
         pc' = [pc EXCEPT ![t] = "assign"], Update(t, f), f.call = frame[t].call,
         f.ret \in (Labels \cup {"fail"}) \ {"assign", "wrmode"},
         pc[t] \notin {"assign", "wrmode"},
         Stages(Op(t))[f.ret] < Stages(Op(t))[pc[t]]
  PROVE  Nearer(t)
<1>1. pc[t] \in Labels
  BY DEF ThreadsOK
<1>2. Stages(Op(t))[f.ret] \in Nat /\ Stages(Op(t))[pc[t]] \in Nat
  BY <1>1, StageRange
<1>3. Distance("assign", f) = 3 * Stages(Op(t))[f.ret] + 2
  BY DistanceOf DEF Op
<1>4. Distance(pc[t], frame[t]) = 3 * Stages(Op(t))[pc[t]]
  BY DistanceOf DEF Op
<1>5. pc'[t] = "assign" /\ frame'[t] = f
  BY DEF ThreadsOK, Update
<1>6. Distance("assign", f) \in 0 .. (Distance(pc[t], frame[t]) - 1)
  BY <1>2, <1>3, <1>4
<1> QED
  BY <1>5, <1>6 DEF Nearer

LEMMA SetModeLater ==
  ASSUME ThreadsOK, NEW t \in Threads, NEW m,
         NEW l \in (Labels \cup {"fail"}) \ {"assign", "wrmode"}, SetMode(t, m, l),
         pc[t] \notin {"assign", "wrmode"},
         Stages(Op(t))[l] < Stages(Op(t))[pc[t]]
  PROVE  Nearer(t)
<1> DEFINE f == [frame[t] EXCEPT !.target = m, !.ret = l]
<1>1. frame[t] \in Frames
  BY DEF ThreadsOK
<1>2. f.call = frame[t].call /\ f.ret = l
  BY <1>1, FrameFields
<1>3. pc' = [pc EXCEPT ![t] = "assign"] /\ Update(t, f)
  BY DEF SetMode
<1> HIDE DEF f
<1> QED
  BY <1>2, <1>3, AssignLater

LEMMA ResumeLater ==
  ASSUME ThreadsOK, NEW t \in Threads,
         NEW l \in (Labels \cup {"fail"}) \ {"assign", "wrmode"}, Resume(t, l),
         pc[t] \notin {"idle", "assign", "wrmode"},
         l \notin {"idle", "fail"} => Stages(Op(t))[l] < Stages(Op(t))[pc[t]]
  PROVE  Nearer(t)
<1>1. CASE l \in {"idle", "fail"}
  <2>1. \E ok : Finish(t, ok)
    BY <1>1 DEF Resume
  <2> QED
    BY <2>1, FinishNearer
<1>2. CASE l \notin {"idle", "fail"}
  <2>1. Goto(t, l)
    BY <1>2 DEF Resume
  <2> QED
    BY <1>2, <2>1, GotoLater
<1> QED
  BY <1>1, <1>2

LEMMA PollAgainNearer ==
  ASSUME ThreadsOK, NEW t \in Threads, pc[t] \in Polls, PollAgain(t)
  PROVE  Nearer(t)
<1>1. pc[t] # "idle" /\ frame[t] \in Frames /\ frame[t].polls \in PollField
  BY FrameFields DEF ThreadsOK, Polls
<1>2. CASE frame[t].polls + 1 = PollBudget
  BY <1>1, <1>2, FinishNearer DEF PollAgain
<1>3. CASE frame[t].polls + 1 # PollBudget
  <2> DEFINE f == [frame[t] EXCEPT !.polls = @ + 1]
  <2>1. f.call = frame[t].call /\ f.ret = frame[t].ret /\ f.polls = frame[t].polls + 1
    BY <1>1, FrameFields
  <2>2. frame'[t] = f /\ pc'[t] = pc[t]
    BY <1>3 DEF PollAgain, Update, ThreadsOK
  <2> HIDE DEF f
  <2>3. frame'[t].polls \in (frame[t].polls + 1) .. (PollBudget - 1)
    BY <1>1, <1>3, <2>1, <2>2, BoundsAssumption DEF PollField
  <2>4. Distance(pc'[t], frame'[t]) = Distance(pc[t], frame[t])
    BY <2>1, <2>2 DEF Distance
  <2> QED
    BY <2>3, <2>4 DEF Nearer
<1> QED
  BY <1>2, <1>3

LEMMA AfterPollNearer ==
  ASSUME ThreadsOK, NEW t \in Threads, NEW ok, pc[t] \in Polls, AfterPoll(t, ok)
  PROVE  Nearer(t)
<1>1. frame[t] \in Frames /\ pc[t] \notin {"assign", "wrmode"}
  BY DEF ThreadsOK, Polls
<1>2. CASE pc[t] = "bdetect" /\ pc' = [pc EXCEPT ![t] = "assign"]
           /\ Update(t, [frame[t] EXCEPT !.target = "Config", !.ret = "breset", !.polls = 0])
  <2> DEFINE f == [frame[t] EXCEPT !.target = "Config", !.ret = "breset", !.polls = 0]
  <2>1. f.call = frame[t].call /\ f.ret = "breset"
    BY <1>1, FrameFields
  <2>2. pc' = [pc EXCEPT ![t] = "assign"] /\ Update(t, f)
    BY <1>2
  <2> HIDE DEF f
  <2>3. Stages(Op(t))[f.ret] < Stages(Op(t))[pc[t]]
    BY <1>2, <2>1, StageOf
  <2>4. f.ret \in (Labels \cup {"fail"}) \ {"assign", "wrmode"}
    BY <2>1 DEF Labels, IOLabels, WriteLabels
  <2> QED
    BY <1>1, <2>1, <2>2, <2>3, <2>4, AssignLater
<1>3. CASE pc[t] = "breboot" /\ pc' = [pc EXCEPT ![t] = "bpower"]
           /\ Update(t, [frame[t] EXCEPT !.polls = 0])
  <2> DEFINE f == [frame[t] EXCEPT !.polls = 0]
  <2>1. f.call = frame[t].call
    BY <1>1, FrameFields
  <2>2. pc'[t] = "bpower" /\ frame'[t] = f
    BY <1>3 DEF ThreadsOK, Update
  <2> HIDE DEF f
  <2>3. Distance("breboot", frame[t]) = 60 /\ Distance("bpower", f) = 57
    BY <2>1, StageOf, DistanceOf
  <2> QED
    BY <1>3, <2>2, <2>3 DEF Nearer
<1>4. CASE PollAgain(t)
  BY <1>4, PollAgainNearer
<1> QED
  BY <1>2, <1>3, <1>4 DEF AfterPoll

LEMMA AfterBodyNearer ==
  ASSUME ThreadsOK, NEW t \in Threads, NEW ok \in BOOLEAN, pc[t] = "body", AfterBody(t, ok)
  PROVE  Nearer(t)
<1>1. frame[t] \in Frames
  BY DEF ThreadsOK
<1>2. CASE Finish(t, ok)
  BY <1>2, FinishNearer
<1>3. CASE Goto(t, "xtal")
  <2>1. "xtal" \in (Labels \cup {"fail"}) \ {"assign", "wrmode"}
    BY DEF Labels, IOLabels, WriteLabels
  <2> QED
    BY <1>3, <2>1, StageOf, GotoLater
<1>4. CASE SetMode(t, frame[t].saved, "idle")
  <2>1. "idle" \in (Labels \cup {"fail"}) \ {"assign", "wrmode"}
    BY DEF Labels
  <2> QED
    BY <1>4, <2>1, StageOf, SetModeLater
<1>5. CASE /\ Op(t) \in Fetchers
           /\ pc' = [pc EXCEPT ![t] = "assign"]
           /\ Update(t, [frame[t] EXCEPT !.target = frame[t].saved,
                                         !.ret = IF ok THEN "copy" ELSE "fail",
                                         !.data = IF ok THEN chip.offs ELSE "none"])
  <2> DEFINE l == IF ok THEN "copy" ELSE "fail"
             d == IF ok THEN chip.offs ELSE "none"
             f == [frame[t] EXCEPT !.target = frame[t].saved, !.ret = l, !.data = d]
  <2>1. l \in {"copy", "fail"}
    OBVIOUS
  <2> HIDE DEF l, d
  <2>2. f.call = frame[t].call /\ f.ret = l
    BY <1>1, FrameFields
  <2>3. Update(t, f)
    BY <1>5 DEF l, d
  <2> HIDE DEF f
  <2>4. Stages(Op(t))[f.ret] < Stages(Op(t))[pc[t]]
    BY <1>5, <2>1, <2>2, StageOf
  <2>5. f.ret \in (Labels \cup {"fail"}) \ {"assign", "wrmode"}
    BY <2>1, <2>2 DEF Labels
  <2> QED
    BY <1>5, <2>2, <2>3, <2>4, <2>5, AssignLater
<1> QED
  BY <1>2, <1>3, <1>4, <1>5 DEF AfterBody

LEMMA BeginNextLater ==
  ASSUME NEW op, NEW l \in DOMAIN BeginNext \ Polls
  PROVE  /\ l \notin {"assign", "wrmode"}
         /\ BeginNext[l] \in (Labels \cup {"fail"}) \ {"assign", "wrmode"}
         /\ Stages(op)[BeginNext[l]] < Stages(op)[l]
<1>1. BeginNext[l] \in Labels \ {"assign", "wrmode"} /\ l \notin {"assign", "wrmode"}
  BY BeginNextLabels DEF BeginLabels, Polls
<1>2. Stages(op)[BeginNext[l]] < Stages(op)[l]
  BY StageOf DEF BeginNext, Polls
<1> QED
  BY <1>1, <1>2

\* A transaction that ends moves its call on, or uses up a poll.
LEMMA AfterIONearer ==
  ASSUME ThreadsOK, NEW t \in Threads, NEW ok \in BOOLEAN, pc[t] \in IOLabels, AfterIO(t, ok)
  PROVE  Nearer(t)
<1>0. /\ Good(pc[t], frame[t]) /\ pc[t] # "idle"
      /\ frame[t].ret \in (Labels \cup {"fail"}) \ {"assign", "wrmode"}
  BY HereGood DEF IOLabels, WriteLabels, Polls
<1>1. CASE pc[t] = "wrmode" /\ Resume(t, frame[t].ret)
  <2>1. CASE frame[t].ret \in {"idle", "fail"}
    <3>1. \E r : Finish(t, r)
      BY <1>1, <2>1 DEF Resume
    <3> QED
      BY <1>0, <3>1, FinishNearer
  <2>2. CASE frame[t].ret \notin {"idle", "fail"}
    <3> DEFINE s == Stages(frame[t].call.op)[frame[t].ret]
    <3>1. Goto(t, frame[t].ret)
      BY <1>1, <2>2 DEF Resume
    <3>2. s \in Nat
      BY <1>0, StageRange
    <3>3. Distance(pc[t], frame[t]) = 3 * s + 1 /\ Distance(frame[t].ret, frame[t]) = 3 * s
      BY <1>0, <1>1, DistanceOf
    <3> HIDE DEF s
    <3>4. Distance(frame[t].ret, frame[t]) \in 0 .. (Distance(pc[t], frame[t]) - 1)
      BY <3>2, <3>3
    <3> QED
      BY <3>1, <3>4, GotoNearer
  <2> QED
    BY <2>1, <2>2
<1>2. CASE pc[t] = "body" /\ AfterBody(t, ok)
  BY <1>2, AfterBodyNearer
<1>3. CASE pc[t] = "xtal" /\ SetMode(t, frame[t].saved, "idle")
  <2>1. "idle" \in (Labels \cup {"fail"}) \ {"assign", "wrmode"}
    BY DEF Labels
  <2> QED
    BY <1>3, <2>1, StageOf, SetModeLater
<1>4. CASE pc[t] = "power" /\ Resume(t, IF Op(t) = "enterSuspendMode" THEN "idle" ELSE "save")
  <2> DEFINE l == IF Op(t) = "enterSuspendMode" THEN "idle" ELSE "save"
  <2>1. l \in {"idle", "save"} /\ Resume(t, l)
    BY <1>4
  <2> HIDE DEF l
  <2>2. l \in (Labels \cup {"fail"}) \ {"assign", "wrmode"}
    BY <2>1 DEF Labels
  <2> QED
    BY <1>0, <1>4, <2>1, <2>2, StageOf, ResumeLater
<1>5. CASE pc[t] \in Polls /\ AfterPoll(t, ok)
  BY <1>5, AfterPollNearer
<1>6. CASE pc[t] \in {"btrig", "bpage0"} /\ SetFinalMode(t)
  <2> DEFINE l == IF AutoLoad THEN "fread" ELSE "idle"
  <2>1. l \in {"fread", "idle"} /\ SetMode(t, frame[t].call.arg, l)
    BY <1>6 DEF SetFinalMode
  <2> HIDE DEF l
  <2>2. l \in (Labels \cup {"fail"}) \ {"assign", "wrmode"}
    BY <2>1 DEF Labels
  <2>3. Stages(Op(t))[l] < Stages(Op(t))[pc[t]]
    BY <1>6, <2>1, StageOf
  <2> QED
    BY <1>6, <2>1, <2>2, <2>3, SetModeLater
<1>7. CASE pc[t] = "btrig" /\ Goto(t, "bpage1")
  <2>1. "bpage1" \in (Labels \cup {"fail"}) \ {"assign", "wrmode"}
    BY DEF Labels, IOLabels, WriteLabels
  <2> QED
    BY <1>7, <2>1, StageOf, GotoLater
<1>8. CASE pc[t] \in DOMAIN BeginNext \ Polls /\ Goto(t, BeginNext[pc[t]])
  <2> DEFINE l == BeginNext[pc[t]]
  <2>1. /\ pc[t] \notin {"assign", "wrmode"}
        /\ l \in (Labels \cup {"fail"}) \ {"assign", "wrmode"}
        /\ Stages(Op(t))[l] < Stages(Op(t))[pc[t]]
    BY <1>8, BeginNextLater
  <2>2. Goto(t, l)
    BY <1>8
  <2> HIDE DEF l
  <2> QED
    BY <2>1, <2>2, GotoLater
<1> QED
  BY <1>1, <1>2, <1>3, <1>4, <1>5, <1>6, <1>7, <1>8 DEF AfterIO

LEMMA ComputeNearer ==
  ASSUME ThreadsOK, NEW t \in Threads, Compute(t)
  PROVE  Nearer(t)
<1>0. /\ Good(pc[t], frame[t]) /\ frame[t] \in Frames
      /\ frame[t].ret \in (Labels \cup {"fail"}) \ {"assign", "wrmode"}
  BY HereGood
<1>1. CASE \E ok : Finish(t, ok) /\ pc[t] # "idle"
  BY <1>1, FinishNearer
<1>2. CASE OpenDevice(t)
  <2>1. CASE Goto(t, "bdetect")
    <3>1. "bdetect" \in (Labels \cup {"fail"}) \ {"assign", "wrmode"}
      BY DEF Labels, IOLabels, Polls
    <3> QED
      BY <1>2, <2>1, <3>1, StageOf, GotoLater DEF OpenDevice
  <2> QED
    BY <1>1, <1>2, <2>1 DEF OpenDevice
<1>3. CASE AssignMode(t)
  <2> DEFINE s == Stages(frame[t].call.op)[frame[t].ret]
  <2>1. pc[t] = "assign" /\ Goto(t, "wrmode")
    BY <1>3 DEF AssignMode
  <2>2. s \in Nat
    BY <1>0, StageRange
  <2>3. Distance(pc[t], frame[t]) = 3 * s + 2 /\ Distance("wrmode", frame[t]) = 3 * s + 1
    BY <2>1, DistanceOf
  <2> HIDE DEF s
  <2>4. Distance("wrmode", frame[t]) \in 0 .. (Distance(pc[t], frame[t]) - 1)
    BY <2>2, <2>3
  <2> QED
    BY <2>1, <2>4, GotoNearer
<1>4. CASE SavePrev(t)
  <2> DEFINE w == Op(t) = "enterNormalMode"
             l == IF w THEN "idle" ELSE "body"
             m == IF w THEN cache.opr ELSE "Config"
             f == [frame[t] EXCEPT !.saved = cache.opr, !.target = m, !.ret = l]
  <2>1. l \in {"idle", "body"}
    OBVIOUS
  <2>2. Update(t, f) /\ pc[t] = "save" /\ pc' = [pc EXCEPT ![t] = "assign"]
    BY <1>4 DEF SavePrev
  <2> HIDE DEF l, m
  <2>3. f.call = frame[t].call /\ f.ret = l
    BY <1>0, FrameFields
  <2> HIDE DEF f
  <2>4. f.ret \in (Labels \cup {"fail"}) \ {"assign", "wrmode"}
    BY <2>1, <2>3 DEF Labels, IOLabels
  <2>5. Stages(Op(t))[f.ret] < Stages(Op(t))[pc[t]]
    BY <2>1, <2>2, <2>3, StageOf
  <2> QED
    BY <2>2, <2>3, <2>4, <2>5, AssignLater
<1>5. CASE CacheSetting(t)
  <2>1. pc[t] = "cache" /\ Goto(t, "save")
    BY <1>5 DEF CacheSetting
  <2>2. "save" \in (Labels \cup {"fail"}) \ {"assign", "wrmode"}
    BY DEF Labels
  <2> QED
    BY <2>1, <2>2, StageOf, GotoLater
<1>6. CASE CopyOffsets(t)
  <2>1. pc[t] = "copy" /\ Goto(t, "store")
    BY <1>6 DEF CopyOffsets
  <2>2. "store" \in (Labels \cup {"fail"}) \ {"assign", "wrmode"}
    BY DEF Labels
  <2>3. Stages(Op(t))["store"] < Stages(Op(t))["copy"]
    BY StageOf
  <2> QED
    BY <2>1, <2>2, <2>3, GotoLater
<1>7. CASE StoreOffsets(t)
  <2> DEFINE l == CASE Op(t) \in Uploaders         -> "save"
                    [] Op(t) = "saveCalibrationFile" -> "fopen"
                    [] OTHER                       -> "idle"
  <2>1. pc[t] = "store" /\ Resume(t, l)
    BY <1>7 DEF StoreOffsets
  <2>2. /\ l \in {"save", "fopen", "idle"}
        /\ l = "save" => Op(t) \notin Fetchers
    BY DEF Uploaders, Restarts, Fetchers
  <2> HIDE DEF l
  <2>3. l \in (Labels \cup {"fail"}) \ {"assign", "wrmode"}
    BY <2>2 DEF Labels
  <2>4. l \notin {"idle", "fail"} => Stages(Op(t))[l] < Stages(Op(t))[pc[t]]
    BY <2>1, <2>2, StageOf
  <2> QED
    BY <2>1, <2>3, <2>4, ResumeLater
<1>8. CASE OpenFile(t)
  <2>1. CASE Goto(t, "fwrite")
    <3>1. "fwrite" \in (Labels \cup {"fail"}) \ {"assign", "wrmode"}
      BY DEF Labels
    <3> QED
      BY <1>8, <2>1, <3>1, StageOf, GotoLater DEF OpenFile
  <2> QED
    BY <1>1, <1>8, <2>1 DEF OpenFile
<1>9. CASE WriteFile(t)
  BY <1>1, <1>9 DEF WriteFile
<1>10. CASE ReadFile(t)
  <2>1. CASE Update(t, [frame[t] EXCEPT !.data = file]) /\ pc' = [pc EXCEPT ![t] = "copy"]
    <3> DEFINE f == [frame[t] EXCEPT !.data = file]
    <3>1. f.call = frame[t].call
      BY <1>0, FrameFields
    <3>2. pc'[t] = "copy" /\ frame'[t] = f
      BY <2>1 DEF ThreadsOK, Update
    <3> HIDE DEF f
    <3>3. Distance("fread", frame[t]) = 30
      BY StageOf, DistanceOf
    <3>4. Distance("copy", f) \in {12, 27}
      BY <3>1, StageOf, DistanceOf
    <3>5. pc[t] = "fread"
      BY <1>10 DEF ReadFile
    <3> QED
      BY <3>2, <3>3, <3>4, <3>5 DEF Nearer
  <2> QED
    BY <1>1, <1>10, <2>1 DEF ReadFile
<1>11. CASE ReadDiagnostics(t)
  BY <1>1, <1>11 DEF ReadDiagnostics
<1> QED
  BY <1>2, <1>3, <1>4, <1>5, <1>6, <1>7, <1>8, <1>9, <1>10, <1>11 DEF Compute

\* Within one transaction: the thread stays where it is in its call.
LEMMA StepsNearer ==
  ASSUME NEW t \in Threads, UNCHANGED threadVars, ThreadsOK, pc[t] # "idle",
         StepsLeft(t)' \in 0 .. (StepsLeft(t) - 1)
  PROVE  Nearer(t)
<1>1. pc'[t] = pc[t] /\ frame'[t] = frame[t]
  BY DEF threadVars
<1> QED
  BY <1>1 DEF Nearer

LEMMA LimitType == \A t : Limit(t) \in Nat \ {0}
BY BoundsAssumption DEF Limit

LEMMA LimitStays ==
  ASSUME NEW t, UNCHANGED threadVars
  PROVE  Limit(t)' = Limit(t)
BY DEF threadVars, Limit, Request, BodyRequest, Op

LEMMA TransactNearer ==
  ASSUME IInv, NEW t \in Threads, Transact(t)
  PROVE  Nearer(t)
<1>0. ThreadsOK /\ SharedOK /\ LockOK
  BY DEF IInv
<1>1. pc[t] \in IOLabels /\ pc[t] # "idle"
  <2>1. MayAttempt(t) \/ rec[t] # 0
    <3>1. \/ MayAttempt(t) \/ AtWrite(t)
          \/ rec[t] = Detecting \/ rec[t] = Retrying
      BY DEF Transact, AttemptOk, AttemptFail, RefreshOk, RefreshFail, StartReconnect, Detect,
             DetectFail, RecoverWrite, RecoverFail, RetryOk, RetryFail
    <3> QED
      BY <3>1 DEF AtWrite, Detecting, Retrying, WriteCount
  <2>2. pc[t] \in IOLabels
    BY <1>0, <2>1 DEF MayAttempt, LockOK
  <2> QED
    BY <2>2 DEF IOLabels, WriteLabels, Polls
<1>2. CASE \E ok \in BOOLEAN : AfterIO(t, ok)
  BY <1>0, <1>1, <1>2, AfterIONearer
<1>3. CASE AttemptFail(t)
  <2>1. rec[t] = 0 /\ rec'[t] = 0 /\ tries[t] < Limit(t) /\ tries'[t] = tries[t] + 1
        /\ UNCHANGED threadVars /\ tries[t] \in Nat
    BY <1>0, <1>3 DEF AttemptFail, MayAttempt, SharedOK
  <2>2. Limit(t)' = Limit(t) /\ Limit(t) \in Nat
    BY <2>1, LimitStays, LimitType
  <2>3. StepsLeft(t) = 13 + Limit(t) - tries[t] /\ StepsLeft(t)' = 13 + Limit(t) - tries'[t]
    BY <2>1, <2>2 DEF StepsLeft, Retrying, Detecting, WriteCount
  <2>4. StepsLeft(t)' \in 0 .. (StepsLeft(t) - 1)
    BY <2>1, <2>2, <2>3
  <2> QED
    BY <1>0, <1>1, <2>1, <2>4, StepsNearer
<1>4. CASE StartReconnect(t)
  <2>1. rec[t] = 0 /\ rec'[t] = 11 /\ tries[t] = Limit(t) /\ UNCHANGED threadVars
    BY <1>0, <1>4 DEF StartReconnect, MayAttempt, SharedOK, Detecting, WriteCount
  <2>2. Limit(t) \in Nat
    BY LimitType
  <2>3. StepsLeft(t) = 13 + Limit(t) - tries[t] /\ StepsLeft(t)' = 12
    BY <2>1 DEF StepsLeft, Retrying, Detecting, WriteCount
  <2>4. StepsLeft(t)' \in 0 .. (StepsLeft(t) - 1)
    BY <2>1, <2>2, <2>3
  <2> QED
    BY <1>0, <1>1, <2>1, <2>4, StepsNearer
<1>5. CASE Detect(t)
  <2>1. rec[t] = 11 /\ rec'[t] = 1 /\ UNCHANGED threadVars
    BY <1>0, <1>5 DEF Detect, SharedOK, Detecting, WriteCount
  <2>2. StepsLeft(t) = 12 /\ StepsLeft(t)' = 11
    BY <2>1 DEF StepsLeft, Retrying, Detecting, WriteCount
  <2> QED
    BY <1>0, <1>1, <2>1, <2>2, StepsNearer
<1>6. CASE RecoverWrite(t)
  <2>1. rec[t] \in 1 .. 10 /\ rec'[t] = (IF rec[t] = 10 THEN 12 ELSE rec[t] + 1)
        /\ UNCHANGED threadVars
    BY <1>0, <1>6 DEF RecoverWrite, AtWrite, SharedOK, Retrying, WriteCount
  <2>2. StepsLeft(t) = 12 - rec[t]
    BY <2>1 DEF StepsLeft, Retrying, Detecting, WriteCount
  <2>3. StepsLeft(t)' = (IF rec[t] = 10 THEN 1 ELSE 12 - (rec[t] + 1))
    BY <2>1 DEF StepsLeft, Retrying, Detecting, WriteCount
  <2>4. StepsLeft(t)' \in 0 .. (StepsLeft(t) - 1)
    BY <2>1, <2>2, <2>3
  <2> QED
    BY <1>0, <1>1, <2>1, <2>4, StepsNearer
<1> QED
  BY <1>2, <1>3, <1>4, <1>5, <1>6
     DEF Transact, AttemptOk, RefreshOk, RefreshFail, DetectFail, RecoverFail,
         RetryOk, RetryFail, Release

\* The step of one thread leaves the others where they are.
LEMMA OthersKeepPosition ==
  ASSUME IInv, NEW t \in Threads, Step(t), NEW u \in Threads, u # t
  PROVE  UNCHANGED Position(u)
<1>1. pc \in [Threads -> Labels] /\ frame \in [Threads -> Frames]
      /\ tries \in [Threads -> Nat] /\ rec \in [Threads -> 0 .. Retrying]
  BY DEF IInv, SharedOK, ThreadsOK
<1>2. CASE Compute(t)
  <2>1. tries' = tries /\ rec' = rec
    BY <1>2 DEF Compute, OpenDevice, AssignMode, SavePrev, CacheSetting, CopyOffsets,
         StoreOffsets, OpenFile, WriteFile, ReadFile, ReadDiagnostics, ioVars
  <2>2. pc'[u] = pc[u] /\ frame'[u] = frame[u]
    BY <1>1, <1>2 DEF Compute, OpenDevice, AssignMode, SavePrev, CacheSetting, CopyOffsets,
         StoreOffsets, OpenFile, WriteFile, ReadFile, ReadDiagnostics,
         Goto, Finish, Resume, Update
  <2> QED
    BY <2>1, <2>2 DEF Position
<1>3. CASE \E ok \in BOOLEAN : AfterIO(t, ok) /\ Transact(t)
  <2>1. pc'[u] = pc[u] /\ frame'[u] = frame[u]
    BY <1>1, <1>3 DEF AfterIO, Resume, Finish, Goto, SetMode, SetFinalMode, AfterPoll,
                     PollAgain, AfterBody, Update
  <2>2. tries'[u] = tries[u] /\ rec'[u] = rec[u]
    BY <1>1, <1>3 DEF Transact, AttemptOk, AttemptFail, RefreshOk, RefreshFail, StartReconnect,
         Detect, DetectFail, RecoverWrite, RecoverFail, RetryOk, RetryFail, Release
  <2> QED
    BY <2>1, <2>2 DEF Position
<1>4. CASE AttemptFail(t) \/ StartReconnect(t) \/ Detect(t) \/ RecoverWrite(t)
  <2>1. pc' = pc /\ frame' = frame
    BY <1>4 DEF AttemptFail, StartReconnect, Detect, RecoverWrite, threadVars
  <2>2. tries'[u] = tries[u] /\ rec'[u] = rec[u]
    BY <1>1, <1>4 DEF AttemptFail, StartReconnect, Detect, RecoverWrite
  <2> QED
    BY <2>1, <2>2 DEF Position
<1>5. CASE Transact(t)
  <2>1. \/ AttemptFail(t) \/ StartReconnect(t) \/ Detect(t) \/ RecoverWrite(t)
        \/ \E ok \in BOOLEAN : AfterIO(t, ok)
    BY <1>5 DEF Transact, AttemptOk, RefreshOk, RefreshFail, DetectFail, RecoverFail,
                RetryOk, RetryFail, Release
  <2> QED
    BY <1>3, <1>4, <1>5, <2>1
<1> QED
  BY <1>2, <1>5 DEF Step

\* To be nearer is to have moved.
LEMMA NearerMoves ==
  ASSUME NEW t \in Threads, Nearer(t), UNCHANGED Position(t), IInv
  PROVE  FALSE
<1>1. pc'[t] = pc[t] /\ frame'[t] = frame[t] /\ tries'[t] = tries[t] /\ rec'[t] = rec[t]
  BY DEF Position
<1>2. frame[t].polls \in Nat
  BY BoundsAssumption, FrameFields DEF IInv, ThreadsOK, PollField
<1>3. Limit(t)' = Limit(t)
  BY <1>1 DEF Limit, Request, BodyRequest, Op
<1>4. StepsLeft(t)' = StepsLeft(t)
  BY <1>1, <1>3 DEF StepsLeft
<1>5. ASSUME NEW n, n \in 0 .. (n - 1) PROVE FALSE
  BY <1>5
<1>6. Distance(pc'[t], frame'[t]) = Distance(pc[t], frame[t])
  BY <1>1
<1>7. CASE Distance(pc'[t], frame'[t]) \in 0 .. (Distance(pc[t], frame[t]) - 1)
  BY <1>5, <1>6, <1>7
<1>8. CASE frame'[t].polls \in (frame[t].polls + 1) .. (PollBudget - 1)
  BY <1>1, <1>2, <1>8, BoundsAssumption
<1>9. CASE StepsLeft(t)' \in 0 .. (StepsLeft(t) - 1)
  BY <1>4, <1>5, <1>9
<1> QED
  BY <1>7, <1>8, <1>9 DEF Nearer

\* Nothing in a call can go on for ever: each step of a thread inside a call of
\* bno055.cpp uses up a label, a poll, an attempt or a step of a recovery, and
\* no other thread, no outage and no reset of the chip gives one back, for any
\* number of threads, retries and polls.
THEOREM CallsRunOut == Spec => EveryStepCounts
<1> DEFINE Counts(t) == pc[t] # "idle" =>
                          IF UNCHANGED Position(t) THEN ~Step(t) ELSE Nearer(t)
<1>1. ASSUME IInv, [Next]_vars, NEW t \in Threads
      PROVE  Counts(t)
  <2>1. CASE Step(t)
    <3>1. Nearer(t)
      BY <1>1, <2>1, ComputeNearer, TransactNearer DEF Step, IInv
    <3> QED
      BY <1>1, <3>1, NearerMoves
  <2>2. CASE ~Step(t) /\ pc[t] # "idle"
    <3>1. ASSUME NEW u \in Threads, u # t, Step(u)
          PROVE  UNCHANGED Position(t)
      BY <1>1, <3>1, OthersKeepPosition
    <3>2. ASSUME NEW u \in Threads, Invoke(u)
          PROVE  UNCHANGED Position(t)
      <4>1. u # t
        BY <2>2, <3>2 DEF Invoke
      <4>2. pc'[t] = pc[t] /\ frame'[t] = frame[t]
        BY <1>1, <3>2, <4>1 DEF Invoke, Update, IInv, ThreadsOK
      <4>3. tries' = tries /\ rec' = rec
        BY <3>2 DEF Invoke, ioVars
      <4> QED
        BY <4>2, <4>3 DEF Position
    <3>3. ASSUME Environment \/ Exhausted \/ UNCHANGED vars
          PROVE  UNCHANGED Position(t)
      <4>1. pc' = pc /\ frame' = frame /\ tries' = tries /\ rec' = rec
        BY <3>3 DEF Environment, BusFails, BusHeals, PowerCycle, SelfCalibrate, Exhausted,
                    vars, threadVars, ioVars
      <4> QED
        BY <4>1 DEF Position
    <3>4. UNCHANGED Position(t)
      BY <1>1, <2>2, <3>1, <3>2, <3>3 DEF Next
    <3> QED
      BY <2>2, <3>4
  <2> QED
    BY <2>1, <2>2
<1>2. IInv /\ [Next]_vars => [\A t \in Threads : Counts(t)]_vars
  BY <1>1
<1> QED
  BY <1>2, InvariantHolds, PTL DEF Spec, EveryStepCounts
=============================================================================
