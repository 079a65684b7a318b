-------------------------- MODULE HeadingHoldProofs --------------------------
(***************************************************************************)
(* A correction never spans an interruption, for any timeouts and delays,  *)
(* as long as the reset service does not overlap with the control group.   *)
(***************************************************************************)
EXTENDS HeadingHold, TLAPS

\* What the place of each group says of its locals.
PlacesOK ==
  /\ jump => pc \in {"relock", "store"}
  /\ pc = "relock" => jump
  /\ pc = "store" /\ jump => ~locked
  /\ admin = "lock" => pc = "idle" /\ spanned = {} /\ late = {}

\* A locked target has lived through nothing, or the hold has just been disabled
\* and is about to be unlocked.
LockedIsClean ==
  locked /\ pc # "reset" =>
    /\ spanned \cup late \subseteq {"disabled"}
    /\ "disabled" \in spanned \cup late => admin = "unlock" /\ ~enabled
    /\ pc \in {"turning", "settling"} => spanned = {}

\* What is about to be published is clean if it corrects.
CorrectionIsClean ==
  pc = "publish" /\ command # "turn" /\ ~settling => spanned = {}

IInv == TypeOK /\ PlacesOK /\ LockedIsClean /\ CorrectionIsClean
-----------------------------------------------------------------------------
\* An age stays an age.
LEMMA AgesOK ==
  /\ 0 \in Ages /\ Old \in Ages
  /\ \A age \in Ages : Older(age) \in Ages
BY TimesAssumption DEF Ages, Older

\* Nothing has happened, no callback is under way and nothing is locked.
LEMMA InvariantInit == Init => IInv
BY AgesOK DEF Init, IInv, TypeOK, PlacesOK, LockedIsClean, CorrectionIsClean, Commands

\* A command changes what is asked for, between callbacks.
LEMMA CommandInv ==
  ASSUME ~ResetOverlaps, IInv, NEW c \in Commands, ReceiveCommand(c)
  PROVE  IInv'
<1> USE DEF IInv, PlacesOK, LockedIsClean, CorrectionIsClean, Goto, ControlMay, inputVars,
        history, ReceiveCommand
<1>1. TypeOK'
  BY AgesOK, ResetAssumption DEF TypeOK, Commands, Events
<1>2. PlacesOK'
  BY DEF TypeOK
<1>3. LockedIsClean'
  BY DEF TypeOK
<1>4. CorrectionIsClean'
  BY DEF TypeOK
<1> QED
  BY <1>1, <1>2, <1>3, <1>4

\* A jump that meets a lock goes to the reset first.
LEMMA ImuInv ==
  ASSUME ~ResetOverlaps, IInv, NEW far \in BOOLEAN, ReceiveImu(far)
  PROVE  IInv'
<1> USE DEF IInv, PlacesOK, LockedIsClean, CorrectionIsClean, Goto, ControlMay, inputVars,
        history, ReceiveImu
<1>1. TypeOK'
  BY AgesOK, ResetAssumption DEF TypeOK, Commands, Events
<1>2. PlacesOK'
  BY DEF TypeOK
<1>3. LockedIsClean'
  BY DEF TypeOK
<1>4. CorrectionIsClean'
  BY DEF TypeOK
<1> QED
  BY <1>1, <1>2, <1>3, <1>4

\* Only a locked target that has lived through nothing is held on to.
LEMMA ControlInv ==
  ASSUME ~ResetOverlaps, IInv, Control
  PROVE  IInv'
<1> USE DEF IInv, PlacesOK, LockedIsClean, CorrectionIsClean, Goto, ControlMay, inputVars,
        history, Control, PassOn, Publish, TakeTarget
<1>1. TypeOK'
  BY AgesOK, ResetAssumption DEF TypeOK, Commands, Events
<1>2. PlacesOK'
  BY DEF TypeOK
<1>3. LockedIsClean'
  BY DEF TypeOK
<1>4. CorrectionIsClean'
  BY DEF TypeOK
<1> QED
  BY <1>1, <1>2, <1>3, <1>4

\* A turn gives the lock up.
LEMMA TurningInv ==
  ASSUME ~ResetOverlaps, IInv, Turning
  PROVE  IInv'
<1> USE DEF IInv, PlacesOK, LockedIsClean, CorrectionIsClean, Goto, ControlMay, inputVars,
        history, Turning, TakeTarget
<1>1. TypeOK'
  BY AgesOK, ResetAssumption DEF TypeOK, Commands, Events
<1>2. PlacesOK'
  BY DEF TypeOK
<1>3. LockedIsClean'
  BY DEF TypeOK
<1>4. CorrectionIsClean'
  BY DEF TypeOK
<1> QED
  BY <1>1, <1>2, <1>3, <1>4

\* A new lock starts with nothing lived through.
LEMMA SettlingInv ==
  ASSUME ~ResetOverlaps, IInv, Settling
  PROVE  IInv'
<1> USE DEF IInv, PlacesOK, LockedIsClean, CorrectionIsClean, Goto, ControlMay, inputVars,
        history, Settling, TakeTarget
<1>1. TypeOK'
  <2>1. settling' \in BOOLEAN
    OBVIOUS
  <2>2. locked' \in BOOLEAN /\ turnAge' \in Ages
    BY AgesOK DEF TypeOK
  <2>3. spanned' \subseteq Events /\ late' \subseteq Events
    BY DEF TypeOK, Events
  <2>4. pc' = "publish"
    OBVIOUS
  <2>5. UNCHANGED <<command, commandAge, imuAge, relockDelay, enabled, jump, admin, out,
                    driven>>
    OBVIOUS
  <2> QED
    BY <2>1, <2>2, <2>3, <2>4, <2>5 DEF TypeOK
<1>2. PlacesOK'
  BY DEF TypeOK
<1>3. LockedIsClean'
  BY DEF TypeOK
<1>4. CorrectionIsClean'
  BY DEF TypeOK
<1> QED
  BY <1>1, <1>2, <1>3, <1>4

\* The command that goes out changes nothing else.
LEMMA PublishInv ==
  ASSUME ~ResetOverlaps, IInv, PublishCorrected
  PROVE  IInv'
<1> USE DEF IInv, PlacesOK, LockedIsClean, CorrectionIsClean, Goto, ControlMay, inputVars,
        history, PublishCorrected, Publish
<1>1. TypeOK'
  BY AgesOK, ResetAssumption DEF TypeOK, Commands, Events
<1>2. PlacesOK'
  BY DEF TypeOK
<1>3. LockedIsClean'
  BY DEF TypeOK
<1>4. CorrectionIsClean'
  BY DEF TypeOK
<1> QED
  BY <1>1, <1>2, <1>3, <1>4

\* A reset unlocks.
LEMMA ResetInv ==
  ASSUME ~ResetOverlaps, IInv, ResetOnJump \/ ResetAfterPassing
  PROVE  IInv'
<1> USE DEF IInv, PlacesOK, LockedIsClean, CorrectionIsClean, Goto, ControlMay, inputVars,
        history, ResetOnJump, ResetAfterPassing, ResetBefore
<1>1. TypeOK'
  BY AgesOK, ResetAssumption DEF TypeOK, Commands, Events
<1>2. PlacesOK'
  BY DEF TypeOK
<1>3. LockedIsClean'
  BY DEF TypeOK
<1>4. CorrectionIsClean'
  BY DEF TypeOK
<1> QED
  BY <1>1, <1>2, <1>3, <1>4

\* A jump is stored when nothing is locked.
LEMMA StoreInv ==
  ASSUME ~ResetOverlaps, IInv, StoreSample
  PROVE  IInv'
<1> USE DEF IInv, PlacesOK, LockedIsClean, CorrectionIsClean, Goto, ControlMay, inputVars,
        history, StoreSample
<1>1. TypeOK'
  BY AgesOK, ResetAssumption DEF TypeOK, Commands, Events
<1>2. PlacesOK'
  BY DEF TypeOK
<1>3. LockedIsClean'
  BY DEF TypeOK
<1>4. CorrectionIsClean'
  BY DEF TypeOK
<1> QED
  BY <1>1, <1>2, <1>3, <1>4

\* Disabling is followed by the unlock.
LEMMA EnableInv ==
  ASSUME ~ResetOverlaps, IInv, NEW on \in BOOLEAN, Enable(on)
  PROVE  IInv'
<1> USE DEF IInv, PlacesOK, LockedIsClean, CorrectionIsClean, Goto, ControlMay, inputVars,
        history, Enable, AdminGoto, Happens
<1>1. TypeOK'
  BY AgesOK, ResetAssumption DEF TypeOK, Commands, Events
<1>2. PlacesOK'
  BY DEF TypeOK
<1>3. LockedIsClean'
  BY DEF TypeOK
<1>4. CorrectionIsClean'
  BY DEF TypeOK
<1> QED
  BY <1>1, <1>2, <1>3, <1>4

\* The assignments of the admin group.
LEMMA AdminInv ==
  ASSUME ~ResetOverlaps, IInv, AdminStep
  PROVE  IInv'
<1> USE DEF IInv, PlacesOK, LockedIsClean, CorrectionIsClean, inputVars, AdminGoto
<1>1. CASE AdminUnlock
  BY <1>1 DEF AdminUnlock, TypeOK
<1>2. CASE AdminClear
  <2>1. TypeOK'
    BY <1>2, AgesOK DEF AdminClear, TypeOK
  <2> QED
    BY <1>2, <2>1 DEF AdminClear, TypeOK
<1>3. CASE ResetLock
  BY <1>3 DEF ResetLock, TypeOK
<1> QED
  BY <1>1, <1>2, <1>3 DEF AdminStep

\* The service takes the target between two callbacks.
LEMMA ResetHeadingInv ==
  ASSUME ~ResetOverlaps, IInv, ResetHeading
  PROVE  IInv'
<1> USE DEF IInv, PlacesOK, LockedIsClean, CorrectionIsClean, Goto, ControlMay, inputVars,
        history, ResetHeading, ServiceMay, AdminGoto, TakeTarget
<1>1. TypeOK'
  BY AgesOK, ResetAssumption DEF TypeOK, Commands, Events
<1>2. PlacesOK'
  BY DEF TypeOK
<1>3. LockedIsClean'
  BY DEF TypeOK
<1>4. CorrectionIsClean'
  BY DEF TypeOK
<1> QED
  BY <1>1, <1>2, <1>3, <1>4

\* A request that is taken brings a delay of RelockDelays.
LEMMA ParametersInv ==
  ASSUME ~ResetOverlaps, IInv, NEW delay \in Requests, UpdateParameters(delay)
  PROVE  IInv'
<1> USE DEF IInv, PlacesOK, LockedIsClean, CorrectionIsClean, Goto, ControlMay, inputVars,
        history, UpdateParameters, Requests
<1>1. TypeOK'
  BY AgesOK, ResetAssumption DEF TypeOK, Commands, Events
<1>2. PlacesOK'
  BY DEF TypeOK
<1>3. LockedIsClean'
  BY DEF TypeOK
<1>4. CorrectionIsClean'
  BY DEF TypeOK
<1> QED
  BY <1>1, <1>2, <1>3, <1>4

\* Time ages the stamps.
LEMMA TickInv ==
  ASSUME ~ResetOverlaps, IInv, Tick
  PROVE  IInv'
<1> USE DEF IInv, PlacesOK, LockedIsClean, CorrectionIsClean, Goto, ControlMay, inputVars,
        history, Tick
<1>1. TypeOK'
  BY AgesOK, ResetAssumption DEF TypeOK, Commands, Events
<1>2. PlacesOK'
  BY DEF TypeOK
<1>3. LockedIsClean'
  BY DEF TypeOK
<1>4. CorrectionIsClean'
  BY DEF TypeOK
<1> QED
  BY <1>1, <1>2, <1>3, <1>4

\* The invariant reads nothing but the variables.
LEMMA StutterInv ==
  ASSUME ~ResetOverlaps, IInv, UNCHANGED vars
  PROVE  IInv'
<1> USE DEF IInv, PlacesOK, LockedIsClean, CorrectionIsClean, Goto, ControlMay, inputVars,
        history, vars
<1>1. TypeOK'
  BY AgesOK, ResetAssumption DEF TypeOK, Commands, Events
<1>2. PlacesOK'
  BY DEF TypeOK
<1>3. LockedIsClean'
  BY DEF TypeOK
<1>4. CorrectionIsClean'
  BY DEF TypeOK
<1> QED
  BY <1>1, <1>2, <1>3, <1>4

\* One case per action of Next.
LEMMA InvariantNext ==
  ASSUME ~ResetOverlaps, IInv, [Next]_vars
  PROVE  IInv'
<1>1. CASE CallbackStep
  BY <1>1, TurningInv, SettlingInv, PublishInv, ResetInv, StoreInv DEF CallbackStep
<1>2. CASE Next /\ ~CallbackStep
  BY <1>2, CommandInv, ImuInv, ControlInv, EnableInv, AdminInv, ResetHeadingInv,
     ParametersInv, TickInv DEF Next
<1>3. CASE UNCHANGED vars
  BY <1>3, StutterInv
<1> QED
  BY <1>1, <1>2, <1>3
-----------------------------------------------------------------------------
\* The invariant holds when the reset service does not overlap with the control
\* group, whatever the timeouts.
THEOREM InvariantHolds ==
  ASSUME ~ResetOverlaps
  PROVE  Spec => []IInv
<1>1. IInv /\ [Next]_vars => IInv'
  BY InvariantNext
<1> QED
  BY InvariantInit, <1>1, PTL DEF Spec

\* Every variable of the node stays in its domain; update_parameters lets no invalid
\* delay in.
THEOREM TypeCorrect ==
  ASSUME ~ResetOverlaps
  PROVE  Spec => []TypeOK
<1>1. IInv => TypeOK
  BY DEF IInv
<1> QED
  BY InvariantHolds, <1>1, PTL

\* No correction that control() publishes is relative to a target taken before a jump,
\* an outage, a stop, a turn, a loss of commands or a disabling of the hold.
THEOREM CorrectionsSpanNothing ==
  ASSUME ~ResetOverlaps
  PROVE  Spec => CorrectionSpansNothing
<1>1. IInv => (PublishCorrected /\ out' = "corrected" => spanned = {})
  BY DEF IInv, CorrectionIsClean, PublishCorrected, Publish
<1>2. IInv /\ [Next]_vars => [PublishCorrected /\ out' = "corrected" => spanned = {}]_vars
  BY <1>1
<1> QED
  BY InvariantHolds, <1>2, PTL DEF Spec, CorrectionSpansNothing
=============================================================================
