------------------------- MODULE SensorPublisherProofs ------------------------
(* What holds of the publisher nodes in every behavior.                     *)
EXTENDS SensorPublisher, TLAPS

\* Where the node is tells what it has: a timer and active publishers only from the
\* activation on, and a callback without them is one that outlived its activation.
NodeOK ==
  /\ timer => lifecycle \in {"active", "finalized"}
  /\ publisher = "on" => lifecycle \in {"active", "finalized", "dead"}
  /\ transition # "none" => lifecycle = "inactive"
  /\ pc # "idle" => kind = "managed" /\ lifecycle # "dead"
  /\ pc # "idle" /\ (publisher # "on" \/ lifecycle \in {"inactive", "unconfigured"})
       => outlived
  /\ pc \notin {"idle", "others"} /\ lifecycle \in {"inactive", "unconfigured"}
       => strays = 0
  /\ lifecycle = "dead" => outlived

\* Can the callback that is under way still publish the frame in the chip?
Coming == pc = "quat" \/ (pc = "rest" /\ sample = "new")

\* The messages there are with this frame and those that may still come are two.
CopiesOK ==
  kind = "managed" /\ ~blind =>
    copies + (IF Coming THEN 1 ELSE 0) + (IF seen THEN 0 ELSE 1) <= 2

IInv == TypeOK /\ NodeOK /\ CopiesOK
-----------------------------------------------------------------------------
\* The invariant holds before the node is constructed or configured.
LEMMA InitHolds == Init => IInv
<1>1. Init => TypeOK
  <2>1. Init => copies \in 0 .. 3 /\ strays \in 0 .. 2
    BY DEF Init
  <2>2. QED
    BY <2>1, Zenon DEF Init, TypeOK
<1>2. Init => NodeOK
  BY DEF Init, NodeOK
<1>3. Init => CopiesOK
  BY DEF Init, CopiesOK, Coming
<1>4. QED
  BY <1>1, <1>2, <1>3 DEF IInv

\* Each variable stays in its domain, in a step of each action.
LEMMA TypeKept == ASSUME TypeOK, NodeOK, [Next]_vars PROVE TypeOK'
<1> USE DEF TypeOK, NodeOK, nodeVars, callbackVars, frameVars
<1>1. CASE Construct
  BY <1>1 DEF Construct
<1>2. CASE PublishBurst
  BY <1>2 DEF PublishBurst
<1>3. CASE Configure
  BY <1>3 DEF Configure, Begin
<1>4. CASE Activate
  BY <1>4 DEF Activate, Begin
<1>5. CASE Deactivate
  <2>1. strays' \in 0 .. 2
    BY <1>5 DEF Deactivate
  <2>2. outlived' \in BOOLEAN /\ (pc' \notin {"idle", "taken"} /\ ~borrowed' => outlived')
    BY <1>5, Zenon DEF Deactivate
  <2>3. timer' = FALSE /\ publisher' = "off" /\ lifecycle' = "inactive"
    BY <1>5 DEF Deactivate
  <2>4. UNCHANGED <<kind, transition, initialized, pc, sample, borrowed, frameVars, bus>>
    BY <1>5 DEF Deactivate
  <2>5. QED
    BY <2>1, <2>2, <2>3, <2>4, Zenon
<1>6. CASE CleanUp
  BY <1>6 DEF CleanUp, Begin
<1>7. CASE CleanUpDriver
  BY <1>7 DEF CleanUpDriver
<1>8. CASE CleanUpFlag
  BY <1>8 DEF CleanUpFlag
<1>9. CASE ShutDown
  BY <1>9 DEF ShutDown, Begin
<1>10. CASE Take
  BY <1>10 DEF Take
<1>11. CASE StartCycle
  BY <1>11 DEF StartCycle, Terminate
<1>12. CASE FinishRaw
  BY <1>12 DEF FinishRaw, Terminate
<1>13. CASE FinishQuaternion
  BY <1>13 DEF FinishQuaternion, Terminate
<1>14. CASE PublishImu
  BY <1>14 DEF PublishImu, Complete
<1>15. CASE DropImu
  BY <1>15 DEF DropImu, Terminate, Complete
<1>16. CASE SendTransform
  BY <1>16 DEF SendTransform
<1>17. CASE SkipTransform
  BY <1>17 DEF SkipTransform
<1>18. CASE PublishOthers
  BY <1>18 DEF PublishOthers
<1>19. CASE DropOthers
  BY <1>19 DEF DropOthers, Terminate
<1>20. CASE ChipUpdates
  <2>1. copies' \in 0 .. 3
    BY <1>20 DEF ChipUpdates
  <2>2. QED
    BY <2>1, <1>20, Zenon DEF ChipUpdates
<1>21. CASE BusChanges
  BY <1>21 DEF BusChanges
<1>22. CASE UNCHANGED vars
  BY <1>22 DEF vars
<1>23. QED
  BY <1>1, <1>2, <1>3, <1>4, <1>5, <1>6, <1>7, <1>8, <1>9, <1>10, <1>11, <1>12,
     <1>13, <1>14, <1>15, <1>16, <1>17, <1>18, <1>19, <1>20, <1>21, <1>22 DEF Next, CleanUpStep, CallbackStep

\* What the node has follows its state.
LEMMA NodeKept == ASSUME TypeOK, NodeOK, [Next]_vars PROVE NodeOK'
<1> USE DEF TypeOK, NodeOK, nodeVars, callbackVars, frameVars
<1>1. CASE Construct
  BY <1>1 DEF Construct
<1>2. CASE PublishBurst
  BY <1>2 DEF PublishBurst
<1>3. CASE Configure
  BY <1>3 DEF Configure, Begin
<1>4. CASE Activate
  BY <1>4 DEF Activate, Begin
<1>5. CASE Deactivate
  BY <1>5 DEF Deactivate, Begin
<1>6. CASE CleanUp
  BY <1>6 DEF CleanUp, Begin
<1>7. CASE CleanUpDriver
  BY <1>7 DEF CleanUpDriver
<1>8. CASE CleanUpFlag
  BY <1>8 DEF CleanUpFlag
<1>9. CASE ShutDown
  BY <1>9 DEF ShutDown, Begin
<1>10. CASE Take
  BY <1>10 DEF Take
<1>11. CASE StartCycle
  BY <1>11 DEF StartCycle, Terminate
<1>12. CASE FinishRaw
  BY <1>12 DEF FinishRaw, Terminate
<1>13. CASE FinishQuaternion
  BY <1>13 DEF FinishQuaternion, Terminate
<1>14. CASE PublishImu
  BY <1>14 DEF PublishImu, Complete
<1>15. CASE DropImu
  BY <1>15 DEF DropImu, Terminate, Complete
<1>16. CASE SendTransform
  BY <1>16 DEF SendTransform
<1>17. CASE SkipTransform
  BY <1>17 DEF SkipTransform
<1>18. CASE PublishOthers
  BY <1>18 DEF PublishOthers
<1>19. CASE DropOthers
  BY <1>19 DEF DropOthers, Terminate
<1>20. CASE ChipUpdates
  BY <1>20 DEF ChipUpdates
<1>21. CASE BusChanges
  BY <1>21 DEF BusChanges
<1>22. CASE UNCHANGED vars
  BY <1>22 DEF vars
<1>23. QED
  BY <1>1, <1>2, <1>3, <1>4, <1>5, <1>6, <1>7, <1>8, <1>9, <1>10, <1>11, <1>12,
     <1>13, <1>14, <1>15, <1>16, <1>17, <1>18, <1>19, <1>20, <1>21, <1>22 DEF Next, CleanUpStep, CallbackStep

\* A message with the frame uses up one of the two: the frame is seen by the next
\* cycle that can read it.
LEMMA CopiesKept == ASSUME IInv, [Next]_vars PROVE CopiesOK'
<1> USE DEF IInv, TypeOK, NodeOK, CopiesOK, Coming, nodeVars, callbackVars, frameVars
<1>1. CASE Construct
  BY <1>1 DEF Construct
<1>2. CASE PublishBurst
  BY <1>2 DEF PublishBurst
<1>3. CASE Configure
  BY <1>3 DEF Configure, Begin
<1>4. CASE Activate
  BY <1>4 DEF Activate, Begin
<1>5. CASE Deactivate
  BY <1>5 DEF Deactivate, Begin
<1>6. CASE CleanUp
  BY <1>6 DEF CleanUp, Begin
<1>7. CASE CleanUpDriver
  BY <1>7 DEF CleanUpDriver
<1>8. CASE CleanUpFlag
  BY <1>8 DEF CleanUpFlag
<1>9. CASE ShutDown
  BY <1>9 DEF ShutDown, Begin
<1>10. CASE Take
  BY <1>10 DEF Take
<1>11. CASE StartCycle
  BY <1>11 DEF StartCycle, Terminate
<1>12. CASE FinishRaw
  BY <1>12 DEF FinishRaw, Terminate
<1>13. CASE FinishQuaternion
  BY <1>13 DEF FinishQuaternion, Terminate
<1>14. CASE PublishImu
  BY <1>14 DEF PublishImu, Complete
<1>15. CASE DropImu
  BY <1>15 DEF DropImu, Terminate, Complete
<1>16. CASE SendTransform
  BY <1>16 DEF SendTransform
<1>17. CASE SkipTransform
  BY <1>17 DEF SkipTransform
<1>18. CASE PublishOthers
  BY <1>18 DEF PublishOthers
<1>19. CASE DropOthers
  BY <1>19 DEF DropOthers, Terminate
<1>20. CASE ChipUpdates
  BY <1>20 DEF ChipUpdates
<1>21. CASE BusChanges
  BY <1>21 DEF BusChanges
<1>22. CASE UNCHANGED vars
  BY <1>22 DEF vars
<1>23. QED
  BY <1>1, <1>2, <1>3, <1>4, <1>5, <1>6, <1>7, <1>8, <1>9, <1>10, <1>11, <1>12,
     <1>13, <1>14, <1>15, <1>16, <1>17, <1>18, <1>19, <1>20, <1>21, <1>22 DEF Next, CleanUpStep, CallbackStep

\* The inductive invariant holds throughout.
THEOREM InvariantHolds == Spec => []IInv
<1>1. IInv /\ [Next]_vars => IInv'
  BY TypeKept, NodeKept, CopiesKept DEF IInv
<1>2. QED
  BY InitHolds, <1>1, PTL DEF Spec

\* Every variable of the publishers stays in its domain, and a callback that goes on
\* without a driver outlived its activation.
THEOREM TypeCorrect == Spec => []TypeOK
<1>1. IInv => TypeOK
  BY DEF IInv
<1>2. QED
  BY InvariantHolds, <1>1, PTL

\* A frame is published at most twice, unless the raw frame could not be read.
THEOREM FramesAreFiltered == Spec => []AtMostTwice
<1>1. IInv => AtMostTwice
  BY DEF IInv, TypeOK, CopiesOK, AtMostTwice
<1>2. QED
  BY InvariantHolds, <1>1, PTL

\* A node that is not active sends no sensor message, and no transform but one for each
\* deactivation, out of a callback whose timer fired before it.
THEOREM InactiveNodesAreQuiet == Spec => InactiveIsQuiet
<1> DEFINE Quiet ==
      /\ PublishImu \/ PublishOthers => lifecycle \in {"active", "finalized"}
      /\ SendTransform =>
           lifecycle \in {"active", "finalized"} \/ (outlived /\ strays = 0)
<1>1. IInv => Quiet
  <2>1. ASSUME IInv, PublishImu \/ PublishOthers
        PROVE  lifecycle \in {"active", "finalized"}
    BY <2>1 DEF IInv, NodeOK, PublishImu, PublishOthers
  <2>2. ASSUME IInv, SendTransform, lifecycle \notin {"active", "finalized"}
        PROVE  outlived /\ strays = 0
    BY <2>2 DEF IInv, TypeOK, NodeOK, SendTransform
  <2> QED
    BY <2>1, <2>2
<1>2. QED
  BY InvariantHolds, <1>1, PTL DEF Spec, InactiveIsQuiet

\* Only a callback that was under way, or taken, at the deactivation kills the process.
THEOREM OnlyOvertakenKill == Spec => OnlyOvertakenCallbacksKill
<1>1. ASSUME IInv, [Next]_vars PROVE [lifecycle' = "dead" => outlived]_vars
  <2> USE <1>1
  <2> USE DEF IInv, TypeOK, NodeOK, nodeVars, callbackVars, frameVars
  <2>1. CASE Construct
    BY <2>1 DEF Construct
  <2>2. CASE PublishBurst
    BY <2>2 DEF PublishBurst
  <2>3. CASE Configure
    BY <2>3 DEF Configure, Begin
  <2>4. CASE Activate
    BY <2>4 DEF Activate, Begin
  <2>5. CASE Deactivate
    BY <2>5 DEF Deactivate, Begin
  <2>6. CASE CleanUp
    BY <2>6 DEF CleanUp, Begin
  <2>7. CASE CleanUpDriver
    BY <2>7 DEF CleanUpDriver
  <2>8. CASE CleanUpFlag
    BY <2>8 DEF CleanUpFlag
  <2>9. CASE ShutDown
    BY <2>9 DEF ShutDown, Begin
  <2>10. CASE Take
    BY <2>10 DEF Take
  <2>11. CASE StartCycle
    BY <2>11 DEF StartCycle, Terminate
  <2>12. CASE FinishRaw
    BY <2>12 DEF FinishRaw, Terminate
  <2>13. CASE FinishQuaternion
    BY <2>13 DEF FinishQuaternion, Terminate
  <2>14. CASE PublishImu
    BY <2>14 DEF PublishImu, Complete
  <2>15. CASE DropImu
    BY <2>15 DEF DropImu, Terminate, Complete
  <2>16. CASE SendTransform
    BY <2>16 DEF SendTransform
  <2>17. CASE SkipTransform
    BY <2>17 DEF SkipTransform
  <2>18. CASE PublishOthers
    BY <2>18 DEF PublishOthers
  <2>19. CASE DropOthers
    BY <2>19 DEF DropOthers, Terminate
  <2>20. CASE ChipUpdates
    BY <2>20 DEF ChipUpdates
  <2>21. CASE BusChanges
    BY <2>21 DEF BusChanges
  <2>22. CASE UNCHANGED vars
    BY <2>22 DEF vars
  <2>23. QED
    BY <2>1, <2>2, <2>3, <2>4, <2>5, <2>6, <2>7, <2>8, <2>9, <2>10, <2>11, <2>12,
       <2>13, <2>14, <2>15, <2>16, <2>17, <2>18, <2>19, <2>20, <2>21, <2>22 DEF Next, CleanUpStep, CallbackStep
<1>2. QED
  BY InvariantHolds, <1>1, PTL DEF Spec, OnlyOvertakenCallbacksKill
=============================================================================
