------------------------ MODULE AutoCalibrationProofs ------------------------
(* What holds of automatic calibration for every set of files.              *)
EXTENDS AutoCalibration, TLAPS

\* The chain from the chip to the file: a calibrated chip holds a good profile, so
\* does one that was found calibrated, and it is what gets written: a poor profile, in
\* the chip or in a file, is the trace of a mishap.
ChainOK ==
  /\ calibrated => offsets = "good" \/ mishap
  /\ pc = "offsets" => offsets = "good" \/ mishap
  /\ pc \in {"open", "flush"} => data = "good" \/ mishap
  /\ \A p \in Paths : disk[p] = "poor" => mishap

\* What begin() loaded is what the next recovery will upload.
CacheOK == restored => cached = "good" \/ mishap

IInv == TypeOK /\ ChainOK /\ CacheOK /\ ProfileSurvives
-----------------------------------------------------------------------------
\* The invariant holds at the start of the first process.
LEMMA InitHolds == Init => IInv
BY DEF Init, IInv, TypeOK, ChainOK, CacheOK, ProfileSurvives, NoPath, Profiles

\* Each variable stays in its domain, in a step of each action.
LEMMA TypeKept == ASSUME TypeOK, [Next]_vars PROVE TypeOK'
<1> USE DEF TypeOK, Profiles, NoPath, configVars, cacheVars, threadVars, chipVars
<1>1. ASSUME NEW p \in Paths, enableAutoCalibration(p) PROVE TypeOK'
  BY <1>1 DEF enableAutoCalibration
<1>2. CASE disableAutoCalibration
  BY <1>2 DEF disableAutoCalibration
<1>3. CASE Begin
  BY <1>3 DEF Begin, Reset
<1>4. CASE LoadCalibration
  BY <1>4 DEF LoadCalibration, Upload
<1>5. CASE StartReading
  BY <1>5 DEF StartReading, Move
<1>6. CASE StopReading
  BY <1>6 DEF StopReading, Move
<1>7. CASE CheckEnabled
  BY <1>7 DEF CheckEnabled, Move
<1>8. CASE CheckCalibration
  BY <1>8 DEF CheckCalibration, Move, StartProcess
<1>9. CASE ReadOffsets
  BY <1>9 DEF ReadOffsets
<1>10. CASE OpenFile
  BY <1>10 DEF OpenFile
<1>11. CASE WriteFile
  BY <1>11 DEF WriteFile, Move
<1>12. CASE MarkSaved
  BY <1>12 DEF MarkSaved, Move
<1>13. CASE Recover
  BY <1>13 DEF Recover, Reset
<1>14. CASE Crash
  BY <1>14 DEF Crash, StartProcess
<1>15. CASE BusChanges
  BY <1>15 DEF BusChanges
<1>16. CASE BrownOut
  BY <1>16 DEF BrownOut, Reset
<1>17. CASE SelfCalibrate
  BY <1>17 DEF SelfCalibrate
<1>18. CASE LoseCalibration
  BY <1>18 DEF LoseCalibration
<1>19. CASE UNCHANGED vars
  BY <1>19 DEF vars
<1>20. QED
  BY <1>1, <1>2, <1>3, <1>4, <1>5, <1>6, <1>7, <1>8, <1>9, <1>10, <1>11, <1>12, <1>13,
     <1>14, <1>15, <1>16, <1>17, <1>18, <1>19 DEF Next, Cycle

\* So does the chain: what breaks it between the check and the reading is a mishap.
LEMMA ChainKept == ASSUME IInv, [Next]_vars PROVE ChainOK'
<1> USE DEF IInv, TypeOK, ChainOK, Profiles, NoPath, configVars, cacheVars, threadVars, chipVars
<1>1. ASSUME NEW p \in Paths, enableAutoCalibration(p) PROVE ChainOK'
  BY <1>1 DEF enableAutoCalibration
<1>2. CASE disableAutoCalibration
  BY <1>2 DEF disableAutoCalibration
<1>3. CASE Begin
  BY <1>3 DEF Begin, Reset
<1>4. CASE LoadCalibration
  BY <1>4 DEF LoadCalibration, Upload
<1>5. CASE StartReading
  BY <1>5 DEF StartReading, Move
<1>6. CASE StopReading
  BY <1>6 DEF StopReading, Move
<1>7. CASE CheckEnabled
  BY <1>7 DEF CheckEnabled, Move
<1>8. CASE CheckCalibration
  BY <1>8 DEF CheckCalibration, Move, StartProcess
<1>9. CASE ReadOffsets
  BY <1>9 DEF ReadOffsets
<1>10. CASE OpenFile
  BY <1>10 DEF OpenFile
<1>11. CASE WriteFile
  BY <1>11 DEF WriteFile, Move
<1>12. CASE MarkSaved
  BY <1>12 DEF MarkSaved, Move
<1>13. CASE Recover
  BY <1>13 DEF Recover, Reset
<1>14. CASE Crash
  BY <1>14 DEF Crash, StartProcess
<1>15. CASE BusChanges
  BY <1>15 DEF BusChanges
<1>16. CASE BrownOut
  BY <1>16 DEF BrownOut, Reset
<1>17. CASE SelfCalibrate
  BY <1>17 DEF SelfCalibrate
<1>18. CASE LoseCalibration
  BY <1>18 DEF LoseCalibration
<1>19. CASE UNCHANGED vars
  BY <1>19 DEF vars
<1>20. QED
  BY <1>1, <1>2, <1>3, <1>4, <1>5, <1>6, <1>7, <1>8, <1>9, <1>10, <1>11, <1>12, <1>13,
     <1>14, <1>15, <1>16, <1>17, <1>18, <1>19 DEF Next, Cycle

\* The cache takes a profile from a file that is owed, or from the chip.
LEMMA CacheKept == ASSUME IInv, [Next]_vars PROVE CacheOK'
<1> USE DEF IInv, TypeOK, ChainOK, CacheOK, ProfileSurvives, Profiles, NoPath, configVars, cacheVars, threadVars, chipVars
<1>1. ASSUME NEW p \in Paths, enableAutoCalibration(p) PROVE CacheOK'
  BY <1>1 DEF enableAutoCalibration
<1>2. CASE disableAutoCalibration
  BY <1>2 DEF disableAutoCalibration
<1>3. CASE Begin
  BY <1>3 DEF Begin, Reset
<1>4. CASE LoadCalibration
  BY <1>4 DEF LoadCalibration, Upload, Due
<1>5. CASE StartReading
  BY <1>5 DEF StartReading, Move
<1>6. CASE StopReading
  BY <1>6 DEF StopReading, Move
<1>7. CASE CheckEnabled
  BY <1>7 DEF CheckEnabled, Move
<1>8. CASE CheckCalibration
  BY <1>8 DEF CheckCalibration, Move, StartProcess
<1>9. CASE ReadOffsets
  BY <1>9 DEF ReadOffsets
<1>10. CASE OpenFile
  BY <1>10 DEF OpenFile
<1>11. CASE WriteFile
  BY <1>11 DEF WriteFile, Move
<1>12. CASE MarkSaved
  BY <1>12 DEF MarkSaved, Move
<1>13. CASE Recover
  BY <1>13 DEF Recover, Reset
<1>14. CASE Crash
  BY <1>14 DEF Crash, StartProcess
<1>15. CASE BusChanges
  BY <1>15 DEF BusChanges
<1>16. CASE BrownOut
  BY <1>16 DEF BrownOut, Reset
<1>17. CASE SelfCalibrate
  BY <1>17 DEF SelfCalibrate
<1>18. CASE LoseCalibration
  BY <1>18 DEF LoseCalibration
<1>19. CASE UNCHANGED vars
  BY <1>19 DEF vars
<1>20. QED
  BY <1>1, <1>2, <1>3, <1>4, <1>5, <1>6, <1>7, <1>8, <1>9, <1>10, <1>11, <1>12, <1>13,
     <1>14, <1>15, <1>16, <1>17, <1>18, <1>19 DEF Next, Cycle

\* And what is owed stays: a good profile goes over a good one, through an open file.
LEMMA ProfileKept == ASSUME IInv, [Next]_vars PROVE ProfileSurvives'
<1> USE DEF IInv, TypeOK, ChainOK, ProfileSurvives, Profiles, NoPath, configVars, cacheVars, threadVars, chipVars
<1>1. ASSUME NEW p \in Paths, enableAutoCalibration(p) PROVE ProfileSurvives'
  BY <1>1 DEF enableAutoCalibration
<1>2. CASE disableAutoCalibration
  BY <1>2 DEF disableAutoCalibration
<1>3. CASE Begin
  BY <1>3 DEF Begin, Reset
<1>4. CASE LoadCalibration
  BY <1>4 DEF LoadCalibration, Upload
<1>5. CASE StartReading
  BY <1>5 DEF StartReading, Move
<1>6. CASE StopReading
  BY <1>6 DEF StopReading, Move
<1>7. CASE CheckEnabled
  BY <1>7 DEF CheckEnabled, Move
<1>8. CASE CheckCalibration
  BY <1>8 DEF CheckCalibration, Move, StartProcess
<1>9. CASE ReadOffsets
  BY <1>9 DEF ReadOffsets
<1>10. CASE OpenFile
  BY <1>10 DEF OpenFile
<1>11. CASE WriteFile
  BY <1>11 DEF WriteFile, Move
<1>12. CASE MarkSaved
  BY <1>12 DEF MarkSaved, Move
<1>13. CASE Recover
  BY <1>13 DEF Recover, Reset
<1>14. CASE Crash
  BY <1>14 DEF Crash, StartProcess
<1>15. CASE BusChanges
  BY <1>15 DEF BusChanges
<1>16. CASE BrownOut
  BY <1>16 DEF BrownOut, Reset
<1>17. CASE SelfCalibrate
  BY <1>17 DEF SelfCalibrate
<1>18. CASE LoseCalibration
  BY <1>18 DEF LoseCalibration
<1>19. CASE UNCHANGED vars
  BY <1>19 DEF vars
<1>20. QED
  BY <1>1, <1>2, <1>3, <1>4, <1>5, <1>6, <1>7, <1>8, <1>9, <1>10, <1>11, <1>12, <1>13,
     <1>14, <1>15, <1>16, <1>17, <1>18, <1>19 DEF Next, Cycle

\* The inductive invariant holds throughout.
THEOREM InvariantHolds == Spec => []IInv
<1>1. IInv /\ [Next]_vars => IInv'
  BY TypeKept, ChainKept, CacheKept, ProfileKept DEF IInv
<1>2. QED
  BY InitHolds, <1>1, PTL DEF Spec

\* Every variable of automatic calibration stays in its domain.
THEOREM TypeCorrect == Spec => []TypeOK
<1>1. IInv => TypeOK
  BY DEF IInv
<1>2. QED
  BY InvariantHolds, <1>1, PTL

\* A saved profile survives every failure of the bus, at any point of a save, for any
\* set of files and any calls of the application.
THEOREM SavedProfilesSurvive == Spec => []ProfileSurvives
<1>1. IInv => ProfileSurvives
  BY DEF IInv
<1>2. QED
  BY InvariantHolds, <1>1, PTL

\* What was saved is back in the chip at the end of begin(), unless the bus is down as it
\* is uploaded, and in any case after each recovery that follows.
THEOREM ProfilesAreRestored == Spec => BeginRestoresProfile
<1> DEFINE Restored ==
      /\ LoadCalibration /\ Due => offsets' = "good" \/ bus = "down" \/ mishap
      /\ Recover /\ restored => offsets' = "good" \/ mishap'
<1>1. IInv => Restored
  <2>1. ASSUME IInv, LoadCalibration, Due, bus # "down", ~mishap
        PROVE  offsets' = "good"
    <3>1. path \in Paths /\ disk[path] = "good"
      BY <2>1 DEF IInv, TypeOK, ProfileSurvives, Due
    <3>2. bus = "up" /\ enabled
      BY <2>1 DEF IInv, TypeOK, Due
    <3> QED
      BY <2>1, <3>1, <3>2 DEF LoadCalibration, Upload, Profiles
  <2>2. ASSUME IInv, Recover, restored
        PROVE  offsets' = "good" \/ mishap'
    BY <2>2 DEF IInv, CacheOK, Recover, Reset
  <2> QED
    BY <2>1, <2>2
<1>2. QED
  BY InvariantHolds, <1>1, PTL DEF Spec, BeginRestoresProfile
=============================================================================
