--------------------------- MODULE AutoCalibration ---------------------------
(***************************************************************************)
(* Automatic calibration (src/core/bno055.cpp): begin() loads the profile  *)
(* of auto_calib_file_, and once per begin() the async reading thread      *)
(* saves the profile of a fully calibrated chip to it.  A process that     *)
(* ends, by itself or by the exception of getCalibrationStatus, is started *)
(* again and finds its files as it left them.                              *)
(*                                                                         *)
(* A profile is "good" if it is that of a calibrated chip and "poor"       *)
(* otherwise; a file of another size than a profile's is "short".  The     *)
(* detours through CONFIG mode are those of Bno055Driver, and the reader's *)
(* start and stop those of BackgroundReaders: here each is a step.         *)
(***************************************************************************)
CONSTANT Paths    \* of calibration files

VARIABLES
  enabled, path, saved,   \* auto_calib_enabled_, auto_calib_file_, auto_calib_saved_
  cached,                 \* offsets_data_, "none" without has_offsets_
  app,                    \* begin(): "idle" or about to "load"
  pc, data, target,       \* the reading thread, the profile it read and where it goes
  dangling,               \* has auto_calib_file_ changed under saveCalibrationFile?
  offsets, calibrated,    \* the chip's offset registers, its calibration status
  bus, disk,
  owed, mishap,           \* history: paths that were saved to; may a save have failed?
  restored                \* history: did begin() load a saved profile in this process?

configVars == <<enabled, path, saved>>
threadVars == <<pc, data, target, dangling>>
chipVars == <<offsets, calibrated>>
cacheVars == <<cached, restored>>
vars == <<configVars, cacheVars, app, threadVars, chipVars, bus, disk, owed, mishap>>

Profiles == {"good", "poor"}
NoPath == "none"

\* The offsets of the chip are those of its calibration only while nothing resets it.
Reset(profile) ==
  /\ offsets' = profile /\ calibrated' = FALSE
  /\ mishap' = (mishap \/ pc = "offsets")

\* A process without memory of an earlier one; a file that was being written stays short.
StartProcess ==
  /\ enabled' = FALSE /\ path' = NoPath /\ saved' = FALSE
  /\ cached' = "none" /\ restored' = FALSE
  /\ app' = "idle" /\ pc' = "off" /\ dangling' = FALSE
  /\ mishap' = (mishap \/ pc = "flush")
  /\ UNCHANGED <<data, target, chipVars, bus, disk, owed>>
-----------------------------------------------------------------------------
(* The application, while the reading thread goes on.                       *)

\* Mutant of enableAutoCalibration: the path is forgotten.
EnableOnly(p) ==
  /\ app = "idle" /\ p \in Paths
  /\ enabled' = TRUE
  /\ dangling' = (dangling \/ pc \in {"offsets", "open"})
  /\ UNCHANGED <<path, saved, cacheVars, app, pc, data, target, chipVars, bus, disk, owed,
                 mishap>>

\* The fields are not protected: a save that is under way holds a view of the path.
enableAutoCalibration(p) ==
  /\ app = "idle"
  /\ path' = p /\ enabled' = TRUE
  /\ dangling' = (dangling \/ pc \in {"offsets", "open"})
  /\ UNCHANGED <<saved, cacheVars, app, pc, data, target, chipVars, bus, disk, owed,
                 mishap>>

disableAutoCalibration ==
  /\ app = "idle" /\ enabled /\ enabled' = FALSE
  /\ UNCHANGED <<path, saved, cacheVars, app, threadVars, chipVars, bus, disk, owed,
                 mishap>>

\* begin() resets the chip ...
Begin ==
  /\ app = "idle" /\ bus = "up"
  /\ app' = "load"
  /\ Reset("poor")
  /\ UNCHANGED <<configVars, cacheVars, threadVars, bus, disk, owed>>

\* What was saved, and is not being written just now, is there to be loaded.
Due == enabled /\ path \in owed /\ pc # "flush"

\* Mutant of Upload: only what was uploaded is kept.
UploadAndKeep(profile) ==
  /\ restored' = (restored \/ Due)
  /\ IF bus = "up" THEN cached' = profile /\ offsets' = profile
     ELSE UNCHANGED <<cached, offsets>>

\* setSensorOffsets keeps the profile for the next recovery, then uploads it; whether
\* the upload works is not looked at.
Upload(profile) ==
  /\ cached' = profile /\ restored' = (restored \/ Due)
  /\ offsets' = IF bus = "up" THEN profile ELSE offsets

\* Mutant of LoadCalibration: the new begin() has nothing to save.
LoadAsSaved ==
  /\ app = "load" /\ app' = "idle"
  /\ IF enabled /\ disk[path] \in Profiles THEN Upload(disk[path])
     ELSE UNCHANGED <<cacheVars, offsets>>
  /\ saved' = enabled
  /\ UNCHANGED <<enabled, path, threadVars, calibrated, bus, disk, owed, mishap>>

\* ... and at its end loads the file, if it has the size of a profile.
LoadCalibration ==
  /\ app = "load" /\ app' = "idle"
  /\ IF enabled /\ disk[path] \in Profiles THEN Upload(disk[path])
     ELSE UNCHANGED <<cacheVars, offsets>>
  /\ saved' = (saved /\ ~enabled)
  /\ UNCHANGED <<enabled, path, threadVars, calibrated, bus, disk, owed, mishap>>

Move(label) == pc' = label /\ UNCHANGED <<data, target, dangling>>

\* startAsyncReading, and stopAsyncReading, which waits for the end of a cycle.
StartReading ==
  /\ app = "idle" /\ pc = "off" /\ Move("loop")
  /\ UNCHANGED <<configVars, cacheVars, app, chipVars, bus, disk, owed, mishap>>

StopReading ==
  /\ app = "idle" /\ pc = "loop" /\ Move("off")
  /\ UNCHANGED <<configVars, cacheVars, app, chipVars, bus, disk, owed, mishap>>
-----------------------------------------------------------------------------
(* The end of a cycle of the reading thread.                                *)

CheckEnabled ==
  /\ pc = "loop" /\ enabled /\ ~saved /\ Move("status")
  /\ UNCHANGED <<configVars, cacheVars, app, chipVars, bus, disk, owed, mishap>>

\* getCalibrationStatus throws when there is no answer, and nothing catches it.
CheckCalibration ==
  /\ pc = "status"
  /\ IF bus = "up"
     THEN /\ Move(IF calibrated THEN "offsets" ELSE "loop")
          /\ UNCHANGED <<configVars, cacheVars, app, chipVars, bus, disk, owed, mishap>>
     ELSE StartProcess

\* Mutant of ReadOffsets: the file is opened before the offsets are read.
ReadOffsetsAfterOpening ==
  /\ pc = "offsets"
  /\ disk' = [disk EXCEPT ![path] = "short"]
  /\ \/ /\ bus = "up"
        /\ pc' = "open" /\ data' = offsets /\ cached' = offsets
        /\ UNCHANGED <<target, dangling>>
     \/ bus = "down" /\ Move("loop") /\ dangling' = FALSE /\ UNCHANGED cached
  /\ UNCHANGED <<configVars, restored, app, chipVars, bus, owed, mishap>>

\* saveCalibrationFile: getSensorOffsets reads the profile and keeps it for the next
\* recovery ...
ReadOffsets ==
  /\ pc = "offsets"
  /\ \/ /\ bus = "up"
        /\ pc' = "open" /\ data' = offsets /\ cached' = offsets
        /\ UNCHANGED <<target, dangling>>
     \/ /\ bus = "down"
        /\ pc' = "loop" /\ dangling' = FALSE
        /\ UNCHANGED <<data, target, cached>>
  /\ UNCHANGED <<configVars, restored, app, chipVars, bus, disk, owed, mishap>>

\* ... then the file is opened, which empties it.  The name is a view of
\* auto_calib_file_: whatever is there by now.
OpenFile ==
  /\ pc = "open" /\ dangling' = FALSE
  /\ \/ \E p \in IF dangling THEN Paths ELSE {path} :
          /\ pc' = "flush" /\ target' = p
          /\ disk' = [disk EXCEPT ![p] = "short"]
     \/ pc' = "loop" /\ UNCHANGED <<target, disk>>
  /\ UNCHANGED <<configVars, cacheVars, app, data, chipVars, bus, owed, mishap>>

\* The profile goes out when the stream is closed; whether it does is not looked at.
WriteFile ==
  /\ pc = "flush" /\ Move("mark")
  /\ \/ /\ disk' = [disk EXCEPT ![target] = data]
        /\ owed' = owed \cup {target}
        /\ UNCHANGED mishap
     \/ mishap' = TRUE /\ UNCHANGED <<disk, owed>>
  /\ UNCHANGED <<configVars, cacheVars, app, chipVars, bus>>

MarkSaved ==
  /\ pc = "mark" /\ Move("loop")
  /\ saved' = TRUE
  /\ UNCHANGED <<enabled, path, cacheVars, app, chipVars, bus, disk, owed, mishap>>
-----------------------------------------------------------------------------
(* The rest of the world.                                                   *)

\* A transaction of whatever call falls into reconnect(), which resets the chip and
\* uploads the profile it has kept.  (One that fails half-way is Bno055Driver's.)
Recover ==
  /\ bus = "up"
  /\ Reset(IF cached = "none" THEN "poor" ELSE cached)
  /\ UNCHANGED <<configVars, cacheVars, app, threadVars, bus, disk, owed>>

Crash == StartProcess

BusChanges ==
  /\ bus' = IF bus = "up" THEN "down" ELSE "up"
  /\ UNCHANGED <<configVars, cacheVars, app, threadVars, chipVars, disk, owed, mishap>>

BrownOut ==
  /\ Reset("poor")
  /\ UNCHANGED <<configVars, cacheVars, app, threadVars, bus, disk, owed>>

SelfCalibrate ==
  /\ calibrated' = TRUE /\ offsets' = "good"
  /\ UNCHANGED <<configVars, cacheVars, app, threadVars, bus, disk, owed, mishap>>

\* A disturbance lowers the status and leaves the offsets.
LoseCalibration ==
  /\ calibrated' = FALSE
  /\ UNCHANGED <<configVars, cacheVars, app, threadVars, offsets, bus, disk, owed, mishap>>

Init ==
  /\ enabled = FALSE /\ path = NoPath /\ saved = FALSE /\ cached = "none"
  /\ app = "idle"
  /\ pc = "off" /\ data = "poor" /\ target = NoPath /\ dangling = FALSE
  /\ offsets = "poor" /\ calibrated = FALSE /\ bus = "up"
  /\ disk = [p \in Paths |-> "none"]
  /\ owed = {} /\ mishap = FALSE /\ restored = FALSE

Cycle ==
  CheckEnabled \/ CheckCalibration \/ ReadOffsets \/ OpenFile \/ WriteFile \/ MarkSaved

Next ==
  \/ \E p \in Paths : enableAutoCalibration(p)
  \/ disableAutoCalibration
  \/ Begin \/ LoadCalibration
  \/ StartReading \/ StopReading
  \/ Cycle
  \/ Recover \/ Crash \/ BusChanges \/ BrownOut \/ SelfCalibrate \/ LoseCalibration

Spec == Init /\ [][Next]_vars

\* The reading thread goes on, and files that can be opened sometimes are.
FairSpec ==
  /\ Spec
  /\ WF_vars(Cycle) /\ SF_vars(OpenFile /\ pc' = "flush")
-----------------------------------------------------------------------------
\* Every variable stays in its domain, and who is about to write has somewhere to.
TypeOK ==
  /\ {enabled, saved, dangling, calibrated, mishap, restored} \subseteq BOOLEAN
  /\ path \in Paths \cup {NoPath} /\ target \in Paths \cup {NoPath}
  /\ cached \in Profiles \cup {"none"} /\ {data, offsets} \subseteq Profiles
  /\ app \in {"idle", "load"}
  /\ pc \in {"off", "loop", "status", "offsets", "open", "flush", "mark"}
  /\ bus \in {"up", "down"}
  /\ disk \in [Paths -> Profiles \cup {"none", "short"}]
  /\ owed \subseteq Paths
  /\ enabled \/ pc \in {"status", "offsets", "open"} => path \in Paths
  /\ pc \in {"flush", "mark"} => target \in Paths

\* A profile that was saved once by automatic calibration is there until it is written
\* anew, whatever the bus does in the middle of a save and whatever upload fails: only a
\* process that ends while the file is open, a disk that refuses the bytes or a chip
\* reset between the check and the reading costs it (saveCalibrationFile).
ProfileSurvives ==
  \A p \in owed : disk[p] = "good" \/ (pc = "flush" /\ target = p) \/ mishap

\* What an earlier process, or an earlier begin(), saved is back in the chip when
\* begin() returns, unless the bus is down as it is uploaded, of which nobody is told;
\* and whether that upload worked or not, every recovery that goes through brings it to
\* the chip from then on, as long as no save went wrong as above (begin,
\* loadCalibrationFile, setSensorOffsets, reconnect).
BeginRestoresProfile ==
  [][/\ LoadCalibration /\ Due => offsets' = "good" \/ bus = "down" \/ mishap
     /\ Recover /\ restored => offsets' = "good" \/ mishap']_vars

\* A reader with automatic calibration writes a file sooner or later, if the chip
\* stays calibrated and the bus up, and then leaves it alone.
CalibrationIsSaved ==
  <>[](enabled /\ pc # "off" /\ calibrated /\ bus = "up")
    => <>[](saved /\ (owed # {} \/ mishap))
-----------------------------------------------------------------------------
(* Stated, and not kept.                                                    *)

\* "Writes offsets back to the disk target once fully calibrated status is reached":
\* auto_calib_saved_ is not about the target that is enabled now.
TargetIsWritten == enabled /\ saved => path \in owed \/ mishap
=============================================================================
