-------------------------- MODULE MCBno055Driver ---------------------------
(* Small instances of Bno055Driver.                                         *)
EXTENDS Bno055Driver

CONSTANTS app, poller, ndof, remap, calib

Plain(ops) == [op : ops, arg : {"none"}]
Setters ==
  [op : {"setMode"}, arg : {"Config", ndof}]
    \cup [op : {"setAxisRemap"}, arg : {remap}]
    \cup [op : {"setExtCrystalUse"}, arg : {"on"}]

\* One thread, which begins once and then configures.
ConfigureAlone ==
  [t \in Threads |-> Setters
     \cup [op : {"setAxisSign"}, arg : {remap}]
     \cup [op : {"setSensorOffsets"}, arg : {calib}]
     \cup Plain(Fetchers \cup {"loadCalibrationFile"} \cup Readers)]

\* One thread configures while another polls the sensor.
ConfigureAndPoll ==
  [t \in Threads |->
     IF t = app THEN Setters \cup Plain({"getSensorOffsets"}) \cup
                       [op : {"setSensorOffsets"}, arg : {calib}]
     ELSE Plain({"read8", "readLen"})]

\* Calls that restart the chip or change its power, next to another thread's.
RestartAndSet ==
  [t \in Threads |->
     IF t = app
     THEN [op : {"reset"}, arg : {ndof}]
            \cup Plain(PowerOps \cup {"saveCalibrationFile"})
     ELSE Plain({"getDiagnostics", "readLen"}) \cup [op : {"setAxisSign"}, arg : {remap}]]

\* Workloads of one kind of call.
Only(ops) == [t \in Threads |-> Plain(ops)]
SuspendAndWake == Only(PowerOps)
ReadOnly == Only({"read8"})
ResetOnly == [t \in Threads |-> [op : {"reset"}, arg : {"Config"}]]

\* The application selects modes while a service saves the calibration.
SelectAndSave ==
  [t \in Threads |-> IF t = app THEN [op : {"setMode"}, arg : {"AMG", ndof}]
                                ELSE Plain({"saveCalibrationFile"})]
UploadAndPoll ==
  [t \in Threads |-> IF t = app THEN [op : {"setSensorOffsets"}, arg : Profiles]
                                ELSE Plain({"read8"})]
ResetAndPoll ==
  [t \in Threads |-> IF t = app THEN ResetOnly[t] ELSE Plain({"readLen"})]

StartWith(modes) ==
  [t \in Threads |-> IF t = app THEN [op : {"begin"}, arg : modes] ELSE {}]
AnyStart  == StartWith({"AMG", ndof})
NdofStart == StartWith({ndof})
AmgStart  == StartWith({"AMG"})

\* No step reads the diagnostics or an earlier result, so states that differ in
\* nothing else need not be told apart.
Control == <<envVars, calls, chip, cache, file, clean, pc, frame, requested,
             tries, rec, mutex_, i2c_fd>>

\* Registers of a chip fresh from power-on, and of one that an earlier process
\* left running with its axes remapped.
FreshChip == {PowerOn}
LeftRunning == {PowerOn, [PowerOn EXCEPT !.opr = ndof, !.axis = remap, !.xtal = "on"]}
=============================================================================
