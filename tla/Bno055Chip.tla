----------------------------- MODULE Bno055Chip -----------------------------
(***************************************************************************)
(* The register file of the BNO055 chip as far as the driver's control     *)
(* depends on it.  The chip itself is not part of the repository: what is  *)
(* here is what src/core/bno055.cpp relies on (its comments on CONFIG mode,*)
(* on the two register pages and on the software reset).                   *)
(*                                                                         *)
(* Register values are strings or model values, so any two are comparable. *)
(***************************************************************************)

CONSTANTS
  FusionModes,     \* operating modes other than CONFIG and AMG
  RemappedAxes,    \* axis-map settings other than the power-on one, "P1"
  RemappedSigns,   \* axis-sign settings other than the power-on one, "P1"
  Profiles         \* calibration profiles (22 bytes of offsets)

ASSUME DomainsAvoidReservedValues ==
  /\ {"Config", "AMG"} \cap FusionModes = {}
  /\ "P1" \notin RemappedAxes \cup RemappedSigns
  /\ {"none", "short", "por", "torn"} \cap Profiles = {}

Mode    == {"Config", "AMG"} \cup FusionModes
AxisMap == {"P1"} \cup RemappedAxes
Sign    == {"P1"} \cup RemappedSigns
Switch  == {"on", "off"}

\* The offset registers: the power-on value, a profile, or the mixture of two
\* profiles that a reader of a half-copied array sees.
Offsets == {"por", "torn"} \cup Profiles

\* The sub-sensor registers of page 1 are either untouched or tuned by begin().
Tuning == {"default", "max"}

Page1Registers == {"acc", "gyr0", "gyr1"}

Chip == [opr  : Mode,
         pwr  : {"normal", "suspend"},
         page : {"p0", "p1"},
         xtal : Switch,
         unit : {"por", "SI"},
         axis : AxisMap,
         sign : Sign,
         offs : Offsets,
         acc  : Tuning,
         gyr0 : Tuning,
         gyr1 : Tuning]

\* The registers after power-on, a brown-out or a software reset.
PowerOn ==
  [opr |-> "Config", pwr |-> "normal", page |-> "p0", xtal |-> "off",
   unit |-> "por", axis |-> "P1", sign |-> "P1", offs |-> "por",
   acc |-> "default", gyr0 |-> "default", gyr1 |-> "default"]

\* The chip ignores writes to these unless it is in CONFIG mode.
ConfigOnly == {"pwr", "xtal", "unit", "axis", "sign", "offs"} \cup Page1Registers

\* A register is reached only through the page it lives on; the page
\* register itself is on both.
Addressable(c, reg) ==
  \/ reg = "page"
  \/ (reg \in Page1Registers) <=> (c.page = "p1")

Accepts(c, reg) ==
  /\ Addressable(c, reg)
  /\ reg \in ConfigOnly => c.opr = "Config"

\* The register file after a write of val to reg has reached the chip: "reset"
\* is bit 5 of SYS_TRIGGER, "xtal" its bit 7.
Written(c, reg, val) ==
  IF ~Accepts(c, reg) THEN c
  ELSE IF reg = "reset" THEN PowerOn
  ELSE [c EXCEPT ![reg] = val]
=============================================================================
