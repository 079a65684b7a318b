-------------------------- MODULE MCAutoCalibration --------------------------
(* Small instances of AutoCalibration.                                      *)
EXTENDS AutoCalibration
=============================================================================
