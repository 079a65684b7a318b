-------------------------- MODULE MCSensorPublisher --------------------------
(* SensorPublisher has no constants: its instance is the module itself.     *)
EXTENDS SensorPublisher
=============================================================================
