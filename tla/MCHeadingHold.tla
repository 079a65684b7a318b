---------------------------- MODULE MCHeadingHold ----------------------------
(* Small instances of HeadingHold.                                          *)
EXTENDS HeadingHold

MCRelockDelays == {1, 2}
MCOneDelay == {1}
=============================================================================
