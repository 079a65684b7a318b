------------------------- MODULE MCLifecycleHeading --------------------------
(* Small instances of LifecycleHeading.                                     *)
EXTENDS LifecycleHeading
=============================================================================
