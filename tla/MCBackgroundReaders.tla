------------------------ MODULE MCBackgroundReaders -------------------------
(* Small instances of BackgroundReaders.                                    *)
EXTENDS BackgroundReaders

CONSTANTS app
=============================================================================
