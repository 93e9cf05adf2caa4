------------------------- MODULE MCIOServiceThread -------------------------
(* Small instances of IOServiceThread.                                     *)
EXTENDS IOServiceThread
=============================================================================
