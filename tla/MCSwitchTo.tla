----------------------------- MODULE MCSwitchTo -----------------------------
(* The main thread and two tasks.                                         *)
EXTENDS SwitchTo

CONSTANTS main, t1, t2
=============================================================================
