------------------------------- MODULE MCIde -------------------------------
(* Small instances of Ide.                                                 *)
EXTENDS Ide

CONSTANTS t1, t2

(* Reads of one command (a uint8_t counts their sectors), writes of one    *)
(* and of two.                                                             *)
MCCounts == [o \in {"read", "write"} |-> IF o = "read" THEN {1} ELSE {1, 3}]

ReadsOnly == [o \in {"read", "write"} |-> IF o = "read" THEN {1} ELSE {}]
=============================================================================
