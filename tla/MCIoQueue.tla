----------------------------- MODULE MCIoQueue -----------------------------
(* Small instances of IoQueue.                                             *)
EXTENDS IoQueue

CONSTANTS p1, p2, c1, c2, a, b

MCRole == [t \in Tasks |->
             IF t \in {p1, p2} THEN {"producer"} ELSE {"consumer"}]
=============================================================================
