-------------------------- MODULE MCKernelThreads --------------------------
(* Small instances of KernelThreads.                                       *)
EXTENDS KernelThreads

CONSTANTS main, t1, t2, mem_lock

(* Slices of one tick (priority 1), and a task of priority 256, which a    *)
(* uint8_t turns into 0.                                                   *)
MCPriority == [t \in Threads |-> IF t = t2 THEN 256 ELSE 1]
=============================================================================
