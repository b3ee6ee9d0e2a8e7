-------------------------------- MODULE Fifo --------------------------------
(***************************************************************************)
(* What device/ioqueue.c promises: a first-in first-out buffer of at most  *)
(* Capacity characters, out of which every character is taken once, by one *)
(* task.                                                                   *)
(***************************************************************************)
EXTENDS Naturals, Sequences

CONSTANTS Tasks, Capacity, Char, NULL

VARIABLES
    q,      \* the characters in the buffer, oldest first
    byte    \* the last character each task has taken, or NULL

FifoInit ==
    /\ q = <<>>
    /\ byte = [t \in Tasks |-> NULL]

Put(c) ==
    /\ Len(q) < Capacity
    /\ q' = Append(q, c)
    /\ UNCHANGED byte

Get(t) ==
    /\ q # <<>>
    /\ byte' = [byte EXCEPT ![t] = Head(q)]
    /\ q' = Tail(q)

FifoNext == (\E c \in Char : Put(c)) \/ (\E t \in Tasks : Get(t))

FifoSpec == FifoInit /\ [][FifoNext]_<<q, byte>>
=============================================================================
