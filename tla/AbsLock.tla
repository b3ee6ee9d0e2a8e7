------------------------------- MODULE AbsLock -------------------------------
(***************************************************************************)
(* What thread/sync.c promises of a lock: it has at most one owner, a free *)
(* lock is given to one task, and only its owner gives it back.  Critical  *)
(* are the tasks inside the code that a lock protects.                     *)
(***************************************************************************)
CONSTANTS Threads, Locks, NULL

VARIABLES
    owner,      \* the owner of each lock, or NULL
    critical    \* the lock whose critical section each task executes, or NULL

LockInit ==
    /\ owner = [l \in Locks |-> NULL]
    /\ critical = [t \in Threads |-> NULL]

Acquire(t, l) ==
    /\ owner[l] = NULL
    /\ owner' = [owner EXCEPT ![l] = t]
    /\ UNCHANGED critical

Enter(t, l) ==
    /\ owner[l] = t
    /\ critical[t] = NULL
    /\ critical' = [critical EXCEPT ![t] = l]
    /\ UNCHANGED owner

Leave(t, l) ==
    /\ critical[t] = l
    /\ critical' = [critical EXCEPT ![t] = NULL]
    /\ UNCHANGED owner

Release(t, l) ==
    /\ owner[l] = t
    /\ critical[t] # l
    /\ owner' = [owner EXCEPT ![l] = NULL]
    /\ UNCHANGED critical

LockNext ==
    \E t \in Threads, l \in Locks :
        Acquire(t, l) \/ Enter(t, l) \/ Leave(t, l) \/ Release(t, l)

LockSpec == LockInit /\ [][LockNext]_<<owner, critical>>
=============================================================================
