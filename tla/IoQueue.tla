------------------------------- MODULE IoQueue -------------------------------
(***************************************************************************)
(* The circular character queue of device/ioqueue.c.  Its functions assert *)
(* that interrupts are off, so a call runs without interleaving from its   *)
(* entry, or from the moment a blocked task is switched in again, to its   *)
(* return or its next block: each such stretch is one action.              *)
(*                                                                         *)
(* Which ready task runs next is left open; Thread.tla has the scheduler   *)
(* and Sync.tla the lock, of which the holder and the semaphore's waiters  *)
(* are all that these stretches can tell apart.                            *)
(***************************************************************************)
EXTENDS Naturals, Sequences, FiniteSets

CONSTANTS
    Tasks,      \* the tasks that call ioq_getchar and ioq_putchar
    Role,       \* [Tasks -> SUBSET {"producer", "consumer"}]: who calls what
    bufsize,    \* slots of the ring, one of which stays empty
    Char,
    NULL

ASSUME IoQueueAssumption ==
    /\ bufsize \in Nat \ {0, 1}
    /\ NULL \notin Tasks \cup Char
    /\ Role \in [Tasks -> SUBSET {"producer", "consumer"}]

VARIABLES
    head, tail, buf,  \* ioqueue.head, .tail and .buf
    sleeper,          \* ioqueue.producer and .consumer, by role
    holder,           \* ioqueue.lock.holder
    waiters,          \* ioqueue.lock.semaphore.waiters
    ready,            \* the tasks that are not TASK_BLOCKED
    pc,               \* where a task is: outside, or the call it blocked in
    role,             \* whether it is in ioq_getchar or ioq_putchar
    arg,              \* ioq_putchar's byte argument
    byte,             \* what ioq_getchar last returned
    failed            \* an ASSERT of ioq_wait or thread_unblock failed

queue_vars == <<head, tail, buf, sleeper, holder, waiters>>
task_vars == <<ready, pc, role, arg, byte, failed>>
vars == <<queue_vars, task_vars>>

(* The next slot of the ring; the faulty variant does not wrap around.     *)
next_pos_unwrapped(pos) == pos + 1

next_pos(pos) == (pos + 1) % bufsize

ioq_full == next_pos(head) = tail

ioq_empty == head = tail

(* The condition of the while loop in ioq_getchar and ioq_putchar.         *)
must_wait(r) == IF r = "consumer" THEN ioq_empty ELSE ioq_full

ioqueue_init ==
    /\ head = 0 /\ tail = 0
    /\ buf = [i \in 0 .. bufsize - 1 |-> NULL]
    /\ sleeper = [r \in {"producer", "consumer"} |-> NULL]
    /\ holder = NULL
    /\ waiters = <<>>

Init ==
    /\ ioqueue_init
    /\ ready = Tasks
    /\ pc = [t \in Tasks |-> "outside"]
    /\ role = [t \in Tasks |-> "consumer"]
    /\ arg = [t \in Tasks |-> NULL]
    /\ byte = [t \in Tasks |-> NULL]
    /\ failed = FALSE

-----------------------------------------------------------------------------
(* Faulty variant: the pointer still names the task that was woken.        *)
wakeup_keeps_pointer(r, rd) ==
    IF sleeper[r] = NULL
    THEN ready' = rd /\ UNCHANGED <<sleeper, failed>>
    ELSE /\ ready' = rd \cup {sleeper[r]}
         /\ failed' = (failed \/ sleeper[r] \in rd)
         /\ UNCHANGED sleeper

(* wakeup(&ioq->producer) or (&ioq->consumer), if somebody sleeps there;   *)
(* rd is the ready set so far.                                             *)
wakeup(r, rd) ==
    IF sleeper[r] = NULL
    THEN ready' = rd /\ UNCHANGED <<sleeper, failed>>
    ELSE /\ ready' = rd \cup {sleeper[r]}
         /\ failed' = (failed \/ sleeper[r] \in rd)
         /\ sleeper' = [sleeper EXCEPT ![r] = NULL]

(* ioq_wait: t, which has just got the lock, notes itself and blocks.      *)
ioq_wait(t, r, rd) ==
    /\ failed' = (failed \/ sleeper[r] # NULL)
    /\ sleeper' = [sleeper EXCEPT ![r] = t]
    /\ ready' = rd \ {t}
    /\ pc' = [pc EXCEPT ![t] = "ioq_wait"]

(* Faulty variant: a sleeping consumer is not woken.                       *)
put_silent(c, rd) ==
    /\ buf' = [buf EXCEPT ![head] = c]
    /\ head' = next_pos(head)
    /\ ready' = rd
    /\ UNCHANGED <<tail, byte, sleeper, failed>>

put(c, rd) ==
    /\ buf' = [buf EXCEPT ![head] = c]
    /\ head' = next_pos(head)
    /\ wakeup("consumer", rd)
    /\ UNCHANGED <<tail, byte>>

(* Faulty variant: tail moves on before the character is read.             *)
get_after_advance(t, rd) ==
    /\ byte' = [byte EXCEPT ![t] = buf[next_pos(tail)]]
    /\ tail' = next_pos(tail)
    /\ wakeup("producer", rd)
    /\ UNCHANGED <<head, buf>>

get(t, rd) ==
    /\ byte' = [byte EXCEPT ![t] = buf[tail]]
    /\ tail' = next_pos(tail)
    /\ wakeup("producer", rd)
    /\ UNCHANGED <<head, buf>>

(* lock_acquire finds the lock free; the faulty variant takes it anyway.   *)
lock_ignored(own) == TRUE

lock_free(own) == own = NULL

(* From the test of the while loop on, by task t in role r with argument   *)
(* c, when the lock is held by own, wq wait for it and rd are ready: the   *)
(* call returns, or it sleeps in ioq_wait holding the lock, or it waits    *)
(* for the lock in sema_down.                                              *)
while_loop(t, r, c, own, wq, rd) ==
    IF ~must_wait(r)
    THEN /\ IF r = "consumer" THEN get(t, rd) ELSE put(c, rd)
         /\ holder' = own
         /\ waiters' = wq
         /\ pc' = [pc EXCEPT ![t] = "outside"]
    ELSE /\ UNCHANGED <<head, tail, buf, byte>>
         /\ IF lock_free(own)
            THEN /\ ioq_wait(t, r, rd)
                 /\ holder' = t
                 /\ waiters' = wq
            ELSE /\ holder' = own
                 /\ waiters' = Append(wq, t)
                 /\ ready' = rd \ {t}
                 /\ pc' = [pc EXCEPT ![t] = "sema_down"]
                 /\ UNCHANGED <<sleeper, failed>>

ioq_getchar(t) ==
    /\ t \in ready /\ pc[t] = "outside" /\ "consumer" \in Role[t]
    /\ role' = [role EXCEPT ![t] = "consumer"]
    /\ while_loop(t, "consumer", NULL, holder, waiters, ready)
    /\ UNCHANGED arg

ioq_putchar(t, c) ==
    /\ t \in ready /\ pc[t] = "outside" /\ "producer" \in Role[t]
    /\ role' = [role EXCEPT ![t] = "producer"]
    /\ arg' = [arg EXCEPT ![t] = c]
    /\ while_loop(t, "producer", c, holder, waiters, ready)

(* t is switched in inside ioq_wait: it releases the lock, which wakes     *)
(* the first waiter, and goes round the loop.                              *)
after_ioq_wait(t) ==
    /\ t \in ready /\ pc[t] = "ioq_wait"
    /\ IF waiters = <<>>
       THEN while_loop(t, role[t], arg[t], NULL, <<>>, ready)
       ELSE while_loop(t, role[t], arg[t], NULL, Tail(waiters),
                       ready \cup {Head(waiters)})
    /\ UNCHANGED <<role, arg>>

(* t is switched in inside lock_acquire's sema_down: it waits again, or it *)
(* has the lock and sleeps, whatever the queue holds by now.               *)
after_sema_down(t) ==
    /\ t \in ready /\ pc[t] = "sema_down"
    /\ IF lock_free(holder)
       THEN /\ ioq_wait(t, role[t], ready)
            /\ holder' = t
            /\ UNCHANGED waiters
       ELSE /\ waiters' = Append(waiters, t)
            /\ ready' = ready \ {t}
            /\ UNCHANGED <<pc, sleeper, failed, holder>>
    /\ UNCHANGED <<head, tail, buf, role, arg, byte>>

task_step(t) ==
    \/ ioq_getchar(t)
    \/ \E c \in Char : ioq_putchar(t, c)
    \/ after_ioq_wait(t)
    \/ after_sema_down(t)

Next == \E t \in Tasks : task_step(t)

Spec == Init /\ [][Next]_vars

-----------------------------------------------------------------------------
(* Type invariant.                                                         *)
TypeOK ==
    /\ head \in 0 .. bufsize - 1
    /\ tail \in 0 .. bufsize - 1
    /\ buf \in [0 .. bufsize - 1 -> Char \cup {NULL}]
    /\ sleeper \in [{"producer", "consumer"} -> Tasks \cup {NULL}]
    /\ holder \in Tasks \cup {NULL}
    /\ waiters \in Seq(Tasks)
    /\ ready \subseteq Tasks
    /\ pc \in [Tasks -> {"outside", "ioq_wait", "sema_down"}]
    /\ role \in [Tasks -> {"producer", "consumer"}]
    /\ arg \in [Tasks -> Char \cup {NULL}]
    /\ byte \in [Tasks -> Char \cup {NULL}]
    /\ failed \in BOOLEAN

(* No ASSERT fails: the lock keeps a second task from overwriting the one  *)
(* pointer that remembers who sleeps, and only a sleeping task is woken.   *)
NoAssertFails == ~failed

(* The contents of the ring, oldest first, and the FIFO it implements:     *)
(* no character is lost, duplicated or overtaken, whoever sleeps where.    *)
count == (head + bufsize - tail) % bufsize

contents == [i \in 1 .. count |-> buf[(tail + i - 1) % bufsize]]

Abstract == INSTANCE Fifo WITH q <- contents, Capacity <- bufsize - 1

FifoRefinement == Abstract!FifoSpec

(* Whoever sleeps in ioq_wait is remembered, so that it can be woken, and  *)
(* it is the one that holds the lock.                                      *)
SleeperRemembered ==
    \A t \in Tasks :
        pc[t] = "ioq_wait" =>
            /\ holder = t
            /\ t \notin ready => sleeper[role[t]] = t

(* ioqueue.h: a consumer sleeps only while the buffer is empty.            *)
ConsumerSleepsWhenEmpty ==
    sleeper["consumer"] # NULL => ioq_empty

(* ioqueue.h: a producer writes while the buffer is not full, and a        *)
(* consumer reads while it is not empty, so they are never all asleep.     *)
SomebodyAwake == ready # {}

(* No order of ioq_getchar and ioq_putchar calls makes an ASSERT fail or   *)
(* forgets a sleeper.                                                      *)
QueueInv == TypeOK /\ NoAssertFails /\ SleeperRemembered
=============================================================================
