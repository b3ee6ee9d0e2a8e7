------------------------------- MODULE Thread -------------------------------
(***************************************************************************)
(* The task scheduler of thread/thread.c, the interrupt flag it runs under *)
(* (kernel/interrupt.c), the clock interrupt (device/timer.c) and the      *)
(* intrusive lists (lib/kernel/list.c), on one processor.                  *)
(*                                                                         *)
(* Granularity.  Code that runs with interrupts disabled cannot be         *)
(* interleaved with anything until it calls schedule(), so such a region   *)
(* is one action; code that runs with interrupts enabled is cut at every   *)
(* read or write of shared state.                                          *)
(*                                                                         *)
(* The fields of the locks are declared here, below sync.c, because        *)
(* schedule() itself calls printk(), which takes console_lock.             *)
(***************************************************************************)
EXTENDS Naturals, Sequences

CONSTANTS
    Threads,       \* the task_structs, the main thread's included
    MainThread,    \* main_thread, the flow of control that entered main()
    Locks,         \* the lock structs of the kernel
    console_lock,  \* console.c's lock, taken by every printk()
    PriorityArg,   \* [Threads -> uint16_t]: thread_start's priority argument
    NULL

ASSUME ThreadAssumption ==
    /\ MainThread \in Threads
    /\ console_lock \in Locks
    /\ NULL \notin Threads
    /\ NULL \notin Locks
    /\ PriorityArg \in [Threads -> Nat]

VARIABLES
    cur,         \* running_thread(): the task on the processor
    intr,        \* the IF bit of EFLAGS
    status,      \* task_struct.status, "none" before thread_start
    ticks,       \* task_struct.ticks, what is left of the time slice
    ready_list,  \* thread_ready_list
    pc,          \* the kernel statement each task executes next
    eflags,      \* the IF bit a switched-out task continues with
    value,       \* lock.semaphore.value
    waiters,     \* lock.semaphore.waiters
    holder,      \* lock.holder
    repeat_nr,   \* lock.holder_repeat_nr
    panic        \* the failed ASSERT that stopped the machine, or "none"

task_vars == <<cur, intr, status, ticks, ready_list, eflags>>
lock_vars == <<value, waiters, holder, repeat_nr>>

default_thread_priority == 50

TaskStatus == {"none", "TASK_RUNNING", "TASK_READY", "TASK_BLOCKED"}

PanicReason == {"none", "ready_list", "idle_thread", "console_lock",
                "unblock", "sema", "holder"}

-----------------------------------------------------------------------------
(* lib/kernel/list.c: a list of general_tags is the sequence of its tasks. *)

list_push(plist, elem) == <<elem>> \o plist

(* Faulty variant: the element is linked in at the wrong end.              *)
list_append_front(plist, elem) == <<elem>> \o plist

list_append(plist, elem) == Append(plist, elem)

list_empty(plist) == plist = <<>>

elem_find(plist, elem) == \E i \in 1 .. Len(plist) : plist[i] = elem

-----------------------------------------------------------------------------
(* Faulty variant: the slice is not cut to a uint8_t.                      *)
priority_wide(t) ==
    IF PriorityArg[t] = 0 THEN default_thread_priority ELSE PriorityArg[t]

(* init_thread: 0 selects the default, the sum is stored in a uint8_t.     *)
priority(t) ==
    (IF PriorityArg[t] = 0 THEN default_thread_priority ELSE PriorityArg[t]) % 256

(* panic_spin: the message is printed with interrupts off, then while(1).  *)
panic_spin(reason) ==
    /\ panic' = reason
    /\ UNCHANGED <<task_vars, value, holder, repeat_nr>>

(* printk() called by cur with interrupts off: console_put_str acquires    *)
(* and releases console_lock.  It returns only when the lock is free or    *)
(* already cur's: blocking on it would call schedule(), and so printk(),   *)
(* again, with cur already on console_lock's waiters.  A waiter, which the *)
(* release would wake, would be in the same place: there must be none.     *)
printk_returns ==
    /\ list_empty(waiters[console_lock])
    /\ \/ value[console_lock] = 1 /\ repeat_nr[console_lock] = 0
       \/ holder[console_lock] = cur

(* lock_acquire had set holder but not yet holder_repeat_nr: the nested    *)
(* acquire counts to 1 and its release gives the semaphore up.             *)
printk_gives_up_lock ==
    /\ holder[console_lock] = cur
    /\ repeat_nr[console_lock] = 0

printk ==
    IF printk_gives_up_lock
    THEN /\ value' = [value EXCEPT ![console_lock] = 1]
         /\ holder' = [holder EXCEPT ![console_lock] = NULL]
         /\ UNCHANGED repeat_nr
    ELSE UNCHANGED <<value, holder, repeat_nr>>

(* The ASSERT schedule() would fail.  idle_thread is never created         *)
(* (thread_init has the call commented out), so an empty ready list ends   *)
(* in thread_unblock(NULL), which takes a word of the interrupt vectors at *)
(* address 0 for a status.                                                 *)
schedule_fault(st, rq) ==
    IF st[cur] = "TASK_RUNNING" /\ elem_find(rq, cur)    THEN "ready_list"
    ELSE IF ~printk_returns                             THEN "console_lock"
    ELSE IF st[cur] # "TASK_RUNNING" /\ list_empty(rq)   THEN "idle_thread"
    ELSE "none"

(* next->status = TASK_RUNNING; the faulty variant forgets it.             *)
switch_in_unmarked(st, next) == st

switch_in(st, next) == [st EXCEPT ![next] = "TASK_RUNNING"]

(* schedule(), with the task states st and the ready list rq its caller    *)
(* has prepared: a task that is still RUNNING goes to the back with a      *)
(* fresh slice, the front of the list gets the processor.  resume is the   *)
(* IF bit the caller restores once cur is switched in again.               *)
schedule(st, rq, resume) ==
    LET running == st[cur] = "TASK_RUNNING"
        rq1     == IF running THEN list_append(rq, cur) ELSE rq
        st1     == IF running THEN [st EXCEPT ![cur] = "TASK_READY"] ELSE st
        next    == Head(rq1)
    IN  /\ ticks' = IF running THEN [ticks EXCEPT ![cur] = priority(cur)]
                               ELSE ticks
        /\ ready_list' = Tail(rq1)
        /\ status' = switch_in(st1, next)
        /\ eflags' = [eflags EXCEPT ![cur] = resume]
        /\ cur' = next
        /\ intr' = eflags'[next]
        /\ printk
        /\ UNCHANGED panic

(* thread_block(TASK_BLOCKED), up to the switch; the caller says with      *)
(* which IF bit the task goes on, and what becomes of waiters.             *)
thread_block(resume) ==
    LET st == [status EXCEPT ![cur] = "TASK_BLOCKED"]
    IN  IF schedule_fault(st, ready_list) # "none"
        THEN panic_spin(schedule_fault(st, ready_list))
        ELSE schedule(st, ready_list, resume)

(* thread_unblock's ASSERTs, and its effect: the woken task goes to the    *)
(* front of the ready list.                                                *)
unblock_fails(t) ==
    \/ status[t] # "TASK_BLOCKED"
    \/ elem_find(ready_list, t)

thread_unblock(t) ==
    /\ ready_list' = list_push(ready_list, t)
    /\ status' = [status EXCEPT ![t] = "TASK_READY"]

(* thread_yield, whose caller has the IF bit intr.                         *)
thread_yield ==
    LET st == [status EXCEPT ![cur] = "TASK_READY"]
        rq == list_append(ready_list, cur)
    IN  /\ IF elem_find(ready_list, cur) THEN panic_spin("ready_list")
           ELSE IF schedule_fault(st, rq) # "none" THEN panic_spin(schedule_fault(st, rq))
           ELSE schedule(st, rq, intr)
        /\ UNCHANGED waiters

(* The clock interrupt, taken whenever IF is set: the last tick of the     *)
(* slice switches tasks, and iretd sets IF again when cur is resumed.      *)
intr_timer_handler ==
    /\ intr
    /\ IF ticks[cur] > 0
       THEN /\ ticks' = [ticks EXCEPT ![cur] = @ - 1]
            /\ UNCHANGED <<cur, intr, status, ready_list, eflags,
                           value, holder, repeat_nr, panic>>
       ELSE IF schedule_fault(status, ready_list) # "none"
       THEN panic_spin(schedule_fault(status, ready_list))
       ELSE schedule(status, ready_list, TRUE)
    /\ UNCHANGED <<waiters, pc>>

-----------------------------------------------------------------------------
(* thread_init and make_main_thread: only the main thread exists, running  *)
(* with interrupts still off, and no lock is taken.                        *)
thread_init ==
    /\ cur = MainThread
    /\ intr = FALSE
    /\ status = [t \in Threads |->
                   IF t = MainThread THEN "TASK_RUNNING" ELSE "none"]
    /\ ticks = [t \in Threads |-> priority(t)]
    /\ ready_list = <<>>
    /\ eflags = [t \in Threads |-> FALSE]
    /\ value = [l \in Locks |-> 1]
    /\ waiters = [l \in Locks |-> <<>>]
    /\ holder = [l \in Locks |-> NULL]
    /\ repeat_nr = [l \in Locks |-> 0]
    /\ panic = "none"

(* thread_start, called by main() before it enables interrupts.            *)
thread_start(t) ==
    /\ status[t] = "none"
    /\ status' = [status EXCEPT ![t] = "TASK_READY"]
    /\ ready_list' = list_append(ready_list, t)
    /\ UNCHANGED <<cur, intr, ticks, eflags, lock_vars, panic>>
=============================================================================
