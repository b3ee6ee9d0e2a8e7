--------------------------- MODULE KernelThreads ---------------------------
(***************************************************************************)
(* The kernel at work: main() starts the tasks and enables interrupts      *)
(* (kernel/main.c), then every task computes, yields, parks itself, enters *)
(* the kernel through int 0x80 (sys_write, sys_malloc, sys_free: kernel.S, *)
(* syscall-init.c) or calls a kernel service directly, and the clock       *)
(* preempts whatever runs with interrupts enabled.                         *)
(*                                                                         *)
(* A service takes its lock, does its work in the statement "body" and     *)
(* releases the lock.  A task holds at most one lock, as in the source: no *)
(* service takes a second lock.                                            *)
(***************************************************************************)
EXTENDS Sync, FiniteSets

CONSTANT
    MaxRepeat   \* bound: how often a body takes its own lock again, plus 1

ASSUME MaxRepeatAssumption == MaxRepeat \in Nat \ {0}

VARIABLE
    frame       \* whether the task is inside int 0x80, above an intr_stack

vars == <<cur, intr, status, ticks, ready_list, pc, eflags, value, waiters,
          holder, repeat_nr, panic, lk, ret, old_status, frame>>

PC == SyncPC \cup {"boot", "kernel_thread", "run", "body", "service_end",
                   "parked"}

-----------------------------------------------------------------------------
(* init_all leaves the main thread in main(), interrupts off.              *)
Init ==
    /\ thread_init
    /\ sync_init
    /\ pc = [t \in Threads |-> IF t = MainThread THEN "boot" ELSE "kernel_thread"]
    /\ frame = [t \in Threads |-> FALSE]

(* main(): thread_start of one more task.                                  *)
main_thread_start(t) ==
    /\ panic = "none"
    /\ pc[cur] = "boot"
    /\ thread_start(t)
    /\ UNCHANGED <<pc, call_vars, frame>>

(* main()'s intr_enable, and kernel_thread's before the task's function.   *)
intr_enable ==
    /\ panic = "none"
    /\ pc[cur] \in {"boot", "kernel_thread"}
    /\ intr' = TRUE
    /\ goto("run")
    /\ UNCHANGED <<cur, status, ticks, ready_list, eflags, lock_vars, panic,
                   call_vars, frame>>

(* IF after int 0x80: the IDT holds interrupt gates, which clear it; with  *)
(* a trap gate (faulty variant) it would stay.                             *)
trap_gate == UNCHANGED intr

interrupt_gate == intr' = FALSE

(* int 0x80: the interrupt gate clears IF, the handler takes its lock.     *)
syscall_handler(l) ==
    /\ panic = "none"
    /\ pc[cur] = "run"
    /\ interrupt_gate
    /\ frame' = [frame EXCEPT ![cur] = TRUE]
    /\ lk' = [lk EXCEPT ![cur] = l]
    /\ ret' = [ret EXCEPT ![cur] = "body"]
    /\ goto("lock_acquire")
    /\ UNCHANGED <<cur, status, ticks, ready_list, eflags, lock_vars, panic, old_status>>

(* A kernel thread calls a service itself, as memory_thread calls          *)
(* sys_free: interrupts stay on.  The one call of the console like this,   *)
(* create_page_dir's report that there is no page left, is in Spawn.       *)
direct_call(l) ==
    /\ panic = "none"
    /\ pc[cur] = "run"
    /\ l # console_lock
    /\ lk' = [lk EXCEPT ![cur] = l]
    /\ ret' = [ret EXCEPT ![cur] = "body"]
    /\ goto("lock_acquire")
    /\ UNCHANGED <<task_vars, lock_vars, panic, old_status, frame>>

(* The body of a service may take the lock it holds again, and releases    *)
(* it as often as it took it.                                              *)
body_acquires_again ==
    /\ panic = "none"
    /\ pc[cur] = "body"
    /\ repeat_nr[lk[cur]] < MaxRepeat
    /\ goto("lock_acquire")
    /\ UNCHANGED <<task_vars, lock_vars, panic, call_vars, frame>>

body_releases ==
    /\ panic = "none"
    /\ pc[cur] = "body"
    /\ ret' = [ret EXCEPT ![cur] =
                 IF repeat_nr[lk[cur]] > 1 THEN "body" ELSE "service_end"]
    /\ goto("lock_release")
    /\ UNCHANGED <<task_vars, lock_vars, panic, lk, old_status, frame>>

(* The service returns; for int 0x80 intr_exit's iretd sets IF again.      *)
service_end ==
    /\ panic = "none"
    /\ pc[cur] = "service_end"
    /\ intr' = IF frame[cur] THEN TRUE ELSE intr
    /\ frame' = [frame EXCEPT ![cur] = FALSE]
    /\ lk' = [lk EXCEPT ![cur] = NULL]
    /\ goto("run")
    /\ UNCHANGED <<cur, status, ticks, ready_list, eflags, lock_vars, panic,
                   ret, old_status>>

(* mtime_sleep's loop, a task that gives up the processor.                 *)
yield ==
    /\ panic = "none"
    /\ pc[cur] = "run"
    /\ thread_yield
    /\ UNCHANGED <<pc, call_vars, frame>>

(* memory_thread's last thread_block: nobody will unblock it.  main()      *)
(* never does this, it ends in while(1).                                   *)
park ==
    /\ panic = "none"
    /\ pc[cur] = "run"
    /\ cur # MainThread
    /\ thread_block(intr)
    /\ goto("parked")
    /\ UNCHANGED <<waiters, call_vars, frame>>

clock_interrupt ==
    /\ panic = "none"
    /\ intr_timer_handler
    /\ UNCHANGED <<call_vars, frame>>

(* What the running task does next when it is inside the kernel.           *)
kernel_code ==
    \/ sync_step /\ UNCHANGED frame
    \/ intr_enable
    \/ body_acquires_again
    \/ body_releases
    \/ service_end

(* After a panic nothing moves.                                            *)
Next ==
    \/ kernel_code
    \/ \E t \in Threads : main_thread_start(t)
    \/ \E l \in Locks : syscall_handler(l) \/ direct_call(l)
    \/ yield
    \/ park
    \/ clock_interrupt

Spec == Init /\ [][Next]_vars

(* The processor goes on executing kernel code; a body is finite, so it    *)
(* does not take and release its lock again for ever; the 8259A keeps a    *)
(* clock interrupt pending while IF is clear, so it is taken whenever IF   *)
(* is set again and again.                                                 *)
Fairness ==
    /\ WF_vars(sync_step /\ UNCHANGED frame)
    /\ WF_vars(intr_enable \/ service_end)
    /\ WF_vars(body_releases)
    /\ SF_vars(body_releases /\ repeat_nr[lk[cur]] = 1)
    /\ SF_vars(clock_interrupt)

FairSpec == Spec /\ Fairness

-----------------------------------------------------------------------------
(* Type invariant.                                                         *)
TypeOK ==
    /\ cur \in Threads
    /\ intr \in BOOLEAN
    /\ status \in [Threads -> TaskStatus]
    /\ ticks \in [Threads -> 0 .. 255]
    /\ ready_list \in Seq(Threads)
    /\ pc \in [Threads -> PC]
    /\ eflags \in [Threads -> BOOLEAN]
    /\ value \in [Locks -> {0, 1}]
    /\ waiters \in [Locks -> Seq(Threads)]
    /\ holder \in [Locks -> Threads \cup {NULL}]
    /\ repeat_nr \in [Locks -> Nat]
    /\ panic \in PanicReason
    /\ lk \in [Threads -> Locks \cup {NULL}]
    /\ ret \in [Threads -> {"run", "body", "service_end"}]
    /\ old_status \in [Threads -> BOOLEAN]
    /\ frame \in [Threads -> BOOLEAN]

(* Task t has passed the semaphore of lock l and has not given it back.    *)
Owns(t, l) ==
    /\ lk[t] = l
    /\ \/ pc[t] \in {"set_holder", "set_repeat", "body", "lock_release",
                     "clear_repeat", "sema_up"}
       \/ pc[t] = "lock_acquire" /\ holder[l] = t

(* The tasks t for which l can be granted without another sema_up.         *)
Contends(t, l) == lk[t] = l /\ pc[t] = "sema_down" /\ status[t] # "TASK_BLOCKED"

(* lock_acquire/lock_release give mutual exclusion: the semaphore is 0     *)
(* exactly while one task owns the lock, and never do two own it.          *)
MutualExclusion ==
    \A l \in Locks :
        /\ \A t, u \in Threads : Owns(t, l) /\ Owns(u, l) => t = u
        /\ value[l] = 0 <=> \E t \in Threads : Owns(t, l)

(* A general_tag is linked into at most one list, once: the ready list     *)
(* exactly when its task is READY, the waiters of the lock it wants when   *)
(* it is BLOCKED in sema_down.  Linking it twice would corrupt both lists. *)
OneListPerTask ==
    \A t \in Threads :
        /\ Cardinality({i \in DOMAIN ready_list : ready_list[i] = t})
             = IF status[t] = "TASK_READY" THEN 1 ELSE 0
        /\ \A l \in Locks :
             Cardinality({i \in DOMAIN waiters[l] : waiters[l][i] = t})
               = IF status[t] = "TASK_BLOCKED" /\ pc[t] = "sema_down" /\ lk[t] = l
                 THEN 1 ELSE 0

(* Exactly the task on the processor is RUNNING.                           *)
OneRunning == \A t \in Threads : status[t] = "TASK_RUNNING" <=> t = cur

(* No ASSERT of thread.c or sync.c ever fails, the missing idle_thread is  *)
(* never needed and schedule()'s own printk never meets a taken            *)
(* console_lock.                                                           *)
NoPanic == panic = "none"

(* The IF bit task t executes with, now or when it is switched in.         *)
IfBit(t) == IF t = cur THEN intr ELSE eflags[t]

(* A task that was preempted or that blocked goes on with the IF bit it    *)
(* had: off from int 0x80 to iretd, on everywhere else outside sema_down.  *)
InterruptFlagKept ==
    \A t \in Threads :
        /\ frame[t] => ~IfBit(t)
        /\ ~frame[t] /\ pc[t] \notin {"boot", "kernel_thread", "sema_down", "parked"}
             => IfBit(t)

(* No lost wakeup: while tasks wait for a lock that is free, a task that   *)
(* was already woken is on its way to take it.                             *)
NoLostWakeup ==
    \A l \in Locks :
        value[l] = 1 /\ waiters[l] # <<>> => \E t \in Threads : Contends(t, l)

-----------------------------------------------------------------------------
(* The inductive invariant behind MutualExclusion and InterruptFlagKept.   *)

(* The call in progress: its lock, and where it returns to.  A release     *)
(* returns into the body exactly if the lock is still held after it.       *)
CallInv ==
    \A t \in Threads :
        /\ pc[t] \in SyncPC \cup {"body"} => lk[t] \in Locks
        /\ pc[t] \in {"lock_acquire", "sema_down", "set_holder", "set_repeat", "body"}
             => ret[t] = "body"
        /\ pc[t] = "lock_release"
             => ret[t] = IF repeat_nr[lk[t]] > 1 THEN "body" ELSE "service_end"
        /\ pc[t] \in {"clear_repeat", "sema_up"} => ret[t] = "service_end"

(* holder names the owner from set_holder to the last lock_release.        *)
HolderInv ==
    \A l \in Locks, t \in Threads :
        /\ holder[l] = t =>
             /\ lk[t] = l
             /\ pc[t] \in {"set_repeat", "body", "lock_release", "lock_acquire"}
        /\ lk[t] = l /\ pc[t] \in {"set_repeat", "body", "lock_release"} => holder[l] = t

(* A system call's frame exists from int 0x80 to iretd, sema_down has      *)
(* saved its caller's IF bit, and console_lock is used in system calls     *)
(* only: that is why schedule()'s printk never finds it half taken.        *)
FrameInv ==
    \A t \in Threads :
        /\ pc[t] \in {"boot", "kernel_thread", "run", "parked"} => ~frame[t]
        /\ pc[t] = "sema_down" => (old_status[t] <=> ~frame[t])
        /\ lk[t] = console_lock => frame[t]

LockInv ==
    /\ TypeOK
    /\ CallInv
    /\ HolderInv
    /\ FrameInv
    /\ InterruptFlagKept
    /\ MutualExclusion

-----------------------------------------------------------------------------
(* The locks implement AbsLock: a lock's owner is the task that has passed *)
(* its semaphore, the critical section is the service's body.              *)
lock_owner == [l \in Locks |->
    IF \E t \in Threads : Owns(t, l) THEN CHOOSE t \in Threads : Owns(t, l) ELSE NULL]

critical_section == [t \in Threads |-> IF pc[t] = "body" THEN lk[t] ELSE NULL]

Abstract == INSTANCE AbsLock WITH owner <- lock_owner, critical <- critical_section

LockRefinement == Abstract!LockSpec

(* Every ready task gets the processor again, although thread_unblock      *)
(* pushes woken tasks in front of it.                                      *)
NoStarvation ==
    \A t \in Threads : status[t] = "TASK_READY" ~> cur = t

(* A free lock that somebody waits for is taken again.                     *)
FreeLockIsTaken ==
    \A l \in Locks : (value[l] = 1 /\ waiters[l] # <<>>) ~> value[l] = 0

(* The scheduler's bookkeeping: a task is on one list at most, one task is *)
(* marked as running, and a wakeup is never lost.                          *)
SchedulerInv == OneListPerTask /\ OneRunning /\ NoLostWakeup
=============================================================================
