-------------------------------- MODULE Sync --------------------------------
(***************************************************************************)
(* The semaphores and locks of thread/sync.c, executed by the running task *)
(* cur on the lock lk[cur].  sema_down and sema_up run with interrupts     *)
(* off and are one step each (a sema_down that blocks is continued, and    *)
(* tests the value again, when the task is switched in); lock_acquire and  *)
(* lock_release run with the caller's IF bit and are cut at their accesses *)
(* to the lock, so that a clock interrupt may come between any two.        *)
(***************************************************************************)
EXTENDS Thread

VARIABLES
    lk,          \* the plock argument of the call in progress, or NULL
    ret,         \* the statement that follows the call in progress
    old_status   \* sema_down's saved IF bit

call_vars == <<lk, ret, old_status>>

SyncPC == {"lock_acquire", "sema_down", "set_holder", "set_repeat",
           "lock_release", "clear_repeat", "sema_up"}

goto(label) == pc' = [pc EXCEPT ![cur] = label]

return == goto(ret[cur])

-----------------------------------------------------------------------------
(* lock_init, sema_init: the semaphore of every lock starts at 1.          *)
sync_init ==
    /\ lk = [t \in Threads |-> NULL]
    /\ ret = [t \in Threads |-> "run"]
    /\ old_status = [t \in Threads |-> FALSE]

(* intr_set_status(old); the faulty variant always enables interrupts.     *)
intr_set_status_on(old) == intr' = TRUE

intr_set_status(old) == intr' = old

(* lock_acquire: the holder takes the lock once more, another task goes    *)
(* for the semaphore.                                                      *)
lock_acquire ==
    /\ panic = "none"
    /\ pc[cur] = "lock_acquire"
    /\ IF holder[lk[cur]] = cur
       THEN /\ repeat_nr' = [repeat_nr EXCEPT ![lk[cur]] = @ + 1]
            /\ return
            /\ UNCHANGED old_status
       ELSE /\ old_status' = [old_status EXCEPT ![cur] = intr]
            /\ goto("sema_down")
            /\ UNCHANGED repeat_nr
    /\ UNCHANGED <<task_vars, value, waiters, holder, panic, lk, ret>>

(* One turn of sema_down's while loop that finds the value 0.  The task    *)
(* comes back inside the loop, interrupts still off.                       *)
sema_down_blocks ==
    /\ panic = "none"
    /\ pc[cur] = "sema_down"
    /\ value[lk[cur]] = 0
    /\ IF elem_find(waiters[lk[cur]], cur)
       THEN panic_spin("sema") /\ UNCHANGED waiters
       ELSE /\ waiters' = [waiters EXCEPT ![lk[cur]] = list_append(@, cur)]
            /\ thread_block(FALSE)
    /\ UNCHANGED <<pc, call_vars>>

sema_down_passes ==
    /\ panic = "none"
    /\ pc[cur] = "sema_down"
    /\ value[lk[cur]] # 0
    /\ IF value[lk[cur]] # 1
       THEN panic_spin("sema") /\ UNCHANGED pc
       ELSE /\ value' = [value EXCEPT ![lk[cur]] = 0]
            /\ intr_set_status(old_status[cur])
            /\ goto("set_holder")
            /\ UNCHANGED <<cur, status, ticks, ready_list, eflags,
                           holder, repeat_nr, panic>>
    /\ UNCHANGED <<waiters, call_vars>>

set_holder ==
    /\ panic = "none"
    /\ pc[cur] = "set_holder"
    /\ holder' = [holder EXCEPT ![lk[cur]] = cur]
    /\ goto("set_repeat")
    /\ UNCHANGED <<task_vars, value, waiters, repeat_nr, panic, call_vars>>

set_repeat ==
    /\ panic = "none"
    /\ pc[cur] = "set_repeat"
    /\ IF repeat_nr[lk[cur]] # 0
       THEN panic_spin("holder") /\ UNCHANGED pc
       ELSE /\ repeat_nr' = [repeat_nr EXCEPT ![lk[cur]] = 1]
            /\ return
            /\ UNCHANGED <<task_vars, value, holder, panic>>
    /\ UNCHANGED <<waiters, call_vars>>

-----------------------------------------------------------------------------
(* The lock was acquired repeatedly; the faulty variant does not count.    *)
held_more_than_once_never(l) == FALSE

held_more_than_once(l) == repeat_nr[l] > 1

(* lock_release up to holder = NULL: a repeated acquisition is only        *)
(* counted down.                                                           *)
lock_release ==
    /\ panic = "none"
    /\ pc[cur] = "lock_release"
    /\ IF holder[lk[cur]] # cur \/ repeat_nr[lk[cur]] = 0
       THEN panic_spin("holder") /\ UNCHANGED pc
       ELSE /\ IF held_more_than_once(lk[cur])
               THEN /\ repeat_nr' = [repeat_nr EXCEPT ![lk[cur]] = @ - 1]
                    /\ return
                    /\ UNCHANGED holder
               ELSE /\ holder' = [holder EXCEPT ![lk[cur]] = NULL]
                    /\ goto("clear_repeat")
                    /\ UNCHANGED repeat_nr
            /\ UNCHANGED <<task_vars, value, panic>>
    /\ UNCHANGED <<waiters, call_vars>>

clear_repeat ==
    /\ panic = "none"
    /\ pc[cur] = "clear_repeat"
    /\ repeat_nr' = [repeat_nr EXCEPT ![lk[cur]] = 0]
    /\ goto("sema_up")
    /\ UNCHANGED <<task_vars, value, waiters, holder, panic, call_vars>>

(* sema_up's list_pop and thread_unblock.  Faulty variants: the waiter is  *)
(* left on the list, nobody is woken.                                      *)
wake_without_pop(l) ==
    IF list_empty(waiters[l])
    THEN UNCHANGED <<waiters, ready_list, status>>
    ELSE thread_unblock(Head(waiters[l])) /\ UNCHANGED waiters

wake_nobody(l) == UNCHANGED <<waiters, ready_list, status>>

wake_first(l) ==
    IF list_empty(waiters[l])
    THEN UNCHANGED <<waiters, ready_list, status>>
    ELSE /\ waiters' = [waiters EXCEPT ![l] = Tail(@)]
         /\ thread_unblock(Head(waiters[l]))

(* sema_up: the first waiter becomes ready, and competes for the value     *)
(* with whoever comes first.                                               *)
sema_up ==
    LET l == lk[cur]
    IN  /\ panic = "none"
        /\ pc[cur] = "sema_up"
        /\ CASE value[l] # 0 ->
                  panic_spin("sema") /\ UNCHANGED <<waiters, pc>>
             [] value[l] = 0 /\ ~list_empty(waiters[l]) /\ unblock_fails(Head(waiters[l])) ->
                  panic_spin("unblock") /\ UNCHANGED <<waiters, pc>>
             [] OTHER ->
                  /\ wake_first(l)
                  /\ value' = [value EXCEPT ![l] = @ + 1]
                  /\ return
                  /\ UNCHANGED <<cur, intr, ticks, eflags, holder, repeat_nr, panic>>
        /\ UNCHANGED call_vars

sync_step ==
    \/ lock_acquire
    \/ sema_down_blocks
    \/ sema_down_passes
    \/ set_holder
    \/ set_repeat
    \/ lock_release
    \/ clear_repeat
    \/ sema_up
=============================================================================
