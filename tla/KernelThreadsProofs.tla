------------------------ MODULE KernelThreadsProofs ------------------------
(***************************************************************************)
(* Theorems about KernelThreads, for every set of threads and locks, every *)
(* choice of priorities and every MaxRepeat.  Type correctness, mutual     *)
(* exclusion of the locks and the discipline of the IF bit rest on         *)
(* LockInv, which every action preserves.  That the scheduler's lists are  *)
(* sound, no wakeup is lost, no ASSERT of thread.c and sync.c fails and    *)
(* the locks implement AbsLock rests on SchedInv, the second half, which   *)
(* adds what the scheduler relies on.                                      *)
(***************************************************************************)
EXTENDS KernelThreads, SequenceTheorems, FiniteSetTheorems, TLAPS

(* A time slice fits the uint8_t it is stored in (init_thread).            *)
LEMMA PriorityType == \A t \in Threads : priority(t) \in 0 .. 255
<1>1. \A n \in Nat : n % 256 \in 0 .. 255
  OBVIOUS
<1>2. TAKE t \in Threads
<1>3. PriorityArg[t] \in Nat
  BY ThreadAssumption DEF ThreadAssumption
<1>4. (IF PriorityArg[t] = 0 THEN default_thread_priority ELSE PriorityArg[t]) \in Nat
  BY <1>3 DEF default_thread_priority
<1> QED BY <1>1, <1>4 DEF priority

(* list_append gives a list of tasks that is not empty.                    *)
LEMMA AppendNonEmpty ==
    \A seq \in Seq(Threads), t \in Threads :
        Append(seq, t) \in Seq(Threads) /\ Append(seq, t) # <<>>
  BY AppendProperties

(* What a step that goes through schedule() does to the state, whether it  *)
(* switches tasks or ends in panic_spin: no lock changes hands, and a task *)
(* that is switched out keeps the IF bit resume.                           *)
Switched(resume) ==
    /\ cur' \in Threads
    /\ intr' \in BOOLEAN
    /\ status' \in [Threads -> TaskStatus]
    /\ ticks' \in [Threads -> 0 .. 255]
    /\ ready_list' \in Seq(Threads)
    /\ panic' \in PanicReason
    /\ UNCHANGED <<value, holder, repeat_nr>>
    /\ \/ UNCHANGED <<cur, intr, eflags>>
       \/ /\ eflags' = [eflags EXCEPT ![cur] = resume]
          /\ intr' = eflags'[cur']

(* schedule() gives the processor to a task of the list its caller has     *)
(* prepared; its printk leaves console_lock alone if cur does not hold it. *)
LEMMA ScheduleSwitches ==
    ASSUME TypeOK, NEW st \in [Threads -> TaskStatus], NEW rq \in Seq(Threads),
           NEW resume \in BOOLEAN, holder[console_lock] # cur,
           schedule_fault(st, rq) = "none", schedule(st, rq, resume)
    PROVE  Switched(resume)
<1> DEFINE running == st[cur] = "TASK_RUNNING"
           rq1 == IF running THEN list_append(rq, cur) ELSE rq
           st1 == IF running THEN [st EXCEPT ![cur] = "TASK_READY"] ELSE st
<1> USE DEF TypeOK
<1>1. cur \in Threads
  OBVIOUS
<1>2. rq1 \in Seq(Threads) /\ rq1 # <<>>
  <2>1. CASE running
    <3>1. rq1 = Append(rq, cur)
      BY <2>1 DEF list_append
    <3>2. Append(rq, cur) \in Seq(Threads) /\ Append(rq, cur) # <<>>
      BY <1>1, AppendNonEmpty, Zenon
    <3> HIDE DEF rq1
    <3> QED BY <3>1, <3>2
  <2>2. CASE ~running
    <3>1. rq # <<>>
      BY <2>2 DEF schedule_fault, list_empty
    <3> QED BY <2>2, <3>1
  <2> QED BY <2>1, <2>2
<1>3. Head(rq1) \in Threads /\ Tail(rq1) \in Seq(Threads)
  BY <1>2
<1>4. st1 \in [Threads -> TaskStatus]
  BY <1>1 DEF TaskStatus
<1>5. /\ cur' = Head(rq1)
      /\ ready_list' = Tail(rq1)
      /\ status' = [st1 EXCEPT ![Head(rq1)] = "TASK_RUNNING"]
      /\ ticks' = IF running THEN [ticks EXCEPT ![cur] = priority(cur)] ELSE ticks
      /\ eflags' = [eflags EXCEPT ![cur] = resume]
      /\ intr' = eflags'[Head(rq1)]
      /\ printk
      /\ UNCHANGED panic
  BY DEF schedule, switch_in
<1>6. UNCHANGED <<value, holder, repeat_nr>>
  BY <1>5 DEF printk, printk_gives_up_lock
<1>7. status' \in [Threads -> TaskStatus]
  BY <1>3, <1>4, <1>5 DEF TaskStatus
<1>8. ticks' \in [Threads -> 0 .. 255]
  BY <1>1, <1>5, PriorityType
<1>9. intr' \in BOOLEAN
  BY <1>1, <1>3, <1>5
<1> HIDE DEF rq1, st1, running
<1> QED BY <1>3, <1>5, <1>6, <1>7, <1>8, <1>9 DEF Switched

(* A failed ASSERT stops the machine and changes nothing else.             *)
LEMMA PanicSwitches ==
    ASSUME TypeOK, NEW reason \in PanicReason, panic_spin(reason), NEW resume
    PROVE  Switched(resume)
  BY DEF TypeOK, panic_spin, task_vars, Switched

(* schedule() fails with one of the known ASSERTs, or not at all.          *)
LEMMA FaultType ==
    \A st, rq : schedule_fault(st, rq) \in PanicReason
  BY DEF schedule_fault, PanicReason

(* thread_block leaves cur with the IF bit its caller restores.            *)
LEMMA BlockSwitches ==
    ASSUME TypeOK, NEW resume \in BOOLEAN, holder[console_lock] # cur,
           thread_block(resume)
    PROVE  Switched(resume)
<1> DEFINE st == [status EXCEPT ![cur] = "TASK_BLOCKED"]
<1>1. st \in [Threads -> TaskStatus] /\ ready_list \in Seq(Threads)
  BY DEF TypeOK, TaskStatus
<1>2. CASE schedule_fault(st, ready_list) # "none"
  BY <1>2, PanicSwitches, FaultType DEF thread_block
<1>3. CASE schedule_fault(st, ready_list) = "none"
  <2>1. schedule(st, ready_list, resume)
    BY <1>3 DEF thread_block
  <2> HIDE DEF st
  <2> QED BY <1>1, <1>3, <2>1, ScheduleSwitches
<1> QED BY <1>2, <1>3

(* thread_yield leaves cur with the IF bit it was called with.             *)
LEMMA YieldSwitches ==
    ASSUME TypeOK, holder[console_lock] # cur, thread_yield
    PROVE  Switched(intr)
<1> DEFINE st == [status EXCEPT ![cur] = "TASK_READY"]
           rq == list_append(ready_list, cur)
<1>1. st \in [Threads -> TaskStatus] /\ rq \in Seq(Threads) /\ intr \in BOOLEAN
  BY AppendNonEmpty DEF TypeOK, TaskStatus, list_append
<1>2. CASE elem_find(ready_list, cur)
  <2>1. panic_spin("ready_list")
    BY <1>2 DEF thread_yield
  <2> QED BY <2>1, PanicSwitches DEF PanicReason
<1>3. CASE ~elem_find(ready_list, cur) /\ schedule_fault(st, rq) # "none"
  <2>1. panic_spin(schedule_fault(st, rq))
    BY <1>3 DEF thread_yield
  <2> QED BY <2>1, PanicSwitches, FaultType
<1>4. CASE ~elem_find(ready_list, cur) /\ schedule_fault(st, rq) = "none"
  <2>1. schedule(st, rq, intr)
    BY <1>4 DEF thread_yield
  <2> HIDE DEF st, rq
  <2> QED BY <1>1, <1>4, <2>1, ScheduleSwitches
<1> QED BY <1>2, <1>3, <1>4

(* The clock interrupt leaves cur with IF set: it was taken with IF set.   *)
LEMMA TimerSwitches ==
    ASSUME TypeOK, holder[console_lock] # cur, intr_timer_handler
    PROVE  Switched(TRUE)
<1>1. CASE ticks[cur] > 0
  <2>1. /\ ticks' = [ticks EXCEPT ![cur] = @ - 1]
        /\ UNCHANGED <<cur, intr, status, ready_list, eflags, value, holder,
                       repeat_nr, panic>>
    BY <1>1 DEF intr_timer_handler
  <2>2. ticks[cur] - 1 \in 0 .. 255
    <3>1. ticks[cur] \in 0 .. 255
      BY DEF TypeOK
    <3> QED BY <1>1, <3>1
  <2>3. ticks' \in [Threads -> 0 .. 255]
    BY <2>1, <2>2 DEF TypeOK
  <2> QED BY <2>1, <2>3 DEF TypeOK, Switched
<1>2. CASE ~(ticks[cur] > 0) /\ schedule_fault(status, ready_list) # "none"
  <2>1. panic_spin(schedule_fault(status, ready_list))
    BY <1>2 DEF intr_timer_handler
  <2> QED BY <2>1, PanicSwitches, FaultType
<1>3. CASE ~(ticks[cur] > 0) /\ schedule_fault(status, ready_list) = "none"
  <2>1. schedule(status, ready_list, TRUE)
    BY <1>3 DEF intr_timer_handler
  <2>2. status \in [Threads -> TaskStatus] /\ ready_list \in Seq(Threads)
    BY DEF TypeOK
  <2> QED BY <1>3, <2>1, <2>2, ScheduleSwitches
<1> QED BY <1>1, <1>2, <1>3

-----------------------------------------------------------------------------
(* If nobody's ownership changes, neither does mutual exclusion.           *)
LEMMA SameOwners ==
    ASSUME MutualExclusion, UNCHANGED value,
           \A t \in Threads, l \in Locks : Owns(t, l)' <=> Owns(t, l)
    PROVE  MutualExclusion'
  BY DEF MutualExclusion

(* Switching tasks preserves LockInv if the task switched out keeps the    *)
(* IF bit it must have (resume) and does not move inside a lock operation. *)
LEMMA SwitchInv ==
    ASSUME LockInv, NEW resume \in BOOLEAN, Switched(resume),
           waiters' \in [Locks -> Seq(Threads)],
           UNCHANGED <<call_vars, frame>>,
           \/ /\ UNCHANGED pc
              /\ frame[cur] => ~resume
              /\ ~frame[cur] /\ pc[cur] \notin {"boot", "kernel_thread", "sema_down", "parked"}
                   => resume
           \/ pc[cur] = "run" /\ pc' = [pc EXCEPT ![cur] = "parked"]
    PROVE  LockInv'
<1>1. /\ TypeOK
      /\ cur \in Threads
      /\ UNCHANGED <<value, holder, repeat_nr, lk, ret, old_status, frame>>
      /\ pc' = pc \/ (pc[cur] = "run" /\ pc' = [pc EXCEPT ![cur] = "parked"])
  BY DEF LockInv, TypeOK, Switched, call_vars
<1>2. TypeOK'
  <2>1. pc' \in [Threads -> PC]
    BY <1>1 DEF TypeOK, PC
  <2>2. eflags' \in [Threads -> BOOLEAN]
    BY <1>1 DEF TypeOK, Switched
  <2> QED BY <1>1, <2>1, <2>2 DEF TypeOK, Switched
<1>3. \A t \in Threads : pc'[t] = pc[t] \/ (pc[t] = "run" /\ pc'[t] = "parked")
  BY <1>1 DEF TypeOK
<1>4. CallInv'
  BY <1>1, <1>3 DEF LockInv, CallInv, SyncPC
<1>5. HolderInv'
  BY <1>1, <1>3 DEF LockInv, HolderInv
<1>6. FrameInv'
  BY <1>1, <1>3 DEF LockInv, FrameInv
<1>7. InterruptFlagKept'
  <2>1. CASE UNCHANGED <<cur, intr, eflags>>
    BY <1>1, <1>3, <2>1 DEF LockInv, InterruptFlagKept, IfBit
  <2>2. CASE /\ eflags' = [eflags EXCEPT ![cur] = resume]
             /\ intr' = eflags'[cur']
    <3>1. \A t \in Threads : IfBit(t)' = IF t = cur THEN resume ELSE IfBit(t)
      BY <1>1, <2>2 DEF TypeOK, IfBit
    <3>2. ~frame[cur] => pc'[cur] = "parked" \/ pc[cur] \in {"boot", "kernel_thread", "sema_down", "parked"} \/ resume
      BY <1>1, <1>3 DEF TypeOK
    <3>3. frame[cur] => ~resume
      BY <1>1 DEF LockInv, FrameInv, TypeOK
    <3> QED BY <1>1, <1>3, <3>1, <3>2, <3>3 DEF LockInv, InterruptFlagKept
  <2> QED BY <2>1, <2>2 DEF Switched
<1>8. MutualExclusion'
  <2>1. \A t \in Threads, l \in Locks : Owns(t, l)' <=> Owns(t, l)
    BY <1>1, <1>3 DEF Owns
  <2> QED BY <1>1, <2>1, SameOwners DEF LockInv
<1> QED BY <1>2, <1>4, <1>5, <1>6, <1>7, <1>8 DEF LockInv

(* A failed ASSERT preserves LockInv.                                      *)
LEMMA PanicInv ==
    ASSUME LockInv, NEW reason \in PanicReason, panic_spin(reason),
           UNCHANGED <<waiters, pc, call_vars, frame>>
    PROVE  LockInv'
<1>1. /\ TypeOK
      /\ UNCHANGED <<cur, intr, status, ticks, ready_list, pc, eflags, value, waiters,
                     holder, repeat_nr, lk, ret, old_status, frame>>
      /\ panic' \in PanicReason
  BY DEF LockInv, panic_spin, task_vars, call_vars
<1>2. TypeOK'
  BY <1>1 DEF TypeOK
<1>3. CallInv' /\ HolderInv' /\ FrameInv'
  BY <1>1 DEF LockInv, CallInv, HolderInv, FrameInv
<1>4. InterruptFlagKept'
  BY <1>1 DEF LockInv, InterruptFlagKept, IfBit
<1>5. MutualExclusion'
  BY <1>1 DEF LockInv, MutualExclusion, Owns
<1> QED BY <1>2, <1>3, <1>4, <1>5 DEF LockInv

(* A task outside the lock operations does not hold console_lock, nor does *)
(* one that runs with interrupts enabled.                                  *)
LEMMA ConsoleNotHeld ==
    ASSUME LockInv, pc[cur] \in {"run", "sema_down"} \/ intr
    PROVE  holder[console_lock] # cur
<1>1. cur \in Threads /\ console_lock \in Locks
  BY ThreadAssumption DEF LockInv, TypeOK
<1>2. SUFFICES ASSUME holder[console_lock] = cur PROVE FALSE
  OBVIOUS
<1>3. lk[cur] = console_lock /\ pc[cur] \notin {"run", "sema_down"}
  BY <1>1, <1>2 DEF LockInv, HolderInv
<1>4. frame[cur]
  BY <1>1, <1>3 DEF LockInv, FrameInv
<1> QED BY <1>1, <1>3, <1>4 DEF LockInv, InterruptFlagKept, IfBit

-----------------------------------------------------------------------------
(* One lemma per action: LockInv is preserved.  (lock_acquire)             *)
LEMMA LockAcquireInv ==
    ASSUME LockInv, lock_acquire, UNCHANGED frame
    PROVE  LockInv'
<1> DEFINE l == lk[cur]
<1> USE DEF LockInv
<1>1. /\ TypeOK
      /\ pc[cur] = "lock_acquire"
      /\ cur \in Threads
      /\ l \in Locks
      /\ ret[cur] = "body"
  BY DEF TypeOK, CallInv, lock_acquire, SyncPC
<1>2. CASE holder[l] = cur
  <2>1. /\ repeat_nr' = [repeat_nr EXCEPT ![l] = @ + 1]
        /\ pc' = [pc EXCEPT ![cur] = "body"]
        /\ UNCHANGED <<cur, intr, status, ticks, ready_list, eflags, value,
                       waiters, holder, panic, lk, ret, old_status, frame>>
    BY <1>1, <1>2 DEF lock_acquire, return, goto, task_vars
  <2> HIDE DEF l, LockInv
  <2>2. TypeOK'
    <3>1. repeat_nr' \in [Locks -> Nat]
      BY <1>1, <2>1 DEF TypeOK
    <3> QED BY <1>1, <2>1, <3>1 DEF TypeOK, PC
  <2>3. CallInv'
    BY <1>1, <1>2, <2>1 DEF TypeOK, CallInv, HolderInv, SyncPC, LockInv, l
  <2>4. HolderInv'
    BY <1>1, <1>2, <2>1 DEF TypeOK, HolderInv, l, LockInv
  <2>5. FrameInv'
    BY <1>1, <2>1 DEF TypeOK, FrameInv, LockInv
  <2>6. InterruptFlagKept'
    BY <1>1, <2>1 DEF TypeOK, InterruptFlagKept, IfBit, LockInv
  <2>7. MutualExclusion'
    BY <1>1, <1>2, <2>1 DEF TypeOK, MutualExclusion, Owns, l, LockInv
  <2> QED BY <2>2, <2>3, <2>4, <2>5, <2>6, <2>7 DEF LockInv
<1>3. CASE holder[l] # cur
  <2>1. /\ old_status' = [old_status EXCEPT ![cur] = intr]
        /\ pc' = [pc EXCEPT ![cur] = "sema_down"]
        /\ UNCHANGED <<cur, intr, status, ticks, ready_list, eflags, value,
                       waiters, holder, repeat_nr, panic, lk, ret, frame>>
    BY <1>1, <1>3 DEF lock_acquire, return, goto, task_vars
  <2> HIDE DEF l, LockInv
  <2>2. TypeOK'
    BY <1>1, <2>1 DEF TypeOK, PC, SyncPC
  <2>3. CallInv'
    BY <1>1, <2>1 DEF TypeOK, CallInv, SyncPC, LockInv
  <2>4. HolderInv'
    BY <1>1, <1>3, <2>1 DEF TypeOK, HolderInv, l, LockInv
  <2>5. FrameInv'
    BY <1>1, <2>1 DEF TypeOK, FrameInv, LockInv, InterruptFlagKept, IfBit
  <2>6. InterruptFlagKept'
    BY <1>1, <2>1 DEF TypeOK, InterruptFlagKept, IfBit, LockInv
  <2>7. MutualExclusion'
    <3>1. \A t \in Threads, k \in Locks : Owns(t, k)' <=> Owns(t, k)
      BY <1>1, <1>3, <2>1 DEF TypeOK, Owns, l
    <3> QED BY <2>1, <3>1, SameOwners DEF LockInv
  <2> QED BY <2>2, <2>3, <2>4, <2>5, <2>6, <2>7 DEF LockInv
<1> QED BY <1>2, <1>3

(* sema_down finds the value 0 and blocks                                  *)
LEMMA SemaDownBlocksInv ==
    ASSUME LockInv, sema_down_blocks, UNCHANGED frame
    PROVE  LockInv'
<1>1. /\ TypeOK
      /\ cur \in Threads
      /\ pc[cur] = "sema_down"
      /\ lk[cur] \in Locks
      /\ UNCHANGED <<pc, call_vars, frame>>
  BY DEF LockInv, TypeOK, CallInv, sema_down_blocks, SyncPC
<1>2. CASE elem_find(waiters[lk[cur]], cur)
  <2>1. panic_spin("sema") /\ UNCHANGED waiters
    BY <1>2 DEF sema_down_blocks
  <2> QED BY <1>1, <2>1, PanicInv DEF PanicReason
<1>3. CASE ~elem_find(waiters[lk[cur]], cur)
  <2>1. /\ waiters' = [waiters EXCEPT ![lk[cur]] = Append(@, cur)]
        /\ thread_block(FALSE)
    BY <1>3 DEF sema_down_blocks, list_append
  <2>2. waiters' \in [Locks -> Seq(Threads)]
    <3>1. Append(waiters[lk[cur]], cur) \in Seq(Threads)
      BY <1>1, AppendNonEmpty DEF TypeOK
    <3> QED BY <1>1, <2>1, <3>1 DEF TypeOK
  <2>3. Switched(FALSE)
    BY <1>1, <2>1, BlockSwitches, ConsoleNotHeld
  <2> QED BY <1>1, <2>2, <2>3, SwitchInv
<1> QED BY <1>2, <1>3

(* sema_down takes the semaphore: cur becomes the owner                    *)
LEMMA SemaDownPassesInv ==
    ASSUME LockInv, sema_down_passes, UNCHANGED frame
    PROVE  LockInv'
<1> DEFINE l == lk[cur]
<1>1. /\ TypeOK
      /\ cur \in Threads
      /\ pc[cur] = "sema_down"
      /\ l \in Locks
      /\ value[l] = 1
      /\ ret[cur] = "body"
  BY DEF LockInv, TypeOK, CallInv, sema_down_passes, SyncPC
<1>2. /\ value' = [value EXCEPT ![l] = 0]
      /\ intr' = old_status[cur]
      /\ pc' = [pc EXCEPT ![cur] = "set_holder"]
      /\ UNCHANGED <<cur, status, ticks, ready_list, eflags, waiters, holder,
                     repeat_nr, panic, lk, ret, old_status, frame>>
  BY <1>1 DEF sema_down_passes, intr_set_status, goto, call_vars
<1> HIDE DEF l
<1>3. TypeOK'
  BY <1>1, <1>2 DEF TypeOK, PC, SyncPC
<1>4. CallInv'
  BY <1>1, <1>2 DEF TypeOK, LockInv, CallInv, SyncPC, l
<1>5. HolderInv'
  BY <1>1, <1>2 DEF TypeOK, LockInv, HolderInv
<1>6. FrameInv'
  BY <1>1, <1>2 DEF TypeOK, LockInv, FrameInv
<1>7. InterruptFlagKept'
  BY <1>1, <1>2 DEF TypeOK, LockInv, FrameInv, InterruptFlagKept, IfBit
<1>8. MutualExclusion'
  <2>1. \A t \in Threads : ~Owns(t, l)
    BY <1>1 DEF LockInv, MutualExclusion
  <2>2. \A t \in Threads, k \in Locks :
          Owns(t, k)' <=> Owns(t, k) \/ (t = cur /\ k = l)
    BY <1>1, <1>2 DEF TypeOK, Owns, l
  <2> QED BY <1>1, <1>2, <2>1, <2>2 DEF TypeOK, LockInv, MutualExclusion
<1> QED BY <1>3, <1>4, <1>5, <1>6, <1>7, <1>8 DEF LockInv

(* lock_acquire: plock->holder = running_thread()                          *)
LEMMA SetHolderInv ==
    ASSUME LockInv, set_holder, UNCHANGED frame
    PROVE  LockInv'
<1> DEFINE l == lk[cur]
<1>1. /\ TypeOK
      /\ cur \in Threads
      /\ pc[cur] = "set_holder"
      /\ l \in Locks
      /\ ret[cur] = "body"
  BY DEF LockInv, TypeOK, CallInv, set_holder, SyncPC
<1>2. /\ holder' = [holder EXCEPT ![l] = cur]
      /\ pc' = [pc EXCEPT ![cur] = "set_repeat"]
      /\ UNCHANGED <<cur, intr, status, ticks, ready_list, eflags, value, waiters,
                     repeat_nr, panic, lk, ret, old_status, frame>>
  BY <1>1 DEF set_holder, goto, task_vars, call_vars
<1> HIDE DEF l
<1>3. TypeOK'
  BY <1>1, <1>2 DEF TypeOK, PC, SyncPC
<1>4. CallInv'
  BY <1>1, <1>2 DEF TypeOK, LockInv, CallInv, SyncPC, l
<1>5. \A t \in Threads : t # cur => ~Owns(t, l)
  BY <1>1 DEF LockInv, MutualExclusion, Owns, l
<1>6. HolderInv'
  BY <1>1, <1>2, <1>5 DEF TypeOK, LockInv, HolderInv, Owns, l
<1>7. FrameInv'
  BY <1>1, <1>2 DEF TypeOK, LockInv, FrameInv
<1>8. InterruptFlagKept'
  BY <1>1, <1>2 DEF TypeOK, LockInv, InterruptFlagKept, IfBit
<1>9. MutualExclusion'
  <2>1. \A t \in Threads, k \in Locks : Owns(t, k)' <=> Owns(t, k)
    BY <1>1, <1>2, <1>5 DEF TypeOK, Owns, l
  <2> QED BY <1>2, <2>1, SameOwners DEF LockInv
<1> QED BY <1>3, <1>4, <1>6, <1>7, <1>8, <1>9 DEF LockInv

(* lock_acquire: plock->holder_repeat_nr = 1                               *)
LEMMA SetRepeatInv ==
    ASSUME LockInv, set_repeat, UNCHANGED frame
    PROVE  LockInv'
<1> DEFINE l == lk[cur]
<1>1. /\ TypeOK
      /\ cur \in Threads
      /\ pc[cur] = "set_repeat"
      /\ l \in Locks
      /\ ret[cur] = "body"
  BY DEF LockInv, TypeOK, CallInv, set_repeat, SyncPC
<1>2. CASE repeat_nr[l] # 0
  <2>1. panic_spin("holder") /\ UNCHANGED <<pc, waiters, call_vars>>
    BY <1>2 DEF set_repeat
  <2> QED BY <2>1, PanicInv DEF PanicReason
<1>3. CASE repeat_nr[l] = 0
  <2>1. /\ repeat_nr' = [repeat_nr EXCEPT ![l] = 1]
        /\ pc' = [pc EXCEPT ![cur] = "body"]
        /\ UNCHANGED <<cur, intr, status, ticks, ready_list, eflags, value, waiters,
                       holder, panic, lk, ret, old_status, frame>>
    BY <1>1, <1>3 DEF set_repeat, return, goto, task_vars, call_vars
  <2> HIDE DEF l
  <2>2. TypeOK'
    BY <1>1, <2>1 DEF TypeOK, PC
  <2>3. CallInv'
    BY <1>1, <1>3, <2>1 DEF TypeOK, LockInv, CallInv, HolderInv, SyncPC, l
  <2>4. HolderInv'
    BY <1>1, <2>1 DEF TypeOK, LockInv, HolderInv, l
  <2>5. FrameInv'
    BY <1>1, <2>1 DEF TypeOK, LockInv, FrameInv
  <2>6. InterruptFlagKept'
    BY <1>1, <2>1 DEF TypeOK, LockInv, InterruptFlagKept, IfBit
  <2>7. MutualExclusion'
    <3>1. \A t \in Threads, k \in Locks : Owns(t, k)' <=> Owns(t, k)
      BY <1>1, <2>1 DEF TypeOK, Owns
    <3> QED BY <2>1, <3>1, SameOwners DEF LockInv
  <2> QED BY <2>2, <2>3, <2>4, <2>5, <2>6, <2>7 DEF LockInv
<1> QED BY <1>2, <1>3

(* lock_release: count down, or holder = NULL                              *)
LEMMA LockReleaseInv ==
    ASSUME LockInv, lock_release, UNCHANGED frame
    PROVE  LockInv'
<1> DEFINE l == lk[cur]
<1>1. /\ TypeOK
      /\ cur \in Threads
      /\ pc[cur] = "lock_release"
      /\ l \in Locks
      /\ holder[l] = cur
      /\ ret[cur] = IF repeat_nr[l] > 1 THEN "body" ELSE "service_end"
  BY DEF LockInv, TypeOK, CallInv, HolderInv, lock_release, SyncPC
<1>2. CASE repeat_nr[l] = 0
  <2>1. panic_spin("holder") /\ UNCHANGED <<pc, waiters, call_vars>>
    BY <1>2 DEF lock_release
  <2> QED BY <2>1, PanicInv DEF PanicReason
<1>3. CASE repeat_nr[l] > 1
  <2>1. /\ repeat_nr' = [repeat_nr EXCEPT ![l] = @ - 1]
        /\ pc' = [pc EXCEPT ![cur] = "body"]
        /\ UNCHANGED <<cur, intr, status, ticks, ready_list, eflags, value, waiters,
                       holder, panic, lk, ret, old_status, frame>>
    BY <1>1, <1>3 DEF lock_release, held_more_than_once, return, goto, task_vars, call_vars
  <2> HIDE DEF l
  <2>2. TypeOK'
    <3>1. repeat_nr[l] - 1 \in Nat
      BY <1>1, <1>3 DEF TypeOK
    <3>2. repeat_nr' \in [Locks -> Nat]
      BY <1>1, <2>1, <3>1 DEF TypeOK
    <3> QED BY <1>1, <2>1, <3>2 DEF TypeOK, PC
  <2>3. CallInv'
    BY <1>1, <1>3, <2>1 DEF TypeOK, LockInv, CallInv, HolderInv, SyncPC, l
  <2>4. HolderInv'
    BY <1>1, <2>1 DEF TypeOK, LockInv, HolderInv, l
  <2>5. FrameInv'
    BY <1>1, <2>1 DEF TypeOK, LockInv, FrameInv
  <2>6. InterruptFlagKept'
    BY <1>1, <2>1 DEF TypeOK, LockInv, InterruptFlagKept, IfBit
  <2>7. MutualExclusion'
    <3>1. \A t \in Threads, k \in Locks : Owns(t, k)' <=> Owns(t, k)
      BY <1>1, <2>1 DEF TypeOK, Owns
    <3> QED BY <2>1, <3>1, SameOwners DEF LockInv
  <2> QED BY <2>2, <2>3, <2>4, <2>5, <2>6, <2>7 DEF LockInv
<1>4. CASE repeat_nr[l] # 0 /\ ~(repeat_nr[l] > 1)
  <2>1. /\ holder' = [holder EXCEPT ![l] = NULL]
        /\ pc' = [pc EXCEPT ![cur] = "clear_repeat"]
        /\ UNCHANGED <<cur, intr, status, ticks, ready_list, eflags, value, waiters,
                       repeat_nr, panic, lk, ret, old_status, frame>>
    BY <1>1, <1>4 DEF lock_release, held_more_than_once, return, goto, task_vars, call_vars
  <2> HIDE DEF l
  <2>2. TypeOK'
    BY <1>1, <2>1 DEF TypeOK, PC, SyncPC
  <2>3. CallInv'
    BY <1>1, <1>4, <2>1 DEF TypeOK, LockInv, CallInv, SyncPC, l
  <2>4. HolderInv'
    BY <1>1, <2>1, ThreadAssumption DEF TypeOK, LockInv, HolderInv, l
  <2>5. FrameInv'
    BY <1>1, <2>1 DEF TypeOK, LockInv, FrameInv
  <2>6. InterruptFlagKept'
    BY <1>1, <2>1 DEF TypeOK, LockInv, InterruptFlagKept, IfBit
  <2>7. MutualExclusion'
    <3>1. \A t \in Threads, k \in Locks : Owns(t, k)' <=> Owns(t, k)
      BY <1>1, <2>1, ThreadAssumption DEF TypeOK, Owns, l
    <3> QED BY <2>1, <3>1, SameOwners DEF LockInv
  <2> QED BY <2>2, <2>3, <2>4, <2>5, <2>6, <2>7 DEF LockInv
<1>5. repeat_nr[l] \in Nat
  BY <1>1 DEF TypeOK
<1> QED BY <1>2, <1>3, <1>4, <1>5

(* lock_release: holder_repeat_nr = 0                                      *)
LEMMA ClearRepeatInv ==
    ASSUME LockInv, clear_repeat, UNCHANGED frame
    PROVE  LockInv'
<1> DEFINE l == lk[cur]
<1>1. /\ TypeOK
      /\ cur \in Threads
      /\ pc[cur] = "clear_repeat"
      /\ l \in Locks
      /\ ret[cur] = "service_end"
  BY DEF LockInv, TypeOK, CallInv, clear_repeat, SyncPC
<1>2. /\ repeat_nr' = [repeat_nr EXCEPT ![l] = 0]
      /\ pc' = [pc EXCEPT ![cur] = "sema_up"]
      /\ UNCHANGED <<cur, intr, status, ticks, ready_list, eflags, value, waiters,
                     holder, panic, lk, ret, old_status, frame>>
  BY <1>1 DEF clear_repeat, goto, task_vars, call_vars
<1> HIDE DEF l
<1>3. TypeOK'
  BY <1>1, <1>2 DEF TypeOK, PC, SyncPC
<1>4. CallInv'
  <2>1. \A t \in Threads : lk[t] = l /\ t # cur => pc[t] # "lock_release"
    BY <1>1 DEF LockInv, MutualExclusion, Owns, l
  <2> QED BY <1>1, <1>2, <2>1 DEF TypeOK, LockInv, CallInv, SyncPC, l
<1>5. HolderInv'
  BY <1>1, <1>2 DEF TypeOK, LockInv, HolderInv
<1>6. FrameInv'
  BY <1>1, <1>2 DEF TypeOK, LockInv, FrameInv
<1>7. InterruptFlagKept'
  BY <1>1, <1>2 DEF TypeOK, LockInv, InterruptFlagKept, IfBit
<1>8. MutualExclusion'
  <2>1. \A t \in Threads, k \in Locks : Owns(t, k)' <=> Owns(t, k)
    BY <1>1, <1>2 DEF TypeOK, Owns
  <2> QED BY <1>2, <2>1, SameOwners DEF LockInv
<1> QED BY <1>3, <1>4, <1>5, <1>6, <1>7, <1>8 DEF LockInv

(* sema_up: the owner gives the semaphore back                             *)
LEMMA SemaUpInv ==
    ASSUME LockInv, sema_up, UNCHANGED frame
    PROVE  LockInv'
<1> DEFINE l == lk[cur]
<1>1. /\ TypeOK
      /\ cur \in Threads
      /\ pc[cur] = "sema_up"
      /\ l \in Locks
      /\ ret[cur] = "service_end"
      /\ UNCHANGED call_vars
  BY DEF LockInv, TypeOK, CallInv, sema_up, SyncPC
<1>2. value[l] = 0
  BY <1>1 DEF LockInv, MutualExclusion, Owns
<1>3. CASE ~list_empty(waiters[l]) /\ unblock_fails(Head(waiters[l]))
  <2>1. panic_spin("unblock") /\ UNCHANGED <<waiters, pc>>
    BY <1>2, <1>3 DEF sema_up
  <2> QED BY <1>1, <2>1, PanicInv DEF PanicReason
<1>4. CASE ~(~list_empty(waiters[l]) /\ unblock_fails(Head(waiters[l])))
  <2>1. /\ IF list_empty(waiters[l])
           THEN UNCHANGED <<waiters, ready_list, status>>
           ELSE /\ waiters' = [waiters EXCEPT ![l] = Tail(@)]
                /\ thread_unblock(Head(waiters[l]))
        /\ value' = [value EXCEPT ![l] = @ + 1]
        /\ return
        /\ UNCHANGED <<cur, intr, ticks, eflags, holder, repeat_nr, panic>>
    BY <1>2, <1>4 DEF sema_up, wake_first
  <2>2. /\ value' = [value EXCEPT ![l] = 1]
        /\ pc' = [pc EXCEPT ![cur] = "service_end"]
        /\ UNCHANGED <<cur, intr, ticks, eflags, holder, repeat_nr, panic,
                       lk, ret, old_status, frame>>
    BY <1>1, <1>2, <2>1 DEF return, goto, call_vars
  <2>3. /\ waiters' \in [Locks -> Seq(Threads)]
        /\ ready_list' \in Seq(Threads)
        /\ status' \in [Threads -> TaskStatus]
    <3>1. CASE list_empty(waiters[l])
      BY <1>1, <2>1, <3>1 DEF TypeOK
    <3>2. CASE ~list_empty(waiters[l])
      <4>1. waiters[l] \in Seq(Threads) /\ waiters[l] # <<>>
        BY <1>1, <3>2 DEF TypeOK, list_empty
      <4>2. Head(waiters[l]) \in Threads /\ Tail(waiters[l]) \in Seq(Threads)
        BY <4>1
      <4>3. /\ waiters' = [waiters EXCEPT ![l] = Tail(waiters[l])]
            /\ ready_list' = <<Head(waiters[l])>> \o ready_list
            /\ status' = [status EXCEPT ![Head(waiters[l])] = "TASK_READY"]
        BY <2>1, <3>2 DEF thread_unblock, list_push
      <4> HIDE DEF l
      <4>4. ready_list' \in Seq(Threads)
        BY <1>1, <4>2, <4>3 DEF TypeOK
      <4> QED BY <1>1, <4>2, <4>3, <4>4 DEF TypeOK, TaskStatus
    <3> QED BY <3>1, <3>2
  <2> HIDE DEF l
  <2>4. TypeOK'
    BY <1>1, <2>2, <2>3 DEF TypeOK, PC
  <2>5. CallInv'
    BY <1>1, <2>2 DEF TypeOK, LockInv, CallInv, SyncPC
  <2>6. HolderInv'
    BY <1>1, <2>2 DEF TypeOK, LockInv, HolderInv
  <2>7. FrameInv'
    BY <1>1, <2>2 DEF TypeOK, LockInv, FrameInv
  <2>8. InterruptFlagKept'
    BY <1>1, <2>2 DEF TypeOK, LockInv, InterruptFlagKept, IfBit
  <2>9. MutualExclusion'
    <3>1. \A t \in Threads : Owns(t, l) => t = cur
      BY <1>1 DEF LockInv, MutualExclusion, Owns, l
    <3>2. \A t \in Threads, k \in Locks : Owns(t, k)' <=> Owns(t, k) /\ k # l
      BY <1>1, <2>2, <3>1 DEF TypeOK, Owns, l
    <3> QED BY <1>1, <2>2, <3>2 DEF TypeOK, LockInv, MutualExclusion
  <2> QED BY <2>4, <2>5, <2>6, <2>7, <2>8, <2>9 DEF LockInv
<1> QED BY <1>3, <1>4


(* main's and kernel_thread's intr_enable                                  *)
LEMMA IntrEnableInv ==
    ASSUME LockInv, intr_enable
    PROVE  LockInv'
<1>1. /\ TypeOK
      /\ cur \in Threads
      /\ pc[cur] \in {"boot", "kernel_thread"}
  BY DEF LockInv, TypeOK, intr_enable
<1>2. /\ intr' = TRUE
      /\ pc' = [pc EXCEPT ![cur] = "run"]
      /\ UNCHANGED <<cur, status, ticks, ready_list, eflags, value,
                     waiters, holder, repeat_nr, panic, lk, ret,
                     old_status, frame>>
  BY <1>1 DEF intr_enable, goto, call_vars, lock_vars
<1>3. TypeOK'
  BY <1>1, <1>2 DEF TypeOK, PC, SyncPC
<1>4. CallInv'
  BY <1>1, <1>2 DEF TypeOK, LockInv, CallInv, SyncPC
<1>5. HolderInv'
  BY <1>1, <1>2 DEF TypeOK, LockInv, HolderInv
<1>6. FrameInv'
  BY <1>1, <1>2 DEF TypeOK, LockInv, FrameInv
<1>7. InterruptFlagKept'
  BY <1>1, <1>2 DEF TypeOK, LockInv, InterruptFlagKept, IfBit, FrameInv
<1>8. MutualExclusion'
  <2>1. \A t \in Threads, k \in Locks : Owns(t, k)' <=> Owns(t, k)
    BY <1>1, <1>2 DEF TypeOK, Owns
  <2> QED BY <1>2, <2>1, SameOwners DEF LockInv, lock_vars
<1> QED BY <1>3, <1>4, <1>5, <1>6, <1>7, <1>8 DEF LockInv

(* int 0x80                                                                *)
LEMMA SyscallInv ==
    ASSUME LockInv, NEW l \in Locks, syscall_handler(l)
    PROVE  LockInv'
<1>1. /\ TypeOK
      /\ cur \in Threads
      /\ pc[cur] = "run"
  BY DEF LockInv, TypeOK, syscall_handler
<1>2. /\ intr' = FALSE
      /\ frame' = [frame EXCEPT ![cur] = TRUE]
      /\ lk' = [lk EXCEPT ![cur] = l]
      /\ ret' = [ret EXCEPT ![cur] = "body"]
      /\ pc' = [pc EXCEPT ![cur] = "lock_acquire"]
      /\ UNCHANGED <<cur, status, ticks, ready_list, eflags, value,
                     waiters, holder, repeat_nr, panic,
                     old_status>>
  BY <1>1 DEF syscall_handler, interrupt_gate, goto, lock_vars
<1>3. TypeOK'
  BY <1>1, <1>2 DEF TypeOK, PC, SyncPC
<1>4. CallInv'
  BY <1>1, <1>2 DEF TypeOK, LockInv, CallInv, SyncPC
<1>5. HolderInv'
  BY <1>1, <1>2 DEF TypeOK, LockInv, HolderInv
<1>6. FrameInv'
  BY <1>1, <1>2 DEF TypeOK, LockInv, FrameInv
<1>7. InterruptFlagKept'
  BY <1>1, <1>2 DEF TypeOK, LockInv, InterruptFlagKept, IfBit
<1>8. MutualExclusion'
  <2>1. \A t \in Threads, k \in Locks : Owns(t, k)' <=> Owns(t, k)
    BY <1>1, <1>2 DEF TypeOK, Owns, LockInv, HolderInv
  <2> QED BY <1>2, <2>1, SameOwners DEF LockInv, lock_vars
<1> QED BY <1>3, <1>4, <1>5, <1>6, <1>7, <1>8 DEF LockInv

(* a service called with interrupts enabled                                *)
LEMMA DirectCallInv ==
    ASSUME LockInv, NEW l \in Locks, direct_call(l)
    PROVE  LockInv'
<1>1. /\ TypeOK
      /\ cur \in Threads
      /\ pc[cur] = "run"
      /\ l # console_lock
  BY DEF LockInv, TypeOK, direct_call
<1>2. /\ lk' = [lk EXCEPT ![cur] = l]
      /\ ret' = [ret EXCEPT ![cur] = "body"]
      /\ pc' = [pc EXCEPT ![cur] = "lock_acquire"]
      /\ UNCHANGED <<cur, intr, status, ticks, ready_list, eflags, value,
                     waiters, holder, repeat_nr, panic,
                     old_status, frame>>
  BY <1>1 DEF direct_call, goto, lock_vars, task_vars
<1>3. TypeOK'
  BY <1>1, <1>2 DEF TypeOK, PC, SyncPC
<1>4. CallInv'
  BY <1>1, <1>2 DEF TypeOK, LockInv, CallInv, SyncPC
<1>5. HolderInv'
  BY <1>1, <1>2 DEF TypeOK, LockInv, HolderInv
<1>6. FrameInv'
  BY <1>1, <1>2 DEF TypeOK, LockInv, FrameInv
<1>7. InterruptFlagKept'
  BY <1>1, <1>2 DEF TypeOK, LockInv, InterruptFlagKept, IfBit
<1>8. MutualExclusion'
  <2>1. \A t \in Threads, k \in Locks : Owns(t, k)' <=> Owns(t, k)
    BY <1>1, <1>2 DEF TypeOK, Owns, LockInv, HolderInv
  <2> QED BY <1>2, <2>1, SameOwners DEF LockInv, lock_vars
<1> QED BY <1>3, <1>4, <1>5, <1>6, <1>7, <1>8 DEF LockInv

(* the body takes the lock it holds                                        *)
LEMMA AcquireAgainInv ==
    ASSUME LockInv, body_acquires_again
    PROVE  LockInv'
<1>1. /\ TypeOK
      /\ cur \in Threads
      /\ pc[cur] = "body"
      /\ lk[cur] \in Locks
      /\ ret[cur] = "body"
  BY DEF LockInv, TypeOK, CallInv, body_acquires_again
<1>2. /\ pc' = [pc EXCEPT ![cur] = "lock_acquire"]
      /\ UNCHANGED <<cur, intr, status, ticks, ready_list, eflags, value,
                     waiters, holder, repeat_nr, panic, lk, ret,
                     old_status, frame>>
  BY <1>1 DEF body_acquires_again, goto, lock_vars, task_vars, call_vars
<1>3. TypeOK'
  BY <1>1, <1>2 DEF TypeOK, PC, SyncPC
<1>4. CallInv'
  BY <1>1, <1>2 DEF TypeOK, LockInv, CallInv, SyncPC
<1>5. HolderInv'
  BY <1>1, <1>2 DEF TypeOK, LockInv, HolderInv
<1>6. FrameInv'
  BY <1>1, <1>2 DEF TypeOK, LockInv, FrameInv
<1>7. InterruptFlagKept'
  BY <1>1, <1>2 DEF TypeOK, LockInv, InterruptFlagKept, IfBit
<1>8. MutualExclusion'
  <2>1. \A t \in Threads, k \in Locks : Owns(t, k)' <=> Owns(t, k)
    BY <1>1, <1>2 DEF TypeOK, Owns, LockInv, HolderInv
  <2> QED BY <1>2, <2>1, SameOwners DEF LockInv, lock_vars
<1> QED BY <1>3, <1>4, <1>5, <1>6, <1>7, <1>8 DEF LockInv

(* the body releases its lock                                              *)
LEMMA BodyReleasesInv ==
    ASSUME LockInv, body_releases
    PROVE  LockInv'
<1>1. /\ TypeOK
      /\ cur \in Threads
      /\ pc[cur] = "body"
      /\ lk[cur] \in Locks
  BY DEF LockInv, TypeOK, CallInv, body_releases
<1>2. /\ ret' = [ret EXCEPT ![cur] =
                     IF repeat_nr[lk[cur]] > 1 THEN "body" ELSE "service_end"]
      /\ pc' = [pc EXCEPT ![cur] = "lock_release"]
      /\ UNCHANGED <<cur, intr, status, ticks, ready_list, eflags, value,
                     waiters, holder, repeat_nr, panic, lk,
                     old_status, frame>>
  BY <1>1 DEF body_releases, goto, lock_vars, task_vars
<1>3. TypeOK'
  BY <1>1, <1>2 DEF TypeOK, PC, SyncPC
<1>4. CallInv'
  BY <1>1, <1>2 DEF TypeOK, LockInv, CallInv, SyncPC
<1>5. HolderInv'
  BY <1>1, <1>2 DEF TypeOK, LockInv, HolderInv
<1>6. FrameInv'
  BY <1>1, <1>2 DEF TypeOK, LockInv, FrameInv
<1>7. InterruptFlagKept'
  BY <1>1, <1>2 DEF TypeOK, LockInv, InterruptFlagKept, IfBit
<1>8. MutualExclusion'
  <2>1. \A t \in Threads, k \in Locks : Owns(t, k)' <=> Owns(t, k)
    BY <1>1, <1>2 DEF TypeOK, Owns
  <2> QED BY <1>2, <2>1, SameOwners DEF LockInv, lock_vars
<1> QED BY <1>3, <1>4, <1>5, <1>6, <1>7, <1>8 DEF LockInv

(* the service returns, iretd for a system call                            *)
LEMMA ServiceEndInv ==
    ASSUME LockInv, service_end
    PROVE  LockInv'
<1>1. /\ TypeOK
      /\ cur \in Threads
      /\ pc[cur] = "service_end"
  BY DEF LockInv, TypeOK, service_end
<1>2. /\ intr' = IF frame[cur] THEN TRUE ELSE intr
      /\ frame' = [frame EXCEPT ![cur] = FALSE]
      /\ lk' = [lk EXCEPT ![cur] = NULL]
      /\ pc' = [pc EXCEPT ![cur] = "run"]
      /\ UNCHANGED <<cur, status, ticks, ready_list, eflags, value,
                     waiters, holder, repeat_nr, panic, ret,
                     old_status>>
  BY <1>1 DEF service_end, goto, lock_vars
<1>3. TypeOK'
  BY <1>1, <1>2 DEF TypeOK, PC, SyncPC
<1>4. CallInv'
  BY <1>1, <1>2 DEF TypeOK, LockInv, CallInv, SyncPC
<1>5. HolderInv'
  BY <1>1, <1>2, ThreadAssumption DEF TypeOK, LockInv, HolderInv
<1>6. FrameInv'
  BY <1>1, <1>2, ThreadAssumption DEF TypeOK, LockInv, FrameInv
<1>7. InterruptFlagKept'
  BY <1>1, <1>2 DEF TypeOK, LockInv, InterruptFlagKept, IfBit
<1>8. MutualExclusion'
  <2>1. \A t \in Threads, k \in Locks : Owns(t, k)' <=> Owns(t, k)
    BY <1>1, <1>2, ThreadAssumption DEF TypeOK, Owns
  <2> QED BY <1>2, <2>1, SameOwners DEF LockInv, lock_vars
<1> QED BY <1>3, <1>4, <1>5, <1>6, <1>7, <1>8 DEF LockInv

(* main's thread_start                                                     *)
LEMMA ThreadStartInv ==
    ASSUME LockInv, NEW t \in Threads, main_thread_start(t)
    PROVE  LockInv'
<1>1. /\ TypeOK
      /\ status' = [status EXCEPT ![t] = "TASK_READY"]
      /\ ready_list' = Append(ready_list, t)
      /\ UNCHANGED <<cur, intr, ticks, eflags, value, waiters, holder,
                     repeat_nr, panic, lk, ret, old_status, frame, pc>>
  BY DEF LockInv, main_thread_start, thread_start, list_append, lock_vars, call_vars
<1>2. TypeOK'
  <2>1. ready_list' \in Seq(Threads)
    BY <1>1, AppendNonEmpty DEF TypeOK
  <2> QED BY <1>1, <2>1 DEF TypeOK, TaskStatus
<1>3. CallInv' /\ HolderInv' /\ FrameInv'
  BY <1>1 DEF LockInv, CallInv, HolderInv, FrameInv
<1>4. InterruptFlagKept'
  BY <1>1 DEF LockInv, InterruptFlagKept, IfBit
<1>5. MutualExclusion'
  BY <1>1 DEF LockInv, MutualExclusion, Owns
<1> QED BY <1>2, <1>3, <1>4, <1>5 DEF LockInv

(* thread_yield from the body of a task                                    *)
LEMMA YieldInv ==
    ASSUME LockInv, yield
    PROVE  LockInv'
<1>1. /\ TypeOK
      /\ cur \in Threads
      /\ intr \in BOOLEAN
      /\ pc[cur] = "run"
      /\ thread_yield
      /\ UNCHANGED <<pc, call_vars, frame, waiters>>
  BY DEF LockInv, TypeOK, yield, thread_yield
<1>2. Switched(intr)
  BY <1>1, YieldSwitches, ConsoleNotHeld
<1>3. intr /\ ~frame[cur]
  BY <1>1 DEF LockInv, FrameInv, InterruptFlagKept, IfBit
<1>4. waiters' \in [Locks -> Seq(Threads)]
  BY <1>1 DEF TypeOK
<1> QED BY <1>1, <1>2, <1>3, <1>4, SwitchInv

(* thread_block for good                                                   *)
LEMMA ParkInv ==
    ASSUME LockInv, park
    PROVE  LockInv'
<1>1. /\ TypeOK
      /\ intr \in BOOLEAN
      /\ pc[cur] = "run"
      /\ pc' = [pc EXCEPT ![cur] = "parked"]
      /\ thread_block(intr)
      /\ UNCHANGED <<call_vars, frame, waiters>>
  BY DEF LockInv, TypeOK, park, goto
<1>2. Switched(intr)
  BY <1>1, BlockSwitches, ConsoleNotHeld
<1>3. waiters' \in [Locks -> Seq(Threads)]
  BY <1>1 DEF TypeOK
<1> QED BY <1>1, <1>2, <1>3, SwitchInv

(* the clock interrupt                                                     *)
LEMMA ClockInv ==
    ASSUME LockInv, clock_interrupt
    PROVE  LockInv'
<1>1. /\ TypeOK
      /\ cur \in Threads
      /\ intr
      /\ intr_timer_handler
      /\ UNCHANGED <<pc, call_vars, frame, waiters>>
  BY DEF LockInv, TypeOK, clock_interrupt, intr_timer_handler
<1>2. Switched(TRUE)
  BY <1>1, TimerSwitches, ConsoleNotHeld
<1>3. ~frame[cur]
  BY <1>1 DEF LockInv, InterruptFlagKept, IfBit
<1>4. waiters' \in [Locks -> Seq(Threads)]
  BY <1>1 DEF TypeOK
<1> QED BY <1>1, <1>2, <1>3, <1>4, SwitchInv

-----------------------------------------------------------------------------
(* LockInv holds when init_all has finished.                               *)
LEMMA InitLockInv == Init => LockInv
<1> SUFFICES ASSUME Init PROVE LockInv
  OBVIOUS
<1> USE DEF Init, thread_init, sync_init
<1>1. TypeOK
  BY ThreadAssumption, PriorityType, EmptySeq DEF TypeOK, PC, TaskStatus, PanicReason
<1>2. CallInv /\ HolderInv /\ FrameInv
  BY ThreadAssumption DEF CallInv, HolderInv, FrameInv, SyncPC
<1>3. InterruptFlagKept
  BY DEF InterruptFlagKept, IfBit
<1>4. MutualExclusion
  BY DEF MutualExclusion, Owns
<1> QED BY <1>1, <1>2, <1>3, <1>4 DEF LockInv

(* Every step of the kernel preserves LockInv.                             *)
LEMMA NextLockInv == LockInv /\ [Next]_vars => LockInv'
<1> SUFFICES ASSUME LockInv, [Next]_vars PROVE LockInv'
  OBVIOUS
<1>1. CASE UNCHANGED vars
  <2>1. UNCHANGED <<cur, intr, status, ticks, ready_list, pc, eflags, value, waiters,
                    holder, repeat_nr, panic, lk, ret, old_status, frame>>
    BY <1>1 DEF vars
  <2>2. TypeOK' /\ CallInv' /\ HolderInv' /\ FrameInv'
    BY <2>1 DEF LockInv, TypeOK, CallInv, HolderInv, FrameInv
  <2>3. InterruptFlagKept' /\ MutualExclusion'
    BY <2>1 DEF LockInv, InterruptFlagKept, IfBit, MutualExclusion, Owns
  <2> QED BY <2>2, <2>3 DEF LockInv
<1>2. CASE sync_step /\ UNCHANGED frame
  BY <1>2, LockAcquireInv, SemaDownBlocksInv, SemaDownPassesInv, SetHolderInv,
     SetRepeatInv, LockReleaseInv, ClearRepeatInv, SemaUpInv DEF sync_step
<1>3. CASE intr_enable \/ body_acquires_again \/ body_releases \/ service_end
  BY <1>3, IntrEnableInv, AcquireAgainInv, BodyReleasesInv, ServiceEndInv
<1>4. CASE \E t \in Threads : main_thread_start(t)
  BY <1>4, ThreadStartInv
<1>5. CASE \E l \in Locks : syscall_handler(l) \/ direct_call(l)
  BY <1>5, SyscallInv, DirectCallInv
<1>6. CASE yield \/ park \/ clock_interrupt
  BY <1>6, YieldInv, ParkInv, ClockInv
<1> QED BY <1>1, <1>2, <1>3, <1>4, <1>5, <1>6 DEF Next, kernel_code

(* The inductive invariant holds in every reachable state.                 *)
THEOREM LockInvariant == Spec => []LockInv
  BY InitLockInv, NextLockInv, PTL DEF Spec

(* Type correctness: in particular a semaphore's value stays 0 or 1 and a  *)
(* time slice fits the uint8_t ticks, for every number of tasks.           *)
THEOREM TypeCorrect == Spec => []TypeOK
<1>1. LockInv => TypeOK
  BY DEF LockInv
<1> QED BY <1>1, LockInvariant, PTL

(* lock_acquire and lock_release of sync.c give mutual exclusion, for any  *)
(* number of tasks and locks, with the clock preempting between any two    *)
(* accesses to the lock.                                                   *)
THEOREM LocksExclude == Spec => []MutualExclusion
<1>1. LockInv => MutualExclusion
  BY DEF LockInv
<1> QED BY <1>1, LockInvariant, PTL

(* Every task runs with the IF bit it had before it was switched out, and  *)
(* interrupts stay off from int 0x80 to iretd.                             *)
THEOREM IfBitKept == Spec => []InterruptFlagKept
<1>1. LockInv => InterruptFlagKept
  BY DEF LockInv
<1> QED BY <1>1, LockInvariant, PTL

-----------------------------------------------------------------------------
(* The tags of a list are those of different tasks.                        *)
NoRepeats(plist) == \A i, j \in 1 .. Len(plist) : plist[i] = plist[j] => i = j

(* The ready list holds the READY tasks, the waiters of a lock the tasks   *)
(* that are BLOCKED in its sema_down.                                      *)
Waits(t, l) == status[t] = "TASK_BLOCKED" /\ pc[t] = "sema_down" /\ lk[t] = l

ListInv ==
    /\ NoRepeats(ready_list)
    /\ \A t \in Threads : elem_find(ready_list, t) <=> status[t] = "TASK_READY"
    /\ \A l \in Locks :
         /\ NoRepeats(waiters[l])
         /\ \A t \in Threads : elem_find(waiters[l], t) <=> Waits(t, l)

(* A task that has not been started is at its first statement, one that    *)
(* is BLOCKED is in sema_down or parked, and main() is never parked.       *)
StatusInv ==
    /\ status[MainThread] # "none"
    /\ pc[MainThread] # "parked"
    /\ \A t \in Threads :
         /\ status[t] = "none" => pc[t] = "kernel_thread"
         /\ status[t] = "TASK_BLOCKED" => pc[t] \in {"sema_down", "parked"}

(* A system call that uses console_lock keeps the processor until it is    *)
(* done: schedule()'s printk finds the lock free.                          *)
ConsoleInv == \A t \in Threads : lk[t] = console_lock => t = cur

(* holder_repeat_nr is 0 outside the statements that count.                *)
RepeatInv ==
    \A l \in Locks :
        /\ value[l] = 1 => repeat_nr[l] = 0
        /\ \A t \in Threads : lk[t] = l =>
             /\ pc[t] \in {"set_holder", "set_repeat", "sema_up"} => repeat_nr[l] = 0
             /\ pc[t] \in {"body", "lock_release"} => repeat_nr[l] > 0
             /\ pc[t] = "lock_acquire" /\ holder[l] = t => repeat_nr[l] > 0

SchedInv ==
    /\ LockInv
    /\ NoPanic
    /\ OneRunning
    /\ ListInv
    /\ StatusInv
    /\ ConsoleInv
    /\ RepeatInv
    /\ NoLostWakeup

-----------------------------------------------------------------------------
(* list_append of a task that is not on the list.                          *)
LEMMA AppendNew ==
    ASSUME NEW plist \in Seq(Threads), NEW t \in Threads,
           NoRepeats(plist), ~elem_find(plist, t)
    PROVE  /\ list_append(plist, t) \in Seq(Threads)
           /\ list_append(plist, t) # <<>>
           /\ NoRepeats(list_append(plist, t))
           /\ \A u \in Threads :
                elem_find(list_append(plist, t), u) <=> elem_find(plist, u) \/ u = t
<1> DEFINE new == Append(plist, t)
<1>1. /\ new \in Seq(Threads)
      /\ new # <<>>
      /\ Len(new) = Len(plist) + 1
      /\ \A i \in 1 .. Len(plist) : new[i] = plist[i]
      /\ new[Len(plist) + 1] = t
  BY AppendProperties
<1>2. Len(plist) \in Nat
  BY LenProperties
<1> HIDE DEF new
<1>3. NoRepeats(new)
  BY <1>1, <1>2 DEF NoRepeats, elem_find
<1>4. \A u \in Threads : elem_find(new, u) <=> elem_find(plist, u) \/ u = t
  BY <1>1, <1>2 DEF elem_find
<1> QED BY <1>1, <1>3, <1>4 DEF list_append, new

(* list_pop: the rest of the list holds the other tasks.                   *)
LEMMA PopFirst ==
    ASSUME NEW plist \in Seq(Threads), plist # <<>>, NoRepeats(plist)
    PROVE  /\ Head(plist) \in Threads
           /\ Tail(plist) \in Seq(Threads)
           /\ NoRepeats(Tail(plist))
           /\ elem_find(plist, Head(plist))
           /\ \A u \in Threads :
                elem_find(Tail(plist), u) <=> elem_find(plist, u) /\ u # Head(plist)
<1> DEFINE rest == Tail(plist)
<1>1. /\ Head(plist) = plist[1]
      /\ Head(plist) \in Threads
      /\ rest \in Seq(Threads)
      /\ Len(plist) \in Nat /\ Len(plist) > 0
      /\ Len(rest) = Len(plist) - 1
      /\ \A i \in 1 .. Len(rest) : rest[i] = plist[i + 1]
  BY HeadTailProperties, EmptySeq, LenProperties
<1> HIDE DEF rest
<1>2. NoRepeats(rest)
  BY <1>1 DEF NoRepeats
<1>3. elem_find(plist, Head(plist))
  BY <1>1 DEF elem_find
<1>4. \A u \in Threads : elem_find(rest, u) => elem_find(plist, u) /\ u # Head(plist)
  BY <1>1 DEF elem_find, NoRepeats
<1>5. \A u \in Threads : elem_find(plist, u) /\ u # Head(plist) => elem_find(rest, u)
  <2> TAKE u \in Threads
  <2> HAVE elem_find(plist, u) /\ u # Head(plist)
  <2>1. PICK i \in 1 .. Len(plist) : plist[i] = u
    BY DEF elem_find
  <2>2. i - 1 \in 1 .. Len(rest) /\ rest[i - 1] = u
    BY <1>1, <2>1
  <2> QED BY <2>2 DEF elem_find
<1> QED BY <1>1, <1>2, <1>3, <1>4, <1>5 DEF rest

(* list_push of a task that is not on the list.                            *)
LEMMA PushNew ==
    ASSUME NEW plist \in Seq(Threads), NEW t \in Threads,
           NoRepeats(plist), ~elem_find(plist, t)
    PROVE  /\ list_push(plist, t) \in Seq(Threads)
           /\ NoRepeats(list_push(plist, t))
           /\ \A u \in Threads :
                elem_find(list_push(plist, t), u) <=> elem_find(plist, u) \/ u = t
<1> DEFINE new == <<t>> \o plist
<1>1. /\ new \in Seq(Threads)
      /\ Len(new) = 1 + Len(plist)
      /\ Len(plist) \in Nat
      /\ \A i \in 1 .. Len(new) : new[i] = IF i <= 1 THEN t ELSE plist[i - 1]
  <2>1. /\ <<t>> \in Seq(Threads)
        /\ Len(<<t>>) = 1
        /\ \A i \in 1 .. 1 : <<t>>[i] = t
    OBVIOUS
  <2>2. /\ new \in Seq(Threads)
        /\ Len(new) = Len(<<t>>) + Len(plist)
        /\ \A i \in 1 .. Len(<<t>>) + Len(plist) :
             new[i] = IF i <= Len(<<t>>) THEN <<t>>[i] ELSE plist[i - Len(<<t>>)]
    BY <2>1, ConcatProperties
  <2>3. Len(plist) \in Nat
    BY LenProperties
  <2> HIDE DEF new
  <2> QED BY <2>1, <2>2, <2>3
<1> HIDE DEF new
<1>2. NoRepeats(new)
  <2> SUFFICES ASSUME NEW i \in 1 .. Len(new), NEW j \in 1 .. Len(new), new[i] = new[j]
               PROVE  i = j
    BY DEF NoRepeats
  <2>1. \A k \in 1 .. Len(new) : k > 1 => k - 1 \in 1 .. Len(plist) /\ new[k] = plist[k - 1] /\ new[k] # t
    BY <1>1 DEF elem_find
  <2>2. CASE i > 1 /\ j > 1
    <3>1. i - 1 = j - 1
      BY <2>1, <2>2 DEF NoRepeats
    <3> QED BY <1>1, <3>1
  <2>3. CASE ~(i > 1 /\ j > 1)
    BY <1>1, <2>1, <2>3
  <2> QED BY <2>2, <2>3
<1>3. \A u \in Threads : elem_find(new, u) => elem_find(plist, u) \/ u = t
  BY <1>1 DEF elem_find
<1>4. \A u \in Threads : elem_find(plist, u) => elem_find(new, u)
  <2> TAKE u \in Threads
  <2> HAVE elem_find(plist, u)
  <2>1. PICK i \in 1 .. Len(plist) : plist[i] = u
    BY DEF elem_find
  <2>2. i + 1 \in 1 .. Len(new) /\ new[i + 1] = u
    BY <1>1, <2>1
  <2> QED BY <2>2 DEF elem_find
<1>5. elem_find(new, t)
  <2>1. 1 \in 1 .. Len(new) /\ new[1] = t
    BY <1>1
  <2> QED BY <2>1 DEF elem_find
<1> QED BY <1>1, <1>2, <1>3, <1>4, <1>5 DEF list_push, new

(* An empty list holds nobody.                                             *)
LEMMA EmptyList ==
    ASSUME NEW plist \in Seq(Threads)
    PROVE  plist = <<>> <=> \A t \in Threads : ~elem_find(plist, t)
<1>1. plist = <<>> <=> Len(plist) = 0
  BY EmptySeq
<1>2. Len(plist) \in Nat /\ \A i \in 1 .. Len(plist) : plist[i] \in Threads
  BY LenProperties, ElementOfSeq
<1> QED BY <1>1, <1>2 DEF elem_find

-----------------------------------------------------------------------------
(* A task outside the console's system calls finds console_lock free, with *)
(* nobody waiting for it.                                                  *)
LEMMA ConsoleFree ==
    ASSUME SchedInv, lk[cur] # console_lock
    PROVE  printk_returns
<1>1. /\ TypeOK /\ cur \in Threads /\ console_lock \in Locks
      /\ \A t \in Threads : lk[t] # console_lock
  BY ThreadAssumption DEF SchedInv, LockInv, TypeOK, ConsoleInv
<1>2. waiters[console_lock] = <<>>
  <2>1. \A t \in Threads : ~elem_find(waiters[console_lock], t)
    BY <1>1 DEF SchedInv, ListInv, Waits
  <2>2. waiters[console_lock] \in Seq(Threads)
    BY <1>1 DEF TypeOK
  <2> QED BY <2>1, <2>2, EmptyList
<1>3. value[console_lock] = 1
  <2>1. value[console_lock] # 0
    BY <1>1 DEF SchedInv, LockInv, MutualExclusion, Owns
  <2> QED BY <1>1, <2>1 DEF TypeOK
<1>4. repeat_nr[console_lock] = 0
  BY <1>1, <1>3 DEF SchedInv, RepeatInv
<1> QED BY <1>2, <1>3, <1>4 DEF printk_returns, list_empty

(* The owner of a lock is never BLOCKED: if it is not on the processor it  *)
(* is on the ready list.                                                   *)
LEMMA OwnerReady ==
    ASSUME SchedInv, NEW l \in Locks, value[l] = 0, ~Owns(cur, l)
    PROVE  ready_list # <<>>
<1>1. PICK t \in Threads : Owns(t, l)
  BY DEF SchedInv, LockInv, MutualExclusion
<1>2. t # cur /\ pc[t] \notin {"sema_down", "parked", "kernel_thread"}
  BY <1>1 DEF Owns
<1>3. status[t] \in TaskStatus
  BY DEF SchedInv, LockInv, TypeOK
<1>4. status[t] = "TASK_READY"
  BY <1>2, <1>3 DEF SchedInv, StatusInv, OneRunning, TaskStatus
<1>5. elem_find(ready_list, t) /\ ready_list \in Seq(Threads)
  BY <1>4 DEF SchedInv, ListInv, LockInv, TypeOK
<1> QED BY <1>5, EmptyList

(* A task that parks itself leaves somebody who is ready: main(), or, if   *)
(* main() waits for a lock, its owner or who has just been woken for it.   *)
LEMMA MainReady ==
    ASSUME SchedInv, pc[cur] = "run", cur # MainThread
    PROVE  ready_list # <<>>
<1>1. /\ TypeOK /\ cur \in Threads /\ MainThread \in Threads
      /\ status[MainThread] \in TaskStatus
      /\ ready_list \in Seq(Threads)
  BY ThreadAssumption DEF SchedInv, LockInv, TypeOK
<1>2. CASE status[MainThread] = "TASK_READY"
  BY <1>1, <1>2, EmptyList DEF SchedInv, ListInv
<1>3. CASE status[MainThread] = "TASK_BLOCKED"
  <2> DEFINE l == lk[MainThread]
  <2>1. pc[MainThread] = "sema_down"
    BY <1>1, <1>3 DEF SchedInv, StatusInv
  <2>2. l \in Locks
    BY <1>1, <2>1 DEF SchedInv, LockInv, CallInv, SyncPC
  <2> HIDE DEF l
  <2>3. elem_find(waiters[l], MainThread)
    BY <1>1, <1>3, <2>1, <2>2 DEF SchedInv, ListInv, Waits, l
  <2>4. waiters[l] # <<>>
    BY <1>1, <2>2, <2>3, EmptyList DEF TypeOK
  <2>5. ~Owns(cur, l)
    BY DEF Owns
  <2>6. CASE value[l] = 0
    BY <2>2, <2>5, <2>6, OwnerReady
  <2>7. CASE value[l] = 1
    <3>1. PICK t \in Threads : Contends(t, l)
      BY <2>2, <2>4, <2>7 DEF SchedInv, NoLostWakeup
    <3>2. t # cur /\ status[t] \notin {"TASK_BLOCKED", "none", "TASK_RUNNING"}
      BY <3>1 DEF Contends, SchedInv, StatusInv, OneRunning
    <3>3. status[t] = "TASK_READY"
      BY <1>1, <3>2 DEF TypeOK, TaskStatus
    <3> QED BY <1>1, <3>3, EmptyList DEF SchedInv, ListInv
  <2> QED BY <1>1, <2>2, <2>6, <2>7 DEF TypeOK
<1> QED BY <1>1, <1>2, <1>3 DEF SchedInv, StatusInv, OneRunning, TaskStatus

(* schedule() on lists that fit the task states: its ASSERTs hold, and the *)
(* lists fit the new states, in which only the new cur is RUNNING.         *)
Fits(st, rq) ==
    /\ NoRepeats(rq)
    /\ \A t \in Threads : elem_find(rq, t) <=> st[t] = "TASK_READY"
    /\ \A t \in Threads : st[t] = "TASK_RUNNING" => t = cur

LEMMA ScheduleFits ==
    ASSUME SchedInv, NEW st \in [Threads -> TaskStatus], NEW rq \in Seq(Threads),
           NEW resume, Fits(st, rq), lk[cur] # console_lock,
           st[cur] # "TASK_RUNNING" => rq # <<>>
    PROVE  /\ schedule_fault(st, rq) = "none"
           /\ schedule(st, rq, resume) =>
                /\ NoRepeats(ready_list')
                /\ \A t \in Threads :
                     /\ elem_find(ready_list', t) <=> status'[t] = "TASK_READY"
                     /\ status'[t] = "TASK_RUNNING" <=> t = cur'
                     /\ status'[t] = "TASK_BLOCKED" <=> st[t] = "TASK_BLOCKED"
                     /\ status'[t] = "none" <=> st[t] = "none"
                /\ UNCHANGED panic
<1> DEFINE running == st[cur] = "TASK_RUNNING"
           rq1 == IF running THEN list_append(rq, cur) ELSE rq
           st1 == IF running THEN [st EXCEPT ![cur] = "TASK_READY"] ELSE st
<1>1. TypeOK /\ cur \in Threads
  BY DEF SchedInv, LockInv, TypeOK
<1>2. printk_returns
  BY ConsoleFree
<1>3. schedule_fault(st, rq) = "none"
  BY <1>1, <1>2 DEF schedule_fault, Fits, list_empty
<1>4. st1 \in [Threads -> TaskStatus]
  BY <1>1 DEF TaskStatus
<1>5. /\ rq1 \in Seq(Threads) /\ rq1 # <<>> /\ NoRepeats(rq1)
      /\ \A t \in Threads : elem_find(rq1, t) <=> st1[t] = "TASK_READY"
  <2>1. CASE running
    <3>1. ~elem_find(rq, cur) /\ NoRepeats(rq)
      BY <1>1, <2>1 DEF Fits
    <3>2. rq1 = list_append(rq, cur)
      BY <2>1
    <3>3. /\ rq1 \in Seq(Threads) /\ rq1 # <<>> /\ NoRepeats(rq1)
          /\ \A t \in Threads : elem_find(rq1, t) <=> elem_find(rq, t) \/ t = cur
      BY <1>1, <3>1, <3>2, AppendNew
    <3>4. \A t \in Threads : st1[t] = IF t = cur THEN "TASK_READY" ELSE st[t]
      BY <1>1, <2>1
    <3> HIDE DEF rq1, st1
    <3> QED BY <3>3, <3>4 DEF Fits
  <2>2. CASE ~running
    BY <2>2 DEF Fits
  <2> QED BY <2>1, <2>2
<1>6. \A t \in Threads : /\ st1[t] # "TASK_RUNNING"
                         /\ st1[t] = "TASK_BLOCKED" <=> st[t] = "TASK_BLOCKED"
                         /\ st1[t] = "none" <=> st[t] = "none"
  BY <1>1 DEF Fits
<1>7. ASSUME schedule(st, rq, resume)
      PROVE  /\ cur' = Head(rq1)
             /\ ready_list' = Tail(rq1)
             /\ status' = [st1 EXCEPT ![Head(rq1)] = "TASK_RUNNING"]
             /\ UNCHANGED panic
  BY <1>7 DEF schedule, switch_in
<1> HIDE DEF rq1, st1, running
<1>8. /\ Head(rq1) \in Threads
      /\ NoRepeats(Tail(rq1))
      /\ st1[Head(rq1)] = "TASK_READY"
      /\ \A t \in Threads : elem_find(Tail(rq1), t) <=> elem_find(rq1, t) /\ t # Head(rq1)
  BY <1>5, PopFirst
<1>9. SUFFICES ASSUME schedule(st, rq, resume)
               PROVE  /\ NoRepeats(ready_list')
                      /\ \A t \in Threads :
                           /\ elem_find(ready_list', t) <=> status'[t] = "TASK_READY"
                           /\ status'[t] = "TASK_RUNNING" <=> t = cur'
                           /\ status'[t] = "TASK_BLOCKED" <=> st[t] = "TASK_BLOCKED"
                           /\ status'[t] = "none" <=> st[t] = "none"
                      /\ UNCHANGED panic
  BY <1>3
<1>10. \A t \in Threads : status'[t] = IF t = cur' THEN "TASK_RUNNING" ELSE st1[t]
  BY <1>4, <1>7, <1>8, <1>9
<1>11. cur' = Head(rq1) /\ ready_list' = Tail(rq1) /\ UNCHANGED panic
  BY <1>7, <1>9
<1>12. NoRepeats(ready_list')
  BY <1>8, <1>11
<1> QED BY <1>5, <1>6, <1>8, <1>10, <1>11, <1>12

(* Switching tasks preserves SchedInv: cur's state becomes st[cur], and if *)
(* it blocks in sema_down it has entered itself into the waiters of a lock *)
(* that is taken.                                                          *)
LEMMA SwitchSched ==
    ASSUME SchedInv, LockInv', NEW st \in [Threads -> TaskStatus], NEW rq \in Seq(Threads),
           NEW resume \in BOOLEAN, Fits(st, rq), lk[cur] # console_lock,
           st[cur] # "TASK_RUNNING" => rq # <<>>,
           schedule(st, rq, resume), UNCHANGED <<call_vars, frame>>,
           \A t \in Threads : t # cur => st[t] = status[t] /\ pc'[t] = pc[t],
           st[cur] # "none",
           st[cur] = "TASK_BLOCKED" =>
             \/ pc'[cur] = "parked" /\ cur # MainThread
             \/ pc'[cur] = "sema_down" /\ value[lk[cur]] = 0,
           pc'[cur] = pc[cur] \/ (pc[cur] = "run" /\ pc'[cur] = "parked" /\ cur # MainThread),
           \A l \in Locks :
             /\ NoRepeats(waiters'[l])
             /\ waiters'[l] = waiters[l] \/ value[l] = 0
             /\ \A t \in Threads : elem_find(waiters'[l], t) <=>
                  st[t] = "TASK_BLOCKED" /\ pc'[t] = "sema_down" /\ lk[t] = l
    PROVE  SchedInv'
<1>1. /\ TypeOK /\ cur \in Threads /\ MainThread \in Threads
      /\ UNCHANGED <<lk, ret, old_status, frame>>
  BY ThreadAssumption DEF SchedInv, LockInv, TypeOK, call_vars
<1>2. /\ schedule_fault(st, rq) = "none"
      /\ NoRepeats(ready_list')
      /\ \A t \in Threads :
           /\ elem_find(ready_list', t) <=> status'[t] = "TASK_READY"
           /\ status'[t] = "TASK_RUNNING" <=> t = cur'
           /\ status'[t] = "TASK_BLOCKED" <=> st[t] = "TASK_BLOCKED"
           /\ status'[t] = "none" <=> st[t] = "none"
      /\ UNCHANGED panic
  BY ScheduleFits
<1>3. holder[console_lock] # cur
  BY <1>1, ThreadAssumption DEF SchedInv, LockInv, HolderInv
<1>4. UNCHANGED <<value, holder, repeat_nr>>
  BY <1>1, <1>2, <1>3, ScheduleSwitches DEF Switched
<1>5. NoPanic' /\ OneRunning'
  BY <1>2 DEF SchedInv, NoPanic, OneRunning
<1>6. ListInv'
  BY <1>1, <1>2 DEF ListInv, Waits
<1>7. StatusInv'
  BY <1>1, <1>2 DEF SchedInv, StatusInv
<1>8. ConsoleInv'
  BY <1>1 DEF SchedInv, ConsoleInv
<1>9. RepeatInv'
  <2>1. \A t \in Threads : pc'[t] = pc[t] \/ pc'[t] = "parked"
    BY <1>1
  <2> QED BY <1>1, <1>4, <2>1 DEF SchedInv, RepeatInv
<1>10. NoLostWakeup'
  <2> SUFFICES ASSUME NEW l \in Locks, value[l] = 1, waiters'[l] # <<>>
               PROVE  \E t \in Threads : Contends(t, l)'
    BY <1>4 DEF NoLostWakeup
  <2>1. waiters[l] # <<>>
    OBVIOUS
  <2>2. PICK t \in Threads : Contends(t, l)
    BY <2>1 DEF SchedInv, NoLostWakeup
  <2>3. status'[t] # "TASK_BLOCKED"
    <3>1. CASE t = cur
      BY <1>1, <1>2, <2>2, <3>1 DEF Contends
    <3>2. CASE t # cur
      BY <1>2, <2>2, <3>2 DEF Contends
    <3> QED BY <3>1, <3>2
  <2>4. pc'[t] = "sema_down" /\ lk'[t] = l
    BY <1>1, <2>2 DEF Contends
  <2> QED BY <2>3, <2>4 DEF Contends
<1> QED BY <1>5, <1>6, <1>7, <1>8, <1>9, <1>10 DEF SchedInv

(* A step of cur that moves no task and changes no semaphore keeps         *)
(* everything but LockInv and RepeatInv, which have steps of their own.    *)
LEMMA QuietSched ==
    ASSUME SchedInv, LockInv', RepeatInv',
           UNCHANGED <<cur, status, ready_list, value, waiters, panic>>,
           \A t \in Threads : t # cur => pc'[t] = pc[t] /\ lk'[t] = lk[t],
           pc[cur] # "sema_down", pc'[cur] # "parked"
    PROVE  SchedInv'
<1>1. /\ cur \in Threads /\ MainThread \in Threads
      /\ \A t \in Threads : status[t] = "TASK_RUNNING" <=> t = cur
  BY ThreadAssumption DEF SchedInv, LockInv, TypeOK, OneRunning
<1>2. NoPanic' /\ OneRunning'
  BY DEF SchedInv, NoPanic, OneRunning
<1>3. ListInv'
  <2>1. \A t \in Threads, l \in Locks : Waits(t, l)' <=> Waits(t, l)
    BY <1>1 DEF Waits
  <2> QED BY <2>1 DEF SchedInv, ListInv
<1>4. StatusInv'
  BY <1>1 DEF SchedInv, StatusInv
<1>5. ConsoleInv'
  BY <1>1 DEF SchedInv, ConsoleInv
<1>6. NoLostWakeup'
  <2>1. \A t \in Threads, l \in Locks : Contends(t, l) => Contends(t, l)'
    BY DEF Contends
  <2> QED BY <2>1 DEF SchedInv, NoLostWakeup
<1> QED BY <1>2, <1>3, <1>4, <1>5, <1>6 DEF SchedInv

(* If cur owns its lock nobody else does: only cur's place in the lock     *)
(* operations decides about the repeat count.                              *)
LEMMA OnlyOwner ==
    ASSUME SchedInv, NEW l \in Locks, Owns(cur, l)
    PROVE  \A t \in Threads : t # cur /\ lk[t] = l =>
             /\ pc[t] \notin {"set_holder", "set_repeat", "sema_up", "body",
                              "lock_release", "clear_repeat"}
             /\ ~(pc[t] = "lock_acquire" /\ holder[l] = t)
  BY DEF SchedInv, LockInv, TypeOK, MutualExclusion, Owns

(* Any other step of cur that leaves the lock's fields alone.              *)
LEMMA SameRepeat ==
    ASSUME SchedInv, UNCHANGED <<cur, value, holder, repeat_nr>>,
           \A t \in Threads : t # cur => pc'[t] = pc[t] /\ lk'[t] = lk[t],
           \/ pc'[cur] \in {"run", "sema_down", "parked", "service_end"}
           \/ pc'[cur] = "lock_acquire" /\ holder[lk'[cur]] # cur
           \/ /\ pc[cur] = "body" /\ lk'[cur] = lk[cur]
              /\ pc'[cur] \in {"lock_acquire", "lock_release"}
    PROVE  RepeatInv'
<1>1. cur \in Threads /\ TypeOK
  BY DEF SchedInv, LockInv, TypeOK
<1>2. \A l \in Locks : value'[l] = 1 => repeat_nr'[l] = 0
  BY DEF SchedInv, RepeatInv
<1>3. ASSUME NEW l \in Locks, NEW t \in Threads, lk'[t] = l
      PROVE  /\ pc'[t] \in {"set_holder", "set_repeat", "sema_up"} => repeat_nr'[l] = 0
             /\ pc'[t] \in {"body", "lock_release"} => repeat_nr'[l] > 0
             /\ pc'[t] = "lock_acquire" /\ holder'[l] = t => repeat_nr'[l] > 0
  <2>1. CASE t # cur
    BY <1>3, <2>1 DEF SchedInv, RepeatInv
  <2>2. CASE t = cur
    BY <1>1, <1>3, <2>2 DEF SchedInv, RepeatInv
  <2> QED BY <2>1, <2>2
<1> QED BY <1>2, <1>3 DEF RepeatInv

-----------------------------------------------------------------------------
(* One lemma per action: SchedInv is preserved.  (lock_acquire)            *)
LEMMA LockAcquireSched ==
    ASSUME SchedInv, lock_acquire, UNCHANGED frame
    PROVE  SchedInv'
<1> DEFINE l == lk[cur]
<1>1. /\ TypeOK /\ cur \in Threads /\ l \in Locks
      /\ pc[cur] = "lock_acquire" /\ ret[cur] = "body"
      /\ LockInv /\ LockInv'
  BY LockAcquireInv DEF SchedInv, LockInv, TypeOK, CallInv, lock_acquire, SyncPC
<1>2. CASE holder[l] = cur
  <2>1. /\ repeat_nr' = [repeat_nr EXCEPT ![l] = @ + 1]
        /\ pc' = [pc EXCEPT ![cur] = "body"]
        /\ UNCHANGED <<cur, status, ready_list, value, waiters, holder, panic, lk>>
    BY <1>1, <1>2 DEF lock_acquire, return, goto, task_vars
  <2>2. Owns(cur, l)
    BY <1>1, <1>2 DEF Owns
  <2> HIDE DEF l
  <2>3. value[l] = 0
    BY <1>1, <2>2 DEF LockInv, MutualExclusion
  <2>4. RepeatInv'
    BY <1>1, <2>1, <2>2, <2>3, OnlyOwner DEF SchedInv, RepeatInv, TypeOK, l
  <2>5. /\ \A t \in Threads : t # cur => pc'[t] = pc[t] /\ lk'[t] = lk[t]
        /\ pc'[cur] # "parked" /\ pc[cur] # "sema_down"
    BY <1>1, <2>1 DEF TypeOK
  <2> QED BY <1>1, <2>1, <2>4, <2>5, QuietSched
<1>3. CASE holder[l] # cur
  <2>1. /\ pc' = [pc EXCEPT ![cur] = "sema_down"]
        /\ UNCHANGED <<cur, status, ready_list, value, waiters, holder, repeat_nr, panic, lk>>
    BY <1>1, <1>3 DEF lock_acquire, goto, task_vars
  <2>2. /\ \A t \in Threads : t # cur => pc'[t] = pc[t] /\ lk'[t] = lk[t]
        /\ pc'[cur] = "sema_down"
    BY <1>1, <2>1 DEF TypeOK
  <2>3. RepeatInv'
    BY <2>1, <2>2, SameRepeat
  <2> QED BY <1>1, <2>1, <2>2, <2>3, QuietSched
<1> QED BY <1>2, <1>3

(* sema_down finds the value 0: the owner of the lock is ready, so the     *)
(* missing idle_thread is not needed.                                      *)
LEMMA SemaDownBlocksSched ==
    ASSUME SchedInv, sema_down_blocks, UNCHANGED frame
    PROVE  SchedInv'
<1> DEFINE l == lk[cur]
           st == [status EXCEPT ![cur] = "TASK_BLOCKED"]
<1>1. /\ TypeOK /\ cur \in Threads /\ l \in Locks /\ LockInv /\ LockInv'
      /\ pc[cur] = "sema_down" /\ value[l] = 0
      /\ UNCHANGED <<pc, call_vars>>
      /\ status[cur] = "TASK_RUNNING"
  BY SemaDownBlocksInv
     DEF SchedInv, LockInv, TypeOK, CallInv, sema_down_blocks, SyncPC, OneRunning
<1>2. ~Owns(cur, l)
  BY <1>1 DEF Owns
<1>3. l # console_lock
  <2>1. PICK t \in Threads : Owns(t, l)
    BY <1>1 DEF LockInv, MutualExclusion
  <2> QED BY <1>2, <2>1 DEF Owns, SchedInv, ConsoleInv
<1>4. /\ ~elem_find(waiters[l], cur) /\ NoRepeats(waiters[l])
      /\ waiters[l] \in Seq(Threads)
  BY <1>1 DEF SchedInv, ListInv, Waits, TypeOK
<1>5. /\ waiters' = [waiters EXCEPT ![l] = list_append(@, cur)]
      /\ thread_block(FALSE)
  BY <1>4 DEF sema_down_blocks
<1>6. /\ st \in [Threads -> TaskStatus] /\ ready_list \in Seq(Threads)
      /\ \A t \in Threads : st[t] = IF t = cur THEN "TASK_BLOCKED" ELSE status[t]
  BY <1>1 DEF TypeOK, TaskStatus
<1>7. ready_list # <<>>
  BY <1>1, <1>2, OwnerReady
<1>8. thread_block(FALSE) = IF schedule_fault(st, ready_list) # "none"
                            THEN panic_spin(schedule_fault(st, ready_list))
                            ELSE schedule(st, ready_list, FALSE)
  BY DEF thread_block
<1> HIDE DEF st, l
<1>9. Fits(st, ready_list)
  BY <1>1, <1>6 DEF Fits, SchedInv, ListInv, OneRunning
<1>10. schedule(st, ready_list, FALSE)
  BY <1>3, <1>5, <1>6, <1>7, <1>8, <1>9, ScheduleFits DEF l
<1>11. ASSUME NEW k \in Locks
       PROVE  /\ NoRepeats(waiters'[k])
              /\ waiters'[k] = waiters[k] \/ value[k] = 0
              /\ \A t \in Threads : elem_find(waiters'[k], t) <=>
                   st[t] = "TASK_BLOCKED" /\ pc'[t] = "sema_down" /\ lk[t] = k
  <2>1. \A t \in Threads : elem_find(waiters[k], t) <=> Waits(t, k)
    BY DEF SchedInv, ListInv
  <2>2. CASE k = l
    <3>1. waiters'[k] = list_append(waiters[l], cur)
      BY <1>1, <1>5, <2>2 DEF TypeOK
    <3>2. /\ NoRepeats(waiters'[k])
          /\ \A t \in Threads : elem_find(waiters'[k], t) <=> elem_find(waiters[l], t) \/ t = cur
      BY <1>1, <1>4, <3>1, AppendNew
    <3> QED BY <1>1, <1>6, <2>1, <2>2, <3>2 DEF Waits, l
  <2>3. CASE k # l
    <3>1. waiters'[k] = waiters[k] /\ NoRepeats(waiters[k])
      BY <1>1, <1>5, <2>3 DEF TypeOK, SchedInv, ListInv
    <3> QED BY <1>1, <1>6, <2>1, <2>3, <3>1 DEF Waits, l
  <2> QED BY <2>2, <2>3
<1>12. /\ \A t \in Threads : t # cur => st[t] = status[t] /\ pc'[t] = pc[t]
       /\ st[cur] = "TASK_BLOCKED" /\ pc'[cur] = "sema_down" /\ value[lk[cur]] = 0
       /\ pc'[cur] = pc[cur] /\ lk[cur] # console_lock
  BY <1>1, <1>3, <1>6 DEF l
<1> QED BY <1>1, <1>6, <1>7, <1>9, <1>10, <1>11, <1>12, SwitchSched

(* sema_down takes the semaphore                                           *)
LEMMA SemaDownPassesSched ==
    ASSUME SchedInv, sema_down_passes, UNCHANGED frame
    PROVE  SchedInv'
<1> DEFINE l == lk[cur]
<1>1. /\ TypeOK /\ cur \in Threads /\ l \in Locks /\ LockInv /\ LockInv'
      /\ pc[cur] = "sema_down" /\ value[l] = 1 /\ status[cur] = "TASK_RUNNING"
  BY SemaDownPassesInv
     DEF SchedInv, LockInv, TypeOK, CallInv, sema_down_passes, SyncPC, OneRunning
<1>2. /\ value' = [value EXCEPT ![l] = 0]
      /\ pc' = [pc EXCEPT ![cur] = "set_holder"]
      /\ UNCHANGED <<cur, status, ready_list, waiters, holder, repeat_nr, panic, lk>>
  BY <1>1 DEF sema_down_passes, goto, call_vars
<1> HIDE DEF l
<1>3. NoPanic' /\ OneRunning'
  BY <1>2 DEF SchedInv, NoPanic, OneRunning
<1>4. ListInv'
  <2>1. \A t \in Threads, k \in Locks : Waits(t, k)' <=> Waits(t, k)
    BY <1>1, <1>2 DEF Waits, TypeOK
  <2> QED BY <1>2, <2>1 DEF SchedInv, ListInv
<1>5. StatusInv'
  BY <1>1, <1>2, ThreadAssumption DEF SchedInv, StatusInv, TypeOK
<1>6. ConsoleInv'
  BY <1>2 DEF SchedInv, ConsoleInv
<1>7. RepeatInv'
  BY <1>1, <1>2 DEF SchedInv, RepeatInv, TypeOK, l
<1>8. NoLostWakeup'
  <2>1. \A k \in Locks : value'[k] = 1 => k # l /\ value[k] = 1
    BY <1>1, <1>2 DEF TypeOK
  <2>2. \A t \in Threads, k \in Locks : k # l /\ Contends(t, k) => Contends(t, k)'
    BY <1>1, <1>2 DEF Contends, TypeOK, l
  <2> QED BY <1>2, <2>1, <2>2 DEF SchedInv, NoLostWakeup
<1> QED BY <1>1, <1>3, <1>4, <1>5, <1>6, <1>7, <1>8 DEF SchedInv

(* lock->holder = running_thread()                                         *)
LEMMA SetHolderSched ==
    ASSUME SchedInv, set_holder, UNCHANGED frame
    PROVE  SchedInv'
<1> DEFINE l == lk[cur]
<1>1. /\ TypeOK /\ cur \in Threads /\ l \in Locks /\ LockInv /\ LockInv'
      /\ pc[cur] = "set_holder"
  BY SetHolderInv DEF SchedInv, LockInv, TypeOK, CallInv, set_holder, SyncPC
<1>2. /\ holder' = [holder EXCEPT ![l] = cur]
      /\ pc' = [pc EXCEPT ![cur] = "set_repeat"]
      /\ UNCHANGED <<cur, status, ready_list, value, waiters, repeat_nr, panic, lk>>
  BY DEF set_holder, goto, task_vars, call_vars
<1>3. Owns(cur, l)
  BY <1>1 DEF Owns
<1> HIDE DEF l
<1>4. RepeatInv'
  BY <1>1, <1>2, <1>3, OnlyOwner DEF SchedInv, RepeatInv, TypeOK, l
<1>5. /\ \A t \in Threads : t # cur => pc'[t] = pc[t] /\ lk'[t] = lk[t]
      /\ pc'[cur] # "parked" /\ pc[cur] # "sema_down"
  BY <1>1, <1>2 DEF TypeOK
<1> QED BY <1>1, <1>2, <1>4, <1>5, QuietSched

(* lock->holder_repeat_nr = 1: its ASSERT holds                            *)
LEMMA SetRepeatSched ==
    ASSUME SchedInv, set_repeat, UNCHANGED frame
    PROVE  SchedInv'
<1> DEFINE l == lk[cur]
<1>1. /\ TypeOK /\ cur \in Threads /\ l \in Locks /\ LockInv /\ LockInv'
      /\ pc[cur] = "set_repeat" /\ ret[cur] = "body"
  BY SetRepeatInv DEF SchedInv, LockInv, TypeOK, CallInv, set_repeat, SyncPC
<1>2. repeat_nr[l] = 0
  BY <1>1 DEF SchedInv, RepeatInv
<1>3. /\ repeat_nr' = [repeat_nr EXCEPT ![l] = 1]
      /\ pc' = [pc EXCEPT ![cur] = "body"]
      /\ UNCHANGED <<cur, status, ready_list, value, waiters, holder, panic, lk>>
  BY <1>1, <1>2 DEF set_repeat, return, goto, task_vars, call_vars
<1>4. Owns(cur, l)
  BY <1>1 DEF Owns
<1> HIDE DEF l
<1>5. value[l] = 0
  BY <1>1, <1>4 DEF LockInv, MutualExclusion
<1>6. RepeatInv'
  BY <1>1, <1>3, <1>4, <1>5, OnlyOwner DEF SchedInv, RepeatInv, TypeOK, l
<1>7. /\ \A t \in Threads : t # cur => pc'[t] = pc[t] /\ lk'[t] = lk[t]
      /\ pc'[cur] # "parked" /\ pc[cur] # "sema_down"
  BY <1>1, <1>3 DEF TypeOK
<1> QED BY <1>1, <1>3, <1>6, <1>7, QuietSched

(* lock_release: its ASSERT holds, the lock is counted down or given up    *)
LEMMA LockReleaseSched ==
    ASSUME SchedInv, lock_release, UNCHANGED frame
    PROVE  SchedInv'
<1> DEFINE l == lk[cur]
<1>1. /\ TypeOK /\ cur \in Threads /\ l \in Locks /\ LockInv /\ LockInv'
      /\ pc[cur] = "lock_release"
  BY LockReleaseInv DEF SchedInv, LockInv, TypeOK, CallInv, lock_release, SyncPC
<1>2. holder[l] = cur /\ repeat_nr[l] > 0 /\ repeat_nr[l] \in Nat
  BY <1>1 DEF SchedInv, RepeatInv, LockInv, HolderInv, TypeOK
<1>3. Owns(cur, l)
  BY <1>1 DEF Owns
<1>4. value[l] = 0
  BY <1>1, <1>3 DEF LockInv, MutualExclusion
<1>5. CASE repeat_nr[l] > 1
  <2>1. ret[cur] = "body"
    BY <1>1, <1>5 DEF LockInv, CallInv
  <2>2. /\ repeat_nr' = [repeat_nr EXCEPT ![l] = @ - 1]
        /\ pc' = [pc EXCEPT ![cur] = "body"]
        /\ UNCHANGED <<cur, status, ready_list, value, waiters, holder, panic, lk>>
    BY <1>1, <1>2, <1>5, <2>1
       DEF lock_release, held_more_than_once, return, goto, task_vars, call_vars
  <2> HIDE DEF l
  <2>3. RepeatInv'
    BY <1>1, <1>2, <1>3, <1>4, <1>5, <2>2, OnlyOwner DEF SchedInv, RepeatInv, TypeOK, l
  <2>4. /\ \A t \in Threads : t # cur => pc'[t] = pc[t] /\ lk'[t] = lk[t]
        /\ pc'[cur] # "parked" /\ pc[cur] # "sema_down"
    BY <1>1, <2>2 DEF TypeOK
  <2> QED BY <1>1, <2>2, <2>3, <2>4, QuietSched
<1>6. CASE ~(repeat_nr[l] > 1)
  <2>1. /\ holder' = [holder EXCEPT ![l] = NULL]
        /\ pc' = [pc EXCEPT ![cur] = "clear_repeat"]
        /\ UNCHANGED <<cur, status, ready_list, value, waiters, repeat_nr, panic, lk>>
    BY <1>1, <1>2, <1>6
       DEF lock_release, held_more_than_once, goto, task_vars, call_vars
  <2> HIDE DEF l
  <2>2. RepeatInv'
    BY <1>1, <1>3, <1>4, <2>1, OnlyOwner, ThreadAssumption
       DEF SchedInv, RepeatInv, TypeOK, l
  <2>3. /\ \A t \in Threads : t # cur => pc'[t] = pc[t] /\ lk'[t] = lk[t]
        /\ pc'[cur] # "parked" /\ pc[cur] # "sema_down"
    BY <1>1, <2>1 DEF TypeOK
  <2> QED BY <1>1, <2>1, <2>2, <2>3, QuietSched
<1> QED BY <1>5, <1>6

(* lock->holder_repeat_nr = 0                                              *)
LEMMA ClearRepeatSched ==
    ASSUME SchedInv, clear_repeat, UNCHANGED frame
    PROVE  SchedInv'
<1> DEFINE l == lk[cur]
<1>1. /\ TypeOK /\ cur \in Threads /\ l \in Locks /\ LockInv /\ LockInv'
      /\ pc[cur] = "clear_repeat"
  BY ClearRepeatInv DEF SchedInv, LockInv, TypeOK, CallInv, clear_repeat, SyncPC
<1>2. /\ repeat_nr' = [repeat_nr EXCEPT ![l] = 0]
      /\ pc' = [pc EXCEPT ![cur] = "sema_up"]
      /\ UNCHANGED <<cur, status, ready_list, value, waiters, holder, panic, lk>>
  BY DEF clear_repeat, goto, task_vars, call_vars
<1>3. Owns(cur, l)
  BY <1>1 DEF Owns
<1> HIDE DEF l
<1>4. RepeatInv'
  BY <1>1, <1>2, <1>3, OnlyOwner DEF SchedInv, RepeatInv, TypeOK, l
<1>5. /\ \A t \in Threads : t # cur => pc'[t] = pc[t] /\ lk'[t] = lk[t]
      /\ pc'[cur] # "parked" /\ pc[cur] # "sema_down"
  BY <1>1, <1>2 DEF TypeOK
<1> QED BY <1>1, <1>2, <1>4, <1>5, QuietSched

(* sema_up: the first waiter is BLOCKED, and becomes a contender           *)
LEMMA SemaUpSched ==
    ASSUME SchedInv, sema_up, UNCHANGED frame
    PROVE  SchedInv'
<1> DEFINE l == lk[cur]
           first == Head(waiters[l])
<1>1. /\ TypeOK /\ cur \in Threads /\ l \in Locks /\ LockInv /\ LockInv'
      /\ pc[cur] = "sema_up" /\ status[cur] = "TASK_RUNNING" /\ ret[cur] = "service_end"
  BY SemaUpInv DEF SchedInv, LockInv, TypeOK, CallInv, sema_up, SyncPC, OneRunning
<1>2. Owns(cur, l)
  BY <1>1 DEF Owns
<1>3. value[l] = 0
  BY <1>1, <1>2 DEF LockInv, MutualExclusion
<1>4. /\ waiters[l] \in Seq(Threads) /\ NoRepeats(waiters[l])
      /\ ready_list \in Seq(Threads) /\ NoRepeats(ready_list)
      /\ \A t \in Threads : elem_find(ready_list, t) <=> status[t] = "TASK_READY"
      /\ \A t \in Threads : elem_find(waiters[l], t) <=> Waits(t, l)
  BY <1>1 DEF TypeOK, SchedInv, ListInv
<1>5. waiters[l] # <<>> => first \in Threads /\ Waits(first, l)
  BY <1>4, PopFirst
<1>6. waiters[l] # <<>> => ~unblock_fails(first)
  BY <1>4, <1>5 DEF unblock_fails, Waits
<1>7. /\ wake_first(l)
      /\ value' = [value EXCEPT ![l] = @ + 1]
      /\ pc' = [pc EXCEPT ![cur] = "service_end"]
      /\ UNCHANGED <<cur, holder, repeat_nr, panic, lk>>
  BY <1>1, <1>3, <1>6 DEF sema_up, list_empty, return, goto, call_vars
<1> HIDE DEF l
<1>8. /\ value'[l] = 1 /\ \A k \in Locks : k # l => value'[k] = value[k]
      /\ \A t \in Threads : pc'[t] = IF t = cur THEN "service_end" ELSE pc[t]
  BY <1>1, <1>3, <1>7 DEF TypeOK
<1>9. NoPanic' /\ ConsoleInv'
  BY <1>7 DEF SchedInv, NoPanic, ConsoleInv
<1>10. RepeatInv'
  BY <1>1, <1>2, <1>7, <1>8, OnlyOwner DEF SchedInv, RepeatInv, l
<1>11. CASE waiters[l] = <<>>
  <2>1. UNCHANGED <<waiters, ready_list, status>>
    BY <1>7, <1>11 DEF wake_first, list_empty
  <2>2. OneRunning'
    BY <1>7, <2>1 DEF SchedInv, OneRunning
  <2>3. ListInv'
    <3>1. \A t \in Threads, k \in Locks : Waits(t, k)' <=> Waits(t, k)
      BY <1>1, <1>7, <1>8, <2>1 DEF Waits
    <3> QED BY <2>1, <3>1 DEF SchedInv, ListInv
  <2>4. StatusInv'
    BY <1>1, <1>8, <2>1, ThreadAssumption DEF SchedInv, StatusInv
  <2>5. NoLostWakeup'
    <3>1. \A t \in Threads, k \in Locks : Contends(t, k) => Contends(t, k)'
      BY <1>1, <1>7, <1>8, <2>1 DEF Contends
    <3> QED BY <1>8, <1>11, <2>1, <3>1 DEF SchedInv, NoLostWakeup
  <2> QED BY <1>1, <1>9, <1>10, <2>2, <2>3, <2>4, <2>5 DEF SchedInv
<1>12. CASE waiters[l] # <<>>
  <2>1. /\ waiters' = [waiters EXCEPT ![l] = Tail(waiters[l])]
        /\ ready_list' = list_push(ready_list, first)
        /\ status' = [status EXCEPT ![first] = "TASK_READY"]
    BY <1>7, <1>12 DEF wake_first, list_empty, thread_unblock
  <2>2. /\ first \in Threads /\ Waits(first, l) /\ ~elem_find(ready_list, first)
        /\ first # cur
    BY <1>1, <1>4, <1>5, <1>12 DEF Waits
  <2>3. /\ NoRepeats(Tail(waiters[l]))
        /\ \A t \in Threads : elem_find(Tail(waiters[l]), t) <=> Waits(t, l) /\ t # first
    BY <1>4, <1>12, PopFirst
  <2> HIDE DEF first
  <2>4. /\ NoRepeats(ready_list')
        /\ \A t \in Threads : elem_find(ready_list', t) <=> elem_find(ready_list, t) \/ t = first
    BY <1>4, <2>1, <2>2, PushNew
  <2>5. \A t \in Threads : status'[t] = IF t = first THEN "TASK_READY" ELSE status[t]
    BY <1>1, <2>1, <2>2 DEF TypeOK
  <2>6. \A k \in Locks : waiters'[k] = IF k = l THEN Tail(waiters[l]) ELSE waiters[k]
    BY <1>1, <2>1 DEF TypeOK
  <2>7. OneRunning'
    BY <1>7, <2>2, <2>5 DEF SchedInv, OneRunning
  <2>8. \A t \in Threads, k \in Locks : Waits(t, k)' <=> Waits(t, k) /\ t # first
    BY <1>1, <1>7, <1>8, <2>5 DEF Waits
  <2>9. ListInv'
    <3>1. \A t \in Threads : elem_find(ready_list', t) <=> status'[t] = "TASK_READY"
      BY <1>4, <2>4, <2>5
    <3>2. ASSUME NEW k \in Locks
          PROVE  /\ NoRepeats(waiters'[k])
                 /\ \A t \in Threads : elem_find(waiters'[k], t) <=> Waits(t, k)'
      <4>1. CASE k = l
        BY <2>3, <2>6, <2>8, <4>1
      <4>2. CASE k # l
        <5>1. \A t \in Threads : Waits(t, k) => t # first
          BY <2>2, <4>2 DEF Waits
        <5> QED BY <2>6, <2>8, <4>2, <5>1 DEF SchedInv, ListInv
      <4> QED BY <4>1, <4>2
    <3> QED BY <2>4, <3>1, <3>2 DEF ListInv
  <2>10. StatusInv'
    BY <1>1, <1>8, <2>2, <2>5, ThreadAssumption DEF SchedInv, StatusInv
  <2>11. NoLostWakeup'
    <3> SUFFICES ASSUME NEW k \in Locks, value'[k] = 1, waiters'[k] # <<>>
                 PROVE  \E t \in Threads : Contends(t, k)'
      BY DEF NoLostWakeup
    <3>1. CASE k = l
      <4>1. PICK t \in Threads : t = first
        BY <2>2
      <4>2. Contends(t, k)'
        BY <1>7, <1>8, <2>2, <2>5, <3>1, <4>1 DEF Contends, Waits
      <4> QED BY <4>2
    <3>2. CASE k # l
      <4>1. PICK t \in Threads : Contends(t, k)
        BY <1>8, <2>6, <3>2 DEF SchedInv, NoLostWakeup
      <4>2. Contends(t, k)'
        BY <1>1, <1>7, <1>8, <2>5, <4>1 DEF Contends
      <4> QED BY <4>2
    <3> QED BY <3>1, <3>2
  <2> QED BY <1>1, <1>9, <1>10, <2>7, <2>9, <2>10, <2>11 DEF SchedInv
<1> QED BY <1>11, <1>12

(* intr_enable, int 0x80, a direct call, the body's calls, the return of a *)
(* service: only cur moves on                                              *)
LEMMA ServiceSched ==
    ASSUME SchedInv,
           \/ intr_enable \/ body_acquires_again \/ body_releases \/ service_end
           \/ \E l \in Locks : syscall_handler(l) \/ direct_call(l)
    PROVE  SchedInv'
<1>1. TypeOK /\ cur \in Threads /\ LockInv
  BY DEF SchedInv, LockInv, TypeOK
<1>2. LockInv'
  BY <1>1, IntrEnableInv, AcquireAgainInv, BodyReleasesInv, ServiceEndInv, SyscallInv,
     DirectCallInv
<1> USE DEF goto, task_vars, lock_vars, call_vars
<1>3. UNCHANGED <<cur, status, ready_list, value, waiters, holder, repeat_nr, panic>>
  BY DEF intr_enable, body_acquires_again, body_releases, service_end, syscall_handler,
         direct_call
<1>4. \E q \in {"run", "lock_acquire", "lock_release"} : pc' = [pc EXCEPT ![cur] = q]
  BY DEF intr_enable, body_acquires_again, body_releases, service_end, syscall_handler,
         direct_call
<1>5. \A t \in Threads : t # cur => pc'[t] = pc[t] /\ lk'[t] = lk[t]
  <2>1. \A t \in Threads : t # cur => pc'[t] = pc[t]
    BY <1>1, <1>4 DEF TypeOK
  <2>2. lk' = lk \/ \E l \in Locks \cup {NULL} : lk' = [lk EXCEPT ![cur] = l]
    BY DEF intr_enable, body_acquires_again, body_releases, service_end, syscall_handler,
           direct_call
  <2> QED BY <1>1, <2>1, <2>2 DEF TypeOK
<1>6. pc[cur] # "sema_down" /\ pc'[cur] # "parked"
  BY <1>1, <1>4 DEF TypeOK, intr_enable, body_acquires_again, body_releases, service_end,
                   syscall_handler, direct_call
<1>7. \/ pc'[cur] \in {"run", "sema_down", "parked", "service_end"}
      \/ pc'[cur] = "lock_acquire" /\ holder[lk'[cur]] # cur
      \/ /\ pc[cur] = "body" /\ lk'[cur] = lk[cur]
         /\ pc'[cur] \in {"lock_acquire", "lock_release"}
  <2>1. CASE intr_enable \/ service_end
    BY <1>1, <2>1 DEF TypeOK, intr_enable, service_end
  <2>2. CASE body_acquires_again \/ body_releases
    BY <1>1, <2>2 DEF TypeOK, body_acquires_again, body_releases
  <2>3. CASE \E l \in Locks : syscall_handler(l) \/ direct_call(l)
    <3>1. PICK l \in Locks : syscall_handler(l) \/ direct_call(l)
      BY <2>3
    <3>2. pc[cur] = "run" /\ lk'[cur] = l /\ pc'[cur] = "lock_acquire"
      BY <1>1, <3>1 DEF TypeOK, syscall_handler, direct_call
    <3>3. holder[l] # cur
      BY <1>1, <3>2 DEF LockInv, HolderInv
    <3> QED BY <3>2, <3>3
  <2> QED BY <2>1, <2>2, <2>3
<1>8. RepeatInv'
  BY <1>3, <1>5, <1>7, SameRepeat
<1> QED BY <1>2, <1>3, <1>5, <1>6, <1>8, QuietSched

(* main's thread_start: the new task is on no list yet                     *)
LEMMA ThreadStartSched ==
    ASSUME SchedInv, NEW t \in Threads, main_thread_start(t)
    PROVE  SchedInv'
<1>1. /\ TypeOK /\ cur \in Threads /\ LockInv /\ LockInv'
      /\ status[t] = "none"
      /\ status' = [status EXCEPT ![t] = "TASK_READY"]
      /\ ready_list' = list_append(ready_list, t)
      /\ UNCHANGED <<cur, value, waiters, holder, repeat_nr, panic, lk, pc>>
  BY ThreadStartInv
     DEF SchedInv, LockInv, TypeOK, main_thread_start, thread_start, lock_vars, call_vars
<1>2. \A u \in Threads : status'[u] = IF u = t THEN "TASK_READY" ELSE status[u]
  BY <1>1 DEF TypeOK
<1>3. /\ ready_list \in Seq(Threads) /\ NoRepeats(ready_list) /\ ~elem_find(ready_list, t)
      /\ \A u \in Threads : elem_find(ready_list, u) <=> status[u] = "TASK_READY"
  BY <1>1 DEF TypeOK, SchedInv, ListInv
<1>4. /\ NoRepeats(ready_list')
      /\ \A u \in Threads : elem_find(ready_list', u) <=> elem_find(ready_list, u) \/ u = t
  BY <1>1, <1>3, AppendNew
<1>5. NoPanic' /\ ConsoleInv'
  BY <1>1 DEF SchedInv, NoPanic, ConsoleInv
<1>6. OneRunning'
  BY <1>1, <1>2 DEF SchedInv, OneRunning
<1>7. ListInv'
  <2>1. \A u \in Threads, l \in Locks : Waits(u, l)' <=> Waits(u, l)
    BY <1>1, <1>2 DEF Waits
  <2> QED BY <1>1, <1>2, <1>3, <1>4, <2>1 DEF SchedInv, ListInv
<1>8. StatusInv'
  BY <1>1, <1>2, ThreadAssumption DEF SchedInv, StatusInv
<1>9. RepeatInv'
  BY <1>1 DEF SchedInv, RepeatInv
<1>10. NoLostWakeup'
  <2>1. \A u \in Threads, l \in Locks : Contends(u, l) => Contends(u, l)'
    BY <1>1, <1>2 DEF Contends
  <2> QED BY <1>1, <2>1 DEF SchedInv, NoLostWakeup
<1> QED BY <1>1, <1>5, <1>6, <1>7, <1>8, <1>9, <1>10 DEF SchedInv

(* thread_yield: cur is RUNNING and on no list, so both ASSERTs hold       *)
LEMMA YieldSched ==
    ASSUME SchedInv, yield
    PROVE  SchedInv'
<1> DEFINE st == [status EXCEPT ![cur] = "TASK_READY"]
           rq == list_append(ready_list, cur)
<1>1. /\ TypeOK /\ cur \in Threads /\ LockInv /\ LockInv'
      /\ pc[cur] = "run" /\ status[cur] = "TASK_RUNNING" /\ intr \in BOOLEAN
      /\ thread_yield
      /\ UNCHANGED <<pc, call_vars, frame, waiters>>
  BY YieldInv DEF SchedInv, LockInv, TypeOK, yield, thread_yield, OneRunning
<1>2. lk[cur] # console_lock
  BY <1>1 DEF LockInv, FrameInv
<1>3. /\ ready_list \in Seq(Threads) /\ NoRepeats(ready_list) /\ ~elem_find(ready_list, cur)
      /\ \A t \in Threads : elem_find(ready_list, t) <=> status[t] = "TASK_READY"
  BY <1>1 DEF TypeOK, SchedInv, ListInv
<1>4. /\ rq \in Seq(Threads) /\ rq # <<>> /\ NoRepeats(rq)
      /\ \A t \in Threads : elem_find(rq, t) <=> elem_find(ready_list, t) \/ t = cur
  BY <1>1, <1>3, AppendNew
<1>5. /\ st \in [Threads -> TaskStatus]
      /\ \A t \in Threads : st[t] = IF t = cur THEN "TASK_READY" ELSE status[t]
  BY <1>1 DEF TypeOK, TaskStatus
<1>6. schedule_fault(st, rq) = "none" => schedule(st, rq, intr)
  BY <1>1, <1>3 DEF thread_yield
<1> HIDE DEF st, rq
<1>7. Fits(st, rq)
  BY <1>1, <1>3, <1>4, <1>5 DEF Fits, SchedInv, OneRunning
<1>8. schedule(st, rq, intr)
  BY <1>2, <1>4, <1>5, <1>6, <1>7, ScheduleFits
<1>9. ASSUME NEW l \in Locks
      PROVE  /\ NoRepeats(waiters'[l])
             /\ waiters'[l] = waiters[l] \/ value[l] = 0
             /\ \A t \in Threads : elem_find(waiters'[l], t) <=>
                  st[t] = "TASK_BLOCKED" /\ pc'[t] = "sema_down" /\ lk[t] = l
  BY <1>1, <1>5 DEF SchedInv, ListInv, Waits
<1>10. /\ \A t \in Threads : t # cur => st[t] = status[t] /\ pc'[t] = pc[t]
       /\ st[cur] = "TASK_READY" /\ pc'[cur] = pc[cur]
  BY <1>1, <1>5
<1> QED BY <1>1, <1>2, <1>4, <1>5, <1>7, <1>8, <1>9, <1>10, SwitchSched

(* thread_block for good: somebody else is ready                           *)
LEMMA ParkSched ==
    ASSUME SchedInv, park
    PROVE  SchedInv'
<1> DEFINE st == [status EXCEPT ![cur] = "TASK_BLOCKED"]
<1>1. /\ TypeOK /\ cur \in Threads /\ LockInv /\ LockInv'
      /\ pc[cur] = "run" /\ status[cur] = "TASK_RUNNING" /\ intr \in BOOLEAN
      /\ cur # MainThread
      /\ pc' = [pc EXCEPT ![cur] = "parked"]
      /\ thread_block(intr)
      /\ UNCHANGED <<call_vars, frame, waiters>>
  BY ParkInv DEF SchedInv, LockInv, TypeOK, park, goto, OneRunning
<1>2. lk[cur] # console_lock
  BY <1>1 DEF LockInv, FrameInv
<1>3. ready_list # <<>> /\ ready_list \in Seq(Threads)
  BY <1>1, MainReady DEF TypeOK
<1>4. /\ st \in [Threads -> TaskStatus]
      /\ \A t \in Threads : st[t] = IF t = cur THEN "TASK_BLOCKED" ELSE status[t]
      /\ \A t \in Threads : pc'[t] = IF t = cur THEN "parked" ELSE pc[t]
  BY <1>1 DEF TypeOK, TaskStatus
<1>5. schedule_fault(st, ready_list) = "none" => schedule(st, ready_list, intr)
  BY <1>1 DEF thread_block
<1> HIDE DEF st
<1>6. Fits(st, ready_list)
  BY <1>1, <1>4 DEF Fits, SchedInv, ListInv, OneRunning
<1>7. schedule(st, ready_list, intr)
  BY <1>2, <1>3, <1>4, <1>5, <1>6, ScheduleFits
<1>8. ASSUME NEW l \in Locks
      PROVE  /\ NoRepeats(waiters'[l])
             /\ waiters'[l] = waiters[l] \/ value[l] = 0
             /\ \A t \in Threads : elem_find(waiters'[l], t) <=>
                  st[t] = "TASK_BLOCKED" /\ pc'[t] = "sema_down" /\ lk[t] = l
  BY <1>1, <1>4 DEF SchedInv, ListInv, Waits
<1>9. /\ \A t \in Threads : t # cur => st[t] = status[t] /\ pc'[t] = pc[t]
      /\ st[cur] = "TASK_BLOCKED" /\ pc'[cur] = "parked"
  BY <1>1, <1>4
<1> QED BY <1>1, <1>2, <1>3, <1>4, <1>6, <1>7, <1>8, <1>9, SwitchSched

(* the clock interrupt, at the end of a time slice or before               *)
LEMMA ClockSched ==
    ASSUME SchedInv, clock_interrupt
    PROVE  SchedInv'
<1>1. /\ TypeOK /\ cur \in Threads /\ LockInv /\ LockInv'
      /\ status[cur] = "TASK_RUNNING" /\ intr
      /\ intr_timer_handler
      /\ UNCHANGED <<pc, call_vars, frame, waiters>>
  BY ClockInv
     DEF SchedInv, LockInv, TypeOK, clock_interrupt, intr_timer_handler, OneRunning
<1>2. CASE ticks[cur] > 0
  <2>1. UNCHANGED <<cur, status, ready_list, value, waiters, holder, repeat_nr, panic, lk, pc>>
    BY <1>1, <1>2 DEF intr_timer_handler, call_vars
  <2>2. NoPanic' /\ OneRunning' /\ ListInv' /\ StatusInv' /\ ConsoleInv' /\ RepeatInv'
    BY <2>1 DEF SchedInv, NoPanic, OneRunning, ListInv, Waits, StatusInv, ConsoleInv, RepeatInv
  <2>3. NoLostWakeup'
    BY <2>1 DEF SchedInv, NoLostWakeup, Contends
  <2> QED BY <1>1, <2>2, <2>3 DEF SchedInv
<1>3. CASE ~(ticks[cur] > 0)
  <2>1. lk[cur] # console_lock
    BY <1>1 DEF LockInv, FrameInv, InterruptFlagKept, IfBit
  <2>2. status \in [Threads -> TaskStatus] /\ ready_list \in Seq(Threads)
    BY <1>1 DEF TypeOK
  <2>3. Fits(status, ready_list)
    BY DEF Fits, SchedInv, ListInv, OneRunning
  <2>4. schedule(status, ready_list, TRUE)
    BY <1>1, <1>3, <2>1, <2>2, <2>3, ScheduleFits DEF intr_timer_handler
  <2>5. ASSUME NEW l \in Locks
        PROVE  /\ NoRepeats(waiters'[l])
               /\ waiters'[l] = waiters[l] \/ value[l] = 0
               /\ \A t \in Threads : elem_find(waiters'[l], t) <=>
                    status[t] = "TASK_BLOCKED" /\ pc'[t] = "sema_down" /\ lk[t] = l
    BY <1>1 DEF SchedInv, ListInv, Waits
  <2> QED BY <1>1, <2>1, <2>2, <2>3, <2>4, <2>5, SwitchSched
<1> QED BY <1>2, <1>3

-----------------------------------------------------------------------------
(* SchedInv holds when init_all has finished.                              *)
LEMMA InitSchedInv == Init => SchedInv
<1> SUFFICES ASSUME Init PROVE SchedInv
  OBVIOUS
<1>1. LockInv
  BY InitLockInv
<1> USE DEF Init, thread_init, sync_init
<1>2. NoPanic /\ OneRunning
  BY ThreadAssumption DEF NoPanic, OneRunning
<1>3. ListInv
  <2>1. NoRepeats(<<>>) /\ \A t \in Threads : ~elem_find(<<>>, t)
    BY DEF NoRepeats, elem_find
  <2> QED BY <2>1 DEF ListInv, Waits
<1>4. StatusInv /\ ConsoleInv
  BY ThreadAssumption DEF StatusInv, ConsoleInv
<1>5. RepeatInv
  BY DEF RepeatInv
<1>6. NoLostWakeup
  BY DEF NoLostWakeup
<1> QED BY <1>1, <1>2, <1>3, <1>4, <1>5, <1>6 DEF SchedInv

(* Every step of the kernel preserves SchedInv.                            *)
LEMMA NextSchedInv == SchedInv /\ [Next]_vars => SchedInv'
<1> SUFFICES ASSUME SchedInv, [Next]_vars PROVE SchedInv'
  OBVIOUS
<1>1. CASE UNCHANGED vars
  <2>1. UNCHANGED <<cur, status, ready_list, value, waiters, holder, repeat_nr, panic, lk, pc>>
    BY <1>1 DEF vars
  <2>2. LockInv'
    BY <1>1, NextLockInv DEF SchedInv
  <2>3. NoPanic' /\ OneRunning' /\ ListInv' /\ StatusInv' /\ ConsoleInv' /\ RepeatInv'
    BY <2>1 DEF SchedInv, NoPanic, OneRunning, ListInv, Waits, StatusInv, ConsoleInv, RepeatInv
  <2>4. NoLostWakeup'
    BY <2>1 DEF SchedInv, NoLostWakeup, Contends
  <2> QED BY <2>2, <2>3, <2>4 DEF SchedInv
<1>2. CASE sync_step /\ UNCHANGED frame
  BY <1>2, LockAcquireSched, SemaDownBlocksSched, SemaDownPassesSched, SetHolderSched,
     SetRepeatSched, LockReleaseSched, ClearRepeatSched, SemaUpSched DEF sync_step
<1>3. CASE \/ intr_enable \/ body_acquires_again \/ body_releases \/ service_end
           \/ \E l \in Locks : syscall_handler(l) \/ direct_call(l)
  BY <1>3, ServiceSched
<1>4. CASE \E t \in Threads : main_thread_start(t)
  BY <1>4, ThreadStartSched
<1>5. CASE yield \/ park \/ clock_interrupt
  BY <1>5, YieldSched, ParkSched, ClockSched
<1> QED BY <1>1, <1>2, <1>3, <1>4, <1>5 DEF Next, kernel_code

LEMMA SchedInvariant == Spec => []SchedInv
  BY InitSchedInv, NextSchedInv, PTL DEF Spec

(* No ASSERT of thread.c or sync.c fails, whatever the number of tasks and *)
(* locks: the idle_thread that thread_init does not create is never needed *)
(* and printk inside schedule() never waits for console_lock.              *)
THEOREM KernelNeverPanics == Spec => []NoPanic
<1>1. SchedInv => NoPanic
  BY DEF SchedInv
<1> QED BY <1>1, SchedInvariant, PTL

(* A list without repetitions holds a task once or not at all.             *)
LEMMA CountOnList ==
    ASSUME NEW plist \in Seq(Threads), NoRepeats(plist), NEW t
    PROVE  Cardinality({i \in DOMAIN plist : plist[i] = t})
             = IF elem_find(plist, t) THEN 1 ELSE 0
<1> DEFINE places == {i \in DOMAIN plist : plist[i] = t}
<1>1. DOMAIN plist = 1 .. Len(plist)
  BY LenProperties
<1>2. CASE elem_find(plist, t)
  <2>1. PICK i \in 1 .. Len(plist) : plist[i] = t
    BY <1>2 DEF elem_find
  <2>2. places = {i}
    BY <1>1, <2>1 DEF NoRepeats
  <2> QED BY <1>2, <2>2, FS_Singleton
<1>3. CASE ~elem_find(plist, t)
  <2>1. places = {}
    BY <1>1, <1>3 DEF elem_find
  <2> QED BY <1>3, <2>1, FS_EmptySet
<1> QED BY <1>2, <1>3

(* The scheduler's bookkeeping, for any number of tasks and locks: a       *)
(* general_tag is linked into one list at most and once, exactly the task  *)
(* on the processor is RUNNING, and no wakeup of a lock is lost.           *)
THEOREM SchedulerSound == Spec => []SchedulerInv
<1>1. ASSUME SchedInv PROVE SchedulerInv
  <2>1. /\ ready_list \in Seq(Threads) /\ NoRepeats(ready_list)
        /\ \A l \in Locks : waiters[l] \in Seq(Threads) /\ NoRepeats(waiters[l])
    BY <1>1 DEF SchedInv, LockInv, TypeOK, ListInv
  <2>2. OneListPerTask
    <3> SUFFICES ASSUME NEW t \in Threads
                 PROVE  /\ Cardinality({i \in DOMAIN ready_list : ready_list[i] = t})
                             = IF status[t] = "TASK_READY" THEN 1 ELSE 0
                        /\ \A l \in Locks :
                             Cardinality({i \in DOMAIN waiters[l] : waiters[l][i] = t})
                               = IF Waits(t, l) THEN 1 ELSE 0
      BY DEF OneListPerTask, Waits
    <3>1. /\ elem_find(ready_list, t) <=> status[t] = "TASK_READY"
          /\ \A l \in Locks : elem_find(waiters[l], t) <=> Waits(t, l)
      BY <1>1 DEF SchedInv, ListInv
    <3> QED BY <2>1, <3>1, CountOnList
  <2> QED BY <1>1, <2>2 DEF SchedInv, SchedulerInv
<1> QED BY <1>1, SchedInvariant, PTL


-----------------------------------------------------------------------------
(* The refinement of AbsLock.  Because a lock has one owner at most, the   *)
(* CHOOSE in lock_owner finds it.                                          *)
OwnerNamed ==
    \A l \in Locks :
        /\ \A t \in Threads : lock_owner[l] = t <=> Owns(t, l)
        /\ lock_owner[l] \in Threads \cup {NULL}

LEMMA OwnerFound == LockInv => OwnerNamed
<1> SUFFICES ASSUME LockInv, NEW l \in Locks
             PROVE  /\ \A t \in Threads : lock_owner[l] = t <=> Owns(t, l)
                    /\ lock_owner[l] \in Threads \cup {NULL}
  BY DEF OwnerNamed
<1>1. \A t, u \in Threads : Owns(t, l) /\ Owns(u, l) => t = u
  BY DEF LockInv, MutualExclusion
<1>2. lock_owner[l] = IF \E t \in Threads : Owns(t, l)
                      THEN CHOOSE t \in Threads : Owns(t, l) ELSE NULL
  BY DEF lock_owner
<1>3. NULL \notin Threads
  BY ThreadAssumption DEF ThreadAssumption
<1>4. CASE \E t \in Threads : Owns(t, l)
  <2>1. lock_owner[l] \in Threads /\ Owns(lock_owner[l], l)
    BY <1>2, <1>4, Zenon
  <2> QED BY <1>1, <1>3, <1>4, <2>1
<1>5. CASE ~\E t \in Threads : Owns(t, l)
  BY <1>2, <1>3, <1>5
<1> QED BY <1>4, <1>5

(* lock_owner changes only where ownership changes, critical_section only  *)
(* where a body is entered or left.                                        *)
LEMMA Unowned ==
    ASSUME LockInv, LockInv',
           \A t \in Threads, l \in Locks : Owns(t, l)' <=> Owns(t, l)
    PROVE  UNCHANGED lock_owner
<1>1. OwnerNamed /\ OwnerNamed'
  BY OwnerFound, PTL
<1>2. \A l \in Locks : lock_owner'[l] = lock_owner[l]
  BY <1>1 DEF OwnerNamed
<1> QED BY <1>2 DEF lock_owner

(* What a kernel step is to the locks, and what it leaves to the tasks     *)
(* that do not run: their critical section.                                *)
AbstractStep == Abstract!LockNext \/ UNCHANGED <<lock_owner, critical_section>>

OthersKeep ==
    \A t \in Threads : t # cur =>
        /\ pc'[t] = "body" <=> pc[t] = "body"
        /\ lk'[t] = lk[t]

(* A task that enters, leaves or does not touch its body keeps its lock.   *)
LEMMA SameOwnerStep ==
    ASSUME LockInv, LockInv', OthersKeep,
           \A t \in Threads, l \in Locks : Owns(t, l)' <=> Owns(t, l),
           pc[cur] = "body" /\ pc'[cur] = "body" => lk'[cur] = lk[cur],
           pc'[cur] = "body" => Owns(cur, lk'[cur])
    PROVE  AbstractStep
<1>1. TypeOK /\ TypeOK' /\ cur \in Threads /\ OwnerNamed
  BY OwnerFound DEF LockInv, TypeOK
<1>2. UNCHANGED lock_owner
  BY Unowned
<1>3. /\ critical_section = [t \in Threads |-> IF pc[t] = "body" THEN lk[t] ELSE NULL]
      /\ critical_section' = [t \in Threads |-> IF pc'[t] = "body" THEN lk'[t] ELSE NULL]
  BY DEF critical_section
<1>4. CASE pc[cur] # "body" /\ pc'[cur] = "body"
  <2>1. pc[cur] # "body" /\ lk'[cur] \in Locks /\ Owns(cur, lk'[cur])
    BY <1>1, <1>4 DEF LockInv, CallInv
  <2>2. lock_owner[lk'[cur]] = cur /\ critical_section[cur] = NULL
    BY <1>1, <1>3, <2>1 DEF OwnerNamed
  <2>3. critical_section' = [critical_section EXCEPT ![cur] = lk'[cur]]
    BY <1>1, <1>3, <1>4 DEF OthersKeep
  <2>4. Abstract!Enter(cur, lk'[cur])
    BY <1>2, <2>2, <2>3 DEF Abstract!Enter
  <2> QED BY <1>1, <2>1, <2>4 DEF AbstractStep, Abstract!LockNext
<1>5. CASE pc[cur] = "body" /\ pc'[cur] # "body"
  <2>1. pc'[cur] # "body" /\ lk[cur] \in Locks
    BY <1>1, <1>5 DEF LockInv, CallInv
  <2>2. critical_section[cur] = lk[cur]
    BY <1>1, <1>3, <1>5
  <2>3. critical_section' = [critical_section EXCEPT ![cur] = NULL]
    BY <1>1, <1>3, <2>1 DEF OthersKeep
  <2>4. Abstract!Leave(cur, lk[cur])
    BY <1>2, <2>2, <2>3 DEF Abstract!Leave
  <2> QED BY <1>1, <2>1, <2>4 DEF AbstractStep, Abstract!LockNext
<1>6. CASE pc[cur] = "body" <=> pc'[cur] = "body"
  <2>1. UNCHANGED critical_section
    BY <1>1, <1>3, <1>6 DEF OthersKeep
  <2> QED BY <1>2, <2>1 DEF AbstractStep
<1> QED BY <1>4, <1>5, <1>6


(* A sema_down that passes gives the free lock to cur.                     *)
LEMMA PassesAcquires ==
    ASSUME SchedInv, SchedInv', sema_down_passes
    PROVE  AbstractStep
<1> DEFINE l == lk[cur]
<1>1. /\ TypeOK /\ LockInv /\ LockInv' /\ cur \in Threads /\ l \in Locks
      /\ pc[cur] = "sema_down" /\ value[l] # 0 /\ panic' = "none"
  BY DEF SchedInv, NoPanic, LockInv, TypeOK, CallInv, SyncPC, sema_down_passes
<1>2. /\ pc' = [pc EXCEPT ![cur] = "set_holder"]
      /\ UNCHANGED <<lk, holder>>
  BY <1>1 DEF sema_down_passes, panic_spin, goto, call_vars
<1> HIDE DEF l
<1>3. OwnerNamed /\ OwnerNamed'
  BY <1>1, OwnerFound, PTL
<1>4. \A t \in Threads : ~Owns(t, l)
  BY <1>1 DEF LockInv, MutualExclusion
<1>5. \A t \in Threads, k \in Locks : Owns(t, k)' <=> (Owns(t, k) \/ (t = cur /\ k = l))
  BY <1>1, <1>2 DEF TypeOK, Owns, l
<1>6. lock_owner[l] = NULL
  BY <1>1, <1>3, <1>4 DEF OwnerNamed
<1>7. \A k \in Locks : lock_owner'[k] = IF k = l THEN cur ELSE lock_owner[k]
  BY <1>1, <1>3, <1>5 DEF OwnerNamed
<1>8. lock_owner' = [lock_owner EXCEPT ![l] = cur]
  BY <1>7 DEF lock_owner
<1>9. UNCHANGED critical_section
  BY <1>1, <1>2 DEF TypeOK, critical_section
<1>10. Abstract!Acquire(cur, l)
  BY <1>6, <1>8, <1>9 DEF Abstract!Acquire
<1> QED BY <1>1, <1>10 DEF AbstractStep, Abstract!LockNext

(* sema_up gives cur's lock back, outside the critical section.            *)
LEMMA UpReleases ==
    ASSUME SchedInv, SchedInv', sema_up
    PROVE  AbstractStep
<1> DEFINE l == lk[cur]
<1>1. /\ TypeOK /\ LockInv /\ LockInv' /\ cur \in Threads /\ l \in Locks
      /\ pc[cur] = "sema_up" /\ ret[cur] = "service_end" /\ panic' = "none"
  BY DEF SchedInv, NoPanic, LockInv, TypeOK, CallInv, SyncPC, sema_up
<1>2. Owns(cur, l)
  BY <1>1 DEF Owns
<1>3. value[l] = 0
  BY <1>1, <1>2 DEF LockInv, MutualExclusion
<1>4. /\ pc' = [pc EXCEPT ![cur] = "service_end"]
      /\ UNCHANGED <<lk, holder>>
  <2>1. panic_spin("unblock") => panic' = "unblock"
    BY DEF panic_spin
  <2> QED BY <1>1, <1>3, <2>1 DEF sema_up, return, goto, call_vars
<1> HIDE DEF l
<1>5. OwnerNamed /\ OwnerNamed'
  BY <1>1, OwnerFound, PTL
<1>6. \A t \in Threads : Owns(t, l) => t = cur
  BY <1>1, <1>2 DEF LockInv, MutualExclusion
<1>7. \A t \in Threads, k \in Locks : Owns(t, k)' <=> (Owns(t, k) /\ k # l)
  BY <1>1, <1>4, <1>6 DEF TypeOK, Owns, l
<1>8. lock_owner[l] = cur
  BY <1>1, <1>2, <1>5 DEF OwnerNamed
<1>9. \A k \in Locks : lock_owner'[k] = IF k = l THEN NULL ELSE lock_owner[k]
  BY <1>1, <1>5, <1>7 DEF OwnerNamed
<1>10. lock_owner' = [lock_owner EXCEPT ![l] = NULL]
  BY <1>9 DEF lock_owner
<1>11. UNCHANGED critical_section
  BY <1>1, <1>4 DEF TypeOK, critical_section
<1>12. critical_section[cur] # l
  <2>1. critical_section[cur] = NULL /\ NULL \notin Locks
    BY <1>1, ThreadAssumption DEF critical_section, ThreadAssumption
  <2> QED BY <1>1, <2>1
<1>13. Abstract!Release(cur, l)
  BY <1>8, <1>10, <1>11, <1>12 DEF Abstract!Release
<1> QED BY <1>1, <1>13 DEF AbstractStep, Abstract!LockNext

(* Switching tasks moves no lock and no body.                              *)
LEMMA SwitchKeepsLocks ==
    ASSUME LockInv, LockInv', NEW resume, Switched(resume), UNCHANGED lk,
           \/ UNCHANGED pc
           \/ pc[cur] = "run" /\ pc' = [pc EXCEPT ![cur] = "parked"]
    PROVE  AbstractStep
<1>1. TypeOK /\ UNCHANGED <<lk, holder>>
  BY DEF LockInv, Switched
<1>2. \A t \in Threads : pc'[t] = pc[t] \/ (pc[t] = "run" /\ pc'[t] = "parked")
  BY <1>1 DEF TypeOK
<1>3. \A t \in Threads, l \in Locks : Owns(t, l)' <=> Owns(t, l)
  BY <1>1, <1>2 DEF Owns
<1>4. UNCHANGED lock_owner
  BY <1>3, Unowned
<1>5. UNCHANGED critical_section
  BY <1>1, <1>2 DEF critical_section
<1> QED BY <1>4, <1>5 DEF AbstractStep


(* The rest of the lock operations and the calls around them: cur moves on *)
(* and owns after the step what it owned before it.                        *)
LEMMA CallKeepsLocks ==
    ASSUME SchedInv, SchedInv',
           \/ lock_acquire \/ set_holder \/ set_repeat \/ lock_release \/ clear_repeat
           \/ intr_enable \/ body_acquires_again \/ body_releases \/ service_end
           \/ \E l \in Locks : syscall_handler(l) \/ direct_call(l)
    PROVE  AbstractStep
<1>1. TypeOK /\ LockInv /\ LockInv' /\ cur \in Threads /\ panic' = "none"
  BY DEF SchedInv, NoPanic, LockInv, TypeOK
<1> DEFINE l == lk[cur]
<1> USE DEF goto, return, task_vars, lock_vars, call_vars, panic_spin
<1>2. CASE lock_acquire
  <2>1. /\ pc[cur] = "lock_acquire" /\ l \in Locks /\ ret[cur] = "body"
        /\ UNCHANGED <<lk, holder>>
    BY <1>1, <1>2 DEF LockInv, CallInv, SyncPC, lock_acquire
  <2>2. pc' = [pc EXCEPT ![cur] = IF holder[l] = cur THEN "body" ELSE "sema_down"]
    BY <1>1, <1>2, <2>1 DEF lock_acquire
  <2>3. \A t \in Threads, k \in Locks : Owns(t, k)' <=> Owns(t, k)
    BY <1>1, <2>1, <2>2 DEF TypeOK, Owns
  <2>4. OthersKeep /\ (pc'[cur] = "body" => Owns(cur, lk'[cur]))
    BY <1>1, <2>1, <2>2 DEF TypeOK, OthersKeep, Owns
  <2> QED BY <1>1, <2>1, <2>3, <2>4, SameOwnerStep
<1>3. CASE set_holder \/ set_repeat \/ lock_release \/ clear_repeat
  <2>1. /\ pc[cur] \in {"set_holder", "set_repeat", "lock_release", "clear_repeat"}
        /\ l \in Locks /\ UNCHANGED lk
    BY <1>1, <1>3 DEF LockInv, CallInv, SyncPC, set_holder, set_repeat, lock_release,
                      clear_repeat
  <2>2. Owns(cur, l)
    BY <2>1 DEF Owns
  <2>3. \E q \in {"set_repeat", "body", "clear_repeat", "sema_up"} :
          pc' = [pc EXCEPT ![cur] = q]
    <3>1. CASE set_holder \/ clear_repeat
      BY <3>1 DEF set_holder, clear_repeat
    <3>2. CASE set_repeat
      <4>1. ret[cur] = "body"
        BY <1>1, <3>2 DEF LockInv, CallInv, set_repeat
      <4> QED BY <1>1, <3>2, <4>1 DEF set_repeat
    <3>3. CASE lock_release
      <4>1. held_more_than_once(l) => ret[cur] = "body"
        BY <1>1, <3>3 DEF LockInv, CallInv, lock_release, held_more_than_once
      <4> QED BY <1>1, <3>3, <4>1 DEF lock_release
    <3> QED BY <1>3, <3>1, <3>2, <3>3
  <2>4. \A k \in Locks : holder'[k] = holder[k] \/ (k = l /\ holder'[k] \in {cur, NULL})
    BY <1>1, <1>3 DEF TypeOK, set_holder, set_repeat, lock_release, clear_repeat
  <2> HIDE DEF l
  <2>5. \A t \in Threads : t # cur => pc'[t] = pc[t] /\ ~Owns(t, l)
    BY <1>1, <2>1, <2>2, <2>3 DEF TypeOK, LockInv, MutualExclusion
  <2>6. \A t \in Threads, k \in Locks : Owns(t, k)' <=> Owns(t, k)
    <3> SUFFICES ASSUME NEW t \in Threads, NEW k \in Locks
                 PROVE  Owns(t, k)' <=> Owns(t, k)
      OBVIOUS
    <3>1. CASE t = cur
      BY <1>1, <2>1, <2>3, <3>1 DEF TypeOK, Owns
    <3>2. CASE t # cur /\ k # l
      BY <2>1, <2>4, <2>5, <3>2 DEF Owns
    <3>3. CASE t # cur /\ k = l
      BY <2>1, <2>4, <2>5, <3>3, ThreadAssumption DEF Owns, ThreadAssumption
    <3> QED BY <3>1, <3>2, <3>3
  <2>7. OthersKeep /\ lk'[cur] = l /\ pc[cur] # "body"
    BY <1>1, <2>1, <2>5 DEF OthersKeep, l
  <2> QED BY <1>1, <2>2, <2>6, <2>7, SameOwnerStep
<1>4. CASE body_acquires_again \/ body_releases
  <2>1. /\ pc[cur] = "body" /\ l \in Locks /\ UNCHANGED <<lk, holder>>
        /\ \E q \in {"lock_acquire", "lock_release"} : pc' = [pc EXCEPT ![cur] = q]
    BY <1>1, <1>4 DEF LockInv, CallInv, body_acquires_again, body_releases
  <2>2. holder[l] = cur
    BY <1>1, <2>1 DEF LockInv, HolderInv
  <2>3. \A t \in Threads, k \in Locks : Owns(t, k)' <=> Owns(t, k)
    BY <1>1, <2>1, <2>2 DEF TypeOK, Owns
  <2>4. OthersKeep /\ pc'[cur] # "body"
    BY <1>1, <2>1 DEF TypeOK, OthersKeep
  <2> QED BY <1>1, <2>1, <2>3, <2>4, SameOwnerStep
<1>5. CASE intr_enable \/ service_end \/ \E k \in Locks : syscall_handler(k) \/ direct_call(k)
  <2>1. /\ pc[cur] \in {"boot", "kernel_thread", "run", "service_end"}
        /\ UNCHANGED holder
        /\ \E q \in {"run", "lock_acquire"} : pc' = [pc EXCEPT ![cur] = q]
        /\ \/ UNCHANGED lk
           \/ \E k \in Locks \cup {NULL} : lk' = [lk EXCEPT ![cur] = k]
    BY <1>5 DEF intr_enable, service_end, syscall_handler, direct_call
  <2>2. /\ \A t \in Threads : t # cur => pc'[t] = pc[t] /\ lk'[t] = lk[t]
        /\ pc'[cur] \in {"run", "lock_acquire"}
    BY <1>1, <2>1 DEF TypeOK
  <2>3. \A k \in Locks : holder[k] # cur
    BY <1>1, <2>1 DEF LockInv, HolderInv
  <2>4. \A t \in Threads, k \in Locks : Owns(t, k)' <=> Owns(t, k)
    BY <1>1, <2>1, <2>2, <2>3 DEF Owns
  <2>5. OthersKeep
    BY <2>2 DEF OthersKeep
  <2> QED BY <1>1, <2>1, <2>2, <2>4, <2>5, SameOwnerStep
<1> QED BY <1>2, <1>3, <1>4, <1>5


(* Every step of the kernel is a step of AbsLock or changes no lock.       *)
LEMMA NextAbstract == SchedInv /\ SchedInv' /\ [Next]_vars => AbstractStep
<1> SUFFICES ASSUME SchedInv, SchedInv', [Next]_vars PROVE AbstractStep
  OBVIOUS
<1>1. /\ TypeOK /\ LockInv /\ LockInv' /\ cur \in Threads /\ intr \in BOOLEAN
      /\ panic' = "none"
  BY DEF SchedInv, NoPanic, LockInv, TypeOK
<1>2. CASE UNCHANGED vars
  BY <1>2 DEF vars, AbstractStep, lock_owner, critical_section, Owns
<1>3. CASE sema_down_blocks /\ UNCHANGED frame
  <2>1. /\ pc[cur] = "sema_down" /\ UNCHANGED <<pc, lk>>
        /\ thread_block(FALSE)
    BY <1>1, <1>3 DEF sema_down_blocks, panic_spin, call_vars
  <2>2. holder[console_lock] # cur
    BY <1>1, <2>1, ConsoleNotHeld
  <2>3. Switched(FALSE)
    BY <1>1, <2>1, <2>2, BlockSwitches
  <2> QED BY <1>1, <2>1, <2>3, SwitchKeepsLocks
<1>4. CASE yield
  <2>1. pc[cur] = "run" /\ UNCHANGED <<pc, lk>> /\ thread_yield
    BY <1>4 DEF yield, call_vars
  <2>2. holder[console_lock] # cur
    BY <1>1, <2>1, ConsoleNotHeld
  <2>3. Switched(intr)
    BY <1>1, <2>1, <2>2, YieldSwitches
  <2> QED BY <1>1, <2>1, <2>3, SwitchKeepsLocks
<1>5. CASE park
  <2>1. /\ pc[cur] = "run" /\ pc' = [pc EXCEPT ![cur] = "parked"] /\ UNCHANGED lk
        /\ thread_block(intr)
    BY <1>5 DEF park, call_vars, goto
  <2>2. holder[console_lock] # cur
    BY <1>1, <2>1, ConsoleNotHeld
  <2>3. Switched(intr)
    BY <1>1, <2>1, <2>2, BlockSwitches
  <2> QED BY <1>1, <2>1, <2>3, SwitchKeepsLocks
<1>6. CASE clock_interrupt
  <2>1. intr /\ UNCHANGED <<pc, lk>> /\ intr_timer_handler
    BY <1>6 DEF clock_interrupt, intr_timer_handler, call_vars
  <2>2. holder[console_lock] # cur
    BY <1>1, <2>1, ConsoleNotHeld
  <2>3. Switched(TRUE)
    BY <1>1, <2>1, <2>2, TimerSwitches
  <2> QED BY <1>1, <2>1, <2>3, SwitchKeepsLocks
<1>7. CASE \E t \in Threads : main_thread_start(t)
  <2>1. UNCHANGED <<pc, lk, holder>>
    BY <1>7 DEF main_thread_start, thread_start, call_vars, lock_vars
  <2> QED BY <2>1 DEF AbstractStep, lock_owner, critical_section, Owns
<1>8. CASE sync_step /\ UNCHANGED frame
  BY <1>3, <1>8, PassesAcquires, UpReleases, CallKeepsLocks DEF sync_step
<1> QED BY <1>2, <1>4, <1>5, <1>6, <1>7, <1>8, CallKeepsLocks DEF Next, kernel_code

(* lock_acquire and lock_release give what AbsLock promises, whatever the  *)
(* number of tasks and however the clock interleaves them: a free lock     *)
(* goes to one task, its owner alone is in the critical section, and only  *)
(* the owner gives it back, outside the section.                           *)
THEOREM LocksImplementAbsLock == Spec => LockRefinement
<1>1. Init => Abstract!LockInit
  <2> SUFFICES ASSUME Init PROVE Abstract!LockInit
    OBVIOUS
  <2>1. \A t \in Threads : pc[t] \in {"boot", "kernel_thread"}
    BY DEF Init
  <2>2. lock_owner = [l \in Locks |-> NULL]
    BY <2>1 DEF lock_owner, Owns
  <2>3. critical_section = [t \in Threads |-> NULL]
    BY <2>1 DEF critical_section
  <2> QED BY <2>2, <2>3 DEF Abstract!LockInit
<1>2. SchedInv /\ SchedInv' /\ [Next]_vars
        => [Abstract!LockNext]_<<lock_owner, critical_section>>
  BY NextAbstract DEF AbstractStep
<1> QED BY <1>1, <1>2, SchedInvariant, PTL DEF Spec, LockRefinement, Abstract!LockSpec
=============================================================================
