----------------------------- MODULE IdeProofs ------------------------------
(***************************************************************************)
(* Proofs about Ide, for any tasks, any sector counts, any limits and      *)
(* either channel: the driver and the handler of the disk's interrupt      *)
(* agree on every interrupt, and a sleep lasts at least one tick.          *)
(***************************************************************************)
EXTENDS Ide, Integers, TLAPS

Labels ==
    {"outside", "lock_acquire", "expect", "cmd", "sema_down", "busy_wait",
     "sleep", "busy_wait_again", "transfer", "next", "lock_release"}

Boots ==
    {"idt_init", "timer_init", "keyboard_init", "intr_enable", "ide_init",
     "identify_disk", "identifying", "done"}

Handlers ==
    {"none", "general_intr_handler", "intr_timer_handler",
     "intr_keyboard_handler", "intr_hd_handler"}

IdeTypes ==
    /\ irr \subseteq {0, 1, irq_line}
    /\ idt_table \in [Vectors -> Handlers]
    /\ IF_bit \in BOOLEAN
    /\ ticks \in Nat
    /\ boot \in Boots
    /\ holder \in Tasks \cup {NULL}
    /\ expecting_intr \in BOOLEAN
    /\ disk_done \in Nat
    /\ pc \in [Tasks -> Labels]
    /\ op \in [Tasks -> {"read", "write", "identify"}]
    /\ sec_cnt \in [Tasks -> Nat]
    /\ secs_done \in [Tasks -> Int]
    /\ DOMAIN stored = Tasks
    /\ start_tick \in [Tasks -> Nat]
    /\ elapsed \in [Tasks -> {0, 1}]
    /\ drive \in {"idle", "accepted", "busy", "ready", "flickering", "hung"}
    /\ data \in BOOLEAN
    /\ panic \in BOOLEAN

LEMMA Limits ==
    /\ MaxOp \in Nat /\ MaxOp > 0
    /\ TickMod \in Nat /\ TickMod > 1
    /\ irq_line \in {14, 15} /\ vector(irq_line) \in {46, 47}
    /\ NULL \notin Tasks
    /\ \A o \in {"read", "write"} : Counts[o] \subseteq Nat /\ 0 \notin Counts[o]
  BY IdeAssumption, InterruptsAssumption DEF irq_line, vector

-----------------------------------------------------------------------------
LEMMA InitTypes == Init => IdeTypes
<1> SUFFICES ASSUME Init PROVE IdeTypes
  OBVIOUS
<1>1. /\ irr \subseteq {0, 1, irq_line} /\ idt_table \in [Vectors -> Handlers]
      /\ IF_bit \in BOOLEAN /\ ticks \in Nat /\ boot \in Boots
  BY DEF Init, InterruptsInit, Boots, Handlers
<1>2. /\ pc \in [Tasks -> Labels] /\ op \in [Tasks -> {"read", "write", "identify"}]
      /\ sec_cnt \in [Tasks -> Nat] /\ secs_done \in [Tasks -> Int]
      /\ DOMAIN stored = Tasks
      /\ start_tick \in [Tasks -> Nat] /\ elapsed \in [Tasks -> {0, 1}]
  BY DEF Init, Labels
<1>3. /\ holder \in Tasks \cup {NULL} /\ expecting_intr \in BOOLEAN /\ disk_done \in Nat
      /\ drive \in {"idle", "accepted", "busy", "ready", "flickering", "hung"}
      /\ data \in BOOLEAN /\ panic \in BOOLEAN
  BY DEF Init
<1>4. QED
  BY <1>1, <1>2, <1>3 DEF IdeTypes

LEMMA TaskTypes ==
    ASSUME IdeTypes, NEW t \in Tasks, task_step(t)
    PROVE  IdeTypes'
<1> USE DEF IdeTypes, Labels, goto, at, intr_vars, channel_vars, call_vars, wait_vars,
        drive_vars
<1>1. ASSUME NEW o \in {"read", "write"}, NEW n \in Counts[o], ide_call(t, o, n)
      PROVE  IdeTypes'
  BY <1>1, Limits DEF ide_call
<1>2. CASE lock_acquire(t)
  BY <1>2 DEF lock_acquire
<1>3. CASE expect(t)
  BY <1>3 DEF expect, cmd_half, announce
<1>4. CASE cmd_out(t)
  BY <1>4 DEF cmd_out, cmd_half, write_command, successor
<1>5. CASE sema_down(t)
  BY <1>5 DEF sema_down, successor
<1>6. CASE busy_wait(t)
  <2>1. pc' \in [Tasks -> Labels] /\ panic' \in BOOLEAN
    BY <1>6 DEF busy_wait
  <2>2. start_tick' \in [Tasks -> Nat] /\ elapsed' \in [Tasks -> {0, 1}]
    BY <1>6 DEF busy_wait
  <2>3. QED
    BY <1>6, <2>1, <2>2 DEF busy_wait
<1>7. CASE mtime_sleep(t)
  BY <1>7 DEF mtime_sleep
<1>8. CASE busy_wait_returns(t)
  BY <1>8 DEF busy_wait_returns, successor
<1>9. CASE transfer(t)
  BY <1>9 DEF transfer, successor
<1>10. CASE next_command(t)
  <2>1. get_sector_number(secs_done[t], sec_cnt[t]) \in Int
    BY Limits DEF get_sector_number
  <2>2. boot' \in Boots
    BY <1>10 DEF next_command, Boots
  <2>3. QED
    BY <1>10, <2>1, <2>2 DEF next_command
<1>11. CASE lock_release(t)
  BY <1>11 DEF lock_release
<1>12. QED
  BY <1>1, <1>2, <1>3, <1>4, <1>5, <1>6, <1>7, <1>8, <1>9, <1>10, <1>11
  DEF task_step

LEMMA KernelTypes ==
    ASSUME IdeTypes, Next,
           \A t \in Tasks : ~task_step(t)
    PROVE  IdeTypes'
<1> USE DEF IdeTypes, intr_vars, channel_vars, call_vars, wait_vars, drive_vars
<1>1. ASSUME NEW t \in Tasks, identify_disk(t)
      PROVE  IdeTypes'
  BY <1>1 DEF identify_disk, goto, Labels, Boots
<1>2. CASE ide_init
  BY <1>2 DEF ide_init, registers, register_handler, Boots, Handlers
<1>3. ASSUME NEW v \in Vectors, intr_hd_handler(v)
      PROVE  IdeTypes'
  <2>1. irr' \subseteq {0, 1, irq_line}
    BY <1>3 DEF intr_hd_handler, accepts
  <2>2. expecting_intr' \in BOOLEAN /\ panic' \in BOOLEAN
    BY <1>3 DEF intr_hd_handler, clear_expecting
  <2>3. disk_done' = disk_done \/ disk_done' = disk_done + 1
    BY <1>3, Zenon DEF intr_hd_handler
  <2>4. QED
    BY <1>3, <2>1, <2>2, <2>3 DEF intr_hd_handler
<1>4. ASSUME NEW v \in Vectors, general_intr_handler(v)
      PROVE  IdeTypes'
  BY <1>4 DEF general_intr_handler, accepts
<1>5. CASE intr_timer_handler
  <2>1. irr' \subseteq {0, 1, irq_line}
    BY <1>5 DEF intr_timer_handler, tick, accepts
  <2>2. ticks' \in Nat
    BY <1>5, Limits DEF intr_timer_handler, tick
  <2>3. elapsed' \in [Tasks -> {0, 1}]
    BY <1>5 DEF intr_timer_handler
  <2>4. QED
    BY <1>5, <2>1, <2>2, <2>3 DEF intr_timer_handler, tick
<1>6. CASE clock_pulse
  BY <1>6 DEF clock_pulse, raise
<1>7. CASE other_interrupts
  <2>1. CASE boot_step
    BY <1>7, <2>1 DEF other_interrupts, boot_step, idt_init, timer_init, keyboard_init,
       intr_enable, register_handler, Boots, Handlers
  <2>2. CASE keyboard_interrupt
    BY <1>7, <2>2 DEF other_interrupts, keyboard_interrupt, accepts
  <2>3. CASE raise(1)
    BY <1>7, <2>3 DEF other_interrupts, raise
  <2>4. QED
    BY <1>7, <2>1, <2>2, <2>3 DEF other_interrupts
<1>8. CASE drive_starts \/ drive_flickers \/ drive_hangs
  BY <1>8 DEF drive_starts, drive_flickers, drive_hangs
<1>9. CASE drive_step
  BY <1>9 DEF drive_step
<1>10. QED
  BY <1>1, <1>2, <1>3, <1>4, <1>5, <1>6, <1>7, <1>8, <1>9 DEF Next

LEMMA IdeTypeCorrect == Spec => []IdeTypes
<1>1. ASSUME IdeTypes, [Next]_vars
      PROVE  IdeTypes'
  <2>1. CASE UNCHANGED vars
    BY <1>1, <2>1 DEF IdeTypes, vars, intr_vars, channel_vars, call_vars, wait_vars, drive_vars
  <2>2. CASE Next
    BY <1>1, <2>2, TaskTypes, KernelTypes
  <2>3. QED
    BY <1>1, <2>1, <2>2
<1>2. QED
  BY InitTypes, <1>1, PTL DEF Spec

-----------------------------------------------------------------------------
(* Whose turn it is.  One task at a time gives commands: the one that      *)
(* identify_disk runs in, without the lock and before any other may call   *)
(* the driver, or else the holder of the channel's lock.                   *)
active(t) == pc[t] \notin {"outside", "lock_acquire"}

TurnInv ==
    /\ \A t \in Tasks : pc[t] = "lock_acquire" => boot = "done" /\ op[t] \in {"read", "write"}
    /\ \A t \in Tasks : active(t) =>
          \/ boot = "identifying" /\ op[t] = "identify" /\ holder = NULL
          \/ boot = "done" /\ op[t] \in {"read", "write"} /\ holder = t
    /\ \A t, u \in Tasks : active(t) /\ active(u) => t = u
    /\ holder # NULL => active(holder)

(* The steps of nobody's call leave the labels, operations and the lock    *)
(* alone, and boot does not go back.                                       *)
LEMMA NobodysStep ==
    ASSUME IdeTypes, [Next]_vars,
           \A t \in Tasks : ~task_step(t) /\ ~identify_disk(t)
    PROVE  /\ UNCHANGED <<pc, op, sec_cnt, secs_done, stored, holder>>
           /\ boot \in {"identifying", "done"} => boot' = boot
  BY DEF Next, ide_init, intr_hd_handler, general_intr_handler, intr_timer_handler, tick,
     clock_pulse, raise, other_interrupts, boot_step, idt_init, timer_init, keyboard_init,
     intr_enable, keyboard_interrupt, drive_starts, drive_step, drive_flickers, drive_hangs,
       vars,
     intr_vars, channel_vars, call_vars, wait_vars, drive_vars

LEMMA TurnKept ==
    ASSUME IdeTypes, TurnInv, [Next]_vars
    PROVE  TurnInv'
<1> USE DEF IdeTypes, intr_vars, channel_vars, call_vars, wait_vars, drive_vars, goto, at,
        active, TurnInv
<1>1. ASSUME NEW t \in Tasks, identify_disk(t)
      PROVE  TurnInv'
  BY <1>1, Limits DEF identify_disk
<1>2. ASSUME NEW t \in Tasks, task_step(t)
      PROVE  TurnInv'
  <2>1. ASSUME NEW o \in {"read", "write"}, NEW n \in Counts[o], ide_call(t, o, n)
        PROVE  TurnInv'
    BY <2>1, Limits DEF ide_call
  <2>2. CASE lock_acquire(t)
    BY <2>2, Limits DEF lock_acquire
  <2>3. CASE \/ expect(t) \/ cmd_out(t) \/ sema_down(t) \/ busy_wait(t) \/ mtime_sleep(t)
             \/ busy_wait_returns(t) \/ transfer(t)
    <3>1. UNCHANGED <<op, holder, boot>>
      BY <2>3 DEF expect, cmd_out, sema_down, busy_wait, mtime_sleep, busy_wait_returns,
         transfer
    <3>2. active(t) /\ active(t)'
      <4>1. CASE expect(t) \/ cmd_out(t) \/ sema_down(t) \/ transfer(t)
        BY <4>1 DEF expect, cmd_out, sema_down, transfer, successor
      <4>2. CASE busy_wait(t) \/ mtime_sleep(t)
        BY <4>2 DEF busy_wait, mtime_sleep
      <4>3. CASE busy_wait_returns(t)
        BY <4>3 DEF busy_wait_returns, successor
      <4>4. QED
        BY <2>3, <4>1, <4>2, <4>3
    <3>3. \A u \in Tasks \ {t} : pc'[u] = pc[u]
      <4>1. CASE expect(t) \/ cmd_out(t) \/ sema_down(t) \/ transfer(t) \/ mtime_sleep(t)
        BY <4>1 DEF expect, cmd_out, sema_down, transfer, mtime_sleep
      <4>2. CASE busy_wait(t)
        BY <4>2 DEF busy_wait
      <4>3. CASE busy_wait_returns(t)
        BY <4>3 DEF busy_wait_returns
      <4>4. QED
        BY <2>3, <4>1, <4>2, <4>3
    <3>4. QED
      BY <3>1, <3>2, <3>3
  <2>4. CASE next_command(t)
    BY <2>4, Limits DEF next_command
  <2>5. CASE lock_release(t)
    BY <2>5, Limits DEF lock_release
  <2>6. QED
    BY <1>2, <2>1, <2>2, <2>3, <2>4, <2>5 DEF task_step
<1>3. CASE \A t \in Tasks : ~task_step(t) /\ ~identify_disk(t)
  BY <1>3, NobodysStep
<1>4. QED
  BY <1>1, <1>2, <1>3

LEMMA TurnInvariant == Spec => []TurnInv
<1>1. Init => TurnInv
  BY Limits DEF Init, TurnInv, active
<1>2. QED
  BY <1>1, IdeTypeCorrect, TurnKept, PTL DEF Spec

-----------------------------------------------------------------------------
(* The sleep of busy_wait.  While it has seen no clock interrupt, ticks is *)
(* what it was at the start: that is what the test of the loop must tell   *)
(* from a full turn of the counter.                                        *)
SleepInv ==
    \A t \in Tasks : pc[t] = "sleep" /\ elapsed[t] = 0 => start_tick[t] = ticks

(* The only steps that change ticks, or the labels, start and history of a *)
(* sleep: a clock interrupt, a turn of busy_wait, and a step of a task     *)
(* that does not fall asleep.                                              *)
LEMMA SleepKept ==
    ASSUME IdeTypes, SleepInv, [Next]_vars
    PROVE  SleepInv'
<1> SUFFICES ASSUME NEW u \in Tasks, pc'[u] = "sleep", elapsed'[u] = 0
             PROVE  start_tick'[u] = ticks'
  BY DEF SleepInv
<1> USE DEF IdeTypes, intr_vars, channel_vars, call_vars, wait_vars, drive_vars, goto, at
<1>1. CASE intr_timer_handler
  BY <1>1 DEF intr_timer_handler
<1>2. ASSUME NEW t \in Tasks, task_step(t)
      PROVE  start_tick'[u] = ticks'
  <2>1. CASE busy_wait(t)
    <3>1. CASE u = t
      BY <2>1, <3>1 DEF busy_wait, SleepInv
    <3>2. CASE u # t
      BY <2>1, <3>2 DEF busy_wait, SleepInv
    <3>3. QED
      BY <3>1, <3>2
  <2>2. CASE ~busy_wait(t)
    <3>1. ticks' = ticks /\ start_tick' = start_tick /\ elapsed' = elapsed
      BY <1>2, <2>2 DEF task_step, ide_call, lock_acquire, expect, cmd_out, sema_down,
         mtime_sleep, busy_wait_returns, transfer, next_command, lock_release
    <3>2. pc[u] = "sleep"
      <4>1. CASE u # t
        BY <1>2, <2>2, <4>1 DEF task_step, ide_call, lock_acquire, expect, cmd_out,
           sema_down, mtime_sleep, busy_wait_returns, transfer, next_command, lock_release
      <4>2. CASE u = t
        BY <1>2, <2>2, <4>2 DEF task_step, ide_call, lock_acquire, expect, cmd_out,
           sema_down, mtime_sleep, busy_wait_returns, transfer, next_command, lock_release,
           successor
      <4>3. QED
        BY <4>1, <4>2
    <3>3. QED
      BY <3>1, <3>2 DEF SleepInv
  <2>3. QED
    BY <2>1, <2>2
<1>3. ASSUME NEW t \in Tasks, identify_disk(t)
      PROVE  start_tick'[u] = ticks'
  BY <1>3 DEF identify_disk, SleepInv
<1>4. CASE \/ ide_init
           \/ \E v \in Vectors : intr_hd_handler(v) \/ general_intr_handler(v)
           \/ clock_pulse
           \/ other_interrupts
           \/ drive_starts \/ drive_step \/ drive_flickers \/ drive_hangs
           \/ UNCHANGED vars
  <2>1. UNCHANGED <<ticks, pc, start_tick, elapsed>>
    BY <1>4 DEF ide_init, intr_hd_handler, general_intr_handler, clock_pulse, raise,
       other_interrupts, boot_step, idt_init, timer_init, keyboard_init, intr_enable,
       keyboard_interrupt, drive_starts, drive_step, drive_flickers, drive_hangs,
       vars
  <2>2. QED
    BY <2>1 DEF SleepInv
<1>5. QED
  BY <1>1, <1>2, <1>3, <1>4 DEF Next

(* ticks_to_sleep returns only when ticks differs from start_tick.         *)
LEMMA SleptMeansTicked ==
    ASSUME NEW start \in Nat, ticks = start
    PROVE  ~slept(start, sleep_ticks(10))
<1>1. sleep_ticks(10) = 1
  BY DEF sleep_ticks, mil_seconds_per_intr
<1>2. ticks + TickMod - start = TickMod
  BY Limits
<1>3. TickMod % TickMod = 0
  BY Limits
<1>4. QED
  BY <1>1, <1>2, <1>3 DEF slept

(* timer.c: mtime_sleep returns to busy_wait only after at least one clock *)
(* interrupt, wherever ticks stands and also when it wraps around: the     *)
(* action property SleepLongEnough, for every length of the counter.       *)
THEOREM SleepsATick == Spec => SleepLongEnough
<1> DEFINE Wakes == \A t \in Tasks : pc[t] = "sleep" /\ pc'[t] # "sleep" => elapsed[t] >= 1
<1>1. Init => SleepInv
  BY DEF Init, SleepInv
<1>2. ASSUME IdeTypes, TurnInv, SleepInv, [Next]_vars
      PROVE  [Wakes]_vars
  <2> SUFFICES ASSUME Next, NEW u \in Tasks, pc[u] = "sleep", pc'[u] # "sleep"
               PROVE  elapsed[u] >= 1
    BY <1>2
  <2> USE DEF IdeTypes, intr_vars, channel_vars, call_vars, wait_vars, drive_vars, goto, at
  <2>1. ASSUME NEW t \in Tasks, task_step(t)
        PROVE  elapsed[u] >= 1
    <3>1. u = t /\ mtime_sleep(t)
      <4>1. u = t
        BY <1>2, <2>1 DEF task_step, ide_call, lock_acquire, expect, cmd_out, sema_down,
           busy_wait, mtime_sleep, busy_wait_returns, transfer, next_command, lock_release
      <4>2. QED
        BY <1>2, <2>1, <4>1 DEF task_step, ide_call, lock_acquire, expect, cmd_out,
           sema_down, busy_wait, busy_wait_returns, transfer, next_command, lock_release
    <3>2. ticks # start_tick[u]
      BY <1>2, <3>1, SleptMeansTicked DEF mtime_sleep
    <3>3. QED
      BY <1>2, <3>2 DEF SleepInv
  <2>2. ASSUME NEW t \in Tasks, identify_disk(t)
        PROVE  elapsed[u] >= 1
    BY <1>2, <2>2 DEF identify_disk, TurnInv, active
  <2>3. CASE \A t \in Tasks : ~task_step(t) /\ ~identify_disk(t)
    BY <1>2, <2>3, NobodysStep
  <2>4. QED
    BY <2>1, <2>2, <2>3
<1>3. QED
  BY IdeTypeCorrect, TurnInvariant, <1>1, <1>2, SleepKept, PTL DEF Spec, SleepLongEnough

-----------------------------------------------------------------------------
(* The handlers, by the progress of init_all() and main().  A line that    *)
(* can request has its own handler by the time interrupts are enabled, or, *)
(* for the disk, before the first command.                                 *)
TableInv ==
    /\ IF_bit = (boot \in {"ide_init", "identify_disk", "identifying", "done"})
    /\ boot \in {"keyboard_init", "intr_enable"} \/ IF_bit =>
          idt_table[32] = "intr_timer_handler"
    /\ boot = "intr_enable" \/ IF_bit => idt_table[33] = "intr_keyboard_handler"
    /\ boot \in {"identify_disk", "identifying", "done"} =>
          idt_table[46] = "intr_hd_handler" /\ idt_table[47] = "intr_hd_handler"

LEMMA TableVectors == {32, 33, 46, 47} \subseteq Vectors
<1>1. 0 \in Lines /\ 1 \in Lines /\ 14 \in Lines /\ 15 \in Lines
  BY DEF Lines
<1>2. 32 = 32 + 0 /\ 33 = 32 + 1 /\ 46 = 32 + 14 /\ 47 = 32 + 15
  OBVIOUS
<1>3. QED
  BY <1>1, <1>2 DEF Vectors

LEMMA TableKept ==
    ASSUME IdeTypes, TurnInv, TableInv, [Next]_vars
    PROVE  TableInv'
<1> USE DEF intr_vars, TableInv
<1>1. ASSUME NEW t \in Tasks, task_step(t)
      PROVE  TableInv'
  <2>1. UNCHANGED <<idt_table, IF_bit>>
    BY <1>1 DEF task_step, ide_call, lock_acquire, expect, cmd_out, sema_down, busy_wait,
       mtime_sleep, busy_wait_returns, transfer, next_command, lock_release
  <2>2. boot' = boot \/ (boot = "identifying" /\ boot' = "done")
    <3>1. CASE next_command(t)
      BY <3>1 DEF next_command, at, TurnInv, active
    <3>2. CASE ~next_command(t)
      BY <1>1, <3>2 DEF task_step, ide_call, lock_acquire, expect, cmd_out, sema_down,
         busy_wait, mtime_sleep, busy_wait_returns, transfer, lock_release
    <3>3. QED
      BY <3>1, <3>2
  <2>3. QED
    BY <2>1, <2>2
<1>2. ASSUME NEW t \in Tasks, identify_disk(t)
      PROVE  TableInv'
  BY <1>2 DEF identify_disk
<1>3. CASE ide_init
  <2>1. idt_table' = [[idt_table EXCEPT ![46] = "intr_hd_handler"]
                        EXCEPT ![47] = "intr_hd_handler"]
    BY <1>3 DEF ide_init, registers, register_handler
  <2>2. /\ idt_table'[46] = "intr_hd_handler" /\ idt_table'[47] = "intr_hd_handler"
        /\ idt_table'[32] = idt_table[32] /\ idt_table'[33] = idt_table[33]
    BY <2>1, TableVectors DEF IdeTypes
  <2>3. QED
    BY <1>3, <2>2 DEF ide_init
<1>4. CASE other_interrupts
  <2>1. CASE idt_init
    <3>1. ~IF_bit
      BY <2>1 DEF idt_init
    <3>2. ~IF_bit' /\ IF_bit' \in BOOLEAN /\ boot' = "timer_init"
      BY <2>1, <3>1 DEF idt_init, IdeTypes
    <3>3. IF_bit' = (boot' \in {"ide_init", "identify_disk", "identifying", "done"})
      BY <3>2
    <3>4. QED
      BY <3>2, <3>3
  <2>2. CASE timer_init
    BY <2>2, TableVectors DEF timer_init, register_handler, IdeTypes
  <2>3. CASE keyboard_init
    BY <2>3, TableVectors DEF keyboard_init, register_handler, IdeTypes
  <2>4. CASE intr_enable
    <3>1. /\ idt_table[32] = "intr_timer_handler" /\ idt_table[33] = "intr_keyboard_handler"
          /\ idt_table' = idt_table
      BY <2>4 DEF intr_enable
    <3>2. IF_bit' = TRUE /\ boot' = "ide_init"
      BY <2>4 DEF intr_enable
    <3>3. QED
      BY <3>1, <3>2
  <2>5. CASE keyboard_interrupt \/ raise(1)
    BY <2>5 DEF keyboard_interrupt, raise
  <2>6. QED
    BY <1>4, <2>1, <2>2, <2>3, <2>4, <2>5 DEF other_interrupts, boot_step
<1>5. CASE \/ \E v \in Vectors : intr_hd_handler(v) \/ general_intr_handler(v)
           \/ intr_timer_handler
           \/ clock_pulse
           \/ drive_starts \/ drive_step \/ drive_flickers \/ drive_hangs
           \/ UNCHANGED vars
  <2>1. UNCHANGED <<idt_table, IF_bit, boot>>
    BY <1>5 DEF intr_hd_handler, general_intr_handler, intr_timer_handler, tick,
       clock_pulse, raise, drive_starts, drive_step, drive_flickers, drive_hangs,
       vars
  <2>2. QED
    BY <2>1
<1>6. QED
  BY <1>1, <1>2, <1>3, <1>4, <1>5 DEF Next

-----------------------------------------------------------------------------
(* The progress of a command, on the channel and in the drive.             *)
Quiet == ~expecting_intr /\ disk_done = 0 /\ ~irq /\ drive = "idle"

Announced == expecting_intr /\ disk_done = 0 /\ ~irq /\ drive = "idle"

Working == expecting_intr /\ disk_done = 0 /\ ~irq /\ drive # "idle"

(* The drive interrupts: after a write it is idle, after a read it holds   *)
(* the data, ready or with BSY set again.                                  *)
Holding == drive \in {"ready", "flickering"}

Answered(o) ==
    /\ expecting_intr /\ disk_done = 0 /\ irq
    /\ o = "write" => drive = "idle"
    /\ o # "write" => Holding

Counted(o) ==
    /\ ~expecting_intr /\ disk_done = 1 /\ ~irq
    /\ o = "write" => drive = "idle"
    /\ o # "write" => Holding

(* A write waits for the drive and gives it the data; then the drive's     *)
(* interrupt is still to come, pending or counted.                         *)
WritePhase(t) ==
    /\ pc[t] \in {"busy_wait", "sleep", "busy_wait_again", "transfer"} => Working /\ ~data
    /\ pc[t] = "transfer" => drive # "accepted"
    /\ pc[t] = "sema_down" =>
          data /\ (\/ Working /\ drive \in {"busy", "hung"}
                   \/ Answered(op[t])
                   \/ Counted(op[t]))
    /\ pc[t] \in {"next", "lock_release"} => Quiet

(* A read, or identify_disk, sleeps at once.  When it wakes up the drive   *)
(* is ready, or shows BSY again, until the data has been fetched.          *)
ReadPhase(t) ==
    /\ pc[t] = "sema_down" =>
          \/ Working /\ ~Holding
          \/ Answered(op[t])
          \/ Counted(op[t])
    /\ pc[t] \in {"busy_wait", "sleep", "busy_wait_again", "transfer"} =>
          ~expecting_intr /\ disk_done = 0 /\ ~irq /\ Holding
    /\ pc[t] \in {"next", "lock_release"} => Quiet

Phase(t) ==
    /\ pc[t] = "expect" => Quiet
    /\ pc[t] = "cmd" => Announced
    /\ IF op[t] = "write" THEN WritePhase(t) ELSE ReadPhase(t)

PhaseInv ==
    /\ (\A t \in Tasks : ~active(t)) => Quiet
    /\ \A t \in Tasks : active(t) => Phase(t)

(* No interrupt arrives at the channel's vector that the drive did not     *)
(* request: the primary channel's vector is never a spurious one; the      *)
(* secondary channel is looked at only without spurious interrupts of its  *)
(* chip, which come at its vector.                                         *)
OwnVector == vector(irq_line) \notin Spurious

LEMMA OwnVectorOfPrimary == Channel = 0 => OwnVector
  BY InterruptsAssumption DEF OwnVector, vector, irq_line

(* An acknowledged interrupt takes the drive's request away exactly if it  *)
(* came at the channel's vector.                                           *)
LEMMA Acknowledged ==
    ASSUME IdeTypes, NEW v, irr' = irr \ requests(v)
    PROVE  /\ v # vector(irq_line) => (irq' <=> irq)
           /\ v = vector(irq_line) /\ requests(v) # {} => irq /\ ~irq'
<1>1. \A l \in irr : vector(l) = vector(irq_line) => l = irq_line
  BY Limits DEF IdeTypes, vector
<1>2. QED
  BY <1>1 DEF requests, irq

(* A step of the task whose turn it is, or of one that gets or gives up    *)
(* its turn.                                                               *)
LEMMA TaskPhase ==
    ASSUME IdeTypes, TurnInv, TurnInv', PhaseInv, NEW t \in Tasks,
           task_step(t) \/ identify_disk(t)
    PROVE  PhaseInv'
<1> USE DEF IdeTypes, intr_vars, channel_vars, call_vars, wait_vars, drive_vars, goto, at, Holding
<1>1. ASSUME active(t)', Phase(t)'
      PROVE  PhaseInv'
  BY <1>1 DEF PhaseInv, TurnInv
<1>2. active(t) => Phase(t)
  BY DEF PhaseInv
<1>3. CASE identify_disk(t)
  <2>1. Quiet
    BY <1>3 DEF identify_disk, TurnInv, active, PhaseInv
  <2>2. /\ pc'[t] = "expect" /\ op'[t] = "identify"
        /\ UNCHANGED <<irr, expecting_intr, disk_done, drive>>
    BY <1>3 DEF identify_disk
  <2>3. QED
    BY <1>1, <2>1, <2>2 DEF active, Phase, ReadPhase, Quiet, irq
<1>4. ASSUME NEW o \in {"read", "write"}, NEW n \in Counts[o], ide_call(t, o, n)
      PROVE  PhaseInv'
  <2>1. UNCHANGED <<irr, expecting_intr, disk_done, drive, data>>
    BY <1>4 DEF ide_call
  <2>2. /\ ~active(t) /\ ~active(t)'
        /\ \A u \in Tasks \ {t} : pc'[u] = pc[u] /\ op'[u] = op[u]
    BY <1>4 DEF ide_call, active
  <2>3. \A u \in Tasks : active(u)' => active(u) /\ Phase(u)
    BY <2>2 DEF active, PhaseInv
  <2>4. \A u \in Tasks : active(u)' => Phase(u)'
    BY <2>1, <2>2, <2>3 DEF Phase, ReadPhase, WritePhase, Quiet, Announced, Working,
       Answered, Counted, irq, BSY
  <2>5. Quiet => Quiet'
    BY <2>1 DEF Quiet, irq
  <2>6. (\A u \in Tasks : ~active(u)') => \A u \in Tasks : ~active(u)
    BY <2>2 DEF active
  <2>7. QED
    BY <2>4, <2>5, <2>6 DEF PhaseInv
<1>5. CASE lock_acquire(t)
  <2>1. Quiet
    BY <1>5, Limits DEF lock_acquire, TurnInv, PhaseInv
  <2>2. /\ pc'[t] = "expect"
        /\ UNCHANGED <<irr, expecting_intr, disk_done, drive>>
    BY <1>5 DEF lock_acquire
  <2>3. QED
    BY <1>1, <2>1, <2>2 DEF active, Phase, ReadPhase, WritePhase, Quiet, irq
<1>6. CASE expect(t)
  <2>1. Quiet
    BY <1>2, <1>6 DEF expect, active, Phase
  <2>2. pc'[t] = "cmd" /\ expecting_intr' = TRUE /\ UNCHANGED <<irr, disk_done, drive>>
    BY <1>6 DEF expect, cmd_half, announce
  <2>3. QED
    BY <1>1, <2>1, <2>2 DEF active, Phase, ReadPhase, WritePhase, Quiet, Announced, irq
<1>7. CASE cmd_out(t)
  <2>1. Announced
    BY <1>2, <1>7 DEF cmd_out, active, Phase
  <2>2. /\ pc'[t] = (IF op[t] = "write" THEN "busy_wait" ELSE "sema_down")
        /\ op' = op /\ drive' = "accepted" /\ data' = FALSE
        /\ UNCHANGED <<irr, expecting_intr, disk_done>>
    BY <1>7 DEF cmd_out, cmd_half, write_command, successor
  <2>3. QED
    BY <1>1, <2>1, <2>2 DEF active, Phase, ReadPhase, WritePhase, Announced, Working, irq
<1>8. CASE sema_down(t)
  <2>1. Counted(op[t])
    BY <1>2, <1>8 DEF sema_down, active, Phase, ReadPhase, WritePhase, Working, Answered,
       Counted
  <2>2. /\ pc'[t] = (IF op[t] = "write" THEN "next" ELSE "busy_wait")
        /\ op' = op /\ disk_done' = disk_done - 1
        /\ UNCHANGED <<irr, expecting_intr, drive>>
    BY <1>8 DEF sema_down, successor
  <2>3. CASE op[t] = "write"
    BY <1>1, <2>1, <2>2, <2>3 DEF active, Phase, WritePhase, Counted, Quiet, irq
  <2>4. CASE op[t] # "write"
    BY <1>1, <2>1, <2>2, <2>4 DEF active, Phase, ReadPhase, Counted, irq
  <2>5. QED
    BY <2>3, <2>4
<1>9. CASE busy_wait(t)
  <2>1. UNCHANGED <<op, irr, expecting_intr, disk_done, drive, data>>
    BY <1>9 DEF busy_wait
  <2>2. /\ pc[t] = "busy_wait"
        /\ pc'[t] = "busy_wait" \/ pc'[t] = (IF BSY THEN "sleep" ELSE "busy_wait_again")
    BY <1>9 DEF busy_wait
  <2>3. QED
    BY <1>1, <1>2, <2>1, <2>2 DEF active, Phase, ReadPhase, WritePhase, Working, irq, BSY
<1>10. CASE mtime_sleep(t)
  <2>1. /\ pc[t] = "sleep" /\ pc'[t] = "busy_wait"
        /\ UNCHANGED <<op, irr, expecting_intr, disk_done, drive, data>>
    BY <1>10 DEF mtime_sleep
  <2>2. QED
    BY <1>1, <1>2, <2>1 DEF active, Phase, ReadPhase, WritePhase, Working, irq
<1>11. CASE busy_wait_returns(t)
  <2>1. UNCHANGED <<op, irr, expecting_intr, disk_done, drive, data>>
    BY <1>11 DEF busy_wait_returns
  <2>2. /\ pc[t] = "busy_wait_again"
        /\ pc'[t] = "busy_wait_again" \/ (BSY /\ pc'[t] = "transfer")
    BY <1>11 DEF busy_wait_returns, successor
  <2>3. QED
    BY <1>1, <1>2, <2>1, <2>2 DEF active, Phase, ReadPhase, WritePhase, Working, irq, BSY
<1>12. CASE transfer(t)
  <2>1. CASE op[t] = "write"
    <3>1. /\ pc[t] = "transfer" /\ pc'[t] = "sema_down" /\ data' = TRUE
          /\ drive' = (IF drive \in {"ready", "flickering"} THEN "busy" ELSE drive)
          /\ UNCHANGED <<op, irr, expecting_intr, disk_done>>
      BY <1>12, <2>1 DEF transfer, successor
    <3>2. QED
      BY <1>1, <1>2, <2>1, <3>1 DEF active, Phase, WritePhase, Working, irq
  <2>2. CASE op[t] # "write"
    <3>1. /\ pc[t] = "transfer" /\ pc'[t] = "next" /\ drive' = "idle"
          /\ UNCHANGED <<op, irr, expecting_intr, disk_done>>
      BY <1>12, <2>2 DEF transfer, successor
    <3>2. QED
      BY <1>1, <1>2, <2>2, <3>1 DEF active, Phase, ReadPhase, Quiet, irq
  <2>3. QED
    BY <2>1, <2>2
<1>13. CASE next_command(t)
  <2>1. pc[t] = "next" /\ Quiet
    BY <1>2, <1>13 DEF next_command, active, Phase, ReadPhase, WritePhase
  <2>2. /\ UNCHANGED <<op, irr, expecting_intr, disk_done, drive>>
        /\ pc'[t] \in {"expect", "lock_release", "outside"}
        /\ \A u \in Tasks \ {t} : pc'[u] = pc[u]
    BY <1>13, <2>1 DEF next_command
  <2>3. Quiet'
    BY <2>1, <2>2 DEF Quiet, irq
  <2>4. CASE pc'[t] \in {"expect", "lock_release"}
    BY <1>1, <2>2, <2>3, <2>4 DEF active, Phase, ReadPhase, WritePhase
  <2>5. CASE pc'[t] = "outside"
    <3>1. \A u \in Tasks : ~active(u)'
      BY <2>1, <2>2, <2>5 DEF TurnInv, active
    <3>2. QED
      BY <2>3, <3>1 DEF PhaseInv
  <2>6. QED
    BY <2>2, <2>4, <2>5
<1>14. CASE lock_release(t)
  <2>1. pc[t] = "lock_release" /\ Quiet
    BY <1>2, <1>14 DEF lock_release, active, Phase, ReadPhase, WritePhase
  <2>2. /\ \A u \in Tasks : ~active(u)'
        /\ UNCHANGED <<irr, expecting_intr, disk_done, drive>>
    BY <1>14, <2>1 DEF lock_release, TurnInv, active
  <2>3. QED
    BY <2>1, <2>2 DEF PhaseInv, Quiet, irq
<1>15. QED
  BY <1>3, <1>4, <1>5, <1>6, <1>7, <1>8, <1>9, <1>10, <1>11, <1>12, <1>13, <1>14
  DEF task_step

(* The drive is busy only for a command, and answers it once.              *)
LEMMA DriveAnswers ==
    ASSUME IdeTypes, TurnInv, TurnInv', PhaseInv, pc' = pc /\ op' = op,
           drive_starts \/ drive_step \/ drive_hangs
    PROVE  PhaseInv'
<1> USE DEF IdeTypes, intr_vars, channel_vars, call_vars, wait_vars, drive_vars, Holding
<1>0. pc' = pc /\ op' = op
  OBVIOUS
<1>1. drive \in {"accepted", "busy"}
  BY DEF drive_starts, drive_step, drive_hangs
<1>2. PICK t \in Tasks : active(t)
  BY <1>1 DEF PhaseInv, Quiet
<1>3. Phase(t)
  BY <1>2 DEF PhaseInv
<1>4. /\ expecting_intr /\ disk_done = 0 /\ ~irq
      /\ \/ pc[t] = "sema_down"
         \/ op[t] = "write" /\ ~data
            /\ pc[t] \in {"busy_wait", "sleep", "busy_wait_again", "transfer"}
      /\ op[t] = "write" /\ pc[t] = "sema_down" => data
  BY <1>1, <1>2, <1>3 DEF active, Phase, ReadPhase, WritePhase, Quiet, Announced,
     Working, Answered, Counted, Labels
<1>5. Phase(t)'
  <2>1. CASE drive_starts \/ drive_hangs
    <3>1. /\ drive' \in {"busy", "hung"}
          /\ UNCHANGED <<irr, expecting_intr, disk_done, data>>
      BY <2>1 DEF drive_starts, drive_hangs
    <3>2. Working'
      BY <1>4, <3>1 DEF Working, irq
    <3>3. QED
      BY <1>0, <1>2, <1>4, <3>1, <3>2 DEF Phase, ReadPhase, WritePhase, BSY
  <2>2. CASE drive_step
    <3>1. (holder # NULL /\ op[holder] = "write") <=> op[t] = "write"
      BY <1>2, Limits DEF TurnInv
    <3>2. UNCHANGED <<expecting_intr, disk_done, data>>
      BY <2>2 DEF drive_step
    <3>3. CASE op[t] = "write" /\ ~data
      <4>1. drive' = "ready" /\ irr' = irr
        BY <2>2, <3>1, <3>3 DEF drive_step
      <4>2. Working'
        BY <1>4, <3>2, <4>1 DEF Working, irq
      <4>3. QED
        BY <1>0, <1>4, <3>2, <3>3, <4>1, <4>2 DEF Phase, WritePhase
    <3>4. CASE op[t] # "write" \/ data
      <4>1. /\ drive' = IF op[t] = "write" THEN "idle" ELSE "ready"
            /\ irr' = irr \cup {irq_line}
        BY <2>2, <3>1, <3>4 DEF drive_step
      <4>2. Answered(op[t])'
        BY <1>0, <1>4, <3>2, <4>1 DEF Answered, irq
      <4>3. CASE op[t] = "write"
        BY <1>0, <1>4, <3>2, <3>4, <4>2, <4>3 DEF Phase, WritePhase
      <4>4. CASE op[t] # "write"
        BY <1>0, <1>4, <4>2, <4>4 DEF Phase, ReadPhase
      <4>5. QED
        BY <4>3, <4>4
    <3>5. QED
      BY <3>3, <3>4
  <2>3. QED
    BY <2>1, <2>2
<1>6. QED
  BY <1>0, <1>2, <1>5 DEF PhaseInv, TurnInv, active

(* A step of a handler, of a device or of the drive.                       *)
LEMMA DevicePhase ==
    ASSUME OwnVector, IdeTypes, TurnInv, TurnInv', TableInv, PhaseInv, [Next]_vars,
           \A t \in Tasks : ~task_step(t) /\ ~identify_disk(t)
    PROVE  PhaseInv'
<1> USE DEF IdeTypes, intr_vars, channel_vars, call_vars, wait_vars, drive_vars, Holding
<1>1. pc' = pc /\ op' = op
  BY NobodysStep
<1>2. CASE UNCHANGED <<expecting_intr, disk_done, drive, data>> /\ (irq' <=> irq)
  <2>1. Quiet => Quiet'
    BY <1>2 DEF Quiet
  <2>2. \A u \in Tasks : Phase(u) => Phase(u)'
    BY <1>1, <1>2 DEF Phase, ReadPhase, WritePhase, Quiet, Announced, Working, Answered,
       Counted, BSY
  <2>3. QED
    BY <1>1, <2>1, <2>2 DEF PhaseInv, active
<1>3. irq => /\ boot \in {"identifying", "done"}
             /\ idt_table[vector(irq_line)] = "intr_hd_handler"
  <2>1. irq => \E t \in Tasks : active(t)
    BY DEF PhaseInv, Quiet
  <2>2. QED
    BY <2>1, Limits DEF TurnInv, TableInv
<1>4. ASSUME NEW v \in Vectors, intr_hd_handler(v)
      PROVE  PhaseInv'
  <2>1. CASE v # vector(irq_line)
    <3>1. UNCHANGED <<expecting_intr, disk_done, drive, data>>
      BY <1>4, <2>1 DEF intr_hd_handler
    <3>2. irr' = irr \ requests(v)
      BY <1>4 DEF intr_hd_handler, accepts
    <3>3. QED
      BY <1>2, <2>1, <3>1, <3>2, Acknowledged
  <2>2. CASE v = vector(irq_line)
    <3>1. irq /\ ~irq'
      BY <1>4, <2>2, Acknowledged DEF intr_hd_handler, accepts, OwnVector
    <3>2. PICK t \in Tasks : active(t)
      BY <3>1 DEF PhaseInv, Quiet
    <3>3. Phase(t)
      BY <3>2 DEF PhaseInv
    <3>4. /\ pc[t] = "sema_down"
          /\ Answered(op[t])
          /\ op[t] = "write" => data
      BY <3>1, <3>2, <3>3 DEF active, Phase, ReadPhase, WritePhase, Quiet, Announced,
         Working, Answered, Counted, Labels
    <3>5. expecting_intr' = FALSE /\ disk_done' = 1 /\ UNCHANGED <<drive, data>>
      BY <1>4, <2>2, <3>4 DEF intr_hd_handler, clear_expecting, Answered
    <3>6. Counted(op[t])'
      BY <1>1, <3>1, <3>4, <3>5 DEF Answered, Counted
    <3>7. CASE op[t] = "write"
      <4>1. Phase(t)'
        BY <1>1, <3>4, <3>5, <3>6, <3>7 DEF Phase, WritePhase
      <4>2. QED
        BY <1>1, <3>2, <4>1 DEF PhaseInv, TurnInv, active
    <3>8. CASE op[t] # "write"
      <4>1. Phase(t)'
        BY <1>1, <3>4, <3>6, <3>8 DEF Phase, ReadPhase
      <4>2. QED
        BY <1>1, <3>2, <4>1 DEF PhaseInv, TurnInv, active
    <3>9. QED
      BY <3>7, <3>8
  <2>3. QED
    BY <2>1, <2>2
<1>5. ASSUME NEW v \in Vectors, general_intr_handler(v)
      PROVE  PhaseInv'
  <2>1. irr' = irr \ requests(v) /\ idt_table[v] = "general_intr_handler"
    BY <1>5 DEF general_intr_handler, accepts
  <2>2. irq' <=> irq
    BY <1>3, <2>1, Acknowledged DEF irq
  <2>3. QED
    BY <1>2, <1>5, <2>2 DEF general_intr_handler
<1>6. CASE intr_timer_handler
  <2>1. irr' = irr \ requests(32)
    BY <1>6 DEF intr_timer_handler, tick, accepts
  <2>2. irq' <=> irq
    BY <2>1, Limits, Acknowledged
  <2>3. QED
    BY <1>2, <1>6, <2>2 DEF intr_timer_handler
<1>7. CASE clock_pulse
  <2>1. irq' <=> irq
    BY <1>7, Limits DEF clock_pulse, raise, irq
  <2>2. QED
    BY <1>2, <1>7, <2>1 DEF clock_pulse
<1>8. CASE other_interrupts
  <2>1. irq' <=> irq
    <3>1. CASE boot_step
      BY <3>1 DEF boot_step, idt_init, timer_init, keyboard_init, intr_enable, irq
    <3>2. CASE keyboard_interrupt
      <4>1. irr' = irr \ requests(33)
        BY <3>2 DEF keyboard_interrupt, accepts
      <4>2. QED
        BY <4>1, Limits, Acknowledged
    <3>3. CASE raise(1)
      BY <3>3, Limits DEF raise, irq
    <3>4. QED
      BY <1>8, <3>1, <3>2, <3>3 DEF other_interrupts
  <2>2. QED
    BY <1>2, <1>8, <2>1 DEF other_interrupts
<1>9. CASE ide_init
  BY <1>2, <1>9 DEF ide_init, irq
<1>10. CASE UNCHANGED vars
  BY <1>2, <1>10 DEF vars, irq
<1>11. CASE drive_starts \/ drive_step \/ drive_flickers \/ drive_hangs
  <2>1. CASE drive_flickers
    <3>1. /\ drive \in {"ready", "flickering"} /\ drive' \in {"ready", "flickering"}
          /\ UNCHANGED <<irr, expecting_intr, disk_done, data>>
      BY <2>1 DEF drive_flickers
    <3>2. PICK t \in Tasks : active(t)
      BY <3>1 DEF PhaseInv, Quiet
    <3>3. Phase(t)
      BY <3>2 DEF PhaseInv
    <3>4. Phase(t)'
      <4>1. CASE op[t] = "write"
        BY <1>1, <3>1, <3>2, <3>3, <4>1 DEF active, Phase, WritePhase, Quiet, Announced,
           Working, Answered, Counted, irq
      <4>2. CASE op[t] # "write"
        BY <1>1, <3>1, <3>2, <3>3, <4>2 DEF active, Phase, ReadPhase, Quiet, Announced,
           Working, Answered, Counted, irq
      <4>3. QED
        BY <4>1, <4>2
    <3>5. QED
      BY <1>1, <3>2, <3>4 DEF PhaseInv, TurnInv, active
  <2>2. CASE drive_starts \/ drive_step \/ drive_hangs
    BY <1>1, <2>2, DriveAnswers
  <2>3. QED
    BY <1>11, <2>1, <2>2
<1>12. QED
  BY <1>4, <1>5, <1>6, <1>7, <1>8, <1>9, <1>10, <1>11 DEF Next

(* The driver and intr_hd_handler agree on every interrupt: a command      *)
(* starts from a clean channel, a sleeper's interrupt is still to come or  *)
(* counted, and no request finds the general handler.  For the primary     *)
(* channel OwnVector holds (OwnVectorOfPrimary).                           *)
THEOREM ChannelAgrees ==
    ASSUME OwnVector
    PROVE  Spec => []ChannelInv
<1> DEFINE Inv == IdeTypes /\ TurnInv /\ TableInv /\ PhaseInv
<1>1. Init => Inv
  <2>1. Init => TurnInv /\ PhaseInv
    BY Limits DEF Init, InterruptsInit, TurnInv, PhaseInv, active, Quiet, irq
  <2>2. Init => TableInv
    <3>1. Init => IF_bit = FALSE /\ boot = "idt_init"
      BY DEF Init, InterruptsInit
    <3>2. Init => ~IF_bit /\ IF_bit \in BOOLEAN
      BY <3>1
    <3>3. Init => IF_bit = (boot \in {"ide_init", "identify_disk", "identifying", "done"})
      BY <3>1, <3>2
    <3>4. QED
      BY <3>1, <3>2, <3>3 DEF TableInv
  <2>3. QED
    BY <2>1, <2>2, InitTypes
<1>2. ASSUME Inv, [Next]_vars, IdeTypes', TurnInv'
      PROVE  Inv'
  <2>1. TableInv'
    BY <1>2, TableKept
  <2>2. PhaseInv'
    <3>1. CASE \E t \in Tasks : task_step(t) \/ identify_disk(t)
      BY <1>2, <3>1, TaskPhase
    <3>2. CASE \A t \in Tasks : ~task_step(t) /\ ~identify_disk(t)
      BY <1>2, <3>2, DevicePhase
    <3>3. QED
      BY <3>1, <3>2
  <2>3. QED
    BY <1>2, <2>1, <2>2
<1>3. ASSUME Inv
      PROVE  ChannelInv
  <2>1. NoStaleCompletion
    BY <1>3 DEF NoStaleCompletion, PhaseInv, Phase, ReadPhase, WritePhase, Quiet, active
  <2>2. SleeperIsWoken
    BY <1>3 DEF SleeperIsWoken, PhaseInv, Phase, ReadPhase, WritePhase, Working, Answered,
       Counted, active, IdeTypes, BSY, Holding
  <2>3. NoUnhandledInterrupt
    <3>1. ASSUME IF_bit, NEW l \in irr
          PROVE  idt_table[vector(l)] # "general_intr_handler"
      <4>1. CASE l = irq_line
        <5>1. ~Quiet
          BY <4>1 DEF Quiet, irq
        <5>2. PICK t \in Tasks : active(t)
          BY <1>3, <5>1 DEF PhaseInv
        <5>3. QED
          BY <1>3, <4>1, <5>2, Limits DEF TurnInv, TableInv
      <4>2. CASE l \in {0, 1}
        BY <1>3, <3>1, <4>2 DEF TableInv, vector
      <4>3. QED
        BY <1>3, <4>1, <4>2 DEF IdeTypes
    <3>2. QED
      BY <3>1 DEF NoUnhandledInterrupt
  <2>4. QED
    BY <2>1, <2>2, <2>3 DEF ChannelInv
<1> HIDE DEF Inv
<1>4. QED
  BY <1>1, <1>2, <1>3, IdeTypeCorrect, TurnInvariant, PTL DEF Spec
=============================================================================
