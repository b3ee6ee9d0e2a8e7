--------------------------------- MODULE Ide ---------------------------------
(***************************************************************************)
(* Sector transfers of device/ide.c on one IDE channel: tasks call         *)
(* ide_read and ide_write, which take the channel's lock, give a command   *)
(* and sleep on the semaphore disk_done until intr_hd_handler ups it.      *)
(* Everything runs with interrupts enabled except inside the semaphore's   *)
(* operations, so the disk's interrupt may come between any two steps.     *)
(*                                                                         *)
(* The drive is external.  After a command it shows BSY a little later,    *)
(* works, and interrupts once per command: when the data of a read is      *)
(* there, or when the data of a write has been stored.  It may also hang:  *)
(* then it stays busy.  And it may show BSY again for a while after it has *)
(* become ready, without another interrupt: busy_wait returns true only    *)
(* for such a drive, and any other makes identify_disk PANIC, before the   *)
(* first call.                                                             *)
(***************************************************************************)
EXTENDS Interrupts

CONSTANTS
    Tasks,
    MaxOp,          \* sectors one command can transfer (256)
    Counts,         \* bound: the sector counts tasks ask for, by operation
    SectorSize,     \* bytes of a sector (512)
    Channel,        \* 0 or 1, the channel that is looked at
    TimeLimit,      \* what time_limit starts from (30000)
    MayHang,        \* whether the drive may hang
    MayFlicker,     \* whether it may show BSY again
    NULL

ASSUME IdeAssumption ==
    /\ {MaxOp, SectorSize, TimeLimit} \subseteq Nat \ {0}
    /\ Channel \in {0, 1} /\ {MayHang, MayFlicker} \subseteq BOOLEAN
    /\ Counts \in [{"read", "write"} -> SUBSET (Nat \ {0})]
    /\ NULL \notin Tasks

VARIABLES
    holder,         \* channel.lock.holder
    expecting_intr, \* channel.expecting_intr
    disk_done,      \* channel.disk_done.value
    pc, op,         \* the next statement of each task, and its operation
    sec_cnt,        \* the sectors asked for
    secs_done,      \* and transferred
    stored,         \* sectors written: the offset in buf they came from
    time_limit,     \* of busy_wait
    start_tick,     \* of ticks_to_sleep
    elapsed,        \* history: clock interrupts since the sleep began
    drive,          \* "idle", "accepted" (BSY not yet set), "busy", "ready",
                    \* "flickering" (ready, but with BSY set), "hung"
    data,           \* the drive has the data of the write command
    panic           \* PANIC, a failed ASSERT, or an unknown interrupt

channel_vars == <<holder, expecting_intr, disk_done>>
call_vars == <<op, sec_cnt, secs_done, stored>>
wait_vars == <<time_limit, start_tick, elapsed>>
drive_vars == <<drive, data>>
vars == <<intr_vars, channel_vars, pc, call_vars, wait_vars, drive_vars, panic>>

(* ide_init: the line of the channel.                                      *)
irq_line == 14 + Channel

irq == irq_line \in irr
BSY == drive \in {"busy", "flickering", "hung"}

Init ==
    /\ InterruptsInit
    /\ holder = NULL /\ expecting_intr = FALSE /\ disk_done = 0
    /\ pc = [t \in Tasks |-> "outside"]
    /\ op = [t \in Tasks |-> "read"]
    /\ sec_cnt = [t \in Tasks |-> 0]
    /\ secs_done = [t \in Tasks |-> 0]
    /\ stored = [t \in Tasks |-> {}]
    /\ time_limit = [t \in Tasks |-> 0]
    /\ start_tick = [t \in Tasks |-> 0]
    /\ elapsed = [t \in Tasks |-> 0]
    /\ drive = "idle" /\ data = FALSE
    /\ panic = FALSE

(* A read sleeps before it looks at the disk, and so does identify_disk; a *)
(* write after it has given the data.                                      *)
successor(o, label) ==
    LET order == IF o # "write"
                 THEN [cmd |-> "sema_down", sema_down |-> "busy_wait",
                       busy_wait |-> "transfer", transfer |-> "next"]
                 ELSE [cmd |-> "busy_wait", busy_wait |-> "transfer",
                       transfer |-> "sema_down", sema_down |-> "next"]
    IN  order[label]

(* Task t is about to execute the statement label; after a panic nobody is.*)
at(t, label) == ~panic /\ pc[t] = label

goto(t, label) == pc' = [pc EXCEPT ![t] = label]

(* What is left, in commands of at most MaxOp.                             *)
get_sector_number(done, all) == IF done + MaxOp < all THEN MaxOp ELSE all - done

-----------------------------------------------------------------------------
(* ide_init registers the handler of both channels, initialises them, and  *)
(* identifies the drives, of which there is one here.  The faulty variant  *)
(* registers too late.                                                     *)
registers_later == UNCHANGED idt_table

registers ==
    idt_table' = register_handler(
                   register_handler(idt_table, 46, "intr_hd_handler"), 47, "intr_hd_handler")

ide_init ==
    /\ ~panic
    /\ boot = "ide_init"
    /\ registers
    /\ boot' = "identify_disk"
    /\ UNCHANGED <<irr, IF_bit, ticks, channel_vars, pc, call_vars, wait_vars,
                   drive_vars, panic>>

(* identify_disk: one sector, without the channel's lock.                  *)
identify_disk(t) ==
    /\ ~panic
    /\ boot = "identify_disk" /\ boot' = "identifying"
    /\ op' = [op EXCEPT ![t] = "identify"]
    /\ sec_cnt' = [sec_cnt EXCEPT ![t] = 1]
    /\ goto(t, "expect")
    /\ UNCHANGED <<irr, idt_table, IF_bit, ticks, secs_done, stored, channel_vars,
                   wait_vars, drive_vars, panic>>

(* ide_read, ide_write: up to the lock, and select_disk.                   *)
ide_call(t, o, n) ==
    /\ at(t, "outside")
    /\ boot = "done"
    /\ op' = [op EXCEPT ![t] = o]
    /\ sec_cnt' = [sec_cnt EXCEPT ![t] = n]
    /\ secs_done' = [secs_done EXCEPT ![t] = 0]
    /\ stored' = [stored EXCEPT ![t] = {}]
    /\ goto(t, "lock_acquire")
    /\ UNCHANGED <<intr_vars, channel_vars, wait_vars, drive_vars, panic>>

lock_acquire(t) ==
    /\ at(t, "lock_acquire")
    /\ holder = NULL
    /\ holder' = t
    /\ goto(t, "expect")
    /\ UNCHANGED <<intr_vars, expecting_intr, disk_done, call_vars, wait_vars,
                   drive_vars, panic>>

(* The two halves of cmd_out: the interrupt is announced before the        *)
(* command is written.  The faulty variant has them in the other order.    *)
announce == expecting_intr' = TRUE /\ UNCHANGED <<drive, data>>

write_command == drive' = "accepted" /\ data' = FALSE /\ UNCHANGED expecting_intr

cmd_half_swapped(first) == IF first THEN write_command ELSE announce

cmd_half(first) == IF first THEN announce ELSE write_command

(* select_sector, and the first half of cmd_out.                           *)
expect(t) ==
    /\ at(t, "expect")
    /\ cmd_half(TRUE)
    /\ goto(t, "cmd")
    /\ UNCHANGED <<intr_vars, holder, disk_done, call_vars, wait_vars, panic>>

cmd_out(t) ==
    /\ at(t, "cmd")
    /\ cmd_half(FALSE)
    /\ time_limit' = [time_limit EXCEPT ![t] = TimeLimit]
    /\ goto(t, successor(op[t], "cmd"))
    /\ UNCHANGED <<intr_vars, holder, disk_done, call_vars, start_tick, elapsed, panic>>

(* sema_down(&disk_done): the task sleeps while the value is 0.            *)
sema_down(t) ==
    /\ at(t, "sema_down")
    /\ disk_done # 0
    /\ disk_done' = disk_done - 1
    /\ goto(t, successor(op[t], "sema_down"))
    /\ UNCHANGED <<intr_vars, holder, expecting_intr, call_vars, wait_vars,
                   drive_vars, panic>>

(* busy_wait: time_limit -= 10 >= 0 subtracts 1, and the loop ends at 0.   *)
(* With parentheses around the subtraction it would never end, because a   *)
(* uint16_t is never negative: the faulty variant.                         *)
time_is_up_never(t) == FALSE

time_is_up(t) == time_limit'[t] = 0

(* A turn of the loop.  A timeout is false, which the callers answer with  *)
(* PANIC.                                                                  *)
busy_wait(t) ==
    /\ at(t, "busy_wait")
    /\ time_limit' = [time_limit EXCEPT ![t] = (@ + TimeLimit) % (TimeLimit + 1)]
    /\ IF time_is_up(t)
       THEN panic' = TRUE /\ UNCHANGED <<pc, start_tick, elapsed>>
       ELSE /\ goto(t, IF BSY THEN "sleep" ELSE "busy_wait_again")
            /\ start_tick' = [start_tick EXCEPT ![t] = IF BSY THEN ticks ELSE 0]
            /\ elapsed' = [elapsed EXCEPT ![t] = 0]
            /\ UNCHANGED panic
    /\ UNCHANGED <<intr_vars, channel_vars, call_vars, drive_vars>>

(* mtime_sleep(10): it yields until enough ticks have passed.              *)
mtime_sleep(t) ==
    /\ at(t, "sleep")
    /\ slept(start_tick[t], sleep_ticks(10))
    /\ goto(t, "busy_wait")
    /\ UNCHANGED <<intr_vars, channel_vars, call_vars, wait_vars, drive_vars, panic>>

(* The disk was not busy; busy_wait returns what BSY is when it reads it   *)
(* once more.  A 0 is false, which the callers take for a timeout.         *)
busy_wait_returns(t) ==
    /\ at(t, "busy_wait_again")
    /\ IF BSY
       THEN goto(t, successor(op[t], "busy_wait")) /\ UNCHANGED panic
       ELSE panic' = TRUE /\ UNCHANGED pc
    /\ UNCHANGED <<intr_vars, channel_vars, call_vars, wait_vars, drive_vars>>

(* read_from_sector, write2sector: the sectors of this command, to or from *)
(* buf + secs_done.                                                        *)
transfer(t) ==
    LET n == get_sector_number(secs_done[t], sec_cnt[t])
    IN  /\ at(t, "transfer")
        /\ stored' = [stored EXCEPT ![t] = @ \cup
             {<<secs_done[t] + i, secs_done[t] + i * SectorSize>> : i \in 0 .. n - 1}]
        /\ IF op[t] = "write"
           THEN data' = TRUE /\ drive' = (IF drive \in {"ready", "flickering"}
                                          THEN "busy" ELSE drive)
           ELSE drive' = "idle" /\ UNCHANGED data
        /\ goto(t, successor(op[t], "transfer"))
        /\ UNCHANGED <<intr_vars, channel_vars, op, sec_cnt, secs_done, wait_vars, panic>>

(* secs_done += secs_op, and the test of the while loop.                   *)
next_command(t) ==
    /\ at(t, "next")
    /\ secs_done' = [secs_done EXCEPT ![t] = @ + get_sector_number(@, sec_cnt[t])]
    /\ goto(t, IF op[t] = "identify" THEN "outside"
               ELSE IF secs_done'[t] < sec_cnt[t] THEN "expect" ELSE "lock_release")
    /\ boot' = IF op[t] = "identify" THEN "done" ELSE boot
    /\ UNCHANGED <<irr, idt_table, IF_bit, ticks, channel_vars, op, sec_cnt, stored,
                   wait_vars, drive_vars, panic>>

lock_release(t) ==
    /\ at(t, "lock_release")
    /\ holder' = NULL
    /\ goto(t, "outside")
    /\ UNCHANGED <<intr_vars, expecting_intr, disk_done, call_vars, wait_vars,
                   drive_vars, panic>>

-----------------------------------------------------------------------------
(* The interrupt is no longer expected; the faulty variant forgets it.     *)
clear_expecting_not == UNCHANGED expecting_intr

clear_expecting == expecting_intr' = FALSE

(* intr_hd_handler: it asserts that the channel of the vector has been     *)
(* initialised; only an interrupt that is expected ups the semaphore, and  *)
(* sema_up asserts that its value was 0.                                   *)
intr_hd_handler(v) ==
    /\ ~panic
    /\ accepts(v, "intr_hd_handler")
    /\ IF v # vector(irq_line) \/ (expecting_intr /\ disk_done # 0)
       THEN panic' = TRUE /\ UNCHANGED <<expecting_intr, disk_done>>
       ELSE /\ clear_expecting
            /\ disk_done' = IF expecting_intr THEN disk_done + 1 ELSE disk_done
            /\ UNCHANGED panic
    /\ UNCHANGED <<idt_table, IF_bit, ticks, boot, holder, pc, call_vars, wait_vars, drive_vars>>

(* An interrupt for which no handler is registered.                        *)
general_intr_handler(v) ==
    /\ ~panic
    /\ accepts(v, "general_intr_handler")
    /\ panic' = ~ignored(v)
    /\ UNCHANGED <<idt_table, IF_bit, ticks, boot, channel_vars, pc, call_vars, wait_vars, drive_vars>>

(* The clock's interrupt counts for everybody who sleeps.                  *)
intr_timer_handler ==
    /\ ~panic
    /\ tick
    /\ elapsed' = [t \in Tasks |-> IF pc[t] = "sleep" /\ elapsed[t] = 0
                                   THEN 1 ELSE elapsed[t]]
    /\ UNCHANGED <<channel_vars, pc, call_vars, time_limit, start_tick, drive_vars, panic>>

(* The rest of Interrupts: the boot, the keyboard, and the lines of the    *)
(* clock and of the keyboard.                                              *)
boot_step == idt_init \/ timer_init \/ keyboard_init \/ intr_enable

other_interrupts ==
    /\ ~panic
    /\ boot_step \/ keyboard_interrupt \/ raise(1)
    /\ UNCHANGED <<channel_vars, pc, call_vars, wait_vars, drive_vars, panic>>

clock_pulse ==
    /\ ~panic
    /\ raise(0)
    /\ UNCHANGED <<channel_vars, pc, call_vars, wait_vars, drive_vars, panic>>

(* The drive: it sets BSY, and gets done with what it was told.            *)
drive_starts ==
    /\ ~panic
    /\ drive = "accepted"
    /\ drive' = "busy"
    /\ UNCHANGED <<intr_vars, channel_vars, pc, call_vars, wait_vars, data, panic>>

drive_step ==
    /\ ~panic
    /\ drive = "busy"
    /\ LET writing == holder # NULL /\ op[holder] = "write"
       IN  /\ drive' = IF writing /\ data THEN "idle" ELSE "ready"
           /\ irr' = IF ~writing \/ data THEN irr \cup {irq_line} ELSE irr
    /\ UNCHANGED <<idt_table, IF_bit, ticks, boot, channel_vars, pc, call_vars, wait_vars,
                   data, panic>>

drive_flickers ==
    /\ ~panic
    /\ MayFlicker
    /\ \/ drive = "ready" /\ drive' = "flickering"
       \/ drive = "flickering" /\ drive' = "ready"
    /\ UNCHANGED <<intr_vars, channel_vars, pc, call_vars, wait_vars, data, panic>>

drive_hangs ==
    /\ ~panic
    /\ MayHang
    /\ drive = "busy"
    /\ drive' = "hung"
    /\ UNCHANGED <<intr_vars, channel_vars, pc, call_vars, wait_vars, data, panic>>

task_step(t) ==
    \/ \E o \in {"read", "write"} : \E n \in Counts[o] : ide_call(t, o, n)
    \/ lock_acquire(t)
    \/ expect(t)
    \/ cmd_out(t)
    \/ sema_down(t)
    \/ busy_wait(t)
    \/ mtime_sleep(t)
    \/ busy_wait_returns(t)
    \/ transfer(t)
    \/ next_command(t)
    \/ lock_release(t)

Next ==
    \/ \E t \in Tasks : task_step(t) \/ identify_disk(t)
    \/ ide_init
    \/ \E v \in Vectors : intr_hd_handler(v) \/ general_intr_handler(v)
    \/ intr_timer_handler
    \/ clock_pulse
    \/ other_interrupts
    \/ drive_starts
    \/ drive_step
    \/ drive_flickers
    \/ drive_hangs

Spec == Init /\ [][Next]_vars

(* The machine boots, the clock goes on, interrupts are delivered, a drive *)
(* that does not hang answers, and a task that can go on gets the          *)
(* processor (KernelThreads!NoStarvation), long before ticks wraps around  *)
(* while it sleeps.                                                        *)
FairSpec ==
    /\ Spec
    /\ WF_vars(other_interrupts /\ boot_step)
    /\ WF_vars(clock_pulse) /\ WF_vars(intr_timer_handler)
    /\ WF_vars(irq /\ intr_hd_handler(vector(irq_line)))
    /\ WF_vars(drive_starts \/ drive_step)
    /\ \A t \in Tasks : WF_vars(pc[t] # "outside" /\ task_step(t)) /\ SF_vars(mtime_sleep(t))

-----------------------------------------------------------------------------
(* A command starts from a clean channel: no interrupt of an earlier one   *)
(* is pending, expected or already counted in disk_done, which would let   *)
(* the driver go on before the drive is done.                              *)
NoStaleCompletion ==
    \A t \in Tasks :
        pc[t] \in {"expect", "lock_release"} => disk_done = 0 /\ ~irq /\ ~expecting_intr

(* A task that sleeps on disk_done is woken by an interrupt that is still  *)
(* to come or has been counted, however early the drive is done.           *)
SleeperIsWoken ==
    \A t \in Tasks :
        pc[t] = "sema_down" =>
            \/ disk_done = 1
            \/ expecting_intr /\ (irq \/ drive = "accepted" \/ BSY)

(* A task never sleeps on disk_done for ever, unless the drive hangs: the  *)
(* channel's line is open and its handler registered.                      *)
SleepEnds ==
    \A t \in Tasks : pc[t] = "sema_down" ~> (pc[t] # "sema_down" \/ panic \/ drive = "hung")

(* busy_wait ends even if the drive hangs: the ticks it sleeps for pass,   *)
(* and its time limit is reached.                                          *)
BusyWaitEnds ==
    \A t \in Tasks :
        pc[t] \in {"busy_wait", "sleep"} ~> (pc[t] \notin {"busy_wait", "sleep"} \/ panic)

(* timer.c: a sleep lasts until at least one clock interrupt has been      *)
(* counted, also when ticks wraps around in between.                       *)
SleepLongEnough ==
    [][\A t \in Tasks : pc[t] = "sleep" /\ pc'[t] # "sleep" => elapsed[t] >= 1]_vars

(* A request that pic_init lets through finds its own handler and not the  *)
(* general one, which would stop the machine.                              *)
NoUnhandledInterrupt ==
    IF_bit => \A l \in irr : unmasked(l) => idt_table[vector(l)] # "general_intr_handler"

(* interrupt.c, general_intr_handler: a spurious interrupt needs no        *)
(* handling.                                                               *)
SpuriousIgnored ==
    [][\A v \in Spurious :
         requests(v) = {} /\ (intr_hd_handler(v) \/ general_intr_handler(v)) => ~panic']_vars

(* ide.c, busy_wait: it fails only for a disk that is still busy after 30  *)
(* seconds, and every operation is done by then: no PANIC.                 *)
NoPanic == ~panic

(* ide.c, ide_write: the sectors of buf are written to the disk, sector i  *)
(* of the disk from sector i of buf.                                       *)
DataInPlace ==
    \A t \in Tasks : \A s \in stored[t] : s[2] = s[1] * SectorSize

(* intr_hd_handler and the driver agree on every interrupt: each has its   *)
(* handler, is counted for its own command, and reaches who sleeps for it. *)
ChannelInv == NoStaleCompletion /\ SleeperIsWoken /\ NoUnhandledInterrupt
=============================================================================
