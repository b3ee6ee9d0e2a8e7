----------------------------- MODULE Interrupts -----------------------------
(***************************************************************************)
(* Interrupt requests, from the device's line through the two 8259A chips  *)
(* to the handler (kernel/interrupt.c, kernel/kernel.S), and the clock     *)
(* that counts ticks (device/timer.c).  The chips and the lines are        *)
(* external: a request stays pending (irr) until it is acknowledged, a     *)
(* masked line is never acknowledged, and which of two requests goes first *)
(* is left open.  The entry code sends its end of interrupt before it      *)
(* calls the handler, so no request is held up by a handler.  A chip whose *)
(* request has vanished signals its last line, masked or not: a spurious   *)
(* interrupt.                                                              *)
(***************************************************************************)
EXTENDS Naturals

CONSTANTS
    TickMod,        \* ticks is a uint32_t: 2^32
    Spurious        \* the vectors at which spurious interrupts occur

ASSUME InterruptsAssumption ==
    /\ TickMod \in Nat \ {0, 1}
    /\ Spurious \subseteq {39, 47}

VARIABLES
    irr,            \* lines with a pending request
    idt_table,      \* the handler of each vector
    IF_bit,         \* interrupts are enabled
    ticks,
    boot            \* the next statement of init_all() and main()

intr_vars == <<irr, idt_table, IF_bit, ticks, boot>>

Lines == 0 .. 15
Vectors == {32 + l : l \in Lines}

bit(byte, i) == (byte \div 2 ^ i) % 2

(* pic_init: the masks of the two chips; the slave is on line 2.  In the   *)
(* faulty variant no line of the slave is open.                            *)
slave_mask_closed == 255

master_mask == 248                                         \* 0xf8

slave_mask == 191                                          \* 0xbf

unmasked(l) ==
    IF l < 8 THEN bit(master_mask, l) = 0
    ELSE bit(master_mask, 2) = 0 /\ bit(slave_mask, l - 8) = 0

(* pic_init: the vectors start at 0x20 and at 0x28.                        *)
vector(l) == IF l < 8 THEN 32 + l ELSE 40 + (l - 8)

-----------------------------------------------------------------------------
(* Before idt_init() nothing is registered, and IF is clear.               *)
InterruptsInit ==
    /\ irr = {}
    /\ idt_table = [v \in Vectors |-> "none"]
    /\ IF_bit = FALSE
    /\ ticks = 0
    /\ boot = "idt_init"

register_handler(table, v, function) == [table EXCEPT ![v] = function]

(* exception_init: every vector gets the general handler.                  *)
idt_init ==
    /\ boot = "idt_init" /\ boot' = "timer_init"
    /\ idt_table' = [v \in Vectors |-> "general_intr_handler"]
    /\ UNCHANGED <<irr, IF_bit, ticks>>

timer_init ==
    /\ boot = "timer_init" /\ boot' = "keyboard_init"
    /\ idt_table' = register_handler(idt_table, 32, "intr_timer_handler")
    /\ UNCHANGED <<irr, IF_bit, ticks>>

keyboard_init ==
    /\ boot = "keyboard_init" /\ boot' = "intr_enable"
    /\ idt_table' = register_handler(idt_table, 33, "intr_keyboard_handler")
    /\ UNCHANGED <<irr, IF_bit, ticks>>

(* main(): interrupts are enabled; the driver of the disk is started then, *)
(* because its initialisation sleeps.                                      *)
intr_enable ==
    /\ boot = "intr_enable" /\ boot' = "ide_init"
    /\ IF_bit' = TRUE
    /\ UNCHANGED <<irr, idt_table, ticks>>

(* A device raises its line, at any time once the machine is on.           *)
raise(l) ==
    /\ l \notin irr
    /\ irr' = irr \cup {l}
    /\ UNCHANGED <<idt_table, IF_bit, ticks, boot>>

(* The processor acknowledges a request and calls the handler.             *)
requests(v) == {l \in irr : unmasked(l) /\ vector(l) = v}

accepts(v, handler) ==
    /\ IF_bit
    /\ requests(v) # {} \/ v \in Spurious
    /\ idt_table[v] = handler
    /\ irr' = irr \ requests(v)

(* intr_timer_handler: ticks++ wraps around.                               *)
tick ==
    /\ accepts(32, "intr_timer_handler")
    /\ ticks' = (ticks + 1) % TickMod
    /\ UNCHANGED <<idt_table, IF_bit, boot>>

keyboard_interrupt ==
    /\ accepts(33, "intr_keyboard_handler")
    /\ UNCHANGED <<idt_table, IF_bit, ticks, boot>>

(* general_intr_handler returns from the vectors of spurious interrupts;   *)
(* anything else it reports, and stops.                                    *)
ignored(v) == v \in {39, 47}

(* mtime_sleep: milliseconds to ticks, rounded up; 100 interrupts a second.*)
mil_seconds_per_intr == 1000 \div 100

sleep_ticks(m_seconds) ==
    (m_seconds + mil_seconds_per_intr - 1) \div mil_seconds_per_intr

(* ticks_to_sleep: the test of its loop, in 32-bit arithmetic.  The faulty *)
(* variant compares with the tick at which the sleep should end.           *)
slept_until(start, n) == ticks >= (start + n) % TickMod

slept(start, n) == (ticks + TickMod - start) % TickMod >= n
=============================================================================
