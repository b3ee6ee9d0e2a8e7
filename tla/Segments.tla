------------------------------ MODULE Segments ------------------------------
(***************************************************************************)
(* Segment descriptors, gates and the selectors that are loaded: the GDT   *)
(* of boot/loader.S (with boot/include/boot.inc), what tss_init adds to it *)
(* (userprog/tss.c, kernel/global.h), the gates of kernel/interrupt.c, and *)
(* the processor's checks, which are external.                             *)
(*                                                                         *)
(* A descriptor is its eight bytes, an address its four, lowest first.     *)
(***************************************************************************)
EXTENDS Naturals, Sequences

CONSTANT Tss        \* the address of tss

ASSUME SegmentsAssumption ==
    /\ Tss \in Seq(0 .. 255) /\ Len(Tss) = 4
    /\ Tss # <<0, 0, 0, 0>>

VARIABLES
    gdt, gdt_limit, \* the table, its last byte
    tr,             \* the task register: TRUE once tss is loaded
    seg,            \* the selectors in the segment registers
    saved,          \* those on the kernel stack, which intr_exit takes back
    gate,           \* the last entry: its vector, whether by int n of a process
    process,        \* the page directory of a process is active
    seg_step, fault

seg_vars == <<gdt, gdt_limit, tr, seg, saved, gate, process, seg_step, fault>>

(* global.h, boot.inc: attributes.                                         *)
DESC_P == 128
DPL(level) == level * 32
DESC_S == 16
DESC_TYPE_CODE == 8
DESC_TYPE_DATA == 2
DESC_TYPE_TSS == 9
GDT_ATTR_HIGH == 128 + 64
TSS_ATTR_HIGH == 128
IDT_DESC_32_TYPE == 14

(* Selectors: an index, and the privilege level asked for.                 *)
selector(index, rpl) == index * 8 + rpl
SELECTOR_K_CODE == selector(1, 0)
SELECTOR_K_DATA == selector(2, 0)
SELECTOR_VIDEO  == selector(3, 0)
SELECTOR_TSS    == selector(4, 0)
SELECTOR_U_CODE == selector(5, 3)
SELECTOR_U_DATA == selector(6, 3)

(* struct gdt_desc; the high byte of the limit shares its byte with the    *)
(* attributes.                                                             *)
make_gdt_desc(base, limit, attr_low, attr_high) ==
    <<limit % 256, (limit \div 256) % 256, base[1], base[2], base[3],
      attr_low, (((limit \div 65536) % 16) + attr_high) % 256, base[4]>>

null_desc == <<0, 0, 0, 0, 0, 0, 0, 0>>
flat == <<0, 0, 0, 0>>

(* GDT_BASE .. VIDEO_DESC, and the room behind them.                       *)
SegmentsInit ==
    /\ gdt = [i \in 0 .. 6 |->
                CASE i = 1 -> make_gdt_desc(flat, 1048575, DESC_P + DPL(0) + DESC_S + DESC_TYPE_CODE,
                                            GDT_ATTR_HIGH)
                  [] i = 2 -> make_gdt_desc(flat, 1048575, DESC_P + DPL(0) + DESC_S + DESC_TYPE_DATA,
                                            GDT_ATTR_HIGH)
                  [] i = 3 -> make_gdt_desc(<<0, 128, 11, 0>>, 7,
                                            DESC_P + DPL(0) + DESC_S + DESC_TYPE_DATA, GDT_ATTR_HIGH)
                  [] OTHER -> null_desc]
    /\ gdt_limit = 4 * 8 - 1
    /\ tr = FALSE
    /\ seg = [r \in {"cs", "ds", "es", "fs", "gs", "ss"} |-> 0]
    /\ saved = <<>>
    /\ gate = [vector |-> 0, by_process |-> FALSE]
    /\ process = FALSE /\ fault = FALSE
    /\ seg_step = "loader"

-----------------------------------------------------------------------------
(* The processor.                                                          *)
descriptor(s) == gdt[s \div 8]
present(s) == s % 8 < 4 /\ (s \div 8) * 8 + 7 <= gdt_limit /\ descriptor(s)[6] >= DESC_P
dpl(d) == (d[6] \div 32) % 4
kind(d) == d[6] % 32          \* S and the type
base_of(d) == <<d[3], d[4], d[5], d[8]>>

cpl == seg["cs"] % 4
larger(m, n) == IF m < n THEN n ELSE m

(* Null is allowed in a data segment's register.                           *)
data_loads(s, level) ==
    \/ s < 4
    \/ /\ present(s) /\ kind(descriptor(s)) = DESC_S + DESC_TYPE_DATA
       /\ larger(level, s % 4) <= dpl(descriptor(s))

stack_loads(s, level) ==
    /\ s >= 4 /\ present(s) /\ kind(descriptor(s)) = DESC_S + DESC_TYPE_DATA
    /\ s % 4 = level /\ dpl(descriptor(s)) = level

code_loads(s, level) ==
    /\ s >= 4 /\ present(s) /\ kind(descriptor(s)) = DESC_S + DESC_TYPE_CODE
    /\ dpl(descriptor(s)) = level

running == ~fault /\ seg_step = "running" /\ saved = <<>>

-----------------------------------------------------------------------------
(* loader.S: lgdt, the far jump, p_mode_start.  fs keeps its 0.            *)
p_mode_start ==
    /\ seg_step = "loader" /\ ~fault
    /\ seg' = [seg EXCEPT !["cs"] = SELECTOR_K_CODE, !["ds"] = SELECTOR_K_DATA,
                          !["es"] = SELECTOR_K_DATA, !["ss"] = SELECTOR_K_DATA,
                          !["gs"] = SELECTOR_VIDEO]
    /\ fault' = ~(/\ code_loads(SELECTOR_K_CODE, 0)
                  /\ stack_loads(SELECTOR_K_DATA, 0)
                  /\ data_loads(SELECTOR_K_DATA, 0) /\ data_loads(SELECTOR_VIDEO, 0))
    /\ seg_step' = "p_mode"
    /\ UNCHANGED <<gdt, gdt_limit, tr, saved, gate, process>>

(* With paging the video segment moves to the kernel's addresses (faulty:  *)
(* it stays where it was).                                                 *)
video_desc_low(d) == d

video_desc(d) == [d EXCEPT ![8] = 192]      \* or 0xc0

enter_kernel ==
    /\ seg_step = "p_mode" /\ ~fault
    /\ gdt' = [gdt EXCEPT ![3] = video_desc(@)]
    /\ seg_step' = "kernel"
    /\ UNCHANGED <<gdt_limit, tr, seg, saved, gate, process, fault>>

(* tss_init: three descriptors, and the table's new limit (faulty: the old *)
(* one).                                                                   *)
gdt_operand_limit_old == 8 * 4 - 1

gdt_operand_limit == 8 * 7 - 1

tss_init ==
    /\ seg_step = "kernel" /\ ~fault
    /\ gdt' = [gdt EXCEPT
         ![4] = make_gdt_desc(Tss, 27 * 4 - 1, DESC_P + DPL(0) + DESC_TYPE_TSS, TSS_ATTR_HIGH),
         ![5] = make_gdt_desc(flat, 1048575, DESC_P + DPL(3) + DESC_S + DESC_TYPE_CODE, GDT_ATTR_HIGH),
         ![6] = make_gdt_desc(flat, 1048575, DESC_P + DPL(3) + DESC_S + DESC_TYPE_DATA, GDT_ATTR_HIGH)]
    /\ gdt_limit' = gdt_operand_limit
    /\ seg_step' = "ltr"
    /\ UNCHANGED <<tr, seg, saved, gate, process, fault>>

(* ltr wants a free TSS descriptor, and marks it busy.                     *)
ltr ==
    /\ seg_step = "ltr" /\ ~fault
    /\ IF present(SELECTOR_TSS) /\ kind(descriptor(SELECTOR_TSS)) = DESC_TYPE_TSS
       THEN /\ gdt' = [gdt EXCEPT ![4][6] = @ + 2]
            /\ tr' = TRUE /\ seg_step' = "running" /\ UNCHANGED fault
       ELSE fault' = TRUE /\ UNCHANGED <<gdt, tr, seg_step>>
    /\ UNCHANGED <<gdt_limit, seg, saved, gate, process>>

-----------------------------------------------------------------------------
(* put_char, in the kernel, in any task's page directory: of a process's   *)
(* addresses only those of the kernel are sure to be mapped.               *)
put_char_gs ==
    /\ seg_step \in {"kernel", "running"} /\ ~fault /\ cpl = 0
    /\ seg' = [seg EXCEPT !["gs"] = SELECTOR_VIDEO]
    /\ fault' = \/ ~data_loads(SELECTOR_VIDEO, 0)
                \/ process /\ base_of(descriptor(SELECTOR_VIDEO))[4] < 192
    /\ UNCHANGED <<gdt, gdt_limit, tr, saved, gate, process, seg_step>>

(* start_process: the selectors it writes into the frame.                  *)
start_process_selectors ==
    /\ running /\ cpl = 0
    /\ saved' = [seg EXCEPT !["gs"] = 0, !["fs"] = SELECTOR_U_DATA, !["es"] = SELECTOR_U_DATA,
                            !["ds"] = SELECTOR_U_DATA, !["cs"] = SELECTOR_U_CODE,
                            !["ss"] = SELECTOR_U_DATA]
    /\ process' = TRUE
    /\ UNCHANGED <<gdt, gdt_limit, tr, seg, gate, seg_step, fault>>

(* intr_exit: the data segments are loaded by the kernel, then iretd loads *)
(* cs, and ss if the level changes.                                        *)
intr_exit_pops ==
    /\ seg_step = "running" /\ ~fault /\ saved # <<>>
    /\ LET level == saved["cs"] % 4
       IN  fault' = ~(/\ \A r \in {"gs", "fs", "es", "ds"} : data_loads(saved[r], 0)
                      /\ code_loads(saved["cs"], level)
                      /\ level # 0 => stack_loads(saved["ss"], level))
    /\ seg' = saved
    /\ saved' = <<>>
    /\ UNCHANGED <<gdt, gdt_limit, tr, gate, process, seg_step>>

(* idt_desc_init: the level from which int n may use a gate.  The faulty   *)
(* variant opens all of them.                                              *)
gate_attribute_open(v) == DESC_P + DPL(3) + IDT_DESC_32_TYPE

gate_attribute(v) == DESC_P + DPL(IF v = 128 THEN 3 ELSE 0) + IDT_DESC_32_TYPE

(* The processor enters the kernel by the gate of v, whose code segment is *)
(* SELECTOR_K_CODE; from a process it takes ss0, SELECTOR_K_STACK, from    *)
(* the TSS.                                                                *)
enter(v, by_process) ==
    /\ gate' = [vector |-> v, by_process |-> by_process]
    /\ saved' = seg
    /\ seg' = [seg EXCEPT !["cs"] = SELECTOR_K_CODE,
                          !["ss"] = IF cpl = 3 THEN SELECTOR_K_DATA ELSE @]
    /\ fault' = \/ ~code_loads(SELECTOR_K_CODE, 0)
                \/ cpl = 3 /\ ~(/\ tr /\ base_of(descriptor(SELECTOR_TSS)) = Tss
                                /\ stack_loads(SELECTOR_K_DATA, 0))
    /\ UNCHANGED <<gdt, gdt_limit, tr, process>>

(* int n of a process: #GP if the gate is not for it, or does not exist    *)
(* (the table has 0x81); general_intr_handler then stops.                  *)
int_n(n) ==
    /\ running /\ cpl = 3
    /\ IF n <= 128 /\ (gate_attribute(n) \div 32) % 4 = 3
       THEN enter(n, TRUE) /\ UNCHANGED seg_step
       ELSE enter(13, FALSE) /\ seg_step' = "halted"

(* A device's interrupt.                                                   *)
device_interrupt(v) ==
    /\ running
    /\ enter(v, FALSE)
    /\ UNCHANGED seg_step

SegmentsNext ==
    \/ p_mode_start \/ enter_kernel \/ tss_init \/ ltr
    \/ put_char_gs \/ start_process_selectors \/ intr_exit_pops
    \/ \E n \in {0, 13, 32, 48, 127, 128, 129} : int_n(n)
    \/ \E v \in {32, 33, 46} : device_interrupt(v)

SegmentsSpec == SegmentsInit /\ [][SegmentsNext]_seg_vars

-----------------------------------------------------------------------------
(* The kernel never faults by its selectors, from the first far jump to    *)
(* processes that are interrupted and printed for: every descriptor is in  *)
(* the table, at its index, of the right type and level, and its base is   *)
(* the one that was meant.                                                 *)
SegmentsLoad == ~fault

(* idt_desc_init fills 0x81 gates from a table of 48 entries and           *)
(* syscall_handler.  The gates between them, which lead nowhere, are never *)
(* taken, and a process gets into the kernel by int 0x80 only.             *)
OnlyKnownEntries ==
    /\ gate.vector \in (0 .. 47) \cup {128}
    /\ gate.by_process => gate.vector = 128

(* From the loader on, no selector and no gate is used that the tables do  *)
(* not provide for.                                                        *)
SegmentsInv == SegmentsLoad /\ OnlyKnownEntries
=============================================================================
