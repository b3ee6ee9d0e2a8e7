-------------------------------- MODULE Entry --------------------------------
(***************************************************************************)
(* The way into the kernel and out again (kernel/kernel.S): what the       *)
(* processor, the VECTOR entries and syscall_handler push on the stack,    *)
(* what intr_exit and iretd take from it, and the frame start_process      *)
(* builds by hand (thread/thread.h, userprog/process.c).  The processor is *)
(* external.                                                               *)
(*                                                                         *)
(* The stack is a sequence, its top first.  A register holds a value whose *)
(* only meaning is whose it is.                                            *)
(***************************************************************************)
EXTENDS Naturals, Sequences

General == {"eax", "ecx", "edx", "ebx", "ebp", "esi", "edi"}
Segment == {"ds", "es", "fs", "gs"}
Return  == {"eip", "cs", "eflags", "esp", "ss"}
Regs    == General \cup Segment \cup Return

VARIABLES
    regs,           \* the registers
    stack,          \* the kernel stack, from the place of the last switch to it
    cpu,            \* "running", "entry", "handler", "intr_exit" or "halted"
    vec,            \* the vector of the interrupt that is handled
    expected        \* the registers the interrupted code should find again

entry_vars == <<regs, stack, cpu, vec, expected>>

(* The vectors that occur: exceptions, the lines of the 8259A, int 0x80;   *)
(* and those at which the processor pushes an error code.                  *)
Exceptions == 0 .. 19 \ {15}
Raised     == Exceptions \cup (32 .. 47) \cup {128}
PushesError == {8, 10, 11, 12, 13, 14, 17}

(* The lines VECTOR x,ERROR_CODE; the others push 0 in its place.  The     *)
(* faulty variant has ZERO for #GP.                                        *)
ERROR_CODE_without_GP == {8, 10, 11, 12, 14, 17, 24, 26, 27, 29, 30}

ERROR_CODE == {8, 10, 11, 12, 13, 14, 17, 24, 26, 27, 29, 30}

user_mode(r) == r["cs"] = <<"SELECTOR_U_CODE">>

-----------------------------------------------------------------------------
context(who) == [r \in Regs |-> <<who, r>>]

Kernel == [context("kernel") EXCEPT !["cs"] = <<"SELECTOR_K_CODE">>]

(* A kernel thread runs, whose first function may be start_process.        *)
EntryInit ==
    /\ regs = Kernel
    /\ stack = <<>>
    /\ cpu = "running"
    /\ vec = 0
    /\ expected = Kernel

(* The processor: the stack is changed if it comes from user mode.         *)
interrupt(v) ==
    /\ cpu = "running"
    /\ stack' = (IF v \in PushesError THEN <<<<"error">>>> ELSE <<>>)
                  \o <<regs["eip"], regs["cs"], regs["eflags"]>>
                  \o (IF user_mode(regs) THEN <<regs["esp"], regs["ss"]>> ELSE <<>>)
    /\ regs' = [regs EXCEPT !["eip"] = <<"entry">>, !["cs"] = <<"SELECTOR_K_CODE">>,
                            !["esp"] = IF user_mode(regs) THEN <<"esp0">> ELSE @,
                            !["ss"]  = IF user_mode(regs) THEN <<"ss0">> ELSE @]
    /\ expected' = regs
    /\ vec' = v
    /\ cpu' = "entry"

(* intr%1entry and the head of syscall_handler.                            *)
pushad == <<regs["edi"], regs["esi"], regs["ebp"], <<"esp_dummy">>,
            regs["ebx"], regs["edx"], regs["ecx"], regs["eax"]>>

segments == <<regs["gs"], regs["fs"], regs["es"], regs["ds"]>>

zero == IF vec \in ERROR_CODE THEN <<>> ELSE <<<<"zero">>>>

entry ==
    /\ cpu = "entry"
    /\ stack' = <<<<"vec_no">>>> \o pushad \o segments \o zero \o stack
    /\ cpu' = "handler"
    /\ UNCHANGED <<regs, vec, expected>>

(* The handler keeps what the calling convention asks for; put_char loads  *)
(* gs.  An exception is reported and the machine stops (Interrupts says    *)
(* which handlers return).                                                 *)
after_call ==
    [r \in Regs |-> IF r \in {"eax", "ecx", "edx", "gs"} THEN <<"handler", r>> ELSE regs[r]]

handler ==
    /\ cpu = "handler" /\ vec # 128
    /\ regs' = after_call
    /\ cpu' = IF vec \in Exceptions THEN "halted" ELSE "intr_exit"
    /\ UNCHANGED <<stack, vec, expected>>

(* syscall_handler: the result replaces the saved eax, at [esp + 8 * 4].   *)
(* The faulty variant takes the arguments to be on the stack still.        *)
eax_slot_late == 1 + 8 + 3

eax_slot == 1 + 8

syscall_handler ==
    /\ cpu = "handler" /\ vec = 128
    /\ regs' = after_call
    /\ stack' = [stack EXCEPT ![eax_slot] = <<"handler", "eax">>]
    /\ expected' = [expected EXCEPT !["eax"] = <<"handler", "eax">>]
    /\ cpu' = "intr_exit"
    /\ UNCHANGED vec

(* intr_exit: the vector, popad, the segments, the error code, iretd.  The *)
(* faulty variant takes the segments in the order they were pushed.        *)
popped_segments_swapped == [gs |-> stack[13], fs |-> stack[12], es |-> stack[11], ds |-> stack[10]]

popped_segments == [gs |-> stack[10], fs |-> stack[11], es |-> stack[12], ds |-> stack[13]]

popad == [edi |-> stack[2], esi |-> stack[3], ebp |-> stack[4], ebx |-> stack[6],
          edx |-> stack[7], ecx |-> stack[8], eax |-> stack[9]]

iretd == [eip |-> stack[15], cs |-> stack[16], eflags |-> stack[17]]

iretd_outer == IF user_mode(iretd) THEN [esp |-> stack[18], ss |-> stack[19]]
               ELSE [esp |-> regs["esp"], ss |-> regs["ss"]]

intr_exit ==
    /\ cpu = "intr_exit"
    /\ regs' = [r \in Regs |->
                  IF r \in General THEN popad[r]
                  ELSE IF r \in Segment THEN popped_segments[r]
                  ELSE IF r \in {"esp", "ss"} THEN iretd_outer[r]
                  ELSE iretd[r]]
    /\ stack' = SubSeq(stack, IF user_mode(iretd) THEN 20 ELSE 18, Len(stack))
    /\ cpu' = "running"
    /\ UNCHANGED <<vec, expected>>

-----------------------------------------------------------------------------
(* struct intr_stack, and what start_process puts into it before it jumps  *)
(* to intr_exit.  vec_no and err_code are not set.                         *)
intr_stack == <<"vec_no", "edi", "esi", "ebp", "esp_dummy", "ebx", "edx", "ecx", "eax",
                "gs", "fs", "es", "ds", "err_code", "eip", "cs", "eflags", "esp", "ss">>

proc_stack(field) ==
    CASE field \in General \cup {"gs"}     -> <<"zero">>
      [] field \in {"ds", "es", "fs"}      -> <<"SELECTOR_U_DATA">>
      [] field = "eip"                     -> <<"function">>
      [] field = "cs"                      -> <<"SELECTOR_U_CODE">>
      [] field = "eflags"                  -> <<"IF_1">>
      [] field = "esp"                     -> <<"USER_STACK3">>
      [] field = "ss"                      -> <<"SELECTOR_U_DATA">>
      [] OTHER                             -> <<"unset">>

start_process ==
    /\ cpu = "running" /\ ~user_mode(regs)
    /\ stack' = [k \in DOMAIN intr_stack |-> proc_stack(intr_stack[k])]
    /\ expected' = [r \in Regs |-> proc_stack(r)]
    /\ cpu' = "intr_exit"
    /\ UNCHANGED <<regs, vec>>

EntryNext ==
    \/ \E v \in Raised : interrupt(v)
    \/ entry \/ handler \/ syscall_handler \/ intr_exit \/ start_process

EntrySpec == EntryInit /\ [][EntryNext]_entry_vars

-----------------------------------------------------------------------------
(* Whoever was interrupted goes on with its own registers, and a system    *)
(* call changes eax only; a process starts with what start_process wrote;  *)
(* and the kernel stack is as empty as before.                             *)
ContextRestored ==
    cpu = "running" => regs = expected /\ stack = <<>>

(* In every handler the frame is a struct intr_stack, whether or not the   *)
(* processor pushed an error code.                                         *)
FrameIsIntrStack ==
    cpu = "handler" =>
        \A k \in 1 .. Len(stack) :
            intr_stack[k] \in Regs => stack[k] = expected[intr_stack[k]]

(* The frame of every entry is what the handlers take it for and what      *)
(* intr_exit gives back.                                                   *)
EntryInv == ContextRestored /\ FrameIsIntrStack
=============================================================================
