------------------------------ MODULE SwitchTo ------------------------------
(***************************************************************************)
(* The context switch of thread/switch.S, as schedule() calls it for       *)
(* intr_timer_handler, thread_yield and thread_block.  A context is the    *)
(* stack top at which a task was switched out, numbered by how often that  *)
(* has happened to the task; 0 is the thread_stack thread_create builds.   *)
(*                                                                         *)
(* switch_to saves esp through eax = [ebp + 20], where ebp is still        *)
(* schedule()'s frame pointer.  schedule() has no argument, so this is a   *)
(* word of the frame of schedule()'s caller, at its ebp - 12: compiled     *)
(* without optimisation, as the makefile does, that is cur_thread in       *)
(* intr_timer_handler and cur in thread_yield, but old_status in           *)
(* thread_block.                                                           *)
(***************************************************************************)
EXTENDS Naturals, Sequences, SequencesExt

CONSTANTS
    Threads,
    MainThread,
    MaxSwitches     \* bound: how often a task is switched out

VARIABLES
    cur,          \* the task whose stack esp points into
    ready_list,
    blocked,      \* the tasks that wait to be unblocked
    self_kstack,  \* task_struct.self_kstack, the first word of the PCB
    context,      \* where each task was last switched out
    resumed       \* the context cur was switched in with

vars == <<cur, ready_list, blocked, self_kstack, context, resumed>>

(* main() runs, the tasks it has started are ready.                        *)
Init ==
    /\ cur = MainThread
    /\ ready_list = SetToSeq(Threads \ {MainThread})
    /\ blocked = {}
    /\ self_kstack = [t \in Threads |-> 0]
    /\ context = [t \in Threads |-> 0]
    /\ resumed = 0

Callers == {"intr_timer_handler", "thread_yield", "thread_block"}

(* What eax points to after mov eax,[ebp + 20].                            *)
word_at_ebp_20(caller) ==
    IF caller = "thread_block" THEN "old_status" ELSE "cur"

(* mov [eax],esp: only through cur does it reach cur->self_kstack.         *)
save_esp(caller) ==
    self_kstack' = IF word_at_ebp_20(caller) = "cur"
                   THEN [self_kstack EXCEPT ![cur] = context'[cur]]
                   ELSE self_kstack

(* The four pushes, the save, and mov esp,[next], the four pops and ret.   *)
switch_to(caller, next) ==
    /\ context' = [context EXCEPT ![cur] = @ + 1]
    /\ save_esp(caller)
    /\ cur' = next
    /\ resumed' = self_kstack'[next]

(* schedule(), as far as it chooses the next task.                         *)
schedule(caller) ==
    LET stays == caller # "thread_block"
        rq    == IF stays THEN Append(ready_list, cur) ELSE ready_list
    IN  /\ context[cur] < MaxSwitches
        /\ rq # <<>>
        /\ switch_to(caller, Head(rq))
        /\ ready_list' = Tail(rq)
        /\ blocked' = IF stays THEN blocked ELSE blocked \cup {cur}

thread_unblock(t) ==
    /\ t \in blocked
    /\ blocked' = blocked \ {t}
    /\ ready_list' = <<t>> \o ready_list
    /\ UNCHANGED <<cur, self_kstack, context, resumed>>

Next ==
    \/ \E caller \in Callers : schedule(caller)
    \/ \E t \in Threads : thread_unblock(t)

Spec == Init /\ [][Next]_vars

-----------------------------------------------------------------------------
(* switch.S: a task that is switched in goes on where it was switched out. *)
ResumesWhereItStopped == resumed = context[cur]
=============================================================================
