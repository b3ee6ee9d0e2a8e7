----------------------------- MODULE TaskQueues -----------------------------
(***************************************************************************)
(* What thread.c's lists promise, as the rest of the kernel relies on it:  *)
(* the ready tasks and the tasks that wait are queues, the list of all     *)
(* tasks only grows, and one task runs.                                    *)
(***************************************************************************)
EXTENDS Naturals, Sequences

CONSTANTS Task, First, Queue   \* the tasks, the first one, the wait queues

VARIABLES ready, waiting, all, running

queues == <<ready, waiting, all, running>>

QueuesInit ==
    /\ ready = <<>>
    /\ waiting = [q \in Queue |-> <<>>]
    /\ all = <<First>>
    /\ running = First

In(q, t) == \E i \in DOMAIN q : q[i] = t

(* The front of the queue q runs next, and q without it stays ready.       *)
Dispatch(q) ==
    /\ q # <<>>
    /\ running' = Head(q)
    /\ ready' = Tail(q)

(* A new task joins the ready tasks, all tasks, or both at once.           *)
MakeReady(t) ==
    /\ t # running /\ ~In(ready, t) /\ \A q \in Queue : ~In(waiting[q], t)
    /\ ready' = Append(ready, t)
    /\ \/ all' = all
       \/ ~In(all, t) /\ all' = Append(all, t)
    /\ UNCHANGED <<waiting, running>>

Register(t) ==
    /\ ~In(all, t)
    /\ all' = Append(all, t)
    /\ UNCHANGED <<ready, waiting, running>>

(* The running task goes behind the ready ones.                            *)
Preempt == Dispatch(Append(ready, running)) /\ UNCHANGED <<waiting, all>>

(* It waits in q.                                                          *)
Wait(q) ==
    /\ waiting' = [waiting EXCEPT ![q] = Append(@, running)]
    /\ Dispatch(ready)
    /\ UNCHANGED all

(* The task that has waited longest in q goes before the ready ones.       *)
Wake(q) ==
    /\ waiting[q] # <<>>
    /\ ready' = <<Head(waiting[q])>> \o ready
    /\ waiting' = [waiting EXCEPT ![q] = Tail(@)]
    /\ UNCHANGED <<all, running>>

QueuesNext ==
    \/ \E t \in Task : MakeReady(t) \/ Register(t)
    \/ Preempt
    \/ \E q \in Queue : Wait(q) \/ Wake(q)

QueuesSpec == QueuesInit /\ [][QueuesNext]_queues
=============================================================================
