------------------------------- MODULE Spawn -------------------------------
(***************************************************************************)
(* Creating tasks: thread_start (thread/thread.c) and process_execute      *)
(* (userprog/process.c), with allocate_pid, the two lists a task is linked *)
(* into, at the level of their pointers, and what schedule() activates for *)
(* the task it switches to: the page directory and the TSS's esp0          *)
(* (userprog/process.c, userprog/tss.c).                                   *)
(*                                                                         *)
(* One processor.  After main() has enabled interrupts the clock may       *)
(* switch tasks between any two actions; what runs with interrupts off is  *)
(* one action.  A clock interrupt that only counts is left out here.  The  *)
(* pages of the kernel pool are counted: they are never given back.        *)
(***************************************************************************)
EXTENDS List

CONSTANTS
    MaxTasks,     \* bound: the tasks created after main
    Creators,     \* the tasks that create others
    Kinds,        \* what they create: "thread", "process"
    Pages,        \* pages of the kernel pool
    ThreadsLater  \* whether thread_start is called after the boot, too

(* task_structs in the order of their creation; 0 is main_thread.          *)
Tasks == 0 .. MaxTasks

ASSUME SpawnAssumption ==
    /\ {MaxTasks, Pages} \subseteq Nat
    /\ Creators \subseteq Tasks
    /\ Kinds \subseteq {"thread", "process"}
    /\ ThreadsLater \in BOOLEAN

VARIABLES
    h,            \* the links of all list_elems
    cur, intr,    \* running_thread(), the IF bit
    status, kind, \* of each task
    pid, pgdir,   \* task_struct.pid (0: none yet), whether it has a pgdir
    next_pid, pid_lock,   \* allocate_pid's counter, its semaphore's value
    pages,        \* free pages of the kernel pool
    created,      \* how many task_structs have been allocated
    pc, new, walk,\* each task's next statement, the task it creates, and
                  \* elem_find's elem
    cr3, esp0,    \* the task whose pgdir is active (0: the kernel's), tss.esp0
    console,      \* console_lock: its semaphore's value, holder, repeat count
    older,        \* history: the tasks that had their pid when this one asked
    panic

list_vars == <<h, status>>
new_vars == <<kind, pid, pgdir, created, pages, older>>
pid_vars == <<next_pid, pid_lock>>
cpu_vars == <<cur, cr3, esp0, console>>
vars == <<list_vars, new_vars, pid_vars, cpu_vars, intr, pc, new, walk, panic>>

Lists == {"ready", "all", "pid_lock", "semaphore"}
WaitLists == {"pid_lock", "semaphore"}

general_tag(t) == <<"general_tag", t>>
all_list_tag(t) == <<"all_list_tag", t>>

task_of(tag) == tag[2]

(* NULL is the address of no task_struct and of no list_elem.              *)
ASSUME NullAssumption ==
    /\ NULL \notin Tasks
    /\ \A l \in Lists : NULL # head(l) /\ NULL # tail(l)
    /\ \A t \in Tasks : NULL # general_tag(t) /\ NULL # all_list_tag(t)

goto(label) == pc' = [pc EXCEPT ![cur] = label]

at(label) == panic = "none" /\ pc[cur] = label

(* console_init.                                                           *)
unlocked == [value |-> 1, holder |-> NULL, repeat_nr |-> 0]

-----------------------------------------------------------------------------
(* thread_init: the lists are empty, the main thread is in the list of all *)
(* tasks, has pid 1 and runs with interrupts off.                          *)
thread_init ==
    LET h0 == no_links(Lists, {general_tag(t) : t \in Tasks} \cup {all_list_tag(t) : t \in Tasks})
        h1 == list_init(list_init(h0, "ready"), "all")
        h2 == list_init(list_init(h1, "pid_lock"), "semaphore")
    IN  h = list_append(h2, "all", all_list_tag(0))

Init ==
    /\ thread_init
    /\ cur = 0 /\ intr = FALSE
    /\ status = [t \in Tasks |-> IF t = 0 THEN "TASK_RUNNING" ELSE "none"]
    /\ kind = [t \in Tasks |-> "thread"]
    /\ pid = [t \in Tasks |-> IF t = 0 THEN 1 ELSE 0]
    /\ pgdir = [t \in Tasks |-> FALSE]
    /\ next_pid = 1 /\ pid_lock = 1
    /\ pages = Pages /\ created = 0
    /\ pc = [t \in Tasks |-> "run"]
    /\ new = [t \in Tasks |-> NULL]
    /\ walk = [t \in Tasks |-> NULL]
    /\ cr3 = 0 /\ esp0 = NULL
    /\ console = unlocked
    /\ older = [t \in Tasks |-> {}]
    /\ panic = "none"

(* A failed ASSERT or a PANIC.                                             *)
panic_spin(reason) ==
    /\ panic' = reason
    /\ UNCHANGED <<list_vars, new_vars, pid_vars, cpu_vars, intr, pc, new, walk>>

-----------------------------------------------------------------------------
(* process_active: cr3 is always set, esp0 for a process only; the faulty  *)
(* variant sets it for nobody.                                             *)
process_active_cr3(t) ==
    /\ cr3' = IF pgdir[t] THEN t ELSE 0
    /\ UNCHANGED esp0

process_active(t) ==
    /\ cr3' = IF pgdir[t] THEN t ELSE 0
    /\ esp0' = IF pgdir[t] THEN t ELSE esp0

(* schedule() prints, and so takes console_lock and releases it again (as  *)
(* in Thread.tla).  It cannot wait for the lock, because it would be called*)
(* again; and if cur was about to count its own acquisition, the nested    *)
(* release gives the lock up.                                              *)
printk_returns ==
    \/ console.value = 1 /\ console.repeat_nr = 0
    \/ console.holder = cur

printk ==
    console' = IF console.holder = cur /\ console.repeat_nr = 0 THEN unlocked ELSE console

(* The second half of schedule(): the first ready task of the links h1 is  *)
(* switched to; st is what the first half has made of status.  There is no *)
(* idle thread to unblock if nobody is ready.                              *)
switch_to_first(h1, st) ==
    \E next \in {task_of(list_first(h1, "ready"))} :
        /\ h' = list_pop(h1, "ready")
        /\ status' = [st EXCEPT ![next] = "TASK_RUNNING"]
        /\ cur' = next
        /\ process_active(next)
        /\ printk

(* The running task goes behind the ready ones (faulty: before them).      *)
requeue_first == list_push(h, "ready", general_tag(cur))

requeue == list_append(h, "ready", general_tag(cur))

(* The clock takes the processor away, as a yield would.                   *)
clock_interrupt ==
    /\ panic = "none"
    /\ intr
    /\ IF elem_find(h, "ready", general_tag(cur))
       THEN panic_spin("ready_list")
       ELSE IF ~printk_returns THEN panic_spin("console_lock")
       ELSE /\ switch_to_first(requeue,
                               [status EXCEPT ![cur] = "TASK_READY"])
            /\ UNCHANGED <<new_vars, pid_vars, intr, pc, new, walk, panic>>

(* sema_down finds 0: cur joins the waiters and blocks.                    *)
sema_down_blocks(l) ==
    IF list_empty(h, "ready") THEN panic_spin("idle_thread")
    ELSE IF ~printk_returns THEN panic_spin("console_lock")
    ELSE /\ switch_to_first(list_append(h, l, general_tag(cur)),
                            [status EXCEPT ![cur] = "TASK_BLOCKED"])
         /\ UNCHANGED <<new_vars, pid_vars, intr, pc, new, walk, panic>>

(* thread_unblock: t goes to the front of the ready list (faulty: behind). *)
unblock_last(h1, t) == list_append(h1, "ready", general_tag(t))

thread_unblock(h1, t) == list_push(h1, "ready", general_tag(t))

(* sema_up: the first waiter is unblocked.                                 *)
wake_first(l) ==
    IF list_empty(h, l) THEN UNCHANGED list_vars
    ELSE \E t \in {task_of(list_first(h, l))} :
           /\ h' = thread_unblock(list_pop(h, l), t)
           /\ status' = [status EXCEPT ![t] = "TASK_READY"]

(* A task's own work: it waits for a semaphore, or ups it.  main() ends in *)
(* while(1).                                                               *)
wait ==
    /\ at("run") /\ intr
    /\ cur # 0
    /\ sema_down_blocks("semaphore")

signal ==
    /\ at("run") /\ intr
    /\ ~list_empty(h, "semaphore")
    /\ wake_first("semaphore")
    /\ UNCHANGED <<new_vars, pid_vars, cpu_vars, intr, pc, new, walk, panic>>

(* main(): the tasks it wanted before are created.                         *)
intr_enable ==
    /\ at("run") /\ ~intr
    /\ intr' = TRUE
    /\ UNCHANGED <<list_vars, new_vars, pid_vars, cpu_vars, pc, new, walk, panic>>

-----------------------------------------------------------------------------
(* thread_start, process_execute: get_kernel_pages(1) for the task_struct, *)
(* and init_thread, whose memset asserts that there is one.                *)
create(k) ==
    /\ at("run")
    /\ cur \in Creators
    /\ created < MaxTasks
    /\ k \in Kinds /\ (k = "thread" /\ intr => ThreadsLater)
    /\ IF pages = 0 THEN panic_spin("memset")
       ELSE /\ created' = created + 1
            /\ pages' = pages - 1
            /\ new' = [new EXCEPT ![cur] = created']
            /\ kind' = [kind EXCEPT ![created'] = k]
            /\ older' = [older EXCEPT ![created'] = {t \in Tasks : pid[t] # 0}]
            /\ goto("allocate_pid")
            /\ UNCHANGED <<list_vars, pid, pgdir, pid_vars, cpu_vars, intr, walk, panic>>

(* allocate_pid: lock_acquire, next_pid++, lock_release ...                *)
lock_acquire ==
    /\ at("allocate_pid")
    /\ IF pid_lock = 0 THEN sema_down_blocks("pid_lock")
       ELSE /\ pid_lock' = 0
            /\ goto("increment")
            /\ UNCHANGED <<list_vars, new_vars, next_pid, cpu_vars, intr, new, walk, panic>>

increment ==
    /\ at("increment")
    /\ next_pid' = next_pid + 1
    /\ goto("lock_release")
    /\ UNCHANGED <<list_vars, new_vars, pid_lock, cpu_vars, intr, new, walk, panic>>

lock_release ==
    /\ at("lock_release")
    /\ pid_lock' = 1
    /\ wake_first("pid_lock")
    /\ goto("return_pid")
    /\ UNCHANGED <<new_vars, next_pid, cpu_vars, intr, new, walk, panic>>

(* ... and return next_pid, which is read only now.  The faulty variant    *)
(* returns what it was before.                                             *)
returned_pid_before == next_pid - 1

returned_pid == next_pid

(* The rest of init_thread, and thread_create.                             *)
init_thread ==
    /\ at("return_pid")
    /\ pid' = [pid EXCEPT ![new[cur]] = returned_pid]
    /\ status' = [status EXCEPT ![new[cur]] = "TASK_READY"]
    /\ pc' = [pc EXCEPT ![cur] = IF kind[new[cur]] = "process"
                                 THEN "create_user_vaddr_bitmap" ELSE "elem_find",
                        ![new[cur]] = IF kind[new[cur]] = "process"
                                      THEN "start_process" ELSE "run"]
    /\ walk' = [walk EXCEPT ![cur] = list_first(h, "ready")]
    /\ UNCHANGED <<h, kind, pgdir, created, pages, older, pid_vars, cpu_vars,
                   intr, new, panic>>

(* process_execute: the pages of the bitmap (one, here), which bitmap_init *)
(* clears without a test for NULL.                                         *)
create_user_vaddr_bitmap ==
    /\ at("create_user_vaddr_bitmap")
    /\ IF pages = 0 THEN panic_spin("bitmap_init")
       ELSE /\ pages' = pages - 1
            /\ goto("create_page_dir")
            /\ UNCHANGED <<list_vars, kind, pid, pgdir, created, older, pid_vars,
                           cpu_vars, intr, new, walk, panic>>

(* get_kernel_pages(1) has no page left to give (faulty: not noticed).     *)
pages_left_unchecked == pages - 1

pages_left == IF pages > 0 THEN pages - 1 ELSE 0

(* create_page_dir's result is stored in the task, NULL if there was no    *)
(* page, which it reports (faulty: it is never stored).                    *)
stored_pgdir_never == FALSE

stored_pgdir == pages > 0

create_page_dir ==
    /\ at("create_page_dir")
    /\ pgdir' = [pgdir EXCEPT ![new[cur]] = stored_pgdir]
    /\ pages' = pages_left
    /\ goto(IF pages > 0 THEN "enqueue" ELSE "sema_down")
    /\ UNCHANGED <<list_vars, kind, pid, created, older, pid_vars, cpu_vars,
                   intr, new, walk, panic>>

(* One access to console_lock by console_put_str, unless an ASSERT fails.  *)
console_step(label, fails, lock, next) ==
    /\ at(label)
    /\ IF fails THEN panic_spin("console_lock")
       ELSE /\ console' = lock
            /\ goto(next)
            /\ UNCHANGED <<list_vars, new_vars, pid_vars, cur, cr3, esp0, intr, new,
                           walk, panic>>

(* The message, with interrupts on: lock_acquire (whoever waits blocks, and*)
(* schedule() prints), the characters, lock_release.  A repeated           *)
(* acquisition is schedule()'s, and over when this task goes on.           *)
console_put_str ==
    \/ console_step("sema_down", console.value = 0, [console EXCEPT !.value = 0], "set_holder")
    \/ console_step("set_holder", FALSE, [console EXCEPT !.holder = cur], "set_repeat")
    \/ console_step("set_repeat", console.repeat_nr # 0,
                    [console EXCEPT !.repeat_nr = 1], "put_str")
    \/ console_step("put_str", console.holder # cur \/ console.repeat_nr # 1,
                    [console EXCEPT !.holder = NULL], "clear_repeat")
    \/ console_step("clear_repeat", FALSE, [console EXCEPT !.repeat_nr = 0], "sema_up")
    \/ console_step("sema_up", console.value # 0, [console EXCEPT !.value = 1], "enqueue")

(* Both lists at once, with interrupts off (faulty: only the ready list).  *)
linked_ready(t) == list_append(h, "ready", general_tag(t))

linked(t) == list_append(list_append(h, "ready", general_tag(t)), "all", all_list_tag(t))

enqueue ==
    LET t == new[cur]
    IN  /\ at("enqueue")
        /\ IF elem_find(h, "ready", general_tag(t)) \/ elem_find(h, "all", all_list_tag(t))
           THEN panic_spin("enqueue")
           ELSE /\ h' = linked(t)
                /\ new' = [new EXCEPT ![cur] = NULL]
                /\ goto("run")
                /\ UNCHANGED <<status, new_vars, pid_vars, cpu_vars, intr, walk, panic>>

(* thread_start: a turn of elem_find's loop over the ready list.  A walk   *)
(* that has left the list finds NULL instead of the tail.                  *)
elem_find_turn ==
    /\ at("elem_find")
    /\ walk[cur] # NULL
    /\ IF walk[cur] = general_tag(new[cur]) THEN panic_spin("ready_list")
       ELSE /\ IF walk[cur] = tail("ready")
               THEN goto("append_ready") /\ UNCHANGED walk
               ELSE walk' = [walk EXCEPT ![cur] = h.next[@]] /\ UNCHANGED pc
            /\ UNCHANGED <<list_vars, new_vars, pid_vars, cpu_vars, intr, new, panic>>

append_ready ==
    /\ at("append_ready")
    /\ h' = list_append(h, "ready", general_tag(new[cur]))
    /\ walk' = [walk EXCEPT ![cur] = NULL]
    /\ goto("append_all")
    /\ UNCHANGED <<status, new_vars, pid_vars, cpu_vars, intr, new, panic>>

(* Nobody leaves the list of all tasks, so the walk through it cannot fail.*)
append_all ==
    /\ at("append_all")
    /\ IF elem_find(h, "all", all_list_tag(new[cur])) THEN panic_spin("all_list")
       ELSE /\ h' = list_append(h, "all", all_list_tag(new[cur]))
            /\ new' = [new EXCEPT ![cur] = NULL]
            /\ goto("run")
            /\ UNCHANGED <<status, new_vars, pid_vars, cpu_vars, intr, walk, panic>>

(* A process runs for the first time: get_a_page refuses a task without    *)
(* a page directory.  Then it goes to privilege level 3.                   *)
start_process ==
    /\ at("start_process")
    /\ IF ~pgdir[cur] THEN panic_spin("get_a_page")
       ELSE /\ goto("user")
            /\ UNCHANGED <<list_vars, new_vars, pid_vars, cpu_vars, intr, new, walk, panic>>

creation_step ==
    \/ lock_acquire \/ increment \/ lock_release \/ init_thread
    \/ create_user_vaddr_bitmap \/ create_page_dir \/ console_put_str \/ enqueue
    \/ elem_find_turn \/ append_ready \/ append_all \/ start_process

Next ==
    \/ \E k \in {"thread", "process"} : create(k)
    \/ creation_step
    \/ intr_enable
    \/ wait
    \/ signal
    \/ clock_interrupt

Spec == Init /\ [][Next]_vars

(* The processor executes what it has begun, main() gets to the point      *)
(* where it enables interrupts, and the clock's requests stay pending.     *)
FairSpec ==
    /\ Spec
    /\ WF_vars(creation_step)
    /\ WF_vars(intr_enable)
    /\ SF_vars(clock_interrupt)

-----------------------------------------------------------------------------
(* Type invariant.                                                         *)
TypeOK ==
    /\ cur \in Tasks /\ cr3 \in Tasks /\ esp0 \in Tasks \cup {NULL}
    /\ status \in [Tasks -> {"none", "TASK_RUNNING", "TASK_READY", "TASK_BLOCKED"}]
    /\ pid \in [Tasks -> Nat] /\ next_pid \in Nat
    /\ pgdir \in [Tasks -> BOOLEAN]
    /\ created \in 0 .. MaxTasks /\ pages \in 0 .. Pages
    /\ new \in [Tasks -> Tasks \cup {NULL}]
    /\ console \in [value : {0, 1}, holder : Tasks \cup {NULL}, repeat_nr : {0, 1}]

(* The tasks of a list.                                                    *)
tasks_of(l) == [i \in 1 .. list_len(h, l) |-> task_of(elements(h, l)[i])]

(* No list is ever broken, whichever tasks are preempted while they link   *)
(* elements: from its head one reaches its tail, and prev undoes next.     *)
ListsIntact == \A l \in Lists : Intact(h, l)

(* thread.h: a task has a general_tag and an all_list_tag because it is in *)
(* two lists; the general_tag, in one at a time.  A task whose creation is *)
(* complete is in the list of all tasks once, and it is either running,    *)
(* ready or waiting: none is lost and none is linked twice.                *)
EveryTaskListed ==
    \A t \in Tasks :
        LET complete == pid[t] # 0 /\ \A c \in Tasks : new[c] # t
            places   == {p \in (Lists \ {"all"}) \X (1 .. MaxTasks + 1) :
                           p[2] <= list_len(h, p[1]) /\ tasks_of(p[1])[p[2]] = t}
        IN  complete =>
              /\ Cardinality({i \in 1 .. list_len(h, "all") : tasks_of("all")[i] = t}) = 1
              /\ Cardinality(places) = IF t = cur THEN 0 ELSE 1

(* The pointers implement queues (TaskQueues).                             *)
Abstract == INSTANCE TaskQueues WITH
    Task <- Tasks, First <- 0, Queue <- WaitLists,
    ready <- tasks_of("ready"),
    waiting <- [q \in WaitLists |-> tasks_of(q)],
    all <- tasks_of("all"),
    running <- cur

QueueRefinement == Abstract!QueuesSpec

(* thread.c, allocate_pid: pids are unique.  They are as long as two tasks *)
(* are not created at the same time: a task whose creation began when      *)
(* another one already had its pid gets a larger one.                      *)
PidsGrow ==
    \A t \in Tasks : pid[t] # 0 => \A u \in older[t] : pid[u] < pid[t]

(* thread.c, allocate_pid: "the pid of a task must be unique".             *)
PidsUnique ==
    \A t, u \in Tasks : pid[t] # 0 /\ pid[t] = pid[u] => t = u

(* A user process always runs in its own page directory, and the next      *)
(* interrupt finds its own kernel stack in the TSS, although kernel        *)
(* threads, which set no esp0, run in between.                             *)
OwnSpaceAndStack ==
    /\ pc[cur] = "user" => cr3 = cur /\ esp0 = cur
    /\ kind[cur] = "thread" => cr3 = 0

(* Creating and scheduling tasks stops the machine only when a page could  *)
(* not be had.                                                             *)
PanicsOnlyWithoutPages == panic # "none" => pages = 0

(* process.c, create_page_dir: "if the request fails, report it".  The     *)
(* report takes console_lock with interrupts on; a switch then stops the   *)
(* machine.                                                                *)
FailureIsReported == panic # "console_lock"

(* process.c, create_page_dir: "returns the address of the page directory, *)
(* -1 if it fails".  It returns NULL, process_execute stores it untested   *)
(* and starts a process without a page directory.                          *)
ProcessesHaveDirectories ==
    \A t \in Tasks :
        kind[t] = "process" /\ pid[t] # 0 /\ (\A c \in Tasks : new[c] # t) => pgdir[t]

(* elem_find, called with interrupts on, stays on the list it walks.       *)
WalkStaysOnList == \A t \in Tasks : pc[t] = "elem_find" => walk[t] # NULL

(* Every task that is ready, a new one in particular, gets the processor.  *)
NewTaskRuns ==
    \A t \in Tasks :
        (t \in {tasks_of("ready")[i] : i \in 1 .. list_len(h, "ready")})
            ~> (cur = t \/ panic # "none")

(* thread_start and process_execute: whatever is preempted while tasks are *)
(* created, lists stay linked, every task is in its place, and only the    *)
(* lack of a page stops the machine.                                       *)
TasksInv == TypeOK /\ ListsIntact /\ EveryTaskListed /\ PanicsOnlyWithoutPages
=============================================================================
