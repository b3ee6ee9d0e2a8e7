# Flying_kernel in TLA+

A TLA+ verification development of Flying_kernel, a small 32-bit x86 kernel in C
(preemptive kernel threads, locks, user processes, a keyboard driver, a two-level
memory allocator, the beginning of an IDE driver). TLC checks the modules on small
instances; TLAPS proves the central ones for every value of the constants: the scheduler,
the locks and the interrupt flag for any number of tasks and locks, the character queue and
the keyboard for any buffer and keys, the IDE channel for any tasks and sectors, the page
allocator and the heap for any memory, the page tables for any number of frames, the creation of
tasks on linked lists for any number of tasks, the layout of the pools for any answer of the BIOS,
the entry code and the descriptors, the partition scan for disks with any number of tables, the text and
the cursor on a screen of any size, and the numbers printed.

Contents: 1 inventory of the system, 2 modules, 3 runs, 4 fairness, 5 proofs,
6 disagreements between code and comments, 7 limits of the models, 8 plan.

## 1. Inventory

One processor, no memory protection between kernel threads; all concurrency comes
from interrupts. Two facts shape every model:

* code that runs with IF clear is interleaved with nothing until it calls
  `schedule()`;
* code that runs with IF set may be preempted between any two instructions.

| Part (source) | State | Operations | What makes it correct |
|---|---|---|---|
| Scheduler (`thread/thread.c`, `device/timer.c`) | `thread_ready_list`, `status`, `ticks`, the running task | `thread_start`, `schedule`, `thread_block`, `thread_unblock`, `thread_yield`, clock handler | one RUNNING task, a task on at most one list, every ready task runs again |
| Lists (`lib/kernel/list.c`) | `prev` and `next` of every tag | `list_append`, `list_push`, `list_pop`, `list_remove`, `elem_find` | the links are a queue, whoever is preempted |
| Task creation (`thread/thread.c`, `userprog/process.c`) | `next_pid`, `pid_lock`, `thread_all_list`, pages of the kernel | `thread_start`, `process_execute`, `allocate_pid`, `create_page_dir`, `process_active` | no task is lost, a process has its own page directory and kernel stack |
| Locks (`thread/sync.c`) | semaphore value, waiters, holder, repeat count | `sema_down/up`, `lock_acquire/release` | mutual exclusion, no lost wakeup |
| Context switch (`thread/switch.S`) | `self_kstack` of each task | `switch_to` | a task is resumed where it stopped |
| Interrupt flag and controller (`kernel/interrupt.c`) | IF, `idt_table`, the 8259A's masks and requests | `idt_init`, `register_handler`, `intr_enable`, `intr_set_status` | a task goes on with the IF bit it had; a request finds its handler |
| Entry code (`kernel/kernel.S`) | the frame on the kernel stack | `VECTOR`, `syscall_handler`, `intr_exit`, `start_process` | the frame is an `intr_stack`, the interrupted code finds its registers |
| Segments and gates (`boot/loader.S`, `kernel/global.h`, `userprog/tss.c`) | GDT, IDT, segment registers, TSS | the loader, `tss_init`, loading of selectors | every selector that is loaded is valid at that time |
| System calls, console (`userprog/syscall-init.c`, `device/console.c`) | `console_lock` | `int 0x80`, `printk` | `printk` inside `schedule()` never blocks |
| Screen (`lib/kernel/print.S`) | video memory, the cursor's registers | `put_char`, `put_str`, `put_char_color` | the cursor stays on the screen, rows scroll as on a terminal |
| Formatting (`lib/stdio.c`) | format, arguments, buffer | `vsprintf`, `itoa`, `put_int` | what is printed reads back as what was given |
| Character queue (`device/ioqueue.c`) | ring, head, tail, one sleeping producer and consumer, a lock | `ioq_getchar`, `ioq_putchar` | FIFO; whoever sleeps can be woken |
| Keyboard (`device/keyboard.c`) | modifier flags, `ext_scancode`, `kbd_buf` | handler, once per byte | flags follow the keys, no character stays unread |
| Bitmaps (`lib/kernel/bitmap.c`) | bits | `bitmap_scan`, `bitmap_set` | the first run is found, or -1 |
| Memory detection and pools (`boot/loader.S`, `kernel/memory.c`) | the BIOS's answers, the two pools and their bitmaps | `int 0x15`, `mem_pool_init` | the pools are disjoint and in memory, few pages are lost |
| Page tables (`boot/loader.S`, `kernel/memory.c`, `userprog/process.c`) | directories and tables in frames, `cr3` | `setup_page`, `pte_ptr`, `page_table_add`, `create_page_dir` | one kernel half for all, private user halves |
| Page allocator (`kernel/memory.c`) | two frame pools, virtual bitmaps, TLB | `malloc_pages`, `mfree_page`, `get_a_page` | a frame has one owner, nothing is lost |
| Heap (`kernel/memory.c`) | arenas, block descriptors, free lists | `sys_malloc`, `sys_free` | live memory is disjoint, all comes back |
| IDE (`device/ide.c`) | `expecting_intr`, `disk_done`, lock of a channel | `ide_init`, `identify_disk`, `ide_read`, `ide_write`, `busy_wait`, `intr_hd_handler` | every interrupt is counted once, for its own command; waits end |
| Partition scan (`device/ide.c`) | counters, arrays, partition list | `partition_scan`, `ide_init` | each partition recorded once, arrays in bounds, buffers freed |
| Timer (`device/timer.c`) | `ticks`, which wraps around | `timer_init`, `mtime_sleep` | a sleep is long enough and ends |
| Boot (`kernel/main.c`, `kernel/init.c`) | - | `init_all`, thread creation, `intr_enable` | tasks exist before interrupts are enabled |

How the parts interact: services are reached through `int 0x80` or called directly
by a kernel thread; they take a lock, whose semaphore blocks through the scheduler;
`schedule()` calls `printk`, which takes `console_lock`, so the scheduler also
depends on the locks. `create_page_dir` reports a failure through the same lock, with IF set. Interrupt handlers (clock, keyboard, disk) call
`schedule()`, `ioq_putchar` and `sema_up`. The heap takes pages from the page
allocator, which takes bits from the bitmaps.

Hard to test: preemption between two assignments of `lock_acquire`, the order of
wakeups, a test that is stale when its task finally sleeps, an allocation that
fails half way, an interrupt that comes before its task sleeps, the limits of the
ring, of the pools and of the partition arrays. `PROJECT.json` lists these hazards
line by line, with the property that would notice each.

Not modelled: the loader's disk reads and `kernel_init`'s copy of the ELF segments
(I/O and copying); the text of exception messages and `set_cursor`, which only they
use; `put_str_color`, `put_str`'s loop over `put_char_color`; the byte loops of
`lib/string.c` apart from the page `memset`; the table of system call numbers; the
real-time clock, which `main()` reads once, field by field (a carry between two reads
would go unnoticed), and `CST2UTC`, which nobody calls; file system, shell, fork, exec,
pipe and wait (empty in this commit).

## 2. Modules

| Module | Models | How |
|---|---|---|
| `Thread` | scheduler, lists, clock, `printk` inside `schedule()` | lists are sequences of tasks; an IF-off stretch up to the switch is one action; a failed ASSERT sets `panic` |
| `Sync` | semaphores and locks | `lock_acquire`/`lock_release` are cut at each access to the lock; `sema_down`/`sema_up` run with IF clear and are one step per stretch |
| `KernelThreads` | the composition: boot, tasks, system calls, direct calls, yield, park, clock | a service is lock, body, unlock; a body may take its lock again (`MaxRepeat`) |
| `AbsLock` | what a lock promises | an owner per lock, changed by acquire and release; only the owner is in the critical section |
| `KernelThreadsProofs` | theorems about `KernelThreads` and its refinement of `AbsLock` | section 5 |
| `SwitchTo` | `switch.S` | which word of the caller's frame `[ebp + 20]` is, for each caller of `schedule()` in an unoptimised build, and what is saved through it |
| `IoQueue` | the queue with its lock and its two sleepers | each stretch between blocks is one action |
| `Fifo` | a bounded FIFO, the abstract queue | |
| `Keyboard` | handler and readers, on top of `IoQueue` | one action per byte; keys and the bytes they send are external |
| `Bitmap` | `bitmap_scan`, `bitmap_set` | pure operators on sets of bits, with the three loops of the scan and the one bit it reads behind the end |
| `PageAlloc` | pools, page tables, TLB, process start | a system call is one action; `malloc_pages` and `mfree_page` of kernel threads and `get_a_page`, with IF set, are cut between the scan and the set of a bitmap and between pages; a page table for which there was no frame is the one at address 0, shared by the processes |
| `Heap` | arenas and free lists | byte addresses, one action per call (IF is clear in a system call); pages that a failed `malloc_pages` keeps are `leaked` |
| `List` | the doubly linked lists | pure operators on the `prev` and `next` of every `list_elem` |
| `Spawn` | task creation, and what `schedule()` activates | on `List`'s pointers; cut wherever IF is set, so also between the accesses of `allocate_pid` and of `create_page_dir`'s report to `console_lock` |
| `TaskQueues` | what the lists promise: queues of tasks | the abstract specification of `Spawn`'s pointers |
| `Interrupts` | 8259A, `idt_table`, boot order, `ticks` | variables and actions that `Ide` composes with its own |
| `Ide` | one channel, its tasks, its drive, the clock | the drive is external: BSY shortly after the command, one interrupt per command, perhaps BSY again later, or it hangs |
| `Screen` | `put_char` and the keyboard's echo | a character is read cursor, write, set cursor; with `IfOn` the echo comes between them |
| `Terminal` | a terminal that scrolls, the abstract screen | rows of cells |
| `Pools` | memory detection in the loader, `mem_pool_init` | one action per BIOS call and per area; 32-bit and 16-bit arithmetic, memory in KB |
| `Paging` | page directories and tables | frames are tables of entries; `pte_ptr` and `pde_ptr` go through the last entry, as the processor does |
| `Numerals` | `itoa`, the conversions of `vsprintf`, `put_int` | pure operators from words to sequences of character codes |
| `Format` | `vsprintf` with `Numerals` | one action per turn of the loop |
| `Entry` | `VECTOR`, `syscall_handler`, `intr_exit`, `start_process` | the kernel stack as a sequence of words |
| `Segments` | GDT, gates, selectors | descriptors byte by byte; the processor's checks are external |
| `QueueProofs` | theorems about `IoQueue`, its refinement of `Fifo`, and `Keyboard` | section 5 |
| `IdeProofs`, `PagesProofs`, `HeapProofs`, `PagingProofs` | theorems about `Ide`, `PageAlloc` with `Bitmap`, `Heap` and `Paging` | section 5 |
| `SpawnProofs` | theorems about `List` and `Spawn`, and `Spawn`'s refinement of `TaskQueues` | section 5 |
| `RoutinesProofs` | theorems about `Pools`, `Screen`, `Entry`, `Segments`, `Partition` and `Numerals` | section 5 |
| `Partition` | the recursive scan as a stack of calls | one loop turn per action |

Every `MC...` module gives its component small constants; `MCRoutines` runs the parts
that do not interact with others (`Bitmap`, `Pools`, `Format`, `Entry`, `Segments`), one at a time. A definition called a
faulty variant is a plausible mistake in the definition next to it. No action uses
one: it replaces that definition when a property is tested for whether it would
notice the mistake.

The constants' assumptions are named: `ThreadAssumption`, `MaxRepeatAssumption`,
`SpawnAssumption`, `NullAssumption`, `IoQueueAssumption`, `KeyboardAssumption`, `PageAllocAssumption`,
`PoolsAssumption`, `PagingAssumption`, `InterruptsAssumption`, `IdeAssumption`, `PartitionAssumption`,
`FramesAssumption`, `ScreenAssumption`, `FormatAssumption`, `WordAssumption`, `SegmentsAssumption` and those of `Bitmap` and `Heap`.

## 3. Runs

| Run | Checks | Result |
|---|---|---|
| `kernel` | `MutualExclusion`, `NoPanic`, `SchedulerInv`, `LockInv`, `LockRefinement`, `NoStarvation`, `FreeLockIsTaken` | hold |
| `spawn` | `TasksInv`, `PidsGrow`, `OwnSpaceAndStack`, `QueueRefinement`, `NewTaskRuns` | hold |
| `ioqueue` | `QueueInv`, `FifoRefinement` | hold |
| `keyboard` | `KeyboardInv`, `ModifiersAgree`, `OldestIsRead` | hold |
| `routines` | `ScanSound`, `PoolsSound`, `FewPagesLost`, `OutputRight`, `EntryInv`, `SegmentsInv` | hold |
| `pages` | `PagesInv`, `LockOutlivesOnlyFailure` | hold; `PagesInv` asks for sound tables until the code spoils them (below) |
| `paging` | `KernelHalfShared`, `PtePtrReachesThePte`, `UserHalfPrivate` | hold |
| `heap` | `HeapInv`, `AllComesBack` | hold |
| `ide` | `ChannelInv`, `SleepEnds`, `BusyWaitEnds`, `SleepLongEnough` | hold |
| `partitions` | `AllPartitionsFound`, `ScanInv`, `ScanEnds` | hold within the documented limits |
| `screen` | `CursorOnScreen`, `TerminalRefinement` | hold while `put_char` is not interrupted |
| `switch_to` | `ResumesWhereItStopped` | violated |

The invariants are conjunctions of named parts, each stated and commented in its module.
The right column names the faulty variant that this part notices:

| Invariant | Part | Faulty variant |
|---|---|---|
| `SchedulerInv` | `OneListPerTask` | `wake_without_pop` |
| | `OneRunning` | `switch_in_unmarked` |
| | `NoLostWakeup` | `wake_nobody` |
| `LockInv` | `MutualExclusion` | `held_more_than_once_never` |
| | `InterruptFlagKept` | `intr_set_status_on` |
| | `TypeOK` | `priority_wide` |
| `TasksInv` | `ListsIntact` | `list_remove_half` |
| | `EveryTaskListed` | `linked_ready` |
| | `PanicsOnlyWithoutPages` | `stored_pgdir_never` |
| | `TypeOK` | `pages_left_unchecked` |
| `QueueInv` | `NoAssertFails` | `wakeup_keeps_pointer` |
| | `SleeperRemembered` | `lock_ignored` |
| | `TypeOK` | `next_pos_unwrapped` |
| `KeyboardInv` | `NoAssertFails` | `wakeup_keeps_pointer` |
| | `ReaderAwakeWhenNotEmpty` | `put_silent` |
| `ScanSound` | `ScanFindsFirstRun` | `scan_run_off_by_one` |
| | `ScanOneFailsWhenFull` | `free_bytes_short` |
| `OutputRight` | `PrintedReadsBack` | `itoa_backwards` |
| | `PutIntAgrees` | `full0_not` |
| `EntryInv` | `ContextRestored` | `eax_slot_late` |
| | `FrameIsIntrStack` | `ERROR_CODE_without_GP` |
| `SegmentsInv` | `SegmentsLoad` | `gdt_operand_limit_old`, `video_desc_low` |
| | `OnlyKnownEntries` | `gate_attribute_open` |
| `PagesInv` | `FrameOwnedOnce`, `FirstUserFrameKept` | `palloc_without_set` |
| | `FramesAccounted` | `pfree_nothing` |
| | `BlocksSound` | `vaddr_remove_one_more` |
| | `TypeOK` | `palloc_unchecked` |
| `HeapInv` | `LiveDisjoint` | `arena2block_on_header` |
| | `CntCountsFreeBlocks`, `TypeOK` | `count_block_not` |
| | `NoPanic` | `all_free_early` |
| `ChannelInv` | `NoStaleCompletion` | `clear_expecting_not` |
| | `SleeperIsWoken` | `cmd_half_swapped` |
| | `NoUnhandledInterrupt` | `registers_later` |
| `ScanInv` | `EntriesInBounds` | `record_after_count` |
| | `BuffersGivenBack` | `free_boot_sector_not` |

Bounds, and why they are enough for the cases of interest:

* `kernel`: three tasks and two locks, one of them `console_lock`. A lock can have a
  holder and two waiters, so a woken task can lose the lock to one that comes
  first. Slices last one tick; one task has priority 256, which a `uint8_t` makes 0.
  `MaxRepeat = 2` reaches nested acquisition.
* `ioqueue`: two tasks on each side and three slots (two usable): full, empty, wrap-around
  and a second sleeper on each side occur.
* `keyboard`: a letter, both shift keys (two keys of one status variable), an extended modifier and
  caps lock; two bytes may wait in the controller; the queue fills up.
* `spawn`: three tasks besides main, created by main and by the first of them, which is preempted at every
  step; the kernel pool has six pages, so it runs out while a process is created, and the report of that is
  preempted at each access to `console_lock`. Tasks wait for `pid_lock` and for a semaphore, so elements move
  between three lists.
* `routines`, bitmaps: every content of two bytes of four bits and of the bit behind them, runs
  of up to four bits. The algorithm treats bytes alike, so two (the first and another) suffice.
* `routines`, the rest: machines around the smallest size, at both sides of 16 MB, 64 MB and 258 MB and up to 2 GB, each with
  a BIOS that answers all calls, or refuses one, two or all three; every 8-bit word in every conversion, alone and in pairs;
  every vector from the kernel and from a process; a TSS whose address has four different bytes.
* `paging`: tables of four entries, one for processes, two for the kernel (one full from the start, so that another one is
  used), and the directory itself; two processes and the kernel allocate and free in any directory.
* `pages`: bytes of three bits, three frames in each pool and three pages in each space, page tables of two
  pages, two processes that ask for two pages each, two kernel threads that ask for one page each, with the lock and
  without. Both pools run empty, a request fails half way, a process needs a second page table and may find no
  frame for it, everybody competes for frames. `TlbPages` follows the cached translation of one kernel page.
  The constraint `BeforeCollision` looks at a state after a collision and goes no further: `PagesInv` asks for
  nothing but types there, and `LockOutlivesOnlyFailure` is proved without the constraint.
* `heap`: pages of 64 bytes with three 16-byte blocks or one 32-byte block to an arena, three pages, and
  requests at the boundaries of the block sizes; several arenas of one size, full and empty ones, and
  requests that fail at once or half way occur.
* `ide`: two tasks, commands of two sectors, so that a write takes up to three commands; `ticks` counts modulo 3 and
  the time limit is 3, so both wrap-around and time-out occur; a drive may hang, and spurious interrupts may come on
  the lines 7 and 15. The boot identifies a disk, as `ide_init` does. Because `busy_wait`'s result is inverted that
  PANICs for a drive that stays ready (section 6), so calls start only with a drive that may show BSY again after it was
  ready (`MayFlicker`); this is what the properties are about once the boot is over.
* `partitions`: every disk with 0 to 3 primary and 0 to 8 logical partitions next to a second
  disk, with the real array sizes 4 and 8.
* `screen`: three rows of two cells and one row behind them; characters, line feeds, carriage returns and
  backspaces in any order, so that the screen fills, scrolls and is taken back from.
* `switch_to`: three tasks and three switches, what the shortest failure needs.

`CHECK_DEADLOCK FALSE` stands where the system may really stop: after a panic or a fault
(`PageAlloc`, `Paging`, `Ide`, `Spawn`, `Screen`), when a scan, a boot or all switches are done (`Partition`,
`MCRoutines`, `SwitchTo`), when everybody sleeps in a queue (`IoQueue`), and when all pages have leaked from failed
requests, so that every further one returns NULL (`Heap`).

In `PageAlloc` nothing protects `palloc`'s scan and set against the kernel threads, and a process for
which the kernel pool has no frame gets its page table at address 0, as in the code. Two things
therefore spoil the tables, and both happen in the `pages` run: a `collision`, when a bit is set that a stale scan took for
free or that `bitmap_scan` gave for want of a run, and `TableAtZero`. `PagesInv` says that as long as neither has
happened and the machine runs, every frame and every page has one owner, in the middle of the interleaved operations
too. That the code lets both happen is in section 6 (`FrameOwnedOnce`, `PageTablesFromKernelPool`).

## 4. Fairness

* `KernelThreads!FairSpec`: weak fairness of kernel code, because a processor that
  is not interrupted executes the next statement; strong fairness of the last
  release of a body, because a service is finite and does not take and release its
  lock for ever; strong fairness of the clock, because the 8259A keeps its request
  pending while IF is clear, so it is taken when IF is set again and again. Nothing is
  assumed about tasks outside the kernel: they may compute for ever.
* `Keyboard!KbdSpec`: the handler runs for every byte, and a ready reader gets the
  processor, which is what `NoStarvation` says. Keys need not be pressed.
* `Ide!FairSpec`: the machine boots, the clock ticks, an unmasked request is delivered, a drive that does not
  hang finishes, a task inside the driver goes on when it can. Strong fairness of a sleeper, because it yields and
  runs again and again (`NoStarvation`) and so sees `ticks` at every value before it wraps around. Calls need not happen.
* `Spawn!FairSpec`: weak fairness of the creating code and of `main()`'s `intr_enable`; strong fairness of the
  clock, as in `KernelThreads`. Tasks need not create others, wait or signal.
* `Partition!ScanSpec`: the scan is sequential and goes on.

## 5. Proofs

`KernelThreadsProofs` proves, from `ThreadAssumption` and `MaxRepeatAssumption`
only, so for any sets of tasks and locks, any priorities and any nesting:

* `LockInvariant`: `Spec => []LockInv`;
* `TypeCorrect`: `Spec => []TypeOK`;
* `LocksExclude`: `Spec => []MutualExclusion`;
* `IfBitKept`: `Spec => []InterruptFlagKept`.

`LockInv` is the inductive invariant, `TypeOK /\ CallInv /\ HolderInv /\ FrameInv
/\ InterruptFlagKept /\ MutualExclusion`, and the run `kernel` checks it too. Mutual exclusion is
not inductive alone:

* whether a task owns a lock is read off `pc` and `lk`, and `lock_release` decides by
  the repeat count whether it gives the lock up: `CallInv` ties the count, the lock and
  the return address together;
* `lock_acquire` compares `holder` with the running task: `HolderInv` says that
  `holder` names the owner exactly between the two assignments that set and clear
  it, so a stale holder never lets a task in;
* `schedule()` itself takes and releases `console_lock`: the lock could be given
  up half way through an acquisition if a task were preempted there. `FrameInv` says that
  `console_lock` is used in system calls only, and `InterruptFlagKept` that IF is then
  clear, so no preemption happens. This is why the interrupt flag and the locks are
  proved together.

The proof has lemmas for `schedule`, `thread_block`, `thread_unblock` and
`thread_yield` (what they leave alone, and whose state they change), then one
lemma per action, and one step per conjunct the action can disturb.

### The scheduler and the locks as an abstract lock

The second half of `KernelThreadsProofs` proves, from the same assumptions:

* `KernelNeverPanics`: `Spec => []NoPanic`, no ASSERT of `thread.c` or `sync.c` fails;
* `SchedulerSound`: `Spec => []SchedulerInv`, a task is on one list at most, one task is RUNNING, no wakeup is lost;
* `LocksImplementAbsLock`: `Spec => LockRefinement`, every step of the locks is a step of `AbsLock` or a stutter.

The inductive invariant `SchedInv` adds to `LockInv` what the ASSERTs rely on:

* `ListInv`: the ready list holds exactly the READY tasks, the waiters of a lock exactly the tasks BLOCKED in its
  `sema_down`, each once. `OneListPerTask` alone says nothing about a task that is about to be appended;
* `StatusInv` and `NoLostWakeup`: why `schedule()` finds a ready task although there is no idle thread.
  `main()` is never parked, and if it waits for a lock, the owner of that lock or the task just woken for it is ready;
* `ConsoleInv`: `schedule()` prints, and would wait for `console_lock` inside itself if a task could be switched
  out while it has that lock;
* `RepeatInv`: the values of `holder_repeat_nr` that `lock_acquire` and `lock_release` assert.

For the refinement `OwnerNamed` ties the abstract owner to `pc`, `lk` and `holder`; a step of one task keeps what
the others own (`OthersKeep`).

### The queue and the keyboard

`QueueProofs` proves, for any set of tasks in any roles and any size of the ring (from `IoQueueAssumption` and
`KeyboardAssumption`):

* `QueueSound`: `Spec => []QueueInv`, and `QueueImplementsFifo`: `Spec => FifoRefinement`. `IoqInv` is inductive: the
  lock's holder is the only task in `ioq_wait`, the pointers `producer` and `consumer` name exactly the tasks that
  sleep, and a waiter for the lock is queued once. That two tasks of one role never sleep at a time is the lock's
  doing, so `ioq_wait`'s ASSERT needs both parts. The refinement reads the ring from `tail` to `head`;
* `ReaderIsWoken`: `OneReader` and the keyboard's specification imply `[]KeyboardInv`. `ReaderInv` adds that the
  buffer is empty when the reader sleeps. `OneReader` is needed: a second reader waits for the lock the first one
  sleeps with;
* `ModifiersFollowKeys`: `KbdSpec => []ModifiersAgree`, for any keys, both of a pair too. A status variable that is set has a held
  key of its pair behind it, and it is set when all the keys of the pair that exist are held. `ModifierInv` says this of the bytes that
  still wait, whatever their number. With one of two held the variable may be either, because the release
  of one Shift clears it while the other is held (section 6, `AnyKeySets`). `KeyboardAssumption` excludes a key whose release
  would be the byte 0xe0, which no keyboard has.

### The IDE channel and the sleep

`IdeProofs` proves, for any tasks, sector counts, sectors per command, time limits and length of `ticks`:

* `SleepsATick`: `Spec => SleepLongEnough`. `SleepInv`: a sleep that has seen no clock interrupt has `ticks` where it started;
* `ChannelAgrees`: under `OwnVector`, `Spec => []ChannelInv`. The invariant has three layers: `TurnInv` (one task is between
  `lock_acquire` and `lock_release`, or the boot identifies the disk), `TableInv` (which handlers are registered at each
  step of the boot), and `PhaseInv` (for each statement, what `expecting_intr`, `disk_done`, the request and the drive are,
  different for reads and writes because a write's interrupt comes after the data). `OwnVector` says that no
  spurious interrupt has the channel's vector; `OwnVectorOfPrimary` proves it for the primary channel. On the
  secondary channel a spurious interrupt of the second chip comes at vector 47, its own, and `intr_hd_handler` cannot tell it
  from the drive's.

### The page allocator

`PagesProofs` proves, from `PageAllocAssumption`, for any processes, frames, pages per table and sizes of a request:

* `FramesHaveOneOwner`: `Spec => []PagesInv`;
* `LockIsReleased`: `Spec => []LockOutlivesOnlyFailure`, after a collision too;
* `ScanIsFirstFit`: `bitmap_scan` returns the first run of `cnt` clear bits if there is one and never a bit that is set, for any bitmap,
  any number of bytes and any `cnt`; `ScanSound` is the same for the run's bitmaps. `RunCounts` says what the second loop counts: the
  clear bits that end at the one it looks at, back to the first clear bit or to a set one. When there is no run
  the result is a clear bit all the same (section 6).

Both are theorems of the plain specification: kernel threads are preempted between any scan and its set. `AllocInv` is inductive and has
three strengths, because a collision spoils some things and not others:

* always: types, and `LockOutlivesOnlyFailure`;
* while the machine runs (`WeakInv`): where each process is in `get_a_page` (`StepInv`: from the stack's frame to its page table
  it holds the lock of the user pool; a process without a stack that holds it finds a user pool that is full and stays so), and that a
  kernel thread in the middle of a call has mapped what it has come past (`HeldInv`). `page_table_add`'s ASSERT stops the
  machine before a page is mapped twice, which is why this survives a collision;
* until a collision or a table at address 0 as well (`StrongInv`): every set bit of a pool has one owner (`Owned`: a mapped page, or
  a page table), what calls in progress have reserved is theirs alone (`ClaimInv`), the blocks of processes are reserved, mapped and
  disjoint, and the first user frame is a stack's (`FirstFrameIsStack`), which is why `mfree_page`'s ASSERT that a user
  frame lies strictly above the start of the pool does not fail.

The argument has three parts:

* what `bitmap_scan` finds for one page (`ScanOne`), and that it is an index or -1 for several (`ScanMany`);
* that each way to take or give a frame keeps `Owned` (`OwnKernelPage`, `OwnUserPage`, `OwnTable`, `OwnLess`);
* a loop invariant for `malloc_pages`' loop (`LoopInv`), which covers the requests that fail half-way and keep the pages they
  have mapped, then one lemma per action.

### The heap

`HeapProofs` proves, from `HeapAssumption`, for any page size, sizes of header and blocks, number of pages and sizes asked for:

* `HeapSound`: `Spec => []HeapInv`, so live memory is disjoint, an arena counts its free blocks, and no ASSERT fails;
* `MemoryComesBack`: `Spec => []AllComesBack`.

`AllocInv` is inductive: `Sound` and, between calls, that no arena of blocks is entirely free (`NoneIdle`). `Sound` says that arenas
are runs of pages that do not overlap (`ArenasSound`), that what is on a free list is a block of an arena of that
descriptor, once (`FreeListsSound`), that what a caller holds is a block of such an arena, large enough and not free, or a
large arena (`LiveSound`), that every block is free or held (`NoneLost`), and that `cnt` is right (`CountsSound`). Two points
need more than the invariant the run checks. `sys_free` gives an arena back when its `cnt` says so, which is right only because no
block of it is lost. And `sys_malloc`, when a list is empty, first adds an arena that is entirely free: `Sound` is
therefore a predicate of any arenas, lists and holdings, and is carried through that intermediate state. The block sizes
are a recursive function; that it exists and doubles (`BlockSizes`), and what is left of a free list when an arena's blocks are taken out
(`Without`, a fold), is proved by least counterexamples. The rest is arithmetic: where a block lies in its page, and that
`block2arena` finds its header (`BlockPlace`, `BlocksApart`, `OffsetOnPage`). `LeakedInPool` is proved next to `AllocInv`: the pages a failed
request keeps are pages of the pool and belong to nobody. `AllComesBack` therefore says of the callers' memory that it comes back,
and nothing of leaked pages (`NothingLeaked` in section 6 does).

### Page tables

`PagingProofs` proves, from `PagingAssumption` and `FramesAssumption`, for any number of entries, of kernel entries and of frames:

* `KernelHalfIsShared`: `Spec => []KernelHalfShared`;
* `TablesAreReached`: `Spec => []PtePtrReachesThePte`;
* `ProcessesAreApart`: where memory is cleared at boot (`~Dirty`), `Spec => []UserHalfPrivate`.

`PagingInv` is inductive. `DirsInv`: every directory names itself in its last entry and shares the loader's kernel tables.
`TablesInv`: the table of a process's entry is a kernel frame in use, no directory, and of that entry only. `KernelMapInv` and
`UserMapInv` say which frames the kernel's and the processes' tables map, each frame once and only while it is in use.
`CleanInv` is about the kernel's own pages: its ASSERT that an entry is clear needs `~Dirty`, because `setup_page` leaves most of the
kernel's tables as it finds them; the other parts need no such condition. Each action is a store through
the recursive entry, and the lemmas say which entry of which frame that store reaches.

### Task creation and the lists

`SpawnProofs` proves, from `SpawnAssumption` and `NullAssumption` (no task and no list element is at address NULL), for any
number of tasks, creators and pages, and also with `ThreadsLater`, so when tasks are created with IF set:

* `TasksSound`: `Spec => []TasksInv`, so no list is ever broken, no task is lost or linked twice and no ASSERT fails;
* `PidsRise`: `Spec => []PidsGrow`;
* `ProcessesOwnTheirSpace`: `Spec => []OwnSpaceAndStack`;
* `ListsImplementTaskQueues`: `Spec => QueueRefinement`, every step on the pointers is a step of `TaskQueues` or a stutter.

The first half is about `List`. `Represents` says that links represent one sequence per list: along `next` from head to tail, along
`prev` back, and no element in two places. `Insertion`, `AppendLinks`, `PushLinks` and `PopLinks` say which sequences the links represent
after an operation, and `ListSeen` that a walk along `next` (what `elem_find`, `list_len` and the invariants do) meets
exactly the sequence. `Links` is the form of this that the invariant uses.

`SpawnInv` is inductive. Besides `Links`, types and what a creator has and has not done yet (`CreatorsInv`, `CreatedInv`), its parts are:

* `PlacesInv`: on which list a task is, for each status. A task that has its status but has not been appended yet (`Fresh`) is the exception
  that `init_thread` makes: it sets READY while the task is on no list;
* `PidLockInv`: who waits for `pid_lock` has been or will be woken. With it `SomebodyReady` proves that `schedule()` always finds a task although
  there is no idle thread: `main()` blocks only for `pid_lock`, and then its holder, or the task woken for it, is ready;
* `PidInv`: `allocate_pid` reads the counter after it has released its lock, when another creator may have counted on; the
  number is then too large, never one an older task has. That is why the theorem is `PidsGrow`, and why `PidsUnique` is false (section 6);
* `WalkInv`: no link and no walk leads to a task that is not linked, so a walk of `elem_find` that is preempted cannot find it, and
  `thread_start`'s ASSERT holds even where the walk leaves its list;
* `ConsoleInv`, beside `SpawnInv`: `console_lock` is free but for somebody who got no page. So `schedule()`'s `printk` returns, and if it does
  not, no page is left, which is what `PanicsOnlyWithoutPages` allows;
* `SpaceInv`: `cr3` and `esp0` after each switch. A kernel thread leaves `esp0` of an earlier process, so the
  invariant speaks of `esp0` for processes only.

### Induction

The library's induction theorems have an operator as parameter and no installed prover can instantiate them. `LeastNat`
(a nonempty set of naturals has a least member, from the library's `WFMin`) serves instead where a statement can be written as a
set: the set of counterexamples is empty because it has no least member. The scans of `Bitmap`, the loop of `PageAlloc`, the block
sizes and free lists of `Heap` and the walks along the lists of `Spawn` (`Reached`) and the digits of `Numerals` are proved this way.

### The sequential parts

`RoutinesProofs` proves, from `PoolsAssumption` only (a BIOS that tells of the memory there is, in as many areas
as it likes):

* `PoolsLaidOut`: `PoolsSpec => []PoolsSound`, the pools and their three bitmaps do not overlap and lie in memory;
* `PagesKept`: `PoolsSpec => []FewPagesLost`, below 258 MB at most 14 pages are in no pool.

The inductive invariant `PoolsInv` says what is known at each step of the loader: while it looks for the largest
area `edx` is at least the end of each area already seen and no more than the memory there is, because an area that
ends above 2 GB is negative in the signed comparison. The lemmas are about division and remainder, the page counts
and the layout for any size of memory.

`CursorStays` is `Spec => []CursorOnScreen` of `Screen`, for any number of rows and columns and any text,
interrupted or not. `CursorOnScreen` is inductive; the lemmas follow a line feed, a backspace and a character through
the 16-bit arithmetic of the cursor.

`ScreenIsTerminal` is `Spec => TerminalRefinement` for `IfOn = FALSE`: `Screen` implements `Terminal` for a screen of any size and any text,
while nothing comes between the steps of `put_char` (with `IfOn = TRUE` section 6 has the counterexample). `ScreenAssumption` says of a
string that it has a character: `put_str` of an empty one does nothing. Every place of the array has one row and one
column (`Place`, `PlaceOf`, from the uniqueness of quotient and remainder), so one cell changed is one character
changed (`TextSet`) and the rolled array is the text without its first row (`TextRolled`); `FeedEnds`, `CharacterShows` and `BackspaceErases` map each
branch of `put` to a step of `Terminal`. `DrawInv` is inductive with `CursorOnScreen`: between `get_cursor` and `write` the copy `bx` is the
cursor. Reading the cursor and setting it are stutters, because `at` moves when the character is written.

`ContextIsRestored` is `EntrySpec => []EntryInv`. `ContextInv` is inductive: it says at each step of an entry which registers of the interrupted
code are on the stack, at which place, and which are still in the processor. The stack is split into named
pieces (error code, the processor's three or five words, segment registers, general registers, vector), whose lengths depend on the vector and on
the interrupted code's privilege; `FrameIsIntrStack` follows from the concatenation.

`SelectorsAreSound` is `SegmentsSpec => []SegmentsInv`, from `SegmentsAssumption` (the TSS has an address of four bytes and is not at 0).
`SelectorsInv` is inductive: which descriptors are in the table, how long the table is and which selectors are loaded or saved, at
each step from the loader to the processes.

### The partition scan

`RoutinesProofs` also proves, from `PartitionAssumption` (what an entry of a table is) and two hypotheses about the disks:

* `ScanKeepsBounds`: under `FewPartitions`, `ScanSpec => []ScanInv`;
* `EveryPartitionFound`: under `FewPartitions` and `RegularDisks`, `ScanSpec => []AllPartitionsFound`, each partition once. The list
  begins, as in the code, with an element at address 0 that is no partition (section 6, `OnlyPartitions`).

`FewPartitions` says of every disk that it has at most `MaxLogic` logical partitions, as `ide.h:35` does, and that its extended
entries have different addresses, none of them 0. `RegularDisks` says that every table can be reached from sector 0, that no two partitions
start at the same sector, and that there is one extended partition in the sectors 0 of all disks. The last one
is there because `extension_lba_base` is not reset: `TwoExtended` in section 6 violates it, and the property with it. The layouts
of the `partitions` run satisfy both hypotheses, `NineLogical` violates the first. `FourPrimaries` satisfies both: a fourth primary
partition stops the scan, but nothing is written behind the array.

A stack of calls does not say what the calls that have returned did. The inductive invariant `ScanIInv` therefore
names the set `V` of tables that were read (`Visit`) and calls an entry passed if its table is in `V` and no call is still in
front of it. Every table of `V` but sector 0 is where a passed extended entry leads (`TreeInv`); the base is the address of
the entry `f` that set it, or comes from an earlier disk (`BaseInv`); `logic_partition` counts the passed logical partitions (`CountInv`);
the list has the passed partitions of this disk (`FoundInv`). Because different extended entries lead to different tables, a
call always reads a table that is not in `V`, so no partition is counted twice; the limit of `MaxLogic` is therefore not reached while there are
partitions to come, and the early return with its `boot_sector` is not taken. When the calls are over `V` is closed under
the extended entries, so it is the whole disk (`AllRead`). `FoundIInv` adds that the disks before this one are complete.
How the recursion ends (`ScanEnds`) stays with TLC.

### Numbers printed

`NumbersReadBack`, from `WordAssumption` (a word has more than one value), says that what `%d`, `%u` and `%x` print of any word is a numeral of
it: only digits of the base, none in front that is zero, and their sum is the argument; a negative number is a minus and the numeral of what
is missing to 0, the least one too. The recursion of `itoa` over all numbers is put together from its restrictions to `0 .. n`, which exist and agree
(`DigitsUpTo`, `DigitsAgree`); the reference's sum gains a digit at a time (`ValueOfNext`). `NumeralFor` is
stronger than `Reads`: it says that the first digit of a number other than 0 is not 0, for a single digit too.

### Only model-checked

* the liveness properties (`NoStarvation`, `FreeLockIsTaken`, `NewTaskRuns`, `OldestIsRead`, `SleepEnds`, `BusyWaitEnds`,
  `ScanEnds`): liveness under fairness and ENABLED are beyond the prover;
* `OutputRight`. `NumbersReadBack` proves it of one number. That the text falls into the pieces of the format is a search for the cuts,
  and `PutIntAgrees` needs the powers of 16, of which the prover knows nothing.

## 6. Where the code and its comments disagree

With a run of its own (quotation in `PROJECT.json`):

* `switch_to`: `switch.S:15` reads `[ebp + 20]` where its comment wants the argument
  `cur` (`[esp + 20]`). In an unoptimised build that word is `cur` for the clock and
  `thread_yield`, but `old_status` for `thread_block`: a task that blocked is later
  resumed at an older stack pointer.

Further disagreements. Each row names the change to the run's own configuration that shows it: the constants
given here, and the property alone.

| Configuration | Property violated | What the code does |
|---|---|---|
| `MCPageAlloc` | `FrameOwnedOnce` | `palloc` scans and sets with IF set, and neither `get_kernel_pages` nor the page table of a starting process is covered by the kernel pool's lock: two requests get one frame (`memory.c:234`, `:274`; comment at `:233`, "扫描或设置位图要保证原子操作") |
| `MCPageAlloc` | `NoPanic` | without a run of `pg_cnt` free pages `bitmap_scan` returns the first clear bit, so `vaddr_get` does not fail and `page_table_add`'s ASSERT stops the machine (`memory.c:258`; comment at `:160`) |
| `MCPageAlloc` | `NothingLeaked` | a request that fails half way keeps what it took (`memory.c:308`; comment at `:300`) |
| `MCPageAlloc` | `TlbFresh` | `invlpg` is given the local variable, not the page (`memory.c:525`) |
| `MCPageAlloc` | `PageTablesFromKernelPool` | with the kernel pool empty a page table is put at address 0 (`memory.c:274`; comment at `:271`, "页表中用到的页框一律从内核空间分配") and cleared (`:281`), which also clears the GDT at `0x900` (`boot.inc:1`, `tss.c:76`): the processor faults at the next selector it loads |
| `MCIoQueue`, `Tasks = {p1, c1}` | `SomebodyAwake` | the queue's lock stays held while its owner sleeps; the other side waits for that lock, where no wakeup reaches it (`ioqueue.c:61`; `ioqueue.h:15`) |
| `MCIoQueue`, `Tasks = {p1, c1, c2}` | `ConsumerSleepsWhenEmpty` | a consumer that had to wait for the lock sleeps without testing the queue again (`ioqueue.c:60`; `ioqueue.h:21`) |
| `MCKeyboard` | `AnyKeySets` | with both shift keys held, releasing one clears `shift_status` (`keyboard.c:143`; comment at `:44`) |
| `MCRoutines` | `FailureReturnsMinusOne` | no run: the first clear bit instead of -1 (`bitmap.c:69`; comment at `:24`) |
| `MCRoutines`, `Bios <- Bios512` | `Supports512MB` | page counts are kept in 16 bits (`memory.c:87`; comment at `:44`) |
| `MCRoutines`, `Bios <- BiosAcpi` | `PoolsUsable` | the highest area counts as memory whatever its type is (`loader.S:85`, its comment) |
| `MCRoutines` | `Terminated` | `vsprintf` writes no NUL (`stdio.c:81`; comment at `:27`); `ide.c:164` gives it an uninitialised buffer |
| `MCRoutines` | `OctalPrints` | `%o` falls through to the PANIC of `%f` (`stdio.c:75`; comment at `:72`) |
| `MCPaging`, `Dirty = TRUE` | `NoPanic` | `setup_page` does not clear the kernel's other page tables (`loader.S:333`): with garbage in memory the ASSERT at `memory.c:258` fails |
| `MCSpawn`, `Creators = {0, 1, 2}`, `Pages = 9` | `PidsUnique` | `allocate_pid` reads `next_pid` after it has released its lock (`thread.c:30`; comment at `:26`) |
| `MCSpawn` | `FailureIsReported` | `create_page_dir` reports that it got no page with IF set; a switch while it holds `console_lock` blocks inside `schedule()` and stops the machine (`process.c:83`; comment at `:82`, "申请失败就提示错误信息") |
| `MCSpawn` | `ProcessesHaveDirectories` | `create_page_dir` returns NULL, which is stored untested: the process is put on the lists without a page directory (`process.c:127`; comment at `:77` promises -1) |
| `MCSpawn`, `Kinds = {"thread"}`, `ThreadsLater = TRUE` | `WalkStaysOnList` | `thread_start`'s `elem_find` walks the ready list with IF set (`thread.c:120`); `main()` calls it with IF clear only |
| `MCScreen`, `IfOn = TRUE` | `TerminalRefinement` | an echo between reading and setting the cursor is overwritten (`print.S:44`) |
| `MCScreen` | `NeverFaults` | a backspace in the first cell writes far behind video memory (`print.S:81`) |
| `MCIde`, `MayFlicker = FALSE`, `MayHang = FALSE` | `NoPanic` | `busy_wait` returns false for a disk that is ready, and `identify_disk` PANICs during the boot (`ide.c:128`; comments at `:121`, `:133`) |
| `MCIde` | `DataInPlace` | the second command of a write starts at `buf + secs_done` bytes (`ide.c:202`; comment at `:185`) |
| `MCIde`, `Channel = 1`, `Spurious = {}`, `MayHang = FALSE` | `SleepEnds` | line 15 stays masked (`interrupt.c:69`): who waits for the second channel sleeps for ever |
| `MCIde` | `SpuriousIgnored` | once `ide_init` has registered a handler for it, a spurious interrupt 15 fails the ASSERT at `ide.c:220` (comment at `interrupt.c:110`) |
| `MCPartition`, `Layouts <- FourPrimaries` | `NoPanic` | the fourth primary partition stops the machine (`ide.c:305`; `ide.h:34`) |
| `MCPartition`, `Layouts <- NineLogical` | `EntriesInBounds` | the ninth logical partition is written behind the array (`ide.c:313`; `ide.h:35`) |
| `MCPartition` | `OnlyPartitions` | `partition_list` is never given to `list_init`: the first `list_append` writes through the NULL in `tail.prev`, to address 4, and a walk from its head begins with the element at address 0 (`ide.c:65`, "分区队列(记录所有分区)"; walked at `ide.c:399`) |
| `MCPartition`, `Layouts <- TwoExtended` | `AllPartitionsFound` | `extension_lba_base` is not reset between disks (`ide.c:387`; comment at `:60`) |

## 7. Limits of the models

* `KernelThreads` takes `switch_to` at its word: a task is resumed where it
  stopped. `SwitchTo` shows that this fails for `thread_block`, so the results about
  locks hold for the scheduler with a correct `switch_to`.
* `KernelThreads` has the console output of system calls, with IF clear. A
  kernel thread that calls `console_put_str` or `printk` itself, with IF set, invalidates `FrameInv`: a switch while it
  holds `console_lock` stops the machine. The source does so in three places: the report at `process.c:83`, which
  `Spawn` models, where it does stop the machine (section 6, `FailureIsReported`); and the messages at
  `ide.c:259-272` and `:399`, in functions that run only from `ide_init`, whose call is commented out (`init.c:26`).
  `NoPanic` of the `kernel` run is about the tasks of `main.c`, which do none of this.
* `main()` never blocks; it ends in `while(1)`. That is why the missing idle thread is
  never needed.
* No service takes a second lock, in the source as in the model.
* `PageAlloc` follows the page table at address 0 as malloc and free see it, not the accesses of a running process whose pages or stack
  it has lost. It also goes on where the machine would not: that frame holds the GDT (`0x900`, `boot.inc:1`), and once `page_table_add` has
  cleared it (`memory.c:281`) the next interrupt or `iret` loads a selector from it and faults. The steps the model takes after `TableAtZero`
  are therefore more than the machine takes; `PagesInv` claims nothing but types there.
  `bitmap_set`'s read and write of a byte is one step, and a kernel thread may free any kernel block, not
  only its own. `PagesInv` says nothing of the tables after a collision.
* `IoQueue` and `Ide` leave open which ready task runs next.
* A drive that shows BSY again after it was ready, without a second interrupt (`MayFlicker`), is one of the answers a status port can give,
  and the only one with which `busy_wait` returns true: what `Ide` shows of calls after the boot is about such drives.
* `Partition` adds sector numbers without 32-bit wrap-around (the driver asserts that a sector is below 2^20, `ide.c:81`), and
  assumes that `ide_read` delivers the sector, although `Ide` shows that it panics first. The write to address 4 of the first `list_append` is
  assumed to hit nothing that is used (address 4 is mapped, in the BIOS's vectors). `ide_init` is commented out in `init.c:26`, so neither runs in this commit.
* The drive, the keyboard controller and the interrupt controller are external and modelled from the way the
  driver uses them.
* In `Thread` and `KernelThreads` lists are sequences; `Spawn` shows, for the list operations it uses, that the
  intrusive links implement them.
* `Spawn` counts the kernel's pages and never gives one back; `create_user_vaddr_bitmap` takes one page. Tasks
  take no lock but `pid_lock`, and `console_lock` for the report of a failure.
* `Paging` always finds a frame for a page table (`PageAlloc` models that it may not), and flushes no TLB.
* `Segments` leaves out the accessed bits the processor sets in descriptors. `start_process` is one step in `Entry`
  and `Segments`: a clock interrupt before it, which has `switch_to` overwrite the `self_kstack` it computes
  its frame from (`process.c:25`), is not followed.
* `Screen` has the callers that hold no lock; the runs of `Format` have words of 8 bits.
* The loader's `ards_buf` has room for twelve areas, which `.e820_mem_get_loop` does not check (`loader.S:60`); the modelled
  BIOS has at most three.
* A BIOS map with an area that ends between the end of the memory and 2 GB is excluded by `PoolsAssumption`;
  `BiosAcpi` has the related case that is looked at, a highest area inside the memory that is not usable.

## 8. Plan

Done: `Thread`, `Sync`, `KernelThreads` with its proofs first, because everything runs on them;
then `SwitchTo`, `IoQueue`/`Keyboard`, `Bitmap`/`PageAlloc`/`Heap`, `Ide`/`Partition`; then `List`/`Spawn`,
`Interrupts` composed with `Ide`, `Screen`, and the sequential parts `Pools`, `Format`, `Entry`, `Segments` and `Paging`; then the proofs about the
scheduler, the queue and the keyboard, the IDE channel, the page allocator, the heap, the page tables, the entry code and the
descriptors, task creation with its lists, the partition scan, the screen, `bitmap_scan` and the numbers printed.

Next: `start_process` cut at its statements, composed with `SwitchTo`.
