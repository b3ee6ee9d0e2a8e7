------------------------------ MODULE PageAlloc ------------------------------
(***************************************************************************)
(* The page allocator of kernel/memory.c: the two pools of physical frames *)
(* and the virtual pages of the kernel and of every user process, each a   *)
(* bitmap, and the page tables that map pages to frames.                   *)
(*                                                                         *)
(* A system call of a process runs with interrupts off and is one action.  *)
(* Kernel threads and start_process run with interrupts on and may be      *)
(* preempted anywhere: their operations are cut between a scan of a bitmap *)
(* and the setting of the bit, and between one page and the next.  What    *)
(* lies between two cuts touches only frames and pages the task has        *)
(* reserved.  kernel_pool.lock is taken by sys_malloc and sys_free, not by *)
(* get_kernel_pages, nor for the page tables of processes.                 *)
(*                                                                         *)
(* Frames are numbered through: the kernel pool's from 0, the user pool's  *)
(* from KernelFrames.  A user address space needs a page table, itself a   *)
(* frame of the kernel pool, for every TablePages pages; the kernel's page *)
(* tables exist from the start (loader.S).  The NULL of a palloc that      *)
(* fails is -1: as the address of a page table it is the first frame of    *)
(* the physical memory, which belongs to no pool and is then the table of  *)
(* every process that got NULL.  That frame also holds the GDT (0x900):    *)
(* once it is cleared the processor faults at the next selector it loads,  *)
(* and the model, which goes on, takes more steps than the machine.        *)
(***************************************************************************)
EXTENDS Bitmap, Sequences

CONSTANTS
    Procs,          \* the user processes
    kernel,         \* the kernel's address space
    KThreads,       \* the kernel threads
    KernelBytes,    \* bytes of kernel_pool's bitmap, and of kernel_vaddr's
    UserBytes,      \* bytes of user_pool's bitmap
    VaddrBytes,     \* bytes of a process's vaddr_bitmap
    TablePages,     \* pages a page table maps (1024)
    KernelReq,      \* bound: page counts the kernel asks for
    UserReq,        \* bound: page counts a process asks for
    TlbPages,       \* bound: the kernel pages whose cached translation is followed
    NULL

ASSUME PageAllocAssumption ==
    /\ kernel \notin Procs
    /\ NULL \notin Procs \cup KThreads /\ NULL # kernel
    /\ {KernelBytes, UserBytes, VaddrBytes, TablePages} \subseteq Nat \ {0}
    /\ KernelReq \subseteq Nat \ {0} /\ UserReq \subseteq Nat \ {0}
    /\ TlbPages \subseteq Nat

VARIABLES
    kernel_pool,    \* kernel_pool.pool_bitmap
    user_pool,      \* user_pool.pool_bitmap
    vaddr_bitmap,   \* kernel_vaddr and userprog_vaddr, by address space
    pte,            \* the mapped pages of each address space, and their frames
    pde,            \* the page tables of each process, and their frames or -1
    frame_0,        \* the page table at address 0: its slots, the frame and P bit
    tlb,            \* translations of TlbPages the processor has cached
    user_lock,      \* the process that holds user_pool.lock
    kernel_lock,    \* the kernel thread that holds kernel_pool.lock
    call,           \* where a kernel thread is in malloc_pages or mfree_page
    step,           \* where a process is in get_a_page
    scanned,        \* the index palloc's bitmap_scan gave a process
    blocks,         \* the page blocks handed out: <<space, first page, count>>
    collision,      \* a bit taken for free was set when it was to be set
    panic           \* the failed ASSERT that stopped the machine, or "none"

vars == <<kernel_pool, user_pool, vaddr_bitmap, pte, pde, frame_0, tlb, user_lock,
          kernel_lock, call, step, scanned, blocks, collision, panic>>

Spaces == Procs \cup {kernel}

KernelFrames == KernelBytes * ByteBits
UserFrames == UserBytes * ByteBits

vaddr_bytes(sp) == IF sp = kernel THEN KernelBytes ELSE VaddrBytes

(* USER_STACK3_VADDR, the topmost page of a process.                       *)
stack_page == VaddrBytes * ByteBits - 1

empty_map == [x \in {} |-> 0]

(* m with x mapped to v, m without the elements of S.                      *)
put(m, x, v) == [y \in DOMAIN m \cup {x} |-> IF y = x THEN v ELSE m[y]]
drop(m, S) == [y \in DOMAIN m \ S |-> m[y]]

(* Where a call is, the pages it is for, the one it has come to, and the   *)
(* frame that palloc's bitmap_scan gave it.                                *)
no_call == [at |-> "none", first |-> 0, cnt |-> 0, next |-> 0, idx |-> 0]

-----------------------------------------------------------------------------
(* mem_init: nothing is allocated; a process waits in start_process.       *)
Init ==
    /\ kernel_pool = bitmap_init
    /\ user_pool = bitmap_init
    /\ vaddr_bitmap = [sp \in Spaces |-> bitmap_init]
    /\ pte = [sp \in Spaces |-> empty_map]
    /\ pde = [p \in Procs |-> empty_map]
    /\ frame_0 = empty_map
    /\ tlb = empty_map
    /\ user_lock = NULL /\ kernel_lock = NULL
    /\ call = [t \in KThreads |-> no_call]
    /\ step = [p \in Procs |-> "start_process"]
    /\ scanned = [p \in Procs |-> -1]
    /\ blocks = {}
    /\ collision = FALSE
    /\ panic = "none"

(* vaddr_get: the first page of pg_cnt pages of sp, or -1.                 *)
vaddr_get(sp, pg_cnt) == bitmap_scan(vaddr_bitmap[sp], vaddr_bytes(sp), pg_cnt)

page_range(first, pg_cnt) == first .. first + pg_cnt - 1

(* Faulty variants of palloc: a failed scan is not noticed, the bit is not *)
(* set.                                                                    *)
palloc_unchecked(pool, bytes) ==
    LET idx == bitmap_scan(pool, bytes, 1)
    IN  [idx |-> idx, pool |-> bitmap_set(pool, idx, 1)]

palloc_without_set(pool, bytes) ==
    [idx |-> bitmap_scan(pool, bytes, 1), pool |-> pool]

(* palloc from a pool of so many bytes: the bitmap and the frame's index,  *)
(* -1 (NULL, the address 0) if every frame is taken.                       *)
palloc(pool, bytes) ==
    LET idx == bitmap_scan(pool, bytes, 1)
    IN  [idx |-> idx, pool |-> IF idx = -1 THEN pool ELSE bitmap_set(pool, idx, 1)]

(* page_table_add, once the page table is there: the entry of the page is  *)
(* in the process's own table or in the one at address 0.                  *)
add_entry(s, page, frame) ==
    LET slot    == page % TablePages
        present == slot \in DOMAIN s.zero /\ s.zero[slot].present
    IN  IF s.pd[page \div TablePages] = -1
        THEN [s EXCEPT !.zero  = put(@, slot, [frame |-> frame, present |-> TRUE]),
                       !.fault = present]
        ELSE [s EXCEPT !.pt    = put(@, page, frame),
                       !.fault = page \in DOMAIN s.pt]

(* page_table_add without a page table: palloc(&kernel_pool) is not asked  *)
(* whether it found a frame, and the new table is cleared.                 *)
add_table(s, table) ==
    LET k == palloc(s.kp, KernelBytes)
    IN  [s EXCEPT !.kp   = k.pool,
                  !.pd   = put(@, table, k.idx),
                  !.zero = IF k.idx = -1 THEN empty_map ELSE @]

(* One turn of malloc_pages' loop for a process, on the bitmaps and tables *)
(* built so far: palloc from the user pool, then page_table_add.  ok is    *)
(* FALSE once a palloc of the loop failed, fault is TRUE once a page was   *)
(* found mapped already.                                                   *)
map_page(s, page) ==
    LET u     == palloc(s.up, UserBytes)
        table == page \div TablePages
        got   == [s EXCEPT !.up = u.pool]
    IN  IF ~s.ok \/ s.fault THEN s
        ELSE IF u.idx = -1 THEN [s EXCEPT !.ok = FALSE]
        ELSE add_entry(IF table \in DOMAIN s.pd THEN got ELSE add_table(got, table),
                       page, KernelFrames + u.idx)

(* The while loop of malloc_pages.                                         *)
map_pages(p, first, pg_cnt) ==
    LET s0 == [kp |-> kernel_pool, up |-> user_pool, pt |-> pte[p], pd |-> pde[p],
               zero |-> frame_0, ok |-> TRUE, fault |-> FALSE]
        mapped[n \in 0 .. pg_cnt] ==
            IF n = 0 THEN s0 ELSE map_page(mapped[n - 1], first + n - 1)
    IN  mapped[pg_cnt]

(* malloc_pages(PF_USER): NULL leaves things alone if no page range was    *)
(* found, but keeps the range and the frames taken so far if a palloc      *)
(* failed.                                                                 *)
malloc_pages(p, pg_cnt) ==
    \E first \in {vaddr_get(p, pg_cnt)} \ {-1} :
        \E s \in {map_pages(p, first, pg_cnt)} :
            /\ vaddr_bitmap' = [vaddr_bitmap EXCEPT ![p] = @ \cup page_range(first, pg_cnt)]
            /\ kernel_pool' = s.kp
            /\ user_pool' = s.up
            /\ pte' = [pte EXCEPT ![p] = s.pt]
            /\ pde' = [pde EXCEPT ![p] = s.pd]
            /\ frame_0' = s.zero
            /\ panic' = IF first >= stack_page THEN "stack_page"
                        ELSE IF s.fault THEN "page_mapped" ELSE "none"
            /\ blocks' = IF s.ok /\ panic' = "none" THEN blocks \cup {<<p, first, pg_cnt>>}
                         ELSE blocks

(* sys_malloc of a large block by a user process: user_pool.lock is taken  *)
(* and released within the system call.                                    *)
user_malloc(p, pg_cnt) ==
    /\ panic = "none"
    /\ step[p] = "user"
    /\ user_lock \in {NULL, p}
    /\ malloc_pages(p, pg_cnt)
    /\ UNCHANGED <<tlb, user_lock, kernel_lock, call, step, scanned, collision>>

-----------------------------------------------------------------------------
(* malloc_pages(PF_KERNEL) by a kernel thread, interrupts on: locked if    *)
(* sys_malloc calls it, not if get_kernel_pages does.  vaddr_get's scan;   *)
(* if it finds nothing, NULL is returned and nothing has changed.          *)
kernel_malloc(t, pg_cnt, locked) ==
    /\ panic = "none"
    /\ call[t].at = "none"
    /\ locked => kernel_lock = NULL
    /\ \E first \in {vaddr_get(kernel, pg_cnt)} \ {-1} :
         call' = [call EXCEPT ![t] = [at |-> "vaddr_set", first |-> first, cnt |-> pg_cnt,
                                      next |-> first, idx |-> 0]]
    /\ kernel_lock' = IF locked THEN t ELSE kernel_lock
    /\ UNCHANGED <<kernel_pool, user_pool, vaddr_bitmap, pte, pde, frame_0, tlb, user_lock,
                   step, scanned, blocks, collision, panic>>

call_pages(t) == page_range(call[t].first, call[t].cnt)

(* The end of a call; sys_malloc and sys_free release the lock.            *)
call_returns(t) ==
    /\ call' = [call EXCEPT ![t] = no_call]
    /\ kernel_lock' = IF kernel_lock = t THEN NULL ELSE kernel_lock

(* The rest of vaddr_get.                                                  *)
vaddr_set(t) ==
    /\ panic = "none"
    /\ call[t].at = "vaddr_set"
    /\ vaddr_bitmap' = [vaddr_bitmap EXCEPT ![kernel] = @ \cup call_pages(t)]
    /\ collision' = (collision \/ call_pages(t) \cap vaddr_bitmap[kernel] # {})
    /\ call' = [call EXCEPT ![t].at = "scan"]
    /\ UNCHANGED <<kernel_pool, user_pool, pte, pde, frame_0, tlb, user_lock, kernel_lock,
                   step, scanned, blocks, panic>>

(* palloc(&kernel_pool) scans.  If every frame is taken malloc_pages       *)
(* returns NULL and keeps what it has reserved and mapped.                 *)
palloc_scan(t) ==
    /\ panic = "none"
    /\ call[t].at = "scan"
    /\ \E idx \in {bitmap_scan(kernel_pool, KernelBytes, 1)} :
         IF idx = -1 THEN call_returns(t)
         ELSE /\ call' = [call EXCEPT ![t] = [call[t] EXCEPT !.at = "set", !.idx = idx]]
              /\ UNCHANGED kernel_lock
    /\ UNCHANGED <<kernel_pool, user_pool, vaddr_bitmap, pte, pde, frame_0, tlb, user_lock,
                   step, scanned, blocks, collision, panic>>

(* palloc sets the bit and page_table_add maps the page.  After the last   *)
(* page the block is handed out; clearing it loads the translations.       *)
palloc_set(t) ==
    LET c    == call[t]
        last == c.next + 1 = c.first + c.cnt
        seen == TlbPages \cap call_pages(t)
    IN  /\ panic = "none"
        /\ c.at = "set"
        /\ kernel_pool' = bitmap_set(kernel_pool, c.idx, 1)
        /\ collision' = (collision \/ c.idx \in kernel_pool)
        /\ pte' = [pte EXCEPT ![kernel] = put(@, c.next, c.idx)]
        /\ panic' = IF c.next \in DOMAIN pte[kernel] THEN "page_mapped" ELSE "none"
        /\ IF last
           THEN /\ blocks' = blocks \cup {<<kernel, c.first, c.cnt>>}
                /\ tlb' = [v \in DOMAIN tlb \cup seen |->
                             IF v \in DOMAIN tlb THEN tlb[v] ELSE pte'[kernel][v]]
                /\ call_returns(t)
           ELSE /\ call' = [call EXCEPT ![t] = [c EXCEPT !.at = "scan", !.next = @ + 1, !.idx = 0]]
                /\ UNCHANGED <<blocks, tlb, kernel_lock>>
        /\ UNCHANGED <<user_pool, vaddr_bitmap, pde, frame_0, user_lock, step, scanned>>

-----------------------------------------------------------------------------
(* pfree: the frames' bits; the faulty variant forgets them.               *)
pfree_nothing(frames) == UNCHANGED <<kernel_pool, user_pool>>

pfree(frames) ==
    /\ kernel_pool' = kernel_pool \ frames
    /\ user_pool' = user_pool \ {f - KernelFrames : f \in frames}

(* page_table_pte_remove: the P bit of the entries.  invlpg is given the   *)
(* address of the local variable, not the page: no translation is dropped. *)
page_table_pte_remove(sp, pages) ==
    LET slots == {v % TablePages :
                    v \in {w \in pages : sp # kernel /\ pde[sp][w \div TablePages] = -1}}
    IN  /\ pte' = [pte EXCEPT ![sp] = drop(@, pages)]
        /\ frame_0' = [x \in DOMAIN frame_0 |->
                         [frame_0[x] EXCEPT !.present = @ /\ x \notin slots]]

(* vaddr_remove; the faulty variant gives back one page too many.          *)
vaddr_remove_one_more(sp, first, pg_cnt) ==
    vaddr_bitmap' = [vaddr_bitmap EXCEPT ![sp] = @ \ (first .. first + pg_cnt)]

vaddr_remove(sp, first, pg_cnt) ==
    vaddr_bitmap' = [vaddr_bitmap EXCEPT ![sp] = @ \ page_range(first, pg_cnt)]

(* addr_v2p of a page of a process: the frame in its entry, whether it is  *)
(* present or not, and -1 (the address 0) if the entry was cleared.        *)
addr_v2p(p, page) ==
    LET slot == page % TablePages
    IN  IF page \in DOMAIN pte[p] THEN pte[p][page]
        ELSE IF pde[p][page \div TablePages] = -1 /\ slot \in DOMAIN frame_0
        THEN frame_0[slot].frame ELSE -1

(* mfree_page(PF_USER): its ASSERTs refuse the first frame of the user     *)
(* pool and every address below.                                           *)
mfree_page(p, first, pg_cnt) ==
    LET pages  == page_range(first, pg_cnt)
        frames == {addr_v2p(p, v) : v \in pages}
    IN  IF \E f \in frames : ~(f > KernelFrames)
        THEN /\ panic' = "frame_freed"
             /\ UNCHANGED <<kernel_pool, user_pool, vaddr_bitmap, pte, frame_0>>
        ELSE /\ pfree(frames)
             /\ page_table_pte_remove(p, pages)
             /\ vaddr_remove(p, first, pg_cnt)
             /\ UNCHANGED panic

(* sys_free of a large block by a user process.                            *)
user_free(b) ==
    /\ panic = "none"
    /\ b[1] \in Procs
    /\ user_lock \in {NULL, b[1]}
    /\ mfree_page(b[1], b[2], b[3])
    /\ blocks' = blocks \ {b}
    /\ UNCHANGED <<pde, tlb, user_lock, kernel_lock, call, step, scanned, collision>>

(* sys_free by a kernel thread, interrupts on, under kernel_pool.lock: one *)
(* page after the other, then vaddr_remove.                                *)
kernel_free(t, b) ==
    /\ panic = "none"
    /\ call[t].at = "none"
    /\ kernel_lock = NULL
    /\ b[1] = kernel
    /\ kernel_lock' = t
    /\ blocks' = blocks \ {b}
    /\ call' = [call EXCEPT ![t] = [at |-> "free", first |-> b[2], cnt |-> b[3],
                                    next |-> b[2], idx |-> 0]]
    /\ UNCHANGED <<kernel_pool, user_pool, vaddr_bitmap, pte, pde, frame_0, tlb, user_lock,
                   step, scanned, collision, panic>>

kernel_free_page(t) ==
    LET c == call[t]
    IN  /\ panic = "none"
        /\ c.at = "free"
        /\ c.next < c.first + c.cnt
        /\ pfree({pte[kernel][c.next]})
        /\ page_table_pte_remove(kernel, {c.next})
        /\ call' = [call EXCEPT ![t].next = @ + 1]
        /\ UNCHANGED <<vaddr_bitmap, pde, tlb, user_lock, kernel_lock, step, scanned,
                       blocks, collision, panic>>

kernel_free_done(t) ==
    LET c == call[t]
    IN  /\ panic = "none"
        /\ c.at = "free"
        /\ c.next = c.first + c.cnt
        /\ vaddr_remove(kernel, c.first, c.cnt)
        /\ call_returns(t)
        /\ UNCHANGED <<kernel_pool, user_pool, pte, pde, frame_0, tlb, user_lock, step,
                       scanned, blocks, collision, panic>>

(* schedule() -> page_dir_activate reloads cr3: the cached translations    *)
(* are gone.                                                               *)
page_dir_activate ==
    /\ panic = "none"
    /\ tlb # empty_map
    /\ tlb' = empty_map
    /\ UNCHANGED <<kernel_pool, user_pool, vaddr_bitmap, pte, pde, frame_0, user_lock,
                   kernel_lock, call, step, scanned, blocks, collision, panic>>

-----------------------------------------------------------------------------
(* get_a_page(PF_USER, USER_STACK3_VADDR), interrupts on: up to the palloc *)
(* from the user pool, under user_pool.lock.  If it fails, NULL is         *)
(* returned with the lock still held, and start_process goes on.  Nobody   *)
(* sees the stack's entry before the page table is linked.                 *)
get_a_page(p) ==
    /\ panic = "none"
    /\ step[p] = "start_process"
    /\ user_lock = NULL
    /\ user_lock' = p
    /\ vaddr_bitmap' = [vaddr_bitmap EXCEPT ![p] = bitmap_set(@, stack_page, 1)]
    /\ LET u == palloc(user_pool, UserBytes)
       IN  /\ user_pool' = u.pool
           /\ IF u.idx = -1
              THEN /\ step' = [step EXCEPT ![p] = "user"]
                   /\ UNCHANGED pte
              ELSE /\ step' = [step EXCEPT ![p] = "page_table_add"]
                   /\ pte' = [pte EXCEPT ![p] = put(@, stack_page, KernelFrames + u.idx)]
    /\ UNCHANGED <<kernel_pool, pde, frame_0, tlb, kernel_lock, call, scanned, blocks,
                   collision, panic>>

(* page_table_add finds no page table (the page is the first of the        *)
(* process) and its palloc(&kernel_pool) scans the bitmap.                 *)
page_table_add_scan(p) ==
    /\ panic = "none"
    /\ step[p] = "page_table_add"
    /\ scanned' = [scanned EXCEPT ![p] = bitmap_scan(kernel_pool, KernelBytes, 1)]
    /\ step' = [step EXCEPT ![p] = "palloc"]
    /\ UNCHANGED <<kernel_pool, user_pool, vaddr_bitmap, pte, pde, frame_0, tlb,
                   user_lock, kernel_lock, call, blocks, collision, panic>>

(* lock_release at the end of get_a_page; the faulty variant forgets it.   *)
get_a_page_returns_locked == user_lock

get_a_page_returns == NULL

(* palloc sets the bit, the page table is cleared and linked in, the entry *)
(* written, the lock released.                                             *)
page_table_add_set(p) ==
    LET idx   == scanned[p]
        entry == [frame |-> pte[p][stack_page], present |-> TRUE]
    IN  /\ panic = "none"
        /\ step[p] = "palloc"
        /\ pde' = [pde EXCEPT ![p] = put(@, stack_page \div TablePages, idx)]
        /\ IF idx = -1
           THEN /\ frame_0' = put(empty_map, stack_page % TablePages, entry)
                /\ pte' = [pte EXCEPT ![p] = drop(@, {stack_page})]
                /\ UNCHANGED <<kernel_pool, collision>>
           ELSE /\ kernel_pool' = bitmap_set(kernel_pool, idx, 1)
                /\ collision' = (collision \/ idx \in kernel_pool)
                /\ UNCHANGED <<pte, frame_0>>
        /\ user_lock' = get_a_page_returns
        /\ step' = [step EXCEPT ![p] = "user"]
        /\ scanned' = [scanned EXCEPT ![p] = -1]
        /\ UNCHANGED <<user_pool, vaddr_bitmap, tlb, kernel_lock, call, blocks, panic>>

(* After a panic nothing moves.                                            *)
Next ==
    \/ \E t \in KThreads :
         \/ \E n \in KernelReq, locked \in BOOLEAN : kernel_malloc(t, n, locked)
         \/ vaddr_set(t) \/ palloc_scan(t) \/ palloc_set(t)
         \/ \E b \in blocks : kernel_free(t, b)
         \/ kernel_free_page(t) \/ kernel_free_done(t)
    \/ \E p \in Procs, n \in UserReq : user_malloc(p, n)
    \/ \E b \in blocks : user_free(b)
    \/ page_dir_activate
    \/ \E p \in Procs :
         get_a_page(p) \/ page_table_add_scan(p) \/ page_table_add_set(p)

Spec == Init /\ [][Next]_vars

-----------------------------------------------------------------------------
(* Type invariant.                                                         *)
TypeOK ==
    /\ kernel_pool \subseteq 0 .. KernelFrames - 1
    /\ user_pool \subseteq 0 .. UserFrames - 1
    /\ \A sp \in Spaces : vaddr_bitmap[sp] \subseteq Nat /\ DOMAIN pte[sp] \subseteq Nat
    /\ user_lock \in Procs \cup {NULL}
    /\ kernel_lock \in KThreads \cup {NULL}
    /\ call \in [KThreads -> [at : {"none", "vaddr_set", "scan", "set", "free"},
                              first : Nat, cnt : Nat, next : Nat, idx : Nat]]
    /\ step \in [Procs -> {"start_process", "page_table_add", "palloc", "user"}]
    /\ scanned \in [Procs -> Nat \cup {-1}]
    /\ panic \in {"none", "page_mapped", "stack_page", "frame_freed"}

(* Two things the code does spoil its tables: it acts on a scan that is    *)
(* stale, or that found no free run (collision), and it makes a page table *)
(* of the frame at address 0.                                              *)
TableAtZero == \E p \in Procs : \E i \in DOMAIN pde[p] : pde[p][i] = -1

Undisturbed == ~collision /\ ~TableAtZero

(* Everything that occupies a frame: a mapped page, or a page table.       *)
Uses == {<<"page", sp, v>> : sp \in Spaces, v \in UNION {DOMAIN pte[x] : x \in Spaces}}
          \cup {<<"table", p, i>> : p \in Procs, i \in UNION {DOMAIN pde[x] : x \in Procs}}

InUse(u) == u[3] \in IF u[1] = "page" THEN DOMAIN pte[u[2]] ELSE DOMAIN pde[u[2]]

Frame(u) == IF u[1] = "page" THEN pte[u[2]][u[3]] ELSE pde[u[2]][u[3]]

(* palloc: "scanning or setting the bitmap must be atomic", so no frame is *)
(* ever used for two things.                                               *)
FrameOwnedOnce ==
    \A u, w \in {x \in Uses : InUse(x)} : Frame(u) = Frame(w) => u = w

(* A frame's bit is set exactly while a page or a page table occupies it:  *)
(* nothing in use is handed out again, nothing given back is lost.         *)
FramesAccounted ==
    {Frame(u) : u \in {x \in Uses : InUse(x)}}
      = kernel_pool \cup {KernelFrames + i : i \in user_pool}

(* The page has a present entry, in its own table or in the one at 0.      *)
Mapped(sp, page) ==
    \/ page \in DOMAIN pte[sp]
    \/ /\ sp # kernel
       /\ pde[sp][page \div TablePages] = -1
       /\ page % TablePages \in DOMAIN frame_0
       /\ frame_0[page % TablePages].present

(* The blocks that malloc_pages has handed out are disjoint, reserved in   *)
(* the virtual bitmap and mapped page by page.                             *)
BlocksSound ==
    /\ \A b \in blocks : \A v \in page_range(b[2], b[3]) :
         v \in vaddr_bitmap[b[1]] /\ Mapped(b[1], v)
    /\ \A b, c \in blocks :
         b # c /\ b[1] = c[1] => page_range(b[2], b[3]) \cap page_range(c[2], c[3]) = {}

(* The first frame of the user pool, which mfree_page's ASSERT would       *)
(* refuse, is never freed: the first process to start has it as its stack. *)
FirstUserFrameKept == panic # "frame_freed"

(* user_pool.lock, which every other process waits for, outlives           *)
(* get_a_page only if there was no frame for the stack.                    *)
LockOutlivesOnlyFailure ==
    \A p \in Procs : (step[p] = "user" /\ user_lock = p) => stack_page \notin DOMAIN pte[p]

(* memory.c, vaddr_get: NULL if there is no range of pg_cnt free pages. So *)
(* no request is given pages that are in use, and no ASSERT fails.         *)
NoPanic == panic = "none"

(* memory.c, malloc_pages: a request that fails gives back what it took,   *)
(* so every reserved page belongs to a block, to a call in progress or is  *)
(* a user stack.                                                           *)
NothingLeaked ==
    \A sp \in Spaces :
        vaddr_bitmap[sp] \ {stack_page} \subseteq
            UNION ({page_range(b[2], b[3]) : b \in {x \in blocks : x[1] = sp}}
                     \cup {call_pages(t) : t \in {x \in KThreads : sp = kernel}})

(* memory.c, page_table_pte_remove: the TLB is refreshed, so the processor *)
(* never uses an old translation of a page that is mapped.                 *)
TlbFresh ==
    \A v \in DOMAIN tlb \cap DOMAIN pte[kernel] : tlb[v] = pte[kernel][v]

(* memory.c, page_table_add: every page table's frame comes from the       *)
(* kernel pool.                                                            *)
PageTablesFromKernelPool ==
    \A p \in Procs : \A i \in DOMAIN pde[p] : pde[p][i] \in 0 .. KernelFrames - 1

(* malloc_pages, mfree_page and get_a_page, with kernel threads and        *)
(* starting processes preempted anywhere: as long as neither of the two    *)
(* things above has happened and the machine runs, frames and pages have   *)
(* one owner, are accounted for and mapped, also in the middle of the      *)
(* operations; and no ASSERT of mfree_page fails before.                   *)
PagesInv ==
    /\ TypeOK
    /\ Undisturbed => FirstUserFrameKept
    /\ Undisturbed /\ panic = "none" => FrameOwnedOnce /\ FramesAccounted /\ BlocksSound
=============================================================================
