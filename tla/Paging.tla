------------------------------- MODULE Paging -------------------------------
(***************************************************************************)
(* Page directories and page tables: what the loader builds (boot/loader.S,*)
(* setup_page), what kernel/memory.c changes through pde_ptr and pte_ptr,  *)
(* and the directories create_page_dir (userprog/process.c) makes for      *)
(* processes.  The kernel has no other access to a table than through the  *)
(* directory that is active, whose last entry points to itself.            *)
(*                                                                         *)
(* A virtual address is <<p, q, o>>: indices into the directory, the table *)
(* and the page.  mem is the content of the frames, seen as tables: an     *)
(* entry is a frame, or NONE if its P bit is clear.  Which virtual page is *)
(* free is decided as the bitmaps of PageAlloc do; a frame for a table can *)
(* always be had (PageAlloc models that it cannot).                        *)
(***************************************************************************)
EXTENDS Naturals, FiniteSets, FiniteSetsExt

CONSTANTS
    E,              \* entries of a table (1024)
    K,              \* the first entry of the kernel (768)
    LowPages,       \* entries of the first table the loader fills (256)
    KernelFrames, UserFrames,   \* the two pools
    MaxDirs,        \* bound: directories of processes
    Dirty,          \* whether memory holds garbage when the loader starts
    NONE

Entries == 0 .. E - 1

ASSUME PagingAssumption ==
    /\ {E, K, LowPages, MaxDirs} \subseteq Nat
    /\ K + 2 < E /\ 0 < K /\ LowPages < E
    /\ Dirty \in BOOLEAN

(* The frames of setup_page: the directory, the table of the first entry,  *)
(* and those of the kernel's other entries; low is the first megabyte.     *)
page_dir == 0
table(i) == 1 + (i - K)
low(q) == 1000 + q
BootFrames == {page_dir} \cup {table(i) : i \in K .. E - 2}

(* mem_pool_init: the pools begin behind the frames in use, the kernel's   *)
(* first, and a frame belongs to one of them.                              *)
ASSUME FramesAssumption ==
    /\ KernelFrames \cup UserFrames \subseteq Nat /\ NONE \notin Nat
    /\ KernelFrames \cap UserFrames = {}
    /\ (KernelFrames \cup UserFrames)
         \cap (BootFrames \cup {low(q) : q \in 0 .. LowPages - 1}) = {}

VARIABLES mem, free_k, free_u, cr3, dirs, panic

vars == <<mem, free_k, free_u, cr3, dirs, panic>>

Junk == [i \in Entries |-> page_dir]
Cleared == [i \in Entries |-> NONE]

-----------------------------------------------------------------------------
(* .create_kernel_pde: the tables of the entries 769 .. 1022 exist from    *)
(* the start.  The faulty variant leaves them to page_table_add.           *)
kernel_pde_later(i) == NONE

kernel_pde(i) == table(i)

setup_page ==
    [f \in BootFrames \cup KernelFrames \cup UserFrames |->
       IF f = page_dir
       THEN [i \in Entries |-> CASE i \in {0, K} -> table(K)
                                 [] i = E - 1    -> page_dir
                                 [] i \in K + 1 .. E - 2 -> kernel_pde(i)
                                 [] OTHER        -> NONE]
       ELSE IF f = table(K)
       THEN [i \in Entries |-> IF i < LowPages THEN low(i)
                               ELSE IF Dirty THEN page_dir ELSE NONE]
       ELSE IF f \in BootFrames /\ ~Dirty THEN Cleared
       ELSE Junk]

Init ==
    /\ mem = setup_page
    /\ free_k = KernelFrames /\ free_u = UserFrames
    /\ cr3 = page_dir /\ dirs = {page_dir}
    /\ panic = FALSE

-----------------------------------------------------------------------------
(* The processor: the frame of page <<p, q>> under directory d, and an     *)
(* access to a word of it.                                                 *)
frame(m, d, p, q) == IF m[d][p] = NONE THEN NONE ELSE m[m[d][p]][q]

load(m, d, va) == m[frame(m, d, va[1], va[2])][va[3]]

store(m, d, va, x) == [m EXCEPT ![frame(m, d, va[1], va[2])][va[3]] = x]

pte_ptr(p, q) == <<E - 1, p, q>>

pde_ptr(p) == <<E - 1, E - 1, p>>

(* memset of a page; the faulty variant does nothing.                      *)
memset_page_not(m, d, p, q) == m

memset_page(m, d, p, q) == [m EXCEPT ![frame(m, d, p, q)] = Cleared]

(* page_table_add: a directory entry that is not present gets the frame t  *)
(* as its table, which is cleared through its own address.                 *)
with_table(m, d, p, t) ==
    IF load(m, d, pde_ptr(p)) # NONE THEN m
    ELSE memset_page(store(m, d, pde_ptr(p), t), d, E - 1, p)

new_tables(m, d, p, t) == IF load(m, d, pde_ptr(p)) # NONE THEN {} ELSE {t}

pte_repeat(m, d, p, q, t) == load(with_table(m, d, p, t), d, pte_ptr(p, q)) # NONE

page_table_add(m, d, p, q, f, t) == store(with_table(m, d, p, t), d, pte_ptr(p, q), f)

addr_v2p(m, d, p, q) == load(m, d, pte_ptr(p, q))

stop == panic' = TRUE /\ UNCHANGED <<mem, free_k, free_u, cr3, dirs>>

-----------------------------------------------------------------------------
(* The kernel's virtual pages behind the first megabyte, first fit; those  *)
(* in use are the ones mapped in any directory.                            *)
kernel_pages == {v \in (K .. E - 2) \X Entries : v[1] = K => v[2] >= LowPages}

position(v) == v[1] * E + v[2]

used(v) == \E d \in dirs : \E f \in KernelFrames : frame(mem, d, v[1], v[2]) = f

first_page == CHOOSE v \in {w \in kernel_pages : ~used(w)} :
                \A w \in kernel_pages : ~used(w) => position(v) <= position(w)

(* get_kernel_pages(1), whose page the caller then fills.                  *)
get_kernel_page(f, t) ==
    /\ ~panic
    /\ {f, t} \subseteq free_k /\ f # t
    /\ \E w \in kernel_pages : ~used(w)
    /\ \E v \in {first_page} :
         IF pte_repeat(mem, cr3, v[1], v[2], t) THEN stop
         ELSE /\ mem' = [page_table_add(mem, cr3, v[1], v[2], f, t) EXCEPT ![f] = Junk]
              /\ free_k' = free_k \ ({f} \cup new_tables(mem, cr3, v[1], t))
              /\ UNCHANGED <<free_u, cr3, dirs, panic>>

(* create_page_dir: the new directory, in a cleared page of the kernel,    *)
(* gets the kernel's entries of the active one, and itself as its last     *)
(* entry (faulty: it keeps the entry it has copied).                       *)
own_last_entry_not(m, v) == m

own_last_entry(m, v) == store(m, cr3, <<v[1], v[2], E - 1>>, addr_v2p(m, cr3, v[1], v[2]))

kernel_half(m, v) ==
    LET f == frame(m, cr3, v[1], v[2])
    IN  [m EXCEPT ![f] = [i \in Entries |-> IF i >= K THEN load(m, cr3, pde_ptr(i)) ELSE NONE]]

create_page_dir(f, t) ==
    /\ ~panic
    /\ Cardinality(dirs) <= MaxDirs
    /\ {f, t} \subseteq free_k /\ f # t
    /\ \E w \in kernel_pages : ~used(w)
    /\ \E v \in {first_page} :
         IF pte_repeat(mem, cr3, v[1], v[2], t) THEN stop
         ELSE /\ mem' = own_last_entry(
                          kernel_half(page_table_add(mem, cr3, v[1], v[2], f, t), v), v)
              /\ free_k' = free_k \ ({f} \cup new_tables(mem, cr3, v[1], t))
              /\ dirs' = dirs \cup {f}
              /\ UNCHANGED <<free_u, cr3, panic>>

(* A process gets a page of its own half: its stack's, or one for malloc.  *)
get_user_page(p, q, f, t) ==
    /\ ~panic
    /\ cr3 # page_dir
    /\ f \in free_u /\ t \in free_k
    /\ frame(mem, cr3, p, q) = NONE
    /\ IF pte_repeat(mem, cr3, p, q, t) THEN stop
       ELSE /\ mem' = [page_table_add(mem, cr3, p, q, f, t) EXCEPT ![f] = Junk]
            /\ free_u' = free_u \ {f}
            /\ free_k' = free_k \ new_tables(mem, cr3, p, t)
            /\ UNCHANGED <<cr3, dirs, panic>>

(* mfree_page: pfree and page_table_pte_remove; tables are never freed.    *)
(* What is left in a free frame is junk.                                   *)
mfree_page(p, q) ==
    /\ ~panic
    /\ p >= K \/ cr3 # page_dir
    /\ frame(mem, cr3, p, q) \in (KernelFrames \cup UserFrames) \ dirs
    /\ free_k' = free_k \cup ({frame(mem, cr3, p, q)} \cap KernelFrames)
    /\ free_u' = free_u \cup ({frame(mem, cr3, p, q)} \cap UserFrames)
    /\ mem' = [store(mem, cr3, pte_ptr(p, q), NONE) EXCEPT ![frame(mem, cr3, p, q)] = Junk]
    /\ UNCHANGED <<cr3, dirs, panic>>

(* page_dir_activate, when another task is switched to.                    *)
page_dir_activate(d) ==
    /\ ~panic
    /\ d # cr3
    /\ cr3' = d
    /\ UNCHANGED <<mem, free_k, free_u, dirs, panic>>

(* Frames are interchangeable: the smallest ones are taken.                *)
palloc(free) == {f \in free : \A g \in free : f <= g}

Next ==
    \/ \E f \in palloc(free_k) : \E t \in palloc(free_k \ {f}) :
         get_kernel_page(f, t) \/ create_page_dir(f, t)
    \/ \E p \in 0 .. K - 1, q \in Entries, f \in palloc(free_u), t \in palloc(free_k) :
         get_user_page(p, q, f, t)
    \/ \E p \in 0 .. E - 2, q \in Entries : mfree_page(p, q)
    \/ \E d \in dirs : page_dir_activate(d)

Spec == Init /\ [][Next]_vars

-----------------------------------------------------------------------------
(* The kernel's addresses mean the same in every directory, whichever was  *)
(* active when a page was mapped and however long ago the others were      *)
(* copied: the copies share the tables, and no table is added later.       *)
KernelHalfShared ==
    \A d \in dirs, p \in K .. E - 2, q \in Entries :
        frame(mem, d, p, q) = frame(mem, page_dir, p, q)

(* pde_ptr and pte_ptr reach the active directory's own entries, so that a *)
(* task never edits the tables of another one.                             *)
PtePtrReachesThePte ==
    \A p \in Entries :
        /\ frame(mem, cr3, E - 1, E - 1) = cr3
        /\ mem[cr3][p] # NONE => frame(mem, cr3, E - 1, p) = mem[cr3][p]

(* A new table holds no stale entries, so that page_table_add finds its    *)
(* entry clear and a process sees only frames it was given: no frame that  *)
(* is free, and none that another directory maps in its own half.          *)
UserHalfPrivate ==
    /\ ~panic
    /\ \A d \in dirs \ {page_dir}, p \in 0 .. K - 1, q \in Entries :
         LET f == frame(mem, d, p, q)
         IN  f # NONE =>
               /\ f \in UserFrames \ free_u
               /\ \A c \in dirs, r \in 0 .. K - 1, s \in Entries :
                    frame(mem, c, r, s) = f => <<c, r, s>> = <<d, p, q>>

(* memory.c, page_table_add: a page table has no stale data in it.         *)
NoPanic == ~panic
=============================================================================
