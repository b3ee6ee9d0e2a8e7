-------------------------------- MODULE Pools --------------------------------
(***************************************************************************)
(* How much memory there is and who manages it: the loader asks the BIOS   *)
(* in three ways (boot/loader.S), mem_pool_init (kernel/memory.c) splits   *)
(* what is behind the first two megabytes into the kernel's pool and the   *)
(* user pool, each with a bitmap.                                          *)
(*                                                                         *)
(* Memory is counted in kilobytes, so a 32-bit word of bytes is a number   *)
(* modulo Word32; bitmaps are counted in bytes.  The BIOS is external.     *)
(***************************************************************************)
EXTENDS Integers, Sequences

CONSTANT Bios   \* the machines: the end of their memory, their answers

Word32 == 4194304                       \* 2^32 bytes
Word16 == 65536

(* cmp and jge compare signed numbers.                                     *)
signed(x) == IF x < Word32 \div 2 THEN x ELSE x - Word32

area_end(a) == (a.base + a.size) % Word32

Area == [base : 0 .. Word32 - 1, size : 0 .. Word32 - 1]
Register == 0 .. Word16 - 1

(* The least memory: the page tables, and one page to manage.              *)
MinMem == 2052

(* A refused call (CF set) answers with nothing.  An answer never tells of *)
(* memory that is not there, in the numbers the loader compares; one area  *)
(* of the map ends where memory ends.  There are less than two gigabytes.  *)
MapAnswer(b) ==
    /\ b.ram \in MinMem .. (Word32 \div 2) - 1
    /\ b.e820 \in Seq(Area)
    /\ \A k \in DOMAIN b.e820 : signed(area_end(b.e820[k])) <= b.ram
    /\ b.e820 # <<>> => \E k \in DOMAIN b.e820 : area_end(b.e820[k]) = b.ram

SizeAnswers(b) ==
    /\ b.e801 \in Seq(Register) /\ b.x88 \in Seq(Register)
    /\ b.e801 # <<>> =>
         Len(b.e801) = 2 /\ b.e801[1] + b.e801[2] * 64 + 1024 \in MinMem .. b.ram
    /\ b.x88 # <<>> => b.x88[1] + 1024 \in MinMem .. b.ram

ASSUME PoolsAssumption == \A b \in Bios : MapAnswer(b) /\ SizeAnswers(b)

VARIABLES
    bios,           \* the machine that is started
    mem_step,       \* where the loader, then the kernel is
    ards,           \* the area .find_max_mem_area looks at
    edx,            \* the memory found so far
    pools           \* kernel_pool, user_pool, kernel_vaddr, once set up

pools_vars == <<bios, mem_step, ards, edx, pools>>

PoolsInit ==
    /\ bios \in Bios
    /\ mem_step = "e820_mem_get_loop"
    /\ ards = 1
    /\ edx = 0
    /\ pools = <<>>

-----------------------------------------------------------------------------
(* .e820_mem_get_loop collects the map, all of it or nothing.              *)
e820_mem_get_loop ==
    /\ mem_step = "e820_mem_get_loop"
    /\ mem_step' = IF bios.e820 = <<>> THEN "try_e801" ELSE "find_max_mem_area"
    /\ UNCHANGED <<bios, ards, edx, pools>>

(* cmp edx,eax and jge: the end of the highest area is kept.  The faulty   *)
(* variant keeps the first one.                                            *)
keep_first(eax) == IF edx # 0 THEN edx ELSE eax

keep_larger(eax) == IF signed(edx) >= signed(eax) THEN edx ELSE eax

find_max_mem_area ==
    /\ mem_step = "find_max_mem_area"
    /\ edx' = keep_larger(area_end(bios.e820[ards]))
    /\ mem_step' = IF ards = Len(bios.e820) THEN "mem_pool_init" ELSE mem_step
    /\ ards' = ards + 1
    /\ UNCHANGED <<bios, pools>>

(* AX counts kilobytes up to 16 MB, BX blocks of 64 KB behind; the first   *)
(* megabyte is added.                                                      *)
e820_failed_so_try_e801 ==
    /\ mem_step = "try_e801"
    /\ IF bios.e801 = <<>>
       THEN mem_step' = "try88" /\ UNCHANGED edx
       ELSE /\ edx' = (bios.e801[1] + 1024 + bios.e801[2] * 64) % Word32
            /\ mem_step' = "mem_pool_init"
    /\ UNCHANGED <<bios, ards, pools>>

e801_failed_so_try88 ==
    /\ mem_step = "try88"
    /\ IF bios.x88 = <<>>
       THEN mem_step' = "hlt" /\ UNCHANGED edx
       ELSE /\ edx' = bios.x88[1] + 1024
            /\ mem_step' = "mem_pool_init"
    /\ UNCHANGED <<bios, ards, pools>>

-----------------------------------------------------------------------------
(* mem_pool_init.  Page counts are uint16_t.                               *)
used_mem == 256 * 4 + 1024

all_free_pages(all_mem) == (((all_mem - used_mem) % Word32) \div 4) % Word16

kernel_free_pages(all_mem) == all_free_pages(all_mem) \div 2

user_free_pages(all_mem) == all_free_pages(all_mem) - kernel_free_pages(all_mem)

(* The faulty variant is one byte of the bitmap too low.                   *)
up_start_rounded(all_mem) == used_mem + (kernel_free_pages(all_mem) \div 8 - 1) * 8 * 4

up_start(all_mem) == used_mem + kernel_free_pages(all_mem) * 4

(* The bitmaps lie one behind the other from MEM_BITMAP_BASE, here 0.      *)
mem_pool_init(all_mem) ==
    LET kbm_length == kernel_free_pages(all_mem) \div 8
        ubm_length == user_free_pages(all_mem) \div 8
    IN  [kernel_pool  |-> [start |-> used_mem, bits |-> 0, len |-> kbm_length],
         user_pool    |-> [start |-> up_start(all_mem), bits |-> kbm_length, len |-> ubm_length],
         kernel_vaddr |-> [bits |-> kbm_length + ubm_length, len |-> kbm_length]]

mem_init ==
    /\ mem_step = "mem_pool_init"
    /\ mem_step' = "done"
    /\ pools' = mem_pool_init(edx)
    /\ UNCHANGED <<bios, ards, edx>>

PoolsNext ==
    \/ e820_mem_get_loop \/ find_max_mem_area
    \/ e820_failed_so_try_e801 \/ e801_failed_so_try88
    \/ mem_init

PoolsSpec == PoolsInit /\ [][PoolsNext]_pools_vars

-----------------------------------------------------------------------------
pool_end(p) == p.start + p.len * 8 * 4

(* Whatever the machine answers, the pools lie behind the page tables of   *)
(* the loader, apart from each other and inside the memory, and the three  *)
(* bitmaps lie apart from each other below main's PCB, 16 KB behind the    *)
(* first.                                                                  *)
PoolsSound ==
    mem_step = "done" =>
        /\ used_mem <= pools.kernel_pool.start
        /\ pool_end(pools.kernel_pool) <= pools.user_pool.start
        /\ pool_end(pools.user_pool) <= bios.ram
        /\ pools.kernel_pool.bits + pools.kernel_pool.len <= pools.user_pool.bits
        /\ pools.user_pool.bits + pools.user_pool.len <= pools.kernel_vaddr.bits
        /\ pools.kernel_vaddr.bits + pools.kernel_vaddr.len <= 16384

(* "The remainder is not handled": at most 14 pages are lost, if the BIOS  *)
(* gives its map and there are less than 258 MB.                           *)
Max16BitPages == 2048 + 4 * Word16

FewPagesLost ==
    (mem_step = "done" /\ bios.e820 # <<>> /\ bios.ram < Max16BitPages) =>
        (bios.ram - used_mem) \div 4
            <= (pools.kernel_pool.len + pools.user_pool.len) * 8 + 14

(* memory.c: four pages of bitmaps, so that 512 MB are supported.          *)
Supports512MB ==
    (mem_step = "done" /\ bios.e820 # <<>> /\ bios.ram <= 512 * 1024) =>
        (bios.ram - used_mem) \div 4
            <= (pools.kernel_pool.len + pools.user_pool.len) * 8 + 14

(* loader.S: the largest area is certainly usable, its type need not be    *)
(* looked at.                                                              *)
PoolsUsable ==
    mem_step = "done" => pool_end(pools.user_pool) <= bios.usable
=============================================================================
