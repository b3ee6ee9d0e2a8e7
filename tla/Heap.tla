-------------------------------- MODULE Heap --------------------------------
(***************************************************************************)
(* The heap of kernel/memory.c: sys_malloc and sys_free on one pool, with  *)
(* its descriptors (the kernel's k_block_descs or a process's              *)
(* u_block_desc).  Both run under the pool's lock, so each is one action.  *)
(* Addresses are offsets into the heap's virtual pages.  malloc_pages      *)
(* (PageAlloc.tla) yields some run of unused pages, or NULL, after which   *)
(* it may keep the run it reserved.                                        *)
(***************************************************************************)
EXTENDS Naturals, Sequences, FiniteSets, SequencesExt

CONSTANTS
    PG_SIZE,        \* 4096
    ArenaSize,      \* sizeof(arena)
    MinBlock,       \* block size of descriptor 0 (16)
    DESC_CNT,       \* number of descriptors (7)
    NPages,         \* pages of the pool
    Sizes           \* bound: the sizes that are asked for

(* block_desc_init: block_size *= 2 after each descriptor.                 *)
block_sizes[d \in Nat] == IF d = 0 THEN MinBlock ELSE 2 * block_sizes[d - 1]

block_size(d) == block_sizes[d]

ASSUME HeapAssumption ==
    /\ {PG_SIZE, ArenaSize, MinBlock, DESC_CNT, NPages} \subseteq Nat \ {0}
    /\ Sizes \subseteq Nat
    /\ ArenaSize + block_size(DESC_CNT - 1) <= PG_SIZE

VARIABLES
    arenas,         \* the arenas, by their address, and their headers
    free_list,      \* the free blocks of each descriptor
    live,           \* what callers hold: address and size asked for
    leaked,         \* virtual pages that a failing malloc_pages kept
    panic           \* a failed ASSERT

vars == <<arenas, free_list, live, leaked, panic>>

Descs == 0 .. DESC_CNT - 1

blocks_per_arena(d) == (PG_SIZE - ArenaSize) \div block_size(d)

max_block == block_size(DESC_CNT - 1)
pool_size == NPages * PG_SIZE

DIV_ROUND_UP(x, step) == (x + step - 1) \div step

(* Faulty variant: the first block lies on the arena's header.             *)
arena2block_on_header(a, d, idx) == a + idx * block_size(d)

arena2block(a, d, idx) == a + ArenaSize + idx * block_size(d)
block2arena(b) == b - (b % PG_SIZE)

(* The first descriptor whose blocks are large enough.                     *)
desc_for(size) ==
    CHOOSE d \in Descs :
        /\ size <= block_size(d)
        /\ \A e \in Descs : size <= block_size(e) => d <= e

Init ==
    /\ arenas = [a \in {} |-> 0]
    /\ free_list = [d \in Descs |-> <<>>]
    /\ live = {}
    /\ leaked = {}
    /\ panic = FALSE

-----------------------------------------------------------------------------
(* The virtual pages that are not reserved, and the places malloc_pages may*)
(* choose from for cnt pages.                                              *)
arena_pages(a) == a \div PG_SIZE .. a \div PG_SIZE + arenas[a].pages - 1

unused_pages ==
    (0 .. NPages - 1) \ (leaked \cup UNION {arena_pages(a) : a \in DOMAIN arenas})

malloc_pages(cnt) ==
    {v * PG_SIZE : v \in {w \in 0 .. NPages - cnt : w .. w + cnt - 1 \subseteq unused_pages}}

add_arena(a, header) ==
    [x \in DOMAIN arenas \cup {a} |-> IF x = a THEN header ELSE arenas[x]]

drop_arena(a) == [x \in DOMAIN arenas \ {a} |-> arenas[x]]

(* More than max_block bytes: whole pages, the arena's header first.       *)
malloc_large(size) ==
    LET page_cnt == DIV_ROUND_UP(size + ArenaSize, PG_SIZE)
    IN  \E a \in malloc_pages(page_cnt) :
            /\ arenas' = add_arena(a, [desc |-> DESC_CNT, cnt |-> page_cnt,
                                       large |-> TRUE, pages |-> page_cnt])
            /\ live' = live \cup {<<a + ArenaSize, size>>}
            /\ UNCHANGED <<free_list, panic>>

(* Take the first free block of d, where free is its list and ars are the  *)
(* arenas.                                                                 *)
take_block(d, size, free, ars) ==
    /\ free_list' = [free_list EXCEPT ![d] = Tail(free)]
    /\ arenas' = [ars EXCEPT ![block2arena(Head(free))].cnt = @ - 1]
    /\ live' = live \cup {<<Head(free), size>>}
    /\ UNCHANGED panic

(* A block from the descriptor's list, refilled from a new arena if it is  *)
(* empty.                                                                  *)
malloc_block(size) ==
    LET d == desc_for(size)
    IN  IF free_list[d] # <<>>
        THEN take_block(d, size, free_list[d], arenas)
        ELSE \E a \in malloc_pages(1) :
               take_block(d, size,
                   [i \in 1 .. blocks_per_arena(d) |-> arena2block(a, d, i - 1)],
                   add_arena(a, [desc |-> d, cnt |-> blocks_per_arena(d),
                                 large |-> FALSE, pages |-> 1]))

(* malloc_pages reserves its run of virtual pages first; when no frame is  *)
(* left for one of them it returns NULL and does not give the run back.    *)
malloc_fails(size) ==
    LET page_cnt == IF size > max_block THEN DIV_ROUND_UP(size + ArenaSize, PG_SIZE) ELSE 1
    IN  /\ size <= max_block => free_list[desc_for(size)] = <<>>
        /\ \E a \in malloc_pages(page_cnt) :
             leaked' = leaked \cup (a \div PG_SIZE .. a \div PG_SIZE + page_cnt - 1)
        /\ UNCHANGED <<arenas, free_list, live, panic>>

(* NULL without a change: a refused size, or no run of virtual pages.      *)
sys_malloc(size) ==
    /\ size > 0 /\ size < pool_size
    /\ \/ malloc_fails(size)
       \/ /\ IF size > max_block THEN malloc_large(size) ELSE malloc_block(size)
          /\ UNCHANGED leaked

-----------------------------------------------------------------------------
(* ++a->cnt, and whether that was the last block of the arena.  Faulty     *)
(* variants: not counted, one too early, never.                            *)
count_block_not(a) == arenas

count_block(a) == [arenas EXCEPT ![a].cnt = @ + 1]

all_free_early(a, d) == arenas[a].cnt + 2 = blocks_per_arena(d)

all_free_never(a, d) == FALSE

all_free(a, d) == arenas[a].cnt + 1 = blocks_per_arena(d)

(* The list that is left when the elements of S are removed, by a recursive*)
(* function because HeapProofs reasons about it.                           *)
without(plist, S) ==
    LET left[n \in 0 .. Len(plist)] ==
          IF n = 0 THEN <<>>
          ELSE IF plist[n] \in S THEN left[n - 1] ELSE Append(left[n - 1], plist[n])
    IN  left[Len(plist)]

(* sys_free of a block: back on the list; an arena whose blocks are all    *)
(* free is taken apart and its page given back.                            *)
free_block(b, a) ==
    LET d     == arenas[a].desc
        free  == Append(free_list[d], b)
        whole == {arena2block(a, d, i) : i \in 0 .. blocks_per_arena(d) - 1}
    IN  IF ~all_free(a, d)
        THEN /\ free_list' = [free_list EXCEPT ![d] = free]
             /\ arenas' = count_block(a)
             /\ UNCHANGED panic
        ELSE IF ~(whole \subseteq ToSet(free))
        THEN /\ panic' = TRUE
             /\ UNCHANGED <<free_list, arenas>>
        ELSE /\ free_list' = [free_list EXCEPT ![d] = without(free, whole)]
             /\ arenas' = drop_arena(a)
             /\ UNCHANGED panic

free_large(a) ==
    /\ arenas' = drop_arena(a)
    /\ UNCHANGED <<free_list, panic>>

sys_free(r) ==
    LET a == block2arena(r[1])
    IN  /\ r \in live
        /\ live' = live \ {r}
        /\ UNCHANGED leaked
        /\ IF arenas[a].large THEN free_large(a) ELSE free_block(r[1], a)

Next ==
    \/ \E size \in Sizes : sys_malloc(size)
    \/ \E r \in live : sys_free(r)

Spec == Init /\ [][Next]_vars

-----------------------------------------------------------------------------
(* Type invariant.                                                         *)
TypeOK ==
    /\ \A a \in DOMAIN arenas :
         /\ a % PG_SIZE = 0 /\ a < pool_size
         /\ arenas[a] \in [desc : 0 .. DESC_CNT, cnt : Nat, large : BOOLEAN, pages : Nat]
    /\ \A d \in Descs : free_list[d] \in Seq(0 .. pool_size - 1)
    /\ \A r \in live : r[1] \in 0 .. pool_size - 1 /\ r[2] \in Sizes
    /\ leaked \subseteq 0 .. NPages - 1
    /\ panic \in BOOLEAN

(* sys_free's ASSERT: an arena that counts as free has all its blocks on   *)
(* the list.                                                               *)
NoPanic == ~panic

Bytes(r) == r[1] .. r[1] + r[2] - 1

(* What callers hold never overlaps: neither another caller's memory nor   *)
(* an arena's header nor a block on a free list, whose link words sit in   *)
(* its first bytes; and it lies inside its own arena's pages.              *)
LiveDisjoint ==
    \A r \in live :
        /\ \A s \in live : r # s => Bytes(r) \cap Bytes(s) = {}
        /\ \A a \in DOMAIN arenas : Bytes(r) \cap (a .. a + ArenaSize - 1) = {}
        /\ \A d \in Descs : \A b \in ToSet(free_list[d]) :
             Bytes(r) \cap (b .. b + block_size(d) - 1) = {}
        /\ LET a == block2arena(r[1])
           IN  a \in DOMAIN arenas /\ \A x \in Bytes(r) : x \div PG_SIZE \in arena_pages(a)

(* arena.cnt counts the free blocks of the arena, each of which is on the  *)
(* list once; an arena with nothing but free blocks does not stay.         *)
CntCountsFreeBlocks ==
    \A a \in DOMAIN arenas :
        LET d == arenas[a].desc
        IN  ~arenas[a].large =>
              /\ arenas[a].cnt < blocks_per_arena(d)
              /\ arenas[a].cnt =
                   Cardinality({i \in DOMAIN free_list[d] : block2arena(free_list[d][i]) = a})
              /\ IsInjective(free_list[d])

(* Memory comes back: when callers hold nothing, no page is left in an     *)
(* arena and no block of a page that was given back is still on a list.    *)
(* The pages of requests that failed half way do not come back.            *)
AllComesBack ==
    live = {} => DOMAIN arenas = {} /\ \A d \in Descs : free_list[d] = <<>>

(* sys_malloc and sys_free keep arenas, free lists and what callers hold   *)
(* consistent, in any order of calls.                                      *)
HeapInv == TypeOK /\ NoPanic /\ LiveDisjoint /\ CntCountsFreeBlocks
=============================================================================
