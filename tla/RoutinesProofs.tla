--------------------------- MODULE RoutinesProofs ---------------------------
(***************************************************************************)
(* Proofs about the parts that run alone: the memory pools, for every map  *)
(* and every size of memory the BIOS may report; the cursor, for every     *)
(* size of the screen and whatever is printed or typed, whether or not     *)
(* interrupts come between the steps of put_char; what the screen shows,   *)
(* when they do not; the way into the kernel and out again, for every      *)
(* sequence of entries; the segments and gates, wherever the TSS lies; the *)
(* partition scan, for disks with any number of partition tables; the      *)
(* numbers that are printed, for words of any width.                       *)
(***************************************************************************)
EXTENDS Pools, Screen, Entry, Segments, Partition, Numerals, FiniteSetTheorems,
        SequenceTheorems, NaturalsInduction, WellFoundedInduction, TLAPS

(* The loader's knowledge at each step: edx is the highest end of the      *)
(* areas seen so far, and what mem_pool_init is given is memory that       *)
(* exists.                                                                 *)
Steps == {"e820_mem_get_loop", "find_max_mem_area", "try_e801", "try88",
          "mem_pool_init", "done", "hlt"}

Found == edx \in MinMem .. bios.ram /\ (bios.e820 # <<>> => edx = bios.ram)

PoolsInv ==
    /\ bios \in Bios
    /\ mem_step \in Steps
    /\ mem_step = "e820_mem_get_loop" => edx = 0 /\ ards = 1
    /\ mem_step = "find_max_mem_area" =>
         /\ ards \in 1 .. Len(bios.e820)
         /\ edx \in 0 .. bios.ram
         /\ \A k \in 1 .. ards - 1 : signed(area_end(bios.e820[k])) <= edx
    /\ mem_step \in {"try_e801", "try88"} => bios.e820 = <<>>
    /\ mem_step \in {"mem_pool_init", "done"} => Found
    /\ mem_step = "done" => pools = mem_pool_init(edx)

(* Division and remainder by the numbers mem_pool_init uses.               *)
LEMMA Division ==
    ASSUME NEW a \in Nat
    PROVE  /\ a \div 2 \in Nat /\ 2 * (a \div 2) <= a /\ a <= 2 * (a \div 2) + 1
           /\ a \div 4 \in Nat /\ 4 * (a \div 4) <= a
           /\ a \div 8 \in Nat /\ 8 * (a \div 8) <= a /\ a <= 8 * (a \div 8) + 7
BY SMT

LEMMA Remainder ==
    ASSUME NEW a \in Nat
    PROVE  /\ a % 65536 \in Nat /\ a % 65536 < 65536 /\ a % 65536 <= a
           /\ a < 65536 => a % 65536 = a
           /\ a % 4194304 \in Nat /\ a % 4194304 < 4194304
           /\ a < 4194304 => a % 4194304 = a
BY SMT

LEMMA WordsAreNat ==
    /\ \A x \in 0 .. Word32 - 1 : x \in Nat
    /\ \A x \in Register : x \in Nat
<1>1. \A n \in Int : \A x \in 0 .. n : x \in Nat
  BY SMT
<1>2. Word32 - 1 \in Int /\ Word16 - 1 \in Int
  BY SMT DEF Word32, Word16
<1> QED BY <1>1, <1>2 DEF Register

LEMMA Halves == Word32 \div 2 = 2097152 /\ Word16 \div 2 = 32768
BY SMT DEF Word32, Word16

(* The page counts of mem_pool_init, for any memory of more than 2 MB:     *)
(* they fit behind the tables and into the memory.                         *)
LEMMA PageCounts ==
    ASSUME NEW m \in Nat, 2052 <= m, m < 2097152
    PROVE  /\ all_free_pages(m) \in Nat /\ all_free_pages(m) < 65536
           /\ kernel_free_pages(m) \in Nat /\ kernel_free_pages(m) <= 32768
           /\ user_free_pages(m) \in Nat /\ user_free_pages(m) <= 32768
           /\ kernel_free_pages(m) + user_free_pages(m) = all_free_pages(m)
           /\ all_free_pages(m) * 4 <= m - used_mem
           /\ m < Max16BitPages => all_free_pages(m) = (m - used_mem) \div 4
<1>0. used_mem = 2048
  BY SMT DEF used_mem
<1> DEFINE free == m - used_mem
           pages == free \div 4
           all == all_free_pages(m)
           half == all \div 2
<1>1. free \in Nat /\ free < 4194304
  BY <1>0, SMT
<1>2. all = ((free % Word32) \div 4) % Word16
  BY DEF all_free_pages
<1>3. kernel_free_pages(m) = half /\ user_free_pages(m) = all - half
  BY SMT DEF kernel_free_pages, user_free_pages
<1>4. m < Max16BitPages => free < 262144
  BY <1>0, SMT DEF Max16BitPages, Word16
<1> HIDE DEF free
<1>5. free % Word32 = free
  BY <1>1, Remainder, SMT DEF Word32
<1>6. pages \in Nat /\ 4 * pages <= free
  BY <1>1, Division, SMT
<1>7. all = pages % Word16
  BY <1>2, <1>5
<1> HIDE DEF pages, all
<1>8. /\ all \in Nat /\ all < 65536 /\ all <= pages
      /\ pages < 65536 => all = pages
  BY <1>6, <1>7, Remainder, SMT DEF Word16
<1>9. half \in Nat /\ 2 * half <= all /\ all <= 2 * half + 1
  BY <1>8, Division, SMT
<1> HIDE DEF half
<1>10. all * 4 <= free
  BY <1>1, <1>6, <1>8, SMT
<1>11. m < Max16BitPages => all = pages
  BY <1>1, <1>4, <1>6, <1>8, SMT
<1>12. half <= 32768 /\ all - half \in Nat /\ all - half <= 32768 /\ half + (all - half) = all
  BY <1>8, <1>9, SMT
<1> QED BY <1>3, <1>8, <1>9, <1>10, <1>11, <1>12, SMT DEF all, pages, free

(* What mem_pool_init builds from them: bitmaps of whole bytes, which      *)
(* never count more pages than there are, and at most seven fewer each.    *)
LEMMA Layout ==
    ASSUME NEW m \in Nat, 2052 <= m, m < 2097152, NEW p, p = mem_pool_init(m)
    PROVE  /\ p.kernel_pool.start = used_mem
           /\ pool_end(p.kernel_pool) <= p.user_pool.start
           /\ pool_end(p.user_pool) \in Nat /\ pool_end(p.user_pool) <= m
           /\ p.kernel_pool.bits + p.kernel_pool.len <= p.user_pool.bits
           /\ p.user_pool.bits + p.user_pool.len <= p.kernel_vaddr.bits
           /\ p.kernel_vaddr.bits + p.kernel_vaddr.len <= 16384
           /\ all_free_pages(m) <= (p.kernel_pool.len + p.user_pool.len) * 8 + 14
<1> DEFINE k == kernel_free_pages(m)
           u == user_free_pages(m)
           kb == k \div 8
           ub == u \div 8
<1>0. used_mem = 2048
  BY SMT DEF used_mem
<1>1. /\ k \in Nat /\ k <= 32768 /\ u \in Nat /\ u <= 32768
      /\ k + u = all_free_pages(m)
      /\ all_free_pages(m) \in Nat
      /\ all_free_pages(m) * 4 <= m - 2048
  BY <1>0, PageCounts, SMT
<1>2. /\ p.kernel_pool.start = used_mem /\ p.kernel_pool.bits = 0 /\ p.kernel_pool.len = kb
      /\ p.user_pool.start = used_mem + k * 4
      /\ p.user_pool.bits = kb /\ p.user_pool.len = ub
      /\ p.kernel_vaddr.bits = kb + ub /\ p.kernel_vaddr.len = kb
  BY SMT DEF mem_pool_init, up_start
<1>3. /\ pool_end(p.kernel_pool) = used_mem + kb * 8 * 4
      /\ pool_end(p.user_pool) = used_mem + k * 4 + ub * 8 * 4
  BY <1>2, SMT DEF pool_end
<1> HIDE DEF k, u
<1>4. /\ kb \in Nat /\ 8 * kb <= k /\ k <= 8 * kb + 7
      /\ ub \in Nat /\ 8 * ub <= u /\ u <= 8 * ub + 7
  BY <1>1, Division, SMT
<1> HIDE DEF kb, ub
<1> QED BY <1>0, <1>1, <1>2, <1>3, <1>4, SMT

(* Numbers below 2 GB are not negative to the loader, the others are.      *)
LEMMA Signed ==
    ASSUME NEW x \in Nat, x < 4194304
    PROVE  /\ signed(x) \in Int
           /\ x < 2097152 => signed(x) = x
           /\ 2097152 <= x => signed(x) < 0
BY Halves, SMT DEF signed, Word32

(* What the assumption says of one machine.                                *)
LEMMA Machine ==
    ASSUME NEW b \in Bios
    PROVE  /\ b.ram \in Nat /\ 2052 <= b.ram /\ b.ram < 2097152
           /\ Len(b.e820) \in Nat /\ DOMAIN b.e820 = 1 .. Len(b.e820)
           /\ b.e820 # <<>> => 1 <= Len(b.e820)
           /\ \A j \in 1 .. Len(b.e820) :
                /\ area_end(b.e820[j]) \in Nat /\ area_end(b.e820[j]) < 4194304
                /\ signed(area_end(b.e820[j])) <= b.ram
           /\ b.e820 # <<>> => \E j \in 1 .. Len(b.e820) : area_end(b.e820[j]) = b.ram
<1>0. MapAnswer(b)
  BY PoolsAssumption
<1>1. b.ram \in MinMem .. (Word32 \div 2) - 1 /\ b.e820 \in Seq(Area)
  BY <1>0 DEF MapAnswer
<1>2. b.ram \in Nat /\ 2052 <= b.ram /\ b.ram < 2097152
  BY <1>1, Halves, SMT DEF MinMem
<1>3. /\ Len(b.e820) \in Nat /\ DOMAIN b.e820 = 1 .. Len(b.e820)
      /\ b.e820 # <<>> => 1 <= Len(b.e820)
      /\ \A j \in 1 .. Len(b.e820) : b.e820[j] \in Area
  BY <1>1, SMT
<1>4. \A a \in Area : area_end(a) \in Nat /\ area_end(a) < 4194304
  <2> TAKE a \in Area
  <2>1. a.base \in 0 .. Word32 - 1 /\ a.size \in 0 .. Word32 - 1
    BY DEF Area
  <2> DEFINE sum == a.base + a.size
  <2>2. sum \in Nat
    BY <2>1, WordsAreNat, SMT
  <2>3. area_end(a) = sum % Word32
    BY DEF area_end
  <2> HIDE DEF sum
  <2> QED BY <2>2, <2>3, Remainder, SMT DEF Word32
<1>5. \A j \in 1 .. Len(b.e820) : signed(area_end(b.e820[j])) <= b.ram
  BY <1>0, <1>3 DEF MapAnswer
<1>6. b.e820 # <<>> => \E j \in 1 .. Len(b.e820) : area_end(b.e820[j]) = b.ram
  BY <1>0, <1>3 DEF MapAnswer
<1> QED BY <1>2, <1>3, <1>4, <1>5, <1>6, SMT

LEMMA InitPools == PoolsInit => PoolsInv
BY SMT DEF PoolsInit, PoolsInv, Steps

LEMMA NextPools == PoolsInv /\ [PoolsNext]_pools_vars => PoolsInv'
<1> SUFFICES ASSUME PoolsInv, [PoolsNext]_pools_vars PROVE PoolsInv'
  OBVIOUS
<1>0. /\ bios \in Bios
      /\ bios.ram \in Nat /\ 2052 <= bios.ram /\ bios.ram < 2097152
      /\ Len(bios.e820) \in Nat /\ DOMAIN bios.e820 = 1 .. Len(bios.e820)
      /\ bios.e820 # <<>> => 1 <= Len(bios.e820)
  BY Machine, SMT DEF PoolsInv
<1>1. CASE e820_mem_get_loop
  <2>1. bios.e820 # <<>> => 1 \in 1 .. Len(bios.e820) /\ 0 \in 0 .. bios.ram
    BY <1>0, SMT
  <2>2. 1 .. 1 - 1 = {}
    BY SMT
  <2>3. mem_step = "e820_mem_get_loop" /\ edx = 0 /\ ards = 1
    BY <1>1, SMT DEF e820_mem_get_loop, PoolsInv
  <2> QED BY <1>0, <1>1, <2>1, <2>2, <2>3, SMT DEF e820_mem_get_loop, PoolsInv, Steps
<1>2. CASE find_max_mem_area
  <2> DEFINE eax == area_end(bios.e820[ards])
  <2>1. /\ ards \in 1 .. Len(bios.e820)
        /\ bios' = bios /\ pools' = pools
        /\ edx \in 0 .. bios.ram
        /\ \A k \in 1 .. ards - 1 : signed(area_end(bios.e820[k])) <= edx
        /\ edx' = keep_larger(eax) /\ ards' = ards + 1
        /\ mem_step' = IF ards = Len(bios.e820) THEN "mem_pool_init" ELSE "find_max_mem_area"
    BY <1>2, SMT DEF find_max_mem_area, PoolsInv
  <2>2. eax \in Nat /\ eax < 4194304 /\ signed(eax) <= bios.ram
    BY <1>0, <2>1, Machine, SMT
  <2>3. edx \in Nat /\ edx <= bios.ram /\ edx < 2097152
    BY <1>0, <2>1, SMT
  <2>4. signed(edx) = edx
    BY <2>3, Signed, SMT
  <2>5. /\ signed(eax) \in Int
        /\ eax < 2097152 => signed(eax) = eax
        /\ 2097152 <= eax => signed(eax) < 0
    BY <2>2, Signed, SMT
  <2>6. edx' = IF edx >= signed(eax) THEN edx ELSE eax
    BY <2>1, <2>4, SMT DEF keep_larger
  <2> HIDE DEF eax
  <2>7. edx' \in Nat /\ edx' <= bios.ram /\ edx <= edx' /\ signed(eax) <= edx'
    BY <1>0, <2>2, <2>3, <2>5, <2>6, SMT
  <2>8. \A k \in 1 .. ards : signed(area_end(bios.e820[k])) <= edx'
    <3> TAKE k \in 1 .. ards
    <3>1. CASE k = ards
      BY <3>1, <2>7, SMT DEF eax
    <3>2. CASE k # ards
      <4>1. k \in 1 .. ards - 1 /\ k \in 1 .. Len(bios.e820)
        BY <1>0, <3>2, <2>1, SMT
      <4>2. signed(area_end(bios.e820[k])) \in Int
        BY <1>0, <4>1, Machine, Signed, SMT
      <4>3. signed(area_end(bios.e820[k])) <= edx
        BY <2>1, <4>1, SMT
      <4> QED BY <4>2, <4>3, <2>3, <2>7, SMT
    <3> QED BY <3>1, <3>2, SMT
  <2>9. CASE ards = Len(bios.e820)
    <3>1. bios.e820 # <<>>
      BY <1>0, <2>1, SMT
    <3>2. PICK j \in 1 .. Len(bios.e820) : area_end(bios.e820[j]) = bios.ram
      BY <1>0, <3>1, Machine, SMT
    <3>3. signed(bios.ram) = bios.ram
      BY <1>0, Signed, SMT
    <3>4. bios.ram <= edx'
      BY <2>8, <2>9, <3>2, <3>3, SMT
    <3>5. edx' = bios.ram /\ edx' \in MinMem .. bios.ram
      BY <1>0, <2>7, <3>4, SMT DEF MinMem
    <3> QED BY <1>0, <2>1, <2>9, <3>5, SMT DEF PoolsInv, Steps, Found
  <2>10. CASE ards # Len(bios.e820)
    <3>1. ards' \in 1 .. Len(bios.e820) /\ 1 .. ards' - 1 = 1 .. ards
      BY <1>0, <2>1, <2>10, SMT
    <3>2. edx' \in 0 .. bios.ram
      BY <1>0, <2>7, SMT
    <3> QED BY <1>0, <2>1, <2>8, <2>10, <3>1, <3>2, SMT DEF PoolsInv, Steps
  <2> QED BY <2>9, <2>10, SMT
<1>3. CASE e820_failed_so_try_e801
  <2> DEFINE low == bios.e801[1]
             high == bios.e801[2]
  <2>0. SizeAnswers(bios)
    BY <1>0, PoolsAssumption
  <2>1. bios.e801 # <<>> => low + high * 64 + 1024 \in MinMem .. bios.ram
    BY <2>0 DEF SizeAnswers
  <2>2. bios.e801 # <<>> => low \in Register /\ high \in Register
    BY <2>0, SMT DEF SizeAnswers
  <2>3. bios.e801 # <<>> => low \in Nat /\ high \in Nat
    BY <2>2, WordsAreNat
  <2> HIDE DEF low, high
  <2>4. ASSUME bios.e801 # <<>>
        PROVE  /\ low + 1024 + high * 64 \in Nat
               /\ low + 1024 + high * 64 \in MinMem .. bios.ram
               /\ low + 1024 + high * 64 < 4194304
    BY <2>4, <1>0, <2>1, <2>3, SMT DEF MinMem
  <2>5. bios.e801 # <<>> => (low + 1024 + high * 64) % Word32 \in MinMem .. bios.ram
    BY <2>4, Remainder, SMT DEF Word32
  <2> QED BY <1>3, <2>5, SMT DEF e820_failed_so_try_e801, PoolsInv, Steps, Found, low, high
<1>4. CASE e801_failed_so_try88
  <2>1. bios.x88 # <<>> => bios.x88[1] + 1024 \in MinMem .. bios.ram
    BY <1>0, PoolsAssumption DEF SizeAnswers
  <2> QED BY <1>4, <2>1, SMT DEF e801_failed_so_try88, PoolsInv, Steps, Found
<1>5. CASE mem_init
  BY <1>5, SMT DEF mem_init, PoolsInv, Steps, Found
<1>6. CASE UNCHANGED pools_vars
  BY <1>6, SMT DEF pools_vars, PoolsInv, Found
<1> QED BY <1>1, <1>2, <1>3, <1>4, <1>5, <1>6, SMT DEF PoolsNext

(* For every machine: the pools and their bitmaps are where they should be.*)
THEOREM PoolsLaidOut == PoolsSpec => []PoolsSound
<1>1. PoolsInv => PoolsSound
  <2> SUFFICES ASSUME PoolsInv, mem_step = "done" PROVE PoolsSound
    BY SMT DEF PoolsSound
  <2>1. bios \in Bios /\ edx \in MinMem .. bios.ram /\ pools = mem_pool_init(edx)
    BY SMT DEF PoolsInv, Found
  <2>2. bios.ram \in Nat /\ bios.ram < 2097152
    BY <2>1, Machine, SMT
  <2>3. edx \in Nat /\ 2052 <= edx /\ edx < 2097152 /\ edx <= bios.ram
    BY <2>1, <2>2, SMT DEF MinMem
  <2>4. pool_end(pools.user_pool) \in Nat /\ pool_end(pools.user_pool) <= edx
    BY <2>1, <2>3, Layout, SMT
  <2>5. pool_end(pools.user_pool) <= bios.ram
    BY <2>2, <2>3, <2>4, SMT
  <2>6. used_mem <= used_mem
    BY SMT DEF used_mem
  <2> QED BY <2>1, <2>3, <2>5, <2>6, Layout, SMT DEF PoolsSound
<1> QED BY InitPools, NextPools, <1>1, PTL DEF PoolsSpec

(* For every machine of less than 258 MB that gives its map: at most 14    *)
(* pages are managed by neither pool.                                      *)
THEOREM PagesKept == PoolsSpec => []FewPagesLost
<1>1. PoolsInv => FewPagesLost
  <2> SUFFICES ASSUME PoolsInv, mem_step = "done", bios.e820 # <<>>, bios.ram < Max16BitPages
               PROVE  (bios.ram - used_mem) \div 4
                         <= (pools.kernel_pool.len + pools.user_pool.len) * 8 + 14
    BY SMT DEF FewPagesLost
  <2>1. bios \in Bios /\ edx = bios.ram /\ pools = mem_pool_init(bios.ram)
    BY SMT DEF PoolsInv, Found
  <2>2. bios.ram \in Nat /\ 2052 <= bios.ram /\ bios.ram < 2097152
    BY <2>1, Machine, SMT
  <2>3. all_free_pages(bios.ram) = (bios.ram - used_mem) \div 4
    BY <2>2, PageCounts, SMT
  <2> QED BY <2>1, <2>2, <2>3, Layout, SMT
<1> QED BY InitPools, NextPools, <1>1, PTL DEF PoolsSpec

-----------------------------------------------------------------------------
OnScreen == 0 .. Cells - 1

LEMMA Sizes ==
    /\ Cols \in Nat /\ 1 <= Cols /\ Cells \in Nat /\ Cols <= Cells
    /\ Limit \in Nat /\ Cells <= Limit /\ Limit < WordMod
<1>1. Rows \in Nat \ {0} /\ Cols \in Nat \ {0} /\ Limit \in Cells .. WordMod - 1
  BY ScreenAssumption
<1>2. \A a \in Nat \ {0}, b \in Nat \ {0} : a * b \in Nat /\ b <= a * b
  BY SMT
<1>3. Cells \in Nat /\ Cols <= Cells
  BY <1>1, <1>2 DEF Cells
<1>4. WordMod \in Nat
  BY SMT DEF WordMod
<1> QED BY <1>1, <1>3, <1>4, SMT

(* A new line starts on the screen, also from just behind its end.         *)
LEMMA LineFeedStays ==
    ASSUME NEW v, NEW b \in Nat, b <= Cells
    PROVE  line_feed(v, b).bx \in OnScreen
<1> DEFINE m == b % Cols
<1>1. m \in Nat /\ m <= b /\ m < Cols
  BY Sizes, SMT
<1> DEFINE next == b - (b % Cols) + Cols
<1>2. next = b - m + Cols
  OBVIOUS
<1> HIDE DEF m
<1>3. next \in Nat
  BY <1>1, <1>2, Sizes, SMT
<1>4. line_feed(v, b).bx = IF next < Cells THEN next ELSE Cells - Cols
  BY DEF line_feed
<1> HIDE DEF next
<1> QED BY <1>3, <1>4, Sizes, SMT DEF OnScreen

(* The cell before one on the screen, or one behind the video segment.     *)
LEMMA BeforeStays ==
    ASSUME NEW b \in OnScreen, ~(before(b) >= Limit)
    PROVE  before(b) \in OnScreen
<1> DEFINE y == b + WordMod - 1
<1>1. b \in Nat /\ b < Cells
  BY Sizes, SMT DEF OnScreen
<1>2. y \in Nat /\ y = b + 65535 /\ y < 131071
  BY <1>1, Sizes, SMT DEF WordMod
<1>3. before(b) = y % 65536
  BY DEF before, WordMod
<1> HIDE DEF y
<1>4. /\ y < 65536 => y % 65536 = y
      /\ 65536 <= y => y % 65536 = y - 65536
  BY <1>2, SMT
<1> QED BY <1>1, <1>2, <1>3, <1>4, Sizes, SMT DEF OnScreen, WordMod

(* Whatever is put, the cursor stays.                                      *)
LEMMA PutStays ==
    ASSUME NEW v, NEW b \in OnScreen, NEW c, NEW attr, ~faults(c, b)
    PROVE  put(v, b, c, attr).bx \in OnScreen
<1>1. b \in Nat /\ b + 1 \in Nat /\ b <= Cells /\ b + 1 <= Cells
  BY Sizes, SMT DEF OnScreen
<1>2. CASE c \in {"CR", "LF"}
  BY <1>1, <1>2, LineFeedStays DEF put
<1>3. CASE c = "BS"
  <2>1. before(b) \in OnScreen
    BY <1>3, BeforeStays DEF faults
  <2> QED BY <1>3, <2>1 DEF put, backspace
<1>4. CASE c \notin {"CR", "LF"} /\ c # "BS"
  <2> DEFINE w == [v EXCEPT ![b] = <<c, attr>>]
  <2>1. put(v, b, c, attr) = put_other(v, b, <<c, attr>>)
    BY <1>4 DEF put
  <2>2. put_other(v, b, <<c, attr>>).bx =
           IF on_screen(b + 1) THEN b + 1 ELSE line_feed(w, b + 1).bx
    BY DEF put_other
  <2> HIDE DEF w
  <2>3. line_feed(w, b + 1).bx \in OnScreen
    BY <1>1, LineFeedStays
  <2>4. on_screen(b + 1) => b + 1 \in OnScreen
    BY <1>1, Sizes, SMT DEF on_screen, OnScreen
  <2> QED BY <2>1, <2>2, <2>3, <2>4
<1> QED BY <1>2, <1>3, <1>4

(* put_char never leaves the screen.                                       *)
THEOREM CursorStays == Spec => []CursorOnScreen
<1>1. Init => CursorOnScreen
  BY Sizes, SMT DEF Init, CursorOnScreen
<1>2. CursorOnScreen /\ [Next]_vars => CursorOnScreen'
  <2> SUFFICES ASSUME cursor \in OnScreen, bx \in OnScreen, [Next]_vars
               PROVE  cursor' \in OnScreen /\ bx' \in OnScreen
    BY DEF CursorOnScreen, OnScreen
  <2>0. 0 \in OnScreen
    BY Sizes, SMT DEF OnScreen
  <2>1. ASSUME NEW s \in Strings, put_str(s) PROVE cursor' \in OnScreen /\ bx' \in OnScreen
    BY <2>1 DEF put_str
  <2>2. CASE get_cursor
    BY <2>2 DEF get_cursor
  <2>3. CASE write
    <3>1. CASE faults(Head(str), bx)
      BY <2>3, <3>1 DEF write, gp_fault
    <3>2. CASE ~faults(Head(str), bx)
      BY <2>3, <3>2, PutStays DEF write
    <3> QED BY <3>1, <3>2
  <2>4. CASE set_cursor
    BY <2>0, <2>4 DEF set_cursor
  <2>5. ASSUME NEW c \in Keys, intr_keyboard_handler(c)
        PROVE  cursor' \in OnScreen /\ bx' \in OnScreen
    <3>1. CASE faults(c, cursor)
      BY <2>5, <3>1 DEF intr_keyboard_handler, gp_fault
    <3>2. CASE ~faults(c, cursor)
      BY <2>5, <3>2, PutStays DEF intr_keyboard_handler
    <3> QED BY <3>1, <3>2
  <2>6. CASE UNCHANGED vars
    BY <2>6 DEF vars
  <2> QED BY <2>1, <2>2, <2>3, <2>4, <2>5, <2>6 DEF Next
<1> QED BY <1>1, <1>2, PTL DEF Spec

-----------------------------------------------------------------------------
(* Arithmetic: quotients and remainders, products.                         *)
LEMMA DivMod ==
    ASSUME NEW x \in Nat, NEW n \in Nat \ {0}
    PROVE  \E p, q \in Nat : p = x \div n /\ q = x % n /\ q < n /\ x = n * p + q
<1>1. PICK p, q : p = x \div n /\ q = x % n
  OBVIOUS
<1>2. p \in Nat /\ q \in Nat /\ q < n
  BY <1>1
<1>3. x % n = x - n * (x \div n)
  BY SMTT(60)
<1>4. q = x - n * p
  BY <1>1, <1>3, Zenon
<1>5. n * p \in Nat
  BY <1>2
<1>6. x = n * p + q
  BY <1>2, <1>4, <1>5
<1> QED BY <1>1, <1>2, <1>6, Zenon

LEMMA Products ==
    ASSUME NEW a \in Nat, NEW b \in Nat, NEW c \in Nat, a <= b
    PROVE  c * a \in Nat /\ c * b \in Nat /\ c * a <= c * b
  OBVIOUS

LEMMA ProductOfNext ==
    ASSUME NEW a \in Nat, NEW c \in Nat
    PROVE  c * (a + 1) = c * a + c
  OBVIOUS

(* The only quotient and remainder.                                        *)
LEMMA DivUnique ==
    ASSUME NEW n \in Nat \ {0}, NEW q \in Nat, NEW r \in Nat, r < n
    PROVE  (n * q + r) \div n = q /\ (n * q + r) % n = r
<1> DEFINE x == n * q + r
<1>1. n * q \in Nat /\ x \in Nat
  BY Products
<1>3. x = n * q + r
  OBVIOUS
<1> HIDE DEF x
<1>2. PICK p, rest \in Nat : p = x \div n /\ rest = x % n /\ rest < n /\ x = n * p + rest
  BY <1>1, DivMod
<1>4. CASE p < q
  <2>1. n * (p + 1) <= n * q /\ n * (p + 1) = n * p + n /\ n * p \in Nat
    BY <1>2, <1>4, Products, ProductOfNext
  <2> QED BY <1>1, <1>2, <1>3, <2>1
<1>5. CASE q < p
  <2>1. n * (q + 1) <= n * p /\ n * (q + 1) = n * q + n /\ n * p \in Nat
    BY <1>2, <1>5, Products, ProductOfNext
  <2> QED BY <1>1, <1>2, <1>3, <2>1
<1>6. p = q /\ rest = r
  BY <1>1, <1>2, <1>3, <1>4, <1>5
<1> QED BY <1>2, <1>6, Zenon DEF x

(* The text of the array, and the row and the column of a place in it.     *)
TextOf(v) == [r \in 1 .. Rows |-> [c \in 0 .. Cols - 1 |-> v[(r - 1) * Cols + c]]]
RowOf(b) == b \div Cols
ColOf(b) == b % Cols
EmptyRow == [c \in 0 .. Cols - 1 |-> Space]

(* The array with one cell changed, the text with one character changed.   *)
Placed(v, b, cell) == [v EXCEPT ![b] = cell]
WithCell(t, q, k, cell) == [t EXCEPT ![q + 1][k] = cell]

LEMMA Grid ==
    /\ Rows \in Nat \ {0} /\ Cols \in Nat \ {0} /\ Cells \in Nat /\ Cols <= Cells
    /\ Cells = Cols * Rows /\ Cells - Cols = Cols * (Rows - 1) /\ Cells < WordMod
<1>1. Rows \in Nat \ {0} /\ Cols \in Nat \ {0} /\ Limit \in Cells .. WordMod - 1
  BY ScreenAssumption
<1>2. Cells = Cols * Rows
  BY <1>1 DEF Cells
<1> DEFINE last == Rows - 1
<1>3. last \in Nat /\ Rows = last + 1
  BY <1>1
<1> HIDE DEF last
<1>4. Cols * (last + 1) = Cols * last + Cols /\ Cols * last \in Nat
  BY <1>1, <1>3, ProductOfNext, Products
<1>5. Cells = Cols * last + Cols
  BY <1>2, <1>3, <1>4
<1>6. Cells \in Nat /\ Cols <= Cells /\ Cells - Cols = Cols * last
  BY <1>1, <1>4, <1>5
<1> QED BY <1>1, <1>2, <1>6 DEF WordMod, last

(* The place of row q and column k; every cell has one.                    *)
LEMMA Place ==
    ASSUME NEW q \in 0 .. Rows - 1, NEW k \in 0 .. Cols - 1
    PROVE  /\ q * Cols + k \in OnScreen
           /\ RowOf(q * Cols + k) = q /\ ColOf(q * Cols + k) = k
<1>1. q \in Nat /\ k \in Nat /\ k < Cols /\ q + 1 <= Rows /\ Cols \in Nat \ {0} /\ Rows \in Nat
  BY Grid
<1>2. Cols * (q + 1) <= Cols * Rows /\ Cols * (q + 1) = Cols * q + Cols /\ Cols * q \in Nat
  BY <1>1, Products, ProductOfNext
<1>3. (Cols * q + k) \div Cols = q /\ (Cols * q + k) % Cols = k
  BY <1>1, DivUnique
<1>4. q * Cols = Cols * q
  BY <1>1
<1>5. Cols * q + k \in Nat /\ Cols * q + k < Cells /\ Cells \in Nat
  BY <1>1, <1>2, Grid
<1> QED BY <1>3, <1>4, <1>5 DEF OnScreen, RowOf, ColOf

LEMMA PlaceOf ==
    ASSUME NEW b \in OnScreen
    PROVE  /\ RowOf(b) \in 0 .. Rows - 1 /\ ColOf(b) \in 0 .. Cols - 1
           /\ b = RowOf(b) * Cols + ColOf(b)
<1>1. b \in Nat /\ b < Cells /\ Cols \in Nat \ {0} /\ Rows \in Nat /\ Cells = Cols * Rows
  BY Grid DEF OnScreen
<1>2. PICK q, k \in Nat : q = b \div Cols /\ k = b % Cols /\ k < Cols /\ b = Cols * q + k
  BY <1>1, DivMod
<1>3. q < Rows
  <2> SUFFICES ASSUME Rows <= q PROVE FALSE
    BY <1>1
  <2>1. Cols * Rows <= Cols * q /\ Cols * q \in Nat
    BY <1>1, Products
  <2> QED BY <1>1, <1>2, <2>1
<1>4. q * Cols = Cols * q
  BY <1>1
<1>5. q \in 0 .. Rows - 1 /\ k \in 0 .. Cols - 1
  BY <1>1, <1>2, <1>3
<1> QED BY <1>2, <1>4, <1>5 DEF RowOf, ColOf

(* The row after row q and the one before.                                 *)
LEMMA Neighbours ==
    ASSUME NEW q \in 0 .. Rows - 1
    PROVE  /\ q * Cols \in Nat /\ (q + 1) * Cols = q * Cols + Cols
           /\ q + 1 = Rows => q * Cols + Cols = Cells
           /\ q # 0 => (q - 1) * Cols = q * Cols - Cols /\ Cols <= q * Cols
<1>1. q \in Nat /\ Cols \in Nat \ {0} /\ Rows \in Nat \ {0} /\ Cells = Cols * Rows
  BY Grid
<1>2. q * Cols \in Nat /\ (q + 1) * Cols = q * Cols + Cols
  BY <1>1
<1>3. q + 1 = Rows => q * Cols + Cols = Cells
  <2> SUFFICES ASSUME q + 1 = Rows PROVE q * Cols + Cols = Cells
    OBVIOUS
  <2>1. Cells = Cols * (q + 1)
    BY <1>1
  <2>2. Cols * (q + 1) = (q + 1) * Cols
    BY <1>1
  <2> QED BY <1>2, <2>1, <2>2
<1>4. q # 0 => (q - 1) * Cols = q * Cols - Cols /\ Cols <= q * Cols
  <2> SUFFICES ASSUME q # 0 PROVE (q - 1) * Cols = q * Cols - Cols /\ Cols <= q * Cols
    OBVIOUS
  <2>1. PICK p \in Nat : q = p + 1
    <3>1. q - 1 \in Nat /\ q = (q - 1) + 1
      BY <1>1
    <3> QED BY <3>1
  <2>2. (p + 1) * Cols = p * Cols + Cols /\ p * Cols \in Nat
    BY <1>1
  <2>3. q - 1 = p
    BY <2>1
  <2> QED BY <1>1, <2>1, <2>2, <2>3
<1> QED BY <1>2, <1>3, <1>4

(* The next cell.                                                          *)
LEMMA NextPlace ==
    ASSUME NEW b \in OnScreen
    PROVE  IF ColOf(b) + 1 # Cols
           THEN b + 1 \in OnScreen /\ RowOf(b + 1) = RowOf(b) /\ ColOf(b + 1) = ColOf(b) + 1
           ELSE IF RowOf(b) + 1 # Rows
           THEN b + 1 \in OnScreen /\ RowOf(b + 1) = RowOf(b) + 1 /\ ColOf(b + 1) = 0
           ELSE b + 1 = Cells
<1>1. PICK q, k : q = RowOf(b) /\ k = ColOf(b)
  OBVIOUS
<1>2. q \in 0 .. Rows - 1 /\ k \in 0 .. Cols - 1 /\ b = q * Cols + k
  BY <1>1, PlaceOf
<1>3. /\ q \in Nat /\ k \in Nat /\ q * Cols \in Nat /\ Cols \in Nat \ {0} /\ Rows \in Nat \ {0}
      /\ (q + 1) * Cols = q * Cols + Cols /\ (q + 1 = Rows => q * Cols + Cols = Cells)
  BY <1>2, Grid, Neighbours
<1>4. CASE k + 1 # Cols
  <2>1. k + 1 \in 0 .. Cols - 1 /\ b + 1 = q * Cols + (k + 1)
    BY <1>2, <1>3, <1>4
  <2>2. b + 1 \in OnScreen /\ RowOf(b + 1) = q /\ ColOf(b + 1) = k + 1
    BY <1>2, <2>1, Place
  <2> QED BY <1>1, <1>4, <2>2
<1>5. CASE k + 1 = Cols /\ q + 1 # Rows
  <2>1. q + 1 \in 0 .. Rows - 1 /\ 0 \in 0 .. Cols - 1 /\ b + 1 = (q + 1) * Cols + 0
    BY <1>2, <1>3, <1>5
  <2>2. b + 1 \in OnScreen /\ RowOf(b + 1) = q + 1 /\ ColOf(b + 1) = 0
    BY <2>1, Place
  <2> QED BY <1>1, <1>5, <2>2
<1>6. CASE k + 1 = Cols /\ q + 1 = Rows
  <2>1. b + 1 = Cells
    BY <1>2, <1>3, <1>6
  <2> QED BY <1>1, <1>6, <2>1
<1> QED BY <1>4, <1>5, <1>6

(* The cell before.                                                        *)
LEMMA PlaceBefore ==
    ASSUME NEW b \in OnScreen, ~(before(b) >= Limit)
    PROVE  /\ before(b) \in OnScreen /\ (RowOf(b) # 0 \/ ColOf(b) # 0)
           /\ RowOf(before(b)) = IF ColOf(b) = 0 THEN RowOf(b) - 1 ELSE RowOf(b)
           /\ ColOf(before(b)) = IF ColOf(b) = 0 THEN Cols - 1 ELSE ColOf(b) - 1
<1>1. b \in Nat /\ b < Cells /\ Cells \in Nat /\ Limit \in Nat /\ Limit <= 65535 /\ Cells <= Limit
  <2>1. Limit \in Cells .. WordMod - 1
    BY ScreenAssumption
  <2> QED BY <2>1, Grid DEF OnScreen, WordMod
<1>2. b # 0 /\ before(b) = b - 1
  <2>1. before(b) = (b + 65535) % 65536
    BY <1>1 DEF before, WordMod
  <2>2. b = 0 => (b + 65535) % 65536 = 65535
    BY SMT
  <2>3. b # 0 => (b + 65535) % 65536 = b - 1
    BY <1>1, SMT
  <2> QED BY <1>1, <2>1, <2>2, <2>3
<1>3. PICK q, k : q = RowOf(b) /\ k = ColOf(b)
  OBVIOUS
<1>4. q \in 0 .. Rows - 1 /\ k \in 0 .. Cols - 1 /\ b = q * Cols + k
  BY <1>3, PlaceOf
<1>5. /\ q \in Nat /\ k \in Nat /\ q * Cols \in Nat /\ Cols \in Nat \ {0} /\ Rows \in Nat \ {0}
      /\ q # 0 => (q - 1) * Cols = q * Cols - Cols
      /\ q = 0 => q * Cols = 0
  BY <1>4, Grid, Neighbours
<1>6. CASE k # 0
  <2>1. k - 1 \in 0 .. Cols - 1 /\ b - 1 = q * Cols + (k - 1)
    BY <1>4, <1>5, <1>6
  <2>2. b - 1 \in OnScreen /\ RowOf(b - 1) = q /\ ColOf(b - 1) = k - 1
    BY <1>4, <2>1, Place
  <2> QED BY <1>2, <1>3, <1>6, <2>2
<1>7. CASE k = 0
  <2>1. q # 0
    BY <1>2, <1>4, <1>5, <1>7
  <2>2. q - 1 \in 0 .. Rows - 1 /\ Cols - 1 \in 0 .. Cols - 1 /\ b - 1 = (q - 1) * Cols + (Cols - 1)
    BY <1>4, <1>5, <1>7, <2>1
  <2>3. b - 1 \in OnScreen /\ RowOf(b - 1) = q - 1 /\ ColOf(b - 1) = Cols - 1
    BY <2>2, Place
  <2> QED BY <1>2, <1>3, <1>7, <2>1, <2>3
<1> QED BY <1>6, <1>7

(* A character in the array is a character in the text.                    *)
LEMMA TextSet ==
    ASSUME NEW v, DOMAIN v = OnScreen, NEW b \in OnScreen, NEW cell
    PROVE  TextOf(Placed(v, b, cell)) = WithCell(TextOf(v), RowOf(b), ColOf(b), cell)
<1> DEFINE w == [v EXCEPT ![b] = cell]
           t == TextOf(v)
<1>1. PICK q, k : q = RowOf(b) /\ k = ColOf(b)
  OBVIOUS
<1>2. q \in 0 .. Rows - 1 /\ k \in 0 .. Cols - 1 /\ b = q * Cols + k /\ q + 1 \in 1 .. Rows /\ Rows \in Nat
  BY <1>1, PlaceOf, Grid
<1>3. ASSUME NEW r \in 1 .. Rows, NEW c \in 0 .. Cols - 1
      PROVE  w[(r - 1) * Cols + c] = IF r = q + 1 /\ c = k THEN cell ELSE v[(r - 1) * Cols + c]
  <2>1. r - 1 \in 0 .. Rows - 1
    BY <1>2
  <2>2. (r - 1) * Cols + c \in OnScreen /\ RowOf((r - 1) * Cols + c) = r - 1 /\ ColOf((r - 1) * Cols + c) = c
    BY <2>1, Place
  <2> DEFINE x == (r - 1) * Cols + c
  <2>3. r = q + 1 /\ c = k => x = b
    BY <1>2
  <2>4. x = b => r = q + 1 /\ c = k
    BY <1>1, <1>2, <2>1, <2>2
  <2>5. x \in OnScreen
    BY <2>2
  <2> HIDE DEF x
  <2>6. w[x] = IF x = b THEN cell ELSE v[x]
    BY <2>5
  <2> QED BY <2>3, <2>4, <2>6 DEF x
<1> DEFINE u == [t EXCEPT ![q + 1][k] = cell]
<1>4. DOMAIN t = 1 .. Rows /\ \A r \in 1 .. Rows : DOMAIN t[r] = 0 .. Cols - 1
  BY DEF TextOf
<1>5. u = [r \in 1 .. Rows |-> [c \in 0 .. Cols - 1 |->
             IF r = q + 1 /\ c = k THEN cell ELSE v[(r - 1) * Cols + c]]]
  <2>1. u = [r \in 1 .. Rows |-> IF r = q + 1 THEN [t[q + 1] EXCEPT ![k] = cell] ELSE t[r]]
    BY <1>4
  <2>2. ASSUME NEW r \in 1 .. Rows
        PROVE  u[r] = [c \in 0 .. Cols - 1 |-> IF r = q + 1 /\ c = k THEN cell ELSE v[(r - 1) * Cols + c]]
    <3>1. t[r] = [c \in 0 .. Cols - 1 |-> v[(r - 1) * Cols + c]]
      BY DEF TextOf
    <3> HIDE DEF t
    <3>2. CASE r = q + 1
      <4>1. u[r] = [t[r] EXCEPT ![k] = cell]
        BY <2>1, <3>2
      <4> QED BY <3>1, <3>2, <4>1
    <3>3. CASE r # q + 1
      <4>1. u[r] = t[r]
        BY <2>1, <3>3
      <4> QED BY <3>1, <3>3, <4>1
    <3> QED BY <3>2, <3>3
  <2> HIDE DEF u, t
  <2> QED BY <2>1, <2>2
<1>6. TextOf(w) = [r \in 1 .. Rows |-> [c \in 0 .. Cols - 1 |-> w[(r - 1) * Cols + c]]]
  BY DEF TextOf
<1> HIDE DEF w, u
<1>7. TextOf(w) = u
  BY <1>3, <1>5, <1>6
<1> QED BY <1>1, <1>7 DEF w, u, Placed, WithCell

(* The array rolled is the text without its first row.                     *)
LEMMA TextRolled ==
    ASSUME NEW v
    PROVE  TextOf(rolled(v)) = Append(Tail(TextOf(v)), EmptyRow)
<1> DEFINE t == TextOf(v)
           u == Append(Tail(t), EmptyRow)
           w == TextOf(rolled(v))
           S == {t[r] : r \in 1 .. Rows}
<1>1. Rows \in Nat \ {0} /\ Cols \in Nat \ {0} /\ Cells \in Nat
  BY Grid
<1>2. t \in Seq(S) /\ Len(t) = Rows /\ t # <<>>
  <2>1. t = [r \in 1 .. Rows |-> t[r]]
    BY DEF TextOf
  <2>2. \A r \in 1 .. Rows : t[r] \in S
    OBVIOUS
  <2> HIDE DEF t, S
  <2> QED BY <1>1, <2>1, <2>2
<1> HIDE DEF t, S
<1>3. Tail(t) \in Seq(S) /\ Len(Tail(t)) = Rows - 1 /\ \A r \in 1 .. Rows - 1 : Tail(t)[r] = t[r + 1]
  BY <1>1, <1>2
<1>4. u = [r \in 1 .. Rows |-> IF r < Rows THEN t[r + 1] ELSE EmptyRow]
  <2>1. Tail(t) \in Seq(S \cup {EmptyRow})
    BY <1>3
  <2>2. u \in Seq(S \cup {EmptyRow}) /\ Len(u) = Rows /\ u[Rows] = EmptyRow
        /\ \A r \in 1 .. Rows - 1 : u[r] = Tail(t)[r]
    BY <1>1, <1>3, <2>1
  <2> HIDE DEF u
  <2>3. DOMAIN u = 1 .. Rows /\ u = [r \in 1 .. Rows |-> u[r]]
    BY <2>2
  <2>4. \A r \in 1 .. Rows : u[r] = IF r < Rows THEN t[r + 1] ELSE EmptyRow
    <3> SUFFICES ASSUME NEW r \in 1 .. Rows PROVE u[r] = IF r < Rows THEN t[r + 1] ELSE EmptyRow
      OBVIOUS
    <3>1. r < Rows => r \in 1 .. Rows - 1
      BY <1>1
    <3>2. ~(r < Rows) => r = Rows
      BY <1>1
    <3> QED BY <1>3, <2>2, <3>1, <3>2
  <2> QED BY <2>3, <2>4
<1>5. ASSUME NEW r \in 1 .. Rows
      PROVE  w[r] = IF r < Rows THEN t[r + 1] ELSE EmptyRow
  <2>1. w[r] = [c \in 0 .. Cols - 1 |-> rolled(v)[(r - 1) * Cols + c]]
    BY DEF TextOf
  <2>2. r - 1 \in 0 .. Rows - 1 /\ r \in Nat /\ (r < Rows => r \in 0 .. Rows - 1 /\ r + 1 \in 1 .. Rows)
    BY <1>1
  <2>3. \A c \in 0 .. Cols - 1 : (r - 1) * Cols + c \in OnScreen
    BY <2>2, Place
  <2>4. \A c \in 0 .. Cols - 1 : rolled(v)[(r - 1) * Cols + c] =
          IF (r - 1) * Cols + c < Cells - Cols THEN v[(r - 1) * Cols + c + Cols] ELSE Space
    BY <2>3 DEF rolled, OnScreen
  <2>5. (r - 1) * Cols \in Nat /\ ((r - 1) + 1) * Cols = (r - 1) * Cols + Cols
        /\ ((r - 1) + 1 = Rows => (r - 1) * Cols + Cols = Cells)
    BY <2>2, Neighbours
  <2>6. (r - 1) + 1 = r
    BY <2>2
  <2>7. CASE r < Rows
    <3>1. \A c \in 0 .. Cols - 1 : r * Cols + c \in OnScreen
      BY <2>2, <2>7, Place
    <3>2. r * Cols = (r - 1) * Cols + Cols /\ r * Cols \in Nat
      BY <1>1, <2>5, <2>6
    <3> DEFINE a == (r - 1) * Cols
               d == r * Cols
    <3>3. a \in Nat /\ d = a + Cols /\ d \in Nat /\ \A c \in 0 .. Cols - 1 : d + c < Cells
      BY <1>1, <2>5, <3>1, <3>2 DEF OnScreen
    <3> HIDE DEF a, d
    <3>4. \A c \in 0 .. Cols - 1 : a + c < Cells - Cols /\ a + c + Cols = d + c
      BY <1>1, <3>3
    <3>5. \A c \in 0 .. Cols - 1 : rolled(v)[(r - 1) * Cols + c] = v[r * Cols + c]
      BY <2>4, <3>4 DEF a, d
    <3>6. t[r + 1] = [c \in 0 .. Cols - 1 |-> v[((r + 1) - 1) * Cols + c]]
      BY <2>2, <2>7 DEF TextOf, t
    <3>7. (r + 1) - 1 = r
      BY <2>2
    <3> HIDE DEF w
    <3>8. t[r + 1] = [c \in 0 .. Cols - 1 |-> v[r * Cols + c]]
      BY <3>6, <3>7
    <3> QED BY <2>1, <2>7, <3>5, <3>8
  <2>8. CASE ~(r < Rows)
    <3>1. r = Rows
      BY <1>1, <2>8
    <3> DEFINE a == (r - 1) * Cols
    <3>2. a \in Nat /\ a + Cols = Cells
      BY <2>5, <2>6, <3>1
    <3> HIDE DEF a
    <3>3. \A c \in 0 .. Cols - 1 : ~(a + c < Cells - Cols)
      BY <1>1, <3>2
    <3>4. \A c \in 0 .. Cols - 1 : rolled(v)[(r - 1) * Cols + c] = Space
      BY <2>4, <3>3 DEF a
    <3> HIDE DEF w
    <3> QED BY <2>1, <2>8, <3>4 DEF EmptyRow
  <2> QED BY <2>7, <2>8
<1>6. w = [r \in 1 .. Rows |-> w[r]]
  BY DEF TextOf
<1> HIDE DEF w, u
<1>7. w = u
  BY <1>4, <1>5, <1>6
<1> QED BY <1>7 DEF w, u, t

(* Terminal's three changes of a text t with the cursor in row q, column k *)
(* to a text u with the cursor in row p, column j.                         *)
Ended(t, q, u, p, j) ==
    /\ j = 0
    /\ IF q + 1 < Rows THEN p = q + 1 /\ u = t
       ELSE p = Rows - 1 /\ u = Append(Tail(t), EmptyRow)

Showed(t, q, k, u, p, j, cell) ==
    LET w == WithCell(t, q, k, cell)
    IN  IF k + 1 = Cols /\ q + 1 = Rows THEN Ended(w, q, u, p, j)
        ELSE /\ u = w
             /\ p = IF k + 1 = Cols THEN q + 1 ELSE q
             /\ j = (k + 1) % Cols

Erased(t, q, k, u, p, j) ==
    /\ p = IF k = 0 THEN q - 1 ELSE q
    /\ j = IF k = 0 THEN Cols - 1 ELSE k - 1
    /\ u = WithCell(t, p, j, Space)

LEMMA RolledCells == \A v : DOMAIN rolled(v) = OnScreen
BY DEF rolled, OnScreen

(* A line feed ends the row of the cursor.                                 *)
LEMMA FeedEnds ==
    ASSUME NEW v, DOMAIN v = OnScreen, NEW b \in OnScreen
    PROVE  LET f == line_feed(v, b)
           IN  /\ DOMAIN f.video = OnScreen /\ f.bx \in OnScreen
               /\ Ended(TextOf(v), RowOf(b), TextOf(f.video), RowOf(f.bx), ColOf(f.bx))
<1> DEFINE next == b - (b % Cols) + Cols
           q == RowOf(b)
           f == line_feed(v, b)
<1>1. /\ q \in 0 .. Rows - 1 /\ ColOf(b) \in 0 .. Cols - 1 /\ b = q * Cols + ColOf(b)
      /\ Rows \in Nat \ {0} /\ Cols \in Nat \ {0} /\ 0 \in 0 .. Cols - 1 /\ Cells \in Nat
      /\ q * Cols \in Nat /\ (q + 1) * Cols = q * Cols + Cols
      /\ (q + 1 = Rows => q * Cols + Cols = Cells)
  <2>1. q \in 0 .. Rows - 1 /\ ColOf(b) \in 0 .. Cols - 1 /\ b = q * Cols + ColOf(b)
    BY PlaceOf
  <2>2. Rows \in Nat \ {0} /\ Cols \in Nat \ {0} /\ 0 \in 0 .. Cols - 1 /\ Cells \in Nat
    BY Grid
  <2>3. /\ q * Cols \in Nat /\ (q + 1) * Cols = q * Cols + Cols
        /\ (q + 1 = Rows => q * Cols + Cols = Cells)
    BY <2>1, Neighbours
  <2> QED BY <2>1, <2>2, <2>3
<1>2. next = (q + 1) * Cols
  <2>1. next = b - ColOf(b) + Cols
    BY DEF ColOf
  <2> HIDE DEF next, q
  <2> QED BY <1>1, <2>1
<1>3. f = IF next < Cells THEN [video |-> v, bx |-> next]
          ELSE [video |-> rolled(v), bx |-> Cells - Cols]
  BY DEF line_feed
<1> HIDE DEF next, q, f
<1>4. CASE q + 1 < Rows
  <2>1. q + 1 \in 0 .. Rows - 1 /\ next = (q + 1) * Cols + 0
    BY <1>1, <1>2, <1>4
  <2>2. next \in OnScreen /\ RowOf(next) = q + 1 /\ ColOf(next) = 0
    BY <1>1, <2>1, Place
  <2>3. next < Cells
    BY <1>1, <2>2 DEF OnScreen
  <2>4. f.video = v /\ f.bx = next
    BY <1>3, <2>3
  <2> QED BY <1>4, <2>2, <2>4 DEF Ended, f, q
<1>5. CASE ~(q + 1 < Rows)
  <2>1. q + 1 = Rows /\ q = Rows - 1
    BY <1>1, <1>5
  <2>2. next = Cells /\ Cells - Cols = q * Cols + 0
    BY <1>1, <1>2, <2>1
  <2>3. Cells - Cols \in OnScreen /\ RowOf(Cells - Cols) = q /\ ColOf(Cells - Cols) = 0
    BY <1>1, <2>2, Place
  <2>4. f.video = rolled(v) /\ f.bx = Cells - Cols
    BY <1>1, <1>3, <2>2
  <2>5. TextOf(rolled(v)) = Append(Tail(TextOf(v)), EmptyRow) /\ DOMAIN rolled(v) = OnScreen
    BY TextRolled, RolledCells
  <2>6. Ended(TextOf(v), q, TextOf(f.video), RowOf(f.bx), ColOf(f.bx))
    BY <1>5, <2>1, <2>3, <2>4, <2>5 DEF Ended
  <2> QED BY <2>3, <2>4, <2>5, <2>6 DEF f, q
<1> QED BY <1>4, <1>5

(* A line feed behind the last cell rolls the screen.                      *)
LEMMA FeedRolls ==
    ASSUME NEW v
    PROVE  line_feed(v, Cells) = [video |-> rolled(v), bx |-> Cells - Cols]
<1>1. Cells \in Nat /\ Cols \in Nat \ {0}
  BY Grid
<1>2. PICK m : m = Cells % Cols
  OBVIOUS
<1>3. m \in Nat /\ m < Cols
  BY <1>1, <1>2, SMT
<1>4. ~(Cells - m + Cols < Cells)
  BY <1>1, <1>3
<1> QED BY <1>2, <1>4 DEF line_feed

LEMMA CharacterShows ==
    ASSUME NEW v, DOMAIN v = OnScreen, NEW b \in OnScreen, NEW cell
    PROVE  LET f == put_other(v, b, cell)
           IN  /\ DOMAIN f.video = OnScreen /\ f.bx \in OnScreen
               /\ Showed(TextOf(v), RowOf(b), ColOf(b),
                         TextOf(f.video), RowOf(f.bx), ColOf(f.bx), cell)
<1> DEFINE w == Placed(v, b, cell)
           q == RowOf(b)
           k == ColOf(b)
           f == put_other(v, b, cell)
           t == WithCell(TextOf(v), q, k, cell)
<1>1. /\ q \in 0 .. Rows - 1 /\ k \in 0 .. Cols - 1 /\ Cells \in Nat /\ 0 \in 0 .. Cols - 1
      /\ Rows \in Nat \ {0} /\ Cols \in Nat \ {0} /\ b \in Nat /\ b < Cells
  BY PlaceOf, Grid DEF OnScreen
<1>2. TextOf(w) = t /\ DOMAIN w = OnScreen
  <2>1. TextOf(w) = t
    BY TextSet
  <2>2. DOMAIN w = OnScreen
    BY DEF Placed
  <2> QED BY <2>1, <2>2
<1>3. f = IF b + 1 < Cells THEN [video |-> w, bx |-> b + 1] ELSE line_feed(w, b + 1)
  BY DEF put_other, on_screen, Placed
<1>4. IF k + 1 # Cols THEN b + 1 \in OnScreen /\ RowOf(b + 1) = q /\ ColOf(b + 1) = k + 1
      ELSE IF q + 1 # Rows THEN b + 1 \in OnScreen /\ RowOf(b + 1) = q + 1 /\ ColOf(b + 1) = 0
      ELSE b + 1 = Cells
  BY NextPlace
<1>5. /\ k + 1 # Cols => (k + 1) % Cols = k + 1
      /\ k + 1 = Cols => (k + 1) % Cols = 0
  <2>1. k + 1 # Cols => 0 + (k + 1) < Cols /\ Cols * 0 + (k + 1) = k + 1 /\ k + 1 \in Nat /\ k + 1 < Cols
    BY <1>1
  <2>2. k + 1 = Cols => Cols * 1 + 0 = k + 1
    BY <1>1
  <2>3. k + 1 # Cols => (Cols * 0 + (k + 1)) % Cols = k + 1
    BY <1>1, <2>1, DivUnique
  <2>4. (Cols * 1 + 0) % Cols = 0
    BY <1>1, DivUnique
  <2> HIDE DEF k
  <2> QED BY <2>1, <2>2, <2>3, <2>4
<1> HIDE DEF w, q, k, f, t
<1>6. CASE ~(k + 1 = Cols /\ q + 1 = Rows)
  <2>1. b + 1 \in OnScreen /\ b + 1 < Cells
    BY <1>1, <1>4, <1>6 DEF OnScreen
  <2>2. f.video = w /\ f.bx = b + 1
    BY <1>3, <2>1
  <2>3. RowOf(b + 1) = (IF k + 1 = Cols THEN q + 1 ELSE q) /\ ColOf(b + 1) = (k + 1) % Cols
    BY <1>4, <1>5, <1>6
  <2>4. Showed(TextOf(v), q, k, TextOf(f.video), RowOf(f.bx), ColOf(f.bx), cell)
    BY <1>2, <1>6, <2>2, <2>3 DEF Showed, t
  <2> QED BY <1>2, <2>1, <2>2, <2>4 DEF f, q, k
<1>7. CASE k + 1 = Cols /\ q + 1 = Rows
  <2>1. b + 1 = Cells /\ ~(b + 1 < Cells)
    BY <1>1, <1>4, <1>7
  <2>2. f.video = rolled(w) /\ f.bx = Cells - Cols
    BY <1>3, <2>1, FeedRolls
  <2>3. Cells - Cols \in OnScreen /\ RowOf(Cells - Cols) = Rows - 1 /\ ColOf(Cells - Cols) = 0
    <3>1. Rows - 1 \in 0 .. Rows - 1 /\ Rows - 1 = q
      BY <1>1, <1>7
    <3>2. q * Cols \in Nat /\ q * Cols + Cols = Cells
      BY <1>1, <1>7, Neighbours
    <3>3. Cells - Cols = (Rows - 1) * Cols + 0
      BY <1>1, <3>1, <3>2
    <3> QED BY <1>1, <3>1, <3>3, Place
  <2>4. TextOf(rolled(w)) = Append(Tail(t), EmptyRow) /\ DOMAIN rolled(w) = OnScreen
    BY <1>2, TextRolled, RolledCells
  <2>5. ~(q + 1 < Rows)
    BY <1>1, <1>7
  <2>6. Showed(TextOf(v), q, k, TextOf(f.video), RowOf(f.bx), ColOf(f.bx), cell)
    BY <1>7, <2>2, <2>3, <2>4, <2>5 DEF Showed, Ended, t
  <2> QED BY <2>2, <2>3, <2>4, <2>6 DEF f, q, k
<1> QED BY <1>6, <1>7

LEMMA BackspaceErases ==
    ASSUME NEW v, DOMAIN v = OnScreen, NEW b \in OnScreen, ~(before(b) >= Limit)
    PROVE  LET f == backspace(v, b)
           IN  /\ DOMAIN f.video = OnScreen /\ f.bx \in OnScreen /\ (RowOf(b) # 0 \/ ColOf(b) # 0)
               /\ Erased(TextOf(v), RowOf(b), ColOf(b), TextOf(f.video), RowOf(f.bx), ColOf(f.bx))
<1>1. PICK a : a = before(b)
  OBVIOUS
<1>2. /\ a \in OnScreen /\ (RowOf(b) # 0 \/ ColOf(b) # 0)
      /\ RowOf(a) = IF ColOf(b) = 0 THEN RowOf(b) - 1 ELSE RowOf(b)
      /\ ColOf(a) = IF ColOf(b) = 0 THEN Cols - 1 ELSE ColOf(b) - 1
  BY <1>1, PlaceBefore
<1>3. backspace(v, b) = [video |-> Placed(v, a, Space), bx |-> a]
  BY <1>1 DEF backspace, Placed
<1>4. TextOf(Placed(v, a, Space)) = WithCell(TextOf(v), RowOf(a), ColOf(a), Space)
  BY <1>2, TextSet
<1>5. DOMAIN Placed(v, a, Space) = OnScreen
  BY DEF Placed
<1>6. Erased(TextOf(v), RowOf(b), ColOf(b), TextOf(Placed(v, a, Space)), RowOf(a), ColOf(a))
  BY <1>2, <1>4 DEF Erased
<1> QED BY <1>2, <1>3, <1>5, <1>6

(* What put does to the screen Terminal sees.                              *)
Moved(v, b, w, a, cell) ==
    \/ Ended(TextOf(v), RowOf(b), TextOf(w), RowOf(a), ColOf(a))
    \/ /\ RowOf(b) # 0 \/ ColOf(b) # 0
       /\ Erased(TextOf(v), RowOf(b), ColOf(b), TextOf(w), RowOf(a), ColOf(a))
    \/ Showed(TextOf(v), RowOf(b), ColOf(b), TextOf(w), RowOf(a), ColOf(a), cell)

LEMMA PutMoves ==
    ASSUME NEW v, DOMAIN v = OnScreen, NEW b \in OnScreen, NEW c, NEW attr, ~faults(c, b)
    PROVE  LET f == put(v, b, c, attr)
           IN  DOMAIN f.video = OnScreen /\ f.bx \in OnScreen /\ Moved(v, b, f.video, f.bx, <<c, attr>>)
<1>1. CASE c \in {"CR", "LF"}
  <2>1. put(v, b, c, attr) = line_feed(v, b)
    BY <1>1 DEF put
  <2> QED BY <2>1, FeedEnds DEF Moved
<1>2. CASE c = "BS"
  <2>1. put(v, b, c, attr) = backspace(v, b) /\ ~(before(b) >= Limit)
    BY <1>2 DEF put, faults
  <2> QED BY <2>1, BackspaceErases DEF Moved
<1>3. CASE c \notin {"CR", "LF"} /\ c # "BS"
  <2>1. put(v, b, c, attr) = put_other(v, b, <<c, attr>>)
    BY <1>3 DEF put
  <2> QED BY <2>1, CharacterShows DEF Moved
<1> QED BY <1>1, <1>2, <1>3

(* The characters that are printed or typed, with their colors.            *)
Chars == UNION {{s[i] : i \in DOMAIN s} : s \in Strings}
Drawn == {<<c, 7>> : c \in Chars} \cup {<<c, color>> : c \in Keys}

(* Such a change is a step of Terminal.                                    *)
LEMMA MovedSteps ==
    ASSUME NEW cell \in Drawn, Moved(video, at, video', at', cell)
    PROVE  Shown!ScreenNext
<1>1. CASE Ended(TextOf(video), RowOf(at), TextOf(video'), RowOf(at'), ColOf(at'))
  <2>1. Shown!EndRow
    BY <1>1 DEF Ended, Shown!EndRow, Shown!NewRow, Shown!BlankRow, TextOf, RowOf, ColOf, EmptyRow
  <2> QED BY <2>1 DEF Shown!ScreenNext
<1>2. CASE /\ RowOf(at) # 0 \/ ColOf(at) # 0
           /\ Erased(TextOf(video), RowOf(at), ColOf(at), TextOf(video'), RowOf(at'), ColOf(at'))
  <2>1. Shown!Erase
    BY <1>2 DEF Erased, Shown!Erase, TextOf, RowOf, ColOf, WithCell
  <2> QED BY <1>2, <2>1 DEF Shown!ScreenNext, RowOf, ColOf
<1>3. CASE Showed(TextOf(video), RowOf(at), ColOf(at), TextOf(video'), RowOf(at'), ColOf(at'), cell)
  <2>1. Shown!Show(cell)
    BY <1>3 DEF Showed, Ended, Shown!Show, Shown!NewRow, Shown!BlankRow, TextOf, RowOf, ColOf,
                WithCell, EmptyRow
  <2> QED BY <2>1 DEF Shown!ScreenNext, Drawn, Chars
<1> QED BY <1>1, <1>2, <1>3 DEF Moved

(* While a task prints with interrupts off its copy of the cursor is the   *)
(* cursor.                                                                 *)
DrawInv ==
    /\ DOMAIN video = OnScreen
    /\ pc \in {"idle", "get_cursor", "write", "set_cursor"}
    /\ pc = "write" => bx = cursor
    /\ pc # "idle" => str \in Seq(Chars) /\ str # <<>>

LEMMA DrawStep ==
    ASSUME ~IfOn, CursorOnScreen, DrawInv, [Next]_vars
    PROVE  DrawInv' /\ [Shown!ScreenNext]_(Shown!screen)
<1>0. cursor \in OnScreen /\ bx \in OnScreen
  BY DEF CursorOnScreen, OnScreen
<1>1. ASSUME UNCHANGED <<video, at>>
      PROVE  UNCHANGED Shown!screen
  BY <1>1 DEF Shown!screen
<1>2. ASSUME NEW s \in Strings, put_str(s)
      PROVE  DrawInv' /\ UNCHANGED <<video, at>>
  <2>1. s # <<>> /\ s \in Seq({s[i] : i \in DOMAIN s})
    BY ScreenAssumption
  <2>2. {s[i] : i \in DOMAIN s} \subseteq Chars
    BY DEF Chars
  <2>3. s \in Seq(Chars)
    BY <2>1, <2>2
  <2>4. pc = "idle" /\ pc' = "get_cursor" /\ str' = s /\ UNCHANGED <<video, cursor, bx>>
    BY <1>2 DEF put_str
  <2> QED BY <2>1, <2>3, <2>4 DEF DrawInv, at
<1>3. CASE get_cursor
  <2>1. pc = "get_cursor" /\ bx' = cursor /\ pc' = "write" /\ UNCHANGED <<video, cursor, str>>
    BY <1>3 DEF get_cursor
  <2>2. UNCHANGED <<video, at>> /\ DrawInv'
    BY <2>1 DEF DrawInv, at
  <2> QED BY <1>1, <2>2
<1>4. CASE write
  <2>1. pc = "write" /\ bx = cursor /\ str \in Seq(Chars) /\ str # <<>>
    BY <1>4 DEF write, DrawInv
  <2>2. CASE faults(Head(str), bx)
    BY <1>1, <1>4, <2>2 DEF write, gp_fault, DrawInv, at
  <2>3. CASE ~faults(Head(str), bx)
    <3> DEFINE f == put(video, bx, Head(str), 7)
    <3>1. /\ video' = f.video /\ bx' = f.bx /\ pc' = "set_cursor" /\ UNCHANGED <<cursor, str>>
      BY <1>4, <2>3 DEF write
    <3>2. DOMAIN video = OnScreen
      BY DEF DrawInv
    <3>3. DOMAIN f.video = OnScreen /\ Moved(video, bx, f.video, f.bx, <<Head(str), 7>>)
      BY <1>0, <2>3, <3>2, PutMoves
    <3> HIDE DEF f
    <3>4. at = bx /\ at' = bx'
      BY <2>1, <3>1 DEF at
    <3>5. <<Head(str), 7>> \in Drawn
      <4>1. Head(str) \in Chars
        BY <2>1
      <4> QED BY <4>1 DEF Drawn
    <3>6. Shown!ScreenNext
      BY <3>1, <3>3, <3>4, <3>5, MovedSteps
    <3>7. DrawInv'
      BY <2>1, <3>1, <3>3 DEF DrawInv
    <3> QED BY <3>6, <3>7
  <2> QED BY <2>2, <2>3
<1>5. CASE set_cursor
  <2>1. /\ pc = "set_cursor" /\ cursor' = bx /\ str' = Tail(str) /\ UNCHANGED video
        /\ pc' = IF Tail(str) = <<>> THEN "idle" ELSE "get_cursor"
    BY <1>5 DEF set_cursor
  <2>2. Tail(str) \in Seq(Chars)
    BY <2>1 DEF DrawInv
  <2>3. at = bx /\ at' = bx
    BY <2>1 DEF at
  <2> QED BY <1>1, <2>1, <2>2, <2>3 DEF DrawInv
<1>6. ASSUME NEW c \in Keys, intr_keyboard_handler(c)
      PROVE  DrawInv' /\ [Shown!ScreenNext]_(Shown!screen)
  <2>1. pc = "idle"
    BY <1>6 DEF intr_keyboard_handler
  <2>2. CASE faults(c, cursor)
    BY <1>1, <1>6, <2>2 DEF intr_keyboard_handler, gp_fault, DrawInv, at
  <2>3. CASE ~faults(c, cursor)
    <3> DEFINE f == put(video, cursor, c, color)
    <3>1. video' = f.video /\ cursor' = f.bx /\ UNCHANGED <<pc, str, bx>>
      BY <1>6, <2>3 DEF intr_keyboard_handler
    <3>2. DOMAIN video = OnScreen
      BY DEF DrawInv
    <3>3. DOMAIN f.video = OnScreen /\ Moved(video, cursor, f.video, f.bx, <<c, color>>)
      BY <1>0, <2>3, <3>2, PutMoves
    <3> HIDE DEF f
    <3>4. at = cursor /\ at' = cursor'
      BY <2>1, <3>1 DEF at
    <3>5. <<c, color>> \in Drawn
      BY DEF Drawn
    <3>6. Shown!ScreenNext
      BY <3>1, <3>3, <3>4, <3>5, MovedSteps
    <3>7. DrawInv'
      BY <2>1, <3>1, <3>3 DEF DrawInv
    <3> QED BY <3>6, <3>7
  <2> QED BY <2>2, <2>3
<1>7. CASE UNCHANGED vars
  BY <1>1, <1>7 DEF vars, DrawInv, at
<1> QED BY <1>1, <1>2, <1>3, <1>4, <1>5, <1>6, <1>7 DEF Next

LEMMA DrawBegins ==
    ASSUME Init
    PROVE  DrawInv /\ Shown!ScreenInit
<1>1. /\ video = [i \in 0 .. Cells - 1 |-> Space] /\ cursor = 0 /\ pc = "idle" /\ str = <<>>
  BY DEF Init
<1>2. DrawInv
  BY <1>1 DEF DrawInv, OnScreen
<1>3. 0 \div Cols = 0 /\ 0 % Cols = 0 /\ 0 \in 0 .. Rows - 1 /\ at = 0
  <2>1. Cols \in Nat \ {0} /\ 0 \in 0 .. Rows - 1
    BY Grid
  <2>2. (Cols * 0 + 0) \div Cols = 0 /\ (Cols * 0 + 0) % Cols = 0 /\ Cols * 0 + 0 = 0
    BY <2>1, DivUnique
  <2> QED BY <1>1, <2>1, <2>2 DEF at
<1>4. \A r \in 1 .. Rows, c \in 0 .. Cols - 1 : video[(r - 1) * Cols + c] = Space
  <2> SUFFICES ASSUME NEW r \in 1 .. Rows, NEW c \in 0 .. Cols - 1
               PROVE  video[(r - 1) * Cols + c] = Space
    OBVIOUS
  <2>1. r - 1 \in 0 .. Rows - 1
    BY Grid
  <2>2. (r - 1) * Cols + c \in 0 .. Cells - 1
    BY <2>1, Place DEF OnScreen
  <2> QED BY <1>1, <2>2
<1>5. Shown!ScreenInit
  BY <1>3, <1>4 DEF Shown!ScreenInit, Shown!BlankRow
<1> QED BY <1>2, <1>5

(* print.S: as long as put_char is not interrupted, the video memory shows *)
(* what a terminal shows: characters one after the other, rows that end    *)
(* and move up, erased characters, on a screen of any size.                *)
THEOREM ScreenIsTerminal ==
    ASSUME ~IfOn
    PROVE  Spec => TerminalRefinement
<1>1. Init => DrawInv /\ Shown!ScreenInit
  BY DrawBegins
<1>2. CursorOnScreen /\ DrawInv /\ [Next]_vars => DrawInv' /\ [Shown!ScreenNext]_(Shown!screen)
  BY DrawStep
<1> QED BY <1>1, <1>2, CursorStays, PTL DEF Spec, TerminalRefinement, Shown!ScreenSpec

-----------------------------------------------------------------------------
(* The entry code.  The frame of an interrupt is as long as the processor  *)
(* makes it, which depends on where it came from.                          *)
FrameLen == IF user_mode(expected) THEN 19 ELSE 17

Frame ==
    /\ Len(stack) = FrameLen
    /\ \A k \in 1 .. FrameLen : intr_stack[k] \in Regs => stack[k] = expected[intr_stack[k]]

(* What the processor has pushed.                                          *)
Return3 == <<expected["eip"], expected["cs"], expected["eflags"]>>
Return2 == IF user_mode(expected) THEN <<expected["esp"], expected["ss"]>> ELSE <<>>
ErrorCode == IF vec \in PushesError THEN <<<<"error">>>> ELSE <<>>

Complete(r) == r = [x \in Regs |-> r[x]]

(* At each step, what of the interrupted code's registers is on the stack  *)
(* and what is still in the processor.  Code of the kernel is resumed with *)
(* the stack pointer of the moment.                                        *)
ContextInv ==
    /\ DOMAIN regs = Regs /\ DOMAIN expected = Regs
    /\ Complete(regs) /\ Complete(expected)
    /\ cpu \in {"running", "entry", "handler", "intr_exit", "halted"}
    /\ cpu = "running" => regs = expected /\ stack = <<>>
    /\ cpu = "entry" =>
         /\ vec \in Raised /\ stack = ErrorCode \o Return3 \o Return2
         /\ \A r \in General \cup Segment : regs[r] = expected[r]
    /\ cpu \in {"handler", "intr_exit"} => Frame
    /\ cpu \in {"entry", "handler", "intr_exit"} /\ ~user_mode(expected) =>
         regs["esp"] = expected["esp"] /\ regs["ss"] = expected["ss"]

(* Every vector has its error code, the processor's or the entry's.        *)
LEMMA OneErrorCode == \A v \in Raised : v \in ERROR_CODE <=> v \in PushesError
  BY DEF Raised, Exceptions, ERROR_CODE, PushesError

(* The elements of struct intr_stack.                                      *)
LEMMA IntrStack ==
    /\ Len(intr_stack) = 19 /\ intr_stack[1] = "vec_no" /\ intr_stack[5] = "esp_dummy"
    /\ intr_stack[2] = "edi" /\ intr_stack[3] = "esi" /\ intr_stack[4] = "ebp"
    /\ intr_stack[6] = "ebx" /\ intr_stack[7] = "edx" /\ intr_stack[8] = "ecx"
    /\ intr_stack[9] = "eax" /\ intr_stack[10] = "gs" /\ intr_stack[11] = "fs"
    /\ intr_stack[12] = "es" /\ intr_stack[13] = "ds" /\ intr_stack[14] = "err_code"
    /\ intr_stack[15] = "eip" /\ intr_stack[16] = "cs" /\ intr_stack[17] = "eflags"
    /\ intr_stack[18] = "esp" /\ intr_stack[19] = "ss"
    /\ {"vec_no", "esp_dummy", "err_code"} \cap Regs = {}
  BY DEF intr_stack, Regs, General, Segment, Return

LEMMA RegisterNames ==
    /\ Regs = General \cup Segment \cup Return
    /\ {"eax", "ecx", "edx", "ebx", "ebp", "esi", "edi"} = General
    /\ {"ds", "es", "fs", "gs"} = Segment
    /\ {"eip", "cs", "eflags", "esp", "ss"} = Return
  BY DEF Regs, General, Segment, Return

(* A frame whose places hold the interrupted code's registers.             *)
LEMMA FrameHolds ==
    ASSUME NEW s, NEW e, NEW n \in {17, 19},
           s[2] = e["edi"], s[3] = e["esi"], s[4] = e["ebp"], s[6] = e["ebx"],
           s[7] = e["edx"], s[8] = e["ecx"], s[9] = e["eax"], s[10] = e["gs"],
           s[11] = e["fs"], s[12] = e["es"], s[13] = e["ds"], s[15] = e["eip"],
           s[16] = e["cs"], s[17] = e["eflags"],
           n = 19 => s[18] = e["esp"] /\ s[19] = e["ss"]
    PROVE  \A k \in 1 .. n : intr_stack[k] \in Regs => s[k] = e[intr_stack[k]]
<1> TAKE k \in 1 .. n
<1> HAVE intr_stack[k] \in Regs
<1>1. k \in {2, 3, 4, 6, 7, 8, 9, 10, 11, 12, 13, 15, 16, 17} \/ (n = 19 /\ k \in {18, 19})
  <2>1. k \in {1, 5, 14} \/ k \in {2, 3, 4, 6, 7, 8, 9, 10, 11, 12, 13, 15, 16, 17}
        \/ (n = 19 /\ k \in {18, 19})
    OBVIOUS
  <2>2. k \notin {1, 5, 14}
    BY IntrStack
  <2> QED BY <2>1, <2>2
<1> QED BY <1>1, IntrStack

(* And the other way: what intr_exit finds where it looks.                 *)
LEMMA FrameGives ==
    ASSUME NEW s, NEW e, NEW n \in {17, 19},
           \A k \in 1 .. n : intr_stack[k] \in Regs => s[k] = e[intr_stack[k]]
    PROVE  /\ s[2] = e["edi"] /\ s[3] = e["esi"] /\ s[4] = e["ebp"] /\ s[6] = e["ebx"]
           /\ s[7] = e["edx"] /\ s[8] = e["ecx"] /\ s[9] = e["eax"] /\ s[10] = e["gs"]
           /\ s[11] = e["fs"] /\ s[12] = e["es"] /\ s[13] = e["ds"] /\ s[15] = e["eip"]
           /\ s[16] = e["cs"] /\ s[17] = e["eflags"]
           /\ n = 19 => s[18] = e["esp"] /\ s[19] = e["ss"]
<1>1. \A k \in {2, 3, 4, 6, 7, 8, 9, 10, 11, 12, 13, 15, 16, 17} :
         k \in 1 .. n /\ intr_stack[k] \in Regs
  BY IntrStack, RegisterNames
<1>2. n = 19 => \A k \in {18, 19} : k \in 1 .. n /\ intr_stack[k] \in Regs
  BY IntrStack, RegisterNames
<1>3. \A k \in {2, 3, 4, 6, 7, 8, 9, 10, 11, 12, 13, 15, 16, 17} : s[k] = e[intr_stack[k]]
  BY <1>1
<1>4. n = 19 => \A k \in {18, 19} : s[k] = e[intr_stack[k]]
  BY <1>2
<1> QED BY <1>3, <1>4, IntrStack

(* Sequences one behind another.                                           *)
Joined(r, s, t) == r = s \o t
Sized(s, V, n) == s \in Seq(V) /\ Len(s) = n

LEMMA Concat ==
    ASSUME NEW V, NEW s, NEW t, NEW r, NEW m \in Nat, NEW n \in Nat,
           Sized(s, V, m), Sized(t, V, n), Joined(r, s, t)
    PROVE  /\ Sized(r, V, m + n)
           /\ \A i \in 1 .. m : r[i] = s[i]
           /\ \A i \in 1 .. n : r[m + i] = t[i]
<1>1. s \in Seq(V) /\ t \in Seq(V) /\ m = Len(s) /\ n = Len(t)
  BY DEF Sized
<1> DEFINE c == s \o t
<1>2. /\ c \in Seq(V) /\ Len(c) = Len(s) + Len(t)
      /\ \A i \in 1 .. Len(s) : c[i] = s[i]
      /\ \A i \in 1 .. Len(t) : c[Len(s) + i] = t[i]
  <2>1. s \in Seq(V) /\ t \in Seq(V)
    BY <1>1
  <2> QED BY ONLY <2>1
<1>3. r = c
  BY Zenon DEF Joined
<1> HIDE DEF c
<1> QED BY <1>1, <1>2, <1>3, Zenon DEF Sized

(* A frame: five pieces, of which the fourth and the one behind it are one *)
(* element together.                                                       *)
Pieces(s, v, P, G, Z, C, R, U) == s = v \o P \o G \o Z \o (C \o R \o U)

LEMMA FramePieces ==
    ASSUME NEW V, NEW v, NEW P, NEW G, NEW Z, NEW C, NEW R, NEW U, NEW s,
           NEW z \in {0, 1}, NEW u \in {0, 2},
           Sized(v, V, 1), Sized(P, V, 8), Sized(G, V, 4), Sized(Z, V, z),
           Sized(C, V, 1 - z), Sized(R, V, 3), Sized(U, V, u),
           Pieces(s, v, P, G, Z, C, R, U)
    PROVE  /\ Sized(s, V, 17 + u)
           /\ \A i \in 1 .. 8 : s[1 + i] = P[i]
           /\ \A i \in 1 .. 4 : s[9 + i] = G[i]
           /\ \A i \in 1 .. 3 : s[14 + i] = R[i]
           /\ \A i \in 1 .. u : s[17 + i] = U[i]
<1>1. PICK a : Joined(a, v, P)
  BY DEF Joined
<1>2. Sized(a, V, 9) /\ \A i \in 1 .. 8 : a[1 + i] = P[i]
  BY <1>1, Concat
<1>3. PICK b : Joined(b, a, G)
  BY DEF Joined
<1>4. /\ Sized(b, V, 13) /\ \A i \in 1 .. 9 : b[i] = a[i]
      /\ \A i \in 1 .. 4 : b[9 + i] = G[i]
  BY <1>2, <1>3, Concat
<1>5. PICK c : Joined(c, b, Z)
  BY DEF Joined
<1>6. Sized(c, V, 13 + z) /\ \A i \in 1 .. 13 : c[i] = b[i]
  BY <1>4, <1>5, Concat
<1>7. PICK d : Joined(d, C, R)
  BY DEF Joined
<1>8. Sized(d, V, 1 - z + 3) /\ \A i \in 1 .. 3 : d[1 - z + i] = R[i]
  BY <1>7, Concat
<1>9. PICK e : Joined(e, d, U)
  BY DEF Joined
<1>10. /\ Sized(e, V, 1 - z + 3 + u)
       /\ \A i \in 1 .. 1 - z + 3 : e[i] = d[i]
       /\ \A i \in 1 .. u : e[1 - z + 3 + i] = U[i]
  BY <1>8, <1>9, Concat
<1>11. Joined(s, c, e)
  BY <1>1, <1>3, <1>5, <1>7, <1>9, Zenon DEF Joined, Pieces
<1>12. /\ Sized(s, V, 13 + z + (1 - z + 3 + u)) /\ \A i \in 1 .. 13 + z : s[i] = c[i]
       /\ \A i \in 1 .. 1 - z + 3 + u : s[13 + z + i] = e[i]
  BY <1>6, <1>10, <1>11, Concat
<1>13. Sized(s, V, 17 + u)
  BY <1>12
<1>14. ASSUME NEW i \in 1 .. 8 PROVE s[1 + i] = P[i]
  BY <1>2, <1>4, <1>6, <1>12
<1>15. ASSUME NEW i \in 1 .. 4 PROVE s[9 + i] = G[i]
  BY <1>4, <1>6, <1>12
<1>16. ASSUME NEW i \in 1 .. 3 PROVE s[14 + i] = R[i]
  <2>1. 1 - z + i \in 1 .. 1 - z + 3 + u /\ 13 + z + (1 - z + i) = 14 + i
        /\ 1 - z + i \in 1 .. 1 - z + 3
    OBVIOUS
  <2>2. s[13 + z + (1 - z + i)] = e[1 - z + i]
    BY <1>12, <2>1
  <2> QED BY <1>8, <1>10, <2>1, <2>2
<1>17. ASSUME NEW i \in 1 .. u PROVE s[17 + i] = U[i]
  <2>1. 1 - z + 3 + i \in 1 .. 1 - z + 3 + u /\ 13 + z + (1 - z + 3 + i) = 17 + i
    OBVIOUS
  <2>2. s[13 + z + (1 - z + 3 + i)] = e[1 - z + 3 + i]
    BY <1>12, <2>1
  <2> QED BY <1>10, <2>1, <2>2
<1> QED BY <1>13, <1>14, <1>15, <1>16, <1>17

LEMMA InterruptStep ==
    ASSUME ContextInv, NEW v \in Raised, interrupt(v)
    PROVE  ContextInv'
<1>1. /\ cpu = "running" /\ regs = expected /\ cpu' = "entry" /\ vec' = v /\ expected' = regs
      /\ DOMAIN regs = Regs
  BY DEF ContextInv, interrupt
<1>2. stack' = (ErrorCode \o Return3 \o Return2)'
  BY <1>1 DEF interrupt, ErrorCode, Return3, Return2
<1>3. DOMAIN regs' = Regs /\ \A r \in General \cup Segment : regs'[r] = regs[r]
  <2>1. \A r \in General \cup Segment : r \in Regs /\ r \notin {"eip", "cs", "esp", "ss"}
    BY RegisterNames
  <2> QED BY <1>1, <2>1 DEF interrupt
<1>4. ~user_mode(regs) => regs'["esp"] = regs["esp"] /\ regs'["ss"] = regs["ss"]
  BY <1>1, RegisterNames DEF interrupt
<1>5. ~user_mode(expected') => ~user_mode(regs)
  BY <1>1
<1>6. Complete(regs')
  BY DEF ContextInv, interrupt, Complete
<1>7. Complete(expected')
  BY <1>1 DEF ContextInv
<1> QED BY <1>1, <1>2, <1>3, <1>4, <1>5, <1>6, <1>7 DEF ContextInv

LEMMA EntryStep ==
    ASSUME ContextInv, entry
    PROVE  ContextInv'
<1>1. /\ cpu = "entry" /\ vec \in Raised /\ cpu' = "handler"
      /\ stack = ErrorCode \o Return3 \o Return2
      /\ \A r \in General \cup Segment : regs[r] = expected[r]
      /\ stack' = <<<<"vec_no">>>> \o pushad \o segments \o zero \o stack
      /\ regs' = regs /\ vec' = vec /\ expected' = expected
      /\ DOMAIN regs = Regs /\ DOMAIN expected = Regs
      /\ ~user_mode(expected) => regs["esp"] = expected["esp"] /\ regs["ss"] = expected["ss"]
  BY DEF ContextInv, entry
<1> DEFINE V == {regs[r] : r \in Regs} \cup {expected[r] : r \in Regs}
                  \cup {<<"vec_no">>, <<"esp_dummy">>, <<"error">>, <<"zero">>}
           z == IF vec \in ERROR_CODE THEN 0 ELSE 1
           u == IF user_mode(expected) THEN 2 ELSE 0
           v == <<<<"vec_no">>>>
<1>2. /\ \A r \in Regs : regs[r] \in V /\ expected[r] \in V
      /\ <<"vec_no">> \in V /\ <<"esp_dummy">> \in V /\ <<"error">> \in V /\ <<"zero">> \in V
  OBVIOUS
<1> HIDE DEF V
<1>3. /\ Sized(pushad, V, 8)
      /\ pushad[1] = expected["edi"] /\ pushad[2] = expected["esi"]
      /\ pushad[3] = expected["ebp"] /\ pushad[5] = expected["ebx"]
      /\ pushad[6] = expected["edx"] /\ pushad[7] = expected["ecx"]
      /\ pushad[8] = expected["eax"]
  BY <1>1, <1>2, RegisterNames DEF pushad, Sized
<1>4. /\ Sized(segments, V, 4)
      /\ segments[1] = expected["gs"] /\ segments[2] = expected["fs"]
      /\ segments[3] = expected["es"] /\ segments[4] = expected["ds"]
  BY <1>1, <1>2, RegisterNames DEF segments, Sized
<1>5. /\ Sized(Return3, V, 3)
      /\ Return3[1] = expected["eip"] /\ Return3[2] = expected["cs"]
      /\ Return3[3] = expected["eflags"]
  BY <1>2, RegisterNames DEF Return3, Sized
<1>6. /\ Sized(Return2, V, u)
      /\ user_mode(expected) => Return2[1] = expected["esp"] /\ Return2[2] = expected["ss"]
  BY <1>2, RegisterNames DEF Return2, Sized
<1>7. Sized(zero, V, z) /\ Sized(ErrorCode, V, 1 - z) /\ Sized(v, V, 1)
  BY <1>1, <1>2, OneErrorCode DEF zero, ErrorCode, Sized
<1>8. z \in {0, 1} /\ u \in {0, 2} /\ (user_mode(expected) <=> u = 2)
  OBVIOUS
<1>9. Pieces(stack', v, pushad, segments, zero, ErrorCode, Return3, Return2)
  BY <1>1, Zenon DEF Pieces
<1> HIDE DEF z, u, v
<1>10. /\ Sized(stack', V, 17 + u)
       /\ \A i \in 1 .. 8 : stack'[1 + i] = pushad[i]
       /\ \A i \in 1 .. 4 : stack'[9 + i] = segments[i]
       /\ \A i \in 1 .. 3 : stack'[14 + i] = Return3[i]
       /\ \A i \in 1 .. u : stack'[17 + i] = Return2[i]
  BY <1>3, <1>4, <1>5, <1>6, <1>7, <1>8, <1>9, FramePieces
<1>11. PICK s : s = stack'
  OBVIOUS
<1>12. PICK n : n = 17 + u
  OBVIOUS
<1>13. /\ s[2] = expected["edi"] /\ s[3] = expected["esi"] /\ s[4] = expected["ebp"]
       /\ s[6] = expected["ebx"] /\ s[7] = expected["edx"] /\ s[8] = expected["ecx"]
       /\ s[9] = expected["eax"]
  <2>1. /\ s[1 + 1] = pushad[1] /\ s[1 + 2] = pushad[2] /\ s[1 + 3] = pushad[3]
        /\ s[1 + 5] = pushad[5] /\ s[1 + 6] = pushad[6] /\ s[1 + 7] = pushad[7]
        /\ s[1 + 8] = pushad[8]
    BY <1>10, <1>11
  <2> QED BY <1>3, <2>1
<1>14. /\ s[10] = expected["gs"] /\ s[11] = expected["fs"] /\ s[12] = expected["es"]
       /\ s[13] = expected["ds"]
  <2>1. /\ s[9 + 1] = segments[1] /\ s[9 + 2] = segments[2] /\ s[9 + 3] = segments[3]
        /\ s[9 + 4] = segments[4]
    BY <1>10, <1>11
  <2> QED BY <1>4, <2>1
<1>15. s[15] = expected["eip"] /\ s[16] = expected["cs"] /\ s[17] = expected["eflags"]
  <2>1. s[14 + 1] = Return3[1] /\ s[14 + 2] = Return3[2] /\ s[14 + 3] = Return3[3]
    BY <1>10, <1>11
  <2> QED BY <1>5, <2>1
<1>16. n = 19 => s[18] = expected["esp"] /\ s[19] = expected["ss"]
  <2>1. n = 19 => u = 2 /\ s[17 + 1] = Return2[1] /\ s[17 + 2] = Return2[2]
    BY <1>8, <1>10, <1>11, <1>12
  <2> QED BY <1>6, <1>8, <2>1
<1>17. n \in {17, 19} /\ n = FrameLen
  BY <1>8, <1>12 DEF FrameLen
<1>18. \A k \in 1 .. n : intr_stack[k] \in Regs => s[k] = expected[intr_stack[k]]
  BY <1>13, <1>14, <1>15, <1>16, <1>17, FrameHolds
<1>19. Len(stack') = n
  BY <1>10, <1>12 DEF Sized
<1>20. Frame' /\ (user_mode(expected') <=> user_mode(expected))
  BY <1>1, <1>11, <1>17, <1>18, <1>19 DEF Frame, FrameLen
<1> QED BY <1>1, <1>20 DEF ContextInv

LEMMA HandlerStep ==
    ASSUME ContextInv, handler
    PROVE  ContextInv'
<1>1. /\ cpu = "handler" /\ regs' = after_call /\ cpu' \in {"halted", "intr_exit"}
      /\ stack' = stack /\ expected' = expected /\ Frame /\ DOMAIN expected = Regs
      /\ ~user_mode(expected) => regs["esp"] = expected["esp"] /\ regs["ss"] = expected["ss"]
  BY DEF handler, ContextInv
<1>2. DOMAIN regs' = Regs /\ regs'["esp"] = regs["esp"] /\ regs'["ss"] = regs["ss"]
  BY <1>1, RegisterNames DEF after_call
<1>3. Frame'
  BY <1>1 DEF Frame, FrameLen
<1>4. Complete(regs')
  BY <1>1 DEF Complete, after_call
<1> QED BY <1>1, <1>2, <1>3, <1>4 DEF ContextInv

LEMMA SyscallStep ==
    ASSUME ContextInv, syscall_handler
    PROVE  ContextInv'
<1>1. /\ cpu = "handler" /\ regs' = after_call /\ cpu' = "intr_exit"
      /\ stack' = [stack EXCEPT ![9] = <<"handler", "eax">>]
      /\ expected' = [expected EXCEPT !["eax"] = <<"handler", "eax">>]
      /\ Frame /\ DOMAIN expected = Regs
      /\ ~user_mode(expected) => regs["esp"] = expected["esp"] /\ regs["ss"] = expected["ss"]
  BY DEF syscall_handler, ContextInv, eax_slot
<1>2. DOMAIN regs' = Regs /\ regs'["esp"] = regs["esp"] /\ regs'["ss"] = regs["ss"]
  BY <1>1, RegisterNames DEF after_call
<1>3. /\ DOMAIN expected' = Regs /\ expected'["eax"] = <<"handler", "eax">>
      /\ \A r \in Regs : r # "eax" => expected'[r] = expected[r]
  BY <1>1, RegisterNames
<1>4. (user_mode(expected') <=> user_mode(expected))
      /\ expected'["esp"] = expected["esp"] /\ expected'["ss"] = expected["ss"]
  BY <1>3, RegisterNames DEF user_mode
<1>5. FrameLen' = FrameLen /\ FrameLen \in {17, 19}
  BY <1>4 DEF FrameLen
<1>6. Frame'
  <2>1. Len(stack') = FrameLen'
    BY <1>1, <1>5 DEF Frame
  <2>2. ASSUME NEW k \in 1 .. FrameLen, intr_stack[k] \in Regs
        PROVE  stack'[k] = expected'[intr_stack[k]]
    <3>1. stack[k] = expected[intr_stack[k]]
      BY <1>1, <2>2 DEF Frame
    <3>2. CASE k = 9
      <4>1. intr_stack[k] = "eax"
        BY <3>2, IntrStack
      <4>2. 9 \in DOMAIN stack
        BY <1>1, <1>5 DEF Frame
      <4> QED BY <1>1, <1>3, <3>2, <4>1, <4>2
    <3>3. CASE k # 9
      <4>1. intr_stack[k] # "eax"
        <5>1. k \in {1, 2, 3, 4, 5, 6, 7, 8, 10, 11, 12, 13, 14, 15, 16, 17, 18, 19}
          BY <1>5, <3>3
        <5> QED BY <5>1, IntrStack
      <4>2. stack'[k] = stack[k]
        BY <1>1, <3>3
      <4> QED BY <1>3, <2>2, <3>1, <4>1, <4>2
    <3> QED BY <3>2, <3>3
  <2> QED BY <1>5, <2>1, <2>2 DEF Frame
<1>7. Complete(regs') /\ Complete(expected')
  BY <1>1 DEF ContextInv, Complete, after_call
<1> QED BY <1>1, <1>2, <1>3, <1>4, <1>6, <1>7 DEF ContextInv

LEMMA IntrExitStep ==
    ASSUME ContextInv, intr_exit
    PROVE  ContextInv'
<1>1. /\ cpu = "intr_exit" /\ cpu' = "running" /\ expected' = expected
      /\ Frame /\ DOMAIN expected = Regs
      /\ ~user_mode(expected) => regs["esp"] = expected["esp"] /\ regs["ss"] = expected["ss"]
      /\ regs' = [r \in Regs |->
                  IF r \in General THEN popad[r]
                  ELSE IF r \in Segment THEN popped_segments[r]
                  ELSE IF r \in {"esp", "ss"} THEN iretd_outer[r]
                  ELSE iretd[r]]
      /\ stack' = SubSeq(stack, IF user_mode(iretd) THEN 20 ELSE 18, Len(stack))
  BY DEF intr_exit, ContextInv
<1>2. FrameLen \in {17, 19} /\ (user_mode(expected) <=> FrameLen = 19)
  BY DEF FrameLen
<1>3. /\ stack[2] = expected["edi"] /\ stack[3] = expected["esi"]
      /\ stack[4] = expected["ebp"] /\ stack[6] = expected["ebx"]
      /\ stack[7] = expected["edx"] /\ stack[8] = expected["ecx"]
      /\ stack[9] = expected["eax"] /\ stack[10] = expected["gs"]
      /\ stack[11] = expected["fs"] /\ stack[12] = expected["es"]
      /\ stack[13] = expected["ds"] /\ stack[15] = expected["eip"]
      /\ stack[16] = expected["cs"] /\ stack[17] = expected["eflags"]
      /\ FrameLen = 19 => stack[18] = expected["esp"] /\ stack[19] = expected["ss"]
  <2>1. \A k \in 1 .. FrameLen : intr_stack[k] \in Regs => stack[k] = expected[intr_stack[k]]
    BY <1>1 DEF Frame
  <2> QED BY <1>2, <2>1, FrameGives
<1>4. user_mode(iretd) <=> user_mode(expected)
  BY <1>3 DEF user_mode, iretd
<1>5. \A r \in General : popad[r] = expected[r]
  BY <1>3 DEF popad, General
<1>6. \A r \in Segment : popped_segments[r] = expected[r]
  BY <1>3 DEF popped_segments, Segment
<1>7. \A r \in {"esp", "ss"} : iretd_outer[r] = expected[r]
  <2>1. CASE user_mode(expected)
    BY <1>2, <1>3, <1>4, <2>1 DEF iretd_outer
  <2>2. CASE ~user_mode(expected)
    BY <1>1, <1>4, <2>2 DEF iretd_outer
  <2> QED BY <2>1, <2>2
<1>8. \A r \in {"eip", "cs", "eflags"} : iretd[r] = expected[r]
  BY <1>3 DEF iretd
<1>9. ASSUME NEW r \in Regs PROVE regs'[r] = expected[r]
  <2>1. r \in General \/ r \in Segment \/ r \in {"esp", "ss"} \/ r \in {"eip", "cs", "eflags"}
    BY RegisterNames
  <2>2. CASE r \in General
    BY <1>1, <1>5, <2>2
  <2>3. CASE r \in Segment
    <3>1. r \notin General
      BY <2>3 DEF General, Segment
    <3> QED BY <1>1, <1>6, <2>3, <3>1
  <2>4. CASE r \in {"esp", "ss"}
    <3>1. r \notin General /\ r \notin Segment
      BY <2>4 DEF General, Segment
    <3> QED BY <1>1, <1>7, <2>4, <3>1
  <2>5. CASE r \in {"eip", "cs", "eflags"}
    <3>1. r \notin General /\ r \notin Segment /\ r \notin {"esp", "ss"}
      BY <2>5 DEF General, Segment
    <3> QED BY <1>1, <1>8, <2>5, <3>1
  <2> QED BY <2>1, <2>2, <2>3, <2>4, <2>5
<1>10. DOMAIN regs' = Regs
  BY <1>1
<1>11. stack' = <<>>
  <2>1. Len(stack) = FrameLen
    BY <1>1 DEF Frame
  <2> QED BY <1>1, <1>2, <1>4, <2>1
<1>12. regs' = expected'
  <2>1. expected = [r \in Regs |-> expected[r]]
    BY DEF ContextInv, Complete
  <2>2. regs' = [r \in Regs |-> regs'[r]]
    BY <1>1
  <2>3. [r \in Regs |-> regs'[r]] = [r \in Regs |-> expected[r]]
    BY <1>9
  <2> QED BY <1>1, <2>1, <2>2, <2>3, Zenon
<1>13. Complete(regs') /\ Complete(expected')
  BY <1>1, <1>12 DEF ContextInv
<1> QED BY <1>1, <1>10, <1>11, <1>12, <1>13 DEF ContextInv

LEMMA StartProcessStep ==
    ASSUME ContextInv, start_process
    PROVE  ContextInv'
<1>1. /\ stack' = [k \in DOMAIN intr_stack |-> proc_stack(intr_stack[k])]
      /\ expected' = [r \in Regs |-> proc_stack(r)]
      /\ cpu' = "intr_exit" /\ regs' = regs /\ DOMAIN regs = Regs
  BY DEF start_process, ContextInv
<1>2. DOMAIN intr_stack = 1 .. 19
  BY IntrStack DEF intr_stack
<1>3. user_mode(expected')
  <2>1. expected'["cs"] = proc_stack("cs")
    BY <1>1, RegisterNames
  <2> QED BY <2>1, RegisterNames DEF proc_stack, user_mode
<1>4. FrameLen' = 19
  BY <1>3 DEF FrameLen
<1>5. Len(stack') = 19 /\ \A k \in 1 .. 19 : stack'[k] = proc_stack(intr_stack[k])
  BY <1>1, <1>2
<1>6. Frame'
  BY <1>1, <1>4, <1>5 DEF Frame
<1>7. Complete(regs') /\ Complete(expected')
  BY <1>1 DEF ContextInv, Complete
<1> QED BY <1>1, <1>3, <1>6, <1>7 DEF ContextInv

(* Whoever is interrupted, by whichever vector and whatever the processor  *)
(* pushes for it, goes on with its own registers and the kernel stack as   *)
(* it was; a system call changes eax only; a process begins with what      *)
(* start_process wrote.  Every handler finds a struct intr_stack.          *)
THEOREM ContextIsRestored == EntrySpec => []EntryInv
<1>1. EntryInit => ContextInv
  <2> SUFFICES ASSUME EntryInit PROVE ContextInv
    OBVIOUS
  <2>1. Complete(Kernel) /\ DOMAIN Kernel = Regs
    BY DEF Complete, Kernel, context
  <2> QED BY <2>1 DEF EntryInit, ContextInv
<1>2. ContextInv /\ [EntryNext]_entry_vars => ContextInv'
  <2> SUFFICES ASSUME ContextInv, [EntryNext]_entry_vars PROVE ContextInv'
    OBVIOUS
  <2>1. CASE \E v \in Raised : interrupt(v)
    BY <2>1, InterruptStep
  <2>2. CASE entry
    BY <2>2, EntryStep
  <2>3. CASE handler
    BY <2>3, HandlerStep
  <2>4. CASE syscall_handler
    BY <2>4, SyscallStep
  <2>5. CASE intr_exit
    BY <2>5, IntrExitStep
  <2>6. CASE start_process
    BY <2>6, StartProcessStep
  <2>7. CASE UNCHANGED entry_vars
    BY <2>7 DEF entry_vars, ContextInv, Frame, FrameLen, ErrorCode, Return3, Return2
  <2> QED BY <2>1, <2>2, <2>3, <2>4, <2>5, <2>6, <2>7 DEF EntryNext
<1>3. ContextInv => EntryInv
  <2> SUFFICES ASSUME ContextInv PROVE EntryInv
    OBVIOUS
  <2>1. ContextRestored
    BY DEF ContextInv, ContextRestored
  <2>2. FrameIsIntrStack
    <3> SUFFICES ASSUME cpu = "handler"
                 PROVE  \A k \in 1 .. Len(stack) :
                          intr_stack[k] \in Regs => stack[k] = expected[intr_stack[k]]
      BY Zenon DEF FrameIsIntrStack
    <3>1. Frame
      BY DEF ContextInv
    <3> QED BY <3>1, Zenon DEF Frame
  <2> QED BY <2>1, <2>2, Zenon DEF EntryInv
<1> QED BY <1>1, <1>2, <1>3, PTL DEF EntrySpec

-----------------------------------------------------------------------------
(* The segments.  A descriptor's type and level are in its sixth byte.     *)
SegRegs == {"cs", "ds", "es", "fs", "gs", "ss"}

(* The table of the loader, and what tss_init has added.                   *)
LoaderTable == gdt[1][6] = 152 /\ gdt[2][6] = 146 /\ gdt[3][6] = 146
TssTable ==
    /\ gdt[5][6] = 248 /\ gdt[6][6] = 242
    /\ gdt[4][3] = Tss[1] /\ gdt[4][4] = Tss[2] /\ gdt[4][5] = Tss[3] /\ gdt[4][8] = Tss[4]

(* Selectors that are loaded together: those of the kernel's code or of a  *)
(* process's, and data segments.                                           *)
Selectors(s) ==
    /\ DOMAIN s = SegRegs
    /\ \A r \in {"ds", "es", "fs", "gs"} :
         s[r] \in {0, SELECTOR_K_DATA, SELECTOR_VIDEO, SELECTOR_U_DATA}
    /\ \/ s["cs"] = SELECTOR_K_CODE /\ s["ss"] = SELECTOR_K_DATA
       \/ s["cs"] = SELECTOR_U_CODE /\ s["ss"] = SELECTOR_U_DATA

SelectorsInv ==
    /\ ~fault
    /\ seg_step \in {"loader", "p_mode", "kernel", "ltr", "running", "halted"}
    /\ gate.vector \in (0 .. 47) \cup {128} /\ (gate.by_process => gate.vector = 128)
    /\ DOMAIN gdt = 0 .. 6 /\ \A i \in 0 .. 6 : DOMAIN gdt[i] = 1 .. 8
    /\ LoaderTable
    /\ DOMAIN seg = SegRegs
    /\ seg_step \notin {"running", "halted"} => saved = <<>> /\ ~process
    /\ seg_step # "loader" => Selectors(seg)
    /\ seg_step = "loader" => seg["fs"] = 0
    /\ seg_step \in {"loader", "p_mode", "kernel"} => gdt_limit = 31
    /\ seg_step \in {"ltr", "running", "halted"} => gdt_limit = 55 /\ TssTable
    /\ seg_step \in {"kernel", "ltr", "running"} => gdt[3][8] = 192
    /\ seg_step = "ltr" => gdt[4][6] = 137
    /\ seg_step = "running" => tr /\ gdt[4][6] = 139 /\ (saved = <<>> \/ Selectors(saved))

LEMMA SelectorNumbers ==
    /\ SELECTOR_K_CODE = 8 /\ SELECTOR_K_DATA = 16 /\ SELECTOR_VIDEO = 24
    /\ SELECTOR_TSS = 32 /\ SELECTOR_U_CODE = 43 /\ SELECTOR_U_DATA = 51
  BY DEF SELECTOR_K_CODE, SELECTOR_K_DATA, SELECTOR_VIDEO, SELECTOR_TSS,
         SELECTOR_U_CODE, SELECTOR_U_DATA, selector

LEMMA Indexes ==
    /\ 8 \div 8 = 1 /\ 16 \div 8 = 2 /\ 24 \div 8 = 3 /\ 32 \div 8 = 4
    /\ 43 \div 8 = 5 /\ 51 \div 8 = 6
    /\ 8 % 8 = 0 /\ 16 % 8 = 0 /\ 24 % 8 = 0 /\ 32 % 8 = 0 /\ 43 % 8 = 3 /\ 51 % 8 = 3
    /\ 8 % 4 = 0 /\ 16 % 4 = 0 /\ 24 % 4 = 0 /\ 43 % 4 = 3 /\ 51 % 4 = 3 /\ 0 % 4 = 0
  OBVIOUS

LEMMA TypesAndLevels ==
    /\ (152 \div 32) % 4 = 0 /\ 152 % 32 = 24 /\ (146 \div 32) % 4 = 0 /\ 146 % 32 = 18
    /\ (248 \div 32) % 4 = 3 /\ 248 % 32 = 24 /\ (242 \div 32) % 4 = 3 /\ 242 % 32 = 18
    /\ (238 \div 32) % 4 = 3 /\ (142 \div 32) % 4 = 0 /\ 137 % 32 = 9
  OBVIOUS

LEMMA Attributes ==
    /\ DESC_P + DPL(0) + DESC_S + DESC_TYPE_CODE = 152
    /\ DESC_P + DPL(0) + DESC_S + DESC_TYPE_DATA = 146
    /\ DESC_P + DPL(3) + DESC_S + DESC_TYPE_CODE = 248
    /\ DESC_P + DPL(3) + DESC_S + DESC_TYPE_DATA = 242
    /\ DESC_P + DPL(0) + DESC_TYPE_TSS = 137
    /\ DESC_P + DPL(3) + IDT_DESC_32_TYPE = 238 /\ DESC_P + DPL(0) + IDT_DESC_32_TYPE = 142
    /\ DESC_P = 128 /\ DESC_S + DESC_TYPE_CODE = 24 /\ DESC_S + DESC_TYPE_DATA = 18
    /\ DESC_TYPE_TSS = 9
  BY DEF DESC_P, DPL, DESC_S, DESC_TYPE_CODE, DESC_TYPE_DATA, DESC_TYPE_TSS, IDT_DESC_32_TYPE

(* The kernel's own selectors can be loaded from the loader on.            *)
LEMMA KernelLoads ==
    ASSUME LoaderTable, gdt_limit \in {31, 55}
    PROVE  /\ code_loads(SELECTOR_K_CODE, 0) /\ stack_loads(SELECTOR_K_DATA, 0)
           /\ data_loads(0, 0) /\ data_loads(SELECTOR_K_DATA, 0) /\ data_loads(SELECTOR_VIDEO, 0)
<1>1. present(8) /\ present(16) /\ present(24)
  BY Indexes, Attributes DEF present, descriptor, LoaderTable
<1>2. code_loads(8, 0)
  BY <1>1, Indexes, TypesAndLevels, Attributes
  DEF code_loads, descriptor, kind, dpl, LoaderTable
<1>3. stack_loads(16, 0)
  BY <1>1, Indexes, TypesAndLevels, Attributes
  DEF stack_loads, descriptor, kind, dpl, LoaderTable
<1>4. data_loads(0, 0)
  BY DEF data_loads
<1>5. data_loads(16, 0)
  BY <1>1, Indexes, TypesAndLevels, Attributes
  DEF data_loads, descriptor, kind, dpl, larger, LoaderTable
<1>6. data_loads(24, 0)
  BY <1>1, Indexes, TypesAndLevels, Attributes
  DEF data_loads, descriptor, kind, dpl, larger, LoaderTable
<1> QED BY <1>2, <1>3, <1>4, <1>5, <1>6, SelectorNumbers

(* Those of processes, once tss_init has made room for them.               *)
LEMMA UserLoads ==
    ASSUME TssTable, gdt_limit = 55
    PROVE  /\ code_loads(SELECTOR_U_CODE, 3) /\ stack_loads(SELECTOR_U_DATA, 3)
           /\ data_loads(SELECTOR_U_DATA, 0)
<1>1. present(43) /\ present(51)
  BY Indexes, Attributes DEF present, descriptor, TssTable
<1>2. code_loads(43, 3)
  BY <1>1, Indexes, TypesAndLevels, Attributes
  DEF code_loads, descriptor, kind, dpl, TssTable
<1>3. stack_loads(51, 3)
  BY <1>1, Indexes, TypesAndLevels, Attributes
  DEF stack_loads, descriptor, kind, dpl, TssTable
<1>4. data_loads(51, 0)
  BY <1>1, Indexes, TypesAndLevels, Attributes
  DEF data_loads, descriptor, kind, dpl, larger, TssTable
<1> QED BY <1>2, <1>3, <1>4, SelectorNumbers

LEMMA TssBase ==
    ASSUME TssTable
    PROVE  base_of(descriptor(SELECTOR_TSS)) = Tss
<1>1. base_of(descriptor(SELECTOR_TSS)) = <<Tss[1], Tss[2], Tss[3], Tss[4]>>
  BY SelectorNumbers, Indexes DEF base_of, descriptor, TssTable
<1>2. Tss = <<Tss[1], Tss[2], Tss[3], Tss[4]>>
  BY SegmentsAssumption
<1> QED BY <1>1, <1>2, Zenon

(* The bytes of a descriptor that matter here.                             *)
LEMMA MadeDesc ==
    ASSUME NEW base, NEW limit, NEW low_attr, NEW high_attr, NEW d,
           d = make_gdt_desc(base, limit, low_attr, high_attr)
    PROVE  /\ DOMAIN d = 1 .. 8 /\ d[6] = low_attr
           /\ d[3] = base[1] /\ d[4] = base[2] /\ d[5] = base[3] /\ d[8] = base[4]
  BY DEF make_gdt_desc

LEMMA SegmentsInitInv == SegmentsInit => SelectorsInv
<1> SUFFICES ASSUME SegmentsInit PROVE SelectorsInv
  OBVIOUS
<1>1. /\ DOMAIN gdt = 0 .. 6
      /\ gdt[1] = make_gdt_desc(flat, 1048575, DESC_P + DPL(0) + DESC_S + DESC_TYPE_CODE,
                                GDT_ATTR_HIGH)
      /\ gdt[2] = make_gdt_desc(flat, 1048575, DESC_P + DPL(0) + DESC_S + DESC_TYPE_DATA,
                                GDT_ATTR_HIGH)
      /\ gdt[3] = make_gdt_desc(<<0, 128, 11, 0>>, 7,
                                DESC_P + DPL(0) + DESC_S + DESC_TYPE_DATA, GDT_ATTR_HIGH)
      /\ \A i \in {0, 4, 5, 6} : gdt[i] = null_desc
  BY DEF SegmentsInit
<1>2. \A i \in {1, 2, 3} : DOMAIN gdt[i] = 1 .. 8
  BY <1>1, MadeDesc
<1>3. \A i \in {0, 4, 5, 6} : DOMAIN gdt[i] = 1 .. 8
  BY <1>1 DEF null_desc
<1>4. LoaderTable
  BY <1>1, MadeDesc, Attributes DEF LoaderTable
<1>5. \A i \in 0 .. 6 : DOMAIN gdt[i] = 1 .. 8
  BY <1>2, <1>3
<1>6. gdt_limit = 31 /\ seg_step = "loader" /\ ~fault /\ saved = <<>> /\ ~process
      /\ DOMAIN seg = SegRegs /\ seg["fs"] = 0
      /\ gate.vector = 0 /\ gate.by_process = FALSE
  BY DEF SegmentsInit, SegRegs
<1> QED BY <1>1, <1>4, <1>5, <1>6 DEF SelectorsInv

LEMMA PModeStep ==
    ASSUME SelectorsInv, p_mode_start
    PROVE  SelectorsInv'
<1>1. /\ UNCHANGED <<gdt, gdt_limit, tr, saved, gate, process>>
      /\ seg_step = "loader" /\ seg_step' = "p_mode" /\ LoaderTable /\ gdt_limit = 31
      /\ DOMAIN seg = SegRegs /\ seg["fs"] = 0 /\ saved = <<>> /\ ~process
  BY DEF p_mode_start, SelectorsInv
<1>2. fault' = FALSE
  BY <1>1, KernelLoads DEF p_mode_start
<1>3. DOMAIN seg' = SegRegs /\ Selectors(seg')
  <2>1. /\ DOMAIN seg' = SegRegs
        /\ seg'["cs"] = SELECTOR_K_CODE /\ seg'["ss"] = SELECTOR_K_DATA /\ seg'["fs"] = 0
        /\ seg'["ds"] = SELECTOR_K_DATA /\ seg'["es"] = SELECTOR_K_DATA
        /\ seg'["gs"] = SELECTOR_VIDEO
    BY <1>1 DEF p_mode_start, SegRegs
  <2> QED BY <2>1 DEF Selectors
<1> QED BY <1>1, <1>2, <1>3 DEF SelectorsInv, LoaderTable

LEMMA EnterKernelStep ==
    ASSUME SelectorsInv, enter_kernel
    PROVE  SelectorsInv'
<1>1. /\ UNCHANGED <<gdt_limit, tr, seg, saved, gate, process, fault>>
      /\ seg_step = "p_mode" /\ seg_step' = "kernel"
      /\ gdt' = [gdt EXCEPT ![3] = [@ EXCEPT ![8] = 192]]
  BY DEF enter_kernel, video_desc
<1>2. /\ DOMAIN gdt = 0 .. 6 /\ \A i \in 0 .. 6 : DOMAIN gdt[i] = 1 .. 8
      /\ LoaderTable
  BY DEF SelectorsInv
<1>3. /\ DOMAIN gdt' = 0 .. 6 /\ \A i \in 0 .. 6 : DOMAIN gdt'[i] = 1 .. 8
      /\ gdt'[3][8] = 192 /\ LoaderTable'
  BY <1>1, <1>2 DEF LoaderTable
<1> QED BY <1>1, <1>3 DEF SelectorsInv

LEMMA TssInitStep ==
    ASSUME SelectorsInv, tss_init
    PROVE  SelectorsInv'
<1>1. /\ UNCHANGED <<tr, seg, saved, gate, process, fault>>
      /\ seg_step = "kernel" /\ seg_step' = "ltr" /\ gdt_limit' = 55
  BY DEF tss_init, gdt_operand_limit
<1>2. /\ DOMAIN gdt = 0 .. 6 /\ \A i \in 0 .. 6 : DOMAIN gdt[i] = 1 .. 8
      /\ LoaderTable /\ gdt[3][8] = 192
  BY <1>1 DEF SelectorsInv
<1> DEFINE d4 == make_gdt_desc(Tss, 27 * 4 - 1, DESC_P + DPL(0) + DESC_TYPE_TSS, TSS_ATTR_HIGH)
           d5 == make_gdt_desc(flat, 1048575, DESC_P + DPL(3) + DESC_S + DESC_TYPE_CODE,
                               GDT_ATTR_HIGH)
           d6 == make_gdt_desc(flat, 1048575, DESC_P + DPL(3) + DESC_S + DESC_TYPE_DATA,
                               GDT_ATTR_HIGH)
<1>3. gdt' = [gdt EXCEPT ![4] = d4, ![5] = d5, ![6] = d6]
  BY DEF tss_init
<1>4. /\ DOMAIN d4 = 1 .. 8 /\ d4[6] = 137
      /\ d4[3] = Tss[1] /\ d4[4] = Tss[2] /\ d4[5] = Tss[3] /\ d4[8] = Tss[4]
  BY MadeDesc, Attributes
<1>5. DOMAIN d5 = 1 .. 8 /\ d5[6] = 248 /\ DOMAIN d6 = 1 .. 8 /\ d6[6] = 242
  BY MadeDesc, Attributes
<1> HIDE DEF d4, d5, d6
<1>6. /\ DOMAIN gdt' = 0 .. 6 /\ gdt'[4] = d4 /\ gdt'[5] = d5 /\ gdt'[6] = d6
      /\ \A i \in {0, 1, 2, 3} : gdt'[i] = gdt[i]
  BY <1>2, <1>3
<1>7. \A i \in 0 .. 6 : DOMAIN gdt'[i] = 1 .. 8
  <2>1. \A i \in 0 .. 6 : i \in {0, 1, 2, 3} \/ i = 4 \/ i = 5 \/ i = 6
    OBVIOUS
  <2> QED BY <1>2, <1>4, <1>5, <1>6, <2>1
<1>8. LoaderTable' /\ TssTable' /\ gdt'[4][6] = 137 /\ gdt'[3][8] = 192
  BY <1>2, <1>4, <1>5, <1>6 DEF LoaderTable, TssTable
<1> QED BY <1>1, <1>6, <1>7, <1>8 DEF SelectorsInv

LEMMA LtrStep ==
    ASSUME SelectorsInv, ltr
    PROVE  SelectorsInv'
<1>1. /\ seg_step = "ltr" /\ ~fault /\ gdt_limit = 55 /\ TssTable /\ LoaderTable
      /\ gdt[4][6] = 137 /\ gdt[3][8] = 192
      /\ DOMAIN gdt = 0 .. 6 /\ \A i \in 0 .. 6 : DOMAIN gdt[i] = 1 .. 8
      /\ UNCHANGED <<gdt_limit, seg, saved, gate, process>>
  BY DEF SelectorsInv, ltr
<1>2. present(SELECTOR_TSS) /\ kind(descriptor(SELECTOR_TSS)) = DESC_TYPE_TSS
  BY <1>1, SelectorNumbers, Indexes, TypesAndLevels, Attributes DEF present, descriptor, kind
<1>3. /\ gdt' = [gdt EXCEPT ![4][6] = @ + 2] /\ tr' = TRUE /\ seg_step' = "running"
      /\ fault' = fault
  BY <1>2 DEF ltr
<1>4. /\ DOMAIN gdt' = 0 .. 6 /\ \A i \in 0 .. 6 : DOMAIN gdt'[i] = 1 .. 8
      /\ gdt'[4][6] = 139 /\ gdt'[3][8] = 192
  BY <1>1, <1>3
<1>5. LoaderTable' /\ TssTable'
  BY <1>1, <1>3 DEF LoaderTable, TssTable
<1> QED BY <1>1, <1>3, <1>4, <1>5 DEF SelectorsInv

LEMMA PutCharStep ==
    ASSUME SelectorsInv, put_char_gs
    PROVE  SelectorsInv'
<1>1. /\ seg_step \in {"kernel", "running"} /\ LoaderTable /\ gdt_limit \in {31, 55}
      /\ gdt[3][8] = 192 /\ Selectors(seg) /\ DOMAIN seg = SegRegs
      /\ seg' = [seg EXCEPT !["gs"] = SELECTOR_VIDEO]
      /\ UNCHANGED <<gdt, gdt_limit, tr, saved, gate, process, seg_step>>
  BY DEF SelectorsInv, put_char_gs
<1>2. base_of(descriptor(SELECTOR_VIDEO))[4] = 192
  BY <1>1, SelectorNumbers, Indexes DEF base_of, descriptor
<1>3. fault' = FALSE
  BY <1>1, <1>2, KernelLoads DEF put_char_gs
<1>4. Selectors(seg') /\ DOMAIN seg' = SegRegs
  BY <1>1 DEF Selectors, SegRegs
<1> QED BY <1>1, <1>3, <1>4 DEF SelectorsInv, LoaderTable, TssTable

LEMMA StartSelectorsStep ==
    ASSUME SelectorsInv, start_process_selectors
    PROVE  SelectorsInv'
<1>1. /\ seg_step = "running" /\ Selectors(seg) /\ DOMAIN seg = SegRegs /\ process'
      /\ UNCHANGED <<gdt, gdt_limit, tr, seg, gate, seg_step, fault>>
      /\ saved' = [seg EXCEPT !["gs"] = 0, !["fs"] = SELECTOR_U_DATA, !["es"] = SELECTOR_U_DATA,
                            !["ds"] = SELECTOR_U_DATA, !["cs"] = SELECTOR_U_CODE,
                            !["ss"] = SELECTOR_U_DATA]
  BY DEF SelectorsInv, start_process_selectors, running
<1>2. Selectors(saved')
  BY <1>1 DEF Selectors, SegRegs
<1> QED BY <1>1, <1>2 DEF SelectorsInv, LoaderTable, TssTable

LEMMA IntrExitPopsStep ==
    ASSUME SelectorsInv, intr_exit_pops
    PROVE  SelectorsInv'
<1>1. /\ seg_step = "running" /\ Selectors(saved) /\ seg' = saved /\ saved' = <<>>
      /\ LoaderTable /\ TssTable /\ gdt_limit = 55
      /\ UNCHANGED <<gdt, gdt_limit, tr, gate, process, seg_step>>
  BY DEF SelectorsInv, intr_exit_pops
<1>2. \A r \in {"gs", "fs", "es", "ds"} : data_loads(saved[r], 0)
  <2>1. /\ data_loads(0, 0) /\ data_loads(SELECTOR_K_DATA, 0) /\ data_loads(SELECTOR_VIDEO, 0)
        /\ data_loads(SELECTOR_U_DATA, 0)
    BY <1>1, KernelLoads, UserLoads
  <2>2. \A r \in {"gs", "fs", "es", "ds"} :
           saved[r] \in {0, SELECTOR_K_DATA, SELECTOR_VIDEO, SELECTOR_U_DATA}
    BY <1>1 DEF Selectors
  <2> QED BY <2>1, <2>2
<1>3. /\ code_loads(saved["cs"], saved["cs"] % 4)
      /\ saved["cs"] % 4 # 0 => stack_loads(saved["ss"], saved["cs"] % 4)
  <2>1. CASE saved["cs"] = SELECTOR_K_CODE
    <3>1. saved["cs"] % 4 = 0
      BY <2>1, SelectorNumbers, Indexes
    <3> QED BY <1>1, <2>1, <3>1, KernelLoads
  <2>2. CASE saved["cs"] = SELECTOR_U_CODE /\ saved["ss"] = SELECTOR_U_DATA
    <3>1. saved["cs"] % 4 = 3
      BY <2>2, SelectorNumbers, Indexes
    <3> QED BY <1>1, <2>2, <3>1, UserLoads
  <2> QED BY <1>1, <2>1, <2>2 DEF Selectors
<1>4. fault' = FALSE
  BY <1>2, <1>3 DEF intr_exit_pops
<1>5. DOMAIN seg' = SegRegs /\ Selectors(seg')
  BY <1>1 DEF Selectors
<1> QED BY <1>1, <1>4, <1>5 DEF SelectorsInv, LoaderTable, TssTable

(* An entry, from wherever, finds the kernel's code and stack.             *)
LEMMA EnterStep ==
    ASSUME SelectorsInv, seg_step = "running", NEW v \in (0 .. 47) \cup {128},
           NEW by_process \in BOOLEAN, by_process => v = 128, enter(v, by_process),
           seg_step' \in {"running", "halted"}
    PROVE  SelectorsInv'
<1>1. /\ Selectors(seg) /\ DOMAIN seg = SegRegs /\ tr
      /\ LoaderTable /\ TssTable /\ gdt_limit = 55 /\ gdt[3][8] = 192 /\ gdt[4][6] = 139
      /\ gate' = [vector |-> v, by_process |-> by_process] /\ saved' = seg
      /\ seg' = [seg EXCEPT !["cs"] = SELECTOR_K_CODE,
                          !["ss"] = IF cpl = 3 THEN SELECTOR_K_DATA ELSE @]
      /\ UNCHANGED <<gdt, gdt_limit, tr, process>>
  BY DEF SelectorsInv, enter
<1>2. fault' = FALSE
  BY <1>1, KernelLoads, TssBase DEF enter
<1>3. seg["ss"] = SELECTOR_K_DATA \/ cpl = 3
  <2>1. seg["cs"] = SELECTOR_U_CODE => cpl = 3
    BY SelectorNumbers, Indexes DEF cpl
  <2> QED BY <1>1, <2>1 DEF Selectors
<1>4. DOMAIN seg' = SegRegs /\ Selectors(seg')
  <2>1. /\ DOMAIN seg' = SegRegs /\ seg'["cs"] = SELECTOR_K_CODE /\ seg'["ss"] = SELECTOR_K_DATA
        /\ \A r \in {"ds", "es", "fs", "gs"} : seg'[r] = seg[r]
    BY <1>1, <1>3 DEF SegRegs
  <2> QED BY <1>1, <2>1 DEF Selectors
<1>5. gate'.vector = v /\ gate'.by_process = by_process
  BY <1>1
<1> QED BY <1>1, <1>2, <1>4, <1>5 DEF SelectorsInv, LoaderTable, TssTable

LEMMA IntNStep ==
    ASSUME SelectorsInv, NEW n \in Nat, int_n(n)
    PROVE  SelectorsInv'
<1>1. seg_step = "running"
  BY DEF int_n, running
<1>2. (gate_attribute(n) \div 32) % 4 = 3 => n = 128
  BY Attributes, TypesAndLevels DEF gate_attribute
<1>3. \/ n = 128 /\ enter(n, TRUE) /\ seg_step' = seg_step
      \/ enter(13, FALSE) /\ seg_step' = "halted"
  BY <1>2 DEF int_n
<1>4. CASE enter(13, FALSE) /\ seg_step' = "halted"
  <2>1. 13 \in (0 .. 47) \cup {128} /\ FALSE \in BOOLEAN /\ seg_step' \in {"running", "halted"}
    BY <1>4
  <2> QED BY <1>1, <1>4, <2>1, EnterStep, Zenon
<1>5. CASE n = 128 /\ enter(n, TRUE) /\ seg_step' = seg_step
  <2>1. n \in (0 .. 47) \cup {128} /\ TRUE \in BOOLEAN /\ seg_step' \in {"running", "halted"}
    BY <1>1, <1>5
  <2> QED BY <1>1, <1>5, <2>1, EnterStep, Zenon
<1> QED BY <1>3, <1>4, <1>5

(* From the far jump of the loader to processes that are interrupted and   *)
(* printed for, every selector that is loaded is in the table, of the      *)
(* right type and level and with the base that was meant, wherever the TSS *)
(* lies; and a process gets into the kernel by int 0x80 only.              *)
THEOREM SelectorsAreSound == SegmentsSpec => []SegmentsInv
<1>1. SelectorsInv /\ [SegmentsNext]_seg_vars => SelectorsInv'
  <2> SUFFICES ASSUME SelectorsInv, [SegmentsNext]_seg_vars PROVE SelectorsInv'
    OBVIOUS
  <2>1. CASE p_mode_start \/ enter_kernel \/ tss_init \/ ltr
    BY <2>1, PModeStep, EnterKernelStep, TssInitStep, LtrStep
  <2>2. CASE put_char_gs \/ start_process_selectors \/ intr_exit_pops
    BY <2>2, PutCharStep, StartSelectorsStep, IntrExitPopsStep
  <2>3. CASE \E n \in {0, 13, 32, 48, 127, 128, 129} : int_n(n)
    BY <2>3, IntNStep
  <2>4. CASE \E v \in {32, 33, 46} : device_interrupt(v)
    <3>1. PICK v \in {32, 33, 46} : device_interrupt(v)
      BY <2>4
    <3>2. seg_step = "running" /\ seg_step' = seg_step /\ enter(v, FALSE)
      BY <3>1 DEF device_interrupt, running
    <3>3. v \in (0 .. 47) \cup {128} /\ FALSE \in BOOLEAN /\ seg_step' \in {"running", "halted"}
      BY <3>2
    <3> QED BY <3>2, <3>3, EnterStep, Zenon
  <2>5. CASE UNCHANGED seg_vars
    BY <2>5 DEF seg_vars, SelectorsInv, LoaderTable, TssTable
  <2> QED BY <2>1, <2>2, <2>3, <2>4, <2>5 DEF SegmentsNext
<1>2. SelectorsInv => SegmentsInv
  BY DEF SelectorsInv, SegmentsInv, SegmentsLoad, OnlyKnownEntries
<1> QED BY <1>1, <1>2, SegmentsInitInv, PTL DEF SegmentsSpec

-----------------------------------------------------------------------------
(* The entries of a disk's tables with a type of partition; two extended   *)
(* ones lead to different tables, and none leads back to sector 0.         *)
EntriesOf(t, type) == {e \in (DOMAIN t) \X (1 .. TableSize) : t[e[1]][e[2]].fs_type = type}
StartOf(t, e) == t[e[1]][e[2]].start_lba

TablesApart(t) ==
    \A e, f \in EntriesOf(t, "extended") :
        StartOf(t, e) # 0 /\ (StartOf(t, e) = StartOf(t, f) => e = f)

(* ide.h: a disk has at most MaxLogic logical partitions.                  *)
Logical(t) == {e \in EntriesOf(t, "data") : e[1] # 0}
FewLogical(t) == IsFiniteSet(Logical(t)) /\ Cardinality(Logical(t)) <= MaxLogic

FewPartitions ==
    \A d \in Layouts : \A ch \in DOMAIN d : TablesApart(d[ch]) /\ FewLogical(d[ch])

(* The entries the calls s have passed of the tables V that were read.     *)
Looked(V, s) ==
    {e \in V \X (1 .. TableSize) :
       \A k \in 1 .. Len(s) : s[k].extension_lba = e[1] => e[2] < s[k].idx}

At(e) == read_table(channel_no, e[1])[e[2]]
Passed(V, type) == {e \in Looked(V, calls) : At(e).fs_type = type}

(* Where the extended entries have led: the first one, f, set the base.    *)
led(f, e) == IF e = f THEN extension_lba_base ELSE At(e).start_lba + extension_lba_base
Nowhere == <<0, 0>>

(* Sector 0 of an earlier disk has an extended partition.                  *)
EarlierExtended ==
    \E ch \in 0 .. channel_no - 1 : \E e \in EntriesOf(disks[ch], "extended") : e[1] = 0

FoundOn(ch) == {i \in 1 .. Len(partition_list) : partition_list[i][1] = ch}

CallsInv(V, s) ==
    /\ \A k \in 1 .. Len(s) : s[k].extension_lba \in V
    /\ \A k, m \in 1 .. Len(s) : s[k].extension_lba = s[m].extension_lba => k = m

(* The scan of the current disk has read the tables V.                     *)
TreeInv(V, f) ==
    /\ V \subseteq Nat /\ 0 \in V
    /\ \A e \in Passed(V, "extended") :
         extension_lba_base # 0 /\ led(f, e) \in V \ {0}
    /\ \A v \in V \ {0} : \E e \in Passed(V, "extended") : led(f, e) = v

BaseInv(V, f) ==
    IF f = Nowhere THEN extension_lba_base # 0 => EarlierExtended
    ELSE f \in Passed(V, "extended") /\ f[1] = 0 /\ At(f).start_lba = extension_lba_base

CountInv(V) == logic_partition = Cardinality({e \in Passed(V, "data") : e[1] # 0})

FoundInv(V) ==
    {partition_list[i][2] : i \in FoundOn(channel_no)}
      = {e[1] + At(e).start_lba : e \in Passed(V, "data")}

Visit(V, f) ==
    CallsInv(V, calls) /\ TreeInv(V, f) /\ BaseInv(V, f) /\ CountInv(V) /\ FoundInv(V)

CallsType == [extension_lba : Nat, idx : 1 .. TableSize + 1]

ScanTypes ==
    /\ disks \in Layouts
    /\ channel_no \in 0 .. channel_cnt
    /\ channel_no = channel_cnt => calls = <<>>
    /\ calls \in Seq(CallsType)
    /\ extension_lba_base \in Nat /\ primary_partition \in Nat /\ logic_partition \in Nat
    /\ parts \in Seq((0 .. channel_cnt - 1) \X {"prim_parts", "logic_parts"} \X Nat)
    /\ partition_list \in Seq((0 .. channel_cnt) \X Nat)
    /\ \A i \in 1 .. Len(parts) : parts[i][1] <= channel_no
    /\ \A i \in 1 .. Len(partition_list) :
         partition_list[i][1] = channel_cnt \/ partition_list[i][1] <= channel_no
    /\ boot_sectors \in Nat /\ panic \in BOOLEAN
    /\ ~panic => primary_partition < MaxPrimary

(* Each entry that is written is below the counter of its array.           *)
PartsBelow ==
    \A i \in 1 .. Len(parts) : parts[i][1] = channel_no =>
        parts[i][3] < IF parts[i][2] = "prim_parts" THEN primary_partition ELSE logic_partition

ScanIInv ==
    /\ ScanTypes /\ PartsBelow /\ ScanInv
    /\ channel_no < channel_cnt => \E V, f : Visit(V, f)
-----------------------------------------------------------------------------
(* What has been passed when a call goes on to the next entry, calls       *)
(* itself, or returns.                                                     *)
LEMMA LookedOn ==
    ASSUME NEW V, NEW s \in Seq(CallsType), s # <<>>, CallsInv(V, s),
           s[Len(s)].idx <= TableSize
    PROVE  LET a == [s EXCEPT ![Len(s)].idx = @ + 1]
               e == <<s[Len(s)].extension_lba, s[Len(s)].idx>>
           IN  /\ a \in Seq(CallsType) /\ Len(a) = Len(s) /\ CallsInv(V, a)
               /\ e \in V \X (1 .. TableSize) /\ e \notin Looked(V, s)
               /\ Looked(V, a) = Looked(V, s) \cup {e}
<1> DEFINE n == Len(s)
           a == [s EXCEPT ![n].idx = @ + 1]
           e == <<s[n].extension_lba, s[n].idx>>
<1>1. n \in Nat /\ n \in 1 .. n /\ TableSize \in Nat /\ \A k \in 1 .. n : s[k] \in CallsType
  BY PartitionAssumption
<1>2. /\ Len(a) = n /\ \A k \in 1 .. n : a[k].extension_lba = s[k].extension_lba
      /\ \A k \in 1 .. n : k # n => a[k] = s[k]
      /\ a[n].idx = s[n].idx + 1
  BY <1>1 DEF CallsType
<1>3. a \in Seq(CallsType)
  <2>1. s[n].idx + 1 \in 1 .. TableSize + 1
    <3>1. s[n].idx \in 1 .. TableSize + 1 /\ s[n].idx <= TableSize
      BY <1>1 DEF CallsType
    <3> QED BY <1>1, <3>1
  <2>2. [s[n] EXCEPT !.idx = @ + 1] \in CallsType
    BY <1>1, <2>1 DEF CallsType
  <2> QED BY <1>1, <2>2
<1>4. e \in V \X (1 .. TableSize)
  BY <1>1 DEF CallsInv, CallsType
<1>5. e \notin Looked(V, s)
  <2>1. ~(e[2] < s[n].idx)
    BY <1>1 DEF CallsType
  <2> QED BY <1>1, <2>1 DEF Looked
<1>6. ASSUME NEW x \in V \X (1 .. TableSize)
      PROVE  x \in Looked(V, a) <=> x \in Looked(V, s) \/ x = e
  <2>1. x \in Looked(V, a) <=> \A k \in 1 .. n : s[k].extension_lba = x[1] => x[2] < a[k].idx
    BY <1>2 DEF Looked
  <2>2. x \in Looked(V, s) <=> \A k \in 1 .. n : s[k].extension_lba = x[1] => x[2] < s[k].idx
    BY DEF Looked
  <2>3. CASE x[1] = s[n].extension_lba
    <3>1. \A k \in 1 .. n : s[k].extension_lba = x[1] => k = n
      BY <1>1, <2>3 DEF CallsInv
    <3>2. x \in Looked(V, a) <=> x[2] < s[n].idx + 1
      BY <1>1, <1>2, <2>1, <2>3, <3>1
    <3>3. x \in Looked(V, s) <=> x[2] < s[n].idx
      BY <1>1, <2>2, <2>3, <3>1
    <3>4. x = e <=> x[2] = s[n].idx
      BY <2>3
    <3>5. x[2] \in Nat /\ s[n].idx \in Nat
      BY <1>1 DEF CallsType
    <3> HIDE DEF e, n, a
    <3> QED BY <3>2, <3>3, <3>4, <3>5
  <2>4. CASE x[1] # s[n].extension_lba
    <3>1. \A k \in 1 .. n : s[k].extension_lba = x[1] => a[k].idx = s[k].idx
      BY <1>1, <1>2, <2>4
    <3>2. x # e
      BY <2>4
    <3> QED BY <2>1, <2>2, <3>1, <3>2
  <2> QED BY <2>3, <2>4
<1>7. Looked(V, a) = Looked(V, s) \cup {e}
  <2>1. Looked(V, a) \subseteq V \X (1 .. TableSize) /\ Looked(V, s) \subseteq V \X (1 .. TableSize)
    BY DEF Looked
  <2> HIDE DEF a, e
  <2> QED BY <1>4, <1>6, <2>1
<1>8. CallsInv(V, a)
  BY <1>1, <1>2 DEF CallsInv
<1> QED BY <1>2, <1>3, <1>4, <1>5, <1>7, <1>8

LEMMA LookedCall ==
    ASSUME NEW V, V \subseteq Nat, NEW s \in Seq(CallsType), CallsInv(V, s),
           NEW l \in Nat, l \notin V
    PROVE  LET c == Append(s, call(l))
           IN  /\ c \in Seq(CallsType) /\ Len(c) = Len(s) + 1 /\ CallsInv(V \cup {l}, c)
               /\ Looked(V \cup {l}, c) = Looked(V, s)
<1> DEFINE n == Len(s)
           c == Append(s, call(l))
<1>1. n \in Nat /\ TableSize \in Nat /\ TableSize >= 1 /\ \A k \in 1 .. n : s[k] \in CallsType
  BY PartitionAssumption
<1>2. call(l) \in CallsType /\ call(l).extension_lba = l /\ call(l).idx = 1
  BY <1>1 DEF call, CallsType
<1>3. /\ c \in Seq(CallsType) /\ Len(c) = n + 1 /\ c[n + 1] = call(l)
      /\ \A k \in 1 .. n : c[k] = s[k]
  BY <1>1, <1>2
<1>4. \A k \in 1 .. n : s[k].extension_lba \in V /\ s[k].extension_lba # l
  BY DEF CallsInv
<1>5. CallsInv(V \cup {l}, c)
  <2>1. \A k \in 1 .. n + 1 : k \in 1 .. n \/ k = n + 1
    BY <1>1
  <2> HIDE DEF c
  <2>2. \A k \in 1 .. n + 1 :
          \/ k \in 1 .. n /\ c[k].extension_lba = s[k].extension_lba
          \/ k = n + 1 /\ c[k].extension_lba = l
    BY <1>2, <1>3, <2>1
  <2>3. \A k, m \in 1 .. n : s[k].extension_lba = s[m].extension_lba => k = m
    BY DEF CallsInv
  <2> QED BY <1>3, <1>4, <2>2, <2>3 DEF CallsInv
<1>6. ASSUME NEW x \in (V \cup {l}) \X (1 .. TableSize)
      PROVE  x \in Looked(V \cup {l}, c) <=> x \in Looked(V, s)
  <2>1. x \in Looked(V \cup {l}, c) <=> \A k \in 1 .. n + 1 : c[k].extension_lba = x[1] => x[2] < c[k].idx
    BY <1>3 DEF Looked
  <2>2. x \in Looked(V, s) <=> x[1] \in V /\ \A k \in 1 .. n : s[k].extension_lba = x[1] => x[2] < s[k].idx
    BY DEF Looked
  <2>3. n + 1 \in 1 .. n + 1 /\ \A k \in 1 .. n + 1 : k \in 1 .. n \/ k = n + 1
    BY <1>1
  <2>4. \A k \in 1 .. n : k \in 1 .. n + 1
    BY <1>1
  <2>5. CASE x[1] = l
    <3>1. ~(x[2] < 1)
      BY <1>1
    <3> HIDE DEF c, n
    <3> QED BY <1>2, <1>3, <2>1, <2>2, <2>3, <2>5, <3>1
  <2>6. CASE x[1] # l
    <3>1. x[1] \in V
      BY <2>6
    <3> HIDE DEF c, n
    <3> QED BY <1>2, <1>3, <2>1, <2>2, <2>3, <2>4, <2>6, <3>1
  <2> QED BY <2>5, <2>6
<1>7. Looked(V \cup {l}, c) = Looked(V, s)
  <2>1. /\ Looked(V \cup {l}, c) \subseteq (V \cup {l}) \X (1 .. TableSize)
        /\ Looked(V, s) \subseteq (V \cup {l}) \X (1 .. TableSize)
    BY DEF Looked
  <2> HIDE DEF c
  <2> QED BY <1>6, <2>1
<1> QED BY <1>3, <1>5, <1>7

(* Without the last element.                                               *)
LEMMA Front ==
    ASSUME NEW S, NEW s \in Seq(S), s # <<>>
    PROVE  LET r == SubSeq(s, 1, Len(s) - 1)
           IN  /\ r \in Seq(S) /\ Len(r) = Len(s) - 1
               /\ \A k \in 1 .. Len(s) - 1 : r[k] = s[k]
<1> DEFINE p == Len(s) - 1
           r == SubSeq(s, 1, p)
<1>1. p \in Nat /\ 1 \in Int /\ p \in Int /\ \A i \in 1 .. p : s[i] \in S
  OBVIOUS
<1>2. p - 1 + 1 = p /\ \A i \in 1 .. p : 1 + i - 1 = i
  BY <1>1
<1> HIDE DEF p
<1>3. r \in Seq(S)
  BY <1>1, SubSeqProperties
<1>4. Len(r) = IF 1 <= p THEN p - 1 + 1 ELSE 0
  BY <1>1, SubSeqProperties
<1>5. \A i \in 1 .. p - 1 + 1 : r[i] = s[1 + i - 1]
  BY <1>1, SubSeqProperties
<1>6. Len(r) = p /\ \A i \in 1 .. p : r[i] = s[i]
  <2>1. p = 0 \/ 1 <= p
    BY <1>1
  <2> HIDE DEF r
  <2> QED BY <1>1, <1>2, <1>4, <1>5, <2>1
<1> QED BY <1>3, <1>6 DEF p

LEMMA LookedReturn ==
    ASSUME NEW V, NEW s \in Seq(CallsType), s # <<>>, CallsInv(V, s),
           ~(s[Len(s)].idx <= TableSize)
    PROVE  LET r == SubSeq(s, 1, Len(s) - 1)
           IN  /\ r \in Seq(CallsType) /\ Len(r) = Len(s) - 1 /\ CallsInv(V, r)
               /\ Looked(V, r) = Looked(V, s)
<1> DEFINE n == Len(s)
           r == SubSeq(s, 1, n - 1)
<1>1. n \in Nat /\ n >= 1 /\ TableSize \in Nat /\ \A k \in 1 .. n : s[k] \in CallsType
  BY PartitionAssumption
<1>2. r \in Seq(CallsType) /\ Len(r) = n - 1 /\ \A k \in 1 .. n - 1 : r[k] = s[k]
  BY Front
<1>3. \A k \in 1 .. n : k \in 1 .. n - 1 \/ k = n
  BY <1>1
<1>4. \A k \in 1 .. n - 1 : k \in 1 .. n
  BY <1>1
<1>5. CallsInv(V, r)
  <2> HIDE DEF r, n
  <2> QED BY <1>2, <1>4 DEF CallsInv, n
<1>6. \A x \in V \X (1 .. TableSize) : x[2] < s[n].idx
  <2>1. s[n].idx \in Int /\ s[n].idx > TableSize
    BY <1>1 DEF CallsType
  <2>2. \A i \in 1 .. TableSize : i < s[n].idx
    BY <1>1, <2>1
  <2> QED BY <2>2
<1>7. Looked(V, r) = Looked(V, s)
  <2> HIDE DEF r, n
  <2> QED BY <1>2, <1>3, <1>4, <1>6 DEF Looked, n
<1> QED BY <1>2, <1>5, <1>7
-----------------------------------------------------------------------------
(* The entry the innermost call looks at.                                  *)
Here == <<frame.extension_lba, frame.idx>>

LEMMA Tables ==
    ASSUME ScanTypes, channel_no < channel_cnt
    PROVE  /\ channel_no \in DOMAIN disks
           /\ DOMAIN disks[channel_no] \subseteq Nat
           /\ \A e \in Nat \X (1 .. TableSize) :
                /\ At(e) \in table_entries
                /\ \A type \in {"data", "extended"} :
                     At(e).fs_type = type =>
                       /\ e \in EntriesOf(disks[channel_no], type)
                       /\ At(e).start_lba = StartOf(disks[channel_no], e)
           /\ \A type : \A e \in EntriesOf(disks[channel_no], type) :
                /\ e \in Nat \X (1 .. TableSize) /\ e # Nowhere
                /\ At(e).fs_type = type /\ At(e).start_lba = StartOf(disks[channel_no], e)
<1> DEFINE t == disks[channel_no]
<1>1. channel_no \in DOMAIN disks /\ DOMAIN t \subseteq Nat
      /\ \A l \in DOMAIN t : t[l] \in [1 .. TableSize -> table_entries]
  BY PartitionAssumption DEF ScanTypes
<1>2. TableSize \in Nat
  BY PartitionAssumption
<1>3. ASSUME NEW e \in Nat \X (1 .. TableSize)
      PROVE  /\ At(e) \in table_entries
             /\ \A type \in {"data", "extended"} :
                  At(e).fs_type = type =>
                    /\ e \in EntriesOf(t, type)
                    /\ At(e).start_lba = StartOf(t, e)
  <2>1. CASE e[1] \in DOMAIN t
    <3>1. At(e) = t[e[1]][e[2]]
      BY <2>1 DEF At, read_table
    <3>2. e = <<e[1], e[2]>> /\ e \in (DOMAIN t) \X (1 .. TableSize)
      BY <2>1
    <3> QED BY <1>1, <3>1, <3>2 DEF EntriesOf, StartOf
  <2>2. CASE e[1] \notin DOMAIN t
    <3>1. At(e) = free_entry
      BY <2>2 DEF At, read_table
    <3> QED BY <3>1 DEF free_entry, table_entries
  <2> QED BY <2>1, <2>2
<1>4. ASSUME NEW type, NEW e \in EntriesOf(t, type)
      PROVE  /\ e \in Nat \X (1 .. TableSize) /\ e # Nowhere
             /\ At(e).fs_type = type /\ At(e).start_lba = StartOf(t, e)
  <2>1. e \in (DOMAIN t) \X (1 .. TableSize) /\ t[e[1]][e[2]].fs_type = type
    BY DEF EntriesOf
  <2>2. e[1] \in DOMAIN t /\ e[2] \in 1 .. TableSize /\ At(e) = t[e[1]][e[2]]
    BY <2>1 DEF At, read_table
  <2>3. e # Nowhere
    BY <1>2, <2>2 DEF Nowhere
  <2> QED BY <1>1, <2>1, <2>2, <2>3 DEF StartOf
<1> QED BY <1>1, <1>3, <1>4

(* No two extended entries lead to the same table.                         *)
LEMMA LedApart ==
    ASSUME FewPartitions, ScanTypes, channel_no < channel_cnt, extension_lba_base # 0,
           NEW V, V \subseteq Nat, NEW f, BaseInv(V, f),
           NEW e \in EntriesOf(disks[channel_no], "extended"),
           NEW g \in EntriesOf(disks[channel_no], "extended"), led(f, e) = led(f, g)
    PROVE  e = g
<1> DEFINE t == disks[channel_no]
<1>1. TablesApart(t)
  BY Tables DEF FewPartitions, ScanTypes
<1>2. /\ At(e).start_lba = StartOf(t, e) /\ At(g).start_lba = StartOf(t, g)
      /\ StartOf(t, e) \in Nat \ {0} /\ StartOf(t, g) \in Nat \ {0} /\ extension_lba_base \in Nat
  BY <1>1, Tables DEF TablesApart, table_entries, ScanTypes
<1>3. f = e \/ f = g => At(f).start_lba = extension_lba_base
  BY Tables DEF BaseInv
<1>4. CASE e = f \/ g = f
  BY <1>2, <1>3, <1>4 DEF led
<1>5. CASE e # f /\ g # f
  BY <1>1, <1>2, <1>5 DEF led, TablesApart
<1> QED BY <1>4, <1>5

(* What has been passed after a step that goes on to the next entry.       *)
LEMMA PassedOn ==
    ASSUME ScanTypes, scanning, NEW V, V \subseteq Nat, CallsInv(V, calls),
           UNCHANGED <<disks, channel_no>>
    PROVE  /\ Here \in V \X (1 .. TableSize) /\ Here \notin Looked(V, calls)
           /\ At(Here) = table_entry /\ channel_no < channel_cnt
           /\ advanced \in Seq(CallsType) /\ Len(advanced) = Len(calls)
           /\ CallsInv(V, advanced) /\ Looked(V, advanced) = Looked(V, calls) \cup {Here}
           /\ \A e : At(e)' = At(e)
<1>1. calls \in Seq(CallsType) /\ calls # <<>> /\ calls[Len(calls)].idx <= TableSize
  BY DEF ScanTypes, scanning, frame
<1>2. channel_no < channel_cnt
  BY <1>1, PartitionAssumption DEF ScanTypes
<1>3. At(Here) = table_entry
  BY DEF At, Here, table_entry
<1>4. \A e : At(e)' = At(e)
  BY DEF At, read_table
<1> QED BY <1>1, <1>2, <1>3, <1>4, LookedOn DEF Here, frame, advanced

LEMMA PassedIs ==
    ASSUME ScanTypes, scanning, NEW V, V \subseteq Nat, CallsInv(V, calls),
           UNCHANGED <<disks, channel_no>>,
           NEW W, Looked(W, calls') = Looked(V, calls) \cup {Here}, NEW type
    PROVE  Passed(W, type)' = Passed(V, type) \cup
                                (IF table_entry.fs_type = type THEN {Here} ELSE {})
<1>1. At(Here) = table_entry /\ \A e : At(e)' = At(e)
  BY PassedOn
<1>2. Passed(W, type)' = {e \in Looked(W, calls') : At(e)'.fs_type = type}
  BY DEF Passed, Looked
<1> QED BY <1>1, <1>2 DEF Passed

(* An entry that is not an extended one.                                   *)
LEMMA OnwardStep ==
    ASSUME ScanTypes, scanning, NEW V, NEW f, Visit(V, f),
           UNCHANGED <<disks, channel_no, extension_lba_base>>,
           calls' = advanced, table_entry.fs_type # "extended"
    PROVE  CallsInv(V, calls)' /\ TreeInv(V, f)' /\ BaseInv(V, f)'
<1>1. V \subseteq Nat /\ CallsInv(V, calls)
  BY DEF Visit, TreeInv
<1>2. CallsInv(V, advanced) /\ Looked(V, calls') = Looked(V, calls) \cup {Here}
      /\ \A e : At(e)' = At(e)
  BY <1>1, PassedOn
<1>3. Passed(V, "extended")' = Passed(V, "extended")
  <2>1. UNCHANGED <<disks, channel_no>>
    OBVIOUS
  <2>2. Passed(V, "extended")' = Passed(V, "extended") \cup
                                   (IF table_entry.fs_type = "extended" THEN {Here} ELSE {})
    BY <1>1, <1>2, <2>1, PassedIs, Zenon
  <2> QED BY <2>2
<1>4. CallsInv(V, calls)'
  BY <1>2 DEF CallsInv
<1>5. led(f, f)' = led(f, f) /\ \A e : led(f, e)' = led(f, e)
  BY <1>2 DEF led
<1>6. TreeInv(V, f)'
  BY <1>3, <1>5 DEF Visit, TreeInv
<1>7. EarlierExtended' = EarlierExtended
  BY DEF EarlierExtended
<1>8. BaseInv(V, f)'
  BY <1>2, <1>3, <1>7 DEF Visit, BaseInv
<1> QED BY <1>4, <1>6, <1>8

(* The logical partitions passed are some of those the disk has.           *)
LEMMA LogicalPassed ==
    ASSUME FewPartitions, ScanTypes, channel_no < channel_cnt, NEW V, V \subseteq Nat
    PROVE  LET L == {e \in Passed(V, "data") : e[1] # 0}
           IN  /\ L \subseteq Logical(disks[channel_no]) /\ IsFiniteSet(L)
               /\ Cardinality(L) \in Nat /\ Cardinality(L) <= MaxLogic
               /\ \A x \in Logical(disks[channel_no]) :
                    x \notin L => Cardinality(L) < MaxLogic
                                  /\ Cardinality(L \cup {x}) = Cardinality(L) + 1
<1> DEFINE t == disks[channel_no]
           L == {e \in Passed(V, "data") : e[1] # 0}
<1>1. L \subseteq Logical(t)
  BY Tables DEF Passed, Looked, Logical
<1>2. IsFiniteSet(Logical(t)) /\ Cardinality(Logical(t)) <= MaxLogic /\ MaxLogic \in Nat
  BY Tables, PartitionAssumption DEF FewPartitions, FewLogical, ScanTypes
<1> HIDE DEF L, t
<1>3. IsFiniteSet(L) /\ Cardinality(L) <= Cardinality(Logical(t))
      /\ Cardinality(L) \in Nat /\ Cardinality(Logical(t)) \in Nat
  BY <1>1, <1>2, FS_Subset, FS_CardinalityType
<1>4. ASSUME NEW x \in Logical(t), x \notin L
      PROVE  Cardinality(L \cup {x}) = Cardinality(L) + 1 /\ Cardinality(L) < MaxLogic
  <2>1. L \cup {x} \subseteq Logical(t) /\ Cardinality(L \cup {x}) = Cardinality(L) + 1
    BY <1>1, <1>3, <1>4, FS_AddElement
  <2>2. Cardinality(L \cup {x}) <= Cardinality(Logical(t))
    BY <1>2, <2>1, FS_Subset
  <2> QED BY <1>2, <1>3, <2>1, <2>2
<1>5. Cardinality(L) <= MaxLogic
  BY <1>2, <1>3
<1> QED BY <1>1, <1>3, <1>4, <1>5 DEF L, t

(* What record appends.                                                    *)
LEMMA Recorded ==
    ASSUME ScanTypes, scanning, NEW array \in {"prim_parts", "logic_parts"}, NEW index \in Nat,
           record(array, index), NEW V, V \subseteq Nat, CallsInv(V, calls),
           UNCHANGED <<disks, channel_no>>
    PROVE  LET n == Len(partition_list)
               m == Len(parts)
               new == <<channel_no, frame.extension_lba + table_entry.start_lba>>
           IN  /\ new \in (0 .. channel_cnt - 1) \X Nat
               /\ partition_list' \in Seq((0 .. channel_cnt) \X Nat)
               /\ n \in Nat /\ Len(partition_list') = n + 1 /\ partition_list'[n + 1] = new
               /\ \A i \in 1 .. n : partition_list'[i] = partition_list[i]
               /\ parts' \in Seq((0 .. channel_cnt - 1) \X {"prim_parts", "logic_parts"} \X Nat)
               /\ m \in Nat /\ Len(parts') = m + 1
               /\ parts'[m + 1] = <<channel_no, array, index>>
               /\ \A i \in 1 .. m : parts'[i] = parts[i]
<1>1. Here \in V \X (1 .. TableSize) /\ At(Here) = table_entry /\ channel_no < channel_cnt
  BY PassedOn
<1>2. frame.extension_lba \in Nat /\ table_entry.start_lba \in Nat
  BY <1>1, Tables DEF Here, table_entries
<1>3. channel_no \in 0 .. channel_cnt - 1
  BY <1>1, PartitionAssumption DEF ScanTypes
<1>4. /\ partition_list \in Seq((0 .. channel_cnt) \X Nat)
      /\ parts \in Seq((0 .. channel_cnt - 1) \X {"prim_parts", "logic_parts"} \X Nat)
  BY DEF ScanTypes
<1> DEFINE new == <<channel_no, frame.extension_lba + table_entry.start_lba>>
           part == <<channel_no, array, index>>
<1>5. /\ new \in (0 .. channel_cnt - 1) \X Nat /\ new \in (0 .. channel_cnt) \X Nat
      /\ part \in (0 .. channel_cnt - 1) \X {"prim_parts", "logic_parts"} \X Nat
  <2>1. channel_no \in 0 .. channel_cnt
    BY <1>3, PartitionAssumption
  <2> QED BY <1>2, <1>3, <2>1
<1>6. partition_list' = Append(partition_list, new) /\ parts' = Append(parts, part)
  BY DEF record
<1> HIDE DEF new, part
<1>7. /\ partition_list' \in Seq((0 .. channel_cnt) \X Nat)
      /\ Len(partition_list) \in Nat /\ Len(partition_list') = Len(partition_list) + 1
      /\ partition_list'[Len(partition_list) + 1] = new
      /\ \A i \in 1 .. Len(partition_list) : partition_list'[i] = partition_list[i]
  BY <1>4, <1>5, <1>6
<1>8. /\ parts' \in Seq((0 .. channel_cnt - 1) \X {"prim_parts", "logic_parts"} \X Nat)
      /\ Len(parts) \in Nat /\ Len(parts') = Len(parts) + 1
      /\ parts'[Len(parts) + 1] = part
      /\ \A i \in 1 .. Len(parts) : parts'[i] = parts[i]
  BY <1>4, <1>5, <1>6
<1> QED BY <1>5, <1>7, <1>8 DEF new, part

(* The new entry of an array is the one its counter names, the first that  *)
(* was not written.                                                        *)
LEMMA PartsStep ==
    ASSUME ScanTypes, scanning, NEW array \in {"prim_parts", "logic_parts"}, NEW index \in Nat,
           record(array, index), NEW V, V \subseteq Nat, CallsInv(V, calls),
           UNCHANGED <<disks, channel_no>>, EntriesInBounds, PartsBelow,
           index = (IF array = "prim_parts" THEN primary_partition ELSE logic_partition),
           index < (IF array = "prim_parts" THEN MaxPrimary ELSE MaxLogic),
           primary_partition' = (IF array = "prim_parts" THEN primary_partition + 1
                                 ELSE primary_partition),
           logic_partition' = (IF array = "prim_parts" THEN logic_partition
                               ELSE logic_partition + 1)
    PROVE  EntriesInBounds' /\ PartsBelow' /\ \A i \in 1 .. Len(parts') : parts'[i][1] <= channel_no
<1> DEFINE m == Len(parts)
           part == <<channel_no, array, index>>
<1>1. /\ m \in Nat /\ Len(parts') = m + 1 /\ parts'[m + 1] = part
      /\ \A i \in 1 .. m : parts'[i] = parts[i]
      /\ parts' \in Seq((0 .. channel_cnt - 1) \X {"prim_parts", "logic_parts"} \X Nat)
      /\ parts \in Seq((0 .. channel_cnt - 1) \X {"prim_parts", "logic_parts"} \X Nat)
  BY Recorded DEF ScanTypes
<1>2. DOMAIN parts = 1 .. m /\ DOMAIN parts' = 1 .. m + 1
  BY <1>1
<1>3. \A i \in 1 .. m + 1 : i = m + 1 \/ i \in 1 .. m
  BY <1>1
<1>4. part[1] = channel_no /\ part[2] = array /\ part[3] = index
  OBVIOUS
<1>5. channel_no' = channel_no /\ channel_no \in Nat /\ primary_partition \in Nat /\ logic_partition \in Nat
  BY DEF ScanTypes
<1>6. /\ \A i \in 1 .. m : parts[i][1] \in Nat /\ parts[i][3] \in Nat
      /\ \A i \in 1 .. m : parts[i][2] \in {"prim_parts", "logic_parts"}
      /\ \A i \in 1 .. m : parts[i][1] <= channel_no
  <2>1. \A i \in 1 .. m : parts[i] \in (0 .. channel_cnt - 1) \X {"prim_parts", "logic_parts"} \X Nat
    BY <1>1
  <2>2. \A i \in 0 .. channel_cnt - 1 : i \in Nat
    OBVIOUS
  <2>3. \A i \in 1 .. m : parts[i][1] <= channel_no
    BY DEF ScanTypes
  <2> QED BY <2>1, <2>2, <2>3
<1>7. \A i \in 1 .. m : parts[i] # part
  <2> SUFFICES ASSUME NEW i \in 1 .. m, parts[i] = part PROVE FALSE
    OBVIOUS
  <2>1. parts[i][1] = channel_no /\ parts[i][2] = array /\ parts[i][3] = index
    BY <1>4
  <2>2. parts[i][3] < IF parts[i][2] = "prim_parts" THEN primary_partition ELSE logic_partition
    BY <2>1 DEF PartsBelow
  <2> QED BY <1>5, <2>1, <2>2
<1> HIDE DEF part, m
<1>8. EntriesInBounds'
  <2>1. \A i \in 1 .. m + 1 :
          parts'[i][3] < IF parts'[i][2] = "prim_parts" THEN MaxPrimary ELSE MaxLogic
    BY <1>1, <1>2, <1>3, <1>4 DEF EntriesInBounds
  <2>2. ASSUME NEW i \in 1 .. m + 1, NEW j \in 1 .. m + 1, parts'[i] = parts'[j]
        PROVE  i = j
    <3>1. \A k, l \in 1 .. m : parts[k] = parts[l] => k = l
      BY <1>2 DEF EntriesInBounds
    <3> QED BY <1>1, <1>3, <1>7, <2>2, <3>1
  <2> QED BY <1>2, <2>1, <2>2 DEF EntriesInBounds
<1>9. PartsBelow'
  <2>1. ASSUME NEW i \in 1 .. m + 1, parts'[i][1] = channel_no
        PROVE  parts'[i][3] < IF parts'[i][2] = "prim_parts" THEN primary_partition' ELSE logic_partition'
    <3>1. CASE i = m + 1
      BY <1>1, <1>4, <1>5, <3>1
    <3>2. CASE i \in 1 .. m
      <4>1. parts[i][3] < IF parts[i][2] = "prim_parts" THEN primary_partition ELSE logic_partition
        BY <1>1, <2>1, <3>2 DEF PartsBelow, m
      <4>2. parts'[i] = parts[i] /\ parts[i][3] \in Nat
        BY <1>1, <1>6, <3>2
      <4>3. primary_partition <= primary_partition' /\ logic_partition <= logic_partition'
            /\ primary_partition' \in Nat /\ logic_partition' \in Nat
        BY <1>5
      <4> QED BY <1>5, <4>1, <4>2, <4>3
    <3> QED BY <1>3, <3>1, <3>2
  <2> QED BY <1>1, <1>5, <2>1 DEF PartsBelow
<1>10. ASSUME NEW i \in 1 .. m + 1
       PROVE  parts'[i][1] <= channel_no
  <2>1. CASE i = m + 1
    BY <1>1, <1>4, <1>5, <2>1
  <2>2. CASE i \in 1 .. m
    BY <1>1, <1>6, <2>2
  <2> QED BY <1>3, <2>1, <2>2
<1> QED BY <1>1, <1>8, <1>9, <1>10

LEMMA FoundStep ==
    ASSUME ScanTypes, scanning, NEW array \in {"prim_parts", "logic_parts"}, NEW index \in Nat,
           record(array, index), NEW V, V \subseteq Nat, CallsInv(V, calls), FoundInv(V),
           UNCHANGED <<disks, channel_no>>, calls' = advanced, table_entry.fs_type = "data"
    PROVE  /\ FoundInv(V)'
           /\ \A i \in 1 .. Len(partition_list') :
                partition_list'[i][1] = channel_cnt \/ partition_list'[i][1] <= channel_no
<1> DEFINE n == Len(partition_list)
           new == <<channel_no, frame.extension_lba + table_entry.start_lba>>
           image(S) == {e[1] + At(e).start_lba : e \in S}
<1>1. /\ n \in Nat /\ Len(partition_list') = n + 1 /\ partition_list'[n + 1] = new
      /\ \A i \in 1 .. n : partition_list'[i] = partition_list[i]
  BY Recorded
<1>2. /\ Looked(V, calls') = Looked(V, calls) \cup {Here} /\ At(Here) = table_entry
      /\ \A e : At(e)' = At(e)
  BY PassedOn
<1>3. Passed(V, "data")' = Passed(V, "data") \cup {Here}
  <2>1. UNCHANGED <<disks, channel_no>>
    OBVIOUS
  <2>2. Passed(V, "data")' = Passed(V, "data") \cup
                               (IF table_entry.fs_type = "data" THEN {Here} ELSE {})
    BY <1>2, <2>1, PassedIs, Zenon
  <2> QED BY <2>2
<1>4. \A i \in 1 .. n + 1 : i = n + 1 \/ i \in 1 .. n
  BY <1>1
<1>5. n + 1 \in 1 .. n + 1 /\ \A i \in 1 .. n : i \in 1 .. n + 1
  BY <1>1
<1>6. new[1] = channel_no /\ new[2] = Here[1] + At(Here).start_lba
  BY <1>2 DEF Here
<1>7. FoundOn(channel_no)' = FoundOn(channel_no) \cup {n + 1}
  <2> HIDE DEF new
  <2> QED BY <1>1, <1>4, <1>5, <1>6 DEF FoundOn
<1>8. {partition_list'[i][2] : i \in FoundOn(channel_no)'}
        = {partition_list[i][2] : i \in FoundOn(channel_no)} \cup {new[2]}
  <2>1. \A i \in FoundOn(channel_no) : partition_list'[i] = partition_list[i]
    BY <1>1 DEF FoundOn
  <2> HIDE DEF new, n
  <2> QED BY <1>1, <1>7, <2>1
<1>9. image(Passed(V, "data") \cup {Here}) = image(Passed(V, "data")) \cup {new[2]}
  <2> HIDE DEF new
  <2> QED BY <1>6
<1>10. {partition_list[i][2] : i \in FoundOn(channel_no)} = image(Passed(V, "data"))
  BY DEF FoundInv
<1>11. {partition_list'[i][2] : i \in FoundOn(channel_no)'} = image(Passed(V, "data")')
  BY <1>3, <1>8, <1>9, <1>10
<1>12. FoundInv(V)'
  BY <1>2, <1>11 DEF FoundInv
<1>13. \A i \in 1 .. n + 1 :
          partition_list'[i][1] = channel_cnt \/ partition_list'[i][1] <= channel_no
  <2>1. \A i \in 1 .. n :
           partition_list[i][1] = channel_cnt \/ partition_list[i][1] <= channel_no
    BY DEF ScanTypes
  <2>2. channel_no <= channel_no
    BY DEF ScanTypes
  <2> HIDE DEF new, n
  <2> QED BY <1>1, <1>4, <1>6, <2>1, <2>2
<1> QED BY <1>1, <1>12, <1>13
-----------------------------------------------------------------------------
(* The steps.                                                              *)
LEMMA ScanStart ==
    ASSUME ScanIInv, scanning
    PROVE  /\ ScanTypes /\ channel_no < channel_cnt /\ \E V, f : Visit(V, f)
           /\ calls \in Seq(CallsType) /\ calls # <<>> /\ Len(calls) \in Nat /\ Len(calls) > 0
<1>1. ScanTypes /\ calls # <<>> /\ calls \in Seq(CallsType)
  BY DEF ScanIInv, ScanTypes, scanning
<1>2. channel_no < channel_cnt
  BY <1>1, PartitionAssumption DEF ScanTypes
<1> QED BY <1>1, <1>2 DEF ScanIInv

LEMMA FreeStep ==
    ASSUME ScanIInv, scan_free
    PROVE  ScanIInv'
<1>1. scanning /\ ScanTypes /\ channel_no < channel_cnt
  BY ScanStart DEF scan_free
<1>2. PICK V, f : Visit(V, f)
  BY <1>1, ScanStart
<1>3. /\ UNCHANGED <<disks, channel_no, extension_lba_base, primary_partition, logic_partition,
                     parts, partition_list, boot_sectors, panic>>
      /\ calls' = advanced /\ table_entry.fs_type = "none"
  BY DEF scan_free
<1>4. V \subseteq Nat /\ CallsInv(V, calls) /\ CountInv(V) /\ FoundInv(V)
  BY <1>2 DEF Visit, TreeInv
<1>5. CallsInv(V, calls)' /\ TreeInv(V, f)' /\ BaseInv(V, f)'
  <2>1. table_entry.fs_type # "extended"
    BY <1>3
  <2> QED BY <1>1, <1>2, <1>3, <2>1, OnwardStep, Zenon
<1>6. /\ advanced \in Seq(CallsType) /\ Len(advanced) = Len(calls)
      /\ Looked(V, calls') = Looked(V, calls) \cup {Here} /\ \A e : At(e)' = At(e)
  BY <1>1, <1>3, <1>4, PassedOn
<1>7. Passed(V, "data")' = Passed(V, "data")
  <2>1. UNCHANGED <<disks, channel_no>>
    BY <1>3
  <2>2. Passed(V, "data")' = Passed(V, "data") \cup
                               (IF table_entry.fs_type = "data" THEN {Here} ELSE {})
    BY <1>1, <1>4, <1>6, <2>1, PassedIs, Zenon
  <2> QED BY <1>3, <2>2
<1>8. CountInv(V)'
  BY <1>3, <1>4, <1>7 DEF CountInv
<1>9. FoundInv(V)'
  <2>1. FoundOn(channel_no)' = FoundOn(channel_no) /\ partition_list' = partition_list
    BY <1>3 DEF FoundOn
  <2>2. {e[1] + At(e).start_lba : e \in Passed(V, "data")}'
          = {e[1] + At(e).start_lba : e \in Passed(V, "data")}
    BY <1>6, <1>7
  <2> QED BY <1>4, <2>1, <2>2 DEF FoundInv
<1>10. Visit(V, f)'
  BY <1>5, <1>8, <1>9 DEF Visit
<1>11. ScanTypes'
  BY <1>1, <1>3, <1>6 DEF ScanTypes
<1>12. PartsBelow' /\ ScanInv'
  BY <1>3, <1>6 DEF ScanIInv, PartsBelow, ScanInv, EntriesInBounds, BuffersGivenBack
<1> QED BY <1>10, <1>11, <1>12 DEF ScanIInv

LEMMA PrimaryStep ==
    ASSUME ScanIInv, scan_primary
    PROVE  ScanIInv'
<1>1. scanning /\ ScanTypes /\ channel_no < channel_cnt
  BY ScanStart DEF scan_primary
<1>2. PICK V, f : Visit(V, f)
  BY <1>1, ScanStart
<1>3. /\ UNCHANGED <<disks, channel_no, extension_lba_base, logic_partition, boot_sectors>>
      /\ calls' = advanced /\ table_entry.fs_type = "data" /\ frame.extension_lba = 0
      /\ record("prim_parts", primary_partition)
      /\ primary_partition' = primary_partition + 1
      /\ panic' = ~(primary_partition' < MaxPrimary)
  BY DEF scan_primary
<1>4. V \subseteq Nat /\ CallsInv(V, calls) /\ CountInv(V) /\ FoundInv(V)
  BY <1>2 DEF Visit, TreeInv
<1>5. CallsInv(V, calls)' /\ TreeInv(V, f)' /\ BaseInv(V, f)'
  <2>1. table_entry.fs_type # "extended"
    BY <1>3
  <2>2. UNCHANGED <<disks, channel_no, extension_lba_base>>
    BY <1>3
  <2> QED BY <1>1, <1>2, <1>3, <2>1, <2>2, OnwardStep, Zenon
<1>6. /\ advanced \in Seq(CallsType) /\ Len(advanced) = Len(calls)
      /\ Looked(V, calls') = Looked(V, calls) \cup {Here} /\ \A e : At(e)' = At(e)
  BY <1>1, <1>3, <1>4, PassedOn
<1>7. Passed(V, "data")' = Passed(V, "data") \cup {Here} /\ Here[1] = 0
  <2>1. UNCHANGED <<disks, channel_no>>
    BY <1>3
  <2>2. Passed(V, "data")' = Passed(V, "data") \cup
                               (IF table_entry.fs_type = "data" THEN {Here} ELSE {})
    BY <1>1, <1>4, <1>6, <2>1, PassedIs, Zenon
  <2> QED BY <1>3, <2>2 DEF Here
<1>8. CountInv(V)'
  <2>1. {e \in Passed(V, "data")' : e[1] # 0} = {e \in Passed(V, "data") : e[1] # 0}
    BY <1>7
  <2> QED BY <1>3, <1>4, <2>1 DEF CountInv
<1>9. FoundInv(V)' /\ \A i \in 1 .. Len(partition_list') :
          partition_list'[i][1] = channel_cnt \/ partition_list'[i][1] <= channel_no
  <2>1. primary_partition \in Nat
    BY <1>1 DEF ScanTypes
  <2> QED BY <1>1, <1>3, <1>4, <2>1, FoundStep
<1>10. Visit(V, f)'
  BY <1>5, <1>8, <1>9 DEF Visit
<1>11. EntriesInBounds' /\ PartsBelow' /\ \A i \in 1 .. Len(parts') : parts'[i][1] <= channel_no
  <2>1. primary_partition \in Nat /\ primary_partition < MaxPrimary
    BY <1>1 DEF ScanTypes, scanning
  <2>2. EntriesInBounds /\ PartsBelow
    BY DEF ScanIInv, ScanInv
  <2> QED BY <1>1, <1>3, <1>4, <2>1, <2>2, PartsStep
<1>12. ScanTypes'
  <2>1. /\ partition_list' \in Seq((0 .. channel_cnt) \X Nat)
        /\ parts' \in Seq((0 .. channel_cnt - 1) \X {"prim_parts", "logic_parts"} \X Nat)
    <3>1. primary_partition \in Nat
      BY <1>1 DEF ScanTypes
    <3> QED BY <1>1, <1>3, <1>4, <3>1, Recorded
  <2>2. channel_no # channel_cnt
    BY <1>1 DEF ScanTypes
  <2>3. panic' \in BOOLEAN /\ (~panic' => primary_partition' < MaxPrimary)
    BY <1>3, Zenon
  <2>4. primary_partition' \in Nat /\ UNCHANGED <<disks, channel_no, extension_lba_base,
                                                   logic_partition, boot_sectors>>
    BY <1>1, <1>3 DEF ScanTypes
  <2>5. calls' \in Seq(CallsType)
    BY <1>3, <1>6
  <2> QED BY <1>1, <1>9, <1>11, <2>1, <2>2, <2>3, <2>4, <2>5 DEF ScanTypes
<1>13. BuffersGivenBack'
  BY <1>3, <1>6 DEF ScanIInv, ScanInv, BuffersGivenBack
<1> QED BY <1>10, <1>11, <1>12, <1>13 DEF ScanIInv, ScanInv

LEMMA LogicalStep ==
    ASSUME FewPartitions, ScanIInv, scan_logical
    PROVE  ScanIInv' /\ calls' = advanced
<1>1. scanning /\ ScanTypes /\ channel_no < channel_cnt
  BY ScanStart DEF scan_logical
<1>2. PICK V, f : Visit(V, f)
  BY <1>1, ScanStart
<1>3. /\ UNCHANGED <<disks, channel_no, extension_lba_base, primary_partition, boot_sectors, panic>>
      /\ table_entry.fs_type = "data" /\ frame.extension_lba # 0
      /\ record("logic_parts", logic_partition)
      /\ logic_partition' = logic_partition + 1
      /\ calls' = IF logic_partition >= MaxLogic THEN returned ELSE advanced
  BY DEF scan_logical
<1>4. V \subseteq Nat /\ CallsInv(V, calls) /\ CountInv(V) /\ FoundInv(V)
  BY <1>2 DEF Visit, TreeInv
<1> DEFINE L == {e \in Passed(V, "data") : e[1] # 0}
<1>5. /\ Here \in V \X (1 .. TableSize) /\ Here \notin Looked(V, calls)
      /\ At(Here) = table_entry /\ \A e : At(e)' = At(e) /\ Here[1] # 0
      /\ advanced \in Seq(CallsType) /\ Len(advanced) = Len(calls)
      /\ Looked(V, advanced) = Looked(V, calls) \cup {Here}
  <2>1. UNCHANGED <<disks, channel_no>>
    BY <1>3
  <2> QED BY <1>1, <1>3, <1>4, <2>1, PassedOn DEF Here
<1>6. Here \in Logical(disks[channel_no]) /\ Here \notin L
  <2>1. Here \in Nat \X (1 .. TableSize)
    BY <1>4, <1>5
  <2> QED BY <1>1, <1>3, <1>5, <2>1, Tables DEF Logical, Passed
<1>7. logic_partition = Cardinality(L) /\ Cardinality(L) < MaxLogic
      /\ Cardinality(L \cup {Here}) = Cardinality(L) + 1 /\ Cardinality(L) \in Nat
  BY <1>1, <1>4, <1>6, LogicalPassed DEF CountInv
<1>8. calls' = advanced
  <2>1. MaxLogic \in Nat
    BY PartitionAssumption
  <2> QED BY <1>3, <1>7, <2>1
<1>9. CallsInv(V, calls)' /\ TreeInv(V, f)' /\ BaseInv(V, f)'
  <2>1. table_entry.fs_type # "extended"
    BY <1>3
  <2>2. UNCHANGED <<disks, channel_no, extension_lba_base>>
    BY <1>3
  <2> QED BY <1>1, <1>2, <1>8, <2>1, <2>2, OnwardStep, Zenon
<1>10. Passed(V, "data")' = Passed(V, "data") \cup {Here}
  <2>1. UNCHANGED <<disks, channel_no>> /\ Looked(V, calls') = Looked(V, calls) \cup {Here}
    BY <1>3, <1>5, <1>8
  <2>2. Passed(V, "data")' = Passed(V, "data") \cup
                               (IF table_entry.fs_type = "data" THEN {Here} ELSE {})
    BY <1>1, <1>4, <2>1, PassedIs, Zenon
  <2> QED BY <1>3, <2>2
<1>11. CountInv(V)'
  <2>1. {e \in Passed(V, "data")' : e[1] # 0} = L \cup {Here}
    BY <1>5, <1>10
  <2> QED BY <1>3, <1>7, <2>1 DEF CountInv
<1>12. FoundInv(V)' /\ \A i \in 1 .. Len(partition_list') :
          partition_list'[i][1] = channel_cnt \/ partition_list'[i][1] <= channel_no
  <2>1. logic_partition \in Nat /\ UNCHANGED <<disks, channel_no>>
    BY <1>1, <1>3 DEF ScanTypes
  <2> QED BY <1>1, <1>3, <1>4, <1>8, <2>1, FoundStep
<1>13. Visit(V, f)'
  BY <1>9, <1>11, <1>12 DEF Visit
<1>14. EntriesInBounds' /\ PartsBelow' /\ \A i \in 1 .. Len(parts') : parts'[i][1] <= channel_no
  <2>1. logic_partition \in Nat /\ logic_partition < MaxLogic
    BY <1>1, <1>7 DEF ScanTypes
  <2>2. EntriesInBounds /\ PartsBelow /\ UNCHANGED <<disks, channel_no>>
    BY <1>3 DEF ScanIInv, ScanInv
  <2> QED BY <1>1, <1>3, <1>4, <2>1, <2>2, PartsStep
<1>15. ScanTypes'
  <2>1. /\ partition_list' \in Seq((0 .. channel_cnt) \X Nat)
        /\ parts' \in Seq((0 .. channel_cnt - 1) \X {"prim_parts", "logic_parts"} \X Nat)
    <3>1. logic_partition \in Nat /\ UNCHANGED <<disks, channel_no>>
      BY <1>1, <1>3 DEF ScanTypes
    <3> QED BY <1>1, <1>3, <1>4, <3>1, Recorded
  <2>2. channel_no # channel_cnt
    BY <1>1 DEF ScanTypes
  <2> QED BY <1>1, <1>3, <1>5, <1>8, <1>12, <1>14, <2>1, <2>2 DEF ScanTypes
<1>16. BuffersGivenBack'
  BY <1>3, <1>5, <1>8 DEF ScanIInv, ScanInv, BuffersGivenBack
<1> QED BY <1>8, <1>13, <1>14, <1>15, <1>16 DEF ScanIInv, ScanInv

LEMMA ExtendedStep ==
    ASSUME FewPartitions, ScanIInv, scan_extended
    PROVE  ScanIInv'
<1> DEFINE t == disks[channel_no]
           n == extended_lba(table_entry)
           b == extension_lba_base
<1>1. scanning /\ ScanTypes /\ channel_no < channel_cnt
  BY ScanStart DEF scan_extended
<1>2. PICK V, f : Visit(V, f)
  BY <1>1, ScanStart
<1>3. /\ UNCHANGED <<disks, channel_no, primary_partition, logic_partition,
                     parts, partition_list, panic>>
      /\ table_entry.fs_type = "extended"
      /\ b' = IF b = 0 THEN table_entry.start_lba ELSE b
      /\ calls' = Append(advanced, call(n))
      /\ boot_sectors' = boot_sectors + 1
  BY DEF scan_extended
<1>4. V \subseteq Nat /\ CallsInv(V, calls) /\ CountInv(V) /\ FoundInv(V)
      /\ TreeInv(V, f) /\ BaseInv(V, f) /\ 0 \in V
  BY <1>2 DEF Visit, TreeInv
<1>5. /\ Here \in V \X (1 .. TableSize) /\ Here \notin Looked(V, calls)
      /\ At(Here) = table_entry /\ \A e : At(e)' = At(e)
      /\ advanced \in Seq(CallsType) /\ Len(advanced) = Len(calls) /\ CallsInv(V, advanced)
      /\ Looked(V, advanced) = Looked(V, calls) \cup {Here}
  <2>1. UNCHANGED <<disks, channel_no>>
    BY <1>3
  <2> QED BY <1>1, <1>4, <2>1, PassedOn
<1>6. /\ Here \in EntriesOf(t, "extended") /\ table_entry.start_lba \in Nat \ {0}
      /\ b \in Nat /\ Here # Nowhere /\ n = table_entry.start_lba + b
  <2>1. Here \in Nat \X (1 .. TableSize)
    BY <1>4, <1>5
  <2>2. Here \in EntriesOf(t, "extended") /\ At(Here).start_lba = StartOf(t, Here)
        /\ At(Here) \in table_entries
    BY <1>1, <1>3, <1>5, <2>1, Tables
  <2>3. StartOf(t, Here) # 0
    <3>1. TablesApart(t)
      BY <1>1, Tables DEF FewPartitions, ScanTypes
    <3> QED BY <2>2, <3>1 DEF TablesApart
  <2> QED BY <1>1, <1>5, <2>2, <2>3, Tables DEF table_entries, ScanTypes, extended_lba
<1> HIDE DEF n
<1>7. Here # f
  BY <1>4, <1>5, <1>6 DEF BaseInv, Passed
<1>8. b = 0 => Passed(V, "extended") = {} /\ V = {0}
  BY <1>4 DEF TreeInv
<1>9. n \in Nat \ {0} /\ n \notin V
  <2>1. n \in Nat \ {0}
    BY <1>6
  <2>2. CASE b = 0
    BY <1>8, <2>1, <2>2
  <2>3. CASE b # 0
    <3> SUFFICES ASSUME n \in V PROVE FALSE
      BY <2>1
    <3>1. PICK g \in Passed(V, "extended") : led(f, g) = n
      BY <1>4, <2>1 DEF TreeInv
    <3>2. g \in Looked(V, calls) /\ g \in EntriesOf(t, "extended")
      <4>1. g \in Looked(V, calls) /\ At(g).fs_type = "extended"
        BY DEF Passed
      <4>2. g \in Nat \X (1 .. TableSize)
        BY <1>4, <4>1 DEF Looked
      <4> QED BY <1>1, <4>1, <4>2, Tables
    <3>3. led(f, Here) = n
      BY <1>5, <1>6, <1>7 DEF led
    <3>4. g = Here
      BY <1>1, <1>4, <1>6, <2>3, <3>1, <3>2, <3>3, LedApart
    <3> QED BY <1>5, <3>2, <3>4
  <2> QED BY <2>1, <2>2, <2>3
(* The values before the step.                                             *)
<1> PICK m, here : m = n /\ here = Here
  OBVIOUS
<1> PICK W, f2 : W = V \cup {m} /\ f2 = IF b = 0 THEN here ELSE f
  OBVIOUS
<1>10. /\ calls' \in Seq(CallsType) /\ Len(calls') = Len(calls) + 1 /\ CallsInv(W, calls')
       /\ Looked(W, calls') = Looked(V, calls) \cup {here}
  <2>1. advanced \in Seq(CallsType) /\ Len(advanced) = Len(calls) /\ CallsInv(V, advanced)
        /\ Looked(V, advanced) = Looked(V, calls) \cup {here}
    BY <1>5
  <2>2. calls' = Append(advanced, call(m))
    BY <1>3
  <2>3. V \subseteq Nat /\ m \in Nat /\ m \notin V
    BY <1>4, <1>9
  <2> QED BY <2>1, <2>2, <2>3, LookedCall
<1>11. Passed(W, "extended")' = Passed(V, "extended") \cup {here}
       /\ Passed(W, "data")' = Passed(V, "data")
  <2>1. UNCHANGED <<disks, channel_no>>
    BY <1>3
  <2>2. \A type : Passed(W, type)' = Passed(V, type) \cup
                               (IF table_entry.fs_type = type THEN {Here} ELSE {})
    <3>1. Looked(W, calls') = Looked(V, calls) \cup {Here}
      BY <1>10
    <3> QED BY <1>1, <1>4, <2>1, <3>1, PassedIs, Zenon
  <2>3. table_entry.fs_type = "extended" /\ here = Here
    BY <1>3
  <2>4. Passed(W, "extended")' = Passed(V, "extended") \cup {here}
    BY <2>2, <2>3
  <2>5. Passed(W, "data")' = Passed(V, "data") \cup {}
    BY <2>2, <2>3
  <2> QED BY <2>4, <2>5
<1>12. CallsInv(W, calls)'
  BY <1>10 DEF CallsInv
<1>13. /\ here \in V \X (1 .. TableSize) /\ here \notin Looked(V, calls) /\ here # f
       /\ here # Nowhere /\ m \in Nat \ {0} /\ m \notin V
       /\ m = table_entry.start_lba + b /\ At(here) = table_entry
       /\ b = 0 => m = table_entry.start_lba
  BY <1>5, <1>6, <1>7, <1>9
<1>14. /\ f2 \in {here, f}
       /\ \A e \in Passed(W, "extended")' :
            IF e = here THEN b' # 0 /\ led(f2, e)' = m
            ELSE e \in Passed(V, "extended") /\ b' = b /\ led(f2, e)' = led(f, e)
       /\ b # 0 => b' = b /\ f2 = f
       /\ b = 0 => b' = m /\ f2 = here
  <2>1. \A e : led(f2, e)' = IF e = f2 THEN b' ELSE At(e).start_lba + b'
    BY <1>5 DEF led
  <2>2. \A e : led(f, e) = IF e = f THEN b ELSE At(e).start_lba + b
    BY DEF led
  <2>3. CASE b = 0
    <3>1. b' = m /\ f2 = here /\ Passed(W, "extended")' = {here}
      BY <1>3, <1>8, <1>11, <1>13, <2>3
    <3> QED BY <1>13, <2>1, <2>3, <3>1
  <2>4. CASE b # 0
    <3>1. b' = b /\ f2 = f
      BY <1>3, <2>4
    <3> QED BY <1>11, <1>13, <2>1, <2>2, <2>4, <3>1
  <2> QED BY <2>3, <2>4
<1>15. TreeInv(W, f2)'
  <2>1. W \subseteq Nat /\ 0 \in W
    BY <1>4, <1>13
  <2>2. \A e \in Passed(W, "extended")' : b' # 0 /\ led(f2, e)' \in W \ {0}
    BY <1>4, <1>13, <1>14 DEF TreeInv
  <2>3. \A v \in W \ {0} : \E e \in Passed(W, "extended")' : led(f2, e)' = v
    <3>1. CASE b = 0
      BY <1>8, <1>11, <1>14, <3>1
    <3>2. CASE b # 0
      <4>1. ASSUME NEW v \in V \ {0}
            PROVE  \E e \in Passed(W, "extended")' : led(f2, e)' = v
        <5>1. PICK e \in Passed(V, "extended") : led(f, e) = v
          BY <1>4 DEF TreeInv
        <5>2. e # here
          BY <1>13 DEF Passed
        <5> QED BY <1>11, <1>14, <5>1, <5>2
      <4>2. \E e \in Passed(W, "extended")' : led(f2, e)' = m
        BY <1>11, <1>14
      <4> QED BY <4>1, <4>2
    <3> QED BY <3>1, <3>2
  <2> QED BY <2>1, <2>2, <2>3 DEF TreeInv
<1>16. BaseInv(W, f2)'
  <2>1. EarlierExtended' = EarlierExtended
    BY <1>3 DEF EarlierExtended
  <2>2. CASE b = 0
    <3>1. b' = At(here)'.start_lba /\ f2 = here /\ here[1] = 0
      BY <1>5, <1>8, <1>13, <1>14, <2>2
    <3>2. here \in Passed(W, "extended")'
      BY <1>11
    <3> QED BY <1>13, <3>1, <3>2 DEF BaseInv
  <2>3. CASE b # 0
    <3>1. b' = b /\ f2 = f
      BY <1>14, <2>3
    <3>2. f \in Passed(V, "extended") => f \in Passed(W, "extended")'
      BY <1>11
    <3> QED BY <1>4, <1>5, <2>1, <3>1, <3>2 DEF BaseInv
  <2> QED BY <2>2, <2>3
<1>17. CountInv(W)'
  BY <1>3, <1>4, <1>11 DEF CountInv
<1>18. FoundInv(W)'
  <2>1. FoundOn(channel_no)' = FoundOn(channel_no) /\ partition_list' = partition_list
    BY <1>3 DEF FoundOn
  <2>2. {e[1] + At(e).start_lba : e \in Passed(W, "data")}'
          = {e[1] + At(e).start_lba : e \in Passed(V, "data")}
    BY <1>5, <1>11
  <2> QED BY <1>4, <2>1, <2>2 DEF FoundInv
<1>19. \E X, g : Visit(X, g)'
  BY <1>12, <1>15, <1>16, <1>17, <1>18 DEF Visit
<1>20. ScanTypes'
  <2>1. b' \in Nat /\ boot_sectors' \in Nat /\ channel_no # channel_cnt
    BY <1>1, <1>3, <1>6 DEF ScanTypes
  <2> QED BY <1>1, <1>3, <1>10, <2>1 DEF ScanTypes
<1>21. PartsBelow' /\ ScanInv'
  BY <1>3, <1>10 DEF ScanIInv, PartsBelow, ScanInv, EntriesInBounds, BuffersGivenBack
<1> QED BY <1>19, <1>20, <1>21 DEF ScanIInv

LEMMA ReturnStep ==
    ASSUME ScanIInv, scan_return
    PROVE  ScanIInv'
<1>1. /\ UNCHANGED <<disks, channel_no, extension_lba_base, primary_partition, logic_partition,
                     parts, partition_list, panic>>
      /\ calls # <<>> /\ calls' = returned /\ ~(calls[Len(calls)].idx <= TableSize)
      /\ boot_sectors' = boot_sectors - 1
  <2>1. frame.idx \in Nat
    <3>1. calls \in Seq(CallsType) /\ calls # <<>>
      BY DEF ScanIInv, ScanTypes, scan_return
    <3>2. frame \in CallsType
      BY <3>1 DEF frame
    <3> QED BY <3>2, PartitionAssumption DEF CallsType
  <2>2. ~(frame.idx <= TableSize)
    BY <2>1, PartitionAssumption DEF scan_return
  <2> QED BY <2>2 DEF scan_return, free_boot_sector, frame
<1>2. ScanTypes /\ calls \in Seq(CallsType) /\ channel_no < channel_cnt
  <2>1. ScanTypes
    BY DEF ScanIInv
  <2> QED BY <1>1, <2>1, PartitionAssumption DEF ScanTypes
<1>3. PICK V, f : Visit(V, f)
  BY <1>2 DEF ScanIInv
<1>4. CallsInv(V, calls) /\ CountInv(V) /\ FoundInv(V) /\ TreeInv(V, f) /\ BaseInv(V, f)
  BY <1>3 DEF Visit
<1>5. /\ calls' \in Seq(CallsType) /\ Len(calls') = Len(calls) - 1 /\ CallsInv(V, calls')
      /\ Looked(V, calls') = Looked(V, calls)
  BY <1>1, <1>2, <1>4, LookedReturn DEF returned
<1>6. \A e : At(e)' = At(e)
  BY <1>1 DEF At, read_table
<1>7. \A type : Passed(V, type)' = Passed(V, type)
  <2>1. \A type : Passed(V, type)' = {e \in Looked(V, calls') : At(e)'.fs_type = type}
    BY DEF Passed, Looked
  <2> QED BY <1>5, <1>6, <2>1 DEF Passed
<1>8. CallsInv(V, calls)'
  BY <1>5 DEF CallsInv
<1>9. TreeInv(V, f)'
  <2>1. \A e : led(f, e)' = led(f, e)
    BY <1>1, <1>6 DEF led
  <2> QED BY <1>1, <1>4, <1>7, <2>1 DEF TreeInv
<1>10. BaseInv(V, f)'
  <2>1. EarlierExtended' = EarlierExtended
    BY <1>1 DEF EarlierExtended
  <2> QED BY <1>1, <1>4, <1>6, <1>7, <2>1 DEF BaseInv
<1>11. CountInv(V)'
  BY <1>1, <1>4, <1>7 DEF CountInv
<1>12. FoundInv(V)'
  <2>1. FoundOn(channel_no)' = FoundOn(channel_no) /\ partition_list' = partition_list
    BY <1>1 DEF FoundOn
  <2>2. {e[1] + At(e).start_lba : e \in Passed(V, "data")}'
          = {e[1] + At(e).start_lba : e \in Passed(V, "data")}
    BY <1>6, <1>7
  <2> QED BY <1>4, <2>1, <2>2 DEF FoundInv
<1>13. Visit(V, f)'
  BY <1>8, <1>9, <1>10, <1>11, <1>12 DEF Visit
<1>14. boot_sectors' = Len(calls') /\ boot_sectors' \in Nat
  <2>1. boot_sectors = Len(calls)
    BY DEF ScanIInv, ScanInv, BuffersGivenBack
  <2> QED BY <1>1, <1>5, <2>1
<1>15. ScanTypes'
  <2>1. channel_no # channel_cnt
    BY <1>2 DEF ScanTypes
  <2> QED BY <1>1, <1>2, <1>5, <1>14, <2>1 DEF ScanTypes
<1>16. PartsBelow' /\ ScanInv'
  BY <1>1, <1>14 DEF ScanIInv, PartsBelow, ScanInv, EntriesInBounds, BuffersGivenBack
<1> QED BY <1>13, <1>15, <1>16 DEF ScanIInv

(* A disk of which nothing has been read.                                  *)
LEMMA Unread ==
    LET s == <<call(0)>>
    IN  /\ s \in Seq(CallsType) /\ Len(s) = 1 /\ Looked({0}, s) = {}
        /\ CallsInv({0}, s)
<1> DEFINE s == <<call(0)>>
<1>1. s \in Seq(CallsType) /\ Len(s) = 1 /\ s[1].extension_lba = 0 /\ s[1].idx = 1
  BY PartitionAssumption DEF call, CallsType
<1> HIDE DEF s
<1>2. Looked({0}, s) = {}
  <2> SUFFICES ASSUME NEW e \in {0} \X (1 .. TableSize), e \in Looked({0}, s)
               PROVE  FALSE
    BY DEF Looked
  <2>1. e[1] = 0 /\ e[2] >= 1 /\ e[2] \in Nat
    BY PartitionAssumption
  <2>2. 1 \in 1 .. Len(s)
    BY <1>1
  <2>3. e[2] < 1
    BY <1>1, <2>1, <2>2 DEF Looked
  <2> QED BY <2>1, <2>3
<1>3. CallsInv({0}, s)
  BY <1>1 DEF CallsInv
<1> QED BY <1>1, <1>2, <1>3 DEF s

StartOfDisk ==
    /\ calls = <<call(0)>> /\ logic_partition = 0 /\ FoundOn(channel_no) = {}
    /\ extension_lba_base # 0 => EarlierExtended

LEMMA UnreadVisit == StartOfDisk => Visit({0}, Nowhere)
<1> SUFFICES ASSUME StartOfDisk PROVE Visit({0}, Nowhere)
  OBVIOUS
<1>1. \A type : Passed({0}, type) = {}
  BY Unread DEF StartOfDisk, Passed
<1>2. CallsInv({0}, calls)
  BY Unread DEF StartOfDisk
<1>3. TreeInv({0}, Nowhere)
  BY <1>1 DEF TreeInv
<1>4. BaseInv({0}, Nowhere)
  BY DEF StartOfDisk, BaseInv
<1>5. CountInv({0})
  <2>1. {e \in Passed({0}, "data") : e[1] # 0} = {}
    BY <1>1
  <2> QED BY <2>1, FS_EmptySet DEF StartOfDisk, CountInv
<1>6. FoundInv({0})
  <2>1. {partition_list[i][2] : i \in FoundOn(channel_no)} = {}
    BY DEF StartOfDisk
  <2>2. {e[1] + At(e).start_lba : e \in Passed({0}, "data")} = {}
    BY <1>1
  <2> QED BY <2>1, <2>2 DEF FoundInv
<1> QED BY <1>2, <1>3, <1>4, <1>5, <1>6 DEF Visit

LEMMA ChannelStep ==
    ASSUME ScanIInv, next_channel
    PROVE  ScanIInv'
<1>1. /\ UNCHANGED <<disks, extension_lba_base, parts, partition_list, panic>>
      /\ ~panic /\ calls = <<>> /\ channel_no < channel_cnt /\ channel_no' = channel_no + 1
      /\ primary_partition' = 0 /\ logic_partition' = 0
      /\ IF channel_no' < channel_cnt
         THEN calls' = <<call(0)>> /\ boot_sectors' = boot_sectors + 1
         ELSE UNCHANGED <<calls, boot_sectors>>
  BY DEF next_channel, reset_counters
<1>2. ScanTypes /\ channel_no \in Nat /\ channel_cnt \in Nat /\ channel_no' \in 0 .. channel_cnt
      /\ MaxPrimary \in Nat \ {0}
  BY <1>1, PartitionAssumption DEF ScanIInv, ScanTypes
<1>3. PICK V, f : Visit(V, f)
  BY <1>1 DEF ScanIInv
<1>4. extension_lba_base # 0 => EarlierExtended'
  <2> SUFFICES ASSUME extension_lba_base # 0 PROVE EarlierExtended'
    OBVIOUS
  <2>1. \A ch \in 0 .. channel_no - 1 : ch \in 0 .. channel_no' - 1
    BY <1>1, <1>2
  <2>2. CASE f = Nowhere
    <3>1. EarlierExtended
      BY <1>3, <2>2 DEF Visit, BaseInv
    <3> QED BY <1>1, <2>1, <3>1 DEF EarlierExtended
  <2>3. CASE f # Nowhere
    <3>1. f \in Passed(V, "extended") /\ f[1] = 0 /\ V \subseteq Nat
      BY <1>3, <2>3 DEF Visit, BaseInv, TreeInv
    <3>2. f \in Nat \X (1 .. TableSize) /\ At(f).fs_type = "extended"
      BY <3>1 DEF Passed, Looked
    <3>3. f \in EntriesOf(disks[channel_no], "extended")
      BY <1>1, <1>2, <3>2, Tables
    <3>4. channel_no \in 0 .. channel_no' - 1
      BY <1>1, <1>2
    <3> QED BY <1>1, <3>1, <3>3, <3>4 DEF EarlierExtended
  <2> QED BY <2>2, <2>3
<1>5. /\ \A i \in 1 .. Len(parts) : parts[i][1] <= channel_no' /\ parts[i][1] # channel_no'
      /\ \A i \in 1 .. Len(partition_list) :
           /\ partition_list[i][1] = channel_cnt \/ partition_list[i][1] <= channel_no'
           /\ channel_no' < channel_cnt => partition_list[i][1] # channel_no'
  <2>1. \A i \in 1 .. Len(parts) : parts[i] \in (0 .. channel_cnt - 1) \X {"prim_parts", "logic_parts"} \X Nat
    BY <1>2 DEF ScanTypes
  <2>2. \A i \in 1 .. Len(partition_list) : partition_list[i] \in (0 .. channel_cnt) \X Nat
    BY <1>2 DEF ScanTypes
  <2>3. /\ \A i \in 1 .. Len(parts) : parts[i][1] \in Int /\ parts[i][1] <= channel_no
        /\ \A i \in 1 .. Len(partition_list) :
             /\ partition_list[i][1] \in Int
             /\ partition_list[i][1] = channel_cnt \/ partition_list[i][1] <= channel_no
    <3>1. \A i \in 0 .. channel_cnt : i \in Int
      OBVIOUS
    <3>2. /\ \A i \in 1 .. Len(parts) : parts[i][1] \in 0 .. channel_cnt - 1
          /\ \A i \in 1 .. Len(partition_list) : partition_list[i][1] \in 0 .. channel_cnt
      BY <2>1, <2>2
    <3>3. /\ \A i \in 1 .. Len(parts) : parts[i][1] <= channel_no
          /\ \A i \in 1 .. Len(partition_list) :
               partition_list[i][1] = channel_cnt \/ partition_list[i][1] <= channel_no
      BY <1>2 DEF ScanTypes
    <3> QED BY <3>1, <3>2, <3>3
  <2>4. channel_no < channel_no'
    BY <1>1, <1>2
  <2> QED BY <1>2, <2>3, <2>4
<1>6. /\ calls' \in Seq(CallsType) /\ boot_sectors' = Len(calls') /\ boot_sectors' \in Nat
      /\ channel_no' = channel_cnt => calls' = <<>>
  <2>1. boot_sectors = 0
    BY <1>1 DEF ScanIInv, ScanInv, BuffersGivenBack
  <2>2. CASE channel_no' < channel_cnt
    <3>1. calls' = <<call(0)>> /\ boot_sectors' = 1
      BY <1>1, <2>1, <2>2
    <3>2. calls' \in Seq(CallsType) /\ Len(calls') = 1
      BY <3>1, Unread
    <3>3. channel_no' # channel_cnt
      BY <1>2, <2>2
    <3> QED BY <3>1, <3>2, <3>3
  <2>3. CASE ~(channel_no' < channel_cnt)
    BY <1>1, <2>1, <2>3
  <2> QED BY <2>2, <2>3
<1>7. ScanTypes'
  BY <1>1, <1>2, <1>5, <1>6 DEF ScanTypes
<1>8. PartsBelow'
  BY <1>1, <1>5 DEF PartsBelow
<1>9. ScanInv'
  BY <1>1, <1>6 DEF ScanIInv, ScanInv, EntriesInBounds, BuffersGivenBack
<1>10. ASSUME channel_no' < channel_cnt
       PROVE  \E W, g : Visit(W, g)'
  <2>1. calls' = <<call(0)>> /\ FoundOn(channel_no)' = {}
    BY <1>1, <1>5, <1>10 DEF FoundOn
  <2>2. StartOfDisk'
    BY <1>1, <1>4, <2>1 DEF StartOfDisk
  <2>3. Visit({0}, Nowhere)'
    BY <2>2, UnreadVisit, PTL
  <2> QED BY <2>3
<1> QED BY <1>7, <1>8, <1>9, <1>10 DEF ScanIInv

LEMMA ScanBegins ==
    ASSUME ScanInit
    PROVE  ScanIInv
<1>1. /\ disks \in Layouts /\ channel_no = 0 /\ calls = <<call(0)>> /\ boot_sectors = 1
      /\ extension_lba_base = 0 /\ primary_partition = 0 /\ logic_partition = 0
      /\ parts = <<>> /\ partition_list = <<address_0>> /\ panic = FALSE
  BY DEF ScanInit
<1>2. channel_cnt \in Nat \ {0} /\ MaxPrimary \in Nat \ {0}
  BY PartitionAssumption
<1>3. calls \in Seq(CallsType) /\ Len(calls) = 1
  BY <1>1, Unread
<1>4. /\ Len(parts) = 0 /\ DOMAIN parts = {}
      /\ Len(partition_list) = 1 /\ partition_list \in Seq((0 .. channel_cnt) \X Nat)
      /\ \A i \in 1 .. Len(partition_list) : partition_list[i][1] = channel_cnt
  <2>1. address_0 \in (0 .. channel_cnt) \X Nat /\ address_0[1] = channel_cnt
    BY <1>2 DEF address_0
  <2> QED BY <1>1, <2>1
<1>5. ScanTypes
  <2>1. \A S : <<>> \in Seq(S)
    OBVIOUS
  <2>2. /\ parts \in Seq((0 .. channel_cnt - 1) \X {"prim_parts", "logic_parts"} \X Nat)
        /\ partition_list \in Seq((0 .. channel_cnt) \X Nat)
    BY <1>1, <1>4, <2>1, Zenon
  <2>3. channel_no \in 0 .. channel_cnt /\ channel_no # channel_cnt
    BY <1>1, <1>2
  <2>4. boot_sectors \in Nat /\ primary_partition < MaxPrimary
    BY <1>1, <1>2
  <2>5. panic \in BOOLEAN
    BY <1>1, Zenon
  <2> QED BY <1>1, <1>3, <1>4, <2>2, <2>3, <2>4, <2>5 DEF ScanTypes
<1>6. PartsBelow /\ ScanInv
  BY <1>1, <1>3, <1>4 DEF PartsBelow, ScanInv, EntriesInBounds, BuffersGivenBack
<1>7. Visit({0}, Nowhere)
  <2>1. FoundOn(channel_no) = {}
    BY <1>1, <1>2, <1>4 DEF FoundOn
  <2> QED BY <1>1, <2>1, UnreadVisit DEF StartOfDisk
<1> QED BY <1>5, <1>6, <1>7 DEF ScanIInv

LEMMA ScanKeeps ==
    ASSUME FewPartitions, ScanIInv, [ScanNext]_partition_vars
    PROVE  ScanIInv'
<1>1. CASE UNCHANGED partition_vars
  <2>1. UNCHANGED <<disks, channel_no, calls, extension_lba_base, primary_partition,
                    logic_partition, parts, partition_list, boot_sectors, panic>>
    BY <1>1 DEF partition_vars, scan_vars
  <2>2. \A V, f : Visit(V, f)' = Visit(V, f)
    <3>1. \A e : At(e)' = At(e)
      BY <2>1 DEF At, read_table
    <3>2. \A V, type : Passed(V, type)' = Passed(V, type)
      BY <2>1, <3>1 DEF Passed, Looked
    <3>3. EarlierExtended' = EarlierExtended /\ \A f, e : led(f, e)' = led(f, e)
      BY <2>1, <3>1 DEF EarlierExtended, led
    <3>4. \A V : FoundInv(V)' = FoundInv(V)
      <4>1. FoundOn(channel_no)' = FoundOn(channel_no)
        BY <2>1 DEF FoundOn
      <4> TAKE V
      <4>2. {e[1] + At(e).start_lba : e \in Passed(V, "data")}'
              = {e[1] + At(e).start_lba : e \in Passed(V, "data")}
        BY <3>1, <3>2
      <4>3. {partition_list[i][2] : i \in FoundOn(channel_no)}'
              = {partition_list[i][2] : i \in FoundOn(channel_no)}
        BY <2>1, <4>1
      <4> QED BY <4>2, <4>3, Zenon DEF FoundInv
    <3>5. \A V : CallsInv(V, calls)' = CallsInv(V, calls)
      BY <2>1 DEF CallsInv
    <3>6. \A V, f : TreeInv(V, f)' = TreeInv(V, f)
      BY <2>1, <3>2, <3>3 DEF TreeInv
    <3>7. \A V, f : BaseInv(V, f)' = BaseInv(V, f)
      BY <2>1, <3>1, <3>2, <3>3 DEF BaseInv
    <3>8. \A V : CountInv(V)' = CountInv(V)
      BY <2>1, <3>2 DEF CountInv
    <3> QED BY <3>4, <3>5, <3>6, <3>7, <3>8 DEF Visit
  <2>3. ScanTypes' /\ PartsBelow' /\ ScanInv'
    BY <2>1 DEF ScanIInv, ScanTypes, PartsBelow, ScanInv, EntriesInBounds, BuffersGivenBack
  <2> QED BY <2>1, <2>2, <2>3 DEF ScanIInv
<1>2. CASE scan_extended
  BY <1>2, ExtendedStep
<1>3. CASE scan_primary
  BY <1>3, PrimaryStep
<1>4. CASE scan_logical
  BY <1>4, LogicalStep
<1>5. CASE scan_free
  BY <1>5, FreeStep
<1>6. CASE scan_return
  BY <1>6, ReturnStep
<1>7. CASE next_channel
  BY <1>7, ChannelStep
<1> QED BY <1>1, <1>2, <1>3, <1>4, <1>5, <1>6, <1>7 DEF ScanNext

LEMMA ScanInductive ==
    ASSUME FewPartitions
    PROVE  ScanSpec => []ScanIInv
<1>1. ScanInit => ScanIInv
  BY ScanBegins
<1>2. ScanIInv /\ [ScanNext]_partition_vars => ScanIInv'
  BY ScanKeeps
<1> QED BY <1>1, <1>2, PTL DEF ScanSpec

(* partition_scan: on disks with at most MaxLogic logical partitions whose *)
(* tables form a tree, however many tables and primary partitions there    *)
(* are, no entry of prim_parts and logic_parts is written twice or beyond  *)
(* the array, and every boot_sector is given back: the return that keeps   *)
(* one is never taken.                                                     *)
THEOREM ScanKeepsBounds ==
    ASSUME FewPartitions
    PROVE  ScanSpec => []ScanInv
<1>1. ScanIInv => ScanInv
  BY DEF ScanIInv
<1> QED BY <1>1, ScanInductive, PTL
-----------------------------------------------------------------------------
(* Disks that are described as the scan expects: the sector of an extended *)
(* partition is relative to the outermost one, which is the only one in    *)
(* the sectors 0 of all disks, because its address is kept for all of      *)
(* them; every table is reached from sector 0; no two partitions start at  *)
(* the same sector.                                                        *)
BaseOf(t) ==
    LET first == {e \in EntriesOf(t, "extended") : e[1] = 0}
    IN  CHOOSE s \in {StartOf(t, e) : e \in first} : TRUE
LeadsTo(t, e) == StartOf(t, e) + (IF e[1] = 0 THEN 0 ELSE BaseOf(t))

AllReached(t) ==
    /\ 0 \in DOMAIN t
    /\ \A S \in SUBSET (DOMAIN t) :
         /\ 0 \in S
         /\ \A e \in EntriesOf(t, "extended") :
              e[1] \in S /\ LeadsTo(t, e) \in DOMAIN t => LeadsTo(t, e) \in S
         => S = DOMAIN t

StartsApart(t) ==
    \A e, g \in EntriesOf(t, "data") : e[1] + StartOf(t, e) = g[1] + StartOf(t, g) => e = g

OneExtension(d) ==
    \A c1, c2 \in DOMAIN d :
        \A e \in EntriesOf(d[c1], "extended"), g \in EntriesOf(d[c2], "extended") :
            e[1] = 0 /\ g[1] = 0 => c1 = c2 /\ e = g

RegularDisks ==
    \A d \in Layouts :
        OneExtension(d) /\ \A ch \in DOMAIN d : AllReached(d[ch]) /\ StartsApart(d[ch])

(* The disks before this one are complete, and nothing is listed twice.    *)
FoundOnce == \A i, j \in 1 .. Len(partition_list) : partition_list[i] = partition_list[j] => i = j

DisksComplete ==
    \A ch \in 0 .. channel_no - 1 : {partition_list[i][2] : i \in FoundOn(ch)} = Starts(ch)

FoundIInv == ScanIInv /\ FoundOnce /\ DisksComplete

(* When a disk has been scanned every table of it was read.                *)
LEMMA AllRead ==
    ASSUME RegularDisks, ScanTypes, channel_no < channel_cnt, calls = <<>>,
           NEW V, NEW f, Visit(V, f)
    PROVE  DOMAIN disks[channel_no] \subseteq V
<1> DEFINE t == disks[channel_no]
           b == extension_lba_base
           S == V \cap DOMAIN t
<1>1. /\ channel_no \in DOMAIN disks /\ OneExtension(disks) /\ AllReached(t)
      /\ DOMAIN t \subseteq Nat
  <2>1. channel_no \in DOMAIN disks /\ disks \in Layouts /\ DOMAIN t \subseteq Nat
    BY Tables DEF ScanTypes
  <2> QED BY <2>1 DEF RegularDisks
<1>2. V \subseteq Nat /\ 0 \in V /\ TreeInv(V, f) /\ BaseInv(V, f)
  BY DEF Visit, TreeInv
<1>3. Looked(V, calls) = V \X (1 .. TableSize)
  <2>1. Len(calls) = 0
    OBVIOUS
  <2> QED BY <2>1 DEF Looked
<1>4. \A e \in EntriesOf(t, "extended") :
        /\ e \in (DOMAIN t) \X (1 .. TableSize) /\ e # Nowhere
        /\ At(e).fs_type = "extended" /\ At(e).start_lba = StartOf(t, e)
        /\ StartOf(t, e) \in Nat
  <2>1. \A e \in EntriesOf(t, "extended") : e \in (DOMAIN t) \X (1 .. TableSize)
    BY DEF EntriesOf
  <2> QED BY <1>1, <2>1, Tables DEF table_entries
<1> HIDE DEF t
<1>5. ASSUME NEW e \in EntriesOf(t, "extended"), e[1] \in V
      PROVE  LeadsTo(t, e) \in V
  <2>1. e \in Passed(V, "extended")
    BY <1>3, <1>4, <1>5 DEF Passed
  <2>2. b # 0 /\ led(f, e) \in V
    BY <1>2, <2>1 DEF TreeInv
  <2>3. CASE f = Nowhere
    <3>1. PICK ch \in 0 .. channel_no - 1 : \E g \in EntriesOf(disks[ch], "extended") : g[1] = 0
      BY <1>2, <2>2, <2>3 DEF BaseInv, EarlierExtended
    <3>2. ch \in DOMAIN disks /\ ch # channel_no
      BY PartitionAssumption DEF ScanTypes
    <3>3. \A g \in EntriesOf(t, "extended") : g[1] # 0
      BY <1>1, <3>1, <3>2 DEF OneExtension, t
    <3>4. {0} \in SUBSET (DOMAIN t)
      BY <1>1 DEF AllReached
    <3>5. {0} = DOMAIN t
      BY <1>1, <3>3, <3>4 DEF AllReached
    <3>6. e[1] = 0
      BY <1>4, <3>5
    <3> QED BY <3>3, <3>6
  <2>4. CASE f # Nowhere
    <3>1. f \in Passed(V, "extended") /\ f[1] = 0 /\ At(f).start_lba = b
      BY <1>2, <2>4 DEF BaseInv
    <3>2. f \in EntriesOf(t, "extended") /\ StartOf(t, f) = b
      <4>1. f \in Nat \X (1 .. TableSize) /\ At(f).fs_type = "extended"
        BY <1>2, <3>1 DEF Passed, Looked
      <4>2. f \in EntriesOf(t, "extended")
        BY <4>1, Tables DEF t
      <4> QED BY <1>4, <3>1, <4>2
    <3>3. \A g \in EntriesOf(t, "extended") : g[1] = 0 => g = f
      BY <1>1, <3>1, <3>2 DEF OneExtension, t
    <3>4. BaseOf(t) = b
      <4>1. {g \in EntriesOf(t, "extended") : g[1] = 0} = {f}
        BY <3>1, <3>2, <3>3
      <4>2. {StartOf(t, g) : g \in {f}} = {b}
        BY <3>2
      <4> QED BY <4>1, <4>2 DEF BaseOf
    <3>5. b \in Nat
      BY <1>4, <3>2
    <3>6. CASE e[1] = 0
      <4>1. e = f
        BY <3>3, <3>6
      <4> QED BY <2>2, <3>2, <3>5, <3>6, <4>1 DEF LeadsTo, led
    <3>7. CASE e[1] # 0
      <4>1. e # f
        BY <3>1, <3>7
      <4> QED BY <1>4, <2>2, <3>4, <3>7, <4>1 DEF LeadsTo, led
    <3> QED BY <3>6, <3>7
  <2> QED BY <2>3, <2>4
<1>6. S = DOMAIN t
  <2>1. 0 \in S /\ S \in SUBSET (DOMAIN t)
    BY <1>1, <1>2 DEF AllReached
  <2>2. \A e \in EntriesOf(t, "extended") :
          e[1] \in S /\ LeadsTo(t, e) \in DOMAIN t => LeadsTo(t, e) \in S
    BY <1>5
  <2> HIDE DEF S
  <2> QED BY <1>1, <2>1, <2>2 DEF AllReached
<1> QED BY <1>6 DEF t

(* A partition that is recorded starts where none of those found before    *)
(* on this disk starts.                                                    *)
LEMMA RecordedOnce ==
    ASSUME RegularDisks, ScanIInv, scanning, FoundOnce, table_entry.fs_type = "data",
           UNCHANGED <<disks, channel_no>>, NEW array \in {"prim_parts", "logic_parts"},
           NEW index \in Nat, record(array, index)
    PROVE  FoundOnce' /\ \A ch \in Nat : ch # channel_no =>
             {partition_list'[i][2] : i \in FoundOn(ch)'} = {partition_list[i][2] : i \in FoundOn(ch)}
<1> DEFINE n == Len(partition_list)
           new == <<channel_no, frame.extension_lba + table_entry.start_lba>>
           t == disks[channel_no]
<1>1. ScanTypes /\ channel_no < channel_cnt
  BY ScanStart
<1>2. PICK V, f : Visit(V, f)
  BY <1>1, ScanStart
<1>3. V \subseteq Nat /\ CallsInv(V, calls) /\ FoundInv(V)
  BY <1>2 DEF Visit, TreeInv
<1>4. /\ n \in Nat /\ Len(partition_list') = n + 1 /\ partition_list'[n + 1] = new
      /\ \A i \in 1 .. n : partition_list'[i] = partition_list[i]
  BY <1>1, <1>3, Recorded
<1>5. /\ Here \in V \X (1 .. TableSize) /\ Here \notin Looked(V, calls) /\ At(Here) = table_entry
  BY <1>1, <1>3, PassedOn
<1>6. \A i \in 1 .. n : partition_list[i] # new
  <2> SUFFICES ASSUME NEW i \in 1 .. n, partition_list[i] = new
               PROVE  FALSE
    OBVIOUS
  <2>1. i \in FoundOn(channel_no) /\ partition_list[i][2] = Here[1] + At(Here).start_lba
    BY <1>5 DEF FoundOn, Here
  <2>2. PICK g \in Passed(V, "data") : Here[1] + At(Here).start_lba = g[1] + At(g).start_lba
    BY <1>3, <2>1 DEF FoundInv
  <2>3. g \in Looked(V, calls) /\ At(g).fs_type = "data" /\ g \in Nat \X (1 .. TableSize)
        /\ Here \in Nat \X (1 .. TableSize)
    BY <1>3, <1>5 DEF Passed, Looked
  <2>4. /\ g \in EntriesOf(t, "data") /\ At(g).start_lba = StartOf(t, g)
        /\ Here \in EntriesOf(t, "data") /\ At(Here).start_lba = StartOf(t, Here)
    BY <1>1, <1>5, <2>3, Tables
  <2>5. StartsApart(t)
    BY <1>1, Tables DEF RegularDisks, ScanTypes
  <2>6. g = Here
    BY <2>2, <2>4, <2>5 DEF StartsApart
  <2> QED BY <1>5, <2>3, <2>6
<1>7. \A i \in 1 .. n + 1 : i = n + 1 \/ i \in 1 .. n
  BY <1>4
<1>8. \A i \in 1 .. n : i \in 1 .. n + 1
  BY <1>4
<1>9. new[1] = channel_no
  OBVIOUS
<1> HIDE DEF new
<1>10. FoundOnce'
  BY <1>4, <1>6, <1>7 DEF FoundOnce
<1>11. ASSUME NEW ch \in Nat, ch # channel_no
       PROVE  {partition_list'[i][2] : i \in FoundOn(ch)'} = {partition_list[i][2] : i \in FoundOn(ch)}
  <2>1. FoundOn(ch)' = {i \in 1 .. n + 1 : partition_list'[i][1] = ch}
    BY <1>4 DEF FoundOn
  <2>2. FoundOn(ch) = {i \in 1 .. n : partition_list[i][1] = ch}
    BY DEF FoundOn
  <2>3. FoundOn(ch)' = FoundOn(ch)
    BY <1>4, <1>7, <1>8, <1>9, <1>11, <2>1, <2>2
  <2>4. \A i \in FoundOn(ch) : partition_list'[i] = partition_list[i]
    BY <1>4, <2>2
  <2> QED BY <2>3, <2>4
<1> QED BY <1>10, <1>11

(* The disks before the current one: nothing of them changes while it is   *)
(* scanned.                                                                *)
LEMMA CompleteRecorded ==
    ASSUME ScanTypes, UNCHANGED <<disks, channel_no>>, DisksComplete,
           \A ch \in Nat : ch # channel_no =>
             {partition_list'[i][2] : i \in FoundOn(ch)'} = {partition_list[i][2] : i \in FoundOn(ch)}
    PROVE  DisksComplete'
<1>1. channel_no \in Nat
  BY DEF ScanTypes
<1>2. \A ch \in 0 .. channel_no - 1 : ch \in Nat /\ ch # channel_no
  BY <1>1
<1>3. \A ch : Starts(ch)' = Starts(ch)
  BY DEF Starts, DataEntries
<1>4. DisksComplete' <=> \A ch \in 0 .. channel_no - 1 :
                            {partition_list'[i][2] : i \in FoundOn(ch)'} = Starts(ch)'
  BY DEF DisksComplete
<1> QED BY <1>2, <1>3, <1>4 DEF DisksComplete

LEMMA CompleteKept ==
    ASSUME ScanTypes, UNCHANGED <<disks, partition_list>>, FoundOnce, DisksComplete
    PROVE  /\ FoundOnce'
           /\ channel_no' = channel_no => DisksComplete'
<1>1. FoundOnce'
  BY DEF FoundOnce
<1>2. ASSUME channel_no' = channel_no PROVE DisksComplete'
  <2>1. \A ch : {partition_list'[i][2] : i \in FoundOn(ch)'} = {partition_list[i][2] : i \in FoundOn(ch)}
    BY DEF FoundOn
  <2> QED BY <1>2, <2>1, CompleteRecorded
<1> QED BY <1>1, <1>2

(* ide_init turns to the next channel: the disk it leaves is complete.     *)
LEMMA CompleteChannel ==
    ASSUME RegularDisks, ScanIInv, FoundOnce, DisksComplete, next_channel
    PROVE  FoundOnce' /\ DisksComplete'
<1> DEFINE t == disks[channel_no]
<1>1. /\ UNCHANGED <<disks, partition_list>> /\ calls = <<>> /\ channel_no < channel_cnt
      /\ channel_no' = channel_no + 1
  BY DEF next_channel
<1>2. ScanTypes /\ channel_no \in Nat
  BY DEF ScanIInv, ScanTypes
<1>3. FoundOnce'
  BY <1>1, <1>2, CompleteKept
<1>4. PICK V, f : Visit(V, f)
  BY <1>1 DEF ScanIInv
<1>5. DOMAIN t \subseteq V /\ V \subseteq Nat /\ FoundInv(V)
  BY <1>1, <1>2, <1>4, AllRead DEF Visit, TreeInv
<1>6. Passed(V, "data") = EntriesOf(t, "data")
  <2>1. Len(calls) = 0
    BY <1>1
  <2>2. Looked(V, calls) = V \X (1 .. TableSize)
    BY <2>1 DEF Looked
  <2>3. Passed(V, "data") = {e \in V \X (1 .. TableSize) : At(e).fs_type = "data"}
    BY <2>2 DEF Passed
  <2>4. EntriesOf(t, "data") \subseteq V \X (1 .. TableSize)
    BY <1>5 DEF EntriesOf
  <2>5. V \X (1 .. TableSize) \subseteq Nat \X (1 .. TableSize)
    BY <1>5
  <2>6. \A e \in V \X (1 .. TableSize) : At(e).fs_type = "data" <=> e \in EntriesOf(t, "data")
    BY <1>1, <1>2, <2>5, Tables
  <2> HIDE DEF t
  <2> QED BY <2>3, <2>4, <2>6
<1>7. Starts(channel_no) = {e[1] + StartOf(t, e) : e \in EntriesOf(t, "data")}
  BY DEF Starts, DataEntries, EntriesOf, StartOf
<1>8. \A e \in EntriesOf(t, "data") : At(e).start_lba = StartOf(t, e)
  BY <1>1, <1>2, Tables
<1>9. {partition_list[i][2] : i \in FoundOn(channel_no)} = Starts(channel_no)
  <2>1. {partition_list[i][2] : i \in FoundOn(channel_no)} = {e[1] + At(e).start_lba : e \in EntriesOf(t, "data")}
    BY <1>5, <1>6 DEF FoundInv
  <2> HIDE DEF t
  <2> QED BY <1>7, <1>8, <2>1
<1>10. \A ch \in 0 .. channel_no : {partition_list[i][2] : i \in FoundOn(ch)} = Starts(ch)
  <2>1. \A ch \in 0 .. channel_no : ch = channel_no \/ ch \in 0 .. channel_no - 1
    BY <1>2
  <2> QED BY <1>9, <2>1 DEF DisksComplete
<1>11. DisksComplete'
  <2>1. channel_no' - 1 = channel_no
    BY <1>1, <1>2
  <2>2. \A ch : Starts(ch)' = Starts(ch)
    BY <1>1 DEF Starts, DataEntries
  <2>3. \A ch : FoundOn(ch)' = FoundOn(ch)
    BY <1>1 DEF FoundOn
  <2>4. \A ch : {partition_list'[i][2] : i \in FoundOn(ch)'} = {partition_list[i][2] : i \in FoundOn(ch)}
    BY <1>1, <2>3
  <2> QED BY <1>10, <2>1, <2>2, <2>4 DEF DisksComplete
<1> QED BY <1>3, <1>11

LEMMA FoundKeeps ==
    ASSUME FewPartitions, RegularDisks, FoundIInv, [ScanNext]_partition_vars
    PROVE  FoundIInv'
<1>1. ScanIInv /\ FoundOnce /\ DisksComplete /\ ScanTypes
  BY DEF FoundIInv, ScanIInv
<1>2. ScanIInv'
  BY <1>1, ScanKeeps
<1>3. CASE UNCHANGED <<disks, partition_list, channel_no>>
  BY <1>1, <1>2, <1>3, CompleteKept DEF FoundIInv
<1>4. CASE scan_primary
  <2>1. /\ scanning /\ table_entry.fs_type = "data" /\ UNCHANGED <<disks, channel_no>>
        /\ record("prim_parts", primary_partition) /\ primary_partition \in Nat
    BY <1>1, <1>4 DEF scan_primary, ScanTypes
  <2>2. FoundOnce' /\ \A ch \in Nat : ch # channel_no =>
          {partition_list'[i][2] : i \in FoundOn(ch)'} = {partition_list[i][2] : i \in FoundOn(ch)}
    BY <1>1, <2>1, RecordedOnce
  <2> QED BY <1>1, <1>2, <2>1, <2>2, CompleteRecorded DEF FoundIInv
<1>5. CASE scan_logical
  <2>1. /\ scanning /\ table_entry.fs_type = "data" /\ UNCHANGED <<disks, channel_no>>
        /\ record("logic_parts", logic_partition) /\ logic_partition \in Nat
    BY <1>1, <1>5 DEF scan_logical, ScanTypes
  <2>2. FoundOnce' /\ \A ch \in Nat : ch # channel_no =>
          {partition_list'[i][2] : i \in FoundOn(ch)'} = {partition_list[i][2] : i \in FoundOn(ch)}
    BY <1>1, <2>1, RecordedOnce
  <2> QED BY <1>1, <1>2, <2>1, <2>2, CompleteRecorded DEF FoundIInv
<1>6. CASE next_channel
  BY <1>1, <1>2, <1>6, CompleteChannel DEF FoundIInv
<1>7. CASE scan_extended
  BY <1>3, <1>7 DEF scan_extended
<1>8. CASE scan_free
  BY <1>3, <1>8 DEF scan_free
<1>9. CASE scan_return
  BY <1>3, <1>9 DEF scan_return
<1>10. CASE UNCHANGED partition_vars
  BY <1>3, <1>10 DEF partition_vars, scan_vars
<1> QED BY <1>4, <1>5, <1>6, <1>7, <1>8, <1>9, <1>10 DEF ScanNext

LEMMA FoundBegins ==
    ASSUME ScanInit
    PROVE  FoundIInv
<1>1. partition_list = <<address_0>> /\ channel_no = 0 /\ ScanIInv
  BY ScanBegins DEF ScanInit
<1>2. FoundOnce
  BY <1>1 DEF FoundOnce
<1>3. DisksComplete
  BY <1>1 DEF DisksComplete
<1> QED BY <1>1, <1>2, <1>3 DEF FoundIInv

(* As many list entries as sectors.                                        *)
LEMMA FoundCount ==
    ASSUME ScanTypes, FoundOnce, NEW ch
    PROVE  Cardinality(FoundOn(ch)) = Cardinality({partition_list[i][2] : i \in FoundOn(ch)})
<1> DEFINE A == FoundOn(ch)
           B == {partition_list[i][2] : i \in A}
           F == [i \in A |-> partition_list[i][2]]
<1>1. partition_list \in Seq((0 .. channel_cnt) \X Nat)
  BY DEF ScanTypes
<1>2. IsFiniteSet(A)
  <2>1. Len(partition_list) \in Int /\ 1 \in Int
    BY <1>1
  <2>2. IsFiniteSet(1 .. Len(partition_list))
    BY <2>1, FS_Interval
  <2>3. A \subseteq 1 .. Len(partition_list)
    BY DEF FoundOn
  <2> QED BY <2>2, <2>3, FS_Subset
<1>3. \A i \in A : i \in 1 .. Len(partition_list) /\ partition_list[i] = <<ch, partition_list[i][2]>>
  <2> SUFFICES ASSUME NEW i \in A
               PROVE  i \in 1 .. Len(partition_list) /\ partition_list[i] = <<ch, partition_list[i][2]>>
    OBVIOUS
  <2>1. i \in 1 .. Len(partition_list) /\ partition_list[i][1] = ch
    BY DEF FoundOn
  <2>2. partition_list[i] \in (0 .. channel_cnt) \X Nat
    BY <1>1, <2>1
  <2>3. partition_list[i] = <<partition_list[i][1], partition_list[i][2]>>
    BY <2>2
  <2> QED BY <2>1, <2>3
<1>4. \A i, j \in A : F[i] = F[j] => i = j
  BY <1>3 DEF FoundOnce
<1> HIDE DEF A
<1>5. F \in Bijection(A, B)
  <2>1. F \in [A -> B] /\ \A v \in B : \E i \in A : F[i] = v
    OBVIOUS
  <2> HIDE DEF F, B
  <2> QED BY <1>4, <2>1 DEF Bijection, Injection, Surjection, IsInjective
<1>6. ExistsBijection(A, B)
  BY <1>5 DEF ExistsBijection
<1> HIDE DEF B
<1>7. Cardinality(A) = Cardinality(B)
  BY <1>2, <1>6, FS_Bijection
<1> QED BY <1>7 DEF A, B

(* partition_scan and ide_init: on disks of that kind with any number of   *)
(* tables, when ide_init is done partition_list has, behind the element at *)
(* address 0 with which it begins since nobody initialises it, every       *)
(* partition of every slave disk, once, at the sector where it starts.     *)
THEOREM EveryPartitionFound ==
    ASSUME FewPartitions, RegularDisks
    PROVE  ScanSpec => []AllPartitionsFound
<1>1. ScanInit => FoundIInv
  BY FoundBegins
<1>2. FoundIInv /\ [ScanNext]_partition_vars => FoundIInv'
  BY FoundKeeps
<1>3. FoundIInv => AllPartitionsFound
  <2> SUFFICES ASSUME FoundIInv, ide_init_done, NEW ch \in 0 .. channel_cnt - 1
               PROVE  LET found == {i \in DOMAIN partition_list : partition_list[i][1] = ch}
                      IN  /\ {partition_list[i][2] : i \in found} = Starts(ch)
                          /\ Cardinality(found) = Cardinality(Starts(ch))
    BY DEF AllPartitionsFound
  <2>1. ScanTypes /\ FoundOnce /\ DisksComplete /\ channel_no = channel_cnt
    BY DEF FoundIInv, ScanIInv, ide_init_done
  <2>2. {i \in DOMAIN partition_list : partition_list[i][1] = ch} = FoundOn(ch)
    BY <2>1 DEF ScanTypes, FoundOn
  <2>3. {partition_list[i][2] : i \in FoundOn(ch)} = Starts(ch)
    BY <2>1 DEF DisksComplete
  <2>4. Cardinality(FoundOn(ch)) = Cardinality(Starts(ch))
    BY <2>1, <2>3, FoundCount
  <2> QED BY <2>2, <2>3, <2>4
<1> QED BY <1>1, <1>2, <1>3, PTL DEF ScanSpec

-----------------------------------------------------------------------------
(* Induction, for statements that a set can express.                       *)
LEMMA LeastNat ==
    ASSUME NEW S \in SUBSET Nat, S # {}
    PROVE  \E m \in S : \A n \in S : m <= n
<1>1. IsWellFoundedOn(OpToRel(<, Nat), Nat)
  BY NatLessThanWellFounded
<1>2. PICK m \in S : \A n \in S : ~ (<<n, m>> \in OpToRel(<, Nat))
  BY <1>1, WFMin
<1>3. ASSUME NEW n \in S, n < m
      PROVE  FALSE
  <2>1. <<n, m>> \in OpToRel(<, Nat)
    BY <1>3, Zenon DEF OpToRel
  <2>2. QED
    BY <1>2, <2>1
<1>4. QED
  BY <1>3

(* The quotient by a base is smaller than the number.                      *)
LEMMA Quotient ==
    ASSUME NEW base \in Nat, base > 1, NEW v \in Nat
    PROVE  /\ v \div base \in Nat /\ v % base \in 0 .. base - 1
           /\ v = (v \div base) * base + (v % base)
           /\ v \div base <= v /\ (v \div base # 0 => v \div base < v)
<1>1. PICK p, q \in Nat : p = v \div base /\ q = v % base /\ q < base /\ v = base * p + q
  BY DivMod
<1>2. 2 * p <= base * p /\ base * p \in Nat /\ base * p = p * base
  BY <1>1
<1>3. p <= v /\ (p # 0 => p < v)
  BY <1>1, <1>2
<1>4. QED
  BY <1>1, <1>2, <1>3

(* The digits that itoa's recursion produces for the numbers of D.         *)
NumeralOf(f, base, v) ==
    (IF v \div base # 0 THEN f[v \div base] ELSE <<>>) \o <<digit_char(v % base)>>

IsDigits(f, base, D) == f = [v \in D |-> NumeralOf(f, base, v)]

LEMMA DigitsAt ==
    ASSUME NEW f, NEW base, NEW D, IsDigits(f, base, D), NEW v \in D
    PROVE  f[v] = NumeralOf(f, base, v)
<1> DEFINE g == [u \in D |-> NumeralOf(f, base, u)]
<1>1. f = g
  BY Zenon DEF IsDigits
<1>2. g[v] = NumeralOf(f, base, v)
  OBVIOUS
<1> HIDE DEF g
<1>3. QED
  BY <1>1, <1>2

(* Digits do not depend on how far the recursion is defined.               *)
LEMMA DigitsAgree ==
    ASSUME NEW base \in Nat, base > 1, NEW k \in Nat, NEW l \in Nat, NEW f, NEW g,
           IsDigits(f, base, 0 .. k), IsDigits(g, base, 0 .. l),
           NEW v \in Nat, v <= k, v <= l
    PROVE  f[v] = g[v]
<1> DEFINE S == {n \in Nat : n <= k /\ n <= l /\ f[n] # g[n]}
<1>1. ASSUME S # {}
      PROVE  FALSE
  <2>1. PICK m \in S : \A n \in S : m <= n
    BY <1>1, LeastNat
  <2>2. m \in Nat /\ m <= k /\ m <= l /\ f[m] # g[m]
    BY <2>1
  <2>3. m \div base # 0 => f[m \div base] = g[m \div base]
    <3>1. m \div base \in Nat /\ (m \div base # 0 => m \div base < m)
      BY <2>2, Quotient
    <3>2. QED
      BY <2>1, <2>2, <3>1
  <2>4. NumeralOf(f, base, m) = NumeralOf(g, base, m)
    BY <2>3, Zenon DEF NumeralOf
  <2>5. f[m] = NumeralOf(f, base, m) /\ g[m] = NumeralOf(g, base, m)
    BY <2>2, DigitsAt
  <2>6. QED
    BY <2>2, <2>4, <2>5
<1>2. QED
  BY <1>1

LEMMA DigitsUpTo ==
    ASSUME NEW base \in Nat, base > 1, NEW n \in Nat
    PROVE  \E f : IsDigits(f, base, 0 .. n)
<1> DEFINE S == {k \in Nat : ~ \E f : IsDigits(f, base, 0 .. k)}
<1>1. ASSUME S # {}
      PROVE  FALSE
  <2>1. PICK m \in S : \A k \in S : m <= k
    BY <1>1, LeastNat
  <2>2. m \in Nat /\ ~ \E f : IsDigits(f, base, 0 .. m)
    BY <2>1
  <2>3. \E g : m > 0 => IsDigits(g, base, 0 .. m - 1)
    <3>1. CASE m = 0
      BY <3>1
    <3>2. CASE m > 0
      <4>1. m - 1 \in Nat /\ m - 1 \notin S
        BY <2>1, <2>2, <3>2
      <4>2. QED
        BY <4>1
    <3>3. QED
      BY <2>2, <3>1, <3>2
  <2>4. PICK g : m > 0 => IsDigits(g, base, 0 .. m - 1)
    BY <2>3
  <2> DEFINE f == [v \in 0 .. m |-> NumeralOf(g, base, v)]
  <2>5. ASSUME NEW v \in 0 .. m
        PROVE  NumeralOf(g, base, v) = NumeralOf(f, base, v)
    <3> DEFINE u == v \div base
    <3>1. u \in Nat /\ (u # 0 => u < v)
      BY Quotient
    <3>2. CASE u # 0
      <4>1. m > 0 /\ u \in 0 .. m - 1 /\ u \in 0 .. m
        BY <2>2, <3>1, <3>2
      <4>2. g[u] = NumeralOf(g, base, u)
        BY <2>4, <4>1, DigitsAt
      <4>3. f[u] = NumeralOf(g, base, u)
        BY <4>1
      <4> HIDE DEF f
      <4>4. QED
        BY <4>2, <4>3 DEF NumeralOf
    <3>3. CASE u = 0
      BY <3>3 DEF NumeralOf
    <3>4. QED
      BY <3>2, <3>3
  <2>6. IsDigits(f, base, 0 .. m)
    <3>1. f = [v \in 0 .. m |-> NumeralOf(f, base, v)]
      BY <2>5
    <3> HIDE DEF f
    <3>2. QED
      BY <3>1, Zenon DEF IsDigits
  <2>7. QED
    BY <2>2, <2>6
<1>2. QED
  BY <1>1

(* itoa's recursion is defined for every number.                           *)
LEMMA DigitsExist ==
    ASSUME NEW base \in Nat, base > 1
    PROVE  \E f : IsDigits(f, base, Nat)
<1> DEFINE G(n) == CHOOSE g : IsDigits(g, base, 0 .. n)
           f == [n \in Nat |-> G(n)[n]]
<1>1. \A n \in Nat : IsDigits(G(n), base, 0 .. n)
  BY DigitsUpTo, Zenon
<1> HIDE DEF G
<1>2. ASSUME NEW v \in Nat
      PROVE  f[v] = NumeralOf(f, base, v)
  <2> DEFINE u == v \div base
  <2>1. u \in Nat /\ u <= v
    BY Quotient
  <2>2. f[v] = NumeralOf(G(v), base, v)
    <3>1. v \in 0 .. v
      OBVIOUS
    <3>2. QED
      BY <1>1, <3>1, DigitsAt
  <2>3. G(v)[u] = f[u]
    <3>1. IsDigits(G(u), base, 0 .. u) /\ IsDigits(G(v), base, 0 .. v)
      BY <1>1, <2>1
    <3>2. G(v)[u] = G(u)[u]
      BY <2>1, <3>1, DigitsAgree
    <3>3. QED
      BY <2>1, <3>2
  <2> HIDE DEF f
  <2>4. QED
    BY <2>2, <2>3 DEF NumeralOf
<1>3. f = [v \in Nat |-> NumeralOf(f, base, v)]
  BY <1>2, Zenon
<1> HIDE DEF f
<1>4. QED
  BY <1>3, Zenon DEF IsDigits

(* itoa, one digit at a time.                                              *)
LEMMA ItoaIs ==
    ASSUME NEW base \in Nat, base > 1, NEW v \in Nat
    PROVE  itoa(v, base) = (IF v \div base # 0 THEN itoa(v \div base, base) ELSE <<>>)
                           \o <<digit_char(v % base)>>
<1> DEFINE f == CHOOSE g : IsDigits(g, base, Nat)
<1>1. IsDigits(f, base, Nat)
  BY DigitsExist, Zenon
<1>2. \A n : itoa(n, base) = f[n]
  BY Zenon DEF itoa, IsDigits, NumeralOf
<1> HIDE DEF f
<1>3. f[v] = NumeralOf(f, base, v)
  BY <1>1, DigitsAt
<1>4. f[v] = (IF v \div base # 0 THEN f[v \div base] ELSE <<>>) \o <<digit_char(v % base)>>
  BY <1>3, Zenon DEF NumeralOf
<1>5. itoa(v, base) = f[v] /\ itoa(v \div base, base) = f[v \div base]
  BY <1>2, Zenon
<1>6. QED
  BY <1>4, <1>5

(* The reference's sum of digits is defined for every text.                *)
IsValue(f, text, base, n) ==
    f = [k \in 0 .. n |-> IF k = 0 THEN 0 ELSE f[k - 1] * base + DigitValue(text[k])]

LEMMA ValueAt ==
    ASSUME NEW f, NEW text, NEW base, NEW n \in Nat, IsValue(f, text, base, n), NEW k \in 0 .. n
    PROVE  f[k] = IF k = 0 THEN 0 ELSE f[k - 1] * base + DigitValue(text[k])
<1> DEFINE g == [i \in 0 .. n |-> IF i = 0 THEN 0 ELSE f[i - 1] * base + DigitValue(text[i])]
<1>1. f = g
  BY Zenon DEF IsValue
<1>2. g[k] = IF k = 0 THEN 0 ELSE f[k - 1] * base + DigitValue(text[k])
  OBVIOUS
<1> HIDE DEF g
<1>3. QED
  BY <1>1, <1>2

LEMMA ValueExists ==
    ASSUME NEW text, NEW base, NEW n \in Nat
    PROVE  \E f : IsValue(f, text, base, n)
<1> DEFINE S == {k \in Nat : ~ \E f : IsValue(f, text, base, k)}
<1>1. ASSUME S # {}
      PROVE  FALSE
  <2>1. PICK m \in S : \A k \in S : m <= k
    BY <1>1, LeastNat
  <2>2. m \in Nat /\ ~ \E f : IsValue(f, text, base, m)
    BY <2>1
  <2>3. \E g : m > 0 => IsValue(g, text, base, m - 1)
    <3>1. CASE m = 0
      BY <3>1
    <3>2. CASE m > 0
      <4>1. m - 1 \in Nat /\ m - 1 \notin S
        BY <2>1, <2>2, <3>2
      <4>2. QED
        BY <4>1
    <3>3. QED
      BY <2>2, <3>1, <3>2
  <2>4. PICK g : m > 0 => IsValue(g, text, base, m - 1)
    BY <2>3
  <2> DEFINE Summed(h, k) == IF k = 0 THEN 0 ELSE h[k - 1] * base + DigitValue(text[k])
             f == [k \in 0 .. m |-> Summed(g, k)]
  <2>5. ASSUME NEW k \in 0 .. m
        PROVE  Summed(g, k) = Summed(f, k)
    <3>1. CASE k = 0
      BY <3>1
    <3>2. CASE k # 0
      <4>1. m > 0 /\ k - 1 \in 0 .. m - 1 /\ k - 1 \in 0 .. m /\ m - 1 \in Nat
        BY <2>2, <3>2
      <4>2. g[k - 1] = Summed(g, k - 1)
        BY <2>4, <4>1, ValueAt
      <4>3. f[k - 1] = Summed(g, k - 1)
        BY <4>1
      <4> HIDE DEF f
      <4>4. f[k - 1] = g[k - 1]
        BY <4>2, <4>3
      <4>5. QED
        BY <4>4
    <3>3. QED
      BY <3>1, <3>2
  <2>6. f = [k \in 0 .. m |-> Summed(f, k)]
    BY <2>5
  <2> HIDE DEF f
  <2>7. IsValue(f, text, base, m)
    BY <2>6, Zenon DEF IsValue
  <2>8. QED
    BY <2>2, <2>7
<1>2. QED
  BY <1>1

(* It is the value that ValueOf takes.                                     *)
LEMMA ValueOfIs ==
    ASSUME NEW text, NEW base, Len(text) \in Nat
    PROVE  \E f : IsValue(f, text, base, Len(text)) /\ ValueOf(text, base) = f[Len(text)]
<1> DEFINE f == CHOOSE g : IsValue(g, text, base, Len(text))
<1>1. IsValue(f, text, base, Len(text))
  BY ValueExists, Zenon
<1>2. ValueOf(text, base) = f[Len(text)]
  BY Zenon DEF ValueOf, IsValue
<1>3. QED
  BY <1>1, <1>2

LEMMA ValueOfNext ==
    ASSUME NEW base \in Nat, NEW text \in Seq(Nat), NEW d \in Nat
    PROVE  ValueOf(text \o <<d>>, base) = ValueOf(text, base) * base + DigitValue(d)
<1> DEFINE longer == text \o <<d>>
<1>1. /\ Len(text) \in Nat /\ Len(longer) = Len(text) + 1 /\ longer[Len(text) + 1] = d
      /\ \A k \in 1 .. Len(text) : longer[k] = text[k]
  OBVIOUS
<1> HIDE DEF longer
<1>2. PICK f : IsValue(f, text, base, Len(text)) /\ ValueOf(text, base) = f[Len(text)]
  BY <1>1, ValueOfIs
<1>3. PICK g : IsValue(g, longer, base, Len(longer)) /\ ValueOf(longer, base) = g[Len(longer)]
  BY <1>1, ValueOfIs
<1>4. f[Len(text)] = g[Len(text)]
  <2> DEFINE n == Len(text)
  <2>1. n \in Nat /\ n <= n + 1 /\ IsValue(f, text, base, n) /\ IsValue(g, longer, base, n + 1)
    BY <1>1, <1>2, <1>3
  <2> DEFINE S == {k \in Nat : k <= n /\ f[k] # g[k]}
  <2>2. ASSUME S # {}
        PROVE  FALSE
    <3>1. PICK m \in S : \A k \in S : m <= k
      BY <2>2, LeastNat
    <3>2. m \in Nat /\ m <= n /\ f[m] # g[m]
      BY <3>1
    <3>3. /\ f[m] = IF m = 0 THEN 0 ELSE f[m - 1] * base + DigitValue(text[m])
          /\ g[m] = IF m = 0 THEN 0 ELSE g[m - 1] * base + DigitValue(longer[m])
      <4> HIDE DEF n
      <4>1. m \in 0 .. n /\ m \in 0 .. n + 1 /\ n + 1 \in Nat
        BY <2>1, <3>2
      <4>2. QED
        BY <2>1, <4>1, ValueAt
    <3>4. CASE m = 0
      BY <3>2, <3>3, <3>4
    <3>5. CASE m # 0
      <4>1. f[m - 1] = g[m - 1]
        BY <3>1, <3>2, <3>5, <2>1
      <4>2. text[m] = longer[m]
        BY <1>1, <3>2, <3>5
      <4>3. QED
        BY <3>2, <3>3, <3>5, <4>1, <4>2
    <3>6. QED
      BY <3>4, <3>5
  <2>3. QED
    BY <2>1, <2>2
<1>5. g[Len(text) + 1] = g[Len(text)] * base + DigitValue(d)
  <2>1. Len(text) + 1 \in 0 .. Len(longer) /\ Len(text) + 1 # 0 /\ (Len(text) + 1) - 1 = Len(text)
        /\ Len(longer) \in Nat
    BY <1>1
  <2> DEFINE k == Len(text) + 1
  <2>2. g[k] = IF k = 0 THEN 0 ELSE g[k - 1] * base + DigitValue(longer[k])
    <3> HIDE DEF k
    <3>1. k \in 0 .. Len(longer) /\ Len(longer) \in Nat
      BY <2>1 DEF k
    <3>2. QED
      BY <1>3, <3>1, ValueAt
  <2>3. QED
    BY <1>1, <2>1, <2>2
<1>6. QED
  BY <1>1, <1>2, <1>3, <1>4, <1>5 DEF longer

LEMMA ValueOfEmpty == ASSUME NEW base PROVE ValueOf(<<>>, base) = 0
<1>1. Len(<<>>) = 0
  OBVIOUS
<1>2. PICK f : IsValue(f, <<>>, base, 0) /\ ValueOf(<<>>, base) = f[0]
  BY <1>1, ValueOfIs
<1>3. f[0] = 0
  BY <1>2, ValueAt
<1>4. QED
  BY <1>2, <1>3

(* A numeral of v without leading zeros.  For Reads alone the induction    *)
(* would not know that the quotient's first digit is not zero.             *)
NumeralFor(text, base, v) ==
    /\ text \in Seq(Nat) /\ text # <<>>
    /\ \A k \in DOMAIN text : text[k] \in 48 .. 57 \cup 65 .. 70 /\ DigitValue(text[k]) < base
    /\ IF v = 0 THEN Len(text) = 1 ELSE DigitValue(text[1]) # 0
    /\ ValueOf(text, base) = v

LEMMA DigitShows ==
    ASSUME NEW base \in 2 .. 16, NEW m \in 0 .. base - 1
    PROVE  /\ digit_char(m) \in Nat /\ digit_char(m) \in 48 .. 57 \cup 65 .. 70
           /\ DigitValue(digit_char(m)) = m
  BY DEF digit_char, DigitValue

LEMMA NextDigit ==
    ASSUME NEW base \in 2 .. 16, NEW m \in 0 .. base - 1, NEW p \in Nat \ {0}, NEW v \in Nat,
           v = p * base + m, NEW text, NumeralFor(text, base, p)
    PROVE  NumeralFor(text \o <<digit_char(m)>>, base, v)
<1> DEFINE longer == text \o <<digit_char(m)>>
<1>1. /\ text \in Seq(Nat) /\ text # <<>> /\ DigitValue(text[1]) # 0 /\ ValueOf(text, base) = p
      /\ \A k \in DOMAIN text :
           text[k] \in 48 .. 57 \cup 65 .. 70 /\ DigitValue(text[k]) < base
  BY DEF NumeralFor
<1>2. /\ digit_char(m) \in Nat /\ digit_char(m) \in 48 .. 57 \cup 65 .. 70
      /\ DigitValue(digit_char(m)) = m
  BY DigitShows
<1>3. base \in Nat /\ m < base
  OBVIOUS
<1>4. ValueOf(longer, base) = v
  BY <1>1, <1>2, <1>3, ValueOfNext
<1>5. p * base > 0
  BY <1>3
<1>6. v # 0
  BY <1>3, <1>5
<1>7. /\ longer \in Seq(Nat) /\ longer # <<>> /\ longer[1] = text[1]
      /\ DOMAIN longer = DOMAIN text \cup {Len(text) + 1}
      /\ longer[Len(text) + 1] = digit_char(m)
      /\ \A k \in DOMAIN text : longer[k] = text[k]
  BY <1>1, <1>2
<1> HIDE DEF longer
<1>8. \A k \in DOMAIN longer :
        longer[k] \in 48 .. 57 \cup 65 .. 70 /\ DigitValue(longer[k]) < base
  BY <1>1, <1>2, <1>3, <1>7
<1>9. NumeralFor(longer, base, v)
  BY <1>1, <1>4, <1>6, <1>7, <1>8 DEF NumeralFor
<1>10. QED
  BY <1>9 DEF longer

LEMMA OneDigit ==
    ASSUME NEW base \in 2 .. 16, NEW m \in 0 .. base - 1
    PROVE  NumeralFor(<<digit_char(m)>>, base, m)
<1> DEFINE text == <<digit_char(m)>>
<1>1. /\ digit_char(m) \in Nat /\ digit_char(m) \in 48 .. 57 \cup 65 .. 70
      /\ DigitValue(digit_char(m)) = m
  BY DigitShows
<1>2. base \in Nat /\ m \in Nat /\ m < base
  OBVIOUS
<1>3. /\ text \in Seq(Nat) /\ text # <<>> /\ Len(text) = 1 /\ DOMAIN text = {1}
      /\ text[1] = digit_char(m) /\ text = <<>> \o <<digit_char(m)>>
  BY <1>1
<1>4. ValueOf(text, base) = m
  <2>1. ValueOf(<<>> \o <<digit_char(m)>>, base) = ValueOf(<<>>, base) * base + DigitValue(digit_char(m))
    <3>1. <<>> \in Seq(Nat)
      OBVIOUS
    <3> DEFINE none == <<>>
    <3>2. none \in Seq(Nat)
      BY <3>1
    <3> HIDE DEF none
    <3>3. ValueOf(none \o <<digit_char(m)>>, base) = ValueOf(none, base) * base + DigitValue(digit_char(m))
      BY <1>1, <1>2, <3>2, ValueOfNext
    <3>4. QED
      BY <3>3, Zenon DEF none
  <2>2. ValueOf(<<>>, base) = 0
    BY ValueOfEmpty
  <2>3. QED
    BY <1>1, <1>2, <1>3, <2>1, <2>2
<1> HIDE DEF text
<1>5. NumeralFor(text, base, m)
  BY <1>1, <1>2, <1>3, <1>4 DEF NumeralFor
<1>6. QED
  BY <1>5 DEF text

LEMMA ItoaNumeral ==
    ASSUME NEW base \in 2 .. 16, NEW value \in Nat
    PROVE  NumeralFor(itoa(value, base), base, value)
<1> DEFINE S == {v \in Nat : ~NumeralFor(itoa(v, base), base, v)}
<1>1. ASSUME S # {}
      PROVE  FALSE
  <2>1. PICK v \in S : \A k \in S : v <= k
    BY <1>1, LeastNat
  <2>2. v \in Nat /\ ~NumeralFor(itoa(v, base), base, v)
    BY <2>1
  <2>3. base \in Nat /\ base > 1
    OBVIOUS
  <2>4. PICK p, m : p = v \div base /\ m = v % base
    OBVIOUS
  <2>5. /\ p \in Nat /\ m \in 0 .. base - 1 /\ v = p * base + m
        /\ p # 0 => p < v
    BY <2>2, <2>3, <2>4, Quotient
  <2>6. itoa(v, base) = (IF p # 0 THEN itoa(p, base) ELSE <<>>) \o <<digit_char(m)>>
    BY <2>2, <2>3, <2>4, ItoaIs
  <2>7. CASE p = 0
    <3>1. v = m /\ itoa(v, base) = <<digit_char(m)>>
      BY <2>3, <2>5, <2>6, <2>7
    <3>2. QED
      BY <2>2, <2>5, <3>1, OneDigit
  <2>8. CASE p # 0
    <3>1. NumeralFor(itoa(p, base), base, p)
      BY <2>1, <2>5, <2>8
    <3>2. itoa(v, base) = itoa(p, base) \o <<digit_char(m)>>
      BY <2>6, <2>8
    <3>3. QED
      BY <2>2, <2>5, <2>8, <3>1, <3>2, NextDigit
  <2>9. QED
    BY <2>7, <2>8
<1>2. QED
  BY <1>1

LEMMA ItoaReads ==
    ASSUME NEW base \in 2 .. 16, NEW value \in Nat
    PROVE  Reads(itoa(value, base), base, value) /\ itoa(value, base) \in Seq(Nat)
<1>1. NumeralFor(itoa(value, base), base, value)
  BY ItoaNumeral
<1>2. QED
  BY <1>1 DEF NumeralFor, Reads

(* Every number that printf and printk print, in any word and whatever     *)
(* its sign, is a numeral of it without leading zeros (stdio.c: itoa and   *)
(* the conversions of vsprintf): no digit is lost or doubled, 0 is "0",    *)
(* and the least negative number keeps its digits.                         *)
THEOREM NumbersReadBack ==
    ASSUME NEW ch \in {Letter.d, Letter.u, Letter.x}, NEW arg \in 0 .. WordSize - 1
    PROVE  Shows(conversion(ch, arg), ch, arg)
<1>1. arg \in Nat /\ WordSize \in Nat /\ WordSize > 1 /\ arg < WordSize
  BY WordAssumption
<1>2. /\ Letter.s = 115 /\ Letter.c = 99 /\ Letter.d = 100 /\ Letter.u = 117
      /\ Letter.x = 120 /\ Letter.o = 111
  BY DEF Letter
<1>3. CASE ch = Letter.d
  <2>1. conversion(ch, arg) = signed_text(arg)
    BY <1>2, <1>3 DEF conversion
  <2>2. CASE negative(arg)
    <3>1. arg # 0
      <4>1. WordSize \div 2 > 0
        BY <1>1
      <4>2. QED
        BY <1>1, <2>2, <4>1 DEF negative
    <3> DEFINE size == WordSize - arg
    <3>2. size \in Nat /\ (WordSize - arg) % WordSize = size
      BY <1>1, <3>1
    <3> HIDE DEF size
    <3>3. signed_text(arg) = <<Minus>> \o itoa(size, 10)
      BY <2>2, <3>2 DEF signed_text
    <3>4. Reads(itoa(size, 10), 10, size) /\ itoa(size, 10) \in Seq(Nat)
      BY <3>2, ItoaReads
    <3>5. ASSUME NEW text \in Seq(Nat)
          PROVE  LET t == <<Minus>> \o text
                 IN  t # <<>> /\ Head(t) = Minus /\ Tail(t) = text
      BY DEF Minus
    <3> DEFINE t == conversion(ch, arg)
    <3>6. t # <<>> /\ Head(t) = Minus /\ Tail(t) = itoa(size, 10)
      BY <2>1, <3>3, <3>4, <3>5
    <3> HIDE DEF t
    <3>7. Reads(Tail(t), 10, WordSize - arg)
      BY <3>4, <3>6 DEF size
    <3>8. Shows(t, ch, arg)
      BY <1>2, <1>3, <2>2, <3>6, <3>7 DEF Shows
    <3>9. QED
      BY <3>8 DEF t
  <2>3. CASE ~negative(arg)
    <3>1. conversion(ch, arg) = itoa(arg, 10)
      BY <2>1, <2>3 DEF signed_text
    <3>2. QED
      BY <1>1, <1>2, <1>3, <2>3, <3>1, ItoaReads DEF Shows
  <2>4. QED
    BY <2>2, <2>3
<1>4. CASE ch = Letter.u
  <2>1. conversion(ch, arg) = itoa(arg, 10)
    BY <1>2, <1>4 DEF conversion
  <2>2. QED
    BY <1>1, <1>2, <1>4, <2>1, ItoaReads DEF Shows
<1>5. CASE ch = Letter.x
  <2>1. conversion(ch, arg) = itoa(arg, 16)
    BY <1>2, <1>5 DEF conversion
  <2>2. QED
    BY <1>1, <1>2, <1>5, <2>1, ItoaReads DEF Shows
<1>6. QED
  BY <1>3, <1>4, <1>5
=============================================================================
