---------------------------- MODULE PagesProofs -----------------------------
(***************************************************************************)
(* Proofs about Bitmap and PageAlloc, for any number of processes, kernel  *)
(* threads, frames, pages and pages per table: until a scan of a bitmap is *)
(* acted on that is wrong, or a page table is linked at address 0, no      *)
(* frame has two owners and none is lost; user_pool.lock is released.      *)
(***************************************************************************)
EXTENDS PageAlloc, WellFoundedInduction, NaturalsInduction, TLAPS

(* Induction, for statements that a set can express.                       *)
LEMMA LeastNat ==
    ASSUME NEW S \in SUBSET Nat, S # {}
    PROVE  \E m \in S : \A n \in S : m <= n
<1>1. IsWellFoundedOn(OpToRel(<, Nat), Nat)
  BY NatLessThanWellFounded
<1>2. PICK m \in S : \A n \in S : ~ (<<n, m>> \in OpToRel(<, Nat))
  BY <1>1, WFMin
<1>3. ASSUME NEW n \in S, n < m
      PROVE  FALSE
  <2>1. <<n, m>> \in OpToRel(<, Nat)
    BY <1>3, Zenon DEF OpToRel
  <2>2. QED
    BY <1>2, <2>1
<1>4. QED
  BY <1>3

LEMMA MinOfNats ==
    ASSUME NEW S \in SUBSET Nat, S # {}
    PROVE  Min(S) \in S /\ \A n \in S : Min(S) <= n
  BY LeastNat, Zenon DEF Min

LEMMA Sizes ==
    /\ ByteBits \in Nat /\ ByteBits > 0
    /\ KernelBytes \in Nat /\ KernelBytes > 0 /\ UserBytes \in Nat /\ UserBytes > 0
    /\ VaddrBytes \in Nat /\ VaddrBytes > 0 /\ TablePages \in Nat /\ TablePages > 0
    /\ KernelReq \subseteq Nat /\ 0 \notin KernelReq
    /\ UserReq \subseteq Nat /\ 0 \notin UserReq
    /\ kernel \notin Procs /\ NULL \notin Procs /\ NULL \notin KThreads
  BY ByteBitsAssumption, PageAllocAssumption

(* Every bit lies in a byte.                                               *)
LEMMA ByteOfBit ==
    ASSUME NEW bytes \in Nat, NEW j \in Nat, j < bytes * ByteBits
    PROVE  \E b \in 0 .. bytes - 1 : j \in b * ByteBits .. b * ByteBits + ByteBits - 1
<1> DEFINE S == {b \in Nat : j < (b + 1) * ByteBits}
<1>1. bytes > 0
  BY Sizes
<1>2. bytes - 1 \in S
  BY <1>1, Sizes
<1>3. PICK m \in S : \A n \in S : m <= n
  BY <1>2, LeastNat
<1>4. m <= bytes - 1 /\ m \in Nat /\ j < (m + 1) * ByteBits
  BY <1>2, <1>3
<1>5. m * ByteBits <= j
  <2>1. CASE m = 0
    BY <2>1, Sizes
  <2>2. CASE m > 0
    <3>1. m - 1 \notin S /\ m - 1 \in Nat
      BY <1>3, <1>4, <2>2
    <3>2. ~(j < ((m - 1) + 1) * ByteBits)
      BY <3>1
    <3>3. (m - 1) + 1 = m
      BY <1>4
    <3>4. m * ByteBits \in Nat
      BY <1>4, Sizes
    <3>5. QED
      BY <3>2, <3>3, <3>4
  <2>3. QED
    BY <1>4, <2>1, <2>2
<1>6. (m + 1) * ByteBits = m * ByteBits + ByteBits /\ m * ByteBits \in Nat
  BY <1>4, Sizes
<1>7. j \in m * ByteBits .. m * ByteBits + ByteBits - 1
  BY <1>4, <1>5, <1>6, Sizes
<1>8. QED
  BY <1>1, <1>4, <1>7

(* bitmap_scan for one bit: the first clear one, or -1 if all are set.     *)
LEMMA ScanOne ==
    ASSUME NEW bits, NEW bytes \in Nat
    PROVE  LET i == bitmap_scan(bits, bytes, 1)
           IN  \/ i = -1 /\ 0 .. bytes * ByteBits - 1 \subseteq bits
               \/ /\ i \in 0 .. bytes * ByteBits - 1
                  /\ i \notin bits
                  /\ \A j \in 0 .. i - 1 : j \in bits
<1> DEFINE F == free_bytes(bits, bytes)
           B == Min(F)
           C == {i \in 0 .. ByteBits - 1 : B * ByteBits + i \notin bits}
<1>1. CASE F = {}
  <2>1. bitmap_scan(bits, bytes, 1) = -1
    BY <1>1, Zenon DEF bitmap_scan
  <2>2. ASSUME NEW j \in 0 .. bytes * ByteBits - 1
        PROVE  j \in bits
    <3>1. PICK b \in 0 .. bytes - 1 : j \in b * ByteBits .. b * ByteBits + ByteBits - 1
      <4>1. bytes * ByteBits \in Nat
        BY Sizes
      <4>2. j \in Nat /\ j < bytes * ByteBits
        BY <4>1
      <4>3. QED
        BY <4>2, ByteOfBit
    <3>2. byte_full(bits, b)
      BY <1>1, <3>1 DEF free_bytes
    <3>3. QED
      BY <3>1, <3>2 DEF byte_full
  <2>3. QED
    BY <2>1, <2>2
<1>2. CASE F # {}
  <2>1. B \in F /\ \A b \in F : B <= b
    <3>1. F \in SUBSET Nat
      BY DEF free_bytes
    <3>2. QED
      BY <1>2, <3>1, MinOfNats
  <2>2. B \in 0 .. bytes - 1 /\ ~byte_full(bits, B)
    BY <2>1 DEF free_bytes
  <2>3. B * ByteBits \in Nat
    BY <2>2, Sizes
  <2>4. C # {} /\ C \in SUBSET Nat
    <3>1. PICK i \in B * ByteBits .. B * ByteBits + ByteBits - 1 : i \notin bits
      BY <2>2 DEF byte_full
    <3> HIDE DEF B
    <3>2. i - B * ByteBits \in 0 .. ByteBits - 1 /\ B * ByteBits + (i - B * ByteBits) = i
      BY <2>3, <3>1, Sizes
    <3>3. QED
      BY <3>1, <3>2, Sizes
  <2>5. Min(C) \in C /\ \A i \in C : Min(C) <= i
    BY <2>4, MinOfNats
  <2>6. bitmap_scan(bits, bytes, 1) = B * ByteBits + Min(C)
    BY <1>2, Zenon DEF bitmap_scan
  <2>7. /\ B * ByteBits + Min(C) \notin bits
        /\ Min(C) \in 0 .. ByteBits - 1
    BY <2>5
  <2>8. B * ByteBits + Min(C) \in 0 .. bytes * ByteBits - 1
    <3> DEFINE c == Min(C)
    <3>1. c \in 0 .. ByteBits - 1 /\ B \in 0 .. bytes - 1
      BY <2>2, <2>7
    <3> HIDE DEF B, c
    <3>2. (B + 1) * ByteBits <= bytes * ByteBits
      BY <3>1, Sizes
    <3>3. (B + 1) * ByteBits = B * ByteBits + ByteBits
      BY <3>1, Sizes
    <3>4. B * ByteBits + c \in 0 .. bytes * ByteBits - 1
      BY <2>3, <3>1, <3>2, <3>3, Sizes
    <3>5. QED
      BY <3>4 DEF c
  <2>9. ASSUME NEW j \in Nat, j < B * ByteBits + Min(C)
        PROVE  j \in bits
    <3> DEFINE c == Min(C)
    <3>1. c \in Nat /\ B \in Nat /\ j \in Nat /\ j < B * ByteBits + c
      BY <2>2, <2>3, <2>7, <2>9
    <3>2. CASE j < B * ByteBits
      <4>1. PICK b \in 0 .. B - 1 : j \in b * ByteBits .. b * ByteBits + ByteBits - 1
        BY <3>1, <3>2, ByteOfBit
      <4>2. b \notin F /\ b \in 0 .. bytes - 1
        BY <2>1, <2>2, <4>1
      <4>3. byte_full(bits, b)
        BY <4>2 DEF free_bytes
      <4>4. QED
        BY <4>1, <4>3 DEF byte_full
    <3>3. CASE ~(j < B * ByteBits)
      <4> DEFINE k == j - B * ByteBits
      <4>1. k \notin C
        <5>1. k < c /\ k \in Int
          BY <2>3, <3>1
        <5>2. QED
          BY <2>5, <5>1, <3>1
      <4>2. k \in 0 .. ByteBits - 1 /\ B * ByteBits + k = j
        BY <2>3, <2>7, <3>1, <3>3, Sizes
      <4>3. QED
        BY <4>1, <4>2
    <3>4. QED
      BY <3>2, <3>3
  <2> HIDE DEF B, C
  <2>10. PICK i : i = B * ByteBits + Min(C)
    OBVIOUS
  <2>11. i \in 0 .. bytes * ByteBits - 1 /\ i \notin bits /\ bitmap_scan(bits, bytes, 1) = i
    BY <2>6, <2>7, <2>8, <2>10
  <2>12. \A j \in Nat : j < i => j \in bits
    BY <2>9, <2>10
  <2>13. \A j \in 0 .. i - 1 : j \in bits
    BY <2>11, <2>12
  <2>14. QED
    BY <2>11, <2>13, Zenon
<1>3. QED
  BY <1>1, <1>2

-----------------------------------------------------------------------------
(* The second loop of bitmap_scan: the count of clear bits is defined for  *)
(* every bit, and does not exceed the bits looked at.                      *)
IsRun(f, bits, start, last) ==
    f = [n \in start .. last |-> IF n = start THEN 1
                                 ELSE IF bitmap_scan_test(bits, n) THEN 0
                                 ELSE f[n - 1] + 1]

LEMMA RunExists ==
    ASSUME NEW bits, NEW start \in Nat, NEW last \in Nat, start <= last
    PROVE  IsRun(clear_run(bits, start, last), bits, start, last)
<1> DEFINE S == {k \in Nat : ~ \E f : IsRun(f, bits, start, start + k)}
<1>1. ASSUME S # {}
      PROVE  FALSE
  <2>1. PICK m \in S : \A n \in S : m <= n
    BY <1>1, LeastNat
  <2>2. m \in Nat /\ ~ \E f : IsRun(f, bits, start, start + m)
    BY <2>1
  <2>3. CASE m = 0
    <3>1. IsRun([n \in start .. start |-> 1], bits, start, start)
      BY DEF IsRun
    <3>2. start + m = start
      BY <2>3
    <3>3. QED
      BY <2>2, <3>1, <3>2
  <2>4. CASE m > 0
    <3>1. m - 1 \in Nat /\ m - 1 \notin S
      BY <2>1, <2>2, <2>4
    <3>2. PICK g : IsRun(g, bits, start, start + (m - 1))
      BY <3>1
    <3> DEFINE l == start + m
               x == IF bitmap_scan_test(bits, l) THEN 0 ELSE g[l - 1] + 1
               f == [n \in start .. l |-> IF n = l THEN x ELSE g[n]]
    <3>3. l \in Nat /\ start < l /\ start + (m - 1) = l - 1
      BY <2>2, <2>4
    <3>4. g = [n \in start .. l - 1 |-> IF n = start THEN 1
                                       ELSE IF bitmap_scan_test(bits, n) THEN 0
                                       ELSE g[n - 1] + 1]
      BY <3>2, <3>3 DEF IsRun
    <3> HIDE DEF l
    <3>5. ASSUME NEW n \in start .. l
          PROVE  f[n] = IF n = start THEN 1
                        ELSE IF bitmap_scan_test(bits, n) THEN 0
                        ELSE f[n - 1] + 1
      <4>1. CASE n = l
        <5>1. f[n] = x /\ n # start /\ n - 1 # l /\ n - 1 \in start .. l
          BY <3>3, <4>1
        <5>2. f[n - 1] = g[n - 1]
          BY <5>1
        <5>3. QED
          BY <4>1, <5>1, <5>2
      <4>2. CASE n # l
        <5>1. n \in start .. l - 1 /\ f[n] = g[n]
          BY <3>3, <4>2
        <5>2. n # start => n - 1 \in start .. l /\ n - 1 # l
          BY <3>3, <5>1
        <5>3. n # start => f[n - 1] = g[n - 1]
          BY <5>2
        <5>4. g[n] = IF n = start THEN 1
                     ELSE IF bitmap_scan_test(bits, n) THEN 0
                     ELSE g[n - 1] + 1
          BY <3>4, <5>1, Zenon
        <5>5. QED
          BY <5>1, <5>3, <5>4
      <4>3. QED
        BY <4>1, <4>2
    <3>6. f = [n \in start .. l |-> f[n]]
      OBVIOUS
    <3> HIDE DEF f
    <3>7. f = [n \in start .. l |-> IF n = start THEN 1
                                   ELSE IF bitmap_scan_test(bits, n) THEN 0
                                   ELSE f[n - 1] + 1]
      BY <3>5, <3>6, Zenon
    <3>8. IsRun(f, bits, start, l)
      BY <3>7, Zenon DEF IsRun
    <3>9. QED
      BY <2>2, <3>8 DEF l
  <2>5. QED
    BY <2>2, <2>3, <2>4
<1>2. last - start \in Nat /\ last - start \notin S
  <2> HIDE DEF S
  <2>1. last - start \in Nat
    OBVIOUS
  <2>2. QED
    BY <1>1, <2>1
<1>3. \E f : IsRun(f, bits, start, last)
  <2>1. start + (last - start) = last
    OBVIOUS
  <2>2. QED
    BY <1>2, <2>1
<1>4. QED
  BY <1>3, Zenon DEF IsRun, clear_run

LEMMA CountAt ==
    ASSUME NEW bits, NEW start \in Nat, NEW last \in Nat, NEW n \in start .. last
    PROVE  LET f == clear_run(bits, start, last)
           IN  f[n] = IF n = start THEN 1
                      ELSE IF bitmap_scan_test(bits, n) THEN 0
                      ELSE f[n - 1] + 1
<1> DEFINE f == clear_run(bits, start, last)
<1>1. IsRun(f, bits, start, last)
  BY RunExists
<1> HIDE DEF f
<1>2. f[n] = IF n = start THEN 1
             ELSE IF bitmap_scan_test(bits, n) THEN 0
             ELSE f[n - 1] + 1
  BY <1>1, Zenon DEF IsRun
<1>3. QED
  BY <1>2 DEF f

LEMMA RunBounded ==
    ASSUME NEW bits, NEW start \in Nat, NEW last \in Nat, NEW n \in start .. last
    PROVE  /\ clear_run(bits, start, last)[n] \in Nat
           /\ clear_run(bits, start, last)[n] <= n - start + 1
<1> DEFINE f == clear_run(bits, start, last)
           S == {k \in Nat : /\ start + k <= last
                             /\ ~(f[start + k] \in Nat /\ f[start + k] <= k + 1)}
<1>1. ASSUME NEW i \in start .. last
      PROVE  f[i] = IF i = start THEN 1
                    ELSE IF bitmap_scan_test(bits, i) THEN 0
                    ELSE f[i - 1] + 1
  BY CountAt
<1> HIDE DEF f
<1>2. ASSUME S # {}
      PROVE  FALSE
  <2>1. PICK m \in S : \A k \in S : m <= k
    BY <1>2, LeastNat
  <2>2. /\ m \in Nat /\ start + m \in start .. last
        /\ ~(f[start + m] \in Nat /\ f[start + m] <= m + 1)
    BY <2>1
  <2>3. CASE m = 0
    BY <1>1, <2>2, <2>3
  <2>4. CASE m > 0
    <3>1. m - 1 \in Nat /\ m - 1 \notin S /\ start + (m - 1) <= last
      BY <2>1, <2>2, <2>4
    <3>2. f[start + (m - 1)] \in Nat /\ f[start + (m - 1)] <= (m - 1) + 1
      BY <3>1
    <3>3. (start + m) - 1 = start + (m - 1) /\ start + m # start
      BY <2>2, <2>4
    <3>4. f[start + m] = 0 \/ f[start + m] = f[start + (m - 1)] + 1
      BY <1>1, <2>2, <3>3
    <3>5. QED
      BY <2>2, <3>2, <3>4
  <2>5. QED
    BY <2>2, <2>3, <2>4
<1>3. n - start \in Nat /\ n - start \notin S /\ start + (n - start) = n
  <2> HIDE DEF S
  <2>1. n - start \in Nat /\ start + (n - start) = n
    OBVIOUS
  <2>2. QED
    BY <1>2, <2>1
<1>4. f[n] \in Nat /\ f[n] <= (n - start) + 1
  BY <1>3
<1>5. QED
  BY <1>4 DEF f

(* The count is the length of the clear run that ends there, which begins  *)
(* at the first clear bit or behind a set one.                             *)
LEMMA RunCounts ==
    ASSUME NEW bits, NEW start \in Nat, NEW last \in Nat, NEW n \in start .. last,
           start \notin bits
    PROVE  LET c == clear_run(bits, start, last)[n]
           IN  /\ \A j \in n - c + 1 .. n : j \notin bits
               /\ n - c = start - 1 \/ n - c \in bits
<1> DEFINE f == clear_run(bits, start, last)
           Clear(i) == \A j \in i - f[i] + 1 .. i : j \notin bits
           Maximal(i) == i - f[i] = start - 1 \/ i - f[i] \in bits
           S == {k \in Nat : start + k <= last /\ ~(Clear(start + k) /\ Maximal(start + k))}
<1>1. ASSUME NEW i \in start .. last
      PROVE  /\ f[i] \in Nat
             /\ f[i] = IF i = start THEN 1
                       ELSE IF i \in bits THEN 0
                       ELSE f[i - 1] + 1
  BY CountAt, RunBounded DEF bitmap_scan_test
<1> HIDE DEF f
<1>2. ASSUME S # {}
      PROVE  FALSE
  <2>1. PICK m \in S : \A k \in S : m <= k
    BY <1>2, LeastNat
  <2> DEFINE i == start + m
  <2>2. m \in Nat /\ i \in start .. last /\ ~(Clear(i) /\ Maximal(i))
    BY <2>1
  <2>3. CASE m = 0
    <3>1. i = start /\ f[i] = 1
      BY <1>1, <2>2, <2>3
    <3>2. QED
      BY <2>2, <3>1
  <2>4. CASE m > 0
    <3>1. m - 1 \in Nat /\ m - 1 \notin S /\ start + (m - 1) <= last /\ start + (m - 1) = i - 1
      BY <2>1, <2>2, <2>4
    <3>2. Clear(i - 1) /\ Maximal(i - 1)
      BY <3>1
    <3>3. i \in Nat /\ i # start /\ i - 1 \in start .. last
      BY <2>2, <2>4
    <3> HIDE DEF i
    <3>4. f[i - 1] \in Nat
      BY <1>1, <3>3
    <3>5. CASE i \in bits
      <4>1. f[i] = 0
        BY <1>1, <2>2, <3>3, <3>5
      <4>2. QED
        BY <2>2, <3>3, <3>5, <4>1
    <3>6. CASE i \notin bits
      <4>1. f[i] = f[i - 1] + 1
        BY <1>1, <2>2, <3>3, <3>6
      <4>2. i - f[i] = (i - 1) - f[i - 1]
        BY <3>3, <3>4, <4>1
      <4>3. Maximal(i)
        BY <3>2, <4>2
      <4>4. ASSUME NEW j \in i - f[i] + 1 .. i
            PROVE  j \notin bits
        <5>1. j = i \/ j \in (i - 1) - f[i - 1] + 1 .. i - 1
          BY <3>3, <3>4, <4>2
        <5>2. QED
          BY <3>2, <3>6, <5>1
      <4>5. QED
        BY <2>2, <4>3, <4>4
    <3>7. QED
      BY <3>5, <3>6
  <2>5. QED
    BY <2>2, <2>3, <2>4
<1>3. n - start \in Nat /\ n - start \notin S /\ start + (n - start) = n
  <2> HIDE DEF S
  <2>1. n - start \in Nat /\ start + (n - start) = n
    OBVIOUS
  <2>2. QED
    BY <1>2, <2>1
<1>4. Clear(n) /\ Maximal(n)
  BY <1>3
<1>5. QED
  BY <1>4 DEF f

(* bitmap_scan in its two loops: the first clear bit, then a run from it.  *)
LEMMA ScanCases ==
    ASSUME NEW bits, NEW bytes \in Nat, NEW cnt \in Nat, cnt > 0
    PROVE  LET start == bitmap_scan(bits, bytes, 1)
           IN  bitmap_scan(bits, bytes, cnt) =
                 IF cnt = 1 \/ start = -1 THEN start
                 ELSE scan_run(bits, bytes * ByteBits, cnt, start)
<1> DEFINE start == bitmap_scan(bits, bytes, 1)
<1>1. CASE free_bytes(bits, bytes) = {}
  <2>1. bitmap_scan(bits, bytes, cnt) = -1 /\ start = -1
    BY <1>1, Zenon DEF bitmap_scan
  <2>2. QED
    BY <2>1
<1>2. CASE free_bytes(bits, bytes) # {}
  <2> DEFINE x == Min(free_bytes(bits, bytes)) * ByteBits
                  + Min({i \in 0 .. ByteBits - 1 :
                           Min(free_bytes(bits, bytes)) * ByteBits + i \notin bits})
  <2>1. start = x
    BY <1>2, Zenon DEF bitmap_scan
  <2>2. start # -1
    <3>1. PICK b \in 0 .. bytes - 1 : ~byte_full(bits, b)
      BY <1>2 DEF free_bytes
    <3>2. PICK i \in b * ByteBits .. b * ByteBits + ByteBits - 1 : i \notin bits
      BY <3>1 DEF byte_full
    <3>3. b * ByteBits \in Nat /\ (b + 1) * ByteBits <= bytes * ByteBits
          /\ (b + 1) * ByteBits = b * ByteBits + ByteBits
      BY <3>1, Sizes
    <3>4. i \in 0 .. bytes * ByteBits - 1
      BY <3>2, <3>3, Sizes
    <3>5. QED
      BY <3>2, <3>4, ScanOne
  <2>3. CASE cnt = 1
    BY <2>3
  <2>4. CASE cnt # 1
    <3>1. bitmap_scan(bits, bytes, cnt) = scan_run(bits, bytes * ByteBits, cnt, start)
      BY <1>2, <2>1, <2>4, Zenon DEF bitmap_scan
    <3>2. QED
      BY <2>2, <2>4, <3>1
  <2>5. QED
    BY <2>3, <2>4
<1>3. QED
  BY <1>1, <1>2

(* bitmap_scan for several bits: whatever it answers, it is -1 or an       *)
(* index.  (Whether the bits from there on are clear is not guaranteed.)   *)
LEMMA ScanMany ==
    ASSUME NEW bits, NEW bytes \in Nat, NEW cnt \in Nat, cnt > 0
    PROVE  bitmap_scan(bits, bytes, cnt) \in Nat \cup {-1}
<1> DEFINE start == bitmap_scan(bits, bytes, 1)
           len   == bytes * ByteBits
<1>1. len \in Nat
  BY Sizes
<1>2. start = -1 \/ start \in 0 .. len - 1
  BY ScanOne
<1>3. \/ bitmap_scan(bits, bytes, cnt) = start
      \/ bitmap_scan(bits, bytes, cnt) = scan_run(bits, len, cnt, start) /\ start # -1
  BY ScanCases
<1>4. CASE start # -1
  <2> HIDE DEF start, len
  <2>1. start \in Nat /\ start < len
    BY <1>1, <1>2, <1>4
  <2> DEFINE last  == start + (len - start)
             count == clear_run(bits, start, last)
             hits  == {n \in start + 1 .. last : count[n] = cnt}
  <2>2. last = len
    BY <1>1, <2>1
  <2>3. \A n \in start .. last : count[n] \in Nat /\ count[n] <= n - start + 1
    <3> HIDE DEF last
    <3>1. QED
      BY <1>1, <2>1, <2>2, RunBounded
  <2>4. scan_run(bits, len, cnt, start) = IF hits = {} THEN start ELSE Min(hits) - cnt + 1
    BY Zenon DEF scan_run
  <2> HIDE DEF last, count
  <2>5. CASE hits # {}
    <3>1. hits \in SUBSET Nat
      BY <1>1, <2>1, <2>2
    <3>2. Min(hits) \in hits
      BY <2>5, <3>1, MinOfNats
    <3>3. PICK n : n = Min(hits)
      OBVIOUS
    <3>4. n \in start + 1 .. last /\ count[n] = cnt
      BY <3>2, <3>3
    <3>5. n \in start .. last /\ n \in Nat
      BY <1>1, <2>1, <2>2, <3>4
    <3>6. cnt <= n - start + 1
      BY <2>3, <3>4, <3>5
    <3>7. n - cnt + 1 \in Nat
      BY <2>1, <3>5, <3>6
    <3>8. QED
      BY <1>3, <2>1, <2>4, <2>5, <3>3, <3>7
  <2>6. CASE hits = {}
    BY <1>3, <2>1, <2>4, <2>6
  <2>7. QED
    BY <2>5, <2>6
<1>5. CASE start = -1
  BY <1>3, <1>5
<1>6. QED
  BY <1>4, <1>5

(* bitmap_scan answers with the first run, in every bitmap and for every   *)
(* count: no shorter and no later one (bitmap.c: bitmap_scan); for one bit *)
(* it fails only when every bit is set.                                    *)
THEOREM ScanIsFirstFit ==
    ASSUME NEW bits, NEW bytes \in Nat, NEW cnt \in Nat, cnt > 0
    PROVE  ScanFindsFirstRun(bits, bytes, cnt) /\ ScanOneFailsWhenFull(bits, bytes)
<1> DEFINE len   == bytes * ByteBits
           start == bitmap_scan(bits, bytes, 1)
           found == bitmap_scan(bits, bytes, cnt)
           runs  == Runs(bits, len, cnt)
<1>1. len \in Nat
  BY Sizes
<1>2. \/ start = -1 /\ 0 .. len - 1 \subseteq bits
      \/ /\ start \in 0 .. len - 1 /\ start \notin bits
         /\ \A j \in 0 .. start - 1 : j \in bits
  BY ScanOne
<1>3. ScanOneFailsWhenFull(bits, bytes)
  <2>1. start = -1 <=> \A i \in 0 .. len - 1 : i \in bits
    BY <1>2
  <2>2. QED
    BY <2>1 DEF ScanOneFailsWhenFull
<1>4. found = IF cnt = 1 \/ start = -1 THEN start ELSE scan_run(bits, len, cnt, start)
  BY ScanCases
<1> HIDE DEF len, start, found
<1>5. ASSUME NEW r \in runs
      PROVE  /\ r \in Nat /\ r + cnt <= len /\ \A j \in r .. r + cnt - 1 : j \notin bits
             /\ start # -1 /\ start <= r
  <2>1. r \in Nat /\ r + cnt <= len /\ \A j \in r .. r + cnt - 1 : j \notin bits
    BY <1>1, <1>5 DEF Runs
  <2>2. r \notin bits /\ r \in 0 .. len - 1
    BY <1>1, <2>1
  <2>3. QED
    BY <1>2, <2>1, <2>2
<1>6. runs \in SUBSET Nat
  BY <1>5
<1>7. CASE start = -1
  <2>1. found = -1 /\ runs = {}
    BY <1>4, <1>5, <1>7
  <2>2. QED
    BY <1>3, <2>1 DEF ScanFindsFirstRun, found, len
<1>8. CASE start # -1 /\ cnt = 1
  <2>1. found = start /\ start \in 0 .. len - 1 /\ start \notin bits
    BY <1>2, <1>4, <1>8
  <2>2. start \in runs
    BY <1>1, <1>8, <2>1 DEF Runs
  <2>3. Min(runs) = start
    <3>1. Min(runs) \in runs /\ Min(runs) <= start
      BY <1>6, <2>2, MinOfNats
    <3>2. QED
      BY <1>5, <2>1, <3>1
  <2>4. QED
    BY <1>3, <2>1, <2>3 DEF ScanFindsFirstRun, found, len
<1>9. CASE start # -1 /\ cnt # 1
  <2> DEFINE last  == start + (len - start)
             count == clear_run(bits, start, last)
             hits  == {n \in start + 1 .. last : count[n] = cnt}
  <2>1. start \in Nat /\ start < len /\ start \notin bits /\ last = len
    BY <1>1, <1>2, <1>9
  <2>2. found = IF hits = {} THEN start ELSE Min(hits) - cnt + 1
    BY <1>4, <1>9, Zenon DEF scan_run
  <2>3. ASSUME NEW n \in start .. last
        PROVE  /\ count[n] \in Nat /\ count[n] <= n - start + 1
               /\ \A j \in n - count[n] + 1 .. n : j \notin bits
               /\ n - count[n] = start - 1 \/ n - count[n] \in bits
    <3> HIDE DEF last
    <3>1. last \in Nat
      BY <1>1, <2>1
    <3>2. QED
      BY <2>1, <3>1, RunBounded, RunCounts
  <2> HIDE DEF last, count
  <2>4. hits \in SUBSET Nat
    BY <1>1, <2>1
  <2>5. ASSUME NEW n \in hits
        PROVE  /\ n - cnt + 1 \in start .. n
               /\ \A j \in n - cnt + 1 .. n : j \notin bits
               /\ n < len => n - cnt + 1 \in runs
    <3>1. n \in start .. last /\ count[n] = cnt /\ n \in Nat
      BY <1>1, <2>1
    <3>2. n - cnt + 1 \in start .. n /\ \A j \in n - cnt + 1 .. n : j \notin bits
      BY <2>1, <2>3, <3>1
    <3>3. QED
      BY <1>1, <2>1, <3>1, <3>2 DEF Runs
  <2>6. found \notin bits
    <3>1. CASE hits = {}
      BY <2>1, <2>2, <3>1
    <3>2. CASE hits # {}
      <4>1. PICK n \in hits : found = n - cnt + 1
        BY <2>2, <2>4, <3>2, MinOfNats
      <4>2. QED
        BY <2>5, <4>1
    <3>3. QED
      BY <3>1, <3>2
  <2>7. ASSUME runs # {}
        PROVE  found = Min(runs)
    <3>1. PICK r \in runs : r = Min(runs) /\ \A i \in runs : r <= i
      BY <1>6, <2>7, MinOfNats
    <3> DEFINE n == r + cnt - 1
    <3>2. /\ r \in Nat /\ start <= r /\ r + cnt <= len
          /\ \A j \in r .. n : j \notin bits
      BY <1>5
    <3>3. n \in start + 1 .. last /\ n < len /\ n \in start .. last
      BY <1>1, <1>9, <2>1, <3>2
    <3>4. count[n] = cnt
      <4> DEFINE b == n - count[n]
      <4>1. b \in Int /\ start - 1 <= b /\ (b = start - 1 \/ b \in bits)
            /\ \A j \in b + 1 .. n : j \notin bits
        BY <2>1, <2>3, <3>2, <3>3
      <4>2. b < r
        BY <2>1, <3>2, <3>3, <4>1, <2>3
      <4>3. ASSUME b < r - 1
            PROVE  FALSE
        <5>1. r - 1 \in 0 .. len - cnt /\ start <= r - 1
          BY <1>1, <2>1, <3>2, <4>1, <4>3
        <5>2. \A j \in r - 1 .. (r - 1) + cnt - 1 : j \notin bits
          BY <3>2, <4>1, <4>3
        <5>3. r - 1 \in runs
          BY <5>1, <5>2 DEF Runs
        <5>4. QED
          BY <3>1, <3>2, <5>3
      <4>4. QED
        BY <2>3, <3>2, <3>3, <4>1, <4>2, <4>3
    <3>5. n \in hits
      BY <3>3, <3>4
    <3>6. PICK m \in hits : m = Min(hits) /\ m <= n
      BY <2>4, <3>5, MinOfNats
    <3>7. m - cnt + 1 \in runs /\ found = m - cnt + 1
      BY <1>1, <2>2, <2>4, <2>5, <3>2, <3>3, <3>5, <3>6
    <3>8. m - cnt + 1 = r
      BY <2>4, <3>1, <3>2, <3>6, <3>7
    <3>9. QED
      BY <3>1, <3>7, <3>8
  <2>8. QED
    BY <1>3, <2>6, <2>7 DEF ScanFindsFirstRun, found, len
<1>10. QED
  BY <1>7, <1>8, <1>9

(* palloc: the first clear frame, marked, or none because all are taken.   *)
LEMMA Palloc ==
    ASSUME NEW pool, NEW bytes \in Nat, pool \subseteq 0 .. bytes * ByteBits - 1
    PROVE  LET r == palloc(pool, bytes)
           IN  \/ r.idx = -1 /\ r.pool = pool /\ pool = 0 .. bytes * ByteBits - 1
               \/ /\ r.idx \in (0 .. bytes * ByteBits - 1) \ pool
                  /\ r.pool = pool \cup {r.idx}
                  /\ pool = {} => r.idx = 0
<1> DEFINE i == bitmap_scan(pool, bytes, 1)
           r == palloc(pool, bytes)
<1>1. r.idx = i /\ r.pool = IF i = -1 THEN pool ELSE pool \cup {i}
  BY DEF palloc, bitmap_set
<1>2. \/ i = -1 /\ 0 .. bytes * ByteBits - 1 \subseteq pool
      \/ /\ i \in 0 .. bytes * ByteBits - 1
         /\ i \notin pool
         /\ \A j \in 0 .. i - 1 : j \in pool
  BY ScanOne
<1> HIDE DEF i, r
<1>3. CASE i = -1
  <2>1. i \notin 0 .. bytes * ByteBits - 1
    BY <1>3
  <2>2. r.idx = -1 /\ r.pool = pool /\ pool = 0 .. bytes * ByteBits - 1
    BY <1>1, <1>2, <1>3, <2>1
  <2>3. QED
    BY <2>2, Zenon DEF r
<1>4. CASE i # -1
  <2>1. i \in (0 .. bytes * ByteBits - 1) \ pool
    BY <1>2, <1>4
  <2>2. pool = {} => i = 0
    <3> SUFFICES ASSUME pool = {} PROVE i = 0
      OBVIOUS
    <3>1. i \in Nat
      BY <2>1, Sizes
    <3>2. ~(i > 0)
      <4>1. i > 0 => 0 \in 0 .. i - 1
        BY <3>1
      <4>2. QED
        BY <1>2, <1>4, <4>1
    <3>3. QED
      BY <3>1, <3>2
  <2>3. /\ r.idx \in (0 .. bytes * ByteBits - 1) \ pool
        /\ r.pool = pool \cup {r.idx}
        /\ pool = {} => r.idx = 0
    BY <1>1, <1>4, <2>1, <2>2
  <2>4. QED
    BY <2>3, Zenon DEF r
<1>5. QED
  BY <1>3, <1>4


-----------------------------------------------------------------------------
LEMMA FrameCounts ==
    /\ KernelFrames \in Nat /\ KernelFrames = KernelBytes * ByteBits
    /\ UserFrames \in Nat /\ UserFrames > 0 /\ UserFrames = UserBytes * ByteBits
    /\ stack_page \in Nat
<1>1. KernelFrames \in Nat /\ KernelFrames = KernelBytes * ByteBits
  BY Sizes DEF KernelFrames
<1>2. UserFrames \in Nat /\ UserFrames > 0 /\ UserFrames = UserBytes * ByteBits
  BY Sizes DEF UserFrames
<1>3. VaddrBytes * ByteBits \in Nat /\ VaddrBytes * ByteBits > 0
  BY Sizes
<1>4. stack_page \in Nat
  BY <1>3 DEF stack_page
<1>5. QED
  BY <1>1, <1>2, <1>4

(* The bitmaps of the two pools, as sets of frames that the pools have.    *)
Pools(kp, up) ==
    kp \subseteq 0 .. KernelFrames - 1 /\ up \subseteq 0 .. UserFrames - 1

(* No frame of the pools is used for two things.  -1 is not one of them:   *)
(* it is the address 0, the page table of a process whose palloc failed.   *)
OneOwner(pt, pd) ==
    /\ \A sp, sq \in Spaces : \A v \in DOMAIN pt[sp], w \in DOMAIN pt[sq] :
          pt[sp][v] = pt[sq][w] => sp = sq /\ v = w
    /\ \A p, q \in Procs : \A i \in DOMAIN pd[p], j \in DOMAIN pd[q] :
          pd[p][i] = pd[q][j] /\ pd[p][i] # -1 => p = q /\ i = j
    /\ \A p \in Procs : \A i \in DOMAIN pd[p], v \in DOMAIN pt[kernel] :
          pd[p][i] # pt[kernel][v]

(* What is used has its bit set, in the pool it belongs to.                *)
Marked(kp, up, pt, pd) ==
    /\ \A v \in DOMAIN pt[kernel] : pt[kernel][v] \in kp
    /\ \A p \in Procs : \A v \in DOMAIN pt[p] :
          pt[p][v] \in Nat /\ pt[p][v] >= KernelFrames /\ pt[p][v] - KernelFrames \in up
    /\ \A p \in Procs : \A i \in DOMAIN pd[p] : pd[p][i] \in kp \cup {-1}

(* Every bit that is set belongs to something.                             *)
Taken(kp, up, pt, pd) ==
    /\ \A i \in kp : \/ \E v \in DOMAIN pt[kernel] : pt[kernel][v] = i
                     \/ \E p \in Procs : \E j \in DOMAIN pd[p] : pd[p][j] = i
    /\ \A i \in up : \E p \in Procs : \E v \in DOMAIN pt[p] : pt[p][v] = KernelFrames + i

Owned(kp, up, pt, pd) ==
    Pools(kp, up) /\ OneOwner(pt, pd) /\ Marked(kp, up, pt, pd) /\ Taken(kp, up, pt, pd)

(* Only the maps of the spaces and the tables of the processes matter.     *)
LEMMA OwnedSame ==
    ASSUME NEW kp, NEW up, NEW pt, NEW pd, NEW qt, NEW qd, Owned(kp, up, pt, pd),
           \A x \in Spaces : qt[x] = pt[x], \A p \in Procs : qd[p] = pd[p]
    PROVE  Owned(kp, up, qt, qd)
<1>1. kernel \in Spaces /\ \A p \in Procs : p \in Spaces
  BY DEF Spaces
<1>2. OneOwner(qt, qd)
  BY <1>1 DEF OneOwner, Owned
<1>3. Marked(kp, up, qt, qd)
  BY <1>1 DEF Marked, Owned
<1>4. Taken(kp, up, qt, qd)
  BY <1>1 DEF Taken, Owned
<1>5. QED
  BY <1>2, <1>3, <1>4 DEF Owned

LEMMA Put ==
    ASSUME NEW m, NEW x, NEW v
    PROVE  /\ DOMAIN put(m, x, v) = DOMAIN m \cup {x}
           /\ put(m, x, v)[x] = v
           /\ \A y \in DOMAIN m : y # x => put(m, x, v)[y] = m[y]
  BY DEF put

(* A page of the kernel gets a fresh frame of the kernel pool.             *)
LEMMA OwnKernelPage ==
    ASSUME NEW kp, NEW up, NEW pt, NEW pd, NEW qt, NEW i, NEW v,
           Owned(kp, up, pt, pd), i \in (0 .. KernelFrames - 1) \ kp,
           v \notin DOMAIN pt[kernel],
           qt[kernel] = put(pt[kernel], v, i),
           \A p \in Procs : qt[p] = pt[p]
    PROVE  Owned(kp \cup {i}, up, qt, pd)
<1>1. /\ DOMAIN qt[kernel] = DOMAIN pt[kernel] \cup {v}
      /\ qt[kernel][v] = i
      /\ \A y \in DOMAIN pt[kernel] : qt[kernel][y] = pt[kernel][y]
  BY DEF put
<1>2. Pools(kp, up) /\ OneOwner(pt, pd) /\ Marked(kp, up, pt, pd) /\ Taken(kp, up, pt, pd)
  BY DEF Owned
<1>3. i \in Nat /\ i < KernelFrames
  BY FrameCounts
<1>4. Pools(kp \cup {i}, up)
  BY <1>2 DEF Pools
<1>5. Marked(kp \cup {i}, up, qt, pd)
  BY <1>1, <1>2 DEF Marked
<1>6. Taken(kp \cup {i}, up, qt, pd)
  BY <1>1, <1>2 DEF Taken
<1>7. OneOwner(qt, pd)
  <2>1. ASSUME NEW sp \in Spaces, NEW sq \in Spaces,
               NEW a \in DOMAIN qt[sp], NEW w \in DOMAIN qt[sq], qt[sp][a] = qt[sq][w]
        PROVE  sp = sq /\ a = w
    <3>1. \A p \in Procs : \A y \in DOMAIN qt[p] : qt[p][y] # i
      BY <1>2, <1>3, FrameCounts DEF Marked
    <3>2. \A y \in DOMAIN pt[kernel] : qt[kernel][y] # i
      BY <1>1, <1>2 DEF Marked
    <3>3. CASE sp = kernel /\ a = v
      BY <1>1, <2>1, <3>1, <3>2, <3>3 DEF Spaces
    <3>4. CASE sq = kernel /\ w = v
      BY <1>1, <2>1, <3>1, <3>2, <3>4 DEF Spaces
    <3>5. CASE ~(sp = kernel /\ a = v) /\ ~(sq = kernel /\ w = v)
      <4>1. a \in DOMAIN pt[sp] /\ qt[sp][a] = pt[sp][a]
        BY <1>1, <3>5 DEF Spaces
      <4>2. w \in DOMAIN pt[sq] /\ qt[sq][w] = pt[sq][w]
        BY <1>1, <3>5 DEF Spaces
      <4>3. pt[sp][a] = pt[sq][w]
        BY <2>1, <4>1, <4>2
      <4>4. pt[sp][a] = pt[sq][w] => sp = sq /\ a = w
        BY <1>2, <4>1, <4>2 DEF OneOwner
      <4>5. QED
        BY <4>3, <4>4
    <3>6. QED
      BY <3>3, <3>4, <3>5
  <2>2. \A p \in Procs : \A j \in DOMAIN pd[p], y \in DOMAIN qt[kernel] :
          pd[p][j] # qt[kernel][y]
    <3>1. \A p \in Procs : \A j \in DOMAIN pd[p] : pd[p][j] # i
      BY <1>2, <1>3 DEF Marked
    <3>2. QED
      BY <1>1, <1>2, <3>1 DEF OneOwner
  <2>3. QED
    BY <1>2, <2>1, <2>2 DEF OneOwner
<1>8. QED
  BY <1>4, <1>5, <1>6, <1>7 DEF Owned

(* A page of a process gets a fresh frame of the user pool.                *)
LEMMA OwnUserPage ==
    ASSUME NEW kp, NEW up, NEW pt, NEW pd, NEW qt, NEW q \in Procs, NEW i, NEW v,
           Owned(kp, up, pt, pd), i \in (0 .. UserFrames - 1) \ up,
           v \notin DOMAIN pt[q],
           qt[q] = put(pt[q], v, KernelFrames + i),
           \A sp \in Spaces : sp # q => qt[sp] = pt[sp]
    PROVE  Owned(kp, up \cup {i}, qt, pd)
<1>1. /\ DOMAIN qt[q] = DOMAIN pt[q] \cup {v}
      /\ qt[q][v] = KernelFrames + i
      /\ \A y \in DOMAIN pt[q] : qt[q][y] = pt[q][y]
  BY DEF put
<1>2. Pools(kp, up) /\ OneOwner(pt, pd) /\ Marked(kp, up, pt, pd) /\ Taken(kp, up, pt, pd)
  BY DEF Owned
<1>3. i \in Nat /\ i < UserFrames
  BY FrameCounts
<1>4. qt[kernel] = pt[kernel] /\ \A p \in Procs : p # q => qt[p] = pt[p]
  BY Sizes DEF Spaces
<1>5. Pools(kp, up \cup {i})
  BY <1>2 DEF Pools
<1>6. Marked(kp, up \cup {i}, qt, pd)
  <2>1. ASSUME NEW p \in Procs, NEW y \in DOMAIN qt[p]
        PROVE  qt[p][y] \in Nat /\ qt[p][y] >= KernelFrames
               /\ qt[p][y] - KernelFrames \in up \cup {i}
    <3>1. CASE p = q /\ y = v
      BY <1>1, <1>3, <3>1, FrameCounts
    <3>2. CASE ~(p = q /\ y = v)
      <4>1. y \in DOMAIN pt[p] /\ qt[p][y] = pt[p][y]
        BY <1>1, <1>4, <3>2
      <4>2. QED
        BY <1>2, <4>1 DEF Marked
    <3>3. QED
      BY <3>1, <3>2
  <2>2. QED
    BY <1>2, <1>4, <2>1 DEF Marked
<1>7. Taken(kp, up \cup {i}, qt, pd)
  <2>1. ASSUME NEW j \in up \cup {i}
        PROVE  \E p \in Procs : \E y \in DOMAIN qt[p] : qt[p][y] = KernelFrames + j
    <3>1. CASE j = i
      BY <1>1, <3>1
    <3>2. CASE j \in up
      <4>1. PICK p \in Procs : \E y \in DOMAIN pt[p] : pt[p][y] = KernelFrames + j
        BY <1>2, <3>2 DEF Taken
      <4>2. QED
        BY <1>1, <1>4, <4>1
    <3>3. QED
      BY <3>1, <3>2
  <2>2. QED
    BY <1>2, <1>4, <2>1 DEF Taken
<1>8. OneOwner(qt, pd)
  <2>1. ASSUME NEW sp \in Spaces, NEW sq \in Spaces,
               NEW a \in DOMAIN qt[sp], NEW w \in DOMAIN qt[sq], qt[sp][a] = qt[sq][w]
        PROVE  sp = sq /\ a = w
    <3>1. \A y \in DOMAIN qt[kernel] : qt[kernel][y] # KernelFrames + i
      BY <1>2, <1>3, <1>4, FrameCounts DEF Marked, Pools
    <3>2. \A p \in Procs : \A y \in DOMAIN pt[p] : pt[p][y] # KernelFrames + i
      BY <1>2, <1>3, FrameCounts DEF Marked
    <3>3. \A x \in Spaces : \A y \in DOMAIN qt[x] : qt[x][y] = KernelFrames + i => x = q /\ y = v
      BY <1>1, <1>4, <3>1, <3>2 DEF Spaces
    <3>4. CASE qt[sp][a] = KernelFrames + i
      BY <2>1, <3>3, <3>4
    <3>5. CASE qt[sp][a] # KernelFrames + i
      <4>1. a \in DOMAIN pt[sp] /\ qt[sp][a] = pt[sp][a]
        BY <1>1, <3>5
      <4>2. w \in DOMAIN pt[sq] /\ qt[sq][w] = pt[sq][w]
        BY <1>1, <2>1, <3>5
      <4>3. pt[sp][a] = pt[sq][w]
        BY <2>1, <4>1, <4>2
      <4>4. pt[sp][a] = pt[sq][w] => sp = sq /\ a = w
        BY <1>2, <4>1, <4>2 DEF OneOwner
      <4>5. QED
        BY <4>3, <4>4
    <3>6. QED
      BY <3>4, <3>5
  <2>2. QED
    BY <1>2, <1>4, <2>1 DEF OneOwner
<1>9. QED
  BY <1>5, <1>6, <1>7, <1>8 DEF Owned

(* A process gets a page table: a fresh frame of the kernel pool, or -1.   *)
TableFrame(kp, kq, i) ==
    \/ i = -1 /\ kq = kp
    \/ i \in (0 .. KernelFrames - 1) \ kp /\ kq = kp \cup {i}

LEMMA OwnTable ==
    ASSUME NEW kp, NEW up, NEW pt, NEW pd, NEW qd, NEW q \in Procs, NEW i, NEW n, NEW kq,
           Owned(kp, up, pt, pd), n \notin DOMAIN pd[q],
           TableFrame(kp, kq, i),
           qd[q] = put(pd[q], n, i),
           \A p \in Procs : p # q => qd[p] = pd[p]
    PROVE  Owned(kq, up, pt, qd)
<1>1. /\ DOMAIN qd[q] = DOMAIN pd[q] \cup {n}
      /\ qd[q][n] = i
      /\ \A y \in DOMAIN pd[q] : qd[q][y] = pd[q][y]
  BY DEF put
<1>2. Pools(kp, up) /\ OneOwner(pt, pd) /\ Marked(kp, up, pt, pd) /\ Taken(kp, up, pt, pd)
  BY DEF Owned
<1>3. i # -1 => i \in Nat /\ i \notin kp /\ i < KernelFrames
  BY FrameCounts DEF TableFrame
<1>4. kp \subseteq kq /\ kq \subseteq kp \cup {i} /\ i \in kq \cup {-1}
  BY DEF TableFrame
<1>5. Pools(kq, up)
  BY <1>2 DEF Pools, TableFrame
<1>6. Marked(kq, up, pt, qd)
  <2>1. ASSUME NEW p \in Procs, NEW j \in DOMAIN qd[p]
        PROVE  qd[p][j] \in kq \cup {-1}
    BY <1>1, <1>2, <1>4 DEF Marked
  <2>2. QED
    BY <1>2, <1>4, <2>1 DEF Marked
<1>7. Taken(kq, up, pt, qd)
  <2>1. -1 \notin kq
    BY <1>5 DEF Pools
  <2>2. ASSUME NEW j \in kq
        PROVE  \/ \E v \in DOMAIN pt[kernel] : pt[kernel][v] = j
               \/ \E p \in Procs : \E x \in DOMAIN qd[p] : qd[p][x] = j
    <3>1. CASE j = i
      BY <1>1, <3>1
    <3>2. CASE j \in kp
      BY <1>1, <1>2, <3>2 DEF Taken
    <3>3. QED
      BY <1>4, <3>1, <3>2
  <2>3. QED
    BY <1>2, <2>2 DEF Taken
<1>8. OneOwner(pt, qd)
  <2>1. \A p \in Procs : \A j \in DOMAIN pd[p] : pd[p][j] = i => i = -1
    BY <1>2, <1>3 DEF Marked
  <2>2. ASSUME NEW p \in Procs, NEW r \in Procs, NEW a \in DOMAIN qd[p], NEW b \in DOMAIN qd[r],
               qd[p][a] = qd[r][b], qd[p][a] # -1
        PROVE  p = r /\ a = b
    <3>1. \A x \in Procs : \A y \in DOMAIN qd[x] : qd[x][y] = i /\ i # -1 => x = q /\ y = n
      BY <1>1, <2>1
    <3>2. CASE qd[p][a] = i
      BY <2>2, <3>1, <3>2
    <3>3. CASE qd[p][a] # i
      <4>1. a \in DOMAIN pd[p] /\ qd[p][a] = pd[p][a]
        BY <1>1, <3>3
      <4>2. b \in DOMAIN pd[r] /\ qd[r][b] = pd[r][b]
        BY <1>1, <2>2, <3>3
      <4>3. pd[p][a] = pd[r][b] /\ pd[p][a] # -1
        BY <2>2, <4>1, <4>2
      <4>4. pd[p][a] = pd[r][b] /\ pd[p][a] # -1 => p = r /\ a = b
        BY <1>2, <4>1, <4>2, Zenon DEF OneOwner
      <4>5. QED
        BY <4>3, <4>4
    <3>4. QED
      BY <3>2, <3>3
  <2>3. ASSUME NEW p \in Procs, NEW j \in DOMAIN qd[p], NEW v \in DOMAIN pt[kernel]
        PROVE  qd[p][j] # pt[kernel][v]
    <3>1. pt[kernel][v] # i
      <4>1. pt[kernel][v] \in kp /\ -1 \notin kp
        BY <1>2 DEF Marked, Pools
      <4>2. QED
        BY <1>3, <4>1
    <3>2. CASE qd[p][j] = i
      BY <3>1, <3>2
    <3>3. CASE qd[p][j] # i
      <4>1. j \in DOMAIN pd[p] /\ qd[p][j] = pd[p][j]
        BY <1>1, <3>3
      <4>2. QED
        BY <1>2, <4>1 DEF OneOwner
    <3>4. QED
      BY <3>2, <3>3
  <2>4. QED
    BY <1>2, <2>2, <2>3 DEF OneOwner
<1>9. QED
  BY <1>5, <1>6, <1>7, <1>8 DEF Owned

(* Pages of sp are unmapped and the bits of their frames cleared, as pfree *)
(* does it: in both pools, though the frames are all of one.               *)
FramesOf(m, R) == {m[v] : v \in R}
UserBits(frames) == {f - KernelFrames : f \in frames}

Unmaps(pt, qt, sp, R) ==
    /\ R \subseteq DOMAIN pt[sp]
    /\ qt[sp] = drop(pt[sp], R)
    /\ \A sq \in Spaces : sq # sp => qt[sq] = pt[sq]

LEMMA OwnLess ==
    ASSUME NEW kp, NEW up, NEW pt, NEW pd, NEW qt, NEW sp \in Spaces, NEW R, NEW F,
           NEW kq, NEW uq, Owned(kp, up, pt, pd), Unmaps(pt, qt, sp, R),
           F = FramesOf(pt[sp], R), kq = kp \ F, uq = up \ UserBits(F)
    PROVE  /\ Owned(kq, uq, qt, pd)
           /\ sp = kernel => uq = up
           /\ sp # kernel => kq = kp
<1> USE DEF Unmaps
<1>1. /\ DOMAIN qt[sp] = DOMAIN pt[sp] \ R
      /\ \A y \in DOMAIN qt[sp] : qt[sp][y] = pt[sp][y]
  BY DEF drop
<1>2. Pools(kp, up) /\ OneOwner(pt, pd) /\ Marked(kp, up, pt, pd) /\ Taken(kp, up, pt, pd)
  BY DEF Owned
<1>3. /\ \A x \in Spaces : DOMAIN qt[x] \subseteq DOMAIN pt[x]
      /\ \A x \in Spaces : \A y \in DOMAIN qt[x] : qt[x][y] = pt[x][y]
  BY <1>1
<1>4. \A f : f \in F <=> \E v \in R : f = pt[sp][v]
  BY DEF FramesOf
<1>5. \A i : i \in UserBits(F) <=> \E f \in F : i = f - KernelFrames
  BY DEF UserBits
<1>6. \A x \in Spaces : \A y \in DOMAIN pt[x] : pt[x][y] \in F => x = sp /\ y \in R
  <2>1. ASSUME NEW x \in Spaces, NEW y \in DOMAIN pt[x], pt[x][y] \in F
        PROVE  x = sp /\ y \in R
    <3>1. PICK v \in R : pt[x][y] = pt[sp][v]
      BY <1>4, <2>1
    <3>2. v \in DOMAIN pt[sp]
      OBVIOUS
    <3>3. pt[x][y] = pt[sp][v] => x = sp /\ y = v
      BY <1>2, <3>2 DEF OneOwner
    <3>4. QED
      BY <3>1, <3>3
  <2>2. QED
    BY <2>1
<1>7. \A x \in Spaces : \A y \in DOMAIN qt[x] : qt[x][y] \notin F
  BY <1>1, <1>3, <1>6
<1>8. kernel \in Spaces /\ \A p \in Procs : p \in Spaces
  BY DEF Spaces
<1>9. ASSUME sp = kernel
      PROVE  /\ \A f \in F : f \in kp /\ f \in Nat /\ f < KernelFrames
             /\ uq = up
  <2>1. \A f \in F : f \in kp
    BY <1>2, <1>4, <1>9 DEF Marked
  <2>2. \A f \in F : f \in Nat /\ f < KernelFrames
    BY <1>2, <2>1, FrameCounts DEF Pools
  <2>3. \A i \in UserBits(F) : i \notin Nat
    BY <1>5, <2>2, FrameCounts
  <2>4. \A i \in up : i \in Nat
    BY <1>2, FrameCounts DEF Pools
  <2>5. uq = up
    BY <2>3, <2>4
  <2>6. QED
    BY <2>1, <2>2, <2>5
<1>10. ASSUME sp # kernel
       PROVE  /\ \A f \in F : f \in Nat /\ f >= KernelFrames /\ f - KernelFrames \in up
              /\ kq = kp
  <2>1. sp \in Procs
    BY <1>10 DEF Spaces
  <2>2. \A f \in F : f \in Nat /\ f >= KernelFrames /\ f - KernelFrames \in up
    BY <1>2, <1>4, <2>1 DEF Marked
  <2>3. \A f \in kp : f \in Nat /\ f < KernelFrames
    BY <1>2, FrameCounts DEF Pools
  <2>4. kq = kp
    BY <2>2, <2>3, FrameCounts
  <2>5. QED
    BY <2>2, <2>4
<1>11. Pools(kq, uq)
  BY <1>2 DEF Pools
<1>12. OneOwner(qt, pd)
  <2>1. ASSUME NEW x \in Spaces, NEW y \in Spaces,
               NEW a \in DOMAIN qt[x], NEW b \in DOMAIN qt[y], qt[x][a] = qt[y][b]
        PROVE  x = y /\ a = b
    <3>1. a \in DOMAIN pt[x] /\ b \in DOMAIN pt[y] /\ pt[x][a] = pt[y][b]
      BY <1>3, <2>1
    <3>2. pt[x][a] = pt[y][b] => x = y /\ a = b
      BY <1>2, <3>1 DEF OneOwner
    <3>3. QED
      BY <3>1, <3>2
  <2>2. QED
    BY <1>2, <1>3, <1>8, <2>1 DEF OneOwner
<1>13. Marked(kq, uq, qt, pd)
  <2>1. \A v \in DOMAIN qt[kernel] : qt[kernel][v] \in kq
    BY <1>2, <1>3, <1>7, <1>8 DEF Marked
  <2>2. ASSUME NEW p \in Procs, NEW v \in DOMAIN qt[p]
        PROVE  qt[p][v] \in Nat /\ qt[p][v] >= KernelFrames /\ qt[p][v] - KernelFrames \in uq
    <3>1. /\ qt[p][v] \in Nat /\ qt[p][v] >= KernelFrames /\ qt[p][v] - KernelFrames \in up
          /\ qt[p][v] \notin F
      BY <1>2, <1>3, <1>7, <1>8 DEF Marked
    <3>2. qt[p][v] - KernelFrames \notin UserBits(F)
      <4>1. CASE sp = kernel
        BY <1>9, <3>1, <4>1
      <4>2. CASE sp # kernel
        BY <1>5, <1>10, <3>1, <4>2, FrameCounts
      <4>3. QED
        BY <4>1, <4>2
    <3>3. QED
      BY <3>1, <3>2
  <2>3. ASSUME NEW p \in Procs, NEW i \in DOMAIN pd[p]
        PROVE  pd[p][i] \in kq \cup {-1}
    <3>1. pd[p][i] \in kp \cup {-1}
      BY <1>2 DEF Marked
    <3>2. sp = kernel => pd[p][i] \notin F
      BY <1>2, <1>4 DEF OneOwner
    <3>3. QED
      BY <1>10, <3>1, <3>2
  <2>4. QED
    BY <2>1, <2>2, <2>3 DEF Marked
<1>14. Taken(kq, uq, qt, pd)
  <2>1. ASSUME NEW i \in kq
        PROVE  \/ \E v \in DOMAIN qt[kernel] : qt[kernel][v] = i
               \/ \E p \in Procs : \E j \in DOMAIN pd[p] : pd[p][j] = i
    <3>1. ASSUME NEW v \in DOMAIN pt[kernel], pt[kernel][v] = i
          PROVE  v \in DOMAIN qt[kernel] /\ qt[kernel][v] = i
      <4>1. CASE sp = kernel
        BY <1>1, <1>4, <3>1, <4>1
      <4>2. CASE sp # kernel
        BY <1>8, <3>1, <4>2
      <4>3. QED
        BY <4>1, <4>2
    <3>2. QED
      BY <1>2, <3>1 DEF Taken
  <2>2. ASSUME NEW i \in uq
        PROVE  \E p \in Procs : \E v \in DOMAIN qt[p] : qt[p][v] = KernelFrames + i
    <3>1. PICK p \in Procs : \E v \in DOMAIN pt[p] : pt[p][v] = KernelFrames + i
      BY <1>2 DEF Taken
    <3>2. PICK v \in DOMAIN pt[p] : pt[p][v] = KernelFrames + i
      BY <3>1
    <3>3. i \in Nat /\ (KernelFrames + i) - KernelFrames = i
      BY <1>2, FrameCounts DEF Pools
    <3>4. KernelFrames + i \notin F
      BY <1>5, <3>3
    <3>5. v \in DOMAIN qt[p]
      <4>1. CASE p = sp
        BY <1>1, <1>4, <3>2, <3>4, <4>1
      <4>2. CASE p # sp
        BY <1>8, <4>2
      <4>3. QED
        BY <4>1, <4>2
    <3>6. qt[p][v] = KernelFrames + i
      BY <1>3, <1>8, <3>2, <3>5
    <3>7. QED
      BY <3>5, <3>6
  <2>3. QED
    BY <2>1, <2>2 DEF Taken
<1>15. QED
  BY <1>9, <1>10, <1>11, <1>12, <1>13, <1>14 DEF Owned


-----------------------------------------------------------------------------
(* malloc_pages' loop.  Its state is a record of these fields.             *)
IsLoopState(s) ==
    s = [kp |-> s.kp, up |-> s.up, pt |-> s.pt, pd |-> s.pd, zero |-> s.zero,
         ok |-> s.ok, fault |-> s.fault]

NoNull(s) == \A i \in DOMAIN s.pd : s.pd[i] # -1
Keeps(m, n) == \A i \in DOMAIN m : i \in DOMAIN n /\ n[i] = m[i]

(* page_table_add, without and with a page table.                          *)
LEMMA AddTable ==
    ASSUME NEW s, NEW table, IsLoopState(s), s.kp \subseteq 0 .. KernelFrames - 1
    PROVE  LET t == add_table(s, table)
           IN  /\ IsLoopState(t)
               /\ t.up = s.up /\ t.pt = s.pt /\ t.ok = s.ok /\ t.fault = s.fault
               /\ \E k \in (0 .. KernelFrames - 1) \cup {-1} :
                     /\ t.pd = put(s.pd, table, k)
                     /\ k = -1 => t.kp = s.kp
                     /\ k # -1 => k \notin s.kp /\ t.kp = s.kp \cup {k}
<1> DEFINE k == palloc(s.kp, KernelBytes)
           t == add_table(s, table)
<1>1. \/ k.idx = -1 /\ k.pool = s.kp
      \/ k.idx \in (0 .. KernelFrames - 1) \ s.kp /\ k.pool = s.kp \cup {k.idx}
  <2>1. s.kp \subseteq 0 .. KernelBytes * ByteBits - 1
    BY FrameCounts
  <2>2. QED
    BY <2>1, Palloc, FrameCounts, Sizes
<1>2. t = [s EXCEPT !.kp = k.pool, !.pd = put(s.pd, table, k.idx),
                    !.zero = IF k.idx = -1 THEN empty_map ELSE s.zero]
  BY Zenon DEF add_table
<1> HIDE DEF k, t
<1>3. /\ IsLoopState(t) /\ t.kp = k.pool /\ t.pd = put(s.pd, table, k.idx)
      /\ t.up = s.up /\ t.pt = s.pt /\ t.ok = s.ok /\ t.fault = s.fault
  BY <1>2 DEF IsLoopState
<1>4. /\ k.idx \in (0 .. KernelFrames - 1) \cup {-1}
      /\ k.idx = -1 => k.pool = s.kp
      /\ k.idx # -1 => k.idx \notin s.kp /\ k.pool = s.kp \cup {k.idx}
  BY <1>1, FrameCounts
<1>5. QED
  BY <1>3, <1>4, Zenon DEF t

AddsEntry(s, page, frame, t) ==
    /\ IsLoopState(t)
    /\ t.kp = s.kp /\ t.up = s.up /\ t.pd = s.pd /\ t.ok = s.ok
    /\ s.pd[page \div TablePages] = -1 => t.pt = s.pt
    /\ s.pd[page \div TablePages] # -1 =>
          t.pt = put(s.pt, page, frame) /\ t.fault = (page \in DOMAIN s.pt)

LEMMA AddEntry ==
    ASSUME NEW s, NEW page, NEW frame, IsLoopState(s)
    PROVE  AddsEntry(s, page, frame, add_entry(s, page, frame))
<1> DEFINE slot == page % TablePages
           present == slot \in DOMAIN s.zero /\ s.zero[slot].present
           t == add_entry(s, page, frame)
<1>1. t = IF s.pd[page \div TablePages] = -1
          THEN [s EXCEPT !.zero = put(s.zero, slot, [frame |-> frame, present |-> TRUE]),
                         !.fault = present]
          ELSE [s EXCEPT !.pt = put(s.pt, page, frame), !.fault = page \in DOMAIN s.pt]
  BY Zenon DEF add_entry
<1> HIDE DEF slot, present, t
<1>2. CASE s.pd[page \div TablePages] = -1
  <2>1. /\ IsLoopState(t) /\ t.kp = s.kp /\ t.up = s.up /\ t.pd = s.pd /\ t.ok = s.ok
        /\ t.pt = s.pt
    BY <1>1, <1>2 DEF IsLoopState
  <2>2. QED
    BY <1>2, <2>1, Zenon DEF t, AddsEntry
<1>3. CASE s.pd[page \div TablePages] # -1
  <2>1. /\ IsLoopState(t) /\ t.kp = s.kp /\ t.up = s.up /\ t.pd = s.pd /\ t.ok = s.ok
        /\ t.pt = put(s.pt, page, frame) /\ t.fault = (page \in DOMAIN s.pt)
    BY <1>1, <1>3 DEF IsLoopState
  <2>2. QED
    BY <1>3, <2>1, Zenon DEF t, AddsEntry
<1>4. QED
  BY <1>2, <1>3

(* The outcomes of one turn of the loop.                                   *)
Same(s, t) == t.kp = s.kp /\ t.up = s.up /\ t.pt = s.pt /\ t.pd = s.pd
Stops(s, t) == Same(s, t) /\ t.ok = s.ok /\ t.fault = s.fault /\ (~s.ok \/ s.fault)
Fails(s, t) ==
    /\ Same(s, t) /\ t.ok = FALSE /\ t.fault = s.fault
    /\ s.up = 0 .. UserFrames - 1
MapsOwn(s, t, page) ==
    \E i \in (0 .. UserFrames - 1) \ s.up :
        /\ t.kp = s.kp /\ t.up = s.up \cup {i} /\ t.pt = put(s.pt, page, KernelFrames + i)
        /\ t.pd = s.pd /\ t.ok = s.ok /\ t.fault = (page \in DOMAIN s.pt)
MapsWithTable(s, t, page) ==
    \E i \in (0 .. UserFrames - 1) \ s.up, k \in (0 .. KernelFrames - 1) \ s.kp :
        /\ page \div TablePages \notin DOMAIN s.pd
        /\ t.kp = s.kp \cup {k}
        /\ t.up = s.up \cup {i} /\ t.pt = put(s.pt, page, KernelFrames + i)
        /\ t.pd = put(s.pd, page \div TablePages, k)
        /\ t.ok = s.ok /\ t.fault = (page \in DOMAIN s.pt)
MapsAtZero(s, t) ==
    \E i \in (0 .. UserFrames - 1) \ s.up :
        /\ t.kp = s.kp /\ t.up = s.up \cup {i} /\ t.pt = s.pt /\ t.ok = s.ok
        /\ Keeps(s.pd, t.pd) /\ ~NoNull(t)

LEMMA OneTurn ==
    ASSUME NEW s, NEW page, IsLoopState(s), Pools(s.kp, s.up)
    PROVE  LET t == map_page(s, page)
           IN  /\ IsLoopState(t)
               /\ \/ Stops(s, t)
                  \/ s.ok /\ ~s.fault /\ Fails(s, t)
                  \/ s.ok /\ ~s.fault /\ MapsOwn(s, t, page)
                  \/ s.ok /\ ~s.fault /\ MapsWithTable(s, t, page)
                  \/ s.ok /\ ~s.fault /\ MapsAtZero(s, t)
<1> DEFINE u == palloc(s.up, UserBytes)
           table == page \div TablePages
           got == [s EXCEPT !.up = u.pool]
           with == add_table(got, table)
           t == map_page(s, page)
<1>1. \/ u.idx = -1 /\ u.pool = s.up /\ s.up = 0 .. UserFrames - 1
      \/ u.idx \in (0 .. UserFrames - 1) \ s.up /\ u.pool = s.up \cup {u.idx}
  <2>1. s.up \subseteq 0 .. UserBytes * ByteBits - 1
    BY FrameCounts DEF Pools
  <2>2. QED
    BY <2>1, Palloc, FrameCounts, Sizes
<1>2. t = IF ~s.ok \/ s.fault THEN s
          ELSE IF u.idx = -1 THEN [s EXCEPT !.ok = FALSE]
          ELSE add_entry(IF table \in DOMAIN s.pd THEN got ELSE with,
                         page, KernelFrames + u.idx)
  BY Zenon DEF map_page
<1> HIDE DEF u, table, got, with, t
<1>3. /\ IsLoopState(got) /\ got.kp = s.kp /\ got.up = u.pool /\ got.pt = s.pt /\ got.pd = s.pd
      /\ got.ok = s.ok /\ got.fault = s.fault
  BY DEF got, IsLoopState
<1>4. CASE ~s.ok \/ s.fault
  <2>1. t = s
    BY <1>2, <1>4
  <2>2. Stops(s, t)
    BY <1>4, <2>1 DEF Stops, Same
  <2>3. QED
    BY <2>1, <2>2, Zenon DEF t
<1>5. CASE s.ok /\ ~s.fault /\ u.idx = -1
  <2>1. t = [s EXCEPT !.ok = FALSE]
    BY <1>2, <1>5
  <2>2. s.up = 0 .. UserFrames - 1
    BY <1>1, <1>5, FrameCounts
  <2>3. Same(s, t) /\ t.ok = FALSE /\ t.fault = s.fault /\ IsLoopState(t)
    BY <2>1 DEF Same, IsLoopState
  <2>4. Fails(s, t)
    BY <2>2, <2>3, Zenon DEF Fails
  <2>5. QED
    BY <1>5, <2>3, <2>4, Zenon DEF t
<1>6. CASE s.ok /\ ~s.fault /\ u.idx # -1 /\ table \in DOMAIN s.pd
  <2>1. t = add_entry(got, page, KernelFrames + u.idx)
    BY <1>2, <1>6, Zenon
  <2>2. /\ IsLoopState(t)
        /\ t.kp = got.kp /\ t.up = got.up /\ t.pd = got.pd /\ t.ok = got.ok
        /\ got.pd[table] = -1 => t.pt = got.pt
        /\ got.pd[table] # -1 =>
              t.pt = put(got.pt, page, KernelFrames + u.idx) /\ t.fault = (page \in DOMAIN got.pt)
    <3>1. AddsEntry(got, page, KernelFrames + u.idx, add_entry(got, page, KernelFrames + u.idx))
      BY <1>3, AddEntry, Zenon
    <3>2. AddsEntry(got, page, KernelFrames + u.idx, t)
      BY <2>1, <3>1, Zenon
    <3>3. QED
      BY <3>2, Zenon DEF AddsEntry, table
  <2>3. u.idx \in (0 .. UserFrames - 1) \ s.up /\ t.up = s.up \cup {u.idx}
    BY <1>1, <1>3, <1>6, <2>2
  <2>4. CASE s.pd[table] = -1
    <3>1. Keeps(s.pd, t.pd) /\ ~NoNull(t)
      BY <1>3, <1>6, <2>2, <2>4 DEF Keeps, NoNull
    <3>2. MapsAtZero(s, t)
      BY <1>3, <2>2, <2>3, <2>4, <3>1 DEF MapsAtZero
    <3>3. QED
      BY <1>6, <2>2, <3>2, Zenon DEF t
  <2>5. CASE s.pd[table] # -1
    <3>1. MapsOwn(s, t, page)
      <4>1. t.kp = s.kp /\ t.pd = s.pd /\ t.ok = s.ok /\ t.pt = put(s.pt, page, KernelFrames + u.idx)
            /\ t.fault = (page \in DOMAIN s.pt)
        BY <1>3, <2>2, <2>5, Zenon
      <4>2. QED
        BY <2>3, <4>1, Zenon DEF MapsOwn
    <3>2. QED
      BY <1>6, <2>2, <3>1, Zenon DEF t
  <2>6. QED
    BY <2>4, <2>5
<1>7. CASE s.ok /\ ~s.fault /\ u.idx # -1 /\ table \notin DOMAIN s.pd
  <2>1. t = add_entry(with, page, KernelFrames + u.idx)
    BY <1>2, <1>7, Zenon
  <2>2. /\ IsLoopState(with)
        /\ with.up = got.up /\ with.pt = got.pt /\ with.ok = got.ok
        /\ \E k \in (0 .. KernelFrames - 1) \cup {-1} :
              /\ with.pd = put(got.pd, table, k)
              /\ k = -1 => with.kp = got.kp
              /\ k # -1 => k \notin got.kp /\ with.kp = got.kp \cup {k}
    <3>1. got.kp \subseteq 0 .. KernelFrames - 1
      BY <1>3 DEF Pools
    <3>2. QED
      BY <1>3, <3>1, AddTable, Zenon DEF with
  <2>3. PICK k \in (0 .. KernelFrames - 1) \cup {-1} :
              /\ with.pd = put(s.pd, table, k)
              /\ k = -1 => with.kp = s.kp
              /\ k # -1 => k \notin s.kp /\ with.kp = s.kp \cup {k}
    BY <1>3, <2>2, Zenon
  <2>4. /\ IsLoopState(t)
        /\ t.kp = with.kp /\ t.up = with.up /\ t.pd = with.pd /\ t.ok = with.ok
        /\ with.pd[table] = -1 => t.pt = with.pt
        /\ with.pd[table] # -1 =>
              t.pt = put(with.pt, page, KernelFrames + u.idx) /\ t.fault = (page \in DOMAIN with.pt)
    <3>1. AddsEntry(with, page, KernelFrames + u.idx, add_entry(with, page, KernelFrames + u.idx))
      BY <2>2, AddEntry, Zenon
    <3>2. AddsEntry(with, page, KernelFrames + u.idx, t)
      BY <2>1, <3>1, Zenon
    <3>3. QED
      BY <3>2, Zenon DEF AddsEntry, table
  <2>5. u.idx \in (0 .. UserFrames - 1) \ s.up /\ t.up = s.up \cup {u.idx} /\ t.ok = s.ok
    BY <1>1, <1>3, <1>7, <2>2, <2>4
  <2>6. /\ with.pd[table] = k /\ table \in DOMAIN with.pd
        /\ Keeps(s.pd, with.pd)
    BY <1>7, <2>3 DEF put, Keeps
  <2>7. CASE k = -1
    <3>1. ~NoNull(t) /\ Keeps(s.pd, t.pd)
      BY <2>4, <2>6, <2>7 DEF NoNull
    <3>2. t.kp = s.kp /\ t.pt = s.pt
      BY <1>3, <2>2, <2>3, <2>4, <2>6, <2>7
    <3>3. MapsAtZero(s, t)
      BY <2>5, <3>1, <3>2, Zenon DEF MapsAtZero
    <3>4. QED
      BY <1>7, <2>4, <3>3, Zenon DEF t
  <2>8. CASE k # -1
    <3>1. k \in (0 .. KernelFrames - 1) \ s.kp /\ t.kp = s.kp \cup {k}
      BY <2>3, <2>4, <2>8
    <3>2. t.pt = put(s.pt, page, KernelFrames + u.idx) /\ t.fault = (page \in DOMAIN s.pt)
          /\ t.pd = put(s.pd, table, k)
      BY <1>3, <2>2, <2>3, <2>4, <2>6, <2>8, Zenon
    <3>3. MapsWithTable(s, t, page)
      BY <1>7, <2>5, <3>1, <3>2, Zenon DEF MapsWithTable, table
    <3>4. QED
      BY <1>7, <2>4, <3>3, Zenon DEF t
  <2>9. QED
    BY <2>7, <2>8
<1>8. QED
  BY <1>4, <1>5, <1>6, <1>7


Start(p) ==
    [kp |-> kernel_pool, up |-> user_pool, pt |-> pte[p], pd |-> pde[p],
     zero |-> frame_0, ok |-> TRUE, fault |-> FALSE]

IsLoop(f, p, first, last) ==
    f = [n \in 0 .. last |-> IF n = 0 THEN Start(p)
                             ELSE map_page(f[n - 1], first + n - 1)]

(* The loop is defined for every count, and map_pages is its last state.   *)
LEMMA LoopExists ==
    ASSUME NEW p, NEW first \in Nat, NEW cnt \in Nat
    PROVE  \E f : IsLoop(f, p, first, cnt) /\ map_pages(p, first, cnt) = f[cnt]
<1> DEFINE S == {k \in Nat : ~ \E f : IsLoop(f, p, first, k)}
<1>1. ASSUME S # {}
      PROVE  FALSE
  <2>1. PICK m \in S : \A n \in S : m <= n
    BY <1>1, LeastNat
  <2>2. m \in Nat /\ ~ \E f : IsLoop(f, p, first, m)
    BY <2>1
  <2>3. CASE m = 0
    <3>1. \A n \in 0 .. 0 : n = 0
      OBVIOUS
    <3>2. IsLoop([n \in 0 .. 0 |-> Start(p)], p, first, 0)
      BY <3>1, Zenon DEF IsLoop
    <3>3. QED
      BY <2>2, <2>3, <3>2
  <2>4. CASE m > 0
    <3>1. m - 1 \in Nat /\ m - 1 \notin S
      BY <2>1, <2>2, <2>4
    <3>2. PICK g : IsLoop(g, p, first, m - 1)
      BY <3>1
    <3> DEFINE x == map_page(g[m - 1], first + m - 1)
               f == [n \in 0 .. m |-> IF n = m THEN x ELSE g[n]]
    <3>3. g = [n \in 0 .. m - 1 |-> IF n = 0 THEN Start(p)
                                    ELSE map_page(g[n - 1], first + n - 1)]
      BY <3>2, Zenon DEF IsLoop
    <3>4. ASSUME NEW n \in 0 .. m
          PROVE  f[n] = IF n = 0 THEN Start(p)
                        ELSE map_page(f[n - 1], first + n - 1)
      <4>1. CASE n = m
        <5>1. n # 0 /\ n - 1 # m /\ n - 1 \in 0 .. m
          BY <2>2, <2>4, <4>1
        <5>2. f[n - 1] = g[n - 1] /\ f[n] = x
          BY <4>1, <5>1, Zenon
        <5>3. QED
          BY <4>1, <5>1, <5>2, Zenon
      <4>2. CASE n # m
        <5>1. n \in 0 .. m - 1
          BY <2>2, <4>2
        <5>2. f[n] = g[n]
          BY <4>2, Zenon
        <5>3. n # 0 => n - 1 \in 0 .. m /\ n - 1 # m
          BY <2>2, <5>1
        <5>4. n # 0 => f[n - 1] = g[n - 1]
          BY <5>3, Zenon
        <5>5. g[n] = IF n = 0 THEN Start(p) ELSE map_page(g[n - 1], first + n - 1)
          BY <3>3, <5>1, Zenon
        <5>6. QED
          BY <5>2, <5>4, <5>5, Zenon
      <4>3. QED
        BY <4>1, <4>2
    <3>5. f = [n \in 0 .. m |-> f[n]]
      BY Zenon
    <3> HIDE DEF f
    <3>6. IsLoop(f, p, first, m)
      BY <3>4, <3>5, Zenon DEF IsLoop
    <3>7. QED
      BY <2>2, <3>6, Zenon
  <2>5. QED
    BY <2>2, <2>3, <2>4
<1>2. \E f : IsLoop(f, p, first, cnt)
  BY <1>1
<1> DEFINE c == CHOOSE f : IsLoop(f, p, first, cnt)
<1>3. IsLoop(c, p, first, cnt)
  BY <1>2, Zenon
<1>4. map_pages(p, first, cnt) = c[cnt]
  BY Zenon DEF map_pages, IsLoop, Start
<1> HIDE DEF c
<1>5. QED
  BY <1>3, <1>4, Zenon

-----------------------------------------------------------------------------
(* The loop invariant, for the state s after n pages of p from first on.   *)
(* The page maps and page tables of all spaces while the loop runs:        *)
Maps(s, p) == [pte EXCEPT ![p] = s.pt]
Tables(s, p) == [pde EXCEPT ![p] = s.pd]

(* Bits are only set, and page tables only added.                          *)
LoopTypes(s, p) ==
    /\ IsLoopState(s) /\ s.ok \in BOOLEAN
    /\ Pools(s.kp, s.up) /\ DOMAIN s.pt \subseteq Nat
    /\ kernel_pool \subseteq s.kp /\ user_pool \subseteq s.up
    /\ Keeps(pde[p], s.pd)

(* As long as no page table is NULL: what was mapped stays so; what is     *)
(* mapped is the range asked for, none of which was mapped before.         *)
LoopPages(s, p, first, n) ==
    ~s.fault /\ NoNull(s) =>
        /\ Keeps(pte[p], s.pt)
        /\ s.ok => /\ DOMAIN s.pt = DOMAIN pte[p] \cup page_range(first, n)
                   /\ page_range(first, n) \cap DOMAIN pte[p] = {}

(* With no frame left nothing is mapped.                                   *)
LoopFull(s, p, n) ==
    user_pool = 0 .. UserFrames - 1 => s.pt = pte[p] /\ ~s.fault /\ (s.ok => n = 0)

LoopOwned(s, p) ==
    Owned(kernel_pool, user_pool, pte, pde) /\ ~s.fault /\ NoNull(s) =>
        Owned(s.kp, s.up, Maps(s, p), Tables(s, p))

LoopInv(s, p, first, n) ==
    LoopTypes(s, p) /\ LoopPages(s, p, first, n) /\ LoopFull(s, p, n) /\ LoopOwned(s, p)

(* What malloc_pages relies on when it is called for p.                    *)
MayMap(p) ==
    /\ p \in Procs
    /\ DOMAIN pte = Spaces /\ DOMAIN pte[p] \subseteq Nat /\ DOMAIN pde = Procs
    /\ Pools(kernel_pool, user_pool)

LEMMA Ranges ==
    ASSUME NEW first \in Nat, NEW n \in Nat
    PROVE  /\ page_range(first, 0) = {}
           /\ page_range(first, n + 1) = page_range(first, n) \cup {first + n}
           /\ page_range(first, n) \subseteq Nat
           /\ n > 0 => first \in page_range(first, n)
  BY DEF page_range

LEMMA LoopStarts ==
    ASSUME NEW p, NEW first \in Nat, MayMap(p)
    PROVE  LoopInv(Start(p), p, first, 0)
<1> DEFINE s == Start(p)
<1>1. /\ IsLoopState(s) /\ s.kp = kernel_pool /\ s.up = user_pool /\ s.pt = pte[p]
      /\ s.ok = TRUE /\ s.fault = FALSE /\ s.pd = pde[p]
  BY DEF Start, IsLoopState
<1> HIDE DEF s
<1>2. LoopTypes(s, p)
  BY <1>1 DEF LoopTypes, MayMap, Keeps
<1>3. LoopPages(s, p, first, 0)
  BY <1>1, Ranges DEF LoopPages, Keeps
<1>4. LoopFull(s, p, 0)
  BY <1>1 DEF LoopFull
<1>5. LoopOwned(s, p)
  <2>1. \A x \in Spaces : Maps(s, p)[x] = pte[x]
    BY <1>1 DEF Maps, MayMap
  <2>2. \A q \in Procs : Tables(s, p)[q] = pde[q]
    BY <1>1 DEF Tables, MayMap
  <2>3. QED
    BY <1>1, <2>1, <2>2, OwnedSame DEF LoopOwned
<1>6. QED
  BY <1>2, <1>3, <1>4, <1>5 DEF LoopInv, s

LEMMA LoopTurns ==
    ASSUME NEW p, NEW first \in Nat, NEW n \in Nat, NEW s,
           MayMap(p), LoopInv(s, p, first, n)
    PROVE  LoopInv(map_page(s, first + n), p, first, n + 1)
<1> DEFINE page == first + n
           t == map_page(s, page)
<1>1. /\ IsLoopState(t)
      /\ \/ Stops(s, t)
         \/ s.ok /\ ~s.fault /\ Fails(s, t)
         \/ s.ok /\ ~s.fault /\ MapsOwn(s, t, page)
         \/ s.ok /\ ~s.fault /\ MapsWithTable(s, t, page)
         \/ s.ok /\ ~s.fault /\ MapsAtZero(s, t)
  BY OneTurn, Zenon DEF LoopInv, LoopTypes
<1>2. page \in Nat
  OBVIOUS
<1>3. /\ page_range(first, n + 1) = page_range(first, n) \cup {page}
      /\ page_range(first, n) \subseteq Nat
  BY Ranges
<1>4. LoopTypes(s, p) /\ LoopPages(s, p, first, n) /\ LoopFull(s, p, n) /\ LoopOwned(s, p)
  BY DEF LoopInv
<1>5. DOMAIN pte = Spaces /\ p \in Spaces /\ p \in Procs /\ DOMAIN pde = Procs
  BY DEF MayMap, Spaces
<1>6. n + 1 # 0
  OBVIOUS
<1> HIDE DEF page, t
<1>7. CASE Stops(s, t) \/ (s.ok /\ ~s.fault /\ Fails(s, t))
  <2>1. Same(s, t) /\ t.fault = s.fault /\ t.ok \in BOOLEAN /\ (~t.ok \/ t.fault)
    BY <1>4, <1>7 DEF Stops, Fails, LoopTypes
  <2>2. NoNull(t) => NoNull(s)
    BY <2>1 DEF NoNull, Same
  <2>3. LoopTypes(t, p)
    BY <1>1, <1>4, <2>1 DEF LoopTypes, Same
  <2>4. LoopPages(t, p, first, n + 1)
    BY <1>4, <2>1, <2>2 DEF LoopPages, Same
  <2>5. LoopFull(t, p, n + 1)
    BY <1>4, <2>1 DEF LoopFull, Same
  <2>6. LoopOwned(t, p)
    BY <1>4, <2>1, <2>2 DEF LoopOwned, Same, Maps, Tables
  <2>7. QED
    BY <2>3, <2>4, <2>5, <2>6 DEF LoopInv, t, page
<1>8. ASSUME s.ok, ~s.fault, NEW i \in (0 .. UserFrames - 1) \ s.up,
             t.up = s.up \cup {i}, t.pt = put(s.pt, page, KernelFrames + i),
             t.kp \subseteq 0 .. KernelFrames - 1, s.kp \subseteq t.kp,
             t.ok = s.ok, t.fault = (page \in DOMAIN s.pt), Keeps(s.pd, t.pd)
      PROVE  /\ LoopTypes(t, p) /\ LoopPages(t, p, first, n + 1) /\ LoopFull(t, p, n + 1)
             /\ NoNull(t) => NoNull(s)
             /\ Owned(kernel_pool, user_pool, pte, pde) /\ ~t.fault /\ NoNull(t) =>
                   Owned(s.kp, t.up, Maps(t, p), Tables(s, p))
  <2>1. NoNull(t) => NoNull(s)
    BY <1>8 DEF NoNull, Keeps
  <2>2. /\ DOMAIN t.pt = DOMAIN s.pt \cup {page}
        /\ \A y \in DOMAIN s.pt : y # page => t.pt[y] = s.pt[y]
    BY <1>8 DEF put
  <2>3. LoopTypes(t, p)
    <3>1. Keeps(pde[p], t.pd)
      BY <1>4, <1>8 DEF LoopTypes, Keeps
    <3>2. QED
      BY <1>1, <1>2, <1>4, <1>8, <2>2, <3>1 DEF LoopTypes, Pools
  <2>4. LoopPages(t, p, first, n + 1)
    <3> SUFFICES ASSUME ~t.fault, NoNull(t)
                 PROVE  /\ Keeps(pte[p], t.pt)
                        /\ t.ok => /\ DOMAIN t.pt = DOMAIN pte[p] \cup page_range(first, n + 1)
                                   /\ page_range(first, n + 1) \cap DOMAIN pte[p] = {}
      BY DEF LoopPages
    <3>1. page \notin DOMAIN s.pt
      BY <1>8
    <3>2. /\ Keeps(pte[p], s.pt)
          /\ DOMAIN s.pt = DOMAIN pte[p] \cup page_range(first, n)
          /\ page_range(first, n) \cap DOMAIN pte[p] = {}
      BY <1>4, <1>8, <2>1 DEF LoopPages
    <3>3. Keeps(pte[p], t.pt)
      BY <2>2, <3>1, <3>2 DEF Keeps
    <3>4. QED
      BY <1>3, <2>2, <3>1, <3>2, <3>3
  <2>5. LoopFull(t, p, n + 1)
    BY <1>4, <1>8 DEF LoopFull, LoopTypes
  <2>6. ASSUME Owned(kernel_pool, user_pool, pte, pde), ~t.fault, NoNull(t)
        PROVE  Owned(s.kp, t.up, Maps(t, p), Tables(s, p))
    <3>1. page \notin DOMAIN s.pt
      BY <1>8, <2>6
    <3>2. Owned(s.kp, s.up, Maps(s, p), Tables(s, p))
      BY <1>4, <1>8, <2>1, <2>6 DEF LoopOwned
    <3>3. /\ Maps(s, p)[p] = s.pt /\ Maps(t, p)[p] = t.pt
          /\ \A x \in Spaces : x # p => Maps(t, p)[x] = Maps(s, p)[x]
      BY <1>5 DEF Maps
    <3>4. /\ page \notin DOMAIN Maps(s, p)[p]
          /\ Maps(t, p)[p] = put(Maps(s, p)[p], page, KernelFrames + i)
          /\ i \in (0 .. UserFrames - 1) \ s.up
      BY <1>8, <3>1, <3>3
    <3>5. Owned(s.kp, s.up \cup {i}, Maps(t, p), Tables(s, p))
      <4>1. PICK kp, up, pt, qt, pd : /\ kp = s.kp /\ up = s.up /\ pd = Tables(s, p)
                                      /\ pt = Maps(s, p) /\ qt = Maps(t, p)
        OBVIOUS
      <4>2. /\ Owned(kp, up, pt, pd) /\ i \in (0 .. UserFrames - 1) \ up
            /\ page \notin DOMAIN pt[p] /\ qt[p] = put(pt[p], page, KernelFrames + i)
            /\ \A x \in Spaces : x # p => qt[x] = pt[x]
        BY <3>2, <3>3, <3>4, <4>1
      <4>3. Owned(kp, up \cup {i}, qt, pd)
        BY <1>5, <4>2, OwnUserPage
      <4>4. QED
        BY <4>1, <4>3
    <3>6. QED
      BY <1>8, <3>5
  <2>7. QED
    BY <2>1, <2>3, <2>4, <2>5, <2>6
<1>9. CASE s.ok /\ ~s.fault /\ MapsOwn(s, t, page)
  <2>1. PICK i \in (0 .. UserFrames - 1) \ s.up :
          /\ t.kp = s.kp /\ t.up = s.up \cup {i} /\ t.pt = put(s.pt, page, KernelFrames + i)
          /\ t.pd = s.pd /\ t.ok = s.ok /\ t.fault = (page \in DOMAIN s.pt)
    BY <1>9 DEF MapsOwn
  <2>2. s.kp \subseteq 0 .. KernelFrames - 1 /\ Keeps(s.pd, t.pd)
    BY <1>4, <2>1 DEF LoopTypes, Pools, Keeps
  <2>3. /\ LoopTypes(t, p) /\ LoopPages(t, p, first, n + 1) /\ LoopFull(t, p, n + 1)
        /\ Owned(kernel_pool, user_pool, pte, pde) /\ ~t.fault /\ NoNull(t) =>
              Owned(s.kp, t.up, Maps(t, p), Tables(s, p))
    BY <1>8, <1>9, <2>1, <2>2
  <2>4. LoopOwned(t, p)
    BY <2>1, <2>3 DEF LoopOwned, Tables
  <2>5. QED
    BY <2>3, <2>4 DEF LoopInv, t, page
<1>10. CASE s.ok /\ ~s.fault /\ MapsWithTable(s, t, page)
  <2> DEFINE table == page \div TablePages
  <2>1. PICK i \in (0 .. UserFrames - 1) \ s.up, k \in (0 .. KernelFrames - 1) \ s.kp :
          /\ table \notin DOMAIN s.pd
          /\ t.kp = s.kp \cup {k}
          /\ t.up = s.up \cup {i} /\ t.pt = put(s.pt, page, KernelFrames + i)
          /\ t.pd = put(s.pd, table, k)
          /\ t.ok = s.ok /\ t.fault = (page \in DOMAIN s.pt)
    BY <1>10 DEF MapsWithTable
  <2> HIDE DEF table
  <2>2. /\ t.kp \subseteq 0 .. KernelFrames - 1 /\ s.kp \subseteq t.kp
        /\ Keeps(s.pd, t.pd)
    BY <1>4, <2>1 DEF LoopTypes, Pools, Keeps, put
  <2>3. /\ LoopTypes(t, p) /\ LoopPages(t, p, first, n + 1) /\ LoopFull(t, p, n + 1)
        /\ Owned(kernel_pool, user_pool, pte, pde) /\ ~t.fault /\ NoNull(t) =>
              Owned(s.kp, t.up, Maps(t, p), Tables(s, p))
    BY <1>8, <1>10, <2>1, <2>2
  <2>4. LoopOwned(t, p)
    <3> SUFFICES ASSUME Owned(kernel_pool, user_pool, pte, pde), ~t.fault, NoNull(t)
                 PROVE  Owned(t.kp, t.up, Maps(t, p), Tables(t, p))
      BY DEF LoopOwned
    <3>1. Owned(s.kp, t.up, Maps(t, p), Tables(s, p))
      BY <2>3
    <3>2. /\ Tables(s, p)[p] = s.pd /\ Tables(t, p)[p] = t.pd
          /\ \A q \in Procs : q # p => Tables(t, p)[q] = Tables(s, p)[q]
      BY <1>5 DEF Tables
    <3>3. Tables(t, p)[p] = put(Tables(s, p)[p], table, k) /\ table \notin DOMAIN Tables(s, p)[p]
      BY <2>1, <3>2
    <3>4. TableFrame(s.kp, t.kp, k)
      BY <2>1 DEF TableFrame
    <3>5. QED
      BY <1>5, <3>1, <3>2, <3>3, <3>4, OwnTable
  <2>5. QED
    BY <2>3, <2>4 DEF LoopInv, t, page
<1>11. CASE s.ok /\ ~s.fault /\ MapsAtZero(s, t)
  <2>1. PICK i \in (0 .. UserFrames - 1) \ s.up :
          /\ t.kp = s.kp /\ t.up = s.up \cup {i} /\ t.pt = s.pt /\ t.ok = s.ok
          /\ Keeps(s.pd, t.pd) /\ ~NoNull(t)
    BY <1>11 DEF MapsAtZero
  <2>2. LoopTypes(t, p)
    <3>1. Keeps(pde[p], t.pd)
      BY <1>4, <2>1 DEF LoopTypes, Keeps
    <3>2. QED
      BY <1>1, <1>4, <2>1, <3>1 DEF LoopTypes, Pools
  <2>3. LoopPages(t, p, first, n + 1) /\ LoopOwned(t, p)
    BY <2>1 DEF LoopPages, LoopOwned
  <2>4. LoopFull(t, p, n + 1)
    BY <1>4, <2>1 DEF LoopFull, LoopTypes
  <2>5. QED
    BY <2>2, <2>3, <2>4 DEF LoopInv, t, page
<1>12. QED
  BY <1>1, <1>7, <1>9, <1>10, <1>11

(* The loop ends in a state of the loop invariant, however many pages.     *)
LEMMA LoopEnds ==
    ASSUME NEW p, NEW first \in Nat, NEW cnt \in Nat, MayMap(p)
    PROVE  LoopInv(map_pages(p, first, cnt), p, first, cnt)
<1>1. PICK f : IsLoop(f, p, first, cnt) /\ map_pages(p, first, cnt) = f[cnt]
  BY LoopExists
<1>2. ASSUME NEW n \in 0 .. cnt
      PROVE  f[n] = IF n = 0 THEN Start(p) ELSE map_page(f[n - 1], first + n - 1)
  BY <1>1, Zenon DEF IsLoop
<1> DEFINE S == {n \in 0 .. cnt : ~LoopInv(f[n], p, first, n)}
<1>3. ASSUME S # {}
      PROVE  FALSE
  <2>1. PICK m \in S : \A n \in S : m <= n
    <3>1. S \in SUBSET Nat
      OBVIOUS
    <3>2. QED
      BY <1>3, <3>1, LeastNat
  <2>2. m \in 0 .. cnt /\ ~LoopInv(f[m], p, first, m)
    BY <2>1
  <2>3. CASE m = 0
    <3>1. f[m] = Start(p)
      BY <1>2, <2>2, <2>3
    <3>2. QED
      BY <2>2, <2>3, <3>1, LoopStarts
  <2>4. CASE m > 0
    <3>1. m - 1 \in Nat /\ m - 1 \in 0 .. cnt /\ m - 1 \notin S /\ (m - 1) + 1 = m
      BY <2>1, <2>2, <2>4
    <3>2. LoopInv(f[m - 1], p, first, m - 1)
      BY <3>1
    <3>3. first + m - 1 = first + (m - 1) /\ m # 0
      BY <2>2, <2>4
    <3>4. f[m] = map_page(f[m - 1], first + (m - 1))
      BY <1>2, <2>2, <3>3
    <3>5. LoopInv(f[m], p, first, (m - 1) + 1)
      BY <3>1, <3>2, <3>4, LoopTurns
    <3>6. QED
      BY <2>2, <3>1, <3>5
  <2>5. QED
    BY <2>2, <2>3, <2>4
<1>4. cnt \in 0 .. cnt
  OBVIOUS
<1>5. LoopInv(f[cnt], p, first, cnt)
  BY <1>3, <1>4
<1>6. QED
  BY <1>1, <1>5


-----------------------------------------------------------------------------
(* The inductive invariant.  PagesTypes and LockOutlivesOnlyFailure also   *)
(* hold of the stopped machine, WeakInv of the running one, StrongInv of   *)
(* the running one until the allocator acts on a wrong scan or makes a     *)
(* page table of the frame at address 0.                                   *)
CallOf(c) ==
    /\ c.at # "none" => c.cnt > 0
    /\ c.at \in {"scan", "set"} => c.first <= c.next /\ c.next < c.first + c.cnt
    /\ c.at = "vaddr_set" => c.next = c.first
    /\ c.at = "free" => c.first <= c.next /\ c.next <= c.first + c.cnt
    /\ c.at = "set" => c.idx < KernelFrames

Calls == [at : {"none", "vaddr_set", "scan", "set", "free"},
          first : Nat, cnt : Nat, next : Nat, idx : Nat]

PagesTypes ==
    /\ Pools(kernel_pool, user_pool)
    /\ DOMAIN vaddr_bitmap = Spaces /\ \A sp \in Spaces : vaddr_bitmap[sp] \subseteq Nat
    /\ DOMAIN pte = Spaces /\ \A sp \in Spaces : DOMAIN pte[sp] \subseteq Nat
    /\ \A v \in DOMAIN pte[kernel] : pte[kernel][v] \in 0 .. KernelFrames - 1
    /\ DOMAIN pde = Procs
    /\ user_lock \in Procs \cup {NULL}
    /\ kernel_lock \in KThreads \cup {NULL}
    /\ call \in [KThreads -> Calls] /\ \A t \in KThreads : CallOf(call[t])
    /\ step \in [Procs -> {"start_process", "page_table_add", "palloc", "user"}]
    /\ scanned \in [Procs -> Nat \cup {-1}]
    /\ panic \in {"none", "page_mapped", "stack_page", "frame_freed"}
    /\ \A b \in blocks : /\ b = <<b[1], b[2], b[3]>>
                         /\ b[1] \in Spaces /\ b[2] \in Nat /\ b[3] \in Nat \ {0}

(* Where a process is in get_a_page: it holds user_pool.lock from the      *)
(* stack's frame to its page table.  A process that runs without a stack   *)
(* and holds the lock has no block, and the user pool is and stays full.   *)
StepOf(p) ==
    /\ step[p] # "user" => DOMAIN pde[p] = {} /\ \A b \in blocks : b[1] # p
    /\ step[p] = "start_process" => DOMAIN pte[p] = {} /\ user_lock # p
    /\ step[p] \in {"page_table_add", "palloc"} => user_lock = p /\ DOMAIN pte[p] = {stack_page}
    /\ step[p] = "palloc" => scanned[p] \in (0 .. KernelFrames - 1) \cup {-1}
    /\ step[p] = "user" /\ user_lock = p =>
          /\ stack_page \notin DOMAIN pte[p] /\ user_pool = 0 .. UserFrames - 1
          /\ \A b \in blocks : b[1] # p
StepInv == \A p \in Procs : StepOf(p)

(* The pages a kernel thread in the middle of a call has mapped and nobody *)
(* else has: those malloc_pages has come past, those mfree_page has not.   *)
Held(t) ==
    CASE call[t].at \in {"scan", "set"} -> call[t].first .. call[t].next - 1
      [] call[t].at = "free" -> call[t].next .. call[t].first + call[t].cnt - 1
      [] OTHER -> {}
HeldMapped == \A t \in KThreads : Held(t) \subseteq DOMAIN pte[kernel]
HeldApart == \A t, u \in KThreads : t # u => Held(t) \cap Held(u) = {}
KernelBlocks ==
    \A b \in blocks : b[1] = kernel =>
        /\ page_range(b[2], b[3]) \subseteq DOMAIN pte[kernel]
        /\ \A t \in KThreads : page_range(b[2], b[3]) \cap Held(t) = {}
KernelBlocksApart ==
    \A b, c \in blocks : b # c /\ b[1] = kernel /\ c[1] = kernel =>
        page_range(b[2], b[3]) \cap page_range(c[2], c[3]) = {}
HeldInv == HeldMapped /\ HeldApart /\ KernelBlocks /\ KernelBlocksApart

WeakInv == StepInv /\ HeldInv

(* The pages reserved for the call of a kernel thread: they are no other   *)
(* call's and no block's.                                                  *)
Claim(t) == IF call[t].at \in {"scan", "set", "free"} THEN call_pages(t) ELSE {}
ClaimInv ==
    /\ \A t \in KThreads : Claim(t) \subseteq vaddr_bitmap[kernel]
    /\ \A t, u \in KThreads : t # u => Claim(t) \cap Claim(u) = {}
    /\ \A b \in blocks : b[1] = kernel =>
          /\ page_range(b[2], b[3]) \subseteq vaddr_bitmap[kernel]
          /\ \A t \in KThreads : page_range(b[2], b[3]) \cap Claim(t) = {}

(* A process's blocks are reserved, mapped and disjoint.  A process with a *)
(* block has its stack, outside of the block; the first frame of the user  *)
(* pool is a stack as soon as anything is taken; a process that runs       *)
(* without a stack holds the lock.                                         *)
UserBlocks ==
    /\ \A b \in blocks : b[1] # kernel =>
          /\ page_range(b[2], b[3]) \subseteq vaddr_bitmap[b[1]]
          /\ page_range(b[2], b[3]) \subseteq DOMAIN pte[b[1]]
          /\ stack_page \in DOMAIN pte[b[1]] /\ stack_page \notin page_range(b[2], b[3])
    /\ \A b, c \in blocks : b # c /\ b[1] = c[1] /\ b[1] # kernel =>
          page_range(b[2], b[3]) \cap page_range(c[2], c[3]) = {}
FirstFrameIsStack ==
    user_pool # {} =>
        \E p \in Procs : stack_page \in DOMAIN pte[p] /\ pte[p][stack_page] = KernelFrames
StackOrLock ==
    \A p \in Procs : step[p] = "user" /\ stack_page \notin DOMAIN pte[p] => user_lock = p
UserInv == UserBlocks /\ FirstFrameIsStack /\ StackOrLock

StrongInv == Owned(kernel_pool, user_pool, pte, pde) /\ ClaimInv /\ UserInv

AllocInv ==
    /\ PagesTypes /\ LockOutlivesOnlyFailure
    /\ panic = "none" => WeakInv
    /\ panic = "none" /\ Undisturbed => StrongInv
    /\ Undisturbed => FirstUserFrameKept

-----------------------------------------------------------------------------
(* A step of a kernel thread leaves the processes alone; a step of a       *)
(* process, and others, leave the kernel's pages alone and claim none.     *)
ProcsKept ==
    /\ \A p \in Procs : pte'[p] = pte[p] /\ vaddr_bitmap'[p] = vaddr_bitmap[p]
    /\ pde' = pde /\ user_pool' = user_pool /\ user_lock' = user_lock
    /\ step' = step /\ scanned' = scanned
    /\ \A b \in blocks : b[1] # kernel => b \in blocks'
    /\ \A b \in blocks' : b[1] # kernel => b \in blocks

KernelKept ==
    /\ pte'[kernel] = pte[kernel] /\ vaddr_bitmap'[kernel] = vaddr_bitmap[kernel]
    /\ \A t \in KThreads : Held(t)' \subseteq Held(t) /\ Claim(t)' \subseteq Claim(t)
    /\ \A b \in blocks' : b[1] = kernel => b \in blocks

LEMMA ProcsStay ==
    ASSUME PagesTypes, ProcsKept
    PROVE  /\ StepInv => StepInv'
           /\ UserInv => UserInv'
           /\ LockOutlivesOnlyFailure => LockOutlivesOnlyFailure'
<1>1. kernel \notin Procs /\ \A p \in Procs : p # kernel /\ p \in Spaces
  BY Sizes DEF Spaces
<1>2. \A b \in blocks : b[1] # kernel => b[1] \in Procs
  BY DEF PagesTypes, Spaces
<1>3. ASSUME StepInv, NEW p \in Procs PROVE StepOf(p)'
  BY <1>1, <1>3 DEF StepInv, StepOf, ProcsKept
<1>4. ASSUME UserInv PROVE UserInv'
  <2>1. UserBlocks'
    BY <1>1, <1>2, <1>4 DEF UserInv, UserBlocks, ProcsKept
  <2>2. FirstFrameIsStack'
    BY <1>4 DEF UserInv, FirstFrameIsStack, ProcsKept
  <2>3. StackOrLock'
    BY <1>4 DEF UserInv, StackOrLock, ProcsKept
  <2>4. QED
    BY <2>1, <2>2, <2>3 DEF UserInv
<1>5. LockOutlivesOnlyFailure => LockOutlivesOnlyFailure'
  BY DEF LockOutlivesOnlyFailure, ProcsKept
<1>6. QED
  BY <1>3, <1>4, <1>5 DEF StepInv

LEMMA KernelStays ==
    ASSUME KernelKept
    PROVE  /\ HeldInv => HeldInv'
           /\ ClaimInv => ClaimInv'
<1>1. ASSUME HeldInv PROVE HeldInv'
  <2>1. HeldMapped' /\ HeldApart'
    BY <1>1 DEF HeldInv, HeldMapped, HeldApart, KernelKept
  <2>2. KernelBlocks' /\ KernelBlocksApart'
    BY <1>1 DEF HeldInv, KernelBlocks, KernelBlocksApart, KernelKept
  <2>3. QED
    BY <2>1, <2>2 DEF HeldInv
<1>2. ASSUME ClaimInv PROVE ClaimInv'
  BY <1>2 DEF ClaimInv, KernelKept
<1>3. QED
  BY <1>1, <1>2

(* A kernel thread's place in its call changes, the other calls do not.    *)
LEMMA NewCall ==
    ASSUME NEW t \in KThreads, NEW c \in Calls, CallOf(c), PagesTypes,
           call' = [call EXCEPT ![t] = c]
    PROVE  /\ call' \in [KThreads -> Calls] /\ \A u \in KThreads : CallOf(call'[u])
           /\ call'[t] = c
           /\ \A u \in KThreads : u # t => Held(u)' = Held(u) /\ Claim(u)' = Claim(u)
<1>1. /\ call' \in [KThreads -> Calls] /\ call'[t] = c
      /\ \A u \in KThreads : u # t => call'[u] = call[u]
  BY DEF PagesTypes
<1>2. \A u \in KThreads : CallOf(call'[u])
  BY <1>1 DEF PagesTypes
<1>3. \A u \in KThreads : u # t => Held(u)' = Held(u) /\ Claim(u)' = Claim(u)
  BY <1>1 DEF Held, Claim, call_pages
<1>4. QED
  BY <1>1, <1>2, <1>3

(* What was disturbed stays so.                                            *)
LEMMA Disturbed ==
    ASSUME collision => collision', DOMAIN pde = Procs, \A p \in Procs : Keeps(pde[p], pde'[p]), Undisturbed'
    PROVE  Undisturbed
  BY DEF Undisturbed, TableAtZero, Keeps

(* The first user frame is kept by every step that frees no user page.     *)
LEMMA Running ==
    ASSUME panic = "none", panic' = "none", AllocInv,
           PagesTypes', LockOutlivesOnlyFailure', WeakInv',
           Undisturbed' => Undisturbed, StrongInv /\ Undisturbed' => StrongInv'
    PROVE  AllocInv'
<1>1. FirstUserFrameKept'
  BY DEF FirstUserFrameKept
<1>2. QED
  BY <1>1 DEF AllocInv


-----------------------------------------------------------------------------
(* The invariant implies what the runs check.                              *)
LEMMA InUseIs ==
    ASSUME NEW u \in Uses, InUse(u)
    PROVE  \/ \E sp \in Spaces : \E v \in DOMAIN pte[sp] :
                u = <<"page", sp, v>> /\ Frame(u) = pte[sp][v]
           \/ \E p \in Procs : \E i \in DOMAIN pde[p] :
                u = <<"table", p, i>> /\ Frame(u) = pde[p][i]
<1>1. CASE \E sp \in Spaces, v \in UNION {DOMAIN pte[x] : x \in Spaces} : u = <<"page", sp, v>>
  <2>1. PICK sp \in Spaces, v \in UNION {DOMAIN pte[x] : x \in Spaces} : u = <<"page", sp, v>>
    BY <1>1
  <2>2. u[1] = "page" /\ u[2] = sp /\ u[3] = v
    BY <2>1
  <2>3. v \in DOMAIN pte[sp] /\ Frame(u) = pte[sp][v]
    BY <2>2 DEF InUse, Frame
  <2>4. QED
    BY <2>1, <2>3
<1>2. CASE \E p \in Procs, i \in UNION {DOMAIN pde[x] : x \in Procs} : u = <<"table", p, i>>
  <2>1. PICK p \in Procs, i \in UNION {DOMAIN pde[x] : x \in Procs} : u = <<"table", p, i>>
    BY <1>2
  <2>2. u[1] = "table" /\ u[2] = p /\ u[3] = i
    BY <2>1
  <2>3. i \in DOMAIN pde[p] /\ Frame(u) = pde[p][i]
    BY <2>2 DEF InUse, Frame
  <2>4. QED
    BY <2>1, <2>3
<1>3. QED
  BY <1>1, <1>2 DEF Uses

LEMMA PageInUse ==
    ASSUME NEW sp \in Spaces, NEW v \in DOMAIN pte[sp]
    PROVE  \E u \in Uses : InUse(u) /\ Frame(u) = pte[sp][v]
<1> DEFINE u == <<"page", sp, v>>
<1>1. u \in Uses
  BY DEF Uses
<1>2. u[1] = "page" /\ u[2] = sp /\ u[3] = v
  OBVIOUS
<1> HIDE DEF u
<1>3. InUse(u) /\ Frame(u) = pte[sp][v]
  BY <1>2 DEF InUse, Frame
<1>4. QED
  BY <1>1, <1>3

LEMMA TableInUse ==
    ASSUME NEW p \in Procs, NEW i \in DOMAIN pde[p]
    PROVE  \E u \in Uses : InUse(u) /\ Frame(u) = pde[p][i]
<1> DEFINE u == <<"table", p, i>>
<1>1. u \in Uses
  BY DEF Uses
<1>2. u[1] = "table" /\ u[2] = p /\ u[3] = i
  OBVIOUS
<1> HIDE DEF u
<1>3. InUse(u) /\ Frame(u) = pde[p][i]
  BY <1>2 DEF InUse, Frame
<1>4. QED
  BY <1>1, <1>3

LEMMA OwnedImplies ==
    ASSUME Owned(kernel_pool, user_pool, pte, pde), ~TableAtZero
    PROVE  FrameOwnedOnce /\ FramesAccounted
<1>1. /\ Pools(kernel_pool, user_pool) /\ OneOwner(pte, pde)
      /\ Marked(kernel_pool, user_pool, pte, pde) /\ Taken(kernel_pool, user_pool, pte, pde)
  BY DEF Owned
<1>2. \A p \in Procs : \A i \in DOMAIN pde[p] : pde[p][i] # -1 /\ pde[p][i] \in kernel_pool
  BY <1>1 DEF Marked, TableAtZero
<1>3. ASSUME NEW u \in Uses, NEW w \in Uses, InUse(u), InUse(w), Frame(u) = Frame(w)
      PROVE  u = w
  <2>1. ASSUME NEW sp \in Spaces, NEW v \in DOMAIN pte[sp], NEW p \in Procs, NEW i \in DOMAIN pde[p],
               pte[sp][v] = pde[p][i]
        PROVE  FALSE
    <3>1. CASE sp = kernel
      BY <1>1, <2>1, <3>1 DEF OneOwner
    <3>2. CASE sp # kernel
      <4>1. sp \in Procs
        BY <3>2 DEF Spaces
      <4>2. pte[sp][v] \in Nat /\ pte[sp][v] >= KernelFrames
        BY <1>1, <4>1 DEF Marked
      <4>3. pde[p][i] \in 0 .. KernelFrames - 1
        BY <1>1, <1>2 DEF Pools
      <4>4. QED
        BY <2>1, <4>2, <4>3, FrameCounts
    <3>3. QED
      BY <3>1, <3>2
  <2>2. CASE \E sp \in Spaces : \E v \in DOMAIN pte[sp] :
               u = <<"page", sp, v>> /\ Frame(u) = pte[sp][v]
    <3>1. PICK sp \in Spaces : \E v \in DOMAIN pte[sp] :
               u = <<"page", sp, v>> /\ Frame(u) = pte[sp][v]
      BY <2>2
    <3>2. PICK v \in DOMAIN pte[sp] : u = <<"page", sp, v>> /\ Frame(u) = pte[sp][v]
      BY <3>1
    <3>3. PICK sq \in Spaces : \E y \in DOMAIN pte[sq] :
               w = <<"page", sq, y>> /\ Frame(w) = pte[sq][y]
      BY <1>3, <2>1, <3>2, InUseIs
    <3>4. PICK y \in DOMAIN pte[sq] : w = <<"page", sq, y>> /\ Frame(w) = pte[sq][y]
      BY <3>3
    <3>5. pte[sp][v] = pte[sq][y] => sp = sq /\ v = y
      BY <1>1 DEF OneOwner
    <3>6. QED
      BY <1>3, <3>2, <3>4, <3>5
  <2>3. CASE \E p \in Procs : \E i \in DOMAIN pde[p] :
               u = <<"table", p, i>> /\ Frame(u) = pde[p][i]
    <3>1. PICK p \in Procs : \E i \in DOMAIN pde[p] :
               u = <<"table", p, i>> /\ Frame(u) = pde[p][i]
      BY <2>3
    <3>2. PICK i \in DOMAIN pde[p] : u = <<"table", p, i>> /\ Frame(u) = pde[p][i]
      BY <3>1
    <3>3. PICK q \in Procs : \E j \in DOMAIN pde[q] :
               w = <<"table", q, j>> /\ Frame(w) = pde[q][j]
      BY <1>3, <2>1, <3>2, InUseIs
    <3>4. PICK j \in DOMAIN pde[q] : w = <<"table", q, j>> /\ Frame(w) = pde[q][j]
      BY <3>3
    <3>5. pde[p][i] = pde[q][j] /\ pde[p][i] # -1 => p = q /\ i = j
      BY <1>1 DEF OneOwner
    <3>6. QED
      BY <1>2, <1>3, <3>2, <3>4, <3>5
  <2>4. QED
    BY <1>3, <2>2, <2>3, InUseIs
<1>4. FrameOwnedOnce
  BY <1>3 DEF FrameOwnedOnce
<1>5. FramesAccounted
  <2> DEFINE used == {Frame(u) : u \in {x \in Uses : InUse(x)}}
  <2> SUFFICES used = kernel_pool \cup {KernelFrames + i : i \in user_pool}
    BY DEF FramesAccounted
  <2>1. \A i \in user_pool : i \in Nat
    BY <1>1, FrameCounts DEF Pools
  <2>2. ASSUME NEW f \in used
        PROVE  f \in kernel_pool \cup {KernelFrames + i : i \in user_pool}
    <3>1. PICK u \in Uses : InUse(u) /\ f = Frame(u)
      OBVIOUS
    <3>2. CASE \E sp \in Spaces : \E v \in DOMAIN pte[sp] : Frame(u) = pte[sp][v]
      <4>1. PICK sp \in Spaces : \E v \in DOMAIN pte[sp] : Frame(u) = pte[sp][v]
        BY <3>2
      <4>2. PICK v \in DOMAIN pte[sp] : Frame(u) = pte[sp][v]
        BY <4>1
      <4>3. CASE sp = kernel
        BY <1>1, <3>1, <4>2, <4>3 DEF Marked
      <4>4. CASE sp # kernel
        <5>1. f \in Nat /\ f >= KernelFrames /\ f - KernelFrames \in user_pool
          BY <1>1, <3>1, <4>2, <4>4 DEF Marked, Spaces
        <5>2. f = KernelFrames + (f - KernelFrames)
          BY <5>1, FrameCounts
        <5>3. QED
          BY <5>1, <5>2
      <4>5. QED
        BY <4>3, <4>4
    <3>3. CASE \E p \in Procs : \E i \in DOMAIN pde[p] : Frame(u) = pde[p][i]
      BY <1>2, <3>1, <3>3
    <3>4. QED
      BY <3>1, <3>2, <3>3, InUseIs
  <2>3. ASSUME NEW f \in kernel_pool \cup {KernelFrames + i : i \in user_pool}
        PROVE  \E u \in Uses : InUse(u) /\ Frame(u) = f
    <3>1. CASE f \in kernel_pool
      BY <1>1, <3>1, PageInUse, TableInUse DEF Taken, Spaces
    <3>2. CASE f \notin kernel_pool
      <4>1. PICK i \in user_pool : f = KernelFrames + i
        BY <3>2
      <4>2. PICK p \in Procs : \E v \in DOMAIN pte[p] : pte[p][v] = f
        BY <1>1, <4>1 DEF Taken
      <4>3. p \in Spaces
        BY DEF Spaces
      <4>4. QED
        BY <4>2, <4>3, PageInUse
    <3>3. QED
      BY <3>1, <3>2
  <2>4. \A f : f \in used <=> \E u \in Uses : InUse(u) /\ Frame(u) = f
    OBVIOUS
  <2> HIDE DEF used
  <2>5. QED
    BY <2>2, <2>3, <2>4
<1>6. QED
  BY <1>4, <1>5

LEMMA AllocInvImplies == AllocInv => PagesInv
<1> SUFFICES ASSUME AllocInv PROVE PagesInv
  OBVIOUS
<1>1. TypeOK
  BY DEF AllocInv, TypeOK, PagesTypes, Pools, Calls
<1>2. ASSUME Undisturbed, panic = "none"
      PROVE  FrameOwnedOnce /\ FramesAccounted /\ BlocksSound
  <2>1. Owned(kernel_pool, user_pool, pte, pde) /\ ClaimInv /\ UserInv /\ HeldInv
    BY <1>2 DEF AllocInv, StrongInv, WeakInv
  <2>2. FrameOwnedOnce /\ FramesAccounted
    BY <1>2, <2>1, OwnedImplies DEF Undisturbed
  <2>3. ASSUME NEW b \in blocks, NEW v \in page_range(b[2], b[3])
        PROVE  v \in vaddr_bitmap[b[1]] /\ Mapped(b[1], v)
    <3>1. v \in DOMAIN pte[b[1]]
      BY <2>1 DEF UserInv, UserBlocks, HeldInv, KernelBlocks
    <3>2. v \in vaddr_bitmap[b[1]]
      BY <2>1 DEF UserInv, UserBlocks, ClaimInv
    <3>3. QED
      BY <3>1, <3>2 DEF Mapped
  <2>4. ASSUME NEW b \in blocks, NEW c \in blocks, b # c, b[1] = c[1]
        PROVE  page_range(b[2], b[3]) \cap page_range(c[2], c[3]) = {}
    BY <2>1, <2>4 DEF UserInv, UserBlocks, HeldInv, KernelBlocksApart
  <2>5. BlocksSound
    BY <2>3, <2>4 DEF BlocksSound
  <2>6. QED
    BY <2>2, <2>5
<1>3. QED
  BY <1>1, <1>2 DEF PagesInv, AllocInv

-----------------------------------------------------------------------------
LEMMA AllocInit == Init => AllocInv
<1> SUFFICES ASSUME Init PROVE AllocInv
  OBVIOUS
<1>1. /\ kernel_pool = {} /\ user_pool = {} /\ blocks = {} /\ panic = "none"
      /\ vaddr_bitmap = [sp \in Spaces |-> {}]
      /\ pte = [sp \in Spaces |-> empty_map] /\ pde = [p \in Procs |-> empty_map]
      /\ user_lock = NULL /\ step = [p \in Procs |-> "start_process"]
      /\ scanned = [p \in Procs |-> -1]
      /\ kernel_lock = NULL /\ call = [t \in KThreads |-> no_call]
  BY DEF Init, bitmap_init
<1>2. DOMAIN empty_map = {}
  BY DEF empty_map
<1>3. /\ \A sp \in Spaces : pte[sp] = empty_map /\ vaddr_bitmap[sp] = {}
      /\ \A p \in Procs : pde[p] = empty_map /\ step[p] = "start_process"
      /\ kernel \in Spaces /\ \A p \in Procs : p \in Spaces
  BY <1>1 DEF Spaces
<1>4. /\ no_call \in Calls /\ CallOf(no_call) /\ no_call.at = "none"
  BY DEF no_call, Calls, CallOf
<1>5. \A t \in KThreads : call[t] = no_call /\ Held(t) = {} /\ Claim(t) = {}
  BY <1>1, <1>4 DEF Held, Claim
<1>6. PagesTypes
  <2>1. call \in [KThreads -> Calls] /\ \A t \in KThreads : CallOf(call[t])
    BY <1>1, <1>4
  <2>2. \A v \in DOMAIN pte[kernel] : pte[kernel][v] \in 0 .. KernelFrames - 1
    BY <1>2, <1>3
  <2>3. QED
    BY <1>1, <1>2, <1>3, <2>1, <2>2 DEF PagesTypes, Pools
<1>7. LockOutlivesOnlyFailure
  BY <1>3 DEF LockOutlivesOnlyFailure
<1>8. StepInv
  BY <1>1, <1>2, <1>3, Sizes DEF StepInv, StepOf
<1>9. HeldInv
  BY <1>1, <1>5 DEF HeldInv, HeldMapped, HeldApart, KernelBlocks, KernelBlocksApart
<1>10. Owned(kernel_pool, user_pool, pte, pde)
  <2>1. OneOwner(pte, pde)
    BY <1>2, <1>3 DEF OneOwner
  <2>2. Marked(kernel_pool, user_pool, pte, pde) /\ Taken(kernel_pool, user_pool, pte, pde)
    BY <1>1, <1>2, <1>3 DEF Marked, Taken
  <2>3. QED
    BY <1>1, <2>1, <2>2 DEF Owned, Pools
<1>11. ClaimInv
  BY <1>1, <1>5 DEF ClaimInv
<1>12. UserInv
  BY <1>1, <1>3 DEF UserInv, UserBlocks, FirstFrameIsStack, StackOrLock
<1>13. FirstUserFrameKept
  BY <1>1 DEF FirstUserFrameKept
<1>14. QED
  BY <1>6, <1>7, <1>8, <1>9, <1>10, <1>11, <1>12, <1>13 DEF AllocInv, WeakInv, StrongInv


-----------------------------------------------------------------------------
(* The steps of a kernel thread's malloc_pages.                            *)
LEMMA KernelMallocKeeps ==
    ASSUME NEW t \in KThreads, NEW n \in KernelReq, NEW locked, AllocInv,
           kernel_malloc(t, n, locked)
    PROVE  AllocInv'
<1>1. PagesTypes /\ panic = "none" /\ WeakInv /\ LockOutlivesOnlyFailure
  BY DEF AllocInv, kernel_malloc
<1>2. PICK first \in {vaddr_get(kernel, n)} \ {-1} :
        call' = [call EXCEPT ![t] = [at |-> "vaddr_set", first |-> first, cnt |-> n,
                                     next |-> first, idx |-> 0]]
  BY Zenon DEF kernel_malloc
<1>3. /\ call[t].at = "none" /\ kernel_lock' = IF locked THEN t ELSE kernel_lock
      /\ UNCHANGED <<kernel_pool, user_pool, vaddr_bitmap, pte, pde, user_lock, step,
                     scanned, blocks, collision, panic>>
  BY Zenon DEF kernel_malloc
<1>4. first \in Nat /\ n \in Nat /\ n > 0
  <2>1. KernelBytes \in Nat /\ n \in Nat /\ n > 0
    BY Sizes
  <2>2. QED
    BY <2>1, ScanMany DEF vaddr_get, vaddr_bytes
<1> DEFINE c == [at |-> "vaddr_set", first |-> first, cnt |-> n, next |-> first, idx |-> 0]
<1>5. c \in Calls /\ CallOf(c) /\ c.at = "vaddr_set"
  BY <1>4 DEF Calls, CallOf
<1>6. call' = [call EXCEPT ![t] = c]
  BY <1>2
<1> HIDE DEF c
<1>7. /\ call' \in [KThreads -> Calls] /\ \A u \in KThreads : CallOf(call'[u])
      /\ call'[t] = c
      /\ \A u \in KThreads : u # t => Held(u)' = Held(u) /\ Claim(u)' = Claim(u)
  BY <1>1, <1>5, <1>6, NewCall
<1>8. Held(t)' = {} /\ Claim(t)' = {}
  BY <1>5, <1>7 DEF Held, Claim
<1>9. ProcsKept /\ KernelKept
  BY <1>3, <1>7, <1>8 DEF ProcsKept, KernelKept
<1>10. PagesTypes'
  BY <1>1, <1>3, <1>7 DEF PagesTypes
<1>11. LockOutlivesOnlyFailure' /\ WeakInv'
  BY <1>1, <1>9, ProcsStay, KernelStays DEF WeakInv
<1>12. Undisturbed' => Undisturbed
  BY <1>3 DEF Undisturbed, TableAtZero
<1>13. StrongInv => StrongInv'
  BY <1>1, <1>3, <1>9, ProcsStay, KernelStays DEF StrongInv
<1>14. QED
  BY <1>1, <1>3, <1>10, <1>11, <1>12, <1>13, Running

LEMMA VaddrSetKeeps ==
    ASSUME NEW t \in KThreads, AllocInv, vaddr_set(t)
    PROVE  AllocInv'
<1>1. PagesTypes /\ panic = "none" /\ WeakInv /\ LockOutlivesOnlyFailure
  BY DEF AllocInv, vaddr_set
<1>2. /\ call[t].at = "vaddr_set"
      /\ vaddr_bitmap' = [vaddr_bitmap EXCEPT ![kernel] = @ \cup call_pages(t)]
      /\ collision' = (collision \/ call_pages(t) \cap vaddr_bitmap[kernel] # {})
      /\ call' = [call EXCEPT ![t].at = "scan"]
      /\ UNCHANGED <<kernel_pool, user_pool, pte, pde, user_lock, kernel_lock, step,
                     scanned, blocks, panic>>
  BY DEF vaddr_set
<1>3. call[t] \in Calls /\ CallOf(call[t])
  BY <1>1 DEF PagesTypes
<1> DEFINE c == [call[t] EXCEPT !.at = "scan"]
<1>4. c \in Calls /\ CallOf(c) /\ c.at = "scan" /\ c.first = call[t].first
      /\ c.cnt = call[t].cnt /\ c.next = call[t].first
  BY <1>2, <1>3 DEF Calls, CallOf
<1>5. call' = [call EXCEPT ![t] = c]
  BY <1>2
<1> HIDE DEF c
<1>6. /\ call' \in [KThreads -> Calls] /\ \A u \in KThreads : CallOf(call'[u])
      /\ call'[t] = c
      /\ \A u \in KThreads : u # t => Held(u)' = Held(u) /\ Claim(u)' = Claim(u)
  BY <1>1, <1>4, <1>5, NewCall
<1>7. Held(t)' = {} /\ Claim(t)' = call_pages(t) /\ Held(t) = {} /\ Claim(t) = {}
  <2>1. call'[t].at = "scan" /\ call'[t].first = call[t].first
        /\ call'[t].cnt = call[t].cnt /\ call'[t].next = call[t].first
    BY <1>4, <1>6
  <2>2. Held(t)' = call[t].first .. call[t].first - 1
    BY <2>1 DEF Held
  <2>3. call[t].first .. call[t].first - 1 = {}
    BY <1>3 DEF Calls
  <2>4. Held(t) = {} /\ Claim(t) = {}
    BY <1>2 DEF Held, Claim
  <2>5. Claim(t)' = call_pages(t)
    BY <2>1 DEF Claim, call_pages
  <2>6. QED
    BY <2>2, <2>3, <2>4, <2>5
<1>8. /\ DOMAIN vaddr_bitmap' = Spaces /\ vaddr_bitmap'[kernel] = vaddr_bitmap[kernel] \cup call_pages(t)
      /\ \A x \in Spaces : x # kernel => vaddr_bitmap'[x] = vaddr_bitmap[x]
  BY <1>1, <1>2 DEF PagesTypes, Spaces
<1>9. call_pages(t) \subseteq Nat
  BY <1>3 DEF call_pages, page_range, Calls
<1>10. ProcsKept
  BY <1>2, <1>8, Sizes DEF ProcsKept, Spaces
<1>11. PagesTypes'
  <2>1. \A x \in Spaces : vaddr_bitmap'[x] \subseteq Nat
    BY <1>1, <1>8, <1>9 DEF PagesTypes
  <2>2. QED
    BY <1>1, <1>2, <1>6, <1>8, <2>1 DEF PagesTypes
<1>12. HeldInv'
  <2>1. \A u \in KThreads : Held(u)' = Held(u)
    BY <1>6, <1>7
  <2>2. HeldMapped' /\ HeldApart' /\ KernelBlocks' /\ KernelBlocksApart'
    BY <1>1, <1>2, <2>1 DEF WeakInv, HeldInv, HeldMapped, HeldApart, KernelBlocks, KernelBlocksApart
  <2>3. QED
    BY <2>2 DEF HeldInv
<1>13. LockOutlivesOnlyFailure' /\ WeakInv'
  BY <1>1, <1>10, <1>12, ProcsStay DEF WeakInv
<1>14. Undisturbed' => Undisturbed /\ call_pages(t) \cap vaddr_bitmap[kernel] = {}
  BY <1>2 DEF Undisturbed, TableAtZero
<1>15. ASSUME StrongInv, call_pages(t) \cap vaddr_bitmap[kernel] = {}
       PROVE  StrongInv'
  <2>1. ClaimInv'
    <3>1. \A u \in KThreads : u # t => Claim(u)' = Claim(u) /\ Claim(u) \cap call_pages(t) = {}
      BY <1>6, <1>15 DEF StrongInv, ClaimInv
    <3>2. \A u \in KThreads : Claim(u)' \subseteq vaddr_bitmap'[kernel]
      BY <1>7, <1>8, <1>15, <3>1 DEF StrongInv, ClaimInv
    <3>3. \A u, w \in KThreads : u # w => Claim(u)' \cap Claim(w)' = {}
      BY <1>7, <1>15, <3>1 DEF StrongInv, ClaimInv
    <3>4. ASSUME NEW b \in blocks, b[1] = kernel
          PROVE  /\ page_range(b[2], b[3]) \subseteq vaddr_bitmap'[kernel]
                 /\ \A u \in KThreads : page_range(b[2], b[3]) \cap Claim(u)' = {}
      BY <1>7, <1>8, <1>15, <3>1, <3>4 DEF StrongInv, ClaimInv
    <3>5. blocks' = blocks
      BY <1>2
    <3>6. QED
      BY <3>2, <3>3, <3>4, <3>5 DEF ClaimInv
  <2>2. QED
    BY <1>1, <1>2, <1>10, <1>15, <2>1, ProcsStay DEF StrongInv
<1>16. QED
  BY <1>1, <1>2, <1>11, <1>13, <1>14, <1>15, Running

LEMMA PallocScanKeeps ==
    ASSUME NEW t \in KThreads, AllocInv, palloc_scan(t)
    PROVE  AllocInv'
<1>1. PagesTypes /\ panic = "none" /\ WeakInv /\ LockOutlivesOnlyFailure
  BY DEF AllocInv, palloc_scan
<1>2. PICK idx \in {bitmap_scan(kernel_pool, KernelBytes, 1)} :
         IF idx = -1 THEN call_returns(t)
         ELSE /\ call' = [call EXCEPT ![t] = [call[t] EXCEPT !.at = "set", !.idx = idx]]
              /\ UNCHANGED kernel_lock
  BY Zenon DEF palloc_scan
<1>3. /\ call[t].at = "scan"
      /\ UNCHANGED <<kernel_pool, user_pool, vaddr_bitmap, pte, pde, user_lock, step,
                     scanned, blocks, collision, panic>>
  BY Zenon DEF palloc_scan
<1>4. idx = -1 \/ idx \in 0 .. KernelFrames - 1
  BY ScanOne, FrameCounts, Sizes
<1>5. call[t] \in Calls /\ CallOf(call[t]) /\ kernel_lock \in KThreads \cup {NULL}
  BY <1>1 DEF PagesTypes
<1>6. PICK c \in Calls : /\ CallOf(c) /\ call' = [call EXCEPT ![t] = c]
                         /\ \/ c.at = "none"
                            \/ /\ c.at = "set" /\ c.first = call[t].first
                               /\ c.cnt = call[t].cnt /\ c.next = call[t].next
  <2>1. CASE idx = -1
    <3>1. no_call \in Calls /\ CallOf(no_call) /\ no_call.at = "none"
      BY DEF no_call, Calls, CallOf
    <3>2. call' = [call EXCEPT ![t] = no_call]
      BY <1>2, <2>1 DEF call_returns
    <3>3. QED
      BY <3>1, <3>2
  <2>2. CASE idx # -1
    <3> DEFINE d == [call[t] EXCEPT !.at = "set", !.idx = idx]
    <3>1. d \in Calls /\ CallOf(d) /\ d.at = "set" /\ d.first = call[t].first
          /\ d.cnt = call[t].cnt /\ d.next = call[t].next
      <4>1. idx \in Nat /\ idx < KernelFrames
        BY <1>4, <2>2, FrameCounts
      <4>2. /\ d \in Calls /\ d.at = "set" /\ d.first = call[t].first /\ d.idx = idx
            /\ d.cnt = call[t].cnt /\ d.next = call[t].next
        BY <1>5, <4>1 DEF Calls
      <4>3. call[t].first <= call[t].next /\ call[t].next < call[t].first + call[t].cnt
            /\ call[t].cnt > 0
        BY <1>3, <1>5 DEF CallOf
      <4> HIDE DEF d
      <4>4. CallOf(d)
        BY <4>1, <4>2, <4>3 DEF CallOf
      <4>5. QED
        BY <4>2, <4>4
    <3>2. call' = [call EXCEPT ![t] = d]
      BY <1>2, <2>2
    <3> HIDE DEF d
    <3>3. QED
      BY <3>1, <3>2
  <2>3. QED
    BY <2>1, <2>2
<1>7. kernel_lock' \in KThreads \cup {NULL}
  BY <1>2, <1>5 DEF call_returns
<1>8. /\ call' \in [KThreads -> Calls] /\ \A u \in KThreads : CallOf(call'[u])
      /\ call'[t] = c
      /\ \A u \in KThreads : u # t => Held(u)' = Held(u) /\ Claim(u)' = Claim(u)
  BY <1>1, <1>6, NewCall
<1>9. Held(t)' \subseteq Held(t) /\ Claim(t)' \subseteq Claim(t)
  <2>1. CASE c.at = "none"
    BY <1>8, <2>1 DEF Held, Claim
  <2>2. CASE c.at # "none"
    <3>1. Held(t)' = call[t].first .. call[t].next - 1
      BY <1>6, <1>8, <2>2 DEF Held
    <3>2. Held(t) = call[t].first .. call[t].next - 1
      BY <1>3 DEF Held
    <3>3. Claim(t)' = Claim(t)
      BY <1>3, <1>6, <1>8, <2>2 DEF Claim, call_pages
    <3>4. QED
      BY <3>1, <3>2, <3>3
  <2>3. QED
    BY <2>1, <2>2
<1>10. ProcsKept /\ KernelKept
  BY <1>3, <1>8, <1>9 DEF ProcsKept, KernelKept
<1>11. PagesTypes'
  BY <1>1, <1>3, <1>7, <1>8 DEF PagesTypes
<1>12. LockOutlivesOnlyFailure' /\ WeakInv'
  BY <1>1, <1>10, ProcsStay, KernelStays DEF WeakInv
<1>13. Undisturbed' => Undisturbed
  BY <1>3 DEF Undisturbed, TableAtZero
<1>14. StrongInv => StrongInv'
  BY <1>1, <1>3, <1>10, ProcsStay, KernelStays DEF StrongInv
<1>15. QED
  BY <1>1, <1>3, <1>11, <1>12, <1>13, <1>14, Running


LEMMA PallocSetKeeps ==
    ASSUME NEW t \in KThreads, AllocInv, palloc_set(t)
    PROVE  AllocInv'
<1> DEFINE i == call[t].idx
           v == call[t].next
           first == call[t].first
           cnt == call[t].cnt
           P == Held(t) \cup {v}
<1>1. PagesTypes /\ panic = "none" /\ WeakInv /\ LockOutlivesOnlyFailure
  BY DEF AllocInv, palloc_set
<1>2. /\ call[t].at = "set"
      /\ kernel_pool' = kernel_pool \cup {i}
      /\ collision' = (collision \/ i \in kernel_pool)
      /\ pte' = [pte EXCEPT ![kernel] = put(@, v, i)]
      /\ panic' = IF v \in DOMAIN pte[kernel] THEN "page_mapped" ELSE "none"
      /\ UNCHANGED <<user_pool, vaddr_bitmap, pde, user_lock, step, scanned>>
  BY DEF palloc_set, bitmap_set
<1>3. \/ /\ v + 1 = first + cnt /\ blocks' = blocks \cup {<<kernel, first, cnt>>}
         /\ call_returns(t)
      \/ /\ v + 1 # first + cnt /\ blocks' = blocks /\ kernel_lock' = kernel_lock
         /\ call' = [call EXCEPT ![t] = [call[t] EXCEPT !.at = "scan", !.next = @ + 1, !.idx = 0]]
  BY DEF palloc_set
<1>4. /\ call[t] \in Calls /\ kernel_lock \in KThreads \cup {NULL} /\ kernel \in Spaces
      /\ first \in Nat /\ cnt \in Nat /\ v \in Nat /\ cnt > 0 /\ first <= v /\ v < first + cnt
      /\ i \in Nat /\ i \in 0 .. KernelFrames - 1
  <2>1. call[t] \in Calls /\ CallOf(call[t])
    BY <1>1 DEF PagesTypes
  <2>2. first \in Nat /\ cnt \in Nat /\ v \in Nat /\ i \in Nat
    BY <2>1 DEF Calls
  <2>3. cnt > 0 /\ first <= v /\ v < first + cnt /\ i < KernelFrames
    BY <1>2, <2>1 DEF CallOf
  <2>4. QED
    BY <1>1, <2>1, <2>2, <2>3, FrameCounts DEF PagesTypes, Spaces
<1>5. /\ Held(t) = first .. v - 1 /\ Claim(t) = page_range(first, cnt)
      /\ P = first .. v
  BY <1>2, <1>4 DEF Held, Claim, call_pages
<1>6. PICK d \in Calls :
        /\ CallOf(d) /\ call' = [call EXCEPT ![t] = d]
        /\ \/ d.at = "none" /\ v + 1 = first + cnt
           \/ d.at = "scan" /\ d.first = first /\ d.cnt = cnt /\ d.next = v + 1
  <2>1. CASE v + 1 = first + cnt
    <3>1. no_call \in Calls /\ CallOf(no_call) /\ no_call.at = "none"
      BY DEF no_call, Calls, CallOf
    <3>2. call' = [call EXCEPT ![t] = no_call]
      BY <1>3, <2>1 DEF call_returns
    <3>3. QED
      BY <2>1, <3>1, <3>2
  <2>2. CASE v + 1 # first + cnt
    <3> DEFINE d == [call[t] EXCEPT !.at = "scan", !.next = @ + 1, !.idx = 0]
    <3>1. d \in Calls /\ d.at = "scan" /\ d.first = first /\ d.cnt = cnt /\ d.next = v + 1
      <4>1. PICK c : c = call[t]
        OBVIOUS
      <4>2. c \in Calls /\ c.next + 1 \in Nat
        BY <1>4, <4>1
      <4>3. PICK w \in Nat : w = c.next + 1
        BY <4>2
      <4>4. [c EXCEPT !.at = "scan", !.next = w, !.idx = 0] \in Calls
        BY <4>2 DEF Calls
      <4>5. d = [c EXCEPT !.at = "scan", !.next = w, !.idx = 0]
        BY <4>1, <4>3
      <4>6. d.at = "scan" /\ d.first = c.first /\ d.cnt = c.cnt /\ d.next = w
        BY <4>2, <4>5 DEF Calls
      <4>7. QED
        BY <4>1, <4>3, <4>4, <4>5, <4>6
    <3>2. call' = [call EXCEPT ![t] = d]
      BY <1>3, <2>2
    <3> HIDE DEF d
    <3>3. CallOf(d)
      BY <1>4, <2>2, <3>1 DEF CallOf
    <3>4. QED
      BY <3>1, <3>2, <3>3
  <2>3. QED
    BY <2>1, <2>2
<1>7. /\ call' \in [KThreads -> Calls] /\ \A u \in KThreads : CallOf(call'[u])
      /\ call'[t] = d
      /\ \A u \in KThreads : u # t => Held(u)' = Held(u) /\ Claim(u)' = Claim(u)
  BY <1>1, <1>6, NewCall
<1>8. /\ DOMAIN pte' = Spaces /\ pte'[kernel] = put(pte[kernel], v, i)
      /\ \A p \in Procs : pte'[p] = pte[p]
      /\ DOMAIN pte'[kernel] = DOMAIN pte[kernel] \cup {v}
      /\ \A w \in DOMAIN pte'[kernel] : pte'[kernel][w] \in 0 .. KernelFrames - 1
  <2>1. DOMAIN pte' = Spaces /\ pte'[kernel] = put(pte[kernel], v, i)
        /\ \A p \in Procs : pte'[p] = pte[p]
    BY <1>1, <1>2, <1>4, Sizes DEF PagesTypes, Spaces
  <2>2. DOMAIN pte'[kernel] = DOMAIN pte[kernel] \cup {v}
        /\ \A w \in DOMAIN pte'[kernel] : pte'[kernel][w] \in 0 .. KernelFrames - 1
    BY <1>1, <1>4, <2>1 DEF PagesTypes, put
  <2>3. QED
    BY <2>1, <2>2
<1>9. ProcsKept
  BY <1>2, <1>3, <1>8 DEF ProcsKept
<1>10. PagesTypes'
  <2>1. Pools(kernel_pool', user_pool')
    BY <1>1, <1>2, <1>4 DEF PagesTypes, Pools
  <2>2. \A x \in Spaces : DOMAIN pte'[x] \subseteq Nat
    BY <1>1, <1>4, <1>8 DEF PagesTypes, Spaces
  <2>3. kernel_lock' \in KThreads \cup {NULL}
    BY <1>3, <1>4 DEF call_returns
  <2>4. \A b \in blocks' : /\ b = <<b[1], b[2], b[3]>>
                           /\ b[1] \in Spaces /\ b[2] \in Nat /\ b[3] \in Nat \ {0}
    BY <1>1, <1>3, <1>4 DEF PagesTypes
  <2>5. QED
    BY <1>1, <1>2, <1>7, <1>8, <2>1, <2>2, <2>3, <2>4 DEF PagesTypes
<1>11. LockOutlivesOnlyFailure' /\ StepInv'
  BY <1>1, <1>9, ProcsStay DEF WeakInv
<1>12. CASE v \in DOMAIN pte[kernel]
  <2>1. panic' = "page_mapped"
    BY <1>2, <1>12
  <2>2. FirstUserFrameKept'
    BY <2>1 DEF FirstUserFrameKept
  <2>3. QED
    BY <1>10, <1>11, <2>1, <2>2 DEF AllocInv
<1>13. CASE v \notin DOMAIN pte[kernel]
  <2>1. panic' = "none"
    BY <1>2, <1>13
  <2>2. /\ P \subseteq DOMAIN pte'[kernel]
        /\ \A u \in KThreads : u # t => P \cap Held(u) = {}
        /\ \A b \in blocks : b[1] = kernel => P \cap page_range(b[2], b[3]) = {}
    <3>1. HeldMapped /\ HeldApart /\ KernelBlocks
      BY <1>1 DEF WeakInv, HeldInv
    <3>2. QED
      BY <1>8, <1>13, <3>1 DEF HeldMapped, HeldApart, KernelBlocks
  <2>3. \/ /\ Held(t)' = P /\ Claim(t)' = Claim(t) /\ blocks' = blocks
        \/ /\ Held(t)' = {} /\ Claim(t)' = {}
           /\ blocks' = blocks \cup {<<kernel, first, cnt>>}
           /\ page_range(first, cnt) = P
    <3>1. CASE d.at = "none"
      <4>1. first + cnt - 1 = v
        BY <1>4, <1>6, <3>1
      <4>2. page_range(first, cnt) = P
        BY <1>5, <4>1 DEF page_range
      <4>3. Held(t)' = {} /\ Claim(t)' = {}
        BY <1>7, <3>1 DEF Held, Claim
      <4>4. blocks' = blocks \cup {<<kernel, first, cnt>>}
        BY <1>3, <1>6, <3>1
      <4>5. QED
        BY <4>2, <4>3, <4>4
    <3>2. CASE d.at # "none"
      <4>1. d.at = "scan" /\ d.first = first /\ d.cnt = cnt /\ d.next = v + 1
        BY <1>6, <3>2
      <4>2. v + 1 # first + cnt
        <5>1. d.at = "scan" => d.next < d.first + d.cnt
          BY <1>6 DEF CallOf
        <5>2. QED
          BY <1>4, <4>1, <5>1
      <4>3. blocks' = blocks
        BY <1>3, <4>2
      <4>4. Held(t)' = first .. (v + 1) - 1
        BY <1>7, <4>1 DEF Held
      <4>5. Claim(t)' = Claim(t)
        BY <1>2, <1>7, <4>1 DEF Claim, call_pages
      <4>6. (v + 1) - 1 = v
        BY <1>4
      <4>7. QED
        BY <1>5, <4>3, <4>4, <4>5, <4>6
    <3>3. QED
      BY <3>1, <3>2
  <2> HIDE DEF P
  <2>4. \A u \in KThreads : u # t => Held(u)' \cap Held(t)' = {} /\ Held(u)' = Held(u)
    BY <1>7, <2>2, <2>3
  <2>5. HeldInv'
    <3>1. HeldMapped /\ HeldApart /\ KernelBlocks /\ KernelBlocksApart
      BY <1>1 DEF WeakInv, HeldInv
    <3>2. HeldMapped'
      BY <1>8, <2>2, <2>3, <2>4, <3>1 DEF HeldMapped
    <3>3. HeldApart'
      BY <2>4, <3>1 DEF HeldApart
    <3>4. ASSUME NEW b \in blocks', b[1] = kernel
          PROVE  /\ page_range(b[2], b[3]) \subseteq DOMAIN pte'[kernel]
                 /\ \A u \in KThreads : page_range(b[2], b[3]) \cap Held(u)' = {}
      <4>1. CASE b \in blocks
        BY <1>8, <2>2, <2>3, <2>4, <3>1, <3>4, <4>1 DEF KernelBlocks
      <4>2. CASE b \notin blocks
        <5>1. b = <<kernel, first, cnt>> /\ page_range(first, cnt) = P /\ Held(t)' = {}
          BY <2>3, <4>2
        <5>2. page_range(b[2], b[3]) = P
          BY <5>1
        <5>3. QED
          BY <2>2, <2>4, <5>1, <5>2
      <4>3. QED
        BY <4>1, <4>2
    <3>5. ASSUME NEW b \in blocks', NEW e \in blocks', b # e, b[1] = kernel, e[1] = kernel
          PROVE  page_range(b[2], b[3]) \cap page_range(e[2], e[3]) = {}
      <4>1. \A x \in blocks' : x \notin blocks =>
              x = <<kernel, first, cnt>> /\ page_range(x[2], x[3]) = P
        BY <2>3
      <4>2. QED
        BY <2>2, <3>1, <3>5, <4>1 DEF KernelBlocksApart
    <3>6. QED
      BY <3>2, <3>3, <3>4, <3>5 DEF HeldInv, KernelBlocks, KernelBlocksApart
  <2>6. Undisturbed' => Undisturbed /\ i \notin kernel_pool
    BY <1>2 DEF Undisturbed, TableAtZero
  <2>7. ASSUME StrongInv, i \notin kernel_pool
        PROVE  StrongInv'
    <3>1. Owned(kernel_pool', user_pool', pte', pde')
      BY <1>2, <1>4, <1>8, <1>13, <2>7, OwnKernelPage DEF StrongInv
    <3>2. ClaimInv'
      <4>1. ClaimInv /\ vaddr_bitmap' = vaddr_bitmap
        BY <1>2, <2>7 DEF StrongInv
      <4>2. \A u \in KThreads : Claim(u)' \subseteq Claim(u)
        BY <1>7, <2>3
      <4>3. ASSUME NEW b \in blocks', b[1] = kernel
            PROVE  /\ page_range(b[2], b[3]) \subseteq vaddr_bitmap[kernel]
                   /\ \A u \in KThreads : page_range(b[2], b[3]) \cap Claim(u)' = {}
        <5>1. CASE b \in blocks
          BY <4>1, <4>2, <4>3, <5>1 DEF ClaimInv
        <5>2. CASE b \notin blocks
          <6>1. b = <<kernel, first, cnt>> /\ Claim(t)' = {}
            BY <2>3, <5>2
          <6>2. page_range(b[2], b[3]) = Claim(t)
            BY <1>5, <6>1
          <6>3. QED
            BY <1>7, <4>1, <6>1, <6>2 DEF ClaimInv
        <5>3. QED
          BY <5>1, <5>2
      <4>4. QED
        BY <4>1, <4>2, <4>3 DEF ClaimInv
    <3>3. UserInv'
      BY <1>1, <1>9, <2>7, ProcsStay DEF StrongInv
    <3>4. QED
      BY <3>1, <3>2, <3>3 DEF StrongInv
  <2>8. WeakInv'
    BY <1>11, <2>5 DEF WeakInv
  <2>9. QED
    BY <1>1, <1>10, <1>11, <2>1, <2>6, <2>7, <2>8, Running
<1>14. QED
  BY <1>12, <1>13


(* The steps of a kernel thread's mfree_page.                              *)
LEMMA KernelFreeKeeps ==
    ASSUME NEW t \in KThreads, NEW b \in blocks, AllocInv, kernel_free(t, b)
    PROVE  AllocInv'
<1> DEFINE d == [at |-> "free", first |-> b[2], cnt |-> b[3], next |-> b[2], idx |-> 0]
           R == page_range(b[2], b[3])
<1>1. PagesTypes /\ panic = "none" /\ WeakInv /\ LockOutlivesOnlyFailure
  BY DEF AllocInv, kernel_free
<1>2. /\ call[t].at = "none" /\ b[1] = kernel /\ kernel_lock' = t
      /\ blocks' = blocks \ {b} /\ call' = [call EXCEPT ![t] = d]
      /\ UNCHANGED <<kernel_pool, user_pool, vaddr_bitmap, pte, pde, user_lock, step,
                     scanned, collision, panic>>
  BY DEF kernel_free
<1>3. b[2] \in Nat /\ b[3] \in Nat /\ b[3] > 0
  BY <1>1 DEF PagesTypes
<1>4. d \in Calls /\ CallOf(d) /\ d.at = "free" /\ d.first = b[2] /\ d.cnt = b[3]
      /\ d.next = b[2]
  BY <1>3 DEF Calls, CallOf
<1> HIDE DEF d
<1>5. /\ call' \in [KThreads -> Calls] /\ \A u \in KThreads : CallOf(call'[u])
      /\ call'[t] = d
      /\ \A u \in KThreads : u # t => Held(u)' = Held(u) /\ Claim(u)' = Claim(u)
  BY <1>1, <1>2, <1>4, NewCall
<1>6. Held(t)' = R /\ Claim(t)' = R
  BY <1>4, <1>5 DEF Held, Claim, call_pages, page_range
<1>7. ProcsKept
  BY <1>2 DEF ProcsKept
<1>8. PagesTypes'
  BY <1>1, <1>2, <1>5 DEF PagesTypes
<1>9. HeldMapped /\ HeldApart /\ KernelBlocks /\ KernelBlocksApart
  BY <1>1 DEF WeakInv, HeldInv
<1>10. /\ R \subseteq DOMAIN pte[kernel]
       /\ \A u \in KThreads : R \cap Held(u) = {}
       /\ \A e \in blocks' : e[1] = kernel => R \cap page_range(e[2], e[3]) = {}
  BY <1>2, <1>9 DEF KernelBlocks, KernelBlocksApart
<1> HIDE DEF R
<1>11. HeldInv'
  <2>1. HeldMapped' /\ HeldApart'
    BY <1>2, <1>5, <1>6, <1>9, <1>10 DEF HeldMapped, HeldApart
  <2>2. KernelBlocks' /\ KernelBlocksApart'
    BY <1>2, <1>5, <1>6, <1>9, <1>10 DEF KernelBlocks, KernelBlocksApart
  <2>3. QED
    BY <2>1, <2>2 DEF HeldInv
<1>12. LockOutlivesOnlyFailure' /\ WeakInv'
  BY <1>1, <1>7, <1>11, ProcsStay DEF WeakInv
<1>13. Undisturbed' => Undisturbed
  BY <1>2 DEF Undisturbed, TableAtZero
<1>14. ASSUME StrongInv PROVE StrongInv'
  <2>1. /\ R \subseteq vaddr_bitmap[kernel]
        /\ \A u \in KThreads : R \cap Claim(u) = {}
    BY <1>2, <1>14 DEF StrongInv, ClaimInv, R
  <2>2. ClaimInv'
    BY <1>2, <1>5, <1>6, <1>10, <1>14, <2>1 DEF StrongInv, ClaimInv
  <2>3. QED
    BY <1>1, <1>2, <1>7, <1>14, <2>2, ProcsStay DEF StrongInv
<1>15. QED
  BY <1>1, <1>2, <1>8, <1>12, <1>13, <1>14, Running

LEMMA KernelFreePageKeeps ==
    ASSUME NEW t \in KThreads, AllocInv, kernel_free_page(t)
    PROVE  AllocInv'
<1> DEFINE v == call[t].next
           first == call[t].first
           cnt == call[t].cnt
           F == {pte[kernel][v]}
<1>1. PagesTypes /\ panic = "none" /\ WeakInv /\ LockOutlivesOnlyFailure
  BY DEF AllocInv, kernel_free_page
<1>2. /\ call[t].at = "free" /\ v < first + cnt
      /\ kernel_pool' = kernel_pool \ F /\ user_pool' = user_pool \ UserBits(F)
      /\ pte' = [pte EXCEPT ![kernel] = drop(@, {v})]
      /\ call' = [call EXCEPT ![t] = [call[t] EXCEPT !.next = @ + 1]]
      /\ UNCHANGED <<vaddr_bitmap, pde, user_lock, kernel_lock, step, scanned, blocks,
                     collision, panic>>
  BY DEF kernel_free_page, pfree, page_table_pte_remove, UserBits
<1>3. /\ call[t] \in Calls /\ CallOf(call[t]) /\ first \in Nat /\ cnt \in Nat /\ v \in Nat
      /\ first <= v /\ cnt > 0
  BY <1>1, <1>2 DEF PagesTypes, Calls, CallOf
<1>4. /\ Held(t) = v .. first + cnt - 1 /\ Claim(t) = page_range(first, cnt)
      /\ v \in Held(t)
  BY <1>2, <1>3 DEF Held, Claim, call_pages
<1>5. HeldMapped /\ HeldApart /\ KernelBlocks /\ KernelBlocksApart
  BY <1>1 DEF WeakInv, HeldInv
<1>6. v \in DOMAIN pte[kernel] /\ pte[kernel][v] \in 0 .. KernelFrames - 1
  BY <1>1, <1>4, <1>5 DEF HeldMapped, PagesTypes
<1>7. user_pool' = user_pool
  <2>1. \A f \in F : f - KernelFrames \notin user_pool
    BY <1>1, <1>6, FrameCounts DEF PagesTypes, Pools
  <2>2. QED
    BY <1>2, <2>1 DEF UserBits
<1>8. PICK d \in Calls :
        /\ CallOf(d) /\ call' = [call EXCEPT ![t] = d] /\ d.at = "free" /\ d.first = first
        /\ d.cnt = cnt /\ d.next = v + 1
  <2>1. PICK c : c = call[t]
    OBVIOUS
  <2>2. PICK w \in Nat : w = c.next + 1
    BY <1>3, <2>1
  <2> DEFINE d == [c EXCEPT !.next = w]
  <2>3. call' = [call EXCEPT ![t] = d]
    BY <1>2, <2>1, <2>2
  <2>4. d \in Calls /\ d.at = "free" /\ d.first = first /\ d.cnt = cnt /\ d.next = w
    BY <1>2, <1>3, <2>1 DEF Calls
  <2> HIDE DEF d
  <2>5. w = v + 1 /\ CallOf(d)
    BY <1>2, <1>3, <2>1, <2>2, <2>4 DEF CallOf
  <2>6. QED
    BY <2>3, <2>4, <2>5
<1>9. /\ call' \in [KThreads -> Calls] /\ \A u \in KThreads : CallOf(call'[u])
      /\ call'[t] = d
      /\ \A u \in KThreads : u # t => Held(u)' = Held(u) /\ Claim(u)' = Claim(u)
  BY <1>1, <1>8, NewCall
<1>10. Held(t)' = Held(t) \ {v} /\ Claim(t)' = Claim(t)
  <2>1. Held(t)' = v + 1 .. first + cnt - 1
    BY <1>8, <1>9 DEF Held
  <2>2. v + 1 .. first + cnt - 1 = (v .. first + cnt - 1) \ {v}
    BY <1>3
  <2>3. Claim(t)' = page_range(first, cnt)
    BY <1>8, <1>9 DEF Claim, call_pages
  <2>4. QED
    BY <1>4, <2>1, <2>2, <2>3
<1>11. /\ DOMAIN pte' = Spaces /\ pte'[kernel] = drop(pte[kernel], {v})
       /\ \A p \in Procs : pte'[p] = pte[p]
       /\ DOMAIN pte'[kernel] = DOMAIN pte[kernel] \ {v}
       /\ \A w \in DOMAIN pte'[kernel] : pte'[kernel][w] = pte[kernel][w]
  BY <1>1, <1>2, Sizes DEF PagesTypes, Spaces, drop
<1>12. ProcsKept
  BY <1>2, <1>7, <1>11 DEF ProcsKept
<1>13. PagesTypes'
  <2>1. Pools(kernel_pool', user_pool')
    BY <1>1, <1>2, <1>7 DEF PagesTypes, Pools
  <2>2. \A x \in Spaces : DOMAIN pte'[x] \subseteq Nat
    BY <1>1, <1>11 DEF PagesTypes, Spaces
  <2>3. \A w \in DOMAIN pte'[kernel] : pte'[kernel][w] \in 0 .. KernelFrames - 1
    BY <1>1, <1>11 DEF PagesTypes
  <2>4. QED
    BY <1>1, <1>2, <1>9, <1>11, <2>1, <2>2, <2>3 DEF PagesTypes
<1>14. HeldInv'
  <2>1. /\ \A u \in KThreads : u # t => v \notin Held(u)
        /\ \A b \in blocks : b[1] = kernel => v \notin page_range(b[2], b[3])
    BY <1>4, <1>5 DEF HeldApart, KernelBlocks
  <2>2. HeldMapped' /\ HeldApart'
    BY <1>5, <1>9, <1>10, <1>11, <2>1 DEF HeldMapped, HeldApart
  <2>3. ASSUME NEW b \in blocks, b[1] = kernel
        PROVE  /\ page_range(b[2], b[3]) \subseteq DOMAIN pte'[kernel]
               /\ \A u \in KThreads : page_range(b[2], b[3]) \cap Held(u)' = {}
    <3>1. /\ page_range(b[2], b[3]) \subseteq DOMAIN pte[kernel] \ {v}
          /\ \A u \in KThreads : page_range(b[2], b[3]) \cap Held(u) = {}
      BY <1>5, <2>1, <2>3 DEF KernelBlocks
    <3>2. \A u \in KThreads : Held(u)' \subseteq Held(u)
      BY <1>9, <1>10
    <3>3. QED
      BY <1>11, <3>1, <3>2
  <2>4. blocks' = blocks
    BY <1>2
  <2>5. KernelBlocks' /\ KernelBlocksApart'
    BY <1>5, <2>3, <2>4 DEF KernelBlocks, KernelBlocksApart
  <2>6. QED
    BY <2>2, <2>5 DEF HeldInv
<1>15. LockOutlivesOnlyFailure' /\ WeakInv'
  BY <1>1, <1>12, <1>14, ProcsStay DEF WeakInv
<1>16. Undisturbed' => Undisturbed
  BY <1>2 DEF Undisturbed, TableAtZero
<1>17. ASSUME StrongInv PROVE StrongInv'
  <2>1. Unmaps(pte, pte', kernel, {v}) /\ F = FramesOf(pte[kernel], {v}) /\ kernel \in Spaces
    BY <1>6, <1>11, Sizes DEF Unmaps, FramesOf, Spaces
  <2>2. Owned(kernel_pool', user_pool', pte', pde')
    <3> HIDE DEF F
    <3>1. PICK kp, up, pt, pd, qt, kq, uq :
             /\ kp = kernel_pool /\ up = user_pool /\ pt = pte /\ pd = pde
             /\ qt = pte' /\ kq = kernel_pool' /\ uq = user_pool'
      OBVIOUS
    <3>2. Owned(kp, up, pt, pd) /\ kq = kp \ F /\ uq = up \ UserBits(F)
      BY <1>2, <1>17, <3>1 DEF StrongInv
    <3>3. Unmaps(pt, qt, kernel, {v}) /\ F = FramesOf(pt[kernel], {v}) /\ kernel \in Spaces
      BY <2>1, <3>1
    <3>4. Owned(kq, uq, qt, pd)
      BY <3>2, <3>3, OwnLess
    <3>5. pde' = pd
      BY <1>2, <3>1
    <3>6. QED
      BY <3>1, <3>4, <3>5
  <2>3. \A u \in KThreads : Claim(u)' = Claim(u)
    BY <1>9, <1>10
  <2>4. ClaimInv'
    BY <1>2, <1>17, <2>3 DEF StrongInv, ClaimInv
  <2>5. QED
    BY <1>1, <1>12, <1>17, <2>2, <2>4, ProcsStay DEF StrongInv
<1>18. QED
  BY <1>1, <1>2, <1>13, <1>15, <1>16, <1>17, Running

LEMMA KernelFreeDoneKeeps ==
    ASSUME NEW t \in KThreads, AllocInv, kernel_free_done(t)
    PROVE  AllocInv'
<1> DEFINE R == page_range(call[t].first, call[t].cnt)
<1>1. PagesTypes /\ panic = "none" /\ WeakInv /\ LockOutlivesOnlyFailure
  BY DEF AllocInv, kernel_free_done
<1>2. /\ call[t].at = "free"
      /\ vaddr_bitmap' = [vaddr_bitmap EXCEPT ![kernel] = @ \ R]
      /\ call' = [call EXCEPT ![t] = no_call]
      /\ kernel_lock' = IF kernel_lock = t THEN NULL ELSE kernel_lock
      /\ UNCHANGED <<kernel_pool, user_pool, pte, pde, user_lock, step, scanned, blocks,
                     collision, panic>>
  BY DEF kernel_free_done, vaddr_remove, call_returns
<1>3. no_call \in Calls /\ CallOf(no_call) /\ no_call.at = "none"
  BY DEF no_call, Calls, CallOf
<1>4. /\ call' \in [KThreads -> Calls] /\ \A u \in KThreads : CallOf(call'[u])
      /\ call'[t] = no_call
      /\ \A u \in KThreads : u # t => Held(u)' = Held(u) /\ Claim(u)' = Claim(u)
  BY <1>1, <1>2, <1>3, NewCall
<1>5. Held(t)' = {} /\ Claim(t)' = {} /\ Claim(t) = R
  BY <1>2, <1>3, <1>4 DEF Held, Claim, call_pages
<1> HIDE DEF R
<1>6. /\ DOMAIN vaddr_bitmap' = Spaces /\ vaddr_bitmap'[kernel] = vaddr_bitmap[kernel] \ R
      /\ \A p \in Procs : vaddr_bitmap'[p] = vaddr_bitmap[p]
  BY <1>1, <1>2, Sizes DEF PagesTypes, Spaces
<1>7. ProcsKept
  BY <1>2, <1>6 DEF ProcsKept
<1>8. PagesTypes'
  <2>1. \A x \in Spaces : vaddr_bitmap'[x] \subseteq Nat
    BY <1>1, <1>6 DEF PagesTypes, Spaces
  <2>2. kernel_lock' \in KThreads \cup {NULL}
    BY <1>1, <1>2 DEF PagesTypes
  <2>3. QED
    BY <1>1, <1>2, <1>4, <1>6, <2>1, <2>2 DEF PagesTypes
<1>9. HeldInv'
  <2>1. HeldMapped /\ HeldApart /\ KernelBlocks /\ KernelBlocksApart
    BY <1>1 DEF WeakInv, HeldInv
  <2>2. HeldMapped' /\ HeldApart' /\ KernelBlocks' /\ KernelBlocksApart'
    BY <1>2, <1>4, <1>5, <2>1 DEF HeldMapped, HeldApart, KernelBlocks, KernelBlocksApart
  <2>3. QED
    BY <2>2 DEF HeldInv
<1>10. LockOutlivesOnlyFailure' /\ WeakInv'
  BY <1>1, <1>7, <1>9, ProcsStay DEF WeakInv
<1>11. Undisturbed' => Undisturbed
  BY <1>2 DEF Undisturbed, TableAtZero
<1>12. ASSUME StrongInv PROVE StrongInv'
  <2>1. ClaimInv
    BY <1>12 DEF StrongInv
  <2>2. \A u \in KThreads : u # t => Claim(u) \cap R = {} /\ Claim(u) \subseteq vaddr_bitmap[kernel]
    BY <1>5, <2>1 DEF ClaimInv
  <2>3. \A u \in KThreads : Claim(u)' \subseteq vaddr_bitmap'[kernel] /\ Claim(u)' \subseteq Claim(u)
    BY <1>4, <1>5, <1>6, <2>2
  <2>4. ClaimInv'
    BY <1>2, <1>5, <1>6, <2>1, <2>3 DEF ClaimInv
  <2>5. QED
    BY <1>1, <1>2, <1>7, <1>12, <2>4, ProcsStay DEF StrongInv
<1>13. QED
  BY <1>1, <1>2, <1>8, <1>10, <1>11, <1>12, Running


-----------------------------------------------------------------------------
(* The system calls of a process.  malloc_pages: what it does to the state,*)
(* from the loop's last state s.                                           *)
Malloced(p, cnt, first, s) ==
    /\ LoopInv(s, p, first, cnt)
    /\ vaddr_bitmap' = [vaddr_bitmap EXCEPT ![p] = @ \cup page_range(first, cnt)]
    /\ kernel_pool' = s.kp /\ user_pool' = s.up
    /\ pte' = Maps(s, p) /\ pde' = Tables(s, p)
    /\ panic' \in {"none", "page_mapped", "stack_page"}
    /\ panic' = "none" => ~s.fault
    /\ \/ blocks' = blocks
       \/ s.ok /\ panic' = "none" /\ blocks' = blocks \cup {<<p, first, cnt>>}

LEMMA MallocEffect ==
    ASSUME NEW p \in Procs, NEW cnt \in Nat, cnt > 0, MayMap(p), malloc_pages(p, cnt)
    PROVE  \E first \in Nat : \E s : Malloced(p, cnt, first, s)
<1>1. PICK first \in {vaddr_get(p, cnt)} \ {-1} :
        \E s \in {map_pages(p, first, cnt)} :
            /\ vaddr_bitmap' = [vaddr_bitmap EXCEPT ![p] = @ \cup page_range(first, cnt)]
            /\ kernel_pool' = s.kp
            /\ user_pool' = s.up
            /\ pte' = [pte EXCEPT ![p] = s.pt]
            /\ pde' = [pde EXCEPT ![p] = s.pd]
            /\ frame_0' = s.zero
            /\ panic' = IF first >= stack_page THEN "stack_page"
                        ELSE IF s.fault THEN "page_mapped" ELSE "none"
            /\ blocks' = IF s.ok /\ panic' = "none" THEN blocks \cup {<<p, first, cnt>>}
                         ELSE blocks
  BY Zenon DEF malloc_pages
<1>2. first \in Nat
  <2>1. vaddr_bytes(p) \in Nat
    BY Sizes DEF vaddr_bytes
  <2>2. QED
    BY <2>1, ScanMany DEF vaddr_get
<1>3. PICK s : /\ s = map_pages(p, first, cnt)
               /\ vaddr_bitmap' = [vaddr_bitmap EXCEPT ![p] = @ \cup page_range(first, cnt)]
               /\ kernel_pool' = s.kp
               /\ user_pool' = s.up
               /\ pte' = [pte EXCEPT ![p] = s.pt]
               /\ pde' = [pde EXCEPT ![p] = s.pd]
               /\ panic' = IF first >= stack_page THEN "stack_page"
                           ELSE IF s.fault THEN "page_mapped" ELSE "none"
               /\ blocks' = IF s.ok /\ panic' = "none" THEN blocks \cup {<<p, first, cnt>>}
                            ELSE blocks
  BY <1>1, Zenon
<1>4. LoopInv(s, p, first, cnt)
  BY <1>2, <1>3, LoopEnds
<1>5. panic' \in {"none", "page_mapped", "stack_page"} /\ (panic' = "none" => ~s.fault)
  BY <1>3
<1>6. \/ blocks' = blocks
      \/ s.ok /\ panic' = "none" /\ blocks' = blocks \cup {<<p, first, cnt>>}
  BY <1>3
<1>7. pte' = Maps(s, p) /\ pde' = Tables(s, p)
  BY <1>3, Zenon DEF Maps, Tables
<1>8. Malloced(p, cnt, first, s)
  BY <1>3, <1>4, <1>5, <1>6, <1>7, Zenon DEF Malloced
<1>9. QED
  BY <1>2, <1>8, Zenon

LEMMA StepImplies == StepInv => LockOutlivesOnlyFailure
  BY DEF StepInv, StepOf, LockOutlivesOnlyFailure

LEMMA UserMallocKeeps ==
    ASSUME NEW p \in Procs, NEW cnt \in UserReq, AllocInv, user_malloc(p, cnt)
    PROVE  AllocInv'
<1>1. PagesTypes /\ WeakInv /\ LockOutlivesOnlyFailure /\ panic = "none"
  BY DEF AllocInv, user_malloc
<1>2. /\ step[p] = "user" /\ user_lock \in {NULL, p} /\ malloc_pages(p, cnt)
      /\ UNCHANGED <<user_lock, kernel_lock, call, step, scanned, collision>>
      /\ cnt \in Nat /\ cnt > 0
  BY Sizes DEF user_malloc
<1>3. /\ DOMAIN pte = Spaces /\ DOMAIN pde = Procs /\ DOMAIN vaddr_bitmap = Spaces
      /\ kernel \in Spaces /\ kernel \notin Procs /\ p \in Spaces /\ p # kernel
      /\ \A q \in Procs : q \in Spaces
  BY <1>1, Sizes DEF PagesTypes, Spaces
<1>4. MayMap(p)
  BY <1>1, <1>3 DEF MayMap, PagesTypes
<1>5. PICK first \in Nat : \E z : Malloced(p, cnt, first, z)
  BY <1>2, <1>4, MallocEffect
<1>6. PICK s : Malloced(p, cnt, first, s)
  BY <1>5
<1>7. /\ LoopTypes(s, p) /\ LoopPages(s, p, first, cnt) /\ LoopFull(s, p, cnt)
      /\ LoopOwned(s, p)
  BY <1>6 DEF Malloced, LoopInv
<1>8. /\ vaddr_bitmap' = [vaddr_bitmap EXCEPT ![p] = @ \cup page_range(first, cnt)]
      /\ kernel_pool' = s.kp /\ user_pool' = s.up
      /\ pte' = [pte EXCEPT ![p] = s.pt] /\ pde' = [pde EXCEPT ![p] = s.pd]
      /\ panic' \in {"none", "page_mapped", "stack_page"}
      /\ panic' = "none" => ~s.fault
      /\ \/ blocks' = blocks
         \/ s.ok /\ panic' = "none" /\ blocks' = blocks \cup {<<p, first, cnt>>}
  BY <1>6, Zenon DEF Malloced, Maps, Tables
<1>9. /\ pte'[p] = s.pt /\ pde'[p] = s.pd
      /\ \A x \in Spaces : x # p => pte'[x] = pte[x] /\ vaddr_bitmap'[x] = vaddr_bitmap[x]
      /\ vaddr_bitmap'[p] = vaddr_bitmap[p] \cup page_range(first, cnt)
      /\ \A q \in Procs : q # p => pde'[q] = pde[q]
      /\ DOMAIN pte' = Spaces /\ DOMAIN vaddr_bitmap' = Spaces /\ DOMAIN pde' = Procs
  BY <1>3, <1>8
<1>10. page_range(first, cnt) \subseteq Nat
  BY <1>2, Ranges
<1> DEFINE nb == <<p, first, cnt>>
<1>11. nb[1] = p /\ nb[2] = first /\ nb[3] = cnt /\ nb = <<nb[1], nb[2], nb[3]>>
  OBVIOUS
<1>12. /\ \A b \in blocks' : b \in blocks \/ (s.ok /\ ~s.fault /\ b = nb)
       /\ blocks \subseteq blocks'
  BY <1>8
<1> HIDE DEF nb
<1>13. user_pool = 0 .. UserFrames - 1 => user_pool' = 0 .. UserFrames - 1
  BY <1>7, <1>8 DEF LoopTypes, Pools
<1>14. PagesTypes'
  <2>1. ASSUME NEW x \in Spaces
        PROVE  vaddr_bitmap'[x] \subseteq Nat /\ DOMAIN pte'[x] \subseteq Nat
    BY <1>1, <1>7, <1>9, <1>10 DEF PagesTypes, LoopTypes
  <2>2. Pools(kernel_pool', user_pool')
    BY <1>7, <1>8 DEF LoopTypes
  <2>3. ASSUME NEW b \in blocks'
        PROVE  b = <<b[1], b[2], b[3]>> /\ b[1] \in Spaces /\ b[2] \in Nat /\ b[3] \in Nat \ {0}
    <3>1. CASE b \in blocks
      BY <1>1, <3>1 DEF PagesTypes
    <3>2. CASE b = nb
      BY <1>2, <1>3, <1>11, <3>2
    <3>3. QED
      BY <1>12, <3>1, <3>2
  <2>4. pte'[kernel] = pte[kernel]
    BY <1>3, <1>9
  <2>5. QED
    BY <1>1, <1>2, <1>8, <1>9, <2>1, <2>2, <2>3, <2>4 DEF PagesTypes
<1>15. KernelKept
  <2>1. \A t \in KThreads : Held(t)' = Held(t) /\ Claim(t)' = Claim(t)
    BY <1>2 DEF Held, Claim, call_pages
  <2>2. \A b \in blocks' : b[1] = kernel => b \in blocks
    BY <1>3, <1>11, <1>12
  <2>3. QED
    BY <1>3, <1>9, <2>1, <2>2 DEF KernelKept
<1>16. StepOf(p)
  BY <1>1 DEF WeakInv, StepInv
<1>17. user_lock = p => s.pt = pte[p] /\ ~s.ok
  <2>1. user_lock = p => user_pool = 0 .. UserFrames - 1
    BY <1>2, <1>16 DEF StepOf
  <2>2. QED
    BY <1>2, <1>7, <2>1 DEF LoopFull
<1>18. StepInv'
  <2>1. ASSUME NEW q \in Procs, q # p
        PROVE  StepOf(q)'
    <3>1. StepOf(q)
      BY <1>1 DEF WeakInv, StepInv
    <3>2. pte'[q] = pte[q] /\ pde'[q] = pde[q] /\ step'[q] = step[q] /\ user_lock' = user_lock
          /\ scanned'[q] = scanned[q]
      BY <1>2, <1>3, <1>9, <2>1
    <3>3. \A b \in blocks' : b[1] = q => b \in blocks
      BY <1>11, <1>12, <2>1
    <3>4. QED
      BY <1>13, <3>1, <3>2, <3>3 DEF StepOf
  <2>2. StepOf(p)'
    <3>1. user_lock = p => \A b \in blocks' : b[1] # p
      BY <1>2, <1>12, <1>16, <1>17 DEF StepOf
    <3>2. QED
      BY <1>2, <1>9, <1>13, <1>16, <1>17, <3>1 DEF StepOf
  <2>3. QED
    BY <2>1, <2>2 DEF StepInv
<1>19. LockOutlivesOnlyFailure'
  BY <1>18, StepImplies, PTL
<1>20. Undisturbed' => Undisturbed /\ NoNull(s)
  <2>1. ASSUME Undisturbed' PROVE NoNull(s)
    BY <1>9, <2>1 DEF Undisturbed, TableAtZero, NoNull
  <2>2. collision => collision'
    BY <1>2
  <2>3. \A q \in Procs : Keeps(pde[q], pde'[q])
    BY <1>7, <1>9 DEF LoopTypes, Keeps
  <2>4. Undisturbed' => Undisturbed
    BY <1>3, <2>2, <2>3, Disturbed
  <2>5. QED
    BY <2>1, <2>4
<1>21. CASE panic' # "none"
  <2>1. FirstUserFrameKept'
    BY <1>8 DEF FirstUserFrameKept
  <2>2. QED
    BY <1>14, <1>19, <1>21, <2>1 DEF AllocInv
<1>22. CASE panic' = "none"
  <2>1. WeakInv'
    BY <1>1, <1>15, <1>18, KernelStays DEF WeakInv
  <2>2. ASSUME StrongInv, NoNull(s)
        PROVE  StrongInv'
    <3>1. ~s.fault
      BY <1>8, <1>22
    <3>2. Owned(kernel_pool', user_pool', pte', pde')
      BY <1>6, <1>7, <2>2, <3>1 DEF Malloced, LoopOwned, StrongInv
    <3>3. ClaimInv'
      BY <1>15, <2>2, KernelStays DEF StrongInv
    <3>4. \A x \in Spaces : \A v \in DOMAIN pte[x] : v \in DOMAIN pte'[x] /\ pte'[x][v] = pte[x][v]
      BY <1>7, <1>9, <2>2, <3>1 DEF LoopPages, Keeps
    <3>5. s.ok => /\ page_range(first, cnt) \cap DOMAIN pte[p] = {}
                  /\ page_range(first, cnt) \subseteq DOMAIN pte'[p]
      BY <1>7, <1>9, <2>2, <3>1 DEF LoopPages
    <3>6. \A b \in blocks : b[1] # kernel =>
             /\ b[1] \in Spaces /\ page_range(b[2], b[3]) \subseteq DOMAIN pte[b[1]]
             /\ page_range(b[2], b[3]) \subseteq vaddr_bitmap[b[1]]
             /\ stack_page \in DOMAIN pte[b[1]] /\ stack_page \notin page_range(b[2], b[3])
      BY <1>1, <2>2 DEF StrongInv, UserInv, UserBlocks, PagesTypes
    <3>7. s.ok => stack_page \in DOMAIN pte[p]
      BY <1>2, <1>17, <2>2 DEF StrongInv, UserInv, StackOrLock
    <3>8. UserBlocks'
      <4>1. ASSUME NEW b \in blocks', b[1] # kernel
            PROVE  /\ page_range(b[2], b[3]) \subseteq vaddr_bitmap'[b[1]]
                   /\ page_range(b[2], b[3]) \subseteq DOMAIN pte'[b[1]]
                   /\ stack_page \in DOMAIN pte'[b[1]] /\ stack_page \notin page_range(b[2], b[3])
        <5>1. CASE b \in blocks
          BY <1>9, <3>4, <3>6, <4>1, <5>1
        <5>2. CASE s.ok /\ b = nb
          BY <1>3, <1>9, <1>11, <3>4, <3>5, <3>7, <5>2
        <5>3. QED
          BY <1>12, <5>1, <5>2
      <4>2. ASSUME NEW b \in blocks, s.ok, b[1] = nb[1]
            PROVE  page_range(b[2], b[3]) \cap page_range(nb[2], nb[3]) = {}
        BY <1>3, <1>11, <3>5, <3>6, <4>2
      <4>3. ASSUME NEW b \in blocks', NEW c \in blocks', b # c, b[1] = c[1], b[1] # kernel
            PROVE  page_range(b[2], b[3]) \cap page_range(c[2], c[3]) = {}
        <5>1. CASE b \in blocks /\ c \in blocks
          BY <2>2, <4>3, <5>1 DEF StrongInv, UserInv, UserBlocks
        <5>2. CASE b \in blocks /\ s.ok /\ c = nb
          BY <4>2, <4>3, <5>2
        <5>3. CASE c \in blocks /\ s.ok /\ b = nb
          BY <4>2, <4>3, <5>3
        <5>4. QED
          BY <1>12, <4>3, <5>1, <5>2, <5>3
      <4>4. QED
        BY <4>1, <4>3 DEF UserBlocks
    <3>9. FirstFrameIsStack'
      <4>1. user_pool # {}
        <5>1. CASE stack_page \in DOMAIN pte[p]
          <6>1. pte[p][stack_page] - KernelFrames \in user_pool
            BY <2>2, <5>1 DEF StrongInv, Owned, Marked
          <6>2. QED
            BY <6>1
        <5>2. CASE stack_page \notin DOMAIN pte[p]
          <6>1. user_pool = 0 .. UserFrames - 1
            BY <1>2, <1>16, <2>2, <5>2 DEF StrongInv, UserInv, StackOrLock, StepOf
          <6>2. 0 \in 0 .. UserFrames - 1
            BY FrameCounts
          <6>3. QED
            BY <6>1, <6>2
        <5>3. QED
          BY <5>1, <5>2
      <4>2. PICK q \in Procs : stack_page \in DOMAIN pte[q] /\ pte[q][stack_page] = KernelFrames
        BY <2>2, <4>1 DEF StrongInv, UserInv, FirstFrameIsStack
      <4>3. QED
        BY <1>3, <3>4, <4>2 DEF FirstFrameIsStack
    <3>10. StackOrLock'
      <4>1. \A q \in Procs : stack_page \in DOMAIN pte[q] => stack_page \in DOMAIN pte'[q]
        BY <1>3, <3>4
      <4>2. QED
        BY <1>2, <2>2, <4>1 DEF StrongInv, UserInv, StackOrLock
    <3>11. QED
      BY <3>2, <3>3, <3>8, <3>9, <3>10 DEF StrongInv, UserInv
  <2>3. QED
    BY <1>1, <1>14, <1>19, <1>20, <1>22, <2>1, <2>2, Running
<1>23. QED
  BY <1>21, <1>22


(* sys_free of a process's block: its frames are its own, and none of them *)
(* is the first of the user pool.                                          *)
LEMMA UserFreeKeeps ==
    ASSUME NEW b \in blocks, AllocInv, user_free(b)
    PROVE  AllocInv'
<1> DEFINE p == b[1]
           pages == page_range(b[2], b[3])
           frames == {addr_v2p(p, v) : v \in pages}
<1>1. PagesTypes /\ WeakInv /\ LockOutlivesOnlyFailure /\ panic = "none"
  BY DEF AllocInv, user_free
<1>2. /\ p \in Procs /\ user_lock \in {NULL, p} /\ mfree_page(b[1], b[2], b[3])
      /\ blocks' = blocks \ {b}
      /\ UNCHANGED <<pde, user_lock, kernel_lock, call, step, scanned, collision>>
  BY DEF user_free
<1>3. /\ DOMAIN pte = Spaces /\ DOMAIN vaddr_bitmap = Spaces
      /\ p \in Spaces /\ p # kernel /\ kernel \in Spaces /\ \A q \in Procs : q \in Spaces
  BY <1>1, <1>2, Sizes DEF PagesTypes, Spaces
<1>4. \/ /\ \E f \in frames : ~(f > KernelFrames)
         /\ panic' = "frame_freed"
         /\ UNCHANGED <<kernel_pool, user_pool, vaddr_bitmap, pte>>
      \/ /\ kernel_pool' = kernel_pool \ frames
         /\ user_pool' = user_pool \ UserBits(frames)
         /\ pte' = [pte EXCEPT ![p] = drop(@, pages)]
         /\ vaddr_bitmap' = [vaddr_bitmap EXCEPT ![p] = @ \ pages]
         /\ panic' = "none"
  <2>1. IF \E f \in frames : ~(f > KernelFrames)
        THEN /\ panic' = "frame_freed"
             /\ UNCHANGED <<kernel_pool, user_pool, vaddr_bitmap, pte, frame_0>>
        ELSE /\ pfree(frames)
             /\ page_table_pte_remove(p, pages)
             /\ vaddr_remove(p, b[2], b[3])
             /\ UNCHANGED panic
    BY <1>2, Zenon DEF mfree_page
  <2> HIDE DEF frames
  <2>2. CASE \E f \in frames : ~(f > KernelFrames)
    BY <2>1, <2>2
  <2>3. CASE ~ \E f \in frames : ~(f > KernelFrames)
    <3>1. pfree(frames) /\ page_table_pte_remove(p, pages) /\ vaddr_remove(p, b[2], b[3])
          /\ panic' = panic
      BY <2>1, <2>3, Zenon
    <3>2. QED
      BY <1>1, <3>1, Zenon DEF pfree, page_table_pte_remove, vaddr_remove, UserBits
  <2>4. QED
    BY <2>2, <2>3
<1> HIDE DEF frames
<1>5. /\ \A x \in Spaces : x # p => pte'[x] = pte[x] /\ vaddr_bitmap'[x] = vaddr_bitmap[x]
      /\ DOMAIN pte' = Spaces /\ DOMAIN vaddr_bitmap' = Spaces
      /\ vaddr_bitmap'[p] \subseteq vaddr_bitmap[p] /\ DOMAIN pte'[p] \subseteq DOMAIN pte[p]
      /\ kernel_pool' \subseteq kernel_pool /\ user_pool' \subseteq user_pool
  BY <1>3, <1>4 DEF drop
<1>6. /\ step[p] = "user" /\ user_lock = NULL
      /\ \A q \in Procs : step[q] \notin {"page_table_add", "palloc"}
  <2>1. \A q \in Procs : StepOf(q)
    BY <1>1 DEF WeakInv, StepInv
  <2>2. step[p] = "user" /\ user_lock # p
    BY <1>2, <2>1 DEF StepOf
  <2>3. user_lock = NULL
    BY <1>2, <2>2
  <2>4. QED
    BY <2>1, <2>2, <2>3, Sizes DEF StepOf
<1>7. PagesTypes'
  <2>1. \A x \in Spaces : vaddr_bitmap'[x] \subseteq Nat /\ DOMAIN pte'[x] \subseteq Nat
    BY <1>1, <1>5 DEF PagesTypes
  <2>2. Pools(kernel_pool', user_pool')
    BY <1>1, <1>5 DEF PagesTypes, Pools
  <2>3. pte'[kernel] = pte[kernel]
    BY <1>3, <1>5
  <2>4. panic' \in {"none", "page_mapped", "stack_page", "frame_freed"}
    BY <1>4
  <2>5. QED
    BY <1>1, <1>2, <1>5, <2>1, <2>2, <2>3, <2>4 DEF PagesTypes
<1>8. StepInv'
  <2>1. ASSUME NEW q \in Procs PROVE StepOf(q)'
    <3>1. StepOf(q) /\ step[q] \notin {"page_table_add", "palloc"} /\ user_lock' # q
      BY <1>1, <1>2, <1>6, Sizes DEF WeakInv, StepInv
    <3>2. step'[q] = step[q] /\ pde'[q] = pde[q] /\ blocks' \subseteq blocks
          /\ (step[q] # "user" => pte'[q] = pte[q])
      BY <1>2, <1>3, <1>5, <1>6
    <3>3. QED
      BY <3>1, <3>2 DEF StepOf
  <2>2. QED
    BY <2>1 DEF StepInv
<1>9. KernelKept
  <2>1. \A t \in KThreads : Held(t)' = Held(t) /\ Claim(t)' = Claim(t)
    BY <1>2 DEF Held, Claim, call_pages
  <2>2. QED
    BY <1>2, <1>3, <1>5, <2>1 DEF KernelKept
<1>10. LockOutlivesOnlyFailure' /\ WeakInv'
  <2>1. LockOutlivesOnlyFailure'
    BY <1>8, StepImplies, PTL
  <2>2. QED
    BY <1>1, <1>8, <1>9, <2>1, KernelStays DEF WeakInv
<1>11. Undisturbed' => Undisturbed
  BY <1>2 DEF Undisturbed, TableAtZero
<1>12. ASSUME StrongInv
       PROVE  /\ frames = FramesOf(pte[p], pages) /\ pages \subseteq DOMAIN pte[p]
              /\ stack_page \in DOMAIN pte[p] /\ stack_page \notin pages
              /\ \A f \in frames : f > KernelFrames
  <2>1. /\ pages \subseteq DOMAIN pte[p] /\ stack_page \in DOMAIN pte[p]
        /\ stack_page \notin pages
    BY <1>3, <1>12 DEF StrongInv, UserInv, UserBlocks
  <2>2. frames = FramesOf(pte[p], pages)
    <3>1. \A v \in pages : addr_v2p(p, v) = pte[p][v]
      BY <2>1 DEF addr_v2p
    <3> HIDE DEF pages
    <3>2. QED
      BY <3>1 DEF frames, FramesOf
  <2>3. ASSUME NEW f \in frames
        PROVE  f > KernelFrames
    <3>1. PICK v \in pages : f = pte[p][v]
      BY <2>2 DEF FramesOf
    <3>2. f \in Nat /\ f >= KernelFrames /\ f - KernelFrames \in user_pool
      BY <1>2, <1>12, <2>1, <3>1 DEF StrongInv, Owned, Marked
    <3>3. PICK q \in Procs : stack_page \in DOMAIN pte[q] /\ pte[q][stack_page] = KernelFrames
      BY <1>12, <3>2 DEF StrongInv, UserInv, FirstFrameIsStack
    <3>4. pte[p][v] = pte[q][stack_page] => p = q /\ v = stack_page
      BY <1>3, <1>12, <2>1, <3>3 DEF StrongInv, Owned, OneOwner
    <3>5. f # KernelFrames
      BY <2>1, <3>1, <3>3, <3>4
    <3>6. QED
      BY <3>2, <3>5, FrameCounts
  <2>4. QED
    BY <2>1, <2>2, <2>3
<1>13. CASE panic' = "frame_freed"
  <2>1. \E f \in frames : ~(f > KernelFrames)
    BY <1>4, <1>13
  <2>2. ~StrongInv
    BY <1>12, <2>1
  <2>3. ~Undisturbed'
    BY <1>1, <1>11, <2>2 DEF AllocInv
  <2>4. QED
    BY <1>7, <1>10, <1>13, <2>3 DEF AllocInv
<1>14. CASE panic' = "none"
  <2>1. ASSUME StrongInv PROVE StrongInv'
    <3>1. /\ kernel_pool' = kernel_pool \ frames
          /\ user_pool' = user_pool \ UserBits(frames)
          /\ pte' = [pte EXCEPT ![p] = drop(@, pages)]
          /\ vaddr_bitmap' = [vaddr_bitmap EXCEPT ![p] = @ \ pages]
      BY <1>4, <1>14
    <3>2. pte'[p] = drop(pte[p], pages) /\ vaddr_bitmap'[p] = vaddr_bitmap[p] \ pages
      BY <1>3, <3>1
    <3>3. Owned(kernel_pool', user_pool', pte', pde')
      <4> HIDE DEF p, pages
      <4>1. PICK kp, up, pt, pd, qt, kq, uq :
              /\ kp = kernel_pool /\ up = user_pool /\ pt = pte /\ pd = pde
              /\ qt = pte' /\ kq = kernel_pool' /\ uq = user_pool'
        OBVIOUS
      <4>2. Owned(kp, up, pt, pd) /\ kq = kp \ frames /\ uq = up \ UserBits(frames)
        BY <2>1, <3>1, <4>1 DEF StrongInv
      <4>3. Unmaps(pt, qt, p, pages) /\ frames = FramesOf(pt[p], pages) /\ p \in Spaces
        BY <1>3, <1>5, <1>12, <2>1, <3>2, <4>1 DEF Unmaps
      <4>4. Owned(kq, uq, qt, pd)
        BY <4>2, <4>3, OwnLess
      <4>5. pde' = pd
        BY <1>2, <4>1
      <4>6. QED
        BY <4>1, <4>4, <4>5
    <3>4. \A x \in Spaces : \A v \in DOMAIN pte[x] :
            ~(x = p /\ v \in pages) => v \in DOMAIN pte'[x] /\ pte'[x][v] = pte[x][v]
      BY <1>5, <3>2 DEF drop
    <3>5. ASSUME NEW c \in blocks', c[1] = p
          PROVE  page_range(c[2], c[3]) \cap pages = {}
      BY <1>2, <1>3, <2>1, <3>5 DEF StrongInv, UserInv, UserBlocks
    <3>6. UserBlocks'
      <4>1. ASSUME NEW c \in blocks', c[1] # kernel
            PROVE  /\ page_range(c[2], c[3]) \subseteq vaddr_bitmap'[c[1]]
                   /\ page_range(c[2], c[3]) \subseteq DOMAIN pte'[c[1]]
                   /\ stack_page \in DOMAIN pte'[c[1]] /\ stack_page \notin page_range(c[2], c[3])
        <5>1. /\ c[1] \in Spaces /\ page_range(c[2], c[3]) \subseteq vaddr_bitmap[c[1]]
              /\ page_range(c[2], c[3]) \subseteq DOMAIN pte[c[1]]
              /\ stack_page \in DOMAIN pte[c[1]] /\ stack_page \notin page_range(c[2], c[3])
          BY <1>1, <1>2, <2>1, <4>1 DEF StrongInv, UserInv, UserBlocks, PagesTypes
        <5> HIDE DEF p, pages
        <5>2. ~(c[1] = p /\ stack_page \in pages)
          BY <1>12, <2>1
        <5>3. CASE c[1] = p
          BY <3>2, <3>4, <3>5, <5>1, <5>2, <5>3
        <5>4. CASE c[1] # p
          BY <1>5, <5>1, <5>4
        <5>5. QED
          BY <5>3, <5>4
      <4>2. \A c, e \in blocks' : c # e /\ c[1] = e[1] /\ c[1] # kernel =>
              page_range(c[2], c[3]) \cap page_range(e[2], e[3]) = {}
        BY <1>2, <2>1 DEF StrongInv, UserInv, UserBlocks
      <4>3. QED
        BY <4>1, <4>2 DEF UserBlocks
    <3>7. \A q \in Procs : stack_page \in DOMAIN pte[q] =>
            stack_page \in DOMAIN pte'[q] /\ pte'[q][stack_page] = pte[q][stack_page]
      <4> HIDE DEF p, pages
      <4>1. QED
        BY <1>3, <1>12, <2>1, <3>4
    <3>8. FirstFrameIsStack'
      BY <1>5, <2>1, <3>7 DEF StrongInv, UserInv, FirstFrameIsStack
    <3>9. StackOrLock'
      BY <1>2, <2>1, <3>7 DEF StrongInv, UserInv, StackOrLock
    <3>10. ClaimInv'
      BY <1>9, <2>1, KernelStays DEF StrongInv
    <3>11. QED
      BY <3>3, <3>6, <3>8, <3>9, <3>10 DEF StrongInv, UserInv
  <2>2. QED
    BY <1>1, <1>7, <1>10, <1>11, <1>14, <2>1, Running
<1>15. QED
  BY <1>4, <1>13, <1>14


-----------------------------------------------------------------------------
(* get_a_page up to its palloc: no one else holds user_pool.lock.          *)
LEMMA GetAPageKeeps ==
    ASSUME NEW p \in Procs, AllocInv, get_a_page(p)
    PROVE  AllocInv'
<1> DEFINE u == palloc(user_pool, UserBytes)
<1>1. PagesTypes /\ WeakInv /\ LockOutlivesOnlyFailure /\ panic = "none"
  BY DEF AllocInv, get_a_page
<1>2. /\ step[p] = "start_process" /\ user_lock = NULL /\ user_lock' = p
      /\ vaddr_bitmap' = [vaddr_bitmap EXCEPT ![p] = @ \cup {stack_page}]
      /\ user_pool' = u.pool
      /\ IF u.idx = -1
         THEN step' = [step EXCEPT ![p] = "user"] /\ pte' = pte
         ELSE /\ step' = [step EXCEPT ![p] = "page_table_add"]
              /\ pte' = [pte EXCEPT ![p] = put(@, stack_page, KernelFrames + u.idx)]
      /\ UNCHANGED <<kernel_pool, pde, kernel_lock, call, scanned, blocks, collision, panic>>
  BY DEF get_a_page, bitmap_set
<1>3. \/ u.idx = -1 /\ u.pool = user_pool /\ user_pool = 0 .. UserFrames - 1
      \/ /\ u.idx \in (0 .. UserFrames - 1) \ user_pool /\ u.pool = user_pool \cup {u.idx}
         /\ user_pool = {} => u.idx = 0
  <2>1. user_pool \subseteq 0 .. UserBytes * ByteBits - 1
    BY <1>1, FrameCounts DEF PagesTypes, Pools
  <2>2. QED
    BY <2>1, Palloc, FrameCounts, Sizes
<1> HIDE DEF u
<1>4. /\ DOMAIN pte = Spaces /\ DOMAIN vaddr_bitmap = Spaces /\ p \in Spaces /\ p # kernel
      /\ kernel \in Spaces /\ \A q \in Procs : q \in Spaces
      /\ step \in [Procs -> {"start_process", "page_table_add", "palloc", "user"}]
  BY <1>1, Sizes DEF PagesTypes, Spaces
<1>5. \A q \in Procs : StepOf(q)
  BY <1>1 DEF WeakInv, StepInv
<1>6. /\ DOMAIN pte[p] = {} /\ DOMAIN pde[p] = {} /\ (\A b \in blocks : b[1] # p)
  BY <1>2, <1>5 DEF StepOf
<1>7. \A q \in Procs : step[q] \notin {"page_table_add", "palloc"}
  BY <1>2, <1>5, Sizes DEF StepOf
<1>8. /\ \A x \in Spaces : vaddr_bitmap[x] \subseteq vaddr_bitmap'[x] /\ vaddr_bitmap'[x] \subseteq Nat
      /\ DOMAIN vaddr_bitmap' = Spaces /\ vaddr_bitmap'[kernel] = vaddr_bitmap[kernel]
  BY <1>1, <1>2, <1>4, FrameCounts DEF PagesTypes
<1>9. /\ DOMAIN pte' = Spaces /\ \A x \in Spaces : x # p => pte'[x] = pte[x]
      /\ \A q \in Procs : q # p => step'[q] = step[q]
      /\ \/ /\ u.idx = -1 /\ step'[p] = "user" /\ DOMAIN pte'[p] = {} /\ pte' = pte
            /\ user_pool' = user_pool /\ user_pool = 0 .. UserFrames - 1
         \/ /\ u.idx \in (0 .. UserFrames - 1) \ user_pool /\ step'[p] = "page_table_add"
            /\ pte'[p] = put(pte[p], stack_page, KernelFrames + u.idx)
            /\ DOMAIN pte'[p] = {stack_page}
            /\ pte'[p][stack_page] = KernelFrames + u.idx
            /\ user_pool' = user_pool \cup {u.idx}
            /\ user_pool = {} => u.idx = 0
  <2>1. CASE u.idx = -1
    <3>1. /\ step' = [step EXCEPT ![p] = "user"] /\ pte' = pte
          /\ user_pool' = user_pool /\ user_pool = 0 .. UserFrames - 1
      BY <1>2, <1>3, <2>1, FrameCounts
    <3>2. QED
      BY <1>4, <1>6, <2>1, <3>1
  <2>2. CASE u.idx # -1
    <3>1. /\ step' = [step EXCEPT ![p] = "page_table_add"]
          /\ pte' = [pte EXCEPT ![p] = put(@, stack_page, KernelFrames + u.idx)]
          /\ u.idx \in (0 .. UserFrames - 1) \ user_pool
          /\ user_pool' = user_pool \cup {u.idx}
          /\ user_pool = {} => u.idx = 0
      BY <1>2, <1>3, <2>2
    <3>2. /\ step'[p] = "page_table_add" /\ DOMAIN pte' = Spaces
          /\ pte'[p] = put(pte[p], stack_page, KernelFrames + u.idx)
          /\ \A x \in Spaces : x # p => pte'[x] = pte[x]
          /\ \A q \in Procs : q # p => step'[q] = step[q]
      BY <1>4, <3>1
    <3>3. DOMAIN pte'[p] = {stack_page} /\ pte'[p][stack_page] = KernelFrames + u.idx
      BY <1>6, <3>2 DEF put
    <3>4. QED
      BY <3>1, <3>2, <3>3
  <2>3. QED
    BY <2>1, <2>2
<1>10. PagesTypes'
  <2>1. \A x \in Spaces : DOMAIN pte'[x] \subseteq Nat
    BY <1>1, <1>9, FrameCounts DEF PagesTypes
  <2>2. Pools(kernel_pool', user_pool')
    BY <1>1, <1>2, <1>9 DEF PagesTypes, Pools
  <2>3. step' \in [Procs -> {"start_process", "page_table_add", "palloc", "user"}]
    BY <1>2, <1>4
  <2>4. pte'[kernel] = pte[kernel]
    BY <1>4, <1>9
  <2>5. QED
    BY <1>1, <1>2, <1>8, <1>9, <2>1, <2>2, <2>3, <2>4 DEF PagesTypes
<1>11. StepInv'
  <2>1. ASSUME NEW q \in Procs, q # p
        PROVE  StepOf(q)'
    <3>1. pte'[q] = pte[q] /\ pde'[q] = pde[q] /\ step'[q] = step[q]
      BY <1>2, <1>4, <1>9, <2>1
    <3>2. QED
      BY <1>2, <1>5, <1>7, <2>1, <3>1 DEF StepOf
  <2>2. StepOf(p)'
    BY <1>2, <1>6, <1>9 DEF StepOf
  <2>3. QED
    BY <2>1, <2>2 DEF StepInv
<1>12. KernelKept
  <2>1. \A t \in KThreads : Held(t)' = Held(t) /\ Claim(t)' = Claim(t)
    BY <1>2 DEF Held, Claim, call_pages
  <2>2. QED
    BY <1>2, <1>4, <1>8, <1>9, <2>1 DEF KernelKept
<1>13. LockOutlivesOnlyFailure' /\ WeakInv'
  <2>1. LockOutlivesOnlyFailure'
    BY <1>11, StepImplies, PTL
  <2>2. QED
    BY <1>1, <1>11, <1>12, <2>1, KernelStays DEF WeakInv
<1>14. Undisturbed' => Undisturbed
  BY <1>2 DEF Undisturbed, TableAtZero
<1>15. ASSUME StrongInv PROVE StrongInv'
  <2>1. Owned(kernel_pool', user_pool', pte', pde')
    <3>1. CASE pte' = pte /\ user_pool' = user_pool
      BY <1>2, <1>15, <3>1 DEF StrongInv
    <3>2. CASE ~(pte' = pte /\ user_pool' = user_pool)
      <4>1. PICK qt, uq, i, pd : qt = pte' /\ uq = user_pool' /\ i = u.idx /\ pd = pde
        OBVIOUS
      <4>2. /\ i \in (0 .. UserFrames - 1) \ user_pool /\ stack_page \notin DOMAIN pte[p]
            /\ qt[p] = put(pte[p], stack_page, KernelFrames + i)
            /\ \A x \in Spaces : x # p => qt[x] = pte[x]
            /\ uq = user_pool \cup {i}
        BY <1>6, <1>9, <3>2, <4>1
      <4>3. Owned(kernel_pool, user_pool, pte, pd)
        BY <1>15, <4>1 DEF StrongInv
      <4>4. Owned(kernel_pool, user_pool \cup {i}, qt, pd)
        BY <4>2, <4>3, OwnUserPage
      <4>5. pde' = pd /\ kernel_pool' = kernel_pool
        BY <1>2, <4>1
      <4>6. QED
        BY <4>1, <4>2, <4>4, <4>5
    <3>3. QED
      BY <3>1, <3>2
  <2>2. UserBlocks'
    <3>1. \A b \in blocks : b[1] # kernel => b[1] \in Spaces /\ b[1] # p
      BY <1>1, <1>6 DEF PagesTypes
    <3>2. QED
      BY <1>2, <1>8, <1>9, <1>15, <3>1 DEF StrongInv, UserInv, UserBlocks
  <2>3. FirstFrameIsStack'
    <3>1. CASE user_pool = {} /\ user_pool' # {}
      <4>1. pte'[p][stack_page] = KernelFrames /\ stack_page \in DOMAIN pte'[p]
        BY <1>9, <3>1, FrameCounts
      <4>2. QED
        BY <4>1 DEF FirstFrameIsStack
    <3>2. CASE user_pool # {}
      <4>1. PICK q \in Procs : stack_page \in DOMAIN pte[q] /\ pte[q][stack_page] = KernelFrames
        BY <1>15, <3>2 DEF StrongInv, UserInv, FirstFrameIsStack
      <4>2. q # p
        BY <1>6, <4>1
      <4>3. pte'[q] = pte[q]
        BY <1>4, <1>9, <4>2
      <4>4. QED
        BY <4>1, <4>3 DEF FirstFrameIsStack
    <3>3. QED
      BY <3>1, <3>2 DEF FirstFrameIsStack
  <2>4. StackOrLock'
    <3>1. ASSUME NEW q \in Procs, q # p, step'[q] = "user" PROVE stack_page \in DOMAIN pte'[q]
      <4>1. step[q] = "user" /\ pte'[q] = pte[q] /\ user_lock # q
        BY <1>2, <1>4, <1>9, <3>1, Sizes
      <4>2. QED
        BY <1>15, <4>1 DEF StrongInv, UserInv, StackOrLock
    <3>2. QED
      BY <1>2, <3>1 DEF StackOrLock
  <2>5. ClaimInv'
    BY <1>12, <1>15, KernelStays DEF StrongInv
  <2>6. QED
    BY <2>1, <2>2, <2>3, <2>4, <2>5 DEF StrongInv, UserInv
<1>16. QED
  BY <1>1, <1>2, <1>10, <1>13, <1>14, <1>15, Running

(* The rest of get_a_page: the scan, then the bit and the page table.      *)
LEMMA TableScanKeeps ==
    ASSUME NEW p \in Procs, AllocInv, page_table_add_scan(p)
    PROVE  AllocInv'
<1>1. PagesTypes /\ WeakInv /\ LockOutlivesOnlyFailure /\ panic = "none"
  BY DEF AllocInv, page_table_add_scan
<1> DEFINE i == bitmap_scan(kernel_pool, KernelBytes, 1)
<1>2. /\ step[p] = "page_table_add"
      /\ scanned' = [scanned EXCEPT ![p] = i]
      /\ step' = [step EXCEPT ![p] = "palloc"]
      /\ UNCHANGED <<kernel_pool, user_pool, vaddr_bitmap, pte, pde, user_lock, kernel_lock,
                     call, blocks, collision, panic>>
  BY DEF page_table_add_scan
<1>3. i \in (0 .. KernelFrames - 1) \cup {-1}
  BY ScanOne, FrameCounts, Sizes
<1> HIDE DEF i
<1>4. /\ step \in [Procs -> {"start_process", "page_table_add", "palloc", "user"}]
      /\ scanned \in [Procs -> Nat \cup {-1}]
  BY <1>1 DEF PagesTypes
<1>5. i \in Nat \cup {-1}
  BY <1>3, FrameCounts
<1>6. /\ step' \in [Procs -> {"start_process", "page_table_add", "palloc", "user"}]
      /\ scanned' \in [Procs -> Nat \cup {-1}]
      /\ step'[p] = "palloc" /\ scanned'[p] = i
      /\ \A q \in Procs : q # p => step'[q] = step[q] /\ scanned'[q] = scanned[q]
  BY <1>2, <1>4, <1>5
<1>7. PagesTypes'
  BY <1>1, <1>2, <1>6 DEF PagesTypes
<1>8. StepInv'
  <2>1. ASSUME NEW q \in Procs PROVE StepOf(q)'
    <3>1. StepOf(q)
      BY <1>1 DEF WeakInv, StepInv
    <3>2. CASE q # p
      BY <1>2, <1>6, <3>1, <3>2 DEF StepOf
    <3>3. CASE q = p
      BY <1>2, <1>3, <1>6, <3>1, <3>3 DEF StepOf
    <3>4. QED
      BY <3>2, <3>3
  <2>2. QED
    BY <2>1 DEF StepInv
<1>9. KernelKept
  BY <1>2 DEF KernelKept, Held, Claim, call_pages
<1>10. LockOutlivesOnlyFailure' /\ WeakInv'
  <2>1. LockOutlivesOnlyFailure'
    BY <1>8, StepImplies, PTL
  <2>2. QED
    BY <1>1, <1>8, <1>9, <2>1, KernelStays DEF WeakInv
<1>11. Undisturbed' => Undisturbed
  BY <1>2 DEF Undisturbed, TableAtZero
<1>12. ASSUME StrongInv PROVE StrongInv'
  <2>1. UserBlocks' /\ FirstFrameIsStack'
    BY <1>2, <1>12 DEF StrongInv, UserInv, UserBlocks, FirstFrameIsStack
  <2>2. StackOrLock'
    BY <1>2, <1>6, <1>12 DEF StrongInv, UserInv, StackOrLock
  <2>3. Owned(kernel_pool', user_pool', pte', pde')
    BY <1>2, <1>12 DEF StrongInv
  <2>4. ClaimInv'
    BY <1>9, <1>12, KernelStays DEF StrongInv
  <2>5. QED
    BY <2>1, <2>2, <2>3, <2>4 DEF StrongInv, UserInv
<1>13. QED
  BY <1>1, <1>2, <1>7, <1>10, <1>11, <1>12, Running

LEMMA TableSetKeeps ==
    ASSUME NEW p \in Procs, AllocInv, page_table_add_set(p)
    PROVE  AllocInv'
<1>1. PagesTypes /\ WeakInv /\ LockOutlivesOnlyFailure /\ panic = "none"
  BY DEF AllocInv, page_table_add_set
<1> DEFINE n == stack_page \div TablePages
           i == scanned[p]
<1>2. /\ step[p] = "palloc"
      /\ \/ /\ i = -1 /\ pte' = [pte EXCEPT ![p] = drop(@, {stack_page})]
            /\ kernel_pool' = kernel_pool /\ collision' = collision
         \/ /\ i # -1 /\ kernel_pool' = kernel_pool \cup {i} /\ pte' = pte
            /\ collision' = (collision \/ i \in kernel_pool)
      /\ pde' = [pde EXCEPT ![p] = put(@, n, i)]
      /\ user_lock' = NULL
      /\ step' = [step EXCEPT ![p] = "user"]
      /\ scanned' = [scanned EXCEPT ![p] = -1]
      /\ UNCHANGED <<user_pool, vaddr_bitmap, kernel_lock, call, blocks, panic>>
  BY DEF page_table_add_set, bitmap_set, get_a_page_returns
<1> HIDE DEF n
<1>3. /\ step \in [Procs -> {"start_process", "page_table_add", "palloc", "user"}]
      /\ scanned \in [Procs -> Nat \cup {-1}]
      /\ DOMAIN pde = Procs /\ DOMAIN pte = Spaces /\ p \in Spaces /\ p # kernel
      /\ kernel \in Spaces /\ \A q \in Procs : q \in Spaces
  BY <1>1, Sizes DEF PagesTypes, Spaces
<1>4. /\ step' \in [Procs -> {"start_process", "page_table_add", "palloc", "user"}]
      /\ scanned' \in [Procs -> Nat \cup {-1}]
      /\ step'[p] = "user" /\ \A q \in Procs : q # p => step'[q] = step[q]
      /\ DOMAIN pde' = Procs /\ pde'[p] = put(pde[p], n, i)
      /\ \A q \in Procs : q # p => pde'[q] = pde[q]
      /\ DOMAIN pte' = Spaces /\ \A x \in Spaces : x # p => pte'[x] = pte[x]
  BY <1>2, <1>3
<1>5. \A q \in Procs : StepOf(q)
  BY <1>1 DEF WeakInv, StepInv
<1>6. /\ DOMAIN pde[p] = {} /\ user_lock = p /\ DOMAIN pte[p] = {stack_page}
      /\ \A b \in blocks : b[1] # p
      /\ i \in (0 .. KernelFrames - 1) \cup {-1}
  BY <1>2, <1>5 DEF StepOf
<1>7. DOMAIN pte'[p] \subseteq {stack_page}
  BY <1>2, <1>3, <1>6 DEF drop
<1>8. PagesTypes'
  <2>1. Pools(kernel_pool', user_pool')
    BY <1>1, <1>2, <1>6 DEF PagesTypes, Pools
  <2>2. \A x \in Spaces : DOMAIN pte'[x] \subseteq Nat
    BY <1>1, <1>4, <1>7, FrameCounts DEF PagesTypes
  <2>3. pte'[kernel] = pte[kernel]
    BY <1>3, <1>4
  <2>4. QED
    BY <1>1, <1>2, <1>4, <2>1, <2>2, <2>3 DEF PagesTypes
<1>9. StepInv'
  <2>1. ASSUME NEW q \in Procs PROVE StepOf(q)'
    <3>1. CASE q # p
      <4>1. step[q] \notin {"page_table_add", "palloc"}
        BY <1>5, <1>6, <3>1 DEF StepOf
      <4>2. pte'[q] = pte[q] /\ pde'[q] = pde[q] /\ step'[q] = step[q]
        BY <1>3, <1>4, <3>1
      <4>3. QED
        BY <1>2, <1>5, <4>1, <4>2, Sizes DEF StepOf
    <3>2. CASE q = p
      BY <1>2, <1>4, <3>2, Sizes DEF StepOf
    <3>3. QED
      BY <3>1, <3>2
  <2>2. QED
    BY <2>1 DEF StepInv
<1>10. KernelKept
  <2>1. \A t \in KThreads : Held(t)' = Held(t) /\ Claim(t)' = Claim(t)
    BY <1>2 DEF Held, Claim, call_pages
  <2>2. QED
    BY <1>2, <1>3, <1>4, <2>1 DEF KernelKept
<1>11. LockOutlivesOnlyFailure' /\ WeakInv'
  <2>1. LockOutlivesOnlyFailure'
    BY <1>9, StepImplies, PTL
  <2>2. QED
    BY <1>1, <1>9, <1>10, <2>1, KernelStays DEF WeakInv
<1>12. Undisturbed' => Undisturbed /\ i # -1 /\ i \notin kernel_pool
  <2>1. n \in DOMAIN pde'[p] /\ pde'[p][n] = i
        /\ \A x \in DOMAIN pde[p] : x \in DOMAIN pde'[p] /\ pde'[p][x] = pde[p][x]
    BY <1>4, <1>6 DEF put
  <2>2. Undisturbed' => i # -1
    BY <2>1 DEF Undisturbed, TableAtZero
  <2>3. i # -1 => collision' = (collision \/ i \in kernel_pool)
    BY <1>2
  <2>4. collision => collision'
    BY <1>2
  <2>5. \A q \in Procs : Keeps(pde[q], pde'[q])
    BY <1>4, <2>1 DEF Keeps
  <2>6. Undisturbed' => Undisturbed
    BY <1>3, <2>4, <2>5, Disturbed
  <2>7. Undisturbed' => ~collision'
    BY DEF Undisturbed
  <2>8. QED
    BY <2>2, <2>3, <2>6, <2>7
<1>13. ASSUME StrongInv, i # -1, i \notin kernel_pool
       PROVE  StrongInv'
  <2>1. pte' = pte /\ kernel_pool' = kernel_pool \cup {i}
    BY <1>2, <1>13
  <2>2. Owned(kernel_pool', user_pool', pte', pde')
    <3>1. PICK kq, qd, j, pt : kq = kernel_pool' /\ qd = pde' /\ j = i /\ pt = pte
      OBVIOUS
    <3>2. /\ Owned(kernel_pool, user_pool, pt, pde) /\ n \notin DOMAIN pde[p]
          /\ TableFrame(kernel_pool, kq, j) /\ qd[p] = put(pde[p], n, j)
          /\ \A q \in Procs : q # p => qd[q] = pde[q]
      BY <1>4, <1>6, <1>13, <2>1, <3>1 DEF StrongInv, TableFrame
    <3>3. Owned(kq, user_pool, pt, qd)
      BY <3>2, OwnTable
    <3>4. QED
      BY <1>2, <2>1, <3>1, <3>3
  <2>3. UserBlocks' /\ FirstFrameIsStack'
    BY <1>2, <1>13, <2>1 DEF StrongInv, UserInv, UserBlocks, FirstFrameIsStack
  <2>4. StackOrLock'
    <3>1. \A q \in Procs : step'[q] = "user" => stack_page \in DOMAIN pte[q]
      BY <1>4, <1>6, <1>13 DEF StrongInv, UserInv, StackOrLock
    <3>2. QED
      BY <2>1, <3>1 DEF StackOrLock
  <2>5. ClaimInv'
    BY <1>10, <1>13, KernelStays DEF StrongInv
  <2>6. QED
    BY <2>2, <2>3, <2>4, <2>5 DEF StrongInv, UserInv
<1>14. QED
  BY <1>1, <1>2, <1>8, <1>11, <1>12, <1>13, Running

-----------------------------------------------------------------------------
LEMMA AllocStep == AllocInv /\ [Next]_vars => AllocInv'
<1> SUFFICES ASSUME AllocInv, [Next]_vars PROVE AllocInv'
  OBVIOUS
<1>1. ASSUME NEW t \in KThreads,
             \/ \E n \in KernelReq, locked \in BOOLEAN : kernel_malloc(t, n, locked)
             \/ vaddr_set(t) \/ palloc_scan(t) \/ palloc_set(t)
             \/ \E b \in blocks : kernel_free(t, b)
             \/ kernel_free_page(t) \/ kernel_free_done(t)
      PROVE  AllocInv'
  BY <1>1, KernelMallocKeeps, VaddrSetKeeps, PallocScanKeeps, PallocSetKeeps,
     KernelFreeKeeps, KernelFreePageKeeps, KernelFreeDoneKeeps
<1>2. ASSUME NEW p \in Procs, NEW n \in UserReq, user_malloc(p, n)
      PROVE  AllocInv'
  BY <1>2, UserMallocKeeps
<1>3. ASSUME NEW b \in blocks, user_free(b)
      PROVE  AllocInv'
  BY <1>3, UserFreeKeeps
<1>4. ASSUME page_dir_activate \/ UNCHANGED vars
      PROVE  AllocInv'
  <2>1. UNCHANGED <<kernel_pool, user_pool, vaddr_bitmap, pte, pde, user_lock, kernel_lock,
                    call, step, scanned, blocks, collision, panic>>
    BY <1>4 DEF page_dir_activate, vars
  <2>2. ProcsKept /\ KernelKept
    BY <2>1 DEF ProcsKept, KernelKept, Held, Claim, call_pages
  <2>3. PagesTypes /\ LockOutlivesOnlyFailure
    BY DEF AllocInv
  <2>4. PagesTypes' /\ LockOutlivesOnlyFailure'
    BY <2>1, <2>2, <2>3, ProcsStay DEF PagesTypes
  <2>5. WeakInv => WeakInv'
    BY <2>2, <2>3, ProcsStay, KernelStays DEF WeakInv
  <2>6. StrongInv => StrongInv'
    BY <2>1, <2>2, <2>3, ProcsStay, KernelStays DEF StrongInv
  <2>7. (Undisturbed' <=> Undisturbed) /\ (FirstUserFrameKept => FirstUserFrameKept')
    BY <2>1 DEF Undisturbed, TableAtZero, FirstUserFrameKept
  <2>8. panic' = panic
    BY <2>1
  <2>9. QED
    BY <2>4, <2>5, <2>6, <2>7, <2>8 DEF AllocInv
<1>5. ASSUME NEW p \in Procs,
             get_a_page(p) \/ page_table_add_scan(p) \/ page_table_add_set(p)
      PROVE  AllocInv'
  BY <1>5, GetAPageKeeps, TableScanKeeps, TableSetKeeps
<1>6. QED
  BY <1>1, <1>2, <1>3, <1>4, <1>5, Zenon DEF Next

LEMMA AllocInvariant == Spec => []AllocInv
  BY AllocInit, AllocStep, PTL DEF Spec

(* malloc_pages, mfree_page and get_a_page, with kernel threads and        *)
(* starting processes preempted anywhere, for any number of them and any   *)
(* requests: until the allocator acts on a wrong scan of a bitmap or links *)
(* a page table at address 0, no frame gets two owners, every set bit has  *)
(* one (a page, a table, or what a failed request left mapped), and the    *)
(* blocks handed out are disjoint, reserved and mapped, also while other   *)
(* operations are half done; the first user frame is never freed.          *)
THEOREM FramesHaveOneOwner == Spec => []PagesInv
  BY AllocInvariant, AllocInvImplies, PTL

(* get_a_page: a process that runs on with user_pool.lock still held is    *)
(* one for whose stack there was no frame.  This holds in every state,     *)
(* whatever wrong scans and tables at address 0 have done to the bitmaps.  *)
THEOREM LockIsReleased == Spec => []LockOutlivesOnlyFailure
<1>1. AllocInv => LockOutlivesOnlyFailure
  BY DEF AllocInv
<1>2. QED
  BY AllocInvariant, <1>1, PTL
=============================================================================
