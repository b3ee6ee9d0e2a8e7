----------------------------- MODULE HeapProofs -----------------------------
(***************************************************************************)
(* Proofs about Heap, for any page size, any descriptors, any pool and any *)
(* sizes that are asked for: what sys_malloc hands out never overlaps, no  *)
(* ASSERT of sys_free fails, and all memory comes back.                    *)
(***************************************************************************)
EXTENDS Heap, FiniteSetTheorems, SequenceTheorems, WellFoundedInduction,
        NaturalsInduction, TLAPS

(* The invariant is stated of any arenas ars, free lists fl and set lv of  *)
(* what callers hold: a refill passes through a state of its own, in which *)
(* all blocks of the new arena are free.                                   *)
BlocksOf(a, d) == {arena2block(a, d, i) : i \in 0 .. blocks_per_arena(d) - 1}
PagesOf(ars, a) == a \div PG_SIZE .. a \div PG_SIZE + ars[a].pages - 1

(* An arena is a page with blocks of its descriptor, or a run of pages for *)
(* one large block; arenas lie in the pool and do not overlap.             *)
Header == [desc : 0 .. DESC_CNT, cnt : Nat, large : BOOLEAN, pages : Nat]
Page(a) == a \in Nat /\ a % PG_SIZE = 0
ArenaShape(a, h) ==
    /\ h \in Header /\ Page(a)
    /\ h.pages >= 1 /\ a \div PG_SIZE + h.pages <= NPages
    /\ ~h.large => h.desc \in Descs /\ h.pages = 1
ArenasSound(ars) ==
    /\ ars = [a \in DOMAIN ars |-> ars[a]]
    /\ \A a \in DOMAIN ars : ArenaShape(a, ars[a])
    /\ \A a, b \in DOMAIN ars : a # b => PagesOf(ars, a) \cap PagesOf(ars, b) = {}

(* A free list holds blocks of small arenas of its descriptor, each once.  *)
FreeIn(ars, b, d, a) ==
    a \in DOMAIN ars /\ ~ars[a].large /\ ars[a].desc = d /\ b \in BlocksOf(a, d)
FreeListsSound(ars, fl) ==
    /\ fl = [d \in Descs |-> fl[d]]
    /\ \A d \in Descs :
         /\ fl[d] \in Seq(Nat) /\ IsInjective(fl[d])
         /\ \A b \in ToSet(fl[d]) : \E a \in DOMAIN ars : FreeIn(ars, b, d, a)

(* A caller's memory is a block that is not free, or the large block of    *)
(* its arena, and no two callers have the same.                            *)
Holds(r, a, h, fl) ==
    IF h.large
    THEN r[1] = a + ArenaSize /\ ArenaSize + r[2] <= h.pages * PG_SIZE
    ELSE r[1] \in BlocksOf(a, h.desc) \ ToSet(fl[h.desc]) /\ r[2] <= block_size(h.desc)
LiveSound(ars, fl, lv) ==
    /\ \A r \in lv : /\ r \in Nat \X Sizes /\ r[2] > 0
                     /\ \E a \in DOMAIN ars : Holds(r, a, ars[a], fl)
    /\ \A r, s \in lv : r[1] = s[1] => r = s

(* No block is lost: it is free or somebody's.                             *)
Kept(a, h, fl, lv) ==
    IF h.large THEN \E r \in lv : r[1] = a + ArenaSize
    ELSE \A b \in BlocksOf(a, h.desc) : b \in ToSet(fl[h.desc]) \/ \E r \in lv : r[1] = b
NoneLost(ars, fl, lv) == \A a \in DOMAIN ars : Kept(a, ars[a], fl, lv)

(* arena.cnt counts the arena's free blocks.                               *)
Counted(a, h, fl) ==
    ~h.large => h.cnt = Cardinality(ToSet(fl[h.desc]) \cap BlocksOf(a, h.desc))
CountsSound(ars, fl) == \A a \in DOMAIN ars : Counted(a, ars[a], fl)

Sound(ars, fl, lv) ==
    /\ ArenasSound(ars) /\ FreeListsSound(ars, fl) /\ LiveSound(ars, fl, lv)
    /\ NoneLost(ars, fl, lv) /\ CountsSound(ars, fl)

(* An arena with nothing but free blocks does not stay.                    *)
Used(h) == ~h.large => h.cnt < blocks_per_arena(h.desc)
NoneIdle(ars) == \A a \in DOMAIN ars : Used(ars[a])

AllocInv == panic = FALSE /\ Sound(arenas, free_list, live) /\ NoneIdle(arenas)

-----------------------------------------------------------------------------
(* Induction, for statements that a set can express.                       *)
LEMMA LeastNat ==
    ASSUME NEW S \in SUBSET Nat, S # {}
    PROVE  \E m \in S : \A n \in S : m <= n
<1>1. IsWellFoundedOn(OpToRel(<, Nat), Nat)
  BY NatLessThanWellFounded
<1>2. PICK m \in S : \A n \in S : ~ (<<n, m>> \in OpToRel(<, Nat))
  BY <1>1, WFMin
<1>3. ASSUME NEW n \in S, n < m
      PROVE  FALSE
  <2>1. <<n, m>> \in OpToRel(<, Nat)
    BY <1>3, Zenon DEF OpToRel
  <2> QED BY <1>2, <2>1
<1> QED BY <1>3

(* A recursion over the naturals, given by its first value and a function  *)
(* for its steps, has a solution.                                          *)
Solves(f, n, first, step) ==
    f = [k \in 0 .. n |-> IF k = 0 THEN first ELSE step[<<k, f[k - 1]>>]]

LEMMA SolutionUpTo ==
    ASSUME NEW first, NEW step, NEW n \in Nat
    PROVE  \E f : Solves(f, n, first, step)
<1> DEFINE S == {k \in Nat : ~ \E f : Solves(f, k, first, step)}
<1>1. ASSUME S # {}
      PROVE  FALSE
  <2>1. PICK m \in S : \A k \in S : m <= k
    BY <1>1, LeastNat
  <2>2. m \in Nat /\ ~ \E f : Solves(f, m, first, step)
    BY <2>1
  <2>3. CASE m = 0
    <3>1. \A k \in 0 .. 0 : k = 0
      OBVIOUS
    <3>2. Solves([k \in 0 .. 0 |-> first], 0, first, step)
      BY <3>1, Zenon DEF Solves
    <3> QED BY <2>2, <2>3, <3>2
  <2>4. CASE m > 0
    <3>1. m - 1 \in Nat /\ m - 1 \notin S
      BY <2>1, <2>2, <2>4
    <3>2. PICK g : Solves(g, m - 1, first, step)
      BY <3>1
    <3> DEFINE x == step[<<m, g[m - 1]>>]
               f == [k \in 0 .. m |-> IF k = m THEN x ELSE g[k]]
    <3>3. g = [k \in 0 .. m - 1 |-> IF k = 0 THEN first ELSE step[<<k, g[k - 1]>>]]
      BY <3>2, Zenon DEF Solves
    <3>4. ASSUME NEW k \in 0 .. m
          PROVE  f[k] = IF k = 0 THEN first ELSE step[<<k, f[k - 1]>>]
      <4>1. CASE k = m
        <5>1. k # 0 /\ k - 1 # m /\ k - 1 \in 0 .. m
          BY <2>2, <2>4, <4>1
        <5>2. f[k - 1] = g[k - 1] /\ f[k] = x
          BY <4>1, <5>1, Zenon
        <5> QED BY <4>1, <5>1, <5>2, Zenon
      <4>2. CASE k # m
        <5>1. k \in 0 .. m - 1
          BY <2>2, <4>2
        <5>2. f[k] = g[k]
          BY <4>2, Zenon
        <5>3. k # 0 => k - 1 \in 0 .. m /\ k - 1 # m
          BY <2>2, <5>1
        <5>4. k # 0 => f[k - 1] = g[k - 1]
          BY <5>3, Zenon
        <5>5. g[k] = IF k = 0 THEN first ELSE step[<<k, g[k - 1]>>]
          BY <3>3, <5>1, Zenon
        <5> QED BY <5>2, <5>4, <5>5, Zenon
      <4> QED BY <4>1, <4>2
    <3>5. f = [k \in 0 .. m |-> f[k]]
      BY Zenon
    <3> HIDE DEF f
    <3>6. Solves(f, m, first, step)
      BY <3>4, <3>5, Zenon DEF Solves
    <3> QED BY <2>2, <3>6, Zenon
  <2> QED BY <2>2, <2>3, <2>4
<1> QED BY <1>1

(* Two solutions agree as far as both go.                                  *)
LEMMA SolutionsAgree ==
    ASSUME NEW first, NEW step, NEW m \in Nat, NEW n \in Nat, NEW f, NEW g,
           Solves(f, m, first, step), Solves(g, n, first, step),
           NEW k \in Nat, k <= m, k <= n
    PROVE  f[k] = g[k]
<1> DEFINE S == {j \in Nat : j <= m /\ j <= n /\ f[j] # g[j]}
<1> SUFFICES ASSUME S # {} PROVE FALSE
  OBVIOUS
<1>1. PICK j \in S : \A i \in S : j <= i
  BY LeastNat
<1>2. j \in 0 .. m /\ j \in 0 .. n /\ f[j] # g[j] /\ j \in Nat
  BY <1>1
<1>3. /\ f[j] = IF j = 0 THEN first ELSE step[<<j, f[j - 1]>>]
      /\ g[j] = IF j = 0 THEN first ELSE step[<<j, g[j - 1]>>]
  BY <1>2, Zenon DEF Solves
<1>4. j # 0 => j - 1 \in Nat /\ j - 1 <= m /\ j - 1 <= n /\ ~(j <= j - 1)
  BY <1>2
<1>5. j # 0 => f[j - 1] = g[j - 1]
  BY <1>1, <1>4
<1> QED BY <1>2, <1>3, <1>5, Zenon

Recursion(f, first, step) ==
    f = [k \in Nat |-> IF k = 0 THEN first ELSE step[<<k, f[k - 1]>>]]

LEMMA Solution ==
    ASSUME NEW first, NEW step
    PROVE  \E f : Recursion(f, first, step)
<1> DEFINE g(n) == CHOOSE f : Solves(f, n, first, step)
           f == [k \in Nat |-> g(k)[k]]
<1>1. \A n \in Nat : Solves(g(n), n, first, step)
  BY SolutionUpTo, Zenon
<1> HIDE DEF g
<1>2. ASSUME NEW k \in Nat
      PROVE  f[k] = IF k = 0 THEN first ELSE step[<<k, f[k - 1]>>]
  <2>1. k \in 0 .. k
    OBVIOUS
  <2>2. g(k)[k] = IF k = 0 THEN first ELSE step[<<k, g(k)[k - 1]>>]
    BY <1>1, <2>1, Zenon DEF Solves
  <2>3. f[k] = g(k)[k]
    BY Zenon
  <2>4. ASSUME k # 0
        PROVE  f[k - 1] = g(k)[k - 1]
    <3>1. k - 1 \in Nat /\ k - 1 <= k /\ k - 1 <= k - 1
      BY <2>4
    <3>2. f[k - 1] = g(k - 1)[k - 1]
      BY <3>1, Zenon
    <3>3. g(k - 1)[k - 1] = g(k)[k - 1]
      <4>1. Solves(g(k - 1), k - 1, first, step) /\ Solves(g(k), k, first, step)
        BY <1>1, <3>1, Zenon
      <4> QED BY <3>1, <4>1, SolutionsAgree
    <3> QED BY <3>2, <3>3, Zenon
  <2> QED BY <2>2, <2>3, <2>4, Zenon
<1>3. f = [k \in Nat |-> f[k]]
  BY Zenon
<1> HIDE DEF f
<1>4. Recursion(f, first, step)
  BY <1>2, <1>3, Zenon DEF Recursion
<1> QED BY <1>4, Zenon


-----------------------------------------------------------------------------
(* The block sizes: positive, and growing with the descriptor.             *)
LEMMA BlockSizes ==
    /\ block_size(0) = MinBlock
    /\ \A d \in Nat \ {0} : block_size(d) = 2 * block_size(d - 1)
<1> DEFINE step == [p \in Nat \X Nat |-> 2 * p[2]]
<1>2. \A x, y \in Nat : step[<<x, y>>] = 2 * y
  OBVIOUS
<1> HIDE DEF step
<1> DEFINE IsSizes(f) == f = [d \in Nat |-> IF d = 0 THEN MinBlock ELSE 2 * f[d - 1]]
<1>1. PICK f : Recursion(f, MinBlock, step)
  BY Solution, Zenon
<1>3. \A k \in Nat : f[k] = IF k = 0 THEN MinBlock ELSE step[<<k, f[k - 1]>>]
  BY <1>1, Zenon DEF Recursion
<1> DEFINE S == {k \in Nat : f[k] \notin Nat}
<1>4. ASSUME S # {} PROVE FALSE
  <2>1. PICK m \in S : \A n \in S : m <= n
    BY <1>4, LeastNat
  <2>2. m # 0 => m - 1 \in Nat /\ m - 1 \notin S
    BY <2>1
  <2>3. m # 0 => f[m] = 2 * f[m - 1]
    BY <1>2, <1>3, <2>1, <2>2
  <2>4. m = 0 => f[m] = MinBlock
    BY <1>3, <2>1
  <2> QED BY <2>1, <2>2, <2>3, <2>4, HeapAssumption
<1>5. ASSUME NEW k \in Nat
      PROVE  f[k] = IF k = 0 THEN MinBlock ELSE 2 * f[k - 1]
  <2>1. k # 0 => k - 1 \in Nat /\ f[k - 1] \in Nat
    BY <1>4
  <2>2. k # 0 => step[<<k, f[k - 1]>>] = 2 * f[k - 1]
    BY <1>2, <2>1
  <2> QED BY <1>3, <2>2, Zenon
<1>6. f = [k \in Nat |-> f[k]]
  BY <1>1, Zenon DEF Recursion
<1>7. IsSizes(f)
  BY <1>5, <1>6, Zenon
<1>8. block_sizes = CHOOSE g : IsSizes(g)
  BY Zenon DEF block_sizes
<1> HIDE DEF IsSizes
<1>9. IsSizes(block_sizes)
  BY <1>7, <1>8, Zenon
<1>10. \A k \in Nat : block_sizes[k] = IF k = 0 THEN MinBlock ELSE 2 * block_sizes[k - 1]
  BY <1>9, Zenon DEF IsSizes
<1>11. 0 \in Nat /\ \A k \in Nat \ {0} : k \in Nat /\ k # 0
  OBVIOUS
<1> QED BY <1>10, <1>11, Zenon DEF block_size

LEMMA PositiveSizes ==
    ASSUME NEW d \in Nat
    PROVE  block_size(d) \in Nat \ {0}
<1> DEFINE S == {k \in Nat : block_size(k) \notin Nat \ {0}}
<1> SUFFICES ASSUME S # {} PROVE FALSE
  OBVIOUS
<1>1. PICK m \in S : \A n \in S : m <= n
  BY LeastNat
<1>2. m # 0 => m - 1 \in Nat /\ m - 1 \notin S
  BY <1>1
<1> QED BY <1>1, <1>2, BlockSizes, HeapAssumption

LEMMA GrowingSizes ==
    ASSUME NEW d \in Nat, NEW e \in Nat, d <= e
    PROVE  block_size(d) <= block_size(e)
<1> DEFINE S == {k \in Nat : d <= k /\ ~(block_size(d) <= block_size(k))}
<1> SUFFICES ASSUME S # {} PROVE FALSE
  OBVIOUS
<1>1. PICK m \in S : \A n \in S : m <= n
  BY LeastNat
<1>2. m # d /\ m \in Nat \ {0} /\ d <= m - 1 /\ m - 1 \in Nat
  BY <1>1, PositiveSizes
<1>3. block_size(d) <= block_size(m - 1)
  BY <1>1, <1>2
<1>4. block_size(m) = 2 * block_size(m - 1)
  BY <1>2, BlockSizes
<1> QED BY <1>1, <1>2, <1>3, <1>4, PositiveSizes

(* desc_for finds a descriptor for every size up to max_block.             *)
LEMMA DescFor ==
    ASSUME NEW size \in Nat, size <= max_block
    PROVE  desc_for(size) \in Descs /\ size <= block_size(desc_for(size))
<1>1. DESC_CNT \in Nat \ {0} /\ Descs \subseteq Nat
  BY HeapAssumption DEF Descs
<1> DEFINE S == {d \in Descs : size <= block_size(d)}
<1>2. DESC_CNT - 1 \in S
  BY <1>1 DEF max_block, Descs
<1>3. PICK m \in S : \A n \in S : m <= n
  BY <1>1, <1>2, LeastNat
<1>4. \E d \in Descs : size <= block_size(d) /\ \A e \in Descs : size <= block_size(e) => d <= e
  BY <1>3
<1> QED BY <1>4, Zenon DEF desc_for


-----------------------------------------------------------------------------
(* What the removal of a set of blocks leaves on a list.                   *)
LEMMA AppendOne ==
    ASSUME NEW s \in Seq(Nat), NEW x \in Nat, IsInjective(s), x \notin ToSet(s)
    PROVE  /\ Append(s, x) \in Seq(Nat)
           /\ ToSet(Append(s, x)) = ToSet(s) \cup {x}
           /\ IsInjective(Append(s, x))
<1> DEFINE t == Append(s, x)
<1>1. /\ t \in Seq(Nat) /\ Len(t) = Len(s) + 1 /\ t[Len(s) + 1] = x
      /\ \A i \in 1 .. Len(s) : t[i] = s[i]
  BY AppendProperties
<1>2. DOMAIN s = 1 .. Len(s) /\ DOMAIN t = 1 .. Len(s) + 1 /\ Len(s) \in Nat
  BY <1>1, LenProperties
<1> HIDE DEF t
<1>3. \A i \in 1 .. Len(s) + 1 : i \in 1 .. Len(s) \/ i = Len(s) + 1
  BY <1>2
<1>4. ToSet(t) = ToSet(s) \cup {x}
  <2>1. ASSUME NEW y \in ToSet(t) PROVE y \in ToSet(s) \cup {x}
    BY <1>1, <1>2, <1>3 DEF ToSet
  <2>2. ASSUME NEW y \in ToSet(s) PROVE y \in ToSet(t)
    <3>1. PICK i \in 1 .. Len(s) : s[i] = y
      BY <1>2 DEF ToSet
    <3>2. i \in 1 .. Len(s) + 1
      BY <1>2
    <3> QED BY <1>1, <1>2, <3>1, <3>2 DEF ToSet
  <2>3. x \in ToSet(t)
    <3>1. Len(s) + 1 \in 1 .. Len(s) + 1
      BY <1>2
    <3> QED BY <1>1, <1>2, <3>1 DEF ToSet
  <2> QED BY <2>1, <2>2, <2>3
<1>5. IsInjective(t)
  <2>1. \A i \in 1 .. Len(s) : t[i] \in ToSet(s)
    BY <1>1, <1>2 DEF ToSet
  <2> QED BY <1>1, <1>2, <1>3, <2>1 DEF IsInjective
<1> QED BY <1>1, <1>4, <1>5 DEF t

LEMMA Without ==
    ASSUME NEW plist \in Seq(Nat), IsInjective(plist), NEW S
    PROVE  /\ without(plist, S) \in Seq(Nat)
           /\ ToSet(without(plist, S)) = ToSet(plist) \ S
           /\ IsInjective(without(plist, S))
<1> DEFINE n == Len(plist)
           step == [p \in (1 .. n) \X Seq(Nat) |->
                      IF plist[p[1]] \in S THEN p[2] ELSE Append(p[2], plist[p[1]])]
           IsLeft(f) == f = [k \in 0 .. n |->
                               IF k = 0 THEN <<>>
                               ELSE IF plist[k] \in S THEN f[k - 1]
                               ELSE Append(f[k - 1], plist[k])]
           Seen(k) == {plist[i] : i \in 1 .. k}
           Good(s, k) == s \in Seq(Nat) /\ ToSet(s) = Seen(k) \ S /\ IsInjective(s)
<1>1. n \in Nat /\ DOMAIN plist = 1 .. n /\ \A k \in 1 .. n : plist[k] \in Nat
  BY LenProperties, ElementOfSeq
<1>2. ASSUME NEW k \in 1 .. n, NEW s \in Seq(Nat)
      PROVE  step[<<k, s>>] = IF plist[k] \in S THEN s ELSE Append(s, plist[k])
  OBVIOUS
<1> HIDE DEF step
<1>3. PICK f : Solves(f, n, <<>>, step)
  BY <1>1, SolutionUpTo
<1>4. \A k \in 0 .. n : f[k] = IF k = 0 THEN <<>> ELSE step[<<k, f[k - 1]>>]
  BY <1>3, Zenon DEF Solves
<1> HIDE DEF n
<1>5. ASSUME NEW k \in 1 .. n, Good(f[k - 1], k - 1)
      PROVE  /\ f[k] = IF plist[k] \in S THEN f[k - 1] ELSE Append(f[k - 1], plist[k])
             /\ Good(f[k], k)
  <2>1. k \in 0 .. n /\ k # 0
    BY <1>1
  <2>2. f[k] = IF plist[k] \in S THEN f[k - 1] ELSE Append(f[k - 1], plist[k])
    BY <1>2, <1>4, <1>5, <2>1
  <2>3. Seen(k) = Seen(k - 1) \cup {plist[k]}
    BY <1>1
  <2>4. plist[k] \notin Seen(k - 1)
    BY <1>1 DEF IsInjective
  <2>5. CASE plist[k] \in S
    BY <1>5, <2>2, <2>3, <2>5
  <2>6. CASE plist[k] \notin S
    <3>1. Good(f[k - 1], k - 1) /\ plist[k] \in Nat /\ plist[k] \notin ToSet(f[k - 1])
      BY <1>1, <1>5, <2>4
    <3>2. Append(f[k - 1], plist[k]) \in Seq(Nat)
          /\ ToSet(Append(f[k - 1], plist[k])) = ToSet(f[k - 1]) \cup {plist[k]}
          /\ IsInjective(Append(f[k - 1], plist[k]))
      BY <3>1, AppendOne
    <3>3. Seen(k) \ S = (Seen(k - 1) \ S) \cup {plist[k]}
      BY <2>3, <2>6
    <3> HIDE DEF Seen
    <3> QED BY <2>2, <2>6, <3>1, <3>2, <3>3
  <2> QED BY <2>2, <2>5, <2>6
<1>6. Good(f[0], 0)
  <2>1. 0 \in 0 .. n
    BY <1>1
  <2>2. f[0] = <<>>
    BY <1>4, <2>1, Zenon
  <2> QED BY <2>2 DEF ToSet, IsInjective
<1> DEFINE Bad == {k \in 0 .. n : ~Good(f[k], k)}
<1>7. Bad = {}
  <2> SUFFICES ASSUME Bad # {} PROVE FALSE
    OBVIOUS
  <2> HIDE DEF Good
  <2>1. Bad \in SUBSET Nat
    BY <1>1
  <2>2. PICK m \in Bad : \A k \in Bad : m <= k
    BY <2>1, LeastNat
  <2>3. m \in 1 .. n /\ m - 1 \in 0 .. n /\ ~(m <= m - 1)
    BY <1>1, <1>6, <2>2
  <2>4. Good(f[m - 1], m - 1)
    BY <2>2, <2>3
  <2> QED BY <1>5, <2>2, <2>3, <2>4
<1>8. IsLeft(f)
  <2>1. ASSUME NEW k \in 0 .. n
        PROVE  f[k] = IF k = 0 THEN <<>>
                      ELSE IF plist[k] \in S THEN f[k - 1] ELSE Append(f[k - 1], plist[k])
    <3>1. CASE k = 0
      BY <1>4, <3>1
    <3>2. CASE k # 0
      <4>1. k \in 1 .. n /\ k - 1 \in 0 .. n
        BY <1>1, <3>2
      <4>2. Good(f[k - 1], k - 1)
        BY <1>7, <4>1
      <4> HIDE DEF Good
      <4> QED BY <1>5, <3>2, <4>1, <4>2
    <3> QED BY <3>1, <3>2
  <2>2. f = [k \in 0 .. n |-> f[k]]
    BY <1>3, Zenon DEF Solves
  <2> QED BY <2>1, <2>2, Zenon
<1>9. ASSUME NEW g, IsLeft(g) PROVE g = f
  <2>1. \A k \in 0 .. n : g[k] = IF k = 0 THEN <<>>
                      ELSE IF plist[k] \in S THEN g[k - 1] ELSE Append(g[k - 1], plist[k])
    BY <1>9, Zenon
  <2>2. \A k \in 0 .. n : f[k] = IF k = 0 THEN <<>>
                      ELSE IF plist[k] \in S THEN f[k - 1] ELSE Append(f[k - 1], plist[k])
    BY <1>8, Zenon
  <2> DEFINE D == {k \in 0 .. n : g[k] # f[k]}
  <2>3. D = {}
    <3> SUFFICES ASSUME D # {} PROVE FALSE
      OBVIOUS
    <3>1. D \in SUBSET Nat
      BY <1>1
    <3>2. PICK m \in D : \A k \in D : m <= k
      BY <3>1, LeastNat
    <3>3. m # 0 => m - 1 \in 0 .. n /\ ~(m <= m - 1)
      BY <1>1, <3>2
    <3>4. m # 0 => g[m - 1] = f[m - 1]
      BY <3>2, <3>3
    <3> QED BY <2>1, <2>2, <3>2, <3>4, Zenon
  <2>4. \A k \in 0 .. n : g[k] = f[k]
    BY <2>3
  <2>5. f = [k \in 0 .. n |-> f[k]] /\ g = [k \in 0 .. n |-> g[k]]
    BY <1>3, <1>9, Zenon DEF Solves
  <2> QED BY <2>4, <2>5
<1> DEFINE c == CHOOSE g : IsLeft(g)
<1>10. without(plist, S) = c[n]
  BY Zenon DEF without, n
<1>11. IsLeft(c)
  BY <1>8, Zenon
<1> HIDE DEF c, IsLeft
<1>12. c = f
  BY <1>9, <1>11
<1>13. Good(f[n], n)
  <2>1. n \in 0 .. n
    BY <1>1
  <2> HIDE DEF Good
  <2> QED BY <1>7, <2>1
<1>14. ToSet(plist) = Seen(n)
  BY <1>1 DEF ToSet
<1> QED BY <1>10, <1>12, <1>13, <1>14


-----------------------------------------------------------------------------
(* Arithmetic: quotients and remainders, products.                         *)
LEMMA DivMod ==
    ASSUME NEW x \in Nat, NEW n \in Nat \ {0}
    PROVE  \E p, q \in Nat : p = x \div n /\ q = x % n /\ q < n /\ x = n * p + q
<1>1. PICK p, q : p = x \div n /\ q = x % n
  OBVIOUS
<1>2. p \in Nat /\ q \in Nat /\ q < n
  BY <1>1
<1>3. x % n = x - n * (x \div n)
  BY SMTT(60)
<1>4. q = x - n * p
  BY <1>1, <1>3, Zenon
<1>5. n * p \in Nat
  BY <1>2
<1>6. x = n * p + q
  BY <1>2, <1>4, <1>5
<1> QED BY <1>1, <1>2, <1>6, Zenon

LEMMA Products ==
    ASSUME NEW a \in Nat, NEW b \in Nat, NEW c \in Nat, a <= b
    PROVE  c * a \in Nat /\ c * b \in Nat /\ c * a <= c * b
  OBVIOUS

LEMMA ProductOfNext ==
    ASSUME NEW a \in Nat, NEW c \in Nat
    PROVE  c * (a + 1) = c * a + c
  OBVIOUS

(* The only quotient and remainder.                                        *)
LEMMA DivUnique ==
    ASSUME NEW n \in Nat \ {0}, NEW q \in Nat, NEW r \in Nat, r < n
    PROVE  (n * q + r) \div n = q /\ (n * q + r) % n = r
<1> DEFINE x == n * q + r
<1>1. n * q \in Nat /\ x \in Nat
  BY Products
<1>3. x = n * q + r
  OBVIOUS
<1> HIDE DEF x
<1>2. PICK p, rest \in Nat : p = x \div n /\ rest = x % n /\ rest < n /\ x = n * p + rest
  BY <1>1, DivMod
<1>4. CASE p < q
  <2>1. n * (p + 1) <= n * q /\ n * (p + 1) = n * p + n /\ n * p \in Nat
    BY <1>2, <1>4, Products, ProductOfNext
  <2> QED BY <1>1, <1>2, <1>3, <2>1
<1>5. CASE q < p
  <2>1. n * (q + 1) <= n * p /\ n * (q + 1) = n * q + n /\ n * p \in Nat
    BY <1>2, <1>5, Products, ProductOfNext
  <2> QED BY <1>1, <1>2, <1>3, <2>1
<1>6. p = q /\ rest = r
  BY <1>1, <1>2, <1>3, <1>4, <1>5
<1> QED BY <1>2, <1>6, Zenon DEF x

(* The sizes fit: an arena has at least one block of its descriptor, and   *)
(* all of them lie on its page.                                            *)
LEMMA Constants ==
    /\ PG_SIZE \in Nat \ {0} /\ ArenaSize \in Nat \ {0} /\ NPages \in Nat \ {0}
    /\ DESC_CNT \in Nat \ {0} /\ Descs \subseteq Nat /\ Sizes \subseteq Nat
    /\ pool_size = NPages * PG_SIZE /\ pool_size \in Nat /\ ArenaSize < PG_SIZE
    /\ max_block \in Nat \ {0}
<1>1. /\ PG_SIZE \in Nat \ {0} /\ ArenaSize \in Nat \ {0} /\ NPages \in Nat \ {0}
      /\ DESC_CNT \in Nat \ {0} /\ Descs \subseteq Nat /\ Sizes \subseteq Nat
  BY HeapAssumption DEF Descs
<1>2. pool_size = NPages * PG_SIZE /\ pool_size \in Nat
  BY <1>1, Products DEF pool_size
<1>3. max_block \in Nat \ {0}
  BY <1>1, PositiveSizes DEF max_block
<1> QED BY <1>1, <1>2, <1>3, HeapAssumption DEF max_block

LEMMA Fits ==
    ASSUME NEW d \in Descs
    PROVE  /\ block_size(d) \in Nat \ {0}
           /\ blocks_per_arena(d) \in Nat \ {0}
           /\ ArenaSize + block_size(d) * blocks_per_arena(d) <= PG_SIZE
<1> DEFINE bs == block_size(d)
           room == PG_SIZE - ArenaSize
<1>1. d \in Nat /\ d <= DESC_CNT - 1 /\ DESC_CNT - 1 \in Nat
  BY Constants DEF Descs
<1>2. bs \in Nat \ {0}
  BY <1>1, PositiveSizes
<1>3. bs <= room /\ room \in Nat
  BY <1>1, <1>2, GrowingSizes, PositiveSizes, Constants, HeapAssumption
<1>4. blocks_per_arena(d) = room \div bs
  BY DEF blocks_per_arena
<1>5. room <= PG_SIZE - ArenaSize
  BY <1>3, Constants
<1> HIDE DEF room, bs
<1>6. PICK n, rest \in Nat : n = room \div bs /\ rest < bs /\ room = bs * n + rest
  BY <1>2, <1>3, DivMod
<1>7. bs * n \in Nat /\ bs * 0 = 0
  BY <1>2, <1>6
<1>8. n # 0
  BY <1>2, <1>3, <1>6, <1>7
<1>9. ArenaSize + bs * n <= PG_SIZE
  BY <1>2, <1>3, <1>5, <1>6, <1>7, Constants
<1>10. blocks_per_arena(d) = n
  BY <1>4, <1>6, Zenon
<1> QED BY <1>2, <1>6, <1>8, <1>9, <1>10 DEF bs


-----------------------------------------------------------------------------
(* Addresses: the page and the arena of a byte.                            *)
LEMMA PageStart ==
    ASSUME NEW a, Page(a)
    PROVE  \E v \in Nat : v = a \div PG_SIZE /\ a = PG_SIZE * v
<1>1. PG_SIZE \in Nat \ {0} /\ a \in Nat
  BY Constants DEF Page
<1>2. PICK p, q \in Nat : p = a \div PG_SIZE /\ q = a % PG_SIZE /\ a = PG_SIZE * p + q
  BY <1>1, DivMod
<1>3. q = 0 /\ PG_SIZE * p \in Nat
  BY <1>1, <1>2, Products DEF Page
<1>4. a = PG_SIZE * p
  BY <1>2, <1>3
<1> QED BY <1>2, <1>4

LEMMA OffsetOnPage ==
    ASSUME NEW a, Page(a), NEW off \in Nat, off < PG_SIZE
    PROVE  (a + off) \div PG_SIZE = a \div PG_SIZE /\ block2arena(a + off) = a
<1>1. PICK v \in Nat : v = a \div PG_SIZE /\ a = PG_SIZE * v
  BY PageStart
<1>2. PG_SIZE \in Nat \ {0} /\ PG_SIZE * v \in Nat
  BY <1>1, Constants, Products
<1>3. (PG_SIZE * v + off) \div PG_SIZE = v /\ (PG_SIZE * v + off) % PG_SIZE = off
  BY <1>2, DivUnique
<1>4. (a + off) \div PG_SIZE = v /\ (a + off) % PG_SIZE = off
  BY <1>1, <1>3, Zenon
<1>5. block2arena(a + off) = (a + off) - off
  BY <1>4, Zenon DEF block2arena
<1>6. (a + off) - off = a
  BY <1>1, <1>2
<1> QED BY <1>1, <1>4, <1>5, <1>6, Zenon

LEMMA OffsetInRun ==
    ASSUME NEW a, Page(a), NEW n \in Nat \ {0}, NEW off \in Nat, off < n * PG_SIZE
    PROVE  (a + off) \div PG_SIZE \in a \div PG_SIZE .. a \div PG_SIZE + n - 1
<1>1. PICK v \in Nat : v = a \div PG_SIZE /\ a = PG_SIZE * v
  BY PageStart
<1>2. PG_SIZE \in Nat \ {0}
  BY Constants
<1>3. PICK p, q \in Nat : p = off \div PG_SIZE /\ q < PG_SIZE /\ off = PG_SIZE * p + q
  BY <1>2, DivMod
<1>4. PG_SIZE * v \in Nat /\ PG_SIZE * p \in Nat
  BY <1>1, <1>2, <1>3, Products
<1>5. p < n
  <2>1. ASSUME n <= p PROVE FALSE
    <3>1. PG_SIZE * n <= PG_SIZE * p /\ PG_SIZE * n \in Nat
      BY <1>2, <1>3, <2>1, Products
    <3>2. PG_SIZE * n = n * PG_SIZE
      BY <1>2
    <3> QED BY <1>3, <1>4, <3>1, <3>2
  <2> QED BY <1>3, <2>1
<1>6. PG_SIZE * (v + p) = PG_SIZE * v + PG_SIZE * p
  BY <1>1, <1>2, <1>3
<1>7. a + off = PG_SIZE * (v + p) + q
  BY <1>1, <1>3, <1>4, <1>6
<1>8. v + p \in Nat
  BY <1>1, <1>3
<1>9. (PG_SIZE * (v + p) + q) \div PG_SIZE = v + p
  BY <1>2, <1>3, <1>8, DivUnique
<1>10. (a + off) \div PG_SIZE = v + p
  BY <1>7, <1>9, Zenon
<1>11. v + p \in v .. v + n - 1
  BY <1>1, <1>3, <1>5
<1> QED BY <1>1, <1>10, <1>11, Zenon

(* The blocks of an arena lie on its page, behind the header, and apart.   *)
LEMMA BlockPlace ==
    ASSUME NEW a, Page(a), NEW d \in Descs, NEW b \in BlocksOf(a, d)
    PROVE  /\ b \in Nat /\ a + ArenaSize <= b /\ b + block_size(d) <= a + PG_SIZE
           /\ block2arena(b) = a
<1>1. PICK i \in 0 .. blocks_per_arena(d) - 1 : b = arena2block(a, d, i)
  BY DEF BlocksOf
<1> DEFINE bs == block_size(d)
           n == blocks_per_arena(d)
<1>2. bs \in Nat \ {0} /\ n \in Nat \ {0} /\ ArenaSize + bs * n <= PG_SIZE
  BY Fits
<1>3. b = a + ArenaSize + i * bs
  BY <1>1 DEF arena2block
<1>4. i \in Nat /\ i + 1 <= n
  BY <1>1, <1>2
<1> HIDE DEF bs, n
<1>5. /\ i * bs = bs * i /\ bs * i \in Nat /\ bs * (i + 1) = bs * i + bs
      /\ bs * (i + 1) <= bs * n /\ bs * n \in Nat
  BY <1>2, <1>4, Products, ProductOfNext
<1>6. a \in Nat /\ ArenaSize \in Nat /\ PG_SIZE \in Nat
  BY Constants DEF Page
<1>7. b \in Nat /\ a + ArenaSize <= b /\ b + bs <= a + PG_SIZE
  BY <1>2, <1>3, <1>5, <1>6
<1>8. b - a \in Nat /\ b - a < PG_SIZE /\ a + (b - a) = b
  BY <1>2, <1>6, <1>7
<1>9. block2arena(a + (b - a)) = a
  BY <1>8, OffsetOnPage
<1>10. block2arena(b) = a
  BY <1>8, <1>9, Zenon
<1> QED BY <1>7, <1>10 DEF bs

LEMMA BlocksApart ==
    ASSUME NEW a, Page(a), NEW d \in Descs,
           NEW i \in 0 .. blocks_per_arena(d) - 1, NEW j \in 0 .. blocks_per_arena(d) - 1, i < j
    PROVE  /\ arena2block(a, d, i) + block_size(d) <= arena2block(a, d, j)
           /\ arena2block(a, d, i) # arena2block(a, d, j)
<1> DEFINE bs == block_size(d)
<1>1. bs \in Nat \ {0} /\ blocks_per_arena(d) \in Nat \ {0}
  BY Fits
<1>2. /\ arena2block(a, d, i) = a + ArenaSize + i * bs
      /\ arena2block(a, d, j) = a + ArenaSize + j * bs
  BY DEF arena2block
<1>3. i \in Nat /\ j \in Nat /\ i + 1 <= j
  BY <1>1
<1> HIDE DEF bs
<1>4. /\ i * bs = bs * i /\ j * bs = bs * j /\ bs * (i + 1) = bs * i + bs
      /\ bs * (i + 1) <= bs * j /\ bs * i \in Nat /\ bs * j \in Nat
  BY <1>1, <1>3, Products, ProductOfNext
<1>5. a \in Nat /\ ArenaSize \in Nat
  BY Constants DEF Page
<1>6. a + ArenaSize + i * bs + bs <= a + ArenaSize + j * bs
  BY <1>1, <1>4, <1>5
<1>7. arena2block(a, d, i) \in Nat /\ arena2block(a, d, j) \in Nat
  BY <1>2, <1>4, <1>5
<1> QED BY <1>1, <1>2, <1>6, <1>7 DEF bs

LEMMA BlockCount ==
    ASSUME NEW a, Page(a), NEW d \in Descs
    PROVE  /\ IsFiniteSet(BlocksOf(a, d))
           /\ Cardinality(BlocksOf(a, d)) = blocks_per_arena(d)
<1> DEFINE n == blocks_per_arena(d)
           f == [i \in 0 .. n - 1 |-> arena2block(a, d, i)]
<1>1. n \in Nat \ {0}
  BY Fits
<1>2. IsFiniteSet(0 .. n - 1) /\ Cardinality(0 .. n - 1) = n
  BY <1>1, FS_Interval
<1>3. f \in Bijection(0 .. n - 1, BlocksOf(a, d))
  <2>1. f \in [0 .. n - 1 -> BlocksOf(a, d)]
    BY DEF BlocksOf
  <2>2. ASSUME NEW i \in 0 .. n - 1, NEW j \in 0 .. n - 1, f[i] = f[j] PROVE i = j
    BY <1>1, <2>2, BlocksApart
  <2>3. \A b \in BlocksOf(a, d) : \E i \in 0 .. n - 1 : f[i] = b
    BY DEF BlocksOf
  <2> HIDE DEF f, n
  <2> QED BY <2>1, <2>2, <2>3, Zenon DEF Bijection, Injection, Surjection, IsInjective
<1>4. ExistsBijection(0 .. n - 1, BlocksOf(a, d))
  BY <1>3 DEF ExistsBijection
<1> QED BY <1>2, <1>4, FS_Bijection

-----------------------------------------------------------------------------
(* The first block of a free list, and the list of a new arena.            *)
LEMMA HeadTail ==
    ASSUME NEW s \in Seq(Nat), IsInjective(s), s # <<>>
    PROVE  /\ Head(s) \in ToSet(s) /\ Head(s) \in Nat
           /\ Tail(s) \in Seq(Nat) /\ IsInjective(Tail(s))
           /\ ToSet(Tail(s)) = ToSet(s) \ {Head(s)}
<1> DEFINE t == Tail(s)
           n == Len(s)
<1>1. /\ n \in Nat \ {0} /\ DOMAIN s = 1 .. n /\ \A i \in 1 .. n : s[i] \in Nat
      /\ Head(s) = s[1]
  BY EmptySeq, LenProperties, ElementOfSeq, HeadTailProperties
<1>2. t \in Seq(Nat) /\ Len(t) = n - 1 /\ \A i \in 1 .. n - 1 : t[i] = s[i + 1]
  BY HeadTailProperties
<1>3. DOMAIN t = 1 .. n - 1
  BY <1>2, LenProperties
<1> HIDE DEF t, n
<1>4. 1 \in 1 .. n /\ \A i \in 1 .. n - 1 : i + 1 \in 1 .. n /\ i + 1 # 1
  BY <1>1
<1>5. Head(s) \in ToSet(s) /\ Head(s) \in Nat
  BY <1>1, <1>4 DEF ToSet
<1>6. IsInjective(t)
  <2>1. ASSUME NEW i \in 1 .. n - 1, NEW j \in 1 .. n - 1, t[i] = t[j] PROVE i = j
    <3>1. s[i + 1] = s[j + 1] /\ i + 1 \in 1 .. n /\ j + 1 \in 1 .. n
      BY <1>2, <1>4, <2>1
    <3>2. i + 1 = j + 1
      BY <1>1, <3>1 DEF IsInjective
    <3> QED BY <1>1, <3>2
  <2> QED BY <1>3, <2>1, Zenon DEF IsInjective
<1>7. ASSUME NEW x \in ToSet(t) PROVE x \in ToSet(s) \ {Head(s)}
  <2>1. PICK i \in 1 .. n - 1 : x = t[i]
    BY <1>3 DEF ToSet
  <2>2. x = s[i + 1] /\ i + 1 \in 1 .. n /\ i + 1 # 1
    BY <1>2, <1>4, <2>1
  <2>3. x # s[1]
    BY <1>1, <1>4, <2>2 DEF IsInjective
  <2> QED BY <1>1, <2>2, <2>3 DEF ToSet
<1>8. ASSUME NEW x \in ToSet(s) \ {Head(s)} PROVE x \in ToSet(t)
  <2>1. PICK i \in 1 .. n : x = s[i]
    BY <1>1 DEF ToSet
  <2>2. i # 1
    BY <1>1, <2>1
  <2>3. i - 1 \in 1 .. n - 1 /\ (i - 1) + 1 = i
    BY <1>1, <2>2
  <2>4. t[i - 1] = x
    BY <1>2, <2>1, <2>3
  <2> QED BY <1>3, <2>3, <2>4 DEF ToSet
<1> QED BY <1>2, <1>5, <1>6, <1>7, <1>8 DEF t

LEMMA FillList ==
    ASSUME NEW a, Page(a), NEW d \in Descs, NEW fill,
           fill = [i \in 1 .. blocks_per_arena(d) |-> arena2block(a, d, i - 1)]
    PROVE  /\ fill \in Seq(Nat) /\ IsInjective(fill) /\ fill # <<>>
           /\ ToSet(fill) = BlocksOf(a, d)
<1> DEFINE n == blocks_per_arena(d)
<1>1. n \in Nat \ {0} /\ DOMAIN fill = 1 .. n
  BY Fits
<1>2. ASSUME NEW i \in 1 .. n
      PROVE  i - 1 \in 0 .. n - 1 /\ fill[i] = arena2block(a, d, i - 1)
  BY <1>1
<1>3. ASSUME NEW i \in 1 .. n PROVE fill[i] \in Nat
  BY <1>2, BlockPlace DEF BlocksOf
<1>4. fill \in Seq(Nat)
  <2>1. fill \in [1 .. n -> Nat]
    BY <1>3, Zenon DEF n
  <2> QED BY <1>1, <2>1
<1> HIDE DEF n
<1>5. IsInjective(fill)
  <2>1. ASSUME NEW i \in 1 .. n, NEW j \in 1 .. n, i < j PROVE fill[i] # fill[j]
    <3>1. i - 1 < j - 1
      BY <1>1, <2>1
    <3> QED BY <1>2, <3>1, BlocksApart DEF n
  <2>2. \A i, j \in 1 .. n : i < j \/ j < i \/ i = j
    BY <1>1
  <2>3. ASSUME NEW i \in 1 .. n, NEW j \in 1 .. n, fill[i] = fill[j] PROVE i = j
    BY <2>1, <2>2, <2>3, Zenon
  <2> QED BY <1>1, <2>3, Zenon DEF IsInjective
<1>6. fill # <<>>
  <2>1. 1 \in 1 .. n
    BY <1>1
  <2>2. 1 \in DOMAIN fill
    BY <1>1, <2>1, Zenon
  <2> QED BY <2>2
<1>7. ASSUME NEW b \in BlocksOf(a, d) PROVE b \in ToSet(fill)
  <2>1. PICK i \in 0 .. n - 1 : b = arena2block(a, d, i)
    BY DEF BlocksOf, n
  <2>2. i + 1 \in 1 .. n /\ (i + 1) - 1 = i
    BY <1>1
  <2> QED BY <1>1, <1>2, <2>1, <2>2 DEF ToSet
<1>8. ASSUME NEW b \in ToSet(fill) PROVE b \in BlocksOf(a, d)
  BY <1>1, <1>2 DEF BlocksOf, ToSet, n
<1> QED BY <1>4, <1>5, <1>6, <1>7, <1>8

-----------------------------------------------------------------------------
(* Whose block an address is.                                              *)
LEMMA HolderArena ==
    ASSUME NEW a, NEW h, ArenaShape(a, h), NEW r, NEW fl, Holds(r, a, h, fl)
    PROVE  block2arena(r[1]) = a
<1>1. Page(a) /\ (~h.large => h.desc \in Descs)
  BY DEF ArenaShape
<1>2. CASE h.large
  <2>1. r[1] = a + ArenaSize
    BY <1>2 DEF Holds
  <2>2. ArenaSize \in Nat /\ ArenaSize < PG_SIZE
    BY Constants
  <2> QED BY <1>1, <2>1, <2>2, OffsetOnPage
<1>3. CASE ~h.large
  BY <1>1, <1>3, BlockPlace DEF Holds
<1> QED BY <1>2, <1>3

LEMMA Owner ==
    ASSUME NEW ars, NEW fl, NEW lv, ArenasSound(ars), LiveSound(ars, fl, lv),
           NEW r \in lv, NEW a, a = block2arena(r[1])
    PROVE  a \in DOMAIN ars /\ Holds(r, a, ars[a], fl)
<1>1. PICK x \in DOMAIN ars : Holds(r, x, ars[x], fl)
  BY DEF LiveSound
<1>2. ArenaShape(x, ars[x])
  BY DEF ArenasSound
<1>3. a = x
  BY <1>1, <1>2, HolderArena
<1> QED BY <1>1, <1>3

LEMMA FreeOwner ==
    ASSUME NEW ars, NEW fl, ArenasSound(ars), FreeListsSound(ars, fl),
           NEW d \in Descs, NEW b \in ToSet(fl[d]), NEW a, a = block2arena(b)
    PROVE  FreeIn(ars, b, d, a)
<1>1. PICK x \in DOMAIN ars : FreeIn(ars, b, d, x)
  BY DEF FreeListsSound
<1>2. Page(x) /\ b \in BlocksOf(x, d)
  BY <1>1 DEF ArenasSound, ArenaShape, FreeIn
<1>3. a = x
  BY <1>2, BlockPlace
<1> QED BY <1>1, <1>3

LEMMA OneArena ==
    ASSUME NEW x, Page(x), NEW y, Page(y), NEW d \in Descs, NEW e \in Descs,
           NEW b, b \in BlocksOf(x, d), b \in BlocksOf(y, e)
    PROVE  x = y
<1>1. block2arena(b) = x
  BY BlockPlace
<1>2. block2arena(b) = y
  BY BlockPlace
<1> QED BY <1>1, <1>2

-----------------------------------------------------------------------------
(* The run of pages that malloc_pages finds belongs to no arena.           *)
LEMMA FreshRun ==
    ASSUME ArenasSound(arenas), NEW cnt \in Nat \ {0}, NEW a \in malloc_pages(cnt)
    PROVE  /\ Page(a) /\ a \div PG_SIZE + cnt <= NPages /\ a \notin DOMAIN arenas
           /\ \A x \in DOMAIN arenas :
                PagesOf(arenas, x) \cap (a \div PG_SIZE .. a \div PG_SIZE + cnt - 1) = {}
<1>1. PICK v \in 0 .. NPages - cnt : v .. v + cnt - 1 \subseteq unused_pages /\ a = v * PG_SIZE
  BY DEF malloc_pages
<1>2. PG_SIZE \in Nat \ {0} /\ NPages \in Nat \ {0}
  BY Constants
<1>3. v \in Nat /\ v + cnt <= NPages
  BY <1>1, <1>2
<1>4. PG_SIZE * v \in Nat /\ PG_SIZE * v + 0 = a /\ a = PG_SIZE * v
  BY <1>1, <1>2, <1>3, Products
<1>5. (PG_SIZE * v + 0) \div PG_SIZE = v /\ (PG_SIZE * v + 0) % PG_SIZE = 0
  BY <1>2, <1>3, DivUnique
<1>6. a \div PG_SIZE = v /\ a % PG_SIZE = 0
  BY <1>4, <1>5, Zenon
<1>7. Page(a)
  BY <1>4, <1>6 DEF Page
<1>8. ASSUME NEW x \in DOMAIN arenas PROVE PagesOf(arenas, x) \cap (v .. v + cnt - 1) = {}
  <2>1. arena_pages(x) = PagesOf(arenas, x)
    BY DEF arena_pages, PagesOf
  <2>2. \A p \in unused_pages : p \notin arena_pages(x)
    BY <1>8 DEF unused_pages
  <2> QED BY <1>1, <2>1, <2>2
<1>9. a \notin DOMAIN arenas
  <2>1. ASSUME a \in DOMAIN arenas PROVE FALSE
    <3>1. ArenaShape(a, arenas[a])
      BY <2>1 DEF ArenasSound
    <3>2. arenas[a].pages \in Nat /\ arenas[a].pages >= 1
      BY <3>1 DEF ArenaShape, Header
    <3>3. v \in v .. v + arenas[a].pages - 1 /\ v \in v .. v + cnt - 1
      BY <1>3, <3>2
    <3>4. v \in PagesOf(arenas, a)
      BY <1>6, <3>3 DEF PagesOf
    <3> QED BY <1>8, <2>1, <3>3, <3>4
  <2> QED BY <2>1
<1> QED BY <1>3, <1>6, <1>7, <1>8, <1>9

Added(old, ars, a, h) ==
    /\ a \notin DOMAIN old /\ DOMAIN ars = DOMAIN old \cup {a} /\ ars[a] = h
    /\ \A x \in DOMAIN old : ars[x] = old[x]

LEMMA AddArena ==
    ASSUME ArenasSound(arenas), NEW h \in Header, NEW cnt \in Nat \ {0}, h.pages = cnt,
           NEW a \in malloc_pages(cnt), h.large \/ (h.desc \in Descs /\ cnt = 1),
           NEW ars, ars = add_arena(a, h)
    PROVE  ArenaShape(a, h) /\ ArenasSound(ars) /\ Added(arenas, ars, a, h)
<1>2. /\ Page(a) /\ a \div PG_SIZE + h.pages <= NPages /\ a \notin DOMAIN arenas
      /\ \A x \in DOMAIN arenas :
           PagesOf(arenas, x) \cap (a \div PG_SIZE .. a \div PG_SIZE + h.pages - 1) = {}
  BY FreshRun
<1>3. ArenaShape(a, h)
  BY <1>2 DEF ArenaShape
<1>4. /\ DOMAIN ars = DOMAIN arenas \cup {a} /\ ars[a] = h
      /\ \A x \in DOMAIN arenas : ars[x] = arenas[x]
      /\ ars = [x \in DOMAIN ars |-> ars[x]]
  BY <1>2 DEF add_arena
<1>5. PagesOf(ars, a) = a \div PG_SIZE .. a \div PG_SIZE + h.pages - 1
  BY <1>4, Zenon DEF PagesOf
<1>6. \A x \in DOMAIN arenas : PagesOf(ars, x) = PagesOf(arenas, x)
  BY <1>4, Zenon DEF PagesOf
<1>7. \A x, y \in DOMAIN ars : x # y => PagesOf(ars, x) \cap PagesOf(ars, y) = {}
  <2> SUFFICES ASSUME NEW x \in DOMAIN ars, NEW y \in DOMAIN ars, x # y
               PROVE  PagesOf(ars, x) \cap PagesOf(ars, y) = {}
    OBVIOUS
  <2>1. CASE x = a
    BY <1>2, <1>4, <1>5, <1>6, <2>1
  <2>2. CASE y = a
    BY <1>2, <1>4, <1>5, <1>6, <2>2
  <2>3. CASE x # a /\ y # a
    BY <1>4, <1>6, <2>3 DEF ArenasSound
  <2> QED BY <2>1, <2>2, <2>3
<1>8. \A x \in DOMAIN ars : ArenaShape(x, ars[x])
  BY <1>3, <1>4 DEF ArenasSound
<1>9. ArenasSound(ars)
  BY <1>4, <1>7, <1>8, Zenon DEF ArenasSound
<1> QED BY <1>2, <1>3, <1>4, <1>9, Zenon DEF Added

Dropped(old, ars, a) ==
    DOMAIN ars = DOMAIN old \ {a} /\ \A x \in DOMAIN ars : ars[x] = old[x]

LEMMA DropArena ==
    ASSUME ArenasSound(arenas), NEW a \in DOMAIN arenas, NEW ars, ars = drop_arena(a)
    PROVE  ArenasSound(ars) /\ Dropped(arenas, ars, a)
<1>1. /\ DOMAIN ars = DOMAIN arenas \ {a}
      /\ \A x \in DOMAIN ars : ars[x] = arenas[x]
      /\ ars = [x \in DOMAIN ars |-> ars[x]]
  BY DEF drop_arena
<1>2. \A x \in DOMAIN ars : x \in DOMAIN arenas /\ PagesOf(ars, x) = PagesOf(arenas, x)
  BY <1>1, Zenon DEF PagesOf
<1>3. \A x \in DOMAIN ars : ArenaShape(x, ars[x])
  BY <1>1 DEF ArenasSound
<1>4. \A x, y \in DOMAIN ars : x # y => PagesOf(ars, x) \cap PagesOf(ars, y) = {}
  BY <1>2 DEF ArenasSound
<1> QED BY <1>1, <1>3, <1>4, Zenon DEF ArenasSound, Dropped

(* An arena's header changes in its count only.                            *)
WithCount(old, a, n) == [old EXCEPT ![a] = [old[a] EXCEPT !.cnt = n]]
Recounted(old, ars, a, n) ==
    /\ DOMAIN ars = DOMAIN old /\ \A x \in DOMAIN old \ {a} : ars[x] = old[x]
    /\ ars[a].cnt = n /\ ars[a].desc = old[a].desc
    /\ ars[a].large = old[a].large /\ ars[a].pages = old[a].pages

LEMMA NewCount ==
    ASSUME NEW old, ArenasSound(old), NEW a \in DOMAIN old, NEW n \in Nat,
           NEW ars, ars = WithCount(old, a, n)
    PROVE  ArenasSound(ars) /\ Recounted(old, ars, a, n)
<1>1. old[a] \in Header /\ ArenaShape(a, old[a])
  BY DEF ArenasSound, ArenaShape
<1>2. /\ DOMAIN ars = DOMAIN old
      /\ \A x \in DOMAIN old \ {a} : ars[x] = old[x]
      /\ ars[a] = [old[a] EXCEPT !.cnt = n]
      /\ ars = [x \in DOMAIN ars |-> ars[x]]
  BY DEF ArenasSound, WithCount
<1>3. /\ ars[a].cnt = n /\ ars[a].desc = old[a].desc /\ ars[a] \in Header
      /\ ars[a].large = old[a].large /\ ars[a].pages = old[a].pages
  BY <1>1, <1>2 DEF Header
<1>4. ArenaShape(a, ars[a])
  BY <1>1, <1>3 DEF ArenaShape
<1>5. \A x \in DOMAIN ars : x \in DOMAIN old /\ PagesOf(ars, x) = PagesOf(old, x)
  <2>1. \A x \in DOMAIN ars : x \in DOMAIN old /\ ars[x].pages = old[x].pages
    BY <1>2, <1>3
  <2> QED BY <2>1, Zenon DEF PagesOf
<1>6. \A x \in DOMAIN ars : ArenaShape(x, ars[x])
  BY <1>2, <1>4 DEF ArenasSound
<1>7. \A x, y \in DOMAIN ars : x # y => PagesOf(ars, x) \cap PagesOf(ars, y) = {}
  BY <1>5 DEF ArenasSound
<1> QED BY <1>2, <1>3, <1>6, <1>7, Zenon DEF ArenasSound, Recounted

-----------------------------------------------------------------------------
(* sys_malloc of whole pages.                                              *)
LEMMA PageCount ==
    ASSUME NEW size \in Nat, NEW n, n = DIV_ROUND_UP(size + ArenaSize, PG_SIZE)
    PROVE  n \in Nat \ {0} /\ ArenaSize + size <= n * PG_SIZE
<1> DEFINE x == size + ArenaSize + PG_SIZE - 1
<1>1. PG_SIZE \in Nat \ {0} /\ ArenaSize \in Nat \ {0}
  BY Constants
<1>2. x \in Nat /\ x = size + ArenaSize + PG_SIZE - 1
  BY <1>1
<1>3. n = x \div PG_SIZE
  BY DEF DIV_ROUND_UP
<1> HIDE DEF x
<1>4. PICK p, q \in Nat : p = x \div PG_SIZE /\ q < PG_SIZE /\ x = PG_SIZE * p + q
  BY <1>1, <1>2, DivMod
<1>5. PG_SIZE * p \in Nat /\ PG_SIZE * 0 = 0 /\ PG_SIZE * p = p * PG_SIZE
  BY <1>1, <1>4
<1>6. ArenaSize + size <= p * PG_SIZE
  BY <1>1, <1>2, <1>4, <1>5
<1>7. p # 0
  BY <1>1, <1>5, <1>6
<1> QED BY <1>3, <1>4, <1>6, <1>7, Zenon

LEMMA LargeStep ==
    ASSUME AllocInv, NEW size \in Sizes, size > 0, malloc_large(size)
    PROVE  AllocInv'
<1> DEFINE n == DIV_ROUND_UP(size + ArenaSize, PG_SIZE)
           h == [desc |-> DESC_CNT, cnt |-> n, large |-> TRUE, pages |-> n]
<1>1. size \in Nat /\ DESC_CNT \in Nat
  BY Constants
<1>2. n \in Nat \ {0} /\ ArenaSize + size <= n * PG_SIZE
  BY <1>1, PageCount
<1>3. PICK a \in malloc_pages(n) :
        /\ arenas' = add_arena(a, h)
        /\ live' = live \cup {<<a + ArenaSize, size>>}
        /\ UNCHANGED <<free_list, panic>>
  BY DEF malloc_large
<1>4. /\ h \in Header /\ h.pages >= 1 /\ h.large /\ a \in malloc_pages(h.pages)
      /\ h.pages = n
  BY <1>1, <1>2, <1>3 DEF Header
<1>5. /\ ArenasSound(arenas) /\ FreeListsSound(arenas, free_list)
      /\ LiveSound(arenas, free_list, live) /\ NoneLost(arenas, free_list, live)
      /\ CountsSound(arenas, free_list) /\ NoneIdle(arenas) /\ panic = FALSE
  BY DEF AllocInv, Sound
<1> DEFINE r == <<a + ArenaSize, size>>
<1> HIDE DEF n, h
<1>6. /\ ArenaShape(a, h) /\ a \notin DOMAIN arenas /\ ArenasSound(arenas')
      /\ DOMAIN arenas' = DOMAIN arenas \cup {a} /\ arenas'[a] = h
      /\ \A x \in DOMAIN arenas : arenas'[x] = arenas[x]
  <2>1. ArenaShape(a, h) /\ ArenasSound(arenas') /\ Added(arenas, arenas', a, h)
    BY <1>2, <1>3, <1>4, <1>5, AddArena
  <2> QED BY <2>1, Zenon DEF Added
<1>7. r[1] = a + ArenaSize /\ r[2] = size /\ r \in Nat \X Sizes
  BY <1>6, Constants DEF ArenaShape, Page
<1> HIDE DEF r
<1>8. Holds(r, a, h, free_list)
  BY <1>2, <1>4, <1>7 DEF Holds
<1>9. block2arena(r[1]) = a
  BY <1>6, <1>8, HolderArena
<1>10. FreeListsSound(arenas', free_list)
  <2>1. ASSUME NEW d \in Descs, NEW b \in ToSet(free_list[d])
        PROVE  \E x \in DOMAIN arenas' : FreeIn(arenas', b, d, x)
    <3>1. PICK x \in DOMAIN arenas : FreeIn(arenas, b, d, x)
      BY <1>5 DEF FreeListsSound
    <3>2. x \in DOMAIN arenas' /\ arenas'[x] = arenas[x]
      BY <1>6
    <3>3. FreeIn(arenas', b, d, x)
      BY <3>1, <3>2, Zenon DEF FreeIn
    <3> QED BY <3>2, <3>3
  <2> QED BY <1>5, <2>1, Zenon DEF FreeListsSound
<1>11. live' = live \cup {r} /\ free_list' = free_list /\ panic' = panic
  BY <1>3, Zenon DEF r
<1>12. LiveSound(arenas', free_list, live')
  <2>1. ASSUME NEW s \in live' PROVE s \in Nat \X Sizes /\ s[2] > 0
    BY <1>5, <1>7, <1>11 DEF LiveSound
  <2>2. ASSUME NEW s \in live' PROVE \E x \in DOMAIN arenas' : Holds(s, x, arenas'[x], free_list)
    <3>1. CASE s = r
      BY <1>6, <1>8, <3>1
    <3>2. CASE s \in live
      BY <1>5, <1>6, <3>2 DEF LiveSound
    <3> QED BY <1>11, <3>1, <3>2
  <2>3. \A s \in live : s[1] # r[1]
    BY <1>5, <1>6, <1>9, Owner
  <2>4. \A s, t \in live' : s[1] = t[1] => s = t
    BY <1>5, <1>11, <2>3 DEF LiveSound
  <2> QED BY <2>1, <2>2, <2>4, Zenon DEF LiveSound
<1>13. NoneLost(arenas', free_list, live')
  <2>1. ASSUME NEW x \in DOMAIN arenas PROVE Kept(x, arenas[x], free_list, live')
    BY <1>5, <1>11 DEF NoneLost, Kept
  <2>2. Kept(a, h, free_list, live')
    BY <1>4, <1>7, <1>11 DEF Kept
  <2> QED BY <1>6, <2>1, <2>2 DEF NoneLost
<1>14. CountsSound(arenas', free_list)
  <2>1. Counted(a, h, free_list)
    BY <1>4 DEF Counted
  <2> QED BY <1>5, <1>6, <2>1 DEF CountsSound
<1>15. NoneIdle(arenas')
  <2>1. Used(h)
    BY <1>4 DEF Used
  <2> QED BY <1>5, <1>6, <2>1 DEF NoneIdle
<1>16. Sound(arenas', free_list', live') /\ panic' = FALSE
  BY <1>5, <1>6, <1>10, <1>11, <1>12, <1>13, <1>14, Zenon DEF Sound
<1> QED BY <1>15, <1>16, Zenon DEF AllocInv

(* An empty free list is filled with the blocks of a new arena.            *)
WithList(fl, d, l) == [fl EXCEPT ![d] = l]
SmallHeader(d) ==
    [desc |-> d, cnt |-> blocks_per_arena(d), large |-> FALSE, pages |-> 1]
FillOf(a, d) == [i \in 1 .. blocks_per_arena(d) |-> arena2block(a, d, i - 1)]

LEMMA Refill ==
    ASSUME Sound(arenas, free_list, live), NEW d \in Descs, free_list[d] = <<>>,
           NEW a \in malloc_pages(1), NEW h, NEW fill, NEW ars, NEW fl,
           h = SmallHeader(d), fill = FillOf(a, d),
           ars = add_arena(a, h), fl = WithList(free_list, d, fill)
    PROVE  Sound(ars, fl, live) /\ Page(a) /\ Added(arenas, ars, a, h)
<1>1. /\ ArenasSound(arenas) /\ FreeListsSound(arenas, free_list)
      /\ LiveSound(arenas, free_list, live) /\ NoneLost(arenas, free_list, live)
      /\ CountsSound(arenas, free_list)
  BY DEF Sound
<1>2. /\ h \in Header /\ h.pages = 1 /\ ~h.large /\ h.desc = d
      /\ h.cnt = blocks_per_arena(d) /\ 1 >= 1
  BY Fits, Constants DEF Header, Descs, SmallHeader
<1>4. /\ ArenaShape(a, h) /\ a \notin DOMAIN arenas /\ ArenasSound(ars)
      /\ DOMAIN ars = DOMAIN arenas \cup {a} /\ ars[a] = h
      /\ \A x \in DOMAIN arenas : ars[x] = arenas[x]
  <2>1. h \in Header /\ h.pages = 1 /\ h.desc \in Descs /\ 1 \in Nat \ {0}
    BY <1>2
  <2>2. ArenaShape(a, h) /\ ArenasSound(ars) /\ Added(arenas, ars, a, h)
    BY <1>1, <2>1, AddArena
  <2> QED BY <2>2, Zenon DEF Added
<1>5. Page(a)
  BY <1>4 DEF ArenaShape
<1>6. /\ fill \in Seq(Nat) /\ IsInjective(fill) /\ ToSet(fill) = BlocksOf(a, d)
  BY <1>5, FillList DEF FillOf
<1>7. /\ DOMAIN fl = Descs /\ fl[d] = fill /\ \A e \in Descs \ {d} : fl[e] = free_list[e]
      /\ fl = [e \in Descs |-> fl[e]]
  BY <1>1 DEF FreeListsSound, WithList
<1>8. ToSet(free_list[d]) = {}
  BY DEF ToSet
<1>9. \A x \in DOMAIN arenas : Page(x)
  BY <1>1 DEF ArenasSound, ArenaShape
<1>10. FreeListsSound(ars, fl)
  <2>1. ASSUME NEW e \in Descs, NEW b \in ToSet(fl[e])
        PROVE  \E x \in DOMAIN ars : FreeIn(ars, b, e, x)
    <3>1. CASE e = d
      <4>1. FreeIn(ars, b, d, a)
        BY <1>2, <1>4, <1>6, <1>7, <3>1 DEF FreeIn
      <4> QED BY <1>4, <3>1, <4>1
    <3>2. CASE e # d
      <4>1. PICK x \in DOMAIN arenas : FreeIn(arenas, b, e, x)
        BY <1>1, <1>7, <3>2 DEF FreeListsSound
      <4>2. x \in DOMAIN ars /\ ars[x] = arenas[x]
        BY <1>4
      <4>3. FreeIn(ars, b, e, x)
        BY <4>1, <4>2, Zenon DEF FreeIn
      <4> QED BY <4>2, <4>3
    <3> QED BY <3>1, <3>2
  <2>2. \A e \in Descs : fl[e] \in Seq(Nat) /\ IsInjective(fl[e])
    BY <1>1, <1>6, <1>7 DEF FreeListsSound
  <2> QED BY <1>7, <2>1, <2>2, Zenon DEF FreeListsSound
<1>11. ASSUME NEW x \in DOMAIN arenas, ~arenas[x].large, NEW b \in BlocksOf(x, arenas[x].desc)
       PROVE  b \in ToSet(fl[arenas[x].desc]) <=> b \in ToSet(free_list[arenas[x].desc])
  <2>1. Page(x) /\ arenas[x].desc \in Descs /\ x # a
    BY <1>1, <1>4, <1>11 DEF ArenasSound, ArenaShape
  <2>2. b \notin BlocksOf(a, d)
    BY <1>5, <1>11, <2>1, OneArena
  <2> QED BY <1>6, <1>7, <1>8, <2>1, <2>2
<1>12. LiveSound(ars, fl, live)
  <2>1. ASSUME NEW s \in live PROVE \E x \in DOMAIN ars : Holds(s, x, ars[x], fl)
    <3>1. PICK x \in DOMAIN arenas : Holds(s, x, arenas[x], free_list)
      BY <1>1 DEF LiveSound
    <3>2. Holds(s, x, arenas[x], fl)
      BY <1>11, <3>1 DEF Holds
    <3> QED BY <1>4, <3>2
  <2> QED BY <1>1, <2>1 DEF LiveSound
<1>13. NoneLost(ars, fl, live)
  <2>1. ASSUME NEW x \in DOMAIN arenas PROVE Kept(x, arenas[x], fl, live)
    BY <1>1, <1>11 DEF NoneLost, Kept
  <2>2. Kept(a, h, fl, live)
    BY <1>2, <1>6, <1>7 DEF Kept
  <2> QED BY <1>4, <2>1, <2>2 DEF NoneLost
<1>14. CountsSound(ars, fl)
  <2>1. ASSUME NEW x \in DOMAIN arenas PROVE Counted(x, arenas[x], fl)
    <3>1. ASSUME ~arenas[x].large
          PROVE  ToSet(fl[arenas[x].desc]) \cap BlocksOf(x, arenas[x].desc)
                 = ToSet(free_list[arenas[x].desc]) \cap BlocksOf(x, arenas[x].desc)
      BY <1>11, <3>1
    <3>2. Counted(x, arenas[x], free_list)
      BY <1>1 DEF CountsSound
    <3> QED BY <3>1, <3>2, Zenon DEF Counted
  <2>2. Counted(a, h, fl)
    <3>1. ToSet(fl[d]) \cap BlocksOf(a, d) = BlocksOf(a, d)
      BY <1>6, <1>7
    <3>2. Cardinality(BlocksOf(a, d)) = blocks_per_arena(d)
      BY <1>5, BlockCount
    <3> QED BY <1>2, <3>1, <3>2 DEF Counted
  <2> QED BY <1>4, <2>1, <2>2 DEF CountsSound
<1> QED BY <1>4, <1>5, <1>10, <1>12, <1>13, <1>14 DEF Sound, Added

(* A free block is taken.                                                  *)
WithHeld(lv, b, size) == lv \cup {<<b, size>>}

LEMMA Take ==
    ASSUME NEW ars, NEW fl, NEW lv, Sound(ars, fl, lv), NEW d \in Descs, fl[d] # <<>>,
           NEW size \in Sizes, size > 0, size <= block_size(d),
           NEW b, b = Head(fl[d]), NEW a, a = block2arena(b),
           \A x \in DOMAIN ars \ {a} : Used(ars[x]),
           NEW ars1, ars1 = WithCount(ars, a, ars[a].cnt - 1),
           NEW fl1, fl1 = WithList(fl, d, Tail(fl[d])),
           NEW lv1, lv1 = WithHeld(lv, b, size)
    PROVE  Sound(ars1, fl1, lv1) /\ NoneIdle(ars1)
<1>1. /\ ArenasSound(ars) /\ FreeListsSound(ars, fl) /\ LiveSound(ars, fl, lv)
      /\ NoneLost(ars, fl, lv) /\ CountsSound(ars, fl)
  BY DEF Sound
<1>2. fl[d] \in Seq(Nat) /\ IsInjective(fl[d])
  BY <1>1 DEF FreeListsSound
<1>3. /\ b \in ToSet(fl[d]) /\ b \in Nat
      /\ Tail(fl[d]) \in Seq(Nat) /\ IsInjective(Tail(fl[d]))
      /\ ToSet(Tail(fl[d])) = ToSet(fl[d]) \ {b}
  BY <1>2, HeadTail
<1>4. FreeIn(ars, b, d, a)
  BY <1>1, <1>3, FreeOwner
<1>5. a \in DOMAIN ars /\ ~ars[a].large /\ ars[a].desc = d /\ b \in BlocksOf(a, d)
  BY <1>4, Zenon DEF FreeIn
<1>6. Page(a) /\ ars[a] \in Header
  BY <1>1, <1>5 DEF ArenasSound, ArenaShape
<1> DEFINE S == ToSet(fl[d]) \cap BlocksOf(a, d)
           k == Cardinality(S)
<1>7. ars[a].cnt = k
  BY <1>1, <1>5 DEF CountsSound, Counted
<1>8. /\ k \in Nat \ {0} /\ k <= blocks_per_arena(d) /\ Cardinality(S \ {b}) = k - 1
      /\ blocks_per_arena(d) \in Nat
  <2>1. IsFiniteSet(BlocksOf(a, d)) /\ Cardinality(BlocksOf(a, d)) = blocks_per_arena(d)
    BY <1>6, BlockCount
  <2>2. S \subseteq BlocksOf(a, d) /\ b \in S
    BY <1>3, <1>5
  <2>3. IsFiniteSet(S) /\ k <= blocks_per_arena(d)
    BY <2>1, <2>2, FS_Subset
  <2>4. Cardinality(S \ {b}) = k - 1
    BY <2>2, <2>3, FS_RemoveElement
  <2>5. k \in Nat /\ k # 0 /\ blocks_per_arena(d) \in Nat
    BY <2>1, <2>2, <2>3, FS_CardinalityType, FS_EmptySet
  <2> QED BY <2>3, <2>4, <2>5
<1> HIDE DEF S, k
<1>9. ars1 = WithCount(ars, a, k - 1) /\ k - 1 \in Nat
  BY <1>7, <1>8
<1>10. /\ ArenasSound(ars1) /\ DOMAIN ars1 = DOMAIN ars
       /\ \A x \in DOMAIN ars \ {a} : ars1[x] = ars[x]
       /\ ars1[a].cnt = k - 1 /\ ars1[a].desc = d /\ ~ars1[a].large
       /\ \A x \in DOMAIN ars :
            /\ ars1[x].desc = ars[x].desc /\ ars1[x].large = ars[x].large
            /\ ars1[x].pages = ars[x].pages
  <2>1. ArenasSound(ars1) /\ Recounted(ars, ars1, a, k - 1)
    BY <1>1, <1>5, <1>9, NewCount
  <2> QED BY <1>5, <2>1 DEF Recounted
<1>11. /\ DOMAIN fl1 = Descs /\ fl1 = [e \in Descs |-> fl1[e]]
       /\ fl1[d] = Tail(fl[d]) /\ \A e \in Descs \ {d} : fl1[e] = fl[e]
  BY <1>1 DEF FreeListsSound, WithList
<1>12. \A e \in Descs : \A x \in ToSet(fl1[e]) : x \in ToSet(fl[e])
  BY <1>3, <1>11
<1>13. ASSUME NEW x \in DOMAIN ars, ~ars[x].large
       PROVE  /\ ars[x].desc \in Descs /\ Page(x)
              /\ x # a => b \notin BlocksOf(x, ars[x].desc)
              /\ \A c \in BlocksOf(x, ars[x].desc) :
                   c # b => (c \in ToSet(fl1[ars[x].desc]) <=> c \in ToSet(fl[ars[x].desc]))
              /\ b \notin BlocksOf(x, ars[x].desc) \/ b \notin ToSet(fl1[ars[x].desc])
  <2>1. Page(x) /\ ars[x].desc \in Descs
    BY <1>1, <1>13 DEF ArenasSound, ArenaShape
  <2>2. ASSUME x # a PROVE b \notin BlocksOf(x, ars[x].desc)
    BY <1>5, <1>6, <2>1, <2>2, OneArena
  <2>3. \A c : c # b => (c \in ToSet(fl1[ars[x].desc]) <=> c \in ToSet(fl[ars[x].desc]))
    BY <1>3, <1>11, <2>1
  <2>4. b \notin ToSet(fl1[d])
    BY <1>3, <1>11
  <2> QED BY <1>5, <2>1, <2>2, <2>3, <2>4
<1>14. FreeListsSound(ars1, fl1)
  <2>1. ASSUME NEW e \in Descs, NEW c \in ToSet(fl1[e])
        PROVE  \E x \in DOMAIN ars1 : FreeIn(ars1, c, e, x)
    <3>1. PICK x \in DOMAIN ars : FreeIn(ars, c, e, x)
      BY <1>1, <1>12 DEF FreeListsSound
    <3>2. x \in DOMAIN ars1 /\ ars1[x].desc = ars[x].desc /\ ars1[x].large = ars[x].large
      BY <1>10, <3>1
    <3>3. FreeIn(ars1, c, e, x)
      BY <3>1, <3>2, Zenon DEF FreeIn
    <3> QED BY <3>2, <3>3
  <2>2. \A e \in Descs : fl1[e] \in Seq(Nat) /\ IsInjective(fl1[e])
    BY <1>1, <1>3, <1>11 DEF FreeListsSound
  <2> QED BY <1>11, <2>1, <2>2, Zenon DEF FreeListsSound
<1> DEFINE r == <<b, size>>
<1>15. r[1] = b /\ r[2] = size /\ r \in Nat \X Sizes
  BY <1>3
<1>16. lv1 = lv \cup {r}
  BY DEF WithHeld
<1> HIDE DEF r
<1>17. \A s \in lv : s[1] # b
  <2> SUFFICES ASSUME NEW s \in lv, s[1] = b PROVE FALSE
    OBVIOUS
  <2>1. Holds(s, a, ars[a], fl)
    BY <1>1, Owner
  <2> QED BY <1>3, <1>5, <2>1 DEF Holds
<1>18. LiveSound(ars1, fl1, lv1)
  <2>1. ASSUME NEW s \in lv1 PROVE s \in Nat \X Sizes /\ s[2] > 0
    BY <1>1, <1>15, <1>16 DEF LiveSound
  <2>2. ASSUME NEW s \in lv1 PROVE \E x \in DOMAIN ars1 : Holds(s, x, ars1[x], fl1)
    <3>1. CASE s = r
      <4>1. Holds(r, a, ars1[a], fl1)
        <5>1. b \in BlocksOf(a, d) /\ b \notin ToSet(fl1[d])
          BY <1>3, <1>5, <1>11
        <5> QED BY <1>10, <1>15, <5>1 DEF Holds
      <4>2. a \in DOMAIN ars1 /\ Holds(s, a, ars1[a], fl1)
        BY <1>5, <1>10, <3>1, <4>1, Zenon
      <4> QED BY <4>2, Zenon
    <3>2. CASE s \in lv
      <4>1. PICK x \in DOMAIN ars : Holds(s, x, ars[x], fl)
        BY <1>1, <3>2 DEF LiveSound
      <4>2. /\ ars1[x].large = ars[x].large /\ ars1[x].desc = ars[x].desc
            /\ ars1[x].pages = ars[x].pages
        BY <1>10, <4>1
      <4>3. Holds(s, x, ars1[x], fl1)
        <5>1. CASE ars[x].large
          BY <4>1, <4>2, <5>1 DEF Holds
        <5>2. CASE ~ars[x].large
          BY <1>13, <1>17, <3>2, <4>1, <4>2, <5>2 DEF Holds
        <5> QED BY <5>1, <5>2
      <4> QED BY <1>10, <4>3
    <3> QED BY <1>16, <3>1, <3>2
  <2>3. \A s, t \in lv1 : s[1] = t[1] => s = t
    BY <1>1, <1>15, <1>16, <1>17 DEF LiveSound
  <2> QED BY <2>1, <2>2, <2>3, Zenon DEF LiveSound
<1>19. NoneLost(ars1, fl1, lv1)
  <2> SUFFICES ASSUME NEW x \in DOMAIN ars PROVE Kept(x, ars1[x], fl1, lv1)
    BY <1>10 DEF NoneLost
  <2>1. ars1[x].large = ars[x].large /\ ars1[x].desc = ars[x].desc
    BY <1>10
  <2>2. Kept(x, ars[x], fl, lv)
    BY <1>1 DEF NoneLost
  <2>3. CASE ars[x].large
    BY <1>16, <2>1, <2>2, <2>3 DEF Kept
  <2>4. CASE ~ars[x].large
    <3>1. ASSUME NEW c \in BlocksOf(x, ars[x].desc)
          PROVE  c \in ToSet(fl1[ars[x].desc]) \/ \E s \in lv1 : s[1] = c
      <4>1. CASE c = b
        BY <1>15, <1>16, <4>1
      <4>2. CASE c # b
        BY <1>13, <1>16, <2>2, <2>4, <4>2 DEF Kept
      <4> QED BY <4>1, <4>2
    <3> QED BY <2>1, <2>4, <3>1 DEF Kept
  <2> QED BY <2>3, <2>4
<1>20. CountsSound(ars1, fl1)
  <2> SUFFICES ASSUME NEW x \in DOMAIN ars, ~ars1[x].large PROVE Counted(x, ars1[x], fl1)
    BY <1>10 DEF CountsSound, Counted
  <2>1. CASE x = a
    <3>1. ToSet(fl1[d]) \cap BlocksOf(a, d) = S \ {b}
      BY <1>3, <1>11 DEF S
    <3> QED BY <1>8, <1>10, <2>1, <3>1, Zenon DEF Counted
  <2>2. CASE x # a
    <3>1. ars1[x] = ars[x] /\ ~ars[x].large
      BY <1>10, <2>2
    <3>2. ToSet(fl1[ars[x].desc]) \cap BlocksOf(x, ars[x].desc)
          = ToSet(fl[ars[x].desc]) \cap BlocksOf(x, ars[x].desc)
      BY <1>13, <2>2, <3>1
    <3>3. Counted(x, ars[x], fl)
      BY <1>1 DEF CountsSound
    <3> QED BY <3>1, <3>2, <3>3, Zenon DEF Counted
  <2> QED BY <2>1, <2>2
<1>21. NoneIdle(ars1)
  <2>1. k - 1 < blocks_per_arena(d)
    BY <1>8
  <2>2. Used(ars1[a])
    BY <1>10, <2>1, Zenon DEF Used
  <2> QED BY <1>10, <2>2 DEF NoneIdle
<1> QED BY <1>10, <1>14, <1>18, <1>19, <1>20, <1>21, Zenon DEF Sound

LEMMA BlockStep ==
    ASSUME AllocInv, NEW size \in Sizes, size > 0, size <= max_block, malloc_block(size)
    PROVE  AllocInv'
<1> DEFINE d == desc_for(size)
<1>1. size \in Nat
  BY Constants
<1>2. d \in Descs /\ size <= block_size(d)
  BY <1>1, DescFor
<1>3. Sound(arenas, free_list, live) /\ NoneIdle(arenas) /\ panic = FALSE
  BY DEF AllocInv
<1>4. IF free_list[d] # <<>>
      THEN take_block(d, size, free_list[d], arenas)
      ELSE \E a \in malloc_pages(1) :
             take_block(d, size, FillOf(a, d), add_arena(a, SmallHeader(d)))
  BY Zenon DEF malloc_block, FillOf, SmallHeader
<1> HIDE DEF d
<1>5. ASSUME NEW fl, NEW ars, Sound(ars, fl, live), fl[d] # <<>>,
             free_list' = WithList(fl, d, Tail(fl[d])),
             take_block(d, size, fl[d], ars),
             \A x \in DOMAIN ars \ {block2arena(Head(fl[d]))} : Used(ars[x])
      PROVE  AllocInv'
  <2> DEFINE b == Head(fl[d])
             a == block2arena(b)
  <2>1. /\ arenas' = [ars EXCEPT ![a].cnt = @ - 1]
        /\ live' = WithHeld(live, b, size) /\ panic' = panic
    BY <1>5 DEF take_block, WithHeld
  <2>2. arenas' = WithCount(ars, a, ars[a].cnt - 1)
    BY <2>1 DEF WithCount
  <2> HIDE DEF b, a
  <2>3. b = Head(fl[d]) /\ a = block2arena(b)
    BY DEF a, b
  <2>4. \A x \in DOMAIN ars \ {a} : Used(ars[x])
    BY <1>5 DEF a, b
  <2>5. Sound(arenas', free_list', live') /\ NoneIdle(arenas')
    <3>1. live' = WithHeld(live, b, size)
      BY <2>1
    <3> QED BY <1>2, <1>5, <2>2, <2>3, <2>4, <3>1, Take
  <2> QED BY <1>3, <2>1, <2>5, Zenon DEF AllocInv
<1>6. CASE free_list[d] # <<>>
  <2>1. take_block(d, size, free_list[d], arenas)
    BY <1>4, <1>6
  <2>2. free_list' = WithList(free_list, d, Tail(free_list[d]))
    BY <2>1 DEF take_block, WithList
  <2> QED BY <1>3, <1>5, <1>6, <2>1, <2>2, Zenon DEF NoneIdle
<1>7. CASE free_list[d] = <<>>
  <2>1. PICK a \in malloc_pages(1) :
             take_block(d, size, FillOf(a, d), add_arena(a, SmallHeader(d)))
    BY <1>4, <1>7
  <2> DEFINE h == SmallHeader(d)
             fill == FillOf(a, d)
             ars == add_arena(a, h)
             fl == WithList(free_list, d, fill)
  <2>2. Sound(ars, fl, live) /\ Page(a) /\ Added(arenas, ars, a, h)
    BY <1>2, <1>3, <1>7, Refill
  <2>3. fill \in Seq(Nat) /\ fill # <<>> /\ ToSet(fill) = BlocksOf(a, d) /\ IsInjective(fill)
    BY <1>2, <2>2, FillList DEF FillOf
  <2>4. DOMAIN free_list = Descs
    BY <1>3 DEF Sound, FreeListsSound
  <2>5. fl[d] = fill
    BY <1>2, <2>4, Zenon DEF WithList
  <2>6. take_block(d, size, fl[d], ars)
    BY <2>1, <2>5, Zenon
  <2>7. free_list' = [free_list EXCEPT ![d] = Tail(fill)]
    BY <2>1, Zenon DEF take_block
  <2> HIDE DEF fill
  <2>8. free_list' = WithList(fl, d, Tail(fl[d]))
    BY <1>2, <2>4, <2>5, <2>7 DEF WithList
  <2>9. block2arena(Head(fl[d])) = a
    BY <1>2, <2>2, <2>3, <2>5, HeadTail, BlockPlace
  <2> HIDE DEF fl, ars
  <2>10. \A x \in DOMAIN ars \ {block2arena(Head(fl[d]))} : Used(ars[x])
    BY <1>3, <2>2, <2>9 DEF NoneIdle, Added
  <2> QED BY <1>5, <2>2, <2>3, <2>5, <2>6, <2>8, <2>10
<1> QED BY <1>6, <1>7

LEMMA MallocStep ==
    ASSUME AllocInv, NEW size \in Sizes, sys_malloc(size)
    PROVE  AllocInv'
<1>1. size \in Nat /\ max_block \in Nat /\ size > 0
  BY Constants DEF sys_malloc
<1>2. CASE malloc_fails(size)
  <2>1. arenas' = arenas /\ free_list' = free_list /\ live' = live /\ panic' = panic
    BY <1>2 DEF malloc_fails
  <2> QED BY <2>1, Zenon DEF AllocInv
<1>3. CASE size > max_block /\ malloc_large(size)
  BY <1>1, <1>3, LargeStep
<1>4. CASE size <= max_block /\ malloc_block(size)
  BY <1>1, <1>4, BlockStep
<1> QED BY <1>1, <1>2, <1>3, <1>4 DEF sys_malloc

-----------------------------------------------------------------------------
(* What an arena keeps, it keeps when memory of another arena is freed.    *)
LEMMA KeptWithout ==
    ASSUME NEW x, NEW h, ArenaShape(x, h), NEW fl, NEW lv, NEW r,
           block2arena(r[1]) # x, Kept(x, h, fl, lv)
    PROVE  Kept(x, h, fl, lv \ {r})
<1>1. Page(x) /\ (~h.large => h.desc \in Descs)
  BY DEF ArenaShape
<1>2. CASE h.large
  <2>1. ArenaSize \in Nat /\ ArenaSize < PG_SIZE
    BY Constants
  <2>2. block2arena(x + ArenaSize) = x
    BY <1>1, <2>1, OffsetOnPage
  <2>3. r[1] # x + ArenaSize
    BY <2>2
  <2>4. PICK s \in lv : s[1] = x + ArenaSize
    BY <1>2 DEF Kept
  <2>5. s \in lv \ {r}
    BY <2>3, <2>4
  <2> QED BY <1>2, <2>4, <2>5, Zenon DEF Kept
<1>3. CASE ~h.large
  <2>1. ASSUME NEW c \in BlocksOf(x, h.desc)
        PROVE  c \in ToSet(fl[h.desc]) \/ \E s \in lv \ {r} : s[1] = c
    <3>1. block2arena(c) = x
      BY <1>1, <1>3, BlockPlace
    <3>2. r[1] # c
      BY <3>1
    <3>3. c \in ToSet(fl[h.desc]) \/ \E s \in lv : s[1] = c
      BY <1>3, Zenon DEF Kept
    <3> QED BY <3>2, <3>3
  <2> QED BY <1>3, <2>1, Zenon DEF Kept
<1> QED BY <1>2, <1>3

(* sys_free of whole pages.                                                *)
LEMMA FreeLargeStep ==
    ASSUME AllocInv, NEW r \in live, NEW a, a = block2arena(r[1]), arenas[a].large,
           free_large(a), live' = live \ {r}
    PROVE  AllocInv'
<1>1. /\ ArenasSound(arenas) /\ FreeListsSound(arenas, free_list)
      /\ LiveSound(arenas, free_list, live) /\ NoneLost(arenas, free_list, live)
      /\ CountsSound(arenas, free_list) /\ NoneIdle(arenas) /\ panic = FALSE
  BY DEF AllocInv, Sound
<1>2. a \in DOMAIN arenas /\ Holds(r, a, arenas[a], free_list)
  BY <1>1, Owner
<1>3. arenas' = drop_arena(a) /\ free_list' = free_list /\ panic' = panic
  BY DEF free_large
<1>4. ArenasSound(arenas') /\ Dropped(arenas, arenas', a)
  BY <1>1, <1>2, <1>3, DropArena
<1>5. \A x \in DOMAIN arenas' : x \in DOMAIN arenas /\ x # a /\ arenas'[x] = arenas[x]
  BY <1>4 DEF Dropped
<1>6. \A x \in DOMAIN arenas : x # a => x \in DOMAIN arenas'
  BY <1>4 DEF Dropped
<1>7. FreeListsSound(arenas', free_list)
  <2>1. ASSUME NEW e \in Descs, NEW c \in ToSet(free_list[e])
        PROVE  \E x \in DOMAIN arenas' : FreeIn(arenas', c, e, x)
    <3>1. PICK x \in DOMAIN arenas : FreeIn(arenas, c, e, x)
      BY <1>1 DEF FreeListsSound
    <3>2. x # a
      BY <3>1 DEF FreeIn
    <3>3. x \in DOMAIN arenas' /\ arenas'[x] = arenas[x]
      BY <1>5, <1>6, <3>2
    <3>4. FreeIn(arenas', c, e, x)
      BY <3>1, <3>3, Zenon DEF FreeIn
    <3> QED BY <3>3, <3>4, Zenon
  <2> QED BY <1>1, <2>1, Zenon DEF FreeListsSound
<1>8. LiveSound(arenas', free_list, live')
  <2>1. ASSUME NEW s \in live'
        PROVE  \E x \in DOMAIN arenas' : Holds(s, x, arenas'[x], free_list)
    <3>1. s \in live /\ s # r
      OBVIOUS
    <3>2. PICK x \in DOMAIN arenas : Holds(s, x, arenas[x], free_list)
      BY <1>1, <3>1 DEF LiveSound
    <3>3. ASSUME x = a PROVE FALSE
      <4>1. s[1] = r[1]
        BY <1>2, <3>2, <3>3 DEF Holds
      <4> QED BY <1>1, <3>1, <4>1 DEF LiveSound
    <3>4. x \in DOMAIN arenas' /\ Holds(s, x, arenas'[x], free_list)
      BY <1>5, <1>6, <3>2, <3>3, Zenon
    <3> QED BY <3>4, Zenon
  <2>2. \A s \in live' : s \in live
    OBVIOUS
  <2> QED BY <1>1, <2>1, <2>2 DEF LiveSound
<1>9. NoneLost(arenas', free_list, live')
  <2> SUFFICES ASSUME NEW x \in DOMAIN arenas' PROVE Kept(x, arenas'[x], free_list, live')
    BY DEF NoneLost
  <2>1. x \in DOMAIN arenas /\ x # a /\ arenas'[x] = arenas[x]
    BY <1>5
  <2>2. Kept(x, arenas[x], free_list, live) /\ ArenaShape(x, arenas[x])
    BY <1>1, <2>1 DEF NoneLost, ArenasSound
  <2>3. block2arena(r[1]) # x
    BY <2>1
  <2>4. Kept(x, arenas[x], free_list, live \ {r})
    BY <2>2, <2>3, KeptWithout
  <2> QED BY <2>1, <2>4, Zenon
<1>10. CountsSound(arenas', free_list)
  BY <1>1, <1>5 DEF CountsSound
<1>11. NoneIdle(arenas')
  BY <1>1, <1>5 DEF NoneIdle
<1>12. Sound(arenas', free_list', live')
  BY <1>3, <1>4, <1>7, <1>8, <1>9, <1>10, Zenon DEF Sound
<1> QED BY <1>1, <1>3, <1>11, <1>12, Zenon DEF AllocInv

(* sys_free of a block: where it belongs, and the counts before and after. *)
Freed(b, a, d, S) ==
    /\ a \in DOMAIN arenas /\ Page(a) /\ d \in Descs
    /\ b \in BlocksOf(a, d) /\ b \in Nat /\ b \notin ToSet(free_list[d])
    /\ free_list[d] \in Seq(Nat) /\ IsInjective(free_list[d])
    /\ S = ToSet(free_list[d]) \cap BlocksOf(a, d)
    /\ arenas[a].cnt = Cardinality(S) /\ Cardinality(S) \in Nat
    /\ Cardinality(S \cup {b}) = Cardinality(S) + 1
    /\ Cardinality(S) + 1 = blocks_per_arena(d) => S \cup {b} = BlocksOf(a, d)

LEMMA FreedBlock ==
    ASSUME Sound(arenas, free_list, live), NEW r \in live, NEW a, a = block2arena(r[1]),
           ~arenas[a].large, NEW d, d = arenas[a].desc, NEW b, b = r[1],
           NEW S, S = ToSet(free_list[d]) \cap BlocksOf(a, d)
    PROVE  Freed(b, a, d, S)
<1>1. /\ ArenasSound(arenas) /\ FreeListsSound(arenas, free_list)
      /\ LiveSound(arenas, free_list, live) /\ CountsSound(arenas, free_list)
  BY DEF Sound
<1>2. a \in DOMAIN arenas /\ Holds(r, a, arenas[a], free_list)
  BY <1>1, Owner
<1>3. Page(a) /\ d \in Descs
  BY <1>1, <1>2 DEF ArenasSound, ArenaShape
<1>4. b \in BlocksOf(a, d) /\ b \notin ToSet(free_list[d])
  BY <1>2 DEF Holds
<1>5. b \in Nat
  BY <1>3, <1>4, BlockPlace
<1>6. free_list[d] \in Seq(Nat) /\ IsInjective(free_list[d])
  BY <1>1, <1>3 DEF FreeListsSound
<1>7. arenas[a].cnt = Cardinality(S)
  BY <1>1, <1>2 DEF CountsSound, Counted
<1>8. IsFiniteSet(BlocksOf(a, d)) /\ Cardinality(BlocksOf(a, d)) = blocks_per_arena(d)
  BY <1>3, BlockCount
<1>9. S \subseteq BlocksOf(a, d) /\ b \notin S /\ S \cup {b} \subseteq BlocksOf(a, d)
  BY <1>4
<1>10. IsFiniteSet(S)
  BY <1>8, <1>9, FS_Subset
<1>11. Cardinality(S \cup {b}) = Cardinality(S) + 1 /\ Cardinality(S) \in Nat
  BY <1>9, <1>10, FS_AddElement, FS_CardinalityType
<1>12. ASSUME Cardinality(S) + 1 = blocks_per_arena(d) PROVE S \cup {b} = BlocksOf(a, d)
  <2>1. Cardinality(S \cup {b}) = Cardinality(BlocksOf(a, d))
    BY <1>8, <1>11, <1>12
  <2> QED BY <1>8, <1>9, <2>1, FS_Subset
<1> QED BY <1>2, <1>3, <1>4, <1>5, <1>6, <1>7, <1>11, <1>12 DEF Freed

(* A block goes back on its list while others of its arena are in use.     *)
LEMMA FreeSomeStep ==
    ASSUME AllocInv, NEW r \in live, NEW a, a = block2arena(r[1]), ~arenas[a].large,
           NEW d, d = arenas[a].desc, ~all_free(a, d),
           free_list' = WithList(free_list, d, Append(free_list[d], r[1])),
           arenas' = count_block(a), panic' = panic, live' = live \ {r}
    PROVE  AllocInv'
<1> DEFINE b == r[1]
           S == ToSet(free_list[d]) \cap BlocksOf(a, d)
<1>1. /\ ArenasSound(arenas) /\ FreeListsSound(arenas, free_list)
      /\ LiveSound(arenas, free_list, live) /\ NoneLost(arenas, free_list, live)
      /\ CountsSound(arenas, free_list) /\ NoneIdle(arenas) /\ panic = FALSE
      /\ Sound(arenas, free_list, live)
  BY DEF AllocInv, Sound
<1>2. b = r[1] /\ S = ToSet(free_list[d]) \cap BlocksOf(a, d)
  OBVIOUS
<1> HIDE DEF b, S
<1>3. /\ a \in DOMAIN arenas /\ Page(a) /\ d \in Descs
      /\ b \in BlocksOf(a, d) /\ b \in Nat /\ b \notin ToSet(free_list[d])
      /\ free_list[d] \in Seq(Nat) /\ IsInjective(free_list[d])
      /\ arenas[a].cnt = Cardinality(S) /\ Cardinality(S) \in Nat
      /\ Cardinality(S \cup {b}) = Cardinality(S) + 1
  <2>1. Freed(b, a, d, S)
    BY <1>1, <1>2, FreedBlock
  <2> QED BY <2>1, Zenon DEF Freed
<1> DEFINE k == Cardinality(S) + 1
<1>4. arenas' = WithCount(arenas, a, k) /\ k \in Nat
  BY <1>3 DEF count_block, WithCount
<1>5. k < blocks_per_arena(d)
  <2>1. arenas[a].cnt < blocks_per_arena(d)
    BY <1>1, <1>3 DEF NoneIdle, Used
  <2>2. arenas[a].cnt + 1 # blocks_per_arena(d)
    BY DEF all_free
  <2>3. blocks_per_arena(d) \in Nat
    BY <1>3, Fits
  <2> QED BY <1>3, <2>1, <2>2, <2>3
<1>6. Cardinality(S \cup {b}) = k
  BY <1>3
<1> HIDE DEF k
<1>7. ArenasSound(arenas') /\ Recounted(arenas, arenas', a, k)
  BY <1>1, <1>3, <1>4, NewCount
<1>8. /\ DOMAIN arenas' = DOMAIN arenas /\ arenas'[a].cnt = k
      /\ \A x \in DOMAIN arenas \ {a} : arenas'[x] = arenas[x]
      /\ \A x \in DOMAIN arenas :
           /\ arenas'[x].desc = arenas[x].desc /\ arenas'[x].large = arenas[x].large
           /\ arenas'[x].pages = arenas[x].pages
  BY <1>7 DEF Recounted
<1>9. DOMAIN free_list = Descs
  BY <1>1 DEF FreeListsSound
<1>10. /\ free_list' = [e \in Descs |-> free_list'[e]]
       /\ free_list'[d] = Append(free_list[d], b)
       /\ \A e \in Descs \ {d} : free_list'[e] = free_list[e]
  BY <1>1, <1>2, <1>3 DEF WithList, FreeListsSound
<1>11. /\ free_list'[d] \in Seq(Nat) /\ IsInjective(free_list'[d])
       /\ ToSet(free_list'[d]) = ToSet(free_list[d]) \cup {b}
  BY <1>3, <1>10, AppendOne
<1>12. ASSUME NEW x \in DOMAIN arenas, ~arenas[x].large
       PROVE  /\ arenas[x].desc \in Descs
              /\ x # a => b \notin BlocksOf(x, arenas[x].desc)
              /\ \A c : c # b =>
                   (c \in ToSet(free_list'[arenas[x].desc]) <=> c \in ToSet(free_list[arenas[x].desc]))
  <2>1. Page(x) /\ arenas[x].desc \in Descs
    BY <1>1, <1>12 DEF ArenasSound, ArenaShape
  <2>2. ASSUME x # a PROVE b \notin BlocksOf(x, arenas[x].desc)
    BY <1>3, <2>1, <2>2, OneArena
  <2>3. \A c : c # b =>
          (c \in ToSet(free_list'[arenas[x].desc]) <=> c \in ToSet(free_list[arenas[x].desc]))
    BY <1>10, <1>11, <2>1
  <2> QED BY <2>1, <2>2, <2>3
<1>13. FreeListsSound(arenas', free_list')
  <2>1. ASSUME NEW e \in Descs, NEW c \in ToSet(free_list'[e])
        PROVE  \E x \in DOMAIN arenas' : FreeIn(arenas', c, e, x)
    <3>1. CASE e = d /\ c = b
      <4>1. FreeIn(arenas', c, e, a)
        BY <1>3, <1>8, <3>1 DEF FreeIn
      <4> QED BY <1>3, <1>8, <4>1, Zenon
    <3>2. CASE ~(e = d /\ c = b)
      <4>1. c \in ToSet(free_list[e])
        BY <1>10, <1>11, <3>2
      <4>2. PICK x \in DOMAIN arenas : FreeIn(arenas, c, e, x)
        BY <1>1, <4>1 DEF FreeListsSound
      <4>3. FreeIn(arenas', c, e, x)
        BY <1>8, <4>2, Zenon DEF FreeIn
      <4> QED BY <1>8, <4>2, <4>3, Zenon
    <3> QED BY <3>1, <3>2
  <2>2. \A e \in Descs : free_list'[e] \in Seq(Nat) /\ IsInjective(free_list'[e])
    BY <1>1, <1>10, <1>11 DEF FreeListsSound
  <2> QED BY <1>10, <2>1, <2>2, Zenon DEF FreeListsSound
<1>14. LiveSound(arenas', free_list', live')
  <2>1. ASSUME NEW s \in live'
        PROVE  \E x \in DOMAIN arenas' : Holds(s, x, arenas'[x], free_list')
    <3>1. s \in live /\ s # r /\ s[1] # b
      BY <1>1, <1>2 DEF LiveSound
    <3>2. PICK x \in DOMAIN arenas : Holds(s, x, arenas[x], free_list)
      BY <1>1, <3>1 DEF LiveSound
    <3>3. Holds(s, x, arenas'[x], free_list')
      <4>1. CASE arenas[x].large
        BY <1>8, <3>2, <4>1 DEF Holds
      <4>2. CASE ~arenas[x].large
        BY <1>8, <1>12, <3>1, <3>2, <4>2 DEF Holds
      <4> QED BY <4>1, <4>2
    <3> QED BY <1>8, <3>3, Zenon
  <2>2. \A s \in live' : s \in live
    OBVIOUS
  <2> QED BY <1>1, <2>1, <2>2 DEF LiveSound
<1>15. NoneLost(arenas', free_list', live')
  <2> SUFFICES ASSUME NEW x \in DOMAIN arenas PROVE Kept(x, arenas'[x], free_list', live')
    BY <1>8 DEF NoneLost
  <2>1. Kept(x, arenas[x], free_list, live) /\ ArenaShape(x, arenas[x])
    BY <1>1 DEF NoneLost, ArenasSound
  <2>2. CASE arenas[x].large
    <3>1. x # a
      BY <2>2
    <3>2. Kept(x, arenas[x], free_list, live \ {r})
      BY <2>1, <3>1, KeptWithout
    <3> QED BY <1>8, <2>2, <3>2, Zenon DEF Kept
  <2>3. CASE ~arenas[x].large
    <3>1. ASSUME NEW c \in BlocksOf(x, arenas[x].desc)
          PROVE  c \in ToSet(free_list'[arenas[x].desc]) \/ \E s \in live' : s[1] = c
      <4>1. CASE c = b
        <5>1. x = a
          BY <1>12, <2>3, <4>1
        <5> QED BY <1>11, <4>1, <5>1
      <4>2. CASE c # b
        <5>1. c \in ToSet(free_list[arenas[x].desc]) \/ \E s \in live : s[1] = c
          BY <2>1, <2>3, Zenon DEF Kept
        <5>2. CASE c \in ToSet(free_list[arenas[x].desc])
          BY <1>12, <2>3, <4>2, <5>2
        <5>3. CASE \E s \in live : s[1] = c
          BY <1>2, <4>2, <5>3
        <5> QED BY <5>1, <5>2, <5>3
      <4> QED BY <4>1, <4>2
    <3> QED BY <1>8, <2>3, <3>1, Zenon DEF Kept
  <2> QED BY <2>2, <2>3
<1>16. CountsSound(arenas', free_list')
  <2> SUFFICES ASSUME NEW x \in DOMAIN arenas, ~arenas'[x].large
               PROVE  Counted(x, arenas'[x], free_list')
    BY <1>8 DEF CountsSound, Counted
  <2>1. CASE x = a
    <3>1. ToSet(free_list'[d]) \cap BlocksOf(a, d) = S \cup {b}
      BY <1>2, <1>3, <1>11
    <3> QED BY <1>6, <1>8, <2>1, <3>1, Zenon DEF Counted
  <2>2. CASE x # a
    <3>1. arenas'[x] = arenas[x] /\ ~arenas[x].large
      BY <1>8, <2>2
    <3>2. ToSet(free_list'[arenas[x].desc]) \cap BlocksOf(x, arenas[x].desc)
          = ToSet(free_list[arenas[x].desc]) \cap BlocksOf(x, arenas[x].desc)
      BY <1>12, <2>2, <3>1
    <3>3. Counted(x, arenas[x], free_list)
      BY <1>1 DEF CountsSound
    <3> QED BY <3>1, <3>2, <3>3, Zenon DEF Counted
  <2> QED BY <2>1, <2>2
<1>17. NoneIdle(arenas')
  <2>1. Used(arenas'[a])
    BY <1>3, <1>5, <1>8, Zenon DEF Used
  <2> QED BY <1>1, <1>8, <2>1 DEF NoneIdle
<1>18. Sound(arenas', free_list', live')
  BY <1>7, <1>13, <1>14, <1>15, <1>16, Zenon DEF Sound
<1> QED BY <1>1, <1>17, <1>18, Zenon DEF AllocInv

(* The last block of an arena comes back and the arena is taken apart: the *)
(* ASSERT that all its blocks are on the list holds.                       *)
LEMMA FreeAllStep ==
    ASSUME AllocInv, NEW r \in live, NEW a, a = block2arena(r[1]), ~arenas[a].large,
           NEW d, d = arenas[a].desc, all_free(a, d), NEW free,
           free = Append(free_list[d], r[1])
    PROVE  /\ BlocksOf(a, d) \subseteq ToSet(free)
           /\ /\ free_list' = WithList(free_list, d, without(free, BlocksOf(a, d)))
              /\ arenas' = drop_arena(a) /\ panic' = panic /\ live' = live \ {r}
              => AllocInv'
<1> DEFINE b == r[1]
           S == ToSet(free_list[d]) \cap BlocksOf(a, d)
<1>1. /\ ArenasSound(arenas) /\ FreeListsSound(arenas, free_list)
      /\ LiveSound(arenas, free_list, live) /\ NoneLost(arenas, free_list, live)
      /\ CountsSound(arenas, free_list) /\ NoneIdle(arenas) /\ panic = FALSE
      /\ Sound(arenas, free_list, live)
  BY DEF AllocInv, Sound
<1>2. b = r[1] /\ S = ToSet(free_list[d]) \cap BlocksOf(a, d) /\ free = Append(free_list[d], b)
  OBVIOUS
<1> HIDE DEF b, S
<1>3. /\ a \in DOMAIN arenas /\ Page(a) /\ d \in Descs
      /\ b \in BlocksOf(a, d) /\ b \in Nat /\ b \notin ToSet(free_list[d])
      /\ free_list[d] \in Seq(Nat) /\ IsInjective(free_list[d])
      /\ S \cup {b} = BlocksOf(a, d)
  <2>1. Freed(b, a, d, S)
    BY <1>1, <1>2, FreedBlock
  <2>2. arenas[a].cnt + 1 = blocks_per_arena(d)
    BY DEF all_free
  <2> QED BY <2>1, <2>2, Zenon DEF Freed
<1>4. /\ free \in Seq(Nat) /\ IsInjective(free) /\ ToSet(free) = ToSet(free_list[d]) \cup {b}
  BY <1>2, <1>3, AppendOne
<1>5. BlocksOf(a, d) \subseteq ToSet(free)
  BY <1>2, <1>3, <1>4
<1> SUFFICES ASSUME free_list' = WithList(free_list, d, without(free, BlocksOf(a, d))),
                    arenas' = drop_arena(a), panic' = panic, live' = live \ {r}
             PROVE  AllocInv'
  BY <1>5
<1> DEFINE left == without(free, BlocksOf(a, d))
<1>6. /\ left \in Seq(Nat) /\ IsInjective(left) /\ ToSet(left) = ToSet(free) \ BlocksOf(a, d)
  BY <1>4, Without
<1>7. /\ free_list' = [e \in Descs |-> free_list'[e]] /\ free_list'[d] = left
      /\ \A e \in Descs \ {d} : free_list'[e] = free_list[e]
  BY <1>1, <1>3 DEF WithList, FreeListsSound
<1> HIDE DEF left
<1>8. ToSet(free_list'[d]) = ToSet(free_list[d]) \ BlocksOf(a, d)
  BY <1>3, <1>4, <1>6, <1>7
<1>9. ArenasSound(arenas') /\ Dropped(arenas, arenas', a)
  BY <1>1, <1>3, DropArena
<1>10. \A x \in DOMAIN arenas' : x \in DOMAIN arenas /\ x # a /\ arenas'[x] = arenas[x]
  BY <1>9 DEF Dropped
<1>11. \A x \in DOMAIN arenas : x # a => x \in DOMAIN arenas'
  BY <1>9 DEF Dropped
<1>12. ASSUME NEW x \in DOMAIN arenas, x # a, ~arenas[x].large,
              NEW c \in BlocksOf(x, arenas[x].desc)
       PROVE  c \in ToSet(free_list'[arenas[x].desc]) <=> c \in ToSet(free_list[arenas[x].desc])
  <2>1. Page(x) /\ arenas[x].desc \in Descs
    BY <1>1, <1>12 DEF ArenasSound, ArenaShape
  <2>2. c \notin BlocksOf(a, d)
    BY <1>3, <1>12, <2>1, OneArena
  <2> QED BY <1>7, <1>8, <2>1, <2>2
<1>13. FreeListsSound(arenas', free_list')
  <2>1. ASSUME NEW e \in Descs, NEW c \in ToSet(free_list'[e])
        PROVE  \E x \in DOMAIN arenas' : FreeIn(arenas', c, e, x)
    <3>1. c \in ToSet(free_list[e]) /\ (e = d => c \notin BlocksOf(a, d))
      BY <1>7, <1>8
    <3>2. PICK x \in DOMAIN arenas : FreeIn(arenas, c, e, x)
      BY <1>1, <3>1 DEF FreeListsSound
    <3>3. x # a
      BY <3>1, <3>2 DEF FreeIn
    <3>4. x \in DOMAIN arenas' /\ arenas'[x] = arenas[x]
      BY <1>10, <1>11, <3>3
    <3>5. FreeIn(arenas', c, e, x)
      BY <3>2, <3>4, Zenon DEF FreeIn
    <3> QED BY <3>4, <3>5, Zenon
  <2>2. \A e \in Descs : free_list'[e] \in Seq(Nat) /\ IsInjective(free_list'[e])
    BY <1>1, <1>6, <1>7 DEF FreeListsSound
  <2> QED BY <1>7, <2>1, <2>2, Zenon DEF FreeListsSound
<1>14. LiveSound(arenas', free_list', live')
  <2>1. ASSUME NEW s \in live'
        PROVE  \E x \in DOMAIN arenas' : Holds(s, x, arenas'[x], free_list')
    <3>1. s \in live /\ s # r /\ s[1] # b
      BY <1>1, <1>2 DEF LiveSound
    <3>2. PICK x \in DOMAIN arenas : Holds(s, x, arenas[x], free_list)
      BY <1>1, <3>1 DEF LiveSound
    <3>3. ASSUME x = a PROVE FALSE
      <4>1. s[1] \in BlocksOf(a, d) /\ s[1] \notin ToSet(free_list[d])
        BY <3>2, <3>3 DEF Holds
      <4> QED BY <1>2, <1>3, <3>1, <4>1
    <3>4. x \in DOMAIN arenas' /\ arenas'[x] = arenas[x]
      BY <1>10, <1>11, <3>3
    <3>5. Holds(s, x, arenas[x], free_list')
      <4>1. CASE arenas[x].large
        BY <3>2, <4>1 DEF Holds
      <4>2. CASE ~arenas[x].large
        BY <1>12, <3>2, <3>3, <4>2 DEF Holds
      <4> QED BY <4>1, <4>2
    <3> QED BY <3>4, <3>5, Zenon
  <2>2. \A s \in live' : s \in live
    OBVIOUS
  <2> QED BY <1>1, <2>1, <2>2 DEF LiveSound
<1>15. NoneLost(arenas', free_list', live')
  <2> SUFFICES ASSUME NEW x \in DOMAIN arenas' PROVE Kept(x, arenas'[x], free_list', live')
    BY DEF NoneLost
  <2>1. x \in DOMAIN arenas /\ x # a /\ arenas'[x] = arenas[x]
    BY <1>10
  <2>2. Kept(x, arenas[x], free_list, live) /\ ArenaShape(x, arenas[x])
    BY <1>1, <2>1 DEF NoneLost, ArenasSound
  <2>3. block2arena(r[1]) # x
    BY <2>1
  <2>4. Kept(x, arenas[x], free_list, live')
    BY <2>2, <2>3, KeptWithout
  <2>5. Kept(x, arenas[x], free_list', live')
    BY <1>12, <2>1, <2>4 DEF Kept
  <2> QED BY <2>1, <2>5, Zenon
<1>16. CountsSound(arenas', free_list')
  <2> SUFFICES ASSUME NEW x \in DOMAIN arenas', ~arenas'[x].large
               PROVE  Counted(x, arenas'[x], free_list')
    BY DEF CountsSound, Counted
  <2>1. x \in DOMAIN arenas /\ x # a /\ arenas'[x] = arenas[x] /\ ~arenas[x].large
    BY <1>10
  <2>2. ToSet(free_list'[arenas[x].desc]) \cap BlocksOf(x, arenas[x].desc)
        = ToSet(free_list[arenas[x].desc]) \cap BlocksOf(x, arenas[x].desc)
    BY <1>12, <2>1
  <2>3. Counted(x, arenas[x], free_list)
    BY <1>1, <2>1 DEF CountsSound
  <2> QED BY <2>1, <2>2, <2>3, Zenon DEF Counted
<1>17. NoneIdle(arenas')
  BY <1>1, <1>10 DEF NoneIdle
<1>18. Sound(arenas', free_list', live')
  BY <1>9, <1>13, <1>14, <1>15, <1>16, Zenon DEF Sound
<1> QED BY <1>1, <1>17, <1>18, Zenon DEF AllocInv

LEMMA FreeStep ==
    ASSUME AllocInv, NEW r \in live, sys_free(r)
    PROVE  AllocInv'
<1> DEFINE a == block2arena(r[1])
           d == arenas[a].desc
           free == Append(free_list[d], r[1])
<1>1. live' = live \ {r}
  BY DEF sys_free
<1>2. CASE arenas[a].large
  <2>1. free_large(a)
    BY <1>2 DEF sys_free
  <2> HIDE DEF a
  <2>2. a = block2arena(r[1])
    BY DEF a
  <2> QED BY <1>1, <1>2, <2>1, <2>2, FreeLargeStep
<1>3. CASE ~arenas[a].large
  <2>1. free_block(r[1], a)
    BY <1>3 DEF sys_free
  <2>2. a = block2arena(r[1]) /\ d = arenas[a].desc /\ free = Append(free_list[d], r[1])
    OBVIOUS
  <2>3. IF ~all_free(a, d)
        THEN /\ free_list' = WithList(free_list, d, free)
             /\ arenas' = count_block(a) /\ panic' = panic
        ELSE IF ~(BlocksOf(a, d) \subseteq ToSet(free))
        THEN panic' = TRUE
        ELSE /\ free_list' = WithList(free_list, d, without(free, BlocksOf(a, d)))
             /\ arenas' = drop_arena(a) /\ panic' = panic
    BY <2>1, Zenon DEF free_block, WithList, BlocksOf
  <2> HIDE DEF a, d, free
  <2>4. CASE ~all_free(a, d)
    BY <1>1, <1>3, <2>2, <2>3, <2>4, FreeSomeStep
  <2>5. CASE all_free(a, d)
    <3>1. BlocksOf(a, d) \subseteq ToSet(free)
      BY <1>3, <2>2, <2>5, FreeAllStep
    <3>2. /\ free_list' = WithList(free_list, d, without(free, BlocksOf(a, d)))
          /\ arenas' = drop_arena(a) /\ panic' = panic
      BY <2>3, <2>5, <3>1
    <3> QED BY <1>1, <1>3, <2>2, <2>5, <3>2, FreeAllStep
  <2> QED BY <2>4, <2>5
<1> QED BY <1>2, <1>3

LEMMA InitInv == Init => AllocInv
<1> SUFFICES ASSUME Init PROVE AllocInv
  OBVIOUS
<1>1. /\ DOMAIN arenas = {} /\ arenas = [a \in DOMAIN arenas |-> arenas[a]]
      /\ live = {} /\ panic = FALSE
  BY DEF Init
<1>2. free_list = [d \in Descs |-> free_list[d]] /\ \A d \in Descs : free_list[d] = <<>>
  BY DEF Init
<1>3. <<>> \in Seq(Nat) /\ IsInjective(<<>>) /\ ToSet(<<>>) = {}
  BY DEF IsInjective, ToSet
<1>4. FreeListsSound(arenas, free_list)
  BY <1>2, <1>3 DEF FreeListsSound
<1>5. ArenasSound(arenas)
  BY <1>1 DEF ArenasSound
<1>6. LiveSound(arenas, free_list, live) /\ NoneLost(arenas, free_list, live)
      /\ CountsSound(arenas, free_list) /\ NoneIdle(arenas)
  BY <1>1 DEF LiveSound, NoneLost, CountsSound, NoneIdle
<1> QED BY <1>1, <1>4, <1>5, <1>6 DEF AllocInv, Sound

LEMMA AllocInductive == Spec => []AllocInv
<1>1. AllocInv /\ [Next]_vars => AllocInv'
  <2> SUFFICES ASSUME AllocInv, [Next]_vars PROVE AllocInv'
    OBVIOUS
  <2>1. ASSUME NEW size \in Sizes, sys_malloc(size) PROVE AllocInv'
    BY <2>1, MallocStep
  <2>2. ASSUME NEW r \in live, sys_free(r) PROVE AllocInv'
    BY <2>2, FreeStep
  <2>3. CASE UNCHANGED vars
    <3>1. arenas' = arenas /\ free_list' = free_list /\ live' = live /\ panic' = panic
      BY <2>3 DEF vars
    <3> QED BY <3>1, Zenon DEF AllocInv
  <2> QED BY <2>1, <2>2, <2>3 DEF Next
<1> QED BY <1>1, InitInv, PTL DEF Spec

(* What a failing request keeps lies in the pool.                          *)
LeakedInPool == leaked \subseteq 0 .. NPages - 1

LEMMA FailedRun ==
    ASSUME AllocInv, LeakedInPool, NEW size \in Sizes, malloc_fails(size)
    PROVE  LeakedInPool'
<1> DEFINE n == IF size > max_block THEN DIV_ROUND_UP(size + ArenaSize, PG_SIZE) ELSE 1
<1>1. n \in Nat \ {0}
  <2>1. size \in Nat
    BY Constants
  <2>2. DIV_ROUND_UP(size + ArenaSize, PG_SIZE) \in Nat \ {0}
    BY <2>1, PageCount
  <2> QED BY <2>2
<1>2. PICK a \in malloc_pages(n) :
        leaked' = leaked \cup (a \div PG_SIZE .. a \div PG_SIZE + n - 1)
  BY DEF malloc_fails
<1> HIDE DEF n
<1>3. ArenasSound(arenas)
  BY DEF AllocInv, Sound
<1>4. Page(a) /\ a \div PG_SIZE + n <= NPages
  BY <1>1, <1>3, FreshRun
<1>5. PG_SIZE \in Nat \ {0} /\ NPages \in Nat
  BY Constants
<1>6. a \div PG_SIZE \in Nat
  BY <1>4, <1>5, DivMod DEF Page
<1>7. a \div PG_SIZE .. a \div PG_SIZE + n - 1 \subseteq 0 .. NPages - 1
  BY <1>1, <1>4, <1>5, <1>6
<1> QED BY <1>2, <1>7 DEF LeakedInPool

LEMMA LeakedInductive == Spec => []LeakedInPool
<1>1. Init => LeakedInPool
  BY DEF Init, LeakedInPool
<1>2. AllocInv /\ LeakedInPool /\ [Next]_vars => LeakedInPool'
  <2> SUFFICES ASSUME AllocInv, LeakedInPool, [Next]_vars PROVE LeakedInPool'
    OBVIOUS
  <2>1. ASSUME NEW size \in Sizes, sys_malloc(size) PROVE LeakedInPool'
    <3>1. CASE malloc_fails(size)
      BY <3>1, FailedRun
    <3>2. CASE leaked' = leaked
      BY <3>2 DEF LeakedInPool
    <3> QED BY <2>1, <3>1, <3>2 DEF sys_malloc
  <2>2. ASSUME NEW r \in live, sys_free(r) PROVE LeakedInPool'
    BY <2>2 DEF sys_free, LeakedInPool
  <2>3. CASE UNCHANGED vars
    BY <2>3 DEF vars, LeakedInPool
  <2> QED BY <2>1, <2>2, <2>3 DEF Next
<1> QED BY <1>1, <1>2, AllocInductive, PTL DEF Spec

-----------------------------------------------------------------------------
(* Where the bytes lie.                                                    *)
Extent(a) == a .. a + arenas[a].pages * PG_SIZE - 1

LEMMA ExtentBytes ==
    ASSUME ArenasSound(arenas), NEW a \in DOMAIN arenas, NEW x \in Extent(a)
    PROVE  /\ x \in 0 .. pool_size - 1 /\ x \div PG_SIZE \in PagesOf(arenas, a)
<1>1. Page(a) /\ arenas[a].pages \in Nat \ {0} /\ a \div PG_SIZE + arenas[a].pages <= NPages
  BY DEF ArenasSound, ArenaShape, Header
<1> DEFINE n == arenas[a].pages
<1>2. PICK v \in Nat : v = a \div PG_SIZE /\ a = PG_SIZE * v
  BY <1>1, PageStart
<1>3. PG_SIZE \in Nat \ {0} /\ NPages \in Nat /\ pool_size = NPages * PG_SIZE
  BY Constants
<1>4. n \in Nat \ {0} /\ v + n <= NPages /\ x \in a .. a + n * PG_SIZE - 1
  BY <1>1, <1>2, Zenon DEF Extent
<1> HIDE DEF n
<1>5. n * PG_SIZE \in Nat /\ PG_SIZE * v \in Nat
  BY <1>2, <1>3, <1>4
<1>6. x - a \in Nat /\ x - a < n * PG_SIZE /\ a + (x - a) = x /\ x \in Nat
  BY <1>2, <1>4, <1>5
<1>7. (a + (x - a)) \div PG_SIZE \in a \div PG_SIZE .. a \div PG_SIZE + n - 1
  BY <1>1, <1>4, <1>6, OffsetInRun
<1>8. x \div PG_SIZE \in PagesOf(arenas, a)
  BY <1>6, <1>7, Zenon DEF PagesOf, n
<1>9. PG_SIZE * (v + n) = PG_SIZE * v + n * PG_SIZE
  BY <1>2, <1>3, <1>4
<1>10. PG_SIZE * (v + n) <= PG_SIZE * NPages /\ PG_SIZE * NPages = NPages * PG_SIZE
  BY <1>2, <1>3, <1>4, Products
<1>11. x < pool_size
  BY <1>2, <1>3, <1>4, <1>5, <1>9, <1>10
<1> QED BY <1>6, <1>8, <1>11, <1>3, Constants

LEMMA ExtentsApart ==
    ASSUME ArenasSound(arenas), NEW a \in DOMAIN arenas, NEW c \in DOMAIN arenas, a # c
    PROVE  Extent(a) \cap Extent(c) = {}
<1>1. PagesOf(arenas, a) \cap PagesOf(arenas, c) = {}
  BY DEF ArenasSound
<1> QED BY <1>1, ExtentBytes

LEMMA HeaderExtent ==
    ASSUME ArenasSound(arenas), NEW a \in DOMAIN arenas
    PROVE  a .. a + ArenaSize - 1 \subseteq Extent(a)
<1>1. a \in Nat /\ arenas[a].pages \in Nat \ {0}
  BY DEF ArenasSound, ArenaShape, Header, Page
<1>2. ArenaSize \in Nat /\ PG_SIZE \in Nat \ {0} /\ ArenaSize < PG_SIZE
  BY Constants
<1> DEFINE n == arenas[a].pages
<1>3. PG_SIZE * 1 <= PG_SIZE * n /\ PG_SIZE * n = n * PG_SIZE /\ PG_SIZE * n \in Nat
  BY <1>1, <1>2, Products
<1>4. Extent(a) = a .. a + n * PG_SIZE - 1
  BY Zenon DEF Extent
<1> HIDE DEF n
<1> QED BY <1>1, <1>2, <1>3, <1>4

LEMMA BlockExtent ==
    ASSUME ArenasSound(arenas), NEW a \in DOMAIN arenas, NEW d \in Descs,
           arenas[a].pages = 1, NEW b \in BlocksOf(a, d)
    PROVE  /\ b \in Nat /\ block_size(d) \in Nat \ {0} /\ a + ArenaSize <= b
           /\ b .. b + block_size(d) - 1 \subseteq Extent(a)
<1>1. Page(a) /\ a \in Nat
  BY DEF ArenasSound, ArenaShape, Page
<1>2. b \in Nat /\ a + ArenaSize <= b /\ b + block_size(d) <= a + PG_SIZE
  BY <1>1, BlockPlace
<1>3. ArenaSize \in Nat /\ PG_SIZE \in Nat \ {0} /\ block_size(d) \in Nat \ {0}
  BY Constants, Fits
<1>4. Extent(a) = a .. a + PG_SIZE - 1
  BY <1>3 DEF Extent
<1> QED BY <1>1, <1>2, <1>3, <1>4

LEMMA LiveExtent ==
    ASSUME Sound(arenas, free_list, live), NEW r \in live, NEW a, a = block2arena(r[1])
    PROVE  /\ a \in DOMAIN arenas /\ r[1] \in Nat /\ r[2] \in Nat \ {0}
           /\ a + ArenaSize <= r[1] /\ Bytes(r) \subseteq Extent(a)
<1>1. ArenasSound(arenas) /\ LiveSound(arenas, free_list, live)
  BY DEF Sound
<1>2. a \in DOMAIN arenas /\ Holds(r, a, arenas[a], free_list)
  BY <1>1, Owner
<1>3. r[1] \in Nat /\ r[2] \in Nat \ {0}
  <2>1. r \in Nat \X Sizes /\ r[2] > 0
    BY <1>1 DEF LiveSound
  <2>2. r[1] \in Nat /\ r[2] \in Sizes
    BY <2>1
  <2>3. Sizes \subseteq Nat
    BY Constants
  <2>4. r[2] \in Nat /\ r[2] > 0
    BY <2>1, <2>2, <2>3, Zenon
  <2> QED BY <2>2, <2>4
<1>4. ArenaSize \in Nat /\ PG_SIZE \in Nat \ {0} /\ a \in Nat /\ arenas[a].pages \in Nat
  BY <1>1, <1>2, Constants DEF ArenasSound, ArenaShape, Header, Page
<1>5. CASE arenas[a].large
  <2> DEFINE n == arenas[a].pages * PG_SIZE
  <2>1. r[1] = a + ArenaSize /\ ArenaSize + r[2] <= n
    BY <1>2, <1>5 DEF Holds
  <2>2. Extent(a) = a .. a + n - 1 /\ Bytes(r) = r[1] .. r[1] + r[2] - 1
    BY Zenon DEF Extent, Bytes
  <2>3. n \in Nat
    BY <1>4
  <2> HIDE DEF n
  <2> QED BY <1>2, <1>3, <1>4, <2>1, <2>2, <2>3
<1>6. CASE ~arenas[a].large
  <2> DEFINE d == arenas[a].desc
  <2>1. d \in Descs /\ arenas[a].pages = 1
    BY <1>1, <1>2, <1>6 DEF ArenasSound, ArenaShape
  <2>2. r[1] \in BlocksOf(a, d) /\ r[2] <= block_size(d)
    BY <1>2, <1>6 DEF Holds
  <2> HIDE DEF d
  <2>3. /\ block_size(d) \in Nat \ {0} /\ a + ArenaSize <= r[1]
        /\ r[1] .. r[1] + block_size(d) - 1 \subseteq Extent(a)
    BY <1>1, <1>2, <2>1, <2>2, BlockExtent
  <2>4. Bytes(r) \subseteq r[1] .. r[1] + block_size(d) - 1
    BY <1>3, <2>2, <2>3 DEF Bytes
  <2> QED BY <1>2, <1>3, <2>3, <2>4
<1> QED BY <1>5, <1>6

(* Two blocks of an arena do not overlap.                                  *)
LEMMA BlocksDisjoint ==
    ASSUME NEW a, Page(a), NEW d \in Descs, NEW b \in BlocksOf(a, d),
           NEW c \in BlocksOf(a, d), b # c
    PROVE  (b .. b + block_size(d) - 1) \cap (c .. c + block_size(d) - 1) = {}
<1>1. PICK i \in 0 .. blocks_per_arena(d) - 1 : b = arena2block(a, d, i)
  BY DEF BlocksOf
<1>2. PICK j \in 0 .. blocks_per_arena(d) - 1 : c = arena2block(a, d, j)
  BY DEF BlocksOf
<1>3. b \in Nat /\ c \in Nat /\ block_size(d) \in Nat /\ blocks_per_arena(d) \in Nat
  BY BlockPlace, Fits
<1>4. i < j \/ j < i
  BY <1>1, <1>2, <1>3
<1>5. b + block_size(d) <= c \/ c + block_size(d) <= b
  <2>1. CASE i < j
    BY <1>1, <1>2, <2>1, BlocksApart
  <2>2. CASE j < i
    BY <1>1, <1>2, <2>2, BlocksApart
  <2> QED BY <1>4, <2>1, <2>2
<1> DEFINE n == block_size(d)
<1>6. n \in Nat /\ (b + n <= c \/ c + n <= b)
  BY <1>3, <1>5
<1> HIDE DEF n
<1>7. (b .. b + n - 1) \cap (c .. c + n - 1) = {}
  BY <1>3, <1>6
<1> QED BY <1>7, Zenon DEF n

-----------------------------------------------------------------------------
(* What the invariant says of the properties of Heap.                      *)
LEMMA SeqWithin ==
    ASSUME NEW s \in Seq(Nat), NEW S, ToSet(s) \subseteq S
    PROVE  s \in Seq(S)
<1>1. Len(s) \in Nat /\ s \in [1 .. Len(s) -> Nat] /\ DOMAIN s = 1 .. Len(s)
  BY LenProperties
<1>2. \A i \in 1 .. Len(s) : s[i] \in S
  BY <1>1 DEF ToSet
<1>3. s \in [1 .. Len(s) -> S]
  BY <1>1, <1>2
<1> QED BY <1>1, <1>3

LEMMA AllocTypes == AllocInv /\ LeakedInPool => TypeOK
<1> SUFFICES ASSUME AllocInv, LeakedInPool PROVE TypeOK
  OBVIOUS
<1>1. /\ Sound(arenas, free_list, live) /\ ArenasSound(arenas)
      /\ FreeListsSound(arenas, free_list) /\ LiveSound(arenas, free_list, live) /\ panic = FALSE
  BY DEF AllocInv, Sound
<1>2. ASSUME NEW a \in DOMAIN arenas
      PROVE  a % PG_SIZE = 0 /\ a < pool_size /\ arenas[a] \in Header
  <2>1. a % PG_SIZE = 0 /\ arenas[a] \in Header /\ a \in Nat
    BY <1>1 DEF ArenasSound, ArenaShape, Page
  <2>2. ArenaSize \in Nat \ {0} /\ pool_size \in Nat
    BY Constants
  <2>3. a \in a .. a + ArenaSize - 1
    BY <2>1, <2>2
  <2>4. a \in 0 .. pool_size - 1
    BY <1>1, <2>3, HeaderExtent, ExtentBytes
  <2> QED BY <2>1, <2>2, <2>4
<1>3. ASSUME NEW d \in Descs PROVE free_list[d] \in Seq(0 .. pool_size - 1)
  <2>1. ASSUME NEW b \in ToSet(free_list[d]) PROVE b \in 0 .. pool_size - 1
    <3>1. PICK a \in DOMAIN arenas : FreeIn(arenas, b, d, a)
      BY <1>1 DEF FreeListsSound
    <3>2. b \in BlocksOf(a, d) /\ arenas[a].pages = 1
      BY <1>1, <3>1 DEF FreeIn, ArenasSound, ArenaShape
    <3>3. /\ b \in Nat /\ block_size(d) \in Nat \ {0}
          /\ b .. b + block_size(d) - 1 \subseteq Extent(a)
      BY <1>1, <3>2, BlockExtent
    <3>4. b \in b .. b + block_size(d) - 1
      BY <3>3
    <3>5. b \in Extent(a)
      BY <3>3, <3>4
    <3> QED BY <1>1, <3>5, ExtentBytes
  <2>2. ToSet(free_list[d]) \subseteq 0 .. pool_size - 1
    BY <2>1
  <2>3. free_list[d] \in Seq(Nat)
    BY <1>1 DEF FreeListsSound
  <2> QED BY <2>2, <2>3, SeqWithin
<1>4. ASSUME NEW r \in live PROVE r[1] \in 0 .. pool_size - 1 /\ r[2] \in Sizes
  <2> DEFINE a == block2arena(r[1])
  <2>1. a \in DOMAIN arenas /\ r[1] \in Nat /\ r[2] \in Nat \ {0} /\ Bytes(r) \subseteq Extent(a)
    BY <1>1, LiveExtent
  <2> HIDE DEF a
  <2>2. r[1] \in Bytes(r)
    BY <2>1 DEF Bytes
  <2>3. r[1] \in 0 .. pool_size - 1
    BY <1>1, <2>1, <2>2, ExtentBytes
  <2>4. r \in Nat \X Sizes
    BY <1>1 DEF LiveSound
  <2>5. r[2] \in Sizes
    BY <2>4
  <2> QED BY <2>3, <2>5
<1> QED BY <1>1, <1>2, <1>3, <1>4 DEF TypeOK, Header, LeakedInPool

LEMMA AllocDisjoint == AllocInv => LiveDisjoint
<1> SUFFICES ASSUME AllocInv, NEW r \in live
             PROVE  /\ \A s \in live : r # s => Bytes(r) \cap Bytes(s) = {}
                    /\ \A x \in DOMAIN arenas : Bytes(r) \cap (x .. x + ArenaSize - 1) = {}
                    /\ \A d \in Descs : \A b \in ToSet(free_list[d]) :
                         Bytes(r) \cap (b .. b + block_size(d) - 1) = {}
                    /\ block2arena(r[1]) \in DOMAIN arenas
                    /\ \A x \in Bytes(r) : x \div PG_SIZE \in arena_pages(block2arena(r[1]))
  BY Zenon DEF LiveDisjoint
<1>1. /\ Sound(arenas, free_list, live) /\ ArenasSound(arenas)
      /\ FreeListsSound(arenas, free_list) /\ LiveSound(arenas, free_list, live)
  BY DEF AllocInv, Sound
<1> DEFINE a == block2arena(r[1])
<1>2. /\ a \in DOMAIN arenas /\ r[1] \in Nat /\ r[2] \in Nat \ {0}
      /\ a + ArenaSize <= r[1] /\ Bytes(r) \subseteq Extent(a)
  BY <1>1, LiveExtent
<1>3. Holds(r, a, arenas[a], free_list)
  BY <1>1, Owner
<1>4. a = block2arena(r[1])
  OBVIOUS
<1> HIDE DEF a
<1>5. Page(a) /\ a \in Nat /\ ArenaSize \in Nat /\ PG_SIZE \in Nat
  BY <1>1, <1>2, Constants DEF ArenasSound, ArenaShape, Page
<1>6. ASSUME NEW d \in Descs, d = arenas[a].desc, ~arenas[a].large
      PROVE  /\ r[1] \in BlocksOf(a, d) /\ r[1] \notin ToSet(free_list[d])
             /\ Bytes(r) \subseteq r[1] .. r[1] + block_size(d) - 1
  <2>1. r[1] \in BlocksOf(a, d) /\ r[1] \notin ToSet(free_list[d]) /\ r[2] <= block_size(d)
    BY <1>3, <1>6 DEF Holds
  <2>2. block_size(d) \in Nat
    BY Fits
  <2> QED BY <1>2, <2>1, <2>2 DEF Bytes
<1>7. ASSUME NEW s \in live, r # s PROVE Bytes(r) \cap Bytes(s) = {}
  <2> DEFINE c == block2arena(s[1])
  <2>1. /\ c \in DOMAIN arenas /\ s[1] \in Nat /\ s[2] \in Nat \ {0}
        /\ Bytes(s) \subseteq Extent(c) /\ Holds(s, c, arenas[c], free_list)
    BY <1>1, LiveExtent, Owner
  <2> HIDE DEF c
  <2>2. CASE c # a
    BY <1>1, <1>2, <2>1, <2>2, ExtentsApart
  <2>3. CASE c = a
    <3>1. s[1] # r[1]
      BY <1>1, <1>7 DEF LiveSound
    <3>2. ~arenas[a].large
      BY <1>3, <2>1, <2>3, <3>1 DEF Holds
    <3> DEFINE d == arenas[a].desc
    <3>3. d \in Descs
      BY <1>1, <1>2, <3>2 DEF ArenasSound, ArenaShape
    <3>4. s[1] \in BlocksOf(a, d) /\ s[2] <= block_size(d)
      BY <2>1, <2>3, <3>2 DEF Holds
    <3>5. d = arenas[a].desc
      OBVIOUS
    <3> HIDE DEF d
    <3>6. block_size(d) \in Nat
      BY <3>3, Fits
    <3>7. Bytes(s) \subseteq s[1] .. s[1] + block_size(d) - 1
      BY <2>1, <3>4, <3>6 DEF Bytes
    <3>8. r[1] \in BlocksOf(a, d) /\ Bytes(r) \subseteq r[1] .. r[1] + block_size(d) - 1
      BY <1>6, <3>2, <3>3, <3>5
    <3>9. (r[1] .. r[1] + block_size(d) - 1) \cap (s[1] .. s[1] + block_size(d) - 1) = {}
      BY <1>5, <3>1, <3>3, <3>4, <3>8, BlocksDisjoint
    <3> QED BY <3>7, <3>8, <3>9, Zenon
  <2> QED BY <2>2, <2>3
<1>8. ASSUME NEW x \in DOMAIN arenas PROVE Bytes(r) \cap (x .. x + ArenaSize - 1) = {}
  <2>1. CASE x = a
    BY <1>2, <1>5, <2>1 DEF Bytes
  <2>2. CASE x # a
    <3>1. x .. x + ArenaSize - 1 \subseteq Extent(x) /\ Extent(x) \cap Extent(a) = {}
      BY <1>1, <1>2, <2>2, HeaderExtent, ExtentsApart
    <3> QED BY <1>2, <3>1, Zenon
  <2> QED BY <2>1, <2>2
<1>9. ASSUME NEW d \in Descs, NEW b \in ToSet(free_list[d])
      PROVE  Bytes(r) \cap (b .. b + block_size(d) - 1) = {}
  <2>1. PICK x \in DOMAIN arenas : FreeIn(arenas, b, d, x)
    BY <1>1 DEF FreeListsSound
  <2>2. /\ ~arenas[x].large /\ arenas[x].desc = d /\ b \in BlocksOf(x, d)
        /\ arenas[x].pages = 1
    BY <1>1, <2>1 DEF FreeIn, ArenasSound, ArenaShape
  <2>3. CASE x = a
    <3>1. /\ r[1] \in BlocksOf(a, d) /\ r[1] \notin ToSet(free_list[d])
          /\ Bytes(r) \subseteq r[1] .. r[1] + block_size(d) - 1
      BY <1>6, <2>2, <2>3
    <3>2. r[1] # b
      BY <3>1
    <3>3. (r[1] .. r[1] + block_size(d) - 1) \cap (b .. b + block_size(d) - 1) = {}
      BY <1>5, <2>2, <2>3, <3>1, <3>2, BlocksDisjoint
    <3> QED BY <3>1, <3>3, Zenon
  <2>4. CASE x # a
    <3>1. b .. b + block_size(d) - 1 \subseteq Extent(x) /\ Extent(x) \cap Extent(a) = {}
      BY <1>1, <1>2, <2>2, <2>4, BlockExtent, ExtentsApart
    <3> QED BY <1>2, <3>1, Zenon
  <2> QED BY <2>3, <2>4
<1>10. ASSUME NEW x \in Bytes(r) PROVE x \div PG_SIZE \in arena_pages(a)
  <2>1. x \div PG_SIZE \in PagesOf(arenas, a)
    BY <1>1, <1>2, ExtentBytes
  <2> QED BY <2>1, Zenon DEF PagesOf, arena_pages
<1> QED BY <1>2, <1>4, <1>7, <1>8, <1>9, <1>10, Zenon

LEMMA AllocCounts == AllocInv => CntCountsFreeBlocks
<1> SUFFICES ASSUME AllocInv, NEW a \in DOMAIN arenas, ~arenas[a].large,
                    NEW d, d = arenas[a].desc
             PROVE  /\ arenas[a].cnt < blocks_per_arena(d)
                    /\ arenas[a].cnt =
                         Cardinality({i \in DOMAIN free_list[d] : block2arena(free_list[d][i]) = a})
                    /\ IsInjective(free_list[d])
  BY Zenon DEF CntCountsFreeBlocks
<1>1. /\ ArenasSound(arenas) /\ FreeListsSound(arenas, free_list)
      /\ CountsSound(arenas, free_list) /\ NoneIdle(arenas)
  BY DEF AllocInv, Sound
<1>2. d \in Descs /\ Page(a)
  BY <1>1 DEF ArenasSound, ArenaShape
<1> DEFINE fl == free_list[d]
           I == {i \in DOMAIN fl : block2arena(fl[i]) = a}
           S == ToSet(fl) \cap BlocksOf(a, d)
           f == [i \in I |-> fl[i]]
<1>3. arenas[a].cnt < blocks_per_arena(d) /\ arenas[a].cnt = Cardinality(S)
  BY <1>1 DEF NoneIdle, Used, CountsSound, Counted
<1>4. IsInjective(fl) /\ fl \in Seq(Nat)
  BY <1>1, <1>2 DEF FreeListsSound
<1>5. ASSUME NEW i \in DOMAIN fl PROVE fl[i] \in ToSet(fl)
  BY DEF ToSet
<1>6. ASSUME NEW i \in I PROVE fl[i] \in S
  <2>1. FreeIn(arenas, fl[i], d, a)
    BY <1>1, <1>2, <1>5, FreeOwner
  <2> QED BY <1>5, <2>1 DEF FreeIn
<1>7. ASSUME NEW b \in S PROVE \E i \in I : fl[i] = b
  <2>1. PICK i \in DOMAIN fl : fl[i] = b
    BY DEF ToSet
  <2>2. block2arena(b) = a
    BY <1>2, BlockPlace
  <2> QED BY <2>1, <2>2
<1>8. IsFiniteSet(I)
  <2>1. Len(fl) \in Nat /\ DOMAIN fl = 1 .. Len(fl)
    BY <1>4, LenProperties
  <2>2. IsFiniteSet(DOMAIN fl)
    BY <2>1, FS_Interval
  <2> QED BY <2>2, FS_Subset
<1> HIDE DEF S
<1>9. f \in [I -> S]
  BY <1>6
<1>10. \A i, j \in I : f[i] = f[j] => i = j
  BY <1>4 DEF IsInjective
<1>11. \A b \in S : \E i \in I : f[i] = b
  BY <1>7
<1>12. \A i \in I : i \in DOMAIN f
  OBVIOUS
<1> HIDE DEF f, I
<1>13. f \in Bijection(I, S)
  BY <1>9, <1>10, <1>11, Zenon DEF Bijection, Injection, Surjection, IsInjective
<1>14. Cardinality(S) = Cardinality(I)
  BY <1>8, <1>13, FS_Bijection DEF ExistsBijection
<1> QED BY <1>3, <1>4, <1>14, Zenon DEF I

LEMMA AllocComesBack == AllocInv => AllComesBack
<1> SUFFICES ASSUME AllocInv, live = {}
             PROVE  DOMAIN arenas = {} /\ \A d \in Descs : free_list[d] = <<>>
  BY Zenon DEF AllComesBack
<1>1. /\ ArenasSound(arenas) /\ FreeListsSound(arenas, free_list)
      /\ NoneLost(arenas, free_list, live)
      /\ CountsSound(arenas, free_list) /\ NoneIdle(arenas)
  BY DEF AllocInv, Sound
<1>2. ASSUME NEW a \in DOMAIN arenas PROVE FALSE
  <2>1. Kept(a, arenas[a], free_list, {})
    BY <1>1 DEF NoneLost
  <2>2. ~arenas[a].large
    BY <2>1 DEF Kept
  <2> DEFINE d == arenas[a].desc
  <2>3. d \in Descs /\ Page(a)
    BY <1>1, <2>2 DEF ArenasSound, ArenaShape
  <2>4. \A b \in BlocksOf(a, d) : b \in ToSet(free_list[d])
    BY <2>1, <2>2 DEF Kept
  <2>5. ToSet(free_list[d]) \cap BlocksOf(a, d) = BlocksOf(a, d)
    BY <2>4
  <2>6. arenas[a].cnt = Cardinality(BlocksOf(a, d)) /\ arenas[a].cnt < blocks_per_arena(d)
    BY <1>1, <2>2, <2>5 DEF CountsSound, Counted, NoneIdle, Used
  <2> HIDE DEF d
  <2>7. Cardinality(BlocksOf(a, d)) = blocks_per_arena(d) /\ blocks_per_arena(d) \in Nat
    BY <2>3, BlockCount, Fits
  <2> QED BY <2>6, <2>7
<1>3. ASSUME NEW d \in Descs PROVE free_list[d] = <<>>
  <2>1. free_list[d] \in Seq(Nat) /\ IsInjective(free_list[d])
    BY <1>1 DEF FreeListsSound
  <2>2. ASSUME free_list[d] # <<>> PROVE FALSE
    <3>1. Head(free_list[d]) \in ToSet(free_list[d])
      BY <2>1, <2>2, HeadTail
    <3> QED BY <1>1, <1>2, <3>1 DEF FreeListsSound
  <2> QED BY <2>2
<1> QED BY <1>2, <1>3

-----------------------------------------------------------------------------
(* Whatever calls of sys_malloc and sys_free are made, in any order and    *)
(* for any sizes: memory that callers hold overlaps neither other callers' *)
(* memory nor a header nor a free block, arena.cnt counts the free blocks, *)
(* and sys_free's ASSERT never fails.                                      *)
THEOREM HeapSound == Spec => []HeapInv
<1>1. AllocInv /\ LeakedInPool => HeapInv
  <2>1. AllocInv => NoPanic
    BY DEF AllocInv, NoPanic
  <2> QED BY <2>1, AllocTypes, AllocDisjoint, AllocCounts DEF HeapInv
<1> QED BY <1>1, AllocInductive, LeakedInductive, PTL

(* When everything that sys_malloc handed out has been freed, every page   *)
(* is back and no block is left on a free list.                            *)
THEOREM MemoryComesBack == Spec => []AllComesBack
  BY AllocInductive, AllocComesBack, PTL
=============================================================================
