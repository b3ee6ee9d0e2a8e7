---------------------------- MODULE PagingProofs ----------------------------
(***************************************************************************)
(* Proofs about Paging, for tables of any size and any pools: whichever    *)
(* directory is active, the kernel's half is the same in all of them, the  *)
(* last entry reaches the directory's own tables, and a process maps only  *)
(* frames of its own.                                                      *)
(***************************************************************************)
EXTENDS Paging, WellFoundedInduction, NaturalsInduction, TLAPS

Frames == BootFrames \cup KernelFrames \cup UserFrames
UserHalf == 0 .. K - 1
KernelHalf == K .. E - 2
Procs == dirs \ {page_dir}

(* The frames are tables, the free ones are the pools', and a directory is *)
(* the loader's or in a page of the kernel.                                *)
ShapeInv ==
    /\ DOMAIN mem = Frames /\ \A f \in Frames : DOMAIN mem[f] = Entries
    /\ free_k \subseteq KernelFrames /\ free_u \subseteq UserFrames
    /\ page_dir \in dirs /\ cr3 \in dirs
    /\ dirs \subseteq {page_dir} \cup (KernelFrames \ free_k)

(* Every directory ends in itself and shares the loader's kernel tables.   *)
DirsInv ==
    \A d \in dirs : mem[d][E - 1] = d /\ \A p \in KernelHalf : mem[d][p] = table(p)

(* The tables of the processes: in use, none of them a directory, and each *)
(* of one entry only.                                                      *)
TablesInv ==
    /\ \A p \in UserHalf : mem[page_dir][p] \in {NONE, table(K)}
    /\ \A d \in Procs, p \in UserHalf : mem[d][p] # NONE =>
         /\ mem[d][p] \in KernelFrames \ (free_k \cup dirs)
         /\ \A c \in Procs, r \in UserHalf : mem[c][r] = mem[d][p] => c = d /\ r = p

(* The kernel maps no frame of the user pool, and one of its own pool at   *)
(* most once, while it is in use, and unless it is a table.                *)
KernelMapInv ==
    \A p \in KernelHalf, q \in Entries :
        /\ mem[table(p)][q] \notin UserFrames
        /\ mem[table(p)][q] \in KernelFrames =>
             /\ mem[table(p)][q] \notin free_k
             /\ \A d \in Procs, r \in UserHalf : mem[d][r] # mem[table(p)][q]
             /\ \A s \in KernelHalf, u \in Entries :
                  mem[table(s)][u] = mem[table(p)][q] => s = p /\ u = q

(* A process maps frames of the user pool that are in use, each once.      *)
UserMapInv ==
    \A d \in Procs, p \in UserHalf, q \in Entries :
        mem[d][p] # NONE /\ mem[mem[d][p]][q] # NONE =>
          /\ mem[mem[d][p]][q] \in UserFrames \ free_u
          /\ \A c \in Procs, r \in UserHalf, s \in Entries :
               mem[c][r] # NONE /\ mem[mem[c][r]][s] = mem[mem[d][p]][q]
                 => c = d /\ r = p /\ s = q

(* If memory was clear: the kernel's pages are clear or map its frames.    *)
CleanInv ==
    ~Dirty => /\ ~panic
              /\ \A v \in kernel_pages : mem[table(v[1])][v[2]] \in KernelFrames \cup {NONE}

PagingInv ==
    ShapeInv /\ DirsInv /\ TablesInv /\ KernelMapInv /\ UserMapInv /\ CleanInv

-----------------------------------------------------------------------------
(* The indices and the frames.                                             *)
LEMMA Indices ==
    /\ E \in Nat /\ K \in Nat /\ LowPages \in Nat /\ 0 < K /\ K + 2 < E
    /\ UserHalf \subseteq Entries /\ KernelHalf \subseteq Entries /\ K \in KernelHalf
    /\ E - 1 \in Entries /\ E - 1 \notin UserHalf /\ E - 1 \notin KernelHalf
    /\ UserHalf \cap KernelHalf = {}
  BY PagingAssumption DEF UserHalf, KernelHalf, Entries

LEMMA KernelTables ==
    ASSUME NEW p \in KernelHalf
    PROVE  /\ table(p) \in BootFrames /\ table(p) # page_dir
           /\ \A s \in KernelHalf : table(s) = table(p) => s = p
<1>1. table(p) \in BootFrames
  BY DEF BootFrames, KernelHalf
<1> QED BY <1>1, Indices DEF table, page_dir, KernelHalf

LEMMA FrameKinds ==
    /\ NONE \notin Frames /\ page_dir \in BootFrames
    /\ \A f \in BootFrames : f \notin KernelFrames /\ f \notin UserFrames
    /\ \A f \in KernelFrames : f \notin UserFrames
    /\ BootFrames \subseteq Frames /\ KernelFrames \subseteq Frames /\ UserFrames \subseteq Frames
<1>1. BootFrames \subseteq Nat /\ page_dir \in BootFrames
  BY Indices DEF BootFrames, page_dir, table, KernelHalf
<1> QED BY <1>1, FramesAssumption DEF Frames

(* A write to one word of a frame, and of a whole frame.                   *)
Word(m, f, i, x) == [m EXCEPT ![f][i] = x]
Whole(m, f, c) == [m EXCEPT ![f] = c]

(* What pde_ptr and pte_ptr reach through a directory that ends in itself. *)
SelfMapped(m, d) == m[d][E - 1] = d /\ d # NONE

LEMMA Reach ==
    \A m, d, p, q, x : SelfMapped(m, d) =>
      /\ frame(m, d, E - 1, p) = m[d][p]
      /\ load(m, d, pde_ptr(p)) = m[d][p]
      /\ load(m, d, pte_ptr(p, q)) = m[m[d][p]][q]
      /\ store(m, d, pde_ptr(p), x) = Word(m, d, p, x)
      /\ store(m, d, pte_ptr(p, q), x) = Word(m, m[d][p], q, x)
<1> TAKE m, d, p, q, x
<1> HAVE SelfMapped(m, d)
<1>1. /\ frame(m, d, E - 1, p) = m[d][p] /\ frame(m, d, E - 1, E - 1) = d
  BY DEF frame, SelfMapped
<1>2. /\ pde_ptr(p)[1] = E - 1 /\ pde_ptr(p)[2] = E - 1 /\ pde_ptr(p)[3] = p
      /\ pte_ptr(p, q)[1] = E - 1 /\ pte_ptr(p, q)[2] = p /\ pte_ptr(p, q)[3] = q
  BY DEF pde_ptr, pte_ptr
<1>3. frame(m, d, E - 1, p) = m[d][p] /\ load(m, d, pde_ptr(p)) = m[d][p]
  BY <1>1, <1>2, Zenon DEF load
<1>4. load(m, d, pte_ptr(p, q)) = m[m[d][p]][q]
  BY <1>1, <1>2, Zenon DEF load
<1>5. store(m, d, pde_ptr(p), x) = Word(m, d, p, x)
  BY <1>1, <1>2, Zenon DEF store, Word
<1>6. store(m, d, pte_ptr(p, q), x) = Word(m, m[d][p], q, x)
  BY <1>1, <1>2, Zenon DEF store, Word
<1> QED BY <1>3, <1>4, <1>5, <1>6, Zenon

LEMMA WordWritten ==
    ASSUME NEW m, DOMAIN m = Frames, \A f \in Frames : DOMAIN m[f] = Entries,
           NEW g \in Frames, NEW j \in Entries, NEW x, NEW w, w = Word(m, g, j, x)
    PROVE  /\ DOMAIN w = Frames /\ \A f \in Frames : DOMAIN w[f] = Entries
           /\ \A f \in Frames : f # g => w[f] = m[f]
           /\ \A i \in Entries : i # j => w[g][i] = m[g][i]
           /\ w[g][j] = x
  BY DEF Word

LEMMA WholeWritten ==
    ASSUME NEW m, DOMAIN m = Frames, \A f \in Frames : DOMAIN m[f] = Entries,
           NEW g \in Frames, NEW c, DOMAIN c = Entries, NEW w, w = Whole(m, g, c)
    PROVE  /\ DOMAIN w = Frames /\ \A f \in Frames : DOMAIN w[f] = Entries
           /\ \A f \in Frames : f # g => w[f] = m[f]
           /\ w[g] = c
  BY DEF Whole

LEMMA LeastNat ==
    ASSUME NEW S \in SUBSET Nat, S # {}
    PROVE  \E m \in S : \A n \in S : m <= n
<1>1. IsWellFoundedOn(OpToRel(<, Nat), Nat)
  BY NatLessThanWellFounded
<1>2. PICK m \in S : \A n \in S : ~ (<<n, m>> \in OpToRel(<, Nat))
  BY <1>1, WFMin
<1>3. ASSUME NEW n \in S, n < m
      PROVE  FALSE
  <2>1. <<n, m>> \in OpToRel(<, Nat)
    BY <1>3, Zenon DEF OpToRel
  <2> QED BY <1>2, <2>1
<1> QED BY <1>3

(* The first fit is a page of the kernel that is not in use.               *)
LEMMA FirstPage ==
    ASSUME \E w \in kernel_pages : ~used(w), NEW v, v = first_page
    PROVE  /\ v \in kernel_pages /\ ~used(v)
           /\ v[1] \in KernelHalf /\ v[2] \in Entries
<1> DEFINE S == {w \in kernel_pages : ~used(w)}
           P == {position(w) : w \in S}
<1>1. \A w \in kernel_pages : w[1] \in KernelHalf /\ w[2] \in Entries
  BY DEF kernel_pages, KernelHalf
<1>2. \A w \in kernel_pages : position(w) \in Nat
  BY <1>1, Indices DEF position, KernelHalf, Entries
<1>3. P \in SUBSET Nat /\ P # {}
  BY <1>2
<1>4. PICK m \in P : \A n \in P : m <= n
  BY <1>3, LeastNat
<1>5. \E w \in S : \A u \in kernel_pages : ~used(u) => position(w) <= position(u)
  BY <1>4
<1>6. v \in S
  BY <1>5, Zenon DEF first_page
<1> QED BY <1>1, <1>6

(* A page of the kernel is in use if its table maps a frame of the pool.   *)
LEMMA UsedPage ==
    ASSUME ShapeInv, DirsInv, NEW p \in KernelHalf, NEW q \in Entries,
           mem[table(p)][q] \in KernelFrames
    PROVE  used(<<p, q>>)
<1>1. frame(mem, page_dir, p, q) = mem[table(p)][q] /\ page_dir \in dirs
  <2>1. mem[page_dir][p] = table(p) /\ page_dir \in dirs
    BY DEF ShapeInv, DirsInv
  <2>2. table(p) # NONE
    BY KernelTables, FrameKinds
  <2> QED BY <2>1, <2>2 DEF frame
<1> QED BY <1>1 DEF used

-----------------------------------------------------------------------------
(* The kernel maps the frame f at its page <<p, q>>: as a page for data,   *)
(* or as a new directory.                                                  *)
NewDir(m, f) ==
    /\ m[f][E - 1] = f /\ \A s \in KernelHalf : m[f][s] = table(s)
    /\ \A r \in UserHalf : m[f][r] = NONE

LEMMA MapKernel ==
    ASSUME PagingInv, NEW p \in KernelHalf, NEW q \in Entries, NEW f \in free_k,
           mem[table(p)][q] = NONE,
           DOMAIN mem' = Frames, \A g \in Frames : DOMAIN mem'[g] = Entries,
           \A g \in Frames : g # table(p) /\ g # f => mem'[g] = mem[g],
           \A i \in Entries : i # q => mem'[table(p)][i] = mem[table(p)][i],
           mem'[table(p)][q] = f,
           free_k' = free_k \ {f}, free_u' = free_u, cr3' = cr3, panic' = panic,
           dirs' = dirs \/ (dirs' = dirs \cup {f} /\ NewDir(mem', f))
    PROVE  PagingInv'
<1>1. ShapeInv /\ DirsInv /\ TablesInv /\ KernelMapInv /\ UserMapInv /\ CleanInv
  BY DEF PagingInv
<1>2. /\ table(p) \in BootFrames /\ table(p) # page_dir /\ table(p) \in Frames
      /\ \A s \in KernelHalf : table(s) = table(p) => s = p
  BY KernelTables, FrameKinds
<1>3. f \in KernelFrames /\ f \in Frames /\ f # page_dir /\ f # NONE /\ f # table(p)
  BY <1>1, <1>2, FrameKinds DEF ShapeInv
<1>4. ASSUME NEW d \in dirs PROVE d \in Frames /\ d # f /\ mem'[d] = mem[d]
  <2>1. d = page_dir \/ (d \in KernelFrames /\ d \notin free_k)
    BY <1>1 DEF ShapeInv
  <2> QED BY <1>2, <1>3, <2>1, FrameKinds
<1>5. ASSUME NEW d \in Procs, NEW r \in UserHalf, mem[d][r] # NONE
      PROVE  /\ mem[d][r] \in KernelFrames \ (free_k \cup dirs) /\ mem[d][r] # f
             /\ mem'[mem[d][r]] = mem[mem[d][r]]
  <2>1. mem[d][r] \in KernelFrames \ (free_k \cup dirs)
    BY <1>1, <1>5 DEF TablesInv
  <2> QED BY <1>2, <2>1, FrameKinds
<1>6. ASSUME NEW s \in KernelHalf, NEW u \in Entries, s # p \/ u # q
      PROVE  mem'[table(s)][u] = mem[table(s)][u]
  <2>1. CASE s = p
    BY <1>6, <2>1
  <2>2. CASE s # p
    <3>1. table(s) \in Frames /\ table(s) # table(p) /\ table(s) # f
      BY <1>2, <1>3, <2>2, KernelTables, FrameKinds
    <3> QED BY <3>1
  <2> QED BY <2>1, <2>2
<1>7. \A d \in dirs' : d \in dirs \/ (d = f /\ NewDir(mem', f))
  OBVIOUS
<1>8. \A d \in Procs' : d \in Procs \/ (d = f /\ NewDir(mem', f))
  BY <1>7 DEF Procs
<1>9. ShapeInv'
  BY <1>1, <1>3 DEF ShapeInv
<1>10. DirsInv'
  BY <1>1, <1>4, <1>7 DEF DirsInv, NewDir
<1>11. ASSUME NEW d \in Procs', NEW r \in UserHalf, mem'[d][r] # NONE
       PROVE  d \in Procs /\ d \in dirs /\ mem'[d] = mem[d] /\ mem[d][r] # NONE
  BY <1>4, <1>8, <1>11 DEF NewDir, Procs
<1>12. TablesInv'
  <2>1. \A r \in UserHalf : mem'[page_dir][r] \in {NONE, table(K)}
    BY <1>1, <1>4 DEF TablesInv, ShapeInv
  <2>2. ASSUME NEW d \in Procs', NEW r \in UserHalf, mem'[d][r] # NONE
        PROVE  /\ mem'[d][r] \in KernelFrames \ (free_k' \cup dirs')
               /\ \A c \in Procs', s \in UserHalf : mem'[c][s] = mem'[d][r] => c = d /\ s = r
    <3>1. d \in Procs /\ mem'[d] = mem[d] /\ mem[d][r] # NONE
      BY <1>11, <2>2
    <3>2. mem[d][r] \in KernelFrames \ (free_k \cup dirs) /\ mem[d][r] # f
      BY <1>5, <3>1
    <3>3. mem'[d][r] \in KernelFrames \ (free_k' \cup dirs')
      BY <1>7, <3>1, <3>2
    <3>4. ASSUME NEW c \in Procs', NEW s \in UserHalf, mem'[c][s] = mem'[d][r]
          PROVE  c = d /\ s = r
      <4>1. c \in Procs /\ mem'[c] = mem[c]
        BY <1>11, <2>2, <3>4
      <4> QED BY <1>1, <3>1, <3>4, <4>1 DEF TablesInv
    <3> QED BY <3>3, <3>4
  <2> QED BY <2>1, <2>2, Zenon DEF TablesInv
<1>13. KernelMapInv'
  <2>1. ASSUME NEW s \in KernelHalf, NEW u \in Entries
        PROVE  mem'[table(s)][u] \notin UserFrames
    BY <1>1, <1>3, <1>6, FrameKinds DEF KernelMapInv
  <2>2. ASSUME NEW s \in KernelHalf, NEW u \in Entries, mem'[table(s)][u] \in KernelFrames
        PROVE  /\ mem'[table(s)][u] \notin free_k'
               /\ \A d \in Procs', r \in UserHalf : mem'[d][r] # mem'[table(s)][u]
               /\ \A s2 \in KernelHalf, u2 \in Entries :
                    mem'[table(s2)][u2] = mem'[table(s)][u] => s2 = s /\ u2 = u
    <3>1. mem'[table(s)][u] # NONE
      BY <2>2, FrameKinds
    <3>2. ASSUME NEW s2 \in KernelHalf, NEW u2 \in Entries, s2 # p \/ u2 # q
          PROVE  mem'[table(s2)][u2] # f
      BY <1>1, <1>3, <1>6, <3>2 DEF KernelMapInv
    <3>3. CASE s = p /\ u = q
      <4>1. \A d \in Procs', r \in UserHalf : mem'[d][r] # f
        BY <1>3, <1>5, <1>11
      <4> QED BY <3>2, <3>3, <4>1
    <3>4. CASE s # p \/ u # q
      <4>1. mem'[table(s)][u] = mem[table(s)][u] /\ mem[table(s)][u] # f
        BY <1>6, <3>2, <3>4
      <4>2. mem[table(s)][u] \notin free_k
        BY <1>1, <2>2, <4>1 DEF KernelMapInv
      <4>3. \A d \in Procs', r \in UserHalf : mem'[d][r] # mem'[table(s)][u]
        BY <1>1, <1>11, <2>2, <3>1, <4>1 DEF KernelMapInv
      <4>4. ASSUME NEW s2 \in KernelHalf, NEW u2 \in Entries,
                   mem'[table(s2)][u2] = mem'[table(s)][u]
            PROVE  s2 = s /\ u2 = u
        <5>1. s2 # p \/ u2 # q
          BY <4>1, <4>4
        <5>2. mem'[table(s2)][u2] = mem[table(s2)][u2]
          BY <1>6, <5>1
        <5>3. mem[table(s2)][u2] = mem[table(s)][u] /\ mem[table(s)][u] \in KernelFrames
          BY <2>2, <4>1, <4>4, <5>2, Zenon
        <5> QED BY <1>1, <5>3 DEF KernelMapInv
      <4> QED BY <4>1, <4>2, <4>3, <4>4
    <3> QED BY <3>3, <3>4
  <2> QED BY <2>1, <2>2, Zenon DEF KernelMapInv
<1>14. UserMapInv'
  <2>1. ASSUME NEW d \in Procs', NEW r \in UserHalf, NEW i \in Entries,
               mem'[d][r] # NONE, mem'[mem'[d][r]][i] # NONE
        PROVE  /\ mem'[mem'[d][r]][i] \in UserFrames \ free_u'
               /\ \A c \in Procs', s \in UserHalf, j \in Entries :
                    mem'[c][s] # NONE /\ mem'[mem'[c][s]][j] = mem'[mem'[d][r]][i]
                      => c = d /\ s = r /\ j = i
    <3>1. ASSUME NEW c \in Procs', NEW s \in UserHalf, mem'[c][s] # NONE
          PROVE  c \in Procs /\ mem'[c][s] = mem[c][s] /\ mem'[mem'[c][s]] = mem[mem[c][s]]
      BY <1>5, <1>11, <3>1
    <3>2. d \in Procs /\ mem'[d][r] = mem[d][r] /\ mem'[mem'[d][r]] = mem[mem[d][r]]
      BY <2>1, <3>1
    <3>3. mem'[mem'[d][r]][i] \in UserFrames \ free_u'
      BY <1>1, <2>1, <3>2 DEF UserMapInv
    <3>4. ASSUME NEW c \in Procs', NEW s \in UserHalf, NEW j \in Entries,
                 mem'[c][s] # NONE, mem'[mem'[c][s]][j] = mem'[mem'[d][r]][i]
          PROVE  c = d /\ s = r /\ j = i
      <4>1. c \in Procs /\ mem'[c][s] = mem[c][s] /\ mem'[mem'[c][s]] = mem[mem[c][s]]
        BY <3>1, <3>4
      <4> QED BY <1>1, <2>1, <3>2, <3>4, <4>1 DEF UserMapInv
    <3> QED BY <3>3, <3>4
  <2> QED BY <2>1 DEF UserMapInv
<1>15. CleanInv'
  <2> SUFFICES ASSUME ~Dirty, NEW v \in kernel_pages
               PROVE  mem'[table(v[1])][v[2]] \in KernelFrames \cup {NONE}
    BY <1>1 DEF CleanInv
  <2>1. v[1] \in KernelHalf /\ v[2] \in Entries
    BY DEF kernel_pages, KernelHalf
  <2>2. mem[table(v[1])][v[2]] \in KernelFrames \cup {NONE}
    BY <1>1 DEF CleanInv
  <2> QED BY <1>3, <1>6, <2>1, <2>2
<1> QED BY <1>9, <1>10, <1>12, <1>13, <1>14, <1>15 DEF PagingInv

(* page_table_add where the entry has a table: no other is needed.         *)
LEMMA AddToTable ==
    ASSUME PagingInv, NEW p \in Entries, NEW q \in Entries, NEW f, NEW t, NEW T,
           T = mem[cr3][p], T # NONE
    PROVE  /\ page_table_add(mem, cr3, p, q, f, t) = Word(mem, T, q, f)
           /\ new_tables(mem, cr3, p, t) = {}
           /\ pte_repeat(mem, cr3, p, q, t) <=> mem[T][q] # NONE
<1>1. mem[cr3][E - 1] = cr3 /\ cr3 \in Frames
  BY FrameKinds DEF PagingInv, ShapeInv, DirsInv
<1>2. SelfMapped(mem, cr3)
  BY <1>1, FrameKinds DEF SelfMapped
<1>3. /\ load(mem, cr3, pde_ptr(p)) = mem[cr3][p]
      /\ load(mem, cr3, pte_ptr(p, q)) = mem[mem[cr3][p]][q]
      /\ store(mem, cr3, pte_ptr(p, q), f) = Word(mem, mem[cr3][p], q, f)
  BY <1>2, Reach
<1>4. with_table(mem, cr3, p, t) = mem /\ new_tables(mem, cr3, p, t) = {}
  BY <1>3, Zenon DEF with_table, new_tables
<1>5. page_table_add(mem, cr3, p, q, f, t) = Word(mem, T, q, f)
  BY <1>3, <1>4, Zenon DEF page_table_add
<1>6. pte_repeat(mem, cr3, p, q, t) <=> mem[T][q] # NONE
  BY <1>3, <1>4, Zenon DEF pte_repeat
<1> QED BY <1>4, <1>5, <1>6, Zenon

(* The kernel's entries all have one.                                      *)
LEMMA KernelAdd ==
    ASSUME PagingInv, NEW p \in KernelHalf, NEW q \in Entries, NEW f, NEW t
    PROVE  /\ page_table_add(mem, cr3, p, q, f, t) = Word(mem, table(p), q, f)
           /\ new_tables(mem, cr3, p, t) = {}
           /\ pte_repeat(mem, cr3, p, q, t) <=> mem[table(p)][q] # NONE
<1>1. mem[cr3][p] = table(p) /\ p \in Entries
  BY Indices DEF PagingInv, ShapeInv, DirsInv
<1>2. table(p) # NONE
  BY FrameKinds, KernelTables
<1> QED BY <1>1, <1>2, AddToTable

(* The machine stops only when a table holds stale entries.                *)
LEMMA StopStep ==
    ASSUME PagingInv, stop, Dirty
    PROVE  PagingInv'
<1>1. UNCHANGED <<mem, free_k, free_u, cr3, dirs>>
  BY DEF stop
<1> QED BY <1>1 DEF PagingInv, ShapeInv, DirsInv, TablesInv, KernelMapInv, UserMapInv,
                    CleanInv, Procs

LEMMA FreshPage ==
    ASSUME PagingInv, \E w \in kernel_pages : ~used(w), NEW v, v = first_page, NEW t,
           ~Dirty
    PROVE  ~pte_repeat(mem, cr3, v[1], v[2], t)
<1>1. v \in kernel_pages /\ ~used(v) /\ v[1] \in KernelHalf /\ v[2] \in Entries
  BY FirstPage
<1>2. v = <<v[1], v[2]>>
  BY <1>1 DEF kernel_pages
<1>3. mem[table(v[1])][v[2]] \in KernelFrames \cup {NONE}
  BY <1>1 DEF PagingInv, CleanInv
<1>4. ShapeInv /\ DirsInv
  BY DEF PagingInv
<1>5. mem[table(v[1])][v[2]] \notin KernelFrames
  BY <1>1, <1>2, <1>4, UsedPage, Zenon
<1> QED BY <1>1, <1>3, <1>5, KernelAdd

LEMMA KernelPageStep ==
    ASSUME PagingInv, NEW f, NEW t, get_kernel_page(f, t)
    PROVE  PagingInv'
<1> DEFINE v == first_page
           p == v[1]
           q == v[2]
<1>1. f \in free_k /\ \E w \in kernel_pages : ~used(w)
  BY DEF get_kernel_page
<1>2. IF pte_repeat(mem, cr3, p, q, t) THEN stop
      ELSE /\ mem' = [page_table_add(mem, cr3, p, q, f, t) EXCEPT ![f] = Junk]
           /\ free_k' = free_k \ ({f} \cup new_tables(mem, cr3, p, t))
           /\ UNCHANGED <<free_u, cr3, dirs, panic>>
  BY DEF get_kernel_page
<1>3. p \in KernelHalf /\ q \in Entries
  BY <1>1, FirstPage
<1>4. Dirty \/ ~pte_repeat(mem, cr3, p, q, t)
  BY <1>1, FreshPage
<1> HIDE DEF v, p, q
<1>5. CASE pte_repeat(mem, cr3, p, q, t)
  BY <1>2, <1>4, <1>5, StopStep
<1>6. CASE ~pte_repeat(mem, cr3, p, q, t)
  <2> DEFINE w == Word(mem, table(p), q, f)
  <2>1. /\ page_table_add(mem, cr3, p, q, f, t) = w /\ new_tables(mem, cr3, p, t) = {}
        /\ mem[table(p)][q] = NONE
    BY <1>3, <1>6, KernelAdd
  <2> HIDE DEF w
  <2>2. /\ mem' = Whole(w, f, Junk) /\ free_k' = free_k \ {f}
        /\ free_u' = free_u /\ cr3' = cr3 /\ dirs' = dirs /\ panic' = panic
    BY <1>2, <1>6, <2>1 DEF Whole
  <2>3. /\ DOMAIN mem = Frames /\ \A g \in Frames : DOMAIN mem[g] = Entries
        /\ f \in KernelFrames
    BY <1>1 DEF PagingInv, ShapeInv
  <2>4. table(p) \in Frames /\ f \in Frames /\ f # table(p)
    BY <1>3, <2>3, KernelTables, FrameKinds
  <2>5. /\ DOMAIN w = Frames /\ \A g \in Frames : DOMAIN w[g] = Entries
        /\ \A g \in Frames : g # table(p) => w[g] = mem[g]
        /\ \A i \in Entries : i # q => w[table(p)][i] = mem[table(p)][i]
        /\ w[table(p)][q] = f
    BY <1>3, <2>3, <2>4, WordWritten DEF w
  <2>6. DOMAIN Junk = Entries
    BY DEF Junk
  <2>7. /\ DOMAIN mem' = Frames /\ \A g \in Frames : DOMAIN mem'[g] = Entries
        /\ \A g \in Frames : g # f => mem'[g] = w[g]
    BY <2>2, <2>4, <2>5, <2>6, WholeWritten
  <2>8. /\ \A g \in Frames : g # table(p) /\ g # f => mem'[g] = mem[g]
        /\ mem'[table(p)] = w[table(p)]
    BY <2>4, <2>5, <2>7
  <2> QED BY <1>1, <1>3, <2>1, <2>2, <2>5, <2>7, <2>8, MapKernel
<1> QED BY <1>5, <1>6

LEMMA CreateDirStep ==
    ASSUME PagingInv, NEW f, NEW t, create_page_dir(f, t)
    PROVE  PagingInv'
<1> DEFINE v == first_page
           p == v[1]
           q == v[2]
<1>1. f \in free_k /\ \E w \in kernel_pages : ~used(w)
  BY DEF create_page_dir
<1>2. IF pte_repeat(mem, cr3, p, q, t) THEN stop
      ELSE /\ mem' = own_last_entry(kernel_half(page_table_add(mem, cr3, p, q, f, t), v), v)
           /\ free_k' = free_k \ ({f} \cup new_tables(mem, cr3, p, t))
           /\ dirs' = dirs \cup {f}
           /\ UNCHANGED <<free_u, cr3, panic>>
  BY DEF create_page_dir
<1>3. p \in KernelHalf /\ q \in Entries
  BY <1>1, FirstPage
<1>4. Dirty \/ ~pte_repeat(mem, cr3, p, q, t)
  BY <1>1, FreshPage
<1>5. v[1] = p /\ v[2] = q
  OBVIOUS
<1> HIDE DEF v, p, q
<1>6. CASE pte_repeat(mem, cr3, p, q, t)
  BY <1>2, <1>4, <1>6, StopStep
<1>7. CASE ~pte_repeat(mem, cr3, p, q, t)
  <2> DEFINE w == Word(mem, table(p), q, f)
             half == [i \in Entries |-> IF i >= K THEN w[cr3][i] ELSE NONE]
             u == Whole(w, f, half)
  <2>1. /\ page_table_add(mem, cr3, p, q, f, t) = w /\ new_tables(mem, cr3, p, t) = {}
        /\ mem[table(p)][q] = NONE
    BY <1>3, <1>7, KernelAdd
  <2>2. /\ DOMAIN mem = Frames /\ \A g \in Frames : DOMAIN mem[g] = Entries
        /\ f \in KernelFrames /\ cr3 \in Frames /\ cr3 # table(p) /\ cr3 # f
        /\ mem[cr3][E - 1] = cr3 /\ \A s \in KernelHalf : mem[cr3][s] = table(s)
    <3>1. cr3 = page_dir \/ (cr3 \in KernelFrames /\ cr3 \notin free_k)
      BY DEF PagingInv, ShapeInv
    <3>2. cr3 \in Frames /\ cr3 # table(p) /\ cr3 # f
      BY <1>1, <1>3, <3>1, KernelTables, FrameKinds DEF PagingInv, ShapeInv
    <3> QED BY <1>1, <3>2 DEF PagingInv, ShapeInv, DirsInv
  <2>3. /\ table(p) \in Frames /\ f \in Frames /\ f # table(p) /\ f # NONE
        /\ table(p) # NONE /\ cr3 # NONE
    BY <1>3, <2>2, KernelTables, FrameKinds
  <2> HIDE DEF w
  <2>4. /\ DOMAIN w = Frames /\ \A g \in Frames : DOMAIN w[g] = Entries
        /\ \A g \in Frames : g # table(p) => w[g] = mem[g]
        /\ \A i \in Entries : i # q => w[table(p)][i] = mem[table(p)][i]
        /\ w[table(p)][q] = f
    BY <1>3, <2>2, <2>3, WordWritten DEF w
  <2>5. w[cr3] = mem[cr3] /\ w[cr3][p] = table(p) /\ w[cr3][E - 1] = cr3
    BY <1>3, <2>2, <2>4
  <2>6. frame(w, cr3, p, q) = f
    BY <2>3, <2>4, <2>5, Zenon DEF frame
  <2>7. \A i : load(w, cr3, pde_ptr(i)) = w[cr3][i]
    BY <2>3, <2>5 DEF load, pde_ptr, frame
  <2>8. kernel_half(w, v) = u
    <3>1. frame(w, cr3, v[1], v[2]) = f
      BY <1>5, <2>6, Zenon
    <3>2. [i \in Entries |-> IF i >= K THEN load(w, cr3, pde_ptr(i)) ELSE NONE] = half
      BY <2>7
    <3>3. kernel_half(w, v)
          = [w EXCEPT ![f] = [i \in Entries |-> IF i >= K THEN load(w, cr3, pde_ptr(i)) ELSE NONE]]
      BY <3>1, Zenon DEF kernel_half
    <3> QED BY <3>2, <3>3, Zenon DEF Whole
  <2>9. DOMAIN half = Entries
    OBVIOUS
  <2>10. /\ \A i \in KernelHalf : half[i] = table(i)
         /\ \A i \in UserHalf : half[i] = NONE
    <3>1. \A i \in KernelHalf : i \in Entries /\ i >= K
      BY Indices DEF KernelHalf
    <3>2. \A i \in UserHalf : i \in Entries /\ ~(i >= K)
      BY Indices DEF UserHalf
    <3> QED BY <2>2, <2>5, <3>1, <3>2
  <2> HIDE DEF half, u
  <2>11. /\ DOMAIN u = Frames /\ \A g \in Frames : DOMAIN u[g] = Entries
         /\ \A g \in Frames : g # f => u[g] = w[g]
         /\ u[f] = half
    BY <2>3, <2>4, <2>9, WholeWritten DEF u
  <2>12. u[cr3] = w[cr3] /\ u[table(p)] = w[table(p)]
    BY <2>2, <2>3, <2>11
  <2>13. own_last_entry(u, v) = Word(u, f, E - 1, f)
    <3>1. frame(u, cr3, p, q) = f
      BY <2>3, <2>4, <2>5, <2>12, Zenon DEF frame
    <3>2. addr_v2p(u, cr3, p, q) = f
      <4>1. load(u, cr3, pte_ptr(p, q)) = u[u[cr3][p]][q]
        BY <2>3, <2>5, <2>12 DEF load, pte_ptr, frame
      <4> QED BY <2>4, <2>5, <2>12, <4>1, Zenon DEF addr_v2p
    <3> DEFINE a == <<v[1], v[2], E - 1>>
    <3>3. a[1] = p /\ a[2] = q /\ a[3] = E - 1
      BY <1>5
    <3>4. own_last_entry(u, v) = store(u, cr3, a, f)
      BY <1>5, <3>2, Zenon DEF own_last_entry
    <3> HIDE DEF a
    <3> QED BY <3>1, <3>3, <3>4, Zenon DEF store, Word
  <2>14. mem' = Word(u, f, E - 1, f)
    BY <1>2, <1>7, <2>1, <2>8, <2>13, Zenon
  <2>15. /\ DOMAIN mem' = Frames /\ \A g \in Frames : DOMAIN mem'[g] = Entries
         /\ \A g \in Frames : g # f => mem'[g] = u[g]
         /\ \A i \in Entries : i # E - 1 => mem'[f][i] = u[f][i]
         /\ mem'[f][E - 1] = f
    BY <2>3, <2>11, <2>14, Indices, WordWritten
  <2>16. /\ \A g \in Frames : g # table(p) /\ g # f => mem'[g] = mem[g]
         /\ mem'[table(p)] = w[table(p)]
    BY <2>3, <2>4, <2>11, <2>15
  <2>17. NewDir(mem', f)
    <3>1. \A i \in KernelHalf \cup UserHalf : i \in Entries /\ i # E - 1
      BY Indices
    <3> QED BY <2>10, <2>11, <2>15, <3>1 DEF NewDir
  <2>18. /\ free_k' = free_k \ {f} /\ free_u' = free_u /\ cr3' = cr3 /\ panic' = panic
         /\ dirs' = dirs \cup {f}
    BY <1>2, <1>7, <2>1
  <2> QED BY <1>1, <1>3, <2>1, <2>4, <2>15, <2>16, <2>17, <2>18, MapKernel
<1> QED BY <1>6, <1>7

-----------------------------------------------------------------------------
(* A process maps the frame f at its page <<p, q>>; the table T is the one *)
(* of its entry, or a new one.                                             *)
LEMMA MapUser ==
    ASSUME PagingInv, cr3 \in Procs, NEW p \in UserHalf, NEW q \in Entries,
           NEW f \in free_u, NEW T,
           \/ mem[cr3][p] = T /\ T # NONE /\ mem[T][q] = NONE /\ free_k' = free_k
           \/ mem[cr3][p] = NONE /\ T \in free_k /\ free_k' = free_k \ {T},
           DOMAIN mem' = Frames, \A g \in Frames : DOMAIN mem'[g] = Entries,
           \A g \in Frames : g # cr3 /\ g # T /\ g # f => mem'[g] = mem[g],
           \A i \in Entries : i # p => mem'[cr3][i] = mem[cr3][i],
           mem'[cr3][p] = T, mem'[T][q] = f,
           \A i \in Entries : i # q =>
             mem'[T][i] = NONE \/ (mem[cr3][p] = T /\ mem'[T][i] = mem[T][i]),
           free_u' = free_u \ {f}, cr3' = cr3, panic' = panic, dirs' = dirs
    PROVE  PagingInv'
<1>1. ShapeInv /\ DirsInv /\ TablesInv /\ KernelMapInv /\ UserMapInv /\ CleanInv
  BY DEF PagingInv
<1>2. /\ f \in UserFrames /\ f \notin KernelFrames /\ f \notin BootFrames
      /\ cr3 \in KernelFrames /\ cr3 \notin free_k /\ cr3 \in dirs /\ cr3 # page_dir
      /\ Procs' = Procs
  BY <1>1, FrameKinds DEF ShapeInv, Procs
<1>3. /\ T \in KernelFrames /\ T \notin free_k' /\ T \notin dirs /\ T # cr3 /\ T # f
      /\ T # NONE /\ T \notin BootFrames
  <2>1. T \in KernelFrames /\ T \notin free_k' /\ T \notin dirs
    <3>1. CASE mem[cr3][p] = T /\ T # NONE /\ free_k' = free_k
      BY <1>1, <3>1 DEF TablesInv
    <3>2. CASE T \in free_k /\ free_k' = free_k \ {T}
      <4>1. T \in KernelFrames /\ T # page_dir
        BY <1>1, <3>2, FrameKinds DEF ShapeInv
      <4> QED BY <1>1, <3>2, <4>1 DEF ShapeInv
    <3> QED BY <3>1, <3>2
  <2> QED BY <1>2, <2>1, FrameKinds
<1>4. \A d \in dirs : d # cr3 => d # f /\ d # T /\ mem'[d] = mem[d]
  <2>1. ASSUME NEW d \in dirs, d # cr3 PROVE d \in Frames /\ d # f /\ d # T
    BY <1>1, <1>2, <1>3, FrameKinds DEF ShapeInv
  <2> QED BY <2>1
<1>5. \A s \in KernelHalf : mem'[table(s)] = mem[table(s)]
  <2>1. ASSUME NEW s \in KernelHalf
        PROVE  table(s) \in Frames /\ table(s) # f /\ table(s) # T /\ table(s) # cr3
    BY <1>2, <1>3, KernelTables, FrameKinds
  <2> QED BY <2>1
<1>6. ASSUME NEW d \in Procs, NEW r \in UserHalf, d # cr3 \/ r # p
      PROVE  mem'[d][r] = mem[d][r]
  <2>1. d \in dirs /\ r \in Entries
    BY Indices DEF Procs
  <2> QED BY <1>4, <1>6, <2>1
<1>7. ASSUME NEW d \in Procs, NEW r \in UserHalf, d # cr3 \/ r # p, mem'[d][r] # NONE
      PROVE  /\ mem[d][r] \in KernelFrames \ (free_k \cup dirs) /\ mem[d][r] # T
             /\ mem[d][r] # f /\ mem'[mem[d][r]] = mem[mem[d][r]]
  <2>1. mem'[d][r] = mem[d][r]
    BY <1>6, <1>7
  <2>2. mem[d][r] \in KernelFrames \ (free_k \cup dirs)
    BY <1>1, <1>7, <2>1 DEF TablesInv
  <2>3. mem[d][r] # T
    BY <1>1, <1>7, <2>1, <2>2 DEF TablesInv
  <2> QED BY <1>2, <2>2, <2>3, FrameKinds
<1>8. ShapeInv'
  BY <1>1, <1>2 DEF ShapeInv
<1>9. DirsInv'
  <2>1. E - 1 \in Entries /\ E - 1 # p /\ \A s \in KernelHalf : s \in Entries /\ s # p
    BY Indices
  <2>2. ASSUME NEW d \in dirs, NEW i \in Entries, i # p PROVE mem'[d][i] = mem[d][i]
    BY <1>4, <2>2
  <2> QED BY <1>1, <2>1, <2>2 DEF DirsInv
<1>10. TablesInv'
  <2>1. \A r \in UserHalf : mem'[page_dir][r] \in {NONE, table(K)}
    BY <1>1, <1>2, <1>4 DEF TablesInv, ShapeInv
  <2>2. ASSUME NEW d \in Procs, NEW r \in UserHalf, mem'[d][r] # NONE
        PROVE  /\ mem'[d][r] \in KernelFrames \ (free_k' \cup dirs)
               /\ \A c \in Procs, s \in UserHalf : mem'[c][s] = mem'[d][r] => c = d /\ s = r
    <3>1. CASE d = cr3 /\ r = p
      <4>1. \A c \in Procs, s \in UserHalf : mem'[c][s] = T => c = d /\ s = r
        BY <1>3, <1>6, <1>7, <3>1
      <4> QED BY <1>3, <3>1, <4>1
    <3>2. CASE d # cr3 \/ r # p
      <4>1. mem'[d][r] = mem[d][r] /\ mem[d][r] \in KernelFrames \ (free_k' \cup dirs)
        BY <1>6, <1>7, <2>2, <3>2
      <4>2. ASSUME NEW c \in Procs, NEW s \in UserHalf, mem'[c][s] = mem'[d][r]
            PROVE  c = d /\ s = r
        <5>1. c # cr3 \/ s # p
          BY <1>7, <2>2, <3>2, <4>1, <4>2
        <5>2. mem[c][s] = mem[d][r] /\ mem[d][r] # NONE
          BY <1>6, <2>2, <4>1, <4>2, <5>1
        <5> QED BY <1>1, <5>2 DEF TablesInv
      <4> QED BY <4>1, <4>2
    <3> QED BY <3>1, <3>2
  <2> QED BY <1>2, <2>1, <2>2 DEF TablesInv
<1>11. KernelMapInv'
  <2>1. ASSUME NEW s \in KernelHalf, NEW u \in Entries, mem[table(s)][u] \in KernelFrames,
               NEW d \in Procs, NEW r \in UserHalf
        PROVE  mem'[d][r] # mem[table(s)][u]
    <3>1. mem[table(s)][u] \notin free_k /\ mem[d][r] # mem[table(s)][u]
      BY <1>1, <2>1 DEF KernelMapInv
    <3> QED BY <1>6, <3>1
  <2>2. free_k' \subseteq free_k
    OBVIOUS
  <2>3. ASSUME NEW s \in KernelHalf, NEW u \in Entries
        PROVE  mem'[table(s)][u] \notin UserFrames
    BY <1>1, <1>5 DEF KernelMapInv
  <2>4. ASSUME NEW s \in KernelHalf, NEW u \in Entries, mem'[table(s)][u] \in KernelFrames
        PROVE  /\ mem'[table(s)][u] \notin free_k'
               /\ \A d \in Procs, r \in UserHalf : mem'[d][r] # mem'[table(s)][u]
               /\ \A s2 \in KernelHalf, u2 \in Entries :
                    mem'[table(s2)][u2] = mem'[table(s)][u] => s2 = s /\ u2 = u
    BY <1>1, <1>5, <2>1, <2>2, <2>4 DEF KernelMapInv
  <2> QED BY <1>2, <2>3, <2>4 DEF KernelMapInv
<1>12. UserMapInv'
  <2>1. ASSUME NEW d \in Procs, NEW r \in UserHalf, NEW i \in Entries,
               mem'[d][r] # NONE, mem'[mem'[d][r]][i] # NONE, ~(d = cr3 /\ r = p /\ i = q)
        PROVE  /\ mem[d][r] # NONE /\ mem'[mem'[d][r]][i] = mem[mem[d][r]][i]
               /\ mem[mem[d][r]][i] \in UserFrames \ free_u
    <3>1. mem[d][r] # NONE /\ mem'[mem'[d][r]][i] = mem[mem[d][r]][i]
      <4>1. CASE d = cr3 /\ r = p
        BY <1>3, <2>1, <4>1
      <4>2. CASE d # cr3 \/ r # p
        BY <1>6, <1>7, <2>1, <4>2
      <4> QED BY <4>1, <4>2
    <3> QED BY <1>1, <2>1, <3>1 DEF UserMapInv
  <2>2. mem'[mem'[cr3][p]][q] = f
    OBVIOUS
  <2>3. ASSUME NEW d \in Procs, NEW r \in UserHalf, NEW i \in Entries,
               mem'[d][r] # NONE, mem'[mem'[d][r]][i] # NONE
        PROVE  mem'[mem'[d][r]][i] \in UserFrames \ free_u'
    BY <1>2, <2>1, <2>2, <2>3
  <2>4. ASSUME NEW d \in Procs, NEW r \in UserHalf, NEW i \in Entries,
               mem'[d][r] # NONE, mem'[mem'[d][r]][i] # NONE,
               NEW c \in Procs, NEW s \in UserHalf, NEW j \in Entries,
               mem'[c][s] # NONE, mem'[mem'[c][s]][j] = mem'[mem'[d][r]][i]
        PROVE  c = d /\ s = r /\ j = i
    <3>1. f \in free_u
      OBVIOUS
    <3>2. CASE d = cr3 /\ r = p /\ i = q
      BY <2>1, <2>2, <2>4, <3>1, <3>2
    <3>3. CASE ~(d = cr3 /\ r = p /\ i = q)
      <4>1. ~(c = cr3 /\ s = p /\ j = q)
        BY <2>1, <2>2, <2>4, <3>1, <3>3
      <4>2. /\ mem[d][r] # NONE /\ mem[mem[d][r]][i] # NONE
            /\ mem[c][s] # NONE /\ mem[mem[c][s]][j] = mem[mem[d][r]][i]
        BY <2>1, <2>4, <3>3, <4>1
      <4> QED BY <1>1, <4>2 DEF UserMapInv
    <3> QED BY <3>2, <3>3
  <2> QED BY <1>2, <2>3, <2>4 DEF UserMapInv
<1>13. CleanInv'
  <2>1. \A v \in kernel_pages : v[1] \in KernelHalf
    BY DEF kernel_pages, KernelHalf
  <2> QED BY <1>1, <1>5, <2>1 DEF CleanInv
<1> QED BY <1>8, <1>9, <1>10, <1>11, <1>12, <1>13 DEF PagingInv

(* page_table_add of a process whose entry has no table: the new one is    *)
(* cleared before it gets its first entry.                                 *)
LEMMA AddWithTable ==
    ASSUME PagingInv, NEW p \in UserHalf, NEW q \in Entries, NEW f,
           NEW t \in Frames, t # cr3, mem[cr3][p] = NONE
    PROVE  /\ page_table_add(mem, cr3, p, q, f, t)
              = Word(Whole(Word(mem, cr3, p, t), t, Cleared), t, q, f)
           /\ new_tables(mem, cr3, p, t) = {t}
           /\ ~pte_repeat(mem, cr3, p, q, t)
<1> DEFINE m1 == Word(mem, cr3, p, t)
           m2 == Whole(m1, t, Cleared)
<1>1. /\ mem[cr3][E - 1] = cr3 /\ cr3 \in Frames
      /\ DOMAIN mem = Frames /\ \A g \in Frames : DOMAIN mem[g] = Entries
  BY FrameKinds DEF PagingInv, ShapeInv, DirsInv
<1>2. SelfMapped(mem, cr3) /\ cr3 # NONE /\ t # NONE
  BY <1>1, FrameKinds DEF SelfMapped
<1>3. load(mem, cr3, pde_ptr(p)) = NONE /\ store(mem, cr3, pde_ptr(p), t) = m1
  <2>1. load(mem, cr3, pde_ptr(p)) = mem[cr3][p]
    BY <1>2, Reach
  <2>2. store(mem, cr3, pde_ptr(p), t) = Word(mem, cr3, p, t)
    BY <1>2, Reach
  <2> QED BY <2>1, <2>2, Zenon
<1>4. p \in Entries /\ E - 1 \in Entries /\ E - 1 # p
  BY Indices
<1>5. DOMAIN Cleared = Entries /\ Cleared[q] = NONE
  BY DEF Cleared
<1> HIDE DEF m1
<1>6. /\ DOMAIN m1 = Frames /\ \A g \in Frames : DOMAIN m1[g] = Entries
      /\ m1[cr3][p] = t /\ m1[cr3][E - 1] = cr3
  BY <1>1, <1>4, WordWritten DEF m1
<1>7. frame(m1, cr3, E - 1, p) = t
  BY <1>2, <1>6 DEF frame
<1>8. with_table(mem, cr3, p, t) = m2 /\ new_tables(mem, cr3, p, t) = {t}
  <2>1. memset_page(m1, cr3, E - 1, p) = m2
    BY <1>7, Zenon DEF memset_page, Whole
  <2> HIDE DEF m2
  <2> QED BY <1>3, <2>1, Zenon DEF with_table, new_tables
<1> HIDE DEF m2
<1>9. m2[t] = Cleared /\ m2[cr3] = m1[cr3]
  BY <1>1, <1>5, <1>6, WholeWritten DEF m2
<1>10. frame(m2, cr3, E - 1, p) = t
  BY <1>2, <1>6, <1>9 DEF frame
<1>11. pte_ptr(p, q)[1] = E - 1 /\ pte_ptr(p, q)[2] = p /\ pte_ptr(p, q)[3] = q
  BY DEF pte_ptr
<1>12. load(m2, cr3, pte_ptr(p, q)) = NONE
  BY <1>5, <1>9, <1>10, <1>11, Zenon DEF load
<1>13. store(m2, cr3, pte_ptr(p, q), f) = Word(m2, t, q, f)
  BY <1>10, <1>11, Zenon DEF store, Word
<1>14. page_table_add(mem, cr3, p, q, f, t) = Word(m2, t, q, f)
  BY <1>8, <1>13, Zenon DEF page_table_add
<1>15. ~pte_repeat(mem, cr3, p, q, t)
  BY <1>8, <1>12, Zenon DEF pte_repeat
<1> QED BY <1>8, <1>14, <1>15, Zenon DEF m1, m2

LEMMA UserPageStep ==
    ASSUME PagingInv, NEW p \in UserHalf, NEW q \in Entries, NEW f, NEW t,
           get_user_page(p, q, f, t)
    PROVE  PagingInv'
<1>1. /\ cr3 # page_dir /\ f \in free_u /\ t \in free_k
      /\ frame(mem, cr3, p, q) = NONE
  BY DEF get_user_page
<1>2. ~pte_repeat(mem, cr3, p, q, t) =>
        /\ mem' = Whole(page_table_add(mem, cr3, p, q, f, t), f, Junk)
        /\ free_u' = free_u \ {f}
        /\ free_k' = free_k \ new_tables(mem, cr3, p, t)
        /\ cr3' = cr3 /\ dirs' = dirs /\ panic' = panic
  BY DEF get_user_page, Whole
<1>3. /\ DOMAIN mem = Frames /\ \A g \in Frames : DOMAIN mem[g] = Entries
      /\ cr3 \in Procs /\ cr3 \in KernelFrames /\ cr3 \notin free_k
      /\ f \in UserFrames /\ t \in KernelFrames
  BY <1>1 DEF PagingInv, ShapeInv, Procs
<1>4. /\ f \in Frames /\ t \in Frames /\ cr3 \in Frames /\ t # NONE
      /\ f # t /\ f # cr3 /\ t # cr3 /\ p \in Entries
  BY <1>1, <1>3, FrameKinds, Indices
<1>5. DOMAIN Junk = Entries /\ DOMAIN Cleared = Entries
  BY DEF Junk, Cleared
<1>6. CASE mem[cr3][p] # NONE
  <2> DEFINE T == mem[cr3][p]
             w == Word(mem, T, q, f)
  <2>1. T \in KernelFrames /\ T \notin dirs
    BY <1>3, <1>6 DEF PagingInv, TablesInv
  <2>2. T \in Frames /\ T # f /\ T # cr3 /\ T # NONE
    BY <1>3, <2>1, FrameKinds DEF PagingInv, ShapeInv
  <2>3. mem[T][q] = NONE
    BY <1>1, <1>6, Zenon DEF frame
  <2> HIDE DEF T
  <2>4. /\ page_table_add(mem, cr3, p, q, f, t) = w
        /\ new_tables(mem, cr3, p, t) = {} /\ ~pte_repeat(mem, cr3, p, q, t)
    BY <1>4, <2>2, <2>3, AddToTable DEF T
  <2> HIDE DEF w
  <2>5. mem' = Whole(w, f, Junk) /\ free_k' = free_k
    BY <1>2, <2>4
  <2>6. /\ DOMAIN w = Frames /\ \A g \in Frames : DOMAIN w[g] = Entries
        /\ \A g \in Frames : g # T => w[g] = mem[g]
        /\ \A i \in Entries : i # q => w[T][i] = mem[T][i]
        /\ w[T][q] = f
    BY <1>3, <2>2, WordWritten DEF w
  <2>7. /\ DOMAIN mem' = Frames /\ \A g \in Frames : DOMAIN mem'[g] = Entries
        /\ \A g \in Frames : g # f => mem'[g] = w[g]
    BY <1>4, <1>5, <2>5, <2>6, WholeWritten
  <2>8. /\ mem'[cr3] = mem[cr3] /\ mem'[T] = w[T]
        /\ \A g \in Frames : g # cr3 /\ g # T /\ g # f => mem'[g] = mem[g]
    BY <1>4, <2>2, <2>6, <2>7
  <2>9. mem[cr3][p] = T
    BY DEF T
  <2> QED BY <1>1, <1>2, <1>3, <2>2, <2>3, <2>4, <2>5, <2>6, <2>7, <2>8, <2>9, MapUser
<1>7. CASE mem[cr3][p] = NONE
  <2> DEFINE m1 == Word(mem, cr3, p, t)
             m2 == Whole(m1, t, Cleared)
             m3 == Word(m2, t, q, f)
  <2>1. /\ page_table_add(mem, cr3, p, q, f, t) = m3
        /\ new_tables(mem, cr3, p, t) = {t} /\ ~pte_repeat(mem, cr3, p, q, t)
    BY <1>4, <1>7, AddWithTable
  <2> HIDE DEF m1, m2, m3
  <2>2. mem' = Whole(m3, f, Junk) /\ free_k' = free_k \ {t}
    BY <1>2, <2>1
  <2>3. /\ DOMAIN m1 = Frames /\ \A g \in Frames : DOMAIN m1[g] = Entries
        /\ \A g \in Frames : g # cr3 => m1[g] = mem[g]
        /\ \A i \in Entries : i # p => m1[cr3][i] = mem[cr3][i]
        /\ m1[cr3][p] = t
    BY <1>3, <1>4, WordWritten DEF m1
  <2>4. /\ DOMAIN m2 = Frames /\ \A g \in Frames : DOMAIN m2[g] = Entries
        /\ \A g \in Frames : g # t => m2[g] = m1[g]
        /\ m2[t] = Cleared
    BY <1>4, <1>5, <2>3, WholeWritten DEF m2
  <2>5. /\ DOMAIN m3 = Frames /\ \A g \in Frames : DOMAIN m3[g] = Entries
        /\ \A g \in Frames : g # t => m3[g] = m2[g]
        /\ \A i \in Entries : i # q => m3[t][i] = m2[t][i]
        /\ m3[t][q] = f
    BY <1>4, <2>4, WordWritten DEF m3
  <2>6. /\ DOMAIN mem' = Frames /\ \A g \in Frames : DOMAIN mem'[g] = Entries
        /\ \A g \in Frames : g # f => mem'[g] = m3[g]
    BY <1>4, <1>5, <2>2, <2>5, WholeWritten
  <2>7. /\ mem'[cr3] = m1[cr3] /\ mem'[t] = m3[t]
        /\ \A g \in Frames : g # cr3 /\ g # t /\ g # f => mem'[g] = mem[g]
    BY <1>4, <2>3, <2>4, <2>5, <2>6
  <2>8. \A i \in Entries : i # q => mem'[t][i] = NONE
    BY <2>4, <2>5, <2>7 DEF Cleared
  <2> QED BY <1>1, <1>2, <1>3, <1>4, <1>7, <2>1, <2>2, <2>3, <2>5, <2>6, <2>7, <2>8, MapUser
<1> QED BY <1>6, <1>7

-----------------------------------------------------------------------------
(* mfree_page of a page of the kernel: the frame was mapped there only.    *)
LEMMA FreeKernel ==
    ASSUME PagingInv, NEW p \in KernelHalf, NEW q \in Entries, NEW f,
           f = mem[table(p)][q], f \in KernelFrames, f \notin dirs,
           DOMAIN mem' = Frames, \A g \in Frames : DOMAIN mem'[g] = Entries,
           \A g \in Frames : g # table(p) /\ g # f => mem'[g] = mem[g],
           \A i \in Entries : i # q => mem'[table(p)][i] = mem[table(p)][i],
           mem'[table(p)][q] = NONE,
           free_k' = free_k \cup {f}, free_u' = free_u, cr3' = cr3, panic' = panic,
           dirs' = dirs
    PROVE  PagingInv'
<1>1. ShapeInv /\ DirsInv /\ TablesInv /\ KernelMapInv /\ UserMapInv /\ CleanInv
  BY DEF PagingInv
<1>2. /\ table(p) \in BootFrames /\ table(p) # page_dir /\ table(p) \in Frames
      /\ Procs' = Procs /\ f \notin BootFrames
  BY KernelTables, FrameKinds DEF Procs
<1>3. \A d \in dirs : mem'[d] = mem[d]
  <2>1. ASSUME NEW d \in dirs PROVE d \in Frames /\ d # f /\ d # table(p)
    BY <1>1, <1>2, FrameKinds DEF ShapeInv
  <2> QED BY <2>1
<1>4. \A d \in Procs : mem'[d] = mem[d]
  BY <1>3 DEF Procs
<1>5. ASSUME NEW d \in Procs, NEW r \in UserHalf, mem[d][r] # NONE
      PROVE  /\ mem[d][r] \in KernelFrames \ (free_k \cup dirs) /\ mem[d][r] # f
             /\ mem'[mem[d][r]] = mem[mem[d][r]]
  <2>1. mem[d][r] \in KernelFrames \ (free_k \cup dirs)
    BY <1>1, <1>5 DEF TablesInv
  <2>2. mem[d][r] # f
    BY <1>1 DEF KernelMapInv
  <2> QED BY <1>2, <2>1, <2>2, FrameKinds
<1>6. ASSUME NEW s \in KernelHalf, NEW u \in Entries, s # p \/ u # q
      PROVE  mem'[table(s)][u] = mem[table(s)][u] /\ mem[table(s)][u] # f
  <2>1. mem'[table(s)][u] = mem[table(s)][u]
    <3>1. CASE s = p
      BY <1>6, <3>1
    <3>2. CASE s # p
      <4>1. table(s) \in Frames /\ table(s) # table(p) /\ table(s) # f
        BY <1>2, <3>2, KernelTables, FrameKinds
      <4> QED BY <4>1
    <3> QED BY <3>1, <3>2
  <2>2. mem[table(s)][u] # f
    BY <1>1, <1>6 DEF KernelMapInv
  <2> QED BY <2>1, <2>2
<1>7. ShapeInv'
  BY <1>1 DEF ShapeInv
<1>8. DirsInv'
  BY <1>1, <1>3 DEF DirsInv
<1>9. TablesInv'
  <2>1. \A r \in UserHalf : mem'[page_dir][r] \in {NONE, table(K)}
    BY <1>1, <1>3 DEF TablesInv, ShapeInv
  <2>2. ASSUME NEW d \in Procs, NEW r \in UserHalf, mem'[d][r] # NONE
        PROVE  /\ mem'[d][r] \in KernelFrames \ (free_k' \cup dirs)
               /\ \A c \in Procs, s \in UserHalf : mem'[c][s] = mem'[d][r] => c = d /\ s = r
    BY <1>1, <1>4, <1>5, <2>2 DEF TablesInv
  <2> QED BY <1>2, <2>1, <2>2 DEF TablesInv
<1>10. KernelMapInv'
  <2>1. mem'[table(p)][q] \notin KernelFrames /\ mem'[table(p)][q] \notin UserFrames
    BY FrameKinds
  <2>2. ASSUME NEW s \in KernelHalf, NEW u \in Entries
        PROVE  mem'[table(s)][u] \notin UserFrames
    BY <1>1, <1>6, <2>1 DEF KernelMapInv
  <2>3. ASSUME NEW s \in KernelHalf, NEW u \in Entries, mem'[table(s)][u] \in KernelFrames
        PROVE  /\ mem'[table(s)][u] \notin free_k'
               /\ \A d \in Procs, r \in UserHalf : mem'[d][r] # mem'[table(s)][u]
               /\ \A s2 \in KernelHalf, u2 \in Entries :
                    mem'[table(s2)][u2] = mem'[table(s)][u] => s2 = s /\ u2 = u
    <3>1. s # p \/ u # q
      BY <2>1, <2>3
    <3>2. mem'[table(s)][u] = mem[table(s)][u] /\ mem[table(s)][u] # f
      BY <1>6, <3>1
    <3>3. /\ mem[table(s)][u] \notin free_k
          /\ \A d \in Procs, r \in UserHalf : mem[d][r] # mem[table(s)][u]
      BY <1>1, <2>3, <3>2 DEF KernelMapInv
    <3>4. ASSUME NEW s2 \in KernelHalf, NEW u2 \in Entries,
                 mem'[table(s2)][u2] = mem'[table(s)][u]
          PROVE  s2 = s /\ u2 = u
      <4>1. mem[table(s2)][u2] = mem[table(s)][u] /\ mem[table(s)][u] \in KernelFrames
        BY <1>6, <2>1, <2>3, <3>2, <3>4
      <4> QED BY <1>1, <4>1 DEF KernelMapInv
    <3> QED BY <1>4, <3>2, <3>3, <3>4
  <2> QED BY <1>2, <2>2, <2>3 DEF KernelMapInv
<1>11. UserMapInv'
  <2>1. ASSUME NEW d \in Procs, NEW r \in UserHalf, mem'[d][r] # NONE
        PROVE  mem[d][r] # NONE /\ mem'[d][r] = mem[d][r] /\ mem'[mem'[d][r]] = mem[mem[d][r]]
    BY <1>4, <1>5, <2>1
  <2>2. ASSUME NEW d \in Procs, NEW r \in UserHalf, NEW i \in Entries,
               mem'[d][r] # NONE, mem'[mem'[d][r]][i] # NONE
        PROVE  mem'[mem'[d][r]][i] \in UserFrames \ free_u'
    BY <1>1, <2>1, <2>2 DEF UserMapInv
  <2>3. ASSUME NEW d \in Procs, NEW r \in UserHalf, NEW i \in Entries,
               mem'[d][r] # NONE, mem'[mem'[d][r]][i] # NONE,
               NEW c \in Procs, NEW s \in UserHalf, NEW j \in Entries,
               mem'[c][s] # NONE, mem'[mem'[c][s]][j] = mem'[mem'[d][r]][i]
        PROVE  c = d /\ s = r /\ j = i
    <3>1. /\ mem[d][r] # NONE /\ mem[mem[d][r]][i] # NONE
          /\ mem[c][s] # NONE /\ mem[mem[c][s]][j] = mem[mem[d][r]][i]
      BY <2>1, <2>3
    <3> QED BY <1>1, <3>1 DEF UserMapInv
  <2> QED BY <1>2, <2>2, <2>3 DEF UserMapInv
<1>12. CleanInv'
  <2> SUFFICES ASSUME ~Dirty, NEW v \in kernel_pages
               PROVE  mem'[table(v[1])][v[2]] \in KernelFrames \cup {NONE}
    BY <1>1 DEF CleanInv
  <2>1. v[1] \in KernelHalf /\ v[2] \in Entries
    BY DEF kernel_pages, KernelHalf
  <2>2. mem[table(v[1])][v[2]] \in KernelFrames \cup {NONE}
    BY <1>1 DEF CleanInv
  <2> QED BY <1>6, <2>1, <2>2
<1> QED BY <1>7, <1>8, <1>9, <1>10, <1>11, <1>12 DEF PagingInv

(* mfree_page of a page of a process: only its own table changes.          *)
LEMMA FreeUser ==
    ASSUME PagingInv, cr3 \in Procs, NEW p \in UserHalf, NEW q \in Entries, NEW T, NEW f,
           T = mem[cr3][p], T # NONE, f = mem[T][q], f \in UserFrames,
           DOMAIN mem' = Frames, \A g \in Frames : DOMAIN mem'[g] = Entries,
           \A g \in Frames : g # T /\ g # f => mem'[g] = mem[g],
           \A i \in Entries : i # q => mem'[T][i] = mem[T][i],
           mem'[T][q] = NONE,
           free_k' = free_k, free_u' = free_u \cup {f}, cr3' = cr3, panic' = panic,
           dirs' = dirs
    PROVE  PagingInv'
<1>1. ShapeInv /\ DirsInv /\ TablesInv /\ KernelMapInv /\ UserMapInv /\ CleanInv
  BY DEF PagingInv
<1>2. /\ T \in KernelFrames /\ T \notin dirs /\ T \notin BootFrames /\ T # f
      /\ f \notin KernelFrames /\ f \notin BootFrames /\ f # NONE /\ Procs' = Procs
  <2>1. T \in KernelFrames /\ T \notin dirs
    BY <1>1 DEF TablesInv
  <2> QED BY <2>1, FrameKinds DEF Procs
<1>3. \A d \in dirs : mem'[d] = mem[d]
  <2>1. ASSUME NEW d \in dirs PROVE d \in Frames /\ d # f /\ d # T
    BY <1>1, <1>2, FrameKinds DEF ShapeInv
  <2> QED BY <2>1
<1>4. \A d \in Procs : mem'[d] = mem[d]
  BY <1>3 DEF Procs
<1>5. \A s \in KernelHalf : mem'[table(s)] = mem[table(s)]
  <2>1. ASSUME NEW s \in KernelHalf PROVE table(s) \in Frames /\ table(s) # f /\ table(s) # T
    BY <1>2, KernelTables, FrameKinds
  <2> QED BY <2>1
<1>6. ASSUME NEW d \in Procs, NEW r \in UserHalf, NEW i \in Entries,
             mem'[d][r] # NONE, mem'[mem'[d][r]][i] # NONE
      PROVE  /\ mem[d][r] # NONE /\ mem'[mem'[d][r]][i] = mem[mem[d][r]][i]
             /\ mem[mem[d][r]][i] \in UserFrames \ free_u /\ mem[mem[d][r]][i] # f
  <2>1. mem'[d][r] = mem[d][r] /\ mem[d][r] # NONE
    BY <1>4, <1>6
  <2>2. mem[d][r] \in KernelFrames
    BY <1>1, <2>1 DEF TablesInv
  <2>3. mem[d][r] \in Frames /\ mem[d][r] # f
    BY <1>2, <2>2, FrameKinds
  <2>4. mem'[mem[d][r]][i] = mem[mem[d][r]][i] /\ ~(mem[d][r] = T /\ i = q)
    BY <1>6, <2>1, <2>3
  <2>5. mem[mem[d][r]][i] \in UserFrames \ free_u
    BY <1>1, <1>6, <2>1, <2>4 DEF UserMapInv
  <2>6. mem[mem[d][r]][i] # f
    BY <1>1, <1>2, <2>1, <2>4 DEF UserMapInv
  <2> QED BY <2>1, <2>4, <2>5, <2>6
<1>7. ShapeInv'
  BY <1>1 DEF ShapeInv
<1>8. DirsInv'
  BY <1>1, <1>3 DEF DirsInv
<1>9. TablesInv'
  <2>1. \A r \in UserHalf : mem'[page_dir][r] \in {NONE, table(K)}
    BY <1>1, <1>3 DEF TablesInv, ShapeInv
  <2>2. ASSUME NEW d \in Procs, NEW r \in UserHalf, mem'[d][r] # NONE
        PROVE  /\ mem'[d][r] \in KernelFrames \ (free_k \cup dirs)
               /\ \A c \in Procs, s \in UserHalf : mem'[c][s] = mem'[d][r] => c = d /\ s = r
    BY <1>1, <1>4, <2>2 DEF TablesInv
  <2> QED BY <1>2, <2>1, <2>2 DEF TablesInv
<1>10. KernelMapInv'
  BY <1>1, <1>2, <1>4, <1>5 DEF KernelMapInv
<1>11. UserMapInv'
  <2>1. ASSUME NEW d \in Procs, NEW r \in UserHalf, NEW i \in Entries,
               mem'[d][r] # NONE, mem'[mem'[d][r]][i] # NONE
        PROVE  mem'[mem'[d][r]][i] \in UserFrames \ free_u'
    BY <1>6, <2>1
  <2>2. ASSUME NEW d \in Procs, NEW r \in UserHalf, NEW i \in Entries,
               mem'[d][r] # NONE, mem'[mem'[d][r]][i] # NONE,
               NEW c \in Procs, NEW s \in UserHalf, NEW j \in Entries,
               mem'[c][s] # NONE, mem'[mem'[c][s]][j] = mem'[mem'[d][r]][i]
        PROVE  c = d /\ s = r /\ j = i
    <3>1. /\ mem[d][r] # NONE /\ mem[mem[d][r]][i] # NONE
          /\ mem[c][s] # NONE /\ mem[mem[c][s]][j] = mem[mem[d][r]][i]
      BY <1>6, <2>2
    <3> QED BY <1>1, <3>1 DEF UserMapInv
  <2> QED BY <1>2, <2>1, <2>2 DEF UserMapInv
<1>12. CleanInv'
  <2>1. \A v \in kernel_pages : v[1] \in KernelHalf
    BY DEF kernel_pages, KernelHalf
  <2> QED BY <1>1, <1>5, <2>1 DEF CleanInv
<1> QED BY <1>7, <1>8, <1>9, <1>10, <1>11, <1>12 DEF PagingInv

LEMMA FreePageStep ==
    ASSUME PagingInv, NEW p \in 0 .. E - 2, NEW q \in Entries, mfree_page(p, q)
    PROVE  PagingInv'
<1> DEFINE T == mem[cr3][p]
           f == mem[T][q]
           w == Word(mem, T, q, NONE)
<1>1. /\ p >= K \/ cr3 # page_dir
      /\ frame(mem, cr3, p, q) \in (KernelFrames \cup UserFrames) \ dirs
  BY DEF mfree_page
<1>2. T # NONE /\ frame(mem, cr3, p, q) = f
  <2>1. NONE \notin KernelFrames \cup UserFrames
    BY FrameKinds
  <2> QED BY <1>1, <2>1 DEF frame
<1>3. p \in Entries /\ (p \in KernelHalf \/ p \in UserHalf)
  BY Indices DEF KernelHalf, UserHalf, Entries
<1>4. /\ mem[cr3][E - 1] = cr3 /\ cr3 \in Frames
      /\ DOMAIN mem = Frames /\ \A g \in Frames : DOMAIN mem[g] = Entries
  BY FrameKinds DEF PagingInv, ShapeInv, DirsInv
<1>5. SelfMapped(mem, cr3)
  BY <1>4, FrameKinds DEF SelfMapped
<1>6. store(mem, cr3, pte_ptr(p, q), NONE) = w
  BY <1>5, Reach
<1> HIDE DEF T, f, w
<1>7. /\ mem' = Whole(w, f, Junk)
      /\ free_k' = free_k \cup ({f} \cap KernelFrames)
      /\ free_u' = free_u \cup ({f} \cap UserFrames)
      /\ cr3' = cr3 /\ dirs' = dirs /\ panic' = panic
  BY <1>2, <1>6 DEF mfree_page, Whole
<1>8. f \in Frames /\ f \notin dirs /\ f # NONE /\ f \in KernelFrames \cup UserFrames
  BY <1>1, <1>2, FrameKinds
<1>9. ASSUME T \in Frames, T # f
      PROVE  /\ DOMAIN mem' = Frames /\ \A g \in Frames : DOMAIN mem'[g] = Entries
             /\ \A g \in Frames : g # T /\ g # f => mem'[g] = mem[g]
             /\ \A i \in Entries : i # q => mem'[T][i] = mem[T][i]
             /\ mem'[T][q] = NONE
  <2>1. /\ DOMAIN w = Frames /\ \A g \in Frames : DOMAIN w[g] = Entries
        /\ \A g \in Frames : g # T => w[g] = mem[g]
        /\ \A i \in Entries : i # q => w[T][i] = mem[T][i]
        /\ w[T][q] = NONE
    BY <1>4, <1>9, WordWritten DEF w
  <2>2. DOMAIN Junk = Entries
    BY DEF Junk
  <2>3. /\ DOMAIN mem' = Frames /\ \A g \in Frames : DOMAIN mem'[g] = Entries
        /\ \A g \in Frames : g # f => mem'[g] = w[g]
    BY <1>7, <1>8, <2>1, <2>2, WholeWritten
  <2> QED BY <1>9, <2>1, <2>3
<1>10. CASE p \in KernelHalf
  <2>1. T = table(p) /\ f = mem[table(p)][q]
    BY <1>10 DEF T, f, PagingInv, ShapeInv, DirsInv
  <2>2. f \in KernelFrames /\ f \notin UserFrames
    BY <1>8, <1>10, <2>1 DEF PagingInv, KernelMapInv
  <2>3. T \in Frames /\ T # f
    BY <1>10, <2>1, <2>2, KernelTables, FrameKinds
  <2>4. free_k' = free_k \cup {f} /\ free_u' = free_u
    BY <1>7, <2>2
  <2>5. /\ DOMAIN mem' = Frames /\ \A g \in Frames : DOMAIN mem'[g] = Entries
        /\ \A g \in Frames : g # table(p) /\ g # f => mem'[g] = mem[g]
        /\ \A i \in Entries : i # q => mem'[table(p)][i] = mem[table(p)][i]
        /\ mem'[table(p)][q] = NONE
    BY <1>9, <2>1, <2>3
  <2> QED BY <1>7, <1>8, <1>10, <2>1, <2>2, <2>4, <2>5, FreeKernel
<1>11. CASE p \in UserHalf
  <2>1. cr3 \in Procs
    BY <1>1, <1>11, Indices DEF UserHalf, PagingInv, ShapeInv, Procs
  <2>2. T = mem[cr3][p] /\ f = mem[T][q]
    BY DEF T, f
  <2>3. T \in KernelFrames
    BY <1>2, <1>11, <2>1, <2>2 DEF PagingInv, TablesInv
  <2>4. f \in UserFrames
    BY <1>2, <1>8, <1>11, <2>1, <2>2 DEF PagingInv, UserMapInv
  <2>5. T \in Frames /\ T # f /\ f \notin KernelFrames
    BY <2>3, <2>4, FrameKinds
  <2>6. free_k' = free_k /\ free_u' = free_u \cup {f}
    BY <1>7, <2>4, <2>5
  <2> QED BY <1>2, <1>7, <1>9, <1>11, <2>1, <2>2, <2>4, <2>5, <2>6, FreeUser
<1> QED BY <1>3, <1>10, <1>11

LEMMA ActivateStep ==
    ASSUME PagingInv, NEW d \in dirs, page_dir_activate(d)
    PROVE  PagingInv'
<1>1. cr3' = d /\ UNCHANGED <<mem, free_k, free_u, dirs, panic>>
  BY DEF page_dir_activate
<1> QED BY <1>1 DEF PagingInv, ShapeInv, DirsInv, TablesInv, KernelMapInv, UserMapInv,
                    CleanInv, Procs

-----------------------------------------------------------------------------
(* What setup_page leaves in the directory and in the kernel's tables.     *)
LEMMA SetupPage ==
    ASSUME NEW m, m = setup_page
    PROVE  /\ DOMAIN m = Frames /\ \A f \in Frames : DOMAIN m[f] = Entries
           /\ m[page_dir][E - 1] = page_dir
           /\ \A p \in KernelHalf : m[page_dir][p] = table(p)
           /\ \A p \in UserHalf : m[page_dir][p] \in {NONE, table(K)}
           /\ \A p \in KernelHalf, q \in Entries :
                m[table(p)][q] \in {page_dir, NONE} \cup {low(i) : i \in 0 .. LowPages - 1}
           /\ ~Dirty => \A v \in kernel_pages : m[table(v[1])][v[2]] = NONE
<1>1. page_dir \in Frames /\ \A p \in KernelHalf : table(p) \in BootFrames /\ table(p) \in Frames
                                               /\ table(p) # page_dir
  BY KernelTables, FrameKinds
<1>2. DOMAIN m = Frames /\ \A f \in Frames : DOMAIN m[f] = Entries
  BY DEF setup_page, Frames, Cleared, Junk
<1>3. m[page_dir] = [i \in Entries |-> CASE i \in {0, K} -> table(K)
                                 [] i = E - 1    -> page_dir
                                 [] i \in K + 1 .. E - 2 -> kernel_pde(i)
                                 [] OTHER        -> NONE]
  BY <1>1, Zenon DEF setup_page, Frames
<1>4. m[table(K)] = [i \in Entries |-> IF i < LowPages THEN low(i)
                               ELSE IF Dirty THEN page_dir ELSE NONE]
  <2>1. table(K) \in Frames /\ table(K) # page_dir
    BY <1>1, Indices
  <2> QED BY <2>1, Zenon DEF setup_page, Frames
<1>5. ASSUME NEW p \in KernelHalf, p # K
      PROVE  m[table(p)] = IF ~Dirty THEN Cleared ELSE Junk
  <2>1. table(p) # table(K)
    BY <1>5, KernelTables, Indices
  <2> QED BY <1>1, <2>1, Zenon DEF setup_page, Frames
<1>6. m[page_dir][E - 1] = page_dir
  BY <1>3, Indices
<1>7. ASSUME NEW p \in KernelHalf PROVE m[page_dir][p] = table(p)
  <2>1. p \in Entries /\ p # 0 /\ p # E - 1 /\ (p = K \/ p \in K + 1 .. E - 2)
    BY Indices DEF KernelHalf, Entries
  <2> QED BY <1>3, <2>1, Indices DEF kernel_pde
<1>8. ASSUME NEW p \in UserHalf PROVE m[page_dir][p] \in {NONE, table(K)}
  <2>1. p \in Entries /\ p # K /\ p # E - 1 /\ p \notin K + 1 .. E - 2
    BY Indices DEF UserHalf, Entries
  <2> QED BY <1>3, <2>1
<1>9. ASSUME NEW p \in KernelHalf, NEW q \in Entries
      PROVE  m[table(p)][q] \in {page_dir, NONE} \cup {low(i) : i \in 0 .. LowPages - 1}
  <2>1. CASE p = K /\ q < LowPages
    <3>1. q \in 0 .. LowPages - 1
      BY <2>1, Indices DEF Entries
    <3> QED BY <1>4, <2>1, <3>1
  <2>2. CASE p = K /\ ~(q < LowPages)
    BY <1>4, <2>2
  <2>3. CASE p # K
    BY <1>5, <2>3 DEF Cleared, Junk
  <2> QED BY <2>1, <2>2, <2>3
<1>10. ASSUME ~Dirty, NEW v \in kernel_pages PROVE m[table(v[1])][v[2]] = NONE
  <2>1. v[1] \in KernelHalf /\ v[2] \in Entries /\ (v[1] = K => v[2] >= LowPages)
    BY DEF kernel_pages, KernelHalf
  <2>2. CASE v[1] = K
    <3>1. ~(v[2] < LowPages)
      BY <2>1, <2>2, Indices DEF Entries
    <3> QED BY <1>4, <1>10, <2>1, <2>2, <3>1
  <2>3. CASE v[1] # K
    BY <1>5, <1>10, <2>1, <2>3 DEF Cleared
  <2> QED BY <2>2, <2>3
<1> QED BY <1>2, <1>6, <1>7, <1>8, <1>9, <1>10

LEMMA PagingInductive == Spec => []PagingInv
<1>1. Init => PagingInv
  <2> SUFFICES ASSUME Init PROVE PagingInv
    OBVIOUS
  <2>1. /\ mem = setup_page /\ free_k = KernelFrames /\ free_u = UserFrames
        /\ cr3 = page_dir /\ dirs = {page_dir} /\ panic = FALSE /\ Procs = {}
    BY DEF Init, Procs
  <2>2. /\ DOMAIN mem = Frames /\ \A f \in Frames : DOMAIN mem[f] = Entries
        /\ mem[page_dir][E - 1] = page_dir
        /\ \A p \in KernelHalf : mem[page_dir][p] = table(p)
        /\ \A p \in UserHalf : mem[page_dir][p] \in {NONE, table(K)}
        /\ \A p \in KernelHalf, q \in Entries :
             mem[table(p)][q] \in {page_dir, NONE} \cup {low(i) : i \in 0 .. LowPages - 1}
        /\ ~Dirty => \A v \in kernel_pages : mem[table(v[1])][v[2]] = NONE
    BY <2>1, SetupPage, Zenon
  <2>3. \A x \in {page_dir, NONE} \cup {low(i) : i \in 0 .. LowPages - 1} :
           x \notin KernelFrames /\ x \notin UserFrames
    BY FramesAssumption DEF BootFrames
  <2>4. ShapeInv /\ DirsInv
    BY <2>1, <2>2 DEF ShapeInv, DirsInv
  <2>5. TablesInv /\ UserMapInv
    BY <2>1, <2>2 DEF TablesInv, UserMapInv
  <2>6. KernelMapInv
    BY <2>2, <2>3 DEF KernelMapInv
  <2>7. CleanInv
    BY <2>1, <2>2 DEF CleanInv
  <2> QED BY <2>4, <2>5, <2>6, <2>7 DEF PagingInv
<1>2. PagingInv /\ [Next]_vars => PagingInv'
  <2> SUFFICES ASSUME PagingInv, [Next]_vars PROVE PagingInv'
    OBVIOUS
  <2>1. CASE \E f \in palloc(free_k) : \E t \in palloc(free_k \ {f}) :
               get_kernel_page(f, t) \/ create_page_dir(f, t)
    BY <2>1, KernelPageStep, CreateDirStep
  <2>2. CASE \E p \in 0 .. K - 1, q \in Entries, f \in palloc(free_u), t \in palloc(free_k) :
               get_user_page(p, q, f, t)
    BY <2>2, UserPageStep DEF UserHalf
  <2>3. CASE \E p \in 0 .. E - 2, q \in Entries : mfree_page(p, q)
    BY <2>3, FreePageStep
  <2>4. CASE \E d \in dirs : page_dir_activate(d)
    BY <2>4, ActivateStep
  <2>5. CASE UNCHANGED vars
    BY <2>5 DEF vars, PagingInv, ShapeInv, DirsInv, TablesInv, KernelMapInv, UserMapInv,
                CleanInv, Procs
  <2> QED BY <2>1, <2>2, <2>3, <2>4, <2>5 DEF Next
<1> QED BY <1>1, <1>2, PTL DEF Spec

-----------------------------------------------------------------------------
(* create_page_dir copies the kernel's entries once, and page_table_add    *)
(* adds tables to the active directory only: the kernel's addresses still  *)
(* mean the same in every directory, whichever was active when a page was  *)
(* mapped or freed, and with whatever garbage memory was full at the start.*)
THEOREM KernelHalfIsShared == Spec => []KernelHalfShared
<1>1. PagingInv => KernelHalfShared
  <2> SUFFICES ASSUME PagingInv, NEW d \in dirs, NEW p \in KernelHalf, NEW q \in Entries
               PROVE  frame(mem, d, p, q) = frame(mem, page_dir, p, q)
    BY DEF KernelHalfShared, KernelHalf
  <2>1. mem[d][p] = table(p) /\ mem[page_dir][p] = table(p)
    BY DEF PagingInv, ShapeInv, DirsInv
  <2> QED BY <2>1, Zenon DEF frame
<1> QED BY <1>1, PagingInductive, PTL

(* pde_ptr and pte_ptr of memory.c reach the entries of the directory that *)
(* is active, after any switch: the last entry of every directory is       *)
(* itself, and no page is ever mapped over it.                             *)
THEOREM TablesAreReached == Spec => []PtePtrReachesThePte
<1>1. PagingInv => PtePtrReachesThePte
  <2> SUFFICES ASSUME PagingInv, NEW p \in Entries
               PROVE  /\ frame(mem, cr3, E - 1, E - 1) = cr3
                      /\ mem[cr3][p] # NONE => frame(mem, cr3, E - 1, p) = mem[cr3][p]
    BY DEF PtePtrReachesThePte
  <2>1. mem[cr3][E - 1] = cr3 /\ cr3 \in Frames
    BY FrameKinds DEF PagingInv, ShapeInv, DirsInv
  <2>2. cr3 # NONE
    BY <2>1, FrameKinds
  <2> QED BY <2>1, <2>2 DEF frame
<1> QED BY <1>1, PagingInductive, PTL

(* If memory was clear when the loader started, page_table_add never stops *)
(* the machine, and a process sees only frames of the user pool that are   *)
(* in use and that nothing else maps in the lower half.                    *)
THEOREM ProcessesAreApart == ASSUME ~Dirty PROVE Spec => []UserHalfPrivate
<1>1. ASSUME PagingInv PROVE UserHalfPrivate
  <2>1. ~panic
    BY <1>1 DEF PagingInv, CleanInv
  <2>2. ASSUME NEW c \in dirs, NEW r \in UserHalf, NEW s \in Entries,
               frame(mem, c, r, s) \in UserFrames
        PROVE  c \in Procs /\ mem[c][r] # NONE /\ frame(mem, c, r, s) = mem[mem[c][r]][s]
    <3>1. mem[c][r] # NONE /\ frame(mem, c, r, s) = mem[mem[c][r]][s]
      BY <2>2, FrameKinds DEF frame
    <3>2. CASE c = page_dir
      <4>1. mem[c][r] = table(K) /\ K \in KernelHalf
        BY <1>1, <3>1, <3>2, Indices DEF PagingInv, TablesInv
      <4> QED BY <1>1, <2>2, <3>1, <4>1 DEF PagingInv, KernelMapInv
    <3> QED BY <3>1, <3>2 DEF Procs
  <2>3. ASSUME NEW d \in Procs, NEW p \in UserHalf, NEW q \in Entries,
               frame(mem, d, p, q) # NONE
        PROVE  /\ frame(mem, d, p, q) \in UserFrames \ free_u
               /\ \A c \in dirs, r \in UserHalf, s \in Entries :
                    frame(mem, c, r, s) = frame(mem, d, p, q) => c = d /\ r = p /\ s = q
    <3>1. mem[d][p] # NONE /\ frame(mem, d, p, q) = mem[mem[d][p]][q]
      BY <2>3 DEF frame
    <3>2. mem[mem[d][p]][q] \in UserFrames \ free_u
      BY <1>1, <2>3, <3>1 DEF PagingInv, UserMapInv
    <3>3. ASSUME NEW c \in dirs, NEW r \in UserHalf, NEW s \in Entries,
                 frame(mem, c, r, s) = frame(mem, d, p, q)
          PROVE  c = d /\ r = p /\ s = q
      <4>1. c \in Procs /\ mem[c][r] # NONE /\ mem[mem[c][r]][s] = mem[mem[d][p]][q]
        BY <2>2, <3>1, <3>2, <3>3
      <4> QED BY <1>1, <2>3, <3>1, <4>1 DEF PagingInv, UserMapInv
    <3> QED BY <3>1, <3>2, <3>3
  <2> QED BY <2>1, <2>3 DEF UserHalfPrivate, Procs, UserHalf
<1> QED BY <1>1, PagingInductive, PTL
=============================================================================
