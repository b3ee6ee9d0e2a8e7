---------------------------- MODULE SpawnProofs -----------------------------
(***************************************************************************)
(* Theorems about Spawn, for any number of tasks, creators and pages.      *)
(*                                                                         *)
(* The first part is about List: which sequences the links of the lists    *)
(* represent, and what the list operations make of them.                   *)
(***************************************************************************)
EXTENDS Spawn, FiniteSetTheorems, SequenceTheorems, NaturalsInduction, WellFoundedInduction, TLAPS

(* The list_elems; each list links one kind of tags.                       *)
Elems == {head(l) : l \in Lists} \cup {tail(l) : l \in Lists}
           \cup {general_tag(t) : t \in Tasks} \cup {all_list_tag(t) : t \in Tasks}
tag(l, t) == IF l = "all" THEN all_list_tag(t) ELSE general_tag(t)
Tags(l) == {tag(l, t) : t \in Tasks}

(* From head to tail by way of the sequence s.                             *)
Node(l, s, i) == IF i = 0 THEN head(l) ELSE IF i = Len(s) + 1 THEN tail(l) ELSE s[i]

Chain(g, l, s) ==
    \A i \in 0 .. Len(s) :
        /\ g.next[Node(l, s, i)] = Node(l, s, i + 1)
        /\ g.prev[Node(l, s, i + 1)] = Node(l, s, i)

(* No element is in two lists, or twice in one.                            *)
Separate(L) ==
    \A l, m \in Lists : \A i \in 1 .. Len(L[l]), j \in 1 .. Len(L[m]) :
        L[l][i] = L[m][j] => l = m /\ i = j

Typed(L) == \A l \in Lists : L[l] \in Seq(Tags(l))

(* The links g represent the sequences L[l].                               *)
Represents(g, L) ==
    /\ DOMAIN g.prev = Elems /\ DOMAIN g.next = Elems
    /\ Typed(L) /\ Separate(L)
    /\ \A l \in Lists : Chain(g, l, L[l])

Outside(L, x) == \A l \in Lists : \A i \in 1 .. Len(L[l]) : L[l][i] # x

-----------------------------------------------------------------------------
LEMMA ElemsApart ==
    /\ \A l, m \in Lists : head(l) # tail(m) /\ (head(l) = head(m) => l = m)
                            /\ (tail(l) = tail(m) => l = m)
    /\ \A l, m \in Lists : \A x \in Tags(m) :
         x # head(l) /\ x # tail(l) /\ x # NULL /\ x \in Elems
    /\ \A l \in Lists : head(l) \in Elems /\ tail(l) \in Elems
                        /\ head(l) # NULL /\ tail(l) # NULL
    /\ \A l \in Lists : \A t, u \in Tasks : tag(l, t) = tag(l, u) => t = u
    /\ \A l \in Lists \ {"all"} : \A t, u \in Tasks : tag(l, t) # tag("all", u)
    /\ \A l \in Lists : \A t \in Tasks : task_of(tag(l, t)) = t
  BY NullAssumption DEF head, tail, Tags, tag, general_tag, all_list_tag, Elems, task_of

(* The nodes of the lists are all different.                               *)
LEMMA NodesApart ==
    ASSUME NEW L, Typed(L), Separate(L)
    PROVE  /\ \A l \in Lists : Len(L[l]) \in Nat
           /\ \A l \in Lists : \A i \in 1 .. Len(L[l]) : L[l][i] \in Tags(l)
           /\ \A l \in Lists : \A i \in 0 .. Len(L[l]) + 1 :
                Node(l, L[l], i) \in Elems /\ Node(l, L[l], i) # NULL
           /\ \A l, m \in Lists : \A i \in 0 .. Len(L[l]) + 1, j \in 0 .. Len(L[m]) + 1 :
                Node(l, L[l], i) = Node(m, L[m], j) => l = m /\ i = j
<1>1. \A l \in Lists : Len(L[l]) \in Nat
  BY DEF Typed
<1>2. \A l \in Lists : \A i \in 1 .. Len(L[l]) : L[l][i] \in Tags(l)
  BY DEF Typed
<1>3. ASSUME NEW l \in Lists, NEW i \in 0 .. Len(L[l]) + 1
      PROVE  \/ i = 0 /\ Node(l, L[l], i) = head(l)
             \/ i = Len(L[l]) + 1 /\ Node(l, L[l], i) = tail(l)
             \/ i \in 1 .. Len(L[l]) /\ Node(l, L[l], i) = L[l][i]
  BY <1>1 DEF Node
<1>4. ASSUME NEW l \in Lists, NEW i \in 0 .. Len(L[l]) + 1
      PROVE  Node(l, L[l], i) \in Elems /\ Node(l, L[l], i) # NULL
  BY <1>2, <1>3, ElemsApart
<1>5. ASSUME NEW l \in Lists, NEW m \in Lists, NEW i \in 0 .. Len(L[l]) + 1,
             NEW j \in 0 .. Len(L[m]) + 1, Node(l, L[l], i) = Node(m, L[m], j)
      PROVE  l = m /\ i = j
  <2>1. CASE i = 0
    BY <1>2, <1>3, <1>5, <2>1, ElemsApart
  <2>2. CASE i = Len(L[l]) + 1
    BY <1>1, <1>2, <1>3, <1>5, <2>2, ElemsApart
  <2>3. CASE i \in 1 .. Len(L[l])
    BY <1>1, <1>2, <1>3, <1>5, <2>3, ElemsApart DEF Separate
  <2> QED BY <1>3, <2>1, <2>2, <2>3
<1> QED BY <1>1, <1>2, <1>4, <1>5

(* t is s with x put behind its first k elements; without is s after its   *)
(* first element.                                                          *)
Inserted(t, s, k, x) ==
    /\ Len(t) = Len(s) + 1
    /\ \A i \in 1 .. Len(s) + 1 :
         t[i] = IF i <= k THEN s[i] ELSE IF i = k + 1 THEN x ELSE s[i - 1]

Others(M, L, l) == \A m \in Lists : m # l => M[m] = L[m]

LEMMA Insertion ==
    ASSUME NEW g, NEW L, NEW M, NEW l \in Lists, NEW k \in 0 .. Len(L[l]),
           NEW x \in Tags(l), Represents(g, L), Typed(M), Outside(L, x),
           Inserted(M[l], L[l], k, x), Others(M, L, l)
    PROVE  Represents(list_insert_before(g, Node(l, L[l], k + 1), x), M)
<1> DEFINE s == L[l]
           n == Len(s)
           before == Node(l, s, k + 1)
           g2 == list_insert_before(g, before, x)
<1>1. Typed(L) /\ Separate(L) /\ DOMAIN g.prev = Elems /\ DOMAIN g.next = Elems
  BY DEF Represents
<1>2. n \in Nat /\ k \in 0 .. n
  BY <1>1, NodesApart
<1>3. g.prev[before] = Node(l, s, k)
  BY <1>2 DEF Represents, Chain
<1>4. \A m \in Lists : \A i \in 0 .. Len(L[m]) + 1 : Node(m, L[m], i) # x
  BY <1>1, NodesApart, ElemsApart DEF Node, Outside
<1>5. x \in Elems /\ before \in Elems /\ Node(l, s, k) \in Elems
  BY <1>1, <1>2, NodesApart, ElemsApart
<1>6. /\ DOMAIN g2.prev = Elems /\ DOMAIN g2.next = Elems
      /\ g2.next[Node(l, s, k)] = x /\ g2.next[x] = before
      /\ g2.prev[before] = x /\ g2.prev[x] = Node(l, s, k)
      /\ \A y \in Elems : y # x /\ y # Node(l, s, k) => g2.next[y] = g.next[y]
      /\ \A y \in Elems : y # x /\ y # before => g2.prev[y] = g.prev[y]
  <2>1. x # before /\ x # Node(l, s, k)
    <3>1. k \in 0 .. Len(L[l]) + 1 /\ k + 1 \in 0 .. Len(L[l]) + 1
      BY <1>2
    <3> QED BY <1>4, <3>1
  <2> HIDE DEF before
  <2> QED BY <1>1, <1>3, <1>5, <2>1 DEF list_insert_before
<1>7. Separate(M)
  <2>1. ASSUME NEW m \in Lists, NEW i \in 1 .. Len(M[m])
        PROVE  \/ m = l /\ i = k + 1 /\ M[m][i] = x
               \/ m = l /\ i <= k /\ i \in 1 .. n /\ M[m][i] = L[m][i]
               \/ m = l /\ i > k + 1 /\ i - 1 \in 1 .. n /\ M[m][i] = L[m][i - 1]
               \/ m # l /\ i \in 1 .. Len(L[m]) /\ M[m][i] = L[m][i]
    BY <1>2, NodesApart DEF Inserted, Others
  <2>2. ASSUME NEW m \in Lists, NEW p \in Lists, NEW i \in 1 .. Len(M[m]),
               NEW j \in 1 .. Len(M[p]), M[m][i] = M[p][j]
        PROVE  m = p /\ i = j
    <3>1. i \in Nat /\ j \in Nat /\ k \in Nat
      BY <1>2, NodesApart DEF Typed
    <3>2. CASE M[m][i] = x
      <4>0. \A q \in Lists : \A v \in 1 .. Len(L[q]) : L[q][v] # x
        BY DEF Outside
      <4>1. m = l /\ i = k + 1
        BY <2>1, <3>2, <4>0
      <4>2. p = l /\ j = k + 1
        <5>1. M[p][j] = x
          BY <2>2, <3>2
        <5> QED BY <2>1, <4>0, <5>1
      <4> QED BY <4>1, <4>2
    <3>3. CASE M[m][i] # x
      <4>1. PICK v \in 1 .. Len(L[m]) :
              M[m][i] = L[m][v] /\ i = IF m = l /\ v > k THEN v + 1 ELSE v
        <5>1. CASE m = l /\ i <= k /\ i \in 1 .. n /\ M[m][i] = L[m][i]
          BY <3>1, <5>1
        <5>2. CASE m = l /\ i > k + 1 /\ i - 1 \in 1 .. n /\ M[m][i] = L[m][i - 1]
          <6>1. i - 1 > k /\ i = (i - 1) + 1
            BY <3>1, <5>2
          <6> QED BY <5>2, <6>1
        <5>3. CASE m # l /\ i \in 1 .. Len(L[m]) /\ M[m][i] = L[m][i]
          BY <5>3
        <5> QED BY <2>1, <3>3, <5>1, <5>2, <5>3
      <4>2. PICK w \in 1 .. Len(L[p]) :
              M[p][j] = L[p][w] /\ j = IF p = l /\ w > k THEN w + 1 ELSE w
        <5>1. CASE p = l /\ j <= k /\ j \in 1 .. n /\ M[p][j] = L[p][j]
          BY <3>1, <5>1
        <5>2. CASE p = l /\ j > k + 1 /\ j - 1 \in 1 .. n /\ M[p][j] = L[p][j - 1]
          <6>1. j - 1 > k /\ j = (j - 1) + 1
            BY <3>1, <5>2
          <6> QED BY <5>2, <6>1
        <5>3. CASE p # l /\ j \in 1 .. Len(L[p]) /\ M[p][j] = L[p][j]
          BY <5>3
        <5> QED BY <2>1, <2>2, <3>3, <5>1, <5>2, <5>3
      <4>3. m = p /\ v = w
        <5>1. L[m][v] = L[p][w]
          BY <2>2, <4>1, <4>2
        <5>2. \A q, r \in Lists : \A y \in 1 .. Len(L[q]), z \in 1 .. Len(L[r]) :
                L[q][y] = L[r][z] => q = r /\ y = z
          BY <1>1 DEF Separate
        <5> QED BY <5>1, <5>2
      <4> QED BY <4>1, <4>2, <4>3
    <3> QED BY <3>2, <3>3
  <2> QED BY <2>2 DEF Separate
<1>8. ASSUME NEW m \in Lists
      PROVE  Chain(g2, m, M[m])
  <2> HIDE DEF g2
  <2>1. CASE m # l
    <3>1. M[m] = L[m] /\ Chain(g, m, L[m]) /\ Len(L[m]) \in Nat
      BY <1>1, <2>1, NodesApart DEF Others, Represents
    <3>2. ASSUME NEW i \in 0 .. Len(L[m]) + 1
          PROVE  Node(m, L[m], i) \in Elems /\ Node(m, L[m], i) # x
                 /\ Node(m, L[m], i) # before /\ Node(m, L[m], i) # Node(l, s, k)
      <4>1. k \in 0 .. n + 1 /\ k + 1 \in 0 .. n + 1
        BY <1>2
      <4> QED BY <1>1, <1>4, <2>1, <4>1, NodesApart
    <3> HIDE DEF before, s
    <3> QED BY <1>6, <3>1, <3>2 DEF Chain
  <2>2. CASE m = l
    <3> DEFINE t == M[l]
    <3>1. Len(t) = n + 1 /\ \A i \in 0 .. n + 2 :
            Node(l, t, i) = IF i <= k THEN Node(l, s, i)
                            ELSE IF i = k + 1 THEN x ELSE Node(l, s, i - 1)
      BY <1>2 DEF Inserted, Node
    <3>2. \A i \in 0 .. n : g.next[Node(l, s, i)] = Node(l, s, i + 1)
                            /\ g.prev[Node(l, s, i + 1)] = Node(l, s, i)
      BY DEF Represents, Chain
    <3>3. \A i, j \in 0 .. n + 1 : Node(l, s, i) = Node(l, s, j) => i = j
      BY <1>1, NodesApart
    <3>4. \A i \in 0 .. n + 1 : Node(l, s, i) \in Elems /\ Node(l, s, i) # x
      BY <1>1, <1>4, NodesApart
    <3> HIDE DEF n, s, t
    <3>5. ASSUME NEW i \in 0 .. n + 1
          PROVE  g2.next[Node(l, t, i)] = Node(l, t, i + 1)
                 /\ g2.prev[Node(l, t, i + 1)] = Node(l, t, i)
      <4>1. CASE i < k
        <5>1. i \in 0 .. n /\ i + 1 \in 0 .. n + 1 /\ i <= k /\ i + 1 <= k /\ k \in 0 .. n + 1
              /\ k + 1 \in 0 .. n + 1 /\ i + 1 # k + 1 /\ i # k /\ i + 1 \in 0 .. n + 2
              /\ i \in 0 .. n + 2
          BY <1>2, <4>1
        <5>2. Node(l, t, i) = Node(l, s, i) /\ Node(l, t, i + 1) = Node(l, s, i + 1)
          BY <3>1, <5>1
        <5>3. Node(l, s, i) # Node(l, s, k) /\ Node(l, s, i + 1) # before
          BY <3>3, <5>1
        <5> QED BY <1>6, <3>2, <3>4, <5>1, <5>2, <5>3
      <4>2. CASE i = k
        <5>1. Node(l, t, i) = Node(l, s, k) /\ Node(l, t, i + 1) = x
          BY <1>2, <3>1, <4>2
        <5> QED BY <1>6, <5>1
      <4>3. CASE i = k + 1
        <5>1. Node(l, t, i) = x /\ Node(l, t, i + 1) = before
          BY <1>2, <3>1, <4>3, SMTT(30)
        <5> QED BY <1>6, <5>1
      <4>4. CASE i > k + 1
        <5> DEFINE j == i - 1
        <5>1. j \in 0 .. n /\ j + 1 = i /\ j + 1 \in 0 .. n + 1 /\ j # k /\ j + 1 # k + 1
              /\ k \in 0 .. n + 1 /\ k + 1 \in 0 .. n + 1 /\ j \in 0 .. n + 1
          BY <1>2, <4>4
        <5>2. Node(l, t, i) = Node(l, s, j) /\ Node(l, t, i + 1) = Node(l, s, j + 1)
          BY <1>2, <3>1, <4>4
        <5> HIDE DEF j
        <5>3. Node(l, s, j) # Node(l, s, k) /\ Node(l, s, j + 1) # before
          BY <3>3, <5>1
        <5> QED BY <1>6, <3>2, <3>4, <5>1, <5>2, <5>3
      <4> QED BY <1>2, <4>1, <4>2, <4>3, <4>4
    <3> QED BY <2>2, <3>1, <3>5 DEF Chain, t
  <2> QED BY <2>1, <2>2
<1> QED BY <1>6, <1>7, <1>8 DEF Represents

WithSeq(L, l, s) == [m \in Lists |-> IF m = l THEN s ELSE L[m]]

LEMMA WithSeqTyped ==
    ASSUME NEW L, Typed(L), NEW l \in Lists, NEW s \in Seq(Tags(l))
    PROVE  Typed(WithSeq(L, l, s)) /\ Others(WithSeq(L, l, s), L, l)
           /\ WithSeq(L, l, s)[l] = s
  BY DEF Typed, Others, WithSeq

(* list_append and list_push.                                              *)
LEMMA AppendLinks ==
    ASSUME NEW g, NEW L, NEW l \in Lists, NEW x \in Tags(l), Represents(g, L), Outside(L, x)
    PROVE  Represents(list_append(g, l, x), WithSeq(L, l, Append(L[l], x)))
<1> DEFINE n == Len(L[l])
<1>1. L[l] \in Seq(Tags(l)) /\ Typed(L) /\ n \in Nat
  BY DEF Represents, Typed
<1>2. Append(L[l], x) \in Seq(Tags(l)) /\ Inserted(Append(L[l], x), L[l], n, x)
  BY <1>1 DEF Inserted
<1>3. n \in 0 .. Len(L[l]) /\ Node(l, L[l], n + 1) = tail(l)
  BY <1>1 DEF Node
<1> HIDE DEF n
<1>4. Represents(list_insert_before(g, Node(l, L[l], n + 1), x), WithSeq(L, l, Append(L[l], x)))
  BY <1>1, <1>2, <1>3, WithSeqTyped, Insertion, ZenonT(40)
<1> QED BY <1>3, <1>4, Zenon DEF list_append

LEMMA PushLinks ==
    ASSUME NEW g, NEW L, NEW l \in Lists, NEW x \in Tags(l), Represents(g, L), Outside(L, x)
    PROVE  Represents(list_push(g, l, x), WithSeq(L, l, <<x>> \o L[l]))
<1> DEFINE s == L[l]
           t == <<x>> \o s
<1>1. s \in Seq(Tags(l)) /\ Typed(L) /\ Len(s) \in Nat
  BY DEF Represents, Typed
<1>2. t \in Seq(Tags(l)) /\ Inserted(t, s, 0, x)
  BY <1>1 DEF Inserted
<1>3. 0 \in 0 .. Len(L[l]) /\ Node(l, L[l], 0 + 1) = g.next[head(l)]
  BY <1>1 DEF Node, Represents, Chain
<1> HIDE DEF t
<1>4. Represents(list_insert_before(g, Node(l, L[l], 0 + 1), x), WithSeq(L, l, t))
  BY <1>1, <1>2, <1>3, WithSeqTyped, Insertion, ZenonT(40)
<1> QED BY <1>3, <1>4, Zenon DEF list_push, t

(* list_pop, of a list that is not empty.                                  *)
LEMMA PopLinks ==
    ASSUME NEW g, NEW L, NEW l \in Lists, Represents(g, L), L[l] # <<>>
    PROVE  /\ list_first(g, l) = Head(L[l])
           /\ Represents(list_pop(g, l), WithSeq(L, l, Tail(L[l])))
<1> DEFINE s == L[l]
           n == Len(s)
           t == Tail(s)
           M == WithSeq(L, l, t)
           x == list_first(g, l)
           g2 == list_pop(g, l)
<1>1. /\ Typed(L) /\ Separate(L) /\ DOMAIN g.prev = Elems /\ DOMAIN g.next = Elems
      /\ s \in Seq(Tags(l)) /\ n \in Nat /\ n > 0
  BY DEF Represents, Typed
<1>2. t \in Seq(Tags(l)) /\ Len(t) = n - 1 /\ \A i \in 1 .. n - 1 : t[i] = s[i + 1]
  BY <1>1
<1>3. Typed(M) /\ Others(M, L, l) /\ M[l] = t
  BY <1>1, <1>2, WithSeqTyped
<1>4. \A m \in Lists : Chain(g, m, L[m])
  BY DEF Represents
<1>5. x = Node(l, s, 1) /\ x = s[1]
  BY <1>1, <1>4 DEF Node, list_first, Chain
<1>6. g.next[x] = Node(l, s, 2) /\ g.prev[x] = Node(l, s, 0)
  <2>1. 0 \in 0 .. n /\ 1 \in 0 .. n /\ 0 + 1 = 1 /\ 1 + 1 = 2
    BY <1>1
  <2> QED BY <1>4, <1>5, <2>1 DEF Chain
<1>7. \A m \in Lists : \A i \in 0 .. Len(L[m]) + 1 : Node(m, L[m], i) \in Elems
  BY <1>1, NodesApart
<1>8. \A i, j \in 0 .. n + 1 : Node(l, s, i) = Node(l, s, j) => i = j
  BY <1>1, NodesApart
<1>9. \A m \in Lists \ {l} : \A i \in 0 .. Len(L[m]) + 1, j \in 0 .. n + 1 :
        Node(m, L[m], i) # Node(l, s, j)
  BY <1>1, NodesApart
<1>10. /\ DOMAIN g2.prev = Elems /\ DOMAIN g2.next = Elems
       /\ g2.next[Node(l, s, 0)] = Node(l, s, 2) /\ g2.prev[Node(l, s, 2)] = Node(l, s, 0)
       /\ \A y \in Elems : y # Node(l, s, 0) => g2.next[y] = g.next[y]
       /\ \A y \in Elems : y # Node(l, s, 2) => g2.prev[y] = g.prev[y]
  <2>1. Node(l, s, 0) \in Elems /\ Node(l, s, 2) \in Elems
    BY <1>1, <1>7
  <2> HIDE DEF x, s
  <2>2. g2 = [prev |-> [g.prev EXCEPT ![Node(l, s, 2)] = Node(l, s, 0)],
              next |-> [g.next EXCEPT ![Node(l, s, 0)] = Node(l, s, 2)]]
    BY <1>6, Zenon DEF list_pop, list_remove, x
  <2> HIDE DEF g2
  <2> QED BY <1>1, <2>1, <2>2
<1>11. Separate(M)
  <2>1. ASSUME NEW m \in Lists, NEW i \in 1 .. Len(M[m])
        PROVE  LET v == IF m = l THEN i + 1 ELSE i
               IN  v \in 1 .. Len(L[m]) /\ M[m][i] = L[m][v]
    <3> HIDE DEF M, t, s
    <3>1. CASE m = l
      <4>1. M[m] = t /\ L[m] = s
        BY <1>3, <3>1 DEF s
      <4> QED BY <1>1, <1>2, <3>1, <4>1
    <3>2. CASE m # l
      BY <1>3, <3>2 DEF Others
    <3> QED BY <3>1, <3>2
  <2>2. \A m, p \in Lists : \A i \in 1 .. Len(L[m]), j \in 1 .. Len(L[p]) :
          L[m][i] = L[p][j] => m = p /\ i = j
    BY <1>1 DEF Separate
  <2> SUFFICES ASSUME NEW m \in Lists, NEW p \in Lists, NEW i \in 1 .. Len(M[m]),
                      NEW j \in 1 .. Len(M[p]), M[m][i] = M[p][j]
               PROVE  m = p /\ i = j
    BY DEF Separate
  <2> HIDE DEF M
  <2>3. i \in Nat /\ j \in Nat
    <3>1. M[m] \in Seq(Tags(m)) /\ M[p] \in Seq(Tags(p))
      BY <1>3 DEF Typed
    <3> QED BY <3>1, LenProperties
  <2>4. PICK v \in 1 .. Len(L[m]) : M[m][i] = L[m][v] /\ v = IF m = l THEN i + 1 ELSE i
    BY <2>1
  <2>5. PICK w \in 1 .. Len(L[p]) : M[p][j] = L[p][w] /\ w = IF p = l THEN j + 1 ELSE j
    BY <2>1
  <2>6. m = p /\ v = w
    <3>1. L[m][v] = L[p][w]
      BY <2>4, <2>5
    <3> QED BY <2>2, <3>1
  <2> QED BY <2>3, <2>4, <2>5, <2>6
<1>12. ASSUME NEW m \in Lists
       PROVE  Chain(g2, m, M[m])
  <2> HIDE DEF g2, M, t
  <2>1. CASE m # l
    <3>1. M[m] = L[m] /\ Chain(g, m, L[m]) /\ Len(L[m]) \in Nat
      BY <1>1, <1>3, <1>4, <2>1, NodesApart DEF Others
    <3>2. ASSUME NEW i \in 0 .. Len(L[m]) + 1
          PROVE  Node(m, L[m], i) # Node(l, s, 0) /\ Node(m, L[m], i) # Node(l, s, 2)
      <4>1. 0 \in 0 .. n + 1 /\ 2 \in 0 .. n + 1
        BY <1>1
      <4> QED BY <1>9, <2>1, <4>1
    <3> HIDE DEF s
    <3> QED BY <1>7, <1>10, <3>1, <3>2 DEF Chain
  <2>2. CASE m = l
    <3>1. \A i \in 0 .. n : Node(l, t, i) = IF i = 0 THEN Node(l, s, 0) ELSE Node(l, s, i + 1)
      BY <1>1, <1>2 DEF Node
    <3> HIDE DEF s, n
    <3>2. \A i \in 0 .. n : g.next[Node(l, s, i)] = Node(l, s, i + 1)
                            /\ g.prev[Node(l, s, i + 1)] = Node(l, s, i)
      BY <1>4 DEF Chain, s, n
    <3>3. ASSUME NEW i \in 0 .. n - 1
          PROVE  g2.next[Node(l, t, i)] = Node(l, t, i + 1)
                 /\ g2.prev[Node(l, t, i + 1)] = Node(l, t, i)
      <4>1. CASE i = 0
        <5>1. Node(l, t, i) = Node(l, s, 0) /\ Node(l, t, i + 1) = Node(l, s, 2)
          BY <1>1, <3>1, <4>1
        <5> QED BY <1>10, <5>1
      <4>2. CASE i # 0
        <5> DEFINE j == i + 1
        <5>1. j \in 0 .. n /\ j + 1 \in 0 .. n + 1 /\ j \in 0 .. n + 1 /\ j # 0 /\ j + 1 # 2
              /\ 0 \in 0 .. n + 1 /\ 2 \in 0 .. n + 1
          BY <1>1, <4>2
        <5>2. Node(l, t, i) = Node(l, s, j) /\ Node(l, t, i + 1) = Node(l, s, j + 1)
          BY <1>1, <3>1, <4>2
        <5> HIDE DEF j
        <5>3. Node(l, s, j) # Node(l, s, 0) /\ Node(l, s, j + 1) # Node(l, s, 2)
          BY <1>8, <5>1
        <5>4. Node(l, s, j) \in Elems /\ Node(l, s, j + 1) \in Elems
          BY <1>7, <5>1 DEF s, n
        <5> QED BY <1>10, <3>2, <5>1, <5>2, <5>3, <5>4
      <4> QED BY <4>1, <4>2
    <3> QED BY <1>2, <1>3, <2>2, <3>3 DEF Chain
  <2> QED BY <2>1, <2>2
<1>13. Represents(g2, M)
  <2> HIDE DEF g2, M
  <2> QED BY <1>3, <1>10, <1>11, <1>12 DEF Represents
<1>14. x = Head(s)
  BY <1>1, <1>5
<1> QED BY <1>13, <1>14

-----------------------------------------------------------------------------
(* The naturals are well-founded: a set of them has a least element.       *)
LEMMA LeastNat ==
    ASSUME NEW S \in SUBSET Nat, S # {}
    PROVE  \E m \in S : \A n \in S : m <= n
<1>1. IsWellFoundedOn(OpToRel(<, Nat), Nat)
  BY NatLessThanWellFounded
<1>2. PICK m \in S : \A n \in S : ~ (<<n, m>> \in OpToRel(<, Nat))
  BY <1>1, WFMin
<1>3. ASSUME NEW n \in S, n < m
      PROVE  FALSE
  <2>1. <<n, m>> \in OpToRel(<, Nat)
    BY <1>3, Zenon DEF OpToRel
  <2> QED BY <1>2, <2>1
<1> QED BY <1>3

(* A list is no longer than there are tasks.                               *)
LEMMA FiniteTags ==
    ASSUME NEW l \in Lists
    PROVE  /\ IsFiniteSet(Tags(l)) /\ Cardinality(Tags(l)) <= MaxTasks + 1
           /\ IsFiniteSet(Tasks) /\ Cardinality(Tasks) = MaxTasks + 1
           /\ Cardinality(Tags(l)) \in Nat
<1> DEFINE f == [t \in Tasks |-> tag(l, t)]
<1>1. IsFiniteSet(Tasks) /\ Cardinality(Tasks) = MaxTasks + 1
  <2>1. 0 \in Int /\ MaxTasks \in Int /\ ~(0 > MaxTasks) /\ MaxTasks - 0 + 1 = MaxTasks + 1
    BY SpawnAssumption
  <2> QED BY <2>1, FS_Interval DEF Tasks
<1>2. f \in Surjection(Tasks, Tags(l))
  BY DEF Surjection, Tags
<1> HIDE DEF f
<1>3. IsFiniteSet(Tags(l)) /\ Cardinality(Tags(l)) <= Cardinality(Tasks)
  BY <1>1, <1>2, FS_Surjection
<1> QED BY <1>1, <1>3, FS_CardinalityType

LEMMA FiniteElems == IsFiniteSet(Elems)
<1> DEFINE heads == [l \in Lists |-> head(l)]
           tails == [l \in Lists |-> tail(l)]
           H == {head(l) : l \in Lists}
           T == {tail(l) : l \in Lists}
<1>1. IsFiniteSet(Lists)
  <2>1. Lists = (({"ready"} \cup {"all"}) \cup {"pid_lock"}) \cup {"semaphore"}
    BY DEF Lists
  <2>2. IsFiniteSet({"ready"} \cup {"all"})
    BY FS_Singleton, FS_AddElement
  <2>3. IsFiniteSet(({"ready"} \cup {"all"}) \cup {"pid_lock"})
    BY <2>2, FS_AddElement
  <2> QED BY <2>1, <2>3, FS_AddElement
<1>2. heads \in Surjection(Lists, H) /\ tails \in Surjection(Lists, T)
  BY DEF Surjection
<1> HIDE DEF heads, tails
<1>3. IsFiniteSet(H) /\ IsFiniteSet(T)
  BY <1>1, <1>2, FS_Surjection
<1>4. IsFiniteSet(Tags("ready")) /\ IsFiniteSet(Tags("all"))
  BY FiniteTags DEF Lists
<1>5. Elems = ((H \cup T) \cup Tags("ready")) \cup Tags("all")
  BY DEF Elems, Tags, tag
<1> HIDE DEF H, T
<1> QED BY <1>3, <1>4, <1>5, FS_Union

LEMMA ListFits ==
    ASSUME NEW L, Typed(L), Separate(L), NEW l \in Lists
    PROVE  /\ Len(L[l]) <= Cardinality(Elems) /\ Cardinality(Elems) \in Nat
           /\ Len(L[l]) <= MaxTasks + 1
<1> DEFINE n == Len(L[l])
           f == [i \in 1 .. n |-> L[l][i]]
<1>1. n \in Nat /\ \A i \in 1 .. n : L[l][i] \in Tags(l)
  BY NodesApart
<1>2. f \in Injection(1 .. n, Tags(l))
  BY <1>1 DEF Injection, IsInjective, Separate
<1>3. Cardinality(1 .. n) = n
  <2>1. 1 \in Int /\ n \in Int /\ (IF 1 > n THEN 0 ELSE n - 1 + 1) = n
    BY <1>1
  <2> HIDE DEF n
  <2> QED BY <2>1, FS_Interval
<1>4. IsFiniteSet(Tags(l)) /\ Cardinality(Tags(l)) <= MaxTasks + 1 /\ Cardinality(Tags(l)) \in Nat
  BY FiniteTags
<1> HIDE DEF n, f
<1>5. n <= Cardinality(Tags(l))
  BY <1>2, <1>3, <1>4, FS_Injection
<1>6. Tags(l) \in SUBSET Elems
  BY ElemsApart
<1>7. Cardinality(Tags(l)) <= Cardinality(Elems) /\ Cardinality(Elems) \in Nat
  BY <1>6, FiniteElems, FS_Subset, FS_CardinalityType
<1> QED BY <1>1, <1>4, <1>5, <1>7, SpawnAssumption DEF n

(* What a loop along next has reached after k turns.                       *)
Place(l, s, k) == IF k < Len(s) THEN s[k + 1] ELSE tail(l)

LEMMA Reached ==
    ASSUME NEW g, NEW L, NEW l \in Lists, Represents(g, L)
    PROVE  /\ DOMAIN reached(g, l) = 0 .. Cardinality(Elems)
           /\ \A k \in 0 .. Cardinality(Elems) : reached(g, l)[k] = Place(l, L[l], k)
<1> DEFINE s == L[l]
           n == Len(s)
           C == Cardinality(DOMAIN g.next)
           next(x) == g.next[x]
           Stop(x) == x \in {tail(l), NULL}
           IsAt(f) == f = [k \in 0 .. C |-> IF k = 0 THEN g.next[head(l)]
                                            ELSE IF f[k - 1] \in {tail(l), NULL} THEN f[k - 1]
                                            ELSE g.next[f[k - 1]]]
           place == [k \in 0 .. C |-> Place(l, s, k)]
<1>1. n \in Nat /\ C = Cardinality(Elems) /\ C \in Nat /\ n <= C
  BY ListFits, NodesApart DEF Represents
<1>2. \A i \in 0 .. n : g.next[Node(l, s, i)] = Node(l, s, i + 1)
  BY DEF Represents, Chain
<1>3. \A i \in 1 .. n : s[i] # tail(l) /\ s[i] # NULL
  BY NodesApart, ElemsApart DEF Represents
<1> HIDE DEF s, n, C
<1>4. ASSUME NEW k \in 0 .. C
      PROVE  Place(l, s, k) = IF k = 0 THEN g.next[head(l)]
                              ELSE IF Place(l, s, k - 1) \in {tail(l), NULL} THEN Place(l, s, k - 1)
                              ELSE g.next[Place(l, s, k - 1)]
  <2>1. CASE k = 0
    <3>1. g.next[head(l)] = Node(l, s, 1)
      BY <1>1, <1>2, <2>1 DEF Node
    <3> QED BY <1>1, <2>1, <3>1 DEF Node, Place, n
  <2>2. CASE k # 0 /\ k - 1 < n
    <3>1. Place(l, s, k - 1) = s[k] /\ k \in 1 .. n /\ Node(l, s, k) = s[k]
      BY <1>1, <2>2 DEF Place, n, Node
    <3>2. g.next[s[k]] = Node(l, s, k + 1) /\ s[k] \notin {tail(l), NULL}
      BY <1>1, <1>2, <1>3, <3>1
    <3>3. Node(l, s, k + 1) = Place(l, s, k)
      BY <1>1, <3>1 DEF Place, n, Node
    <3> QED BY <2>2, <3>1, <3>2, <3>3
  <2>3. CASE k # 0 /\ ~(k - 1 < n)
    BY <1>1, <2>3 DEF Place, n
  <2> QED BY <2>1, <2>2, <2>3
<1>5. IsAt(place)
  <2>1. \A k \in 0 .. C : place[k] = IF k = 0 THEN g.next[head(l)]
                               ELSE IF place[k - 1] \in {tail(l), NULL} THEN place[k - 1]
                               ELSE g.next[place[k - 1]]
    <3> SUFFICES ASSUME NEW k \in 0 .. C
                 PROVE  place[k] = IF k = 0 THEN g.next[head(l)]
                               ELSE IF place[k - 1] \in {tail(l), NULL} THEN place[k - 1]
                               ELSE g.next[place[k - 1]]
      OBVIOUS
    <3>1. place[k] = Place(l, s, k) /\ (k # 0 => place[k - 1] = Place(l, s, k - 1))
      BY <1>1
    <3> HIDE DEF place
    <3> QED BY <1>4, <3>1
  <2>2. place = [k \in 0 .. C |-> place[k]]
    OBVIOUS
  <2> HIDE DEF place
  <2> QED BY <2>1, <2>2, Zenon
<1>6. ASSUME NEW f, IsAt(f) PROVE f = place
  <2>1. \A k \in 0 .. C : f[k] = IF k = 0 THEN g.next[head(l)]
                               ELSE IF f[k - 1] \in {tail(l), NULL} THEN f[k - 1]
                               ELSE g.next[f[k - 1]]
    BY <1>6, Zenon
  <2>2. \A k \in 0 .. C : place[k] = IF k = 0 THEN g.next[head(l)]
                               ELSE IF place[k - 1] \in {tail(l), NULL} THEN place[k - 1]
                               ELSE g.next[place[k - 1]]
    BY <1>5, Zenon
  <2> DEFINE D == {k \in 0 .. C : f[k] # place[k]}
  <2> HIDE DEF place, IsAt
  <2>3. D = {}
    <3> SUFFICES ASSUME D # {} PROVE FALSE
      OBVIOUS
    <3>1. D \in SUBSET Nat
      BY <1>1
    <3>2. PICK m \in D : \A k \in D : m <= k
      BY <3>1, LeastNat
    <3>3. m # 0 => m - 1 \in 0 .. C /\ ~(m <= m - 1)
      BY <1>1, <3>2
    <3>4. m # 0 => f[m - 1] = place[m - 1]
      BY <3>2, <3>3
    <3> QED BY <2>1, <2>2, <3>2, <3>4, Zenon
  <2>4. \A k \in 0 .. C : f[k] = place[k]
    BY <2>3
  <2>5. f = [k \in 0 .. C |-> f[k]]
    BY <1>6, Zenon DEF IsAt
  <2>6. place = [k \in 0 .. C |-> place[k]]
    BY <1>5, Zenon DEF IsAt
  <2> QED BY <2>4, <2>5, <2>6
<1> DEFINE c == CHOOSE f : IsAt(f)
<1>7. reached(g, l) = c
  BY Zenon DEF reached, C
<1>8. IsAt(c)
  BY <1>5, Zenon
<1> HIDE DEF c, IsAt
<1>9. c = place
  BY <1>6, <1>8
<1> QED BY <1>1, <1>7, <1>9 DEF s

(* The operations see the sequence the links represent.                    *)
LEMMA ListSeen ==
    ASSUME NEW g, NEW L, NEW l \in Lists, Represents(g, L)
    PROVE  /\ elements(g, l) = L[l] /\ Intact(g, l)
           /\ list_empty(g, l) <=> L[l] = <<>>
           /\ list_first(g, l) = IF L[l] = <<>> THEN tail(l) ELSE L[l][1]
<1> DEFINE s == L[l]
           n == Len(s)
           path == reached(g, l)
           C == Cardinality(Elems)
<1>1. /\ s \in Seq(Tags(l)) /\ n \in Nat /\ C \in Nat /\ n <= C /\ DOMAIN path = 0 .. C
      /\ \A k \in 0 .. C : path[k] = Place(l, s, k)
  BY Reached, ListFits, NodesApart DEF Represents, Typed
<1>2. \A i \in 1 .. n : s[i] # tail(l)
  BY NodesApart, ElemsApart DEF Represents
<1>3. \A i \in 0 .. n : /\ g.next[Node(l, s, i)] = Node(l, s, i + 1)
                        /\ g.prev[Node(l, s, i + 1)] = Node(l, s, i)
  BY DEF Represents, Chain
<1>4. list_first(g, l) = Node(l, s, 1)
  BY <1>1, <1>3 DEF Node, list_first
<1>5. (n = 0 <=> s = <<>>) /\ (s = <<>> => Node(l, s, 1) = tail(l))
      /\ (s # <<>> => Node(l, s, 1) = s[1] /\ 1 \in 1 .. n)
  BY <1>1 DEF Node
<1>6. list_empty(g, l) <=> s = <<>>
  BY <1>2, <1>4, <1>5 DEF list_empty, list_first
<1> HIDE DEF n, s, C, path
<1>7. \A k \in 0 .. n : path[k] = Node(l, s, k + 1)
  BY <1>1 DEF Place, Node, n
<1>8. Intact(g, l)
  <2>1. n \in DOMAIN path /\ path[n] = tail(l)
    BY <1>1 DEF Place, n
  <2>2. g.prev[path[0]] = head(l)
    BY <1>1, <1>3, <1>7 DEF Node
  <2>3. \A i \in 1 .. n : g.prev[path[i]] = path[i - 1]
    BY <1>1, <1>3, <1>7
  <2> QED BY <2>1, <2>2, <2>3 DEF Intact, path
<1>9. n \in DOMAIN path /\ path[n] = tail(l) /\ \A j \in 0 .. n - 1 : path[j] # tail(l)
  BY <1>1, <1>2 DEF Place, n
<1>10. ASSUME NEW i \in DOMAIN path, path[i] = tail(l), \A j \in 0 .. i - 1 : path[j] # tail(l)
       PROVE  i = n
  BY <1>1, <1>9, <1>10
<1> DEFINE last == CHOOSE i \in DOMAIN path : path[i] = tail(l) /\ \A j \in 0 .. i - 1 : path[j] # tail(l)
<1>11. last = n
  BY <1>9, <1>10
<1>12. elements(g, l) = [i \in 1 .. last |-> path[i - 1]]
  BY Zenon DEF elements, path
<1> HIDE DEF last
<1>13. elements(g, l) = [i \in 1 .. n |-> path[i - 1]]
  BY <1>11, <1>12
<1>14. \A i \in 1 .. n : path[i - 1] = s[i]
  BY <1>1 DEF Place, n
<1>15. s = [i \in 1 .. n |-> s[i]]
  BY <1>1 DEF n
<1>16. elements(g, l) = s
  BY <1>13, <1>14, <1>15
<1> QED BY <1>4, <1>5, <1>6, <1>8, <1>16 DEF s

-----------------------------------------------------------------------------
(* The sequences in the links g, and the tasks that are in them.           *)
queue_of(g) == [l \in Lists |-> elements(g, l)]

Links(g) == /\ Represents(g, queue_of(g))
            /\ \A x \in Elems : g.next[x] \in Elems \cup {NULL}

In(g, l, t) == \E i \in 1 .. Len(queue_of(g)[l]) : queue_of(g)[l][i] = tag(l, t)

Points(g, y) == \E x \in Elems : g.next[x] = y

(* The lists that link the same tags.                                      *)
Kin(l) == IF l = "all" THEN {"all"} ELSE Lists \ {"all"}

LEMMA QueueIs ==
    ASSUME NEW g, NEW L, NEW l, NEW s, Represents(g, WithSeq(L, l, s))
    PROVE  queue_of(g) = WithSeq(L, l, s) /\ Represents(g, queue_of(g))
<1>1. \A m \in Lists : elements(g, m) = WithSeq(L, l, s)[m]
  BY ListSeen
<1>2. queue_of(g) = WithSeq(L, l, s)
  BY <1>1 DEF queue_of, WithSeq
<1> QED BY <1>2

LEMMA InTyped ==
    ASSUME NEW g, Links(g), NEW l \in Lists
    PROVE  /\ queue_of(g)[l] \in Seq(Tags(l)) /\ Len(queue_of(g)[l]) \in Nat
           /\ \A i \in 1 .. Len(queue_of(g)[l]) :
                \E t \in Tasks : queue_of(g)[l][i] = tag(l, t) /\ In(g, l, t)
<1>1. queue_of(g)[l] \in Seq(Tags(l))
  BY DEF Links, Represents, Typed
<1>2. Len(queue_of(g)[l]) \in Nat /\ \A i \in 1 .. Len(queue_of(g)[l]) : queue_of(g)[l][i] \in Tags(l)
  BY <1>1
<1> QED BY <1>1, <1>2 DEF Tags, In

LEMMA OutsideIs ==
    ASSUME NEW g, Links(g), NEW l \in Lists, NEW t \in Tasks, \A m \in Kin(l) : ~In(g, m, t)
    PROVE  Outside(queue_of(g), tag(l, t)) /\ tag(l, t) \in Tags(l)
<1>1. tag(l, t) \in Tags(l)
  BY DEF Tags
<1>2. ASSUME NEW m \in Lists, NEW i \in 1 .. Len(queue_of(g)[m]), queue_of(g)[m][i] = tag(l, t)
      PROVE  FALSE
  <2>1. PICK u \in Tasks : queue_of(g)[m][i] = tag(m, u) /\ In(g, m, u)
    BY InTyped
  <2>2. tag(m, u) = tag(l, t)
    BY <1>2, <2>1
  <2>3. m \in Kin(l) /\ u = t
    BY <2>2, ElemsApart DEF Kin, tag, Lists, general_tag, all_list_tag
  <2> QED BY <2>1, <2>3
<1> QED BY <1>1, <1>2 DEF Outside

(* What the operations see, and what they make of the lists.               *)
LEMMA Seen ==
    ASSUME NEW g, Links(g), NEW l \in Lists
    PROVE  /\ \A t \in Tasks : elem_find(g, l, tag(l, t)) <=> In(g, l, t)
           /\ list_empty(g, l) <=> queue_of(g)[l] = <<>>
           /\ list_empty(g, l) <=> \A t \in Tasks : ~In(g, l, t)
           /\ list_first(g, l) \in Elems
<1> DEFINE s == queue_of(g)[l]
<1>1. /\ elements(g, l) = s /\ (list_empty(g, l) <=> s = <<>>)
      /\ list_first(g, l) = IF s = <<>> THEN tail(l) ELSE s[1]
  BY ListSeen DEF Links
<1>2. s \in Seq(Tags(l)) /\ DOMAIN s = 1 .. Len(s) /\ (s = <<>> <=> Len(s) = 0) /\ Len(s) \in Nat
      /\ \A i \in 1 .. Len(s) : s[i] \in Tags(l)
  BY InTyped
<1>3. \A t \in Tasks : elem_find(g, l, tag(l, t)) <=> In(g, l, t)
  BY <1>1, <1>2 DEF elem_find, In
<1>4. s = <<>> <=> \A t \in Tasks : ~In(g, l, t)
  <2>1. ASSUME s # <<>> PROVE \E t \in Tasks : In(g, l, t)
    <3>1. 1 \in 1 .. Len(s)
      BY <1>2, <2>1
    <3> QED BY <3>1, InTyped
  <2>2. ASSUME s = <<>>, NEW t \in Tasks PROVE ~In(g, l, t)
    <3>1. 1 .. Len(s) = {}
      BY <1>2, <2>2
    <3> QED BY <3>1 DEF In
  <2> QED BY <2>1, <2>2
<1>5. list_first(g, l) \in Elems
  <2>1. CASE s = <<>>
    BY <1>1, <2>1, ElemsApart
  <2>2. CASE s # <<>>
    <3>1. 1 \in 1 .. Len(s)
      BY <1>2, <2>2
    <3> QED BY <1>1, <1>2, <2>2, <3>1, ElemsApart
  <2> QED BY <2>1, <2>2
<1> QED BY <1>1, <1>3, <1>4, <1>5

LEMMA NextOfInsert ==
    ASSUME NEW g, NEW before \in Elems, NEW x \in Elems, DOMAIN g.next = Elems,
           g.prev[before] \in Elems, \A y \in Elems : g.next[y] \in Elems \cup {NULL}
    PROVE  LET g2 == list_insert_before(g, before, x)
           IN  /\ \A y \in Elems : g2.next[y] \in Elems \cup {NULL}
               /\ \A y : Points(g2, y) => Points(g, y) \/ y = x \/ y = before
<1> DEFINE nx == [g.next EXCEPT ![g.prev[before]] = x, ![x] = before]
<1>1. list_insert_before(g, before, x).next = nx
  BY DEF list_insert_before
<1>2. \A y \in Elems : nx[y] = g.next[y] \/ nx[y] = x \/ nx[y] = before
  OBVIOUS
<1> HIDE DEF nx
<1> QED BY <1>1, <1>2 DEF Points

LEMMA Appending ==
    ASSUME NEW g, Links(g), NEW l \in Lists, NEW t \in Tasks, \A m \in Kin(l) : ~In(g, m, t)
    PROVE  LET g2 == list_append(g, l, tag(l, t))
           IN  /\ Links(g2)
               /\ queue_of(g2) = WithSeq(queue_of(g), l, Append(queue_of(g)[l], tag(l, t)))
               /\ \A m \in Lists, u \in Tasks : In(g2, m, u) <=> In(g, m, u) \/ (m = l /\ u = t)
               /\ \A y \in Elems : Points(g2, y) => Points(g, y) \/ y = tag(l, t) \/ y = tail(l)
<1> DEFINE g2 == list_append(g, l, tag(l, t))
           s == queue_of(g)[l]
           M == WithSeq(queue_of(g), l, Append(s, tag(l, t)))
<1>1. Outside(queue_of(g), tag(l, t)) /\ tag(l, t) \in Tags(l)
  BY OutsideIs
<1>2. Represents(g2, M)
  BY <1>1, AppendLinks DEF Links
<1>3. queue_of(g2) = M /\ Represents(g2, queue_of(g2))
  BY <1>2, QueueIs
<1>4. s \in Seq(Tags(l)) /\ Len(s) \in Nat
  BY InTyped
<1>5. tail(l) \in Elems /\ tag(l, t) \in Elems /\ g.prev[tail(l)] \in Elems /\ DOMAIN g.next = Elems
  <2>1. g.prev[tail(l)] = Node(l, s, Len(s)) /\ Len(s) \in 0 .. Len(s) + 1
    BY <1>4 DEF Links, Represents, Chain, Node
  <2> QED BY <1>1, <1>4, <2>1, ElemsApart, NodesApart DEF Links, Represents
<1>6. /\ \A y \in Elems : g2.next[y] \in Elems \cup {NULL}
      /\ \A y : Points(g2, y) => Points(g, y) \/ y = tag(l, t) \/ y = tail(l)
  BY <1>5, NextOfInsert DEF Links, list_append
<1>7. ASSUME NEW m \in Lists, NEW u \in Tasks
      PROVE  In(g2, m, u) <=> In(g, m, u) \/ (m = l /\ u = t)
  <2> HIDE DEF g2
  <2>1. CASE m # l
    <3>1. queue_of(g2)[m] = queue_of(g)[m]
      BY <1>3, <2>1 DEF WithSeq
    <3>2. In(g2, m, u) <=> In(g, m, u)
      BY <3>1, Zenon DEF In
    <3> QED BY <2>1, <3>2
  <2>2. CASE m = l
    <3> DEFINE s2 == Append(s, tag(l, t))
    <3>1. queue_of(g2)[m] = s2 /\ queue_of(g)[m] = s
      BY <1>3, <2>2 DEF WithSeq
    <3>2. Len(s2) = Len(s) + 1 /\ s2[Len(s) + 1] = tag(l, t) /\ \A i \in 1 .. Len(s) : s2[i] = s[i]
      BY <1>1, <1>4
    <3> HIDE DEF s, s2
    <3>3. (\E i \in 1 .. Len(s2) : s2[i] = tag(m, u)) <=>
            (\E i \in 1 .. Len(s) : s[i] = tag(m, u)) \/ tag(l, t) = tag(m, u)
      BY <1>4, <3>2
    <3>7. tag(l, t) = tag(m, u) <=> u = t
      BY <2>2, ElemsApart
    <3>8. In(g2, m, u) <=> \E i \in 1 .. Len(s2) : s2[i] = tag(m, u)
      BY <3>1, SMT DEF In
    <3>9. In(g, m, u) <=> \E i \in 1 .. Len(s) : s[i] = tag(m, u)
      BY <3>1, SMT DEF In
    <3> QED BY <2>2, <3>3, <3>7, <3>8, <3>9
  <2> QED BY <2>1, <2>2
<1> QED BY <1>3, <1>6, <1>7 DEF Links

LEMMA Pushing ==
    ASSUME NEW g, Links(g), NEW l \in Lists, NEW t \in Tasks, \A m \in Kin(l) : ~In(g, m, t)
    PROVE  LET g2 == list_push(g, l, tag(l, t))
           IN  /\ Links(g2)
               /\ queue_of(g2) = WithSeq(queue_of(g), l, <<tag(l, t)>> \o queue_of(g)[l])
               /\ \A m \in Lists, u \in Tasks : In(g2, m, u) <=> In(g, m, u) \/ (m = l /\ u = t)
               /\ \A y \in Elems : Points(g2, y) => Points(g, y) \/ y = tag(l, t)
<1> DEFINE g2 == list_push(g, l, tag(l, t))
           s == queue_of(g)[l]
           s2 == <<tag(l, t)>> \o s
           M == WithSeq(queue_of(g), l, s2)
           before == g.next[head(l)]
<1>1. Outside(queue_of(g), tag(l, t)) /\ tag(l, t) \in Tags(l)
  BY OutsideIs
<1>2. Represents(g2, M)
  BY <1>1, PushLinks DEF Links
<1>3. queue_of(g2) = M /\ Represents(g2, queue_of(g2))
  BY <1>2, QueueIs
<1>4. s \in Seq(Tags(l)) /\ Len(s) \in Nat
  BY InTyped
<1>5. before \in Elems /\ tag(l, t) \in Elems /\ g.prev[before] \in Elems /\ DOMAIN g.next = Elems
      /\ head(l) \in Elems
  <2>1. before = Node(l, s, 1) /\ g.prev[Node(l, s, 1)] = Node(l, s, 0)
    BY <1>4 DEF Links, Represents, Chain, Node
  <2>2. 0 \in 0 .. Len(s) + 1 /\ 1 \in 0 .. Len(s) + 1
    BY <1>4
  <2> HIDE DEF before
  <2> QED BY <1>1, <2>1, <2>2, ElemsApart, NodesApart DEF Links, Represents
<1>6. /\ \A y \in Elems : g2.next[y] \in Elems \cup {NULL}
      /\ \A y : Points(g2, y) => Points(g, y) \/ y = tag(l, t) \/ y = before
  BY <1>5, NextOfInsert DEF Links, list_push
<1>7. Points(g, before)
  BY <1>5 DEF Points
<1>8. ASSUME NEW m \in Lists, NEW u \in Tasks
      PROVE  In(g2, m, u) <=> In(g, m, u) \/ (m = l /\ u = t)
  <2> HIDE DEF g2
  <2>1. CASE m # l
    <3>1. queue_of(g2)[m] = queue_of(g)[m]
      BY <1>3, <2>1 DEF WithSeq
    <3>2. In(g2, m, u) <=> In(g, m, u)
      BY <3>1, Zenon DEF In
    <3> QED BY <2>1, <3>2
  <2>2. CASE m = l
    <3>1. queue_of(g2)[m] = s2 /\ queue_of(g)[m] = s
      BY <1>3, <2>2 DEF WithSeq
    <3>2. Len(s2) = Len(s) + 1 /\ s2[1] = tag(l, t) /\ \A i \in 1 .. Len(s) : s2[i + 1] = s[i]
      BY <1>1, <1>4
    <3> HIDE DEF s, s2
    <3>3. ASSUME NEW i \in 1 .. Len(s2) PROVE s2[i] = tag(l, t) \/ \E j \in 1 .. Len(s) : s2[i] = s[j]
      <4>1. CASE i = 1
        BY <3>2, <4>1
      <4>2. CASE i # 1
        <5>1. i - 1 \in 1 .. Len(s) /\ (i - 1) + 1 = i
          BY <1>4, <3>2, <4>2
        <5> QED BY <3>2, <5>1
      <4> QED BY <4>1, <4>2
    <3>4. \A i \in 1 .. Len(s) : i + 1 \in 1 .. Len(s2)
      BY <1>4, <3>2
    <3>5. 1 \in 1 .. Len(s2)
      BY <1>4, <3>2
    <3>6. (\E i \in 1 .. Len(s2) : s2[i] = tag(m, u)) <=>
            (\E i \in 1 .. Len(s) : s[i] = tag(m, u)) \/ tag(l, t) = tag(m, u)
      BY <3>2, <3>3, <3>4, <3>5, SMTT(30)
    <3>7. tag(l, t) = tag(m, u) <=> u = t
      BY <2>2, ElemsApart
    <3>8. In(g2, m, u) <=> \E i \in 1 .. Len(s2) : s2[i] = tag(m, u)
      BY <3>1, SMT DEF In
    <3>9. In(g, m, u) <=> \E i \in 1 .. Len(s) : s[i] = tag(m, u)
      BY <3>1, SMT DEF In
    <3> QED BY <2>2, <3>6, <3>7, <3>8, <3>9
  <2> QED BY <2>1, <2>2
<1> QED BY <1>3, <1>6, <1>7, <1>8 DEF Links

LEMMA Popping ==
    ASSUME NEW g, Links(g), NEW l \in Lists, ~list_empty(g, l)
    PROVE  LET g2 == list_pop(g, l)
               t == task_of(list_first(g, l))
           IN  /\ t \in Tasks /\ list_first(g, l) = tag(l, t) /\ In(g, l, t)
               /\ queue_of(g)[l] # <<>> /\ list_first(g, l) = Head(queue_of(g)[l])
               /\ Links(g2)
               /\ queue_of(g2) = WithSeq(queue_of(g), l, Tail(queue_of(g)[l]))
               /\ \A m \in Lists, u \in Tasks : In(g2, m, u) <=> In(g, m, u) /\ ~(m = l /\ u = t)
               /\ \A y \in Elems : Points(g2, y) => Points(g, y)
<1> DEFINE g2 == list_pop(g, l)
           x == list_first(g, l)
           t == task_of(x)
           s == queue_of(g)[l]
           s2 == Tail(s)
           M == WithSeq(queue_of(g), l, s2)
<1>1. s # <<>> /\ s \in Seq(Tags(l)) /\ Len(s) \in Nat /\ Len(s) > 0
  BY InTyped, Seen
<1>2. x = Head(s) /\ Represents(g2, M)
  BY <1>1, PopLinks DEF Links
<1>3. queue_of(g2) = M /\ Represents(g2, queue_of(g2))
  BY <1>2, QueueIs
<1>4. 1 \in 1 .. Len(s) /\ x = s[1]
  BY <1>1, <1>2
<1>5. t \in Tasks /\ x = tag(l, t) /\ In(g, l, t)
  <2>1. PICK u \in Tasks : s[1] = tag(l, u) /\ In(g, l, u)
    BY <1>4, InTyped
  <2>2. t = u
    BY <1>4, <2>1, ElemsApart
  <2> QED BY <1>4, <2>1, <2>2
<1>6. Len(s2) = Len(s) - 1 /\ \A i \in 1 .. Len(s) - 1 : s2[i] = s[i + 1]
  BY <1>1
<1>7. \A i, j \in 1 .. Len(s) : s[i] = s[j] => i = j
  BY DEF Links, Represents, Separate
<1>8. ASSUME NEW m \in Lists, NEW u \in Tasks
      PROVE  In(g2, m, u) <=> In(g, m, u) /\ ~(m = l /\ u = t)
  <2> HIDE DEF g2, t
  <2>1. CASE m # l
    <3>1. queue_of(g2)[m] = queue_of(g)[m]
      BY <1>3, <2>1 DEF WithSeq
    <3>2. In(g2, m, u) <=> In(g, m, u)
      BY <3>1, Zenon DEF In
    <3> QED BY <2>1, <3>2
  <2>2. CASE m = l
    <3>1. queue_of(g2)[m] = s2 /\ queue_of(g)[m] = s
      BY <1>3, <2>2 DEF WithSeq
    <3> HIDE DEF s, s2, x
    <3>2. \A i \in 1 .. Len(s2) : i + 1 \in 1 .. Len(s) /\ s2[i] = s[i + 1] /\ i + 1 # 1
      BY <1>1, <1>6
    <3>3. \A i \in 1 .. Len(s) : i = 1 \/ (i - 1 \in 1 .. Len(s2) /\ s2[i - 1] = s[i])
      <4> SUFFICES ASSUME NEW i \in 1 .. Len(s), i # 1
                   PROVE  i - 1 \in 1 .. Len(s2) /\ s2[i - 1] = s[i]
        OBVIOUS
      <4>1. i - 1 \in 1 .. Len(s) - 1 /\ (i - 1) + 1 = i
        BY <1>1
      <4> QED BY <1>6, <4>1
    <3>4. (\E i \in 1 .. Len(s2) : s2[i] = tag(m, u)) <=>
            (\E i \in 1 .. Len(s) : s[i] = tag(m, u)) /\ s[1] # tag(m, u)
      <4>1. ASSUME NEW i \in 1 .. Len(s2), s2[i] = tag(m, u)
            PROVE  (\E j \in 1 .. Len(s) : s[j] = tag(m, u)) /\ s[1] # tag(m, u)
        BY <1>4, <1>7, <3>2, <4>1
      <4>2. ASSUME NEW i \in 1 .. Len(s), s[i] = tag(m, u), s[1] # tag(m, u)
            PROVE  \E j \in 1 .. Len(s2) : s2[j] = tag(m, u)
        BY <3>3, <4>2
      <4> QED BY <4>1, <4>2
    <3>5. s[1] = tag(m, u) <=> u = t
      BY <1>4, <1>5, <2>2, ElemsApart
    <3> QED BY <2>2, <3>1, <3>4, <3>5 DEF In
  <2> QED BY <2>1, <2>2
<1>9. /\ \A y \in Elems : g2.next[y] \in Elems \cup {NULL}
      /\ \A y \in Elems : Points(g2, y) => Points(g, y)
  <2>1. g2.next = [g.next EXCEPT ![g.prev[x]] = g.next[x]]
    BY DEF list_pop, list_remove
  <2>2. DOMAIN g.next = Elems /\ x \in Elems /\ \A y \in Elems : g.next[y] \in Elems \cup {NULL}
    BY Seen DEF Links, Represents
  <2>3. \A y \in Elems : g2.next[y] = g.next[y] \/ g2.next[y] = g.next[x]
    BY <2>1, <2>2
  <2> HIDE DEF g2, x
  <2> QED BY <2>2, <2>3 DEF Points
<1> QED BY <1>1, <1>2, <1>3, <1>5, <1>8, <1>9 DEF Links

-----------------------------------------------------------------------------
(* The steps of a creator while it has a task to create; before the pid is *)
(* stored that task has no status, before it is ready it is on no list.    *)
Unborn == {"allocate_pid", "increment", "lock_release", "return_pid"}
Unlinked == Unborn \cup {"create_user_vaddr_bitmap", "create_page_dir", "sema_down",
                         "set_holder", "set_repeat", "put_str", "clear_repeat", "sema_up",
                         "enqueue", "elem_find", "append_ready"}
Creating == Unlinked \cup {"append_all"}
Critical == {"increment", "lock_release"}
Labels == Creating \cup {"run", "start_process", "user"}

Fresh(t) == status[t] = "none" \/ \E c \in Tasks : new[c] = t /\ pc[c] \in Unlinked
Complete(t) == pid[t] # 0 /\ \A c \in Tasks : new[c] # t

SpawnTypes ==
    /\ TypeOK
    /\ pc \in [Tasks -> Labels] /\ walk \in [Tasks -> Elems \cup {NULL}]
    /\ kind \in [Tasks -> {"thread", "process"}] /\ older \in [Tasks -> SUBSET Tasks]

(* Where each task is.                                                     *)
Placed(t) ==
    /\ status[t] = "TASK_RUNNING" <=> t = cur
    /\ In(h, "ready", t) <=> status[t] = "TASK_READY" /\ ~Fresh(t)
    /\ In(h, "pid_lock", t) <=> status[t] = "TASK_BLOCKED" /\ pc[t] = "allocate_pid"
    /\ In(h, "semaphore", t) <=> status[t] = "TASK_BLOCKED" /\ pc[t] = "run"
    /\ status[t] = "TASK_BLOCKED" => pc[t] \in {"allocate_pid", "run"}
    /\ In(h, "all", t) <=> Complete(t)
    /\ Fresh(t) => status[t] \in {"none", "TASK_READY"} /\ pc[t] \in {"run", "start_process"}

PlacesInv == \A t \in Tasks : Placed(t)

(* Each creator has a task of its own, and what it has not done yet is not *)
(* there yet.                                                              *)
CreatorsInv ==
    /\ \A c \in Tasks :
         /\ new[c] # NULL <=> pc[c] \in Creating
         /\ new[c] # NULL => new[c] \in 1 .. created /\ new[c] # c
         /\ pc[c] \in {"create_user_vaddr_bitmap", "create_page_dir"} =>
              kind[new[c]] = "process"
    /\ \A c, d \in Tasks : new[c] # NULL /\ new[c] = new[d] => c = d

CreatedInv ==
    \A t \in Tasks :
        /\ status[t] = "none" <=> (t > created \/ \E c \in Tasks : new[c] = t /\ pc[c] \in Unborn)
        /\ pid[t] # 0 <=> status[t] # "none"
        /\ status[t] = "none" => ~pgdir[t]
        /\ kind[t] = "thread" => ~pgdir[t]
        /\ pc[t] = "user" => pgdir[t]
        /\ pc[t] = "start_process" =>
             \/ pgdir[t]
             \/ pages = 0
             \/ \E c \in Tasks :
                  new[c] = t /\ pc[c] \in {"create_user_vaddr_bitmap", "create_page_dir"}

(* A task whose creator has counted has no older task with this number.    *)
PidInv ==
    /\ next_pid >= 1
    /\ \A t \in Tasks : pid[t] <= next_pid /\ \A u \in older[t] : pid[u] # 0
    /\ \A c \in Tasks : pc[c] \in {"lock_release", "return_pid"} =>
         \A u \in older[new[c]] : pid[u] < next_pid
    /\ PidsGrow

(* Whoever waits for pid_lock will be woken, or has been.                  *)
PidLockInv ==
    /\ pid_lock \in {0, 1}
    /\ pid_lock = 0 <=> \E c \in Tasks : pc[c] \in Critical
    /\ \A c, d \in Tasks : pc[c] \in Critical /\ pc[d] \in Critical => c = d
    /\ status[0] = "TASK_BLOCKED" => pc[0] = "allocate_pid"
    /\ (\E t \in Tasks : status[t] = "TASK_BLOCKED" /\ pc[t] = "allocate_pid") =>
         \/ pid_lock = 0
         \/ \E t \in Tasks : pc[t] = "allocate_pid" /\ status[t] # "TASK_BLOCKED"

SpaceInv ==
    /\ cr3 = IF pgdir[cur] THEN cur ELSE 0
    /\ pgdir[cur] => esp0 = cur
    /\ panic # "none" => pages = 0

(* No walk and no link leads to a task that has not been linked.           *)
WalkInv ==
    \A t \in Tasks : Fresh(t) => /\ ~Points(h, general_tag(t))
                                 /\ \A c \in Tasks : walk[c] # general_tag(t)

(* console_lock is free, but for somebody who got no page.                 *)
Printing == {"sema_down", "set_holder", "set_repeat", "put_str", "clear_repeat", "sema_up"}

ConsoleInv == console # unlocked \/ (\E c \in Tasks : pc[c] \in Printing) => pages = 0

SpawnInv ==
    /\ SpawnTypes /\ Links(h) /\ PlacesInv /\ CreatorsInv /\ CreatedInv
    /\ PidInv /\ PidLockInv /\ SpaceInv /\ WalkInv

-----------------------------------------------------------------------------
LEMMA TagIs ==
    /\ \A t : \A l \in Lists \ {"all"} : tag(l, t) = general_tag(t)
    /\ \A t : tag("all", t) = all_list_tag(t)
    /\ \A t \in Tasks : general_tag(t) \in Elems /\ all_list_tag(t) \in Elems
    /\ \A t, u : general_tag(t) = general_tag(u) => t = u
    /\ \A t, u : general_tag(t) # all_list_tag(u)
    /\ \A t : \A l \in Lists : general_tag(t) # tail(l)
    /\ Kin("all") = {"all"} /\ \A l \in Lists \ {"all"} : Kin(l) = Lists \ {"all"}
    /\ Lists \ {"all"} = {"ready", "pid_lock", "semaphore"}
    /\ "ready" \in Lists /\ "all" \in Lists /\ "pid_lock" \in Lists /\ "semaphore" \in Lists
  BY DEF tag, general_tag, all_list_tag, Elems, tail, Kin, Lists

LEMMA TaskZero == 0 \in Tasks /\ NULL \notin Tasks /\ \A t \in Tasks : t \in Nat /\ t <= MaxTasks
  BY SpawnAssumption, NullAssumption DEF Tasks

(* The running task, and a task that is being created, are on no list of   *)
(* tasks that are ready or wait.                                           *)
LEMMA Running ==
    ASSUME SpawnInv
    PROVE  /\ cur \in Tasks /\ status[cur] = "TASK_RUNNING" /\ ~Fresh(cur)
           /\ \A l \in Lists \ {"all"} : ~In(h, l, cur)
<1>1. cur \in Tasks /\ Placed(cur)
  BY DEF SpawnInv, SpawnTypes, TypeOK, PlacesInv
<1> QED BY <1>1, TagIs DEF Placed

LEMMA FreshOnNoList ==
    ASSUME SpawnInv, NEW t \in Tasks, Fresh(t)
    PROVE  \A l \in Lists \ {"all"} : ~In(h, l, t)
<1>1. Placed(t)
  BY DEF SpawnInv, PlacesInv
<1> QED BY <1>1, TagIs DEF Placed

LEMMA NewTask ==
    ASSUME SpawnInv, NEW c \in Tasks, pc[c] \in Creating
    PROVE  /\ new[c] \in Tasks /\ new[c] # c /\ new[c] # 0
           /\ new[c] = cur => pc[c] = "append_all"
           /\ ~Complete(new[c]) /\ ~In(h, "all", new[c])
           /\ \A d \in Tasks : new[d] = new[c] => d = c
           /\ pc[c] \in Unlinked => Fresh(new[c])
           /\ pc[c] \in Unborn <=> status[new[c]] = "none"
           /\ pc[c] = "append_all" => ~Fresh(new[c])
<1>1. /\ new[c] \in 1 .. created /\ new[c] # c /\ new[c] # NULL
      /\ \A d \in Tasks : new[c] = new[d] => d = c
  BY DEF SpawnInv, CreatorsInv
<1>2. new[c] \in Tasks /\ new[c] # 0 /\ ~(new[c] > created)
  BY <1>1 DEF SpawnInv, SpawnTypes, TypeOK, Tasks
<1>3. Placed(new[c])
  BY <1>2 DEF SpawnInv, PlacesInv
<1>4. ~Complete(new[c]) /\ ~In(h, "all", new[c])
  BY <1>3 DEF Complete, Placed
<1>5. pc[c] \in Unlinked => Fresh(new[c])
  BY <1>2 DEF Fresh
<1>6. pc[c] \in Unborn <=> status[new[c]] = "none"
  BY <1>1, <1>2 DEF SpawnInv, CreatedInv
<1>7. pc[c] = "append_all" => ~Fresh(new[c])
  BY <1>1, <1>2, <1>6 DEF Fresh, Unlinked, Unborn
<1>8. Fresh(new[c]) => new[c] # cur
  BY Running
<1> QED BY <1>1, <1>2, <1>4, <1>5, <1>6, <1>7, <1>8 DEF Creating

-----------------------------------------------------------------------------
(* A panic leaves everything as it is.                                     *)
LEMMA PanicStep ==
    ASSUME SpawnInv, NEW r, panic_spin(r), pages = 0
    PROVE  SpawnInv'
<1>1. /\ h' = h /\ status' = status /\ kind' = kind /\ pid' = pid /\ pgdir' = pgdir
      /\ created' = created /\ pages' = pages /\ older' = older /\ next_pid' = next_pid
      /\ pid_lock' = pid_lock /\ cur' = cur /\ cr3' = cr3 /\ esp0' = esp0 /\ console' = console
      /\ pc' = pc /\ new' = new /\ walk' = walk
  BY DEF panic_spin, list_vars, new_vars, pid_vars, cpu_vars
<1>2. SpawnTypes' /\ Links(h')
  BY <1>1 DEF SpawnInv, SpawnTypes, TypeOK
<1>3. \A t \in Tasks : (Fresh(t) <=> Fresh(t)') /\ (Complete(t) <=> Complete(t)')
  BY <1>1 DEF Fresh, Complete
<1>4. PlacesInv' /\ WalkInv'
  BY <1>1, <1>3 DEF SpawnInv, PlacesInv, Placed, WalkInv
<1>5. CreatorsInv' /\ CreatedInv'
  BY <1>1 DEF SpawnInv, CreatorsInv, CreatedInv
<1>6. PidInv' /\ PidLockInv'
  BY <1>1 DEF SpawnInv, PidInv, PidLockInv, PidsGrow
<1>7. SpaceInv'
  BY <1>1 DEF SpawnInv, SpaceInv
<1> QED BY <1>2, <1>4, <1>5, <1>6, <1>7 DEF SpawnInv

LEMMA Stutter ==
    ASSUME SpawnInv, UNCHANGED vars
    PROVE  SpawnInv'
<1>1. /\ h' = h /\ status' = status /\ kind' = kind /\ pid' = pid /\ pgdir' = pgdir
      /\ created' = created /\ pages' = pages /\ older' = older /\ next_pid' = next_pid
      /\ pid_lock' = pid_lock /\ cur' = cur /\ cr3' = cr3 /\ esp0' = esp0 /\ console' = console
      /\ pc' = pc /\ new' = new /\ walk' = walk /\ panic' = panic
  BY DEF vars, list_vars, new_vars, pid_vars, cpu_vars
<1>2. SpawnTypes' /\ Links(h')
  BY <1>1 DEF SpawnInv, SpawnTypes, TypeOK
<1>3. \A t \in Tasks : (Fresh(t) <=> Fresh(t)') /\ (Complete(t) <=> Complete(t)')
  BY <1>1 DEF Fresh, Complete
<1>4. PlacesInv' /\ WalkInv'
  BY <1>1, <1>3 DEF SpawnInv, PlacesInv, Placed, WalkInv
<1>5. CreatorsInv' /\ CreatedInv'
  BY <1>1 DEF SpawnInv, CreatorsInv, CreatedInv
<1>6. PidInv' /\ PidLockInv'
  BY <1>1 DEF SpawnInv, PidInv, PidLockInv, PidsGrow
<1>7. SpaceInv'
  BY <1>1 DEF SpawnInv, SpaceInv
<1> QED BY <1>2, <1>4, <1>5, <1>6, <1>7 DEF SpawnInv

(* There is no idle thread, and none is needed: whenever a task blocks,    *)
(* another one is ready.                                                   *)
LEMMA SomebodyReady ==
    ASSUME SpawnInv,
           \/ pc[cur] = "run" /\ cur # 0
           \/ pc[cur] = "allocate_pid" /\ pid_lock = 0
    PROVE  ~list_empty(h, "ready") /\ \E u \in Tasks : In(h, "ready", u)
<1>1. \A t \in Tasks : Placed(t)
  BY DEF SpawnInv, PlacesInv
<1>2. ASSUME NEW t \in Tasks, ~Fresh(t), status[t] # "TASK_BLOCKED", t # cur
      PROVE  In(h, "ready", t)
  <2>1. status[t] \in {"none", "TASK_RUNNING", "TASK_READY", "TASK_BLOCKED"}
    BY DEF SpawnInv, SpawnTypes, TypeOK
  <2> QED BY <1>1, <1>2, <2>1 DEF Placed, Fresh
<1>3. ASSUME pid_lock = 0
      PROVE  \E u \in Tasks : In(h, "ready", u)
  <2>1. PICK c \in Tasks : pc[c] \in Critical
    BY <1>3 DEF SpawnInv, PidLockInv
  <2>2. ~Fresh(c) /\ status[c] # "TASK_BLOCKED"
    BY <1>1, <2>1 DEF Placed, Critical
  <2>3. c # cur
    BY <2>1 DEF Critical
  <2> QED BY <1>2, <2>2, <2>3
<1>4. ASSUME pc[cur] = "run", cur # 0
      PROVE  \E u \in Tasks : In(h, "ready", u)
  <2>1. ~Fresh(0)
    <3>1. \A c \in Tasks : new[c] # 0
      BY TaskZero DEF SpawnInv, CreatorsInv
    <3>2. ~(0 > created)
      BY DEF SpawnInv, SpawnTypes, TypeOK
    <3>3. status[0] # "none"
      BY <3>1, <3>2, TaskZero DEF SpawnInv, CreatedInv
    <3> QED BY <3>1, <3>3 DEF Fresh
  <2>2. CASE status[0] # "TASK_BLOCKED"
    BY <1>2, <1>4, <2>1, <2>2, TaskZero
  <2>3. CASE status[0] = "TASK_BLOCKED"
    <3>1. pc[0] = "allocate_pid" /\ 0 \in Tasks
      BY <2>3, TaskZero DEF SpawnInv, PidLockInv
    <3>2. CASE pid_lock = 0
      BY <1>3, <3>2
    <3>3. CASE pid_lock # 0
      <4>1. PICK t \in Tasks : pc[t] = "allocate_pid" /\ status[t] # "TASK_BLOCKED"
        BY <2>3, <3>1, <3>3 DEF SpawnInv, PidLockInv
      <4>2. ~Fresh(t)
        BY <1>1, <4>1 DEF Placed
      <4> QED BY <1>2, <1>4, <4>1, <4>2
    <3> QED BY <3>2, <3>3
  <2> QED BY <2>2, <2>3
<1>5. \E u \in Tasks : In(h, "ready", u)
  BY <1>3, <1>4
<1>6. Links(h)
  BY DEF SpawnInv
<1> QED BY <1>5, <1>6, Seen, TagIs

(* schedule() takes the first ready task off the list, and activates it.   *)
LEMMA SwitchTo ==
    ASSUME NEW g, Links(g), NEW st, switch_to_first(g, st), NEW u \in Tasks, In(g, "ready", u)
    PROVE  /\ cur' \in Tasks /\ In(g, "ready", cur') /\ Links(h')
           /\ h' = list_pop(g, "ready") /\ list_first(g, "ready") = tag("ready", cur')
           /\ status' = [st EXCEPT ![cur'] = "TASK_RUNNING"]
           /\ process_active(cur') /\ printk
           /\ \A m \in Lists, t \in Tasks :
                In(h', m, t) <=> In(g, m, t) /\ ~(m = "ready" /\ t = cur')
           /\ \A y \in Elems : Points(h', y) => Points(g, y)
<1>1. ~list_empty(g, "ready")
  BY Seen, TagIs
<1>2. PICK next \in {task_of(list_first(g, "ready"))} :
        /\ h' = list_pop(g, "ready")
        /\ status' = [st EXCEPT ![next] = "TASK_RUNNING"]
        /\ cur' = next
        /\ process_active(next)
        /\ printk
  BY Zenon DEF switch_to_first
<1>3. cur' = task_of(list_first(g, "ready"))
  BY <1>2
<1> QED BY <1>1, <1>2, <1>3, Popping, TagIs

(* The running task joins the list l, and another task runs.               *)
SwitchedOut(l, s) ==
    /\ switch_to_first(list_append(h, l, general_tag(cur)), [status EXCEPT ![cur] = s])
    /\ UNCHANGED <<new_vars, pid_vars, intr, pc, new, walk, panic>>

LEMMA SwitchOut ==
    ASSUME SpawnInv, NEW l \in Lists \ {"all"}, NEW s, SwitchedOut(l, s),
           \/ l = "ready" /\ s = "TASK_READY"
           \/ l = "pid_lock" /\ s = "TASK_BLOCKED" /\ pc[cur] = "allocate_pid" /\ pid_lock = 0
           \/ l = "semaphore" /\ s = "TASK_BLOCKED" /\ pc[cur] = "run" /\ cur # 0
    PROVE  SpawnInv'
<1> DEFINE h1 == list_append(h, l, general_tag(cur))
<1>1. /\ kind' = kind /\ pid' = pid /\ pgdir' = pgdir
      /\ created' = created /\ pages' = pages /\ older' = older /\ next_pid' = next_pid
      /\ pid_lock' = pid_lock /\ pc' = pc /\ new' = new /\ walk' = walk /\ panic' = panic
  BY DEF SwitchedOut, new_vars, pid_vars
<1>2. cur \in Tasks /\ status[cur] = "TASK_RUNNING" /\ ~Fresh(cur)
      /\ \A m \in Lists \ {"all"} : ~In(h, m, cur)
  BY Running
<1>3. Links(h) /\ SpawnTypes /\ \A t \in Tasks : Placed(t)
  BY DEF SpawnInv, PlacesInv
<1>4. /\ Links(h1)
      /\ \A m \in Lists, t \in Tasks : In(h1, m, t) <=> In(h, m, t) \/ (m = l /\ t = cur)
      /\ \A y \in Elems : Points(h1, y) => Points(h, y) \/ y = general_tag(cur) \/ y = tail(l)
  <2>1. tag(l, cur) = general_tag(cur) /\ Kin(l) = Lists \ {"all"} /\ l \in Lists
    BY TagIs
  <2> QED BY <1>2, <1>3, <2>1, Appending
<1>5. PICK u \in Tasks : In(h1, "ready", u)
  <2>1. CASE l = "ready"
    BY <1>2, <1>4, <2>1, TagIs
  <2>2. CASE l # "ready"
    BY <1>4, <2>2, SomebodyReady, TagIs
  <2> QED BY <2>1, <2>2
<1> HIDE DEF h1
<1>6. /\ cur' \in Tasks /\ In(h1, "ready", cur') /\ Links(h')
      /\ status' = [[status EXCEPT ![cur] = s] EXCEPT ![cur'] = "TASK_RUNNING"]
      /\ process_active(cur') /\ printk
      /\ \A m \in Lists, t \in Tasks :
           In(h', m, t) <=> In(h1, m, t) /\ ~(m = "ready" /\ t = cur')
      /\ \A y \in Elems : Points(h', y) => Points(h1, y)
  <2>1. switch_to_first(h1, [status EXCEPT ![cur] = s])
    BY DEF SwitchedOut, h1
  <2> QED BY <1>4, <1>5, <2>1, SwitchTo
<1>7. \/ cur' = cur /\ l = "ready"
      \/ cur' # cur /\ In(h, "ready", cur') /\ status[cur'] = "TASK_READY" /\ ~Fresh(cur')
  BY <1>2, <1>3, <1>4, <1>6, TagIs DEF Placed
<1>8. \A t \in Tasks : status'[t] = IF t = cur' THEN "TASK_RUNNING"
                                    ELSE IF t = cur THEN s ELSE status[t]
  BY <1>2, <1>3, <1>6 DEF SpawnTypes, TypeOK
<1>9. \A t \in Tasks : status'[t] = "none" <=> status[t] = "none"
  BY <1>2, <1>7, <1>8
<1>10. \A t \in Tasks : (Fresh(t)' <=> Fresh(t)) /\ (Complete(t)' <=> Complete(t))
  BY <1>1, <1>9 DEF Fresh, Complete
<1>11. \A m \in Lists, t \in Tasks :
         In(h', m, t) <=> (In(h, m, t) \/ (m = l /\ t = cur)) /\ ~(m = "ready" /\ t = cur')
  BY <1>4, <1>6
<1>12. SpawnTypes'
  <2>1. status' \in [Tasks -> {"none", "TASK_RUNNING", "TASK_READY", "TASK_BLOCKED"}]
    BY <1>3, <1>6 DEF SpawnTypes, TypeOK
  <2>2. cr3' \in Tasks /\ esp0' \in Tasks \cup {NULL}
    BY <1>3, <1>6, TaskZero DEF SpawnTypes, TypeOK, process_active
  <2>3. console' \in [value : {0, 1}, holder : Tasks \cup {NULL}, repeat_nr : {0, 1}]
    BY <1>3, <1>6 DEF SpawnTypes, TypeOK, printk, unlocked
  <2> QED BY <1>1, <1>3, <1>6, <2>1, <2>2, <2>3 DEF SpawnTypes, TypeOK
<1>13. PlacesInv'
  <2> SUFFICES ASSUME NEW t \in Tasks PROVE Placed(t)'
    BY DEF PlacesInv
  <2>1. Placed(t) /\ pc'[t] = pc[t]
    BY <1>1, <1>3
  <2>2. CASE t = cur'
    BY <1>2, <1>3, <1>7, <1>8, <1>10, <1>11, <2>1, <2>2, TagIs DEF Placed
  <2>3. CASE t # cur' /\ t = cur
    BY <1>2, <1>3, <1>7, <1>8, <1>10, <1>11, <2>1, <2>3, TagIs DEF Placed
  <2>4. CASE t # cur' /\ t # cur
    BY <1>2, <1>3, <1>7, <1>8, <1>10, <1>11, <2>1, <2>4, TagIs DEF Placed
  <2> QED BY <2>2, <2>3, <2>4
<1>14. CreatorsInv' /\ CreatedInv'
  BY <1>1, <1>9 DEF SpawnInv, CreatorsInv, CreatedInv
<1>15. PidInv'
  BY <1>1 DEF SpawnInv, PidInv, PidsGrow
<1>16. PidLockInv'
  <2>1. status'[0] = "TASK_BLOCKED" => pc'[0] = "allocate_pid"
    BY <1>1, <1>8, TaskZero DEF SpawnInv, PidLockInv
  <2>2. (\E t \in Tasks : status'[t] = "TASK_BLOCKED" /\ pc'[t] = "allocate_pid") =>
           \/ pid_lock' = 0
           \/ \E t \in Tasks : pc'[t] = "allocate_pid" /\ status'[t] # "TASK_BLOCKED"
    <3> SUFFICES ASSUME NEW t \in Tasks, status'[t] = "TASK_BLOCKED", pc[t] = "allocate_pid",
                        pid_lock # 0
                 PROVE  \E v \in Tasks : pc[v] = "allocate_pid" /\ status'[v] # "TASK_BLOCKED"
      BY <1>1
    <3>1. status[t] = "TASK_BLOCKED"
      BY <1>8
    <3>2. PICK v \in Tasks : pc[v] = "allocate_pid" /\ status[v] # "TASK_BLOCKED"
      BY <3>1 DEF SpawnInv, PidLockInv
    <3>3. status'[v] # "TASK_BLOCKED"
      BY <1>8, <3>2
    <3> QED BY <3>2, <3>3
  <2> QED BY <1>1, <2>1, <2>2 DEF SpawnInv, PidLockInv
<1>17. SpaceInv'
  BY <1>1, <1>6 DEF SpawnInv, SpaceInv, process_active
<1>18. WalkInv'
  <2> SUFFICES ASSUME NEW t \in Tasks, Fresh(t)
               PROVE  ~Points(h', general_tag(t)) /\ \A c \in Tasks : walk[c] # general_tag(t)
    BY <1>1, <1>10 DEF WalkInv
  <2>1. t # cur /\ general_tag(t) # general_tag(cur) /\ general_tag(t) # tail(l)
        /\ general_tag(t) \in Elems
    BY <1>2, TagIs
  <2> QED BY <1>4, <1>6, <2>1 DEF SpawnInv, WalkInv
<1> QED BY <1>6, <1>12, <1>13, <1>14, <1>15, <1>16, <1>17, <1>18 DEF SpawnInv

(* schedule() cannot print while a task reports that it got no page.       *)
LEMMA CannotPrint ==
    ASSUME SpawnInv, ConsoleInv, panic_spin("console_lock"), ~printk_returns
    PROVE  SpawnInv' /\ h' = h /\ cur' = cur
<1>1. console # unlocked
  BY DEF printk_returns, unlocked
<1>2. pages = 0
  BY <1>1 DEF ConsoleInv
<1> QED BY <1>2, PanicStep DEF panic_spin, list_vars, cpu_vars

LEMMA ClockStep ==
    ASSUME SpawnInv, ConsoleInv, clock_interrupt
    PROVE  SpawnInv' /\ (SwitchedOut("ready", "TASK_READY") \/ (h' = h /\ cur' = cur))
<1>1. ~elem_find(h, "ready", general_tag(cur))
  <2>1. Links(h) /\ ~In(h, "ready", cur) /\ cur \in Tasks /\ general_tag(cur) = tag("ready", cur)
    BY Running, TagIs DEF SpawnInv
  <2> QED BY <2>1, Seen, TagIs
<1>2. CASE ~printk_returns
  BY <1>1, <1>2, CannotPrint DEF clock_interrupt
<1>3. CASE printk_returns
  <2>1. SwitchedOut("ready", "TASK_READY")
    BY <1>1, <1>3 DEF clock_interrupt, SwitchedOut, requeue
  <2> QED BY <2>1, SwitchOut, TagIs
<1> QED BY <1>2, <1>3

LEMMA BlockStep ==
    ASSUME SpawnInv, ConsoleInv, NEW l \in WaitLists, sema_down_blocks(l),
           \/ l = "pid_lock" /\ pc[cur] = "allocate_pid" /\ pid_lock = 0
           \/ l = "semaphore" /\ pc[cur] = "run" /\ cur # 0
    PROVE  /\ SpawnInv' /\ ~list_empty(h, "ready")
           /\ SwitchedOut(l, "TASK_BLOCKED") \/ (h' = h /\ cur' = cur)
<1>1. ~list_empty(h, "ready")
  BY SomebodyReady
<1>2. CASE ~printk_returns
  BY <1>1, <1>2, CannotPrint DEF sema_down_blocks
<1>3. CASE printk_returns
  <2>1. SwitchedOut(l, "TASK_BLOCKED")
    BY <1>1, <1>3 DEF sema_down_blocks, SwitchedOut
  <2> QED BY <1>1, <2>1, SwitchOut, TagIs
<1> QED BY <1>2, <1>3

(* A waiter that is woken moves to the front of the ready list.            *)
Woken(l, t) ==
    /\ In(h, l, t) /\ list_first(h, l) = general_tag(t)
    /\ h' = list_push(list_pop(h, l), "ready", general_tag(t))
    /\ status' = [status EXCEPT ![t] = "TASK_READY"]
    /\ Links(h')
    /\ \A m \in Lists, u \in Tasks :
         In(h', m, u) <=> (In(h, m, u) /\ ~(m = l /\ u = t)) \/ (m = "ready" /\ u = t)
    /\ \A y \in Elems : Points(h', y) => Points(h, y) \/ y = general_tag(t)

NobodyWaits(l) == h' = h /\ status' = status /\ \A t \in Tasks : ~In(h, l, t)

LEMMA WakeFirst ==
    ASSUME SpawnInv, NEW l \in WaitLists, wake_first(l)
    PROVE  NobodyWaits(l) \/ \E t \in Tasks : Woken(l, t)
<1>1. Links(h) /\ l \in Lists /\ l # "all" /\ l # "ready"
  BY DEF SpawnInv, WaitLists, Lists
<1>2. CASE list_empty(h, l)
  BY <1>1, <1>2, Seen DEF wake_first, list_vars, NobodyWaits
<1>3. CASE ~list_empty(h, l)
  <2> DEFINE h1 == list_pop(h, l)
  <2>1. PICK t \in {task_of(list_first(h, l))} :
          /\ h' = list_push(h1, "ready", general_tag(t))
          /\ status' = [status EXCEPT ![t] = "TASK_READY"]
    BY <1>3 DEF wake_first, thread_unblock
  <2>2. t = task_of(list_first(h, l))
    BY <2>1
  <2>3. /\ t \in Tasks /\ list_first(h, l) = general_tag(t) /\ In(h, l, t) /\ Links(h1)
        /\ \A m \in Lists, u \in Tasks : In(h1, m, u) <=> In(h, m, u) /\ ~(m = l /\ u = t)
        /\ \A y \in Elems : Points(h1, y) => Points(h, y)
    BY <1>1, <1>3, <2>2, Popping, TagIs
  <2>4. \A m \in Lists \ {"all"} : ~In(h1, m, t)
    BY <1>1, <2>3, TagIs DEF SpawnInv, PlacesInv, Placed
  <2> HIDE DEF h1
  <2>5. /\ Links(h')
        /\ \A m \in Lists, u \in Tasks : In(h', m, u) <=> In(h1, m, u) \/ (m = "ready" /\ u = t)
        /\ \A y \in Elems : Points(h', y) => Points(h1, y) \/ y = general_tag(t)
    <3>1. Kin("ready") = Lists \ {"all"} /\ tag("ready", t) = general_tag(t) /\ "ready" \in Lists
      BY TagIs
    <3> DEFINE g2 == list_push(h1, "ready", tag("ready", t))
    <3>2. /\ Links(g2)
          /\ \A m \in Lists, u \in Tasks : In(g2, m, u) <=> In(h1, m, u) \/ (m = "ready" /\ u = t)
          /\ \A y \in Elems : Points(g2, y) => Points(h1, y) \/ y = tag("ready", t)
      BY <2>3, <2>4, <3>1, Pushing, ZenonT(30)
    <3>3. h' = g2
      BY <2>1, <3>1
    <3> HIDE DEF g2
    <3> QED BY <3>1, <3>2, <3>3
  <2>6. Woken(l, t)
    BY <2>1, <2>3, <2>5 DEF Woken, h1
  <2> QED BY <2>3, <2>6
<1> QED BY <1>2, <1>3

(* What a wakeup keeps, whatever else changes of the running task.         *)
LEMMA WokenKeeps ==
    ASSUME SpawnInv, NEW l \in WaitLists, NEW t \in Tasks, Woken(l, t)
    PROVE  /\ status[t] = "TASK_BLOCKED" /\ t # cur /\ ~Fresh(t)
           /\ pc[t] = IF l = "pid_lock" THEN "allocate_pid" ELSE "run"
           /\ \A u \in Tasks : status'[u] = IF u = t THEN "TASK_READY" ELSE status[u]
           /\ \A u \in Tasks : status'[u] = "none" <=> status[u] = "none"
           /\ status' \in [Tasks -> {"none", "TASK_RUNNING", "TASK_READY", "TASK_BLOCKED"}]
<1>1. Placed(t) /\ Placed(cur) /\ l \in {"pid_lock", "semaphore"}
  BY Running DEF SpawnInv, PlacesInv, WaitLists
<1>2. /\ status[t] = "TASK_BLOCKED" /\ t # cur /\ ~Fresh(t)
      /\ pc[t] = IF l = "pid_lock" THEN "allocate_pid" ELSE "run"
  BY <1>1, Running DEF Woken, Placed
<1>3. \A u \in Tasks : status'[u] = IF u = t THEN "TASK_READY" ELSE status[u]
  BY DEF Woken, SpawnInv, SpawnTypes, TypeOK
<1>4. status' \in [Tasks -> {"none", "TASK_RUNNING", "TASK_READY", "TASK_BLOCKED"}]
  BY DEF Woken, SpawnInv, SpawnTypes, TypeOK
<1> QED BY <1>2, <1>3, <1>4

LEMMA SignalStep ==
    ASSUME SpawnInv, signal
    PROVE  SpawnInv' /\ \E t \in Tasks : Woken("semaphore", t)
<1>1. /\ kind' = kind /\ pid' = pid /\ pgdir' = pgdir /\ cur' = cur /\ cr3' = cr3 /\ esp0' = esp0
      /\ console' = console
      /\ created' = created /\ pages' = pages /\ older' = older /\ next_pid' = next_pid
      /\ pid_lock' = pid_lock /\ pc' = pc /\ new' = new /\ walk' = walk /\ panic' = panic
  BY DEF signal, new_vars, pid_vars, cpu_vars
<1>2. Links(h) /\ SpawnTypes /\ \A t \in Tasks : Placed(t)
  BY DEF SpawnInv, PlacesInv
<1>3. PICK t \in Tasks : Woken("semaphore", t)
  <2>1. \E u \in Tasks : In(h, "semaphore", u)
    BY <1>2, Seen, TagIs DEF signal
  <2>2. ~NobodyWaits("semaphore") /\ "semaphore" \in WaitLists
    BY <2>1 DEF NobodyWaits, WaitLists
  <2> QED BY <2>2, WakeFirst DEF signal
<1>4. /\ status[t] = "TASK_BLOCKED" /\ t # cur /\ ~Fresh(t) /\ pc[t] = "run"
      /\ \A u \in Tasks : status'[u] = IF u = t THEN "TASK_READY" ELSE status[u]
      /\ \A u \in Tasks : status'[u] = "none" <=> status[u] = "none"
      /\ status' \in [Tasks -> {"none", "TASK_RUNNING", "TASK_READY", "TASK_BLOCKED"}]
  BY <1>3, WokenKeeps DEF WaitLists
<1>5. /\ Links(h')
      /\ \A m \in Lists, u \in Tasks :
           In(h', m, u) <=> (In(h, m, u) /\ ~(m = "semaphore" /\ u = t)) \/ (m = "ready" /\ u = t)
      /\ \A y \in Elems : Points(h', y) => Points(h, y) \/ y = general_tag(t)
  BY <1>3 DEF Woken
<1>6. \A u \in Tasks : (Fresh(u)' <=> Fresh(u)) /\ (Complete(u)' <=> Complete(u))
  BY <1>1, <1>4 DEF Fresh, Complete
<1>7. SpawnTypes'
  BY <1>1, <1>2, <1>4 DEF SpawnTypes, TypeOK
<1>8. PlacesInv'
  <2> SUFFICES ASSUME NEW u \in Tasks PROVE Placed(u)'
    BY DEF PlacesInv
  <2>1. Placed(u) /\ pc'[u] = pc[u]
    BY <1>1, <1>2
  <2> QED BY <1>1, <1>4, <1>5, <1>6, <2>1, TagIs DEF Placed
<1>9. CreatorsInv' /\ CreatedInv'
  BY <1>1, <1>4 DEF SpawnInv, CreatorsInv, CreatedInv
<1>10. PidInv' /\ SpaceInv'
  BY <1>1 DEF SpawnInv, PidInv, PidsGrow, SpaceInv
<1>11. PidLockInv'
  BY <1>1, <1>4, TaskZero DEF SpawnInv, PidLockInv
<1>12. WalkInv'
  <2> SUFFICES ASSUME NEW u \in Tasks, Fresh(u)
               PROVE  ~Points(h', general_tag(u)) /\ \A c \in Tasks : walk[c] # general_tag(u)
    BY <1>1, <1>6 DEF WalkInv
  <2>1. u # t /\ general_tag(u) # general_tag(t) /\ general_tag(u) \in Elems
    BY <1>4, TagIs
  <2> QED BY <1>5, <2>1 DEF SpawnInv, WalkInv
<1> QED BY <1>3, <1>5, <1>7, <1>8, <1>9, <1>10, <1>11, <1>12 DEF SpawnInv

-----------------------------------------------------------------------------
(* Most steps of a creator change neither lists nor status: where the      *)
(* tasks are depends then on who is fresh and who is complete only.        *)
LEMMA PlacesKept ==
    ASSUME SpawnInv, h' = h, status' = status, cur' = cur,
           \A t \in Tasks : (Fresh(t)' <=> Fresh(t)) /\ (Complete(t)' <=> Complete(t)),
           \A t \in Tasks \ {cur} : pc'[t] = pc[t]
    PROVE  PlacesInv' /\ (walk' = walk => WalkInv')
<1>1. PlacesInv'
  <2> SUFFICES ASSUME NEW t \in Tasks PROVE Placed(t)'
    BY DEF PlacesInv
  <2>1. Placed(t)
    BY DEF SpawnInv, PlacesInv
  <2>2. CASE t = cur
    BY <2>1, <2>2, Running DEF Placed
  <2>3. CASE t # cur
    BY <2>1, <2>3 DEF Placed
  <2> QED BY <2>2, <2>3
<1>2. walk' = walk => WalkInv'
  BY DEF SpawnInv, WalkInv
<1> QED BY <1>1, <1>2

LEMMA EnableStep ==
    ASSUME SpawnInv, intr_enable
    PROVE  SpawnInv'
<1>1. /\ h' = h /\ status' = status /\ kind' = kind /\ pid' = pid /\ pgdir' = pgdir
      /\ created' = created /\ pages' = pages /\ older' = older /\ next_pid' = next_pid
      /\ pid_lock' = pid_lock /\ cur' = cur /\ cr3' = cr3 /\ esp0' = esp0 /\ console' = console
      /\ pc' = pc /\ new' = new /\ walk' = walk /\ panic' = panic
  BY DEF intr_enable, list_vars, new_vars, pid_vars, cpu_vars
<1>2. SpawnTypes' /\ Links(h')
  BY <1>1 DEF SpawnInv, SpawnTypes, TypeOK
<1>3. \A t \in Tasks : (Fresh(t)' <=> Fresh(t)) /\ (Complete(t)' <=> Complete(t))
  BY <1>1 DEF Fresh, Complete
<1>4. PlacesInv' /\ WalkInv'
  BY <1>1, <1>3, PlacesKept
<1>5. CreatorsInv' /\ CreatedInv'
  BY <1>1 DEF SpawnInv, CreatorsInv, CreatedInv
<1>6. PidInv' /\ PidLockInv' /\ SpaceInv'
  BY <1>1 DEF SpawnInv, PidInv, PidLockInv, PidsGrow, SpaceInv
<1> QED BY <1>2, <1>4, <1>5, <1>6 DEF SpawnInv

(* A creator goes on, its task neither linked nor registered.              *)
LEMMA FreshKept ==
    ASSUME SpawnInv, new' = new, pid' = pid, status' = status, NEW b, goto(b),
           \/ pc[cur] \in Unlinked /\ b \in Unlinked
           \/ pc[cur] \notin Unlinked /\ b \notin Unlinked
    PROVE  /\ \A t \in Tasks : (Fresh(t)' <=> Fresh(t)) /\ (Complete(t)' <=> Complete(t))
           /\ \A t \in Tasks : pc'[t] = IF t = cur THEN b ELSE pc[t]
<1>1. \A t \in Tasks : pc'[t] = IF t = cur THEN b ELSE pc[t]
  BY DEF goto, SpawnInv, SpawnTypes
<1>2. ASSUME NEW c \in Tasks PROVE pc'[c] \in Unlinked <=> pc[c] \in Unlinked
  BY <1>1
<1>3. \A t \in Tasks : Fresh(t)' <=> Fresh(t)
  BY <1>2 DEF Fresh
<1> QED BY <1>1, <1>3 DEF Complete

LEMMA CreateStep ==
    ASSUME SpawnInv, NEW k \in {"thread", "process"}, create(k)
    PROVE  SpawnInv'
<1>1. CASE pages = 0
  BY <1>1, PanicStep DEF create
<1>2. CASE pages # 0
  <2> DEFINE t == created + 1
  <2>1. /\ created' = t /\ created < MaxTasks /\ pages' = pages - 1
        /\ new' = [new EXCEPT ![cur] = t] /\ kind' = [kind EXCEPT ![t] = k]
        /\ older' = [older EXCEPT ![t] = {u \in Tasks : pid[u] # 0}]
        /\ goto("allocate_pid") /\ pc[cur] = "run"
        /\ h' = h /\ status' = status /\ pid' = pid /\ pgdir' = pgdir /\ next_pid' = next_pid
        /\ pid_lock' = pid_lock /\ cur' = cur /\ cr3' = cr3 /\ esp0' = esp0 /\ console' = console
        /\ walk' = walk /\ panic' = panic
    BY <1>2 DEF create, at, list_vars, pid_vars, cpu_vars
  <2>2. /\ SpawnTypes /\ cur \in Tasks /\ status[cur] = "TASK_RUNNING" /\ pages \in Nat
        /\ created \in Nat /\ MaxTasks \in Nat
    BY Running, SpawnAssumption DEF SpawnInv, SpawnTypes, TypeOK
  <2>3. t \in Tasks /\ t \in 1 .. t /\ ~(created > t) /\ t > created
    BY <2>1, <2>2 DEF Tasks
  <2>4. status[t] = "none" /\ pid[t] = 0 /\ ~pgdir[t]
    BY <2>2, <2>3 DEF SpawnInv, CreatedInv
  <2>5. new[cur] = NULL /\ \A c \in Tasks : new[c] # t /\ (new[c] # NULL => new[c] \in 1 .. t)
    <3>1. new[cur] = NULL
      BY <2>1, <2>2 DEF SpawnInv, CreatorsInv, Creating, Unlinked, Unborn
    <3>2. ASSUME NEW c \in Tasks
          PROVE  new[c] # t /\ (new[c] # NULL => new[c] \in 1 .. t)
      BY <2>2, <2>3, TaskZero DEF SpawnInv, CreatorsInv
    <3> QED BY <3>1, <3>2
  <2> HIDE DEF t
  <2>6. /\ \A c \in Tasks : new'[c] = IF c = cur THEN t ELSE new[c]
        /\ \A c \in Tasks : pc'[c] = IF c = cur THEN "allocate_pid" ELSE pc[c]
        /\ \A u \in Tasks : kind'[u] = IF u = t THEN k ELSE kind[u]
        /\ \A u \in Tasks : older'[u] = IF u = t THEN {v \in Tasks : pid[v] # 0} ELSE older[u]
    BY <2>1, <2>2, <2>3 DEF goto, SpawnTypes, TypeOK
  <2>7. t # cur /\ t # NULL
    BY <2>2, <2>3, <2>4, TaskZero
  <2>8. \A u \in Tasks : (Fresh(u)' <=> Fresh(u)) /\ (Complete(u)' <=> Complete(u))
    <3> SUFFICES ASSUME NEW u \in Tasks
                 PROVE  (Fresh(u)' <=> Fresh(u)) /\ (Complete(u)' <=> Complete(u))
      OBVIOUS
    <3>1. CASE u = t
      BY <2>1, <2>3, <2>4, <3>1 DEF Fresh, Complete
    <3>2. CASE u # t
      <4>1. \A c \in Tasks : new'[c] = u <=> new[c] = u
        BY <2>5, <2>6, <3>2, TaskZero
      <4>2. \A c \in Tasks : new[c] = u => pc'[c] = pc[c]
        BY <2>5, <2>6, TaskZero
      <4> QED BY <2>1, <4>1, <4>2 DEF Fresh, Complete
    <3> QED BY <3>1, <3>2
  <2>9. PlacesInv' /\ WalkInv'
    BY <2>1, <2>6, <2>8, PlacesKept
  <2>10. SpawnTypes'
    <3>1. pages' \in 0 .. Pages /\ created' \in 0 .. MaxTasks
      BY <1>2, <2>1, <2>2, SpawnAssumption DEF SpawnTypes, TypeOK, t
    <3>2. pc' \in [Tasks -> Labels]
      BY <2>1, <2>2 DEF SpawnTypes, goto, Labels, Creating, Unlinked, Unborn
    <3>3. new' \in [Tasks -> Tasks \cup {NULL}] /\ kind' \in [Tasks -> {"thread", "process"}]
          /\ older' \in [Tasks -> SUBSET Tasks]
      BY <2>1, <2>2, <2>3 DEF SpawnTypes, TypeOK
    <3> QED BY <2>1, <2>2, <3>1, <3>2, <3>3 DEF SpawnTypes, TypeOK
  <2>11. CreatorsInv'
    <3>1. ASSUME NEW c \in Tasks
          PROVE  /\ new'[c] # NULL <=> pc'[c] \in Creating
                 /\ new'[c] # NULL => new'[c] \in 1 .. created' /\ new'[c] # c
                 /\ pc'[c] \in {"create_user_vaddr_bitmap", "create_page_dir"} =>
                      kind'[new'[c]] = "process"
      <4>1. CASE c = cur
        BY <2>1, <2>3, <2>6, <2>7, <4>1 DEF Creating, Unlinked, Unborn
      <4>2. CASE c # cur
        <5>1. pc[c] \in {"create_user_vaddr_bitmap", "create_page_dir"} =>
                pc[c] \in Creating
          BY DEF Creating, Unlinked
        <5>2. new[c] # NULL => new[c] \in Tasks /\ new[c] # t
          BY <2>2, <2>5 DEF SpawnTypes, TypeOK
        <5> QED BY <2>1, <2>5, <2>6, <4>2, <5>1, <5>2 DEF SpawnInv, CreatorsInv
      <4> QED BY <4>1, <4>2
    <3>2. ASSUME NEW c \in Tasks, NEW d \in Tasks, new'[c] # NULL, new'[c] = new'[d]
          PROVE  c = d
      BY <2>5, <2>6, <3>2 DEF SpawnInv, CreatorsInv
    <3> QED BY <3>1, <3>2 DEF CreatorsInv
  <2>12. CreatedInv'
    <3> SUFFICES ASSUME NEW u \in Tasks
        PROVE
        /\ status'[u] = "none" <=> (u > created' \/ \E c \in Tasks : new'[c] = u /\ pc'[c] \in Unborn)
        /\ pid'[u] # 0 <=> status'[u] # "none"
        /\ status'[u] = "none" => ~pgdir'[u]
        /\ kind'[u] = "thread" => ~pgdir'[u]
        /\ pc'[u] = "user" => pgdir'[u]
        /\ pc'[u] = "start_process" =>
             \/ pgdir'[u]
             \/ pages' = 0
             \/ \E c \in Tasks :
                  new'[c] = u /\ pc'[c] \in {"create_user_vaddr_bitmap", "create_page_dir"}
      BY DEF CreatedInv
    <3>1. /\ status[u] = "none" <=> (u > created \/ \E c \in Tasks : new[c] = u /\ pc[c] \in Unborn)
          /\ pid[u] # 0 <=> status[u] # "none"
          /\ status[u] = "none" => ~pgdir[u]
          /\ kind[u] = "thread" => ~pgdir[u]
          /\ pc[u] = "user" => pgdir[u]
          /\ pc[u] = "start_process" =>
               \/ pgdir[u]
               \/ pages = 0
               \/ \E c \in Tasks :
                    new[c] = u /\ pc[c] \in {"create_user_vaddr_bitmap", "create_page_dir"}
      BY DEF SpawnInv, CreatedInv
    <3>2. CASE u = t
      <4>1. pc[u] # "start_process"
        BY <1>2, <2>4, <2>5, <3>1, <3>2
      <4>2. new'[cur] = u /\ pc'[cur] \in Unborn
        BY <2>2, <2>6, <3>2 DEF Unborn
      <4> QED BY <2>1, <2>2, <2>4, <2>6, <3>1, <3>2, <4>1, <4>2
    <3>3. CASE u # t
      <4>1. u > created' <=> u > created
        BY <2>1, <2>2, <3>3, TaskZero DEF t
      <4>2. \A c \in Tasks : (new'[c] = u <=> new[c] = u) /\ (new[c] = u => pc'[c] = pc[c])
        BY <2>5, <2>6, <3>3, TaskZero
      <4>3. kind'[u] = kind[u] /\ (pc'[u] = pc[u] \/ pc'[u] = "allocate_pid")
        BY <2>6, <3>3
      <4> QED BY <1>2, <2>1, <3>1, <4>1, <4>2, <4>3
    <3> QED BY <3>2, <3>3
  <2>13. PidInv'
    <3>1. \A u \in Tasks : pid'[u] <= next_pid' /\ \A v \in older'[u] : pid'[v] # 0
      BY <2>1, <2>6 DEF SpawnInv, PidInv
    <3>2. ASSUME NEW c \in Tasks, pc'[c] \in {"lock_release", "return_pid"}
          PROVE  \A u \in older'[new'[c]] : pid'[u] < next_pid'
      <4>1. c # cur /\ pc[c] \in {"lock_release", "return_pid"} /\ pc[c] \in Creating
        BY <2>2, <2>6, <3>2 DEF Creating, Unlinked, Unborn
      <4>2. new[c] \in Tasks /\ new[c] # t /\ new'[c] = new[c]
        BY <2>5, <2>6, <4>1, NewTask
      <4> QED BY <2>1, <2>6, <4>1, <4>2 DEF SpawnInv, PidInv
    <3>3. PidsGrow'
      BY <2>1, <2>4, <2>6 DEF SpawnInv, PidInv, PidsGrow
    <3> QED BY <2>1, <3>1, <3>2, <3>3 DEF SpawnInv, PidInv
  <2>14. PidLockInv'
    <3>1. \A c \in Tasks : pc'[c] \in Critical <=> pc[c] \in Critical
      BY <2>1, <2>6 DEF Critical
    <3>2. \A c \in Tasks : pc[c] = "allocate_pid" => pc'[c] = "allocate_pid"
      BY <2>1, <2>6
    <3>3. \A c \in Tasks : status[c] = "TASK_BLOCKED" => pc'[c] = pc[c]
      BY <2>2, <2>6
    <3> QED BY <2>1, <3>1, <3>2, <3>3, TaskZero DEF SpawnInv, PidLockInv
  <2>15. SpaceInv'
    <3>1. panic = "none"
      BY DEF create, at
    <3> QED BY <2>1, <3>1 DEF SpawnInv, SpaceInv
  <2> QED BY <2>1, <2>9, <2>10, <2>11, <2>12, <2>13, <2>14, <2>15 DEF SpawnInv
<1> QED BY <1>1, <1>2

LEMMA AcquireStep ==
    ASSUME SpawnInv, ConsoleInv, lock_acquire
    PROVE  SpawnInv'
<1>1. CASE pid_lock = 0
  BY <1>1, BlockStep DEF lock_acquire, at, WaitLists
<1>2. CASE pid_lock # 0
  <2>1. /\ pid_lock' = 0 /\ goto("increment") /\ pc[cur] = "allocate_pid"
        /\ h' = h /\ status' = status /\ kind' = kind /\ pid' = pid /\ pgdir' = pgdir
        /\ created' = created /\ pages' = pages /\ older' = older /\ next_pid' = next_pid
        /\ cur' = cur /\ cr3' = cr3 /\ esp0' = esp0 /\ console' = console
        /\ new' = new /\ walk' = walk /\ panic' = panic
    BY <1>2 DEF lock_acquire, at, list_vars, new_vars, cpu_vars
  <2>2. /\ \A t \in Tasks : (Fresh(t)' <=> Fresh(t)) /\ (Complete(t)' <=> Complete(t))
        /\ \A t \in Tasks : pc'[t] = IF t = cur THEN "increment" ELSE pc[t]
    BY <2>1, FreshKept DEF Unlinked, Unborn
  <2>3. cur \in Tasks /\ status[cur] = "TASK_RUNNING" /\ SpawnTypes /\ Links(h)
    BY Running DEF SpawnInv
  <2>4. SpawnTypes'
    BY <2>1, <2>3 DEF SpawnTypes, TypeOK, goto, Labels, Creating, Unlinked, Unborn
  <2>5. PlacesInv' /\ WalkInv'
    BY <2>1, <2>2, PlacesKept
  <2>6. CreatorsInv'
    BY <2>1, <2>2 DEF SpawnInv, CreatorsInv, Creating, Unlinked, Unborn
  <2>7. CreatedInv'
    <3>1. \A c \in Tasks : /\ pc'[c] \in Unborn <=> pc[c] \in Unborn
                           /\ pc'[c] = pc[c] \/ (pc'[c] = "increment" /\ pc[c] = "allocate_pid")
      BY <2>1, <2>2 DEF Unborn
    <3> QED BY <2>1, <3>1 DEF SpawnInv, CreatedInv
  <2>8. PidInv'
    <3>1. \A c \in Tasks : pc'[c] \in {"lock_release", "return_pid"} => pc'[c] = pc[c]
      BY <2>2
    <3> QED BY <2>1, <3>1 DEF SpawnInv, PidInv, PidsGrow
  <2>9. PidLockInv'
    <3>1. \A c \in Tasks : pc[c] \notin Critical
      BY <1>2 DEF SpawnInv, PidLockInv
    <3>2. \A c \in Tasks : pc'[c] \in Critical <=> c = cur
      BY <2>2, <3>1 DEF Critical
    <3>3. status'[0] = "TASK_BLOCKED" => pc'[0] = "allocate_pid"
      BY <2>1, <2>2, <2>3, TaskZero DEF SpawnInv, PidLockInv
    <3> QED BY <2>1, <2>3, <3>2, <3>3 DEF PidLockInv
  <2>10. SpaceInv'
    BY <2>1 DEF SpawnInv, SpaceInv
  <2> QED BY <2>1, <2>3, <2>4, <2>5, <2>6, <2>7, <2>8, <2>9, <2>10 DEF SpawnInv
<1> QED BY <1>1, <1>2

LEMMA IncrementStep ==
    ASSUME SpawnInv, increment
    PROVE  SpawnInv'
<1>1. /\ next_pid' = next_pid + 1 /\ goto("lock_release") /\ pc[cur] = "increment"
      /\ h' = h /\ status' = status /\ kind' = kind /\ pid' = pid /\ pgdir' = pgdir
      /\ created' = created /\ pages' = pages /\ older' = older /\ pid_lock' = pid_lock
      /\ cur' = cur /\ cr3' = cr3 /\ esp0' = esp0 /\ console' = console
      /\ new' = new /\ walk' = walk /\ panic' = panic
  BY DEF increment, at, list_vars, new_vars, cpu_vars
<1>2. /\ \A t \in Tasks : (Fresh(t)' <=> Fresh(t)) /\ (Complete(t)' <=> Complete(t))
      /\ \A t \in Tasks : pc'[t] = IF t = cur THEN "lock_release" ELSE pc[t]
  BY <1>1, FreshKept DEF Unlinked, Unborn
<1>3. cur \in Tasks /\ status[cur] = "TASK_RUNNING" /\ SpawnTypes /\ Links(h) /\ next_pid \in Nat
      /\ \A t \in Tasks : pid[t] \in Nat
  BY Running DEF SpawnInv, SpawnTypes, TypeOK
<1>4. SpawnTypes'
  BY <1>1, <1>3 DEF SpawnTypes, TypeOK, goto, Labels, Creating, Unlinked, Unborn
<1>5. PlacesInv' /\ WalkInv'
  BY <1>1, <1>2, PlacesKept
<1>6. CreatorsInv'
  BY <1>1, <1>2 DEF SpawnInv, CreatorsInv, Creating, Unlinked, Unborn
<1>7. CreatedInv'
  <2>1. \A c \in Tasks : /\ pc'[c] \in Unborn <=> pc[c] \in Unborn
                         /\ pc'[c] = pc[c] \/ (pc'[c] = "lock_release" /\ pc[c] = "increment")
    BY <1>1, <1>2 DEF Unborn
  <2> QED BY <1>1, <2>1 DEF SpawnInv, CreatedInv
<1>8. PidInv'
  <2>1. \A t \in Tasks : pid'[t] < next_pid' /\ \A u \in older'[t] : pid'[u] # 0 /\ u \in Tasks
    BY <1>1, <1>3 DEF SpawnInv, PidInv, SpawnTypes
  <2>2. \A c \in Tasks : pc'[c] \in {"lock_release", "return_pid"} => new[c] \in Tasks
    BY <1>1, <1>2, NewTask DEF Creating, Unlinked, Unborn
  <2> QED BY <1>1, <1>3, <2>1, <2>2 DEF SpawnInv, PidInv, PidsGrow
<1>9. PidLockInv'
  <2>1. \A c \in Tasks : /\ pc'[c] \in Critical <=> pc[c] \in Critical
                         /\ pc'[c] = "allocate_pid" <=> pc[c] = "allocate_pid"
    BY <1>1, <1>2 DEF Critical
  <2> QED BY <1>1, <2>1, TaskZero DEF SpawnInv, PidLockInv
<1>10. SpaceInv'
  BY <1>1 DEF SpawnInv, SpaceInv
<1> QED BY <1>1, <1>3, <1>4, <1>5, <1>6, <1>7, <1>8, <1>9, <1>10 DEF SpawnInv

LEMMA ReleaseStep ==
    ASSUME SpawnInv, lock_release
    PROVE  SpawnInv' /\ (NobodyWaits("pid_lock") \/ \E t \in Tasks : Woken("pid_lock", t))
<1>1. /\ pid_lock' = 1 /\ goto("return_pid") /\ pc[cur] = "lock_release"
      /\ kind' = kind /\ pid' = pid /\ pgdir' = pgdir /\ next_pid' = next_pid
      /\ created' = created /\ pages' = pages /\ older' = older
      /\ cur' = cur /\ cr3' = cr3 /\ esp0' = esp0 /\ console' = console
      /\ new' = new /\ walk' = walk /\ panic' = panic
  BY DEF lock_release, at, new_vars, cpu_vars
<1>2. cur \in Tasks /\ status[cur] = "TASK_RUNNING" /\ SpawnTypes /\ Links(h)
      /\ \A t \in Tasks : Placed(t)
  BY Running DEF SpawnInv, PlacesInv
<1>3. /\ \A t \in Tasks : pc'[t] = IF t = cur THEN "return_pid" ELSE pc[t]
      /\ pc' \in [Tasks -> Labels]
  BY <1>1, <1>2 DEF goto, SpawnTypes, Labels, Creating, Unlinked, Unborn
<1>4. NobodyWaits("pid_lock") \/ \E t \in Tasks : Woken("pid_lock", t)
  BY WakeFirst DEF lock_release, WaitLists
<1>5. /\ \A t \in Tasks : status'[t] = "none" <=> status[t] = "none"
      /\ status' \in [Tasks -> {"none", "TASK_RUNNING", "TASK_READY", "TASK_BLOCKED"}]
      /\ Links(h')
  <2>1. CASE NobodyWaits("pid_lock")
    BY <1>2, <2>1 DEF NobodyWaits, SpawnTypes, TypeOK
  <2>2. ASSUME NEW t \in Tasks, Woken("pid_lock", t)
        PROVE  /\ \A u \in Tasks : status'[u] = "none" <=> status[u] = "none"
               /\ status' \in [Tasks -> {"none", "TASK_RUNNING", "TASK_READY", "TASK_BLOCKED"}]
               /\ Links(h')
    <3>1. "pid_lock" \in WaitLists
      BY DEF WaitLists
    <3> QED BY <2>2, <3>1, WokenKeeps DEF Woken
  <2> QED BY <1>4, <2>1, <2>2
<1>6. \A t \in Tasks : (Fresh(t)' <=> Fresh(t)) /\ (Complete(t)' <=> Complete(t))
  <2>1. \A c \in Tasks : pc'[c] \in Unlinked <=> pc[c] \in Unlinked
    BY <1>1, <1>3 DEF Unlinked, Unborn
  <2> QED BY <1>1, <1>5, <2>1 DEF Fresh, Complete
<1>7. SpawnTypes'
  BY <1>1, <1>2, <1>3, <1>5 DEF SpawnTypes, TypeOK
<1>8. PlacesInv' /\ WalkInv'
  <2>1. CASE NobodyWaits("pid_lock")
    BY <1>1, <1>3, <1>6, <2>1, PlacesKept DEF NobodyWaits
  <2>2. ASSUME NEW t \in Tasks, Woken("pid_lock", t)
        PROVE  PlacesInv' /\ WalkInv'
    <3>1. /\ status[t] = "TASK_BLOCKED" /\ t # cur /\ ~Fresh(t) /\ pc[t] = "allocate_pid"
          /\ \A u \in Tasks : status'[u] = IF u = t THEN "TASK_READY" ELSE status[u]
      BY <2>2, WokenKeeps DEF WaitLists
    <3>2. /\ \A m \in Lists, u \in Tasks :
               In(h', m, u) <=> (In(h, m, u) /\ ~(m = "pid_lock" /\ u = t)) \/ (m = "ready" /\ u = t)
          /\ \A y \in Elems : Points(h', y) => Points(h, y) \/ y = general_tag(t)
      BY <2>2 DEF Woken
    <3>3. PlacesInv'
      <4> SUFFICES ASSUME NEW u \in Tasks PROVE Placed(u)'
        BY DEF PlacesInv
      <4>1. Placed(u)
        BY <1>2
      <4>2. CASE u = cur
        <5>1. status'[u] = "TASK_RUNNING" /\ ~Fresh(u)
          BY <1>2, <3>1, <4>2, Running
        <5> QED BY <1>1, <1>6, <3>1, <3>2, <4>1, <4>2, <5>1, TagIs DEF Placed
      <4>3. CASE u # cur
        BY <1>1, <1>3, <1>6, <3>1, <3>2, <4>1, <4>3, TagIs DEF Placed
      <4> QED BY <4>2, <4>3
    <3>4. WalkInv'
      <4> SUFFICES ASSUME NEW u \in Tasks, Fresh(u)
                   PROVE  ~Points(h', general_tag(u)) /\ \A c \in Tasks : walk[c] # general_tag(u)
        BY <1>1, <1>6 DEF WalkInv
      <4>1. u # t /\ general_tag(u) # general_tag(t) /\ general_tag(u) \in Elems
        BY <3>1, TagIs
      <4> QED BY <3>2, <4>1 DEF SpawnInv, WalkInv
    <3> QED BY <3>3, <3>4
  <2> QED BY <1>4, <2>1, <2>2
<1>9. CreatorsInv'
  BY <1>1, <1>3 DEF SpawnInv, CreatorsInv, Creating, Unlinked, Unborn
<1>10. CreatedInv'
  <2>1. \A c \in Tasks : /\ pc'[c] \in Unborn <=> pc[c] \in Unborn
                         /\ pc'[c] = pc[c] \/ (pc'[c] = "return_pid" /\ pc[c] = "lock_release")
    BY <1>1, <1>3 DEF Unborn
  <2> QED BY <1>1, <1>5, <2>1 DEF SpawnInv, CreatedInv
<1>11. PidInv'
  <2>1. \A c \in Tasks : pc'[c] \in {"lock_release", "return_pid"} =>
          pc[c] \in {"lock_release", "return_pid"}
    BY <1>1, <1>3
  <2> QED BY <1>1, <2>1 DEF SpawnInv, PidInv, PidsGrow
<1>12. PidLockInv'
  <2>1. \A c \in Tasks : pc[c] \in Critical => c = cur
    BY <1>1, <1>2 DEF SpawnInv, PidLockInv, Critical
  <2>2. \A c \in Tasks : pc'[c] \notin Critical
    BY <1>3, <2>1 DEF Critical
  <2>3. CASE NobodyWaits("pid_lock")
    <3>1. \A t \in Tasks : ~(status'[t] = "TASK_BLOCKED" /\ pc'[t] = "allocate_pid")
      BY <1>2, <1>3, <2>3 DEF NobodyWaits, Placed
    <3>2. status'[0] = "TASK_BLOCKED" => pc'[0] = "allocate_pid"
      BY <1>2, <1>3, <2>3, TaskZero DEF NobodyWaits, SpawnInv, PidLockInv
    <3> QED BY <1>1, <2>2, <3>1, <3>2 DEF PidLockInv
  <2>4. ASSUME NEW t \in Tasks, Woken("pid_lock", t)
        PROVE  PidLockInv'
    <3>1. /\ status[t] = "TASK_BLOCKED" /\ t # cur /\ pc[t] = "allocate_pid"
          /\ \A u \in Tasks : status'[u] = IF u = t THEN "TASK_READY" ELSE status[u]
      BY <2>4, WokenKeeps DEF WaitLists
    <3>2. pc'[t] = "allocate_pid" /\ status'[t] # "TASK_BLOCKED"
      BY <1>3, <3>1
    <3>3. status'[0] = "TASK_BLOCKED" => pc'[0] = "allocate_pid"
      BY <1>2, <1>3, <3>1, TaskZero DEF SpawnInv, PidLockInv
    <3> QED BY <1>1, <2>2, <3>2, <3>3 DEF PidLockInv
  <2> QED BY <1>4, <2>3, <2>4
<1>13. SpaceInv'
  BY <1>1 DEF SpawnInv, SpaceInv
<1> QED BY <1>4, <1>5, <1>7, <1>8, <1>9, <1>10, <1>11, <1>12, <1>13 DEF SpawnInv


(* The new task has a pid and a status, but is still fresh.                *)
LEMMA InitThreadStep ==
    ASSUME SpawnInv, init_thread
    PROVE  SpawnInv'
<1> DEFINE t == new[cur]
           b == IF kind[t] = "process" THEN "create_user_vaddr_bitmap" ELSE "elem_find"
           d == IF kind[t] = "process" THEN "start_process" ELSE "run"
<1>1. /\ pid' = [pid EXCEPT ![t] = next_pid] /\ status' = [status EXCEPT ![t] = "TASK_READY"]
      /\ pc' = [pc EXCEPT ![cur] = b, ![t] = d] /\ walk' = [walk EXCEPT ![cur] = list_first(h, "ready")]
      /\ pc[cur] = "return_pid"
      /\ h' = h /\ kind' = kind /\ pgdir' = pgdir /\ next_pid' = next_pid
      /\ created' = created /\ pages' = pages /\ older' = older /\ pid_lock' = pid_lock
      /\ cur' = cur /\ cr3' = cr3 /\ esp0' = esp0 /\ console' = console
      /\ new' = new /\ panic' = panic
  BY DEF init_thread, at, pid_vars, cpu_vars, returned_pid
<1>2. /\ t \in Tasks /\ t # cur /\ t # 0 /\ ~Complete(t) /\ Fresh(t) /\ status[t] = "none"
      /\ \A c \in Tasks : new[c] = t => c = cur
      /\ cur \in Tasks /\ status[cur] = "TASK_RUNNING"
  <2>1. pc[cur] \in Creating /\ pc[cur] \in Unlinked /\ pc[cur] \in Unborn
    BY <1>1 DEF Creating, Unlinked, Unborn
  <2> QED BY <2>1, NewTask, Running
<1>3. /\ SpawnTypes /\ Links(h) /\ next_pid \in Nat /\ next_pid >= 1
      /\ list_first(h, "ready") \in Elems /\ Placed(t) /\ Placed(cur)
  <2>1. Links(h) /\ SpawnTypes /\ Placed(t) /\ Placed(cur) /\ next_pid >= 1
    BY <1>2 DEF SpawnInv, PlacesInv, PidInv
  <2> QED BY <2>1, Seen, TagIs DEF SpawnTypes, TypeOK
<1>4. /\ pc[t] \in {"run", "start_process"} /\ new[t] = NULL /\ pid[t] = 0 /\ t \in 1 .. created
  <2>1. pc[t] \in {"run", "start_process"}
    BY <1>2, <1>3 DEF Placed
  <2>2. pc[t] \notin Creating
    BY <2>1 DEF Creating, Unlinked, Unborn
  <2>3. t # NULL
    BY <1>2, TaskZero
  <2> QED BY <1>2, <2>1, <2>2, <2>3 DEF SpawnInv, CreatorsInv, CreatedInv
<1> HIDE DEF t, b, d
<1>5. b \in {"create_user_vaddr_bitmap", "elem_find"} /\ d \in {"start_process", "run"}
      /\ (b = "create_user_vaddr_bitmap" <=> kind[t] = "process")
      /\ (d = "start_process" <=> kind[t] = "process")
  BY DEF b, d
<1>6. /\ \A c \in Tasks : pc'[c] = IF c = t THEN d ELSE IF c = cur THEN b ELSE pc[c]
      /\ \A c \in Tasks : pid'[c] = IF c = t THEN next_pid ELSE pid[c]
      /\ \A c \in Tasks : status'[c] = IF c = t THEN "TASK_READY" ELSE status[c]
      /\ \A c \in Tasks : walk'[c] = IF c = cur THEN list_first(h, "ready") ELSE walk[c]
  BY <1>1, <1>2, <1>3 DEF SpawnTypes, TypeOK
<1>7. new[cur] = t
  BY DEF t
<1>8. \A u \in Tasks : (Fresh(u)' <=> Fresh(u)) /\ (Complete(u)' <=> Complete(u))
  <2> SUFFICES ASSUME NEW u \in Tasks
               PROVE  (Fresh(u)' <=> Fresh(u)) /\ (Complete(u)' <=> Complete(u))
    OBVIOUS
  <2>1. CASE u = t
    <3>1. pc'[cur] \in Unlinked
      BY <1>2, <1>5, <1>6 DEF Unlinked
    <3> QED BY <1>1, <1>2, <1>7, <2>1, <3>1 DEF Fresh, Complete
  <2>2. CASE u # t
    <3>1. \A c \in Tasks : new[c] = u => pc'[c] = pc[c]
      BY <1>4, <1>6, <1>7, <2>2, TaskZero
    <3> QED BY <1>1, <1>6, <2>2, <3>1 DEF Fresh, Complete
  <2> QED BY <2>1, <2>2
<1>9. SpawnTypes'
  <2>1. pc' \in [Tasks -> Labels]
    BY <1>1, <1>3, <1>5 DEF SpawnTypes, Labels, Creating, Unlinked
  <2>2. walk' \in [Tasks -> Elems \cup {NULL}] /\ pid' \in [Tasks -> Nat]
        /\ status' \in [Tasks -> {"none", "TASK_RUNNING", "TASK_READY", "TASK_BLOCKED"}]
    BY <1>1, <1>3 DEF SpawnTypes, TypeOK
  <2> QED BY <1>1, <1>3, <2>1, <2>2 DEF SpawnTypes, TypeOK
<1>10. PlacesInv'
  <2> SUFFICES ASSUME NEW u \in Tasks PROVE Placed(u)'
    BY DEF PlacesInv
  <2>1. Placed(u)
    BY DEF SpawnInv, PlacesInv
  <2>2. CASE u = t
    <3>1. \A l \in Lists \ {"all"} : ~In(h, l, t)
      BY <1>2, FreshOnNoList
    <3>2. ~In(h, "all", t)
      BY <1>2, <1>3 DEF Placed
    <3>3. pc'[u] \in {"run", "start_process"} /\ status'[u] = "TASK_READY" /\ u # cur' /\ h' = h
      BY <1>1, <1>2, <1>5, <1>6, <2>2
    <3>4. Fresh(u)' /\ ~Complete(u)'
      BY <1>2, <1>8, <2>2
    <3>5. ~In(h, "ready", u) /\ ~In(h, "pid_lock", u) /\ ~In(h, "semaphore", u) /\ ~In(h, "all", u)
      BY <2>2, <3>1, <3>2, TagIs
    <3> QED BY <3>3, <3>4, <3>5 DEF Placed
  <2>3. CASE u = cur
    BY <1>1, <1>2, <1>6, <1>8, <2>1, <2>3, Running DEF Placed
  <2>4. CASE u # t /\ u # cur
    BY <1>1, <1>6, <1>8, <2>1, <2>4 DEF Placed
  <2> QED BY <2>2, <2>3, <2>4
<1>11. WalkInv'
  <2> SUFFICES ASSUME NEW u \in Tasks, Fresh(u)
               PROVE  ~Points(h, general_tag(u)) /\ \A c \in Tasks : walk'[c] # general_tag(u)
    BY <1>1, <1>8 DEF WalkInv
  <2>1. ~Points(h, general_tag(u)) /\ \A c \in Tasks : walk[c] # general_tag(u)
    BY DEF SpawnInv, WalkInv
  <2>2. head("ready") \in Elems
    BY TagIs DEF Elems
  <2>3. Points(h, list_first(h, "ready"))
    BY <2>2 DEF Points, list_first
  <2> QED BY <1>6, <2>1, <2>3
<1>12. CreatorsInv'
  <2>1. ASSUME NEW c \in Tasks
        PROVE  /\ new[c] # NULL <=> pc'[c] \in Creating
               /\ pc'[c] \in {"create_user_vaddr_bitmap", "create_page_dir"} =>
                    kind[new[c]] = "process"
    <3>1. CASE c = t
      BY <1>4, <1>5, <1>6, <3>1 DEF Creating, Unlinked, Unborn
    <3>2. CASE c = cur
      BY <1>2, <1>5, <1>6, <1>7, <3>2, TaskZero DEF Creating, Unlinked
    <3>3. CASE c # t /\ c # cur
      BY <1>6, <3>3 DEF SpawnInv, CreatorsInv
    <3> QED BY <3>1, <3>2, <3>3
  <2>2. /\ \A c \in Tasks : new[c] # NULL => new[c] \in 1 .. created /\ new[c] # c
        /\ \A c, e \in Tasks : new[c] # NULL /\ new[c] = new[e] => c = e
    BY DEF SpawnInv, CreatorsInv
  <2> QED BY <1>1, <2>1, <2>2 DEF CreatorsInv
<1>13. CreatedInv'
  <2> SUFFICES ASSUME NEW u \in Tasks
      PROVE
      /\ status'[u] = "none" <=> (u > created \/ \E c \in Tasks : new[c] = u /\ pc'[c] \in Unborn)
      /\ pid'[u] # 0 <=> status'[u] # "none"
      /\ status'[u] = "none" => ~pgdir[u]
      /\ kind[u] = "thread" => ~pgdir[u]
      /\ pc'[u] = "user" => pgdir[u]
      /\ pc'[u] = "start_process" =>
           \/ pgdir[u]
           \/ pages = 0
           \/ \E c \in Tasks :
                new[c] = u /\ pc'[c] \in {"create_user_vaddr_bitmap", "create_page_dir"}
    BY <1>1 DEF CreatedInv
  <2>1. /\ status[u] = "none" <=> (u > created \/ \E c \in Tasks : new[c] = u /\ pc[c] \in Unborn)
        /\ pid[u] # 0 <=> status[u] # "none"
        /\ status[u] = "none" => ~pgdir[u]
        /\ kind[u] = "thread" => ~pgdir[u]
        /\ pc[u] = "user" => pgdir[u]
        /\ pc[u] = "start_process" =>
             \/ pgdir[u]
             \/ pages = 0
             \/ \E c \in Tasks :
                  new[c] = u /\ pc[c] \in {"create_user_vaddr_bitmap", "create_page_dir"}
    BY DEF SpawnInv, CreatedInv
  <2>2. CASE u = t
    <3>1. ~(u > created)
      BY <1>3, <1>4, <2>2 DEF SpawnTypes, TypeOK
    <3>2. \A c \in Tasks : new[c] = u => pc'[c] = b
      BY <1>2, <1>6, <2>2
    <3>3. b \notin Unborn
      BY <1>5 DEF Unborn
    <3>4. new[cur] = u /\ pc'[cur] = b /\ pc'[u] = d /\ pid'[u] # 0 /\ status'[u] # "none"
      BY <1>2, <1>3, <1>6, <1>7, <2>2
    <3> QED BY <1>2, <1>5, <2>1, <2>2, <3>1, <3>2, <3>3, <3>4
  <2>3. CASE u # t
    <3>1. \A c \in Tasks : new[c] = u => pc'[c] = pc[c]
      BY <1>4, <1>6, <1>7, <2>3, TaskZero
    <3>2. status'[u] = status[u] /\ pid'[u] = pid[u] /\ (pc'[u] = pc[u] \/ pc'[u] = b)
      BY <1>6, <2>3
    <3> QED BY <1>5, <2>1, <3>1, <3>2
  <2> QED BY <2>2, <2>3
<1>14. PidInv'
  <2>1. \A u \in Tasks : pid[u] <= next_pid /\ \A v \in older[u] : pid[v] # 0 /\ v \in Tasks /\ v # t
    BY <1>3, <1>4 DEF SpawnInv, PidInv, SpawnTypes
  <2>2. \A u \in Tasks : pid'[u] <= next_pid /\ \A v \in older[u] : pid'[v] # 0
    BY <1>3, <1>6, <2>1
  <2>3. \A v \in older[t] : pid'[v] < next_pid
    BY <1>1, <1>2, <1>6, <1>7, <2>1 DEF SpawnInv, PidInv
  <2>4. ASSUME NEW c \in Tasks, pc'[c] \in {"lock_release", "return_pid"}
        PROVE  \A u \in older[new[c]] : pid'[u] < next_pid
    <3>1. pc[c] \in {"lock_release", "return_pid"} /\ pc[c] \in Creating
      BY <1>5, <1>6, <2>4 DEF Creating, Unlinked, Unborn
    <3>2. new[c] \in Tasks
      BY <3>1, NewTask
    <3> QED BY <1>6, <2>1, <3>1, <3>2 DEF SpawnInv, PidInv
  <2>5. \A w \in Tasks : pid'[w] # 0 => \A u \in older[w] : pid'[u] < pid'[w]
    <3> SUFFICES ASSUME NEW w \in Tasks, pid'[w] # 0, NEW u \in older[w] PROVE pid'[u] < pid'[w]
      OBVIOUS
    <3>1. CASE w = t
      BY <1>6, <2>3, <3>1
    <3>2. CASE w # t
      BY <1>6, <2>1, <3>2 DEF SpawnInv, PidInv, PidsGrow
    <3> QED BY <3>1, <3>2
  <2> QED BY <1>1, <1>3, <2>2, <2>4, <2>5 DEF PidInv, PidsGrow
<1>15. PidLockInv'
  <2>1. \A c \in Tasks : /\ pc'[c] \in Critical <=> pc[c] \in Critical
                         /\ pc'[c] = "allocate_pid" <=> pc[c] = "allocate_pid"
    BY <1>1, <1>4, <1>5, <1>6 DEF Critical
  <2>2. \A c \in Tasks : pc[c] = "allocate_pid" => status'[c] = status[c]
    BY <1>4, <1>6
  <2>3. status'[0] = status[0]
    BY <1>2, <1>6, TaskZero
  <2>4. \A c \in Tasks : pc'[c] = "allocate_pid" /\ status'[c] = "TASK_BLOCKED" <=>
                         pc[c] = "allocate_pid" /\ status[c] = "TASK_BLOCKED"
    BY <2>1, <2>2
  <2>5. PidLockInv /\ pid_lock' = pid_lock
    BY <1>1 DEF SpawnInv
  <2> QED BY <2>1, <2>3, <2>4, <2>5, TaskZero DEF PidLockInv
<1>16. SpaceInv'
  BY <1>1 DEF SpawnInv, SpaceInv
<1> QED BY <1>1, <1>3, <1>9, <1>10, <1>11, <1>12, <1>13, <1>14, <1>15, <1>16 DEF SpawnInv

LEMMA BitmapStep ==
    ASSUME SpawnInv, create_user_vaddr_bitmap
    PROVE  SpawnInv'
<1>1. CASE pages = 0
  BY <1>1, PanicStep DEF create_user_vaddr_bitmap
<1>2. CASE pages # 0
  <2>1. /\ pages' = pages - 1 /\ goto("create_page_dir") /\ pc[cur] = "create_user_vaddr_bitmap"
        /\ h' = h /\ status' = status /\ kind' = kind /\ pid' = pid /\ pgdir' = pgdir
        /\ created' = created /\ older' = older /\ next_pid' = next_pid /\ pid_lock' = pid_lock
        /\ cur' = cur /\ cr3' = cr3 /\ esp0' = esp0 /\ console' = console
        /\ new' = new /\ walk' = walk
        /\ panic' = panic /\ panic = "none"
    BY <1>2 DEF create_user_vaddr_bitmap, at, list_vars, pid_vars, cpu_vars
  <2>2. /\ \A t \in Tasks : (Fresh(t)' <=> Fresh(t)) /\ (Complete(t)' <=> Complete(t))
        /\ \A t \in Tasks : pc'[t] = IF t = cur THEN "create_page_dir" ELSE pc[t]
    BY <2>1, FreshKept DEF Unlinked
  <2>3. cur \in Tasks /\ status[cur] = "TASK_RUNNING" /\ SpawnTypes /\ Links(h)
    BY Running DEF SpawnInv
  <2>4. SpawnTypes'
    <3>1. pages' \in 0 .. Pages
      BY <1>2, <2>1, <2>3, SpawnAssumption DEF SpawnTypes, TypeOK
    <3> QED BY <2>1, <2>3, <3>1 DEF SpawnTypes, TypeOK, goto, Labels, Creating, Unlinked
  <2>5. PlacesInv' /\ WalkInv'
    BY <2>1, <2>2, PlacesKept
  <2>6. CreatorsInv'
    <3>1. \A c \in Tasks : pc'[c] \in Creating <=> pc[c] \in Creating
      BY <2>1, <2>2 DEF Creating, Unlinked
    <3> QED BY <2>1, <2>2, <3>1 DEF SpawnInv, CreatorsInv
  <2>7. CreatedInv'
    <3>1. \A c \in Tasks : /\ pc'[c] \in Unborn <=> pc[c] \in Unborn
                           /\ \/ pc'[c] = pc[c]
                              \/ pc'[c] = "create_page_dir" /\ pc[c] = "create_user_vaddr_bitmap"
      BY <2>1, <2>2 DEF Unborn
    <3> QED BY <1>2, <2>1, <3>1 DEF SpawnInv, CreatedInv
  <2>8. PidInv'
    <3>1. \A c \in Tasks : pc'[c] \in {"lock_release", "return_pid"} => pc'[c] = pc[c]
      BY <2>2
    <3> QED BY <2>1, <3>1 DEF SpawnInv, PidInv, PidsGrow
  <2>9. PidLockInv'
    <3>1. \A c \in Tasks : /\ pc'[c] \in Critical <=> pc[c] \in Critical
                           /\ pc'[c] = "allocate_pid" <=> pc[c] = "allocate_pid"
      BY <2>1, <2>2 DEF Critical
    <3> QED BY <2>1, <3>1, TaskZero DEF SpawnInv, PidLockInv
  <2>10. SpaceInv'
    BY <2>1 DEF SpawnInv, SpaceInv
  <2> QED BY <2>1, <2>3, <2>4, <2>5, <2>6, <2>7, <2>8, <2>9, <2>10 DEF SpawnInv
<1> QED BY <1>1, <1>2

LEMMA PageDirStep ==
    ASSUME SpawnInv, create_page_dir
    PROVE  SpawnInv'
<1> DEFINE t == new[cur]
           b == IF pages > 0 THEN "enqueue" ELSE "sema_down"
<1>1. /\ pages' = (IF pages > 0 THEN pages - 1 ELSE 0) /\ pgdir' = [pgdir EXCEPT ![t] = (pages > 0)]
      /\ goto(b) /\ pc[cur] = "create_page_dir" /\ panic = "none"
      /\ h' = h /\ status' = status /\ kind' = kind /\ pid' = pid
      /\ created' = created /\ older' = older /\ next_pid' = next_pid /\ pid_lock' = pid_lock
      /\ cur' = cur /\ cr3' = cr3 /\ esp0' = esp0 /\ console' = console
      /\ new' = new /\ walk' = walk /\ panic' = panic
  BY DEF create_page_dir, at, list_vars, pid_vars, cpu_vars, pages_left, stored_pgdir
<1>2. /\ t \in Tasks /\ t # cur /\ Fresh(t) /\ status[t] # "none" /\ Placed(t)
      /\ \A c \in Tasks : new[c] = t => c = cur
      /\ kind[t] = "process"
  <2>1. pc[cur] \in Creating /\ pc[cur] \in Unlinked /\ pc[cur] \notin Unborn
    BY <1>1 DEF Creating, Unlinked, Unborn
  <2>2. cur \in Tasks
    BY Running
  <2> QED BY <1>1, <2>1, <2>2, NewTask DEF SpawnInv, PlacesInv, CreatorsInv
<1>3. cur \in Tasks /\ status[cur] = "TASK_RUNNING" /\ SpawnTypes /\ Links(h) /\ pages \in 0 .. Pages
  BY Running DEF SpawnInv, SpawnTypes, TypeOK
<1>4. /\ \A u \in Tasks : (Fresh(u)' <=> Fresh(u)) /\ (Complete(u)' <=> Complete(u))
      /\ \A u \in Tasks : pc'[u] = IF u = cur THEN b ELSE pc[u]
      /\ b \in {"enqueue", "sema_down"}
  <2>1. b \in {"enqueue", "sema_down"}
    OBVIOUS
  <2> HIDE DEF b
  <2> QED BY <1>1, <2>1, FreshKept DEF Unlinked
<1>5. \A u \in Tasks : pgdir'[u] = IF u = t THEN pages > 0 ELSE pgdir[u]
  BY <1>1, <1>2, <1>3 DEF SpawnTypes, TypeOK
<1>6. new[cur] = t /\ pc[t] \in {"run", "start_process"}
  BY <1>2 DEF Placed
<1> HIDE DEF t, b
<1>7. pages' \in 0 .. Pages /\ (pages = 0 => pages' = 0)
  BY <1>1, <1>3, SpawnAssumption
<1>8. SpawnTypes'
  <2>1. pc' \in [Tasks -> Labels]
    BY <1>1, <1>3, <1>4 DEF SpawnTypes, goto, Labels, Creating, Unlinked
  <2>2. pgdir' \in [Tasks -> BOOLEAN]
    <3> DEFINE some == pages > 0
    <3>1. some \in BOOLEAN /\ pgdir' = [pgdir EXCEPT ![t] = some] /\ pgdir \in [Tasks -> BOOLEAN]
      BY <1>1, <1>3 DEF SpawnTypes, TypeOK
    <3> HIDE DEF some
    <3> QED BY <3>1
  <2> QED BY <1>1, <1>3, <1>7, <2>1, <2>2 DEF SpawnTypes, TypeOK
<1>9. PlacesInv' /\ WalkInv'
  BY <1>1, <1>4, PlacesKept
<1>10. CreatorsInv'
  <2>1. \A c \in Tasks : pc'[c] \in Creating <=> pc[c] \in Creating
    BY <1>1, <1>4 DEF Creating, Unlinked
  <2> QED BY <1>1, <1>4, <2>1 DEF SpawnInv, CreatorsInv
<1>11. CreatedInv'
  <2> SUFFICES ASSUME NEW u \in Tasks
      PROVE
      /\ status[u] = "none" <=> (u > created \/ \E c \in Tasks : new[c] = u /\ pc'[c] \in Unborn)
      /\ pid[u] # 0 <=> status[u] # "none"
      /\ status[u] = "none" => ~pgdir'[u]
      /\ kind[u] = "thread" => ~pgdir'[u]
      /\ pc'[u] = "user" => pgdir'[u]
      /\ pc'[u] = "start_process" =>
           \/ pgdir'[u]
           \/ pages' = 0
           \/ \E c \in Tasks :
                new[c] = u /\ pc'[c] \in {"create_user_vaddr_bitmap", "create_page_dir"}
    BY <1>1 DEF CreatedInv
  <2>1. \A c \in Tasks : /\ pc'[c] \in Unborn <=> pc[c] \in Unborn
                         /\ \/ pc'[c] = pc[c]
                            \/ pc'[c] \in {"enqueue", "sema_down"} /\ pc[c] = "create_page_dir"
    BY <1>1, <1>4 DEF Unborn
  <2>2. /\ status[u] = "none" <=> (u > created \/ \E c \in Tasks : new[c] = u /\ pc[c] \in Unborn)
        /\ pid[u] # 0 <=> status[u] # "none"
        /\ status[u] = "none" => ~pgdir[u]
        /\ kind[u] = "thread" => ~pgdir[u]
        /\ pc[u] = "user" => pgdir[u]
        /\ pc[u] = "start_process" =>
             \/ pgdir[u]
             \/ pages = 0
             \/ \E c \in Tasks :
                  new[c] = u /\ pc[c] \in {"create_user_vaddr_bitmap", "create_page_dir"}
    BY DEF SpawnInv, CreatedInv
  <2>3. CASE u = t
    <3>1. pc'[u] = pc[u] /\ pgdir'[u] = (pages > 0) /\ ~(pages > 0) => pages' = 0
      BY <1>2, <1>3, <1>4, <1>5, <1>7, <2>3
    <3>2. ~(pages > 0) => pages' = 0
      BY <1>3, <1>7
    <3>3. pgdir'[u] = (pages > 0)
      BY <1>5, <2>3
    <3> QED BY <1>1, <1>2, <1>4, <1>6, <2>1, <2>2, <2>3, <3>2, <3>3
  <2>4. CASE u # t
    <3>1. \A c \in Tasks : new[c] = u => pc'[c] = pc[c]
      BY <1>4, <1>6, <2>4
    <3> QED BY <1>5, <1>7, <2>1, <2>2, <2>4, <3>1
  <2> QED BY <2>3, <2>4
<1>12. PidInv'
  <2>1. \A c \in Tasks : pc'[c] \in {"lock_release", "return_pid"} => pc'[c] = pc[c]
    BY <1>4
  <2> QED BY <1>1, <2>1 DEF SpawnInv, PidInv, PidsGrow
<1>13. PidLockInv'
  <2>1. \A c \in Tasks : /\ pc'[c] \in Critical <=> pc[c] \in Critical
                         /\ pc'[c] = "allocate_pid" <=> pc[c] = "allocate_pid"
    BY <1>1, <1>4 DEF Critical
  <2> QED BY <1>1, <2>1, TaskZero DEF SpawnInv, PidLockInv
<1>14. SpaceInv'
  <2>1. pgdir'[cur] = pgdir[cur]
    BY <1>2, <1>3, <1>5
  <2> QED BY <1>1, <2>1 DEF SpawnInv, SpaceInv
<1> QED BY <1>1, <1>3, <1>8, <1>9, <1>10, <1>11, <1>12, <1>13, <1>14 DEF SpawnInv


(* The steps of console_put_str.                                           *)
Lock == [value : {0, 1}, holder : Tasks \cup {NULL}, repeat_nr : {0, 1}]

Accessed(next) ==
    /\ goto(next) /\ console' \in Lock
    /\ UNCHANGED <<list_vars, new_vars, pid_vars, cur, cr3, esp0, intr, new, walk, panic>>

LEMMA PrintStep ==
    ASSUME SpawnInv, ConsoleInv, console_put_str
    PROVE  SpawnInv' /\ h' = h /\ cur' = cur /\ pages' = pages /\ pages = 0
<1>1. /\ pc[cur] \in Printing /\ panic = "none"
      /\ \/ panic_spin("console_lock")
         \/ \E next \in Printing \cup {"enqueue"} : Accessed(next)
  <2>1. cur \in Tasks /\ console \in Lock
    BY DEF SpawnInv, SpawnTypes, TypeOK, Lock
  <2>2. /\ NULL \in Tasks \cup {NULL} /\ cur \in Tasks \cup {NULL} /\ 0 \in {0, 1} /\ 1 \in {0, 1}
        /\ \A v \in {0, 1} : [console EXCEPT !.value = v] \in Lock
        /\ \A t \in Tasks \cup {NULL} : [console EXCEPT !.holder = t] \in Lock
        /\ \A n \in {0, 1} : [console EXCEPT !.repeat_nr = n] \in Lock
    BY <2>1 DEF Lock
  <2>3. CASE console_step("sema_down", console.value = 0,
                          [console EXCEPT !.value = 0], "set_holder")
    BY <2>2, <2>3 DEF console_step, at, Accessed, Printing
  <2>4. CASE console_step("set_holder", FALSE, [console EXCEPT !.holder = cur], "set_repeat")
    BY <2>2, <2>4 DEF console_step, at, Accessed, Printing
  <2>5. CASE console_step("set_repeat", console.repeat_nr # 0,
                          [console EXCEPT !.repeat_nr = 1], "put_str")
    BY <2>2, <2>5 DEF console_step, at, Accessed, Printing
  <2>6. CASE console_step("put_str", console.holder # cur \/ console.repeat_nr # 1,
                          [console EXCEPT !.holder = NULL], "clear_repeat")
    BY <2>2, <2>6 DEF console_step, at, Accessed, Printing
  <2>7. CASE console_step("clear_repeat", FALSE, [console EXCEPT !.repeat_nr = 0], "sema_up")
    BY <2>2, <2>7 DEF console_step, at, Accessed, Printing
  <2>8. CASE console_step("sema_up", console.value # 0,
                          [console EXCEPT !.value = 1], "enqueue")
    BY <2>2, <2>8 DEF console_step, at, Accessed, Printing
  <2> QED BY <2>3, <2>4, <2>5, <2>6, <2>7, <2>8 DEF console_put_str
<1>2. /\ cur \in Tasks /\ status[cur] = "TASK_RUNNING" /\ SpawnTypes /\ Links(h)
  BY Running DEF SpawnInv
<1>3. pages = 0
  BY <1>1, <1>2 DEF ConsoleInv
<1>4. CASE panic_spin("console_lock")
  BY <1>3, <1>4, PanicStep DEF panic_spin, list_vars, new_vars, cpu_vars
<1>5. ASSUME NEW next \in Printing \cup {"enqueue"}, Accessed(next)
      PROVE  SpawnInv' /\ h' = h /\ cur' = cur /\ pages' = pages
  <2>1. /\ goto(next) /\ console' \in Lock
        /\ h' = h /\ status' = status /\ kind' = kind /\ pid' = pid /\ pgdir' = pgdir
        /\ created' = created /\ pages' = pages /\ older' = older /\ next_pid' = next_pid
        /\ pid_lock' = pid_lock /\ cur' = cur /\ cr3' = cr3 /\ esp0' = esp0
        /\ new' = new /\ walk' = walk /\ panic' = panic
    BY <1>5 DEF Accessed, list_vars, new_vars, pid_vars
  <2>2. pc[cur] \in Unlinked \ Unborn /\ next \in Unlinked \ Unborn
    BY <1>1 DEF Printing, Unlinked, Unborn
  <2>3. /\ \A t \in Tasks : (Fresh(t)' <=> Fresh(t)) /\ (Complete(t)' <=> Complete(t))
        /\ \A t \in Tasks : pc'[t] = IF t = cur THEN next ELSE pc[t]
    BY <1>2, <2>1, <2>2, FreshKept
  <2>4. SpawnTypes'
    <3>1. pc' \in [Tasks -> Labels]
      BY <1>2, <2>1, <2>2 DEF SpawnTypes, goto, Labels, Creating
    <3> QED BY <1>2, <2>1, <3>1 DEF SpawnTypes, TypeOK, Lock
  <2>5. PlacesInv' /\ WalkInv'
    BY <2>1, <2>3, PlacesKept
  <2>6. \A c \in Tasks :
          \/ pc'[c] = pc[c]
          \/ pc[c] \in Printing /\ pc'[c] \in Printing \cup {"enqueue"}
    BY <1>1, <1>5, <2>3
  <2>7. CreatorsInv'
    <3>1. \A c \in Tasks :
            /\ pc'[c] \in Creating <=> pc[c] \in Creating
            /\ pc'[c] \in {"create_user_vaddr_bitmap", "create_page_dir"} => pc'[c] = pc[c]
      BY <2>6 DEF Printing, Creating, Unlinked
    <3> QED BY <2>1, <3>1 DEF SpawnInv, CreatorsInv
  <2>8. CreatedInv'
    <3>1. \A c \in Tasks :
            /\ pc'[c] \in Unborn <=> pc[c] \in Unborn
            /\ pc'[c] \in {"user", "start_process"} => pc'[c] = pc[c]
      BY <2>6 DEF Printing, Unborn
    <3> QED BY <1>3, <2>1, <3>1 DEF SpawnInv, CreatedInv
  <2>9. PidInv'
    <3>1. \A c \in Tasks : pc'[c] \in {"lock_release", "return_pid"} => pc'[c] = pc[c]
      BY <2>6 DEF Printing
    <3> QED BY <2>1, <3>1 DEF SpawnInv, PidInv, PidsGrow
  <2>10. PidLockInv'
    <3>1. \A c \in Tasks : /\ pc'[c] \in Critical <=> pc[c] \in Critical
                           /\ pc'[c] = "allocate_pid" <=> pc[c] = "allocate_pid"
      BY <2>6 DEF Printing, Critical
    <3> QED BY <2>1, <3>1, TaskZero DEF SpawnInv, PidLockInv
  <2>11. SpaceInv'
    BY <2>1 DEF SpawnInv, SpaceInv
  <2> QED BY <1>2, <2>1, <2>4, <2>5, <2>7, <2>8, <2>9, <2>10, <2>11 DEF SpawnInv
<1> QED BY <1>1, <1>3, <1>4, <1>5

(* A creator links its task t into the lists M: the ready list makes it    *)
(* schedulable, the list of all tasks completes its creation.              *)
LinkedInto(t, M) ==
    /\ Links(h')
    /\ \A m \in Lists, u \in Tasks : In(h', m, u) <=> In(h, m, u) \/ (u = t /\ m \in M)
    /\ \A u \in Tasks : Points(h', general_tag(u)) => Points(h, general_tag(u)) \/ u = t

LEMMA LinkStep ==
    ASSUME SpawnInv, NEW t \in Tasks, t = new[cur],
           NEW M, NEW b, LinkedInto(t, M), goto(b), panic = "none",
           pc[cur] \in {"enqueue", "append_ready", "append_all"}, b \in {"run", "append_all"},
           b = "append_all" <=> pc[cur] = "append_ready",
           "ready" \in M <=> pc[cur] # "append_all", "all" \in M <=> b = "run",
           "pid_lock" \notin M, "semaphore" \notin M,
           new' = IF b = "run" THEN [new EXCEPT ![cur] = NULL] ELSE new,
           walk' = walk \/ walk' = [walk EXCEPT ![cur] = NULL],
           status' = status, kind' = kind, pid' = pid, pgdir' = pgdir, created' = created,
           pages' = pages, older' = older, next_pid' = next_pid, pid_lock' = pid_lock,
           cur' = cur, cr3' = cr3, esp0' = esp0, console' = console, panic' = panic
    PROVE  SpawnInv'
<1>1. /\ cur \in Tasks /\ status[cur] = "TASK_RUNNING" /\ ~Fresh(cur)
      /\ SpawnTypes /\ Placed(cur)
  BY Running DEF SpawnInv, PlacesInv
<1>2. /\ t \in Tasks /\ t # cur /\ ~Complete(t) /\ ~In(h, "all", t) /\ status[t] # "none"
      /\ pid[t] # 0 /\ Placed(t) /\ t # NULL
      /\ \A c \in Tasks : new[c] = t => c = cur
      /\ pc[cur] # "append_all" => Fresh(t)
      /\ pc[cur] = "append_all" => ~Fresh(t)
  <2>1. /\ pc[cur] \in Creating /\ pc[cur] \notin Unborn
        /\ pc[cur] # "append_all" => pc[cur] \in Unlinked
    BY DEF Creating, Unlinked, Unborn
  <2> QED BY <1>1, <2>1, NewTask, TaskZero DEF SpawnInv, PlacesInv, CreatedInv
<1>3. /\ \A c \in Tasks : pc'[c] = IF c = cur THEN b ELSE pc[c]
      /\ pc' \in [Tasks -> Labels]
  BY <1>1 DEF goto, SpawnTypes, Labels, Creating
<1>4. /\ \A c \in Tasks : new'[c] = IF c = cur /\ b = "run" THEN NULL ELSE new[c]
      /\ new' \in [Tasks -> Tasks \cup {NULL}]
  BY <1>1 DEF SpawnTypes, TypeOK
<1>5. /\ \A c \in Tasks : walk'[c] = walk[c] \/ walk'[c] = NULL
      /\ walk' \in [Tasks -> Elems \cup {NULL}]
  BY <1>1 DEF SpawnTypes
<1>6. new[cur] = t
  OBVIOUS
<1>7. b \notin Unlinked /\ b \notin Unborn /\ pc[cur] \notin Unborn
  BY DEF Unlinked, Unborn
<1>8. \A c \in Tasks, u \in Tasks : u # t => (new'[c] = u <=> new[c] = u) /\ (new[c] = u => pc'[c] = pc[c])
  BY <1>3, <1>4, <1>6, TaskZero
<1>9. ASSUME NEW u \in Tasks, u # t PROVE (Fresh(u)' <=> Fresh(u)) /\ (Complete(u)' <=> Complete(u))
  BY <1>8, <1>9 DEF Fresh, Complete
<1>10. ~Fresh(t)' /\ (Complete(t)' <=> b = "run")
  <2>1. \A c \in Tasks : new'[c] = t => c = cur /\ b # "run"
    BY <1>2, <1>4
  <2>2. pc'[cur] \notin Unlinked
    BY <1>1, <1>3, <1>7
  <2>3. b # "run" => new'[cur] = t
    BY <1>1, <1>4, <1>6
  <2> QED BY <1>1, <1>2, <2>1, <2>2, <2>3 DEF Fresh, Complete
<1>11. SpawnTypes'
  BY <1>1, <1>3, <1>4, <1>5 DEF SpawnTypes, TypeOK
<1>12. \A m \in Lists, u \in Tasks : In(h', m, u) <=> In(h, m, u) \/ (u = t /\ m \in M)
  BY <1>6 DEF LinkedInto
<1>13. PlacesInv'
  <2> SUFFICES ASSUME NEW u \in Tasks PROVE Placed(u)'
    BY DEF PlacesInv
  <2>1. Placed(u)
    BY DEF SpawnInv, PlacesInv
  <2>2. CASE u = t
    <3>1. pc'[u] = pc[u]
      BY <1>2, <1>3, <2>2
    <3>2. /\ In(h', "ready", u) <=> In(h, "ready", u) \/ pc[cur] # "append_all"
          /\ In(h', "pid_lock", u) <=> In(h, "pid_lock", u)
          /\ In(h', "semaphore", u) <=> In(h, "semaphore", u)
          /\ In(h', "all", u) <=> b = "run"
      BY <1>2, <1>12, <2>2, TagIs
    <3>3. pc[cur] # "append_all" => status[u] = "TASK_READY"
      BY <1>2, <2>1, <2>2 DEF Placed
    <3>4. In(h', "ready", u) <=> status[u] = "TASK_READY"
      BY <1>2, <2>1, <2>2, <3>2, <3>3 DEF Placed
    <3>5. ~Fresh(u)' /\ (In(h', "all", u) <=> Complete(u)')
      BY <1>10, <2>2, <3>2
    <3> QED BY <2>1, <3>1, <3>2, <3>4, <3>5 DEF Placed
  <2>3. CASE u = cur
    <3>1. Fresh(u)' <=> FALSE
      BY <1>1, <1>2, <1>9, <2>3
    <3>2. \A m \in Lists : In(h', m, u) <=> In(h, m, u)
      BY <1>2, <1>12, <2>3
    <3>3. Complete(u)' <=> Complete(u)
      BY <1>1, <1>2, <1>9, <2>3
    <3> QED BY <1>1, <2>1, <2>3, <3>1, <3>2, <3>3, TagIs DEF Placed
  <2>4. CASE u # t /\ u # cur
    <3>1. \A m \in Lists : In(h', m, u) <=> In(h, m, u)
      BY <1>12, <2>4
    <3>2. (Fresh(u)' <=> Fresh(u)) /\ (Complete(u)' <=> Complete(u)) /\ pc'[u] = pc[u]
      BY <1>3, <1>9, <2>4
    <3> QED BY <2>1, <3>1, <3>2, TagIs DEF Placed
  <2> QED BY <2>2, <2>3, <2>4
<1>14. WalkInv'
  <2> SUFFICES ASSUME NEW u \in Tasks, Fresh(u)'
               PROVE  ~Points(h', general_tag(u)) /\ \A c \in Tasks : walk'[c] # general_tag(u)
    BY DEF WalkInv
  <2>1. u # t /\ Fresh(u)
    BY <1>9, <1>10
  <2>2. ~Points(h, general_tag(u)) /\ \A c \in Tasks : walk[c] # general_tag(u)
    BY <2>1 DEF SpawnInv, WalkInv
  <2>3. ~Points(h', general_tag(u))
    BY <1>6, <2>1, <2>2 DEF LinkedInto
  <2>4. general_tag(u) # NULL
    BY NullAssumption
  <2> QED BY <1>5, <2>2, <2>3, <2>4
<1>15. CreatorsInv'
  <2>1. ASSUME NEW c \in Tasks
        PROVE  /\ new'[c] # NULL <=> pc'[c] \in Creating
               /\ new'[c] # NULL => new'[c] \in 1 .. created' /\ new'[c] # c
               /\ pc'[c] \in {"create_user_vaddr_bitmap", "create_page_dir"} =>
                    kind'[new'[c]] = "process"
    <3>1. CASE c = cur
      <4>1. b = "append_all" <=> b \in Creating
        BY <1>7 DEF Creating
      <4> QED BY <1>2, <1>3, <1>4, <1>6, <3>1, <4>1 DEF SpawnInv, CreatorsInv
    <3>2. CASE c # cur
      BY <1>3, <1>4, <3>2 DEF SpawnInv, CreatorsInv
    <3> QED BY <3>1, <3>2
  <2>2. ASSUME NEW c \in Tasks, NEW e \in Tasks, new'[c] # NULL, new'[c] = new'[e]
        PROVE  c = e
    BY <1>4, <2>2 DEF SpawnInv, CreatorsInv
  <2> QED BY <2>1, <2>2 DEF CreatorsInv
<1>16. CreatedInv'
  <2> SUFFICES ASSUME NEW u \in Tasks
      PROVE
      /\ status[u] = "none" <=> (u > created \/ \E c \in Tasks : new'[c] = u /\ pc'[c] \in Unborn)
      /\ pid[u] # 0 <=> status[u] # "none"
      /\ status[u] = "none" => ~pgdir[u]
      /\ kind[u] = "thread" => ~pgdir[u]
      /\ pc'[u] = "user" => pgdir[u]
      /\ pc'[u] = "start_process" =>
           \/ pgdir[u]
           \/ pages = 0
           \/ \E c \in Tasks :
                new'[c] = u /\ pc'[c] \in {"create_user_vaddr_bitmap", "create_page_dir"}
    BY DEF CreatedInv
  <2>1. /\ status[u] = "none" <=> (u > created \/ \E c \in Tasks : new[c] = u /\ pc[c] \in Unborn)
        /\ pid[u] # 0 <=> status[u] # "none"
        /\ status[u] = "none" => ~pgdir[u]
        /\ kind[u] = "thread" => ~pgdir[u]
        /\ pc[u] = "user" => pgdir[u]
        /\ pc[u] = "start_process" =>
             \/ pgdir[u]
             \/ pages = 0
             \/ \E c \in Tasks :
                  new[c] = u /\ pc[c] \in {"create_user_vaddr_bitmap", "create_page_dir"}
    BY DEF SpawnInv, CreatedInv
  <2>2. \A c \in Tasks :
          /\ new'[c] = u /\ pc'[c] \in Unborn <=> new[c] = u /\ pc[c] \in Unborn
          /\ new[c] = u /\ pc[c] \in {"create_user_vaddr_bitmap", "create_page_dir"} =>
               new'[c] = u /\ pc'[c] \in {"create_user_vaddr_bitmap", "create_page_dir"}
    <3> SUFFICES ASSUME NEW c \in Tasks
        PROVE  /\ new'[c] = u /\ pc'[c] \in Unborn <=> new[c] = u /\ pc[c] \in Unborn
               /\ new[c] = u /\ pc[c] \in {"create_user_vaddr_bitmap", "create_page_dir"} =>
                    new'[c] = u /\ pc'[c] \in {"create_user_vaddr_bitmap", "create_page_dir"}
      OBVIOUS
    <3>1. CASE c = cur
      BY <1>3, <1>7, <3>1
    <3>2. CASE c # cur
      BY <1>3, <1>4, <3>2
    <3> QED BY <3>1, <3>2
  <2>3. (pc'[u] = "user" => pc[u] = "user") /\ (pc'[u] = "start_process" => pc[u] = "start_process")
    BY <1>3
  <2> QED BY <2>1, <2>2, <2>3
<1>17. PidInv'
  <2>1. ASSUME NEW c \in Tasks, pc'[c] \in {"lock_release", "return_pid"}
        PROVE  pc'[c] = pc[c] /\ new'[c] = new[c]
    BY <1>3, <1>4, <2>1
  <2> QED BY <2>1 DEF SpawnInv, PidInv, PidsGrow
<1>18. PidLockInv'
  <2>1. \A c \in Tasks : /\ pc'[c] \in Critical <=> pc[c] \in Critical
                         /\ pc'[c] = "allocate_pid" <=> pc[c] = "allocate_pid"
    BY <1>3 DEF Critical
  <2> QED BY <2>1, TaskZero DEF SpawnInv, PidLockInv
<1>19. SpaceInv'
  BY DEF SpawnInv, SpaceInv
<1> QED BY <1>11, <1>13, <1>14, <1>15, <1>16, <1>17, <1>18, <1>19 DEF SpawnInv, LinkedInto

(* One append, with the new task on none of the list's kin.                *)
LEMMA AppendedFacts ==
    ASSUME NEW g, Links(g), NEW l \in {"ready", "all"}, NEW t \in Tasks,
           \A m \in Kin(l) : ~In(g, m, t)
    PROVE  LET g2 == list_append(g, l, tag(l, t))
           IN  /\ Links(g2)
               /\ \A m \in Lists, u \in Tasks : In(g2, m, u) <=> In(g, m, u) \/ (u = t /\ m = l)
               /\ \A u \in Tasks : Points(g2, general_tag(u)) => Points(g, general_tag(u)) \/ u = t
<1> DEFINE g2 == list_append(g, l, tag(l, t))
<1>1. /\ Links(g2)
      /\ \A m \in Lists, u \in Tasks : In(g2, m, u) <=> In(g, m, u) \/ (m = l /\ u = t)
      /\ \A y \in Elems : Points(g2, y) => Points(g, y) \/ y = tag(l, t) \/ y = tail(l)
      /\ l \in Lists
  BY Appending, TagIs
<1> HIDE DEF g2
<1>2. ASSUME NEW u \in Tasks, Points(g2, general_tag(u)) PROVE Points(g, general_tag(u)) \/ u = t
  <2>1. general_tag(u) \in Elems /\ general_tag(u) # tail(l)
    BY <1>1, TagIs
  <2>2. tag(l, t) = general_tag(u) => u = t
    BY TagIs
  <2> QED BY <1>1, <1>2, <2>1, <2>2
<1>3. \A m \in Lists, u \in Tasks : In(g2, m, u) <=> In(g, m, u) \/ (u = t /\ m = l)
  BY <1>1
<1> QED BY <1>1, <1>2, <1>3 DEF g2

LEMMA EnqueueStep ==
    ASSUME SpawnInv, enqueue
    PROVE  SpawnInv' /\ h' = linked(new[cur]) /\ cur' = cur /\ new[cur] \in Tasks
           /\ ~In(h, "all", new[cur]) /\ \A m \in Lists \ {"all"} : ~In(h, m, new[cur])
<1> DEFINE t == new[cur]
           h1 == list_append(h, "ready", general_tag(t))
           h2 == list_append(h1, "all", all_list_tag(t))
<1>1. /\ t \in Tasks /\ Fresh(t) /\ ~In(h, "all", t) /\ \A m \in Lists \ {"all"} : ~In(h, m, t)
      /\ Links(h) /\ pc[cur] = "enqueue" /\ panic = "none"
  <2>1. pc[cur] = "enqueue" /\ pc[cur] \in Creating /\ pc[cur] \in Unlinked /\ panic = "none"
    BY DEF enqueue, at, Creating, Unlinked
  <2>2. t \in Tasks /\ Fresh(t) /\ ~In(h, "all", t)
    BY <2>1, NewTask, Running
  <2> QED BY <2>1, <2>2, FreshOnNoList DEF SpawnInv
<1>2. ~elem_find(h, "ready", general_tag(t)) /\ ~elem_find(h, "all", all_list_tag(t))
  <2>1. general_tag(t) = tag("ready", t) /\ all_list_tag(t) = tag("all", t)
    BY TagIs
  <2>2. ~elem_find(h, "ready", tag("ready", t)) /\ ~elem_find(h, "all", tag("all", t))
    BY <1>1, Seen, TagIs
  <2> QED BY <2>1, <2>2
<1>3. /\ h' = h2 /\ new' = [new EXCEPT ![cur] = NULL] /\ goto("run")
      /\ status' = status /\ kind' = kind /\ pid' = pid /\ pgdir' = pgdir /\ created' = created
      /\ pages' = pages /\ older' = older /\ next_pid' = next_pid /\ pid_lock' = pid_lock
      /\ cur' = cur /\ cr3' = cr3 /\ esp0' = esp0 /\ panic' = panic /\ walk' = walk
      /\ console' = console
  BY <1>2, Zenon DEF enqueue, linked, new_vars, pid_vars, cpu_vars
<1>4. /\ Links(h1)
      /\ \A m \in Lists, u \in Tasks : In(h1, m, u) <=> In(h, m, u) \/ (u = t /\ m = "ready")
      /\ \A u \in Tasks : Points(h1, general_tag(u)) => Points(h, general_tag(u)) \/ u = t
  <2>1. general_tag(t) = tag("ready", t) /\ \A m \in Kin("ready") : ~In(h, m, t)
    BY <1>1, TagIs
  <2> HIDE DEF t
  <2> QED BY <1>1, <2>1, AppendedFacts
<1> HIDE DEF h1
<1>5. /\ Links(h2)
      /\ \A m \in Lists, u \in Tasks : In(h2, m, u) <=> In(h1, m, u) \/ (u = t /\ m = "all")
      /\ \A u \in Tasks : Points(h2, general_tag(u)) => Points(h1, general_tag(u)) \/ u = t
  <2>1. all_list_tag(t) = tag("all", t) /\ \A m \in Kin("all") : ~In(h1, m, t)
    BY <1>1, <1>4, TagIs
  <2> HIDE DEF t
  <2> QED BY <1>1, <1>4, <2>1, AppendedFacts
<1> HIDE DEF h2
<1>6. LinkedInto(t, {"ready", "all"})
  BY <1>3, <1>4, <1>5 DEF LinkedInto
<1>7. SpawnInv'
  BY <1>1, <1>3, <1>6, LinkStep
<1> QED BY <1>1, <1>3, <1>7, Zenon DEF linked, h1, h2

LEMMA AppendReadyStep ==
    ASSUME SpawnInv, append_ready
    PROVE  SpawnInv' /\ new[cur] \in Tasks /\ \A m \in Lists \ {"all"} : ~In(h, m, new[cur])
<1> DEFINE t == new[cur]
           h1 == list_append(h, "ready", general_tag(t))
<1>1. /\ t \in Tasks /\ Fresh(t) /\ \A m \in Lists \ {"all"} : ~In(h, m, t)
      /\ Links(h) /\ pc[cur] = "append_ready" /\ panic = "none"
  <2>1. pc[cur] = "append_ready" /\ pc[cur] \in Creating /\ pc[cur] \in Unlinked /\ panic = "none"
    BY DEF append_ready, at, Creating, Unlinked
  <2>2. t \in Tasks /\ Fresh(t)
    BY <2>1, NewTask, Running
  <2> QED BY <2>1, <2>2, FreshOnNoList DEF SpawnInv
<1>2. /\ h' = h1 /\ new' = new /\ goto("append_all") /\ walk' = [walk EXCEPT ![cur] = NULL]
      /\ status' = status /\ kind' = kind /\ pid' = pid /\ pgdir' = pgdir /\ created' = created
      /\ pages' = pages /\ older' = older /\ next_pid' = next_pid /\ pid_lock' = pid_lock
      /\ cur' = cur /\ cr3' = cr3 /\ esp0' = esp0 /\ console' = console /\ panic' = panic
  BY DEF append_ready, new_vars, pid_vars, cpu_vars
<1>3. /\ Links(h1)
      /\ \A m \in Lists, u \in Tasks : In(h1, m, u) <=> In(h, m, u) \/ (u = t /\ m = "ready")
      /\ \A u \in Tasks : Points(h1, general_tag(u)) => Points(h, general_tag(u)) \/ u = t
  <2>1. general_tag(t) = tag("ready", t) /\ \A m \in Kin("ready") : ~In(h, m, t)
    BY <1>1, TagIs
  <2> HIDE DEF t
  <2> QED BY <1>1, <2>1, AppendedFacts
<1> HIDE DEF h1
<1>4. LinkedInto(t, {"ready"})
  BY <1>2, <1>3 DEF LinkedInto
<1> QED BY <1>1, <1>2, <1>4, LinkStep

LEMMA AppendAllStep ==
    ASSUME SpawnInv, append_all
    PROVE  SpawnInv' /\ new[cur] \in Tasks /\ ~In(h, "all", new[cur])
           /\ h' = list_append(h, "all", all_list_tag(new[cur])) /\ cur' = cur
<1> DEFINE t == new[cur]
           h1 == list_append(h, "all", all_list_tag(t))
<1>1. t \in Tasks /\ ~In(h, "all", t) /\ Links(h) /\ pc[cur] = "append_all" /\ panic = "none"
  <2>1. pc[cur] = "append_all" /\ pc[cur] \in Creating /\ panic = "none"
    BY DEF append_all, at, Creating
  <2> QED BY <2>1, NewTask, Running DEF SpawnInv
<1>2. ~elem_find(h, "all", all_list_tag(t))
  <2>1. all_list_tag(t) = tag("all", t) /\ ~elem_find(h, "all", tag("all", t))
    BY <1>1, Seen, TagIs
  <2> QED BY <2>1
<1>3. /\ h' = h1 /\ new' = [new EXCEPT ![cur] = NULL] /\ goto("run") /\ walk' = walk
      /\ status' = status /\ kind' = kind /\ pid' = pid /\ pgdir' = pgdir /\ created' = created
      /\ pages' = pages /\ older' = older /\ next_pid' = next_pid /\ pid_lock' = pid_lock
      /\ cur' = cur /\ cr3' = cr3 /\ esp0' = esp0 /\ console' = console /\ panic' = panic
  BY <1>2, Zenon DEF append_all, new_vars, pid_vars, cpu_vars
<1>4. /\ Links(h1)
      /\ \A m \in Lists, u \in Tasks : In(h1, m, u) <=> In(h, m, u) \/ (u = t /\ m = "all")
      /\ \A u \in Tasks : Points(h1, general_tag(u)) => Points(h, general_tag(u)) \/ u = t
  <2>1. all_list_tag(t) = tag("all", t) /\ \A m \in Kin("all") : ~In(h, m, t)
    BY <1>1, TagIs
  <2> HIDE DEF t
  <2> QED BY <1>1, <2>1, AppendedFacts
<1> HIDE DEF h1
<1>5. LinkedInto(t, {"all"})
  BY <1>3, <1>4 DEF LinkedInto
<1>6. SpawnInv'
  BY <1>1, <1>3, <1>5, LinkStep
<1> QED BY <1>1, <1>3, <1>6, Zenon DEF h1


(* The walk of elem_find stays among linked elements, which the new task   *)
(* is not.                                                                 *)
LEMMA TurnStep ==
    ASSUME SpawnInv, elem_find_turn
    PROVE  SpawnInv'
<1>1. /\ pc[cur] = "elem_find" /\ walk[cur] # NULL /\ panic = "none" /\ cur \in Tasks
      /\ status[cur] = "TASK_RUNNING" /\ SpawnTypes /\ Links(h)
  BY Running DEF elem_find_turn, at, SpawnInv
<1>2. walk[cur] # general_tag(new[cur])
  <2>1. pc[cur] \in Creating /\ pc[cur] \in Unlinked
    BY <1>1 DEF Creating, Unlinked
  <2>2. new[cur] \in Tasks /\ Fresh(new[cur])
    BY <1>1, <2>1, NewTask
  <2> QED BY <1>1, <2>2 DEF SpawnInv, WalkInv
<1>3. /\ h' = h /\ status' = status /\ kind' = kind /\ pid' = pid /\ pgdir' = pgdir
      /\ created' = created /\ pages' = pages /\ older' = older /\ next_pid' = next_pid
      /\ pid_lock' = pid_lock /\ cur' = cur /\ cr3' = cr3 /\ esp0' = esp0 /\ console' = console
      /\ new' = new /\ panic' = panic
      /\ \/ goto("append_ready") /\ walk' = walk
         \/ walk' = [walk EXCEPT ![cur] = h.next[@]] /\ pc' = pc
  BY <1>2 DEF elem_find_turn, list_vars, new_vars, pid_vars, cpu_vars
<1>4. /\ \A t \in Tasks : (Fresh(t)' <=> Fresh(t)) /\ (Complete(t)' <=> Complete(t))
      /\ \A t \in Tasks \ {cur} : pc'[t] = pc[t]
      /\ pc'[cur] \in {"elem_find", "append_ready"}
      /\ pc' \in [Tasks -> Labels]
  <2>1. CASE goto("append_ready")
    <3>1. /\ \A t \in Tasks : (Fresh(t)' <=> Fresh(t)) /\ (Complete(t)' <=> Complete(t))
          /\ \A t \in Tasks : pc'[t] = IF t = cur THEN "append_ready" ELSE pc[t]
      BY <1>1, <1>3, <2>1, FreshKept DEF Unlinked
    <3>2. pc' \in [Tasks -> Labels]
      BY <1>1, <2>1 DEF goto, SpawnTypes, Labels, Creating, Unlinked
    <3> QED BY <1>1, <3>1, <3>2
  <2>2. CASE pc' = pc
    <3>1. \A t \in Tasks : (Fresh(t)' <=> Fresh(t)) /\ (Complete(t)' <=> Complete(t))
      BY <1>3, <2>2 DEF Fresh, Complete
    <3> QED BY <1>1, <2>2, <3>1 DEF SpawnTypes
  <2> QED BY <1>3, <2>1, <2>2
<1>5. /\ \A c \in Tasks : walk'[c] = walk[c] \/ Points(h, walk'[c])
      /\ walk' \in [Tasks -> Elems \cup {NULL}]
  <2>1. CASE walk' = walk
    BY <1>1, <2>1 DEF SpawnTypes
  <2>2. CASE walk' = [walk EXCEPT ![cur] = h.next[@]]
    <3>1. walk[cur] \in Elems /\ h.next[walk[cur]] \in Elems \cup {NULL}
      BY <1>1 DEF SpawnTypes, Links
    <3>2. Points(h, h.next[walk[cur]])
      BY <3>1 DEF Points
    <3> QED BY <1>1, <2>2, <3>1, <3>2 DEF SpawnTypes
  <2> QED BY <1>3, <2>1, <2>2
<1>6. SpawnTypes'
  BY <1>1, <1>3, <1>4, <1>5 DEF SpawnTypes, TypeOK
<1>7. PlacesInv'
  BY <1>3, <1>4, PlacesKept
<1>8. WalkInv'
  <2> SUFFICES ASSUME NEW u \in Tasks, Fresh(u)
               PROVE  ~Points(h, general_tag(u)) /\ \A c \in Tasks : walk'[c] # general_tag(u)
    BY <1>3, <1>4 DEF WalkInv
  <2>1. ~Points(h, general_tag(u)) /\ \A c \in Tasks : walk[c] # general_tag(u)
    BY DEF SpawnInv, WalkInv
  <2> QED BY <1>5, <2>1
<1>9. \A c \in Tasks : pc'[c] = pc[c] \/ (pc[c] = "elem_find" /\ pc'[c] = "append_ready")
  BY <1>1, <1>4
<1>10. CreatorsInv'
  <2>1. \A c \in Tasks : pc'[c] \in Creating <=> pc[c] \in Creating
    BY <1>9 DEF Creating, Unlinked
  <2> QED BY <1>3, <1>9, <2>1 DEF SpawnInv, CreatorsInv
<1>11. CreatedInv'
  <2>1. \A c \in Tasks : pc'[c] \in Unborn <=> pc[c] \in Unborn
    BY <1>9 DEF Unborn
  <2> QED BY <1>3, <1>9, <2>1 DEF SpawnInv, CreatedInv
<1>12. PidInv'
  BY <1>3, <1>9 DEF SpawnInv, PidInv, PidsGrow
<1>13. PidLockInv'
  <2>1. \A c \in Tasks : /\ pc'[c] \in Critical <=> pc[c] \in Critical
                         /\ pc'[c] = "allocate_pid" <=> pc[c] = "allocate_pid"
    BY <1>9 DEF Critical
  <2> QED BY <1>3, <2>1, TaskZero DEF SpawnInv, PidLockInv
<1>14. SpaceInv'
  BY <1>3 DEF SpawnInv, SpaceInv
<1> QED BY <1>1, <1>3, <1>6, <1>7, <1>8, <1>10, <1>11, <1>12, <1>13, <1>14 DEF SpawnInv

LEMMA StartStep ==
    ASSUME SpawnInv, start_process
    PROVE  SpawnInv'
<1>1. pc[cur] = "start_process" /\ panic = "none" /\ cur \in Tasks
      /\ status[cur] = "TASK_RUNNING" /\ ~Fresh(cur) /\ SpawnTypes /\ Links(h)
  BY Running DEF start_process, at, SpawnInv
<1>2. CASE ~pgdir[cur]
  <2>1. panic_spin("get_a_page")
    BY <1>2 DEF start_process
  <2>2. \A c \in Tasks : new[c] = cur => pc[c] \notin {"create_user_vaddr_bitmap", "create_page_dir"}
    BY <1>1 DEF Fresh, Unlinked
  <2>3. pages = 0
    BY <1>1, <1>2, <2>2 DEF SpawnInv, CreatedInv
  <2> QED BY <2>1, <2>3, PanicStep
<1>3. CASE pgdir[cur]
  <2>1. /\ goto("user")
        /\ h' = h /\ status' = status /\ kind' = kind /\ pid' = pid /\ pgdir' = pgdir
        /\ created' = created /\ pages' = pages /\ older' = older /\ next_pid' = next_pid
        /\ pid_lock' = pid_lock /\ cur' = cur /\ cr3' = cr3 /\ esp0' = esp0 /\ console' = console
        /\ new' = new /\ walk' = walk /\ panic' = panic
    BY <1>3 DEF start_process, list_vars, new_vars, pid_vars, cpu_vars
  <2>2. /\ \A t \in Tasks : (Fresh(t)' <=> Fresh(t)) /\ (Complete(t)' <=> Complete(t))
        /\ \A t \in Tasks : pc'[t] = IF t = cur THEN "user" ELSE pc[t]
    BY <1>1, <2>1, FreshKept DEF Unlinked, Unborn
  <2>3. SpawnTypes'
    BY <1>1, <2>1 DEF SpawnTypes, TypeOK, goto, Labels
  <2>4. PlacesInv' /\ WalkInv'
    BY <2>1, <2>2, PlacesKept
  <2>5. CreatorsInv'
    <3>1. \A c \in Tasks : pc'[c] \in Creating <=> pc[c] \in Creating
      BY <1>1, <2>2 DEF Creating, Unlinked, Unborn
    <3> QED BY <2>1, <2>2, <3>1 DEF SpawnInv, CreatorsInv
  <2>6. CreatedInv'
    <3>1. \A c \in Tasks : /\ pc'[c] \in Unborn <=> pc[c] \in Unborn
                           /\ pc'[c] = pc[c] \/ (pc'[c] = "user" /\ c = cur /\ pc[c] = "start_process")
      BY <1>1, <2>2 DEF Unborn
    <3> QED BY <1>3, <2>1, <3>1 DEF SpawnInv, CreatedInv
  <2>7. PidInv'
    <3>1. \A c \in Tasks : pc'[c] \in {"lock_release", "return_pid"} => pc'[c] = pc[c]
      BY <2>2
    <3> QED BY <2>1, <3>1 DEF SpawnInv, PidInv, PidsGrow
  <2>8. PidLockInv'
    <3>1. \A c \in Tasks : /\ pc'[c] \in Critical <=> pc[c] \in Critical
                           /\ pc'[c] = "allocate_pid" <=> pc[c] = "allocate_pid"
      BY <1>1, <2>2 DEF Critical
    <3> QED BY <2>1, <3>1, TaskZero DEF SpawnInv, PidLockInv
  <2>9. SpaceInv'
    BY <2>1 DEF SpawnInv, SpaceInv
  <2> QED BY <1>1, <2>1, <2>3, <2>4, <2>5, <2>6, <2>7, <2>8, <2>9 DEF SpawnInv
<1> QED BY <1>2, <1>3


-----------------------------------------------------------------------------
(* thread_init: list_init of one list after the other.                     *)
Cleared(g) ==
    /\ DOMAIN g.prev = Elems /\ DOMAIN g.next = Elems
    /\ \A x \in Elems : g.next[x] = NULL \/ \E l \in Lists : g.next[x] = tail(l)

Empty(g, l) == g.next[head(l)] = tail(l) /\ g.prev[tail(l)] = head(l)

LEMMA ListInit ==
    ASSUME NEW g, Cleared(g), NEW l \in Lists
    PROVE  LET g2 == list_init(g, l)
           IN  Cleared(g2) /\ Empty(g2, l) /\ \A m \in Lists : Empty(g, m) => Empty(g2, m)
<1> DEFINE nx == [g.next EXCEPT ![head(l)] = tail(l), ![tail(l)] = NULL]
           pv == [g.prev EXCEPT ![head(l)] = NULL, ![tail(l)] = head(l)]
<1>1. list_init(g, l).next = nx /\ list_init(g, l).prev = pv
  BY DEF list_init
<1>2. \A m \in Lists : head(m) \in Elems /\ tail(m) \in Elems
  BY ElemsApart
<1>3. \A m \in Lists, k \in Lists : head(m) # tail(k)
  BY ElemsApart
<1>4. DOMAIN nx = Elems /\ DOMAIN pv = Elems
  BY DEF Cleared
<1>5. nx[head(l)] = tail(l) /\ pv[tail(l)] = head(l)
  BY <1>2, <1>3 DEF Cleared
<1>6. \A x \in Elems : nx[x] = NULL \/ nx[x] = tail(l) \/ nx[x] = g.next[x]
  BY DEF Cleared
<1>7. \A m \in Lists : m # l => nx[head(m)] = g.next[head(m)] /\ pv[tail(m)] = g.prev[tail(m)]
  BY <1>2, <1>3, ElemsApart DEF Cleared
<1> HIDE DEF nx, pv
<1>8. Cleared(list_init(g, l))
  BY <1>1, <1>4, <1>6 DEF Cleared
<1>9. Empty(list_init(g, l), l)
  BY <1>1, <1>5 DEF Empty
<1>10. \A m \in Lists : Empty(g, m) => Empty(list_init(g, l), m)
  BY <1>1, <1>5, <1>7 DEF Empty
<1> QED BY <1>8, <1>9, <1>10

LEMMA InitialLists ==
    ASSUME thread_init
    PROVE  /\ Links(h)
           /\ \A m \in Lists, u \in Tasks : In(h, m, u) <=> m = "all" /\ u = 0
           /\ \A u \in Tasks : ~Points(h, general_tag(u))
           /\ queue_of(h) = [l \in Lists |-> IF l = "all" THEN <<all_list_tag(0)>> ELSE <<>>]
<1> DEFINE h0 == no_links(Lists, {general_tag(t) : t \in Tasks} \cup {all_list_tag(t) : t \in Tasks})
           i1 == list_init(h0, "ready")
           i2 == list_init(i1, "all")
           i3 == list_init(i2, "pid_lock")
           i4 == list_init(i3, "semaphore")
           L == [l \in Lists |-> <<>>]
<1>1. h = list_append(i4, "all", all_list_tag(0))
  BY DEF thread_init
<1>2. Cleared(h0)
  <2>1. {head(l) : l \in Lists} \cup {tail(l) : l \in Lists}
          \cup ({general_tag(t) : t \in Tasks} \cup {all_list_tag(t) : t \in Tasks}) = Elems
    BY DEF Elems
  <2>2. h0.next = [e \in Elems |-> NULL] /\ h0.prev = [e \in Elems |-> NULL]
    BY <2>1 DEF no_links
  <2> HIDE DEF h0
  <2> QED BY <2>2 DEF Cleared
<1> HIDE DEF h0
<1>3. Cleared(i1) /\ Empty(i1, "ready")
  BY <1>2, ListInit, TagIs
<1> HIDE DEF i1
<1>4. Cleared(i2) /\ Empty(i2, "ready") /\ Empty(i2, "all")
  BY <1>3, ListInit, TagIs
<1> HIDE DEF i2
<1>5. Cleared(i3) /\ Empty(i3, "ready") /\ Empty(i3, "all") /\ Empty(i3, "pid_lock")
  BY <1>4, ListInit, TagIs
<1> HIDE DEF i3
<1>6. Cleared(i4) /\ \A l \in Lists : Empty(i4, l)
  <2>1. Cleared(i4) /\ Empty(i4, "ready") /\ Empty(i4, "all") /\ Empty(i4, "pid_lock")
        /\ Empty(i4, "semaphore")
    BY <1>5, ListInit, TagIs
  <2> HIDE DEF i4
  <2> QED BY <2>1 DEF Lists
<1> HIDE DEF i4
<1>7. Represents(i4, L)
  <2>1. \A l \in Lists : Chain(i4, l, L[l])
    <3> SUFFICES ASSUME NEW l \in Lists PROVE Chain(i4, l, <<>>)
      OBVIOUS
    <3>1. 0 .. Len(<<>>) = {0} /\ Node(l, <<>>, 0) = head(l) /\ Node(l, <<>>, 0 + 1) = tail(l)
      BY DEF Node
    <3> QED BY <1>6, <3>1 DEF Chain, Empty
  <2>2. Typed(L) /\ Separate(L)
    BY DEF Typed, Separate
  <2> QED BY <1>6, <2>1, <2>2 DEF Represents, Cleared
<1>8. queue_of(i4) = L
  <2>1. \A m \in Lists : elements(i4, m) = L[m]
    BY <1>7, ListSeen
  <2> QED BY <2>1 DEF queue_of
<1>9. Links(i4)
  BY <1>6, <1>7, <1>8, ElemsApart DEF Links, Cleared
<1>10. \A m \in Lists, u \in Tasks : ~In(i4, m, u)
  BY <1>8 DEF In
<1>11. \A u \in Tasks : ~Points(i4, general_tag(u))
  <2>1. ASSUME NEW u \in Tasks, NEW x \in Elems, i4.next[x] = general_tag(u) PROVE FALSE
    BY <1>6, <2>1, TagIs, NullAssumption DEF Cleared
  <2> QED BY <2>1 DEF Points
<1>12. h = list_append(i4, "all", tag("all", 0)) /\ \A m \in Kin("all") : ~In(i4, m, 0)
  BY <1>1, <1>10, TagIs, TaskZero
<1>13. /\ Links(h)
       /\ \A m \in Lists, u \in Tasks : In(h, m, u) <=> In(i4, m, u) \/ (u = 0 /\ m = "all")
       /\ \A u \in Tasks : Points(h, general_tag(u)) => Points(i4, general_tag(u)) \/ u = 0
       /\ ~Points(h, general_tag(0))
  <2> DEFINE g2 == list_append(i4, "all", tag("all", 0))
  <2>1. /\ Links(g2)
        /\ \A m \in Lists, u \in Tasks : In(g2, m, u) <=> In(i4, m, u) \/ (m = "all" /\ u = 0)
        /\ \A y \in Elems : Points(g2, y) => Points(i4, y) \/ y = tag("all", 0) \/ y = tail("all")
    BY <1>9, <1>12, Appending, TagIs, TaskZero
  <2>2. h = g2
    BY <1>12
  <2> HIDE DEF g2
  <2>3. \A u \in Tasks : general_tag(u) \in Elems /\ general_tag(u) # tag("all", 0)
                         /\ general_tag(u) # tail("all")
    BY TagIs
  <2> QED BY <1>11, <2>1, <2>2, <2>3, TaskZero
<1>14. queue_of(h) = [l \in Lists |-> IF l = "all" THEN <<all_list_tag(0)>> ELSE <<>>]
  <2> DEFINE g2 == list_append(i4, "all", tag("all", 0))
  <2>1. queue_of(g2) = WithSeq(queue_of(i4), "all", Append(queue_of(i4)["all"], tag("all", 0)))
    BY <1>9, <1>12, Appending, TagIs, TaskZero
  <2>2. queue_of(i4)["all"] = <<>> /\ Append(<<>>, tag("all", 0)) = <<all_list_tag(0)>>
    BY <1>8, TagIs
  <2>3. h = g2
    BY <1>12
  <2> HIDE DEF g2
  <2> QED BY <1>8, <2>1, <2>2, <2>3 DEF WithSeq
<1> QED BY <1>10, <1>11, <1>13, <1>14

LEMMA InitInv == Init => SpawnInv
<1> SUFFICES ASSUME Init PROVE SpawnInv
  OBVIOUS
<1>1. /\ thread_init /\ cur = 0
      /\ status = [t \in Tasks |-> IF t = 0 THEN "TASK_RUNNING" ELSE "none"]
      /\ kind = [t \in Tasks |-> "thread"] /\ pid = [t \in Tasks |-> IF t = 0 THEN 1 ELSE 0]
      /\ pgdir = [t \in Tasks |-> FALSE] /\ next_pid = 1 /\ pid_lock = 1
      /\ pages = Pages /\ created = 0 /\ pc = [t \in Tasks |-> "run"]
      /\ new = [t \in Tasks |-> NULL] /\ walk = [t \in Tasks |-> NULL]
      /\ cr3 = 0 /\ esp0 = NULL /\ older = [t \in Tasks |-> {}] /\ panic = "none"
  BY DEF Init
<1>2. /\ Links(h)
      /\ \A m \in Lists, u \in Tasks : In(h, m, u) <=> m = "all" /\ u = 0
      /\ \A u \in Tasks : ~Points(h, general_tag(u))
  BY <1>1, InitialLists
<1>3. 0 \in Tasks /\ NULL \notin Tasks /\ MaxTasks \in Nat /\ Pages \in Nat
      /\ \A t \in Tasks : t \in Nat /\ t # NULL /\ (t # 0 => t > 0) /\ ~(0 > 0)
  BY TaskZero, SpawnAssumption DEF Tasks
<1>4. SpawnTypes
  <2>1. console \in [value : {0, 1}, holder : Tasks \cup {NULL}, repeat_nr : {0, 1}]
    BY DEF Init, unlocked
  <2>2. TypeOK
    BY <1>1, <1>3, <2>1 DEF TypeOK
  <2> QED BY <1>1, <2>2 DEF SpawnTypes, Labels
<1>5. \A t \in Tasks : (Fresh(t) <=> t # 0) /\ (Complete(t) <=> t = 0)
  BY <1>1, <1>3 DEF Fresh, Complete
<1>6. PlacesInv
  BY <1>1, <1>2, <1>3, <1>5, TagIs DEF PlacesInv, Placed
<1>7. CreatorsInv
  BY <1>1 DEF CreatorsInv, Creating, Unlinked, Unborn
<1>8. CreatedInv
  BY <1>1, <1>3 DEF CreatedInv, Unborn
<1>9. PidInv
  BY <1>1 DEF PidInv, PidsGrow
<1>10. PidLockInv
  BY <1>1, <1>3 DEF PidLockInv, Critical
<1>11. SpaceInv
  BY <1>1, <1>3 DEF SpaceInv
<1>12. WalkInv
  BY <1>1, <1>2, NullAssumption DEF WalkInv
<1> QED BY <1>2, <1>4, <1>6, <1>7, <1>8, <1>9, <1>10, <1>11, <1>12 DEF SpawnInv

(* SpawnInv is inductive: one lemma per action.                            *)
LEMMA SpawnNext == SpawnInv /\ ConsoleInv /\ [Next]_vars => SpawnInv'
<1> SUFFICES ASSUME SpawnInv, ConsoleInv, [Next]_vars PROVE SpawnInv'
  OBVIOUS
<1>1. CASE \E k \in {"thread", "process"} : create(k)
  BY <1>1, CreateStep
<1>2. CASE creation_step
  BY <1>2, AcquireStep, IncrementStep, ReleaseStep, InitThreadStep, BitmapStep,
     PageDirStep, PrintStep, EnqueueStep, TurnStep, AppendReadyStep, AppendAllStep, StartStep
     DEF creation_step
<1>3. CASE intr_enable
  BY <1>3, EnableStep
<1>4. CASE wait
  BY <1>4, BlockStep DEF wait, at, WaitLists
<1>5. CASE signal
  BY <1>5, SignalStep
<1>6. CASE clock_interrupt
  BY <1>6, ClockStep
<1>7. CASE UNCHANGED vars
  BY <1>7, Stutter
<1> QED BY <1>1, <1>2, <1>3, <1>4, <1>5, <1>6, <1>7 DEF Next

(* No page ever comes back, and only a task that got none takes the lock.  *)
Harmless ==
    /\ pages' = pages \/ pages # 0
    /\ console' \in {console, unlocked}
    /\ \A c \in Tasks : pc'[c] \in Printing => pc[c] \in Printing

LEMMA ConsoleNext == SpawnInv /\ ConsoleInv /\ [Next]_vars => ConsoleInv'
<1> SUFFICES ASSUME SpawnInv, ConsoleInv, [Next]_vars PROVE ConsoleInv'
  OBVIOUS
<1>1. cur \in Tasks /\ pages \in 0 .. Pages /\ pc \in [Tasks -> Labels]
  BY DEF SpawnInv, SpawnTypes, TypeOK
<1>2. Harmless => ConsoleInv'
  BY DEF Harmless, ConsoleInv
<1>3. \A r : panic_spin(r) => Harmless
  BY DEF panic_spin, new_vars, cpu_vars, Harmless
<1>4. ASSUME NEW b, goto(b), b \notin Printing
      PROVE  \A c \in Tasks : pc'[c] \in Printing => pc[c] \in Printing
  BY <1>1, <1>4 DEF goto
<1>5. \A g, st : switch_to_first(g, st) => console' \in {console, unlocked}
  BY DEF switch_to_first, printk
<1>6. \A l : sema_down_blocks(l) => Harmless
  BY <1>3, <1>5 DEF sema_down_blocks, new_vars, Harmless
<1>7. CASE \E k \in {"thread", "process"} : create(k)
  <2>1. "allocate_pid" \notin Printing
    BY DEF Printing
  <2>2. PICK k \in {"thread", "process"} : create(k)
    BY <1>7
  <2>3. CASE pages = 0
    BY <1>2, <1>3, <2>2, <2>3 DEF create
  <2>4. CASE pages # 0
    <3>1. goto("allocate_pid") /\ console' = console
      BY <2>2, <2>4 DEF create, cpu_vars
    <3> QED BY <1>2, <1>4, <2>1, <2>4, <3>1 DEF Harmless
  <2> QED BY <2>3, <2>4
<1>8. CASE lock_acquire
  <2>1. CASE pid_lock = 0
    BY <1>2, <1>6, <1>8, <2>1 DEF lock_acquire
  <2>2. CASE pid_lock # 0
    <3>1. goto("increment") /\ console' = console /\ pages' = pages
      BY <1>8, <2>2 DEF lock_acquire, new_vars, cpu_vars
    <3> QED BY <1>2, <1>4, <3>1 DEF Harmless, Printing
  <2> QED BY <2>1, <2>2
<1>9. CASE increment \/ lock_release
  <2>1. console' = console /\ pages' = pages /\ (goto("lock_release") \/ goto("return_pid"))
    BY <1>9 DEF increment, lock_release, new_vars, cpu_vars
  <2> QED BY <1>2, <1>4, <2>1 DEF Harmless, Printing
<1>10. CASE init_thread
  <2>1. /\ console' = console /\ pages' = pages
        /\ pc' = [pc EXCEPT ![cur] = IF kind[new[cur]] = "process"
                                     THEN "create_user_vaddr_bitmap" ELSE "elem_find",
                            ![new[cur]] = IF kind[new[cur]] = "process"
                                          THEN "start_process" ELSE "run"]
    BY <1>10 DEF init_thread, cpu_vars
  <2>2. \A c \in Tasks : pc'[c] = pc[c] \/ pc'[c] \notin Printing
    BY <1>1, <2>1 DEF Printing
  <2> QED BY <1>2, <2>1, <2>2 DEF Harmless
<1>11. CASE create_user_vaddr_bitmap
  <2>1. CASE pages = 0
    BY <1>2, <1>3, <1>11, <2>1 DEF create_user_vaddr_bitmap
  <2>2. CASE pages # 0
    <3>1. goto("create_page_dir") /\ console' = console
      BY <1>11, <2>2 DEF create_user_vaddr_bitmap, cpu_vars
    <3> QED BY <1>2, <1>4, <2>2, <3>1 DEF Harmless, Printing
  <2> QED BY <2>1, <2>2
<1>12. CASE create_page_dir
  <2>1. CASE pages = 0
    BY <1>12, <2>1 DEF create_page_dir, pages_left, ConsoleInv
  <2>2. CASE pages # 0
    <3>1. pages > 0
      BY <1>1, <2>2, SpawnAssumption
    <3>2. goto("enqueue") /\ console' = console
      BY <1>12, <3>1 DEF create_page_dir, cpu_vars
    <3> QED BY <1>2, <1>4, <2>2, <3>2 DEF Harmless, Printing
  <2> QED BY <2>1, <2>2
<1>13. CASE console_put_str
  BY <1>13, PrintStep DEF ConsoleInv
<1>14. CASE enqueue \/ append_ready \/ append_all
  <2>1. \/ \E r : panic_spin(r)
        \/ /\ console' = console /\ pages' = pages
           /\ goto("run") \/ goto("append_all")
    BY <1>14 DEF enqueue, append_ready, append_all, new_vars, cpu_vars
  <2> QED BY <1>2, <1>3, <1>4, <2>1 DEF Harmless, Printing
<1>15. CASE elem_find_turn
  <2>1. \/ \E r : panic_spin(r)
        \/ /\ console' = console /\ pages' = pages
           /\ goto("append_ready") \/ pc' = pc
    BY <1>15 DEF elem_find_turn, new_vars, cpu_vars
  <2> QED BY <1>2, <1>3, <1>4, <2>1 DEF Harmless, Printing
<1>16. CASE start_process
  <2>1. \/ \E r : panic_spin(r)
        \/ console' = console /\ pages' = pages /\ goto("user")
    BY <1>16 DEF start_process, new_vars, cpu_vars
  <2> QED BY <1>2, <1>3, <1>4, <2>1 DEF Harmless, Printing
<1>17. CASE intr_enable \/ signal \/ UNCHANGED vars
  <2>1. console' = console /\ pages' = pages /\ pc' = pc
    BY <1>17 DEF intr_enable, signal, vars, new_vars, cpu_vars
  <2> QED BY <1>2, <2>1 DEF Harmless
<1>18. CASE wait
  BY <1>2, <1>6, <1>18 DEF wait
<1>19. CASE clock_interrupt
  <2>1. \/ \E r : panic_spin(r)
        \/ console' \in {console, unlocked} /\ pages' = pages /\ pc' = pc
    BY <1>5, <1>19 DEF clock_interrupt, new_vars
  <2> QED BY <1>2, <1>3, <2>1 DEF Harmless
<1> QED BY <1>7, <1>8, <1>9, <1>10, <1>11, <1>12, <1>13, <1>14, <1>15, <1>16, <1>17, <1>18,
       <1>19 DEF Next, creation_step

LEMMA ConsoleInductive == Spec => [](SpawnInv /\ ConsoleInv)
<1>1. Init => ConsoleInv
  BY DEF Init, ConsoleInv, Printing
<1> QED BY <1>1, InitInv, SpawnNext, ConsoleNext, PTL DEF Spec

LEMMA SpawnInductive == Spec => []SpawnInv
  BY ConsoleInductive, PTL

-----------------------------------------------------------------------------
(* The tasks a sequence of tags stands for.                                *)
TagTasks(s) == [i \in 1 .. Len(s) |-> task_of(s[i])]

LEMMA TasksOf ==
    ASSUME SpawnInv, NEW l \in Lists
    PROVE  /\ tasks_of(l) = TagTasks(queue_of(h)[l])
           /\ list_len(h, l) = Len(queue_of(h)[l]) /\ Len(queue_of(h)[l]) \in Nat
           /\ Len(queue_of(h)[l]) <= MaxTasks + 1
           /\ \A i \in 1 .. Len(queue_of(h)[l]), t \in Tasks :
                tasks_of(l)[i] = t <=> queue_of(h)[l][i] = tag(l, t)
<1> DEFINE s == queue_of(h)[l]
<1>1. elements(h, l) = s
  BY DEF queue_of
<1>2. Links(h)
  BY DEF SpawnInv
<1>3. /\ Len(s) \in Nat /\ Len(s) <= MaxTasks + 1
      /\ \A i \in 1 .. Len(s) : \E t \in Tasks : s[i] = tag(l, t)
  BY <1>2, InTyped, ListFits DEF Links, Represents
<1> HIDE DEF s
<1>4. list_len(h, l) = Len(s) /\ tasks_of(l) = [i \in 1 .. Len(s) |-> task_of(s[i])]
  BY <1>1, Zenon DEF list_len, tasks_of
<1>5. \A i \in 1 .. Len(s), t \in Tasks : task_of(s[i]) = t <=> s[i] = tag(l, t)
  BY <1>3, ElemsApart
<1>6. \A i \in 1 .. Len(s), t \in Tasks : tasks_of(l)[i] = t <=> s[i] = tag(l, t)
  BY <1>4, <1>5
<1> QED BY <1>3, <1>4, <1>6, Zenon DEF s, TagTasks

(* A task that is in a list is in it once.                                 *)
LEMMA InOnce ==
    ASSUME SpawnInv, NEW l \in Lists, NEW t \in Tasks, In(h, l, t)
    PROVE  \E i \in 1 .. Len(queue_of(h)[l]) :
             /\ queue_of(h)[l][i] = tag(l, t)
             /\ \A m \in Kin(l), j \in Nat :
                  j \in 1 .. Len(queue_of(h)[m]) /\ queue_of(h)[m][j] = tag(m, t) => m = l /\ j = i
<1>1. PICK i \in 1 .. Len(queue_of(h)[l]) : queue_of(h)[l][i] = tag(l, t)
  BY Zenon DEF In
<1>2. \A m \in Kin(l) : m \in Lists /\ tag(m, t) = tag(l, t)
  BY TagIs DEF Kin
<1>3. Separate(queue_of(h))
  BY DEF SpawnInv, Links, Represents
<1> QED BY <1>1, <1>2, <1>3 DEF Separate

LEMMA ListedOnce == SpawnInv => EveryTaskListed
<1> DEFINE places(t) == {p \in (Lists \ {"all"}) \X (1 .. MaxTasks + 1) :
                           p[2] <= list_len(h, p[1]) /\ tasks_of(p[1])[p[2]] = t}
           spots(t) == {i \in 1 .. list_len(h, "all") : tasks_of("all")[i] = t}
<1> SUFFICES ASSUME SpawnInv, NEW t \in Tasks, Complete(t)
             PROVE  Cardinality(spots(t)) = 1 /\ Cardinality(places(t)) = IF t = cur THEN 0 ELSE 1
  BY DEF EveryTaskListed, Complete
<1> DEFINE Q == queue_of(h)
<1>1. /\ Placed(t) /\ status[t] # "none" /\ ~Fresh(t)
      /\ status[t] \in {"none", "TASK_RUNNING", "TASK_READY", "TASK_BLOCKED"}
  <2>1. Placed(t) /\ status[t] # "none"
    BY DEF SpawnInv, PlacesInv, CreatedInv, Complete
  <2> QED BY <2>1 DEF Fresh, Complete, SpawnInv, SpawnTypes, TypeOK
<1>2. Cardinality(spots(t)) = 1
  <2>1. In(h, "all", t)
    BY <1>1 DEF Placed
  <2>2. PICK i \in 1 .. Len(Q["all"]) :
           /\ Q["all"][i] = tag("all", t)
           /\ \A m \in Kin("all"), j \in Nat :
                j \in 1 .. Len(Q[m]) /\ Q[m][j] = tag(m, t) => m = "all" /\ j = i
    BY <2>1, InOnce, TagIs
  <2>3. /\ list_len(h, "all") = Len(Q["all"]) /\ Len(Q["all"]) \in Nat
        /\ \A j \in 1 .. Len(Q["all"]) : tasks_of("all")[j] = t <=> Q["all"][j] = tag("all", t)
    BY TasksOf, TagIs
  <2> HIDE DEF Q
  <2>4. spots(t) = {i}
    BY <2>2, <2>3, TagIs
  <2> HIDE DEF spots
  <2> QED BY <2>4, FS_Singleton
<1>3. ASSUME NEW p \in places(t)
      PROVE  /\ p[1] \in Lists \ {"all"} /\ p[2] \in Nat /\ p = <<p[1], p[2]>>
             /\ p[2] \in 1 .. Len(Q[p[1]]) /\ Q[p[1]][p[2]] = tag(p[1], t)
  <2>1. /\ p[1] \in Lists \ {"all"} /\ p[2] \in 1 .. MaxTasks + 1 /\ p = <<p[1], p[2]>>
        /\ p[2] <= list_len(h, p[1]) /\ tasks_of(p[1])[p[2]] = t
    BY <1>3
  <2> HIDE DEF places
  <2>2. /\ list_len(h, p[1]) = Len(Q[p[1]]) /\ Len(Q[p[1]]) \in Nat
        /\ \A j \in 1 .. Len(Q[p[1]]) : tasks_of(p[1])[j] = t <=> Q[p[1]][j] = tag(p[1], t)
    BY <2>1, TasksOf
  <2>3. p[2] \in 1 .. Len(Q[p[1]])
    BY <2>1, <2>2, SpawnAssumption
  <2> QED BY <2>1, <2>2, <2>3, SpawnAssumption
<1>4. CASE t = cur
  <2>1. \A l \in Lists \ {"all"} : ~In(h, l, t)
    BY <1>4, Running
  <2>2. places(t) = {}
    <3> SUFFICES ASSUME NEW p \in places(t) PROVE FALSE
      OBVIOUS
    <3>1. p[1] \in Lists \ {"all"} /\ p[2] \in 1 .. Len(Q[p[1]]) /\ Q[p[1]][p[2]] = tag(p[1], t)
      BY <1>3
    <3>2. In(h, p[1], t)
      BY <3>1 DEF In
    <3> QED BY <2>1, <3>1, <3>2
  <2> HIDE DEF places
  <2> QED BY <1>2, <1>4, <2>2, FS_EmptySet
<1>5. CASE t # cur
  <2>1. PICK l \in Lists \ {"all"} : In(h, l, t)
    BY <1>1, <1>5, TagIs DEF Placed
  <2>2. PICK i \in 1 .. Len(Q[l]) :
           /\ Q[l][i] = tag(l, t)
           /\ \A m \in Kin(l), j \in Nat :
                j \in 1 .. Len(Q[m]) /\ Q[m][j] = tag(m, t) => m = l /\ j = i
    BY <2>1, InOnce
  <2>3. <<l, i>> \in places(t)
    <3>1. /\ list_len(h, l) = Len(Q[l]) /\ Len(Q[l]) \in Nat /\ Len(Q[l]) <= MaxTasks + 1
          /\ tasks_of(l)[i] = t
      BY <2>2, TasksOf
    <3>2. i \in 1 .. MaxTasks + 1 /\ i <= list_len(h, l)
      BY <2>2, <3>1, SpawnAssumption
    <3>3. <<l, i>>[1] = l /\ <<l, i>>[2] = i
      OBVIOUS
    <3> QED BY <3>1, <3>2, <3>3
  <2>4. places(t) = {<<l, i>>}
    <3>1. ASSUME NEW p \in places(t) PROVE p = <<l, i>>
      <4>1. /\ p[1] \in Lists \ {"all"} /\ p[2] \in Nat /\ p = <<p[1], p[2]>>
            /\ p[2] \in 1 .. Len(Q[p[1]]) /\ Q[p[1]][p[2]] = tag(p[1], t)
        BY <1>3
      <4>2. p[1] \in Kin(l)
        BY <4>1, TagIs
      <4>3. p[1] = l /\ p[2] = i
        BY <2>2, <4>1, <4>2
      <4> QED BY <4>1, <4>3
    <3> HIDE DEF places
    <3> QED BY <2>3, <3>1
  <2> HIDE DEF places
  <2> QED BY <1>2, <1>5, <2>4, FS_Singleton
<1> QED BY <1>4, <1>5

(* However creators and the clock interleave, with any number of tasks:    *)
(* the lists' pointers stay intact, every task whose creation is complete  *)
(* is in the list of all tasks once and either runs or is in one list, no  *)
(* ASSERT of thread.c, sync.c or list handling fails, and the machine      *)
(* stops only for lack of a page.                                          *)
THEOREM TasksSound == Spec => []TasksInv
<1>1. SpawnInv => TasksInv
  <2> SUFFICES ASSUME SpawnInv PROVE TasksInv
    OBVIOUS
  <2>1. TypeOK /\ PanicsOnlyWithoutPages
    BY DEF SpawnInv, SpawnTypes, SpaceInv, PanicsOnlyWithoutPages
  <2>2. ListsIntact
    BY ListSeen DEF SpawnInv, Links, ListsIntact
  <2> QED BY <2>1, <2>2, ListedOnce DEF TasksInv
<1> QED BY <1>1, SpawnInductive, PTL

(* allocate_pid returns next_pid after it has released the lock: what it   *)
(* returns is still larger than the pid of every task that had one when    *)
(* the creation began.                                                     *)
THEOREM PidsRise == Spec => []PidsGrow
<1>1. SpawnInv => PidsGrow
  BY DEF SpawnInv, PidInv
<1> QED BY <1>1, SpawnInductive, PTL

(* schedule() gives a user process its own page directory and stack, and   *)
(* a kernel thread the kernel's page directory.                            *)
THEOREM ProcessesOwnTheirSpace == Spec => []OwnSpaceAndStack
<1>1. SpawnInv => OwnSpaceAndStack
  <2> SUFFICES ASSUME SpawnInv PROVE OwnSpaceAndStack
    OBVIOUS
  <2>1. cur \in Tasks
    BY Running
  <2> QED BY <2>1 DEF SpawnInv, SpaceInv, CreatedInv, OwnSpaceAndStack
<1> QED BY <1>1, SpawnInductive, PTL


-----------------------------------------------------------------------------
(* The refinement of TaskQueues: what the list operations make of the      *)
(* sequences of tasks.                                                     *)
tasks_in(g, l) == TagTasks(queue_of(g)[l])

LEMMA TagTasksOf ==
    ASSUME NEW l \in Lists, NEW s \in Seq(Tags(l)), NEW t \in Tasks
    PROVE  /\ TagTasks(s) \in Seq(Tasks)
           /\ TagTasks(Append(s, tag(l, t))) = Append(TagTasks(s), t)
           /\ TagTasks(<<tag(l, t)>> \o s) = <<t>> \o TagTasks(s)
           /\ s # <<>> => /\ TagTasks(s) # <<>> /\ task_of(Head(s)) = Head(TagTasks(s))
                          /\ TagTasks(Tail(s)) = Tail(TagTasks(s))
<1> DEFINE x == tag(l, t)
           n == Len(s)
           m == TagTasks(s)
<1>1. n \in Nat /\ \A i \in 1 .. n : s[i] \in Tags(l)
  OBVIOUS
<1>2. x \in Tags(l) /\ task_of(x) = t /\ \A y \in Tags(l) : task_of(y) \in Tasks
  BY ElemsApart DEF Tags
<1>3. m \in Seq(Tasks) /\ Len(m) = n /\ \A i \in 1 .. n : m[i] = task_of(s[i])
  <2>1. m = [i \in 1 .. n |-> task_of(s[i])]
    BY DEF TagTasks
  <2>2. \A i \in 1 .. n : task_of(s[i]) \in Tasks
    BY <1>1, <1>2
  <2> HIDE DEF m, n
  <2> QED BY <1>1, <2>1, <2>2
<1> HIDE DEF x, m
<1>4. TagTasks(Append(s, x)) = Append(m, t)
  <2> DEFINE a == Append(s, x)
             b == Append(m, t)
  <2>1. /\ Len(a) = n + 1 /\ a[n + 1] = x /\ \A i \in 1 .. n : a[i] = s[i]
        /\ b \in Seq(Tasks) /\ Len(b) = n + 1 /\ b[n + 1] = t /\ \A i \in 1 .. n : b[i] = m[i]
    BY <1>2, <1>3
  <2> HIDE DEF a, b, n
  <2>2. \A i \in 1 .. n + 1 : task_of(a[i]) = b[i]
    <3> SUFFICES ASSUME NEW i \in 1 .. n + 1 PROVE task_of(a[i]) = b[i]
      OBVIOUS
    <3>1. i \in 1 .. n \/ i = n + 1
      BY <1>1
    <3> QED BY <1>2, <1>3, <2>1, <3>1
  <2>3. b = [i \in 1 .. n + 1 |-> b[i]]
    BY <2>1
  <2>4. TagTasks(a) = [i \in 1 .. n + 1 |-> task_of(a[i])]
    BY <2>1 DEF TagTasks
  <2>5. TagTasks(a) = b
    BY <2>2, <2>3, <2>4
  <2> QED BY <2>5 DEF a, b
<1>5. TagTasks(<<x>> \o s) = <<t>> \o m
  <2> DEFINE a == <<x>> \o s
             b == <<t>> \o m
  <2>1. /\ Len(a) = n + 1 /\ a[1] = x /\ \A i \in 2 .. n + 1 : a[i] = s[i - 1]
        /\ b \in Seq(Tasks) /\ Len(b) = n + 1 /\ b[1] = t /\ \A i \in 2 .. n + 1 : b[i] = m[i - 1]
    BY <1>2, <1>3
  <2> HIDE DEF a, b, n
  <2>2. \A i \in 1 .. n + 1 : task_of(a[i]) = b[i]
    <3> SUFFICES ASSUME NEW i \in 1 .. n + 1 PROVE task_of(a[i]) = b[i]
      OBVIOUS
    <3>1. i = 1 \/ (i \in 2 .. n + 1 /\ i - 1 \in 1 .. n)
      BY <1>1
    <3> QED BY <1>2, <1>3, <2>1, <3>1
  <2>3. b = [i \in 1 .. n + 1 |-> b[i]]
    BY <2>1
  <2>4. TagTasks(a) = [i \in 1 .. n + 1 |-> task_of(a[i])]
    BY <2>1 DEF TagTasks
  <2>5. TagTasks(a) = b
    BY <2>2, <2>3, <2>4
  <2> QED BY <2>5 DEF a, b
<1>6. ASSUME s # <<>>
      PROVE  m # <<>> /\ task_of(Head(s)) = Head(m) /\ TagTasks(Tail(s)) = Tail(m)
  <2> DEFINE a == Tail(s)
             b == Tail(m)
  <2>1. n > 0 /\ m # <<>> /\ Head(s) = s[1] /\ Head(m) = m[1] /\ 1 \in 1 .. n
    BY <1>3, <1>6
  <2>2. /\ Len(a) = n - 1 /\ \A i \in 1 .. n - 1 : a[i] = s[i + 1]
        /\ b \in Seq(Tasks) /\ Len(b) = n - 1 /\ \A i \in 1 .. n - 1 : b[i] = m[i + 1]
    BY <1>3, <1>6, <2>1
  <2> HIDE DEF a, b, n
  <2>3. \A i \in 1 .. n - 1 : i + 1 \in 1 .. n
    BY <1>1
  <2>4. \A i \in 1 .. n - 1 : task_of(a[i]) = b[i]
    BY <1>3, <2>2, <2>3
  <2>5. b = [i \in 1 .. n - 1 |-> b[i]]
    BY <2>2
  <2>6. TagTasks(a) = [i \in 1 .. n - 1 |-> task_of(a[i])]
    BY <2>2 DEF TagTasks
  <2>7. TagTasks(a) = b
    BY <2>4, <2>5, <2>6
  <2> QED BY <1>3, <2>1, <2>7 DEF a, b
<1> QED BY <1>3, <1>4, <1>5, <1>6 DEF x, m

LEMMA AppendView ==
    ASSUME NEW g, Links(g), NEW l \in Lists, NEW t \in Tasks, \A m \in Kin(l) : ~In(g, m, t)
    PROVE  \A m \in Lists : tasks_in(list_append(g, l, tag(l, t)), m) =
             IF m = l THEN Append(tasks_in(g, l), t) ELSE tasks_in(g, m)
<1> DEFINE g2 == list_append(g, l, tag(l, t))
           s == queue_of(g)[l]
<1>1. queue_of(g2) = WithSeq(queue_of(g), l, Append(s, tag(l, t)))
  BY Appending
<1>2. s \in Seq(Tags(l))
  BY InTyped
<1> HIDE DEF g2
<1>3. \A m \in Lists : queue_of(g2)[m] = IF m = l THEN Append(s, tag(l, t)) ELSE queue_of(g)[m]
  BY <1>1 DEF WithSeq
<1> HIDE DEF s
<1>4. TagTasks(Append(s, tag(l, t))) = Append(TagTasks(s), t)
  BY <1>2, TagTasksOf
<1> QED BY <1>3, <1>4, Zenon DEF tasks_in, g2, s

LEMMA PushView ==
    ASSUME NEW g, Links(g), NEW l \in Lists, NEW t \in Tasks, \A m \in Kin(l) : ~In(g, m, t)
    PROVE  \A m \in Lists : tasks_in(list_push(g, l, tag(l, t)), m) =
             IF m = l THEN <<t>> \o tasks_in(g, l) ELSE tasks_in(g, m)
<1> DEFINE g2 == list_push(g, l, tag(l, t))
           s == queue_of(g)[l]
<1>1. queue_of(g2) = WithSeq(queue_of(g), l, <<tag(l, t)>> \o s)
  BY Pushing
<1>2. s \in Seq(Tags(l))
  BY InTyped
<1> HIDE DEF g2
<1>3. \A m \in Lists : queue_of(g2)[m] = IF m = l THEN <<tag(l, t)>> \o s ELSE queue_of(g)[m]
  BY <1>1 DEF WithSeq
<1> HIDE DEF s
<1>4. TagTasks(<<tag(l, t)>> \o s) = <<t>> \o TagTasks(s)
  BY <1>2, TagTasksOf
<1> QED BY <1>3, <1>4, Zenon DEF tasks_in, g2, s

LEMMA PopView ==
    ASSUME NEW g, Links(g), NEW l \in Lists, ~list_empty(g, l)
    PROVE  /\ tasks_in(g, l) # <<>> /\ task_of(list_first(g, l)) = Head(tasks_in(g, l))
           /\ \A m \in Lists : tasks_in(list_pop(g, l), m) =
                IF m = l THEN Tail(tasks_in(g, l)) ELSE tasks_in(g, m)
<1> DEFINE g2 == list_pop(g, l)
           s == queue_of(g)[l]
<1>1. queue_of(g2) = WithSeq(queue_of(g), l, Tail(s)) /\ s # <<>> /\ list_first(g, l) = Head(s)
  BY Popping
<1>2. s \in Seq(Tags(l))
  BY InTyped
<1> HIDE DEF g2
<1>3. \A m \in Lists : queue_of(g2)[m] = IF m = l THEN Tail(s) ELSE queue_of(g)[m]
  BY <1>1 DEF WithSeq
<1> HIDE DEF s
<1>4. /\ TagTasks(s) # <<>> /\ task_of(Head(s)) = Head(TagTasks(s))
      /\ TagTasks(Tail(s)) = Tail(TagTasks(s))
  BY <1>1, <1>2, TagTasksOf, TaskZero
<1>5. tasks_in(g, l) = TagTasks(s)
  BY Zenon DEF tasks_in, s
<1>6. \A m \in Lists : tasks_in(g2, m) = IF m = l THEN Tail(tasks_in(g, l)) ELSE tasks_in(g, m)
  BY <1>3, <1>4, <1>5, Zenon DEF tasks_in
<1> QED BY <1>1, <1>4, <1>5, <1>6 DEF g2

LEMMA InView ==
    ASSUME NEW g, Links(g), NEW l \in Lists, NEW t \in Tasks
    PROVE  (\E i \in DOMAIN tasks_in(g, l) : tasks_in(g, l)[i] = t) <=> In(g, l, t)
<1> DEFINE s == queue_of(g)[l]
<1>1. \A i \in 1 .. Len(s) : \E u \in Tasks : s[i] = tag(l, u)
  BY InTyped
<1>2. tasks_in(g, l) = [i \in 1 .. Len(s) |-> task_of(s[i])]
  BY Zenon DEF tasks_in, TagTasks
<1>3. In(g, l, t) <=> \E i \in 1 .. Len(s) : s[i] = tag(l, t)
  BY DEF In
<1> HIDE DEF s
<1>4. \A i \in 1 .. Len(s) : task_of(s[i]) = t <=> s[i] = tag(l, t)
  BY <1>1, ElemsApart
<1> QED BY <1>2, <1>3, <1>4


(* Its variables, in this specification's terms.                           *)
waits_in(g) == [q \in WaitLists |-> tasks_in(g, q)]

AbstractStep == [Abstract!QueuesNext]_(Abstract!queues)

LEMMA Mapped ==
    /\ \A l \in Lists : tasks_of(l) = tasks_in(h, l)
    /\ [q \in WaitLists |-> tasks_of(q)] = waits_in(h)
<1>1. \A l \in Lists : tasks_of(l) = tasks_in(h, l)
  <2> SUFFICES ASSUME NEW l \in Lists PROVE tasks_of(l) = tasks_in(h, l)
    OBVIOUS
  <2>1. elements(h, l) = queue_of(h)[l]
    BY DEF queue_of
  <2> QED BY <2>1, Zenon DEF tasks_of, list_len, tasks_in, TagTasks
<1>2. WaitLists \in SUBSET Lists
  BY DEF WaitLists, Lists
<1> QED BY <1>1, <1>2 DEF waits_in

LEMMA MappedNext ==
    /\ \A l \in Lists : tasks_of(l)' = tasks_in(h', l)
    /\ [q \in WaitLists |-> tasks_of(q)]' = waits_in(h')
<1>1. \A l \in Lists : tasks_of(l)' = tasks_in(h', l)
  <2> SUFFICES ASSUME NEW l \in Lists PROVE tasks_of(l)' = tasks_in(h', l)
    OBVIOUS
  <2>1. elements(h', l) = queue_of(h')[l]
    BY DEF queue_of
  <2> QED BY <2>1, Zenon DEF tasks_of, list_len, tasks_in, TagTasks
<1>2. WaitLists \in SUBSET Lists
  BY DEF WaitLists, Lists
<1> QED BY <1>1, <1>2 DEF waits_in

LEMMA Idle ==
    ASSUME h' = h, cur' = cur
    PROVE  AbstractStep
<1>1. /\ tasks_of("ready")' = tasks_of("ready") /\ tasks_of("all")' = tasks_of("all")
      /\ [q \in WaitLists |-> tasks_of(q)]' = [q \in WaitLists |-> tasks_of(q)]
  BY Mapped, MappedNext, TagIs
<1> QED BY <1>1 DEF AbstractStep, Abstract!queues

LEMMA SwitchAbstract ==
    ASSUME SpawnInv, NEW l \in Lists \ {"all"}, NEW s, SwitchedOut(l, s),
           l = "ready" \/ ~list_empty(h, "ready")
    PROVE  AbstractStep
<1> DEFINE g == list_append(h, l, general_tag(cur))
<1>1. /\ Links(h) /\ cur \in Tasks /\ \A m \in Kin(l) : ~In(h, m, cur)
      /\ general_tag(cur) = tag(l, cur) /\ l \in Lists
  BY Running, TagIs DEF SpawnInv
<1>2. /\ Links(g)
      /\ \A m \in Lists, u \in Tasks : In(g, m, u) <=> In(h, m, u) \/ (m = l /\ u = cur)
  BY <1>1, Appending
<1>3. \A m \in Lists : tasks_in(g, m) =
        IF m = l THEN Append(tasks_in(h, l), cur) ELSE tasks_in(h, m)
  BY <1>1, AppendView
<1> HIDE DEF g
<1>4. PICK u \in Tasks : In(g, "ready", u)
  <2>1. CASE l = "ready"
    BY <1>1, <1>2, <2>1
  <2>2. CASE ~list_empty(h, "ready")
    <3>1. \E u \in Tasks : In(h, "ready", u)
      BY <1>1, <2>2, Seen, TagIs
    <3> QED BY <1>2, <3>1, TagIs
  <2> QED BY <2>1, <2>2
<1>5. switch_to_first(g, [status EXCEPT ![cur] = s])
  BY DEF SwitchedOut, g
<1>6. /\ h' = list_pop(g, "ready") /\ list_first(g, "ready") = tag("ready", cur')
      /\ cur' \in Tasks
  BY <1>2, <1>4, <1>5, SwitchTo
<1>7. ~list_empty(g, "ready")
  BY <1>2, <1>4, Seen, TagIs
<1>8. /\ tasks_in(g, "ready") # <<>> /\ task_of(list_first(g, "ready")) = Head(tasks_in(g, "ready"))
      /\ \A m \in Lists : tasks_in(list_pop(g, "ready"), m) =
           IF m = "ready" THEN Tail(tasks_in(g, "ready")) ELSE tasks_in(g, m)
  BY <1>2, <1>7, PopView, TagIs
<1>9. cur' = Head(tasks_in(g, "ready"))
  BY <1>6, <1>8, ElemsApart, TagIs
<1>10. \A m \in Lists : tasks_in(h', m) =
         IF m = "ready" THEN Tail(tasks_in(g, "ready")) ELSE tasks_in(g, m)
  BY <1>6, <1>8
<1>11. /\ tasks_of("ready")' = Tail(tasks_in(g, "ready")) /\ tasks_of("all")' = tasks_of("all")
       /\ [q \in WaitLists |-> tasks_of(q)]' = waits_in(h')
       /\ [q \in WaitLists |-> tasks_of(q)] = waits_in(h)
       /\ tasks_of("ready") = tasks_in(h, "ready")
  BY <1>3, <1>10, Mapped, MappedNext, TagIs
<1>12. CASE l = "ready"
  <2>1. tasks_in(g, "ready") = Append(tasks_of("ready"), cur)
    BY <1>3, <1>11, <1>12, TagIs
  <2>2. waits_in(h') = waits_in(h)
    BY <1>3, <1>10, <1>12, TagIs DEF waits_in, WaitLists
  <2>3. Abstract!Preempt
    BY <1>8, <1>9, <1>11, <2>1, <2>2 DEF Abstract!Preempt, Abstract!Dispatch
  <2> QED BY <2>3 DEF AbstractStep, Abstract!QueuesNext
<1>13. CASE l # "ready"
  <2>1. tasks_in(g, "ready") = tasks_of("ready") /\ l \in WaitLists
    BY <1>3, <1>11, <1>13, TagIs DEF WaitLists
  <2>2. waits_in(h') = [waits_in(h) EXCEPT ![l] = Append(@, cur)]
    BY <1>3, <1>10, <1>13, TagIs DEF waits_in, WaitLists
  <2>3. Abstract!Wait(l)
    BY <1>8, <1>9, <1>11, <2>1, <2>2 DEF Abstract!Wait, Abstract!Dispatch
  <2> QED BY <2>1, <2>3 DEF AbstractStep, Abstract!QueuesNext
<1> QED BY <1>12, <1>13

LEMMA WokenAbstract ==
    ASSUME SpawnInv, NEW l \in WaitLists, NEW t \in Tasks, Woken(l, t), cur' = cur
    PROVE  AbstractStep
<1> DEFINE g == list_pop(h, l)
<1>1. /\ Links(h) /\ l \in Lists /\ l # "all" /\ l # "ready" /\ In(h, l, t)
      /\ list_first(h, l) = general_tag(t) /\ general_tag(t) = tag("ready", t)
      /\ general_tag(t) = tag(l, t) /\ h' = list_push(g, "ready", general_tag(t))
  BY TagIs DEF SpawnInv, WaitLists, Lists, Woken
<1>2. ~list_empty(h, l)
  BY <1>1, Seen
<1>3. /\ Links(g) /\ task_of(list_first(h, l)) = t
      /\ \A m \in Lists, u \in Tasks : In(g, m, u) <=> In(h, m, u) /\ ~(m = l /\ u = t)
  BY <1>1, <1>2, Popping, ElemsApart
<1>4. /\ tasks_in(h, l) # <<>> /\ t = Head(tasks_in(h, l))
      /\ \A m \in Lists : tasks_in(g, m) = IF m = l THEN Tail(tasks_in(h, l)) ELSE tasks_in(h, m)
  BY <1>1, <1>2, <1>3, PopView
<1>5. \A m \in Kin("ready") : ~In(g, m, t)
  BY <1>1, <1>3, TagIs DEF SpawnInv, PlacesInv, Placed
<1> HIDE DEF g
<1>6. \A m \in Lists : tasks_in(h', m) =
        IF m = "ready" THEN <<t>> \o tasks_in(g, "ready") ELSE tasks_in(g, m)
  BY <1>1, <1>3, <1>5, PushView, TagIs
<1>7. /\ tasks_of("ready")' = <<t>> \o tasks_of("ready") /\ tasks_of("all")' = tasks_of("all")
      /\ [q \in WaitLists |-> tasks_of(q)]' = waits_in(h')
      /\ [q \in WaitLists |-> tasks_of(q)] = waits_in(h)
  BY <1>1, <1>4, <1>6, Mapped, MappedNext, TagIs
<1>8. waits_in(h') = [waits_in(h) EXCEPT ![l] = Tail(@)] /\ waits_in(h)[l] = tasks_in(h, l)
  BY <1>1, <1>4, <1>6, TagIs DEF waits_in, WaitLists
<1>9. Abstract!Wake(l)
  BY <1>4, <1>7, <1>8 DEF Abstract!Wake
<1> QED BY <1>9 DEF AbstractStep, Abstract!QueuesNext

(* enqueue, append_ready and append_all.                                   *)
LEMMA LinkAbstract ==
    ASSUME SpawnInv, NEW t \in Tasks, t # cur, cur' = cur,
           \/ /\ h' = linked(t) /\ ~In(h, "all", t) /\ \A m \in Lists \ {"all"} : ~In(h, m, t)
           \/ /\ h' = list_append(h, "ready", general_tag(t))
              /\ \A m \in Lists \ {"all"} : ~In(h, m, t)
           \/ h' = list_append(h, "all", all_list_tag(t)) /\ ~In(h, "all", t)
    PROVE  AbstractStep
<1> DEFINE h1 == list_append(h, "ready", tag("ready", t))
           h2 == list_append(h1, "all", tag("all", t))
           h3 == list_append(h, "all", tag("all", t))
<1>1. /\ general_tag(t) = tag("ready", t) /\ all_list_tag(t) = tag("all", t) /\ Links(h)
      /\ \A l \in Lists : tasks_of(l) = tasks_in(h, l) /\ tasks_of(l)' = tasks_in(h', l)
      /\ [q \in WaitLists |-> tasks_of(q)]' = waits_in(h')
      /\ [q \in WaitLists |-> tasks_of(q)] = waits_in(h)
      /\ \A q \in WaitLists : q \in Lists \ {"all", "ready"} /\ waits_in(h)[q] = tasks_in(h, q)
  BY TagIs, Mapped, MappedNext DEF SpawnInv, waits_in, WaitLists, Lists
<1>2. \/ h' = h2 /\ ~In(h, "all", t) /\ \A m \in Lists \ {"all"} : ~In(h, m, t)
      \/ h' = h1 /\ \A m \in Lists \ {"all"} : ~In(h, m, t)
      \/ h' = h3 /\ ~In(h, "all", t)
  BY <1>1 DEF linked
<1>3. ASSUME \A m \in Lists \ {"all"} : ~In(h, m, t)
      PROVE  /\ Links(h1) /\ \A u \in Tasks : In(h1, "all", u) <=> In(h, "all", u)
             /\ \A m \in Lists : tasks_in(h1, m) =
                  IF m = "ready" THEN Append(tasks_in(h, "ready"), t) ELSE tasks_in(h, m)
  <2>1. \A m \in Kin("ready") : ~In(h, m, t)
    BY <1>3, TagIs
  <2> QED BY <1>1, <2>1, Appending, AppendView, TagIs
<1>4. ASSUME NEW g, Links(g), ~In(g, "all", t)
      PROVE  \A m \in Lists : tasks_in(list_append(g, "all", tag("all", t)), m) =
               IF m = "all" THEN Append(tasks_in(g, "all"), t) ELSE tasks_in(g, m)
  <2>1. \A m \in Kin("all") : ~In(g, m, t)
    BY <1>4, TagIs
  <2> QED BY <1>4, <2>1, AppendView, TagIs
<1>5. ASSUME ~In(h, "all", t) PROVE ~Abstract!In(tasks_of("all"), t)
  <2>1. ~\E i \in DOMAIN tasks_in(h, "all") : tasks_in(h, "all")[i] = t
    BY <1>1, <1>5, InView, TagIs
  <2> QED BY <1>1, <2>1, TagIs DEF Abstract!In
<1>6. ASSUME \A m \in Lists \ {"all"} : ~In(h, m, t)
      PROVE  /\ ~Abstract!In(tasks_of("ready"), t)
             /\ \A q \in WaitLists : ~Abstract!In([r \in WaitLists |-> tasks_of(r)][q], t)
  <2>1. \A m \in Lists \ {"all"} : ~\E i \in DOMAIN tasks_in(h, m) : tasks_in(h, m)[i] = t
    BY <1>1, <1>6, InView
  <2>2. \A m \in Lists \ {"all"} : ~Abstract!In(tasks_in(h, m), t)
    BY <2>1 DEF Abstract!In
  <2>3. ~Abstract!In(tasks_of("ready"), t)
    BY <1>1, <2>2, TagIs
  <2>4. \A q \in WaitLists : [r \in WaitLists |-> tasks_of(r)][q] = tasks_in(h, q) /\ q \in Lists \ {"all"}
    BY <1>1
  <2> QED BY <2>2, <2>3, <2>4
<1> HIDE DEF h1
<1>7. ASSUME h' = h2, ~In(h, "all", t), \A m \in Lists \ {"all"} : ~In(h, m, t)
      PROVE  Abstract!MakeReady(t)
  <2>1. \A m \in Lists : tasks_in(h', m) =
          IF m = "all" THEN Append(tasks_in(h1, "all"), t) ELSE tasks_in(h1, m)
    BY <1>3, <1>4, <1>7
  <2>2. tasks_of("ready")' = Append(tasks_of("ready"), t) /\ tasks_of("all")' = Append(tasks_of("all"), t)
    BY <1>1, <1>3, <1>7, <2>1, TagIs
  <2>3. waits_in(h') = waits_in(h)
    BY <1>1, <1>3, <1>7, <2>1 DEF waits_in
  <2> QED BY <1>1, <1>5, <1>6, <1>7, <2>2, <2>3 DEF Abstract!MakeReady
<1>8. ASSUME h' = h1, \A m \in Lists \ {"all"} : ~In(h, m, t)
      PROVE  Abstract!MakeReady(t)
  <2>1. tasks_of("ready")' = Append(tasks_of("ready"), t) /\ tasks_of("all")' = tasks_of("all")
    BY <1>1, <1>3, <1>8, TagIs
  <2>2. waits_in(h') = waits_in(h)
    BY <1>1, <1>3, <1>8 DEF waits_in
  <2> QED BY <1>1, <1>6, <1>8, <2>1, <2>2 DEF Abstract!MakeReady
<1>9. ASSUME h' = h3, ~In(h, "all", t)
      PROVE  Abstract!Register(t)
  <2>1. \A m \in Lists : tasks_in(h', m) =
          IF m = "all" THEN Append(tasks_in(h, "all"), t) ELSE tasks_in(h, m)
    BY <1>1, <1>4, <1>9
  <2>2. tasks_of("ready")' = tasks_of("ready") /\ tasks_of("all")' = Append(tasks_of("all"), t)
    BY <1>1, <2>1, TagIs
  <2>3. waits_in(h') = waits_in(h)
    BY <1>1, <2>1 DEF waits_in
  <2> QED BY <1>1, <1>5, <1>9, <2>2, <2>3 DEF Abstract!Register
<1>10. Abstract!MakeReady(t) \/ Abstract!Register(t)
  BY <1>2, <1>7, <1>8, <1>9
<1> QED BY <1>10 DEF AbstractStep, Abstract!QueuesNext

LEMMA NextImplements == SpawnInv /\ ConsoleInv /\ [Next]_vars => AbstractStep
<1> SUFFICES ASSUME SpawnInv, ConsoleInv, [Next]_vars PROVE AbstractStep
  OBVIOUS
<1>1. CASE UNCHANGED vars
  BY <1>1, Idle DEF vars, list_vars, cpu_vars
<1>2. CASE \E k \in {"thread", "process"} : create(k)
  BY <1>2, Idle DEF create, panic_spin, list_vars, cpu_vars
<1>3. CASE lock_acquire
  <2>1. CASE pid_lock = 0
    <3>1. sema_down_blocks("pid_lock") /\ pc[cur] = "allocate_pid" /\ "pid_lock" \in WaitLists
      BY <1>3, <2>1 DEF lock_acquire, at, WaitLists
    <3>2. /\ SwitchedOut("pid_lock", "TASK_BLOCKED") \/ (h' = h /\ cur' = cur)
          /\ ~list_empty(h, "ready")
      BY <2>1, <3>1, BlockStep
    <3> QED BY <3>2, Idle, SwitchAbstract, TagIs
  <2>2. CASE pid_lock # 0
    BY <1>3, <2>2, Idle DEF lock_acquire, list_vars, cpu_vars
  <2> QED BY <2>1, <2>2
<1>4. CASE lock_release
  <2>1. NobodyWaits("pid_lock") \/ \E t \in Tasks : Woken("pid_lock", t)
    BY <1>4, ReleaseStep
  <2>2. cur' = cur /\ "pid_lock" \in WaitLists
    BY <1>4 DEF lock_release, cpu_vars, WaitLists
  <2> QED BY <2>1, <2>2, Idle, WokenAbstract DEF NobodyWaits
<1>5. CASE \/ increment \/ init_thread \/ create_user_vaddr_bitmap \/ create_page_dir
           \/ elem_find_turn \/ start_process \/ intr_enable
  BY <1>5, Idle DEF increment, init_thread, create_user_vaddr_bitmap, create_page_dir,
     elem_find_turn, start_process, intr_enable, panic_spin, list_vars, cpu_vars
<1>6. CASE enqueue \/ append_ready \/ append_all
  <2>1. new[cur] \in Tasks /\ new[cur] # cur /\ cur' = cur
    <3>1. pc[cur] \in Creating
      BY <1>6 DEF enqueue, append_ready, append_all, at, Creating, Unlinked
    <3>2. cur' = cur
      BY <1>6, EnqueueStep, AppendAllStep DEF append_ready, cpu_vars
    <3> QED BY <3>1, <3>2, NewTask, Running
  <2>2. PICK t \in Tasks : t = new[cur]
    BY <2>1
  <2>3. CASE enqueue
    BY <2>1, <2>2, <2>3, EnqueueStep, LinkAbstract
  <2>4. CASE append_ready
    <3>1. h' = list_append(h, "ready", general_tag(t))
      BY <2>2, <2>4 DEF append_ready
    <3> QED BY <2>1, <2>2, <2>4, <3>1, AppendReadyStep, LinkAbstract
  <2>5. CASE append_all
    BY <2>1, <2>2, <2>5, AppendAllStep, LinkAbstract
  <2> QED BY <1>6, <2>3, <2>4, <2>5
<1>7. CASE wait
  <2>1. sema_down_blocks("semaphore") /\ pc[cur] = "run" /\ cur # 0 /\ "semaphore" \in WaitLists
    BY <1>7 DEF wait, at, WaitLists
  <2>2. /\ SwitchedOut("semaphore", "TASK_BLOCKED") \/ (h' = h /\ cur' = cur)
        /\ ~list_empty(h, "ready")
    BY <2>1, BlockStep
  <2> QED BY <2>2, Idle, SwitchAbstract, TagIs
<1>8. CASE signal
  <2>1. \E t \in Tasks : Woken("semaphore", t)
    BY <1>8, SignalStep
  <2>2. cur' = cur /\ "semaphore" \in WaitLists
    BY <1>8 DEF signal, cpu_vars, WaitLists
  <2> QED BY <2>1, <2>2, WokenAbstract
<1>9. CASE clock_interrupt
  BY <1>9, ClockStep, Idle, SwitchAbstract, TagIs
<1>10. CASE console_put_str
  BY <1>10, PrintStep, Idle
<1> QED BY <1>1, <1>2, <1>3, <1>4, <1>5, <1>6, <1>7, <1>8, <1>9, <1>10 DEF Next, creation_step

(* The pointers of list.c, as thread.c and sync.c use them, implement the  *)
(* queues the rest of the kernel relies on: the task that is ready or      *)
(* waits longest comes first, a task that is woken comes before the ready  *)
(* ones, and the list of all tasks only grows.                             *)
THEOREM ListsImplementTaskQueues == Spec => QueueRefinement
<1>1. Init => Abstract!QueuesInit
  <2> SUFFICES ASSUME Init PROVE Abstract!QueuesInit
    OBVIOUS
  <2>1. queue_of(h) = [l \in Lists |-> IF l = "all" THEN <<all_list_tag(0)>> ELSE <<>>]
    BY InitialLists DEF Init
  <2>2. TagTasks(<<>>) = <<>> /\ TagTasks(<<all_list_tag(0)>>) = <<0>>
    <3>1. task_of(all_list_tag(0)) = 0
      BY DEF task_of, all_list_tag
    <3> QED BY <3>1 DEF TagTasks
  <2>3. \A l \in Lists : tasks_in(h, l) = IF l = "all" THEN <<0>> ELSE <<>>
    BY <2>1, <2>2 DEF tasks_in
  <2>4. waits_in(h) = [q \in WaitLists |-> <<>>]
    BY <2>3 DEF waits_in, WaitLists, Lists
  <2>5. cur = 0
    BY DEF Init
  <2> QED BY <2>3, <2>4, <2>5, Mapped, TagIs DEF Abstract!QueuesInit
<1>2. SpawnInv /\ ConsoleInv /\ [Next]_vars => [Abstract!QueuesNext]_(Abstract!queues)
  BY NextImplements DEF AbstractStep
<1> QED BY <1>1, <1>2, ConsoleInductive, PTL DEF Spec, QueueRefinement, Abstract!QueuesSpec
=============================================================================
