-------------------------------- MODULE List --------------------------------
(***************************************************************************)
(* The intrusive, doubly linked lists of lib/kernel/list.c, pointer by     *)
(* pointer.  The links of all list_elems are a record of two functions,    *)
(* prev and next.  A list l has two elements of its own, its head and its  *)
(* tail; the others are tags inside the structures that are linked.        *)
(*                                                                         *)
(* list_insert_before and list_remove disable interrupts around their      *)
(* assignments, so each of them is one operator.  elem_find, list_len and  *)
(* list_traversal do not: what they see is given here for a list that      *)
(* nobody changes meanwhile.                                               *)
(***************************************************************************)
EXTENDS Naturals, Sequences, FiniteSets

CONSTANT NULL

head(l) == <<"head", l>>
tail(l) == <<"tail", l>>

(* The list_elems of the lists Lists and of the tags Tags, in the state    *)
(* memset leaves them in.                                                  *)
no_links(Lists, Tags) ==
    LET elems == {head(l) : l \in Lists} \cup {tail(l) : l \in Lists} \cup Tags
        none  == [e \in elems |-> NULL]
    IN  [prev |-> none, next |-> none]

list_init(h, l) ==
    [prev |-> [h.prev EXCEPT ![head(l)] = NULL, ![tail(l)] = head(l)],
     next |-> [h.next EXCEPT ![head(l)] = tail(l), ![tail(l)] = NULL]]

(* The four assignments, in their order: a later one wins if two of them   *)
(* write the same field.                                                   *)
list_insert_before(h, before, elem) ==
    [prev |-> [h.prev EXCEPT ![elem] = h.prev[before], ![before] = elem],
     next |-> [h.next EXCEPT ![h.prev[before]] = elem, ![elem] = before]]

list_push(h, l, elem) == list_insert_before(h, h.next[head(l)], elem)

list_append(h, l, elem) == list_insert_before(h, tail(l), elem)

(* The links of the removed element itself stay as they were.  The faulty  *)
(* variant leaves its successor pointing back at it.                       *)
list_remove_half(h, elem) ==
    [prev |-> h.prev,
     next |-> [h.next EXCEPT ![h.prev[elem]] = h.next[elem]]]

list_remove(h, elem) ==
    [prev |-> [h.prev EXCEPT ![h.next[elem]] = h.prev[elem]],
     next |-> [h.next EXCEPT ![h.prev[elem]] = h.next[elem]]]

(* list_pop returns the first element, which it has removed.               *)
list_first(h, l) == h.next[head(l)]

list_pop(h, l) == list_remove(h, list_first(h, l))

list_empty(h, l) == h.next[head(l)] = tail(l)

-----------------------------------------------------------------------------
(* What a loop that starts at head.next and follows next has reached after *)
(* n turns; it stops at the tail, and it has run off the list at NULL.     *)
reached(h, l) ==
    LET at[n \in 0 .. Cardinality(DOMAIN h.next)] ==
          IF n = 0 THEN h.next[head(l)]
          ELSE IF at[n - 1] \in {tail(l), NULL} THEN at[n - 1]
          ELSE h.next[at[n - 1]]
    IN  at

(* The list is intact: the loop gets to the tail, and prev undoes next.    *)
Intact(h, l) ==
    LET at == reached(h, l)
    IN  \E n \in DOMAIN at :
          /\ at[n] = tail(l)
          /\ h.prev[at[0]] = head(l)
          /\ \A i \in 1 .. n : h.prev[at[i]] = at[i - 1]

(* The elements such a loop visits, in order.                              *)
elements(h, l) ==
    LET at == reached(h, l)
        n  == CHOOSE i \in DOMAIN at :
                at[i] = tail(l) /\ \A j \in 0 .. i - 1 : at[j] # tail(l)
    IN  [i \in 1 .. n |-> at[i - 1]]

elem_find(h, l, obj) == \E i \in DOMAIN elements(h, l) : elements(h, l)[i] = obj

list_len(h, l) == Len(elements(h, l))
=============================================================================
