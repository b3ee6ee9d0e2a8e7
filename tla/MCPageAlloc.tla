---------------------------- MODULE MCPageAlloc ----------------------------
(* Small instances of PageAlloc: bytes of two or three bits, page tables   *)
(* of two or three pages.                                                  *)
EXTENDS PageAlloc, TLC

CONSTANTS p1, p2, k1, k2

Interchangeable == Permutations({p1, p2}) \cup Permutations({k1, k2})

(* Once a collision has happened PagesInv asks for nothing but types: the  *)
(* state is checked and not followed further.                              *)
BeforeCollision == ~collision
=============================================================================
