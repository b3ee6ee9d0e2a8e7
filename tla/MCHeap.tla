------------------------------- MODULE MCHeap -------------------------------
(* Pages of 64 bytes: three blocks of 16 bytes or one of 32 to an arena,   *)
(* larger requests take one or two pages.                                  *)
EXTENDS Heap
=============================================================================
