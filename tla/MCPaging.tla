------------------------------ MODULE MCPaging ------------------------------
(* Tables of four entries: one for the processes, two for the kernel, one  *)
(* for the directory itself.                                               *)
EXTENDS Paging
=============================================================================
