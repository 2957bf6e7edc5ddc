----------------------------- MODULE MCKmalloc -----------------------------
(* A heap that four blocks of the smallest request fill, with requests     *)
(* that split a block, use it up, do not fit, are empty, and wrap.         *)
EXTENDS Kmalloc

MCRequests == {0, 1, 40, SizeRange - 1}
=============================================================================
