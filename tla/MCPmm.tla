------------------------------- MODULE MCPmm -------------------------------
(* Pmm on a machine with seven pages above the reserved ones and a partial *)
(* page at the end, which total_pages drops.                               *)
EXTENDS Pmm

MCTotalMemory == (reserved_low + kernel_pages + 7) * PAGE_SIZE + 100
=============================================================================
