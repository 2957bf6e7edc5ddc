------------------------------- MODULE MCVmm -------------------------------
(* Four free frames, and three pages of which two share a PT and the third *)
(* only a PD with them: mapping all of them takes every frame, and mapping *)
(* while callers hold some runs out half way.                              *)
EXTENDS Vmm

MCTotalMemory == (reserved_low + kernel_pages + 4) * PAGE_SIZE
MCIndex == {0, 1}
MCVirtualPages == {<<1, 0, 0, 0>>, <<1, 0, 0, 1>>, <<1, 0, 1, 0>>}
MCIdentityPages == {<<0, 0, 0, 1>>}
\* The frame at address 0, with all rights asked for.
MCDeviceMappings == {<<0, {PT_WRITABLE, PT_USER}>>}
MCMemoryFlags == {{}}
=============================================================================
