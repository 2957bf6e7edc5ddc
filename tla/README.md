# A TLA+ model of IncroOS

IncroOS is a small 64-bit operating system for x86: two boot stages in assembly
that load a kernel from a FAT32 volume and switch the processor to long mode,
and a kernel in C with a physical memory manager, a virtual memory manager, a
heap, a text terminal and a serial port.  Interrupts stay off and there is one
processor, so the kernel's calls do not interleave with each other; what does
interleave with them is the hardware: the processor's own page walks and its
TLB, the keyboard controller, the UART, disk reads that fail, and the callers,
whose calls come in any order.

## The system's parts

| part | code | state | operations | what makes it hard |
|---|---|---|---|---|
| physical memory manager | `kernel/memory/pmm.c` | a bit per frame in a bitmap at 0x140000, the counter `used_pages` | `pmm_init`, `pmm_alloc_page`, `pmm_free_page`, three counters | second frees, the last page, a counter kept beside the bitmap |
| kernel heap | `kernel/memory/kmalloc.c` | a linked list of headers inside the heap at 0x180000, `total_allocated` | `kmalloc_init`, `kmalloc`, `kfree`, two counters | splits and merges in any order, stale headers, sizes that wrap |
| virtual memory manager | `kernel/memory/vmm.c` | four levels of page tables in frames of the physical manager | `vmm_map_page`, `vmm_unmap_page`, `vmm_get_physical`, `vmm_is_mapped` | a call of several writes that the processor can see between any two, running out of frames half way, stale TLB entries, the 2 MiB pages that boot left |
| FAT32 loader | `boot/fat32/Boot1.asm`, `Stage2_X86.asm` (twice the same code) | ES:BX, ESI, the buffers at 0x1000 and 0x4000, the loaded file | root search, `LoadFile`, `ReadCluster`, `ReadSector`, `GetNextCluster` | failing reads and their retries, buffers that share memory with the file, 16-bit arithmetic |
| mode switch | `Stage2_X86.asm`, `Gdt.inc`, `Idt.inc` | control registers, GDT, first page tables | real mode to protected mode to long mode | the order of the steps |
| processor check | `cpu.inc` | - | `DetectCPU` | a feature bit that is read and not tested |
| A20 gate | `A20.inc` | the keyboard controller's two buffers | `EnableA20_KKbrd_Out` | a handshake that polls without a bound |
| kernel main | `kernel/kernel.c` | - | `kMain`: the initialisations in order, then a test of each manager | the managers share memory: the first frame of the physical manager is the first page of the heap |
| terminal | `kernel/output/terminal.c` | cursor, colour, buffer of 80 x 25 | `terminal_putchar` and writers | a cursor that wraps |
| serial port | `kernel/drivers/serial.c`, `serial.asm` | the UART | `serial_init`, `serial_putchar`, writers | polls without a bound |
| `stdint.h` | `clang/lib/Headers/stdint.h`, carried in the repository | the macros of the preprocessor | three cascades of sections, from the widest type to the narrowest | each section redefines by hand the macros of every narrower width, for every compiler |

`mbr.asm` is a stub that is not assembled, `vga.c` is empty, `stdio16.inc`,
`stdio32.inc`, `stdio64.inc`, `Paging.inc` and `Macros.inc` print or are not
called; build files and CI are scripts.  PROJECT.json lists all of them with
their status.

How the parts meet: Boot1 loads stage 2 and jumps to it; stage 2 loads the
kernel to 0x500, checks the processor, opens A20, switches mode, copies the
kernel to 1 MiB, builds the first page tables and jumps; `kMain` initialises
the serial port, the terminal, `pmm`, `vmm` and `kmalloc` in that order.  The
virtual manager calls the physical one for its tables and reads the tables that
stage 2 built.  The heap and the physical manager are not connected, though
their memory is.

## The modules

| module | models | implements |
|---|---|---|
| `Pmm` | `pmm.c`: the bitmap byte by byte, the counter, the callers (`held`) | `PageAllocator` |
| `Kmalloc` | `kmalloc.c`: the headers by address, the list, the counter, the owners (`live`) and pointers that may be freed again (`freed`) | `HeapUse` |
| `Vmm` | `vmm.c` over `Pmm`: one step per table a call descends to, one for the entry, one for `invlpg`; the processor's TLB; other users of frames | `AddressSpace` |
| `FatLoader` | the loader of both boot stages: one step per sector read, with reads that fail | - |
| `ModeSwitch` | stage 2 after the load: processor check, A20 handshake one command at a time, descriptor table, control bits, page tables, far jumps; beside it the keyboard controller, the keyboard and the BIOS's keyboard interrupt | - |
| `Console` | `terminal.c`, `serial.c` and `serial.asm`: set-up register by register, cursor, colour and cells, one step per character; `uint64_to_string` and the buffer `kMain` uses for every number; the UART's registers and a transmitter that runs by itself | - |
| `StdInt` | the cascades of `stdint.h`, one section per step, for a compiler chosen at the start | - |
| `PageAllocator`, `HeapUse`, `AddressSpace` | what a caller is promised: frames owned by one caller at a time; disjoint allocations as large as asked; a map from pages to frames that a call changes in one place and at one instant, or not at all when it fails | - |
| `PmmProofs`, `KmallocProofs`, `VmmProofs`, `FatLoaderProofs`, `ModeSwitchProofs`, `ConsoleProofs`, `StdIntProofs` | theorems and proofs; `VmmProofs` builds on `PmmProofs` | - |
| `Induction` | no code: induction over numbers and finite sets, and that a descending recursion has one solution; used by `KmallocProofs` and `ConsoleProofs` | - |
| `MCPmm`, `MCKmalloc`, `MCVmm`, `MCFatLoader`, `MCModeSwitch`, `MCConsole`, `MCStdInt` | the values TLC is given | - |

A definition has the name it has in the code wherever it has one there.  One
call of `pmm.c` or `kmalloc.c` is one action, since nothing can run between its
instructions and nothing else looks at its data.  A call of `vmm.c` is several,
since the processor looks at the page tables at any time.  The modules also
hold "faulty variants": definitions with a plausible mistake that no action
uses; put in place of the definition that follows, each breaks one property.

What is abstracted.  `Pmm`: nothing but the printing; the layout constants are
the code's.  `Kmalloc`: the bytes of the payloads; a header that leaves the
list is kept until the next `kmalloc` that succeeds, since its memory may then
have an owner who writes over it.  `Vmm`: of the flags of an entry the present
bit, the page-size bit, `PT_WRITABLE` and `PT_USER` remain, and no code sets the
other two that `vmm.h` names; of 512 indices a few in the runs and any set of
them in the proofs; memory is a function from frames to tables, and the offset
within a page appears in `vmm_get_physical` only; the bytes of a frame that is
not a table are either zeros or look like present entries.  `FatLoader`: memory
in granules of 256 bytes, names compared by a search that sees of each granule
whether it shows the file, the end of the directory or neither first; the 16-bit
registers cut what they cut in the code.  `ModeSwitch`: of a byte from the
controller the reset bit and the A20 bit, of a descriptor its kind, its width
and whether it spans 4 GiB; memory is the two places where the kernel is; a
processor is what CPUID says of it.  `Console`: characters are members of a
small alphabet; of the UART the divisor, DLAB, the frame format, the FIFO and the
bit that says it is empty; `kMain`'s strings, numbers and colours are any from
small sets in any order.  `StdInt`: signed and unsigned, least and fast, MIN and
MAX go together in every section and are one; a compiler is the widths it has,
the suffixes of their constants and whether the language is C2x.

What callers may do.  `FreeArguments` keeps callers honest: `pmm_free_page` gets
addresses within pages the caller holds or pages that are free already, `kfree`
pointers that are owned or were just freed.  A caller of the virtual manager
maps frames it holds or a device's, and unmaps a page before it frees its frame.

Assumptions on the constants.  `PmmAssumption` asks for a machine that has the
frames `pmm_init` reserves; `kMain` passes 4 GiB.  `VmmAssumption` and
`ConsoleAssumption` give types: indices below 512, a screen of at least one
cell, strings of the alphabet, numbers of 64 bits (`uint64_to_string` takes
nothing else, and its buffer of 32 is large enough for them), colours of four
bits.  `KmallocAssumption` asks
for a heap that holds a header and ends below the range of `size_t`, which is a
multiple of 16.  `FatLoaderAssumption` takes volumes with
cluster sizes that FAT knows, a table with 16-bit sector numbers, chains that
end and hold a cluster once, a file that shares no cluster with the directory,
as on any volume that is not damaged, and a file that does not reach the
parameter block at 0x7C00.
`StdIntAssumption` gives the type of a compiler.

## The runs

| run | instance | what it shows |
|---|---|---|
| `pmm` | 7 free frames and a partial one; 1 024 states | bitmap, counter and callers agree after every sequence of allocations, frees, second frees and frees past the end; `Pmm` implements `PageAllocator` |
| `kmalloc` | a heap of 160 bytes: four blocks of the smallest size; requests of 0, 1 and 40 bytes and one that wraps; 32 752 states | the list tiles the heap, is coalesced, is what the walk meets, no byte is lost; `Kmalloc` implements `HeapUse` |
| `vmm` | 4 free frames, and a device's frame at address 0 with all rights; three pages, two under one PT, the third under another PT of the same PD; 453 820 states | tables form a tree, no frame is lost, the TLB is never stale outside the window before `invlpg`, links never change, `vmm_get_physical` and `vmm_is_mapped` say what the processor finds but for address 0; `Vmm` implements `AddressSpace`, rights included |
| `fat` | nine volumes: directories of one and two clusters, with and without the file, chains out of order, clusters of 1, 2, 4 and 8 sectors, a file across 64 KiB, both end marks, chains on both sides of the cluster numbers where the 16-bit arithmetic ends, a file listed behind the 32nd entry; 2 668 states | the file is loaded whole, "not found" means absent from the first 32 entries of each cluster, sectors are the documented ones exactly where the numbers fit in 16 bits, and the loader stops |
| `mode_switch` | four kinds of processor, A20 open or closed at the start, keys typed at any time; 562 states | the kernel that starts is the one loaded, in long mode with A20 open; each part runs in the width it was assembled for; paging is prepared before it is on; no interrupt outside real mode; stage 2 comes to an end |
| `console` | a screen of 2 x 2, strings of one to three characters with a line feed, the numbers 0, 7, 30 and 105, two colours, five characters in all, four divisors before; 279 060 states | the line carries the greeting and all that was printed in order and at the rate set; the screen shows the last characters in the colours of their time; a number put into the buffer over longer ones is read back as itself; all is sent in the end |
| `stdint` | every set of the eight widths, `int` of 16, 32 and 64 bits and one compiler whose narrow types have suffixes, with and without C2x; 51 200 states | each `int_leastN_t` is the narrowest type that is wide enough, and constants, limits and widths follow it, but for one width macro |
| `pmm_report` | as `pmm` | violated: free pages wrap when the memory is full |
| `vmm_identity` | a page of the first GiB | violated: `vmm_map_page` returns true and the translation has not changed |
| `vmm_heap` | as `vmm` | violated: the first table made is cleared over the heap's first header |
| `switch_port` | as `mode_switch` | violated: a scancode is taken for the output port's value |
| `fat_staging` | 32 sectors of kernel at 0x500 | violated: the table's sector at 0x4000 is in the kernel |

Why the bounds are enough.  Seven frames cover a whole byte of the bitmap bar
one bit and the partial page; allocation and freeing look at one bit each, and
the theorems hold for every size.  Four blocks give a free block both a free
and a used neighbour on each side, which is all `kfree` looks at, and the
second split of what a merge produced.  Four frames are the
tables that mapping all three pages takes, and callers may hold any of them, so
a call runs out at every level; two indices suffice for two entries in a table.
The disk's volumes are the shapes that the loader's branches tell apart, and
pairs of clusters on both sides of each limit of a register; the retries of a
sector are always five.  `ModeSwitch` has no bound but that a byte
has two bits: every order of controller, keyboard and processor is explored.
Five characters wrap a screen of four cells and write its first one twice; one
number of each length and 0 leave every kind of remainder in the buffer.  The
`stdint` run has every set of widths there is.

Deadlock is checked in the three runs of the memory managers: a caller can
always call.  The loader really stops, so do stage 2 and the preprocessor, and
the console rests when all is sent, so their runs do not check it.

Fairness.  `WF_fatVars(FatNext)` says that the processor goes on executing; it
does not say that reads succeed, so the loader may stop because of five
failures.  In `ModeSwitch` the processor and the controller are each weakly
fair: the controller empties its input buffer by itself, and a poll is a step
that waits for that.  Nobody has to type a key.  In `Console` the kernel and the
transmitter are weakly fair, and what is written is not: no string has to be
written.  The memory managers have no liveness property: each call is a loop
over a finite list or array, and whether it is called is the callers' choice.

## The theorems

`PmmProofs`, from `PmmAssumption` alone, for every size of memory: the types,
`BitmapExact`, `CounterDrift` and the refinement of `PageAllocator`.  The
inductive invariant `PmmInv` is the types with `BitmapExact` and `CounterDrift`;
none of the three is inductive alone, since the counter stays a natural number
only because it counts the set bits.  The lemmas say that a page's bit and byte
determine the page, that setting or clearing a bit changes one page only, and
count the pages reserved at the start.

`KmallocProofs`, from `KmallocAssumption` alone, for every heap size and set of
requests: `HeapTiled`, `NoAdjacentFree`, `OwnersAndMarks` and the refinement of
`HeapUse`.  The inductive invariant is `HeapInv`: the types of the headers with
those three.  The proof follows the code: a split puts one block between two, a
block taken whole changes its mark only, and `Coalesced` describes what the two
merges of `kfree` leave, from which every part is derived.

Of the same module `KmallocTypeOK`, `ListIsWalk` and `BytesAccounted`, whose
invariant has two parts more.  `NextsForward`: a header links to NULL or to a
header further up, also one that a merge has unlinked and whose memory nobody
has taken yet; so the walk, a recursion over all headers, descends in the
distance to the end of the heap and has a value.  `CounterExact`:
`total_allocated` is the sum of the sizes of the blocks with owners; so the
subtraction in `kfree` cannot wrap.  That the walk is the list is an induction
from the last block backwards, since `HeapTiled` says that a block's successor is
where it ends.  For `BytesAccounted` the lemmas on sums (a sum does not depend
on the order, a block more or less adds or takes its size, blocks that tile an
interval sum up to it) are proved by induction over finite sets.

`VmmProofs`, from `VmmAssumption` and `PmmAssumption`, for every size of memory,
all indices and all pages that are not under the boot loader's 2 MiB mappings
(`AboveTheFirstGiB`, a hypothesis of each theorem; the run `vmm_identity` shows
what happens without it): the types, `TablesFormTree`, `NoFrameLost`,
`TlbCoherent`, `PhysicalAsDocumented`, `LinksNeverChange` and the refinement of
`AddressSpace`.  The inductive invariant is `VmmInv`.  `TreeInv` says that no two
links lead to the same frame and that every entry of a table that holds links is
absent or a link which grants writing, but for the PD of boot; `FramesInv` that
every frame in use is reserved, held or a table, and only one of them; `CallInv`
that a call is at the table to which its page's way leads.  None is inductive
alone: the tree stays one because the frame that is linked was in use by nobody,
and that is known only while all tables are counted as in use.  The argument has
two writes of memory, `LinkPage` and `WriteAt`; for each there is a lemma on the
tree and one on the walks (`LinkKeepsTree`, `LinkKeepsWalks`, `LeafKeepsTree`,
`LeafKeepsWalks`), and `WaysApart` says that two pages never share a last entry.

`FatLoaderProofs`, from `FatLoaderAssumption`, for every set of volumes:
`FatTypeOK`, which bounds the attempts, and `SectorAsDocumented` in both
directions: the sector read is the documented one exactly when the numbers fit
in 16 bits.  `FatInv` adds to the types that a request under way is that of the
current cluster and of the sectors left.

`LoadedWhole` and `NotFoundMeansAbsent` too, for every volume and whatever reads
fail, by the invariant `LoadInv`: at every step the loader is at some cluster
`k` of its chain with ES:BX where the sectors of the clusters before `k` end
(`At`), and what has been read so far lies below ES:BX (`FileHeld`,
`DirectoryHeld`).  Which `k` that is, the state does not say; but a chain holds
a cluster once and its entries fit in the buffer's 16-bit numbers, so the table
leads from the k-th to the next.  A step puts one sector at the end and the
sector of the table over memory that is not the file's.  That last clause is the
hypothesis `ClearOfTable` of `FatLoadedWhole`: the file's place ends at or below
the table's sector at 0x4000, or starts past it.  Stage 2 at 0x7E00 always
satisfies it; a kernel at 0x500 does up to 0x3B00 bytes, counted in whole clusters,
and from there on the run `fat_staging` shows the property violated.  The run
`fat` has files of both kinds of place, all of them clear.

`ModeSwitchProofs`, for every set of processors and every order of processor,
controller and keyboard: `SwitchTypeOK`, `KernelInPlace`, `ExecutesAsAssembled`,
`PagingPrepared` and `NoInterruptOutsideRealMode`.  `SwitchInv` says for each
step of stage 2 what is on its way to the controller, which control bits are
set, whether interrupts are off, what the segments hold and where the kernel is.

`ConsoleProofs`, from `ConsoleAssumption`, for every screen and all strings,
numbers and colours: `ConsoleTypeOK`, `SentAtRate` and `ScreenShowsTail`.
`ConsoleInv` ties the registers to the steps of `serial_init` and the cursor to
the number of characters shown; the rest is arithmetic of rows and columns.

`NumberReadable` follows from `BufferInv`: the buffer starts with the digits of
the last number and a NUL, whatever longer number left behind them.  Its lemmas:
the loop that fills `temp` descends and its result are digits, at most twenty of
them for 64 bits, which is where the assumption on `Numbers` is used; their
value, read from the last to the first, is the number; and reading stops at the
NUL.  `LineInOrder` follows from `LineInv`: the line, the UART's character and
the rest of the string, in this order, are the greeting and all that was
printed.  Each character's step moves it from one of them to the next; a new
string is added at both ends, which takes that flattening two sequences joined
is joining their flattenings.

`StdIntProofs`, from `StdIntAssumption`, for every set of compilers: the types
and the four properties of the run.  `StdIntInv` says of each cascade what holds
between two sections: a macro names the narrowest of the types read so far.

Every invariant and action property of the runs that pass, and every refinement,
is a theorem.  Where one is about a recursive definition (the walk, the sums over
blocks, the digits of a number, the flattening of strings), the library's
induction theorems cannot be used, since they take a predicate as a parameter.
`Induction` states what is needed of them about sets: a set of numbers that holds
each number whose predecessors it holds is all of them, the same for the parts of
a finite set, and a recursion that descends in a rank has exactly one solution.
They rest on the library's theorems on well-founded relations.

Model-checked only.  `LoaderStops`, `StageTwoEnds` and `AllIsSent`: liveness under
fairness, which is beyond the proof system.

## What the checks found

Five statements of the repository do not hold of the code; PROJECT.json quotes
them, and each has a run that violates it.  The counter of used pages counts the
bitmap twice; the memory that `pmm_init` reserves ends where the heap begins, so
the heap's first page is given away; `vmm_map_page` reports success for pages
under the 2 MiB mappings of boot without effect; stage 2 reads the allocation
table into the kernel it is loading when that has more than 0x3B00 bytes; and
the A20 routine can take a key for the output port's value.

Limits of the code that are exceptions in a property rather than runs of their
own, with the exact line where they begin.  In `SectorAsDocumented`: a cluster
whose number less two, times the sectors per cluster, does not fit in 16 bits is
read from a wrong sector, and from cluster 16384 on the next one is read from a
wrong entry.  In `NotFoundMeansAbsent`: the search looks at 32 entries per
cluster whatever its size, and with clusters of 16 entries at memory behind
them.  In `PhysicalAsDocumented`: `vmm_is_mapped` denies the one address that is
mapped to address 0, and no other of its page.  In `AddressSpace`'s target:
`PT_USER` never takes effect, since every table is linked with `PT_WRITABLE`
alone.  In `WidthsFollowTypes`: `stdint.h:513-514` redefines a name that does
not exist, `__UINT_LEAST8_MAX`, in the place of the width macro, so that in C2x
`UINT_LEAST8_WIDTH` names nothing where the 8-bit least type has 64 bits.  One
more has no property: the long-mode bit is read and not tested, so that a
processor without long mode resets instead of being refused.

## Not modelled

Under the first GiB only what `vmm_identity` shows: the entries that the manager
writes there land in the frames that the large pages map, which may be anything.
Frees by callers who do not hold the frame (`pmm_free_page` takes a reserved
page, page 0 included).  Tables in frames above the first GiB, which
`alloc_page_table` clears without a mapping: it takes 262 144 frames in use.
Files that reach the parameter block, chains that do not end, the depth of the
stack and the BIOS's own memory: what the loader does then is arbitrary.  The
page address in hexadecimal that `kMain` prints (`kernel.c:92-98`).  The routines
of `A20.inc`, `Paging.inc` and `Idt.inc` that nothing calls, and the print
routines of the boot stages.  `stddef.h`, `stdarg.h` and `limits.h`, and of
`stdint.h` what follows the cascades: names for what the compiler defines.  The
build files pass no include path to the carried headers, so the compiler's own
`stdint.h` is what the kernel is built with; the model is of the file that the
repository carries.  `mbr.asm`, which is not assembled, and `vga.c`, which is
empty.

## Plan

Done, in this order: the physical manager with its proofs, the heap with its
proofs, the virtual manager over the physical one, the loader, the mode switch,
the console; then the rights of mappings, the limits of the loader's registers,
colours and numbers on the console, `stdint.h`, the proofs of every module that
models code; then the walk and the sums of the heap, the loaded file and the line
as theorems.

What is left:

1. `KernelMemory`: `Pmm` and `Kmalloc` over the same memory in `kMain`'s order,
   with owners of frames that write; an identity map small enough for the
   clearing of a table in a frame that is not mapped.
2. A file that reaches the parameter block or the stack, with the loader's
   parameters read back from what it has overwritten.

Liveness stays with TLC.
