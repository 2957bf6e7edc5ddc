-------------------------------- MODULE Pmm --------------------------------
(***************************************************************************)
(* The physical memory manager, kernel/memory/pmm.c: one bit per 4 KiB     *)
(* frame in a bitmap at 0x140000, a counter of used pages kept beside it,  *)
(* first-fit allocation.  Interrupts are off and there is one CPU, so each *)
(* call is one step.  The layout constants are the code's own; only the    *)
(* size of the memory is a parameter.                                      *)
(***************************************************************************)
EXTENDS Integers, FiniteSets

CONSTANTS
    TotalMemory,    \* the argument of pmm_init, in bytes
    WordSize        \* stands for 2^64, the range of the uint64_t counters

PAGE_SIZE == 4096
PAGES_PER_BYTE == 8

total_pages == TotalMemory \div PAGE_SIZE
bitmap_size == (total_pages + PAGES_PER_BYTE - 1) \div PAGES_PER_BYTE
reserved_low == 1048576 \div PAGE_SIZE          \* 0x100000
kernel_pages == 524288 \div PAGE_SIZE           \* 0x80000
bitmap_start_page == 1310720 \div PAGE_SIZE     \* 0x140000
bitmap_pages == (bitmap_size + PAGE_SIZE - 1) \div PAGE_SIZE

Pages == 0 .. (total_pages - 1)
LowPages == 0 .. (reserved_low - 1)
KernelPages == reserved_low .. (reserved_low + kernel_pages - 1)
BitmapPages == bitmap_start_page .. (bitmap_start_page + bitmap_pages - 1)

\* What pmm_init marks before anybody can allocate.
Reserved == LowPages \union KernelPages \union BitmapPages

\* pmm_init writes the bits of the reserved pages without comparing them to
\* total_pages: it needs a machine that has them (kMain passes 4 GiB).
ASSUME PmmAssumption ==
    /\ TotalMemory \in Nat
    /\ WordSize \in Nat
    /\ reserved_low + kernel_pages <= total_pages
    /\ total_pages + bitmap_pages < WordSize

VARIABLES
    page_bitmap,    \* byte -> the set of its bits that are 1
    used_pages,     \* the counter kept beside the bitmap
    held,           \* the frames callers got from pmm_alloc_page and still use
    returned        \* the address the last pmm_alloc_page returned

pmmVars == <<page_bitmap, used_pages, held, returned>>

-----------------------------------------------------------------------------
(* The bitmap. *)

page_to_byte(page) == page \div PAGES_PER_BYTE

\* Faulty variant: bits counted from 1.
PageToBitFromOne(page) == (page % PAGES_PER_BYTE) + 1
page_to_bit(page) == page % PAGES_PER_BYTE

is_page_allocated(page) == page_to_bit(page) \in page_bitmap[page_to_byte(page)]

\* The bitmap after the call.
set_page_allocated(page) ==
    [page_bitmap EXCEPT ![page_to_byte(page)] = @ \union {page_to_bit(page)}]

\* Faulty variant: the complement of the mask forgotten, the byte's other
\* bits cleared instead.
SetPageFreeWithoutComplement(page) ==
    [page_bitmap EXCEPT ![page_to_byte(page)] = @ \intersect {page_to_bit(page)}]
set_page_free(page) ==
    [page_bitmap EXCEPT ![page_to_byte(page)] = @ \ {page_to_bit(page)}]

AllocatedPages == {page \in Pages : is_page_allocated(page)}

pmm_get_total_pages == total_pages
pmm_get_used_pages == used_pages
pmm_get_free_pages == (total_pages - used_pages) % WordSize

-----------------------------------------------------------------------------
(* The state pmm_init leaves.  Its three loops each count every page they  *)
(* mark, whether or not an earlier loop marked it already.                 *)

PmmInit ==
    /\ page_bitmap = [byte \in 0 .. (bitmap_size - 1) |->
          {bit \in 0 .. (PAGES_PER_BYTE - 1) :
              byte * PAGES_PER_BYTE + bit \in Reserved}]
    /\ used_pages = reserved_low + kernel_pages + bitmap_pages
    /\ held = {}
    /\ returned = 0

-----------------------------------------------------------------------------
(* The calls. *)

\* The first page, from page 0 up, whose bit is clear.
IsFirstFree(page) ==
    /\ ~ is_page_allocated(page)
    /\ \A lower \in 0 .. (page - 1) : is_page_allocated(lower)

\* The part of a successful pmm_alloc_page that concerns the allocator.
TakePage(page) ==
    /\ IsFirstFree(page)
    /\ page_bitmap' = set_page_allocated(page)
    /\ used_pages' = used_pages + 1
    /\ returned' = page * PAGE_SIZE

\* Faulty variant: the search ends one page early.
NoPageLeftButTheLast ==
    /\ \A page \in Pages \ {total_pages - 1} : is_page_allocated(page)
    /\ returned' = 0
    /\ UNCHANGED <<page_bitmap, used_pages>>
\* The search that runs off the end of the bitmap.
NoPageLeft ==
    /\ \A page \in Pages : is_page_allocated(page)
    /\ returned' = 0
    /\ UNCHANGED <<page_bitmap, used_pages>>

pmm_alloc_page ==
    \/ \E page \in Pages : TakePage(page) /\ held' = held \union {page}
    \/ NoPageLeft /\ UNCHANGED held

\* Faulty variant: the counter moves even when the bit does not.
GivePageUnguarded(page) ==
    IF page < total_pages
    THEN /\ page_bitmap' = set_page_free(page)
         /\ used_pages' = used_pages - 1
    ELSE UNCHANGED <<page_bitmap, used_pages>>
\* pmm_free_page clears the bit only of a page it has and that is allocated.
GivePage(page) ==
    IF page < total_pages /\ is_page_allocated(page)
    THEN /\ page_bitmap' = set_page_free(page)
         /\ used_pages' = used_pages - 1
    ELSE UNCHANGED <<page_bitmap, used_pages>>

pmm_free_page(addr) ==
    LET page == addr \div PAGE_SIZE
    IN  /\ GivePage(page)
        /\ held' = held \ {page}
        /\ UNCHANGED returned

\* The addresses a caller may pass: any byte of a page it holds, the start
\* of a page that is free (a second free of the same page), and the first
\* address past the memory.  The first and the last byte of a page stand for
\* all of them.
FreeArguments ==
    LET Usable == held \union {page \in Pages : ~ is_page_allocated(page)}
    IN  {page * PAGE_SIZE : page \in Usable}
          \union {page * PAGE_SIZE + PAGE_SIZE - 1 : page \in held}
          \union {total_pages * PAGE_SIZE}

PmmNext ==
    \/ pmm_alloc_page
    \/ \E addr \in FreeArguments : pmm_free_page(addr)

PmmSpec == PmmInit /\ [][PmmNext]_pmmVars

-----------------------------------------------------------------------------
(* Properties. *)

\* Every variable has its type; the counter is a page count.
PmmTypeOK ==
    /\ page_bitmap \in [0 .. (bitmap_size - 1) -> SUBSET (0 .. (PAGES_PER_BYTE - 1))]
    /\ used_pages \in Nat
    /\ held \subseteq Pages
    /\ returned \in {page * PAGE_SIZE : page \in Pages}

\* pmm_alloc_page and pmm_free_page keep the bitmap exact: after any sequence
\* of calls the bits that are 1 are the reserved pages and the pages callers
\* hold, and no caller holds a reserved page.
BitmapExact ==
    /\ AllocatedPages = Reserved \union held
    /\ Reserved \intersect held = {}

\* The bitmap's own pages lie inside the kernel's, so pmm_init counts them
\* twice.
CountedTwice == Cardinality((LowPages \union KernelPages) \intersect BitmapPages)

\* used_pages never drifts any further from the bitmap than pmm_init left it:
\* every later call moves the counter exactly when it moves a bit.
CounterDrift == used_pages = Cardinality(AllocatedPages) + CountedTwice

\* The boot log's "Used pages" (kernel.c:58-59) is the number of pages in use.
UsedPagesReported == pmm_get_used_pages = Cardinality(AllocatedPages)

\* The boot log's "Free pages" (kernel.c:53-54) is at most "Total pages".
FreePagesReported == pmm_get_free_pages <= pmm_get_total_pages

-----------------------------------------------------------------------------
(* The bitmap implements PageAllocator: a frame is owned when its bit is   *)
(* set and pmm_init did not set it.                                        *)

Allocator == INSTANCE PageAllocator WITH
    Frames <- Pages \ Reserved,
    NoFrame <- 0,
    owned <- AllocatedPages \ Reserved,
    answer <- returned \div PAGE_SIZE

\* Seen through its bits, the manager hands out only pages nobody owns and
\* never a reserved one, answers 0 only when every page is taken, and forgets
\* a page only when it is freed.
ImplementsPageAllocator == Allocator!AllocatorSpec
=============================================================================
