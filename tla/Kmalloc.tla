------------------------------ MODULE Kmalloc ------------------------------
(***************************************************************************)
(* The kernel heap, kernel/memory/kmalloc.c: a list of blocks, each behind *)
(* a 24-byte header, that together fill the heap.  kmalloc takes the first *)
(* free block that is large enough and splits it; kfree joins the block    *)
(* with its neighbours when they are free.  Interrupts are off and there   *)
(* is one CPU, so each call is one step.                                   *)
(***************************************************************************)
EXTENDS Integers, FiniteSets, FiniteSetsExt

CONSTANTS
    HEAP_SIZE,  \* the length of the heap in bytes
    Requests,   \* the sizes callers pass to kmalloc
    SizeRange   \* stands for 2^64, the range of size_t

HEAP_START == 1572864           \* 0x180000
HEAP_END == HEAP_START + HEAP_SIZE
BLOCK_HEADER_SIZE == 24         \* sizeof(block_header_t)
MIN_PAYLOAD == 16               \* the least payload worth a split
NULL == 0

ASSUME KmallocAssumption ==
    /\ HEAP_SIZE \in Nat
    /\ BLOCK_HEADER_SIZE <= HEAP_SIZE
    /\ SizeRange \in Nat
    /\ HEAP_END < SizeRange
    /\ SizeRange % 16 = 0
    /\ Requests \subseteq 0 .. (SizeRange - 1)

VARIABLES
    block,              \* address -> the block_header_t there
    list,               \* the addresses of the headers on the list
    total_allocated,
    live,               \* block address -> the size its owner asked for
    freed,              \* blocks freed since kmalloc last succeeded
    result              \* the pointer the last kmalloc returned

heapVars == <<block, list, total_allocated>>
kmallocVars == <<block, list, total_allocated, live, freed, result>>

-----------------------------------------------------------------------------
(* Headers. *)

\* Faulty variant: rounds down.
AlignDown(size) == (size \div 16) * 16
\* (size + 15) & ~15, where the sum wraps at the range of size_t.
align_size(size) == (((size + 15) % SizeRange) \div 16) * 16

\* The requests for which the sum does not wrap.
Roundable(size) == size + 15 < SizeRange

EndOf(b) == b + BLOCK_HEADER_SIZE + block[b].size

\* Faulty variant: the second header's bytes are forgotten.
JoinedWithoutHeader(header, second) ==
    [size |-> header.size + second.size,
     is_free |-> header.is_free,
     next |-> second.next]
\* The header of a block that has taken in the block after it.
Joined(header, second) ==
    [size |-> header.size + BLOCK_HEADER_SIZE + second.size,
     is_free |-> header.is_free,
     next |-> second.next]

FreeNext(headers, b) ==
    headers[b].next # NULL /\ headers[headers[b].next].is_free

\* Faulty variant: only the following block is ever merged.
FreePreviousIgnored(headers, b) == {}
\* The free block, if any, that the walk from heap_start finds before b.
FreePrevious(headers, b) ==
    {p \in list : headers[p].next = b /\ headers[p].is_free}

MergeNext(headers, b) ==
    IF FreeNext(headers, b)
    THEN [headers EXCEPT ![b] = Joined(headers[b], headers[headers[b].next])]
    ELSE headers

MergePrevious(headers, b) ==
    [p \in DOMAIN headers |->
        IF p \in FreePrevious(headers, b)
        THEN Joined(headers[p], headers[b])
        ELSE headers[p]]

\* The list when kfree(b) has unlinked what it merged.
ListWithout(b) ==
    {c \in list :
        /\ ~ (FreeNext(block, b) /\ c = block[b].next)
        /\ ~ (FreePrevious(block, b) # {} /\ c = b)}

kmalloc_get_used == total_allocated
kmalloc_get_free ==
    MapThenSumSet(LAMBDA b : block[b].size, {b \in list : block[b].is_free})

-----------------------------------------------------------------------------
(* The state kmalloc_init leaves: one free block. *)

KmallocInit ==
    /\ block = [b \in {HEAP_START} |->
          [size |-> HEAP_SIZE - BLOCK_HEADER_SIZE, is_free |-> TRUE, next |-> NULL]]
    /\ list = {HEAP_START}
    /\ total_allocated = 0
    /\ live = [b \in {} |-> 0]
    /\ freed = {}
    /\ result = NULL

-----------------------------------------------------------------------------
(* kmalloc. *)

\* Faulty variant: is_free is not looked at.
FitsUsedOrNot(b, need) == block[b].size >= need
Fits(b, need) == block[b].is_free /\ block[b].size >= need

\* The list is in address order (HeapTiled), so the first block on it that
\* fits is the lowest one.
FirstFit(b, need) == Fits(b, need) /\ \A c \in list : Fits(c, need) => b <= c

WorthSplitting(b, need) == block[b].size >= need + BLOCK_HEADER_SIZE + MIN_PAYLOAD

\* Faulty variant: the new block is linked to nothing.
SplitAtUnlinked(b, need) ==
    LET new_block == b + BLOCK_HEADER_SIZE + need
    IN  [c \in list \union {new_block} |->
            IF c = b
            THEN [size |-> need, is_free |-> FALSE, next |-> new_block]
            ELSE IF c = new_block
            THEN [size |-> block[b].size - need - BLOCK_HEADER_SIZE,
                  is_free |-> TRUE, next |-> NULL]
            ELSE block[c]]
\* The headers when block b has been cut after `need` bytes of payload.
SplitAt(b, need) ==
    LET new_block == b + BLOCK_HEADER_SIZE + need
    IN  [c \in list \union {new_block} |->
            IF c = b
            THEN [size |-> need, is_free |-> FALSE, next |-> new_block]
            ELSE IF c = new_block
            THEN [size |-> block[b].size - need - BLOCK_HEADER_SIZE,
                  is_free |-> TRUE, next |-> block[b].next]
            ELSE block[c]]

\* The headers when block b is taken as it is.
TakeWhole(b) ==
    LET marked == [block EXCEPT ![b].is_free = FALSE]
    IN  [c \in list |-> marked[c]]

\* The owner of an allocation may write over any header that has left the
\* list, so from here on none of those is kept.
Allocate(b, size) ==
    LET need == align_size(size)
    IN  /\ FirstFit(b, need)
        /\ IF WorthSplitting(b, need)
           THEN /\ block' = SplitAt(b, need)
                /\ list' = list \union {b + BLOCK_HEADER_SIZE + need}
           ELSE /\ block' = TakeWhole(b)
                /\ UNCHANGED list
        /\ total_allocated' = total_allocated + block'[b].size
        /\ result' = b + BLOCK_HEADER_SIZE
        /\ live' = [c \in DOMAIN live \union {b} |-> IF c = b THEN size ELSE live[c]]
        /\ freed' = {}

kmalloc(size) ==
    \/ /\ size # 0
       /\ \E b \in list : Allocate(b, size)
    \/ /\ size = 0 \/ \A b \in list : ~ Fits(b, align_size(size))
       /\ result' = NULL
       /\ UNCHANGED <<heapVars, live, freed>>

-----------------------------------------------------------------------------
(* kfree. *)

\* Faulty variant: the size is subtracted after the merge has grown it.
ReleaseCountingMerged(b) ==
    /\ block' = MergePrevious(MergeNext([block EXCEPT ![b].is_free = TRUE], b), b)
    /\ list' = ListWithout(b)
    /\ total_allocated' = total_allocated - block'[b].size
Release(b) ==
    /\ block' = MergePrevious(MergeNext([block EXCEPT ![b].is_free = TRUE], b), b)
    /\ list' = ListWithout(b)
    /\ total_allocated' = total_allocated - block[b].size

\* Faulty variant: no guard against a second free.
NothingToFreeButNull(ptr) == ptr = NULL
NothingToFree(ptr) == ptr = NULL \/ block[ptr - BLOCK_HEADER_SIZE].is_free

\* A pointer is freed by its owner, or freed again before anything else got
\* its memory; the second call finds the header marked free.
kfree(ptr) ==
    LET b == ptr - BLOCK_HEADER_SIZE
    IN  /\ IF NothingToFree(ptr)
           THEN UNCHANGED heapVars
           ELSE Release(b)
        /\ live' = [c \in DOMAIN live \ {b} |-> live[c]]
        /\ freed' = freed \union ({b} \intersect DOMAIN live)
        /\ UNCHANGED result

FreeArguments == {NULL} \union {b + BLOCK_HEADER_SIZE : b \in DOMAIN live \union freed}

KmallocNext ==
    \/ \E size \in Requests : kmalloc(size)
    \/ \E ptr \in FreeArguments : kfree(ptr)

KmallocSpec == KmallocInit /\ [][KmallocNext]_kmallocVars

-----------------------------------------------------------------------------
(* Properties. *)

BlockHeader == [size : Nat, is_free : BOOLEAN, next : Nat]

\* Every address a caller can name has a header.
HeadersTyped ==
    /\ list \subseteq DOMAIN block
    /\ DOMAIN block \subseteq HEAP_START .. HEAP_END
    /\ block \in [DOMAIN block -> BlockHeader]
    /\ DOMAIN live \subseteq list
    /\ live \in [DOMAIN live -> Requests]
    /\ freed \subseteq DOMAIN block
    /\ result \in Nat

\* Every variable has its type; the unsigned counter never goes below zero.
KmallocTypeOK == HeadersTyped /\ total_allocated \in Nat

\* Splitting and merging keep the blocks side by side: each ends where its
\* successor starts, the last where the heap ends, and no two overlap.
HeapTiled ==
    /\ HEAP_START \in list
    /\ \A b \in list :
        /\ HEAP_START <= b /\ EndOf(b) <= HEAP_END
        /\ block[b].next = IF EndOf(b) = HEAP_END THEN NULL ELSE EndOf(b)
        /\ block[b].next # NULL => block[b].next \in list
    /\ \A b, c \in list : b < c => EndOf(b) <= c

\* kfree leaves no two free neighbours: merging forward then backward is
\* enough, whatever the order of the frees.
NoAdjacentFree ==
    \A b \in list : block[b].is_free => ~ FreeNext(block, b)

\* A block is marked used exactly while it has an owner, it is at least as
\* large as was asked (unless rounding the request wrapped), and a pointer
\* that may be freed twice has a header that says free.
OwnersAndMarks ==
    /\ \A b \in list : block[b].is_free <=> b \notin DOMAIN live
    /\ \A b \in DOMAIN live : Roundable(live[b]) => live[b] <= block[b].size
    /\ \A b \in freed : b \notin DOMAIN live /\ block[b].is_free

\* The headers the walk `current = current->next` of kmalloc, kfree and
\* kmalloc_get_free meets from address b on.
Walk[b \in DOMAIN block \union {NULL}] ==
    IF b = NULL THEN {} ELSE {b} \union Walk[block[b].next]

\* The walk from heap_start ends and meets exactly the blocks on the list:
\* no block is lost by an unlink, none that was merged is met again.
ListIsWalk == Walk[HEAP_START] = list

\* kmalloc_get_used and kmalloc_get_free account for every byte that is not
\* a header: no sequence of splits, merges and repeated frees loses one.
BytesAccounted ==
    kmalloc_get_used + kmalloc_get_free + BLOCK_HEADER_SIZE * Cardinality(list)
        = HEAP_SIZE

-----------------------------------------------------------------------------
(* The headers implement HeapUse: an allocation is the payload of a block  *)
(* on the list that is marked used.                                        *)

Use == INSTANCE HeapUse WITH
    HeapStart <- HEAP_START,
    HeapEnd <- HEAP_END,
    Sizes <- Requests,
    Roundable <- Roundable,
    Null <- NULL,
    allocations <- {[start |-> b + BLOCK_HEADER_SIZE, end |-> EndOf(b)] :
                        b \in {c \in list : ~ block[c].is_free}},
    pointer <- result

\* Seen through its headers, kmalloc hands out memory that nobody has, as
\* much as was asked, and kfree takes back the one allocation it was given.
ImplementsHeapUse == Use!HeapUseSpec
=============================================================================
