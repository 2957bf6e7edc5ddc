------------------------------ MODULE HeapUse ------------------------------
(***************************************************************************)
(* What a caller of kmalloc and kfree (kernel/memory/kmalloc.c) may rely   *)
(* on, with no headers, list, splitting or merging: a set of allocations,  *)
(* each an interval of the heap, no two of which meet.  Kmalloc.tla        *)
(* implements it.                                                          *)
(***************************************************************************)
EXTENDS Integers

CONSTANTS
    HeapStart, HeapEnd, \* the heap is HeapStart .. HeapEnd - 1
    Sizes,              \* the sizes callers ask for
    Roundable(_),       \* the sizes that survive being rounded up
    Null                \* the pointer that is no allocation

VARIABLES
    allocations,    \* records [start, end]: the bytes start .. end - 1
    pointer         \* what the last request returned

heapUseVars == <<allocations, pointer>>

Apart(one, other) == one.end <= other.start \/ other.end <= one.start

HeapUseInit == allocations = {} /\ pointer = Null

\* A new allocation lies in the heap, meets no other, has an address of its
\* own, and is as long as was asked.
Allocate(size) ==
    /\ pointer' \in HeapStart .. HeapEnd
    /\ \E length \in 0 .. (HeapEnd - pointer') :
        LET new == [start |-> pointer', end |-> pointer' + length]
        IN  /\ \A other \in allocations :
                  Apart(new, other) /\ new.start # other.start
            /\ Roundable(size) => size <= length
            /\ allocations' = allocations \union {new}

\* A fragmented heap may refuse any request, and always refuses size 0.
Fail ==
    /\ pointer' = Null
    /\ UNCHANGED allocations

Free == \E old \in allocations :
    /\ allocations' = allocations \ {old}
    /\ UNCHANGED pointer

HeapUseNext ==
    \/ \E size \in Sizes \ {0} : Allocate(size)
    \/ Fail
    \/ Free

HeapUseSpec == HeapUseInit /\ [][HeapUseNext]_heapUseVars
=============================================================================
