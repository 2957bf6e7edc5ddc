--------------------------- MODULE KmallocProofs ---------------------------
(***************************************************************************)
(* For every heap size and every set of requests: the blocks of the kernel *)
(* heap tile it, no two neighbours are free, the headers mark exactly what *)
(* has an owner, the walk meets every block, and every byte is counted.    *)
(***************************************************************************)
EXTENDS Kmalloc, Induction

(* The parts prove each other: splitting keeps neighbours from being free  *)
(* only because they were not, merging keeps the tiling only because the   *)
(* successor of a block is where the block ends, and a caller frees a      *)
(* block of the list only because its marks follow its owners.             *)
HeapInv == HeadersTyped /\ HeapTiled /\ NoAdjacentFree /\ OwnersAndMarks

(* The ends of the heap are numbers, the end past the first header.        *)
LEMMA Sizes ==
    /\ HEAP_START \in Nat /\ HEAP_END \in Nat /\ HEAP_SIZE \in Nat
    /\ 0 < HEAP_START /\ HEAP_START + 24 <= HEAP_END
    /\ HEAP_SIZE = HEAP_END - HEAP_START
  BY KmallocAssumption DEF KmallocAssumption, HEAP_START, HEAP_END, BLOCK_HEADER_SIZE

(* Rounding up to 16 gives a size, no smaller unless the sum wraps.        *)
LEMMA AlignRoundsUp ==
    ASSUME NEW size \in Requests
    PROVE  /\ align_size(size) \in Nat
           /\ Roundable(size) => size <= align_size(size)
<1> DEFINE sum == (size + 15) % SizeRange
<1>1. size \in Nat /\ SizeRange \in Nat /\ SizeRange > 0
  BY KmallocAssumption DEF KmallocAssumption, HEAP_END, HEAP_START
<1>2. sum \in Nat /\ (size + 15 < SizeRange => sum = size + 15)
  BY <1>1
<1> HIDE DEF sum
<1>3. (sum \div 16) * 16 \in Nat /\ sum <= (sum \div 16) * 16 + 15
  BY <1>2
<1> QED
  BY <1>1, <1>2, <1>3 DEF align_size, Roundable, sum

(* What the invariant says of one block. *)
LEMMA OneBlock ==
    HeapInv => \A b \in list :
        /\ b \in Nat /\ 0 < b
        /\ block[b].size \in Nat /\ block[b].is_free \in BOOLEAN /\ block[b].next \in Nat
        /\ EndOf(b) = b + 24 + block[b].size
        /\ EndOf(b) \in Nat
        /\ block[b].next # NULL =>
             block[b].next \in list /\ block[b].next = EndOf(b)
        /\ block[b].next # b
  BY Sizes DEF HeapInv, HeadersTyped, HeapTiled, BlockHeader, EndOf, BLOCK_HEADER_SIZE, NULL

(* One free block behind one header fills the heap.                        *)
LEMMA InitEstablishesHeapInv == KmallocInit => HeapInv
<1> SUFFICES ASSUME KmallocInit PROVE HeapInv
  OBVIOUS
<1>1. /\ list = {HEAP_START} /\ DOMAIN block = {HEAP_START}
      /\ block[HEAP_START] = [size |-> HEAP_SIZE - BLOCK_HEADER_SIZE,
                              is_free |-> TRUE, next |-> NULL]
      /\ DOMAIN live = {} /\ freed = {} /\ result = NULL
      /\ live \in [{} -> Requests]
  BY DEF KmallocInit
<1>2. EndOf(HEAP_START) = HEAP_END /\ HEAP_SIZE - BLOCK_HEADER_SIZE \in Nat
  BY <1>1, Sizes DEF EndOf, BLOCK_HEADER_SIZE
<1>3. HeadersTyped
  BY <1>1, <1>2, Sizes DEF HeadersTyped, BlockHeader, KmallocInit, NULL
<1>4. HeapTiled
  BY <1>1, <1>2, Sizes DEF HeapTiled, NULL
<1>5. NoAdjacentFree
  BY <1>1 DEF NoAdjacentFree, FreeNext
<1>6. OwnersAndMarks
  BY <1>1 DEF OwnersAndMarks
<1> QED
  BY <1>3, <1>4, <1>5, <1>6 DEF HeapInv

-----------------------------------------------------------------------------
(* kmalloc. *)

(* Cutting a free block: the new header lies inside the old block, so it   *)
(* was no block before, and the two halves fill the old one.               *)
LEMMA SplitStep ==
    ASSUME HeapInv, NEW size \in Requests, NEW b \in list, Allocate(b, size),
           WorthSplitting(b, align_size(size))
    PROVE  /\ HeapInv' /\ b \notin DOMAIN live
           /\ \A c \in list : c # b => block'[c] = block[c]
<1> DEFINE need == align_size(size)
           new == b + BLOCK_HEADER_SIZE + need
<1>1. need \in Nat /\ (Roundable(size) => size <= need)
  BY AlignRoundsUp
<1> HIDE DEF need
<1>2. /\ block[b].is_free /\ b \notin DOMAIN live
      /\ block[b].size >= need + 40
  <2>1. Fits(b, need)
    BY DEF Allocate, FirstFit, need
  <2>2. block[b].size >= need + BLOCK_HEADER_SIZE + MIN_PAYLOAD
    BY DEF WorthSplitting, need
  <2>3. block[b].size \in Nat
    BY OneBlock
  <2> QED
    BY <1>1, <2>1, <2>2, <2>3
       DEF Fits, BLOCK_HEADER_SIZE, MIN_PAYLOAD, HeapInv, OwnersAndMarks
<1>3. /\ b \in Nat /\ new = b + 24 + need /\ new \in Nat /\ b < new /\ new < EndOf(b)
      /\ EndOf(b) = b + 24 + block[b].size
  BY <1>1, <1>2, OneBlock DEF EndOf, BLOCK_HEADER_SIZE
<1>4. new \notin list
  BY <1>3, OneBlock DEF HeapInv, HeapTiled
<1> HIDE DEF new
<1>5. /\ list' = list \union {new}
      /\ DOMAIN block' = list'
      /\ block'[b] = [size |-> need, is_free |-> FALSE, next |-> new]
      /\ block'[new] = [size |-> block[b].size - need - BLOCK_HEADER_SIZE,
                        is_free |-> TRUE, next |-> block[b].next]
      /\ \A c \in list : c # b => block'[c] = block[c]
      /\ block' = [c \in list' |-> block'[c]]
  BY <1>4 DEF Allocate, SplitAt, need, new
<1>6. /\ EndOf(b)' = new
      /\ EndOf(new)' = EndOf(b)
      /\ \A c \in list : c # b => EndOf(c)' = EndOf(c)
  <2>1. block'[b].size = need /\ block'[new].size = block[b].size - need - 24
    BY <1>5 DEF BLOCK_HEADER_SIZE
  <2>2. EndOf(b)' = new
    BY <1>3, <2>1 DEF EndOf, BLOCK_HEADER_SIZE
  <2>3. EndOf(new)' = EndOf(b)
    <3>1. EndOf(new)' = new + 24 + (block[b].size - need - 24)
      BY <2>1 DEF EndOf, BLOCK_HEADER_SIZE
    <3> QED
      BY <1>1, <1>3, <3>1, OneBlock
  <2>4. \A c \in list : c # b => EndOf(c)' = EndOf(c)
    BY <1>5 DEF EndOf
  <2> QED
    BY <2>2, <2>3, <2>4
<1>7. /\ DOMAIN live' = DOMAIN live \union {b} /\ live'[b] = size
      /\ \A c \in DOMAIN live : c # b => live'[c] = live[c]
      /\ live' = [c \in DOMAIN live' |-> live'[c]]
      /\ freed' = {} /\ result' = b + BLOCK_HEADER_SIZE
  BY DEF Allocate
<1>8. HeadersTyped'
  <2>1. DOMAIN block' \subseteq HEAP_START .. HEAP_END
    BY <1>3, <1>5, OneBlock, Sizes DEF HeapInv, HeadersTyped, HeapTiled
  <2>2. \A c \in list' : block'[c] \in BlockHeader
    <3>1. block'[b] \in BlockHeader
      BY <1>1, <1>3, <1>5 DEF BlockHeader
    <3>2. block[b].size - need - 24 \in Nat
      BY <1>1, <1>2, OneBlock
    <3>3. block'[new] \in BlockHeader
      BY <1>5, <3>2, OneBlock DEF BlockHeader, BLOCK_HEADER_SIZE
    <3>4. \A c \in list : c # b => block'[c] \in BlockHeader
      BY <1>5 DEF HeapInv, HeadersTyped
    <3> QED
      BY <1>5, <3>1, <3>3, <3>4
  <2>3. live' \in [DOMAIN live' -> Requests] /\ DOMAIN live' \subseteq list'
    BY <1>5, <1>7 DEF HeapInv, HeadersTyped
  <2>4. result' \in Nat
    BY <1>3, <1>7 DEF BLOCK_HEADER_SIZE
  <2> QED
    BY <1>5, <1>7, <2>1, <2>2, <2>3, <2>4 DEF HeadersTyped
<1>9. HeapTiled'
  <2>1. HEAP_START \in list'
    BY <1>5 DEF HeapInv, HeapTiled
  <2>2. ASSUME NEW c \in list'
        PROVE  /\ HEAP_START <= c /\ EndOf(c)' <= HEAP_END
               /\ block'[c].next = IF EndOf(c)' = HEAP_END THEN NULL ELSE EndOf(c)'
               /\ block'[c].next # NULL => block'[c].next \in list'
    <3>1. CASE c = b
      <4>1. EndOf(c)' = new /\ block'[c].next = new
        BY <1>5, <1>6, <3>1
      <4>2. HEAP_START <= b /\ EndOf(b) <= HEAP_END
        BY DEF HeapInv, HeapTiled
      <4>3. new < HEAP_END
        BY <1>3, <4>2, OneBlock, Sizes
      <4> QED
        BY <1>3, <1>5, <3>1, <4>1, <4>2, <4>3, Sizes
    <3>2. CASE c = new
      BY <1>3, <1>5, <1>6, <3>2, Sizes DEF HeapInv, HeapTiled
    <3>3. CASE c \in list /\ c # b
      BY <1>5, <1>6, <3>3 DEF HeapInv, HeapTiled
    <3> QED
      BY <1>5, <3>1, <3>2, <3>3
  <2>3. ASSUME NEW c \in list', NEW d \in list', c < d
        PROVE  EndOf(c)' <= d
    <3>1. CASE c \in list /\ d \in list
      BY <1>3, <1>6, <2>3, <3>1, OneBlock DEF HeapInv, HeapTiled
    <3>2. CASE c = new /\ d \in list
      BY <1>3, <1>6, <2>3, <3>2, OneBlock DEF HeapInv, HeapTiled
    <3>3. CASE c \in list /\ d = new
      <4>1. CASE c = b
        BY <1>3, <1>6, <3>3, <4>1
      <4>2. CASE c < b
        BY <1>3, <1>6, <3>3, <4>2, OneBlock DEF HeapInv, HeapTiled
      <4>3. CASE b < c
        BY <1>3, <2>3, <3>3, <4>3, OneBlock DEF HeapInv, HeapTiled
      <4> QED
        BY <1>3, <3>3, <4>1, <4>2, <4>3, OneBlock
    <3> QED
      BY <1>3, <1>5, <2>3, <3>1, <3>2, <3>3
  <2> QED
    BY <2>1, <2>2, <2>3 DEF HeapTiled
<1>10. NoAdjacentFree'
  <2> SUFFICES ASSUME NEW c \in list', block'[c].is_free, block'[c].next # NULL
               PROVE  ~ block'[block'[c].next].is_free
    BY DEF NoAdjacentFree, FreeNext
  <2>1. CASE c = new
    <3>1. block[b].next \in list /\ block[b].next # b /\ ~ block[block[b].next].is_free
      BY <1>2, <1>5, <2>1, OneBlock DEF HeapInv, NoAdjacentFree, FreeNext
    <3> QED
      BY <1>5, <2>1, <3>1
  <2>2. CASE c # new
    <3>1. c \in list /\ c # b /\ block'[c] = block[c]
      BY <1>5, <2>2
    <3>2. block[c].next \in list /\ ~ block[block[c].next].is_free
      BY <3>1, OneBlock DEF HeapInv, NoAdjacentFree, FreeNext
    <3> QED
      BY <1>5, <3>1, <3>2
  <2> QED
    BY <2>1, <2>2
<1>11. OwnersAndMarks'
  <2>1. \A c \in list' : block'[c].is_free <=> c \notin DOMAIN live'
    BY <1>4, <1>5, <1>7, <1>3 DEF HeapInv, HeadersTyped, OwnersAndMarks
  <2>2. \A c \in DOMAIN live' : Roundable(live'[c]) => live'[c] <= block'[c].size
    BY <1>1, <1>5, <1>7 DEF HeapInv, HeadersTyped, OwnersAndMarks
  <2> QED
    BY <1>7, <2>1, <2>2 DEF OwnersAndMarks
<1> QED
  BY <1>2, <1>5, <1>8, <1>9, <1>10, <1>11 DEF HeapInv

(* Taking a whole block moves only its mark. *)
LEMMA TakeWholeStep ==
    ASSUME HeapInv, NEW size \in Requests, NEW b \in list, Allocate(b, size),
           ~ WorthSplitting(b, align_size(size))
    PROVE  /\ HeapInv' /\ b \notin DOMAIN live
           /\ \A c \in list : c # b => block'[c] = block[c]
<1>1. /\ block[b].is_free /\ b \notin DOMAIN live
      /\ Roundable(size) => size <= block[b].size
  <2>1. block[b].is_free /\ align_size(size) <= block[b].size
    BY AlignRoundsUp, OneBlock DEF Allocate, FirstFit, Fits
  <2>2. b \notin DOMAIN live
    BY <2>1 DEF HeapInv, OwnersAndMarks
  <2>3. size \in Nat
    BY KmallocAssumption DEF KmallocAssumption
  <2> QED
    BY <2>1, <2>2, <2>3, AlignRoundsUp, OneBlock
<1>2. /\ list' = list /\ DOMAIN block' = list
      /\ block' = [c \in list |-> block'[c]]
      /\ block'[b] = [size |-> block[b].size, is_free |-> FALSE, next |-> block[b].next]
      /\ \A c \in list : c # b => block'[c] = block[c]
  BY DEF Allocate, TakeWhole, HeapInv, HeadersTyped, BlockHeader
<1>3. /\ \A c \in list : block'[c].size = block[c].size /\ block'[c].next = block[c].next
      /\ ~ block'[b].is_free
  BY <1>2, OneBlock
<1>4. \A c \in list : EndOf(c)' = EndOf(c)
  BY <1>3 DEF EndOf
<1>5. /\ DOMAIN live' = DOMAIN live \union {b} /\ live'[b] = size
      /\ \A c \in DOMAIN live : c # b => live'[c] = live[c]
      /\ live' = [c \in DOMAIN live' |-> live'[c]]
      /\ freed' = {} /\ result' = b + BLOCK_HEADER_SIZE
  BY DEF Allocate
<1>6. HeadersTyped'
  <2>1. \A c \in list : block'[c] \in BlockHeader
    <3>1. block'[b] \in BlockHeader
      BY <1>2, OneBlock DEF BlockHeader
    <3>2. \A c \in list : block[c] \in BlockHeader
      BY DEF HeapInv, HeadersTyped
    <3> QED
      BY <1>2, <3>1, <3>2
  <2>2. live' \in [DOMAIN live' -> Requests] /\ DOMAIN live' \subseteq list
    BY <1>5 DEF HeapInv, HeadersTyped
  <2>3. result' \in Nat
    BY <1>5, OneBlock DEF BLOCK_HEADER_SIZE
  <2> QED
    BY <1>2, <1>5, <2>1, <2>2, <2>3 DEF HeapInv, HeadersTyped
<1>7. HeapTiled'
  BY <1>2, <1>3, <1>4 DEF HeapInv, HeapTiled
<1>8. NoAdjacentFree'
  BY <1>2, <1>3, OneBlock DEF HeapInv, NoAdjacentFree, FreeNext
<1>9. OwnersAndMarks'
  <2>1. \A c \in list : block'[c].is_free <=> c \notin DOMAIN live'
    BY <1>2, <1>3, <1>5 DEF HeapInv, OwnersAndMarks
  <2>2. \A c \in DOMAIN live' : Roundable(live'[c]) => live'[c] <= block'[c].size
    BY <1>1, <1>3, <1>5 DEF HeapInv, HeadersTyped, OwnersAndMarks
  <2> QED
    BY <1>2, <1>5, <2>1, <2>2 DEF OwnersAndMarks
<1> QED
  BY <1>1, <1>2, <1>6, <1>7, <1>8, <1>9 DEF HeapInv

(* A call of kmalloc allocates from one block or changes nothing.          *)
LEMMA KmallocStep ==
    ASSUME HeapInv, NEW size \in Requests, kmalloc(size)
    PROVE  HeapInv'
<1>1. CASE \E b \in list : Allocate(b, size)
  BY <1>1, SplitStep, TakeWholeStep
<1>2. CASE result' = NULL /\ UNCHANGED <<heapVars, live, freed>>
  BY <1>2 DEF heapVars, HeapInv, HeadersTyped, HeapTiled, NoAdjacentFree,
       OwnersAndMarks, EndOf, FreeNext, NULL
<1> QED
  BY <1>1, <1>2 DEF kmalloc

-----------------------------------------------------------------------------
(* kfree. *)

(* What Release leaves: one free block from start to end that has taken in *)
(* the blocks between, with used neighbours on both sides.                 *)
Coalesced(b, start, end) ==
    /\ start <= b /\ EndOf(b) <= end /\ start + 24 <= end /\ end <= HEAP_END
    /\ end # HEAP_END => end \in list /\ ~ block[end].is_free
    /\ start # b => block[start].is_free
    /\ \A c \in list : start < c /\ c < end => c = b \/ block[c].is_free
    /\ \A c \in list : block[c].is_free => block[c].next # start
    /\ list' = {c \in list : c <= start \/ end <= c}
    /\ DOMAIN block' = DOMAIN block
    /\ block' = [c \in DOMAIN block |-> block'[c]]
    /\ block'[start] = [size |-> end - start - 24, is_free |-> TRUE,
                        next |-> IF end = HEAP_END THEN NULL ELSE end]
    /\ \A c \in list' : c # start => block'[c] = block[c]
    /\ \A c \in DOMAIN block :
          /\ block'[c] \in BlockHeader
          /\ block'[c].is_free <=> block[c].is_free \/ c = b
          /\ \/ block'[c].next = block[c].next
             \/ c < end /\ block'[c].next = IF end = HEAP_END THEN NULL ELSE end

(* The two merges of kfree leave one free block in place of up to three.   *)
LEMMA ReleaseCoalesces ==
    ASSUME HeapInv, NEW b \in DOMAIN live, Release(b)
    PROVE  \E start \in list, end \in Nat : Coalesced(b, start, end)
<1> DEFINE m == block[b].next
           N == FreeNext(block, b)
           P == FreePrevious(block, b)
           H1 == [block EXCEPT ![b].is_free = TRUE]
           H2 == MergeNext(H1, b)
           end == IF N THEN EndOf(m) ELSE EndOf(b)
           after == IF end = HEAP_END THEN NULL ELSE end
<1>1. /\ b \in list /\ ~ block[b].is_free /\ b \in DOMAIN block
      /\ \A c \in list : c \in DOMAIN block
      /\ \A c \in DOMAIN block : block[c] \in BlockHeader
  BY DEF HeapInv, HeadersTyped, OwnersAndMarks
<1>2. N => m \in list /\ m = EndOf(b) /\ block[m].is_free /\ b < m /\ m < EndOf(m)
  BY <1>1, OneBlock DEF FreeNext
<1>3. /\ end \in Nat /\ EndOf(b) <= end /\ b + 24 <= end /\ end <= HEAP_END
      /\ end # HEAP_END => end \in list /\ ~ block[end].is_free
  <2>1. CASE N
    <3>1. m \in list /\ m = EndOf(b) /\ end = EndOf(m) /\ block[m].is_free
      BY <1>2, <2>1
    <3>2. end <= HEAP_END /\ block[m].next = IF end = HEAP_END THEN NULL ELSE end
      BY <3>1 DEF HeapInv, HeapTiled
    <3>3. end \in Nat /\ EndOf(b) <= end /\ b + 24 <= end
      BY <1>1, <3>1, OneBlock
    <3>4. end # HEAP_END => end # NULL
      BY <3>3, <1>1, OneBlock DEF NULL
    <3>5. block[m].next # NULL => block[m].next \in list /\ ~ block[block[m].next].is_free
      BY <3>1, OneBlock DEF HeapInv, NoAdjacentFree, FreeNext
    <3> QED
      BY <3>2, <3>3, <3>4, <3>5
  <2>2. CASE ~ N
    <3>1. end = EndOf(b)
      BY <2>2
    <3>2. end <= HEAP_END /\ block[b].next = IF end = HEAP_END THEN NULL ELSE end
      BY <1>1, <3>1 DEF HeapInv, HeapTiled
    <3>3. end \in Nat /\ EndOf(b) <= end /\ b + 24 <= end
      BY <1>1, <3>1, OneBlock
    <3>4. end # HEAP_END => end # NULL
      BY <3>3, <1>1, OneBlock DEF NULL
    <3>5. block[b].next # NULL => block[b].next \in list /\ ~ block[block[b].next].is_free
      BY <1>1, <2>2, OneBlock DEF FreeNext
    <3> QED
      BY <3>2, <3>3, <3>4, <3>5
  <2> QED
    BY <2>1, <2>2
<1>4. /\ DOMAIN H1 = DOMAIN block
      /\ H1[b] = [size |-> block[b].size, is_free |-> TRUE, next |-> m]
      /\ \A c \in DOMAIN block : c # b => H1[c] = block[c]
  BY <1>1 DEF BlockHeader
<1> HIDE DEF H1
<1>5. FreeNext(H1, b) <=> N
  BY <1>1, <1>4, OneBlock DEF FreeNext
<1>6. /\ DOMAIN H2 = DOMAIN block
      /\ H2[b] = [size |-> end - b - 24, is_free |-> TRUE, next |-> after]
      /\ \A c \in DOMAIN block : c # b => H2[c] = block[c]
  <2>1. CASE N
    <3>1. m # b /\ m \in DOMAIN block
      BY <1>1, <1>2, <2>1, OneBlock
    <3>2. H2 = [H1 EXCEPT ![b] = Joined(H1[b], H1[H1[b].next])]
      BY <1>5, <2>1 DEF MergeNext
    <3>3. H2[b] = Joined(H1[b], block[m])
      BY <1>1, <1>4, <3>1, <3>2
    <3>4. /\ DOMAIN H2 = DOMAIN block
          /\ \A c \in DOMAIN block : c # b => H2[c] = block[c]
      BY <1>4, <3>2
    <3>5. block[m].next = after
      BY <1>2, <2>1 DEF HeapInv, HeapTiled
    <3>6. block[b].size + 24 + block[m].size = end - b - 24
      BY <1>1, <1>2, <2>1, OneBlock
    <3> HIDE DEF H2, end, after
    <3>7. H1[b].size = block[b].size /\ H1[b].is_free = TRUE
      BY <1>4
    <3>8. H2[b] = [size |-> block[b].size + 24 + block[m].size, is_free |-> TRUE,
                   next |-> block[m].next]
      BY <3>3, <3>7 DEF Joined, BLOCK_HEADER_SIZE
    <3> QED
      BY <3>4, <3>5, <3>6, <3>8
  <2>2. CASE ~ N
    <3>1. H2 = H1
      BY <1>5, <2>2 DEF MergeNext
    <3>2. block[b].next = after /\ block[b].size = end - b - 24
      BY <1>1, <2>2, OneBlock DEF HeapInv, HeapTiled
    <3> QED
      BY <1>4, <3>1, <3>2
  <2> QED
    BY <2>1, <2>2
<1> HIDE DEF H2
<1>7. after # b
  BY <1>1, <1>3, OneBlock DEF NULL
<1> HIDE DEF after, end
<1>8. FreePrevious(H2, b) = P
  BY <1>1, <1>6, <1>7 DEF FreePrevious
<1>9. /\ DOMAIN block' = DOMAIN block
      /\ block' = [c \in DOMAIN block |-> block'[c]]
      /\ \A c \in DOMAIN block : block'[c] = IF c \in P THEN Joined(block[c], H2[b]) ELSE H2[c]
  <2>1. block' = [c \in DOMAIN block |-> IF c \in P THEN Joined(H2[c], H2[b]) ELSE H2[c]]
    BY <1>6, <1>8 DEF Release, MergePrevious, H2, H1
  <2>2. b \notin P
    BY <1>1 DEF FreePrevious
  <2> QED
    BY <1>6, <2>1, <2>2
<1>10. list' = {c \in list : ~ (N /\ c = m) /\ ~ (P # {} /\ c = b)}
  BY DEF Release, ListWithout
<1>11. end - b - 24 \in Nat /\ after \in Nat
  BY <1>1, <1>3, OneBlock DEF after, NULL
<1>12. \A c \in DOMAIN block :
          /\ block'[c] \in BlockHeader
          /\ block'[c].is_free <=> block[c].is_free \/ c = b
          /\ \/ block'[c].next = block[c].next
             \/ c < end /\ block'[c].next = after
  <2> TAKE c \in DOMAIN block
  <2>1. CASE c \in P
    <3>1. block'[c] = [size |-> block[c].size + 24 + (end - b - 24),
                       is_free |-> block[c].is_free, next |-> after]
      BY <1>6, <1>9, <2>1 DEF Joined, BLOCK_HEADER_SIZE
    <3>2. c \in list /\ block[c].is_free /\ c # b /\ block[c].next = b
      BY <1>1, <2>1 DEF FreePrevious
    <3>3. c < end
      BY <1>1, <1>3, <3>2, OneBlock DEF NULL
    <3>4. block[c].size \in Nat /\ block[c].size + 24 + (end - b - 24) \in Nat
      BY <1>11, <3>2, OneBlock
    <3>5. block'[c] \in BlockHeader
      BY <1>11, <3>1, <3>2, <3>4 DEF BlockHeader
    <3> QED
      BY <3>1, <3>2, <3>3, <3>5
  <2>2. CASE c \notin P /\ c = b
    <3>1. block'[c] = [size |-> end - b - 24, is_free |-> TRUE, next |-> after]
      BY <1>6, <1>9, <2>2
    <3>2. c < end
      BY <1>1, <1>3, <2>2, OneBlock
    <3>3. block'[c] \in BlockHeader
      BY <1>11, <3>1 DEF BlockHeader
    <3> QED
      BY <2>2, <3>1, <3>2, <3>3
  <2>3. CASE c \notin P /\ c # b
    BY <1>1, <1>6, <1>9, <2>3
  <2> QED
    BY <2>1, <2>2, <2>3
<1>13. \A c \in list : b < c => c < end <=> N /\ c = m
  BY <1>1, <1>2, OneBlock DEF HeapInv, HeapTiled, end
<1>14. CASE P = {}
  <2>1. list' = {c \in list : c <= b \/ end <= c}
    BY <1>1, <1>2, <1>3, <1>10, <1>13, <1>14, OneBlock
  <2>2. \A c \in list : block[c].is_free => block[c].next # b
    BY <1>14 DEF FreePrevious
  <2>3. \A c \in list' : c # b => block'[c] = block[c]
    BY <1>1, <1>6, <1>9, <1>14, <2>1
  <2>4. block'[b] = [size |-> end - b - 24, is_free |-> TRUE,
                     next |-> IF end = HEAP_END THEN NULL ELSE end]
    BY <1>1, <1>6, <1>9, <1>14 DEF after
  <2>5. \A c \in list : b < c /\ c < end => block[c].is_free
    BY <1>2, <1>13
  <2>6. Coalesced(b, b, end)
    BY <1>1, <1>3, <1>9, <1>12, <2>1, <2>2, <2>3, <2>4, <2>5, OneBlock DEF Coalesced, after
  <2> QED
    BY <1>1, <1>3, <2>6
<1>15. CASE P # {}
  <2>1. PICK p \in list : p \in P
    BY <1>15 DEF FreePrevious
  <2>2. block[p].is_free /\ block[p].next = b /\ EndOf(p) = b /\ p < b /\ b # NULL
    BY <1>1, <2>1, OneBlock DEF FreePrevious, NULL
  <2>3. \A c \in list : c <= p \/ b <= c
    BY <2>2, OneBlock DEF HeapInv, HeapTiled
  <2>4. P = {p}
    <3>1. \A c \in P : c \in list /\ EndOf(c) = b /\ c < b
      BY <1>1, <2>2, OneBlock DEF FreePrevious
    <3>2. \A c \in P : c = p
      BY <2>2, <3>1, OneBlock DEF HeapInv, HeapTiled
    <3> QED
      BY <2>1, <3>2
  <2>5. list' = {c \in list : c <= p \/ end <= c}
    BY <1>1, <1>2, <1>3, <1>10, <1>13, <1>15, <2>2, <2>3, OneBlock
  <2>6. \A c \in list : block[c].is_free => block[c].next # p
    <3>1. p # NULL
      BY OneBlock DEF NULL
    <3> QED
      BY <2>2, <3>1 DEF HeapInv, NoAdjacentFree, FreeNext
  <2>7. \A c \in list' : c # p => block'[c] = block[c]
    BY <1>1, <1>3, <1>6, <1>9, <2>2, <2>4, <2>5, OneBlock
  <2>8. block'[p] = [size |-> end - p - 24, is_free |-> TRUE,
                     next |-> IF end = HEAP_END THEN NULL ELSE end]
    <3>1. block'[p] = [size |-> block[p].size + 24 + (end - b - 24),
                       is_free |-> TRUE, next |-> after]
      <4>1. block'[p] = Joined(block[p], H2[b])
        BY <1>1, <1>9, <2>1
      <4>2. block[p].is_free = TRUE
        BY <2>2, OneBlock
      <4>3. H2[b].size = end - b - 24 /\ H2[b].next = after
        BY <1>6
      <4> HIDE DEF P
      <4> QED
        BY <4>1, <4>2, <4>3 DEF Joined, BLOCK_HEADER_SIZE
    <3>2. block[p].size + 24 + (end - b - 24) = end - p - 24
      BY <1>1, <1>3, <2>2, OneBlock
    <3> QED
      BY <3>1, <3>2 DEF after
  <2>9. p <= b /\ p + 24 <= end
    BY <1>1, <1>3, <2>2, OneBlock
  <2>10. \A c \in list : p < c /\ c < end => c = b \/ block[c].is_free
    BY <1>1, <1>2, <1>13, <2>3, OneBlock
  <2>11. Coalesced(b, p, end)
    BY <1>3, <1>9, <1>12, <2>2, <2>5, <2>6, <2>7, <2>8, <2>9, <2>10 DEF Coalesced, after
  <2> QED
    BY <1>3, <2>11
<1> QED
  BY <1>14, <1>15

(* One coalesced block keeps every part of the invariant. *)
LEMMA CoalescedKeepsInv ==
    ASSUME HeapInv, NEW b \in DOMAIN live, NEW start \in list, NEW end \in Nat,
           Coalesced(b, start, end),
           live' = [c \in DOMAIN live \ {b} |-> live[c]],
           freed' = freed \union {b},
           UNCHANGED result
    PROVE  /\ HeapInv'
           /\ \A c \in DOMAIN live' : block'[c] = block[c]
<1>1. /\ b \in list /\ b \in DOMAIN block /\ ~ block[b].is_free
      /\ start <= b /\ EndOf(b) <= end /\ start + 24 <= end /\ end <= HEAP_END
      /\ end # HEAP_END => end \in list /\ ~ block[end].is_free
      /\ start # b => block[start].is_free
  BY DEF Coalesced, HeapInv, HeadersTyped, OwnersAndMarks
<1>2. /\ list' = {c \in list : c <= start \/ end <= c}
      /\ DOMAIN block' = DOMAIN block /\ block' = [c \in DOMAIN block |-> block'[c]]
      /\ block'[start] = [size |-> end - start - 24, is_free |-> TRUE,
                          next |-> IF end = HEAP_END THEN NULL ELSE end]
      /\ \A c \in list' : c # start => block'[c] = block[c]
  BY DEF Coalesced
<1>3. start \in Nat /\ start \in list' /\ HEAP_END \notin list
  BY <1>2, OneBlock, Sizes DEF HeapInv, HeapTiled
<1>4. /\ EndOf(start)' = end
      /\ \A c \in list' : c # start => EndOf(c)' = EndOf(c)
  <2>1. block'[start].size = end - start - 24
    BY <1>2
  <2>2. EndOf(start)' = end
    BY <1>3, <2>1 DEF EndOf, BLOCK_HEADER_SIZE
  <2> QED
    BY <1>2, <2>2 DEF EndOf
<1>5. /\ DOMAIN live' = DOMAIN live \ {b}
      /\ \A c \in DOMAIN live' : c \in list' /\ c # start /\ live'[c] = live[c]
  <2>1. \A c \in DOMAIN live : c \in list /\ ~ block[c].is_free
    BY DEF HeapInv, HeadersTyped, OwnersAndMarks
  <2>2. \A c \in list : start < c /\ c < end => c = b \/ block[c].is_free
    BY DEF Coalesced
  <2>3. \A c \in DOMAIN live \ {b} : c # start
    BY <1>1, <2>1
  <2> QED
    BY <1>2, <1>3, <2>1, <2>2, <2>3, OneBlock
<1>6. HeadersTyped'
  <2>1. block' \in [DOMAIN block' -> BlockHeader]
    BY <1>2 DEF Coalesced
  <2>2. live' \in [DOMAIN live' -> Requests]
    BY <1>5 DEF HeapInv, HeadersTyped
  <2> QED
    BY <1>1, <1>2, <1>5, <2>1, <2>2 DEF HeapInv, HeadersTyped
<1>7. HeapTiled'
  <2>1. HEAP_START \in list'
    BY <1>2, <1>3, OneBlock, Sizes DEF HeapInv, HeapTiled
  <2>2. ASSUME NEW c \in list'
        PROVE  /\ HEAP_START <= c /\ EndOf(c)' <= HEAP_END
               /\ block'[c].next = IF EndOf(c)' = HEAP_END THEN NULL ELSE EndOf(c)'
               /\ block'[c].next # NULL => block'[c].next \in list'
    <3>1. CASE c = start
      <4>1. block'[c].next = IF end = HEAP_END THEN NULL ELSE end
        BY <1>2, <3>1
      <4>2. end # HEAP_END => end \in list'
        BY <1>1, <1>2
      <4> QED
        BY <1>1, <1>4, <3>1, <4>1, <4>2 DEF HeapInv, HeapTiled
    <3>2. CASE c # start
      <4>1. c \in list /\ block'[c] = block[c] /\ EndOf(c)' = EndOf(c)
        BY <1>2, <1>4, <3>2
      <4>2. block[c].next # NULL => block[c].next \in list'
        BY <1>1, <1>2, <1>3, <3>2, <4>1, OneBlock DEF HeapInv, HeapTiled
      <4> QED
        BY <4>1, <4>2 DEF HeapInv, HeapTiled
    <3> QED
      BY <3>1, <3>2
  <2>3. ASSUME NEW c \in list', NEW d \in list', c < d
        PROVE  EndOf(c)' <= d
    <3>1. CASE c = start
      BY <1>2, <1>3, <1>4, <2>3, <3>1, OneBlock
    <3>2. CASE c # start
      BY <1>2, <1>4, <2>3, <3>2 DEF HeapInv, HeapTiled
    <3> QED
      BY <3>1, <3>2
  <2> QED
    BY <2>1, <2>2, <2>3 DEF HeapTiled
<1>8. NoAdjacentFree'
  <2> SUFFICES ASSUME NEW c \in list', block'[c].is_free, block'[c].next # NULL
               PROVE  ~ block'[block'[c].next].is_free
    BY DEF NoAdjacentFree, FreeNext
  <2>1. block'[c].next \in list'
    BY <1>7 DEF HeapTiled
  <2>2. CASE c = start
    <3>1. block'[c].next = end /\ end # HEAP_END
      BY <1>2, <2>2
    <3>2. end # start
      BY <1>1, <1>3
    <3> QED
      BY <1>1, <1>2, <2>1, <3>1, <3>2
  <2>3. CASE c # start
    <3>1. c \in list /\ block'[c] = block[c]
      BY <1>2, <2>3
    <3>2. block[c].next # start
      BY <3>1 DEF Coalesced
    <3>3. ~ block[block[c].next].is_free
      BY <3>1 DEF HeapInv, NoAdjacentFree, FreeNext
    <3> QED
      BY <1>2, <2>1, <3>1, <3>2, <3>3
  <2> QED
    BY <2>2, <2>3
<1>9. OwnersAndMarks'
  <2>1. \A c \in list' : block'[c].is_free <=> c \notin DOMAIN live'
    <3> SUFFICES ASSUME NEW c \in list'
                 PROVE  block'[c].is_free <=> c \notin DOMAIN live'
      OBVIOUS
    <3>1. CASE c = start
      BY <1>2, <1>5, <3>1
    <3>2. CASE c # start
      <4>1. c # b
        BY <1>1, <1>2, <1>3, <3>2, OneBlock
      <4> QED
        BY <1>2, <1>5, <3>2, <4>1 DEF HeapInv, OwnersAndMarks
    <3> QED
      BY <3>1, <3>2
  <2>2. \A c \in DOMAIN live' : Roundable(live'[c]) => live'[c] <= block'[c].size
    BY <1>2, <1>5 DEF HeapInv, OwnersAndMarks
  <2>3. \A c \in freed' : c \notin DOMAIN live' /\ block'[c].is_free
    BY <1>1, <1>5 DEF HeapInv, HeadersTyped, OwnersAndMarks, Coalesced
  <2> QED
    BY <2>1, <2>2, <2>3 DEF OwnersAndMarks
<1> QED
  BY <1>2, <1>5, <1>6, <1>7, <1>8, <1>9 DEF HeapInv

(* The block of a pointer a caller may free has an owner or is marked free. *)
LEMMA KfreeStep ==
    ASSUME HeapInv, NEW ptr \in FreeArguments, kfree(ptr)
    PROVE  /\ HeapInv'
           /\ \/ UNCHANGED <<block, list, live, result>> /\ UNCHANGED total_allocated
              \/ \E b \in DOMAIN live :
                    /\ live' = [c \in DOMAIN live \ {b} |-> live[c]]
                    /\ \A c \in DOMAIN live' : block'[c] = block[c]
                    /\ total_allocated' = total_allocated - block[b].size
                    /\ \E start \in list, end \in Nat : Coalesced(b, start, end)
                    /\ UNCHANGED result
<1> DEFINE b == ptr - BLOCK_HEADER_SIZE
<1>1. /\ \A c \in DOMAIN live : c \in list /\ ~ block[c].is_free
      /\ \A c \in freed : c \notin DOMAIN live /\ block[c].is_free /\ c \in DOMAIN block
      /\ \A c \in DOMAIN block : c \in Nat /\ 0 < c
      /\ live = [c \in DOMAIN live |-> live[c]]
  BY Sizes DEF HeapInv, HeadersTyped, OwnersAndMarks
<1>2. \/ ptr = NULL
      \/ ptr # NULL /\ b \in DOMAIN live
      \/ ptr # NULL /\ b \in freed
  BY <1>1, OneBlock DEF FreeArguments, BLOCK_HEADER_SIZE, NULL
<1>3. CASE ptr # NULL /\ b \in DOMAIN live
  <2> HIDE DEF b
  <2>1. /\ Release(b)
        /\ live' = [c \in DOMAIN live \ {b} |-> live[c]]
        /\ freed' = freed \union {b}
        /\ UNCHANGED result
    BY <1>1, <1>3 DEF kfree, NothingToFree, b
  <2>2. PICK start \in list, end \in Nat : Coalesced(b, start, end)
    BY <1>3, <2>1, ReleaseCoalesces
  <2>3. HeapInv' /\ \A c \in DOMAIN live' : block'[c] = block[c]
    BY <1>3, <2>1, <2>2, CoalescedKeepsInv
  <2>4. total_allocated' = total_allocated - block[b].size
    BY <2>1 DEF Release
  <2> QED
    BY <1>3, <2>1, <2>2, <2>3, <2>4
<1>4. CASE ptr = NULL \/ (ptr # NULL /\ b \in freed)
  <2>1. b \notin DOMAIN live
    <3>1. CASE ptr = NULL
      BY <1>1, <3>1, OneBlock DEF BLOCK_HEADER_SIZE, NULL
    <3>2. CASE b \in freed
      BY <1>1, <3>2
    <3> QED
      BY <1>4, <3>1, <3>2
  <2>2. UNCHANGED <<block, list>> /\ UNCHANGED result /\ UNCHANGED total_allocated
    BY <1>1, <1>4 DEF kfree, NothingToFree, heapVars
  <2>3. live' = live /\ freed' = freed
    BY <1>1, <2>1 DEF kfree
  <2>4. HeapInv'
    BY <2>2, <2>3 DEF HeapInv, HeadersTyped, HeapTiled, NoAdjacentFree,
         OwnersAndMarks, EndOf, FreeNext
  <2> QED
    BY <2>2, <2>3, <2>4
<1> QED
  BY <1>2, <1>3, <1>4

(* Every step keeps the invariant of the headers.                          *)
LEMMA NextPreservesHeapInv == HeapInv /\ [KmallocNext]_kmallocVars => HeapInv'
<1> SUFFICES ASSUME HeapInv, [KmallocNext]_kmallocVars PROVE HeapInv'
  OBVIOUS
<1>1. ASSUME NEW size \in Requests, kmalloc(size) PROVE HeapInv'
  BY <1>1, KmallocStep
<1>2. ASSUME NEW ptr \in FreeArguments, kfree(ptr) PROVE HeapInv'
  BY <1>2, KfreeStep
<1>3. CASE UNCHANGED kmallocVars
  BY <1>3 DEF kmallocVars, HeapInv, HeadersTyped, HeapTiled, NoAdjacentFree,
       OwnersAndMarks, EndOf, FreeNext
<1> QED
  BY <1>1, <1>2, <1>3 DEF KmallocNext

-----------------------------------------------------------------------------
(* Sums of sizes: what kmalloc_get_free's sum over a set of blocks is,      *)
(* whatever order the blocks are taken in.                                 *)

\* The sum of the sizes over a set of blocks, as BytesAccounted writes it.
SizeSum(headers, blocks) == MapThenSumSet(LAMBDA b : headers[b].size, blocks)

\* The recursion behind it: one block after the other, in a fixed order.
Pick(blocks) == CHOOSE b \in blocks : TRUE
Sums(headers, blocks) == CHOOSE sum : sum = [part \in SUBSET blocks |->
    IF part = {} THEN 0 ELSE headers[Pick(part)].size + sum[part \ {Pick(part)}]]

\* Every block has a size.
SizesAreIntegers(headers, blocks) == \A b \in blocks : headers[b].size \in Int

(* The sum the code computes is the value of the recursion at the whole set.*)
LEMMA SizeSumIsSums ==
    ASSUME NEW headers, NEW blocks
    PROVE  SizeSum(headers, blocks) = Sums(headers, blocks)[blocks]
BY DEF SizeSum, Sums, Pick, MapThenSumSet, MapThenFoldSet

(* The recursion over the parts of a finite set of blocks has a solution.  *)
LEMMA SumsSolved ==
    ASSUME NEW blocks, IsFiniteSet(blocks), NEW headers, SizesAreIntegers(headers, blocks)
    PROVE  /\ Sums(headers, blocks) \in [SUBSET blocks -> Int]
           /\ \A part \in SUBSET blocks : Sums(headers, blocks)[part] =
                 IF part = {} THEN 0
                 ELSE headers[Pick(part)].size + Sums(headers, blocks)[part \ {Pick(part)}]
<1> DEFINE D == SUBSET blocks
           rank == [part \in D |-> Cardinality(part)]
           down == [part \in D |-> part \ {Pick(part)}]
           base == [part \in D |-> 0]
           first(part) == IF part = {} THEN 0 ELSE headers[Pick(part)].size
           step == [pair \in D \X Int |-> first(pair[1]) + pair[2]]
<1>1. \A part \in D : /\ IsFiniteSet(part) /\ Cardinality(part) \in Nat
                      /\ Cardinality(part) = 0 <=> part = {}
  BY FS_Subset, FS_CardinalityType, FS_EmptySet
<1>2. \A part \in D : part # {} => Pick(part) \in part
  BY DEF Pick
<1>3. rank \in [D -> Nat] /\ down \in [D -> D] /\ base \in [D -> Int]
  BY <1>1
<1>4. step \in [D \X Int -> Int]
  <2>1. \A part \in D : first(part) \in Int
    BY <1>2 DEF SizesAreIntegers
  <2> HIDE DEF first
  <2> QED BY <2>1
<1>5. ASSUME NEW part \in D, rank[part] # 0 PROVE rank[down[part]] < rank[part]
  <2>1. part # {} /\ Pick(part) \in part /\ IsFiniteSet(part)
    BY <1>1, <1>2, <1>5
  <2>2. Cardinality(part \ {Pick(part)}) = Cardinality(part) - 1
    BY <2>1, FS_RemoveElement
  <2> QED BY <1>1, <2>2
<1>6. PICK sum \in [D -> Int] : \A part \in D :
          sum[part] = IF rank[part] = 0 THEN base[part] ELSE step[<<part, sum[down[part]]>>]
  <2> HIDE DEF D, rank, down, base, step
  <2>1. Descends(D, Int, rank, down, base, step)
    BY <1>3, <1>4, <1>5 DEF Descends
  <2> QED BY ONLY <2>1, RecursionSolved, SMT
<1>7. ASSUME NEW part \in D
      PROVE  sum[part] = IF part = {} THEN 0
                         ELSE headers[Pick(part)].size + sum[part \ {Pick(part)}]
  <2>1. rank[part] = 0 <=> part = {}
    BY <1>1
  <2>2. CASE part = {}
    BY <1>6, <2>1, <2>2
  <2>3. CASE part # {}
    <3>1. sum[part] = step[<<part, sum[down[part]]>>]
      BY <1>6, <2>1, <2>3
    <3>2. down[part] = part \ {Pick(part)} /\ sum[down[part]] \in Int
      BY <1>3
    <3>3. step[<<part, sum[down[part]]>>] = first(part) + sum[down[part]]
      BY <3>2
    <3> QED BY <2>3, <3>1, <3>2, <3>3
  <2> QED BY <2>2, <2>3
<1>8. sum = [part \in SUBSET blocks |->
                IF part = {} THEN 0 ELSE headers[Pick(part)].size + sum[part \ {Pick(part)}]]
  BY <1>7
<1>9. Sums(headers, blocks) = [part \in SUBSET blocks |->
          IF part = {} THEN 0
          ELSE headers[Pick(part)].size + Sums(headers, blocks)[part \ {Pick(part)}]]
  BY <1>8 DEF Sums
<1>10. SUBSET blocks \subseteq {part \in SUBSET blocks : Sums(headers, blocks)[part] \in Int}
  <2> DEFINE F == {part \in SUBSET blocks : Sums(headers, blocks)[part] \in Int}
  <2>1. ASSUME NEW part \in SUBSET blocks, \A U \in SUBSET part : U # part => U \in F
        PROVE  Sums(headers, blocks)[part] \in Int
    <3>1. CASE part = {}
      BY <1>9, <3>1
    <3>2. CASE part # {}
      <4>1. Pick(part) \in part
        BY <1>2, <3>2
      <4>2. part \ {Pick(part)} \in F /\ headers[Pick(part)].size \in Int
        BY <2>1, <4>1 DEF SizesAreIntegers
      <4>3. Sums(headers, blocks)[part \ {Pick(part)}] \in Int
        BY <4>2
      <4>4. Sums(headers, blocks)[part] =
                headers[Pick(part)].size + Sums(headers, blocks)[part \ {Pick(part)}]
        BY <1>9, <3>2
      <4> QED BY <4>2, <4>3, <4>4
    <3> QED BY <3>1, <3>2
  <2> HIDE DEF F
  <2>2. \A part \in SUBSET blocks : (\A U \in SUBSET part : U # part => U \in F) => part \in F
    BY <2>1 DEF F
  <2>3. SUBSET blocks \subseteq F
    BY <2>2, PartInduction
  <2> QED BY <2>3 DEF F
<1> QED BY <1>9, <1>10

(* Any block may be taken out first. *)
LEMMA SumsTakeOut ==
    ASSUME NEW blocks, IsFiniteSet(blocks), NEW headers, SizesAreIntegers(headers, blocks)
    PROVE  \A part \in SUBSET blocks : \A x \in part :
              Sums(headers, blocks)[part] = headers[x].size + Sums(headers, blocks)[part \ {x}]
<1> DEFINE sum == Sums(headers, blocks)
           F == {part \in SUBSET blocks :
                    \A x \in part : sum[part] = headers[x].size + sum[part \ {x}]}
<1>0. /\ sum \in [SUBSET blocks -> Int]
      /\ \A part \in SUBSET blocks : sum[part] =
            IF part = {} THEN 0 ELSE headers[Pick(part)].size + sum[part \ {Pick(part)}]
  BY SumsSolved
<1>1. /\ \A part \in SUBSET blocks : sum[part] \in Int
      /\ \A part \in SUBSET blocks :
            part # {} => sum[part] = headers[Pick(part)].size + sum[part \ {Pick(part)}]
      /\ \A part \in SUBSET blocks : part # {} => Pick(part) \in part
      /\ \A x \in blocks : headers[x].size \in Int
  <2>1. \A part \in SUBSET blocks : part # {} => Pick(part) \in part
    BY DEF Pick
  <2> HIDE DEF sum
  <2> QED BY <1>0, <2>1 DEF SizesAreIntegers
<1> HIDE DEF sum
<1>2. ASSUME NEW part \in SUBSET blocks, \A U \in SUBSET part : U # part => U \in F
      PROVE  part \in F
  <2> SUFFICES ASSUME NEW x \in part
               PROVE  sum[part] = headers[x].size + sum[part \ {x}]
    OBVIOUS
  <2> DEFINE p == Pick(part)
  <2>1. p \in part /\ sum[part] = headers[p].size + sum[part \ {p}]
    BY <1>1
  <2> HIDE DEF p
  <2>2. CASE x = p
    BY <2>1, <2>2
  <2>3. CASE x # p
    <3>1. part \ {p} \in F /\ x \in part \ {p}
      BY <1>2, <2>1, <2>3
    <3>2. part \ {x} \in F /\ p \in part \ {x}
      BY <1>2, <2>1, <2>3
    <3>3. (part \ {p}) \ {x} = (part \ {x}) \ {p}
      OBVIOUS
    <3>4. sum[part \ {p}] = headers[x].size + sum[(part \ {p}) \ {x}]
      BY <3>1
    <3>5. sum[part \ {x}] = headers[p].size + sum[(part \ {p}) \ {x}]
      BY <3>2, <3>3
    <3>6. headers[x].size \in Int /\ headers[p].size \in Int /\ sum[(part \ {p}) \ {x}] \in Int
      BY <1>1, <2>1
    <3> QED BY <2>1, <3>4, <3>5, <3>6
  <2> QED BY <2>2, <2>3
<1>3. SUBSET blocks \subseteq F
  <2> HIDE DEF F
  <2> QED BY <1>2, PartInduction
<1> QED BY <1>3 DEF F, sum

(* Only the sizes of the summed blocks count. *)
LEMMA SumsAgree ==
    ASSUME NEW blocks, IsFiniteSet(blocks), NEW headers, SizesAreIntegers(headers, blocks),
           NEW others, IsFiniteSet(others), NEW changed, SizesAreIntegers(changed, others),
           NEW same \in SUBSET blocks, same \subseteq others,
           \A b \in same : changed[b].size = headers[b].size
    PROVE  Sums(changed, others)[same] = Sums(headers, blocks)[same]
<1> DEFINE before == Sums(headers, blocks)
           after == Sums(changed, others)
           F == {part \in SUBSET same : after[part] = before[part]}
<1>1. /\ \A part \in SUBSET same : part = {} => before[part] = 0
      /\ \A part \in SUBSET same :
            part # {} => before[part] = headers[Pick(part)].size + before[part \ {Pick(part)}]
  <2>1. \A part \in SUBSET blocks : before[part] =
            IF part = {} THEN 0 ELSE headers[Pick(part)].size + before[part \ {Pick(part)}]
    BY SumsSolved
  <2> HIDE DEF before
  <2> QED BY <2>1
<1>2. /\ \A part \in SUBSET same : part = {} => after[part] = 0
      /\ \A part \in SUBSET same :
            part # {} => after[part] = changed[Pick(part)].size + after[part \ {Pick(part)}]
  <2>1. \A part \in SUBSET others : after[part] =
            IF part = {} THEN 0 ELSE changed[Pick(part)].size + after[part \ {Pick(part)}]
    BY SumsSolved
  <2> HIDE DEF after
  <2> QED BY <2>1
<1> HIDE DEF before, after
<1>3. ASSUME NEW part \in SUBSET same, \A U \in SUBSET part : U # part => U \in F
      PROVE  part \in F
  <2>1. CASE part = {}
    BY <1>1, <1>2, <2>1
  <2>2. CASE part # {}
    <3>1. Pick(part) \in part
      BY <2>2 DEF Pick
    <3>2. part \ {Pick(part)} \in F
      BY <1>3, <3>1
    <3>3. after[part \ {Pick(part)}] = before[part \ {Pick(part)}]
      BY <3>2
    <3>4. changed[Pick(part)].size = headers[Pick(part)].size
      BY <3>1
    <3>5. after[part] = before[part]
      BY <1>1, <1>2, <2>2, <3>3, <3>4
    <3> QED BY <3>5
  <2> QED BY <2>1, <2>2
<1>4. IsFiniteSet(same)
  BY FS_Subset
<1>5. SUBSET same \subseteq F
  <2> HIDE DEF F
  <2> QED BY <1>3, <1>4, PartInduction
<1> QED BY <1>5 DEF F, before, after

(* The same facts about the sum of a set. *)
LEMMA SizeSumTakeOut ==
    ASSUME NEW blocks, IsFiniteSet(blocks), NEW headers, SizesAreIntegers(headers, blocks)
    PROVE  /\ SizeSum(headers, blocks) \in Int
           /\ blocks = {} => SizeSum(headers, blocks) = 0
           /\ \A x \in blocks :
                 SizeSum(headers, blocks) = headers[x].size + SizeSum(headers, blocks \ {x})
<1>1. SizeSum(headers, blocks) = Sums(headers, blocks)[blocks]
  BY SizeSumIsSums
<1>2. /\ Sums(headers, blocks)[blocks] \in Int
      /\ blocks = {} => Sums(headers, blocks)[blocks] = 0
  BY SumsSolved
<1>3. ASSUME NEW x \in blocks
      PROVE  SizeSum(headers, blocks \ {x}) = Sums(headers, blocks)[blocks \ {x}]
  <2>1. IsFiniteSet(blocks \ {x}) /\ SizesAreIntegers(headers, blocks \ {x})
    BY FS_Subset DEF SizesAreIntegers
  <2>2. Sums(headers, blocks \ {x})[blocks \ {x}] = Sums(headers, blocks)[blocks \ {x}]
    BY <2>1, SumsAgree
  <2> QED BY <2>2, SizeSumIsSums
<1>4. \A x \in blocks :
          Sums(headers, blocks)[blocks] = headers[x].size + Sums(headers, blocks)[blocks \ {x}]
  BY SumsTakeOut
<1> QED BY <1>1, <1>2, <1>3, <1>4

(* Headers that give the same sizes give the same sum.                     *)
LEMMA SizeSumAgree ==
    ASSUME NEW blocks, IsFiniteSet(blocks), NEW headers, SizesAreIntegers(headers, blocks),
           NEW changed, \A b \in blocks : changed[b].size = headers[b].size
    PROVE  SizeSum(changed, blocks) = SizeSum(headers, blocks)
<1>1. SizesAreIntegers(changed, blocks)
  BY DEF SizesAreIntegers
<1>2. Sums(changed, blocks)[blocks] = Sums(headers, blocks)[blocks]
  BY <1>1, SumsAgree
<1> QED BY <1>2, SizeSumIsSums

(* A sum of sizes is not negative.                                         *)
LEMMA SizeSumNat ==
    ASSUME NEW blocks, IsFiniteSet(blocks), NEW headers,
           \A b \in blocks : headers[b].size \in Nat
    PROVE  SizeSum(headers, blocks) \in Nat
<1> DEFINE F == {part \in SUBSET blocks : SizeSum(headers, part) \in Nat}
<1>1. ASSUME NEW part \in SUBSET blocks, \A U \in SUBSET part : U # part => U \in F
      PROVE  part \in F
  <2>0. IsFiniteSet(part) /\ SizesAreIntegers(headers, part)
    BY FS_Subset DEF SizesAreIntegers
  <2>1. CASE part = {}
    BY <2>0, <2>1, SizeSumTakeOut
  <2>2. CASE part # {}
    <3>1. PICK x \in part : TRUE
      BY <2>2
    <3>2. part \ {x} \in F
      BY <1>1, <3>1
    <3>3. SizeSum(headers, part) = headers[x].size + SizeSum(headers, part \ {x})
      BY <2>0, SizeSumTakeOut
    <3>4. SizeSum(headers, part) \in Nat
      BY <3>2, <3>3
    <3> QED BY <3>4
  <2> QED BY <2>1, <2>2
<1>2. SUBSET blocks \subseteq F
  <2> HIDE DEF F
  <2> QED BY <1>1, PartInduction
<1>3. blocks \in F
  BY <1>2
<1> QED BY <1>3

-----------------------------------------------------------------------------
(* The byte counter. *)

(* The counter is the sum of the sizes of the blocks that have owners.     *)
CounterExact == total_allocated = SizeSum(block, DOMAIN live)

(* The list is finite, for it lies inside the heap.                        *)
LEMMA ListFinite ==
    HeapInv => /\ IsFiniteSet(list) /\ IsFiniteSet(DOMAIN live)
               /\ DOMAIN live \subseteq list
               /\ \A part \in SUBSET list : IsFiniteSet(part) /\ SizesAreIntegers(block, part)
<1> SUFFICES ASSUME HeapInv
             PROVE  /\ IsFiniteSet(list) /\ IsFiniteSet(DOMAIN live)
                    /\ DOMAIN live \subseteq list
                    /\ \A part \in SUBSET list :
                          IsFiniteSet(part) /\ SizesAreIntegers(block, part)
  OBVIOUS
<1>1. IsFiniteSet(HEAP_START .. HEAP_END)
  BY FS_Interval, Sizes
<1>2. list \subseteq HEAP_START .. HEAP_END /\ DOMAIN live \subseteq list
  BY DEF HeapInv, HeadersTyped
<1>3. \A part \in SUBSET list : IsFiniteSet(part)
  BY <1>1, <1>2, FS_Subset
<1>4. \A b \in list : block[b].size \in Int
  BY OneBlock
<1> QED BY <1>2, <1>3, <1>4 DEF SizesAreIntegers

(* A block that gets an owner is counted with the size it has then, and no *)
(* other block's size changes.                                             *)
LEMMA CounterAllocate ==
    ASSUME HeapInv, CounterExact, NEW size \in Requests, NEW b \in list, Allocate(b, size)
    PROVE  CounterExact'
<1>1. /\ HeapInv' /\ b \notin DOMAIN live
      /\ \A c \in list : c # b => block'[c] = block[c]
  BY SplitStep, TakeWholeStep
<1>2. /\ total_allocated' = total_allocated + block'[b].size
      /\ DOMAIN live' = DOMAIN live \union {b}
  BY DEF Allocate
<1>3. /\ IsFiniteSet(DOMAIN live) /\ SizesAreIntegers(block, DOMAIN live)
      /\ DOMAIN live \subseteq list
  BY ListFinite
<1>4. IsFiniteSet(DOMAIN live') /\ SizesAreIntegers(block', DOMAIN live')
  <2>1. IsFiniteSet(DOMAIN live')
    BY <1>2, <1>3, FS_AddElement
  <2>2. \A c \in DOMAIN live' : block'[c].size \in Nat
    BY <1>1 DEF HeapInv, HeadersTyped, BlockHeader
  <2> QED BY <2>1, <2>2 DEF SizesAreIntegers
<1>5. SizeSum(block', DOMAIN live) = SizeSum(block, DOMAIN live)
  <2>1. \A c \in DOMAIN live : block'[c].size = block[c].size
    BY <1>1, <1>3
  <2> QED BY <1>3, <2>1, SizeSumAgree
<1>6. SizeSum(block', DOMAIN live') = block'[b].size + SizeSum(block', DOMAIN live)
  <2>1. DOMAIN live' \ {b} = DOMAIN live /\ b \in DOMAIN live'
    BY <1>1, <1>2
  <2> QED BY <1>4, <2>1, SizeSumTakeOut
<1>7. SizeSum(block, DOMAIN live) \in Int /\ block'[b].size \in Int
  BY <1>2, <1>3, <1>4, SizeSumTakeOut DEF SizesAreIntegers
<1>8. SizeSum(block', DOMAIN live') = SizeSum(block, DOMAIN live) + block'[b].size
  BY <1>5, <1>6, <1>7
<1> QED BY <1>2, <1>8 DEF CounterExact

(* A block that loses its owner is discounted with the size it was counted *)
(* with, although the merge changes its header.                            *)
LEMMA CounterFree ==
    ASSUME HeapInv, CounterExact, NEW b \in DOMAIN live,
           DOMAIN live' = DOMAIN live \ {b},
           \A c \in DOMAIN live' : block'[c] = block[c],
           total_allocated' = total_allocated - block[b].size
    PROVE  CounterExact'
<1> DEFINE rest == DOMAIN live \ {b}
<1>1. /\ IsFiniteSet(DOMAIN live) /\ SizesAreIntegers(block, DOMAIN live)
      /\ IsFiniteSet(rest) /\ SizesAreIntegers(block, rest) /\ block[b].size \in Int
  BY ListFinite, OneBlock DEF SizesAreIntegers
<1>2. SizeSum(block, DOMAIN live) = block[b].size + SizeSum(block, rest)
  BY <1>1, SizeSumTakeOut
<1>3. SizeSum(block', rest) = SizeSum(block, rest)
  <2>1. \A c \in rest : block'[c].size = block[c].size
    OBVIOUS
  <2> HIDE DEF rest
  <2> QED BY <1>1, <2>1, SizeSumAgree
<1>4. SizeSum(block, rest) \in Int
  <2> HIDE DEF rest
  <2> QED BY <1>1, SizeSumTakeOut
<1>5. SizeSum(block', DOMAIN live') = SizeSum(block, DOMAIN live) - block[b].size
  BY <1>1, <1>2, <1>3, <1>4
<1> QED BY <1>5 DEF CounterExact

(* The sum depends on nothing but the headers and the owners.              *)
LEMMA CounterUnchanged ==
    CounterExact /\ UNCHANGED <<block, live, total_allocated>> => CounterExact'
  BY DEF CounterExact

(* Every step keeps the counter exact.                                     *)
LEMMA NextPreservesCounter ==
    HeapInv /\ CounterExact /\ [KmallocNext]_kmallocVars => CounterExact'
<1> SUFFICES ASSUME HeapInv, CounterExact, [KmallocNext]_kmallocVars PROVE CounterExact'
  OBVIOUS
<1>1. ASSUME NEW size \in Requests, kmalloc(size) PROVE CounterExact'
  <2>1. CASE \E b \in list : Allocate(b, size)
    BY <2>1, CounterAllocate
  <2>2. CASE UNCHANGED <<heapVars, live, freed>>
    BY <2>2, CounterUnchanged DEF heapVars
  <2> QED BY <1>1, <2>1, <2>2 DEF kmalloc
<1>2. ASSUME NEW ptr \in FreeArguments, kfree(ptr) PROVE CounterExact'
  <2>1. \/ UNCHANGED <<block, list, live, result>> /\ UNCHANGED total_allocated
        \/ \E b \in DOMAIN live :
              /\ live' = [c \in DOMAIN live \ {b} |-> live[c]]
              /\ \A c \in DOMAIN live' : block'[c] = block[c]
              /\ total_allocated' = total_allocated - block[b].size
              /\ UNCHANGED result
    BY <1>2, KfreeStep
  <2>2. ASSUME NEW b \in DOMAIN live, live' = [c \in DOMAIN live \ {b} |-> live[c]],
               \A c \in DOMAIN live' : block'[c] = block[c],
               total_allocated' = total_allocated - block[b].size
        PROVE  CounterExact'
    <3>1. DOMAIN live' = DOMAIN live \ {b}
      BY <2>2
    <3> QED BY <2>2, <3>1, CounterFree
  <2>3. CASE UNCHANGED <<block, list, live, result>> /\ UNCHANGED total_allocated
    BY <2>3, CounterUnchanged
  <2> QED BY <2>1, <2>2, <2>3
<1>3. CASE UNCHANGED kmallocVars
  BY <1>3, CounterUnchanged DEF kmallocVars
<1> QED BY <1>1, <1>2, <1>3 DEF KmallocNext

(* Nothing is allocated at first.                                          *)
LEMMA InitEstablishesCounter == KmallocInit => CounterExact
<1> SUFFICES ASSUME KmallocInit PROVE CounterExact
  OBVIOUS
<1>1. DOMAIN live = {} /\ total_allocated = 0
  BY DEF KmallocInit
<1>2. IsFiniteSet({}) /\ SizesAreIntegers(block, {})
  BY FS_EmptySet DEF SizesAreIntegers
<1>3. SizeSum(block, {}) = 0
  BY <1>2, SizeSumTakeOut
<1> QED BY <1>1, <1>3 DEF CounterExact

(* An exact counter is never below zero.                                   *)
LEMMA CounterNat == HeapInv /\ CounterExact => total_allocated \in Nat
<1> SUFFICES ASSUME HeapInv, CounterExact PROVE total_allocated \in Nat
  OBVIOUS
<1>1. IsFiniteSet(DOMAIN live) /\ \A b \in DOMAIN live : block[b].size \in Nat
  BY ListFinite, OneBlock
<1> QED BY <1>1, SizeSumNat DEF CounterExact

-----------------------------------------------------------------------------
(* The walk. *)

(* Every header's link, also that of a header a merge has unlinked, is     *)
(* NULL or leads to a header further up.                                   *)
NextsForward ==
    \A b \in DOMAIN block :
        block[b].next # NULL => block[b].next \in DOMAIN block /\ b < block[b].next

(* A split links forward to the new header, a merge forward to the end of  *)
(* what it has taken in.                                                   *)
LEMMA NextPreservesNexts ==
    HeapInv /\ NextsForward /\ [KmallocNext]_kmallocVars => NextsForward'
<1> SUFFICES ASSUME HeapInv, NextsForward, [KmallocNext]_kmallocVars PROVE NextsForward'
  OBVIOUS
<1>1. ASSUME NEW size \in Requests, NEW b \in list, Allocate(b, size) PROVE NextsForward'
  <2>1. HeapInv'
    BY <1>1, SplitStep, TakeWholeStep
  <2>2. DOMAIN block' = list'
    BY <1>1 DEF Allocate, SplitAt, TakeWhole
  <2>3. \A c \in list' :
           /\ c \in Nat /\ block'[c].size \in Nat /\ EndOf(c)' = c + 24 + block'[c].size
           /\ block'[c].next # NULL => block'[c].next \in list' /\ block'[c].next = EndOf(c)'
    BY <2>1, Sizes DEF HeapInv, HeadersTyped, HeapTiled, BlockHeader, EndOf, BLOCK_HEADER_SIZE
  <2> QED BY <2>2, <2>3 DEF NextsForward
<1>2. ASSUME NEW b \in DOMAIN live, NEW start \in list, NEW end \in Nat,
             Coalesced(b, start, end)
      PROVE  NextsForward'
  <2>1. /\ DOMAIN block' = DOMAIN block
        /\ \A c \in DOMAIN block :
              \/ block'[c].next = block[c].next
              \/ c < end /\ block'[c].next = IF end = HEAP_END THEN NULL ELSE end
        /\ end # HEAP_END => end \in DOMAIN block
    BY <1>2 DEF Coalesced, HeapInv, HeadersTyped
  <2> QED BY <2>1 DEF NextsForward
<1>3. CASE UNCHANGED block
  BY <1>3 DEF NextsForward
<1>4. ASSUME NEW size \in Requests, kmalloc(size) PROVE NextsForward'
  BY <1>1, <1>3, <1>4 DEF kmalloc, heapVars
<1>5. ASSUME NEW ptr \in FreeArguments, kfree(ptr) PROVE NextsForward'
  BY <1>2, <1>3, <1>5, KfreeStep
<1> QED BY <1>3, <1>4, <1>5 DEF KmallocNext, kmallocVars

(* The first header is the last.                                           *)
LEMMA InitEstablishesNexts == KmallocInit => NextsForward
  BY DEF KmallocInit, NextsForward

(* What holds of a block when it holds of the block after it holds of the  *)
(* whole list.                                                             *)
LEMMA ListBackwards ==
    ASSUME HeapInv, NEW F,
           \A b \in list : (block[b].next # NULL => block[b].next \in F) => b \in F
    PROVE  list \subseteq F
<1> DEFINE G == {n \in Nat : \A b \in list : HEAP_END - b = n => b \in F}
<1>1. \A b \in list : /\ b \in Nat /\ HEAP_END - b \in Nat
                      /\ block[b].next # NULL => block[b].next \in list /\ b < block[b].next
  <2>1. \A b \in list : b \in Nat /\ EndOf(b) \in Nat /\ b < EndOf(b) /\ EndOf(b) <= HEAP_END
    BY OneBlock DEF HeapInv, HeapTiled
  <2> QED BY <2>1, OneBlock, Sizes
<1>2. ASSUME NEW n \in Nat, \A m \in Nat : m < n => m \in G PROVE n \in G
  <2> SUFFICES ASSUME NEW b \in list, HEAP_END - b = n PROVE b \in F
    OBVIOUS
  <2>1. ASSUME block[b].next # NULL PROVE block[b].next \in F
    <3>1. /\ block[b].next \in list /\ HEAP_END - block[b].next \in Nat
          /\ HEAP_END - block[b].next < n
      BY <1>1, <2>1, Sizes
    <3>2. HEAP_END - block[b].next \in G
      BY <1>2, <3>1
    <3> QED BY <3>1, <3>2
  <2> QED BY <2>1
<1>3. Nat \subseteq G
  <2> HIDE DEF G
  <2> QED BY <1>2, NumberInduction
<1> QED BY <1>1, <1>3

(* The blocks from b on. *)
Tail(b) == {c \in list : b <= c}

(* Behind b come the blocks from its successor on, or nothing.             *)
LEMMA TailOf ==
    ASSUME HeapInv, NEW b \in list
    PROVE  /\ b \in Tail(b)
           /\ block[b].next = NULL => EndOf(b) = HEAP_END /\ Tail(b) \ {b} = {}
           /\ block[b].next # NULL =>
                 /\ block[b].next \in list /\ block[b].next = EndOf(b)
                 /\ Tail(b) \ {b} = Tail(block[b].next)
<1>1. /\ b \in Nat /\ EndOf(b) \in Nat /\ b < EndOf(b)
      /\ \A c \in list : c \in Nat /\ c < EndOf(c) /\ EndOf(c) \in Nat /\ EndOf(c) <= HEAP_END
      /\ \A c \in list : b < c => EndOf(b) <= c
  BY OneBlock DEF HeapInv, HeapTiled
<1>2. b \in Tail(b) /\ Tail(b) \ {b} = {c \in list : EndOf(b) <= c}
  <2>1. b \in Tail(b)
    BY <1>1 DEF Tail
  <2>2. ASSUME NEW c \in list PROVE b <= c /\ c # b <=> EndOf(b) <= c
    BY <1>1
  <2> QED BY <2>1, <2>2 DEF Tail
<1>3. CASE block[b].next = NULL
  <2>1. EndOf(b) = HEAP_END
    BY <1>1, <1>3 DEF HeapInv, HeapTiled, NULL
  <2>2. \A c \in list : ~ (EndOf(b) <= c)
    BY <1>1, <2>1, Sizes
  <2> QED BY <1>2, <1>3, <2>1, <2>2
<1>4. CASE block[b].next # NULL
  <2>1. block[b].next \in list /\ block[b].next = EndOf(b)
    BY <1>4, OneBlock
  <2> QED BY <1>2, <1>4, <2>1 DEF Tail
<1> QED BY <1>3, <1>4

(* The blocks from the start of the heap on are all.                       *)
LEMMA ListIsTail == HeapInv => HEAP_START \in list /\ list = Tail(HEAP_START)
  BY DEF HeapInv, HeapTiled, Tail

(* From b to the end of the heap there are headers and payloads, no byte   *)
(* is left over and none counted twice.                                    *)
LEMMA TailFilled ==
    ASSUME HeapInv
    PROVE  \A b \in list : SizeSum(block, Tail(b)) + 24 * Cardinality(Tail(b)) = HEAP_END - b
<1> DEFINE Filled(b) == SizeSum(block, Tail(b)) + 24 * Cardinality(Tail(b)) = HEAP_END - b
           F == {b \in list : Filled(b)}
<1>1. ASSUME NEW b \in list, block[b].next # NULL => block[b].next \in F
      PROVE  b \in F
  <2>1. /\ IsFiniteSet(Tail(b)) /\ SizesAreIntegers(block, Tail(b)) /\ b \in Tail(b)
        /\ IsFiniteSet(Tail(b) \ {b}) /\ SizesAreIntegers(block, Tail(b) \ {b})
    BY ListFinite, TailOf DEF Tail
  <2>2. SizeSum(block, Tail(b)) = block[b].size + SizeSum(block, Tail(b) \ {b})
    BY <2>1, SizeSumTakeOut
  <2>3. Cardinality(Tail(b) \ {b}) = Cardinality(Tail(b)) - 1
        /\ Cardinality(Tail(b)) \in Nat
    BY <2>1, FS_RemoveElement, FS_CardinalityType
  <2>4. SizeSum(block, Tail(b) \ {b}) \in Int
    BY <2>1, SizeSumTakeOut
  <2>5. EndOf(b) = b + 24 + block[b].size /\ b \in Nat /\ block[b].size \in Nat
    BY OneBlock
  <2>6. SizeSum(block, Tail(b) \ {b}) + 24 * Cardinality(Tail(b) \ {b}) = HEAP_END - EndOf(b)
    <3>1. CASE block[b].next = NULL
      <4>1. Tail(b) \ {b} = {} /\ EndOf(b) = HEAP_END
        BY <3>1, TailOf
      <4>2. SizeSum(block, Tail(b) \ {b}) = 0
        BY <2>1, <4>1, SizeSumTakeOut
      <4>3. Cardinality(Tail(b) \ {b}) = 0
        BY <4>1, FS_EmptySet
      <4> QED BY <4>1, <4>2, <4>3, Sizes
    <3>2. CASE block[b].next # NULL
      <4>1. Tail(b) \ {b} = Tail(block[b].next) /\ block[b].next = EndOf(b)
        BY <3>2, TailOf
      <4>2. Filled(block[b].next)
        BY <1>1, <3>2
      <4> QED BY <4>1, <4>2
    <3> QED BY <3>1, <3>2
  <2>7. Filled(b)
    <3> DEFINE all == SizeSum(block, Tail(b))
               more == SizeSum(block, Tail(b) \ {b})
               n == Cardinality(Tail(b))
               k == Cardinality(Tail(b) \ {b})
    <3>1. /\ all = block[b].size + more /\ k = n - 1 /\ n \in Nat /\ more \in Int
          /\ more + 24 * k = HEAP_END - EndOf(b)
      BY <2>2, <2>3, <2>4, <2>6
    <3> HIDE DEF all, more, n, k
    <3>2. all + 24 * n = HEAP_END - b
      BY <2>5, <3>1, Sizes
    <3> QED BY <3>2 DEF all, n
  <2> QED BY <2>7
<1>2. list \subseteq F
  <2> HIDE DEF F
  <2> QED BY <1>1, ListBackwards
<1> QED BY <1>2

(* A sum is the sum over the part with a mark and the part without. *)
LEMMA SizeSumSplit ==
    ASSUME NEW blocks, IsFiniteSet(blocks), NEW headers, SizesAreIntegers(headers, blocks),
           NEW marked
    PROVE  SizeSum(headers, blocks) =
              SizeSum(headers, blocks \intersect marked) + SizeSum(headers, blocks \ marked)
<1> DEFINE In(part) == SizeSum(headers, part \intersect marked)
           Out(part) == SizeSum(headers, part \ marked)
           F == {part \in SUBSET blocks : SizeSum(headers, part) = In(part) + Out(part)}
<1>1. \A part \in SUBSET blocks : IsFiniteSet(part) /\ SizesAreIntegers(headers, part)
  BY FS_Subset DEF SizesAreIntegers
<1>2. ASSUME NEW part \in SUBSET blocks, \A U \in SUBSET part : U # part => U \in F
      PROVE  SizeSum(headers, part) = In(part) + Out(part)
  <2>1. CASE part = {}
    <3>1. part \intersect marked = {} /\ part \ marked = {}
      BY <2>1
    <3>2. IsFiniteSet({}) /\ SizesAreIntegers(headers, {})
      BY <1>1
    <3>3. SizeSum(headers, {}) = 0
      BY <3>2, SizeSumTakeOut
    <3> QED BY <2>1, <3>1, <3>3
  <2>2. CASE part # {}
    <3>1. PICK x \in part : TRUE
      BY <2>2
    <3> DEFINE rest == part \ {x}
    <3>2. /\ part \in SUBSET blocks /\ part \intersect marked \in SUBSET blocks
          /\ part \ marked \in SUBSET blocks /\ rest \in SUBSET blocks
          /\ rest \intersect marked \in SUBSET blocks /\ rest \ marked \in SUBSET blocks
      OBVIOUS
    <3>3. SizeSum(headers, part) = headers[x].size + SizeSum(headers, rest)
      BY <1>1, SizeSumTakeOut
    <3>4. SizeSum(headers, rest) = In(rest) + Out(rest)
      BY <1>2, <3>1
    <3>5. In(rest) \in Int /\ Out(rest) \in Int /\ headers[x].size \in Int
      <4>1. headers[x].size \in Int
        BY <1>1 DEF SizesAreIntegers
      <4>2. In(rest) \in Int
        BY <1>1, <3>2, SizeSumTakeOut
      <4>3. Out(rest) \in Int
        BY <1>1, <3>2, SizeSumTakeOut
      <4> QED BY <4>1, <4>2, <4>3
    <3>6. ASSUME NEW q \in SUBSET blocks, NEW y \in q
          PROVE  SizeSum(headers, q) = headers[y].size + SizeSum(headers, q \ {y})
      <4>1. IsFiniteSet(q) /\ SizesAreIntegers(headers, q)
        BY <1>1
      <4> QED BY ONLY <4>1, y \in q, SizeSumTakeOut
    <3>7. CASE x \in marked
      <4>1. (part \intersect marked) \ {x} = rest \intersect marked /\ part \ marked = rest \ marked
            /\ x \in part \intersect marked
        BY <3>7
      <4>2. In(part) = headers[x].size + In(rest)
        <5>1. SizeSum(headers, part \intersect marked) =
                headers[x].size + SizeSum(headers, (part \intersect marked) \ {x})
          BY <3>2, <3>6, <4>1
        <5> QED BY <4>1, <5>1
      <4>3. Out(part) = Out(rest)
        BY <4>1
      <4> HIDE DEF In, Out, rest
      <4> QED BY <3>3, <3>4, <3>5, <4>2, <4>3
    <3>8. CASE x \notin marked
      <4>1. (part \ marked) \ {x} = rest \ marked /\ part \intersect marked = rest \intersect marked
            /\ x \in part \ marked
        BY <3>8
      <4>2. Out(part) = headers[x].size + Out(rest)
        <5>1. SizeSum(headers, part \ marked) =
                headers[x].size + SizeSum(headers, (part \ marked) \ {x})
          BY <3>2, <3>6, <4>1
        <5> QED BY <4>1, <5>1
      <4>3. In(part) = In(rest)
        BY <4>1
      <4> HIDE DEF In, Out, rest
      <4> QED BY <3>3, <3>4, <3>5, <4>2, <4>3
    <3> QED BY <3>7, <3>8
  <2> QED BY <2>1, <2>2
<1>3. SUBSET blocks \subseteq F
  <2> HIDE DEF F
  <2>1. \A part \in SUBSET blocks : (\A U \in SUBSET part : U # part => U \in F) => part \in F
    BY <1>2 DEF F
  <2> QED BY <2>1, PartInduction
<1>4. blocks \in F
  BY <1>3
<1> QED BY <1>4

(* The blocks with owners are the counter, the others are the free bytes.  *)
LEMMA EveryByte == HeapInv /\ CounterExact => BytesAccounted
<1> SUFFICES ASSUME HeapInv, CounterExact PROVE BytesAccounted
  OBVIOUS
<1>1. SizeSum(block, list) + 24 * Cardinality(list) = HEAP_SIZE
  BY TailFilled, ListIsTail, Sizes
<1>2. IsFiniteSet(list) /\ SizesAreIntegers(block, list)
  BY ListFinite
<1>3. SizeSum(block, list) = SizeSum(block, list \intersect DOMAIN live)
                             + SizeSum(block, list \ DOMAIN live)
  BY <1>2, SizeSumSplit
<1>4. /\ list \intersect DOMAIN live = DOMAIN live
      /\ list \ DOMAIN live = {b \in list : block[b].is_free}
  BY DEF HeapInv, HeadersTyped, OwnersAndMarks
<1>5. SizeSum(block, list) = total_allocated + kmalloc_get_free
  BY <1>3, <1>4 DEF CounterExact, kmalloc_get_free, SizeSum
<1> QED BY <1>1, <1>5 DEF BytesAccounted, kmalloc_get_used, BLOCK_HEADER_SIZE

(* The recursive definition of the walk has a solution: links only lead up.*)
LEMMA WalkSolved ==
    ASSUME HeapInv, NextsForward
    PROVE  /\ Walk[NULL] = {}
           /\ \A b \in DOMAIN block : Walk[b] = {b} \union Walk[block[b].next]
<1> DEFINE D == DOMAIN block \union {NULL}
           V == SUBSET D
           rank == [b \in D |-> IF b = NULL THEN 0 ELSE HEAP_END + 1 - b]
           down == [b \in D |-> IF b = NULL THEN NULL ELSE block[b].next]
           base == [b \in D |-> {}]
           step == [pair \in D \X V |-> {pair[1]} \union pair[2]]
<1>1. \A b \in DOMAIN block :
         /\ b \in Nat /\ b # NULL /\ HEAP_END + 1 - b \in Nat /\ HEAP_END + 1 - b # 0
         /\ block[b].next \in D
         /\ block[b].next # NULL => b < block[b].next /\ block[b].next \in Nat
                                    /\ block[b].next \in DOMAIN block
  BY Sizes DEF HeapInv, HeadersTyped, NextsForward, NULL
<1>2. rank \in [D -> Nat] /\ down \in [D -> D] /\ base \in [D -> V]
  BY <1>1
<1>3. step \in [D \X V -> V]
  OBVIOUS
<1>4. ASSUME NEW b \in D, rank[b] # 0 PROVE rank[down[b]] < rank[b]
  <2>1. b \in DOMAIN block /\ rank[b] = HEAP_END + 1 - b /\ down[b] = block[b].next
    BY <1>1, <1>4
  <2>2. CASE block[b].next = NULL
    BY <1>1, <2>1, <2>2
  <2>3. CASE block[b].next # NULL
    <3>1. rank[down[b]] = HEAP_END + 1 - block[b].next
      BY <1>1, <2>1, <2>3
    <3> QED BY <1>1, <2>1, <2>3, <3>1, Sizes
  <2> QED BY <2>2, <2>3
<1>5. PICK walk \in [D -> V] : \A b \in D :
          walk[b] = IF rank[b] = 0 THEN base[b] ELSE step[<<b, walk[down[b]]>>]
  <2> HIDE DEF D, V, rank, down, base, step
  <2>1. Descends(D, V, rank, down, base, step)
    BY <1>2, <1>3, <1>4 DEF Descends
  <2> QED BY ONLY <2>1, RecursionSolved, SMT
<1>6. ASSUME NEW b \in D
      PROVE  walk[b] = IF b = NULL THEN {} ELSE {b} \union walk[block[b].next]
  <2>1. CASE b = NULL
    BY <1>5, <2>1
  <2>2. CASE b # NULL
    <3>1. rank[b] # 0 /\ down[b] = block[b].next /\ walk[block[b].next] \in V
      BY <1>1, <2>2
    <3>2. walk[b] = step[<<b, walk[block[b].next]>>]
      BY <1>5, <3>1
    <3> QED BY <2>2, <3>1, <3>2
  <2> QED BY <2>1, <2>2
<1>7. walk = [b \in DOMAIN block \union {NULL} |->
                 IF b = NULL THEN {} ELSE {b} \union walk[block[b].next]]
  BY <1>6
<1>8. Walk = [b \in DOMAIN block \union {NULL} |->
                 IF b = NULL THEN {} ELSE {b} \union Walk[block[b].next]]
  BY <1>7 DEF Walk
<1> QED BY <1>1, <1>8

(* From every block of the list the walk meets the blocks from there on.   *)
LEMMA WalkMeetsList == HeapInv /\ NextsForward => ListIsWalk
<1> SUFFICES ASSUME HeapInv, NextsForward PROVE ListIsWalk
  OBVIOUS
<1> DEFINE F == {b \in list : Walk[b] = Tail(b)}
<1>1. ASSUME NEW b \in list, block[b].next # NULL => block[b].next \in F
      PROVE  b \in F
  <2>1. Walk[b] = {b} \union Walk[block[b].next] /\ Walk[NULL] = {}
    BY WalkSolved DEF HeapInv, HeadersTyped
  <2>2. Walk[block[b].next] = Tail(b) \ {b}
    BY <1>1, <2>1, TailOf
  <2>3. Walk[b] = Tail(b)
    BY <2>1, <2>2, TailOf
  <2> QED BY <2>3
<1>2. list \subseteq F
  <2> HIDE DEF F
  <2> QED BY <1>1, ListBackwards
<1> QED BY <1>2, ListIsTail DEF ListIsWalk

-----------------------------------------------------------------------------
(* The theorems. *)

(* Whatever is allocated and freed in whatever order, the blocks lie side  *)
(* by side from the start of the heap to its end.                          *)
THEOREM KmallocHeapTiled == KmallocSpec => []HeapTiled
  BY InitEstablishesHeapInv, NextPreservesHeapInv, PTL DEF KmallocSpec, HeapInv

(* kfree's two merges leave no two free neighbours.                        *)
THEOREM KmallocNoAdjacentFree == KmallocSpec => []NoAdjacentFree
  BY InitEstablishesHeapInv, NextPreservesHeapInv, PTL DEF KmallocSpec, HeapInv

(* A block is marked used while it has an owner and only then, and it is   *)
(* as large as its owner asked.                                            *)
THEOREM KmallocOwnersAndMarks == KmallocSpec => []OwnersAndMarks
  BY InitEstablishesHeapInv, NextPreservesHeapInv, PTL DEF KmallocSpec, HeapInv

(* The inductive invariant of the theorems: what the headers say, where    *)
(* their links lead, and what the counter holds.                           *)
LEMMA InductiveInvariant == KmallocSpec => [](HeapInv /\ NextsForward /\ CounterExact)
<1>1. KmallocInit => HeapInv /\ NextsForward /\ CounterExact
  BY InitEstablishesHeapInv, InitEstablishesNexts, InitEstablishesCounter
<1>2. HeapInv /\ NextsForward /\ CounterExact /\ [KmallocNext]_kmallocVars
      => (HeapInv /\ NextsForward /\ CounterExact)'
  BY NextPreservesHeapInv, NextPreservesNexts, NextPreservesCounter
<1> QED BY <1>1, <1>2, PTL DEF KmallocSpec

(* Every variable keeps its type, and the unsigned byte counter never goes *)
(* below zero: what a kfree subtracts was once added.                      *)
THEOREM KmallocTypes == KmallocSpec => []KmallocTypeOK
<1>1. HeapInv /\ NextsForward /\ CounterExact => KmallocTypeOK
  BY CounterNat DEF KmallocTypeOK, HeapInv
<1> QED BY <1>1, InductiveInvariant, PTL

(* The walk of kmalloc, kfree and kmalloc_get_free from the start of the   *)
(* heap ends and meets the blocks on the list and nothing else.            *)
THEOREM KmallocListIsWalk == KmallocSpec => []ListIsWalk
<1>1. HeapInv /\ NextsForward /\ CounterExact => ListIsWalk
  BY WalkMeetsList
<1> QED BY <1>1, InductiveInvariant, PTL

(* Used bytes, free bytes and headers add up to the heap: no sequence of   *)
(* splits, merges and repeated frees loses a byte or counts one twice.     *)
THEOREM KmallocBytesAccounted == KmallocSpec => []BytesAccounted
<1>1. HeapInv /\ NextsForward /\ CounterExact => BytesAccounted
  BY EveryByte
<1> QED BY <1>1, InductiveInvariant, PTL

(* Every behaviour of the headers is a behaviour of HeapUse: allocations   *)
(* never meet, whatever was split and merged to make room for them.        *)
THEOREM KmallocImplementsHeapUse == KmallocSpec => ImplementsHeapUse
<1> DEFINE Payload(b) == [start |-> b + BLOCK_HEADER_SIZE, end |-> EndOf(b)]
           Payloads == {Payload(b) : b \in {c \in list : ~ block[c].is_free}}
<1>1. HeapInv => Payloads = {Payload(b) : b \in DOMAIN live}
  BY DEF HeapInv, HeadersTyped, OwnersAndMarks
<1>2. KmallocInit => Use!HeapUseInit
  <2> SUFFICES ASSUME KmallocInit PROVE Use!HeapUseInit
    OBVIOUS
  <2>1. Payloads = {}
    BY DEF KmallocInit
  <2>2. result = NULL
    BY DEF KmallocInit
  <2> QED
    BY <2>1, <2>2 DEF Use!HeapUseInit
<1>3. HeapInv /\ [KmallocNext]_kmallocVars => [Use!HeapUseNext]_Use!heapUseVars
  <2> SUFFICES ASSUME HeapInv, [KmallocNext]_kmallocVars
               PROVE  [Use!HeapUseNext]_Use!heapUseVars
    OBVIOUS
  <2>1. HeapInv' /\ Payloads' = {Payload(b)' : b \in DOMAIN live'}
    <3>1. HeapInv'
      BY NextPreservesHeapInv
    <3> QED
      BY <3>1 DEF HeapInv, HeadersTyped, OwnersAndMarks
  <2>2. ASSUME NEW size \in Requests, size # 0, NEW b \in list, Allocate(b, size)
        PROVE  Use!Allocate(size)
    <3>1. /\ b \notin DOMAIN live /\ b \in Nat
          /\ \A c \in DOMAIN live : c \in list /\ block'[c] = block[c]
      <4>1. b \notin DOMAIN live /\ \A c \in list : c # b => block'[c] = block[c]
        BY <2>2, SplitStep, TakeWholeStep
      <4>2. b \in Nat /\ DOMAIN live \subseteq list
        BY <2>2, OneBlock DEF HeapInv, HeadersTyped, OwnersAndMarks
      <4> QED BY ONLY <4>1, <4>2
    <3>2. /\ DOMAIN live' = DOMAIN live \union {b} /\ live'[b] = size
          /\ result' = b + BLOCK_HEADER_SIZE
      BY <2>2 DEF Allocate
    <3>3. \A c \in DOMAIN live : Payload(c)' = Payload(c)
      BY <3>1 DEF EndOf
    <3>4. Payloads' = Payloads \union {Payload(b)'}
      BY <1>1, <2>1, <3>2, <3>3
    <3>5. /\ HEAP_START <= b /\ EndOf(b)' <= HEAP_END
          /\ EndOf(b)' = b + 24 + block'[b].size /\ block'[b].size \in Nat
          /\ Roundable(size) => size <= block'[b].size
          /\ \A c \in DOMAIN live : c \in Nat /\ (EndOf(c)' <= b \/ EndOf(b)' <= c)
                                  /\ c # b /\ EndOf(c)' \in Nat
      <4>1. b \in list' /\ DOMAIN live' \subseteq list'
        BY <2>1, <3>2 DEF HeapInv, HeadersTyped
      <4>2. \A c \in list' : c \in Nat /\ block'[c].size \in Nat
        BY <2>1, Sizes DEF HeapInv, HeadersTyped, BlockHeader
      <4>3. \A c \in list' : EndOf(c)' = c + 24 + block'[c].size
        BY DEF EndOf, BLOCK_HEADER_SIZE
      <4>4. \A c, d \in list' : c < d => EndOf(c)' <= d
        BY <2>1 DEF HeapInv, HeapTiled
      <4>5. HEAP_START <= b /\ EndOf(b)' <= HEAP_END
        BY <2>1, <4>1 DEF HeapInv, HeapTiled
      <4>6. Roundable(size) => size <= block'[b].size
        BY <2>1, <3>2 DEF HeapInv, OwnersAndMarks
      <4>7. ASSUME NEW c \in DOMAIN live
            PROVE  /\ c \in Nat /\ (EndOf(c)' <= b \/ EndOf(b)' <= c)
                   /\ c # b /\ EndOf(c)' \in Nat
        <5>1. c \in list' /\ c # b
          BY <3>1, <3>2, <4>1
        <5>2. c \in Nat /\ EndOf(c)' \in Nat
          BY <4>2, <4>3, <5>1
        <5>3. c < b \/ b < c
          BY <3>1, <5>1, <5>2
        <5> QED
          BY <4>1, <4>4, <5>1, <5>2, <5>3
      <4>8. EndOf(b)' = b + 24 + block'[b].size /\ block'[b].size \in Nat
        BY <4>1, <4>2, <4>3
      <4> QED
        BY <4>5, <4>6, <4>7, <4>8
    <3> DEFINE length == block'[b].size
               new == [start |-> result', end |-> result' + length]
    <3>6. /\ new = Payload(b)' /\ length \in 0 .. (HEAP_END - result')
          /\ result' \in HEAP_START .. HEAP_END
      <4>1. result' = b + 24
        BY <3>2 DEF BLOCK_HEADER_SIZE
      <4>2. result' + length = EndOf(b)' /\ length \in Nat
        BY <3>1, <3>5, <4>1
      <4>3. length \in 0 .. (HEAP_END - result') /\ result' \in HEAP_START .. HEAP_END
        BY <3>1, <3>5, <4>1, <4>2, Sizes
      <4> QED
        BY <3>2, <4>2, <4>3
    <3>7. \A other \in Payloads : Use!Apart(new, other) /\ new.start # other.start
      <4> SUFFICES ASSUME NEW c \in DOMAIN live
                   PROVE  Use!Apart(new, Payload(c)) /\ new.start # Payload(c).start
        BY <1>1
      <4>1. Payload(c) = [start |-> c + 24, end |-> EndOf(c)'] /\ new = [start |-> b + 24, end |-> EndOf(b)']
        BY <3>3, <3>6, <3>2, <3>5 DEF BLOCK_HEADER_SIZE
      <4>2. EndOf(c)' <= b + 24 \/ EndOf(b)' <= c + 24
        BY <3>1, <3>5
      <4>3. b + 24 # c + 24
        BY <3>1, <3>5
      <4> QED
        BY <4>1, <4>2, <4>3 DEF Use!Apart
    <3>8. (Roundable(size) => size <= length) /\ Payloads' = Payloads \union {new}
      BY <3>4, <3>5, <3>6
    <3> HIDE DEF Payloads, length
    <3> QED
      BY <3>6, <3>7, <3>8 DEF Use!Allocate, Payloads, Payload, new
  <2>3. ASSUME result' = NULL, UNCHANGED heapVars PROVE Use!Fail
    BY <2>3 DEF heapVars, Use!Fail, EndOf
  <2>4. ASSUME NEW ptr \in FreeArguments, kfree(ptr)
        PROVE  [Use!HeapUseNext]_Use!heapUseVars
    <3>1. CASE UNCHANGED <<block, list, live, result>>
      BY <3>1 DEF Use!heapUseVars, EndOf
    <3>2. ASSUME NEW b \in DOMAIN live,
                 live' = [c \in DOMAIN live \ {b} |-> live[c]],
                 \A c \in DOMAIN live' : block'[c] = block[c],
                 UNCHANGED result
          PROVE  Use!Free
      <4>1. DOMAIN live' = DOMAIN live \ {b}
        BY <3>2
      <4>2. \A c \in DOMAIN live' : Payload(c)' = Payload(c)
        BY <3>2 DEF EndOf
      <4>3. \A c \in DOMAIN live : c \in Nat
        BY OneBlock DEF HeapInv, HeadersTyped
      <4>4. \A c \in DOMAIN live' : Payload(c) # Payload(b)
        <5> SUFFICES ASSUME NEW c \in DOMAIN live' PROVE Payload(c).start # Payload(b).start
          OBVIOUS
        <5> QED
          BY <3>2, <4>1, <4>3 DEF BLOCK_HEADER_SIZE
      <4>5. Payloads = {Payload(c) : c \in DOMAIN live' \union {b}}
        <5>1. DOMAIN live = DOMAIN live' \union {b}
          BY <3>2, <4>1
        <5> QED
          BY <1>1, <5>1
      <4>6. Payloads' = {Payload(c) : c \in DOMAIN live'}
        BY <2>1, <4>2
      <4> HIDE DEF Payloads
      <4>7. Payloads' = Payloads \ {Payload(b)} /\ Payload(b) \in Payloads
        BY <4>4, <4>5, <4>6
      <4> QED
        BY <3>2, <4>7 DEF Use!Free, Payloads
    <3> QED
      BY <2>4, <3>1, <3>2, KfreeStep DEF Use!HeapUseNext
  <2>5. CASE UNCHANGED kmallocVars
    BY <2>5 DEF kmallocVars, Use!heapUseVars, EndOf
  <2>6. ASSUME NEW size \in Requests, kmalloc(size) PROVE Use!HeapUseNext
    <3>1. CASE size # 0 /\ \E b \in list : Allocate(b, size)
      BY <2>2, <3>1 DEF Use!HeapUseNext
    <3>2. CASE result' = NULL /\ UNCHANGED heapVars
      BY <2>3, <3>2 DEF Use!HeapUseNext
    <3> QED
      BY <2>6, <3>1, <3>2 DEF kmalloc
  <2> QED
    BY <2>4, <2>5, <2>6 DEF KmallocNext
<1> QED
  BY <1>2, <1>3, InitEstablishesHeapInv, NextPreservesHeapInv, PTL
     DEF KmallocSpec, ImplementsHeapUse, Use!HeapUseSpec
=============================================================================
