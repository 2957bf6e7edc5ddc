----------------------------- MODULE PmmProofs -----------------------------
(***************************************************************************)
(* For every size of memory that has the reserved pages: the types, the    *)
(* exact bitmap, the bounded drift of the counter, and that the bitmap     *)
(* implements PageAllocator.                                               *)
(***************************************************************************)
EXTENDS Pmm, FiniteSetTheorems, TLAPS

(* The sizes, as numbers. *)
LEMMA Layout ==
    /\ total_pages \in Nat
    /\ bitmap_size \in Nat
    /\ bitmap_pages \in Nat
    /\ reserved_low = 256
    /\ kernel_pages = 128
    /\ bitmap_start_page = 320
    /\ 384 <= total_pages
    /\ 320 + bitmap_pages <= total_pages
  BY PmmAssumption DEF PmmAssumption, total_pages, bitmap_size, bitmap_pages,
       reserved_low, kernel_pages, bitmap_start_page, PAGE_SIZE, PAGES_PER_BYTE

(* Every page has a bit of its own in the bitmap. *)
LEMMA PageHasBit ==
    \A page \in Pages :
        /\ page_to_byte(page) \in 0 .. (bitmap_size - 1)
        /\ page_to_bit(page) \in 0 .. (PAGES_PER_BYTE - 1)
        /\ page = page_to_byte(page) * PAGES_PER_BYTE + page_to_bit(page)
<1> USE Layout
<1> SUFFICES ASSUME NEW page \in Nat, page < total_pages
             PROVE  /\ page \div 8 \in 0 .. ((total_pages + 7) \div 8) - 1
                    /\ page % 8 \in 0 .. 7
                    /\ page = (page \div 8) * 8 + (page % 8)
  BY DEF Pages, page_to_byte, page_to_bit, bitmap_size, PAGES_PER_BYTE
<1> QED
  OBVIOUS

(* Setting a page's bit sets that bit and no other. *)
LEMMA SetAllocatedExact ==
    ASSUME PmmTypeOK, NEW page \in Pages
    PROVE  /\ set_page_allocated(page)
                \in [0 .. (bitmap_size - 1) -> SUBSET (0 .. (PAGES_PER_BYTE - 1))]
           /\ \A other \in Pages :
                page_to_bit(other) \in set_page_allocated(page)[page_to_byte(other)]
                  <=> other = page \/ is_page_allocated(other)
  BY PageHasBit DEF PmmTypeOK, set_page_allocated, is_page_allocated

(* Clearing a page's bit clears that bit and no other. *)
LEMMA SetFreeExact ==
    ASSUME PmmTypeOK, NEW page \in Pages
    PROVE  /\ set_page_free(page)
                \in [0 .. (bitmap_size - 1) -> SUBSET (0 .. (PAGES_PER_BYTE - 1))]
           /\ \A other \in Pages :
                page_to_bit(other) \in set_page_free(page)[page_to_byte(other)]
                  <=> other # page /\ is_page_allocated(other)
  BY PageHasBit DEF PmmTypeOK, set_page_free, is_page_allocated

-----------------------------------------------------------------------------
(* The inductive invariant.  The type of the counter needs the drift (a    *)
(* page is only given back while the counter is positive), and that in     *)
(* turn needs to know which page a call gives back.                        *)

\* The inductive invariant: the three facts carry each other.
PmmInv == PmmTypeOK /\ BitmapExact /\ CounterDrift

\* An interval of pages is finite and has as many pages as its size says.
LEMMA IntervalSize ==
    \A low \in Int, size \in Nat :
        /\ IsFiniteSet(low .. (low + size - 1))
        /\ Cardinality(low .. (low + size - 1)) = size
<1> SUFFICES ASSUME NEW low \in Int, NEW size \in Nat
             PROVE  /\ IsFiniteSet(low .. (low + size - 1))
                    /\ Cardinality(low .. (low + size - 1)) = size
  OBVIOUS
<1> DEFINE high == low + size - 1
<1>1. high \in Int /\ (IF low > high THEN 0 ELSE high - low + 1) = size
  OBVIOUS
<1> HIDE DEF high
<1>2. /\ IsFiniteSet(low .. high)
      /\ Cardinality(low .. high) = IF low > high THEN 0 ELSE high - low + 1
  BY <1>1, FS_Interval
<1> QED
  BY <1>1, <1>2 DEF high

\* The two ranges pmm_initialize reserves, and how often it counts a page twice.
LEMMA ReservedPages ==
    /\ Reserved \subseteq Pages
    /\ IsFiniteSet(Pages)
    /\ IsFiniteSet(Reserved)
    /\ CountedTwice \in Nat
    /\ Cardinality(Reserved) + CountedTwice
          = reserved_low + kernel_pages + bitmap_pages
<1> DEFINE Fixed == 0 .. (0 + 384 - 1)
           Bitmap == 320 .. (320 + bitmap_pages - 1)
<1>1. /\ IsFiniteSet(Fixed) /\ Cardinality(Fixed) = 384
      /\ IsFiniteSet(Bitmap) /\ Cardinality(Bitmap) = bitmap_pages
  <2> DEFINE fixed == 384
             bitmap == 320
  <2>1. 0 \in Int /\ bitmap \in Int /\ fixed \in Nat /\ bitmap_pages \in Nat
    BY Layout
  <2> HIDE DEF fixed, bitmap
  <2>2. /\ IsFiniteSet(0 .. (0 + fixed - 1))
        /\ Cardinality(0 .. (0 + fixed - 1)) = fixed
    BY ONLY <2>1, IntervalSize, Zenon
  <2>3. /\ IsFiniteSet(bitmap .. (bitmap + bitmap_pages - 1))
        /\ Cardinality(bitmap .. (bitmap + bitmap_pages - 1)) = bitmap_pages
    BY ONLY <2>1, IntervalSize, Zenon
  <2> QED
    BY <2>2, <2>3 DEF fixed, bitmap
<1>2. LowPages \union KernelPages = Fixed /\ BitmapPages = Bitmap
  BY Layout DEF LowPages, KernelPages, BitmapPages
<1>3. Reserved = Fixed \union Bitmap /\ CountedTwice = Cardinality(Fixed \intersect Bitmap)
  BY <1>2 DEF Reserved, CountedTwice
<1>4. IsFiniteSet(Fixed \intersect Bitmap)
  <2>1. IsFiniteSet(Fixed)
    BY <1>1
  <2> HIDE DEF Fixed, Bitmap
  <2> QED BY ONLY <2>1, FS_Intersection, Zenon
<1>5. CountedTwice \in Nat
  BY <1>3, <1>4, FS_CardinalityType
<1>6. /\ IsFiniteSet(Fixed \union Bitmap)
      /\ Cardinality(Fixed \union Bitmap) = 384 + bitmap_pages - CountedTwice
  <2> HIDE DEF Fixed, Bitmap
  <2>1. /\ IsFiniteSet(Fixed \union Bitmap)
        /\ Cardinality(Fixed \union Bitmap) = Cardinality(Fixed) + Cardinality(Bitmap)
              - Cardinality(Fixed \intersect Bitmap)
    BY <1>1, FS_Union
  <2> QED
    BY <1>1, <1>3, <2>1
<1>7. IsFiniteSet(Pages)
  BY FS_Interval, Layout DEF Pages
<1>8. Reserved \subseteq Pages
  BY <1>3, Layout DEF Pages
<1> QED
  BY <1>3, <1>5, <1>6, <1>7, <1>8, Layout

(* pmm_init's bitmap has exactly the reserved bits, and its counter is off *)
(* by the pages counted twice.                                             *)
LEMMA InitEstablishesInv == PmmInit => PmmInv
<1> SUFFICES ASSUME PmmInit PROVE PmmInv
  OBVIOUS
<1>1. \A page \in Pages : is_page_allocated(page) <=> page \in Reserved
  BY PageHasBit DEF PmmInit, is_page_allocated
<1>2. AllocatedPages = Reserved
  BY <1>1, ReservedPages DEF AllocatedPages
<1>3. 0 \in Pages /\ 0 = 0 * PAGE_SIZE
  BY Layout DEF Pages, PAGE_SIZE
<1>4. used_pages \in Nat
  BY Layout DEF PmmInit
<1>5. PmmTypeOK
  BY <1>3, <1>4 DEF PmmInit, PmmTypeOK
<1>6. BitmapExact
  BY <1>2 DEF PmmInit, BitmapExact
<1>7. CounterDrift
  BY <1>2, ReservedPages DEF PmmInit, CounterDrift
<1> QED
  BY <1>5, <1>6, <1>7 DEF PmmInv

(* The page a successful search finds was free, so the counter and the     *)
(* bitmap both grow by it, whoever the page is for.                        *)
LEMMA TakePageExact ==
    ASSUME PmmTypeOK, CounterDrift, NEW page \in Pages, TakePage(page)
    PROVE  /\ page \notin AllocatedPages
           /\ AllocatedPages' = AllocatedPages \union {page}
           /\ CounterDrift'
           /\ held' \subseteq Pages => PmmTypeOK'
<1>1. page \notin AllocatedPages
  BY DEF TakePage, IsFirstFree, AllocatedPages
<1>2. \A other \in Pages : is_page_allocated(other)'
          <=> other = page \/ is_page_allocated(other)
  BY SetAllocatedExact DEF TakePage, is_page_allocated
<1>3. AllocatedPages' = AllocatedPages \union {page}
  BY <1>2 DEF AllocatedPages
<1>4. Cardinality(AllocatedPages') = Cardinality(AllocatedPages) + 1
  <2>1. IsFiniteSet(AllocatedPages)
    BY ReservedPages, FS_Subset DEF AllocatedPages
  <2> QED
    BY <1>1, <1>3, <2>1, FS_AddElement
<1>5. ASSUME held' \subseteq Pages PROVE PmmTypeOK'
  BY <1>5, SetAllocatedExact DEF TakePage, PmmTypeOK
<1>6. CounterDrift'
  <2>1. Cardinality(AllocatedPages) \in Nat
    BY ReservedPages, FS_Subset, FS_CardinalityType DEF AllocatedPages
  <2> QED
    BY <1>4, <2>1, ReservedPages DEF CounterDrift, TakePage
<1> QED
  BY <1>1, <1>3, <1>5, <1>6

(* A page given back leaves both. *)
LEMMA GivePageExact ==
    ASSUME PmmTypeOK, CounterDrift, NEW page \in AllocatedPages,
           GivePage(page), held' \subseteq Pages, UNCHANGED returned
    PROVE  /\ AllocatedPages' = AllocatedPages \ {page}
           /\ CounterDrift'
           /\ PmmTypeOK'
<1>1. page \in Pages /\ page < total_pages /\ is_page_allocated(page)
  BY Layout DEF AllocatedPages, Pages
<1>2. page_bitmap' = set_page_free(page) /\ used_pages' = used_pages - 1
  BY <1>1 DEF GivePage
<1>3. \A other \in Pages : is_page_allocated(other)'
          <=> other # page /\ is_page_allocated(other)
  BY <1>1, <1>2, SetFreeExact DEF is_page_allocated
<1>4. AllocatedPages' = AllocatedPages \ {page}
  BY <1>3 DEF AllocatedPages
<1>5. Cardinality(AllocatedPages') = Cardinality(AllocatedPages) - 1
  <2>1. IsFiniteSet(AllocatedPages)
    BY ReservedPages, FS_Subset DEF AllocatedPages
  <2> QED
    BY <1>4, <2>1, FS_RemoveElement
<1>6. Cardinality(AllocatedPages) \in Nat /\ Cardinality(AllocatedPages') \in Nat
  BY ReservedPages, FS_Subset, FS_CardinalityType DEF AllocatedPages
<1>7. CounterDrift'
  BY <1>2, <1>5, <1>6, ReservedPages DEF CounterDrift
<1>8. PmmTypeOK'
  BY <1>1, <1>2, <1>6, <1>7, SetFreeExact, ReservedPages DEF PmmTypeOK, CounterDrift
<1> QED
  BY <1>4, <1>7, <1>8

(* pmm_alloc_page gives the page to its caller. *)
LEMMA TakePageStep ==
    ASSUME PmmInv, NEW page \in Pages, TakePage(page), held' = held \union {page}
    PROVE  /\ PmmInv'
           /\ page \notin AllocatedPages
           /\ AllocatedPages' = AllocatedPages \union {page}
<1>1. /\ page \notin AllocatedPages
      /\ AllocatedPages' = AllocatedPages \union {page}
      /\ CounterDrift' /\ PmmTypeOK'
  <2>1. held' \subseteq Pages
    BY DEF PmmInv, PmmTypeOK
  <2> QED
    BY <2>1, TakePageExact DEF PmmInv
<1>2. BitmapExact'
  BY <1>1 DEF PmmInv, BitmapExact
<1> QED
  BY <1>1, <1>2 DEF PmmInv

(* A search that finds nothing changes nothing but the answer. *)
LEMMA NoPageLeftStep ==
    ASSUME PmmInv, NoPageLeft, UNCHANGED held
    PROVE  /\ PmmInv'
           /\ AllocatedPages' = AllocatedPages
           /\ AllocatedPages = Pages
<1>1. AllocatedPages' = AllocatedPages /\ AllocatedPages = Pages
  BY DEF NoPageLeft, AllocatedPages, is_page_allocated
<1>2. 0 \in Pages /\ 0 = 0 * PAGE_SIZE
  BY Layout DEF Pages, PAGE_SIZE
<1>3. PmmTypeOK'
  BY <1>2 DEF PmmInv, PmmTypeOK, NoPageLeft
<1> QED
  BY <1>1, <1>3 DEF PmmInv, BitmapExact, CounterDrift, NoPageLeft

(* The page of an address a caller may free is either a page it holds or a *)
(* page that pmm_free_page ignores.                                        *)
LEMMA FreedPage ==
    ASSUME PmmInv, NEW addr \in FreeArguments
    PROVE  LET page == addr \div PAGE_SIZE
           IN  \/ page \in held
               \/ /\ page \notin held
                  /\ ~ (page < total_pages /\ is_page_allocated(page))
<1>1. \A page \in Pages : /\ (page * PAGE_SIZE) \div PAGE_SIZE = page
                         /\ (page * PAGE_SIZE + PAGE_SIZE - 1) \div PAGE_SIZE = page
  BY Layout DEF Pages, PAGE_SIZE
<1>2. (total_pages * PAGE_SIZE) \div PAGE_SIZE = total_pages
  BY Layout DEF PAGE_SIZE
<1>3. held \subseteq Pages
  BY DEF PmmInv, PmmTypeOK
<1>4. total_pages \notin held /\ ~ (total_pages < total_pages)
  BY <1>3, Layout DEF Pages
<1>5. CASE addr = total_pages * PAGE_SIZE
  BY <1>2, <1>4, <1>5
<1>6. CASE \E page \in held : addr = page * PAGE_SIZE \/ addr = page * PAGE_SIZE + PAGE_SIZE - 1
  BY <1>1, <1>3, <1>6
<1>7. CASE \E page \in Pages : ~ is_page_allocated(page) /\ addr = page * PAGE_SIZE
  BY <1>1, <1>7
<1> QED
  BY <1>5, <1>6, <1>7 DEF FreeArguments

(* Freeing a held page clears its bit, and it was not a reserved one; any  *)
(* other call of pmm_free_page changes nothing.                            *)
LEMMA FreePageStep ==
    ASSUME PmmInv, NEW addr \in FreeArguments, pmm_free_page(addr)
    PROVE  /\ PmmInv'
           /\ \/ UNCHANGED pmmVars
              \/ \E page \in AllocatedPages \ Reserved :
                    AllocatedPages' = AllocatedPages \ {page}
<1> DEFINE page == addr \div PAGE_SIZE
<1> USE DEF PmmInv
<1>1. CASE page \in held
  <2>1. page \in Pages /\ page \in AllocatedPages /\ page \notin Reserved
    BY <1>1 DEF PmmTypeOK, BitmapExact
  <2>2. GivePage(page) /\ held' = held \ {page} /\ UNCHANGED returned
    BY DEF pmm_free_page
  <2> HIDE DEF page
  <2>3. held' \subseteq Pages
    BY <2>2 DEF PmmTypeOK
  <2>4. AllocatedPages' = AllocatedPages \ {page} /\ CounterDrift' /\ PmmTypeOK'
    BY <2>1, <2>2, <2>3, GivePageExact
  <2>5. BitmapExact'
    BY <2>1, <2>2, <2>4 DEF BitmapExact
  <2> QED
    BY <2>1, <2>4, <2>5
<1>2. CASE page \notin held
  <2>1. UNCHANGED <<page_bitmap, used_pages, returned>>
    BY <1>2, FreedPage DEF pmm_free_page, GivePage
  <2>2. held' = held
    BY <1>2 DEF pmm_free_page
  <2> QED
    BY <2>1, <2>2 DEF PmmTypeOK, BitmapExact, CounterDrift, AllocatedPages,
         is_page_allocated, pmmVars
<1> QED
  BY <1>1, <1>2

\* Every step keeps the invariant.
LEMMA NextPreservesInv == PmmInv /\ [PmmNext]_pmmVars => PmmInv'
<1> SUFFICES ASSUME PmmInv, [PmmNext]_pmmVars PROVE PmmInv'
  OBVIOUS
<1>1. CASE pmm_alloc_page
  BY <1>1, TakePageStep, NoPageLeftStep DEF pmm_alloc_page
<1>2. ASSUME NEW addr \in FreeArguments, pmm_free_page(addr) PROVE PmmInv'
  BY <1>2, FreePageStep
<1>3. CASE UNCHANGED pmmVars
  BY <1>3 DEF pmmVars, PmmInv, PmmTypeOK, BitmapExact, CounterDrift,
       AllocatedPages, is_page_allocated
<1> QED
  BY <1>1, <1>2, <1>3 DEF PmmNext

-----------------------------------------------------------------------------
(* The theorems. *)

(* After any calls of pmm_alloc_page and pmm_free_page the bitmap, the     *)
(* counter, the callers' pages and the answer have their types.            *)
THEOREM PmmTypes == PmmSpec => []PmmTypeOK
  BY InitEstablishesInv, NextPreservesInv, PTL DEF PmmSpec, PmmInv

(* After any calls of pmm_alloc_page and pmm_free_page the set bits are    *)
(* the reserved and the held pages, which are disjoint.                    *)
THEOREM PmmBitmapExact == PmmSpec => []BitmapExact
  BY InitEstablishesInv, NextPreservesInv, PTL DEF PmmSpec, PmmInv

(* used_pages stays as far above the number of set bits as pmm_init's      *)
(* double count left it.                                                   *)
THEOREM PmmCounterDrift == PmmSpec => []CounterDrift
  BY InitEstablishesInv, NextPreservesInv, PTL DEF PmmSpec, PmmInv

(* Every behaviour of the bitmap is a behaviour of PageAllocator.          *)
THEOREM PmmImplementsPageAllocator == PmmSpec => ImplementsPageAllocator
<1>1. PmmInit => Allocator!AllocatorInit
  <2> SUFFICES ASSUME PmmInit PROVE Allocator!AllocatorInit
    OBVIOUS
  <2>1. AllocatedPages \ Reserved = {}
    BY InitEstablishesInv DEF PmmInv, PmmInit, BitmapExact
  <2> QED
    BY <2>1 DEF PmmInit, Allocator!AllocatorInit, PAGE_SIZE
<1>2. PmmInv /\ [PmmNext]_pmmVars => [Allocator!AllocatorNext]_Allocator!allocatorVars
  <2> SUFFICES ASSUME PmmInv, [PmmNext]_pmmVars
               PROVE  [Allocator!AllocatorNext]_Allocator!allocatorVars
    OBVIOUS
  <2>1. ASSUME NEW page \in Pages, TakePage(page), held' = held \union {page}
        PROVE  Allocator!Grant
    <3>1. /\ page \notin AllocatedPages
          /\ AllocatedPages' = AllocatedPages \union {page}
      BY <2>1, TakePageStep
    <3>2. page \notin Reserved
      BY <3>1 DEF PmmInv, BitmapExact
    <3>3. returned' \div PAGE_SIZE = page
      BY <2>1, Layout DEF TakePage, Pages, PAGE_SIZE
    <3> QED
      BY <3>1, <3>2, <3>3 DEF Allocator!Grant
  <2>2. ASSUME NoPageLeft, UNCHANGED held PROVE Allocator!Refuse
    <3>1. AllocatedPages' = AllocatedPages /\ AllocatedPages = Pages
      BY <2>2, NoPageLeftStep
    <3> QED
      BY <2>2, <3>1 DEF NoPageLeft, Allocator!Refuse, PAGE_SIZE
  <2>3. ASSUME NEW addr \in FreeArguments, pmm_free_page(addr)
        PROVE  Allocator!Release \/ UNCHANGED pmmVars
    <3>1. UNCHANGED returned
      BY <2>3 DEF pmm_free_page
    <3> QED
      BY <2>3, <3>1, FreePageStep DEF Allocator!Release
  <2>4. CASE UNCHANGED pmmVars
    BY <2>4 DEF pmmVars, Allocator!allocatorVars, AllocatedPages, is_page_allocated
  <2> QED
    BY <2>1, <2>2, <2>3, <2>4 DEF PmmNext, pmm_alloc_page, Allocator!AllocatorNext
<1> QED
  BY <1>1, <1>2, InitEstablishesInv, NextPreservesInv, PTL
     DEF PmmSpec, ImplementsPageAllocator, Allocator!AllocatorSpec
=============================================================================
