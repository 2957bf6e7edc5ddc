-------------------------------- MODULE Vmm --------------------------------
(***************************************************************************)
(* The virtual memory manager, kernel/memory/vmm.c, over the physical one: *)
(* four levels of page tables in frames taken from pmm_alloc_page, beneath *)
(* the PML4, PDPT and PD that the boot loader built.  The processor walks  *)
(* the same tables on its own, whenever it likes, and keeps what it finds  *)
(* in its TLB; so a call is one step per table it descends to, one for the *)
(* write of the last entry and one for invlpg.                             *)
(***************************************************************************)
EXTENDS Pmm

CONSTANTS
    Index,          \* the indices used of the 512 of a table
    VirtualPages,   \* <<PML4, PDPT, PD, PT index>> of the pages callers use
    DeviceMappings, \* the <<frame, flags>> callers map that pmm_alloc_page
                    \* never gives
    MemoryFlags     \* the flags they map the others with

PT_WRITABLE == "writable"
PT_USER == "user"

ASSUME VmmAssumption ==
    /\ 0 \in Index /\ Index \subseteq 0 .. 511
    /\ VirtualPages \subseteq Index \X Index \X Index \X Index
    /\ DeviceMappings \subseteq Nat \X SUBSET {PT_WRITABLE, PT_USER}
    /\ MemoryFlags \subseteq SUBSET {PT_WRITABLE, PT_USER}

NoFrame == -1
NoTranslation == [frame |-> NoFrame, rights |-> {}]
NoCall == [op |-> "none", virt |-> <<>>, phys |-> NoFrame, flags |-> {},
           level |-> 0, table |-> NoFrame]

VARIABLES
    memory,     \* frame -> the 512 entries it holds when read as a table
    tlb,        \* page -> the translation the processor has cached
    call,       \* the call under way, or NoCall
    answer      \* what the last call returned: TRUE unless it failed

vmmVars == <<pmmVars, memory, tlb, call, answer>>

-----------------------------------------------------------------------------
(* Entries and tables. *)

\* The PRESENT bit is a frame other than NoFrame; the PS bit is `large`.
Absent == [frame |-> NoFrame, flags |-> {}, large |-> FALSE]
Entry(frame, flags) == [frame |-> frame, flags |-> flags, large |-> FALSE]
IsPresent(entry) == entry.frame # NoFrame

\* What boot leaves (Stage2_X86.asm): PML4[0] leads to the PDPT, PDPT[0] to
\* the PD, and the PD maps the first GiB onto itself in pages of 2 MiB.
BootPml4 == 1
BootPdpt == 2
BootPd == 3
BootTables == {BootPml4, BootPdpt, BootPd}
PagesPerLarge == 512
LargeFrames == {i * PagesPerLarge : i \in Index}

\* Frames that hold no table hold anything: all zeros, or bytes that read as
\* entries which are present.
ZeroTable == [i \in Index |-> Absent]
Contents == {ZeroTable, [i \in Index |-> Entry(0, {PT_WRITABLE, PT_USER})]}

\* vmm_init takes the PML4 that CR3 holds.
pml4 == BootPml4

\* The frames whose contents matter.
TableFrames == BootTables \union LargeFrames \union (Pages \ Reserved)

\* The frames of kmalloc's heap.
HeapPages == 384 .. 511

\* PML4_INDEX at level 4 down to PT_INDEX at level 1.
TableIndex(virt, level) == virt[5 - level]

-----------------------------------------------------------------------------
(* What the processor's own walk finds.  It stops at a large entry of the  *)
(* PD, and grants what every level grants.                                 *)

HardwareWalk(virt) ==
    LET pml4e == memory[pml4][TableIndex(virt, 4)]
        pdpte == memory[pml4e.frame][TableIndex(virt, 3)]
        pde == memory[pdpte.frame][TableIndex(virt, 2)]
        pte == memory[pde.frame][TableIndex(virt, 1)]
        upper == pml4e.flags \intersect pdpte.flags \intersect pde.flags
    IN  IF ~ IsPresent(pml4e) \/ ~ IsPresent(pdpte) \/ ~ IsPresent(pde) THEN NoTranslation
        ELSE IF pde.large THEN [frame |-> pde.frame + TableIndex(virt, 1), rights |-> upper]
        ELSE IF ~ IsPresent(pte) THEN NoTranslation
        ELSE [frame |-> pte.frame, rights |-> upper \intersect pte.flags]

\* Faulty variant: the last entry's PRESENT bit is not tested.
GetPhysicalAnyLeaf(virt, offset) ==
    LET pml4e == memory[pml4][TableIndex(virt, 4)]
        pdpte == memory[pml4e.frame][TableIndex(virt, 3)]
        pde == memory[pdpte.frame][TableIndex(virt, 2)]
        pte == memory[pde.frame][TableIndex(virt, 1)]
    IN  IF IsPresent(pml4e) /\ IsPresent(pdpte) /\ IsPresent(pde)
        THEN (IF IsPresent(pte) THEN pte.frame * PAGE_SIZE ELSE 0) + offset ELSE 0
\* vmm_get_physical: the same walk without a look at the PS bit, and 0 where a
\* level is not present.
vmm_get_physical(virt, offset) ==
    LET pml4e == memory[pml4][TableIndex(virt, 4)]
        pdpte == memory[pml4e.frame][TableIndex(virt, 3)]
        pde == memory[pdpte.frame][TableIndex(virt, 2)]
        pte == memory[pde.frame][TableIndex(virt, 1)]
    IN  IF /\ IsPresent(pml4e) /\ IsPresent(pdpte)
           /\ IsPresent(pde) /\ IsPresent(pte)
        THEN pte.frame * PAGE_SIZE + offset ELSE 0

vmm_is_mapped(virt, offset) == vmm_get_physical(virt, offset) # 0

-----------------------------------------------------------------------------
(* The state after boot, pmm_init and vmm_init. *)

VmmInit ==
    /\ PmmInit
    /\ \E contents \in Contents :
          memory = [frame \in TableFrames |->
              CASE frame = BootPml4 -> [ZeroTable EXCEPT ![0] = Entry(BootPdpt, {PT_WRITABLE})]
                [] frame = BootPdpt -> [ZeroTable EXCEPT ![0] = Entry(BootPd, {PT_WRITABLE})]
                [] frame = BootPd ->
                     [i \in Index |-> [frame |-> i * PagesPerLarge, flags |-> {PT_WRITABLE},
                                       large |-> TRUE]]
                [] OTHER -> contents]
    /\ tlb = [virt \in VirtualPages |-> NoTranslation]
    /\ call = NoCall
    /\ answer = TRUE

-----------------------------------------------------------------------------
(* vmm_map_page and vmm_unmap_page. *)

Idle == call = NoCall

\* Faulty variant: the walk starts a level too high.
BeginAboveThePml4(op, virt, phys, flags) ==
    /\ Idle
    /\ call' = [op |-> op, virt |-> virt, phys |-> phys, flags |-> flags,
                level |-> 5, table |-> pml4]
    /\ UNCHANGED <<pmmVars, memory, tlb, answer>>
Begin(op, virt, phys, flags) ==
    /\ Idle
    /\ call' = [op |-> op, virt |-> virt, phys |-> phys, flags |-> flags,
                level |-> 4, table |-> pml4]
    /\ UNCHANGED <<pmmVars, memory, tlb, answer>>

\* Callers map device frames and frames they got from pmm_alloc_page.
vmm_map_page == \E virt \in VirtualPages :
    \E asked \in DeviceMappings \union (held \X MemoryFlags) :
        Begin("map", virt, asked[1], asked[2])

vmm_unmap_page == \E virt \in VirtualPages : Begin("unmap", virt, NoFrame, {})

Return(result) == call' = NoCall /\ answer' = result

CurrentEntry == memory[call.table][TableIndex(call.virt, call.level)]

\* An entry that is present is followed, whatever its PS bit says.
Descend ==
    /\ call.level > 1 /\ IsPresent(CurrentEntry)
    /\ call' = [call EXCEPT !.level = @ - 1, !.table = CurrentEntry.frame]
    /\ UNCHANGED <<pmmVars, memory, tlb, answer>>

\* Faulty variants: the new table is linked without being cleared, cleared and
\* not linked, or linked with the flags of the page.
LinkUncleared(page) ==
    memory' = [memory EXCEPT
        ![call.table][TableIndex(call.virt, call.level)] = Entry(page, {PT_WRITABLE})]
ClearUnlinked(page) == memory' = [memory EXCEPT ![page] = ZeroTable]
LinkWithItsFlags(page) ==
    memory' = [memory EXCEPT
        ![page] = ZeroTable,
        ![call.table][TableIndex(call.virt, call.level)] = Entry(page, call.flags)]
\* alloc_page_table clears the new table before get_or_create_table links it.
LinkNewTable(page) ==
    memory' = [memory EXCEPT
        ![page] = ZeroTable,
        ![call.table][TableIndex(call.virt, call.level)] = Entry(page, {PT_WRITABLE})]

\* get_or_create_table, where the entry is absent.
CreateTable ==
    /\ call.op = "map" /\ call.level > 1 /\ ~ IsPresent(CurrentEntry)
    /\ \E page \in Pages :
        /\ TakePage(page)
        /\ LinkNewTable(page)
        /\ call' = [call EXCEPT !.level = @ - 1, !.table = page]
    /\ UNCHANGED <<held, tlb, answer>>

\* vmm_map_page gives up; tables it has linked already stay.
MapFails ==
    /\ call.op = "map" /\ call.level > 1 /\ ~ IsPresent(CurrentEntry)
    /\ NoPageLeft
    /\ Return(FALSE)
    /\ UNCHANGED <<held, memory, tlb>>

\* vmm_unmap_page returns early where a level is absent.
NothingToUnmap ==
    /\ call.op = "unmap" /\ call.level > 1 /\ ~ IsPresent(CurrentEntry)
    /\ Return(TRUE)
    /\ UNCHANGED <<pmmVars, memory, tlb>>

\* Faulty variant: unmapping clears the entry of the PD.
WriteEntryOfPd ==
    /\ call.level = IF call.op = "map" THEN 1 ELSE 2
    /\ memory' = [memory EXCEPT
          ![call.table][TableIndex(call.virt, call.level)] = Entry(call.phys, call.flags)]
    /\ call' = [call EXCEPT !.level = 0]
    /\ UNCHANGED <<pmmVars, tlb, answer>>
WriteEntry ==
    /\ call.level = 1
    /\ memory' = [memory EXCEPT ![call.table][TableIndex(call.virt, 1)] = Entry(call.phys, call.flags)]
    /\ call' = [call EXCEPT !.level = 0]
    /\ UNCHANGED <<pmmVars, tlb, answer>>

\* Faulty variant: no invlpg.
ReturnWithoutInvlpg ==
    /\ ~ Idle /\ call.level = 0
    /\ Return(TRUE)
    /\ UNCHANGED <<pmmVars, memory, tlb>>
\* invlpg, then the return.
Invlpg ==
    /\ ~ Idle /\ call.level = 0
    /\ tlb' = [tlb EXCEPT ![call.virt] = NoTranslation]
    /\ Return(TRUE)
    /\ UNCHANGED <<pmmVars, memory>>

-----------------------------------------------------------------------------
(* The rest of the machine. *)

\* The processor may cache a translation at any time, between the steps of a
\* call too, and may drop one.
TlbFill == \E virt \in VirtualPages :
    /\ HardwareWalk(virt) # NoTranslation
    /\ tlb' = [tlb EXCEPT ![virt] = HardwareWalk(virt)]
    /\ UNCHANGED <<pmmVars, memory, call, answer>>

TlbEvict == \E virt \in VirtualPages :
    /\ tlb[virt] # NoTranslation
    /\ tlb' = [tlb EXCEPT ![virt] = NoTranslation]
    /\ UNCHANGED <<pmmVars, memory, call, answer>>

\* The other callers of the physical manager, between two calls.  A caller
\* unmaps a page before it frees its frame.
OthersAllocate ==
    /\ Idle
    /\ pmm_alloc_page
    /\ UNCHANGED <<memory, tlb, call, answer>>

OthersFree ==
    /\ Idle
    /\ \E page \in held :
        /\ \A virt \in VirtualPages : HardwareWalk(virt).frame # page
        /\ pmm_free_page(page * PAGE_SIZE)
    /\ UNCHANGED <<memory, tlb, call, answer>>

VmmNext ==
    \/ vmm_map_page \/ vmm_unmap_page
    \/ Descend \/ CreateTable \/ MapFails \/ NothingToUnmap
    \/ WriteEntry \/ Invlpg
    \/ TlbFill \/ TlbEvict
    \/ OthersAllocate \/ OthersFree

VmmSpec == VmmInit /\ [][VmmNext]_vmmVars

-----------------------------------------------------------------------------
(* Properties. *)

Rights == SUBSET {PT_WRITABLE, PT_USER}
Entries == [frame : {NoFrame} \union Nat, flags : Rights, large : BOOLEAN]
Translations == [frame : {NoFrame} \union Nat, rights : Rights]

\* Every variable has its type.
VmmTypeOK ==
    /\ PmmTypeOK
    /\ memory \in [TableFrames -> [Index -> Entries]]
    /\ tlb \in [VirtualPages -> Translations]
    /\ call.level \in 0 .. 4
    /\ answer \in BOOLEAN

\* A link is an entry of a table that leads to a table.
Links(table) == {i \in Index : IsPresent(memory[table][i]) /\ ~ memory[table][i].large}

\* The tables of one level, from the tables of the level above.
Below(above) == UNION {{memory[table][i].frame : i \in Links(table)} : table \in above}
Pdpts == Below({pml4})
Pds == Below(Pdpts)
Pts == Below(Pds)
LinkedTables == Pdpts \union Pds \union Pts

\* However the calls of the manager and of other users of the physical one
\* interleave, the tables form a tree and are its own: no frame is a table
\* twice, and none is also a page some caller holds.
TablesFormTree ==
    LET links(above) == {<<table, i>> : table \in above, i \in Index}
    IN  /\ \A above \in {{pml4}, Pdpts, Pds} :
            \A one, other \in {l \in links(above) : l[2] \in Links(l[1])} :
                memory[one[1]][one[2]].frame = memory[other[1]][other[2]].frame
                    => one = other
        /\ Pdpts \intersect Pds = {} /\ Pdpts \intersect Pts = {} /\ Pds \intersect Pts = {}
        /\ LinkedTables \intersect held = {}

\* Every frame taken from the physical manager has a caller or can be reached
\* from the PML4, also after a map that ran out of frames half way.
NoFrameLost == AllocatedPages = Reserved \union held \union (LinkedTables \ BootTables)

\* The processor never acts on a translation that the tables no longer have,
\* except at the page whose entry is written and not yet flushed.
TlbCoherent ==
    \A virt \in VirtualPages :
        tlb[virt] \in {NoTranslation, HardwareWalk(virt)} \/ (call.virt = virt /\ call.level = 0)

\* invlpg flushes one page.  That is enough only because an entry that leads
\* to a table never changes once it is present.
LinksNeverChange ==
    [][\A above \in {{pml4}, Pdpts, Pds} : \A table \in above : \A i \in Links(table) :
            memory'[table][i] = memory[table][i]]_vmmVars


\* vmm.h:24: vmm_get_physical "returns the physical address, or 0 if not
\* mapped" -- the address the processor uses.
\* And vmm.h:27: vmm_is_mapped "returns true if the virtual address is mapped,
\* false otherwise", except that the one address mapped to address 0 is taken
\* for one that is not mapped; the others of its page are not.
PhysicalAsDocumented ==
    \A virt \in VirtualPages, offset \in {0, 1, PAGE_SIZE - 1} :
        LET frame == HardwareWalk(virt).frame
        IN  /\ vmm_get_physical(virt, offset) =
                  IF frame = NoFrame THEN 0 ELSE frame * PAGE_SIZE + offset
            /\ vmm_is_mapped(virt, offset) <=>
                  frame # NoFrame /\ frame * PAGE_SIZE + offset # 0

\* kernel.c:67, "Memory Subsystem Initialized Successfully": the three managers
\* stand side by side, so none of the physical and the virtual one's doings
\* reaches the heap, which kmalloc_init has set up at 0x180000.
HeapLeftAlone ==
    [][\A page \in HeapPages \intersect TableFrames : memory'[page] = memory[page]]_vmmVars

-----------------------------------------------------------------------------
(* The tables implement AddressSpace as the processor sees it. *)

\* What a call asks for.  Every table is linked with PT_WRITABLE alone, so a
\* page is never open to user mode, whatever vmm_map_page was told.
Target == IF call.op = "map" THEN [frame |-> call.phys, rights |-> call.flags \ {PT_USER}]
          ELSE NoTranslation

Space == INSTANCE AddressSpace WITH
    NoRequest <- [op |-> "none", virt |-> <<>>, target |-> NoTranslation],
    mapping <- [virt \in VirtualPages |-> HardwareWalk(virt)],
    request <- [op |-> call.op, virt |-> call.virt, target |-> Target],
    done <- ~ Idle /\ call.level = 0

\* A call changes the translation of its own page and no other, at one
\* instant, frame and rights together; one that reports failure has changed
\* none.
ImplementsAddressSpace == Space!SpaceSpec
=============================================================================
