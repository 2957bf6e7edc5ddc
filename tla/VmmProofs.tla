----------------------------- MODULE VmmProofs -----------------------------
(***************************************************************************)
(* For every size of memory, all indices and all pages outside the first   *)
(* GiB, which the boot loader's large pages map: the page tables form a    *)
(* tree of frames that nobody else holds, however far a call has come and  *)
(* whatever the other users of the physical manager do; the processor and  *)
(* vmm_get_physical agree on what it says; and all calls together          *)
(* implement AddressSpace.                                                 *)
(***************************************************************************)
EXTENDS Vmm, PmmProofs

\* The pages callers use are not under PDPT[0] of PML4[0].
AboveTheFirstGiB == \A virt \in VirtualPages : virt[1] # 0 \/ virt[2] # 0

-----------------------------------------------------------------------------
(* The inductive invariant, part by part. *)

\* A link at index i of a table to a frame.
LinkTo(table, i, frame) ==
    memory[table][i].frame = frame /\ frame # NoFrame /\ ~ memory[table][i].large

\* The tables that hold links, and the tables' frames.
Upper == {pml4} \union Pdpts \union Pds
\* The frames that can hold a table.
Frames == BootTables \union (Pages \ Reserved)

\* What boot left is there for ever.
BootInv ==
    /\ memory[BootPml4][0] = Entry(BootPdpt, {PT_WRITABLE})
    /\ memory[BootPdpt][0] = Entry(BootPd, {PT_WRITABLE})
    /\ \A i \in Index : IsPresent(memory[BootPd][i]) /\ memory[BootPd][i].large

\* No two links lead to the same frame and none to the PML4; every entry but
\* those of the boot loader's PD is absent or a link that grants writing.
TreeInv ==
    /\ memory \in [TableFrames -> [Index -> Entries]]
    /\ BootInv
    /\ LinkedTables \subseteq Frames \ {pml4}
    /\ \A one, other \in Upper : \A i, j \in Index : \A frame \in Frames :
          LinkTo(one, i, frame) /\ LinkTo(other, j, frame) => one = other /\ i = j
    /\ \A table \in Upper : \A i \in Index :
          table # BootPd /\ IsPresent(memory[table][i]) =>
              memory[table][i].flags = {PT_WRITABLE} /\ ~ memory[table][i].large

-----------------------------------------------------------------------------
(* Tables and their levels. *)

\* The three levels below the PML4, link by link.
Levels ==
    /\ \A frame : frame \in Pdpts <=> \E i \in Index : LinkTo(pml4, i, frame)
    /\ \A frame : frame \in Pds <=> \E table \in Pdpts : \E i \in Index : LinkTo(table, i, frame)
    /\ \A frame : frame \in Pts <=> \E table \in Pds : \E i \in Index : LinkTo(table, i, frame)

\* The tables of a level are those the entries of the level above link to.
LEMMA LevelsExact == Levels
<1>1. ASSUME NEW above, NEW frame
      PROVE  frame \in Below(above) <=>
                \E table \in above : \E i \in Index : LinkTo(table, i, frame)
  BY DEF Below, Links, LinkTo, IsPresent
<1>2. \A frame : frame \in Pds <=> \E table \in Pdpts : \E i \in Index : LinkTo(table, i, frame)
  BY <1>1 DEF Pds
<1>3. \A frame : frame \in Pts <=> \E table \in Pds : \E i \in Index : LinkTo(table, i, frame)
  BY <1>1 DEF Pts
<1>4. \A frame : frame \in Pdpts <=> \E i \in Index : LinkTo(pml4, i, frame)
  BY <1>1 DEF Pdpts
<1> QED BY <1>2, <1>3, <1>4 DEF Levels

\* The numbers that the frames and indices of tables are.
LEMMA TableNumbers ==
    /\ 0 \in Index /\ Index \subseteq Nat
    /\ Frames \subseteq TableFrames /\ TableFrames \subseteq Nat
    /\ NoFrame \notin Nat
    /\ pml4 = 1 /\ BootPml4 = 1 /\ BootPdpt = 2 /\ BootPd = 3
    /\ BootTables \subseteq Reserved /\ pml4 \in Frames
<1>1. 0 \in Index /\ Index \subseteq Nat
  BY VmmAssumption
<1>2. Pages \subseteq Nat
  BY Layout DEF Pages
<1>3. LargeFrames \subseteq Nat
  BY <1>1 DEF LargeFrames, PagesPerLarge
<1>4. BootTables = {1, 2, 3}
  BY DEF BootTables, BootPml4, BootPdpt, BootPd
<1>5. BootTables \subseteq Reserved
  BY <1>4, Layout DEF Reserved, LowPages
<1> QED BY <1>1, <1>2, <1>3, <1>4, <1>5
        DEF Frames, TableFrames, NoFrame, pml4, BootPml4, BootPdpt, BootPd

\* No table is on two levels, and boot's own are where boot put them.
LevelsApart ==
    /\ Pts \intersect Upper = {} /\ Pdpts \intersect Pds = {} /\ pml4 \notin LinkedTables
    /\ BootPdpt \in Pdpts /\ BootPd \in Pds
    /\ Upper \subseteq Frames /\ LinkedTables \subseteq Frames

\* No table stands on two levels of the tree.
LEMMA TreeLevelsApart == TreeInv => LevelsApart
<1> SUFFICES ASSUME TreeInv PROVE LevelsApart
  OBVIOUS
<1>1. Levels
  BY LevelsExact
<1>2. pml4 \notin LinkedTables /\ LinkedTables \subseteq Frames /\ Upper \subseteq Frames
  BY TableNumbers DEF TreeInv, Upper, LinkedTables
<1>3. Pdpts \subseteq Upper /\ Pds \subseteq Upper /\ pml4 \in Upper
  BY DEF Upper
<1>4. Pdpts \subseteq LinkedTables /\ Pds \subseteq LinkedTables /\ Pts \subseteq LinkedTables
  BY DEF LinkedTables
<1>5. \A one, other \in Upper : \A i, j \in Index : \A frame \in Frames :
          LinkTo(one, i, frame) /\ LinkTo(other, j, frame) => one = other /\ i = j
  BY DEF TreeInv
<1>6. Pdpts \intersect Pds = {}
  <2> SUFFICES ASSUME NEW frame \in Pdpts, frame \in Pds PROVE FALSE
    OBVIOUS
  <2>1. PICK i \in Index : LinkTo(pml4, i, frame)
    BY <1>1 DEF Levels
  <2>2. PICK other \in Pdpts, j \in Index : LinkTo(other, j, frame)
    BY <1>1 DEF Levels
  <2>3. frame \in Frames
    BY <1>2, <1>4
  <2>4. pml4 = other
    BY <1>3, <1>5, <2>1, <2>2, <2>3
  <2> QED BY <1>2, <1>4, <2>4
<1>7. Pdpts \intersect Pts = {}
  <2> SUFFICES ASSUME NEW frame \in Pdpts, frame \in Pts PROVE FALSE
    OBVIOUS
  <2>1. PICK i \in Index : LinkTo(pml4, i, frame)
    BY <1>1 DEF Levels
  <2>2. PICK other \in Pds, j \in Index : LinkTo(other, j, frame)
    BY <1>1 DEF Levels
  <2>3. frame \in Frames
    BY <1>2, <1>4
  <2>4. pml4 = other
    BY <1>3, <1>5, <2>1, <2>2, <2>3
  <2> QED BY <1>2, <1>4, <2>4
<1>8. Pds \intersect Pts = {}
  <2> SUFFICES ASSUME NEW frame \in Pds, frame \in Pts PROVE FALSE
    OBVIOUS
  <2>1. PICK one \in Pdpts, i \in Index : LinkTo(one, i, frame)
    BY <1>1 DEF Levels
  <2>2. PICK other \in Pds, j \in Index : LinkTo(other, j, frame)
    BY <1>1 DEF Levels
  <2>3. frame \in Frames
    BY <1>2, <1>4
  <2>4. one = other
    BY <1>3, <1>5, <2>1, <2>2, <2>3
  <2> QED BY <1>6, <2>4
<1>9. BootPdpt \in Pdpts
  BY <1>1, TableNumbers DEF Levels, TreeInv, BootInv, LinkTo, Entry, NoFrame
<1>10. BootPd \in Pds
  BY <1>1, <1>9, TableNumbers DEF Levels, TreeInv, BootInv, LinkTo, Entry, NoFrame
<1> QED BY <1>2, <1>4, <1>6, <1>7, <1>8, <1>9, <1>10 DEF LevelsApart, Upper

-----------------------------------------------------------------------------
(* The two steps that write memory. *)

\* A cleared frame that was no table is linked where there was no entry.
LinkPage(table, i, page) ==
    /\ ~ IsPresent(memory[table][i])
    /\ page \in Pages \ Reserved /\ page \notin LinkedTables
    /\ memory' = [memory EXCEPT ![page] = ZeroTable,
                                ![table][i] = Entry(page, {PT_WRITABLE})]

\* A page just taken, cleared and linked into an empty entry joins the tree one
\* level down, and nowhere else.
LEMMA LinkKeepsTree ==
    ASSUME TreeInv, NEW table \in Upper, NEW i \in Index, NEW page, LinkPage(table, i, page)
    PROVE  /\ TreeInv'
           /\ LinkedTables' = LinkedTables \union {page}
           /\ Pdpts' = Pdpts \union (IF table = pml4 THEN {page} ELSE {})
           /\ Pds' = Pds \union (IF table \in Pdpts THEN {page} ELSE {})
           /\ Pts' = Pts \union (IF table \in Pds THEN {page} ELSE {})
           /\ \A other \in Frames \ {page} : \A j \in Index :
                 other # table \/ j # i => memory'[other][j] = memory[other][j]
           /\ \A j \in Index : memory'[page][j] = Absent
           /\ memory'[table][i] = Entry(page, {PT_WRITABLE})
<1>0. ~ IsPresent(memory[table][i]) /\ page \in Pages \ Reserved /\ page \notin LinkedTables
  BY DEF LinkPage
<1> USE <1>0
<1>1. LevelsApart /\ Levels
  BY TreeLevelsApart, LevelsExact
<1>2. Levels'
  BY LevelsExact, PTL
<1>3. /\ table \in Frames /\ page \in Frames /\ page \in Nat /\ page # NoFrame
      /\ page \notin BootTables /\ page \notin Upper /\ page # table
  BY <1>1, TableNumbers DEF LevelsApart, Frames, Upper, LinkedTables, pml4, BootTables
<1>4. memory \in [TableFrames -> [Index -> Entries]]
  BY DEF TreeInv
<1>5. ZeroTable \in [Index -> Entries] /\ Entry(page, {PT_WRITABLE}) \in Entries
  BY <1>3 DEF ZeroTable, Absent, Entry, Entries, Rights
<1>6. /\ \A other \in TableFrames : other # page /\ other # table => memory'[other] = memory[other]
      /\ memory'[page] = ZeroTable
      /\ \A j \in Index : j # i => memory'[table][j] = memory[table][j]
      /\ memory'[table][i] = Entry(page, {PT_WRITABLE})
      /\ memory' \in [TableFrames -> [Index -> Entries]]
  BY <1>3, <1>4, <1>5, TableNumbers DEF LinkPage
<1>7. \A other \in Frames : \A j \in Index :
         other # page /\ (other # table \/ j # i) => memory'[other][j] = memory[other][j]
  BY <1>6, TableNumbers
<1>8. \A j \in Index : memory'[page][j] = Absent
  BY <1>6 DEF ZeroTable
<1>9. ASSUME NEW other \in Upper, NEW j \in Index, NEW frame
      PROVE  LinkTo(other, j, frame)' <=>
                LinkTo(other, j, frame) \/ (other = table /\ j = i /\ frame = page)
  <2>1. other \in Frames /\ other # page
    BY <1>1, <1>3 DEF LevelsApart
  <2>2. CASE other = table /\ j = i
    <3>1. memory[table][i].frame = NoFrame
      BY DEF IsPresent
    <3>2. memory'[table][i].frame = page /\ memory'[table][i].large = FALSE
      BY <1>6 DEF Entry
    <3> QED BY <1>3, <2>2, <3>1, <3>2 DEF LinkTo
  <2>3. CASE other # table \/ j # i
    BY <1>7, <2>1, <2>3 DEF LinkTo
  <2> QED BY <2>2, <2>3
<1>10. ASSUME NEW j \in Index, NEW frame PROVE ~ LinkTo(page, j, frame)'
  <2>1. Absent.frame = NoFrame
    BY DEF Absent
  <2>2. memory'[page][j].frame = NoFrame
    BY <1>8, <2>1
  <2> QED BY <2>2 DEF LinkTo
<1>11. Pdpts \subseteq Upper /\ Pds \subseteq Upper /\ pml4 \in Upper
  BY DEF Upper
<1>12. Pdpts' = Pdpts \union (IF table = pml4 THEN {page} ELSE {})
  <2>1. ASSUME NEW frame PROVE frame \in Pdpts' <=> frame \in Pdpts \/ (table = pml4 /\ frame = page)
    BY <1>1, <1>2, <1>9, <1>11 DEF Levels
  <2> QED BY <2>1
<1>13. Pds' = Pds \union (IF table \in Pdpts THEN {page} ELSE {})
  <2>1. ASSUME NEW frame PROVE frame \in Pds' <=> frame \in Pds \/ (table \in Pdpts /\ frame = page)
    BY <1>1, <1>2, <1>9, <1>10, <1>11, <1>12 DEF Levels
  <2> QED BY <2>1
<1>14. Pts' = Pts \union (IF table \in Pds THEN {page} ELSE {})
  <2>1. ASSUME NEW frame PROVE frame \in Pts' <=> frame \in Pts \/ (table \in Pds /\ frame = page)
    BY <1>1, <1>2, <1>9, <1>10, <1>11, <1>13 DEF Levels
  <2> QED BY <2>1
<1>15. LinkedTables' = LinkedTables \union {page}
  BY <1>12, <1>13, <1>14 DEF LinkedTables, Upper
<1>16. Upper' \subseteq Upper \union {page}
  BY <1>12, <1>13 DEF Upper, pml4
<1>17. TreeInv'
  <2>1. BootInv'
    <3>1. BootPml4 \in Upper /\ BootPdpt \in Upper /\ BootPd \in Upper /\ Upper \subseteq Frames
      BY <1>1 DEF LevelsApart, Upper, pml4
    <3>2. IsPresent(memory[BootPml4][0]) /\ IsPresent(memory[BootPdpt][0])
      BY DEF TreeInv, BootInv, IsPresent, Entry, NoFrame, BootPdpt, BootPd
    <3>3. memory'[BootPml4][0] = memory[BootPml4][0] /\ memory'[BootPdpt][0] = memory[BootPdpt][0]
      BY <1>3, <1>7, <3>1, <3>2, TableNumbers
    <3>4. ASSUME NEW j \in Index PROVE (IsPresent(memory[BootPd][j]) /\ memory[BootPd][j].large)'
      <4>1. table = BootPd /\ j = i => FALSE
        BY DEF TreeInv, BootInv
      <4>2. memory'[BootPd][j] = memory[BootPd][j]
        BY <1>3, <1>7, <3>1, <4>1
      <4> QED BY <4>2 DEF TreeInv, BootInv, IsPresent
    <3> QED BY <3>3, <3>4 DEF TreeInv, BootInv
  <2>2. (LinkedTables \subseteq Frames \ {pml4})'
    BY <1>3, <1>11, <1>15 DEF TreeInv, Frames, pml4
  <2>3. ASSUME NEW one \in Upper', NEW other \in Upper', NEW j \in Index, NEW k \in Index,
               NEW frame \in Frames, LinkTo(one, j, frame)', LinkTo(other, k, frame)'
        PROVE  one = other /\ j = k
    <3>1. one \in Upper /\ other \in Upper
      BY <1>10, <1>16, <2>3
    <3>2. ~ \E t \in Upper, n \in Index : LinkTo(t, n, page)
      BY <1>1 DEF Levels, Upper, LinkedTables
    <3> QED BY <1>9, <2>3, <3>1, <3>2 DEF TreeInv
  <2>4. ASSUME NEW other \in Upper', NEW j \in Index, other # BootPd, IsPresent(memory[other][j])'
        PROVE  memory'[other][j].flags = {PT_WRITABLE} /\ ~ memory'[other][j].large
    <3>1. other \in Upper
      BY <1>8, <1>16, <2>4 DEF IsPresent, Absent
    <3>2. CASE other = table /\ j = i
      BY <1>6, <3>2 DEF Entry
    <3>3. CASE other # table \/ j # i
      <4>1. memory'[other][j] = memory[other][j]
        BY <1>1, <1>3, <1>7, <3>1, <3>3 DEF LevelsApart
      <4> QED BY <2>4, <3>1, <4>1 DEF TreeInv, IsPresent
    <3> QED BY <3>2, <3>3
  <2> QED BY <1>6, <2>1, <2>2, <2>3, <2>4 DEF TreeInv, Frames, TableFrames
<1> QED BY <1>6, <1>7, <1>8, <1>12, <1>13, <1>14, <1>15, <1>17

\* The write of a last entry changes no link.
WriteAt(table, i, entry) == memory' = [memory EXCEPT ![table][i] = entry]

\* An entry of a page table may change without the tree changing.
LEMMA LeafKeepsTree ==
    ASSUME TreeInv, NEW table \in Pts, NEW i \in Index, NEW entry \in Entries,
           WriteAt(table, i, entry)
    PROVE  /\ TreeInv'
           /\ Upper' = Upper /\ Pdpts' = Pdpts /\ Pds' = Pds /\ Pts' = Pts
           /\ \A other \in Frames : \A j \in Index :
                 other # table \/ j # i => memory'[other][j] = memory[other][j]
           /\ memory'[table][i] = entry
<1>1. LevelsApart /\ Levels
  BY TreeLevelsApart, LevelsExact
<1>2. Levels'
  BY LevelsExact, PTL
<1>3. table \in Frames /\ table \notin Upper /\ Upper \subseteq Frames
  BY <1>1 DEF LevelsApart, LinkedTables
<1>4. memory \in [TableFrames -> [Index -> Entries]]
  BY DEF TreeInv
<1>5. /\ \A other \in TableFrames : other # table => memory'[other] = memory[other]
      /\ \A j \in Index : j # i => memory'[table][j] = memory[table][j]
      /\ memory'[table][i] = entry
      /\ memory' \in [TableFrames -> [Index -> Entries]]
  BY <1>3, <1>4, TableNumbers DEF WriteAt
<1>6. \A other \in Upper : memory'[other] = memory[other]
  BY <1>3, <1>5, TableNumbers
<1>7. \A other \in Upper : \A j, frame : LinkTo(other, j, frame)' <=> LinkTo(other, j, frame)
  BY <1>6 DEF LinkTo
<1>8. Pdpts \subseteq Upper /\ Pds \subseteq Upper /\ pml4 \in Upper
  BY DEF Upper
<1>9. Pdpts' = Pdpts
  <2>1. ASSUME NEW frame PROVE frame \in Pdpts' <=> frame \in Pdpts
    BY <1>1, <1>2, <1>7, <1>8 DEF Levels
  <2> QED BY <2>1
<1>10. Pds' = Pds
  <2>1. ASSUME NEW frame PROVE frame \in Pds' <=> frame \in Pds
    BY <1>1, <1>2, <1>7, <1>8, <1>9 DEF Levels
  <2> QED BY <2>1
<1>11. Pts' = Pts
  <2>1. ASSUME NEW frame PROVE frame \in Pts' <=> frame \in Pts
    BY <1>1, <1>2, <1>7, <1>8, <1>10 DEF Levels
  <2> QED BY <2>1
<1>12. Upper' = Upper /\ LinkedTables' = LinkedTables
  BY <1>9, <1>10, <1>11 DEF Upper, LinkedTables, pml4
<1>13. BootInv'
  <2>1. BootPml4 \in Upper /\ BootPdpt \in Upper /\ BootPd \in Upper
    BY <1>1 DEF LevelsApart, Upper, pml4
  <2> QED BY <1>6, <2>1 DEF TreeInv, BootInv, IsPresent
<1>14. ASSUME NEW one \in Upper', NEW other \in Upper', NEW j \in Index, NEW k \in Index,
              NEW frame \in Frames, LinkTo(one, j, frame)', LinkTo(other, k, frame)'
       PROVE  one = other /\ j = k
  BY <1>7, <1>12, <1>14 DEF TreeInv
<1>15. ASSUME NEW other \in Upper', NEW j \in Index, other # BootPd, IsPresent(memory[other][j])'
       PROVE  memory'[other][j].flags = {PT_WRITABLE} /\ ~ memory'[other][j].large
  BY <1>6, <1>12, <1>15 DEF TreeInv, IsPresent
<1>16. (LinkedTables \subseteq Frames \ {pml4})'
  BY <1>12 DEF TreeInv, Frames, pml4
<1>17. TreeInv'
  BY <1>5, <1>13, <1>14, <1>15, <1>16 DEF TreeInv, Frames, TableFrames
<1> QED BY <1>5, <1>9, <1>10, <1>11, <1>12, <1>17, TableNumbers

-----------------------------------------------------------------------------
(* The way to a page. *)

\* A virtual page is its four indices.
LEMMA PageIndices ==
    \A virt \in VirtualPages :
        /\ virt[1] \in Index /\ virt[2] \in Index /\ virt[3] \in Index /\ virt[4] \in Index
        /\ virt = <<virt[1], virt[2], virt[3], virt[4]>>
        /\ virt # <<>>
BY VmmAssumption

\* The entries on it, as far as it goes.
Pml4e(virt) == memory[pml4][virt[1]]
Pdpte(virt) == memory[Pml4e(virt).frame][virt[2]]
Pde(virt) == memory[Pdpte(virt).frame][virt[3]]
Pte(virt) == memory[Pde(virt).frame][virt[4]]
HasPdpt(virt) == IsPresent(Pml4e(virt))
HasPd(virt) == HasPdpt(virt) /\ IsPresent(Pdpte(virt))
HasPt(virt) == HasPd(virt) /\ IsPresent(Pde(virt))

\* It goes from level to level, never through boot's PD, and the processor
\* finds at its end what the last entry says, with rights that the levels
\* above do not take away.
WayTo(virt) ==
    /\ HasPdpt(virt) =>
          /\ LinkTo(pml4, virt[1], Pml4e(virt).frame)
          /\ Pml4e(virt).frame \in Pdpts
          /\ Pml4e(virt).flags = {PT_WRITABLE}
    /\ HasPd(virt) =>
          /\ LinkTo(Pml4e(virt).frame, virt[2], Pdpte(virt).frame)
          /\ Pdpte(virt).frame \in Pds \ {BootPd}
          /\ Pdpte(virt).flags = {PT_WRITABLE}
    /\ HasPt(virt) =>
          /\ LinkTo(Pdpte(virt).frame, virt[3], Pde(virt).frame)
          /\ Pde(virt).frame \in Pts
          /\ Pde(virt).flags = {PT_WRITABLE} /\ ~ Pde(virt).large
          /\ Pte(virt) \in Entries
    /\ HardwareWalk(virt) =
          IF HasPt(virt) /\ IsPresent(Pte(virt))
          THEN [frame |-> Pte(virt).frame, rights |-> {PT_WRITABLE} \intersect Pte(virt).flags]
          ELSE NoTranslation
\* Every page has its way.
Ways == \A virt \in VirtualPages : WayTo(virt)

\* The shape of the tree is enough for that.
LEMMA WaysExact == AboveTheFirstGiB /\ TreeInv => Ways
<1> SUFFICES ASSUME AboveTheFirstGiB, TreeInv, NEW virt \in VirtualPages PROVE WayTo(virt)
  BY DEF Ways
<1>1. LevelsApart /\ Levels
  BY TreeLevelsApart, LevelsExact
<1>2. virt[1] \in Index /\ virt[2] \in Index /\ virt[3] \in Index /\ virt[4] \in Index
  BY PageIndices
<1>3. Pdpts \subseteq Upper /\ Pds \subseteq Upper /\ pml4 \in Upper /\ Upper \subseteq Frames
  BY <1>1 DEF Upper, LevelsApart
<1>4. pml4 # BootPd /\ \A table \in Pdpts : table # BootPd
  BY <1>1, TableNumbers DEF LevelsApart
<1>5. ASSUME HasPdpt(virt)
      PROVE  /\ LinkTo(pml4, virt[1], Pml4e(virt).frame)
             /\ Pml4e(virt).frame \in Pdpts
             /\ Pml4e(virt).flags = {PT_WRITABLE}
  <2>1. ~ Pml4e(virt).large /\ Pml4e(virt).flags = {PT_WRITABLE}
    BY <1>2, <1>3, <1>4, <1>5 DEF TreeInv, HasPdpt, Pml4e
  <2>2. LinkTo(pml4, virt[1], Pml4e(virt).frame)
    BY <1>5, <2>1 DEF LinkTo, HasPdpt, IsPresent, Pml4e
  <2> QED BY <1>1, <1>2, <2>1, <2>2 DEF Levels
<1>6. ASSUME HasPd(virt)
      PROVE  /\ LinkTo(Pml4e(virt).frame, virt[2], Pdpte(virt).frame)
             /\ Pdpte(virt).frame \in Pds \ {BootPd}
             /\ Pdpte(virt).flags = {PT_WRITABLE}
  <2>1. LinkTo(pml4, virt[1], Pml4e(virt).frame) /\ Pml4e(virt).frame \in Pdpts
    BY <1>5, <1>6 DEF HasPd
  <2>2. ~ Pdpte(virt).large /\ Pdpte(virt).flags = {PT_WRITABLE}
    BY <1>2, <1>3, <1>4, <1>6, <2>1 DEF TreeInv, HasPd, Pdpte
  <2>3. LinkTo(Pml4e(virt).frame, virt[2], Pdpte(virt).frame)
    BY <1>6, <2>2 DEF LinkTo, HasPd, IsPresent, Pdpte
  <2>4. Pdpte(virt).frame \in Pds
    BY <1>1, <1>2, <2>1, <2>3 DEF Levels
  <2>5. Pdpte(virt).frame # BootPd
    <3>1. LinkTo(BootPml4, 0, BootPdpt) /\ LinkTo(BootPdpt, 0, BootPd)
      BY TableNumbers DEF TreeInv, BootInv, LinkTo, Entry
    <3>2. BootPd \in Frames /\ BootPdpt \in Frames /\ BootPdpt \in Upper /\ 0 \in Index
      BY <1>1, <1>3, TableNumbers DEF LevelsApart
    <3>3. SUFFICES ASSUME Pdpte(virt).frame = BootPd PROVE FALSE
      OBVIOUS
    <3>4. Pml4e(virt).frame = BootPdpt /\ virt[2] = 0
      BY <1>2, <1>3, <2>1, <2>3, <3>1, <3>2, <3>3 DEF TreeInv
    <3>5. virt[1] = 0
      BY <1>2, <1>3, <2>1, <3>1, <3>2, <3>4 DEF TreeInv, pml4
    <3> QED BY <3>4, <3>5 DEF AboveTheFirstGiB
  <2> QED BY <2>2, <2>3, <2>4, <2>5
<1>7. ASSUME HasPt(virt)
      PROVE  /\ LinkTo(Pdpte(virt).frame, virt[3], Pde(virt).frame)
             /\ Pde(virt).frame \in Pts
             /\ Pde(virt).flags = {PT_WRITABLE} /\ ~ Pde(virt).large
             /\ Pte(virt) \in Entries
  <2>1. Pdpte(virt).frame \in Pds \ {BootPd}
    BY <1>6, <1>7 DEF HasPt
  <2>2. ~ Pde(virt).large /\ Pde(virt).flags = {PT_WRITABLE}
    BY <1>2, <1>3, <1>7, <2>1 DEF TreeInv, HasPt, Pde
  <2>3. LinkTo(Pdpte(virt).frame, virt[3], Pde(virt).frame)
    BY <1>7, <2>2 DEF LinkTo, HasPt, IsPresent, Pde
  <2>4. Pde(virt).frame \in Pts
    BY <1>1, <1>2, <2>1, <2>3 DEF Levels
  <2>5. Pte(virt) \in Entries
    <3>1. Pde(virt).frame \in TableFrames
      BY <1>1, <2>4, TableNumbers DEF LevelsApart, LinkedTables
    <3>2. memory \in [TableFrames -> [Index -> Entries]]
      BY <1>2 DEF TreeInv
    <3>3. virt[4] \in Index
      BY PageIndices
    <3>4. memory[Pde(virt).frame] \in [Index -> Entries]
      BY <3>1, <3>2
    <3> QED BY <3>3, <3>4 DEF Pte
  <2> QED BY <2>2, <2>3, <2>4, <2>5
<1>8. HardwareWalk(virt) =
          IF HasPt(virt) /\ IsPresent(Pte(virt))
          THEN [frame |-> Pte(virt).frame, rights |-> {PT_WRITABLE} \intersect Pte(virt).flags]
          ELSE NoTranslation
  <2>1. TableIndex(virt, 4) = virt[1] /\ TableIndex(virt, 3) = virt[2]
        /\ TableIndex(virt, 2) = virt[3] /\ TableIndex(virt, 1) = virt[4]
    BY DEF TableIndex
  <2>2. HardwareWalk(virt) =
           IF ~ HasPt(virt) THEN NoTranslation
           ELSE IF Pde(virt).large
                THEN [frame |-> Pde(virt).frame + virt[4],
                      rights |-> Pml4e(virt).flags \intersect Pdpte(virt).flags
                                     \intersect Pde(virt).flags]
           ELSE IF ~ IsPresent(Pte(virt)) THEN NoTranslation
           ELSE [frame |-> Pte(virt).frame,
                 rights |-> Pml4e(virt).flags \intersect Pdpte(virt).flags
                                \intersect Pde(virt).flags \intersect Pte(virt).flags]
    BY <2>1, Zenon DEF HardwareWalk, HasPt, HasPd, HasPdpt, Pml4e, Pdpte, Pde, Pte
  <2>3. CASE ~ HasPt(virt)
    BY <2>2, <2>3
  <2>4. CASE HasPt(virt)
    <3>1. /\ Pml4e(virt).flags = {PT_WRITABLE} /\ Pdpte(virt).flags = {PT_WRITABLE}
          /\ Pde(virt).flags = {PT_WRITABLE} /\ ~ Pde(virt).large
      BY <1>5, <1>6, <1>7, <2>4 DEF HasPt, HasPd
    <3>2. {PT_WRITABLE} \intersect {PT_WRITABLE} \intersect {PT_WRITABLE} = {PT_WRITABLE}
      OBVIOUS
    <3> QED BY <2>2, <2>4, <3>1, <3>2, Zenon
  <2> QED BY <2>3, <2>4
<1> QED BY <1>5, <1>6, <1>7, <1>8 DEF WayTo

\* What has been found of the way stays.
KeepsWay(virt) ==
    /\ HasPdpt(virt) => Pml4e(virt)' = Pml4e(virt)
    /\ HasPd(virt) => Pdpte(virt)' = Pdpte(virt)
    /\ HasPt(virt) => Pde(virt)' = Pde(virt)

\* A new table makes a way longer and leads nowhere yet.
LEMMA LinkKeepsWalks ==
    ASSUME AboveTheFirstGiB, TreeInv, NEW table \in Upper, NEW i \in Index, NEW page,
           LinkPage(table, i, page)
    PROVE  \A virt \in VirtualPages : KeepsWay(virt) /\ HardwareWalk(virt)' = HardwareWalk(virt)
<1>1. /\ TreeInv'
      /\ \A other \in Frames \ {page} : \A j \in Index :
            other # table \/ j # i => memory'[other][j] = memory[other][j]
      /\ \A j \in Index : memory'[page][j] = Absent
      /\ memory'[table][i] = Entry(page, {PT_WRITABLE})
  <2>1. TreeInv' /\ memory'[table][i] = Entry(page, {PT_WRITABLE})
    BY LinkKeepsTree
  <2>2. \A other \in Frames \ {page} : \A j \in Index :
            other # table \/ j # i => memory'[other][j] = memory[other][j]
    BY LinkKeepsTree
  <2>3. \A j \in Index : memory'[page][j] = Absent
    BY LinkKeepsTree
  <2> QED BY <2>1, <2>2, <2>3
<1>2. Ways
  BY WaysExact
<1>3. AboveTheFirstGiB'
  BY DEF AboveTheFirstGiB
<1>4. Ways'
  BY <1>1, <1>3, WaysExact, PTL
<1> SUFFICES ASSUME NEW virt \in VirtualPages
             PROVE  KeepsWay(virt) /\ HardwareWalk(virt)' = HardwareWalk(virt)
  OBVIOUS
<1>5. WayTo(virt) /\ WayTo(virt)'
  BY <1>2, <1>4 DEF Ways
<1>6. virt[1] \in Index /\ virt[2] \in Index /\ virt[3] \in Index /\ virt[4] \in Index
  BY PageIndices
<1>7. LevelsApart
  BY TreeLevelsApart
<1>8. /\ page \notin Upper /\ page \notin Pts
      /\ pml4 \in Frames /\ Pdpts \subseteq Frames /\ Pds \subseteq Frames /\ Pts \subseteq Frames
      /\ pml4 \in Upper /\ Pdpts \subseteq Upper /\ Pds \subseteq Upper /\ table \notin Pts
  BY <1>7, TableNumbers DEF LevelsApart, LinkedTables, Upper, LinkPage, pml4, BootTables
<1>16. ASSUME NEW other \in Upper \union Pts, NEW j \in Index, other # table \/ j # i
       PROVE  memory'[other][j] = memory[other][j]
  BY <1>1, <1>7, <1>8, <1>16 DEF LevelsApart
<1>17. ASSUME NEW other \in Upper \union Pts, NEW j \in Index, IsPresent(memory[other][j])
       PROVE  memory'[other][j] = memory[other][j]
  BY <1>16, <1>17 DEF LinkPage
<1>9. ~ IsPresent(memory'[page][virt[2]]) /\ ~ IsPresent(memory'[page][virt[3]])
      /\ ~ IsPresent(memory'[page][virt[4]])
  <2>1. Absent.frame = NoFrame
    BY DEF Absent
  <2> QED BY <1>1, <1>6, <2>1 DEF IsPresent
<1>10. Entry(page, {PT_WRITABLE}).frame = page
  BY DEF Entry
<1>11. ASSUME ~ HasPt(virt) \/ ~ IsPresent(Pte(virt)), ~ HasPt(virt)' \/ ~ IsPresent(Pte(virt))'
       PROVE  HardwareWalk(virt)' = HardwareWalk(virt)
  BY <1>5, <1>11 DEF WayTo, NoTranslation
<1>12. CASE ~ HasPdpt(virt)
  <2>1. KeepsWay(virt) /\ ~ HasPt(virt)
    BY <1>12 DEF KeepsWay, HasPt, HasPd
  <2>2. ~ HasPd(virt)'
    <3>1. CASE table = pml4 /\ i = virt[1]
      BY <1>1, <1>9, <1>10, <3>1 DEF HasPd, Pdpte, Pml4e
    <3>2. CASE table # pml4 \/ i # virt[1]
      BY <1>6, <1>8, <1>12, <1>16, <3>2 DEF HasPd, HasPdpt, Pml4e, pml4
    <3> QED BY <3>1, <3>2
  <2> QED BY <1>11, <2>1, <2>2 DEF HasPt
<1>13. CASE HasPdpt(virt) /\ ~ HasPd(virt)
  <2>1. Pml4e(virt).frame \in Pdpts
    BY <1>5, <1>13 DEF WayTo
  <2>2. Pml4e(virt)' = Pml4e(virt)
    BY <1>6, <1>8, <1>13, <1>17 DEF HasPdpt, Pml4e, pml4
  <2>3. KeepsWay(virt) /\ ~ HasPt(virt)
    BY <1>13, <2>2 DEF KeepsWay, HasPt
  <2>4. ~ HasPt(virt)'
    <3>1. CASE table = Pml4e(virt).frame /\ i = virt[2]
      BY <1>1, <1>9, <1>10, <2>2, <3>1 DEF HasPt, Pde, Pdpte
    <3>2. CASE table # Pml4e(virt).frame \/ i # virt[2]
      <4>1. Pdpte(virt)' = Pdpte(virt)
        BY <1>6, <1>8, <1>16, <2>1, <2>2, <3>2 DEF Pdpte
      <4> QED BY <1>13, <4>1 DEF HasPt, HasPd, IsPresent
    <3> QED BY <3>1, <3>2
  <2> QED BY <1>11, <2>3, <2>4
<1>14. CASE HasPd(virt) /\ ~ HasPt(virt)
  <2>1. HasPdpt(virt) /\ Pml4e(virt).frame \in Pdpts /\ Pdpte(virt).frame \in Pds
    BY <1>5, <1>14 DEF WayTo, HasPd
  <2>2. Pml4e(virt)' = Pml4e(virt)
    BY <1>6, <1>8, <1>17, <2>1 DEF HasPdpt, Pml4e, pml4
  <2>3. Pdpte(virt)' = Pdpte(virt)
    BY <1>6, <1>8, <1>14, <1>17, <2>1, <2>2 DEF HasPd, Pdpte
  <2>4. KeepsWay(virt)
    BY <1>14, <2>2, <2>3 DEF KeepsWay
  <2>5. ~ HasPt(virt)' \/ ~ IsPresent(Pte(virt))'
    <3>1. CASE table = Pdpte(virt).frame /\ i = virt[3]
      BY <1>1, <1>9, <1>10, <2>3, <3>1 DEF Pte, Pde
    <3>2. CASE table # Pdpte(virt).frame \/ i # virt[3]
      <4>1. Pde(virt)' = Pde(virt)
        BY <1>6, <1>8, <1>16, <2>1, <2>3, <3>2 DEF Pde
      <4> QED BY <1>14, <4>1 DEF HasPt, IsPresent
    <3> QED BY <3>1, <3>2
  <2> QED BY <1>11, <1>14, <2>4, <2>5
<1>15. CASE HasPt(virt)
  <2>1. /\ HasPd(virt) /\ HasPdpt(virt) /\ Pml4e(virt).frame \in Pdpts
        /\ Pdpte(virt).frame \in Pds /\ Pde(virt).frame \in Pts
    BY <1>5, <1>15 DEF WayTo, HasPd, HasPt
  <2>2. Pml4e(virt)' = Pml4e(virt)
    BY <1>6, <1>8, <1>17, <2>1 DEF HasPdpt, Pml4e, pml4
  <2>3. Pdpte(virt)' = Pdpte(virt)
    BY <1>6, <1>8, <1>17, <2>1, <2>2 DEF HasPd, Pdpte
  <2>4. Pde(virt)' = Pde(virt)
    BY <1>6, <1>8, <1>15, <1>17, <2>1, <2>3 DEF HasPt, Pde
  <2>5. Pte(virt)' = Pte(virt)
    BY <1>6, <1>8, <1>16, <2>1, <2>4 DEF Pte
  <2>6. HasPt(virt)'
    BY <1>15, <2>2, <2>3, <2>4 DEF HasPt, HasPd, HasPdpt, IsPresent
  <2>7. HardwareWalk(virt)' = HardwareWalk(virt)
    BY <1>5, <1>15, <2>5, <2>6 DEF WayTo, IsPresent, NoTranslation
  <2> QED BY <2>2, <2>3, <2>4, <2>7 DEF KeepsWay
<1> QED BY <1>12, <1>13, <1>14, <1>15

\* No two pages share a last entry.
LEMMA WaysApart ==
    ASSUME AboveTheFirstGiB, TreeInv, NEW one \in VirtualPages, NEW other \in VirtualPages,
           HasPt(one), HasPt(other), Pde(one).frame = Pde(other).frame, one[4] = other[4]
    PROVE  one = other
<1>1. WayTo(one) /\ WayTo(other)
  BY WaysExact DEF Ways
<1>2. LevelsApart
  BY TreeLevelsApart
<1>3. /\ one[1] \in Index /\ one[2] \in Index /\ one[3] \in Index
      /\ other[1] \in Index /\ other[2] \in Index /\ other[3] \in Index
      /\ one = <<one[1], one[2], one[3], one[4]>>
      /\ other = <<other[1], other[2], other[3], other[4]>>
  BY PageIndices
<1>4. /\ LinkTo(pml4, one[1], Pml4e(one).frame) /\ LinkTo(pml4, other[1], Pml4e(other).frame)
      /\ LinkTo(Pml4e(one).frame, one[2], Pdpte(one).frame)
      /\ LinkTo(Pml4e(other).frame, other[2], Pdpte(other).frame)
      /\ LinkTo(Pdpte(one).frame, one[3], Pde(one).frame)
      /\ LinkTo(Pdpte(other).frame, other[3], Pde(other).frame)
  BY <1>1 DEF WayTo, HasPt, HasPd
<1>5. /\ Pml4e(one).frame \in Upper /\ Pml4e(other).frame \in Upper
      /\ Pdpte(one).frame \in Upper /\ Pdpte(other).frame \in Upper
      /\ Pde(one).frame \in Frames /\ Upper \subseteq Frames /\ pml4 \in Upper
  BY <1>1, <1>2 DEF WayTo, HasPt, HasPd, LevelsApart, LinkedTables, Upper
<1>6. \A table, above \in Upper : \A i, j \in Index : \A frame \in Frames :
          LinkTo(table, i, frame) /\ LinkTo(above, j, frame) => table = above /\ i = j
  BY DEF TreeInv
<1>7. Pdpte(one).frame = Pdpte(other).frame /\ one[3] = other[3]
  BY <1>3, <1>4, <1>5, <1>6
<1>8. Pml4e(one).frame = Pml4e(other).frame /\ one[2] = other[2]
  BY <1>3, <1>4, <1>5, <1>6, <1>7
<1>9. one[1] = other[1]
  BY <1>3, <1>4, <1>5, <1>6, <1>8
<1> QED BY <1>3, <1>7, <1>8, <1>9

\* The last entry of one page is no other page's business.
LEMMA LeafKeepsWalks ==
    ASSUME AboveTheFirstGiB, TreeInv, NEW page \in VirtualPages, NEW entry \in Entries,
           HasPt(page), WriteAt(Pde(page).frame, page[4], entry)
    PROVE  /\ TreeInv' /\ Upper' = Upper /\ LinkedTables' = LinkedTables
           /\ \A virt \in VirtualPages : KeepsWay(virt)
           /\ \A virt \in VirtualPages \ {page} : HardwareWalk(virt)' = HardwareWalk(virt)
           /\ HasPt(page)' /\ Pte(page)' = entry
<1> DEFINE table == Pde(page).frame
           i == page[4]
<1>1. table \in Pts /\ i \in Index
  BY WaysExact, PageIndices DEF Ways, WayTo
<1>2. WriteAt(table, i, entry)
  OBVIOUS
<1> HIDE DEF table, i
<1>3. TreeInv' /\ Upper' = Upper /\ Pdpts' = Pdpts /\ Pds' = Pds /\ Pts' = Pts
      /\ memory'[table][i] = entry
  BY <1>1, <1>2, LeafKeepsTree
<1>4. \A other \in Frames : \A j \in Index :
          other # table \/ j # i => memory'[other][j] = memory[other][j]
  BY <1>1, <1>2, LeafKeepsTree
<1>5. AboveTheFirstGiB'
  BY DEF AboveTheFirstGiB
<1>6. Ways'
  BY <1>3, <1>5, WaysExact, PTL
<1>7. LinkedTables' = LinkedTables
  BY <1>3 DEF LinkedTables
<1>8. LevelsApart
  BY TreeLevelsApart
<1>9. /\ pml4 \in Upper /\ Pdpts \subseteq Upper /\ Pds \subseteq Upper /\ table \notin Upper
      /\ Upper \subseteq Frames /\ Pts \subseteq Frames
  BY <1>1, <1>8 DEF LevelsApart, LinkedTables, Upper
<1>10. ASSUME NEW virt \in VirtualPages
       PROVE  /\ KeepsWay(virt)
              /\ HasPt(virt)' <=> HasPt(virt)
  <2>1. virt[1] \in Index /\ virt[2] \in Index /\ virt[3] \in Index /\ WayTo(virt)
    BY PageIndices, WaysExact DEF Ways
  <2>2. Pml4e(virt)' = Pml4e(virt)
    BY <1>4, <1>9, <2>1 DEF Pml4e, pml4
  <2>3. ASSUME HasPdpt(virt) PROVE Pdpte(virt)' = Pdpte(virt)
    <3>1. Pml4e(virt).frame \in Upper
      BY <1>9, <2>1, <2>3 DEF WayTo
    <3> QED BY <1>4, <1>9, <2>1, <2>2, <3>1 DEF Pdpte
  <2>4. ASSUME HasPd(virt) PROVE Pde(virt)' = Pde(virt)
    <3>1. Pdpte(virt).frame \in Upper
      BY <1>9, <2>1, <2>4 DEF WayTo
    <3> QED BY <1>4, <1>9, <2>1, <2>3, <2>4, <3>1 DEF Pde, HasPd
  <2>5. KeepsWay(virt)
    BY <2>2, <2>3, <2>4 DEF KeepsWay, HasPt, HasPd
  <2>6. HasPdpt(virt)' <=> HasPdpt(virt)
    BY <2>2 DEF HasPdpt, IsPresent
  <2>7. HasPd(virt)' <=> HasPd(virt)
    BY <2>3, <2>6 DEF HasPd, IsPresent
  <2>8. HasPt(virt)' <=> HasPt(virt)
    BY <2>4, <2>7 DEF HasPt, IsPresent
  <2> QED BY <2>5, <2>8
<1>11. ASSUME NEW virt \in VirtualPages \ {page} PROVE HardwareWalk(virt)' = HardwareWalk(virt)
  <2>1. WayTo(virt) /\ WayTo(virt)'
    BY <1>6, WaysExact DEF Ways
  <2>2. HasPt(virt)' <=> HasPt(virt)
    BY <1>10
  <2>3. CASE ~ HasPt(virt)
    BY <2>1, <2>2, <2>3 DEF WayTo, NoTranslation
  <2>4. CASE HasPt(virt)
    <3>1. Pde(virt).frame # table \/ virt[4] # i
      BY <2>4, WaysApart DEF table, i
    <3>2. Pde(virt)' = Pde(virt) /\ Pde(virt).frame \in Frames /\ virt[4] \in Index
      BY <1>9, <1>10, <2>1, <2>4, PageIndices DEF KeepsWay, WayTo
    <3>3. Pte(virt)' = Pte(virt)
      BY <1>4, <3>1, <3>2 DEF Pte
    <3> QED BY <2>1, <2>2, <2>4, <3>3 DEF WayTo, IsPresent, NoTranslation
  <2> QED BY <2>3, <2>4
<1>12. HasPt(page)' /\ Pte(page)' = entry
  <2>1. HasPt(page)' /\ Pde(page)' = Pde(page)
    BY <1>10 DEF KeepsWay
  <2> QED BY <1>3, <2>1 DEF Pte, table, i
<1> QED BY <1>3, <1>7, <1>10, <1>11, <1>12

-----------------------------------------------------------------------------
(* The rest of the invariant. *)

\* Every frame in use is reserved, somebody's or a table, and only one of them.
FramesInv ==
    /\ PmmTypeOK /\ CounterDrift
    /\ NoFrameLost
    /\ Reserved \intersect held = {} /\ LinkedTables \intersect held = {}

\* A call is at the table its page's way leads to.
Reached(virt, level, table) ==
    /\ level = 4 => table = pml4
    /\ level = 3 => HasPdpt(virt) /\ table = Pml4e(virt).frame
    /\ level = 2 => HasPd(virt) /\ table = Pdpte(virt).frame
    /\ level \in {0, 1} => HasPt(virt) /\ table = Pde(virt).frame

\* A call under way, and what it has come to.
Calls == [op : {"map", "unmap"}, virt : VirtualPages, phys : {NoFrame} \union Nat,
          flags : Rights, level : 0 .. 4, table : {NoFrame} \union Nat]
CallInv ==
    call # NoCall =>
        /\ call \in Calls
        /\ IF call.op = "map" THEN call.phys \in Nat ELSE call.phys = NoFrame /\ call.flags = {}
        /\ Reached(call.virt, call.level, call.table)
        /\ call.level = 0 => Pte(call.virt) = Entry(call.phys, call.flags)

\* The inductive invariant.
VmmInv ==
    /\ AboveTheFirstGiB
    /\ TreeInv /\ FramesInv /\ CallInv
    /\ tlb \in [VirtualPages -> Translations] /\ TlbCoherent
    /\ answer \in BOOLEAN

\* The tables that boot left make such a tree.
LEMMA InitialTree == VmmInit => TreeInv /\ LinkedTables = {BootPdpt, BootPd}
<1> SUFFICES ASSUME VmmInit PROVE TreeInv /\ LinkedTables = {BootPdpt, BootPd}
  OBVIOUS
<1>1. PICK contents \in Contents :
          memory = [frame \in TableFrames |->
              CASE frame = BootPml4 -> [ZeroTable EXCEPT ![0] = Entry(BootPdpt, {PT_WRITABLE})]
                [] frame = BootPdpt -> [ZeroTable EXCEPT ![0] = Entry(BootPd, {PT_WRITABLE})]
                [] frame = BootPd ->
                     [i \in Index |-> [frame |-> i * PagesPerLarge, flags |-> {PT_WRITABLE},
                                       large |-> TRUE]]
                [] OTHER -> contents]
  BY DEF VmmInit
<1>2. BootPml4 \in TableFrames /\ BootPdpt \in TableFrames /\ BootPd \in TableFrames
  BY DEF TableFrames, BootTables
<1>3. /\ memory[BootPml4] = [ZeroTable EXCEPT ![0] = Entry(BootPdpt, {PT_WRITABLE})]
      /\ memory[BootPdpt] = [ZeroTable EXCEPT ![0] = Entry(BootPd, {PT_WRITABLE})]
      /\ memory[BootPd] = [i \in Index |-> [frame |-> i * PagesPerLarge, flags |-> {PT_WRITABLE},
                                            large |-> TRUE]]
  BY <1>1, <1>2, TableNumbers
<1>4. /\ Absent \in Entries
      /\ \A frame \in Nat, flags \in Rights : Entry(frame, flags) \in Entries
  BY DEF Absent, Entry, Entries, Rights
<1>5. ZeroTable \in [Index -> Entries]
  BY <1>4 DEF ZeroTable
<1>6. contents \in [Index -> Entries]
  <2>1. {PT_WRITABLE, PT_USER} \in Rights /\ 0 \in Nat
    BY DEF Rights
  <2> QED BY <1>4, <1>5, <2>1 DEF Contents
<1>7. /\ memory[BootPml4] \in [Index -> Entries] /\ memory[BootPdpt] \in [Index -> Entries]
      /\ memory[BootPd] \in [Index -> Entries]
  <2>1. {PT_WRITABLE} \in Rights /\ BootPdpt \in Nat /\ BootPd \in Nat
    BY TableNumbers DEF Rights
  <2>2. Entry(BootPdpt, {PT_WRITABLE}) \in Entries /\ Entry(BootPd, {PT_WRITABLE}) \in Entries
    BY <1>4, <2>1
  <2>3. \A i \in Index : i * PagesPerLarge \in Nat
    BY TableNumbers DEF PagesPerLarge
  <2>4. ASSUME NEW i \in Index
        PROVE  [frame |-> i * PagesPerLarge, flags |-> {PT_WRITABLE}, large |-> TRUE] \in Entries
    <3> DEFINE page == i * PagesPerLarge
               flags == {PT_WRITABLE}
    <3>1. page \in Nat
      BY <2>3
    <3>2. flags \in Rights
      BY <2>1
    <3> HIDE DEF page, flags
    <3>3. [frame |-> page, flags |-> flags, large |-> TRUE] \in Entries
      BY ONLY <3>1, <3>2 DEF Entries
    <3> QED BY ONLY <3>3 DEF page, flags
  <2>5. memory[BootPd] \in [Index -> Entries]
    <3> DEFINE large(i) == [frame |-> i * PagesPerLarge, flags |-> {PT_WRITABLE}, large |-> TRUE]
    <3>1. memory[BootPd] = [i \in Index |-> large(i)]
      BY <1>3
    <3>2. \A i \in Index : large(i) \in Entries
      BY <2>4
    <3> HIDE DEF large
    <3> QED BY ONLY <3>1, <3>2, Zenon
  <2>6. \A entry \in Entries : [ZeroTable EXCEPT ![0] = entry] \in [Index -> Entries]
    BY ONLY <1>5
  <2>7. memory[BootPml4] \in [Index -> Entries]
    BY ONLY <1>3, <2>2, <2>6, Zenon
  <2>8. memory[BootPdpt] \in [Index -> Entries]
    BY ONLY <1>3, <2>2, <2>6, Zenon
  <2> QED BY <2>5, <2>7, <2>8
<1>8. memory \in [TableFrames -> [Index -> Entries]]
  <2>1. ASSUME NEW frame \in TableFrames PROVE memory[frame] \in [Index -> Entries]
    <3>1. CASE frame \in {BootPml4, BootPdpt, BootPd}
      BY <1>7, <3>1
    <3>2. CASE frame \notin {BootPml4, BootPdpt, BootPd}
      <4>1. memory[frame] = contents
        BY <1>1, <3>2
      <4> QED BY <1>6, <4>1
    <3> QED BY <3>1, <3>2
  <2>2. memory = [frame \in TableFrames |-> memory[frame]]
    BY <1>1
  <2> QED BY <2>1, <2>2
<1>9. Absent.frame = NoFrame /\ 0 \in Index /\ BootPdpt # NoFrame /\ BootPd # NoFrame
  BY TableNumbers DEF Absent, NoFrame
<1>10. ASSUME NEW i \in Index
       PROVE  /\ memory[BootPml4][i] = IF i = 0 THEN Entry(BootPdpt, {PT_WRITABLE}) ELSE Absent
              /\ memory[BootPdpt][i] = IF i = 0 THEN Entry(BootPd, {PT_WRITABLE}) ELSE Absent
  BY <1>3 DEF ZeroTable
<1>11. ASSUME NEW i \in Index PROVE memory[BootPd][i].large /\ IsPresent(memory[BootPd][i])
  <2>1. /\ memory[BootPd][i].large = TRUE
        /\ memory[BootPd][i].frame = i * PagesPerLarge
    BY <1>3
  <2>2. i * PagesPerLarge \in Nat
    BY TableNumbers DEF PagesPerLarge
  <2> QED BY <2>1, <2>2, TableNumbers DEF IsPresent
<1>12. \A frame, flags : Entry(frame, flags).frame = frame /\ Entry(frame, flags).flags = flags
                         /\ ~ Entry(frame, flags).large
  BY DEF Entry
<1>13. ASSUME NEW i \in Index, NEW frame
       PROVE  /\ LinkTo(BootPml4, i, frame) <=> i = 0 /\ frame = BootPdpt
              /\ LinkTo(BootPdpt, i, frame) <=> i = 0 /\ frame = BootPd
              /\ ~ LinkTo(BootPd, i, frame)
  <2>1. CASE i = 0
    <3>1. /\ memory[BootPml4][i].frame = BootPdpt /\ ~ memory[BootPml4][i].large
          /\ memory[BootPdpt][i].frame = BootPd /\ ~ memory[BootPdpt][i].large
      BY <1>10, <1>12, <2>1
    <3> QED BY <1>9, <1>11, <2>1, <3>1 DEF LinkTo
  <2>2. CASE i # 0
    <3>1. memory[BootPml4][i].frame = NoFrame /\ memory[BootPdpt][i].frame = NoFrame
      BY <1>9, <1>10, <2>2
    <3> QED BY <1>11, <2>2, <3>1 DEF LinkTo
  <2> QED BY <2>1, <2>2
<1>14. Levels
  BY LevelsExact
<1>15. Pdpts = {BootPdpt}
  <2>1. ASSUME NEW frame PROVE frame \in Pdpts <=> frame = BootPdpt
    BY <1>9, <1>13, <1>14 DEF Levels, pml4
  <2> QED BY <2>1
<1>16. Pds = {BootPd}
  <2>1. ASSUME NEW frame PROVE frame \in Pds <=> frame = BootPd
    BY <1>9, <1>13, <1>14, <1>15 DEF Levels
  <2> QED BY <2>1
<1>17. Pts = {}
  <2>1. ASSUME NEW frame PROVE frame \notin Pts
    BY <1>13, <1>14, <1>16 DEF Levels
  <2> QED BY <2>1
<1>18. LinkedTables = {BootPdpt, BootPd} /\ Upper = {BootPml4, BootPdpt, BootPd}
  BY <1>15, <1>16, <1>17 DEF LinkedTables, Upper, pml4
<1>19. BootInv
  <2>1. memory[BootPml4][0] = Entry(BootPdpt, {PT_WRITABLE})
        /\ memory[BootPdpt][0] = Entry(BootPd, {PT_WRITABLE})
    BY <1>9, <1>10
  <2> QED BY <1>11, <2>1 DEF BootInv
<1>20. LinkedTables \subseteq Frames \ {pml4}
  BY <1>18, TableNumbers DEF Frames, BootTables
<1>21. ASSUME NEW one \in Upper, NEW other \in Upper, NEW i \in Index, NEW j \in Index,
              NEW frame \in Frames, LinkTo(one, i, frame), LinkTo(other, j, frame)
       PROVE  one = other /\ i = j
  BY <1>13, <1>18, <1>21, TableNumbers
<1>22. ASSUME NEW table \in Upper, NEW i \in Index, table # BootPd, IsPresent(memory[table][i])
       PROVE  memory[table][i].flags = {PT_WRITABLE} /\ ~ memory[table][i].large
  <2>1. i = 0
    BY <1>9, <1>10, <1>18, <1>22 DEF IsPresent
  <2> QED BY <1>10, <1>12, <1>18, <1>22, <2>1
<1> QED BY <1>8, <1>18, <1>19, <1>20, <1>21, <1>22 DEF TreeInv

\* The invariant holds when vmm_initialize has run.
LEMMA InitialVmm == AboveTheFirstGiB /\ VmmInit => VmmInv
<1> SUFFICES ASSUME AboveTheFirstGiB, VmmInit PROVE VmmInv
  OBVIOUS
<1>1. TreeInv /\ LinkedTables = {BootPdpt, BootPd}
  BY InitialTree
<1>2. /\ PmmInv /\ held = {} /\ call = NoCall /\ answer = TRUE
      /\ tlb = [virt \in VirtualPages |-> NoTranslation]
  BY InitEstablishesInv DEF VmmInit, PmmInit
<1>3. FramesInv
  BY <1>1, <1>2 DEF FramesInv, PmmInv, BitmapExact, NoFrameLost, BootTables
<1>4. NoTranslation \in Translations
  BY DEF NoTranslation, Translations, Rights
<1>5. tlb \in [VirtualPages -> Translations] /\ TlbCoherent
  BY <1>2, <1>4 DEF TlbCoherent
<1> QED BY <1>1, <1>2, <1>3, <1>5 DEF VmmInv, CallInv

-----------------------------------------------------------------------------
(* What a step leaves alone. *)

\* A step that writes no table leaves the tree and every way as they are.
LEMMA MemoryStays ==
    ASSUME TreeInv, UNCHANGED memory
    PROVE  /\ TreeInv' /\ LinkedTables' = LinkedTables /\ Upper' = Upper
           /\ \A virt :
                /\ HasPdpt(virt)' <=> HasPdpt(virt)
                /\ HasPd(virt)' <=> HasPd(virt)
                /\ HasPt(virt)' <=> HasPt(virt)
                /\ Pml4e(virt)' = Pml4e(virt) /\ Pdpte(virt)' = Pdpte(virt)
                /\ Pde(virt)' = Pde(virt) /\ Pte(virt)' = Pte(virt)
           /\ \A virt \in VirtualPages : HardwareWalk(virt)' = HardwareWalk(virt)
<1>1. Pdpts' = Pdpts
  BY DEF Pdpts, Below, Links, IsPresent, pml4
<1>2. Pds' = Pds
  BY <1>1 DEF Pds, Below, Links, IsPresent
<1>3. Pts' = Pts
  BY <1>2 DEF Pts, Below, Links, IsPresent
<1>4. LinkedTables' = LinkedTables /\ Upper' = Upper
  BY <1>1, <1>2, <1>3 DEF LinkedTables, Upper, pml4
<1>5. BootInv'
  BY DEF TreeInv, BootInv, IsPresent
<1>6. TreeInv'
  BY <1>4, <1>5 DEF TreeInv, LinkTo, IsPresent, Frames, TableFrames, pml4
<1>7. \A virt : Pml4e(virt)' = Pml4e(virt)
  BY DEF Pml4e, pml4
<1>8. \A virt : Pdpte(virt)' = Pdpte(virt)
  BY <1>7 DEF Pdpte
<1>9. \A virt : Pde(virt)' = Pde(virt)
  BY <1>8 DEF Pde
<1>10. \A virt : Pte(virt)' = Pte(virt)
  BY <1>9 DEF Pte
<1>11. \A virt : HasPdpt(virt)' <=> HasPdpt(virt)
  BY <1>7 DEF HasPdpt, IsPresent
<1>12. \A virt : HasPd(virt)' <=> HasPd(virt)
  BY <1>8, <1>11 DEF HasPd, IsPresent
<1>13. \A virt : HasPt(virt)' <=> HasPt(virt)
  BY <1>9, <1>12 DEF HasPt, IsPresent
<1>14. ASSUME NEW virt \in VirtualPages PROVE HardwareWalk(virt)' = HardwareWalk(virt)
  BY DEF HardwareWalk, IsPresent, pml4, NoTranslation
<1> QED BY <1>4, <1>6, <1>7, <1>8, <1>9, <1>10, <1>11, <1>12, <1>13, <1>14

\* A step of neither allocator nor tree leaves the frames' owners as they are.
LEMMA FramesStay ==
    ASSUME FramesInv, UNCHANGED pmmVars, LinkedTables' = LinkedTables
    PROVE  FramesInv'
<1>1. AllocatedPages' = AllocatedPages
  BY DEF pmmVars, AllocatedPages, is_page_allocated
<1>2. PmmTypeOK' /\ CounterDrift'
  BY <1>1 DEF FramesInv, PmmTypeOK, CounterDrift, pmmVars
<1>3. NoFrameLost'
  BY <1>1 DEF FramesInv, NoFrameLost, pmmVars
<1> QED BY <1>2, <1>3 DEF FramesInv, pmmVars

\* A search that finds nothing leaves the frames as they are too.
LEMMA FramesStayWithoutAPage ==
    ASSUME FramesInv, NoPageLeft, UNCHANGED held, LinkedTables' = LinkedTables
    PROVE  FramesInv'
<1>1. AllocatedPages' = AllocatedPages
  BY DEF NoPageLeft, AllocatedPages, is_page_allocated
<1>2. 0 \in Pages /\ 0 = 0 * PAGE_SIZE
  BY Layout DEF Pages, PAGE_SIZE
<1>3. PmmTypeOK' /\ CounterDrift'
  BY <1>1, <1>2 DEF FramesInv, PmmTypeOK, CounterDrift, NoPageLeft
<1>4. NoFrameLost'
  BY <1>1 DEF FramesInv, NoFrameLost
<1> QED BY <1>3, <1>4 DEF FramesInv

\* Unless the call has written its entry and not flushed it, all that the TLB
\* has is right.
AllCachedRight == \A virt \in VirtualPages : tlb[virt] \in {NoTranslation, HardwareWalk(virt)}

\* With no entry written and not yet flushed, the TLB is right about every page.
LEMMA CachedRight ==
    ASSUME VmmInv, Idle \/ call.level # 0
    PROVE  AllCachedRight
<1>1. ASSUME NEW virt \in VirtualPages PROVE ~ (call.virt = virt /\ call.level = 0)
  BY PageIndices DEF Idle, NoCall
<1> QED BY <1>1 DEF VmmInv, TlbCoherent, AllCachedRight

\* A TLB that is right about every page is coherent.
LEMMA RightIsCoherent == AllCachedRight => TlbCoherent
BY DEF AllCachedRight, TlbCoherent

\* The TLB, where neither it nor a translation changes.
LEMMA TlbStays ==
    ASSUME AllCachedRight, UNCHANGED tlb, tlb \in [VirtualPages -> Translations],
           \A virt \in VirtualPages : HardwareWalk(virt)' = HardwareWalk(virt)
    PROVE  (tlb \in [VirtualPages -> Translations])' /\ AllCachedRight' /\ TlbCoherent'
<1>1. AllCachedRight'
  BY DEF AllCachedRight, NoTranslation
<1>2. TlbCoherent'
  BY <1>1 DEF AllCachedRight, TlbCoherent
<1>3. (tlb \in [VirtualPages -> Translations])'
  BY DEF Translations, Rights
<1> QED BY <1>1, <1>2, <1>3

\* The entry a call looks at is the one on its page's way.
LEMMA EntryOfWay ==
    ASSUME CallInv, call # NoCall
    PROVE  /\ call.level = 4 => CurrentEntry = Pml4e(call.virt)
           /\ call.level = 3 => CurrentEntry = Pdpte(call.virt)
           /\ call.level = 2 => CurrentEntry = Pde(call.virt)
           /\ call.level = 1 => CurrentEntry = Pte(call.virt)
           /\ call.level \in 0 .. 4 /\ call.virt \in VirtualPages
<1>1. call.level \in 0 .. 4 /\ call.virt \in VirtualPages
  BY DEF CallInv, Calls
<1>2. Reached(call.virt, call.level, call.table)
  BY DEF CallInv
<1>3. ASSUME call.level = 4 PROVE CurrentEntry = Pml4e(call.virt)
  <2>1. call.table = pml4
    BY <1>2, <1>3 DEF Reached
  <2>2. TableIndex(call.virt, call.level) = call.virt[1]
    BY <1>3 DEF TableIndex
  <2> QED BY <2>1, <2>2 DEF CurrentEntry, Pml4e
<1>4. ASSUME call.level = 3 PROVE CurrentEntry = Pdpte(call.virt)
  <2>1. call.table = Pml4e(call.virt).frame
    BY <1>2, <1>4 DEF Reached
  <2>2. TableIndex(call.virt, call.level) = call.virt[2]
    BY <1>4 DEF TableIndex
  <2> QED BY <2>1, <2>2 DEF CurrentEntry, Pdpte
<1>5. ASSUME call.level = 2 PROVE CurrentEntry = Pde(call.virt)
  <2>1. call.table = Pdpte(call.virt).frame
    BY <1>2, <1>5 DEF Reached
  <2>2. TableIndex(call.virt, call.level) = call.virt[3]
    BY <1>5 DEF TableIndex
  <2> QED BY <2>1, <2>2 DEF CurrentEntry, Pde
<1>6. ASSUME call.level = 1 PROVE CurrentEntry = Pte(call.virt)
  <2>1. call.table = Pde(call.virt).frame
    BY <1>2, <1>6 DEF Reached
  <2>2. TableIndex(call.virt, call.level) = call.virt[4]
    BY <1>6 DEF TableIndex
  <2> QED BY <2>1, <2>2 DEF CurrentEntry, Pte
<1> QED BY <1>1, <1>3, <1>4, <1>5, <1>6

\* A walk finds a translation, or none.
LEMMA WalkTyped ==
    ASSUME AboveTheFirstGiB, TreeInv
    PROVE  \A virt \in VirtualPages : HardwareWalk(virt) \in Translations
<1>1. NoTranslation \in Translations
  BY DEF NoTranslation, Translations, Rights
<1> SUFFICES ASSUME NEW virt \in VirtualPages PROVE HardwareWalk(virt) \in Translations
  OBVIOUS
<1>2. WayTo(virt)
  BY WaysExact DEF Ways
<1>3. CASE HasPt(virt) /\ IsPresent(Pte(virt))
  <2>1. Pte(virt) \in Entries
    BY <1>2, <1>3 DEF WayTo
  <2>2. Pte(virt).frame \in {NoFrame} \union Nat
        /\ {PT_WRITABLE} \intersect Pte(virt).flags \in Rights
    BY <2>1 DEF Entries, Rights
  <2>3. [frame |-> Pte(virt).frame, rights |-> {PT_WRITABLE} \intersect Pte(virt).flags]
            \in Translations
    BY <2>2 DEF Translations
  <2> QED BY <1>2, <1>3, <2>3 DEF WayTo
<1>4. CASE ~ (HasPt(virt) /\ IsPresent(Pte(virt)))
  BY <1>1, <1>2, <1>4 DEF WayTo
<1> QED BY <1>3, <1>4

-----------------------------------------------------------------------------
(* The steps of a call. *)

\* A call begins at the PML4, whatever it asks for.
LEMMA BeginStep == VmmInv /\ (vmm_map_page \/ vmm_unmap_page) => VmmInv'
<1> SUFFICES ASSUME VmmInv, vmm_map_page \/ vmm_unmap_page PROVE VmmInv'
  OBVIOUS
<1>1. PICK op \in {"map", "unmap"}, virt \in VirtualPages,
           phys \in {NoFrame} \union Nat, flags \in Rights :
          /\ Begin(op, virt, phys, flags)
          /\ IF op = "map" THEN phys \in Nat ELSE phys = NoFrame /\ flags = {}
  <2>1. CASE vmm_map_page
    <3>1. PICK virt \in VirtualPages, asked \in DeviceMappings \union (held \X MemoryFlags) :
              Begin("map", virt, asked[1], asked[2])
      BY <2>1 DEF vmm_map_page
    <3>2. held \subseteq Nat
      BY Layout DEF VmmInv, FramesInv, PmmTypeOK, Pages
    <3>3. asked[1] \in Nat /\ asked[2] \in Rights
      <4>1. DeviceMappings \subseteq Nat \X Rights /\ MemoryFlags \subseteq Rights
        BY ONLY VmmAssumption DEF Rights
      <4> QED BY <3>1, <3>2, <4>1
    <3> DEFINE phys == asked[1]
               flags == asked[2]
    <3>4. "map" \in {"map", "unmap"} /\ phys \in {NoFrame} \union Nat /\ phys \in Nat /\ flags \in Rights
      BY <3>3
    <3>5. Begin("map", virt, phys, flags)
      BY <3>1
    <3> HIDE DEF Begin, phys, flags
    <3> QED BY ONLY <3>4, <3>5, Zenon
  <2>2. CASE vmm_unmap_page
    <3>1. PICK virt \in VirtualPages : Begin("unmap", virt, NoFrame, {})
      BY <2>2 DEF vmm_unmap_page
    <3>2. {} \in Rights
      BY DEF Rights
    <3> QED BY <3>1, <3>2
  <2> QED BY <2>1, <2>2
<1>2. /\ Idle /\ UNCHANGED <<pmmVars, memory, tlb, answer>>
      /\ call' = [op |-> op, virt |-> virt, phys |-> phys, flags |-> flags,
                  level |-> 4, table |-> pml4]
  BY <1>1 DEF Begin
<1>3. TreeInv' /\ LinkedTables' = LinkedTables
  BY <1>2, MemoryStays DEF VmmInv
<1>4. FramesInv'
  BY <1>2, <1>3, FramesStay DEF VmmInv
<1>5. AllCachedRight
  BY <1>2, CachedRight
<1>6. (tlb \in [VirtualPages -> Translations])' /\ TlbCoherent'
  <2>1. \A page \in VirtualPages : HardwareWalk(page)' = HardwareWalk(page)
    BY <1>2, MemoryStays DEF VmmInv
  <2> QED BY <1>2, <1>5, <2>1, TlbStays DEF VmmInv
<1>7. CallInv'
  <2>1. call' \in Calls
    BY <1>1, <1>2, TableNumbers DEF Calls
  <2>2. Reached(call.virt, call.level, call.table)'
    BY <1>2 DEF Reached, pml4
  <2>3. IF call'.op = "map" THEN call'.phys \in Nat ELSE call'.phys = NoFrame /\ call'.flags = {}
    BY <1>1, <1>2
  <2>4. call'.level # 0
    BY <1>2
  <2> QED BY <2>1, <2>2, <2>3, <2>4 DEF CallInv
<1>8. AboveTheFirstGiB'
  BY DEF VmmInv, AboveTheFirstGiB
<1>9. answer' \in BOOLEAN
  BY <1>2 DEF VmmInv
<1> QED BY <1>3, <1>4, <1>6, <1>7, <1>8, <1>9 DEF VmmInv

\* It follows the entry it finds.
LEMMA DescendStep == VmmInv /\ call # NoCall /\ Descend => VmmInv'
<1> SUFFICES ASSUME VmmInv, call # NoCall, Descend PROVE VmmInv'
  OBVIOUS
<1>1. /\ call.level > 1 /\ IsPresent(CurrentEntry)
      /\ call' = [call EXCEPT !.level = @ - 1, !.table = CurrentEntry.frame]
      /\ UNCHANGED <<pmmVars, memory, tlb, answer>>
  BY DEF Descend
<1>2. TreeInv' /\ LinkedTables' = LinkedTables
  BY <1>1, MemoryStays DEF VmmInv
<1>3. FramesInv'
  BY <1>1, <1>2, FramesStay DEF VmmInv
<1>4. AllCachedRight
  BY <1>1, CachedRight
<1>5. (tlb \in [VirtualPages -> Translations])' /\ TlbCoherent'
  <2>1. \A page \in VirtualPages : HardwareWalk(page)' = HardwareWalk(page)
    BY <1>1, MemoryStays DEF VmmInv
  <2> QED BY <1>1, <1>4, <2>1, TlbStays DEF VmmInv
<1>6. /\ call \in Calls /\ Reached(call.virt, call.level, call.table)
      /\ IF call.op = "map" THEN call.phys \in Nat ELSE call.phys = NoFrame /\ call.flags = {}
  BY DEF VmmInv, CallInv
<1>7. /\ call.level = 4 => CurrentEntry = Pml4e(call.virt)
      /\ call.level = 3 => CurrentEntry = Pdpte(call.virt)
      /\ call.level = 2 => CurrentEntry = Pde(call.virt)
      /\ call.level \in 2 .. 4 /\ call.virt \in VirtualPages
  BY <1>1, EntryOfWay DEF VmmInv
<1>8. /\ call.level = 4 => HasPdpt(call.virt)
      /\ call.level = 3 => HasPd(call.virt)
      /\ call.level = 2 => HasPt(call.virt)
  BY <1>1, <1>6, <1>7 DEF Reached, HasPdpt, HasPd, HasPt
<1>9. /\ call'.level = call.level - 1 /\ call'.table = CurrentEntry.frame
      /\ call'.virt = call.virt /\ call'.op = call.op /\ call'.phys = call.phys
      /\ call'.flags = call.flags
  BY <1>1, <1>6 DEF Calls
<1>10. CurrentEntry.frame \in {NoFrame} \union Nat
  <2>1. WayTo(call.virt) /\ LevelsApart
    BY <1>7, WaysExact, TreeLevelsApart DEF Ways, VmmInv
  <2>2. Pdpts \subseteq Nat /\ Pds \subseteq Nat /\ Pts \subseteq Nat
    BY <2>1, TableNumbers DEF LevelsApart, LinkedTables
  <2>3. call.level = 4 \/ call.level = 3 \/ call.level = 2
    BY <1>7
  <2> QED BY <1>7, <1>8, <2>1, <2>2, <2>3 DEF WayTo
<1>11. call' \in Calls
  <2>1. call' = [op |-> call.op, virt |-> call.virt, phys |-> call.phys, flags |-> call.flags,
                 level |-> call.level - 1, table |-> CurrentEntry.frame]
    BY <1>1, <1>6 DEF Calls
  <2>2. call.level - 1 \in 0 .. 4
    BY <1>7
  <2>3. call.op \in {"map", "unmap"} /\ call.virt \in VirtualPages
        /\ call.phys \in {NoFrame} \union Nat /\ call.flags \in Rights
    BY <1>6 DEF Calls
  <2> QED BY <1>10, <2>1, <2>2, <2>3 DEF Calls
<1>12. Reached(call.virt, call.level, call.table)'
  <2>1. /\ HasPdpt(call.virt)' <=> HasPdpt(call.virt)
        /\ HasPd(call.virt)' <=> HasPd(call.virt)
        /\ HasPt(call.virt)' <=> HasPt(call.virt)
        /\ Pml4e(call.virt)' = Pml4e(call.virt) /\ Pdpte(call.virt)' = Pdpte(call.virt)
        /\ Pde(call.virt)' = Pde(call.virt)
    BY <1>1, MemoryStays DEF VmmInv
  <2> QED BY <1>7, <1>8, <1>9, <2>1 DEF Reached
<1>13. CallInv'
  <2>1. IF call'.op = "map" THEN call'.phys \in Nat ELSE call'.phys = NoFrame /\ call'.flags = {}
    BY <1>6, <1>9
  <2>2. call'.level # 0
    BY <1>7, <1>9
  <2> QED BY <1>11, <1>12, <2>1, <2>2 DEF CallInv
<1>14. AboveTheFirstGiB' /\ answer' \in BOOLEAN
  BY <1>1 DEF VmmInv, AboveTheFirstGiB
<1> QED BY <1>2, <1>3, <1>5, <1>13, <1>14 DEF VmmInv

\* A call that finds an absent entry links a frame nobody had there.
LEMMA CreatesLink ==
    ASSUME VmmInv, CreateTable
    PROVE  /\ call \in Calls /\ call.phys \in Nat /\ call.level \in 2 .. 4
           /\ Reached(call.virt, call.level, call.table)
           /\ call.table \in Upper /\ TableIndex(call.virt, call.level) \in Index
           /\ \E page \in Pages :
                /\ TakePage(page)
                /\ call' = [call EXCEPT !.level = @ - 1, !.table = page]
                /\ page \notin AllocatedPages /\ CounterDrift' /\ PmmTypeOK'
                /\ AllocatedPages' = AllocatedPages \union {page}
                /\ LinkPage(call.table, TableIndex(call.virt, call.level), page)
<1>1. PICK page \in Pages : TakePage(page) /\ LinkNewTable(page)
          /\ call' = [call EXCEPT !.level = @ - 1, !.table = page]
  BY DEF CreateTable
<1>2. /\ call.op = "map" /\ call.level > 1 /\ ~ IsPresent(CurrentEntry)
      /\ UNCHANGED <<held, tlb, answer>>
  BY DEF CreateTable
<1>3. call # NoCall
  BY <1>2 DEF NoCall
<1>4. /\ call \in Calls /\ Reached(call.virt, call.level, call.table)
      /\ call.phys \in Nat
  BY <1>2, <1>3 DEF VmmInv, CallInv
<1>5. call.level \in 2 .. 4 /\ call.virt \in VirtualPages
  BY <1>2, <1>4 DEF Calls
<1>6. /\ call.virt[1] \in Index /\ call.virt[2] \in Index /\ call.virt[3] \in Index
      /\ WayTo(call.virt)
  BY <1>5, PageIndices, WaysExact DEF VmmInv, Ways
<1>7. call.table \in Upper /\ TableIndex(call.virt, call.level) \in Index
  BY <1>4, <1>5, <1>6 DEF Reached, TableIndex, WayTo, Upper
<1>8. page \notin AllocatedPages /\ CounterDrift' /\ PmmTypeOK'
      /\ AllocatedPages' = AllocatedPages \union {page}
  BY <1>1, <1>2, TakePageExact DEF VmmInv, FramesInv, PmmTypeOK
<1>9. page \in Pages \ Reserved /\ page \notin LinkedTables
  BY <1>8, TableNumbers DEF VmmInv, FramesInv, NoFrameLost
<1>10. LinkPage(call.table, TableIndex(call.virt, call.level), page)
  BY <1>1, <1>2, <1>9 DEF LinkPage, LinkNewTable, CurrentEntry
<1> QED BY <1>1, <1>4, <1>5, <1>7, <1>8, <1>10

\* The table it links is one frame more, which nobody had.
LEMMA CreateTableStep == VmmInv /\ CreateTable => VmmInv'
<1> SUFFICES ASSUME VmmInv, CreateTable PROVE VmmInv'
  OBVIOUS
<1> DEFINE table == call.table
           i == TableIndex(call.virt, call.level)
<1>1. PICK page \in Pages :
          /\ TakePage(page)
          /\ call' = [call EXCEPT !.level = @ - 1, !.table = page]
          /\ page \notin AllocatedPages /\ CounterDrift' /\ PmmTypeOK'
          /\ AllocatedPages' = AllocatedPages \union {page}
          /\ LinkPage(table, i, page)
  BY CreatesLink
<1>2. call.op = "map" /\ UNCHANGED <<held, tlb, answer>>
  BY DEF CreateTable
<1>3. /\ call \in Calls /\ Reached(call.virt, call.level, call.table) /\ call.phys \in Nat
      /\ call.level \in 2 .. 4 /\ i \in Index /\ table \in Upper
  BY CreatesLink
<1>4. call.virt \in VirtualPages
  BY <1>3 DEF Calls
<1>5. /\ call.level = 4 => table = pml4 /\ i = call.virt[1]
      /\ call.level = 3 => HasPdpt(call.virt) /\ table = Pml4e(call.virt).frame /\ i = call.virt[2]
      /\ call.level = 2 => HasPd(call.virt) /\ table = Pdpte(call.virt).frame /\ i = call.virt[3]
  BY <1>3 DEF Reached, TableIndex
<1>6. page \in Pages \ Reserved /\ page \notin LinkedTables /\ page \notin held
  BY <1>1, TableNumbers DEF VmmInv, FramesInv, NoFrameLost
<1> HIDE DEF table, i
<1>7. TreeInv' /\ LinkedTables' = LinkedTables \union {page}
  BY <1>1, <1>3, LinkKeepsTree DEF VmmInv
<1>8. memory'[table][i] = Entry(page, {PT_WRITABLE})
  BY <1>1, <1>3, LinkKeepsTree DEF VmmInv
<1>9. \A virt \in VirtualPages : KeepsWay(virt) /\ HardwareWalk(virt)' = HardwareWalk(virt)
  BY <1>1, <1>3, LinkKeepsWalks DEF VmmInv
<1>10. FramesInv'
  <2>1. NoFrameLost'
    BY <1>1, <1>2, <1>6, <1>7, TableNumbers DEF VmmInv, FramesInv, NoFrameLost
  <2>2. (LinkedTables \intersect held)' = {} /\ (Reserved \intersect held)' = {}
    BY <1>2, <1>6, <1>7 DEF VmmInv, FramesInv
  <2> QED BY <1>1, <2>1, <2>2 DEF FramesInv
<1>11. (tlb \in [VirtualPages -> Translations])' /\ TlbCoherent'
  <2>1. AllCachedRight
    BY <1>3, CachedRight
  <2> QED BY <1>2, <1>9, <2>1, TlbStays DEF VmmInv
<1>12. page # NoFrame /\ page \in Nat
  BY Layout DEF Pages, NoFrame
<1>13. call' = [op |-> call.op, virt |-> call.virt, phys |-> call.phys, flags |-> call.flags,
                level |-> call.level - 1, table |-> page]
  BY <1>1, <1>3 DEF Calls
<1>14. call' \in Calls
  <2>1. call.level - 1 \in 0 .. 4
    BY <1>3
  <2>2. call.op \in {"map", "unmap"} /\ call.virt \in VirtualPages
        /\ call.phys \in {NoFrame} \union Nat /\ call.flags \in Rights
    BY <1>3 DEF Calls
  <2> QED BY <1>12, <1>13, <2>1, <2>2 DEF Calls
<1>15. Entry(page, {PT_WRITABLE}).frame = page
  BY DEF Entry
<1>16. Reached(call.virt, call.level, call.table)'
  <2>1. call'.virt = call.virt /\ call'.level = call.level - 1 /\ call'.table = page
    BY <1>13
  <2>2. KeepsWay(call.virt)
    BY <1>4, <1>9
  <2>3. ASSUME call.level = 4 PROVE HasPdpt(call.virt)' /\ page = Pml4e(call.virt)'.frame
    <3>1. Pml4e(call.virt)' = Entry(page, {PT_WRITABLE})
      BY <1>5, <1>8, <2>1, <2>3 DEF Pml4e, pml4
    <3> QED BY <1>12, <1>15, <3>1 DEF HasPdpt, IsPresent
  <2>4. ASSUME call.level = 3 PROVE HasPd(call.virt)' /\ page = Pdpte(call.virt)'.frame
    <3>1. Pml4e(call.virt)' = Pml4e(call.virt) /\ HasPdpt(call.virt)
      BY <1>5, <2>1, <2>2, <2>4 DEF KeepsWay
    <3>2. Pdpte(call.virt)' = Entry(page, {PT_WRITABLE})
      BY <1>5, <1>8, <2>1, <2>4, <3>1 DEF Pdpte
    <3> QED BY <1>12, <1>15, <3>1, <3>2 DEF HasPd, HasPdpt, IsPresent
  <2>5. ASSUME call.level = 2 PROVE HasPt(call.virt)' /\ page = Pde(call.virt)'.frame
    <3>1. Pml4e(call.virt)' = Pml4e(call.virt) /\ HasPdpt(call.virt)
          /\ Pdpte(call.virt)' = Pdpte(call.virt) /\ HasPd(call.virt)
      BY <1>5, <2>1, <2>2, <2>5 DEF KeepsWay, HasPd
    <3>2. Pde(call.virt)' = Entry(page, {PT_WRITABLE})
      BY <1>5, <1>8, <2>1, <2>5, <3>1 DEF Pde
    <3> QED BY <1>12, <1>15, <3>1, <3>2 DEF HasPt, HasPd, HasPdpt, IsPresent
  <2> QED BY <1>3, <2>1, <2>3, <2>4, <2>5 DEF Reached
<1>17. CallInv'
  <2>1. call'.op = "map" /\ call'.phys \in Nat
    BY <1>2, <1>3, <1>13
  <2>2. call'.level # 0
    BY <1>3, <1>13
  <2> QED BY <1>14, <1>16, <2>1, <2>2 DEF CallInv
<1>18. AboveTheFirstGiB' /\ answer' \in BOOLEAN
  BY <1>2 DEF VmmInv, AboveTheFirstGiB
<1> QED BY <1>7, <1>10, <1>11, <1>17, <1>18 DEF VmmInv

\* A call that fails, or that finds nothing to unmap, changes nothing.
LEMMA EarlyReturnStep == VmmInv /\ call # NoCall /\ (MapFails \/ NothingToUnmap) => VmmInv'
<1> SUFFICES ASSUME VmmInv, call # NoCall, MapFails \/ NothingToUnmap PROVE VmmInv'
  OBVIOUS
<1>1. /\ call.level > 1 /\ call' = NoCall /\ answer' \in BOOLEAN
      /\ UNCHANGED <<held, memory, tlb>>
      /\ NoPageLeft \/ UNCHANGED pmmVars
  BY DEF MapFails, NothingToUnmap, Return, pmmVars
<1>2. TreeInv' /\ LinkedTables' = LinkedTables
  BY <1>1, MemoryStays DEF VmmInv
<1>3. FramesInv'
  BY <1>1, <1>2, FramesStay, FramesStayWithoutAPage DEF VmmInv
<1>4. AllCachedRight
  BY <1>1, CachedRight
<1>5. (tlb \in [VirtualPages -> Translations])' /\ TlbCoherent'
  <2>1. \A page \in VirtualPages : HardwareWalk(page)' = HardwareWalk(page)
    BY <1>1, MemoryStays DEF VmmInv
  <2> QED BY <1>1, <1>4, <2>1, TlbStays DEF VmmInv
<1>6. CallInv' /\ AboveTheFirstGiB'
  BY <1>1 DEF CallInv, VmmInv, AboveTheFirstGiB
<1> QED BY <1>1, <1>2, <1>3, <1>5, <1>6 DEF VmmInv

\* What the last entry's page translates to once it is written.
LEMMA WrittenEntry ==
    ASSUME VmmInv, call # NoCall, WriteEntry
    PROVE  /\ call \in Calls /\ HasPt(call.virt)
           /\ Entry(call.phys, call.flags) \in Entries
           /\ WriteAt(Pde(call.virt).frame, call.virt[4], Entry(call.phys, call.flags))
<1>1. /\ call.level = 1 /\ call \in Calls
      /\ HasPt(call.virt) /\ call.table = Pde(call.virt).frame
  BY DEF WriteEntry, VmmInv, CallInv, Reached
<1>2. call.phys \in {NoFrame} \union Nat /\ call.flags \in Rights
  BY <1>1 DEF Calls
<1>3. Entry(call.phys, call.flags) \in Entries
  BY <1>2 DEF Entry, Entries
<1>4. TableIndex(call.virt, 1) = call.virt[4]
  BY DEF TableIndex
<1> QED BY <1>1, <1>3, <1>4 DEF WriteEntry, WriteAt

\* The entry is written; the TLB may be wrong about this page until the flush.
LEMMA WriteEntryStep == VmmInv /\ call # NoCall /\ WriteEntry => VmmInv'
<1> SUFFICES ASSUME VmmInv, call # NoCall, WriteEntry PROVE VmmInv'
  OBVIOUS
<1>1. /\ call.level = 1 /\ call' = [call EXCEPT !.level = 0]
      /\ UNCHANGED <<pmmVars, tlb, answer>>
  BY DEF WriteEntry
<1>2. /\ call \in Calls /\ HasPt(call.virt) /\ Entry(call.phys, call.flags) \in Entries
      /\ WriteAt(Pde(call.virt).frame, call.virt[4], Entry(call.phys, call.flags))
  BY WrittenEntry
<1>3. /\ call.virt \in VirtualPages /\ call.table = Pde(call.virt).frame
      /\ IF call.op = "map" THEN call.phys \in Nat ELSE call.phys = NoFrame /\ call.flags = {}
  BY <1>1, <1>2 DEF VmmInv, CallInv, Reached, Calls
<1>4. TreeInv' /\ LinkedTables' = LinkedTables
  BY <1>2, <1>3, LeafKeepsWalks DEF VmmInv
<1>5. HasPt(call.virt)' /\ Pte(call.virt)' = Entry(call.phys, call.flags)
  <2> DEFINE page == call.virt
             entry == Entry(call.phys, call.flags)
  <2>1. page \in VirtualPages /\ entry \in Entries /\ HasPt(page)
        /\ WriteAt(Pde(page).frame, page[4], entry)
    BY <1>2, <1>3
  <2>2. call'.virt = call.virt
    BY <1>1, <1>2 DEF Calls
  <2> QED BY <2>1, <2>2, LeafKeepsWalks DEF VmmInv
<1>6. \A virt \in VirtualPages \ {call.virt} : HardwareWalk(virt)' = HardwareWalk(virt)
  BY <1>2, <1>3, LeafKeepsWalks DEF VmmInv
<1>7. KeepsWay(call.virt)
  BY <1>2, <1>3, LeafKeepsWalks DEF VmmInv
<1>8. FramesInv'
  BY <1>1, <1>4, FramesStay DEF VmmInv
<1>9. call' = [op |-> call.op, virt |-> call.virt, phys |-> call.phys, flags |-> call.flags,
               level |-> 0, table |-> call.table]
  BY <1>1, <1>2 DEF Calls
<1>10. CallInv'
  <2>1. call' \in Calls
    BY <1>2, <1>9 DEF Calls
  <2>2. Pde(call.virt)' = Pde(call.virt)
    BY <1>2, <1>7, <1>9 DEF KeepsWay
  <2>3. Reached(call.virt, call.level, call.table)'
    BY <1>3, <1>5, <1>9, <2>2 DEF Reached
  <2>4. IF call'.op = "map" THEN call'.phys \in Nat ELSE call'.phys = NoFrame /\ call'.flags = {}
    BY <1>3, <1>9
  <2>5. Pte(call.virt)' = Entry(call'.phys, call'.flags)
    BY <1>5, <1>9
  <2> QED BY <2>1, <2>3, <2>4, <2>5 DEF CallInv, Entry
<1>11. AllCachedRight
  BY <1>1, CachedRight
<1>12. TlbCoherent'
  <2>1. call'.virt = call.virt /\ call'.level = 0
    BY <1>9
  <2> QED BY <1>1, <1>6, <1>11, <2>1 DEF TlbCoherent, AllCachedRight, NoTranslation
<1>13. (tlb \in [VirtualPages -> Translations])'
  BY <1>1 DEF VmmInv, Translations, Rights
<1>14. AboveTheFirstGiB' /\ answer' \in BOOLEAN
  BY <1>1 DEF VmmInv, AboveTheFirstGiB
<1> QED BY <1>4, <1>8, <1>10, <1>12, <1>13, <1>14 DEF VmmInv

\* invlpg drops the one translation that may be stale.
LEMMA InvlpgStep == VmmInv /\ Invlpg => VmmInv'
<1> SUFFICES ASSUME VmmInv, Invlpg PROVE VmmInv'
  OBVIOUS
<1>1. /\ call # NoCall /\ call.level = 0 /\ call' = NoCall /\ answer' = TRUE
      /\ tlb' = [tlb EXCEPT ![call.virt] = NoTranslation]
      /\ UNCHANGED <<pmmVars, memory>>
  BY DEF Invlpg, Idle, Return
<1>2. TreeInv' /\ LinkedTables' = LinkedTables
  BY <1>1, MemoryStays DEF VmmInv
<1>3. FramesInv'
  BY <1>1, <1>2, FramesStay DEF VmmInv
<1>4. \A virt \in VirtualPages : HardwareWalk(virt)' = HardwareWalk(virt)
  BY <1>1, MemoryStays DEF VmmInv
<1>5. AllCachedRight'
  BY <1>1, <1>4 DEF AllCachedRight, VmmInv, TlbCoherent, NoTranslation
<1>6. TlbCoherent'
  BY <1>5, RightIsCoherent, PTL
<1>7. NoTranslation \in Translations
  BY DEF NoTranslation, Translations, Rights
<1>8. tlb' \in [VirtualPages -> Translations]
  BY <1>1, <1>7 DEF VmmInv
<1>9. (tlb \in [VirtualPages -> Translations])'
  BY <1>8 DEF Translations, Rights
<1>10. CallInv' /\ AboveTheFirstGiB'
  BY <1>1 DEF CallInv, VmmInv, AboveTheFirstGiB
<1> QED BY <1>1, <1>2, <1>3, <1>6, <1>9, <1>10 DEF VmmInv

-----------------------------------------------------------------------------
(* The steps of the rest of the machine. *)

\* Where a call has come does not change under it.
LEMMA CallStays ==
    ASSUME VmmInv, UNCHANGED <<memory, call>>
    PROVE  CallInv'
<1> SUFFICES ASSUME call' # NoCall
             PROVE  /\ (call \in Calls)'
                    /\ (IF call.op = "map" THEN call.phys \in Nat
                        ELSE call.phys = NoFrame /\ call.flags = {})'
                    /\ Reached(call.virt, call.level, call.table)'
                    /\ (call.level = 0 => Pte(call.virt) = Entry(call.phys, call.flags))'
  BY DEF CallInv
<1>1. /\ call \in Calls /\ Reached(call.virt, call.level, call.table)
      /\ IF call.op = "map" THEN call.phys \in Nat ELSE call.phys = NoFrame /\ call.flags = {}
      /\ call.level = 0 => Pte(call.virt) = Entry(call.phys, call.flags)
  BY DEF VmmInv, CallInv
<1>2. (call \in Calls)'
  BY <1>1 DEF Calls, Rights
<1>3. /\ HasPdpt(call.virt)' <=> HasPdpt(call.virt)
      /\ HasPd(call.virt)' <=> HasPd(call.virt)
      /\ HasPt(call.virt)' <=> HasPt(call.virt)
      /\ Pml4e(call.virt)' = Pml4e(call.virt) /\ Pdpte(call.virt)' = Pdpte(call.virt)
      /\ Pde(call.virt)' = Pde(call.virt) /\ Pte(call.virt)' = Pte(call.virt)
  <2>1. ASSUME NEW virt
        PROVE  /\ HasPdpt(virt)' <=> HasPdpt(virt)
               /\ HasPd(virt)' <=> HasPd(virt)
               /\ HasPt(virt)' <=> HasPt(virt)
               /\ Pml4e(virt)' = Pml4e(virt) /\ Pdpte(virt)' = Pdpte(virt)
               /\ Pde(virt)' = Pde(virt) /\ Pte(virt)' = Pte(virt)
    BY MemoryStays DEF VmmInv
  <2>2. call'.virt = call.virt
    OBVIOUS
  <2> QED BY <2>1, <2>2
<1>4. Reached(call.virt, call.level, call.table)'
  BY <1>1, <1>3 DEF Reached, pml4
<1>5. (call.level = 0 => Pte(call.virt) = Entry(call.phys, call.flags))'
  BY <1>1, <1>3 DEF Entry
<1> QED BY <1>1, <1>2, <1>4, <1>5

\* The TLB takes what the tables say, and may drop it.
LEMMA TlbStep == VmmInv /\ (TlbFill \/ TlbEvict) => VmmInv'
<1> SUFFICES ASSUME VmmInv, TlbFill \/ TlbEvict PROVE VmmInv'
  OBVIOUS
<1>1. PICK page \in VirtualPages,
           new \in {NoTranslation} \union {HardwareWalk(virt) : virt \in VirtualPages} :
          /\ new = NoTranslation \/ new = HardwareWalk(page)
          /\ tlb' = [tlb EXCEPT ![page] = new]
          /\ UNCHANGED <<pmmVars, memory, call, answer>>
  BY DEF TlbFill, TlbEvict
<1>2. TreeInv' /\ LinkedTables' = LinkedTables
  BY <1>1, MemoryStays DEF VmmInv
<1>3. FramesInv'
  BY <1>1, <1>2, FramesStay DEF VmmInv
<1>4. \A virt \in VirtualPages : HardwareWalk(virt)' = HardwareWalk(virt)
  BY <1>1, MemoryStays DEF VmmInv
<1>5. TlbCoherent'
  BY <1>1, <1>4 DEF VmmInv, TlbCoherent, NoTranslation
<1>6. new \in Translations
  <2>1. NoTranslation \in Translations
    BY DEF NoTranslation, Translations, Rights
  <2> QED BY <1>1, <2>1, WalkTyped DEF VmmInv
<1>7. tlb' \in [VirtualPages -> Translations]
  BY <1>1, <1>6 DEF VmmInv
<1>8. (tlb \in [VirtualPages -> Translations])'
  BY <1>7 DEF Translations, Rights
<1>9. CallInv'
  BY <1>1, CallStays
<1>10. AboveTheFirstGiB' /\ answer' \in BOOLEAN
  BY <1>1 DEF VmmInv, AboveTheFirstGiB
<1> QED BY <1>2, <1>3, <1>5, <1>8, <1>9, <1>10 DEF VmmInv

\* Others take and free frames that are no tables.
LEMMA OthersStep == VmmInv /\ (OthersAllocate \/ OthersFree) => VmmInv'
<1> SUFFICES ASSUME VmmInv, OthersAllocate \/ OthersFree PROVE VmmInv'
  OBVIOUS
<1>1. Idle /\ UNCHANGED <<memory, tlb, call, answer>>
  BY DEF OthersAllocate, OthersFree
<1>2. TreeInv' /\ LinkedTables' = LinkedTables
  BY <1>1, MemoryStays DEF VmmInv
<1>3. FramesInv'
  <2>1. /\ PmmTypeOK /\ CounterDrift /\ held \subseteq Pages
        /\ AllocatedPages = Reserved \union held \union (LinkedTables \ BootTables)
        /\ Reserved \intersect held = {} /\ LinkedTables \intersect held = {}
    BY DEF VmmInv, FramesInv, NoFrameLost, PmmTypeOK
  <2>2. Reserved' = Reserved /\ BootTables' = BootTables
    BY DEF Reserved, LowPages, KernelPages, BitmapPages, BootTables
  <2>3. ASSUME NEW page \in Pages, TakePage(page), held' = held \union {page} PROVE FramesInv'
    <3>1. page \notin AllocatedPages /\ AllocatedPages' = AllocatedPages \union {page}
          /\ CounterDrift' /\ PmmTypeOK'
      BY <2>1, <2>3, TakePageExact
    <3>2. page \notin Reserved /\ page \notin LinkedTables
      BY <2>1, <3>1, TableNumbers
    <3>3. NoFrameLost'
      BY <1>2, <2>1, <2>2, <2>3, <3>1 DEF NoFrameLost
    <3> QED BY <1>2, <2>1, <2>2, <2>3, <3>1, <3>2, <3>3 DEF FramesInv
  <2>4. ASSUME NoPageLeft, UNCHANGED held PROVE FramesInv'
    BY <1>2, <2>4, FramesStayWithoutAPage DEF VmmInv
  <2>5. ASSUME NEW page \in held, pmm_free_page(page * PAGE_SIZE) PROVE FramesInv'
    <3>1. (page * PAGE_SIZE) \div PAGE_SIZE = page
      <4>1. \A n \in Nat : (n * 4096) \div 4096 = n
        OBVIOUS
      <4>2. page \in Nat
        BY <2>1, Layout DEF Pages
      <4> QED BY <4>1, <4>2 DEF PAGE_SIZE
    <3>2. GivePage(page) /\ held' = held \ {page} /\ UNCHANGED returned
      BY <2>5, <3>1 DEF pmm_free_page
    <3>3. page \in AllocatedPages
      BY <2>1
    <3>4. AllocatedPages' = AllocatedPages \ {page} /\ CounterDrift' /\ PmmTypeOK'
      BY <2>1, <3>2, <3>3, GivePageExact
    <3>5. NoFrameLost'
      BY <1>2, <2>1, <2>2, <3>2, <3>4 DEF NoFrameLost
    <3> QED BY <1>2, <2>1, <2>2, <3>2, <3>4, <3>5 DEF FramesInv
  <2> QED BY <2>3, <2>4, <2>5 DEF OthersAllocate, OthersFree, pmm_alloc_page
<1>4. (tlb \in [VirtualPages -> Translations])' /\ TlbCoherent'
  <2>1. \A page \in VirtualPages : HardwareWalk(page)' = HardwareWalk(page)
    BY <1>1, MemoryStays DEF VmmInv
  <2>2. AllCachedRight
    BY <1>1, CachedRight
  <2> QED BY <1>1, <2>1, <2>2, TlbStays DEF VmmInv
<1>5. CallInv'
  BY <1>1, CallStays
<1>6. AboveTheFirstGiB' /\ answer' \in BOOLEAN
  BY <1>1 DEF VmmInv, AboveTheFirstGiB
<1> QED BY <1>2, <1>3, <1>4, <1>5, <1>6 DEF VmmInv

\* A step that changes nothing.
LEMMA StutterStep == VmmInv /\ UNCHANGED vmmVars => VmmInv'
<1> SUFFICES ASSUME VmmInv, UNCHANGED vmmVars PROVE VmmInv'
  OBVIOUS
<1>1. UNCHANGED <<pmmVars, memory, tlb, call, answer>>
  BY DEF vmmVars
<1>2. TreeInv' /\ LinkedTables' = LinkedTables
  BY <1>1, MemoryStays DEF VmmInv
<1>3. FramesInv'
  BY <1>1, <1>2, FramesStay DEF VmmInv
<1>4. \A virt \in VirtualPages : HardwareWalk(virt)' = HardwareWalk(virt)
  BY <1>1, MemoryStays DEF VmmInv
<1>5. TlbCoherent'
  BY <1>1, <1>4 DEF VmmInv, TlbCoherent, NoTranslation
<1>6. (tlb \in [VirtualPages -> Translations])'
  BY <1>1 DEF VmmInv, Translations, Rights
<1>7. CallInv'
  BY <1>1, CallStays
<1>8. AboveTheFirstGiB' /\ answer' \in BOOLEAN
  BY <1>1 DEF VmmInv, AboveTheFirstGiB
<1> QED BY <1>2, <1>3, <1>5, <1>6, <1>7, <1>8 DEF VmmInv

-----------------------------------------------------------------------------
(* The theorems. *)

\* Every step keeps the invariant.
LEMMA NextPreservesVmmInv == VmmInv /\ [VmmNext]_vmmVars => VmmInv'
<1> SUFFICES ASSUME VmmInv, [VmmNext]_vmmVars PROVE VmmInv'
  OBVIOUS
<1>1. CASE vmm_map_page \/ vmm_unmap_page
  BY <1>1, BeginStep
<1>2. CASE Descend
  <2>1. call # NoCall
    BY <1>2 DEF Descend, NoCall
  <2> QED BY <1>2, <2>1, DescendStep
<1>3. CASE CreateTable
  BY <1>3, CreateTableStep
<1>4. CASE MapFails \/ NothingToUnmap
  <2>1. call.level > 1
    BY <1>4 DEF MapFails, NothingToUnmap
  <2>2. NoCall.level = 0
    BY DEF NoCall
  <2>3. call # NoCall
    BY <2>1, <2>2
  <2> QED BY <1>4, <2>3, EarlyReturnStep
<1>5. CASE WriteEntry
  <2>1. call # NoCall
    BY <1>5 DEF WriteEntry, NoCall
  <2> QED BY <1>5, <2>1, WriteEntryStep
<1>6. CASE Invlpg
  BY <1>6, InvlpgStep
<1>7. CASE TlbFill \/ TlbEvict
  BY <1>7, TlbStep
<1>8. CASE OthersAllocate \/ OthersFree
  BY <1>8, OthersStep
<1>9. CASE UNCHANGED vmmVars
  BY <1>9, StutterStep
<1> QED BY <1>1, <1>2, <1>3, <1>4, <1>5, <1>6, <1>7, <1>8, <1>9 DEF VmmNext

\* The invariant holds in every reachable state.
LEMMA VmmInvariant == AboveTheFirstGiB /\ VmmSpec => []VmmInv
BY InitialVmm, NextPreservesVmmInv, PTL DEF VmmSpec

\* Every variable has its type, a call's level and the answer included.
THEOREM VmmTypes == AboveTheFirstGiB /\ VmmSpec => []VmmTypeOK
<1>1. VmmInv => VmmTypeOK
  <2> SUFFICES ASSUME VmmInv PROVE VmmTypeOK
    OBVIOUS
  <2>1. call.level \in 0 .. 4
    BY DEF VmmInv, CallInv, Calls, NoCall
  <2> QED BY <2>1 DEF VmmInv, FramesInv, TreeInv, VmmTypeOK
<1> QED BY <1>1, VmmInvariant, PTL

\* get_or_create_table and pmm_alloc_page never make a frame a table twice, nor
\* a table of a frame somebody holds.
THEOREM VmmTablesFormTree == AboveTheFirstGiB /\ VmmSpec => []TablesFormTree
<1>1. VmmInv => TablesFormTree
  <2> SUFFICES ASSUME VmmInv PROVE TablesFormTree
    OBVIOUS
  <2> DEFINE links(above) == {<<table, i>> : table \in above, i \in Index}
  <2>1. LevelsApart /\ Levels
    BY TreeLevelsApart, LevelsExact DEF VmmInv
  <2>2. ASSUME NEW above \in {{pml4}, Pdpts, Pds},
               NEW one \in {l \in links(above) : l[2] \in Links(l[1])},
               NEW other \in {l \in links(above) : l[2] \in Links(l[1])},
               memory[one[1]][one[2]].frame = memory[other[1]][other[2]].frame
        PROVE  one = other
    <3>1. above \subseteq Upper
      BY DEF Upper
    <3>2. /\ one = <<one[1], one[2]>> /\ one[1] \in Upper /\ one[2] \in Index
          /\ other = <<other[1], other[2]>> /\ other[1] \in Upper /\ other[2] \in Index
          /\ one[2] \in Links(one[1]) /\ other[2] \in Links(other[1])
      BY <3>1
    <3> DEFINE frame == memory[one[1]][one[2]].frame
    <3>3. LinkTo(one[1], one[2], frame) /\ LinkTo(other[1], other[2], frame)
      BY <2>2, <3>2 DEF Links, LinkTo, IsPresent
    <3>4. frame \in LinkedTables
      BY <2>1, <3>2, <3>3 DEF Levels, Upper, LinkedTables
    <3> HIDE DEF frame
    <3>5. frame \in Frames
      BY <2>1, <3>4 DEF LevelsApart
    <3>6. one[1] = other[1] /\ one[2] = other[2]
      BY <3>2, <3>3, <3>5 DEF VmmInv, TreeInv
    <3> QED BY <3>2, <3>6
  <2>3. Pdpts \intersect Pds = {} /\ Pdpts \intersect Pts = {} /\ Pds \intersect Pts = {}
    BY <2>1 DEF LevelsApart, Upper
  <2>4. LinkedTables \intersect held = {}
    BY DEF VmmInv, FramesInv
  <2> QED BY <2>2, <2>3, <2>4 DEF TablesFormTree
<1> QED BY <1>1, VmmInvariant, PTL

\* No frame is lost, also by a vmm_map_page that ran out of frames half way.
THEOREM VmmNoFrameLost == AboveTheFirstGiB /\ VmmSpec => []NoFrameLost
<1>1. VmmInv => NoFrameLost
  BY DEF VmmInv, FramesInv
<1> QED BY <1>1, VmmInvariant, PTL

\* invlpg of the one page is enough: no stale translation outlives its call.
THEOREM VmmTlbCoherent == AboveTheFirstGiB /\ VmmSpec => []TlbCoherent
<1>1. VmmInv => TlbCoherent
  BY DEF VmmInv
<1> QED BY <1>1, VmmInvariant, PTL

\* vmm_get_physical and vmm_is_mapped say what vmm.h says, at every instant of
\* any call.
THEOREM VmmPhysicalAsDocumented == AboveTheFirstGiB /\ VmmSpec => []PhysicalAsDocumented
<1>1. VmmInv => PhysicalAsDocumented
  <2> SUFFICES ASSUME VmmInv, NEW virt \in VirtualPages, NEW offset \in {0, 1, PAGE_SIZE - 1}
               PROVE  LET frame == HardwareWalk(virt).frame
                      IN  /\ vmm_get_physical(virt, offset) =
                               IF frame = NoFrame THEN 0 ELSE frame * PAGE_SIZE + offset
                          /\ vmm_is_mapped(virt, offset) <=>
                               frame # NoFrame /\ frame * PAGE_SIZE + offset # 0
    BY DEF PhysicalAsDocumented
  <2>1. WayTo(virt)
    BY WaysExact DEF VmmInv, Ways
  <2>2. TableIndex(virt, 4) = virt[1] /\ TableIndex(virt, 3) = virt[2]
        /\ TableIndex(virt, 2) = virt[3] /\ TableIndex(virt, 1) = virt[4]
    BY DEF TableIndex
  <2>3. vmm_get_physical(virt, offset) =
           IF HasPt(virt) /\ IsPresent(Pte(virt)) THEN Pte(virt).frame * PAGE_SIZE + offset ELSE 0
    <3>1. vmm_get_physical(virt, offset) =
             IF /\ IsPresent(Pml4e(virt)) /\ IsPresent(Pdpte(virt))
                /\ IsPresent(Pde(virt)) /\ IsPresent(Pte(virt))
             THEN Pte(virt).frame * PAGE_SIZE + offset ELSE 0
      BY ONLY <2>2 DEF vmm_get_physical, Pml4e, Pdpte, Pde, Pte
    <3> QED BY ONLY <3>1 DEF HasPt, HasPd, HasPdpt
  <2>4. HardwareWalk(virt).frame =
           IF HasPt(virt) /\ IsPresent(Pte(virt)) THEN Pte(virt).frame ELSE NoFrame
    BY <2>1 DEF WayTo, NoTranslation
  <2>5. vmm_get_physical(virt, offset) =
           IF HardwareWalk(virt).frame = NoFrame THEN 0
           ELSE HardwareWalk(virt).frame * PAGE_SIZE + offset
    BY <2>3, <2>4 DEF IsPresent
  <2> QED BY <2>5 DEF vmm_is_mapped
<1> QED BY <1>1, VmmInvariant, PTL

\* Once an entry leads to a table it does so for ever.
THEOREM VmmLinksNeverChange == AboveTheFirstGiB /\ VmmSpec => LinksNeverChange
<1>1. VmmInv /\ [VmmNext]_vmmVars =>
         [\A above \in {{pml4}, Pdpts, Pds} : \A table \in above : \A i \in Links(table) :
              memory'[table][i] = memory[table][i]]_vmmVars
  <2> SUFFICES ASSUME VmmInv, VmmNext, NEW above \in {{pml4}, Pdpts, Pds},
                      NEW table \in above, NEW i \in Links(table)
               PROVE  memory'[table][i] = memory[table][i]
    OBVIOUS
  <2>1. table \in Upper /\ i \in Index /\ IsPresent(memory[table][i]) /\ LevelsApart
    BY TreeLevelsApart DEF VmmInv, Upper, Links
  <2>2. CASE CreateTable
    <3>1. PICK from \in Upper, j \in Index, page \in Pages : LinkPage(from, j, page)
      BY <2>2, CreatesLink
    <3>2. \A other \in Frames \ {page} : \A k \in Index :
              other # from \/ k # j => memory'[other][k] = memory[other][k]
      BY <3>1, LinkKeepsTree DEF VmmInv
    <3>3. table # page /\ table \in Frames
      BY <2>1, <3>1, TableNumbers DEF LinkPage, LevelsApart, Upper, LinkedTables, BootTables
    <3> QED BY <2>1, <3>1, <3>2, <3>3 DEF LinkPage
  <2>3. CASE WriteEntry
    <3>1. call # NoCall
      BY <2>3 DEF WriteEntry, NoCall
    <3>2. /\ call \in Calls /\ HasPt(call.virt) /\ Entry(call.phys, call.flags) \in Entries
          /\ WriteAt(Pde(call.virt).frame, call.virt[4], Entry(call.phys, call.flags))
      BY <2>3, <3>1, WrittenEntry
    <3>3. Pde(call.virt).frame \in Pts /\ call.virt[4] \in Index
      BY <3>2, WaysExact, PageIndices DEF VmmInv, Ways, WayTo, Calls
    <3>4. \A other \in Frames : \A j \in Index :
              other # Pde(call.virt).frame \/ j # call.virt[4]
                  => memory'[other][j] = memory[other][j]
      BY <3>2, <3>3, LeafKeepsTree DEF VmmInv
    <3> QED BY <2>1, <3>3, <3>4 DEF LevelsApart
  <2>4. CASE UNCHANGED memory
    BY <2>4
  <2>5. CreateTable \/ WriteEntry \/ UNCHANGED memory
    BY DEF VmmNext, vmm_map_page, vmm_unmap_page, Begin, Descend, MapFails, NothingToUnmap,
           Invlpg, TlbFill, TlbEvict, OthersAllocate, OthersFree
  <2> QED BY <2>2, <2>3, <2>4, <2>5
<1> QED BY <1>1, VmmInvariant, PTL DEF VmmSpec, LinksNeverChange

\* What WriteEntry has the processor find is what the call asks for.
LEMMA EntryIsTarget ==
    ASSUME NEW entry, entry = Entry(call.phys, call.flags), call \in Calls,
           IF call.op = "map" THEN call.phys \in Nat ELSE call.phys = NoFrame /\ call.flags = {}
    PROVE  Target = IF IsPresent(entry)
                    THEN [frame |-> entry.frame, rights |-> {PT_WRITABLE} \intersect entry.flags]
                    ELSE NoTranslation
<1>1. entry.frame = call.phys /\ entry.flags = call.flags
  BY DEF Entry
<1>2. CASE call.op = "map"
  <2>1. IsPresent(entry)
    BY <1>1, <1>2 DEF IsPresent, NoFrame
  <2>2. call.flags \ {PT_USER} = {PT_WRITABLE} \intersect call.flags
    BY DEF Calls, Rights, PT_WRITABLE, PT_USER
  <2> QED BY <1>1, <1>2, <2>1, <2>2 DEF Target
<1>3. CASE call.op # "map"
  <2>1. ~ IsPresent(entry)
    BY <1>1, <1>3 DEF IsPresent
  <2> QED BY <1>3, <2>1 DEF Target
<1> QED BY <1>2, <1>3

\* Before the first call the processor finds nothing.
LEMMA InitialWalks ==
    ASSUME AboveTheFirstGiB, VmmInit, NEW virt \in VirtualPages
    PROVE  HardwareWalk(virt) = NoTranslation
<1>1. TreeInv /\ LinkedTables = {BootPdpt, BootPd}
  BY InitialTree
<1>2. LevelsApart /\ WayTo(virt)
  BY <1>1, TreeLevelsApart, WaysExact DEF Ways
<1>3. Pts = {}
  BY <1>1, <1>2 DEF LevelsApart, LinkedTables, Upper
<1> QED BY <1>2, <1>3 DEF WayTo

\* To the processor, the steps of a call are one change of one page.
THEOREM VmmImplementsAddressSpace == AboveTheFirstGiB /\ VmmSpec => ImplementsAddressSpace
<1> DEFINE Map == [virt \in VirtualPages |-> HardwareWalk(virt)]
           Request == [op |-> call.op, virt |-> call.virt, target |-> Target]
           Nothing == [op |-> "none", virt |-> <<>>, target |-> NoTranslation]
           Done == ~ Idle /\ call.level = 0
<1>1. AboveTheFirstGiB /\ VmmInit => Space!SpaceInit
  <2> SUFFICES ASSUME AboveTheFirstGiB, VmmInit PROVE Space!SpaceInit
    OBVIOUS
  <2>1. Map \in [VirtualPages -> {NoTranslation}]
    BY InitialWalks
  <2>2. call = NoCall /\ answer = TRUE
    BY DEF VmmInit
  <2>3. Request = Nothing
    BY <2>2 DEF NoCall, Target
  <2> QED BY <2>1, <2>2, <2>3 DEF Space!SpaceInit, Idle
<1>2. VmmInv /\ [VmmNext]_vmmVars => [Space!SpaceNext]_Space!spaceVars
  <2> SUFFICES ASSUME VmmInv, [VmmNext]_vmmVars PROVE [Space!SpaceNext]_Space!spaceVars
    OBVIOUS
  <2>1. ASSUME Idle PROVE Request = Nothing /\ ~ Done
    BY <2>1 DEF Idle, NoCall, Target
  <2>2. ASSUME call # NoCall
        PROVE  /\ call \in Calls /\ Request # Nothing
               /\ IF call.op = "map" THEN call.phys \in Nat
                  ELSE call.phys = NoFrame /\ call.flags = {}
    <3>1. /\ call \in Calls
          /\ IF call.op = "map" THEN call.phys \in Nat ELSE call.phys = NoFrame /\ call.flags = {}
      BY <2>2 DEF VmmInv, CallInv
    <3>2. call.op \in {"map", "unmap"}
      BY <3>1 DEF Calls
    <3> QED BY <3>1, <3>2
  <2>3. ASSUME UNCHANGED memory PROVE Map' = Map
    <3>1. \A virt \in VirtualPages : HardwareWalk(virt)' = HardwareWalk(virt)
      BY <2>3, MemoryStays DEF VmmInv
    <3> QED BY <3>1
  <2>4. ASSUME call' = NoCall PROVE Request' = Nothing /\ ~ Done'
    BY <2>4 DEF Idle, NoCall, Target, NoTranslation
  <2>5. CASE vmm_map_page \/ vmm_unmap_page
    <3>1. PICK op \in {"map", "unmap"}, virt \in VirtualPages :
              \E phys, flags : Begin(op, virt, phys, flags)
      BY <2>5 DEF vmm_map_page, vmm_unmap_page
    <3>2. /\ Idle /\ UNCHANGED <<memory, answer>>
          /\ call'.op = op /\ call'.virt = virt /\ call'.level = 4
      BY <3>1 DEF Begin
    <3>3. Request' # Nothing /\ Request'.virt = virt
      BY <3>1, <3>2
    <3>4. Request = Nothing /\ ~ Done /\ ~ Done'
      BY <2>1, <3>2
    <3> QED BY <2>3, <3>2, <3>3, <3>4 DEF Space!Ask, Space!SpaceNext
  <2>6. CASE Descend \/ CreateTable
    <3>1. /\ call # NoCall /\ call \in Calls /\ call.level > 1 /\ UNCHANGED answer
          /\ call'.op = call.op /\ call'.virt = call.virt /\ call'.phys = call.phys
          /\ call'.flags = call.flags /\ call'.level = call.level - 1
      <4>1. call.level > 1 /\ UNCHANGED answer
            /\ \E table : call' = [call EXCEPT !.level = @ - 1, !.table = table]
        BY <2>6 DEF Descend, CreateTable
      <4>2. call # NoCall
        BY <4>1 DEF NoCall
      <4> QED BY <2>2, <4>1, <4>2 DEF Calls
    <3>2. Map' = Map
      <4>1. CASE Descend
        BY <2>3, <4>1 DEF Descend
      <4>2. CASE CreateTable
        <5>1. call.table \in Upper /\ TableIndex(call.virt, call.level) \in Index
          BY <4>2, CreatesLink
        <5>2. PICK page : LinkPage(call.table, TableIndex(call.virt, call.level), page)
          BY <4>2, CreatesLink
        <5>3. \A virt \in VirtualPages : HardwareWalk(virt)' = HardwareWalk(virt)
          BY <5>1, <5>2, LinkKeepsWalks DEF VmmInv
        <5> QED BY <5>3
      <4> QED BY <2>6, <4>1, <4>2
    <3>3. Request' = Request
      BY <3>1 DEF Target, NoTranslation
    <3>4. ~ Done /\ ~ Done'
      BY <3>1 DEF Calls
    <3> QED BY <3>1, <3>2, <3>3, <3>4 DEF Space!spaceVars
  <2>7. CASE MapFails
    <3>1. call.op = "map" /\ call.level > 1 /\ call' = NoCall /\ answer' = FALSE
          /\ UNCHANGED memory
      BY <2>7 DEF MapFails, Return
    <3>2. call # NoCall /\ ~ Done
      BY <3>1 DEF NoCall
    <3>3. Request.op = "map" /\ Request # Nothing
      BY <3>1
    <3> QED BY <2>3, <2>4, <3>1, <3>2, <3>3 DEF Space!Answer, Space!SpaceNext
  <2>8. CASE NothingToUnmap
    <3>1. call.op = "unmap" /\ call.level > 1 /\ ~ IsPresent(CurrentEntry)
          /\ call' = NoCall /\ answer' = TRUE /\ UNCHANGED memory
      BY <2>8 DEF NothingToUnmap, Return
    <3>2. call # NoCall
      BY <3>1 DEF NoCall
    <3>3. call.virt \in VirtualPages /\ call.level \in 0 .. 4 /\ CurrentEntry =
             IF call.level = 4 THEN Pml4e(call.virt)
             ELSE IF call.level = 3 THEN Pdpte(call.virt) ELSE Pde(call.virt)
      BY <3>1, <3>2, EntryOfWay DEF VmmInv
    <3>4. ~ HasPt(call.virt)
      BY <3>1, <3>3 DEF HasPt, HasPd, HasPdpt
    <3>5. Map[call.virt] = NoTranslation
      BY <3>3, <3>4, WaysExact DEF VmmInv, Ways, WayTo
    <3>6. Target = NoTranslation
      BY <3>1 DEF Target
    <3>7. Request.op = "unmap" /\ Request.virt = call.virt /\ Request.target = NoTranslation
          /\ Request # Nothing
      BY <3>1, <3>6
    <3> QED BY <2>3, <2>4, <3>1, <3>5, <3>7 DEF Space!Answer, Space!SpaceNext
  <2>9. CASE WriteEntry
    <3>1. call # NoCall /\ call.level = 1 /\ call' = [call EXCEPT !.level = 0] /\ UNCHANGED answer
      BY <2>9 DEF WriteEntry, NoCall
    <3>2. /\ call \in Calls /\ HasPt(call.virt) /\ Entry(call.phys, call.flags) \in Entries
          /\ WriteAt(Pde(call.virt).frame, call.virt[4], Entry(call.phys, call.flags))
      BY <2>9, <3>1, WrittenEntry
    <3>3. call.virt \in VirtualPages
      BY <3>2 DEF Calls
    <3> DEFINE page == call.virt
               entry == Entry(call.phys, call.flags)
    <3>4. HardwareWalk(page)' = Target
      <4>1. call'.virt = call.virt
        BY <3>1, <3>2 DEF Calls
      <4>2. TreeInv' /\ HasPt(page)' /\ Pte(page)' = entry
        BY <3>2, <3>3, <4>1, LeafKeepsWalks DEF VmmInv
      <4>3. Ways'
        <5>1. AboveTheFirstGiB'
          BY DEF VmmInv, AboveTheFirstGiB
        <5> QED BY <4>2, <5>1, WaysExact, PTL
      <4>4. WayTo(page)'
        BY <3>3, <4>1, <4>3 DEF Ways
      <4>5. Target = IF IsPresent(entry)
                     THEN [frame |-> entry.frame,
                           rights |-> {PT_WRITABLE} \intersect entry.flags]
                     ELSE NoTranslation
        BY <2>2, <3>1, EntryIsTarget
      <4> QED BY <4>1, <4>2, <4>4, <4>5 DEF WayTo, IsPresent, NoTranslation
    <3>5. \A virt \in VirtualPages \ {page} : HardwareWalk(virt)' = HardwareWalk(virt)
      BY <3>2, <3>3, LeafKeepsWalks DEF VmmInv
    <3>6. Map' = [Map EXCEPT ![Request.virt] = Request.target]
      <4>1. Map' = [virt \in VirtualPages |-> HardwareWalk(virt)']
        OBVIOUS
      <4>2. Map' = [Map EXCEPT ![page] = Target]
        <5>1. call'.virt = page
          BY <3>1, <3>2 DEF Calls
        <5>2. \A virt \in VirtualPages :
                 HardwareWalk(virt)' = IF virt = page THEN Target ELSE HardwareWalk(virt)
          BY <3>4, <3>5, <5>1
        <5> HIDE DEF page
        <5> QED BY <3>3, <4>1, <5>2
      <4> QED BY <4>2
    <3>7. call'.op = call.op /\ call'.virt = call.virt /\ call'.phys = call.phys
          /\ call'.flags = call.flags /\ call'.level = 0
      BY <3>1, <3>2 DEF Calls
    <3>8. Request' = Request
      BY <3>7 DEF Target, NoTranslation
    <3>9. ~ Done /\ Done'
      BY <2>2, <3>1, <3>2, <3>7 DEF Idle, NoCall, Calls
    <3> QED BY <2>2, <3>1, <3>6, <3>8, <3>9 DEF Space!TakeEffect, Space!SpaceNext
  <2>10. CASE Invlpg
    <3>1. call # NoCall /\ call.level = 0 /\ call' = NoCall /\ answer' = TRUE /\ UNCHANGED memory
      BY <2>10 DEF Invlpg, Idle, Return
    <3>2. /\ HasPt(call.virt) /\ Pte(call.virt) = Entry(call.phys, call.flags)
          /\ call \in Calls /\ call.virt \in VirtualPages
      BY <3>1 DEF VmmInv, CallInv, Reached, Calls
    <3>3. Map[call.virt] = Target
      <4>1. WayTo(call.virt)
        BY <3>2, WaysExact DEF VmmInv, Ways
      <4>2. Target = IF IsPresent(Pte(call.virt))
                     THEN [frame |-> Pte(call.virt).frame,
                           rights |-> {PT_WRITABLE} \intersect Pte(call.virt).flags]
                     ELSE NoTranslation
        BY <2>2, <3>1, <3>2, EntryIsTarget
      <4> QED BY <3>2, <4>1, <4>2 DEF WayTo
    <3>4. Request # Nothing /\ Done /\ Request.virt = call.virt /\ Request.target = Target
      BY <2>2, <3>1 DEF Idle
    <3> QED BY <2>3, <2>4, <3>1, <3>3, <3>4 DEF Space!Answer, Space!SpaceNext
  <2>11. CASE UNCHANGED <<memory, call, answer>>
    <3>1. Request' = Request
      BY <2>11 DEF Target, NoTranslation
    <3>2. Done' <=> Done
      BY <2>11 DEF Idle, NoCall
    <3> QED BY <2>3, <2>11, <3>1, <3>2 DEF Space!spaceVars
  <2> QED BY <2>5, <2>6, <2>7, <2>8, <2>9, <2>10, <2>11
          DEF VmmNext, TlbFill, TlbEvict, OthersAllocate, OthersFree, vmmVars
<1> QED BY <1>1, <1>2, VmmInvariant, PTL DEF VmmSpec, ImplementsAddressSpace, Space!SpaceSpec
=============================================================================
