----------------------------- MODULE FatLoader -----------------------------
(***************************************************************************)
(* The FAT32 file loader that both boot stages carry: Boot1.asm loads      *)
(* STAGE2.SYS with it to 0x7E00, Stage2_X86.asm loads KRNLDR.BIN to 0x500. *)
(* The two differ in that address only.  The loader follows the cluster    *)
(* chain of the root directory, then that of the file, one sector per BIOS *)
(* read, and tries a read that fails five times.                           *)
(*                                                                         *)
(* Memory is seen in granules of 256 bytes, so a sector is two of them.    *)
(***************************************************************************)
EXTENDS Integers, Sequences

CONSTANT
    Volumes     \* the volumes, as [hidden, reserved, fats, spc, root, listing,
                \* file, last, load]: the three sizes are in sectors and
                \* `spc` is bSectorsPerCluster; `root` and `file` are the
                \* clusters of the root directory and of the file in order,
                \* `listing[i]` says what each granule of root[i] shows to a
                \* search, `last` ends both chains, and `load` is the granule
                \* the file is loaded to

GRANULE == 256
BYTES_PER_SECTOR == 512
SECTOR == BYTES_PER_SECTOR \div GRANULE
SEGMENT == 65536 \div GRANULE
ROOT_BUFFER == 4096 \div GRANULE        \* 0x1000
TABLE_BUFFER == 16384 \div GRANULE      \* 0x4000
BPB == 31744 \div GRANULE               \* 0x7C00
Word(n) == n % 65536                    \* a 16-bit register
END_OF_CHAIN == 268435448               \* 0x0FFFFFF8
ATTEMPTS == 5

Bytes(v) == (Len(v.file) + 1) * v.spc * BYTES_PER_SECTOR

Elements(chain) == {chain[i] : i \in 1 .. Len(chain)}

\* No cluster is twice in a chain.
Once(chain) == \A i, j \in 1 .. Len(chain) : chain[i] = chain[j] => i = j

Apart(chain, other) == Elements(chain) \intersect Elements(other) = {}

\* Chains are well formed and share no cluster.  The table starts low enough for its sectors to
\* have 16-bit numbers, and a file, with a cluster to spare, does not reach
\* the parameter block that the loader still reads.
ASSUME FatLoaderAssumption == \A v \in Volumes :
    /\ v.hidden \in Nat /\ v.reserved \in Nat /\ v.fats \in Nat /\ v.last \in Nat
    /\ v.root \in Seq(Nat) /\ v.file \in Seq(Nat)
    /\ v.spc \in {1, 2, 4, 8, 16, 32, 64, 128}
    /\ v.load \in 0 .. SEGMENT - 1
    /\ v.hidden + v.reserved + 128 < 65536
    /\ Len(v.root) > 0 /\ Len(v.file) > 0
    /\ Once(v.root) /\ Once(v.file) /\ Apart(v.root, v.file)
    /\ v.last >= END_OF_CHAIN
    /\ \A i \in 1 .. Len(v.root) :
          v.listing[i] \in [1 .. v.spc * SECTOR -> {"other", "end", "file"}]
    /\ v.load * GRANULE + Bytes(v) <= BPB * GRANULE \/ v.load > BPB

VARIABLES
    volume,     \* the one the machine boots from
    memory,     \* granule -> what it holds
    goal,       \* "directory" or "file": whose clusters are being read
    step,       \* where the loader is
    cluster,    \* ESI
    es, bx,     \* where the next sector of the goal goes, in granules
    request,    \* what ReadSector was called with: EAX, CX, and its caller
    di          \* attempts left for this sector

fatVars == <<volume, memory, goal, step, cluster, es, bx, request, di>>
bufferVars == <<volume, goal, es, bx>>

-----------------------------------------------------------------------------
(* The volume. *)

\* dReserved0, relative to the volume.
FirstDataSector == volume.reserved + volume.fats

\* ((N - 2) * BPB_SecPerClus) + FirstDataSector, on the disk.
FirstSectorOfCluster(n) == (n - 2) * volume.spc + FirstDataSector + volume.hidden

\* What the file allocation table holds for cluster n: its first two entries
\* are the medium's mark and an end mark, and that of a free cluster is 0.
MEDIUM == 268435448                     \* 0x0FFFFFF8
END_MARK == 268435455                   \* 0x0FFFFFFF
TableEntry(n) ==
    LET after(chain) == {IF i = Len(chain) THEN volume.last ELSE chain[i + 1] :
                            i \in {j \in 1 .. Len(chain) : chain[j] = n}}
        next == after(volume.root) \union after(volume.file)
    IN  IF n = 0 THEN MEDIUM ELSE IF n = 1 THEN END_MARK
        ELSE IF next = {} THEN 0 ELSE CHOOSE value \in next : TRUE

\* A granule of memory: of cluster number n, part i; of the table; or what was
\* there before, which a search sees as entries that end the directory or as
\* entries of other files.
Data(n, i) == [of |-> "cluster", number |-> n, part |-> i]
Table(sector) == [of |-> "table", number |-> sector, part |-> 0]
Unknown == [of |-> "unknown", number |-> 0, part |-> 0]
Stale(shows) == [of |-> shows, number |-> 0, part |-> 0]

\* Granule i of sector lba of the disk.
OnDisk(lba, i) ==
    LET holders == {n \in Elements(volume.root) \union Elements(volume.file) :
                        lba \in FirstSectorOfCluster(n) .. FirstSectorOfCluster(n) + volume.spc - 1}
    IN  IF holders = {} THEN Unknown
        ELSE LET n == CHOOSE holder \in holders : TRUE
             IN  Data(n, (lba - FirstSectorOfCluster(n)) * SECTOR + i)

\* What the search sees in a granule.
Shows(granule) ==
    LET listed == {i \in 1 .. Len(volume.root) :
                      granule.of = "cluster" /\ granule.number = volume.root[i]}
    IN  IF listed # {} THEN volume.listing[CHOOSE i \in listed : TRUE][granule.part]
        ELSE IF granule.of = "end" THEN "end" ELSE "other"

-----------------------------------------------------------------------------
(* Reading a cluster. *)

FatInit ==
    /\ volume \in Volumes
    /\ \E shows \in {"other", "end"} :
          memory = [g \in 0 .. volume.load + volume.spc * SECTOR * (Len(volume.file) + 1)
                              + TABLE_BUFFER |-> Stale(shows)]
    /\ goal = "directory"
    /\ step = "cluster"
    /\ cluster = volume.root[1]
    /\ es = 0 /\ bx = ROOT_BUFFER
    /\ request = [lba |-> 0, cx |-> 0, table |-> FALSE]
    /\ di = ATTEMPTS

\* Faulty variant: clusters are counted from zero.
ClusterSectorFromZero(n) ==
    Word(Word(n) * volume.spc) + FirstDataSector + volume.hidden
\* SI holds the cluster and AX the product: the high words are dropped.
ClusterSector(n) ==
    Word(Word(n - 2) * volume.spc) + FirstDataSector + volume.hidden

ReadCluster ==
    /\ step = "cluster"
    /\ request' = [lba |-> ClusterSector(cluster), cx |-> volume.spc, table |-> FALSE]
    /\ di' = ATTEMPTS
    /\ step' = "read"
    /\ UNCHANGED <<bufferVars, memory, cluster>>

\* Faulty variant: one attempt too many.
RetryPastTheLast ==
    /\ step = "read" /\ di > 0
    /\ di' = di - 1
    /\ UNCHANGED <<bufferVars, memory, step, cluster, request>>
\* The BIOS fails: try again, or halt.
Retry ==
    /\ step = "read" /\ di > 1
    /\ di' = di - 1
    /\ UNCHANGED <<bufferVars, memory, step, cluster, request>>

\* Faulty variant: the fifth failure starts the sector over.
GiveUpNever ==
    /\ step = "read" /\ di = 1
    /\ di' = ATTEMPTS
    /\ UNCHANGED <<bufferVars, memory, step, cluster, request>>
GiveUp ==
    /\ step = "read" /\ di = 1
    /\ step' = "halted"
    /\ di' = 0
    /\ UNCHANGED <<bufferVars, memory, cluster, request>>

\* Faulty variant: a carry out of BX is lost.
AdvanceWithoutCarry ==
    /\ bx' = (bx + SECTOR) % SEGMENT
    /\ es' = es
\* ES:BX moves past the sector, into the next 64 KiB on a carry.
Advance ==
    /\ bx' = (bx + SECTOR) % SEGMENT
    /\ es' = IF bx + SECTOR >= SEGMENT THEN es + SEGMENT ELSE es

Place(at, first, second) == memory' = [memory EXCEPT ![at] = first, ![at + 1] = second]

\* The BIOS reads a sector of the cluster.
SectorRead ==
    /\ step = "read" /\ ~ request.table /\ request.cx > 0
    /\ Place(es + bx, OnDisk(request.lba, 1), OnDisk(request.lba, 2))
    /\ Advance
    /\ request' = [request EXCEPT !.lba = @ + 1, !.cx = @ - 1]
    /\ di' = ATTEMPTS
    /\ step' = IF request.cx = 1 THEN "next" ELSE "read"
    /\ UNCHANGED <<volume, goal, cluster>>

-----------------------------------------------------------------------------
(* GetNextCluster: the table's sector goes to 0x4000. *)

\* 4 * SI in AX: cluster numbers above 16383 lose their high bits.
TableOffset(n) == Word(4 * Word(n))
TableSector(n) ==
    Word(TableOffset(n) \div BYTES_PER_SECTOR + volume.hidden + volume.reserved)

GetNextCluster ==
    /\ step = "next"
    /\ request' = [lba |-> TableSector(cluster), cx |-> 1, table |-> TRUE]
    /\ di' = ATTEMPTS
    /\ step' = "read"
    /\ UNCHANGED <<bufferVars, memory, cluster>>

\* The entry at the offset's place in that sector.
EntryRead ==
    TableEntry((request.lba - volume.hidden - volume.reserved) * (BYTES_PER_SECTOR \div 4)
                  + (TableOffset(cluster) % BYTES_PER_SECTOR) \div 4)

TableRead ==
    /\ step = "read" /\ request.table
    /\ Place(TABLE_BUFFER, Table(request.lba), Table(request.lba))
    /\ cluster' = EntryRead
    /\ step' = IF goal = "directory" THEN "search" ELSE "loaded"
    /\ UNCHANGED <<bufferVars, request, di>>

-----------------------------------------------------------------------------
(* The search of the root directory and the load of the file. *)

\* Faulty variant: one sector's worth of entries.
SearchedSector == ROOT_BUFFER .. ROOT_BUFFER + 1
\* 32 entries of 32 bytes, whatever the size of a cluster.
Searched == ROOT_BUFFER .. ROOT_BUFFER + 3

\* The granules that end the search or show the file; the first one decides.
Telling == {g \in Searched : Shows(memory[g]) # "other"}
Decides(g) == g \in Telling /\ \A other \in Telling : g <= other

\* An entry that starts with a zero byte: cli, hlt.
EndOfDirectory ==
    /\ step = "search"
    /\ \E g \in Searched : Decides(g) /\ Shows(memory[g]) = "end"
    /\ step' = "not found"
    /\ UNCHANGED <<bufferVars, memory, cluster, request, di>>

FoundFile ==
    /\ step = "search"
    /\ \E g \in Searched : Decides(g) /\ Shows(memory[g]) = "file"
    /\ goal' = "file"
    /\ cluster' = volume.file[1]
    /\ es' = 0 /\ bx' = volume.load
    /\ step' = "cluster"
    /\ UNCHANGED <<volume, memory, request, di>>

\* The next cluster of the directory, into the same buffer.
NotInThisCluster ==
    /\ step = "search" /\ Telling = {}
    /\ step' = IF cluster < END_OF_CHAIN THEN "cluster" ELSE "not found"
    /\ es' = 0 /\ bx' = ROOT_BUFFER
    /\ UNCHANGED <<volume, memory, goal, cluster, request, di>>

\* LoadFile: on to the next cluster, or jump to the file.
NextOrStart ==
    /\ step = "loaded"
    /\ step' = IF cluster < END_OF_CHAIN THEN "cluster" ELSE "started"
    /\ UNCHANGED <<bufferVars, memory, cluster, request, di>>

FatNext ==
    \/ ReadCluster \/ Retry \/ GiveUp \/ SectorRead
    \/ GetNextCluster \/ TableRead
    \/ EndOfDirectory \/ FoundFile \/ NotInThisCluster \/ NextOrStart

\* The processor goes on executing, and nothing else runs.
FatSpec == FatInit /\ [][FatNext]_fatVars /\ WF_fatVars(FatNext)

-----------------------------------------------------------------------------
(* Properties. *)

Steps == {"cluster", "read", "next", "search", "loaded", "started", "halted", "not found"}
Final == {"started", "halted", "not found"}

\* Every variable has its type; the attempts never run below zero and run out
\* only where the loader halts.
FatTypeOK ==
    /\ volume \in Volumes
    /\ goal \in {"directory", "file"}
    /\ step \in Steps
    /\ cluster \in Nat /\ es \in Nat /\ bx \in 0 .. SEGMENT - 1
    /\ request \in [lba : Nat, cx : 0 .. volume.spc, table : BOOLEAN]
    /\ di \in 0 .. ATTEMPTS /\ (di = 0 <=> step = "halted")

\* What the 16-bit registers suffice for: the first sector of cluster n, and
\* the place of its entry in the table.
SectorFits(n) == n >= 2 /\ (n - 2) * volume.spc < 65536
EntryFits(n) == 4 * n < 65536
SmallNumbers(chain) == \A n \in Elements(chain) : SectorFits(n) /\ EntryFits(n)

\* Stage2_X86.asm:3-7 gives the file its place in memory: when the loader jumps,
\* every sector of every cluster of the chain is there in order, and no later
\* read has gone over it -- if the file's clusters have small numbers.
LoadedWhole ==
    step = "started" /\ SmallNumbers(volume.file) =>
        \A i \in 1 .. Len(volume.file), part \in 1 .. volume.spc * SECTOR :
            memory[volume.load + (i - 1) * volume.spc * SECTOR + part - 1]
                = Data(volume.file[i], part)

\* Boot1.asm:156, "Ehh if we reach here, not found": the loader reports that
\* only where the directory does not list the file before its end, as far as
\* the first 32 entries of each cluster go -- if the directory's clusters have
\* small numbers.  With clusters of 16 entries what was in memory before has a
\* say too.
NotFoundMeansAbsent ==
    step = "not found" /\ volume.spc > 1 /\ SmallNumbers(volume.root) =>
        \A i \in 1 .. Len(volume.root), part \in 1 .. 4 :
            volume.listing[i][part] = "file" =>
                \E j \in 1 .. i, before \in 1 .. 4 :
                    /\ volume.listing[j][before] = "end"
                    /\ j < i \/ before < part

\* The sector read of a cluster is ((N - 2) * BPB_SecPerClus) + FirstDataSector
\* (Boot1.asm:210), onward by one for each sector read already, and that of the
\* table has the 32-bit entry of the cluster (Boot1.asm:334) -- for the clusters
\* whose numbers fit in 16 bits and for no other.
SectorAsDocumented ==
    step = "read" =>
        IF request.table
        THEN (request.lba = volume.hidden + volume.reserved + (4 * cluster) \div BYTES_PER_SECTOR)
                <=> EntryFits(cluster)
        ELSE (request.lba = FirstSectorOfCluster(cluster) + volume.spc - request.cx)
                <=> SectorFits(cluster)

\* Whatever reads fail, the loader comes to a stop: it has started the file,
\* given up a sector or not found the file.
LoaderStops == <>(step \in Final)
=============================================================================
