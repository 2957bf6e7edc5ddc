-------------------------- MODULE FatLoaderProofs --------------------------
(***************************************************************************)
(* What the loader's 16-bit registers are good for, on every volume: the   *)
(* sectors read are the documented ones exactly as far as the numbers fit. *)
(* And as far as they fit, a kernel clear of the table's sector is loaded  *)
(* whole, and a kernel that is not found is not in the directory.          *)
(***************************************************************************)
EXTENDS FatLoader, TLAPS

-----------------------------------------------------------------------------
(* The inductive invariant: a request is for the sector the registers came *)
(* to, and onward from there.                                              *)

RequestInv ==
    step = "read" =>
        IF request.table THEN request.lba = TableSector(cluster)
        ELSE request.lba = ClusterSector(cluster) + volume.spc - request.cx

FatInv == FatTypeOK /\ RequestInv

-----------------------------------------------------------------------------
(* Lemmas. *)

\* A 16-bit register holds the numbers below 65536 and no others.
LEMMA WordRange ==
    ASSUME NEW n \in Int
    PROVE  Word(n) \in Int /\ 0 <= Word(n) /\ Word(n) < 65536
BY SMT DEF Word

\* A number that fits is kept.
LEMMA WordFits ==
    ASSUME NEW n \in Int, 0 <= n, n < 65536
    PROVE  Word(n) = n
BY SMT DEF Word

\* What the assumption says of the numbers of a volume.
LEMMA VolumeTypes ==
    ASSUME NEW v \in Volumes
    PROVE  /\ v.hidden \in Nat /\ v.reserved \in Nat /\ v.fats \in Nat /\ v.last \in Nat
           /\ v.root \in Seq(Nat) /\ v.file \in Seq(Nat)
           /\ Len(v.root) > 0 /\ Len(v.file) > 0
           /\ v.spc \in Nat /\ v.spc > 0
           /\ v.load \in 0 .. SEGMENT - 1
           /\ v.hidden + v.reserved + 128 < 65536
<1>1. v.spc \in {1, 2, 4, 8, 16, 32, 64, 128}
  BY FatLoaderAssumption
<1>2. v.spc \in Nat /\ v.spc > 0
  BY <1>1
<1> QED BY <1>2, FatLoaderAssumption

\* The table holds numbers.
LEMMA TableEntryIsNumber ==
    ASSUME volume \in Volumes, NEW n
    PROVE  TableEntry(n) \in Nat
<1> DEFINE after(chain) == {IF i = Len(chain) THEN volume.last ELSE chain[i + 1] :
                               i \in {j \in 1 .. Len(chain) : chain[j] = n}}
           next == after(volume.root) \union after(volume.file)
<1>1. ASSUME NEW chain \in Seq(Nat) PROVE after(chain) \subseteq Nat
  <2>1. ASSUME NEW i \in 1 .. Len(chain)
        PROVE  (IF i = Len(chain) THEN volume.last ELSE chain[i + 1]) \in Nat
    BY <2>1, <1>1, VolumeTypes
  <2> QED BY <2>1
<1>2. next \subseteq Nat
  <2>1. volume.root \in Seq(Nat) /\ volume.file \in Seq(Nat)
    BY VolumeTypes
  <2> HIDE DEF after
  <2>2. after(volume.root) \subseteq Nat /\ after(volume.file) \subseteq Nat
    BY <1>1, <2>1
  <2> QED BY <2>2
<1> HIDE DEF next
<1>3. next # {} => (CHOOSE value \in next : TRUE) \in Nat
  BY <1>2
<1>4. MEDIUM \in Nat /\ END_MARK \in Nat
  BY SMT DEF MEDIUM, END_MARK
<1> QED BY <1>3, <1>4 DEF TableEntry, next

\* The sector of a cluster: right if and only if the cluster's number, counted
\* in sectors, fits in 16 bits.
LEMMA ClusterSectorRight ==
    ASSUME volume \in Volumes, NEW n \in Nat
    PROVE  /\ ClusterSector(n) \in Nat
           /\ ClusterSector(n) = FirstSectorOfCluster(n) <=> SectorFits(n)
<1> DEFINE spc == volume.spc
           base == FirstDataSector + volume.hidden
<1>1. spc \in Nat /\ spc > 0 /\ base \in Nat
  BY VolumeTypes DEF FirstDataSector
<1>2. ASSUME NEW i \in Int PROVE i + FirstDataSector + volume.hidden = i + base
  BY VolumeTypes DEF FirstDataSector
<1> HIDE DEF spc
<1> USE <1>1
<1>3. Word(n - 2) \in Nat /\ (n >= 2 /\ n - 2 < 65536 => Word(n - 2) = n - 2)
  BY SMT, WordRange, WordFits
<1>4. (n - 2) * spc \in Int /\ Word(n - 2) * spc \in Nat
  BY <1>3, SMT
<1>5. Word(Word(n - 2) * spc) \in Nat /\ Word(Word(n - 2) * spc) < 65536
  BY <1>4, WordRange, SMT
<1>6. ClusterSector(n) = Word(Word(n - 2) * spc) + base
  <2>1. Word(Word(n - 2) * spc) \in Int BY <1>5
  <2> HIDE DEF base
  <2> QED BY <2>1, <1>2 DEF ClusterSector, spc
<1>7. FirstSectorOfCluster(n) = (n - 2) * spc + base
  BY <1>2, <1>4 DEF FirstSectorOfCluster, spc
<1> HIDE DEF base
<1>8. ASSUME n >= 2, (n - 2) * spc < 65536
      PROVE  Word(Word(n - 2) * spc) = (n - 2) * spc
  <2>1. n - 2 <= (n - 2) * spc
    BY <1>8, SMT
  <2>2. Word(n - 2) = n - 2
    BY <1>3, <1>4, <1>8, <2>1, SMT
  <2>3. 0 <= (n - 2) * spc
    BY <1>8, SMT
  <2> QED BY <1>4, <1>8, <2>2, <2>3, WordFits, SMT
<1>9. ASSUME Word(Word(n - 2) * spc) = (n - 2) * spc
      PROVE  n >= 2 /\ (n - 2) * spc < 65536
  <2>1. 0 <= (n - 2) * spc /\ (n - 2) * spc < 65536
    BY <1>5, <1>9, SMT
  <2> QED BY <2>1, SMT
<1>10. SectorFits(n) <=> n >= 2 /\ (n - 2) * spc < 65536
  BY DEF SectorFits, spc
<1> QED BY <1>6, <1>7, <1>4, <1>5, <1>8, <1>9, <1>10

\* The table's sector: right if and only if four times the cluster's number
\* fits in 16 bits.
LEMMA TableSectorRight ==
    ASSUME volume \in Volumes, NEW n \in Nat
    PROVE  /\ TableSector(n) \in Nat
           /\ TableSector(n) = volume.hidden + volume.reserved + (4 * n) \div BYTES_PER_SECTOR
                <=> EntryFits(n)
<1> DEFINE base == volume.hidden + volume.reserved
           offset == TableOffset(n)
<1>1. base \in Nat /\ base + 128 < 65536
  BY VolumeTypes
<1>2. offset \in Nat /\ offset < 65536 /\ (4 * n < 65536 => offset = 4 * n)
  <2>1. Word(n) \in Nat /\ 4 * Word(n) \in Int
    BY WordRange, SMT
  <2>2. offset \in Nat /\ offset < 65536
    BY <2>1, WordRange, SMT DEF TableOffset
  <2>3. ASSUME 4 * n < 65536 PROVE offset = 4 * n
    <3>1. Word(n) = n
      BY <2>3, WordFits, SMT
    <3>2. Word(4 * n) = 4 * n
      BY <2>3, WordFits, SMT
    <3> QED BY <3>1, <3>2 DEF TableOffset
  <2> QED BY <2>2, <2>3
<1>3. TableSector(n) = Word(offset \div 512 + base)
  BY VolumeTypes, <1>2 DEF TableSector, BYTES_PER_SECTOR
<1> HIDE DEF base, offset
<1>4. offset \div 512 \in 0 .. 127
  BY <1>2
<1>5. TableSector(n) = offset \div 512 + base
  BY <1>1, <1>3, <1>4, WordFits
<1>6. (4 * n) \div 512 = offset \div 512 <=> 4 * n < 65536
  BY <1>2, <1>4
<1>7. (4 * n) \div 512 \in Nat
  OBVIOUS
<1> QED BY <1>1, <1>4, <1>5, <1>6, <1>7 DEF base, EntryFits, BYTES_PER_SECTOR

\* What a loader whose variables have their types works with.
LEMMA LoaderTypes ==
    ASSUME FatTypeOK
    PROVE  /\ volume.spc \in Nat /\ volume.spc > 0 /\ volume.load \in 0 .. SEGMENT - 1
           /\ volume.file[1] \in Nat
           /\ ClusterSector(cluster) \in Nat /\ FirstSectorOfCluster(cluster) \in Int
           /\ TableSector(cluster) \in Nat
<1>1. volume \in Volumes /\ cluster \in Nat
  BY DEF FatTypeOK
<1>2. /\ volume.spc \in Nat /\ volume.spc > 0 /\ volume.load \in 0 .. SEGMENT - 1
      /\ volume.file \in Seq(Nat) /\ Len(volume.file) > 0
      /\ volume.hidden \in Nat /\ volume.reserved \in Nat /\ volume.fats \in Nat
  BY <1>1, VolumeTypes
<1>3. volume.file[1] \in Nat
  BY <1>2
<1>4. ClusterSector(cluster) \in Nat
  BY <1>1, ClusterSectorRight
<1>5. TableSector(cluster) \in Nat
  BY <1>1, TableSectorRight
<1>6. FirstSectorOfCluster(cluster) \in Int
  <2>1. (cluster - 2) * volume.spc \in Int
    <3>1. \A a, b \in Int : a * b \in Int
      OBVIOUS
    <3>2. cluster - 2 \in Int
      BY <1>1
    <3>3. volume.spc \in Int
      BY <1>2
    <3> QED BY <3>1, <3>2, <3>3, Zenon
  <2>2. FirstDataSector \in Nat
    BY <1>2 DEF FirstDataSector
  <2> QED BY <1>2, <2>1, <2>2 DEF FirstSectorOfCluster
<1> QED BY <1>2, <1>3, <1>4, <1>5, <1>6

\* The loader starts with no request under way.
LEMMA InitialFat == FatInit => FatInv
<1> SUFFICES ASSUME FatInit PROVE FatInv
  OBVIOUS
<1>1. volume \in Volumes /\ volume.root[1] \in Nat /\ volume.spc \in Nat /\ volume.spc > 0
  <2>1. volume \in Volumes
    BY DEF FatInit
  <2>2. volume.root \in Seq(Nat) /\ Len(volume.root) > 0 /\ volume.spc \in Nat /\ volume.spc > 0
    BY <2>1, VolumeTypes
  <2>3. volume.root[1] \in Nat
    BY <2>2
  <2> QED BY <2>1, <2>2, <2>3
<1>2. ROOT_BUFFER \in 0 .. SEGMENT - 1
  BY SMT DEF ROOT_BUFFER, SEGMENT, GRANULE
<1>3. FatTypeOK
  <2>1. request \in [lba : Nat, cx : 0 .. volume.spc, table : BOOLEAN]
    BY <1>1 DEF FatInit
  <2>2. step \in Steps /\ di \in 0 .. ATTEMPTS /\ (di = 0 <=> step = "halted")
    BY DEF FatInit, Steps, ATTEMPTS
  <2>3. goal \in {"directory", "file"} /\ cluster \in Nat /\ es \in Nat /\ bx \in 0 .. SEGMENT - 1
    BY <1>1, <1>2 DEF FatInit
  <2> QED BY <1>1, <2>1, <2>2, <2>3, Zenon DEF FatTypeOK
<1>4. RequestInv
  BY DEF FatInit, RequestInv
<1> QED BY <1>3, <1>4 DEF FatInv

-----------------------------------------------------------------------------
(* Steps. *)

\* Where only the request, the attempts and the step change.
LEMMA ReadingTypes ==
    ASSUME FatTypeOK, UNCHANGED <<volume, goal, es, bx, cluster>>,
           request' \in [lba : Nat, cx : 0 .. volume.spc, table : BOOLEAN],
           step' \in Steps, di' \in 0 .. ATTEMPTS, di' = 0 <=> step' = "halted"
    PROVE  FatTypeOK'
<1>1. (request \in [lba : Nat, cx : 0 .. volume.spc, table : BOOLEAN])'
  OBVIOUS
<1> QED BY <1>1, Zenon DEF FatTypeOK

\* ReadCluster and GetNextCluster make the requests.
LEMMA RequestStep == FatInv /\ (ReadCluster \/ GetNextCluster) => FatInv'
<1> SUFFICES ASSUME FatInv, ReadCluster \/ GetNextCluster PROVE FatInv'
  OBVIOUS
<1> USE DEF FatInv
<1>1. UNCHANGED <<volume, goal, es, bx, cluster>> /\ di' = ATTEMPTS /\ step' = "read"
  BY DEF ReadCluster, GetNextCluster, bufferVars
<1>2. volume.spc \in Nat /\ volume.spc > 0 /\ ClusterSector(cluster) \in Nat /\ TableSector(cluster) \in Nat
  BY LoaderTypes
<1>3. CASE ReadCluster
  <2>1. request' = [lba |-> ClusterSector(cluster), cx |-> volume.spc, table |-> FALSE]
    BY <1>3 DEF ReadCluster
  <2>2. ClusterSector(cluster)' = ClusterSector(cluster)
    BY <1>1 DEF ClusterSector, FirstDataSector
  <2>3. RequestInv'
    BY <1>1, <1>2, <2>1, <2>2 DEF RequestInv
  <2>4. request' \in [lba : Nat, cx : 0 .. volume.spc, table : BOOLEAN]
    BY <1>2, <2>1
  <2>5. FatTypeOK'
    <3>1. step' \in Steps /\ di' \in 0 .. ATTEMPTS /\ (di' = 0 <=> step' = "halted")
      BY <1>1 DEF Steps, ATTEMPTS
    <3> QED BY <1>1, <2>4, <3>1, ReadingTypes
  <2> QED BY <2>3, <2>5
<1>4. CASE GetNextCluster
  <2>1. request' = [lba |-> TableSector(cluster), cx |-> 1, table |-> TRUE]
    BY <1>4 DEF GetNextCluster
  <2>2. TableSector(cluster)' = TableSector(cluster)
    BY <1>1 DEF TableSector, TableOffset
  <2>3. RequestInv'
    BY <1>1, <2>1, <2>2 DEF RequestInv
  <2>4. request' \in [lba : Nat, cx : 0 .. volume.spc, table : BOOLEAN]
    BY <1>2, <2>1
  <2>5. FatTypeOK'
    <3>1. step' \in Steps /\ di' \in 0 .. ATTEMPTS /\ (di' = 0 <=> step' = "halted")
      BY <1>1 DEF Steps, ATTEMPTS
    <3> QED BY <1>1, <2>4, <3>1, ReadingTypes
  <2> QED BY <2>3, <2>5
<1> QED BY <1>3, <1>4

\* A sector that fails is asked for again.
LEMMA FailureStep == FatInv /\ (Retry \/ GiveUp) => FatInv'
<1> SUFFICES ASSUME FatInv, Retry \/ GiveUp PROVE FatInv'
  OBVIOUS
<1> USE DEF FatInv, FatTypeOK
<1>1. UNCHANGED <<volume, goal, es, bx, cluster, request>> /\ step = "read"
  BY DEF Retry, GiveUp, bufferVars
<1>2. FatTypeOK'
  <2>1. di \in 0 .. 5
    BY DEF ATTEMPTS
  <2>2. step' \in Steps /\ di' \in 0 .. ATTEMPTS /\ (di' = 0 <=> step' = "halted")
    <3>1. CASE Retry BY <1>1, <2>1, <3>1 DEF Retry, Steps, ATTEMPTS
    <3>2. CASE GiveUp BY <1>1, <2>1, <3>2 DEF GiveUp, Steps, ATTEMPTS
    <3> QED BY <3>1, <3>2
  <2> QED BY <1>1, <2>2, ReadingTypes
<1>3. RequestInv'
  BY <1>1 DEF RequestInv, TableSector, TableOffset, ClusterSector, FirstDataSector
<1> QED BY <1>2, <1>3

\* A sector that is read makes way for the next one.
LEMMA SectorStep == FatInv /\ SectorRead => FatInv'
<1> SUFFICES ASSUME FatInv, SectorRead PROVE FatInv'
  OBVIOUS
<1> USE DEF FatInv, FatTypeOK
<1>1. UNCHANGED <<volume, goal, cluster>> /\ di' = ATTEMPTS /\ step' \in {"next", "read"}
      /\ step = "read"
  BY DEF SectorRead
<1>2. ~ request.table /\ request.cx > 0
      /\ request' = [request EXCEPT !.lba = @ + 1, !.cx = @ - 1]
  BY DEF SectorRead
<1>3. volume.spc \in Nat /\ volume.spc > 0 /\ ClusterSector(cluster) \in Nat
  BY LoaderTypes
<1>4. es' \in Nat /\ bx' \in 0 .. SEGMENT - 1
  BY SMT DEF SectorRead, Advance, SEGMENT, SECTOR, BYTES_PER_SECTOR, GRANULE
<1>5. request' = [lba |-> request.lba + 1, cx |-> request.cx - 1, table |-> request.table]
  BY <1>2
<1>6. FatTypeOK'
  <2>1. request' \in [lba : Nat, cx : 0 .. volume.spc, table : BOOLEAN]
    BY <1>1, <1>3, <1>5, <1>2
  <2>2. (request \in [lba : Nat, cx : 0 .. volume.spc, table : BOOLEAN])'
    BY <1>1, <2>1
  <2>3. step' \in Steps /\ di' \in 0 .. ATTEMPTS /\ (di' = 0 <=> step' = "halted")
    <3>1. CASE step' = "next" BY ONLY <1>1, <3>1 DEF Steps, ATTEMPTS
    <3>2. CASE step' = "read" BY ONLY <1>1, <3>2 DEF Steps, ATTEMPTS
    <3> QED BY <1>1, <3>1, <3>2
  <2> QED BY <1>1, <1>4, <2>2, <2>3, Zenon
<1>7. ClusterSector(cluster)' = ClusterSector(cluster)
  BY <1>1 DEF ClusterSector, FirstDataSector
<1>8. RequestInv'
  BY <1>1, <1>3, <1>5, <1>7, <1>2 DEF RequestInv
<1> QED BY <1>6, <1>8

\* The next cluster comes out of the table.
LEMMA TableStep == FatInv /\ TableRead => FatInv'
<1> SUFFICES ASSUME FatInv, TableRead PROVE FatInv'
  OBVIOUS
<1> USE DEF FatInv, FatTypeOK
<1>1. EntryRead \in Nat
  BY TableEntryIsNumber DEF EntryRead
<1>2. UNCHANGED <<volume, goal, es, bx, request, di>> /\ cluster' = EntryRead
      /\ step = "read" /\ step' \in {"search", "loaded"}
  BY DEF TableRead, bufferVars
<1>3. FatTypeOK'
  BY <1>1, <1>2 DEF Steps, ATTEMPTS
<1>4. RequestInv'
  BY <1>2 DEF RequestInv
<1> QED BY <1>3, <1>4

\* The search and the way from cluster to cluster ask for no sector.
LEMMA SearchStep ==
    FatInv /\ (EndOfDirectory \/ FoundFile \/ NotInThisCluster \/ NextOrStart) => FatInv'
<1> SUFFICES ASSUME FatInv, EndOfDirectory \/ FoundFile \/ NotInThisCluster \/ NextOrStart
             PROVE  FatInv'
  OBVIOUS
<1> USE DEF FatInv, FatTypeOK
<1>1. UNCHANGED <<volume, request, di>> /\ step \notin {"read", "halted"}
      /\ step' \in {"cluster", "not found", "started"}
  BY DEF EndOfDirectory, FoundFile, NotInThisCluster, NextOrStart, bufferVars
<1>2. ROOT_BUFFER \in 0 .. SEGMENT - 1
  BY SMT DEF ROOT_BUFFER, SEGMENT, GRANULE
<1>3. volume.file[1] \in Nat /\ volume.load \in 0 .. SEGMENT - 1
  BY LoaderTypes
<1>4. goal' \in {"directory", "file"} /\ cluster' \in Nat /\ es' \in Nat /\ bx' \in 0 .. SEGMENT - 1
  <2>1. CASE EndOfDirectory BY <2>1 DEF EndOfDirectory, bufferVars
  <2>2. CASE FoundFile BY <2>2, <1>3 DEF FoundFile
  <2>3. CASE NotInThisCluster BY <2>3, <1>2 DEF NotInThisCluster
  <2>4. CASE NextOrStart BY <2>4 DEF NextOrStart, bufferVars
  <2> QED BY <2>1, <2>2, <2>3, <2>4
<1>5. FatTypeOK'
  BY <1>1, <1>4 DEF Steps
<1>6. RequestInv'
  BY <1>1 DEF RequestInv
<1> QED BY <1>5, <1>6

-----------------------------------------------------------------------------
(* The theorems. *)

\* Every step keeps the invariant of the registers.
LEMMA FatStep == FatInv /\ [FatNext]_fatVars => FatInv'
<1> SUFFICES ASSUME FatInv, [FatNext]_fatVars PROVE FatInv'
  OBVIOUS
<1>1. CASE UNCHANGED fatVars
  BY <1>1 DEF fatVars, FatInv, FatTypeOK, RequestInv, TableSector, TableOffset, ClusterSector,
              FirstDataSector
<1> QED BY <1>1, RequestStep, FailureStep, SectorStep, TableStep, SearchStep DEF FatNext

\* The invariant of the registers holds throughout.
LEMMA FatInvariant == FatSpec => []FatInv
  BY InitialFat, FatStep, PTL DEF FatSpec

\* On every volume, whatever reads fail, every variable of the loader has its
\* type, and the attempts run out only where it halts.
THEOREM FatTypes == FatSpec => []FatTypeOK
<1>1. FatInv => FatTypeOK BY DEF FatInv
<1> QED BY FatInvariant, <1>1, PTL

\* On every volume, the sectors that are read are the documented ones
\* (Boot1.asm:210 and :334) for the clusters whose numbers fit in 16 bits, and
\* for those only.
THEOREM FatSectorAsDocumented == FatSpec => []SectorAsDocumented
<1>1. ASSUME FatInv PROVE SectorAsDocumented
  <2> SUFFICES ASSUME step = "read" PROVE SectorAsDocumented
    BY DEF SectorAsDocumented
  <2> USE <1>1 DEF FatInv, FatTypeOK, RequestInv
  <2>1. CASE request.table
    BY <2>1, TableSectorRight DEF SectorAsDocumented
  <2>2. CASE ~ request.table
    <3>1. request.lba = ClusterSector(cluster) + volume.spc - request.cx
      BY <2>2
    <3>2. /\ ClusterSector(cluster) \in Nat
          /\ ClusterSector(cluster) = FirstSectorOfCluster(cluster) <=> SectorFits(cluster)
      BY ClusterSectorRight
    <3>3. FirstSectorOfCluster(cluster) \in Int /\ volume.spc \in Nat /\ request.cx \in Nat
      BY LoaderTypes
    <3> QED BY <2>2, <3>1, <3>2, <3>3 DEF SectorAsDocumented
  <2> QED BY <2>1, <2>2
<1> QED BY FatInvariant, <1>1, PTL

-----------------------------------------------------------------------------
(* What is where. *)

\* The file's place in memory does not meet the sector of the table.
ClearOfTable(v) ==
    \/ v.load + Len(v.file) * v.spc * SECTOR <= TABLE_BUFFER
    \/ v.load >= TABLE_BUFFER + SECTOR

\* Where the granules of the i-th cluster of the file go.
FilePlace(i) == volume.load + (i - 1) * volume.spc * SECTOR

\* What the table says of the chain's k-th cluster.
After(chain, k) == IF k = Len(chain) THEN volume.last ELSE chain[k + 1]

\* The loader is at the k-th cluster of the chain, which goes to `place`.
At(chain, k, place) ==
    /\ step = "cluster" => cluster = chain[k] /\ es + bx = place
    /\ step = "read" /\ ~ request.table =>
          cluster = chain[k] /\ es + bx = place + (volume.spc - request.cx) * SECTOR
    /\ step = "next" \/ (step = "read" /\ request.table) =>
          cluster = chain[k] /\ es + bx = place + volume.spc * SECTOR
    /\ step \in {"search", "loaded"} =>
          cluster = After(chain, k) /\ es + bx = place + volume.spc * SECTOR
    /\ step = "started" =>
          k = Len(chain) /\ es + bx = place + volume.spc * SECTOR

\* What has been read of the file is there.
FileHeld ==
    \A i \in 1 .. Len(volume.file), part \in 1 .. volume.spc * SECTOR :
        FilePlace(i) + part <= es + bx =>
            memory[FilePlace(i) + part - 1] = Data(volume.file[i], part)

\* On the way to the file: what lies in memory, and at which cluster the loader is.
FileInv ==
    goal = "file" /\ SmallNumbers(volume.file) /\ ClearOfTable(volume) =>
        /\ FileHeld
        /\ step # "halted" =>
              \E k \in 1 .. Len(volume.file) : At(volume.file, k, FilePlace(k))

\* What has been read of the k-th cluster of the directory is there, as far as
\* the search looks, and the clusters before it showed nothing.
DirectoryHeld(k) ==
    /\ \A part \in 1 .. 4 :
          ROOT_BUFFER + part <= es + bx =>
              memory[ROOT_BUFFER + part - 1] = Data(volume.root[k], part)
    /\ \A j \in 1 .. k - 1, part \in 1 .. 4 : volume.listing[j][part] = "other"

DirectoryInv ==
    goal = "directory" /\ SmallNumbers(volume.root) /\ volume.spc > 1 =>
        /\ NotFoundMeansAbsent
        /\ step \notin {"halted", "not found"} =>
              \E k \in 1 .. Len(volume.root) :
                  At(volume.root, k, ROOT_BUFFER) /\ DirectoryHeld(k)

\* The search is for the directory's clusters, the load for the file's.
GoalInv ==
    /\ step \in {"search", "not found"} => goal = "directory"
    /\ step \in {"loaded", "started"} => goal = "file"

\* Memory reaches past the last cluster of the file and the two buffers.
MemoryInv ==
    DOMAIN memory = 0 .. volume.load + volume.spc * SECTOR * (Len(volume.file) + 1) + TABLE_BUFFER

\* A sector is two granules, and a cluster at least that.
LEMMA Sizes ==
    ASSUME volume \in Volumes
    PROVE  /\ SECTOR = 2 /\ ROOT_BUFFER = 16 /\ TABLE_BUFFER = 64 /\ SEGMENT = 256
           /\ volume.spc \in Nat /\ volume.spc > 0 /\ volume.load \in Nat
           /\ Len(volume.file) \in Nat /\ Len(volume.root) \in Nat
<1>1. SECTOR = 2 /\ ROOT_BUFFER = 16 /\ TABLE_BUFFER = 64 /\ SEGMENT = 256
  BY SMT DEF SECTOR, ROOT_BUFFER, TABLE_BUFFER, SEGMENT, BYTES_PER_SECTOR, GRANULE
<1>2. volume.spc \in Nat /\ volume.spc > 0
  BY VolumeTypes
<1>3. volume.load \in Nat
  <2>1. volume.load \in 0 .. SEGMENT - 1 /\ SEGMENT = 256
    BY <1>1, VolumeTypes
  <2> QED BY ONLY <2>1
<1>4. Len(volume.file) \in Nat /\ Len(volume.root) \in Nat
  <2>1. volume.root \in Seq(Nat) /\ volume.file \in Seq(Nat)
    BY VolumeTypes
  <2> QED BY <2>1
<1> QED BY ONLY <1>1, <1>2, <1>3, <1>4

\* Chains hold numbers, none twice and none in both.
LEMMA ChainsApart ==
    ASSUME NEW v \in Volumes
    PROVE  /\ v.root \in Seq(Nat) /\ v.file \in Seq(Nat)
           /\ Once(v.root) /\ Once(v.file)
           /\ Apart(v.root, v.file)
<1>1. v.root \in Seq(Nat) /\ v.file \in Seq(Nat)
  BY VolumeTypes
<1>2. Once(v.root) /\ Once(v.file) /\ Apart(v.root, v.file)
  BY FatLoaderAssumption
<1> QED BY <1>1, <1>2

\* The clusters of the file lie one behind the other.
LEMMA Places ==
    ASSUME volume \in Volumes
    PROVE  /\ \A i \in 1 .. Len(volume.file) :
                 /\ FilePlace(i) \in Nat /\ volume.load <= FilePlace(i)
                 /\ FilePlace(i) + volume.spc * 2 <= volume.load + Len(volume.file) * volume.spc * 2
                 /\ FilePlace(i + 1) = FilePlace(i) + volume.spc * 2
           /\ FilePlace(1) = volume.load
           /\ \A i, j \in 1 .. Len(volume.file) :
                 i < j => FilePlace(i) + volume.spc * 2 <= FilePlace(j)
<1> DEFINE spc == volume.spc
           load == volume.load
           n == Len(volume.file)
<1>1. spc \in Nat /\ load \in Nat /\ n \in Nat /\ SECTOR = 2
  BY Sizes
<1>2. \A i \in Nat : FilePlace(i) = load + (i - 1) * spc * 2
  BY <1>1 DEF FilePlace
<1> HIDE DEF spc, load, n
<1>3. \A i, j \in Nat : i <= j => i * spc <= j * spc
  BY <1>1
<1>4. \A i \in Nat : i * spc \in Nat /\ (i + 1) * spc = i * spc + spc
  BY <1>1
<1>5. ASSUME NEW i \in 1 .. n
      PROVE  /\ FilePlace(i) \in Nat /\ load <= FilePlace(i)
             /\ FilePlace(i) + spc * 2 <= load + n * spc * 2
             /\ FilePlace(i + 1) = FilePlace(i) + spc * 2
  <2>1. i - 1 \in Nat /\ i \in Nat /\ i <= n /\ i - 1 + 1 = i
    BY <1>1
  <2>2. (i - 1) * spc \in Nat /\ i * spc = (i - 1) * spc + spc /\ i * spc <= n * spc
        /\ n * spc \in Nat
    BY <1>1, <1>3, <1>4, <2>1
  <2>3. FilePlace(i) = load + (i - 1) * spc * 2 /\ FilePlace(i + 1) = load + i * spc * 2
    BY <1>2, <2>1
  <2> QED BY <1>1, <2>2, <2>3
<1>6. ASSUME NEW i \in 1 .. n, NEW j \in 1 .. n, i < j
      PROVE  FilePlace(i) + spc * 2 <= FilePlace(j)
  <2>1. i - 1 \in Nat /\ j - 1 \in Nat /\ i \in Nat /\ j \in Nat /\ i <= j - 1 /\ i - 1 + 1 = i
    BY <1>1, <1>6
  <2>2. (i - 1) * spc \in Nat /\ i * spc = (i - 1) * spc + spc /\ i * spc <= (j - 1) * spc
        /\ (j - 1) * spc \in Nat
    BY <1>1, <1>3, <1>4, <2>1
  <2>3. FilePlace(i) = load + (i - 1) * spc * 2 /\ FilePlace(j) = load + (j - 1) * spc * 2
    BY <1>2, <2>1
  <2> QED BY <1>1, <2>2, <2>3
<1>7. FilePlace(1) = load
  BY <1>1, <1>2
<1> QED BY <1>5, <1>6, <1>7 DEF spc, load, n

\* The sectors of two clusters are never the same.
LEMMA OnDiskHolds ==
    ASSUME volume \in Volumes, NEW n \in Elements(volume.root) \union Elements(volume.file),
           NEW s \in 0 .. volume.spc - 1, NEW i
    PROVE  OnDisk(FirstSectorOfCluster(n) + s, i) = Data(n, s * SECTOR + i)
<1> DEFINE all == Elements(volume.root) \union Elements(volume.file)
           lba == FirstSectorOfCluster(n) + s
           holders == {m \in all : lba \in FirstSectorOfCluster(m) .. FirstSectorOfCluster(m) + volume.spc - 1}
           spc == volume.spc
           base == FirstDataSector + volume.hidden
<1>1. spc \in Nat /\ spc > 0 /\ base \in Nat
  <2>1. spc \in Nat /\ spc > 0 /\ volume.hidden \in Nat /\ FirstDataSector \in Nat
    <3> HIDE DEF spc
    <3>1. volume.hidden \in Nat /\ volume.reserved \in Nat /\ volume.fats \in Nat
      BY VolumeTypes
    <3>2. FirstDataSector \in Nat
      BY ONLY <3>1 DEF FirstDataSector
    <3>3. spc \in Nat /\ spc > 0
      BY VolumeTypes DEF spc
    <3> QED BY <3>1, <3>2, <3>3
  <2> QED BY ONLY <2>1
<1>2. \A m \in all : m \in Nat
  <2>1. volume.root \in Seq(Nat) /\ volume.file \in Seq(Nat)
    BY VolumeTypes
  <2>2. \A chain \in Seq(Nat) : Elements(chain) \subseteq Nat
    BY DEF Elements
  <2> QED BY <2>1, <2>2
<1>3. \A m \in all : FirstSectorOfCluster(m) = (m - 2) * spc + base
  <2>1. ASSUME NEW k \in Int PROVE k + FirstDataSector + volume.hidden = k + base
    BY VolumeTypes DEF FirstDataSector
  <2>2. \A m \in all : (m - 2) * spc \in Int
    BY <1>1, <1>2
  <2> HIDE DEF base
  <2> QED BY <2>1, <2>2 DEF FirstSectorOfCluster
<1> HIDE DEF base, spc
<1>4. \A k, m \in Int : k < m => k * spc + spc <= m * spc
  BY <1>1
<1>5. \A k \in Int : k * spc \in Int
  BY <1>1
<1>6. ASSUME NEW m \in holders PROVE m = n
  <2>1. m \in Nat /\ n \in Nat /\ m - 2 \in Int /\ n - 2 \in Int
    BY <1>2
  <2>2. /\ (m - 2) * spc + base <= (n - 2) * spc + base + s
        /\ (n - 2) * spc + base + s <= (m - 2) * spc + base + spc - 1
        /\ s \in 0 .. spc - 1
    <3>1. /\ FirstSectorOfCluster(m) = (m - 2) * spc + base
          /\ FirstSectorOfCluster(n) = (n - 2) * spc + base
      BY <1>3
    <3>2. (m - 2) * spc \in Int /\ (n - 2) * spc \in Int
      BY <1>5, <2>1
    <3>3. lba \in FirstSectorOfCluster(m) .. FirstSectorOfCluster(m) + spc - 1
      BY DEF spc
    <3>4. s \in 0 .. spc - 1
      BY DEF spc
    <3> QED BY <1>1, <3>1, <3>2, <3>3, <3>4
  <2>3. (m - 2) * spc \in Int /\ (n - 2) * spc \in Int
    BY <1>5, <2>1
  <2>4. ~ (m - 2 < n - 2) /\ ~ (n - 2 < m - 2)
    BY <1>1, <1>4, <2>1, <2>2, <2>3
  <2> QED BY <2>1, <2>4
<1>7. n \in holders
  <2>1. FirstSectorOfCluster(n) \in Int
    BY <1>1, <1>2, <1>3, <1>5
  <2> QED BY <1>1, <2>1 DEF spc
<1>8. holders = {n}
  <2> HIDE DEF holders
  <2> QED BY <1>6, <1>7
<1>9. (CHOOSE holder \in holders : TRUE) = n
  <2> HIDE DEF holders
  <2> QED BY <1>8
<1>10. lba - FirstSectorOfCluster(n) = s
  <2>1. FirstSectorOfCluster(n) \in Int
    BY <1>1, <1>2, <1>3, <1>5
  <2> QED BY <2>1
<1>11. OnDisk(lba, i) = Data(n, (lba - FirstSectorOfCluster(n)) * SECTOR + i)
  <2>1. OnDisk(lba, i) = IF holders = {} THEN Unknown
           ELSE Data(CHOOSE holder \in holders : TRUE,
                     (lba - FirstSectorOfCluster(CHOOSE holder \in holders : TRUE)) * SECTOR + i)
    BY DEF OnDisk
  <2> HIDE DEF holders, lba
  <2> QED BY <1>8, <1>9, <2>1
<1> QED BY <1>10, <1>11

\* The table's sector and the place in it lead to the entry of the cluster.
LEMMA EntryPlace ==
    ASSUME volume \in Volumes, NEW n \in Nat, EntryFits(n)
    PROVE  (TableSector(n) - volume.hidden - volume.reserved) * (BYTES_PER_SECTOR \div 4)
              + (TableOffset(n) % BYTES_PER_SECTOR) \div 4 = n
<1>1. TableSector(n) = volume.hidden + volume.reserved + (4 * n) \div 512
  BY TableSectorRight DEF BYTES_PER_SECTOR
<1>2. TableOffset(n) = 4 * n
  <2>1. Word(n) = n /\ Word(4 * n) = 4 * n
    BY WordFits DEF EntryFits
  <2> QED BY <2>1 DEF TableOffset
<1>3. volume.hidden \in Nat /\ volume.reserved \in Nat
  BY VolumeTypes
<1>4. (4 * n) \div 512 \in Nat
  OBVIOUS
<1>5. TableSector(n) - volume.hidden - volume.reserved = (4 * n) \div 512
  BY <1>1, <1>3, <1>4
<1>6. ((4 * n) \div 512) * 128 + ((4 * n) % 512) \div 4 = n
  OBVIOUS
<1>7. BYTES_PER_SECTOR \div 4 = 128 /\ BYTES_PER_SECTOR = 512
  BY DEF BYTES_PER_SECTOR
<1> QED BY <1>2, <1>5, <1>6, <1>7

\* The table leads from each cluster of a chain to the next.
LEMMA TableEntryIs ==
    ASSUME volume \in Volumes, NEW chain, chain = volume.root \/ chain = volume.file,
           NEW k \in 1 .. Len(chain), chain[k] >= 2
    PROVE  TableEntry(chain[k]) = After(chain, k)
<1> DEFINE n == chain[k]
           after(c) == {IF i = Len(c) THEN volume.last ELSE c[i + 1] :
                               i \in {j \in 1 .. Len(c) : c[j] = n}}
           next == after(volume.root) \union after(volume.file)
<1>1. /\ volume.root \in Seq(Nat) /\ volume.file \in Seq(Nat)
      /\ Once(volume.root) /\ Once(volume.file)
      /\ Elements(volume.root) \intersect Elements(volume.file) = {}
  BY ChainsApart DEF Apart
<1>2. n \in Nat /\ n # 0 /\ n # 1
  BY <1>1
<1>3. TableEntry(n) = IF next = {} THEN 0 ELSE CHOOSE value \in next : TRUE
  BY <1>2 DEF TableEntry
<1>4. after(chain) = {After(chain, k)}
  <2>1. {j \in 1 .. Len(chain) : chain[j] = n} = {k}
    BY <1>1 DEF Once
  <2> QED BY <2>1 DEF After
<1>5. \/ chain = volume.root /\ after(volume.file) = {}
      \/ chain = volume.file /\ after(volume.root) = {}
  <2>1. CASE chain = volume.root
    <3>1. {j \in 1 .. Len(volume.file) : volume.file[j] = n} = {}
      BY <1>1, <2>1 DEF Elements
    <3> QED BY <2>1, <3>1
  <2>2. CASE chain = volume.file
    <3>1. {j \in 1 .. Len(volume.root) : volume.root[j] = n} = {}
      BY <1>1, <2>2 DEF Elements
    <3> QED BY <2>2, <3>1
  <2> QED BY <2>1, <2>2
<1>6. next = {After(chain, k)}
  <2> HIDE DEF after
  <2> QED BY <1>4, <1>5
<1> HIDE DEF next
<1> QED BY <1>3, <1>6

\* A granule of the directory shows the search what is listed there.
LEMMA ShowsListing ==
    ASSUME volume \in Volumes, NEW k \in 1 .. Len(volume.root), NEW part
    PROVE  Shows(Data(volume.root[k], part)) = volume.listing[k][part]
<1> DEFINE granule == Data(volume.root[k], part)
           listed == {i \in 1 .. Len(volume.root) :
                         granule.of = "cluster" /\ granule.number = volume.root[i]}
<1>1. granule.of = "cluster" /\ granule.number = volume.root[k] /\ granule.part = part
  BY DEF Data
<1>2. listed = {k}
  <2>1. Once(volume.root)
    BY ChainsApart
  <2> HIDE DEF granule
  <2> QED BY <1>1, <2>1 DEF Once
<1>3. Shows(granule) = IF listed # {} THEN volume.listing[CHOOSE i \in listed : TRUE][granule.part]
                       ELSE IF granule.of = "end" THEN "end" ELSE "other"
  BY DEF Shows
<1> HIDE DEF listed
<1>4. (CHOOSE i \in listed : TRUE) = k
  BY <1>2
<1> QED BY <1>1, <1>2, <1>3, <1>4

\* Memory holds the buffers and the file.
LEMMA MemoryReaches ==
    ASSUME volume \in Volumes, MemoryInv
    PROVE  /\ \A a \in Nat : a <= 64 + volume.spc * 2 => a \in DOMAIN memory
           /\ \A i \in 1 .. Len(volume.file) : \A a \in Nat :
                 a < FilePlace(i) + volume.spc * 2 => a \in DOMAIN memory
<1> DEFINE spc == volume.spc
           n == Len(volume.file)
           load == volume.load
           top == load + spc * 2 * (n + 1) + 64
<1>1. spc \in Nat /\ spc > 0 /\ n \in Nat /\ load \in Nat
      /\ SECTOR = 2 /\ TABLE_BUFFER = 64
  BY Sizes
<1>2. DOMAIN memory = 0 .. top
  BY <1>1 DEF MemoryInv
<1>3. \A i \in 1 .. n : FilePlace(i) \in Nat /\ FilePlace(i) + spc * 2 <= load + n * spc * 2
  BY Places
<1> HIDE DEF spc, n, load
<1>4. n * spc \in Nat /\ spc * 2 * (n + 1) = n * spc * 2 + spc * 2
  BY <1>1
<1>5. top \in Nat /\ 64 + spc * 2 <= top /\ load + n * spc * 2 <= top
  BY <1>1, <1>4
<1> HIDE DEF top
<1>6. \A a \in Nat : a <= 64 + spc * 2 => a \in DOMAIN memory
  BY <1>1, <1>2, <1>5
<1>7. ASSUME NEW i \in 1 .. n, NEW a \in Nat, a < FilePlace(i) + spc * 2
      PROVE  a \in DOMAIN memory
  <2>1. load + n * spc * 2 \in Nat
    BY <1>1, <1>4
  <2> QED BY <1>1, <1>2, <1>3, <1>5, <1>7, <2>1
<1> QED BY <1>6, <1>7 DEF spc, n

\* What a sector that is placed changes.
LEMMA Placed ==
    ASSUME NEW at \in Nat, NEW first, NEW second, Place(at, first, second),
           at \in DOMAIN memory, at + 1 \in DOMAIN memory
    PROVE  /\ DOMAIN memory' = DOMAIN memory
           /\ memory'[at] = first /\ memory'[at + 1] = second
           /\ \A a \in DOMAIN memory : a # at /\ a # at + 1 => memory'[a] = memory[a]
<1>1. memory' = [memory EXCEPT ![at] = first, ![at + 1] = second] /\ at # at + 1
  BY DEF Place
<1> QED BY <1>1

\* The sector read is the one after those read already.
LEMMA SectorOfChain ==
    ASSUME FatInv, NEW chain, chain = volume.root \/ chain = volume.file, SmallNumbers(chain),
           NEW k \in 1 .. Len(chain), NEW place \in Nat, At(chain, k, place), SectorRead
    PROVE  LET s == volume.spc - request.cx IN
           /\ s \in 0 .. volume.spc - 1 /\ es + bx = place + s * 2 /\ es + bx \in Nat
           /\ Place(es + bx, Data(chain[k], s * 2 + 1), Data(chain[k], s * 2 + 2))
           /\ es' + bx' = es + bx + 2
<1> DEFINE s == volume.spc - request.cx
           n == chain[k]
<1>1. /\ volume \in Volumes /\ request.cx \in 0 .. volume.spc /\ request.cx > 0
      /\ es \in Nat /\ bx \in 0 .. SEGMENT - 1 /\ step = "read" /\ ~ request.table
  BY DEF FatInv, FatTypeOK, SectorRead
<1>2. SECTOR = 2 /\ SEGMENT = 256 /\ volume.spc \in Nat
  BY <1>1, Sizes
<1>3. s \in 0 .. volume.spc - 1
  BY <1>1, <1>2
<1>4. es + bx = place + s * 2 /\ n = cluster
  BY <1>1, <1>2 DEF At
<1>5. n \in Elements(volume.root) \union Elements(volume.file) /\ n \in Elements(chain)
  BY DEF Elements
<1>6. n \in Nat
  <2>1. chain \in Seq(Nat)
    BY <1>1, ChainsApart
  <2> QED BY <2>1
<1>7. request.lba = FirstSectorOfCluster(n) + s
  <2>1. ClusterSector(n) = FirstSectorOfCluster(n) /\ ClusterSector(n) \in Nat
    BY <1>1, <1>5, <1>6, ClusterSectorRight DEF SmallNumbers
  <2>2. request.lba = ClusterSector(n) + volume.spc - request.cx
    BY <1>1, <1>4 DEF FatInv, RequestInv
  <2> QED BY <1>1, <1>2, <2>1, <2>2
<1>8. /\ OnDisk(request.lba, 1) = Data(n, s * 2 + 1)
      /\ OnDisk(request.lba, 2) = Data(n, s * 2 + 2)
  BY <1>1, <1>2, <1>3, <1>5, <1>7, OnDiskHolds
<1>9. Place(es + bx, Data(n, s * 2 + 1), Data(n, s * 2 + 2))
  BY <1>8 DEF SectorRead
<1>10. bx \in 0 .. 255 /\ es \in Nat
  BY <1>1, <1>2
<1>11. bx' = (bx + 2) % 256 /\ es' = IF bx + 2 >= 256 THEN es + 256 ELSE es
  BY <1>2 DEF SectorRead, Advance
<1>12. es' + bx' = es + bx + 2
  <2>1. CASE bx + 2 >= 256
    BY <1>10, <1>11, <2>1
  <2>2. CASE ~ (bx + 2 >= 256)
    BY <1>10, <1>11, <2>2
  <2> QED BY <2>1, <2>2
<1> QED BY <1>3, <1>4, <1>9, <1>10, <1>12

\* Reading goes on from sector to sector, to the table and to the next cluster.
LEMMA ReadingOn ==
    ASSUME FatInv, NEW chain, chain = volume.root \/ chain = volume.file, SmallNumbers(chain),
           NEW k \in 1 .. Len(chain), NEW place \in Nat, At(chain, k, place),
           ReadCluster \/ Retry \/ SectorRead \/ GetNextCluster \/ TableRead
    PROVE  At(chain, k, place)'
<1>1. volume \in Volumes /\ volume' = volume /\ request.cx \in 0 .. volume.spc
  BY DEF FatInv, FatTypeOK, ReadCluster, Retry, SectorRead, GetNextCluster, TableRead, bufferVars
<1>2. SECTOR = 2 /\ volume.spc \in Nat
  BY <1>1, Sizes
<1>3. CASE ReadCluster
  <2>1. /\ step = "cluster" /\ step' = "read" /\ UNCHANGED <<cluster, es, bx>>
        /\ request'.cx = volume.spc /\ ~ request'.table
    BY <1>3 DEF ReadCluster, bufferVars
  <2>2. cluster = chain[k] /\ es + bx = place
    BY <2>1 DEF At
  <2>3. place = place + (volume'.spc - request'.cx) * SECTOR
    BY <1>1, <1>2, <2>1
  <2> QED BY <2>1, <2>2, <2>3 DEF At
<1>4. CASE Retry
  BY <1>1, <1>4 DEF Retry, At, bufferVars, After
<1>5. CASE SectorRead
  <2> DEFINE s == volume.spc - request.cx
  <2>1. /\ s \in 0 .. volume.spc - 1 /\ es + bx = place + s * 2 /\ es' + bx' = es + bx + 2
    BY <1>5, SectorOfChain
  <2>2. /\ step = "read" /\ ~ request.table /\ cluster' = cluster
        /\ request' = [request EXCEPT !.lba = @ + 1, !.cx = @ - 1]
        /\ step' = IF request.cx = 1 THEN "next" ELSE "read"
    BY <1>5 DEF SectorRead
  <2>3. request'.cx = request.cx - 1 /\ ~ request'.table
    BY <2>2 DEF FatInv, FatTypeOK
  <2>4. cluster = chain[k]
    BY <2>2 DEF At
  <2>5. CASE request.cx = 1
    <3>1. es' + bx' = place + volume'.spc * SECTOR
      BY <1>1, <1>2, <2>1, <2>5
    <3> QED BY <2>2, <2>4, <2>5, <3>1 DEF At
  <2>6. CASE request.cx # 1
    <3>1. es' + bx' = place + (volume'.spc - request'.cx) * SECTOR
      <4>1. request.cx \in Int /\ s = volume.spc - request.cx
        BY <2>2 DEF FatInv, FatTypeOK
      <4>2. es' + bx' = place + s * 2 + 2 /\ s \in Int
        BY <2>1, <1>1
      <4>3. volume'.spc - request'.cx = s + 1
        <5>1. volume' = volume /\ volume.spc \in Nat /\ request'.cx = request.cx - 1
          BY <1>1, <1>2, <2>3
        <5> QED BY <4>1, <5>1
      <4>4. SECTOR = 2 /\ place \in Nat
        BY <1>2
      <4> HIDE DEF s
      <4> QED BY ONLY <4>2, <4>3, <4>4
    <3> QED BY <2>2, <2>3, <2>4, <2>6, <3>1 DEF At
  <2> QED BY <2>5, <2>6
<1>6. CASE GetNextCluster
  <2>1. /\ step = "next" /\ step' = "read" /\ UNCHANGED <<cluster, es, bx>> /\ request'.table
    BY <1>6 DEF GetNextCluster, bufferVars
  <2> QED BY <1>1, <2>1 DEF At
<1>7. CASE TableRead
  <2>1. /\ step = "read" /\ request.table /\ step' \in {"search", "loaded"}
        /\ UNCHANGED <<es, bx>> /\ cluster' = EntryRead
    BY <1>7 DEF TableRead, bufferVars
  <2>2. cluster = chain[k] /\ es + bx = place + volume.spc * SECTOR
    BY <2>1 DEF At
  <2>3. cluster \in Nat /\ cluster >= 2 /\ EntryFits(cluster)
    <3>1. cluster \in Elements(chain)
      BY <2>2 DEF Elements
    <3> QED BY <3>1 DEF SmallNumbers, SectorFits, FatInv, FatTypeOK
  <2>4. request.lba = TableSector(cluster)
    BY <2>1 DEF FatInv, RequestInv
  <2>5. EntryRead = TableEntry(cluster)
    BY <1>1, <2>3, <2>4, EntryPlace DEF EntryRead
  <2>6. cluster' = After(chain, k)
    BY <1>1, <2>1, <2>2, <2>3, <2>5, TableEntryIs
  <2>7. After(chain, k)' = After(chain, k)
    BY <1>1 DEF After
  <2> QED BY <1>1, <2>1, <2>2, <2>6, <2>7 DEF At
<1> QED BY <1>3, <1>4, <1>5, <1>6, <1>7

-----------------------------------------------------------------------------
(* The parts of the invariant, step by step. *)

\* The inductive invariant.
LoadInv == FatInv /\ GoalInv /\ MemoryInv /\ FileInv /\ DirectoryInv

\* At the start nothing is held and nothing has been passed over.
LEMMA InitialLoad == FatInit => LoadInv
<1> SUFFICES ASSUME FatInit PROVE LoadInv
  OBVIOUS
<1>1. FatInv /\ volume \in Volumes
  BY InitialFat DEF FatInv, FatTypeOK
<1>2. /\ goal = "directory" /\ step = "cluster" /\ cluster = volume.root[1]
      /\ es = 0 /\ bx = ROOT_BUFFER
  BY DEF FatInit
<1>3. GoalInv /\ FileInv
  BY <1>2 DEF GoalInv, FileInv
<1>4. MemoryInv
  <2> DEFINE top == volume.load + volume.spc * SECTOR * (Len(volume.file) + 1) + TABLE_BUFFER
  <2>1. \E shows \in {"other", "end"} : memory = [g \in 0 .. top |-> Stale(shows)]
    BY DEF FatInit
  <2> HIDE DEF top
  <2>2. DOMAIN memory = 0 .. top
    BY <2>1
  <2> QED BY <2>2 DEF MemoryInv, top
<1>5. DirectoryInv
  <2>1. 1 \in 1 .. Len(volume.root)
    <3>1. Len(volume.root) \in Nat /\ Len(volume.root) > 0
      BY <1>1, Sizes, VolumeTypes
    <3> QED BY <3>1
  <2>2. At(volume.root, 1, ROOT_BUFFER)
    BY <1>1, <1>2, Sizes DEF At
  <2>3. DirectoryHeld(1)
    BY <1>1, <1>2, Sizes DEF DirectoryHeld
  <2>4. NotFoundMeansAbsent
    BY <1>2 DEF NotFoundMeansAbsent
  <2> QED BY <2>1, <2>2, <2>3, <2>4 DEF DirectoryInv
<1> QED BY <1>1, <1>3, <1>4, <1>5 DEF LoadInv

\* Only the directory is searched and only the file is started.
LEMMA GoalStep == FatInv /\ GoalInv /\ FatNext => GoalInv'
  BY DEF GoalInv, FatInv, FatTypeOK, FatNext, ReadCluster, Retry, GiveUp, SectorRead,
         GetNextCluster, TableRead, EndOfDirectory, FoundFile, NotInThisCluster,
         NextOrStart, bufferVars

\* Memory is never given another size.
LEMMA MemoryStep == FatInv /\ MemoryInv /\ FatNext => MemoryInv'
<1> SUFFICES ASSUME FatInv, MemoryInv, FatNext PROVE MemoryInv'
  OBVIOUS
<1>1. volume' = volume
  BY DEF FatNext, ReadCluster, Retry, GiveUp, SectorRead, GetNextCluster, TableRead,
         EndOfDirectory, FoundFile, NotInThisCluster, NextOrStart, bufferVars
<1>2. UNCHANGED memory \/ \E at, first, second : Place(at, first, second)
  BY DEF FatNext, ReadCluster, Retry, GiveUp, SectorRead, GetNextCluster, TableRead,
         EndOfDirectory, FoundFile, NotInThisCluster, NextOrStart, bufferVars
<1>3. DOMAIN memory' = DOMAIN memory
  BY <1>2 DEF Place
<1> QED BY <1>1, <1>3 DEF MemoryInv

\* A sector of the file goes where the sectors before it end.
LEMMA FileHeldSector ==
    ASSUME FatInv, MemoryInv, FileHeld, SmallNumbers(volume.file),
           NEW k \in 1 .. Len(volume.file), At(volume.file, k, FilePlace(k)), SectorRead
    PROVE  FileHeld'
<1> DEFINE s == volume.spc - request.cx
           here == es + bx
           size == volume.spc * 2
<1>1. volume \in Volumes /\ volume' = volume
  BY DEF FatInv, FatTypeOK, SectorRead
<1>2. SECTOR = 2 /\ volume.spc \in Nat
  BY <1>1, Sizes
<1>3. \A i \in 1 .. Len(volume.file) :
         FilePlace(i) \in Nat /\ (i < k => FilePlace(i) + size <= FilePlace(k))
                              /\ (k < i => FilePlace(k) + size <= FilePlace(i))
  BY <1>1, Places
<1>4. /\ s \in 0 .. volume.spc - 1 /\ here = FilePlace(k) + s * 2 /\ here \in Nat
      /\ Place(here, Data(volume.file[k], s * 2 + 1), Data(volume.file[k], s * 2 + 2))
      /\ es' + bx' = here + 2
  <2>1. PICK chain : chain = volume.file
    OBVIOUS
  <2>2. PICK place : place = FilePlace(k)
    OBVIOUS
  <2>3. At(chain, k, place) /\ SmallNumbers(chain) /\ place \in Nat /\ k \in 1 .. Len(chain)
    BY <1>3, <2>1, <2>2
  <2>4. /\ s \in 0 .. volume.spc - 1 /\ here = place + s * 2 /\ here \in Nat
        /\ Place(here, Data(chain[k], s * 2 + 1), Data(chain[k], s * 2 + 2))
        /\ es' + bx' = here + 2
    BY <2>1, <2>3, SectorOfChain
  <2> QED BY <2>1, <2>2, <2>4
<1> HIDE DEF here, s
<1>a. s \in Int /\ s <= volume.spc - 1 /\ here = FilePlace(k) + s * 2 /\ here \in Nat
      /\ FilePlace(k) \in Nat /\ FilePlace(k) <= here
  <2>1. volume.spc \in Nat /\ s \in 0 .. volume.spc - 1 /\ here = FilePlace(k) + s * 2
        /\ here \in Nat /\ FilePlace(k) \in Nat
    BY <1>2, <1>3, <1>4
  <2> QED BY ONLY <2>1
<1>5. here + 1 < FilePlace(k) + size
  BY ONLY <1>2, <1>a
<1>6. here \in DOMAIN memory /\ here + 1 \in DOMAIN memory
      /\ \A a \in Nat : a < FilePlace(k) + size => a \in DOMAIN memory
  <2>1. k \in 1 .. Len(volume.file) /\ size \in Nat
    BY <1>2
  <2>2. \A a \in Nat : a < FilePlace(k) + size => a \in DOMAIN memory
    BY <1>1, <2>1, MemoryReaches
  <2>3. here < FilePlace(k) + size /\ here \in Nat /\ here + 1 \in Nat
    BY ONLY <1>5, <1>a, <2>1
  <2> QED BY <1>5, <2>2, <2>3
<1>7. /\ memory'[here] = Data(volume.file[k], s * 2 + 1)
      /\ memory'[here + 1] = Data(volume.file[k], s * 2 + 2)
      /\ \A a \in DOMAIN memory : a # here /\ a # here + 1 => memory'[a] = memory[a]
  <2> DEFINE first == Data(volume.file[k], s * 2 + 1)
             second == Data(volume.file[k], s * 2 + 2)
  <2>1. here \in Nat /\ Place(here, first, second)
        /\ here \in DOMAIN memory /\ here + 1 \in DOMAIN memory
    BY <1>4, <1>6
  <2> HIDE DEF first, second
  <2>2. /\ memory'[here] = first /\ memory'[here + 1] = second
        /\ \A a \in DOMAIN memory : a # here /\ a # here + 1 => memory'[a] = memory[a]
    BY ONLY <2>1, Placed
  <2> QED BY <2>2 DEF first, second
<1>8. ASSUME NEW i \in 1 .. Len(volume.file), NEW part \in 1 .. volume.spc * SECTOR,
             FilePlace(i) + part <= here + 2
      PROVE  memory'[FilePlace(i) + part - 1] = Data(volume.file[i], part)
  <2> DEFINE a == FilePlace(i) + part - 1
  <2>1. part \in 1 .. size /\ part \in Nat /\ FilePlace(i) \in Nat /\ a \in Nat
    BY <1>2, <1>3
  <2>2. CASE FilePlace(i) + part <= here
    <3>1. a # here /\ a # here + 1 /\ a < FilePlace(k) + size
      <4>1. a < here
        BY <1>4, <2>1, <2>2
      <4>2. FilePlace(k) \in Nat /\ size \in Nat
        BY <1>2, <1>3
      <4>3. here \in Nat /\ a \in Nat
        BY <1>4, <2>1
      <4> HIDE DEF a, size
      <4> QED BY ONLY <1>5, <4>1, <4>2, <4>3
    <3>2. memory'[a] = memory[a]
      BY <1>6, <1>7, <2>1, <3>1
    <3>3. memory[a] = Data(volume.file[i], part)
      BY <2>2 DEF FileHeld, here
    <3> QED BY <3>2, <3>3
  <2>3. CASE ~ (FilePlace(i) + part <= here)
    <3>1. a = here \/ a = here + 1
      <4>1. FilePlace(i) + part <= here + 2 /\ here \in Nat
        BY <1>8, <1>a
      <4> HIDE DEF here, size
      <4> QED BY ONLY <4>1, <2>1, <2>3
    <3>2. ~ (i < k) /\ ~ (k < i)
      <4>1. FilePlace(k) \in Nat /\ size \in Nat /\ part <= size /\ 1 <= part
        BY <1>2, <1>3, <2>1
      <4>2. /\ i < k => FilePlace(i) + size <= FilePlace(k)
            /\ k < i => FilePlace(k) + size <= FilePlace(i)
        BY <1>3
      <4>3. FilePlace(k) <= here
        BY <1>3, <1>4
      <4> HIDE DEF a, size
      <4>4. ~ (i < k)
        BY ONLY <1>4, <2>1, <2>3, <4>1, <4>2, <4>3, FilePlace(i) \in Nat, part \in Nat
      <4>5. ~ (k < i)
        <5>1. FilePlace(i) + part <= here + 2 /\ here \in Nat
          BY <1>8, <1>a
        <5> QED BY ONLY <1>5, <5>1, <2>1, <4>1, <4>2
      <4> QED BY <4>4, <4>5
    <3>3. i = k
      BY <3>2
    <3>4. a = here => part = s * 2 + 1
      BY <1>2, <1>3, <1>4, <2>1, <3>3
    <3>5. a = here + 1 => part = s * 2 + 2
      BY <1>2, <1>3, <1>4, <2>1, <3>3
    <3> HIDE DEF a
    <3>6. memory'[a] = Data(volume.file[i], part)
      BY <1>7, <3>1, <3>3, <3>4, <3>5
    <3> QED BY <3>6 DEF a
  <2> QED BY <2>2, <2>3
<1>9. \A i \in 1 .. Len(volume.file) : FilePlace(i)' = FilePlace(i)
  BY <1>1 DEF FilePlace
<1> QED BY <1>1, <1>4, <1>8, <1>9 DEF FileHeld

\* The sector of the table goes clear of the file.
LEMMA FileHeldTable ==
    ASSUME FatInv, MemoryInv, FileHeld, ClearOfTable(volume), TableRead
    PROVE  FileHeld'
<1>1. volume \in Volumes /\ volume' = volume /\ UNCHANGED <<es, bx>>
  BY DEF FatInv, FatTypeOK, TableRead, bufferVars
<1>2. SECTOR = 2 /\ TABLE_BUFFER = 64 /\ volume.spc \in Nat /\ volume.load \in Nat
      /\ Len(volume.file) \in Nat /\ volume.spc > 0
  BY <1>1, Sizes
<1>3. PICK sector : Place(64, sector, sector)
  BY <1>2 DEF TableRead
<1>4. 64 \in DOMAIN memory /\ 64 + 1 \in DOMAIN memory
  BY <1>1, <1>2, MemoryReaches
<1>5. \A a \in DOMAIN memory : a # 64 /\ a # 65 => memory'[a] = memory[a]
  <2> DEFINE at == 64
  <2>1. at \in Nat /\ Place(at, sector, sector) /\ at \in DOMAIN memory /\ at + 1 \in DOMAIN memory
    BY <1>3, <1>4
  <2> HIDE DEF at
  <2>2. \A a \in DOMAIN memory : a # at /\ a # at + 1 => memory'[a] = memory[a]
    BY <2>1, Placed
  <2> QED BY <2>2 DEF at
<1>6. ASSUME NEW i \in 1 .. Len(volume.file), NEW part \in 1 .. volume.spc * SECTOR,
             FilePlace(i) + part <= es + bx
      PROVE  memory'[FilePlace(i) + part - 1] = Data(volume.file[i], part)
  <2> DEFINE a == FilePlace(i) + part - 1
             end == volume.load + Len(volume.file) * volume.spc * 2
  <2>1. /\ FilePlace(i) \in Nat /\ volume.load <= FilePlace(i)
        /\ FilePlace(i) + volume.spc * 2 <= end
    BY <1>1, Places
  <2>2. part \in Nat /\ 1 <= part /\ part <= volume.spc * 2 /\ a \in Nat
        /\ volume.load <= a /\ a < FilePlace(i) + volume.spc * 2
    BY <1>2, <2>1
  <2>3. a \in DOMAIN memory
    BY <1>1, <2>2, MemoryReaches
  <2>4. a # 64 /\ a # 65
    <3>1. end <= 64 \/ volume.load >= 66
      BY <1>2 DEF ClearOfTable
    <3>2. end \in Nat
      <4>1. Len(volume.file) * volume.spc \in Nat
        BY <1>2
      <4> QED BY <1>2, <4>1
    <3> HIDE DEF a, end
    <3> QED BY <1>2, <2>1, <2>2, <3>1, <3>2
  <2>5. memory'[a] = memory[a]
    BY <1>5, <2>3, <2>4
  <2>6. memory[a] = Data(volume.file[i], part)
    BY <1>6 DEF FileHeld
  <2> QED BY <2>5, <2>6
<1>7. \A i \in 1 .. Len(volume.file) : FilePlace(i)' = FilePlace(i)
  BY <1>1 DEF FilePlace
<1> QED BY <1>1, <1>6, <1>7 DEF FileHeld

\* Whatever else leaves memory and the place in it alone.
LEMMA FileHeldKept ==
    FileHeld /\ UNCHANGED <<volume, memory, es, bx>> => FileHeld'
  BY DEF FileHeld, FilePlace

\* The volume and what is asked of it stay the same.
LEMMA SmallKept ==
    ASSUME volume' = volume
    PROVE  /\ SmallNumbers(volume.root)' <=> SmallNumbers(volume.root)
           /\ SmallNumbers(volume.file)' <=> SmallNumbers(volume.file)
<1>1. \A n : SectorFits(n)' <=> SectorFits(n)
  BY DEF SectorFits
<1>2. ASSUME NEW chain PROVE SmallNumbers(chain)' <=> SmallNumbers(chain)
  BY <1>1 DEF SmallNumbers
<1>3. PICK root : root = volume.root
  OBVIOUS
<1>4. PICK file : file = volume.file
  OBVIOUS
<1> QED BY <1>2, <1>3, <1>4

\* Every step keeps what is held of the file.
LEMMA FileStep ==
    ASSUME FatInv, GoalInv, MemoryInv, FileInv, FatNext
    PROVE  FileInv'
<1>1. volume \in Volumes /\ volume' = volume
  BY DEF FatInv, FatTypeOK, FatNext, ReadCluster, Retry, GiveUp, SectorRead, GetNextCluster,
         TableRead, EndOfDirectory, FoundFile, NotInThisCluster, NextOrStart, bufferVars
<1>2. SUFFICES ASSUME goal' = "file", SmallNumbers(volume.file), ClearOfTable(volume)
               PROVE  /\ FileHeld'
                      /\ step' # "halted" =>
                            \E k \in 1 .. Len(volume.file) : At(volume.file, k, FilePlace(k))'
  <2>1. SmallNumbers(volume.file)' <=> SmallNumbers(volume.file)
    BY <1>1, SmallKept
  <2> QED BY <1>1, <2>1 DEF FileInv
<1>3. PICK chain : chain = volume.file
  OBVIOUS
<1>4. ASSUME NEW k \in 1 .. Len(chain), At(chain, k, FilePlace(k))'
      PROVE  At(volume.file, k, FilePlace(k))'
  BY <1>1, <1>3, <1>4
<1>5. CASE FoundFile
  <2>1. es' = 0 /\ bx' = volume.load /\ cluster' = volume.file[1] /\ step' = "cluster"
    BY <1>5 DEF FoundFile
  <2>2. FilePlace(1)' = volume.load /\ \A i \in 1 .. Len(volume.file) :
           FilePlace(i)' \in Nat /\ volume.load <= FilePlace(i)'
    <3>1. \A i \in 1 .. Len(volume.file) : FilePlace(i)' = FilePlace(i)
      BY <1>1 DEF FilePlace
    <3>2. 1 \in 1 .. Len(volume.file)
      BY <1>1, Sizes, VolumeTypes
    <3> QED BY <1>1, <3>1, <3>2, Places
  <2>3. FileHeld'
    <3>1. volume.load \in Nat /\ volume.spc * SECTOR \in Nat
      BY <1>1, Sizes
    <3> QED BY <1>1, <2>1, <2>2, <3>1 DEF FileHeld
  <2>4. At(volume.file, 1, FilePlace(1))'
    <3>1. es' + bx' = FilePlace(1)'
      BY <1>1, <2>1, <2>2, Sizes
    <3> QED BY <1>1, <2>1, <3>1 DEF At
  <2>5. 1 \in 1 .. Len(volume.file)
    BY <1>1, Sizes, VolumeTypes
  <2> QED BY <2>3, <2>4, <2>5
<1>6. CASE ~ FoundFile
  <2>1. goal = "file" /\ FileHeld
        /\ (step # "halted" => \E k \in 1 .. Len(volume.file) : At(volume.file, k, FilePlace(k)))
    <3>1. goal = "file"
      BY <1>2, <1>6 DEF FatNext, ReadCluster, Retry, GiveUp, SectorRead, GetNextCluster,
         TableRead, EndOfDirectory, NotInThisCluster, NextOrStart, bufferVars
    <3> QED BY <1>2, <3>1 DEF FileInv
  <2>2. step \notin {"halted", "search", "not found"}
    BY <1>6, <2>1 DEF GoalInv, FatNext, ReadCluster, Retry, GiveUp, SectorRead, GetNextCluster,
         TableRead, EndOfDirectory, NotInThisCluster, NextOrStart
  <2>3. PICK k \in 1 .. Len(chain) : At(chain, k, FilePlace(k))
    BY <1>3, <2>1, <2>2
  <2>4. PICK place : place = FilePlace(k)
    OBVIOUS
  <2>5. place \in Nat /\ FilePlace(k)' = place
    BY <1>1, <1>3, <2>4, Places DEF FilePlace
  <2>6. CASE ReadCluster \/ Retry \/ SectorRead \/ GetNextCluster \/ TableRead
    <3>1. At(chain, k, place)'
      BY <1>2, <1>3, <2>3, <2>4, <2>5, <2>6, ReadingOn
    <3>2. At(chain, k, FilePlace(k))'
      BY <2>5, <3>1
    <3>3. FileHeld'
      <4>1. CASE SectorRead
        BY <1>2, <1>3, <2>1, <2>3, <4>1, FileHeldSector
      <4>2. CASE TableRead
        BY <1>2, <2>1, <4>2, FileHeldTable
      <4>3. CASE ReadCluster \/ Retry \/ GetNextCluster
        BY <2>1, <4>3, FileHeldKept DEF ReadCluster, Retry, GetNextCluster, bufferVars
      <4> QED BY <2>6, <4>1, <4>2, <4>3
    <3> QED BY <1>3, <1>4, <3>2, <3>3
  <2>7. CASE GiveUp
    BY <2>1, <2>7, FileHeldKept DEF GiveUp, bufferVars
  <2>8. CASE NextOrStart
    <3>1. /\ step = "loaded" /\ UNCHANGED <<volume, memory, es, bx, cluster>>
          /\ step' = IF cluster < END_OF_CHAIN THEN "cluster" ELSE "started"
      BY <2>8 DEF NextOrStart, bufferVars
    <3>2. FileHeld'
      BY <2>1, <3>1, FileHeldKept
    <3>3. cluster = After(chain, k) /\ es + bx = place + volume.spc * 2
      BY <1>1, <2>3, <2>4, <3>1, Sizes DEF At
    <3>4. k = Len(chain) => ~ (cluster < END_OF_CHAIN)
      <4>1. volume.last \in Nat /\ volume.last >= END_OF_CHAIN
        BY <1>1, FatLoaderAssumption
      <4>2. END_OF_CHAIN \in Nat
        BY DEF END_OF_CHAIN
      <4> QED BY <3>3, <4>1, <4>2 DEF After
    <3>5. CASE k = Len(chain)
      <4>1. step' = "started"
        BY <3>1, <3>4, <3>5
      <4>2. At(chain, k, FilePlace(k))'
        BY <1>1, <2>5, <3>1, <3>3, <3>5, <4>1, Sizes DEF At
      <4> QED BY <1>3, <1>4, <3>2, <4>2
    <3>6. CASE k # Len(chain)
      <4>1. k + 1 \in 1 .. Len(chain) /\ cluster = chain[k + 1]
        BY <1>1, <1>3, <3>3, <3>6, Sizes DEF After
      <4>2. cluster < END_OF_CHAIN
        <5>1. cluster \in Elements(chain)
          BY <4>1 DEF Elements
        <5>2. 4 * cluster < 65536 /\ cluster \in Nat
          BY <1>2, <1>3, <5>1 DEF SmallNumbers, EntryFits, FatInv, FatTypeOK
        <5> QED BY <5>2 DEF END_OF_CHAIN
      <4>3. es + bx = FilePlace(k + 1)' /\ step' = "cluster"
        <5>1. FilePlace(k + 1) = FilePlace(k) + volume.spc * 2
          BY <1>1, <1>3, Places
        <5>2. FilePlace(k + 1)' = FilePlace(k + 1)
          BY <1>1 DEF FilePlace
        <5> QED BY <2>4, <3>1, <3>3, <4>2, <5>1, <5>2
      <4>4. At(chain, k + 1, FilePlace(k + 1))'
        BY <3>1, <4>1, <4>3 DEF At
      <4> QED BY <1>3, <1>4, <3>2, <4>1, <4>4
    <3> QED BY <3>5, <3>6
  <2> QED BY <1>6, <2>2, <2>6, <2>7, <2>8 DEF FatNext, EndOfDirectory, NotInThisCluster
<1> QED BY <1>5, <1>6

\* A sector of the directory goes where the sectors before it end.
LEMMA DirectoryHeldSector ==
    ASSUME FatInv, MemoryInv, SmallNumbers(volume.root), NEW k \in 1 .. Len(volume.root),
           At(volume.root, k, ROOT_BUFFER), DirectoryHeld(k), SectorRead
    PROVE  DirectoryHeld(k)'
<1> DEFINE s == volume.spc - request.cx
           here == es + bx
<1>1. volume \in Volumes /\ volume' = volume
  BY DEF FatInv, FatTypeOK, SectorRead
<1>2. ROOT_BUFFER = 16 /\ volume.spc \in Nat
  BY <1>1, Sizes
<1>3. /\ s \in 0 .. volume.spc - 1 /\ here = 16 + s * 2 /\ here \in Nat
      /\ Place(here, Data(volume.root[k], s * 2 + 1), Data(volume.root[k], s * 2 + 2))
      /\ es' + bx' = here + 2
  <2>1. PICK chain : chain = volume.root
    OBVIOUS
  <2>2. At(chain, k, 16) /\ SmallNumbers(chain) /\ k \in 1 .. Len(chain)
    BY <1>2, <2>1
  <2>3. /\ s \in 0 .. volume.spc - 1 /\ here = 16 + s * 2 /\ here \in Nat
        /\ Place(here, Data(chain[k], s * 2 + 1), Data(chain[k], s * 2 + 2))
        /\ es' + bx' = here + 2
    BY <2>1, <2>2, SectorOfChain
  <2> QED BY <2>1, <2>3
<1> HIDE DEF here, s
<1>4. s \in Nat /\ s < volume.spc
  BY <1>2, <1>3
<1>5. here \in DOMAIN memory /\ here + 1 \in DOMAIN memory
      /\ \A a \in Nat : a <= 64 => a \in DOMAIN memory
  <2>1. \A a \in Nat : a <= 64 + volume.spc * 2 => a \in DOMAIN memory
    BY <1>1, MemoryReaches
  <2>2. volume.spc \in Nat /\ here = 16 + s * 2 /\ s < volume.spc
    BY ONLY <1>2, <1>3, <1>4
  <2>3. /\ here \in Nat /\ here + 1 \in Nat /\ here + 1 <= 64 + volume.spc * 2
        /\ \A a \in Nat : a <= 64 => a <= 64 + volume.spc * 2
    BY ONLY <1>4, <2>2
  <2> QED BY ONLY <2>1, <2>3
<1>6. /\ memory'[here] = Data(volume.root[k], s * 2 + 1)
      /\ memory'[here + 1] = Data(volume.root[k], s * 2 + 2)
      /\ \A a \in DOMAIN memory : a # here /\ a # here + 1 => memory'[a] = memory[a]
  <2> DEFINE first == Data(volume.root[k], s * 2 + 1)
             second == Data(volume.root[k], s * 2 + 2)
  <2>1. here \in Nat /\ Place(here, first, second)
        /\ here \in DOMAIN memory /\ here + 1 \in DOMAIN memory
    BY <1>3, <1>5
  <2> HIDE DEF first, second
  <2>2. /\ memory'[here] = first /\ memory'[here + 1] = second
        /\ \A a \in DOMAIN memory : a # here /\ a # here + 1 => memory'[a] = memory[a]
    BY ONLY <2>1, Placed
  <2> QED BY <2>2 DEF first, second
<1>7. ASSUME NEW part \in 1 .. 4, 16 + part <= here + 2
      PROVE  memory'[16 + part - 1] = Data(volume.root[k], part)
  <2> DEFINE a == 16 + part - 1
  <2>1. here \in Nat /\ here = 16 + s * 2
    BY <1>3
  <2>2. CASE 16 + part <= here
    <3>1. a \in Nat /\ a <= 64 /\ a # here /\ a # here + 1
      BY <2>1, <2>2
    <3>2. memory'[a] = memory[a]
      BY <1>5, <1>6, <3>1
    <3>3. memory[a] = Data(volume.root[k], part)
      BY <1>2, <2>2 DEF DirectoryHeld, here
    <3> QED BY <3>2, <3>3
  <2>3. CASE ~ (16 + part <= here)
    <3>1. \/ a = here /\ part = s * 2 + 1
          \/ a = here + 1 /\ part = s * 2 + 2
      BY <1>4, <1>7, <2>1, <2>3
    <3> HIDE DEF a
    <3>2. memory'[a] = Data(volume.root[k], part)
      BY <1>6, <3>1
    <3> QED BY <3>2 DEF a
  <2> QED BY <2>2, <2>3
<1> QED BY <1>1, <1>2, <1>3, <1>7 DEF DirectoryHeld

\* The sector of the table goes clear of what is searched.
LEMMA DirectoryHeldTable ==
    ASSUME FatInv, MemoryInv, NEW k, DirectoryHeld(k), TableRead
    PROVE  DirectoryHeld(k)'
<1>1. volume \in Volumes /\ volume' = volume /\ UNCHANGED <<es, bx>>
  BY DEF FatInv, FatTypeOK, TableRead, bufferVars
<1>2. TABLE_BUFFER = 64 /\ ROOT_BUFFER = 16 /\ volume.spc \in Nat
  BY <1>1, Sizes
<1>3. PICK sector : Place(64, sector, sector)
  BY <1>2 DEF TableRead
<1>4. 64 \in DOMAIN memory /\ 64 + 1 \in DOMAIN memory
      /\ \A a \in Nat : a <= 64 => a \in DOMAIN memory
  <2>1. volume.spc > 0
    BY <1>1, Sizes
  <2> QED BY <1>1, <1>2, <2>1, MemoryReaches
<1>5. \A a \in DOMAIN memory : a # 64 /\ a # 64 + 1 => memory'[a] = memory[a]
  <2> DEFINE at == 64
  <2>1. at \in Nat /\ Place(at, sector, sector) /\ at \in DOMAIN memory /\ at + 1 \in DOMAIN memory
    BY <1>3, <1>4
  <2> HIDE DEF at
  <2>2. \A a \in DOMAIN memory : a # at /\ a # at + 1 => memory'[a] = memory[a]
    BY <2>1, Placed
  <2> QED BY <2>2 DEF at
<1>6. \A part \in 1 .. 4 : memory'[16 + part - 1] = memory[16 + part - 1]
  BY <1>4, <1>5
<1> QED BY <1>1, <1>2, <1>6 DEF DirectoryHeld

\* When a cluster is searched, its first 32 entries are what is listed.
LEMMA SearchedListing ==
    ASSUME FatInv, volume.spc > 1, step = "search", NEW k \in 1 .. Len(volume.root),
           At(volume.root, k, ROOT_BUFFER), DirectoryHeld(k)
    PROVE  /\ cluster = After(volume.root, k)
           /\ Searched = 16 .. 19
           /\ \A part \in 1 .. 4 : Shows(memory[15 + part]) = volume.listing[k][part]
<1>1. volume \in Volumes
  BY DEF FatInv, FatTypeOK
<1>2. ROOT_BUFFER = 16 /\ volume.spc \in Nat /\ SECTOR = 2
  BY <1>1, Sizes
<1>3. cluster = After(volume.root, k) /\ es + bx = 16 + volume.spc * 2
  BY <1>2 DEF At
<1>4. ASSUME NEW part \in 1 .. 4
      PROVE  Shows(memory[15 + part]) = volume.listing[k][part]
  <2>1. 16 + part <= es + bx /\ 16 + part - 1 = 15 + part
    BY <1>2, <1>3
  <2>2. memory[15 + part] = Data(volume.root[k], part)
    BY <1>2, <2>1 DEF DirectoryHeld
  <2> QED BY <1>1, <2>2, ShowsListing
<1> QED BY <1>2, <1>3, <1>4 DEF Searched

\* The search ends the directory where the listing does.
LEMMA EndStep ==
    ASSUME FatInv, volume.spc > 1, NEW k \in 1 .. Len(volume.root),
           At(volume.root, k, ROOT_BUFFER), DirectoryHeld(k), EndOfDirectory
    PROVE  NotFoundMeansAbsent'
<1>1. volume \in Volumes /\ volume' = volume /\ step = "search"
  BY DEF FatInv, FatTypeOK, EndOfDirectory, bufferVars
<1>2. PICK g \in Searched : Decides(g) /\ Shows(memory[g]) = "end"
  BY DEF EndOfDirectory
<1>3. /\ Searched = 16 .. 19
      /\ \A part \in 1 .. 4 : Shows(memory[15 + part]) = volume.listing[k][part]
  BY <1>1, SearchedListing
<1> DEFINE p == g - 15
<1>4. p \in 1 .. 4 /\ 15 + p = g
  BY <1>2, <1>3
<1>5. volume.listing[k][p] = "end"
  BY <1>2, <1>3, <1>4
<1>6. ASSUME NEW q \in 1 .. 4, q < p PROVE volume.listing[k][q] = "other"
  <2>1. 15 + q \in Searched /\ ~ (g <= 15 + q)
    BY <1>3, <1>4, <1>6
  <2>2. 15 + q \notin Telling
    BY <1>2, <2>1 DEF Decides
  <2> QED BY <1>3, <2>1, <2>2 DEF Telling
<1>7. \A j \in 1 .. k - 1, part \in 1 .. 4 : volume.listing[j][part] = "other"
  BY DEF DirectoryHeld
<1>8. ASSUME NEW i \in 1 .. Len(volume.root), NEW part \in 1 .. 4,
             volume.listing[i][part] = "file"
      PROVE  \E j \in 1 .. i, before \in 1 .. 4 :
                volume.listing[j][before] = "end" /\ (j < i \/ before < part)
  <2>1. i >= k
    <3>1. Len(volume.root) \in Nat
      BY <1>1, Sizes
    <3>2. ~ (i \in 1 .. k - 1)
      BY <1>7, <1>8
    <3> QED BY <3>1, <3>2
  <2>2. i = k => p < part
    <3>1. i = k => ~ (part < p) /\ part # p
      BY <1>5, <1>6, <1>8
    <3> HIDE DEF p
    <3> QED BY <1>4, <3>1
  <2>3. k \in 1 .. i /\ (k < i \/ p < part)
    BY <1>1, <2>1, <2>2, Sizes
  <2> HIDE DEF p
  <2> QED BY <1>4, <1>5, <2>3
<1> QED BY <1>1, <1>8 DEF NotFoundMeansAbsent

\* Every step keeps what is held of the directory, and the search misses nothing.
LEMMA DirectoryStep ==
    ASSUME FatInv, GoalInv, MemoryInv, DirectoryInv, FatNext
    PROVE  DirectoryInv'
<1>1. volume \in Volumes /\ volume' = volume
  BY DEF FatInv, FatTypeOK, FatNext, ReadCluster, Retry, GiveUp, SectorRead, GetNextCluster,
         TableRead, EndOfDirectory, FoundFile, NotInThisCluster, NextOrStart, bufferVars
<1>2. SUFFICES ASSUME goal' = "directory", SmallNumbers(volume.root), volume.spc > 1
               PROVE  /\ NotFoundMeansAbsent'
                      /\ step' \notin {"halted", "not found"} =>
                            \E k \in 1 .. Len(volume.root) :
                                At(volume.root, k, ROOT_BUFFER)' /\ DirectoryHeld(k)'
  <2>1. SmallNumbers(volume.root)' <=> SmallNumbers(volume.root)
    BY <1>1, SmallKept
  <2> QED BY <1>1, <2>1 DEF DirectoryInv
<1>3. PICK chain : chain = volume.root
  OBVIOUS
<1>4. ~ FoundFile /\ goal = "directory"
  BY <1>2 DEF FatNext, ReadCluster, Retry, GiveUp, SectorRead, GetNextCluster,
         TableRead, EndOfDirectory, FoundFile, NotInThisCluster, NextOrStart, bufferVars
<1>5. step \notin {"halted", "not found", "loaded"}
  BY <1>4 DEF GoalInv, FatNext, ReadCluster, Retry, GiveUp, SectorRead, GetNextCluster,
         TableRead, EndOfDirectory, NotInThisCluster, NextOrStart
<1>6. PICK k \in 1 .. Len(volume.root) : At(volume.root, k, ROOT_BUFFER) /\ DirectoryHeld(k)
  BY <1>2, <1>4, <1>5 DEF DirectoryInv
<1>7. ROOT_BUFFER = 16 /\ At(chain, k, 16) /\ k \in 1 .. Len(chain)
  BY <1>1, <1>3, <1>6, Sizes
<1>8. CASE ReadCluster \/ Retry \/ SectorRead \/ GetNextCluster \/ TableRead
  <2>1. step' # "not found"
    BY <1>8 DEF ReadCluster, Retry, SectorRead, GetNextCluster, TableRead
  <2>2. NotFoundMeansAbsent'
    BY <2>1 DEF NotFoundMeansAbsent
  <2>3. At(chain, k, 16)'
    BY <1>2, <1>3, <1>7, <1>8, ReadingOn
  <2>4. At(volume.root, k, ROOT_BUFFER)'
    BY <1>1, <1>3, <1>7, <2>3
  <2>5. DirectoryHeld(k)'
    <3>1. CASE SectorRead
      BY <1>2, <1>6, <3>1, DirectoryHeldSector
    <3>2. CASE TableRead
      BY <1>6, <3>2, DirectoryHeldTable
    <3>3. CASE ReadCluster \/ Retry \/ GetNextCluster
      BY <1>6, <3>3 DEF ReadCluster, Retry, GetNextCluster, bufferVars, DirectoryHeld
    <3> QED BY <1>8, <3>1, <3>2, <3>3
  <2> QED BY <2>2, <2>4, <2>5
<1>9. CASE GiveUp
  BY <1>9 DEF GiveUp, NotFoundMeansAbsent
<1>10. CASE EndOfDirectory
  <2>1. NotFoundMeansAbsent'
    BY <1>2, <1>6, <1>10, EndStep
  <2> QED BY <1>10, <2>1 DEF EndOfDirectory
<1>11. CASE NotInThisCluster
  <2>1. /\ step = "search" /\ Telling = {} /\ es' = 0 /\ bx' = 16 /\ cluster' = cluster
        /\ step' = IF cluster < END_OF_CHAIN THEN "cluster" ELSE "not found"
    BY <1>7, <1>11 DEF NotInThisCluster
  <2>2. /\ cluster = After(volume.root, k) /\ Searched = 16 .. 19
        /\ \A part \in 1 .. 4 : Shows(memory[15 + part]) = volume.listing[k][part]
    BY <1>2, <1>6, <2>1, SearchedListing
  <2>3. \A part \in 1 .. 4 : volume.listing[k][part] = "other"
    <3>1. \A part \in 1 .. 4 : 15 + part \in Searched
      BY <2>2
    <3>2. \A g \in Searched : Shows(memory[g]) = "other"
      BY <2>1 DEF Telling
    <3> QED BY <2>2, <3>1, <3>2
  <2>4. \A j \in 1 .. k, part \in 1 .. 4 : volume.listing[j][part] = "other"
    <3>1. \A j \in 1 .. k - 1, part \in 1 .. 4 : volume.listing[j][part] = "other"
      BY <1>6 DEF DirectoryHeld
    <3>2. \A j \in 1 .. k : j \in 1 .. k - 1 \/ j = k
      BY <1>1, Sizes
    <3> QED BY <2>3, <3>1, <3>2
  <2>5. volume.last \in Nat /\ volume.last >= END_OF_CHAIN /\ END_OF_CHAIN \in Nat
    BY <1>1, FatLoaderAssumption DEF END_OF_CHAIN
  <2>6. CASE k = Len(volume.root)
    <3>1. step' = "not found"
      <4>1. cluster = volume.last
        BY <2>2, <2>6 DEF After
      <4>2. ~ (cluster < END_OF_CHAIN)
        BY <2>5, <4>1
      <4> QED BY <2>1, <4>2
    <3>2. NotFoundMeansAbsent'
      BY <1>1, <2>4, <2>6 DEF NotFoundMeansAbsent
    <3> QED BY <3>1, <3>2
  <2>7. CASE k # Len(volume.root)
    <3>1. k + 1 \in 1 .. Len(volume.root) /\ cluster = volume.root[k + 1]
      BY <1>1, <2>2, <2>7, Sizes DEF After
    <3>2. cluster < END_OF_CHAIN
      <4>1. cluster \in Elements(volume.root)
        BY <3>1 DEF Elements
      <4>2. 4 * cluster < 65536 /\ cluster \in Nat
        BY <1>2, <4>1 DEF SmallNumbers, EntryFits, FatInv, FatTypeOK
      <4> QED BY <4>2 DEF END_OF_CHAIN
    <3>3. step' = "cluster" /\ es' + bx' = 16
      BY <2>1, <3>2
    <3>4. At(volume.root, k + 1, ROOT_BUFFER)'
      BY <1>1, <1>7, <2>1, <3>1, <3>3 DEF At
    <3>5. DirectoryHeld(k + 1)'
      <4>1. k + 1 - 1 = k
        BY <1>1, Sizes
      <4>2. \A part \in 1 .. 4 : ~ (16 + part <= es' + bx')
        BY <3>3
      <4> QED BY <1>1, <1>7, <2>4, <4>1, <4>2 DEF DirectoryHeld
    <3>6. NotFoundMeansAbsent'
      BY <3>3 DEF NotFoundMeansAbsent
    <3> QED BY <3>1, <3>4, <3>5, <3>6
  <2> QED BY <2>6, <2>7
<1> QED BY <1>4, <1>5, <1>8, <1>9, <1>10, <1>11 DEF FatNext, NextOrStart

\* Every step keeps the whole invariant.
LEMMA LoadStep == LoadInv /\ [FatNext]_fatVars => LoadInv'
<1> SUFFICES ASSUME LoadInv, [FatNext]_fatVars PROVE LoadInv'
  OBVIOUS
<1>1. FatInv'
  BY FatStep DEF LoadInv
<1>2. CASE FatNext
  BY <1>1, <1>2, GoalStep, MemoryStep, FileStep, DirectoryStep DEF LoadInv
<1>3. CASE UNCHANGED fatVars
  <2>1. /\ UNCHANGED <<volume, memory, goal, step, cluster, es, bx, request>>
    BY <1>3 DEF fatVars
  <2>2. GoalInv' /\ MemoryInv'
    BY <2>1 DEF LoadInv, GoalInv, MemoryInv
  <2>3. /\ SmallNumbers(volume.root)' <=> SmallNumbers(volume.root)
        /\ SmallNumbers(volume.file)' <=> SmallNumbers(volume.file)
    BY <2>1, SmallKept
  <2>4. FileHeld' <=> FileHeld
    BY <2>1 DEF FileHeld, FilePlace
  <2>5. \A k : At(volume.file, k, FilePlace(k))' <=> At(volume.file, k, FilePlace(k))
    BY <2>1 DEF At, After, FilePlace
  <2>6. FileInv'
    <3>1. FileInv
      BY DEF LoadInv
    <3> QED BY <2>1, <2>3, <2>4, <2>5, <3>1 DEF FileInv
  <2>7. \A k : At(volume.root, k, ROOT_BUFFER)' <=> At(volume.root, k, ROOT_BUFFER)
    BY <2>1 DEF At, After
  <2>8. \A k : DirectoryHeld(k)' <=> DirectoryHeld(k)
    BY <2>1 DEF DirectoryHeld
  <2>9. NotFoundMeansAbsent' <=> NotFoundMeansAbsent
    BY <2>1, <2>3 DEF NotFoundMeansAbsent
  <2>10. DirectoryInv'
    <3>1. DirectoryInv
      BY DEF LoadInv
    <3> QED BY <2>1, <2>3, <2>7, <2>8, <2>9, <3>1 DEF DirectoryInv
  <2> QED BY <1>1, <2>2, <2>6, <2>10 DEF LoadInv
<1> QED BY <1>2, <1>3

\* The whole invariant holds throughout.
LEMMA LoadInvariant == FatSpec => []LoadInv
  BY InitialLoad, LoadStep, PTL DEF FatSpec

\* When the loader jumps to the file, all of it is in memory and no read of
\* the table has gone over it, whatever reads failed and wherever the clusters
\* lie, on every volume whose file has its place clear of the table's sector.
THEOREM FatLoadedWhole == FatSpec => [](ClearOfTable(volume) => LoadedWhole)
<1>1. ASSUME LoadInv, ClearOfTable(volume) PROVE LoadedWhole
  <2> SUFFICES ASSUME step = "started", SmallNumbers(volume.file),
                      NEW i \in 1 .. Len(volume.file), NEW part \in 1 .. volume.spc * SECTOR
               PROVE  memory[FilePlace(i) + part - 1] = Data(volume.file[i], part)
    BY DEF LoadedWhole, FilePlace
  <2>1. /\ volume \in Volumes /\ FileHeld
        /\ \E k \in 1 .. Len(volume.file) : At(volume.file, k, FilePlace(k))
    BY <1>1 DEF LoadInv, FatInv, FatTypeOK, GoalInv, FileInv
  <2>2. PICK k \in 1 .. Len(volume.file) : At(volume.file, k, FilePlace(k))
    BY <2>1
  <2>3. SECTOR = 2 /\ volume.spc \in Nat /\ Len(volume.file) \in Nat
    BY <2>1, Sizes
  <2>4. k = Len(volume.file) /\ es + bx = FilePlace(k) + volume.spc * 2
    BY <2>2, <2>3 DEF At
  <2>5. FilePlace(i) \in Nat /\ FilePlace(k) \in Nat
        /\ (i < k => FilePlace(i) + volume.spc * 2 <= FilePlace(k))
    BY <2>1, Places
  <2>6. FilePlace(i) + part <= es + bx
    BY <2>3, <2>4, <2>5
  <2> QED BY <2>1, <2>6 DEF FileHeld
<1>2. LoadInv => (ClearOfTable(volume) => LoadedWhole)
  BY <1>1
<1> QED BY LoadInvariant, <1>2, PTL

\* The loader reports a file as not found only when the directory does not
\* list it, among the first 32 entries of its clusters, before its end.
THEOREM FatNotFoundMeansAbsent == FatSpec => []NotFoundMeansAbsent
<1>1. ASSUME LoadInv PROVE NotFoundMeansAbsent
  <2>1. CASE step = "not found" /\ volume.spc > 1 /\ SmallNumbers(volume.root)
    BY <1>1, <2>1 DEF LoadInv, GoalInv, DirectoryInv
  <2>2. CASE ~ (step = "not found" /\ volume.spc > 1 /\ SmallNumbers(volume.root))
    BY <2>2 DEF NotFoundMeansAbsent
  <2> QED BY <2>1, <2>2
<1> QED BY LoadInvariant, <1>1, PTL
=============================================================================
