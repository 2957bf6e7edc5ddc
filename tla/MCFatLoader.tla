---- MODULE MCFatLoader ----
EXTENDS FatLoader

Volume(spc, root, listing, file, last, load) ==
    [hidden |-> 2048, reserved |-> 32, fats |-> 1008, spc |-> spc, root |-> root,
     listing |-> listing, file |-> file, last |-> last, load |-> load]

\* Where Boot1 loads STAGE2.SYS and Stage2 loads KRNLDR.BIN.
Stage2Load == 32256 \div GRANULE
KernelLoad == 1280 \div GRANULE

Others(n) == [i \in 1 .. n |-> "other"]

\* A directory of two clusters and a chain in no order; a directory that ends
\* before any entry of the file; a file in the first entries of a large
\* cluster that crosses 64 KiB; a cluster of one sector; a file on both sides
\* of the 32 MiB that the first sector's number reaches, one on both sides of
\* cluster 16384 and one up to there; a file behind the 32nd entry of a cluster.
MCVolumes == {
    Volume(2, <<2, 9>>, <<Others(4), <<"other", "other", "other", "file">>>>,
           <<7, 3, 12>>, 268435455, KernelLoad),
    Volume(2, <<2>>, <<<<"other", "end", "file", "end">>>>, <<5>>, 268435448, Stage2Load),
    Volume(2, <<2, 4>>, <<Others(4), Others(4)>>, <<5>>, 268435448, Stage2Load),
    Volume(8, <<2>>, <<[i \in 1 .. 16 |-> IF i = 1 THEN "file" ELSE "end"]>>,
           <<3, 4, 5, 6, 7, 8, 9, 130, 129>>, 268435455, Stage2Load),
    Volume(1, <<2>>, <<<<"other", "file">>>>, <<3, 4>>, 268435448, KernelLoad),
    Volume(8, <<2>>, <<[i \in 1 .. 16 |-> IF i = 1 THEN "file" ELSE "end"]>>,
           <<8193, 8194>>, 268435455, KernelLoad),
    Volume(1, <<2>>, <<<<"file", "end">>>>, <<16383, 16384, 16390>>, 268435448, KernelLoad),
    Volume(1, <<2>>, <<<<"file", "end">>>>, <<16383, 16382>>, 268435448, KernelLoad),
    Volume(4, <<2>>, <<[i \in 1 .. 8 |-> IF i = 5 THEN "file" ELSE "other"]>>,
           <<3>>, 268435448, KernelLoad)}

\* 32 sectors of kernel, from 0x500 up.
MCLargeKernel == {
    Volume(8, <<2>>, <<[i \in 1 .. 16 |-> IF i = 1 THEN "file" ELSE "end"]>>,
           <<3, 4, 5, 6>>, 268435455, KernelLoad)}
====
