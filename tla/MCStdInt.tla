------------------------------ MODULE MCStdInt ------------------------------
(* Every set of widths, with int of 16, 32 or 64 bits: constants of wider  *)
(* types take a suffix.  One compiler gives its narrow types a suffix too. *)
EXTENDS StdInt

Suffixed(int) == [w \in Widths |-> IF w <= int THEN "plain" ELSE IF w < 64 THEN "L" ELSE "LL"]
NarrowSuffixed == [w \in Widths |-> IF w <= 16 THEN "L" ELSE "plain"]

MCTargets ==
    [types : SUBSET Widths, c2x : BOOLEAN,
     suffix : {Suffixed(16), Suffixed(32), Suffixed(64), NarrowSuffixed}]
=============================================================================
