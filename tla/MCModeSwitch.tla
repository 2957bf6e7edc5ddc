---- MODULE MCModeSwitch ----
(* The kinds of processor: with long mode, with the extended functions but *)
(* without it, with CPUID alone, and without CPUID.                        *)
EXTENDS ModeSwitch

Processor(cpuid, extended, longMode) ==
    [cpuid |-> cpuid, extended |-> extended, longMode |-> longMode]

MCProcessors == {
    Processor(TRUE, TRUE, TRUE), Processor(TRUE, TRUE, FALSE),
    Processor(TRUE, FALSE, FALSE), Processor(FALSE, FALSE, FALSE)}
====
