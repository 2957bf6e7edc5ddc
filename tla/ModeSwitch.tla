----------------------------- MODULE ModeSwitch -----------------------------
(***************************************************************************)
(* Stage 2 from the loaded kernel to its first instruction                 *)
(* (Stage2_X86.asm with cpu.inc, A20.inc, Gdt.inc and Idt.inc): the check  *)
(* of the processor, the A20 gate, protected mode, the copy of the kernel  *)
(* to 1 MiB, the first page tables and long mode.  The gate is opened by   *)
(* talking to the keyboard controller, which runs beside the processor and *)
(* sends what is typed through the same buffer as its answers.  The mode   *)
(* the processor is in follows from its control bits and from the          *)
(* descriptor that its last far jump put into CS.                          *)
(***************************************************************************)
EXTENDS Integers

CONSTANT
    Processors  \* the processors, as [cpuid, extended, longMode]: whether
                \* CPUID exists, whether it has function 0x80000001, and
                \* whether that function reports long mode

\* Of a byte two bits matter when it goes to the output port: bit 0 holds the
\* reset line, bit 1 opens A20.  A byte is the set of those that are 1, and a
\* command or an empty buffer a set with a mark of its own.
RESET == "bit 0"
A20 == "bit 1"
Byte == SUBSET {RESET, A20}

Empty == {"empty"}
Disable == {"0xAD"}
ReadPort == {"0xD0"}
WritePort == {"0xD1"}
Enable == {"0xAE"}
Commands == {Disable, ReadPort, WritePort, Enable}

VARIABLES
    processor,
    pc,             \* the next step of stage 2
    al,             \* the byte read from the controller
    interrupts,     \* the interrupt flag
    control,        \* the control bits that are set, and "CR3" once that
                    \* register holds 0x1000
    gdt,            \* selector -> descriptor
    cs, ds,         \* the descriptors loaded for code and data
    staging, high,  \* what is at 0x500 and at 1 MiB
    controller      \* its two buffers, its output port, and what it awaits

memoryVars == <<staging, high>>
modeVars == <<control, gdt, cs, ds>>
switchVars == <<processor, pc, al, interrupts, modeVars, memoryVars, controller>>

-----------------------------------------------------------------------------
(* The descriptor table: what a segment is for, the width of its code, and *)
(* whether it spans 4 GiB.                                                 *)

Descriptor(kind, bits, flat) == [kind |-> kind, bits |-> bits, flat |-> flat]

CODE_DESC == 8
DATA_SEGMENT == 16
CODE16_DESC == 24
DATA_SEGMENT16 == 32
CODE64_DESC == 40
DATA_SEGMENT64 == 48
Selectors == {CODE_DESC, DATA_SEGMENT, CODE16_DESC, DATA_SEGMENT16, CODE64_DESC, DATA_SEGMENT64}

StartOfGdt == [selector \in Selectors |->
    CASE selector = CODE_DESC -> Descriptor("code", 32, TRUE)
      [] selector = DATA_SEGMENT -> Descriptor("data", 32, TRUE)
      [] selector = CODE16_DESC -> Descriptor("code", 16, FALSE)
      [] selector = DATA_SEGMENT16 -> Descriptor("data", 16, FALSE)
      [] selector = CODE64_DESC -> Descriptor("code", 64, FALSE)
      [] selector = DATA_SEGMENT64 -> Descriptor("data", 16, FALSE)]

LongModeActive == {"LME", "PG"} \subseteq control

\* The width in which the processor decodes: outside long mode it ignores the
\* bit of a 64-bit code segment, and takes it for a 16-bit one.
Width == IF cs.bits = 64 /\ ~ LongModeActive THEN 16 ELSE cs.bits

\* With A20 closed, an address of 1 MiB is address 0.
A20Open == A20 \in controller.port

SwitchInit ==
    /\ processor \in Processors
    /\ pc = "detect"
    /\ al = {}
    /\ interrupts = TRUE
    /\ control = {}
    /\ gdt = [selector \in Selectors |-> Descriptor("unknown", 16, FALSE)]
    /\ cs = Descriptor("code", 16, FALSE) /\ ds = Descriptor("data", 16, FALSE)
    /\ staging = "kernel" /\ high = "unknown"
    /\ \E a20 \in SUBSET {A20} :
          controller = [input |-> Empty, output |-> Empty, port |-> {RESET} \union a20,
                        writing |-> FALSE, keyboard |-> TRUE]

-----------------------------------------------------------------------------
(* The processor check.  Either failure prints, waits for a key and boots  *)
(* again.                                                                  *)

DetectCPU ==
    /\ pc = "detect"
    /\ pc' = IF processor.cpuid /\ processor.extended THEN "a20" ELSE "refused"
    /\ UNCHANGED <<processor, al, interrupts, modeVars, memoryVars, controller>>

-----------------------------------------------------------------------------
(* EnableA20_KKbrd_Out.                                                    *)

CallA20 ==
    /\ pc = "a20"
    /\ interrupts' = FALSE
    /\ pc' = "disable keyboard"
    /\ UNCHANGED <<processor, al, modeVars, memoryVars, controller>>

\* wait_input, then out: only the processor fills the input buffer.
Out(from, byte, to) ==
    /\ pc = from
    /\ controller.input = Empty
    /\ controller' = [controller EXCEPT !.input = byte]
    /\ pc' = to
    /\ UNCHANGED <<processor, al, interrupts, modeVars, memoryVars>>

DisableKeyboard == Out("disable keyboard", Disable, "ask")
\* Faulty variant: the wrong command.
AskAgainToDisable == Out("ask", Disable, "answer")
AskForPort == Out("ask", ReadPort, "answer")

\* wait_output, then in.
ReadAnswer ==
    /\ pc = "answer"
    /\ controller.output # Empty
    /\ al' = controller.output
    /\ controller' = [controller EXCEPT !.output = Empty]
    /\ pc' = "announce"
    /\ UNCHANGED <<processor, interrupts, modeVars, memoryVars>>

\* Faulty variant: the byte announced is not sent.
AnnounceAlone == Out("announce", WritePort, "enable keyboard")
AnnouncePort == Out("announce", WritePort, "send")
\* Faulty variant: bit 1 is not set.
SendPortAsRead == Out("send", al, "enable keyboard")
SendPort == Out("send", al \union {A20}, "enable keyboard")
EnableKeyboard == Out("enable keyboard", Enable, "a20 done")

ReturnFromA20 ==
    /\ pc = "a20 done"
    /\ controller.input = Empty
    /\ interrupts' = TRUE
    /\ pc' = "video"
    /\ UNCHANGED <<processor, al, modeVars, memoryVars, controller>>

-----------------------------------------------------------------------------
(* The keyboard controller and the keyboard.                               *)

\* The controller takes what is in its input buffer.  A byte written to the
\* output port that lets go of the reset line restarts the machine.
ControllerStep ==
    /\ controller.input # Empty
    /\ \/ /\ controller.input = Disable
          /\ controller' = [controller EXCEPT !.input = Empty, !.keyboard = FALSE]
          /\ UNCHANGED pc
       \/ /\ controller.input = ReadPort
          /\ controller' = [controller EXCEPT !.input = Empty, !.output = controller.port]
          /\ UNCHANGED pc
       \/ /\ controller.input = WritePort
          /\ controller' = [controller EXCEPT !.input = Empty, !.writing = TRUE]
          /\ UNCHANGED pc
       \/ /\ controller.input = Enable
          /\ controller' = [controller EXCEPT !.input = Empty, !.keyboard = TRUE]
          /\ UNCHANGED pc
       \/ /\ controller.input \in Byte /\ controller.writing
          /\ controller' = [controller EXCEPT !.input = Empty, !.writing = FALSE,
                                              !.port = controller.input]
          /\ pc' = IF RESET \in controller.input THEN pc ELSE "reset"
    /\ UNCHANGED <<processor, al, interrupts, modeVars, memoryVars>>

KeyPress ==
    /\ controller.keyboard /\ controller.output = Empty
    /\ \E scancode \in Byte : controller' = [controller EXCEPT !.output = scancode]
    /\ UNCHANGED <<processor, pc, al, interrupts, modeVars, memoryVars>>

\* The BIOS reads a key that has come, while it may interrupt.
BiosTakesKey ==
    /\ interrupts /\ "PE" \notin control
    /\ controller.output # Empty
    /\ controller' = [controller EXCEPT !.output = Empty]
    /\ UNCHANGED <<processor, pc, al, interrupts, modeVars, memoryVars>>

-----------------------------------------------------------------------------
(* To protected mode and to long mode. *)

At(from, to) == pc = from /\ pc' = to /\ UNCHANGED <<processor, al, controller>>

\* Faulty variant: no cli after the BIOS has set the video mode.
VideoWithoutCli ==
    /\ At("video", "gdt")
    /\ UNCHANGED <<interrupts, modeVars, memoryVars>>
SetVideoMode ==
    /\ At("video", "gdt")
    /\ interrupts' = FALSE
    /\ UNCHANGED <<modeVars, memoryVars>>

\* InstallIDT, which follows, loads the table of real mode that is in force.
GdtInstall ==
    /\ At("gdt", "protect")
    /\ gdt' = StartOfGdt
    /\ UNCHANGED <<interrupts, control, cs, ds, memoryVars>>

EnterProtectedMode ==
    /\ At("protect", "far jump")
    /\ control' = control \union {"PE"}
    /\ UNCHANGED <<interrupts, gdt, cs, ds, memoryVars>>

\* Faulty variant: the selector of the 16-bit code segment.
FarJumpTo16 ==
    /\ At("far jump", "segments")
    /\ cs' = gdt[CODE16_DESC]
    /\ UNCHANGED <<interrupts, control, gdt, ds, memoryVars>>
FarJump ==
    /\ At("far jump", "segments")
    /\ cs' = gdt[CODE_DESC]
    /\ UNCHANGED <<interrupts, control, gdt, ds, memoryVars>>

LoadSegments ==
    /\ At("segments", "copy")
    /\ ds' = gdt[DATA_SEGMENT]
    /\ UNCHANGED <<interrupts, control, gdt, cs, memoryVars>>

\* rep movsb from 0x500 to 0x100000.
CopyKernel ==
    /\ At("copy", "tables")
    /\ IF A20Open THEN high' = staging ELSE UNCHANGED high
    /\ UNCHANGED <<interrupts, modeVars, staging>>

\* Paging off; the tables go to 0x1000-0x4FFF, over the kernel as it was
\* loaded.
BuildTables ==
    /\ At("tables", "pae")
    /\ control' = control \ {"PG"}
    /\ staging' = "tables"
    /\ UNCHANGED <<interrupts, gdt, cs, ds, high>>

\* Faulty variant: CR4 is left as it is.
SetPaeForgotten ==
    /\ At("pae", "cr3")
    /\ UNCHANGED <<interrupts, modeVars, memoryVars>>
SetPae ==
    /\ At("pae", "cr3")
    /\ control' = control \union {"PAE"}
    /\ UNCHANGED <<interrupts, gdt, cs, ds, memoryVars>>

LoadCr3 ==
    /\ At("cr3", "lme")
    /\ control' = control \union {"CR3"}
    /\ UNCHANGED <<interrupts, gdt, cs, ds, memoryVars>>

SetLme ==
    /\ processor.longMode
    /\ At("lme", "paging")
    /\ control' = control \union {"LME"}
    /\ UNCHANGED <<interrupts, gdt, cs, ds, memoryVars>>

\* A processor without long mode faults at the wrmsr, and with no handler to
\* run it resets.
SetLmeFaults ==
    /\ ~ processor.longMode
    /\ At("lme", "reset")
    /\ UNCHANGED <<interrupts, modeVars, memoryVars>>

EnablePaging ==
    /\ At("paging", "far return")
    /\ control' = control \union {"PG"}
    /\ UNCHANGED <<interrupts, gdt, cs, ds, memoryVars>>

FarReturn ==
    /\ At("far return", "start")
    /\ cs' = gdt[CODE64_DESC]
    /\ UNCHANGED <<interrupts, control, gdt, ds, memoryVars>>

\* LoaderEntry64: cli, the segments, the stack, and the jump to the kernel.
StartKernel ==
    /\ At("start", "kernel")
    /\ interrupts' = FALSE
    /\ ds' = gdt[DATA_SEGMENT64]
    /\ UNCHANGED <<control, gdt, cs, memoryVars>>

\* What the processor does next.
StageTwo ==
    \/ DetectCPU
    \/ CallA20 \/ DisableKeyboard \/ AskForPort \/ ReadAnswer
    \/ AnnouncePort \/ SendPort \/ EnableKeyboard \/ ReturnFromA20
    \/ SetVideoMode \/ GdtInstall \/ EnterProtectedMode \/ FarJump \/ LoadSegments
    \/ CopyKernel \/ BuildTables
    \/ SetPae \/ LoadCr3 \/ SetLme \/ SetLmeFaults \/ EnablePaging
    \/ FarReturn \/ StartKernel

SwitchNext == StageTwo \/ ControllerStep \/ KeyPress \/ BiosTakesKey

\* The processor and the controller each go on; nobody has to type.
SwitchSpec ==
    /\ SwitchInit /\ [][SwitchNext]_switchVars
    /\ WF_switchVars(StageTwo) /\ WF_switchVars(ControllerStep)

-----------------------------------------------------------------------------
(* Properties. *)

Descriptors == [kind : {"code", "data", "unknown"}, bits : {16, 32, 64}, flat : BOOLEAN]

\* Every variable has its type; the controller awaits a byte for its output
\* port only between the two halves of the write.
SwitchTypeOK ==
    /\ processor \in Processors
    /\ al \in Byte
    /\ interrupts \in BOOLEAN
    /\ control \subseteq {"PE", "PAE", "CR3", "LME", "PG"}
    /\ gdt \in [Selectors -> Descriptors] /\ cs \in Descriptors /\ ds \in Descriptors
    /\ controller \in [input : {Empty} \union Commands \union Byte, output : {Empty} \union Byte,
                       port : Byte, writing : BOOLEAN, keyboard : BOOLEAN]
    /\ controller.writing => pc \in {"send", "enable keyboard"}

\* Whatever the handshake with the controller went through, the kernel starts
\* in long mode, with the gate open and itself at 1 MiB, though the page
\* tables have taken the place it was loaded to.
KernelInPlace == pc = "kernel" => A20Open /\ high = "kernel" /\ Width = 64

\* Code is assembled for one width: BITS 32 from LoaderEntry32 on and BITS 64
\* from LoaderEntry64 on.  The control bits, the table and the selectors of
\* the two far jumps together see to it that each part runs in its own, and
\* that the copy goes through a segment that reaches past 1 MiB.
ExecutesAsAssembled ==
    LET steps32 == {"copy", "tables", "pae", "cr3", "lme", "paging", "far return"}
    IN  /\ pc \in {"start", "kernel"} => Width = 64
        /\ pc \in steps32 \union {"segments"} => Width = 32
        /\ pc \in {"gdt", "protect", "far jump"} => Width = 16
        /\ pc \in steps32 => ds.kind = "data" /\ ds.flat

\* Paging comes on when all it needs is there: the tables, CR3, and the two
\* bits without which it would not be long mode's.
PagingPrepared ==
    "PG" \in control =>
        {"PE", "PAE", "CR3", "LME"} \subseteq control /\ staging = "tables"

\* The IDT that is loaded is the table of real mode, so from the change of
\* mode on, an interrupt would end in a reset: none may come.
NoInterruptOutsideRealMode == "PE" \in control => ~ interrupts

\* The handshake polls without a bound; it ends because each poll waits for
\* something the controller does on its own.  So stage 2 comes to an end: the
\* kernel, a refusal of the processor, or a reset.
StageTwoEnds == <>(pc \in {"kernel", "refused", "reset"})

=============================================================================
