-------------------------- MODULE ModeSwitchProofs --------------------------
(***************************************************************************)
(* Stage 2 gets the processor from real mode to the kernel in long mode,   *)
(* whatever processors there are, whatever is typed while the A20 gate is  *)
(* being opened and in whatever order controller and processor go on.      *)
(***************************************************************************)
EXTENDS ModeSwitch, TLAPS

-----------------------------------------------------------------------------
(* The inductive invariant. *)

Steps == {
    "detect", "refused", "a20", "disable keyboard", "ask", "answer", "announce", "send",
    "enable keyboard", "a20 done", "video", "gdt", "protect", "far jump", "segments", "copy",
    "tables", "pae", "cr3", "lme", "paging", "far return", "start", "kernel", "reset"}

\* The steps with paging on, in 32-bit code, with the new table, out of real
\* mode, and after the gate.
Paged == {"far return", "start", "kernel"}
From32 == {"copy", "tables", "pae", "cr3", "lme", "paging", "far return"}
InLongMode == {"start", "kernel"}
Protected == {"far jump", "segments"} \union From32 \union InLongMode
AfterGate == {"video", "gdt", "protect"} \union Protected
BeforeGate == {"detect", "refused", "a20", "disable keyboard"}
Handshake == {"ask", "answer", "announce", "send", "enable keyboard", "a20 done"}

TypesInv == SwitchTypeOK /\ pc \in Steps

\* What is on its way to the controller at each step of the handshake, and
\* from which step on the gate is open.
Idle == controller.input = Empty /\ ~ controller.writing
HandshakeInv ==
    /\ pc \in BeforeGate => Idle
    /\ pc = "ask" => ~ controller.writing /\ controller.input \in {Empty, Disable}
    /\ pc \in {"answer", "announce"} =>
          ~ controller.writing /\ controller.input \in {Empty, ReadPort}
    /\ pc = "send" =>
          \/ controller.input = WritePort /\ ~ controller.writing
          \/ controller.input = Empty /\ controller.writing
    /\ pc = "enable keyboard" =>
          \/ controller.input \in Byte /\ A20 \in controller.input /\ controller.writing
          \/ Idle /\ A20Open
    /\ pc = "a20 done" =>
          ~ controller.writing /\ controller.input \in {Empty, Enable} /\ A20Open
    /\ pc \in AfterGate => Idle /\ A20Open
    /\ pc = "reset" => Idle

\* The control bits are those that the steps so far have set.
ControlInv ==
    /\ pc \in BeforeGate \union Handshake \union {"video", "gdt", "protect"} => control = {}
    /\ pc \in {"far jump", "segments", "copy", "tables", "pae"} => control = {"PE"}
    /\ pc = "cr3" => control = {"PE", "PAE"}
    /\ pc = "lme" => control = {"PE", "PAE", "CR3"}
    /\ pc = "paging" => control = {"PE", "PAE", "CR3", "LME"}
    /\ pc \in Paged => control = {"PE", "PAE", "CR3", "LME", "PG"}
    /\ pc = "reset" => "PG" \notin control

InterruptsInv ==
    /\ pc \in {"gdt", "protect"} \union Protected => ~ interrupts
    /\ pc = "reset" /\ "PE" \in control => ~ interrupts

Code16 == Descriptor("code", 16, FALSE)
Code32 == Descriptor("code", 32, TRUE)
Data32 == Descriptor("data", 32, TRUE)
Code64 == Descriptor("code", 64, FALSE)

\* The segments are those that the far jumps and moves so far have loaded.
SegmentsInv ==
    /\ pc \in {"protect"} \union Protected => gdt = StartOfGdt
    /\ pc \in BeforeGate \union Handshake \union {"video", "gdt", "protect", "far jump"} =>
          cs = Code16
    /\ pc \in {"segments"} \union From32 => cs = Code32
    /\ pc \in From32 => ds = Data32
    /\ pc \in InLongMode => cs = Code64

\* Where the kernel and the page tables are.
MemoryInv ==
    /\ pc \in Steps \ ({"pae", "cr3", "lme", "paging", "reset"} \union Paged) => staging = "kernel"
    /\ pc \in {"pae", "cr3", "lme", "paging"} \union Paged => staging = "tables"
    /\ pc \in {"tables", "pae", "cr3", "lme", "paging"} \union Paged => high = "kernel"

SwitchInv ==
    /\ TypesInv
    /\ HandshakeInv
    /\ ControlInv
    /\ InterruptsInv
    /\ SegmentsInv
    /\ MemoryInv

-----------------------------------------------------------------------------
(* Lemmas. *)

\* The marks, the commands and the bytes are different things.
LEMMA MarksDistinct ==
    /\ Empty \notin Commands \union Byte
    /\ Commands \intersect Byte = {}
    /\ Disable # ReadPort /\ Disable # WritePort /\ Disable # Enable
    /\ ReadPort # WritePort /\ ReadPort # Enable /\ WritePort # Enable
BY DEF Empty, Commands, Byte, Disable, ReadPort, WritePort, Enable, RESET, A20

\* What the selectors stand for in the new table.
LEMMA TableOfGdt ==
    /\ StartOfGdt \in [Selectors -> Descriptors]
    /\ StartOfGdt[CODE_DESC] = Code32
    /\ StartOfGdt[DATA_SEGMENT] = Data32
    /\ StartOfGdt[CODE64_DESC] = Code64
BY DEF StartOfGdt, Code32, Data32, Code64, Selectors, Descriptors, Descriptor, CODE_DESC, DATA_SEGMENT, CODE16_DESC,
       DATA_SEGMENT16, CODE64_DESC, DATA_SEGMENT64

\* The BIOS hands over in real mode, with an idle keyboard controller.
LEMMA InitialSwitch == SwitchInit => SwitchInv
<1> SUFFICES ASSUME SwitchInit PROVE SwitchInv
  OBVIOUS
<1>1. PICK a20 \in SUBSET {A20} :
          controller = [input |-> Empty, output |-> Empty, port |-> {RESET} \union a20,
                        writing |-> FALSE, keyboard |-> TRUE]
  BY DEF SwitchInit
<1>2. {RESET} \union a20 \in Byte
  BY DEF Byte
<1>3. TypesInv
  BY <1>1, <1>2 DEF SwitchInit, TypesInv, SwitchTypeOK, Steps, Byte, Descriptors, Descriptor
<1>4. HandshakeInv
  BY <1>1 DEF SwitchInit, HandshakeInv, Idle, AfterGate, Protected, From32, InLongMode
<1>5. ControlInv /\ InterruptsInv /\ SegmentsInv /\ MemoryInv
  BY DEF SwitchInit, Code16, ControlInv, InterruptsInv, SegmentsInv, MemoryInv, Protected, From32,
         InLongMode, Paged, Steps
<1> QED BY <1>3, <1>4, <1>5 DEF SwitchInv

-----------------------------------------------------------------------------
(* The steps up to the gate: the processor's half of the handshake. *)

\* The steps of the processor check and of the A20 gate.
GateStep ==
    \/ DetectCPU
    \/ CallA20 \/ DisableKeyboard \/ AskForPort \/ ReadAnswer
    \/ AnnouncePort \/ SendPort \/ EnableKeyboard \/ ReturnFromA20

\* Under them the variables keep their types.
LEMMA GateTypes == SwitchInv /\ GateStep => TypesInv'
<1> SUFFICES ASSUME SwitchInv, GateStep PROVE TypesInv'
  OBVIOUS
<1> USE DEF SwitchInv, TypesInv, SwitchTypeOK, Steps
<1>1. CASE DetectCPU BY <1>1 DEF DetectCPU, modeVars, memoryVars
<1>2. CASE CallA20 BY <1>2 DEF CallA20, modeVars, memoryVars
<1>3. CASE DisableKeyboard
  BY <1>3 DEF DisableKeyboard, Out, Commands, modeVars, memoryVars, HandshakeInv, Idle, BeforeGate
<1>4. CASE AskForPort
  BY <1>4 DEF AskForPort, Out, Commands, modeVars, memoryVars, HandshakeInv
<1>5. CASE ReadAnswer
  BY <1>5 DEF ReadAnswer, modeVars, memoryVars, HandshakeInv
<1>6. CASE AnnouncePort
  BY <1>6 DEF AnnouncePort, Out, Commands, modeVars, memoryVars
<1>7. CASE SendPort
  <2>1. al \union {A20} \in Byte BY DEF Byte
  <2> QED BY <1>7, <2>1 DEF SendPort, Out, modeVars, memoryVars
<1>8. CASE EnableKeyboard
  BY <1>8, MarksDistinct DEF EnableKeyboard, Out, Commands, modeVars, memoryVars, HandshakeInv, Idle
<1>9. CASE ReturnFromA20
  BY <1>9, MarksDistinct DEF ReturnFromA20, modeVars, memoryVars, HandshakeInv
<1> QED BY <1>1, <1>2, <1>3, <1>4, <1>5, <1>6, <1>7, <1>8, <1>9 DEF GateStep

\* Each of them leaves the controller as the next one expects it.
LEMMA GateHandshake == SwitchInv /\ GateStep => HandshakeInv'
<1> SUFFICES ASSUME SwitchInv, GateStep PROVE HandshakeInv'
  OBVIOUS
<1> USE DEF SwitchInv, TypesInv, SwitchTypeOK, Steps, HandshakeInv, Idle, BeforeGate, AfterGate,
            Protected, From32, InLongMode
<1>1. CASE DetectCPU BY <1>1 DEF DetectCPU
<1>2. CASE CallA20 BY <1>2 DEF CallA20
<1>3. CASE DisableKeyboard BY <1>3 DEF DisableKeyboard, Out
<1>4. CASE AskForPort BY <1>4 DEF AskForPort, Out
<1>5. CASE ReadAnswer BY <1>5 DEF ReadAnswer
<1>6. CASE AnnouncePort BY <1>6, MarksDistinct DEF AnnouncePort, Out
<1>7. CASE SendPort
  <2> DEFINE byte == al \union {A20}
  <2>1. byte \in Byte /\ A20 \in byte BY DEF Byte
  <2>2. pc = "send" /\ controller.input = Empty /\ pc' = "enable keyboard"
        /\ controller' = [controller EXCEPT !.input = byte]
    BY <1>7 DEF SendPort, Out
  <2> HIDE DEF byte
  <2>3. controller.writing BY <2>2, MarksDistinct DEF Commands
  <2> QED BY <2>1, <2>2, <2>3
<1>8. CASE EnableKeyboard BY <1>8, MarksDistinct DEF EnableKeyboard, Out, A20Open
<1>9. CASE ReturnFromA20 BY <1>9, MarksDistinct DEF ReturnFromA20, A20Open
<1> QED BY <1>1, <1>2, <1>3, <1>4, <1>5, <1>6, <1>7, <1>8, <1>9 DEF GateStep

\* These steps change no mode and no memory.
LEMMA GateFrame ==
    SwitchInv /\ GateStep => ControlInv' /\ InterruptsInv' /\ SegmentsInv' /\ MemoryInv'
<1> SUFFICES ASSUME SwitchInv, GateStep
             PROVE  ControlInv' /\ InterruptsInv' /\ SegmentsInv' /\ MemoryInv'
  OBVIOUS
<1> DEFINE Before == BeforeGate \union Handshake
<1>1. pc \in Before /\ pc' \in Before \union {"video"} /\ UNCHANGED <<modeVars, memoryVars>>
  BY DEF GateStep, DetectCPU, CallA20, DisableKeyboard, AskForPort, ReadAnswer, AnnouncePort,
         SendPort, EnableKeyboard, ReturnFromA20, Out, BeforeGate, Handshake
<1>2. ControlInv' BY <1>1 DEF SwitchInv, ControlInv, modeVars, BeforeGate, Handshake, Paged
<1>3. InterruptsInv' BY <1>1 DEF InterruptsInv, Protected, From32, InLongMode, BeforeGate, Handshake
<1>4. SegmentsInv'
  BY <1>1 DEF SwitchInv, SegmentsInv, modeVars, BeforeGate, Handshake, Protected, From32, InLongMode
<1>5. MemoryInv'
  BY <1>1 DEF SwitchInv, MemoryInv, memoryVars, BeforeGate, Handshake, Paged, Steps
<1> QED BY <1>2, <1>3, <1>4, <1>5

-----------------------------------------------------------------------------
(* The steps from the gate to the kernel. *)

\* The steps of the switch itself.
ModeStep ==
    \/ SetVideoMode \/ GdtInstall \/ EnterProtectedMode \/ FarJump \/ LoadSegments
    \/ CopyKernel \/ BuildTables
    \/ SetPae \/ LoadCr3 \/ SetLme \/ SetLmeFaults \/ EnablePaging
    \/ FarReturn \/ StartKernel

\* These steps do not talk to the controller.
LEMMA ModeHandshake == SwitchInv /\ ModeStep => HandshakeInv'
<1> SUFFICES ASSUME SwitchInv, ModeStep PROVE HandshakeInv'
  OBVIOUS
<1>1. pc \in AfterGate /\ pc' \in AfterGate \union {"reset"} /\ UNCHANGED controller
  BY DEF ModeStep, SetVideoMode, GdtInstall, EnterProtectedMode, FarJump, LoadSegments, CopyKernel,
         BuildTables, SetPae, LoadCr3, SetLme, SetLmeFaults, EnablePaging, FarReturn, StartKernel,
         At, AfterGate, Protected, From32, InLongMode
<1> QED BY <1>1 DEF SwitchInv, HandshakeInv, Idle, A20Open, AfterGate, Protected, From32,
                    InLongMode, BeforeGate

\* Under them the variables keep their types.
LEMMA ModeTypes == SwitchInv /\ ModeStep => TypesInv'
<1> SUFFICES ASSUME SwitchInv, ModeStep PROVE TypesInv'
  OBVIOUS
<1>1. pc' \in Steps /\ UNCHANGED <<processor, al, controller>>
  BY DEF ModeStep, SetVideoMode, GdtInstall, EnterProtectedMode, FarJump, LoadSegments, CopyKernel,
         BuildTables, SetPae, LoadCr3, SetLme, SetLmeFaults, EnablePaging, FarReturn, StartKernel,
         At, Steps
<1>2. control' \subseteq {"PE", "PAE", "CR3", "LME", "PG"} /\ interrupts' \in BOOLEAN
  BY DEF SwitchInv, TypesInv, SwitchTypeOK, ModeStep, SetVideoMode, GdtInstall, EnterProtectedMode,
         FarJump, LoadSegments, CopyKernel, BuildTables, SetPae, LoadCr3, SetLme, SetLmeFaults,
         EnablePaging, FarReturn, StartKernel, modeVars, memoryVars
<1>3. gdt' \in [Selectors -> Descriptors] /\ cs' \in Descriptors /\ ds' \in Descriptors
  <2>1. \A selector \in Selectors : gdt[selector] \in Descriptors
    BY DEF SwitchInv, TypesInv, SwitchTypeOK
  <2>2. {CODE_DESC, DATA_SEGMENT, CODE64_DESC, DATA_SEGMENT64} \subseteq Selectors
    BY DEF Selectors
  <2> QED
    BY <2>1, <2>2, TableOfGdt
       DEF SwitchInv, TypesInv, SwitchTypeOK, ModeStep, SetVideoMode, GdtInstall,
           EnterProtectedMode, FarJump, LoadSegments, CopyKernel, BuildTables, SetPae, LoadCr3,
           SetLme, SetLmeFaults, EnablePaging, FarReturn, StartKernel, modeVars
<1>4. ~ controller.writing
  BY DEF SwitchInv, HandshakeInv, Idle, ModeStep, SetVideoMode, GdtInstall, EnterProtectedMode,
         FarJump, LoadSegments, CopyKernel, BuildTables, SetPae, LoadCr3, SetLme, SetLmeFaults,
         EnablePaging, FarReturn, StartKernel, At, AfterGate, Protected, From32, InLongMode
<1> QED BY <1>1, <1>2, <1>3, <1>4 DEF SwitchInv, TypesInv, SwitchTypeOK

\* Each of them sets the control bits its place in the order calls for.
LEMMA ModeControl == SwitchInv /\ ModeStep => ControlInv' /\ InterruptsInv'
<1> SUFFICES ASSUME SwitchInv, ModeStep PROVE ControlInv' /\ InterruptsInv'
  OBVIOUS
<1> USE DEF SwitchInv, ControlInv, InterruptsInv, Paged, Protected, From32, InLongMode, BeforeGate,
            Handshake, At, modeVars
<1>1. CASE SetVideoMode BY <1>1 DEF SetVideoMode
<1>2. CASE GdtInstall BY <1>2 DEF GdtInstall
<1>3. CASE EnterProtectedMode BY <1>3 DEF EnterProtectedMode
<1>4. CASE FarJump BY <1>4 DEF FarJump
<1>5. CASE LoadSegments BY <1>5 DEF LoadSegments
<1>6. CASE CopyKernel BY <1>6 DEF CopyKernel
<1>7. CASE BuildTables BY <1>7 DEF BuildTables
<1>8. CASE SetPae BY <1>8 DEF SetPae
<1>9. CASE LoadCr3 BY <1>9 DEF LoadCr3
<1>10. CASE SetLme BY <1>10 DEF SetLme
<1>11. CASE SetLmeFaults BY <1>11 DEF SetLmeFaults
<1>12. CASE EnablePaging BY <1>12 DEF EnablePaging
<1>13. CASE FarReturn BY <1>13 DEF FarReturn
<1>14. CASE StartKernel BY <1>14 DEF StartKernel
<1> QED BY <1>1, <1>2, <1>3, <1>4, <1>5, <1>6, <1>7, <1>8, <1>9, <1>10, <1>11, <1>12, <1>13, <1>14
        DEF ModeStep

\* Each of them leaves descriptors that fit the mode the processor is in.
LEMMA ModeSegments == SwitchInv /\ ModeStep => SegmentsInv'
<1> SUFFICES ASSUME SwitchInv, ModeStep PROVE SegmentsInv'
  OBVIOUS
<1> USE DEF SwitchInv, SegmentsInv, Protected, From32, InLongMode, BeforeGate, Handshake, At,
            modeVars
<1>1. CASE SetVideoMode BY <1>1 DEF SetVideoMode
<1>2. CASE GdtInstall BY <1>2 DEF GdtInstall
<1>3. CASE EnterProtectedMode BY <1>3 DEF EnterProtectedMode
<1>4. CASE FarJump BY <1>4, TableOfGdt DEF FarJump
<1>5. CASE LoadSegments BY <1>5, TableOfGdt DEF LoadSegments
<1>6. CASE CopyKernel \/ BuildTables BY <1>6 DEF CopyKernel, BuildTables
<1>7. CASE SetPae \/ LoadCr3 \/ SetLme \/ SetLmeFaults \/ EnablePaging
  BY <1>7 DEF SetPae, LoadCr3, SetLme, SetLmeFaults, EnablePaging
<1>8. CASE FarReturn BY <1>8, TableOfGdt DEF FarReturn
<1>9. CASE StartKernel BY <1>9 DEF StartKernel
<1> QED BY <1>1, <1>2, <1>3, <1>4, <1>5, <1>6, <1>7, <1>8, <1>9 DEF ModeStep

\* The copy finds the kernel and the open gate; the tables come after it.
LEMMA ModeMemory == SwitchInv /\ ModeStep => MemoryInv'
<1> SUFFICES ASSUME SwitchInv, ModeStep PROVE MemoryInv'
  OBVIOUS
<1> USE DEF SwitchInv, MemoryInv, Paged, Steps, At, memoryVars
<1>1. CASE SetVideoMode \/ GdtInstall \/ EnterProtectedMode \/ FarJump \/ LoadSegments
  BY <1>1 DEF SetVideoMode, GdtInstall, EnterProtectedMode, FarJump, LoadSegments
<1>2. CASE CopyKernel
  BY <1>2 DEF CopyKernel, HandshakeInv, AfterGate, Protected, From32
<1>3. CASE BuildTables BY <1>3 DEF BuildTables
<1>4. CASE SetPae \/ LoadCr3 \/ SetLme \/ SetLmeFaults \/ EnablePaging
  BY <1>4 DEF SetPae, LoadCr3, SetLme, SetLmeFaults, EnablePaging
<1>5. CASE FarReturn \/ StartKernel BY <1>5 DEF FarReturn, StartKernel
<1> QED BY <1>1, <1>2, <1>3, <1>4, <1>5 DEF ModeStep

-----------------------------------------------------------------------------
(* The controller, the keyboard and the BIOS. *)

\* What the controller does with what it is sent: only the byte for its output
\* port changes that, and it is awaited then.
LEMMA ControllerHandshake == SwitchInv /\ ControllerStep => TypesInv' /\ HandshakeInv'
<1> SUFFICES ASSUME SwitchInv, ControllerStep PROVE TypesInv' /\ HandshakeInv'
  OBVIOUS
<1>1. UNCHANGED <<processor, al, interrupts, modeVars, memoryVars>>
  BY DEF ControllerStep
<1>2. pc \in Handshake
  BY DEF SwitchInv, TypesInv, HandshakeInv, Idle, ControllerStep, Steps, BeforeGate, AfterGate,
         Protected, From32, InLongMode, Handshake
<1> USE DEF SwitchInv, TypesInv, SwitchTypeOK, HandshakeInv, Idle, A20Open, Steps, BeforeGate,
            Handshake, AfterGate, Protected, From32, InLongMode, modeVars, memoryVars
<1>3. CASE controller.input = Disable
  <2>1. pc = "ask" BY <1>2, <1>3, MarksDistinct DEF ControllerStep, Commands
  <2>2. UNCHANGED pc /\ controller' = [controller EXCEPT !.input = Empty, !.keyboard = FALSE]
    BY <1>3, MarksDistinct DEF ControllerStep, Commands
  <2> QED BY <1>1, <2>1, <2>2
<1>4. CASE controller.input = ReadPort
  <2>1. pc \in {"answer", "announce"} BY <1>2, <1>4, MarksDistinct DEF ControllerStep, Commands
  <2>2. UNCHANGED pc
        /\ controller' = [controller EXCEPT !.input = Empty, !.output = controller.port]
    BY <1>4, MarksDistinct DEF ControllerStep, Commands
  <2> QED BY <1>1, <2>1, <2>2
<1>5. CASE controller.input = WritePort
  <2>1. pc = "send" BY <1>2, <1>5, MarksDistinct DEF ControllerStep, Commands
  <2>2. UNCHANGED pc /\ controller' = [controller EXCEPT !.input = Empty, !.writing = TRUE]
    BY <1>5, MarksDistinct DEF ControllerStep, Commands
  <2> QED BY <1>1, <2>1, <2>2
<1>6. CASE controller.input = Enable
  <2>1. pc = "a20 done" BY <1>2, <1>6, MarksDistinct DEF ControllerStep, Commands
  <2>2. UNCHANGED pc /\ controller' = [controller EXCEPT !.input = Empty, !.keyboard = TRUE]
    BY <1>6, MarksDistinct DEF ControllerStep, Commands
  <2> QED BY <1>1, <2>1, <2>2
<1>7. CASE controller.input \in Byte /\ controller.writing
  <2>1. pc = "enable keyboard" /\ A20 \in controller.input
    BY <1>2, <1>7, MarksDistinct DEF ControllerStep, Commands
  <2>2. /\ controller' = [controller EXCEPT !.input = Empty, !.writing = FALSE,
                                            !.port = controller.input]
        /\ pc' \in {pc, "reset"}
    BY <1>7, MarksDistinct DEF ControllerStep, Commands
  <2> QED BY <1>1, <1>7, <2>1, <2>2
<1> QED BY <1>3, <1>4, <1>5, <1>6, <1>7 DEF ControllerStep

\* A key, and the BIOS that takes it, change the controller's output only.
LEMMA KeysHandshake == SwitchInv /\ (KeyPress \/ BiosTakesKey) => TypesInv' /\ HandshakeInv'
<1> SUFFICES ASSUME SwitchInv, KeyPress \/ BiosTakesKey PROVE TypesInv' /\ HandshakeInv'
  OBVIOUS
<1>1. UNCHANGED <<processor, pc, al, interrupts, modeVars, memoryVars>>
  BY DEF KeyPress, BiosTakesKey
<1>2. PICK byte \in {Empty} \union Byte : controller' = [controller EXCEPT !.output = byte]
  BY DEF KeyPress, BiosTakesKey
<1>3. TypesInv'
  BY <1>1, <1>2 DEF SwitchInv, TypesInv, SwitchTypeOK, modeVars
<1>4. HandshakeInv'
  BY <1>1, <1>2 DEF SwitchInv, TypesInv, SwitchTypeOK, HandshakeInv, Idle, A20Open
<1> QED BY <1>3, <1>4

\* Beside the handshake they change nothing, but for a reset out of it.
LEMMA DevicesFrame ==
    SwitchInv /\ (ControllerStep \/ KeyPress \/ BiosTakesKey) =>
        ControlInv' /\ InterruptsInv' /\ SegmentsInv' /\ MemoryInv'
<1> SUFFICES ASSUME SwitchInv, ControllerStep \/ KeyPress \/ BiosTakesKey
             PROVE  ControlInv' /\ InterruptsInv' /\ SegmentsInv' /\ MemoryInv'
  OBVIOUS
<1>1. UNCHANGED <<interrupts, control, gdt, cs, ds, staging, high>>
  BY DEF ControllerStep, KeyPress, BiosTakesKey, modeVars, memoryVars
<1>2. CASE UNCHANGED pc
  <2>1. ControlInv' BY <1>1, <1>2 DEF SwitchInv, ControlInv
  <2>2. InterruptsInv' BY <1>1, <1>2 DEF SwitchInv, InterruptsInv
  <2>3. SegmentsInv' BY <1>1, <1>2 DEF SwitchInv, SegmentsInv
  <2>4. MemoryInv' BY <1>1, <1>2 DEF SwitchInv, MemoryInv
  <2> QED BY <2>1, <2>2, <2>3, <2>4
<1>3. CASE pc' = "reset" /\ pc \in Handshake
  <2>1. control = {} BY <1>3 DEF SwitchInv, ControlInv
  <2> QED BY <1>1, <1>3, <2>1
             DEF ControlInv, InterruptsInv, SegmentsInv, MemoryInv, BeforeGate, Handshake,
                 Protected, From32, InLongMode, Paged
<1>4. UNCHANGED pc \/ (pc' = "reset" /\ pc \in Handshake)
  <2>1. ControllerStep => pc \in Handshake
    BY DEF SwitchInv, TypesInv, HandshakeInv, Idle, ControllerStep, Steps, BeforeGate, AfterGate,
           Protected, From32, InLongMode, Handshake
  <2> QED BY <2>1 DEF ControllerStep, KeyPress, BiosTakesKey
<1> QED BY <1>2, <1>3, <1>4

-----------------------------------------------------------------------------
(* The theorems. *)

\* The invariant holds in every reachable state.
LEMMA SwitchInvariant == SwitchSpec => []SwitchInv
<1>1. SwitchInv /\ [SwitchNext]_switchVars => SwitchInv'
  <2> SUFFICES ASSUME SwitchInv, [SwitchNext]_switchVars PROVE SwitchInv'
    OBVIOUS
  <2>1. CASE GateStep
    BY <2>1, GateTypes, GateHandshake, GateFrame DEF SwitchInv
  <2>2. CASE ModeStep
    BY <2>2, ModeTypes, ModeHandshake, ModeControl, ModeSegments, ModeMemory DEF SwitchInv
  <2>3. CASE ControllerStep
    BY <2>3, ControllerHandshake, DevicesFrame DEF SwitchInv
  <2>4. CASE KeyPress \/ BiosTakesKey
    BY <2>4, KeysHandshake, DevicesFrame DEF SwitchInv
  <2>5. CASE UNCHANGED switchVars
    <3>1. TypesInv' BY <2>5 DEF switchVars, modeVars, SwitchInv, TypesInv, SwitchTypeOK
    <3>2. HandshakeInv' BY <2>5 DEF switchVars, SwitchInv, HandshakeInv, Idle, A20Open
    <3>3. ControlInv' BY <2>5 DEF switchVars, modeVars, SwitchInv, ControlInv
    <3>4. InterruptsInv' BY <2>5 DEF switchVars, modeVars, SwitchInv, InterruptsInv
    <3>5. SegmentsInv' BY <2>5 DEF switchVars, modeVars, SwitchInv, SegmentsInv
    <3>6. MemoryInv' BY <2>5 DEF switchVars, memoryVars, SwitchInv, MemoryInv
    <3> QED BY <3>1, <3>2, <3>3, <3>4, <3>5, <3>6 DEF SwitchInv
  <2> QED BY <2>1, <2>2, <2>3, <2>4, <2>5 DEF SwitchNext, StageTwo, GateStep, ModeStep
<1> QED BY InitialSwitch, <1>1, PTL DEF SwitchSpec

\* Whatever processors there are, every variable of stage 2 has its type, and
\* the controller awaits a byte for its output port only while one is on its
\* way.
THEOREM SwitchTypes == SwitchSpec => []SwitchTypeOK
<1>1. SwitchInv => SwitchTypeOK BY DEF SwitchInv, TypesInv
<1> QED BY SwitchInvariant, <1>1, PTL

\* Whatever is typed while the gate is being opened, a kernel that starts is
\* the one that was loaded, in long mode and behind an open gate.
THEOREM SwitchKernelInPlace == SwitchSpec => []KernelInPlace
<1>1. SwitchInv => KernelInPlace
  BY DEF SwitchInv, HandshakeInv, ControlInv, SegmentsInv, MemoryInv, KernelInPlace, AfterGate,
         Protected, From32, InLongMode, Paged, Width, LongModeActive, Descriptor, Code16, Code32, Data32, Code64
<1> QED BY SwitchInvariant, <1>1, PTL

\* Each part of stage 2 runs in the width it was assembled for (Stage2_X86.asm,
\* BITS 16, 32 and 64).
THEOREM SwitchExecutesAsAssembled == SwitchSpec => []ExecutesAsAssembled
<1>1. ASSUME SwitchInv PROVE ExecutesAsAssembled
  <2>1. pc \in InLongMode => Width = 64
    <3> SUFFICES ASSUME pc \in InLongMode PROVE Width = 64
      OBVIOUS
    <3>1. LongModeActive
      BY <1>1 DEF SwitchInv, ControlInv, LongModeActive, InLongMode, Paged
    <3>2. cs = Code64
      BY <1>1 DEF SwitchInv, SegmentsInv, InLongMode
    <3> QED BY <3>1, <3>2 DEF Width, Code64, Descriptor
  <2>2. pc \in From32 \union {"segments"} => Width = 32
    <3>1. pc \in From32 \union {"segments"} => cs = Code32
      BY <1>1 DEF SwitchInv, SegmentsInv
    <3> QED BY <3>1 DEF Width, Code32, Descriptor
  <2>3. pc \in {"gdt", "protect", "far jump"} => Width = 16
    <3>1. pc \in {"gdt", "protect", "far jump"} => cs = Code16
      BY <1>1 DEF SwitchInv, SegmentsInv
    <3>2. Code16.bits = 16 BY DEF Code16, Descriptor
    <3> QED BY <3>1, <3>2 DEF Width
  <2>4. pc \in From32 => ds.kind = "data" /\ ds.flat
    <3>1. pc \in From32 => ds = Data32
      BY <1>1 DEF SwitchInv, SegmentsInv
    <3> QED BY <3>1 DEF Data32, Descriptor
  <2> QED BY <2>1, <2>2, <2>3, <2>4 DEF ExecutesAsAssembled, InLongMode, From32
<1> QED BY SwitchInvariant, <1>1, PTL

\* Paging is on only with the tables, CR3 and both bits of long mode in place.
THEOREM SwitchPagingPrepared == SwitchSpec => []PagingPrepared
<1>1. ASSUME SwitchInv PROVE PagingPrepared
  <2>1. "PG" \in control => pc \in Paged
    <3>1. CASE pc \in BeforeGate \union Handshake \union {"video", "gdt", "protect"}
      BY <1>1, <3>1 DEF SwitchInv, ControlInv
    <3>2. CASE pc \in {"far jump", "segments", "copy", "tables", "pae"}
      <4>1. control = {"PE"} BY <1>1, <3>2 DEF SwitchInv, ControlInv
      <4> QED BY <4>1
    <3>3. CASE pc \in {"cr3", "lme", "paging", "reset"}
      <4>1. \/ control = {"PE", "PAE"}
            \/ control = {"PE", "PAE", "CR3"}
            \/ control = {"PE", "PAE", "CR3", "LME"}
            \/ "PG" \notin control
        BY <1>1, <3>3 DEF SwitchInv, ControlInv
      <4> QED BY <4>1
    <3> QED BY <1>1, <3>1, <3>2, <3>3 DEF SwitchInv, TypesInv, Steps, BeforeGate, Handshake, Paged
  <2>2. pc \in Paged => control = {"PE", "PAE", "CR3", "LME", "PG"}
    BY <1>1 DEF SwitchInv, ControlInv
  <2>3. pc \in Paged => staging = "tables"
    BY <1>1 DEF SwitchInv, MemoryInv
  <2> QED BY <2>1, <2>2, <2>3 DEF PagingPrepared
<1> QED BY SwitchInvariant, <1>1, PTL

\* No interrupt can come once protected mode is entered.
THEOREM SwitchNoInterrupt == SwitchSpec => []NoInterruptOutsideRealMode
<1>1. SwitchInv => NoInterruptOutsideRealMode
  BY DEF SwitchInv, TypesInv, ControlInv, InterruptsInv, NoInterruptOutsideRealMode, Steps,
         BeforeGate, Handshake, Protected, From32, InLongMode
<1> QED BY SwitchInvariant, <1>1, PTL
=============================================================================
