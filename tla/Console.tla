------------------------------ MODULE Console ------------------------------
(***************************************************************************)
(* The kernel's two outputs: the text screen of terminal.c and the serial  *)
(* port of serial.c and serial.asm.  terminal_writestring writes a string  *)
(* to the screen and then to the port, serial_writestring to the port      *)
(* alone.  The UART shifts its characters out at its own pace while the    *)
(* kernel polls it.                                                        *)
(***************************************************************************)
EXTENDS Integers, Sequences, SequencesExt

CONSTANTS
    VGA_WIDTH, VGA_HEIGHT,
    Alphabet,       \* the characters of its strings
    Strings,        \* the strings the kernel writes
    Numbers,        \* the numbers it writes
    Colors,         \* the <<foreground, background>> it may set
    MaxPrinted      \* how many characters it writes altogether

LF == "\n"
CR == "\r"
NUL == "nul"
BUFFER_SIZE == 32
vga_color == 0 .. 15
VGA_COLOR_BLACK == 0
VGA_COLOR_LIGHT_GREY == 7

ASSUME ConsoleAssumption ==
    /\ VGA_WIDTH \in Nat \ {0} /\ VGA_HEIGHT \in Nat \ {0}
    /\ Strings \subseteq Seq(Alphabet)
    /\ Numbers \subseteq Nat    \* of 64 bits
    /\ \A n \in Numbers : ((n \div 65536) \div 65536) \div 65536 < 65536
    /\ Colors \subseteq vga_color \X vga_color
    /\ MaxPrinted \in Nat

VARIABLES
    terminal_row, terminal_column, terminal_color,
    terminal_buffer,    \* the cells' characters and colours, row by row
    toScreen, toSerial, \* what the string being written has left for each
    uart,               \* its registers
    fifo,               \* characters it has not sent
    line,               \* characters it has sent
    pc,                 \* where kMain is: in serial_init, or past it
    shown, printed,     \* all that was written to the screen, and to the port
    buffer, number      \* kMain's buffer for numbers and the last one put there

screenVars == <<terminal_row, terminal_column, terminal_color, terminal_buffer, shown>>
portVars == <<uart, fifo, line>>
numberVars == <<buffer, number>>
consoleVars == <<screenVars, portVars, numberVars, toScreen, toSerial, pc, printed>>

Cells == 0 .. VGA_WIDTH * VGA_HEIGHT - 1
NoNumber == -1

\* A colour's byte and a cell's two: fg | bg << 4, and uc | color << 8.
vga_entry_color(fg, bg) == fg + 16 * bg
vga_entry(uc, color) == [char |-> uc, color |-> color]

-----------------------------------------------------------------------------
(* The UART.  While DLAB is set, the data and interrupt registers are the  *)
(* two halves of the divisor.                                              *)

\* The registers before anybody has set them up, with any divisor.
UartAtReset == [dlab : {FALSE}, low : {1, 12}, high : {0, 1}, format : {0}, fifo : {FALSE}]

WriteControl(dlab, format) ==
    uart' = [uart EXCEPT !.dlab = dlab, !.format = format] /\ UNCHANGED fifo

WriteInterrupts(byte) ==
    uart' = [uart EXCEPT !.high = IF uart.dlab THEN byte ELSE @] /\ UNCHANGED fifo

WriteData(byte) ==
    IF uart.dlab THEN uart' = [uart EXCEPT !.low = byte] /\ UNCHANGED fifo
                 ELSE fifo' = Append(fifo, byte) /\ UNCHANGED uart

\* Bit 5 of the line status: nothing waits to be sent.
TransmitterEmpty == fifo = <<>>

Transmit ==
    /\ fifo # <<>>
    /\ line' = Append(line, Head(fifo))
    /\ fifo' = Tail(fifo)
    /\ UNCHANGED <<screenVars, numberVars, uart, toScreen, toSerial, pc, printed>>

-----------------------------------------------------------------------------
(* serial_init, the first thing kMain does. *)

ConsoleInit ==
    /\ uart \in UartAtReset
    /\ fifo = <<>> /\ line = <<>>
    /\ \E contents \in {" ", "?"} :
          terminal_buffer = [cell \in Cells |-> vga_entry(contents, 0)]
    /\ terminal_row = 0 /\ terminal_column = 0 /\ terminal_color = 0
    /\ toScreen = <<>> /\ toSerial = <<>>
    /\ pc = "interrupts off"
    /\ shown = <<>> /\ printed = <<>>
    /\ buffer = [i \in 0 .. BUFFER_SIZE - 1 |-> "?"]
    /\ number = NoNumber

Step(from, to) ==
    /\ pc = from /\ pc' = to
    /\ UNCHANGED <<screenVars, numberVars, line, toScreen, toSerial, printed>>

InterruptsOff == Step("interrupts off", "dlab") /\ WriteInterrupts(0)
SetDlab == Step("dlab", "divisor low") /\ WriteControl(TRUE, 0)
DivisorLow == Step("divisor low", "divisor high") /\ WriteData(1)
\* Faulty variant: the write that must come before DLAB is cleared is left out.
DivisorHighForgotten == Step("divisor high", "format") /\ UNCHANGED <<uart, fifo>>
DivisorHigh == Step("divisor high", "format") /\ WriteInterrupts(0)
SetFormat == Step("format", "fifo") /\ WriteControl(FALSE, 3)
\* FIFO and modem control.
EnableFifo ==
    /\ Step("fifo", "greet")
    /\ uart' = [uart EXCEPT !.fifo = TRUE]
    /\ fifo' = <<>>
Greet == Step("greet", "terminal") /\ TransmitterEmpty /\ WriteData("S")

serial_init ==
    \/ InterruptsOff \/ SetDlab \/ DivisorLow \/ DivisorHigh
    \/ SetFormat \/ EnableFifo \/ Greet

-----------------------------------------------------------------------------
(* The screen. *)

terminal_initialize ==
    /\ pc = "terminal" /\ toSerial = <<>>
    /\ terminal_row' = 0 /\ terminal_column' = 0
    /\ terminal_color' = vga_entry_color(VGA_COLOR_LIGHT_GREY, VGA_COLOR_BLACK)
    /\ terminal_buffer' = [cell \in Cells |-> vga_entry(" ", terminal_color')]
    /\ pc' = "running"
    /\ UNCHANGED <<portVars, numberVars, toScreen, toSerial, shown, printed>>

terminal_setcolor ==
    /\ pc = "running" /\ toScreen = <<>> /\ toSerial = <<>>
    /\ \E color \in Colors : terminal_color' = vga_entry_color(color[1], color[2])
    /\ UNCHANGED <<portVars, numberVars, terminal_row, terminal_column, terminal_buffer,
                   shown, toScreen, toSerial, pc, printed>>

terminal_putentryat(c, color, x, y) ==
    terminal_buffer' = [terminal_buffer EXCEPT ![y * VGA_WIDTH + x] = vga_entry(c, color)]

\* Faulty variant: the last row is not followed by the first.
NextRowBelow == terminal_row' = terminal_row + 1
NextRow == terminal_row' = IF terminal_row + 1 = VGA_HEIGHT THEN 0 ELSE terminal_row + 1

terminal_putchar ==
    /\ toScreen # <<>>
    /\ terminal_putentryat(Head(toScreen), terminal_color, terminal_column, terminal_row)
    /\ IF terminal_column + 1 = VGA_WIDTH
       THEN terminal_column' = 0 /\ NextRow
       ELSE terminal_column' = terminal_column + 1 /\ UNCHANGED terminal_row
    /\ shown' = Append(shown, [char |-> Head(toScreen), color |-> terminal_color])
    /\ toScreen' = Tail(toScreen)
    /\ UNCHANGED <<portVars, numberVars, terminal_color, toSerial, pc, printed>>

-----------------------------------------------------------------------------
(* The port. *)

\* Faulty variant: a line feed goes out as it is.
CharactersAsTheyAre(char) == <<char>>
\* serial_write puts a carriage return before each line feed.
Characters(char) == IF char = LF THEN <<CR, LF>> ELSE <<char>>

\* Faulty variants: no wait for the transmitter; a wait for the wrong value of
\* its bit.
PutcharWithoutWait ==
    /\ toScreen = <<>> /\ toSerial # <<>>
    /\ WriteData(Head(toSerial))
    /\ toSerial' = Tail(toSerial)
    /\ UNCHANGED <<screenVars, numberVars, line, toScreen, pc, printed>>
PutcharWhenBusy ==
    /\ toScreen = <<>> /\ toSerial # <<>>
    /\ ~ TransmitterEmpty
    /\ WriteData(Head(toSerial))
    /\ toSerial' = Tail(toSerial)
    /\ UNCHANGED <<screenVars, numberVars, line, toScreen, pc, printed>>
\* The port's turn comes when the screen has the string.
serial_putchar ==
    /\ toScreen = <<>> /\ toSerial # <<>>
    /\ TransmitterEmpty
    /\ WriteData(Head(toSerial))
    /\ toSerial' = Tail(toSerial)
    /\ UNCHANGED <<screenVars, numberVars, line, toScreen, pc, printed>>

Write(string, screen) ==
    /\ toScreen = <<>> /\ toSerial = <<>>
    /\ Len(printed) + Len(string) <= MaxPrinted
    /\ toScreen' = screen
    /\ toSerial' = FlattenSeq([i \in 1 .. Len(string) |-> Characters(string[i])])
    /\ printed' = printed \o string
    /\ UNCHANGED <<screenVars, portVars, numberVars, pc>>

terminal_writestring == pc = "running" /\ \E string \in Strings : Write(string, string)

\* kMain uses the port before it sets up the screen.
serial_writestring ==
    pc \in {"terminal", "running"} /\ \E string \in Strings : Write(string, <<>>)

\* The length of the string in a buffer, which is too short if there is no NUL.
strlen(str) == CHOOSE n \in 0 .. BUFFER_SIZE :
    (n < BUFFER_SIZE => str[n] = NUL) /\ \A i \in 0 .. n - 1 : str[i] # NUL
WriteBuffer ==
    /\ number # NoNumber
    /\ Write([i \in 1 .. strlen(buffer) |-> buffer[i - 1]], <<>>)

-----------------------------------------------------------------------------
(* The numbers that kMain writes go through one buffer, which keeps what    *)
(* the number before has left behind the new one.                          *)

Digit == <<"0", "1", "2", "3", "4", "5", "6", "7", "8", "9">>

\* The digits, the last one first.
temp[value \in Nat] ==
    IF value = 0 THEN <<>> ELSE <<Digit[(value % 10) + 1]>> \o temp[value \div 10]

Into(string) ==
    buffer' = [i \in DOMAIN buffer |-> IF i < Len(string) THEN string[i + 1] ELSE buffer[i]]

\* Faulty variant: the end is not marked.
ToBufferUnmarked(value) == Into(IF value = 0 THEN <<"0", NUL>> ELSE Reverse(temp[value]))
ToBuffer(value) == Into(IF value = 0 THEN <<"0", NUL>> ELSE Append(Reverse(temp[value]), NUL))

uint64_to_string ==
    /\ pc = "running" /\ toScreen = <<>> /\ toSerial = <<>>
    /\ \E value \in Numbers : ToBuffer(value) /\ number' = value
    /\ UNCHANGED <<screenVars, portVars, toScreen, toSerial, pc, printed>>

Kernel ==
    \/ serial_init \/ terminal_initialize
    \/ terminal_putchar \/ serial_putchar

ConsoleNext ==
    \/ Kernel \/ Transmit
    \/ terminal_writestring \/ serial_writestring \/ terminal_setcolor
    \/ uint64_to_string \/ WriteBuffer

\* The processor and the UART each go on; what is written, and when, is the
\* kernel's choice.
ConsoleSpec ==
    /\ ConsoleInit /\ [][ConsoleNext]_consoleVars
    /\ WF_consoleVars(Kernel) /\ WF_consoleVars(Transmit)

-----------------------------------------------------------------------------
(* Properties. *)

\* Every variable has its type, and the cursor is on the screen.
ConsoleTypeOK ==
    /\ terminal_row \in 0 .. VGA_HEIGHT - 1
    /\ terminal_column \in 0 .. VGA_WIDTH - 1
    /\ terminal_color \in 0 .. 255
    /\ DOMAIN terminal_buffer = Cells
    /\ Len(fifo) <= 1
    /\ uart.dlab \in BOOLEAN

\* serial.c:9-12 and serial_putchar: what is on the line, in the UART and
\* still to be put is the greeting and then all that was printed, in order,
\* with CR before LF: no character is overwritten, doubled or overtaken.
LineInOrder ==
    LET greeting == IF pc \in {"terminal", "running"} THEN <<"S">> ELSE <<>>
    IN  line \o fifo \o toSerial = greeting \o
            FlattenSeq([i \in 1 .. Len(printed) |-> IF printed[i] = LF THEN <<CR, LF>>
                                                    ELSE <<printed[i]>>])

\* serial.asm:34: nothing is ever sent but at divisor 1 and in frames of eight
\* bits without parity.
SentAtRate ==
    [][line' # line => uart.low = 1 /\ uart.high = 0 /\ uart.format = 3 /\ ~ uart.dlab]_consoleVars

\* terminal_putchar wraps at the right and at the bottom, so that each cell
\* shows the last character that fell to it, in the colour of its time, or is
\* blank.
ScreenShowsTail ==
    pc = "running" => \A cell \in Cells :
        LET fell == {k \in 1 .. Len(shown) : (k - 1) % (VGA_WIDTH * VGA_HEIGHT) = cell}
        IN  terminal_buffer[cell] =
                IF fell = {} THEN vga_entry(" ", vga_entry_color(VGA_COLOR_LIGHT_GREY, VGA_COLOR_BLACK))
                ELSE shown[CHOOSE k \in fell : \A other \in fell : other <= k]

\* kernel.c:7-26: whatever numbers were in the buffer before, what it holds up
\* to its first NUL is the last one in decimal and no more.
NumberReadable ==
    number # NoNumber =>
        LET text == [i \in 1 .. strlen(buffer) |-> buffer[i - 1]]
            digit(c) == (CHOOSE d \in 1 .. 10 : Digit[d] = c) - 1
        IN  /\ Len(text) \in 1 .. BUFFER_SIZE - 1
            /\ (Len(text) > 1 => text[1] # "0")
            /\ number = FoldLeft(LAMBDA value, c : 10 * value + digit(c), 0, text)

\* serial_putchar polls without a bound; each character does go out, since
\* the UART needs nothing from the kernel to send the one before it.
AllIsSent ==
    [](toScreen # <<>> \/ toSerial # <<>> => <>(toScreen = <<>> /\ toSerial = <<>> /\ fifo = <<>>))
=============================================================================
