--------------------------- MODULE ConsoleProofs ---------------------------
(***************************************************************************)
(* The screen shows the last characters written, whatever its size, the    *)
(* strings and the colours; and nothing leaves the UART but at the rate    *)
(* that serial_init sets, whatever its registers held before.  The line    *)
(* has all that was printed, in order, and a number of 64 bits reads as    *)
(* itself in kMain's buffer, whatever was there before.                    *)
(***************************************************************************)
EXTENDS Console, Induction, SequenceTheorems

-----------------------------------------------------------------------------
(* The inductive invariant. *)

\* What a cell holds, and the registers of the port.
Chars == Alphabet \union {" ", "?"}
Cell == [char : Chars, color : 0 .. 255]
Uart == [dlab : BOOLEAN, low : Nat, high : Nat, format : Nat, fifo : BOOLEAN]

\* The steps of serial_initialize, and what the kernel does after them.
SetUp == {"interrupts off", "dlab", "divisor low", "divisor high", "format", "fifo", "greet"}
Ready == {"terminal", "running"}

\* The variables have their types; the buffer is left to BufferInv.
TypesInv ==
    /\ pc \in SetUp \union Ready
    /\ terminal_row \in 0 .. VGA_HEIGHT - 1 /\ terminal_column \in 0 .. VGA_WIDTH - 1
    /\ terminal_color \in 0 .. 255
    /\ terminal_buffer \in [Cells -> Cell]
    /\ shown \in Seq(Cell) /\ toScreen \in Seq(Chars)
    /\ uart \in Uart

\* What of the set-up is done at each of its steps; the port and the screen
\* are not used before.
SetUpInv ==
    /\ pc \in {"divisor low", "divisor high", "format"} => uart.dlab
    /\ pc \in {"divisor high", "format", "fifo", "greet"} \union Ready => uart.low = 1
    /\ pc \in {"format", "fifo", "greet"} \union Ready => uart.high = 0
    /\ pc \in {"fifo", "greet"} \union Ready => uart.format = 3 /\ ~ uart.dlab
    /\ pc \in SetUp => fifo = <<>> /\ toSerial = <<>>
    /\ pc # "running" => toScreen = <<>> /\ shown = <<>> /\ number = NoNumber

\* The UART is given a character only when it has none.
FifoInv == fifo = <<>> \/ \E char : fifo = <<char>>

\* The cursor is where the next character falls.
Area == VGA_WIDTH * VGA_HEIGHT
\* The cell the k-th character shown falls to: the cursor goes round the screen.
CellOf(k) == (k - 1) % Area
CursorInv == terminal_row * VGA_WIDTH + terminal_column = CellOf(Len(shown) + 1)

\* Each cell has the last character that fell to it.
Blank == vga_entry(" ", vga_entry_color(VGA_COLOR_LIGHT_GREY, VGA_COLOR_BLACK))
\* The characters that fell to a cell, by their place in what was shown.
Fell(cell) == {k \in 1 .. Len(shown) : CellOf(k) = cell}
ScreenInv ==
    pc = "running" => \A cell \in Cells :
        \/ Fell(cell) = {} /\ terminal_buffer[cell] = Blank
        \/ \E k \in Fell(cell) :
              /\ \A other \in Fell(cell) : other <= k
              /\ terminal_buffer[cell] = shown[k]

\* The inductive invariant of the terminal and the port.
ConsoleInv == TypesInv /\ SetUpInv /\ FifoInv /\ CursorInv /\ ScreenInv

-----------------------------------------------------------------------------
(* Arithmetic of the screen. *)

\* Quotient and remainder are unique.
LEMMA RemainderUnique ==
    ASSUME NEW m \in Nat, m > 0, NEW q \in Int, NEW p \in Int, NEW r \in Nat, NEW s \in Nat,
           r < m, s < m, q * m + r = p * m + s
    PROVE  r = s
<1>1. CASE q = p
  BY <1>1, SMT
<1>2. CASE q > p
  <2>1. q * m >= p * m + m
    <3>1. (q - p - 1) * m >= 0
      BY <1>2, SMT
    <3> QED BY <3>1, SMT
  <2> QED BY <2>1, SMT
<1>3. CASE q < p
  <2>1. p * m >= q * m + m
    <3>1. (p - q - 1) * m >= 0
      BY <1>3, SMT
    <3> QED BY <3>1, SMT
  <2> QED BY <2>1, SMT
<1> QED BY <1>1, <1>2, <1>3, SMT

\* Division by a positive number, as the provers know it.
LEMMA Remainder ==
    ASSUME NEW m \in Nat, m > 0, NEW n \in Nat
    PROVE  n % m \in Nat /\ n % m < m /\ n \div m \in Int /\ n = (n \div m) * m + (n % m)
OBVIOUS

\* Zero leaves no remainder.
LEMMA ZeroRemainder ==
    ASSUME NEW m \in Nat, m > 0
    PROVE  0 % m = 0
<1> DEFINE q == 0 \div m
           r == 0 % m
<1>1. r \in Nat /\ r < m /\ q \in Int /\ 0 = q * m + r
  BY Remainder
<1> HIDE DEF q, r
<1>2. q * m + r = 0 * m + 0
  BY <1>1, SMT
<1>3. r = 0
  BY <1>1, <1>2, RemainderUnique, SMT
<1> QED BY <1>3 DEF r

\* The remainder of the number that follows.
LEMMA NextRemainder ==
    ASSUME NEW m \in Nat, m > 0, NEW n \in Nat
    PROVE  (n + 1) % m = IF (n % m) + 1 = m THEN 0 ELSE (n % m) + 1
<1> DEFINE q == n \div m
           r == n % m
           p == (n + 1) \div m
           s == (n + 1) % m
<1>1. r \in Nat /\ r < m /\ q \in Int /\ n = q * m + r
  BY Remainder
<1>2. s \in Nat /\ s < m /\ p \in Int /\ n + 1 = p * m + s
  BY Remainder
<1> HIDE DEF q, r, p, s
<1>3. CASE r + 1 = m
  <2>1. (q + 1) * m + 0 = p * m + s
    BY <1>1, <1>2, <1>3, SMT
  <2>2. s = 0
    BY <1>1, <1>2, <2>1, RemainderUnique, SMT
  <2> QED BY <1>3, <2>2 DEF r, s
<1>4. CASE r + 1 # m
  <2>1. q * m + (r + 1) = p * m + s /\ r + 1 < m
    BY <1>1, <1>2, <1>4, SMT
  <2>2. s = r + 1
    BY <1>1, <1>2, <2>1, RemainderUnique, SMT
  <2> QED BY <1>4, <2>2 DEF r, s
<1> QED BY <1>3, <1>4

\* The first character falls to the first cell.
LEMMA FirstCell ==
    ASSUME NEW string, string = <<>>
    PROVE  CellOf(Len(string) + 1) = 0
<1>1. VGA_WIDTH \in Nat /\ VGA_WIDTH > 0 /\ VGA_HEIGHT \in Nat /\ VGA_HEIGHT > 0
  BY ConsoleAssumption
<1>2. VGA_WIDTH * VGA_HEIGHT \in Nat /\ VGA_WIDTH * VGA_HEIGHT > 0
  BY <1>1, SMT
<1>3. Area \in Nat /\ Area > 0
  BY <1>2 DEF Area
<1>4. (Len(string) + 1) - 1 = 0
  OBVIOUS
<1>5. 0 % Area = 0
  BY <1>3, ZeroRemainder
<1> QED BY <1>4, <1>5 DEF CellOf

\* The cursor's cell is on the screen, and terminal_putchar moves it to the
\* next one, from the last one to the first.
LEMMA CursorCell ==
    ASSUME NEW row \in 0 .. VGA_HEIGHT - 1, NEW column \in 0 .. VGA_WIDTH - 1
    PROVE  row * VGA_WIDTH + column \in Cells
<1>1. VGA_WIDTH \in Nat /\ VGA_HEIGHT \in Nat /\ row \in Nat /\ column \in Nat
      /\ row <= VGA_HEIGHT - 1 /\ column <= VGA_WIDTH - 1
  BY ConsoleAssumption
<1>2. (VGA_HEIGHT - 1 - row) * VGA_WIDTH >= 0
  BY <1>1, SMT
<1>3. row * VGA_WIDTH + column >= 0
  BY <1>1, SMT
<1>4. row * VGA_WIDTH + column <= VGA_WIDTH * VGA_HEIGHT - 1
  BY <1>1, <1>2, SMT
<1>5. row * VGA_WIDTH + column \in Int /\ VGA_WIDTH * VGA_HEIGHT - 1 \in Int
  BY <1>1, SMT
<1> QED BY <1>3, <1>4, <1>5 DEF Cells

\* terminal_putchar's two comparisons step the cursor to the next cell, and from
\* the last one to the first.
LEMMA NextCell ==
    ASSUME NEW row \in 0 .. VGA_HEIGHT - 1, NEW column \in 0 .. VGA_WIDTH - 1, NEW n \in Nat,
           row * VGA_WIDTH + column = n % Area
    PROVE  (n + 1) % Area =
              IF column + 1 # VGA_WIDTH THEN row * VGA_WIDTH + (column + 1)
              ELSE IF row + 1 = VGA_HEIGHT THEN 0 ELSE (row + 1) * VGA_WIDTH
<1>1. VGA_WIDTH \in Nat /\ VGA_HEIGHT \in Nat /\ row \in Nat /\ column \in Nat
      /\ row <= VGA_HEIGHT - 1 /\ column <= VGA_WIDTH - 1
  BY ConsoleAssumption
<1>2. Area \in Nat /\ Area > 0
  BY <1>1, SMT DEF Area
<1>3. (n + 1) % Area = IF (n % Area) + 1 = Area THEN 0 ELSE (n % Area) + 1
  BY <1>2, NextRemainder
<1>4. CASE column + 1 # VGA_WIDTH
  <2>1. (VGA_HEIGHT - 1 - row) * VGA_WIDTH >= 0
    BY <1>1, SMT
  <2>2. row * VGA_WIDTH + column + 1 < Area
    BY <1>1, <1>4, <2>1, SMT DEF Area
  <2> QED BY <1>1, <1>2, <1>3, <1>4, <2>2, SMT
<1>5. CASE column + 1 = VGA_WIDTH /\ row + 1 = VGA_HEIGHT
  <2>1. row * VGA_WIDTH + column + 1 = Area
    BY <1>1, <1>5, SMT DEF Area
  <2> QED BY <1>3, <1>5, <2>1
<1>6. CASE column + 1 = VGA_WIDTH /\ row + 1 # VGA_HEIGHT
  <2>1. (VGA_HEIGHT - 2 - row) * VGA_WIDTH >= 0
    BY <1>1, <1>6, SMT
  <2>2. row * VGA_WIDTH + column + 1 = (row + 1) * VGA_WIDTH
    BY <1>1, <1>6, SMT
  <2>3. (row + 1) * VGA_WIDTH < Area
    BY <1>1, <1>6, <2>1, SMT DEF Area
  <2> QED BY <1>3, <1>6, <2>2, <2>3
<1> QED BY <1>4, <1>5, <1>6

\* A colour is a byte.
LEMMA ColorByte ==
    ASSUME NEW fg \in vga_color, NEW bg \in vga_color
    PROVE  vga_entry_color(fg, bg) \in 0 .. 255
<1>1. fg \in Int /\ 0 <= fg /\ fg <= 15 /\ bg \in Int /\ 0 <= bg /\ bg <= 15
  BY DEF vga_color
<1> DEFINE color == fg + 16 * bg
<1>2. color \in Int /\ 0 <= color /\ color <= 255
  BY ONLY <1>1
<1>3. vga_entry_color(fg, bg) = color
  BY DEF vga_entry_color
<1> HIDE DEF color
<1> QED BY ONLY <1>2, <1>3

\* What terminal_initialize writes is a cell.
LEMMA BlankIsCell == Blank \in Cell
<1>1. VGA_COLOR_LIGHT_GREY \in vga_color /\ VGA_COLOR_BLACK \in vga_color
  BY DEF vga_color, VGA_COLOR_LIGHT_GREY, VGA_COLOR_BLACK
<1>2. vga_entry_color(VGA_COLOR_LIGHT_GREY, VGA_COLOR_BLACK) \in 0 .. 255
  BY ONLY <1>1, ColorByte, Zenon
<1>3. " " \in Chars
  BY DEF Chars
<1> QED BY ONLY <1>2, <1>3 DEF Blank, Cell, vga_entry

-----------------------------------------------------------------------------
(* Steps. *)

\* Before the first step the screen is whatever was there and nothing is shown.
LEMMA InitialConsole == ConsoleInit => ConsoleInv
<1> SUFFICES ASSUME ConsoleInit PROVE ConsoleInv
  OBVIOUS
<1>1. VGA_WIDTH \in Nat /\ VGA_WIDTH > 0 /\ VGA_HEIGHT \in Nat /\ VGA_HEIGHT > 0
  BY ConsoleAssumption
<1>2. /\ pc = "interrupts off" /\ fifo = <<>> /\ number = NoNumber
      /\ toScreen = <<>> /\ toSerial = <<>> /\ shown = <<>>
  BY DEF ConsoleInit
<1>3. shown \in Seq(Cell) /\ toScreen \in Seq(Chars)
  <2>1. shown = <<>> /\ toScreen = <<>>
    BY <1>2
  <2> QED BY ONLY <2>1
<1>4. terminal_row = 0 /\ terminal_column = 0 /\ terminal_color = 0
  BY DEF ConsoleInit
<1>5. TypesInv
  <2>1. terminal_buffer \in [Cells -> Cell]
    <3>1. ASSUME NEW char \in Chars PROVE vga_entry(char, 0) \in Cell
      BY DEF vga_entry, Cell
    <3>2. PICK contents \in {" ", "?"} :
              terminal_buffer = [cell \in Cells |-> vga_entry(contents, 0)]
      BY DEF ConsoleInit
    <3>3. contents \in Chars
      BY DEF Chars
    <3> QED BY <3>1, <3>2, <3>3
  <2>2. uart \in Uart
    <3>1. uart \in UartAtReset
      BY DEF ConsoleInit
    <3>2. ASSUME NEW registers \in UartAtReset PROVE registers \in Uart
      <4>1. registers = [dlab |-> registers.dlab, low |-> registers.low, high |-> registers.high,
                         format |-> registers.format, fifo |-> registers.fifo]
        BY DEF UartAtReset
      <4>2. registers.low \in Nat /\ registers.high \in Nat /\ registers.format \in Nat
        BY DEF UartAtReset
      <4>3. registers.dlab \in BOOLEAN /\ registers.fifo \in BOOLEAN
        BY DEF UartAtReset
      <4> QED BY <4>1, <4>2, <4>3 DEF Uart
    <3> QED BY <3>1, <3>2
  <2>3. /\ terminal_row \in 0 .. VGA_HEIGHT - 1 /\ terminal_column \in 0 .. VGA_WIDTH - 1
        /\ terminal_color \in 0 .. 255
    BY <1>1, <1>4
  <2>4. pc \in SetUp
    BY <1>2 DEF SetUp
  <2> QED BY <1>3, <2>1, <2>2, <2>3, <2>4 DEF TypesInv
<1>6. SetUpInv /\ FifoInv /\ ScreenInv
  BY <1>2 DEF SetUpInv, FifoInv, ScreenInv, SetUp, Ready
<1>7. CursorInv
  <2>1. CellOf(Len(shown) + 1) = 0
    BY <1>2, FirstCell
  <2>2. 0 * VGA_WIDTH + 0 = 0
    BY <1>1, SMT
  <2> QED BY <1>4, <2>1, <2>2 DEF CursorInv
<1> QED BY <1>5, <1>6, <1>7 DEF ConsoleInv

\* The screen and its cursor, where neither they nor pc change.
LEMMA ScreenFrame ==
    ASSUME ConsoleInv, UNCHANGED screenVars
    PROVE  CursorInv' /\ (UNCHANGED pc => ScreenInv')
<1>1. CursorInv'
  BY DEF ConsoleInv, screenVars, CursorInv, CellOf, Area
<1>2. ASSUME UNCHANGED pc PROVE ScreenInv'
  BY <1>2 DEF ConsoleInv, screenVars, ScreenInv, Fell, CellOf, Area, Cells
<1> QED BY <1>1, <1>2

\* Register by register.
LEMMA SetUpStep == ConsoleInv /\ serial_init => ConsoleInv'
<1> SUFFICES ASSUME ConsoleInv, serial_init PROVE ConsoleInv'
  OBVIOUS
<1>1. UNCHANGED <<screenVars, numberVars, line, toScreen, toSerial, printed>>
      /\ pc \in SetUp /\ pc' \in SetUp \union {"terminal"}
  BY DEF serial_init, InterruptsOff, SetDlab, DivisorLow, DivisorHigh, SetFormat, EnableFifo, Greet,
         Step, SetUp
<1>2. CursorInv'
  BY <1>1, ScreenFrame
<1>3. ScreenInv'
  BY <1>1 DEF ScreenInv, SetUp
<1> USE DEF ConsoleInv, TypesInv, SetUpInv, SetUp, Ready, Step
<1>4. uart' \in Uart /\ SetUpInv' /\ FifoInv'
  <2> USE DEF Uart, WriteControl, WriteInterrupts, WriteData, FifoInv, numberVars, screenVars
  <2> USE <1>1
  <2>1. CASE InterruptsOff BY <2>1 DEF InterruptsOff
  <2>2. CASE SetDlab BY <2>2 DEF SetDlab
  <2>3. CASE DivisorLow
    <3>1. uart.dlab /\ pc' = "divisor high"
      BY <2>3 DEF DivisorLow
    <3>2. uart' = [uart EXCEPT !.low = 1] /\ UNCHANGED fifo
      BY <2>3, <3>1 DEF DivisorLow
    <3>3. uart' \in Uart /\ uart'.dlab = uart.dlab /\ uart'.low = 1
      BY <3>2
    <3> QED BY <3>1, <3>2, <3>3
  <2>4. CASE DivisorHigh BY <2>4 DEF DivisorHigh
  <2>5. CASE SetFormat BY <2>5 DEF SetFormat
  <2>6. CASE EnableFifo BY <2>6 DEF EnableFifo
  <2>7. CASE Greet BY <2>7 DEF Greet, TransmitterEmpty
  <2> QED BY <2>1, <2>2, <2>3, <2>4, <2>5, <2>6, <2>7 DEF serial_init
<1>5. TypesInv'
  BY <1>1, <1>4 DEF screenVars, Cells
<1> QED BY <1>2, <1>3, <1>4, <1>5

\* terminal_initialize starts the count of characters with a blank screen.
LEMMA InitializeStep == ConsoleInv /\ terminal_initialize => ConsoleInv'
<1> SUFFICES ASSUME ConsoleInv, terminal_initialize PROVE ConsoleInv'
  OBVIOUS
<1>1. VGA_WIDTH \in Nat \ {0} /\ VGA_HEIGHT \in Nat \ {0}
  BY ConsoleAssumption
<1>2. pc = "terminal" /\ pc' = "running" /\ terminal_row' = 0 /\ terminal_column' = 0
      /\ UNCHANGED <<portVars, numberVars, toScreen, toSerial, shown, printed>>
  BY DEF terminal_initialize
<1>3. terminal_color' \in 0 .. 255
  <2>1. terminal_color' = vga_entry_color(VGA_COLOR_LIGHT_GREY, VGA_COLOR_BLACK)
    BY DEF terminal_initialize
  <2>2. VGA_COLOR_LIGHT_GREY \in vga_color /\ VGA_COLOR_BLACK \in vga_color
    BY ONLY DEF vga_color, VGA_COLOR_LIGHT_GREY, VGA_COLOR_BLACK
  <2>3. vga_entry_color(VGA_COLOR_LIGHT_GREY, VGA_COLOR_BLACK) \in 0 .. 255
    BY ONLY <2>2, ColorByte, Zenon
  <2> QED BY <2>1, <2>3
<1>4. terminal_buffer' = [cell \in Cells |-> Blank]
  BY DEF terminal_initialize, Blank
<1>5. TypesInv'
  BY <1>1, <1>2, <1>3, <1>4, BlankIsCell DEF ConsoleInv, TypesInv, portVars, Cells, Ready
<1>6. SetUpInv' /\ FifoInv'
  BY <1>2 DEF ConsoleInv, SetUpInv, FifoInv, portVars, numberVars, SetUp, Ready
<1>7. shown = <<>> /\ shown' = <<>>
  BY <1>2 DEF ConsoleInv, SetUpInv
<1>8. CursorInv'
  <2>1. CellOf(Len(shown) + 1)' = 0
    BY <1>7, FirstCell DEF CellOf, Area
  <2>2. 0 * VGA_WIDTH + 0 = 0
    BY <1>1, SMT
  <2> QED BY <1>2, <2>1, <2>2 DEF CursorInv
<1>9. ScreenInv'
  <2>1. Len(shown') = 0
    BY <1>7
  <2>2. \A cell : Fell(cell)' = {}
    BY <2>1 DEF Fell
  <2> QED BY <1>4, <2>2 DEF ScreenInv, Cells, Blank
<1> QED BY <1>5, <1>6, <1>8, <1>9 DEF ConsoleInv

\* terminal_setcolor changes the colour only.
LEMMA SetColorStep == ConsoleInv /\ terminal_setcolor => ConsoleInv'
<1> SUFFICES ASSUME ConsoleInv, terminal_setcolor PROVE ConsoleInv'
  OBVIOUS
<1>1. terminal_color' \in 0 .. 255
  <2>1. PICK color \in Colors : terminal_color' = vga_entry_color(color[1], color[2])
    BY DEF terminal_setcolor
  <2>2. color[1] \in vga_color /\ color[2] \in vga_color
    BY ConsoleAssumption
  <2> QED BY <2>1, <2>2, ColorByte
<1>2. UNCHANGED <<portVars, numberVars, terminal_row, terminal_column, terminal_buffer, shown,
                  toScreen, toSerial, pc, printed>>
  BY DEF terminal_setcolor
<1>3. TypesInv'
  BY <1>1, <1>2 DEF ConsoleInv, TypesInv, portVars
<1>4. SetUpInv' /\ FifoInv'
  BY <1>2 DEF ConsoleInv, SetUpInv, FifoInv, portVars, numberVars
<1>5. CursorInv'
  BY <1>2 DEF ConsoleInv, CursorInv
<1>6. ScreenInv'
  BY <1>2 DEF ConsoleInv, ScreenInv, Fell
<1> QED BY <1>3, <1>4, <1>5, <1>6 DEF ConsoleInv

\* A character goes to the cursor's cell, which no other one has fallen to
\* later, and the cursor goes on.
LEMMA PutcharStep == ConsoleInv /\ terminal_putchar => ConsoleInv'
<1> SUFFICES ASSUME ConsoleInv, terminal_putchar PROVE ConsoleInv'
  OBVIOUS
<1> DEFINE entry == [char |-> Head(toScreen), color |-> terminal_color]
           cursor == terminal_row * VGA_WIDTH + terminal_column
           last == Len(shown) + 1
<1>1. VGA_WIDTH \in Nat \ {0} /\ VGA_HEIGHT \in Nat \ {0}
  BY ConsoleAssumption
<1>2. pc = "running"
  BY DEF ConsoleInv, SetUpInv, terminal_putchar
<1>3. toScreen' \in Seq(Chars) /\ entry \in Cell
  BY DEF ConsoleInv, TypesInv, terminal_putchar, Cell
<1>4. UNCHANGED <<portVars, numberVars, terminal_color, toSerial, pc, printed>>
      /\ shown' = Append(shown, entry)
      /\ terminal_buffer' = [terminal_buffer EXCEPT ![cursor] = entry]
  BY DEF terminal_putchar, terminal_putentryat, vga_entry
<1>5. cursor \in Cells /\ cursor = CellOf(last)
  BY CursorCell DEF ConsoleInv, TypesInv, CursorInv
<1> HIDE DEF entry, cursor
<1>6. /\ shown \in Seq(Cell) /\ shown' \in Seq(Cell) /\ last \in Nat
      /\ Len(shown') = last /\ shown'[last] = entry
      /\ \A k \in 1 .. Len(shown) : shown'[k] = shown[k]
  BY <1>3, <1>4 DEF ConsoleInv, TypesInv
<1> HIDE DEF last
<1>7. terminal_row' \in 0 .. VGA_HEIGHT - 1 /\ terminal_column' \in 0 .. VGA_WIDTH - 1
  BY <1>1 DEF ConsoleInv, TypesInv, terminal_putchar, NextRow
<1>8. TypesInv'
  BY <1>3, <1>4, <1>6, <1>7 DEF ConsoleInv, TypesInv, portVars, Cells
<1>9. SetUpInv' /\ FifoInv'
  BY <1>2, <1>4 DEF ConsoleInv, SetUpInv, FifoInv, portVars, numberVars, SetUp, Ready
<1>10. CursorInv'
  <2>1. terminal_row \in 0 .. VGA_HEIGHT - 1 /\ terminal_column \in 0 .. VGA_WIDTH - 1
    BY DEF ConsoleInv, TypesInv
  <2>2. Len(shown) \in Nat /\ last = Len(shown) + 1
    BY <1>6 DEF last
  <2>3. cursor = Len(shown) % Area
    BY <1>5, <2>2, SMT DEF CellOf
  <2>4. (Len(shown) + 1) % Area =
            IF terminal_column + 1 # VGA_WIDTH
            THEN terminal_row * VGA_WIDTH + (terminal_column + 1)
            ELSE IF terminal_row + 1 = VGA_HEIGHT THEN 0 ELSE (terminal_row + 1) * VGA_WIDTH
    BY <2>1, <2>2, <2>3, NextCell DEF cursor
  <2>5. terminal_row' * VGA_WIDTH + terminal_column' = (Len(shown) + 1) % Area
    <3>1. CASE terminal_column + 1 # VGA_WIDTH
      BY <2>4, <3>1 DEF terminal_putchar
    <3>2. CASE terminal_column + 1 = VGA_WIDTH /\ terminal_row + 1 = VGA_HEIGHT
      BY <1>1, <2>4, <3>2 DEF terminal_putchar, NextRow
    <3>3. CASE terminal_column + 1 = VGA_WIDTH /\ terminal_row + 1 # VGA_HEIGHT
      BY <1>1, <2>1, <2>4, <3>3 DEF terminal_putchar, NextRow
    <3> QED BY <3>1, <3>2, <3>3
  <2>6. (Len(shown') + 1) - 1 = Len(shown) + 1
    BY <1>6, <2>2
  <2> QED BY <2>5, <2>6 DEF CursorInv, CellOf, Area
<1>11. ScreenInv'
  <2> SUFFICES ASSUME NEW cell \in Cells
               PROVE  \/ Fell(cell)' = {} /\ terminal_buffer'[cell] = Blank
                      \/ \E k \in Fell(cell)' :
                            /\ \A other \in Fell(cell)' : other <= k
                            /\ terminal_buffer'[cell] = shown'[k]
    BY DEF ScreenInv, Cells, Blank
  <2>1. Fell(cell)' = {k \in 1 .. last : CellOf(k) = cell}
    BY <1>6 DEF Fell, CellOf, Area
  <2>2. last = Len(shown) + 1
    BY DEF last
  <2>3. CASE cell = cursor
    <3>1. last \in Fell(cell)' /\ \A other \in Fell(cell)' : other <= last
      BY <1>5, <1>6, <2>1, <2>2, <2>3
    <3>2. terminal_buffer'[cell] = shown'[last]
      BY <1>4, <1>5, <1>6, <2>3 DEF ConsoleInv, TypesInv
    <3> QED BY <3>1, <3>2
  <2>4. CASE cell # cursor
    <3>1. Fell(cell)' = Fell(cell)
      BY <1>5, <1>6, <2>1, <2>2, <2>4 DEF Fell
    <3>2. terminal_buffer'[cell] = terminal_buffer[cell]
      BY <1>4, <2>4 DEF ConsoleInv, TypesInv
    <3>3. \A k \in Fell(cell) : shown'[k] = shown[k]
      BY <1>6 DEF Fell
    <3> QED BY <1>2, <3>1, <3>2, <3>3 DEF ConsoleInv, ScreenInv
  <2> QED BY <2>3, <2>4
<1> QED BY <1>8, <1>9, <1>10, <1>11 DEF ConsoleInv

\* The port's steps: the screen stays.
LEMMA SerialPutcharStep == ConsoleInv /\ serial_putchar => ConsoleInv'
<1> SUFFICES ASSUME ConsoleInv, serial_putchar PROVE ConsoleInv'
  OBVIOUS
<1>1. /\ UNCHANGED <<screenVars, numberVars, line, toScreen, pc, printed>>
      /\ toSerial # <<>> /\ fifo = <<>>
  BY DEF serial_putchar, TransmitterEmpty
<1>2. pc \in Ready
  BY <1>1 DEF ConsoleInv, TypesInv, SetUpInv
<1>3. ~ uart.dlab
  BY <1>2 DEF ConsoleInv, SetUpInv
<1>4. UNCHANGED uart /\ fifo' = <<Head(toSerial)>>
  BY <1>1, <1>3 DEF serial_putchar, WriteData
<1>5. CursorInv' /\ ScreenInv'
  BY <1>1, ScreenFrame
<1>6. TypesInv'
  BY <1>1, <1>4 DEF ConsoleInv, TypesInv, screenVars, Cells
<1>7. SetUpInv' /\ FifoInv'
  BY <1>1, <1>2, <1>4 DEF ConsoleInv, SetUpInv, FifoInv, screenVars, numberVars, SetUp, Ready
<1> QED BY <1>5, <1>6, <1>7 DEF ConsoleInv

\* The UART sends its character and touches neither screen nor cursor.
LEMMA TransmitStep == ConsoleInv /\ Transmit => ConsoleInv'
<1> SUFFICES ASSUME ConsoleInv, Transmit PROVE ConsoleInv'
  OBVIOUS
<1>1. UNCHANGED <<screenVars, numberVars, uart, toScreen, toSerial, pc, printed>> /\ fifo # <<>>
  BY DEF Transmit
<1>2. fifo' = <<>>
  <2>1. PICK char : fifo = <<char>>
    BY <1>1 DEF ConsoleInv, FifoInv
  <2> QED BY <2>1 DEF Transmit
<1>3. CursorInv' /\ ScreenInv'
  BY <1>1, ScreenFrame
<1>4. TypesInv'
  BY <1>1 DEF ConsoleInv, TypesInv, screenVars, Cells
<1>5. SetUpInv' /\ FifoInv'
  BY <1>1, <1>2 DEF ConsoleInv, SetUpInv, FifoInv, screenVars, numberVars
<1> QED BY <1>3, <1>4, <1>5 DEF ConsoleInv

\* A string is accepted once the port is set up, and goes to the screen only
\* once that is set up too.
LEMMA WriteStep ==
    ASSUME NEW string, NEW screen \in Seq(Chars), ConsoleInv, Write(string, screen),
           pc \in Ready, screen # <<>> => pc = "running"
    PROVE  ConsoleInv'
<1>1. UNCHANGED <<screenVars, portVars, numberVars, pc>> /\ toScreen' = screen
  BY DEF Write
<1>2. CursorInv' /\ ScreenInv'
  BY <1>1, ScreenFrame
<1>3. TypesInv'
  BY <1>1 DEF ConsoleInv, TypesInv, screenVars, portVars, Cells
<1>4. SetUpInv' /\ FifoInv'
  BY <1>1 DEF ConsoleInv, SetUpInv, FifoInv, screenVars, portVars, numberVars, SetUp, Ready
<1> QED BY <1>2, <1>3, <1>4 DEF ConsoleInv

\* terminal_writestring hands its characters on one at a time.
LEMMA TerminalWriteStep == ConsoleInv /\ terminal_writestring => ConsoleInv'
<1> SUFFICES ASSUME ConsoleInv, terminal_writestring PROVE ConsoleInv'
  OBVIOUS
<1>1. pc = "running"
  BY DEF terminal_writestring
<1>2. PICK string \in Strings : Write(string, string)
  BY DEF terminal_writestring
<1>3. string \in Seq(Chars)
  <2>1. Alphabet \subseteq Chars
    BY DEF Chars
  <2>2. string \in Seq(Alphabet)
    BY ConsoleAssumption
  <2> QED BY ONLY <2>1, <2>2
<1>4. pc \in Ready
  BY <1>1 DEF Ready
<1> QED BY <1>1, <1>2, <1>3, <1>4, WriteStep

\* serial_writestring, and a number written from the buffer, hand on theirs.
LEMMA SerialWriteStep == ConsoleInv /\ (serial_writestring \/ WriteBuffer) => ConsoleInv'
<1>1. <<>> \in Seq(Chars)
  OBVIOUS
<1>2. ASSUME ConsoleInv, serial_writestring PROVE ConsoleInv'
  <2>1. PICK string \in Strings : Write(string, <<>>)
    BY <1>2 DEF serial_writestring
  <2>2. pc \in Ready
    BY <1>2 DEF serial_writestring, Ready
  <2> QED BY <1>1, <1>2, <2>1, <2>2, WriteStep
<1>3. ASSUME ConsoleInv, WriteBuffer PROVE ConsoleInv'
  <2>1. PICK string : Write(string, <<>>)
    BY <1>3 DEF WriteBuffer
  <2>2. pc = "running"
    BY <1>3 DEF WriteBuffer, ConsoleInv, SetUpInv
  <2>3. pc \in Ready
    BY <2>2 DEF Ready
  <2> QED BY <1>1, <1>3, <2>1, <2>3, WriteStep
<1> QED BY <1>2, <1>3

\* uint64_to_string writes the buffer only.
LEMMA NumberStep == ConsoleInv /\ uint64_to_string => ConsoleInv'
<1> SUFFICES ASSUME ConsoleInv, uint64_to_string PROVE ConsoleInv'
  OBVIOUS
<1>1. UNCHANGED <<screenVars, portVars, toScreen, toSerial, pc, printed>> /\ pc = "running"
  BY DEF uint64_to_string
<1>2. CursorInv' /\ ScreenInv'
  BY <1>1, ScreenFrame
<1>3. TypesInv'
  BY <1>1 DEF ConsoleInv, TypesInv, screenVars, portVars, Cells
<1>4. SetUpInv' /\ FifoInv'
  BY <1>1 DEF ConsoleInv, SetUpInv, FifoInv, screenVars, portVars, SetUp, Ready
<1> QED BY <1>2, <1>3, <1>4 DEF ConsoleInv

\* A step that changes nothing.
LEMMA ConsoleStutter == ConsoleInv /\ UNCHANGED consoleVars => ConsoleInv'
<1> SUFFICES ASSUME ConsoleInv, UNCHANGED consoleVars PROVE ConsoleInv'
  OBVIOUS
<1>1. UNCHANGED <<screenVars, portVars, numberVars, toScreen, toSerial, pc, printed>>
  BY DEF consoleVars
<1>2. CursorInv' /\ ScreenInv'
  BY <1>1, ScreenFrame
<1>3. TypesInv'
  BY <1>1 DEF ConsoleInv, TypesInv, screenVars, portVars, Cells
<1>4. SetUpInv' /\ FifoInv'
  BY <1>1 DEF ConsoleInv, SetUpInv, FifoInv, screenVars, portVars, numberVars
<1> QED BY <1>2, <1>3, <1>4 DEF ConsoleInv

\* The invariant holds in every reachable state.
LEMMA ConsoleInvariant == ConsoleSpec => []ConsoleInv
<1>1. ConsoleInv /\ [ConsoleNext]_consoleVars => ConsoleInv'
  BY SetUpStep, InitializeStep, SetColorStep, PutcharStep, SerialPutcharStep, TransmitStep,
     TerminalWriteStep, SerialWriteStep, NumberStep, ConsoleStutter DEF ConsoleNext, Kernel
<1> QED BY InitialConsole, <1>1, PTL DEF ConsoleSpec

-----------------------------------------------------------------------------
(* The theorems. *)

\* Every variable has its type, the cursor never leaves the screen, and the
\* UART is never given a character while it has one.
THEOREM ConsoleTypes == ConsoleSpec => []ConsoleTypeOK
<1>1. ConsoleInv => ConsoleTypeOK
  <2> SUFFICES ASSUME ConsoleInv PROVE ConsoleTypeOK
    OBVIOUS
  <2>1. /\ terminal_row \in 0 .. VGA_HEIGHT - 1 /\ terminal_column \in 0 .. VGA_WIDTH - 1
        /\ terminal_color \in 0 .. 255 /\ DOMAIN terminal_buffer = Cells
    BY DEF ConsoleInv, TypesInv
  <2>2. uart.dlab \in BOOLEAN
    BY DEF ConsoleInv, TypesInv, Uart
  <2>3. Len(fifo) <= 1
    <3>1. fifo = <<>> \/ \E char : fifo = <<char>>
      BY DEF ConsoleInv, FifoInv
    <3>2. Len(<<>>) = 0 /\ \A char : Len(<<char>>) = 1
      OBVIOUS
    <3>3. Len(fifo) = 0 \/ Len(fifo) = 1
      BY <3>1, <3>2, Zenon
    <3>4. 0 <= 1 /\ 1 <= 1
      OBVIOUS
    <3> QED BY ONLY <3>3, <3>4, Zenon
  <2> QED BY <2>1, <2>2, <2>3 DEF ConsoleTypeOK
<1> QED BY ConsoleInvariant, <1>1, PTL

\* serial.asm:34: whatever the divisor was, nothing leaves the UART before
\* the rate and the frame are set, or with others.
THEOREM ConsoleSentAtRate == ConsoleSpec => SentAtRate
<1>1. ConsoleInv /\ [ConsoleNext]_consoleVars =>
        [line' # line => uart.low = 1 /\ uart.high = 0 /\ uart.format = 3
                         /\ ~ uart.dlab]_consoleVars
  <2> SUFFICES ASSUME ConsoleInv, [ConsoleNext]_consoleVars, line' # line
               PROVE  uart.low = 1 /\ uart.high = 0 /\ uart.format = 3 /\ ~ uart.dlab
    OBVIOUS
  <2>1. ~ UNCHANGED consoleVars
    BY DEF consoleVars, portVars
  <2>2. ~ Kernel
    BY DEF Kernel, serial_init, InterruptsOff, SetDlab, DivisorLow, DivisorHigh, SetFormat,
           EnableFifo, Greet, Step, terminal_initialize, terminal_putchar, serial_putchar, portVars
  <2>3. ~ terminal_writestring /\ ~ serial_writestring /\ ~ WriteBuffer
    BY DEF terminal_writestring, serial_writestring, WriteBuffer, Write, portVars
  <2>4. ~ terminal_setcolor /\ ~ uint64_to_string
    BY DEF terminal_setcolor, uint64_to_string, portVars
  <2>5. fifo # <<>>
    BY <2>1, <2>2, <2>3, <2>4 DEF ConsoleNext, Transmit
  <2>6. pc \in Ready
    BY <2>5 DEF ConsoleInv, TypesInv, SetUpInv
  <2> QED BY <2>6 DEF ConsoleInv, SetUpInv
<1> QED BY ConsoleInvariant, <1>1, PTL DEF ConsoleSpec, SentAtRate

\* terminal_putchar: on a screen of any size each cell shows the last
\* character that fell to it, in its colour, or is blank.
THEOREM ConsoleScreenShowsTail == ConsoleSpec => []ScreenShowsTail
<1>1. ConsoleInv => ScreenShowsTail
  <2> SUFFICES ASSUME ConsoleInv, pc = "running", NEW cell \in Cells
               PROVE  LET fell == {k \in 1 .. Len(shown) :
                                       (k - 1) % (VGA_WIDTH * VGA_HEIGHT) = cell}
                      IN  terminal_buffer[cell] =
                            IF fell = {}
                            THEN vga_entry(" ", vga_entry_color(VGA_COLOR_LIGHT_GREY,
                                                                VGA_COLOR_BLACK))
                            ELSE shown[CHOOSE k \in fell : \A other \in fell : other <= k]
    BY DEF ScreenShowsTail
  <2> DEFINE fell == {k \in 1 .. Len(shown) : (k - 1) % (VGA_WIDTH * VGA_HEIGHT) = cell}
             last == CHOOSE k \in fell : \A other \in fell : other <= k
  <2>1. fell = Fell(cell)
    BY DEF Fell, CellOf, Area
  <2>2. fell \subseteq Int
    OBVIOUS
  <2> HIDE DEF fell
  <2>3. ASSUME fell = {} PROVE terminal_buffer[cell] = Blank
    BY <2>1, <2>3 DEF ConsoleInv, ScreenInv
  <2>4. ASSUME fell # {} PROVE terminal_buffer[cell] = shown[last]
    <3>1. PICK k \in fell : /\ \A other \in fell : other <= k
                            /\ terminal_buffer[cell] = shown[k]
      BY <2>1, <2>4 DEF ConsoleInv, ScreenInv
    <3>2. last \in fell /\ \A other \in fell : other <= last
      BY <3>1
    <3>3. last = k
      <4>1. last <= k /\ k <= last
        BY <3>1, <3>2
      <4>2. last \in Int /\ k \in Int
        BY <2>2, <3>1, <3>2
      <4> HIDE DEF last
      <4> QED BY <4>1, <4>2
    <3> QED BY <3>1, <3>3
  <2> QED BY <2>3, <2>4 DEF fell, Blank
<1> QED BY ConsoleInvariant, <1>1, PTL

-----------------------------------------------------------------------------
(* Sequences of sequences. *)

\* f has at each place the join of what stands in S up to there.
Joins(f, S) ==
    f = [i \in 1 .. Len(S) |-> IF i = 1 THEN S[i] ELSE f[i - 1] \o S[i]]

\* The joins of a sequence of sequences exist.
LEMMA JoinsExist ==
    ASSUME NEW X, NEW S \in Seq(Seq(X)), Len(S) > 0
    PROVE  \E f \in [1 .. Len(S) -> Seq(X)] : Joins(f, S)
<1> DEFINE D == 1 .. Len(S)
           V == Seq(X)
           rank == [i \in D |-> i - 1]
           down == [i \in D |-> IF i = 1 THEN 1 ELSE i - 1]
           base == [i \in D |-> S[1]]
           step == [p \in D \X V |-> p[2] \o S[p[1]]]
<1>1. Len(S) \in Nat /\ 1 \in D /\ \A i \in D : S[i] \in V /\ i \in Nat /\ i - 1 \in Nat
  OBVIOUS
<1>2. rank \in [D -> Nat] /\ down \in [D -> D]
  BY <1>1
<1>3. base \in [D -> V]
  BY <1>1
<1>4. step \in [D \X V -> V]
  <2>1. ASSUME NEW p \in D \X V PROVE p[2] \o S[p[1]] \in V
    <3>1. p[1] \in D /\ p[2] \in V
      OBVIOUS
    <3>2. S[p[1]] \in V
      BY <1>1, <3>1
    <3> QED BY <3>1, <3>2, ConcatProperties
  <2> QED BY <2>1
<1>5. \A i \in D : rank[i] # 0 => rank[down[i]] < rank[i]
  BY <1>1
<1>6. /\ \A i \in D : (rank[i] = 0 <=> i = 1) /\ base[i] = S[1]
      /\ \A i \in D : i # 1 => down[i] = i - 1
      /\ \A i \in D, v \in V : step[<<i, v>>] = v \o S[i]
  <2>1. \A i \in D : (rank[i] = 0 <=> i = 1) /\ base[i] = S[1]
    <3>1. \A i \in D : rank[i] = i - 1 /\ base[i] = S[1]
      OBVIOUS
    <3>2. \A i \in D : i - 1 = 0 <=> i = 1
      BY <1>1
    <3> HIDE DEF D, rank, base
    <3> QED BY <3>1, <3>2
  <2>2. \A i \in D : i # 1 => down[i] = i - 1
    BY <1>1
  <2>3. \A i \in D, v \in V : step[<<i, v>>] = v \o S[i]
    <3> HIDE DEF D, V
    <3> QED OBVIOUS
  <2> QED BY <2>1, <2>2, <2>3
<1>7. Descends(D, V, rank, down, base, step)
  <2> HIDE DEF D, V, rank, down, base, step
  <2> QED BY <1>2, <1>3, <1>4, <1>5 DEF Descends
<1>8. PICK f \in [D -> V] : \A i \in D :
          f[i] = IF rank[i] = 0 THEN base[i] ELSE step[<<i, f[down[i]]>>]
  <2> HIDE DEF D, V, rank, down, base, step
  <2> QED BY <1>7, RecursionSolved
<1>9. \A i \in D : f[i] = IF i = 1 THEN S[i] ELSE f[i - 1] \o S[i]
  <2> SUFFICES ASSUME NEW i \in D PROVE f[i] = IF i = 1 THEN S[i] ELSE f[i - 1] \o S[i]
    OBVIOUS
  <2>1. down[i] \in D /\ f[down[i]] \in V
    BY <1>2
  <2> HIDE DEF D, V, rank, down, base, step
  <2>2. f[i] = IF rank[i] = 0 THEN base[i] ELSE step[<<i, f[down[i]]>>]
    BY ONLY <1>8, i \in D
  <2>3. CASE i = 1
    <3>1. rank[i] = 0 /\ base[i] = S[1]
      BY ONLY <1>6, <2>3, i \in D
    <3> QED BY ONLY <2>2, <2>3, <3>1
  <2>4. CASE i # 1
    <3>1. rank[i] # 0 /\ down[i] = i - 1
      BY ONLY <1>6, <2>4, i \in D
    <3>2. step[<<i, f[down[i]]>>] = f[down[i]] \o S[i]
      BY ONLY <1>6, <2>1, i \in D
    <3> QED BY ONLY <2>2, <2>4, <3>1, <3>2
  <2> QED BY ONLY <2>3, <2>4
<1>10. f = [i \in 1 .. Len(S) |-> IF i = 1 THEN S[i] ELSE f[i - 1] \o S[i]]
  BY <1>9
<1>11. f \in [1 .. Len(S) -> Seq(X)]
  OBVIOUS
<1> HIDE DEF D, V, rank, down, base, step
<1> QED BY <1>10, <1>11 DEF Joins

\* What stands at each place.
LEMMA JoinsAt ==
    ASSUME NEW S, NEW f, Joins(f, S), NEW i \in 1 .. Len(S)
    PROVE  f[i] = IF i = 1 THEN S[i] ELSE f[i - 1] \o S[i]
<1>1. PICK g : g = [j \in 1 .. Len(S) |-> IF j = 1 THEN S[j] ELSE f[j - 1] \o S[j]]
  OBVIOUS
<1>2. f = g
  BY <1>1 DEF Joins
<1>3. g[i] = IF i = 1 THEN S[i] ELSE f[i - 1] \o S[i]
  BY ONLY <1>1, i \in 1 .. Len(S), Zenon
<1> QED BY ONLY <1>2, <1>3

\* Two sequences begin with the same n elements.
BeginAlike(S, T, n) ==
    /\ Len(S) \in Nat /\ Len(T) \in Nat /\ n \in Nat
    /\ n <= Len(S) /\ n <= Len(T)
    /\ \A i \in 1 .. n : S[i] = T[i]

\* The joins of two sequences are the same as far as the sequences are.
LEMMA JoinsAgree ==
    ASSUME NEW S, NEW T, NEW f, NEW g, NEW n,
           Joins(f, S), Joins(g, T), BeginAlike(S, T, n)
    PROVE  \A i \in 1 .. n : f[i] = g[i]
<1>0. /\ Len(S) \in Nat /\ Len(T) \in Nat /\ n \in Nat /\ n <= Len(S) /\ n <= Len(T)
      /\ \A i \in 1 .. n : S[i] = T[i]
  BY DEF BeginAlike
<1> DEFINE F == {i \in Nat : i \in 1 .. n => f[i] = g[i]}
<1>1. ASSUME NEW i \in Nat, \A j \in Nat : j < i => j \in F PROVE i \in F
  <2> SUFFICES ASSUME i \in 1 .. n PROVE f[i] = g[i]
    OBVIOUS
  <2>0. i \in 1 .. Len(S) /\ i \in 1 .. Len(T) /\ S[i] = T[i]
    BY <1>0
  <2>1. f[i] = IF i = 1 THEN S[i] ELSE f[i - 1] \o S[i]
    BY <2>0, JoinsAt, Zenon
  <2>2. g[i] = IF i = 1 THEN T[i] ELSE g[i - 1] \o T[i]
    BY <2>0, JoinsAt, Zenon
  <2>3. i # 1 => f[i - 1] = g[i - 1]
    <3> SUFFICES ASSUME i # 1 PROVE f[i - 1] = g[i - 1]
      OBVIOUS
    <3>1. i - 1 \in Nat /\ i - 1 < i /\ i - 1 \in 1 .. n
      BY <1>0
    <3>2. i - 1 \in F
      BY <1>1, <3>1
    <3> QED BY <3>1, <3>2
  <2> QED BY <2>0, <2>1, <2>2, <2>3
<1>2. Nat \subseteq F
  <2> HIDE DEF F
  <2> QED BY <1>1, NumberInduction
<1> QED BY <1>2

\* The last join is the sequence flattened.
LEMMA FlattenIsJoin ==
    ASSUME NEW X, NEW S \in Seq(Seq(X)), Len(S) > 0, NEW f, Joins(f, S)
    PROVE  FlattenSeq(S) = f[Len(S)]
<1> DEFINE chosen == CHOOSE g : g = [i \in 1 .. Len(S) |-> IF i = 1 THEN S[i] ELSE g[i - 1] \o S[i]]
<1>1. Len(S) \in Nat /\ Len(S) # 0
  OBVIOUS
<1>2. FlattenSeq(S) = chosen[Len(S)]
  BY <1>1 DEF FlattenSeq
<1>3. chosen = CHOOSE g : Joins(g, S)
  BY DEF Joins
<1> HIDE DEF chosen
<1>4. Joins(chosen, S)
  BY <1>3, Zenon
<1>5. \A i \in 1 .. Len(S) : chosen[i] = f[i]
  <2>1. BeginAlike(S, S, Len(S))
    BY <1>1 DEF BeginAlike
  <2> QED BY <1>4, <2>1, JoinsAgree
<1> QED BY <1>1, <1>2, <1>5

\* g joins the m sequences of T, and h goes on with them from its n-th join.
GoesOn(X, T, g, h, n, m) ==
    /\ n \in Nat /\ m \in Nat /\ m > 0 /\ h[n] \in Seq(X)
    /\ \A i \in 1 .. m : g[i] \in Seq(X) /\ T[i] \in Seq(X)
    /\ \A i \in 1 .. m : g[i] = IF i = 1 THEN T[i] ELSE g[i - 1] \o T[i]
    /\ \A i \in 1 .. m : h[n + i] = h[n + (i - 1)] \o T[i]

\* The join of the m sequences stands at the end of the longer one.
GoneOn(g, h, n, m) == h[n + m] = h[n] \o g[m]

\* Going on puts what there is before all the joins.
LEMMA JoinsOn ==
    ASSUME NEW X, NEW T, NEW g, NEW h, NEW n \in Nat, NEW m \in Nat, GoesOn(X, T, g, h, n, m)
    PROVE  GoneOn(g, h, n, m)
<1> DEFINE first == h[n]
<1>a. n \in Nat /\ m \in Nat /\ m > 0 /\ first \in Seq(X) /\ h[n] = first
  BY DEF GoesOn
<1>b. \A i \in 1 .. m :
         /\ g[i] \in Seq(X) /\ T[i] \in Seq(X)
         /\ g[i] = IF i = 1 THEN T[i] ELSE g[i - 1] \o T[i]
         /\ h[n + i] = h[n + (i - 1)] \o T[i]
  BY DEF GoesOn
<1> HIDE DEF first
<1> DEFINE F == {i \in Nat : i \in 1 .. m => h[n + i] = first \o g[i]}
<1>1. ASSUME NEW i \in Nat, \A j \in Nat : j < i => j \in F PROVE i \in F
  <2> SUFFICES ASSUME i \in 1 .. m PROVE h[n + i] = first \o g[i]
    OBVIOUS
  <2>1. h[n + i] = h[n + (i - 1)] \o T[i] /\ T[i] \in Seq(X)
    BY <1>b
  <2>2. g[i] = IF i = 1 THEN T[i] ELSE g[i - 1] \o T[i]
    BY <1>b
  <2>3. CASE i = 1
    <3>1. n + (i - 1) = n
      BY <2>3
    <3> QED BY <1>a, <2>1, <2>2, <2>3, <3>1
  <2>4. CASE i # 1
    <3>1. i - 1 \in Nat /\ i - 1 \in 1 .. m /\ i - 1 < i
      BY <2>4
    <3>2. i - 1 \in F
      BY <1>1, <3>1
    <3>3. h[n + (i - 1)] = first \o g[i - 1] /\ g[i - 1] \in Seq(X)
      BY <1>b, <3>1, <3>2
    <3> DEFINE before == g[i - 1]
               here == T[i]
    <3>4. before \in Seq(X) /\ here \in Seq(X)
      BY <2>1, <3>3
    <3> HIDE DEF before, here
    <3>5. (first \o before) \o here = first \o (before \o here)
      BY ONLY <3>4, <1>a, ConcatAssociative
    <3> QED BY <2>1, <2>2, <2>4, <3>3, <3>5 DEF before, here
  <2> QED BY <2>3, <2>4
<1>2. Nat \subseteq F
  <2> HIDE DEF F
  <2> QED BY <1>1, NumberInduction
<1>3. m \in F /\ m \in 1 .. m
  <2>1. m \in 1 .. m
    BY ONLY <1>a
  <2> QED BY ONLY <1>a, <1>2, <2>1
<1>4. h[n + m] = first \o g[m]
  BY ONLY <1>3
<1> QED BY ONLY <1>a, <1>4 DEF GoneOn

\* Two sequences of sequences one behind the other.
LEMMA FlattenBoth ==
    ASSUME NEW X, NEW S \in Seq(Seq(X)), NEW T \in Seq(Seq(X)), Len(S) > 0, Len(T) > 0
    PROVE  FlattenSeq(S \o T) = FlattenSeq(S) \o FlattenSeq(T)
<1>b. PICK both : both = S \o T
  OBVIOUS
<1>n. PICK n : n = Len(S)
  OBVIOUS
<1>m. PICK m : m = Len(T)
  OBVIOUS
<1>a. /\ n \in Nat /\ m \in Nat /\ n > 0 /\ m > 0 /\ Len(S) = n /\ Len(T) = m
      /\ both \in Seq(Seq(X)) /\ Len(both) = n + m
      /\ (\A i \in 1 .. n : both[i] = S[i]) /\ (\A i \in 1 .. m : both[n + i] = T[i])
  BY <1>b, <1>n, <1>m
<1>1. Len(S) > 0 /\ Len(T) > 0 /\ Len(both) > 0 /\ both \in Seq(Seq(X))
  BY <1>a
<1>2. PICK f : f \in [1 .. Len(S) -> Seq(X)] /\ Joins(f, S)
  BY <1>1, JoinsExist
<1>3. PICK g : g \in [1 .. Len(T) -> Seq(X)] /\ Joins(g, T)
  BY <1>1, JoinsExist
<1>4. PICK h : h \in [1 .. Len(both) -> Seq(X)] /\ Joins(h, both)
  BY <1>1, JoinsExist
<1>5. FlattenSeq(S) = f[n] /\ FlattenSeq(T) = g[m] /\ FlattenSeq(both) = h[n + m]
  <2>1. FlattenSeq(S) = f[Len(S)]
    BY <1>1, <1>2, FlattenIsJoin
  <2>2. FlattenSeq(T) = g[Len(T)]
    BY <1>1, <1>3, FlattenIsJoin
  <2>3. FlattenSeq(both) = h[Len(both)]
    BY <1>1, <1>4, FlattenIsJoin
  <2> QED BY <1>a, <2>1, <2>2, <2>3
<1>6. h[n] = f[n]
  <2>1. BeginAlike(both, S, n)
    BY <1>a DEF BeginAlike
  <2>2. \A i \in 1 .. n : h[i] = f[i]
    <3>1. Joins(f, S)
      BY <1>2
    <3>2. Joins(h, both)
      BY <1>4
    <3> QED BY ONLY <2>1, <3>1, <3>2, JoinsAgree
  <2>3. n \in 1 .. n
    BY <1>a
  <2> QED BY ONLY <2>2, <2>3
<1>7. \A i \in 1 .. m : g[i] = IF i = 1 THEN T[i] ELSE g[i - 1] \o T[i]
  <2>1. Joins(g, T) /\ Len(T) = m
    BY <1>a, <1>3
  <2> QED BY ONLY <2>1, JoinsAt
<1>8. ASSUME NEW i \in 1 .. m PROVE h[n + i] = h[n + (i - 1)] \o T[i]
  <2>1. PICK place : place = n + i
    OBVIOUS
  <2>2. /\ place \in 1 .. Len(both) /\ place # 1 /\ place - 1 = n + (i - 1)
    BY ONLY <2>1, <1>a, i \in 1 .. m
  <2>3. h[place] = IF place = 1 THEN both[place] ELSE h[place - 1] \o both[place]
    BY ONLY <1>4, <2>2, JoinsAt
  <2>4. h[place] = h[place - 1] \o both[place]
    BY ONLY <2>2, <2>3
  <2>5. both[place] = T[i]
    BY <1>a, <2>1
  <2> QED BY ONLY <2>1, <2>2, <2>4, <2>5
<1>9. f[n] \in Seq(X)
  <2>1. n \in 1 .. n
    BY <1>a
  <2> QED BY ONLY <1>2, <2>1, <1>a
<1>10. (\A i \in 1 .. m : g[i] \in Seq(X)) /\ (\A i \in 1 .. m : T[i] \in Seq(X))
  <2>1. \A i \in 1 .. m : g[i] \in Seq(X)
    BY ONLY <1>3, <1>a
  <2>2. \A i \in 1 .. m : T[i] \in Seq(X)
    BY ONLY T \in Seq(Seq(X)), <1>a
  <2> QED BY <2>1, <2>2
<1>11. h[n + m] = f[n] \o g[m]
  <2>1. \A i \in 1 .. m : h[n + i] = h[n + (i - 1)] \o T[i]
    BY <1>8
  <2>2. GoesOn(X, T, g, h, n, m)
    BY ONLY <1>6, <1>7, <2>1, <1>9, <1>10, <1>a DEF GoesOn
  <2>3. GoneOn(g, h, n, m)
    BY ONLY <1>a, <2>2, JoinsOn
  <2> QED BY ONLY <1>6, <2>3 DEF GoneOn
<1> QED BY ONLY <1>b, <1>5, <1>11

\* Joining sequences of sequences joins what they flatten to.
LEMMA FlattenConcat ==
    ASSUME NEW X, NEW S \in Seq(Seq(X)), NEW T \in Seq(Seq(X))
    PROVE  /\ FlattenSeq(S) \in Seq(X)
           /\ FlattenSeq(S \o T) = FlattenSeq(S) \o FlattenSeq(T)
<1>a. ASSUME NEW U \in Seq(Seq(X)) PROVE FlattenSeq(U) \in Seq(X)
  <2>1. CASE Len(U) = 0
    <3>1. FlattenSeq(U) = U
      BY <2>1 DEF FlattenSeq
    <3>2. U = <<>>
      BY <2>1
    <3> QED BY <3>1, <3>2
  <2>2. CASE Len(U) # 0
    <3>1. Len(U) \in Nat /\ Len(U) > 0
      BY <2>2
    <3>2. PICK f \in [1 .. Len(U) -> Seq(X)] : Joins(f, U)
      BY <3>1, JoinsExist
    <3>3. FlattenSeq(U) = f[Len(U)]
      BY <3>1, <3>2, FlattenIsJoin
    <3>4. Len(U) \in 1 .. Len(U)
      BY <3>1
    <3> QED BY ONLY <3>2, <3>3, <3>4
  <2> QED BY <2>1, <2>2
<1>b. FlattenSeq(<<>>) = <<>>
  BY DEF FlattenSeq
<1>1. CASE Len(S) = 0
  <2>1. S = <<>> /\ S \o T = T
    BY <1>1
  <2> QED BY <1>a, <1>b, <2>1, ConcatEmptySeq
<1>2. CASE Len(T) = 0
  <2>1. T = <<>> /\ S \o T = S
    BY <1>2
  <2> QED BY <1>a, <1>b, <2>1, ConcatEmptySeq
<1>3. CASE Len(S) # 0 /\ Len(T) # 0
  <2>1. Len(S) > 0 /\ Len(T) > 0
    BY <1>3
  <2>2. FlattenSeq(S \o T) = FlattenSeq(S) \o FlattenSeq(T)
    BY <2>1, FlattenBoth
  <2> QED BY <1>a, <2>2
<1> QED BY <1>a, <1>1, <1>2, <1>3

-----------------------------------------------------------------------------
(* The digits of a number. *)

\* The ten characters uint64_to_string writes.
Digits == {"0", "1", "2", "3", "4", "5", "6", "7", "8", "9"}

\* The ten digits are ten.
LEMMA DigitIs ==
    /\ \A d \in 1 .. 10 : Digit[d] \in Digits
    /\ \A d, e \in 1 .. 10 : Digit[d] = Digit[e] => d = e
    /\ \A c \in Digits : \E d \in 1 .. 10 : Digit[d] = c
    /\ \A d \in 1 .. 10 : Digit[d] = "0" <=> d = 1
<1>1. /\ Digit[1] = "0" /\ Digit[2] = "1" /\ Digit[3] = "2" /\ Digit[4] = "3" /\ Digit[5] = "4"
      /\ Digit[6] = "5" /\ Digit[7] = "6" /\ Digit[8] = "7" /\ Digit[9] = "8" /\ Digit[10] = "9"
  BY DEF Digit
<1>2. \A d \in 1 .. 10 : d = 1 \/ d = 2 \/ d = 3 \/ d = 4 \/ d = 5 \/ d = 6 \/ d = 7 \/ d = 8
                         \/ d = 9 \/ d = 10
  OBVIOUS
<1>3. \A d \in 1 .. 10 : Digit[d] \in Digits
  BY <1>1, <1>2 DEF Digits
<1>4. \A d, e \in 1 .. 10 : Digit[d] = Digit[e] => d = e
  BY <1>1, <1>2
<1>5. \A c \in Digits : \E d \in 1 .. 10 : Digit[d] = c
  BY <1>1 DEF Digits
<1>6. \A d \in 1 .. 10 : Digit[d] = "0" <=> d = 1
  BY <1>1, <1>2
<1> QED BY <1>3, <1>4, <1>5, <1>6

\* A number's digits are its last one and those of its tenth.
LEMMA TempIs ==
    ASSUME NEW value \in Nat
    PROVE  /\ temp[value] \in Seq(Digits)
           /\ value = 0 => temp[value] = <<>>
           /\ value # 0 => temp[value] = <<Digit[(value % 10) + 1]>> \o temp[value \div 10]
<1> DEFINE V == Seq(Digits)
           rank == [v \in Nat |-> v]
           down == [v \in Nat |-> v \div 10]
           base == [v \in Nat |-> <<>>]
           step == [p \in Nat \X V |-> <<Digit[(p[1] % 10) + 1]>> \o p[2]]
           Is(g) == g = [v \in Nat |-> IF v = 0 THEN <<>> ELSE <<Digit[(v % 10) + 1]>> \o g[v \div 10]]
<1>1. \A v \in Nat : v \div 10 \in Nat /\ (v # 0 => v \div 10 < v) /\ (v % 10) + 1 \in 1 .. 10
  OBVIOUS
<1>2. \A v \in Nat : <<Digit[(v % 10) + 1]>> \in V
  BY <1>1, DigitIs
<1>3. rank \in [Nat -> Nat] /\ down \in [Nat -> Nat]
  BY <1>1
<1>4. base \in [Nat -> V]
  OBVIOUS
<1>5. step \in [Nat \X V -> V]
  <2>1. ASSUME NEW p \in Nat \X V PROVE <<Digit[(p[1] % 10) + 1]>> \o p[2] \in V
    <3>1. p[1] \in Nat /\ p[2] \in V
      OBVIOUS
    <3>2. <<Digit[(p[1] % 10) + 1]>> \in V
      BY <1>2, <3>1
    <3> QED BY <3>1, <3>2, ConcatProperties
  <2> QED BY <2>1
<1>6. \A v \in Nat : rank[v] # 0 => rank[down[v]] < rank[v]
  BY <1>1
<1>7. /\ \A v \in Nat : rank[v] = v /\ base[v] = <<>> /\ down[v] = v \div 10
      /\ \A v \in Nat, s \in V : step[<<v, s>>] = <<Digit[(v % 10) + 1]>> \o s
  OBVIOUS
<1>8. Descends(Nat, V, rank, down, base, step)
  <2> HIDE DEF V, rank, down, base, step
  <2> QED BY <1>3, <1>4, <1>5, <1>6 DEF Descends
<1>9. PICK g \in [Nat -> V] : \A v \in Nat :
          g[v] = IF rank[v] = 0 THEN base[v] ELSE step[<<v, g[down[v]]>>]
  <2> HIDE DEF V, rank, down, base, step
  <2> QED BY <1>8, RecursionSolved
<1>10. \A v \in Nat : g[v] = IF v = 0 THEN <<>> ELSE <<Digit[(v % 10) + 1]>> \o g[v \div 10]
  <2> HIDE DEF V, rank, down, base, step
  <2> SUFFICES ASSUME NEW v \in Nat
               PROVE  g[v] = IF v = 0 THEN <<>> ELSE <<Digit[(v % 10) + 1]>> \o g[v \div 10]
    OBVIOUS
  <2>1. g[v \div 10] \in V
    BY <1>1
  <2>2. g[v] = IF v = 0 THEN <<>> ELSE step[<<v, g[v \div 10]>>]
    <3>1. g[v] = IF rank[v] = 0 THEN base[v] ELSE step[<<v, g[down[v]]>>]
      BY ONLY <1>9, v \in Nat
    <3>2. rank[v] = v /\ base[v] = <<>> /\ down[v] = v \div 10
      BY ONLY <1>7, v \in Nat
    <3> QED BY ONLY <3>1, <3>2
  <2>3. step[<<v, g[v \div 10]>>] = <<Digit[(v % 10) + 1]>> \o g[v \div 10]
    BY <1>7, <2>1
  <2> QED BY <2>2, <2>3, Zenon
<1>11. Is(g)
  BY <1>10
<1>12. temp = CHOOSE h : Is(h)
  BY DEF temp
<1>13. Is(temp)
  <2> HIDE DEF Is
  <2> QED BY <1>11, <1>12, Zenon
<1>14. PICK h : h = [v \in Nat |-> IF v = 0 THEN <<>> ELSE <<Digit[(v % 10) + 1]>> \o temp[v \div 10]]
  OBVIOUS
<1>15. temp = h
  BY <1>13, <1>14
<1>16. \A v \in Nat : h[v] = IF v = 0 THEN <<>> ELSE <<Digit[(v % 10) + 1]>> \o temp[v \div 10]
  BY ONLY <1>14, Zenon
<1>17. \A v \in Nat : temp[v] = IF v = 0 THEN <<>> ELSE <<Digit[(v % 10) + 1]>> \o temp[v \div 10]
  BY ONLY <1>15, <1>16, Zenon
<1> DEFINE F == {v \in Nat : temp[v] \in V}
<1>18. ASSUME NEW v \in Nat, \A u \in Nat : u < v => u \in F PROVE v \in F
  <2>1. CASE v = 0
    <3>1. temp[v] = <<>>
      BY <1>17, <2>1
    <3>2. <<>> \in V
      OBVIOUS
    <3>3. temp[v] \in V
      BY ONLY <3>1, <3>2, Zenon
    <3> QED BY <3>3
  <2>2. CASE v # 0
    <3>1. temp[v \div 10] \in V
      BY <1>1, <1>18, <2>2
    <3>2. temp[v] = <<Digit[(v % 10) + 1]>> \o temp[v \div 10]
      BY <1>17, <2>2
    <3>3. <<Digit[(v % 10) + 1]>> \in V
      BY <1>2
    <3>4. temp[v] \in V
      BY ONLY <3>1, <3>2, <3>3, ConcatProperties
    <3> QED BY <3>4
  <2> QED BY <2>1, <2>2
<1>19. Nat \subseteq F
  <2> HIDE DEF F
  <2> QED BY <1>18, NumberInduction
<1>20. temp[value] \in V
  BY <1>19
<1> QED BY <1>17, <1>20

\* Numbers below b have at most k digits.
ShortBelow(b, k) == \A n \in Nat : n < b => Len(temp[n]) <= k

\* One digit more for numbers ten times as large.
LEMMA OneDigitMore ==
    ASSUME NEW b \in Nat, NEW k \in Nat, ShortBelow(b, k)
    PROVE  ShortBelow(10 * b, k + 1)
<1> SUFFICES ASSUME NEW n \in Nat, n < 10 * b PROVE Len(temp[n]) <= k + 1
  BY DEF ShortBelow
<1>1. CASE n = 0
  <2>1. temp[n] = <<>>
    BY <1>1, TempIs
  <2> QED BY <2>1
<1>2. CASE n # 0
  <2>1. n \div 10 \in Nat /\ n \div 10 < b
    OBVIOUS
  <2>2. Len(temp[n \div 10]) <= k
    BY <2>1 DEF ShortBelow
  <2>3. temp[n] = <<Digit[(n % 10) + 1]>> \o temp[n \div 10]
    BY <1>2, TempIs
  <2>4. temp[n \div 10] \in Seq(Digits)
    BY <2>1, TempIs
  <2>5. Len(<<Digit[(n % 10) + 1]>> \o temp[n \div 10]) = 1 + Len(temp[n \div 10])
    BY ONLY <2>4
  <2>6. Len(temp[n \div 10]) \in Nat
    BY ONLY <2>4
  <2> QED BY ONLY <2>2, <2>3, <2>5, <2>6, k \in Nat
<1> QED BY <1>1, <1>2

\* Five digits more for numbers with sixteen bits more.
LEMMA FiveDigitsMore ==
    ASSUME NEW b \in Nat, NEW k \in Nat, ShortBelow(b, k)
    PROVE  ShortBelow(65536 * b, k + 5)
<1>1. ShortBelow(10 * b, k + 1)
  BY OneDigitMore
<1>2. ShortBelow(10 * (10 * b), k + 1 + 1)
  <2>1. 10 * b \in Nat /\ k + 1 \in Nat
    OBVIOUS
  <2> QED BY <1>1, <2>1, OneDigitMore
<1>3. ShortBelow(10 * (10 * (10 * b)), k + 1 + 1 + 1)
  <2>1. 10 * (10 * b) \in Nat /\ k + 1 + 1 \in Nat
    OBVIOUS
  <2> QED BY <1>2, <2>1, OneDigitMore
<1>4. ShortBelow(10 * (10 * (10 * (10 * b))), k + 1 + 1 + 1 + 1)
  <2>1. 10 * (10 * (10 * b)) \in Nat /\ k + 1 + 1 + 1 \in Nat
    OBVIOUS
  <2> QED BY <1>3, <2>1, OneDigitMore
<1>5. ShortBelow(10 * (10 * (10 * (10 * (10 * b)))), k + 1 + 1 + 1 + 1 + 1)
  <2>1. 10 * (10 * (10 * (10 * b))) \in Nat /\ k + 1 + 1 + 1 + 1 \in Nat
    OBVIOUS
  <2> QED BY <1>4, <2>1, OneDigitMore
<1>6. 65536 * b <= 10 * (10 * (10 * (10 * (10 * b)))) /\ k + 1 + 1 + 1 + 1 + 1 = k + 5
  OBVIOUS
<1>7. ASSUME NEW n \in Nat, n < 65536 * b PROVE Len(temp[n]) <= k + 5
  <2>1. n < 10 * (10 * (10 * (10 * (10 * b))))
    BY <1>6, <1>7
  <2>2. Len(temp[n]) <= k + 1 + 1 + 1 + 1 + 1
    BY <1>5, <2>1 DEF ShortBelow
  <2> QED BY <1>6, <2>2
<1> QED BY <1>7 DEF ShortBelow

\* A number of 64 bits has at most twenty digits.
LEMMA TwentyDigits ==
    ASSUME NEW n \in Nat, ((n \div 65536) \div 65536) \div 65536 < 65536
    PROVE  Len(temp[n]) <= 20
<1>1. ShortBelow(1, 0)
  <2> SUFFICES ASSUME NEW m \in Nat, m < 1 PROVE Len(temp[m]) <= 0
    BY DEF ShortBelow
  <2>1. m = 0
    OBVIOUS
  <2>2. temp[m] = <<>>
    <3>1. m \in Nat /\ m = 0
      BY <2>1
    <3> QED BY ONLY <3>1, TempIs
  <2> QED BY <2>2
<1>2. ASSUME NEW m \in Nat, NEW b \in Nat, m \div 65536 < b PROVE m < 65536 * b
  BY <1>2
<1>3. PICK two : two = 65536 * 65536
  OBVIOUS
<1>4. PICK three : three = 65536 * two
  OBVIOUS
<1>5. PICK four : four = 65536 * three
  OBVIOUS
<1>6. two \in Nat /\ three \in Nat /\ four \in Nat
  BY <1>3, <1>4, <1>5
<1>7. ShortBelow(65536, 5)
  <2>1. 65536 * 1 = 65536 /\ 0 + 5 = 5
    OBVIOUS
  <2>2. ShortBelow(65536 * 1, 0 + 5)
    BY <1>1, FiveDigitsMore
  <2> QED BY ONLY <2>1, <2>2
<1>8. ShortBelow(two, 10)
  <2>1. ShortBelow(65536 * 65536, 5 + 5)
    BY <1>7, FiveDigitsMore
  <2> QED BY ONLY <1>3, <2>1
<1>9. ShortBelow(three, 15)
  <2>1. ShortBelow(65536 * two, 10 + 5)
    BY <1>6, <1>8, FiveDigitsMore
  <2> QED BY ONLY <1>4, <2>1
<1>10. ShortBelow(four, 20)
  <2>1. ShortBelow(65536 * three, 15 + 5)
    BY <1>6, <1>9, FiveDigitsMore
  <2> QED BY ONLY <1>5, <2>1
<1>11. n < four
  <2>1. PICK high : high = n \div 65536
    OBVIOUS
  <2>2. PICK higher : higher = high \div 65536
    OBVIOUS
  <2>3. high \in Nat
    BY <2>1
  <2>4. higher \in Nat
    BY <2>2, <2>3
  <2>5. higher \div 65536 < 65536
    BY ONLY ((n \div 65536) \div 65536) \div 65536 < 65536, <2>1, <2>2
  <2>6. higher < two
    BY <1>2, <1>3, <2>4, <2>5
  <2>7. high < three
    BY <1>2, <1>4, <1>6, <2>2, <2>3, <2>6
  <2> QED BY <1>2, <1>5, <1>6, <2>1, <2>7
<1> QED BY ONLY n \in Nat, <1>10, <1>11 DEF ShortBelow

\* No number but 0 begins with a zero.
LEMMA NoZeroFirst ==
    ASSUME NEW value \in Nat, value # 0
    PROVE  Len(temp[value]) > 0 /\ temp[value][Len(temp[value])] # "0"
<1> DEFINE F == {n \in Nat : n # 0 => Len(temp[n]) > 0 /\ temp[n][Len(temp[n])] # "0"}
<1>1. ASSUME NEW n \in Nat, \A m \in Nat : m < n => m \in F PROVE n \in F
  <2> SUFFICES ASSUME n # 0 PROVE Len(temp[n]) > 0 /\ temp[n][Len(temp[n])] # "0"
    OBVIOUS
  <2>1. n \div 10 \in Nat /\ n \div 10 < n /\ (n % 10) + 1 \in 1 .. 10
    OBVIOUS
  <2> DEFINE last == Digit[(n % 10) + 1]
             rest == temp[n \div 10]
  <2>2. temp[n] = <<last>> \o rest
    BY TempIs
  <2>3. last \in Digits /\ rest \in Seq(Digits)
    BY <2>1, DigitIs, TempIs
  <2>4. n \div 10 = 0 => rest = <<>> /\ last # "0"
    <3> SUFFICES ASSUME n \div 10 = 0 PROVE rest = <<>> /\ last # "0"
      OBVIOUS
    <3>1. (n % 10) + 1 # 1
      OBVIOUS
    <3>2. last # "0"
      BY <2>1, <3>1, DigitIs
    <3> QED BY <3>2, TempIs
  <2>5. n \div 10 # 0 => Len(rest) > 0 /\ rest[Len(rest)] # "0"
    BY <1>1, <2>1
  <2> HIDE DEF last, rest
  <2>6. CASE n \div 10 = 0
    <3>1. temp[n] = <<last>>
      BY <2>2, <2>4, <2>6
    <3>2. Len(<<last>>) = 1 /\ <<last>>[1] = last
      OBVIOUS
    <3> QED BY <2>4, <2>6, <3>1, <3>2
  <2>7. CASE n \div 10 # 0
    <3>1. Len(rest) \in Nat /\ Len(rest) > 0 /\ rest[Len(rest)] # "0"
      BY <2>3, <2>5, <2>7
    <3>2. Len(<<last>> \o rest) = 1 + Len(rest) /\ (<<last>> \o rest)[1 + Len(rest)] = rest[Len(rest)]
      BY ONLY <2>3, <3>1
    <3> QED BY ONLY <2>2, <3>1, <3>2
  <2> QED BY <2>6, <2>7
<1>2. Nat \subseteq F
  <2> HIDE DEF F
  <2> QED BY <1>1, NumberInduction
<1> QED BY <1>2

-----------------------------------------------------------------------------
(* The number that a text stands for. *)

\* The value of a digit, and of a text, the most significant digit first.
digit(c) == (CHOOSE d \in 1 .. 10 : Digit[d] = c) - 1
Value(text) == FoldLeft(LAMBDA value, c : 10 * value + digit(c), 0, text)

\* A digit stands for its place.
LEMMA DigitAt ==
    /\ \A d \in 1 .. 10 : digit(Digit[d]) = d - 1
    /\ \A c \in Digits : digit(c) \in 0 .. 9
<1>1. ASSUME NEW d \in 1 .. 10 PROVE digit(Digit[d]) = d - 1
  <2>1. PICK c : c = CHOOSE e \in 1 .. 10 : Digit[e] = Digit[d]
    OBVIOUS
  <2>2. c \in 1 .. 10 /\ Digit[c] = Digit[d]
    BY <2>1
  <2>3. c = d
    BY <2>2, DigitIs
  <2> QED BY <2>1, <2>3 DEF digit
<1>2. ASSUME NEW c \in Digits PROVE digit(c) \in 0 .. 9
  <2>1. PICK d \in 1 .. 10 : Digit[d] = c
    BY DigitIs
  <2>2. digit(c) = d - 1
    BY <1>1, <2>1
  <2> QED BY <2>2
<1> QED BY <1>1, <1>2

\* The last of the numbers up to k.
LEMMA LastUpTo ==
    ASSUME NEW k \in Nat, k > 0
    PROVE  Max(1 .. k) = k /\ (1 .. k) \ {Max(1 .. k)} = 1 .. (k - 1)
<1>1. k \in 1 .. k /\ \A j \in 1 .. k : k >= j
  OBVIOUS
<1>2. PICK m : m = CHOOSE x \in 1 .. k : \A y \in 1 .. k : x >= y
  OBVIOUS
<1>3. m \in 1 .. k /\ \A j \in 1 .. k : m >= j
  BY <1>1, <1>2
<1>4. m = k
  BY <1>1, <1>3
<1>5. Max(1 .. k) = k
  BY <1>2, <1>4 DEF Max
<1> QED BY <1>5

\* f has at each set of places the number that the characters there make.
Reads(f, text) ==
    f = [S \in SUBSET DOMAIN text |->
            IF S = {} THEN 0 ELSE 10 * f[S \ {Max(S)}] + digit(text[Max(S)])]

\* A finite set of numbers that has any has a last one.
LEMMA LastOf ==
    ASSUME NEW n \in Nat, NEW S \in SUBSET (1 .. n), S # {}
    PROVE  Max(S) \in S
<1> DEFINE F == {k \in Nat : \E s \in S : s + k = n}
<1>1. PICK s \in S : TRUE
  OBVIOUS
<1>2. n - s \in F
  OBVIOUS
<1>3. PICK k \in F : \A j \in F : k <= j
  <2>1. F \in SUBSET Nat /\ F # {}
    BY <1>2
  <2> HIDE DEF F
  <2> QED BY <2>1, LeastNumber
<1>4. PICK last \in S : last + k = n
  BY <1>3
<1>5. \A t \in S : last >= t
  <2> SUFFICES ASSUME NEW t \in S PROVE last >= t
    OBVIOUS
  <2>1. n - t \in F
    OBVIOUS
  <2>2. k <= n - t
    BY <1>3, <2>1
  <2> QED BY <1>4, <2>2
<1>6. Max(S) = CHOOSE x \in S : \A y \in S : x >= y
  BY DEF Max
<1> QED BY <1>5, <1>6, Zenon

\* What a text reads as at each set of its places exists.
LEMMA ReadsExists ==
    ASSUME NEW text \in Seq(Digits)
    PROVE  \E f \in [SUBSET DOMAIN text -> Nat] : Reads(f, text)
<1> DEFINE D == SUBSET DOMAIN text
           rank == [S \in D |-> Cardinality(S)]
           down == [S \in D |-> S \ {Max(S)}]
           base == [S \in D |-> 0]
           step == [p \in D \X Nat |-> IF p[1] = {} THEN 0 ELSE 10 * p[2] + digit(text[Max(p[1])])]
<1>1. DOMAIN text = 1 .. Len(text) /\ Len(text) \in Nat
  OBVIOUS
<1>2. \A S \in D : S # {} => Max(S) \in S
  BY <1>1, LastOf
<1>3. \A S \in D : IsFiniteSet(S) /\ Cardinality(S) \in Nat /\ (Cardinality(S) = 0 <=> S = {})
  <2> SUFFICES ASSUME NEW S \in D
               PROVE  IsFiniteSet(S) /\ Cardinality(S) \in Nat /\ (Cardinality(S) = 0 <=> S = {})
    OBVIOUS
  <2>1. IsFiniteSet(1 .. Len(text))
    BY <1>1, FS_Interval
  <2>2. IsFiniteSet(S)
    BY <1>1, <2>1, FS_Subset
  <2>3. Cardinality(S) \in Nat /\ (Cardinality(S) = 0 <=> S = {})
    BY <2>2, FS_CardinalityType, FS_EmptySet
  <2> QED BY <2>2, <2>3
<1>4. \A S \in D : S # {} => Cardinality(S \ {Max(S)}) = Cardinality(S) - 1
  BY <1>2, <1>3, FS_RemoveElement
<1>5. rank \in [D -> Nat] /\ down \in [D -> D]
  BY <1>3
<1>6. base \in [D -> Nat]
  OBVIOUS
<1>7. \A S \in D : S # {} => digit(text[Max(S)]) \in Nat
  <2> SUFFICES ASSUME NEW S \in D, S # {} PROVE digit(text[Max(S)]) \in Nat
    OBVIOUS
  <2>1. Max(S) \in DOMAIN text
    BY <1>2
  <2>2. text[Max(S)] \in Digits
    BY <2>1
  <2> QED BY <2>2, DigitAt
<1>8. step \in [D \X Nat -> Nat]
  <2>1. ASSUME NEW p \in D \X Nat
        PROVE  (IF p[1] = {} THEN 0 ELSE 10 * p[2] + digit(text[Max(p[1])])) \in Nat
    <3>1. p[1] \in D /\ p[2] \in Nat
      OBVIOUS
    <3>2. p[1] # {} => digit(text[Max(p[1])]) \in Nat
      BY <1>7, <3>1
    <3> QED BY <3>1, <3>2
  <2> QED BY <2>1
<1>9. \A S \in D : rank[S] # 0 => rank[down[S]] < rank[S]
  BY <1>3, <1>4
<1>10. /\ \A S \in D : (rank[S] = 0 <=> S = {}) /\ base[S] = 0 /\ down[S] = S \ {Max(S)}
       /\ \A S \in D, v \in Nat : S # {} => step[<<S, v>>] = 10 * v + digit(text[Max(S)])
  BY <1>3
<1>11. Descends(D, Nat, rank, down, base, step)
  <2> HIDE DEF D, rank, down, base, step
  <2> QED BY <1>5, <1>6, <1>8, <1>9 DEF Descends
<1>12. PICK f \in [D -> Nat] : \A S \in D :
          f[S] = IF rank[S] = 0 THEN base[S] ELSE step[<<S, f[down[S]]>>]
  <2> HIDE DEF D, rank, down, base, step
  <2> QED BY <1>11, RecursionSolved
<1>13. \A S \in D : f[S] = IF S = {} THEN 0 ELSE 10 * f[S \ {Max(S)}] + digit(text[Max(S)])
  <2> SUFFICES ASSUME NEW S \in D
               PROVE  f[S] = IF S = {} THEN 0 ELSE 10 * f[S \ {Max(S)}] + digit(text[Max(S)])
    OBVIOUS
  <2>1. down[S] \in D /\ f[down[S]] \in Nat
    BY <1>5
  <2> HIDE DEF D, rank, down, base, step
  <2>2. CASE S = {}
    BY <1>10, <1>12, <2>2
  <2>3. CASE S # {}
    <3>1. f[S] = step[<<S, f[S \ {Max(S)}]>>]
      <4>1. rank[S] # 0 /\ down[S] = S \ {Max(S)}
        BY <1>10, <2>3
      <4>2. f[S] = step[<<S, f[down[S]]>>]
        BY <1>12, <4>1
      <4> QED BY ONLY <4>1, <4>2
    <3>2. f[S \ {Max(S)}] \in Nat
      BY <1>10, <2>1
    <3>3. step[<<S, f[S \ {Max(S)}]>>] = 10 * f[S \ {Max(S)}] + digit(text[Max(S)])
      BY <1>10, <2>3, <3>2
    <3> QED BY <2>3, <3>1, <3>3
  <2> QED BY <2>2, <2>3
<1>14. f = [S \in SUBSET DOMAIN text |->
               IF S = {} THEN 0 ELSE 10 * f[S \ {Max(S)}] + digit(text[Max(S)])]
  BY <1>13
<1>15. f \in [SUBSET DOMAIN text -> Nat]
  OBVIOUS
<1> HIDE DEF D, rank, down, base, step
<1> QED BY <1>14, <1>15 DEF Reads

\* What a text reads as is what it reads as at all its places.
LEMMA ValueIsRead ==
    ASSUME NEW text
    PROVE  Value(text) = (CHOOSE f : Reads(f, text))[DOMAIN text]
BY DEF Value, Reads, FoldLeft, MapThenFoldSet

\* What a text reads as up to each place.
LEMMA ReadsUpTo ==
    ASSUME NEW text \in Seq(Digits), NEW f, Reads(f, text)
    PROVE  /\ f[{}] = 0
           /\ \A k \in 1 .. Len(text) : f[1 .. k] = 10 * f[1 .. (k - 1)] + digit(text[k])
<1>1. PICK g : g = [S \in SUBSET DOMAIN text |->
                      IF S = {} THEN 0 ELSE 10 * f[S \ {Max(S)}] + digit(text[Max(S)])]
  OBVIOUS
<1>2. f = g
  BY <1>1 DEF Reads
<1>3. \A S \in SUBSET DOMAIN text :
          g[S] = IF S = {} THEN 0 ELSE 10 * f[S \ {Max(S)}] + digit(text[Max(S)])
  BY ONLY <1>1, Zenon
<1>4. \A S \in SUBSET DOMAIN text :
          f[S] = IF S = {} THEN 0 ELSE 10 * f[S \ {Max(S)}] + digit(text[Max(S)])
  BY ONLY <1>2, <1>3, Zenon
<1>5. f[{}] = 0
  BY <1>4
<1>6. ASSUME NEW k \in 1 .. Len(text)
      PROVE  f[1 .. k] = 10 * f[1 .. (k - 1)] + digit(text[k])
  <2>1. k \in Nat /\ k > 0 /\ 1 .. k \in SUBSET DOMAIN text /\ 1 .. k # {}
    <3>1. DOMAIN text = 1 .. Len(text) /\ Len(text) \in Nat
      OBVIOUS
    <3>2. k \in Nat /\ k > 0 /\ k <= Len(text)
      BY <3>1
    <3>3. 1 .. k \subseteq 1 .. Len(text)
      BY ONLY <3>1, <3>2
    <3>4. 1 \in 1 .. k
      BY ONLY <3>2
    <3> QED BY <3>1, <3>2, <3>3, <3>4
  <2>2. f[1 .. k] = 10 * f[(1 .. k) \ {Max(1 .. k)}] + digit(text[Max(1 .. k)])
    BY ONLY <1>4, <2>1, Zenon
  <2>3. Max(1 .. k) = k /\ (1 .. k) \ {Max(1 .. k)} = 1 .. (k - 1)
    BY ONLY <2>1, LastUpTo
  <2> QED BY ONLY <2>2, <2>3
<1> QED BY <1>5, <1>6

\* Two texts that begin alike read alike up to there.
LEMMA ReadsAlike ==
    ASSUME NEW s \in Seq(Digits), NEW t \in Seq(Digits), NEW f, NEW g, NEW n,
           Reads(f, s), Reads(g, t), BeginAlike(s, t, n)
    PROVE  \A k \in 0 .. n : f[1 .. k] = g[1 .. k] /\ f[1 .. k] \in Nat
<1>1. /\ Len(s) \in Nat /\ Len(t) \in Nat /\ n \in Nat /\ n <= Len(s) /\ n <= Len(t)
      /\ \A i \in 1 .. n : s[i] = t[i]
  BY DEF BeginAlike
<1>2. /\ f[{}] = 0
      /\ \A k \in 1 .. Len(s) : f[1 .. k] = 10 * f[1 .. (k - 1)] + digit(s[k])
  BY ReadsUpTo
<1>3. /\ g[{}] = 0
      /\ \A k \in 1 .. Len(t) : g[1 .. k] = 10 * g[1 .. (k - 1)] + digit(t[k])
  BY ReadsUpTo
<1> DEFINE F == {k \in Nat : k \in 0 .. n => f[1 .. k] = g[1 .. k] /\ f[1 .. k] \in Nat}
<1>4. ASSUME NEW k \in Nat, \A j \in Nat : j < k => j \in F PROVE k \in F
  <2> SUFFICES ASSUME k \in 0 .. n PROVE f[1 .. k] = g[1 .. k] /\ f[1 .. k] \in Nat
    OBVIOUS
  <2>1. CASE k = 0
    <3>1. 1 .. k = {}
      BY ONLY <2>1
    <3> QED BY ONLY <1>2, <1>3, <3>1
  <2>2. CASE k # 0
    <3>1. k - 1 \in Nat /\ k - 1 < k /\ k - 1 \in 0 .. n /\ k \in 1 .. n
          /\ k \in 1 .. Len(s) /\ k \in 1 .. Len(t)
      BY <1>1, <2>2
    <3>2. k - 1 \in F
      BY <1>4, <3>1
    <3>3. f[1 .. (k - 1)] = g[1 .. (k - 1)] /\ f[1 .. (k - 1)] \in Nat
      BY <3>1, <3>2
    <3>4. f[1 .. k] = 10 * f[1 .. (k - 1)] + digit(s[k])
      BY ONLY <1>2, <3>1
    <3>5. g[1 .. k] = 10 * g[1 .. (k - 1)] + digit(t[k])
      BY ONLY <1>3, <3>1
    <3>6. s[k] = t[k] /\ s[k] \in Digits
      BY <1>1, <3>1
    <3>7. digit(s[k]) \in Nat
      <4>1. digit(s[k]) \in 0 .. 9
        BY ONLY <3>6, DigitAt, Zenon
      <4> QED BY ONLY <4>1
    <3> HIDE DEF F
    <3>8. f[1 .. k] = g[1 .. k]
      BY ONLY <3>3, <3>4, <3>5, <3>6
    <3>9. 10 * f[1 .. (k - 1)] + digit(s[k]) \in Nat
      BY ONLY <3>3, <3>7
    <3> QED BY ONLY <3>4, <3>8, <3>9
  <2> QED BY <2>1, <2>2
<1>5. Nat \subseteq F
  <2> HIDE DEF F
  <2> QED BY <1>4, NumberInduction
<1> QED BY <1>1, <1>5

\* The value of a text is what some reading of it comes to at its end.
LEMMA ValueAtEnd ==
    ASSUME NEW text \in Seq(Digits)
    PROVE  \E f : Reads(f, text) /\ Value(text) = f[1 .. Len(text)]
<1>1. PICK g : Reads(g, text)
  BY ReadsExists
<1>2. PICK f : f = CHOOSE h : Reads(h, text)
  OBVIOUS
<1>3. Reads(f, text)
  BY ONLY <1>1, <1>2, Zenon
<1>4. Value(text) = f[DOMAIN text] /\ DOMAIN text = 1 .. Len(text)
  BY <1>2, ValueIsRead
<1> QED BY <1>3, <1>4

\* One more digit makes a number ten times as large, and that digit.
LEMMA ValueAppend ==
    ASSUME NEW text \in Seq(Digits), NEW c \in Digits
    PROVE  /\ Value(text) \in Nat
           /\ Value(Append(text, c)) = 10 * Value(text) + digit(c)
<1>1. PICK f : Reads(f, text) /\ Value(text) = f[1 .. Len(text)]
  BY ValueAtEnd
<1>2. PICK more : more = Append(text, c)
  OBVIOUS
<1>3. PICK n : n = Len(text)
  OBVIOUS
<1>4. /\ more \in Seq(Digits) /\ Len(more) = n + 1 /\ more[n + 1] = c /\ n \in Nat
      /\ \A i \in 1 .. n : more[i] = text[i]
  BY <1>2, <1>3
<1>5. PICK g : Reads(g, more) /\ Value(more) = g[1 .. Len(more)]
  BY <1>4, ValueAtEnd
<1>6. BeginAlike(text, more, n)
  BY <1>3, <1>4 DEF BeginAlike
<1>7. f[1 .. n] = g[1 .. n] /\ f[1 .. n] \in Nat
  <2>1. \A k \in 0 .. n : f[1 .. k] = g[1 .. k] /\ f[1 .. k] \in Nat
    BY <1>1, <1>4, <1>5, <1>6, ReadsAlike
  <2>2. n \in 0 .. n
    BY <1>4
  <2> QED BY ONLY <2>1, <2>2
<1>8. g[1 .. (n + 1)] = 10 * g[1 .. n] + digit(c)
  <2>1. n + 1 \in 1 .. Len(more) /\ (n + 1) - 1 = n
    BY <1>4
  <2>2. \A k \in 1 .. Len(more) : g[1 .. k] = 10 * g[1 .. (k - 1)] + digit(more[k])
    BY <1>4, <1>5, ReadsUpTo
  <2>3. PICK k : k = n + 1
    OBVIOUS
  <2>4. k \in 1 .. Len(more) /\ k - 1 = n /\ more[k] = c
    BY <1>4, <2>1, <2>3
  <2>5. g[1 .. k] = 10 * g[1 .. n] + digit(c)
    BY ONLY <2>2, <2>4
  <2> QED BY ONLY <2>3, <2>5
<1>9. Value(more) = 10 * Value(text) + digit(c)
  BY ONLY <1>1, <1>3, <1>4, <1>5, <1>7, <1>8
<1> QED BY ONLY <1>1, <1>2, <1>3, <1>7, <1>9

\* No text is the number 0.
LEMMA ValueOfNone == Value(<<>>) = 0
<1>1. PICK none : none = <<>>
  OBVIOUS
<1>2. none \in Seq(Digits) /\ 1 .. Len(none) = {}
  BY <1>1
<1>3. PICK f : Reads(f, none) /\ Value(none) = f[1 .. Len(none)]
  BY ONLY <1>2, ValueAtEnd
<1>4. f[{}] = 0
  BY ONLY <1>2, <1>3, ReadsUpTo
<1> QED BY ONLY <1>1, <1>2, <1>3, <1>4

\* The digits of a number, the last one last, stand for it.
LEMMA ValueOfDigits ==
    ASSUME NEW value \in Nat
    PROVE  Value(Reverse(temp[value])) = value
<1> DEFINE F == {n \in Nat : Value(Reverse(temp[n])) = n}
<1>1. ASSUME NEW n \in Nat, \A m \in Nat : m < n => m \in F PROVE n \in F
  <2>1. CASE n = 0
    <3>1. temp[n] = <<>>
      BY <2>1, TempIs
    <3>2. Reverse(<<>>) = <<>>
      BY DEF Reverse
    <3>3. Value(Reverse(temp[n])) = n
      BY ONLY <2>1, <3>1, <3>2, ValueOfNone
    <3> QED BY <3>3
  <2>2. CASE n # 0
    <3>1. n \div 10 \in Nat /\ n \div 10 < n /\ (n % 10) + 1 \in 1 .. 10
          /\ 10 * (n \div 10) + (n % 10) = n
      BY <2>2
    <3>2. PICK rest : rest = temp[n \div 10]
      OBVIOUS
    <3>3. PICK last : last = Digit[(n % 10) + 1]
      OBVIOUS
    <3>4. rest \in Seq(Digits) /\ last \in Digits /\ digit(last) = n % 10
      <4>1. rest \in Seq(Digits)
        BY <3>1, <3>2, TempIs
      <4>2. last \in Digits
        BY <3>1, <3>3, DigitIs
      <4>3. PICK d : d = (n % 10) + 1
        OBVIOUS
      <4>4. d \in 1 .. 10 /\ d - 1 = n % 10 /\ last = Digit[d]
        BY <3>1, <3>3, <4>3
      <4>5. digit(last) = n % 10
        BY ONLY <4>4, DigitAt
      <4> QED BY <4>1, <4>2, <4>5
    <3>5. temp[n] = <<last>> \o rest
      BY <2>2, <3>2, <3>3, TempIs
    <3>6. Reverse(rest) \in Seq(Digits) /\ Reverse(<<last>> \o rest) = Append(Reverse(rest), last)
      BY ONLY <3>4 DEF Reverse
    <3>7. Value(Reverse(rest)) = n \div 10
      BY <1>1, <3>1, <3>2
    <3>8. Value(Append(Reverse(rest), last)) = 10 * Value(Reverse(rest)) + digit(last)
      BY <3>4, <3>6, ValueAppend
    <3>9. Value(Reverse(temp[n])) = n
      BY ONLY <3>1, <3>4, <3>5, <3>6, <3>7, <3>8
    <3> QED BY <3>9
  <2> QED BY <2>1, <2>2
<1>2. Nat \subseteq F
  <2> HIDE DEF F
  <2> QED BY <1>1, NumberInduction
<1> QED BY <1>2

-----------------------------------------------------------------------------
(* The buffer. *)

\* What uint64_to_string leaves of a value: its digits turned round, or "0".
Text(value) == IF value = 0 THEN <<"0">> ELSE Reverse(temp[value])

\* The text of a number of 64 bits fits the buffer with its mark, and reads as
\* the number.
LEMMA TextIs ==
    ASSUME NEW value \in Numbers
    PROVE  /\ Text(value) \in Seq(Digits) /\ Len(Text(value)) \in 1 .. BUFFER_SIZE - 1
           /\ Len(Text(value)) > 1 => Text(value)[1] # "0"
           /\ Value(Text(value)) = value
<1>1. value \in Nat /\ ((value \div 65536) \div 65536) \div 65536 < 65536
  BY ConsoleAssumption
<1>a. BUFFER_SIZE - 1 = 31
  BY DEF BUFFER_SIZE
<1>b. value \in Nat
  BY <1>1
<1>2. CASE value = 0
  <2>1. PICK none : none = <<>>
    OBVIOUS
  <2>2. none \in Seq(Digits) /\ "0" \in Digits /\ Append(none, "0") = <<"0">>
    BY <2>1 DEF Digits
  <2>3. digit("0") = 0
    <3>1. "0" = Digit[1] /\ 1 \in 1 .. 10 /\ 1 - 1 = 0
      BY DEF Digit
    <3> QED BY ONLY <3>1, DigitAt
  <2>4. Value(Append(none, "0")) = 10 * Value(none) + digit("0")
    BY ONLY <2>2, ValueAppend
  <2>5. Value(<<"0">>) = 0
    BY ONLY <2>1, <2>2, <2>3, <2>4, ValueOfNone
  <2>6. Text(value) = <<"0">>
    BY <1>2 DEF Text
  <2>7. Len(<<"0">>) = 1 /\ 1 \in 1 .. BUFFER_SIZE - 1
    BY <1>a
  <2>8. <<"0">> \in Seq(Digits)
    BY <2>2
  <2>9. Len(Text(value)) = 1
    BY <2>6, <2>7
  <2>10. Value(Text(value)) = value
    BY ONLY <1>2, <2>5, <2>6
  <2>11. ~ (1 > 1)
    OBVIOUS
  <2> QED BY ONLY <2>6, <2>7, <2>8, <2>9, <2>10, <2>11
<1>3. CASE value # 0
  <2>1. PICK digits : digits = temp[value]
    OBVIOUS
  <2>2. digits \in Seq(Digits) /\ Len(digits) \in Nat
    <3>1. digits \in Seq(Digits)
      BY ONLY <1>b, <2>1, TempIs
    <3> QED BY ONLY <3>1
  <2>3. Len(digits) <= 20
    BY <1>1, <2>1, TwentyDigits
  <2>4. Len(digits) > 0 /\ digits[Len(digits)] # "0"
    BY <1>1, <1>3, <2>1, NoZeroFirst
  <2>5. /\ Reverse(digits) \in Seq(Digits) /\ Len(Reverse(digits)) = Len(digits)
        /\ Reverse(digits)[1] = digits[Len(digits)]
    BY ONLY <2>2, <2>4 DEF Reverse
  <2>6. Text(value) = Reverse(digits) /\ Value(Reverse(digits)) = value
    BY <1>1, <1>3, <2>1, ValueOfDigits DEF Text
  <2>7. Len(digits) \in 1 .. BUFFER_SIZE - 1
    BY ONLY <1>a, <2>2, <2>3, <2>4
  <2> QED BY ONLY <2>4, <2>5, <2>6, <2>7
<1> QED BY <1>2, <1>3

\* strlen finds the first NUL, and never looks past the buffer.
LEMMA StrlenIs ==
    ASSUME NEW str
    PROVE  /\ strlen(str) \in 0 .. BUFFER_SIZE
           /\ \A n \in 0 .. BUFFER_SIZE - 1 :
                 str[n] = NUL /\ (\A i \in 0 .. n - 1 : str[i] # NUL) => strlen(str) = n
<1> DEFINE Is(n) == (n < BUFFER_SIZE => str[n] = NUL) /\ \A i \in 0 .. n - 1 : str[i] # NUL
<1>1. BUFFER_SIZE = 32
  BY DEF BUFFER_SIZE
<1>2. \E n \in 0 .. BUFFER_SIZE : Is(n)
  <2> DEFINE Ends == {n \in Nat : n <= 32 /\ (n < 32 => str[n] = NUL)}
  <2>1. Ends \in SUBSET Nat /\ 32 \in Ends
    OBVIOUS
  <2>2. PICK n \in Ends : \A m \in Ends : n <= m
    <3> HIDE DEF Ends
    <3> QED BY <2>1, LeastNumber
  <2>3. n \in 0 .. 32 /\ (n < 32 => str[n] = NUL)
    OBVIOUS
  <2>4. ASSUME NEW i \in 0 .. n - 1 PROVE str[i] # NUL
    <3> SUFFICES ASSUME str[i] = NUL PROVE FALSE
      OBVIOUS
    <3>1. i \in Ends
      BY <2>3
    <3> QED BY <2>2, <2>3, <3>1
  <2> QED BY <1>1, <2>3, <2>4
<1>3. PICK k : k = strlen(str)
  OBVIOUS
<1>4. k = CHOOSE n \in 0 .. BUFFER_SIZE : Is(n)
  BY <1>3 DEF strlen
<1>5. k \in 0 .. BUFFER_SIZE /\ Is(k)
  <2> HIDE DEF Is
  <2> QED BY <1>2, <1>4
<1>6. ASSUME NEW n \in 0 .. BUFFER_SIZE - 1, str[n] = NUL, \A i \in 0 .. n - 1 : str[i] # NUL
      PROVE  k = n
  <2>1. k \in Nat /\ n \in Nat /\ n < 32 /\ k <= 32
    BY <1>1, <1>5
  <2>2. ~ (k < n)
    <3> SUFFICES ASSUME k < n PROVE FALSE
      OBVIOUS
    <3>1. k \in 0 .. n - 1 /\ k < BUFFER_SIZE
      BY <1>1, <2>1
    <3> QED BY <1>5, <1>6, <3>1
  <2>3. ~ (n < k)
    <3> SUFFICES ASSUME n < k PROVE FALSE
      OBVIOUS
    <3>1. n \in 0 .. k - 1
      BY <2>1
    <3> QED BY <1>5, <1>6, <3>1
  <2> QED BY ONLY <2>1, <2>2, <2>3
<1> QED BY <1>3, <1>5, <1>6

\* What the buffer holds, and what has been put there last.
Held == Digits \union {NUL, "?"}
BufferInv ==
    /\ buffer \in [0 .. BUFFER_SIZE - 1 -> Held]
    /\ number # NoNumber =>
          /\ number \in Numbers
          /\ \A i \in 1 .. Len(Text(number)) : buffer[i - 1] = Text(number)[i]
          /\ buffer[Len(Text(number))] = NUL

\* A buffer that holds the text of the number, closed by NUL, reads as it.
LEMMA BufferReadable == BufferInv => NumberReadable
<1> SUFFICES ASSUME BufferInv, number # NoNumber PROVE NumberReadable
  BY DEF NumberReadable
<1>1. PICK text : text = Text(number)
  OBVIOUS
<1>2. PICK n : n = Len(text)
  OBVIOUS
<1>3. /\ text \in Seq(Digits) /\ n \in 1 .. BUFFER_SIZE - 1 /\ (n > 1 => text[1] # "0")
      /\ Value(text) = number
  BY <1>1, <1>2, TextIs DEF BufferInv
<1>4. (\A i \in 1 .. n : buffer[i - 1] = text[i]) /\ buffer[n] = NUL
  BY <1>1, <1>2 DEF BufferInv
<1>5. BUFFER_SIZE = 32 /\ n \in Nat /\ n > 0 /\ n < 32
  <2>1. BUFFER_SIZE = 32
    BY DEF BUFFER_SIZE
  <2> QED BY <1>3, <2>1
<1>6. \A i \in 0 .. n - 1 : buffer[i] # NUL
  <2> SUFFICES ASSUME NEW i \in 0 .. n - 1 PROVE buffer[i] # NUL
    OBVIOUS
  <2>1. PICK j : j = i + 1
    OBVIOUS
  <2>2. j \in 1 .. n /\ j - 1 = i
    BY ONLY <1>5, <2>1, i \in 0 .. n - 1
  <2>3. buffer[i] = text[j]
    BY ONLY <1>4, <2>2
  <2>4. text[j] \in Digits
    BY ONLY <1>2, <1>3, <2>2
  <2>5. NUL \notin Digits
    BY DEF NUL, Digits
  <2> QED BY ONLY <2>3, <2>4, <2>5
<1>7. strlen(buffer) = n
  <2>1. n \in 0 .. BUFFER_SIZE - 1
    BY <1>5
  <2> QED BY ONLY <1>4, <1>6, <2>1, StrlenIs
<1>8. [i \in 1 .. strlen(buffer) |-> buffer[i - 1]] = text
  <2>1. text = [i \in 1 .. n |-> text[i]]
    BY ONLY <1>2, <1>3
  <2>2. [i \in 1 .. n |-> buffer[i - 1]] = [i \in 1 .. n |-> text[i]]
    BY ONLY <1>4
  <2> QED BY ONLY <1>7, <2>1, <2>2
<1>9. number = FoldLeft(LAMBDA value, c :
                    10 * value + ((CHOOSE d \in 1 .. 10 : Digit[d] = c) - 1), 0, text)
  BY <1>3 DEF Value, digit
<1> QED BY <1>2, <1>3, <1>8, <1>9 DEF NumberReadable

\* What is written is the digits and their mark.
LEMMA ToBufferIs ==
    ASSUME NEW value, ToBuffer(value)
    PROVE  Into(Append(Text(value), NUL))
<1>1. PICK zero : zero = "0"
  OBVIOUS
<1>2. Append(<<zero>>, NUL) = <<zero, NUL>>
  <2>1. zero \in Held /\ NUL \in Held
    BY <1>1 DEF Held, Digits
  <2>2. PICK mark : mark = NUL
    OBVIOUS
  <2>3. /\ <<zero>> \in Seq(Held) /\ <<zero, mark>> \in Seq(Held)
        /\ Len(<<zero>>) = 1 /\ Len(<<zero, mark>>) = 2 /\ <<zero>>[1] = zero
        /\ <<zero, mark>>[1] = zero /\ <<zero, mark>>[2] = mark
    BY ONLY <2>1, <2>2
  <2>4. /\ Append(<<zero>>, mark) \in Seq(Held) /\ Len(Append(<<zero>>, mark)) = 2
        /\ Append(<<zero>>, mark)[1] = zero /\ Append(<<zero>>, mark)[2] = mark
    BY <2>1, <2>2, <2>3, AppendProperties
  <2>5. \A i \in 1 .. 2 : i = 1 \/ i = 2
    OBVIOUS
  <2>6. Append(<<zero>>, mark) = <<zero, mark>>
    BY ONLY <2>3, <2>4, <2>5, SeqEqual
  <2> QED BY <2>2, <2>6
<1>3. CASE value = 0
  <2>1. Text(value) = <<"0">>
    BY <1>3 DEF Text
  <2>2. Into(<<"0", NUL>>)
    BY <1>3 DEF ToBuffer
  <2> QED BY <1>1, <1>2, <2>1, <2>2
<1>4. CASE value # 0
  BY <1>4 DEF ToBuffer, Text
<1> QED BY <1>3, <1>4

\* Whatever numbers were in the buffer, the new one is in front.
LEMMA BufferWritten ==
    ASSUME BufferInv, uint64_to_string
    PROVE  BufferInv'
<1>1. PICK value \in Numbers : ToBuffer(value) /\ number' = value
  BY DEF uint64_to_string
<1>2. PICK text : text = Text(value)
  OBVIOUS
<1>3. PICK n : n = Len(text)
  OBVIOUS
<1>4. text \in Seq(Digits) /\ n \in 1 .. BUFFER_SIZE - 1
  BY <1>2, <1>3, TextIs
<1>5. BUFFER_SIZE = 32 /\ n \in Nat /\ n > 0 /\ n < 32
  <2>1. BUFFER_SIZE = 32
    BY DEF BUFFER_SIZE
  <2> QED BY <1>4, <2>1
<1>6. PICK marked : marked = Append(text, NUL)
  OBVIOUS
<1>7. /\ Len(marked) = n + 1 /\ marked[n + 1] = NUL /\ \A i \in 1 .. n : marked[i] = text[i]
  BY <1>3, <1>4, <1>6
<1>8. Into(marked)
  BY <1>1, <1>2, <1>6, ToBufferIs
<1>9. buffer \in [0 .. 31 -> Held]
  BY <1>5 DEF BufferInv
<1>10. buffer' = [i \in 0 .. 31 |-> IF i < n + 1 THEN marked[i + 1] ELSE buffer[i]]
  BY <1>7, <1>8, <1>9 DEF Into
<1>11. \A i \in 0 .. n : buffer'[i] = marked[i + 1]
  BY ONLY <1>5, <1>10
<1>12. \A i \in 1 .. n : buffer'[i - 1] = text[i]
  <2> SUFFICES ASSUME NEW i \in 1 .. n PROVE buffer'[i - 1] = text[i]
    OBVIOUS
  <2>1. PICK j : j = i - 1
    OBVIOUS
  <2>2. j \in 0 .. n /\ j + 1 = i
    BY ONLY <1>5, <2>1, i \in 1 .. n
  <2>3. buffer'[j] = marked[i]
    BY ONLY <1>11, <2>2
  <2>4. marked[i] = text[i]
    BY ONLY <1>7, i \in 1 .. n
  <2> QED BY ONLY <2>1, <2>3, <2>4
<1>13. buffer'[n] = NUL
  BY ONLY <1>5, <1>7, <1>11
<1>14. \A i \in 1 .. n + 1 : marked[i] \in Held
  <2>1. \A i \in 1 .. n : text[i] \in Held
    <3>1. \A i \in 1 .. n : text[i] \in Digits
      BY ONLY <1>3, <1>4
    <3> QED BY <3>1 DEF Held
  <2>2. NUL \in Held
    BY DEF Held
  <2> QED BY ONLY <1>5, <1>7, <2>1, <2>2
<1>15. buffer' \in [0 .. 31 -> Held]
  <2>1. ASSUME NEW i \in 0 .. 31
        PROVE  (IF i < n + 1 THEN marked[i + 1] ELSE buffer[i]) \in Held
    <3>1. CASE i < n + 1
      BY ONLY <1>5, <1>14, <3>1, i \in 0 .. 31
    <3>2. CASE ~ (i < n + 1)
      BY ONLY <1>9, <3>2, i \in 0 .. 31
    <3> QED BY ONLY <3>1, <3>2
  <2>2. [i \in 0 .. 31 |-> IF i < n + 1 THEN marked[i + 1] ELSE buffer[i]] \in [0 .. 31 -> Held]
    BY ONLY <2>1, Zenon
  <2> QED BY ONLY <1>10, <2>2, Zenon
<1>16. Text(number') = text
  BY <1>1, <1>2
<1>17. \A v : Text(v)' = Text(v)
  BY DEF Text
<1>18. number' \in Numbers
  BY <1>1
<1>19. /\ \A i \in 1 .. Len(Text(number')) : buffer'[i - 1] = Text(number')[i]
       /\ buffer'[Len(Text(number'))] = NUL
  BY ONLY <1>3, <1>12, <1>13, <1>16
<1>20. buffer' \in [0 .. BUFFER_SIZE - 1 -> Held]
  <2>1. BUFFER_SIZE - 1 = 31
    BY <1>5
  <2> QED BY ONLY <1>15, <2>1
<1> QED BY ONLY <1>18, <1>19, <1>20 DEF BufferInv

\* Nothing else writes the buffer.
LEMMA BufferKept ==
    ASSUME BufferInv, UNCHANGED numberVars
    PROVE  BufferInv'
BY DEF BufferInv, numberVars

\* At the start no number has been put there.
LEMMA InitialBuffer == ConsoleInit => BufferInv
<1> SUFFICES ASSUME ConsoleInit PROVE BufferInv
  OBVIOUS
<1>1. buffer = [i \in 0 .. BUFFER_SIZE - 1 |-> "?"] /\ number = NoNumber
  BY DEF ConsoleInit
<1>2. "?" \in Held
  BY DEF Held
<1>3. buffer \in [0 .. BUFFER_SIZE - 1 -> Held]
  BY ONLY <1>1, <1>2, Zenon
<1> QED BY <1>1, <1>3 DEF BufferInv

\* Every step keeps the buffer readable.
LEMMA BufferStep == BufferInv /\ [ConsoleNext]_consoleVars => BufferInv'
<1> SUFFICES ASSUME BufferInv, [ConsoleNext]_consoleVars PROVE BufferInv'
  OBVIOUS
<1>1. CASE uint64_to_string
  BY <1>1, BufferWritten
<1>2. CASE ~ uint64_to_string
  <2>1. ~ UNCHANGED consoleVars => ~ serial_init \/ UNCHANGED numberVars
    BY DEF serial_init, InterruptsOff, SetDlab, DivisorLow, DivisorHigh, SetFormat, EnableFifo,
           Greet, Step
  <2>2. UNCHANGED consoleVars \/ Transmit \/ terminal_setcolor \/ serial_init \/ terminal_initialize
        \/ terminal_putchar \/ serial_putchar => UNCHANGED numberVars
    BY DEF consoleVars, Transmit, terminal_setcolor, serial_init, InterruptsOff, SetDlab,
           DivisorLow, DivisorHigh, SetFormat, EnableFifo, Greet, Step, terminal_initialize,
           terminal_putchar, serial_putchar
  <2>3. terminal_writestring \/ serial_writestring \/ WriteBuffer => UNCHANGED numberVars
    BY DEF terminal_writestring, serial_writestring, WriteBuffer, Write
  <2>4. UNCHANGED numberVars
    BY <1>2, <2>2, <2>3 DEF ConsoleNext, Kernel
  <2> QED BY <2>4, BufferKept
<1> QED BY <1>1, <1>2

\* kernel.c:7-26: whichever numbers of 64 bits have been through the buffer, it
\* reads as the last one in decimal.
THEOREM ConsoleNumberReadable == ConsoleSpec => []NumberReadable
BY InitialBuffer, BufferStep, BufferReadable, PTL DEF ConsoleSpec

-----------------------------------------------------------------------------
(* The line. *)

\* What goes out for a string.
Sent(string) == FlattenSeq([i \in 1 .. Len(string) |-> Characters(string[i])])

\* All that a string, the greeting or the port adds.
Signs == Chars \union Digits \union {NUL, "?", LF, CR, "S"}
\* serial_initialize sends one character of its own, as its last step.
Greeting == IF pc \in {"terminal", "running"} THEN <<"S">> ELSE <<>>

\* The line, the UART and the rest of the string, in this order, are all that has
\* been printed: nothing is lost, doubled or overtaken.
LineInv ==
    /\ line \in Seq(Signs) /\ fifo \in Seq(Signs) /\ toSerial \in Seq(Signs) /\ printed \in Seq(Signs)
    /\ pc \in SetUp => line = <<>> /\ printed = <<>>
    /\ line \o fifo \o toSerial = Greeting \o Sent(printed)

\* A string's characters are sent one after the other.
LEMMA SentIs ==
    ASSUME NEW s \in Seq(Signs), NEW t \in Seq(Signs)
    PROVE  Sent(s) \in Seq(Signs) /\ Sent(s \o t) = Sent(s) \o Sent(t)
<1> DEFINE All(u) == [i \in 1 .. Len(u) |-> Characters(u[i])]
<1>1. ASSUME NEW u \in Seq(Signs) PROVE All(u) \in Seq(Seq(Signs))
  <2>1. ASSUME NEW i \in 1 .. Len(u) PROVE Characters(u[i]) \in Seq(Signs)
    <3>1. PICK c : c = u[i]
      OBVIOUS
    <3>2. c \in Signs /\ LF \in Signs /\ CR \in Signs
      BY <3>1 DEF Signs
    <3>3. <<c>> \in Seq(Signs) /\ <<CR, LF>> \in Seq(Signs)
      BY ONLY <3>2
    <3> QED BY <3>1, <3>3 DEF Characters
  <2>2. Len(u) \in Nat
    OBVIOUS
  <2> QED BY <2>1, <2>2
<1>2. All(s \o t) = All(s) \o All(t)
  <2>1. ASSUME NEW i \in 1 .. Len(s) + Len(t)
        PROVE  Characters((s \o t)[i]) =
                 IF i <= Len(s) THEN Characters(s[i]) ELSE Characters(t[i - Len(s)])
    <3>1. (s \o t)[i] = IF i <= Len(s) THEN s[i] ELSE t[i - Len(s)]
      BY ConcatProperties
    <3> QED BY <3>1
  <2>2. /\ Len(s \o t) = Len(s) + Len(t) /\ Len(s) \in Nat /\ Len(t) \in Nat
        /\ Len(All(s)) = Len(s) /\ Len(All(t)) = Len(t)
    OBVIOUS
  <2>3. All(s) \in Seq(Seq(Signs)) /\ All(t) \in Seq(Seq(Signs)) /\ All(s \o t) \in Seq(Seq(Signs))
    BY <1>1, ConcatProperties
  <2>4. /\ All(s) \o All(t) \in Seq(Seq(Signs)) /\ Len(All(s) \o All(t)) = Len(s) + Len(t)
        /\ \A i \in 1 .. Len(s) + Len(t) :
              (All(s) \o All(t))[i] = IF i <= Len(s) THEN All(s)[i] ELSE All(t)[i - Len(s)]
    <3>1. PICK one : one = All(s)
      OBVIOUS
    <3>2. PICK two : two = All(t)
      OBVIOUS
    <3>3. /\ one \in Seq(Seq(Signs)) /\ two \in Seq(Seq(Signs))
          /\ Len(one) = Len(s) /\ Len(two) = Len(t)
      BY <2>2, <2>3, <3>1, <3>2
    <3>4. /\ one \o two \in Seq(Seq(Signs)) /\ Len(one \o two) = Len(one) + Len(two)
          /\ \A i \in 1 .. Len(one) + Len(two) :
                (one \o two)[i] = IF i <= Len(one) THEN one[i] ELSE two[i - Len(one)]
      BY ONLY <3>3, ConcatProperties
    <3> HIDE DEF All
    <3> QED BY ONLY <3>1, <3>2, <3>3, <3>4
  <2>5. ASSUME NEW i \in 1 .. Len(s) + Len(t)
        PROVE  All(s \o t)[i] = (All(s) \o All(t))[i]
    <3>1. All(s \o t)[i] = Characters((s \o t)[i])
      BY <2>2
    <3>2. i <= Len(s) => All(s)[i] = Characters(s[i])
      BY <2>2
    <3>3. ~ (i <= Len(s)) => All(t)[i - Len(s)] = Characters(t[i - Len(s)])
      BY <2>2
    <3> HIDE DEF All
    <3> QED BY <2>1, <2>4, <3>1, <3>2, <3>3
  <2>6. Len(All(s \o t)) = Len(s) + Len(t)
    BY <2>2
  <2> HIDE DEF All
  <2> QED BY <2>3, <2>4, <2>5, <2>6, SeqEqual
<1>3. FlattenSeq(All(s)) \in Seq(Signs)
      /\ FlattenSeq(All(s) \o All(t)) = FlattenSeq(All(s)) \o FlattenSeq(All(t))
  <2>1. All(s) \in Seq(Seq(Signs)) /\ All(t) \in Seq(Seq(Signs))
    BY <1>1
  <2> HIDE DEF All
  <2> QED BY <2>1, FlattenConcat
<1> QED BY <1>2, <1>3 DEF Sent

\* Nothing is sent for nothing.
LEMMA SentNothing == Sent(<<>>) = <<>>
<1>1. PICK none : none = [i \in 1 .. 0 |-> Characters(<<>>[i])]
  OBVIOUS
<1>2. none = <<>>
  BY <1>1
<1>3. FlattenSeq(<<>>) = <<>>
  BY DEF FlattenSeq
<1>4. Sent(<<>>) = FlattenSeq(none)
  <2>1. Len(<<>>) = 0
    OBVIOUS
  <2> QED BY ONLY <1>1, <2>1 DEF Sent
<1> QED BY <1>2, <1>3, <1>4

\* Sequences that change hands.
LEMMA Handed ==
    ASSUME NEW X, NEW s \in Seq(X), NEW t \in Seq(X)
    PROVE  /\ t # <<>> =>
                /\ Head(t) \in X /\ Tail(t) \in Seq(X)
                /\ Append(<<>>, Head(t)) = <<Head(t)>> /\ <<Head(t)>> \o Tail(t) = t
                /\ Append(s, Head(t)) = s \o <<Head(t)>>
           /\ s \o <<>> = s /\ <<>> \o s = s
<1>1. s \o <<>> = s /\ <<>> \o s = s
  BY ConcatEmptySeq
<1>2. ASSUME t # <<>>
      PROVE  /\ Head(t) \in X /\ Tail(t) \in Seq(X)
             /\ Append(<<>>, Head(t)) = <<Head(t)>> /\ <<Head(t)>> \o Tail(t) = t
             /\ Append(s, Head(t)) = s \o <<Head(t)>>
  <2>1. Head(t) \in X /\ Tail(t) \in Seq(X)
    BY <1>2
  <2>2. Append(s, Head(t)) = s \o <<Head(t)>>
    BY <2>1, AppendIsConcat
  <2>3. PICK none : none = <<>>
    OBVIOUS
  <2>4. none \in Seq(X) /\ <<Head(t)>> \in Seq(X)
    BY <2>1, <2>3
  <2>5. Append(none, Head(t)) = none \o <<Head(t)>> /\ none \o <<Head(t)>> = <<Head(t)>>
    BY <2>1, <2>3, <2>4, AppendIsConcat, ConcatEmptySeq
  <2>6. <<Head(t)>> \o Tail(t) = t
    BY <1>2
  <2> QED BY <2>1, <2>2, <2>3, <2>5, <2>6
<1> QED BY <1>1, <1>2

\* What of the variables the line depends on, left as it is, keeps it.
LEMMA LineKept ==
    ASSUME LineInv, UNCHANGED <<line, fifo, toSerial, printed>>,
           pc' = pc \/ pc' \in SetUp \/ (pc \in Ready /\ pc' \in Ready),
           pc' \in SetUp => pc \in SetUp
    PROVE  LineInv'
BY DEF LineInv, Greeting, SetUp, Ready, Sent

\* A string is handed over to the port.
LEMMA LineWrite ==
    ASSUME LineInv, NEW string \in Seq(Signs), NEW screen, Write(string, screen), pc \in Ready
    PROVE  LineInv'
<1>1. /\ UNCHANGED <<line, fifo, pc>> /\ toSerial = <<>>
      /\ toSerial' = Sent(string) /\ printed' = printed \o string
  BY DEF Write, portVars, Sent
<1>2. /\ line \in Seq(Signs) /\ fifo \in Seq(Signs) /\ printed \in Seq(Signs)
      /\ line \o fifo \o <<>> = Greeting \o Sent(printed)
  BY <1>1 DEF LineInv
<1>3. /\ Sent(string) \in Seq(Signs) /\ Sent(printed) \in Seq(Signs)
      /\ Sent(printed \o string) = Sent(printed) \o Sent(string)
      /\ printed \o string \in Seq(Signs)
  BY <1>2, SentIs, ConcatProperties
<1>4. PICK greeting : greeting = Greeting
  OBVIOUS
<1>5. Greeting' = greeting
  BY <1>1, <1>4 DEF Greeting
<1>6. greeting \in Seq(Signs)
  <2>1. "S" \in Signs
    BY DEF Signs
  <2>2. <<"S">> \in Seq(Signs) /\ <<>> \in Seq(Signs)
    BY ONLY <2>1
  <2> QED BY ONLY <1>4, <2>2 DEF Greeting
<1>7. line \o fifo \in Seq(Signs) /\ line \o fifo \o <<>> = line \o fifo
  BY <1>2, ConcatProperties, ConcatEmptySeq
<1>8. line \o fifo = greeting \o Sent(printed)
  BY ONLY <1>2, <1>4, <1>7
<1>9. line \o fifo \o Sent(string) = greeting \o (Sent(printed) \o Sent(string))
  <2>1. PICK before : before = Sent(printed)
    OBVIOUS
  <2>2. PICK now : now = Sent(string)
    OBVIOUS
  <2>3. before \in Seq(Signs) /\ now \in Seq(Signs)
    BY <1>3, <2>1, <2>2
  <2>4. (greeting \o before) \o now = greeting \o (before \o now)
    BY ONLY <1>6, <2>3, ConcatAssociative
  <2> QED BY ONLY <1>8, <2>1, <2>2, <2>4
<1>10. Sent(printed)' = Sent(printed) \o Sent(string)
  <2>1. Sent(printed)' = Sent(printed')
    BY DEF Sent
  <2> QED BY <1>1, <1>3, <2>1
<1>11. pc \notin SetUp
  BY DEF SetUp, Ready
<1> QED BY ONLY <1>1, <1>2, <1>3, <1>5, <1>9, <1>10, <1>11 DEF LineInv

\* A character goes from the string to the UART.
LEMMA LinePut ==
    ASSUME ConsoleInv, LineInv, serial_putchar
    PROVE  LineInv'
<1>1. /\ toSerial # <<>> /\ fifo = <<>> /\ toSerial' = Tail(toSerial)
      /\ UNCHANGED <<line, printed, pc>>
  BY DEF serial_putchar, TransmitterEmpty
<1>2. pc \in Ready /\ pc \notin SetUp
  BY <1>1 DEF ConsoleInv, TypesInv, SetUpInv, SetUp, Ready
<1>3. fifo' = Append(<<>>, Head(toSerial))
  <2>1. ~ uart.dlab
    BY <1>2 DEF ConsoleInv, SetUpInv
  <2> QED BY <1>1, <2>1 DEF serial_putchar, WriteData
<1>4. line \in Seq(Signs) /\ toSerial \in Seq(Signs) /\ printed \in Seq(Signs)
      /\ line \o fifo \o toSerial = Greeting \o Sent(printed)
  BY DEF LineInv
<1>5. PICK char : char = Head(toSerial)
  OBVIOUS
<1>6. PICK left : left = Tail(toSerial)
  OBVIOUS
<1>7. /\ char \in Signs /\ left \in Seq(Signs) /\ fifo' = <<char>> /\ <<char>> \o left = toSerial
      /\ line \o <<>> = line
  BY ONLY <1>1, <1>3, <1>4, <1>5, <1>6, Handed
<1>8. <<char>> \in Seq(Signs)
  BY <1>7
<1>9. (line \o <<char>>) \o left = line \o (<<char>> \o left)
  <2>1. line \in Seq(Signs) /\ left \in Seq(Signs)
    BY ONLY <1>4, <1>7
  <2> QED BY ONLY <2>1, <1>8, ConcatAssociative
<1>10. line' \o fifo' \o toSerial' = line \o fifo \o toSerial
  BY ONLY <1>1, <1>6, <1>7, <1>9
<1>11. Greeting' = Greeting /\ Sent(printed)' = Sent(printed)
  BY <1>1 DEF Greeting, Sent
<1>12. line' \o fifo' \o toSerial' = Greeting' \o Sent(printed)'
  BY ONLY <1>4, <1>10, <1>11
<1> QED BY ONLY <1>1, <1>2, <1>4, <1>6, <1>7, <1>8, <1>12 DEF LineInv

\* A character goes from the UART to the line.
LEMMA LineTransmit ==
    ASSUME ConsoleInv, LineInv, Transmit
    PROVE  LineInv'
<1>1. /\ fifo # <<>> /\ line' = Append(line, Head(fifo)) /\ fifo' = Tail(fifo)
      /\ UNCHANGED <<toSerial, printed, pc>>
  BY DEF Transmit
<1>2. pc \in Ready /\ pc \notin SetUp
  BY <1>1 DEF ConsoleInv, TypesInv, SetUpInv, SetUp, Ready
<1>3. /\ line \in Seq(Signs) /\ fifo \in Seq(Signs) /\ toSerial \in Seq(Signs)
      /\ printed \in Seq(Signs)
      /\ line \o fifo \o toSerial = Greeting \o Sent(printed)
  BY DEF LineInv
<1>4. PICK char : char = Head(fifo)
  OBVIOUS
<1>5. PICK left : left = Tail(fifo)
  OBVIOUS
<1>6. /\ char \in Signs /\ left \in Seq(Signs) /\ line' = line \o <<char>> /\ <<char>> \o left = fifo
  BY ONLY <1>1, <1>3, <1>4, <1>5, Handed
<1>7. <<char>> \in Seq(Signs)
  BY <1>6
<1>8. (line \o <<char>>) \o left = line \o (<<char>> \o left) /\ line \o <<char>> \in Seq(Signs)
  <2>1. line \in Seq(Signs) /\ <<char>> \in Seq(Signs) /\ left \in Seq(Signs)
    BY <1>3, <1>6, <1>7
  <2>2. (line \o <<char>>) \o left = line \o (<<char>> \o left)
    BY ONLY <2>1, ConcatAssociative
  <2>3. line \o <<char>> \in Seq(Signs)
    BY ONLY <2>1, ConcatProperties
  <2> QED BY <2>2, <2>3
<1>9. line' \o fifo' \o toSerial' = line \o fifo \o toSerial
  BY ONLY <1>1, <1>5, <1>6, <1>8
<1>10. Greeting' = Greeting /\ Sent(printed)' = Sent(printed)
  BY <1>1 DEF Greeting, Sent
<1>11. line' \o fifo' \o toSerial' = Greeting' \o Sent(printed)'
  BY ONLY <1>3, <1>9, <1>10
<1> QED BY ONLY <1>1, <1>2, <1>3, <1>5, <1>6, <1>8, <1>11 DEF LineInv

\* serial_init sends the greeting and nothing before.
LEMMA LineSetUp ==
    ASSUME ConsoleInv, LineInv, serial_init
    PROVE  LineInv'
<1>1. CASE Greet
  <2>1. /\ pc = "greet" /\ pc' = "terminal" /\ fifo = <<>> /\ UNCHANGED <<line, toSerial, printed>>
    BY <1>1 DEF Greet, Step, TransmitterEmpty
  <2>2. line = <<>> /\ toSerial = <<>> /\ printed = <<>>
    BY <2>1 DEF LineInv, ConsoleInv, SetUpInv, SetUp
  <2>3. fifo' = Append(<<>>, "S")
    <3>1. ~ uart.dlab
      BY <2>1 DEF ConsoleInv, SetUpInv
    <3> QED BY <1>1, <2>1, <3>1 DEF Greet, WriteData
  <2>4. PICK none : none = <<>>
    OBVIOUS
  <2>5. PICK greeting : greeting = <<"S">>
    OBVIOUS
  <2>6. /\ none \in Seq(Signs) /\ greeting \in Seq(Signs) /\ fifo' = greeting
    <3>1. "S" \in Signs
      BY DEF Signs
    <3> QED BY <2>3, <2>4, <2>5, <3>1
  <2>7. none \o greeting = greeting /\ greeting \o none = greeting
    BY ONLY <2>4, <2>6, ConcatEmptySeq
  <2>8. Sent(printed)' = none
    <3>1. Sent(printed)' = Sent(printed')
      BY DEF Sent
    <3> QED BY ONLY <2>1, <2>2, <2>4, <3>1, SentNothing
  <2>9. Greeting' = greeting /\ pc' \notin SetUp
    BY <2>1, <2>5 DEF Greeting, SetUp
  <2>10. line' = none /\ toSerial' = none /\ printed' = none
    BY <2>1, <2>2, <2>4
  <2> QED BY ONLY <2>6, <2>7, <2>8, <2>9, <2>10 DEF LineInv
<1>2. CASE ~ Greet
  <2>1. pc \in SetUp /\ pc' \in SetUp /\ UNCHANGED <<line, toSerial, printed>>
    BY <1>2 DEF serial_init, InterruptsOff, SetDlab, DivisorLow, DivisorHigh, SetFormat,
                EnableFifo, Step, SetUp
  <2>2. fifo = <<>>
    BY <2>1 DEF ConsoleInv, SetUpInv
  <2>3. fifo' = fifo
    <3>1. CASE DivisorLow
      <4>1. uart.dlab
        BY <3>1 DEF DivisorLow, Step, ConsoleInv, SetUpInv
      <4> QED BY <3>1, <4>1 DEF DivisorLow, WriteData
    <3>2. CASE EnableFifo
      BY <2>2, <3>2 DEF EnableFifo
    <3>3. CASE InterruptsOff \/ SetDlab \/ DivisorHigh \/ SetFormat
      BY <3>3 DEF InterruptsOff, SetDlab, DivisorHigh, SetFormat, WriteInterrupts, WriteControl
    <3> QED BY <1>2, <3>1, <3>2, <3>3 DEF serial_init
  <2> QED BY <2>1, <2>3, LineKept
<1> QED BY <1>1, <1>2

\* At the start nothing has been printed and nothing sent.
LEMMA InitialLine == ConsoleInit => LineInv
<1> SUFFICES ASSUME ConsoleInit PROVE LineInv
  OBVIOUS
<1>1. PICK none : none = <<>>
  OBVIOUS
<1>2. line = none /\ fifo = none /\ toSerial = none /\ printed = none
  BY <1>1 DEF ConsoleInit
<1>3. Greeting = none
  BY <1>1 DEF ConsoleInit, Greeting
<1>4. none \in Seq(Signs) /\ none \o none = none
  <2>1. none \in Seq(Signs)
    BY <1>1
  <2> QED BY ONLY <1>1, <2>1, ConcatEmptySeq
<1>5. Sent(none) = none
  BY ONLY <1>1, SentNothing
<1> QED BY ONLY <1>1, <1>2, <1>3, <1>4, <1>5 DEF LineInv

\* Every step keeps the line, the UART and the string in order.
LEMMA LineStep ==
    ConsoleInv /\ BufferInv /\ LineInv /\ [ConsoleNext]_consoleVars => LineInv'
<1> SUFFICES ASSUME ConsoleInv, BufferInv, LineInv, [ConsoleNext]_consoleVars PROVE LineInv'
  OBVIOUS
<1>1. CASE serial_init
  BY <1>1, LineSetUp
<1>2. CASE terminal_initialize
  <2>1. UNCHANGED <<line, fifo, toSerial, printed>> /\ pc \in Ready /\ pc' \in Ready /\ pc' \notin SetUp
    BY <1>2 DEF terminal_initialize, portVars, Ready, SetUp
  <2> QED BY <2>1, LineKept
<1>3. CASE terminal_putchar \/ terminal_setcolor \/ uint64_to_string \/ UNCHANGED consoleVars
  <2>1. UNCHANGED <<line, fifo, toSerial, printed>> /\ pc' = pc
    BY <1>3 DEF terminal_putchar, terminal_setcolor, uint64_to_string, consoleVars, portVars
  <2> QED BY <2>1, LineKept
<1>4. CASE serial_putchar
  BY <1>4, LinePut
<1>5. CASE Transmit
  BY <1>5, LineTransmit
<1>6. ASSUME NEW string \in Strings PROVE string \in Seq(Signs)
  <2>1. Alphabet \subseteq Signs
    BY DEF Signs, Chars
  <2>2. string \in Seq(Alphabet)
    BY ConsoleAssumption
  <2> QED BY ONLY <2>1, <2>2
<1>7. CASE terminal_writestring
  <2>1. PICK string \in Strings : Write(string, string)
    BY <1>7 DEF terminal_writestring
  <2>2. pc \in Ready
    BY <1>7 DEF terminal_writestring, Ready
  <2> QED BY <1>6, <2>1, <2>2, LineWrite
<1>8. CASE serial_writestring
  <2>1. PICK string \in Strings : Write(string, <<>>)
    BY <1>8 DEF serial_writestring
  <2>2. pc \in Ready
    BY <1>8 DEF serial_writestring, Ready
  <2> QED BY <1>6, <2>1, <2>2, LineWrite
<1>9. CASE WriteBuffer
  <2>1. PICK n : n = strlen(buffer)
    OBVIOUS
  <2>2. PICK string : string = [i \in 1 .. n |-> buffer[i - 1]]
    OBVIOUS
  <2>3. Write(string, <<>>) /\ number # NoNumber
    BY <1>9, <2>1, <2>2 DEF WriteBuffer
  <2>4. n \in 0 .. 32
    <3>1. BUFFER_SIZE = 32
      BY DEF BUFFER_SIZE
    <3> QED BY <2>1, <3>1, StrlenIs
  <2>5. buffer \in [0 .. 31 -> Held]
    <3>1. BUFFER_SIZE - 1 = 31
      BY DEF BUFFER_SIZE
    <3> QED BY <3>1 DEF BufferInv
  <2>6. Held \subseteq Signs
    BY DEF Held, Signs
  <2>7. ASSUME NEW i \in 1 .. n PROVE buffer[i - 1] \in Signs
    <3>1. i - 1 \in 0 .. 31
      BY ONLY <2>4, i \in 1 .. n
    <3> QED BY ONLY <2>5, <2>6, <3>1
  <2>8. string \in Seq(Signs)
    <3>1. n \in Nat
      BY <2>4
    <3> QED BY ONLY <2>2, <2>7, <3>1
  <2>9. pc = "running"
    BY <2>3 DEF ConsoleInv, SetUpInv
  <2>10. pc \in Ready
    BY <2>9 DEF Ready
  <2> QED BY <2>3, <2>8, <2>10, LineWrite
<1> QED BY <1>1, <1>2, <1>3, <1>4, <1>5, <1>7, <1>8, <1>9 DEF ConsoleNext, Kernel

\* serial.c:9-12 and serial_putchar: whatever is written, to the screen first
\* or not, what is on the line, in the UART and still to be put is the greeting
\* and all that was printed, in order.
THEOREM ConsoleLineInOrder == ConsoleSpec => []LineInOrder
<1>1. LineInv => LineInOrder
  BY DEF LineInv, LineInOrder, Greeting, Sent, Characters
<1>2. ConsoleInit => BufferInv /\ LineInv
  BY InitialBuffer, InitialLine
<1>3. ConsoleInv /\ BufferInv /\ LineInv /\ [ConsoleNext]_consoleVars => BufferInv' /\ LineInv'
  BY BufferStep, LineStep
<1> QED BY ConsoleInvariant, <1>1, <1>2, <1>3, PTL DEF ConsoleSpec
=============================================================================
