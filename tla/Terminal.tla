------------------------------- MODULE Terminal -------------------------------
(***************************************************************************)
(* The output half of kernel/src/arch/x86/console.c and of                 *)
(* kernel/src/device/uart/uart.c: putchar, which writes each character to  *)
(* the CGA screen and, when there is a serial port, to the serial line.    *)
(*                                                                         *)
(* The screen is [pos, crt]: the cursor, and the character in each cell.   *)
(* The serial line is what a terminal on it shows after the last line      *)
(* break, as a sequence of characters.                                     *)
(***************************************************************************)
EXTENDS Integers, Sequences, SequencesExt

CONSTANTS NUM_COL, NUM_ROW

ASSUME ScreenAssumption == NUM_COL \in Nat \ {0} /\ NUM_ROW \in Nat \ (0 .. 2)

Cells == 0 .. NUM_ROW * NUM_COL - 1
\* The rows text is written to: all but the last.
TextCells == 0 .. (NUM_ROW - 1) * NUM_COL - 1

Space == " "
Cleared == ""
Blank == {Cleared, Space}  \* what a cleared cell and an erased one hold
NewLine == "\n"
BACKSPACE == "erase"

\* Mutant: the cell under the new cursor is not erased.
CgaPutchar_NoErase(s, c) ==
  LET typed == c \notin {NewLine, BACKSPACE}
      next == CASE c = NewLine -> s.pos + NUM_COL - (s.pos % NUM_COL)
                [] c = BACKSPACE -> IF s.pos > 0 THEN s.pos - 1 ELSE s.pos
                [] OTHER -> s.pos + 1
      crt == IF typed THEN [s.crt EXCEPT ![s.pos] = c] ELSE s.crt
      scroll == next \div NUM_COL >= NUM_ROW - 1
      pos == IF scroll THEN next - NUM_COL ELSE next
  IN [pos |-> pos,
      crt |-> IF scroll
              THEN [i \in Cells |-> IF i < (NUM_ROW - 2) * NUM_COL THEN crt[i + NUM_COL]
                                    ELSE IF i >= pos /\ i \in TextCells THEN Cleared ELSE crt[i]]
              ELSE crt]

\* cga_putchar: memcpy moves the rows up, memset clears from the cursor on.
CgaPutchar(s, c) ==
  LET typed == c \notin {NewLine, BACKSPACE}
      next == CASE c = NewLine -> s.pos + NUM_COL - (s.pos % NUM_COL)
                [] c = BACKSPACE -> IF s.pos > 0 THEN s.pos - 1 ELSE s.pos
                [] OTHER -> s.pos + 1
      crt == IF typed THEN [s.crt EXCEPT ![s.pos] = c] ELSE s.crt
      scroll == next \div NUM_COL >= NUM_ROW - 1
      pos == IF scroll THEN next - NUM_COL ELSE next
      moved == IF scroll
               THEN [i \in Cells |-> IF i < (NUM_ROW - 2) * NUM_COL THEN crt[i + NUM_COL]
                                     ELSE IF i >= pos /\ i \in TextCells THEN Cleared ELSE crt[i]]
               ELSE crt
  IN [pos |-> pos, crt |-> [moved EXCEPT ![pos] = Space]]

\* uart_putc, after putchar's carriage return before a line feed: a backspace
\* goes out as back, blank, back.
UartPutc(line, c) ==
  CASE c = NewLine -> <<>>
    [] c = BACKSPACE -> IF line = <<>> THEN line ELSE Front(line)
    [] OTHER -> Append(line, c)

\* putchar, with the screen and the serial line as one record
Putchar(t, c) ==
  [cga |-> CgaPutchar(t.cga, c), uart |-> UartPutc(t.uart, c)]

\* kprintf of the characters of s
Puts(t, s) ==
  LET shown[n \in 0 .. Len(s)] == IF n = 0 THEN t ELSE Putchar(shown[n - 1], s[n])
  IN shown[Len(s)]
=============================================================================
