------------------------------- MODULE Screen -------------------------------
(***************************************************************************)
(* The text screen of lib.c: the operators are the functions that write    *)
(* characters to the visible page and move screen_x and screen_y.  A       *)
(* screen is a record of the cursor, x and y, and of the cells; the cell   *)
(* at NUM_COLS*y + x of the page is cells[y][x].  The attribute bytes are  *)
(* always ATTRIB and left out.                                             *)
(***************************************************************************)
EXTENDS Integers, Sequences, SequencesExt

CONSTANTS
  NUM_COLS, NUM_ROWS,  \* 80 and 25
  Chars,               \* the characters
  Space, Newline, Nul  \* the three that are special

ASSUME ScreenAssumption ==
  /\ NUM_COLS \in Nat /\ NUM_COLS >= 2
  /\ NUM_ROWS \in Nat /\ NUM_ROWS >= 2
  /\ Space \in Chars /\ Newline \in Chars /\ Nul \in Chars
  /\ Space # Newline /\ Space # Nul /\ Newline # Nul

Cols == 0 .. NUM_COLS - 1
Rows == 0 .. NUM_ROWS - 1

Screens == [x : Cols, y : Rows, cells : [Rows -> [Cols -> Chars]]]

Stored(scr, c) == [scr EXCEPT !.cells[scr.y][scr.x] = c]

BlankCells == [r \in Rows |-> [c \in Cols |-> Space]]

clear(scr) == [scr EXCEPT !.cells = BlankCells]

set_pos(scr, x, y) == [scr EXCEPT !.x = x, !.y = y]

\* On the last row: every row moves up by one, the last one is blank and the
\* cursor is on the row above it.
shift_rows_up(scr) ==
  IF scr.y >= NUM_ROWS - 1
  THEN [scr EXCEPT !.y = NUM_ROWS - 2,
                   !.cells = [r \in Rows |-> IF r = NUM_ROWS - 1
                                             THEN BlankCells[r] ELSE scr.cells[r + 1]]]
  ELSE scr

NextRow(scr) == [scr EXCEPT !.x = 0, !.y = scr.y + 1]

\* Stores a character and steps right, around the row.
Printed(scr, c) == [Stored(scr, c) EXCEPT !.x = (scr.x + 1) % NUM_COLS]

Clamped(scr) == IF scr.y >= NUM_ROWS - 1 THEN [scr EXCEPT !.y = NUM_ROWS - 1] ELSE scr

\* A character at the end of a row goes on in the same row: the carry into
\* screen_y is computed after screen_x has been reduced.
putc(scr, c) == IF c = Newline THEN NextRow(scr) ELSE Printed(scr, c)

\* Faulty: does not scroll before it runs over the last row.
RunOverInPlace(scr) == Clamped(IF scr.x >= NUM_COLS - 1 THEN NextRow(scr) ELSE scr)

\* To the next row before the last column is used.
RunOver(scr) == Clamped(IF scr.x >= NUM_COLS - 1 THEN NextRow(shift_rows_up(scr)) ELSE scr)

putc_line_runover(scr, c) ==
  IF c = Newline THEN NextRow(scr) ELSE Printed(RunOver(scr), c)

backspace_on_screen(scr) ==
  LET x == IF scr.x # 0 THEN scr.x - 1 ELSE 0 IN Stored([scr EXCEPT !.x = x], Space)

\* From the first column back to the last column of the row above.
backspace_to_prev(scr) ==
  IF scr.x = 0 /\ scr.y > 0
  THEN Stored([scr EXCEPT !.x = NUM_COLS - 1, !.y = scr.y - 1], Space)
  ELSE backspace_on_screen(scr)

\* The echo of the Enter key.
EnterEcho(scr) == putc_line_runover(shift_rows_up(scr), Newline)

\* One character of write_string_to_screen; a NUL prints a space and itself.
WriteChar(scr, c) ==
  LET s == IF c = Nul THEN putc(scr, Space) ELSE scr
  IN  IF c = Newline THEN putc(shift_rows_up(s), Newline)
      ELSE putc_line_runover(s, c)

write_string_to_screen(scr, str) ==
  LET after[i \in 0 .. Len(str)] ==
        IF i = 0 THEN scr ELSE WriteChar(after[i - 1], str[i])
  IN  after[Len(str)]
=============================================================================
