--------------------------- MODULE LineInputProofs ---------------------------
(***************************************************************************)
(* Theorems about LineInput, for every size of the screen and of the line, *)
(* every number of terminals and all outputs: no buffer overflows and the  *)
(* cursor stays on the screen; a plain line stands left of the cursor as   *)
(* the buffer holds it, through wrapping and scrolling; and terminal_read  *)
(* returns the line that was shown.                                        *)
(***************************************************************************)
EXTENDS LineInput, Induction, SequenceTheorems

\* The columns that echo uses, and the number of cells up to the cursor.
Width == NUM_COLS - 1
Pos(scr) == scr.y * Width + scr.x

\* The line ends at the cursor: its k-th character is in the cell of that number.
Holds(scr, line) ==
  /\ Len(line) <= Pos(scr)
  /\ \A k \in 1 .. Len(line), r \in Rows, c \in 0 .. Width - 1 :
       r * Width + c = Pos(scr) - Len(line) + k - 1 => scr.cells[r][c] = line[k]

ShapeInv ==
  /\ screen \in [Terminals -> Screens]
  /\ buffer \in [Terminals -> Seq(Chars)]
  /\ terminal_on_display \in Terminals
  /\ enter \in BOOLEAN /\ line_run_over_flag \in BOOLEAN
  /\ pc \in Points
  /\ result \in Seq(Chars)
  /\ plain \in [Terminals -> BOOLEAN]

RoomInv == \A t \in Terminals : Len(buffer[t]) <= BufferSize

\* The line of every terminal, displayed or not, while it is plain.
EchoInv == \A t \in Terminals : plain[t] => Holds(screen[t], buffer[t])

\* A line that was shown at Enter is on its way to the program.
ShownInv ==
  /\ line_run_over_flag => pc \in {"test", "body", "leave"}
  /\ shown_line # <<>> => pc \notin {"user", "reset"} /\ shown_line = <<buffer[t0]>>

IInv == ShapeInv /\ RoomInv /\ EchoInv /\ ShownInv
-----------------------------------------------------------------------------
LEMMA SizeFacts ==
  /\ NUM_COLS \in Nat /\ NUM_COLS >= 2 /\ NUM_ROWS \in Nat /\ NUM_ROWS >= 2
  /\ Width \in Nat \ {0} /\ NUM_COLS = Width + 1
  /\ BufferSize \in Nat /\ TabWidth \in Nat /\ BufferSize - 1 <= (NUM_ROWS - 1) * Width
  /\ Space \in Chars \ {Newline} /\ Nul \in Chars
BY ScreenAssumption, LineAssumption DEF Width

\* The functions of lib.c leave the cursor and the cells on the screen.
LEMMA ScreenFacts ==
  ASSUME NEW scr \in Screens
  PROVE  /\ scr.x \in 0 .. NUM_COLS - 1 /\ scr.y \in 0 .. NUM_ROWS - 1
         /\ scr.cells \in [Rows -> [Cols -> Chars]]
BY DEF Screens, Rows, Cols

LEMMA StoredOnScreen ==
  ASSUME NEW scr \in Screens, NEW c \in Chars
  PROVE  Stored(scr, c) \in Screens /\ Stored(scr, c).x = scr.x /\ Stored(scr, c).y = scr.y
BY DEF Screens, Stored

LEMMA ShiftOnScreen ==
  ASSUME NEW scr \in Screens
  PROVE  /\ shift_rows_up(scr) \in Screens
         /\ shift_rows_up(scr).y <= NUM_ROWS - 2 /\ shift_rows_up(scr).x = scr.x
<1>1. \A r \in Rows : BlankCells[r] \in [Cols -> Chars]
  BY SizeFacts DEF BlankCells
<1>2. \A r \in Rows : r # NUM_ROWS - 1 => r + 1 \in Rows
  BY SizeFacts DEF Rows
<1>3. [r \in Rows |-> IF r = NUM_ROWS - 1 THEN BlankCells[r] ELSE scr.cells[r + 1]]
        \in [Rows -> [Cols -> Chars]]
  <2>1. scr.cells \in [Rows -> [Cols -> Chars]]
    BY ScreenFacts
  <2> QED BY <1>1, <1>2, <2>1
<1>4. NUM_ROWS - 2 \in Rows
  BY SizeFacts DEF Rows
<1>5. scr.y \in Rows /\ scr.y \in Int /\ NUM_ROWS \in Int
  BY ScreenFacts, SizeFacts DEF Rows
<1>6. CASE scr.y >= NUM_ROWS - 1
  <2> DEFINE cells == [r \in Rows |-> IF r = NUM_ROWS - 1 THEN BlankCells[r] ELSE scr.cells[r + 1]]
  <2>1. shift_rows_up(scr) = [scr EXCEPT !.y = NUM_ROWS - 2, !.cells = cells]
    BY <1>6 DEF shift_rows_up
  <2>2. cells \in [Rows -> [Cols -> Chars]]
    BY <1>3
  <2> HIDE DEF cells
  <2>3. shift_rows_up(scr) = [x |-> scr.x, y |-> NUM_ROWS - 2, cells |-> cells]
    BY <2>1 DEF Screens
  <2>4. scr.x \in Cols
    BY DEF Screens
  <2> QED BY <1>4, <1>5, <2>2, <2>3, <2>4 DEF Screens
<1>7. CASE ~(scr.y >= NUM_ROWS - 1)
  BY <1>5, <1>7 DEF shift_rows_up
<1> QED BY <1>6, <1>7

LEMMA NextRowOnScreen ==
  ASSUME NEW scr \in Screens, scr.y <= NUM_ROWS - 2
  PROVE  NextRow(scr) \in Screens
<1>1. 0 \in Cols /\ scr.y + 1 \in Rows
  BY ScreenFacts, SizeFacts DEF Rows, Cols
<1> QED BY <1>1 DEF Screens, NextRow

LEMMA PrintedOnScreen ==
  ASSUME NEW scr \in Screens, NEW c \in Chars
  PROVE  Printed(scr, c) \in Screens
<1>1. (scr.x + 1) % NUM_COLS \in Cols
  <2>1. scr.x + 1 \in Nat /\ NUM_COLS \in Nat \ {0}
    BY ScreenFacts, SizeFacts
  <2>2. (scr.x + 1) % NUM_COLS \in 0 .. NUM_COLS - 1
    BY <2>1, DivisionFacts
  <2> QED BY <2>2 DEF Cols
<1> QED BY <1>1, StoredOnScreen DEF Printed, Screens

LEMMA RunOverOnScreen ==
  ASSUME NEW scr \in Screens
  PROVE  RunOver(scr) \in Screens
<1> DEFINE s == IF scr.x >= NUM_COLS - 1 THEN NextRow(shift_rows_up(scr)) ELSE scr
<1>1. s \in Screens
  BY ShiftOnScreen, NextRowOnScreen
<1>2. NUM_ROWS - 1 \in Rows
  BY SizeFacts DEF Rows
<1>3. RunOver(scr) = Clamped(s)
  BY DEF RunOver
<1> HIDE DEF s
<1>4. Clamped(s) \in Screens
  BY <1>1, <1>2 DEF Clamped, Screens
<1> QED BY <1>3, <1>4

LEMMA PutOnScreen ==
  ASSUME NEW scr \in Screens, NEW c \in Chars \ {Newline}
  PROVE  putc(scr, c) \in Screens /\ putc_line_runover(scr, c) \in Screens
BY RunOverOnScreen, PrintedOnScreen DEF putc, putc_line_runover

LEMMA BackspaceOnScreen ==
  ASSUME NEW scr \in Screens
  PROVE  backspace_to_prev(scr) \in Screens
<1> DEFINE x == IF scr.x # 0 THEN scr.x - 1 ELSE 0
<1>1. x \in Cols /\ NUM_COLS - 1 \in Cols /\ (scr.y > 0 => scr.y - 1 \in Rows)
  BY ScreenFacts, SizeFacts DEF Cols, Rows
<1> HIDE DEF x
<1>2. [scr EXCEPT !.x = x] \in Screens
  BY <1>1 DEF Screens
<1>3. scr.y > 0 => [scr EXCEPT !.x = NUM_COLS - 1, !.y = scr.y - 1] \in Screens
  BY <1>1 DEF Screens
<1>4. Space \in Chars
  BY SizeFacts
<1> QED BY <1>2, <1>3, <1>4, StoredOnScreen DEF backspace_to_prev, backspace_on_screen, x

LEMMA EnterOnScreen ==
  ASSUME NEW scr \in Screens
  PROVE  EnterEcho(scr) \in Screens
BY ShiftOnScreen, NextRowOnScreen DEF EnterEcho, putc_line_runover

LEMMA WriteCharOnScreen ==
  ASSUME NEW scr \in Screens, NEW c \in Chars
  PROVE  WriteChar(scr, c) \in Screens
<1> DEFINE s == IF c = Nul THEN putc(scr, Space) ELSE scr
<1>1. s \in Screens
  BY SizeFacts, PutOnScreen
<1> HIDE DEF s
<1>2. c = Newline => putc(shift_rows_up(s), Newline) \in Screens
  BY <1>1, ShiftOnScreen, NextRowOnScreen DEF putc
<1>3. c # Newline => putc_line_runover(s, c) \in Screens
  BY <1>1, PutOnScreen
<1> QED BY <1>2, <1>3 DEF WriteChar, s

\* A string is written character by character.
LEMMA WriteOnScreen ==
  ASSUME NEW scr \in Screens, NEW str \in Seq(Chars)
  PROVE  write_string_to_screen(scr, str) \in Screens
<1> DEFINE n == Len(str)
           Is(f) == f = [i \in 0 .. n |-> IF i = 0 THEN scr ELSE WriteChar(f[i - 1], str[i])]
           step == [p \in Screens \X (1 .. n) |-> WriteChar(p[1], str[p[2]])]
           after == CHOOSE f : Is(f)
<1>1. n \in Nat /\ step \in [Screens \X (1 .. n) -> Screens]
  <2>1. \A p \in Screens \X (1 .. n) : p[1] \in Screens /\ str[p[2]] \in Chars
    BY ElementOfSeq
  <2> QED BY <2>1, WriteCharOnScreen
<1>2. \A s \in Screens, i \in 1 .. n : step[<<s, i>>] = WriteChar(s, str[i])
  OBVIOUS
<1> HIDE DEF step
<1>3. PICK f \in [0 .. n -> Screens] : f[0] = scr /\ \A i \in 1 .. n : f[i] = step[<<f[i - 1], i>>]
  <2>1. Runs(Screens, scr, step, n) # {}
    BY <1>1, RunsExist
  <2> HIDE DEF n
  <2> QED BY <2>1 DEF Runs
<1>4. Is(f)
  <2>1. \A i \in 0 .. n : f[i] = IF i = 0 THEN scr ELSE WriteChar(f[i - 1], str[i])
    <3> TAKE i \in 0 .. n
    <3>1. CASE i = 0
      BY <1>3, <3>1
    <3>2. CASE i # 0
      <4>1. i \in 1 .. n /\ i - 1 \in 0 .. n /\ f[i - 1] \in Screens
        BY <1>1, <1>3, <3>2, SMTT(20)
      <4> QED BY <1>2, <1>3, <3>2, <4>1
    <3> QED BY <3>1, <3>2
  <2>2. f = [i \in 0 .. n |-> f[i]]
    BY <1>3
  <2> QED BY <2>1, <2>2
<1>5. Is(after)
  <2> HIDE DEF Is
  <2> QED BY <1>4
<1> DEFINE S == {i \in 0 .. n : after[i] \in Screens}
<1>6. 0 \in S
  <2>1. after = [i \in 0 .. n |-> IF i = 0 THEN scr ELSE WriteChar(after[i - 1], str[i])] /\ 0 \in 0 .. n
    BY <1>1, <1>5
  <2> HIDE DEF after, n
  <2> QED BY <2>1
<1>7. ASSUME NEW i \in 0 .. n - 1, i \in S PROVE i + 1 \in S
  <2>1. i + 1 \in 0 .. n /\ i + 1 # 0 /\ (i + 1) - 1 = i /\ after[i] \in Screens /\ i + 1 \in 1 .. n
    BY <1>1, <1>7
  <2>2. after[i + 1] = WriteChar(after[i], str[i + 1])
    <3>1. \A j \in 0 .. n : after[j] = IF j = 0 THEN scr ELSE WriteChar(after[j - 1], str[j])
      BY <1>5
    <3> HIDE DEF after
    <3> QED BY <2>1, <3>1
  <2>3. str[i + 1] \in Chars
    BY <2>1, ElementOfSeq
  <2> HIDE DEF after
  <2> QED BY <2>1, <2>2, <2>3, WriteCharOnScreen
<1>8. n \in S
  <2>1. \A i \in 0 .. n : i \in S
    <3> HIDE DEF S
    <3> QED BY <1>1, <1>6, <1>7, UpTo
  <2> QED BY <1>1, <2>1
<1>9. write_string_to_screen(scr, str) = after[n]
  BY DEF write_string_to_screen
<1> QED BY <1>8, <1>9

\* Tab goes through n screens, each an echoed space after the one before.
LEMMA SpacedFacts ==
  ASSUME NEW scr \in Screens, NEW n \in Nat
  PROVE  \E f \in [0 .. n -> Screens] :
           /\ f[0] = scr /\ \A i \in 1 .. n : f[i] = EchoSpace(f[i - 1])
           /\ Spaced(scr, n) = f[n]
<1> DEFINE Is(f) == f = [i \in 0 .. n |-> IF i = 0 THEN scr ELSE EchoSpace(f[i - 1])]
           step == [p \in Screens \X (1 .. n) |-> EchoSpace(p[1])]
           after == CHOOSE f : Is(f)
<1>1. step \in [Screens \X (1 .. n) -> Screens]
  BY SizeFacts, PutOnScreen DEF EchoSpace
<1>2. \A s \in Screens, i \in 1 .. n : step[<<s, i>>] = EchoSpace(s)
  OBVIOUS
<1> HIDE DEF step
<1>3. PICK f \in [0 .. n -> Screens] : f[0] = scr /\ \A i \in 1 .. n : f[i] = step[<<f[i - 1], i>>]
  <2>1. Runs(Screens, scr, step, n) # {}
    BY <1>1, RunsExist
  <2> QED BY <2>1 DEF Runs
<1>4. Is(f)
  <2>1. \A i \in 0 .. n : f[i] = IF i = 0 THEN scr ELSE EchoSpace(f[i - 1])
    <3> TAKE i \in 0 .. n
    <3>1. CASE i = 0
      BY <1>3, <3>1
    <3>2. CASE i # 0
      <4>1. i \in 1 .. n /\ i - 1 \in 0 .. n /\ f[i - 1] \in Screens
        BY <1>3, <3>2
      <4> QED BY <1>2, <1>3, <3>2, <4>1
    <3> QED BY <3>1, <3>2
  <2>2. f = [i \in 0 .. n |-> f[i]]
    BY <1>3
  <2> QED BY <2>1, <2>2
<1>5. Is(after)
  <2> HIDE DEF Is
  <2> QED BY <1>4
<1>6. \A i \in 0 .. n : after[i] = IF i = 0 THEN scr ELSE EchoSpace(after[i - 1])
  BY <1>5
<1> DEFINE S == {i \in 0 .. n : after[i] \in Screens}
<1>7. after[0] = scr /\ 0 \in S /\ \A i \in 1 .. n : after[i] = EchoSpace(after[i - 1])
  <2> HIDE DEF after
  <2>1. 0 \in 0 .. n /\ \A i \in 1 .. n : i \in 0 .. n /\ i # 0
    OBVIOUS
  <2> QED BY <1>6, <2>1
<1>8. ASSUME NEW i \in 0 .. n - 1, i \in S PROVE i + 1 \in S
  <2>1. i + 1 \in 1 .. n /\ (i + 1) - 1 = i /\ after[i] \in Screens
    BY <1>8
  <2> HIDE DEF after
  <2>2. after[i + 1] = EchoSpace(after[i])
    BY <1>7, <2>1
  <2> QED BY <2>1, <2>2, SizeFacts, PutOnScreen DEF EchoSpace
<1>9. \A i \in 0 .. n : after[i] \in Screens
  <2>1. \A i \in 0 .. n : i \in S
    <3> HIDE DEF S
    <3> QED BY <1>7, <1>8, UpTo
  <2> QED BY <2>1
<1>10. after \in [0 .. n -> Screens]
  BY <1>5, <1>9
<1>11. Spaced(scr, n) = after[n]
  BY DEF Spaced
<1> HIDE DEF after
<1> QED BY <1>7, <1>10, <1>11
-----------------------------------------------------------------------------
(* What the functions of lib.c do to a line that ends at the cursor. *)

\* The number of a cell determines row and column.
LEMMA OnePlace ==
  ASSUME NEW r \in Rows, NEW c \in 0 .. Width - 1, NEW y \in Rows, NEW x \in 0 .. Width - 1,
         r * Width + c = y * Width + x
  PROVE  r = y /\ c = x
<1>1. Width \in Nat \ {0} /\ r \in Nat /\ y \in Nat
  BY SizeFacts DEF Rows
<1>2. (Width * r + c) \div Width = r /\ (Width * r + c) % Width = c
  BY <1>1, DivisionIs
<1>3. (Width * y + x) \div Width = y /\ (Width * y + x) % Width = x
  BY <1>1, DivisionIs
<1>4. Width * r + c = Width * y + x
  BY <1>1
<1> QED BY <1>2, <1>3, <1>4

LEMMA PosFacts ==
  ASSUME NEW scr \in Screens
  PROVE  /\ Pos(scr) \in Nat /\ scr.x \in 0 .. Width /\ scr.y \in 0 .. NUM_ROWS - 1
         /\ scr.y * Width \in Nat /\ Pos(scr) = scr.y * Width + scr.x
<1>1. scr.x \in 0 .. Width /\ scr.y \in 0 .. NUM_ROWS - 1 /\ Width \in Nat
  BY ScreenFacts, SizeFacts
<1> QED BY <1>1 DEF Pos

\* A character that is printed ends the line.
LEMMA PrintedExtends ==
  ASSUME NEW scr \in Screens, scr.x < Width, NEW line \in Seq(Chars), Holds(scr, line), NEW ch \in Chars
  PROVE  Holds(Printed(scr, ch), Append(line, ch))
<1> DEFINE p == Printed(scr, ch)
           long == Append(line, ch)
<1>1. scr.x + 1 \in 0 .. NUM_COLS - 1 /\ (scr.x + 1) % NUM_COLS = scr.x + 1
  <2>1. scr.x + 1 \in 0 .. NUM_COLS - 1 /\ NUM_COLS \in Nat \ {0}
    BY PosFacts, SizeFacts
  <2>2. (NUM_COLS * 0 + (scr.x + 1)) % NUM_COLS = scr.x + 1
    BY <2>1, DivisionIs
  <2> QED BY <2>1, <2>2
<1>2. /\ p.x = scr.x + 1 /\ p.y = scr.y
      /\ p.cells = [scr.cells EXCEPT ![scr.y][scr.x] = ch]
  BY <1>1 DEF Printed, Stored, Screens
<1>3. Pos(p) = Pos(scr) + 1
  <2> HIDE DEF p
  <2>1. Pos(p) = scr.y * Width + (scr.x + 1)
    BY <1>2 DEF Pos
  <2>2. PICK a \in Nat : a = scr.y * Width
    BY PosFacts
  <2> QED BY <2>1, <2>2, PosFacts
<1>4. Len(long) = Len(line) + 1 /\ Len(line) \in Nat /\ long[Len(line) + 1] = ch
      /\ \A k \in 1 .. Len(line) : long[k] = line[k]
  OBVIOUS
<1> HIDE DEF p, long
<1>5. ASSUME NEW k \in 1 .. Len(long), NEW r \in Rows, NEW c \in 0 .. Width - 1,
             r * Width + c = Pos(p) - Len(long) + k - 1
      PROVE  p.cells[r][c] = long[k]
  <2>1. r * Width + c = Pos(scr) - Len(line) + k - 1
    <3>1. PICK a : a = r * Width + c
      OBVIOUS
    <3> QED BY <1>3, <1>4, <1>5, <3>1, PosFacts
  <2>2. scr.x \in 0 .. Width - 1 /\ scr.y \in Rows /\ scr.x \in Cols /\ r \in Rows /\ c \in Cols
        /\ scr.cells \in [Rows -> [Cols -> Chars]]
    BY PosFacts, SizeFacts, ScreenFacts DEF Rows, Cols
  <2>3. CASE k = Len(line) + 1
    <3>1. r * Width + c = scr.y * Width + scr.x
      <4>1. r * Width + c = Pos(scr)
        <5>1. PICK a : a = r * Width + c
          OBVIOUS
        <5> QED BY <1>4, <2>1, <2>3, <5>1, PosFacts
      <4> QED BY <4>1, PosFacts
    <3>2. r = scr.y /\ c = scr.x
      BY <2>2, <3>1, OnePlace
    <3> QED BY <1>2, <1>4, <2>2, <2>3, <3>2
  <2>4. CASE k # Len(line) + 1
    <3>1. k \in 1 .. Len(line)
      BY <1>4, <2>4
    <3>2. scr.cells[r][c] = line[k]
      BY <2>1, <3>1 DEF Holds
    <3>3. ~(r = scr.y /\ c = scr.x)
      <4>1. SUFFICES ASSUME r = scr.y, c = scr.x PROVE FALSE
        OBVIOUS
      <4>2. r * Width + c = Pos(scr)
        BY <4>1, PosFacts
      <4>3. PICK a : a = r * Width + c
        OBVIOUS
      <4> QED BY <1>4, <2>1, <3>1, <4>2, <4>3, PosFacts
    <3>4. p.cells[r][c] = scr.cells[r][c]
      BY <1>2, <2>2, <3>3
    <3> QED BY <1>4, <3>1, <3>2, <3>4
  <2> QED BY <2>3, <2>4
<1>6. Len(long) <= Pos(p)
  BY <1>3, <1>4, PosFacts DEF Holds
<1> QED BY <1>5, <1>6 DEF Holds, p, long

\* Running over to the next row, and scrolling for it, keeps the line whole, if
\* it fits above the last row.
LEMMA RunOverKeeps ==
  ASSUME NEW scr \in Screens, NEW line \in Seq(Chars), Holds(scr, line), Len(line) <= BufferSize - 1
  PROVE  RunOver(scr).x < Width /\ Holds(RunOver(scr), line)
<1> DEFINE s == RunOver(scr)
<1>1. scr.x \in 0 .. Width /\ scr.y \in 0 .. NUM_ROWS - 1 /\ Width = NUM_COLS - 1
  BY PosFacts, SizeFacts
<1>2. CASE scr.x < Width
  <2>1. s = IF scr.y >= NUM_ROWS - 1 THEN [scr EXCEPT !.y = NUM_ROWS - 1] ELSE scr
    <3>1. ~(scr.x >= NUM_COLS - 1)
      BY <1>1, <1>2, SizeFacts
    <3>2. s = Clamped(scr)
      BY <3>1 DEF RunOver
    <3> QED BY <3>2 DEF Clamped
  <2>2. [scr EXCEPT !.y = scr.y] = scr
    BY DEF Screens
  <2>3. s = scr
    BY <1>1, <2>1, <2>2, SizeFacts
  <2> QED BY <1>2, <2>3
<1>3. CASE scr.x = Width /\ scr.y < NUM_ROWS - 1
  <2>1. shift_rows_up(scr) = scr
    BY <1>1, <1>3, SizeFacts DEF shift_rows_up
  <2> DEFINE t == NextRow(scr)
  <2>2. s = Clamped(t)
    BY <1>1, <1>3, <2>1, SizeFacts DEF RunOver
  <2>3. t.x = 0 /\ t.y = scr.y + 1 /\ t.cells = scr.cells /\ t \in Screens
    <3>1. scr.y <= NUM_ROWS - 2
      BY <1>1, <1>3, SizeFacts
    <3>2. t \in Screens
      BY <3>1, NextRowOnScreen
    <3>3. t = [scr EXCEPT !.x = 0, !.y = scr.y + 1]
      BY DEF NextRow
    <3> HIDE DEF t
    <3> QED BY <3>2, <3>3 DEF Screens
  <2> HIDE DEF t
  <2>4. s.x = 0 /\ s.y = scr.y + 1 /\ s.cells = scr.cells
    <3>1. CASE t.y >= NUM_ROWS - 1
      <4>1. s = [t EXCEPT !.y = NUM_ROWS - 1] /\ scr.y + 1 = NUM_ROWS - 1
        BY <1>1, <1>3, <2>2, <2>3, <3>1, SizeFacts DEF Clamped
      <4> HIDE DEF s
      <4> QED BY <2>3, <4>1 DEF Screens
    <3>2. CASE ~(t.y >= NUM_ROWS - 1)
      BY <2>2, <2>3, <3>2 DEF Clamped
    <3> QED BY <3>1, <3>2
  <2>5. Pos(s) = Pos(scr)
    <3>1. (scr.y + 1) * Width + 0 = scr.y * Width + Width
      BY <1>1, SizeFacts
    <3> HIDE DEF s
    <3> QED BY <1>3, <2>4, <3>1 DEF Pos
  <2> HIDE DEF s
  <2> QED BY <2>4, <2>5, SizeFacts DEF Holds, s
<1>4. CASE scr.x = Width /\ scr.y = NUM_ROWS - 1
  <2> DEFINE up == shift_rows_up(scr)
             t == NextRow(up)
             cells == [r \in Rows |-> IF r = NUM_ROWS - 1 THEN BlankCells[r] ELSE scr.cells[r + 1]]
  <2>1. up = [x |-> scr.x, y |-> NUM_ROWS - 2, cells |-> cells]
    <3>1. up = [scr EXCEPT !.y = NUM_ROWS - 2, !.cells = cells]
      BY <1>1, <1>4, SizeFacts DEF shift_rows_up
    <3> HIDE DEF cells, up
    <3> QED BY <3>1 DEF Screens
  <2>2. s = Clamped(t)
    BY <1>1, <1>4, SizeFacts DEF RunOver
  <2>3. t = [x |-> 0, y |-> NUM_ROWS - 1, cells |-> cells]
    <3>1. (NUM_ROWS - 2) + 1 = NUM_ROWS - 1
      BY SizeFacts
    <3>2. t = [up EXCEPT !.x = 0, !.y = up.y + 1]
      BY DEF NextRow
    <3> HIDE DEF cells, up, t
    <3> QED BY <2>1, <3>1, <3>2
  <2>4. s.x = 0 /\ s.y = NUM_ROWS - 1 /\ s.cells = cells
    <3> HIDE DEF cells, t
    <3> QED BY <2>2, <2>3, SizeFacts DEF Clamped
  <2>5. \A r \in Rows : r # NUM_ROWS - 1 => cells[r] = scr.cells[r + 1] /\ r + 1 \in Rows
    BY SizeFacts DEF Rows
  <2> HIDE DEF cells, s
  <2> DEFINE full == (NUM_ROWS - 1) * Width
  <2>6. Pos(s) = full /\ Pos(scr) = full + Width /\ full \in Nat
    <3>1. full + 0 = full /\ full \in Nat
      BY SizeFacts
    <3> HIDE DEF full
    <3>2. Pos(s) = full + 0
      BY <2>4 DEF Pos, full
    <3>3. Pos(scr) = full + Width
      BY <1>4 DEF Pos, full
    <3> QED BY <3>1, <3>2, <3>3
  <2>7. Len(line) <= full /\ Len(line) \in Nat
    BY <2>6, SizeFacts
  <2> HIDE DEF full
  <2>8. ASSUME NEW k \in 1 .. Len(line), NEW r \in Rows, NEW c \in 0 .. Width - 1,
               r * Width + c = Pos(s) - Len(line) + k - 1
        PROVE  s.cells[r][c] = line[k]
    <3>1. r # NUM_ROWS - 1
      <4>1. SUFFICES ASSUME r = NUM_ROWS - 1 PROVE FALSE
        OBVIOUS
      <4>2. full + c = full - Len(line) + k - 1
        BY <2>6, <2>8, <4>1 DEF full
      <4> QED BY <2>6, <2>7, <4>2
    <3>2. (r + 1) * Width + c = r * Width + c + Width
      BY SizeFacts DEF Rows
    <3>3. (r + 1) * Width + c = Pos(scr) - Len(line) + k - 1
      <4>1. PICK a, b : a = r * Width + c /\ b = (r + 1) * Width + c
        OBVIOUS
      <4> QED BY <2>6, <2>7, <2>8, <3>2, <4>1, SizeFacts
    <3> QED BY <2>4, <2>5, <3>1, <3>3 DEF Holds
  <2> QED BY <2>4, <2>6, <2>7, <2>8, SizeFacts DEF Holds, s
<1> QED BY <1>1, <1>2, <1>3, <1>4, SizeFacts

\* A typed character stands on the screen where the buffer has it.
LEMMA PutExtends ==
  ASSUME NEW scr \in Screens, NEW line \in Seq(Chars), Holds(scr, line), Len(line) < BufferSize,
         NEW ch \in Chars \ {Newline}
  PROVE  Holds(putc_line_runover(scr, ch), Append(line, ch))
<1>1. Len(line) <= BufferSize - 1
  BY SizeFacts
<1>2. RunOver(scr) \in Screens /\ RunOver(scr).x < Width /\ Holds(RunOver(scr), line)
  BY <1>1, RunOverOnScreen, RunOverKeeps
<1> QED BY <1>2, PrintedExtends DEF putc_line_runover

\* Backspace within a row takes away the last character.
LEMMA BackspaceShortens ==
  ASSUME NEW scr \in Screens, scr.x # 0, NEW line \in Seq(Chars), line # <<>>, Holds(scr, line)
  PROVE  Holds(backspace_to_prev(scr), Front(line))
<1> DEFINE s == backspace_to_prev(scr)
<1>1. scr.x - 1 \in 0 .. Width - 1 /\ scr.x - 1 \in Cols /\ scr.y \in Rows
      /\ scr.cells \in [Rows -> [Cols -> Chars]]
  BY PosFacts, SizeFacts, ScreenFacts DEF Cols, Rows
<1>2. s = Stored([scr EXCEPT !.x = scr.x - 1], Space)
  BY DEF backspace_to_prev, backspace_on_screen
<1>3. s.x = scr.x - 1 /\ s.y = scr.y /\ s.cells = [scr.cells EXCEPT ![scr.y][scr.x - 1] = Space]
  BY <1>2 DEF Stored, Screens
<1> HIDE DEF s
<1>4. Pos(s) = Pos(scr) - 1
  <2>1. Pos(s) = scr.y * Width + (scr.x - 1)
    BY <1>3 DEF Pos
  <2>2. PICK a \in Nat : a = scr.y * Width
    BY PosFacts
  <2> QED BY <2>1, <2>2, PosFacts
<1>5. /\ Len(line) \in Nat \ {0} /\ Len(Front(line)) = Len(line) - 1
      /\ \A k \in 1 .. Len(line) - 1 : Front(line)[k] = line[k]
  <2>1. Front(line) = SubSeq(line, 1, Len(line) - 1)
    BY DEF Front
  <2>2. Len(line) \in Nat \ {0}
    OBVIOUS
  <2>3. \A k \in 1 .. Len(line) - 1 : line[k] \in Chars
    BY <2>2, ElementOfSeq
  <2>4. PICK l \in Nat \ {0} : l = Len(line)
    BY <2>2
  <2>5. /\ Len(SubSeq(line, 1, l - 1)) = IF 1 <= l - 1 THEN (l - 1) - 1 + 1 ELSE 0
        /\ \A i \in 1 .. (l - 1) - 1 + 1 : SubSeq(line, 1, l - 1)[i] = line[1 + i - 1]
    <3>1. 1 \in Int /\ l - 1 \in Int /\ \A k \in 1 .. l - 1 : line[k] \in Chars
      BY <2>3, <2>4
    <3> QED BY <3>1, SubSeqProperties
  <2>6. Front(line) = SubSeq(line, 1, l - 1)
    BY <2>1, <2>4
  <2>7. \A i \in 1 .. l - 1 : i \in 1 .. (l - 1) - 1 + 1 /\ 1 + i - 1 = i
    OBVIOUS
  <2> QED BY <2>2, <2>4, <2>5, <2>6, <2>7
<1>6. ASSUME NEW k \in 1 .. Len(Front(line)), NEW r \in Rows, NEW c \in 0 .. Width - 1,
             r * Width + c = Pos(s) - Len(Front(line)) + k - 1
      PROVE  s.cells[r][c] = Front(line)[k]
  <2>1. PICK a : a = r * Width + c
    OBVIOUS
  <2>2. r * Width + c = Pos(scr) - Len(line) + k - 1 /\ k \in 1 .. Len(line) /\ a < Pos(scr) - 1
    BY <1>4, <1>5, <1>6, <2>1, PosFacts
  <2>3. scr.cells[r][c] = line[k]
    BY <2>2 DEF Holds
  <2>4. ~(r = scr.y /\ c = scr.x - 1)
    <3>1. SUFFICES ASSUME r = scr.y, c = scr.x - 1 PROVE FALSE
      OBVIOUS
    <3>2. PICK b \in Nat : b = scr.y * Width
      BY PosFacts
    <3>3. a = b + (scr.x - 1) /\ Pos(scr) = b + scr.x
      BY <2>1, <3>1, <3>2, PosFacts
    <3>4. a = Pos(scr) - 1
      BY <3>3, PosFacts
    <3> QED BY <2>2, <3>4, PosFacts
  <2>5. c \in Cols
    BY SizeFacts DEF Cols
  <2> QED BY <1>1, <1>3, <1>5, <2>3, <2>4, <2>5
<1>7. Len(Front(line)) <= Pos(s)
  BY <1>4, <1>5, PosFacts DEF Holds
<1> QED BY <1>6, <1>7 DEF Holds, s

\* The spaces of Tab stand on the screen as the buffer has them.
LEMMA SpacedExtends ==
  ASSUME NEW scr \in Screens, NEW line \in Seq(Chars), Holds(scr, line), line_run_over_flag,
         NEW n \in Nat, Len(line) + n <= BufferSize
  PROVE  Holds(Spaced(scr, n), line \o [i \in 1 .. n |-> Space])
<1> DEFINE Longer(i) == line \o [j \in 1 .. i |-> Space]
<1>1. PICK f \in [0 .. n -> Screens] :
        /\ f[0] = scr /\ \A i \in 1 .. n : f[i] = EchoSpace(f[i - 1])
        /\ Spaced(scr, n) = f[n]
  BY SpacedFacts
<1>2. ASSUME NEW i \in Nat
      PROVE  /\ Longer(i) \in Seq(Chars) /\ Len(Longer(i)) = Len(line) + i
             /\ Longer(i + 1) = Append(Longer(i), Space)
  <2>1. [j \in 1 .. i |-> Space] \in Seq(Chars) /\ Len([j \in 1 .. i |-> Space]) = i
    BY SizeFacts
  <2>2. [j \in 1 .. i + 1 |-> Space] \in Seq(Chars) /\ Len([j \in 1 .. i + 1 |-> Space]) = i + 1
    BY SizeFacts
  <2>3. Longer(i) \in Seq(Chars) /\ Len(Longer(i)) = Len(line) + i
    BY <2>1
  <2>4. Longer(i + 1) \in Seq(Chars) /\ Len(Longer(i + 1)) = Len(line) + (i + 1)
    BY <2>2
  <2>5. Append(Longer(i), Space) \in Seq(Chars) /\ Len(Append(Longer(i), Space)) = Len(line) + (i + 1)
    BY <2>3, SizeFacts
  <2>6. ASSUME NEW k \in 1 .. Len(line) + (i + 1)
        PROVE  Longer(i + 1)[k] = Append(Longer(i), Space)[k]
    <3>1. Longer(i + 1)[k] = IF k <= Len(line) THEN line[k] ELSE Space
      BY <2>2
    <3>2. Append(Longer(i), Space)[k] = IF k <= Len(line) + i THEN Longer(i)[k] ELSE Space
      BY <2>3
    <3>3. k <= Len(line) + i => Longer(i)[k] = IF k <= Len(line) THEN line[k] ELSE Space
      BY <2>1
    <3> HIDE DEF Longer
    <3> QED BY <3>1, <3>2, <3>3
  <2> HIDE DEF Longer
  <2> QED BY <2>3, <2>4, <2>5, <2>6, SeqEqual
<1>3. Longer(0) = line
  OBVIOUS
<1> HIDE DEF Longer
<1> DEFINE S == {i \in 0 .. n : Holds(f[i], Longer(i))}
<1>4. 0 \in S
  BY <1>1, <1>3
<1>5. ASSUME NEW i \in 0 .. n - 1, i \in S PROVE i + 1 \in S
  <2>1. i \in Nat /\ i \in 0 .. n /\ i + 1 \in 1 .. n /\ (i + 1) - 1 = i /\ f[i] \in Screens
    BY <1>1
  <2>2. Holds(f[i], Longer(i)) /\ Len(Longer(i)) < BufferSize /\ Longer(i) \in Seq(Chars)
    BY <1>2, <1>5, <2>1, SizeFacts
  <2>3. f[i + 1] = putc_line_runover(f[i], Space)
    BY <1>1, <2>1 DEF EchoSpace
  <2>4. Holds(f[i + 1], Append(Longer(i), Space))
    BY <2>1, <2>2, <2>3, SizeFacts, PutExtends
  <2>5. Longer(i + 1) = Append(Longer(i), Space)
    BY <1>2, <2>1
  <2>6. i + 1 \in 0 .. n
    BY <2>1
  <2>7. Holds(f[i + 1], Longer(i + 1))
    BY <2>4, <2>5
  <2> QED BY <2>6, <2>7
<1>6. n \in S
  <2>1. \A i \in 0 .. n : i \in S
    <3> HIDE DEF S
    <3> QED BY <1>4, <1>5, UpTo
  <2> QED BY <2>1
<1> QED BY <1>1, <1>6 DEF Longer

\* A line that ends at the cursor is what stands left of it.
LEMMA LineIsLeft ==
  ASSUME NEW scr \in Screens, NEW line \in Seq(Chars), Holds(scr, line)
  PROVE  LeftOfCursor(scr, Len(line)) = line
<1> DEFINE left == LeftOfCursor(scr, Len(line))
           w == NUM_COLS - 1
           at(k) == scr.y * w + scr.x - Len(line) + k - 1
<1>1. ASSUME NEW k \in 1 .. Len(line) PROVE left[k] = line[k]
  <2>1. PICK p : p = at(k)
    OBVIOUS
  <2>2. p \in Nat /\ p < Pos(scr) /\ p = Pos(scr) - Len(line) + k - 1
    BY <2>1, PosFacts DEF Holds, Width
  <2>3. left[k] = scr.cells[p \div Width][p % Width]
    <3>1. left[k] = IF p < 0 THEN Nul ELSE scr.cells[p \div w][p % w]
      BY <2>1 DEF LeftOfCursor
    <3> QED BY <2>2, <3>1 DEF Width
  <2>4. PICK r, c : r = p \div Width /\ c = p % Width
    OBVIOUS
  <2>5. r \in Nat /\ c \in 0 .. Width - 1 /\ p = Width * r + c
    BY <2>2, <2>4, SizeFacts, DivisionFacts
  <2>6. r \in Rows
    <3>1. SUFFICES ASSUME r >= NUM_ROWS PROVE FALSE
      BY <2>5, SizeFacts DEF Rows
    <3>2. scr.y + 1 <= r /\ scr.y + 1 \in Nat
      BY <2>5, <3>1, PosFacts, SizeFacts
    <3>3. PICK d \in Nat : r = (scr.y + 1) + d
      <4>1. r - (scr.y + 1) \in Nat /\ r = (scr.y + 1) + (r - (scr.y + 1))
        BY <2>5, <3>2
      <4> QED BY <4>1
    <3>4. PICK v \in Nat, y \in Nat : v = Width /\ y = scr.y
      <4>1. Width \in Nat /\ scr.y \in Nat
        BY PosFacts, SizeFacts
      <4> QED BY <4>1
    <3>5. v * ((y + 1) + d) = y * v + v + v * d /\ v * d \in Nat /\ y * v \in Nat
      OBVIOUS
    <3>6. PICK a \in Nat, b \in Nat : a = y * v /\ b = v * d
      BY <3>5
    <3>7. p = a + v + b + c
      BY <2>5, <3>3, <3>4, <3>5, <3>6
    <3>8. Pos(scr) = a + scr.x /\ scr.x <= v /\ scr.x \in Nat
      BY <3>4, <3>6, PosFacts
    <3> QED BY <2>2, <2>5, <3>7, <3>8, SizeFacts
  <2>7. r * Width + c = Pos(scr) - Len(line) + k - 1
    BY <2>2, <2>5, SizeFacts
  <2>8. scr.cells[r][c] = line[k]
    BY <2>5, <2>6, <2>7 DEF Holds
  <2> QED BY <2>3, <2>4, <2>8
<1>2. left = [k \in 1 .. Len(line) |-> left[k]]
  BY DEF LeftOfCursor
<1>3. line = [k \in 1 .. Len(line) |-> line[k]]
  OBVIOUS
<1> HIDE DEF left
<1>4. left = line
  BY <1>1, <1>2, <1>3
<1> QED BY <1>4 DEF left
-----------------------------------------------------------------------------
(* The steps: what a key and a write change, then each part of the invariant. *)

LEMMA Displayed ==
  ASSUME ShapeInv, NEW scr \in Screens, Display(scr)
  PROVE  /\ screen' \in [Terminals -> Screens] /\ screen'[t0] = scr
         /\ \A t \in Terminals : t # t0 => screen'[t] = screen[t]
BY DEF ShapeInv, Display, t0

LEMMA Edited ==
  ASSUME ShapeInv, NEW line \in Seq(Chars), Edit(line)
  PROVE  /\ buffer' \in [Terminals -> Seq(Chars)] /\ buffer'[t0] = line
         /\ \A t \in Terminals : t # t0 => buffer'[t] = buffer[t]
BY DEF ShapeInv, Edit, t0

LEMMA HistoryOf ==
  ASSUME ShapeInv, NEW keyIsPlain \in BOOLEAN, Recorded(keyIsPlain)
  PROVE  /\ plain' \in [Terminals -> BOOLEAN] /\ shown_line' = <<>>
         /\ \A t \in Terminals : t # t0 => plain'[t] = plain[t]
         /\ plain'[t0] => buffer'[t0] = <<>> \/ (plain[t0] /\ Waiting /\ keyIsPlain)
<1> DEFINE b == buffer'[t0] = <<>> \/ (plain[t0] /\ Waiting /\ keyIsPlain)
<1>1. plain' = [plain EXCEPT ![t0] = b] /\ shown_line' = <<>>
  BY DEF Recorded
<1>2. b \in BOOLEAN
  OBVIOUS
<1>3. plain \in [Terminals -> BOOLEAN] /\ t0 \in Terminals
  BY DEF ShapeInv, t0
<1> HIDE DEF b
<1>4. plain' \in [Terminals -> BOOLEAN] /\ plain'[t0] = b
  BY <1>1, <1>2, <1>3
<1>5. \A t \in Terminals : t # t0 => plain'[t] = plain[t]
  BY <1>1, <1>3
<1> QED BY <1>1, <1>4, <1>5 DEF b

\* The columns and cells matter only left of the cursor: an empty line is anywhere.
LEMMA EmptyHeld ==
  ASSUME NEW scr \in Screens
  PROVE  Holds(scr, <<>>)
BY PosFacts DEF Holds

\* What the functions give for the displayed terminal.
LEMMA Drawn ==
  ASSUME ShapeInv
  PROVE  /\ screen[t0] \in Screens /\ buffer[t0] \in Seq(Chars) /\ Len(buffer[t0]) \in Nat
         /\ t0 \in Terminals
         /\ \A c \in Letters : putc_line_runover(screen[t0], c) \in Screens
         /\ \A n \in Nat : Spaced(screen[t0], n) \in Screens
         /\ set_pos(clear(screen[t0]), 0, 0) \in Screens
         /\ backspace_to_prev(screen[t0]) \in Screens /\ EnterEcho(screen[t0]) \in Screens
         /\ \A str \in Outputs : write_string_to_screen(screen[t0], str) \in Screens
<1>1. screen[t0] \in Screens /\ buffer[t0] \in Seq(Chars) /\ t0 \in Terminals
  BY DEF ShapeInv, t0
<1>2. \A c \in Letters : c \in Chars \ {Newline}
  BY LineAssumption
<1>3. \A str \in Outputs : str \in Seq(Chars)
  BY LineAssumption
<1>4. \A n \in Nat : Spaced(screen[t0], n) \in Screens
  <2> TAKE n \in Nat
  <2>1. PICK f \in [0 .. n -> Screens] : Spaced(screen[t0], n) = f[n]
    BY <1>1, SpacedFacts
  <2> QED BY <2>1
<1>5. set_pos(clear(screen[t0]), 0, 0) \in Screens
  <2>1. BlankCells \in [Rows -> [Cols -> Chars]] /\ 0 \in Rows /\ 0 \in Cols
    BY SizeFacts DEF BlankCells, Rows, Cols
  <2> QED BY <1>1, <2>1 DEF set_pos, clear, Screens
<1>6. Len(buffer[t0]) \in Nat
  BY <1>1
<1>7. backspace_to_prev(screen[t0]) \in Screens /\ EnterEcho(screen[t0]) \in Screens
  BY <1>1, BackspaceOnScreen, EnterOnScreen
<1>8. \A c \in Letters : putc_line_runover(screen[t0], c) \in Screens
  BY <1>1, <1>2, PutOnScreen
<1>9. \A str \in Outputs : write_string_to_screen(screen[t0], str) \in Screens
  BY <1>1, <1>3, WriteOnScreen
<1> QED BY <1>1, <1>4, <1>5, <1>6, <1>7, <1>8, <1>9

\* Lines that keys make, and the room they take.
LEMMA LinesFit ==
  ASSUME ShapeInv, RoomInv
  PROVE  LET line == buffer[t0]
             room == BufferSize - Len(line)
             n == IF room < TabWidth THEN room ELSE TabWidth
             tabbed == line \o [i \in 1 .. n |-> Space]
         IN  /\ n \in Nat /\ Len(line) + n <= BufferSize
             /\ tabbed \in Seq(Chars) /\ Len(tabbed) <= BufferSize
             /\ line # <<>> => Front(line) \in Seq(Chars) /\ Len(Front(line)) <= BufferSize
             /\ \A c \in Letters : Len(line) < BufferSize =>
                  Append(line, c) \in Seq(Chars) /\ Len(Append(line, c)) <= BufferSize
<1> DEFINE line == buffer[t0]
           room == BufferSize - Len(line)
           n == IF room < TabWidth THEN room ELSE TabWidth
           spaces == [i \in 1 .. n |-> Space]
<1>1. line \in Seq(Chars) /\ Len(line) \in Nat /\ Len(line) <= BufferSize
  BY Drawn DEF RoomInv
<1>2. n \in Nat /\ Len(line) + n <= BufferSize
  <2>1. PICK l \in Nat : l = Len(line)
    BY <1>1
  <2>2. l <= BufferSize /\ BufferSize \in Nat /\ TabWidth \in Nat
    BY <1>1, <2>1, SizeFacts
  <2>3. n = IF BufferSize - l < TabWidth THEN BufferSize - l ELSE TabWidth
    BY <2>1
  <2> HIDE DEF n, line
  <2> QED BY <2>1, <2>2, <2>3
<1>3. line \o spaces \in Seq(Chars) /\ Len(line \o spaces) <= BufferSize
  <2> HIDE DEF n, line
  <2>1. spaces \in Seq(Chars) /\ Len(spaces) = n
    BY <1>2, SizeFacts
  <2> HIDE DEF spaces
  <2> QED BY <1>1, <1>2, <2>1
<1>4. line # <<>> => Front(line) \in Seq(Chars) /\ Len(Front(line)) <= BufferSize
  <2> SUFFICES ASSUME line # <<>> PROVE Front(line) \in Seq(Chars) /\ Len(Front(line)) <= BufferSize
    OBVIOUS
  <2> HIDE DEF line
  <2>1. PICK l \in Nat \ {0} : l = Len(line)
    BY <1>1
  <2>2. 1 \in Int /\ l - 1 \in Int /\ \A k \in 1 .. l - 1 : line[k] \in Chars
    BY <1>1, <2>1, ElementOfSeq
  <2>3. /\ SubSeq(line, 1, l - 1) \in Seq(Chars)
        /\ Len(SubSeq(line, 1, l - 1)) = IF 1 <= l - 1 THEN (l - 1) - 1 + 1 ELSE 0
    BY <2>2, SubSeqProperties
  <2>4. Front(line) = SubSeq(line, 1, l - 1)
    BY <2>1 DEF Front
  <2> QED BY <1>1, <2>1, <2>3, <2>4, SizeFacts
<1>5. \A c \in Letters : Len(line) < BufferSize =>
        Append(line, c) \in Seq(Chars) /\ Len(Append(line, c)) <= BufferSize
  <2>1. \A c \in Letters : c \in Chars
    BY LineAssumption
  <2> HIDE DEF line
  <2> QED BY <1>1, <2>1, SizeFacts
<1> QED BY <1>2, <1>3, <1>4, <1>5

\* An empty line is plain wherever the cursor is; other lines of the displayed
\* terminal are plain only as the key leaves them; no other terminal changes.
LEMMA EchoAfter ==
  ASSUME IInv, screen' \in [Terminals -> Screens],
         \A t \in Terminals : t # t0 =>
           screen'[t] = screen[t] /\ buffer'[t] = buffer[t] /\ plain'[t] = plain[t],
         plain'[t0] => buffer'[t0] = <<>> \/ Holds(screen'[t0], buffer'[t0])
  PROVE  EchoInv'
<1>2. SUFFICES ASSUME NEW t \in Terminals, plain'[t] PROVE Holds(screen'[t], buffer'[t])
  BY DEF EchoInv, Holds, Pos
<1>3. CASE t = t0
  BY <1>2, <1>3, EmptyHeld
<1>4. CASE t # t0
  BY <1>2, <1>4 DEF IInv, EchoInv
<1> QED BY <1>3, <1>4

LEMMA ShapeStep ==
  ASSUME IInv, [Next]_vars
  PROVE  ShapeInv' /\ RoomInv'
<1> USE DEF IInv
<1>1. CASE CharKey
  <2>1. PICK c \in Letters : Typed(c)
    BY <1>1 DEF CharKey
  <2>2. screen' \in [Terminals -> Screens] /\ buffer' \in [Terminals -> Seq(Chars)] /\ RoomInv'
    <3>1. CASE Len(buffer[t0]) < BufferSize
      <4>1. Display(putc_line_runover(screen[t0], c)) /\ Edit(Append(buffer[t0], c))
        BY <2>1, <3>1 DEF Typed
      <4>2. putc_line_runover(screen[t0], c) \in Screens
        BY Drawn
      <4>3. Append(buffer[t0], c) \in Seq(Chars) /\ Len(Append(buffer[t0], c)) <= BufferSize
        BY <3>1, LinesFit
      <4> QED BY <4>1, <4>2, <4>3, Displayed, Edited DEF RoomInv
    <3>2. CASE ~(Len(buffer[t0]) < BufferSize)
      BY <2>1, <3>2 DEF Typed, ShapeInv, RoomInv
    <3> QED BY <3>1, <3>2
  <2>3. plain' \in [Terminals -> BOOLEAN]
    BY <1>1, HistoryOf DEF CharKey
  <2> QED BY <1>1, <2>2, <2>3 DEF CharKey, ShapeInv
<1>2. CASE CtrlL
  <2>1. screen' \in [Terminals -> Screens]
    BY <1>2, Drawn, Displayed DEF CtrlL
  <2>2. <<>> \in Seq(Chars) /\ Len(<<>>) <= BufferSize
    BY SizeFacts
  <2>3. buffer' \in [Terminals -> Seq(Chars)] /\ RoomInv'
    BY <1>2, <2>2, Edited DEF CtrlL, RoomInv
  <2>4. plain' \in [Terminals -> BOOLEAN]
    BY <1>2, HistoryOf DEF CtrlL
  <2> QED BY <1>2, <2>1, <2>3, <2>4 DEF CtrlL, ShapeInv
<1>3. CASE AltFn
  BY <1>3 DEF AltFn, ShapeInv, RoomInv
<1>4. CASE Tab
  <2> DEFINE room == BufferSize - Len(buffer[t0])
             n == IF room < TabWidth THEN room ELSE TabWidth
             tabbed == buffer[t0] \o [i \in 1 .. n |-> Space]
  <2>1. Display(Spaced(screen[t0], n)) /\ Edit(tabbed)
    BY <1>4 DEF Tab
  <2>2. n \in Nat /\ tabbed \in Seq(Chars) /\ Len(tabbed) <= BufferSize
    BY LinesFit
  <2> HIDE DEF n, tabbed
  <2>3. screen' \in [Terminals -> Screens]
    BY <2>1, <2>2, Drawn, Displayed
  <2>4. buffer' \in [Terminals -> Seq(Chars)] /\ RoomInv'
    BY <2>1, <2>2, Edited DEF RoomInv
  <2>5. plain' \in [Terminals -> BOOLEAN]
    BY <1>4, HistoryOf DEF Tab
  <2> QED BY <1>4, <2>3, <2>4, <2>5 DEF Tab, ShapeInv
<1>5. CASE Backspace
  <2>1. screen' \in [Terminals -> Screens]
    BY <1>5, Drawn, Displayed DEF Backspace
  <2>2. Front(buffer[t0]) \in Seq(Chars) /\ Len(Front(buffer[t0])) <= BufferSize
    BY <1>5, LinesFit DEF Backspace
  <2>3. buffer' \in [Terminals -> Seq(Chars)] /\ RoomInv'
    <3>1. CASE line_run_over_flag
      BY <1>5, <2>2, <3>1, Edited DEF Backspace, RoomInv
    <3>2. CASE ~line_run_over_flag
      BY <1>5, <3>2 DEF Backspace, ShapeInv, RoomInv
    <3> QED BY <3>1, <3>2
  <2>4. plain' \in [Terminals -> BOOLEAN]
    BY <1>5, HistoryOf DEF Backspace
  <2> QED BY <1>5, <2>1, <2>3, <2>4 DEF Backspace, ShapeInv
<1>6. CASE Enter
  <2>1. screen' \in [Terminals -> Screens]
    BY <1>6, Drawn, Displayed DEF Enter
  <2>2. plain' \in [Terminals -> BOOLEAN]
    BY <1>6 DEF Enter, ShapeInv, t0
  <2> QED BY <1>6, <2>1, <2>2 DEF Enter, ShapeInv, RoomInv
<1>7. CASE Write
  <2>1. screen' \in [Terminals -> Screens]
    BY <1>7, Drawn, Displayed DEF Write
  <2>2. <<>> \in Seq(Chars) /\ Len(<<>>) <= BufferSize
    BY SizeFacts
  <2>3. buffer' \in [Terminals -> Seq(Chars)] /\ RoomInv'
    BY <1>7, <2>2, Edited DEF Write, RoomInv
  <2>4. plain' \in [Terminals -> BOOLEAN]
    BY <1>7 DEF Write, ShapeInv, t0
  <2> QED BY <1>7, <2>1, <2>3, <2>4 DEF Write, ShapeInv
<1>8. CASE ReadCall \/ ResetEnter \/ TestEnter \/ SetFlag \/ ClearFlag
  <2>1. UNCHANGED <<screen, buffer, terminal_on_display, plain>>
    BY <1>8 DEF ReadCall, ResetEnter, TestEnter, SetFlag, ClearFlag
  <2>2. enter' \in BOOLEAN /\ line_run_over_flag' \in BOOLEAN
    BY <1>8 DEF ReadCall, ResetEnter, TestEnter, SetFlag, ClearFlag, ShapeInv
  <2>3. pc' \in Points
    BY <1>8 DEF ReadCall, ResetEnter, TestEnter, SetFlag, ClearFlag, Points
  <2>4. result' \in Seq(Chars)
    <3>1. <<>> \in Seq(Chars)
      OBVIOUS
    <3> QED BY <1>8, <3>1 DEF ReadCall, ResetEnter, TestEnter, SetFlag, ClearFlag, ShapeInv
  <2> QED BY <2>1, <2>2, <2>3, <2>4 DEF ShapeInv, RoomInv
<1>9. CASE TakeLine
  <2>1. <<>> \in Seq(Chars) /\ Len(<<>>) <= BufferSize
    BY SizeFacts
  <2>2. buffer' \in [Terminals -> Seq(Chars)] /\ RoomInv'
    BY <1>9, <2>1, Edited DEF TakeLine, RoomInv
  <2>3. plain' \in [Terminals -> BOOLEAN]
    BY <1>9 DEF TakeLine, ShapeInv, t0
  <2>4. result' \in Seq(Chars)
    <3>1. PICK n \in ReadSizes : result' = Copied(n)
      BY <1>9 DEF TakeLine
    <3>2. PICK l \in Nat : l = Len(buffer[t0])
      BY Drawn
    <3>3. PICK m \in Int : m = IF n - 1 < l THEN n - 1 ELSE l
      BY <3>2, LineAssumption
    <3>4. m <= l /\ 1 \in Int
      BY <3>2, <3>3, LineAssumption
    <3>5. \A i \in 1 .. m : buffer[t0][i] \in Chars
      BY <3>2, <3>4, Drawn, ElementOfSeq
    <3>6. Copied(n) = SubSeq(buffer[t0], 1, m)
      BY <3>2, <3>3 DEF Copied
    <3> QED BY <3>1, <3>4, <3>5, <3>6, SubSeqProperties
  <2> QED BY <1>9, <2>2, <2>3, <2>4 DEF TakeLine, ShapeInv, Points
<1>10. CASE UNCHANGED vars
  BY <1>10 DEF vars, ShapeInv, RoomInv
<1> QED BY <1>1, <1>2, <1>3, <1>4, <1>5, <1>6, <1>7, <1>8, <1>9, <1>10 DEF Next, Keyboard, Reader

LEMMA EchoStep ==
  ASSUME IInv, [Next]_vars
  PROVE  EchoInv'
<1> USE DEF IInv
<1>1. screen' \in [Terminals -> Screens] /\ screen[t0] \in Screens /\ buffer[t0] \in Seq(Chars)
  BY ShapeStep, Drawn DEF ShapeInv
<1>2. plain[t0] => Holds(screen[t0], buffer[t0])
  BY Drawn DEF EchoInv
<1>3. CASE CharKey
  <2>1. PICK c \in Letters : Typed(c)
    BY <1>3 DEF CharKey
  <2>2. Recorded(TRUE)
    BY <1>3 DEF CharKey
  <2>3. CASE Len(buffer[t0]) < BufferSize
    <3>1. Display(putc_line_runover(screen[t0], c)) /\ Edit(Append(buffer[t0], c))
      BY <2>1, <2>3 DEF Typed
    <3>2. putc_line_runover(screen[t0], c) \in Screens /\ Append(buffer[t0], c) \in Seq(Chars)
          /\ c \in Chars \ {Newline}
      BY <2>3, Drawn, LinesFit, LineAssumption
    <3>3. plain[t0] => Holds(putc_line_runover(screen[t0], c), Append(buffer[t0], c))
      BY <1>1, <1>2, <2>3, <3>2, PutExtends
    <3>4. \A t \in Terminals : t # t0 =>
            screen'[t] = screen[t] /\ buffer'[t] = buffer[t] /\ plain'[t] = plain[t]
      BY <2>2, <3>1, <3>2, Displayed, Edited, HistoryOf
    <3>5. plain'[t0] => buffer'[t0] = <<>> \/ Holds(screen'[t0], buffer'[t0])
      <4>1. screen'[t0] = putc_line_runover(screen[t0], c) /\ buffer'[t0] = Append(buffer[t0], c)
        BY <3>1, <3>2, Displayed, Edited
      <4>2. plain'[t0] => buffer'[t0] = <<>> \/ plain[t0]
        BY <2>2, HistoryOf
      <4> QED BY <3>3, <4>1, <4>2
    <3> QED BY <1>1, <3>4, <3>5, EchoAfter
  <2>4. CASE ~(Len(buffer[t0]) < BufferSize)
    <3>1. screen' = screen /\ buffer' = buffer
      BY <2>1, <2>4 DEF Typed
    <3>2. \A t \in Terminals : t # t0 => plain'[t] = plain[t]
      BY <2>2, HistoryOf
    <3>3. plain'[t0] => buffer'[t0] = <<>> \/ plain[t0]
      BY <2>2, HistoryOf
    <3> QED BY <1>1, <1>2, <3>1, <3>2, <3>3, EchoAfter
  <2> QED BY <2>3, <2>4
<1>4. CASE CtrlL
  <2>1. \A t \in Terminals : t # t0 => screen'[t] = screen[t]
    BY <1>4, Drawn, Displayed DEF CtrlL
  <2>2. <<>> \in Seq(Chars)
    OBVIOUS
  <2>3. buffer'[t0] = <<>> /\ \A t \in Terminals : t # t0 => buffer'[t] = buffer[t]
    BY <1>4, <2>2, Edited DEF CtrlL
  <2>4. \A t \in Terminals : t # t0 => plain'[t] = plain[t]
    BY <1>4, HistoryOf DEF CtrlL
  <2> QED BY <1>1, <2>1, <2>3, <2>4, EchoAfter
<1>5. CASE AltFn
  BY <1>1, <1>5 DEF AltFn, EchoInv
<1>6. CASE Tab
  <2> DEFINE room == BufferSize - Len(buffer[t0])
             n == IF room < TabWidth THEN room ELSE TabWidth
             tabbed == buffer[t0] \o [i \in 1 .. n |-> Space]
  <2>1. Display(Spaced(screen[t0], n)) /\ Edit(tabbed) /\ Recorded(TRUE)
    BY <1>6 DEF Tab
  <2>2. n \in Nat /\ Len(buffer[t0]) + n <= BufferSize /\ tabbed \in Seq(Chars)
    BY LinesFit
  <2> HIDE DEF n
  <2>3. Waiting /\ plain[t0] => Holds(Spaced(screen[t0], n), tabbed)
    BY <1>1, <1>2, <2>2, SpacedExtends DEF Waiting
  <2> HIDE DEF tabbed
  <2>4. /\ screen'[t0] = Spaced(screen[t0], n)
        /\ \A t \in Terminals : t # t0 => screen'[t] = screen[t]
    BY <2>1, <2>2, Drawn, Displayed
  <2>5. buffer'[t0] = tabbed /\ \A t \in Terminals : t # t0 => buffer'[t] = buffer[t]
    BY <2>1, <2>2, Edited
  <2>6. /\ plain'[t0] => buffer'[t0] = <<>> \/ (plain[t0] /\ Waiting)
        /\ \A t \in Terminals : t # t0 => plain'[t] = plain[t]
    BY <2>1, HistoryOf
  <2>7. plain'[t0] => buffer'[t0] = <<>> \/ Holds(screen'[t0], buffer'[t0])
    BY <2>3, <2>4, <2>5, <2>6
  <2> QED BY <1>1, <2>4, <2>5, <2>6, <2>7, EchoAfter
<1>7. CASE Backspace
  <2> DEFINE inRow == screen[t0].x # 0
  <2>1. /\ screen'[t0] = backspace_to_prev(screen[t0])
        /\ \A t \in Terminals : t # t0 => screen'[t] = screen[t]
    BY <1>7, Drawn, Displayed DEF Backspace
  <2>2. buffer[t0] # <<>> /\ Front(buffer[t0]) \in Seq(Chars)
    BY <1>7, LinesFit DEF Backspace
  <2>3. /\ line_run_over_flag => buffer'[t0] = Front(buffer[t0])
        /\ ~line_run_over_flag => buffer'[t0] = buffer[t0]
        /\ \A t \in Terminals : t # t0 => buffer'[t] = buffer[t]
    <3>1. CASE line_run_over_flag
      BY <1>7, <2>2, <3>1, Edited DEF Backspace
    <3>2. CASE ~line_run_over_flag
      BY <1>7, <3>2 DEF Backspace
    <3> QED BY <3>1, <3>2
  <2>4. Recorded(inRow) /\ inRow \in BOOLEAN
    BY <1>7 DEF Backspace
  <2> HIDE DEF inRow
  <2>5. /\ plain'[t0] => buffer'[t0] = <<>> \/ (plain[t0] /\ Waiting /\ inRow)
        /\ \A t \in Terminals : t # t0 => plain'[t] = plain[t]
    BY <2>4, HistoryOf
  <2>6. plain[t0] /\ inRow => Holds(backspace_to_prev(screen[t0]), Front(buffer[t0]))
    BY <1>1, <1>2, <2>2, BackspaceShortens DEF inRow
  <2>7. plain'[t0] => buffer'[t0] = <<>> \/ Holds(screen'[t0], buffer'[t0])
    BY <2>1, <2>3, <2>5, <2>6 DEF Waiting
  <2> QED BY <1>1, <2>1, <2>3, <2>5, <2>7, EchoAfter
<1>8. CASE Enter
  <2>1. \A t \in Terminals : t # t0 => screen'[t] = screen[t]
    BY <1>8, Drawn, Displayed DEF Enter
  <2>2. buffer' = buffer
    BY <1>8 DEF Enter
  <2>3. plain'[t0] = (buffer[t0] = <<>>) /\ \A t \in Terminals : t # t0 => plain'[t] = plain[t]
    BY <1>8 DEF Enter, ShapeInv, t0
  <2> QED BY <1>1, <2>1, <2>2, <2>3, EchoAfter
<1>9. CASE Write
  <2>1. \A t \in Terminals : t # t0 => screen'[t] = screen[t]
    BY <1>9, Drawn, Displayed DEF Write
  <2>2. <<>> \in Seq(Chars)
    OBVIOUS
  <2>3. buffer'[t0] = <<>> /\ \A t \in Terminals : t # t0 => buffer'[t] = buffer[t]
    BY <1>9, <2>2, Edited DEF Write
  <2>4. \A t \in Terminals : t # t0 => plain'[t] = plain[t]
    BY <1>9 DEF Write, ShapeInv
  <2> QED BY <1>1, <2>1, <2>3, <2>4, EchoAfter
<1>10. CASE ReadCall \/ ResetEnter \/ TestEnter \/ SetFlag \/ ClearFlag
  <2>1. UNCHANGED <<screen, buffer, plain>>
    BY <1>10 DEF ReadCall, ResetEnter, TestEnter, SetFlag, ClearFlag
  <2> QED BY <2>1 DEF EchoInv, Holds, Pos
<1>11. CASE TakeLine
  <2>1. <<>> \in Seq(Chars) /\ screen' = screen
    BY <1>11 DEF TakeLine
  <2>2. buffer'[t0] = <<>> /\ \A t \in Terminals : t # t0 => buffer'[t] = buffer[t]
    BY <1>11, <2>1, Edited DEF TakeLine
  <2>3. \A t \in Terminals : t # t0 => plain'[t] = plain[t]
    BY <1>11 DEF TakeLine, ShapeInv
  <2> QED BY <1>1, <2>1, <2>2, <2>3, EchoAfter
<1>12. CASE UNCHANGED vars
  BY <1>12 DEF vars, EchoInv, Holds, Pos
<1> QED BY <1>3, <1>4, <1>5, <1>6, <1>7, <1>8, <1>9, <1>10, <1>11, <1>12 DEF Next, Keyboard, Reader

LEMMA ShownStep ==
  ASSUME IInv, [Next]_vars
  PROVE  ShownInv'
<1> USE DEF IInv
<1>1. CASE CharKey \/ CtrlL \/ AltFn \/ Tab \/ Backspace
  BY <1>1 DEF CharKey, CtrlL, AltFn, Tab, Backspace, Recorded, ShownInv
<1>2. CASE Enter
  <2>1. buffer' = buffer /\ terminal_on_display' = terminal_on_display /\ pc' = pc
        /\ line_run_over_flag' = line_run_over_flag
    BY <1>2 DEF Enter
  <2>2. CASE Waiting /\ plain[t0]
    <3>1. shown_line' = <<LeftOfCursor(screen[t0], Len(buffer[t0]))>>
      BY <1>2, <2>2 DEF Enter
    <3>2. screen[t0] \in Screens /\ buffer[t0] \in Seq(Chars) /\ Holds(screen[t0], buffer[t0])
      BY <2>2, Drawn DEF EchoInv
    <3>3. shown_line' = <<buffer[t0]>>
      BY <3>1, <3>2, LineIsLeft
    <3>4. pc \in {"test", "body", "leave"}
      BY <2>2 DEF ShownInv, Waiting
    <3> QED BY <2>1, <3>3, <3>4 DEF ShownInv, t0
  <2>3. CASE ~(Waiting /\ plain[t0])
    <3>1. shown_line' = <<>>
      BY <1>2, <2>3 DEF Enter
    <3> QED BY <2>1, <3>1 DEF ShownInv
  <2> QED BY <2>2, <2>3
<1>3. CASE Write
  <2>1. pc = "user" /\ UNCHANGED <<pc, line_run_over_flag, shown_line>>
    BY <1>3 DEF Write
  <2>2. shown_line = <<>>
    BY <2>1 DEF ShownInv
  <2> QED BY <2>1, <2>2 DEF ShownInv
<1>4. CASE ReadCall \/ ResetEnter
  BY <1>4 DEF ReadCall, ResetEnter, ShownInv
<1>5. CASE TestEnter \/ SetFlag \/ ClearFlag
  BY <1>5 DEF TestEnter, SetFlag, ClearFlag, ShownInv, t0
<1>6. CASE TakeLine
  BY <1>6 DEF TakeLine, ShownInv
<1>7. CASE UNCHANGED vars
  BY <1>7 DEF vars, ShownInv, t0
<1> QED BY <1>1, <1>2, <1>3, <1>4, <1>5, <1>6, <1>7 DEF Next, Keyboard, Reader
-----------------------------------------------------------------------------
\* The line invariant: shapes, room in the buffers, echo and the line that was
\* shown hold together.
THEOREM Invariance == Spec => []IInv
<1>1. Init => IInv
  <2> SUFFICES ASSUME Init PROVE IInv
    OBVIOUS
  <2> DEFINE blank == [x |-> 0, y |-> 0, cells |-> BlankCells]
  <2>1. blank \in Screens
    BY SizeFacts DEF Screens, BlankCells, Rows, Cols
  <2> HIDE DEF blank
  <2>2. ShapeInv /\ ShownInv
    <3>1. <<>> \in Seq(Chars)
      OBVIOUS
    <3>2. screen \in [Terminals -> Screens]
      BY <2>1 DEF Init, blank
    <3>3. buffer \in [Terminals -> Seq(Chars)] /\ plain \in [Terminals -> BOOLEAN]
      BY <3>1 DEF Init
    <3> QED BY <3>1, <3>2, <3>3 DEF Init, ShapeInv, ShownInv, Points
  <2>3. RoomInv
    BY SizeFacts DEF Init, RoomInv
  <2>4. EchoInv
    <3>1. \A t \in Terminals : screen[t] \in Screens /\ buffer[t] = <<>>
      BY <2>1 DEF Init, blank
    <3> QED BY <3>1, EmptyHeld DEF EchoInv
  <2> QED BY <2>2, <2>3, <2>4 DEF IInv
<1>2. IInv /\ [Next]_vars => IInv'
  BY ShapeStep, EchoStep, ShownStep DEF IInv
<1> QED BY <1>1, <1>2, PTL DEF Spec

\* No buffer overflows, by keys or by Tab, and echo, Backspace, scrolling and
\* output keep the cursor on the screen.
THEOREM TypeCorrect == Spec => []TypeOK
<1>1. IInv => TypeOK
  BY DEF IInv, ShapeInv, RoomInv, TypeOK
<1> QED BY <1>1, Invariance, PTL

\* What stands left of the cursor while a plain line is edited is what the
\* program will get, however often the line wrapped and the screen scrolled.
THEOREM EchoFaithful == Spec => []EchoMatchesBuffer
<1>1. IInv => EchoMatchesBuffer
  <2> SUFFICES ASSUME IInv, plain[t0] PROVE LeftOfCursor(screen[t0], Len(buffer[t0])) = buffer[t0]
    BY DEF EchoMatchesBuffer
  <2>1. screen[t0] \in Screens /\ buffer[t0] \in Seq(Chars) /\ Holds(screen[t0], buffer[t0])
    BY Drawn DEF IInv, EchoInv
  <2> QED BY <2>1, LineIsLeft
<1> QED BY <1>1, Invariance, PTL

\* terminal_read returns the line that stood on the screen at Enter.
THEOREM ShownLineReturned == Spec => ReadReturnsShownLine
<1> DEFINE Returned == TakeLine /\ shown_line # <<>> =>
             LET line == shown_line[1]
             IN  \E n \in ReadSizes :
                   result' = SubSeq(line, 1, IF n - 1 < Len(line) THEN n - 1 ELSE Len(line))
<1>1. IInv /\ [Next]_vars => [Returned]_vars
  <2> SUFFICES ASSUME IInv, TakeLine, shown_line # <<>> PROVE Returned
    OBVIOUS
  <2>1. shown_line[1] = buffer[t0]
    BY DEF IInv, ShownInv
  <2>2. PICK n \in ReadSizes : result' = Copied(n)
    BY DEF TakeLine
  <2> QED BY <2>1, <2>2 DEF Copied
<1>2. [][Returned]_vars <=> ReadReturnsShownLine
  BY PTL DEF ReadReturnsShownLine
<1> QED BY <1>1, <1>2, Invariance, PTL DEF Spec
=============================================================================
