------------------------------ MODULE LineInput ------------------------------
(***************************************************************************)
(* The line editor: the keyboard interrupt handler (keyboard.c) that       *)
(* echoes keys and fills the terminal buffers, and terminal_read, which    *)
(* waits in a loop for the Enter key with interrupts enabled and takes the *)
(* line.  One program reads at a time.                                     *)
(*                                                                         *)
(* Each terminal has a screen of its own, screen[t]: that the one visible  *)
(* page and the saved pages behave so is shown of TerminalSwitch.  The     *)
(* handler runs with interrupts disabled, so a key is one action; so is a  *)
(* write, which starts with cli.  The steps of terminal_read between which *)
(* a key can come are actions of their own.                                *)
(***************************************************************************)
EXTENDS Screen

CONSTANTS
  Terminals,   \* 0..2
  BufferSize,  \* 127: the characters of a terminal_buffer that are filled
  TabWidth,    \* 5
  Letters,     \* the characters that keys produce
  Outputs,     \* strings that programs write
  ReadSizes,   \* the nbytes that programs read
  AnyTime      \* whether keys come at any time, or only while a read waits and
               \* no Backspace at the start of a row

\* The screen holds a line, so that scrolling never takes its first character.
ASSUME LineAssumption ==
  /\ BufferSize \in Nat /\ TabWidth \in Nat
  /\ BufferSize - 1 <= (NUM_ROWS - 1) * (NUM_COLS - 1)
  /\ Letters \subseteq Chars \ {Newline, Nul}
  /\ Outputs \subseteq Seq(Chars)
  /\ ReadSizes \subseteq Nat \ {0} /\ AnyTime \in BOOLEAN

VARIABLES
  screen,               \* screen[t]: cells and cursor of terminal t
  buffer,               \* buffer[t]: terminal_buffer up to terminal_buffer_idxs
  terminal_on_display,
  enter,                \* the Enter key has been pressed
  line_run_over_flag,   \* terminal_read is waiting
  pc,                   \* where the program is, see Points
  result,               \* the caller's buf, up to its first NUL
  plain,                \* history: plain[t], the line in buffer[t] was made by
                        \* keys that a waiting read got, and no Backspace among
                        \* them came at the start of a row
  shown_line            \* history: <<what stood left of the cursor>> at the
                        \* Enter that ended a plain line, until the line is
                        \* taken or another key comes; <<>> otherwise

vars == <<screen, buffer, terminal_on_display, enter, line_run_over_flag, pc,
          result, plain, shown_line>>

\* user: outside terminal_read; then, in terminal_read, before enter = 0, at
\* the test of the loop, in its body, after it and before cli()
Points == {"user", "reset", "test", "body", "leave", "take"}

t0 == terminal_on_display

Init ==
  /\ screen = [t \in Terminals |-> [x |-> 0, y |-> 0, cells |-> BlankCells]]
  /\ buffer = [t \in Terminals |-> <<>>]
  /\ terminal_on_display \in Terminals
  /\ enter = FALSE /\ line_run_over_flag = FALSE
  /\ pc = "user" /\ result = <<>>
  /\ plain = [t \in Terminals |-> TRUE] /\ shown_line = <<>>
-----------------------------------------------------------------------------
\* The n characters left of the cursor, in the columns that
\* putc_line_runover uses: all but the last.
LeftOfCursor(scr, n) ==
  LET w == NUM_COLS - 1
      at(k) == scr.y * w + scr.x - n + k - 1
      cell(p) == IF p < 0 THEN Nul ELSE scr.cells[p \div w][p % w]
  IN  [k \in 1 .. n |-> cell(at(k))]

\* A read waits for the line that is being edited.
Waiting  == line_run_over_flag /\ ~enter
Admitted == Waiting \/ AnyTime

Display(scr) == screen' = [screen EXCEPT ![t0] = scr]
Edit(line)   == buffer' = [buffer EXCEPT ![t0] = line]

\* The histories after a key: an empty line is plain, and it stays so while the
\* keys are.
Recorded(keyIsPlain) ==
  /\ plain' = [plain EXCEPT ![t0] = buffer'[t0] = <<>> \/ (@ /\ Waiting /\ keyIsPlain)]
  /\ shown_line' = <<>>

\* Faulty: the last free place of the buffer is not checked.
TypedAlways(c) ==
  /\ Display(putc_line_runover(screen[t0], c))
  /\ Edit(Append(buffer[t0], c))

\* A character is echoed and appended while the buffer has room.
Typed(c) ==
  IF Len(buffer[t0]) < BufferSize
  THEN /\ Display(putc_line_runover(screen[t0], c))
       /\ Edit(Append(buffer[t0], c))
  ELSE UNCHANGED <<screen, buffer>>

\* A key with a character, or a function key, which has one too.  Without a
\* waiting read the key is dropped.
CharKey ==
  /\ Admitted /\ line_run_over_flag
  /\ \E c \in Letters : Typed(c)
  /\ Recorded(TRUE)
  /\ UNCHANGED <<terminal_on_display, enter, line_run_over_flag, pc, result>>

\* Ctrl+L, with terminal_open.
CtrlL ==
  /\ Admitted
  /\ Display(set_pos(clear(screen[t0]), 0, 0))
  /\ Edit(<<>>)
  /\ Recorded(TRUE)
  /\ UNCHANGED <<terminal_on_display, enter, line_run_over_flag, pc, result>>

\* Alt+Fn.
AltFn ==
  /\ Admitted
  /\ \E t \in Terminals : terminal_on_display' = t
  /\ shown_line' = <<>>
  /\ UNCHANGED <<screen, buffer, enter, line_run_over_flag, pc, result, plain>>

\* A space of Tab, and n of them.
EchoSpace(scr) ==
  IF line_run_over_flag THEN putc_line_runover(scr, Space) ELSE putc(scr, Space)

Spaced(scr, n) ==
  LET after[i \in 0 .. n] == IF i = 0 THEN scr ELSE EchoSpace(after[i - 1])
  IN  after[n]

\* Tab: spaces while the buffer has room, recorded whether or not a read waits.
Tab ==
  /\ Admitted
  /\ LET room == BufferSize - Len(buffer[t0])
         n == IF room < TabWidth THEN room ELSE TabWidth
     IN  /\ Display(Spaced(screen[t0], n))
         /\ Edit(buffer[t0] \o [i \in 1 .. n |-> Space])
  /\ Recorded(TRUE)
  /\ UNCHANGED <<terminal_on_display, enter, line_run_over_flag, pc, result>>

\* Backspace does nothing at an empty buffer.
Backspace ==
  /\ Admitted /\ (screen[t0].x = 0 => AnyTime)
  /\ buffer[t0] # <<>>
  /\ Display(backspace_to_prev(screen[t0]))
  /\ IF line_run_over_flag THEN Edit(Front(buffer[t0])) ELSE UNCHANGED buffer
  /\ Recorded(screen[t0].x # 0)
  /\ UNCHANGED <<terminal_on_display, enter, line_run_over_flag, pc, result>>

Enter ==
  /\ Admitted
  /\ Display(EnterEcho(screen[t0]))
  /\ enter' = TRUE
  /\ plain' = [plain EXCEPT ![t0] = buffer[t0] = <<>>]
  /\ shown_line' = IF Waiting /\ plain[t0]
                   THEN <<LeftOfCursor(screen[t0], Len(buffer[t0]))>> ELSE <<>>
  /\ UNCHANGED <<buffer, terminal_on_display, line_run_over_flag, pc, result>>
-----------------------------------------------------------------------------
\* terminal_write: it empties the buffer of the displayed terminal.
Write ==
  /\ pc = "user"
  /\ \E str \in Outputs : Display(write_string_to_screen(screen[t0], str))
  /\ Edit(<<>>)
  /\ plain' = [plain EXCEPT ![t0] = TRUE]
  /\ UNCHANGED <<terminal_on_display, enter, line_run_over_flag, pc, result,
                 shown_line>>

\* terminal_read
ReadCall ==
  /\ pc = "user" /\ pc' = "reset"
  /\ result' = <<>>
  /\ UNCHANGED <<screen, buffer, terminal_on_display, enter, line_run_over_flag,
                 plain, shown_line>>

ResetEnter ==
  /\ pc = "reset" /\ pc' = "test"
  /\ enter' = FALSE
  /\ UNCHANGED <<screen, buffer, terminal_on_display, line_run_over_flag, result,
                 plain, shown_line>>

TestEnter ==
  /\ pc = "test"
  /\ pc' = IF enter THEN "leave" ELSE "body"
  /\ UNCHANGED <<screen, buffer, terminal_on_display, enter, line_run_over_flag,
                 result, plain, shown_line>>

\* Faulty: Enter is reset in the loop.
SetFlagAndReset ==
  /\ pc = "body" /\ pc' = "test"
  /\ line_run_over_flag' = TRUE /\ enter' = FALSE
  /\ UNCHANGED <<screen, buffer, terminal_on_display, result, plain, shown_line>>

SetFlag ==
  /\ pc = "body" /\ pc' = "test"
  /\ line_run_over_flag' = TRUE
  /\ UNCHANGED <<screen, buffer, terminal_on_display, enter, result, plain, shown_line>>

ClearFlag ==
  /\ pc = "leave" /\ pc' = "take"
  /\ line_run_over_flag' = FALSE
  /\ UNCHANGED <<screen, buffer, terminal_on_display, enter, result, plain, shown_line>>

\* Faulty: one character more is copied than fits before the final NUL.
CopiedFull(n) ==
  SubSeq(buffer[t0], 1, IF n < Len(buffer[t0]) THEN n ELSE Len(buffer[t0]))

\* nbytes-1 characters of the line at most; the rest of it is dropped.
Copied(n) ==
  SubSeq(buffer[t0], 1, IF n - 1 < Len(buffer[t0]) THEN n - 1 ELSE Len(buffer[t0]))

\* cli() to the return.
TakeLine ==
  /\ pc = "take" /\ pc' = "user"
  /\ \E n \in ReadSizes : result' = Copied(n)
  /\ Edit(<<>>)
  /\ plain' = [plain EXCEPT ![t0] = TRUE] /\ shown_line' = <<>>
  /\ UNCHANGED <<screen, terminal_on_display, enter, line_run_over_flag>>

Keyboard == CharKey \/ CtrlL \/ AltFn \/ Tab \/ Backspace \/ Enter
Reader   == ResetEnter \/ TestEnter \/ SetFlag \/ ClearFlag \/ TakeLine

Next == Keyboard \/ Write \/ ReadCall \/ Reader

\* The processor runs the loop of terminal_read; nobody has to type.
Spec == Init /\ [][Next]_vars /\ WF_vars(Reader)
-----------------------------------------------------------------------------
\* Every variable has its type; no buffer is filled beyond its limit.
TypeOK ==
  /\ screen \in [Terminals -> Screens]
  /\ \A t \in Terminals : buffer[t] \in Seq(Chars) /\ Len(buffer[t]) <= BufferSize
  /\ terminal_on_display \in Terminals
  /\ enter \in BOOLEAN /\ line_run_over_flag \in BOOLEAN
  /\ pc \in Points
  /\ result \in Seq(Chars)
  /\ plain \in [Terminals -> BOOLEAN]

\* While a plain line is edited, what stands left of the cursor is what the
\* buffer holds and the program will get, on whichever terminal is displayed,
\* whatever was displayed, cleared, deleted and scrolled before, and whatever
\* keys came before the line was begun.
EchoMatchesBuffer ==
  Waiting /\ plain[t0] => LeftOfCursor(screen[t0], Len(buffer[t0])) = buffer[t0]

\* terminal_read returns the plain line that stood on the screen when Enter was
\* pressed, as far as it fits, if no key comes in the few instructions after it.
ReadReturnsShownLine ==
  [][TakeLine /\ shown_line # <<>> =>
       LET line == shown_line[1]
       IN  \E n \in ReadSizes :
             result' = SubSeq(line, 1, IF n - 1 < Len(line) THEN n - 1 ELSE Len(line))]_vars

\* An Enter pressed while a read waits ends it, whatever is typed after it.
EnterEndsRead == (enter /\ pc \in {"test", "body"}) ~> pc = "user"
=============================================================================
