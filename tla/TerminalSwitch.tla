--------------------------- MODULE TerminalSwitch ---------------------------
(***************************************************************************)
(* The three terminals on one text screen: switch_terminal of scheduling.c *)
(* with switch_terminal_cursors of lib.c, its uses by the boot ticks and   *)
(* by the keyboard, and the output that happens in between.  The visible   *)
(* page at 0xB8000 always belongs to terminal_on_display; the pages at     *)
(* 0xB9000, 0xBA000 and 0xBB000 hold the screens of the others.            *)
(*                                                                         *)
(* Every action runs with interrupts disabled: both callers of             *)
(* switch_terminal are interrupt handlers and system_write starts with     *)
(* cli.  A page is one value; what is drawn on it is left open.            *)
(***************************************************************************)
EXTENDS Integers

CONSTANTS
  NumTerminals,  \* 3
  Contents,      \* what a page of video memory may hold
  Garbage,       \* what the pages hold before they are first written
  Blank,         \* a page after clear()
  Positions,     \* where the cursor may be
  Origin         \* position (0,0)

ASSUME ScreenAssumption ==
  /\ NumTerminals \in Nat \ {0}
  /\ Garbage \in Contents /\ Blank \in Contents /\ Blank # Garbage
  /\ Origin \in Positions

Terminals == 0 .. NumTerminals - 1

VARIABLES
  video,                \* the page at 0xB8000
  backing,              \* backing[t]: the page at 0xB9000 + t*4KB
  screen_pos,           \* <<screen_x, screen_y>>, as one position
  saved_cursor,         \* saved_cursor_locations_x and _y
  terminal_on_display,
  execute_counter       \* ticks of the boot that have been handled

vars == <<video, backing, screen_pos, saved_cursor, terminal_on_display,
          execute_counter>>

\* entry clears the screen, prints its messages and calls cursor_init.
Init ==
  /\ video \in Contents \ {Garbage}
  /\ backing = [t \in Terminals |-> Garbage]
  /\ screen_pos \in Positions
  /\ saved_cursor = [t \in Terminals |-> Origin]
  /\ terminal_on_display = 0
  /\ execute_counter = 0

\* The two copy loops: the visible page goes to the page of the terminal that
\* was displayed, then the page of terminal t becomes visible.
Copies(t) ==
  LET saved == [backing EXCEPT ![terminal_on_display] = video]
  IN  [saved |-> saved, video |-> saved[t]]

\* Faulty: saves the cursor under the new terminal.
CursorsSwapped(t) ==
  LET saved == [saved_cursor EXCEPT ![t] = screen_pos]
  IN  [saved |-> saved, pos |-> saved[t]]

\* switch_terminal_cursors
Cursors(t) ==
  LET saved == [saved_cursor EXCEPT ![terminal_on_display] = screen_pos]
  IN  [saved |-> saved, pos |-> saved[t]]

\* keyboard_handler: Alt+Fn, also for the terminal that is displayed.
SwitchTerminal(t) ==
  /\ backing' = Copies(t).saved
  /\ video' = Copies(t).video
  /\ saved_cursor' = Cursors(t).saved
  /\ screen_pos' = Cursors(t).pos
  /\ terminal_on_display' = t
  /\ UNCHANGED execute_counter

\* Faulty: clears the visible page before the switch.
BootShellClearsFirst ==
  /\ execute_counter < NumTerminals
  /\ LET t == IF execute_counter > 0 THEN execute_counter ELSE terminal_on_display
     IN  /\ backing' = [backing EXCEPT ![terminal_on_display] = Blank]
         /\ video' = IF t = terminal_on_display THEN Blank ELSE backing[t]
         /\ saved_cursor' = Cursors(t).saved
         /\ terminal_on_display' = t
  /\ screen_pos' = Origin
  /\ execute_counter' = execute_counter + 1

\* scheduler(): a tick that boots a shell shows its terminal, but for the
\* first, and clears it.
BootShell ==
  /\ execute_counter < NumTerminals
  /\ IF execute_counter > 0
     THEN /\ backing' = Copies(execute_counter).saved
          /\ saved_cursor' = Cursors(execute_counter).saved
          /\ terminal_on_display' = execute_counter
     ELSE UNCHANGED <<backing, saved_cursor, terminal_on_display>>
  /\ video' = Blank
  /\ screen_pos' = Origin
  /\ execute_counter' = execute_counter + 1

\* Faulty: every tick after the boot shows terminal 0.
ShowFirstTerminalAgain ==
  /\ execute_counter >= NumTerminals
  /\ backing' = Copies(0).saved
  /\ video' = Copies(0).video
  /\ saved_cursor' = Cursors(0).saved
  /\ screen_pos' = Cursors(0).pos
  /\ terminal_on_display' = 0
  /\ execute_counter' = execute_counter + 1

\* scheduler(): the tick after the last shell shows terminal 0.
ShowFirstTerminal ==
  /\ execute_counter = NumTerminals
  /\ backing' = Copies(0).saved
  /\ video' = Copies(0).video
  /\ saved_cursor' = Cursors(0).saved
  /\ screen_pos' = Cursors(0).pos
  /\ terminal_on_display' = 0
  /\ execute_counter' = execute_counter + 1

\* Output of a program, echo of a key or Ctrl+L: only ever to the visible page.
\* What was never written stays on it unless it is cleared.
Draw ==
  /\ \E c \in Contents, p \in Positions :
       /\ c = Garbage <=> video = Garbage /\ c # Blank
       /\ video' = c /\ screen_pos' = p
  /\ UNCHANGED <<backing, saved_cursor, terminal_on_display, execute_counter>>

Next ==
  \/ BootShell \/ ShowFirstTerminal \/ Draw
  \/ \E t \in Terminals : SwitchTerminal(t)

Spec == Init /\ [][Next]_vars
-----------------------------------------------------------------------------
\* Every variable has its type.
TypeOK ==
  /\ video \in Contents
  /\ backing \in [Terminals -> Contents]
  /\ screen_pos \in Positions
  /\ saved_cursor \in [Terminals -> Positions]
  /\ terminal_on_display \in Terminals
  /\ execute_counter \in 0 .. NumTerminals + 1

Screen(t) == IF t = terminal_on_display THEN video ELSE backing[t]
Cursor(t) == IF t = terminal_on_display THEN screen_pos ELSE saved_cursor[t]

\* After the boot no terminal shows what its page held before it was cleared,
\* whichever terminals the user switched to in the meantime.
NoGarbageAfterBoot ==
  execute_counter >= NumTerminals => \A t \in Terminals : Screen(t) # Garbage

VS == INSTANCE VirtualScreens WITH
  screen <- [t \in Terminals |-> Screen(t)],
  cursor <- [t \in Terminals |-> Cursor(t)],
  shown  <- terminal_on_display

\* One visible page with saved pages and cursors behaves as a screen and a
\* cursor per terminal: a switch, to itself too, changes no terminal's screen
\* or cursor, and output changes only those of the displayed terminal.
ImplementsScreens == VS!Spec
=============================================================================
