----------------------- MODULE TerminalSwitchProofs ------------------------
(***************************************************************************)
(* Theorems about TerminalSwitch, for every number of terminals and every  *)
(* set of page contents and cursor positions.                              *)
(***************************************************************************)
EXTENDS TerminalSwitch, TLAPS

\* Terminal 0 has the boot messages on it from the start; every other one was
\* cleared by its tick.
ClearedInv ==
  \A t \in Terminals : t = 0 \/ t < execute_counter => Screen(t) # Garbage

IInv == TypeOK /\ ClearedInv

\* What the copies do: the screens and cursors of all terminals, seen through
\* the new terminal_on_display, are as they were.
LEMMA CopiesKeepScreens ==
  ASSUME TypeOK, NEW t \in Terminals
  PROVE  /\ Copies(t).saved \in [Terminals -> Contents]
         /\ Copies(t).video \in Contents
         /\ Cursors(t).saved \in [Terminals -> Positions]
         /\ Cursors(t).pos \in Positions
         /\ Copies(t).video = Screen(t) /\ Cursors(t).pos = Cursor(t)
         /\ \A u \in Terminals \ {t} : /\ Copies(t).saved[u] = Screen(u)
                                       /\ Cursors(t).saved[u] = Cursor(u)
  BY DEF TypeOK, Copies, Cursors, Screen, Cursor

\* A switch to t, in either caller.
SwitchTo(t) ==
  /\ backing' = Copies(t).saved /\ video' = Copies(t).video
  /\ saved_cursor' = Cursors(t).saved /\ screen_pos' = Cursors(t).pos
  /\ terminal_on_display' = t

LEMMA SwitchKeepsScreens ==
  ASSUME TypeOK, NEW t \in Terminals, SwitchTo(t)
  PROVE  \A u \in Terminals : Screen(u)' = Screen(u) /\ Cursor(u)' = Cursor(u)
  BY CopiesKeepScreens DEF SwitchTo, Screen, Cursor

\* A boot tick shows a terminal t and clears it; the others keep theirs.
LEMMA BootClears ==
  ASSUME TypeOK, BootShell
  PROVE  /\ terminal_on_display' \in Terminals
         /\ execute_counter > 0 => terminal_on_display' = execute_counter
         /\ Screen(terminal_on_display)' = Blank
         /\ Cursor(terminal_on_display)' = Origin
         /\ \A u \in Terminals \ {terminal_on_display'} :
              Screen(u)' = Screen(u) /\ Cursor(u)' = Cursor(u)
<1> USE ScreenAssumption
<1>1. CASE execute_counter > 0
  <2>1. execute_counter \in Terminals
    BY <1>1 DEF BootShell, TypeOK, Terminals
  <2> QED BY <1>1, <2>1, CopiesKeepScreens DEF BootShell, Screen, Cursor
<1>2. CASE ~(execute_counter > 0)
  BY <1>2 DEF BootShell, TypeOK, Screen, Cursor
<1> QED BY <1>1, <1>2

LEMMA TypeStep == ASSUME TypeOK, [Next]_vars PROVE TypeOK'
<1> USE ScreenAssumption
<1>1. CASE BootShell
  <2>1. execute_counter > 0 => execute_counter \in Terminals
    BY <1>1 DEF BootShell, TypeOK, Terminals
  <2> QED BY <1>1, <2>1, CopiesKeepScreens DEF BootShell, TypeOK
<1>2. CASE ShowFirstTerminal
  <2>1. 0 \in Terminals
    BY DEF Terminals
  <2> QED BY <1>2, <2>1, CopiesKeepScreens DEF ShowFirstTerminal, TypeOK
<1>3. CASE Draw
  BY <1>3 DEF Draw, TypeOK
<1>4. ASSUME NEW t \in Terminals, SwitchTerminal(t) PROVE TypeOK'
  BY <1>4, CopiesKeepScreens DEF SwitchTerminal, TypeOK
<1>5. CASE UNCHANGED vars
  BY <1>5 DEF vars, TypeOK
<1> QED BY <1>1, <1>2, <1>3, <1>4, <1>5 DEF Next

LEMMA ClearedStep == ASSUME IInv, [Next]_vars PROVE ClearedInv'
<1> USE ScreenAssumption DEF IInv
<1> SUFFICES ASSUME NEW u \in Terminals, u = 0 \/ u < execute_counter'
             PROVE  Screen(u)' # Garbage
  BY DEF ClearedInv
<1>1. CASE BootShell
  <2>1. execute_counter' = execute_counter + 1 /\ execute_counter \in Nat
    BY <1>1 DEF BootShell, TypeOK
  <2>2. CASE u = terminal_on_display'
    BY <1>1, <2>2, BootClears DEF Screen
  <2>3. CASE u # terminal_on_display'
    <3>1. Screen(u)' = Screen(u)
      BY <1>1, <2>3, BootClears
    <3>2. u = 0 \/ u < execute_counter
      BY <1>1, <2>1, <2>3, BootClears DEF Terminals
    <3> QED BY <3>1, <3>2 DEF ClearedInv
  <2> QED BY <2>2, <2>3
<1>2. CASE ShowFirstTerminal
  <2>1. 0 \in Terminals /\ SwitchTo(0)
    BY <1>2 DEF ShowFirstTerminal, SwitchTo, Terminals
  <2>2. Screen(u)' = Screen(u)
    BY <2>1, SwitchKeepsScreens
  <2>3. u < execute_counter
    BY <1>2 DEF ShowFirstTerminal, Terminals
  <2> QED BY <2>2, <2>3 DEF ClearedInv
<1>3. CASE Draw
  BY <1>3 DEF Draw, Screen, ClearedInv
<1>4. ASSUME NEW t \in Terminals, SwitchTerminal(t) PROVE Screen(u)' # Garbage
  <2>1. Screen(u)' = Screen(u)
    BY <1>4, SwitchKeepsScreens DEF SwitchTerminal, SwitchTo
  <2> QED BY <1>4, <2>1 DEF SwitchTerminal, ClearedInv
<1>5. CASE UNCHANGED vars
  BY <1>5 DEF vars, Screen, ClearedInv
<1> QED BY <1>1, <1>2, <1>3, <1>4, <1>5 DEF Next

THEOREM Invariance == Spec => []IInv
<1>1. Init => IInv
  BY ScreenAssumption DEF Init, IInv, TypeOK, ClearedInv, Screen, Terminals
<1>2. IInv /\ [Next]_vars => IInv'
  BY TypeStep, ClearedStep DEF IInv
<1> QED BY <1>1, <1>2, PTL DEF Spec

\* However the user switches terminals during the boot, every terminal has been
\* cleared when it is over.
THEOREM BootClearsAll == Spec => []NoGarbageAfterBoot
<1>1. IInv => NoGarbageAfterBoot
  BY ScreenAssumption DEF IInv, TypeOK, ClearedInv, NoGarbageAfterBoot, Terminals
<1> QED BY Invariance, <1>1, PTL
-----------------------------------------------------------------------------
\* The page swap implements one screen and one cursor per terminal.
THEOREM Refinement == Spec => ImplementsScreens
<1> USE ScreenAssumption
<1>1. Init => VS!Init
  BY DEF Init, VS!Init, Screen, Cursor, Terminals
<1>2. ASSUME IInv, [Next]_vars PROVE [VS!Next]_VS!vars
  <2> USE DEF IInv
  <2> DEFINE screen == [t \in Terminals |-> Screen(t)]
             cursor == [t \in Terminals |-> Cursor(t)]
  <2>1. ASSUME NEW t \in Terminals, SwitchTo(t) PROVE VS!Next
    <3>1. screen' = screen /\ cursor' = cursor
      BY <1>2, <2>1, SwitchKeepsScreens
    <3>2. VS!Show(t)
      BY <2>1, <3>1 DEF VS!Show, SwitchTo
    <3> QED BY <3>2 DEF VS!Next
  <2>2. ASSUME NEW t \in Terminals, NEW c \in Contents, NEW p \in Positions,
               terminal_on_display' = t,
               Screen(t)' = c, Cursor(t)' = p,
               \A u \in Terminals \ {t} : Screen(u)' = Screen(u) /\ Cursor(u)' = Cursor(u)
        PROVE  VS!Next
    <3>1. screen' = [screen EXCEPT ![t] = c] /\ cursor' = [cursor EXCEPT ![t] = p]
      BY <2>2
    <3>2. VS!Draw(t)
      BY <2>2, <3>1 DEF VS!Draw
    <3> QED BY <3>2 DEF VS!Next
  <2>3. CASE BootShell
    BY <1>2, <2>2, <2>3, BootClears
  <2>4. CASE ShowFirstTerminal
    BY <2>1, <2>4 DEF ShowFirstTerminal, SwitchTo, Terminals
  <2>5. CASE Draw
    <3>1. PICK c \in Contents, p \in Positions : video' = c /\ screen_pos' = p
      BY <2>5 DEF Draw
    <3>2. /\ terminal_on_display' = terminal_on_display
          /\ backing' = backing /\ saved_cursor' = saved_cursor
      BY <2>5 DEF Draw
    <3>3. terminal_on_display \in Terminals
      BY <1>2 DEF TypeOK
    <3> QED BY <2>2, <3>1, <3>2, <3>3 DEF Screen, Cursor
  <2>6. ASSUME NEW t \in Terminals, SwitchTerminal(t) PROVE VS!Next
    BY <2>1, <2>6 DEF SwitchTerminal, SwitchTo
  <2>7. CASE UNCHANGED vars
    BY <2>7 DEF vars, VS!vars, Screen, Cursor
  <2> QED BY <1>2, <2>3, <2>4, <2>5, <2>6, <2>7 DEF Next
<1> QED BY <1>1, <1>2, Invariance, PTL DEF Spec, VS!Spec, ImplementsScreens

\* The pages, the cursors and the counter of the boot keep their types.
THEOREM TypeCorrect == Spec => []TypeOK
<1>1. IInv => TypeOK
  BY DEF IInv
<1> QED BY <1>1, Invariance, PTL
=============================================================================
