--------------------------- MODULE VirtualScreens ---------------------------
(***************************************************************************)
(* What the terminals promise: each has a screen and a cursor of its own,  *)
(* output goes to the one that is shown, and showing another changes       *)
(* neither screens nor cursors.                                            *)
(***************************************************************************)
CONSTANTS Terminals, Contents, Positions

VARIABLES screen,  \* screen[t]: the characters of terminal t
          cursor,  \* cursor[t]: where terminal t writes next
          shown    \* the terminal on the display

vars == <<screen, cursor, shown>>

Init ==
  /\ screen \in [Terminals -> Contents]
  /\ cursor \in [Terminals -> Positions]
  /\ shown \in Terminals

Show(t) == shown' = t /\ UNCHANGED <<screen, cursor>>

Draw(t) ==
  \E c \in Contents, p \in Positions :
    /\ screen' = [screen EXCEPT ![t] = c]
    /\ cursor' = [cursor EXCEPT ![t] = p]
    /\ shown' = t

\* Drawing may come with showing: the boot shows a terminal and clears it.
Next == \E t \in Terminals : Show(t) \/ Draw(t)

Spec == Init /\ [][Next]_vars
=============================================================================
