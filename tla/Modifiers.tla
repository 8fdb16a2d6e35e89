----------------------------- MODULE Modifiers -----------------------------
(***************************************************************************)
(* The keys of the keyboard: what scan_code_to_ascii keeps of Shift, Ctrl, *)
(* Alt and Caps Lock, and what keyboard_handler makes of a key under them: *)
(* a character, a cleared screen, another terminal.  What a character does *)
(* to the screen and the line is in LineInput.                             *)
(*                                                                         *)
(* Scan codes come in the order of the key strokes, one interrupt each.    *)
(* Ctrl and Alt on the right send the codes of the left keys after a       *)
(* prefix the code ignores.  A key that is held down repeats its code.     *)
(***************************************************************************)
EXTENDS Integers, FiniteSets

CONSTANTS
  Capitals,  \* the letters: the character of the key to its capital
  Symbols,   \* the keys with two characters: the plain to the shifted one
  Others,    \* the other keys with a character
  L          \* the letter that clears the screen with Ctrl

ASSUME ModifiersAssumption ==
  /\ L \in DOMAIN Capitals
  /\ DOMAIN Capitals \cap DOMAIN Symbols = {}
  /\ Others \cap (DOMAIN Capitals \cup DOMAIN Symbols) = {}

CharacterKeys == DOMAIN Capitals \cup DOMAIN Symbols \cup Others
FunctionKeys  == [F1 |-> 0, F2 |-> 1, F3 |-> 2]

\* The physical keys, and those of the same name.
ShiftKeys == {"shift_l", "shift_r"}
CtrlKeys  == {"ctrl_l", "ctrl_r"}
AltKeys   == {"alt_l", "alt_r"}
ModifierKeys == ShiftKeys \cup CtrlKeys \cup AltKeys
Pairs == {ShiftKeys, CtrlKeys, AltKeys}

Nothing == [clear |-> FALSE, switch |-> {}, print |-> {}]

VARIABLES
  shift, shift_l, shift_r, ctrl, alt, caps_lock,
  outcome,  \* what the last key did
  held,     \* the modifier keys that are held down
  mixed     \* history: the pairs that were both held since both were up

flags == <<shift, shift_l, shift_r, ctrl, alt, caps_lock>>
vars == <<flags, outcome, held, mixed>>

Init ==
  /\ shift = 0 /\ shift_l = 0 /\ shift_r = 0
  /\ ctrl = 0 /\ alt = 0 /\ caps_lock = 0
  /\ outcome = Nothing /\ held = {} /\ mixed = {}
-----------------------------------------------------------------------------
Stroke(keys) ==
  /\ held' = keys
  /\ mixed' = {p \in Pairs : p \subseteq keys \/ (p \in mixed /\ p \cap keys # {})}
  /\ outcome' = Nothing

\* A shift key counts unless the other one has been pressed before it.
ShiftLeftDown ==
  /\ Stroke(held \cup {"shift_l"})
  /\ IF shift_r = 0 THEN shift' = 1 /\ shift_l' = 1 ELSE UNCHANGED <<shift, shift_l>>
  /\ UNCHANGED <<shift_r, ctrl, alt, caps_lock>>

ShiftRightDown ==
  /\ Stroke(held \cup {"shift_r"})
  /\ IF shift_l = 0 THEN shift' = 1 /\ shift_r' = 1 ELSE UNCHANGED <<shift, shift_r>>
  /\ UNCHANGED <<shift_l, ctrl, alt, caps_lock>>

\* Faulty: the key that counted is not looked at, nor reset.
ShiftLeftUpAlways ==
  /\ "shift_l" \in held /\ Stroke(held \ {"shift_l"})
  /\ shift' = 0
  /\ UNCHANGED <<shift_l, shift_r, ctrl, alt, caps_lock>>

ShiftLeftUp ==
  /\ "shift_l" \in held /\ Stroke(held \ {"shift_l"})
  /\ IF shift_l = 1 THEN shift' = 0 /\ shift_l' = 0 ELSE UNCHANGED <<shift, shift_l>>
  /\ UNCHANGED <<shift_r, ctrl, alt, caps_lock>>

\* Faulty: tests the flag of the left key.
ShiftRightUpLeft ==
  /\ "shift_r" \in held /\ Stroke(held \ {"shift_r"})
  /\ IF shift_l = 1 THEN shift' = 0 /\ shift_r' = 0 ELSE UNCHANGED <<shift, shift_r>>
  /\ UNCHANGED <<shift_l, ctrl, alt, caps_lock>>

ShiftRightUp ==
  /\ "shift_r" \in held /\ Stroke(held \ {"shift_r"})
  /\ IF shift_r = 1 THEN shift' = 0 /\ shift_r' = 0 ELSE UNCHANGED <<shift, shift_r>>
  /\ UNCHANGED <<shift_l, ctrl, alt, caps_lock>>

CtrlDown(key) ==
  /\ Stroke(held \cup {key}) /\ ctrl' = 1
  /\ UNCHANGED <<shift, shift_l, shift_r, alt, caps_lock>>

CtrlUp(key) ==
  /\ key \in held /\ Stroke(held \ {key}) /\ ctrl' = 0
  /\ UNCHANGED <<shift, shift_l, shift_r, alt, caps_lock>>

AltDown(key) ==
  /\ Stroke(held \cup {key}) /\ alt' = 1
  /\ UNCHANGED <<shift, shift_l, shift_r, ctrl, caps_lock>>

AltUp(key) ==
  /\ key \in held /\ Stroke(held \ {key}) /\ alt' = 0
  /\ UNCHANGED <<shift, shift_l, shift_r, ctrl, caps_lock>>

\* Faulty: counts the presses.
CapsLockCounting ==
  /\ Stroke(held) /\ caps_lock' = caps_lock + 1
  /\ caps_lock < 2
  /\ UNCHANGED <<shift, shift_l, shift_r, ctrl, alt>>

CapsLock ==
  /\ Stroke(held) /\ caps_lock' = 1 - caps_lock
  /\ UNCHANGED <<shift, shift_l, shift_r, ctrl, alt>>
-----------------------------------------------------------------------------
\* The letters are named by their lower case, and function keys by themselves.
scan_code_to_ascii(key) ==
  IF key \in DOMAIN Symbols /\ shift = 1 THEN Symbols[key] ELSE key

Printed(key) ==
  IF key \in DOMAIN Capitals /\ shift # caps_lock
  THEN Capitals[key] ELSE scan_code_to_ascii(key)

\* keyboard_handler, for a key that has a character; reading is
\* line_run_over_flag.
Handled(key, reading) ==
  [clear  |-> ctrl = 1 /\ key = L,
   switch |-> IF alt = 1 /\ key \in DOMAIN FunctionKeys THEN {FunctionKeys[key]} ELSE {},
   print  |-> IF reading /\ alt = 0 /\ ctrl = 0 THEN {Printed(key)} ELSE {}]

Key ==
  /\ \E key \in CharacterKeys \cup DOMAIN FunctionKeys, reading \in BOOLEAN :
       outcome' = Handled(key, reading)
  /\ UNCHANGED <<flags, held, mixed>>

Next ==
  \/ ShiftLeftDown \/ ShiftLeftUp \/ ShiftRightDown \/ ShiftRightUp
  \/ \E key \in CtrlKeys : CtrlDown(key) \/ CtrlUp(key)
  \/ \E key \in AltKeys : AltDown(key) \/ AltUp(key)
  \/ CapsLock \/ Key

Spec == Init /\ [][Next]_vars
-----------------------------------------------------------------------------
\* Every variable has its type.
TypeOK ==
  /\ shift \in {0, 1} /\ shift_l \in {0, 1} /\ shift_r \in {0, 1}
  /\ ctrl \in {0, 1} /\ alt \in {0, 1} /\ caps_lock \in {0, 1}
  /\ held \subseteq ModifierKeys /\ mixed \subseteq Pairs

\* Whatever keys of a kind were held together and in which order they came up:
\* with none of them down, the modifier is off.
NoStuckModifier ==
  /\ held \cap ShiftKeys = {} => shift = 0 /\ shift_l = 0 /\ shift_r = 0
  /\ held \cap CtrlKeys = {} => ctrl = 0
  /\ held \cap AltKeys = {} => alt = 0

Down(pair) == held \cap pair # {}

\* What a key does by the modifier keys that are held: Ctrl+L clears whatever
\* the case, Alt+Fn shows a terminal, and a character key prints, while a read
\* waits, the character of the shift key, Caps Lock turning round the letters.
Expected(key, reading) ==
  [clear  |-> Down(CtrlKeys) /\ key = L,
   switch |-> IF Down(AltKeys) /\ key \in DOMAIN FunctionKeys THEN {FunctionKeys[key]} ELSE {},
   print  |-> IF ~reading \/ Down(AltKeys) \/ Down(CtrlKeys) THEN {}
              ELSE IF key \in DOMAIN Symbols /\ Down(ShiftKeys) THEN {Symbols[key]}
              ELSE IF key \in DOMAIN Capitals /\ (Down(ShiftKeys) # (caps_lock = 1))
                   THEN {Capitals[key]} ELSE {key}]

\* The flags stand for the keys: as long as the two keys of a name are not
\* used together, every key does what the modifier keys held at that moment
\* say, whichever of them were pressed, repeated and released before.
KeysActAsHeld ==
  mixed = {} =>
    \A key \in CharacterKeys \cup DOMAIN FunctionKeys, reading \in BOOLEAN :
      Handled(key, reading) = Expected(key, reading)
=============================================================================
