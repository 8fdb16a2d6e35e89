-------------------------- MODULE ModifiersProofs --------------------------
(***************************************************************************)
(* For every layout: no modifier sticks, and keys act as held.  The flags  *)
(* of a pair follow its keys exactly until both are down at once; from     *)
(* then until both are up all that remains is that a flag that is set has  *)
(* a key that is down.                                                     *)
(***************************************************************************)
EXTENDS Modifiers, TLAPS

\* A flag that is set belongs to a key that is down, and shift to one flag.
FlagsInv ==
  /\ shift = shift_l + shift_r
  /\ shift_l = 1 => "shift_l" \in held
  /\ shift_r = 1 => "shift_r" \in held
  /\ ctrl = 1 => held \cap CtrlKeys # {}
  /\ alt = 1 => held \cap AltKeys # {}

\* A pair that is not mixed has one key down at most, and its flags say which.
PairsInv ==
  /\ ShiftKeys \notin mixed =>
       /\ ~(ShiftKeys \subseteq held)
       /\ "shift_l" \in held => shift_l = 1
       /\ "shift_r" \in held => shift_r = 1
  /\ CtrlKeys \notin mixed =>
       ~(CtrlKeys \subseteq held) /\ (held \cap CtrlKeys # {} => ctrl = 1)
  /\ AltKeys \notin mixed =>
       ~(AltKeys \subseteq held) /\ (held \cap AltKeys # {} => alt = 1)

IInv == TypeOK /\ FlagsInv /\ PairsInv

\* The pairs are three, and each key is in one of them.
LEMMA ThreePairs ==
  /\ ShiftKeys \in Pairs /\ CtrlKeys \in Pairs /\ AltKeys \in Pairs
  /\ ShiftKeys # CtrlKeys /\ ShiftKeys # AltKeys /\ CtrlKeys # AltKeys
  BY DEF Pairs, ShiftKeys, CtrlKeys, AltKeys

\* What a stroke leaves mixed.
LEMMA StrokeMixes ==
  ASSUME NEW keys, Stroke(keys), NEW p \in Pairs
  PROVE  p \notin mixed' => ~(p \subseteq keys) /\ (p \in mixed => p \cap keys = {})
  BY DEF Stroke

\* At first nothing is down.
LEMMA InvInit == Init => IInv
  BY DEF Init, IInv, TypeOK, FlagsInv, PairsInv, ShiftKeys, CtrlKeys, AltKeys

LEMMA TypeStep == ASSUME TypeOK, [Next]_vars PROVE TypeOK'
<1>1. ASSUME NEW keys \in SUBSET ModifierKeys, Stroke(keys)
      PROVE  held' \subseteq ModifierKeys /\ mixed' \subseteq Pairs
  BY <1>1 DEF Stroke
<1>2. held \subseteq ModifierKeys
  BY DEF TypeOK
<1>3. CASE ShiftLeftDown
  BY <1>1, <1>2, <1>3 DEF ShiftLeftDown, TypeOK, ModifierKeys, ShiftKeys
<1>4. CASE ShiftLeftUp
  BY <1>1, <1>2, <1>4 DEF ShiftLeftUp, TypeOK
<1>5. CASE ShiftRightDown
  BY <1>1, <1>2, <1>5 DEF ShiftRightDown, TypeOK, ModifierKeys, ShiftKeys
<1>6. CASE ShiftRightUp
  BY <1>1, <1>2, <1>6 DEF ShiftRightUp, TypeOK
<1>7. ASSUME NEW key \in CtrlKeys, CtrlDown(key) \/ CtrlUp(key) PROVE TypeOK'
  <2>1. held \cup {key} \subseteq ModifierKeys /\ held \ {key} \subseteq ModifierKeys
    BY <1>2 DEF ModifierKeys
  <2> QED BY <1>1, <1>7, <2>1 DEF CtrlDown, CtrlUp, TypeOK
<1>8. ASSUME NEW key \in AltKeys, AltDown(key) \/ AltUp(key) PROVE TypeOK'
  <2>1. held \cup {key} \subseteq ModifierKeys /\ held \ {key} \subseteq ModifierKeys
    BY <1>2 DEF ModifierKeys
  <2> QED BY <1>1, <1>8, <2>1 DEF AltDown, AltUp, TypeOK
<1>9. CASE CapsLock
  BY <1>1, <1>2, <1>9 DEF CapsLock, TypeOK
<1>10. CASE Key \/ UNCHANGED vars
  BY <1>10 DEF Key, vars, flags, TypeOK
<1> QED BY <1>3, <1>4, <1>5, <1>6, <1>7, <1>8, <1>9, <1>10 DEF Next

\* A flag is set and reset with a key of its own.
LEMMA FlagsStep == ASSUME TypeOK, FlagsInv, [Next]_vars PROVE FlagsInv'
<1> USE DEF FlagsInv, ShiftKeys, CtrlKeys, AltKeys
<1>1. CASE ShiftLeftDown
  BY <1>1 DEF ShiftLeftDown, Stroke, TypeOK
<1>2. CASE ShiftLeftUp
  BY <1>2 DEF ShiftLeftUp, Stroke, TypeOK
<1>3. CASE ShiftRightDown
  BY <1>3 DEF ShiftRightDown, Stroke, TypeOK
<1>4. CASE ShiftRightUp
  BY <1>4 DEF ShiftRightUp, Stroke, TypeOK
<1>5. ASSUME NEW key \in CtrlKeys, CtrlDown(key) \/ CtrlUp(key) PROVE FlagsInv'
  BY <1>5 DEF CtrlDown, CtrlUp, Stroke, TypeOK
<1>6. ASSUME NEW key \in AltKeys, AltDown(key) \/ AltUp(key) PROVE FlagsInv'
  BY <1>6 DEF AltDown, AltUp, Stroke, TypeOK
<1>7. CASE CapsLock
  BY <1>7 DEF CapsLock, Stroke
<1>8. CASE Key \/ UNCHANGED vars
  BY <1>8 DEF Key, vars, flags
<1> QED BY <1>1, <1>2, <1>3, <1>4, <1>5, <1>6, <1>7, <1>8 DEF Next

\* A key that goes down either finds its partner up, and its flag is set, or
\* mixes the pair; a pair that a stroke leaves unmixed was unmixed before, or
\* is now up.
LEMMA PairsStep == ASSUME TypeOK, FlagsInv, PairsInv, [Next]_vars PROVE PairsInv'
<1> USE DEF PairsInv, FlagsInv
<1>1. ASSUME NEW keys, Stroke(keys)
      PROVE  /\ held' = keys
             /\ \A p \in {ShiftKeys, CtrlKeys, AltKeys} :
                  p \notin mixed' => ~(p \subseteq keys) /\ (p \notin mixed \/ p \cap keys = {})
  BY <1>1, StrokeMixes, ThreePairs DEF Stroke
<1>2. CASE ShiftLeftDown
  BY <1>2, <1>1 DEF ShiftLeftDown, TypeOK, ShiftKeys, CtrlKeys, AltKeys
<1>3. CASE ShiftLeftUp
  BY <1>3, <1>1 DEF ShiftLeftUp, TypeOK, ShiftKeys, CtrlKeys, AltKeys
<1>4. CASE ShiftRightDown
  BY <1>4, <1>1 DEF ShiftRightDown, TypeOK, ShiftKeys, CtrlKeys, AltKeys
<1>5. CASE ShiftRightUp
  BY <1>5, <1>1 DEF ShiftRightUp, TypeOK, ShiftKeys, CtrlKeys, AltKeys
<1>6. ASSUME NEW key \in CtrlKeys, CtrlDown(key) \/ CtrlUp(key) PROVE PairsInv'
  BY <1>6, <1>1 DEF CtrlDown, CtrlUp, TypeOK, ShiftKeys, CtrlKeys, AltKeys
<1>7. ASSUME NEW key \in AltKeys, AltDown(key) \/ AltUp(key) PROVE PairsInv'
  BY <1>7, <1>1 DEF AltDown, AltUp, TypeOK, ShiftKeys, CtrlKeys, AltKeys
<1>8. CASE CapsLock
  BY <1>8, <1>1 DEF CapsLock, TypeOK, ShiftKeys, CtrlKeys, AltKeys
<1>9. CASE Key \/ UNCHANGED vars
  BY <1>9 DEF Key, vars, flags
<1> QED BY <1>2, <1>3, <1>4, <1>5, <1>6, <1>7, <1>8, <1>9 DEF Next

\* The inductive invariant, for every set of keys with characters.
THEOREM Invariance == Spec => []IInv
<1>1. IInv /\ [Next]_vars => IInv'
  BY TypeStep, FlagsStep, PairsStep DEF IInv
<1> QED BY InvInit, <1>1, PTL DEF Spec

\* No modifier is on while its keys are up.
THEOREM NothingSticks == Spec => []NoStuckModifier
<1>1. IInv => NoStuckModifier
  BY DEF IInv, TypeOK, FlagsInv, NoStuckModifier, ShiftKeys
<1> QED BY Invariance, <1>1, PTL

\* Keys do what the modifier keys say, for every layout.
THEOREM KeysObey == Spec => []KeysActAsHeld
<1>1. ASSUME IInv, mixed = {}
      PROVE  /\ shift = 1 <=> Down(ShiftKeys)
             /\ ctrl = 1 <=> Down(CtrlKeys)
             /\ alt = 1 <=> Down(AltKeys)
             /\ shift \in {0, 1} /\ ctrl \in {0, 1} /\ alt \in {0, 1}
             /\ caps_lock \in {0, 1}
  BY <1>1 DEF IInv, TypeOK, FlagsInv, PairsInv, Down, ShiftKeys
<1>2. IInv => KeysActAsHeld
  <2> SUFFICES ASSUME IInv, mixed = {},
                      NEW key \in CharacterKeys \cup DOMAIN FunctionKeys,
                      NEW reading \in BOOLEAN
               PROVE  Handled(key, reading) = Expected(key, reading)
    BY DEF KeysActAsHeld
  <2>1. key \in DOMAIN Symbols => key \notin DOMAIN Capitals
    BY ModifiersAssumption
  <2>2. (shift # caps_lock) <=> (Down(ShiftKeys) # (caps_lock = 1))
    <3>1. Down(ShiftKeys) \in BOOLEAN
      BY DEF Down
    <3>2. CASE shift = 1
      BY <1>1, <3>1, <3>2
    <3>3. CASE shift = 0
      BY <1>1, <3>1, <3>3
    <3> QED BY <1>1, <3>2, <3>3
  <2>3. Handled(key, reading).print = Expected(key, reading).print
    BY <1>1, <2>1, <2>2 DEF Handled, Expected, Printed, scan_code_to_ascii
  <2> QED BY <1>1, <2>3 DEF Handled, Expected
<1> QED BY Invariance, <1>2, PTL

\* The flags, the keys that are held and the last key keep their types.
THEOREM TypeCorrect == Spec => []TypeOK
<1>1. IInv => TypeOK
  BY DEF IInv
<1> QED BY <1>1, Invariance, PTL
=============================================================================
