---------------------------- MODULE MCModifiers ----------------------------
(* A small keyboard for Modifiers: two keys of each kind. *)
EXTENDS Modifiers, TLC

MCCapitals == [l |-> "L", a |-> "A"]
MCSymbols  == ("1" :> "!") @@ ("[" :> "{")
=============================================================================
