----------------------------- MODULE MCPrograms -----------------------------
(***************************************************************************)
(* An instance of Programs for TLC: names of one and two characters, of    *)
(* which the longer one just fits, and lines with and without arguments.   *)
(***************************************************************************)
EXTENDS Programs

Ordinary == {}

Shell == <<115>>
Names == {Shell, <<97, 98>>}
Typed == {<<115>>, <<97, 98, Blank, Blank, 120, 121>>}
Video == {<<97, 98>>}
After == <<122>>
=============================================================================
