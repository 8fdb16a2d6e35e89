------------------------------ MODULE MCEntry ------------------------------
(***************************************************************************)
(* Entry with words of two hexadecimal digits, a screen of three rows and  *)
(* a page that is larger than the screen by half a row.                    *)
(***************************************************************************)
EXTENDS Entry

\* Zero, one digit and two, the least and the greatest negative number.
Structures == <<0, 255, 10, 128, 26, 0, 99, 1, 7>>
Lines == {<<Nul>>, <<98, 111, Nul>>}
=============================================================================
