---------------------------- MODULE MCLineInput ----------------------------
(***************************************************************************)
(* Small instances of LineInput: a screen of two rows of four columns, of  *)
(* which echo uses three, and lines that run over to the next row.         *)
(***************************************************************************)
EXTENDS LineInput

\* A prompt starts on a row of its own, as those of the shell do.
Prompts == {<<Newline, "p">>}

\* A prompt, and a NUL, which is printed as a space and a NUL.
AnyOutput == {<<Nul>>, <<Newline, "p">>}
=============================================================================
