------------------------------ MODULE Strings ------------------------------
(***************************************************************************)
(* C strings and the functions of lib.c on them.  A character is its code; *)
(* a string is a sequence that holds a Nul, or is long enough for the      *)
(* number of characters a function looks at.                               *)
(***************************************************************************)
EXTENDS Integers, Sequences, FiniteSetsExt

Nul   == 0
Blank == 32

\* The string of these characters, in an array of the given size.
InArray(chars, size) ==
  [i \in 1 .. size |-> IF i <= Len(chars) THEN chars[i] ELSE Nul]

strlen(s) == Min({i \in DOMAIN s : s[i] = Nul}) - 1

\* The characters before the Nul.
Text(s) == SubSeq(s, 1, strlen(s))

\* The first difference, or 0 if there is none up to the Nul or among the first
\* n characters.
strncmp(s1, s2, n) ==
  LET stops == {i \in 1 .. n : s1[i] # s2[i] \/ s1[i] = Nul}
  IN  IF stops = {} THEN 0 ELSE s1[Min(stops)] - s2[Min(stops)]
=============================================================================
