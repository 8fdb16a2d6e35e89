-------------------------- MODULE MCTerminalSwitch --------------------------
(* An instance of TerminalSwitch for TLC.  *)
EXTENDS TerminalSwitch
CONSTANTS garbage, blank, text, more
MCContents == {garbage, blank, text, more}
MCPositions == {0, 1, 2}
=============================================================================
