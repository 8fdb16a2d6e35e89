---------------------------- MODULE MCProcesses ----------------------------
(* Instances of Processes for TLC: the sets of events of the runs. *)
EXTENDS Processes

\* Whatever the user does and however slow the boot is.
Anything == Events

BadCommand == {"bad_command"}

\* Terminals are switched while a program runs or is being built, and base shells
\* exit on every terminal.
Switching == {"switch_running", "switch_loading", "exit_elsewhere"}
=============================================================================
