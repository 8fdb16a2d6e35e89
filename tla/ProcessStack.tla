---------------------------- MODULE ProcessStack ----------------------------
(***************************************************************************)
(* What execute and halt promise to programs: the processes form a stack.  *)
(* The one on top runs; execute puts a process in an unused slot on top,   *)
(* halt removes the top and the process below, which executed it, runs     *)
(* again.  The bottom of the stack is a base shell: it is never removed,   *)
(* a new base shell takes its place.                                       *)
(***************************************************************************)
EXTENDS Integers, Sequences

CONSTANTS
  Slots,      \* the process slots
  BaseSlots,  \* the slots that base shells are started in
  MaxDepth    \* how many processes may be stacked up

VARIABLE stack

Init == stack = <<>>

StartShell ==
  /\ Len(stack) <= 1
  /\ \E p \in BaseSlots : stack' = <<p>>

Execute ==
  /\ Len(stack) \in 1 .. MaxDepth - 1
  /\ \E p \in Slots :
       /\ \A i \in 1 .. Len(stack) : stack[i] # p
       /\ stack' = Append(stack, p)

Halt ==
  /\ Len(stack) > 1
  /\ stack' = SubSeq(stack, 1, Len(stack) - 1)

Next == StartShell \/ Execute \/ Halt

Spec == Init /\ [][Next]_stack
=============================================================================
