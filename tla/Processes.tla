----------------------------- MODULE Processes -----------------------------
(***************************************************************************)
(* Process control: the boot of the base shells by the timer interrupt,    *)
(* the execute and halt system calls, the restart of a base shell and the  *)
(* terminal switch as far as it feeds them.  Sources: system_call.c,       *)
(* system_callASM.S, scheduling.c, schedulingASM.S, paging.c, pit.c.       *)
(*                                                                         *)
(* There is one processor and one thread of control.  A process is a slot  *)
(* n: its PCB lies at 8MB - 8KB*(n+1), its kernel stack starts at          *)
(* 8MB - 8KB*n and its program image is the 4MB page at 8MB + 4MB*n.  The  *)
(* context switch of the scheduler is compiled out, so a process runs      *)
(* until it executes a child or halts; what interleaves with it are the    *)
(* interrupts, wherever the interrupt flag is set.                         *)
(***************************************************************************)
EXTENDS Integers, FiniteSets, Sequences

CONSTANTS
  NumTerminals,  \* 3: terminals, and the base shells started at boot
  MaxProcesses,  \* 6: the limit that sys_execute compares process_number to
  ActiveSlots,   \* 4: the length of active_processes in a PCB
  Env            \* what the user and the timer may do, see below

(***************************************************************************)
(* Env holds the circumstances a run admits beyond the ordinary ones:      *)
(*   "bad_command"     a command that names no executable                  *)
(*   "switch_running"  Alt+Fn while a program above a base shell runs      *)
(*   "switch_loading"  Alt+Fn while execute is building a process          *)
(*   "exit_elsewhere"  a base shell exits on a terminal other than the     *)
(*                     last one, whose shell is the one that runs          *)
(*   "late_tick"       the boot of a shell outlasts a timer period (10ms)  *)
(***************************************************************************)
Events == {"bad_command", "switch_running", "switch_loading",
           "exit_elsewhere", "late_tick"}

\* What the code's literals give: 3 terminals, 6 processes, 4 places.
ASSUME ConstantsAssumption ==
  /\ NumTerminals \in Nat \ {0}
  /\ MaxProcesses \in Nat
  /\ MaxProcesses > NumTerminals
  /\ ActiveSlots \in Nat \ {0}
  /\ Env \subseteq Events

Terminals == 0 .. NumTerminals - 1
Slots     == 0 .. MaxProcesses - 1
Places    == 0 .. ActiveSlots - 1

None == -1        \* no slot: a NULL PCB, a context that is gone,
                  \* an esp that is not in a process's system call

VARIABLES
  process_number,      \* the slot that the next create_pcb takes
  recover_num,         \* process_number before the last base shell restart
  current_pcb,         \* the slot of the current PCB, or None
  process_num,         \* process_num[n]: that field of the PCB in slot n
  parent_terminal,     \* parent_terminal[n]: that field of the PCB in slot n
  active_processes,    \* active_processes[t]: that field of terminal t's PCB
  esp,                 \* esp[n]: the slot whose kernel stack holds the system
                       \* call frame that slot n returns to, or None
  frame,               \* frame[n]: the context whose user registers are at the
                       \* top of the kernel stack of slot n, or None
  page,                \* the slot whose image page_directory[32] maps
  tss_esp0,            \* the slot whose kernel stack tss.esp0 points to
  ctx,                 \* the context that runs, by the slot of its image
  terminal_on_display,
  execute_counter,     \* progress of the boot
  mode,                \* where control is, see Modes
  caller,              \* what called system_execute
  overrun              \* history: a tick cut off the boot of a shell

pcbs == <<process_num, parent_terminal, active_processes, esp>>
hardware == <<page, tss_esp0, ctx>>
vars == <<process_number, recover_num, current_pcb, pcbs, frame, hardware,
          terminal_on_display, execute_counter, mode, caller, overrun>>

\* hlt: the idle loop of entry; user: a user program runs; check, claimed and
\* created: sys_execute before create_pcb, between its two reads of
\* terminal_on_display, and after it; lost: control went to a stack that holds
\* no user frame, from where the code promises nothing
Modes == {"hlt", "user", "check", "claimed", "created", "lost"}
Loading == {"check", "claimed", "created"}

Booted == execute_counter = NumTerminals + 1

Occupied(t) == {i \in Places : active_processes[t][i] # 0}

\* Faulty: the loop runs from the lowest place up.
IsLowest(t, i) == i \in Occupied(t) /\ \A j \in Occupied(t) : j >= i

\* The place the loops from the highest place down stop at.
IsTop(t, i) == i \in Occupied(t) /\ \A j \in Occupied(t) : j <= i

\* The first free place of terminal t's active_processes takes slot n; a full
\* list stays as it is.
Registered(t, n) ==
  [active_processes EXCEPT ![t] =
     [i \in Places |->
        IF active_processes[t][i] = 0 /\ \A j \in 0 .. i-1 : j \in Occupied(t)
        THEN n ELSE active_processes[t][i]]]

\* What an entry to the kernel from user mode leaves on the kernel stack.
Trapped == [frame EXCEPT ![tss_esp0] = ctx]

Init ==
  /\ process_number = 0 /\ recover_num = 0 /\ current_pcb = None
  /\ process_num = [n \in Slots |-> 0]
  /\ parent_terminal = [n \in Slots |-> 0]
  /\ active_processes = [t \in Terminals |-> [i \in Places |-> 0]]
  /\ esp = [n \in Slots |-> None]
  /\ frame = [n \in Slots |-> None]
  /\ page = 0 /\ tss_esp0 = 0 /\ ctx = None
  /\ terminal_on_display = 0 /\ execute_counter = 0
  /\ mode = "hlt" /\ caller = "boot" /\ overrun = FALSE
-----------------------------------------------------------------------------
\* Where a timer interrupt of the boot phase can find the processor.
Interruptible ==
  \/ mode \in {"hlt", "user"}
  \/ mode \in Loading /\ "late_tick" \in Env

\* scheduler(): each of the first NumTerminals ticks shows the next terminal
\* and executes a shell on it, never returning to what it interrupted.
BootShell ==
  /\ Interruptible
  /\ execute_counter < NumTerminals
  /\ terminal_on_display' =
       IF execute_counter > 0 THEN execute_counter ELSE terminal_on_display
  /\ execute_counter' = execute_counter + 1
  /\ frame' = IF mode = "user" THEN Trapped ELSE frame
  /\ mode' = "check" /\ caller' = "boot"
  /\ overrun' = (overrun \/ mode \in Loading)
  /\ UNCHANGED <<process_number, recover_num, current_pcb, pcbs, hardware>>

\* Faulty: execute_counter is not advanced.
ShowFirstTerminalAgain ==
  /\ Interruptible
  /\ execute_counter = NumTerminals
  /\ terminal_on_display' = 0
  /\ frame' = IF mode = "user" THEN Trapped ELSE frame
  /\ UNCHANGED <<process_number, recover_num, current_pcb, pcbs, hardware,
                 execute_counter, mode, caller, overrun>>

\* scheduler(): the next tick shows terminal 0 and returns.
ShowFirstTerminal ==
  /\ Interruptible
  /\ execute_counter = NumTerminals
  /\ terminal_on_display' = 0
  /\ execute_counter' = execute_counter + 1
  /\ frame' = IF mode = "user" THEN Trapped ELSE frame
  /\ UNCHANGED <<process_number, recover_num, current_pcb, pcbs, hardware, mode,
                 caller, overrun>>

\* Any system call or interrupt that changes nothing else modelled here: the
\* pages of sys_vidmap, the descriptors and the devices are not state of this
\* module.
Trap ==
  /\ mode = "user"
  /\ frame' = Trapped
  /\ UNCHANGED <<process_number, recover_num, current_pcb, pcbs, hardware,
                 terminal_on_display, execute_counter, mode, caller, overrun>>

\* keyboard_handler(): Alt+Fn, wherever interrupts are enabled.
SwitchTerminal ==
  /\ \/ mode = "user" /\ (current_pcb < NumTerminals \/ "switch_running" \in Env)
     \/ mode \in Loading \cup {"hlt"} /\ "switch_loading" \in Env
  /\ \E t \in Terminals : terminal_on_display' = t
  /\ frame' = IF mode = "user" THEN Trapped ELSE frame
  /\ UNCHANGED <<process_number, recover_num, current_pcb, pcbs, hardware,
                 execute_counter, mode, caller, overrun>>
-----------------------------------------------------------------------------
\* The execute system call.  The shells read commands once the boot is over.
ExecuteCall ==
  /\ mode = "user" /\ Booted
  /\ frame' = Trapped
  /\ mode' = "check" /\ caller' = "user"
  /\ UNCHANGED <<process_number, recover_num, current_pcb, pcbs, hardware,
                 terminal_on_display, execute_counter, overrun>>

\* Faulty: off by one.
RoomForOneMore == process_number <= MaxProcesses

\* The limit sys_execute checks before it creates a PCB.
RoomForProcess == process_number < MaxProcesses

\* sys_execute: too many processes.
ExecuteRefused ==
  /\ mode = "check" /\ caller = "user"
  /\ ~RoomForProcess
  /\ mode' = "user"
  /\ UNCHANGED <<process_number, recover_num, current_pcb, pcbs, frame,
                 hardware, terminal_on_display, execute_counter, caller,
                 overrun>>

\* sys_execute: no command.
ExecuteNothing ==
  /\ mode = "check" /\ caller = "user"
  /\ mode' = "user"
  /\ UNCHANGED <<process_number, recover_num, current_pcb, pcbs, frame,
                 hardware, terminal_on_display, execute_counter, caller,
                 overrun>>

\* Faulty: process_number is incremented before it is stored.
NumberedNext(n) == [process_num EXCEPT ![n] = n + 1]

\* The new PCB carries the number of its slot.
Numbered(n) == [process_num EXCEPT ![n] = n]

\* create_pcb up to line 136: a process above the base shells is entered in the
\* active list of the terminal displayed now.
ClaimPcb ==
  /\ mode = "check"
  /\ RoomForProcess
  /\ process_num' = Numbered(process_number)
  /\ active_processes' = IF process_number >= NumTerminals
                         THEN Registered(terminal_on_display, process_number)
                         ELSE active_processes
  /\ mode' = "claimed"
  /\ UNCHANGED <<process_number, recover_num, current_pcb, parent_terminal, esp,
                 frame, hardware, terminal_on_display, execute_counter, caller,
                 overrun>>

\* Faulty: tests the limit again, after it has counted the process.
FinishPcbInTime ==
  /\ mode = "claimed" /\ process_number + 1 < MaxProcesses
  /\ parent_terminal' =
       [parent_terminal EXCEPT ![process_number] = terminal_on_display]
  /\ process_number' = process_number + 1
  /\ current_pcb' = process_number
  /\ mode' = "created"
  /\ UNCHANGED <<recover_num, process_num, active_processes, esp, frame,
                 hardware, terminal_on_display, execute_counter, caller,
                 overrun>>

\* The rest of create_pcb, which reads terminal_on_display a second time.
FinishPcb ==
  /\ mode = "claimed"
  /\ parent_terminal' =
       [parent_terminal EXCEPT ![process_number] = terminal_on_display]
  /\ process_number' = process_number + 1
  /\ current_pcb' = process_number
  /\ mode' = "created"
  /\ UNCHANGED <<recover_num, process_num, active_processes, esp, frame,
                 hardware, terminal_on_display, execute_counter, caller,
                 overrun>>

\* sys_execute: the file is missing or not an executable.
RejectFile ==
  /\ mode = "created" /\ caller = "user" /\ "bad_command" \in Env
  /\ process_number' = process_number - 1
  /\ current_pcb' = process_number - 2
  /\ mode' = "user"
  /\ UNCHANGED <<recover_num, pcbs, frame, hardware, terminal_on_display,
                 execute_counter, caller, overrun>>

\* Faulty: the processes of a restarted shell's terminal are forgotten.
NotRecovered == process_number

\* sys_execute takes the number saved by the restart of a base shell, if larger.
Recovered == IF recover_num > process_number THEN recover_num ELSE process_number

\* sys_execute from cli() on, save_esp and the iret into the program.  Loading
\* an image destroys the context that ran in its page.
LoadProgram ==
  /\ mode = "created"
  /\ page' = process_num[current_pcb]
  /\ tss_esp0' = process_num[current_pcb]
  /\ ctx' = process_num[current_pcb]
  /\ frame' = [n \in Slots |->
                 IF frame[n] = process_num[current_pcb] THEN None ELSE frame[n]]
  /\ process_number' = Recovered
  /\ esp' = [esp EXCEPT ![current_pcb] =
               IF caller = "user" THEN tss_esp0 ELSE None]
  /\ mode' = "user"
  /\ UNCHANGED <<recover_num, current_pcb, process_num, parent_terminal,
                 active_processes, terminal_on_display, execute_counter, caller,
                 overrun>>
-----------------------------------------------------------------------------
\* Faulty: compares with one process too many.
HaltsProgramLate ==
  IF Occupied(terminal_on_display) # {}
  THEN process_number > NumTerminals + 1
  ELSE terminal_on_display > NumTerminals

\* check_process_num() > 3, the test of system_halt.
HaltsProgram ==
  IF Occupied(terminal_on_display) # {}
  THEN process_number > NumTerminals
  ELSE terminal_on_display > NumTerminals

\* Faulty: takes the PCB, stack and page of the slot itself.
ReturnTo(n) ==
  /\ process_number' = n
  /\ current_pcb' = n
  /\ page' = process_num[n]
  /\ tss_esp0' = process_num[n]

\* sys_halt makes slot n the next one to create, the PCB below it current, and
\* its stack and page the ones in use.
ReturnBelow(n) ==
  /\ process_number' = n
  /\ current_pcb' = n - 1
  /\ page' = process_num[n - 1]
  /\ tss_esp0' = process_num[n - 1]

\* Faulty: leaves the entry of the halted process in the list.
RestoreParentOnly(t) ==
  /\ UNCHANGED active_processes
  /\ \/ Occupied(t) = {} /\ ReturnBelow(NumTerminals)
     \/ \E i \in Places : IsTop(t, i) /\ ReturnBelow(active_processes[t][i])

\* sys_halt: what the parent terminal's list says, and its last entry removed.
RestoreParent(t) ==
  \/ /\ Occupied(t) = {}
     /\ ReturnBelow(NumTerminals)
     /\ UNCHANGED active_processes
  \/ \E i \in Places :
       /\ IsTop(t, i)
       /\ ReturnBelow(active_processes[t][i])
       /\ active_processes' = [active_processes EXCEPT ![t][i] = 0]

\* Faulty: restore_esp is called after sys_halt has changed the PCB.
ResumedFrameLate == esp[process_number' - 1]

\* restore_esp: the stack that holds the frame the process returns to.
ResumedFrame == esp[current_pcb]

\* The halt system call of a program: back into the frame its esp points at.
HaltProgram ==
  /\ mode = "user" /\ Booted /\ HaltsProgram
  /\ RestoreParent(parent_terminal[current_pcb])
  /\ frame' = Trapped
  /\ IF ResumedFrame = None
     THEN ctx' = None /\ mode' = "lost"
     ELSE ctx' = Trapped[ResumedFrame] /\ mode' = "user"
  /\ UNCHANGED <<recover_num, process_num, parent_terminal, esp,
                 terminal_on_display, execute_counter, caller, overrun>>

\* The halt system call otherwise: start_first_shell.
RestartShell ==
  /\ mode = "user" /\ Booted /\ ~HaltsProgram
  /\ \/ current_pcb >= NumTerminals
     \/ terminal_on_display = NumTerminals - 1
     \/ "exit_elsewhere" \in Env
  /\ current_pcb' = None
  /\ recover_num' = process_number
  /\ process_number' = terminal_on_display
  /\ frame' = Trapped
  /\ mode' = "check" /\ caller' = "restart"
  /\ UNCHANGED <<pcbs, hardware, terminal_on_display, execute_counter, overrun>>

Kernel == ClaimPcb \/ FinishPcb \/ LoadProgram \/ ExecuteRefused \/ ExecuteNothing

Next ==
  \/ BootShell \/ ShowFirstTerminal \/ Trap \/ SwitchTerminal
  \/ ExecuteCall \/ Kernel \/ RejectFile
  \/ HaltProgram \/ RestartShell

\* The processor executes kernel code and the timer ticks.  Nothing is assumed
\* of the user and of the programs.
Fairness ==
  /\ WF_vars(Kernel)
  /\ WF_vars(BootShell \/ ShowFirstTerminal)

Spec == Init /\ [][Next]_vars /\ Fairness
-----------------------------------------------------------------------------
(* Invariants that hold whatever the user and the timer do. *)

\* Every variable has its type; process_number stays within the limit of
\* sys_execute, so that no PCB is built below the memory set aside for them.
TypeOK ==
  /\ process_number \in 0 .. MaxProcesses
  /\ recover_num \in 0 .. MaxProcesses
  /\ current_pcb \in Slots \cup {None}
  /\ process_num \in [Slots -> Slots]
  /\ parent_terminal \in [Slots -> Terminals]
  /\ active_processes \in [Terminals -> [Places -> Slots]]
  /\ esp \in [Slots -> Slots \cup {None}]
  /\ frame \in [Slots -> Slots \cup {None}]
  /\ page \in Slots /\ tss_esp0 \in Slots
  /\ ctx \in Slots \cup {None}
  /\ terminal_on_display \in Terminals
  /\ execute_counter \in 0 .. NumTerminals + 1
  /\ mode \in Modes
  /\ caller \in {"boot", "user", "restart"}
  /\ overrun \in BOOLEAN

\* While a program runs, the current PCB is one that create_pcb has filled in,
\* so that the stack and the page taken from its process_num are its own:
\* neither halt nor a refused command makes a slot current that was never
\* created, even after entries of refused commands stay in the active lists
\* and recover_num makes process_number jump.
CurrentPcbIsCreated ==
  mode = "user" => current_pcb \in Slots /\ process_num[current_pcb] = current_pcb

\* No process is ever created in the slot of a base shell except in place of
\* that shell: once a boot that no tick cut short is over, the three slots stay
\* reserved, whatever is refused, restarted and switched after that.
BaseSlotsReserved ==
  Booted /\ mode = "user" /\ ~overrun => process_number >= NumTerminals

\* The places of active_processes in use come before the free ones: the loops
\* that search it from the top down and from the bottom up see one stack.
ActiveIsStack ==
  \A t \in Terminals : \A i \in Places :
    active_processes[t][i] # 0 => \A j \in 0 .. i-1 : active_processes[t][j] # 0
-----------------------------------------------------------------------------
(* Properties of the use the system is built for: commands that exist, no   *)
(* terminal switch away from a running program, base shells left on the     *)
(* last terminal.                                                           *)

\* A process runs on its own image and traps onto its own kernel stack, and
\* system calls act on its own PCB: after every execute, halt and restart the
\* four registers of the context agree.
OwnAddressSpace ==
  mode = "user" => ctx = page /\ tss_esp0 = page /\ current_pcb = page

\* The processes above the base shells are exactly those in the active lists,
\* each once and in the list of the terminal it was started from, where halt
\* will look for it.
ActiveMatchesParent ==
  mode = "user" =>
    \A n \in NumTerminals .. MaxProcesses - 1 :
      LET entries == {e \in Terminals \X Places : active_processes[e[1]][e[2]] = n}
      IN  /\ Cardinality(entries) = IF n < process_number THEN 1 ELSE 0
          /\ \A e \in entries : e[1] = parent_terminal[n]

\* The halt of a program returns to the program that executed it, and to that
\* program's own image; only base shells are restarted.
HaltReturnsToParent ==
  [][(HaltProgram \/ RestartShell) /\ current_pcb >= NumTerminals
       => /\ mode' = "user"
          /\ ctx' = frame[esp[current_pcb]]
          /\ page' = ctx']_vars

\* Every execute call comes back to a user program, the boot included.
ExecuteReturns == mode \in Loading ~> mode = "user"

\* The boot ends with all base shells created and the shell of the last one
\* running.
BootCompletes == <>(Booted /\ mode = "user" /\ process_number >= NumTerminals)

\* The processes below and including slot c, by the frames their PCBs return to.
Chain[c \in Slots] ==
  IF esp[c] # None /\ frame[esp[c]] \in 0 .. c - 1
  THEN Append(Chain[frame[esp[c]]], c) ELSE <<c>>

Stack == INSTANCE ProcessStack WITH
  BaseSlots <- Terminals,
  MaxDepth <- MaxProcesses - NumTerminals + 1,
  stack <- IF ctx = None THEN <<>> ELSE Chain[ctx]

\* The boot, execute, halt and restart code implements a stack of processes.
ImplementsStack == Stack!Spec
=============================================================================
