----------------------------- MODULE Interrupts -----------------------------
(***************************************************************************)
(* The interrupt controllers of i8259.c and the handlers of the timer      *)
(* (IRQ 0), the keyboard (IRQ 1) and the RTC (IRQ 8, first input of the    *)
(* slave, which hangs on IRQ 2 of the master).  The handlers are reduced   *)
(* to what they do to the interrupt flag and to the controllers; what the  *)
(* controllers and the processor do is modelled from their use.            *)
(* Programs run between the handlers and on top of those that boot ticks   *)
(* left; the exceptions of interrupts.c come from them.                    *)
(***************************************************************************)
EXTENDS Integers, Sequences, FiniteSets, SequencesExt

CONSTANT NumShells  \* 3

\* With one shell a tick without a shell could come while the only tick that
\* started one returns.
ASSUME InterruptsAssumption == NumShells \in Nat /\ NumShells > 1

Irqs == {0, 1, 8}
Cascade == 2

VARIABLES
  stage,      \* of entry() in kernel.c
  gates,      \* the vectors that have a gate in the IDT
  ready,      \* what entry() has initialised besides, see Services
  unmasked,   \* the inputs that master_mask and slave_mask let through
  raised,     \* requests the controllers hold
  in_service, \* requests delivered whose end has not been signalled
  enabled,    \* interrupt flag of the processor
  frames,     \* handlers on the stack, the running one last, see Points
  control,    \* halted: an exception handler loops for ever; lost: a handler has
              \* taken a stack on which it did not save its registers; or runs
  execute_counter,
  terminal_counter,
  scheduling_esp \* scheduling_esp[t]: that field of terminal t's PCB, as the
                 \* number of handlers on the stack whose registers lie there,
                 \* the last one's on top; or None

setup == <<stage, gates, ready, unmasked>>
ticks == <<execute_counter, terminal_counter, scheduling_esp>>
vars == <<setup, raised, in_service, enabled, frames, control, ticks>>

Terminals == 0 .. NumShells - 1
None == -1  \* nothing saved yet: what the memory of the PCB held at power-on

\* body: before anything; early: before the first send_eoi of a boot tick;
\* shell: in system_execute; program: the shell runs; late: after a shell that
\* was refused; eoi: before send_eoi; return: after it
Points == {"body", "early", "shell", "program", "late", "eoi", "return"}
Stages == <<"pic", "idt", "pit", "keyboard", "rtc", "files", "pages", "processes",
            "sti", "run">>

\* What the shells of the boot ticks use: the image of the file system, paging, and
\* the variables of processes and scheduling.
Services == {"files", "pages", "processes"}

\* The remapped vectors: 0x20 and up for the master, 0x28 for the slave.
Vector(irq) == 32 + irq

\* The exceptions that have handlers; idt_init names them one by one, and the
\* system call.
Exceptions == (0 .. 14) \cup (16 .. 21) \cup (28 .. 30)
SystemCall == 128

Init ==
  /\ stage = 1 /\ gates = {} /\ ready = {}
  /\ unmasked = {} /\ raised = {} /\ in_service = {}
  /\ enabled = FALSE /\ frames = <<>> /\ control = "runs"
  /\ execute_counter = 0 /\ terminal_counter = 0
  /\ scheduling_esp = [t \in Terminals |-> None]

At(irq, point) == frames # <<>> /\ Last(frames) = [irq |-> irq, point |-> point]
Goto(point) == frames' = [frames EXCEPT ![Len(frames)].point = point]
-----------------------------------------------------------------------------
\* Faulty: interrupts are enabled as soon as the devices are set up.
EnablesEarly(step) == step \in {"rtc", "sti"}

\* Interrupts are off from boot.S on, and pit_init, keyboard_init and rtc_init
\* turn them off again; sti comes last.
Enables(step) == step = "sti"

\* The input of the device that a step initialises.
InputOf(step) ==
  CASE step = "pit" -> {0} [] step = "keyboard" -> {1} [] step = "rtc" -> {8}
    [] OTHER -> {}

\* The gates that a step installs.
GatesOf(step) ==
  IF step = "idt" THEN Exceptions \cup {SystemCall} ELSE {Vector(irq) : irq \in InputOf(step)}

\* entry, from i8259_init, which leaves IRQ 2 open, to sti.
Boot ==
  /\ stage < Len(Stages)
  /\ LET step == Stages[stage]
     IN  /\ gates' = gates \cup GatesOf(step)
         /\ unmasked' = IF step = "pic" THEN {Cascade} ELSE unmasked \cup InputOf(step)
         /\ ready' = ready \cup ({step} \cap Services)
         /\ enabled' = Enables(step)
  /\ stage' = stage + 1
  /\ UNCHANGED <<raised, in_service, frames, control, ticks>>

\* What the controllers held before i8259_init is lost.
Raise(irq) ==
  /\ stage > 1
  /\ raised' = raised \cup {irq}
  /\ UNCHANGED <<setup, in_service, enabled, frames, control, ticks>>

\* The inputs an interrupt goes through, and its place among the master's.
Chain(irq) == IF irq >= 8 THEN {irq, Cascade} ELSE {irq}
MasterInput(irq) == IF irq >= 8 THEN Cascade ELSE irq

\* Fully nested mode: only inputs above all that are in service get through.
Deliverable(irq) ==
  /\ irq \in raised /\ Chain(irq) \subseteq unmasked
  /\ \A s \in in_service \cap (0 .. 7) : MasterInput(irq) < s
  /\ irq \notin in_service

\* Faulty: the gate leaves the interrupt flag set.
TrapGate == TRUE

\* set_idt makes interrupt gates, which clear the flag.
Gate == FALSE

Deliver(irq) ==
  /\ enabled /\ Deliverable(irq)
  /\ \A other \in Irqs : Deliverable(other) => irq <= other
  /\ raised' = raised \ {irq}
  /\ in_service' = in_service \cup Chain(irq)
  /\ enabled' = Gate
  /\ frames' = Append(frames, [irq |-> irq, point |-> "body"])
  /\ UNCHANGED <<setup, control, ticks>>

\* keyboard_handler and rtc_handler, up to send_eoi
DeviceHandler(irq) ==
  /\ irq \in {1, 8} /\ At(irq, "body") /\ Goto("eoi")
  /\ UNCHANGED <<setup, raised, in_service, enabled, control, ticks>>

\* save_registers_esp.  The active lists, by which it and restore_register_esp
\* choose a PCB, hold only processes that come after the base shells; a tick that
\* starts none leaves them alone, so that the PCB of the terminal stands for the
\* one they choose.
SaveEsp == scheduling_esp' = [scheduling_esp EXCEPT ![terminal_counter] = Len(frames)]

\* pit_linkage and scheduler(): a boot tick, but for the first, goes on to the next
\* terminal; it enables interrupts before it signals its end.
BootTick ==
  /\ At(0, "body") /\ execute_counter < NumShells
  /\ SaveEsp
  /\ terminal_counter' = IF execute_counter > 0 THEN terminal_counter + 1 ELSE terminal_counter
  /\ execute_counter' = execute_counter + 1
  /\ enabled' = TRUE /\ Goto("early")
  /\ UNCHANGED <<setup, raised, in_service, control>>

\* Faulty: counts every tick.
PlainTickCounting ==
  /\ At(0, "body") /\ execute_counter >= NumShells
  /\ SaveEsp
  /\ execute_counter' = execute_counter + 1
  /\ Goto("eoi")
  /\ UNCHANGED <<setup, raised, in_service, enabled, control, terminal_counter>>

\* Faulty: goes on to the next terminal, as in the part that is compiled out, but
\* leaves the stack to pit_linkage.
PlainTickRotating ==
  /\ At(0, "body") /\ execute_counter >= NumShells
  /\ SaveEsp
  /\ execute_counter' = IF execute_counter = NumShells THEN execute_counter + 1
                                                       ELSE execute_counter
  /\ terminal_counter' = IF execute_counter > NumShells
                         THEN (terminal_counter + 1) % NumShells ELSE terminal_counter
  /\ Goto("eoi")
  /\ UNCHANGED <<setup, raised, in_service, enabled, control>>

\* pit_linkage and scheduler(): the tick after the boot, and all later ones.
PlainTick ==
  /\ At(0, "body") /\ execute_counter >= NumShells
  /\ SaveEsp
  /\ execute_counter' = IF execute_counter = NumShells THEN execute_counter + 1
                                                       ELSE execute_counter
  /\ Goto("eoi")
  /\ UNCHANGED <<setup, raised, in_service, enabled, control, terminal_counter>>

\* Faulty: the slave is not told.
EndedMasterOnly(irq) == IF irq >= 8 THEN {Cascade, irq - 8} ELSE {irq}

\* The inputs whose service send_eoi ends.  For the slave's it goes on to tell
\* the master the end of input irq - 8 as well.
Ended(irq) == IF irq >= 8 THEN {irq, Cascade, irq - 8} ELSE {irq}

\* Faulty: starts the shell without signalling the end of the tick.
EarlyEoiForgotten ==
  /\ At(0, "early") /\ Goto("shell")
  /\ UNCHANGED <<setup, raised, in_service, enabled, control, ticks>>

EarlyEoi ==
  /\ At(0, "early") /\ Goto("shell")
  /\ in_service' = in_service \ Ended(0)
  /\ UNCHANGED <<setup, raised, enabled, control, ticks>>

\* The shell could not be executed: scheduler and pit_handler go on.
ShellRefused ==
  /\ enabled /\ At(0, "shell") /\ Goto("late")
  /\ UNCHANGED <<setup, raised, in_service, enabled, control, ticks>>

\* The iret of system_execute: nothing comes back from here.
ShellStarted ==
  /\ enabled /\ At(0, "shell") /\ Goto("program")
  /\ UNCHANGED <<setup, raised, in_service, enabled, control, ticks>>

Eoi(irq) ==
  /\ At(irq, "eoi") \/ (irq = 0 /\ At(irq, "late"))
  /\ Goto("return")
  /\ in_service' = in_service \ Ended(irq)
  /\ UNCHANGED <<setup, raised, enabled, control, ticks>>

\* iret: what was interrupted ran with interrupts enabled.
Resume == frames' = Front(frames) /\ enabled' = TRUE /\ UNCHANGED control

ReturnDevice ==
  /\ \E irq \in {1, 8} : At(irq, "return")
  /\ Resume
  /\ UNCHANGED <<setup, raised, in_service, ticks>>

\* pit_linkage pops its registers from where the PCB of terminal_counter says.  If
\* that is another place than the one where it pushed them, what it pops and
\* returns to is whatever lies there.
ReturnTick ==
  /\ At(0, "return")
  /\ IF scheduling_esp[terminal_counter] = Len(frames)
     THEN Resume
     ELSE frames' = <<>> /\ enabled' = FALSE /\ control' = "lost"
  /\ UNCHANGED <<setup, raised, in_service, ticks>>

\* The programs that boot ticks started, and the system calls they make, which
\* disable interrupts for a while.
InProgram == control = "runs" /\ At(0, "program")

Disable ==
  /\ InProgram /\ enabled /\ enabled' = FALSE
  /\ UNCHANGED <<setup, raised, in_service, frames, control, ticks>>

Enable ==
  /\ InProgram /\ ~enabled /\ enabled' = TRUE
  /\ UNCHANGED <<setup, raised, in_service, frames, control, ticks>>

\* An exception of a program: its handler prints the name and loops, behind a
\* gate like the others.
Exception ==
  /\ InProgram /\ enabled
  /\ control' = "halted" /\ enabled' = Gate
  /\ UNCHANGED <<setup, raised, in_service, frames, ticks>>

LaterSteps ==
  \/ PlainTick \/ EarlyEoi \/ ReturnTick \/ ReturnDevice
  \/ \E irq \in Irqs : DeviceHandler(irq) \/ Eoi(irq)

Handler == BootTick \/ LaterSteps

Other ==
  \/ ShellRefused \/ ShellStarted \/ Disable \/ Enable \/ Exception
  \/ \E irq \in Irqs : Raise(irq) \/ Deliver(irq)

Next == Boot \/ Handler \/ Other

\* The processor executes the handlers' code.
Spec == Init /\ [][Next]_vars /\ WF_vars(Handler)
-----------------------------------------------------------------------------
\* Every variable has its type.
TypeOK ==
  /\ stage \in DOMAIN Stages /\ gates \subseteq 0 .. 255 /\ ready \subseteq Services
  /\ unmasked \subseteq Irqs \cup {Cascade} /\ raised \subseteq Irqs
  /\ in_service \subseteq Irqs \cup {Cascade}
  /\ enabled \in BOOLEAN /\ control \in {"runs", "halted", "lost"}
  /\ frames \in Seq([irq : Irqs, point : Points])
  /\ execute_counter \in 0 .. NumShells + 1 /\ terminal_counter \in Terminals
  /\ scheduling_esp \in [Terminals -> Nat \cup {None}]

\* An interrupt finds what it needs: whenever interrupts are enabled, every input
\* that is let through has the gate of its remapped vector, and exceptions, system
\* calls, files, pages and processes are set up for the shell that the first tick
\* executes.
PreparedWhenEnabled ==
  enabled => /\ {Vector(irq) : irq \in unmasked \ {Cascade}} \subseteq gates
             /\ Exceptions \cup {SystemCall} \subseteq gates
             /\ ready = Services

\* The controllers hold in service exactly the interrupts whose handlers are
\* on the stack and have not signalled their end: no send_eoi, that of the RTC
\* to input 0 among them, ends the service of another interrupt, and none
\* leaves one behind.
ServiceMatchesHandlers ==
  in_service = UNION {Chain(frames[i].irq) :
                        i \in {j \in DOMAIN frames : frames[j].point \in {"body", "early", "eoi"}}}

\* A handler signals its end before the next one starts: what is interrupted
\* are boot ticks that are executing a shell, the programs they started, and
\* those whose shell was refused on their way back.
HandlersDoNotNest ==
  \A i \in 1 .. Len(frames) - 1 :
    frames[i].irq = 0 /\ frames[i].point \notin {"body", "early", "eoi"}

\* A tick that starts no shell, which has interrupts disabled to its end, takes
\* back the stack on which it saved its registers, and so does the first tick if
\* its shell is refused: whatever other ticks came while shells were started, none
\* of them has moved terminal_counter or overwritten the PCB in between.
TicksResume ==
  [][ReturnTick /\ (~enabled \/ terminal_counter = 0) => Resume]_vars

\* No input stays in service, which would block it and all below it.
ServiceEnds == \A irq \in Irqs : irq \in in_service ~> irq \notin in_service
=============================================================================
