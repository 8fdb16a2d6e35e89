------------------------------ MODULE Programs ------------------------------
(***************************************************************************)
(* Process control together with what programs see of it: the command line *)
(* that a shell reads and executes, the arguments that reach the program,  *)
(* the image it runs and the pages it can use.  It adds to every action of *)
(* Processes what the same code does to the memory of programs, to the     *)
(* arguments in the PCBs and to the page directory.  Sources:              *)
(* system_call.c, keyboard.c (terminal_read), filesystems.c, paging.c,     *)
(* pagingASM.S.  The commands here name executables.                       *)
(***************************************************************************)
EXTENDS Processes, Strings

CONSTANTS
  MAX_COMMAND_LEN, \* 32: the array for the name, one place of it for the Nul
  BufferSize,      \* the buffer that a shell reads a command into
  Lines,           \* the lines that are typed, as characters
  Directory,       \* the names of the executables, one of them ShellName
  ShellName,       \* "shell"
  AfterLiteral,    \* what the kernel's image holds after the literal "shell"
                   \* and its Nul, up to the next Nul
  ArgReads,        \* the nbytes that programs pass to getargs
  VideoPrograms    \* the executables that call vidmap

\* The reference for what a line means: its first word and, after the blanks
\* that follow it, the rest.
Words(line) == {n \in 1 .. Len(line) : line[n] = Blank}
FirstWord(line) ==
  IF Words(line) = {} THEN line ELSE SubSeq(line, 1, Min(Words(line)) - 1)
Rest(line) ==
  LET starts == {n \in 1 .. Len(line) : line[n] # Blank /\ \E b \in Words(line) : b < n}
  IN  IF starts = {} THEN <<>> ELSE SubSeq(line, Min(starts), Len(line))

Characters == Nat \ {Nul}

ASSUME ProgramsAssumption ==
  /\ "bad_command" \notin Env
  /\ MAX_COMMAND_LEN \in Nat /\ MAX_COMMAND_LEN > 1 /\ BufferSize \in Nat
  /\ \A name \in Directory : name \in Seq(Characters) /\ Len(name) < MAX_COMMAND_LEN
  /\ ShellName \in Directory /\ Words(ShellName) = {}
  /\ AfterLiteral \in Seq(Characters)
  /\ \A line \in Lines :
       /\ line \in Seq(Characters) /\ Len(line) + 2 <= BufferSize
       /\ FirstWord(line) \in Directory
  /\ ArgReads \subseteq Nat /\ VideoPrograms \subseteq Directory

VARIABLES
  memory,       \* memory[n]: the command buffer in the image of slot n
  program,      \* program[n]: the executable whose image page n holds, or <<>>
  arguments,    \* arguments[n]: that field of the PCB in slot n, up to its Nul
  arg_position, \* arg_position[n]: that field of the PCB in slot n
  tlb,          \* the slot whose image the processor's translation of the
                \* program's page leads to
  vid_mapped,   \* page_directory[33] maps the video page for programs
  typed,        \* history: typed[n], the line last read by the program in n
  command,      \* history: command[n], the line that started the program in n
  taken         \* history: taken[n], what getargs has given it

user == <<memory, program, arguments, arg_position, tlb, vid_mapped>>
history == <<typed, command, taken>>
pvars == <<vars, user, history>>

ProgramsInit ==
  /\ Init
  /\ memory = [n \in Slots |-> InArray(<<>>, BufferSize)]
  /\ program = [n \in Slots |-> <<>>]
  /\ arguments = [n \in Slots |-> <<>>]
  /\ arg_position = [n \in Slots |-> 0]
  /\ tlb = None /\ vid_mapped = FALSE
  /\ typed = [n \in Slots |-> <<>>] /\ command = [n \in Slots |-> <<>>]
  /\ taken = [n \in Slots |-> <<>>]

NothingSeen == UNCHANGED <<user, history>>
-----------------------------------------------------------------------------
\* Faulty: only the Nul after the line is written.
FilledToNul(old, line) ==
  [i \in 1 .. BufferSize |->
     IF i <= Len(line) THEN line[i] ELSE IF i = Len(line) + 1 THEN Nul ELSE old[i]]

\* terminal_read clears the caller's buffer behind the line.
Filled(old, line) == InArray(line, BufferSize)

\* The read of a command.
ReadLine ==
  /\ Booted /\ Trap
  /\ \E line \in Lines :
       /\ memory' = [memory EXCEPT ![tlb] = Filled(@, line)]
       /\ typed' = [typed EXCEPT ![tlb] = line]
  /\ UNCHANGED <<program, arguments, arg_position, tlb, vid_mapped, command, taken>>

\* A program executes the line it has read, or a buffer that holds nothing.
ExecuteTyped ==
  /\ ExecuteCall
  /\ typed[ctx] # <<>> \/ memory[tlb][1] = Nul
  /\ NothingSeen

\* Where sys_execute finds the command.
Command ==
  IF caller = "user" THEN memory[tlb]
  ELSE InArray(ShellName \o <<Nul>> \o AfterLiteral,
               Len(ShellName) + Len(AfterLiteral) + 2)

\* The index of the character at which the name ends.
NameEnd(cmd) ==
  Min({i \in DOMAIN cmd : cmd[i] \in {Blank, Nul}} \cup {MAX_COMMAND_LEN})

ProcessName(cmd) == InArray(SubSeq(cmd, 1, NameEnd(cmd) - 1), MAX_COMMAND_LEN)

\* read_dentry_by_name: the files whose names agree in the characters compared.
Found(name) ==
  {file \in Directory :
     strncmp(name, InArray(file, MAX_COMMAND_LEN), MAX_COMMAND_LEN - 1) = 0}

\* The character at which the name ends is skipped, be it a blank or the Nul;
\* what follows the blanks, up to the next Nul, are the arguments.
Arguments(cmd) ==
  LET starts == {i \in DOMAIN cmd : i > NameEnd(cmd) /\ cmd[i] # Blank}
      start == Min(starts)
      stop == Min({i \in DOMAIN cmd : i >= start /\ cmd[i] = Nul})
  IN  SubSeq(cmd, start, stop - 1)

\* sys_execute: a buffer that holds no command.
NoCommand == ExecuteNothing /\ Command[1] = Nul /\ NothingSeen

\* create_pcb clears the arguments.
ClaimCleared ==
  /\ ClaimPcb /\ (caller = "user" => Command[1] # Nul)
  /\ arguments' = [arguments EXCEPT ![process_number] = <<>>]
  /\ arg_position' = [arg_position EXCEPT ![process_number] = 0]
  /\ UNCHANGED <<memory, program, tlb, vid_mapped, history>>

\* Arguments copied over what is there; the copy writes no Nul.
Copied(args, old) == args \o SubSeq(old, Len(args) + 1, Len(old))

\* Faulty: the page directory is changed without a flush.
TlbKept == tlb

\* flush_tlb: the next access, which follows at once, takes its translation from
\* the page directory.
TlbFlushed == page'

\* sys_execute from the copy of the arguments on: the image goes where the
\* translation leads.
LoadNamed ==
  /\ LoadProgram
  /\ arguments' = [arguments EXCEPT ![current_pcb] = Copied(Arguments(Command), @)]
  /\ tlb' = TlbFlushed
  /\ \E file \in Found(ProcessName(Command)) :
       program' = [program EXCEPT ![tlb'] = file]
  /\ command' = [command EXCEPT ![ctx'] = IF caller = "user" THEN typed[ctx] ELSE ShellName]
  /\ typed' = [typed EXCEPT ![ctx'] = <<>>]
  /\ taken' = [taken EXCEPT ![ctx'] = <<>>]
  /\ UNCHANGED <<memory, arg_position, vid_mapped>>
-----------------------------------------------------------------------------
\* sys_getargs
GetArgs ==
  /\ Booted /\ Trap
  /\ \E nbytes \in ArgReads :
       LET args == arguments[current_pcb]
           at == arg_position[current_pcb]
           piece == SubSeq(args, at + 1, Min({at + nbytes, Len(args)}))
       IN  /\ arg_position' = [arg_position EXCEPT ![current_pcb] = @ + Len(piece)]
           /\ taken' = [taken EXCEPT ![tlb] = @ \o piece]
  /\ UNCHANGED <<memory, program, arguments, tlb, vid_mapped, typed, command>>

\* sys_vidmap with an address in the program's page, and system_call_vidmap.
Vidmap ==
  /\ Booted /\ Trap
  /\ program[tlb] \in VideoPrograms
  /\ vid_mapped' = TRUE
  /\ UNCHANGED <<memory, program, arguments, arg_position, tlb, typed, command, taken>>

\* sys_halt maps the parent's image; it says nothing of the video page.
HaltToParent ==
  /\ HaltProgram
  /\ tlb' = TlbFlushed
  /\ UNCHANGED <<memory, program, arguments, arg_position, vid_mapped, typed, command,
                 taken>>

KernelSteps ==
  NoCommand \/ ClaimCleared \/ LoadNamed \/ ((FinishPcb \/ ExecuteRefused) /\ NothingSeen)

ProgramsNext ==
  \/ (BootShell \/ ShowFirstTerminal \/ Trap \/ SwitchTerminal) /\ NothingSeen
  \/ ExecuteTyped \/ ReadLine \/ GetArgs \/ Vidmap \/ HaltToParent
  \/ KernelSteps
  \/ RestartShell /\ NothingSeen

\* The processor and the timer as in Processes: wherever a step of Kernel is
\* possible, one of KernelSteps is.
ProgramsSpec == ProgramsInit /\ [][ProgramsNext]_pvars /\ Fairness
-----------------------------------------------------------------------------
\* Started by a command that the kernel or a user gave, in this slot.
Live == {n \in Slots : n < process_number /\ command[n] # <<>>}

\* A program runs in its own image, and that is the executable whose name is
\* the first word of the line: it was loaded where the program then runs, with
\* no translation left from its parent, and the programs it executed since have
\* not touched it.
RunsNamedProgram ==
  mode = "user" => tlb = ctx /\ program[tlb] = FirstWord(command[ctx])

\* What getargs has given a program and what it will still give is the line
\* after its first word and the blanks, whatever longer line the shell read
\* before, whoever had the PCB before and whatever the programs it executed did
\* to theirs.  (What the shells get that the kernel executes depends on the
\* bytes after the literal "shell".)
ArgumentsReachProgram ==
  mode = "user" =>
    \A n \in Live :
      n >= NumTerminals =>
        taken[n] \o SubSeq(arguments[n], arg_position[n] + 1, Len(arguments[n]))
          = Rest(command[n])
=============================================================================
