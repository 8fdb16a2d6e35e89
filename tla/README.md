# A verification of the ORCA-OS kernel

ORCA-OS (`src/student-distrib`) is a small x86 kernel in C and assembly: three
text terminals with a base shell each, a read-only file system, a line editor
on the keyboard, a real-time clock and ten system calls of which eight do
something. There is one processor and one thread of control: the context switch
of the scheduler is compiled out (`#if 0` in `scheduling.c`), so a process runs
until it executes a child or halts. What makes the code hard is the rest: three
sources of interrupts that come wherever `sti` has been called, a boot that is
driven by timer ticks that never return, one video page shared by three
terminals, and process bookkeeping spread over `process_number`, `recover_num`,
per-terminal lists and the PCBs in memory.

This directory holds TLA+ models of these parts, TLC configurations that check
them, and TLAPS proofs of their main invariants. Paths below are relative to
`src/student-distrib`.

## Components

| component | state | operations | modules |
|---|---|---|---|
| process control | `process_number`, `recover_num`, `current_pcb`, the PCBs, kernel stacks, `page_directory[32]`, `tss.esp0`, `execute_counter` | boot ticks of `scheduler`, `sys_execute` with `create_pcb`, `sys_halt`, `start_first_shell`, Alt+Fn | `Processes`, abstract: `ProcessStack`, proofs: `ProcessesProofs` |
| system call arguments, paging | the command buffer, the images, `arguments` and `arg_position` of the PCBs, the translation in use, whether `page_directory[33]` is mapped | the parts of `sys_execute` and `terminal_read` that touch them, `sys_getargs`, `sys_vidmap`, `flush_tlb` | `Programs` (extends `Processes`), proofs: `ProcessesProofs` |
| terminal screens | visible page, three saved pages, cursor and saved cursors, `terminal_on_display` | `switch_terminal` from ticks and keys, output | `TerminalSwitch`, abstract: `VirtualScreens`, proofs: `TerminalSwitchProofs` |
| line input and text output | cells and cursor of a screen, `terminal_buffer`, `enter`, `line_run_over_flag` | echo, Tab, Backspace, Enter, Ctrl+L, Alt+Fn, `terminal_read`, `terminal_write` | `Screen` (operators), `LineInput`, proofs: `LineInputProofs` |
| keys and modifiers | `shift`, `shift_l`, `shift_r`, `ctrl`, `alt`, `caps_lock` | `scan_code_to_ascii`, `keyboard_handler` | `Modifiers`, proofs: `ModifiersProofs` |
| real-time clock | chip frequency, `rtc_virtualization_counter`, `frequency_division_rate`, `rtc_interrupt_flag` | `rtc_handler`, `rtc_open`, `rtc_close`, `rtc_read`, `rtc_write` | `Rtc`, proofs: `RtcProofs` |
| file system image | the image, never written | `read_dentry_by_name`, `read_dentry_by_index`, `read_data` | `FileSystem` (operators) |
| file descriptors | `file_array` of a PCB slot | `create_pcb`, `sys_open`, `sys_read`, `sys_close`, the drivers, `sys_halt`, restart | `Descriptors`, proofs: `DescriptorsProofs` |
| interrupt control and exceptions | masks, requests, in-service bits, interrupt flag, handlers on the stack, `scheduling_esp` of the terminals' PCBs, `terminal_counter`, the IDT | `i8259.c`, `idt_init`, `set_idt`, the linkages, `pit_handler`, `send_eoi`, exception handlers | `Interrupts`, proofs: `InterruptsProofs` |
| start of the machine | how far `entry` is, what it has initialised, the cursor of its messages | `entry` from the magic number to `sti` and its early returns | `Entry` (extends `Interrupts`), proofs: `InterruptsProofs` |
| strings and printf | none | `strlen`, `strncmp`, `strrev`, `itoa`, `printf`, `puts`, `putc` | `Strings`, `Printf` (operators) |

How they interact: the keyboard handler calls `switch_terminal`, and so feeds
`terminal_on_display` to everything else: `create_pcb` reads it twice and
`check_process_num` once, the RTC handler takes its rate from it, the line
editor its buffer. The timer handler executes shells during the boot. Halt
closes descriptors, `start_first_shell` replaces a shell without doing so.
`sys_execute` claims a descriptor of the new process while it loads, takes the
name and the arguments out of the buffer `terminal_read` filled, and copies the
image through a translation that it has just changed. Each model keeps the
shared variables it needs and lets the other side change them freely:
`SwitchTerminal` occurs in `Processes`, `TerminalSwitch`, `LineInput` (`AltFn`)
and `Rtc`. `Programs` and `Entry` are compositions: each adds its state to the
actions of the module it extends, and is proved to take only steps of it.

### Not modelled

* The context switch in `scheduler()` after the boot ticks, and
  `scheduler_paging`, which only it calls: compiled out. `tests.c` and what only
  tests call: `disable_irq`, the memory functions, `strcpy`, `strncpy` and the `_term`
  variants of the screen functions.
* Straight-line code that writes constants once: `boot.S` up to `entry`, the
  GDT, LDT and TSS in `x86_desc.S`, the entries that `page_init` makes. That
  `entry` calls it, and when, is in `Entry` and `Interrupts`.
* `sys_set_handler` and `sys_sigreturn`, which return -1 and change nothing.
* The layout of a PCB: `sys_close(8)` looks at bytes behind `file_array`, where
  the arguments are (a hazard without a property). Offsets, colours and the ports
  of the cursor and of the RTC's registers are reduced to what they select.
* What lies on a stack that a handler takes without having saved its registers on it,
  and in an uninitialised buffer: in `Interrupts` control is `lost` from there, in
  `Processes` a command that names no file may count as an executable or not.

## The models

**Processes.** A process is a slot `n`; PCB, kernel stack and image page are
functions of `n` in the code, so the model names all three by it. `page`,
`tss_esp0` and `ctx` stand for `page_directory[32]`, `tss.esp0` and the image
whose code runs; `frame[n]` is the user context at the top of kernel stack `n`
and `esp[n]` the stack that the saved esp of PCB `n` points into. That lets the
model say what happens when the bookkeeping is wrong: loading an image destroys
the context that lived in its page, and a halt whose saved esp leads to no user
frame leaves control "lost". `sys_execute` is cut where an interrupt can come
(`check`, `claimed`, `created`): its `sti` at `system_callASM.S:51` precedes
`create_pcb`, and `create_pcb` reads `terminal_on_display` on both sides of a
cut. From `cli` to `iret` it is one action. `ExecuteRefused`, `ExecuteNothing`
and `RejectFile` are its three error paths: no slot, no command, no executable.
The constant `Env` names the circumstances a run admits: refused commands,
Alt+Fn while a program runs or is being built, a base shell that exits away from
the last terminal, a boot that outlasts a timer period. `overrun` is a history
variable.

**ProcessStack** is the promise to programs: processes form a stack, execute
pushes, halt pops and resumes what is below, a base shell is replaced but never
removed. `Processes` implements it with `stack` read off the frames the PCBs
return to (`Chain`).

**Programs** puts memory under the processes. A shell reads a line into its
buffer (`ReadLine`), executes it, and the name and the arguments are cut out as
the code does it, characters and Nuls included; the image is written to the slot
that `tlb`, the translation in use, leads to; `GetArgs` hands the arguments out in
pieces and `Vidmap` maps the video page, which no code unmaps. What a line means is defined apart from
that, as its first word and the rest, and histories keep which line started each
program and what it has been given.

**TerminalSwitch** keeps the visible page, the saved pages and cursors as whole
values and every copy in its order; **VirtualScreens** is the promise, a screen
and a cursor per terminal. Terminal `t` is seen in `video` while it is displayed
and in `backing[t]` otherwise.

**Screen** translates the functions of `lib.c` that move the cursor and write
cells, **LineInput** the handler's editing keys and `terminal_read`, whose loop
runs with interrupts enabled and is cut into its five steps. The screens of
different terminals are independent here because of `TerminalSwitch`. With
`AnyTime` keys come whenever they like, Backspace crosses rows and programs print
anything; without it keys come while a read waits. The histories `plain` and
`shown_line` say which lines were typed plainly and what stood on the screen when
Enter came, so that the properties need no exclusions.

**Modifiers** has the six flags, the physical keys that are held and what the
last key did; the layout is a constant.

**Rtc** has the division rates per terminal; `rtc_read` is cut between `sti`,
the reset of the flag and the loop. **FileSystem** holds `read_data` and the
directory functions as operators over an image; **Descriptors** the
`file_array` of one slot under a sequence of processes.

**Interrupts** models two cascaded controllers in fully nested mode from how the
code uses them (external), with the handlers reduced to what they do to the
interrupt flag and to the controllers, and `entry` as a sequence of steps that
install gates (`gates`), open inputs (`unmasked`) and initialise what shells need
(`ready`). The stack switch of `pit_linkage` is in it: `SaveEsp` writes the place of
the registers to the PCB of `terminal_counter`, a boot tick may increment
`terminal_counter`, and `ReturnTick` resumes what was interrupted only if the PCB it then
reads gives that place; otherwise `control` is `lost`. (With one base
shell a tick without a shell could come while the first one returns, and overwrite its
place; hence `InterruptsAssumption`.) An
exception handler prints and loops behind an interrupt gate: `control` is `halted`.
**Entry** puts before that the messages
about the boot loader's structures, whose fields may be any words of `Memory`,
and the two early returns to the `hlt` of `boot.S`. **Printf** prints them:
formats are sequences of conversions and pieces of text, a word has `HEX_DIGITS`
hexadecimal digits, and the cursor's way over the page is that of `putc`. The
reference it is checked against is the comment on `printf`.

## Runs

| run | states | what it shows |
|---|---|---|
| `anything` | 7.7 million | Whatever the user does and however slow the boot: process numbers stay in range, the current PCB is one `create_pcb` filled in, the active lists are stacks; and if no tick cuts a boot short, the base slots stay reserved. |
| `stack` | 825,247 | In ordinary use: each process on its own page, stack and PCB, the lists name exactly the processes above the base shells, halt resumes the parent, execute returns, the boot completes, `ProcessStack` is implemented; and each program is the one the line names, in its own image, and gets the arguments of its line and of no other. |
| `bad_command` (violated) | | See findings. |
| `switching` (violated) | | See findings. |
| `screens` | 145,332 | Three terminals on one page behave as three screens, also when the user switches during the boot or to the terminal displayed; the boot leaves no page uncleared. |
| `editing` | 413,824 | With lines that wrap and scroll on two terminals, what stands left of the cursor is what the buffer holds, and a read returns the line on the screen. |
| `any_time` | 187,648 | The same of plain lines when keys come at any time, with type-ahead, late keys and Backspace across rows before them; no buffer or screen overflows, and an Enter a read waits for ends it. |
| `modifiers` | 5,328 | No modifier sticks; keys act as the modifiers held say. |
| `clock` | 73,248 | Reads return, and within the slowest period, however terminals are switched; undisturbed wakes are a division rate apart, also across the wrap of the counter. |
| `files` | 597,775 | Every read continues where the last one ended, directories are listed once and in order, descriptors are in use exactly from open to close, with several descriptors, refused commands and both ways a process ends. |
| `rtc_close` (violated) | | See findings. |
| `nesting` | 16,784 | From the first message of `entry` on: numbers are printed as documented and inside the video page, interrupts are enabled only when gates, devices, files, pages and processes are ready, in-service bits follow the handlers on the stack, handlers do not nest, no input stays blocked, across boot ticks that never return, refused shells, and exceptions; a tick without a shell, and the first one if its shell is refused, takes back its own stack. A later boot tick whose shell is refused loses control, and what comes after that is not modelled. |

Bounds, and why they are enough. The violated runs of `Processes` use the
code's own constants. `stack` has the code's 3 terminals and 4 places and 5
processes for 6, so that a shell above the last base shell runs another program
and a third is refused; names have up to 2 characters in an array of 3, so one
just fits, lines go with and without arguments, arguments are taken one character
at a time, and a slot is used by a program with arguments before and after one
without. `anything` uses 2 terminals, 4 processes and 2 places, so that one
base shell is the last and one is not, two programs run above it and lists
fill; its invariants are also proved for all values.
`LineInput` has rows of 4 columns (3 used by echo), 2 rows and buffers of 3 or 4:
a line wraps, scrolls and fills the buffer, and Tab (2 for 5) is cut short by
the limit. `Rtc` uses a period of 32 for 1024, with the same powers of two as
divisors, and 2 terminals: the displayed one and another. The image of
`Descriptors` has blocks of 2 bytes, an empty file, a file of three blocks out
of order whose last is half used, and reads of 1 to 3 bytes, so that a read
ends inside, at and beyond a block; 5 descriptors leave 3 to programs. `Entry`
has words of two hexadecimal digits, among them zero, the largest, the smallest
negative number and one-digit numbers; 8 columns and 3 rows, so that messages
wrap, fill the screen and start again at its top, in a page that is larger than
the screen by half a row; and any number of modules, of their first bytes (16 in
the code) and of memory ranges. Counters that the code lets run are bounded by
the properties themselves (positions by `MaxPosition`) or, in the history
`waited`, at one more than the value the property allows.

Fairness. `Processes` and `Programs`: kernel code that is running goes on
(`Kernel`) and the timer ticks; commands and keys are not assumed. `LineInput`:
the loop of `terminal_read` goes on; nobody has to type. `Rtc`: the chip
interrupts and `rtc_read` goes on. `Interrupts` and `Entry`: handlers go on; that
a request comes, or that a program enables interrupts, is not assumed. All are
properties of a processor that executes, there being no scheduler to starve
anyone. `Modifiers`, `TerminalSwitch` and `Descriptors` state safety only.
`MCProcesses` runs with deadlock checking off: a halt that resumes no frame
leaves nothing to model, and a shell that does nothing is a legal end.

Assumptions: `enter` is read from memory in each iteration of `terminal_read`
(it is not `volatile`, but the Makefile asks for no optimisation); the memory of
the PCBs is zero at boot; the image is well formed; a directory is read with at
least 32 bytes; only the keys that send their own codes are pressed. In
`Programs` commands name executables, a program reads a line before it executes
one, lines fit the buffer, and the bytes behind the kernel's literal "shell" are a
constant (`AfterLiteral`): what those shells get as arguments depends on them and
no property speaks of it. In `Entry` the boot loader's command line is one line
that ends; the bits of its flags decide only which messages appear.

## Findings

* `bad_command`: `sys_execute` undoes `process_number` and `current_pcb` for a
  refused file but leaves the entry `create_pcb` made in `active_processes`. The
  next program's halt takes that entry for its own and restores another page.
* `switching`: `check_process_num` looks at the list of the terminal that is
  displayed, not at the one that holds the program that halts. A program that ends
  while another terminal is displayed restarts a base shell there and its parent never
  resumes. In the trace the switch comes between the two reads of
  `terminal_on_display` in `create_pcb`; one while the program runs leads to the same.
* `rtc_close`: neither `sys_close` nor `rtc_close` clears the flags; six opens
  and closes of the RTC use up a process's descriptors.

A trace shows one way only in which a property fails. Two of these runs admit others,
each of which TLC finds if the constant admits no other event:

* `HaltReturnsToParent` with `"exit_elsewhere"` alone: for a program above a base shell
  halt returns to the last base shell, whichever shell executed it, so that a shell
  restarted on terminal 0 or 1 resumes with the page, the stack and the PCB of
  terminal 2's. With `"bad_command"` alone it fails for the reason of that run.
* `InUseIsHeld` without the RTC: a shell replaced by `start_first_shell` leaves its
  descriptors in use in its successor. (`InUseUntilClosed` knows them by the history
  value `Left`.)

What the models contain but no run checks, because the code is known to differ from
what a property would say:

* A boot tick behind the first whose shell is refused (an image without an executable
  `shell`): `pit_linkage` saves its stack in the PCB of `terminal_counter` and loads it
  from there, but `scheduler` increments `terminal_counter` in between
  (`scheduling.c:68`). The tick returns through an esp that was never saved; in
  `Interrupts` `control` is `lost`.
* A Backspace at the start of a row: `backspace_to_prev` goes to the last column, which
  echo never uses. The character it takes from the buffer stays on the screen, though
  `buglog.txt:41` says that all cases are covered. Such a line is not `plain`.
* The mapping of the video page: `sys_halt` does not undo it, of which a comment in
  `sys_vidmap` reminds. In `Programs` `vid_mapped` stays `TRUE`.
* A boot tick whose execute outlasts the timer's 10 ms (`"late_tick"`): the next tick
  abandons it and takes its slot, and the boot ends with fewer than three base shells.

## Proofs

All theorems hold for every value of the constants under the assumption named
in the module, with no state bound. Where a model computes by going through a
sequence (the loops of `read_data`, `strncmp`, the copies of `sys_getargs`, Tab and
`write_string_to_screen`), it does so with a recursive function, and `Induction` has what
the proofs need for those: a set of numbers that has 0 and with every number the next
has all (`AllNumbers`, from the least element that is missing, which a Cardinality
bounds), that a function defined by recursion over `0 .. m` exists and satisfies its
definition (`RunsExist`), and facts on division, minimum and maximum.

* `ProcessesProofs` has four parts.
  * Any use: `TypeCorrect`, `ActiveListsAreStacks`, `CurrentPcbCreated` from the
    invariant `IInv` (`Invariance`). `CurrentPcbIsCreated` is far from
    inductive: halt sets `current_pcb` to the slot below an entry of a list,
    refused commands leave entries behind, and `recover_num` makes
    `process_number` jump. `IInv` therefore says that the slot below every entry,
    below `process_number` and below `recover_num` was created (`NumbersInv`),
    what each point of execute knows (`ControlInv`), and that before the boot ends
    there are no more processes than ticks (`BootInv`). `BaseSlotsStay` adds
    `BaseInv`: in a boot without an overrun there are as many processes as ticks, and
    after it no entry of a list, restart or refusal takes `process_number` below the
    base shells.
  * `OrdinaryUse`: no event of `Env`, and lists as long
    as there are processes above the base shells (the code's 4 places for 3).
    `OwnAddressSpaces`, `ActiveMatchesParents` and `HaltsReturn` from `OInv`: the
    list of the displayed terminal holds the slots above the base shells in their
    order and the other lists nothing (`ListsInv`); each of these processes returns
    to the stack of the one below, on which that one's context lies (`ChainInv`, the
    non-recursive form of `Chain`); the slots hold their own numbers (`SlotsInv`);
    and what the boot and a restart have done so far (`PhaseInv`). Each of the three
    properties needs all four parts: the page comes from the lists, the context from
    the chain.
  * The abstract specification: `StackImplemented`, that `Processes` implements
    `ProcessStack`. The mapping reads the stack off a recursive function; the proof
    shows that this function exists and is a `Tower`, a base shell and the slots
    above it in order, so that execute appends to it, halt takes its last element
    and a restart leaves a tower of one (`StackInv`).
  * Programs: `ProgramsTakeSteps`, that `Programs` implements `Processes`,
    fairness included, so that `ProgramsKeepStack` gives it the properties above and
    the refinement. `ProgramsRunAsNamed` and `ArgumentsReach` from `PInv`
    (`ProgramsInvariance`): the buffer of a slot is the line read there (`MemoryInv`),
    the image of a slot is the one its command names (`ImageInv`), the translation in
    use is that of the page mapped while a program runs (`TlbInv`), who calls execute
    has read a line (`CallInv`), and the PCB of every program has the rest of its line,
    of which the first `arg_position` characters have been handed out (`ArgumentsInv`).
    The lemmas under it are about data: what the loops of `sys_execute` cut out of a
    buffer with its Nuls is the first word and the rest of the line, whichever blanks
    the line has, and `strncmp` compares such names as wholes.
* `LineInputProofs`. `TypeCorrect`, `EchoFaithful` and `ShownLineReturned` from `IInv`
  (`Invariance`): no buffer overflows and no cursor leaves the screen; the plain line of
  every terminal, displayed or not, ends at that terminal's cursor, character by character
  through wrapped rows (`EchoInv`); and while a read is between Enter and its return
  the line shown is the buffer of the terminal it reads from (`ShownInv`).
  `EchoInv` is preserved by a scroll only because the screen holds a line: with
  `BufferSize - 1 > (NUM_ROWS - 1) * (NUM_COLS - 1)` the first row of a long line
  scrolls away, so that is an assumption. The code's 128 characters and 25 rows of 80
  columns are far from it.
* `TerminalSwitchProofs`. `BootClearsAll` from `ClearedInv`, and `Refinement`:
  `TerminalSwitch` implements `VirtualScreens`. It rests on
  `CopiesKeepScreens`: after the two copies every terminal, seen through the new
  `terminal_on_display`, is as it was, the displayed one included.
* `RtcProofs`. `BoundedWait` from `WaitInv`: every division rate divides the
  slowest, and a reader not yet woken has waited no longer than the counter is
  into its half period; counts 0 and half wake a reader under every rate.
  `PeriodIsSteady` adds `LapseInv`: the lapse counted since the last wake is the
  counter modulo the displayed rate, which the wrap of the counter respects because
  every rate divides the period too.
* `ModifiersProofs`. `NothingSticks` and `KeysObey` from `FlagsInv` (a flag that
  is set has a key that is down) and `PairsInv` (the flags of a pair that was not
  held as a pair follow its keys).
* `InterruptsProofs`. `NoNesting`, `ServiceFollowsHandlers` and `Prepared` from
  `IInv`: below the running handler there are only boot ticks that have signalled
  their end (`BelowInv`); only a boot tick that has done so runs with interrupts
  enabled, and in service is what the running handler serves and nothing else
  (`TopInv`); `terminal_counter` is the terminal of the last boot tick (`CountInv`); before its last step `entry` leaves interrupts off (`OffInv`) and each
  step has left what it is for (`SetupInv`). `StackTakenBack` adds `EspInv` (`EspInvariance`): while
  `terminal_counter` is 0 there has been one boot tick at most, and the PCB of terminal 0
  holds its place; a tick that runs with interrupts disabled finds the place it saved,
  because no other comes on top of it. Later boot ticks have no such invariant.
  `EntryTakesSteps` and `EntryKeepsOrder`
  carry the four over to `Entry`, which implements `Interrupts`. The second part is
  about its messages. `PrintfAsDocumented`: for every format whose conversions have
  arguments of their kinds (`Fits`), and words of every width, what `printf` prints is what
  the comment on it says. `ItoaIsNumeral` compares the divisions of `itoa` with the places
  of the number (`DivideTwice`), `PaddedIsDocumented` the zeros that `%#x` puts into `conv_buf`, and the index at
  which it starts to print, with the places a short number lacks, and `OutputFacts` the argument pointer with the number of conversions before.
  `PrintedAsDocumented` and `MessagesInPage` follow with `MessagesInv`: the cursor is in
  a row of the screen or at the start of the row behind it (`Inside`). That is kept only
  because no message starts a line after an empty one (`Apart`): two newlines in the
  last row would lead behind that row, and `MessagesInv` says in particular that the
  newline that ends a module's bytes comes after one of them.
* `DescriptorsProofs`. `UseUntilClose` and `DirectoriesListed`: a descriptor in use
  has a driver of `sys_open`'s and, but for the RTC's, is one that was not closed
  (`UseInv`); a slot without a process holds nothing but what a restarted shell left
  (`GoneInv`); the position in an open directory is the number of entries delivered
  times their length (`DirectoryInv`). `LoadedFacts` says that the claim of
  `sys_execute` gives back what it takes, `ClosedFacts` what each driver's close does.
  `ReadIsPart` is about the algorithm alone: in a well-formed image `read_data`, which
  copies byte by byte and goes to the next block at each multiple of the block size, returns
  for every file, position and length that part of the file's blocks put one after the
  other. With `FileInv` (the position in an open file is what has been read of it)
  `FilesReadInOrder` follows for readers that ask for at least one byte. That hypothesis
  is the code's: `file_read` takes a result of 0 for the end of the file and
  then sets the position to its length, whatever was asked for
  (`filesystems.c:186`), so a read of no bytes skips the rest of the file.

The type invariants of these components are theorems too (`TypeCorrect`). 

What the theorems assume of the constants, besides their types: lists have room and `Env`
is empty where `OrdinaryUse` is a hypothesis; names fit their array and lines the buffer
(`ProgramsAssumption`); a screen holds a line (`LineAssumption`); the rates are divisors of the
period (`RtcAssumption`); files have blocks for their length (`FileSystemAssumption`); the page
is larger than the screen, and command lines are lines (`EntryAssumption`); there is more than
one base shell (`InterruptsAssumption`). TLC evaluates the
named ones in the run of their module; `OrdinaryUse` is a hypothesis, stated in the theorems
that need it.

Only model-checked: liveness (`ExecuteReturns`, `BootCompletes`, `EnterEndsRead`,
`ReadsReturn`, `ServiceEnds`), which is out of the prover's reach. Every invariant and
every action property of a passing run is a theorem.

## Plan

Order of work: process control, terminals, line input, clock, files and
descriptors, interrupts, keys, then programs and their arguments, start of the
machine and printf, then the proofs of all their invariants (all done). What is left:

1. Models: the buffer `sys_execute` leaves for a refused command in `Programs`;
   `LineInput` on `TerminalSwitch` instead of on its abstraction; `write` to the
   RTC inside the process model; the layout of a PCB, and with it `sys_close(8)`.
2. Proofs: the step of each liveness argument that is an invariant or an action
   property (what `ExecuteReturns` counts down, that a handler's points only go on).
