------------------------------- MODULE Entry -------------------------------
(***************************************************************************)
(* entry() of kernel.c: the messages about what the boot loader handed     *)
(* over and the two early returns, before the initialisation, the          *)
(* interrupts and the ticks of Interrupts.                                 *)
(***************************************************************************)
EXTENDS Interrupts, Printf

CONSTANTS
  Memory,      \* words, among which the structures of the boot loader lie
  CommandLines \* the kernel's command lines

ASSUME EntryAssumption ==
  /\ Memory \in Seq(0 .. WORD - 1)
  /\ \A line \in CommandLines :
       /\ line \in Seq(Nat) /\ line # <<>> /\ Last(line) = Nul
       /\ \A i \in 1 .. Len(line) - 1 : line[i] \notin {Nul, Newline}

VARIABLES
  said,   \* how far entry is, see Sayings
  cursor, \* screen_x, screen_y
  message \* history: the last printf

messages == <<said, cursor, message>>
evars == <<vars, messages>>

\* magic: before the test of the magic number; ...; bytes: within the loop over
\* the first bytes of a module; bits: before the test of bits 4 and 5; entries:
\* within the loop over the memory map; done: before i8259_init; returned: in the
\* loop at the end of boot.S
Sayings == {"magic", "flags", "memory", "device", "command", "modules", "bytes", "bits",
            "sections", "map", "entries", "done", "returned"}

Nothing == [format |-> <<>>, args |-> <<>>, text |-> <<>>]

EntryInit ==
  /\ Init
  /\ said = "magic" /\ cursor = [x |-> 0, y |-> 0, last |-> 0] /\ message = Nothing
-----------------------------------------------------------------------------
\* n fields of a structure.
Words(n) == {SubSeq(Memory, i, i + n - 1) : i \in 1 .. Len(Memory) - n + 1}

printf(format, args) ==
  /\ message' = [format |-> format, args |-> args, text |-> Output(format, args)]
  /\ cursor' = puts(cursor, Output(format, args))

Goes(from, to) == said = from /\ said' = to
Silent == UNCHANGED <<cursor, message>>

\* clear() has been called; any other loader than a multiboot one ends it here.
CheckMagic ==
  \/ Goes("magic", "returned") /\ \E w \in Words(1) : printf(<<"text", "%#x", "newline">>, w)
  \/ Goes("magic", "flags") /\ Silent

\* The flags, and the fields that bits 0 and 1 announce.
SayFields ==
  \/ Goes("flags", "memory") /\ \E w \in Words(1) : printf(<<"text", "%#x", "newline">>, w)
  \/ Goes("memory", "device") /\ \E w \in Words(2) :
       printf(<<"text", "%u", "text", "%u", "text", "newline">>, w)
  \/ Goes("device", "command") /\ \E w \in Words(1) : printf(<<"text", "%#x", "newline">>, w)
  \/ (Goes("memory", "device") \/ Goes("device", "command")) /\ Silent

\* Bit 2.
SayCommandLine ==
  \/ Goes("command", "modules") /\ \E line \in CommandLines :
       printf(<<"text", "%s", "newline">>, <<line>>)
  \/ Goes("command", "modules") /\ Silent

ByteItems   == <<"text", "%x", "text">>
ModuleItems == <<"text", "%d", "text", "%#x", "newline", "text", "%d", "text", "%#x",
                 "newline", "text", "newline", "text", "%x", "text">>

\* Bit 3: a module, up to its first byte; further bytes; the end of its line; no
\* further module.  mod_count is not negative.
SayModules ==
  \/ Goes("modules", "bytes") /\ \E w \in Words(3), byte \in Words(1) :
       /\ 2 * w[1] < WORD
       /\ printf(ModuleItems, <<w[1], w[2], w[1], w[3], byte[1]>>)
  \/ Goes("bytes", "bytes") /\ \E byte \in Words(1) : printf(ByteItems, byte)
  \/ Goes("bytes", "modules") /\ printf(<<"newline">>, <<>>)
  \/ Goes("modules", "bits") /\ Silent

CheckBits ==
  \/ Goes("bits", "returned") /\ printf(<<"text", "newline">>, <<>>)
  \/ Goes("bits", "sections") /\ Silent

\* Bit 5.
SaySections ==
  \/ Goes("sections", "map") /\ \E w \in Words(4) :
       printf(<<"text", "%u", "text", "%#x", "text", "%#x", "text", "%#x", "newline">>, w)
  \/ Goes("sections", "map") /\ Silent

\* Bit 6: the entries of the memory map.
SayMap ==
  \/ Goes("map", "entries") /\ \E w \in Words(2) :
       printf(<<"text", "%#x", "text", "%x", "newline">>, w)
  \/ Goes("entries", "entries") /\ \E w \in Words(6) :
       printf(<<"text", "%x", "text", "%#x", "%#x", "newline",
                "text", "%x", "text", "%#x", "%#x", "newline">>, w)
  \/ (Goes("map", "done") \/ Goes("entries", "done")) /\ Silent

Say ==
  \/ CheckMagic \/ SayFields \/ SayCommandLine \/ SayModules
  \/ CheckBits \/ SaySections \/ SayMap

\* boot.S, after entry has returned: hlt in a loop, with interrupts off.
Halt == said = "returned" /\ UNCHANGED evars

\* The rest of entry looks at none of the messages; the first tick clears the
\* screen and puts the cursor in its corner.
EntryNext ==
  \/ Say /\ UNCHANGED vars
  \/ Halt
  \/ said = "done" /\ Boot /\ message' = Nothing /\ UNCHANGED <<said, cursor>>
  \/ BootTick /\ cursor' = [x |-> 0, y |-> 0, last |-> 0] /\ UNCHANGED <<said, message>>
  \/ (LaterSteps \/ Other) /\ UNCHANGED messages

EntrySpec == EntryInit /\ [][EntryNext]_evars /\ WF_vars(Handler)
-----------------------------------------------------------------------------
\* Every number, string and character of a message is printed as the comment on
\* printf says, in the order of the arguments.
PrintsAsDocumented ==
  message.text = DocumentedOutput(message.format, message.args)

\* However many modules and memory ranges the boot loader reports, the messages
\* stay in the video page: they go on in the first row when the last one is full,
\* and of the row behind the screen only the first cell is written.
MessagesStayInPage == cursor.last < PAGE
=============================================================================
