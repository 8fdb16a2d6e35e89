-------------------------- MODULE InterruptsProofs --------------------------
(***************************************************************************)
(* Proofs about Interrupts, for every number of base shells: the           *)
(* controllers and the stack of handlers agree, handlers do not nest, and  *)
(* interrupts are enabled only when all that they use is set up; the same  *)
(* of the whole of entry(), whatever the boot loader hands over; and its   *)
(* messages, which are printed as documented and stay in the video page.   *)
(***************************************************************************)
EXTENDS Entry, Induction, SequenceTheorems, TLAPS

Frame == [irq : Irqs, point : Points]

\* Points before the end of service is signalled, and those that run with
\* interrupts disabled.
Serving == {"body", "early", "eoi"}
Closed  == {"body", "eoi"}

\* Frames below the running one are boot ticks that have signalled their end.
BelowInv ==
  \A i \in 1 .. Len(frames) - 1 : frames[i].irq = 0 /\ frames[i].point \notin Serving

\* Only a boot tick runs with interrupts enabled, and in service is nothing but
\* what the running handler serves.
TopInv ==
  /\ frames = <<>> => in_service = {}
  /\ frames # <<>> =>
       LET top == frames[Len(frames)]
       IN  /\ top.irq # 0 \/ top.point \in Closed => ~enabled
           /\ in_service = IF top.point \in Serving THEN Chain(top.irq) ELSE {}

\* Interrupts stay off until the last step of entry.
OffInv == stage < Len(Stages) => frames = <<>> /\ ~enabled

\* What the steps up to this one have set up.
SetupInv ==
  /\ \A irq \in unmasked \ {Cascade} : Vector(irq) \in gates
  /\ stage > 2 => Exceptions \cup {SystemCall} \subseteq gates
  /\ stage > 6 => "files" \in ready
  /\ stage > 7 => "pages" \in ready
  /\ stage > 8 => "processes" \in ready

\* terminal_counter follows the boot ticks: it is the terminal of the last one.
CountInv ==
  terminal_counter =
    IF execute_counter = 0 THEN 0
    ELSE IF execute_counter <= NumShells THEN execute_counter - 1 ELSE NumShells - 1

IInv == TypeOK /\ BelowInv /\ TopInv /\ OffInv /\ SetupInv /\ CountInv
-----------------------------------------------------------------------------
LEMMA InitIInv == Init => IInv
<1> SUFFICES ASSUME Init PROVE IInv
  OBVIOUS
<1>1. TypeOK
  <2>1. stage \in DOMAIN Stages /\ execute_counter \in 0 .. NumShells + 1
    BY InterruptsAssumption DEF Init, Stages
  <2>2. enabled \in BOOLEAN /\ control \in {"runs", "halted", "lost"}
    BY DEF Init
  <2>3. frames \in Seq([irq : Irqs, point : Points])
    BY DEF Init
  <2>4. terminal_counter \in Terminals /\ scheduling_esp \in [Terminals -> Nat \cup {None}]
    BY InterruptsAssumption DEF Init, Terminals
  <2> QED BY <2>1, <2>2, <2>3, <2>4 DEF Init, TypeOK
<1>2. BelowInv /\ TopInv /\ OffInv /\ SetupInv /\ CountInv
  BY DEF Init, BelowInv, TopInv, OffInv, SetupInv, CountInv
<1> QED BY <1>1, <1>2 DEF IInv

\* The running handler goes on to another point.
LEMMA GotoFacts ==
  ASSUME frames \in Seq(Frame), frames # <<>>, NEW point \in Points, Goto(point)
  PROVE  /\ frames' \in Seq(Frame) /\ Len(frames') = Len(frames) /\ frames' # <<>>
         /\ \A i \in 1 .. Len(frames) - 1 : frames'[i] = frames[i]
         /\ frames'[Len(frames)] = [irq |-> frames[Len(frames)].irq, point |-> point]
<1> DEFINE n == Len(frames)
<1>1. n \in Nat /\ n \in DOMAIN frames
  OBVIOUS
<1>2. frames' = [frames EXCEPT ![n] = [frames[n] EXCEPT !.point = point]]
  BY DEF Goto
<1>3. frames[n] \in Frame
  BY <1>1
<1>4. [frames[n] EXCEPT !.point = point] = [irq |-> frames[n].irq, point |-> point]
  BY <1>3 DEF Frame
<1> QED BY <1>1, <1>2, <1>3, <1>4 DEF Frame

\* All but the last element of a sequence.
LEMMA FrontFacts ==
  ASSUME NEW S, NEW s \in Seq(S) \ {<<>>}, NEW m \in {Len(s)}
  PROVE  /\ m \in Nat \ {0}
         /\ SubSeq(s, 1, m - 1) \in Seq(S) /\ Len(SubSeq(s, 1, m - 1)) = m - 1
         /\ \A i \in 1 .. m - 1 : SubSeq(s, 1, m - 1)[i] = s[i]
<1>1. m \in Nat \ {0}
  OBVIOUS
<1>2. \A i \in 1 .. m - 1 : s[i] \in S
  BY <1>1
<1>3. /\ SubSeq(s, 1, m - 1) \in Seq(S)
      /\ Len(SubSeq(s, 1, m - 1)) = IF 1 <= m - 1 THEN (m - 1) - 1 + 1 ELSE 0
      /\ \A i \in 1 .. (m - 1) - 1 + 1 : SubSeq(s, 1, m - 1)[i] = s[1 + i - 1]
  <2>1. 1 \in Int /\ m - 1 \in Int
    BY <1>1
  <2> QED BY <1>2, <2>1, SubSeqProperties
<1>4. /\ (m - 1) - 1 + 1 = m - 1 /\ \A i \in 1 .. m - 1 : 1 + i - 1 = i
      /\ (IF 1 <= m - 1 THEN (m - 1) - 1 + 1 ELSE 0) = m - 1
  BY <1>1
<1> QED BY <1>1, <1>3, <1>4, Zenon

LEMMA BootStep == ASSUME IInv, Boot PROVE IInv'
<1> USE DEF IInv
<1>1. /\ stage \in 1 .. 9 /\ stage' = stage + 1
      /\ gates' = gates \cup GatesOf(Stages[stage])
      /\ ready' = ready \cup ({Stages[stage]} \cap Services)
      /\ enabled' = Enables(Stages[stage])
      /\ UNCHANGED <<raised, in_service, frames, control, ticks>>
  BY DEF Boot, TypeOK, Stages
<1>2. unmasked' = {Cascade} \/ unmasked' = unmasked \cup InputOf(Stages[stage])
  BY DEF Boot
<1>3. InputOf(Stages[stage]) \subseteq Irqs
  BY <1>1 DEF InputOf, Irqs, Stages
<1>4. TypeOK'
  <2>1. GatesOf(Stages[stage]) \subseteq 0 .. 255
    BY <1>3 DEF GatesOf, Exceptions, SystemCall, Vector, Irqs
  <2>2. enabled' \in BOOLEAN
    BY <1>1, Zenon DEF Enables
  <2>3. stage' \in DOMAIN Stages
    BY <1>1 DEF Stages
  <2>4. gates' \subseteq 0 .. 255 /\ ready' \subseteq Services
    BY <1>1, <2>1 DEF TypeOK
  <2>5. unmasked' \subseteq Irqs \cup {Cascade}
    BY <1>2, <1>3 DEF TypeOK
  <2>6. /\ raised' \subseteq Irqs /\ in_service' \subseteq Irqs \cup {Cascade}
        /\ frames' \in Seq([irq : Irqs, point : Points])
        /\ execute_counter' \in 0 .. NumShells + 1 /\ terminal_counter' \in Terminals
        /\ scheduling_esp' \in [Terminals -> Nat \cup {None}]
    BY <1>1 DEF TypeOK, ticks
  <2>7. control' \in {"runs", "halted", "lost"}
    BY <1>1 DEF TypeOK
  <2> QED BY <2>2, <2>3, <2>4, <2>5, <2>6, <2>7 DEF TypeOK
<1>5. frames = <<>> /\ (stage' < Len(Stages) => ~enabled')
  <2>1. frames = <<>>
    BY <1>1 DEF OffInv, Stages
  <2>2. \A i \in 1 .. 8 : Stages[i] # "sti"
    BY DEF Stages
  <2>3. Len(Stages) = 10
    BY DEF Stages
  <2>4. stage' < Len(Stages) => stage \in 1 .. 8
    BY <1>1, <2>3
  <2> QED BY <1>1, <2>1, <2>2, <2>4, Zenon DEF Enables
<1>6. BelowInv' /\ TopInv' /\ OffInv' /\ CountInv'
  BY <1>1, <1>5 DEF BelowInv, TopInv, OffInv, CountInv, ticks
<1>7. SetupInv'
  <2>1. ASSUME NEW irq \in unmasked' \ {Cascade}
        PROVE  Vector(irq) \in gates'
    <3>1. CASE irq \in unmasked
      BY <1>1, <3>1 DEF SetupInv
    <3>2. CASE irq \in InputOf(Stages[stage])
      <4>1. Stages[stage] # "idt"
        BY <3>2 DEF InputOf
      <4> QED BY <1>1, <3>2, <4>1 DEF GatesOf
    <3> QED BY <1>2, <2>1, <3>1, <3>2
  <2>2. stage' > 2 => Exceptions \cup {SystemCall} \subseteq gates'
    BY <1>1 DEF SetupInv, GatesOf, Stages
  <2>3. /\ stage' > 6 => "files" \in ready'
        /\ stage' > 7 => "pages" \in ready'
        /\ stage' > 8 => "processes" \in ready'
    <3>1. /\ Stages[6] = "files" /\ Stages[7] = "pages" /\ Stages[8] = "processes"
          /\ {"files", "pages", "processes"} = Services
      BY DEF Stages, Services
    <3>2. stage = 6 => "files" \in ready'
      BY <1>1, <3>1
    <3>3. stage = 7 => "pages" \in ready'
      BY <1>1, <3>1
    <3>4. stage = 8 => "processes" \in ready'
      BY <1>1, <3>1
    <3> QED BY <1>1, <3>2, <3>3, <3>4 DEF SetupInv
  <2> QED BY <2>1, <2>2, <2>3 DEF SetupInv
<1> QED BY <1>4, <1>6, <1>7

\* An interrupt is delivered only when no handler has its service to end.
LEMMA NothingInService ==
  ASSUME IInv, NEW irq \in Irqs, enabled, Deliverable(irq)
  PROVE  in_service = {}
<1> USE DEF IInv
<1>1. CASE frames = <<>>
  BY <1>1 DEF TopInv
<1>2. CASE frames # <<>>
  <2> DEFINE top == frames[Len(frames)]
  <2>1. top.irq = 0 /\ top.point \notin Closed
    BY <1>2 DEF TopInv
  <2>2. SUFFICES ASSUME top.point \in Serving PROVE FALSE
    BY <1>2 DEF TopInv
  <2>3. in_service = {0}
    BY <1>2, <2>1, <2>2 DEF TopInv, Chain
  <2>4. MasterInput(irq) < 0
    BY <2>3 DEF Deliverable
  <2> QED BY <2>4 DEF MasterInput, Irqs, Cascade
<1> QED BY <1>1, <1>2

LEMMA DeliverStep == ASSUME IInv, NEW irq \in Irqs, Deliver(irq) PROVE IInv'
<1> USE DEF IInv
<1> DEFINE new == [irq |-> irq, point |-> "body"]
<1>1. frames \in Seq(Frame) /\ new \in Frame
  BY DEF TypeOK, Frame, Points
<1>2. /\ frames' \in Seq(Frame) /\ Len(frames') = Len(frames) + 1
      /\ frames' # <<>> /\ frames'[Len(frames')] = new
      /\ \A i \in 1 .. Len(frames) : frames'[i] = frames[i]
  BY <1>1 DEF Deliver
<1>3. in_service = {} /\ in_service' = Chain(irq) /\ ~enabled'
  BY NothingInService DEF Deliver, Gate
<1>4. TypeOK'
  <2>1. Chain(irq) \subseteq Irqs \cup {Cascade}
    BY DEF Chain
  <2>2. /\ UNCHANGED <<setup, control, ticks>>
        /\ raised' \subseteq raised /\ enabled' \in BOOLEAN
    BY DEF Deliver, Gate
  <2> QED BY <1>2, <1>3, <2>1, <2>2 DEF TypeOK, setup, ticks, Frame
<1>5. \A i \in 1 .. Len(frames) : frames[i].irq = 0 /\ frames[i].point \notin Serving
  <2>1. ASSUME frames # <<>>
        PROVE  frames[Len(frames)].irq = 0 /\ frames[Len(frames)].point \notin Serving
    <3>1. enabled
      BY DEF Deliver
    <3>2. frames[Len(frames)].irq = 0
      BY <2>1, <3>1 DEF TopInv
    <3> QED BY <1>3, <2>1, <3>2 DEF TopInv, Chain
  <2> QED BY <1>1, <2>1 DEF BelowInv
<1>6. BelowInv'
  BY <1>1, <1>2, <1>5 DEF BelowInv
<1>7. TopInv'
  BY <1>2, <1>3 DEF TopInv, Serving
<1>8. OffInv' /\ SetupInv' /\ CountInv'
  BY DEF Deliver, OffInv, SetupInv, CountInv, setup, ticks
<1> QED BY <1>4, <1>6, <1>7, <1>8

\* Iret goes back to a boot tick or to no handler.
LEMMA ResumeStep ==
  ASSUME IInv, Resume, UNCHANGED <<setup, raised, in_service, ticks>>,
         NEW irq \in Irqs, At(irq, "return")
  PROVE  IInv'
<1> USE DEF IInv
<1> DEFINE n == Len(frames)
<1>1. /\ frames \in Seq(Frame) /\ frames # <<>>
      /\ frames[n].point = "return" /\ enabled' = TRUE
      /\ UNCHANGED <<setup, raised, in_service, control, ticks>>
  BY DEF TypeOK, Frame, Resume, At, Last
<1>2. frames' = SubSeq(frames, 1, n - 1)
  BY DEF Resume, Front
<1>3. /\ n \in Nat \ {0} /\ frames' \in Seq(Frame) /\ Len(frames') = n - 1
      /\ \A i \in 1 .. n - 1 : frames'[i] = frames[i]
  <2>1. /\ n \in Nat \ {0}
        /\ SubSeq(frames, 1, n - 1) \in Seq(Frame) /\ Len(SubSeq(frames, 1, n - 1)) = n - 1
        /\ \A i \in 1 .. n - 1 : SubSeq(frames, 1, n - 1)[i] = frames[i]
    <3>1. frames \in Seq(Frame) \ {<<>>} /\ n \in {Len(frames)}
      BY <1>1
    <3> HIDE DEF n
    <3> QED BY <3>1, FrontFacts, Zenon
  <2> QED BY <1>2, <2>1
<1>4. in_service = {}
  BY <1>1 DEF TopInv, Serving
<1>5. TypeOK'
  BY <1>1, <1>3 DEF TypeOK, Frame, setup, ticks
<1>6. BelowInv'
  BY <1>3 DEF BelowInv
<1>7. TopInv'
  <2>1. CASE n = 1
    <3>1. frames' = <<>>
      BY <1>3, <2>1
    <3> QED BY <1>1, <1>4, <3>1 DEF TopInv
  <2>2. CASE n > 1
    <3>1. frames'[n - 1].irq = 0 /\ frames'[n - 1].point \notin Serving
      BY <1>3, <2>2 DEF BelowInv
    <3> QED BY <1>1, <1>3, <1>4, <2>2, <3>1 DEF TopInv, Serving, Closed
  <2> QED BY <1>3, <2>1, <2>2
<1>8. stage = Len(Stages)
  BY <1>1 DEF OffInv, TypeOK, Stages
<1>9. OffInv' /\ SetupInv' /\ CountInv'
  BY <1>1, <1>8 DEF OffInv, SetupInv, CountInv, setup, ticks
<1> QED BY <1>5, <1>6, <1>7, <1>9

\* A handler that returns has ended its service and finds none to end below it.
LEMMA ReturnStep == ASSUME IInv, ReturnTick \/ ReturnDevice PROVE IInv'
<1>1. CASE \/ ReturnDevice
           \/ ReturnTick /\ scheduling_esp[terminal_counter] = Len(frames)
  <2>1. PICK irq \in Irqs : At(irq, "return")
    BY <1>1 DEF ReturnDevice, ReturnTick, Irqs
  <2>2. Resume /\ UNCHANGED <<setup, raised, in_service, ticks>>
    BY <1>1 DEF ReturnDevice, ReturnTick
  <2> QED BY <2>1, <2>2, ResumeStep
<1>2. CASE ReturnTick /\ scheduling_esp[terminal_counter] # Len(frames)
  <2> USE DEF IInv
  <2>1. /\ frames # <<>> /\ frames[Len(frames)].point = "return"
        /\ frames' = <<>> /\ enabled' = FALSE /\ control' = "lost"
        /\ UNCHANGED <<setup, raised, in_service, ticks>>
    BY <1>2 DEF ReturnTick, At, Last
  <2>2. in_service' = {}
    BY <2>1 DEF TopInv, Serving
  <2>3. TypeOK'
    <3>1. frames' \in Seq([irq : Irqs, point : Points])
      BY <2>1
    <3>2. enabled' \in BOOLEAN /\ control' \in {"runs", "halted", "lost"}
      BY <2>1
    <3>3. UNCHANGED <<stage, gates, ready, unmasked, raised, in_service, execute_counter,
                      terminal_counter, scheduling_esp>>
      BY <2>1 DEF setup, ticks
    <3> QED BY <3>1, <3>2, <3>3 DEF TypeOK
  <2>4. BelowInv' /\ TopInv'
    BY <2>1, <2>2 DEF BelowInv, TopInv
  <2>5. OffInv' /\ SetupInv' /\ CountInv'
    BY <2>1 DEF OffInv, SetupInv, CountInv, setup, ticks
  <2> QED BY <2>3, <2>4, <2>5
<1> QED BY <1>1, <1>2

\* The steps of the running handler from one of its points to the next.
LEMMA PointStep ==
  ASSUME IInv,
         \/ BootTick \/ PlainTick \/ EarlyEoi \/ ShellRefused \/ ShellStarted
         \/ \E irq \in Irqs : DeviceHandler(irq) \/ Eoi(irq)
  PROVE  IInv'
<1> USE DEF IInv
<1> DEFINE n == Len(frames)
           top == frames[n]
<1>1. frames \in Seq(Frame) /\ frames # <<>> /\ top \in Frame
  <2>1. frames \in Seq(Frame) /\ frames # <<>>
    BY DEF TypeOK, Frame, At, BootTick, PlainTick, EarlyEoi, ShellRefused, ShellStarted,
           DeviceHandler, Eoi
  <2> QED BY <2>1
<1>2. PICK point \in Points : Goto(point)
  BY DEF Points, BootTick, PlainTick, EarlyEoi, ShellRefused, ShellStarted, DeviceHandler, Eoi
<1>3. /\ frames' \in Seq(Frame) /\ Len(frames') = n /\ frames' # <<>>
      /\ \A i \in 1 .. n - 1 : frames'[i] = frames[i]
      /\ frames'[n].irq = top.irq
  <2>1. frames'[n] = [irq |-> top.irq, point |-> point]
    BY <1>1, <1>2, GotoFacts
  <2> QED BY <1>1, <1>2, <2>1, GotoFacts
<1>4. /\ UNCHANGED <<setup, raised, control>>
      /\ enabled' \in BOOLEAN /\ in_service' \subseteq in_service
  <2>1. /\ UNCHANGED <<setup, raised, control>>
        /\ in_service' = in_service \/ \E irq \in Irqs : in_service' = in_service \ Ended(irq)
    BY DEF BootTick, PlainTick, EarlyEoi, ShellRefused, ShellStarted, DeviceHandler, Eoi, Irqs
  <2>2. enabled' = TRUE \/ enabled' = enabled
    BY DEF BootTick, PlainTick, EarlyEoi, ShellRefused, ShellStarted, DeviceHandler, Eoi
  <2>3. enabled' \in BOOLEAN
    BY <2>2, Zenon DEF TypeOK
  <2> QED BY <2>1, <2>3
<1>9. /\ execute_counter' \in 0 .. NumShells + 1 /\ terminal_counter' \in Terminals
      /\ scheduling_esp' \in [Terminals -> Nat \cup {None}] /\ CountInv'
  <2>1. CASE UNCHANGED ticks
    BY <2>1 DEF TypeOK, CountInv, ticks
  <2>2. CASE BootTick \/ PlainTick
    <3>1. scheduling_esp' = [scheduling_esp EXCEPT ![terminal_counter] = n]
      BY <2>2 DEF BootTick, PlainTick, SaveEsp
    <3>2. scheduling_esp' \in [Terminals -> Nat \cup {None}]
      BY <1>1, <3>1 DEF TypeOK
    <3>3. \/ /\ execute_counter < NumShells /\ execute_counter' = execute_counter + 1
             /\ terminal_counter' = IF execute_counter > 0 THEN terminal_counter + 1
                                                            ELSE terminal_counter
          \/ /\ execute_counter >= NumShells /\ terminal_counter' = terminal_counter
             /\ execute_counter' = IF execute_counter = NumShells THEN execute_counter + 1
                                                                  ELSE execute_counter
      BY <2>2 DEF BootTick, PlainTick
    <3>4. execute_counter \in 0 .. NumShells + 1 /\ terminal_counter \in 0 .. NumShells - 1
      BY DEF TypeOK, Terminals
    <3>5. /\ execute_counter' \in 0 .. NumShells + 1 /\ terminal_counter' \in 0 .. NumShells - 1
          /\ CountInv'
      BY <3>3, <3>4, InterruptsAssumption DEF CountInv
    <3> QED BY <3>2, <3>5 DEF Terminals
  <2> QED BY <2>1, <2>2 DEF EarlyEoi, ShellRefused, ShellStarted, DeviceHandler, Eoi
<1>5. TypeOK'
  BY <1>3, <1>4, <1>9 DEF TypeOK, Frame, setup
<1>6. BelowInv'
  BY <1>1, <1>3 DEF BelowInv
<1>7. OffInv' /\ SetupInv'
  BY <1>1, <1>4 DEF OffInv, SetupInv, setup
<1>8. TopInv'
  <2>1. SUFFICES /\ top.irq # 0 \/ frames'[n].point \in Closed => ~enabled'
                 /\ in_service' = IF frames'[n].point \in Serving THEN Chain(top.irq) ELSE {}
    BY <1>3 DEF TopInv
  <2>2. CASE BootTick
    <3>1. top = [irq |-> 0, point |-> "body"]
      BY <2>2 DEF BootTick, At, Last
    <3>2. frames'[n].point = "early"
      BY <1>1, <2>2, GotoFacts DEF BootTick, Points
    <3> QED BY <1>1, <2>2, <3>1, <3>2 DEF BootTick, TopInv, Serving, Closed
  <2>3. CASE PlainTick
    <3>1. top = [irq |-> 0, point |-> "body"]
      BY <2>3 DEF PlainTick, At, Last
    <3>2. frames'[n].point = "eoi"
      BY <1>1, <2>3, GotoFacts DEF PlainTick, Points
    <3> QED BY <1>1, <2>3, <3>1, <3>2 DEF PlainTick, TopInv, Serving, Closed
  <2>4. CASE EarlyEoi
    <3>1. top = [irq |-> 0, point |-> "early"]
      BY <2>4 DEF EarlyEoi, At, Last
    <3>2. frames'[n].point = "shell"
      BY <1>1, <2>4, GotoFacts DEF EarlyEoi, Points
    <3>3. in_service' = {}
      BY <1>1, <2>4, <3>1 DEF EarlyEoi, TopInv, Serving, Chain, Ended
    <3> QED BY <3>1, <3>2, <3>3 DEF Serving, Closed
  <2>5. CASE ShellRefused
    <3>1. top = [irq |-> 0, point |-> "shell"]
      BY <2>5 DEF ShellRefused, At, Last
    <3>2. frames'[n].point = "late"
      BY <1>1, <2>5, GotoFacts DEF ShellRefused, Points
    <3> QED BY <1>1, <2>5, <3>1, <3>2 DEF ShellRefused, TopInv, Serving, Closed
  <2>8. CASE ShellStarted
    <3>1. top = [irq |-> 0, point |-> "shell"]
      BY <2>8 DEF ShellStarted, At, Last
    <3>2. frames'[n].point = "program"
      BY <1>1, <2>8, GotoFacts DEF ShellStarted, Points
    <3> QED BY <1>1, <2>8, <3>1, <3>2 DEF ShellStarted, TopInv, Serving, Closed
  <2>6. CASE \E irq \in Irqs : DeviceHandler(irq)
    <3> PICK irq \in Irqs : DeviceHandler(irq)
      BY <2>6
    <3>1. top = [irq |-> irq, point |-> "body"]
      BY DEF DeviceHandler, At, Last
    <3>2. frames'[n].point = "eoi"
      BY <1>1, GotoFacts DEF DeviceHandler, Points
    <3> QED BY <1>1, <1>3, <3>1, <3>2 DEF DeviceHandler, TopInv, Serving, Closed
  <2>7. CASE \E irq \in Irqs : Eoi(irq)
    <3> PICK irq \in Irqs : Eoi(irq)
      BY <2>7
    <3>1. top.irq = irq /\ top.point \in {"eoi", "late"} /\ (irq # 0 => top.point = "eoi")
      BY DEF Eoi, At, Last
    <3>2. frames'[n].point = "return"
      BY <1>1, GotoFacts DEF Eoi, Points
    <3>3. in_service \subseteq Chain(irq)
      BY <1>1, <3>1 DEF TopInv
    <3>4. Chain(irq) \subseteq Ended(irq)
      BY DEF Chain, Ended
    <3>5. in_service' = {}
      BY <3>3, <3>4 DEF Eoi
    <3>6. top.irq # 0 => ~enabled'
      BY <1>1, <3>1 DEF Eoi, TopInv
    <3> QED BY <1>3, <3>2, <3>5, <3>6 DEF TopInv, Serving, Closed
  <2> QED BY <2>2, <2>3, <2>4, <2>5, <2>6, <2>7, <2>8
<1> QED BY <1>5, <1>6, <1>7, <1>8, <1>9

\* Programs, and requests of the devices.
LEMMA ProgramStep ==
  ASSUME IInv,
         \/ Disable \/ Enable \/ Exception \/ UNCHANGED vars
         \/ \E irq \in Irqs : Raise(irq)
  PROVE  IInv'
<1> USE DEF IInv
<1>1. UNCHANGED <<setup, in_service, frames, ticks>>
  BY DEF Disable, Enable, Exception, vars, Raise
<1>2. /\ enabled' \in BOOLEAN /\ control' \in {"runs", "halted", "lost"}
      /\ raised' \subseteq Irqs
      /\ enabled' => enabled \/ InProgram
  <2>1. raised' \subseteq Irqs
    BY DEF Disable, Enable, Exception, vars, Raise, TypeOK
  <2>2. \/ enabled' = enabled \/ enabled' = FALSE
        \/ enabled' = TRUE /\ InProgram
    BY DEF Disable, Enable, Exception, vars, Raise, Gate
  <2>3. control' = control \/ control' = "halted"
    BY DEF Disable, Enable, Exception, vars, Raise
  <2>4. enabled' \in BOOLEAN
    BY <2>2, Zenon DEF TypeOK
  <2>5. enabled' => enabled \/ InProgram
    BY <2>2, Zenon
  <2>6. control' \in {"runs", "halted", "lost"}
    BY <2>3 DEF TypeOK
  <2> QED BY <2>1, <2>4, <2>5, <2>6
<1>3. TypeOK' /\ BelowInv' /\ SetupInv' /\ CountInv'
  BY <1>1, <1>2 DEF TypeOK, BelowInv, SetupInv, CountInv, setup, ticks
<1>4. InProgram => frames # <<>>
  BY DEF InProgram, At
<1>5. OffInv'
  BY <1>1, <1>2, <1>4 DEF OffInv, setup
<1>6. InProgram => frames[Len(frames)] = [irq |-> 0, point |-> "program"]
  BY DEF InProgram, At, Last
<1>7. TopInv'
  BY <1>1, <1>2, <1>6 DEF TopInv, Closed
<1> QED BY <1>3, <1>5, <1>7

\* Handlers do not nest, the controllers follow them, and nothing is enabled
\* before it is set up: inductive for every number of base shells.
THEOREM Invariance == Spec => []IInv
<1>1. Init => IInv
  BY InitIInv
<1>2. IInv /\ [Next]_vars => IInv'
  <2> SUFFICES ASSUME IInv, [Next]_vars PROVE IInv'
    OBVIOUS
  <2> QED BY BootStep, DeliverStep, ReturnStep, PointStep, ProgramStep
    DEF Next, Handler, LaterSteps, Other
<1> QED BY <1>1, <1>2, PTL DEF Spec

\* The variables of the controllers and the stack of handlers keep their types.
THEOREM TypeCorrect == Spec => []TypeOK
<1>1. IInv => TypeOK
  BY DEF IInv
<1> QED BY <1>1, Invariance, PTL

\* An interrupt that comes finds its gate, and the shells of the first ticks the
\* services that entry() initialises.
THEOREM Prepared == Spec => []PreparedWhenEnabled
<1>1. IInv => PreparedWhenEnabled
  <2> SUFFICES ASSUME IInv, enabled PROVE PreparedWhenEnabled
    BY DEF PreparedWhenEnabled
  <2>1. stage = 10
    BY DEF IInv, OffInv, TypeOK, Stages
  <2>2. ready = Services
    <3>1. ready \subseteq Services /\ "files" \in ready /\ "pages" \in ready /\ "processes" \in ready
      BY <2>1 DEF IInv, SetupInv, TypeOK
    <3> QED BY <3>1, Zenon DEF Services
  <2> QED BY <2>1, <2>2 DEF IInv, SetupInv, PreparedWhenEnabled
<1> QED BY <1>1, Invariance, PTL

\* A handler signals its end before the next one starts.
THEOREM NoNesting == Spec => []HandlersDoNotNest
<1>1. IInv => HandlersDoNotNest
  BY DEF IInv, BelowInv, Serving, HandlersDoNotNest
<1> QED BY <1>1, Invariance, PTL

\* send_eoi ends the service of the running handler and of no other, the second
\* command that it sends for the RTC included.
THEOREM ServiceFollowsHandlers == Spec => []ServiceMatchesHandlers
<1>1. IInv => ServiceMatchesHandlers
  <2> SUFFICES ASSUME IInv PROVE ServiceMatchesHandlers
    OBVIOUS
  <2> DEFINE n == Len(frames)
             serving == {j \in DOMAIN frames : frames[j].point \in Serving}
  <2>1. frames \in Seq(Frame)
    BY DEF IInv, TypeOK, Frame
  <2>2. n \in Nat /\ DOMAIN frames = 1 .. n
    BY <2>1
  <2>3. \A j \in serving : j = n
    BY <2>2 DEF IInv, BelowInv
  <2>4. CASE frames # <<>> /\ frames[n].point \in Serving
    <3>1. serving = {n}
      BY <2>1, <2>2, <2>3, <2>4
    <3>2. in_service = Chain(frames[n].irq)
      BY <2>4 DEF IInv, TopInv
    <3> QED BY <3>1, <3>2 DEF ServiceMatchesHandlers, Serving
  <2>5. CASE ~(frames # <<>> /\ frames[n].point \in Serving)
    <3>1. serving = {}
      BY <2>1, <2>2, <2>3, <2>5
    <3>2. in_service = {}
      BY <2>5 DEF IInv, TopInv
    <3> QED BY <3>1, <3>2 DEF ServiceMatchesHandlers, Serving
  <2> QED BY <2>4, <2>5
<1> QED BY <1>1, Invariance, PTL
-----------------------------------------------------------------------------
(***************************************************************************)
(* The stack that pit_linkage takes back.                                  *)
(***************************************************************************)

\* While terminal_counter is 0 there has been one boot tick at most.  A tick without
\* a shell, on which no other comes, finds the place it saved.
EspInv ==
  /\ execute_counter = 0 =>
       \A i \in DOMAIN frames : frames[i].irq = 0 => frames[i].point = "body"
  /\ terminal_counter = 0 =>
       \A i \in DOMAIN frames :
         frames[i].irq = 0 /\ frames[i].point # "body" => scheduling_esp[0] = i
  /\ frames # <<>> =>
       LET top == frames[Len(frames)]
       IN  top.irq = 0 =>
             /\ top.point = "late" => enabled
             /\ top.point = "eoi" \/ (top.point = "return" /\ ~enabled) =>
                  scheduling_esp[terminal_counter] = Len(frames)

\* A tick saves its place.
LEMMA SavingStep ==
  ASSUME IInv, EspInv, BootTick \/ PlainTick
  PROVE  EspInv'
<1> DEFINE n == Len(frames)
<1>1. /\ frames \in Seq(Frame) /\ frames # <<>> /\ n \in Nat \ {0} /\ DOMAIN frames = 1 .. n
      /\ frames[n] = [irq |-> 0, point |-> "body"]
  <2>1. frames \in Seq(Frame) /\ frames # <<>>
    BY DEF IInv, TypeOK, Frame, At, BootTick, PlainTick
  <2>2. frames[n] = [irq |-> 0, point |-> "body"]
    BY DEF At, Last, BootTick, PlainTick
  <2> QED BY <2>1, <2>2
<1>2. /\ terminal_counter \in Terminals /\ execute_counter \in 0 .. NumShells + 1
      /\ scheduling_esp \in [Terminals -> Nat \cup {None}] /\ CountInv
  BY DEF IInv, TypeOK
<1>3. scheduling_esp'[terminal_counter] = n
  BY <1>2 DEF BootTick, PlainTick, SaveEsp
<1>4. CASE BootTick
  <2>1. /\ frames' \in Seq(Frame) /\ Len(frames') = n /\ DOMAIN frames' = 1 .. n
        /\ \A i \in 1 .. n - 1 : frames'[i] = frames[i]
        /\ frames'[n] = [irq |-> 0, point |-> "early"]
    BY <1>1, <1>4, GotoFacts DEF BootTick, Points
  <2>2. execute_counter' # 0
    BY <1>2, <1>4 DEF BootTick
  <2>3. ASSUME terminal_counter' = 0, NEW k \in 1 .. n,
               frames'[k].irq = 0, frames'[k].point # "body"
        PROVE  scheduling_esp'[0] = k
    <3>1. execute_counter = 0 /\ terminal_counter = 0
      BY <1>2, <1>4, <2>3 DEF BootTick, Terminals
    <3>2. \A j \in DOMAIN frames : frames[j].irq = 0 => frames[j].point = "body"
      BY <3>1 DEF EspInv
    <3>3. k = n
      <4> SUFFICES ASSUME k # n PROVE FALSE
        OBVIOUS
      <4>1. k \in 1 .. n - 1
        <5>1. n \in Nat \ {0} /\ k \in 1 .. n
          BY <1>1
        <5> HIDE DEF n
        <5> QED BY <5>1
      <4>2. frames[k] = frames'[k] /\ k \in DOMAIN frames
        BY <1>1, <2>1, <4>1
      <4> QED BY <2>3, <3>2, <4>2
    <3> QED BY <1>3, <3>1, <3>3
  <2> QED BY <2>1, <2>2, <2>3 DEF EspInv
<1>5. CASE PlainTick
  <2>1. /\ frames' \in Seq(Frame) /\ Len(frames') = n
        /\ frames'[n] = [irq |-> 0, point |-> "eoi"]
    BY <1>1, <1>5, GotoFacts DEF PlainTick, Points
  <2>2. terminal_counter' = terminal_counter /\ terminal_counter # 0 /\ execute_counter' # 0
    BY <1>2, <1>5, InterruptsAssumption DEF PlainTick, CountInv
  <2> QED BY <1>3, <2>1, <2>2 DEF EspInv
<1> QED BY <1>4, <1>5

\* The other steps leave saved places alone.
LEMMA KeepingStep ==
  ASSUME IInv, EspInv, UNCHANGED ticks,
         \/ Boot \/ EarlyEoi \/ ShellRefused \/ ShellStarted \/ ReturnTick \/ ReturnDevice
         \/ Disable \/ Enable \/ Exception \/ UNCHANGED vars
         \/ \E irq \in Irqs : DeviceHandler(irq) \/ Eoi(irq) \/ Raise(irq) \/ Deliver(irq)
  PROVE  EspInv'
<1> DEFINE n == Len(frames)
<1>1. frames \in Seq(Frame) /\ n \in Nat /\ DOMAIN frames = 1 .. n
  <2>1. frames \in Seq(Frame)
    BY DEF IInv, TypeOK, Frame
  <2> QED BY <2>1
<1>2. UNCHANGED <<execute_counter, terminal_counter, scheduling_esp>>
  BY DEF ticks
<1>3. CASE frames' = frames /\ (frames = <<>> \/ enabled' = enabled \/ InProgram)
  <2>1. CASE frames = <<>>
    BY <1>2, <1>3, <2>1 DEF EspInv
  <2>2. CASE enabled' = enabled
    BY <1>2, <1>3, <2>2 DEF EspInv
  <2>3. CASE InProgram
    <3>1. frames[n].point = "program"
      BY <2>3 DEF InProgram, At, Last
    <3> QED BY <1>2, <1>3, <3>1 DEF EspInv
  <2> QED BY <1>3, <2>1, <2>2, <2>3
<1>4. CASE frames' = <<>>
  BY <1>2, <1>4 DEF EspInv
<1>5. CASE Resume /\ \E irq \in Irqs : At(irq, "return")
  <2>1. frames \in Seq(Frame) \ {<<>>} /\ n \in {Len(frames)} /\ frames' = SubSeq(frames, 1, n - 1)
    BY <1>1, <1>5 DEF Resume, At, Front
  <2>2. /\ n \in Nat \ {0} /\ frames' \in Seq(Frame) /\ Len(frames') = n - 1
        /\ \A i \in 1 .. n - 1 : frames'[i] = frames[i]
    <3> HIDE DEF n
    <3> QED BY <2>1, FrontFacts, Zenon
  <2>3. DOMAIN frames' = 1 .. n - 1
    BY <2>2
  <2>4. frames' # <<>> => frames'[n - 1].point # "eoi"
    BY <2>2 DEF IInv, BelowInv, Serving
  <2>5. enabled'
    BY <1>5 DEF Resume
  <2> QED BY <1>1, <1>2, <2>2, <2>3, <2>4, <2>5 DEF EspInv
<1>6. CASE \E irq \in Irqs : Deliver(irq)
  <2> PICK irq \in Irqs : Deliver(irq)
    BY <1>6
  <2> DEFINE new == [irq |-> irq, point |-> "body"]
  <2>1. new \in Frame
    BY DEF Frame, Points
  <2>2. /\ frames' \in Seq(Frame) /\ Len(frames') = n + 1 /\ DOMAIN frames' = 1 .. n + 1
        /\ frames'[n + 1] = new /\ \A i \in 1 .. n : frames'[i] = frames[i]
    BY <1>1, <2>1 DEF Deliver
  <2> QED BY <1>1, <1>2, <2>2 DEF EspInv
<1>7. ASSUME NEW point \in Points, Goto(point), frames # <<>>, frames[n].point # "body" \/ frames[n].irq # 0,
             enabled' = enabled,
             point = "late" => enabled,
             point # "eoi" \/ frames[n].irq # 0,
             point = "return" => frames[n].point = "eoi" \/ frames[n].point = "late" \/ frames[n].irq # 0
      PROVE  EspInv'
  <2>1. /\ frames' \in Seq(Frame) /\ Len(frames') = n /\ DOMAIN frames' = 1 .. n
        /\ \A i \in 1 .. n - 1 : frames'[i] = frames[i]
        /\ frames'[n] = [irq |-> frames[n].irq, point |-> point]
    BY <1>1, <1>7, GotoFacts
  <2>2. execute_counter = 0 => \A i \in 1 .. n : frames'[i].irq = 0 => frames'[i].point = "body"
    BY <1>1, <1>7, <2>1 DEF EspInv
  <2>3. terminal_counter = 0 =>
          \A i \in 1 .. n : frames'[i].irq = 0 /\ frames'[i].point # "body" => scheduling_esp[0] = i
    BY <1>1, <1>7, <2>1 DEF EspInv
  <2>4. frames[n].irq = 0 /\ point = "return" /\ ~enabled => scheduling_esp[terminal_counter] = n
    BY <1>7 DEF EspInv
  <2> QED BY <1>2, <1>7, <2>1, <2>2, <2>3, <2>4 DEF EspInv
<1>8. CASE EarlyEoi \/ ShellRefused \/ ShellStarted
  <2>1. /\ frames # <<>> /\ frames[n].point # "body" /\ enabled' = enabled
        /\ Goto("shell") \/ (Goto("late") /\ enabled) \/ Goto("program")
    BY <1>8 DEF EarlyEoi, ShellRefused, ShellStarted, At, Last
  <2> QED BY <1>7, <2>1 DEF Points
<1>9. CASE \E irq \in Irqs : DeviceHandler(irq)
  <2>1. frames # <<>> /\ frames[n].irq # 0 /\ enabled' = enabled /\ Goto("eoi")
    BY <1>9 DEF DeviceHandler, At, Last
  <2> QED BY <1>7, <2>1 DEF Points
<1>10. CASE \E irq \in Irqs : Eoi(irq)
  <2>1. /\ frames # <<>> /\ frames[n].point \in {"eoi", "late"} /\ enabled' = enabled
        /\ Goto("return")
    BY <1>10 DEF Eoi, At, Last
  <2> QED BY <1>7, <2>1 DEF Points
<1>11. CASE Boot
  <2>1. frames = <<>> /\ frames' = frames
    BY <1>11 DEF Boot, IInv, OffInv
  <2> QED BY <1>3, <2>1
<1>12. CASE ReturnTick \/ ReturnDevice
  BY <1>4, <1>5, <1>12 DEF ReturnTick, ReturnDevice, Irqs
<1>13. CASE Disable \/ Enable \/ Exception \/ UNCHANGED vars \/ \E irq \in Irqs : Raise(irq)
  BY <1>3, <1>13 DEF Disable, Enable, Exception, vars, Raise
<1> QED BY <1>6, <1>8, <1>9, <1>10, <1>11, <1>12, <1>13

\* Saved places are those of the handlers that will take them back: inductive with
\* IInv, for every number of base shells.
THEOREM EspInvariance == Spec => []EspInv
<1>1. Init => EspInv
  BY DEF Init, EspInv
<1>2. IInv /\ EspInv /\ [Next]_vars => EspInv'
  <2> SUFFICES ASSUME IInv, EspInv, [Next]_vars PROVE EspInv'
    OBVIOUS
  <2>1. CASE BootTick \/ PlainTick
    BY <2>1, SavingStep
  <2>2. CASE UNCHANGED ticks
    BY <2>2, SavingStep, KeepingStep DEF Next, Handler, LaterSteps, Other
  <2>3. BootTick \/ PlainTick \/ UNCHANGED ticks
    BY DEF Next, Handler, LaterSteps, Other, vars, Boot, EarlyEoi, ShellRefused, ShellStarted,
           ReturnTick, ReturnDevice, Disable, Enable, Exception, DeviceHandler, Eoi, Raise, Deliver
  <2> QED BY <2>1, <2>2, <2>3
<1> QED BY <1>1, <1>2, Invariance, PTL DEF Spec

\* A tick without a shell, and the first one if its shell is refused, takes back the
\* stack on which it saved its registers.
THEOREM StackTakenBack == Spec => TicksResume
<1>1. IInv /\ EspInv /\ [Next]_vars
        => [ReturnTick /\ (~enabled \/ terminal_counter = 0) => Resume]_vars
  <2> SUFFICES ASSUME IInv, EspInv, ReturnTick, ~enabled \/ terminal_counter = 0
               PROVE  Resume
    BY Zenon
  <2> DEFINE n == Len(frames)
  <2>1. /\ frames # <<>> /\ frames[n] = [irq |-> 0, point |-> "return"]
        /\ n \in DOMAIN frames
    <3>1. frames \in Seq(Frame) /\ frames # <<>> /\ frames[n] = [irq |-> 0, point |-> "return"]
      BY DEF ReturnTick, At, Last, IInv, TypeOK, Frame
    <3> QED BY <3>1
  <2>2. scheduling_esp[terminal_counter] = n
    BY <2>1 DEF EspInv
  <2> QED BY <2>2 DEF ReturnTick
<1> QED BY <1>1, Invariance, EspInvariance, PTL DEF Spec, TicksResume
-----------------------------------------------------------------------------
\* The messages of entry() and its early returns change nothing of what
\* Interrupts models, and the fairness is that of the handlers.
THEOREM EntryTakesSteps == EntrySpec => Spec
<1>1. EntryInit => Init
  BY DEF EntryInit
<1>2. [EntryNext]_evars => [Next]_vars
  BY DEF EntryNext, Say, Halt, Next, Handler, LaterSteps, Other, evars
<1> QED BY <1>1, <1>2, PTL DEF EntrySpec, Spec

\* From the boot loader on, interrupts find what they need, handlers do not nest,
\* the controllers hold in service what the handlers serve, and ticks that come back
\* take back their stack.
THEOREM EntryKeepsOrder ==
  EntrySpec => /\ []PreparedWhenEnabled /\ []HandlersDoNotNest /\ []ServiceMatchesHandlers
               /\ TicksResume
BY EntryTakesSteps, Prepared, NoNesting, ServiceFollowsHandlers, StackTakenBack, PTL
-----------------------------------------------------------------------------
(***************************************************************************)
(* printf prints what the comment on it says, for words of every size, and *)
(* the messages of entry stay in the video page, for a screen of every     *)
(* size, all structures of the boot loader and all command lines.          *)
(***************************************************************************)

\* The powers of a radix from 0 to m.
Powers(radix, m) ==
  {p \in [0 .. m -> Nat] : p[0] = 1 /\ \A k \in 1 .. m : p[k] = radix * p[k - 1]}

\* power satisfies its definition, and every table of powers holds its values.
LEMMA PowersAre ==
  ASSUME NEW radix \in Nat, NEW m \in Nat
  PROVE  /\ Powers(radix, m) # {}
         /\ \A p \in Powers(radix, m) : \A k \in 0 .. m : p[k] = power(radix, k)
<1>1. ASSUME NEW n \in Nat
      PROVE  Powers(radix, n) # {}
  <2> DEFINE step == [s \in Nat \X (1 .. n) |-> radix * s[1]]
  <2>1. step \in [Nat \X (1 .. n) -> Nat] /\ \A v \in Nat, k \in 1 .. n : step[<<v, k>>] = radix * v
    BY Z3
  <2> HIDE DEF step
  <2>2. PICK f \in Runs(Nat, 1, step, n) : TRUE
    BY <2>1, RunsExist
  <2>3. f \in [0 .. n -> Nat] /\ f[0] = 1 /\ \A k \in 1 .. n : f[k] = step[<<f[k - 1], k>>]
    BY <2>2 DEF Runs
  <2>4. \A k \in 1 .. n : f[k - 1] \in Nat
    BY <2>3
  <2>5. f \in Powers(radix, n)
    BY <2>1, <2>3, <2>4 DEF Powers
  <2> QED BY <2>5
<1>2. ASSUME NEW n \in Nat, NEW p \in Powers(radix, n), NEW q \in Powers(radix, m),
             NEW k \in 0 .. m, k <= n
      PROVE  p[k] = q[k]
  <2> DEFINE S == {j \in 0 .. k : p[j] = q[j]}
  <2>1. k \in Nat /\ \A j \in 0 .. k : j \in 0 .. n /\ j \in 0 .. m
    BY <1>2
  <2>2. 0 \in S
    BY <1>2, <2>1 DEF Powers
  <2>3. \A j \in 0 .. k - 1 : j \in S => j + 1 \in S
    <3> SUFFICES ASSUME NEW j \in 0 .. k - 1, j \in S PROVE j + 1 \in S
      OBVIOUS
    <3>1. j + 1 \in 1 .. n /\ j + 1 \in 1 .. m /\ j + 1 \in 0 .. k /\ (j + 1) - 1 = j
      BY <2>1
    <3>2. p[j + 1] = radix * p[j] /\ q[j + 1] = radix * q[j]
      BY <1>2, <3>1 DEF Powers
    <3> QED BY <3>1, <3>2
  <2> HIDE DEF S
  <2>4. \A j \in 0 .. k : j \in S
    BY <2>1, <2>2, <2>3, UpTo
  <2> QED BY <2>1, <2>4 DEF S
<1>3. ASSUME NEW n \in Nat
      PROVE  \E p \in Powers(radix, n) : power(radix, n) = p[n]
  <2> DEFINE D(p) == p = [k \in 0 .. n |-> IF k = 0 THEN 1 ELSE radix * p[k - 1]]
             c == CHOOSE p : D(p)
  <2>1. \A p \in Powers(radix, n) : D(p)
    BY <1>3 DEF Powers
  <2>2. D(c)
    <3>1. \E p : D(p)
      BY <1>1, <1>3, <2>1
    <3> HIDE DEF D
    <3> QED BY <3>1
  <2>3. power(radix, n) = c[n]
    BY DEF power
  <2> HIDE DEF c
  <2> DEFINE S == {j \in 0 .. n : c[j] \in Nat}
  <2>4. \A k \in 0 .. n : c[k] = IF k = 0 THEN 1 ELSE radix * c[k - 1]
    BY <2>2, Zenon
  <2>5. 0 \in S
    BY <1>3, <2>4
  <2>6. \A j \in 0 .. n - 1 : j \in S => j + 1 \in S
    <3> SUFFICES ASSUME NEW j \in 0 .. n - 1, j \in S PROVE j + 1 \in S
      OBVIOUS
    <3>1. j + 1 \in 0 .. n /\ j + 1 # 0 /\ (j + 1) - 1 = j
      BY <1>3
    <3> QED BY <2>4, <3>1
  <2>7. \A j \in 0 .. n : j \in S
    <3> HIDE DEF S
    <3> QED BY <1>3, <2>5, <2>6, UpTo
  <2>8. c = [k \in 0 .. n |-> c[k]]
    BY <2>2, Zenon
  <2>9. c \in [0 .. n -> Nat]
    BY <2>7, <2>8
  <2>10. c \in Powers(radix, n)
    <3>1. 0 \in 0 .. n /\ \A k \in 1 .. n : k \in 0 .. n /\ k # 0
      BY <1>3
    <3> QED BY <2>4, <2>9, <3>1 DEF Powers
  <2> QED BY <2>3, <2>10
<1>4. ASSUME NEW p \in Powers(radix, m), NEW k \in 0 .. m
      PROVE  p[k] = power(radix, k)
  <2>1. k \in Nat /\ k <= k
    OBVIOUS
  <2>2. PICK q \in Powers(radix, k) : power(radix, k) = q[k]
    BY <1>3, <2>1
  <2> QED BY <1>2, <1>4, <2>1, <2>2
<1> QED BY <1>1, <1>4

LEMMA PowerFacts ==
  ASSUME NEW radix \in Nat, NEW n \in Nat
  PROVE  /\ power(radix, n) \in Nat
         /\ power(radix, 0) = 1
         /\ power(radix, n + 1) = radix * power(radix, n)
<1>1. n + 1 \in Nat /\ 0 \in 0 .. n + 1 /\ n \in 0 .. n + 1 /\ n + 1 \in 0 .. n + 1
  OBVIOUS
<1>2. PICK p \in Powers(radix, n + 1) : TRUE
  BY <1>1, PowersAre
<1>3. \A k \in 0 .. n + 1 : p[k] = power(radix, k)
  BY <1>1, <1>2, PowersAre
<1>4. p \in [0 .. n + 1 -> Nat] /\ p[0] = 1 /\ p[n + 1] = radix * p[n]
  <2>1. n + 1 \in 1 .. n + 1 /\ (n + 1) - 1 = n
    OBVIOUS
  <2> QED BY <1>2, <2>1 DEF Powers
<1> QED BY <1>1, <1>3, <1>4

LEMMA PowerPositive ==
  ASSUME NEW radix \in Nat \ {0}
  PROVE  \A n \in Nat : power(radix, n) \in Nat \ {0}
<1> DEFINE S == {n \in Nat : power(radix, n) \in Nat \ {0}}
<1>1. 0 \in S
  BY PowerFacts
<1>2. ASSUME NEW n \in Nat, n \in S PROVE n + 1 \in S
  <2>1. power(radix, n) \in Nat \ {0} /\ power(radix, n + 1) = radix * power(radix, n)
    BY <1>2, PowerFacts
  <2>2. PICK p \in Nat \ {0} : p = power(radix, n)
    BY <2>1
  <2>3. radix * p \in Nat \ {0}
    OBVIOUS
  <2> QED BY <2>1, <2>2, <2>3
<1>3. \A n \in Nat : n \in S
  <2> HIDE DEF S
  <2> QED BY <1>1, <1>2, AllNumbers
<1> QED BY <1>3

LEMMA PowerGrows ==
  ASSUME NEW radix \in Nat \ {0}, NEW n \in Nat, NEW m \in Nat, n <= m
  PROVE  power(radix, n) <= power(radix, m)
<1> DEFINE S == {j \in Nat : power(radix, n) <= power(radix, n + j)}
<1>1. 0 \in S
  BY PowerFacts
<1>2. ASSUME NEW j \in Nat, j \in S PROVE j + 1 \in S
  <2>1. n + j \in Nat /\ n + (j + 1) = (n + j) + 1
    OBVIOUS
  <2>2. PICK p \in Nat, q \in Nat : p = power(radix, n) /\ q = power(radix, n + j)
    BY <2>1, PowerFacts
  <2>3. power(radix, n + (j + 1)) = radix * q
    BY <2>1, <2>2, PowerFacts
  <2>4. q <= radix * q /\ radix * q \in Nat
    OBVIOUS
  <2>5. p <= q
    BY <1>2, <2>2
  <2> QED BY <2>2, <2>3, <2>4, <2>5
<1>3. \A j \in Nat : j \in S
  <2> HIDE DEF S
  <2> QED BY <1>1, <1>2, AllNumbers
<1>4. m - n \in Nat /\ n + (m - n) = m
  OBVIOUS
<1>5. m - n \in S
  BY <1>3, <1>4
<1> QED BY <1>4, <1>5

\* Two places of a radix from 4 up hold a hexadecimal digit.
LEMMA PlacesSuffice ==
  ASSUME NEW radix \in Nat, radix >= 4
  PROVE  \A n \in Nat : power(16, n) <= power(radix, 2 * n)
<1> DEFINE S == {n \in Nat : power(16, n) <= power(radix, 2 * n)}
<1>1. 0 \in S
  BY PowerFacts
<1>2. ASSUME NEW n \in Nat, n \in S PROVE n + 1 \in S
  <2>1. 2 * n \in Nat /\ 2 * n + 1 \in Nat /\ 2 * (n + 1) = (2 * n + 1) + 1
    OBVIOUS
  <2>2. PICK p \in Nat, q \in Nat : p = power(16, n) /\ q = power(radix, 2 * n)
    BY <2>1, PowerFacts
  <2>3. power(16, n + 1) = 16 * p
    BY <2>2, PowerFacts
  <2>4. power(radix, 2 * n + 1) = radix * q
    BY <2>1, <2>2, PowerFacts
  <2>5. power(radix, 2 * (n + 1)) = radix * (radix * q)
    BY <2>1, <2>4, PowerFacts
  <2>6. p <= q
    BY <1>2, <2>2
  <2>7. radix * q >= 4 * q /\ radix * q \in Nat
    OBVIOUS
  <2>8. radix * (radix * q) >= 4 * (radix * q) /\ radix * (radix * q) \in Nat
    <3>1. PICK u \in Nat : u = radix * q
      BY <2>7
    <3>2. radix * u >= 4 * u /\ radix * u \in Nat
      OBVIOUS
    <3> QED BY <3>1, <3>2
  <2>9. 16 * p <= radix * (radix * q)
    BY <2>6, <2>7, <2>8
  <2> QED BY <2>3, <2>5, <2>9
<1>3. \A n \in Nat : n \in S
  <2> HIDE DEF S
  <2> QED BY <1>1, <1>2, AllNumbers
<1> QED BY <1>3

\* Dividing twice is dividing by the product.
LEMMA DivideTwice ==
  ASSUME NEW a \in Nat \ {0}, NEW b \in Nat \ {0}, NEW v \in Nat
  PROVE  (v \div a) \div b = v \div (b * a)
<1>1. PICK q \in Nat, r \in 0 .. a - 1 : q = v \div a /\ v = a * q + r
  BY DivisionFacts
<1>2. PICK s \in Nat, t \in 0 .. b - 1 : s = q \div b /\ q = b * s + t
  BY DivisionFacts
<1>3. b * a \in Nat \ {0}
  OBVIOUS
<1>4. a * t + r \in 0 .. b * a - 1
  <2>1. a * t <= a * (b - 1) /\ a * t \in Nat
    OBVIOUS
  <2>2. a * (b - 1) = b * a - a
    OBVIOUS
  <2>3. PICK x \in Nat, y \in Nat : x = a * t /\ y = b * a
    BY <2>1, <1>3
  <2> QED BY <2>1, <2>2, <2>3
<1>5. v = (b * a) * s + (a * t + r)
  <2>1. a * (b * s + t) = a * (b * s) + a * t
    OBVIOUS
  <2>2. a * (b * s) = (b * a) * s
    OBVIOUS
  <2>3. a * q = a * (b * s + t)
    BY <1>2
  <2>4. PICK x, y \in Int, z \in Int : x = a * q /\ y = (b * a) * s /\ z = a * t
    OBVIOUS
  <2>5. v = x + r /\ x = y + z
    BY <1>1, <2>1, <2>2, <2>3, <2>4
  <2> QED BY <2>4, <2>5
<1>6. PICK c \in Nat \ {0} : c = b * a
  BY <1>3
<1>7. PICK w \in 0 .. c - 1 : w = a * t + r
  BY <1>4, <1>6
<1>8. (c * s + w) \div c = s
  BY DivisionIs
<1> QED BY <1>1, <1>2, <1>5, <1>6, <1>7, <1>8

LEMMA NothingLeft ==
  ASSUME NEW b \in Nat \ {0}, NEW v \in Nat
  PROVE  v \div b = 0 <=> b > v
<1>1. PICK q \in Nat, r \in 0 .. b - 1 : q = v \div b /\ v = b * q + r
  BY DivisionFacts
<1>2. CASE q = 0
  BY <1>1, <1>2
<1>3. CASE q # 0
  <2>1. b * q >= b /\ b * q \in Nat
    BY <1>3
  <2> QED BY <1>1, <1>3, <2>1
<1> QED BY <1>2, <1>3
-----------------------------------------------------------------------------
\* How many places a word has, and the digits in them.
Places(value, radix) == Min({k \in 1 .. 2 * HEX_DIGITS : power(radix, k) > value})

LEMMA SizeOfWord ==
  /\ HEX_DIGITS \in Nat \ {0} /\ WORD \in Nat \ {0}
  /\ \A radix \in {10, 16} : WORD <= power(radix, 2 * HEX_DIGITS)
<1>1. HEX_DIGITS \in Nat \ {0} /\ 16 \in Nat \ {0}
  BY PrintfAssumption
<1> QED BY <1>1, PowerPositive, PlacesSuffice DEF WORD

LEMMA PlacesFacts ==
  ASSUME NEW value \in 0 .. WORD - 1, NEW radix \in {10, 16}
  PROVE  LET n == Places(value, radix)
         IN  /\ n \in 1 .. 2 * HEX_DIGITS /\ power(radix, n) > value
             /\ \A k \in 1 .. 2 * HEX_DIGITS : power(radix, k) > value => n <= k
<1> DEFINE S == {k \in 1 .. 2 * HEX_DIGITS : power(radix, k) > value}
<1>1. 2 * HEX_DIGITS \in 1 .. 2 * HEX_DIGITS /\ power(radix, 2 * HEX_DIGITS) > value
  <2>1. power(radix, 2 * HEX_DIGITS) \in Nat
    <3>1. radix \in Nat /\ 2 * HEX_DIGITS \in Nat
      BY SizeOfWord
    <3> QED BY <3>1, PowerFacts
  <2> QED BY SizeOfWord, <2>1
<1>2. S \in SUBSET Nat /\ S # {}
  BY <1>1
<1> HIDE DEF S
<1>3. Min(S) \in S /\ \A k \in S : Min(S) <= k
  BY <1>2, MinFacts
<1> USE DEF S
<1> QED BY <1>3 DEF Places

LEMMA LookupFacts ==
  ASSUME NEW d \in Nat
  PROVE  lookup(d) \in Nat \ {Newline}
BY DEF lookup, Newline

\* The loop of itoa and strrev give the numeral.
LEMMA ItoaIsNumeral ==
  ASSUME NEW value \in 0 .. WORD - 1, NEW radix \in {10, 16}
  PROVE  itoa(value, radix) = Numeral(value, radix)
<1> DEFINE m == 2 * HEX_DIGITS
           D(f) == f = [k \in 0 .. m |-> IF k = 0 THEN value ELSE f[k - 1] \div radix]
           c == CHOOSE f : D(f)
           w == [k \in 0 .. m |-> value \div power(radix, k)]
           n == Places(value, radix)
<1>1. m \in Nat /\ value \in Nat /\ radix \in Nat \ {0}
  BY SizeOfWord
<1>2. \A k \in Nat : power(radix, k) \in Nat \ {0}
  BY <1>1, PowerPositive
<1>3. value \div power(radix, 0) = value
  BY <1>1, PowerFacts
<1>4. ASSUME NEW k \in 1 .. m
      PROVE  (value \div power(radix, k - 1)) \div radix = value \div power(radix, k)
  <2>1. k - 1 \in Nat /\ (k - 1) + 1 = k
    OBVIOUS
  <2>2. power(radix, k) = radix * power(radix, k - 1)
    BY <1>1, <2>1, PowerFacts
  <2> QED BY <1>1, <1>2, <2>1, <2>2, DivideTwice
<1>5. D(w)
  <2>1. \A k \in 0 .. m : w[k] = IF k = 0 THEN value ELSE w[k - 1] \div radix
    <3> SUFFICES ASSUME NEW k \in 0 .. m
                 PROVE  w[k] = IF k = 0 THEN value ELSE w[k - 1] \div radix
      OBVIOUS
    <3>1. CASE k = 0
      BY <1>3, <3>1
    <3>2. CASE k # 0
      <4>1. k \in 1 .. m /\ k - 1 \in 0 .. m
        BY <1>1, <3>2
      <4> QED BY <1>4, <3>2, <4>1
    <3> QED BY <3>1, <3>2
  <2>2. w = [k \in 0 .. m |-> w[k]]
    OBVIOUS
  <2> HIDE DEF w
  <2> QED BY <2>1, <2>2
<1>6. D(c)
  <2>1. \E f : D(f)
    BY <1>5
  <2> HIDE DEF D
  <2> QED BY <2>1
<1> HIDE DEF c
<1>7. \A k \in 0 .. m : c[k] = value \div power(radix, k)
  <2> DEFINE S == {k \in 0 .. m : c[k] = value \div power(radix, k)}
  <2>1. \A k \in 0 .. m : c[k] = IF k = 0 THEN value ELSE c[k - 1] \div radix
    BY <1>6, Zenon
  <2>2. 0 \in S
    BY <1>1, <1>3, <2>1
  <2>3. \A k \in 0 .. m - 1 : k \in S => k + 1 \in S
    <3> SUFFICES ASSUME NEW k \in 0 .. m - 1, k \in S PROVE k + 1 \in S
      OBVIOUS
    <3>1. k + 1 \in 1 .. m /\ k + 1 \in 0 .. m /\ k + 1 # 0 /\ (k + 1) - 1 = k
      BY <1>1
    <3>2. c[k + 1] = c[k] \div radix
      BY <2>1, <3>1
    <3> QED BY <1>4, <3>1, <3>2
  <2> HIDE DEF S
  <2>4. \A k \in 0 .. m : k \in S
    BY <1>1, <2>2, <2>3, UpTo
  <2> QED BY <2>4 DEF S
<1>8. n \in 1 .. m /\ power(radix, n) > value
      /\ \A k \in 1 .. m : power(radix, k) > value => n <= k
  BY PlacesFacts
<1>9. \A k \in 0 .. m : c[k] = 0 <=> power(radix, k) > value
  BY <1>1, <1>2, <1>7, NothingLeft
<1> HIDE DEF n
<1>10. CASE value = 0
  <2>1. power(radix, 1) > value /\ 1 \in 1 .. m /\ 0 \in Nat /\ 0 + 1 = 1
    BY <1>1, <1>2, <1>8, <1>10
  <2>2. n = 1
    BY <1>8, <2>1
  <2>3. lookup((value \div power(radix, 1 - 1)) % radix) = lookup(0)
    BY <1>1, <1>3, <1>10
  <2>4. Numeral(value, radix) = [i \in 1 .. 1 |-> lookup((value \div power(radix, 1 - i)) % radix)]
    BY <2>2 DEF Numeral, n, Places
  <2>5. itoa(value, radix) = <<lookup(0)>>
    BY <1>10 DEF itoa
  <2>6. <<lookup(0)>> = [i \in 1 .. 1 |-> lookup((value \div power(radix, 1 - i)) % radix)]
    <3>1. <<lookup(0)>> = [i \in 1 .. 1 |-> lookup(0)]
      OBVIOUS
    <3>2. \A i \in 1 .. 1 : i = 1
      OBVIOUS
    <3> QED BY <2>3, <3>1, <3>2
  <2> QED BY <2>4, <2>5, <2>6
<1>11. CASE value # 0
  <2> DEFINE T == {k \in 0 .. m : c[k] = 0}
  <2>1. power(radix, 0) = 1
    BY <1>1, PowerFacts
  <2>2. n \in T /\ \A k \in T : n <= k
    <3>1. n \in 0 .. m
      BY <1>8
    <3>2. \A k \in T : k \in 1 .. m
      BY <1>1, <1>9, <1>11, <2>1
    <3> QED BY <1>8, <1>9, <3>1, <3>2
  <2>3. T \in SUBSET Nat /\ T # {}
    BY <2>2
  <2> HIDE DEF T
  <2>4. Min(T) \in T /\ \A k \in T : Min(T) <= k
    BY <2>3, MinFacts
  <2>5. Min(T) = n
    <3>1. \A k \in T : k \in Nat
      BY <2>3
    <3>2. PICK k \in T : k = Min(T)
      BY <2>4
    <3>3. k <= n /\ n <= k
      BY <2>2, <2>4, <3>2
    <3> QED BY <2>2, <3>1, <3>2, <3>3
  <2> DEFINE s == [k \in 1 .. n |-> lookup(c[k - 1] % radix)]
  <2>6. itoa(value, radix) = Reverse(s)
    BY <1>11, <2>5 DEF itoa, strrev, T, c
  <2>7. Numeral(value, radix) = [i \in 1 .. n |-> lookup((value \div power(radix, n - i)) % radix)]
    BY DEF Numeral, n, Places
  <2>8. Len(s) = n
    BY <1>8
  <2>9. \A i \in 1 .. n : s[(n - i) + 1] = lookup((value \div power(radix, n - i)) % radix)
    <3> SUFFICES ASSUME NEW i \in 1 .. n
                 PROVE  s[(n - i) + 1] = lookup((value \div power(radix, n - i)) % radix)
      OBVIOUS
    <3>1. (n - i) + 1 \in 1 .. n /\ n - i \in 0 .. m /\ ((n - i) + 1) - 1 = n - i
      <4>1. n \in Nat /\ i \in Nat /\ n <= m
        BY <1>1, <1>8
      <4> QED BY <1>1, <4>1
    <3> QED BY <1>7, <3>1
  <2> HIDE DEF s
  <2>10. Reverse(s) = [i \in 1 .. n |-> lookup((value \div power(radix, n - i)) % radix)]
    BY <2>8, <2>9 DEF Reverse
  <2> QED BY <2>6, <2>7, <2>10
<1> QED BY <1>10, <1>11
-----------------------------------------------------------------------------
\* The arguments that the first j items take.
Used(format, j) == Cardinality({i \in 1 .. j : format[i] \in Conversions})

LEMMA UsedFacts ==
  ASSUME NEW format, NEW j \in Nat
  PROVE  /\ Used(format, j) \in Nat
         /\ Used(format, 0) = 0
         /\ Used(format, j + 1) =
              IF format[j + 1] \in Conversions THEN Used(format, j) + 1 ELSE Used(format, j)
<1> DEFINE S(n) == {i \in 1 .. n : format[i] \in Conversions}
<1>1. IsFiniteSet(S(j)) /\ Cardinality(S(j)) \in Nat
  <2>1. IsFiniteSet(1 .. j) /\ S(j) \subseteq 1 .. j
    BY FS_Interval
  <2>2. IsFiniteSet(S(j))
    BY <2>1, FS_Subset
  <2> QED BY <2>2, FS_CardinalityType
<1>2. Cardinality(S(0)) = 0
  <2>1. S(0) = {}
    OBVIOUS
  <2> QED BY <2>1, FS_EmptySet
<1>3. CASE format[j + 1] \in Conversions
  <2>1. S(j + 1) = S(j) \cup {j + 1} /\ j + 1 \notin S(j)
    BY <1>3
  <2> HIDE DEF S
  <2>2. Cardinality(S(j) \cup {j + 1}) = Cardinality(S(j)) + 1
    BY <1>1, <2>1, FS_AddElement
  <2> USE DEF S
  <2> QED BY <1>1, <1>2, <1>3, <2>1, <2>2 DEF Used
<1>4. CASE format[j + 1] \notin Conversions
  <2>1. S(j + 1) = S(j)
    BY <1>4
  <2> QED BY <1>1, <1>2, <1>4, <2>1 DEF Used
<1> QED BY <1>3, <1>4

\* The arguments that conversions are for, a C string for "%s".
Numbers == {"%x", "%#x", "%u", "%d"}
CStrings == {s \in Seq(Nat) \ {<<>>} : s[Len(s)] = Nul /\ \A i \in 1 .. Len(s) - 1 : s[i] # Nul}

Suits(conversion, arg) ==
  /\ conversion \in Numbers => arg \in 0 .. WORD - 1
  /\ conversion = "%c" => arg \in Nat
  /\ conversion = "%s" => arg \in CStrings

Items == Conversions \cup {"newline", "text", "%%"}

Fits(format, args) ==
  /\ format \in Seq(Items)
  /\ \A j \in 1 .. Len(format) :
       format[j] \in Conversions => Suits(format[j], args[Used(format, j)])

\* puts stops before the Nul.
LEMMA TextFacts ==
  ASSUME NEW s \in CStrings
  PROVE  Text(s) = SubSeq(s, 1, Len(s) - 1)
<1> DEFINE S == {i \in DOMAIN s : s[i] = Nul}
<1>1. s \in Seq(Nat) /\ s # <<>> /\ s[Len(s)] = Nul /\ \A i \in 1 .. Len(s) - 1 : s[i] # Nul
  BY DEF CStrings
<1>2. Len(s) \in Nat \ {0} /\ DOMAIN s = 1 .. Len(s)
  BY <1>1, EmptySeq
<1>3. S = {Len(s)}
  <2>1. PICK n \in Nat \ {0} : n = Len(s)
    BY <1>2
  <2>2. n \in 1 .. n /\ \A i \in 1 .. n : i = n \/ i \in 1 .. n - 1
    OBVIOUS
  <2>3. DOMAIN s = 1 .. n /\ s[n] = Nul /\ \A i \in 1 .. n - 1 : s[i] # Nul
    BY <1>1, <1>2, <2>1
  <2>4. \A i : i \in S <=> i = n
    BY <2>2, <2>3
  <2> HIDE DEF S
  <2> QED BY <2>1, <2>4
<1>4. S \in SUBSET Nat /\ S # {}
  BY <1>2, <1>3
<1>5. Min(S) \in S
  <2> HIDE DEF S
  <2> QED BY <1>4, MinFacts
<1>6. Min(S) = Len(s)
  BY <1>3, <1>5
<1>7. strlen(s) = Len(s) - 1
  BY <1>6 DEF strlen
<1> QED BY <1>7 DEF Text

\* What %#x finds from its starting index on, up to the Nul, are the places that the
\* numeral does not have, as zeros, and those that it has.
LEMMA PaddedIsDocumented ==
  ASSUME NEW arg \in 0 .. WORD - 1
  PROVE  Padded(Numeral(arg, 16)) = Documented("%#x", arg)
<1> DEFINE n == Places(arg, 16)
           H == HEX_DIGITS
           digit(i) == lookup((arg \div power(16, i)) % 16)
           digits == [i \in 1 .. n |-> digit(n - i)]
           conv_buf == [k \in n .. H + n |->
                          IF k < H THEN lookup(0)
                          ELSE IF k < H + n THEN digits[k - H + 1] ELSE Nul]
           printed == [i \in 1 .. H + 1 |-> conv_buf[n + i - 1]]
<1>1. H \in Nat \ {0} /\ arg \in Nat
  BY SizeOfWord
<1>2. n \in 1 .. 2 * H /\ power(16, n) > arg
      /\ \A k \in 1 .. 2 * H : power(16, k) > arg => n <= k
  BY PlacesFacts
<1>3. n <= H
  <2>1. WORD \in Nat /\ WORD > arg /\ power(16, H) = WORD
    BY SizeOfWord DEF WORD
  <2>2. H \in 1 .. 2 * H
    BY <1>1
  <2> QED BY <1>2, <2>1, <2>2
<1>4. \A k \in Nat : k >= n => digit(k) = lookup(0)
  <2> SUFFICES ASSUME NEW k \in Nat, k >= n PROVE digit(k) = lookup(0)
    OBVIOUS
  <2>1. power(16, n) <= power(16, k)
    BY <1>2, PowerGrows
  <2>2. power(16, k) \in Nat \ {0} /\ power(16, n) \in Nat \ {0}
    BY <1>2, PowerPositive
  <2>3. power(16, k) > arg
    BY <1>1, <1>2, <2>1, <2>2
  <2>4. arg \div power(16, k) = 0
    BY <1>1, <2>2, <2>3, NothingLeft
  <2> QED BY <2>4
<1>5. Numeral(arg, 16) = digits
  BY DEF Numeral, n, Places
<1>6. Documented("%#x", arg) = [i \in 1 .. H |-> digit(H - i)]
  BY DEF Documented
<1> HIDE DEF n, digit
<1>7. \A k \in Nat : digit(k) \in Nat \ {Nul}
  <2> SUFFICES ASSUME NEW k \in Nat PROVE digit(k) \in Nat \ {Nul}
    OBVIOUS
  <2>1. arg \div power(16, k) \in Nat
    <3>1. power(16, k) \in Nat \ {0}
      BY PowerPositive
    <3> QED BY <1>1, <3>1, DivisionFacts
  <2>2. (arg \div power(16, k)) % 16 \in Nat
    BY <2>1
  <2> QED BY <2>2 DEF digit, lookup, Nul
<1>8. Len(digits) = n
  BY <1>2
<1>9. \A i \in 1 .. H : printed[i] = digit(H - i)
  <2> SUFFICES ASSUME NEW i \in 1 .. H PROVE printed[i] = digit(H - i)
    OBVIOUS
  <2>1. n + i - 1 \in n .. H + n /\ n + i - 1 < H + n /\ i \in 1 .. H + 1
    BY <1>1, <1>2
  <2>2. CASE n + i - 1 < H
    <3>1. H - i \in Nat /\ H - i >= n
      BY <1>1, <1>2, <2>2
    <3> QED BY <1>4, <2>1, <2>2, <3>1
  <2>3. CASE ~(n + i - 1 < H)
    <3>1. (n + i - 1) - H + 1 \in 1 .. n /\ n - ((n + i - 1) - H + 1) = H - i
      BY <1>1, <1>2, <1>3, <2>3
    <3> QED BY <2>1, <2>3, <3>1
  <2> QED BY <2>2, <2>3
<1>10. printed[H + 1] = Nul
  <2>1. n + (H + 1) - 1 = H + n /\ H + n \in n .. H + n /\ H + 1 \in 1 .. H + 1
        /\ ~(H + n < H) /\ ~(H + n < H + n)
    BY <1>1, <1>2
  <2> QED BY <2>1
<1>11. Padded(digits) = Text(printed)
  <2>1. \A d : Len(d) = n =>
          Padded(d) = Text([i \in 1 .. H + 1 |->
                              [k \in n .. H + n |->
                                 IF k < H THEN lookup(0)
                                 ELSE IF k < H + n THEN d[k - H + 1] ELSE Nul][n + i - 1]])
    BY DEF Padded
  <2> HIDE DEF digits
  <2> QED BY <1>8, <2>1
<1>12. printed = [i \in 1 .. H + 1 |-> printed[i]]
  OBVIOUS
<1> HIDE DEF digits, conv_buf, printed
<1>13. /\ printed \in Seq(Nat) /\ Len(printed) = H + 1
       /\ printed # <<>> /\ \A i \in 1 .. H : printed[i] \in Nat \ {Nul}
  <2>1. \A i \in 1 .. H : printed[i] \in Nat \ {Nul}
    <3>1. \A i \in 1 .. H : H - i \in Nat
      BY <1>1
    <3> QED BY <1>7, <1>9, <3>1
  <2>2. \A i \in 1 .. H + 1 : i = H + 1 \/ i \in 1 .. H
    BY <1>1
  <2>3. \A i \in 1 .. H + 1 : printed[i] \in Nat
    BY <1>10, <2>1, <2>2 DEF Nul
  <2>4. H + 1 \in Nat
    BY <1>1
  <2>5. ASSUME NEW q, q = [i \in 1 .. H + 1 |-> q[i]], \A i \in 1 .. H + 1 : q[i] \in Nat
        PROVE  q \in Seq(Nat) /\ Len(q) = H + 1
    <3>1. q \in [1 .. H + 1 -> Nat]
      BY <2>5
    <3> QED BY <2>4, <3>1
  <2>6. printed \in Seq(Nat) /\ Len(printed) = H + 1
    BY <1>12, <2>3, <2>5
  <2> QED BY <1>1, <2>1, <2>6
<1>14. printed \in CStrings /\ Len(printed) - 1 = H
  BY <1>1, <1>10, <1>13 DEF CStrings
<1>15. SubSeq(printed, 1, H) = [i \in 1 .. H |-> printed[i]]
  <2>1. 1 \in Int /\ H \in Int /\ \A i \in 1 .. H : printed[i] \in Nat
    BY <1>1, <1>13
  <2>2. /\ SubSeq(printed, 1, H) \in Seq(Nat) /\ Len(SubSeq(printed, 1, H)) = H
        /\ \A i \in 1 .. H : SubSeq(printed, 1, H)[i] = printed[i]
    <3>1. /\ SubSeq(printed, 1, H) \in Seq(Nat)
          /\ Len(SubSeq(printed, 1, H)) = IF 1 <= H THEN H - 1 + 1 ELSE 0
          /\ \A i \in 1 .. H - 1 + 1 : SubSeq(printed, 1, H)[i] = printed[1 + i - 1]
      <4> HIDE DEF H
      <4> QED BY <2>1, SubSeqProperties
    <3>2. H - 1 + 1 = H /\ 1 <= H /\ \A i \in 1 .. H : 1 + i - 1 = i
      BY <1>1
    <3> QED BY <3>1, <3>2
  <2>3. PICK q \in Seq(Nat) : q = SubSeq(printed, 1, H) /\ Len(q) = H
    BY <2>2
  <2>4. q = [i \in 1 .. H |-> q[i]]
    BY <2>3, LenProperties
  <2> QED BY <2>2, <2>3, <2>4
<1>16. Text(printed) = [i \in 1 .. H |-> printed[i]]
  BY <1>14, <1>15, TextFacts
<1> QED BY <1>5, <1>6, <1>9, <1>11, <1>16

LEMMA ConvertedAsDocumented ==
  ASSUME NEW conversion \in Conversions, NEW arg, Suits(conversion, arg)
  PROVE  Converted(conversion, arg) = Documented(conversion, arg)
<1>1. CASE conversion \in {"%x", "%u"}
  <2>1. arg \in 0 .. WORD - 1
    BY <1>1 DEF Suits, Numbers
  <2>2. itoa(arg, 16) = Numeral(arg, 16) /\ itoa(arg, 10) = Numeral(arg, 10)
    BY <2>1, ItoaIsNumeral
  <2> QED BY <1>1, <2>2 DEF Converted, Documented
<1>2. CASE conversion = "%#x"
  <2>1. arg \in 0 .. WORD - 1
    BY <1>2 DEF Suits, Numbers
  <2>2. itoa(arg, 16) = Numeral(arg, 16)
    BY <2>1, ItoaIsNumeral
  <2>3. Converted("%#x", arg) = Padded(itoa(arg, 16))
    BY DEF Converted
  <2> QED BY <1>2, <2>1, <2>2, <2>3, PaddedIsDocumented
<1>3. CASE conversion = "%d"
  <2>1. arg \in 0 .. WORD - 1
    BY <1>3 DEF Suits, Numbers
  <2>2. WORD \in Nat \ {0} /\ arg \in Nat
    BY <2>1, SizeOfWord
  <2>3. arg < WORD - arg <=> ~(2 * arg >= WORD)
    BY <2>2
  <2>4. itoa(arg, 10) = Numeral(arg, 10)
    BY <2>1, ItoaIsNumeral
  <2>5. 2 * arg >= WORD => itoa(WORD - arg, 10) = Numeral(WORD - arg, 10)
    <3> SUFFICES ASSUME 2 * arg >= WORD PROVE itoa(WORD - arg, 10) = Numeral(WORD - arg, 10)
      OBVIOUS
    <3>1. WORD - arg \in 0 .. WORD - 1
      BY <2>1, <2>2
    <3> QED BY <3>1, ItoaIsNumeral
  <2>6. Converted("%d", arg) = IF 2 * arg >= WORD THEN <<Minus>> \o itoa(WORD - arg, 10)
                                                   ELSE itoa(arg, 10)
    BY DEF Converted
  <2>7. Documented("%d", arg) = IF arg < WORD - arg THEN Numeral(arg, 10)
                                ELSE <<Minus>> \o Numeral(WORD - arg, 10)
    BY DEF Documented
  <2> QED BY <1>3, <2>3, <2>4, <2>5, <2>6, <2>7
<1>4. CASE conversion = "%c"
  BY <1>4 DEF Converted, Documented
<1>5. CASE conversion = "%s"
  <2>1. Text(arg) = SubSeq(arg, 1, Len(arg) - 1)
    BY <1>5, TextFacts DEF Suits
  <2> QED BY <1>5, <2>1 DEF Converted, Documented
<1> QED BY <1>1, <1>2, <1>3, <1>4, <1>5 DEF Conversions

\* The numeral has a place, and digits in all.
LEMMA NumeralFacts ==
  ASSUME NEW value \in 0 .. WORD - 1, NEW radix \in {10, 16}
  PROVE  Numeral(value, radix) \in Seq(Nat \ {Newline}) \ {<<>>}
<1> DEFINE n == Places(value, radix)
           digit(i) == lookup((value \div power(radix, n - i)) % radix)
<1>1. n \in Nat \ {0}
  BY PlacesFacts
<1>2. Numeral(value, radix) = [i \in 1 .. n |-> digit(i)]
  BY DEF Numeral, Places
<1> HIDE DEF n
<1>3. \A i \in 1 .. n : digit(i) \in Nat \ {Newline}
  <2> SUFFICES ASSUME NEW i \in 1 .. n PROVE digit(i) \in Nat \ {Newline}
    OBVIOUS
  <2>1. n - i \in Nat /\ radix \in Nat \ {0} /\ value \in Nat
    BY <1>1, SizeOfWord
  <2>2. power(radix, n - i) \in Nat \ {0}
    BY <2>1, PowerPositive
  <2>3. value \div power(radix, n - i) \in Nat
    BY <2>1, <2>2, DivisionFacts
  <2>4. (value \div power(radix, n - i)) % radix \in Nat
    <3>1. PICK q \in Nat : q = value \div power(radix, n - i)
      BY <2>3
    <3>2. q % radix \in Nat
      BY <2>1, DivisionFacts
    <3> QED BY <3>1, <3>2
  <2> QED BY <2>4, LookupFacts
<1> HIDE DEF digit
<1> DEFINE s == [i \in 1 .. n |-> digit(i)]
<1>4. s \in Seq(Nat \ {Newline}) /\ Len(s) = n
  BY <1>1, <1>3
<1>5. s # <<>>
  <2> HIDE DEF s
  <2> QED BY <1>1, <1>4, EmptySeq
<1> QED BY <1>2, <1>4, <1>5

\* What an item says: digits, a sign, a character or those of a string.
LEMMA DocumentedFacts ==
  ASSUME NEW conversion \in Conversions, NEW arg, Suits(conversion, arg)
  PROVE  /\ Documented(conversion, arg) \in Seq(Nat)
         /\ conversion \in Numbers => Documented(conversion, arg) \in Seq(Nat \ {Newline}) \ {<<>>}
         /\ conversion = "%s" => Documented(conversion, arg) = SubSeq(arg, 1, Len(arg) - 1)
<1> DEFINE text == Documented(conversion, arg)
           Plain == Seq(Nat \ {Newline}) \ {<<>>}
<1>1. \A s \in Plain : s \in Seq(Nat)
  <2> SUFFICES ASSUME NEW s \in Plain PROVE s \in Seq(Nat)
    OBVIOUS
  <2>1. Nat \ {Newline} \subseteq Nat /\ s \in Seq(Nat \ {Newline})
    OBVIOUS
  <2> QED BY <2>1, SeqMonotonic
<1>2. CASE conversion \in {"%x", "%u"}
  <2>1. arg \in 0 .. WORD - 1
    BY <1>2 DEF Suits, Numbers
  <2>2. Numeral(arg, 16) \in Plain /\ Numeral(arg, 10) \in Plain
    BY <2>1, NumeralFacts
  <2>3. text = Numeral(arg, 16) \/ text = Numeral(arg, 10)
    BY <1>2 DEF Documented
  <2>4. text \in Plain
    BY <2>2, <2>3
  <2> HIDE DEF text
  <2> QED BY <1>1, <1>2, <2>4 DEF text
<1>3. CASE conversion = "%#x"
  <2>1. arg \in Nat /\ HEX_DIGITS \in Nat \ {0}
    BY <1>3, SizeOfWord DEF Suits, Numbers
  <2> DEFINE H == HEX_DIGITS
             digit(i) == lookup((arg \div power(16, H - i)) % 16)
             s == [i \in 1 .. H |-> digit(i)]
  <2>2. \A i \in 1 .. H : digit(i) \in Nat \ {Newline}
    <3> SUFFICES ASSUME NEW i \in 1 .. H PROVE digit(i) \in Nat \ {Newline}
      OBVIOUS
    <3>1. H - i \in Nat
      BY <2>1
    <3>2. power(16, H - i) \in Nat \ {0}
      BY <3>1, PowerPositive
    <3>3. arg \div power(16, H - i) \in Nat
      BY <2>1, <3>2, DivisionFacts
    <3>4. (arg \div power(16, H - i)) % 16 \in Nat
      BY <3>3
    <3> QED BY <3>4, LookupFacts
  <2>3. text = s
    BY <1>3 DEF Documented
  <2> HIDE DEF digit, text
  <2>4. s \in Seq(Nat \ {Newline}) /\ Len(s) = H
    BY <2>1, <2>2
  <2>5. s # <<>>
    <3> HIDE DEF s
    <3> QED BY <2>1, <2>4, EmptySeq
  <2> HIDE DEF s
  <2> QED BY <1>1, <1>3, <2>3, <2>4, <2>5 DEF text
<1>4. CASE conversion = "%d"
  <2>1. arg \in 0 .. WORD - 1 /\ WORD \in Nat \ {0}
    BY <1>4, SizeOfWord DEF Suits, Numbers
  <2>2. text = IF arg < WORD - arg THEN Numeral(arg, 10)
               ELSE <<Minus>> \o Numeral(WORD - arg, 10)
    BY <1>4 DEF Documented
  <2>3. CASE arg < WORD - arg
    <3>1. Numeral(arg, 10) \in Plain
      BY <2>1, NumeralFacts
    <3>2. text \in Plain
      BY <2>2, <2>3, <3>1
    <3> HIDE DEF text
    <3> QED BY <1>1, <1>4, <3>2 DEF text
  <2>4. CASE ~(arg < WORD - arg)
    <3>1. WORD - arg \in 0 .. WORD - 1
      BY <2>1, <2>4
    <3>2. PICK s \in Plain : s = Numeral(WORD - arg, 10)
      BY <3>1, NumeralFacts
    <3>3. text = <<Minus>> \o s
      BY <2>2, <2>4, <3>2
    <3>4. <<Minus>> \in Seq(Nat \ {Newline}) /\ Len(<<Minus>>) = 1
      BY DEF Minus, Newline
    <3>5. <<Minus>> \o s \in Seq(Nat \ {Newline}) /\ Len(<<Minus>> \o s) = 1 + Len(s) /\ Len(s) \in Nat
      BY <3>2, <3>4, ConcatProperties, LenProperties
    <3>6. <<Minus>> \o s # <<>>
      BY <3>5, EmptySeq
    <3>7. text \in Plain
      BY <3>3, <3>5, <3>6
    <3> HIDE DEF text
    <3> QED BY <1>1, <1>4, <3>7 DEF text
  <2> QED BY <2>3, <2>4
<1>5. CASE conversion = "%c"
  <2>1. text = <<arg>> /\ arg \in Nat
    BY <1>5 DEF Documented, Suits
  <2>2. text \in Seq(Nat)
    BY <2>1
  <2>3. conversion \notin Numbers /\ conversion # "%s"
    BY <1>5 DEF Numbers
  <2> QED BY <2>2, <2>3
<1>6. CASE conversion = "%s"
  <2>1. text = SubSeq(arg, 1, Len(arg) - 1) /\ arg \in Seq(Nat)
    BY <1>6 DEF Documented, Suits, CStrings
  <2>2. Len(arg) - 1 \in Int /\ \A i \in 1 .. Len(arg) - 1 : arg[i] \in Nat
    BY <2>1
  <2>3. text \in Seq(Nat)
    BY <2>1, <2>2, SubSeqProperties
  <2> QED BY <1>6, <2>1, <2>3 DEF Numbers
<1> QED BY <1>2, <1>3, <1>4, <1>5, <1>6 DEF Conversions
-----------------------------------------------------------------------------
\* The concatenation of the first items, item by item.
Joins(seqs) ==
  {f \in [0 .. Len(seqs) -> Seq(Nat)] :
     f[0] = <<>> /\ \A k \in 1 .. Len(seqs) : f[k] = f[k - 1] \o seqs[k]}

LEMMA JoinsAre ==
  ASSUME NEW seqs \in Seq(Seq(Nat))
  PROVE  \E f \in Joins(seqs) : FlattenSeq(seqs) = f[Len(seqs)]
<1> DEFINE n == Len(seqs)
           V == Seq(Nat)
           step == [p \in V \X (1 .. n) |-> p[1] \o seqs[p[2]]]
<1>1. n \in Nat /\ (\A k \in 1 .. n : seqs[k] \in V) /\ <<>> \in V
  BY EmptySeq
<1> HIDE DEF n
<1>2. step \in [V \X (1 .. n) -> V] /\ \A v \in V, k \in 1 .. n : step[<<v, k>>] = v \o seqs[k]
  <2>1. \A v \in V, k \in 1 .. n : v \o seqs[k] \in V
    BY <1>1, ConcatProperties
  <2>2. \A p \in V \X (1 .. n) : p[1] \in V /\ p[2] \in 1 .. n /\ p = <<p[1], p[2]>>
    OBVIOUS
  <2> HIDE DEF V
  <2> QED BY <2>1, <2>2
<1> HIDE DEF step
<1>3. PICK f \in Runs(V, <<>>, step, n) : TRUE
  BY <1>1, <1>2, RunsExist
<1>4. f \in [0 .. n -> V] /\ f[0] = <<>> /\ \A k \in 1 .. n : f[k] = f[k - 1] \o seqs[k]
  <2>1. f \in [0 .. n -> V] /\ f[0] = <<>> /\ \A k \in 1 .. n : f[k] = step[<<f[k - 1], k>>]
    BY <1>3 DEF Runs
  <2>2. \A k \in 1 .. n : f[k - 1] \in V
    BY <1>1, <2>1
  <2> QED BY <1>2, <2>1, <2>2
<1>5. f \in Joins(seqs)
  BY <1>4 DEF Joins, n
<1>6. CASE n = 0
  <2>1. FlattenSeq(seqs) = seqs
    BY <1>6 DEF FlattenSeq, n
  <2>2. seqs = <<>>
    BY <1>6, EmptySeq DEF n
  <2> QED BY <1>4, <1>5, <1>6, <2>1, <2>2 DEF n
<1>7. CASE n # 0
  <2> DEFINE D(g) == g = [i \in 1 .. n |-> IF i = 1 THEN seqs[i] ELSE g[i - 1] \o seqs[i]]
             c == CHOOSE g : D(g)
             w == [i \in 1 .. n |-> f[i]]
  <2>1. FlattenSeq(seqs) = c[n]
    BY <1>7 DEF FlattenSeq, n
  <2>2. f[1] = seqs[1]
    <3>1. 1 \in 1 .. n /\ 1 - 1 = 0
      BY <1>1, <1>7
    <3>2. <<>> \o seqs[1] = seqs[1]
      BY <1>1, <3>1, ConcatEmptySeq
    <3> QED BY <1>4, <3>1, <3>2
  <2>3. D(w)
    <3>1. \A i \in 1 .. n : w[i] = IF i = 1 THEN seqs[i] ELSE w[i - 1] \o seqs[i]
      <4> SUFFICES ASSUME NEW i \in 1 .. n
                   PROVE  w[i] = IF i = 1 THEN seqs[i] ELSE w[i - 1] \o seqs[i]
        OBVIOUS
      <4>1. CASE i = 1
        BY <2>2, <4>1
      <4>2. CASE i # 1
        <5>1. i - 1 \in 1 .. n
          BY <1>1, <4>2
        <5> QED BY <1>4, <4>2, <5>1
      <4> QED BY <4>1, <4>2
    <3>2. w = [i \in 1 .. n |-> w[i]]
      OBVIOUS
    <3> HIDE DEF w
    <3> QED BY <3>1, <3>2
  <2>4. D(c)
    <3>1. \E g : D(g)
      BY <2>3
    <3> HIDE DEF D
    <3> QED BY <3>1
  <2> HIDE DEF c
  <2> DEFINE S == {i \in 0 .. n : i = 0 \/ c[i] = f[i]}
  <2>5. \A i \in 1 .. n : c[i] = IF i = 1 THEN seqs[i] ELSE c[i - 1] \o seqs[i]
    BY <2>4, Zenon
  <2>6. 0 \in S
    BY <1>1
  <2>7. \A i \in 0 .. n - 1 : i \in S => i + 1 \in S
    <3> SUFFICES ASSUME NEW i \in 0 .. n - 1, i \in S PROVE i + 1 \in S
      OBVIOUS
    <3>1. i + 1 \in 1 .. n /\ i + 1 \in 0 .. n /\ (i + 1) - 1 = i
      BY <1>1
    <3>2. CASE i = 0
      BY <2>2, <2>5, <3>1, <3>2
    <3>3. CASE i # 0
      <4>1. c[i + 1] = c[i] \o seqs[i + 1] /\ f[i + 1] = f[i] \o seqs[i + 1]
        <5>1. i + 1 # 1
          BY <1>1, <3>3
        <5> HIDE DEF D
        <5> QED BY <1>4, <2>5, <3>1, <5>1
      <4>2. c[i] = f[i]
        BY <3>3
      <4> QED BY <3>1, <4>1, <4>2
    <3> QED BY <3>2, <3>3
  <2> HIDE DEF S
  <2>8. \A i \in 0 .. n : i \in S
    BY <1>1, <2>6, <2>7, UpTo
  <2>9. c[n] = f[n]
    BY <1>1, <1>7, <2>8 DEF S
  <2> QED BY <1>5, <2>1, <2>9 DEF n
<1> QED BY <1>6, <1>7

\* The items of a format that fits its arguments, and their text.
Texts(format, args) == [j \in 1 .. Len(format) |-> DocumentedItem(format, args, j)]

LEMMA TextsFacts ==
  ASSUME NEW format, NEW args, Fits(format, args)
  PROVE  /\ Texts(format, args) \in Seq(Seq(Nat)) /\ Len(Texts(format, args)) = Len(format)
         /\ \A j \in 1 .. Len(format) : Texts(format, args)[j] = DocumentedItem(format, args, j)
<1>1. Len(format) \in Nat /\ \A j \in 1 .. Len(format) : format[j] \in Items
  BY DEF Fits
<1>2. ASSUME NEW j \in 1 .. Len(format) PROVE DocumentedItem(format, args, j) \in Seq(Nat)
  <2>1. CASE format[j] \in Conversions
    <3>1. Suits(format[j], args[Used(format, j)])
      BY <2>1 DEF Fits
    <3>2. DocumentedItem(format, args, j) = Documented(format[j], args[Used(format, j)])
      BY <2>1 DEF DocumentedItem, Used
    <3> QED BY <2>1, <3>1, <3>2, DocumentedFacts
  <2>2. CASE format[j] \notin Conversions
    <3>1. format[j] \in {"newline", "text", "%%"}
      BY <1>1, <2>2 DEF Items
    <3>2. Literal(format[j]) \in Seq(Nat)
      BY <3>1 DEF Literal, Newline, Letter, Percent
    <3> QED BY <2>2, <3>2 DEF DocumentedItem
  <2> QED BY <2>1, <2>2
<1>3. Texts(format, args) \in Seq(Seq(Nat)) /\ Len(Texts(format, args)) = Len(format)
  BY <1>1, <1>2 DEF Texts
<1> QED BY <1>3 DEF Texts

\* printf prints each item after those before it, and takes the arguments in order.
LEMMA OutputFacts ==
  ASSUME NEW format, NEW args, Fits(format, args)
  PROVE  /\ Output(format, args) = DocumentedOutput(format, args)
         /\ \E f \in Joins(Texts(format, args)) : Output(format, args) = f[Len(format)]
<1> DEFINE n == Len(format)
           texts == Texts(format, args)
<1>1. n \in Nat /\ \A j \in 1 .. n : format[j] \in Items
  BY DEF Fits
<1>2. texts \in Seq(Seq(Nat)) /\ Len(texts) = n
      /\ \A j \in 1 .. n : texts[j] = DocumentedItem(format, args, j)
  BY TextsFacts
<1>3. DocumentedOutput(format, args) = FlattenSeq(texts)
  BY DEF DocumentedOutput, Texts
<1>4. PICK f \in Joins(texts) : FlattenSeq(texts) = f[n]
  BY <1>2, JoinsAre
<1>5. f[0] = <<>> /\ \A j \in 1 .. n : f[j] = f[j - 1] \o texts[j]
  BY <1>2, <1>4 DEF Joins
<1> DEFINE D(d) == d = [j \in 0 .. n |-> IF j = 0 THEN [text |-> <<>>, esp |-> 1]
                                        ELSE Converting(d[j - 1], format[j], args)]
           c == CHOOSE d : D(d)
           w == [j \in 0 .. n |-> [text |-> f[j], esp |-> 1 + Used(format, j)]]
<1>6. ASSUME NEW j \in 1 .. n
      PROVE  Converting([text |-> f[j - 1], esp |-> 1 + Used(format, j - 1)], format[j], args)
               = [text |-> f[j], esp |-> 1 + Used(format, j)]
  <2>1. j - 1 \in Nat /\ (j - 1) + 1 = j
    OBVIOUS
  <2>2. Used(format, j - 1) \in Nat
        /\ Used(format, j) = IF format[j] \in Conversions THEN Used(format, j - 1) + 1
                             ELSE Used(format, j - 1)
    BY <2>1, UsedFacts
  <2> DEFINE done == [text |-> f[j - 1], esp |-> 1 + Used(format, j - 1)]
  <2>3. CASE format[j] \in Conversions
    <3>1. Converting(done, format[j], args)
            = [text |-> f[j - 1] \o Converted(format[j], args[1 + Used(format, j - 1)]),
               esp |-> (1 + Used(format, j - 1)) + 1]
      BY <2>3 DEF Converting
    <3>2. 1 + Used(format, j - 1) = Used(format, j)
          /\ (1 + Used(format, j - 1)) + 1 = 1 + Used(format, j)
      BY <2>2, <2>3
    <3>3. Suits(format[j], args[Used(format, j)])
      BY <2>3 DEF Fits
    <3>4. Converted(format[j], args[Used(format, j)]) = texts[j]
      <4>1. texts[j] = Documented(format[j], args[Used(format, j)])
        BY <1>2, <2>3 DEF DocumentedItem, Used
      <4> QED BY <2>3, <3>3, <4>1, ConvertedAsDocumented
    <3> HIDE DEF texts
    <3> QED BY <1>5, <3>1, <3>2, <3>4
  <2>4. CASE format[j] \notin Conversions
    <3>1. Converting(done, format[j], args)
            = [text |-> f[j - 1] \o Literal(format[j]), esp |-> 1 + Used(format, j - 1)]
      BY <2>4 DEF Converting
    <3>2. texts[j] = Literal(format[j])
      BY <1>2, <2>4 DEF DocumentedItem
    <3>3. Used(format, j) = Used(format, j - 1)
      BY <2>2, <2>4
    <3> HIDE DEF texts
    <3> QED BY <1>5, <3>1, <3>2, <3>3
  <2> QED BY <2>3, <2>4
<1>7. [text |-> f[0], esp |-> 1 + Used(format, 0)] = [text |-> <<>>, esp |-> 1]
  BY <1>5, UsedFacts
<1>8. D(w)
  <2>1. \A j \in 0 .. n : w[j] = IF j = 0 THEN [text |-> <<>>, esp |-> 1]
                                 ELSE Converting(w[j - 1], format[j], args)
    <3> SUFFICES ASSUME NEW j \in 0 .. n
                 PROVE  w[j] = IF j = 0 THEN [text |-> <<>>, esp |-> 1]
                               ELSE Converting(w[j - 1], format[j], args)
      OBVIOUS
    <3>1. CASE j = 0
      BY <1>7, <3>1
    <3>2. CASE j # 0
      <4>1. j \in 1 .. n /\ j - 1 \in 0 .. n
        BY <1>1, <3>2
      <4> QED BY <1>6, <3>2, <4>1
    <3> QED BY <3>1, <3>2
  <2>2. w = [j \in 0 .. n |-> w[j]]
    OBVIOUS
  <2> HIDE DEF w
  <2> QED BY <2>1, <2>2
<1>9. D(c)
  <2>1. \E d : D(d)
    BY <1>8
  <2> HIDE DEF D
  <2> QED BY <2>1
<1>10. Output(format, args) = c[n].text
  BY DEF Output
<1> HIDE DEF c
<1> DEFINE S == {j \in 0 .. n : c[j] = [text |-> f[j], esp |-> 1 + Used(format, j)]}
<1>11. \A j \in 0 .. n : j \in S
  <2>1. \A j \in 0 .. n : c[j] = IF j = 0 THEN [text |-> <<>>, esp |-> 1]
                                 ELSE Converting(c[j - 1], format[j], args)
    BY <1>9, Zenon
  <2>2. 0 \in S
    BY <1>1, <1>7, <2>1
  <2>3. \A j \in 0 .. n - 1 : j \in S => j + 1 \in S
    <3> SUFFICES ASSUME NEW j \in 0 .. n - 1, j \in S PROVE j + 1 \in S
      OBVIOUS
    <3>1. j + 1 \in 1 .. n /\ j + 1 \in 0 .. n /\ j + 1 # 0 /\ (j + 1) - 1 = j
      BY <1>1
    <3>2. c[j + 1] = Converting(c[j], format[j + 1], args)
      BY <2>1, <3>1
    <3>3. c[j] = [text |-> f[j], esp |-> 1 + Used(format, j)]
      OBVIOUS
    <3> QED BY <1>6, <3>1, <3>2, <3>3
  <2> HIDE DEF S
  <2> QED BY <1>1, <2>2, <2>3, UpTo
<1>12. c[n].text = f[n]
  <2>1. n \in S
    BY <1>1, <1>11
  <2> QED BY <2>1
<1> QED BY <1>3, <1>4, <1>10, <1>12

\* For every format whose conversions have arguments of their kinds, printf prints what
\* the comment on it says.
THEOREM PrintfAsDocumented ==
  ASSUME NEW format, NEW args, Fits(format, args)
  PROVE  Output(format, args) = DocumentedOutput(format, args)
BY OutputFacts
-----------------------------------------------------------------------------
Cursors == [x : Nat, y : Nat, last : Nat]

\* The cursor on its way over the page.
Walks(cur, text) ==
  {p \in [0 .. Len(text) -> Cursors] :
     p[0] = cur /\ \A k \in 1 .. Len(text) : p[k] = putc(p[k - 1], text[k])}

LEMMA SizesOfScreen ==
  /\ NUM_COLS \in Nat \ {0} /\ NUM_ROWS \in Nat \ {0} /\ PAGE \in Nat
  /\ NUM_COLS * NUM_ROWS \in Nat /\ PAGE > NUM_COLS * NUM_ROWS
<1>1. NUM_COLS \in Nat \ {0} /\ NUM_ROWS \in Nat \ {0}
  BY PrintfAssumption
<1>2. NUM_COLS * NUM_ROWS \in Nat
  BY <1>1
<1> QED BY <1>1, <1>2, PrintfAssumption

\* The greater of two numbers.
LEMMA GreaterIs ==
  ASSUME NEW a \in Nat, NEW b \in Nat
  PROVE  Max({a, b}) = IF a >= b THEN a ELSE b
<1> DEFINE m == IF a >= b THEN a ELSE b
<1>1. {a, b} \in SUBSET Nat /\ {a, b} # {} /\ m \in Nat /\ \A s \in {a, b} : s <= m
  OBVIOUS
<1>2. Max({a, b}) \in {a, b} /\ \A y \in {a, b} : Max({a, b}) >= y
  BY <1>1, MaxFacts
<1>3. PICK k \in {a, b} : k = Max({a, b}) /\ k >= a /\ k >= b
  BY <1>2
<1> QED BY <1>3

LEMMA PutcIsCursor ==
  ASSUME NEW cur \in Cursors, NEW c \in Nat
  PROVE  putc(cur, c) \in Cursors
<1>1. cur.x \in Nat /\ cur.y \in Nat /\ cur.last \in Nat
  BY DEF Cursors
<1>2. CASE c = Newline
  <2>1. putc(cur, c) = [x |-> 0, y |-> cur.y + 1, last |-> cur.last]
    BY <1>2 DEF putc
  <2> QED BY <1>1, <2>1 DEF Cursors
<1>3. CASE c # Newline
  <2> DEFINE cell == NUM_COLS * cur.y + cur.x
  <2>1. cell \in Nat
    BY <1>1, SizesOfScreen
  <2>2. Max({cur.last, cell}) \in Nat
    BY <1>1, <2>1, GreaterIs
  <2>3. (cur.x + 1) % NUM_COLS \in Nat /\ RowAfter(cur.y) \in Nat
    <3>1. cur.x + 1 \in Nat
      BY <1>1
    <3>2. (cur.x + 1) % NUM_COLS \in Nat /\ cur.y % NUM_ROWS \in Nat
      <4>1. \A b \in Nat \ {0}, v \in Nat : v % b \in Nat
        BY DivisionFacts
      <4> QED BY <1>1, <3>1, <4>1, SizesOfScreen
    <3> QED BY <3>2 DEF RowAfter
  <2>4. putc(cur, c) = [x |-> (cur.x + 1) % NUM_COLS, y |-> RowAfter(cur.y),
                        last |-> Max({cur.last, cell})]
    BY <1>3 DEF putc
  <2> HIDE DEF cell
  <2> QED BY <2>2, <2>3, <2>4 DEF Cursors
<1> QED BY <1>2, <1>3

LEMMA WalksAre ==
  ASSUME NEW cur \in Cursors, NEW text \in Seq(Nat)
  PROVE  Walks(cur, text) # {} /\ \A p \in Walks(cur, text) : p[Len(text)] = puts(cur, text)
<1> DEFINE n == Len(text)
           step == [s \in Cursors \X (1 .. n) |-> putc(s[1], text[s[2]])]
<1>1. n \in Nat /\ \A k \in 1 .. n : text[k] \in Nat
  OBVIOUS
<1>2. Walks(cur, text) # {}
  <2> HIDE DEF n
  <2>1. \A v \in Cursors, k \in 1 .. n : putc(v, text[k]) \in Cursors
    BY <1>1, PutcIsCursor
  <2>2. \A s \in Cursors \X (1 .. n) : s[1] \in Cursors /\ s[2] \in 1 .. n /\ s = <<s[1], s[2]>>
    OBVIOUS
  <2>3. step \in [Cursors \X (1 .. n) -> Cursors]
        /\ \A v \in Cursors, k \in 1 .. n : step[<<v, k>>] = putc(v, text[k])
    BY <2>1, <2>2
  <2> HIDE DEF step
  <2>4. PICK f \in Runs(Cursors, cur, step, n) : TRUE
    BY <1>1, <2>3, RunsExist
  <2>5. f \in [0 .. n -> Cursors] /\ f[0] = cur /\ \A k \in 1 .. n : f[k] = step[<<f[k - 1], k>>]
    BY <2>4 DEF Runs
  <2>6. \A k \in 1 .. n : f[k - 1] \in Cursors
    BY <1>1, <2>5
  <2>7. \A k \in 1 .. n : f[k] = putc(f[k - 1], text[k])
    BY <2>3, <2>5, <2>6
  <2> QED BY <2>5, <2>7 DEF Walks, n
<1>3. ASSUME NEW p \in Walks(cur, text) PROVE p[n] = puts(cur, text)
  <2> DEFINE D(a) == a = [i \in 0 .. n |-> IF i = 0 THEN cur ELSE putc(a[i - 1], text[i])]
             c == CHOOSE a : D(a)
  <2>1. p \in [0 .. n -> Cursors] /\ p[0] = cur
        /\ \A k \in 1 .. n : p[k] = putc(p[k - 1], text[k])
    BY <1>3 DEF Walks
  <2>2. D(p)
    <3>1. \A i \in 0 .. n : p[i] = IF i = 0 THEN cur ELSE putc(p[i - 1], text[i])
      <4> SUFFICES ASSUME NEW i \in 0 .. n
                   PROVE  p[i] = IF i = 0 THEN cur ELSE putc(p[i - 1], text[i])
        OBVIOUS
      <4>1. i # 0 => i \in 1 .. n
        BY <1>1
      <4> QED BY <2>1, <4>1
    <3>2. p = [i \in 0 .. n |-> p[i]]
      BY <2>1
    <3> QED BY <3>1, <3>2
  <2>3. D(c)
    <3>1. \E a : D(a)
      BY <2>2
    <3> HIDE DEF D
    <3> QED BY <3>1
  <2>4. puts(cur, text) = c[n]
    BY DEF puts
  <2> HIDE DEF c
  <2> DEFINE S == {k \in 0 .. n : c[k] = p[k]}
  <2>5. \A i \in 0 .. n : c[i] = IF i = 0 THEN cur ELSE putc(c[i - 1], text[i])
    BY <2>3, Zenon
  <2>6. 0 \in S
    BY <1>1, <2>1, <2>5
  <2>7. \A k \in 0 .. n - 1 : k \in S => k + 1 \in S
    <3> SUFFICES ASSUME NEW k \in 0 .. n - 1, k \in S PROVE k + 1 \in S
      OBVIOUS
    <3>1. k + 1 \in 1 .. n /\ k + 1 \in 0 .. n /\ k + 1 # 0 /\ (k + 1) - 1 = k
      BY <1>1
    <3>2. c[k + 1] = putc(c[k], text[k + 1]) /\ p[k + 1] = putc(p[k], text[k + 1])
      BY <2>1, <2>5, <3>1
    <3> QED BY <3>1, <3>2
  <2> HIDE DEF S
  <2>8. \A k \in 0 .. n : k \in S
    BY <1>1, <2>6, <2>7, UpTo
  <2> QED BY <1>1, <2>4, <2>8 DEF S
<1> QED BY <1>2, <1>3

\* Printing a text is printing its parts.
LEMMA PutsTwice ==
  ASSUME NEW cur \in Cursors, NEW s \in Seq(Nat), NEW t \in Seq(Nat)
  PROVE  /\ puts(cur, s) \in Cursors
         /\ puts(cur, s \o t) = puts(puts(cur, s), t)
<1> DEFINE m == Len(s)
           n == Len(t)
           st == s \o t
<1>1. m \in Nat /\ n \in Nat /\ st \in Seq(Nat) /\ Len(st) = m + n
      /\ \A k \in 1 .. m + n : st[k] = IF k <= m THEN s[k] ELSE t[k - m]
  BY ConcatProperties, LenProperties
<1>2. PICK p \in Walks(cur, st) : TRUE
  BY <1>1, WalksAre
<1> HIDE DEF st
<1>3. p \in [0 .. m + n -> Cursors] /\ p[0] = cur
      /\ \A k \in 1 .. m + n : p[k] = putc(p[k - 1], st[k])
  BY <1>1, <1>2 DEF Walks
<1> DEFINE q == [k \in 0 .. m |-> p[k]]
           r == [k \in 0 .. n |-> p[m + k]]
<1>4. q \in Walks(cur, s)
  <2>1. \A k \in 0 .. m : k \in 0 .. m + n
    BY <1>1
  <2>2. q \in [0 .. m -> Cursors] /\ 0 \in 0 .. m
    BY <1>1, <1>3, <2>1
  <2>3. \A k \in 1 .. m : q[k] = putc(q[k - 1], s[k])
    <3> SUFFICES ASSUME NEW k \in 1 .. m PROVE q[k] = putc(q[k - 1], s[k])
      OBVIOUS
    <3>1. k \in 0 .. m /\ k - 1 \in 0 .. m /\ k \in 1 .. m + n /\ k <= m
      BY <1>1
    <3> QED BY <1>1, <1>3, <3>1
  <2>4. q[0] = cur
    BY <1>3, <2>2
  <2> HIDE DEF q
  <2> QED BY <2>2, <2>3, <2>4 DEF Walks
<1>5. r \in Walks(p[m], t)
  <2>1. \A k \in 0 .. n : m + k \in 0 .. m + n
    BY <1>1
  <2>2. r \in [0 .. n -> Cursors] /\ 0 \in 0 .. n /\ m + 0 = m
    BY <1>1, <1>3, <2>1
  <2>3. \A k \in 1 .. n : r[k] = putc(r[k - 1], t[k])
    <3> SUFFICES ASSUME NEW k \in 1 .. n PROVE r[k] = putc(r[k - 1], t[k])
      OBVIOUS
    <3>1. k \in 0 .. n /\ k - 1 \in 0 .. n /\ m + k \in 1 .. m + n /\ ~(m + k <= m)
          /\ (m + k) - m = k /\ (m + k) - 1 = m + (k - 1)
      BY <1>1
    <3>2. p[m + k] = putc(p[m + (k - 1)], st[m + k]) /\ st[m + k] = t[k]
      BY <1>1, <1>3, <3>1
    <3> QED BY <3>1, <3>2
  <2>4. r[0] = p[m]
    BY <2>2
  <2> HIDE DEF r
  <2> QED BY <2>2, <2>3, <2>4 DEF Walks
<1>6. p[m] \in Cursors
  BY <1>1, <1>3
<1>7. q[m] = p[m] /\ r[n] = p[m + n]
  BY <1>1
<1> HIDE DEF q, r
<1>8. puts(cur, s) = p[m] /\ puts(p[m], t) = p[m + n]
  BY <1>4, <1>5, <1>6, <1>7, WalksAre
<1>9. puts(cur, st) = p[m + n]
  BY <1>1, <1>2, WalksAre
<1> QED BY <1>6, <1>8, <1>9 DEF st

\* On the screen, or at the start of the row behind it.
Inside(cur) ==
  /\ cur \in Cursors
  /\ cur.x < NUM_COLS /\ cur.y <= NUM_ROWS
  /\ cur.y = NUM_ROWS => cur.x = 0
  /\ cur.last < PAGE

InRow(cur) == Inside(cur) /\ cur.y < NUM_ROWS

\* After a character the cursor is in a row of the screen, from where a newline
\* leaves it at the start of the next.
LEMMA PutcInside ==
  ASSUME NEW cur, Inside(cur), NEW c \in Nat
  PROVE  /\ c # Newline => InRow(putc(cur, c))
         /\ c = Newline /\ InRow(cur) => Inside(putc(cur, c))
<1>1. cur \in Cursors /\ cur.x \in Nat /\ cur.y \in Nat /\ cur.last \in Nat
  BY DEF Inside, Cursors
<1>2. putc(cur, c) \in Cursors
  BY <1>1, PutcIsCursor
<1>3. CASE c # Newline
  <2> DEFINE cell == NUM_COLS * cur.y + cur.x
  <2>1. cell \in Nat /\ cell < PAGE
    <3>1. PICK a \in Nat \ {0}, b \in Nat \ {0}, x \in Nat, y \in Nat :
            a = NUM_COLS /\ b = NUM_ROWS /\ x = cur.x /\ y = cur.y
      BY <1>1, SizesOfScreen
    <3>2. x < a /\ y <= b /\ (y = b => x = 0)
      BY <3>1 DEF Inside
    <3>3. a * y + x <= a * b
      <4>1. CASE y = b
        BY <3>2, <4>1
      <4>2. CASE y # b
        <5>1. a * (b - y) >= a
          <6>1. b - y \in Nat \ {0}
            BY <3>2, <4>2
          <6>2. \A d \in Nat \ {0} : a * d >= a
            OBVIOUS
          <6> QED BY <6>1, <6>2
        <5>2. a * (b - y) = a * b - a * y /\ a * b \in Int /\ a * y \in Int
          OBVIOUS
        <5> QED BY <3>2, <5>1, <5>2
      <4> QED BY <4>1, <4>2
    <3>4. a * y + x \in Nat
      OBVIOUS
    <3> QED BY <3>1, <3>3, <3>4, SizesOfScreen
  <2>2. Max({cur.last, cell}) < PAGE
    <3> HIDE DEF cell
    <3> QED BY <1>1, <2>1, GreaterIs DEF Inside
  <2>3. (cur.x + 1) % NUM_COLS \in 0 .. NUM_COLS - 1 /\ cur.y % NUM_ROWS \in 0 .. NUM_ROWS - 1
    <3>1. cur.x + 1 \in Nat
      BY <1>1
    <3> QED BY <1>1, <3>1, SizesOfScreen, DivisionFacts
  <2>4. putc(cur, c) = [x |-> (cur.x + 1) % NUM_COLS, y |-> cur.y % NUM_ROWS,
                        last |-> Max({cur.last, cell})]
    BY <1>3 DEF putc, RowAfter
  <2> HIDE DEF cell
  <2>5. /\ putc(cur, c).x \in 0 .. NUM_COLS - 1 /\ putc(cur, c).y \in 0 .. NUM_ROWS - 1
        /\ putc(cur, c).last < PAGE
    BY <2>2, <2>3, <2>4
  <2> QED BY <1>2, <1>3, <2>5, SizesOfScreen DEF Inside, InRow
<1>4. CASE c = Newline
  <2>1. putc(cur, c).x = 0 /\ putc(cur, c).y = cur.y + 1 /\ putc(cur, c).last = cur.last
    BY <1>1, <1>4 DEF putc, Cursors
  <2> QED BY <1>1, <1>2, <1>4, <2>1, SizesOfScreen DEF Inside, InRow
<1> QED BY <1>3, <1>4

\* A text without newlines.
LEMMA PutsInside ==
  ASSUME NEW cur, Inside(cur), NEW text \in Seq(Nat \ {Newline}),
         text # <<>> \/ InRow(cur)
  PROVE  InRow(puts(cur, text))
<1> DEFINE n == Len(text)
<1>1. text \in Seq(Nat) /\ n \in Nat /\ \A k \in 1 .. n : text[k] \in Nat \ {Newline}
  <2>1. Nat \ {Newline} \subseteq Nat
    OBVIOUS
  <2> QED BY <2>1, SeqMonotonic, LenProperties, ElementOfSeq
<1>2. cur \in Cursors
  BY DEF Inside
<1>3. PICK p \in Walks(cur, text) : p[n] = puts(cur, text)
  BY <1>1, <1>2, WalksAre
<1>4. p[0] = cur /\ \A k \in 1 .. n : p[k] = putc(p[k - 1], text[k])
  BY <1>3 DEF Walks
<1> DEFINE S == {k \in 0 .. n : Inside(p[k]) /\ (k # 0 => InRow(p[k]))}
<1>5. 0 \in S
  BY <1>1, <1>4
<1>6. \A k \in 0 .. n - 1 : k \in S => k + 1 \in S
  <2> SUFFICES ASSUME NEW k \in 0 .. n - 1, k \in S PROVE k + 1 \in S
    OBVIOUS
  <2>1. k + 1 \in 1 .. n /\ k + 1 \in 0 .. n /\ (k + 1) - 1 = k
    BY <1>1
  <2>2. p[k + 1] = putc(p[k], text[k + 1])
    BY <1>4, <2>1
  <2>3. InRow(p[k + 1])
    BY <1>1, <2>1, <2>2, PutcInside
  <2> QED BY <2>1, <2>3 DEF InRow
<1> HIDE DEF S
<1>7. n \in S
  <2>1. n \in Nat /\ n \in 0 .. n
    BY <1>1
  <2> HIDE DEF n
  <2>2. \A k \in 0 .. n : k \in S
    BY <1>5, <1>6, <2>1, UpTo
  <2> QED BY <2>1, <2>2
<1>8. CASE n = 0
  <2>1. text = <<>>
    BY <1>1, <1>8, EmptySeq
  <2> QED BY <1>3, <1>4, <1>8, <2>1
<1>9. CASE n # 0
  BY <1>3, <1>7, <1>9 DEF S
<1> QED BY <1>8, <1>9
-----------------------------------------------------------------------------
\* A newline, or a string that may be empty, never comes right after a newline.
Apart(format, args, cur) ==
  \A j \in 1 .. Len(format) :
    /\ format[j] # "%c"
    /\ format[j] \in {"newline", "%s"} =>
         IF j = 1 THEN InRow(cur) ELSE format[j - 1] # "newline"
    /\ format[j] = "%s" =>
         LET s == args[Used(format, j)] IN \A i \in 1 .. Len(s) - 1 : s[i] # Newline

\* What one item does to the cursor.
LEMMA ItemInside ==
  ASSUME NEW format, NEW args, Fits(format, args), NEW cur, Apart(format, args, cur),
         NEW j \in 1 .. Len(format), NEW u, Inside(u),
         IF j = 1 THEN u = cur ELSE format[j - 1] # "newline" => InRow(u)
  PROVE  LET v == puts(u, DocumentedItem(format, args, j))
         IN  Inside(v) /\ (format[j] # "newline" => InRow(v))
<1> DEFINE text == DocumentedItem(format, args, j)
           v == puts(u, text)
<1>1. format[j] \in Items /\ format[j] # "%c" /\ u \in Cursors
  BY DEF Fits, Apart, Inside
<1>2. ASSUME text \in Seq(Nat \ {Newline}), text # <<>> \/ InRow(u)
      PROVE  Inside(v) /\ InRow(v)
  <2>1. InRow(v)
    BY <1>2, PutsInside
  <2> QED BY <2>1 DEF InRow
<1>3. CASE format[j] = "newline"
  <2>1. InRow(u)
    BY <1>3 DEF Apart
  <2>2. text = <<Newline>>
    BY <1>3 DEF DocumentedItem, Conversions, Literal
  <2>3. text \in Seq(Nat) /\ Len(text) = 1 /\ text[1] = Newline /\ Newline \in Nat
    BY <2>2 DEF Newline
  <2> HIDE DEF text
  <2>4. PICK p \in Walks(u, text) : p[Len(text)] = puts(u, text)
    BY <1>1, <2>3, WalksAre
  <2>5. p[0] = u /\ p[1] = putc(p[1 - 1], text[1]) /\ p[1] = v
    BY <2>3, <2>4 DEF Walks
  <2>6. v = putc(u, Newline)
    <3>1. 1 - 1 = 0
      OBVIOUS
    <3> QED BY <2>3, <2>5, <3>1
  <2>7. Inside(v)
    BY <2>1, <2>3, <2>6, PutcInside
  <2> QED BY <1>3, <2>7 DEF text
<1>4. CASE format[j] \in {"text", "%%"}
  <2>1. text \in {<<Letter>>, <<Percent>>}
    BY <1>4 DEF DocumentedItem, Conversions, Literal
  <2>2. <<Letter>> \in Seq(Nat \ {Newline}) /\ <<Percent>> \in Seq(Nat \ {Newline})
        /\ <<Letter>> # <<>> /\ <<Percent>> # <<>>
    BY DEF Letter, Percent, Newline
  <2> QED BY <1>2, <2>1, <2>2
<1>5. CASE format[j] \in Conversions
  <2> DEFINE arg == args[Used(format, j)]
  <2>1. Suits(format[j], arg)
    BY <1>5 DEF Fits
  <2>2. text = Documented(format[j], arg)
    BY <1>5 DEF DocumentedItem, Used
  <2>3. CASE format[j] \in Numbers
    <3>1. text \in Seq(Nat \ {Newline}) \ {<<>>}
      BY <1>5, <2>1, <2>2, <2>3, DocumentedFacts
    <3> HIDE DEF text
    <3> QED BY <1>2, <3>1 DEF text
  <2>4. CASE format[j] = "%s"
    <3>1. InRow(u)
      BY <2>4 DEF Apart
    <3>2. text = SubSeq(arg, 1, Len(arg) - 1)
      BY <1>5, <2>1, <2>2, <2>4, DocumentedFacts
    <3>3. arg \in Seq(Nat)
      BY <2>1, <2>4 DEF Suits, CStrings
    <3>4. \A i \in 1 .. Len(arg) - 1 : arg[i] # Newline
      BY <2>4 DEF Apart
    <3> HIDE DEF text, arg
    <3>5. \A i \in 1 .. Len(arg) - 1 : arg[i] \in Nat \ {Newline}
      <4>1. Len(arg) \in Nat /\ \A i \in 1 .. Len(arg) : arg[i] \in Nat
        BY <3>3, LenProperties, ElementOfSeq
      <4> QED BY <3>4, <4>1
    <3>6. Len(arg) - 1 \in Int
      BY <3>3, LenProperties
    <3>7. text \in Seq(Nat \ {Newline})
      BY <3>2, <3>5, <3>6, SubSeqProperties
    <3> QED BY <1>2, <3>1, <3>7 DEF text
  <2> QED BY <1>1, <1>5, <2>3, <2>4 DEF Conversions, Numbers
<1> QED BY <1>1, <1>3, <1>4, <1>5 DEF Items

\* What a message does to it.
LEMMA PrintInside ==
  ASSUME NEW format, NEW args, Fits(format, args), NEW cur, Inside(cur), Apart(format, args, cur)
  PROVE  LET v == puts(cur, Output(format, args))
         IN  /\ Inside(v)
             /\ format # <<>> /\ format[Len(format)] # "newline" => InRow(v)
<1> DEFINE n == Len(format)
           texts == Texts(format, args)
<1>1. n \in Nat /\ format \in Seq(Items) /\ cur \in Cursors
  BY DEF Fits, Inside
<1>2. texts \in Seq(Seq(Nat)) /\ Len(texts) = n
      /\ \A j \in 1 .. n : texts[j] = DocumentedItem(format, args, j)
  BY TextsFacts
<1> HIDE DEF texts
<1>3. PICK f \in Joins(texts) : Output(format, args) = f[n]
  BY OutputFacts DEF texts
<1>4. f \in [0 .. n -> Seq(Nat)] /\ f[0] = <<>> /\ \A j \in 1 .. n : f[j] = f[j - 1] \o texts[j]
  BY <1>2, <1>3 DEF Joins
<1>5. puts(cur, <<>>) = cur
  <2>1. <<>> \in Seq(Nat) /\ Len(<<>>) = 0
    BY EmptySeq
  <2>2. PICK p \in Walks(cur, <<>>) : p[0] = puts(cur, <<>>)
    BY <1>1, <2>1, WalksAre
  <2> QED BY <2>2 DEF Walks
<1> DEFINE at(j) == puts(cur, f[j])
           S == {j \in 0 .. n : Inside(at(j)) /\ (j = 0 => at(j) = cur)
                                /\ (j # 0 /\ format[j] # "newline" => InRow(at(j)))}
<1>6. 0 \in S
  BY <1>1, <1>4, <1>5
<1>7. \A j \in 0 .. n - 1 : j \in S => j + 1 \in S
  <2> SUFFICES ASSUME NEW j \in 0 .. n - 1, j \in S PROVE j + 1 \in S
    OBVIOUS
  <2>1. j + 1 \in 1 .. n /\ j + 1 \in 0 .. n /\ (j + 1) - 1 = j /\ j \in 0 .. n
    BY <1>1
  <2>2. f[j] \in Seq(Nat) /\ texts[j + 1] \in Seq(Nat) /\ f[j + 1] = f[j] \o texts[j + 1]
    BY <1>2, <1>4, <2>1, ElementOfSeq
  <2>3. at(j + 1) = puts(at(j), texts[j + 1])
    BY <1>1, <2>2, PutsTwice
  <2>4. Inside(at(j)) /\ IF j + 1 = 1 THEN at(j) = cur
                         ELSE format[(j + 1) - 1] # "newline" => InRow(at(j))
    BY <2>1
  <2>5. texts[j + 1] = DocumentedItem(format, args, j + 1)
    BY <1>2, <2>1
  <2> HIDE DEF at
  <2>6. Inside(at(j + 1)) /\ (format[j + 1] # "newline" => InRow(at(j + 1)))
    BY <2>1, <2>3, <2>4, <2>5, ItemInside
  <2> QED BY <2>1, <2>6
<1> HIDE DEF S
<1>8. \A j \in 0 .. n : j \in S
  BY <1>1, <1>6, <1>7, UpTo
<1>9. n \in S
  BY <1>1, <1>8
<1>10. Inside(puts(cur, f[n])) /\ (n # 0 /\ format[n] # "newline" => InRow(puts(cur, f[n])))
  BY <1>9 DEF S
<1>11. format # <<>> => n # 0
  BY <1>1, EmptySeq
<1> QED BY <1>3, <1>10, <1>11
-----------------------------------------------------------------------------
\* Fields of the boot loader's structures are words.
LEMMA WordsFacts ==
  ASSUME NEW n \in Nat \ {0}, NEW w \in Words(n)
  PROVE  w \in Seq(0 .. WORD - 1) /\ Len(w) = n /\ \A k \in 1 .. n : w[k] \in 0 .. WORD - 1
<1>1. PICK i \in 1 .. Len(Memory) - n + 1 : w = SubSeq(Memory, i, i + n - 1)
  BY DEF Words
<1>2. Memory \in Seq(0 .. WORD - 1)
  BY EntryAssumption
<1>3. Len(Memory) \in Nat /\ \A k \in 1 .. Len(Memory) : Memory[k] \in 0 .. WORD - 1
  BY <1>2, LenProperties, ElementOfSeq
<1>4. i \in Int /\ i + n - 1 \in Int /\ \A k \in i .. i + n - 1 : Memory[k] \in 0 .. WORD - 1
  <2>1. \A k \in i .. i + n - 1 : k \in 1 .. Len(Memory)
    BY <1>3
  <2> QED BY <1>3, <2>1
<1>5. w \in Seq(0 .. WORD - 1) /\ Len(w) = IF i <= i + n - 1 THEN (i + n - 1) - i + 1 ELSE 0
  BY <1>1, <1>4, SubSeqProperties
<1>6. Len(w) = n
  BY <1>4, <1>5
<1> QED BY <1>5, <1>6, ElementOfSeq

\* A format with conversions of numbers fits as many words.
LEMMA NumbersFit ==
  ASSUME NEW format \in Seq(Numbers \cup {"newline", "text"}), NEW args,
         \A k \in 1 .. Used(format, Len(format)) : args[k] \in 0 .. WORD - 1
  PROVE  Fits(format, args)
<1> DEFINE n == Len(format)
<1>1. n \in Nat /\ \A j \in 1 .. n : format[j] \in Numbers \cup {"newline", "text"}
  BY LenProperties, ElementOfSeq
<1>2. format \in Seq(Items)
  <2>1. Numbers \cup {"newline", "text"} \subseteq Items
    BY DEF Numbers, Items, Conversions
  <2> QED BY <2>1, SeqMonotonic
<1>3. ASSUME NEW j \in 1 .. n, format[j] \in Conversions
      PROVE  Used(format, j) \in 1 .. Used(format, n)
  <2> DEFINE S(m) == {i \in 1 .. m : format[i] \in Conversions}
  <2>1. IsFiniteSet(1 .. n) /\ S(n) \subseteq 1 .. n /\ S(j) \subseteq S(n)
    <3>1. IsFiniteSet(1 .. n)
      BY <1>1, FS_Interval
    <3>2. S(n) \subseteq 1 .. n /\ S(j) \subseteq S(n)
      BY <1>1
    <3> QED BY <3>1, <3>2
  <2>2. IsFiniteSet(S(n))
    BY <2>1, FS_Subset
  <2>3. IsFiniteSet(S(j)) /\ Cardinality(S(j)) <= Cardinality(S(n))
    <3> HIDE DEF S
    <3> QED BY <2>1, <2>2, FS_Subset
  <2>4. Used(format, j) = Cardinality(S(j)) /\ Used(format, n) = Cardinality(S(n))
    BY DEF Used
  <2>5. Used(format, j) \in Nat /\ Used(format, n) \in Nat
    BY <1>1, UsedFacts
  <2>6. Used(format, j) # 0
    <3>1. j - 1 \in Nat /\ (j - 1) + 1 = j
      BY <1>1
    <3>2. Used(format, j - 1) \in Nat /\ Used(format, j) = Used(format, j - 1) + 1
      BY <1>3, <3>1, UsedFacts
    <3> QED BY <3>2
  <2> HIDE DEF S
  <2> QED BY <2>3, <2>4, <2>5, <2>6
<1>4. ASSUME NEW j \in 1 .. n, format[j] \in Conversions
      PROVE  Suits(format[j], args[Used(format, j)])
  <2>1. format[j] \in Numbers
    BY <1>1, <1>4 DEF Numbers, Conversions
  <2>2. args[Used(format, j)] \in 0 .. WORD - 1
    BY <1>3, <1>4
  <2> QED BY <2>1, <2>2 DEF Suits, Numbers
<1> QED BY <1>2, <1>4 DEF Fits

\* What such a message says and leaves.
LEMMA NumbersSaid ==
  ASSUME NEW format \in Seq(Numbers \cup {"newline", "text"}), NEW args,
         \A k \in 1 .. Used(format, Len(format)) : args[k] \in 0 .. WORD - 1,
         NEW cur, Inside(cur),
         \A j \in 1 .. Len(format) : format[j] = "newline" =>
           IF j = 1 THEN InRow(cur) ELSE format[j - 1] # "newline"
  PROVE  /\ Output(format, args) = DocumentedOutput(format, args)
         /\ Inside(puts(cur, Output(format, args)))
         /\ format # <<>> /\ format[Len(format)] # "newline" =>
              InRow(puts(cur, Output(format, args)))
<1>1. Fits(format, args)
  BY NumbersFit
<1>2. Apart(format, args, cur)
  <2>1. \A j \in 1 .. Len(format) : format[j] # "%c" /\ format[j] # "%s"
    BY ElementOfSeq DEF Numbers
  <2> QED BY <2>1 DEF Apart
<1> QED BY <1>1, <1>2, OutputFacts, PrintInside

\* A format that takes k words, and in which no newline comes first or after another.
TakesWords(format, k) ==
  /\ format \in Seq(Numbers \cup {"newline", "text"}) /\ Len(format) # 0
  /\ Used(format, Len(format)) = k
  /\ format[1] # "newline"
  /\ \A j \in 2 .. Len(format) : format[j] = "newline" => format[j - 1] # "newline"

\* The messages of entry without strings.
LEMMA MessagesTakeWords ==
  /\ TakesWords(<<"text", "%#x", "newline">>, 1)
  /\ TakesWords(<<"text", "%u", "text", "%u", "text", "newline">>, 2)
  /\ TakesWords(<<"text", "%d", "text", "%#x", "newline", "text", "%d", "text", "%#x",
                  "newline", "text", "newline", "text", "%x", "text">>, 5)
  /\ TakesWords(<<"text", "%x", "text">>, 1)
  /\ TakesWords(<<"text", "newline">>, 0)
  /\ TakesWords(<<"text", "%u", "text", "%#x", "text", "%#x", "text", "%#x", "newline">>, 4)
  /\ TakesWords(<<"text", "%#x", "text", "%x", "newline">>, 2)
  /\ TakesWords(<<"text", "%x", "text", "%#x", "%#x", "newline", "text", "%x", "text",
                  "%#x", "%#x", "newline">>, 6)
<1> USE DEF Numbers, Conversions
<1>1. \A f : Used(f, 0) = 0 /\ \A j \in Nat :
        Used(f, j + 1) = IF f[j + 1] \in Conversions THEN Used(f, j) + 1 ELSE Used(f, j)
  BY UsedFacts
<1>2. TakesWords(<<"text", "%#x", "newline">>, 1)
  <2> DEFINE f == <<"text", "%#x", "newline">>
  <2>1. f \in Seq(Numbers \cup {"newline", "text"}) /\ Len(f) = 3
    OBVIOUS
  <2>2. /\ f[1] \notin Conversions /\ f[2] \in Conversions /\ f[3] \notin Conversions
    OBVIOUS
  <2>3. f[1] # "newline" /\ \A j \in 2 .. 3 : f[j] = "newline" => f[j - 1] # "newline"
    OBVIOUS
  <2> HIDE DEF f
  <2>4. Used(f, 3) = 1
    BY <1>1, <2>2
  <2> QED BY <2>1, <2>3, <2>4 DEF TakesWords, f
<1>3. TakesWords(<<"text", "%u", "text", "%u", "text", "newline">>, 2)
  <2> DEFINE f == <<"text", "%u", "text", "%u", "text", "newline">>
  <2>1. f \in Seq(Numbers \cup {"newline", "text"}) /\ Len(f) = 6
    OBVIOUS
  <2>2. /\ f[1] \notin Conversions /\ f[2] \in Conversions /\ f[3] \notin Conversions
        /\ f[4] \in Conversions /\ f[5] \notin Conversions /\ f[6] \notin Conversions
    OBVIOUS
  <2>3. f[1] # "newline" /\ \A j \in 2 .. 6 : f[j] = "newline" => f[j - 1] # "newline"
    OBVIOUS
  <2> HIDE DEF f
  <2>4. Used(f, 6) = 2
    BY <1>1, <2>2
  <2> QED BY <2>1, <2>3, <2>4 DEF TakesWords, f
<1>4. TakesWords(<<"text", "%d", "text", "%#x", "newline", "text", "%d", "text",
                     "%#x", "newline", "text", "newline", "text", "%x", "text">>, 5)
  <2> DEFINE f == <<"text", "%d", "text", "%#x", "newline", "text", "%d", "text", "%#x",
                  "newline", "text", "newline", "text", "%x", "text">>
  <2>1. f \in Seq(Numbers \cup {"newline", "text"}) /\ Len(f) = 15
    OBVIOUS
  <2>2. /\ f[1] \notin Conversions /\ f[2] \in Conversions /\ f[3] \notin Conversions
        /\ f[4] \in Conversions /\ f[5] \notin Conversions /\ f[6] \notin Conversions
        /\ f[7] \in Conversions /\ f[8] \notin Conversions /\ f[9] \in Conversions
        /\ f[10] \notin Conversions /\ f[11] \notin Conversions /\ f[12] \notin Conversions
        /\ f[13] \notin Conversions /\ f[14] \in Conversions /\ f[15] \notin Conversions
    OBVIOUS
  <2>3. f[1] # "newline" /\ \A j \in 2 .. 15 : f[j] = "newline" => f[j - 1] # "newline"
    OBVIOUS
  <2> HIDE DEF f
  <2>4. Used(f, 15) = 5
    BY <1>1, <2>2
  <2> QED BY <2>1, <2>3, <2>4 DEF TakesWords, f
<1>5. TakesWords(<<"text", "%x", "text">>, 1)
  <2> DEFINE f == <<"text", "%x", "text">>
  <2>1. f \in Seq(Numbers \cup {"newline", "text"}) /\ Len(f) = 3
    OBVIOUS
  <2>2. /\ f[1] \notin Conversions /\ f[2] \in Conversions /\ f[3] \notin Conversions
    OBVIOUS
  <2>3. f[1] # "newline" /\ \A j \in 2 .. 3 : f[j] = "newline" => f[j - 1] # "newline"
    OBVIOUS
  <2> HIDE DEF f
  <2>4. Used(f, 3) = 1
    BY <1>1, <2>2
  <2> QED BY <2>1, <2>3, <2>4 DEF TakesWords, f
<1>6. TakesWords(<<"text", "newline">>, 0)
  <2> DEFINE f == <<"text", "newline">>
  <2>1. f \in Seq(Numbers \cup {"newline", "text"}) /\ Len(f) = 2
    OBVIOUS
  <2>2. /\ f[1] \notin Conversions /\ f[2] \notin Conversions
    OBVIOUS
  <2>3. f[1] # "newline" /\ \A j \in 2 .. 2 : f[j] = "newline" => f[j - 1] # "newline"
    OBVIOUS
  <2> HIDE DEF f
  <2>4. Used(f, 2) = 0
    BY <1>1, <2>2
  <2> QED BY <2>1, <2>3, <2>4 DEF TakesWords, f
<1>7. TakesWords(<<"text", "%u", "text", "%#x", "text", "%#x", "text", "%#x",
                     "newline">>, 4)
  <2> DEFINE f == <<"text", "%u", "text", "%#x", "text", "%#x", "text", "%#x", "newline">>
  <2>1. f \in Seq(Numbers \cup {"newline", "text"}) /\ Len(f) = 9
    OBVIOUS
  <2>2. /\ f[1] \notin Conversions /\ f[2] \in Conversions /\ f[3] \notin Conversions
        /\ f[4] \in Conversions /\ f[5] \notin Conversions /\ f[6] \in Conversions
        /\ f[7] \notin Conversions /\ f[8] \in Conversions /\ f[9] \notin Conversions
    OBVIOUS
  <2>3. f[1] # "newline" /\ \A j \in 2 .. 9 : f[j] = "newline" => f[j - 1] # "newline"
    OBVIOUS
  <2> HIDE DEF f
  <2>4. Used(f, 9) = 4
    BY <1>1, <2>2
  <2> QED BY <2>1, <2>3, <2>4 DEF TakesWords, f
<1>8. TakesWords(<<"text", "%#x", "text", "%x", "newline">>, 2)
  <2> DEFINE f == <<"text", "%#x", "text", "%x", "newline">>
  <2>1. f \in Seq(Numbers \cup {"newline", "text"}) /\ Len(f) = 5
    OBVIOUS
  <2>2. /\ f[1] \notin Conversions /\ f[2] \in Conversions /\ f[3] \notin Conversions
        /\ f[4] \in Conversions /\ f[5] \notin Conversions
    OBVIOUS
  <2>3. f[1] # "newline" /\ \A j \in 2 .. 5 : f[j] = "newline" => f[j - 1] # "newline"
    OBVIOUS
  <2> HIDE DEF f
  <2>4. Used(f, 5) = 2
    BY <1>1, <2>2
  <2> QED BY <2>1, <2>3, <2>4 DEF TakesWords, f
<1>9. TakesWords(<<"text", "%x", "text", "%#x", "%#x", "newline", "text", "%x",
                     "text", "%#x", "%#x", "newline">>, 6)
  <2> DEFINE f == <<"text", "%x", "text", "%#x", "%#x", "newline", "text", "%x", "text",
                  "%#x", "%#x", "newline">>
  <2>1. f \in Seq(Numbers \cup {"newline", "text"}) /\ Len(f) = 12
    OBVIOUS
  <2>2. /\ f[1] \notin Conversions /\ f[2] \in Conversions /\ f[3] \notin Conversions
        /\ f[4] \in Conversions /\ f[5] \in Conversions /\ f[6] \notin Conversions
        /\ f[7] \notin Conversions /\ f[8] \in Conversions /\ f[9] \notin Conversions
        /\ f[10] \in Conversions /\ f[11] \in Conversions /\ f[12] \notin Conversions
    OBVIOUS
  <2>3. f[1] # "newline" /\ \A j \in 2 .. 12 : f[j] = "newline" => f[j - 1] # "newline"
    OBVIOUS
  <2> HIDE DEF f
  <2>4. Used(f, 12) = 6
    BY <1>1, <2>2
  <2> QED BY <2>1, <2>3, <2>4 DEF TakesWords, f
<1> QED BY <1>2, <1>3, <1>4, <1>5, <1>6, <1>7, <1>8, <1>9

\* Messages are printed as documented, and the next byte of a module follows in its row.
MessagesInv ==
  /\ PrintsAsDocumented
  /\ Inside(cursor) /\ (said = "bytes" => InRow(cursor))

LEMMA WordsStep ==
  ASSUME NEW format, NEW k \in Nat, TakesWords(format, k),
         NEW args, \A i \in 1 .. k : args[i] \in 0 .. WORD - 1,
         Inside(cursor), printf(format, args),
         said' = "bytes" => format[Len(format)] # "newline"
  PROVE  MessagesInv'
<1>1. /\ format \in Seq(Numbers \cup {"newline", "text"}) /\ format # <<>>
      /\ \A i \in 1 .. Used(format, Len(format)) : args[i] \in 0 .. WORD - 1
      /\ \A j \in 1 .. Len(format) : format[j] = "newline" =>
           IF j = 1 THEN InRow(cursor) ELSE format[j - 1] # "newline"
  <2>1. \A j \in 1 .. Len(format) : j = 1 \/ j \in 2 .. Len(format)
    OBVIOUS
  <2>2. Len(<<>>) = 0
    OBVIOUS
  <2> QED BY <2>1, <2>2 DEF TakesWords
<1>2. /\ Output(format, args) = DocumentedOutput(format, args)
      /\ Inside(puts(cursor, Output(format, args)))
      /\ format[Len(format)] # "newline" => InRow(puts(cursor, Output(format, args)))
  BY <1>1, NumbersSaid
<1>3. /\ message' = [format |-> format, args |-> args, text |-> Output(format, args)]
      /\ cursor' = puts(cursor, Output(format, args))
  BY DEF printf
<1>4. PrintsAsDocumented'
  BY <1>2, <1>3 DEF PrintsAsDocumented
<1>5. Inside(cursor)' /\ (said' = "bytes" => InRow(cursor)')
  BY <1>2, <1>3 DEF Inside, InRow
<1> QED BY <1>4, <1>5 DEF MessagesInv

LEMMA LineStep ==
  ASSUME NEW line \in CommandLines, Inside(cursor), said' # "bytes",
         printf(<<"text", "%s", "newline">>, <<line>>)
  PROVE  MessagesInv'
<1> DEFINE f == <<"text", "%s", "newline">>
           args == <<line>>
<1>1. line \in CStrings /\ \A i \in 1 .. Len(line) - 1 : line[i] # Newline
  <2>1. line \in Seq(Nat) /\ line # <<>> /\ line[Len(line)] = Nul
        /\ \A i \in 1 .. Len(line) - 1 : line[i] \notin {Nul, Newline}
    BY EntryAssumption DEF Last
  <2> QED BY <2>1 DEF CStrings
<1>2. /\ f \in Seq(Items) /\ Len(f) = 3 /\ f[1] = "text" /\ f[2] = "%s" /\ f[3] = "newline"
      /\ args[1] = line
  BY DEF Items, Conversions
<1> HIDE DEF f, args
<1>3. f[1] \notin Conversions /\ f[2] \in Conversions /\ f[3] \notin Conversions
  BY <1>2 DEF Conversions
<1>4. Used(f, 2) = 1
  <2>1. \A j \in Nat :
          Used(f, j + 1) = IF f[j + 1] \in Conversions THEN Used(f, j) + 1 ELSE Used(f, j)
    BY UsedFacts
  <2>2. Used(f, 0) = 0
    BY UsedFacts
  <2> QED BY <1>3, <2>1, <2>2
<1>5. Fits(f, args)
  <2>1. Suits(f[2], args[Used(f, 2)])
    BY <1>1, <1>2, <1>4 DEF Suits, Numbers
  <2>2. \A j \in 1 .. 3 : f[j] \in Conversions => j = 2
    BY <1>3
  <2> QED BY <1>2, <2>1, <2>2 DEF Fits
<1>6. Apart(f, args, cursor)
  <2>1. \A j \in 1 .. 3 : j = 1 \/ j = 2 \/ j = 3
    OBVIOUS
  <2> QED BY <1>1, <1>2, <1>4, <2>1 DEF Apart
<1>7. Output(f, args) = DocumentedOutput(f, args) /\ Inside(puts(cursor, Output(f, args)))
  BY <1>5, <1>6, OutputFacts, PrintInside
<1>8. /\ message' = [format |-> f, args |-> args, text |-> Output(f, args)]
      /\ cursor' = puts(cursor, Output(f, args))
  BY DEF printf, f, args
<1>9. PrintsAsDocumented'
  BY <1>7, <1>8 DEF PrintsAsDocumented
<1>10. Inside(cursor)'
  BY <1>7, <1>8 DEF Inside
<1> QED BY <1>9, <1>10 DEF MessagesInv

\* The end of a module's line comes after one of its bytes.
LEMMA EndOfLineStep ==
  ASSUME InRow(cursor), said' # "bytes", printf(<<"newline">>, <<>>)
  PROVE  MessagesInv'
<1> DEFINE f == <<"newline">>
<1>1. f \in Seq(Numbers \cup {"newline", "text"}) /\ Len(f) = 1 /\ f[1] \notin Conversions
  BY DEF Conversions
<1>2. Inside(cursor)
  BY DEF InRow
<1> HIDE DEF f
<1>3. Used(f, 1) = 0
  <2>1. Used(f, 0) = 0 /\ Used(f, 0 + 1) =
          IF f[0 + 1] \in Conversions THEN Used(f, 0) + 1 ELSE Used(f, 0)
    BY UsedFacts
  <2> QED BY <1>1, <2>1
<1>4. Output(f, <<>>) = DocumentedOutput(f, <<>>) /\ Inside(puts(cursor, Output(f, <<>>)))
  <2>1. \A k \in 1 .. Used(f, Len(f)) : <<>>[k] \in 0 .. WORD - 1
    BY <1>1, <1>3
  <2>2. \A j \in 1 .. Len(f) : j = 1
    BY <1>1
  <2> QED BY <1>1, <1>2, <2>1, <2>2, NumbersSaid
<1>5. /\ message' = [format |-> f, args |-> <<>>, text |-> Output(f, <<>>)]
      /\ cursor' = puts(cursor, Output(f, <<>>))
  BY DEF printf, f
<1>6. PrintsAsDocumented'
  BY <1>4, <1>5 DEF PrintsAsDocumented
<1>7. Inside(cursor)'
  BY <1>4, <1>5 DEF Inside
<1> QED BY <1>6, <1>7 DEF MessagesInv

\* A module's lines, up to its first byte, and their arguments.
LEMMA ModuleMessage ==
  ASSUME NEW w \in Words(3), NEW byte \in Words(1)
  PROVE  /\ TakesWords(ModuleItems, 5) /\ ModuleItems[Len(ModuleItems)] # "newline"
         /\ \A i \in 1 .. 5 : <<w[1], w[2], w[1], w[3], byte[1]>>[i] \in 0 .. WORD - 1
<1>1. TakesWords(ModuleItems, 5) /\ ModuleItems[Len(ModuleItems)] # "newline"
  BY MessagesTakeWords DEF ModuleItems
<1>2. w[1] \in 0 .. WORD - 1 /\ w[2] \in 0 .. WORD - 1 /\ w[3] \in 0 .. WORD - 1
  BY WordsFacts
<1>3. byte[1] \in 0 .. WORD - 1
  BY WordsFacts
<1> QED BY <1>1, <1>2, <1>3

\* What entry says, and the returns that say nothing, keep the messages so.
LEMMA SayStep ==
  ASSUME MessagesInv, Say
  PROVE  MessagesInv'
<1>1. Inside(cursor) /\ (said = "bytes" => InRow(cursor))
  BY DEF MessagesInv
<1>2. \A n \in {1, 2, 4, 6} : \A w \in Words(n) : \A i \in 1 .. n : w[i] \in 0 .. WORD - 1
  BY WordsFacts
<1>3. ASSUME Silent, said' # "bytes" PROVE MessagesInv'
  BY <1>1, <1>3 DEF MessagesInv, Silent, PrintsAsDocumented, Inside, InRow
<1> USE DEF Goes
<1>4. CASE CheckMagic
  BY <1>1, <1>2, <1>3, <1>4, MessagesTakeWords, WordsStep DEF CheckMagic
<1>5. CASE SayFields
  BY <1>1, <1>2, <1>3, <1>5, MessagesTakeWords, WordsStep DEF SayFields
<1>6. CASE SayCommandLine
  BY <1>1, <1>3, <1>6, LineStep DEF SayCommandLine
<1>7. CASE SayModules
  <2>1. CASE Goes("modules", "bytes") /\ \E w \in Words(3), byte \in Words(1) :
               printf(ModuleItems, <<w[1], w[2], w[1], w[3], byte[1]>>)
    BY <1>1, <2>1, ModuleMessage, WordsStep
  <2>2. CASE Goes("bytes", "bytes") /\ \E byte \in Words(1) : printf(ByteItems, byte)
    <3>1. ByteItems[Len(ByteItems)] # "newline" /\ TakesWords(ByteItems, 1)
      BY MessagesTakeWords DEF ByteItems
    <3> QED BY <1>1, <1>2, <2>2, <3>1, WordsStep
  <2>3. CASE Goes("bytes", "modules") /\ printf(<<"newline">>, <<>>)
    BY <1>1, <2>3, EndOfLineStep
  <2>4. CASE Goes("modules", "bits") /\ Silent
    BY <1>3, <2>4
  <2> QED BY <1>7, <2>1, <2>2, <2>3, <2>4 DEF SayModules
<1>8. CASE CheckBits
  BY <1>1, <1>3, <1>8, MessagesTakeWords, WordsStep DEF CheckBits
<1>9. CASE SaySections
  BY <1>1, <1>2, <1>3, <1>9, MessagesTakeWords, WordsStep DEF SaySections
<1>10. CASE SayMap
  BY <1>1, <1>2, <1>3, <1>10, MessagesTakeWords, WordsStep DEF SayMap
<1> QED BY <1>4, <1>5, <1>6, <1>7, <1>8, <1>9, <1>10 DEF Say

LEMMA NothingSaid == DocumentedOutput(<<>>, <<>>) = <<>>
<1>1. Len(<<>>) = 0
  OBVIOUS
<1>2. [j \in 1 .. Len(<<>>) |-> DocumentedItem(<<>>, <<>>, j)] = <<>>
  BY <1>1
<1> QED BY <1>1, <1>2 DEF DocumentedOutput, FlattenSeq

LEMMA MessagesInit == EntryInit => MessagesInv
<1> SUFFICES ASSUME EntryInit PROVE MessagesInv
  OBVIOUS
<1>1. message = [format |-> <<>>, args |-> <<>>, text |-> <<>>]
      /\ cursor = [x |-> 0, y |-> 0, last |-> 0] /\ said = "magic"
  BY DEF EntryInit, Nothing
<1>2. Inside(cursor)
  BY <1>1, SizesOfScreen DEF Inside, Cursors
<1>3. DocumentedOutput(<<>>, <<>>) = <<>>
  BY NothingSaid
<1> QED BY <1>1, <1>2, <1>3 DEF MessagesInv, PrintsAsDocumented

LEMMA MessagesStep ==
  ASSUME MessagesInv, [EntryNext]_evars
  PROVE  MessagesInv'
<1>1. Inside(cursor) /\ (said = "bytes" => InRow(cursor)) /\ PrintsAsDocumented
  BY DEF MessagesInv
<1>2. CASE UNCHANGED messages
  BY <1>1, <1>2 DEF MessagesInv, messages, PrintsAsDocumented, Inside, InRow
<1>3. CASE Say
  BY <1>3, SayStep
<1>4. CASE said = "done" /\ message' = Nothing /\ UNCHANGED <<said, cursor>>
  BY <1>1, <1>4, NothingSaid DEF MessagesInv, PrintsAsDocumented, Inside, Nothing
<1>5. CASE cursor' = [x |-> 0, y |-> 0, last |-> 0] /\ UNCHANGED <<said, message>>
  BY <1>1, <1>5, SizesOfScreen DEF MessagesInv, PrintsAsDocumented, Inside, InRow, Cursors
<1> QED BY <1>2, <1>3, <1>4, <1>5 DEF EntryNext, Halt, evars, messages

\* What holds of messages from the first on.
THEOREM MessagesInvariance == EntrySpec => []MessagesInv
BY MessagesInit, MessagesStep, PTL DEF EntrySpec

\* Every message of entry is what the comment on printf says of its format and arguments.
THEOREM PrintedAsDocumented == EntrySpec => []PrintsAsDocumented
<1>1. MessagesInv => PrintsAsDocumented
  BY DEF MessagesInv
<1> QED BY <1>1, MessagesInvariance, PTL

\* Messages write no cell behind the video page, however many the boot loader causes.
THEOREM MessagesInPage == EntrySpec => []MessagesStayInPage
<1>1. MessagesInv => MessagesStayInPage
  BY DEF MessagesInv, Inside, MessagesStayInPage
<1> QED BY <1>1, MessagesInvariance, PTL
=============================================================================
