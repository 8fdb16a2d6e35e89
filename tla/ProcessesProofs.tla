-------------------------- MODULE ProcessesProofs --------------------------
(***************************************************************************)
(* Theorems about Processes, and about its composition with the memory of  *)
(* programs, for every number of terminals, processes and places.  In four *)
(* parts: what holds whatever the user and the timer do; ordinary use; the *)
(* process stack that it implements; and the composition.                  *)
(***************************************************************************)
EXTENDS Programs, Induction, FiniteSetTheorems, SequenceTheorems, TLAPS

\* Slot n, when it is one, holds a PCB that create_pcb has filled in.
Created(n) == n \in Slots => process_num[n] = n

\* Every entry of an active list is beyond the base slots and its predecessor
\* was created, as was the slot below every number that process_number can be
\* set to; the last base slot was as soon as any of them is beyond it.
EntriesInv ==
  \A t \in Terminals : \A i \in Places :
    active_processes[t][i] # 0 =>
      /\ active_processes[t][i] >= NumTerminals
      /\ Created(active_processes[t][i] - 1)
      /\ Created(NumTerminals - 1)

NumbersInv ==
  /\ EntriesInv
  /\ Created(recover_num - 1)
  /\ process_number >= NumTerminals => Created(NumTerminals - 1)
  /\ recover_num >= NumTerminals => Created(NumTerminals - 1)

\* Before the last tick of the boot there are no more processes than ticks.
BootInv ==
  execute_counter <= NumTerminals =>
    /\ recover_num = 0
    /\ mode # "lost"
    /\ caller = "boot"
    /\ process_number <= execute_counter
    /\ mode \in {"check", "claimed"} => process_number < execute_counter

\* What each point of sys_execute knows of the process below the new one.
ControlInv ==
  /\ mode = "user" \/ (caller = "user" /\ mode \in {"check", "claimed"})
       => process_number >= 1 /\ Created(process_number - 1)
  /\ mode = "user" \/ (caller = "user" /\ mode = "check")
       => current_pcb \in Slots /\ Created(current_pcb)
  /\ caller # "user" /\ mode \in {"check", "claimed"}
       => process_number < NumTerminals
  /\ mode = "claimed" => process_number < MaxProcesses /\ Created(process_number)
  /\ mode = "created" =>
       /\ process_number >= 1
       /\ current_pcb = process_number - 1
       /\ Created(process_number - 1)
       /\ caller = "user" => process_number >= 2 /\ Created(process_number - 2)

IInv == TypeOK /\ ActiveIsStack /\ NumbersInv /\ BootInv /\ ControlInv
-----------------------------------------------------------------------------
\* Unless a tick cut a boot short, every tick of the boot has made the process of
\* its terminal, and after the boot process_number is below the base slots only
\* while a base shell is replaced, when recover_num holds it.
BaseInv ==
  ~overrun =>
    /\ execute_counter <= NumTerminals =>
         IF mode \in {"check", "claimed"} THEN process_number = execute_counter - 1
                                         ELSE process_number = execute_counter
    /\ Booted =>
         \/ process_number >= NumTerminals
         \/ /\ mode \in {"check", "claimed"} /\ caller = "boot"
            /\ process_number = NumTerminals - 1
         \/ mode \in Loading /\ caller = "restart" /\ recover_num >= NumTerminals
    /\ Booted /\ caller = "user" /\ mode = "created" => process_number > NumTerminals
-----------------------------------------------------------------------------
LEMMA InitIInv == Init => IInv
<1>1. Init => overrun \in BOOLEAN
  BY DEF Init
<1> QED BY <1>1, ConstantsAssumption, SMT
  DEF Init, IInv, TypeOK, ActiveIsStack, NumbersInv, EntriesInv, BootInv,
      ControlInv, Created, Slots, Terminals, Places, None, Modes, pcbs, hardware

\* Registering a process keeps the list a stack, changes at most one place and
\* writes nothing but the new process's number.
LEMMA RegisteredFacts ==
  ASSUME TypeOK, ActiveIsStack, NEW t \in Terminals, NEW n \in Slots, n # 0
  PROVE  /\ Registered(t, n) \in [Terminals -> [Places -> Slots]]
         /\ \A u \in Terminals : \A i \in Places :
              \/ Registered(t, n)[u][i] = active_processes[u][i]
              \/ Registered(t, n)[u][i] = n
         /\ \A u \in Terminals : \A i \in Places :
              Registered(t, n)[u][i] # 0 =>
                \A j \in 0 .. i-1 : Registered(t, n)[u][j] # 0
<1> DEFINE A == Registered(t, n)
<1>1. active_processes \in [Terminals -> [Places -> Slots]]
  BY DEF TypeOK
<1>2. \A u \in Terminals : u # t => A[u] = active_processes[u]
  BY <1>1 DEF Registered
<1>3. A[t] = [i \in Places |->
                IF active_processes[t][i] = 0 /\ \A j \in 0 .. i-1 : j \in Occupied(t)
                THEN n ELSE active_processes[t][i]]
  BY <1>1 DEF Registered
<1>4. A \in [Terminals -> [Places -> Slots]]
  <2>1. [i \in Places |->
           IF active_processes[t][i] = 0 /\ \A j \in 0 .. i-1 : j \in Occupied(t)
           THEN n ELSE active_processes[t][i]] \in [Places -> Slots]
    BY <1>1
  <2> QED BY <1>1, <2>1 DEF Registered
<1>5. \A u \in Terminals : \A i \in Places :
        A[u][i] = active_processes[u][i] \/ A[u][i] = n
  BY <1>2, <1>3
<1>6. ASSUME NEW u \in Terminals, NEW i \in Places, A[u][i] # 0,
             NEW j \in 0 .. i-1
      PROVE  A[u][j] # 0
  <2>1. j \in Places
    BY ConstantsAssumption DEF Places
  <2>2. CASE u # t
    BY <1>2, <1>6, <2>1, <2>2 DEF ActiveIsStack
  <2>3. CASE u = t /\ active_processes[t][i] # 0
    <3>1. active_processes[t][j] # 0
      BY <2>3 DEF ActiveIsStack
    <3> QED BY <1>3, <2>1, <2>3, <3>1
  <2>4. CASE u = t /\ active_processes[t][i] = 0
    <3>1. j \in Occupied(t)
      BY <1>3, <1>6, <2>4
    <3> QED BY <1>3, <2>1, <2>4, <3>1 DEF Occupied
  <2> QED BY <2>2, <2>3, <2>4
<1> QED BY <1>4, <1>5, <1>6
-----------------------------------------------------------------------------
\* Steps that leave the processes alone: interrupts and the entry to execute.
LEMMA QuietStep ==
  ASSUME IInv,
         BootShell \/ ShowFirstTerminal \/ Trap \/ SwitchTerminal
           \/ ExecuteCall \/ ExecuteRefused \/ ExecuteNothing \/ UNCHANGED vars
  PROVE  IInv'
<1> USE ConstantsAssumption DEF IInv
<1>1. UNCHANGED <<process_number, recover_num, current_pcb, process_num,
                  parent_terminal, active_processes, esp, page, tss_esp0, ctx>>
  BY DEF BootShell, ShowFirstTerminal, Trap, SwitchTerminal, ExecuteCall,
         ExecuteRefused, ExecuteNothing, vars, pcbs, hardware
<1>2. ActiveIsStack' /\ NumbersInv'
  BY <1>1 DEF ActiveIsStack, NumbersInv, EntriesInv, Created
<1>3. frame' \in [Slots -> Slots \cup {None}]
  <2>1. Trapped \in [Slots -> Slots \cup {None}]
    BY DEF TypeOK, Trapped
  <2>2. frame' = frame \/ frame' = Trapped
    BY DEF BootShell, ShowFirstTerminal, Trap, SwitchTerminal,
           ExecuteCall, ExecuteRefused, ExecuteNothing, vars
  <2> QED BY <2>1, <2>2 DEF TypeOK
<1>4. TypeOK'
  <2>1. /\ terminal_on_display' \in Terminals
        /\ execute_counter' \in 0 .. NumTerminals + 1
    BY DEF TypeOK, Terminals, BootShell, ShowFirstTerminal, Trap, SwitchTerminal,
           ExecuteCall, ExecuteRefused, ExecuteNothing, vars
  <2>2. /\ mode' \in Modes
        /\ caller' \in {"boot", "user", "restart"}
    BY DEF TypeOK, Modes, BootShell, ShowFirstTerminal, Trap, SwitchTerminal,
           ExecuteCall, ExecuteRefused, ExecuteNothing, vars
  <2>3. overrun' \in BOOLEAN
    BY DEF TypeOK, BootShell, ShowFirstTerminal, Trap, SwitchTerminal,
           ExecuteCall, ExecuteRefused, ExecuteNothing, vars
  <2> QED BY <1>1, <1>3, <2>1, <2>2, <2>3 DEF TypeOK
<1>5. BootInv'
  BY <1>1 DEF BootInv, TypeOK, Booted, BootShell, ShowFirstTerminal, Trap,
              SwitchTerminal, ExecuteCall, ExecuteRefused, ExecuteNothing, vars
<1>6. ControlInv'
  <2>1. CASE BootShell
    BY <1>1, <2>1 DEF BootShell, BootInv, ControlInv, TypeOK, Created
  <2>2. CASE ExecuteCall
    BY <1>1, <2>2 DEF ExecuteCall, ControlInv, Created
  <2>3. CASE ExecuteRefused \/ ExecuteNothing
    BY <1>1, <2>3 DEF ExecuteRefused, ExecuteNothing, ControlInv, Created
  <2>4. CASE UNCHANGED <<mode, caller>>
    BY <1>1, <2>4 DEF ControlInv, Created
  <2> QED BY <2>1, <2>2, <2>3, <2>4 DEF ShowFirstTerminal, Trap, SwitchTerminal, vars
<1> QED BY <1>2, <1>4, <1>5, <1>6

\* create_pcb up to its second read of terminal_on_display.
LEMMA ClaimStep == ASSUME IInv, ClaimPcb PROVE IInv'
<1> USE ConstantsAssumption DEF IInv
<1> DEFINE n == process_number
           A == Registered(terminal_on_display, n)
<1>1. n \in Slots
  BY DEF ClaimPcb, RoomForProcess, TypeOK, Slots
<1>2. process_num' \in [Slots -> Slots] /\ process_num'[n] = n
  BY <1>1 DEF ClaimPcb, Numbered, TypeOK
<1>3. ASSUME NEW k, Created(k) PROVE Created(k)'
  BY <1>1, <1>3 DEF ClaimPcb, Numbered, Created, TypeOK
<1>4. n >= NumTerminals => Created(n - 1) /\ Created(NumTerminals - 1)
  BY DEF ClaimPcb, ControlInv, NumbersInv, TypeOK
<1>5. active_processes' = active_processes \/ (n >= NumTerminals /\ active_processes' = A)
  BY DEF ClaimPcb
<1>6. CASE active_processes' = active_processes
  <2>1. TypeOK' /\ ActiveIsStack'
    BY <1>2, <1>6 DEF ClaimPcb, TypeOK, Modes, ActiveIsStack, hardware
  <2>2. EntriesInv'
    BY <1>3, <1>6 DEF NumbersInv, EntriesInv
  <2>3. NumbersInv'
    BY <1>3, <2>2 DEF ClaimPcb, NumbersInv
  <2>4. BootInv' /\ ControlInv'
    BY <1>2, <1>3 DEF ClaimPcb, RoomForProcess, BootInv, ControlInv, Created
  <2> QED BY <2>1, <2>3, <2>4
<1>7. CASE n >= NumTerminals /\ active_processes' = A
  <2>1. /\ A \in [Terminals -> [Places -> Slots]]
        /\ \A u \in Terminals : \A i \in Places :
             A[u][i] = active_processes[u][i] \/ A[u][i] = n
        /\ \A u \in Terminals : \A i \in Places :
             A[u][i] # 0 => \A j \in 0 .. i-1 : A[u][j] # 0
    <3>1. n # 0 /\ terminal_on_display \in Terminals
      BY <1>7 DEF TypeOK
    <3> HIDE DEF n
    <3> QED BY <1>1, <3>1, RegisteredFacts
  <2>2. TypeOK' /\ ActiveIsStack'
    <3> HIDE DEF A
    <3> QED BY <1>2, <1>7, <2>1 DEF ClaimPcb, TypeOK, Modes, ActiveIsStack, hardware
  <2>3. EntriesInv'
    <3> SUFFICES ASSUME NEW t \in Terminals, NEW i \in Places,
                        active_processes'[t][i] # 0
                 PROVE  /\ active_processes'[t][i] >= NumTerminals
                        /\ Created(active_processes[t][i] - 1)'
                        /\ Created(NumTerminals - 1)'
      BY DEF EntriesInv
    <3> DEFINE e == active_processes'[t][i]
    <3>1. e = active_processes[t][i] \/ e = n
      <4> HIDE DEF A
      <4> QED BY <1>7, <2>1
    <3>2. e >= NumTerminals /\ Created(NumTerminals - 1)
      BY <1>4, <1>7, <3>1 DEF NumbersInv, EntriesInv
    <3>3. \E k : k = e - 1 /\ Created(k)
      BY <1>4, <1>7, <3>1 DEF NumbersInv, EntriesInv
    <3>4. Created(NumTerminals - 1)'
      BY <1>3, <3>2
    <3>5. Created(active_processes[t][i] - 1)'
      BY <1>3, <3>3
    <3> QED BY <3>2, <3>4, <3>5
  <2>4. NumbersInv'
    BY <1>3, <2>3 DEF ClaimPcb, NumbersInv
  <2>5. BootInv' /\ ControlInv'
    BY <1>2, <1>3 DEF ClaimPcb, RoomForProcess, BootInv, ControlInv, Created
  <2> QED BY <2>2, <2>4, <2>5
<1> QED BY <1>5, <1>6, <1>7

LEMMA FinishStep == ASSUME IInv, FinishPcb PROVE IInv'
<1> USE ConstantsAssumption DEF IInv
<1>1. process_number \in Slots /\ process_number' = process_number + 1
      /\ current_pcb' = process_number
  BY DEF FinishPcb, ControlInv, TypeOK, Slots
<1>2. process_num' = process_num /\ recover_num' = recover_num
  BY DEF FinishPcb
<1>3. TypeOK'
  <2>1. parent_terminal' \in [Slots -> Terminals]
    BY <1>1 DEF FinishPcb, TypeOK
  <2>2. process_number' \in 0 .. MaxProcesses
    BY <1>1 DEF Slots
  <2> QED BY <1>1, <2>1, <2>2 DEF FinishPcb, TypeOK, Modes, hardware
<1>4. ActiveIsStack'
  BY DEF FinishPcb, ActiveIsStack
<1>5. NumbersInv'
  BY <1>1 DEF FinishPcb, NumbersInv, EntriesInv, ControlInv, Created, TypeOK
<1>6. BootInv'
  BY <1>1 DEF FinishPcb, BootInv, TypeOK
<1>7. ControlInv'
  BY <1>1 DEF FinishPcb, ControlInv, Created, TypeOK
<1> QED BY <1>3, <1>4, <1>5, <1>6, <1>7

LEMMA RejectStep == ASSUME IInv, RejectFile PROVE IInv'
<1> USE ConstantsAssumption DEF IInv
<1>1. TypeOK'
  <2>1. process_number' \in 0 .. MaxProcesses /\ current_pcb' \in Slots
    BY DEF RejectFile, ControlInv, TypeOK, Slots
  <2> QED BY <2>1 DEF RejectFile, TypeOK, Modes, pcbs, hardware
<1>2. ActiveIsStack'
  BY DEF RejectFile, ActiveIsStack, pcbs
<1>3. NumbersInv'
  BY DEF RejectFile, NumbersInv, EntriesInv, Created, TypeOK, pcbs
<1>4. BootInv'
  BY DEF RejectFile, BootInv, TypeOK
<1>5. ControlInv'
  BY DEF RejectFile, ControlInv, Created, TypeOK, Slots, pcbs
<1> QED BY <1>1, <1>2, <1>3, <1>4, <1>5

LEMMA LoadStep == ASSUME IInv, LoadProgram PROVE IInv'
<1> USE ConstantsAssumption DEF IInv
<1>1. current_pcb \in Slots /\ process_num[current_pcb] = current_pcb
  BY DEF LoadProgram, ControlInv, Created, TypeOK, Slots
<1>2. process_number' \in {process_number, recover_num} /\ process_number' >= process_number
  BY DEF LoadProgram, Recovered, TypeOK
<1>3. TypeOK'
  <2>1. frame' \in [Slots -> Slots \cup {None}]
    BY DEF LoadProgram, TypeOK
  <2>2. esp' \in [Slots -> Slots \cup {None}]
    BY <1>1 DEF LoadProgram, TypeOK
  <2> QED BY <1>1, <1>2, <2>1, <2>2 DEF LoadProgram, TypeOK, Modes
<1>4. ActiveIsStack'
  BY DEF LoadProgram, ActiveIsStack
<1>5. NumbersInv'
  BY <1>2 DEF LoadProgram, NumbersInv, EntriesInv, Created, TypeOK
<1>6. BootInv'
  BY <1>2 DEF LoadProgram, BootInv, TypeOK
<1>7. ControlInv'
  <2>1. process_num' = process_num /\ current_pcb' = current_pcb /\ mode' = "user"
    BY DEF LoadProgram
  <2>2. process_number' >= 1 /\ Created(process_number - 1)'
    <3>1. Created(process_number - 1) /\ Created(recover_num - 1) /\ process_number >= 1
      BY DEF LoadProgram, ControlInv, NumbersInv
    <3>2. process_number' >= 1
      BY <1>2, <3>1 DEF TypeOK
    <3>3. CASE process_number' = process_number
      BY <2>1, <3>1, <3>3 DEF Created
    <3>4. CASE process_number' = recover_num
      BY <2>1, <3>1, <3>2, <3>4 DEF Created
    <3> QED BY <1>2, <3>2, <3>3, <3>4
  <2>3. current_pcb' \in Slots /\ Created(current_pcb)'
    BY <1>1, <2>1 DEF Created
  <2> QED BY <2>1, <2>2, <2>3 DEF ControlInv
<1> QED BY <1>3, <1>4, <1>5, <1>6, <1>7

LEMMA RestartStep == ASSUME IInv, RestartShell PROVE IInv'
<1> USE ConstantsAssumption DEF IInv
<1>1. terminal_on_display \in Terminals /\ terminal_on_display < NumTerminals
  BY DEF TypeOK, Terminals
<1>2. TypeOK'
  <2>1. frame' \in [Slots -> Slots \cup {None}]
    BY DEF RestartShell, Trapped, TypeOK
  <2> QED BY <1>1, <2>1 DEF RestartShell, TypeOK, Modes, Terminals, None, pcbs, hardware
<1>3. ActiveIsStack'
  BY DEF RestartShell, ActiveIsStack, pcbs
<1>4. NumbersInv'
  <2>1. /\ process_num' = process_num /\ active_processes' = active_processes
        /\ recover_num' = process_number /\ process_number' < NumTerminals
    BY <1>1 DEF RestartShell, pcbs
  <2>2. Created(process_number - 1)
    BY DEF RestartShell, ControlInv
  <2>3. EntriesInv'
    BY <2>1 DEF NumbersInv, EntriesInv, Created
  <2>4. Created(recover_num - 1)'
    BY <2>1, <2>2 DEF Created
  <2>5. process_number >= NumTerminals => Created(NumTerminals - 1)'
    BY <2>1 DEF NumbersInv, Created
  <2>6. ~(process_number' >= NumTerminals)
    BY <1>1 DEF RestartShell, Terminals
  <2> QED BY <2>1, <2>3, <2>4, <2>5, <2>6 DEF NumbersInv
<1>5. BootInv' /\ ControlInv'
  BY <1>1 DEF RestartShell, Booted, BootInv, ControlInv, TypeOK
<1> QED BY <1>2, <1>3, <1>4, <1>5

\* Halt sets process_number to an entry of the parent's list or to the number
\* of base shells; in both cases the slot below was created.
LEMMA HaltStep == ASSUME IInv, HaltProgram PROVE IInv'
<1> USE ConstantsAssumption DEF IInv
<1>1. process_number > NumTerminals /\ Created(NumTerminals - 1)
  BY DEF HaltProgram, HaltsProgram, NumbersInv, TypeOK, Terminals
<1>2. current_pcb \in Slots
  BY DEF HaltProgram, ControlInv
<1> DEFINE t == parent_terminal[current_pcb]
<1>3. t \in Terminals
  BY <1>2 DEF TypeOK
<1>4. PICK n \in Slots :
        /\ ReturnBelow(n)
        /\ n >= NumTerminals
        /\ Created(n - 1)
  <2>1. CASE Occupied(t) = {} /\ ReturnBelow(NumTerminals)
    BY <1>1, <2>1 DEF Slots
  <2>2. CASE \E i \in Places : IsTop(t, i) /\ ReturnBelow(active_processes[t][i])
    <3>1. PICK i \in Places : IsTop(t, i) /\ ReturnBelow(active_processes[t][i])
      BY <2>2
    <3>2. active_processes[t][i] # 0
      BY <3>1 DEF IsTop, Occupied
    <3>3. active_processes[t][i] \in Slots
      BY <1>3 DEF TypeOK
    <3> QED BY <1>3, <3>1, <3>2, <3>3 DEF NumbersInv, EntriesInv
  <2> QED BY <2>1, <2>2 DEF HaltProgram, RestoreParent
<1>5. \/ active_processes' = active_processes
      \/ \E i \in Places : /\ IsTop(t, i)
                           /\ active_processes' = [active_processes EXCEPT ![t][i] = 0]
  BY DEF HaltProgram, RestoreParent
<1>6. n - 1 \in Slots /\ process_num[n - 1] = n - 1
  BY <1>4 DEF Created, Slots
<1>7. active_processes' \in [Terminals -> [Places -> Slots]]
  <2>1. 0 \in Slots
    BY DEF Slots
  <2>2. ASSUME NEW i \in Places,
               active_processes' = [active_processes EXCEPT ![t][i] = 0]
        PROVE  active_processes' \in [Terminals -> [Places -> Slots]]
    <3> HIDE DEF t
    <3>1. active_processes \in [Terminals -> [Places -> Slots]]
      BY DEF TypeOK
    <3>2. [active_processes[t] EXCEPT ![i] = 0] \in [Places -> Slots]
      BY <1>3, <2>1, <3>1
    <3> QED BY <1>3, <2>2, <3>1, <3>2
  <2> QED BY <1>5, <2>2 DEF TypeOK
<1>8. TypeOK'
  <2>1. frame' \in [Slots -> Slots \cup {None}]
    BY DEF HaltProgram, Trapped, TypeOK
  <2>2. ctx' \in Slots \cup {None} /\ mode' \in Modes
    <3>1. esp[current_pcb] # None => esp[current_pcb] \in Slots
      BY <1>2 DEF TypeOK
    <3> QED BY <2>1, <3>1 DEF HaltProgram, ResumedFrame, Modes
  <2> QED BY <1>4, <1>6, <1>7, <2>1, <2>2 DEF HaltProgram, ReturnBelow, TypeOK, Slots
<1>9. ActiveIsStack'
  <2>1. ASSUME NEW i \in Places, IsTop(t, i),
               active_processes' = [active_processes EXCEPT ![t][i] = 0]
        PROVE  ActiveIsStack'
    <3> SUFFICES ASSUME NEW u \in Terminals, NEW k \in Places,
                        active_processes'[u][k] # 0, NEW j \in 0 .. k-1
                 PROVE  active_processes'[u][j] # 0
      BY DEF ActiveIsStack
    <3>1. j \in Places
      BY DEF Places
    <3>2. active_processes[u][k] # 0 /\ active_processes[u][j] # 0
      BY <1>3, <2>1, <3>1 DEF TypeOK, ActiveIsStack
    <3>3. CASE u = t /\ j = i
      <4>1. k <= i
        BY <2>1, <3>2, <3>3 DEF IsTop, Occupied
      <4> QED BY <3>3, <4>1 DEF Places
    <3>4. CASE ~(u = t /\ j = i)
      BY <1>3, <2>1, <3>1, <3>2, <3>4 DEF TypeOK
    <3> QED BY <3>3, <3>4
  <2>2. CASE active_processes' = active_processes
    BY <2>2 DEF ActiveIsStack
  <2> QED BY <1>5, <2>1, <2>2
<1>10. NumbersInv'
  <2>1. \A u \in Terminals : \A i \in Places :
          active_processes'[u][i] # 0 =>
            active_processes'[u][i] = active_processes[u][i]
    <3> SUFFICES ASSUME NEW u \in Terminals, NEW k \in Places,
                        active_processes'[u][k] # 0
                 PROVE  active_processes'[u][k] = active_processes[u][k]
      OBVIOUS
    <3> HIDE DEF t
    <3>1. CASE active_processes' = active_processes
      BY <3>1
    <3>2. ASSUME NEW i \in Places,
                 active_processes' = [active_processes EXCEPT ![t][i] = 0]
          PROVE  active_processes'[u][k] = active_processes[u][k]
      <4>1. active_processes \in [Terminals -> [Places -> Slots]]
        BY DEF TypeOK
      <4>2. CASE u = t
        BY <1>3, <3>2, <4>1, <4>2
      <4>3. CASE u # t
        BY <1>3, <3>2, <4>1, <4>3
      <4> QED BY <4>2, <4>3
    <3> QED BY <1>5, <3>1, <3>2
  <2>2. process_num' = process_num /\ recover_num' = recover_num
    BY DEF HaltProgram
  <2>3. EntriesInv'
    BY <2>1, <2>2 DEF NumbersInv, EntriesInv, Created
  <2> QED BY <1>1, <2>2, <2>3 DEF NumbersInv, Created
<1>11. BootInv'
  BY DEF HaltProgram, Booted, BootInv, TypeOK
<1>12. ControlInv'
  <2>1. /\ process_number' = n /\ current_pcb' = n - 1
        /\ process_num' = process_num /\ mode' \in {"user", "lost"}
    BY <1>4 DEF HaltProgram, ReturnBelow
  <2>2. Created(n - 1)' /\ n - 1 \in Slots /\ n >= 1
    BY <1>4, <2>1 DEF Created, Slots
  <2>3. /\ Created(process_number - 1)' /\ process_number' >= 1
        /\ Created(current_pcb)' /\ current_pcb' \in Slots
    BY <2>1, <2>2 DEF Created
  <2> QED BY <2>1, <2>3 DEF ControlInv
<1> QED BY <1>8, <1>9, <1>10, <1>11, <1>12
-----------------------------------------------------------------------------
\* BaseInv is preserved given IInv.
LEMMA BaseStep == ASSUME IInv, BaseInv, [Next]_vars PROVE BaseInv'
<1> USE ConstantsAssumption DEF IInv, BaseInv
<1>1. CASE BootShell
  <2>1. ~overrun' => ~overrun /\ mode \notin Loading
    BY <1>1 DEF BootShell
  <2>2. mode \notin Loading => mode \in {"hlt", "user"}
    BY <1>1 DEF BootShell, Interruptible
  <2>3. /\ execute_counter < NumTerminals /\ execute_counter' = execute_counter + 1
        /\ process_number' = process_number /\ mode' = "check" /\ caller' = "boot"
    BY <1>1 DEF BootShell
  <2>4. ~overrun' => process_number = execute_counter
    BY <2>1, <2>2, <2>3 DEF TypeOK
  <2> QED BY <2>3, <2>4 DEF Booted, TypeOK
<1>2. CASE ShowFirstTerminal
  BY <1>2 DEF ShowFirstTerminal, Interruptible, Booted, Loading, BootInv, TypeOK, Modes
<1>3. CASE Trap \/ SwitchTerminal \/ UNCHANGED vars
  BY <1>3 DEF Trap, SwitchTerminal, vars, Booted, Loading
<1>4. CASE ExecuteCall \/ ExecuteRefused \/ ExecuteNothing
  BY <1>4 DEF ExecuteCall, ExecuteRefused, ExecuteNothing, Booted, Loading, BootInv, TypeOK
<1>5. CASE ClaimPcb
  BY <1>5 DEF ClaimPcb, Booted, Loading
<1>6. CASE FinishPcb
  BY <1>6 DEF FinishPcb, Booted, Loading, TypeOK
<1>7. CASE LoadProgram
  BY <1>7 DEF LoadProgram, Recovered, Booted, Loading, BootInv, TypeOK
<1>8. CASE RejectFile
  BY <1>8 DEF RejectFile, Booted, Loading, BootInv, TypeOK
<1>9. CASE RestartShell
  BY <1>9 DEF RestartShell, Booted, Loading, TypeOK
<1>10. CASE HaltProgram
  <2>1. current_pcb \in Slots
    BY <1>10 DEF HaltProgram, ControlInv
  <2>2. parent_terminal[current_pcb] \in Terminals
    BY <2>1 DEF TypeOK
  <2>3. process_number' >= NumTerminals
    <3> DEFINE t == parent_terminal[current_pcb]
    <3>1. \/ process_number' = NumTerminals
          \/ \E i \in Places : IsTop(t, i) /\ process_number' = active_processes[t][i]
      BY <1>10 DEF HaltProgram, RestoreParent, ReturnBelow
    <3>2. \A i \in Places : IsTop(t, i) => active_processes[t][i] >= NumTerminals
      BY <2>2 DEF IsTop, Occupied, NumbersInv, EntriesInv
    <3> QED BY <3>1, <3>2
  <2>4. Booted' /\ mode' \in {"user", "lost"} /\ Booted
    BY <1>10 DEF HaltProgram, Booted
  <2> QED BY <2>3, <2>4 DEF Booted, TypeOK
<1> QED BY <1>1, <1>2, <1>3, <1>4, <1>5, <1>6, <1>7, <1>8, <1>9, <1>10 DEF Next, Kernel
-----------------------------------------------------------------------------
THEOREM Invariance == Spec => []IInv
<1>1. IInv /\ [Next]_vars => IInv'
  BY QuietStep, ClaimStep, FinishStep, RejectStep, LoadStep, RestartStep, HaltStep
  DEF Next, Kernel
<1> QED BY InitIInv, <1>1, PTL DEF Spec

\* Every variable keeps its type: there are never more processes than
\* sys_execute admits, whatever is executed, refused, halted and restarted.
THEOREM TypeCorrect == Spec => []TypeOK
<1>1. IInv => TypeOK
  BY DEF IInv
<1> QED BY Invariance, <1>1, PTL

\* The loops of create_pcb, check_process_num and sys_halt over the places of
\* active_processes always see a stack.
THEOREM ActiveListsAreStacks == Spec => []ActiveIsStack
<1>1. IInv => ActiveIsStack
  BY DEF IInv
<1> QED BY Invariance, <1>1, PTL

\* A program never runs with a current PCB that create_pcb did not fill in.
THEOREM CurrentPcbCreated == Spec => []CurrentPcbIsCreated
<1>1. IInv => CurrentPcbIsCreated
  BY DEF IInv, ControlInv, Created, CurrentPcbIsCreated
<1> QED BY Invariance, <1>1, PTL

\* After a boot that no tick cut short no program is ever created in a base slot
\* but in place of its shell.
THEOREM BaseSlotsStay == Spec => []BaseSlotsReserved
<1>1. Init => BaseInv
  BY ConstantsAssumption DEF Init, BaseInv, Booted
<1>2. BaseInv => BaseSlotsReserved
  BY DEF BaseInv, BaseSlotsReserved, Loading
<1>3. IInv /\ BaseInv /\ [Next]_vars => BaseInv'
  BY BaseStep
<1> QED BY <1>1, <1>2, <1>3, Invariance, PTL DEF Spec
-----------------------------------------------------------------------------
(***************************************************************************)
(* Part 2, the use that the code is built for: no refused commands, no     *)
(* Alt+Fn away from a running program or one that is being built, a boot in *)
(* time and base shells left on the last terminal; and lists long enough for *)
(* the processes admitted, which the code's 3 terminals, 6 processes and 4 *)
(* places are.                                                             *)
(***************************************************************************)

OrdinaryUse == Env = {} /\ MaxProcesses - NumTerminals <= ActiveSlots

\* The process whose code runs or, during execute, will resume.
Deepest == IF mode = "created" THEN process_number - 2 ELSE process_number - 1

\* Programs above the base shells run one after the other.
Resumable == mode = "user" \/ (mode \in Loading /\ caller = "user")

\* Processes that create_pcb has entered in a list.
Entered == IF mode = "claimed" THEN process_number ELSE process_number - 1

\* All processes above the base shells are in the list of the terminal
\* displayed, in the order of their slots.
ListsInv ==
  /\ \A t \in Terminals : \A i \in Places :
       active_processes[t][i] =
         IF t = terminal_on_display /\ NumTerminals + i <= Entered THEN NumTerminals + i ELSE 0
  /\ \A n \in NumTerminals .. process_number - 1 : parent_terminal[n] = terminal_on_display

\* Each of them returns to the stack of the one below, where that one's context is.
ChainInv ==
  Resumable =>
    /\ \A n \in NumTerminals .. Deepest : esp[n] = n - 1
    /\ \A n \in NumTerminals - 1 .. Deepest - 1 : frame[n] = n
    /\ mode # "user" => frame[Deepest] = Deepest
    /\ page = Deepest /\ tss_esp0 = Deepest /\ ctx = Deepest
    /\ mode # "created" => current_pcb = Deepest

\* The slots below process_number hold the PCBs of these numbers.
SlotsInv ==
  /\ \A n \in 0 .. process_number - 1 : process_num[n] = n
  /\ mode = "claimed" => process_num[process_number] = process_number

\* The progress of the boot and of the restart of a base shell.
PhaseInv ==
  /\ mode # "lost"
  /\ mode = "hlt" => execute_counter = 0
  /\ execute_counter <= NumTerminals =>
       /\ caller = "boot" /\ recover_num = 0
       /\ IF mode \in {"check", "claimed"} THEN process_number = execute_counter - 1
                                         ELSE process_number = execute_counter
  /\ Booted =>
       /\ recover_num \in {0, NumTerminals}
       /\ mode \in Loading => caller # "boot"
       /\ ~(mode \in Loading /\ caller = "restart") => process_number >= NumTerminals
       /\ mode \in Loading /\ caller = "restart" =>
            /\ recover_num = NumTerminals
            /\ process_number = IF mode = "created" THEN NumTerminals ELSE NumTerminals - 1
       /\ mode = "created" /\ caller = "user" => process_number > NumTerminals

OInv == ListsInv /\ ChainInv /\ SlotsInv /\ PhaseInv
-----------------------------------------------------------------------------
LEMMA InitOInv == Init => OInv
<1> SUFFICES ASSUME Init PROVE OInv
  OBVIOUS
<1> USE ConstantsAssumption
<1>1. ListsInv
  BY DEF Init, ListsInv, Entered, Places
<1>2. ChainInv /\ SlotsInv /\ PhaseInv
  BY DEF Init, ChainInv, Resumable, SlotsInv, PhaseInv, Booted, Loading
<1> QED BY <1>1, <1>2 DEF OInv

\* Up to the base shells every list is empty.
LEMMA NoEntries ==
  ASSUME TypeOK, ListsInv, Entered < NumTerminals
  PROVE  \A t \in Terminals : \A i \in Places : active_processes[t][i] = 0
<1>1. \A i \in Places : ~(NumTerminals + i <= Entered)
  BY ConstantsAssumption DEF TypeOK, Places, Entered
<1> QED BY <1>1 DEF ListsInv

\* The interrupts and the entry to execute, which move no process.
LEMMA QuietOrdinary ==
  ASSUME OrdinaryUse, IInv, OInv,
         BootShell \/ ShowFirstTerminal \/ Trap \/ SwitchTerminal
           \/ ExecuteCall \/ ExecuteRefused \/ ExecuteNothing \/ UNCHANGED vars
  PROVE  OInv'
<1> USE ConstantsAssumption DEF IInv, OInv
<1>1. UNCHANGED <<process_number, recover_num, current_pcb, process_num,
                  parent_terminal, active_processes, esp, page, tss_esp0, ctx>>
  BY DEF BootShell, ShowFirstTerminal, Trap, SwitchTerminal, ExecuteCall,
         ExecuteRefused, ExecuteNothing, vars, pcbs, hardware
<1>2. process_number \in 0 .. MaxProcesses
  BY DEF TypeOK
<1>3. CASE BootShell
  <2>1. /\ execute_counter < NumTerminals /\ execute_counter' = execute_counter + 1
        /\ mode \in {"hlt", "user"} /\ mode' = "check" /\ caller' = "boot"
    BY <1>3 DEF BootShell, Interruptible, OrdinaryUse
  <2>2. process_number = execute_counter /\ recover_num = 0
    BY <2>1 DEF PhaseInv, TypeOK
  <2>3. Entered < NumTerminals /\ Entered' < NumTerminals
    BY <1>1, <2>1, <2>2 DEF Entered, TypeOK
  <2>4. ListsInv'
    BY <1>1, <2>1, <2>2, <2>3, NoEntries DEF ListsInv, Places, Entered, TypeOK
  <2>5. ChainInv' /\ SlotsInv' /\ PhaseInv'
    BY <1>1, <2>1, <2>2 DEF ChainInv, Resumable, SlotsInv, PhaseInv, Booted, TypeOK
  <2> QED BY <2>4, <2>5
<1>4. CASE ShowFirstTerminal
  <2>1. /\ execute_counter = NumTerminals /\ execute_counter' = NumTerminals + 1
        /\ mode = "user" /\ mode' = "user" /\ caller' = caller /\ frame' = Trapped
    BY <1>4 DEF ShowFirstTerminal, Interruptible, OrdinaryUse, PhaseInv
  <2>2. process_number = NumTerminals /\ recover_num = 0
    BY <2>1 DEF PhaseInv, TypeOK
  <2>3. ListsInv'
    BY <1>1, <2>1, <2>2, NoEntries DEF ListsInv, Places, Entered, TypeOK
  <2>4. ChainInv'
    BY <1>1, <2>1, <2>2 DEF ChainInv, Resumable, Deepest
  <2>5. SlotsInv' /\ PhaseInv'
    BY <1>1, <2>1, <2>2 DEF SlotsInv, PhaseInv, Booted, Loading
  <2> QED BY <2>3, <2>4, <2>5
<1>5. CASE SwitchTerminal
  <2>1. /\ mode = "user" /\ current_pcb < NumTerminals
        /\ UNCHANGED <<mode, caller, execute_counter>> /\ frame' = Trapped
    BY <1>5 DEF SwitchTerminal, OrdinaryUse
  <2>2. process_number <= NumTerminals
    BY <1>2, <2>1 DEF ChainInv, Resumable, Deepest
  <2>3. ListsInv'
    BY <1>1, <1>2, <2>1, <2>2, NoEntries DEF ListsInv, Places, Entered
  <2>4. ChainInv'
    BY <1>1, <1>2, <2>1, <2>2 DEF ChainInv, Resumable, Deepest
  <2>5. SlotsInv' /\ PhaseInv'
    BY <1>1, <2>1 DEF SlotsInv, PhaseInv, Booted
  <2> QED BY <2>3, <2>4, <2>5
<1>6. CASE Trap \/ ExecuteCall
  <2>1. /\ mode = "user" /\ frame' = Trapped
        /\ UNCHANGED <<terminal_on_display, execute_counter>>
        /\ (mode' = "user" /\ caller' = caller) \/ (mode' = "check" /\ caller' = "user" /\ Booted)
    BY <1>6 DEF Trap, ExecuteCall
  <2>2. ListsInv' /\ SlotsInv'
    BY <1>1, <2>1 DEF ListsInv, SlotsInv, Entered
  <2>3. /\ tss_esp0 = Deepest /\ ctx = Deepest /\ Deepest \in Slots
        /\ Deepest' = Deepest
    BY <1>1, <2>1 DEF ChainInv, Resumable, Deepest, TypeOK
  <2>4. frame'[Deepest] = Deepest /\ \A n \in Slots : n # Deepest => frame'[n] = frame[n]
    BY <2>1, <2>3 DEF Trapped, TypeOK
  <2>5. \A n \in NumTerminals - 1 .. Deepest - 1 : n \in Slots /\ n # Deepest
    BY <2>3 DEF Slots
  <2>6. ChainInv'
    <3> HIDE DEF Deepest
    <3> QED BY <1>1, <2>1, <2>3, <2>4, <2>5 DEF ChainInv, Resumable
  <2>7. PhaseInv'
    BY <1>1, <2>1 DEF PhaseInv, Booted, Loading
  <2> QED BY <2>2, <2>6, <2>7
<1>7. CASE ExecuteRefused \/ ExecuteNothing
  <2>1. /\ mode = "check" /\ caller = "user" /\ mode' = "user"
        /\ UNCHANGED <<terminal_on_display, execute_counter, caller, frame>>
    BY <1>7 DEF ExecuteRefused, ExecuteNothing
  <2>2. ListsInv' /\ SlotsInv'
    BY <1>1, <2>1 DEF ListsInv, SlotsInv, Entered
  <2>3. ChainInv' /\ PhaseInv'
    BY <1>1, <2>1 DEF ChainInv, Resumable, Deepest, Loading, PhaseInv, Booted
  <2> QED BY <2>2, <2>3
<1>8. CASE UNCHANGED vars
  <2>1. UNCHANGED <<terminal_on_display, execute_counter, caller, mode, frame>>
    BY <1>8 DEF vars
  <2> QED BY <1>1, <2>1 DEF ListsInv, SlotsInv, Entered, ChainInv, Resumable, Deepest,
                            PhaseInv, Booted
<1> QED BY <1>3, <1>4, <1>5, <1>6, <1>7, <1>8

\* A new process takes the next place of the list.
LEMMA ClaimOrdinary == ASSUME OrdinaryUse, IInv, OInv, ClaimPcb PROVE OInv'
<1> USE ConstantsAssumption DEF IInv, OInv
<1> DEFINE n == process_number
           t == terminal_on_display
<1>1. /\ mode = "check" /\ mode' = "claimed" /\ n \in Slots /\ t \in Terminals
      /\ UNCHANGED <<process_number, recover_num, current_pcb, parent_terminal, esp,
                     frame, page, tss_esp0, ctx, terminal_on_display, execute_counter, caller>>
  BY DEF ClaimPcb, RoomForProcess, TypeOK, Slots, hardware
<1>2. process_num' = [process_num EXCEPT ![n] = n]
  BY DEF ClaimPcb, Numbered
<1>3. SlotsInv'
  BY <1>1, <1>2 DEF SlotsInv, TypeOK, Slots
<1>4. ChainInv' /\ PhaseInv'
  BY <1>1 DEF ChainInv, Resumable, Deepest, Loading, PhaseInv, Booted
<1>5. Entered = n - 1 /\ Entered' = n
  BY <1>1 DEF Entered
<1>6. \A u \in Terminals : \A i \in Places :
        active_processes'[u][i] =
          IF u = t /\ NumTerminals + i <= n THEN NumTerminals + i ELSE 0
  <2>1. CASE n < NumTerminals
    <3>1. active_processes' = active_processes
      BY <1>1, <2>1 DEF ClaimPcb, Slots
    <3>2. \A i \in Places : ~(NumTerminals + i <= n)
      BY <1>1, <2>1 DEF Places, Slots
    <3> QED BY <1>1, <1>5, <2>1, <3>1, <3>2, NoEntries DEF Slots
  <2>2. CASE n >= NumTerminals
    <3>1. active_processes' = Registered(t, n)
      BY <2>2 DEF ClaimPcb
    <3>2. \A i \in Places : active_processes[t][i] = IF NumTerminals + i <= n - 1 THEN NumTerminals + i ELSE 0
      BY <1>1, <1>5 DEF ListsInv
    <3>3. n - NumTerminals \in Places
      BY <1>1, <2>2 DEF OrdinaryUse, Slots, Places
    <3>4. \A i \in Places :
            (active_processes[t][i] = 0 /\ \A j \in 0 .. i-1 : j \in Occupied(t))
              <=> i = n - NumTerminals
      <4> TAKE i \in Places
      <4>1. \A j \in Places : j \in Occupied(t) <=> NumTerminals + j <= n - 1
        BY <1>1, <3>2 DEF Occupied, Places, Slots
      <4>2. \A j \in 0 .. i-1 : j \in Places
        BY DEF Places
      <4>3. CASE i = n - NumTerminals
        BY <1>1, <3>2, <4>1, <4>2, <4>3 DEF Places, Slots
      <4>4. CASE i < n - NumTerminals
        BY <1>1, <3>2, <4>4 DEF Places, Slots
      <4>5. CASE i > n - NumTerminals
        <5>1. n - NumTerminals \in 0 .. i-1 /\ n - NumTerminals \notin Occupied(t)
          BY <1>1, <2>2, <3>3, <4>1, <4>5 DEF Places, Slots
        <5> QED BY <4>5, <5>1 DEF Places, Slots
      <4> QED BY <1>1, <4>3, <4>4, <4>5 DEF Places, Slots
    <3>5. active_processes \in [Terminals -> [Places -> Slots]]
      BY DEF TypeOK
    <3>6. \A u \in Terminals : u # t => active_processes'[u] = active_processes[u]
      BY <3>1, <3>5 DEF Registered
    <3>7. \A i \in Places : active_processes'[t][i] =
            IF i = n - NumTerminals THEN n ELSE active_processes[t][i]
      BY <1>1, <3>1, <3>4, <3>5 DEF Registered
    <3>8. \A i \in Places : active_processes'[t][i] =
            IF NumTerminals + i <= n THEN NumTerminals + i ELSE 0
      BY <1>1, <3>2, <3>7 DEF Places, Slots
    <3>9. \A u \in Terminals : u # t => \A i \in Places : active_processes[u][i] = 0
      BY DEF ListsInv
    <3> QED BY <3>6, <3>8, <3>9
  <2> QED BY <1>1, <2>1, <2>2 DEF Slots
<1>7. ListsInv'
  <2>1. \A k \in NumTerminals .. n - 1 : parent_terminal[k] = t
    BY DEF ListsInv
  <2> QED BY <1>1, <1>5, <1>6, <2>1 DEF ListsInv
<1> QED BY <1>3, <1>4, <1>7

LEMMA FinishOrdinary == ASSUME OrdinaryUse, IInv, OInv, FinishPcb PROVE OInv'
<1> USE ConstantsAssumption DEF IInv, OInv
<1>1. /\ mode = "claimed" /\ mode' = "created" /\ process_number \in Slots
      /\ process_number' = process_number + 1 /\ current_pcb' = process_number
      /\ parent_terminal' = [parent_terminal EXCEPT ![process_number] = terminal_on_display]
      /\ UNCHANGED <<recover_num, process_num, active_processes, esp, frame, page,
                     tss_esp0, ctx, terminal_on_display, execute_counter, caller>>
  BY DEF FinishPcb, ControlInv, TypeOK, Slots, hardware
<1>2. ListsInv'
  <2>1. Entered' = Entered
    BY <1>1 DEF Entered, Slots
  <2>2. \A n \in NumTerminals .. process_number : parent_terminal'[n] = terminal_on_display
    BY <1>1 DEF ListsInv, TypeOK, Slots
  <2>3. process_number' - 1 = process_number
    BY <1>1 DEF Slots
  <2> QED BY <1>1, <2>1, <2>2, <2>3 DEF ListsInv
<1>3. ChainInv'
  <2>1. Deepest' = Deepest
    BY <1>1 DEF Deepest, Slots
  <2> HIDE DEF Deepest
  <2> QED BY <1>1, <2>1 DEF ChainInv, Resumable, Loading
<1>4. SlotsInv'
  BY <1>1 DEF SlotsInv, Slots
<1>5. PhaseInv'
  BY <1>1 DEF PhaseInv, Booted, Loading, Slots, TypeOK
<1> QED BY <1>2, <1>3, <1>4, <1>5

\* The image is loaded and, for a program, the stack below noted.
LEMMA LoadOrdinary == ASSUME OrdinaryUse, IInv, OInv, LoadProgram PROVE OInv'
<1> USE ConstantsAssumption DEF IInv, OInv
<1> DEFINE n == process_number
<1>1. /\ mode = "created" /\ mode' = "user" /\ current_pcb = n - 1 /\ n - 1 \in Slots
      /\ process_num[n - 1] = n - 1 /\ n \in Nat
  BY DEF LoadProgram, ControlInv, Created, TypeOK, Slots
<1>2. /\ page' = n - 1 /\ tss_esp0' = n - 1 /\ ctx' = n - 1
      /\ frame' = [k \in Slots |-> IF frame[k] = n - 1 THEN None ELSE frame[k]]
      /\ esp' = [esp EXCEPT ![n - 1] = IF caller = "user" THEN tss_esp0 ELSE None]
      /\ UNCHANGED <<recover_num, current_pcb, process_num, parent_terminal,
                     active_processes, terminal_on_display, execute_counter, caller>>
  BY <1>1 DEF LoadProgram
<1>3. process_number' = n /\ (caller # "user" => n <= NumTerminals)
  <2>1. process_number' = Recovered
    BY DEF LoadProgram
  <2>2. CASE execute_counter <= NumTerminals
    BY <1>1, <2>1, <2>2 DEF Recovered, PhaseInv, Slots
  <2>3. CASE Booted
    BY <1>1, <2>1, <2>3 DEF Recovered, PhaseInv, Booted, Loading, Slots, TypeOK
  <2> QED BY <2>2, <2>3 DEF Booted, TypeOK
<1>4. ListsInv' /\ SlotsInv'
  BY <1>1, <1>2, <1>3 DEF ListsInv, SlotsInv, Entered
<1>5. PhaseInv'
  BY <1>1, <1>2, <1>3 DEF PhaseInv, Booted, Loading, Slots, TypeOK
<1>6. Deepest' = n - 1
  BY <1>1, <1>3 DEF Deepest
<1>7. \A k \in NumTerminals .. n - 1 : esp'[k] = k - 1
  <2>1. CASE caller = "user"
    <3>1. /\ \A k \in NumTerminals .. n - 2 : esp[k] = k - 1
          /\ tss_esp0 = n - 2
      BY <1>1, <2>1 DEF ChainInv, Resumable, Loading, Deepest
    <3>2. esp'[n - 1] = n - 2 /\ \A k \in Slots : k # n - 1 => esp'[k] = esp[k]
      BY <1>1, <1>2, <2>1, <3>1 DEF TypeOK
    <3> QED BY <1>1, <3>1, <3>2 DEF Slots
  <2>2. CASE caller # "user"
    BY <1>1, <1>3, <2>2 DEF Slots
  <2> QED BY <2>1, <2>2
<1>8. \A k \in NumTerminals - 1 .. n - 2 : frame'[k] = k
  <2>1. CASE caller = "user"
    <3>1. \A k \in NumTerminals - 1 .. n - 2 : frame[k] = k
      BY <1>1, <2>1 DEF ChainInv, Resumable, Loading, Deepest, Slots
    <3> QED BY <1>1, <1>2, <3>1 DEF Slots
  <2>2. CASE caller # "user"
    BY <1>1, <1>3, <2>2 DEF Slots
  <2> QED BY <2>1, <2>2
<1>9. ChainInv'
  <2>1. n - 1 - 1 = n - 2
    BY <1>1 DEF Slots
  <2> HIDE DEF n
  <2> QED BY <1>1, <1>2, <1>6, <1>7, <1>8, <2>1 DEF ChainInv
<1> QED BY <1>4, <1>5, <1>9

\* What halt finds: a program is above the base shells exactly if the list of the
\* terminal displayed is not empty.
LEMMA HaltFinds ==
  ASSUME OrdinaryUse, IInv, OInv, mode = "user", Booted
  PROVE  /\ process_number >= NumTerminals /\ process_number <= MaxProcesses
         /\ current_pcb = process_number - 1
         /\ HaltsProgram <=> process_number > NumTerminals
<1> USE ConstantsAssumption DEF IInv, OInv
<1>1. process_number >= NumTerminals /\ process_number \in 0 .. MaxProcesses
  BY DEF PhaseInv, Loading, TypeOK
<1>2. current_pcb = process_number - 1
  BY DEF ChainInv, Resumable, Deepest
<1>3. terminal_on_display \in Terminals
  BY DEF TypeOK
<1>4. CASE process_number > NumTerminals
  <2>1. 0 \in Places /\ active_processes[terminal_on_display][0] = NumTerminals
    BY <1>1, <1>3, <1>4 DEF ListsInv, Entered, Places
  <2> QED BY <1>1, <1>2, <1>4, <2>1 DEF HaltsProgram, Occupied
<1>5. CASE process_number = NumTerminals
  BY <1>1, <1>2, <1>3, <1>5 DEF HaltsProgram, Terminals
<1> QED BY <1>1, <1>2, <1>4, <1>5

LEMMA RestartOrdinary ==
  ASSUME OrdinaryUse, IInv, OInv, RestartShell
  PROVE  OInv' /\ current_pcb < NumTerminals
<1> USE ConstantsAssumption DEF IInv, OInv
<1>1. /\ mode = "user" /\ Booted /\ mode' = "check" /\ caller' = "restart"
      /\ recover_num' = process_number /\ process_number' = terminal_on_display
      /\ UNCHANGED <<process_num, parent_terminal, active_processes, terminal_on_display,
                     execute_counter>>
  BY DEF RestartShell, pcbs
<1>2. process_number = NumTerminals /\ current_pcb = NumTerminals - 1
  <2>1. ~HaltsProgram
    BY DEF RestartShell
  <2>2. process_number \in Nat
    BY DEF TypeOK
  <2> QED BY <1>1, <2>1, <2>2, HaltFinds
<1>3. terminal_on_display = NumTerminals - 1
  BY <1>2 DEF RestartShell, OrdinaryUse
<1>4. Entered < NumTerminals /\ Entered' < NumTerminals
  BY <1>1, <1>2, <1>3 DEF Entered
<1>5. ListsInv'
  BY <1>1, <1>2, <1>3, <1>4, NoEntries DEF ListsInv, Places, Entered
<1>6. ChainInv' /\ SlotsInv' /\ PhaseInv'
  BY <1>1, <1>2, <1>3 DEF ChainInv, Resumable, SlotsInv, PhaseInv, Booted, Loading
<1> QED BY <1>2, <1>5, <1>6

\* Halt takes the last entry away and goes back to the process below it.
LEMMA HaltFacts ==
  ASSUME OrdinaryUse, IInv, OInv, HaltProgram
  PROVE  LET n == process_number
             t == terminal_on_display
             i == n - 1 - NumTerminals
         IN  /\ n > NumTerminals /\ n - 1 \in Slots /\ n - 2 \in Slots /\ i \in Places
             /\ process_number' = n - 1 /\ current_pcb' = n - 2
             /\ page' = n - 2 /\ tss_esp0' = n - 2 /\ ctx' = n - 2 /\ mode' = "user"
             /\ active_processes' = [active_processes EXCEPT ![t][i] = 0]
             /\ frame' = [frame EXCEPT ![n - 1] = n - 1]
             /\ ctx' = frame[esp[current_pcb]]
<1> USE ConstantsAssumption DEF IInv, OInv
<1> DEFINE n == process_number
           t == terminal_on_display
           i == n - 1 - NumTerminals
<1>1. /\ mode = "user" /\ Booted /\ n > NumTerminals /\ n <= MaxProcesses
      /\ current_pcb = n - 1 /\ n \in Int
  BY HaltFinds DEF HaltProgram, TypeOK
<1>2. n - 1 \in Slots /\ n - 2 \in Slots /\ i \in Places /\ t \in Terminals
  BY <1>1 DEF Slots, Places, OrdinaryUse, TypeOK
<1>3. parent_terminal[current_pcb] = t
  BY <1>1 DEF ListsInv
<1>4. \A j \in Places : active_processes[t][j] = IF NumTerminals + j <= n - 1 THEN NumTerminals + j ELSE 0
  BY <1>1, <1>2 DEF ListsInv, Entered
<1>5. active_processes[t][i] = n - 1 /\ n - 1 # 0
  BY <1>1, <1>2, <1>4
<1>6. \A j \in Places : IsTop(t, j) => j = i
  <2> SUFFICES ASSUME NEW j \in Places, IsTop(t, j) PROVE j = i
    OBVIOUS
  <2>1. i <= j
    BY <1>2, <1>5 DEF IsTop, Occupied
  <2>2. NumTerminals + j <= n - 1
    BY <1>4 DEF IsTop, Occupied
  <2> QED BY <1>1, <2>1, <2>2 DEF Places
<1>7. ReturnBelow(n - 1) /\ active_processes' = [active_processes EXCEPT ![t][i] = 0]
  <2>1. Occupied(t) # {}
    BY <1>2, <1>5 DEF Occupied
  <2>2. RestoreParent(t)
    BY <1>3 DEF HaltProgram
  <2> HIDE DEF n, t, i
  <2> QED BY <1>5, <1>6, <2>1, <2>2 DEF RestoreParent
<1>8. process_num[n - 2] = n - 2 /\ (n - 1) - 1 = n - 2
  BY <1>1 DEF SlotsInv
<1>9. /\ process_number' = n - 1 /\ current_pcb' = n - 2
      /\ page' = n - 2 /\ tss_esp0' = n - 2
  BY <1>7, <1>8 DEF ReturnBelow
<1>10. /\ tss_esp0 = n - 1 /\ ctx = n - 1 /\ esp[n - 1] = n - 2 /\ frame[n - 2] = n - 2
  BY <1>1 DEF ChainInv, Resumable, Deepest
<1>11. Trapped = [frame EXCEPT ![n - 1] = n - 1] /\ Trapped[n - 2] = n - 2
  BY <1>1, <1>2, <1>10 DEF Trapped, TypeOK
<1>12. /\ frame' = Trapped /\ ResumedFrame = n - 2 /\ n - 2 # None
  BY <1>1, <1>2, <1>10 DEF HaltProgram, ResumedFrame, None, Slots
<1>13. ctx' = n - 2 /\ mode' = "user"
  BY <1>11, <1>12 DEF HaltProgram
<1> QED BY <1>1, <1>2, <1>7, <1>9, <1>10, <1>11, <1>12, <1>13

LEMMA HaltOrdinary == ASSUME OrdinaryUse, IInv, OInv, HaltProgram PROVE OInv'
<1> USE ConstantsAssumption DEF IInv, OInv
<1> DEFINE n == process_number
           t == terminal_on_display
           i == n - 1 - NumTerminals
<1>1. /\ n > NumTerminals /\ n - 1 \in Slots /\ n - 2 \in Slots /\ i \in Places
      /\ process_number' = n - 1 /\ current_pcb' = n - 2
      /\ page' = n - 2 /\ tss_esp0' = n - 2 /\ ctx' = n - 2 /\ mode' = "user"
      /\ active_processes' = [active_processes EXCEPT ![t][i] = 0]
      /\ frame' = [frame EXCEPT ![n - 1] = n - 1]
  BY HaltFacts
<1>2. /\ mode = "user" /\ Booted
      /\ UNCHANGED <<recover_num, process_num, parent_terminal, esp,
                     terminal_on_display, execute_counter, caller>>
  BY DEF HaltProgram
<1>3. t \in Terminals /\ n \in Int
  BY DEF TypeOK
<1>4. Entered = n - 1 /\ Entered' = n - 2 /\ Deepest = n - 1 /\ Deepest' = n - 2
  BY <1>1, <1>2, <1>3 DEF Entered, Deepest
<1>5. ListsInv'
  <2>1. active_processes \in [Terminals -> [Places -> Slots]]
    BY DEF TypeOK
  <2>2. ASSUME NEW u \in Terminals, NEW j \in Places
        PROVE  active_processes'[u][j] =
                 IF u = t /\ NumTerminals + j <= n - 2 THEN NumTerminals + j ELSE 0
    <3>1. active_processes[u][j] = IF u = t /\ NumTerminals + j <= n - 1 THEN NumTerminals + j ELSE 0
      BY <1>4 DEF ListsInv
    <3>2. CASE u = t /\ j = i
      <4>1. active_processes'[u][j] = 0
        BY <1>1, <1>3, <2>1, <3>2
      <4> QED BY <1>3, <3>2, <4>1
    <3>3. CASE ~(u = t /\ j = i)
      <4>1. active_processes'[u][j] = active_processes[u][j]
        BY <1>1, <1>3, <2>1, <3>3
      <4>2. u = t => (NumTerminals + j <= n - 1 <=> NumTerminals + j <= n - 2)
        BY <1>3, <3>3 DEF Places
      <4> QED BY <3>1, <4>1, <4>2
    <3> QED BY <3>2, <3>3
  <2>3. \A k \in NumTerminals .. n - 2 : parent_terminal[k] = t
    BY <1>3 DEF ListsInv
  <2>4. process_number' - 1 = n - 2
    BY <1>1, <1>3
  <2> QED BY <1>2, <1>4, <2>2, <2>3, <2>4 DEF ListsInv
<1>6. ChainInv'
  <2>1. /\ \A k \in NumTerminals .. n - 2 : esp[k] = k - 1
        /\ \A k \in NumTerminals - 1 .. n - 3 : frame[k] = k
    BY <1>2, <1>3, <1>4 DEF ChainInv, Resumable
  <2>2. \A k \in NumTerminals - 1 .. n - 3 : frame'[k] = k
    BY <1>1, <1>3, <2>1 DEF TypeOK, Slots
  <2>3. (n - 2) - 1 = n - 3
    BY <1>3
  <2> QED BY <1>1, <1>2, <1>4, <2>1, <2>2, <2>3 DEF ChainInv
<1>7. SlotsInv' /\ PhaseInv'
  BY <1>1, <1>2, <1>3 DEF SlotsInv, PhaseInv, Booted, Loading
<1> QED BY <1>5, <1>6, <1>7
-----------------------------------------------------------------------------
\* In ordinary use the processes above the base shells are one chain, in one list.
THEOREM OrdinaryInvariance == OrdinaryUse /\ Spec => [](IInv /\ OInv)
<1> SUFFICES ASSUME OrdinaryUse PROVE Spec => [](IInv /\ OInv)
  OBVIOUS
<1>1. Init => OInv
  BY InitOInv
<1>2. IInv /\ OInv /\ [Next]_vars => OInv'
  <2> SUFFICES ASSUME IInv, OInv, [Next]_vars PROVE OInv'
    OBVIOUS
  <2>1. ~RejectFile
    BY DEF OrdinaryUse, RejectFile
  <2> QED BY <2>1, QuietOrdinary, ClaimOrdinary, FinishOrdinary, LoadOrdinary,
             RestartOrdinary, HaltOrdinary
    DEF Next, Kernel
<1> QED BY <1>1, <1>2, Invariance, PTL DEF Spec

\* In ordinary use a process runs on its own image, kernel stack and PCB.
THEOREM OwnAddressSpaces == OrdinaryUse /\ Spec => []OwnAddressSpace
<1>1. IInv /\ OInv => OwnAddressSpace
  BY DEF OInv, ChainInv, Resumable, OwnAddressSpace
<1> QED BY <1>1, OrdinaryInvariance, PTL

\* In ordinary use the lists hold exactly the processes above the base shells,
\* each in that of its terminal.
THEOREM ActiveMatchesParents == OrdinaryUse /\ Spec => []ActiveMatchesParent
<1> SUFFICES ASSUME OrdinaryUse PROVE Spec => []ActiveMatchesParent
  OBVIOUS
<1>1. IInv /\ OInv => ActiveMatchesParent
  <2> SUFFICES ASSUME IInv, OInv PROVE ActiveMatchesParent
    OBVIOUS
  <2> USE ConstantsAssumption DEF IInv, OInv
  <2> SUFFICES ASSUME mode = "user", NEW n \in NumTerminals .. MaxProcesses - 1
               PROVE  LET entries == {e \in Terminals \X Places : active_processes[e[1]][e[2]] = n}
                      IN  /\ Cardinality(entries) = IF n < process_number THEN 1 ELSE 0
                          /\ \A e \in entries : e[1] = parent_terminal[n]
    BY DEF ActiveMatchesParent
  <2> DEFINE entries == {e \in Terminals \X Places : active_processes[e[1]][e[2]] = n}
             place == <<terminal_on_display, n - NumTerminals>>
  <2>1. /\ terminal_on_display \in Terminals /\ n - NumTerminals \in Places
        /\ process_number \in Nat /\ n \in Nat /\ n # 0
    BY DEF TypeOK, Places, OrdinaryUse
  <2>2. \A t \in Terminals : \A i \in Places :
          active_processes[t][i] = n <=>
            t = terminal_on_display /\ i = n - NumTerminals /\ n < process_number
    BY <2>1 DEF ListsInv, Entered, Places
  <2>3. CASE n < process_number
    <3>1. entries = {place}
      BY <2>1, <2>2, <2>3
    <3>2. Cardinality(entries) = 1
      BY <3>1, FS_Singleton
    <3>3. parent_terminal[n] = terminal_on_display
      BY <2>1, <2>3 DEF ListsInv
    <3> QED BY <2>3, <3>1, <3>2, <3>3
  <2>4. CASE ~(n < process_number)
    <3>1. entries = {}
      BY <2>2, <2>4
    <3>2. Cardinality(entries) = 0
      BY <3>1, FS_EmptySet
    <3> QED BY <2>4, <3>1, <3>2
  <2> QED BY <2>3, <2>4
<1> QED BY <1>1, OrdinaryInvariance, PTL

\* In ordinary use a program's halt resumes the program that executed it.
THEOREM HaltsReturn == OrdinaryUse /\ Spec => HaltReturnsToParent
<1> SUFFICES ASSUME OrdinaryUse PROVE Spec => HaltReturnsToParent
  OBVIOUS
<1>1. IInv /\ OInv /\ [Next]_vars =>
        [(HaltProgram \/ RestartShell) /\ current_pcb >= NumTerminals
           => /\ mode' = "user"
              /\ ctx' = frame[esp[current_pcb]]
              /\ page' = ctx']_vars
  <2> SUFFICES ASSUME IInv, OInv, HaltProgram \/ RestartShell, current_pcb >= NumTerminals
               PROVE  mode' = "user" /\ ctx' = frame[esp[current_pcb]] /\ page' = ctx'
    OBVIOUS
  <2>1. CASE HaltProgram
    BY <2>1, HaltFacts
  <2>2. CASE RestartShell
    <3>1. current_pcb < NumTerminals /\ current_pcb \in Int
      BY <2>2, RestartOrdinary DEF IInv, TypeOK, Slots, None
    <3> QED BY <3>1, ConstantsAssumption
  <2> QED BY <2>1, <2>2
<1> QED BY <1>1, OrdinaryInvariance, PTL DEF Spec, HaltReturnsToParent
-----------------------------------------------------------------------------
(***************************************************************************)
(* Part 3, in ordinary use programs are called and return: the refinement of *)
(* ProcessStack.                                                           *)
(***************************************************************************)

\* The sequence of the slots found by going down from a slot is well defined.
LEMMA ChainExists ==
  ASSUME NEW m \in Nat, NEW below
  PROVE  \E f : f = [c \in 0 .. m |-> IF below[c] \in 0 .. c - 1 THEN Append(f[below[c]], c) ELSE <<c>>]
<1> DEFINE Good(f, n) ==
             f = [c \in 0 .. n |-> IF below[c] \in 0 .. c - 1 THEN Append(f[below[c]], c) ELSE <<c>>]
           S == {n \in 0 .. m : \E f : Good(f, n)}
<1>1. 0 \in S
  <2>1. \A c \in 0 .. 0 : ~(below[c] \in 0 .. c - 1)
    OBVIOUS
  <2>2. Good([c \in 0 .. 0 |-> <<c>>], 0)
    BY <2>1
  <2> QED BY <2>2
<1>2. ASSUME NEW n \in 0 .. m - 1, n \in S PROVE n + 1 \in S
  <2>1. PICK f : Good(f, n)
    BY <1>2
  <2>2. PICK v : v = IF below[n + 1] \in 0 .. n THEN Append(f[below[n + 1]], n + 1) ELSE <<n + 1>>
    OBVIOUS
  <2> DEFINE g == [c \in 0 .. n + 1 |-> IF c = n + 1 THEN v ELSE f[c]]
  <2>3. \A c \in 0 .. n : c \in 0 .. n + 1 /\ c # n + 1 /\ g[c] = f[c]
    OBVIOUS
  <2>4. g[n + 1] = v
    OBVIOUS
  <2>5. \A c \in 0 .. n + 1 :
          g[c] = IF below[c] \in 0 .. c - 1 THEN Append(g[below[c]], c) ELSE <<c>>
    <3> SUFFICES ASSUME NEW c \in 0 .. n + 1
                 PROVE  g[c] = IF below[c] \in 0 .. c - 1 THEN Append(g[below[c]], c) ELSE <<c>>
      OBVIOUS
    <3>1. CASE c = n + 1
      <4>1. c - 1 = n
        BY <3>1
      <4>2. below[c] \in 0 .. n => g[below[c]] = f[below[c]]
        BY <2>3
      <4> HIDE DEF g
      <4> QED BY <2>2, <2>4, <3>1, <4>1, <4>2
    <3>2. CASE c # n + 1
      <4>1. c \in 0 .. n
        BY <3>2
      <4>2. f[c] = IF below[c] \in 0 .. c - 1 THEN Append(f[below[c]], c) ELSE <<c>>
        BY <2>1, <4>1
      <4>3. below[c] \in 0 .. c - 1 => below[c] \in 0 .. n
        BY <4>1
      <4> HIDE DEF g
      <4> QED BY <2>3, <4>1, <4>2, <4>3
    <3> QED BY <3>1, <3>2
  <2>6. Good(g, n + 1)
    <3>1. g = [c \in 0 .. n + 1 |-> g[c]]
      OBVIOUS
    <3> HIDE DEF g
    <3> QED BY <2>5, <3>1
  <2> HIDE DEF g, Good
  <2>7. n + 1 \in 0 .. m
    OBVIOUS
  <2> QED BY <2>6, <2>7
<1>3. m \in S
  <2> HIDE DEF S
  <2> QED BY <1>1, <1>2, UpTo
<1> QED BY <1>3

LEMMA ChainIs ==
  \A c \in Slots :
    Chain[c] = IF esp[c] # None /\ frame[esp[c]] \in 0 .. c - 1
               THEN Append(Chain[frame[esp[c]]], c) ELSE <<c>>
<1> DEFINE Is(f) == f = [c \in Slots |->
                           IF esp[c] # None /\ frame[esp[c]] \in 0 .. c - 1
                           THEN Append(f[frame[esp[c]]], c) ELSE <<c>>]
<1>1. PICK m \in Nat : Slots = 0 .. m
  BY ConstantsAssumption DEF Slots
<1>2. PICK below : below = [c \in Slots |-> IF esp[c] # None THEN frame[esp[c]] ELSE -1]
  OBVIOUS
<1>3. PICK f : f = [c \in 0 .. m |-> IF below[c] \in 0 .. c - 1 THEN Append(f[below[c]], c) ELSE <<c>>]
  BY ChainExists
<1>4. ASSUME NEW c \in Slots
      PROVE  /\ (below[c] \in 0 .. c - 1) <=> (esp[c] # None /\ frame[esp[c]] \in 0 .. c - 1)
             /\ esp[c] # None => below[c] = frame[esp[c]]
  BY <1>2
<1>5. \A c \in Slots : f[c] = IF esp[c] # None /\ frame[esp[c]] \in 0 .. c - 1
                           THEN Append(f[frame[esp[c]]], c) ELSE <<c>>
  BY <1>1, <1>3, <1>4
<1>6. Is(f)
  BY <1>1, <1>3, <1>5
<1>7. Chain = CHOOSE g : Is(g)
  BY DEF Chain
<1>8. Is(Chain)
  <2> HIDE DEF Is
  <2> QED BY <1>6, <1>7
<1> QED BY <1>8

\* Base shells return to nobody, and what execute interrupted is one of them
\* or nothing while the processor builds a base shell.
StackInv ==
  /\ \A n \in Terminals : esp[n] = None
  /\ ~Resumable => ctx \in Terminals \cup {None}

\* A base shell and the programs above it.
Tower(c) ==
  [i \in 1 .. (IF c < NumTerminals THEN 1 ELSE c - NumTerminals + 2) |->
     IF c < NumTerminals THEN c ELSE NumTerminals - 2 + i]

Stacked == IF ctx = None THEN <<>> ELSE Chain[ctx]

IsTower == Stacked = IF ctx = None THEN <<>> ELSE Tower(ctx)

LEMMA StackInvInit == Init => StackInv
<1> USE ConstantsAssumption
<1> QED BY DEF Init, StackInv, Resumable, Loading, hardware, pcbs, Slots, Terminals

LEMMA StackInvStep ==
  ASSUME OrdinaryUse, IInv, OInv, IInv', OInv', StackInv, [Next]_vars
  PROVE  StackInv'
<1> USE ConstantsAssumption DEF IInv, OInv
<1>1. CASE BootShell
  <2>1. mode \in {"hlt", "user"} /\ mode' = "check" /\ caller' = "boot" /\ UNCHANGED <<esp, ctx>>
        /\ execute_counter < NumTerminals
    BY <1>1 DEF BootShell, Interruptible, OrdinaryUse, pcbs, hardware
  <2>2. mode = "user" => ctx = process_number - 1 /\ process_number = execute_counter
    BY <2>1 DEF ChainInv, Resumable, Deepest, PhaseInv, TypeOK
  <2>3. ctx \in Terminals \cup {None}
    <3>1. CASE mode = "hlt"
      BY <3>1 DEF StackInv, Resumable, Loading
    <3>2. CASE mode = "user"
      BY <2>1, <2>2, <3>2 DEF TypeOK, Terminals, Slots, None
    <3> QED BY <2>1, <3>1, <3>2
  <2> QED BY <2>1, <2>3 DEF StackInv
<1>2. CASE RestartShell
  <2>1. mode = "user" /\ mode' = "check" /\ caller' = "restart" /\ UNCHANGED <<esp, ctx>>
    BY <1>2 DEF RestartShell, pcbs, hardware
  <2>2. current_pcb < NumTerminals /\ ctx = current_pcb
    BY <1>2, <2>1, RestartOrdinary DEF ChainInv, Resumable
  <2>3. ctx \in Terminals \cup {None}
    BY <2>2 DEF TypeOK, Terminals, Slots, None
  <2> QED BY <2>1, <2>3 DEF StackInv
<1>3. CASE LoadProgram
  <2>1. /\ mode = "created" /\ mode' = "user" /\ current_pcb = process_number - 1
        /\ esp' = [esp EXCEPT ![current_pcb] = IF caller = "user" THEN tss_esp0 ELSE None]
        /\ execute_counter' = execute_counter /\ process_number \in Nat
    BY <1>3 DEF LoadProgram, ControlInv, TypeOK
  <2>2. caller = "user" => process_number > NumTerminals
    BY <2>1 DEF PhaseInv, Booted, TypeOK
  <2>3. \A n \in Terminals : esp'[n] = None
    <3> TAKE n \in Terminals
    <3>1. n \in Slots /\ n \in Int
      BY DEF Terminals, Slots
    <3>2. n # current_pcb \/ caller # "user"
      BY <2>1, <2>2 DEF Terminals
    <3>3. esp[n] = None
      BY DEF StackInv
    <3> QED BY <2>1, <3>1, <3>2, <3>3 DEF TypeOK
  <2> QED BY <2>1, <2>3 DEF StackInv, Resumable
<1>4. CASE HaltProgram
  <2>1. mode' = "user" /\ esp' = esp
    BY <1>4, HaltFacts DEF HaltProgram
  <2> QED BY <2>1 DEF StackInv, Resumable
<1>5. CASE ShowFirstTerminal \/ Trap \/ SwitchTerminal \/ ExecuteCall \/ ClaimPcb \/ FinishPcb
             \/ ExecuteRefused \/ ExecuteNothing \/ UNCHANGED vars
  <2>1. UNCHANGED <<esp, ctx>> /\ (Resumable => Resumable')
    BY <1>5 DEF ShowFirstTerminal, Trap, SwitchTerminal, ExecuteCall, ClaimPcb, FinishPcb,
                ExecuteRefused, ExecuteNothing, vars, pcbs, hardware, Resumable, Loading
  <2> QED BY <2>1 DEF StackInv
<1>6. ~RejectFile
  BY DEF OrdinaryUse, RejectFile
<1> QED BY <1>1, <1>2, <1>3, <1>4, <1>5, <1>6 DEF Next, Kernel

\* The frames the PCBs return to lead from the process that runs down to its shell.
LEMMA ChainIsTower == ASSUME OrdinaryUse, IInv, OInv, StackInv PROVE IsTower
<1> USE ConstantsAssumption DEF IInv, OInv
<1> SUFFICES ASSUME ctx # None PROVE Chain[ctx] = Tower(ctx)
  BY DEF IsTower, Stacked
<1>1. ctx \in Slots /\ ctx \in Nat
  BY DEF TypeOK, Slots
<1>2. \A n \in Terminals : Chain[n] = Tower(n)
  <2> TAKE n \in Terminals
  <2>1. Chain[n] = <<n>>
    <3>1. n \in Slots /\ esp[n] = None
      BY DEF StackInv, Terminals, Slots
    <3>2. Chain[n] = IF esp[n] # None /\ frame[esp[n]] \in 0 .. n - 1
                     THEN Append(Chain[frame[esp[n]]], n) ELSE <<n>>
      BY <3>1, ChainIs
    <3> QED BY <3>1, <3>2
  <2>2. Tower(n) = <<n>>
    BY DEF Tower, Terminals
  <2> QED BY <2>1, <2>2
<1>3. CASE ctx \in Terminals
  BY <1>2, <1>3
<1>4. CASE ctx \notin Terminals
  <2>1. ctx >= NumTerminals /\ Resumable /\ ctx = Deepest
    BY <1>1, <1>4 DEF StackInv, Terminals, ChainInv
  <2> DEFINE S == {c \in 0 .. ctx : Chain[c] = Tower(c)}
  <2>2. 0 \in S
    BY <1>1, <1>2 DEF Terminals
  <2>3. ASSUME NEW c \in 0 .. ctx - 1, c \in S PROVE c + 1 \in S
    <3>1. c \in Slots /\ c + 1 \in Slots /\ c \in Nat
      BY <1>1 DEF Slots
    <3>2. CASE c + 1 < NumTerminals
      BY <1>1, <1>2, <3>1, <3>2 DEF Terminals
    <3>3. CASE c + 1 >= NumTerminals
      <4>1. esp[c + 1] = c /\ frame[c] = c
        <5>1. c + 1 \in NumTerminals .. Deepest /\ c \in NumTerminals - 1 .. Deepest - 1
          BY <1>1, <2>1, <3>1, <3>3
        <5>2. esp[c + 1] = (c + 1) - 1
          BY <2>1, <5>1 DEF ChainInv
        <5> QED BY <2>1, <3>1, <5>1, <5>2 DEF ChainInv
      <4>2. Chain[c + 1] = Append(Chain[c], c + 1)
        <5>1. c # None /\ c \in 0 .. (c + 1) - 1
          BY <3>1 DEF None
        <5>2. Chain[c + 1] = IF esp[c + 1] # None /\ frame[esp[c + 1]] \in 0 .. (c + 1) - 1
                             THEN Append(Chain[frame[esp[c + 1]]], c + 1) ELSE <<c + 1>>
          BY <3>1, ChainIs
        <5> QED BY <4>1, <5>1, <5>2
      <4>3. Append(Tower(c), c + 1) = Tower(c + 1)
        BY <3>1, <3>3 DEF Tower
      <4> QED BY <1>1, <2>3, <3>1, <4>2, <4>3
    <3> QED BY <3>1, <3>2, <3>3
  <2>4. ctx \in S
    <3> HIDE DEF S
    <3> QED BY <1>1, <2>2, <2>3, UpTo
  <2> QED BY <2>4
<1> QED BY <1>3, <1>4

LEMMA StackStep ==
  ASSUME OrdinaryUse, IInv, OInv, StackInv, IsTower, IInv', OInv', StackInv', IsTower', [Next]_vars
  PROVE  [Stack!Next]_Stacked
<1> USE ConstantsAssumption DEF IInv, OInv
<1>1. ASSUME ctx' = ctx PROVE Stacked' = Stacked
  BY <1>1 DEF IsTower
<1>2. CASE LoadProgram
  <2>1. /\ mode = "created" /\ ctx' = process_number - 1 /\ process_number - 1 \in Slots
        /\ process_number \in Nat /\ caller \in {"user", "boot", "restart"}
        /\ mode' = "user"
    BY <1>2 DEF LoadProgram, ControlInv, Created, TypeOK, Slots
  <2>2. Stacked' = Tower(process_number - 1)
    BY <2>1 DEF IsTower, None, Slots
  <2>3. CASE caller = "user"
    <3>1. ctx = process_number - 2 /\ process_number > NumTerminals
      BY <2>1, <2>3 DEF ChainInv, Resumable, Loading, Deepest, PhaseInv, Booted, TypeOK
    <3>2. Stacked = Tower(process_number - 2)
      BY <2>1, <3>1 DEF IsTower, None
    <3>3. /\ Len(Tower(process_number - 2)) = process_number - NumTerminals
          /\ \A i \in 1 .. process_number - NumTerminals :
               Tower(process_number - 2)[i] # process_number - 1
          /\ Tower(process_number - 1) = Append(Tower(process_number - 2), process_number - 1)
      BY <2>1, <3>1 DEF Tower
    <3>4. /\ Len(Stacked) \in 1 .. (MaxProcesses - NumTerminals + 1) - 1
          /\ \A i \in 1 .. Len(Stacked) : Stacked[i] # process_number - 1
          /\ Stacked' = Append(Stacked, process_number - 1)
      <4>1. process_number - NumTerminals \in 1 .. (MaxProcesses - NumTerminals + 1) - 1
        BY <2>1, <3>1 DEF TypeOK
      <4> HIDE DEF Tower
      <4> QED BY <2>2, <3>2, <3>3, <4>1
    <3>5. Stack!Execute
      BY <2>1, <3>4 DEF Stack!Execute, Stacked
    <3> QED BY <3>5 DEF Stack!Next
  <2>4. CASE caller # "user"
    <3>1. ctx \in Terminals \cup {None}
      BY <2>1, <2>4 DEF StackInv, Resumable
    <3>2. Len(Stacked) <= 1
      <4>1. \A c \in Terminals : Len(Tower(c)) = 1
        BY DEF Tower, Terminals
      <4>2. CASE ctx = None
        BY <4>2 DEF IsTower
      <4>3. CASE ctx # None
        <5>1. Stacked = Tower(ctx) /\ ctx \in Terminals
          BY <3>1, <4>3 DEF IsTower
        <5>2. Len(Tower(ctx)) = 1
          BY <4>1, <5>1
        <5>3. Len(Stacked) = 1
          BY <5>1, <5>2
        <5> QED BY <5>3
      <4> QED BY <4>2, <4>3
    <3>3. process_number - 1 \in Terminals
      <4>1. CASE execute_counter <= NumTerminals
        BY <2>1, <4>1 DEF PhaseInv, Terminals, TypeOK, Slots
      <4>2. CASE Booted
        BY <2>1, <2>4, <4>2 DEF PhaseInv, Loading, Terminals, Slots
      <4> QED BY <4>1, <4>2 DEF Booted, TypeOK
    <3>4. Stacked' = <<process_number - 1>>
      BY <2>2, <3>3 DEF Tower, Terminals
    <3>5. Stack!StartShell
      BY <3>2, <3>3, <3>4 DEF Stack!StartShell, Stacked
    <3> QED BY <3>5 DEF Stack!Next
  <2> QED BY <2>3, <2>4
<1>3. CASE HaltProgram
  <2>1. /\ ctx' = process_number - 2 /\ process_number > NumTerminals /\ process_number \in Nat
        /\ mode = "user"
    BY <1>3, HaltFacts DEF TypeOK, HaltProgram
  <2>2. ctx = process_number - 1
    BY <2>1 DEF ChainInv, Resumable, Deepest
  <2>3. Stacked = Tower(process_number - 1) /\ Stacked' = Tower(process_number - 2)
    BY <2>1, <2>2 DEF IsTower, None
  <2>4. /\ Len(Tower(process_number - 1)) = process_number - NumTerminals + 1
        /\ Tower(process_number - 2) = SubSeq(Tower(process_number - 1), 1, process_number - NumTerminals)
    BY <2>1 DEF Tower
  <2>5. Len(Stacked) > 1 /\ Stacked' = SubSeq(Stacked, 1, Len(Stacked) - 1)
    BY <2>1, <2>3, <2>4
  <2>6. Stack!Halt
    BY <2>5 DEF Stack!Halt, Stacked
  <2> QED BY <2>6 DEF Stack!Next
<1>4. CASE BootShell \/ RestartShell \/ ShowFirstTerminal \/ Trap \/ SwitchTerminal \/ ExecuteCall
             \/ ClaimPcb \/ FinishPcb \/ ExecuteRefused \/ ExecuteNothing \/ UNCHANGED vars
  <2>1. ctx' = ctx
    BY <1>4 DEF BootShell, RestartShell, ShowFirstTerminal, Trap, SwitchTerminal, ExecuteCall,
                ClaimPcb, FinishPcb, ExecuteRefused, ExecuteNothing, vars, hardware
  <2> QED BY <1>1, <2>1
<1>5. ~RejectFile
  BY DEF OrdinaryUse, RejectFile
<1> QED BY <1>2, <1>3, <1>4, <1>5 DEF Next, Kernel

\* In ordinary use the boot, execute, halt and restart of Processes implement the
\* stack of processes that execute and halt promise.
THEOREM StackImplemented == OrdinaryUse /\ Spec => ImplementsStack
<1> SUFFICES ASSUME OrdinaryUse PROVE Spec => ImplementsStack
  OBVIOUS
<1>1. Init => Stack!Init
  BY DEF Init, Stack!Init, hardware
<1>2. Init => StackInv
  BY StackInvInit
<1>3. IInv /\ OInv /\ IInv' /\ OInv' /\ StackInv /\ [Next]_vars => StackInv'
  BY StackInvStep
<1>4. IInv /\ OInv /\ StackInv => IsTower
  BY ChainIsTower
<1>5. IInv /\ OInv /\ StackInv /\ IsTower /\ IInv' /\ OInv' /\ StackInv' /\ IsTower' /\ [Next]_vars
        => [Stack!Next]_(IF ctx = None THEN <<>> ELSE Chain[ctx])
  BY StackStep DEF Stacked
<1>6. Spec => [](IInv /\ OInv)
  BY OrdinaryInvariance
<1> QED BY <1>1, <1>2, <1>3, <1>4, <1>5, <1>6, PTL DEF Spec, ImplementsStack, Stack!Spec
-----------------------------------------------------------------------------
(***************************************************************************)
(* Part 4, the composition: the whole of Programs takes the steps of       *)
(* Processes, and in ordinary use every program is the one that its command *)
(* names and gets the arguments of its command.                            *)
(***************************************************************************)

\* Reads of commands, getargs, vidmap and the copies of execute and halt leave
\* process control as it is or take a step of it, and its fairness is theirs.
THEOREM ProgramsTakeSteps == ProgramsSpec => Spec
<1>1. ProgramsInit => Init
  BY DEF ProgramsInit
<1>2. [ProgramsNext]_pvars => [Next]_vars
  <2> SUFFICES ASSUME ProgramsNext PROVE Next
    BY DEF pvars
  <2>1. CASE BootShell \/ ShowFirstTerminal \/ Trap \/ SwitchTerminal \/ RestartShell
    BY <2>1 DEF Next
  <2>2. CASE ExecuteTyped
    BY <2>2 DEF ExecuteTyped, Next
  <2>3. CASE ReadLine \/ GetArgs \/ Vidmap
    BY <2>3 DEF ReadLine, GetArgs, Vidmap, Next
  <2>4. CASE HaltToParent
    BY <2>4 DEF HaltToParent, Next
  <2>5. CASE KernelSteps
    BY <2>5 DEF KernelSteps, NoCommand, ClaimCleared, LoadNamed, Next, Kernel
  <2> QED BY <2>1, <2>2, <2>3, <2>4, <2>5 DEF ProgramsNext
<1> QED BY <1>1, <1>2, PTL DEF ProgramsSpec, Spec

\* Every program of the composition runs on its own image, kernel stack and PCB,
\* and programs are executed and halt as calls and returns do.
THEOREM ProgramsKeepStack ==
  OrdinaryUse /\ ProgramsSpec =>
    []OwnAddressSpace /\ []ActiveMatchesParent /\ HaltReturnsToParent /\ ImplementsStack
BY ProgramsTakeSteps, OwnAddressSpaces, ActiveMatchesParents, HaltsReturn, StackImplemented, PTL
-----------------------------------------------------------------------------
(* Names and arguments of a typed line. *)

\* The characters before the first n of a sequence.
LEMMA Prefixes ==
  ASSUME NEW S, NEW s \in Seq(S), NEW n \in 0 .. Len(s)
  PROVE  /\ SubSeq(s, 1, n) \in Seq(S) /\ Len(SubSeq(s, 1, n)) = n
         /\ \A i \in 1 .. n : SubSeq(s, 1, n)[i] = s[i]
<1>1. n \in Int /\ 1 \in Int /\ \A i \in 1 .. n : s[i] \in S
  OBVIOUS
<1>2. /\ SubSeq(s, 1, n) \in Seq(S)
      /\ Len(SubSeq(s, 1, n)) = IF 1 <= n THEN n - 1 + 1 ELSE 0
      /\ \A i \in 1 .. n - 1 + 1 : SubSeq(s, 1, n)[i] = s[1 + i - 1]
  BY <1>1, SubSeqProperties
<1>3. \A i \in 1 .. n : i \in 1 .. n - 1 + 1 /\ 1 + i - 1 = i
  BY <1>1
<1> QED BY <1>1, <1>2, <1>3

\* A string in an array: its characters, and Nul behind them.
LEMMA ArrayFacts ==
  ASSUME NEW chars \in Seq(Characters), NEW size \in Nat
  PROVE  /\ InArray(chars, size) \in Seq(Nat) /\ Len(InArray(chars, size)) = size
         /\ DOMAIN InArray(chars, size) = 1 .. size
         /\ \A i \in 1 .. size : InArray(chars, size)[i] = IF i <= Len(chars) THEN chars[i] ELSE Nul
         /\ \A i \in 1 .. size : i <= Len(chars) => InArray(chars, size)[i] \in Characters
<1>1. PICK a : a = InArray(chars, size) /\ a = [i \in 1 .. size |-> IF i <= Len(chars) THEN chars[i] ELSE Nul]
  BY DEF InArray
<1>2. Len(chars) \in Nat /\ \A i \in 1 .. Len(chars) : chars[i] \in Characters
  OBVIOUS
<1>3. \A i \in 1 .. size : (IF i <= Len(chars) THEN chars[i] ELSE Nul) \in Nat
  BY <1>2 DEF Characters, Nul
<1>4. a \in [1 .. size -> Nat]
  BY <1>1, <1>3
<1>5. a \in Seq(Nat) /\ Len(a) = size
  BY <1>4
<1> QED BY <1>1, <1>2, <1>5

\* What tells the names of files apart in read_dentry_by_name.
LEMMA NamesCompared ==
  ASSUME NEW w \in Seq(Characters), NEW f \in Seq(Characters), NEW M \in Nat, M > 1,
         Len(w) < M, Len(f) < M
  PROVE  strncmp(InArray(w, M), InArray(f, M), M - 1) = 0 <=> w = f
<1>1. PICK a, b : a = InArray(w, M) /\ b = InArray(f, M)
  OBVIOUS
<1>2. /\ Len(w) \in Nat /\ Len(f) \in Nat
      /\ \A i \in 1 .. M : /\ a[i] \in Nat /\ b[i] \in Nat
                           /\ i <= Len(w) => a[i] = w[i] /\ a[i] # Nul
                           /\ i <= Len(f) => b[i] = f[i] /\ b[i] # Nul
                           /\ i > Len(w) => a[i] = Nul
                           /\ i > Len(f) => b[i] = Nul
  <2>1. /\ \A i \in 1 .. M : a[i] = IF i <= Len(w) THEN w[i] ELSE Nul
        /\ \A i \in 1 .. M : b[i] = IF i <= Len(f) THEN f[i] ELSE Nul
    BY <1>1, ArrayFacts
  <2>2. Len(w) \in Nat /\ \A i \in 1 .. Len(w) : w[i] \in Nat /\ w[i] # Nul
    BY DEF Characters
  <2>3. Len(f) \in Nat /\ \A i \in 1 .. Len(f) : f[i] \in Nat /\ f[i] # Nul
    BY DEF Characters
  <2> QED BY <2>1, <2>2, <2>3 DEF Nul
<1>3. PICK stops : stops = {i \in 1 .. M - 1 : a[i] # b[i] \/ a[i] = Nul}
  OBVIOUS
<1>4. strncmp(a, b, M - 1) = IF stops = {} THEN 0 ELSE a[Min(stops)] - b[Min(stops)]
  BY <1>3 DEF strncmp
<1>5. stops # {} => Min(stops) \in stops /\ \A y \in stops : Min(stops) <= y
  <2>1. stops \in SUBSET Nat
    BY <1>3
  <2> QED BY <2>1, MinFacts
<1>6. ASSUME w = f PROVE strncmp(a, b, M - 1) = 0
  <2>1. a = b
    BY <1>1, <1>6
  <2> QED BY <1>2, <1>3, <1>4, <1>5, <2>1
<1>7. ASSUME strncmp(a, b, M - 1) = 0 PROVE w = f
  <2>1. CASE stops = {}
    <3>1. \A i \in 1 .. M - 1 : a[i] = b[i] /\ a[i] # Nul
      BY <1>3, <2>1
    <3>2. M - 1 \in 1 .. M /\ M - 1 \in 1 .. M - 1
      OBVIOUS
    <3>3. Len(w) = M - 1 /\ Len(f) = M - 1
      <4>1. a[M - 1] # Nul /\ b[M - 1] # Nul
        BY <3>1, <3>2
      <4>2. M - 1 <= Len(w) /\ M - 1 <= Len(f)
        BY <1>2, <3>2, <4>1
      <4> QED BY <1>2, <4>2, SMTT(30)
    <3>4. \A i \in 1 .. Len(w) : w[i] = f[i]
      BY <1>2, <3>1, <3>3
    <3> QED BY <3>3, <3>4, SeqEqual
  <2>2. CASE stops # {}
    <3>1. PICK m \in 1 .. M - 1 : m = Min(stops) /\ m \in stops /\ \A y \in stops : m <= y
      BY <1>3, <1>5, <2>2
    <3>2. a[m] = b[m] /\ a[m] = Nul
      BY <1>2, <1>3, <1>4, <1>7, <2>2, <3>1
    <3>3. m > Len(w) /\ m > Len(f)
      <4>1. m \in 1 .. M /\ b[m] = Nul
        BY <3>1, <3>2
      <4> QED BY <1>2, <3>2, <4>1
    <3>4. ASSUME NEW i \in 1 .. M - 1, i < m
          PROVE  a[i] = b[i] /\ i <= Len(w) /\ i <= Len(f)
      <4>1. i \notin stops
        BY <3>1, <3>4
      <4> QED BY <1>2, <1>3, <4>1
    <3>5. Len(w) = m - 1 /\ Len(f) = m - 1
      <4>1. CASE m = 1
        BY <1>2, <3>3, <4>1
      <4>2. CASE m # 1
        <5>1. m - 1 \in 1 .. M - 1 /\ m - 1 < m
          BY <4>2
        <5> QED BY <1>2, <3>3, <3>4, <5>1
      <4> QED BY <4>1, <4>2
    <3>6. \A i \in 1 .. Len(w) : w[i] = f[i]
      BY <1>2, <3>4, <3>5
    <3> QED BY <3>5, <3>6, SeqEqual
  <2> QED BY <2>1, <2>2
<1> QED BY <1>1, <1>6, <1>7

LEMMA FirstWordFacts ==
  ASSUME NEW line \in Seq(Characters)
  PROVE  LET w == FirstWord(line)
         IN  /\ w \in Seq(Characters) /\ Len(w) <= Len(line)
             /\ \A i \in 1 .. Len(w) : w[i] = line[i] /\ line[i] # Blank
             /\ Len(w) < Len(line) => line[Len(w) + 1] = Blank
<1>1. Words(line) \in SUBSET Nat /\ Words(line) \subseteq 1 .. Len(line) /\ Len(line) \in Nat
  BY DEF Words
<1>2. CASE Words(line) = {}
  <2>1. FirstWord(line) = line
    BY <1>2 DEF FirstWord
  <2>2. \A i \in 1 .. Len(line) : line[i] # Blank
    BY <1>2 DEF Words
  <2> QED BY <1>1, <2>1, <2>2
<1>3. CASE Words(line) # {}
  <2>1. PICK m \in 1 .. Len(line) : /\ m = Min(Words(line)) /\ line[m] = Blank
                                   /\ \A i \in Words(line) : m <= i
    BY <1>1, <1>3, MinFacts DEF Words
  <2>2. FirstWord(line) = SubSeq(line, 1, m - 1) /\ m - 1 \in 0 .. Len(line)
    BY <1>1, <1>3, <2>1 DEF FirstWord
  <2>3. /\ FirstWord(line) \in Seq(Characters) /\ Len(FirstWord(line)) = m - 1
        /\ \A i \in 1 .. m - 1 : FirstWord(line)[i] = line[i]
    BY <2>2, Prefixes
  <2>4. \A i \in 1 .. m - 1 : line[i] # Blank
    BY <1>1, <2>1 DEF Words
  <2> QED BY <1>1, <2>1, <2>3, <2>4
<1> QED BY <1>2, <1>3

\* The name that sys_execute looks for in a buffer with a line ends where its first
\* word does, whatever follows the line.
LEMMA NameEndOfLine ==
  ASSUME NEW line \in Seq(Characters), NEW cmd \in Seq(Nat), Len(cmd) > Len(line),
         \A i \in 1 .. Len(line) : cmd[i] = line[i], cmd[Len(line) + 1] = Nul,
         MAX_COMMAND_LEN \in Nat, Len(FirstWord(line)) < MAX_COMMAND_LEN
  PROVE  NameEnd(cmd) = Len(FirstWord(line)) + 1
<1>1. PICK w \in Seq(Characters) :
        /\ w = FirstWord(line) /\ Len(w) <= Len(line)
        /\ \A i \in 1 .. Len(w) : w[i] = line[i] /\ line[i] # Blank
        /\ Len(w) < Len(line) => line[Len(w) + 1] = Blank
  BY FirstWordFacts
<1>2. /\ Len(line) \in Nat /\ Len(cmd) \in Nat /\ Len(w) \in Nat /\ DOMAIN cmd = 1 .. Len(cmd)
      /\ \A i \in 1 .. Len(line) : line[i] # Nul
  BY DEF Characters
<1>3. PICK ends : ends = {i \in DOMAIN cmd : cmd[i] \in {Blank, Nul}} \cup {MAX_COMMAND_LEN}
  OBVIOUS
<1>4. ends \in SUBSET Nat /\ Len(w) + 1 \in ends
  <2>1. Len(w) + 1 \in DOMAIN cmd
    BY <1>1, <1>2
  <2>2. cmd[Len(w) + 1] \in {Blank, Nul}
    <3>1. CASE Len(w) < Len(line)
      <4>1. Len(w) + 1 \in 1 .. Len(line) /\ line[Len(w) + 1] = Blank
        BY <1>1, <1>2, <3>1
      <4> QED BY <4>1
    <3>2. CASE Len(w) = Len(line)
      BY <3>2
    <3> QED BY <1>1, <1>2, <3>1, <3>2
  <2>3. ends \in SUBSET Nat
    BY <1>2, <1>3
  <2> QED BY <1>3, <2>1, <2>2, <2>3
<1>5. \A i \in ends : i >= Len(w) + 1
  <2> SUFFICES ASSUME NEW i \in ends, i < Len(w) + 1 PROVE FALSE
    BY <1>2, <1>4
  <2>1. i \in Nat /\ i <= Len(w) /\ i # MAX_COMMAND_LEN
    BY <1>1, <1>2, <1>4
  <2>2. i \in 1 .. Len(cmd) /\ cmd[i] \in {Blank, Nul}
    BY <1>2, <1>3, <2>1
  <2>3. i \in 1 .. Len(w) /\ i \in 1 .. Len(line)
    BY <1>1, <1>2, <2>1, <2>2
  <2>4. cmd[i] = line[i] /\ line[i] # Blank /\ line[i] # Nul
    BY <1>1, <1>2, <2>3
  <2> QED BY <2>2, <2>4
<1>6. NameEnd(cmd) = Len(w) + 1
  <2>1. PICK m \in ends : m = Min(ends) /\ \A i \in ends : m <= i
    BY <1>4, MinFacts
  <2>2. m = Len(w) + 1
    BY <1>2, <1>4, <1>5, <2>1
  <2> QED BY <1>3, <2>1, <2>2 DEF NameEnd
<1> QED BY <1>1, <1>6

LEMMA NameOfLine ==
  ASSUME NEW line \in Seq(Characters), NEW cmd \in Seq(Nat), Len(cmd) > Len(line),
         \A i \in 1 .. Len(line) : cmd[i] = line[i], cmd[Len(line) + 1] = Nul,
         MAX_COMMAND_LEN \in Nat, Len(FirstWord(line)) < MAX_COMMAND_LEN
  PROVE  ProcessName(cmd) = InArray(FirstWord(line), MAX_COMMAND_LEN)
<1>1. PICK w \in Seq(Characters) :
        w = FirstWord(line) /\ Len(w) <= Len(line) /\ \A i \in 1 .. Len(w) : w[i] = line[i]
  BY FirstWordFacts
<1>2. Len(line) \in Nat /\ Len(cmd) \in Nat /\ Len(w) \in Nat
  OBVIOUS
<1>3. NameEnd(cmd) = Len(w) + 1
  BY <1>1, NameEndOfLine
<1>4. SubSeq(cmd, 1, Len(w)) = w
  <2>1. Len(w) \in 0 .. Len(cmd)
    BY <1>1, <1>2
  <2>2. /\ Len(SubSeq(cmd, 1, Len(w))) = Len(w) /\ SubSeq(cmd, 1, Len(w)) \in Seq(Nat)
        /\ \A i \in 1 .. Len(w) : SubSeq(cmd, 1, Len(w))[i] = w[i]
    BY <1>1, <1>2, <2>1, Prefixes
  <2>3. w \in Seq(Nat)
    BY SeqMonotonic DEF Characters
  <2> QED BY <2>2, <2>3, SeqEqual
<1>5. (Len(w) + 1) - 1 = Len(w)
  BY <1>2
<1> QED BY <1>1, <1>3, <1>4, <1>5 DEF ProcessName

LEMMA FoundByName ==
  ASSUME NEW word \in Directory
  PROVE  Found(InArray(word, MAX_COMMAND_LEN)) = {word}
BY NamesCompared, ProgramsAssumption DEF Found

\* What follows the first word of a line and the blanks behind it.
LEMMA RestFacts ==
  ASSUME NEW line \in Seq(Characters)
  PROVE  LET starts == {n \in 1 .. Len(line) : line[n] # Blank /\ n > Len(FirstWord(line)) + 1}
         IN  Rest(line) = IF starts = {} THEN <<>> ELSE SubSeq(line, Min(starts), Len(line))
<1> DEFINE starts == {n \in 1 .. Len(line) : line[n] # Blank /\ n > Len(FirstWord(line)) + 1}
           behind == {n \in 1 .. Len(line) : line[n] # Blank /\ \E b \in Words(line) : b < n}
<1>1. PICK w \in Seq(Characters) :
        /\ w = FirstWord(line) /\ Len(w) <= Len(line)
        /\ \A i \in 1 .. Len(w) : w[i] = line[i] /\ line[i] # Blank
        /\ Len(w) < Len(line) => line[Len(w) + 1] = Blank
  BY FirstWordFacts
<1>2. Len(w) \in Nat /\ Len(line) \in Nat
  OBVIOUS
<1>3. ASSUME NEW n \in 1 .. Len(line), line[n] # Blank
      PROVE  n > Len(w) + 1 <=> \E b \in Words(line) : b < n
  <2>1. ASSUME n > Len(w) + 1 PROVE \E b \in Words(line) : b < n
    <3>1. Len(w) + 1 \in 1 .. Len(line) /\ line[Len(w) + 1] = Blank
      BY <1>1, <1>2, <2>1
    <3>2. Len(w) + 1 \in Words(line)
      BY <3>1 DEF Words
    <3> QED BY <2>1, <3>2
  <2>2. ASSUME NEW b \in Words(line), b < n PROVE n > Len(w) + 1
    <3>1. b \in 1 .. Len(line) /\ line[b] = Blank
      BY DEF Words
    <3>2. ~(b <= Len(w))
      BY <1>1, <1>2, <3>1
    <3> QED BY <1>2, <2>2, <3>1, <3>2
  <2> QED BY <2>1, <2>2
<1>4. starts = behind
  BY <1>1, <1>3
<1> QED BY <1>4 DEF Rest

\* What sys_execute copies out of a buffer with a line is what follows the word.
LEMMA ArgumentsOfLine ==
  ASSUME NEW line \in Seq(Characters), NEW size \in Nat, Len(line) + 2 <= size,
         MAX_COMMAND_LEN \in Nat, Len(FirstWord(line)) < MAX_COMMAND_LEN
  PROVE  Arguments(InArray(line, size)) = Rest(line)
<1> DEFINE w == FirstWord(line)
           L == Len(line)
<1>1. PICK cmd \in Seq(Nat) :
        /\ cmd = InArray(line, size) /\ Len(cmd) = size /\ DOMAIN cmd = 1 .. size
        /\ \A i \in 1 .. size : cmd[i] = IF i <= L THEN line[i] ELSE Nul
  BY ArrayFacts
<1>2. L \in Nat /\ Len(w) \in Nat /\ Len(w) <= L
  BY FirstWordFacts
<1>3. \A i \in 1 .. L : line[i] \in Nat /\ line[i] # Nul
  BY DEF Characters
<1>4. NameEnd(cmd) = Len(w) + 1
  BY <1>1, <1>2, NameEndOfLine, SMTT(20) DEF Nul
<1> DEFINE starts == {i \in 1 .. L : line[i] # Blank /\ i > Len(w) + 1}
           after == {i \in DOMAIN cmd : i > NameEnd(cmd) /\ cmd[i] # Blank}
           start == Min(after)
           ends == {i \in DOMAIN cmd : i >= start /\ cmd[i] = Nul}
<1>5. Arguments(cmd) = SubSeq(cmd, start, Min(ends) - 1)
  BY DEF Arguments
<1> HIDE DEF w, L
<1>6. after \in SUBSET Nat /\ after # {}
  <2>1. L + 2 \in DOMAIN cmd /\ L + 2 > NameEnd(cmd) /\ cmd[L + 2] # Blank
    BY <1>1, <1>2, <1>4 DEF Blank, Nul, L
  <2> QED BY <1>1, <2>1
<1>7. start \in after /\ \A i \in after : start <= i
  <2> HIDE DEF after
  <2> QED BY <1>6, MinFacts
<1>8. \A i \in 1 .. size : i \in after <=> i \in starts \/ (i > L /\ i > Len(w) + 1)
  BY <1>1, <1>2, <1>4 DEF Blank, Nul
<1>9. \A i \in ends : i > L
  <2>1. ASSUME NEW i \in 1 .. size, cmd[i] = Nul PROVE i > L
    <3>1. i <= L => i \in 1 .. L /\ cmd[i] = line[i]
      BY <1>1, <1>2 DEF L
    <3> QED BY <1>2, <1>3, <2>1, <3>1 DEF L
  <2> QED BY <1>1, <2>1
<1>10. ends \in SUBSET Nat /\ start \in 1 .. size
  BY <1>1, <1>7
<1>11. CASE starts = {}
  <2>1. start > L /\ cmd[start] = Nul
    BY <1>1, <1>2, <1>7, <1>8, <1>10, <1>11
  <2>2. start \in ends /\ \A i \in ends : start <= i
    BY <1>1, <1>10, <2>1
  <2>3. Min(ends) = start
    <3> HIDE DEF ends, start
    <3>1. PICK m \in ends : m = Min(ends) /\ \A i \in ends : m <= i
      BY <1>10, <2>2, MinFacts
    <3> QED BY <1>10, <2>2, <3>1
  <2>4. SubSeq(cmd, start, start - 1) = <<>>
    <3> HIDE DEF start
    <3>1. start \in Int /\ start - 1 \in Int /\ start - 1 < start
      BY <1>10
    <3> QED BY <3>1, SubSeqEmpty
  <2> QED BY <1>1, <1>5, <1>11, <2>3, <2>4, RestFacts DEF w, L
<1>12. CASE starts # {}
  <2>1. starts \in SUBSET Nat
    BY <1>2
  <2>2. start \in starts /\ start <= L /\ \A i \in starts : start <= i
    <3>1. PICK s \in starts : TRUE
      BY <1>12
    <3>2. s \in after /\ s <= L /\ s \in 1 .. size
      BY <1>1, <1>2, <1>8 DEF L
    <3>3. start <= L
      <4> HIDE DEF start, after
      <4>1. start <= s
        BY <1>7, <3>2
      <4> QED BY <1>2, <1>10, <3>2, <4>1 DEF L
    <3>4. \A i \in starts : i \in after
      BY <1>1, <1>2, <1>8 DEF L
    <3> QED BY <1>2, <1>7, <1>8, <1>10, <3>3, <3>4, SMTT(30)
  <2>3. Min(starts) = start
    <3> HIDE DEF starts, start
    <3>1. PICK m \in starts : m = Min(starts) /\ \A i \in starts : m <= i
      BY <1>12, <2>1, MinFacts
    <3> QED BY <1>10, <2>1, <2>2, <3>1
  <2>4. Min(ends) = L + 1
    <3>1. L + 1 \in ends
      BY <1>1, <1>2, <1>10, <2>2 DEF L
    <3> HIDE DEF ends, start
    <3>2. PICK m \in ends : m = Min(ends) /\ \A i \in ends : m <= i
      BY <1>10, <3>1, MinFacts
    <3> QED BY <1>2, <1>9, <1>10, <3>1, <3>2
  <2>5. SubSeq(cmd, start, L) = SubSeq(line, start, L)
    <3> HIDE DEF start
    <3>1. \A i \in start .. L : cmd[i] = line[i] /\ line[i] \in Nat
      <4> SUFFICES ASSUME NEW i \in start .. L PROVE cmd[i] = line[i] /\ line[i] \in Nat
        OBVIOUS
      <4>1. i \in 1 .. L /\ i \in 1 .. size /\ i <= L
        BY <1>1, <1>2, <1>10 DEF L
      <4> QED BY <1>1, <1>3, <4>1 DEF L
    <3>2. start \in Int /\ L \in Int
      BY <1>2, <1>10
    <3>3. /\ SubSeq(cmd, start, L) \in Seq(Nat) /\ SubSeq(line, start, L) \in Seq(Nat)
          /\ Len(SubSeq(cmd, start, L)) = Len(SubSeq(line, start, L))
          /\ Len(SubSeq(cmd, start, L)) = IF start <= L THEN L - start + 1 ELSE 0
          /\ \A i \in 1 .. L - start + 1 : /\ SubSeq(cmd, start, L)[i] = cmd[start + i - 1]
                                           /\ SubSeq(line, start, L)[i] = line[start + i - 1]
      BY <3>1, <3>2, SubSeqProperties
    <3>4. \A i \in 1 .. Len(SubSeq(cmd, start, L)) :
            SubSeq(cmd, start, L)[i] = SubSeq(line, start, L)[i]
      BY <3>1, <3>2, <3>3
    <3> QED BY <3>3, <3>4, SeqEqual
  <2>6. (L + 1) - 1 = L
    BY <1>2
  <2> QED BY <1>1, <1>5, <1>12, <2>3, <2>4, <2>5, <2>6, RestFacts DEF w, L
<1> QED BY <1>11, <1>12
-----------------------------------------------------------------------------
\* The state of Programs is functions of the slots; lines and commands are what
\* they can be.
MemoryInv ==
  /\ memory = [n \in Slots |-> memory[n]] /\ program = [n \in Slots |-> program[n]]
  /\ arguments = [n \in Slots |-> arguments[n]] /\ arg_position = [n \in Slots |-> arg_position[n]]
  /\ typed = [n \in Slots |-> typed[n]] /\ command = [n \in Slots |-> command[n]]
  /\ taken = [n \in Slots |-> taken[n]]
  /\ \A n \in Slots : command[n] \in Lines \cup {ShellName, <<>>}
  /\ \A n \in Slots : typed[n] # <<>> =>
       typed[n] \in Lines /\ memory[n] = InArray(typed[n], BufferSize)

\* The image of a slot is that of the command that started the slot's program.
ImageInv == \A n \in Slots : program[n] = FirstWord(command[n])

\* No translation is left from another image.
TlbInv == ctx # None => tlb = page

\* Who has called execute has read a line, or has called it with nothing.
CallInv ==
  Resumable /\ mode # "user" =>
    typed[ctx] # <<>> \/ (mode = "check" /\ memory[ctx][1] = Nul)

\* Every program above the base shells has its line's arguments in its PCB and has
\* been given those before arg_position; a new PCB has none.
ArgumentsInv ==
  /\ \A n \in NumTerminals .. Deepest :
       /\ arguments[n] = Rest(command[n])
       /\ arg_position[n] \in 0 .. Len(arguments[n])
       /\ taken[n] = SubSeq(arguments[n], 1, arg_position[n])
  /\ mode = "claimed" => arguments[process_number] = <<>> /\ arg_position[process_number] = 0
  /\ mode = "created" => arguments[current_pcb] = <<>> /\ arg_position[current_pcb] = 0

PInv == MemoryInv /\ ImageInv /\ TlbInv /\ CallInv /\ ArgumentsInv
-----------------------------------------------------------------------------
LEMMA LinesAreCharacters ==
  ASSUME NEW line \in Lines \cup {ShellName, <<>>}
  PROVE  line \in Seq(Characters)
<1>1. ShellName \in Seq(Characters) /\ \A l \in Lines : l \in Seq(Characters)
  BY ProgramsAssumption
<1>2. <<>> \in Seq(Characters)
  OBVIOUS
<1> QED BY <1>1, <1>2

LEMMA RestIsCharacters ==
  ASSUME NEW line \in Seq(Characters)
  PROVE  Rest(line) \in Seq(Characters)
<1> DEFINE starts == {n \in 1 .. Len(line) : line[n] # Blank /\ n > Len(FirstWord(line)) + 1}
<1>1. CASE starts = {}
  <2>1. Rest(line) = <<>>
    BY <1>1, RestFacts
  <2>2. <<>> \in Seq(Characters)
    OBVIOUS
  <2> QED BY <2>1, <2>2
<1>2. CASE starts # {}
  <2>1. starts \in SUBSET Nat
    OBVIOUS
  <2>2. Min(starts) \in starts
    <3> HIDE DEF starts
    <3> QED BY <1>2, <2>1, MinFacts
  <2>3. PICK m \in 1 .. Len(line) : m = Min(starts)
    BY <2>2
  <2>4. m \in Int /\ Len(line) \in Int /\ \A i \in m .. Len(line) : line[i] \in Characters
    OBVIOUS
  <2>5. SubSeq(line, m, Len(line)) \in Seq(Characters)
    BY <2>4, SubSeqProperties
  <2> QED BY <1>2, <2>3, <2>5, RestFacts
<1> QED BY <1>1, <1>2

LEMMA InitPInv == ProgramsInit => PInv
<1> SUFFICES ASSUME ProgramsInit PROVE PInv
  OBVIOUS
<1>1. MemoryInv
  BY DEF ProgramsInit, MemoryInv
<1>2. FirstWord(<<>>) = <<>>
  <2>1. Words(<<>>) = {}
    BY DEF Words
  <2> QED BY <2>1 DEF FirstWord
<1>3. ImageInv
  BY <1>2 DEF ProgramsInit, ImageInv
<1>4. TlbInv /\ CallInv
  BY DEF ProgramsInit, Init, hardware, TlbInv, CallInv, Resumable, Loading
<1>5. ArgumentsInv
  <2>1. mode = "hlt" /\ process_number = 0
    BY DEF ProgramsInit, Init
  <2>2. NumTerminals .. Deepest = {}
    BY <2>1, ConstantsAssumption DEF Deepest
  <2> QED BY <2>1, <2>2 DEF ArgumentsInv
<1> QED BY <1>1, <1>3, <1>4, <1>5 DEF PInv

\* What the steps without effect on the programs preserve: those that neither create
\* nor remove a process.
LEMMA SeenNothing ==
  ASSUME IInv, OInv, IInv', OInv', PInv, NothingSeen,
         BootShell \/ ShowFirstTerminal \/ Trap \/ SwitchTerminal \/ RestartShell
           \/ FinishPcb \/ ExecuteRefused \/ ExecuteNothing
  PROVE  PInv'
<1> USE DEF IInv, OInv, PInv
<1>1. UNCHANGED <<memory, program, arguments, arg_position, tlb, typed, command, taken>>
  BY DEF NothingSeen, user, history
<1>2. UNCHANGED <<page, ctx>>
  BY DEF BootShell, ShowFirstTerminal, Trap, SwitchTerminal, RestartShell, FinishPcb,
         ExecuteRefused, ExecuteNothing, hardware
<1>3. MemoryInv' /\ ImageInv' /\ TlbInv'
  BY <1>1, <1>2 DEF MemoryInv, ImageInv, TlbInv
<1>4. process_number \in 0 .. MaxProcesses
  BY DEF TypeOK
<1>5. CASE BootShell \/ RestartShell
  <2>1. mode' = "check" /\ caller' # "user"
    BY <1>5 DEF BootShell, RestartShell
  <2>2. process_number' < NumTerminals
    BY <2>1 DEF ControlInv
  <2> QED BY <1>1, <1>2, <1>3, <2>1, <2>2, ConstantsAssumption DEF CallInv, Resumable, ArgumentsInv, Deepest, TypeOK
<1>6. CASE ShowFirstTerminal \/ Trap \/ SwitchTerminal
  <2>1. UNCHANGED <<mode, caller, process_number, current_pcb>>
    BY <1>6 DEF ShowFirstTerminal, Trap, SwitchTerminal
  <2> QED BY <1>1, <1>2, <1>3, <2>1 DEF CallInv, Resumable, ArgumentsInv, Deepest
<1>7. CASE FinishPcb
  <2>1. /\ mode = "claimed" /\ mode' = "created" /\ caller' = caller
        /\ process_number' = process_number + 1 /\ current_pcb' = process_number
    BY <1>7 DEF FinishPcb
  <2> QED BY <1>1, <1>2, <1>3, <1>4, <2>1 DEF CallInv, Resumable, Loading, ArgumentsInv, Deepest
<1>8. CASE ExecuteRefused \/ ExecuteNothing
  <2>1. mode = "check" /\ mode' = "user" /\ UNCHANGED <<process_number, current_pcb>>
    BY <1>8 DEF ExecuteRefused, ExecuteNothing
  <2> QED BY <1>1, <1>2, <1>3, <2>1 DEF CallInv, ArgumentsInv, Deepest
<1> QED BY <1>5, <1>6, <1>7, <1>8

LEMMA ExecuteTypedStep == ASSUME IInv, OInv, PInv, ExecuteTyped PROVE PInv'
<1> USE DEF IInv, OInv, PInv
<1>1. UNCHANGED <<memory, program, arguments, arg_position, tlb, typed, command, taken>>
  BY DEF ExecuteTyped, NothingSeen, user, history
<1>2. /\ UNCHANGED <<page, ctx, process_number, current_pcb>>
      /\ mode = "user" /\ mode' = "check"
  BY DEF ExecuteTyped, ExecuteCall, hardware
<1>3. tlb = ctx
  BY <1>2 DEF ChainInv, Resumable, TlbInv, TypeOK, Slots, None
<1>4. CallInv'
  BY <1>1, <1>2, <1>3 DEF ExecuteTyped, CallInv
<1> QED BY <1>1, <1>2, <1>4 DEF MemoryInv, ImageInv, TlbInv, ArgumentsInv, Deepest

\* While a program runs it is the deepest process, and works on its own slot.
LEMMA RunningSlot ==
  ASSUME IInv, OInv, PInv, mode = "user"
  PROVE  /\ tlb = Deepest /\ current_pcb = Deepest /\ ctx = Deepest
         /\ Deepest \in Slots /\ Deepest = process_number - 1
<1> USE DEF IInv, OInv, PInv
<1>1. ctx = Deepest /\ current_pcb = Deepest /\ page = Deepest
  BY DEF ChainInv, Resumable
<1>2. Deepest \in Slots
  BY <1>1 DEF TypeOK
<1>3. ctx # None
  BY <1>1, <1>2, ConstantsAssumption DEF Slots, None
<1> QED BY <1>1, <1>2, <1>3 DEF TlbInv, Deepest

LEMMA ReadLineStep == ASSUME IInv, OInv, PInv, ReadLine PROVE PInv'
<1> USE DEF IInv, OInv, PInv
<1>1. PICK line \in Lines :
        /\ memory' = [memory EXCEPT ![tlb] = Filled(@, line)]
        /\ typed' = [typed EXCEPT ![tlb] = line]
  BY DEF ReadLine
<1>2. /\ UNCHANGED <<program, arguments, arg_position, tlb, command, taken>>
      /\ UNCHANGED <<page, ctx, process_number, current_pcb, mode>> /\ mode = "user"
  BY DEF ReadLine, Trap, hardware
<1>3. tlb \in Slots
  BY <1>2, RunningSlot
<1>4. MemoryInv'
  BY <1>1, <1>2, <1>3 DEF MemoryInv, Filled
<1> QED BY <1>2, <1>4 DEF ImageInv, TlbInv, CallInv, ArgumentsInv, Deepest

LEMMA VidmapStep == ASSUME PInv, Vidmap PROVE PInv'
<1>1. /\ UNCHANGED <<memory, program, arguments, arg_position, tlb, typed, command, taken>>
      /\ UNCHANGED <<page, ctx, process_number, current_pcb, mode, caller>>
  BY DEF Vidmap, Trap, hardware
<1> QED BY <1>1 DEF PInv, MemoryInv, ImageInv, TlbInv, CallInv, Resumable, ArgumentsInv, Deepest

\* A piece of a sequence behind its first n elements.
LEMMA Pieces ==
  ASSUME NEW S, NEW s \in Seq(S), NEW n \in 0 .. Len(s), NEW e \in n .. Len(s)
  PROVE  /\ SubSeq(s, 1, n) \o SubSeq(s, n + 1, e) = SubSeq(s, 1, e)
         /\ Len(SubSeq(s, n + 1, e)) = e - n
<1>1. Len(s) \in Nat /\ n \in Int /\ e \in Int /\ n + 1 \in Int
  OBVIOUS
<1>2. \A i \in n + 1 .. e : s[i] \in S
  BY <1>1
<1>3. /\ SubSeq(s, n + 1, e) \in Seq(S)
      /\ Len(SubSeq(s, n + 1, e)) = IF n + 1 <= e THEN e - (n + 1) + 1 ELSE 0
      /\ \A i \in 1 .. e - (n + 1) + 1 : SubSeq(s, n + 1, e)[i] = s[n + 1 + i - 1]
  BY <1>1, <1>2, SubSeqProperties
<1>4. Len(SubSeq(s, n + 1, e)) = e - n
  BY <1>1, <1>3
<1>5. /\ SubSeq(s, 1, n) \in Seq(S) /\ Len(SubSeq(s, 1, n)) = n
      /\ \A i \in 1 .. n : SubSeq(s, 1, n)[i] = s[i]
  BY Prefixes
<1>6. /\ SubSeq(s, 1, e) \in Seq(S) /\ Len(SubSeq(s, 1, e)) = e
      /\ \A i \in 1 .. e : SubSeq(s, 1, e)[i] = s[i]
  <2>1. e \in 0 .. Len(s)
    BY <1>1
  <2> QED BY <2>1, Prefixes
<1> DEFINE cat == SubSeq(s, 1, n) \o SubSeq(s, n + 1, e)
<1>7. /\ cat \in Seq(S) /\ Len(cat) = n + (e - n)
      /\ \A i \in 1 .. n + (e - n) :
           cat[i] = IF i <= n THEN SubSeq(s, 1, n)[i] ELSE SubSeq(s, n + 1, e)[i - n]
  BY <1>3, <1>4, <1>5, ConcatProperties
<1> HIDE DEF cat
<1>8. ASSUME NEW i \in 1 .. e PROVE cat[i] = s[i]
  <2>1. CASE i <= n
    BY <1>1, <1>5, <1>7, <2>1
  <2>2. CASE i > n
    <3>1. i - n \in 1 .. e - (n + 1) + 1 /\ n + 1 + (i - n) - 1 = i
      BY <1>1, <2>2
    <3>2. SubSeq(s, n + 1, e)[i - n] = s[i]
      BY <1>3, <3>1
    <3> QED BY <1>1, <1>7, <2>2, <3>2
  <2> QED BY <1>1, <2>1, <2>2
<1>9. cat = SubSeq(s, 1, e)
  <2>1. Len(cat) = Len(SubSeq(s, 1, e)) /\ \A i \in 1 .. Len(cat) : cat[i] = SubSeq(s, 1, e)[i]
    BY <1>1, <1>6, <1>7, <1>8
  <2> QED BY <1>6, <1>7, <2>1, SeqEqual
<1> QED BY <1>4, <1>9 DEF cat

LEMMA GetArgsStep == ASSUME IInv, OInv, PInv, GetArgs PROVE PInv'
<1> USE DEF IInv, OInv, PInv
<1>1. /\ UNCHANGED <<memory, program, arguments, tlb, typed, command>>
      /\ UNCHANGED <<page, ctx, process_number, current_pcb, mode>> /\ mode = "user"
  BY DEF GetArgs, Trap, hardware
<1>2. PICK n \in Slots : n = Deepest /\ tlb = n /\ current_pcb = n /\ n = process_number - 1
  BY <1>1, RunningSlot
<1> DEFINE args == arguments[n]
           at == arg_position[n]
<1>3. PICK nbytes \in ArgReads :
        LET piece == SubSeq(args, at + 1, Min({at + nbytes, Len(args)}))
        IN  /\ arg_position' = [arg_position EXCEPT ![n] = at + Len(piece)]
            /\ taken' = [taken EXCEPT ![n] = taken[n] \o piece]
  BY <1>1, <1>2 DEF GetArgs
<1>4. /\ arg_position' = [m \in Slots |-> arg_position'[m]] /\ taken' = [m \in Slots |-> taken'[m]]
      /\ \A m \in Slots : m # n => arg_position'[m] = arg_position[m] /\ taken'[m] = taken[m]
  BY <1>3 DEF MemoryInv
<1>5. MemoryInv' /\ ImageInv' /\ TlbInv' /\ CallInv'
  BY <1>1, <1>4 DEF MemoryInv, ImageInv, TlbInv, CallInv
<1>6. ASSUME n >= NumTerminals
      PROVE  arg_position'[n] \in 0 .. Len(args) /\ taken'[n] = SubSeq(args, 1, arg_position'[n])
  <2>1. args \in Seq(Characters) /\ at \in 0 .. Len(args) /\ taken[n] = SubSeq(args, 1, at)
    <3>1. n \in NumTerminals .. Deepest
      BY <1>2, <1>6, ConstantsAssumption DEF Slots
    <3>2. /\ args = Rest(command[n]) /\ at \in 0 .. Len(args)
          /\ taken[n] = SubSeq(args, 1, at)
      BY <3>1 DEF ArgumentsInv
    <3>3. command[n] \in Seq(Characters)
      BY LinesAreCharacters DEF MemoryInv
    <3> QED BY <3>2, <3>3, RestIsCharacters
  <2> HIDE DEF args, at
  <2>2. PICK e \in at .. Len(args) : e = Min({at + nbytes, Len(args)})
    <3>1. nbytes \in Nat /\ Len(args) \in Nat /\ at \in Nat
      BY <2>1, ProgramsAssumption
    <3>2. {at + nbytes, Len(args)} \in SUBSET Nat
      BY <3>1
    <3>3. PICK m \in {at + nbytes, Len(args)} : /\ m = Min({at + nbytes, Len(args)})
                                               /\ \A i \in {at + nbytes, Len(args)} : m <= i
      BY <3>2, MinFacts
    <3> QED BY <2>1, <3>1, <3>3
  <2>3. /\ SubSeq(args, 1, at) \o SubSeq(args, at + 1, e) = SubSeq(args, 1, e)
        /\ Len(SubSeq(args, at + 1, e)) = e - at
    BY <2>1, Pieces
  <2>4. at + (e - at) = e /\ e \in 0 .. Len(args)
    BY <2>1, <2>2
  <2>5. /\ arg_position' = [arg_position EXCEPT ![n] = at + Len(SubSeq(args, at + 1, e))]
        /\ taken' = [taken EXCEPT ![n] = taken[n] \o SubSeq(args, at + 1, e)]
    BY <1>3, <2>2
  <2>6. arg_position'[n] = e /\ taken'[n] = SubSeq(args, 1, e)
    BY <2>1, <2>3, <2>4, <2>5 DEF MemoryInv
  <2> QED BY <2>4, <2>6
<1>7. ArgumentsInv'
  <2>1. \A m \in NumTerminals .. Deepest : m \in Slots
    BY <1>1, <1>2, ConstantsAssumption DEF Slots
  <2> QED BY <1>1, <1>2, <1>4, <1>6, <2>1 DEF ArgumentsInv, Deepest
<1> QED BY <1>5, <1>7

LEMMA ClaimClearedStep == ASSUME IInv, OInv, PInv, ClaimCleared PROVE PInv'
<1> USE DEF IInv, OInv, PInv
<1>1. /\ mode = "check" /\ mode' = "claimed" /\ caller' = caller
      /\ UNCHANGED <<page, ctx, process_number, current_pcb>>
      /\ UNCHANGED <<memory, program, tlb, typed, command, taken>>
      /\ arguments' = [arguments EXCEPT ![process_number] = <<>>]
      /\ arg_position' = [arg_position EXCEPT ![process_number] = 0]
  BY DEF ClaimCleared, ClaimPcb, hardware, history
<1>2. process_number \in Slots
  BY ConstantsAssumption DEF ClaimCleared, ClaimPcb, RoomForProcess, TypeOK, Slots
<1>3. MemoryInv' /\ ImageInv' /\ TlbInv'
  BY <1>1, <1>2 DEF MemoryInv, ImageInv, TlbInv
<1>4. CallInv'
  <2> SUFFICES ASSUME caller = "user" PROVE typed[ctx] # <<>>
    BY <1>1 DEF CallInv, Resumable
  <2>1. Resumable
    BY <1>1 DEF Resumable, Loading
  <2>2. ctx = Deepest /\ page = Deepest /\ Deepest = process_number - 1
    BY <1>1, <2>1 DEF ChainInv, Deepest
  <2>3. ctx # None
    BY <2>2, ConstantsAssumption DEF TypeOK, Slots, None
  <2>4. tlb = ctx
    BY <2>2, <2>3 DEF TlbInv
  <2>5. memory[ctx][1] # Nul
    BY <2>4 DEF ClaimCleared, Command
  <2> QED BY <1>1, <2>1, <2>5 DEF CallInv
<1>5. ArgumentsInv'
  <2>1. Deepest = process_number - 1 /\ Deepest' = process_number - 1
    BY <1>1 DEF Deepest
  <2>2. \A m \in NumTerminals .. Deepest : m # process_number /\ m \in Slots
    BY <1>2, <2>1, ConstantsAssumption DEF Slots
  <2>3. \A m \in Slots : m # process_number =>
          arguments'[m] = arguments[m] /\ arg_position'[m] = arg_position[m]
    BY <1>1 DEF MemoryInv
  <2>4. arguments'[process_number] = <<>> /\ arg_position'[process_number] = 0
    BY <1>1, <1>2 DEF MemoryInv
  <2> QED BY <1>1, <2>1, <2>2, <2>3, <2>4 DEF ArgumentsInv
<1> QED BY <1>3, <1>4, <1>5

\* The image that is loaded is the one its line names.
LEMMA FileFound ==
  ASSUME NEW line \in Lines \cup {ShellName}, NEW cmd \in Seq(Nat), Len(cmd) > Len(line),
         \A i \in 1 .. Len(line) : cmd[i] = line[i], cmd[Len(line) + 1] = Nul
  PROVE  Found(ProcessName(cmd)) = {FirstWord(line)}
<1>1. line \in Seq(Characters)
  BY LinesAreCharacters
<1>2. FirstWord(line) \in Directory
  <2>1. CASE line \in Lines
    BY <2>1, ProgramsAssumption
  <2>2. CASE line = ShellName
    <3>1. FirstWord(line) = line
      BY <2>2, ProgramsAssumption DEF FirstWord
    <3> QED BY <2>2, <3>1, ProgramsAssumption
  <2> QED BY <2>1, <2>2
<1>3. MAX_COMMAND_LEN \in Nat /\ Len(FirstWord(line)) < MAX_COMMAND_LEN
  BY <1>2, ProgramsAssumption
<1>4. ProcessName(cmd) = InArray(FirstWord(line), MAX_COMMAND_LEN)
  BY <1>1, <1>3, NameOfLine
<1> QED BY <1>2, <1>4, FoundByName

\* What execute reads: the line its caller read, or the kernel's literal.
LEMMA CommandRead ==
  ASSUME IInv, OInv, PInv, mode = "created"
  PROVE  LET line == IF caller = "user" THEN typed[ctx] ELSE ShellName
         IN  /\ line \in Lines \cup {ShellName}
             /\ Found(ProcessName(Command)) = {FirstWord(line)}
             /\ caller = "user" => Command = InArray(line, BufferSize) /\ line \in Lines
<1> USE DEF IInv, OInv, PInv
<1>1. CASE caller = "user"
  <2>1. Resumable
    BY <1>1 DEF Resumable, Loading
  <2>2. ctx = Deepest /\ page = Deepest /\ Deepest = process_number - 2
    BY <2>1 DEF ChainInv, Deepest
  <2>3. ctx # None /\ ctx \in Slots
    BY <1>1, <2>2, ConstantsAssumption DEF ControlInv, TypeOK, Slots, None
  <2>4. PICK line \in Lines : line = typed[ctx] /\ memory[ctx] = InArray(line, BufferSize)
    BY <2>1, <2>3 DEF CallInv, MemoryInv
  <2>5. Command = InArray(line, BufferSize)
    BY <1>1, <2>2, <2>3, <2>4 DEF Command, TlbInv
  <2>6. line \in Seq(Characters) /\ BufferSize \in Nat /\ Len(line) + 2 <= BufferSize /\ Len(line) \in Nat
    BY ProgramsAssumption
  <2>7. PICK cmd \in Seq(Nat) :
          /\ cmd = Command /\ Len(cmd) = BufferSize
          /\ \A i \in 1 .. BufferSize : cmd[i] = IF i <= Len(line) THEN line[i] ELSE Nul
    BY <2>5, <2>6, ArrayFacts
  <2>8. /\ Len(cmd) > Len(line) /\ cmd[Len(line) + 1] = Nul
        /\ \A i \in 1 .. Len(line) : cmd[i] = line[i]
    BY <2>6, <2>7
  <2>9. Found(ProcessName(cmd)) = {FirstWord(line)}
    BY <2>8, FileFound
  <2> QED BY <1>1, <2>4, <2>5, <2>7, <2>9
<1>2. CASE caller # "user"
  <2> DEFINE chars == ShellName \o <<Nul>> \o AfterLiteral
             size == Len(ShellName) + Len(AfterLiteral) + 2
  <2>1. /\ ShellName \in Seq(Characters) /\ AfterLiteral \in Seq(Characters)
        /\ ShellName \in Seq(Nat) /\ AfterLiteral \in Seq(Nat) /\ <<Nul>> \in Seq(Nat)
        /\ Len(<<Nul>>) = 1
    <3>1. ShellName \in Seq(Characters) /\ AfterLiteral \in Seq(Characters)
      BY ProgramsAssumption
    <3>2. Characters \subseteq Nat
      BY DEF Characters
    <3>3. ShellName \in Seq(Nat) /\ AfterLiteral \in Seq(Nat)
      BY <3>1, <3>2, SeqMonotonic
    <3>4. <<Nul>> \in Seq(Nat) /\ Len(<<Nul>>) = 1
      BY DEF Nul
    <3> QED BY <3>1, <3>3, <3>4
  <2>2. /\ ShellName \o <<Nul>> \in Seq(Nat) /\ Len(ShellName \o <<Nul>>) = Len(ShellName) + 1
        /\ \A i \in 1 .. Len(ShellName) + 1 :
             (ShellName \o <<Nul>>)[i] = IF i <= Len(ShellName) THEN ShellName[i] ELSE <<Nul>>[i - Len(ShellName)]
    BY <2>1, ConcatProperties
  <2>3. /\ chars \in Seq(Nat) /\ Len(chars) = Len(ShellName) + 1 + Len(AfterLiteral)
        /\ \A i \in 1 .. Len(ShellName) + 1 + Len(AfterLiteral) :
             i <= Len(ShellName) + 1 => chars[i] = (ShellName \o <<Nul>>)[i]
    BY <2>1, <2>2, ConcatProperties
  <2>4. Len(ShellName) \in Nat /\ Len(AfterLiteral) \in Nat
    BY <2>1
  <2> HIDE DEF chars
  <2>5. PICK cmd : cmd = InArray(chars, size) /\ cmd = Command
    BY <1>2 DEF Command, chars
  <2>6. cmd = [i \in 1 .. size |-> IF i <= Len(chars) THEN chars[i] ELSE Nul]
    BY <2>5 DEF InArray
  <2>7. cmd \in Seq(Nat) /\ Len(cmd) = size
    <3>1. size \in Nat /\ \A i \in 1 .. size : (IF i <= Len(chars) THEN chars[i] ELSE Nul) \in Nat
      BY <2>3, <2>4 DEF Nul
    <3>2. cmd \in [1 .. size -> Nat]
      BY <2>6, <3>1
    <3> HIDE DEF size
    <3> QED BY <3>1, <3>2
  <2>8. /\ Len(cmd) > Len(ShellName) /\ cmd[Len(ShellName) + 1] = Nul
        /\ \A i \in 1 .. Len(ShellName) : cmd[i] = ShellName[i]
    <3>1. \A i \in 1 .. Len(ShellName) + 1 : i \in 1 .. size /\ i <= Len(chars)
      BY <2>3, <2>4
    <3>2. \A i \in 1 .. Len(ShellName) + 1 : cmd[i] = (ShellName \o <<Nul>>)[i]
      BY <2>3, <2>4, <2>6, <3>1
    <3>3. (ShellName \o <<Nul>>)[Len(ShellName) + 1] = Nul
      BY <2>2, <2>4
    <3>4. \A i \in 1 .. Len(ShellName) : cmd[i] = ShellName[i]
      BY <2>2, <2>4, <3>2
    <3> QED BY <2>4, <2>7, <3>2, <3>3, <3>4
  <2>9. Found(ProcessName(cmd)) = {FirstWord(ShellName)}
    BY <2>7, <2>8, FileFound
  <2> QED BY <1>2, <2>5, <2>9
<1> QED BY <1>1, <1>2

LEMMA LoadNamedStep == ASSUME IInv, OInv, OInv', PInv, LoadNamed PROVE PInv'
<1> USE DEF IInv, OInv, PInv
<1> DEFINE line == IF caller = "user" THEN typed[ctx] ELSE ShellName
<1>1. PICK n \in Slots : n = current_pcb /\ n = process_number - 1 /\ process_num[n] = n
  <2>1. /\ mode = "created" /\ current_pcb = process_number - 1 /\ process_number >= 1
        /\ process_number \in 0 .. MaxProcesses /\ Created(process_number - 1)
    BY DEF LoadNamed, LoadProgram, ControlInv, TypeOK
  <2>2. process_number - 1 \in Slots
    BY <2>1, ConstantsAssumption DEF Slots
  <2> QED BY <2>1, <2>2 DEF Created
<1>2. /\ mode = "created" /\ mode' = "user" /\ caller' = caller /\ current_pcb' = current_pcb
      /\ page' = n /\ ctx' = n /\ tlb' = n /\ process_number' = Recovered
  BY <1>1 DEF LoadNamed, LoadProgram, TlbFlushed
<1>3. /\ line \in Lines \cup {ShellName}
      /\ Found(ProcessName(Command)) = {FirstWord(line)}
      /\ caller = "user" => Command = InArray(line, BufferSize) /\ line \in Lines
  BY <1>2, CommandRead
<1> HIDE DEF line
<1>4. /\ program' = [program EXCEPT ![n] = FirstWord(line)]
      /\ command' = [command EXCEPT ![n] = line]
      /\ typed' = [typed EXCEPT ![n] = <<>>] /\ taken' = [taken EXCEPT ![n] = <<>>]
      /\ arguments' = [arguments EXCEPT ![n] = Copied(Arguments(Command), arguments[n])]
      /\ memory' = memory /\ arg_position' = arg_position
  BY <1>1, <1>2, <1>3 DEF LoadNamed, line
<1>5. MemoryInv'
  BY <1>3, <1>4 DEF MemoryInv
<1>6. ImageInv'
  BY <1>4 DEF ImageInv, MemoryInv
<1>7. TlbInv' /\ CallInv'
  BY <1>2 DEF TlbInv, CallInv
<1>8. \A m \in Slots : m # n =>
        arguments'[m] = arguments[m] /\ command'[m] = command[m] /\ taken'[m] = taken[m]
  BY <1>4 DEF MemoryInv
<1>9. ASSUME n >= NumTerminals
      PROVE  /\ arguments'[n] = Rest(command'[n])
             /\ arg_position'[n] \in 0 .. Len(arguments'[n])
             /\ taken'[n] = SubSeq(arguments'[n], 1, arg_position'[n])
  <2>1. caller = "user"
    <3>1. CASE execute_counter <= NumTerminals
      BY <1>1, <1>2, <1>9, <3>1, ConstantsAssumption DEF PhaseInv, TypeOK, Slots
    <3>2. CASE Booted
      BY <1>1, <1>2, <1>9, <3>2, ConstantsAssumption DEF PhaseInv, Loading, TypeOK, Slots
    <3> QED BY <3>1, <3>2, ConstantsAssumption DEF Booted, TypeOK
  <2>2. /\ line \in Seq(Characters) /\ BufferSize \in Nat /\ Len(line) + 2 <= BufferSize
        /\ MAX_COMMAND_LEN \in Nat /\ Len(FirstWord(line)) < MAX_COMMAND_LEN
    BY <1>3, <2>1, ProgramsAssumption
  <2>3. Arguments(Command) = Rest(line) /\ Rest(line) \in Seq(Characters)
    BY <1>3, <2>1, <2>2, ArgumentsOfLine, RestIsCharacters
  <2>4. arguments[n] = <<>> /\ arg_position[n] = 0
    BY <1>1, <1>2 DEF ArgumentsInv
  <2>5. Copied(Rest(line), <<>>) = Rest(line)
    <3>1. Len(Rest(line)) + 1 \in Int /\ Len(<<>>) \in Int /\ Len(<<>>) < Len(Rest(line)) + 1
      BY <2>3
    <3>2. SubSeq(<<>>, Len(Rest(line)) + 1, Len(<<>>)) = <<>>
      BY <3>1, SubSeqEmpty
    <3> QED BY <2>3, <3>2, ConcatEmptySeq DEF Copied
  <2>6. arguments'[n] = Rest(line) /\ command'[n] = line /\ taken'[n] = <<>> /\ arg_position'[n] = 0
    BY <1>4, <2>3, <2>4, <2>5 DEF MemoryInv
  <2>7. SubSeq(Rest(line), 1, 0) = <<>>
    BY SubSeqEmpty
  <2>8. 0 \in 0 .. Len(Rest(line))
    BY <2>3
  <2> QED BY <2>6, <2>7, <2>8
<1>10. ArgumentsInv'
  <2>1. Deepest' = process_number' - 1 /\ Deepest = n - 1
    BY <1>1, <1>2 DEF Deepest, Slots, TypeOK
  <2>2. Deepest' = n
    BY <1>2 DEF ChainInv, Resumable
  <2>3. ASSUME NEW m \in NumTerminals .. n
        PROVE  /\ arguments'[m] = Rest(command'[m])
               /\ arg_position'[m] \in 0 .. Len(arguments'[m])
               /\ taken'[m] = SubSeq(arguments'[m], 1, arg_position'[m])
    <3>1. m \in Slots /\ m \in Nat
      BY ConstantsAssumption DEF Slots
    <3>2. CASE m = n
      BY <1>9, <3>2
    <3>3. CASE m # n
      <4>1. m \in NumTerminals .. Deepest
        BY <2>1, <3>3 DEF Slots
      <4> QED BY <1>4, <1>8, <3>1, <3>3, <4>1 DEF ArgumentsInv
    <3> QED BY <3>2, <3>3
  <2> QED BY <1>2, <2>2, <2>3 DEF ArgumentsInv
<1> QED BY <1>5, <1>6, <1>7, <1>10

LEMMA HaltToParentStep == ASSUME OrdinaryUse, IInv, OInv, PInv, HaltToParent PROVE PInv'
<1> USE DEF IInv, OInv, PInv
<1>1. /\ UNCHANGED <<memory, program, arguments, arg_position, typed, command, taken>>
      /\ tlb' = page' /\ HaltProgram
  BY DEF HaltToParent, TlbFlushed
<1>2. /\ mode = "user" /\ mode' = "user" /\ process_number' = process_number - 1
      /\ process_number \in Nat
  BY <1>1, HaltFacts DEF HaltProgram, TypeOK
<1>3. MemoryInv' /\ ImageInv' /\ TlbInv' /\ CallInv'
  BY <1>1, <1>2 DEF MemoryInv, ImageInv, TlbInv, CallInv
<1>4. ArgumentsInv'
  BY <1>1, <1>2, ConstantsAssumption DEF ArgumentsInv, Deepest
<1> QED BY <1>3, <1>4
-----------------------------------------------------------------------------
THEOREM ProgramsInvariance == OrdinaryUse /\ ProgramsSpec => [](IInv /\ OInv /\ PInv)
<1> SUFFICES ASSUME OrdinaryUse PROVE ProgramsSpec => [](IInv /\ OInv /\ PInv)
  OBVIOUS
<1>1. ProgramsSpec => [](IInv /\ OInv)
  BY ProgramsTakeSteps, OrdinaryInvariance, PTL
<1>2. ProgramsInit => PInv
  BY InitPInv
<1>3. IInv /\ OInv /\ IInv' /\ OInv' /\ PInv /\ [ProgramsNext]_pvars => PInv'
  <2> SUFFICES ASSUME IInv, OInv, IInv', OInv', PInv, [ProgramsNext]_pvars PROVE PInv'
    OBVIOUS
  <2>1. CASE UNCHANGED pvars
    BY <2>1 DEF PInv, MemoryInv, ImageInv, TlbInv, CallInv, Resumable, ArgumentsInv, Deepest,
                pvars, vars, hardware, user, history
  <2>2. CASE (BootShell \/ ShowFirstTerminal \/ Trap \/ SwitchTerminal \/ RestartShell
                \/ FinishPcb \/ ExecuteRefused) /\ NothingSeen
    BY <2>2, SeenNothing
  <2>3. CASE NoCommand
    BY <2>3, SeenNothing DEF NoCommand
  <2>4. CASE ExecuteTyped \/ ReadLine \/ GetArgs \/ Vidmap
    BY <2>4, ExecuteTypedStep, ReadLineStep, GetArgsStep, VidmapStep
  <2>5. CASE HaltToParent \/ ClaimCleared \/ LoadNamed
    BY <2>5, HaltToParentStep, ClaimClearedStep, LoadNamedStep
  <2> QED BY <2>1, <2>2, <2>3, <2>4, <2>5 DEF ProgramsNext, KernelSteps
<1> QED BY <1>1, <1>2, <1>3, PTL DEF ProgramsSpec

\* In ordinary use a program runs in its own image, which is that of the first word
\* of the line that started it.
THEOREM ProgramsRunAsNamed == OrdinaryUse /\ ProgramsSpec => []RunsNamedProgram
<1>1. IInv /\ OInv /\ PInv => RunsNamedProgram
  <2> SUFFICES ASSUME IInv, OInv, PInv, mode = "user"
               PROVE  tlb = ctx /\ program[tlb] = FirstWord(command[ctx])
    BY DEF RunsNamedProgram
  <2>1. tlb = ctx /\ ctx \in Slots
    BY RunningSlot
  <2> QED BY <2>1 DEF PInv, ImageInv
<1> QED BY <1>1, ProgramsInvariance, PTL

\* In ordinary use getargs gives every program the line behind its first word,
\* whatever the program below and those above it read and took.
THEOREM ArgumentsReach == OrdinaryUse /\ ProgramsSpec => []ArgumentsReachProgram
<1>1. IInv /\ OInv /\ PInv => ArgumentsReachProgram
  <2> SUFFICES ASSUME IInv, OInv, PInv, mode = "user", NEW n \in Live, n >= NumTerminals
               PROVE  taken[n] \o SubSeq(arguments[n], arg_position[n] + 1, Len(arguments[n]))
                        = Rest(command[n])
    BY DEF ArgumentsReachProgram
  <2>1. n \in Slots /\ n \in NumTerminals .. Deepest
    BY ConstantsAssumption DEF Live, Deepest, IInv, TypeOK, Slots
  <2>2. command[n] \in Seq(Characters)
    BY <2>1, LinesAreCharacters DEF PInv, MemoryInv
  <2>3. /\ arguments[n] = Rest(command[n]) /\ arg_position[n] \in 0 .. Len(arguments[n])
        /\ taken[n] = SubSeq(arguments[n], 1, arg_position[n])
    BY <2>1 DEF PInv, ArgumentsInv
  <2>4. arguments[n] \in Seq(Characters) /\ Len(arguments[n]) \in arg_position[n] .. Len(arguments[n])
    BY <2>2, <2>3, RestIsCharacters
  <2>5. SubSeq(arguments[n], 1, Len(arguments[n])) = arguments[n]
    BY <2>4, SubSeqFull
  <2> QED BY <2>3, <2>4, <2>5, Pieces
<1> QED BY <1>1, ProgramsInvariance, PTL
=============================================================================
