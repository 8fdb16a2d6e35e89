---------------------------- MODULE Descriptors ----------------------------
(***************************************************************************)
(* The file_array of one PCB slot and the processes that use the slot one  *)
(* after the other: sys_open, sys_read, sys_close and the drivers behind   *)
(* them, the claim that sys_execute makes while it loads a program, and    *)
(* the two ways a process ends.  Descriptors 0 and 1 are the terminal.     *)
(*                                                                         *)
(* A system call runs with interrupts disabled but for the waits of        *)
(* terminal and RTC reads, which leave the file_array alone, and only one  *)
(* process runs, so a call is one action.                                  *)
(***************************************************************************)
EXTENDS FileSystem

CONSTANTS
  FILE_ARRAY_LEN,  \* 8
  OpenNames,       \* names that programs open
  FileReads,       \* nbytes of their reads of files
  DirectoryReads,  \* nbytes of their reads of directories
  Exits            \* how processes end: halt, restart

Nothing == "nothing"
Left == "left"   \* opened by a process that is gone, and never closed

\* A directory entry is read whole: with a shorter nbytes its name comes again.
ASSUME DescriptorsAssumption ==
  /\ FILE_ARRAY_LEN \in Nat /\ FILE_ARRAY_LEN > 2
  /\ OpenNames \cap {Nothing, Left} = {}
  /\ FileReads \subseteq Nat /\ IsFiniteSet(FileReads)
  /\ \A n \in DirectoryReads : n \in Nat /\ n >= NameLength
  /\ Exits \subseteq {"halt", "restart"}

VARIABLES
  file_array, \* file_array[fd]: driver (the four operations), inode, position, flags
  running,    \* a process runs in the slot
  held,       \* history: what has been opened and not closed, by descriptor, by
              \* the process or by one before it that was restarted, see Left
  delivered   \* history: the bytes, or entries, read since, by descriptor

vars == <<file_array, running, held, delivered>>

Fds == 0 .. FILE_ARRAY_LEN - 1
UserFds == 2 .. FILE_ARRAY_LEN - 1
Free(fa) == {fd \in Fds : fa[fd].flags = 0}

\* The memory of the PCBs is zero after the boot.
Init ==
  /\ file_array = [fd \in Fds |-> [driver |-> "zero", inode |-> 0, position |-> 0, flags |-> 0]]
  /\ running = FALSE
  /\ held = [fd \in Fds |-> Nothing] /\ delivered = [fd \in Fds |-> 0]
-----------------------------------------------------------------------------
\* create_pcb gives 0 and 1 to the terminal and leaves the others.
CreatePcb(fa) ==
  [fd \in Fds |-> IF fd \in {0, 1} THEN [fa[fd] EXCEPT !.driver = "terminal", !.flags = 1]
                                   ELSE fa[fd]]

\* Faulty: leaves the descriptor in use.
FileClosedInUse(fa, fd) ==
  IF fa[fd].flags = 1 THEN [fa EXCEPT ![fd].inode = 0, ![fd].position = 0] ELSE fa

\* file_close
FileClosed(fa, fd) ==
  IF fa[fd].flags = 1
  THEN [fa EXCEPT ![fd].inode = 0, ![fd].position = 0, ![fd].flags = 0]
  ELSE fa

\* directory_close
DirectoryClosed(fa, fd) == [fa EXCEPT ![fd].position = 0, ![fd].flags = 0]

\* The close operation of a descriptor; rtc_close and terminal_close leave it
\* alone.
Closed(fa, fd) ==
  CASE fa[fd].driver = "file" -> FileClosed(fa, fd)
    [] fa[fd].driver = "directory" -> DirectoryClosed(fa, fd)
    [] OTHER -> fa

\* sys_execute opens the file with file_open, which sets no driver, reads it
\* and closes it again; without a free descriptor it goes on without.
LoadedThrough(fa) ==
  IF Free(fa) = {} THEN fa
  ELSE LET fd == Min(Free(fa))
       IN  FileClosed([fa EXCEPT ![fd].flags = 1, ![fd].position = 0], fd)

\* A command is executed in the slot, and refused or started.
Execute ==
  /\ ~running /\ running' \in BOOLEAN
  /\ file_array' = LoadedThrough(CreatePcb(file_array))
  /\ UNCHANGED <<held, delivered>>

\* sys_open of a file that exists, with a free descriptor; -1 otherwise.
Open(name) ==
  /\ running /\ Exists(name)
  /\ Free(file_array) \cap UserFds # {}
  /\ LET fd == Min(Free(file_array) \cap UserFds)
         dentry == read_dentry_by_name(name)
     IN  /\ file_array' = [file_array EXCEPT ![fd] =
              [driver |-> dentry.type, inode |-> dentry.inode, position |-> 0, flags |-> 1]]
         /\ held' = [held EXCEPT ![fd] = name]
         /\ delivered' = [delivered EXCEPT ![fd] = 0]
  /\ UNCHANGED running

FileResult(fd, nbytes) ==
  read_data(file_array[fd].inode, file_array[fd].position, nbytes)

\* Faulty: on by nbytes at the end of the file too.
PositionRunsOn(fd, nbytes) == file_array[fd].position + nbytes

\* file_read: on by nbytes, whatever was read, or to the end of the file.
PositionAfter(fd, nbytes) ==
  IF FileResult(fd, nbytes) = <<>> THEN Inodes[file_array[fd].inode].length
                                   ELSE file_array[fd].position + nbytes

\* file_read through sys_read
FileRead(fd, nbytes) ==
  /\ running /\ file_array[fd].flags # 0 /\ file_array[fd].driver = "file"
  /\ file_array' = [file_array EXCEPT ![fd].position = PositionAfter(fd, nbytes)]
  /\ delivered' = [delivered EXCEPT ![fd] = @ + Len(FileResult(fd, nbytes))]
  /\ UNCHANGED <<running, held>>

\* The entry that directory_read returns the name of, none at the end.
DirectoryResult(fd) ==
  LET index == file_array[fd].position \div NameLength
  IN  IF index = Len(Dentries) THEN <<>> ELSE <<read_dentry_by_index(index)>>

\* Faulty: on by the nbytes asked for.
DirectoryAdvanceAll(nbytes) == nbytes

DirectoryAdvance(nbytes) == Min({nbytes, NameLength})

\* directory_read through sys_read
DirectoryRead(fd, nbytes) ==
  /\ running /\ file_array[fd].flags # 0 /\ file_array[fd].driver = "directory"
  /\ DirectoryResult(fd) # <<>>
  /\ file_array' = [file_array EXCEPT ![fd].position = @ + DirectoryAdvance(nbytes)]
  /\ delivered' = [delivered EXCEPT ![fd] = @ + 1]
  /\ UNCHANGED <<running, held>>

\* sys_close.  Its test lets FILE_ARRAY_LEN pass; the flags it then sees are
\* bytes of the arguments, zero unless those are longer than 20 characters.
Close(fd) ==
  /\ running /\ fd \in UserFds /\ file_array[fd].flags # 0
  /\ file_array' = Closed(file_array, fd)
  /\ held' = [held EXCEPT ![fd] = Nothing] /\ delivered' = [delivered EXCEPT ![fd] = 0]
  /\ UNCHANGED running

\* sys_halt closes what is in use and frees every descriptor.
Halted(fa) ==
  [fd \in Fds |-> [(IF fa[fd].flags = 1 THEN Closed(fa, fd)[fd] ELSE fa[fd])
                     EXCEPT !.flags = 0]]

Halt ==
  /\ "halt" \in Exits /\ running /\ running' = FALSE
  /\ file_array' = Halted(file_array)
  /\ held' = [fd \in Fds |-> Nothing] /\ delivered' = [fd \in Fds |-> 0]

\* A halt that start_first_shell answers: sys_halt is never called.
Restart ==
  /\ "restart" \in Exits /\ running /\ running' = FALSE
  /\ held' = [fd \in Fds |-> IF held[fd] = Nothing THEN Nothing ELSE Left]
  /\ delivered' = [fd \in Fds |-> 0]
  /\ UNCHANGED file_array

Next ==
  \/ Execute \/ Halt \/ Restart
  \/ \E name \in OpenNames : Open(name)
  \/ \E fd \in UserFds :
       \/ Close(fd)
       \/ \E n \in FileReads : FileRead(fd, n)
       \/ \E n \in DirectoryReads : DirectoryRead(fd, n)

Spec == Init /\ [][Next]_vars
-----------------------------------------------------------------------------
\* A position runs beyond the end by one read at most: it cannot overflow.
MaxPosition ==
  Max({Inodes[i].length : i \in DOMAIN Inodes} \cup {Len(Dentries) * NameLength})
    + Max(FileReads \cup {0})

\* Every variable has its type, and positions their bound.
TypeOK ==
  /\ file_array \in [Fds -> [driver : Types \cup {"zero", "terminal"}, inode : DOMAIN Inodes,
                             position : 0 .. MaxPosition, flags : {0, 1}]]
  /\ running \in BOOLEAN
  /\ held \in [Fds -> OpenNames \cup {Nothing, Left}]
  /\ delivered \in [Fds -> Nat]

\* A running process's descriptors from 2 up are in use exactly while it has
\* them open: none is inherited from whoever used the slot before, none is
\* lost to a later open.
InUseIsHeld ==
  running => \A fd \in UserFds :
    file_array[fd].flags = 1 <=> held[fd] \notin {Nothing, Left}

\* As far as the drivers close at all, which that of the RTC does not: a
\* descriptor is in use exactly from its open to its close, across refused
\* commands, both ways a process ends and the processes that follow in the
\* slot.
InUseUntilClosed ==
  \A fd \in UserFds :
    file_array[fd].driver # "rtc" => (file_array[fd].flags = 1 <=> held[fd] # Nothing)

HasOpen(fd, type) ==
  held[fd] \notin {Nothing, Left} /\ read_dentry_by_name(held[fd]).type = type

\* Wherever reads were cut and however many descriptors share the file, the
\* next read of a file gives the bytes that follow those delivered.
NextReadIsNextBytes ==
  \A fd \in UserFds :
    running /\ HasOpen(fd, "file") =>
      \A n \in FileReads :
        FileResult(fd, n) =
          PartOf(Content(read_dentry_by_name(held[fd]).inode), delivered[fd], n)

\* Successive reads of a directory give each entry once, in order, and then
\* none.
DirectoryIsListed ==
  \A fd \in UserFds :
    running /\ HasOpen(fd, "directory") =>
      DirectoryResult(fd) = SubSeq(Dentries, delivered[fd] + 1,
                                   Min({delivered[fd] + 1, Len(Dentries)}))
=============================================================================
