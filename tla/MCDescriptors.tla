--------------------------- MODULE MCDescriptors ---------------------------
(***************************************************************************)
(* A small image for Descriptors: a file over three blocks that are out of *)
(* order on the disk, an empty one, the directory and the RTC.             *)
(***************************************************************************)
EXTENDS Descriptors

MCBlocks == [b \in 0 .. 3 |-> <<2 * b, 2 * b + 1>>]

MCInodes ==
  [i \in 0 .. 2 |->
     CASE i = 0 -> [length |-> 0, blocks |-> <<>>]
       [] i = 1 -> [length |-> 5, blocks |-> <<2, 0, 3>>]
       [] i = 2 -> [length |-> 2, blocks |-> <<1>>]]

MCDentries ==
  <<[name |-> ".", type |-> "directory", inode |-> 0],
    [name |-> "long", type |-> "file", inode |-> 1],
    [name |-> "rtc", type |-> "rtc", inode |-> 0],
    [name |-> "short", type |-> "file", inode |-> 2]>>
=============================================================================
