----------------------------- MODULE FileSystem -----------------------------
(***************************************************************************)
(* The read-only file system image of filesystems.c: directory entries,    *)
(* inodes and data blocks, and the functions that look a name up and read  *)
(* data.  A name is one value; a byte is one value.  The image is well     *)
(* formed: every entry names an inode and every inode has the blocks its   *)
(* length needs, so the -1 of a bad inode or buffer does not occur.        *)
(***************************************************************************)
EXTENDS Integers, Sequences, SequencesExt, FiniteSetsExt

CONSTANTS
  BlockSize,   \* 4096
  NameLength,  \* 32
  Dentries,    \* sequence of [name, type, inode]
  Inodes,      \* Inodes[i]: [length, blocks], blocks a sequence of numbers
  Blocks       \* Blocks[b]: the BlockSize bytes of data block b

Types == {"rtc", "directory", "file"}

ASSUME FileSystemAssumption ==
  /\ BlockSize \in Nat \ {0} /\ NameLength \in Nat \ {0}
  /\ Dentries \in Seq([name : STRING, type : Types, inode : DOMAIN Inodes])
  /\ 0 \in DOMAIN Inodes /\ IsFiniteSet(DOMAIN Inodes)
  /\ \A i \in DOMAIN Inodes :
       /\ Inodes[i] \in [length : Nat, blocks : Seq(DOMAIN Blocks)]
       /\ Inodes[i].length <= Len(Inodes[i].blocks) * BlockSize
  /\ \A b \in DOMAIN Blocks :
       Blocks[b] \in Seq(0 .. 255) /\ Len(Blocks[b]) = BlockSize

\* read_dentry_by_name: the entries with a name, and the first of them.
Matching(name) == {d \in DOMAIN Dentries : Dentries[d].name = name}
Exists(name) == Matching(name) # {}
read_dentry_by_name(name) == Dentries[Min(Matching(name))]

\* read_dentry_by_index, for an index within the directory.
read_dentry_by_index(index) == Dentries[index + 1]

\* Faulty: goes on in the same block.
NextPlaceSameBlock(place) ==
  [place EXCEPT !.at = IF @ + 1 >= BlockSize THEN 0 ELSE @ + 1]

\* Where the byte after the one at place is: in the next block of the inode
\* when this one is used up.
NextPlace(place) ==
  IF place.at + 1 >= BlockSize THEN [ptr |-> place.ptr + 1, at |-> 0]
                               ELSE [place EXCEPT !.at = @ + 1]

\* The bytes that the loop reads: it stops at length or at the end of data.
Iterations(ino, offset, length) ==
  IF offset >= ino.length THEN 0 ELSE Min({length, ino.length - offset})

\* The places that the loop goes through from offset on.
PlacesFrom(offset, n) ==
  LET place[k \in 0 .. n] ==
        IF k = 0 THEN [ptr |-> (offset \div BlockSize) + 1, at |-> offset % BlockSize]
                 ELSE NextPlace(place[k - 1])
  IN  place

read_data(inode, offset, length) ==
  LET ino == Inodes[inode]
      n == Iterations(ino, offset, length)
      place == PlacesFrom(offset, n)
  IN  [k \in 1 .. n |-> Blocks[ino.blocks[place[k - 1].ptr]][place[k - 1].at + 1]]

\* Reference: the bytes of a file, its blocks one after the other up to its
\* length, and a part of them.
Content(inode) ==
  LET ino == Inodes[inode]
  IN  SubSeq(FlattenSeq([k \in DOMAIN ino.blocks |-> Blocks[ino.blocks[k]]]), 1, ino.length)

PartOf(content, offset, length) ==
  SubSeq(content, offset + 1, Min({offset + length, Len(content)}))
=============================================================================
