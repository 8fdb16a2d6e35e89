------------------------- MODULE DescriptorsProofs -------------------------
(***************************************************************************)
(* Theorems about Descriptors, for every image, every number of            *)
(* descriptors and every set of names and read sizes: descriptors are in   *)
(* use exactly while they are open, directories are listed in order, and   *)
(* files are read in order, which rests on read_data giving the part of    *)
(* the file that its blocks make up.                                       *)
(***************************************************************************)
EXTENDS Descriptors, Induction, FiniteSetTheorems, SequenceTheorems

Drivers == Types \cup {"zero", "terminal"}
Entry == [driver : Drivers, inode : DOMAIN Inodes, position : 0 .. MaxPosition, flags : {0, 1}]

ShapeInv ==
  /\ file_array \in [Fds -> Entry] /\ running \in BOOLEAN
  /\ held \in [Fds -> OpenNames \cup {Nothing, Left}]
  /\ delivered \in [Fds -> Nat]

\* Descriptors in use have a driver of sys_open's and, in a directory, a position
\* between entries; but for the RTC's they are those that have not been closed.
UseInv ==
  \A fd \in UserFds :
    /\ file_array[fd].flags = 1 => file_array[fd].driver \in Types
    /\ file_array[fd].flags = 1 /\ file_array[fd].driver = "directory" =>
         \E d \in 0 .. Len(Dentries) : file_array[fd].position = d * NameLength
    /\ file_array[fd].driver # "rtc" => (file_array[fd].flags = 1 <=> held[fd] # Nothing)

\* Nothing is held open by a process that is gone, but left.
GoneInv == ~running => \A fd \in Fds : held[fd] \in {Nothing, Left}

\* The position in an open directory is the place of the next entry.
DirectoryInv ==
  \A fd \in UserFds :
    HasOpen(fd, "directory") =>
      /\ file_array[fd].driver = "directory"
      /\ delivered[fd] \in 0 .. Len(Dentries)
      /\ file_array[fd].position = delivered[fd] * NameLength

\* The position in an open file is that of the next byte, or beyond the end.  A read
\* of no bytes would move it to the end.
FileInv ==
  0 \notin FileReads =>
    \A fd \in UserFds :
      HasOpen(fd, "file") =>
        LET entry == file_array[fd]
            length == Inodes[entry.inode].length
        IN  /\ entry.driver = "file"
            /\ entry.inode = read_dentry_by_name(held[fd]).inode
            /\ delivered[fd] = IF entry.position <= length THEN entry.position ELSE length

IInv == ShapeInv /\ UseInv /\ GoneInv /\ DirectoryInv /\ FileInv
-----------------------------------------------------------------------------
LEMMA NextQuotient ==
  ASSUME NEW b \in Nat \ {0}, NEW x \in Nat
  PROVE  IF (x % b) + 1 >= b THEN (x + 1) \div b = (x \div b) + 1 /\ (x + 1) % b = 0
                             ELSE (x + 1) \div b = x \div b /\ (x + 1) % b = (x % b) + 1
<1> DEFINE q == x \div b
           r == x % b
<1>1. q \in Nat /\ r \in 0 .. b - 1 /\ x = b * q + r
  BY DivisionFacts
<1> HIDE DEF q, r
<1>2. CASE r + 1 >= b
  <2>1. x + 1 = b * (q + 1) + 0
    BY <1>1, <1>2
  <2>2. (x + 1) \div b = q + 1 /\ (x + 1) % b = 0
    BY <1>1, <2>1, DivisionIs
  <2> QED BY <1>2, <2>2 DEF q, r
<1>3. CASE ~(r + 1 >= b)
  <2>1. x + 1 = b * q + (r + 1) /\ r + 1 \in 0 .. b - 1
    BY <1>1, <1>3
  <2>2. (x + 1) \div b = q /\ (x + 1) % b = r + 1
    BY <1>1, <2>1, DivisionIs
  <2> QED BY <1>3, <2>2 DEF q, r
<1> QED BY <1>2, <1>3

\* The loop of read_data is at byte offset + k after k iterations.
LEMMA PlacesAre ==
  ASSUME NEW offset \in Nat, NEW n \in Nat
  PROVE  \A k \in 0 .. n : PlacesFrom(offset, n)[k] =
           [ptr |-> ((offset + k) \div BlockSize) + 1, at |-> (offset + k) % BlockSize]
<1> DEFINE At(k) == [ptr |-> ((offset + k) \div BlockSize) + 1, at |-> (offset + k) % BlockSize]
           first == [ptr |-> (offset \div BlockSize) + 1, at |-> offset % BlockSize]
           Is(f) == f = [k \in 0 .. n |-> IF k = 0 THEN first ELSE NextPlace(f[k - 1])]
           g == [k \in 0 .. n |-> At(k)]
           f == CHOOSE f : Is(f)
<1>1. At(0) = first
  <2>1. offset + 0 = offset
    OBVIOUS
  <2> QED BY <2>1
<1>2. ASSUME NEW k \in Nat \ {0} PROVE At(k) = NextPlace(At(k - 1))
  <2> DEFINE x == offset + (k - 1)
  <2>1. x \in Nat /\ offset + k = x + 1 /\ BlockSize \in Nat \ {0}
    BY FileSystemAssumption
  <2> HIDE DEF x
  <2>2. IF (x % BlockSize) + 1 >= BlockSize
        THEN (x + 1) \div BlockSize = (x \div BlockSize) + 1 /\ (x + 1) % BlockSize = 0
        ELSE (x + 1) \div BlockSize = x \div BlockSize /\ (x + 1) % BlockSize = (x % BlockSize) + 1
    BY <2>1, NextQuotient
  <2>3. PICK d, e, r, s : d = x \div BlockSize /\ e = (x + 1) \div BlockSize
                          /\ r = x % BlockSize /\ s = (x + 1) % BlockSize
    OBVIOUS
  <2>4. At(k - 1) = [ptr |-> d + 1, at |-> r] /\ At(k) = [ptr |-> e + 1, at |-> s]
    BY <2>1, <2>3 DEF x
  <2>5. IF r + 1 >= BlockSize THEN e = d + 1 /\ s = 0 ELSE e = d /\ s = r + 1
    BY <2>2, <2>3
  <2> HIDE DEF At
  <2> QED BY <2>4, <2>5 DEF NextPlace
<1> HIDE DEF At, first
<1>3. Is(g)
  <2>1. \A k \in 0 .. n : g[k] = IF k = 0 THEN first ELSE NextPlace(g[k - 1])
    <3> TAKE k \in 0 .. n
    <3>1. CASE k = 0
      BY <1>1, <3>1
    <3>2. CASE k # 0
      <4>1. k \in Nat \ {0} /\ k - 1 \in 0 .. n
        BY <3>2
      <4> QED BY <1>2, <3>2, <4>1
    <3> QED BY <3>1, <3>2
  <2>2. g = [k \in 0 .. n |-> g[k]]
    OBVIOUS
  <2> HIDE DEF g
  <2> QED BY <2>1, <2>2
<1>4. Is(f)
  <2> HIDE DEF Is, g
  <2> QED BY <1>3
<1>5. PlacesFrom(offset, n) = f
  BY DEF PlacesFrom, first
<1> HIDE DEF f
<1>6. \A k \in 0 .. n : f[k] = IF k = 0 THEN first ELSE NextPlace(f[k - 1])
  BY <1>4
<1> DEFINE S == {k \in 0 .. n : f[k] = At(k)}
<1>7. 0 \in S
  BY <1>1, <1>6
<1>8. ASSUME NEW k \in 0 .. n - 1, k \in S PROVE k + 1 \in S
  <2>1. k + 1 \in 0 .. n /\ k + 1 # 0 /\ k + 1 \in Nat \ {0} /\ (k + 1) - 1 = k
    OBVIOUS
  <2>2. f[k + 1] = NextPlace(f[k])
    BY <1>6, <2>1
  <2>3. At(k + 1) = NextPlace(At(k))
    BY <1>2, <2>1
  <2> QED BY <1>8, <2>1, <2>2, <2>3
<1>9. \A k \in 0 .. n : k \in S
  <2> HIDE DEF S
  <2> QED BY <1>7, <1>8, UpTo
<1> QED BY <1>5, <1>9 DEF At

\* How many bytes a read gives, and that it stays in the file.
LEMMA IterationsFacts ==
  ASSUME NEW i \in DOMAIN Inodes, NEW offset \in Nat, NEW length \in Nat
  PROVE  /\ Iterations(Inodes[i], offset, length) \in Nat
         /\ Iterations(Inodes[i], offset, length) =
              IF offset >= Inodes[i].length THEN 0
              ELSE IF length <= Inodes[i].length - offset THEN length
              ELSE Inodes[i].length - offset
<1>1. Inodes[i].length \in Nat
  BY FileSystemAssumption
<1>2. CASE offset >= Inodes[i].length
  BY <1>2 DEF Iterations
<1>3. CASE ~(offset >= Inodes[i].length)
  <2>1. PICK l \in Nat : l = Inodes[i].length - offset
    BY <1>1, <1>3
  <2>2. /\ Min({length, l}) \in {length, l}
        /\ \A y \in {length, l} : Min({length, l}) <= y
    BY MinFacts
  <2>3. Iterations(Inodes[i], offset, length) = Min({length, l})
    BY <1>3, <2>1 DEF Iterations
  <2> QED BY <1>3, <2>1, <2>2, <2>3
<1> QED BY <1>2, <1>3

LEMMA ProductGrows ==
  ASSUME NEW b \in Nat, NEW m \in Nat, NEW q \in Nat, m <= q
  PROVE  m * b <= q * b /\ m * b \in Nat
<1>1. PICK d \in Nat : q = m + d
  <2>1. q - m \in Nat /\ q = m + (q - m)
    OBVIOUS
  <2> QED BY <2>1
<1>2. q * b = m * b + d * b /\ d * b \in Nat /\ m * b \in Nat
  BY <1>1
<1> QED BY <1>2

\* A sequence in two pieces.
LEMMA TwoPieces ==
  ASSUME NEW V, NEW u \in Seq(V), NEW s \in Seq(V), NEW t \in Seq(V), Len(u) = Len(s) + Len(t),
         \A y \in 1 .. Len(s) : u[y] = s[y], \A y \in 1 .. Len(t) : u[Len(s) + y] = t[y]
  PROVE  u = s \o t
<1>1. Len(s) \in Nat /\ Len(t) \in Nat
  OBVIOUS
<1>2. /\ s \o t \in Seq(V) /\ Len(s \o t) = Len(s) + Len(t)
      /\ \A i \in 1 .. Len(s) + Len(t) : (s \o t)[i] = IF i <= Len(s) THEN s[i] ELSE t[i - Len(s)]
  BY ConcatProperties
<1>3. \A i \in 1 .. Len(u) : u[i] = (s \o t)[i]
  <2> TAKE i \in 1 .. Len(u)
  <2>1. CASE i <= Len(s)
    BY <1>1, <1>2, <2>1
  <2>2. CASE ~(i <= Len(s))
    <3>1. i - Len(s) \in 1 .. Len(t) /\ Len(s) + (i - Len(s)) = i
      BY <1>1, <2>2
    <3> QED BY <1>2, <2>2, <3>1
  <2> QED BY <2>1, <2>2
<1> QED BY <1>2, <1>3, SeqEqual

\* Blocks of one length, one after the other.
LEMMA Flattened ==
  ASSUME NEW V, NEW seqs \in Seq(Seq(V)), NEW b \in Nat \ {0}, Len(seqs) > 0,
         \A k \in 1 .. Len(seqs) : Len(seqs[k]) = b
  PROVE  /\ FlattenSeq(seqs) \in Seq(V) /\ Len(FlattenSeq(seqs)) = Len(seqs) * b
         /\ \A y \in 1 .. Len(seqs) * b :
              FlattenSeq(seqs)[y] = seqs[((y - 1) \div b) + 1][((y - 1) % b) + 1]
<1> DEFINE m == Len(seqs)
           Is(f) == f = [i \in 1 .. m |-> IF i = 1 THEN seqs[i] ELSE f[i - 1] \o seqs[i]]
           flatten == CHOOSE f : Is(f)
           At(x) == seqs[(x \div b) + 1][(x % b) + 1]
           Joined(i) == [y \in 1 .. i * b |-> At(y - 1)]
           g == [i \in 1 .. m |-> Joined(i)]
<1>1. m \in Nat \ {0} /\ \A k \in 1 .. m : seqs[k] \in Seq(V) /\ Len(seqs[k]) = b
  OBVIOUS
<1>2. ASSUME NEW k \in 1 .. m, NEW y \in 1 .. b
      PROVE  At((k - 1) * b + y - 1) = seqs[k][y] /\ seqs[k][y] \in V
  <2>1. (k - 1) * b + y - 1 = b * (k - 1) + (y - 1) /\ k - 1 \in Nat /\ y - 1 \in 0 .. b - 1
    OBVIOUS
  <2>2. (b * (k - 1) + (y - 1)) \div b = k - 1 /\ (b * (k - 1) + (y - 1)) % b = y - 1
    BY <2>1, DivisionIs
  <2>3. seqs[k] \in Seq(V) /\ y \in 1 .. Len(seqs[k])
    BY <1>1
  <2> QED BY <2>1, <2>2, <2>3
<1>15. \A x \in 0 .. m * b - 1 : At(x) \in V
  <3> TAKE x \in 0 .. m * b - 1
  <3>1. x \in Nat
    BY <1>1
  <3>2. x \div b \in Nat /\ x % b \in 0 .. b - 1 /\ x = b * (x \div b) + (x % b)
    BY <3>1, DivisionFacts
  <3>3. x \div b < m
    <4>1. PICK q \in Nat, r \in 0 .. b - 1 : q = x \div b /\ x = b * q + r
      BY <3>2
    <4>2. CASE q >= m
      <5>1. q * b >= m * b
        BY <1>1, <4>2, ProductGrows
      <5> QED BY <1>1, <4>1, <5>1
    <4> QED BY <1>1, <4>1, <4>2
  <3>4. (x \div b) + 1 \in 1 .. m /\ (x % b) + 1 \in 1 .. b
    BY <3>2, <3>3
  <3> QED BY <1>1, <3>4 DEF At
<1>3. Joined(1) = seqs[1]
  <2>1. seqs[1] = [y \in 1 .. b |-> seqs[1][y]]
    BY <1>1
  <2>2. \A y \in 1 .. b : At(y - 1) = seqs[1][y]
    <3> TAKE y \in 1 .. b
    <3>1. (1 - 1) * b + y - 1 = y - 1 /\ 1 \in 1 .. m
      BY <1>1
    <3> QED BY <1>2, <3>1
  <2>3. 1 * b = b
    OBVIOUS
  <2> HIDE DEF At
  <2> QED BY <2>1, <2>2, <2>3
<1> HIDE DEF At
<1>4. ASSUME NEW i \in 1 .. m - 1 PROVE Joined(i + 1) = Joined(i) \o seqs[i + 1]
  <2>1. i + 1 \in 1 .. m /\ (i + 1) - 1 = i /\ i * b \in Nat /\ (i + 1) * b = i * b + b
    OBVIOUS
  <2>2. PICK p \in Nat : p = i * b
    BY <2>1
  <2>3. PICK t : t = seqs[i + 1] /\ t \in Seq(V) /\ Len(t) = b
    BY <1>1, <2>1
  <2>4. \A y \in 1 .. b : At(p + y - 1) = t[y]
    BY <1>2, <2>1, <2>2, <2>3
  <2>5. \A y \in 1 .. p + b : At(y - 1) \in V
    <3>1. PICK w \in Nat : w = m * b /\ p + b <= w
      <4>1. m \in Nat /\ b \in Nat /\ i + 1 \in Nat /\ i + 1 <= m
        BY <1>1, <2>1
      <4>2. (i + 1) * b <= m * b /\ m * b \in Nat
        <5> HIDE DEF m
        <5> QED BY <4>1, ProductGrows
      <4> QED BY <2>1, <2>2, <4>2
    <3> HIDE DEF m
    <3> QED BY <1>15, <2>2, <3>1
  <2>6. PICK u \in [1 .. p + b -> V] : u = [y \in 1 .. p + b |-> At(y - 1)]
    BY <2>5
  <2>7. PICK s \in [1 .. p -> V] : s = [y \in 1 .. p |-> At(y - 1)]
    <3>1. \A y \in 1 .. p : y \in 1 .. p + b
      BY <2>2
    <3> QED BY <2>5, <3>1
  <2>8. \A y \in 1 .. p : u[y] = s[y]
    BY <2>2, <2>6, <2>7
  <2>9. \A y \in 1 .. b : u[p + y] = t[y]
    BY <2>2, <2>4, <2>6
  <2>10. u = s \o t
    <3>1. u \in Seq(V) /\ s \in Seq(V) /\ Len(u) = p + b /\ Len(s) = p
      BY <2>2, <2>6, <2>7
    <3>2. /\ Len(u) = Len(s) + Len(t) /\ \A y \in 1 .. Len(s) : u[y] = s[y]
          /\ \A y \in 1 .. Len(t) : u[Len(s) + y] = t[y]
      BY <2>3, <2>8, <2>9, <3>1
    <3>3. u \in Seq(V) /\ s \in Seq(V) /\ t \in Seq(V)
      BY <2>3, <3>1
    <3> QED BY <3>2, <3>3, TwoPieces, ZenonT(60)
  <2> QED BY <2>1, <2>2, <2>3, <2>6, <2>7, <2>10
<1>5. \A i \in 1 .. m : Joined(i) \in Seq(V)
  <2> TAKE i \in 1 .. m
  <2>1. i * b <= m * b /\ i * b \in Nat /\ m * b \in Nat
    BY <1>1, ProductGrows
  <2>2. Joined(i) \in [1 .. i * b -> V]
    <3>1. \A y \in 1 .. i * b : y - 1 \in 0 .. m * b - 1
      <4>1. PICK v \in Nat, w \in Nat : v = i * b /\ w = m * b /\ v <= w
        BY <2>1
      <4> HIDE DEF m
      <4> QED BY <4>1
    <3> HIDE DEF m
    <3> QED BY <1>15, <3>1
  <2> HIDE DEF Joined
  <2> QED BY <2>1, <2>2
<1> HIDE DEF Joined
<1>6. Is(g)
  <2>1. \A i \in 1 .. m : g[i] = IF i = 1 THEN seqs[i] ELSE g[i - 1] \o seqs[i]
    <3> TAKE i \in 1 .. m
    <3>1. CASE i = 1
      BY <1>1, <1>3, <3>1
    <3>2. CASE i # 1
      <4>1. i - 1 \in 1 .. m - 1 /\ (i - 1) + 1 = i /\ i - 1 \in 1 .. m
        BY <1>1, <3>2
      <4>2. Joined(i) = Joined(i - 1) \o seqs[i]
        BY <1>4, <4>1
      <4> QED BY <3>2, <4>1, <4>2
    <3> QED BY <3>1, <3>2
  <2>2. g = [i \in 1 .. m |-> g[i]]
    OBVIOUS
  <2> HIDE DEF g, m
  <2> QED BY <2>1, <2>2
<1>7. Is(flatten)
  <2> HIDE DEF Is, g
  <2> QED BY <1>6
<1>8. FlattenSeq(seqs) = flatten[m]
  BY <1>1 DEF FlattenSeq
<1> HIDE DEF flatten
<1>9. \A i \in 1 .. m : flatten[i] = IF i = 1 THEN seqs[i] ELSE flatten[i - 1] \o seqs[i]
  BY <1>7
<1> DEFINE S == {k \in 0 .. m - 1 : flatten[k + 1] = Joined(k + 1)}
<1>10. 0 \in S
  BY <1>1, <1>3, <1>9
<1>11. ASSUME NEW k \in 0 .. (m - 1) - 1, k \in S PROVE k + 1 \in S
  <2>1. /\ k + 2 \in 1 .. m /\ k + 2 # 1 /\ (k + 2) - 1 = k + 1 /\ k + 1 \in 1 .. m - 1
        /\ (k + 1) + 1 = k + 2 /\ k + 1 \in 0 .. m - 1
    BY <1>1
  <2>2. flatten[k + 2] = flatten[k + 1] \o seqs[k + 2]
    BY <1>9, <2>1
  <2>3. Joined(k + 2) = Joined(k + 1) \o seqs[k + 2]
    BY <1>4, <2>1
  <2> QED BY <1>11, <2>1, <2>2, <2>3
<1>12. m - 1 \in S
  <2>1. m - 1 \in Nat /\ m - 1 \in 0 .. m - 1
    BY <1>1
  <2> HIDE DEF S, m
  <2> QED BY <1>10, <1>11, <2>1, UpTo
<1>13. FlattenSeq(seqs) = Joined(m) /\ Joined(m) \in Seq(V)
  <2>1. (m - 1) + 1 = m /\ m \in 1 .. m
    BY <1>1
  <2> HIDE DEF m
  <2> QED BY <1>5, <1>8, <1>12, <2>1
<1>14. /\ Len(Joined(m)) = m * b
       /\ \A y \in 1 .. m * b : Joined(m)[y] = At(y - 1)
  <2>1. m * b \in Nat
    BY <1>1
  <2> HIDE DEF m
  <2> QED BY <2>1 DEF Joined
<1> QED BY <1>13, <1>14 DEF At

\* The bytes of a file are those of its blocks.
LEMMA ContentFacts ==
  ASSUME NEW i \in DOMAIN Inodes
  PROVE  /\ Content(i) \in Seq(0 .. 255) /\ Len(Content(i)) = Inodes[i].length
         /\ \A y \in 1 .. Inodes[i].length :
              Content(i)[y] =
                Blocks[Inodes[i].blocks[((y - 1) \div BlockSize) + 1]][((y - 1) % BlockSize) + 1]
<1> DEFINE blocks == Inodes[i].blocks
           length == Inodes[i].length
           seqs == [k \in DOMAIN blocks |-> Blocks[blocks[k]]]
<1>1. /\ length \in Nat /\ blocks \in Seq(DOMAIN Blocks) /\ length <= Len(blocks) * BlockSize
      /\ BlockSize \in Nat \ {0} /\ Len(blocks) \in Nat
  BY FileSystemAssumption
<1>2. \A k \in 1 .. Len(blocks) : Blocks[blocks[k]] \in Seq(0 .. 255) /\ Len(Blocks[blocks[k]]) = BlockSize
  <2>1. \A k \in 1 .. Len(blocks) : blocks[k] \in DOMAIN Blocks
    BY <1>1
  <2> HIDE DEF blocks
  <2> QED BY <2>1, FileSystemAssumption
<1>3. Content(i) = SubSeq(FlattenSeq(seqs), 1, length)
  BY DEF Content
<1>4. /\ seqs \in Seq(Seq(0 .. 255)) /\ Len(seqs) = Len(blocks)
      /\ \A k \in 1 .. Len(blocks) : seqs[k] = Blocks[blocks[k]]
  <2>1. DOMAIN blocks = 1 .. Len(blocks)
    BY <1>1
  <2> HIDE DEF blocks
  <2> QED BY <1>1, <1>2, <2>1
<1> HIDE DEF seqs
<1>5. CASE length = 0
  <2>1. Content(i) = <<>>
    BY <1>3, <1>5, SubSeqEmpty
  <2> QED BY <1>5, <2>1
<1>6. CASE length # 0
  <2>1. Len(blocks) > 0
    <3>1. CASE Len(blocks) = 0
      <4>1. Len(blocks) * BlockSize = 0
        BY <1>1, <3>1
      <4> HIDE DEF blocks, length
      <4> QED BY <1>1, <1>6, <4>1
    <3> HIDE DEF blocks
    <3> QED BY <1>1, <3>1
  <2> HIDE DEF blocks, length
  <2>2. PICK flat : flat = FlattenSeq(seqs)
    OBVIOUS
  <2>3. \A k \in 1 .. Len(seqs) : Len(seqs[k]) = BlockSize
    BY <1>2, <1>4
  <2>4. /\ flat \in Seq(0 .. 255) /\ Len(flat) = Len(seqs) * BlockSize
        /\ \A y \in 1 .. Len(seqs) * BlockSize :
             flat[y] = seqs[((y - 1) \div BlockSize) + 1][((y - 1) % BlockSize) + 1]
    BY <1>1, <1>4, <2>1, <2>2, <2>3, Flattened, ZenonT(60)
  <2>5. PICK w \in Nat : w = Len(seqs) * BlockSize /\ length <= w
    BY <1>1, <1>4
  <2>6. \A x \in 1 .. length : flat[x] \in 0 .. 255
    <3> TAKE x \in 1 .. length
    <3>1. x \in 1 .. Len(flat)
      BY <1>1, <2>4, <2>5
    <3> QED BY <2>4, <3>1, ElementOfSeq
  <2>7. /\ SubSeq(flat, 1, length) \in Seq(0 .. 255) /\ Len(SubSeq(flat, 1, length)) = length
        /\ \A x \in 1 .. length : SubSeq(flat, 1, length)[x] = flat[x]
    <3>1. length \in Int /\ 1 <= length /\ length - 1 + 1 = length /\ \A x \in 1 .. length : 1 + x - 1 = x
      BY <1>1, <1>6
    <3> QED BY <2>6, <3>1, SubSeqProperties
  <2>8. ASSUME NEW y \in 1 .. length
        PROVE  /\ flat[y] = seqs[((y - 1) \div BlockSize) + 1][((y - 1) % BlockSize) + 1]
               /\ ((y - 1) \div BlockSize) + 1 \in 1 .. Len(blocks)
    <3>1. y \in 1 .. w /\ y - 1 \in 0 .. w - 1 /\ y - 1 \in Nat
      BY <1>1, <2>5
    <3>2. (y - 1) \div BlockSize < Len(blocks)
      <4>1. PICK q \in Nat, s \in 0 .. BlockSize - 1 : q = (y - 1) \div BlockSize /\ y - 1 = BlockSize * q + s
        <5>1. /\ (y - 1) \div BlockSize \in Nat /\ (y - 1) % BlockSize \in 0 .. BlockSize - 1
              /\ y - 1 = BlockSize * ((y - 1) \div BlockSize) + ((y - 1) % BlockSize)
          BY <1>1, <3>1, DivisionFacts
        <5> QED BY <5>1
      <4>2. CASE q >= Len(blocks)
        <5>1. Len(blocks) * BlockSize <= q * BlockSize
          BY <1>1, <4>1, <4>2, ProductGrows
        <5>2. q * BlockSize = BlockSize * q /\ q * BlockSize \in Nat
          BY <1>1, <4>1
        <5> QED BY <1>4, <2>5, <3>1, <4>1, <5>1, <5>2
      <4> QED BY <1>1, <4>1, <4>2
    <3>3. (y - 1) \div BlockSize \in Nat
      BY <1>1, <3>1, DivisionFacts
    <3>4. ((y - 1) \div BlockSize) + 1 \in 1 .. Len(blocks)
      BY <1>1, <3>2, <3>3
    <3>5. y \in 1 .. Len(seqs) * BlockSize
      BY <2>5, <3>1
    <3> QED BY <2>4, <3>4, <3>5
  <2>9. Content(i) = SubSeq(flat, 1, length)
    BY <1>3, <2>2
  <2>10. ASSUME NEW y \in 1 .. length
         PROVE  Content(i)[y] = Blocks[blocks[((y - 1) \div BlockSize) + 1]][((y - 1) % BlockSize) + 1]
    BY <1>4, <2>7, <2>8, <2>9
  <2> QED BY <2>7, <2>9, <2>10 DEF blocks, length
<1> QED BY <1>5, <1>6

\* read_data gives the part of the file that it is asked for, as far as there is one.
THEOREM ReadIsPart ==
  ASSUME NEW i \in DOMAIN Inodes, NEW offset \in Nat, NEW n \in Nat
  PROVE  /\ read_data(i, offset, n) = PartOf(Content(i), offset, n)
         /\ read_data(i, offset, n) \in Seq(0 .. 255)
         /\ Len(read_data(i, offset, n)) = Iterations(Inodes[i], offset, n)
<1> DEFINE it == Iterations(Inodes[i], offset, n)
           length == Inodes[i].length
           content == Content(i)
           end == Min({offset + n, length})
           place == PlacesFrom(offset, it)
           data == [k \in 1 .. it |-> Blocks[Inodes[i].blocks[place[k - 1].ptr]][place[k - 1].at + 1]]
<1>1. /\ it \in Nat /\ length \in Nat
      /\ it = IF offset >= length THEN 0 ELSE IF n <= length - offset THEN n ELSE length - offset
  BY IterationsFacts, FileSystemAssumption
<1>2. end \in Nat /\ end = IF offset + n <= length THEN offset + n ELSE length
  <2>1. PICK l \in Nat, m \in Nat : l = length /\ m = offset + n
    BY <1>1
  <2>2. Min({m, l}) \in {m, l} /\ \A y \in {m, l} : Min({m, l}) <= y
    BY MinFacts
  <2> QED BY <2>1, <2>2
<1>3. /\ content \in Seq(0 .. 255) /\ Len(content) = length
      /\ \A y \in 1 .. length :
           content[y] = Blocks[Inodes[i].blocks[((y - 1) \div BlockSize) + 1]][((y - 1) % BlockSize) + 1]
  BY ContentFacts
<1>4. \A k \in 0 .. it : /\ place[k].ptr = ((offset + k) \div BlockSize) + 1
                         /\ place[k].at = (offset + k) % BlockSize
  <2> HIDE DEF it
  <2> TAKE k \in 0 .. it
  <2>1. place[k] = [ptr |-> ((offset + k) \div BlockSize) + 1, at |-> (offset + k) % BlockSize]
    BY <1>1, PlacesAre
  <2> HIDE DEF place
  <2> QED BY <2>1
<1>5. read_data(i, offset, n) = data
  BY DEF read_data
<1>6. PartOf(content, offset, n) = SubSeq(content, offset + 1, end)
  BY <1>3 DEF PartOf
<1> HIDE DEF it, content, end, place, length
<1>7. \A k \in 1 .. it : offset + k \in 1 .. length /\ data[k] = content[offset + k]
  <2> TAKE k \in 1 .. it
  <2>1. offset + k \in 1 .. length /\ k - 1 \in 0 .. it /\ offset + (k - 1) = (offset + k) - 1
    BY <1>1
  <2>2. PICK p : p = place[k - 1]
    OBVIOUS
  <2>3. p.ptr = (((offset + k) - 1) \div BlockSize) + 1 /\ p.at = ((offset + k) - 1) % BlockSize
    BY <1>4, <2>1, <2>2
  <2>4. content[offset + k] = Blocks[Inodes[i].blocks[p.ptr]][p.at + 1]
    BY <1>3, <2>1, <2>3
  <2>5. data[k] = Blocks[Inodes[i].blocks[p.ptr]][p.at + 1]
    BY <2>2
  <2> HIDE DEF data
  <2> QED BY <2>1, <2>4, <2>5
<1>8. data = [k \in 1 .. it |-> data[k]]
  OBVIOUS
<1>9. data \in Seq(0 .. 255) /\ Len(data) = it
  <2> HIDE DEF data
  <2>1. \A k \in 1 .. it : data[k] \in 0 .. 255
    <3> TAKE k \in 1 .. it
    <3>1. offset + k \in 1 .. length /\ data[k] = content[offset + k]
      BY <1>7
    <3>2. content[offset + k] \in 0 .. 255
      BY <1>3, <3>1, ElementOfSeq
    <3> QED BY <3>1, <3>2
  <2>2. PICK B : B = 0 .. 255
    OBVIOUS
  <2>3. data \in [1 .. it -> B] /\ it \in Nat
    BY <1>1, <1>8, <2>1, <2>2
  <2>4. data \in Seq(B) /\ Len(data) = it
    BY <2>3
  <2> QED BY <2>2, <2>4
<1> HIDE DEF data
<1>10. /\ SubSeq(content, offset + 1, end) \in Seq(0 .. 255)
       /\ Len(SubSeq(content, offset + 1, end)) = it
       /\ \A k \in 1 .. it : SubSeq(content, offset + 1, end)[k] = content[offset + k]
  <2>1. offset + 1 \in Int /\ end \in Int /\ \A x \in offset + 1 .. end : content[x] \in 0 .. 255
    <3>1. \A x \in offset + 1 .. end : x \in 1 .. Len(content)
      BY <1>1, <1>2, <1>3
    <3>2. \A x \in offset + 1 .. end : content[x] \in 0 .. 255
      BY <1>3, <3>1, ElementOfSeq, ZenonT(60)
    <3> QED BY <1>2, <3>2
  <2>2. /\ SubSeq(content, offset + 1, end) \in Seq(0 .. 255)
        /\ Len(SubSeq(content, offset + 1, end)) = IF offset + 1 <= end THEN end - (offset + 1) + 1 ELSE 0
        /\ \A k \in 1 .. end - (offset + 1) + 1 :
             SubSeq(content, offset + 1, end)[k] = content[(offset + 1) + k - 1]
    BY <2>1, SubSeqProperties
  <2>3. it = IF offset + 1 <= end THEN end - (offset + 1) + 1 ELSE 0
    BY <1>1, <1>2
  <2>4. \A k \in 1 .. it : k \in 1 .. end - (offset + 1) + 1 /\ (offset + 1) + k - 1 = offset + k
    BY <1>1, <1>2, <2>3
  <2> QED BY <2>2, <2>3, <2>4
<1>11. data = SubSeq(content, offset + 1, end)
  BY <1>7, <1>9, <1>10, SeqEqual
<1> QED BY <1>5, <1>6, <1>9, <1>11 DEF content, it
-----------------------------------------------------------------------------

\* The bound of the positions is what it is meant to be.
LEMMA MaxPositionFacts ==
  /\ MaxPosition \in Nat
  /\ Len(Dentries) * NameLength \in Nat /\ Len(Dentries) * NameLength <= MaxPosition
  /\ \A i \in DOMAIN Inodes : \A n \in FileReads \cup {0} : Inodes[i].length + n <= MaxPosition
<1> DEFINE D == Len(Dentries) * NameLength
           L == {Inodes[i].length : i \in DOMAIN Inodes} \cup {D}
           R == FileReads \cup {0}
<1>1. D \in Nat
  BY FileSystemAssumption
<1>2. \A i \in DOMAIN Inodes : Inodes[i].length \in Nat
  BY FileSystemAssumption
<1> HIDE DEF D
<1>3. PICK l \in Nat : \A y \in L : y <= l
  <2>1. PICK g : g = [i \in DOMAIN Inodes |-> Inodes[i].length]
    OBVIOUS
  <2>2. PICK b \in Nat : \A i \in DOMAIN Inodes : g[i] <= b
    BY <1>2, <2>1, FileSystemAssumption, Bounded
  <2>3. \A y \in L : y <= b + D
    BY <1>1, <1>2, <2>1, <2>2
  <2> QED BY <1>1, <2>2, <2>3
<1>4. PICK r \in Nat : \A y \in R : y <= r
  <2>1. PICK g : g = [n \in FileReads |-> n]
    OBVIOUS
  <2>2. PICK b \in Nat : \A n \in FileReads : g[n] <= b
    BY <2>1, DescriptorsAssumption, Bounded
  <2> QED BY <2>1, <2>2
<1>5. L \in SUBSET Nat /\ L # {} /\ R \in SUBSET Nat /\ R # {}
  BY <1>1, <1>2, DescriptorsAssumption
<1>6. MaxPosition = Max(L) + Max(R)
  BY DEF MaxPosition, D
<1>7. /\ D \in L /\ \A i \in DOMAIN Inodes : Inodes[i].length \in L
      /\ 0 \in R /\ \A n \in FileReads \cup {0} : n \in R
  OBVIOUS
<1> HIDE DEF L, R
<1>8. /\ Max(L) \in Nat /\ \A y \in L : y <= Max(L)
      /\ Max(R) \in Nat /\ \A y \in R : y <= Max(R)
  BY <1>3, <1>4, <1>5, MaxFacts
<1> QED BY <1>1, <1>2, <1>5, <1>6, <1>7, <1>8 DEF D

LEMMA NoPosition == 0 \in 0 .. MaxPosition
<1>1. MaxPosition \in Nat
  BY MaxPositionFacts
<1> QED BY <1>1

\* What sys_open takes from the directory.
LEMMA EntryFound ==
  ASSUME NEW name, Exists(name)
  PROVE  /\ read_dentry_by_name(name).type \in Types
         /\ read_dentry_by_name(name).inode \in DOMAIN Inodes
<1> DEFINE m == Min(Matching(name))
           D == [name : STRING, type : Types, inode : DOMAIN Inodes]
<1>1. Dentries \in Seq(D)
  BY FileSystemAssumption
<1>2. m \in DOMAIN Dentries
  <2>1. DOMAIN Dentries \subseteq Nat
    <3> HIDE DEF D
    <3> QED BY <1>1
  <2>2. Matching(name) \subseteq DOMAIN Dentries
    BY DEF Matching
  <2>3. Matching(name) \in SUBSET Nat
    BY <2>1, <2>2, Zenon
  <2> QED BY <2>2, <2>3, MinFacts DEF Exists
<1>3. Dentries[m] \in D
  <2> HIDE DEF D, m
  <2> QED BY <1>1, <1>2
<1>4. read_dentry_by_name(name) = Dentries[m]
  BY DEF read_dentry_by_name
<1> QED BY <1>3, <1>4

LEMMA UserFdsAreFds == \A fd \in UserFds : fd \in Fds
BY DescriptorsAssumption DEF Fds, UserFds

\* The free descriptors are numbers, so that there is a first.
LEMMA FreeFacts ==
  ASSUME NEW fa
  PROVE  /\ Free(fa) # {} => Min(Free(fa)) \in Free(fa)
         /\ Free(fa) \cap UserFds # {} => Min(Free(fa) \cap UserFds) \in Free(fa) \cap UserFds
<1>1. Free(fa) \in SUBSET Nat
  BY DescriptorsAssumption DEF Free, Fds
<1> QED BY <1>1, MinFacts

LEMMA FileClosedFacts ==
  ASSUME NEW fa \in [Fds -> Entry], NEW fd \in Fds, fa[fd].flags = 1
  PROVE LET ca == FileClosed(fa, fd) IN
    /\ ca \in [Fds -> Entry] /\ ca[fd].flags = 0 /\ ca[fd].driver = fa[fd].driver
    /\ \A other \in Fds : other # fd => ca[other] = fa[other]
<1> DEFINE new == [fa[fd] EXCEPT !.inode = 0, !.position = 0, !.flags = 0]
<1>1. FileClosed(fa, fd) = [fa EXCEPT ![fd] = new]
  BY DEF FileClosed
<1>2. new \in Entry /\ new.flags = 0 /\ new.driver = fa[fd].driver
  BY FileSystemAssumption, NoPosition, ZenonT(60) DEF Entry
<1> HIDE DEF new
<1> QED BY <1>1, <1>2

LEMMA DirectoryClosedFacts ==
  ASSUME NEW fa \in [Fds -> Entry], NEW fd \in Fds
  PROVE LET ca == DirectoryClosed(fa, fd) IN
    /\ ca \in [Fds -> Entry] /\ ca[fd].flags = 0 /\ ca[fd].driver = fa[fd].driver
    /\ \A other \in Fds : other # fd => ca[other] = fa[other]
<1> DEFINE new == [fa[fd] EXCEPT !.position = 0, !.flags = 0]
<1>1. DirectoryClosed(fa, fd) = [fa EXCEPT ![fd] = new]
  BY DEF DirectoryClosed
<1>2. new \in Entry /\ new.flags = 0 /\ new.driver = fa[fd].driver
  BY NoPosition DEF Entry
<1> HIDE DEF new
<1> QED BY <1>1, <1>2

LEMMA CreatedFacts ==
  ASSUME NEW fa \in [Fds -> Entry]
  PROVE  /\ CreatePcb(fa) \in [Fds -> Entry]
         /\ \A fd \in UserFds : CreatePcb(fa)[fd] = fa[fd]
<1> DEFINE ca == CreatePcb(fa)
<1>1. ASSUME NEW fd \in Fds PROVE ca[fd] \in Entry
  <2>1. CASE fd \in {0, 1}
    <3>1. ca[fd] = [fa[fd] EXCEPT !.driver = "terminal", !.flags = 1]
      BY <2>1 DEF CreatePcb
    <3> QED BY <3>1 DEF Entry, Drivers
  <2>2. CASE fd \notin {0, 1}
    BY <2>2 DEF CreatePcb
  <2> QED BY <2>1, <2>2
<1>2. ca \in [Fds -> Entry]
  <2>1. ca = [fd \in Fds |-> ca[fd]]
    BY DEF CreatePcb
  <2> HIDE DEF ca
  <2> QED BY <1>1, <2>1
<1>3. ASSUME NEW fd \in UserFds PROVE ca[fd] = fa[fd]
  <2>1. fd \in Fds /\ fd \notin {0, 1}
    BY DescriptorsAssumption DEF Fds, UserFds
  <2> QED BY <2>1 DEF CreatePcb
<1> QED BY <1>2, <1>3
\* The claim of sys_execute gives back what it takes.
LEMMA LoadedFacts ==
  ASSUME NEW fa \in [Fds -> Entry]
  PROVE  LET la == LoadedThrough(CreatePcb(fa))
         IN  /\ la \in [Fds -> Entry]
             /\ \A fd \in UserFds :
                  /\ la[fd].flags = fa[fd].flags /\ la[fd].driver = fa[fd].driver
                  /\ fa[fd].flags = 1 => la[fd] = fa[fd]
<1>1. PICK ca \in [Fds -> Entry] :
        ca = CreatePcb(fa) /\ \A fd \in UserFds : fd \in Fds /\ ca[fd] = fa[fd]
  BY CreatedFacts, UserFdsAreFds
<1>2. CASE Free(ca) = {}
  BY <1>1, <1>2 DEF LoadedThrough
<1>3. CASE Free(ca) # {}
  <2>1. PICK fd0 \in Fds : fd0 = Min(Free(ca)) /\ ca[fd0].flags = 0
    BY <1>3, FreeFacts DEF Free
  <2> DEFINE new == [ca[fd0] EXCEPT !.flags = 1, !.position = 0]
             oa == [ca EXCEPT ![fd0] = new]
             la == FileClosed(oa, fd0)
  <2>2. LoadedThrough(ca) = la
    BY <1>3, <2>1 DEF LoadedThrough
  <2>3. new \in Entry /\ new.flags = 1 /\ new.driver = ca[fd0].driver
    BY NoPosition DEF Entry
  <2>4. /\ oa \in [Fds -> Entry] /\ oa[fd0].flags = 1 /\ oa[fd0].driver = ca[fd0].driver
        /\ \A fd \in Fds : fd # fd0 => oa[fd] = ca[fd]
    <3> HIDE DEF new
    <3> QED BY <2>3
  <2>5. /\ la \in [Fds -> Entry] /\ la[fd0].flags = 0 /\ la[fd0].driver = ca[fd0].driver
        /\ \A fd \in Fds : fd # fd0 => la[fd] = ca[fd]
    <3> HIDE DEF oa
    <3> QED BY <2>4, FileClosedFacts
  <2> HIDE DEF la
  <2>6. ASSUME NEW fd \in UserFds
        PROVE  /\ la[fd].flags = fa[fd].flags /\ la[fd].driver = fa[fd].driver
               /\ fa[fd].flags = 1 => la[fd] = fa[fd]
    BY <1>1, <2>1, <2>5
  <2> QED BY <1>1, <2>2, <2>5, <2>6
<1> QED BY <1>2, <1>3

\* Every close keeps the entries entries, and frees the descriptor if its driver
\* closes.
LEMMA ClosedFacts ==
  ASSUME NEW fa \in [Fds -> Entry], NEW fd \in Fds, fa[fd].flags = 1
  PROVE  LET ca == Closed(fa, fd)
         IN  /\ ca \in [Fds -> Entry] /\ ca[fd].driver = fa[fd].driver
             /\ fa[fd].driver \in {"file", "directory"} => ca[fd].flags = 0
             /\ fa[fd].driver \notin {"file", "directory"} => ca = fa
             /\ \A other \in Fds : other # fd => ca[other] = fa[other]
<1>1. CASE fa[fd].driver = "file"
  <2>1. Closed(fa, fd) = FileClosed(fa, fd)
    BY <1>1 DEF Closed
  <2> QED BY <1>1, <2>1, FileClosedFacts
<1>2. CASE fa[fd].driver = "directory"
  <2>1. Closed(fa, fd) = DirectoryClosed(fa, fd)
    BY <1>2 DEF Closed
  <2> QED BY <1>2, <2>1, DirectoryClosedFacts
<1>3. CASE fa[fd].driver \notin {"file", "directory"}
  <2>1. Closed(fa, fd) = fa
    BY <1>3 DEF Closed
  <2> QED BY <1>3, <2>1
<1> QED BY <1>1, <1>2, <1>3
-----------------------------------------------------------------------------
LEMMA InitIInv == Init => IInv
<1> SUFFICES ASSUME Init PROVE IInv
  OBVIOUS
<1>1. ShapeInv
  <2>1. [driver |-> "zero", inode |-> 0, position |-> 0, flags |-> 0] \in Entry
    BY FileSystemAssumption, NoPosition DEF Entry, Drivers
  <2> QED BY <2>1 DEF Init, ShapeInv
<1>2. UseInv /\ GoneInv /\ DirectoryInv /\ FileInv
  BY UserFdsAreFds DEF Init, UseInv, GoneInv, DirectoryInv, FileInv, HasOpen, Nothing, Left
<1> QED BY <1>1, <1>2 DEF IInv

LEMMA ExecuteStep == ASSUME IInv, Execute PROVE IInv'
<1> USE DEF IInv
<1>1. /\ file_array' = LoadedThrough(CreatePcb(file_array))
      /\ ~running /\ running' \in BOOLEAN
      /\ held' = held /\ delivered' = delivered
  BY DEF Execute
<1>2. /\ file_array' \in [Fds -> Entry]
      /\ \A fd \in UserFds :
           /\ file_array'[fd].flags = file_array[fd].flags
           /\ file_array'[fd].driver = file_array[fd].driver
           /\ file_array[fd].flags = 1 => file_array'[fd] = file_array[fd]
  BY <1>1, LoadedFacts DEF ShapeInv
<1>3. \A fd \in Fds : held[fd] \in {Nothing, Left}
  BY <1>1 DEF GoneInv
<1>4. ShapeInv' /\ UseInv' /\ GoneInv'
  BY <1>1, <1>2, <1>3 DEF ShapeInv, UseInv, GoneInv
<1>5. \A fd \in UserFds : held'[fd] \in {Nothing, Left}
  BY <1>1, <1>3, UserFdsAreFds
<1> QED BY <1>4, <1>5 DEF DirectoryInv, FileInv, HasOpen

LEMMA OpenStep == ASSUME IInv, NEW name \in OpenNames, Open(name) PROVE IInv'
<1> USE DEF IInv
<1> DEFINE dentry == read_dentry_by_name(name)
<1>1. PICK fd0 \in UserFds : fd0 = Min(Free(file_array) \cap UserFds)
  BY FreeFacts DEF Open
<1>2. PICK new : new = [driver |-> dentry.type, inode |-> dentry.inode, position |-> 0, flags |-> 1]
  OBVIOUS
<1>3. /\ running /\ running' = running /\ Exists(name)
      /\ file_array' = [file_array EXCEPT ![fd0] = new]
      /\ held' = [held EXCEPT ![fd0] = name]
      /\ delivered' = [delivered EXCEPT ![fd0] = 0]
  BY <1>1, <1>2 DEF Open
<1>4. dentry.type \in Types /\ dentry.inode \in DOMAIN Inodes
  BY <1>3, EntryFound
<1>5. /\ new \in Entry /\ new.flags = 1 /\ new.driver = dentry.type /\ new.position = 0
      /\ new.inode \in DOMAIN Inodes
  BY <1>2, <1>4, NoPosition DEF Entry, Drivers
<1>6. name # Nothing /\ name # Left
  BY DescriptorsAssumption
<1>7. ShapeInv'
  BY <1>3, <1>5, UserFdsAreFds DEF ShapeInv
<1>8. \A fd \in UserFds : fd # fd0 =>
        /\ file_array'[fd] = file_array[fd] /\ held'[fd] = held[fd]
        /\ delivered'[fd] = delivered[fd]
  BY <1>3, UserFdsAreFds DEF ShapeInv
<1>9. file_array'[fd0] = new /\ held'[fd0] = name /\ delivered'[fd0] = 0
  BY <1>3, UserFdsAreFds DEF ShapeInv
<1>10. UseInv'
  <2>1. 0 \in 0 .. Len(Dentries) /\ 0 * NameLength = 0
    BY FileSystemAssumption
  <2>2. /\ file_array'[fd0].driver \in Types /\ file_array'[fd0].flags = 1
        /\ file_array'[fd0].position = 0 * NameLength /\ held'[fd0] # Nothing
    BY <1>4, <1>5, <1>6, <1>9, <2>1
  <2> QED BY <1>8, <2>1, <2>2 DEF UseInv
<1>11. GoneInv'
  BY <1>3 DEF GoneInv
<1>12. DirectoryInv'
  <2>1. Len(Dentries) \in Nat /\ 0 * NameLength = 0
    BY FileSystemAssumption
  <2>2. SUFFICES ASSUME NEW fd \in UserFds, HasOpen(fd, "directory")'
                 PROVE  /\ file_array'[fd].driver = "directory"
                        /\ delivered'[fd] \in 0 .. Len(Dentries)
                        /\ file_array'[fd].position = delivered'[fd] * NameLength
    BY DEF DirectoryInv
  <2>3. CASE fd = fd0
    <3>1. dentry.type = "directory"
      BY <1>9, <2>2, <2>3 DEF HasOpen
    <3> QED BY <1>5, <1>9, <2>1, <2>3, <3>1
  <2>4. CASE fd # fd0
    <3>1. HasOpen(fd, "directory")
      BY <1>8, <2>2, <2>4 DEF HasOpen
    <3> QED BY <1>8, <2>4, <3>1 DEF DirectoryInv
  <2> QED BY <2>3, <2>4
<1>13. FileInv'
  <2> SUFFICES ASSUME 0 \notin FileReads, NEW fd \in UserFds, HasOpen(fd, "file")'
               PROVE  /\ file_array'[fd].driver = "file"
                      /\ file_array'[fd].inode = read_dentry_by_name(held'[fd]).inode
                      /\ delivered'[fd] = IF file_array'[fd].position <= Inodes[file_array'[fd].inode].length
                                         THEN file_array'[fd].position
                                         ELSE Inodes[file_array'[fd].inode].length
    BY DEF FileInv
  <2>1. CASE fd = fd0
    <3>1. dentry.type = "file"
      BY <1>9, <2>1 DEF HasOpen
    <3>2. Inodes[dentry.inode].length \in Nat
      BY <1>4, FileSystemAssumption
    <3>3. new.inode = dentry.inode
      BY <1>2
    <3> QED BY <1>5, <1>9, <2>1, <3>1, <3>2, <3>3
  <2>2. CASE fd # fd0
    <3>1. HasOpen(fd, "file")
      BY <1>8, <2>2 DEF HasOpen
    <3> QED BY <1>8, <2>2, <3>1 DEF FileInv
  <2> QED BY <2>1, <2>2
<1> QED BY <1>7, <1>10, <1>11, <1>12, <1>13

\* The position behind d entries is the place of the next one.
LEMMA PlaceInDirectory ==
  \A d \in 0 .. Len(Dentries) : (d * NameLength) \div NameLength = d
BY FileSystemAssumption

\* A part that is one long.
LEMMA OneLong ==
  ASSUME NEW S, NEW seq \in Seq(S), NEW n \in 1 .. Len(seq)
  PROVE  SubSeq(seq, n, n) = <<seq[n]>>
<1>1. n \in Int /\ \A i \in n .. n : seq[i] \in S
  OBVIOUS
<1>2. /\ SubSeq(seq, n, n) \in Seq(S) /\ Len(SubSeq(seq, n, n)) = IF n <= n THEN n - n + 1 ELSE 0
      /\ \A i \in 1 .. n - n + 1 : SubSeq(seq, n, n)[i] = seq[n + i - 1]
  BY <1>1, SubSeqProperties
<1>3. /\ SubSeq(seq, n, n) \in Seq(S) /\ Len(SubSeq(seq, n, n)) = 1
      /\ SubSeq(seq, n, n)[1] = seq[n]
  BY <1>1, <1>2
<1>4. \A t \in Seq(S) : Len(t) = 1 => t = <<t[1]>>
  OBVIOUS
<1> QED BY <1>3, <1>4

\* The part of a directory from the entry after the first d, one long or empty.
LEMMA NextEntry ==
  ASSUME NEW d \in 0 .. Len(Dentries)
  PROVE  SubSeq(Dentries, d + 1, Min({d + 1, Len(Dentries)}))
           = IF d = Len(Dentries) THEN <<>> ELSE <<Dentries[d + 1]>>
<1>1. Len(Dentries) \in Nat
  BY FileSystemAssumption
<1>2. PICK m \in Nat : m = Min({d + 1, Len(Dentries)}) /\ m = IF d = Len(Dentries) THEN d ELSE d + 1
  BY <1>1, MinFacts
<1>3. CASE d = Len(Dentries)
  BY <1>1, <1>2, <1>3, FileSystemAssumption
<1>4. CASE d # Len(Dentries)
  <2>1. PICK S : Dentries \in Seq(S)
    BY FileSystemAssumption
  <2>2. d + 1 \in 1 .. Len(Dentries)
    BY <1>1, <1>4
  <2> QED BY <1>2, <1>4, <2>1, <2>2, OneLong
<1> QED BY <1>2, <1>3, <1>4

\* A read that moves the position of a descriptor in use.
LEMMA Moved ==
  ASSUME NEW fa \in [Fds -> Entry], NEW fd \in Fds, NEW p \in 0 .. MaxPosition
  PROVE  LET ma == [fa EXCEPT ![fd].position = p]
         IN  /\ ma \in [Fds -> Entry]
             /\ ma[fd].driver = fa[fd].driver /\ ma[fd].inode = fa[fd].inode
             /\ ma[fd].flags = fa[fd].flags /\ ma[fd].position = p
             /\ \A other \in Fds : other # fd => ma[other] = fa[other]
<1> DEFINE new == [fa[fd] EXCEPT !.position = p]
<1>1. [fa EXCEPT ![fd].position = p] = [fa EXCEPT ![fd] = new]
  OBVIOUS
<1>2. /\ new \in Entry /\ new.driver = fa[fd].driver /\ new.inode = fa[fd].inode
      /\ new.flags = fa[fd].flags /\ new.position = p
  BY DEF Entry
<1> HIDE DEF new
<1> QED BY <1>1, <1>2

LEMMA FileReadStep ==
  ASSUME IInv, NEW fd0 \in UserFds, NEW n \in FileReads, FileRead(fd0, n)
  PROVE  IInv'
<1> USE DEF IInv
<1>1. /\ running /\ file_array[fd0].flags = 1 /\ file_array[fd0].driver = "file"
      /\ file_array[fd0].position \in Nat
  BY UserFdsAreFds DEF FileRead, ShapeInv, Entry
<1> DEFINE entry == file_array[fd0]
           length == Inodes[entry.inode].length
           result == FileResult(fd0, n)
<1>2. entry.inode \in DOMAIN Inodes /\ length \in Nat /\ n \in Nat
  <2>1. entry \in Entry
    BY UserFdsAreFds DEF ShapeInv
  <2>2. entry.inode \in DOMAIN Inodes
    BY <2>1 DEF Entry
  <2> QED BY <2>2, FileSystemAssumption, DescriptorsAssumption
<1>3. PICK l \in Nat :
        /\ l = Len(result)
        /\ result = <<>> <=> l = 0
        /\ l = IF entry.position >= length THEN 0
               ELSE IF n <= length - entry.position THEN n ELSE length - entry.position
  <2>1. /\ result \in Seq(0 .. 255)
        /\ Len(result) = Iterations(Inodes[entry.inode], entry.position, n)
    BY <1>1, <1>2, ReadIsPart, ZenonT(60) DEF FileResult
  <2>2. /\ Iterations(Inodes[entry.inode], entry.position, n) \in Nat
        /\ Iterations(Inodes[entry.inode], entry.position, n) =
             IF entry.position >= length THEN 0
             ELSE IF n <= length - entry.position THEN n ELSE length - entry.position
    BY <1>1, <1>2, IterationsFacts
  <2>3. result = <<>> <=> Len(result) = 0
    BY <2>1, EmptySeq
  <2> HIDE DEF result, entry
  <2> QED BY <2>1, <2>2, <2>3
<1>4. PICK p \in 0 .. MaxPosition :
        p = PositionAfter(fd0, n) /\ p = IF l = 0 THEN length ELSE entry.position + n
  <2>1. PositionAfter(fd0, n) = IF l = 0 THEN length ELSE entry.position + n
    BY <1>3 DEF PositionAfter
  <2>2. length + n <= MaxPosition /\ length + 0 <= MaxPosition /\ MaxPosition \in Nat
    BY <1>2, MaxPositionFacts
  <2>3. PICK at \in Nat, len \in Nat, max \in Nat :
          at = entry.position /\ len = length /\ max = MaxPosition
    BY <1>1, <1>2, <2>2
  <2> HIDE DEF entry, length
  <2>4. l = IF at >= len THEN 0 ELSE IF n <= len - at THEN n ELSE len - at
    BY <1>3, <2>3
  <2>5. (IF l = 0 THEN len ELSE at + n) \in 0 .. max
    <3>1. l # 0 => at < len
      BY <2>3, <2>4
    <3> QED BY <1>2, <2>2, <2>3, <3>1
  <2> QED BY <2>1, <2>3, <2>5
<1>5. /\ file_array' = [file_array EXCEPT ![fd0].position = p]
      /\ running' = running /\ held' = held
      /\ delivered' = [delivered EXCEPT ![fd0] = @ + l]
  BY <1>3, <1>4 DEF FileRead
<1>6. /\ file_array' \in [Fds -> Entry] /\ file_array'[fd0].position = p
      /\ \A fd \in UserFds : /\ file_array'[fd].flags = file_array[fd].flags
                             /\ file_array'[fd].driver = file_array[fd].driver
                             /\ file_array'[fd].inode = file_array[fd].inode
                             /\ fd # fd0 => file_array'[fd] = file_array[fd]
  BY <1>5, Moved, UserFdsAreFds DEF ShapeInv
<1>7. /\ delivered' \in [Fds -> Nat] /\ delivered'[fd0] = delivered[fd0] + l
      /\ \A fd \in UserFds : fd # fd0 => delivered'[fd] = delivered[fd]
  BY <1>3, <1>5, UserFdsAreFds DEF ShapeInv
<1>8. ShapeInv' /\ UseInv' /\ GoneInv'
  BY <1>1, <1>5, <1>6, <1>7 DEF ShapeInv, UseInv, GoneInv
<1>9. ~HasOpen(fd0, "directory")
  BY <1>1 DEF DirectoryInv
<1>10. DirectoryInv'
  BY <1>5, <1>6, <1>7, <1>9 DEF DirectoryInv, HasOpen
<1>11. FileInv'
  <2> SUFFICES ASSUME 0 \notin FileReads, NEW fd \in UserFds, HasOpen(fd, "file")'
               PROVE  /\ file_array'[fd].driver = "file"
                      /\ file_array'[fd].inode = read_dentry_by_name(held'[fd]).inode
                      /\ delivered'[fd] = IF file_array'[fd].position <= Inodes[file_array'[fd].inode].length
                                         THEN file_array'[fd].position
                                         ELSE Inodes[file_array'[fd].inode].length
    BY DEF FileInv
  <2>1. HasOpen(fd, "file")
    BY <1>5 DEF HasOpen
  <2>2. CASE fd = fd0
    <3>1. /\ entry.driver = "file" /\ entry.inode = read_dentry_by_name(held[fd0]).inode
          /\ delivered[fd0] = IF entry.position <= length THEN entry.position ELSE length
      BY <2>1, <2>2 DEF FileInv
    <3>2. n # 0
      BY DEF FileRead
    <3>3. delivered'[fd0] = IF p <= length THEN p ELSE length
      <4>1. PICK q \in Nat : q = entry.position
        BY <1>1
      <4> HIDE DEF entry, length
      <4> QED BY <1>2, <1>3, <1>4, <1>7, <3>1, <3>2, <4>1
    <3>4. file_array'[fd0].driver = "file" /\ file_array'[fd0].inode = entry.inode
      BY <1>1, <1>6
    <3> QED BY <1>5, <1>6, <2>2, <3>1, <3>3, <3>4
  <2>3. CASE fd # fd0
    BY <1>5, <1>6, <1>7, <2>1, <2>3 DEF FileInv
  <2> QED BY <2>2, <2>3
<1> QED BY <1>8, <1>10, <1>11

LEMMA DirectoryReadStep ==
  ASSUME IInv, NEW fd0 \in UserFds, NEW n \in DirectoryReads, DirectoryRead(fd0, n)
  PROVE  IInv'
<1> USE DEF IInv
<1>1. /\ running /\ file_array[fd0].flags = 1 /\ file_array[fd0].driver = "directory"
      /\ file_array[fd0].position \in Nat /\ DirectoryResult(fd0) # <<>>
  BY UserFdsAreFds DEF DirectoryRead, ShapeInv, Entry
<1>2. NameLength \in Nat \ {0} /\ Len(Dentries) \in Nat
  BY FileSystemAssumption
<1>3. DirectoryAdvance(n) = NameLength
  <2>1. n \in Nat /\ n >= NameLength
    BY DescriptorsAssumption
  <2> QED BY <1>2, <2>1, MinFacts DEF DirectoryAdvance
<1>4. PICK p \in 0 .. MaxPosition :
        /\ p = file_array[fd0].position + NameLength
        /\ \E d \in 0 .. Len(Dentries) : p = d * NameLength
  <2>1. PICK d \in 0 .. Len(Dentries) : file_array[fd0].position = d * NameLength
    BY <1>1 DEF UseInv
  <2>2. d # Len(Dentries)
    BY <1>1, <1>2, <2>1, PlaceInDirectory DEF DirectoryResult
  <2>3. d + 1 \in 0 .. Len(Dentries) /\ d * NameLength + NameLength = (d + 1) * NameLength
    BY <1>2, <2>1, <2>2
  <2>4. /\ (d + 1) * NameLength \in Nat
        /\ (d + 1) * NameLength <= Len(Dentries) * NameLength
    BY <1>2, <2>3, ProductGrows
  <2>5. PICK w \in Nat : w = (d + 1) * NameLength
    BY <2>4
  <2>6. w \in 0 .. MaxPosition
    BY <2>4, <2>5, MaxPositionFacts
  <2> QED BY <2>1, <2>3, <2>5, <2>6
<1>5. /\ file_array' = [file_array EXCEPT ![fd0].position = p]
      /\ running' = running /\ held' = held
      /\ delivered' = [delivered EXCEPT ![fd0] = @ + 1]
  BY <1>3, <1>4 DEF DirectoryRead
<1>6. /\ file_array' \in [Fds -> Entry] /\ file_array'[fd0].position = p
      /\ \A fd \in UserFds : /\ file_array'[fd].flags = file_array[fd].flags
                             /\ file_array'[fd].driver = file_array[fd].driver
                             /\ file_array'[fd].inode = file_array[fd].inode
                             /\ fd # fd0 => file_array'[fd] = file_array[fd]
  BY <1>5, Moved, UserFdsAreFds DEF ShapeInv
<1>7. /\ delivered' \in [Fds -> Nat] /\ delivered'[fd0] = delivered[fd0] + 1
      /\ \A fd \in UserFds : fd # fd0 => delivered'[fd] = delivered[fd]
  BY <1>5, UserFdsAreFds DEF ShapeInv
<1>8. ShapeInv' /\ UseInv' /\ GoneInv'
  BY <1>4, <1>5, <1>6, <1>7 DEF ShapeInv, UseInv, GoneInv
<1>9. HasOpen(fd0, "directory") =>
        /\ delivered'[fd0] \in 0 .. Len(Dentries)
        /\ file_array'[fd0].position = delivered'[fd0] * NameLength
  <2> SUFFICES ASSUME HasOpen(fd0, "directory")
               PROVE  /\ delivered'[fd0] \in 0 .. Len(Dentries)
                      /\ file_array'[fd0].position = delivered'[fd0] * NameLength
    OBVIOUS
  <2>1. PICK d \in 0 .. Len(Dentries) :
          d = delivered[fd0] /\ file_array[fd0].position = d * NameLength
    BY DEF DirectoryInv
  <2>2. d # Len(Dentries)
    BY <1>1, <1>2, <2>1, PlaceInDirectory DEF DirectoryResult
  <2>3. d * NameLength + NameLength = (d + 1) * NameLength
    BY <1>2, <2>1
  <2> QED BY <1>2, <1>4, <1>6, <1>7, <2>1, <2>2, <2>3
<1>10. DirectoryInv'
  BY <1>5, <1>6, <1>7, <1>9 DEF DirectoryInv, HasOpen
<1>11. FileInv'
  BY <1>1, <1>5, <1>6, <1>7 DEF FileInv, HasOpen
<1> QED BY <1>8, <1>10, <1>11

LEMMA CloseStep == ASSUME IInv, NEW fd0 \in UserFds, Close(fd0) PROVE IInv'
<1> USE DEF IInv
<1>1. fd0 \in Fds /\ file_array[fd0].flags = 1
  BY UserFdsAreFds DEF Close, ShapeInv, Entry
<1>2. /\ file_array' = Closed(file_array, fd0)
      /\ running' = running /\ running
      /\ held' = [held EXCEPT ![fd0] = Nothing]
      /\ delivered' = [delivered EXCEPT ![fd0] = 0]
  BY DEF Close
<1>3. /\ file_array' \in [Fds -> Entry] /\ file_array'[fd0].driver = file_array[fd0].driver
      /\ file_array[fd0].driver \in {"file", "directory"} => file_array'[fd0].flags = 0
      /\ file_array[fd0].driver \notin {"file", "directory"} => file_array' = file_array
      /\ \A fd \in Fds : fd # fd0 => file_array'[fd] = file_array[fd]
  BY <1>1, <1>2, ClosedFacts DEF ShapeInv
<1>4. /\ held' \in [Fds -> OpenNames \cup {Nothing, Left}] /\ held'[fd0] = Nothing
      /\ delivered' \in [Fds -> Nat]
      /\ \A fd \in Fds : fd # fd0 => held'[fd] = held[fd] /\ delivered'[fd] = delivered[fd]
  BY <1>1, <1>2 DEF ShapeInv
<1>5. ShapeInv' /\ GoneInv'
  BY <1>2, <1>3, <1>4 DEF ShapeInv, GoneInv
<1>6. UseInv'
  <2>1. file_array[fd0].driver \in Types
    BY <1>1 DEF UseInv
  <2> QED BY <1>1, <1>3, <1>4, <2>1, UserFdsAreFds DEF UseInv, Types
<1>7. DirectoryInv' /\ FileInv'
  BY <1>3, <1>4, UserFdsAreFds DEF DirectoryInv, FileInv, HasOpen
<1> QED BY <1>5, <1>6, <1>7

LEMMA HaltStep == ASSUME IInv, Halt PROVE IInv'
<1> USE DEF IInv
<1>1. /\ file_array' = Halted(file_array) /\ running' = FALSE
      /\ held' = [fd \in Fds |-> Nothing] /\ delivered' = [fd \in Fds |-> 0]
  BY DEF Halt
<1>2. ASSUME NEW fd \in Fds
      PROVE  Halted(file_array)[fd] \in Entry /\ Halted(file_array)[fd].flags = 0
  <2>1. PICK e \in Entry : e = IF file_array[fd].flags = 1 THEN Closed(file_array, fd)[fd]
                                                           ELSE file_array[fd]
    BY ClosedFacts DEF ShapeInv
  <2>2. Halted(file_array)[fd] = [e EXCEPT !.flags = 0]
    BY <2>1 DEF Halted
  <2> QED BY <2>2 DEF Entry
<1>3. file_array' \in [Fds -> Entry]
  <2>1. Halted(file_array) = [fd \in Fds |-> Halted(file_array)[fd]]
    BY DEF Halted
  <2> QED BY <1>1, <1>2, <2>1
<1>4. \A fd \in UserFds : file_array'[fd].flags = 0 /\ held'[fd] = Nothing
  BY <1>1, <1>2, UserFdsAreFds
<1>5. ShapeInv' /\ GoneInv'
  BY <1>1, <1>3 DEF ShapeInv, GoneInv
<1> QED BY <1>4, <1>5 DEF UseInv, DirectoryInv, FileInv, HasOpen

LEMMA RestartStep == ASSUME IInv, Restart PROVE IInv'
<1> USE DEF IInv
<1>1. /\ file_array' = file_array /\ running' = FALSE
      /\ held' = [fd \in Fds |-> IF held[fd] = Nothing THEN Nothing ELSE Left]
      /\ delivered' = [fd \in Fds |-> 0]
  BY DEF Restart
<1>2. Left # Nothing
  BY DEF Left, Nothing
<1>3. \A fd \in UserFds : held'[fd] \in {Nothing, Left} /\ (held'[fd] # Nothing <=> held[fd] # Nothing)
  BY <1>1, <1>2, UserFdsAreFds
<1>4. ShapeInv' /\ GoneInv'
  BY <1>1 DEF ShapeInv, GoneInv
<1> QED BY <1>1, <1>3, <1>4 DEF UseInv, DirectoryInv, FileInv, HasOpen
-----------------------------------------------------------------------------
THEOREM Invariance == Spec => []IInv
<1>1. IInv /\ [Next]_vars => IInv'
  <2> SUFFICES ASSUME IInv, [Next]_vars PROVE IInv'
    OBVIOUS
  <2>1. CASE UNCHANGED vars
    BY <2>1 DEF vars, IInv, ShapeInv, UseInv, GoneInv, DirectoryInv, FileInv, HasOpen
  <2> QED BY <2>1, ExecuteStep, OpenStep, FileReadStep, DirectoryReadStep, CloseStep,
             HaltStep, RestartStep DEF Next
<1> QED BY InitIInv, <1>1, PTL DEF Spec

\* A descriptor of a driver that closes is in use exactly from its open to its
\* close, whatever processes use the slot and however they end.
THEOREM UseUntilClose == Spec => []InUseUntilClosed
<1>1. IInv => InUseUntilClosed
  BY DEF IInv, UseInv, InUseUntilClosed
<1> QED BY <1>1, Invariance, PTL

\* However often and through however many descriptors a directory is read, each
\* gets every entry once, in order.
THEOREM DirectoriesListed == Spec => []DirectoryIsListed
<1>1. IInv => DirectoryIsListed
  <2> SUFFICES ASSUME IInv, NEW fd \in UserFds, HasOpen(fd, "directory")
               PROVE  DirectoryResult(fd) =
                        SubSeq(Dentries, delivered[fd] + 1, Min({delivered[fd] + 1, Len(Dentries)}))
    BY DEF DirectoryIsListed
  <2>1. PICK d \in 0 .. Len(Dentries) :
          d = delivered[fd] /\ file_array[fd].position = d * NameLength
    BY DEF IInv, DirectoryInv
  <2>2. DirectoryResult(fd) = IF d = Len(Dentries) THEN <<>> ELSE <<Dentries[d + 1]>>
    BY <2>1, PlaceInDirectory DEF DirectoryResult, read_dentry_by_index
  <2> QED BY <2>1, <2>2, NextEntry
<1> QED BY <1>1, Invariance, PTL

\* Every variable keeps its type: in particular a position never runs further beyond
\* the end of the largest file, or of the directory, than the largest read.
THEOREM TypeCorrect == Spec => []TypeOK
<1>1. IInv => TypeOK
  BY DEF IInv, ShapeInv, TypeOK, Entry, Drivers
<1> QED BY <1>1, Invariance, PTL

\* Reads of at least one byte give the bytes of a file in order, wherever they are
\* cut, however long the file is and however its blocks lie on the disk.
THEOREM FilesReadInOrder == 0 \notin FileReads /\ Spec => []NextReadIsNextBytes
<1> SUFFICES ASSUME 0 \notin FileReads PROVE Spec => []NextReadIsNextBytes
  OBVIOUS
<1>1. IInv => NextReadIsNextBytes
  <2> SUFFICES ASSUME IInv, NEW fd \in UserFds, HasOpen(fd, "file"), NEW n \in FileReads
               PROVE  FileResult(fd, n) =
                        PartOf(Content(read_dentry_by_name(held[fd]).inode), delivered[fd], n)
    BY DEF NextReadIsNextBytes
  <2> DEFINE entry == file_array[fd]
             length == Inodes[entry.inode].length
  <2>1. /\ entry.inode = read_dentry_by_name(held[fd]).inode
        /\ delivered[fd] = IF entry.position <= length THEN entry.position ELSE length
    BY DEF IInv, FileInv
  <2>2. /\ entry.inode \in DOMAIN Inodes /\ entry.position \in Nat /\ length \in Nat /\ n \in Nat
    <3>1. entry \in Entry
      BY UserFdsAreFds DEF IInv, ShapeInv
    <3>2. entry.inode \in DOMAIN Inodes /\ entry.position \in Nat
      BY <3>1, MaxPositionFacts DEF Entry
    <3> QED BY <3>2, FileSystemAssumption, DescriptorsAssumption
  <2>3. FileResult(fd, n) = PartOf(Content(entry.inode), entry.position, n)
    BY <2>2, ReadIsPart DEF FileResult
  <2>4. CASE entry.position <= length
    BY <2>1, <2>3, <2>4
  <2>5. CASE ~(entry.position <= length)
    <3>1. \A offset \in Nat : offset >= length => PartOf(Content(entry.inode), offset, n) = <<>>
      <4> TAKE offset \in Nat
      <4> HAVE offset >= length
      <4>1. Iterations(Inodes[entry.inode], offset, n) = 0
        BY <2>2, IterationsFacts
      <4>2. Len(read_data(entry.inode, offset, n)) = 0
        BY <2>2, <4>1, ReadIsPart
      <4> QED BY <2>2, <4>2, ReadIsPart, EmptySeq
    <3>2. length >= length /\ entry.position >= length
      BY <2>2, <2>5
    <3> QED BY <2>1, <2>2, <2>3, <2>5, <3>1, <3>2
  <2> QED BY <2>4, <2>5
<1> QED BY <1>1, Invariance, PTL
=============================================================================
