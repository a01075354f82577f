---------------------------- MODULE PltzFsProofs ----------------------------
(***************************************************************************)
(* Proofs about PltzFs for any number of blocks, files and directories:    *)
(* no block has two owners and the bitmap knows them all; the directories  *)
(* form a tree; a name once found keeps naming the same inode; what a sync *)
(* wrote is read back as the filesystem, whatever is created later.        *)
(***************************************************************************)
EXTENDS PltzFs, FiniteSetTheorems, SequenceTheorems, WellFoundedInduction, TLAPS

-----------------------------------------------------------------------------
(* The inductive invariant *)

DirEntries == [ino : Nat, name : Names \union {".", ".."}]

(* The tables fit together: every inode is a directory with its entries or a file with *)
(* its data, and no entry names an inode that is still to come.                         *)
TablesOK ==
  /\ DOMAIN dirs \subseteq {i \in DOMAIN inodes : inodes[i].dir}
  /\ \A i \in DOMAIN inodes : inodes[i].dir => i \in DOMAIN dirs
  /\ \A d \in DOMAIN dirs :
       /\ dirs[d] \in Seq(DirEntries) /\ Len(dirs[d]) >= 2
       /\ \A k \in DOMAIN dirs[d] : dirs[d][k].ino < nextIno

IInv ==
  /\ TypeOK /\ TablesOK
  /\ BlocksOwnedOnce /\ BitmapExact
  /\ DirectoriesFormATree

-----------------------------------------------------------------------------
(* Blocks *)

\* The least of a set of naturals.
LEMMA MinIs ==
  ASSUME NEW S, S \subseteq Nat, S # {}
  PROVE  Min(S) \in S /\ \A k \in S : Min(S) <= k
<1> DEFINE R == OpToRel(<, Nat)
<1>1. IsWellFoundedOn(R, Nat)
  BY NatLessThanWellFounded
<1>2. PICK m \in S : \A k \in S : <<k, m>> \notin R
  <2> HIDE DEF R
  <2> QED BY <1>1, WFMin
<1>3. \A k \in S : ~(k < m)
  BY <1>2 DEF OpToRel
<1>4. m \in S /\ \A k \in S : m <= k
  BY <1>3
<1> QED BY <1>4 DEF Min

\* The smaller of two numbers.
LEMMA MinOfTwo ==
  ASSUME NEW m \in Nat, NEW n \in Nat
  PROVE  /\ Min({m, n}) \in Nat /\ Min({m, n}) <= m /\ Min({m, n}) <= n
         /\ Min({m, n}) = m <=> m <= n
BY MinIs

\* The blocks are bits of the bitmap, and finitely many of them are free.
LEMMA FreeIs ==
  /\ 0 .. TotalBlocks - 1 \subseteq Bits
  /\ Free \subseteq Nat /\ IsFiniteSet(Free) /\ Cardinality(Free) \in Nat
<1>1. 0 .. TotalBlocks - 1 \subseteq Bits
  BY PltzFsAssumption DEF Bits
<1>2. IsFiniteSet(0 .. TotalBlocks - 1)
  BY PltzFsAssumption, FS_Interval
<1>3. Free \subseteq 0 .. TotalBlocks - 1
  BY DEF Free
<1>4. IsFiniteSet(Free)
  BY <1>2, <1>3, FS_Subset
<1> QED BY <1>1, <1>3, <1>4, FS_CardinalityType

\* How many of S come before b.
Ahead(S, b) == Cardinality({c \in S : c < b})

\* Fewer come before one of them than there are, and fewer before a lower one.
LEMMA AheadIs ==
  ASSUME NEW S, S \subseteq Nat, IsFiniteSet(S), NEW b \in S
  PROVE  /\ Ahead(S, b) \in 0 .. Cardinality(S) - 1
         /\ \A c \in S : c < b => Ahead(S, c) < Ahead(S, b)
<1> DEFINE Lower(x) == {c \in S : c < x}
<1>1. ASSUME NEW x \in S
      PROVE  IsFiniteSet(Lower(x)) /\ Cardinality(Lower(x)) \in Nat
  <2>1. Lower(x) \in SUBSET S
    OBVIOUS
  <2> QED BY <2>1, FS_Subset, FS_CardinalityType
<1>2. Cardinality(Lower(b)) < Cardinality(S) /\ Cardinality(S) \in Nat
  <2>1. Lower(b) \in SUBSET S /\ Lower(b) # S
    OBVIOUS
  <2> QED BY <1>1, <2>1, FS_Subset, FS_CardinalityType
<1>3. ASSUME NEW c \in S, c < b
      PROVE  Cardinality(Lower(c)) < Cardinality(Lower(b))
  <2>1. c \in Lower(b) /\ c \notin Lower(c)
    BY <1>3
  <2>2. ASSUME NEW x \in Lower(c) PROVE x \in Lower(b)
    <3>1. x \in Nat /\ b \in Nat /\ c \in Nat /\ x < c
      OBVIOUS
    <3>2. x < b
      BY <1>3, <3>1
    <3> QED BY <3>2
  <2>3. Lower(c) \in SUBSET Lower(b) /\ Lower(c) # Lower(b)
    BY <2>1, <2>2
  <2> QED BY <1>1, <2>3, FS_Subset
<1> QED BY <1>1, <1>2, <1>3 DEF Ahead

\* Two of them have different numbers of others before them.
LEMMA AheadInjective ==
  ASSUME NEW S, S \subseteq Nat, IsFiniteSet(S), NEW b \in S, NEW c \in S, Ahead(S, b) = Ahead(S, c)
  PROVE  b = c
<1>1. Cardinality(S) \in Nat
  BY FS_CardinalityType
<1>2. ASSUME NEW x \in S
      PROVE  Ahead(S, x) \in Nat /\ \A y \in S : y < x => Ahead(S, y) < Ahead(S, x)
  <2>1. Ahead(S, x) \in 0 .. Cardinality(S) - 1 /\ \A y \in S : y < x => Ahead(S, y) < Ahead(S, x)
    BY AheadIs
  <2> QED BY <1>1, <2>1
<1>3. ~(b < c) /\ ~(c < b)
  BY <1>2
<1> QED BY <1>3

\* So there is one of them with any number of others before it.
LEMMA AheadOnto ==
  ASSUME NEW S, S \subseteq Nat, IsFiniteSet(S), NEW j \in 0 .. Cardinality(S) - 1
  PROVE  \E b \in S : Ahead(S, b) = j
<1> SUFFICES ASSUME \A b \in S : Ahead(S, b) # j PROVE FALSE
  OBVIOUS
<1> DEFINE T == (0 .. Cardinality(S) - 1) \ {j}
           f == [b \in S |-> Ahead(S, b)]
<1>1. Cardinality(S) \in Nat
  BY FS_CardinalityType
<1>2. IsFiniteSet(0 .. Cardinality(S) - 1)
      /\ Cardinality(0 .. Cardinality(S) - 1) = Cardinality(S)
  BY <1>1, FS_Interval
<1>3. IsFiniteSet(T) /\ Cardinality(T) = Cardinality(S) - 1
  BY <1>2, FS_RemoveElement
<1>4. f \in [S -> T]
  BY AheadIs
<1>5. PICK b \in S, c \in S : b # c /\ f[b] = f[c]
  <2> HIDE DEF f, T
  <2>1. Cardinality(T) < Cardinality(S)
    BY <1>1, <1>3
  <2> QED BY <1>3, <1>4, <2>1, FS_PigeonHole
<1> QED BY <1>5, AheadInjective

\* So the free blocks have numbers, 0 and up.
LEMMA BeforeOnto ==
  ASSUME NEW j \in 0 .. Cardinality(Free) - 1
  PROVE  \E b \in Free : Before(b) = j
BY AheadOnto, FreeIs DEF Before, Ahead

\* What alloc_block hands out: free blocks, each once, as many as asked for or all.
LEMMA GrantedIs ==
  ASSUME NEW n \in Nat
  PROVE  /\ Granted(n) \in Seq(Free)
         /\ Len(Granted(n)) = Min({n, Cardinality(Free)})
         /\ ToSet(Granted(n)) \subseteq Free
         /\ IsFiniteSet(ToSet(Granted(n)))
         /\ Cardinality(ToSet(Granted(n))) = Len(Granted(n))
<1>1. PICK m \in Nat : /\ m = Min({n, Cardinality(Free)}) /\ m <= Cardinality(Free)
  BY FreeIs, MinOfTwo
<1>2. PICK s : s = Granted(n)
  OBVIOUS
<1>3. s = [k \in 1 .. m |-> CHOOSE b \in Free : Before(b) = k - 1]
  BY <1>1, <1>2 DEF Granted
<1>4. ASSUME NEW k \in 1 .. m PROVE s[k] \in Free /\ Before(s[k]) = k - 1
  <2>1. k - 1 \in 0 .. Cardinality(Free) - 1
    BY <1>1, FreeIs
  <2>2. \E b \in Free : Before(b) = k - 1
    BY <2>1, BeforeOnto
  <2>3. s[k] = CHOOSE b \in Free : Before(b) = k - 1
    BY <1>3
  <2> QED BY <2>2, <2>3
<1>5. s \in [1 .. m -> Free]
  BY <1>3, <1>4
<1>6. s \in Seq(Free) /\ Len(s) = m
  BY <1>5
<1>7. ToSet(s) = {s[k] : k \in 1 .. m}
  BY <1>5 DEF ToSet
<1>8. s \in Injection(1 .. m, ToSet(s)) /\ s \in Surjection(1 .. m, ToSet(s))
  <2>1. s \in [1 .. m -> ToSet(s)]
    BY <1>5, <1>7
  <2>2. \A j, k \in 1 .. m : s[j] = s[k] => j = k
    BY <1>4
  <2>3. \A b \in ToSet(s) : \E k \in 1 .. m : s[k] = b
    BY <1>7
  <2> QED BY <2>1, <2>2, <2>3 DEF Injection, Surjection, IsInjective
<1>9. IsFiniteSet(1 .. m) /\ Cardinality(1 .. m) = m
  BY FS_Interval
<1>10. IsFiniteSet(ToSet(s)) /\ Cardinality(ToSet(s)) = m
  BY <1>8, <1>9, FS_Surjection
<1> QED BY <1>1, <1>2, <1>5, <1>6, <1>7, <1>10

-----------------------------------------------------------------------------
(* Directories *)

(* The new inode becomes the last entry of parent; if it is a directory, it gets its two *)
(* entries.  That is what create_file, when it succeeds, and mkdir do to the directories. *)
EntryAdded(parent, name) ==
  /\ nextIno' = nextIno + 1 /\ parent \in DOMAIN dirs /\ name \in Names
  /\ DOMAIN inodes' = DOMAIN inodes \union {nextIno}
  /\ DOMAIN dirs \subseteq DOMAIN dirs' /\ DOMAIN dirs' \subseteq DOMAIN dirs \union {nextIno}
  /\ dirs'[parent] = Append(dirs[parent], Entry(nextIno, name))
  /\ \A d \in DOMAIN dirs : d # parent => dirs'[d] = dirs[d]
  /\ nextIno \in DOMAIN dirs' => dirs'[nextIno] = <<Entry(nextIno, "."), Entry(parent, "..")>>

\* With changes a function at one point.
LEMMA WithIs ==
  ASSUME NEW f, NEW x, NEW y
  PROVE  /\ DOMAIN With(f, x, y) = DOMAIN f \union {x}
         /\ With(f, x, y)[x] = y
         /\ \A z \in DOMAIN f : z # x => With(f, x, y)[z] = f[z]
BY DEF With

\* Append to a directory.
LEMMA AppendIs ==
  ASSUME NEW s \in Seq(DirEntries), NEW e \in DirEntries
  PROVE  /\ Append(s, e) \in Seq(DirEntries)
         /\ Len(Append(s, e)) = Len(s) + 1
         /\ Append(s, e)[Len(s) + 1] = e
         /\ \A k \in 1 .. Len(s) : Append(s, e)[k] = s[k]
         /\ DOMAIN s = 1 .. Len(s) /\ DOMAIN Append(s, e) = 1 .. Len(s) + 1
         /\ Len(s) \in Nat
OBVIOUS

\* The new inode has a number no inode and no directory has.
LEMMA NewInode ==
  ASSUME IInv
  PROVE  /\ nextIno \in Nat /\ nextIno >= 2 /\ nextIno \notin DOMAIN inodes /\ nextIno \notin DOMAIN dirs
         /\ \A i \in DOMAIN inodes : i \in Nat /\ i < nextIno
         /\ DOMAIN dirs \subseteq DOMAIN inodes
<1>1. nextIno \in Nat /\ nextIno >= 2
  BY PltzFsAssumption DEF IInv, TypeOK
<1>2. DOMAIN inodes \subseteq 1 .. nextIno - 1 /\ DOMAIN dirs \subseteq DOMAIN inodes
  BY DEF IInv, TypeOK
<1> QED BY <1>1, <1>2

\* How many blocks data has.
LEMMA BlocksOfIs == BlocksOf \in [Contents -> Nat]
<1>1. ASSUME NEW data \in Contents
      PROVE  (SizeOf[data] + BlockSize - 1) \div BlockSize \in Nat
  <2>1. SizeOf[data] \in Nat /\ BlockSize \in Nat \ {0}
    BY PltzFsAssumption
  <2>2. PICK n \in Nat, b \in Nat \ {0} : n = SizeOf[data] + BlockSize - 1 /\ b = BlockSize
    BY <2>1
  <2>3. n \div b \in Nat
    OBVIOUS
  <2> QED BY <2>2, <2>3
<1> QED BY <1>1 DEF BlocksOf

\* create_file, when it succeeds.
LEMMA CreateFileAdds ==
  ASSUME IInv, NEW parent, NEW name \in Names, NEW data \in Contents,
         CreateFile(parent, name, data), Len(Granted(BlocksOf[data])) = BlocksOf[data]
  PROVE  EntryAdded(parent, name)
<1>1. parent \in DOMAIN dirs
  BY DEF CreateFile, IsDir, IInv, TablesOK
<1>2. dirs' = [dirs EXCEPT ![parent] = Append(@, Entry(nextIno, name))]
  BY DEF CreateFile
<1>3. /\ DOMAIN dirs' = DOMAIN dirs
      /\ dirs'[parent] = Append(dirs[parent], Entry(nextIno, name))
      /\ \A d \in DOMAIN dirs : d # parent => dirs'[d] = dirs[d]
  BY <1>1, <1>2
<1>4. nextIno' = nextIno + 1 /\ DOMAIN inodes' = DOMAIN inodes \union {nextIno}
  <2>1. PICK y : nextIno' = nextIno + 1 /\ inodes' = With(inodes, nextIno, y)
    BY DEF CreateFile
  <2> QED BY <2>1, WithIs
<1>5. nextIno \notin DOMAIN dirs'
  BY <1>3, NewInode
<1> QED BY <1>1, <1>3, <1>4, <1>5 DEF EntryAdded

\* mkdir.
LEMMA MkdirAdds ==
  ASSUME IInv, NEW parent, NEW name \in Names, Mkdir(parent, name)
  PROVE  EntryAdded(parent, name) /\ DOMAIN dirs' = DOMAIN dirs \union {nextIno}
<1>1. parent \in DOMAIN dirs
  BY DEF Mkdir, IsDir, IInv, TablesOK
<1>2. PICK f : f = [dirs EXCEPT ![parent] = Append(@, Entry(nextIno, name))]
  OBVIOUS
<1>3. dirs' = With(f, nextIno, <<Entry(nextIno, "."), Entry(parent, "..")>>)
  BY <1>2 DEF Mkdir
<1>4. /\ DOMAIN f = DOMAIN dirs
      /\ f[parent] = Append(dirs[parent], Entry(nextIno, name))
      /\ \A d \in DOMAIN dirs : d # parent => f[d] = dirs[d]
  BY <1>1, <1>2
<1>5. nextIno' = nextIno + 1 /\ DOMAIN inodes' = DOMAIN inodes \union {nextIno}
  BY WithIs DEF Mkdir
<1>6. \A d \in DOMAIN dirs : d # nextIno
  BY NewInode
<1>7. /\ DOMAIN dirs' = DOMAIN dirs \union {nextIno}
      /\ dirs'[nextIno] = <<Entry(nextIno, "."), Entry(parent, "..")>>
      /\ \A d \in DOMAIN dirs : dirs'[d] = f[d]
  <2>1. PICK y : y = <<Entry(nextIno, "."), Entry(parent, "..")>>
    OBVIOUS
  <2>2. dirs' = With(f, nextIno, y)
    BY <1>3, <2>1
  <2>3. DOMAIN dirs' = DOMAIN f \union {nextIno} /\ dirs'[nextIno] = y
    BY <2>2 DEF With
  <2>4. \A d \in DOMAIN f : d # nextIno => dirs'[d] = f[d]
    BY <2>2 DEF With
  <2> QED BY <1>4, <1>6, <2>1, <2>3, <2>4
<1> QED BY <1>1, <1>4, <1>5, <1>7 DEF EntryAdded

\* The directories after that: sequences of entries of inodes there are.
LEMMA AddedDirs ==
  ASSUME IInv, NEW parent, NEW name, EntryAdded(parent, name), NEW d \in DOMAIN dirs'
  PROVE  /\ dirs'[d] \in Seq(DirEntries) /\ Len(dirs'[d]) >= 2
         /\ \A k \in DOMAIN dirs'[d] : dirs'[d][k].ino < nextIno'
<1>1. nextIno \in Nat /\ nextIno' = nextIno + 1 /\ parent \in Nat /\ parent < nextIno /\ name \in Names
  BY NewInode DEF EntryAdded
<1>2. /\ Entry(nextIno, name) \in DirEntries /\ Entry(nextIno, ".") \in DirEntries
      /\ Entry(parent, "..") \in DirEntries
      /\ Entry(nextIno, name).ino = nextIno /\ Entry(nextIno, ".").ino = nextIno
      /\ Entry(parent, "..").ino = parent
  BY <1>1 DEF Entry, DirEntries
<1>3. ASSUME NEW c \in DOMAIN dirs
      PROVE  /\ dirs[c] \in Seq(DirEntries) /\ Len(dirs[c]) >= 2
             /\ \A k \in DOMAIN dirs[c] : dirs[c][k].ino \in Nat /\ dirs[c][k].ino < nextIno
  <2>1. /\ dirs[c] \in Seq(DirEntries) /\ Len(dirs[c]) >= 2
        /\ \A k \in DOMAIN dirs[c] : dirs[c][k].ino < nextIno
    BY DEF IInv, TablesOK
  <2>2. \A k \in DOMAIN dirs[c] : dirs[c][k] \in DirEntries
    BY <2>1
  <2> QED BY <2>1, <2>2 DEF DirEntries
<1>4. CASE d = parent
  <2>1. PICK s \in Seq(DirEntries), e \in DirEntries :
          s = dirs[parent] /\ e = Entry(nextIno, name) /\ dirs'[d] = Append(s, e)
    BY <1>2, <1>3, <1>4 DEF EntryAdded
  <2>2. parent \in DOMAIN dirs
    BY DEF EntryAdded
  <2>3. ASSUME NEW k \in DOMAIN dirs'[d] PROVE dirs'[d][k].ino < nextIno'
    <3>1. k \in 1 .. Len(s) \/ k = Len(s) + 1
      BY <2>1, AppendIs
    <3>2. CASE k \in 1 .. Len(s)
      <4>1. dirs'[d][k] = s[k] /\ k \in DOMAIN s
        BY <2>1, <3>2, AppendIs
      <4> QED BY <1>1, <1>3, <2>1, <2>2, <4>1
    <3>3. CASE k = Len(s) + 1
      BY <1>1, <1>2, <2>1, <3>3, AppendIs
    <3> QED BY <3>1, <3>2, <3>3
  <2> QED BY <1>3, <2>1, <2>2, <2>3, AppendIs
<1>5. CASE d # parent /\ d \in DOMAIN dirs
  <2>1. dirs'[d] = dirs[d]
    BY <1>5 DEF EntryAdded
  <2> QED BY <1>1, <1>3, <1>5, <2>1
<1>6. CASE d \notin DOMAIN dirs
  <2>1. dirs'[d] = <<Entry(nextIno, "."), Entry(parent, "..")>>
    BY <1>6 DEF EntryAdded
  <2> QED BY <1>1, <1>2, <2>1
<1> QED BY <1>4, <1>5, <1>6

\* The children of a directory are the inodes of its entries from the third on.
LEMMA ChildrenIs ==
  ASSUME NEW s \in Seq(DirEntries), NEW e \in DirEntries, Len(s) >= 2, NEW i
  PROVE  /\ {k \in 3 .. Len(Append(s, e)) : Append(s, e)[k].ino = i} =
              {k \in 3 .. Len(s) : s[k].ino = i} \union (IF e.ino = i THEN {Len(s) + 1} ELSE {})
<1>1. Len(Append(s, e)) = Len(s) + 1 /\ Len(s) \in Nat /\ Append(s, e)[Len(s) + 1] = e
  BY AppendIs
<1>2. \A k \in 3 .. Len(s) : Append(s, e)[k] = s[k]
  BY AppendIs
<1>3. 3 .. Len(s) + 1 = 3 .. Len(s) \union {Len(s) + 1} /\ Len(s) + 1 \notin 3 .. Len(s)
  BY <1>1
<1> QED BY <1>1, <1>2, <1>3

\* The tree after an entry was added: the new inode is in parent, the others stay.
LEMMA AddedTree ==
  ASSUME IInv, NEW parent, NEW name, EntryAdded(parent, name)
  PROVE  DirectoriesFormATree'
<1> DEFINE At(d, i) == {k \in 3 .. Len(dirs[d]) : dirs[d][k].ino = i}
           AtThen(d, i) == {k \in 3 .. Len(dirs'[d]) : dirs'[d][k].ino = i}
<1>1. /\ nextIno \in Nat /\ nextIno >= 2 /\ parent \in Nat /\ parent < nextIno /\ name \in Names
      /\ nextIno \notin DOMAIN dirs /\ nextIno \notin DOMAIN inodes
      /\ parent \in DOMAIN dirs
  BY NewInode DEF EntryAdded
<1>2. PICK e \in DirEntries : e = Entry(nextIno, name) /\ e.ino = nextIno
  <2>1. Entry(nextIno, name) \in DirEntries /\ Entry(nextIno, name).ino = nextIno
    BY <1>1 DEF Entry, DirEntries
  <2> QED BY <2>1
<1>3. ASSUME NEW d \in DOMAIN dirs
      PROVE  /\ dirs[d] \in Seq(DirEntries) /\ Len(dirs[d]) >= 2 /\ At(d, nextIno) = {}
             /\ d \in DOMAIN dirs' /\ d # nextIno
             /\ \A k \in 1 .. Len(dirs[d]) : dirs'[d][k] = dirs[d][k]
  <2>1. /\ dirs[d] \in Seq(DirEntries) /\ Len(dirs[d]) >= 2
        /\ \A k \in DOMAIN dirs[d] : dirs[d][k].ino < nextIno
    BY DEF IInv, TablesOK
  <2>2. At(d, nextIno) = {}
    <3>1. ASSUME NEW k \in At(d, nextIno) PROVE FALSE
      <4>1. k \in DOMAIN dirs[d] /\ dirs[d][k].ino = nextIno
        BY <2>1
      <4> QED BY <1>1, <2>1, <4>1
    <3> QED BY <3>1
  <2>3. d \in DOMAIN dirs' /\ d # nextIno
    BY <1>1 DEF EntryAdded
  <2>4. \A k \in 1 .. Len(dirs[d]) : dirs'[d][k] = dirs[d][k]
    <3>1. CASE d = parent
      BY <1>2, <2>1, <3>1, AppendIs DEF EntryAdded
    <3>2. CASE d # parent
      BY <3>2 DEF EntryAdded
    <3> QED BY <3>1, <3>2
  <2> QED BY <2>1, <2>2, <2>3, <2>4
<1>4. ASSUME NEW d \in DOMAIN dirs, NEW i
      PROVE  AtThen(d, i) = At(d, i) \union (IF d = parent /\ nextIno = i
                                             THEN {Len(dirs[parent]) + 1} ELSE {})
  <2>1. CASE d = parent
    <3>1. dirs'[d] = Append(dirs[d], e)
      BY <1>2, <2>1 DEF EntryAdded
    <3>2. AtThen(d, i) = At(d, i) \union (IF e.ino = i THEN {Len(dirs[d]) + 1} ELSE {})
      BY <1>3, <3>1, ChildrenIs
    <3> QED BY <1>2, <2>1, <3>2
  <2>2. CASE d # parent
    <3>1. dirs'[d] = dirs[d]
      BY <2>2 DEF EntryAdded
    <3> QED BY <2>2, <3>1
  <2> QED BY <2>1, <2>2
<1>5. ASSUME nextIno \in DOMAIN dirs', NEW i PROVE AtThen(nextIno, i) = {}
  <2>1. dirs'[nextIno] = <<Entry(nextIno, "."), Entry(parent, "..")>>
    BY <1>5 DEF EntryAdded
  <2>2. Len(dirs'[nextIno]) = 2
    BY <2>1
  <2> QED BY <2>2
<1>6. \A d, i : /\ i \in Children(d) <=> At(d, i) # {}
                /\ i \in Children(d)' <=> AtThen(d, i) # {}
  BY DEF Children
<1>7. ASSUME NEW i \in DOMAIN inodes', i # RootIno
      PROVE  \E d \in DOMAIN dirs' :
               /\ d < i /\ i \in Children(d)'
               /\ Cardinality(AtThen(d, i)) = 1
               /\ \A c \in DOMAIN dirs' \ {d} : i \notin Children(c)'
               /\ i \in DOMAIN dirs' => dirs'[i][1] = Entry(i, ".") /\ dirs'[i][2] = Entry(d, "..")
  <2>1. CASE i = nextIno
    <3>0. At(parent, i) = {} /\ parent \in DOMAIN dirs
      BY <1>1, <1>3, <2>1
    <3>1. AtThen(parent, i) = {Len(dirs[parent]) + 1}
      <4> HIDE DEF At, AtThen
      <4>1. AtThen(parent, i) = At(parent, i) \union
              (IF parent = parent /\ nextIno = i THEN {Len(dirs[parent]) + 1} ELSE {})
        BY <1>4, <3>0
      <4> QED BY <2>1, <3>0, <4>1
    <3>2. Cardinality(AtThen(parent, i)) = 1 /\ AtThen(parent, i) # {}
      BY <3>1, FS_Singleton
    <3>3. ASSUME NEW c \in DOMAIN dirs' \ {parent} PROVE AtThen(c, i) = {}
      <4>1. CASE c \in DOMAIN dirs
        <5>1. At(c, i) = {} /\ c # parent
          BY <1>3, <2>1, <4>1
        <5> HIDE DEF At, AtThen
        <5>2. AtThen(c, i) = At(c, i) \union (IF c = parent /\ nextIno = i
                                              THEN {Len(dirs[parent]) + 1} ELSE {})
          BY <1>4, <4>1
        <5> QED BY <5>1, <5>2
      <4>2. CASE c \notin DOMAIN dirs
        BY <1>5, <4>2 DEF EntryAdded
      <4> QED BY <4>1, <4>2
    <3>4. i \in DOMAIN dirs' => dirs'[i][1] = Entry(i, ".") /\ dirs'[i][2] = Entry(parent, "..")
      BY <2>1 DEF EntryAdded
    <3>5. parent < i /\ parent \in DOMAIN dirs' /\ i \in Children(parent)'
      BY <1>1, <1>3, <1>6, <2>1, <3>2
    <3>6. \A c \in DOMAIN dirs' \ {parent} : i \notin Children(c)'
      BY <1>6, <3>3
    <3> QED BY <3>2, <3>4, <3>5, <3>6
  <2>2. CASE i # nextIno
    <3>1. i \in DOMAIN inodes \ {RootIno}
      BY <1>7, <2>2 DEF EntryAdded
    <3>2. PICK d \in DOMAIN dirs :
            /\ d < i /\ i \in Children(d) /\ Cardinality(At(d, i)) = 1
            /\ \A c \in DOMAIN dirs \ {d} : i \notin Children(c)
            /\ i \in DOMAIN dirs => dirs[i][1] = Entry(i, ".") /\ dirs[i][2] = Entry(d, "..")
      BY <3>1 DEF IInv, DirectoriesFormATree
    <3>3. \A c \in DOMAIN dirs : AtThen(c, i) = At(c, i)
      BY <1>4, <2>2
    <3>4. d \in DOMAIN dirs' /\ i \in Children(d)' /\ Cardinality(AtThen(d, i)) = 1
      BY <1>3, <1>6, <3>2, <3>3
    <3>5. ASSUME NEW c \in DOMAIN dirs' \ {d} PROVE i \notin Children(c)'
      <4>1. CASE c \in DOMAIN dirs
        BY <1>6, <3>2, <3>3, <4>1
      <4>2. CASE c \notin DOMAIN dirs
        <5>1. c = nextIno
          BY <4>2 DEF EntryAdded
        <5> QED BY <1>5, <1>6, <5>1
      <4> QED BY <4>1, <4>2
    <3>6. ASSUME i \in DOMAIN dirs'
          PROVE  dirs'[i][1] = Entry(i, ".") /\ dirs'[i][2] = Entry(d, "..")
      <4>1. i \in DOMAIN dirs
        BY <2>2, <3>6 DEF EntryAdded
      <4>2. 1 \in 1 .. Len(dirs[i]) /\ 2 \in 1 .. Len(dirs[i])
        BY <1>3, <4>1
      <4> QED BY <1>3, <3>2, <4>1, <4>2
    <3> QED BY <3>2, <3>4, <3>5, <3>6
  <2> QED BY <2>1, <2>2
<1> QED BY <1>7 DEF DirectoriesFormATree

-----------------------------------------------------------------------------
(* The steps *)

\* What BlocksOwnedOnce and BitmapExact speak of, for the new inode and the old ones.
LEMMA NewBlocks ==
  ASSUME IInv, NEW r, inodes' = With(inodes, nextIno, r)
  PROVE  /\ \A i \in DOMAIN inodes : inodes'[i] = inodes[i] /\ BlocksOfInode(i)' = BlocksOfInode(i)
         /\ inodes'[nextIno] = r /\ \A i : i = nextIno => BlocksOfInode(i)' = ToSet(r.addrs)
         /\ DOMAIN inodes' = DOMAIN inodes \union {nextIno}
         /\ InUse' = InUse \union ToSet(r.addrs)
<1>1. DOMAIN inodes' = DOMAIN inodes \union {nextIno} /\ inodes'[nextIno] = r
  BY DEF With
<1>2. nextIno \notin DOMAIN inodes
  BY NewInode
<1>3. \A i \in DOMAIN inodes : inodes'[i] = inodes[i]
  BY <1>2 DEF With
<1>4. \A i \in DOMAIN inodes : BlocksOfInode(i)' = BlocksOfInode(i)
  BY <1>3 DEF BlocksOfInode
<1>5. \A i : i = nextIno => BlocksOfInode(i)' = ToSet(r.addrs)
  BY <1>1 DEF BlocksOfInode
<1>6. InUse' = InUse \union ToSet(r.addrs)
  <2>1. InUse' = UNION {BlocksOfInode(i)' : i \in DOMAIN inodes \union {nextIno}}
    BY <1>1 DEF InUse
  <2> QED BY <1>4, <1>5, <2>1 DEF InUse
<1> QED BY <1>1, <1>3, <1>4, <1>5, <1>6

\* A new inode with n blocks of its own, each free so far and marked now, keeps the blocks
\* apart and the bitmap exact.
LEMMA NewBlocksOwned ==
  ASSUME IInv, NEW n \in Nat, NEW r, inodes' = With(inodes, nextIno, r),
         r.blocks = n, r.addrs = Granted(n), Len(Granted(n)) = n,
         bitmap' = bitmap \union ToSet(Granted(n))
  PROVE  BlocksOwnedOnce' /\ BitmapExact'
<1>1. PICK new : new = ToSet(Granted(n))
  OBVIOUS
<1>2. /\ new \subseteq Free /\ Cardinality(new) = n
  BY <1>1, GrantedIs
<1>3. /\ new \subseteq 0 .. TotalBlocks - 1 /\ new \intersect bitmap = {}
      /\ new \subseteq Bits
  BY <1>2, FreeIs DEF Free
<1>4. /\ InUse \subseteq bitmap \intersect (0 .. TotalBlocks - 1)
      /\ \A i \in DOMAIN inodes : Cardinality(BlocksOfInode(i)) = inodes[i].blocks
      /\ \A i, j \in DOMAIN inodes : i # j => BlocksOfInode(i) \intersect BlocksOfInode(j) = {}
      /\ bitmap \in {InUse, Bits}
  BY DEF IInv, BlocksOwnedOnce, BitmapExact
<1>5. /\ \A i \in DOMAIN inodes : inodes'[i] = inodes[i] /\ BlocksOfInode(i)' = BlocksOfInode(i)
      /\ inodes'[nextIno] = r /\ \A i : i = nextIno => BlocksOfInode(i)' = new
      /\ DOMAIN inodes' = DOMAIN inodes \union {nextIno}
      /\ InUse' = InUse \union new
  BY <1>1, NewBlocks
<1>6. InUse' \subseteq bitmap' \intersect (0 .. TotalBlocks - 1)
  BY <1>1, <1>3, <1>4, <1>5
<1>7. \A i \in DOMAIN inodes' : Cardinality(BlocksOfInode(i)') = inodes'[i].blocks
  BY <1>2, <1>4, <1>5
<1>8. \A i \in DOMAIN inodes : BlocksOfInode(i) \intersect new = {}
  BY <1>3, <1>4 DEF InUse
<1>9. \A i, j \in DOMAIN inodes' : i # j => BlocksOfInode(i)' \intersect BlocksOfInode(j)' = {}
  <2>1. ASSUME NEW i \in DOMAIN inodes', NEW j \in DOMAIN inodes', i # j
        PROVE  BlocksOfInode(i)' \intersect BlocksOfInode(j)' = {}
    <3>1. CASE i = nextIno
      BY <1>5, <1>8, <2>1, <3>1
    <3>2. CASE j = nextIno
      BY <1>5, <1>8, <2>1, <3>2
    <3>3. CASE i # nextIno /\ j # nextIno
      BY <1>4, <1>5, <2>1, <3>3
    <3> QED BY <3>1, <3>2, <3>3
  <2> QED BY <2>1
<1>10. bitmap' \in {InUse', Bits}
  BY <1>1, <1>3, <1>4, <1>5
<1>11. BlocksOwnedOnce'
  BY <1>6, <1>7, <1>9 DEF BlocksOwnedOnce
<1> QED BY <1>10, <1>11 DEF BitmapExact

\* create_file keeps the invariant when there is room.
LEMMA CreateFileFits ==
  ASSUME IInv, NEW parent, NEW name \in Names, NEW data \in Contents,
         CreateFile(parent, name, data), Len(Granted(BlocksOf[data])) = BlocksOf[data]
  PROVE  IInv'
<1>1. PICK n \in Nat : n = BlocksOf[data]
  BY BlocksOfIs
<1>2. PICK r : r = [dir |-> FALSE, size |-> SizeOf[data], blocks |-> n, addrs |-> Granted(n)]
  OBVIOUS
<1>3. /\ inodes' = With(inodes, nextIno, r) /\ fileData' = With(fileData, nextIno, data)
      /\ bitmap' = bitmap \union ToSet(Granted(n))
      /\ nextIno' = nextIno + 1 /\ nextIno <= MaxInodes /\ answer' = Ok(nextIno)
      /\ dirs' = [dirs EXCEPT ![parent] = Append(@, Entry(nextIno, name))]
  BY <1>1, <1>2 DEF CreateFile, Marked
<1>4. r.dir = FALSE /\ r.blocks = n /\ r.addrs = Granted(n)
  BY <1>2
<1>5. BlocksOwnedOnce' /\ BitmapExact'
  BY <1>1, <1>3, <1>4, NewBlocksOwned
<1>6. EntryAdded(parent, name)
  BY CreateFileAdds
<1>7. DirectoriesFormATree'
  BY <1>6, AddedTree
<1>8. /\ \A i \in DOMAIN inodes : inodes'[i] = inodes[i]
      /\ inodes'[nextIno] = r /\ DOMAIN inodes' = DOMAIN inodes \union {nextIno}
  BY <1>3, NewBlocks
<1>9. DOMAIN dirs' = DOMAIN dirs /\ DOMAIN fileData' = DOMAIN fileData \union {nextIno}
  BY <1>3 DEF With
<1>10. /\ nextIno \in 2 .. MaxInodes + 1 /\ RootIno \in DOMAIN inodes
       /\ DOMAIN inodes \subseteq 1 .. nextIno - 1
       /\ DOMAIN dirs \union DOMAIN fileData = DOMAIN inodes
       /\ \A i \in DOMAIN inodes : inodes[i].addrs \in Seq(Bits)
       /\ bitmap \subseteq Bits
  BY DEF IInv, TypeOK
<1>11. r.addrs \in Seq(Bits) /\ bitmap' \subseteq Bits
  <2>1. Granted(n) \in Seq(Free) /\ ToSet(Granted(n)) \subseteq Free /\ Free \subseteq Bits
    BY GrantedIs, FreeIs DEF Free
  <2> QED BY <1>3, <1>4, <1>10, <2>1
<1>12. TypeOK'
  <2>1. nextIno' \in 2 .. MaxInodes + 1 /\ DOMAIN inodes' \subseteq 1 .. nextIno' - 1
    BY <1>3, <1>8, <1>10, PltzFsAssumption
  <2>2. \A i \in DOMAIN inodes' : inodes'[i].addrs \in Seq(Bits)
    BY <1>8, <1>10, <1>11
  <2>3. answer'.ok \in BOOLEAN
    BY <1>3 DEF Ok
  <2>4. RootIno \in DOMAIN inodes' /\ DOMAIN dirs' \union DOMAIN fileData' = DOMAIN inodes'
    BY <1>8, <1>9, <1>10
  <2> QED BY <1>11, <2>1, <2>2, <2>3, <2>4 DEF TypeOK
<1>13. TablesOK'
  <2>1. DOMAIN dirs' \subseteq {i \in DOMAIN inodes' : inodes'[i].dir}
    BY <1>8, <1>9 DEF IInv, TablesOK
  <2>2. \A i \in DOMAIN inodes' : inodes'[i].dir => i \in DOMAIN dirs'
    BY <1>4, <1>8, <1>9 DEF IInv, TablesOK
  <2> QED BY <1>6, <2>1, <2>2, AddedDirs DEF TablesOK
<1> QED BY <1>5, <1>7, <1>12, <1>13 DEF IInv

\* The tree is in the directories and in which inodes there are.
LEMMA SameTree ==
  ASSUME DirectoriesFormATree, dirs' = dirs, DOMAIN inodes' = DOMAIN inodes
  PROVE  DirectoriesFormATree'
<1>1. \A d : Children(d)' = Children(d)
  BY DEF Children
<1>2. ASSUME NEW i \in DOMAIN inodes' \ {RootIno}
      PROVE  \E d \in DOMAIN dirs' :
               /\ d < i /\ i \in Children(d)'
               /\ Cardinality({k \in 3 .. Len(dirs'[d]) : dirs'[d][k].ino = i}) = 1
               /\ \A e \in DOMAIN dirs' \ {d} : i \notin Children(e)'
               /\ i \in DOMAIN dirs' => dirs'[i][1] = Entry(i, ".") /\ dirs'[i][2] = Entry(d, "..")
  <2>1. PICK d \in DOMAIN dirs :
          /\ d < i /\ i \in Children(d)
          /\ Cardinality({k \in 3 .. Len(dirs[d]) : dirs[d][k].ino = i}) = 1
          /\ \A e \in DOMAIN dirs \ {d} : i \notin Children(e)
          /\ i \in DOMAIN dirs => dirs[i][1] = Entry(i, ".") /\ dirs[i][2] = Entry(d, "..")
    BY Zenon DEF DirectoriesFormATree
  <2>2. /\ d \in DOMAIN dirs' /\ i \in Children(d)'
        /\ \A e \in DOMAIN dirs' \ {d} : i \notin Children(e)'
    BY <1>1, <2>1
  <2>3. Cardinality({k \in 3 .. Len(dirs'[d]) : dirs'[d][k].ino = i}) = 1
    BY <2>1
  <2> QED BY <2>1, <2>2, <2>3
<1> QED BY <1>2, Zenon DEF DirectoriesFormATree, Entry

\* And when there is not: a number is used up, and everything is marked.
LEMMA CreateFileRefused ==
  ASSUME IInv, NEW parent, NEW name \in Names, NEW data \in Contents,
         CreateFile(parent, name, data), Len(Granted(BlocksOf[data])) # BlocksOf[data]
  PROVE  IInv'
<1>1. /\ UNCHANGED <<inodes, fileData, dirs, image>> /\ bitmap' = Bits
      /\ nextIno' = nextIno + 1 /\ nextIno <= MaxInodes
      /\ answer'.ok = FALSE
  <2>1. /\ bitmap' = Marked(BlocksOf[data]) /\ nextIno' = nextIno + 1 /\ nextIno <= MaxInodes
        /\ UNCHANGED <<inodes, fileData, dirs, image>>
        /\ answer' = Err("No space", BlocksOf[data])
    BY DEF CreateFile
  <2>2. answer'.ok = FALSE
    BY <2>1 DEF Err
  <2>3. bitmap' = Bits
    BY <2>1 DEF Marked
  <2> QED BY <2>1, <2>2, <2>3
<1>2. nextIno \in Nat
  BY NewInode
<1>3. InUse' = InUse /\ InUse \subseteq Bits
  BY <1>1, FreeIs DEF InUse, BlocksOfInode, IInv, BlocksOwnedOnce
<1>4. BlocksOwnedOnce' /\ BitmapExact'
  <2>1. InUse' \subseteq bitmap' \intersect (0 .. TotalBlocks - 1)
    BY <1>1, <1>3 DEF IInv, BlocksOwnedOnce
  <2> QED BY <1>1, <2>1 DEF IInv, BlocksOwnedOnce, BitmapExact, BlocksOfInode
<1>5. TypeOK'
  <2>1. nextIno' \in 2 .. MaxInodes + 1 /\ DOMAIN inodes' \subseteq 1 .. nextIno' - 1
    BY <1>1, PltzFsAssumption DEF IInv, TypeOK
  <2> QED BY <1>1, <2>1 DEF IInv, TypeOK
<1>6. TablesOK'
  <2>1. \A d \in DOMAIN dirs : \A k \in DOMAIN dirs[d] : dirs[d][k].ino < nextIno + 1
    <3>1. ASSUME NEW d \in DOMAIN dirs, NEW k \in DOMAIN dirs[d]
          PROVE  dirs[d][k].ino < nextIno + 1
      <4>1. dirs[d] \in Seq(DirEntries) /\ dirs[d][k].ino < nextIno
        BY DEF IInv, TablesOK
      <4>2. dirs[d][k] \in DirEntries
        BY <4>1
      <4>3. dirs[d][k].ino \in Nat
        BY <4>2 DEF DirEntries
      <4> QED BY <1>2, <4>1, <4>3
    <3> QED BY <3>1
  <2> QED BY <1>1, <2>1 DEF IInv, TablesOK
<1>7. DirectoriesFormATree'
  BY <1>1, SameTree DEF IInv
<1> QED BY <1>4, <1>5, <1>6, <1>7 DEF IInv

\* mkdir keeps the invariant.
LEMMA MkdirIInv ==
  ASSUME IInv, NEW parent, NEW name \in Names, Mkdir(parent, name)
  PROVE  IInv'
<1>1. PICK r : r = NewDir
  OBVIOUS
<1>2. /\ inodes' = With(inodes, nextIno, r) /\ UNCHANGED <<bitmap, fileData, image>>
      /\ nextIno' = nextIno + 1 /\ nextIno <= MaxInodes /\ answer' = Ok(nextIno)
  BY <1>1 DEF Mkdir
<1>3. r.dir = TRUE /\ r.blocks = 0 /\ r.addrs = <<>>
  BY <1>1 DEF NewDir
<1>4. EntryAdded(parent, name) /\ DOMAIN dirs' = DOMAIN dirs \union {nextIno}
  BY MkdirAdds
<1>5. DirectoriesFormATree'
  BY <1>4, AddedTree
<1>6. Granted(0) = <<>> /\ ToSet(Granted(0)) = {}
  <2>1. Len(Granted(0)) = 0
    <3>1. Min({0, Cardinality(Free)}) = 0
      BY FreeIs, MinOfTwo
    <3> QED BY <3>1, GrantedIs
  <2>2. Granted(0) \in Seq(Free)
    BY GrantedIs
  <2>3. Granted(0) = <<>>
    BY <2>1, <2>2
  <2> QED BY <2>3 DEF ToSet
<1>7. BlocksOwnedOnce' /\ BitmapExact'
  BY <1>2, <1>3, <1>6, NewBlocksOwned
<1>8. /\ \A i \in DOMAIN inodes : inodes'[i] = inodes[i]
      /\ inodes'[nextIno] = r /\ DOMAIN inodes' = DOMAIN inodes \union {nextIno}
  BY <1>2, NewBlocks
<1>9. /\ nextIno \in 2 .. MaxInodes + 1 /\ RootIno \in DOMAIN inodes
      /\ DOMAIN inodes \subseteq 1 .. nextIno - 1
      /\ DOMAIN dirs \union DOMAIN fileData = DOMAIN inodes
      /\ \A i \in DOMAIN inodes : inodes[i].addrs \in Seq(Bits)
      /\ bitmap \subseteq Bits
  BY DEF IInv, TypeOK
<1>10. TypeOK'
  <2>1. nextIno' \in 2 .. MaxInodes + 1 /\ DOMAIN inodes' \subseteq 1 .. nextIno' - 1
    BY <1>2, <1>8, <1>9, PltzFsAssumption
  <2>5. <<>> \in Seq(Bits)
    OBVIOUS
  <2>2. \A i \in DOMAIN inodes' : inodes'[i].addrs \in Seq(Bits)
    BY <1>3, <1>8, <1>9, <2>5
  <2>3. answer'.ok \in BOOLEAN
    BY <1>2 DEF Ok
  <2>4. RootIno \in DOMAIN inodes' /\ DOMAIN dirs' \union DOMAIN fileData' = DOMAIN inodes'
    BY <1>2, <1>4, <1>8, <1>9
  <2> QED BY <1>2, <1>9, <2>1, <2>2, <2>3, <2>4 DEF TypeOK
<1>11. TablesOK'
  <2>1. DOMAIN dirs' \subseteq {i \in DOMAIN inodes' : inodes'[i].dir}
    BY <1>3, <1>4, <1>8 DEF IInv, TablesOK
  <2>2. \A i \in DOMAIN inodes' : inodes'[i].dir => i \in DOMAIN dirs'
    BY <1>4, <1>8 DEF IInv, TablesOK
  <2> QED BY <1>4, <2>1, <2>2, AddedDirs DEF TablesOK
<1> QED BY <1>5, <1>7, <1>10, <1>11 DEF IInv

\* A refused call and a sync leave the filesystem as it is.
LEMMA QuietIInv ==
  ASSUME IInv, UNCHANGED <<bitmap, inodes, dirs, fileData, nextIno>>, answer'.ok \in BOOLEAN
  PROVE  IInv'
<1>2. DirectoriesFormATree'
  BY SameTree DEF IInv
<1>3. \A i : BlocksOfInode(i)' = BlocksOfInode(i)
  BY DEF BlocksOfInode
<1>4. InUse' = InUse
  BY <1>3 DEF InUse
<1>5. BlocksOwnedOnce' /\ BitmapExact'
  BY <1>3, <1>4 DEF IInv, BlocksOwnedOnce, BitmapExact
<1>6. TypeOK' /\ TablesOK'
  BY DEF IInv, TypeOK, TablesOK
<1> QED BY <1>2, <1>5, <1>6 DEF IInv

\* The empty filesystem.
LEMMA InitIInv == Init => IInv
<1> SUFFICES ASSUME Init PROVE IInv
  OBVIOUS
<1>1. PICK r, s : /\ r = NewDir
                  /\ s = <<Entry(RootIno, "."), Entry(RootIno, "..")>>
  OBVIOUS
<1>2. /\ inodes = [i \in {RootIno} |-> r] /\ dirs = [i \in {RootIno} |-> s]
      /\ fileData = [i \in {} |-> None] /\ bitmap = {} /\ nextIno = 2 /\ answer = Ok(None)
  BY <1>1 DEF Init
<1>3. DOMAIN inodes = {1} /\ inodes[1] = r /\ DOMAIN dirs = {1} /\ dirs[1] = s
  BY <1>2 DEF RootIno
<1>4. r.dir = TRUE /\ r.blocks = 0 /\ r.addrs = <<>> /\ r.addrs \in Seq(Bits)
  BY <1>1 DEF NewDir
<1>5. s \in Seq(DirEntries) /\ Len(s) = 2 /\ \A k \in DOMAIN s : s[k].ino = 1
  <2>1. /\ Entry(RootIno, ".") \in DirEntries /\ Entry(RootIno, "..") \in DirEntries
        /\ Entry(RootIno, ".").ino = 1 /\ Entry(RootIno, "..").ino = 1
    BY DEF Entry, DirEntries, RootIno
  <2> QED BY <1>1, <2>1
<1>6. TypeOK
  <2>1. answer.ok = TRUE
    BY <1>2 DEF Ok
  <2>2. DOMAIN fileData = {}
    BY <1>2
  <2>3. nextIno \in 2 .. MaxInodes + 1 /\ bitmap \subseteq Bits
    BY <1>2, PltzFsAssumption
  <2>4. RootIno \in DOMAIN inodes /\ DOMAIN inodes \subseteq 1 .. nextIno - 1
    BY <1>2, <1>3 DEF RootIno
  <2> QED BY <1>3, <1>4, <2>1, <2>2, <2>3, <2>4 DEF TypeOK
<1>7. TablesOK
  BY <1>2, <1>3, <1>4, <1>5 DEF TablesOK
<1>8. BlocksOfInode(1) = {} /\ InUse = {}
  <2>1. BlocksOfInode(1) = {}
    BY <1>3, <1>4 DEF BlocksOfInode, ToSet
  <2> QED BY <1>3, <2>1 DEF InUse
<1>9. BlocksOwnedOnce /\ BitmapExact
  BY <1>2, <1>3, <1>4, <1>8, FS_EmptySet DEF BlocksOwnedOnce, BitmapExact
<1>10. DirectoriesFormATree
  BY <1>3 DEF DirectoriesFormATree, RootIno
<1> QED BY <1>6, <1>7, <1>9, <1>10 DEF IInv

\* The invariant is inductive.
LEMMA NextIInv == IInv /\ [Next]_vars => IInv'
<1> SUFFICES ASSUME IInv, [Next]_vars PROVE IInv'
  OBVIOUS
<1>1. CASE UNCHANGED vars
  BY <1>1, QuietIInv DEF vars, IInv, TypeOK
<1>2. ASSUME NEW parent, NEW name \in Names, NEW data \in Contents, CreateFile(parent, name, data)
      PROVE  IInv'
  BY <1>2, CreateFileFits, CreateFileRefused
<1>3. ASSUME NEW parent, BadParent(parent) PROVE IInv'
  <2>1. answer'.ok = FALSE
    BY <1>3 DEF BadParent, Err
  <2> QED BY <1>3, <2>1, QuietIInv DEF BadParent
<1>4. CASE Sync
  BY <1>4, QuietIInv DEF Sync, IInv, TypeOK
<1> QED BY <1>1, <1>2, <1>3, <1>4, MkdirIInv DEF Next

\* So it always holds.
LEMMA Invariance == Spec => []IInv
BY InitIInv, NextIInv, PTL DEF Spec

-----------------------------------------------------------------------------
(* lookup *)

\* Another entry behind those of a directory does not change what lookup finds.
LEMMA LookupBehind ==
  ASSUME IInv, NEW d \in DOMAIN dirs, NEW name, Lookup(d, name) # None,
         d \in DOMAIN dirs',
         dirs'[d] = dirs[d] \/ \E e \in DirEntries : dirs'[d] = Append(dirs[d], e)
  PROVE  Lookup(d, name)' = Lookup(d, name)
<1>1. PICK s \in Seq(DirEntries) : s = dirs[d]
  BY DEF IInv, TablesOK
<1>2. PICK t : t = dirs'[d]
  OBVIOUS
<1>3. PICK found : found = {k \in DOMAIN s : s[k].name = name}
  OBVIOUS
<1>4. PICK foundThen : foundThen = {k \in DOMAIN t : t[k].name = name}
  OBVIOUS
<1>5. /\ Lookup(d, name) = IF found = {} THEN None ELSE s[Min(found)].ino
      /\ Lookup(d, name)' = IF foundThen = {} THEN None ELSE t[Min(foundThen)].ino
  BY <1>1, <1>2, <1>3, <1>4 DEF Lookup, EntriesNamed
<1>6. found # {} /\ found \subseteq 1 .. Len(s) /\ found \subseteq Nat
  BY <1>1, <1>3, <1>5
<1>7. CASE t = s
  BY <1>3, <1>4, <1>5, <1>7
<1>8. ASSUME NEW e \in DirEntries, t = Append(s, e)
      PROVE  Lookup(d, name)' = Lookup(d, name)
  <2>1. /\ \A k \in 1 .. Len(s) : t[k] = s[k]
        /\ DOMAIN s = 1 .. Len(s) /\ DOMAIN t = 1 .. Len(s) + 1 /\ Len(s) \in Nat
    BY <1>8, AppendIs
  <2>2. found \subseteq foundThen /\ foundThen \subseteq found \union {Len(s) + 1}
    BY <1>3, <1>4, <2>1
  <2>3. foundThen # {} /\ foundThen \subseteq Nat
    <3>1. Len(s) + 1 \in Nat
      BY <2>1
    <3> QED BY <1>6, <2>2, <3>1
  <2>4. Min(found) \in found /\ \A k \in found : Min(found) <= k
    BY <1>6, MinIs
  <2>5. Min(foundThen) \in foundThen /\ \A k \in foundThen : Min(foundThen) <= k
    BY <2>3, MinIs
  <2>6. PICK i \in Nat, j \in Nat : i = Min(found) /\ j = Min(foundThen)
    BY <1>6, <2>3, <2>4, <2>5
  <2>7. i = j
    BY <1>6, <2>1, <2>2, <2>4, <2>5, <2>6
  <2>8. t[j] = s[i]
    BY <1>6, <2>1, <2>4, <2>6, <2>7
  <2> QED BY <1>5, <1>6, <2>3, <2>6, <2>8
<1> QED BY <1>1, <1>2, <1>7, <1>8

\* After every step lookup finds what it found before.
LEMMA LookupKept ==
  ASSUME IInv, [Next]_vars, NEW d \in DOMAIN dirs, NEW name, Lookup(d, name) # None
  PROVE  Lookup(d, name)' = Lookup(d, name)
<1>1. CASE dirs' = dirs
  BY <1>1, LookupBehind
<1>2. ASSUME NEW parent, NEW m, EntryAdded(parent, m)
      PROVE  Lookup(d, name)' = Lookup(d, name)
  <2>1. d \in DOMAIN dirs'
    BY <1>2 DEF EntryAdded
  <2>2. dirs'[d] = dirs[d] \/ dirs'[d] = Append(dirs[d], Entry(nextIno, m))
    BY <1>2 DEF EntryAdded
  <2>3. Entry(nextIno, m) \in DirEntries
    BY <1>2, NewInode DEF EntryAdded, Entry, DirEntries
  <2> QED BY <2>1, <2>2, <2>3, LookupBehind
<1>3. ASSUME NEW parent, NEW m \in Names, NEW data \in Contents, CreateFile(parent, m, data)
      PROVE  Lookup(d, name)' = Lookup(d, name)
  <2>1. CASE Len(Granted(BlocksOf[data])) = BlocksOf[data]
    BY <1>2, <1>3, <2>1, CreateFileAdds
  <2>2. CASE Len(Granted(BlocksOf[data])) # BlocksOf[data]
    BY <1>1, <1>3, <2>2 DEF CreateFile
  <2> QED BY <2>1, <2>2
<1>4. ASSUME NEW parent, NEW m \in Names, Mkdir(parent, m)
      PROVE  Lookup(d, name)' = Lookup(d, name)
  BY <1>2, <1>4, MkdirAdds
<1>5. CASE UNCHANGED vars \/ Sync \/ \E parent : BadParent(parent)
  BY <1>1, <1>5 DEF vars, Sync, BadParent
<1> QED BY <1>3, <1>4, <1>5 DEF Next

-----------------------------------------------------------------------------
(* What sync writes: putting in order, one after another *)

\* A finite set of numbers in order: each of them once, the lower before the higher.
LEMMA SortedIs ==
  ASSUME NEW S, S \subseteq Nat, IsFiniteSet(S)
  PROVE  /\ Cardinality(S) \in Nat /\ Sorted(S) \in [1 .. Cardinality(S) -> S]
         /\ \A i \in S : \E k \in 1 .. Cardinality(S) : Sorted(S)[k] = i
         /\ \A j, k \in 1 .. Cardinality(S) : j < k => Sorted(S)[j] < Sorted(S)[k]
<1> DEFINE m == Cardinality(S)
<1>1. m \in Nat
  BY FS_CardinalityType
<1>2. Sorted(S) = [k \in 1 .. m |-> CHOOSE i \in S : Ahead(S, i) = k - 1]
  BY DEF Sorted, Ahead
<1>3. ASSUME NEW i \in S
      PROVE  Ahead(S, i) \in 0 .. m - 1 /\ \A c \in S : c < i => Ahead(S, c) < Ahead(S, i)
  BY AheadIs
<1>4. \A i, c \in S : Ahead(S, i) = Ahead(S, c) => i = c
  BY AheadInjective
<1>5. \A j \in 0 .. m - 1 : \E i \in S : Ahead(S, i) = j
  BY AheadOnto
<1> DEFINE s == Sorted(S)
<1>6. s = [k \in 1 .. m |-> CHOOSE i \in S : Ahead(S, i) = k - 1]
  BY <1>2
<1> HIDE DEF m, s
<1>7. ASSUME NEW k \in 1 .. m PROVE s[k] \in S /\ Ahead(S, s[k]) = k - 1
  <2>1. k - 1 \in 0 .. m - 1
    BY <1>1
  <2>2. \E i \in S : Ahead(S, i) = k - 1
    BY <1>5, <2>1
  <2>3. s[k] = CHOOSE i \in S : Ahead(S, i) = k - 1
    BY <1>6
  <2> QED BY <2>2, <2>3
<1>8. s \in [1 .. m -> S]
  BY <1>6, <1>7
<1>9. ASSUME NEW i \in S PROVE \E k \in 1 .. m : s[k] = i
  <2>1. Ahead(S, i) + 1 \in 1 .. m /\ (Ahead(S, i) + 1) - 1 = Ahead(S, i)
    BY <1>1, <1>3
  <2>2. PICK k \in 1 .. m : k = Ahead(S, i) + 1 /\ k - 1 = Ahead(S, i)
    BY <2>1
  <2>3. s[k] \in S /\ Ahead(S, s[k]) = Ahead(S, i)
    BY <1>7, <2>2
  <2> QED BY <1>4, <2>3
<1>10. ASSUME NEW j \in 1 .. m, NEW k \in 1 .. m, j < k PROVE s[j] < s[k]
  <2>1. PICK a \in S, b \in S : a = s[j] /\ b = s[k] /\ Ahead(S, a) = j - 1 /\ Ahead(S, b) = k - 1
    BY <1>7
  <2>2. a \in Nat /\ b \in Nat /\ j \in Nat /\ k \in Nat
    BY <1>1
  <2>3. ~(b < a)
    <3> SUFFICES ASSUME b < a PROVE FALSE
      OBVIOUS
    <3>1. k - 1 < j - 1
      BY <1>3, <2>1
    <3> QED BY <1>10, <2>2, <3>1
  <2>4. a # b
    BY <1>10, <2>1, <2>2
  <2> QED BY <2>1, <2>2, <2>3, <2>4
<1> QED BY <1>1, <1>8, <1>9, <1>10 DEF m, s

\* Where the first n of the sequences F are in their concatenation c, those before k at o[k].
LaidOut(c, o, F, n) ==
  /\ \A k \in 1 .. n :
       /\ o[k] \in Nat /\ o[k] + Len(F[k]) <= Len(c)
       /\ \A j \in 1 .. Len(F[k]) : c[o[k] + j] = F[k][j]
       /\ \A l \in 1 .. k - 1 : o[l] + Len(F[l]) <= o[k]
  /\ \A p \in 1 .. Len(c) : \E k \in 1 .. n : \E j \in 1 .. Len(F[k]) : p = o[k] + j

\* What the definition of the concatenation says of itself.
IsFlat(f, F, m) == f = [i \in 1 .. m |-> IF i = 1 THEN F[i] ELSE f[i - 1] \o F[i]]

\* There is one.
LEMMA FlatExists ==
  ASSUME NEW F, NEW m \in Nat
  PROVE  \E f : IsFlat(f, F, m)
<1> DEFINE Missing == {n \in Nat : ~\E f : IsFlat(f, F, n)}
<1>1. ASSUME Missing # {} PROVE FALSE
  <2>1. PICK n \in Missing : \A k \in Missing : n <= k
    <3>1. Missing \subseteq Nat
      OBVIOUS
    <3> HIDE DEF Missing
    <3>2. Min(Missing) \in Missing /\ \A k \in Missing : Min(Missing) <= k
      BY <1>1, <3>1, MinIs
    <3> QED BY <3>2
  <2>2. n \in Nat /\ ~\E f : IsFlat(f, F, n)
    BY <2>1
  <2>3. n # 0
    <3> SUFFICES ASSUME n = 0 PROVE FALSE
      OBVIOUS
    <3> DEFINE f == [i \in 1 .. 0 |-> F[i]]
    <3>1. \A i \in 1 .. 0 : FALSE
      OBVIOUS
    <3>2. IsFlat(f, F, 0)
      BY <3>1 DEF IsFlat
    <3> QED BY <2>2, <3>2
  <2>4. n - 1 \in Nat /\ ~(n <= n - 1)
    BY <2>2, <2>3
  <2>5. ~(n - 1 \in Missing)
    BY <2>1, <2>4
  <2>6. PICK f : IsFlat(f, F, n - 1)
    BY <2>4, <2>5
  <2> DEFINE g == [i \in 1 .. n |-> IF i = 1 THEN F[i] ELSE f[i - 1] \o F[i]]
  <2>7. ASSUME NEW i \in 1 .. n PROVE g[i] = IF i = 1 THEN F[i] ELSE g[i - 1] \o F[i]
    <3>1. CASE i = 1
      BY <3>1
    <3>2. CASE i # 1
      <4>1. i - 1 \in 1 .. n - 1 /\ i - 1 \in 1 .. n
        BY <2>2, <3>2
      <4>2. f[i - 1] = IF i - 1 = 1 THEN F[i - 1] ELSE f[i - 1 - 1] \o F[i - 1]
        BY <2>6, <4>1 DEF IsFlat
      <4>3. g[i - 1] = IF i - 1 = 1 THEN F[i - 1] ELSE f[i - 1 - 1] \o F[i - 1]
        BY <4>1
      <4> QED BY <3>2, <4>2, <4>3
    <3> QED BY <3>1, <3>2
  <2>8. g = [i \in 1 .. n |-> g[i]]
    OBVIOUS
  <2> HIDE DEF g
  <2>9. IsFlat(g, F, n)
    BY <2>7, <2>8 DEF IsFlat
  <2> QED BY <2>2, <2>9
<1>2. m \notin Missing
  BY <1>1
<1> QED BY <1>2


\* The concatenation of sequences has them one behind the other, and nothing else.
LEMMA FlattenIs ==
  ASSUME NEW E, NEW m \in Nat \ {0}, NEW F \in [1 .. m -> Seq(E)]
  PROVE  \E o : FlattenSeq(F) \in Seq(E) /\ LaidOut(FlattenSeq(F), o, F, m)
<1> DEFINE C == CHOOSE f : IsFlat(f, F, m)
           o == [k \in 1 .. m |-> IF k = 1 THEN 0 ELSE Len(C[k - 1])]
<1>1. IsFlat(C, F, m)
  BY FlatExists
<1>2. FlattenSeq(F) = C[m]
  <2>1. Len(F) = m
    OBVIOUS
  <2> QED BY <2>1 DEF FlattenSeq, IsFlat
<1> HIDE DEF C
<1>3. ASSUME NEW n \in 1 .. m
      PROVE  /\ C[n] = IF n = 1 THEN F[n] ELSE C[n - 1] \o F[n]
             /\ o[n] = IF n = 1 THEN 0 ELSE Len(C[n - 1])
             /\ F[n] \in Seq(E) /\ Len(F[n]) \in Nat
  <2>1. C = [i \in 1 .. m |-> IF i = 1 THEN F[i] ELSE C[i - 1] \o F[i]]
    BY <1>1 DEF IsFlat
  <2>2. C[n] = IF n = 1 THEN F[n] ELSE C[n - 1] \o F[n]
    BY <2>1
  <2>3. o[n] = IF n = 1 THEN 0 ELSE Len(C[n - 1])
    OBVIOUS
  <2> HIDE DEF o
  <2>4. F[n] \in Seq(E)
    OBVIOUS
  <2>5. Len(F[n]) \in Nat
    BY <2>4
  <2> QED BY <2>2, <2>3, <2>4, <2>5
<1> HIDE DEF o
<1> DEFINE Right(n) == C[n] \in Seq(E) /\ LaidOut(C[n], o, F, n) /\ o[n] + Len(F[n]) = Len(C[n])
           Wrong == {n \in 1 .. m : ~Right(n)}
<1>4. Right(1)
  <2>1. C[1] = F[1] /\ o[1] = 0 /\ F[1] \in Seq(E) /\ Len(F[1]) \in Nat
    BY <1>3
  <2>2. \A k \in 1 .. 1 : k = 1
    OBVIOUS
  <2>3. \A k \in 1 .. 1 : \A l \in 1 .. k - 1 : FALSE
    OBVIOUS
  <2>4. \A k \in 1 .. 1 :
          /\ o[k] \in Nat /\ o[k] + Len(F[k]) <= Len(C[1])
          /\ \A j \in 1 .. Len(F[k]) : C[1][o[k] + j] = F[k][j]
    BY <2>1, <2>2
  <2>5. \A p \in 1 .. Len(C[1]) : \E k \in 1 .. 1 : \E j \in 1 .. Len(F[k]) : p = o[k] + j
    <3> TAKE p \in 1 .. Len(C[1])
    <3>1. p \in 1 .. Len(F[1]) /\ p = o[1] + p /\ 1 \in 1 .. 1
      BY <2>1
    <3> QED BY <3>1
  <2> QED BY <2>1, <2>3, <2>4, <2>5 DEF LaidOut
<1>5. ASSUME NEW n \in 2 .. m, Right(n - 1) PROVE Right(n)
  <2> DEFINE c == C[n - 1]
             d == C[n]
             e == F[n]
  <2>1. n \in 1 .. m /\ n # 1 /\ n - 1 \in 1 .. m /\ n \in Nat
    OBVIOUS
  <2>2. /\ c \in Seq(E) /\ LaidOut(c, o, F, n - 1)
        /\ d = c \o e /\ o[n] = Len(c) /\ e \in Seq(E)
    BY <1>3, <1>5, <2>1
  <2> HIDE DEF c, d, e
  <2>3. /\ d \in Seq(E) /\ Len(d) = Len(c) + Len(e) /\ Len(c) \in Nat /\ Len(e) \in Nat
        /\ \A i \in 1 .. Len(c) : d[i] = c[i]
        /\ \A j \in 1 .. Len(e) : d[Len(c) + j] = e[j]
    BY <2>2, ConcatProperties
  <2>4. \A k \in 1 .. n : k \in 1 .. n - 1 \/ k = n
    BY <2>1
  <2>5. ASSUME NEW k \in 1 .. n - 1
        PROVE  /\ o[k] \in Nat /\ o[k] + Len(F[k]) <= Len(c) /\ Len(F[k]) \in Nat
               /\ \A j \in 1 .. Len(F[k]) : c[o[k] + j] = F[k][j] /\ o[k] + j \in 1 .. Len(c)
               /\ \A l \in 1 .. k - 1 : o[l] + Len(F[l]) <= o[k]
    <3>1. k \in 1 .. m
      BY <2>1
    <3>2. /\ o[k] \in Nat /\ o[k] + Len(F[k]) <= Len(c)
          /\ \A j \in 1 .. Len(F[k]) : c[o[k] + j] = F[k][j]
          /\ \A l \in 1 .. k - 1 : o[l] + Len(F[l]) <= o[k]
      BY <2>2 DEF LaidOut
    <3>3. Len(F[k]) \in Nat
      BY <1>3, <3>1
    <3> QED BY <2>3, <3>2, <3>3
  <2>6. ASSUME NEW k \in 1 .. n
        PROVE  /\ o[k] \in Nat /\ o[k] + Len(F[k]) <= Len(d)
               /\ \A j \in 1 .. Len(F[k]) : d[o[k] + j] = F[k][j]
               /\ \A l \in 1 .. k - 1 : o[l] + Len(F[l]) <= o[k]
    <3>1. CASE k \in 1 .. n - 1
      <4>1. o[k] + Len(F[k]) <= Len(d)
        BY <2>3, <2>5, <3>1
      <4>2. \A j \in 1 .. Len(F[k]) : d[o[k] + j] = F[k][j]
        BY <2>3, <2>5, <3>1
      <4> QED BY <2>5, <3>1, <4>1, <4>2
    <3>2. CASE k = n
      <4>1. o[n] \in Nat /\ o[n] + Len(F[n]) <= Len(d)
        BY <2>2, <2>3 DEF e
      <4>2. \A j \in 1 .. Len(F[n]) : d[o[n] + j] = F[n][j]
        BY <2>2, <2>3 DEF e
      <4>3. \A l \in 1 .. n - 1 : o[l] + Len(F[l]) <= o[n]
        BY <2>2, <2>5
      <4> QED BY <3>2, <4>1, <4>2, <4>3
    <3> QED BY <2>4, <3>1, <3>2
  <2>7. ASSUME NEW p \in 1 .. Len(d)
        PROVE  \E k \in 1 .. n : \E j \in 1 .. Len(F[k]) : p = o[k] + j
    <3>1. CASE p \in 1 .. Len(c)
      <4>1. PICK k \in 1 .. n - 1 : \E j \in 1 .. Len(F[k]) : p = o[k] + j
        BY <2>2, <3>1 DEF LaidOut
      <4>2. k \in 1 .. n
        BY <2>1
      <4> QED BY <4>1, <4>2
    <3>2. CASE ~(p \in 1 .. Len(c))
      <4>1. p - Len(c) \in 1 .. Len(F[n]) /\ p = o[n] + (p - Len(c)) /\ n \in 1 .. n
        BY <2>1, <2>2, <2>3, <3>2 DEF e
      <4> QED BY <4>1
    <3> QED BY <3>1, <3>2
  <2>8. LaidOut(d, o, F, n)
    BY <2>6, <2>7 DEF LaidOut
  <2> QED BY <2>2, <2>3, <2>8 DEF d, e
<1>6. ASSUME Wrong # {} PROVE FALSE
  <2> HIDE DEF Right
  <2>1. PICK n \in Wrong : \A k \in Wrong : n <= k
    <3>1. Wrong \subseteq Nat
      OBVIOUS
    <3> HIDE DEF Wrong
    <3>2. Min(Wrong) \in Wrong /\ \A k \in Wrong : Min(Wrong) <= k
      BY <1>6, <3>1, MinIs
    <3> QED BY <3>2
  <2>2. n \in 1 .. m /\ ~Right(n) /\ n # 1
    BY <1>4, <2>1
  <2>3. n \in 2 .. m /\ n - 1 \in 1 .. m /\ ~(n <= n - 1)
    BY <2>2
  <2>4. Right(n - 1)
    BY <2>1, <2>3
  <2> QED BY <1>5, <2>2, <2>3, <2>4
<1>7. Right(m)
  <2>1. m \in 1 .. m /\ m \notin Wrong
    BY <1>6
  <2> QED BY <2>1
<1> QED BY <1>2, <1>7

-----------------------------------------------------------------------------
(* Directories and the tables, once more *)

(* What the entries of a directory are, beside their types: its own and its parent's, which *)
(* is no younger, then younger inodes in the order in which they were made; and who has      *)
(* blocks and data.                                                                          *)
EntriesOK ==
  /\ \A d \in DOMAIN dirs :
       /\ dirs[d][1] = Entry(d, ".") /\ dirs[d][2].name = ".." /\ dirs[d][2].ino <= d
       /\ \A k \in 3 .. Len(dirs[d]) : dirs[d][k].name \in Names
       /\ \A k \in DOMAIN dirs[d] : dirs[d][k].ino \in DOMAIN inodes
       /\ \A j \in DOMAIN dirs[d], k \in 3 .. Len(dirs[d]) : j < k => dirs[d][j].ino < dirs[d][k].ino
  /\ \A i \in DOMAIN inodes : /\ Len(inodes[i].addrs) = inodes[i].blocks
                              /\ inodes[i].dir => i \notin DOMAIN fileData
                              /\ ~inodes[i].dir => /\ i \in DOMAIN fileData
                                                   /\ inodes[i].size = SizeOf[fileData[i]]

\* The root directory alone.
LEMMA InitEntries == Init => EntriesOK
<1> SUFFICES ASSUME Init PROVE EntriesOK
  OBVIOUS
<1>1. PICK r, s : /\ r = NewDir
                  /\ s = <<Entry(RootIno, "."), Entry(RootIno, "..")>>
  OBVIOUS
<1>2. /\ inodes = [i \in {RootIno} |-> r] /\ dirs = [i \in {RootIno} |-> s]
      /\ fileData = [i \in {} |-> None]
  BY <1>1 DEF Init
<1>3. DOMAIN inodes = {1} /\ inodes[1] = r /\ DOMAIN dirs = {1} /\ dirs[1] = s /\ DOMAIN fileData = {}
  BY <1>2 DEF RootIno
<1>4. Len(r.addrs) = r.blocks /\ r.dir = TRUE
  BY <1>1 DEF NewDir
<1>5. /\ Len(s) = 2 /\ s[1] = Entry(1, ".") /\ s[2].name = ".." /\ s[2].ino = 1
      /\ \A k \in DOMAIN s : s[k].ino = 1
  <2>1. /\ s[1] = Entry(RootIno, ".") /\ s[2] = Entry(RootIno, "..") /\ Len(s) = 2
        /\ \A k \in DOMAIN s : k = 1 \/ k = 2
    BY <1>1
  <2> QED BY <2>1 DEF Entry, RootIno
<1> QED BY <1>3, <1>4, <1>5 DEF EntriesOK

\* A new entry is the last, and its inode the newest.
LEMMA AddedEntries ==
  ASSUME IInv, EntriesOK, NEW parent, NEW name, EntryAdded(parent, name), NEW d \in DOMAIN dirs'
  PROVE  /\ dirs'[d][1] = Entry(d, ".") /\ dirs'[d][2].name = ".." /\ dirs'[d][2].ino <= d
         /\ \A k \in 3 .. Len(dirs'[d]) : dirs'[d][k].name \in Names
         /\ \A k \in DOMAIN dirs'[d] : dirs'[d][k].ino \in DOMAIN inodes'
         /\ \A j \in DOMAIN dirs'[d], k \in 3 .. Len(dirs'[d]) :
               j < k => dirs'[d][j].ino < dirs'[d][k].ino
<1>1. /\ nextIno \in DOMAIN inodes' /\ DOMAIN inodes \subseteq DOMAIN inodes'
      /\ parent \in DOMAIN dirs /\ parent \in DOMAIN inodes /\ name \in Names
  BY NewInode DEF EntryAdded
<1>2. ASSUME NEW c \in DOMAIN dirs
      PROVE  /\ dirs[c] \in Seq(DirEntries) /\ Len(dirs[c]) >= 2
             /\ dirs[c][1] = Entry(c, ".") /\ dirs[c][2].name = ".." /\ dirs[c][2].ino <= c
             /\ \A k \in 3 .. Len(dirs[c]) : dirs[c][k].name \in Names
             /\ \A k \in DOMAIN dirs[c] : dirs[c][k].ino \in DOMAIN inodes /\ dirs[c][k].ino < nextIno
             /\ \A j \in DOMAIN dirs[c], k \in 3 .. Len(dirs[c]) :
                   j < k => dirs[c][j].ino < dirs[c][k].ino
  BY DEF IInv, TablesOK, EntriesOK
<1>3. CASE d = parent
  <2>1. PICK e : e = Entry(nextIno, name)
    OBVIOUS
  <2>2. e \in DirEntries /\ e.ino = nextIno /\ e.name = name
    BY <1>1, <2>1, NewInode DEF Entry, DirEntries
  <2>3. PICK s \in Seq(DirEntries) : s = dirs[parent]
    BY <1>1, <1>2
  <2>4. PICK t : t = dirs'[d]
    OBVIOUS
  <2>5. t = Append(s, e)
    BY <1>3, <2>1, <2>3, <2>4 DEF EntryAdded
  <2>6. /\ Len(t) = Len(s) + 1 /\ t[Len(s) + 1] = e
        /\ \A k \in 1 .. Len(s) : t[k] = s[k]
        /\ DOMAIN s = 1 .. Len(s) /\ DOMAIN t = 1 .. Len(s) + 1 /\ Len(s) \in Nat
    BY <2>2, <2>5, AppendIs
  <2>7. /\ Len(s) >= 2 /\ s[1] = Entry(parent, ".") /\ s[2].name = ".." /\ s[2].ino <= parent
        /\ \A k \in 3 .. Len(s) : s[k].name \in Names
        /\ \A k \in DOMAIN s : s[k].ino \in DOMAIN inodes /\ s[k].ino < nextIno
        /\ \A j \in DOMAIN s, k \in 3 .. Len(s) : j < k => s[j].ino < s[k].ino
    BY <1>1, <1>2, <2>3
  <2>8. t[1] = Entry(d, ".") /\ t[2].name = ".." /\ t[2].ino <= d
    BY <1>3, <2>6, <2>7
  <2>9. \A k \in 3 .. Len(t) : t[k].name \in Names
    <3> TAKE k \in 3 .. Len(t)
    <3>1. k \in 3 .. Len(s) \/ k = Len(s) + 1
      BY <2>6
    <3> QED BY <1>1, <2>2, <2>6, <2>7, <3>1
  <2>10. \A k \in DOMAIN t : t[k].ino \in DOMAIN inodes'
    <3> TAKE k \in DOMAIN t
    <3>1. k \in 1 .. Len(s) \/ k = Len(s) + 1
      BY <2>6
    <3> QED BY <1>1, <2>2, <2>6, <2>7, <3>1
  <2>11. \A j \in DOMAIN t, k \in 3 .. Len(t) : j < k => t[j].ino < t[k].ino
    <3> SUFFICES ASSUME NEW j \in DOMAIN t, NEW k \in 3 .. Len(t), j < k
                 PROVE  t[j].ino < t[k].ino
      OBVIOUS
    <3>1. j \in 1 .. Len(s) /\ (k \in 3 .. Len(s) \/ k = Len(s) + 1)
      BY <2>6
    <3>2. CASE k \in 3 .. Len(s)
      BY <2>6, <2>7, <3>1, <3>2
    <3>3. CASE k = Len(s) + 1
      BY <2>2, <2>6, <2>7, <3>1, <3>3
    <3> QED BY <3>1, <3>2, <3>3
  <2> QED BY <2>4, <2>8, <2>9, <2>10, <2>11
<1>4. CASE d # parent /\ d \in DOMAIN dirs
  <2>1. dirs'[d] = dirs[d]
    BY <1>4 DEF EntryAdded
  <2> QED BY <1>1, <1>2, <1>4, <2>1
<1>5. CASE d \notin DOMAIN dirs
  <2>1. d = nextIno /\ dirs'[d] = <<Entry(nextIno, "."), Entry(parent, "..")>>
    BY <1>5 DEF EntryAdded
  <2>2. /\ dirs'[d][1] = Entry(d, ".") /\ dirs'[d][2] = Entry(parent, "..") /\ Len(dirs'[d]) = 2
        /\ \A k \in DOMAIN dirs'[d] : k = 1 \/ k = 2
    BY <2>1
  <2>3. /\ Entry(d, ".").ino = d /\ Entry(parent, "..").ino = parent
        /\ Entry(parent, "..").name = ".."
    BY DEF Entry
  <2>4. parent <= d
    BY <1>1, <2>1, NewInode
  <2> QED BY <1>1, <2>1, <2>2, <2>3, <2>4
<1> QED BY <1>3, <1>4, <1>5

\* Every step keeps that.
LEMMA NextEntries == IInv /\ EntriesOK /\ [Next]_vars => EntriesOK'
<1> SUFFICES ASSUME IInv, EntriesOK, [Next]_vars PROVE EntriesOK'
  OBVIOUS
<1>1. ASSUME UNCHANGED <<inodes, dirs, fileData>> PROVE EntriesOK'
  BY <1>1 DEF EntriesOK
<1>2. ASSUME NEW parent, NEW name, EntryAdded(parent, name), NEW r,
             inodes' = With(inodes, nextIno, r), Len(r.addrs) = r.blocks,
             DOMAIN fileData' \subseteq DOMAIN fileData \union {nextIno},
             \A i \in DOMAIN fileData : i \in DOMAIN fileData' /\ fileData'[i] = fileData[i],
             r.dir => fileData' = fileData,
             ~r.dir => nextIno \in DOMAIN fileData' /\ r.size = SizeOf[fileData'[nextIno]]
      PROVE  EntriesOK'
  <2>1. /\ \A i \in DOMAIN inodes : inodes'[i] = inodes[i]
        /\ inodes'[nextIno] = r /\ DOMAIN inodes' = DOMAIN inodes \union {nextIno}
    BY <1>2, NewBlocks
  <2>2. nextIno \notin DOMAIN inodes /\ DOMAIN fileData \subseteq DOMAIN inodes
    BY NewInode DEF IInv, TypeOK
  <2>3. ASSUME NEW i \in DOMAIN inodes'
        PROVE  /\ Len(inodes'[i].addrs) = inodes'[i].blocks
               /\ inodes'[i].dir => i \notin DOMAIN fileData'
               /\ ~inodes'[i].dir => /\ i \in DOMAIN fileData'
                                     /\ inodes'[i].size = SizeOf[fileData'[i]]
    <3>1. CASE i = nextIno
      BY <1>2, <2>1, <2>2, <3>1
    <3>2. CASE i # nextIno
      BY <1>2, <2>1, <3>2 DEF EntriesOK
    <3> QED BY <3>1, <3>2
  <2> QED BY <1>2, <2>3, AddedEntries DEF EntriesOK
<1>3. ASSUME NEW parent, NEW name \in Names, NEW data \in Contents, CreateFile(parent, name, data)
      PROVE  EntriesOK'
  <2>1. CASE Len(Granted(BlocksOf[data])) = BlocksOf[data]
    <3>1. PICK n : n = BlocksOf[data]
      OBVIOUS
    <3>2. PICK r : r = [dir |-> FALSE, size |-> SizeOf[data], blocks |-> n, addrs |-> Granted(n)]
      OBVIOUS
    <3>3. inodes' = With(inodes, nextIno, r) /\ fileData' = With(fileData, nextIno, data)
      BY <1>3, <2>1, <3>1, <3>2 DEF CreateFile
    <3>4. Len(r.addrs) = r.blocks /\ ~r.dir /\ r.size = SizeOf[data]
      BY <2>1, <3>1, <3>2
    <3>6. nextIno \notin DOMAIN fileData
      BY NewInode DEF IInv, TypeOK
    <3>5. /\ DOMAIN fileData' \subseteq DOMAIN fileData \union {nextIno}
          /\ nextIno \in DOMAIN fileData' /\ fileData'[nextIno] = data
          /\ \A i \in DOMAIN fileData : i \in DOMAIN fileData' /\ fileData'[i] = fileData[i]
      <4>1. fileData' = With(fileData, nextIno, data)
        BY <3>3
      <4>2. /\ DOMAIN fileData' = DOMAIN fileData \union {nextIno} /\ fileData'[nextIno] = data
            /\ \A i \in DOMAIN fileData : i \in DOMAIN fileData' /\ fileData'[i] = fileData[i]
        BY ONLY <4>1, <3>6 DEF With
      <4> QED BY <4>2
    <3>7. EntryAdded(parent, name)
      BY <1>3, <2>1, CreateFileAdds
    <3>8. r.size = SizeOf[fileData'[nextIno]]
      BY <3>4, <3>5
    <3> QED BY <1>2, <3>3, <3>4, <3>5, <3>7, <3>8
  <2>2. CASE Len(Granted(BlocksOf[data])) # BlocksOf[data]
    BY <1>1, <1>3, <2>2 DEF CreateFile
  <2> QED BY <2>1, <2>2
<1>4. ASSUME NEW parent, NEW name \in Names, Mkdir(parent, name)
      PROVE  EntriesOK'
  <2>1. PICK r : r = NewDir
    OBVIOUS
  <2>2. inodes' = With(inodes, nextIno, r) /\ fileData' = fileData
    BY <1>4, <2>1 DEF Mkdir
  <2>3. Len(r.addrs) = r.blocks /\ r.dir = TRUE
    BY <2>1 DEF NewDir
  <2> QED BY <1>2, <1>4, <2>2, <2>3, MkdirAdds
<1>5. CASE UNCHANGED vars \/ Sync \/ \E parent : BadParent(parent)
  BY <1>1, <1>5 DEF vars, Sync, BadParent
<1> QED BY <1>3, <1>4, <1>5 DEF Next


-----------------------------------------------------------------------------
(* The image, between two syncs *)

(* The image is of inodes there are, and of no more entries than their directories have; its *)
(* files have data.                                                                          *)
ImageFits ==
  image # None =>
    \A k \in DOMAIN image.inodes :
      LET ino == image.inodes[k].ino IN
      /\ ino \in DOMAIN inodes
      /\ image.inodes[k].dir => /\ ino \in DOMAIN dirs
                                /\ DOMAIN EntriesOf(ino) \subseteq DOMAIN dirs[ino]
      /\ ~image.inodes[k].dir => ino \in DOMAIN fileData

\* A name lookup did not find, it finds behind a new entry as that entry's inode or not at all.
LEMMA LookupNew ==
  ASSUME IInv, NEW d \in DOMAIN dirs, NEW name, Lookup(d, name) = None,
         d \in DOMAIN dirs', NEW e \in DirEntries, dirs'[d] = Append(dirs[d], e)
  PROVE  Lookup(d, name)' = None \/ Lookup(d, name)' = e.ino
<1>1. PICK s \in Seq(DirEntries) : s = dirs[d]
  BY DEF IInv, TablesOK
<1>2. PICK t : t = dirs'[d]
  OBVIOUS
<1>3. PICK found : found = {k \in DOMAIN s : s[k].name = name}
  OBVIOUS
<1>4. PICK foundThen : foundThen = {k \in DOMAIN t : t[k].name = name}
  OBVIOUS
<1>5. /\ Lookup(d, name) = IF found = {} THEN None ELSE s[Min(found)].ino
      /\ Lookup(d, name)' = IF foundThen = {} THEN None ELSE t[Min(foundThen)].ino
  BY <1>1, <1>2, <1>3, <1>4 DEF Lookup, EntriesNamed
<1>6. /\ \A k \in 1 .. Len(s) : t[k] = s[k]
      /\ t[Len(s) + 1] = e
      /\ DOMAIN s = 1 .. Len(s) /\ DOMAIN t = 1 .. Len(s) + 1 /\ Len(s) \in Nat
  BY <1>1, <1>2, AppendIs
<1>7. \A k \in DOMAIN s : s[k].ino # None
  <2>1. ASSUME NEW k \in DOMAIN s PROVE s[k].ino \in Nat
    <3>1. s[k] \in DirEntries
      BY <1>1
    <3> QED BY <3>1 DEF DirEntries
  <2> QED BY <2>1, PltzFsAssumption
<1>8. found = {}
  <2>1. ASSUME found # {} PROVE FALSE
    <3>1. found \subseteq Nat /\ found \subseteq DOMAIN s
      BY <1>3, <1>6
    <3>2. Min(found) \in DOMAIN s
      BY <2>1, <3>1, MinIs
    <3> QED BY <1>5, <1>7, <2>1, <3>2
  <2> QED BY <2>1
<1>9. foundThen \subseteq {Len(s) + 1}
  BY <1>3, <1>4, <1>6, <1>8
<1>10. ASSUME foundThen # {} PROVE Lookup(d, name)' = e.ino
  <2>1. foundThen \subseteq Nat
    BY <1>6, <1>9
  <2>2. Min(foundThen) = Len(s) + 1
    BY <1>9, <1>10, <2>1, MinIs
  <2> QED BY <1>5, <1>6, <1>10, <2>2
<1> QED BY <1>5, <1>10

\* No step takes anything back: inodes stay, data stays, entries stay, and a name that was free
\* gets none of the inodes there were.
LEMMA OnlyGrows ==
  ASSUME IInv, [Next]_vars
  PROVE  /\ \A i \in DOMAIN inodes : i \in DOMAIN inodes' /\ inodes'[i] = inodes[i]
         /\ \A i \in DOMAIN fileData : i \in DOMAIN fileData' /\ fileData'[i] = fileData[i]
         /\ \A d \in DOMAIN dirs :
              /\ d \in DOMAIN dirs'
              /\ \A k \in DOMAIN dirs[d] : k \in DOMAIN dirs'[d] /\ dirs'[d][k] = dirs[d][k]
              /\ \A name :
                   \/ Lookup(d, name)' = Lookup(d, name)
                   \/ Lookup(d, name) = None /\ Lookup(d, name)' \notin DOMAIN inodes
<1> DEFINE Grown ==
      /\ \A i \in DOMAIN inodes : i \in DOMAIN inodes' /\ inodes'[i] = inodes[i]
      /\ \A d \in DOMAIN dirs :
           /\ d \in DOMAIN dirs'
           /\ \A k \in DOMAIN dirs[d] : k \in DOMAIN dirs'[d] /\ dirs'[d][k] = dirs[d][k]
           /\ \A name :
                \/ Lookup(d, name)' = Lookup(d, name)
                \/ Lookup(d, name) = None /\ Lookup(d, name)' \notin DOMAIN inodes
      DataStays == \A i \in DOMAIN fileData : i \in DOMAIN fileData' /\ fileData'[i] = fileData[i]
<1>1. ASSUME UNCHANGED <<inodes, dirs>> PROVE Grown
  <2>1. \A d, name : Lookup(d, name)' = Lookup(d, name)
    BY <1>1 DEF Lookup, EntriesNamed
  <2> QED BY <1>1, <2>1
<1>2. ASSUME NEW parent, NEW m, EntryAdded(parent, m), NEW r, inodes' = With(inodes, nextIno, r)
      PROVE  Grown
  <2>1. \A i \in DOMAIN inodes : i \in DOMAIN inodes' /\ inodes'[i] = inodes[i]
    BY <1>2, NewBlocks
  <2>2. ASSUME NEW d \in DOMAIN dirs
        PROVE  /\ d \in DOMAIN dirs'
               /\ dirs'[d] = dirs[d] \/ dirs'[d] = Append(dirs[d], Entry(nextIno, m))
               /\ dirs[d] \in Seq(DirEntries)
    BY <1>2 DEF EntryAdded, IInv, TablesOK
  <2>3. /\ Entry(nextIno, m) \in DirEntries /\ Entry(nextIno, m).ino = nextIno
        /\ nextIno \notin DOMAIN inodes /\ None \notin DOMAIN inodes
    BY <1>2, NewInode, PltzFsAssumption DEF EntryAdded, Entry, DirEntries
  <2>4. ASSUME NEW d \in DOMAIN dirs, NEW k \in DOMAIN dirs[d]
        PROVE  k \in DOMAIN dirs'[d] /\ dirs'[d][k] = dirs[d][k]
    <3>1. CASE dirs'[d] = dirs[d]
      BY <3>1
    <3>2. CASE dirs'[d] = Append(dirs[d], Entry(nextIno, m))
      <4>1. /\ DOMAIN dirs[d] = 1 .. Len(dirs[d]) /\ DOMAIN dirs'[d] = 1 .. Len(dirs[d]) + 1
            /\ \A j \in 1 .. Len(dirs[d]) : dirs'[d][j] = dirs[d][j]
            /\ Len(dirs[d]) \in Nat
        BY <2>2, <2>3, <3>2, AppendIs
      <4> QED BY <4>1
    <3> QED BY <2>2, <3>1, <3>2
  <2>5. ASSUME NEW d \in DOMAIN dirs, NEW name
        PROVE  \/ Lookup(d, name)' = Lookup(d, name)
               \/ Lookup(d, name) = None /\ Lookup(d, name)' \notin DOMAIN inodes
    <3>1. CASE Lookup(d, name) # None
      BY <3>1, LookupKept
    <3>2. CASE Lookup(d, name) = None /\ dirs'[d] = dirs[d]
      BY <2>2, <3>2 DEF Lookup, EntriesNamed
    <3>3. CASE Lookup(d, name) = None /\ dirs'[d] = Append(dirs[d], Entry(nextIno, m))
      BY <2>2, <2>3, <3>3, LookupNew
    <3> QED BY <2>2, <3>1, <3>2, <3>3
  <2> QED BY <2>1, <2>2, <2>4, <2>5
<1> HIDE DEF Grown
<1>3. ASSUME NEW parent, NEW m \in Names, NEW data \in Contents, CreateFile(parent, m, data)
      PROVE  Grown /\ DataStays
  <2>1. CASE Len(Granted(BlocksOf[data])) = BlocksOf[data]
    <3>1. PICK r : inodes' = With(inodes, nextIno, r)
      BY <1>3, <2>1 DEF CreateFile
    <3>2. fileData' = With(fileData, nextIno, data) /\ nextIno \notin DOMAIN fileData
      BY <1>3, <2>1, NewInode DEF CreateFile, IInv, TypeOK
    <3>3. DataStays
      BY ONLY <3>2 DEF With
    <3>4. Grown
      BY <1>2, <1>3, <2>1, <3>1, CreateFileAdds
    <3> QED BY <3>3, <3>4
  <2>2. CASE Len(Granted(BlocksOf[data])) # BlocksOf[data]
    BY <1>1, <1>3, <2>2 DEF CreateFile
  <2> QED BY <2>1, <2>2
<1>4. ASSUME NEW parent, NEW m \in Names, Mkdir(parent, m)
      PROVE  Grown /\ DataStays
  <2>1. PICK r : inodes' = With(inodes, nextIno, r) /\ fileData' = fileData
    BY <1>4 DEF Mkdir
  <2> QED BY <1>2, <1>4, <2>1, MkdirAdds
<1>5. ASSUME UNCHANGED vars \/ Sync \/ \E parent : BadParent(parent)
      PROVE  Grown /\ DataStays
  <2>1. UNCHANGED <<inodes, dirs, fileData>>
    BY <1>5 DEF vars, Sync, BadParent
  <2> QED BY <1>1, <2>1
<1>6. Grown /\ DataStays
  BY <1>3, <1>4, <1>5 DEF Next
<1> QED BY <1>6 DEF Grown


\* What a reader of the platters finds by name is what lookup goes on finding.
LEMMA SameNamesKept ==
  ASSUME IInv, [Next]_vars, image' = image, NEW d \in DOMAIN dirs, SameNames(d),
         \A k \in DOMAIN image.inodes : image.inodes[k].ino \in DOMAIN inodes
  PROVE  SameNames(d)'
<1> DEFINE All         == Names \union Dots
           Alike(name) == {m \in All : Cut(m) = Cut(name)}
           Inos        == {image.inodes[k].ino : k \in DOMAIN image.inodes}
           Old(name)   == {i \in {Lookup(d, m) : m \in Alike(name)} \ {None} :
                               \E k \in DOMAIN image.inodes : image.inodes[k].ino = i}
           Now(name)  == {i \in {Lookup(d, m)' : m \in Alike(name)} \ {None} :
                               \E k \in DOMAIN image.inodes : image.inodes[k].ino = i}
<1>1. ASSUME NEW m \in All
      PROVE  \/ Lookup(d, m)' = Lookup(d, m)
             \/ Lookup(d, m) = None /\ Lookup(d, m)' \notin DOMAIN inodes
  BY OnlyGrows
<1>2. None \notin DOMAIN inodes
  BY NewInode, PltzFsAssumption
<1>3. ASSUME NEW name \in All PROVE Now(name) = Old(name)
  <2>1. \A m \in Alike(name) : m \in All
    OBVIOUS
  <2> HIDE DEF Alike
  <2>2. ASSUME NEW i \in Now(name) PROVE i \in Old(name)
    <3>1. PICK m \in Alike(name) : i = Lookup(d, m)'
      OBVIOUS
    <3>2. i \in DOMAIN inodes /\ i # None
      OBVIOUS
    <3>3. i = Lookup(d, m)
      BY <1>1, <2>1, <3>1, <3>2
    <3> QED BY <3>3
  <2>3. ASSUME NEW i \in Old(name) PROVE i \in Now(name)
    <3>1. PICK m \in Alike(name) : i = Lookup(d, m)
      OBVIOUS
    <3>2. i # None
      OBVIOUS
    <3>3. i = Lookup(d, m)'
      BY <1>1, <2>1, <3>1, <3>2
    <3> QED BY <3>3
  <2> HIDE DEF Old, Now
  <2> QED BY <2>2, <2>3
<1>4. \A name : LookupOnPlatter(d, name)' = LookupOnPlatter(d, name)
  BY DEF LookupOnPlatter, EntriesOf
<1>5. ASSUME NEW name \in All
      PROVE  LookupOnPlatter(d, name) = IF Old(name) = {} THEN None ELSE Min(Old(name))
  BY DEF SameNames
<1>6. (\A name \in All : LookupOnPlatter(d, name)' = IF Now(name) = {} THEN None ELSE Min(Now(name)))
        => SameNames(d)'
  BY DEF SameNames
<1> HIDE DEF Old, Now
<1> QED BY <1>3, <1>4, <1>5, <1>6


\* The inodes are finitely many numbers.
LEMMA InodesFinite ==
  ASSUME IInv
  PROVE  DOMAIN inodes \subseteq Nat /\ IsFiniteSet(DOMAIN inodes) /\ DOMAIN inodes # {}
<1>1. DOMAIN inodes \subseteq 1 .. nextIno - 1 /\ nextIno \in Nat /\ RootIno \in DOMAIN inodes
  BY NewInode DEF IInv, TypeOK
<1>2. IsFiniteSet(1 .. nextIno - 1)
  BY <1>1, FS_Interval
<1>3. IsFiniteSet(DOMAIN inodes)
  BY <1>1, <1>2, FS_Subset
<1> QED BY <1>1, <1>3

\* So data once there is read in the same order for ever.
LEMMA SameData ==
  ASSUME IInv, NEW S \in SUBSET DOMAIN fileData,
         \A i \in DOMAIN fileData : i \in DOMAIN fileData' /\ fileData'[i] = fileData[i]
  PROVE  DataOf(S)' = DataOf(S)
<1>1. S \subseteq Nat /\ IsFiniteSet(S)
  BY InodesFinite, FS_Subset DEF IInv, TypeOK
<1>2. Sorted(S) \in [1 .. Cardinality(S) -> S]
  BY <1>1, SortedIs
<1>3. PICK n, kept : n = Cardinality(S) /\ kept = Sorted(S) /\ kept \in [1 .. n -> S]
  BY <1>2
<1>4. /\ DataOf(S) = [k \in 1 .. n |-> fileData[kept[k]]]
      /\ DataOf(S)' = [k \in 1 .. n |-> fileData'[kept[k]]]
  BY <1>3 DEF DataOf
<1>5. \A k \in 1 .. n : fileData'[kept[k]] = fileData[kept[k]]
  BY <1>3
<1> QED BY <1>4, <1>5

\* Until the next sync the image stays what a reader of the filesystem expects.
LEMMA ImageKept ==
  ASSUME IInv, ImageFits, ImageConsistent, [Next]_vars, image' = image
  PROVE  ImageFits' /\ ImageConsistent'
<1>1. CASE image = None
  BY <1>1 DEF ImageFits, ImageConsistent
<1>2. CASE image # None
  <2>1. \A k : ReadBack(k)' = ReadBack(k) /\ ReadBack(k).dir = image.inodes[k].dir
    BY DEF ReadBack, InodeFromBytes
  <2>2. \A ino : EntriesOf(ino)' = EntriesOf(ino)
    BY DEF EntriesOf
  <2>3. ASSUME NEW k \in DOMAIN image.inodes, NEW ino, ino = image.inodes[k].ino
        PROVE  /\ ino \in DOMAIN inodes
               /\ ReadBack(k).dir => /\ ino \in DOMAIN dirs
                                     /\ DOMAIN EntriesOf(ino) \subseteq DOMAIN dirs[ino]
               /\ ~ReadBack(k).dir => ino \in DOMAIN fileData
               /\ InodeKept(k)
    BY <1>2, <2>1, <2>3 DEF ImageFits, ImageConsistent
  <2>4. ASSUME NEW k \in DOMAIN image.inodes, NEW ino, ino = image.inodes[k].ino
        PROVE  /\ inodes'[ino] = inodes[ino] /\ ino \in DOMAIN inodes'
               /\ ReadBack(k).dir =>
                    /\ ino \in DOMAIN dirs' /\ DOMAIN EntriesOf(ino) \subseteq DOMAIN dirs'[ino]
                    /\ \A j \in DOMAIN EntriesOf(ino) : EntriesOf(ino)[j].ino = dirs'[ino][j].ino
                    /\ SameNames(ino)'
               /\ ~ReadBack(k).dir =>
                    ino \in DOMAIN fileData' /\ ReadBack(k).size = SizeOf[fileData'[ino]]
    <3>1. inodes'[ino] = inodes[ino] /\ ino \in DOMAIN inodes'
      BY <2>3, <2>4, OnlyGrows
    <3>2. ASSUME ReadBack(k).dir
          PROVE  /\ ino \in DOMAIN dirs'
                 /\ DOMAIN EntriesOf(ino) \subseteq DOMAIN dirs'[ino]
                 /\ \A j \in DOMAIN EntriesOf(ino) : EntriesOf(ino)[j].ino = dirs'[ino][j].ino
                 /\ SameNames(ino)'
      <4>1. ino \in DOMAIN dirs /\ DOMAIN EntriesOf(ino) \subseteq DOMAIN dirs[ino]
        BY <2>3, <2>4, <3>2
      <4>2. /\ \A j \in DOMAIN EntriesOf(ino) : EntriesOf(ino)[j].ino = dirs[ino][j].ino
            /\ SameNames(ino)
        BY <2>3, <2>4, <3>2 DEF InodeKept
      <4>3. /\ ino \in DOMAIN dirs'
            /\ \A j \in DOMAIN dirs[ino] : j \in DOMAIN dirs'[ino] /\ dirs'[ino][j] = dirs[ino][j]
        BY <4>1, OnlyGrows
      <4>4. \A j \in DOMAIN image.inodes : image.inodes[j].ino \in DOMAIN inodes
        BY <2>3
      <4>5. SameNames(ino)'
        BY <4>1, <4>2, <4>4, SameNamesKept
      <4> QED BY <4>1, <4>2, <4>3, <4>5
    <3>3. ASSUME ~ReadBack(k).dir
          PROVE  ino \in DOMAIN fileData' /\ ReadBack(k).size = SizeOf[fileData'[ino]]
      <4>1. ino \in DOMAIN fileData /\ ReadBack(k).size = SizeOf[fileData[ino]]
        BY <2>3, <2>4, <3>3 DEF InodeKept
      <4> QED BY <4>1, OnlyGrows
    <3> QED BY <3>1, <3>2, <3>3
  <2>5. ImageFits'
    BY <2>1, <2>2, <2>4 DEF ImageFits
  <2>6. ASSUME NEW k \in DOMAIN image.inodes PROVE InodeKept(k)'
    <3>1. PICK ino : ino = image.inodes[k].ino
      OBVIOUS
    <3>2. /\ ReadBack(k).dir = inodes'[ino].dir /\ ReadBack(k).blocks = inodes'[ino].blocks
          /\ ReadBack(k).addrs =
               SubSeq(inodes'[ino].addrs, 1, Min({ReadBack(k).blocks, DirectBlocks}))
          /\ ToSet(ReadBack(k).addrs) \subseteq image.bitmap
      <4>1. /\ ReadBack(k).dir = inodes[ino].dir /\ ReadBack(k).blocks = inodes[ino].blocks
            /\ ReadBack(k).addrs =
                 SubSeq(inodes[ino].addrs, 1, Min({ReadBack(k).blocks, DirectBlocks}))
            /\ ToSet(ReadBack(k).addrs) \subseteq image.bitmap
        BY <2>3, <3>1 DEF InodeKept
      <4>2. inodes'[ino] = inodes[ino]
        BY <2>4, <3>1
      <4> QED BY <4>1, <4>2
    <3>3. SameNames(ino)' <=> SameNames(image.inodes[k].ino)'
      BY <3>1 DEF SameNames, Lookup, EntriesNamed, LookupOnPlatter, EntriesOf
    <3> QED BY <2>1, <2>2, <2>4, <3>1, <3>2, <3>3 DEF InodeKept
  <2>7. FilesOnPlatter' = FilesOnPlatter /\ FilesOnPlatter \subseteq DOMAIN fileData
    <3>1. FilesOnPlatter' = FilesOnPlatter
      BY <2>1 DEF FilesOnPlatter
    <3>2. FilesOnPlatter \subseteq DOMAIN fileData
      BY <2>3 DEF FilesOnPlatter
    <3> QED BY <3>1, <3>2
  <2>8. \E structured \in SUBSET FilesOnPlatter' :
          image'.structured = DataOf(structured)' /\ image'.raw = DataOf(FilesOnPlatter \ structured)'
    <3>1. PICK A \in SUBSET FilesOnPlatter :
            image.structured = DataOf(A) /\ image.raw = DataOf(FilesOnPlatter \ A)
      BY <1>2 DEF ImageConsistent
    <3>2. PICK B : B = FilesOnPlatter \ A
      OBVIOUS
    <3>3. \A i \in DOMAIN fileData : i \in DOMAIN fileData' /\ fileData'[i] = fileData[i]
      BY OnlyGrows
    <3>4. A \in SUBSET DOMAIN fileData /\ B \in SUBSET DOMAIN fileData
      BY <2>7, <3>2
    <3>5. DataOf(A)' = DataOf(A) /\ DataOf(B)' = DataOf(B)
      BY <3>3, <3>4, SameData
    <3>6. DataOf(FilesOnPlatter \ A)' = DataOf(B)'
      BY <2>7, <3>2 DEF DataOf
    <3> QED BY <2>7, <3>1, <3>2, <3>5, <3>6
  <2> QED BY <1>2, <2>1, <2>5, <2>6, <2>8 DEF ImageConsistent
<1> QED BY <1>1, <1>2


-----------------------------------------------------------------------------
(* The image, at a sync *)

\* The entries of directory d among all those of platter 1: EntriesOf, for any platter.
CutFrom(all, d) ==
  LET start == CHOOSE k \in DOMAIN all : BeginsAt(all, k) /\ all[k].ino = d
      ends  == {k \in start + 1 .. Len(all) : BeginsAt(all, k)}
  IN  SubSeq(all, start, IF ends = {} THEN Len(all) ELSE Min(ends) - 1)

CutEntries == [ino : Nat, name : Names \union Dots \union {Shortened[x] : x \in Names}]

(* F is m sequences of entries; each that is a directory begins with its own number and one *)
(* no larger, and from there on the numbers grow, whatever the names; and no number is used *)
(* twice.                                                                                    *)
Numbered(F, ids, m) ==
  /\ m \in Nat \ {0} /\ F \in [1 .. m -> Seq(CutEntries)]
  /\ \A k \in 1 .. m : Len(F[k]) >= 1 =>
       /\ Len(F[k]) >= 2 /\ F[k][1] = Entry(ids[k], ".")
       /\ F[k][2].name = ".." /\ F[k][2].ino <= ids[k]
  /\ \A k \in 1 .. m : \A j \in 3 .. Len(F[k]) : F[k][j - 1].ino < F[k][j].ino
  /\ \A j, k \in 1 .. m : ids[j] = ids[k] => j = k

\* Behind one directory another begins.
LEMMA NextBegins ==
  ASSUME NEW m \in Nat, NEW F, \A k \in 1 .. m : Len(F[k]) \in Nat,
         NEW all, Len(all) \in Nat, NEW o, LaidOut(all, o, F, m), NEW k \in 1 .. m,
         Len(F[k]) >= 1, o[k] + Len(F[k]) < Len(all)
  PROVE  \E l \in 1 .. m : Len(F[l]) >= 1 /\ o[l] = o[k] + Len(F[k])
<1>1. PICK u \in Nat, v \in Nat, z \in Nat :
        u = o[k] /\ v = Len(F[k]) /\ v >= 1 /\ z = Len(all) /\ u + v < z
  BY DEF LaidOut
<1>2. u + v + 1 \in 1 .. Len(all)
  BY <1>1
<1>3. PICK l \in 1 .. m : \E j \in 1 .. Len(F[l]) : u + v + 1 = o[l] + j
  BY <1>2 DEF LaidOut
<1>4. PICK x \in Nat, y \in Nat : x = o[l] /\ y = Len(F[l])
  BY DEF LaidOut
<1>5. PICK j \in 1 .. y : u + v + 1 = x + j
  BY <1>3, <1>4
<1>6. CASE l = k
  BY <1>1, <1>4, <1>5, <1>6
<1>7. CASE l < k
  <2>1. l \in 1 .. k - 1
    BY <1>7
  <2>2. x + y <= u
    BY <1>1, <1>4, <2>1 DEF LaidOut
  <2> QED BY <1>1, <1>5, <2>2
<1>8. CASE l > k
  <2>1. k \in 1 .. l - 1
    BY <1>8
  <2>2. u + v <= x
    BY <1>1, <1>4, <2>1 DEF LaidOut
  <2>3. j \in Nat /\ 1 <= j /\ j <= y
    BY <1>4, <1>5
  <2>4. u + v + 1 = x + j
    BY <1>5
  <2>5. \A c, e, f \in Nat : c <= e /\ 1 <= f /\ c + 1 = e + f => f = 1 /\ e = c
    OBVIOUS
  <2>6. u + v \in Nat /\ j = 1 /\ x = u + v /\ y >= 1
    <3>1. u + v \in Nat
      OBVIOUS
    <3>2. j = 1 /\ x = u + v
      BY <2>2, <2>3, <2>4, <2>5, <3>1
    <3> QED BY <2>3, <3>1, <3>2
  <2> QED BY <1>1, <1>4, <2>6
<1> QED BY <1>6, <1>7, <1>8

\* Of directories written one behind the other, each can be cut out again: it goes from the one
\* beginning that has its number up to the next beginning, and an entry called "." is none.
LEMMA CutOut ==
  ASSUME NEW m, NEW F, NEW ids, Numbered(F, ids, m),
         NEW all \in Seq(CutEntries), NEW o, LaidOut(all, o, F, m), NEW d \in 1 .. m, F[d] # <<>>
  PROVE  CutFrom(all, ids[d]) = F[d]
<1>0. /\ \A k \in 1 .. m : ids[k] = ids[d] => k = d
      /\ \A k \in 1 .. m : Len(F[k]) >= 1 =>
           /\ Len(F[k]) >= 2 /\ F[k][1] = Entry(ids[k], ".")
           /\ F[k][2].name = ".." /\ F[k][2].ino <= ids[k]
      /\ \A k \in 1 .. m : \A j \in 3 .. Len(F[k]) : F[k][j - 1].ino < F[k][j].ino
  BY DEF Numbered
<1>1. ASSUME NEW k \in 1 .. m
      PROVE  /\ o[k] \in Nat /\ o[k] + Len(F[k]) <= Len(all) /\ Len(F[k]) \in Nat
             /\ \A j \in 1 .. Len(F[k]) : all[o[k] + j] = F[k][j]
             /\ \A l \in 1 .. k - 1 : o[l] + Len(F[l]) <= o[k]
             /\ F[k] \in Seq(CutEntries)
  <2>1. F[k] \in Seq(CutEntries)
    BY DEF Numbered
  <2> QED BY <2>1 DEF LaidOut
<1>2. /\ Len(all) \in Nat /\ DOMAIN all = 1 .. Len(all)
      /\ \A p \in 1 .. Len(all) :
           \E k \in 1 .. m, j \in Nat : j \in 1 .. Len(F[k]) /\ p = o[k] + j
  <2>1. Len(all) \in Nat /\ DOMAIN all = 1 .. Len(all)
    OBVIOUS
  <2>2. ASSUME NEW p \in 1 .. Len(all)
        PROVE  \E k \in 1 .. m, j \in Nat : j \in 1 .. Len(F[k]) /\ p = o[k] + j
    <3>1. PICK k \in 1 .. m : \E j \in 1 .. Len(F[k]) : p = o[k] + j
      BY DEF LaidOut
    <3>2. PICK j \in 1 .. Len(F[k]) : p = o[k] + j
      BY <3>1
    <3>3. Len(F[k]) \in Nat
      BY <1>1
    <3>4. j \in Nat
      BY <3>3
    <3> QED BY <3>2, <3>4
  <2> QED BY <2>1, <2>2
<1>20. ASSUME NEW k \in 1 .. m, Len(F[k]) >= 1
       PROVE  /\ BeginsAt(all, o[k] + 1) /\ all[o[k] + 1].ino = ids[k]
              /\ all[o[k] + 1].name = "." /\ o[k] + 1 \in DOMAIN all
  <2>1. PICK u \in Nat, v \in Nat, z \in Nat :
          u = o[k] /\ v = Len(F[k]) /\ z = Len(all) /\ v >= 2 /\ u + v <= z
    BY <1>0, <1>1, <1>2, <1>20
  <2>2. u + 1 < z /\ u + 1 \in 1 .. z /\ (u + 1) + 1 = u + 2 /\ 1 \in 1 .. v /\ 2 \in 1 .. v
    BY <2>1
  <2>3. all[u + 1] = F[k][1] /\ all[(u + 1) + 1] = F[k][2]
    <3>1. \A j \in 1 .. v : all[u + j] = F[k][j]
      BY <1>1, <2>1
    <3>2. 1 \in 1 .. v /\ 2 \in 1 .. v /\ (u + 1) + 1 = u + 2
      BY <2>2
    <3>3. all[u + 1] = F[k][1]
      BY <3>1, <3>2
    <3>4. all[u + 2] = F[k][2]
      BY <3>1, <3>2
    <3> QED BY <3>2, <3>3, <3>4
  <2>4. all[u + 1].name = "." /\ all[u + 1].ino = ids[k]
    <3>1. F[k][1] = Entry(ids[k], ".")
      BY <1>0, <1>20
    <3>2. Entry(ids[k], ".").name = "." /\ Entry(ids[k], ".").ino = ids[k]
      BY DEF Entry
    <3> QED BY <2>3, <3>1, <3>2
  <2>5. all[(u + 1) + 1].name = ".." /\ all[(u + 1) + 1].ino <= ids[k]
    BY <1>0, <1>20, <2>3
  <2>6. BeginsAt(all, u + 1)
    BY <2>1, <2>2, <2>4, <2>5 DEF BeginsAt
  <2> QED BY <1>2, <2>1, <2>2, <2>4, <2>6
<1>21. ASSUME NEW k \in 1 .. m, Len(F[k]) >= 1, o[k] + Len(F[k]) < Len(all)
       PROVE  \E l \in 1 .. m : Len(F[l]) >= 1 /\ o[l] = o[k] + Len(F[k])
  <2>1. m \in Nat
    BY DEF Numbered
  <2>2. \A l \in 1 .. m : Len(F[l]) \in Nat
    BY <1>1
  <2>3. Len(all) \in Nat
    BY <1>2
  <2>4. LaidOut(all, o, F, m)
    OBVIOUS
  <2> QED BY ONLY <1>21, <2>1, <2>2, <2>3, <2>4, NextBegins
<1>3. ASSUME NEW k \in 1 .. m, NEW j \in 1 .. Len(F[k]), BeginsAt(all, o[k] + j)
      PROVE  j = 1
  <2>1. PICK u \in Nat, v \in Nat, z \in Nat :
          u = o[k] /\ v = Len(F[k]) /\ z = Len(all) /\ u + v <= z
    BY <1>1, <1>2
  <2>2. j \in Nat /\ 1 <= j /\ j <= v /\ u + j \in Nat
    BY <2>1
  <2>3. /\ u + j < z /\ all[u + j].name = "." /\ all[(u + j) + 1].name = ".."
        /\ all[(u + j) + 1].ino <= all[u + j].ino
    BY <1>3, <2>1 DEF BeginsAt
  <2>4. all[u + j] = F[k][j] /\ v >= 1 /\ Len(F[k]) >= 1
    BY <1>1, <2>1, <2>2
  <2>5. CASE j = 2
    <3>1. F[k][2].name = ".."
      BY <1>0, <2>4
    <3> QED BY <2>3, <2>4, <2>5, <3>1
  <2>6. CASE j < v /\ j >= 2
    <3>1. j + 1 \in 3 .. v /\ j + 1 \in 1 .. v /\ (j + 1) - 1 = j /\ u + (j + 1) = (u + j) + 1
      BY <2>2, <2>6
    <3>2. F[k][j].ino < F[k][j + 1].ino
      <4>1. F[k][(j + 1) - 1].ino < F[k][j + 1].ino
        BY <1>0, <2>1, <3>1
      <4> QED BY <3>1, <4>1
    <3>3. all[(u + j) + 1] = F[k][j + 1]
      BY <1>1, <2>1, <3>1
    <3>4. F[k][j].ino \in Nat /\ F[k][j + 1].ino \in Nat
      <4>1. F[k][j] \in CutEntries /\ F[k][j + 1] \in CutEntries
        BY <1>1, <2>1, <3>1
      <4> QED BY <4>1 DEF CutEntries
    <3> QED BY <2>3, <2>4, <3>2, <3>3, <3>4
  <2>7. CASE j = v
    <3>1. o[k] + Len(F[k]) < Len(all)
      BY <2>1, <2>3, <2>7
    <3>2. PICK l \in 1 .. m : Len(F[l]) >= 1 /\ o[l] = u + v
      BY <1>21, <2>1, <2>4, <3>1
    <3>3. all[(u + v) + 1].name = "."
      BY <1>20, <3>2
    <3> QED BY <2>3, <2>7, <3>3
  <2>8. j = 1 \/ (j < v /\ j >= 2) \/ j = v
    BY <2>1, <2>2
  <2> QED BY <2>6, <2>7, <2>8
<1>4. PICK x \in Nat, y \in Nat, z \in Nat :
        x = o[d] /\ y = Len(F[d]) /\ y >= 1 /\ z = Len(all) /\ x + y <= z
  <2>1. F[d] \in Seq(CutEntries) /\ F[d] # <<>>
    BY <1>1
  <2>2. Len(F[d]) \in Nat /\ Len(F[d]) >= 1
    BY <2>1
  <2> QED BY <1>1, <1>2, <2>2
<1>5. PICK s \in Nat, q \in Nat :
        s = x + 1 /\ q = x + y /\ 1 <= s /\ s <= q /\ q <= z /\ q - s + 1 = y
  <2>1. y >= 1 /\ x + y <= z
    BY <1>4
  <2>2. /\ x + 1 \in Nat /\ x + y \in Nat /\ 1 <= x + 1 /\ x + 1 <= x + y /\ x + y <= z
        /\ (x + y) - (x + 1) + 1 = y
    BY <2>1
  <2> QED BY <2>2
<1>6. s \in DOMAIN all /\ BeginsAt(all, s) /\ all[s].ino = ids[d] /\ s <= q /\ q <= Len(all)
  <2>1. BeginsAt(all, o[d] + 1) /\ all[o[d] + 1].ino = ids[d] /\ o[d] + 1 \in DOMAIN all
    BY <1>4, <1>20
  <2> QED BY <1>4, <1>5, <2>1
<1>7. ASSUME NEW p \in DOMAIN all, BeginsAt(all, p), all[p].ino = ids[d] PROVE p = s
  <2>1. PICK k \in 1 .. m, j \in Nat : j \in 1 .. Len(F[k]) /\ p = o[k] + j
    BY <1>2
  <2>2. j = 1
    BY <1>3, <1>7, <2>1
  <2>3. Len(F[k]) >= 1
    BY <1>1, <2>1, <2>2
  <2>4. ids[k] = ids[d]
    BY <1>7, <1>20, <2>1, <2>2, <2>3
  <2> QED BY <1>0, <1>4, <1>5, <2>1, <2>2, <2>4
<1>8. (CHOOSE k \in DOMAIN all : BeginsAt(all, k) /\ all[k].ino = ids[d]) = s
  BY <1>6, <1>7
<1>9. PICK ends : ends = {k \in s + 1 .. Len(all) : BeginsAt(all, k)}
  OBVIOUS
<1>10. ASSUME NEW p \in 1 .. Len(all), p > s, NEW k \in 1 .. m, NEW j \in 1 .. Len(F[k]), p = o[k] + j
       PROVE  (k = d /\ p <= q) \/ o[k] >= q
  <2>1. k \in Nat /\ d \in Nat
    BY DEF Numbered
  <2>2. PICK u \in Nat, v \in Nat : u = o[k] /\ v = Len(F[k])
    BY <1>1
  <2>3. j \in 1 .. v /\ p = u + j
    BY <1>10, <2>2
  <2>4. j \in Nat /\ 1 <= j /\ j <= v
    BY <2>3
  <2>5. CASE k = d
    <3>1. u = x /\ v = y
      BY <1>4, <2>2, <2>5
    <3>2. p <= q
      BY <1>5, <2>3, <2>4, <3>1
    <3> QED BY <2>5, <3>2
  <2>6. CASE k < d
    <3>1. k \in 1 .. d - 1
      BY <2>1, <2>6
    <3>2. o[k] + Len(F[k]) <= o[d]
      BY <1>1, <3>1
    <3>3. u + v <= x
      BY <1>4, <2>2, <3>2
    <3>4. p <= x
      BY <2>3, <2>4, <3>3
    <3>5. p > x + 1
      BY <1>5, <1>10
    <3> QED BY <2>3, <2>4, <3>4, <3>5
  <2>7. CASE k > d
    <3>1. d \in 1 .. k - 1
      BY <2>1, <2>7
    <3>2. o[d] + Len(F[d]) <= o[k]
      BY <1>1, <3>1
    <3> QED BY <1>4, <1>5, <3>2
  <2> QED BY <2>1, <2>5, <2>6, <2>7
<1>11. ASSUME NEW p \in ends PROVE p > q
  <2>1. p \in 1 .. Len(all) /\ p > s /\ BeginsAt(all, p) /\ p \in Nat
    BY <1>5, <1>2, <1>9
  <2>2. PICK k \in 1 .. m, j \in Nat : j \in 1 .. Len(F[k]) /\ p = o[k] + j
    BY <1>2, <2>1
  <2>3. j = 1
    BY <1>3, <2>1, <2>2
  <2>4. k # d
    BY <1>4, <1>5, <2>1, <2>2, <2>3
  <2> QED BY <1>1, <1>10, <2>1, <2>2, <2>3, <2>4
<1>12. ASSUME q < Len(all) PROVE q + 1 \in ends
  <2>1. q + 1 \in 1 .. Len(all) /\ q + 1 > s /\ q + 1 \in s + 1 .. Len(all)
    BY <1>2, <1>6, <1>12
  <2>2. o[d] + Len(F[d]) < Len(all) /\ o[d] + Len(F[d]) = q
    BY <1>4, <1>5, <1>12
  <2>3. PICK l \in 1 .. m : Len(F[l]) >= 1 /\ o[l] = q
    BY <1>4, <1>21, <2>2
  <2>4. BeginsAt(all, q + 1)
    BY <1>20, <2>3
  <2> QED BY <1>9, <2>1, <2>4
<1>13. (IF ends = {} THEN Len(all) ELSE Min(ends) - 1) = q
  <2>1. CASE ends = {}
    <3>1. ~(q < Len(all))
      BY <1>12, <2>1
    <3>2. \A n \in Nat : q <= n /\ ~(q < n) => q = n
      OBVIOUS
    <3>3. q = Len(all)
      BY <1>2, <1>6, <3>1, <3>2
    <3> QED BY <2>1, <3>3
  <2>2. CASE ends # {}
    <3>1. ends \subseteq Nat /\ ends \subseteq 1 .. Len(all)
      BY <1>2, <1>9
    <3>2. PICK p \in ends : p = Min(ends) /\ \A k \in ends : p <= k
      BY <2>2, <3>1, MinIs
    <3>3. p > q /\ p <= Len(all) /\ p \in Nat
      BY <1>2, <1>11, <3>1
    <3>4. p <= q + 1
      BY <1>2, <1>12, <3>2, <3>3
    <3>5. p - 1 = q
      BY <3>3, <3>4
    <3> QED BY <2>2, <3>2, <3>5
  <2> QED BY <2>1, <2>2
<1>14. SubSeq(all, s, q) = F[d]
  <2>0. s \in Int /\ q \in Int /\ \A i \in s .. q : all[i] \in CutEntries
    <3>1. \A i \in s .. q : i \in 1 .. z
      BY <1>5
    <3>2. 1 .. z = DOMAIN all
      BY <1>2, <1>4
    <3> QED BY <3>1, <3>2
  <2>1. /\ SubSeq(all, s, q) \in Seq(CutEntries) /\ Len(SubSeq(all, s, q)) = q - s + 1
        /\ \A i \in 1 .. q - s + 1 : SubSeq(all, s, q)[i] = all[s + i - 1]
    <3>1. /\ SubSeq(all, s, q) \in Seq(CutEntries)
          /\ Len(SubSeq(all, s, q)) = IF s <= q THEN q - s + 1 ELSE 0
          /\ \A i \in 1 .. q - s + 1 : SubSeq(all, s, q)[i] = all[s + i - 1]
      BY <2>0, SubSeqProperties
    <3> QED BY <1>5, <3>1
  <2>2. q - s + 1 = Len(F[d])
    BY <1>4, <1>5
  <2>3. ASSUME NEW i \in 1 .. Len(F[d]) PROVE SubSeq(all, s, q)[i] = F[d][i]
    <3>1. s + i - 1 = o[d] + i
      BY <1>4, <1>5
    <3> QED BY <1>1, <2>1, <2>2, <3>1
  <2>4. F[d] \in Seq(CutEntries)
    BY <1>1
  <2>5. PICK part \in Seq(CutEntries) : part = SubSeq(all, s, q)
    BY <2>1
  <2>6. Len(part) = Len(F[d]) /\ \A i \in 1 .. Len(part) : part[i] = F[d][i]
    BY <2>1, <2>2, <2>3, <2>5
  <2>7. part = F[d]
    BY <2>4, <2>6, SeqEqual
  <2> QED BY <2>5, <2>7
<1> DEFINE Start == CHOOSE k \in DOMAIN all : BeginsAt(all, k) /\ all[k].ino = ids[d]
           Ends  == {k \in Start + 1 .. Len(all) : BeginsAt(all, k)}
<1>15. Start = s
  BY <1>8
<1> HIDE DEF Start
<1>16. Ends = ends
  BY <1>9, <1>15
<1> HIDE DEF Ends
<1>17. SubSeq(all, Start, IF Ends = {} THEN Len(all) ELSE Min(Ends) - 1) = F[d]
  BY <1>13, <1>14, <1>15, <1>16
<1> QED BY <1>17 DEF Start, Ends, CutFrom


\* Where the entries of a name are in s, and what the first of them names.
At(s, name) == {k \in DOMAIN s : s[k].name = name}
FirstOf(s, name) == IF At(s, name) = {} THEN None ELSE s[Min(At(s, name))].ino

AllNames == Names \union Dots

\* The inodes lookup finds in s by the names that are cut like this one.
FoundAlike(s, name) == {FirstOf(s, m) : m \in {x \in AllNames : Cut(x) = Cut(name)}} \ {None}

\* Looking for a cut name among the cut entries finds the oldest of those.
LEMMA NamesRead ==
  ASSUME NEW s \in Seq(DirEntries), Len(s) >= 2, s[1].name = ".", s[2].name = "..",
         \A k \in 3 .. Len(s) : s[k].name \in Names,
         \A j \in DOMAIN s, k \in 3 .. Len(s) : j < k => s[j].ino < s[k].ino,
         NEW es, DOMAIN es = DOMAIN s, \A j \in DOMAIN s : es[j] = DirBytes(s[j]),
         NEW name \in AllNames
  PROVE  FirstOf(es, Cut(name)) =
           IF FoundAlike(s, name) = {} THEN None ELSE Min(FoundAlike(s, name))
<1>1. DOMAIN s = 1 .. Len(s) /\ Len(s) \in Nat
  OBVIOUS
<1>2. ASSUME NEW k \in DOMAIN s
      PROVE  s[k].ino \in Nat /\ s[k].ino # None
  <2>1. s[k] \in DirEntries
    OBVIOUS
  <2> QED BY <2>1, PltzFsAssumption DEF DirEntries
<1>3. Cut(".") = "." /\ Cut("..") = ".."
  BY PltzFsAssumption DEF Cut, Dots
<1>4. ASSUME NEW k \in DOMAIN s
      PROVE  /\ es[k].ino = s[k].ino /\ s[k].name \in AllNames
             /\ k \in At(es, Cut(name)) <=> Cut(s[k].name) = Cut(name)
  <2>1. es[k].ino = s[k].ino /\ es[k].name = Cut(s[k].name)
    BY DEF DirBytes, Entry
  <2>2. k = 1 \/ k = 2 \/ k \in 3 .. Len(s)
    BY <1>1
  <2>3. s[k].name \in AllNames
    BY <2>2 DEF AllNames, Dots
  <2> QED BY <2>1, <2>3 DEF At
<1>5. PICK seen : seen = At(es, Cut(name))
  OBVIOUS
<1>6. seen \subseteq DOMAIN s /\ seen \subseteq Nat
  BY <1>1, <1>5 DEF At
<1>7. ASSUME NEW m \in AllNames
      PROVE  /\ At(s, m) \subseteq DOMAIN s /\ At(s, m) \subseteq Nat
             /\ FirstOf(s, m) # None => \E k \in At(s, m) : /\ FirstOf(s, m) = s[k].ino
                                                            /\ \A j \in At(s, m) : k <= j
  <2>1. At(s, m) \subseteq DOMAIN s
    BY DEF At
  <2>2. At(s, m) \subseteq Nat
    BY <1>1, <2>1
  <2>3. ASSUME At(s, m) # {}
        PROVE  Min(At(s, m)) \in At(s, m) /\ \A j \in At(s, m) : Min(At(s, m)) <= j
    BY <2>2, <2>3, MinIs
  <2> QED BY <2>1, <2>2, <2>3 DEF FirstOf
\* "." and ".." are not cut alike, so the one found first is the oldest.
<1>20. ASSUME NEW j \in seen, NEW k \in seen, j < k PROVE s[j].ino < s[k].ino
  <2>1. j \in 1 .. Len(s) /\ k \in 1 .. Len(s)
    BY <1>1, <1>6
  <2>2. CASE k \in 3 .. Len(s)
    BY <1>1, <1>20, <2>1, <2>2
  <2>3. CASE k \notin 3 .. Len(s)
    <3>1. j = 1 /\ k = 2
      BY <1>1, <1>20, <2>1, <2>3
    <3>2. Cut(s[1].name) = Cut(s[2].name)
      BY <1>1, <1>4, <1>5, <2>1, <3>1
    <3> QED BY <1>3, <3>2
  <2> QED BY <2>2, <2>3
<1>8. PICK alike : alike = FoundAlike(s, name)
  OBVIOUS
<1>9. ASSUME NEW i \in alike
      PROVE  i \in Nat /\ \E k \in seen : i = s[k].ino
  <2>1. PICK m \in AllNames : Cut(m) = Cut(name) /\ i = FirstOf(s, m) /\ i # None
    BY <1>8 DEF FoundAlike
  <2>2. PICK k \in At(s, m) : i = s[k].ino
    BY <1>7, <2>1
  <2>3. k \in DOMAIN s /\ s[k].name = m
    BY <1>7, <2>2 DEF At
  <2>4. k \in seen
    BY <1>4, <1>5, <2>1, <2>3
  <2> QED BY <1>2, <2>2, <2>3, <2>4
<1>10. CASE seen = {}
  <2>1. alike = {}
    BY <1>9, <1>10
  <2> QED BY <1>5, <1>8, <1>10, <2>1 DEF FirstOf
<1>11. CASE seen # {}
  <2>1. PICK p \in seen : p = Min(seen) /\ \A k \in seen : p <= k
    BY <1>6, <1>11, MinIs
  <2>2. p \in DOMAIN s /\ Cut(s[p].name) = Cut(name) /\ p \in Nat /\ s[p].name \in AllNames
    BY <1>4, <1>5, <1>6
  <2>3. PICK m \in AllNames : m = s[p].name
    BY <2>2
  <2>4. p \in At(s, m)
    BY <2>2, <2>3 DEF At
  <2>5. At(s, m) \subseteq seen
    <3>1. ASSUME NEW k \in At(s, m) PROVE k \in seen
      <4>1. k \in DOMAIN s /\ s[k].name = m
        BY <1>7 DEF At
      <4> QED BY <1>4, <1>5, <2>2, <2>3, <4>1
    <3> QED BY <3>1
  <2>6. FirstOf(s, m) = s[p].ino
    <3>1. Min(At(s, m)) \in At(s, m) /\ \A j \in At(s, m) : Min(At(s, m)) <= j
      BY <1>7, <2>4, MinIs
    <3>2. PICK q \in Nat : q = Min(At(s, m)) /\ q \in seen /\ q <= p
      BY <1>6, <2>4, <2>5, <3>1
    <3>3. q = p
      BY <2>1, <2>2, <3>2
    <3> QED BY <2>4, <3>2, <3>3 DEF FirstOf
  <2>7. s[p].ino \in alike
    BY <1>2, <1>8, <2>2, <2>3, <2>6 DEF FoundAlike
  <2>8. ASSUME NEW i \in alike PROVE s[p].ino <= i
    <3>1. PICK k \in seen : i = s[k].ino
      BY <1>9
    <3>2. k \in DOMAIN s /\ p <= k
      BY <1>6, <2>1
    <3>3. s[p].ino \in Nat /\ s[k].ino \in Nat /\ k \in Nat
      BY <1>2, <1>6, <2>2, <3>2
    <3>4. CASE p = k
      BY <3>1, <3>3, <3>4
    <3>5. CASE p < k
      <4>1. s[p].ino < s[k].ino
        BY <1>20, <3>5
      <4> QED BY <3>1, <3>3, <4>1
    <3> QED BY <2>2, <3>2, <3>3, <3>4, <3>5
  <2>9. Min(alike) = s[p].ino
    <3>1. alike \subseteq Nat
      BY <1>9
    <3>2. Min(alike) \in alike /\ \A i \in alike : Min(alike) <= i
      BY <2>7, <3>1, MinIs
    <3>3. PICK a \in Nat, b \in Nat : a = Min(alike) /\ b = s[p].ino
      BY <2>7, <3>1, <3>2
    <3> QED BY <2>7, <2>8, <3>2, <3>3
  <2>10. es[p].ino = s[p].ino
    BY <1>4, <2>2
  <2> QED BY <1>5, <1>8, <1>11, <2>1, <2>7, <2>9, <2>10 DEF FirstOf
<1> QED BY <1>10, <1>11


\* An inode read back has its kind, its size, its number of blocks and the blocks there was room for.
LEMMA InodeRead ==
  ASSUME IInv, EntriesOK, NEW i \in DOMAIN inodes, NEW r, r = InodeFromBytes(InodeBytes(i))
  PROVE  /\ r.dir = inodes[i].dir /\ r.blocks = inodes[i].blocks /\ r.size = inodes[i].size
         /\ r.addrs = SubSeq(inodes[i].addrs, 1, Min({r.blocks, DirectBlocks}))
         /\ ToSet(r.addrs) \subseteq BlocksOfInode(i)
<1>1. PICK a \in Seq(Bits) : a = inodes[i].addrs /\ Len(a) = inodes[i].blocks
  BY DEF IInv, TypeOK, EntriesOK
<1>2. PICK c \in Nat : c = Min({Len(a), DirectBlocks}) /\ c <= Len(a) /\ c <= DirectBlocks
  <2>1. Len(a) \in Nat /\ DirectBlocks \in Nat
    BY PltzFsAssumption
  <2> QED BY <2>1, MinOfTwo
<1>3. PICK slots : slots = [k \in 1 .. DirectBlocks |-> IF k \in DOMAIN a THEN a[k] ELSE 0]
  OBVIOUS
<1>4. PICK b : b = InodeBytes(i)
  OBVIOUS
<1>5. /\ b.dir = inodes[i].dir /\ b.blocks = inodes[i].blocks /\ b.size = inodes[i].size
      /\ b.addrCount = c /\ b.slots = slots
  BY <1>1, <1>2, <1>3, <1>4 DEF InodeBytes
<1>6. /\ r.dir = inodes[i].dir /\ r.blocks = inodes[i].blocks /\ r.size = inodes[i].size
      /\ r.addrs = [k \in 1 .. c |-> IF k <= DirectBlocks THEN slots[k] ELSE 0]
  BY <1>4, <1>5 DEF InodeFromBytes
<1>7. ASSUME NEW k \in 1 .. c
      PROVE  (IF k <= DirectBlocks THEN slots[k] ELSE 0) = a[k] /\ a[k] \in Bits /\ k \in DOMAIN a
  <2>1. k <= DirectBlocks /\ k \in 1 .. DirectBlocks /\ k \in DOMAIN a
    BY <1>2, PltzFsAssumption
  <2> QED BY <1>3, <2>1
<1>8. PICK g : g = [k \in 1 .. c |-> a[k]]
  OBVIOUS
<1>9. r.addrs = g
  BY <1>6, <1>7, <1>8
<1>10. g \in [1 .. c -> Bits]
  BY <1>7, <1>8
<1>11. g \in Seq(Bits) /\ Len(g) = c
  BY <1>10
<1>12. g = SubSeq(a, 1, c)
  <2>1. \A k \in 1 .. c : a[k] \in Bits
    BY <1>7
  <2>2. /\ SubSeq(a, 1, c) \in Seq(Bits) /\ Len(SubSeq(a, 1, c)) = (IF 1 <= c THEN c - 1 + 1 ELSE 0)
        /\ \A k \in 1 .. c - 1 + 1 : SubSeq(a, 1, c)[k] = a[1 + k - 1]
    BY <2>1, SubSeqProperties
  <2>3. PICK h \in Seq(Bits) : h = SubSeq(a, 1, c)
    BY <2>2
  <2>4. Len(h) = c /\ \A k \in 1 .. c : h[k] = a[k]
    BY <2>2, <2>3
  <2>5. \A k \in 1 .. Len(g) : g[k] = h[k]
    BY <1>8, <1>11, <2>4
  <2>6. g = h
    BY <1>11, <2>3, <2>4, <2>5, SeqEqual
  <2> QED BY <2>3, <2>6
<1>13. Min({r.blocks, DirectBlocks}) = c
  BY <1>1, <1>2, <1>6
<1>14. ToSet(g) \subseteq BlocksOfInode(i)
  <2>1. \A k \in DOMAIN g : g[k] = a[k] /\ k \in DOMAIN a
    BY <1>7, <1>8, <1>10
  <2> QED BY <1>1, <2>1 DEF BlocksOfInode, ToSet
<1> QED BY <1>1, <1>6, <1>9, <1>12, <1>13, <1>14

\* What sync writes of a directory, after an inode that may be none.
Written(i) ==
  IF i \in DOMAIN dirs THEN [j \in DOMAIN dirs[i] |-> DirBytes(dirs[i][j])] ELSE <<>>

(* F is that, for the inodes in their order. *)
IsWritten(F, order, n) == F = [k \in 1 .. n |-> Written(order[k])]

\* Every directory can be cut out of what sync writes, and nothing but inodes is named there.
LEMMA DirsRead ==
  ASSUME IInv, EntriesOK, NEW n \in Nat, NEW order \in [1 .. n -> DOMAIN inodes],
         \A i \in DOMAIN inodes : \E k \in 1 .. n : order[k] = i,
         \A j, k \in 1 .. n : j # k => order[j] # order[k],
         NEW F, IsWritten(F, order, n)
  PROVE  /\ \A p \in DOMAIN FlattenSeq(F) : FlattenSeq(F)[p].ino \in DOMAIN inodes
         /\ \A d \in DOMAIN dirs : CutFrom(FlattenSeq(F), d) = Written(d)
<1>1. ASSUME NEW d \in DOMAIN dirs
      PROVE  /\ dirs[d] \in Seq(DirEntries) /\ Len(dirs[d]) >= 2 /\ Len(dirs[d]) \in Nat
             /\ DOMAIN dirs[d] = 1 .. Len(dirs[d])
             /\ dirs[d][1] = Entry(d, ".") /\ dirs[d][2].name = ".." /\ dirs[d][2].ino <= d
             /\ \A k \in DOMAIN dirs[d] : dirs[d][k].ino \in DOMAIN inodes
             /\ \A j \in DOMAIN dirs[d], k \in 3 .. Len(dirs[d]) :
                  j < k => dirs[d][j].ino < dirs[d][k].ino
  <2>1. dirs[d] \in Seq(DirEntries)
    BY DEF IInv, TablesOK
  <2> QED BY <2>1 DEF IInv, TablesOK, EntriesOK
<1>2. ASSUME NEW e \in DirEntries
      PROVE  /\ DirBytes(e) \in CutEntries /\ DirBytes(e).ino = e.ino
             /\ DirBytes(e).name = Cut(e.name)
  BY DEF DirBytes, Entry, DirEntries, CutEntries, Cut, Dots
<1>3. ASSUME NEW d \in DOMAIN dirs
      PROVE  /\ Written(d) \in Seq(CutEntries) /\ Len(Written(d)) = Len(dirs[d])
             /\ \A j \in 1 .. Len(dirs[d]) : /\ Written(d)[j] = DirBytes(dirs[d][j])
                                             /\ Written(d)[j].ino \in DOMAIN inodes
  <2>1. PICK s \in Seq(DirEntries) : s = dirs[d] /\ DOMAIN s = 1 .. Len(s) /\ Len(s) \in Nat
    BY <1>1
  <2>2. PICK g : g = [j \in 1 .. Len(s) |-> DirBytes(s[j])]
    OBVIOUS
  <2>3. Written(d) = g
    BY <2>1, <2>2 DEF Written
  <2>4. \A j \in 1 .. Len(s) : s[j] \in DirEntries
    BY <2>1
  <2>5. g \in [1 .. Len(s) -> CutEntries]
    BY <1>2, <2>2, <2>4
  <2>6. g \in Seq(CutEntries) /\ Len(g) = Len(s)
    BY <2>1, <2>5
  <2>7. \A j \in 1 .. Len(s) : g[j] = DirBytes(s[j]) /\ g[j].ino \in DOMAIN inodes
    BY <1>1, <1>2, <2>1, <2>2, <2>4
  <2> QED BY <2>1, <2>3, <2>6, <2>7
<1>4. ASSUME NEW k \in 1 .. n
      PROVE  /\ F[k] \in Seq(CutEntries)
             /\ Len(F[k]) >= 1 => order[k] \in DOMAIN dirs /\ F[k] = Written(order[k])
  <2>1. F[k] = Written(order[k])
    BY DEF IsWritten
  <2>2. CASE order[k] \in DOMAIN dirs
    BY <1>3, <2>1, <2>2
  <2>3. CASE order[k] \notin DOMAIN dirs
    BY <2>1, <2>3 DEF Written
  <2> QED BY <2>2, <2>3
<1>5. n \in Nat \ {0}
  BY InodesFinite
<1>6. F \in [1 .. n -> Seq(CutEntries)]
  BY <1>4 DEF IsWritten
<1>7. PICK o : FlattenSeq(F) \in Seq(CutEntries) /\ LaidOut(FlattenSeq(F), o, F, n)
  BY <1>5, <1>6, FlattenIs
<1>8. PICK all \in Seq(CutEntries) : all = FlattenSeq(F) /\ LaidOut(all, o, F, n)
  BY <1>7
<1>9. \A p \in DOMAIN all : all[p].ino \in DOMAIN inodes
  <2> TAKE p \in DOMAIN all
  <2>1. p \in 1 .. Len(all)
    OBVIOUS
  <2>2. PICK k \in 1 .. n : \E j \in 1 .. Len(F[k]) : p = o[k] + j
    BY <1>8, <2>1 DEF LaidOut
  <2>3. PICK j \in 1 .. Len(F[k]) : p = o[k] + j
    BY <2>2
  <2>4. Len(F[k]) \in Nat /\ Len(F[k]) >= 1
    BY <1>4
  <2>5. all[p] = Written(order[k])[j] /\ order[k] \in DOMAIN dirs
    BY <1>4, <1>8, <2>3, <2>4 DEF LaidOut
  <2>6. j \in 1 .. Len(dirs[order[k]])
    BY <1>3, <1>4, <2>4, <2>5
  <2> QED BY <1>3, <2>5, <2>6
<1>10. ASSUME NEW d \in DOMAIN dirs PROVE CutFrom(all, d) = Written(d)
  <2>1. d \in DOMAIN inodes
    BY NewInode
  <2>2. PICK c \in 1 .. n : order[c] = d
    BY <2>1
  <2>3. F[c] = Written(d) /\ Len(F[c]) >= 1
    <3>1. F[c] = Written(order[c])
      BY DEF IsWritten
    <3> QED BY <1>1, <1>3, <2>2, <3>1
  <2>4. \A j, k \in 1 .. n : order[j] = order[k] => j = k
    OBVIOUS
  <2>5. ASSUME NEW k \in 1 .. n, Len(F[k]) >= 1
        PROVE  /\ Len(F[k]) >= 2 /\ F[k][1] = Entry(order[k], ".")
               /\ F[k][2].name = ".." /\ F[k][2].ino <= order[k]
    <3>1. PICK i \in DOMAIN dirs : i = order[k] /\ F[k] = Written(i)
      BY <1>4, <2>5
    <3>2. /\ F[k][1] = DirBytes(dirs[i][1]) /\ F[k][2] = DirBytes(dirs[i][2])
          /\ Len(F[k]) >= 2 /\ dirs[i][2] \in DirEntries
      <4>1. 1 \in 1 .. Len(dirs[i]) /\ 2 \in 1 .. Len(dirs[i])
        BY <1>1
      <4> QED BY <1>1, <1>3, <3>1, <4>1
    <3>3. DirBytes(Entry(i, ".")) = Entry(i, ".") /\ Cut("..") = ".."
      BY PltzFsAssumption DEF DirBytes, Entry, Cut, Dots
    <3>4. F[k][1] = Entry(i, ".")
      BY <1>1, <3>2, <3>3
    <3>5. F[k][2].name = ".." /\ F[k][2].ino <= i
      BY <1>1, <1>2, <3>2, <3>3
    <3> QED BY <3>1, <3>2, <3>4, <3>5
  <2>6. ASSUME NEW k \in 1 .. n, NEW j \in 3 .. Len(F[k]) PROVE F[k][j - 1].ino < F[k][j].ino
    <3>1. Len(F[k]) \in Nat /\ Len(F[k]) >= 1
      BY <1>4
    <3>2. PICK i \in DOMAIN dirs : i = order[k] /\ F[k] = Written(i)
      BY <1>4, <3>1
    <3>3. /\ Len(F[k]) = Len(dirs[i]) /\ j \in 1 .. Len(dirs[i]) /\ j - 1 \in 1 .. Len(dirs[i])
          /\ j - 1 < j
      BY <1>1, <1>3, <3>2
    <3>4. F[k][j] = DirBytes(dirs[i][j]) /\ F[k][j - 1] = DirBytes(dirs[i][j - 1])
      BY <1>3, <3>2, <3>3
    <3>5. dirs[i][j] \in DirEntries /\ dirs[i][j - 1] \in DirEntries
      BY <1>1, <3>3
    <3>6. dirs[i][j - 1].ino < dirs[i][j].ino
      BY <1>1, <3>3
    <3> QED BY <1>2, <3>4, <3>5, <3>6
  <2>7. n \in Nat \ {0} /\ F \in [1 .. n -> Seq(CutEntries)] /\ LaidOut(all, o, F, n)
    BY <1>5, <1>6, <1>8
  <2>8. Numbered(F, order, n)
    BY <2>4, <2>5, <2>6, <2>7 DEF Numbered
  <2>9. F[c] # <<>> /\ LaidOut(all, o, F, n)
    BY <2>3, <2>7
  <2>10. CutFrom(all, order[c]) = F[c]
    BY <2>8, <2>9, CutOut
  <2> QED BY <2>2, <2>3, <2>10
<1> QED BY <1>8, <1>9, <1>10


\* Whatever a sync writes, looking for a name in it finds what lookup finds.
LEMMA NamesWritten ==
  ASSUME IInv, EntriesOK, NEW d \in DOMAIN dirs, UNCHANGED <<inodes, dirs>>,
         EntriesOf(d)' = Written(d),
         \A i \in DOMAIN inodes : \E k \in DOMAIN image'.inodes : image'.inodes[k].ino = i
  PROVE  SameNames(d)'
<1> DEFINE Seen(name) ==
             {i \in {Lookup(d, m)' : m \in {x \in AllNames : Cut(x) = Cut(name)}} \ {None} :
                \E k \in DOMAIN image'.inodes : image'.inodes[k].ino = i}
<1>1. PICK s \in Seq(DirEntries) : s = dirs[d]
  BY DEF IInv, TablesOK
<1>2. /\ Len(s) >= 2 /\ s[1] = Entry(d, ".") /\ s[2].name = ".."
      /\ \A k \in 3 .. Len(s) : s[k].name \in Names
      /\ \A k \in DOMAIN s : s[k].ino \in DOMAIN inodes
      /\ \A j \in DOMAIN s, k \in 3 .. Len(s) : j < k => s[j].ino < s[k].ino
  BY <1>1 DEF IInv, TablesOK, EntriesOK
<1>3. s[1].name = "."
  BY <1>2 DEF Entry
<1>4. PICK es : es = Written(d)
  OBVIOUS
<1>5. DOMAIN es = DOMAIN s /\ \A j \in DOMAIN s : es[j] = DirBytes(s[j])
  BY <1>1, <1>4 DEF Written
<1>6. \A name : LookupOnPlatter(d, name)' = FirstOf(es, Cut(name))
  BY <1>4 DEF LookupOnPlatter, FirstOf, At
<1>7. \A m : Lookup(d, m)' = FirstOf(s, m)
  BY <1>1 DEF Lookup, EntriesNamed, FirstOf, At
<1>8. ASSUME NEW name \in AllNames
      PROVE  Seen(name) = FoundAlike(s, name)
  <2>1. ASSUME NEW m, FirstOf(s, m) # None PROVE FirstOf(s, m) \in DOMAIN inodes
    <3>1. At(s, m) # {} /\ FirstOf(s, m) = s[Min(At(s, m))].ino
      BY <2>1 DEF FirstOf
    <3>2. At(s, m) \subseteq Nat /\ At(s, m) \subseteq DOMAIN s
      BY DEF At
    <3>3. Min(At(s, m)) \in DOMAIN s
      BY <3>1, <3>2, MinIs
    <3> QED BY <1>2, <3>1, <3>3
  <2>2. {Lookup(d, m)' : m \in {x \in AllNames : Cut(x) = Cut(name)}} \ {None}
          = FoundAlike(s, name)
    BY <1>7 DEF FoundAlike
  <2>3. \A i \in FoundAlike(s, name) : i \in DOMAIN inodes
    BY <2>1 DEF FoundAlike
  <2>4. \A i \in FoundAlike(s, name) : \E k \in DOMAIN image'.inodes : image'.inodes[k].ino = i
    BY <2>3
  <2> QED BY <2>2, <2>4
<1>9. ASSUME NEW name \in AllNames
      PROVE  FirstOf(es, Cut(name)) =
               IF FoundAlike(s, name) = {} THEN None ELSE Min(FoundAlike(s, name))
  BY <1>2, <1>3, <1>5, NamesRead
<1>10. (\A name \in AllNames :
           LookupOnPlatter(d, name)' = IF Seen(name) = {} THEN None ELSE Min(Seen(name)))
         => SameNames(d)'
  BY DEF SameNames, AllNames
<1> HIDE DEF Seen
<1> QED BY <1>6, <1>8, <1>9, <1>10

\* When an inode just written is the inode there is.
LEMMA InodeKeptIf ==
  ASSUME NEW k, NEW i, image'.inodes[k].ino = i, NEW r, r = ReadBack(k)',
         UNCHANGED <<inodes, dirs, fileData>>,
         r.dir = inodes[i].dir, r.blocks = inodes[i].blocks,
         r.addrs = SubSeq(inodes[i].addrs, 1, Min({r.blocks, DirectBlocks})),
         ToSet(r.addrs) \subseteq image'.bitmap,
         r.dir => /\ \A j \in DOMAIN EntriesOf(i)' : EntriesOf(i)'[j].ino = dirs[i][j].ino
                  /\ SameNames(i)',
         ~r.dir => i \in DOMAIN fileData /\ r.size = SizeOf[fileData[i]]
  PROVE  InodeKept(k)'
<1>1. SameNames(i)' <=> SameNames(image.inodes[k].ino)'
  <2>1. \A name : Lookup(i, name)' = Lookup(image.inodes[k].ino, name)'
    BY DEF Lookup, EntriesNamed
  <2>2. EntriesOf(i)' = EntriesOf(image.inodes[k].ino)'
    BY DEF EntriesOf
  <2>3. \A name : LookupOnPlatter(i, name)' = LookupOnPlatter(image.inodes[k].ino, name)'
    BY <2>2 DEF LookupOnPlatter
  <2> QED BY <2>1, <2>3 DEF SameNames
<1>2. EntriesOf(i)' = EntriesOf(image.inodes[k].ino)'
  BY DEF EntriesOf
<1> QED BY <1>1, <1>2 DEF InodeKept

\* What sync writes, given its inodes in order and its files split in two.
IsImageOf(n, order, F, A, B) ==
  /\ n \in Nat /\ order \in [1 .. n -> DOMAIN inodes]
  /\ \A i \in DOMAIN inodes : \E k \in 1 .. n : order[k] = i
  /\ \A j, k \in 1 .. n : j < k => order[j] < order[k]
  /\ IsWritten(F, order, n)
  /\ A \union B = DOMAIN fileData /\ A \intersect B = {}
  /\ image'.inodes = [k \in 1 .. n |-> InodeBytes(order[k])]
  /\ image'.dirs = FlattenSeq(F) /\ image'.bitmap = bitmap
  /\ image'.structured = DataOf(A) /\ image'.raw = DataOf(B)
  /\ UNCHANGED <<bitmap, inodes, dirs, fileData>>

\* It is what a reader expects.
LEMMA ImageWritten ==
  ASSUME IInv, EntriesOK, NEW n, NEW order, NEW F, NEW A, NEW B, IsImageOf(n, order, F, A, B)
  PROVE  ImageFits' /\ ImageConsistent'
<1> SUFFICES ASSUME UNCHANGED <<bitmap, inodes, dirs, fileData>>,
                    n \in Nat, order \in [1 .. n -> DOMAIN inodes],
                    \A i \in DOMAIN inodes : \E k \in 1 .. n : order[k] = i,
                    \A j, k \in 1 .. n : j < k => order[j] < order[k],
                    IsWritten(F, order, n),
                    A \union B = DOMAIN fileData, A \intersect B = {},
                    image'.inodes = [k \in 1 .. n |-> InodeBytes(order[k])],
                    image'.dirs = FlattenSeq(F), image'.bitmap = bitmap,
                    image'.structured = DataOf(A), image'.raw = DataOf(B)
             PROVE  ImageFits' /\ ImageConsistent'
  BY DEF IsImageOf
<1>1. DOMAIN image'.inodes = 1 .. n
  OBVIOUS
<1>2. \A i \in DOMAIN inodes : i \in Nat
  BY InodesFinite
<1>3. \A j, k \in 1 .. n : j # k => order[j] # order[k]
  <2> SUFFICES ASSUME NEW j \in 1 .. n, NEW k \in 1 .. n, j # k PROVE order[j] # order[k]
    OBVIOUS
  <2>1. j < k \/ k < j
    OBVIOUS
  <2>2. order[j] \in Nat /\ order[k] \in Nat
    BY <1>2
  <2> QED BY <2>1, <2>2
<1>4. ASSUME NEW k \in 1 .. n
      PROVE  /\ ReadBack(k)' = InodeFromBytes(InodeBytes(order[k])) /\ order[k] \in DOMAIN inodes
             /\ image'.inodes[k].ino = order[k] /\ image'.inodes[k].dir = inodes[order[k]].dir
  <2>1. image'.inodes[k] = InodeBytes(order[k])
    OBVIOUS
  <2>2. ReadBack(k)' = InodeFromBytes(image'.inodes[k])
    BY DEF ReadBack
  <2>3. order[k] \in DOMAIN inodes
    OBVIOUS
  <2> QED BY <2>1, <2>2, <2>3 DEF InodeBytes
<1>5. \A i \in DOMAIN inodes : \E k \in DOMAIN image'.inodes : image'.inodes[k].ino = i
  <2> TAKE i \in DOMAIN inodes
  <2>1. PICK k \in 1 .. n : order[k] = i
    OBVIOUS
  <2>2. image'.inodes[k].ino = i
    BY <1>4, <2>1
  <2> QED BY <1>1, <2>2
<1>6. /\ \A p \in DOMAIN image'.dirs : image'.dirs[p].ino \in DOMAIN inodes
      /\ \A d \in DOMAIN dirs : CutFrom(image'.dirs, d) = Written(d)
  <2>1. /\ \A p \in DOMAIN FlattenSeq(F) : FlattenSeq(F)[p].ino \in DOMAIN inodes
        /\ \A d \in DOMAIN dirs : CutFrom(FlattenSeq(F), d) = Written(d)
    BY <1>3, DirsRead
  <2> QED BY <2>1
<1>7. ASSUME NEW d \in DOMAIN dirs PROVE EntriesOf(d)' = Written(d) /\ SameNames(d)'
  <2>1. EntriesOf(d)' = CutFrom(image'.dirs, d)
    BY DEF EntriesOf, CutFrom
  <2>2. EntriesOf(d)' = Written(d)
    BY <1>6, <2>1
  <2> QED BY <1>5, <2>2, NamesWritten
<1>8. ASSUME NEW d \in DOMAIN dirs
      PROVE  /\ DOMAIN Written(d) = DOMAIN dirs[d]
             /\ \A j \in DOMAIN dirs[d] : Written(d)[j].ino = dirs[d][j].ino
  BY DEF Written, DirBytes, Entry
<1>9. \A i \in DOMAIN inodes : inodes[i].dir => i \in DOMAIN dirs
  BY DEF IInv, TablesOK
<1>10. ImageFits'
  <2>1. ASSUME NEW k \in DOMAIN image'.inodes, NEW i, i = image'.inodes[k].ino
        PROVE  /\ i \in DOMAIN inodes
               /\ image'.inodes[k].dir => /\ i \in DOMAIN dirs
                                          /\ DOMAIN EntriesOf(i)' \subseteq DOMAIN dirs[i]
               /\ ~image'.inodes[k].dir => i \in DOMAIN fileData
    <3>1. k \in 1 .. n /\ i = order[k]
      BY <1>1, <1>4, <2>1
    <3>2. ~inodes[i].dir => i \in DOMAIN fileData
      BY <1>4, <3>1 DEF EntriesOK
    <3> QED BY <1>4, <1>7, <1>8, <1>9, <3>1, <3>2
  <2> QED BY <2>1 DEF ImageFits
<1>11. ASSUME NEW k \in DOMAIN image'.inodes PROVE InodeKept(k)'
  <2>0. k \in 1 .. n
    BY <1>1
  <2>1. PICK i \in DOMAIN inodes : i = order[k] /\ image'.inodes[k].ino = i
    BY <1>4, <2>0
  <2>2. PICK r : r = ReadBack(k)' /\ r = InodeFromBytes(InodeBytes(i))
    BY <1>4, <2>0, <2>1
  <2>3. /\ r.dir = inodes[i].dir /\ r.blocks = inodes[i].blocks /\ r.size = inodes[i].size
        /\ r.addrs = SubSeq(inodes[i].addrs, 1, Min({r.blocks, DirectBlocks}))
        /\ ToSet(r.addrs) \subseteq BlocksOfInode(i)
    BY <2>2, InodeRead
  <2>4. ToSet(r.addrs) \subseteq image'.bitmap
    <3>1. BlocksOfInode(i) \subseteq bitmap
      BY DEF IInv, BlocksOwnedOnce, InUse
    <3> QED BY <2>3, <3>1
  <2>5. ASSUME r.dir
        PROVE  /\ \A j \in DOMAIN EntriesOf(i)' : EntriesOf(i)'[j].ino = dirs[i][j].ino
               /\ SameNames(i)'
    <3>1. i \in DOMAIN dirs
      BY <1>9, <2>1, <2>3, <2>5
    <3>2. EntriesOf(i)' = Written(i) /\ SameNames(i)'
      BY <1>7, <3>1
    <3>3. /\ DOMAIN Written(i) = DOMAIN dirs[i]
          /\ \A j \in DOMAIN dirs[i] : Written(i)[j].ino = dirs[i][j].ino
      BY <1>8, <3>1
    <3> QED BY <3>2, <3>3
  <2>6. ~r.dir => i \in DOMAIN fileData /\ r.size = SizeOf[fileData[i]]
    BY <2>1, <2>3 DEF EntriesOK
  <2> QED BY <2>1, <2>2, <2>3, <2>4, <2>5, <2>6, InodeKeptIf
<1>12. ASSUME NEW k \in DOMAIN image'.inodes, k > 1
       PROVE  image'.inodes[k].ino > image'.inodes[k - 1].ino
  <2>1. k \in 1 .. n /\ k - 1 \in 1 .. n /\ k - 1 < k
    BY <1>1, <1>12
  <2>2. order[k - 1] < order[k]
    BY <2>1
  <2>3. order[k - 1] \in Nat /\ order[k] \in Nat
    BY <1>2, <2>1
  <2>4. image'.inodes[k].ino = order[k] /\ image'.inodes[k - 1].ino = order[k - 1]
    BY <1>4, <2>1
  <2> QED BY <2>2, <2>3, <2>4
<1>13. \A p \in DOMAIN image'.dirs :
         \E j \in DOMAIN image'.inodes : image'.inodes[j].ino = image'.dirs[p].ino
  BY <1>5, <1>6
<1>14. \E structured \in SUBSET FilesOnPlatter' :
         /\ image'.structured = DataOf(structured)'
         /\ image'.raw = DataOf(FilesOnPlatter \ structured)'
  <2>1. \A k \in 1 .. n : ReadBack(k)'.dir = inodes[order[k]].dir
    BY <1>4, InodeRead
  <2>2. \A i \in DOMAIN inodes : i \in DOMAIN fileData <=> ~inodes[i].dir
    BY DEF EntriesOK
  <2>3. DOMAIN fileData \subseteq DOMAIN inodes
    BY DEF IInv, TypeOK
  <2>4. FilesOnPlatter' = DOMAIN fileData
    <3>1. FilesOnPlatter' = {image'.inodes[k].ino : k \in {j \in DOMAIN image'.inodes : ~ReadBack(j)'.dir}}
      BY DEF FilesOnPlatter
    <3>2. ASSUME NEW k \in DOMAIN image'.inodes, ~ReadBack(k)'.dir
          PROVE  image'.inodes[k].ino \in DOMAIN fileData
      BY <1>1, <1>4, <2>1, <2>2, <3>2
    <3>3. ASSUME NEW i \in DOMAIN fileData
          PROVE  \E k \in DOMAIN image'.inodes : ~ReadBack(k)'.dir /\ image'.inodes[k].ino = i
      <4>1. i \in DOMAIN inodes /\ ~inodes[i].dir
        BY <2>2, <2>3
      <4>2. PICK k \in 1 .. n : order[k] = i
        BY <4>1
      <4> QED BY <1>1, <1>4, <2>1, <4>1, <4>2
    <3>4. FilesOnPlatter' \subseteq DOMAIN fileData
      BY <3>1, <3>2
    <3>5. DOMAIN fileData \subseteq FilesOnPlatter'
      BY <3>1, <3>3
    <3> QED BY <3>4, <3>5
  <2>5. B = DOMAIN fileData \ A
    OBVIOUS
  <2>6. DataOf(A)' = DataOf(A) /\ DataOf(B)' = DataOf(B)
    BY DEF DataOf
  <2>7. DataOf(FilesOnPlatter \ A)' = DataOf(B)'
    BY <2>4, <2>5 DEF DataOf
  <2> QED BY <2>4, <2>5, <2>6, <2>7
<1>15. ImageConsistent'
  BY <1>11, <1>12, <1>13, <1>14 DEF ImageConsistent
<1> QED BY <1>10, <1>15

\* So after a sync whoever reads the platters back finds the filesystem.
LEMMA SyncConsistent ==
  ASSUME IInv, EntriesOK, Sync
  PROVE  ImageFits' /\ ImageConsistent'
<1>1. PICK n \in Nat : n = Cardinality(DOMAIN inodes)
  BY InodesFinite, SortedIs
<1>2. PICK order \in [1 .. n -> DOMAIN inodes] : order = Sorted(DOMAIN inodes)
  BY <1>1, InodesFinite, SortedIs
<1>3. /\ \A i \in DOMAIN inodes : \E k \in 1 .. n : order[k] = i
      /\ \A j, k \in 1 .. n : j < k => order[j] < order[k]
  BY <1>1, <1>2, InodesFinite, SortedIs
<1>4. PICK F : IsWritten(F, order, n)
  BY DEF IsWritten
<1>5. DOMAIN order = 1 .. n
  OBVIOUS
<1>6. PICK well, im :
        /\ im = image'
        /\ im = [inodes     |-> [k \in DOMAIN order |-> InodeBytes(order[k])],
                 dirs       |-> FlattenSeq([k \in DOMAIN order |-> Written(order[k])]),
                 structured |-> DataOf({i \in DOMAIN fileData : fileData[i] \in well}),
                 raw        |-> DataOf({i \in DOMAIN fileData : fileData[i] \notin well}),
                 bitmap     |-> bitmap]
  BY <1>2 DEF Sync, Written
<1>7. PICK A, B : /\ A = {i \in DOMAIN fileData : fileData[i] \in well}
                  /\ B = {i \in DOMAIN fileData : fileData[i] \notin well}
  OBVIOUS
<1>8. A \union B = DOMAIN fileData /\ A \intersect B = {}
  BY <1>7
<1>9. F = [k \in DOMAIN order |-> Written(order[k])]
  BY <1>4, <1>5 DEF IsWritten
<1>10. /\ im.inodes = [k \in 1 .. n |-> InodeBytes(order[k])]
       /\ im.dirs = FlattenSeq(F) /\ im.bitmap = bitmap
       /\ im.structured = DataOf(A) /\ im.raw = DataOf(B)
  BY <1>5, <1>6, <1>7, <1>9
<1>11. /\ image'.inodes = [k \in 1 .. n |-> InodeBytes(order[k])]
       /\ image'.dirs = FlattenSeq(F) /\ image'.bitmap = bitmap
       /\ image'.structured = DataOf(A) /\ image'.raw = DataOf(B)
  BY <1>6, <1>10
<1>12. UNCHANGED <<bitmap, inodes, dirs, fileData>>
  BY DEF Sync
<1>13. IsImageOf(n, order, F, A, B)
  BY <1>3, <1>4, <1>8, <1>11, <1>12 DEF IsImageOf
<1> QED BY <1>13, ImageWritten

\* What is on the platters, and what of the directories and of earlier platters makes it stay
\* true: entries keep their place and are in the order of their inodes, and what a reader
\* finds is still there.
ImageInv == EntriesOK /\ ImageFits /\ ImageConsistent

\* Nothing is on the platters at first.
LEMMA InitImage == Init => ImageInv
<1>1. Init => ImageFits /\ ImageConsistent
  BY DEF Init, ImageFits, ImageConsistent
<1> QED BY <1>1, InitEntries DEF ImageInv

\* A sync writes a consistent image, and no other step makes it stale.
LEMMA NextImage == IInv /\ ImageInv /\ [Next]_vars => ImageInv'
<1> SUFFICES ASSUME IInv, ImageInv, [Next]_vars PROVE ImageInv'
  OBVIOUS
<1>1. EntriesOK'
  BY NextEntries DEF ImageInv
<1>2. CASE Sync
  BY <1>1, <1>2, SyncConsistent DEF ImageInv
<1>3. CASE ~Sync
  <2>1. image' = image
    BY <1>3 DEF Next, vars, CreateFile, Mkdir, BadParent
  <2> QED BY <1>1, <2>1, ImageKept DEF ImageInv
<1> QED BY <1>2, <1>3

-----------------------------------------------------------------------------
(* The theorems *)

\* The types, for any number of blocks and inodes.
THEOREM TypeCorrect == Spec => []TypeOK
BY Invariance, PTL DEF IInv

\* No block has two owners, and the bitmap has every block that has one.
THEOREM BlocksAlwaysOwnedOnce == Spec => []BlocksOwnedOnce
BY Invariance, PTL DEF IInv

\* The bitmap is that of the files, until a call runs out of space and fills it.
THEOREM BitmapAlwaysExact == Spec => []BitmapExact
BY Invariance, PTL DEF IInv

\* The directories always form a tree.
THEOREM AlwaysATree == Spec => []DirectoriesFormATree
BY Invariance, PTL DEF IInv

\* No step, whatever names are used twice, changes what a name means.
THEOREM LookupAlwaysStable == Spec => LookupStable
<1>1. IInv /\ [Next]_vars =>
        [\A d \in DOMAIN dirs, name \in Names :
           Lookup(d, name) # None => Lookup(d, name)' = Lookup(d, name)]_vars
  BY LookupKept
<1> QED BY <1>1, Invariance, PTL DEF Spec, LookupStable

\* Whoever reads the platters of the last sync finds the inodes that there were, with the names
\* and blocks a record has room for and each file's data, however the filesystem has grown since
\* and whatever names its callers use, "." and ".." among them.
THEOREM PlattersAlwaysConsistent == Spec => []ImageConsistent
<1>1. Init => ImageInv
  BY InitImage
<1>2. IInv /\ ImageInv /\ [Next]_vars => ImageInv'
  BY NextImage
<1>3. ImageInv => ImageConsistent
  BY DEF ImageInv
<1> QED BY <1>1, <1>2, <1>3, Invariance, PTL DEF Spec
=============================================================================
