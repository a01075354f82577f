------------------------------- MODULE PltzFs -------------------------------
(***************************************************************************)
(* The prototype filesystem of pltzfs/src: fs.rs over storage.rs, inode.rs *)
(* and dir.rs.  Everything is in memory and single threaded; sync writes   *)
(* the five platters of the image.  There is no deletion: nothing calls    *)
(* Storage::free_block.                                                    *)
(*                                                                         *)
(* File data is a member of Contents, with its size in SizeOf.  The bitmap *)
(* is the set of the bits that are 1.  Owners, times, permissions and      *)
(* nlink, which nothing changes or reads, are left out.                    *)
(***************************************************************************)
EXTENDS Integers, Sequences, FiniteSets, SequencesExt, FiniteSetsExt

CONSTANTS
  TotalBlocks,   \* total_blocks of PltzFs::new
  BitsPerByte,   \* 8: the bitmap is a whole number of bytes
  DirectBlocks,  \* 6: block addresses an inode on the platter has room for
  Names,         \* names callers use; nothing keeps them from using "." and ".."
  Shortened,     \* name -> what DirEntry::from_bytes makes of 248 bytes of it
  Contents,      \* file data
  SizeOf,        \* content -> len
  BlockSize,     \* 512
  MaxInodes,     \* bound: the last inode number given out; the root's is 1
  None

Dots == {".", ".."}

ASSUME PltzFsAssumption ==
  /\ TotalBlocks \in Nat /\ BitsPerByte \in Nat \ {0} /\ DirectBlocks \in Nat
  /\ DOMAIN Shortened = Names
  /\ \A name \in Names \intersect Dots : Shortened[name] = name
  /\ SizeOf \in [Contents -> Nat] /\ BlockSize \in Nat \ {0}
  /\ MaxInodes \in Nat \ {0}
  /\ None \notin Nat

RootIno == 1

\* The bits of the bitmap: total_blocks rounded up to whole bytes.
Bits == 0 .. ((TotalBlocks + BitsPerByte - 1) \div BitsPerByte) * BitsPerByte - 1

VARIABLES
  bitmap,    \* platter 4
  inodes,    \* inodes: ino -> [dir, size, blocks, addrs]
  dirs,      \* dirs: ino -> Seq of [ino, name]
  fileData,  \* file_data: ino -> content
  nextIno,   \* next_ino
  answer,    \* what the last call returned
  image      \* what the last sync wrote to the platters, or None

vars == <<bitmap, inodes, dirs, fileData, nextIno, answer, image>>

Ok(ino) == [ok |-> TRUE, ino |-> ino]
Err(why, blocks) == [ok |-> FALSE, why |-> why, blocks |-> blocks]

Entry(ino, name) == [ino |-> ino, name |-> name]

\* Inode::new_dir
NewDir == [dir |-> TRUE, size |-> 0, blocks |-> 0, addrs |-> <<>>]

Init ==
  /\ bitmap = {}
  /\ inodes = [i \in {RootIno} |-> NewDir]
  /\ dirs = [i \in {RootIno} |-> <<Entry(RootIno, "."), Entry(RootIno, "..")>>]
  /\ fileData = [i \in {} |-> None]
  /\ nextIno = 2
  /\ answer = Ok(None) /\ image = None

-----------------------------------------------------------------------------
(* storage.rs *)

\* The blocks alloc_block may hand out: not the spare bits of the last byte.
Free == (0 .. TotalBlocks - 1) \ bitmap

\* How many free blocks come before block b.
Before(b) == Cardinality({c \in Free : c < b})

\* Mutant of Granted: allocation starts over at block 0.
GrantedFromZero(n) == [k \in 1 .. Min({n, TotalBlocks}) |-> k - 1]

\* The n lowest free blocks, or all if there are fewer, in the order alloc_block hands
\* them out.
Granted(n) ==
  [k \in 1 .. Min({n, Cardinality(Free)}) |-> CHOOSE b \in Free : Before(b) = k - 1]

\* Mutant of Marked: a failing call leaves only the blocks it got marked.
MarkedSoFar(n) == bitmap \union ToSet(Granted(n))

\* The bits set by n calls of alloc_block.  A call that finds no block below
\* total_blocks has by then set the spare bits of the last byte too.
Marked(n) ==
  IF Len(Granted(n)) = n THEN bitmap \union ToSet(Granted(n)) ELSE Bits

-----------------------------------------------------------------------------
(* fs.rs *)

IsDir(ino) == ino \in DOMAIN inodes /\ inodes[ino].dir

With(f, x, y) == [z \in DOMAIN f \union {x} |-> IF z = x THEN y ELSE f[z]]

\* create_file and mkdir refuse a parent that is no directory before anything else.
BadParent(parent) ==
  /\ ~IsDir(parent)
  /\ answer' = Err("Parent is not a directory", 0)
  /\ UNCHANGED <<bitmap, inodes, dirs, fileData, nextIno, image>>

\* (data.len() + 511) / 512
BlocksOf == [data \in Contents |-> (SizeOf[data] + BlockSize - 1) \div BlockSize]

CreateFile(parent, name, data) ==
  /\ nextIno <= MaxInodes
  /\ IsDir(parent)
  /\ LET n == BlocksOf[data] IN
     /\ nextIno' = nextIno + 1
     /\ bitmap' = Marked(n)
     /\ \/ /\ Len(Granted(n)) = n
           /\ inodes' = With(inodes, nextIno, [dir |-> FALSE, size |-> SizeOf[data],
                                               blocks |-> n, addrs |-> Granted(n)])
           /\ fileData' = With(fileData, nextIno, data)
           /\ dirs' = [dirs EXCEPT ![parent] = Append(@, Entry(nextIno, name))]
           /\ answer' = Ok(nextIno)
        \/ /\ Len(Granted(n)) # n   \* alloc_block()?, half way through the loop
           /\ answer' = Err("No space", n)
           /\ UNCHANGED <<inodes, fileData, dirs>>
  /\ UNCHANGED image

\* Mutant of Mkdir: ".." names the directory itself.
MkdirDotDot(parent, name) ==
  /\ nextIno <= MaxInodes
  /\ IsDir(parent)
  /\ nextIno' = nextIno + 1
  /\ inodes' = With(inodes, nextIno, NewDir)
  /\ dirs' = With([dirs EXCEPT ![parent] = Append(@, Entry(nextIno, name))],
                  nextIno, <<Entry(nextIno, "."), Entry(nextIno, "..")>>)
  /\ answer' = Ok(nextIno)
  /\ UNCHANGED <<bitmap, fileData, image>>

\* Mutant of Mkdir: no entries are made for the new directory.
MkdirNoEntries(parent, name) ==
  /\ nextIno <= MaxInodes
  /\ IsDir(parent)
  /\ nextIno' = nextIno + 1
  /\ inodes' = With(inodes, nextIno, NewDir)
  /\ dirs' = [dirs EXCEPT ![parent] = Append(@, Entry(nextIno, name))]
  /\ answer' = Ok(nextIno)
  /\ UNCHANGED <<bitmap, fileData, image>>

Mkdir(parent, name) ==
  /\ nextIno <= MaxInodes
  /\ IsDir(parent)
  /\ nextIno' = nextIno + 1
  /\ inodes' = With(inodes, nextIno, NewDir)
  /\ dirs' = With([dirs EXCEPT ![parent] = Append(@, Entry(nextIno, name))],
                  nextIno, <<Entry(nextIno, "."), Entry(parent, "..")>>)
  /\ answer' = Ok(nextIno)
  /\ UNCHANGED <<bitmap, fileData, image>>

\* Where the entries of that name are in a directory.
EntriesNamed(parent, name) ==
  IF parent \in DOMAIN dirs
  THEN {k \in DOMAIN dirs[parent] : dirs[parent][k].name = name} ELSE {}

\* Mutant of Lookup: the last entry of that name.
LookupLast(parent, name) ==
  LET found == EntriesNamed(parent, name)
  IN  IF found = {} THEN None ELSE dirs[parent][Max(found)].ino

\* lookup: the first entry of that name.
Lookup(parent, name) ==
  LET found == EntriesNamed(parent, name)
  IN  IF found = {} THEN None ELSE dirs[parent][Min(found)].ino

-----------------------------------------------------------------------------
(* sync, with to_bytes of inode.rs and dir.rs *)

\* inos.sort()
Sorted(inos) ==
  [k \in 1 .. Cardinality(inos) |-> CHOOSE i \in inos : Cardinality({j \in inos : j < i}) = k - 1]

\* The data of some files, one after another.
DataOf(inos) == LET kept == Sorted(inos) IN [k \in DOMAIN kept |-> fileData[kept[k]]]

\* Mutant of InodeBytes: the number of addresses is written as it is.
InodeBytesUncapped(ino) ==
  [ino |-> ino, dir |-> inodes[ino].dir,
   size |-> inodes[ino].size, blocks |-> inodes[ino].blocks,
   addrCount |-> Len(inodes[ino].addrs),
   slots |-> [k \in 1 .. DirectBlocks |->
                IF k \in DOMAIN inodes[ino].addrs THEN inodes[ino].addrs[k] ELSE 0]]

\* Inode::to_bytes drops what does not fit, and fills the slots with 0.
InodeBytes(ino) ==
  [ino |-> ino, dir |-> inodes[ino].dir,
   size |-> inodes[ino].size, blocks |-> inodes[ino].blocks,
   addrCount |-> Min({Len(inodes[ino].addrs), DirectBlocks}),
   slots |-> [k \in 1 .. DirectBlocks |->
                IF k \in DOMAIN inodes[ino].addrs THEN inodes[ino].addrs[k] ELSE 0]]

\* Inode::from_bytes; the bytes behind the slots are 0.
InodeFromBytes(bytes) ==
  [dir |-> bytes.dir, size |-> bytes.size, blocks |-> bytes.blocks,
   addrs |-> [k \in 1 .. bytes.addrCount |-> IF k <= DirectBlocks THEN bytes.slots[k] ELSE 0]]

\* DirEntry::to_bytes cuts a name that is too long, and from_bytes gives back the rest.
Cut(name) == IF name \in Names THEN Shortened[name] ELSE name
DirBytes(e) == Entry(e.ino, Cut(e.name))

\* Which platter a file's data goes to depends on how well it compresses.
Sync ==
  /\ \E wellCompressed \in SUBSET {fileData[i] : i \in DOMAIN fileData} :
       LET order == Sorted(DOMAIN inodes)
       IN  image' = [inodes     |-> [k \in DOMAIN order |-> InodeBytes(order[k])],
                     dirs       |-> FlattenSeq([k \in DOMAIN order |->
                                      IF order[k] \in DOMAIN dirs
                                      THEN [j \in DOMAIN dirs[order[k]] |->
                                              DirBytes(dirs[order[k]][j])]
                                      ELSE <<>>]),
                     structured |-> DataOf({i \in DOMAIN fileData : fileData[i] \in wellCompressed}),
                     raw        |-> DataOf({i \in DOMAIN fileData : fileData[i] \notin wellCompressed}),
                     bitmap     |-> bitmap]
  /\ UNCHANGED <<bitmap, inodes, dirs, fileData, nextIno, answer>>

Next ==
  \/ \E parent \in 1 .. MaxInodes, name \in Names :
       \/ \E data \in Contents : CreateFile(parent, name, data)
       \/ Mkdir(parent, name)
       \/ BadParent(parent)
  \/ Sync

Spec == Init /\ [][Next]_vars

-----------------------------------------------------------------------------
(* Properties *)

\* Every variable has its type.
TypeOK ==
  /\ bitmap \subseteq Bits
  /\ nextIno \in 2 .. MaxInodes + 1
  /\ RootIno \in DOMAIN inodes /\ DOMAIN inodes \subseteq 1 .. nextIno - 1
  /\ DOMAIN dirs \union DOMAIN fileData = DOMAIN inodes
  /\ \A i \in DOMAIN inodes : inodes[i].addrs \in Seq(Bits)
  /\ answer.ok \in BOOLEAN

BlocksOfInode(ino) == ToSet(inodes[ino].addrs)
InUse == UNION {BlocksOfInode(i) : i \in DOMAIN inodes}

\* No block belongs to two files or twice to one, and all of them exist and are marked
\* in the bitmap.
BlocksOwnedOnce ==
  /\ InUse \subseteq bitmap \intersect (0 .. TotalBlocks - 1)
  /\ \A i \in DOMAIN inodes : Cardinality(BlocksOfInode(i)) = inodes[i].blocks
  /\ \A i, j \in DOMAIN inodes : i # j => BlocksOfInode(i) \intersect BlocksOfInode(j) = {}

\* The bitmap marks just the blocks of the files, until a call that ran out of space
\* has marked everything.
BitmapExact == bitmap \in {InUse, Bits}

\* storage.rs:54 "Allocate a block, returns block number or None if full": a file is
\* refused only if it does not fit beside the files there are.
RefusedOnlyWhenFull ==
  ~answer.ok /\ answer.why = "No space" =>
    Cardinality(InUse) + answer.blocks > TotalBlocks

\* The entries of dirs[d] beside "." and "..".
Children(d) == {dirs[d][k].ino : k \in 3 .. Len(dirs[d])}

\* Every inode but the root is in exactly one directory, once, and an older one, so
\* that the directories form a tree; ".." leads back.
DirectoriesFormATree ==
  \A i \in DOMAIN inodes \ {RootIno} :
    \E d \in DOMAIN dirs :
      /\ d < i /\ i \in Children(d)
      /\ Cardinality({k \in 3 .. Len(dirs[d]) : dirs[d][k].ino = i}) = 1
      /\ \A e \in DOMAIN dirs \ {d} : i \notin Children(e)
      /\ i \in DOMAIN dirs => dirs[i][1] = Entry(i, ".") /\ dirs[i][2] = Entry(d, "..")

\* A name once found keeps naming the same inode: create_file and mkdir do not look
\* whether the name is taken, but the first entry wins.
LookupStable ==
  [][\A d \in DOMAIN dirs, name \in Names :
       Lookup(d, name) # None => Lookup(d, name)' = Lookup(d, name)]_vars

\* Nothing on platter 1 says where a directory ends, and any entry may be named "." or "..".
\* But entries are older than those behind them, except that ".." is no younger than ".".
BeginsAt(all, k) ==
  /\ k < Len(all)
  /\ all[k].name = "." /\ all[k + 1].name = ".." /\ all[k + 1].ino <= all[k].ino

\* The entries of platter 1 from the beginning of directory d up to the next one.
EntriesOf(d) ==
  LET start == CHOOSE k \in DOMAIN image.dirs : BeginsAt(image.dirs, k) /\ image.dirs[k].ino = d
      ends  == {k \in start + 1 .. Len(image.dirs) : BeginsAt(image.dirs, k)}
  IN  SubSeq(image.dirs, start, IF ends = {} THEN Len(image.dirs) ELSE Min(ends) - 1)

\* What `name` in directory d is on the platters, to a reader who cuts it like the writer.
LookupOnPlatter(d, name) ==
  LET found == {k \in DOMAIN EntriesOf(d) : EntriesOf(d)[k].name = Cut(name)}
  IN  IF found = {} THEN None ELSE EntriesOf(d)[Min(found)].ino

\* A reader finds in directory d what lookup finds there, or the oldest of several files
\* whose names are cut to the same one.
SameNames(d) ==
  \A name \in Names \union Dots :
    LET alike == {Lookup(d, m) : m \in {x \in Names \union Dots : Cut(x) = Cut(name)}} \ {None}
        known == {i \in alike : \E k \in DOMAIN image.inodes : image.inodes[k].ino = i}
    IN  LookupOnPlatter(d, name) = IF known = {} THEN None ELSE Min(known)

\* The k-th inode of platter 0, read back.
ReadBack(k) == InodeFromBytes(image.inodes[k])

\* It is the inode there is, but for the blocks past the sixth, and its blocks are marked; if
\* it is a directory, it has its entries and names; if it is a file, the size of its data.
InodeKept(k) ==
  LET ino == image.inodes[k].ino IN
  /\ ReadBack(k).dir = inodes[ino].dir /\ ReadBack(k).blocks = inodes[ino].blocks
  /\ ReadBack(k).addrs = SubSeq(inodes[ino].addrs, 1, Min({ReadBack(k).blocks, DirectBlocks}))
  /\ ToSet(ReadBack(k).addrs) \subseteq image.bitmap
  /\ ReadBack(k).dir => /\ \A j \in DOMAIN EntriesOf(ino) : EntriesOf(ino)[j].ino = dirs[ino][j].ino
                        /\ SameNames(ino)
  /\ ~ReadBack(k).dir => /\ ino \in DOMAIN fileData
                         /\ ReadBack(k).size = SizeOf[fileData[ino]]

\* The files of platter 0.
FilesOnPlatter == {image.inodes[k].ino : k \in {j \in DOMAIN image.inodes : ~ReadBack(j).dir}}

\* Whoever reads the platters back finds the filesystem as it was at the sync, whatever is
\* created later: every inode with its blocks, but for those past the sixth, marked in the
\* bitmap; the directories, though nothing on platter 1 says where one ends, with their
\* names, but for those that are cut alike; and the data of each file, whole and once, in the
\* order of the inodes, on one of two platters.  (Which one, the platters do not say.)
ImageConsistent ==
  image # None =>
    /\ \A k \in DOMAIN image.inodes :
         /\ k > 1 => image.inodes[k].ino > image.inodes[k - 1].ino
         /\ InodeKept(k)
    /\ \A k \in DOMAIN image.dirs :
         \E j \in DOMAIN image.inodes : image.inodes[j].ino = image.dirs[k].ino
    /\ \E structured \in SUBSET FilesOnPlatter :
         /\ image.structured = DataOf(structured)
         /\ image.raw = DataOf(FilesOnPlatter \ structured)
=============================================================================
