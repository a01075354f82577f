----------------------------- MODULE PltzProofs -----------------------------
(***************************************************************************)
(* Proofs about Pltz: for any files, candidate sector sizes and width of   *)
(* the index field.  What best_geometry picks and whether a group pays are *)
(* never expanded: the data comes back whatever they answer.               *)
(***************************************************************************)
EXTENDS Pltz, SequenceTheorems, WellFoundedInduction, TLAPS

(* What the encoder makes of file f in sectors of s cells. *)
Ids(f, s) == 0 .. TrackCount(f.len, s) - 1

Entry(f, s, t) == Analyze(TrackAt(f, s, t), s, t)

EntrySet(f, s) == {Entry(f, s, t) : t \in Ids(f, s)}

(* The track decode_meta_group makes of the k-th index of a group of that geometry. *)
SentTrack(g, s, k) ==
  IF g.sub = "AllSame" THEN g.cells
  ELSE [i \in 0 .. s - 1 |-> (g.cells[0] + (k - 1) * g.step) % 256]

AnyGroup(f, s) ==
  {Group(list, sub, d) : list \in Seq(EntrySet(f, s)), sub \in {"AllSame", "ConstLinear"}, d \in Int}

(* A group that numbers tracks of the file, each once, and decodes to them. *)
IsExactGroup(g, f, s) ==
  /\ g.kind = "Meta" /\ g.spt = s
  /\ DOMAIN g.idx = DOMAIN g.at
  /\ \A k \in DOMAIN g.at :
       /\ g.at[k] \in Ids(f, s)
       /\ g.idx[k] = g.at[k] % U16
       /\ SentTrack(g, s, k) = TrackAt(f, s, g.at[k])
  /\ \A j, k \in DOMAIN g.at : g.at[j] = g.at[k] => j = k

GroupSet(f, s) == {g \in AnyGroup(f, s) : IsExactGroup(g, f, s)}

Items(f, s) == EntrySet(f, s) \union GroupSet(f, s)

(* The tracks an item of a platter stands for. *)
Covers(item, t) ==
  IF item.kind = "Track" THEN item.at = t ELSE \E k \in DOMAIN item.at : item.at[k] = t

CoveredBy(list, t) == \E i \in DOMAIN list : Covers(list[i], t)

(* A list of by_type: entries of pattern p of tracks below hi, in the order of tracks. *)
IsListOf(list, f, s, p, hi) ==
  /\ list \in Seq(EntrySet(f, s))
  /\ \A i \in DOMAIN list : list[i].pattern = p /\ list[i].at < hi
  /\ \A i, j \in DOMAIN list : i < j => list[i].at < list[j].at

-----------------------------------------------------------------------------
(* Files and tracks *)

\* A file is its length and its cells.
LEMMA FileShape ==
  ASSUME NEW f \in Files
  PROVE  /\ f.len \in Nat
         /\ f.cell \in [0 .. f.len - 1 -> Nat]
         /\ f = [len |-> f.len, cell |-> f.cell]
BY PltzAssumption

\* A file that is not empty has a track, and its tracks hold all of it.
LEMMA TracksHoldFile ==
  ASSUME NEW f \in Files, NEW s \in Candidates, f.len > 0
  PROVE  /\ TrackCount(f.len, s) \in Nat \ {0}
         /\ \A i \in 0 .. f.len - 1 : i \div s \in Ids(f, s) /\ i % s \in 0 .. s - 1
<1>1. s \in Nat \ {0} /\ f.len \in Nat
  BY PltzAssumption
<1>2. PICK rows : rows = TrackCount(f.len, s)
  OBVIOUS
<1>3. rows \in Nat /\ rows * s >= f.len
  BY <1>1, <1>2 DEF TrackCount
<1>4. rows # 0
  BY <1>1, <1>3
<1>5. ASSUME NEW i \in 0 .. f.len - 1
      PROVE  i \div s \in 0 .. rows - 1 /\ i % s \in 0 .. s - 1
  <2>1. rows * s \in Nat
    BY <1>1, <1>3
  <2>2. i \in 0 .. rows * s - 1
    BY <1>1, <1>3, <2>1
  <2> QED BY <1>1, <1>3, <2>2
<1> QED BY <1>2, <1>3, <1>4, <1>5 DEF Ids

\* A track is a function to cells, and so is not the empty slot.
LEMMA TrackType ==
  ASSUME NEW f \in Files, NEW s \in Candidates, NEW t \in Ids(f, s)
  PROVE  /\ TrackAt(f, s, t) \in [0 .. s - 1 -> Nat]
         /\ TrackAt(f, s, t) # None
<1>1. s \in Nat \ {0} /\ f.len \in Nat /\ t \in Nat
  BY PltzAssumption DEF Ids
<1>2. ASSUME NEW i \in 0 .. s - 1
      PROVE  (IF t * s + i < f.len THEN f.cell[t * s + i] ELSE 0) \in Nat
  <2>1. PICK pos \in Nat : pos = t * s + i
    BY <1>1
  <2>2. pos < f.len => f.cell[pos] \in Nat
    BY <1>1, <2>1, FileShape
  <2> QED BY <2>1, <2>2
<1>3. TrackAt(f, s, t) \in [0 .. s - 1 -> Nat]
  BY <1>2 DEF TrackAt
<1> QED BY <1>3, PltzAssumption

\* The tracks one after the other, cut at the length, are the file.
LEMMA TracksAreFile ==
  ASSUME NEW f \in Files, NEW s \in Candidates, f.len > 0,
         NEW ts, \A t \in Ids(f, s) : ts[t] = TrackAt(f, s, t)
  PROVE  [len |-> f.len, cell |-> [i \in 0 .. f.len - 1 |-> ts[i \div s][i % s]]] = f
<1>1. s \in Nat \ {0} /\ f.len \in Nat
  BY PltzAssumption
<1>2. ASSUME NEW i \in 0 .. f.len - 1
      PROVE  ts[i \div s][i % s] = f.cell[i]
  <2>1. i \div s \in Ids(f, s) /\ i % s \in 0 .. s - 1
    BY TracksHoldFile
  <2>2. i = (i \div s) * s + (i % s)
    BY <1>1
  <2>3. PICK q, r : q = i \div s /\ r = i % s
    OBVIOUS
  <2>4. ts[q][r] = TrackAt(f, s, q)[r]
    BY <2>1, <2>3
  <2>5. TrackAt(f, s, q)[r] = IF q * s + r < f.len THEN f.cell[q * s + r] ELSE 0
    BY <2>1, <2>3 DEF TrackAt
  <2>6. q * s + r = i /\ i < f.len
    BY <1>1, <2>2, <2>3
  <2> QED BY <2>3, <2>4, <2>5, <2>6
<1>3. [i \in 0 .. f.len - 1 |-> ts[i \div s][i % s]] = f.cell
  BY <1>2, FileShape
<1> QED BY <1>3, FileShape

\* The fields of an entry.
LEMMA EntryShape ==
  ASSUME NEW f, NEW s, NEW t \in Ids(f, s)
  PROVE  /\ Entry(f, s, t).kind = "Track" /\ Entry(f, s, t).at = t
         /\ Entry(f, s, t).idx = t % U16
         /\ Entry(f, s, t).cells = TrackAt(f, s, t) /\ Entry(f, s, t).spt = s
         /\ Entry(f, s, t).pattern = PatternOf(TrackAt(f, s, t), s)
         /\ Entry(f, s, t).pattern \in Patterns
         /\ Covers(Entry(f, s, t), t)
<1>1. PatternOf(TrackAt(f, s, t), s) \in Patterns
  BY DEF PatternOf, Patterns
<1> QED BY <1>1 DEF Entry, Analyze, Covers

\* A number that fits in the index field is stored as it is.
LEMMA IndexFits ==
  ASSUME NEW n \in Nat, n < U16
  PROVE  n % U16 = n
BY PltzAssumption

-----------------------------------------------------------------------------
(* Groups *)

\* An element of a list of by_type is the entry of the track it is made from.
LEMMA ElementOfList ==
  ASSUME NEW f, NEW s, NEW p, NEW hi, NEW list, IsListOf(list, f, s, p, hi),
         NEW i \in DOMAIN list
  PROVE  /\ list[i].at \in Ids(f, s)
         /\ list[i] = Entry(f, s, list[i].at)
         /\ list[i].cells = TrackAt(f, s, list[i].at)
         /\ list[i].idx = list[i].at % U16
         /\ list[i].spt = s /\ list[i].pattern = p
<1>1. list[i] \in EntrySet(f, s)
  BY LenProperties DEF IsListOf
<1>2. PICK t \in Ids(f, s) : list[i] = Entry(f, s, t)
  BY <1>1 DEF EntrySet
<1> QED BY <1>2, EntryShape DEF IsListOf

\* The shape of a list: a function on 1..Len.
LEMMA ListShape ==
  ASSUME NEW f, NEW s, NEW p, NEW hi, NEW list, IsListOf(list, f, s, p, hi)
  PROVE  /\ Len(list) \in Nat /\ DOMAIN list = 1 .. Len(list)
         /\ \A i, j \in DOMAIN list : list[i].at = list[j].at => i = j
<1>1. Len(list) \in Nat /\ DOMAIN list = 1 .. Len(list)
  BY LenProperties DEF IsListOf
<1>2. ASSUME NEW i \in DOMAIN list, NEW j \in DOMAIN list, list[i].at = list[j].at
      PROVE  i = j
  <2>1. list[i].at \in Nat
    BY ElementOfList DEF Ids
  <2>2. i < j => list[i].at < list[j].at
    BY DEF IsListOf
  <2>3. j < i => list[j].at < list[i].at
    BY DEF IsListOf
  <2> QED BY <1>1, <1>2, <2>1, <2>2, <2>3
<1> QED BY <1>1, <1>2

\* Group keeps the tracks and the indices of the list it replaces.
LEMMA GroupShape ==
  ASSUME NEW f, NEW s, NEW p, NEW hi, NEW list, IsListOf(list, f, s, p, hi),
         NEW sub \in {"AllSame", "ConstLinear"}, NEW d \in Int, 1 \in DOMAIN list
  PROVE  LET g == Group(list, sub, d)
         IN  /\ g \in AnyGroup(f, s)
             /\ g.kind = "Meta" /\ g.spt = s /\ g.sub = sub /\ g.step = d
             /\ g.cells = TrackAt(f, s, list[1].at)
             /\ DOMAIN g.at = DOMAIN list /\ DOMAIN g.idx = DOMAIN list
             /\ \A k \in DOMAIN list :
                  /\ g.at[k] = list[k].at /\ g.at[k] \in Ids(f, s)
                  /\ g.idx[k] = g.at[k] % U16
                  /\ Covers(g, list[k].at)
             /\ \A j, k \in DOMAIN list : g.at[j] = g.at[k] => j = k
<1> DEFINE g == Group(list, sub, d)
<1>1. g \in AnyGroup(f, s)
  BY DEF AnyGroup, IsListOf
<1>2. /\ g.kind = "Meta" /\ g.spt = s /\ g.sub = sub /\ g.step = d
      /\ g.cells = TrackAt(f, s, list[1].at)
      /\ DOMAIN g.at = DOMAIN list /\ DOMAIN g.idx = DOMAIN list
      /\ \A k \in DOMAIN list : g.at[k] = list[k].at /\ g.idx[k] = list[k].idx
  BY ElementOfList DEF Group
<1>3. \A k \in DOMAIN list :
        /\ g.at[k] \in Ids(f, s) /\ g.idx[k] = g.at[k] % U16 /\ Covers(g, list[k].at)
  BY <1>2, ElementOfList DEF Covers
<1>4. \A j, k \in DOMAIN list : g.at[j] = g.at[k] => j = k
  BY <1>2, ListShape
<1> QED BY <1>1, <1>2, <1>3, <1>4

\* A group of entries with the same parameters is exact.
LEMMA AllSameExact ==
  ASSUME NEW f, NEW s, NEW p, NEW hi, NEW list, IsListOf(list, f, s, p, hi),
         Len(list) >= 4, AllSame(list)
  PROVE  IsExactGroup(Group(list, "AllSame", 0), f, s)
<1>1. 1 \in DOMAIN list
  BY ListShape
<1>2. PICK g : g = Group(list, "AllSame", 0)
  OBVIOUS
<1>3. /\ g.kind = "Meta" /\ g.spt = s /\ g.sub = "AllSame"
      /\ g.cells = TrackAt(f, s, list[1].at)
      /\ DOMAIN g.at = DOMAIN list /\ DOMAIN g.idx = DOMAIN list
      /\ \A k \in DOMAIN list :
           g.at[k] = list[k].at /\ g.at[k] \in Ids(f, s) /\ g.idx[k] = g.at[k] % U16
      /\ \A j, k \in DOMAIN list : g.at[j] = g.at[k] => j = k
  BY <1>1, <1>2, GroupShape
<1>4. \A k \in DOMAIN list : TrackAt(f, s, list[k].at) = TrackAt(f, s, list[1].at)
  BY <1>1, ElementOfList DEF AllSame
<1>5. \A k \in DOMAIN list : SentTrack(g, s, k) = TrackAt(f, s, g.at[k])
  BY <1>3, <1>4 DEF SentTrack
<1> QED BY <1>2, <1>3, <1>5 DEF IsExactGroup

\* A track of one constant is that byte everywhere.
LEMMA ConstTrack ==
  ASSUME NEW f \in Files, NEW s \in Candidates, NEW t \in Ids(f, s),
         PatternOf(TrackAt(f, s, t), s) = "Const"
  PROVE  /\ TrackAt(f, s, t)[0] \in Nat /\ TrackAt(f, s, t)[0] <= 255
         /\ TrackAt(f, s, t) = [i \in 0 .. s - 1 |-> TrackAt(f, s, t)[0]]
<1>1. PICK c : c = TrackAt(f, s, t)
  OBVIOUS
<1>2. s \in Nat \ {0} /\ c \in [0 .. s - 1 -> Nat]
  BY <1>1, TrackType, PltzAssumption
<1>3. IsConst(c, s)
  BY <1>1 DEF PatternOf
<1>4. c[0] \in Nat /\ c[0] < ConstCells /\ \A i \in 0 .. s - 1 : c[i] = c[0]
  BY <1>2, <1>3 DEF IsConst
<1>5. c = [i \in 0 .. s - 1 |-> c[0]]
  BY <1>2, <1>4
<1>6. c[0] <= 255
  <2>1. PICK x \in Nat : x = c[0]
    BY <1>4
  <2>2. ConstCells \in 1 .. 256
    BY PltzAssumption
  <2>3. x < ConstCells
    BY <1>4, <2>1
  <2> QED BY <2>1, <2>2, <2>3
<1> QED BY <1>1, <1>4, <1>5, <1>6

\* A function whose neighbours differ by d is a progression: what "start and step" in
\* the code rests on.
LEMMA Progression ==
  ASSUME NEW a \in Nat, NEW b \in Nat, NEW d \in Int,
         NEW t \in [a .. b -> Int],
         \A i \in a + 1 .. b : t[i] - t[i - 1] = d
  PROVE  \A i \in a .. b : t[i] = t[a] + (i - a) * d
<1> DEFINE Bad == {i \in a .. b : t[i] # t[a] + (i - a) * d}
<1> SUFFICES ASSUME Bad # {} PROVE FALSE
  OBVIOUS
<1> DEFINE R == OpToRel(<, Nat)
<1>1. PICK m \in Bad : \A k \in Bad : m <= k
  <2>1. Bad \subseteq Nat
    OBVIOUS
  <2>2. IsWellFoundedOn(R, Nat)
    BY NatLessThanWellFounded
  <2>3. PICK m \in Bad : \A k \in Bad : <<k, m>> \notin R
    <3> HIDE DEF R, Bad
    <3> QED BY <2>1, <2>2, WFMin
  <2>4. \A k \in Bad : ~(k < m)
    BY <2>1, <2>3 DEF OpToRel
  <2> HIDE DEF Bad
  <2> QED BY <2>1, <2>4
<1> HIDE DEF R
<1>2. m # a
  OBVIOUS
<1>3. m - 1 \in a .. b /\ m - 1 \notin Bad /\ m \in a + 1 .. b
  BY <1>1, <1>2
<1>4. t[m - 1] = t[a] + ((m - 1) - a) * d
  BY <1>3
<1>5. t[m] - t[m - 1] = d
  BY <1>3
<1>6. t[m] = t[a] + (m - a) * d
  <2>1. PICK x \in Int, y \in Int, z \in Int : x = t[m] /\ y = t[m - 1] /\ z = t[a]
    BY <1>3
  <2> DEFINE p == (m - a) * d
  <2>2. ((m - 1) - a) * d = p - d /\ p \in Int
    BY <1>3
  <2>3. y = z + (p - d) /\ x - y = d
    BY <1>4, <1>5, <2>1, <2>2
  <2> HIDE DEF p
  <2>4. x = z + p
    BY <2>2, <2>3
  <2> QED BY <2>1, <2>4 DEF p
<1> QED BY <1>6

\* A group of constants in arithmetic progression is exact: the cast to u8 changes nothing.
LEMMA ConstLinearExact ==
  ASSUME NEW f \in Files, NEW s \in Candidates, NEW hi, NEW list,
         IsListOf(list, f, s, "Const", hi),
         Len(list) >= 4, IsArithmetic(list, StepOf(list))
  PROVE  IsExactGroup(Group(list, "ConstLinear", StepOf(list)), f, s) /\ StepOf(list) \in Int
<1>1. Len(list) \in Nat /\ DOMAIN list = 1 .. Len(list) /\ 1 \in DOMAIN list /\ 2 \in DOMAIN list
  BY ListShape
<1>2. PICK len : len = Len(list)
  OBVIOUS
<1>3. PICK v : v = Values(list)
  OBVIOUS
<1>4. ASSUME NEW k \in 1 .. len
      PROVE  /\ v[k] = list[k].cells[0] /\ v[k] \in Nat /\ v[k] <= 255
             /\ TrackAt(f, s, list[k].at) = [i \in 0 .. s - 1 |-> v[k]]
  <2>1. k \in DOMAIN list
    BY <1>1, <1>2
  <2>2. v[k] = list[k].cells[0]
    BY <1>3, <2>1 DEF Values
  <2>3. list[k].at \in Ids(f, s) /\ list[k].cells = TrackAt(f, s, list[k].at)
    BY <2>1, ElementOfList
  <2>4. PatternOf(TrackAt(f, s, list[k].at), s) = "Const"
    <3>1. list[k] = Entry(f, s, list[k].at) /\ list[k].pattern = "Const"
      BY <2>1, ElementOfList
    <3> QED BY <2>3, <3>1, EntryShape
  <2>5. PICK c : c = TrackAt(f, s, list[k].at)
    OBVIOUS
  <2>6. c[0] \in Nat /\ c[0] <= 255 /\ c = [i \in 0 .. s - 1 |-> c[0]]
    <3>1. PICK t \in Ids(f, s) : t = list[k].at
      BY <2>3
    <3>2. PatternOf(TrackAt(f, s, t), s) = "Const" /\ c = TrackAt(f, s, t)
      BY <2>4, <2>5, <3>1
    <3> QED BY <3>2, ConstTrack
  <2>7. v[k] = c[0]
    BY <2>2, <2>3, <2>5
  <2> QED BY <2>2, <2>5, <2>6, <2>7
<1>5. PICK d : d = StepOf(list)
  OBVIOUS
<1>6. d = v[2] - v[1] /\ d \in Int
  <2>1. v[1] \in Nat /\ v[2] \in Nat
    BY <1>1, <1>2, <1>4
  <2> QED BY <1>3, <1>5, <2>1 DEF StepOf
<1>7. v \in [1 .. len -> Int]
  <2>1. \A k \in 1 .. len : v[k] \in Int
    BY <1>4
  <2>2. v = [i \in 1 .. len |-> list[i].cells[0]]
    BY <1>1, <1>2, <1>3 DEF Values
  <2> QED BY <2>1, <2>2
<1>8. \A i \in 1 + 1 .. len : v[i] - v[i - 1] = d
  <2>1. \A i \in 1 .. len - 1 : v[i + 1] - v[i] = d
    BY <1>2, <1>3, <1>5 DEF IsArithmetic
  <2>2. ASSUME NEW i \in 1 + 1 .. len PROVE v[i] - v[i - 1] = d
    <3>1. i - 1 \in 1 .. len - 1 /\ (i - 1) + 1 = i
      BY <1>1, <1>2
    <3> QED BY <2>1, <3>1
  <2> QED BY <2>2
<1>9. \A k \in 1 .. len : v[k] = v[1] + (k - 1) * d
  BY <1>1, <1>2, <1>6, <1>7, <1>8, Progression
<1>10. PICK g : g = Group(list, "ConstLinear", d)
  OBVIOUS
<1>11. /\ g.kind = "Meta" /\ g.spt = s /\ g.sub = "ConstLinear" /\ g.step = d
       /\ g.cells = TrackAt(f, s, list[1].at)
       /\ DOMAIN g.at = DOMAIN list /\ DOMAIN g.idx = DOMAIN list
       /\ \A k \in DOMAIN list :
            g.at[k] = list[k].at /\ g.at[k] \in Ids(f, s) /\ g.idx[k] = g.at[k] % U16
       /\ \A j, k \in DOMAIN list : g.at[j] = g.at[k] => j = k
  BY <1>1, <1>6, <1>10, GroupShape
<1>12. ASSUME NEW k \in DOMAIN list
       PROVE  SentTrack(g, s, k) = TrackAt(f, s, g.at[k])
  <2>1. k \in 1 .. len /\ 1 \in 1 .. len
    BY <1>1, <1>2
  <2>2. g.cells[0] = v[1]
    BY <1>1, <1>11, <2>1, <1>4, ElementOfList
  <2>3. v[k] % 256 = v[k]
    <3>1. PICK x \in Int : x = v[k] /\ 0 <= x /\ x <= 255
      BY <1>4, <2>1
    <3> QED BY <3>1
  <2>4. (g.cells[0] + (k - 1) * g.step) % 256 = v[k]
    BY <1>9, <1>11, <2>1, <2>2, <2>3
  <2>5. SentTrack(g, s, k) = [i \in 0 .. s - 1 |-> v[k]]
    BY <1>11, <2>4 DEF SentTrack
  <2>6. g.at[k] = list[k].at
    BY <1>11
  <2>7. TrackAt(f, s, list[k].at) = [i \in 0 .. s - 1 |-> v[k]]
    BY <1>4, <2>1
  <2> QED BY <2>5, <2>6, <2>7
<1>13. IsExactGroup(g, f, s)
  BY <1>11, <1>12 DEF IsExactGroup
<1> QED BY <1>5, <1>6, <1>10, <1>13

\* What cross_track_optimize may put in the place of a list: an exact group of it.
LEMMA GroupOfList ==
  ASSUME NEW f \in Files, NEW s \in Candidates, NEW p, NEW hi, NEW list,
         IsListOf(list, f, s, p, hi), NEW g \in MetaGroups(list)
  PROVE  /\ g \in GroupSet(f, s)
         /\ \A i \in DOMAIN list : Covers(g, list[i].at)
         /\ Len(list) >= 4
<1>1. Len(list) \in Nat /\ Len(list) >= 4 /\ 1 \in DOMAIN list
  <2>1. Len(list) \in Nat /\ DOMAIN list = 1 .. Len(list)
    BY ListShape
  <2>2. ~(Len(list) < 4)
    BY DEF MetaGroups
  <2> QED BY <2>1, <2>2
<1>2. list[1].pattern = p
  BY <1>1 DEF IsListOf
<1>3. CASE g = Group(list, "AllSame", 0) /\ AllSame(list)
  <2>1. IsExactGroup(g, f, s)
    BY <1>1, <1>3, AllSameExact
  <2>2. g \in AnyGroup(f, s) /\ \A i \in DOMAIN list : Covers(g, list[i].at)
    BY <1>1, <1>3, GroupShape
  <2> QED BY <1>1, <2>1, <2>2 DEF GroupSet
<1>4. CASE /\ g = Group(list, "ConstLinear", StepOf(list)) /\ p = "Const"
           /\ IsArithmetic(list, StepOf(list))
  <2>1. IsExactGroup(g, f, s) /\ StepOf(list) \in Int
    BY <1>1, <1>4, ConstLinearExact
  <2>2. g \in AnyGroup(f, s) /\ \A i \in DOMAIN list : Covers(g, list[i].at)
    BY <1>1, <1>4, <2>1, GroupShape
  <2> QED BY <1>1, <2>1, <2>2 DEF GroupSet
<1>5. \/ g = Group(list, "AllSame", 0) /\ AllSame(list)
      \/ /\ g = Group(list, "ConstLinear", StepOf(list)) /\ p = "Const"
         /\ IsArithmetic(list, StepOf(list))
  BY <1>1, <1>2 DEF MetaGroups
<1> QED BY <1>3, <1>4, <1>5

-----------------------------------------------------------------------------
(* The inductive invariant.  What it says of a run is said under Clean: once the second *)
(* pass has replaced the raw platter, or the indices wrap, nothing is claimed.          *)

EncOf(t) == Entry(file, sectors, t)

NothingPushed ==
  /\ pushed = 0 /\ byType = [p \in Patterns |-> <<>>]
  /\ groups = <<>> /\ structured = <<>> /\ raw = <<>>

AtStart == pl = 1 /\ read = 0 /\ tracks = <<>>

NothingRead == AtStart /\ cutAt = <<>>

Waiting(lists) ==
  Len(lists["Const"]) + Len(lists["Linear"]) + Len(lists["Rle"]) + Len(lists["Repeat"])
    + Len(lists["LinearWide"]) + Len(lists["PiecewiseLinear"]) + Len(lists["Raw"])

(* Track t is in by_type, left alone, or in a group. *)
Held(t) ==
  \/ \E p \in Patterns : CoveredBy(byType[p], t)
  \/ CoveredBy(structured, t) \/ CoveredBy(groups, t) \/ CoveredBy(raw, t)

(* Every pushed track is held once at most: no list outgrows the count field. *)
PushInv ==
  /\ \A t \in TrackIds : enc[t] = EncOf(t)
  /\ pushed <= Count
  /\ DOMAIN byType = Patterns
  /\ \A p \in Patterns : IsListOf(byType[p], file, sectors, p, pushed)
  /\ structured \in Seq(EntrySet(file, sectors)) /\ raw \in Seq(EntrySet(file, sectors))
  /\ groups \in Seq(GroupSet(file, sectors))
  /\ \A t \in 0 .. pushed - 1 : Held(t)
  /\ Waiting(byType) + Len(structured) + Len(groups) + Len(raw) <= pushed

ItemsOf(q) == stream.platters[q].items

StreamInv ==
  /\ stream.len = file.len
  /\ Len(stream.platters) \in Nat
  /\ \A q \in 1 .. Len(stream.platters) :
       /\ ItemsOf(q) \in Seq(Items(file, sectors))
       /\ stream.platters[q].count = Len(ItemsOf(q))
  /\ \A t \in TrackIds : \E q \in 1 .. Len(stream.platters) : CoveredBy(ItemsOf(q), t)

(* Track t is still to come in the stream. *)
Unread(t) ==
  \E q \in pl .. Len(stream.platters) : \E k \in DOMAIN ItemsOf(q) :
    (q = pl => read < k) /\ Covers(ItemsOf(q)[k], t)

ReadInv ==
  /\ DOMAIN tracks = TrackIds
  /\ \A t \in TrackIds : tracks[t] \in {None, TrackAt(file, sectors, t)}
  /\ \A t \in TrackIds : tracks[t] = TrackAt(file, sectors, t) \/ Unread(t)
  /\ pl \in 1 .. Len(stream.platters) + 1
  /\ pl <= Len(stream.platters) => read <= Len(ItemsOf(pl))

(* The file is whole, or ends in something that is still to come. *)
CutInv ==
  \/ cutAt = <<>>
  \/ \E q \in pl .. Len(stream.platters) : \E k \in 0 .. Len(ItemsOf(q)) :
       cutAt = <<q, k>> /\ (q = pl => k = 0 \/ read < k)

CleanInv ==
  /\ phase \in {"geometry", "analyze"} => NothingPushed
  /\ phase \in {"analyze", "push", "entries"} => sectors \in Candidates /\ file.len > 0
  /\ phase \in {"geometry", "analyze", "push"} => NothingRead
  /\ phase = "analyze" => \A t \in TrackIds : enc[t] \in {None, EncOf(t)}
  /\ phase = "push" => PushInv
  /\ phase = "header" =>
       /\ AtStart
       /\ \/ file.len = 0 /\ stream.len = 0 /\ stream.platters = <<>> /\ cutAt \in {<<>>, <<0, 0>>}
          \/ /\ file.len > 0 /\ sectors \in Candidates /\ StreamInv
             /\ cutAt = <<0, 0>> \/ CutInv
  /\ phase = "entries" => StreamInv /\ ReadInv /\ CutInv
  /\ phase = "done" =>
       result = IF cutAt = <<>> THEN [ok |-> TRUE, data |-> file] ELSE Failed

IInv ==
  /\ TypeOK
  /\ phase = "geometry" => sectors = None
  /\ Clean => CleanInv

-----------------------------------------------------------------------------
(* Type correctness *)

\* The initial values have their types.
LEMMA InitTypeOK == Init => TypeOK
<1> SUFFICES ASSUME Init PROVE TypeOK
  OBVIOUS
<1>1. reanalyzed \in BOOLEAN
  BY DEF Init
<1>2. cutAt = <<>> /\ pl = 1 /\ read = 0 /\ pushed = 0 /\ sectors = None /\ file \in Files /\ phase = "geometry"
  BY DEF Init
<1> QED BY <1>1, <1>2 DEF TypeOK

\* TypeOK is inductive by itself.
LEMMA TypeStep == TypeOK /\ [Next]_vars => TypeOK'
<1> SUFFICES ASSUME TypeOK, [Next]_vars PROVE TypeOK'
  OBVIOUS
<1> USE DEF TypeOK
<1>1. CASE EncodeEmpty
  BY <1>1 DEF EncodeEmpty, decodeVars, TrackIds, Count
<1>2. CASE ChooseGeometry
  <2>1. PICK s \in Candidates : sectors' = s /\ enc' = [t \in 0 .. TrackCount(file.len, s) - 1 |-> None]
    BY <1>2 DEF ChooseGeometry
  <2>2. /\ UNCHANGED <<file, pushed, reanalyzed, cutAt, pl, read>>
        /\ phase = "geometry" /\ phase' = "analyze"
    BY <1>2 DEF ChooseGeometry, decodeVars
  <2>3. DOMAIN enc' = TrackIds'
    BY <2>1, <2>2 DEF TrackIds, Count
  <2> QED BY <2>1, <2>2, <2>3
<1>3. ASSUME NEW t \in DOMAIN enc, AnalyzeTrack(t)
      PROVE  TypeOK'
  <2>1. DOMAIN enc' = DOMAIN enc
    BY <1>3 DEF AnalyzeTrack
  <2>2. phase = "analyze" /\ UNCHANGED <<file, phase, sectors, pushed, reanalyzed, cutAt, pl, read>>
    BY <1>3 DEF AnalyzeTrack, decodeVars
  <2> QED BY <2>1, <2>2 DEF TrackIds, Count
<1>4. CASE Collect
  BY <1>4 DEF Collect, encodeVars, decodeVars, TrackIds, Count
<1>5. CASE Push
  BY <1>5 DEF Push, decodeVars, TrackIds, Count
<1>6. ASSUME NEW p \in Patterns, OptimizePattern(p)
      PROVE  TypeOK'
  BY <1>6 DEF OptimizePattern, decodeVars, TrackIds, Count
<1>7. CASE SplitPlatters
  <2>1. /\ UNCHANGED <<file, sectors, enc, pushed, cutAt, pl, read>>
        /\ phase = "push" /\ phase' = "header"
    BY <1>7 DEF SplitPlatters, decodeVars
  <2>2. reanalyzed' \in BOOLEAN
    BY <1>7 DEF SplitPlatters
  <2> QED BY <2>1, <2>2 DEF TrackIds, Count
<1>8. CASE ReadHeader
  BY <1>8 DEF ReadHeader, encodeVars, TrackIds, Count, Places
<1>9. CASE ReadEntry
  BY <1>9 DEF ReadEntry, encodeVars, TrackIds, Count, Places
<1>10. CASE NextPlatter
  BY <1>10 DEF NextPlatter, encodeVars, TrackIds, Count, Places
<1>11. CASE Assemble
  BY <1>11 DEF Assemble, encodeVars, TrackIds, Count, Places
<1>12. CASE CutShort
  BY <1>12 DEF CutShort, encodeVars, TrackIds, Count, Places
<1>13. CASE ReadTruncated
  BY <1>13 DEF ReadTruncated, encodeVars, TrackIds, Count, Places
<1>14. CASE UNCHANGED vars
  BY <1>14 DEF vars, encodeVars, decodeVars, TrackIds, Count, Places
<1> QED BY <1>1, <1>2, <1>3, <1>4, <1>5, <1>6, <1>7, <1>8, <1>9, <1>10, <1>11, <1>12, <1>13, <1>14
        DEF Next

(* Every variable keeps its type, and there is one slot for each track the data needs, *)
(* whatever the sector size.                                                           *)
THEOREM TypeCorrect == Spec => []TypeOK
<1>1. Init => TypeOK
  BY InitTypeOK
<1> QED BY <1>1, TypeStep, PTL DEF Spec

-----------------------------------------------------------------------------
(* The invariant *)

\* What is not clean stays so.
LEMMA CleanBefore ==
  ASSUME IInv, [Next]_vars, Clean'
  PROVE  Clean
<1>1. file' = file
  BY DEF Next, vars, EncodeEmpty, ChooseGeometry, AnalyzeTrack, Collect, Push, OptimizePattern,
         SplitPlatters, CutShort, ReadHeader, ReadEntry, ReadTruncated, NextPlatter,
         Assemble
<1>2. sectors # None => sectors' = sectors
  BY DEF IInv, Next, vars, EncodeEmpty, ChooseGeometry, AnalyzeTrack, Collect, Push,
         OptimizePattern, SplitPlatters, CutShort, ReadHeader, ReadEntry, ReadTruncated, NextPlatter,
         Assemble
<1>3. ~reanalyzed' => ~reanalyzed
  <2>1. CASE SplitPlatters
    BY <2>1 DEF SplitPlatters
  <2>2. CASE ~SplitPlatters
    <3>1. reanalyzed' = reanalyzed
      BY <2>2 DEF Next, vars, encodeVars, EncodeEmpty, ChooseGeometry, AnalyzeTrack, Collect,
                  Push, OptimizePattern, CutShort, ReadHeader, ReadEntry, ReadTruncated, NextPlatter,
                  Assemble
    <3> QED BY <3>1
  <2> QED BY <2>1, <2>2
<1> QED BY <1>1, <1>2, <1>3 DEF Clean, Count

\* The start is clean, with nothing pushed and nothing read.
LEMMA InitIInv == Init => IInv
<1> SUFFICES ASSUME Init PROVE IInv
  OBVIOUS
<1>1. phase = "geometry" /\ sectors = None
  BY DEF Init
<1>2. NothingPushed /\ NothingRead
  BY DEF Init, NothingPushed, NothingRead, AtStart
<1> QED BY <1>1, <1>2, InitTypeOK DEF IInv, CleanInv

\* The empty file: a header only.
LEMMA EncodeEmptyInv ==
  ASSUME IInv, Clean, EncodeEmpty
  PROVE  CleanInv'
BY DEF IInv, CleanInv, NothingRead, AtStart, CutInv, EncodeEmpty, decodeVars

\* The slots are empty and nothing is pushed.
LEMMA ChooseGeometryInv ==
  ASSUME IInv, Clean, ChooseGeometry
  PROVE  CleanInv'
<1>1. PICK s \in Candidates : sectors' = s /\ enc' = [t \in 0 .. TrackCount(file.len, s) - 1 |-> None]
  BY DEF ChooseGeometry
<1>2. /\ phase = "geometry" /\ phase' = "analyze" /\ file' = file /\ file.len > 0
      /\ UNCHANGED <<pushed, byType, groups, structured, raw, cutAt, pl, read, tracks>>
  BY DEF ChooseGeometry, decodeVars
<1>3. \A t \in TrackIds' : enc'[t] = None
  BY <1>1, <1>2 DEF TrackIds, Count
<1>4. NothingPushed' /\ NothingRead'
  BY <1>2 DEF IInv, CleanInv, NothingPushed, NothingRead, AtStart
<1> QED BY <1>1, <1>2, <1>3, <1>4 DEF CleanInv

\* A worker fills the slot of its track.
LEMMA AnalyzeTrackInv ==
  ASSUME IInv, Clean, NEW t \in DOMAIN enc, AnalyzeTrack(t)
  PROVE  CleanInv'
<1>1. /\ phase = "analyze" /\ phase' = phase /\ file' = file /\ sectors' = sectors
      /\ UNCHANGED <<pushed, byType, groups, structured, raw, cutAt, pl, read, tracks>>
      /\ enc' = [enc EXCEPT ![t] = EncOf(t)]
  BY DEF AnalyzeTrack, decodeVars, EncOf, Entry
<1>2. sectors \in Candidates /\ file.len > 0 /\ \A u \in TrackIds : enc[u] \in {None, EncOf(u)}
  BY <1>1 DEF IInv, CleanInv
<1>3. \A u \in TrackIds : enc'[u] \in {None, EncOf(u)}
  <2>1. DOMAIN enc = TrackIds
    BY <1>2, PltzAssumption DEF IInv, TypeOK
  <2> QED BY <1>1, <1>2, <2>1
<1>4. TrackIds' = TrackIds /\ \A u : EncOf(u)' = EncOf(u)
  BY <1>1 DEF TrackIds, Count, EncOf, Entry
<1>5. NothingPushed' /\ NothingRead'
  BY <1>1 DEF IInv, CleanInv, NothingPushed, NothingRead, AtStart
<1> QED BY <1>1, <1>2, <1>3, <1>4, <1>5 DEF CleanInv

-----------------------------------------------------------------------------
(* Lists under Append and \o *)

\* What is appended is covered, and nothing is lost.
LEMMA CoveredByAppend ==
  ASSUME NEW S, NEW list \in Seq(S), NEW x \in S, NEW t
  PROVE  /\ Covers(x, t) => CoveredBy(Append(list, x), t)
         /\ CoveredBy(list, t) => CoveredBy(Append(list, x), t)
<1>1. /\ Len(list) \in Nat /\ DOMAIN list = 1 .. Len(list)
      /\ DOMAIN Append(list, x) = 1 .. Len(list) + 1
      /\ \A i \in 1 .. Len(list) : Append(list, x)[i] = list[i]
      /\ Append(list, x)[Len(list) + 1] = x
  BY AppendProperties, LenProperties
<1> QED BY <1>1 DEF CoveredBy

\* A concatenation covers what one of its parts covers.
LEMMA CoveredByConcat ==
  ASSUME NEW S, NEW a \in Seq(S), NEW b \in Seq(S), NEW t
  PROVE  CoveredBy(a, t) \/ CoveredBy(b, t) => CoveredBy(a \o b, t)
<1>1. /\ Len(a) \in Nat /\ DOMAIN a = 1 .. Len(a) /\ Len(b) \in Nat /\ DOMAIN b = 1 .. Len(b)
      /\ DOMAIN (a \o b) = 1 .. Len(a) + Len(b)
      /\ \A i \in 1 .. Len(a) : (a \o b)[i] = a[i]
  BY ConcatProperties, LenProperties
<1>2. ASSUME NEW i \in 1 .. Len(b)
      PROVE  (a \o b)[Len(a) + i] = b[i] /\ Len(a) + i \in DOMAIN (a \o b)
  <2>1. Len(a) + i \in Len(a) + 1 .. Len(a) + Len(b) /\ (Len(a) + i) - Len(a) = i
    BY <1>1
  <2>2. (a \o b)[Len(a) + i] = b[(Len(a) + i) - Len(a)]
    BY <2>1, ConcatProperties
  <2> QED BY <1>1, <2>1, <2>2
<1>3. CoveredBy(a, t) => CoveredBy(a \o b, t)
  BY <1>1 DEF CoveredBy
<1>4. CoveredBy(b, t) => CoveredBy(a \o b, t)
  BY <1>1, <1>2 DEF CoveredBy
<1> QED BY <1>3, <1>4

\* Push keeps a list in the order of tracks.
LEMMA ListAppend ==
  ASSUME NEW f, NEW s, NEW p, NEW hi \in Ids(f, s), NEW list, IsListOf(list, f, s, p, hi),
         Entry(f, s, hi).pattern = p
  PROVE  /\ IsListOf(Append(list, Entry(f, s, hi)), f, s, p, hi + 1)
         /\ Len(Append(list, Entry(f, s, hi))) = Len(list) + 1
<1>1. PICK e : e = Entry(f, s, hi)
  OBVIOUS
<1>2. PICK new : new = Append(list, e)
  OBVIOUS
<1>3. e \in EntrySet(f, s) /\ list \in Seq(EntrySet(f, s)) /\ e.at = hi /\ e.pattern = p
  BY <1>1, EntryShape DEF EntrySet, IsListOf
<1>4. /\ Len(list) \in Nat /\ DOMAIN list = 1 .. Len(list)
      /\ new \in Seq(EntrySet(f, s)) /\ Len(new) = Len(list) + 1
      /\ DOMAIN new = 1 .. Len(list) + 1
      /\ \A i \in 1 .. Len(list) : new[i] = list[i]
      /\ new[Len(list) + 1] = e
  BY <1>2, <1>3, AppendProperties, LenProperties
<1>5. hi \in Int
  BY DEF Ids
<1>6. \A i \in 1 .. Len(list) : list[i].at \in Int /\ list[i].at < hi /\ list[i].pattern = p
  <2>1. \A i \in 1 .. Len(list) : list[i].at \in Ids(f, s)
    BY <1>4, ElementOfList
  <2> QED BY <1>4, <2>1 DEF IsListOf, Ids
<1>7. \A i \in DOMAIN new : new[i].pattern = p /\ new[i].at < hi + 1
  BY <1>3, <1>4, <1>5, <1>6
<1>8. ASSUME NEW i \in DOMAIN new, NEW j \in DOMAIN new, i < j
      PROVE  new[i].at < new[j].at
  <2>1. CASE j = Len(list) + 1
    BY <1>3, <1>4, <1>6, <1>8, <2>1
  <2>2. CASE j \in 1 .. Len(list)
    BY <1>4, <1>8, <2>2 DEF IsListOf
  <2> QED BY <1>4, <2>1, <2>2
<1> QED BY <1>1, <1>2, <1>4, <1>7, <1>8 DEF IsListOf

\* A list stays one when more tracks are pushed to other lists.
LEMMA ListLater ==
  ASSUME NEW f, NEW s, NEW p, NEW hi \in Nat, NEW list, IsListOf(list, f, s, p, hi)
  PROVE  IsListOf(list, f, s, p, hi + 1)
<1>1. \A i \in DOMAIN list : list[i].at \in Int /\ list[i].at < hi
  <2>1. \A i \in DOMAIN list : list[i].at \in Ids(f, s)
    BY ElementOfList
  <2> QED BY <2>1 DEF IsListOf, Ids
<1> QED BY <1>1 DEF IsListOf

\* The indices of a list are in order too unless they wrap, so that sorting changes nothing.
LEMMA ListIsSorted ==
  ASSUME NEW f \in Files, NEW s \in Candidates, NEW p, NEW hi, NEW list,
         IsListOf(list, f, s, p, hi), TrackCount(f.len, s) < U16
  PROVE  SortByIdx(list) = list
<1>1. ASSUME NEW i \in DOMAIN list
      PROVE  list[i].idx = list[i].at /\ list[i].at \in Nat
  <2>1. list[i].idx = list[i].at % U16 /\ list[i].at \in Ids(f, s)
    BY ElementOfList
  <2>2. PICK n : n = list[i].at
    OBVIOUS
  <2>3. n \in Nat /\ n < U16
    <3>1. f.len \in Nat /\ s \in Nat \ {0} /\ U16 \in Nat
      BY PltzAssumption
    <3>2. TrackCount(f.len, s) \in Nat
      BY <3>1 DEF TrackCount
    <3> QED BY <2>1, <2>2, <3>1, <3>2 DEF Ids
  <2> QED BY <2>1, <2>2, <2>3, IndexFits
<1>2. \A i, j \in DOMAIN list : i < j => list[i].idx <= list[j].idx
  BY <1>1 DEF IsListOf
<1> QED BY <1>2 DEF SortByIdx

\* The empty list.
LEMMA ListEmpty ==
  ASSUME NEW f, NEW s, NEW p, NEW hi
  PROVE  IsListOf(<<>>, f, s, p, hi)
BY DEF IsListOf

\* The lists together grow by what one of them grows.
LEMMA WaitingChange ==
  ASSUME NEW lists, DOMAIN lists = Patterns, NEW p \in Patterns, NEW new,
         Len(new) \in Int, \A q \in Patterns : Len(lists[q]) \in Int
  PROVE  /\ Waiting([lists EXCEPT ![p] = new]) = Waiting(lists) + (Len(new) - Len(lists[p]))
         /\ Waiting(lists) \in Int
<1> DEFINE after == [lists EXCEPT ![p] = new]
<1>1. \A q \in Patterns : after[q] = IF q = p THEN new ELSE lists[q]
  OBVIOUS
<1> HIDE DEF after
<1>2. PICK c \in Int, l \in Int, r \in Int, e \in Int, w \in Int, i \in Int, a \in Int :
        /\ c = Len(lists["Const"])
        /\ l = Len(lists["Linear"])
        /\ r = Len(lists["Rle"])
        /\ e = Len(lists["Repeat"])
        /\ w = Len(lists["LinearWide"])
        /\ i = Len(lists["PiecewiseLinear"])
        /\ a = Len(lists["Raw"])
  BY DEF Patterns
<1>3. Waiting(lists) = c + l + r + e + w + i + a
  BY <1>2 DEF Waiting
<1>4. PICK d \in Int, old \in Int : d = Len(new) /\ old = Len(lists[p])
  OBVIOUS
<1>5. Waiting(after) = Waiting(lists) + (d - old)
  <2>1. CASE p = "Const"
    <3>1. /\ old = c /\ Len(after["Const"]) = d
          /\ Len(after["Linear"]) = l /\ Len(after["Rle"]) = r
          /\ Len(after["Repeat"]) = e /\ Len(after["LinearWide"]) = w
          /\ Len(after["PiecewiseLinear"]) = i /\ Len(after["Raw"]) = a
      BY <1>1, <1>2, <1>4, <2>1 DEF Patterns
    <3>2. Waiting(after) = d + l + r + e + w + i + a
      BY <3>1 DEF Waiting
    <3>3. old = c
      BY <3>1
    <3> QED BY <1>3, <3>2, <3>3
  <2>2. CASE p = "Linear"
    <3>1. /\ old = l /\ Len(after["Const"]) = c
          /\ Len(after["Linear"]) = d /\ Len(after["Rle"]) = r
          /\ Len(after["Repeat"]) = e /\ Len(after["LinearWide"]) = w
          /\ Len(after["PiecewiseLinear"]) = i /\ Len(after["Raw"]) = a
      BY <1>1, <1>2, <1>4, <2>2 DEF Patterns
    <3>2. Waiting(after) = c + d + r + e + w + i + a
      BY <3>1 DEF Waiting
    <3>3. old = l
      BY <3>1
    <3> QED BY <1>3, <3>2, <3>3
  <2>3. CASE p = "Rle"
    <3>1. /\ old = r /\ Len(after["Const"]) = c
          /\ Len(after["Linear"]) = l /\ Len(after["Rle"]) = d
          /\ Len(after["Repeat"]) = e /\ Len(after["LinearWide"]) = w
          /\ Len(after["PiecewiseLinear"]) = i /\ Len(after["Raw"]) = a
      BY <1>1, <1>2, <1>4, <2>3 DEF Patterns
    <3>2. Waiting(after) = c + l + d + e + w + i + a
      BY <3>1 DEF Waiting
    <3>3. old = r
      BY <3>1
    <3> QED BY <1>3, <3>2, <3>3
  <2>4. CASE p = "Repeat"
    <3>1. /\ old = e /\ Len(after["Const"]) = c
          /\ Len(after["Linear"]) = l /\ Len(after["Rle"]) = r
          /\ Len(after["Repeat"]) = d /\ Len(after["LinearWide"]) = w
          /\ Len(after["PiecewiseLinear"]) = i /\ Len(after["Raw"]) = a
      BY <1>1, <1>2, <1>4, <2>4 DEF Patterns
    <3>2. Waiting(after) = c + l + r + d + w + i + a
      BY <3>1 DEF Waiting
    <3>3. old = e
      BY <3>1
    <3> QED BY <1>3, <3>2, <3>3
  <2>5. CASE p = "LinearWide"
    <3>1. /\ old = w /\ Len(after["Const"]) = c
          /\ Len(after["Linear"]) = l /\ Len(after["Rle"]) = r
          /\ Len(after["Repeat"]) = e /\ Len(after["LinearWide"]) = d
          /\ Len(after["PiecewiseLinear"]) = i /\ Len(after["Raw"]) = a
      BY <1>1, <1>2, <1>4, <2>5 DEF Patterns
    <3>2. Waiting(after) = c + l + r + e + d + i + a
      BY <3>1 DEF Waiting
    <3>3. old = w
      BY <3>1
    <3> QED BY <1>3, <3>2, <3>3
  <2>6. CASE p = "PiecewiseLinear"
    <3>1. /\ old = i /\ Len(after["Const"]) = c
          /\ Len(after["Linear"]) = l /\ Len(after["Rle"]) = r
          /\ Len(after["Repeat"]) = e /\ Len(after["LinearWide"]) = w
          /\ Len(after["PiecewiseLinear"]) = d /\ Len(after["Raw"]) = a
      BY <1>1, <1>2, <1>4, <2>6 DEF Patterns
    <3>2. Waiting(after) = c + l + r + e + w + d + a
      BY <3>1 DEF Waiting
    <3>3. old = i
      BY <3>1
    <3> QED BY <1>3, <3>2, <3>3
  <2>7. CASE p = "Raw"
    <3>1. /\ old = a /\ Len(after["Const"]) = c
          /\ Len(after["Linear"]) = l /\ Len(after["Rle"]) = r
          /\ Len(after["Repeat"]) = e /\ Len(after["LinearWide"]) = w
          /\ Len(after["PiecewiseLinear"]) = i /\ Len(after["Raw"]) = d
      BY <1>1, <1>2, <1>4, <2>7 DEF Patterns
    <3>2. Waiting(after) = c + l + r + e + w + i + d
      BY <3>1 DEF Waiting
    <3>3. old = a
      BY <3>1
    <3> QED BY <1>3, <3>2, <3>3
  <2> QED BY <2>1, <2>2, <2>3, <2>4, <2>5, <2>6, <2>7 DEF Patterns
<1> QED BY <1>3, <1>4, <1>5 DEF after

-----------------------------------------------------------------------------
(* cross_track_optimize and split_platters *)

\* The number of tracks of a file that is encoded.
LEMMA CountType ==
  ASSUME IInv, sectors \in Candidates, file.len > 0
  PROVE  /\ file \in Files /\ Count \in Nat \ {0} /\ TrackIds = Ids(file, sectors)
         /\ Count = TrackCount(file.len, sectors)
         /\ Clean => Count < U16
<1>1. file \in Files /\ sectors # None
  BY PltzAssumption DEF IInv, TypeOK
<1>2. TrackCount(file.len, sectors) \in Nat \ {0}
  BY <1>1, TracksHoldFile
<1> QED BY <1>1, <1>2 DEF Count, TrackIds, Ids, Clean

\* Collect: all slots are filled, nothing is pushed yet.
LEMMA CollectInv ==
  ASSUME IInv, Clean, Collect
  PROVE  CleanInv'
<1>1. /\ phase = "analyze" /\ phase' = "push" /\ \A t \in TrackIds : enc[t] # None
      /\ UNCHANGED <<file, sectors, enc, pushed, byType, groups, structured, raw>>
      /\ UNCHANGED <<cutAt, pl, read, tracks>>
  BY DEF Collect, encodeVars, decodeVars
<1>2. /\ sectors \in Candidates /\ file.len > 0
      /\ \A t \in TrackIds : enc[t] \in {None, EncOf(t)}
      /\ NothingPushed /\ NothingRead
  BY <1>1 DEF IInv, CleanInv
<1>3. Count \in Nat
  BY <1>2, CountType
<1>4. \A p \in Patterns : byType[p] = <<>> /\ IsListOf(byType[p], file, sectors, p, pushed)
  BY <1>2, ListEmpty DEF NothingPushed
<1>5. Waiting(byType) + Len(structured) + Len(groups) + Len(raw) <= pushed
  BY <1>2, <1>4 DEF NothingPushed, Waiting, Patterns
<1>6. PushInv
  BY <1>1, <1>2, <1>3, <1>4, <1>5 DEF NothingPushed, PushInv
<1>7. PushInv' /\ NothingRead'
  BY <1>1, <1>2, <1>6 DEF PushInv, NothingRead, AtStart, TrackIds, Count, EncOf, Held
<1> QED BY <1>1, <1>2, <1>7 DEF CleanInv

\* Push: the entry of track "pushed" joins the list of its pattern.
LEMMA PushInvStep ==
  ASSUME IInv, Clean, Push
  PROVE  CleanInv'
<1>1. /\ phase = "push" /\ phase' = "push" /\ pushed < Count
      /\ UNCHANGED <<file, sectors, enc, groups, structured, raw, cutAt, pl, read, tracks>>
      /\ byType' = [byType EXCEPT ![enc[pushed].pattern] = Append(@, enc[pushed])]
      /\ pushed' = pushed + 1
  BY DEF Push, decodeVars
<1>2. sectors \in Candidates /\ file.len > 0 /\ PushInv /\ NothingRead /\ pushed \in Nat
  BY <1>1 DEF IInv, TypeOK, CleanInv
<1>3. Count \in Nat /\ TrackIds = Ids(file, sectors) /\ pushed \in Ids(file, sectors)
  BY <1>1, <1>2, CountType DEF TrackIds
<1>4. PICK e : e = Entry(file, sectors, pushed)
  OBVIOUS
<1>5. enc[pushed] = e
  BY <1>2, <1>3, <1>4 DEF PushInv, EncOf
<1>6. PICK p : p = e.pattern
  OBVIOUS
<1>7. PICK new : new = Append(byType[p], e)
  OBVIOUS
<1>8. byType' = [byType EXCEPT ![p] = new] /\ p \in Patterns /\ DOMAIN byType = Patterns
  BY <1>1, <1>2, <1>3, <1>4, <1>5, <1>6, <1>7, EntryShape DEF PushInv
<1>9. IsListOf(new, file, sectors, p, pushed + 1) /\ Len(new) = Len(byType[p]) + 1
  BY <1>2, <1>3, <1>4, <1>6, <1>7, <1>8, ListAppend DEF PushInv
<1>10. \A q \in Patterns : IsListOf(byType'[q], file, sectors, q, pushed')
  BY <1>1, <1>2, <1>8, <1>9, ListLater DEF PushInv
<1>11. \A q \in Patterns : byType[q] \in Seq(EntrySet(file, sectors)) /\ Len(byType[q]) \in Nat
  BY <1>2, ListShape DEF PushInv, IsListOf
<1>12. CoveredBy(new, pushed) /\ \A t : CoveredBy(byType[p], t) => CoveredBy(new, t)
  <2>1. e \in EntrySet(file, sectors) /\ Covers(e, pushed)
    BY <1>3, <1>4, EntryShape DEF EntrySet
  <2> QED BY <1>7, <1>8, <1>11, <2>1, CoveredByAppend
<1>13. ASSUME NEW t \in 0 .. pushed' - 1
       PROVE  Held(t)'
  <2>1. CASE t = pushed
    BY <1>8, <1>12, <2>1 DEF Held
  <2>2. CASE t # pushed
    <3>1. t \in 0 .. pushed - 1
      BY <1>1, <1>2, <2>2
    <3>2. Held(t)
      BY <1>2, <3>1 DEF PushInv
    <3> QED BY <1>1, <1>8, <1>12, <3>2 DEF Held
  <2> QED BY <2>1, <2>2
<1>14. Waiting(byType') + Len(structured') + Len(groups') + Len(raw') <= pushed'
  <2>1. PICK x \in Int, y \in Int, z \in Int : x = Len(structured) /\ y = Len(groups) /\ z = Len(raw)
    BY <1>2, LenProperties DEF PushInv
  <2>2. Waiting(byType') = Waiting(byType) + 1 /\ Waiting(byType) \in Int
    <3>1. Len(new) \in Int /\ Len(new) - Len(byType[p]) = 1
      BY <1>8, <1>9, <1>11
    <3>2. \A q \in Patterns : Len(byType[q]) \in Int
      BY <1>11
    <3>3. /\ Waiting([byType EXCEPT ![p] = new]) = Waiting(byType) + (Len(new) - Len(byType[p]))
          /\ Waiting(byType) \in Int
      BY <1>8, <3>1, <3>2, WaitingChange
    <3> QED BY <1>8, <3>1, <3>3
  <2>3. Waiting(byType) + x + y + z <= pushed
    BY <1>2, <2>1 DEF PushInv
  <2> QED BY <1>1, <1>2, <2>1, <2>2, <2>3
<1>15. \A t \in TrackIds' : enc'[t] = EncOf(t)'
  BY <1>1, <1>2 DEF PushInv, TrackIds, Count, EncOf
<1>16. pushed' <= Count' /\ DOMAIN byType' = Patterns
  BY <1>1, <1>2, <1>3, <1>8 DEF Count
<1>17. PushInv'
  BY <1>1, <1>2, <1>10, <1>13, <1>14, <1>15, <1>16 DEF PushInv
<1> QED BY <1>1, <1>2, <1>17 DEF CleanInv, NothingRead, AtStart

\* A group covers what the list it replaces covered.
LEMMA GroupCoversList ==
  ASSUME NEW f \in Files, NEW s \in Candidates, NEW p, NEW hi, NEW list,
         IsListOf(list, f, s, p, hi), NEW g \in MetaGroups(list), NEW t, CoveredBy(list, t)
  PROVE  Covers(g, t)
<1>1. PICK i \in DOMAIN list : Covers(list[i], t)
  BY DEF CoveredBy
<1>2. list[i] = Entry(f, s, list[i].at) /\ list[i].at \in Ids(f, s)
  BY ElementOfList
<1>3. list[i].kind = "Track"
  BY <1>2, EntryShape
<1>4. list[i].at = t
  BY <1>1, <1>3 DEF Covers
<1> QED BY <1>4, GroupOfList

\* One round of the loop over by_type: the list leaves it, whole or as a group.
LEMMA OptimizePatternInv ==
  ASSUME IInv, Clean, NEW p \in Patterns, OptimizePattern(p)
  PROVE  CleanInv'
<1>1. /\ phase = "push" /\ phase' = "push"
      /\ UNCHANGED <<file, sectors, enc, pushed, cutAt, pl, read, tracks>>
      /\ byType' = [byType EXCEPT ![p] = <<>>]
  BY DEF OptimizePattern, decodeVars
<1>2. sectors \in Candidates /\ file.len > 0 /\ PushInv /\ NothingRead /\ pushed \in Nat
  BY <1>1 DEF IInv, TypeOK, CleanInv
<1>3. file \in Files /\ TrackCount(file.len, sectors) < U16
  BY <1>2, CountType
<1>4. PICK E : E = EntrySet(file, sectors)
  OBVIOUS
<1>5. PICK list : list = byType[p]
  OBVIOUS
<1>6. IsListOf(list, file, sectors, p, pushed) /\ list \in Seq(E) /\ Len(list) \in Nat
  BY <1>2, <1>4, <1>5, ListShape DEF PushInv, IsListOf
<1>7. SortByIdx(byType[p]) = list
  BY <1>2, <1>3, <1>5, <1>6, ListIsSorted
<1>8. structured \in Seq(E) /\ raw \in Seq(E) /\ groups \in Seq(GroupSet(file, sectors))
  BY <1>2, <1>4 DEF PushInv
<1>9. PICK x \in Nat, y \in Nat, z \in Nat : x = Len(structured) /\ y = Len(groups) /\ z = Len(raw)
  BY <1>8, LenProperties
<1>10. Waiting(byType') = Waiting(byType) - Len(list) /\ Waiting(byType) \in Int
  <2>1. \A q \in Patterns : Len(byType[q]) \in Int
    BY <1>2, ListShape DEF PushInv
  <2>2. PICK nil : nil = <<>> /\ Len(nil) = 0
    OBVIOUS
  <2>3. DOMAIN byType = Patterns /\ Len(nil) \in Int
    BY <1>2, <2>2 DEF PushInv
  <2>4. /\ Waiting([byType EXCEPT ![p] = nil]) = Waiting(byType) + (Len(nil) - Len(byType[p]))
        /\ Waiting(byType) \in Int
    BY <2>1, <2>3, WaitingChange
  <2> QED BY <1>1, <1>5, <1>6, <2>2, <2>4
<1>11. Waiting(byType) + x + y + z <= pushed
  BY <1>2, <1>9 DEF PushInv
<1>12. DOMAIN byType' = Patterns /\ \A q \in Patterns : byType'[q] = IF q = p THEN <<>> ELSE byType[q]
  BY <1>1, <1>2 DEF PushInv
<1>13. \A q \in Patterns : IsListOf(byType'[q], file, sectors, q, pushed')
  BY <1>1, <1>2, <1>12, ListEmpty DEF PushInv
<1>14. (\A t \in TrackIds' : enc'[t] = EncOf(t)') /\ pushed' <= Count'
  BY <1>1, <1>2 DEF PushInv, TrackIds, Count, EncOf
<1> DEFINE Kept ==
      /\ structured' \in Seq(E) /\ raw' \in Seq(E) /\ groups' \in Seq(GroupSet(file, sectors))
      /\ Len(structured') + Len(groups') + Len(raw') <= x + y + z + Len(list)
      /\ \A t : \/ CoveredBy(structured, t) \/ CoveredBy(groups, t) \/ CoveredBy(raw, t)
                \/ CoveredBy(list, t)
             => CoveredBy(structured', t) \/ CoveredBy(groups', t) \/ CoveredBy(raw', t)
<1>15. ASSUME MetaGroups(list) # {} PROVE Kept
  <2>1. PICK g \in MetaGroups(list) : groups' = Append(groups, g)
    BY <1>7, <1>15 DEF OptimizePattern
  <2>2. structured' = structured /\ raw' = raw
    BY <1>7, <1>15 DEF OptimizePattern
  <2>3. g \in GroupSet(file, sectors) /\ Len(list) >= 4
    BY <1>2, <1>3, <1>6, GroupOfList
  <2>4. groups' \in Seq(GroupSet(file, sectors)) /\ Len(groups') = y + 1
    BY <1>8, <1>9, <2>1, <2>3, AppendProperties
  <2>5. Len(structured') + Len(groups') + Len(raw') <= x + y + z + Len(list)
    BY <1>6, <1>9, <2>2, <2>3, <2>4
  <2>6. ASSUME NEW t
        PROVE  /\ CoveredBy(list, t) => CoveredBy(groups', t)
               /\ CoveredBy(groups, t) => CoveredBy(groups', t)
    <3>1. CoveredBy(list, t) => Covers(g, t)
      BY <1>2, <1>3, <1>6, GroupCoversList
    <3> QED BY <1>8, <2>1, <2>3, <3>1, CoveredByAppend
  <2> QED BY <1>8, <2>2, <2>4, <2>5, <2>6
<1>16. ASSUME MetaGroups(list) = {}, p = "Raw" PROVE Kept
  <2>1. raw' = raw \o list /\ structured' = structured /\ groups' = groups
    BY <1>7, <1>16 DEF OptimizePattern
  <2>2. raw' \in Seq(E) /\ Len(raw') = z + Len(list)
    BY <1>6, <1>8, <1>9, <2>1, ConcatProperties
  <2>3. \A t : CoveredBy(raw, t) \/ CoveredBy(list, t) => CoveredBy(raw', t)
    BY <1>6, <1>8, <2>1, CoveredByConcat
  <2>4. Len(structured') + Len(groups') + Len(raw') <= x + y + z + Len(list)
    BY <1>6, <1>9, <2>1, <2>2
  <2> QED BY <1>8, <2>1, <2>2, <2>3, <2>4
<1>17. ASSUME MetaGroups(list) = {}, p # "Raw" PROVE Kept
  <2>1. structured' = structured \o list /\ raw' = raw /\ groups' = groups
    BY <1>7, <1>17 DEF OptimizePattern
  <2>2. structured' \in Seq(E) /\ Len(structured') = x + Len(list)
    BY <1>6, <1>8, <1>9, <2>1, ConcatProperties
  <2>3. \A t : CoveredBy(structured, t) \/ CoveredBy(list, t) => CoveredBy(structured', t)
    BY <1>6, <1>8, <2>1, CoveredByConcat
  <2>4. Len(structured') + Len(groups') + Len(raw') <= x + y + z + Len(list)
    BY <1>6, <1>9, <2>1, <2>2
  <2> QED BY <1>8, <2>1, <2>2, <2>3, <2>4
<1>18. Kept
  BY <1>15, <1>16, <1>17
<1>19. ASSUME NEW t \in 0 .. pushed - 1
       PROVE  Held(t)'
  <2>1. Held(t)
    BY <1>2 DEF PushInv
  <2>2. CASE \E q \in Patterns : CoveredBy(byType[q], t)
    BY <1>5, <1>12, <1>18, <2>2 DEF Held
  <2>3. CASE CoveredBy(structured, t) \/ CoveredBy(groups, t) \/ CoveredBy(raw, t)
    BY <1>18, <2>3 DEF Held
  <2> QED BY <2>1, <2>2, <2>3 DEF Held
<1>20. Waiting(byType') + Len(structured') + Len(groups') + Len(raw') <= pushed'
  <2>1. PICK u \in Int, v \in Int, w \in Int : u = Len(structured') /\ v = Len(groups') /\ w = Len(raw')
    BY <1>18, LenProperties
  <2>2. u + v + w <= x + y + z + Len(list)
    BY <1>18, <2>1
  <2> QED BY <1>1, <1>2, <1>6, <1>10, <1>11, <2>1, <2>2
<1>21. PushInv'
  BY <1>1, <1>4, <1>12, <1>13, <1>14, <1>18, <1>19, <1>20 DEF PushInv
<1> QED BY <1>1, <1>2, <1>21 DEF CleanInv, NothingRead, AtStart

\* The platters split_platters makes: those of the two lists that are not empty.
LEMMA TwoPlatters ==
  ASSUME NEW a, NEW b, NEW useA \in BOOLEAN, NEW useB \in BOOLEAN, NEW ps,
         ps = LET head == IF useA THEN <<a>> ELSE <<>>
              IN  IF useB THEN Append(head, b) ELSE head
  PROVE  /\ Len(ps) \in Nat
         /\ \A q \in 1 .. Len(ps) : ps[q] = a \/ ps[q] = b
         /\ useA => \E q \in 1 .. Len(ps) : ps[q] = a
         /\ useB => \E q \in 1 .. Len(ps) : ps[q] = b
<1> DEFINE head == IF useA THEN <<a>> ELSE <<>>
<1> DEFINE S == {a, b}
<1>1. /\ head \in Seq(S) /\ Len(head) = IF useA THEN 1 ELSE 0
      /\ useA => head[1] = a
  <2>1. CASE useA
    <3>1. head = <<a>>
      BY <2>1
    <3>2. <<a>> \in Seq(S) /\ Len(<<a>>) = 1 /\ <<a>>[1] = a
      OBVIOUS
    <3> QED BY <2>1, <3>1, <3>2
  <2>2. CASE ~useA
    <3>1. head = <<>>
      BY <2>2
    <3> QED BY <2>2, <3>1
  <2> QED BY <2>1, <2>2
<1> HIDE DEF head
<1>2. CASE useB
  <2>1. ps = Append(head, b) /\ Len(head) \in Nat /\ b \in S
    BY <1>1, <1>2 DEF head
  <2>2. /\ Len(ps) = Len(head) + 1 /\ ps[Len(head) + 1] = b
        /\ \A i \in 1 .. Len(head) : ps[i] = head[i]
    BY <1>1, <2>1, AppendProperties
  <2>3. Len(ps) \in Nat /\ \A q \in 1 .. Len(ps) : q = Len(head) + 1 \/ q \in 1 .. Len(head)
    BY <2>1, <2>2
  <2>4. \A i \in 1 .. Len(head) : i = 1 /\ head[1] = a
    BY <1>1
  <2>5. \A q \in 1 .. Len(ps) : ps[q] = a \/ ps[q] = b
    BY <2>2, <2>3, <2>4
  <2>6. useA => 1 \in 1 .. Len(ps) /\ ps[1] = a
    BY <1>1, <2>2
  <2>7. Len(head) + 1 \in 1 .. Len(ps)
    BY <2>1, <2>2
  <2> QED BY <2>2, <2>3, <2>5, <2>6, <2>7
<1>3. CASE ~useB
  <2>1. ps = head
    BY <1>3 DEF head
  <2> QED BY <1>1, <1>3, <2>1
<1> QED BY <1>2, <1>3

\* A platter of fewer items than its count field holds.
LEMMA PlatterFits ==
  ASSUME NEW S, NEW list \in Seq(S), Len(list) < U16
  PROVE  Platter(list).count = Len(list) /\ Platter(list).items = list
<1>1. Len(list) \in Nat
  BY LenProperties
<1> QED BY <1>1, IndexFits DEF Platter

\* split_platters without a second analysis: every track is in one of the platters.
LEMMA SplitPlattersInv ==
  ASSUME IInv, Clean, SplitPlatters, Clean'
  PROVE  CleanInv'
<1>1. /\ phase = "push" /\ phase' = "header" /\ pushed = Count
      /\ \A p \in Patterns : byType[p] = <<>>
      /\ UNCHANGED <<file, sectors, cutAt, pl, read, tracks>>
  BY DEF SplitPlatters, decodeVars
<1>2. sectors \in Candidates /\ file.len > 0 /\ PushInv /\ NothingRead
  BY <1>1 DEF IInv, CleanInv
<1>3. Count \in Nat /\ Count < U16 /\ TrackIds = Ids(file, sectors) /\ U16 \in Nat
  BY <1>2, CountType, PltzAssumption
<1>4. PICK I : I = Items(file, sectors)
  OBVIOUS
<1>5. PICK first : first = structured \o groups
  OBVIOUS
<1>6. /\ structured \in Seq(I) /\ groups \in Seq(I) /\ raw \in Seq(I)
      /\ first \in Seq(I) /\ Len(first) = Len(structured) + Len(groups)
      /\ Len(structured) \in Nat /\ Len(groups) \in Nat /\ Len(raw) \in Nat
  <2>1. EntrySet(file, sectors) \subseteq I /\ GroupSet(file, sectors) \subseteq I
    BY <1>4 DEF Items
  <2>2. structured \in Seq(I) /\ groups \in Seq(I) /\ raw \in Seq(I)
    BY <1>2, <2>1, SeqMonotonic DEF PushInv
  <2> QED BY <1>5, <2>2, ConcatProperties, LenProperties
<1>7. Len(first) < U16 /\ Len(raw) < U16
  <2>1. Waiting(byType) = 0
    <3>1. \A p \in Patterns : Len(byType[p]) = 0
      BY <1>1
    <3>2. /\ Len(byType["Const"]) = 0 /\ Len(byType["Linear"]) = 0
          /\ Len(byType["Rle"]) = 0 /\ Len(byType["Repeat"]) = 0
          /\ Len(byType["LinearWide"]) = 0 /\ Len(byType["PiecewiseLinear"]) = 0
          /\ Len(byType["Raw"]) = 0
      BY <3>1 DEF Patterns
    <3> QED BY <3>2 DEF Waiting
  <2>2. Waiting(byType) + Len(structured) + Len(groups) + Len(raw) <= pushed
    BY <1>2 DEF PushInv
  <2>3. PICK x \in Nat, y \in Nat, z \in Nat : x = Len(structured) /\ y = Len(groups) /\ z = Len(raw)
    BY <1>6
  <2>4. x + y + z <= pushed
    BY <2>1, <2>2, <2>3
  <2> QED BY <1>1, <1>3, <1>6, <2>3, <2>4
<1>8. \A t \in TrackIds : CoveredBy(first, t) \/ CoveredBy(raw, t)
  <2>1. ASSUME NEW t \in TrackIds PROVE CoveredBy(first, t) \/ CoveredBy(raw, t)
    <3>1. t \in 0 .. pushed - 1
      BY <1>1 DEF TrackIds
    <3>2. Held(t)
      BY <1>2, <3>1 DEF PushInv
    <3>3. \A p \in Patterns : ~CoveredBy(byType[p], t)
      BY <1>1 DEF CoveredBy
    <3>4. CoveredBy(structured, t) \/ CoveredBy(groups, t) \/ CoveredBy(raw, t)
      BY <3>2, <3>3 DEF Held
    <3> QED BY <1>5, <1>6, <3>4, CoveredByConcat
  <2> QED BY <2>1
<1>9. PICK ps : stream' = [len |-> file.len, platters |-> ps]
                /\ ps = LET head == IF first # <<>> THEN <<Platter(first)>> ELSE <<>>
                        IN  IF raw # <<>> THEN Append(head, Platter(raw)) ELSE head
  <2>1. ~reanalyzed'
    BY DEF Clean
  <2> QED BY <1>5, <2>1 DEF SplitPlatters
<1>10. /\ Len(ps) \in Nat
       /\ \A q \in 1 .. Len(ps) : ps[q] = Platter(first) \/ ps[q] = Platter(raw)
       /\ first # <<>> => \E q \in 1 .. Len(ps) : ps[q] = Platter(first)
       /\ raw # <<>> => \E q \in 1 .. Len(ps) : ps[q] = Platter(raw)
  <2>1. (first # <<>>) \in BOOLEAN /\ (raw # <<>>) \in BOOLEAN
    OBVIOUS
  <2> QED BY <1>9, <2>1, TwoPlatters
<1>11. /\ Platter(first).count = Len(first) /\ Platter(first).items = first
       /\ Platter(raw).count = Len(raw) /\ Platter(raw).items = raw
  BY <1>6, <1>7, PlatterFits
<1>12. \A q \in 1 .. Len(ps) : ps[q].items \in Seq(I) /\ ps[q].count = Len(ps[q].items)
  BY <1>6, <1>10, <1>11
<1>13. ASSUME NEW t \in TrackIds
       PROVE  \E q \in 1 .. Len(ps) : CoveredBy(ps[q].items, t)
  <2>1. CASE CoveredBy(first, t)
    <3>1. first # <<>>
      BY <2>1 DEF CoveredBy
    <3> QED BY <1>10, <1>11, <2>1, <3>1
  <2>2. CASE CoveredBy(raw, t)
    <3>1. raw # <<>>
      BY <2>2 DEF CoveredBy
    <3> QED BY <1>10, <1>11, <2>2, <3>1
  <2> QED BY <1>8, <2>1, <2>2
<1>14. StreamInv'
  BY <1>1, <1>4, <1>9, <1>10, <1>12, <1>13 DEF StreamInv, ItemsOf, TrackIds, Count
<1> QED BY <1>1, <1>2, <1>14 DEF CleanInv, NothingRead, AtStart, CutInv

-----------------------------------------------------------------------------
(* decode *)

\* CutShort: the place lies ahead, since nothing is read yet.
LEMMA CutShortInv ==
  ASSUME IInv, Clean, CutShort
  PROVE  CleanInv'
<1>1. phase = "header" /\ cutAt' \in Places
      /\ UNCHANGED <<file, phase, sectors, stream, pl, read, tracks>>
  BY DEF CutShort, encodeVars
<1>2. AtStart /\ AtStart'
  BY <1>1 DEF IInv, CleanInv, AtStart
<1>3. CASE file.len = 0 /\ stream.len = 0 /\ stream.platters = <<>>
  <2>1. cutAt' = <<0, 0>>
    BY <1>1, <1>3 DEF Places
  <2> QED BY <1>1, <1>2, <1>3, <2>1 DEF CleanInv
<1>4. CASE file.len > 0 /\ sectors \in Candidates /\ StreamInv
  <2>1. StreamInv'
    BY <1>1, <1>4 DEF StreamInv, ItemsOf, TrackIds, Count
  <2>2. ASSUME cutAt' # <<0, 0>> PROVE CutInv'
    <3>1. PICK q \in DOMAIN stream.platters : \E k \in 0 .. Len(ItemsOf(q)) : cutAt' = <<q, k>>
      BY <1>1, <2>2 DEF Places, ItemsOf
    <3>2. PICK k \in 0 .. Len(ItemsOf(q)) : cutAt' = <<q, k>>
      BY <3>1
    <3>3. q \in pl .. Len(stream.platters)
      BY <1>2, <1>4, <3>1 DEF AtStart, StreamInv
    <3>4. k = 0 \/ read < k
      BY <1>2, <3>2 DEF AtStart
    <3> QED BY <1>1, <3>2, <3>3, <3>4 DEF CutInv, ItemsOf
  <2> QED BY <1>1, <1>2, <1>4, <2>1, <2>2 DEF CleanInv
<1> QED BY <1>1, <1>3, <1>4 DEF IInv, CleanInv

\* ReadHeader: all tracks are missing and to come.
LEMMA ReadHeaderInv ==
  ASSUME IInv, Clean, ReadHeader
  PROVE  CleanInv'
<1>1. phase = "header" /\ UNCHANGED <<file, sectors, stream, cutAt, pl, read>>
  BY DEF ReadHeader, encodeVars
<1>2. /\ AtStart
      /\ \/ file.len = 0 /\ stream.len = 0 /\ cutAt \in {<<>>, <<0, 0>>}
         \/ file.len > 0 /\ sectors \in Candidates /\ StreamInv /\ (cutAt = <<0, 0>> \/ CutInv)
  BY <1>1 DEF IInv, CleanInv
<1>5. CASE cutAt = <<0, 0>>
  <2>1. phase' = "done" /\ result' = Failed /\ cutAt' # <<>>
    BY <1>1, <1>5 DEF ReadHeader
  <2>2. Failed' = Failed
    BY DEF Failed
  <2> QED BY <1>1, <2>1, <2>2 DEF CleanInv
<1>3. CASE cutAt = <<>> /\ file.len = 0 /\ stream.len = 0
  <2>1. phase' = "done" /\ result' = [ok |-> TRUE, data |-> [len |-> 0, cell |-> <<>>]]
        /\ cutAt' = <<>>
    BY <1>1, <1>3 DEF ReadHeader
  <2>2. file \in Files
    BY DEF IInv, TypeOK
  <2>3. file.cell = <<>>
    <3>1. file.cell \in [0 .. -1 -> Nat]
      BY <1>3, <2>2, FileShape
    <3>2. <<>> \in [0 .. -1 -> Nat]
      OBVIOUS
    <3> QED BY <3>1, <3>2
  <2>4. [len |-> 0, cell |-> <<>>] = file
    BY <1>3, <2>2, <2>3, FileShape
  <2> QED BY <1>1, <2>1, <2>4 DEF CleanInv
<1>4. CASE cutAt # <<0, 0>> /\ file.len > 0 /\ sectors \in Candidates /\ StreamInv /\ CutInv
  <2>1. file \in Files /\ stream.len = file.len /\ file.len # 0
    BY <1>4, FileShape DEF IInv, TypeOK, StreamInv
  <2>2. phase' = "entries" /\ tracks' = [t \in TrackIds |-> None]
    BY <1>4, <2>1 DEF ReadHeader, TrackIds, Count
  <2>3. TrackIds' = TrackIds /\ StreamInv'
    BY <1>1, <1>4 DEF StreamInv, ItemsOf, TrackIds, Count
  <2>4. ASSUME NEW t \in TrackIds PROVE Unread(t)'
    <3>1. PICK q \in 1 .. Len(stream.platters) : CoveredBy(ItemsOf(q), t)
      BY <1>4 DEF StreamInv
    <3>2. PICK k \in DOMAIN ItemsOf(q) : Covers(ItemsOf(q)[k], t)
      BY <3>1 DEF CoveredBy
    <3>3. k \in 1 .. Len(ItemsOf(q))
      BY <1>4, <3>1, LenProperties DEF StreamInv
    <3> QED BY <1>1, <1>2, <3>1, <3>2, <3>3 DEF Unread, ItemsOf, AtStart
  <2>5. Len(stream.platters) \in Nat
    BY <1>4 DEF StreamInv
  <2>6. pl' \in 1 .. Len(stream'.platters) + 1
    BY <1>1, <1>2, <2>5 DEF AtStart
  <2>7. pl' <= Len(stream'.platters) => read' <= Len(ItemsOf(pl)')
    <3>1. ASSUME pl <= Len(stream.platters) PROVE 0 <= Len(ItemsOf(pl))
      <4>1. pl \in 1 .. Len(stream.platters)
        BY <1>2, <2>5, <3>1 DEF AtStart
      <4> QED BY <1>4, <4>1, LenProperties DEF StreamInv
    <3> QED BY <1>1, <1>2, <3>1 DEF AtStart, ItemsOf
  <2>8. ReadInv'
    BY <2>2, <2>3, <2>4, <2>6, <2>7 DEF ReadInv
  <2>9. CutInv'
    BY <1>1, <1>4 DEF CutInv, ItemsOf
  <2> QED BY <1>1, <1>4, <2>2, <2>3, <2>8, <2>9 DEF CleanInv
<1> QED BY <1>2, <1>3, <1>4, <1>5

\* The next item of a stream the encoder made is one of the file's.
LEMMA NextItem ==
  ASSUME IInv, Clean, ReadEntry
  PROVE  LET item == stream.platters[pl].items[read + 1]
         IN  /\ file \in Files /\ sectors \in Candidates /\ file.len > 0 /\ StreamInv /\ ReadInv
             /\ TrackIds = Ids(file, sectors) /\ \A t \in TrackIds : t \in Nat /\ t % U16 = t
             /\ pl \in 1 .. Len(stream.platters) /\ read \in Nat
             /\ read + 1 \in 1 .. Len(ItemsOf(pl)) /\ item = ItemsOf(pl)[read + 1]
             /\ item \in Items(file, sectors)
<1>1. phase = "entries" /\ pl <= Len(stream.platters) /\ read < stream.platters[pl].count
  BY DEF ReadEntry
<1>2. sectors \in Candidates /\ file.len > 0 /\ StreamInv /\ ReadInv /\ read \in Nat
  BY <1>1 DEF IInv, TypeOK, CleanInv
<1>3. pl \in 1 .. Len(stream.platters)
  BY <1>1, <1>2 DEF ReadInv, StreamInv
<1>4. ItemsOf(pl) \in Seq(Items(file, sectors)) /\ stream.platters[pl].count = Len(ItemsOf(pl))
  BY <1>2, <1>3 DEF StreamInv
<1>5. /\ read + 1 \in 1 .. Len(ItemsOf(pl))
      /\ ItemsOf(pl)[read + 1] \in Items(file, sectors)
  <2>1. Len(ItemsOf(pl)) \in Nat
    BY <1>4, LenProperties
  <2>2. read + 1 \in 1 .. Len(ItemsOf(pl))
    BY <1>1, <1>2, <1>4, <2>1
  <2> QED BY <1>4, <2>2, ElementOfSeq
<1>6. /\ file \in Files /\ TrackIds = Ids(file, sectors)
      /\ \A t \in TrackIds : t \in Nat /\ t % U16 = t
  <2>1. /\ file \in Files /\ TrackIds = Ids(file, sectors)
        /\ Count \in Nat /\ Count < U16 /\ U16 \in Nat
    BY <1>2, CountType, PltzAssumption
  <2>2. \A t \in TrackIds : t \in Nat /\ t < U16
    BY <2>1 DEF TrackIds
  <2> QED BY <2>1, <2>2, IndexFits
<1> QED BY <1>2, <1>3, <1>5, <1>6 DEF ItemsOf

\* Storing an item of the file stores the tracks it covers as they are in the file, and
\* no others.
LEMMA StoredExactly ==
  ASSUME NEW item \in Items(file, sectors), file \in Files, sectors \in Candidates,
         DOMAIN tracks = TrackIds, TrackIds = Ids(file, sectors),
         \A t \in TrackIds : t \in Nat /\ t % U16 = t
  PROVE  /\ IsReadable(item)
         /\ DOMAIN Stored(item) = TrackIds
         /\ \A t \in TrackIds :
              Stored(item)[t] = IF Covers(item, t) THEN TrackAt(file, sectors, t) ELSE tracks[t]
<1>1. CASE item \in EntrySet(file, sectors)
  <2>1. PICK u \in Ids(file, sectors) : item = Entry(file, sectors, u)
    BY <1>1 DEF EntrySet
  <2>2. /\ item.kind = "Track" /\ item.at = u /\ item.idx = u /\ item.spt = sectors
        /\ item.cells = TrackAt(file, sectors, u)
    BY <2>1, EntryShape
  <2>3. \A t : Covers(item, t) <=> u = t
    BY <2>2 DEF Covers
  <2> QED BY <2>2, <2>3 DEF IsReadable, Stored, TrackOf
<1>2. CASE item \in GroupSet(file, sectors)
  <2>1. /\ item.kind = "Meta" /\ item.spt = sectors /\ DOMAIN item.idx = DOMAIN item.at
        /\ \A k \in DOMAIN item.at :
             /\ item.at[k] \in TrackIds /\ item.idx[k] = item.at[k]
             /\ SentTrack(item, sectors, k) = TrackAt(file, sectors, item.at[k])
        /\ \A j, k \in DOMAIN item.at : item.at[j] = item.at[k] => j = k
    BY <1>2 DEF GroupSet, IsExactGroup
  <2>2. \A k \in DOMAIN item.at : GroupTrackOf(item, k) = SentTrack(item, sectors, k)
    BY <2>1 DEF GroupTrackOf, SentTrack, TrackOf
  <2>3. DOMAIN Stored(item) = TrackIds
    BY <2>1 DEF Stored
  <2>4. ASSUME NEW t \in TrackIds
        PROVE  Stored(item)[t] = IF Covers(item, t) THEN TrackAt(file, sectors, t) ELSE tracks[t]
    <3>1. PICK at : at = {k \in DOMAIN item.idx : item.idx[k] = t}
      OBVIOUS
    <3>2. Stored(item)[t] = IF at = {} THEN tracks[t]
                            ELSE GroupTrackOf(item, CHOOSE k \in at : \A j \in at : j <= k)
      BY <2>1, <3>1 DEF Stored
    <3>3. Covers(item, t) <=> at # {}
      BY <2>1, <3>1 DEF Covers
    <3>4. ASSUME at # {}
          PROVE  GroupTrackOf(item, CHOOSE k \in at : \A j \in at : j <= k)
                   = TrackAt(file, sectors, t)
      <4>1. PICK k0 \in at : \A j \in at : j = k0
        BY <2>1, <3>1, <3>4
      <4>2. k0 \in Int
        <5>1. PICK list \in Seq(EntrySet(file, sectors)), sub \in {"AllSame", "ConstLinear"}, d \in Int : item = Group(list, sub, d)
          BY <1>2 DEF GroupSet, AnyGroup
        <5>2. DOMAIN item.idx = 1 .. Len(list) /\ Len(list) \in Nat
          BY <5>1, LenProperties DEF Group
        <5> QED BY <3>1, <4>1, <5>2
      <4>3. (CHOOSE k \in at : \A j \in at : j <= k) = k0
        <5>1. k0 \in at /\ \A j \in at : j <= k0
          BY <4>1, <4>2
        <5>2. (CHOOSE k \in at : \A j \in at : j <= k) \in at
          BY <5>1, Zenon
        <5> QED BY <4>1, <5>2
      <4>4. k0 \in DOMAIN item.at /\ item.at[k0] = t
        BY <2>1, <3>1, <4>1
      <4>5. GroupTrackOf(item, k0) = TrackAt(file, sectors, t)
        BY <2>1, <2>2, <4>4
      <4> QED BY <4>3, <4>5
    <3> QED BY <3>2, <3>3, <3>4
  <2> QED BY <2>1, <2>3, <2>4 DEF IsReadable
<1> QED BY <1>1, <1>2 DEF Items

\* ReadEntry: what it does on a clean stream.
LEMMA ReadEntryStores ==
  ASSUME IInv, Clean, ReadEntry
  PROVE  LET item == ItemsOf(pl)[read + 1]
         IN  /\ phase' = "entries" /\ read' = read + 1 /\ pl' = pl
             /\ UNCHANGED <<file, sectors, stream>>
             /\ DOMAIN tracks' = TrackIds
             /\ \A t \in TrackIds :
                  tracks'[t] = IF Covers(item, t) THEN TrackAt(file, sectors, t) ELSE tracks[t]
<1>1. PICK item : item = stream.platters[pl].items[read + 1]
  OBVIOUS
<1>2. /\ item \in Items(file, sectors) /\ item = ItemsOf(pl)[read + 1]
      /\ file \in Files /\ sectors \in Candidates /\ ReadInv /\ TrackIds = Ids(file, sectors)
      /\ \A t \in TrackIds : t \in Nat /\ t % U16 = t
  BY <1>1, NextItem
<1>3. /\ IsReadable(item) /\ DOMAIN Stored(item) = TrackIds
      /\ \A t \in TrackIds :
           Stored(item)[t] = IF Covers(item, t) THEN TrackAt(file, sectors, t) ELSE tracks[t]
  BY <1>2, StoredExactly DEF ReadInv
<1>4. /\ tracks' = Stored(item) /\ read' = read + 1 /\ phase' = phase /\ phase = "entries"
      /\ UNCHANGED <<file, sectors, stream, pl>>
  BY <1>1, <1>3 DEF ReadEntry, encodeVars
<1> QED BY <1>2, <1>3, <1>4

\* ReadEntry: a track is stored, or stays to come in a later item.
LEMMA ReadEntryInv ==
  ASSUME IInv, Clean, ReadEntry
  PROVE  CleanInv'
<1>1. PICK item : item = ItemsOf(pl)[read + 1]
  OBVIOUS
<1>2. /\ sectors \in Candidates /\ file.len > 0 /\ StreamInv /\ ReadInv
      /\ pl \in 1 .. Len(stream.platters) /\ read \in Nat
      /\ read + 1 \in 1 .. Len(ItemsOf(pl))
  BY NextItem
<1>3. /\ phase' = "entries" /\ read' = read + 1 /\ pl' = pl
      /\ UNCHANGED <<file, sectors, stream>>
      /\ DOMAIN tracks' = TrackIds
      /\ \A t \in TrackIds :
           tracks'[t] = IF Covers(item, t) THEN TrackAt(file, sectors, t) ELSE tracks[t]
  BY <1>1, ReadEntryStores
<1>4. StreamInv' /\ TrackIds' = TrackIds
  BY <1>2, <1>3 DEF StreamInv, ItemsOf, TrackIds, Count
<1>5. \A t \in TrackIds : tracks'[t] \in {None, TrackAt(file, sectors, t)}
  BY <1>2, <1>3 DEF ReadInv
<1>6. ASSUME NEW t \in TrackIds
      PROVE  tracks'[t] = TrackAt(file, sectors, t) \/ Unread(t)'
  <2>1. CASE Covers(item, t)
    BY <1>3, <2>1
  <2>2. CASE ~Covers(item, t) /\ tracks[t] = TrackAt(file, sectors, t)
    BY <1>3, <2>2
  <2>3. CASE ~Covers(item, t) /\ Unread(t)
    <3>1. PICK q \in pl .. Len(stream.platters) :
            \E k \in DOMAIN ItemsOf(q) : (q = pl => read < k) /\ Covers(ItemsOf(q)[k], t)
      BY <2>3 DEF Unread
    <3>2. PICK k \in DOMAIN ItemsOf(q) : (q = pl => read < k) /\ Covers(ItemsOf(q)[k], t)
      BY <3>1
    <3>3. ItemsOf(q) \in Seq(Items(file, sectors))
      BY <1>2, <3>2 DEF StreamInv
    <3>4. k \in Nat
      BY <3>2, <3>3, LenProperties
    <3>5. q = pl => k # read + 1
      BY <1>1, <2>3, <3>2
    <3>6. q = pl => read' < k
      BY <1>2, <1>3, <3>2, <3>4, <3>5
    <3> QED BY <1>3, <3>2, <3>6 DEF Unread, ItemsOf
  <2> QED BY <1>2, <2>1, <2>2, <2>3 DEF ReadInv
<1>7. pl' \in 1 .. Len(stream'.platters) + 1 /\ read' <= Len(ItemsOf(pl)')
  <2>1. Len(ItemsOf(pl)) \in Nat
    BY <1>2, LenProperties DEF StreamInv
  <2> QED BY <1>2, <1>3, <2>1 DEF ReadInv, ItemsOf
<1>8. ReadInv'
  BY <1>3, <1>4, <1>5, <1>6, <1>7 DEF ReadInv
<1>9. CutInv'
  <2>1. CutInv /\ cutAt' = cutAt /\ cutAt # <<pl, read + 1>>
    BY DEF ReadEntry, IInv, CleanInv
  <2>2. ASSUME cutAt # <<>>
        PROVE  \E q \in pl .. Len(stream.platters) : \E k \in 0 .. Len(ItemsOf(q)) :
                 cutAt = <<q, k>> /\ (q = pl => k = 0 \/ read + 1 < k)
    <3>1. PICK q \in pl .. Len(stream.platters) : \E k \in 0 .. Len(ItemsOf(q)) :
            cutAt = <<q, k>> /\ (q = pl => k = 0 \/ read < k)
      BY <2>1, <2>2 DEF CutInv
    <3>2. PICK k \in 0 .. Len(ItemsOf(q)) : cutAt = <<q, k>> /\ (q = pl => k = 0 \/ read < k)
      BY <3>1
    <3>3. q = pl => k # read + 1
      BY <2>1, <3>2
    <3>4. q = pl => k = 0 \/ read + 1 < k
      BY <1>2, <3>2, <3>3
    <3> QED BY <3>2, <3>4
  <2> QED BY <1>3, <2>1, <2>2 DEF CutInv, ItemsOf
<1> QED BY <1>2, <1>3, <1>4, <1>8, <1>9 DEF CleanInv

\* ReadTruncated: only of a file that is not whole.
LEMMA ReadTruncatedInv ==
  ASSUME IInv, Clean, ReadTruncated
  PROVE  CleanInv'
<1>1. phase' = "done" /\ result' = Failed /\ cutAt' = cutAt /\ cutAt # <<>>
  BY DEF ReadTruncated
<1>2. Failed' = Failed
  BY DEF Failed
<1> QED BY <1>1, <1>2 DEF CleanInv

\* NextPlatter: the platter was read to its end, and what is to come is in a later one.
LEMMA NextPlatterInv ==
  ASSUME IInv, Clean, NextPlatter
  PROVE  CleanInv'
<1>1. /\ phase = "entries" /\ pl <= Len(stream.platters) /\ read = stream.platters[pl].count
      /\ UNCHANGED <<file, sectors, stream, tracks>>
  BY DEF NextPlatter, encodeVars
<1>2. sectors \in Candidates /\ file.len > 0 /\ StreamInv /\ ReadInv
  BY <1>1 DEF IInv, CleanInv
<1>3. Len(stream.platters) \in Nat /\ pl \in 1 .. Len(stream.platters)
  BY <1>1, <1>2 DEF ReadInv, StreamInv
<1>4. ItemsOf(pl) \in Seq(Items(file, sectors)) /\ read = Len(ItemsOf(pl))
  BY <1>1, <1>2, <1>3 DEF StreamInv
<1>5. phase' = "entries" /\ pl' = pl + 1 /\ read' = 0
  BY <1>1, <1>4 DEF NextPlatter, ItemsOf
<1>6. StreamInv' /\ TrackIds' = TrackIds
  BY <1>1, <1>2 DEF StreamInv, ItemsOf, TrackIds, Count
<1>7. ASSUME NEW t \in TrackIds, Unread(t)
      PROVE  Unread(t)'
  <2>1. PICK q \in pl .. Len(stream.platters) :
          \E k \in DOMAIN ItemsOf(q) : (q = pl => read < k) /\ Covers(ItemsOf(q)[k], t)
    BY <1>7 DEF Unread
  <2>2. PICK k \in DOMAIN ItemsOf(q) : (q = pl => read < k) /\ Covers(ItemsOf(q)[k], t)
    BY <2>1
  <2>3. ItemsOf(q) \in Seq(Items(file, sectors))
    BY <1>2, <1>3, <2>2 DEF StreamInv
  <2>4. k \in 1 .. Len(ItemsOf(q)) /\ Len(ItemsOf(q)) \in Nat
    BY <2>2, <2>3, LenProperties
  <2>5. q # pl
    BY <1>4, <2>2, <2>4
  <2>6. q \in pl + 1 .. Len(stream.platters) /\ 0 < k
    BY <1>3, <2>2, <2>4, <2>5
  <2> QED BY <1>1, <1>5, <2>2, <2>6 DEF Unread, ItemsOf
<1>8. pl' \in 1 .. Len(stream'.platters) + 1
  BY <1>1, <1>3, <1>5
<1>9. pl' <= Len(stream'.platters) => read' <= Len(ItemsOf(pl)')
  <2>1. ASSUME pl + 1 <= Len(stream.platters) PROVE 0 <= Len(ItemsOf(pl + 1))
    <3>1. pl + 1 \in 1 .. Len(stream.platters)
      BY <1>3, <2>1
    <3> QED BY <1>2, <3>1, LenProperties DEF StreamInv
  <2> QED BY <1>1, <1>5, <2>1 DEF ItemsOf
<1>10. ReadInv'
  BY <1>1, <1>2, <1>6, <1>7, <1>8, <1>9 DEF ReadInv
<1>11. CutInv'
  <2>1. CutInv /\ cutAt' = cutAt /\ cutAt # <<pl, 0>>
    BY DEF NextPlatter, IInv, CleanInv
  <2>2. ASSUME cutAt # <<>>
        PROVE  \E q \in pl + 1 .. Len(stream.platters) : \E k \in 0 .. Len(ItemsOf(q)) :
                 cutAt = <<q, k>> /\ (k = 0 \/ 0 < k)
    <3>1. PICK q \in pl .. Len(stream.platters) : \E k \in 0 .. Len(ItemsOf(q)) :
            cutAt = <<q, k>> /\ (q = pl => k = 0 \/ read < k)
      BY <2>1, <2>2 DEF CutInv
    <3>2. PICK k \in 0 .. Len(ItemsOf(q)) : cutAt = <<q, k>> /\ (q = pl => k = 0 \/ read < k)
      BY <3>1
    <3>3. Len(ItemsOf(pl)) \in Nat
      BY <1>4, LenProperties
    <3>4. q # pl
      BY <1>4, <2>1, <3>2, <3>3
    <3>5. q \in pl + 1 .. Len(stream.platters)
      BY <1>3, <3>1, <3>4
    <3> QED BY <3>2, <3>5
  <2> QED BY <1>1, <1>5, <2>1, <2>2 DEF CutInv, ItemsOf
<1> QED BY <1>1, <1>2, <1>5, <1>6, <1>10, <1>11 DEF CleanInv

\* Assemble: no track is to come, so all are there, and the file is whole.
LEMMA AssembleInv ==
  ASSUME IInv, Clean, Assemble
  PROVE  CleanInv'
<1>1. phase = "entries" /\ phase' = "done" /\ pl > Len(stream.platters) /\ file' = file
  BY DEF Assemble
<1>2. sectors \in Candidates /\ file.len > 0 /\ StreamInv /\ ReadInv
  BY <1>1 DEF IInv, CleanInv
<1>3. file \in Files /\ TrackIds = Ids(file, sectors)
  BY <1>2, CountType
<1>4. \A t \in TrackIds : ~Unread(t)
  <2>1. Len(stream.platters) \in Nat /\ pl \in Nat
    BY <1>2 DEF ReadInv, StreamInv, IInv, TypeOK
  <2>2. pl .. Len(stream.platters) = {}
    BY <1>1, <2>1
  <2> QED BY <2>2 DEF Unread
<1>5. \A t \in TrackIds : tracks[t] = TrackAt(file, sectors, t) /\ tracks[t] # None
  BY <1>2, <1>3, <1>4, TrackType DEF ReadInv
<1>6. result' = [ok |-> TRUE,
                 data |-> [len |-> stream.len,
                           cell |-> [i \in 0 .. stream.len - 1 |->
                                       tracks[i \div sectors][i % sectors]]]]
  BY <1>2, <1>5 DEF Assemble, ReadInv
<1>7. result'.data = file /\ result' = [ok |-> TRUE, data |-> result'.data]
  <2>1. stream.len = file.len
    BY <1>2 DEF StreamInv
  <2> QED BY <1>2, <1>3, <1>5, <1>6, <2>1, TracksAreFile
<1>8. cutAt' = <<>>
  <2>1. CutInv /\ cutAt' = cutAt
    BY <1>1 DEF Assemble, IInv, CleanInv
  <2>2. pl .. Len(stream.platters) = {}
    BY <1>1, <1>2 DEF ReadInv, StreamInv, IInv, TypeOK
  <2> QED BY <2>1, <2>2 DEF CutInv
<1> QED BY <1>1, <1>7, <1>8 DEF CleanInv

-----------------------------------------------------------------------------
(* The theorems *)

\* Every step preserves the invariant.
LEMMA NextIInv == IInv /\ [Next]_vars => IInv'
<1> SUFFICES ASSUME IInv, [Next]_vars PROVE IInv'
  OBVIOUS
<1>1. TypeOK'
  BY TypeStep DEF IInv
<1>2. phase' = "geometry" => sectors' = None
  BY DEF IInv, Next, vars, EncodeEmpty, ChooseGeometry, AnalyzeTrack, Collect, Push,
         OptimizePattern, SplitPlatters, CutShort, ReadHeader, ReadEntry, ReadTruncated, NextPlatter,
         Assemble
<1>3. ASSUME Clean' PROVE CleanInv'
  <2>1. Clean
    BY <1>3, CleanBefore
  <2>2. CASE UNCHANGED vars
    BY <2>1, <2>2 DEF vars, encodeVars, decodeVars, IInv, CleanInv, NothingPushed, NothingRead, AtStart,
                      PushInv, StreamInv, ReadInv, CutInv, Failed, ItemsOf, Unread, Held, EncOf, TrackIds, Count
  <2>3. ASSUME NEW t \in DOMAIN enc, AnalyzeTrack(t) PROVE CleanInv'
    BY <2>1, <2>3, AnalyzeTrackInv
  <2>4. ASSUME NEW p \in Patterns, OptimizePattern(p) PROVE CleanInv'
    BY <2>1, <2>4, OptimizePatternInv
  <2> QED BY <1>3, <2>1, <2>2, <2>3, <2>4, EncodeEmptyInv, ChooseGeometryInv, CollectInv,
             PushInvStep, SplitPlattersInv, CutShortInv, ReadHeaderInv, ReadEntryInv,
             ReadTruncatedInv, NextPlatterInv, AssembleInv DEF Next
<1> QED BY <1>1, <1>2, <1>3 DEF IInv

\* The invariant holds throughout.
LEMMA Invariance == Spec => []IInv
BY InitIInv, NextIInv, PTL DEF Spec

(* decode gives back what encode was given, whatever the sector sizes, the order of the *)
(* workers and of the HashMap, unless the raw platter was analysed again in another     *)
(* geometry or the tracks outnumber the index field.                                    *)
THEOREM AlwaysLossless == Spec => []LosslessWhenClean
<1>1. IInv => LosslessWhenClean
  BY DEF IInv, CleanInv, LosslessWhenClean
<1> QED BY <1>1, Invariance, PTL

(* Every item of the stream stores the tracks it stands for as they are in the file, so  *)
(* that none is ever stored over with another.                                           *)
THEOREM NeverStoredOver == Spec => TrackStoredOnce
<1> DEFINE Keeps == \A t \in DOMAIN tracks : Clean /\ tracks[t] # None => tracks'[t] = tracks[t]
<1>1. ASSUME IInv, [Next]_vars PROVE [Keeps]_vars
  <2> SUFFICES ASSUME Clean, Next, NEW t \in DOMAIN tracks, tracks[t] # None
               PROVE  tracks'[t] = tracks[t]
    BY <1>1
  <2>1. CASE ReadEntry
    <3>1. PICK item : item = ItemsOf(pl)[read + 1]
      OBVIOUS
    <3>2. ReadInv
      BY <1>1, <2>1, NextItem
    <3>3. t \in TrackIds /\ tracks[t] = TrackAt(file, sectors, t)
      BY <3>2 DEF ReadInv
    <3>4. tracks'[t] = IF Covers(item, t) THEN TrackAt(file, sectors, t) ELSE tracks[t]
      BY <1>1, <2>1, <3>1, <3>3, ReadEntryStores
    <3> QED BY <3>3, <3>4
  <2>2. CASE ReadHeader
    <3>1. phase = "header"
      BY <2>2 DEF ReadHeader
    <3>2. tracks = <<>>
      BY <1>1, <3>1 DEF IInv, CleanInv, AtStart
    <3> QED BY <3>2
  <2>3. CASE ~ReadEntry /\ ~ReadHeader
    <3>1. tracks' = tracks
      BY <2>3 DEF Next, encodeVars, decodeVars, EncodeEmpty, ChooseGeometry, AnalyzeTrack,
                  Collect, Push, OptimizePattern, SplitPlatters, CutShort, ReadTruncated,
                  NextPlatter, Assemble
    <3> QED BY <3>1
  <2> QED BY <2>1, <2>2, <2>3
<1>2. IInv /\ [Next]_vars => [Keeps]_vars
  BY <1>1
<1> QED BY <1>2, Invariance, PTL DEF Spec, TrackStoredOnce

(* While Clean, every step of encoder, workers, writer and decoder is a step of          *)
(* LosslessChannel or leaves it as it was: damage comes before the answer, and the one   *)
(* answer is the data, or an error if the file was cut.                                  *)
THEOREM ImplementsChannel ==
  Spec /\ []Clean => Channel!Init /\ [][Channel!Next]_(Channel!vars)
<1> DEFINE intact == cutAt = <<>>
<1>1. Init => Channel!Init
  BY DEF Init, Channel!Init, Answered
<1>2. ASSUME IInv, Clean, Clean', [Next]_vars
      PROVE  [Channel!Next]_(Channel!vars)
  <2>1. CASE UNCHANGED vars
    <3>1. UNCHANGED <<file, intact, Answered>>
      BY <2>1 DEF vars, decodeVars, Answered, Failed
    <3> QED BY <3>1 DEF Channel!vars
  <2>2. CASE CutShort
    <3>1. phase = "header" /\ phase' = "header" /\ file' = file /\ intact
      BY <2>2 DEF CutShort
    <3>2. cutAt' # <<>>
      BY <2>2 DEF CutShort, Places
    <3>3. Answered = None /\ Answered' = None
      BY <3>1 DEF Answered
    <3>4. Channel!Damage
      BY <3>1, <3>2, <3>3 DEF Channel!Damage
    <3> QED BY <3>4 DEF Channel!Next
  <2>3. CASE Next /\ ~CutShort
    <3>1. phase # "done" /\ UNCHANGED <<file, cutAt>>
      BY <2>3 DEF Next, decodeVars, EncodeEmpty, ChooseGeometry, AnalyzeTrack, Collect, Push,
                  OptimizePattern, SplitPlatters, ReadHeader, ReadEntry, ReadTruncated,
                  NextPlatter, Assemble
    <3>2. Answered = None
      BY <3>1 DEF Answered
    <3>3. CASE phase' # "done"
      <4>1. Answered' = None
        BY <3>3 DEF Answered
      <4> QED BY <3>1, <3>2, <4>1 DEF Channel!vars
    <3>4. CASE phase' = "done"
      <4>1. IInv'
        BY <1>2, NextIInv
      <4>2. result' = IF intact THEN [ok |-> TRUE, data |-> file] ELSE Failed
        <5>1. result' = IF cutAt' = <<>> THEN [ok |-> TRUE, data |-> file'] ELSE Failed'
          BY <1>2, <3>4, <4>1 DEF IInv, CleanInv
        <5> QED BY <3>1, <5>1 DEF Failed
      <4>3. Answered' = IF intact THEN file ELSE Failed
        BY <3>4, <4>2 DEF Answered, Failed
      <4>4. Channel!Answer
        BY <3>1, <3>2, <4>3 DEF Channel!Answer
      <4> QED BY <4>4 DEF Channel!Next
    <3> QED BY <3>3, <3>4
  <2> QED BY <1>2, <2>1, <2>2, <2>3
<1>3. IInv /\ Clean /\ Clean' /\ [Next]_vars => [Channel!Next]_(Channel!vars)
  BY <1>2
<1> QED BY <1>1, <1>3, Invariance, PTL DEF Spec
=============================================================================
