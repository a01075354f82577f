------------------------------- MODULE Pltz --------------------------------
(***************************************************************************)
(* The PLTZ container: rust/src/codec.rs encode and decode, with the       *)
(* layout of platter.rs, analyze_platter of analyzer.rs and                *)
(* cross_track_optimize of cross_track.rs.                                 *)
(*                                                                         *)
(* Data is measured in cells of CellBytes bytes, the smallest sector size. *)
(* A cell below ConstCells holds that byte value CellBytes times; a cell   *)
(* below RampCells is a steep arithmetic sequence of bytes, each with a    *)
(* step of its own; any other cell is a group of incompressible bytes.  On *)
(* such data analyze_track answers one of Patterns, computed below; module *)
(* Detectors has the detectors byte by byte.                               *)
(***************************************************************************)
EXTENDS Integers, Sequences, SequencesExt

CONSTANTS
  Files,        \* inputs: records [len, cell], cell a function on 0..len-1
  Candidates,   \* SECTOR_CANDIDATES, in cells
  SecondPass,   \* the sector sizes tried again on raw tracks, in cells
  ConstCells,   \* cells 0..ConstCells-1 are constant
  RampCells,    \* cells ConstCells..RampCells-1 are ramps
  U16,          \* 2^16, the range of a track index and of an entry count
  None          \* an empty slot

CellBytes == 8

ASSUME PltzAssumption ==
  /\ \A f \in Files : /\ f.len \in Nat
                      /\ f.cell \in [0 .. f.len - 1 -> Nat]
                      /\ f = [len |-> f.len, cell |-> f.cell]
  /\ Candidates \subseteq Nat \ {0} /\ Candidates # {}
  /\ SecondPass \subseteq Nat \ {0}
  /\ ConstCells \in 1 .. 256 /\ RampCells \in Nat /\ ConstCells <= RampCells
  /\ U16 \in Nat \ {0}
  /\ None \notin Nat /\ \A s \in Candidates : None \notin [0 .. s - 1 -> Nat]

Patterns ==
  {"Const", "Linear", "Rle", "Repeat", "LinearWide", "PiecewiseLinear", "Raw"}

-----------------------------------------------------------------------------
(* platter.rs *)

\* compute_geometry: the number of tracks of s cells that hold n cells.
TrackCount(n, s) == (n + s - 1) \div s

\* lay_out: track t, the last one padded with zeros.
TrackAt(f, s, t) ==
  [i \in 0 .. s - 1 |-> IF t * s + i < f.len THEN f.cell[t * s + i] ELSE 0]

-----------------------------------------------------------------------------
(* analyze_track on tracks of cells *)

IsConst(c, s) == c[0] < ConstCells /\ \A i \in 0 .. s - 1 : c[i] = c[0]

\* detect_rle: the number of runs of equal bytes; it needs 2*runs < n.
Runs(c, s) ==
  LET starts  == {i \in 0 .. s - 1 : c[i] < ConstCells /\ (i = 0 \/ c[i - 1] # c[i])}
      opaque  == {i \in 0 .. s - 1 : c[i] >= ConstCells}
  IN  Cardinality(starts) + CellBytes * Cardinality(opaque)

RleFits(c, s) == 2 * Runs(c, s) < CellBytes * s

\* detect_repeat: the periods (in cells) it accepts.
Periods(c, s) ==
  {p \in 1 .. s \div 2 : /\ \A i \in 0 .. s - 1 : c[i] = c[i % p]
                         /\ CellBytes * p < (CellBytes * s) \div 3}

Period(c, s) == CHOOSE p \in Periods(c, s) : \A q \in Periods(c, s) : p <= q

RepeatWins(c, s) ==
  /\ Periods(c, s) # {}
  /\ RleFits(c, s) => CellBytes * Period(c, s) <= 2 * Runs(c, s)

\* detect_piecewise_linear: two or four segments of one cell each.
IsPiecewise(c, s) == s \in {2, 4} /\ \A i \in 0 .. s - 1 : c[i] < RampCells

PatternOf(c, s) ==
  IF IsConst(c, s) THEN "Const"
  ELSE IF s = 1 /\ c[0] < RampCells THEN "Linear"
  ELSE IF RepeatWins(c, s) THEN "Repeat"
  ELSE IF RleFits(c, s) THEN "Rle"
  ELSE IF s = 1 THEN "LinearWide"   \* two 32-bit words are always linear
  ELSE IF IsPiecewise(c, s) THEN "PiecewiseLinear"
  ELSE "Raw"

\* estimate_track_size without its 3 byte header.
ParamBytes(e) ==
  CASE e.pattern = "Const"      -> 1
    [] e.pattern = "Linear"     -> 4
    [] e.pattern = "Rle"        -> 2 + 2 * Runs(e.cells, e.spt)
    [] e.pattern = "Repeat"     -> 2 + CellBytes * Period(e.cells, e.spt)
    [] e.pattern = "LinearWide" -> 19
    [] e.pattern = "PiecewiseLinear" -> 1 + 6 * e.spt
    [] e.pattern = "Raw"        -> CellBytes * e.spt

\* analyze_track(track, t as u16).  "at" is the track the entry is made from.
Analyze(c, s, t) ==
  [kind |-> "Track", at |-> t, idx |-> t % U16,
   pattern |-> PatternOf(c, s), cells |-> c, spt |-> s]

-----------------------------------------------------------------------------
(* cross_track.rs: one group of at least four entries of one pattern *)

Values(list) == [i \in DOMAIN list |-> list[i].cells[0]]

AllSame(list) == \A i \in DOMAIN list : list[i].cells = list[1].cells

\* try_meta_const for distinct values: a step that fits an i8, and worth it.
IsArithmetic(list, step) ==
  \A i \in 1 .. Len(list) - 1 : Values(list)[i + 1] - Values(list)[i] = step

StepOf(list) == Values(list)[2] - Values(list)[1]

\* Mutant of Group: the group numbers its members by their place in the list.
GroupByPlace(list, sub, step) ==
  [kind |-> "Meta", at |-> [i \in DOMAIN list |-> list[i].at],
   idx |-> [i \in DOMAIN list |-> i - 1], pattern |-> list[1].pattern,
   sub |-> sub, cells |-> list[1].cells, step |-> step, spt |-> list[1].spt]

Group(list, sub, step) ==
  [kind |-> "Meta", at |-> [i \in DOMAIN list |-> list[i].at],
   idx |-> [i \in DOMAIN list |-> list[i].idx], pattern |-> list[1].pattern,
   sub |-> sub, cells |-> list[1].cells, step |-> step, spt |-> list[1].spt]

\* The groups cross_track_optimize forms of list: none or one.
MetaGroups(list) ==
  LET n == Len(list) IN
  IF n < 4 THEN {}
  ELSE IF list[1].pattern = "Const"
    THEN IF AllSame(list) /\ 4 * n - (6 + 2 * n + 1) > 0
         THEN {Group(list, "AllSame", 0)}
         ELSE IF /\ StepOf(list) \in -128 .. 127
                 /\ IsArithmetic(list, StepOf(list))
                 /\ 6 + 2 * n + 2 < 4 * n
              THEN {Group(list, "ConstLinear", StepOf(list))}
              ELSE {}
    ELSE IF /\ list[1].pattern \in {"Linear", "Repeat", "LinearWide"}   \* params_equal
            /\ AllSame(list)
            /\ 6 + 2 * n + ParamBytes(list[1]) < n * (3 + ParamBytes(list[1]))
         THEN {Group(list, "AllSame", 0)}
         ELSE {}

\* estimate_meta_size(g) + 3
MetaBytes(g) ==
  3 + 4 + 2 * Len(g.idx) + (IF g.sub = "AllSame" THEN 1 + ParamBytes(g) ELSE 3)

-----------------------------------------------------------------------------
(* best_geometry, and the search of split_platters' second pass *)

Encodings(f, s) ==
  [j \in 1 .. TrackCount(f.len, s) |-> Analyze(TrackAt(f, s, j - 1), s, j - 1)]

OfPattern(encs, p) == SelectSeq(encs, LAMBDA e : e.pattern = p)

\* cross_track_optimize as a function: entries left alone, and groups.
Alone(encs) ==
  {encs[j] : j \in {i \in DOMAIN encs : MetaGroups(OfPattern(encs, encs[i].pattern)) = {}}}

GroupsOf(encs) == UNION {MetaGroups(OfPattern(encs, p)) : p \in Patterns}

Estimate(encs) ==
  MapThenSumSet(LAMBDA e : 3 + ParamBytes(e), Alone(encs))
    + MapThenSumSet(MetaBytes, GroupsOf(encs))

\* min_by_key over the ascending candidates: the first of the smallest.
IsBestGeometry(f, s) ==
  \A r \in Candidates :
    LET cr == Estimate(Encodings(f, r))
        cs == Estimate(Encodings(f, s))
    IN  cs < cr \/ (cs = cr /\ s <= r)

\* raw_blob: the raw tracks one after the other.
Blob(list, s) ==
  [len |-> s * Len(list),
   cell |-> [i \in 0 .. s * Len(list) - 1 |-> list[i \div s + 1].cells[i % s]]]

\* The sector sizes whose second analysis of list is accepted.
Reanalyses(list, s) ==
  LET blob == Blob(list, s) IN
  {r \in SecondPass :
     LET encs == Encodings(blob, r) IN
     /\ ~(r >= s /\ r >= blob.len)
     /\ GroupsOf(encs) # {} \/ \E e \in Alone(encs) : e.pattern # "Raw"
     /\ Estimate(encs) < Len(list) * (3 + CellBytes * s)}

\* The smallest second analysis, the first of equals.
BestReanalysis(list, s) ==
  LET blob == Blob(list, s)
      cost(r) == Estimate(Encodings(blob, r))
      good == Reanalyses(list, s)
  IN  CHOOSE r \in good : \A q \in good : cost(r) < cost(q) \/ (cost(r) = cost(q) /\ r <= q)

-----------------------------------------------------------------------------
VARIABLES
  file,        \* the data given to encode
  phase,       \* where encode, then decode, stands
  sectors,     \* geom.sectors_per_track
  enc,         \* enc[t]: the TrackEncoding of track t, once a worker made it
  pushed,      \* tracks pushed to by_type so far
  byType,      \* by_type: HashMap<u8, Vec<TrackEncoding>>, consumed by its loop
  groups,      \* meta_groups
  structured,  \* individual entries that are not Raw
  raw,         \* individual Raw entries
  reanalyzed,  \* the second pass replaced the raw platter
  stream,      \* the encoded bytes: header fields and platters
  cutAt,       \* where the file decode is given ends: see Places, <<>> if it is whole
  pl, read,    \* decode: current platter, entries read from it
  tracks,      \* decode: all_tracks
  result       \* what decode returns: a record, or None

encodeVars == <<enc, pushed, byType, groups, structured, raw, reanalyzed, stream>>
decodeVars == <<cutAt, pl, read, tracks, result>>
vars == <<file, phase, sectors, encodeVars, decodeVars>>

Count == TrackCount(file.len, sectors)
TrackIds == 0 .. Count - 1

Platter(items) == [count |-> Len(items) % U16, items |-> items]

Init ==
  /\ file \in Files
  /\ phase = "geometry"
  /\ sectors = None
  /\ enc = <<>> /\ pushed = 0 /\ byType = [p \in Patterns |-> <<>>]
  /\ groups = <<>> /\ structured = <<>> /\ raw = <<>>
  /\ reanalyzed = FALSE /\ stream = None
  /\ cutAt = <<>> /\ pl = 1 /\ read = 0 /\ tracks = <<>> /\ result = None

(***************************************************************************)
(* The encoder.                                                            *)
(***************************************************************************)

\* encode of an empty slice: a header only, which decode turns into nothing.
EncodeEmpty ==
  /\ phase = "geometry" /\ file.len = 0
  /\ stream' = [len |-> 0, platters |-> <<>>]
  /\ phase' = "header"
  /\ UNCHANGED <<file, sectors, enc, pushed, byType, groups, structured, raw,
                 reanalyzed, decodeVars>>

\* Mutant of ChooseGeometry: a track more than the data needs.
ChooseGeometryOneMore ==
  /\ phase = "geometry" /\ file.len > 0
  /\ \E s \in Candidates :
       /\ IsBestGeometry(file, s)
       /\ sectors' = s
       /\ enc' = [t \in 0 .. file.len \div s |-> None]
  /\ phase' = "analyze"
  /\ UNCHANGED <<file, pushed, byType, groups, structured, raw, reanalyzed, stream,
                 decodeVars>>

\* best_geometry and compute_geometry: the tracks are laid out and wait for a worker.
ChooseGeometry ==
  /\ phase = "geometry" /\ file.len > 0
  /\ \E s \in Candidates :
       /\ IsBestGeometry(file, s)
       /\ sectors' = s
       /\ enc' = [t \in 0 .. TrackCount(file.len, s) - 1 |-> None]
  /\ phase' = "analyze"
  /\ UNCHANGED <<file, pushed, byType, groups, structured, raw, reanalyzed, stream,
                 decodeVars>>

\* analyze_platter: the rayon workers finish the tracks in any order.
AnalyzeTrack(t) ==
  /\ phase = "analyze"
  /\ enc[t] = None
  /\ enc' = [enc EXCEPT ![t] = Analyze(TrackAt(file, sectors, t), sectors, t)]
  /\ UNCHANGED <<file, phase, sectors, pushed, byType, groups, structured, raw,
                 reanalyzed, stream, decodeVars>>

\* collect() returns, and cross_track_optimize starts.
Collect ==
  /\ phase = "analyze"
  /\ \A t \in TrackIds : enc[t] # None
  /\ phase' = "push"
  /\ UNCHANGED <<file, sectors, encodeVars, decodeVars>>

\* by_type.entry(pattern).or_default().push(enc)
Push ==
  /\ phase = "push" /\ pushed < Count
  /\ byType' = [byType EXCEPT ![enc[pushed].pattern] = Append(@, enc[pushed])]
  /\ pushed' = pushed + 1
  /\ UNCHANGED <<file, phase, sectors, enc, groups, structured, raw, reanalyzed, stream,
                 decodeVars>>

\* tracks.sort_by_key(|t| t.track_idx): they differ from it only after a wrap.
SortByIdx(list) ==
  IF \A i, j \in DOMAIN list : i < j => list[i].idx <= list[j].idx
  THEN list
  ELSE SortSeq(list, LAMBDA a, b : a.idx < b.idx \/ (a.idx = b.idx /\ a.at < b.at))

\* One round of "for (_tag, mut tracks) in by_type": any order, it is a HashMap.
\* What it leaves alone goes where split_platters will sort it to.
OptimizePattern(p) ==
  /\ phase = "push" /\ pushed = Count /\ byType[p] # <<>>
  /\ byType' = [byType EXCEPT ![p] = <<>>]
  /\ LET list == SortByIdx(byType[p]) IN
     \/ /\ MetaGroups(list) # {}
        /\ \E g \in MetaGroups(list) : groups' = Append(groups, g)
        /\ UNCHANGED <<structured, raw>>
     \/ /\ MetaGroups(list) = {}
        /\ IF p = "Raw"
           THEN raw' = raw \o list /\ UNCHANGED structured
           ELSE structured' = structured \o list /\ UNCHANGED raw
        /\ UNCHANGED groups
  /\ UNCHANGED <<file, phase, sectors, enc, pushed, reanalyzed, stream, decodeVars>>

\* split_platters: up to two platters; the raw one may be analysed again.
SplitPlatters ==
  /\ phase = "push" /\ pushed = Count
  /\ \A p \in Patterns : byType[p] = <<>>
  /\ LET first  == structured \o groups
         head   == IF first = <<>> THEN <<>> ELSE <<Platter(first)>>
         again  == IF Len(raw) >= 2 THEN Reanalyses(raw, sectors) ELSE {}
         encs   == Encodings(Blob(raw, sectors), BestReanalysis(raw, sectors))
         second == SelectSeq(encs, LAMBDA e : e \in Alone(encs)) \o SetToSeq(GroupsOf(encs))
     IN  \/ /\ again # {}
            /\ reanalyzed' = TRUE
            /\ stream' = [len |-> file.len, platters |-> Append(head, Platter(second))]
         \/ /\ again = {}
            /\ UNCHANGED reanalyzed
            /\ stream' = [len |-> file.len,
                          platters |-> IF raw = <<>> THEN head ELSE Append(head, Platter(raw))]
  /\ phase' = "header"
  /\ UNCHANGED <<file, sectors, enc, pushed, byType, groups, structured, raw, decodeVars>>

(***************************************************************************)
(* The decoder.  An entry made with another sector size than the header's  *)
(* is still read with the header's: a constant just fills the track, and   *)
(* any other entry makes the decoder lose its place in the stream.         *)
(***************************************************************************)
Failed == [ok |-> FALSE, data |-> None]

\* Where a file can end that is not whole: <<0, 0>> in its header, <<q, 0>> in the header of
\* platter q, <<q, k>> in its item k.
Places ==
  {<<0, 0>>} \union
  UNION {{q} \X (0 .. Len(stream.platters[q].items)) : q \in DOMAIN stream.platters}

\* The writer died in fs::write.
CutShort ==
  /\ phase = "header" /\ cutAt = <<>>
  /\ cutAt' \in Places
  /\ UNCHANGED <<file, phase, sectors, encodeVars, pl, read, tracks, result>>

ReadHeader ==
  /\ phase = "header"
  /\ IF cutAt = <<0, 0>>
     THEN /\ result' = Failed
          /\ phase' = "done"
          /\ UNCHANGED tracks
     ELSE IF stream.len = 0
     THEN /\ result' = [ok |-> TRUE, data |-> [len |-> 0, cell |-> <<>>]]
          /\ phase' = "done"
          /\ UNCHANGED tracks
     ELSE /\ tracks' = [t \in 0 .. TrackCount(stream.len, sectors) - 1 |-> None]
          /\ phase' = "entries"
          /\ UNCHANGED result
  /\ UNCHANGED <<file, sectors, encodeVars, cutAt, pl, read>>

\* A constant can be read in any geometry; the rest give a wrong track or take the
\* wrong number of bytes, and both are counted as a misreading.
IsReadable(item) == item.spt = sectors \/ item.pattern = "Const"

\* decode_track: the index and the track of an individual entry.
TrackOf(item) ==
  IF item.spt = sectors THEN item.cells ELSE [i \in 0 .. sectors - 1 |-> item.cells[0]]

\* Mutant of GroupTrackOf: one step too many.
GroupTrackOneOff(item, k) ==
  IF item.sub = "AllSame" THEN TrackOf(item)
  ELSE [i \in 0 .. sectors - 1 |-> (item.cells[0] + k * item.step) % 256]

\* decode_meta_group: the track of the k-th index; ConstLinear casts to u8.
GroupTrackOf(item, k) ==
  IF item.sub = "AllSame" THEN TrackOf(item)
  ELSE [i \in 0 .. sectors - 1 |-> (item.cells[0] + (k - 1) * item.step) % 256]

\* all_tracks after the item: indices outside it are dropped, the last one wins.
Stored(item) ==
  IF item.kind = "Track"
  THEN [t \in DOMAIN tracks |-> IF t = item.idx THEN TrackOf(item) ELSE tracks[t]]
  ELSE [t \in DOMAIN tracks |->
          LET at == {k \in DOMAIN item.idx : item.idx[k] = t} IN
          IF at = {} THEN tracks[t]
          ELSE GroupTrackOf(item, CHOOSE k \in at : \A j \in at : j <= k)]

ReadEntry ==
  /\ phase = "entries"
  /\ pl <= Len(stream.platters)
  /\ read < stream.platters[pl].count
  /\ cutAt \notin {<<pl, 0>>, <<pl, read + 1>>}
  /\ LET item == stream.platters[pl].items[read + 1] IN
     IF IsReadable(item)
     THEN /\ tracks' = Stored(item)
          /\ read' = read + 1
          /\ UNCHANGED <<phase, result>>
     ELSE /\ result' = Failed
          /\ phase' = "done"
          /\ UNCHANGED <<tracks, read>>
  /\ UNCHANGED <<file, sectors, encodeVars, cutAt, pl>>

\* The file ends in what is read next: an error where the code compares offsets, a panic
\* where it indexes.
ReadTruncated ==
  /\ phase = "entries"
  /\ pl <= Len(stream.platters)
  /\ \/ cutAt = <<pl, 0>>
     \/ read < stream.platters[pl].count /\ cutAt = <<pl, read + 1>>
  /\ result' = Failed
  /\ phase' = "done"
  /\ UNCHANGED <<file, sectors, encodeVars, cutAt, pl, read, tracks>>

\* The entry count said to stop; a wrapped count leaves entries unread, and the
\* next platter header is then taken from the middle of them.
NextPlatter ==
  /\ phase = "entries"
  /\ pl <= Len(stream.platters)
  /\ read = stream.platters[pl].count
  /\ cutAt # <<pl, 0>>
  /\ IF read = Len(stream.platters[pl].items) \/ pl = Len(stream.platters)
     THEN /\ pl' = pl + 1 /\ read' = 0
          /\ UNCHANGED <<phase, result>>
     ELSE /\ result' = Failed
          /\ phase' = "done"
          /\ UNCHANGED <<pl, read>>
  /\ UNCHANGED <<file, sectors, encodeVars, cutAt, tracks>>

\* Concatenate the tracks and truncate, or report the first missing one.
Assemble ==
  /\ phase = "entries"
  /\ pl > Len(stream.platters)
  /\ phase' = "done"
  /\ result' =
       IF \E t \in DOMAIN tracks : tracks[t] = None
       THEN Failed
       ELSE [ok |-> TRUE,
             data |-> [len |-> stream.len,
                       cell |-> [i \in 0 .. stream.len - 1 |->
                                   tracks[i \div sectors][i % sectors]]]]
  /\ UNCHANGED <<file, sectors, encodeVars, cutAt, pl, read, tracks>>

Next ==
  \/ EncodeEmpty
  \/ ChooseGeometry
  \/ \E t \in DOMAIN enc : AnalyzeTrack(t)
  \/ Collect
  \/ Push
  \/ \E p \in Patterns : OptimizePattern(p)
  \/ SplitPlatters
  \/ CutShort
  \/ ReadHeader
  \/ ReadEntry
  \/ ReadTruncated
  \/ NextPlatter
  \/ Assemble

\* encode and decode are calls that return: no step of them waits for another
\* thread but Collect, which rayon releases when the last worker is done.
Spec == Init /\ [][Next]_vars /\ WF_vars(Next)

-----------------------------------------------------------------------------
(* Properties *)

\* Every variable has its type.
TypeOK ==
  /\ file \in Files
  /\ phase \in {"geometry", "analyze", "push", "header", "entries", "done"}
  /\ sectors \in Candidates \union {None}
  /\ sectors # None => DOMAIN enc = TrackIds
  /\ pushed \in Nat /\ reanalyzed \in BOOLEAN
  /\ cutAt # <<>> => phase \in {"header", "entries", "done"} /\ cutAt \in Places
  /\ pl \in Nat /\ read \in Nat

\* The two things the format cannot survive: a raw platter in another geometry
\* (split_platters' second pass) and more tracks than a u16 can
\* number and count.
Clean == ~reanalyzed /\ (sectors # None => Count < U16)

\* encode followed by decode gives back every byte, whatever order the workers
\* finished in and whatever order the HashMap was iterated in; and a file that was cut
\* anywhere, also between two entries or two platters, is never taken for a shorter one.
LosslessWhenClean ==
  phase = "done" /\ Clean =>
    result = IF cutAt = <<>> THEN [ok |-> TRUE, data |-> file] ELSE Failed

\* README.md:3 "Lossless codec", without the condition.
Lossless == phase = "done" /\ cutAt = <<>> => result = [ok |-> TRUE, data |-> file]

\* What the caller of decode has been told.
Answered == IF phase # "done" THEN None ELSE IF result.ok THEN result.data ELSE Failed

\* encode, a writer that may die, and decode together are a LosslessChannel while Clean.
Channel == INSTANCE LosslessChannel WITH
  Messages <- Files, Nothing <- None, Refused <- Failed,
  sent <- file, intact <- cutAt = <<>>, received <- Answered

\* A track decode has stored is never stored over with another: entries and groups
\* share no track.
TrackStoredOnce ==
  [][\A t \in DOMAIN tracks : Clean /\ tracks[t] # None => tracks'[t] = tracks[t]]_vars
=============================================================================
