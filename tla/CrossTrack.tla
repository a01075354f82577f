----------------------------- MODULE CrossTrack -----------------------------
(***************************************************************************)
(* rust/src/cross_track.rs with the parameters of the tracks: the entries  *)
(* of one pattern become one group when their parameters are equal or run  *)
(* linearly, and the group is decoded without the tracks it came from.     *)
(*                                                                         *)
(* An entry is Const (a byte), Linear (start and step) or one of the other *)
(* patterns, whose parameters are a Bodies value of OtherSize bytes; only  *)
(* those in Comparable are ever equal to params_equal.                     *)
(***************************************************************************)
EXTENDS Integers, Sequences

CONSTANTS
  Sectors,     \* bytes of a track
  Values,      \* bytes that occur as constants and as starts
  Steps,       \* steps that occur
  Others,      \* patterns beside Const and Linear
  Comparable,  \* those that params_equal compares: Repeat, LinearWide, LinearF64
  Bodies,      \* their parameters
  OtherSize,   \* and how many bytes these take
  MaxTracks    \* bound: tracks of the platter

ASSUME CrossTrackAssumption ==
  /\ Sectors \in Nat \ {0} /\ MaxTracks \in Nat /\ OtherSize \in Nat \ {0}
  /\ Values \subseteq 0 .. 255 /\ Steps \subseteq Int
  /\ Comparable \subseteq Others /\ Others \intersect {"Const", "Linear"} = {}

Sector == 0 .. Sectors - 1

\* What the detectors can answer: a linear track stays within a byte.
Params ==
  {[pattern |-> "Const", value |-> v] : v \in Values}
    \union {p \in {[pattern |-> "Linear", start |-> v, step |-> d] : v \in Values, d \in Steps} :
              p.start + (Sectors - 1) * p.step \in 0 .. 255}
    \union {[pattern |-> o, body |-> b] : o \in Others, b \in Bodies}

\* estimate_params_size, also the bytes encode_params_only writes.
ParamsSize(p) ==
  IF p.pattern = "Const" THEN 1 ELSE IF p.pattern = "Linear" THEN 4 ELSE OtherSize

\* decode_track of an individual entry.  The body of another pattern is its track.
LineTrack(start, step) == [i \in Sector |-> (start + i * step) % 256]
ConstTrack(value) == [i \in Sector |-> value]

TrackOf(p) ==
  IF p.pattern = "Const" THEN ConstTrack(p.value)
  ELSE IF p.pattern = "Linear" THEN LineTrack(p.start, p.step)
  ELSE p.body

-----------------------------------------------------------------------------
(* try_meta_const, try_meta_linear, try_meta_all_same.  A group has its sub-tag *)
(* and what is written after the indices.                                       *)

Indices(list) == [i \in DOMAIN list |-> list[i].idx]

Same(list) == \A i \in DOMAIN list : list[i].params = list[1].params

\* The values f[1..] run with f[2] - f[1] as the step.
RunsLinearly(f, len) == \A i \in 2 .. len : f[i] - f[i - 1] = f[2] - f[1]

AllSame(list) ==
  [indices |-> Indices(list), pattern |-> list[1].params.pattern, sub |-> "AllSame",
   params |-> list[1].params]

ConstLinear(list) ==
  [indices |-> Indices(list), pattern |-> "Const", sub |-> "ConstLinear",
   params |-> [start |-> list[1].params.value,
               step  |-> list[2].params.value - list[1].params.value]]

LinearStartsLinear(list) ==
  [indices |-> Indices(list), pattern |-> "Linear", sub |-> "LinearStartsLinear",
   params |-> [startBase |-> list[1].params.start,
               startStep |-> list[2].params.start - list[1].params.start,
               step      |-> list[1].params.step]]

ValuesRunLinearly(list) ==
  LET value == [i \in DOMAIN list |-> list[i].params.value]
  IN  value[2] - value[1] \in -128 .. 127 /\ RunsLinearly(value, Len(list))

\* Mutant of MetaConst: four entries are taken to be always worth a group.
MetaConstUnpaid(list) ==
  LET len == Len(list)
  IN  IF Same(list) /\ len * 4 - (6 + len * 2 + 1) > 0 THEN {AllSame(list)}
      ELSE IF ValuesRunLinearly(list) THEN {ConstLinear(list)} ELSE {}

MetaConst(list) ==
  LET len == Len(list)
  IN  IF Same(list) /\ len * 4 - (6 + len * 2 + 1) > 0 THEN {AllSame(list)}
      ELSE IF ValuesRunLinearly(list) /\ 6 + len * 2 + 2 < len * 4
           THEN {ConstLinear(list)}
           ELSE {}

\* Mutant of OneStep: the steps are not compared.
AnyStep(list) == TRUE

OneStep(list) == \A i \in DOMAIN list : list[i].params.step = list[1].params.step

FitsI16(n) == n \in -32768 .. 32767

Starts(list) == [i \in DOMAIN list |-> list[i].params.start]

StartsRunLinearly(list) ==
  /\ FitsI16(list[2].params.start - list[1].params.start)
  /\ RunsLinearly(Starts(list), Len(list))

MetaLinear(list) ==
  LET len == Len(list)
  IN  IF Same(list) /\ 6 + len * 2 + 4 < len * 7 THEN {AllSame(list)}
      ELSE IF OneStep(list) /\ StartsRunLinearly(list) /\ 6 + len * 2 + 6 < len * 7
           THEN {LinearStartsLinear(list)}
           ELSE {}

MetaAllSame(list) ==
  LET len == Len(list)
  IN  IF /\ list[1].params.pattern \in Comparable /\ Same(list)
         /\ 6 + len * 2 + OtherSize < len * (3 + OtherSize)
      THEN {AllSame(list)}
      ELSE {}

MetaGroups(list) ==
  IF Len(list) < 4 THEN {}
  ELSE IF list[1].params.pattern = "Const" THEN MetaConst(list)
  ELSE IF list[1].params.pattern = "Linear" THEN MetaLinear(list)
  ELSE MetaAllSame(list)

\* encode_meta_group: sentinel and tag, pattern, count, indices, sub-tag, parameters.
GroupSize(g) ==
  3 + 1 + 2 + 2 * Len(g.indices) + 1
    + (IF g.sub = "AllSame" THEN ParamsSize(g.params)
       ELSE IF g.sub = "ConstLinear" THEN 2 ELSE 6)

\* decode_meta_group: the track for the k-th index, counted from 1.
DecodedTrack(g, k) ==
  IF g.sub = "AllSame" THEN TrackOf(g.params)
  ELSE IF g.sub = "ConstLinear"
    THEN ConstTrack((g.params.start + (k - 1) * g.params.step) % 256)
  ELSE LineTrack(g.params.startBase + (k - 1) * g.params.startStep, g.params.step)

-----------------------------------------------------------------------------
VARIABLES
  platter,    \* the parameters analyze_platter found, track 0 first
  phase,      \* analyze, optimize, done
  byType,     \* by_type: pattern -> its entries, consumed by the loop over it
  groups,     \* meta groups made
  remaining,  \* entries left alone
  decoded     \* the pairs of index and track the decoder stored

vars == <<platter, phase, byType, groups, remaining, decoded>>

PatternNames == {"Const", "Linear"} \union Others

Init ==
  /\ platter = <<>> /\ phase = "analyze"
  /\ byType = [p \in PatternNames |-> <<>>]
  /\ groups = {} /\ remaining = {} /\ decoded = {}

\* Mutant of Analyze: tracks are numbered from their end.
AnalyzeOneLess(p) ==
  /\ phase = "analyze" /\ Len(platter) < MaxTracks
  /\ platter' = Append(platter, p)
  /\ byType' = [byType EXCEPT ![p.pattern] = Append(@, [idx |-> Len(platter) - 1, params |-> p])]
  /\ UNCHANGED <<phase, groups, remaining, decoded>>

\* One track of analyze_platter, and its turn of the loop that fills by_type.
Analyze(p) ==
  /\ phase = "analyze" /\ Len(platter) < MaxTracks
  /\ platter' = Append(platter, p)
  /\ byType' = [byType EXCEPT ![p.pattern] = Append(@, [idx |-> Len(platter), params |-> p])]
  /\ UNCHANGED <<phase, groups, remaining, decoded>>

Start ==
  /\ phase = "analyze"
  /\ phase' = "optimize"
  /\ UNCHANGED <<platter, byType, groups, remaining, decoded>>

\* Mutant of Optimize: a long enough list that forms no group is forgotten.
OptimizeForgets(p) ==
  /\ phase = "optimize" /\ byType[p] # <<>>
  /\ byType' = [byType EXCEPT ![p] = <<>>]
  /\ groups' = groups \union MetaGroups(byType[p])
  /\ remaining' = IF Len(byType[p]) >= 4 THEN remaining
                  ELSE remaining \union {byType[p][i] : i \in DOMAIN byType[p]}
  /\ UNCHANGED <<platter, phase, decoded>>

\* One round of the loop over by_type; the HashMap decides the order.  The entries
\* are in the order of their indices, so sort_by_key leaves them as they are.
Optimize(p) ==
  /\ phase = "optimize" /\ byType[p] # <<>>
  /\ byType' = [byType EXCEPT ![p] = <<>>]
  /\ groups' = groups \union MetaGroups(byType[p])
  /\ remaining' = IF MetaGroups(byType[p]) # {} THEN remaining
                  ELSE remaining \union {byType[p][i] : i \in DOMAIN byType[p]}
  /\ UNCHANGED <<platter, phase, decoded>>

\* decode reads every entry and every group.
Decode ==
  /\ phase = "optimize" /\ \A p \in PatternNames : byType[p] = <<>>
  /\ phase' = "done"
  /\ decoded' =
       {<<e.idx, TrackOf(e.params)>> : e \in remaining}
         \union UNION {{<<g.indices[k], DecodedTrack(g, k)>> : k \in DOMAIN g.indices} :
                         g \in groups}
  /\ UNCHANGED <<platter, byType, groups, remaining>>

Next ==
  \/ \E p \in Params : Analyze(p)
  \/ Start
  \/ \E p \in PatternNames : Optimize(p)
  \/ Decode

Spec == Init /\ [][Next]_vars

-----------------------------------------------------------------------------
(* Properties *)

\* Every variable has its type.
TypeOK ==
  /\ platter \in Seq(Params)
  /\ phase \in {"analyze", "optimize", "done"}
  /\ \A p \in PatternNames : byType[p] \in Seq([idx : Nat, params : Params])
  /\ remaining \subseteq [idx : Nat, params : Params]

\* A group is decoded from its first entry and a step, and still gives for each of
\* its indices the track that the entry it replaced would have given.
GroupsExact ==
  \A g \in groups : \A k \in DOMAIN g.indices :
    DecodedTrack(g, k) = TrackOf(platter[g.indices[k] + 1])

\* No track of the platter is lost, doubled or decoded differently.
AllTracksDecoded ==
  phase = "done" => decoded = {<<i - 1, TrackOf(platter[i])>> : i \in DOMAIN platter}

\* The savings checks: a group takes no more bytes than the entries it replaces.
GroupsNeverLarger ==
  \A g \in groups :
    GroupSize(g) <= Len(g.indices) * (3 + ParamsSize(platter[g.indices[1] + 1]))
=============================================================================
