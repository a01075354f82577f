-------------------------- MODULE CrossTrackProofs --------------------------
(***************************************************************************)
(* Proofs about CrossTrack: for any sector size, any number of tracks and  *)
(* any parameters.                                                         *)
(***************************************************************************)
EXTENDS CrossTrack, SequenceTheorems, WellFoundedInduction, TLAPS

Entry == [idx : Nat, params : Params]

(* Entries of one pattern, as by_type keeps them. *)
OnePattern(list, p) ==
  list \in Seq(Entry) /\ \A i \in DOMAIN list : list[i].params.pattern = p

\* The value of a constant entry is a byte.
LEMMA ConstParams ==
  ASSUME NEW p \in Params, p.pattern = "Const"
  PROVE  p.value \in Int /\ 0 <= p.value /\ p.value <= 255
BY CrossTrackAssumption DEF Params

\* The start of a linear entry is a byte, its step a number.
LEMMA LinearParams ==
  ASSUME NEW p \in Params, p.pattern = "Linear"
  PROVE  p.start \in Int /\ 0 <= p.start /\ p.start <= 255 /\ p.step \in Int
BY CrossTrackAssumption DEF Params

\* Every entry has one of the patterns by_type is keyed by.
LEMMA ParamsHavePattern ==
  ASSUME NEW p \in Params
  PROVE  p.pattern \in PatternNames
BY DEF Params, PatternNames

\* A function whose neighbours differ by d is a progression: what "start and step" in
\* the code rests on.
LEMMA Progression ==
  ASSUME NEW a \in Nat, NEW b \in Nat, NEW d \in Int,
         NEW t \in [a .. b -> Int],
         \A i \in a + 1 .. b : t[i] - t[i - 1] = d
  PROVE  \A i \in a .. b : t[i] = t[a] + (i - a) * d
<1> DEFINE Bad == {i \in a .. b : t[i] # t[a] + (i - a) * d}
<1> SUFFICES ASSUME Bad # {} PROVE FALSE
  OBVIOUS
<1> DEFINE R == OpToRel(<, Nat)
<1>1. PICK m \in Bad : \A k \in Bad : m <= k
  <2>1. Bad \subseteq Nat
    OBVIOUS
  <2>2. IsWellFoundedOn(R, Nat)
    BY NatLessThanWellFounded
  <2>3. PICK m \in Bad : \A k \in Bad : <<k, m>> \notin R
    <3> HIDE DEF R, Bad
    <3> QED BY <2>1, <2>2, WFMin
  <2>4. \A k \in Bad : ~(k < m)
    BY <2>1, <2>3 DEF OpToRel
  <2> HIDE DEF Bad
  <2> QED BY <2>1, <2>4
<1> HIDE DEF R
<1>2. m # a
  OBVIOUS
<1>3. m - 1 \in a .. b /\ m - 1 \notin Bad /\ m \in a + 1 .. b
  BY <1>1, <1>2
<1>4. t[m - 1] = t[a] + ((m - 1) - a) * d
  BY <1>3
<1>5. t[m] - t[m - 1] = d
  BY <1>3
<1>6. t[m] = t[a] + (m - a) * d
  <2>1. PICK x \in Int, y \in Int, z \in Int : x = t[m] /\ y = t[m - 1] /\ z = t[a]
    BY <1>3
  <2> DEFINE p == (m - a) * d
  <2>2. ((m - 1) - a) * d = p - d /\ p \in Int
    BY <1>3
  <2>3. y = z + (p - d) /\ x - y = d
    BY <1>4, <1>5, <2>1, <2>2
  <2> HIDE DEF p
  <2>4. x = z + p
    BY <2>2, <2>3
  <2> QED BY <2>1, <2>4 DEF p
<1> QED BY <1>6

(* Bytes that run linearly are what the decoder computes from the first and the step. *)
LEMMA LinearBytes ==
  ASSUME NEW len \in Nat, len >= 4, NEW v \in [1 .. len -> Int],
         \A i \in 1 .. len : 0 <= v[i] /\ v[i] <= 255,
         RunsLinearly(v, len), NEW k \in 1 .. len
  PROVE  v[1] + (k - 1) * (v[2] - v[1]) = v[k] /\ v[k] % 256 = v[k]
<1> DEFINE d == v[2] - v[1]
<1>1. v[1] \in Int /\ v[2] \in Int /\ v[k] \in Int
  OBVIOUS
<1>2. d \in Int
  BY <1>1
<1>3. \A i \in 1 + 1 .. len : v[i] - v[i - 1] = d
  BY DEF RunsLinearly
<1> HIDE DEF d
<1>4. 1 \in Nat
  OBVIOUS
<1>5. \A i \in 1 .. len : v[i] = v[1] + (i - 1) * d
  BY <1>2, <1>3, <1>4, Progression
<1>6. v[k] = v[1] + (k - 1) * d
  BY <1>5
<1>7. v[k] % 256 = v[k]
  <2>1. PICK x \in Int : x = v[k] /\ 0 <= x /\ x <= 255
    BY <1>1
  <2> QED BY <2>1
<1> QED BY <1>6, <1>7 DEF d

(* Const entries whose values run linearly are what the decoder's u8 cast makes of  *)
(* the first value and the step.                                                     *)
LEMMA ConstLinearExact ==
  ASSUME NEW list, OnePattern(list, "Const"), Len(list) >= 4,
         ValuesRunLinearly(list),
         NEW k \in DOMAIN list
  PROVE  DecodedTrack(ConstLinear(list), k) = TrackOf(list[k].params)
<1>1. Len(list) \in Nat /\ DOMAIN list = 1 .. Len(list) /\ list \in [1 .. Len(list) -> Entry]
  BY LenProperties DEF OnePattern
<1>2. ASSUME NEW i \in 1 .. Len(list)
      PROVE  /\ list[i].params.value \in Int
             /\ 0 <= list[i].params.value /\ list[i].params.value <= 255
  <2>1. list[i].params \in Params
    BY <1>1 DEF Entry
  <2> QED BY <1>1, <2>1, ConstParams DEF OnePattern
<1>3. PICK v : v = [i \in DOMAIN list |-> list[i].params.value]
  OBVIOUS
<1>4. PICK len : len = Len(list)
  OBVIOUS
<1>5. \A i \in 1 .. len : v[i] = list[i].params.value
  BY <1>1, <1>3, <1>4
<1>6. v[1] + (k - 1) * (v[2] - v[1]) = v[k] /\ v[k] % 256 = v[k]
  <2>1. len \in Nat /\ len >= 4 /\ RunsLinearly(v, len) /\ k \in 1 .. len
    BY <1>1, <1>3, <1>4 DEF ValuesRunLinearly
  <2>2. \A i \in 1 .. len : list[i].params.value \in Int
    BY <1>2, <1>4
  <2>3. v \in [1 .. len -> Int]
    BY <1>1, <1>3, <1>4, <2>2
  <2>4. ASSUME NEW i \in 1 .. len PROVE 0 <= v[i] /\ v[i] <= 255
    BY <1>2, <1>4, <1>5
  <2> QED BY <2>1, <2>2, <2>3, <2>4, LinearBytes
<1>7. v[1] = list[1].params.value /\ v[2] = list[2].params.value /\ v[k] = list[k].params.value
  BY <1>1, <1>4, <1>5
<1>8. DecodedTrack(ConstLinear(list), k) = ConstTrack(v[k])
  BY <1>6, <1>7 DEF DecodedTrack, ConstLinear
<1>9. TrackOf(list[k].params) = ConstTrack(v[k])
  BY <1>1, <1>7 DEF TrackOf, OnePattern
<1> QED BY <1>8, <1>9

(* Likewise for linear entries of one step whose starts run linearly. *)
LEMMA LinearStartsExact ==
  ASSUME NEW list, OnePattern(list, "Linear"), Len(list) >= 4,
         OneStep(list), StartsRunLinearly(list),
         NEW k \in DOMAIN list
  PROVE  DecodedTrack(LinearStartsLinear(list), k) = TrackOf(list[k].params)
<1>1. Len(list) \in Nat /\ DOMAIN list = 1 .. Len(list) /\ list \in [1 .. Len(list) -> Entry]
  BY LenProperties DEF OnePattern
<1>2. ASSUME NEW i \in 1 .. Len(list)
      PROVE  /\ list[i].params.start \in Int
             /\ 0 <= list[i].params.start /\ list[i].params.start <= 255
  <2>1. list[i].params \in Params
    BY <1>1 DEF Entry
  <2> QED BY <1>1, <2>1, LinearParams DEF OnePattern
<1>3. PICK s : s = Starts(list)
  OBVIOUS
<1>4. PICK len : len = Len(list)
  OBVIOUS
<1>5. \A i \in 1 .. len : s[i] = list[i].params.start
  BY <1>1, <1>3, <1>4 DEF Starts
<1>6. s[1] + (k - 1) * (s[2] - s[1]) = s[k]
  <2>1. len \in Nat /\ len >= 4 /\ RunsLinearly(s, len) /\ k \in 1 .. len
    <3>1. RunsLinearly(s, Len(list))
      BY <1>3 DEF StartsRunLinearly
    <3> QED BY <1>1, <1>4, <3>1
  <2>2. \A i \in 1 .. len : list[i].params.start \in Int
    BY <1>2, <1>4
  <2>3. s \in [1 .. len -> Int]
    BY <1>1, <1>3, <1>4, <2>2 DEF Starts
  <2>4. ASSUME NEW i \in 1 .. len PROVE 0 <= s[i] /\ s[i] <= 255
    BY <1>2, <1>4, <1>5
  <2> QED BY <2>1, <2>2, <2>3, <2>4, LinearBytes
<1>7. s[1] = list[1].params.start /\ s[2] = list[2].params.start /\ s[k] = list[k].params.start
  BY <1>1, <1>4, <1>5
<1>8. DecodedTrack(LinearStartsLinear(list), k) = LineTrack(s[k], list[1].params.step)
  BY <1>6, <1>7 DEF DecodedTrack, LinearStartsLinear
<1>9. TrackOf(list[k].params) = LineTrack(s[k], list[1].params.step)
  <2>1. list[k].params.step = list[1].params.step
    BY <1>1 DEF OneStep
  <2> QED BY <1>1, <1>7, <2>1 DEF TrackOf, OnePattern
<1> QED BY <1>8, <1>9

\* A group of equal parameters decodes to the track of each of its entries.
LEMMA AllSameExact ==
  ASSUME NEW list, Same(list), NEW k \in DOMAIN list
  PROVE  DecodedTrack(AllSame(list), k) = TrackOf(list[k].params)
BY DEF DecodedTrack, AllSame, Same

(* What the loop over by_type may put in groups: the indices of the list, tracks as   *)
(* before, and no more bytes than before.                                             *)
LEMMA GroupOfList ==
  ASSUME NEW list, NEW p \in PatternNames, OnePattern(list, p),
         NEW g \in MetaGroups(list)
  PROVE  /\ Len(list) \in Nat /\ Len(list) >= 4
         /\ g.indices = Indices(list)
         /\ \A k \in DOMAIN list : DecodedTrack(g, k) = TrackOf(list[k].params)
         /\ GroupSize(g) <= Len(list) * (3 + ParamsSize(list[1].params))
<1> DEFINE len == Len(list)
<1> USE CrossTrackAssumption
<1>1. /\ len \in Nat /\ len >= 4 /\ DOMAIN list = 1 .. len /\ list \in [1 .. len -> Entry]
      /\ 1 \in DOMAIN list
  BY LenProperties DEF OnePattern, MetaGroups
<1>2. list[1].params.pattern = p
  BY <1>1 DEF OnePattern
<1>3. Indices(list) \in Seq(Nat) /\ Len(Indices(list)) = len
  <2>1. \A i \in 1 .. len : list[i].idx \in Nat
    BY <1>1 DEF Entry
  <2> QED BY <1>1, <2>1 DEF Indices
<1> DEFINE OtherBytes == 3 + 1 + 2 + 2 * len + 1
<1>4. CASE p = "Const"
  <2>1. g \in MetaConst(list) /\ ParamsSize(list[1].params) = 1
    BY <1>1, <1>2, <1>4 DEF MetaGroups, ParamsSize
  <2>2. CASE Same(list) /\ len * 4 - (6 + len * 2 + 1) > 0
    <3>1. g = AllSame(list)
      BY <2>1, <2>2 DEF MetaConst
    <3>2. GroupSize(g) = OtherBytes + 1
      BY <1>3, <2>1, <3>1 DEF GroupSize, AllSame
    <3> QED BY <1>1, <2>1, <2>2, <3>1, <3>2, AllSameExact DEF AllSame
  <2>3. CASE ~(Same(list) /\ len * 4 - (6 + len * 2 + 1) > 0)
    <3>1. /\ g = ConstLinear(list)
          /\ ValuesRunLinearly(list)
          /\ 6 + len * 2 + 2 < len * 4
      BY <2>1, <2>3 DEF MetaConst
    <3>2. GroupSize(g) = OtherBytes + 2
      BY <1>3, <3>1 DEF GroupSize, ConstLinear
    <3>3. \A k \in DOMAIN list : DecodedTrack(g, k) = TrackOf(list[k].params)
      BY <1>1, <1>4, <3>1, ConstLinearExact
    <3> QED BY <1>1, <2>1, <3>1, <3>2, <3>3 DEF ConstLinear
  <2> QED BY <2>2, <2>3
<1>5. CASE p = "Linear"
  <2>1. g \in MetaLinear(list) /\ ParamsSize(list[1].params) = 4
    BY <1>1, <1>2, <1>5 DEF MetaGroups, ParamsSize
  <2>2. CASE Same(list) /\ 6 + len * 2 + 4 < len * 7
    <3>1. g = AllSame(list)
      BY <2>1, <2>2 DEF MetaLinear
    <3>2. GroupSize(g) = OtherBytes + 4
      BY <1>3, <2>1, <3>1 DEF GroupSize, AllSame
    <3> QED BY <1>1, <2>1, <2>2, <3>1, <3>2, AllSameExact DEF AllSame
  <2>3. CASE ~(Same(list) /\ 6 + len * 2 + 4 < len * 7)
    <3>1. /\ g = LinearStartsLinear(list)
          /\ OneStep(list) /\ StartsRunLinearly(list)
          /\ 6 + len * 2 + 6 < len * 7
      BY <2>1, <2>3 DEF MetaLinear
    <3>2. GroupSize(g) = OtherBytes + 6
      BY <1>3, <3>1 DEF GroupSize, LinearStartsLinear
    <3>3. \A k \in DOMAIN list : DecodedTrack(g, k) = TrackOf(list[k].params)
      BY <1>1, <1>5, <3>1, LinearStartsExact
    <3> QED BY <1>1, <2>1, <3>1, <3>2, <3>3 DEF LinearStartsLinear
  <2> QED BY <2>2, <2>3
<1>6. CASE p \notin {"Const", "Linear"}
  <2>1. g \in MetaAllSame(list) /\ ParamsSize(list[1].params) = OtherSize
    BY <1>1, <1>2, <1>6 DEF MetaGroups, ParamsSize
  <2>2. g = AllSame(list) /\ Same(list) /\ 6 + len * 2 + OtherSize < len * (3 + OtherSize)
    BY <2>1 DEF MetaAllSame
  <2>3. GroupSize(g) = OtherBytes + OtherSize
    BY <1>3, <2>1, <2>2 DEF GroupSize, AllSame
  <2>4. OtherSize \in Nat /\ len * (3 + OtherSize) \in Nat
    BY <1>1
  <2>5. GroupSize(g) <= len * (3 + OtherSize)
    <3> DEFINE total == len * (3 + OtherSize)
    <3>1. total \in Nat
      BY <1>1
    <3> HIDE DEF total
    <3>2. 6 + len * 2 + OtherSize < total /\ GroupSize(g) = 7 + 2 * len + OtherSize
      BY <1>1, <2>2, <2>3 DEF total
    <3>3. GroupSize(g) <= total
      BY <1>1, <3>1, <3>2
    <3> QED BY <3>3 DEF total
  <2> QED BY <1>1, <2>1, <2>2, <2>5, AllSameExact DEF AllSame
<1> QED BY <1>4, <1>5, <1>6

-----------------------------------------------------------------------------
(* An entry or a group that stands for tracks of the platter. *)
IsOfPlatter(e) ==
  /\ e.idx + 1 \in DOMAIN platter
  /\ e.params = platter[e.idx + 1]

ExactGroup(g) ==
  \A k \in DOMAIN g.indices :
    /\ g.indices[k] + 1 \in DOMAIN platter
    /\ g.indices[k] \in Nat
    /\ DecodedTrack(g, k) = TrackOf(platter[g.indices[k] + 1])

SmallGroup(g) ==
  /\ 1 \in DOMAIN g.indices
  /\ GroupSize(g) <= Len(g.indices) * (3 + ParamsSize(platter[g.indices[1] + 1]))

(* Track t, counted from 0, is waiting in by_type, left alone or in a group. *)
Waiting(t) == \E p \in PatternNames : \E i \in DOMAIN byType[p] : byType[p][i].idx = t
Alone(t)   == \E e \in remaining : e.idx = t
Grouped(t) == \E g \in groups : \E k \in DOMAIN g.indices : g.indices[k] = t

IInv ==
  /\ platter \in Seq(Params)
  /\ phase \in {"analyze", "optimize", "done"}
  /\ byType \in [PatternNames -> Seq(Entry)]
  /\ remaining \subseteq Entry
  /\ \A p \in PatternNames : OnePattern(byType[p], p)
  /\ \A p \in PatternNames : \A i \in DOMAIN byType[p] : IsOfPlatter(byType[p][i])
  /\ \A e \in remaining : IsOfPlatter(e)
  /\ \A g \in groups : ExactGroup(g) /\ SmallGroup(g)
  /\ \A t \in 0 .. Len(platter) - 1 : Waiting(t) \/ Alone(t) \/ Grouped(t)
  /\ AllTracksDecoded

\* An empty platter satisfies the invariant.
LEMMA InitIInv == Init => IInv
<1> SUFFICES ASSUME Init PROVE IInv
  OBVIOUS
<1>1. platter = <<>> /\ Len(platter) = 0 /\ platter \in Seq(Params)
  BY DEF Init
<1>2. byType \in [PatternNames -> Seq(Entry)]
  BY DEF Init
<1>3. \A p \in PatternNames : byType[p] = <<>> /\ DOMAIN byType[p] = {}
  BY DEF Init
<1> QED BY <1>1, <1>2, <1>3 DEF Init, IInv, OnePattern, AllTracksDecoded

\* Analyze adds track Len(platter) to the platter and to by_type.
LEMMA AnalyzeIInv ==
  ASSUME IInv, NEW p \in Params, Analyze(p)
  PROVE  IInv'
<1> DEFINE e == [idx |-> Len(platter), params |-> p]
<1>1. /\ platter' = Append(platter, p) /\ platter \in Seq(Params)
      /\ byType' = [byType EXCEPT ![p.pattern] = Append(@, e)]
      /\ UNCHANGED <<phase, groups, remaining, decoded>>
      /\ phase = "analyze"
  BY DEF Analyze, IInv
<1>2. p.pattern \in PatternNames
  BY ParamsHavePattern
<1>3. Len(platter) \in Nat /\ e \in Entry
  BY <1>1, LenProperties DEF Entry
<1>4. /\ platter' \in Seq(Params) /\ Len(platter') = Len(platter) + 1
      /\ DOMAIN platter = 1 .. Len(platter) /\ DOMAIN platter' = 1 .. Len(platter) + 1
      /\ \A i \in 1 .. Len(platter) : platter'[i] = platter[i]
      /\ platter'[Len(platter) + 1] = p
  BY <1>1, AppendProperties, LenProperties
<1>5. /\ byType' \in [PatternNames -> Seq(Entry)]
      /\ \A q \in PatternNames : q # p.pattern => byType'[q] = byType[q]
      /\ byType'[p.pattern] = Append(byType[p.pattern], e)
  BY <1>1, <1>2, <1>3 DEF IInv
<1>6. \A x \in Entry : IsOfPlatter(x) => IsOfPlatter(x)'
  <2>1. ASSUME NEW x \in Entry, IsOfPlatter(x) PROVE IsOfPlatter(x)'
    <3>1. x.idx + 1 \in 1 .. Len(platter) /\ x.params = platter[x.idx + 1]
      BY <1>4, <2>1 DEF IsOfPlatter
    <3>2. x.idx + 1 \in DOMAIN platter' /\ platter'[x.idx + 1] = platter[x.idx + 1]
      BY <1>3, <1>4, <3>1
    <3> QED BY <3>1, <3>2 DEF IsOfPlatter
  <2> QED BY <2>1
<1>7. e.idx + 1 \in DOMAIN platter' /\ e.params = platter'[e.idx + 1]
  BY <1>3, <1>4
<1>8. /\ byType[p.pattern] \in Seq(Entry) /\ Len(byType[p.pattern]) \in Nat
      /\ DOMAIN byType[p.pattern] = 1 .. Len(byType[p.pattern])
      /\ DOMAIN byType'[p.pattern] = 1 .. Len(byType[p.pattern]) + 1
      /\ \A i \in 1 .. Len(byType[p.pattern]) : byType'[p.pattern][i] = byType[p.pattern][i]
      /\ byType'[p.pattern][Len(byType[p.pattern]) + 1] = e
  <2>1. byType[p.pattern] \in Seq(Entry)
    BY <1>2 DEF IInv
  <2> QED BY <1>3, <1>5, <2>1, AppendProperties, LenProperties
<1>9. ASSUME NEW q \in PatternNames PROVE OnePattern(byType[q], q)'
  <2>1. CASE q = p.pattern
    <3>1. byType'[q] \in Seq(Entry)
      BY <1>5
    <3>2. ASSUME NEW i \in DOMAIN byType'[q] PROVE byType'[q][i].params.pattern = q
      <4>1. CASE i \in 1 .. Len(byType[p.pattern])
        BY <1>8, <2>1, <4>1 DEF IInv, OnePattern
      <4>2. CASE i = Len(byType[p.pattern]) + 1
        BY <1>8, <2>1, <4>2
      <4> QED BY <1>8, <2>1, <4>1, <4>2
    <3> QED BY <3>1, <3>2 DEF OnePattern
  <2>2. CASE q # p.pattern
    BY <1>5, <2>2 DEF IInv, OnePattern
  <2> QED BY <2>1, <2>2
<1>10. ASSUME NEW q \in PatternNames, NEW i \in DOMAIN byType'[q]
       PROVE  IsOfPlatter(byType[q][i])'
  <2>1. ASSUME NEW r \in PatternNames, NEW j \in DOMAIN byType[r]
        PROVE  IsOfPlatter(byType[r][j]) /\ byType[r][j] \in Entry
    <3>1. byType[r] \in Seq(Entry)
      BY DEF IInv
    <3>2. byType[r][j] \in Entry
      BY <3>1, ElementOfSeq, LenProperties
    <3> QED BY <3>2 DEF IInv, Entry
  <2>2. CASE q = p.pattern /\ i = Len(byType[p.pattern]) + 1
    <3>1. byType'[q][i] = e
      BY <1>8, <2>2
    <3> QED BY <1>7, <3>1 DEF IsOfPlatter
  <2>3. CASE q = p.pattern /\ i # Len(byType[p.pattern]) + 1
    <3>1. i \in DOMAIN byType[q] /\ byType'[q][i] = byType[q][i]
      BY <1>8, <2>3
    <3> QED BY <1>6, <2>1, <3>1
  <2>4. CASE q # p.pattern
    BY <1>5, <1>6, <2>1, <2>4
  <2> QED BY <2>2, <2>3, <2>4
<1>11. \A x \in remaining' : IsOfPlatter(x)'
  BY <1>1, <1>6 DEF IInv, Entry
<1>12. ASSUME NEW g \in groups' PROVE ExactGroup(g)' /\ SmallGroup(g)'
  <2>1. g \in groups /\ ExactGroup(g) /\ SmallGroup(g)
    BY <1>1 DEF IInv
  <2>2. \A k \in DOMAIN g.indices :
          /\ g.indices[k] + 1 \in DOMAIN platter'
          /\ g.indices[k] \in Nat
          /\ platter'[g.indices[k] + 1] = platter[g.indices[k] + 1]
    BY <1>3, <1>4, <2>1 DEF ExactGroup
  <2> QED BY <2>1, <2>2 DEF ExactGroup, SmallGroup
<1>13. ASSUME NEW t \in 0 .. Len(platter')- 1 PROVE (Waiting(t) \/ Alone(t) \/ Grouped(t))'
  <2>1. CASE t = Len(platter)
    <3> DEFINE last == Len(byType[p.pattern]) + 1
    <3>1. last \in DOMAIN byType'[p.pattern] /\ byType'[p.pattern][last].idx = t
      BY <1>8, <2>1
    <3> QED BY <1>2, <3>1 DEF Waiting
  <2>2. CASE t # Len(platter)
    <3>1. t \in 0 .. Len(platter) - 1
      <4>1. Len(platter) \in Nat /\ Len(platter') = Len(platter) + 1 /\ t \in 0 .. Len(platter') - 1
        BY <1>3, <1>4
      <4> QED BY <2>2, <4>1
    <3>2. CASE Waiting(t)
      <4>0. PICK q \in PatternNames : \E i \in DOMAIN byType[q] : byType[q][i].idx = t
        BY <3>2 DEF Waiting
      <4>1. PICK i \in DOMAIN byType[q] : byType[q][i].idx = t
        BY <4>0
      <4>2. i \in DOMAIN byType'[q] /\ byType'[q][i] = byType[q][i]
        <5>1. CASE q = p.pattern
          <6>1. i \in 1 .. Len(byType[q]) /\ Len(byType[q]) \in Nat
            BY <1>8, <5>1
          <6> QED BY <1>8, <5>1, <6>1
        <5>2. CASE q # p.pattern
          BY <1>5, <5>2
        <5> QED BY <5>1, <5>2
      <4> QED BY <4>1, <4>2 DEF Waiting
    <3>3. CASE Alone(t) \/ Grouped(t)
      BY <1>1, <3>3 DEF Alone, Grouped
    <3> QED BY <3>1, <3>2, <3>3 DEF IInv
  <2> QED BY <2>1, <2>2
<1>14. AllTracksDecoded'
  BY <1>1 DEF AllTracksDecoded
<1> QED
  BY <1>1, <1>4, <1>5, <1>9, <1>10, <1>11, <1>12, <1>13, <1>14 DEF IInv

\* Optimize moves the entries of p to groups or to remaining.
LEMMA OptimizeIInv ==
  ASSUME IInv, NEW p \in PatternNames, Optimize(p)
  PROVE  IInv'
<1> DEFINE list == byType[p]
<1>1. /\ byType' = [byType EXCEPT ![p] = <<>>]
      /\ groups' = groups \union MetaGroups(list)
      /\ remaining' = IF MetaGroups(list) # {} THEN remaining
                      ELSE remaining \union {list[i] : i \in DOMAIN list}
      /\ UNCHANGED <<platter, phase, decoded>>
      /\ phase = "optimize"
  BY DEF Optimize
<1>2. OnePattern(list, p) /\ list \in Seq(Entry) /\ \A i \in DOMAIN list : IsOfPlatter(list[i])
  BY DEF IInv
<1>3. \A i \in DOMAIN list : list[i] \in Entry
  BY <1>2, ElementOfSeq, LenProperties
<1>4. /\ byType' \in [PatternNames -> Seq(Entry)]
      /\ byType'[p] = <<>> /\ \A q \in PatternNames : q # p => byType'[q] = byType[q]
  BY <1>1 DEF IInv
<1>5. DOMAIN byType'[p] = {}
  BY <1>4
<1>6. remaining' \subseteq Entry /\ \A e \in remaining' : IsOfPlatter(e)
  BY <1>1, <1>2, <1>3 DEF IInv
<1>7. ASSUME NEW g \in MetaGroups(list)
      PROVE  /\ ExactGroup(g) /\ SmallGroup(g)
             /\ g.indices = Indices(list) /\ DOMAIN g.indices = DOMAIN list
  <2>1. /\ Len(list) \in Nat /\ Len(list) >= 4
        /\ g.indices = Indices(list)
        /\ \A k \in DOMAIN list : DecodedTrack(g, k) = TrackOf(list[k].params)
        /\ GroupSize(g) <= Len(list) * (3 + ParamsSize(list[1].params))
    BY <1>2, GroupOfList
  <2>2. /\ DOMAIN list = 1 .. Len(list) /\ DOMAIN g.indices = DOMAIN list
        /\ Len(g.indices) = Len(list)
        /\ \A k \in DOMAIN list : g.indices[k] = list[k].idx
    BY <1>2, <2>1, LenProperties DEF Indices
  <2>3. \A k \in DOMAIN list : /\ list[k].idx + 1 \in DOMAIN platter /\ list[k].idx \in Nat
                               /\ list[k].params = platter[list[k].idx + 1]
    BY <1>2, <1>3 DEF IsOfPlatter, Entry
  <2>4. ExactGroup(g)
    BY <2>1, <2>2, <2>3 DEF ExactGroup
  <2>5. SmallGroup(g)
    <3>1. 1 \in DOMAIN list
      BY <2>1, <2>2
    <3>2. list[1].params = platter[g.indices[1] + 1]
      BY <2>2, <2>3, <3>1
    <3> QED BY <2>1, <2>2, <3>1, <3>2 DEF SmallGroup
  <2> QED BY <2>1, <2>2, <2>4, <2>5
<1>8. \A g \in groups' : ExactGroup(g)' /\ SmallGroup(g)'
  <2>1. \A g \in groups' : ExactGroup(g) /\ SmallGroup(g)
    BY <1>1, <1>7 DEF IInv
  <2> QED BY <1>1, <2>1 DEF ExactGroup, SmallGroup
<1>9. ASSUME NEW t \in 0 .. Len(platter') - 1 PROVE (Waiting(t) \/ Alone(t) \/ Grouped(t))'
  <2>1. Waiting(t) \/ Alone(t) \/ Grouped(t)
    BY <1>1 DEF IInv
  <2>2. CASE Alone(t) \/ Grouped(t)
    BY <1>1, <2>2 DEF Alone, Grouped
  <2>3. CASE Waiting(t)
    <3>1. PICK q \in PatternNames : \E i \in DOMAIN byType[q] : byType[q][i].idx = t
      BY <2>3 DEF Waiting
    <3>2. CASE q # p
      BY <1>4, <3>1, <3>2 DEF Waiting
    <3>3. CASE q = p
      <4>1. PICK i \in DOMAIN list : list[i].idx = t
        BY <3>1, <3>3
      <4>2. CASE MetaGroups(list) = {}
        BY <1>1, <4>1, <4>2 DEF Alone
      <4>3. CASE MetaGroups(list) # {}
        <5>1. PICK g \in MetaGroups(list) : TRUE
          BY <4>3
        <5>2. i \in DOMAIN g.indices /\ g.indices[i] = t
          BY <1>7, <4>1, <5>1 DEF Indices
        <5> QED BY <1>1, <5>1, <5>2 DEF Grouped
      <4> QED BY <4>2, <4>3
    <3> QED BY <3>2, <3>3
  <2> QED BY <2>1, <2>2, <2>3
<1>10. \A q \in PatternNames : OnePattern(byType[q], q)'
  <2>1. OnePattern(byType[p], p)'
    BY <1>4, <1>5 DEF OnePattern
  <2>2. ASSUME NEW q \in PatternNames, q # p PROVE OnePattern(byType[q], q)'
    BY <1>4, <2>2 DEF OnePattern, IInv
  <2> QED BY <2>1, <2>2
<1>11. \A q \in PatternNames : \A i \in DOMAIN byType'[q] : IsOfPlatter(byType[q][i])'
  BY <1>1, <1>4, <1>5 DEF IInv, IsOfPlatter
<1>12. \A e \in remaining' : IsOfPlatter(e)'
  BY <1>1, <1>6 DEF IsOfPlatter
<1>13. AllTracksDecoded'
  BY <1>1 DEF AllTracksDecoded
<1> QED
  BY <1>1, <1>4, <1>6, <1>8, <1>9, <1>10, <1>11, <1>12, <1>13 DEF IInv

\* Decode: every pair it stores is one of the platter, and every track has a pair.
LEMMA DecodeIInv ==
  ASSUME IInv, Decode
  PROVE  IInv'
<1>1. /\ phase' = "done" /\ UNCHANGED <<platter, byType, groups, remaining>>
      /\ \A p \in PatternNames : byType[p] = <<>>
  BY DEF Decode
<1> DEFINE alone == {<<e.idx, TrackOf(e.params)>> : e \in remaining}
           inGroup(g) == {<<g.indices[k], DecodedTrack(g, k)>> : k \in DOMAIN g.indices}
           wanted == {<<i - 1, TrackOf(platter[i])>> : i \in DOMAIN platter}
<1>2. decoded' = alone \union UNION {inGroup(g) : g \in groups}
  BY DEF Decode
<1>3. DOMAIN platter = 1 .. Len(platter) /\ Len(platter) \in Nat
  BY LenProperties DEF IInv
<1>4. \A t \in Nat : t + 1 \in DOMAIN platter => <<t, TrackOf(platter[t + 1])>> \in wanted
  <2>1. ASSUME NEW t \in Nat, t + 1 \in DOMAIN platter
        PROVE  <<t, TrackOf(platter[t + 1])>> \in wanted
    <3>1. (t + 1) - 1 = t
      OBVIOUS
    <3>2. <<(t + 1) - 1, TrackOf(platter[t + 1])>> \in wanted
      BY <2>1
    <3> QED BY <3>1, <3>2
  <2> QED BY <2>1
<1>5. alone \subseteq wanted
  <2>1. ASSUME NEW e \in remaining PROVE <<e.idx, TrackOf(e.params)>> \in wanted
    <3>1. e.idx \in Nat /\ e.idx + 1 \in DOMAIN platter /\ e.params = platter[e.idx + 1]
      BY DEF IInv, IsOfPlatter, Entry
    <3> QED BY <1>4, <3>1
  <2> QED BY <2>1
<1>6. \A g \in groups : inGroup(g) \subseteq wanted
  <2>1. ASSUME NEW g \in groups, NEW k \in DOMAIN g.indices
        PROVE  <<g.indices[k], DecodedTrack(g, k)>> \in wanted
    <3>1. /\ g.indices[k] \in Nat /\ g.indices[k] + 1 \in DOMAIN platter
          /\ DecodedTrack(g, k) = TrackOf(platter[g.indices[k] + 1])
      BY DEF IInv, ExactGroup
    <3> QED BY <1>4, <3>1
  <2> QED BY <2>1
<1>7. ASSUME NEW i \in DOMAIN platter
      PROVE  <<i - 1, TrackOf(platter[i])>> \in decoded'
  <2>1. i - 1 \in 0 .. Len(platter) - 1 /\ (i - 1) + 1 = i
    BY <1>3
  <2>2. ~Waiting(i - 1)
    BY <1>1 DEF Waiting
  <2>3. CASE Alone(i - 1)
    <3>1. PICK e \in remaining : e.idx = i - 1
      BY <2>3 DEF Alone
    <3>2. TrackOf(e.params) = TrackOf(platter[i])
      BY <2>1, <3>1 DEF IInv, IsOfPlatter
    <3> QED BY <1>2, <3>1, <3>2
  <2>4. CASE Grouped(i - 1)
    <3>1. PICK g \in groups : \E k \in DOMAIN g.indices : g.indices[k] = i - 1
      BY <2>4 DEF Grouped
    <3>2. PICK k \in DOMAIN g.indices : g.indices[k] = i - 1
      BY <3>1
    <3>3. DecodedTrack(g, k) = TrackOf(platter[i])
      BY <2>1, <3>2 DEF IInv, ExactGroup
    <3>4. <<i - 1, TrackOf(platter[i])>> \in inGroup(g)
      BY <3>2, <3>3
    <3> QED BY <1>2, <3>4
  <2> QED BY <2>1, <2>2, <2>3, <2>4 DEF IInv
<1>8. decoded' = wanted
  BY <1>2, <1>5, <1>6, <1>7
<1>9. AllTracksDecoded'
  BY <1>1, <1>8 DEF AllTracksDecoded
<1>10. \A g \in groups' : ExactGroup(g)' /\ SmallGroup(g)'
  BY <1>1 DEF IInv, ExactGroup, SmallGroup
<1>11. \A t \in 0 .. Len(platter') - 1 : (Waiting(t) \/ Alone(t) \/ Grouped(t))'
  BY <1>1 DEF IInv, Waiting, Alone, Grouped
<1> QED
  BY <1>1, <1>9, <1>10, <1>11 DEF IInv, OnePattern, IsOfPlatter

\* Every step of cross_track_optimize and of decode keeps it.
LEMMA NextIInv == IInv /\ [Next]_vars => IInv'
<1> SUFFICES ASSUME IInv, [Next]_vars PROVE IInv'
  OBVIOUS
<1>1. ASSUME NEW p \in Params, Analyze(p) PROVE IInv'
  BY <1>1, AnalyzeIInv
<1>2. CASE Start
  BY <1>2 DEF Start, IInv, OnePattern, IsOfPlatter, ExactGroup, SmallGroup, Waiting, Alone,
              Grouped, AllTracksDecoded
<1>3. ASSUME NEW p \in PatternNames, Optimize(p) PROVE IInv'
  BY <1>3, OptimizeIInv
<1>4. CASE Decode
  BY <1>4, DecodeIInv
<1>5. CASE UNCHANGED vars
  <2>1. UNCHANGED <<platter, phase, byType, groups, remaining, decoded>>
    BY <1>5 DEF vars
  <2>2. \A t : (Waiting(t) \/ Alone(t) \/ Grouped(t)) => (Waiting(t) \/ Alone(t) \/ Grouped(t))'
    BY <2>1 DEF Waiting, Alone, Grouped
  <2>3. \A g \in groups : ExactGroup(g) /\ SmallGroup(g) => ExactGroup(g)' /\ SmallGroup(g)'
    BY <2>1 DEF ExactGroup, SmallGroup
  <2>4. AllTracksDecoded'
    BY <2>1 DEF IInv, AllTracksDecoded
  <2> QED BY <2>1, <2>2, <2>3, <2>4 DEF IInv, OnePattern, IsOfPlatter
<1> QED BY <1>1, <1>2, <1>3, <1>4, <1>5 DEF Next

(* Every state has its type. *)
THEOREM TypeCorrect == Spec => []TypeOK
<1>1. IInv => TypeOK
  BY DEF IInv, TypeOK, Entry
<1> QED BY <1>1, InitIInv, NextIInv, PTL DEF Spec

(* A meta group of any size decodes, index by index, to the tracks of the entries it  *)
(* replaced.                                                                           *)
THEOREM GroupsAlwaysExact == Spec => []GroupsExact
<1>1. IInv => GroupsExact
  BY DEF IInv, GroupsExact, ExactGroup
<1> QED BY <1>1, InitIInv, NextIInv, PTL DEF Spec

(* In whatever order the loop over the HashMap took the patterns, the decoder gets     *)
(* every track of the platter, and only these.                                         *)
THEOREM AllTracksAlwaysDecoded == Spec => []AllTracksDecoded
<1>1. IInv => AllTracksDecoded
  BY DEF IInv
<1> QED BY <1>1, InitIInv, NextIInv, PTL DEF Spec

(* The savings checks never let a group through that is larger than its entries.       *)
THEOREM GroupsAreNeverLarger == Spec => []GroupsNeverLarger
<1>1. IInv => GroupsNeverLarger
  BY DEF IInv, GroupsNeverLarger, SmallGroup
<1> QED BY <1>1, InitIInv, NextIInv, PTL DEF Spec
=============================================================================
