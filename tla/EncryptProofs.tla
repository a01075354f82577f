--------------------------- MODULE EncryptProofs ---------------------------
(***************************************************************************)
(* Proofs about Encrypt: for data of any number of tracks of any patterns, *)
(* parameters of any length and length fields of any width.                *)
(***************************************************************************)
EXTENDS Encrypt, WellFoundedInduction, TLAPS

(* The file *)

\* The entry that encrypt_structured writes for track i: the counters of the first
\* loop are behind it.
EntryOf(i) ==
  [idx |-> TrackIdx(i), tag |-> source[i],
   params |-> Enciphered(SerializeParams(i), "key", Len(source) + (i - 1))]

Entries(n) == [i \in 1 .. n |-> EntryOf(i)]

\* A PLTE file of which n entries are written.
Structured(n) ==
  [magic |-> "PLTE", len |-> 24, length |-> DataLen % U32, count |-> Len(source) % U16,
   entries |-> Entries(n)]

\* A PLTF or PLTD file, as the reader with all keys finds it.
StreamsWritten ==
  /\ file.magic = mode /\ file.len = 24 + MetaLen + ParamsLen /\ file.length = DataLen % U32
  /\ file.metaLen = MetaLen % U16 /\ file.paramsLen = ParamsLen % U16
  /\ Meta = [count |-> Len(source) % U16,
             info  |-> [i \in Tracks |-> [idx |-> TrackIdx(i), tag |-> source[i]]]]
  /\ Deciphered(file.params, InnerKey, InnerCounter) = [i \in Tracks |-> SerializeParams(i)]

EmptyWritten ==
  IF mode = "PLTE" THEN file.magic = "PLTZ"
  ELSE /\ file.magic = mode /\ file.len = 24 /\ file.length = 0
       /\ file.metaLen = 0 /\ Meta.count = 0

FileInv ==
  /\ stage = "Params" =>
       /\ mode = "PLTE" /\ source # <<>>
       /\ \E n \in 0 .. Len(source) : file = Structured(n) /\ counter = Len(source) + n
  /\ stage \in {"Sealed", "Decrypt"} =>
       IF source = <<>> THEN EmptyWritten
       ELSE IF mode = "PLTE" THEN file = Structured(Len(source)) ELSE StreamsWritten

\* The tracks the decoder makes room for.
Told == TracksOf(DataLen % U32)

(* The decoder has taken the tracks up to pos, all of them as they were if the fields  *)
(* fit; where it stands in the second stream is within what the length field says.     *)
SlotsInv ==
  /\ stage \in {"Encrypt", "Params", "Sealed"} => slots = None /\ pos = 0
  /\ stage = "Decrypt" =>
       /\ source # <<>> /\ slots \in [1 .. Told -> Nat \union {Zeros, Garbage, None}]
       /\ pos <= Len(source) % U16
       /\ \A i \in 1 .. Told : i > pos => slots[i] = None
       /\ FieldsFit => \A i \in Tracks : i <= pos => slots[i] = SerializeParams(i).of
       /\ mode = "PLTE" => counter = (Len(source) % U16) + pos
       /\ mode # "PLTE" /\ pos > 0 =>
            /\ 4 + 3 * (Len(source) % U16) <= MetaLen % U16
            /\ MetaLen % U16 = MetaLen => ParamsEnd[pos] <= ParamsLen % U16

IInv == TypeOK /\ FileInv /\ SlotsInv /\ DecryptsWhatFits /\ ReadersSeeTheData

-----------------------------------------------------------------------------
(* Where the parameters of a track end *)

\* A nonempty set of naturals has a least element.
LEMMA LeastOf ==
  ASSUME NEW S, S \subseteq Nat, S # {}
  PROVE  \E m \in S : \A k \in S : m <= k
<1> DEFINE R == OpToRel(<, Nat)
<1>1. IsWellFoundedOn(R, Nat)
  BY NatLessThanWellFounded
<1>2. PICK m \in S : \A k \in S : <<k, m>> \notin R
  <2> HIDE DEF R
  <2> QED BY <1>1, WFMin
<1>3. \A k \in S : ~(k < m)
  BY <1>2 DEF OpToRel
<1> QED BY <1>3

(* What ParamsEnd says of the first n tracks. *)
IsEnds(ends, n) ==
  ends = [i \in 0 .. n |-> IF i = 0 THEN 0 ELSE ends[i - 1] + 2 + SerializeParams(i).len]

\* The ends exist: the recursion of ParamsEnd is well founded.
LEMMA EndsExist ==
  ASSUME NEW n \in Nat
  PROVE  \E ends : IsEnds(ends, n)
<1> DEFINE Bad == {m \in Nat : ~\E ends : IsEnds(ends, m)}
<1> SUFFICES ASSUME Bad # {} PROVE FALSE
  OBVIOUS
<1>1. PICK m \in Bad : \A k \in Bad : m <= k
  <2>1. Bad \subseteq Nat
    OBVIOUS
  <2> HIDE DEF Bad
  <2> QED BY <2>1, LeastOf
<1>2. CASE m = 0
  <2>1. IsEnds([i \in 0 .. 0 |-> 0], m)
    BY <1>2 DEF IsEnds
  <2> QED BY <1>1, <2>1
<1>3. CASE m # 0
  <2>1. m - 1 \in Nat /\ m - 1 \notin Bad
    BY <1>1, <1>3
  <2>2. PICK ends : IsEnds(ends, m - 1)
    BY <2>1
  <2> DEFINE next == [i \in 0 .. m |-> IF i = m THEN ends[m - 1] + 2 + SerializeParams(m).len ELSE ends[i]]
  <2>3. \A i \in 0 .. m - 1 : next[i] = ends[i]
    BY <1>1
  <2>4. \A i \in 0 .. m - 1 : ends[i] = IF i = 0 THEN 0 ELSE ends[i - 1] + 2 + SerializeParams(i).len
    BY <2>2 DEF IsEnds
  <2>5. ASSUME NEW i \in 0 .. m
        PROVE  next[i] = IF i = 0 THEN 0 ELSE next[i - 1] + 2 + SerializeParams(i).len
    <3>1. CASE i = m
      <4>1. next[i] = ends[m - 1] + 2 + SerializeParams(m).len
        BY <3>1
      <4>2. next[m - 1] = ends[m - 1]
        BY <2>1, <2>3
      <4> QED BY <1>3, <3>1, <4>1, <4>2
    <3>2. CASE i # m /\ i # 0
      <4>1. i \in 0 .. m - 1 /\ i - 1 \in 0 .. m - 1
        BY <1>1, <3>2
      <4> QED BY <2>3, <2>4, <3>2, <4>1
    <3>3. CASE i # m /\ i = 0
      <4>1. i \in 0 .. m - 1
        BY <1>1, <3>3
      <4> QED BY <2>3, <2>4, <3>3, <4>1
    <3> QED BY <3>1, <3>2, <3>3
  <2>6. IsEnds(next, m)
    <3>1. next = [i \in 0 .. m |-> next[i]]
      OBVIOUS
    <3> HIDE DEF next
    <3> QED BY <2>5, <3>1 DEF IsEnds
  <2> QED BY <1>1, <2>6
<1> QED BY <1>2, <1>3

\* The data is a sequence.
LEMMA SourceType ==
  ASSUME source \in Sources
  PROVE  source \in Seq(Patterns) /\ Len(source) \in Nat /\ Tracks = 1 .. Len(source)
BY EncryptAssumption DEF Tracks

\* What SerializeParams answers for a track of the data.
LEMMA ParamsType ==
  ASSUME source \in Sources, NEW i \in Tracks
  PROVE  /\ source[i] \in Patterns
         /\ SerializeParams(i).len \in Nat
         /\ SerializeParams(i).of = (IF source[i] \in Supported THEN i ELSE Zeros)
         /\ SerializeParams(i) \in [of : Nat \union {Zeros}, len : Nat]
<1>1. source \in Seq(Patterns) /\ Tracks = 1 .. Len(source)
  BY SourceType
<1>2. source[i] \in Patterns /\ i \in Nat
  BY <1>1
<1>3. ParamSize[source[i]] \in Nat /\ Sectors \in Nat
  BY <1>2, EncryptAssumption
<1> QED BY <1>2, <1>3 DEF SerializeParams

\* ParamsEnd is what the writer adds up, track after track.
LEMMA ParamsEndUnfolds ==
  ASSUME source \in Sources
  PROVE  /\ ParamsEnd[0] = 0
         /\ \A i \in Tracks : ParamsEnd[i] = ParamsEnd[i - 1] + 2 + SerializeParams(i).len
<1>1. PICK n \in Nat : n = Len(source) /\ Tracks = 1 .. n
  BY SourceType
<1>2. IsEnds(ParamsEnd, Len(source))
  <2>1. \E ends : IsEnds(ends, Len(source))
    BY <1>1, EndsExist
  <2>2. ParamsEnd = CHOOSE ends : IsEnds(ends, Len(source))
    BY DEF ParamsEnd, IsEnds
  <2> QED BY <2>1, <2>2
<1>3. \A i \in 0 .. n :
        ParamsEnd[i] = IF i = 0 THEN 0 ELSE ParamsEnd[i - 1] + 2 + SerializeParams(i).len
  BY <1>1, <1>2 DEF IsEnds
<1>4. ASSUME NEW i \in Tracks
      PROVE  ParamsEnd[i] = ParamsEnd[i - 1] + 2 + SerializeParams(i).len
  BY <1>1, <1>3
<1>5. ParamsEnd[0] = 0
  BY <1>1, <1>3
<1> QED BY <1>4, <1>5

\* The ends are numbers.
LEMMA ParamsEndType ==
  ASSUME source \in Sources
  PROVE  /\ \A i \in 0 .. Len(source) : ParamsEnd[i] \in Nat
         /\ ParamsLen \in Nat
<1>1. Len(source) \in Nat /\ Tracks = 1 .. Len(source)
  BY SourceType
<1> DEFINE Bad == {i \in 0 .. Len(source) : ParamsEnd[i] \notin Nat}
<1>2. Bad = {}
  <2> SUFFICES ASSUME Bad # {} PROVE FALSE
    OBVIOUS
  <2>1. PICK m \in Bad : \A k \in Bad : m <= k
    <3>1. Bad \subseteq Nat
      BY <1>1
    <3> HIDE DEF Bad
    <3> QED BY <3>1, LeastOf
  <2>2. m # 0
    BY ParamsEndUnfolds
  <2>3. m \in Tracks /\ m - 1 \in 0 .. Len(source) /\ m - 1 \notin Bad
    BY <1>1, <2>1, <2>2
  <2>4. ParamsEnd[m] = ParamsEnd[m - 1] + 2 + SerializeParams(m).len
    BY <2>3, ParamsEndUnfolds
  <2>5. SerializeParams(m).len \in Nat
    BY <2>3, ParamsType
  <2> QED BY <2>1, <2>3, <2>4, <2>5
<1> QED BY <1>1, <1>2 DEF ParamsLen

\* No track ends behind the stream.
LEMMA ParamsEndMonotone ==
  ASSUME source \in Sources, NEW j \in 0 .. Len(source)
  PROVE  ParamsEnd[j] <= ParamsLen
<1>1. PICK n \in Nat : n = Len(source) /\ Tracks = 1 .. n
  BY SourceType
<1> DEFINE Bad == {d \in 0 .. n : ~(ParamsEnd[n - d] <= ParamsEnd[n])}
<1>2. Bad = {}
  <2> SUFFICES ASSUME Bad # {} PROVE FALSE
    OBVIOUS
  <2>1. PICK m \in Bad : \A k \in Bad : m <= k
    <3>1. Bad \subseteq Nat
      OBVIOUS
    <3> HIDE DEF Bad
    <3> QED BY <3>1, LeastOf
  <2>2. m # 0
    <3>1. n - 0 = n /\ ParamsEnd[n] \in Nat
      BY <1>1, ParamsEndType
    <3> QED BY <2>1, <3>1
  <2>3. m - 1 \in 0 .. n /\ m - 1 \notin Bad
    BY <2>1, <2>2
  <2>4. PICK k \in Tracks : k = n - (m - 1) /\ k - 1 = n - m
    <3>1. m \in 1 .. n
      BY <2>1, <2>2
    <3>2. n - (m - 1) \in 1 .. n /\ (n - (m - 1)) - 1 = n - m
      BY <3>1
    <3> QED BY <1>1, <3>2
  <2>5. ParamsEnd[k] <= ParamsEnd[n]
    BY <2>3, <2>4
  <2>6. ParamsEnd[k] = ParamsEnd[k - 1] + 2 + SerializeParams(k).len
    BY ParamsEndUnfolds
  <2>7. /\ ParamsEnd[k] \in Nat /\ ParamsEnd[k - 1] \in Nat /\ ParamsEnd[n] \in Nat
        /\ SerializeParams(k).len \in Nat
    BY <1>1, ParamsEndType, ParamsType
  <2>8. ParamsEnd[k - 1] <= ParamsEnd[n]
    BY <2>5, <2>6, <2>7
  <2> QED BY <2>1, <2>4, <2>8
<1>3. n - j \in 0 .. n /\ n - (n - j) = j
  BY <1>1
<1> QED BY <1>1, <1>2, <1>3 DEF ParamsLen

-----------------------------------------------------------------------------
(* Fields of 16 bits *)

\* A field keeps what fits, and never says more than it was given.
LEMMA FieldOf ==
  ASSUME NEW n \in Nat
  PROVE  /\ n % U16 \in Nat /\ n % U16 < U16 /\ n % U16 <= n
         /\ n < U16 => n % U16 = n
<1>1. U16 \in Nat /\ U16 > 4
  BY EncryptAssumption
<1>2. n % U16 \in 0 .. U16 - 1
  BY <1>1
<1>3. n % U16 <= n
  BY <1>1
<1>4. n < U16 => n % U16 = n
  BY <1>1
<1> QED BY <1>1, <1>2, <1>3, <1>4

\* Of data whose length fits the decoder makes room for every track.
LEMMA ToldIs ==
  ASSUME source \in Sources
  PROVE  /\ DataLen \in Nat /\ DataLen % U32 \in Nat /\ Told \in Nat
         /\ DataLen < U32 => /\ Told = Len(source)
                             /\ DataLen % U32 = 0 => source = <<>>
<1>1. DataLen \in Nat /\ TracksOf(DataLen) = Len(source) /\ U32 \in Nat \ {0} /\ Sectors \in Nat \ {0}
  BY EncryptAssumption DEF DataLen
<1>2. DataLen % U32 \in Nat
  BY <1>1
<1>3. DataLen < U32 => DataLen % U32 = DataLen
  BY <1>1
<1>4. \A n \in Nat : TracksOf(n) \in Nat
  BY <1>1 DEF TracksOf
<1>5. TracksOf(0) = 0
  BY <1>1 DEF TracksOf
<1>6. Len(source) = 0 => source = <<>>
  BY SourceType
<1> QED BY <1>1, <1>2, <1>3, <1>4, <1>5, <1>6 DEF Told

\* A track whose number fits is found under its own number.
LEMMA IdxIs ==
  ASSUME NEW i \in Nat, 1 <= i, i <= U16
  PROVE  TrackIdx(i) = i
<1>1. i - 1 \in Nat /\ i - 1 < U16
  BY EncryptAssumption
<1>2. (i - 1) % U16 = i - 1
  BY <1>1, FieldOf
<1> QED BY <1>2 DEF TrackIdx

\* The lengths of both streams, and of nothing.
LEMMA Lengths ==
  ASSUME source \in Sources
  PROVE  /\ Len(source) \in Nat /\ Tracks = 1 .. Len(source)
         /\ source # <<>> => Len(source) > 0
         /\ MetaLen = 4 + 3 * Len(source) /\ MetaLen \in Nat
         /\ ParamsLen \in Nat
<1>1. source \in Seq(Patterns) /\ Len(source) \in Nat /\ Tracks = 1 .. Len(source)
  BY SourceType
<1>2. source # <<>> => Len(source) > 0
  BY <1>1
<1> QED BY <1>1, <1>2, ParamsEndType DEF MetaLen

\* Both kinds of container announce the number of tracks and the length their fields can hold.
LEMMA CountIs ==
  ASSUME IInv, stage \in {"Sealed", "Decrypt"}, source # <<>>
  PROVE  Count = Len(source) % U16 /\ file.length = DataLen % U32
<1>1. CASE mode = "PLTE"
  BY <1>1 DEF IInv, FileInv, Structured, Count
<1>2. CASE mode # "PLTE"
  BY <1>2 DEF IInv, FileInv, StreamsWritten, Count
<1> QED BY <1>1, <1>2

-----------------------------------------------------------------------------
(* Encryption *)

LEMMA InitIInv == Init => IInv
<1> SUFFICES ASSUME Init PROVE IInv
  OBVIOUS
<1>1. Len(source) \in Nat
  BY SourceType DEF Init
<1> QED BY <1>1 DEF Init, IInv, TypeOK, FileInv, SlotsInv, DecryptsWhatFits, ReadersSeeTheData

\* One more entry.
LEMMA AppendEntry ==
  ASSUME NEW n \in Nat
  PROVE  Len(Entries(n)) = n /\ Append(Entries(n), EntryOf(n + 1)) = Entries(n + 1)
<1>1. PICK S : S = {EntryOf(i) : i \in 1 .. n + 1}
  OBVIOUS
<1>2. Entries(n) \in Seq(S) /\ Len(Entries(n)) = n
  BY <1>1 DEF Entries
<1>3. PICK es : es = Append(Entries(n), EntryOf(n + 1))
  OBVIOUS
<1>4. /\ es \in Seq(S) /\ Len(es) = n + 1
      /\ \A i \in 1 .. n : es[i] = EntryOf(i)
      /\ es[n + 1] = EntryOf(n + 1)
  <2>1. EntryOf(n + 1) \in S
    BY <1>1
  <2>2. \A i \in 1 .. n : Entries(n)[i] = EntryOf(i)
    BY DEF Entries
  <2> QED BY <1>2, <1>3, <2>1, <2>2
<1>5. es = Entries(n + 1)
  <2>1. \A i \in 1 .. n + 1 : es[i] = EntryOf(i)
    BY <1>4
  <2>2. es = [i \in 1 .. n + 1 |-> es[i]]
    BY <1>4
  <2> QED BY <2>1, <2>2 DEF Entries
<1> QED BY <1>2, <1>3, <1>5

\* What is said of the data stays said of it.
LEMMA SameData ==
  ASSUME source' = source, mode' = mode
  PROVE  /\ Tracks' = Tracks /\ MetaLen' = MetaLen /\ DataLen' = DataLen /\ Told' = Told
         /\ OuterKey' = OuterKey /\ InnerKey' = InnerKey /\ InnerCounter' = InnerCounter
         /\ ParamsEnd' = ParamsEnd /\ ParamsLen' = ParamsLen
         /\ FieldsFit' <=> FieldsFit
         /\ \A i : SerializeParams(i)' = SerializeParams(i)
         /\ \A n : Structured(n)' = Structured(n)
<1>1. /\ Tracks' = Tracks /\ MetaLen' = MetaLen /\ DataLen' = DataLen /\ Told' = Told
      /\ OuterKey' = OuterKey /\ InnerKey' = InnerKey /\ InnerCounter' = InnerCounter
  BY DEF Tracks, MetaLen, DataLen, Told, OuterKey, InnerKey, InnerCounter
<1>2. ASSUME NEW i PROVE SerializeParams(i)' = SerializeParams(i)
  BY DEF SerializeParams
<1>3. ParamsEnd' = ParamsEnd
  BY DEF ParamsEnd, SerializeParams
<1>4. ParamsLen' = ParamsLen
  BY <1>3 DEF ParamsLen
<1>5. FieldsFit' <=> FieldsFit
  BY <1>1, <1>4 DEF FieldsFit
<1>6. ASSUME NEW n PROVE Structured(n)' = Structured(n)
  BY DEF Structured, Entries, EntryOf, SerializeParams, DataLen
<1> QED BY <1>1, <1>2, <1>3, <1>4, <1>5, <1>6

\* Nor do the streams change.
LEMMA SameStreams ==
  ASSUME source' = source, mode' = mode, file' = file, StreamsWritten
  PROVE  StreamsWritten'
<1>1. Meta' = Meta
  BY SameData DEF Meta
<1>2. [i \in Tracks |-> SerializeParams(i)]' = [i \in Tracks |-> SerializeParams(i)]
  BY DEF Tracks, SerializeParams
<1> QED BY <1>1, <1>2, SameData DEF StreamsWritten

\* While nothing is decoded there is nothing to show but the type and the file.
LEMMA BeforeDecryption ==
  ASSUME IInv, source' = source, mode' = mode, slots' = slots, pos' = pos, view' = view,
         stage \in {"Encrypt", "Params"}, stage' \in {"Params", "Sealed"},
         counter' \in Nat, FileInv'
  PROVE  IInv'
<1>1. TypeOK'
  BY SameData DEF IInv, TypeOK
<1>2. SlotsInv'
  BY DEF IInv, SlotsInv
<1>3. DecryptsWhatFits'
  BY DEF DecryptsWhatFits
<1>4. ReadersSeeTheData'
  BY SameData DEF IInv, ReadersSeeTheData
<1> QED BY <1>1, <1>2, <1>3, <1>4 DEF IInv

LEMMA EncryptEmptyStep == IInv /\ EncryptEmpty => IInv'
<1> SUFFICES ASSUME IInv, EncryptEmpty PROVE IInv'
  OBVIOUS
<1>1. FileInv'
  BY SameData DEF EncryptEmpty, FileInv, EmptyWritten, Meta, Deciphered, Enciphered
<1> QED BY <1>1, BeforeDecryption DEF EncryptEmpty, IInv, TypeOK

LEMMA EncipherTracksStep == IInv /\ EncipherTracks => IInv'
<1> SUFFICES ASSUME IInv, EncipherTracks PROVE IInv'
  OBVIOUS
<1>1. source \in Sources /\ Len(source) \in Nat
  BY Lengths DEF IInv, TypeOK
<1>2. file' = Structured(0)
  BY DEF EncipherTracks, Structured, Entries
<1>3. FileInv'
  <2>1. 0 \in 0 .. Len(source) /\ counter' = Len(source) + 0
    BY <1>1 DEF EncipherTracks
  <2>2. \E n \in 0 .. Len(source') : file' = Structured(n)' /\ counter' = Len(source') + n
    BY <1>2, <2>1, SameData DEF EncipherTracks
  <2> QED BY <2>2 DEF EncipherTracks, FileInv
<1> QED BY <1>1, <1>3, BeforeDecryption DEF EncipherTracks

LEMMA EncipherParamsStep == IInv /\ EncipherParams => IInv'
<1> SUFFICES ASSUME IInv, EncipherParams PROVE IInv'
  OBVIOUS
<1>1. stage = "Params" /\ mode = "PLTE" /\ source # <<>> /\ Len(source) \in Nat /\ counter \in Nat
  BY Lengths DEF IInv, TypeOK, FileInv, EncipherParams
<1>2. PICK n \in 0 .. Len(source) : file = Structured(n) /\ counter = Len(source) + n
  BY <1>1 DEF IInv, FileInv
<1>3. file.entries = Entries(n) /\ Len(file.entries) = n
  BY <1>2, AppendEntry DEF Structured
<1>4. n + 1 \in Tracks /\ n + 1 \in 1 .. Len(source)
  BY <1>3, Lengths DEF EncipherParams, IInv, TypeOK
<1>5. file' = [file EXCEPT !.entries = Append(Entries(n), EntryOf(n + 1))]
  <2>1. counter = Len(source) + ((n + 1) - 1)
    BY <1>1, <1>2
  <2>2. EntryOf(n + 1) = [idx |-> TrackIdx(n + 1), tag |-> source[n + 1],
                          params |-> Enciphered(SerializeParams(n + 1), "key", counter)]
    BY <2>1 DEF EntryOf
  <2> QED BY <1>3, <2>2 DEF EncipherParams
<1>6. file' = Structured(n + 1)
  <2>1. Append(Entries(n), EntryOf(n + 1)) = Entries(n + 1)
    BY <1>2, AppendEntry
  <2> QED BY <1>2, <1>5, <2>1 DEF Structured
<1>7. n + 1 \in 0 .. Len(source) /\ counter' = Len(source) + (n + 1)
  BY <1>1, <1>2, <1>4 DEF EncipherParams
<1>8. FileInv'
  <2>1. \E k \in 0 .. Len(source') : file' = Structured(k)' /\ counter' = Len(source') + k
    BY <1>6, <1>7, SameData DEF EncipherParams
  <2> QED BY <1>1, <2>1 DEF EncipherParams, FileInv
<1> QED BY <1>1, <1>7, <1>8, BeforeDecryption DEF EncipherParams

LEMMA StructuredDoneStep == IInv /\ StructuredDone => IInv'
<1> SUFFICES ASSUME IInv, StructuredDone PROVE IInv'
  OBVIOUS
<1>1. stage = "Params" /\ mode = "PLTE" /\ source # <<>> /\ counter \in Nat
  BY DEF IInv, TypeOK, FileInv, StructuredDone
<1>2. PICK n \in 0 .. Len(source) : file = Structured(n)
  BY <1>1 DEF IInv, FileInv
<1>3. n = Len(source)
  <2>1. Len(file.entries) = n
    BY <1>2, Lengths, AppendEntry DEF Structured, IInv, TypeOK
  <2> QED BY <2>1 DEF StructuredDone
<1>4. FileInv'
  BY <1>1, <1>2, <1>3, SameData DEF StructuredDone, FileInv
<1> QED BY <1>1, <1>4, BeforeDecryption DEF StructuredDone

LEMMA EncryptStreamsStep == IInv /\ EncryptStreams => IInv'
<1> SUFFICES ASSUME IInv, EncryptStreams PROVE IInv'
  OBVIOUS
<1>1. StreamsWritten'
  <2>1. /\ file'.magic = mode /\ file'.len = 24 + MetaLen + ParamsLen /\ file'.length = DataLen % U32
        /\ file'.metaLen = MetaLen % U16 /\ file'.paramsLen = ParamsLen % U16
    BY DEF EncryptStreams
  <2>2. file'.meta = Enciphered([count |-> Len(source) % U16,
                         info  |-> [i \in Tracks |-> [idx |-> TrackIdx(i), tag |-> source[i]]]],
                        OuterKey, 0)
    BY DEF EncryptStreams
  <2>3. file'.params = Enciphered([i \in Tracks |-> SerializeParams(i)], InnerKey, InnerCounter)
    BY DEF EncryptStreams
  <2>4. source' = source /\ mode' = mode
    BY DEF EncryptStreams
  <2>5. Meta' = [count |-> Len(source) % U16,
                 info  |-> [i \in Tracks |-> [idx |-> TrackIdx(i), tag |-> source[i]]]]
    BY <2>2, <2>4, SameData DEF Meta, Deciphered, Enciphered
  <2>6. Deciphered(file'.params, InnerKey, InnerCounter) = [i \in Tracks |-> SerializeParams(i)]
    BY <2>3 DEF Deciphered, Enciphered
  <2>7. [i \in Tracks |-> SerializeParams(i)]' = [i \in Tracks |-> SerializeParams(i)]
    BY <2>4 DEF Tracks, SerializeParams
  <2> QED BY <2>1, <2>4, <2>5, <2>6, <2>7, SameData DEF StreamsWritten
<1>2. FileInv'
  BY <1>1 DEF EncryptStreams, FileInv
<1> QED BY <1>2, BeforeDecryption DEF EncryptStreams, IInv, TypeOK

-----------------------------------------------------------------------------
(* Decryption *)

\* What the readers share: a step within decryption leaves the data and the file.
LEMMA FailStep ==
  ASSUME IInv, Fail, stage # "Done", ~FieldsFit
  PROVE  IInv'
<1>1. TypeOK'
  BY SameData DEF IInv, TypeOK, Fail
<1>2. FileInv' /\ SlotsInv'
  BY DEF Fail, FileInv, SlotsInv
<1>3. DecryptsWhatFits'
  BY SameData DEF Fail, DecryptsWhatFits
<1>4. ReadersSeeTheData'
  BY SameData DEF IInv, ReadersSeeTheData, Fail
<1> QED BY <1>1, <1>2, <1>3, <1>4 DEF IInv

\* Nothing but the file of nothing, in the structured container, is refused at once.
LEMMA Opens ==
  ASSUME IInv, stage = "Sealed"
  PROVE  \/ /\ file.magic = mode /\ ~(file.len < (IF mode = "PLTF" THEN 20 ELSE 24))
            /\ file.length = DataLen % U32
         \/ file.magic # mode /\ ~FieldsFit
<1>0. /\ Len(source) \in Nat /\ MetaLen \in Nat /\ ParamsLen \in Nat
      /\ source = <<>> => Len(source) = 0
      /\ source # <<>> => Len(source) > 0
  BY Lengths DEF IInv, TypeOK
<1>1. CASE source = <<>> /\ mode = "PLTE"
  BY <1>1 DEF IInv, FileInv, EmptyWritten, FieldsFit
<1>2. CASE source = <<>> /\ mode # "PLTE"
  <2>1. DataLen % U32 = 0
    <3>1. Sectors \in Nat \ {0} /\ U32 \in Nat \ {0} /\ DataLen \in Nat /\ TracksOf(DataLen) = 0
      BY <1>0, <1>2, EncryptAssumption DEF IInv, TypeOK, DataLen
    <3>2. DataLen = 0
      BY <3>1 DEF TracksOf
    <3> QED BY <3>1, <3>2
  <2> QED BY <1>2, <2>1 DEF IInv, FileInv, EmptyWritten
<1>3. CASE source # <<>> /\ mode = "PLTE"
  BY <1>3 DEF IInv, FileInv, Structured
<1>4. CASE source # <<>> /\ mode # "PLTE"
  <2>1. StreamsWritten
    BY <1>4 DEF IInv, FileInv
  <2>2. file.len \in Nat /\ file.len >= 24
    BY <1>0, <2>1 DEF StreamsWritten
  <2> QED BY <2>1, <2>2 DEF StreamsWritten
<1> QED BY <1>1, <1>2, <1>3, <1>4

LEMMA OpenFileStep == IInv /\ OpenFile => IInv'
<1> SUFFICES ASSUME IInv, OpenFile PROVE IInv'
  OBVIOUS
<1>1. /\ stage = "Sealed" /\ source \in Sources /\ mode \in Modes
      /\ slots = None /\ pos = 0
  BY DEF IInv, TypeOK, SlotsInv, OpenFile
<1>2. /\ Len(source) \in Nat /\ Tracks = 1 .. Len(source)
      /\ source # <<>> => Len(source) > 0
  BY <1>1, Lengths
<1>3. CASE file.magic # mode
  <2>1. ~FieldsFit
    BY <1>1, <1>3, Opens
  <2> QED BY <1>1, <1>3, <2>1, FailStep DEF OpenFile
<1>4. CASE file.magic = mode
  <2>1. /\ file.length = DataLen % U32
        /\ ~(file.len < (IF mode = "PLTF" THEN 20 ELSE 24))
    BY <1>1, <1>4, Opens
  <2>2. /\ slots' = [i \in 1 .. Told |-> None]
        /\ counter' = (IF mode = "PLTE" THEN file.count ELSE 0)
        /\ stage' = (IF DataLen % U32 = 0 THEN "Done" ELSE "Decrypt")
        /\ mode' = mode /\ source' = source /\ file' = file /\ pos' = 0 /\ view' = view
    BY <1>1, <1>4, <2>1 DEF OpenFile, Told
  <2>9. /\ DataLen \in Nat /\ Told \in Nat
        /\ DataLen < U32 => Told = Len(source) /\ (DataLen % U32 = 0 => source = <<>>)
        /\ source = <<>> => DataLen % U32 = 0
    <3>1. source = <<>> => DataLen % U32 = 0
      <4>1. source = <<>> => mode # "PLTE" /\ EmptyWritten
        BY <1>1, <1>4 DEF IInv, FileInv, EmptyWritten
      <4> QED BY <2>1, <4>1 DEF EmptyWritten
    <3> QED BY <1>1, <3>1, ToldIs
  <2>3. counter' \in Nat /\ (mode = "PLTE" => counter' = Len(source) % U16)
    <3>1. Len(source) % U16 \in Nat
      BY <1>2, FieldOf
    <3>2. mode = "PLTE" => file.count = Len(source) % U16
      <4>1. mode = "PLTE" => source # <<>>
        BY <1>1, <1>4 DEF IInv, FileInv, EmptyWritten
      <4> QED BY <1>1, <4>1 DEF IInv, FileInv, Structured
    <3> QED BY <2>2, <3>1, <3>2
  <2>4. TypeOK'
    <3>1. stage' \in {"Decrypt", "Done"} /\ pos' \in 0 .. Len(source)
      BY <1>2, <2>2
    <3>2. slots' \in [1 .. Told -> Nat \union {Zeros, Garbage, None}]
      BY <2>2
    <3>3. Told' = TracksOf(DataLen' % U32) /\ Told' = Told
      BY <2>2, SameData DEF Told
    <3> QED BY <1>1, <2>2, <2>3, <3>1, <3>2, <3>3 DEF TypeOK
  <2>5. FileInv'
    <3>1. CASE stage' = "Done"
      BY <3>1 DEF FileInv
    <3>2. CASE stage' = "Decrypt"
      <4>1. source # <<>>
        BY <2>2, <2>9, <3>2
      <4>2. (mode = "PLTE" => file = Structured(Len(source))) /\ (mode # "PLTE" => StreamsWritten)
        BY <1>1, <4>1 DEF IInv, FileInv
      <4>3. mode = "PLTE" => file' = Structured(Len(source))'
        BY <2>2, <4>2, SameData
      <4>4. mode # "PLTE" => StreamsWritten'
        BY <2>2, <4>2, SameStreams
      <4> QED BY <2>2, <3>2, <4>1, <4>3, <4>4 DEF FileInv
    <3> QED BY <2>2, <3>1, <3>2
  <2>6. SlotsInv'
    <3>1. CASE stage' = "Done"
      BY <3>1 DEF SlotsInv
    <3>2. CASE stage' = "Decrypt"
      <4>1. source # <<>>
        BY <2>2, <2>9, <3>2
      <4>2. Len(source) % U16 \in Nat
        BY <1>2, FieldOf
      <4>3. \A i \in 1 .. Told : slots'[i] = None
        BY <2>2
      <4>6. \A i \in Tracks : i > 0
        BY <1>2
      <4>4. slots' \in [1 .. Told -> Nat \union {Zeros, Garbage, None}]
        BY <2>2
      <4>5. mode = "PLTE" => counter' = (Len(source) % U16) + 0
        BY <2>3, <4>1, <4>2
      <4> QED BY <1>2, <2>2, <3>2, <4>1, <4>2, <4>3, <4>4, <4>5, <4>6, SameData DEF SlotsInv
    <3> QED BY <2>2, <3>1, <3>2
  <2>7. DecryptsWhatFits'
    <3>1. stage' = "Done" => source = <<>> \/ DataLen >= U32
      BY <2>2, <2>9, EncryptAssumption
    <3>2. stage' # "Failed" /\ DataLen' = DataLen
      BY <2>2, SameData
    <3> QED BY <2>2, <3>1, <3>2 DEF DecryptsWhatFits
  <2>8. ReadersSeeTheData'
    <3>1. stage' = "Done" /\ DataLen' < U32 => Tracks' = {} /\ DOMAIN slots' = {}
      BY <1>2, <2>2, <2>9, SameData
    <3> QED BY <2>2, <3>1, SameData DEF IInv, ReadersSeeTheData
  <2> QED BY <2>4, <2>5, <2>6, <2>7, <2>8 DEF IInv
<1> QED BY <1>3, <1>4

LEMMA CollectStep == IInv /\ Collect => IInv'
<1> SUFFICES ASSUME IInv, Collect PROVE IInv'
  OBVIOUS
<1>1. /\ stage = "Decrypt" /\ pos = Count /\ source \in Sources
      /\ source # <<>> /\ slots \in [1 .. Told -> Nat \union {Zeros, Garbage, None}]
  BY DEF IInv, TypeOK, SlotsInv, Collect
<1>2. /\ Len(source) \in Nat /\ Tracks = 1 .. Len(source) /\ Len(source) > 0
      /\ MetaLen = 4 + 3 * Len(source) /\ ParamsLen \in Nat
  BY <1>1, Lengths
<1>3. PICK n \in Nat : n = Len(source) % U16 /\ n < U16 /\ n <= Len(source) /\ pos = n
                      /\ (Len(source) < U16 => n = Len(source))
  BY <1>1, <1>2, CountIs, FieldOf
<1>6. DataLen \in Nat /\ Told \in Nat /\ (DataLen < U32 => Told = Len(source)) /\ U32 \in Nat
  BY <1>1, ToldIs, EncryptAssumption
<1>4. CASE \E i \in DOMAIN slots : slots[i] = None
  <2>1. PICK i \in 1 .. Told : slots[i] = None
    BY <1>1, <1>4
  <2>2. ASSUME FieldsFit PROVE FALSE
    <3>1. Len(source) < U16
      <4>1. CASE mode = "PLTE"
        BY <2>2, <4>1 DEF FieldsFit
      <4>2. CASE mode # "PLTE"
        <5>1. 4 + 3 * Len(source) < U16
          BY <1>2, <2>2, <4>2 DEF FieldsFit
        <5> QED BY <1>2, <5>1, EncryptAssumption
      <4> QED BY <4>1, <4>2
    <3>2. i \in Tracks /\ i <= pos
      BY <1>2, <1>3, <1>6, <2>2, <3>1 DEF FieldsFit
    <3>3. slots[i] = SerializeParams(i).of
      BY <1>1, <2>2, <3>2 DEF IInv, SlotsInv
    <3>4. SerializeParams(i).of \in Nat \union {Zeros}
      BY <1>1, <3>2, ParamsType
    <3> QED BY <2>1, <3>3, <3>4, EncryptAssumption
  <2> QED BY <1>1, <1>4, <2>2, FailStep DEF Collect
<1>5. CASE ~\E i \in DOMAIN slots : slots[i] = None
  <2>1. /\ stage' = "Done" /\ mode' = mode /\ source' = source /\ counter' = counter
        /\ file' = file /\ slots' = slots /\ pos' = pos /\ view' = view
    BY <1>5 DEF Collect
  <2>2. ASSUME DataLen < U32 PROVE pos = Len(source) /\ n = Len(source) /\ Len(source) < U16
    <3>1. Len(source) \in 1 .. Told /\ slots[Len(source)] # None
      BY <1>1, <1>2, <1>5, <1>6, <2>2
    <3>2. ~(Len(source) > pos)
      BY <1>1, <3>1 DEF IInv, SlotsInv
    <3> QED BY <1>2, <1>3, <3>2
  <2>3. ASSUME DataLen < U32 PROVE FieldsFit
    <3>1. CASE mode = "PLTE"
      BY <1>1, <2>2, <2>3, <3>1 DEF FieldsFit
    <3>2. CASE mode # "PLTE"
      <4>1. 4 + 3 * n <= MetaLen % U16
        BY <1>1, <1>2, <1>3, <2>2, <2>3, <3>2 DEF IInv, SlotsInv
      <4>2. MetaLen % U16 \in Nat /\ MetaLen % U16 < U16 /\ MetaLen % U16 <= MetaLen
        BY <1>2, FieldOf
      <4>3. MetaLen = MetaLen % U16 /\ MetaLen < U16
        BY <1>2, <2>2, <2>3, <4>1, <4>2
      <4>4. ParamsLen <= ParamsLen % U16
        <5>1. ParamsEnd[pos] <= ParamsLen % U16
          BY <1>1, <1>2, <2>2, <2>3, <3>2, <4>3 DEF IInv, SlotsInv
        <5> QED BY <2>2, <2>3, <5>1 DEF ParamsLen
      <4>5. ParamsLen % U16 \in Nat /\ ParamsLen % U16 < U16
        BY <1>2, FieldOf
      <4>6. ParamsLen < U16
        BY <1>2, <4>4, <4>5, EncryptAssumption
      <4> QED BY <2>3, <3>2, <4>3, <4>6 DEF FieldsFit
    <3> QED BY <3>1, <3>2
  <2>4. ASSUME DataLen < U32
        PROVE  /\ DOMAIN slots = Tracks
               /\ \A i \in Tracks : slots[i] = (IF source[i] \in Supported THEN i ELSE Zeros)
    <3>1. \A i \in Tracks : slots[i] = SerializeParams(i).of
      BY <1>1, <1>2, <2>2, <2>3, <2>4 DEF IInv, SlotsInv
    <3>2. DOMAIN slots = Tracks
      BY <1>1, <1>2, <1>6, <2>4
    <3> QED BY <1>1, <3>1, <3>2, ParamsType
  <2>5. TypeOK'
    BY <2>1, SameData DEF IInv, TypeOK
  <2>6. FileInv' /\ SlotsInv'
    BY <2>1 DEF FileInv, SlotsInv
  <2>7. DecryptsWhatFits'
    <3>1. FieldsFit \/ DataLen >= U32
      BY <1>6, <2>3
    <3> QED BY <2>1, <3>1, SameData DEF DecryptsWhatFits
  <2>8. ReadersSeeTheData'
    BY <2>1, <2>4, SameData DEF IInv, ReadersSeeTheData
  <2> QED BY <2>5, <2>6, <2>7, <2>8 DEF IInv
<1> QED BY <1>4, <1>5

\* If the fields fit, so do the number of tracks, their places and both lengths.
LEMMA FieldsThatFit ==
  ASSUME source \in Sources, source # <<>>, FieldsFit
  PROVE  /\ Len(source) < U16 /\ Len(source) % U16 = Len(source)
         /\ mode # "PLTE" => /\ MetaLen % U16 = MetaLen /\ ParamsLen % U16 = ParamsLen
<1>1. Len(source) \in Nat /\ MetaLen = 4 + 3 * Len(source) /\ MetaLen \in Nat /\ ParamsLen \in Nat
  BY Lengths
<1>2. Len(source) < U16
  <2>1. CASE mode = "PLTE"
    BY <2>1 DEF FieldsFit
  <2>2. CASE mode # "PLTE"
    <3>1. 4 + 3 * Len(source) < U16
      BY <1>1, <2>2 DEF FieldsFit
    <3> QED BY <1>1, <3>1, EncryptAssumption
  <2> QED BY <2>1, <2>2
<1>3. mode # "PLTE" => MetaLen < U16 /\ ParamsLen < U16
  BY DEF FieldsFit
<1> QED BY <1>1, <1>2, <1>3, FieldOf

\* What the decoder takes for the parameters of the next track: those of that track or,
\* with a counter or a place that is not the writer's, bytes without a meaning.
LEMMA NextParams ==
  ASSUME IInv, stage = "Decrypt", pos < Count
  PROVE  /\ pos + 1 \in Tracks
         /\ ParamsAt(pos + 1) \in {Garbage, SerializeParams(pos + 1)}
         /\ FieldsFit => ParamsAt(pos + 1) = SerializeParams(pos + 1)
         /\ (IF mode = "PLTE" THEN file.entries[pos + 1].idx ELSE Meta.info[pos + 1].idx) = pos + 1
<1>1. source \in Sources /\ source # <<>> /\ pos \in Nat /\ mode \in Modes
  <2>1. pos \in 0 .. Len(source) /\ Len(source) \in Nat
    BY Lengths DEF IInv, TypeOK
  <2> QED BY <2>1 DEF IInv, TypeOK, SlotsInv
<1>2. /\ Len(source) \in Nat /\ Tracks = 1 .. Len(source)
      /\ Len(source) % U16 \in Nat /\ Len(source) % U16 < U16 /\ Len(source) % U16 <= Len(source)
  BY <1>1, Lengths, FieldOf
<1>3. pos < Len(source) % U16
  BY <1>1, CountIs
<1>4. PICK i \in Tracks : i = pos + 1 /\ i \in Nat /\ TrackIdx(i) = i
  <2>1. pos + 1 \in Tracks /\ pos + 1 \in Nat /\ pos + 1 <= U16 /\ 1 <= pos + 1
    BY <1>1, <1>2, <1>3, EncryptAssumption
  <2> QED BY <2>1, IdxIs
<1>5. CASE mode = "PLTE"
  <2>1. file.entries[i] = EntryOf(i)
    BY <1>1, <1>2, <1>4, <1>5 DEF IInv, FileInv, Structured, Entries
  <2>2. file.entries[i].idx = i
    BY <1>4, <2>1 DEF EntryOf
  <2>3. file.entries[i].params = Enciphered(SerializeParams(i), "key", Len(source) + (i - 1))
    BY <2>1 DEF EntryOf
  <2>4. ParamsAt(i) = IF counter = Len(source) + (i - 1) THEN SerializeParams(i) ELSE Garbage
    BY <1>5, <2>3 DEF ParamsAt, Deciphered, Enciphered
  <2>5. FieldsFit => counter = Len(source) + (i - 1)
    <3>1. counter = (Len(source) % U16) + pos
      BY <1>5 DEF IInv, SlotsInv
    <3> QED BY <1>1, <1>2, <1>4, <3>1, FieldsThatFit
  <2> QED BY <1>4, <1>5, <2>2, <2>4, <2>5
<1>6. CASE mode # "PLTE"
  <2>1. StreamsWritten
    BY <1>1, <1>6 DEF IInv, FileInv
  <2>2. Meta.info[i].idx = i
    BY <1>4, <2>1 DEF StreamsWritten
  <2>3. ParamsAt(i) = IF file.metaLen # MetaLen THEN Garbage ELSE SerializeParams(i)
    BY <1>4, <1>6, <2>1 DEF StreamsWritten, ParamsAt
  <2>4. FieldsFit => file.metaLen = MetaLen
    BY <1>1, <1>6, <2>1, FieldsThatFit DEF StreamsWritten
  <2> QED BY <1>4, <1>6, <2>2, <2>3, <2>4
<1> QED BY <1>5, <1>6

\* Neither stream ends too early if the fields fit.
LEMMA NeverStumbles ==
  ASSUME IInv, stage = "Decrypt", pos < Count, mode # "PLTE", FieldsFit
  PROVE  Readable(Count) /\ ParamsPrefix(pos + 1)
<1>1. source \in Sources /\ source # <<>> /\ StreamsWritten
  BY DEF IInv, TypeOK, SlotsInv, FileInv
<1>2. Count = Len(source) /\ file.metaLen = MetaLen /\ file.paramsLen = ParamsLen
  BY <1>1, CountIs, FieldsThatFit DEF StreamsWritten
<1>3. MetaLen = 4 + 3 * Len(source) /\ MetaLen \in Nat
  BY <1>1, Lengths
<1>4. pos + 1 \in 0 .. Len(source)
  BY <1>1, NextParams, Lengths
<1> QED BY <1>1, <1>2, <1>3, <1>4, ParamsEndMonotone DEF Readable, ParamsPrefix

LEMMA TakeTrackStep == IInv /\ TakeTrack => IInv'
<1> SUFFICES ASSUME IInv, TakeTrack PROVE IInv'
  OBVIOUS
<1>1. /\ stage = "Decrypt" /\ pos < Count /\ source \in Sources /\ mode \in Modes
      /\ source # <<>> /\ slots \in [1 .. Told -> Nat \union {Zeros, Garbage, None}]
      /\ counter \in Nat
  BY DEF IInv, TypeOK, SlotsInv, TakeTrack
<1>2. PICK i \in Tracks :
        /\ i = pos + 1
        /\ ParamsAt(i) \in {Garbage, SerializeParams(i)}
        /\ FieldsFit => ParamsAt(i) = SerializeParams(i)
        /\ (IF mode = "PLTE" THEN file.entries[i].idx ELSE Meta.info[i].idx) = i
  BY <1>1, NextParams
<1>3. PICK n \in Nat : n = Len(source) % U16 /\ n = Count /\ n < U16 /\ n <= Len(source)
  BY <1>1, CountIs, FieldOf, Lengths
<1>4. /\ Len(source) \in Nat /\ Tracks = 1 .. Len(source) /\ pos \in 0 .. Len(source) /\ i \in Nat
  BY <1>1, Lengths DEF IInv, TypeOK
<1>5. /\ SerializeParams(i) \in [of : Nat \union {Zeros}, len : Nat]
      /\ SerializeParams(i).of \in Nat \union {Zeros} /\ SerializeParams(i) # Garbage
      /\ SerializeParams(i).of # None
  BY <1>1, ParamsType, EncryptAssumption
<1>6. CASE mode # "PLTE" /\ (~Readable(Count) \/ (file.metaLen = MetaLen /\ ~ParamsPrefix(i)))
  <2>1. ~FieldsFit
    BY <1>1, <1>2, <1>6, NeverStumbles
  <2>2. Fail
    BY <1>2, <1>6 DEF TakeTrack
  <2> QED BY <1>1, <2>1, <2>2, FailStep
<1>7. CASE ~(mode # "PLTE" /\ (~Readable(Count) \/ (file.metaLen = MetaLen /\ ~ParamsPrefix(i))))
  <2>1. PICK track \in ReconstructTrack(ParamsAt(i)) :
          IF track = None THEN Fail
          ELSE /\ slots' = [k \in DOMAIN slots |-> IF k = i THEN track ELSE slots[k]]
               /\ pos' = i /\ counter' = counter + 1
               /\ UNCHANGED <<mode, source, stage, file, view>>
    BY <1>2, <1>7 DEF TakeTrack
  <2>2. /\ track \in Nat \union {Zeros, Garbage, None}
        /\ FieldsFit => track = SerializeParams(i).of /\ track # None
    BY <1>2, <1>5, <2>1 DEF ReconstructTrack
  <2>3. CASE track = None
    BY <1>1, <2>1, <2>2, <2>3, FailStep
  <2>4. CASE track # None
    <3>1. /\ slots' = [k \in DOMAIN slots |-> IF k = i THEN track ELSE slots[k]] /\ pos' = i /\ counter' = counter + 1
          /\ mode' = mode /\ source' = source /\ stage' = stage /\ file' = file /\ view' = view
      BY <2>1, <2>4
    <3>2. slots' \in [1 .. Told -> Nat \union {Zeros, Garbage, None}]
      BY <1>1, <2>2, <3>1
    <3>3. TypeOK'
      <4>1. pos' \in 0 .. Len(source) /\ counter' \in Nat
        BY <1>1, <1>4, <3>1
      <4>2. Told' = TracksOf(DataLen' % U32) /\ Told' = Told
        BY <3>1, SameData DEF Told
      <4> QED BY <1>1, <3>1, <3>2, <4>1, <4>2 DEF TypeOK
    <3>4. FileInv'
      <4>1. (mode = "PLTE" => file = Structured(Len(source))) /\ (mode # "PLTE" => StreamsWritten)
        BY <1>1 DEF IInv, FileInv
      <4>2. mode = "PLTE" => file' = Structured(Len(source))'
        BY <3>1, <4>1, SameData
      <4>3. mode # "PLTE" => StreamsWritten'
        BY <3>1, <4>1, SameStreams
      <4> QED BY <1>1, <3>1, <4>2, <4>3 DEF FileInv
    <3>5. SlotsInv'
      <4>1. pos' <= n
        BY <1>1, <1>2, <1>3, <1>4, <3>1
      <4>2. ASSUME NEW j \in 1 .. Told, j > pos' PROVE slots'[j] = None
        <5>1. j # i /\ j > pos
          BY <1>2, <1>4, <3>1, <4>2
        <5> QED BY <1>1, <3>1, <5>1 DEF IInv, SlotsInv
      <4>3. ASSUME FieldsFit, NEW j \in Tracks, j <= pos' PROVE slots'[j] = SerializeParams(j).of
        <5>3. j \in DOMAIN slots
          BY <1>1, <1>4, <4>3, ToldIs DEF FieldsFit
        <5>1. CASE j = i
          BY <1>1, <2>2, <3>1, <4>3, <5>1, <5>3
        <5>2. CASE j # i
          <6>1. j <= pos
            BY <1>2, <1>4, <3>1, <4>3, <5>2
          <6>2. slots[j] = SerializeParams(j).of
            BY <1>1, <4>3, <6>1 DEF IInv, SlotsInv
          <6> QED BY <1>1, <3>1, <5>2, <5>3, <6>2
        <5> QED BY <5>1, <5>2
      <4>4. mode = "PLTE" => counter' = n + pos'
        <5>1. mode = "PLTE" => counter = n + pos
          BY <1>1, <1>3 DEF IInv, SlotsInv
        <5> QED BY <1>2, <1>4, <3>1, <5>1
      <4>5. ASSUME mode # "PLTE"
            PROVE  /\ 4 + 3 * n <= MetaLen % U16
                   /\ MetaLen % U16 = MetaLen => ParamsEnd[i] <= ParamsLen % U16
        <5>1. StreamsWritten
          BY <1>1, <4>5 DEF IInv, FileInv
        <5> QED BY <1>3, <1>7, <4>5, <5>1 DEF StreamsWritten, Readable, ParamsPrefix
      <4>6. Len(source') % U16 = n
        BY <1>3, <3>1
      <4>7. /\ Told' = Told /\ Tracks' = Tracks /\ MetaLen' = MetaLen /\ ParamsEnd' = ParamsEnd
            /\ ParamsLen' = ParamsLen /\ (FieldsFit' <=> FieldsFit)
        BY <3>1, SameData
      <4>8. FieldsFit' => \A j \in Tracks' : j <= pos' => slots'[j] = SerializeParams(j)'.of
        BY <3>1, <4>3, <4>7, SameData
      <4>9. ASSUME mode # "PLTE"
            PROVE  /\ 4 + 3 * (Len(source') % U16) <= MetaLen' % U16
                   /\ MetaLen' % U16 = MetaLen' => ParamsEnd'[pos'] <= ParamsLen' % U16
        <5>1. ParamsEnd'[pos'] = ParamsEnd[i]
          BY <3>1, <4>7
        <5> QED BY <4>5, <4>6, <4>7, <4>9, <5>1
      <4> QED BY <1>1, <3>1, <3>2, <4>1, <4>2, <4>4, <4>6, <4>7, <4>8, <4>9 DEF SlotsInv
    <3>6. DecryptsWhatFits' /\ stage' = "Decrypt"
      BY <1>1, <3>1 DEF DecryptsWhatFits
    <3>7. ReadersSeeTheData'
      BY <3>1, <3>6, SameData DEF IInv, ReadersSeeTheData
    <3> QED BY <3>3, <3>4, <3>5, <3>6, <3>7 DEF IInv
  <2> QED BY <2>3, <2>4
<1> QED BY <1>6, <1>7

LEMMA DecryptMetadataOnlyStep == IInv /\ DecryptMetadataOnly => IInv'
<1> SUFFICES ASSUME IInv, DecryptMetadataOnly PROVE IInv'
  OBVIOUS
<1>1. /\ stage = "Sealed" /\ mode = "PLTD" /\ source \in Sources
      /\ mode' = mode /\ source' = source /\ stage' = stage /\ counter' = counter
      /\ file' = file /\ slots' = slots /\ pos' = pos
  BY DEF IInv, TypeOK, DecryptMetadataOnly
<1>2. /\ source # <<>> => StreamsWritten
      /\ source = <<>> => EmptyWritten
  BY <1>1 DEF IInv, FileInv
<1>3. /\ Len(source) \in Nat /\ Tracks = 1 .. Len(source)
      /\ MetaLen = 4 + 3 * Len(source) /\ MetaLen \in Nat
  BY <1>1, Lengths
<1>4. TypeOK'
  BY <1>1, SameData DEF IInv, TypeOK
<1>5. FileInv'
  <2>1. source # <<>> => StreamsWritten'
    BY <1>1, <1>2, SameStreams
  <2>2. source = <<>> => EmptyWritten'
    <3>1. Meta' = Meta
      BY <1>1, SameData DEF Meta
    <3> QED BY <1>1, <1>2, <3>1 DEF EmptyWritten
  <2> QED BY <1>1, <2>1, <2>2 DEF FileInv
<1>6. SlotsInv' /\ DecryptsWhatFits'
  BY <1>1 DEF IInv, SlotsInv, DecryptsWhatFits
<1>7. CASE Readable(Count)
  <2>1. source # <<>>
    <3>1. ASSUME source = <<>> PROVE FALSE
      <4>1. file.metaLen = 0 /\ Count = 0
        BY <1>1, <1>2, <3>1 DEF EmptyWritten, Count
      <4> QED BY <1>7, <4>1 DEF Readable
    <3> QED BY <3>1
  <2>2. PICK n \in Nat : n = Len(source) % U16 /\ n = Count /\ n < U16 /\ n <= Len(source)
    BY <1>1, <1>3, <2>1, CountIs, FieldOf
  <2>3. view' = [panic |-> FALSE, tracks |-> [i \in 1 .. n |-> Seen(i)]]
    BY <1>7, <2>2 DEF DecryptMetadataOnly
  <2>4. ASSUME NEW i \in 1 .. n
        PROVE  Seen(i) = [idx |-> i, name |-> IF source[i] \in Named THEN source[i] ELSE "OTHER"]
    <3>1. i \in Tracks /\ i \in Nat /\ 1 <= i /\ i <= U16
      BY <1>3, <2>2, EncryptAssumption
    <3>2. Meta.info[i].idx = i /\ Meta.info[i].tag = source[i]
      BY <1>2, <2>1, <3>1, IdxIs DEF StreamsWritten
    <3> QED BY <3>2 DEF Seen
  <2>5. /\ view'.panic = FALSE
        /\ view'.tracks =
             [i \in 1 .. n |-> [idx |-> i, name |-> IF source[i] \in Named THEN source[i] ELSE "OTHER"]]
    BY <2>3, <2>4
  <2>6. Len(source') % U16 = n
    BY <1>1, <2>2
  <2>7. ReadersSeeTheData'
    BY <1>1, <2>5, <2>6 DEF ReadersSeeTheData
  <2> QED BY <1>4, <1>5, <1>6, <2>7 DEF IInv
<1>8. CASE ~Readable(Count)
  <2>1. view'.panic = TRUE
    BY <1>8 DEF DecryptMetadataOnly
  <2>2. ASSUME source # <<>>, MetaLen < U16 PROVE FALSE
    <3>1. Len(source) < U16
      BY <1>3, <2>2, EncryptAssumption
    <3>2. Count = Len(source) /\ file.metaLen = MetaLen
      BY <1>1, <1>2, <1>3, <2>2, <3>1, CountIs, FieldOf DEF StreamsWritten
    <3> QED BY <1>3, <1>8, <3>2 DEF Readable
  <2>3. source' = <<>> \/ MetaLen' >= U16
    <3>1. MetaLen' = MetaLen
      BY <1>1, SameData
    <3> QED BY <1>1, <1>3, <2>2, <3>1, EncryptAssumption
  <2>4. ReadersSeeTheData'
    BY <1>1, <2>1, <2>3 DEF ReadersSeeTheData
  <2> QED BY <1>4, <1>5, <1>6, <2>4 DEF IInv
<1> QED BY <1>7, <1>8

LEMMA NextIInv == IInv /\ [Next]_vars => IInv'
<1> SUFFICES ASSUME IInv, [Next]_vars PROVE IInv'
  OBVIOUS
<1>1. CASE UNCHANGED vars
  <2>1. /\ mode' = mode /\ source' = source /\ stage' = stage /\ counter' = counter
        /\ file' = file /\ slots' = slots /\ pos' = pos /\ view' = view
    BY <1>1 DEF vars
  <2>2. TypeOK'
    BY <2>1, SameData DEF IInv, TypeOK
  <2>3. FileInv'
    <3>1. StreamsWritten => StreamsWritten'
      BY <2>1, SameStreams
    <3>2. EmptyWritten' <=> EmptyWritten
      BY <2>1, SameData DEF EmptyWritten, Meta
    <3>3. \A n : Structured(n)' = Structured(n)
      BY <2>1, SameData
    <3>4. Structured(Len(source))' = Structured(Len(source))
      BY <2>1 DEF Structured, Entries, EntryOf, SerializeParams, DataLen
    <3> QED BY <2>1, <3>1, <3>2, <3>3, <3>4 DEF IInv, FileInv
  <2>4. SlotsInv'
    BY <2>1, SameData DEF IInv, SlotsInv
  <2>5. DecryptsWhatFits' /\ ReadersSeeTheData'
    BY <2>1, SameData DEF IInv, DecryptsWhatFits, ReadersSeeTheData
  <2> QED BY <2>2, <2>3, <2>4, <2>5 DEF IInv
<1> QED
  BY <1>1, EncryptEmptyStep, EncipherTracksStep, EncipherParamsStep, StructuredDoneStep,
     EncryptStreamsStep, OpenFileStep, TakeTrackStep, CollectStep, DecryptMetadataOnlyStep
  DEF Next

\* Every state of Encrypt has its type.
THEOREM TypeCorrect == Spec => []TypeOK
<1>1. IInv => TypeOK
  BY DEF IInv
<1> QED BY InitIInv, NextIInv, <1>1, PTL DEF Spec

\* encrypt_* and decrypt_*, whatever the number of tracks and the sizes of their
\* parameters: decryption never fails if the fields hold them, and of data whose length
\* fits its field it ends well only then.
THEOREM AlwaysDecryptsWhatFits == Spec => []DecryptsWhatFits
<1>1. IInv => DecryptsWhatFits
  BY DEF IInv
<1> QED BY InitIInv, NextIInv, <1>1, PTL DEF Spec

\* decrypt_* give back every track whose pattern serialize_params knows, of data whose
\* length fits its field; and decrypt_metadata_only shows the index and the pattern of as
\* many tracks as the count says or panics, of empty data or of a stream that does not fit.
THEOREM ReadersAlwaysSeeTheData == Spec => []ReadersSeeTheData
<1>1. IInv => ReadersSeeTheData
  BY DEF IInv
<1> QED BY InitIInv, NextIInv, <1>1, PTL DEF Spec
=============================================================================
