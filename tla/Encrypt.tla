------------------------------ MODULE Encrypt -------------------------------
(***************************************************************************)
(* The encrypted containers of rust/src/encrypt.rs: PLTE (structured), PLTF*)
(* (full) and PLTD (two keys), from the tracks that analyze_platter made of*)
(* the data.                                                               *)
(*                                                                         *)
(* Track i of the data is the number i, its parameters are a record of the *)
(* track they stand for and of their length; how parameters are computed   *)
(* from bytes and back is in Detectors and TrackCodec.  The stream cipher  *)
(* is an exclusive or with a stream that key, nonce and counter fix: it is *)
(* undone by the same key and counter, a prefix of it too, and anything    *)
(* else gives bytes that mean nothing (Garbage).  How strong it is is no   *)
(* concern of this module.                                                 *)
(***************************************************************************)
EXTENDS Integers, Sequences

CONSTANTS
  Patterns,     \* names of patterns
  Supported,    \* those serialize_params has an arm for
  Named,        \* those decrypt_metadata_only has a name for
  ParamSize,    \* bytes of the parameters of each pattern
  Sectors,      \* sectors_per_track
  Sources,      \* data: sequences of the patterns of its tracks
  LengthOf,     \* data.len(), in bytes
  U16,          \* 2^16, the range of a track count and of a stream length
  U32,          \* 2^32, the range of the original length
  Zeros,        \* a track of zeros
  Garbage,      \* what deciphering with another key or counter gives
  None

Modes == {"PLTE", "PLTF", "PLTD"}

\* (original_len + sectors - 1) / sectors
TracksOf(len) == (len + Sectors - 1) \div Sectors

ASSUME EncryptAssumption ==
  /\ Supported \subseteq Patterns /\ Named \subseteq Patterns
  /\ ParamSize \in [Patterns -> Nat] /\ Sectors \in Nat \ {0}
  /\ Sources \subseteq Seq(Patterns) /\ LengthOf \in [Sources -> Nat]
  /\ \A data \in Sources : TracksOf(LengthOf[data]) = Len(data)
  /\ U16 \in Nat /\ U16 > 4 /\ U32 \in Nat \ {0}
  /\ Zeros \notin Nat /\ Garbage \notin Nat \union {Zeros}
  /\ Garbage \notin [of : Nat \union {Zeros}, len : Nat]
  /\ None \notin Nat \union {Zeros, Garbage}

VARIABLES
  mode,     \* the container
  source,   \* the data
  stage,    \* Encrypt, Params, Sealed, Decrypt, Failed, Done
  counter,  \* of the cipher, on either side
  file,     \* what is written
  slots,    \* the tracks the decoder has
  pos,      \* tracks taken so far
  view      \* what decrypt_metadata_only answers

vars == <<mode, source, stage, counter, file, slots, pos, view>>

Tracks == DOMAIN source
DataLen == LengthOf[source]

-----------------------------------------------------------------------------
(* The cipher, serialize_params and reconstruct_track *)

Enciphered(plain, key, c) == [plain |-> plain, key |-> key, counter |-> c]

Deciphered(cipher, key, c) ==
  IF cipher.key = key /\ cipher.counter = c THEN cipher.plain ELSE Garbage

\* A pattern without an arm is written as a track of zeros.
SerializeParams(i) ==
  IF source[i] \in Supported THEN [of |-> i, len |-> ParamSize[source[i]]]
  ELSE [of |-> Zeros, len |-> Sectors]

\* The track made of parameters; of meaningless ones a track or a panic.
ReconstructTrack(params) ==
  IF params = Garbage THEN {Garbage, None} ELSE {params.of}

\* A track index is a u16.
TrackIdx(i) == ((i - 1) % U16) + 1

MetaLen == 4 + 3 * Len(source)

\* Where the parameters of track i end in their stream; each has its length before it.
ParamsEnd[i \in 0 .. Len(source)] ==
  IF i = 0 THEN 0 ELSE ParamsEnd[i - 1] + 2 + SerializeParams(i).len

ParamsLen == ParamsEnd[Len(source)]

-----------------------------------------------------------------------------
Init ==
  /\ mode \in Modes /\ source \in Sources
  /\ stage = "Encrypt" /\ counter = 0 /\ file = None
  /\ slots = None /\ pos = 0 /\ view = None

OuterKey == IF mode = "PLTF" THEN "key" ELSE "outer"
InnerKey == IF mode = "PLTF" THEN "key" ELSE "inner"
InnerCounter == IF mode = "PLTF" THEN 1000000 ELSE 0

\* Empty data: encrypt_structured answers a PLTZ file of 12 bytes, the others a
\* header of their own with two empty streams.
EncryptEmpty ==
  /\ stage = "Encrypt" /\ source = <<>>
  /\ file' = IF mode = "PLTE" THEN [magic |-> "PLTZ", len |-> 12]
             ELSE [magic |-> mode, len |-> 24, length |-> 0, metaLen |-> 0, paramsLen |-> 0,
                   meta |-> Enciphered([count |-> 0, info |-> <<>>], OuterKey, 0),
                   params |-> Enciphered(<<>>, InnerKey, InnerCounter)]
  /\ stage' = "Sealed"
  /\ UNCHANGED <<mode, source, counter, slots, pos, view>>

\* encrypt_structured enciphers every track, and drops the result but for the
\* counters it used.
EncipherTracks ==
  /\ stage = "Encrypt" /\ mode = "PLTE" /\ source # <<>>
  /\ counter' = Len(source)
  /\ file' = [magic |-> "PLTE", len |-> 24, length |-> DataLen % U32,
              count |-> Len(source) % U16, entries |-> <<>>]
  /\ stage' = "Params"
  /\ UNCHANGED <<mode, source, slots, pos, view>>

\* Mutant of EncipherParams: the counter is the index of the track.
EncipherParamsByIndex ==
  LET i == Len(file.entries) + 1 IN
  /\ stage = "Params" /\ i \in Tracks
  /\ file' = [file EXCEPT !.entries = Append(@,
       [idx |-> TrackIdx(i), tag |-> source[i],
        params |-> Enciphered(SerializeParams(i), "key", i - 1)])]
  /\ counter' = counter + 1
  /\ UNCHANGED <<mode, source, stage, slots, pos, view>>

\* One entry of its second loop.
EncipherParams ==
  LET i == Len(file.entries) + 1 IN
  /\ stage = "Params" /\ i \in Tracks
  /\ file' = [file EXCEPT !.entries = Append(@,
       [idx |-> TrackIdx(i), tag |-> source[i],
        params |-> Enciphered(SerializeParams(i), "key", counter)])]
  /\ counter' = counter + 1
  /\ UNCHANGED <<mode, source, stage, slots, pos, view>>

StructuredDone ==
  /\ stage = "Params" /\ Len(file.entries) = Len(source)
  /\ stage' = "Sealed"
  /\ UNCHANGED <<mode, source, counter, file, slots, pos, view>>

\* encrypt_full and encrypt_dual_key: two streams, each with its length before it.
EncryptStreams ==
  /\ stage = "Encrypt" /\ mode # "PLTE" /\ source # <<>>
  /\ file' =
       [magic |-> mode, len |-> 24 + MetaLen + ParamsLen, length |-> DataLen % U32,
        metaLen |-> MetaLen % U16, paramsLen |-> ParamsLen % U16,
        meta |-> Enciphered([count |-> Len(source) % U16,
                             info  |-> [i \in Tracks |-> [idx |-> TrackIdx(i), tag |-> source[i]]]],
                            OuterKey, 0),
        params |-> Enciphered([i \in Tracks |-> SerializeParams(i)], InnerKey, InnerCounter)]
  /\ stage' = "Sealed"
  /\ UNCHANGED <<mode, source, counter, slots, pos, view>>

-----------------------------------------------------------------------------
Fail == stage' = "Failed" /\ UNCHANGED <<mode, source, counter, file, slots, pos, view>>

\* Mutant of OpenFile: there is room for as many tracks as a count of 16 bits has.
OpenFileByCount ==
  /\ stage = "Sealed"
  /\ IF file.magic # mode \/ file.len < (IF mode = "PLTF" THEN 20 ELSE 24) THEN Fail
     ELSE /\ slots' = [i \in 1 .. TracksOf(file.length) % U16 |-> None]
          /\ counter' = IF mode = "PLTE" THEN file.count ELSE 0
          /\ stage' = IF file.length = 0 THEN "Done" ELSE "Decrypt"
          /\ UNCHANGED <<mode, source, file, pos, view>>

\* The header: a length below the minimum or another magic is an error, and a
\* length of 0 is an answer.  The counters of the enciphered tracks are skipped.
OpenFile ==
  /\ stage = "Sealed"
  /\ IF file.magic # mode \/ file.len < (IF mode = "PLTF" THEN 20 ELSE 24) THEN Fail
     ELSE /\ slots' = [i \in 1 .. TracksOf(file.length) |-> None]
          /\ counter' = IF mode = "PLTE" THEN file.count ELSE 0
          /\ stage' = IF file.length = 0 THEN "Done" ELSE "Decrypt"
          /\ UNCHANGED <<mode, source, file, pos, view>>

\* The metadata of PLTF and PLTD.  Of a stream that is longer than its length field
\* says a prefix is left, and what follows it is not the parameters.
Meta == Deciphered(file.meta, OuterKey, 0)

Readable(i) == 4 + 3 * i <= file.metaLen

Count == IF mode = "PLTE" THEN file.count ELSE Meta.count

ParamsPrefix(i) == ParamsEnd[i] <= file.paramsLen

\* The parameters of track i, as the decoder finds them.
ParamsAt(i) ==
  IF mode = "PLTE" THEN Deciphered(file.entries[i].params, "key", counter)
  ELSE IF file.metaLen # MetaLen THEN Garbage
  ELSE Deciphered(file.params, InnerKey, InnerCounter)[i]

\* One turn of the loop over the tracks; a slice out of range is a panic, and a track behind
\* the length of the data is dropped.
TakeTrack ==
  /\ stage = "Decrypt" /\ pos < Count
  /\ LET i   == pos + 1
         idx == IF mode = "PLTE" THEN file.entries[i].idx ELSE Meta.info[i].idx IN
     IF mode # "PLTE" /\ (~Readable(Count) \/ (file.metaLen = MetaLen /\ ~ParamsPrefix(i)))
     THEN Fail
     ELSE \E track \in ReconstructTrack(ParamsAt(i)) :
            IF track = None THEN Fail
            ELSE /\ slots' = [k \in DOMAIN slots |-> IF k = idx THEN track ELSE slots[k]]
                 /\ pos' = i
                 /\ counter' = counter + 1
                 /\ UNCHANGED <<mode, source, stage, file, view>>

\* Mutant of Collect: a track that is missing is skipped.
CollectAny ==
  /\ stage = "Decrypt" /\ pos = Count
  /\ stage' = "Done" /\ UNCHANGED <<mode, source, counter, file, slots, pos, view>>

\* The tracks are put together; a missing one is an error.
Collect ==
  /\ stage = "Decrypt" /\ pos = Count
  /\ IF \E i \in DOMAIN slots : slots[i] = None THEN Fail
     ELSE stage' = "Done" /\ UNCHANGED <<mode, source, counter, file, slots, pos, view>>

\* What decrypt_metadata_only sees of track i.
Seen(i) == [idx  |-> Meta.info[i].idx,
            name |-> IF Meta.info[i].tag \in Named THEN Meta.info[i].tag ELSE "OTHER"]

\* decrypt_metadata_only, with the outer key.  It reads a count and so many tracks, and panics
\* where the stream is cut short: the one of empty data has not even the count.
DecryptMetadataOnly ==
  /\ stage = "Sealed" /\ mode = "PLTD" /\ view = None
  /\ view' = IF Readable(Count)
             THEN [panic |-> FALSE, tracks |-> [i \in 1 .. Count |-> Seen(i)]]
             ELSE [panic |-> TRUE]
  /\ UNCHANGED <<mode, source, stage, counter, file, slots, pos>>

Next ==
  \/ EncryptEmpty \/ EncipherTracks \/ EncipherParams \/ StructuredDone \/ EncryptStreams
  \/ OpenFile \/ TakeTrack \/ Collect \/ DecryptMetadataOnly

Spec == Init /\ [][Next]_vars

-----------------------------------------------------------------------------
(* Properties *)

\* Every variable has its type.
TypeOK ==
  /\ mode \in Modes /\ source \in Sources
  /\ stage \in {"Encrypt", "Params", "Sealed", "Decrypt", "Failed", "Done"}
  /\ counter \in Nat /\ pos \in 0 .. Len(source)
  /\ slots # None => slots \in [1 .. TracksOf(DataLen % U32) -> Nat \union {Zeros, Garbage, None}]

\* The fields of the container hold what it has to say.
FieldsFit ==
  /\ DataLen < U32
  /\ IF mode = "PLTE" THEN source # <<>> /\ Len(source) < U16
     ELSE MetaLen < U16 /\ ParamsLen < U16

\* Decryption never fails if the fields hold the counts and lengths of the data: with the
\* same key it never stumbles over what encryption wrote.  Of data whose length fits, it does
\* not take a file for whole whose count or streams were cut to their fields.  (Of longer
\* data it may: it asks for no more tracks than the length that is left says.)
DecryptsWhatFits ==
  /\ stage = "Done" => source = <<>> \/ FieldsFit \/ DataLen >= U32
  /\ stage = "Failed" => ~FieldsFit

\* Every reader sees the data, but for those who read nothing.  With all keys, data whose
\* length fits comes back track by track, but for the tracks whose pattern serialize_params
\* has no arm for, the counters of both sides in step.  With the outer key alone so many
\* tracks are seen as the count says, with their index and pattern, and the reader panics
\* only of empty data or if the stream was cut to its field.
ReadersSeeTheData ==
  /\ stage = "Done" /\ DataLen < U32 =>
       /\ DOMAIN slots = Tracks
       /\ \A i \in Tracks : slots[i] = (IF source[i] \in Supported THEN i ELSE Zeros)
  /\ view # None =>
       IF view.panic THEN source = <<>> \/ MetaLen >= U16
       ELSE view.tracks =
              [i \in 1 .. Len(source) % U16 |->
                [idx |-> i, name |-> IF source[i] \in Named THEN source[i] ELSE "OTHER"]]

\* encrypt.rs:286 "Fallback: store raw track": the tracks of every pattern come back.
EveryTrackComesBack ==
  stage = "Done" /\ DataLen < U32 => \A i \in Tracks : slots[i] = i
=============================================================================
