----------------------------- MODULE TrackCodec -----------------------------
(***************************************************************************)
(* One track through rust/src/codec.rs: bytes are laid out and padded,     *)
(* analyze_track picks a pattern (module Detectors), encode_track writes   *)
(* its parameters and decode_track reads them back.  A track entry carries *)
(* no length, so the decoder finds the next entry only if it consumes      *)
(* exactly what the encoder wrote.                                         *)
(***************************************************************************)
EXTENDS Detectors

CONSTANTS
  Chunks,      \* pieces of input: sequences of bytes
  RawLengths,  \* lengths the external raw compressor may answer
  None

ASSUME CodecAssumption == Chunks \subseteq Seq(Byte) /\ RawLengths \subseteq Nat

NoFit == [tag |-> "NoFit"]

-----------------------------------------------------------------------------
(* encode_track: bytes after the entry's 3 byte header *)

WireSize(p) ==
  CASE p.tag = "Const"             -> 1
    [] p.tag = "Linear"            -> 4
    [] p.tag = "Rle"               -> 2 + Len(p.runs) * 2
    [] p.tag = "Repeat"            -> 2 + p.period
    [] p.tag = "Delta"             -> 2 + Cardinality(DOMAIN p.deltas)
    [] p.tag = "Periodic"          -> 4 + p.parts * 18
    [] p.tag = "Poly"              -> 1 + (p.parts + 1) * 8
    [] p.tag = "LinearWide"        -> 19
    [] p.tag = "LinearF64"         -> 18
    [] p.tag = "DeltaF64"          -> 10 + (p.parts - 1) * 4
    [] p.tag = "XorMask"           -> 2 + (IF p.inner.tag = "Const" THEN 1 ELSE 4)
    [] p.tag = "Sparse"            -> 3 + Cardinality(DOMAIN p.entries) * 3
    [] p.tag = "PiecewiseLinear"   -> 1 + Len(p.segments) * 6
    [] p.tag = "Mirror"            -> Cardinality(DOMAIN p.half)
    [] p.tag = "InterleavedLinear" -> 10
    [] p.tag = "Exponential"       -> 10
    [] p.tag = "DeltaRle"          -> 3 + Len(p.runs) * 2
    [] p.tag = "BitPacked"         -> 1 + Cardinality(DOMAIN p.packed)
    [] p.tag = "DiffTable"         -> 1 + Cardinality(DOMAIN p.initial) + 4
    [] p.tag = "ModArith"          -> 6
    [] p.tag = "Fibonacci"         -> 4
    [] p.tag = "DeltaWide"         -> 6 + p.deltaWidth * Cardinality(DOMAIN p.deltas)
    [] p.tag = "Raw"               -> n
    [] p.tag = "RawCompressed"     -> 3 + p.size

\* The Raw arm: compressed by an external library, if that is shorter.
Compressed(p, size) ==
  IF p.tag = "Raw" /\ size < n
  THEN [tag |-> "RawCompressed", size |-> size, data |-> p.data]
  ELSE p

-----------------------------------------------------------------------------
(* decode_track *)

\* Mutant of ReadSize: the initial values of a difference table are one fewer.
ReadSizeOrder(p) ==
  CASE p.tag = "Delta"     -> 2 + (n - 1)
    [] p.tag = "Mirror"    -> n \div 2
    [] p.tag = "BitPacked" -> 1 + (n * p.bits + 7) \div 8
    [] p.tag = "DiffTable" -> 1 + p.order + 4
    [] p.tag = "DeltaWide" -> 6 + (n \div 4 - 1) * p.deltaWidth
    [] OTHER               -> WireSize(p)

\* What the decoder advances by: where it has no count it derives it from sectors.
ReadSize(p) ==
  CASE p.tag = "Delta"     -> 2 + (n - 1)
    [] p.tag = "Mirror"    -> n \div 2
    [] p.tag = "BitPacked" -> 1 + (n * p.bits + 7) \div 8
    [] p.tag = "DiffTable" -> 1 + (p.order + 1) + 4
    [] p.tag = "DeltaWide" -> 6 + (n \div 4 - 1) * p.deltaWidth
    [] OTHER               -> WireSize(p)

\* truncate(sectors)
Truncated(f) == [i \in DOMAIN f \intersect Idx |-> f[i]]

Expand(runs) ==
  LET vec[k \in 0 .. Len(runs)] ==
        IF k = 0 THEN <<>> ELSE vec[k - 1] \o [j \in 1 .. runs[k].count |-> runs[k].val]
  IN  vec[Len(runs)]

\* Running sum of m deltas in i16 cast to u8.
Sums(start, deltas, m) ==
  LET sum[k \in 0 .. m] == IF k = 0 THEN start ELSE (sum[k - 1] + deltas[k]) % 256
  IN  sum

\* Byte i of little endian words of w bytes.
ByteOf(word, w, i) ==
  LET k == i % w
  IN  IF k < 2 THEN (word[i \div w][2] \div 256^k) % 256
      ELSE (word[i \div w][1] \div 256^(k - 2)) % 256

\* start + i * step modulo 2^32
WordAt(start, step, i) ==
  LET low == start[2] + i * step[2]
  IN  <<(start[1] + i * step[1] + low \div Half) % Half, low % Half>>

\* (word + delta) as u32
WordPlus(word, delta) == WordAt(word, <<0, delta>>, 1)

Words(p) ==
  LET word[k \in 0 .. n \div p.width - 1] ==
        IF k = 0 THEN p.start ELSE WordPlus(word[k - 1], p.deltas[k])
  IN  word

\* The loop that extends the difference levels, bottom up.  After k turns, the last value
\* of the level at height h is DiffLevels(p)[k][h].
DiffLevels(p) ==
  LET level[k \in 0 .. n - 1 - p.order] ==
        IF k = 0 THEN [h \in 0 .. p.order |-> Differences(p.initial, p.order + 1, p.order - h)[h]]
        ELSE LET last == level[k - 1]
                 new[h \in 0 .. p.order] == IF h = 0 THEN p.diff ELSE last[h] + new[h - 1]
             IN  new
  IN  level

\* The last two values of the recurrence, after k turns.
Recurred(p) ==
  LET pair[k \in 0 .. n - 2] ==
        IF k = 0 THEN <<p.seed0, p.seed1>>
        ELSE LET prev == pair[k - 1]
             IN  <<prev[2], (p.c1 * prev[2] + p.c2 * prev[1]) % 256>>
  IN  pair

Unpacked(p) ==
  LET bit(k) == Bit(p.packed[k \div 8], 7 - (k % 8))
  IN  [i \in Idx |-> FromBits([k \in 0 .. p.bits - 1 |-> bit(i * p.bits + k)], p.bits)]

Pieces(p) ==
  LET ofByte(i) == CHOOSE s \in DOMAIN p.segments :
                     /\ p.segments[s].at <= i
                     /\ s < Len(p.segments) => i < p.segments[s + 1].at
      value(s, i) == Line(s.start, s.step, i - s.at)
  IN  [i \in Idx |-> value(p.segments[ofByte(i)], i)]

Decode(p) ==
  CASE p.tag = "Const"  -> [i \in Idx |-> p.value]
    [] p.tag = "Linear" -> [i \in Idx |-> Line(p.start, p.step, i)]
    [] p.tag = "Rle"    ->
         LET vec == Expand(p.runs) IN Truncated([i \in 0 .. Len(vec) - 1 |-> vec[i + 1]])
    [] p.tag = "Repeat" -> [i \in Idx |-> p.pattern[i % p.period]]
    [] p.tag = "Delta"  -> Sums(p.start, p.deltas, n - 1)
    [] p.tag = "LinearWide" ->
         LET words == [k \in 0 .. p.count - 1 |-> WordAt(p.start, p.step, k)]
         IN  Truncated([i \in 0 .. p.count * p.width - 1 |-> ByteOf(words, p.width, i)])
    [] p.tag = "DeltaWide" -> [i \in Idx |-> ByteOf(Words(p), p.width, i)]
    [] p.tag = "BitPacked" -> Unpacked(p)
    [] p.tag = "DiffTable" ->
         [i \in Idx |-> IF i <= p.order THEN p.initial[i]
                        ELSE DiffLevels(p)[i - p.order][p.order] % 256]
    [] p.tag = "ModArith"  -> [i \in Idx |-> ((p.a * i + p.b) % p.m) % 256]
    [] p.tag = "Fibonacci" -> [i \in Idx |-> IF i = 0 THEN p.seed0 ELSE Recurred(p)[i - 1][2]]
    [] p.tag = "Mirror"    -> [i \in Idx |-> IF i < n \div 2 THEN p.half[i] ELSE p.half[n - 1 - i]]
    [] p.tag = "Sparse"    ->
         [i \in Idx |-> IF i \in DOMAIN p.entries THEN p.entries[i] ELSE p.fill]
    [] p.tag = "PiecewiseLinear" -> Pieces(p)
    [] p.tag = "InterleavedLinear" ->
         Truncated([i \in 0 .. p.count * 2 - 1 |->
                      IF i % 2 = 0 THEN Line(p.startA, p.stepA, i \div 2)
                                   ELSE Line(p.startB, p.stepB, i \div 2)])
    [] p.tag = "DeltaRle"  ->
         LET deltas == Expand(p.runs) IN Truncated(Sums(p.start, deltas, Len(deltas)))
    [] p.tag = "XorMask"   ->
         [i \in Idx |-> Xor(p.mask, IF p.inner.tag = "Const" THEN p.inner.value
                                    ELSE Line(p.inner.start, p.inner.step, i))]
    [] p.tag \in FloatPatterns          -> p.formula
    [] p.tag \in {"Raw", "RawCompressed"} -> p.data

-----------------------------------------------------------------------------
VARIABLES
  phase,    \* feed, analyze, encode, decode, done
  bytes,    \* the data of this track
  track,    \* laid out, and padded
  params,   \* what analyze_track answered, then what encode_track wrote
  written,  \* bytes of the entry in the stream
  out,      \* the track decode_track returns
  consumed  \* what it advances the offset by

vars == <<phase, bytes, track, params, written, out, consumed>>

Init ==
  /\ phase = "feed" /\ bytes = <<>>
  /\ track = None /\ params = None /\ out = None
  /\ written = 0 /\ consumed = 0

Feed(c) ==
  /\ phase = "feed"
  /\ Len(bytes) + Len(c) <= n
  /\ bytes' = bytes \o c
  /\ UNCHANGED <<phase, track, params, written, out, consumed>>

\* Mutant of LayOut: the last track is not padded.
LayOutShort ==
  /\ phase = "feed" /\ bytes # <<>>
  /\ track' = [i \in 0 .. Len(bytes) - 1 |-> bytes[i + 1]]
  /\ phase' = "analyze"
  /\ UNCHANGED <<bytes, params, written, out, consumed>>

\* lay_out: a track is never empty; only the last one of the data is short.
LayOut ==
  /\ phase = "feed" /\ bytes # <<>>
  /\ track' = [i \in Idx |-> IF i < Len(bytes) THEN bytes[i + 1] ELSE 0]
  /\ phase' = "analyze"
  /\ UNCHANGED <<bytes, params, written, out, consumed>>

AnalyzeTrack ==
  /\ phase = "analyze"
  /\ \E fit \in FloatFits(track) \union {NoFit} : params' = Analyze(track, fit)
  /\ phase' = "encode"
  /\ UNCHANGED <<bytes, track, written, out, consumed>>

EncodeTrack ==
  /\ phase = "encode"
  /\ \E size \in RawLengths :
       /\ params' = Compressed(params, size)
       /\ written' = WireSize(Compressed(params, size))
  /\ phase' = "decode"
  /\ UNCHANGED <<bytes, track, out, consumed>>

DecodeTrack ==
  /\ phase = "decode"
  /\ out' = Decode(params)
  /\ consumed' = ReadSize(params)
  /\ phase' = "done"
  /\ UNCHANGED <<bytes, track, params, written>>

Next ==
  \/ \E c \in Chunks : Feed(c)
  \/ LayOut
  \/ AnalyzeTrack
  \/ EncodeTrack
  \/ DecodeTrack

Spec == Init /\ [][Next]_vars

-----------------------------------------------------------------------------
(* Properties *)

\* Every variable has its type.
TypeOK ==
  /\ phase \in {"feed", "analyze", "encode", "decode", "done"}
  /\ bytes \in Seq(Byte) /\ Len(bytes) <= n
  /\ track \in [Idx -> Byte] \union {None}
  /\ phase \in {"encode", "decode", "done"} =>
       params.tag \in {Order[k] : k \in DOMAIN Order} \union {"RawCompressed"}
  /\ written \in Nat /\ consumed \in Nat

\* Whatever pattern was picked, decoding gives the track back byte by byte
\* (SESSION.md:13).
RoundTrip == phase = "done" => out = track

\* decode_track stops exactly where encode_track did, so the next entry of the
\* platter is found.
InStep == phase = "done" => consumed = written

\* What an entry may take.  Three of the patterns do not compare themselves with the track
\* in full: deltas take the start twice, a raw track that was compressed is only compared
\* without its method and length, and wide words are not compared at all.
MostBytes(p) ==
  CASE p.tag = "Delta"         -> n + 1
    [] p.tag = "RawCompressed" -> n + 2
    [] p.tag = "LinearWide"    -> IF n < 19 THEN 19 ELSE n
    [] OTHER                   -> n

\* The cost checks of all detectors and of the Raw arm: an entry takes more than its track
\* only where a check leaves bytes out, and then no more than those.
PaysOff == phase = "done" => written <= MostBytes(params)
=============================================================================
