----------------------------- MODULE Detectors -----------------------------
(***************************************************************************)
(* The pattern detectors of rust/src/analyzer.rs, byte by byte, for tracks *)
(* of Sectors bytes.  A track is a function on 0..Sectors-1; a detector    *)
(* answers the set of the parameters it found: empty, or one record.       *)
(*                                                                         *)
(* The detectors that compute with floating point (LinearF64, DeltaF64,    *)
(* Periodic, Poly, Exponential) rebuild the track from the parameters they *)
(* found and accept them only if every byte agrees.  What they accept is   *)
(* an oracle here: FloatFits has, for a track, the parameters their guards *)
(* and cost checks let through, with the track their formula evaluates to. *)
(***************************************************************************)
EXTENDS Integers, Sequences, FiniteSets, FiniteSetsExt

CONSTANTS
  Sectors,      \* sectors_per_track
  MaxRun,       \* 255: a run count is a u8
  UniqueLimit   \* 200: distinct bytes above which a track is of high entropy

\* SECTOR_CANDIDATES are powers of two from 8 to 512.
ASSUME SectorsAssumption ==
  Sectors \in {8 * k : k \in 1 .. 64} /\ MaxRun \in Nat \ {0} /\ UniqueLimit \in Nat

n == Sectors
Idx == 0 .. n - 1
Byte == 0 .. 255

Accept(cond, params) == IF cond THEN {params} ELSE {}

\* What a search through S in ascending order stops at.
Least(S) == {k \in S : \A j \in S : k <= j}

\* i16 difference of neighbours.
Step(t, i) == t[i] - t[i - 1]

IsLinearOn(t, lo, hi) == \A i \in lo + 2 .. hi - 1 : Step(t, i) = Step(t, i - 1)

DetectConst(t) ==
  Accept(\A i \in Idx : t[i] = t[0], [tag |-> "Const", value |-> t[0]])

DetectLinear(t) ==
  Accept(IsLinearOn(t, 0, n), [tag |-> "Linear", start |-> t[0], step |-> Step(t, 1)])

\* The end of the run of v that starts at i: the next value differs, the run has MaxRun
\* values, or the track is over.
RunEnd(v, i) == Min({j \in i + 1 .. n : j = n \/ v[j] # v[i] \/ j - i = MaxRun})

\* The greedy scan of v on lo..n-1; run k ends at[k].
RunsOf(v, lo) ==
  LET at[k \in 0 .. n] ==
        IF k = 0 THEN lo ELSE LET i == at[k - 1] IN IF i = n THEN n ELSE RunEnd(v, i)
      number == CHOOSE k \in 1 .. n : at[k - 1] # n /\ at[k] = n
  IN  [k \in 1 .. number |-> [val |-> v[at[k - 1]], count |-> at[k] - at[k - 1]]]

\* Mutant of DetectRle: as many bytes in runs as in the track are accepted.
DetectRleOnTie(t) ==
  LET runs == RunsOf(t, 0)
  IN  Accept(Len(runs) * 2 <= n, [tag |-> "Rle", runs |-> runs])

DetectRle(t) ==
  LET runs == RunsOf(t, 0)
  IN  Accept(Len(runs) * 2 < n, [tag |-> "Rle", runs |-> runs])

\* The first period that repeats and is below a third of the track.
DetectRepeat(t) ==
  LET periods == {p \in 1 .. n \div 2 : (\A i \in Idx : t[i] = t[i % p]) /\ p < n \div 3}
  IN  {[tag |-> "Repeat", period |-> p, pattern |-> [i \in 0 .. p - 1 |-> t[i]]] :
         p \in Least(periods)}

\* RLE and REPEAT together: the cheaper one, REPEAT on a tie.
RepeatOrRle(t) ==
  {r \in DetectRepeat(t) :
     \A x \in DetectRle(t) : 2 + r.period <= 2 + 2 * Len(x.runs)}

DetectDelta(t) ==
  LET deltas == [i \in 1 .. n - 1 |-> Step(t, i)]
      values == {deltas[i] : i \in DOMAIN deltas}
  IN  Accept(values \subseteq -128 .. 127 /\ Cardinality(values) <= 8,
             [tag |-> "Delta", start |-> t[0], deltas |-> deltas])

-----------------------------------------------------------------------------
(* Wide words: a w byte little endian word is a pair <<high 16 bits, low   *)
(* 16 bits>>, and so is a difference of two, with its sign in the high     *)
(* part: the code computes them in i64, wider than TLC's integers.         *)

\* What half a word counts to.
Half == 256 * 256

Word(t, w, i) ==
  IF w = 4 THEN <<t[4*i + 2] + 256 * t[4*i + 3], t[4*i] + 256 * t[4*i + 1]>>
           ELSE <<0, t[2*i] + 256 * t[2*i + 1]>>

Minus(a, b) == <<a[1] - b[1] + ((a[2] - b[2]) \div Half), (a[2] - b[2]) % Half>>

WordStep(t, w, i) == Minus(Word(t, w, i), Word(t, w, i - 1))

IsLinearWide(t, w) == \A i \in 2 .. n \div w - 1 : WordStep(t, w, i) = WordStep(t, w, 1)

\* 32 bit words first, then 16 bit words.
DetectLinearWide(t) ==
  {[tag |-> "LinearWide", width |-> w, count |-> n \div w,
    start |-> Word(t, w, 0), step |-> WordStep(t, w, 1)] :
     w \in {v \in {4, 2} : IsLinearWide(t, v) /\ (v = 2 => ~IsLinearWide(t, 4))}}

\* A difference of words that fits in a signed integer of that many bytes.
Fits(d, bytes) ==
  d[1] \in {-1, 0} /\ d[1] * Half + d[2] \in -(2^(8*bytes - 1)) .. 2^(8*bytes - 1) - 1

\* 32 bit words, deltas of one byte if they fit and pay, else of two.
DetectDeltaWide(t) ==
  LET count == n \div 4
      works == {b \in {1, 2} : /\ \A i \in 1 .. count - 1 : Fits(WordStep(t, 4, i), b)
                               /\ (6 + b * (count - 1)) * 4 < n * 3}
  IN  {[tag |-> "DeltaWide", width |-> 4, deltaWidth |-> b, start |-> Word(t, 4, 0),
        deltas |-> [i \in 1 .. count - 1 |->
                      WordStep(t, 4, i)[1] * Half + WordStep(t, 4, i)[2]]] :
         b \in Least(works)}

-----------------------------------------------------------------------------
(* Bits *)

Bit(v, k) == (v \div 2^k) % 2

\* The number whose most significant of m bits is f[0]: a shift and a bit at a time.
FromBits(f, m) ==
  LET value[k \in 0 .. m] == IF k = 0 THEN 0 ELSE 2 * value[k - 1] + f[k - 1]
  IN  value[m]

Xor(a, b) == FromBits([k \in 0 .. 7 |-> (Bit(a, 7 - k) + Bit(b, 7 - k)) % 2], 8)

PackedLen(bits) == (n * bits + 7) \div 8

\* Values of that many bits each, most significant bit first.
Pack(t, bits) ==
  LET stream(k) == IF k < n * bits THEN Bit(t[k \div bits], bits - 1 - (k % bits)) ELSE 0
  IN  [j \in 0 .. PackedLen(bits) - 1 |-> FromBits([k \in 0 .. 7 |-> stream(8*j + k)], 8)]

DetectBitPacked(t) ==
  LET max  == Max({t[i] : i \in Idx})
      bits == Min({b \in 1 .. 8 : max < 2^b})
  IN  Accept(bits < 7 /\ 1 + PackedLen(bits) < n,
             [tag |-> "BitPacked", bits |-> bits, packed |-> Pack(t, bits)])

-----------------------------------------------------------------------------
(* Arithmetic patterns *)

\* Difference number d of f[0..]: the table of detect_diff_table, a row per order.
Differences(f, len, d) ==
  LET row[k \in 0 .. d] ==
        IF k = 0 THEN f
        ELSE [i \in 0 .. len - 1 - k |-> row[k - 1][i + 1] - row[k - 1][i]]
  IN  row[d]

DetectDiffTable(t) ==
  LET row(d) == Differences(t, n, d)
      orders == {d \in 2 .. 4 : /\ \A i \in DOMAIN row(d) : row(d)[i] = row(d)[0]
                                /\ 1 + (d + 1) + 4 < n}
  IN  {[tag |-> "DiffTable", order |-> d, initial |-> [i \in 0 .. d |-> t[i]],
        diff |-> row(d)[0]] : d \in Least(orders)}

Moduli == <<256, 128, 64, 32, 16, 100, 200, 255>>

DetectModArith(t) ==
  LET a(m)   == (t[1] - t[0]) % m
      fit(m) == a(m) # 0 /\ \A i \in Idx : t[i] = (a(m) * i + t[0]) % m
  IN  {[tag |-> "ModArith", a |-> a(Moduli[k]), b |-> t[0], m |-> Moduli[k]] :
         k \in Least({j \in DOMAIN Moduli : fit(Moduli[j])})}

\* The first pair of coefficients, c1 before c2, of a recurrence modulo 256.
DetectFibonacci(t) ==
  LET fits == {c \in ((0 .. 16) \X (0 .. 16)) \ {<<0, 0>>, <<1, 0>>} :
                 \A i \in 2 .. n - 1 : t[i] = (c[1] * t[i - 1] + c[2] * t[i - 2]) % 256}
  IN  {[tag |-> "Fibonacci", seed0 |-> t[0], seed1 |-> t[1], c1 |-> c[1], c2 |-> c[2]] :
         c \in {d \in fits : \A e \in fits : 17 * d[1] + d[2] <= 17 * e[1] + e[2]}}

\* Mutant of DetectMirror: the pair in the middle is not compared.
DetectMirrorButMiddle(t) ==
  Accept(\A i \in 0 .. n \div 2 - 2 : t[i] = t[n - 1 - i],
         [tag |-> "Mirror", half |-> [i \in 0 .. n \div 2 - 1 |-> t[i]]])

DetectMirror(t) ==
  Accept(\A i \in 0 .. n \div 2 - 1 : t[i] = t[n - 1 - i],
         [tag |-> "Mirror", half |-> [i \in 0 .. n \div 2 - 1 |-> t[i]]])

\* At least three quarters one value, the exceptions listed.
DetectSparse(t) ==
  LET others(v) == {i \in Idx : t[i] # v}
  IN  {[tag |-> "Sparse", fill |-> v, entries |-> [i \in others(v) |-> t[i]]] :
         v \in {u \in {t[i] : i \in Idx} : /\ (n - Cardinality(others(u))) * 4 >= n * 3
                                           /\ 3 + Cardinality(others(u)) * 3 < n}}

\* Two, three or four segments of the same length, the last with the remainder.
DetectPiecewiseLinear(t) ==
  LET at(k, s)  == s * (n \div k)
      end(k, s) == IF s = k - 1 THEN n ELSE at(k, s + 1)
      works == {k \in 2 .. 4 : /\ n \div k >= 4
                               /\ \A s \in 0 .. k - 1 : IsLinearOn(t, at(k, s), end(k, s))
                               /\ 1 + k * 6 < n}
  IN  IF n < 16 THEN {}
      ELSE {[tag |-> "PiecewiseLinear",
             segments |-> [j \in 1 .. k |-> [at    |-> at(k, j - 1),
                                             start |-> t[at(k, j - 1)],
                                             step  |-> Step(t, at(k, j - 1) + 1)]]] :
              k \in Least(works)}

\* (start + (i as i16) * step) as u8.  The i16 product wraps from 512 bytes on, which
\* leaves the byte what it is modulo 256.
Line(start, step, i) == (start + i * step) % 256

DetectInterleavedLinear(t) ==
  Accept(/\ \A i \in 0 .. n \div 2 - 1 : /\ t[2*i] = Line(t[0], t[2] - t[0], i)
                                         /\ t[2*i + 1] = Line(t[1], t[3] - t[1], i)
         /\ 10 < n,
         [tag |-> "InterleavedLinear", count |-> n \div 2,
          startA |-> t[0], stepA |-> t[2] - t[0], startB |-> t[1], stepB |-> t[3] - t[1]])

DetectDeltaRle(t) ==
  LET runs == RunsOf([i \in 1 .. n - 1 |-> Step(t, i)], 1)
  IN  Accept(/\ \A i \in 1 .. n - 1 : Step(t, i) \in -128 .. 127
             /\ 3 + Len(runs) * 2 < n /\ Len(runs) * 2 < n - 1,
             [tag |-> "DeltaRle", start |-> t[0], runs |-> runs])

Masks == <<255, 170, 85, 15, 240>>

\* The first mask under which the track is constant or linear.
DetectXorMask(t) ==
  LET under(m) == [i \in Idx |-> Xor(t[i], m)]
      inner(m) == IF DetectConst(under(m)) # {} THEN DetectConst(under(m))
                  ELSE DetectLinear(under(m))
  IN  UNION {{[tag |-> "XorMask", mask |-> Masks[k], inner |-> p] : p \in inner(Masks[k])} :
               k \in Least({j \in DOMAIN Masks : inner(Masks[j]) # {}})}

-----------------------------------------------------------------------------
(* The floating point detectors, as an oracle *)

FloatPatterns == {"LinearF64", "DeltaF64", "Periodic", "Poly", "Exponential"}

FitsFormula(tag, parts, t) == [tag |-> tag, parts |-> parts, formula |-> t]

FitsLinearF64(t) == Accept(n >= 16 /\ 18 < n, FitsFormula("LinearF64", n \div 8, t))

FitsDeltaF64(t) ==
  Accept(n >= 16 /\ 10 + 4 * (n \div 8 - 1) < n, FitsFormula("DeltaF64", n \div 8, t))

\* With the number of components it kept.
FitsPeriodic(t) ==
  {FitsFormula("Periodic", k, t) : k \in {j \in 1 .. n \div 4 - 1 : n >= 16 /\ 4 + 18 * j < n}}

\* With the degree.
FitsPoly(t) == {FitsFormula("Poly", d, t) : d \in {e \in 2 .. 8 : 1 + 8 * (e + 1) < n}}

\* The ratio of the first two bytes is neither 0 nor 1.
FitsExponential(t) ==
  Accept(t[0] > 0 /\ t[1] > 0 /\ t[0] # t[1] /\ 10 < n, FitsFormula("Exponential", n, t))

FloatFits(t) ==
  UNION {FitsLinearF64(t), FitsDeltaF64(t), FitsPeriodic(t), FitsPoly(t), FitsExponential(t)}

HighEntropy(t) == Cardinality({t[i] : i \in Idx}) > UniqueLimit

-----------------------------------------------------------------------------
(* analyze_track *)

Order ==
  <<"Const", "Linear", "Repeat", "Rle", "LinearWide", "LinearF64", "DeltaF64", "DeltaWide",
    "BitPacked", "Delta", "Periodic", "Poly", "DiffTable", "ModArith", "Fibonacci",
    "Mirror", "Sparse", "PiecewiseLinear", "InterleavedLinear", "Exponential", "DeltaRle",
    "XorMask", "Raw">>

\* From "Periodic" on the detectors are skipped for a track of high entropy.
Expensive == {Order[k] : k \in 11 .. 22}

\* What the detector of a pattern finds; fit is what the oracle found.
Detect(tag, t, fit) ==
  CASE tag = "Const"             -> DetectConst(t)
    [] tag = "Linear"            -> DetectLinear(t)
    [] tag = "Repeat"            -> RepeatOrRle(t)
    [] tag = "Rle"               -> DetectRle(t)
    [] tag = "LinearWide"        -> DetectLinearWide(t)
    [] tag = "DeltaWide"         -> DetectDeltaWide(t)
    [] tag = "BitPacked"         -> DetectBitPacked(t)
    [] tag = "Delta"             -> DetectDelta(t)
    [] tag = "DiffTable"         -> DetectDiffTable(t)
    [] tag = "ModArith"          -> DetectModArith(t)
    [] tag = "Fibonacci"         -> DetectFibonacci(t)
    [] tag = "Mirror"            -> DetectMirror(t)
    [] tag = "Sparse"            -> DetectSparse(t)
    [] tag = "PiecewiseLinear"   -> DetectPiecewiseLinear(t)
    [] tag = "InterleavedLinear" -> DetectInterleavedLinear(t)
    [] tag = "DeltaRle"          -> DetectDeltaRle(t)
    [] tag = "XorMask"           -> DetectXorMask(t)
    [] tag \in FloatPatterns     -> {p \in {fit} : p.tag = tag}
    [] tag = "Raw"               -> {[tag |-> "Raw", data |-> t]}

\* The first pattern of Order that fits.
Analyze(t, fit) ==
  LET found(k) == IF Order[k] \in Expensive /\ HighEntropy(t) THEN {}
                  ELSE Detect(Order[k], t, fit)
      first    == CHOOSE k \in DOMAIN Order :
                    found(k) # {} /\ \A j \in 1 .. k - 1 : found(j) = {}
  IN  CHOOSE p \in found(first) : TRUE
=============================================================================
